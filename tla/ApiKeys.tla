------------------------------ MODULE ApiKeys -------------------------------
(***************************************************************************)
(* A caller's API key: its row, the models it is confined to, the edits of *)
(* its owners and the requests that present it (service/apikey,            *)
(* repository/api_key_repository.go, handler/api_key_handler.go,           *)
(* middleware/api_key_auth.go, and the allowlist step of gateway/relay.go).*)
(*                                                                         *)
(* An edit reads the key and checks its models before its transaction,     *)
(* which locks the row by writing it and decides on the row it has become. *)
(* Models are deleted meanwhile, charges land, and a request compares what *)
(* it read of the key when it came with the allowlist of a moment later.   *)
(* Every write happens at an instant of its own, which is its updated_at.  *)
(* Remark, expiry, limits and compression are columns like any other and   *)
(* are left out.                                                           *)
(***************************************************************************)
EXTENDS Naturals

CONSTANTS
    Models,
    Edits,          \* edits in flight
    Requests,       \* gateway requests in flight
    MaxInstant      \* bound: writes of the row

VARIABLES
    key,        \* the row; prompt: override and enabled are on; text: the prompt has one
    allow,      \* rows of api_key_models
    models,     \* rows of models
    work,       \* the edits
    requests,   \* the requests; granted: history, the key has permitted this since it came
    revision,   \* history: edits of the row, charges not counted
    emptied     \* history: the allowlist lost its last model to a deletion

apikeys == <<key, allow, models, work, requests, revision, emptied>>

NoKey == [exists |-> FALSE, all |-> FALSE, prompt |-> FALSE, text |-> FALSE,
          active |-> FALSE, stamp |-> 0]
NoEdit == [step |-> "none"]

ApiKeysInit ==
    /\ key = NoKey
    /\ allow = {}
    /\ models = Models
    /\ work = [e \in Edits |-> NoEdit]
    /\ requests = [r \in Requests |-> NoEdit]
    /\ revision = 0
    /\ emptied = FALSE

Permits(k, list, m) == k.all \/ m \in list

\* What the key permits from now on, in the eyes of the requests under way.
Watched(k, list) ==
    [r \in Requests |->
        IF requests[r].step = "none" THEN NoEdit
        ELSE [requests[r] EXCEPT !.granted = @ \/ Permits(k, list, requests[r].model)]]

Store(k, list) ==
    /\ key.stamp < MaxInstant
    /\ key' = [k EXCEPT !.stamp = IF k.stamp = key.stamp THEN @ + 1 ELSE @]
    /\ allow' = list
    /\ requests' = Watched(k, list)

validateCSPInvariants(k) == k.prompt => k.text

(* Creating.                                                               *)

\* An all-models key takes no models; another needs one, and each must exist.
CreateAPIKey(all, ids, prompt, text) ==
    LET k == [exists |-> TRUE, all |-> all, prompt |-> prompt, text |-> text,
              active |-> TRUE, stamp |-> 0] IN
    /\ ~key.exists
    /\ all \/ (ids # {} /\ ids \subseteq models)
    /\ validateCSPInvariants(k)
    /\ Store(k, IF all THEN {} ELSE ids)
    /\ revision' = revision + 1
    /\ UNCHANGED <<models, work, emptied>>

PostAPIKey ==
    \E all, prompt, text \in BOOLEAN, ids \in SUBSET Models : CreateAPIKey(all, ids, prompt, text)

(* Editing: a sparse patch.  "keep" leaves a field alone; list: whether it *)
(* brings a list, the ids, of its own.                                     *)

Patches ==
    {patch \in [all : {"keep", "all", "custom"},
                list : BOOLEAN,
                ids : SUBSET Models,
                prompt : {"keep", "on", "off", "blank"}] : patch.list \/ patch.ids = {}}

Patched(k, patch) ==
    [k EXCEPT
        !.all = IF patch.all = "keep" THEN @ ELSE patch.all = "all",
        !.prompt = patch.prompt = "on" \/ (@ /\ patch.prompt # "off"),
        !.text = @ /\ patch.prompt # "blank"]

\* What an edit read before its transaction: the row's time, if its caller asked, and
\* the models it may name.
PatchAPIKey(e, cas) ==
    /\ key.exists /\ work[e] = NoEdit
    /\ work' = [work EXCEPT ![e] = [step |-> "write", known |-> models, cas |-> cas,
                                    expected |-> IF cas THEN key.stamp ELSE 0,
                                    read |-> IF cas THEN revision ELSE 0]]
    /\ UNCHANGED <<key, allow, models, requests, revision, emptied>>

Conflict(e) == work[e].cas /\ work[e].expected # key.stamp

\* Switching to all models, the ids are not looked at; others were to exist.
Wanted(patch) == IF patch.all = "all" THEN [patch EXCEPT !.list = FALSE, !.ids = {}] ELSE patch

\* Mutant: the flag the request was made for decides, not the row's.
ReconciledByRequest(k, patch) ==
    IF patch.all = "all" THEN {} ELSE IF patch.list THEN patch.ids ELSE allow

\* The allowlist the row ends up with, and whether it is one.
Reconciled(k, patch) ==
    IF k.all THEN {} ELSE IF patch.list THEN patch.ids ELSE allow

Acceptable(k, patch) ==
    \/ k.all
    \/ ~patch.list /\ (patch.all = "custom" => allow # {})
    \/ patch.list /\ patch.ids # {} /\ patch.ids \subseteq models

\* Mutant: an edit of the models alone does not touch the row.
WrittenByFields(k, patch) ==
    IF patch.all = "keep" /\ patch.prompt = "keep" THEN k ELSE [k EXCEPT !.stamp = @ + 1]

\* updated_at is always written.
Written(k, patch) == [k EXCEPT !.stamp = @ + 1]

Done(e) == work' = [work EXCEPT ![e] = NoEdit]

UpdateAPIKey(e, asked) ==
    LET patch == Wanted(asked)
        k == Patched(key, patch) IN
    /\ work[e].step = "write"
    /\ patch.ids \subseteq work[e].known
    /\ Done(e)
    /\ IF ~Conflict(e) /\ Acceptable(k, patch) /\ validateCSPInvariants(k)
       THEN /\ key.stamp < MaxInstant
            /\ key' = Written(k, patch)
            /\ allow' = Reconciled(k, patch)
            /\ requests' = Watched(k, allow')
            /\ revision' = revision + 1
            /\ emptied' = (emptied /\ allow' = {})
       ELSE UNCHANGED <<key, allow, requests, revision, emptied>>
    /\ UNCHANGED models

\* Whatever the caller read, the WHERE asks for an active row.
RevokeAPIKey ==
    /\ key.active
    /\ Store([key EXCEPT !.active = FALSE], allow)
    /\ revision' = revision + 1
    /\ UNCHANGED <<models, work, emptied>>

\* A video's charge writes updated_at too; a relayed request's does not.
ChargeVideo ==
    /\ key.exists
    /\ Store(key, allow)
    /\ UNCHANGED <<models, work, revision, emptied>>

\* DeleteModelCascade: the allowlists that name it lose it.
DeleteModel(m) ==
    /\ m \in models
    /\ models' = models \ {m}
    /\ allow' = allow \ {m}
    /\ emptied' = (emptied \/ allow = {m})
    /\ requests' = Watched(key, allow')
    /\ UNCHANGED <<key, work, revision>>

(* Requests.                                                               *)

resolveAPIKey == key.exists /\ key.active

APIKeyAuth(r, m) ==
    /\ resolveAPIKey
    /\ requests[r] = NoEdit
    /\ requests' = [requests EXCEPT ![r] = [step |-> "route", model |-> m, all |-> key.all,
                                            granted |-> Permits(key, allow, m)]]
    /\ UNCHANGED <<key, allow, models, work, revision, emptied>>

\* Mutant: any row of the allowlist will do.
HasAnyModelAccess(m) == allow # {}

HasAPIKeyModelAccess(m) == m \in allow

Admit(r) ==
    LET request == requests[r] IN
    /\ request.step = "route"
    /\ requests' = [requests EXCEPT ![r] =
            IF request.model \in models /\ (request.all \/ HasAPIKeyModelAccess(request.model))
            THEN [request EXCEPT !.step = "admitted"] ELSE NoEdit]
    /\ UNCHANGED <<key, allow, models, work, revision, emptied>>

Finish(r) ==
    /\ requests[r].step = "admitted"
    /\ requests' = [requests EXCEPT ![r] = NoEdit]
    /\ UNCHANGED <<key, allow, models, work, revision, emptied>>

ApiKeysNext ==
    \/ PostAPIKey
    \/ \E e \in Edits :
        \/ \E cas \in BOOLEAN : PatchAPIKey(e, cas)
        \/ \E patch \in Patches : UpdateAPIKey(e, patch)
    \/ RevokeAPIKey \/ ChargeVideo
    \/ \E m \in Models : DeleteModel(m)
    \/ \E r \in Requests :
        \/ \E m \in Models : APIKeyAuth(r, m)
        \/ Admit(r) \/ Finish(r)

ApiKeysSpec == ApiKeysInit /\ [][ApiKeysNext]_apikeys

(* Properties.                                                             *)

\* Whatever edits overlap, a key for all models keeps no list, one for some keeps a
\* list until the last model on it is deleted, and one that sends a prompt of its own
\* has one (UpdateAPIKey's three invariants).
KeysAreCoherent ==
    /\ key.all => allow = {}
    /\ key.exists /\ ~key.all /\ allow = {} => emptied
    /\ validateCSPInvariants(key)

\* A request is admitted only to a model its key permitted at some moment since it
\* came, though it puts together a row and a list of different moments (APIKeyAuth,
\* then the allowlist step of the relay).
AccessWasGranted ==
    \A r \in Requests : requests[r].step = "admitted" => requests[r].granted

\* Both: what a key says and what it lets through.
KeysAreKept == KeysAreCoherent /\ AccessWasGranted

\* An edit that names the row it was made for replaces that row and no later one
\* (UpdateAPIKey's comment on expectedUpdatedAt).
EditsReplaceWhatTheyRead ==
    [][\A e \in Edits :
        work[e].step = "write" /\ work[e].cas /\ work'[e] = NoEdit /\ revision' # revision
            => work[e].read = revision]_apikeys

\* A key for some models can always call one: "UpdateAPIKey/CreateAPIKey keep a custom
\* key's allowlist non-empty" (api_key_repository.go, HasAPIKeyModelAccess).
CustomKeysHaveModels == key.exists /\ ~key.all => allow # {}
=============================================================================
