----------------------------- MODULE Federation -----------------------------
(***************************************************************************)
(* Signing in through an identity provider (internal/service/oauth,        *)
(* handler/oauth_handler.go, repository/oauth_repository.go).  A browser   *)
(* asks for a login and is sent away with a one-time state and a cookie    *)
(* that names it; it comes back through the callback, maybe twice, maybe   *)
(* with another tab's state, maybe after an administrator disabled,        *)
(* deleted or replaced the provider.  The callback spends the state, asks  *)
(* the provider who this is, and finds or registers the account.           *)
(*                                                                         *)
(* The provider's answer is an input: any subject, or a failure.  What a   *)
(* session needs besides is the business of Accounts: here a sign-in may   *)
(* be refused at its end.  A state expires when it likes.                  *)
(***************************************************************************)
EXTENDS Naturals, Sequences

CONSTANTS
    Slugs,      \* names of providers, in routes
    Browsers,   \* browsers that sign in
    Subjects,   \* people, as a provider knows them
    Visits,     \* requests in flight: the slots of the callback's semaphore
    MaxId,      \* bound: provider rows ever created
    MaxToken,   \* bound: states ever issued
    MaxPeople   \* bound: accounts ever registered

VARIABLES
    providers,  \* rows by slug: the id (0: none) and whether it is enabled
    nextId,
    states,     \* rows of auth_states
    issued,     \* history: for each state, who began it, for which row, its uses
    cookie,     \* the state each browser holds the cookie of (0: none)
    identities, \* rows of user_identities
    people,     \* accounts registered here: history, whom each was made for
    visits,     \* the requests
    signedIn    \* sessions issued: the account and whom the provider vouched for

federation == <<providers, nextId, states, issued, cookie, identities, people,
                visits, signedIn>>

NoVisit == [step |-> "none"]

FederationInit ==
    /\ providers = [s \in Slugs |-> [id |-> 0, enabled |-> FALSE]]
    /\ nextId = 1
    /\ states = {}
    /\ issued = <<>>
    /\ cookie = [b \in Browsers |-> 0]
    /\ identities = {}
    /\ people = <<>>
    /\ visits = [v \in Visits |-> NoVisit]
    /\ signedIn = {}

rows == <<providers, nextId, identities>>

Waits(v, step) == visits[v].step = step
Opens(v, visit) == visits[v] = NoVisit /\ visits' = [visits EXCEPT ![v] = visit]
Goes(v, visit) == visits' = [visits EXCEPT ![v] = visit]
Leaves(v) == visits' = [visits EXCEPT ![v] = NoVisit]
Stored(id) == \E s \in Slugs : providers[s].id = id

(* Providers, as an administrator keeps them.                              *)

CreateProvider(s, enabled) ==
    /\ providers[s].id = 0 /\ nextId <= MaxId
    /\ providers' = [providers EXCEPT ![s] = [id |-> nextId, enabled |-> enabled]]
    /\ nextId' = nextId + 1
    /\ UNCHANGED <<states, issued, cookie, identities, people, visits, signedIn>>

UpdateProvider(s) ==
    /\ providers[s].id # 0
    /\ providers' = [providers EXCEPT ![s].enabled = ~@]
    /\ UNCHANGED <<nextId, states, issued, cookie, identities, people, visits, signedIn>>

\* Pending states and identities go with the row; accounts stay.
DeleteOAuthProvider(s) ==
    LET id == providers[s].id IN
    /\ id # 0
    /\ providers' = [providers EXCEPT ![s] = [id |-> 0, enabled |-> FALSE]]
    /\ states' = {a \in states : a.id # id}
    /\ identities' = {i \in identities : i.id # id}
    /\ UNCHANGED <<nextId, issued, cookie, people, visits, signedIn>>

PostOAuthProvider == \E s \in Slugs, enabled \in BOOLEAN : CreateProvider(s, enabled)
PatchOAuthProvider == \E s \in Slugs : UpdateProvider(s)
DeleteProvider == \E s \in Slugs : DeleteOAuthProvider(s)

findEnabledProvider(s) == providers[s].id # 0 /\ providers[s].enabled

(* A login begins.                                                         *)

PostOAuthState(v, b, s) ==
    /\ findEnabledProvider(s)
    /\ Opens(v, [step |-> "begin", browser |-> b, id |-> providers[s].id])
    /\ states' = {a \in states : ~a.expired}
    /\ UNCHANGED <<rows, issued, cookie, people, signedIn>>

CreateAuthState(t, id) ==
    states \cup {[token |-> t, id |-> id, spent |-> FALSE, expired |-> FALSE]}

\* The row refers to its provider: with the provider gone there is none.
BeginLogin(v) ==
    LET visit == visits[v]
        t == Len(issued) + 1 IN
    /\ Waits(v, "begin")
    /\ Len(issued) < MaxToken
    /\ Leaves(v)
    /\ IF Stored(visit.id)
       THEN /\ states' = CreateAuthState(t, visit.id)
            /\ issued' = Append(issued, [browser |-> visit.browser, id |-> visit.id, uses |-> 0])
            /\ cookie' = [cookie EXCEPT ![visit.browser] = t]
       ELSE UNCHANGED <<states, issued, cookie>>
    /\ UNCHANGED <<rows, people, signedIn>>

AuthStateExpires(a) ==
    /\ ~a.expired
    /\ states' = (states \ {a}) \cup {[a EXCEPT !.expired = TRUE]}
    /\ UNCHANGED <<rows, issued, cookie, people, visits, signedIn>>

(* The browser comes back.                                                 *)

\* The cookie comes with the request and must name the state the provider echoed.
GetOAuthCallback(v, b, s, t) ==
    /\ cookie[b] = t
    /\ Opens(v, [step |-> "find", browser |-> b, slug |-> s, token |-> t])
    /\ UNCHANGED <<rows, states, issued, cookie, people, signedIn>>

CookieMismatch(b) ==
    /\ cookie[b] # 0 /\ \E t \in 1..Len(issued) : t # cookie[b]
    /\ cookie' = [cookie EXCEPT ![b] = 0]
    /\ UNCHANGED <<rows, states, issued, people, visits, signedIn>>

\* However it ends, the answer clears the cookie the browser holds by then.
Answer(v) == Leaves(v) /\ cookie' = [cookie EXCEPT ![visits[v].browser] = 0]

FindProvider(v) ==
    LET visit == visits[v] IN
    /\ Waits(v, "find")
    /\ IF findEnabledProvider(visit.slug)
       THEN Goes(v, [step |-> "consume", browser |-> visit.browser, token |-> visit.token,
                     id |-> providers[visit.slug].id]) /\ UNCHANGED cookie
       ELSE Answer(v)
    /\ UNCHANGED <<rows, states, issued, people, signedIn>>

\* Mutant: a state that has been spent is not looked for.
SpendableAgain(a, t, id) == a.token = t /\ a.id = id /\ ~a.expired

\* What the conditional UPDATE asks of the row.
Spendable(a, t, id) == a.token = t /\ a.id = id /\ ~a.spent /\ ~a.expired

\* Spending a state sweeps the expired ones.
ConsumeAuthState(v) ==
    LET visit == visits[v]
        mine == {a \in states : Spendable(a, visit.token, visit.id)} IN
    /\ Waits(v, "consume")
    /\ IF mine # {}
       THEN /\ states' = {a \in states \ mine : ~a.expired}
                            \cup {[a EXCEPT !.spent = TRUE] : a \in mine}
            /\ issued' = [issued EXCEPT ![visit.token].uses = @ + 1]
            /\ Goes(v, [visit EXCEPT !.step = "exchange"])
            /\ UNCHANGED cookie
       ELSE Answer(v) /\ UNCHANGED <<states, issued>>
    /\ UNCHANGED <<rows, people, signedIn>>

ExchangeFails(v) ==
    /\ Waits(v, "exchange")
    /\ Answer(v)
    /\ UNCHANGED <<rows, states, issued, people, signedIn>>

FindIdentity(id, who) == {i \in identities : i.id = id /\ i.subject = who}

SignIn(visit, who, user) ==
    [step |-> "session", browser |-> visit.browser, id |-> visit.id, subject |-> who, user |-> user]

\* The provider says who this is; the identity may be known already.
FetchUserinfo(v, who) ==
    LET visit == visits[v] IN
    /\ Waits(v, "exchange")
    /\ Goes(v, IF FindIdentity(visit.id, who) # {}
               THEN SignIn(visit, who, (CHOOSE i \in FindIdentity(visit.id, who) : TRUE).user)
               ELSE [step |-> "register", browser |-> visit.browser, id |-> visit.id,
                     subject |-> who])
    /\ UNCHANGED <<rows, states, issued, cookie, people, signedIn>>

NewPerson(visit) == Append(people, [id |-> visit.id, subject |-> visit.subject])

\* Mutant: the account is stored before the identity, on its own.
LosingPeople(visit) == NewPerson(visit)

\* A registration that fails, on the index or for want of its provider, leaves nothing.
Losing(visit) == people

\* The account and its identity, in one transaction; one that comes second reads
\* the first.
Register(v) ==
    LET visit == visits[v]
        user == Len(people) + 1
        there == FindIdentity(visit.id, visit.subject) IN
    /\ Waits(v, "register")
    /\ Len(people) < MaxPeople
    /\ IF there = {} /\ Stored(visit.id)
       THEN /\ people' = NewPerson(visit)
            /\ identities' = identities \cup
                    {[id |-> visit.id, subject |-> visit.subject, user |-> user]}
            /\ Goes(v, SignIn(visit, visit.subject, user))
            /\ UNCHANGED cookie
       ELSE /\ people' = Losing(visit)
            /\ UNCHANGED identities
            /\ IF there # {}
               THEN /\ Goes(v, SignIn(visit, visit.subject, (CHOOSE i \in there : TRUE).user))
                    /\ UNCHANGED cookie
               ELSE Answer(v)
    /\ UNCHANGED <<providers, nextId, states, issued, signedIn>>

\* Issued, or refused by the rules of Accounts.
IssueSession(v, refused) ==
    LET visit == visits[v] IN
    /\ Waits(v, "session")
    /\ signedIn' = IF refused THEN signedIn
                   ELSE signedIn \cup {[user |-> visit.user, id |-> visit.id,
                                        subject |-> visit.subject]}
    /\ Answer(v)
    /\ UNCHANGED <<rows, states, issued, people>>

FederationNext ==
    \/ PostOAuthProvider \/ PatchOAuthProvider \/ DeleteProvider
    \/ \E a \in states : AuthStateExpires(a)
    \/ \E b \in Browsers : CookieMismatch(b)
    \/ \E v \in Visits :
        \/ \E b \in Browsers, s \in Slugs :
            \/ PostOAuthState(v, b, s)
            \/ \E t \in 1..Len(issued) : GetOAuthCallback(v, b, s, t)
        \/ BeginLogin(v)
        \/ FindProvider(v) \/ ConsumeAuthState(v)
        \/ ExchangeFails(v) \/ \E who \in Subjects : FetchUserinfo(v, who)
        \/ Register(v) \/ \E refused \in BOOLEAN : IssueSession(v, refused)

FederationSpec == FederationInit /\ [][FederationNext]_federation

(* Properties.                                                             *)

\* A login takes one exchange at most, in the browser that began it and for the row
\* it began at, however often its callback is played and whatever became of the
\* provider meanwhile (the comments of ConsumeAuthState and oauthStateCookieName).
StatesAreSpentOnce ==
    /\ \A t \in 1..Len(issued) : issued[t].uses <= 1
    /\ \A v \in Visits : Waits(v, "exchange") =>
        issued[visits[v].token].browser = visits[v].browser
            /\ issued[visits[v].token].id = visits[v].id

\* Whoever a provider vouches for has one account and is signed in to no other, and
\* a registration that loses its race leaves no account behind (findOrCreateUser).
OneAccountPerIdentity ==
    /\ \A p, q \in 1..Len(people) : people[p] = people[q] => p = q
    /\ \A i \in identities : people[i.user] = [id |-> i.id, subject |-> i.subject]
    /\ \A s \in signedIn : people[s.user] = [id |-> s.id, subject |-> s.subject]

\* Both: the browser that began a login ends it, once, as whom the provider names.
LoginsAreSound == StatesAreSpentOnce /\ OneAccountPerIdentity
=============================================================================
