------------------------------ MODULE KeyPool ------------------------------
(***************************************************************************)
(* One provider key between the gateway, which benches it or fails it on   *)
(* what its upstream answers (internal/gateway/keypool.go, relay.go), and  *)
(* the provider service, which tests and replaces it                       *)
(* (internal/service/provider/provider_service.go).  They share the key's  *)
(* database row and the pool's record of the key.                          *)
(*                                                                         *)
(* Everybody works from a snapshot: an attempt from the row its request    *)
(* loaded, a test from the row it claimed.  The verdicts come back in any  *)
(* order, any time later.                                                  *)
(***************************************************************************)
EXTENDS KeyRecord

CONSTANTS Attempts,       \* upstream attempts in flight at one time
          Tests,          \* key tests in flight at one time
          Windows,        \* how long a 429 may bench a key, in ticks
          MaxTime,        \* bound: the clock stops here
          MaxConfig,      \* bound: credentials the key ever has
          MaxGeneration   \* bound: tests ever claimed

ASSUME WindowsAssumption == Windows \subseteq Nat
ASSUME BoundsAssumption ==
    MaxTime \in Nat /\ MaxConfig \in Nat \ {0} /\ MaxGeneration \in Nat \ {0}

VARIABLES
    now,      \* keyPool.now
    pool,     \* keyPool.states[key]
    row,      \* the provider_keys row
    att,      \* what each attempt holds
    test,     \* what each test holds
    heard,    \* history: the newest verdicts the pool was told, by credential
    decided   \* history: the evidence behind the row's status

vars == <<now, pool, row, att, test, heard, decided>>

Configs == 1..MaxConfig

NoAttempt == [pc |-> "idle", cfg |-> 0, gen |-> 0, at |-> 0, observed |-> 0,
              quota |-> FALSE, overtaken |-> FALSE]

NoTest == [pc |-> "idle", retest |-> FALSE, cfg |-> 0, gen |-> 0, at |-> 0]

Silence == [limit |-> 0, until |-> 0, ok |-> 0, bad |-> 0]

Init == /\ now = 1
        /\ pool = Unknown
        /\ row = [cfg |-> 1, gen |-> 1, status |-> "passed"]
        /\ att = [a \in Attempts |-> NoAttempt]
        /\ test = [t \in Tests |-> NoTest]
        /\ heard = [c \in Configs |-> Silence]
        /\ decided = [cfg |-> 1, gen |-> 1, at |-> 0]
-----------------------------------------------------------------------------
(* An attempt.                                                             *)

\* The request loads the provider's keys; usableKeys offers only passed ones.
Load(a) ==
    /\ att[a].pc = "idle"
    /\ row.status = "passed"
    /\ att' = [att EXCEPT ![a] = [NoAttempt EXCEPT
                    !.pc = "loaded", !.cfg = row.cfg, !.gen = row.gen]]
    /\ UNCHANGED <<now, pool, row, test, heard, decided>>

Walk(a) ==
    /\ att[a].pc = "loaded"
    /\ pool' = Pruned(pool, att[a].cfg, now)
    /\ att' = [att EXCEPT ![a].pc = "walked"]
    /\ UNCHANGED <<now, row, test, heard, decided>>

\* attemptOne stamps the dispatch before it sends.
Dispatch(a) ==
    /\ att[a].pc = "walked"
    /\ att' = [att EXCEPT ![a] = [@ EXCEPT !.pc = "sent", !.at = now]]
    /\ UNCHANGED <<now, pool, row, test, heard, decided>>

\* No answer, or one that says nothing about the key.
NoWord(a) ==
    /\ att[a].pc = "sent"
    /\ att' = [att EXCEPT ![a] = NoAttempt]
    /\ UNCHANGED <<now, pool, row, test, heard, decided>>

Told(c, verdict) == heard' = [heard EXCEPT ![c] = verdict]

Newest(x, y) == IF x > y THEN x ELSE y

\* A 2xx status line.
Accepted(a) ==
    LET c == att[a].cfg IN
    /\ att[a].pc = "sent"
    /\ pool' = ClearKey(pool, c, att[a].at)
    /\ Told(c, [heard[c] EXCEPT !.ok = Newest(@, att[a].at)])
    /\ att' = [att EXCEPT ![a] = NoAttempt]
    /\ UNCHANGED <<now, row, test, decided>>

\* markProviderKeyForRetest takes its stamp before the database write.
Rejects(a) == att' = [att EXCEPT ![a] = [@ EXCEPT !.pc = "marking", !.observed = now]]

\* A 401: marked before its body is read.
Unauthorized(a) ==
    /\ att[a].pc = "sent"
    /\ Rejects(a)
    /\ UNCHANGED <<now, pool, row, test, heard, decided>>

\* A 429: benched from its headers, before its body is read.
Limited(a, d) ==
    LET c == att[a].cfg IN
    /\ att[a].pc = "sent"
    /\ pool' = CoolKey(pool, c, att[a].at, d, now)
    /\ IF d > 0 /\ att[a].at > heard[c].limit
       THEN Told(c, [heard[c] EXCEPT !.limit = att[a].at, !.until = now + d])
       ELSE heard' = heard
    /\ att' = [att EXCEPT ![a] = [@ EXCEPT !.pc = "reading", !.quota = TRUE]]
    /\ UNCHANGED <<now, row, test, decided>>

\* The 429's body says the quota is exhausted.
Exhausted(a) ==
    /\ att[a].pc = "reading"
    /\ Rejects(a)
    /\ UNCHANGED <<now, pool, row, test, heard, decided>>

\* recordRateLimitObservation; 0 is a body that names no window.
Learn(a, d) ==
    /\ att[a].pc \in {"reading", "learning"}
    /\ pool' = LengthenKeyBench(pool, att[a].cfg, att[a].at, d, now)
    /\ att' = [att EXCEPT ![a] = NoAttempt]
    /\ UNCHANGED <<now, row, test, heard, decided>>

\* What follows a marking: the rest of the 429's handling, if it was one.
Marked(a) == att' = [att EXCEPT ![a] =
    IF att[a].quota THEN [@ EXCEPT !.pc = "learning"] ELSE NoAttempt]

\* Bug: only the credential is compared, not the generation of its last test.
IsSameSecret(a) == row.status = "passed" /\ row.cfg = att[a].cfg

\* The row is still what the attempt was dispatched with.
IsCurrent(a) == row.status = "passed" /\ row.cfg = att[a].cfg /\ row.gen = att[a].gen

\* MarkProviderKeyVerificationFailedIfCurrent applies.
Mark(a) ==
    /\ att[a].pc = "marking"
    /\ IsCurrent(a)
    /\ row' = [row EXCEPT !.status = "failed"]
    /\ decided' = [cfg |-> att[a].cfg, gen |-> att[a].gen, at |-> att[a].observed]
    /\ att' = [att EXCEPT ![a].pc = "dropping"]
    /\ UNCHANGED <<now, pool, test, heard>>

\* It does not apply, or the database fails.
MarkLost(a) ==
    /\ att[a].pc = "marking"
    /\ Marked(a)
    /\ UNCHANGED <<now, pool, row, test, heard, decided>>

Drop(a) ==
    LET c == att[a].cfg IN
    /\ att[a].pc = "dropping"
    /\ pool' = DropKey(pool, c, att[a].observed)
    /\ Told(c, [heard[c] EXCEPT !.bad = Newest(@, att[a].observed)])
    /\ Marked(a)
    /\ UNCHANGED <<now, row, test, decided>>
-----------------------------------------------------------------------------
(* A test of the key.                                                      *)

Overtake == att' = [a \in Attempts |->
    IF att[a].pc = "idle" THEN att[a] ELSE [att[a] EXCEPT !.overtaken = TRUE]]

\* TestProviderKey: BeginProviderKeyRetest claims a generation.
Claim(t) ==
    /\ test[t].pc = "idle"
    /\ row.gen < MaxGeneration
    /\ row' = [row EXCEPT !.gen = @ + 1]
    /\ test' = [test EXCEPT ![t] = [pc |-> "claimed", retest |-> TRUE,
                    cfg |-> row.cfg, gen |-> row.gen + 1, at |-> 0]]
    /\ Overtake
    /\ UNCHANGED <<now, pool, heard, decided>>

\* UpdateProviderKey: SwapProviderKeyPlaintext replaces the credential.
Swap(t) ==
    /\ test[t].pc = "idle"
    /\ row.gen < MaxGeneration /\ row.cfg < MaxConfig
    /\ row' = [cfg |-> row.cfg + 1, gen |-> row.gen + 1, status |-> "untested"]
    /\ test' = [test EXCEPT ![t] = [pc |-> "claimed", retest |-> FALSE,
                    cfg |-> row.cfg + 1, gen |-> row.gen + 1, at |-> 0]]
    /\ decided' = [cfg |-> row.cfg + 1, gen |-> row.gen + 1, at |-> 0]
    /\ Overtake
    /\ UNCHANGED <<now, pool, heard>>

\* probeObserved is stamped before the probe.
Probe(t) ==
    /\ test[t].pc = "claimed"
    /\ test' = [test EXCEPT ![t] = [@ EXCEPT !.pc = "probing", !.at = now]]
    /\ UNCHANGED <<now, pool, row, att, heard, decided>>

\* Bug: a replacement or a later test does not discard this one's result.
MayAlwaysCommit(t) == TRUE

\* The guards of both commits; a test's are the ones it claimed with.
MayCommit(t) == row.cfg = test[t].cfg /\ row.gen = test[t].gen

\* The commit applies. classifyTestResult leaves the status alone when the
\* probe was inconclusive. A retest that passed goes on to tell the pool.
Commit(t, verdict) ==
    /\ test[t].pc = "probing"
    /\ MayCommit(t)
    /\ IF verdict = "inconclusive"
       THEN UNCHANGED <<row, decided>>
       ELSE /\ row' = [row EXCEPT !.status = verdict]
            /\ decided' = [cfg |-> test[t].cfg, gen |-> test[t].gen, at |-> test[t].at]
    /\ test' = [test EXCEPT ![t] = IF verdict = "passed" /\ test[t].retest
                                   THEN [@ EXCEPT !.pc = "noting"] ELSE NoTest]
    /\ UNCHANGED <<now, pool, att, heard>>

\* The probe never ran, the commit did not apply, or the database failed.
NoVerdict(t) ==
    /\ test[t].pc \in {"claimed", "probing"}
    /\ test' = [test EXCEPT ![t] = NoTest]
    /\ UNCHANGED <<now, pool, row, att, heard, decided>>

\* noteRetestCommitted -> NoteKeyRetestPassed.
Note(t) ==
    LET c == test[t].cfg IN
    /\ test[t].pc = "noting"
    /\ pool' = ClearKey(pool, c, test[t].at)
    /\ Told(c, [heard[c] EXCEPT !.ok = Newest(@, test[t].at)])
    /\ test' = [test EXCEPT ![t] = NoTest]
    /\ UNCHANGED <<now, row, att, decided>>

Tick == /\ now < MaxTime
        /\ now' = now + 1
        /\ UNCHANGED <<pool, row, att, test, heard, decided>>

AttemptStep(a) ==
    \/ Load(a) \/ Walk(a) \/ Dispatch(a) \/ NoWord(a) \/ Accepted(a)
    \/ Unauthorized(a) \/ Exhausted(a) \/ Mark(a) \/ MarkLost(a) \/ Drop(a)
    \/ \E d \in Windows : Limited(a, d)
    \/ \E d \in Windows \cup {0} : Learn(a, d)

TestStep(t) ==
    \/ Claim(t) \/ Swap(t) \/ Probe(t) \/ NoVerdict(t) \/ Note(t)
    \/ \E verdict \in {"passed", "failed", "inconclusive"} : Commit(t, verdict)

Next == \/ \E a \in Attempts : AttemptStep(a)
        \/ \E t \in Tests : TestStep(t)
        \/ Tick

Spec == Init /\ [][Next]_vars
-----------------------------------------------------------------------------
(* Properties.                                                             *)

Statuses == {"untested", "passed", "failed"}

Records == [cfg : 0..MaxConfig, benchUntil : Nat, benchInstalled : Nat,
            limitedAt : Nat, invalidatedAt : Nat, recoveredAt : Nat]

AttemptStates == {"idle", "loaded", "walked", "sent", "reading", "marking",
                  "dropping", "learning"}

TestStates == {"idle", "claimed", "probing", "noting"}

HeldByAttempt == [pc : AttemptStates, cfg : 0..MaxConfig, gen : 0..MaxGeneration,
                  at : Nat, observed : Nat, quota : BOOLEAN, overtaken : BOOLEAN]

HeldByTest == [pc : TestStates, retest : BOOLEAN, cfg : 0..MaxConfig,
               gen : 0..MaxGeneration, at : Nat]

Verdicts == [limit : Nat, until : Nat, ok : Nat, bad : Nat]

TypeOK ==
    /\ now \in Nat
    /\ pool \in Records
    /\ row \in [cfg : Configs, gen : 1..MaxGeneration, status : Statuses]
    /\ att \in [Attempts -> HeldByAttempt]
    /\ test \in [Tests -> HeldByTest]
    /\ heard \in [Configs -> Verdicts]
    /\ decided \in [cfg : Configs, gen : 1..MaxGeneration, at : Nat]

\* A bench stands only on evidence nothing refutes, in whatever order the
\* verdicts arrived: no rejection observed since the 429 was dispatched, and no
\* success dispatched since the bench was booked (keyState, lines 46-60).
BenchIsEarned ==
    Benched(pool) =>
        LET h == heard[pool.cfg] IN
        /\ h.bad < pool.limitedAt
        /\ pool.limitedAt <= h.limit
        /\ h.ok <= pool.benchInstalled

\* The other way about: the newest 429 of the credential in use, when it was
\* dispatched after every success and rejection the pool was told of, has its
\* bench until the window it named is over, whatever arrived since.
NewestLimitHolds ==
    pool.cfg = row.cfg =>
        LET h == heard[pool.cfg] IN
        (h.limit > h.ok /\ h.limit > h.bad) =>
            /\ pool.limitedAt = h.limit
            /\ now < h.until => pool.benchUntil >= h.until

\* The record is about the newest credential the pool was told about, and no
\* word about another one is in it: a key that was replaced starts afresh.
RecordIsOfNewest ==
    /\ \A c \in Configs : heard[c] # Silence => c <= pool.cfg
    /\ pool.cfg \in Configs =>
        LET h == heard[pool.cfg] IN
        /\ pool.invalidatedAt = h.bad
        /\ pool.recoveredAt = h.ok
        /\ pool.limitedAt <= h.limit

\* A bench stands exactly while a 429 of the newest credential that nothing refutes
\* says so.
BenchesAreHonest == BenchIsEarned /\ NewestLimitHolds /\ RecordIsOfNewest

\* The bench of the credential in use is cut short within its window only by a
\* newer 429, a success sent after it was booked, or a rejection.
BenchIsNotCutShort ==
    [][ (now < pool.benchUntil /\ pool'.benchUntil < pool.benchUntil) =>
            \/ pool.cfg < row.cfg
            \/ pool'.limitedAt > pool.limitedAt
            \/ pool'.recoveredAt > pool.benchInstalled
            \/ pool'.invalidatedAt >= pool.limitedAt ]_vars

\* The status in the row is always about the credential in the row.
StatusIsOfThisSecret == row.status # "untested" => decided.cfg = row.cfg

\* A test writes its verdict neither on a credential it did not try nor over
\* the verdict of a test that was claimed after it.
TestsDecideInOrder ==
    [][decided'.gen >= decided.gen /\ StatusIsOfThisSecret']_vars

\* An attempt whose key was replaced or claimed for a test since it loaded the
\* row never fails the key (MarkProviderKeyVerificationFailedIfCurrent).
OvertakenFailsNothing ==
    [][\A a \in Attempts : Mark(a) => ~att[a].overtaken]_vars

\* Neither a test nor a request decides on a key it knows an older state of.
VerdictsAreCurrent == TestsDecideInOrder /\ OvertakenFailsNothing
=============================================================================
