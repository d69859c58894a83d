----------------------------- MODULE VideoTask -----------------------------
(***************************************************************************)
(* The video tasks of one API key (internal/service/videotask/service.go   *)
(* over internal/repository/video_task_repository.go): a submit prices a   *)
(* task, asks the budget gate and inserts the row; polls observe it        *)
(* upstream and settle it; the reaper expires and settles what nobody      *)
(* polls; a provider that moves retires what its old address issued.       *)
(*                                                                         *)
(* Every statement on the database is one step, and everything a call has  *)
(* read and holds on to is in the call's record.  Any statement may fail   *)
(* and the process may stop between any two.                               *)
(***************************************************************************)
EXTENDS Naturals, FiniteSets, FiniteSetsExt

CONSTANTS Tasks,        \* the rows there is room for
          Submits,      \* create calls in flight at one time
          Gets,         \* polls in flight at one time
          Lengths,      \* the seconds a caller may ask for
          Units,        \* the prices of a second; 0 is unpriced
          Usages,       \* the seconds an upstream may report
          Limit,        \* BudgetLimitMicros; 0 is no limit
          Interval,     \* DefaultPollInterval
          Horizon,      \* ZombieHorizon
          SweepLimit,   \* the rows one reconciliation pass settles
          MaxVersion,   \* bound: the destinations of the provider
          MaxTime       \* bound: the clock stops here

ASSUME TaskAssumption == IsFiniteSet(Tasks) /\ Tasks # {}
ASSUME NumbersAssumption ==
    /\ Lengths \subseteq Nat \ {0} /\ Units \subseteq Nat /\ Usages \subseteq Nat
    /\ Limit \in Nat /\ Interval \in Nat \ {0} /\ Horizon \in Nat
    /\ SweepLimit \in Nat \ {0} /\ MaxVersion \in Nat \ {0} /\ MaxTime \in Nat

VARIABLES
    now,      \* the clock every call reads once
    version,  \* destination_version of the provider
    row,      \* video_tasks
    spent,    \* budget_spent_micros of the key
    digest,   \* the tasks whose request log carries the settlement
    submit,   \* what each create call holds
    get,      \* what each poll holds
    sweep,    \* where the reaper is, and what it listed
    told      \* history: the terminal statuses polls have answered

rows == <<version, row, spent, digest>>
vars == <<now, version, row, spent, digest, submit, get, sweep, told>>

NonTerminal == {"pending", "processing"}
Terminal == {"completed", "failed", "cancelled", "expired"}

\* "none" is a row not yet inserted.
NoRow == [status |-> "none", seconds |-> 0, estimated |-> 0, usage |-> 0, billed |-> FALSE,
          micros |-> 0, polled |-> 0, expires |-> 0, version |-> 0]

IdleSubmit == [pc |-> "idle", seconds |-> 0, ask |-> 0, version |-> 0, at |-> 0,
               spent |-> 0]
IdleGet == [pc |-> "idle", task |-> CHOOSE t \in Tasks : TRUE, seen |-> NoRow, at |-> 0,
            home |-> FALSE]
IdleSweep == [pc |-> "idle", todo |-> {}]

Init == /\ now = 1 /\ version = 1
        /\ row = [t \in Tasks |-> NoRow]
        /\ spent = 0 /\ digest = {}
        /\ submit = [s \in Submits |-> IdleSubmit]
        /\ get = [g \in Gets |-> IdleGet]
        /\ sweep = IdleSweep
        /\ told = [t \in Tasks |-> {}]
-----------------------------------------------------------------------------
(* The statements of the repository, on one row each.                      *)

Expired(r) == [r EXCEPT !.status = "expired"]

\* Bug: a result is written whatever the row has become.
SaveResultAlways(r, o) == [r EXCEPT !.status = o.status, !.usage = o.usage]

\* SaveVideoTaskPollResult
SaveResult(r, o) ==
    IF r.status \in NonTerminal THEN [r EXCEPT !.status = o.status, !.usage = o.usage]
    ELSE r

\* ChargeVideoTask's update of the row.
Billed(r, micros) == [r EXCEPT !.billed = TRUE, !.micros = micros]

\* Bug: a settled task can be charged again.
ChargeableAgain(r) == r.status = "completed"

Chargeable(r) == r.status = "completed" /\ ~r.billed

\* Bug: the bill is the estimate.
BillEstimated(r) == r.estimated

\* What a settlement charges: the seconds delivered at the unit the estimate was made of.
Bill(r) == IF r.estimated > 0 /\ r.seconds > 0
           THEN r.usage * (r.estimated \div r.seconds) ELSE 0

Reserved(r) == IF ~r.billed /\ r.status \in NonTerminal \cup {"completed"}
               THEN r.estimated ELSE 0

InFlight == MapThenSumSet(LAMBDA t : Reserved(row[t]), Tasks)

\* ChargeVideoTask with the micros settle computed from the row it holds, and
\* the request log, which follows when nothing goes wrong.
Charge(t, held) ==
    IF Chargeable(row[t])
    THEN /\ row' = [row EXCEPT ![t] = Billed(@, Bill(held))]
         /\ spent' = spent + Bill(held)
         /\ digest' \in {digest, digest \cup {t}}
    ELSE UNCHANGED <<row, spent, digest>>
-----------------------------------------------------------------------------
(* Creating a task.                                                        *)

\* The upstream has accepted; the candidate was routed to at this version.
Accepted(s, seconds, unit) ==
    /\ submit[s].pc = "idle"
    /\ submit' = [submit EXCEPT ![s] =
           [IdleSubmit EXCEPT !.pc = "accepted", !.seconds = seconds,
                              !.ask = seconds * unit, !.version = version]]
    /\ UNCHANGED <<now, rows, get, sweep, told>>

\* Create stamps the clock; checkBudget reads the key first.  Bound: no task is
\* created whose horizon the clock does not pass.
ReadKey(s) ==
    /\ submit[s].pc = "accepted" /\ now + Horizon < MaxTime
    /\ submit' = [submit EXCEPT ![s] =
           [@ EXCEPT !.pc = "gate", !.at = now, !.spent = spent]]
    /\ UNCHANGED <<now, rows, get, sweep, told>>

\* Then the tasks in flight.  An unpriced ask has no gate to pass.
Gate(s) ==
    /\ submit[s].pc = "gate"
    /\ submit' = IF submit[s].ask = 0 \/ Limit = 0
                    \/ submit[s].spent + InFlight + submit[s].ask <= Limit
                 THEN [submit EXCEPT ![s].pc = "insert"]
                 ELSE [submit EXCEPT ![s] = IdleSubmit]
    /\ UNCHANGED <<now, rows, get, sweep, told>>

Insert(s, t) ==
    /\ submit[s].pc = "insert" /\ row[t].status = "none"
    /\ row' = [row EXCEPT ![t] =
           [status |-> "pending", seconds |-> submit[s].seconds,
            estimated |-> submit[s].ask, usage |-> 0, billed |-> FALSE, micros |-> 0,
            polled |-> 0, expires |-> submit[s].at + Horizon, version |-> submit[s].version]]
    /\ submit' = [submit EXCEPT ![s] = IdleSubmit]
    /\ UNCHANGED <<now, version, spent, digest, get, sweep, told>>
-----------------------------------------------------------------------------
(* Polling a task.                                                         *)

Answer(g, status) ==
    /\ get' = [get EXCEPT ![g] = IdleGet]
    /\ told' = [told EXCEPT ![get[g].task] = @ \cup ({status} \cap Terminal)]

Read(g, t) ==
    /\ get[g].pc = "idle" /\ row[t].status # "none"
    /\ get' = [get EXCEPT ![g] = [pc |-> "read", task |-> t, seen |-> row[t], at |-> now,
                                   home |-> FALSE]]
    /\ UNCHANGED <<now, rows, submit, sweep, told>>

Open(g) == get[g].pc = "read" /\ get[g].seen.status \in NonTerminal

PastHorizon(g) == get[g].at > get[g].seen.expires

\* pollDue
Due(g) == get[g].seen.polled = 0 \/ get[g].at >= get[g].seen.polled + Interval

\* A terminal row, or one asked about a moment ago, is answered from the row.
Stored(g) ==
    /\ get[g].pc = "read"
    /\ \/ get[g].seen.status \in Terminal /\ ~Chargeable(get[g].seen)
       \/ Open(g) /\ ~PastHorizon(g) /\ ~Due(g)
    /\ Answer(g, get[g].seen.status)
    /\ UNCHANGED <<now, rows, submit, sweep>>

\* The window closed between sweeps; what the update did is not looked at.
ExpireOnSight(g) ==
    /\ Open(g) /\ PastHorizon(g)
    /\ row' = [row EXCEPT ![get[g].task] = SaveResult(@, [status |-> "expired", usage |-> @.usage])]
    /\ Answer(g, "expired")
    /\ UNCHANGED <<now, version, spent, digest, submit, sweep>>

\* The task's flight mutex, from the claim to the end of the settlement.
FlightFree(t) == \A g \in Gets : get[g].task = t => get[g].pc \notin {"asking", "settling"}

\* Bug: the stamp the row was read with is not compared.
ClaimableUnseen(r, seen) == r.status \in NonTerminal

\* ClaimVideoTaskPoll
Claimable(r, seen) == r.status \in NonTerminal /\ r.polled = seen.polled

Claim(g) ==
    LET t == get[g].task IN
    /\ Open(g) /\ ~PastHorizon(g) /\ Due(g) /\ FlightFree(t)
    /\ IF Claimable(row[t], get[g].seen)
       THEN /\ row' = [row EXCEPT ![t].polled = get[g].at]
            /\ get' = [get EXCEPT ![g] =
                   [@ EXCEPT !.pc = "asking", !.home = (get[g].seen.version = version)]]
            /\ told' = told
       ELSE row' = row /\ Answer(g, get[g].seen.status)
    /\ UNCHANGED <<now, version, spent, digest, submit, sweep>>

\* What a vendor may answer.
Observations == {[status |-> s, usage |-> 0] : s \in (NonTerminal \cup Terminal) \ {"completed"}}
                    \cup {[status |-> "completed", usage |-> u] : u \in Usages}

\* Bug: the answer counts even when the row no longer took it.
ObserveUnapplied(g, o) ==
    LET t == get[g].task IN
    /\ get[g].pc = "asking"
    /\ get[g].home \/ o.status = "expired"
    /\ row' = [row EXCEPT ![t] = SaveResult(@, o)]
    /\ Answer(g, o.status)
    /\ UNCHANGED <<now, version, spent, digest, submit, sweep>>

\* An answer arrives and is written.  A provider that has moved is never asked:
\* its old tasks read as expired.
Observe(g, o) ==
    LET t == get[g].task IN
    /\ get[g].pc = "asking"
    /\ get[g].home \/ o.status = "expired"
    /\ row' = [row EXCEPT ![t] = SaveResult(@, o)]
    /\ IF row[t].status \in NonTerminal
       THEN IF o.status = "completed"
            THEN /\ get' = [get EXCEPT ![g] =
                        [@ EXCEPT !.pc = "settling", !.seen = SaveResult(get[g].seen, o)]]
                 /\ told' = told
            ELSE Answer(g, o.status)
       ELSE Answer(g, get[g].seen.status)
    /\ UNCHANGED <<now, version, spent, digest, submit, sweep>>

\* No answer, or one outside the vocabulary.
Unanswered(g) ==
    /\ get[g].pc = "asking"
    /\ Answer(g, get[g].seen.status)
    /\ UNCHANGED <<now, rows, submit, sweep>>

MustSettle(g) ==
    \/ get[g].pc = "settling"
    \/ get[g].pc = "read" /\ Chargeable(get[g].seen)

\* A completion just recorded, or found recorded and unbilled.
Settle(g) ==
    /\ MustSettle(g)
    /\ Charge(get[g].task, get[g].seen)
    /\ Answer(g, "completed")
    /\ UNCHANGED <<now, version, submit, sweep>>

SettleFails(g) ==
    /\ MustSettle(g)
    /\ Answer(g, "completed")
    /\ UNCHANGED <<now, rows, submit, sweep>>
-----------------------------------------------------------------------------
(* The reaper's tick, and the provider.                                    *)

Unbilled == {t \in Tasks : Chargeable(row[t])}

Stale(r) == r.status \in NonTerminal /\ r.expires < now

\* ExpireStaleVideoTasks
SweepExpire ==
    /\ sweep.pc = "idle"
    /\ row' = [t \in Tasks |-> IF Stale(row[t]) THEN Expired(row[t]) ELSE row[t]]
    /\ sweep' = [pc |-> "listing", todo |-> {}]
    /\ UNCHANGED <<now, version, spent, digest, submit, get, told>>

\* Bug: the reaper only expires.
ListedNothing(todo) == todo = {}

\* ListUnbilledCompletedVideoTasks
Listed(todo) == /\ todo \subseteq Unbilled
                /\ \/ todo = Unbilled
                   \/ Cardinality(todo) = SweepLimit

SweepList ==
    /\ sweep.pc = "listing"
    /\ \E todo \in SUBSET Tasks :
        /\ Listed(todo) /\ Cardinality(todo) <= SweepLimit
        /\ sweep' = IF todo = {} THEN IdleSweep ELSE [pc |-> "settling", todo |-> todo]
    /\ UNCHANGED <<now, rows, submit, get, told>>

Done(t) == IF sweep.todo = {t} THEN IdleSweep ELSE [sweep EXCEPT !.todo = @ \ {t}]

\* What was listed of a completed row no longer changes.
SweepSettle(t) ==
    /\ t \in sweep.todo
    /\ Charge(t, row[t])
    /\ sweep' = Done(t)
    /\ UNCHANGED <<now, version, submit, get, told>>

SweepFails ==
    /\ sweep' \in {IdleSweep} \cup {Done(t) : t \in sweep.todo}
    /\ sweep.pc # "idle"
    /\ UNCHANGED <<now, rows, submit, get, told>>

\* ExpireProviderInFlightVideoTasks: all but the tasks of one version.
Retired(v) == [t \in Tasks |-> IF row[t].status \in NonTerminal /\ row[t].version # v
                               THEN Expired(row[t]) ELSE row[t]]

\* The address changes, in one transaction with the tasks.
Move == /\ version < MaxVersion
        /\ version' = version + 1
        /\ row' = Retired(version')
        /\ UNCHANGED <<now, spent, digest, submit, get, sweep, told>>

\* The provider's last key is deleted: no version is spared.
LastKeyDeleted ==
    /\ row' = Retired(0)
    /\ UNCHANGED <<now, version, spent, digest, submit, get, sweep, told>>

\* The process stops: every call is lost, the database stays.
Crash ==
    /\ submit' = [s \in Submits |-> IdleSubmit]
    /\ get' = [g \in Gets |-> IdleGet]
    /\ sweep' = IdleSweep
    /\ UNCHANGED <<now, rows, told>>

Tick == /\ now < MaxTime
        /\ now' = now + 1
        /\ UNCHANGED <<rows, submit, get, sweep, told>>
-----------------------------------------------------------------------------
Creating(s) == \/ \E seconds \in Lengths, unit \in Units : Accepted(s, seconds, unit)
               \/ ReadKey(s)
               \/ Gate(s)
               \/ \E t \in Tasks : Insert(s, t)

Polling(g) == \/ \E t \in Tasks : Read(g, t)
              \/ Stored(g)
              \/ ExpireOnSight(g)
              \/ Claim(g)
              \/ \E o \in Observations : Observe(g, o)
              \/ Unanswered(g)
              \/ Settle(g)
              \/ SettleFails(g)

Reaping == SweepExpire \/ SweepList \/ (\E t \in Tasks : SweepSettle(t)) \/ SweepFails

Next == \/ \E s \in Submits : Creating(s)
        \/ \E g \in Gets : Polling(g)
        \/ Reaping
        \/ Move \/ LastKeyDeleted \/ Crash \/ Tick

Spec == Init /\ [][Next]_vars

\* The reaper ticks for ever; neither crashes nor a failing database hit every
\* sweep.  Time passes.
Fairness == /\ WF_vars(Tick)
            /\ WF_vars(SweepExpire)
            /\ SF_vars(SweepList)
            /\ \A t \in Tasks : SF_vars(SweepSettle(t))

FairSpec == Spec /\ Fairness
-----------------------------------------------------------------------------
Rows == [status : {"none"} \cup NonTerminal \cup Terminal, seconds : Nat, estimated : Nat,
         usage : Nat, billed : BOOLEAN, micros : Nat, polled : Nat, expires : Nat,
         version : Nat]

Creates == [pc : {"idle", "accepted", "gate", "insert"}, seconds : Nat, ask : Nat,
            version : Nat, at : Nat, spent : Nat]

Polls == [pc : {"idle", "read", "asking", "settling"}, task : Tasks, seen : Rows,
          at : Nat, home : BOOLEAN]

TypeOK ==
    /\ now \in Nat /\ version \in Nat /\ spent \in Nat
    /\ row \in [Tasks -> Rows]
    /\ digest \subseteq Tasks
    /\ submit \in [Submits -> Creates]
    /\ get \in [Gets -> Polls]
    /\ sweep \in [pc : {"idle", "listing", "settling"}, todo : SUBSET Tasks]
    /\ told \in [Tasks -> SUBSET Terminal]

\* The key has paid exactly the bills of its tasks, each once, however many polls
\* and sweeps found the same task completed and unbilled.
SpentIsBilled == spent = MapThenSumSet(LAMBDA t : row[t].micros, Tasks)

\* A bill is of a completed task, for the seconds its row records at the price it
\* was submitted at; an unbilled task has none, and no log shows one.
BillIsOfTheDelivery ==
    \A t \in Tasks :
        /\ row[t].billed =>
              /\ row[t].status = "completed"
              /\ row[t].micros * row[t].seconds = row[t].usage * row[t].estimated
        /\ ~row[t].billed => row[t].micros = 0 /\ t \notin digest

\* A poll answers that a task completed, failed or was cancelled only when the row says
\* so, whatever ended the task while the upstream was being asked.  (An expiry on sight
\* is answered without a look at the row.)
ToldIsOnRecord == \A t \in Tasks : told[t] \ {"expired"} \subseteq {row[t].status}

\* A finished task is never reopened or retold, by an answer that was on its way
\* when it finished, by the reaper or by the provider; its delivery stands.
TerminalIsFinal ==
    /\ []ToldIsOnRecord
    /\ [][\A t \in Tasks : row[t].status \in Terminal =>
              row'[t].status = row[t].status /\ row'[t].usage = row[t].usage]_vars

\* However many polls read the same row, an upstream is asked about a task no more
\* than once an interval, by the clock readings the polls claim with.
PollsArePaced ==
    [][\A t \in Tasks : row'[t].polled # row[t].polled =>
           row[t].polled = 0 \/ row'[t].polled >= row[t].polled + Interval]_vars

\* What a task's row says of its end, its bill and its polls is never taken back.
RowsAreKept == []BillIsOfTheDelivery /\ TerminalIsFinal /\ PollsArePaced

\* What a task costs the key, or may still cost it.
Owed(r) == IF r.billed THEN r.micros
           ELSE IF r.status \in {"pending", "processing", "completed"} THEN r.estimated ELSE 0

Committed == MapThenSumSet(LAMBDA t : Owed(row[t]), Tasks)

\* What the code says of the gate: spent plus reserved never exceeds the limit.
BudgetBounds == Limit > 0 => Committed <= Limit

\* Every task reaches a terminal status, and a completed one its bill, even when
\* nobody polls it again.
EveryTaskSettles ==
    \A t \in Tasks : row[t].status # "none" ~>
        row[t].status \in Terminal /\ ~Chargeable(row[t])
=============================================================================
