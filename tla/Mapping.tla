-------------------------------- MODULE Mapping --------------------------------
(***************************************************************************)
(* The verification of one mapping (internal/service/modeladmin): the      *)
(* probe queue with its workers, retry timers and recovery                 *)
(* (probe_queue.go), the requests of administrators that write the same    *)
(* row (model_service.go, import_service.go), database outages and         *)
(* crashes.  MappingRow has the row and its statements.                    *)
(*                                                                         *)
(* Probes take seconds and run outside transactions, so every run reads,   *)
(* probes and commits in separate steps, and what it read may be stale     *)
(* when it commits.  A request begins when it reads the row.               *)
(*                                                                         *)
(* A queue of other mappings would only delay this one.                    *)
(***************************************************************************)
EXTENDS MappingRow, FiniteSets

CONSTANTS
    Workers,        \* ProbeQueue.workers, numbered
    Admins,         \* requests that may run at once, numbered after the workers
    MaxRequests,    \* requests in a behaviour
    MaxTroubles     \* database failures and crashes in a behaviour

ASSUME ActorAssumption ==
    /\ Workers \subseteq Nat /\ Admins \subseteq Nat /\ Workers \cap Admins = {}
    /\ IsFiniteSet(Workers) /\ IsFiniteSet(Admins)
ASSUME BoundAssumption ==
    MaxRequests \in Nat /\ MaxTroubles \in Nat

VARIABLES
    row,        \* the candidate
    queue,      \* the mapping's place in pending, active, rerun and fifo
    timers,     \* goroutines of scheduleRetry that sleep
    boot,       \* RecoverPendingInBackground
    at,         \* what each worker and each request is doing
    requests, troubles,     \* so far
    off,        \* ghost: was the last instruction to disable the mapping?
    earned,     \* ghost: the name the last pass was obtained for
    strayed,    \* ghost: has an edit that kept the name written it over another since
                \* the verification was last decided or reset?
    relanded    \* ghost: has a run whose verdict landed unheard landed it again since
                \* the last disable?

counters == <<requests, troubles>>
ghosts == <<off, earned, strayed, relanded>>
vars == <<row, queue, timers, boot, at, counters, ghosts>>

Actors == Workers \cup Admins
VerdictRecommitAttempts == 3
AbandonmentStampAttempts == 3
-----------------------------------------------------------------------------
(* What an actor knows.                                                    *)

\* seen is the row as read, name the name it probes, under the token its commit
\* expects, run the token it leaves, tries the passes of the loop it is in.
Unseen == [name |-> "", enabled |-> FALSE, verified |-> "untested", tested |-> 0,
           updatedAt |-> 0, armed |-> FALSE, token |-> Run(0)]
Idle == [pc |-> "idle", op |-> "none", stage |-> "first", now |-> 0, name |-> "",
         seen |-> Unseen, under |-> Run(0), run |-> 0, mode |-> "plain",
         outcome |-> "none", tries |-> 0, overruled |-> FALSE, landed |-> FALSE]

\* A stamp nobody holds: stamps and runs are only compared for equality.
Stamps == {row.tested, row.armedAt, row.updatedAt, row.token.run}
    \cup UNION {{l.now, l.run, l.under.run, l.seen.tested, l.seen.updatedAt, l.seen.token.run} :
                    l \in {at[a] : a \in Actors}}
Fresh == CHOOSE n \in 1 .. Cardinality(Stamps) + 1 : n \notin Stamps

Sight(r) == [c \in DOMAIN Unseen |-> r[c]]

Begin(op, pc, r, mode) ==
    [Idle EXCEPT !.op = op, !.pc = pc, !.now = Fresh, !.run = Fresh,
                 !.seen = Sight(r), !.name = r.name, !.under = r.token, !.mode = mode]

Claim(l) == [name |-> l.name, expected |-> l.under, run |-> l.run, outcome |-> l.outcome,
             mode |-> l.mode, enabled |-> l.seen.enabled, updatedAt |-> l.seen.updatedAt,
             now |-> l.now]

Go(a, l) == at' = [at EXCEPT ![a] = l]
Point(a, pc) == Go(a, [at[a] EXCEPT !.pc = pc])
At(a, pc) == at[a].pc = pc

\* Ghost: the runs whose enable an instruction to disable overrules.
Overruled == [a \in Actors |-> [at[a] EXCEPT !.overruled =
                                    @ \/ at[a].op \in {"retest", "edit", "create"}]]

\* Where a run goes when nothing is left to write: a job back to the queue, an edit
\* to its last reads, any other request to its caller.
Close(l) ==
    IF l.op = "job" THEN [Idle EXCEPT !.pc = "done"]
    ELSE IF l.op = "edit"
    THEN [Idle EXCEPT !.op = "edit", !.pc = "reload", !.now = l.now, !.name = l.name]
    ELSE Idle

\* Where it goes on an error: ErrProbeOutcomeUnrecorded, or an error response.
Fail(l) == IF l.op = "job" THEN [Idle EXCEPT !.pc = "retry"] ELSE Idle

\* Where it goes when its commit lost to another write.
Discarded(l) ==
    IF l.op = "job" /\ l.stage = "first" THEN [l EXCEPT !.pc = "reread"]
    ELSE IF l.op = "job" /\ l.stage = "again" THEN [l EXCEPT !.pc = "settled"]
    ELSE IF l.stage = "stamp"
    THEN IF l.tries = AbandonmentStampAttempts THEN Fail(l) ELSE [l EXCEPT !.pc = "stamp"]
    ELSE IF l.op = "create" \/ l.tries = VerdictRecommitAttempts THEN Close(l)
    ELSE [l EXCEPT !.pc = "recommit"]
-----------------------------------------------------------------------------
(* The queue.                                                              *)

\* Bug: a mapping whose probe runs is enqueued once more.
EnqueuedAgain(q) ==
    IF ~q.pending \/ q.active THEN [q EXCEPT !.pending = TRUE, !.fifo = @ + 1] ELSE q
Enqueued(q) ==
    IF ~q.pending THEN [q EXCEPT !.pending = TRUE, !.fifo = @ + 1]
    ELSE [q EXCEPT !.rerun = @ \/ q.active]

\* Bug: the request that came during the probe is forgotten.
ForgetsRerun(q) == [q EXCEPT !.active = FALSE, !.pending = FALSE, !.rerun = FALSE]
Processed(q) ==
    IF q.rerun THEN [q EXCEPT !.active = FALSE, !.rerun = FALSE, !.fifo = @ + 1]
    ELSE [q EXCEPT !.active = FALSE, !.pending = FALSE]

EmptyQueue == [pending |-> FALSE, active |-> FALSE, rerun |-> FALSE, fifo |-> 0]

FirstFree(a, same) == \A b \in same : b < a => ~At(b, "idle")

\* dispatch hands the head of the FIFO to a free worker, whose process marks it.
Take(w) ==
    /\ queue.fifo > 0
    /\ At(w, "idle") /\ FirstFree(w, Workers)
    /\ queue' = [queue EXCEPT !.fifo = @ - 1, !.active = TRUE]
    /\ Go(w, [Idle EXCEPT !.op = "job", !.pc = "read", !.now = Fresh])
    /\ UNCHANGED <<row, timers, boot, counters, ghosts>>

\* The deferred end of process, after scheduleRetry where the outcome is unrecorded.
Finish(w) ==
    /\ At(w, "done") \/ At(w, "retry")
    /\ timers' = IF At(w, "retry") THEN timers + 1 ELSE timers
    /\ queue' = Processed(queue)
    /\ Go(w, Idle)
    /\ UNCHANGED <<row, boot, counters, ghosts>>

RetryFires ==
    /\ timers > 0
    /\ timers' = timers - 1
    /\ queue' = Enqueued(queue)
    /\ UNCHANGED <<row, boot, at, counters, ghosts>>

\* RecoverPending reads the list, then enqueues it.
RecoverLists ==
    /\ boot = "listing"
    /\ boot' = IF Owed(row) THEN "listed" ELSE "recovered"
    /\ UNCHANGED <<row, queue, timers, at, counters, ghosts>>
RecoverEnqueues ==
    /\ boot = "listed"
    /\ boot' = "recovered"
    /\ queue' = Enqueued(queue)
    /\ UNCHANGED <<row, timers, at, counters, ghosts>>

\* The process stops, with its queue and its requests, and starts again.
Crash ==
    /\ troubles < MaxTroubles
    /\ troubles' = troubles + 1
    /\ queue' = EmptyQueue /\ timers' = 0 /\ boot' = "listing"
    /\ at' = [a \in Actors |-> Idle]
    /\ UNCHANGED <<row, requests, ghosts>>
-----------------------------------------------------------------------------
(* Probing and committing, by whichever actor.                             *)

Local == <<queue, timers, boot, counters>>

\* probeCandidateMapping: an outcome, or a probe that could not start.
Probe(a) ==
    /\ At(a, "probe")
    /\ \/ \E o \in Outcomes : Go(a, [at[a] EXCEPT !.pc = "commit", !.outcome = o])
       \/ Go(a, IF at[a].op = "job" THEN [at[a] EXCEPT !.pc = "stamp", !.stage = "stamp"]
                ELSE Close(at[a]))
    /\ UNCHANGED <<row, ghosts, Local>>

\* The commit statement and what it does to the ghosts.
Land(a) ==
    LET c == Claim(at[a]) IN
    /\ row' = Committed(row, c)
    /\ earned' = IF c.outcome = "passed" THEN c.name ELSE earned
    /\ off' = (off /\ ~(Enables(row, c) /\ c.mode = "explicit" /\ ~at[a].overruled))
    /\ strayed' = (strayed /\ c.outcome = "inconclusive")
    /\ relanded' = (relanded \/ at[a].landed)

\* commitProbeResultsDurably: it lands, it misses and is read back, or it lands and
\* the acknowledgment is lost, and is tried again.
Commit(a) ==
    /\ At(a, "commit") /\ Unmoved(row, Claim(at[a]))
    /\ Land(a)
    /\ Go(a, Close(at[a]))
    /\ UNCHANGED Local
CommitMisses(a) ==
    /\ At(a, "commit") /\ ~Unmoved(row, Claim(at[a]))
    /\ Point(a, "readback")
    /\ UNCHANGED <<row, ghosts, Local>>
CommitUnheard(a) ==
    /\ troubles < MaxTroubles
    /\ At(a, "commit") /\ Unmoved(row, Claim(at[a]))
    /\ Land(a)
    /\ Go(a, [at[a] EXCEPT !.landed = TRUE])
    /\ troubles' = troubles + 1
    /\ UNCHANGED <<queue, timers, boot, requests>>

Mine(l) == row.token = Run(l.run) /\ row.name = l.name

ReadBack(a) ==
    LET l == at[a] IN
    /\ At(a, "readback")
    /\ Go(a, IF ~row.exists THEN Fail(l) ELSE IF Mine(l) THEN Close(l) ELSE Discarded(l))
    /\ UNCHANGED <<row, ghosts, Local>>

\* An outage that outlasts the retries of a read or of a commit.
Outage(a) ==
    /\ troubles < MaxTroubles
    /\ at[a].pc \notin {"idle", "probe", "enqueue", "done", "retry"}
    /\ troubles' = troubles + 1
    /\ Go(a, Fail(at[a]))
    /\ UNCHANGED <<row, queue, timers, boot, requests, ghosts>>
-----------------------------------------------------------------------------
(* ProbeQueuedCandidate.                                                   *)

\* The job's run of the row as it reads now.
Attempt(w, stage) ==
    /\ Go(w, [at[w] EXCEPT !.pc = "probe", !.stage = stage, !.seen = Sight(row), !.name = row.name,
                           !.under = row.token, !.run = Fresh, !.mode = "armed"])
    /\ UNCHANGED <<row, queue, timers, boot, counters, ghosts>>
Continue(w, pc) == Point(w, pc) /\ UNCHANGED <<row, ghosts, Local>>
Drop(w) == Go(w, Close(at[w])) /\ UNCHANGED <<row, ghosts, Local>>
Return(w) == Go(w, Fail(at[w])) /\ UNCHANGED <<row, ghosts, Local>>

JobRead(w) ==
    /\ At(w, "read")
    /\ IF ~row.exists \/ NoDebt(row) THEN Drop(w)
       ELSE IF row.verified # "passed" THEN Attempt(w, "first")
       ELSE IF row.armed THEN Continue(w, "fulfill") ELSE Drop(w)

Fulfill(w) ==
    /\ At(w, "fulfill") /\ MayFulfill(row)
    /\ row' = Fulfilled(row, at[w].now)
    /\ Go(w, Close(at[w]))
    /\ UNCHANGED <<ghosts, Local>>
FulfillMisses(w) ==
    /\ At(w, "fulfill") /\ ~MayFulfill(row)
    /\ Continue(w, "refetch")
Refetch(w) ==
    /\ At(w, "refetch")
    /\ IF row.exists /\ Unstamped(row) /\ row.owed THEN Attempt(w, "first")
       ELSE Drop(w)

\* Has a requeue taken the row over since the job read it?
RequeuedSince(l) == row.token.rq /\ row.token # l.seen.token

\* The commit was discarded: one fresh attempt, unless someone else owns the row.
Reread(w) ==
    LET l == at[w] IN
    /\ At(w, "reread")
    /\ IF ~row.exists THEN Return(w)
       ELSE IF \/ RequeuedSince(l) \/ row.tested # l.seen.tested
               \/ row.name # l.name \/ row.verified = "passed"
       THEN Drop(w) ELSE Attempt(w, "again")

Settled(w) ==
    /\ At(w, "settled")
    /\ IF row.exists /\ Unstamped(row) THEN Return(w) ELSE Drop(w)

\* recordProbeAbandonment: the probe could not start, and the row must not wait on.
Stamp(w) ==
    LET l == at[w] IN
    /\ At(w, "stamp")
    /\ IF ~row.exists \/ ~Unstamped(row) \/ row.name # l.name \/ RequeuedSince(l)
       THEN Drop(w)
       ELSE /\ Go(w, [l EXCEPT !.pc = "commit", !.outcome = "inconclusive", !.under = row.token,
                               !.run = Fresh, !.tries = @ + 1])
            /\ UNCHANGED <<row, queue, timers, boot, counters, ghosts>>
-----------------------------------------------------------------------------
(* The requests of administrators.                                         *)

\* A request starts at a free place.
Arrives(a) ==
    /\ requests < MaxRequests
    /\ At(a, "idle") /\ FirstFree(a, Admins)
    /\ row.exists
    /\ requests' = requests + 1
    /\ UNCHANGED <<timers, boot, troubles, earned>>

\* SetCandidateStatus.  To enable, a read and a statement with the same guard.
Disable(a) ==
    /\ Arrives(a)
    /\ row' = SwitchedOff(row, Fresh)
    /\ off' = TRUE /\ relanded' = FALSE
    /\ at' = Overruled
    /\ UNCHANGED <<queue, strayed>>
Enable(a) ==
    /\ Arrives(a)
    /\ row.verified = "passed"
    /\ row' = SwitchedOn(row, Fresh)
    /\ off' = FALSE
    /\ UNCHANGED <<queue, at, strayed, relanded>>
Reprice(a) ==
    /\ Arrives(a)
    /\ row' = Repriced(row, Fresh)
    /\ UNCHANGED <<queue, at, off, strayed, relanded>>
Delete(a) ==
    /\ Arrives(a)
    /\ row' = [row EXCEPT !.exists = FALSE]
    /\ UNCHANGED <<queue, at, off, strayed, relanded>>

\* ImportProviderModels meets the mapping again; the handler enqueues it afterwards.
Requeue(a, priced) ==
    /\ Arrives(a)
    /\ MayRequeue(row)
    /\ row' = Requeued(row, priced, Fresh)
    /\ off' = (off /\ ~priced) /\ strayed' = FALSE
    /\ Go(a, [Idle EXCEPT !.op = "import", !.pc = "enqueue"])
    /\ UNCHANGED <<queue, relanded>>
EnqueueImported(a) ==
    /\ At(a, "enqueue")
    /\ queue' = Enqueued(queue)
    /\ Go(a, Idle)
    /\ UNCHANGED <<row, timers, boot, counters, ghosts>>

\* RetestModelCandidate.
Retest(a) ==
    /\ Arrives(a)
    /\ Go(a, Begin("retest", "probe", row,
                   IF row.armed THEN "armed"
                   ELSE IF row.verified # "passed" THEN "explicit" ELSE "plain"))
    /\ UNCHANGED <<row, queue, off, strayed, relanded>>

\* UpdateModelCandidate: reads, writes, reads again, probes, commits, reads, demotes.
Edit(a, name, status) ==
    /\ Arrives(a)
    /\ Go(a, [Begin("edit", "write", row, "plain") EXCEPT !.name = name, !.outcome = status])
    /\ UNCHANGED <<row, queue, off, strayed, relanded>>

\* Is the mapping meant to end up enabled, and could a probe change anything?
WorthProbing(l) ==
    /\ l.outcome = "on" \/ (l.outcome = "keep" /\ l.seen.enabled)
    /\ l.name # l.seen.name \/ ~l.seen.enabled \/ l.seen.verified # "passed"

\* One transaction: the disable first, the fields after it.
EditWrites(a) ==
    LET l == at[a]
        disables == l.outcome = "off" /\ row.exists
        retargeted == l.name # l.seen.name
        next == IF WorthProbing(l) THEN [l EXCEPT !.pc = "fresh"] ELSE Close(l)
        told == IF disables THEN SwitchedOff(row, l.now) ELSE row IN
    /\ At(a, "write")
    /\ row' = IF row.exists THEN Renamed(told, l.name, retargeted, l.now) ELSE row
    /\ off' = (off \/ disables) /\ relanded' = (relanded /\ ~disables)
    /\ strayed' = IF row.exists THEN ~retargeted /\ (strayed \/ row.name # l.name) ELSE strayed
    /\ at' = [(IF disables THEN Overruled ELSE at) EXCEPT ![a] = next]
    /\ UNCHANGED <<earned, Local>>

\* Bug: the token is taken from the second read alone.
EditModeOfFresh(l) == IF row.armed THEN "armed" ELSE "explicit"
\* The commit expects the token as it is now and the status as it was then, and does
\* not enable where the token moved in between.
EditMode(l) ==
    IF row.armed THEN "armed"
    ELSE IF row.token = l.seen.token THEN "explicit" ELSE "plain"
EditReadsAgain(a) ==
    LET l == at[a] IN
    /\ At(a, "fresh")
    /\ Go(a, IF ~row.exists THEN Idle
             ELSE [l EXCEPT !.pc = "probe", !.mode = EditMode(l), !.under = row.token,
                            !.seen = [Sight(row) EXCEPT !.enabled = l.seen.enabled]])
    /\ UNCHANGED <<row, ghosts, Local>>

\* recommitDiscardedVerdict: the verdict again, under the current token and without
\* this run's enable, unless it no longer describes the row.
Recommit(a) ==
    LET l == at[a] IN
    /\ At(a, "recommit")
    /\ Go(a, IF \/ ~row.exists \/ row.name # l.name
                \/ row.tested # l.seen.tested \/ row.token.rq
             THEN Close(l)
             ELSE [l EXCEPT !.pc = "commit", !.stage = "recommit", !.under = row.token,
                            !.mode = IF l.seen.armed THEN "armed" ELSE "plain",
                            !.tries = @ + 1])
    /\ UNCHANGED <<row, ghosts, Local>>

\* The enabled-implies-verified backstop.
EditReloads(a) ==
    LET l == at[a] IN
    /\ At(a, "reload")
    /\ Go(a, IF row.exists /\ row.enabled /\ row.verified # "passed"
             THEN [l EXCEPT !.pc = "demote", !.seen = Sight(row)] ELSE Idle)
    /\ UNCHANGED <<row, ghosts, Local>>
EditDemotes(a) ==
    LET l == at[a] IN
    /\ At(a, "demote")
    /\ row' = IF MayDemote(row, l.name, l.seen.updatedAt) THEN Demoted(row, l.now) ELSE row
    /\ Go(a, Idle)
    /\ UNCHANGED <<ghosts, Local>>
-----------------------------------------------------------------------------
\* Rows the process may find when it starts, and the request that stored the last.
Blank == [exists |-> TRUE, name |-> CHOOSE n \in Names : TRUE, enabled |-> FALSE,
          verified |-> "untested", tested |-> 0, owed |-> FALSE, armed |-> FALSE,
          armedAt |-> 0, updatedAt |-> 1, token |-> Run(0)]
Imported == [Blank EXCEPT !.owed = TRUE, !.armed = TRUE, !.armedAt = 1]
Serving == [Blank EXCEPT !.verified = "passed", !.tested = 1, !.enabled = TRUE, !.token = Run(1)]
\* Passed without its enable, by a binary that did not know of the promise.
Inherited(aligned) ==
    [Imported EXCEPT !.verified = "passed", !.tested = 1, !.owed = FALSE,
                     !.updatedAt = IF aligned THEN 1 ELSE 2]
StoredRows == {Blank, Imported, Serving, Inherited(TRUE), Inherited(FALSE)}

Creating == [Idle EXCEPT !.op = "create", !.pc = "probe", !.now = 1, !.name = Blank.name,
                         !.seen = Sight(Blank), !.run = 2, !.mode = "explicit"]

Init ==
    /\ row \in StoredRows
    /\ queue = EmptyQueue /\ timers = 0 /\ boot = "listing"
    /\ \E first \in IF row = Blank THEN {Idle, Creating} ELSE {Idle} :
            at = [a \in Actors |-> IF a \in Admins /\ \A b \in Admins : a <= b
                                   THEN first ELSE Idle]
    /\ requests = Cardinality({a \in Admins : ~At(a, "idle")}) /\ troubles = 0
    /\ off = ~(row.enabled \/ row.armed) /\ earned = row.name
    /\ strayed = FALSE /\ relanded = FALSE

Work(w) ==
    \/ Take(w) \/ JobRead(w) \/ Fulfill(w) \/ FulfillMisses(w) \/ Refetch(w)
    \/ Reread(w) \/ Settled(w) \/ Stamp(w) \/ Finish(w)
Verify(a) == Probe(a) \/ Commit(a) \/ CommitMisses(a) \/ ReadBack(a)
Serve(a) ==
    \/ EnqueueImported(a) \/ EditWrites(a) \/ EditReadsAgain(a)
    \/ Recommit(a) \/ EditReloads(a) \/ EditDemotes(a)
Ask(a) ==
    \/ Disable(a) \/ Enable(a) \/ Reprice(a) \/ Delete(a) \/ Retest(a)
    \/ \E priced \in BOOLEAN : Requeue(a, priced)
    \/ \E name \in Names, status \in {"on", "off", "keep"} : Edit(a, name, status)
Recover == RecoverLists \/ RecoverEnqueues \/ RetryFires
Trouble == Crash \/ \E a \in Actors : CommitUnheard(a) \/ Outage(a)

Goes ==
    \/ \E w \in Workers : Work(w)
    \/ \E a \in Actors : Verify(a)
    \/ \E a \in Admins : Serve(a)
    \/ Recover

Next == Goes \/ Trouble \/ \E a \in Admins : Ask(a)

Spec == Init /\ [][Next]_vars
-----------------------------------------------------------------------------
(* Properties.                                                             *)

Points == {"idle", "read", "fulfill", "refetch", "probe", "commit", "readback", "reread",
           "settled", "stamp", "done", "retry", "enqueue", "write", "fresh", "recommit",
           "reload", "demote"}

TypeOK ==
    /\ row \in Rows
    /\ queue \in [pending : BOOLEAN, active : BOOLEAN, rerun : BOOLEAN, fifo : Nat]
    /\ timers \in Nat
    /\ boot \in {"listing", "listed", "recovered"}
    /\ \A a \in Actors : at[a].pc \in Points
    /\ requests \in Nat /\ troubles \in Nat
    /\ off \in BOOLEAN /\ earned \in Names
    /\ strayed \in BOOLEAN /\ relanded \in BOOLEAN

\* A mapping that is on was not told to be off since the last instruction to enable
\* it: no run that read the row before the disable and no promise the disable revoked
\* undoes it.  A verdict that lands a second time, after its acknowledgment was lost, may.
DisableStands == row.enabled => ~off \/ relanded

\* A passed verification was obtained for the name the row points at: a new name makes
\* the old one's verdict stale.
VerdictIsOfName == row.verified = "passed" => earned = row.name

\* So it is, whatever was probing when the mapping was retargeted, unless an edit that
\* kept the name it read wrote it over the name of another.
VerdictIsOfTarget == VerdictIsOfName \/ strayed

\* One probe of the mapping runs in the queue at a time.
OneJobAtATime ==
    \A v, w \in Workers : (~At(v, "idle") /\ ~At(w, "idle")) => v = w

\* Someone who will come to it holds a mapping the queue owes something, through
\* duplicate requests, discarded commits, outages and crashes.
Held ==
    \/ boot # "recovered" \/ timers > 0 \/ queue.fifo > 0 \/ queue.rerun
    \/ \E a \in Admins : At(a, "enqueue")
    \/ \E w \in Workers : at[w].pc \notin {"idle", "done"}
\* A promise is never forgotten.  A first probe may be, where an edit wrote the name it
\* kept over the one the job was probing: the job takes the row for another's.
DebtsAreHeld == Owed(row) => Held \/ (strayed /\ Unstamped(row))

\* The queue runs a mapping once at a time and loses none.
QueueIsSound == OneJobAtATime /\ DebtsAreHeld
=============================================================================
