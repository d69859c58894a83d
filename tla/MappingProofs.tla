----------------------------- MODULE MappingProofs -----------------------------
(***************************************************************************)
(* Proofs about Mapping.                                                   *)
(*                                                                         *)
(* The invariant has a part per question.  ShapeInv says what each actor   *)
(* may be doing and QueueInv keeps the queue's books.  StampsInv says that *)
(* what a run has still to write is nowhere to be read, so a token that a  *)
(* run lost never comes back to it; LandedInv, what a run whose verdict    *)
(* landed unheard finds in its place.  OwnInv says what a run may still    *)
(* write, and OffInv that what is on, or promised to be, was not told to   *)
(* be off.  DebtInv says which jobs may be running over what is owed.      *)
(***************************************************************************)
EXTENDS Mapping, FiniteSetTheorems, TLAPS

----------------------------------------
(* Stamps. *)

\* The stamps in use are finitely many, so a new one can be had.
LEMMA FreshIsNew ==
  /\ Fresh \in Nat /\ Fresh # 0
  /\ Fresh \notin {row.tested, row.armedAt, row.updatedAt, row.token.run}
  /\ \A b \in Actors :
        Fresh \notin {at[b].now, at[b].run, at[b].under.run, at[b].seen.tested,
                      at[b].seen.updatedAt, at[b].seen.token.run}
<1> DEFINE held(l) == {l.now, l.run, l.under.run, l.seen.tested, l.seen.updatedAt,
                       l.seen.token.run}
           records == {at[a] : a \in Actors}
           sets == {held(l) : l \in records}
<1>1. IsFiniteSet(Actors) BY ActorAssumption, FS_Union DEF Actors
<1> DEFINE f == [a \in Actors |-> held(at[a])]
<1>2. f \in Surjection(Actors, sets)
  <2>1. f \in [Actors -> sets] OBVIOUS
  <2>2. \A s \in sets : \E a \in Actors : f[a] = s OBVIOUS
  <2> QED BY <2>1, <2>2 DEF Surjection
<1>3. IsFiniteSet(sets) BY <1>1, <1>2, FS_Surjection
<1>4. \A u, v, w, x, y, z : IsFiniteSet({u, v, w, x, y, z})
  <2> TAKE u, v, w, x, y, z
  <2>1. IsFiniteSet({z}) BY FS_Singleton
  <2>2. IsFiniteSet({z} \cup {y}) BY <2>1, FS_AddElement
  <2>3. IsFiniteSet({z} \cup {y} \cup {x}) BY <2>2, FS_AddElement
  <2>4. IsFiniteSet({z} \cup {y} \cup {x} \cup {w}) BY <2>3, FS_AddElement
  <2>5. IsFiniteSet({z} \cup {y} \cup {x} \cup {w} \cup {v}) BY <2>4, FS_AddElement
  <2>6. IsFiniteSet({z} \cup {y} \cup {x} \cup {w} \cup {v} \cup {u}) BY <2>5, FS_AddElement
  <2>7. {z} \cup {y} \cup {x} \cup {w} \cup {v} \cup {u} = {u, v, w, x, y, z} OBVIOUS
  <2> QED BY <2>6, <2>7
<1>5. \A s \in sets : IsFiniteSet(s)
  <2> TAKE s \in sets
  <2>1. PICK l \in records : s = held(l) OBVIOUS
  <2> QED BY <1>4, <2>1
<1>6. IsFiniteSet(UNION sets) BY <1>3, <1>5, FS_UNION
<1>7. IsFiniteSet({row.tested, row.armedAt, row.updatedAt, row.token.run})
  <2>1. {row.tested, row.armedAt, row.updatedAt, row.token.run}
           = {row.tested, row.tested, row.tested, row.armedAt, row.updatedAt, row.token.run}
    OBVIOUS
  <2> QED BY <2>1, <1>4
<1>8. Stamps = {row.tested, row.armedAt, row.updatedAt, row.token.run} \cup UNION sets
  BY DEF Stamps
<1>9. IsFiniteSet(Stamps) BY <1>6, <1>7, <1>8, FS_Union
<1>10. Cardinality(Stamps) \in Nat BY <1>9, FS_CardinalityType
<1>11. \E n \in 1 .. Cardinality(Stamps) + 1 : n \notin Stamps
  <2> SUFFICES ASSUME 1 .. Cardinality(Stamps) + 1 \subseteq Stamps PROVE FALSE OBVIOUS
  <2>1. Cardinality(1 .. Cardinality(Stamps) + 1) = Cardinality(Stamps) + 1 BY <1>10, FS_Interval
  <2>2. Cardinality(1 .. Cardinality(Stamps) + 1) <= Cardinality(Stamps) BY <1>9, FS_Subset
  <2> QED BY <1>10, <2>1, <2>2
<1>12. Fresh \in 1 .. Cardinality(Stamps) + 1 /\ Fresh \notin Stamps BY <1>11 DEF Fresh
<1>13. Fresh \in Nat /\ Fresh # 0 BY <1>10, <1>12
<1>14. \A b \in Actors : held(at[b]) \subseteq Stamps
  <2> TAKE b \in Actors
  <2>1. held(at[b]) \in sets OBVIOUS
  <2> QED BY <1>8, <2>1
<1> QED BY <1>8, <1>12, <1>13, <1>14

\* What a run keeps of the row it read.
LEMMA SightIs ==
  ASSUME NEW r
  PROVE  Sight(r) = [name |-> r.name, enabled |-> r.enabled, verified |-> r.verified,
                     tested |-> r.tested, updatedAt |-> r.updatedAt, armed |-> r.armed,
                     token |-> r.token]
<1>1. DOMAIN Unseen = {"name", "enabled", "verified", "tested", "updatedAt", "armed", "token"}
  BY DEF Unseen
<1> QED BY <1>1 DEF Sight

----------------------------------------
(* Types. *)

Called == Names \cup {""}
Sights == [name : Called, enabled : BOOLEAN, verified : Verdicts, tested : Nat,
           updatedAt : Nat, armed : BOOLEAN, token : Tokens]
Ops == {"none", "job", "import", "retest", "edit", "create"}
Asked == {"on", "off", "keep"}
Locals == [pc : Points, op : Ops, stage : {"first", "again", "stamp", "recommit"}, now : Nat,
           name : Called, seen : Sights, under : Tokens, run : Nat, mode : Modes,
           outcome : Outcomes \cup Asked \cup {"none"}, tries : Nat, overruled : BOOLEAN,
           landed : BOOLEAN]
Queues == [pending : BOOLEAN, active : BOOLEAN, rerun : BOOLEAN, fifo : Nat]

\* What a worker may be doing: nothing, or a job, whose runs are of the armed mode.
JobFits(l) ==
  \/ l.op = "none" /\ l.pc \in {"idle", "done", "retry"}
  \/ l.op = "job" /\ l.pc \in {"read", "fulfill", "refetch"}
  \/ /\ l.op = "job" /\ l.mode = "armed" /\ l.stage # "recommit"
     /\ l.pc \in {"probe", "commit", "readback", "reread", "settled", "stamp"}
     /\ l.pc \in {"commit", "readback"} => l.outcome \in Outcomes

\* What a request may be doing.
RequestFits(l) ==
  \/ l.op = "none" /\ l.pc = "idle"
  \/ l.op = "import" /\ l.pc = "enqueue"
  \/ l.op = "edit" /\ l.pc \in {"reload", "demote"}
  \/ /\ l.op = "edit" /\ l.pc \in {"write", "fresh"} /\ l.name \in Names
     /\ l.stage = "first" /\ l.outcome \in Asked /\ l.mode = "plain"
     /\ l.pc = "write" => l.now = l.run
     /\ l.pc = "fresh" => l.outcome # "off"
  \/ /\ l.op \in {"retest", "edit", "create"} /\ l.stage \in {"first", "recommit"}
     /\ l.pc \in {"probe", "commit", "readback", "recommit"}
     /\ l.pc # "probe" => l.outcome \in Outcomes
     /\ l.pc = "recommit" => l.op # "create"

\* Only a run that has something to write may have a verdict that landed unheard.
Fits(a, l) ==
  /\ l \in Locals
  /\ l.landed => l.pc \in {"probe", "commit", "readback", "reread", "settled", "stamp",
                           "recommit"}
  /\ a \in Workers => JobFits(l)
  /\ a \in Admins => RequestFits(l) /\ (l.landed => l.pc # "probe")

ActorsFit == at \in [Actors -> Locals] /\ \A a \in Actors : Fits(a, at[a])

ShapeInv ==
  /\ row \in Rows /\ queue \in Queues /\ timers \in Nat
  /\ boot \in {"listing", "listed", "recovered"}
  /\ requests \in Nat /\ troubles \in Nat /\ off \in BOOLEAN /\ earned \in Names
  /\ strayed \in BOOLEAN /\ relanded \in BOOLEAN
  /\ ActorsFit

\* An actor is a worker or a request, and not both.
LEMMA SidesApart ==
  /\ \A a \in Workers : a \in Actors /\ a \notin Admins
  /\ \A a \in Admins : a \in Actors /\ a \notin Workers
  /\ \A a \in Actors : a \in Workers \/ a \in Admins
BY ActorAssumption DEF Actors

\* What is kept of a row is of its type.
LEMMA SightFits == ASSUME row \in Rows PROVE Sight(row) \in Sights
BY SightIs DEF Rows, Sights, Called

\* Whoever is at rest fits.
LEMMA IdleFits ==
  ASSUME NEW a
  PROVE  /\ Idle \in Locals /\ Fits(a, Idle)
         /\ Idle.pc = "idle" /\ Idle.op = "none" /\ Idle.under = Run(0)
            /\ Idle.overruled = FALSE /\ Idle.landed = FALSE
         /\ Idle.seen = Unseen /\ Idle.outcome = "none" /\ Idle.stage = "first"
BY DEF Idle, Unseen, Locals, Points, Ops, Sights, Called, Tokens, Run, Verdicts, Modes, Asked,
       Fits, JobFits, RequestFits

\* One actor moves on.
LEMMA GoFits ==
  ASSUME ActorsFit, NEW a \in Actors, NEW l, Fits(a, l), Go(a, l)
  PROVE  /\ ActorsFit' /\ at'[a] = l
         /\ \A b \in Actors : b # a => at'[b] = at[b]
BY DEF ActorsFit, Go, Fits

\* Nobody moves.
LEMMA RestFits == ASSUME ActorsFit, UNCHANGED at PROVE ActorsFit'
BY DEF ActorsFit

\* A run ends, or goes on after a miss.
LEMMA EndsFit ==
  ASSUME NEW a \in Actors, NEW l, Fits(a, l), l.pc # "idle"
  PROVE  /\ l.pc \in {"write", "probe", "commit", "readback", "recommit", "read", "refetch",
                      "reread", "settled", "stamp", "fulfill"} => Fits(a, Close(l))
         /\ l.pc \notin {"done", "retry", "enqueue"} => Fits(a, Fail(l))
         /\ l.pc = "readback" => Fits(a, Discarded(l))
<1> USE SidesApart, IdleFits
<1>1. ASSUME l.pc \in {"write", "probe", "commit", "readback", "recommit", "read", "refetch",
                       "reread", "settled", "stamp", "fulfill"}
      PROVE  Fits(a, Close(l))
  <2>1. CASE l.op = "job"
    <3>1. a \in Workers /\ a \notin Admins BY <2>1 DEF Fits, RequestFits
    <3>2. Close(l) = [Idle EXCEPT !.pc = "done"] BY <2>1 DEF Close
    <3>3. Close(l) \in Locals /\ Close(l).op = "none" /\ Close(l).pc = "done"
          /\ Close(l).landed = FALSE
      BY <3>2 DEF Idle, Locals, Points
    <3> QED BY <3>1, <3>3 DEF Fits, JobFits
  <2>2. CASE l.op = "edit"
    <3>1. a \notin Workers BY <2>2 DEF Fits, JobFits
    <3>2. Close(l) = [Idle EXCEPT !.op = "edit", !.pc = "reload", !.now = l.now,
                                  !.name = l.name] BY <2>2 DEF Close
    <3>3. /\ l.now \in Nat /\ l.name \in Called /\ Idle \in Locals
          /\ "edit" \in Ops /\ "reload" \in Points BY IdleFits DEF Locals, Points, Ops, Fits
    <3>4. Close(l) \in Locals /\ Close(l).op = "edit" /\ Close(l).pc = "reload"
          /\ Close(l).landed = FALSE
      BY <3>2, <3>3, IdleFits DEF Locals
    <3> QED BY <3>1, <3>4 DEF Fits, RequestFits
  <2>3. CASE l.op \notin {"job", "edit"}
    <3>1. Close(l) = Idle BY <2>3 DEF Close
    <3> QED BY <3>1
  <2> QED BY <2>1, <2>2, <2>3
<1>2. ASSUME l.pc \notin {"done", "retry", "enqueue"} PROVE Fits(a, Fail(l))
  <2>1. CASE l.op = "job"
    <3>1. a \in Workers /\ a \notin Admins BY <2>1 DEF Fits, RequestFits
    <3>2. Fail(l) = [Idle EXCEPT !.pc = "retry"] BY <2>1 DEF Fail
    <3>3. Fail(l) \in Locals /\ Fail(l).op = "none" /\ Fail(l).pc = "retry"
          /\ Fail(l).landed = FALSE
      BY <3>2 DEF Idle, Locals, Points
    <3> QED BY <3>1, <3>3 DEF Fits, JobFits
  <2>2. CASE l.op # "job"
    <3>1. Fail(l) = Idle BY <2>2 DEF Fail
    <3> QED BY <3>1
  <2> QED BY <2>1, <2>2
<1>3. ASSUME l.pc = "readback" PROVE Fits(a, Discarded(l))
  <2>1. \/ Discarded(l) = Close(l) \/ Discarded(l) = Fail(l)
        \/ l.op = "job" /\ Discarded(l) = [l EXCEPT !.pc = "reread"]
        \/ l.op = "job" /\ Discarded(l) = [l EXCEPT !.pc = "settled"]
        \/ l.stage = "stamp" /\ Discarded(l) = [l EXCEPT !.pc = "stamp"]
        \/ /\ l.stage \notin {"stamp"} /\ l.op # "create"
           /\ ~(l.op = "job" /\ l.stage \in {"first", "again"})
           /\ Discarded(l) = [l EXCEPT !.pc = "recommit"] BY DEF Discarded
  <2>2. Fits(a, Close(l)) /\ Fits(a, Fail(l)) BY <1>1, <1>2, <1>3
  <2> QED BY <2>1, <2>2, <1>3 DEF Fits, Locals, Points, JobFits, RequestFits
<1> QED BY <1>1, <1>2, <1>3

\* Every statement leaves a row a row.
LEMMA RowsKept ==
  ASSUME NEW r \in Rows, NEW n \in Nat
  PROVE  /\ SwitchedOff(r, n) \in Rows /\ SwitchedOn(r, n) \in Rows
         /\ \A name \in Names, t \in BOOLEAN : Renamed(r, name, t, n) \in Rows
         /\ Repriced(r, n) \in Rows /\ Demoted(r, n) \in Rows
         /\ MayFulfill(r) => Fulfilled(r, n) \in Rows
         /\ \A priced \in BOOLEAN : Requeued(r, priced, n) \in Rows
<1> USE DEF Rows, Tokens, Run, RequeueRun, Verdicts
<1>1. SwitchedOff(r, n) \in Rows /\ SwitchedOn(r, n) \in Rows BY DEF SwitchedOff, SwitchedOn
<1>2. \A name \in Names, t \in BOOLEAN : Renamed(r, name, t, n) \in Rows BY DEF Renamed
<1>3. Repriced(r, n) \in Rows BY <1>2 DEF Repriced
<1>4. Demoted(r, n) \in Rows BY DEF Demoted
<1>5. MayFulfill(r) => Fulfilled(r, n) \in Rows
  <2>1. (r.enabled \/ Aligned(r)) \in BOOLEAN BY DEF Aligned
  <2> QED BY <2>1 DEF Fulfilled
<1>6. \A priced \in BOOLEAN : Requeued(r, priced, n) \in Rows BY DEF Requeued
<1> QED BY <1>1, <1>2, <1>3, <1>4, <1>5, <1>6

\* What a commit leaves of the row, field by field.
LEMMA CommittedIs ==
  ASSUME NEW r \in Rows, NEW l \in Locals, l.outcome \in Outcomes
  PROVE  LET c == Claim(l)  d == Committed(r, c) IN
         /\ d \in Rows
         /\ d.exists = r.exists /\ d.name = r.name /\ d.token = Run(l.run)
         /\ d.tested = l.now /\ d.owed = FALSE
         /\ d.verified = (IF l.outcome = "inconclusive" THEN r.verified ELSE l.outcome)
         /\ d.enabled <=> l.outcome # "failed" /\ (r.enabled \/ Enables(r, c))
         /\ d.armed <=> StillArmed(r, c)
<1> DEFINE c == Claim(l)
<1>1. /\ c.outcome = l.outcome /\ c.now = l.now /\ c.run = l.run /\ c.mode = l.mode
      /\ c.name = l.name /\ c.expected = l.under /\ c.enabled = l.seen.enabled
      /\ c.updatedAt = l.seen.updatedAt BY DEF Claim
<1>2. c.now \in Nat /\ c.run \in Nat BY <1>1 DEF Locals
<1> HIDE DEF c
<1>3. StillArmed(r, c) \in BOOLEAN BY DEF StillArmed, Rows
<1>4. (c.outcome # "failed" /\ (r.enabled \/ Enables(r, c))) \in BOOLEAN BY DEF Rows
<1>5. Committed(r, c) \in Rows
  <2> DEFINE on == c.outcome # "failed" /\ (r.enabled \/ Enables(r, c))
             still == StillArmed(r, c)
             verdict == IF c.outcome = "inconclusive" THEN r.verified ELSE c.outcome
             stamp == IF c.mode = "armed" /\ c.outcome # "passed" /\ r.armed /\ Aligned(r)
                      THEN c.now ELSE r.armedAt
  <2>1. on \in BOOLEAN /\ still \in BOOLEAN BY <1>3, <1>4
  <2>2. verdict \in Verdicts BY <1>1 DEF Outcomes, Verdicts, Rows
  <2>3. stamp \in Nat BY <1>2 DEF Rows
  <2>4. Committed(r, c) =
           [r EXCEPT !.verified = verdict, !.tested = c.now, !.token = Run(c.run),
                     !.updatedAt = c.now, !.owed = FALSE, !.enabled = on, !.armed = still,
                     !.armedAt = stamp] BY DEF Committed, Rows
  <2> HIDE DEF on, still, verdict, stamp
  <2>5. \A e, f \in BOOLEAN, v \in Verdicts, n, m, t \in Nat :
           [r EXCEPT !.verified = v, !.tested = n, !.token = Run(m), !.updatedAt = n,
                     !.owed = FALSE, !.enabled = e, !.armed = f, !.armedAt = t] \in Rows
    <3>1. \A m \in Nat : Run(m) \in Tokens BY DEF Tokens, Run
    <3> TAKE e, f \in BOOLEAN, v \in Verdicts, n, m, t \in Nat
    <3> DEFINE half == [r EXCEPT !.verified = v, !.tested = n, !.token = Run(m),
                                 !.updatedAt = n]
    <3>2. half \in Rows BY <3>1 DEF Rows
    <3>3. [r EXCEPT !.verified = v, !.tested = n, !.token = Run(m), !.updatedAt = n,
                    !.owed = FALSE, !.enabled = e, !.armed = f, !.armedAt = t]
            = [half EXCEPT !.owed = FALSE, !.enabled = e, !.armed = f, !.armedAt = t] OBVIOUS
    <3> HIDE DEF half
    <3>4. [half EXCEPT !.owed = FALSE, !.enabled = e, !.armed = f, !.armedAt = t] \in Rows
      BY <3>2 DEF Rows
    <3> QED BY <3>3, <3>4
  <2>6. [r EXCEPT !.verified = verdict, !.tested = c.now, !.token = Run(c.run),
                  !.updatedAt = c.now, !.owed = FALSE, !.enabled = on, !.armed = still,
                  !.armedAt = stamp] \in Rows BY <2>1, <2>2, <2>3, <2>5, <1>2, Zenon
  <2> QED BY <2>4, <2>6
<1>6. /\ Committed(r, c).exists = r.exists /\ Committed(r, c).name = r.name
      /\ Committed(r, c).token = Run(l.run) /\ Committed(r, c).tested = l.now
      /\ Committed(r, c).owed = FALSE
      /\ Committed(r, c).verified = (IF l.outcome = "inconclusive"
                                     THEN r.verified ELSE l.outcome) BY <1>1 DEF Committed, Rows
<1>7. Committed(r, c).enabled = (c.outcome # "failed" /\ (r.enabled \/ Enables(r, c)))
  BY DEF Committed, Rows
<1>8. Committed(r, c).armed = StillArmed(r, c) BY DEF Committed, Rows
<1> QED BY <1>1, <1>3, <1>4, <1>5, <1>6, <1>7, <1>8 DEF c

\* The queue's two operations leave a queue.
LEMMA QueueKept ==
  ASSUME NEW q \in Queues
  PROVE  Enqueued(q) \in Queues /\ Processed(q) \in Queues
<1> DEFINE both == q.rerun \/ q.active
           more == q.fifo + 1
<1>1. both \in BOOLEAN /\ more \in Nat BY DEF Queues
<1>2. /\ Enqueued(q) \in {[q EXCEPT !.pending = TRUE,
                                    !.fifo = more], [q EXCEPT !.rerun = both]}
      /\ Processed(q) \in {[q EXCEPT !.active = FALSE, !.rerun = FALSE, !.fifo = more],
                           [q EXCEPT !.active = FALSE, !.pending = FALSE]}
  BY DEF Enqueued, Processed
<1> HIDE DEF both, more
<1>3. \A e \in BOOLEAN, n \in Nat :
         /\ [q EXCEPT !.pending = TRUE, !.fifo = n] \in Queues
         /\ [q EXCEPT !.rerun = e] \in Queues
         /\ [q EXCEPT !.active = FALSE, !.rerun = FALSE, !.fifo = n] \in Queues
         /\ [q EXCEPT !.active = FALSE, !.pending = FALSE] \in Queues BY DEF Queues
<1> QED BY <1>1, <1>2, <1>3

\* A worker that read the row and goes on to probe it.
LEMMA AttemptFits ==
  ASSUME ShapeInv, NEW w \in Workers, at[w].op = "job", NEW stage \in {"first", "again"},
         Attempt(w, stage)
  PROVE  /\ ActorsFit' /\ \A b \in Actors : b # w => at'[b] = at[b]
         /\ UNCHANGED <<row, queue, timers, boot, requests, troubles, off, earned, strayed, relanded>>
         /\ at'[w].pc = "probe" /\ at'[w].op = "job" /\ at'[w].stage = stage
         /\ at'[w].now = at[w].now /\ at'[w].run = Fresh /\ at'[w].under = row.token
         /\ at'[w].seen = Sight(row) /\ at'[w].name = row.name
         /\ at'[w].landed = at[w].landed
<1> DEFINE l == [at[w] EXCEPT !.pc = "probe", !.stage = stage, !.seen = Sight(row),
                              !.name = row.name, !.under = row.token, !.run = Fresh,
                              !.mode = "armed"]
<1>1. at[w] \in Locals /\ w \in Actors /\ w \notin Admins
  BY SidesApart DEF ShapeInv, ActorsFit, Fits
<1>2. Sight(row) \in Sights /\ row.name \in Called /\ row.token \in Tokens /\ Fresh \in Nat
  BY SightFits, FreshIsNew DEF ShapeInv, Rows, Called
<1>3. l \in Locals BY <1>1, <1>2 DEF Locals, Points, Modes
<1>4. /\ l.pc = "probe" /\ l.op = "job" /\ l.stage = stage /\ l.now = at[w].now
         /\ l.run = Fresh
      /\ l.under = row.token /\ l.seen = Sight(row) /\ l.name = row.name /\ l.mode = "armed"
      /\ l.landed = at[w].landed
  BY <1>1 DEF Locals
<1>5. Go(w, l) BY DEF Attempt
<1> HIDE DEF l
<1>6. Fits(w, l) BY <1>1, <1>3, <1>4 DEF Fits, JobFits
<1>7. ActorsFit' /\ at'[w] = l /\ \A b \in Actors : b # w => at'[b] = at[b]
  BY <1>1, <1>5, <1>6, GoFits DEF ShapeInv
<1> QED BY <1>4, <1>7 DEF Attempt, counters, ghosts

\* A request that has read the row.
Opened(l, op, pc, mode) ==
  /\ l \in Locals /\ l.op = op /\ l.pc = pc /\ l.mode = mode /\ l.stage = "first"
  /\ l.now = Fresh /\ l.run = Fresh /\ l.seen = Sight(row) /\ l.name = row.name
  /\ l.under = row.token /\ l.outcome = "none" /\ l.overruled = FALSE /\ l.landed = FALSE

LEMMA BeginFits ==
  ASSUME ShapeInv, NEW mode \in Modes, NEW op \in {"retest", "edit"},
         NEW pc \in {"probe", "write"}
  PROVE  Opened(Begin(op, pc, row, mode), op, pc, mode)
<1>1. Sight(row) \in Sights /\ row.name \in Called /\ row.token \in Tokens /\ Fresh \in Nat
  BY SightFits, FreshIsNew DEF ShapeInv, Rows, Called
<1>2. Idle \in Locals BY IdleFits
<1> QED BY <1>1, <1>2, IdleFits DEF Begin, Opened, Locals, Points, Ops, Modes, Idle

\* The ghost that a disable leaves with those it overrules changes nothing else.
LEMMA OverruledFits ==
  ASSUME ActorsFit
  PROVE  /\ Overruled \in [Actors -> Locals]
         /\ \A b \in Actors :
               /\ Fits(b, Overruled[b])
               /\ \E o \in BOOLEAN : Overruled[b] = [at[b] EXCEPT !.overruled = o]
               /\ at[b].op \in {"retest", "edit", "create"} => Overruled[b].overruled = TRUE
<1> SUFFICES ASSUME NEW b \in Actors
             PROVE  /\ Fits(b, Overruled[b])
                    /\ \E o \in BOOLEAN : Overruled[b] = [at[b] EXCEPT !.overruled = o]
                    /\ at[b].op \in {"retest", "edit", "create"}
                         => Overruled[b].overruled = TRUE BY DEF Overruled, Fits
<1> DEFINE o == at[b].overruled \/ at[b].op \in {"retest", "edit", "create"}
<1>1. o \in BOOLEAN OBVIOUS
<1>2. Overruled[b] = [at[b] EXCEPT !.overruled = o] BY DEF Overruled
<1>3. at[b].op \in {"retest", "edit", "create"} => o = TRUE OBVIOUS
<1> HIDE DEF o
<1>4. at[b] \in Locals /\ Fits(b, at[b]) BY DEF ActorsFit
<1>5. \A e \in BOOLEAN : LET m == [at[b] EXCEPT !.overruled = e] IN
         Fits(b, m) /\ m.overruled = e BY <1>4 DEF Fits, Locals, JobFits, RequestFits
<1> QED BY <1>1, <1>2, <1>3, <1>5

\* A run whose place in its procedure alone changes, that ends, or that fails.
LEMMA PointShapes ==
  ASSUME ShapeInv, NEW a \in Actors, NEW pc, Fits(a, [at[a] EXCEPT !.pc = pc]), Point(a, pc),
         UNCHANGED <<row, ghosts, Local>>
  PROVE  ShapeInv'
<1>1. ActorsFit' BY GoFits DEF ShapeInv, Point
<1> QED BY <1>1 DEF ShapeInv, Local, counters, ghosts

\* A job that is dropped leaves everything in its type.
LEMMA DropShapes ==
  ASSUME ShapeInv, NEW w \in Workers, Drop(w),
         at[w].pc \in {"read", "refetch", "reread", "settled", "stamp"}
  PROVE  ShapeInv'
<1>1. w \in Actors /\ Fits(w, at[w]) BY SidesApart DEF ShapeInv, ActorsFit
<1>2. ActorsFit' BY <1>1, EndsFit, GoFits DEF ShapeInv, Drop
<1> QED BY <1>2 DEF ShapeInv, Drop, Local, counters, ghosts

\* A job that is to be tried again leaves everything in its type.
LEMMA ReturnShapes ==
  ASSUME ShapeInv, NEW w \in Workers, Return(w), at[w].pc \in {"reread", "settled"}
  PROVE  ShapeInv'
<1>1. w \in Actors /\ Fits(w, at[w]) BY SidesApart DEF ShapeInv, ActorsFit
<1>2. ActorsFit' BY <1>1, EndsFit, GoFits DEF ShapeInv, Return
<1> QED BY <1>2 DEF ShapeInv, Return, Local, counters, ghosts

\* A step keeps the types.
LEMMA ShapeStep ==
  ASSUME ShapeInv, [Next]_vars
  PROVE  ShapeInv'
<1>1. ASSUME NEW w \in Workers, Take(w) PROVE ShapeInv'
  <2> DEFINE l == [Idle EXCEPT !.op = "job", !.pc = "read", !.now = Fresh]
  <2>1. w \in Actors /\ w \notin Admins /\ Go(w, l) BY <1>1, SidesApart DEF Take
  <2>2. l \in Locals /\ l.op = "job" /\ l.pc = "read" /\ l.landed = FALSE
    BY IdleFits, FreshIsNew DEF Locals, Points, Ops, Idle
  <2> HIDE DEF l
  <2>3. ActorsFit' BY <2>1, <2>2, GoFits DEF ShapeInv, Fits, JobFits
  <2>4. \A q \in Queues : q.fifo > 0 => [q EXCEPT !.fifo = q.fifo - 1,
                                                  !.active = TRUE] \in Queues
    <3> TAKE q \in Queues
    <3>1. \A n \in Nat : [q EXCEPT !.fifo = n, !.active = TRUE] \in Queues BY DEF Queues
    <3>2. q.fifo > 0 => q.fifo - 1 \in Nat BY DEF Queues
    <3> QED BY <3>1, <3>2
  <2>5. queue' \in Queues BY <1>1, <2>4 DEF Take, ShapeInv
  <2> QED BY <1>1, <2>3, <2>5 DEF Take, ShapeInv, counters, ghosts
<1>2. ASSUME NEW w \in Workers, JobRead(w) PROVE ShapeInv'
  <2>1. w \in Actors /\ Fits(w, at[w]) /\ at[w] \in Locals
    BY SidesApart DEF ShapeInv, ActorsFit, Fits
  <2>2. at[w].pc = "read" /\ at[w].op = "job" /\ w \notin Admins
    BY <1>2, <2>1, SidesApart DEF JobRead, At, Fits, JobFits
  <2>3. CASE Drop(w) BY <2>1, <2>2, <2>3, DropShapes
  <2>4. CASE Attempt(w, "first") BY <2>2, <2>4, AttemptFits DEF ShapeInv
  <2>5. CASE Continue(w, "fulfill")
    <3>1. Fits(w, [at[w] EXCEPT !.pc = "fulfill"]) BY <2>1, <2>2 DEF Fits, Locals, Points, JobFits
    <3> QED BY <2>1, <2>5, <3>1, PointShapes DEF Continue
  <2> QED BY <1>2, <2>3, <2>4, <2>5 DEF JobRead
<1>3. ASSUME NEW w \in Workers, Fulfill(w) PROVE ShapeInv'
  <2>1. w \in Actors /\ Fits(w, at[w]) /\ at[w] \in Locals
    BY SidesApart DEF ShapeInv, ActorsFit, Fits
  <2>2. at[w].pc = "fulfill" BY <1>3 DEF Fulfill, At
  <2>3. Go(w, Close(at[w])) BY <1>3 DEF Fulfill
  <2>4. ActorsFit' BY <2>1, <2>2, <2>3, EndsFit, GoFits DEF ShapeInv
  <2>5. row' \in Rows BY <1>3, <2>1, RowsKept DEF Fulfill, ShapeInv, Locals
  <2> QED BY <1>3, <2>4, <2>5 DEF Fulfill, ShapeInv, Local, counters, ghosts
<1>4. ASSUME NEW w \in Workers, FulfillMisses(w) PROVE ShapeInv'
  <2>1. w \in Actors /\ Fits(w, at[w]) /\ at[w] \in Locals
    BY SidesApart DEF ShapeInv, ActorsFit, Fits
  <2>2. at[w].pc = "fulfill" /\ w \notin Admins BY <1>4, SidesApart DEF FulfillMisses, At
  <2>3. Fits(w, [at[w] EXCEPT !.pc = "refetch"]) BY <2>1, <2>2 DEF Fits, Locals, Points, JobFits
  <2> QED BY <1>4, <2>1, <2>3, PointShapes DEF FulfillMisses, Continue
<1>5. ASSUME NEW w \in Workers, Refetch(w) PROVE ShapeInv'
  <2>1. w \in Actors /\ Fits(w, at[w]) /\ at[w] \in Locals
    BY SidesApart DEF ShapeInv, ActorsFit, Fits
  <2>2. at[w].pc = "refetch" /\ at[w].op = "job"
    BY <1>5, <2>1, SidesApart DEF Refetch, At, Fits, JobFits
  <2> QED BY <1>5, <2>1, <2>2, DropShapes, AttemptFits DEF Refetch, ShapeInv
<1>6. ASSUME NEW w \in Workers, Reread(w) PROVE ShapeInv'
  <2>1. w \in Actors /\ Fits(w, at[w]) /\ at[w] \in Locals
    BY SidesApart DEF ShapeInv, ActorsFit, Fits
  <2>2. at[w].pc = "reread" /\ at[w].op = "job"
    BY <1>6, <2>1, SidesApart DEF Reread, At, Fits, JobFits
  <2>3. CASE Return(w) BY <2>1, <2>2, <2>3, ReturnShapes
  <2>4. CASE Drop(w) BY <2>1, <2>2, <2>4, DropShapes
  <2>5. CASE Attempt(w, "again") BY <2>2, <2>5, AttemptFits DEF ShapeInv
  <2> QED BY <1>6, <2>3, <2>4, <2>5 DEF Reread
<1>7. ASSUME NEW w \in Workers, Settled(w) PROVE ShapeInv'
  <2>1. w \in Actors /\ Fits(w, at[w]) /\ at[w] \in Locals
    BY SidesApart DEF ShapeInv, ActorsFit, Fits
  <2>2. at[w].pc = "settled" BY <1>7 DEF Settled, At
  <2> QED BY <1>7, <2>1, <2>2, DropShapes, ReturnShapes DEF Settled
<1>8. ASSUME NEW w \in Workers, Stamp(w) PROVE ShapeInv'
  <2>1. w \in Actors /\ Fits(w, at[w]) /\ at[w] \in Locals
    BY SidesApart DEF ShapeInv, ActorsFit, Fits
  <2> DEFINE more == at[w].tries + 1
             l == [at[w] EXCEPT !.pc = "commit", !.outcome = "inconclusive",
                                !.under = row.token,
                                !.run = Fresh, !.tries = more]
  <2>2. at[w].pc = "stamp" BY <1>8 DEF Stamp, At
  <2>3. CASE Drop(w) BY <2>1, <2>2, <2>3, DropShapes
  <2>4. CASE Go(w, l) /\ UNCHANGED <<row, queue, timers, boot, counters, ghosts>>
    <3>1. row.token \in Tokens /\ Fresh \in Nat BY FreshIsNew DEF ShapeInv, Rows
    <3>2. more \in Nat BY <2>1 DEF Locals
    <3> HIDE DEF more
    <3>3. l \in Locals BY <2>1, <3>1, <3>2 DEF Locals, Points, Outcomes
    <3>4. Fits(w, l)
      BY <2>1, <2>2, <3>3, SidesApart DEF Fits, JobFits, RequestFits, Locals, Outcomes
    <3> HIDE DEF l
    <3>5. ActorsFit' BY <2>1, <2>4, <3>4, GoFits DEF ShapeInv
    <3> QED BY <2>4, <3>5 DEF ShapeInv, counters, ghosts
  <2> QED BY <1>8, <2>3, <2>4 DEF Stamp
<1>9. ASSUME NEW w \in Workers, Finish(w) PROVE ShapeInv'
  <2>1. w \in Actors BY SidesApart
  <2>2. ActorsFit' BY <1>9, <2>1, IdleFits, GoFits DEF Finish, ShapeInv
  <2>3. queue' \in Queues BY <1>9, QueueKept DEF Finish, ShapeInv
  <2> QED BY <1>9, <2>2, <2>3 DEF Finish, ShapeInv, counters, ghosts
<1>10. ASSUME NEW a \in Actors, Probe(a) PROVE ShapeInv'
  <2>1. a \in Actors /\ Fits(a, at[a]) /\ at[a] \in Locals
    BY SidesApart DEF ShapeInv, ActorsFit, Fits
  <2>2. at[a].pc = "probe" BY <1>10 DEF Probe, At
  <2>3. UNCHANGED <<row, queue, timers, boot, counters, ghosts>> BY <1>10 DEF Probe, Local
  <2>4. ASSUME NEW o \in Outcomes, Go(a, [at[a] EXCEPT !.pc = "commit", !.outcome = o])
        PROVE  ActorsFit'
    <3>1. Fits(a, [at[a] EXCEPT !.pc = "commit", !.outcome = o])
      BY <2>1, <2>2 DEF Fits, Locals, Points, JobFits, RequestFits
    <3> QED BY <2>1, <2>4, <3>1, GoFits DEF ShapeInv
  <2>5. ASSUME at[a].op = "job", Go(a, [at[a] EXCEPT !.pc = "stamp", !.stage = "stamp"])
        PROVE  ActorsFit'
    <3>1. Fits(a, [at[a] EXCEPT !.pc = "stamp", !.stage = "stamp"])
      BY <2>1, <2>2, <2>5, SidesApart DEF Fits, Locals, Points, JobFits, RequestFits
    <3> QED BY <2>1, <2>5, <3>1, GoFits DEF ShapeInv
  <2>6. ASSUME Go(a, Close(at[a])) PROVE ActorsFit'
    BY <2>1, <2>2, <2>6, EndsFit, GoFits DEF ShapeInv
  <2> QED BY <1>10, <2>3, <2>4, <2>5, <2>6 DEF Probe, ShapeInv, counters, ghosts
<1>11. ASSUME NEW a \in Actors, Commit(a) PROVE ShapeInv'
  <2>1. a \in Actors /\ Fits(a, at[a]) /\ at[a] \in Locals
    BY SidesApart DEF ShapeInv, ActorsFit, Fits
  <2>2. at[a].pc = "commit" BY <1>11 DEF Commit, At
  <2>3. at[a].outcome \in Outcomes BY <2>1, <2>2, SidesApart DEF Fits, JobFits, RequestFits
  <2>4. row' \in Rows BY <1>11, <2>1, <2>3, CommittedIs DEF Commit, Land, ShapeInv
  <2>5. earned' \in Names /\ off' \in BOOLEAN /\ strayed' \in BOOLEAN /\ relanded' \in BOOLEAN
    BY <1>11, <2>1 DEF Commit, Land, Claim, Unmoved, ShapeInv, Rows, Locals
  <2>6. ActorsFit' BY <1>11, <2>1, <2>2, EndsFit, GoFits DEF Commit, ShapeInv
  <2> QED BY <1>11, <2>4, <2>5, <2>6 DEF Commit, ShapeInv, Local, counters
<1>12. ASSUME NEW a \in Actors, CommitMisses(a) PROVE ShapeInv'
  <2>1. a \in Actors /\ Fits(a, at[a]) /\ at[a] \in Locals
    BY SidesApart DEF ShapeInv, ActorsFit, Fits
  <2>2. at[a].pc = "commit" BY <1>12 DEF CommitMisses, At
  <2>3. Fits(a, [at[a] EXCEPT !.pc = "readback"])
    BY <2>1, <2>2 DEF Fits, Locals, Points, JobFits, RequestFits
  <2> QED BY <1>12, <2>1, <2>3, PointShapes DEF CommitMisses
<1>13. ASSUME NEW a \in Actors, ReadBack(a) PROVE ShapeInv'
  <2>1. a \in Actors /\ Fits(a, at[a]) /\ at[a] \in Locals
    BY SidesApart DEF ShapeInv, ActorsFit, Fits
  <2>2. at[a].pc = "readback" BY <1>13 DEF ReadBack, At
  <2>3. Fits(a, Close(at[a])) /\ Fits(a, Fail(at[a])) /\ Fits(a, Discarded(at[a]))
    BY <2>1, <2>2, EndsFit
  <2>4. \E l : Fits(a, l) /\ Go(a, l) BY <1>13, <2>3 DEF ReadBack
  <2>5. ActorsFit' BY <2>1, <2>4, GoFits DEF ShapeInv
  <2> QED BY <1>13, <2>5 DEF ReadBack, ShapeInv, Local, counters, ghosts
<1>14. ASSUME NEW a \in Actors, CommitUnheard(a) PROVE ShapeInv'
  <2>1. a \in Actors /\ Fits(a, at[a]) /\ at[a] \in Locals
    BY SidesApart DEF ShapeInv, ActorsFit, Fits
  <2>2. at[a].pc = "commit" BY <1>14 DEF CommitUnheard, At
  <2>3. at[a].outcome \in Outcomes BY <2>1, <2>2, SidesApart DEF Fits, JobFits, RequestFits
  <2>4. row' \in Rows BY <1>14, <2>1, <2>3, CommittedIs DEF CommitUnheard, Land, ShapeInv
  <2>5. earned' \in Names /\ off' \in BOOLEAN /\ strayed' \in BOOLEAN /\ relanded' \in BOOLEAN
    BY <1>14, <2>1 DEF CommitUnheard, Land, Claim, Unmoved, ShapeInv, Rows, Locals
  <2>6. Fits(a, [at[a] EXCEPT !.landed = TRUE])
    BY <2>1, <2>2 DEF Fits, Locals, JobFits, RequestFits
  <2>7. ActorsFit' BY <1>14, <2>6, GoFits DEF CommitUnheard, ShapeInv
  <2> QED BY <1>14, <2>4, <2>5, <2>7 DEF CommitUnheard, ShapeInv
<1>15. ASSUME NEW a \in Actors, Outage(a) PROVE ShapeInv'
  <2>1. a \in Actors /\ Fits(a, at[a]) /\ at[a] \in Locals
    BY SidesApart DEF ShapeInv, ActorsFit, Fits
  <2>2. at[a].pc \notin {"idle", "done", "retry", "enqueue"} BY <1>15 DEF Outage
  <2>3. ActorsFit' BY <1>15, <2>1, <2>2, EndsFit, GoFits DEF Outage, ShapeInv
  <2> QED BY <1>15, <2>3 DEF Outage, ShapeInv, ghosts
<1>16. ASSUME NEW a \in Admins, EnqueueImported(a) PROVE ShapeInv'
  <2>1. a \in Actors BY SidesApart
  <2>2. ActorsFit' BY <1>16, <2>1, IdleFits, GoFits DEF EnqueueImported, ShapeInv
  <2>3. queue' \in Queues BY <1>16, QueueKept DEF EnqueueImported, ShapeInv
  <2> QED BY <1>16, <2>2, <2>3 DEF EnqueueImported, ShapeInv, counters, ghosts
<1>17. ASSUME NEW a \in Admins, EditWrites(a) PROVE ShapeInv'
  <2>1. a \in Actors /\ Fits(a, at[a]) /\ at[a] \in Locals
    BY SidesApart DEF ShapeInv, ActorsFit, Fits
  <2> DEFINE l == at[a]
             disables == l.outcome = "off" /\ row.exists
             next == IF WorthProbing(l) THEN [l EXCEPT !.pc = "fresh"] ELSE Close(l)
             told == IF disables THEN SwitchedOff(row, l.now) ELSE row
  <2>2. /\ l.pc = "write" /\ a \notin Workers /\ l.name \in Names /\ l.now \in Nat
        /\ row' = IF row.exists
                  THEN Renamed(told, l.name, l.name # l.seen.name, l.now) ELSE row
        /\ off' = (off \/ disables) /\ relanded' = (relanded /\ ~disables)
        /\ at' = [(IF disables THEN Overruled ELSE at) EXCEPT ![a] = next]
    BY <1>17, <2>1, SidesApart DEF EditWrites, At, Fits, RequestFits, Locals
  <2>3. Fits(a, next)
    <3>1. CASE WorthProbing(l)
      <4>1. l.outcome # "off" BY <3>1 DEF WorthProbing
      <4> QED BY <2>1, <2>2, <3>1, <4>1 DEF Fits, Locals, Points, RequestFits
    <3>2. CASE ~WorthProbing(l) BY <2>1, <2>2, <3>2, EndsFit
    <3> QED BY <3>1, <3>2
  <2>4. row' \in Rows
    <3>1. told \in Rows BY <2>2, RowsKept DEF ShapeInv
    <3> HIDE DEF told
    <3> QED BY <2>2, <3>1, RowsKept DEF ShapeInv
  <2>5. off' \in BOOLEAN /\ relanded' \in BOOLEAN BY <2>2 DEF ShapeInv
  <2>7. strayed' \in BOOLEAN BY <1>17 DEF EditWrites, ShapeInv
  <2> HIDE DEF next
  <2>6. ActorsFit' BY <2>1, <2>2, <2>3, OverruledFits DEF ActorsFit, ShapeInv, Fits
  <2> QED BY <1>17, <2>4, <2>5, <2>6, <2>7 DEF EditWrites, ShapeInv, Local, counters
<1>18. ASSUME NEW a \in Admins, EditReadsAgain(a) PROVE ShapeInv'
  <2>1. a \in Actors /\ Fits(a, at[a]) /\ at[a] \in Locals
    BY SidesApart DEF ShapeInv, ActorsFit, Fits
  <2> DEFINE l == at[a]
             seen == [Sight(row) EXCEPT !.enabled = l.seen.enabled]
             m == [l EXCEPT !.pc = "probe", !.mode = EditMode(l), !.under = row.token,
                            !.seen = seen]
  <2>2. at[a].pc = "fresh" /\ a \notin Workers
    BY <1>18, <2>1, SidesApart DEF EditReadsAgain, At, Fits, JobFits
  <2>3. CASE Go(a, Idle)
    <3>1. ActorsFit' BY <2>1, <2>3, IdleFits, GoFits DEF ShapeInv
    <3> QED BY <1>18, <3>1 DEF EditReadsAgain, ShapeInv, Local, counters, ghosts
  <2>4. CASE Go(a, m)
    <3>1. seen \in Sights BY <2>1, SightFits DEF ShapeInv, Sights, Locals
    <3>2. EditMode(l) \in Modes BY DEF EditMode, Modes
    <3>3. row.token \in Tokens BY DEF ShapeInv, Rows
    <3> HIDE DEF seen
    <3>4. m \in Locals BY <2>1, <3>1, <3>2, <3>3 DEF Locals, Points
    <3>5. Fits(a, m) BY <2>1, <2>2, <3>4 DEF Fits, RequestFits, Locals
    <3> HIDE DEF m
    <3>6. ActorsFit' BY <2>1, <2>4, <3>5, GoFits DEF ShapeInv
    <3> QED BY <1>18, <3>6 DEF EditReadsAgain, ShapeInv, Local, counters, ghosts
  <2> QED BY <1>18, <2>3, <2>4 DEF EditReadsAgain
<1>19. ASSUME NEW a \in Admins, Recommit(a) PROVE ShapeInv'
  <2>1. a \in Actors /\ Fits(a, at[a]) /\ at[a] \in Locals
    BY SidesApart DEF ShapeInv, ActorsFit, Fits
  <2> DEFINE l == at[a]
             mode == IF l.seen.armed THEN "armed" ELSE "plain"
             more == l.tries + 1
             m == [l EXCEPT !.pc = "commit", !.stage = "recommit", !.under = row.token,
                            !.mode = mode, !.tries = more]
  <2>2. at[a].pc = "recommit" /\ a \notin Workers
    BY <1>19, <2>1, SidesApart DEF Recommit, At, Fits, JobFits
  <2>3. CASE Go(a, Close(l))
    <3>1. ActorsFit' BY <2>1, <2>2, <2>3, EndsFit, GoFits DEF ShapeInv
    <3> QED BY <1>19, <3>1 DEF Recommit, ShapeInv, Local, counters, ghosts
  <2>4. CASE Go(a, m)
    <3>1. mode \in Modes /\ more \in Nat /\ row.token \in Tokens
      BY <2>1 DEF Modes, Locals, ShapeInv, Rows
    <3> HIDE DEF mode, more
    <3>2. m \in Locals BY <2>1, <3>1 DEF Locals, Points
    <3>3. Fits(a, m) BY <2>1, <2>2, <3>2 DEF Fits, RequestFits, Locals
    <3> HIDE DEF m
    <3>4. ActorsFit' BY <2>1, <2>4, <3>3, GoFits DEF ShapeInv
    <3> QED BY <1>19, <3>4 DEF Recommit, ShapeInv, Local, counters, ghosts
  <2> QED BY <1>19, <2>3, <2>4 DEF Recommit
<1>20. ASSUME NEW a \in Admins, EditReloads(a) PROVE ShapeInv'
  <2>1. a \in Actors /\ Fits(a, at[a]) /\ at[a] \in Locals
    BY SidesApart DEF ShapeInv, ActorsFit, Fits
  <2> DEFINE m == [at[a] EXCEPT !.pc = "demote", !.seen = Sight(row)]
  <2>2. at[a].pc = "reload" /\ a \notin Workers
    BY <1>20, <2>1, SidesApart DEF EditReloads, At, Fits, JobFits
  <2>3. m \in Locals BY <2>1, SightFits DEF Locals, Points, ShapeInv
  <2>4. Fits(a, m) BY <2>1, <2>2, <2>3 DEF Fits, RequestFits, Locals
  <2>5. Go(a, m) \/ Go(a, Idle) BY <1>20 DEF EditReloads
  <2> HIDE DEF m
  <2>6. ActorsFit' BY <2>1, <2>4, <2>5, IdleFits, GoFits DEF ShapeInv
  <2> QED BY <1>20, <2>6 DEF EditReloads, ShapeInv, Local, counters, ghosts
<1>21. ASSUME NEW a \in Admins, EditDemotes(a) PROVE ShapeInv'
  <2>1. a \in Actors /\ Fits(a, at[a]) /\ at[a] \in Locals
    BY SidesApart DEF ShapeInv, ActorsFit, Fits
  <2>2. ActorsFit' BY <1>21, <2>1, IdleFits, GoFits DEF EditDemotes, ShapeInv
  <2>3. row' \in Rows BY <1>21, <2>1, RowsKept DEF EditDemotes, ShapeInv, Locals
  <2> QED BY <1>21, <2>2, <2>3 DEF EditDemotes, ShapeInv, Local, counters, ghosts
<1>22. ASSUME NEW a \in Admins, Disable(a) PROVE ShapeInv'
  <2>1. row' \in Rows BY <1>22, RowsKept, FreshIsNew DEF Disable, ShapeInv
  <2>2. requests' \in Nat /\ off' \in BOOLEAN BY <1>22 DEF Disable, Arrives, ShapeInv
  <2>3. ActorsFit' BY <1>22, OverruledFits DEF Disable, ShapeInv, ActorsFit
  <2> QED BY <1>22, <2>1, <2>2, <2>3 DEF Disable, Arrives, ShapeInv
<1>23. ASSUME NEW a \in Admins, Enable(a) PROVE ShapeInv'
  <2>1. row' \in Rows BY <1>23, RowsKept, FreshIsNew DEF Enable, ShapeInv
  <2>2. requests' \in Nat BY <1>23 DEF Enable, Arrives, ShapeInv
  <2>3. off' \in BOOLEAN BY <1>23 DEF Enable, ShapeInv
  <2> QED BY <1>23, <2>1, <2>2, <2>3, RestFits DEF Enable, Arrives, ShapeInv
<1>24. ASSUME NEW a \in Admins, Reprice(a) PROVE ShapeInv'
  <2>1. row' \in Rows BY <1>24, RowsKept, FreshIsNew DEF Reprice, ShapeInv
  <2>2. requests' \in Nat BY <1>24 DEF Reprice, Arrives, ShapeInv
  <2>3. off' \in BOOLEAN BY <1>24 DEF Reprice, ShapeInv
  <2> QED BY <1>24, <2>1, <2>2, <2>3, RestFits DEF Reprice, Arrives, ShapeInv
<1>25. ASSUME NEW a \in Admins, Delete(a) PROVE ShapeInv'
  <2>1. row' \in Rows BY <1>25, RowsKept, FreshIsNew DEF Delete, ShapeInv, Rows
  <2>2. requests' \in Nat BY <1>25 DEF Delete, Arrives, ShapeInv
  <2>3. off' \in BOOLEAN BY <1>25 DEF Delete, ShapeInv
  <2> QED BY <1>25, <2>1, <2>2, <2>3, RestFits DEF Delete, Arrives, ShapeInv
<1>26. ASSUME NEW a \in Admins, Retest(a) PROVE ShapeInv'
  <2> DEFINE mode == IF row.armed THEN "armed"
                     ELSE IF row.verified # "passed" THEN "explicit" ELSE "plain"
             l == Begin("retest", "probe", row, mode)
  <2>1. mode \in Modes /\ a \in Actors /\ a \notin Workers BY SidesApart DEF Modes
  <2>2. Go(a, l) BY <1>26 DEF Retest
  <2> HIDE DEF mode
  <2>3. l \in Locals /\ l.op = "retest" /\ l.pc = "probe" /\ l.stage = "first" /\ ~l.landed
    <3>1. "retest" \in {"retest", "edit"} /\ "probe" \in {"probe", "write"} OBVIOUS
    <3>2. Opened(Begin("retest", "probe", row, mode), "retest", "probe", mode)
      BY <2>1, <3>1, BeginFits
    <3> QED BY <3>2 DEF Opened
  <2> HIDE DEF l
  <2>4. Fits(a, l) BY <2>1, <2>3 DEF Fits, RequestFits
  <2>5. ActorsFit' BY <2>1, <2>2, <2>4, GoFits DEF ShapeInv
  <2>6. requests' \in Nat BY <1>26 DEF Retest, Arrives, ShapeInv
  <2> QED BY <1>26, <2>5, <2>6 DEF Retest, Arrives, ShapeInv
<1>27. ASSUME NEW a \in Admins, NEW priced \in BOOLEAN, Requeue(a, priced) PROVE ShapeInv'
  <2> DEFINE l == [Idle EXCEPT !.op = "import", !.pc = "enqueue"]
  <2>1. row' \in Rows BY <1>27, RowsKept, FreshIsNew DEF Requeue, ShapeInv
  <2>2. requests' \in Nat /\ off' \in BOOLEAN BY <1>27 DEF Requeue, Arrives, ShapeInv
  <2>3. a \in Actors /\ a \notin Workers /\ Go(a, l) BY <1>27, SidesApart DEF Requeue
  <2>4. l \in Locals /\ l.op = "import" /\ l.pc = "enqueue" /\ l.landed = FALSE
    BY IdleFits DEF Locals, Points, Ops, Idle
  <2> HIDE DEF l
  <2>5. ActorsFit' BY <2>3, <2>4, GoFits DEF ShapeInv, Fits, RequestFits
  <2> QED BY <1>27, <2>1, <2>2, <2>5 DEF Requeue, Arrives, ShapeInv
<1>28. ASSUME NEW a \in Admins, NEW name \in Names, NEW status \in Asked, Edit(a, name, status)
      PROVE  ShapeInv'
  <2> DEFINE l == Begin("edit", "write", row, "plain")
             m == [l EXCEPT !.name = name, !.outcome = status]
  <2>1. a \in Actors /\ a \notin Workers BY SidesApart
  <2>2. Go(a, m) BY <1>28 DEF Edit
  <2>3. "plain" \in Modes /\ "edit" \in {"retest", "edit"} /\ "write" \in {"probe", "write"}
    BY DEF Modes
  <2>4. /\ l \in Locals /\ l.op = "edit" /\ l.pc = "write" /\ l.mode = "plain"
        /\ l.stage = "first" /\ l.now = Fresh /\ l.run = Fresh /\ l.landed = FALSE
    BY <2>3, BeginFits, Zenon DEF Opened
  <2> HIDE DEF l
  <2>5. m \in Locals BY <2>4 DEF Locals, Called
  <2>6. Fits(a, m) BY <2>1, <2>4, <2>5 DEF Fits, RequestFits, Locals
  <2> HIDE DEF m
  <2>7. ActorsFit' BY <2>1, <2>2, <2>6, GoFits DEF ShapeInv
  <2>8. requests' \in Nat BY <1>28 DEF Edit, Arrives, ShapeInv
  <2> QED BY <1>28, <2>7, <2>8 DEF Edit, Arrives, ShapeInv
<1>29. CASE RetryFires
  <2>1. queue' \in Queues BY <1>29, QueueKept DEF RetryFires, ShapeInv
  <2>2. timers' \in Nat BY <1>29 DEF RetryFires, ShapeInv
  <2> QED BY <1>29, <2>1, <2>2, RestFits DEF RetryFires, ShapeInv, counters, ghosts
<1>30. CASE RecoverLists BY <1>30, RestFits DEF RecoverLists, ShapeInv, counters, ghosts
<1>31. CASE RecoverEnqueues
  <2>1. queue' \in Queues BY <1>31, QueueKept DEF RecoverEnqueues, ShapeInv
  <2> QED BY <1>31, <2>1, RestFits DEF RecoverEnqueues, ShapeInv, counters, ghosts
<1>32. CASE Crash
  <2>1. EmptyQueue \in Queues BY DEF EmptyQueue, Queues
  <2>2. ActorsFit' BY <1>32, IdleFits DEF Crash, ActorsFit
  <2> QED BY <1>32, <2>1, <2>2 DEF Crash, ShapeInv, ghosts
<1>33. CASE UNCHANGED vars BY <1>33, RestFits DEF vars, ShapeInv, counters, ghosts
<1> QED BY <1>1, <1>2, <1>3, <1>4, <1>5, <1>6, <1>7, <1>8, <1>9, <1>10, <1>11, <1>12,
     <1>13, <1>14, <1>15, <1>16, <1>17, <1>18, <1>19, <1>20, <1>21, <1>22, <1>23, <1>24,
     <1>25, <1>26, <1>27, <1>28, <1>29, <1>30, <1>31, <1>32, <1>33 DEF Next, Goes, Work,
     Verify, Serve, Ask, Recover, Trouble, Asked

\* The queue has the mapping waiting, or running and perhaps to run again.
QueueInv ==
  /\ OneJobAtATime
  /\ queue.active <=> \E w \in Workers : at[w].pc # "idle"
  /\ queue.fifo \in {0, 1}
  /\ queue.pending <=> queue.fifo = 1 \/ queue.active
  /\ queue.fifo = 1 => ~queue.active
  /\ queue.rerun => queue.active

\* Where a run goes when it ends: a job to its end, an edit to its last reads.
LEMMA EndsWhere ==
  ASSUME NEW l
  PROVE  /\ l.op = "job" => /\ Close(l).pc = "done" /\ Fail(l).pc = "retry"
                            /\ Close(l).op = "none" /\ Fail(l).op = "none"
                            /\ (l \in Locals => Discarded(l).pc # "idle")
         /\ l.op = "edit" => Close(l).pc = "reload" /\ Close(l).op = "edit"
            /\ Fail(l) = Idle
         /\ l.op \notin {"job", "edit"} => Close(l) = Idle /\ Fail(l) = Idle
BY DEF Close, Fail, Idle, Discarded, Locals

\* A disable changes nothing of a run but the ghost.
LEMMA OverruledKeeps ==
  ASSUME ActorsFit, NEW b \in Actors
  PROVE  LET m == Overruled[b] IN
         /\ m \in Locals /\ m.pc = at[b].pc /\ m.op = at[b].op /\ m.stage = at[b].stage
         /\ m.now = at[b].now /\ m.name = at[b].name /\ m.seen = at[b].seen
         /\ m.under = at[b].under /\ m.run = at[b].run /\ m.mode = at[b].mode
         /\ m.outcome = at[b].outcome /\ m.landed = at[b].landed
<1>1. Overruled \in [Actors -> Locals] BY OverruledFits
<1>2. PICK o \in BOOLEAN : Overruled[b] = [at[b] EXCEPT !.overruled = o] BY OverruledFits
<1>3. at[b] \in Locals BY DEF ActorsFit
<1> QED BY <1>1, <1>2, <1>3 DEF Locals

\* The steps of one actor that leave the queue alone: of a job, of a run, of a request.
JobStep(w) ==
  \/ JobRead(w) \/ Fulfill(w) \/ FulfillMisses(w) \/ Refetch(w) \/ Reread(w) \/ Settled(w)
  \/ Stamp(w)
RunStep(a) ==
  Probe(a) \/ Commit(a) \/ CommitMisses(a) \/ ReadBack(a) \/ CommitUnheard(a) \/ Outage(a)
RequestStep(a) ==
  \/ EditReadsAgain(a) \/ Recommit(a) \/ EditReloads(a) \/ EditDemotes(a) \/ Retest(a)
  \/ \E priced \in BOOLEAN : Requeue(a, priced)
  \/ \E name \in Names, status \in Asked : Edit(a, name, status)
AloneStep(a) ==
  (a \in Workers /\ JobStep(a)) \/ RunStep(a) \/ (a \in Admins /\ RequestStep(a))

OthersRest(a) == \A b \in Actors : b # a => at'[b] = at[b]

\* They leave the other actors alone too.
LEMMA MovesAlone ==
  ASSUME ShapeInv, NEW a \in Actors, AloneStep(a)
  PROVE  /\ at[a] \in Locals /\ Fits(a, at[a]) /\ OthersRest(a)
         /\ at[a].pc # "enqueue" /\ UNCHANGED <<boot, timers, queue>>
         /\ a \in Workers /\ at[a].pc # "idle" => at[a].op = "job"
         /\ JobStep(a) \/ RunStep(a) => at[a].pc # "idle"
<1> USE DEF OthersRest, Local
<1>0. at \in [Actors -> Locals] /\ Fits(a, at[a]) /\ at[a] \in Locals
  BY DEF ShapeInv, ActorsFit, Fits
<1>1. ASSUME JobStep(a)
      PROVE  OthersRest(a) /\ UNCHANGED <<boot, timers, queue>>
             /\ at[a].pc \in {"read", "fulfill", "refetch", "reread", "settled", "stamp"}
  BY <1>0, <1>1 DEF JobStep, JobRead, Fulfill, FulfillMisses, Refetch, Reread, Settled, Stamp,
     At, Drop, Return, Continue, Attempt, Point, Go
<1>2. ASSUME RunStep(a)
      PROVE  OthersRest(a) /\ UNCHANGED <<boot, timers, queue>>
             /\ at[a].pc \notin {"idle", "enqueue", "done", "retry"}
  BY <1>0, <1>2 DEF RunStep, Probe, Commit, CommitMisses, CommitUnheard, ReadBack, Outage, At,
     Point, Go
<1>3. ASSUME RequestStep(a), a \in Admins
      PROVE  OthersRest(a) /\ UNCHANGED <<boot, timers, queue>> /\ at[a].pc # "enqueue"
             /\ a \notin Workers
  BY <1>0, <1>3, SidesApart DEF RequestStep, EditReadsAgain, Recommit, EditReloads, EditDemotes,
     Retest, Requeue, Edit, Arrives, At, Go
<1> QED BY <1>0, <1>1, <1>2, <1>3 DEF AloneStep, Fits, JobFits

\* A job that goes on, or ends, is still at its worker.
LEMMA JobGoesOn ==
  ASSUME ShapeInv, NEW w \in Workers, at[w].op = "job", at[w].pc # "idle",
         \/ Drop(w) \/ Return(w) \/ Continue(w, "fulfill")
         \/ \E stage \in {"first", "again"} : Attempt(w, stage)
  PROVE  UNCHANGED queue /\ \A v \in Workers : at'[v].pc = "idle" <=> at[v].pc = "idle"
<1>1. w \in Actors /\ at[w] \in Locals BY SidesApart DEF ShapeInv, ActorsFit
<1>2. \/ Go(w, Close(at[w])) \/ Go(w, Fail(at[w])) \/ Go(w, [at[w] EXCEPT !.pc = "fulfill"])
      \/ \E stage \in {"first", "again"} : Attempt(w, stage) BY DEF Drop, Return, Continue, Point
<1>3. UNCHANGED queue BY DEF Drop, Return, Continue, Point, Attempt, Local
<1>4. (\E stage \in {"first", "again"} : Attempt(w, stage))
         => at'[w].pc = "probe" /\ \A b \in Actors : b # w => at'[b] = at[b] BY AttemptFits
<1>5. Close(at[w]).pc # "idle" /\ Fail(at[w]).pc # "idle"
      /\ [at[w] EXCEPT !.pc = "fulfill"].pc # "idle" BY <1>1, EndsWhere DEF Locals
<1>6. at'[w].pc # "idle" /\ \A v \in Workers : v # w => at'[v] = at[v]
  BY <1>1, <1>2, <1>4, <1>5, SidesApart DEF Go, ShapeInv, ActorsFit
<1> QED BY <1>3, <1>6

\* The queue's books hold while no worker begins or rests.
LEMMA WorkersGoOn ==
  ASSUME QueueInv, UNCHANGED queue, \A w \in Workers : at'[w].pc = "idle" <=> at[w].pc = "idle"
  PROVE  QueueInv'
BY DEF QueueInv, OneJobAtATime, At

\* An enqueue keeps the queue's books.
LEMMA EnqueuedKeeps ==
  ASSUME ShapeInv, QueueInv, queue' = Enqueued(queue), \A w \in Workers : at'[w] = at[w]
  PROVE  QueueInv'
<1>1. CASE queue.pending
  <2>1. /\ queue'.pending = queue.pending /\ queue'.active = queue.active
        /\ queue'.fifo = queue.fifo /\ (queue'.rerun <=> queue.rerun \/ queue.active)
    BY <1>1 DEF Enqueued, ShapeInv, Queues
  <2> QED BY <1>1, <2>1 DEF QueueInv, OneJobAtATime, At
<1>2. CASE ~queue.pending
  <2>1. /\ queue'.pending = TRUE /\ queue'.active = queue.active
        /\ queue'.fifo = queue.fifo + 1 /\ queue'.rerun = queue.rerun
    BY <1>2 DEF Enqueued, ShapeInv, Queues
  <2> QED BY <1>2, <2>1 DEF QueueInv, OneJobAtATime, At
<1> QED BY <1>1, <1>2

\* A step keeps the queue's books.
LEMMA QueueStep ==
  ASSUME ShapeInv, QueueInv, [Next]_vars
  PROVE  QueueInv'
<1>1. ASSUME NEW w \in Workers, Take(w) PROVE QueueInv'
  <2>1. w \in Actors /\ at'[w].pc = "read" /\ \A v \in Workers : v # w => at'[v] = at[v]
    BY <1>1, SidesApart DEF Take, Go, ShapeInv, ActorsFit, Idle
  <2>2. /\ queue.fifo = 1 /\ queue.active = FALSE /\ queue'.fifo = 0 /\ queue'.active = TRUE
        /\ queue'.pending = queue.pending /\ queue'.rerun = queue.rerun
           /\ queue.pending = TRUE BY <1>1 DEF Take, QueueInv, ShapeInv, Queues
  <2>3. \A v \in Workers : at[v].pc = "idle" BY <2>2 DEF QueueInv
  <2> QED BY <2>1, <2>2, <2>3 DEF QueueInv, OneJobAtATime, At
<1>2. ASSUME NEW w \in Workers, JobRead(w) \/ Refetch(w) \/ Reread(w) \/ Settled(w)
      PROVE  QueueInv'
  <2>1. w \in Actors /\ at[w].op = "job" /\ at[w].pc # "idle"
    BY <1>2, SidesApart, MovesAlone DEF AloneStep, JobStep
  <2>2. \/ Drop(w) \/ Return(w) \/ Continue(w, "fulfill")
        \/ \E stage \in {"first", "again"} : Attempt(w, stage)
    BY <1>2 DEF JobRead, Refetch, Reread, Settled
  <2> QED BY <2>1, <2>2, JobGoesOn, WorkersGoOn
<1>3. ASSUME NEW w \in Workers, Fulfill(w) \/ FulfillMisses(w) PROVE QueueInv'
  <2>1. /\ w \in Actors /\ at[w] \in Locals /\ at[w].op = "job" /\ at[w].pc # "idle"
        /\ OthersRest(w) /\ UNCHANGED queue
    BY <1>3, SidesApart, MovesAlone DEF AloneStep, JobStep
  <2>2. at'[w].pc # "idle"
    BY <1>3, <2>1, EndsWhere DEF Fulfill, FulfillMisses, Continue, Point, Go, ShapeInv, ActorsFit,
       Locals
  <2> QED BY <2>1, <2>2, SidesApart, WorkersGoOn DEF OthersRest
<1>4. ASSUME NEW w \in Workers, Stamp(w) PROVE QueueInv'
  <2>1. w \in Actors /\ Fits(w, at[w]) /\ w \notin Admins BY SidesApart DEF ShapeInv, ActorsFit
  <2>2. at[w].op = "job" /\ at[w].pc # "idle" BY <1>4, <2>1 DEF Stamp, At, Fits, JobFits
  <2>3. CASE Drop(w) BY <2>2, <2>3, JobGoesOn, WorkersGoOn
  <2>4. CASE ~Drop(w)
    <3>1. \E l : l.pc = "commit" /\ Go(w, l)
      <4> DEFINE l == [at[w] EXCEPT !.pc = "commit", !.outcome = "inconclusive",
                                    !.under = row.token, !.run = Fresh, !.tries = @ + 1]
      <4>1. l.pc = "commit" BY <2>1 DEF Fits, Locals
      <4>2. Go(w, l) BY <1>4, <2>4 DEF Stamp
      <4> QED BY <4>1, <4>2
    <3>2. at'[w].pc # "idle" /\ (\A v \in Workers : v # w => at'[v] = at[v])
      BY <2>1, <3>1, SidesApart DEF Go, ShapeInv, ActorsFit
    <3> QED BY <1>4, <2>2, <2>4, <3>2, WorkersGoOn DEF Stamp
  <2> QED BY <2>3, <2>4
<1>5. ASSUME NEW w \in Workers, Finish(w) PROVE QueueInv'
  <2>1. /\ w \in Actors /\ at'[w].pc = "idle" /\ \A v \in Workers : v # w => at'[v] = at[v]
        /\ at[w].pc # "idle" BY <1>5, SidesApart DEF Finish, Go, At, ShapeInv, ActorsFit, Idle
  <2>2. \A v \in Workers : at'[v].pc = "idle" BY <2>1 DEF QueueInv, OneJobAtATime, At
  <2>3. queue.active = TRUE /\ queue.fifo = 0 /\ queue.pending = TRUE
    BY <2>1, SidesApart DEF QueueInv, ShapeInv, Queues
  <2>4. /\ queue'.active = FALSE /\ queue'.rerun = FALSE
        /\ \/ queue'.pending = TRUE /\ queue'.fifo = 1
           \/ queue'.pending = FALSE /\ queue'.fifo = 0
    <3>1. CASE queue.rerun
      <4>1. queue' = [queue EXCEPT !.active = FALSE, !.rerun = FALSE,
                                   !.fifo = queue.fifo + 1] BY <1>5, <3>1 DEF Finish, Processed
      <4> QED BY <2>3, <4>1 DEF ShapeInv, Queues
    <3>2. CASE ~queue.rerun
      <4>1. queue' = [queue EXCEPT !.active = FALSE, !.pending = FALSE]
        BY <1>5, <3>2 DEF Finish, Processed
      <4>2. queue.rerun = FALSE BY <3>2 DEF ShapeInv, Queues
      <4> QED BY <2>3, <4>1, <4>2 DEF ShapeInv, Queues
    <3> QED BY <3>1, <3>2
  <2> QED BY <2>2, <2>4 DEF QueueInv, OneJobAtATime, At, ShapeInv, Queues
<1>6. ASSUME NEW a \in Actors, Probe(a) PROVE QueueInv'
  <2>1. Fits(a, at[a]) /\ at[a] \in Locals /\ at[a].pc # "idle"
    BY <1>6 DEF Probe, At, ShapeInv, ActorsFit, Fits
  <2>2. a \in Workers => at[a].op = "job" BY <1>6, <2>1 DEF Probe, At, Fits, JobFits
  <2>3. \E l : Go(a, l) /\ (l.pc \in {"commit", "stamp"} \/ at[a].op # "job")
    <3>1. CASE at[a].op # "job" BY <1>6, <3>1 DEF Probe
    <3>2. CASE at[a].op = "job"
      <4>1. \A o : [at[a] EXCEPT !.pc = "commit", !.outcome = o].pc = "commit" BY <2>1 DEF Locals
      <4>2. [at[a] EXCEPT !.pc = "stamp", !.stage = "stamp"].pc = "stamp" BY <2>1 DEF Locals
      <4>3. \/ Go(a, [at[a] EXCEPT !.pc = "stamp", !.stage = "stamp"])
            \/ \E o \in Outcomes : Go(a, [at[a] EXCEPT !.pc = "commit", !.outcome = o])
        BY <1>6, <3>2 DEF Probe
      <4> QED BY <4>1, <4>2, <4>3
    <3> QED BY <3>1, <3>2
  <2>4. (a \in Workers => at'[a].pc # "idle") /\ \A v \in Workers : v # a => at'[v] = at[v]
    BY <2>2, <2>3, SidesApart DEF Go, ShapeInv, ActorsFit
  <2>5. \A v \in Workers : at'[v].pc = "idle" <=> at[v].pc = "idle" BY <2>1, <2>4
  <2> QED BY <1>6, <2>5, WorkersGoOn DEF Probe, Local
<1>7. ASSUME NEW a \in Actors, Commit(a) \/ CommitMisses(a) \/ ReadBack(a) \/ Outage(a)
      PROVE  QueueInv'
  <2>1. /\ at[a] \in Locals /\ at[a].pc # "idle" /\ OthersRest(a) /\ UNCHANGED queue
        /\ a \in Workers => at[a].op = "job"
    BY <1>7, MovesAlone DEF AloneStep, RunStep
  <2>2. a \in Workers => at'[a].pc # "idle"
    BY <1>7, <2>1, EndsWhere DEF Commit, CommitMisses, ReadBack, Outage, Point, Go, ShapeInv,
       ActorsFit, Locals
  <2> QED BY <2>1, <2>2, SidesApart, WorkersGoOn DEF OthersRest
<1>8. ASSUME NEW a \in Actors, CommitUnheard(a) PROVE QueueInv'
  <2>1. \A v \in Workers : at'[v].pc = at[v].pc
    BY <1>8, SidesApart DEF CommitUnheard, Go, ShapeInv, ActorsFit, Locals
  <2> QED BY <1>8, <2>1, WorkersGoOn DEF CommitUnheard
<1>9. ASSUME NEW a \in Admins, EnqueueImported(a) PROVE QueueInv'
  <2>1. \A v \in Workers : at'[v] = at[v]
    BY <1>9, SidesApart DEF EnqueueImported, Go, ShapeInv, ActorsFit
  <2> QED BY <1>9, <2>1, EnqueuedKeeps DEF EnqueueImported
<1>10. ASSUME NEW a \in Admins, EditWrites(a) PROVE QueueInv'
  <2>1. \A w \in Workers : at'[w].pc = at[w].pc
    BY <1>10, SidesApart, OverruledKeeps DEF EditWrites, ShapeInv, ActorsFit
  <2> QED BY <1>10, <2>1, WorkersGoOn DEF EditWrites, Local
<1>11. ASSUME NEW a \in Admins, RequestStep(a) PROVE QueueInv'
  BY <1>11, SidesApart, MovesAlone, WorkersGoOn DEF AloneStep, OthersRest
<1>12. ASSUME NEW a \in Admins, Disable(a) PROVE QueueInv'
  <2>1. \A w \in Workers : at'[w].pc = at[w].pc
    BY <1>12, SidesApart, OverruledKeeps DEF Disable, ShapeInv
  <2> QED BY <1>12, <2>1, WorkersGoOn DEF Disable
<1>13. ASSUME NEW a \in Admins, Enable(a) \/ Reprice(a) \/ Delete(a) PROVE QueueInv'
  BY <1>13, WorkersGoOn DEF Enable, Reprice, Delete, Arrives
<1>14. CASE RetryFires BY <1>14, EnqueuedKeeps DEF RetryFires
<1>15. CASE RecoverLists BY <1>15, WorkersGoOn DEF RecoverLists
<1>16. CASE RecoverEnqueues BY <1>16, EnqueuedKeeps DEF RecoverEnqueues
<1>17. CASE Crash
  <2>1. \A w \in Workers : at'[w].pc = "idle" BY <1>17, SidesApart DEF Crash, Idle
  <2> QED BY <1>17, <2>1 DEF Crash, QueueInv, OneJobAtATime, At, EmptyQueue
<1>18. CASE UNCHANGED vars BY <1>18, WorkersGoOn DEF vars
<1> QED BY <1>1, <1>2, <1>3, <1>4, <1>5, <1>6, <1>7, <1>8, <1>9, <1>10, <1>11, <1>12, <1>13,
     <1>14, <1>15, <1>16, <1>17, <1>18 DEF Next, Goes, Work, Verify, Serve, Ask, Recover,
     Trouble, Asked, RequestStep

----------------------------------------
(* Nobody writes a token or a test time that another run already knows. *)

\* Where a run has not written its token yet, and where not its test time.
Running == {"write", "fresh", "probe", "commit", "readback", "recommit"}
Timing == Running \cup {"read", "fulfill", "refetch", "reread", "settled", "stamp"}

\* A run whose verdict has landed unheard has written both.
Writing(l) == l.pc \in Running /\ ~l.landed
Dating(l) == l.pc \in Timing /\ ~l.landed

\* What a run has still to write is nowhere to be read, and what it wrote it never read.
StampsInv ==
  /\ \A a \in Actors :
        /\ at[a].pc \in Running => at[a].run # 0 /\ at[a].seen.token # Run(at[a].run)
        /\ at[a].pc \in Timing => at[a].now # 0
  /\ \A a \in Actors : Writing(at[a]) =>
        /\ row.token # Run(at[a].run)
        /\ \A b \in Actors :
              /\ at[b].under # Run(at[a].run) /\ at[b].seen.token # Run(at[a].run)
              /\ a # b /\ at[b].pc \in Running => at[b].run # at[a].run
  /\ \A a \in Actors : Dating(at[a]) =>
        /\ row.tested # at[a].now
        /\ \A b \in Actors :
              /\ at[b].seen.tested # at[a].now
              /\ a # b /\ at[b].pc \in Timing => at[b].now # at[a].now

\* What a run knows after a step: what it knew, what the row says, or what is new.
Carried(l, m) ==
  /\ m.pc \in Running =>
        \/ m.run = Fresh
        \/ l.pc \in Running /\ m.run = l.run /\ (~l.landed \/ m.seen = l.seen)
  /\ m.pc \in Timing => m.now = Fresh \/ (l.pc \in Timing /\ m.now = l.now)
  /\ m.pc \in Timing => m.landed \/ ~l.landed
  /\ m.under \in {l.under, row.token, Run(0)}
  /\ m.seen.token \in {l.seen.token, row.token, Run(0)}
  /\ m.seen.tested \in {l.seen.tested, row.tested, 0}

Others(a) ==
  \A b \in Actors : b # a =>
      /\ at'[b].pc = at[b].pc /\ at'[b].run = at[b].run /\ at'[b].now = at[b].now
      /\ at'[b].under = at[b].under /\ at'[b].seen = at[b].seen
      /\ at'[b].landed = at[b].landed

\* One actor moves on, knowing what it may know, and the row takes its stamps or new
\* ones.
LEMMA StampsCarry ==
  ASSUME ShapeInv, StampsInv, NEW a \in Actors, Others(a), Carried(at[a], at'[a]),
         \/ row'.token = row.token
         \/ row'.token.run = Fresh /\ at'[a].pc \notin Running
         \/ /\ row'.token = Run(at[a].run)
            /\ at[a].pc \in Running /\ ~Writing(at'[a]),
         \/ row'.tested \in {row.tested, 0}
         \/ row'.tested = at[a].now /\ at[a].pc \in Timing /\ ~Dating(at'[a])
  PROVE  StampsInv'
<1>1. \A n, k : Run(n) = Run(k) => n = k BY DEF Run
<1>2. \A n : Run(n).run = n BY DEF Run
<1>3. Fresh # 0 /\ row.token # Run(Fresh) /\ row.tested # Fresh BY <1>2, FreshIsNew
<1>4. \A b \in Actors :
         /\ Fresh # at[b].now /\ Fresh # at[b].run /\ at[b].under # Run(Fresh)
         /\ at[b].seen.tested # Fresh /\ at[b].seen.token # Run(Fresh) BY <1>2, FreshIsNew
<1>5. Running \subseteq Timing BY DEF Timing
<1>6. ASSUME NEW b \in Actors, at'[b].pc \in Running
      PROVE  /\ at'[b].run = Fresh
                \/ (at[b].pc \in Running /\ at'[b].run = at[b].run
                    /\ (Writing(at'[b]) => Writing(at[b]))
                    /\ (~Writing(at[b]) => at'[b].seen = at[b].seen))
             /\ at'[b].run # 0 /\ at'[b].seen.token # Run(at'[b].run)
  <2>1. \/ at'[b].run = Fresh
        \/ at[b].pc \in Running /\ at'[b].run = at[b].run
           /\ (Writing(at'[b]) => Writing(at[b]))
           /\ (~Writing(at[b]) => at'[b].seen = at[b].seen)
    BY <1>5, <1>6 DEF Carried, Others, Writing
  <2>2. at'[b].run # 0 BY <1>3, <2>1 DEF StampsInv
  <2>3. at'[b].seen.token \in {at[b].seen.token, row.token, Run(0)} BY DEF Carried, Others
  <2>4. Run(0) # Run(at'[b].run) BY <1>1, <2>2
  <2>5. CASE at'[b].run = Fresh BY <1>3, <1>4, <2>3, <2>4, <2>5
  <2>6. CASE at[b].pc \in Running /\ at'[b].run = at[b].run /\ Writing(at[b])
    <3>1. row.token # Run(at[b].run) /\ at[b].seen.token # Run(at[b].run)
      BY <2>6 DEF StampsInv
    <3>2. at'[b].seen.token # Run(at[b].run) BY <2>3, <2>4, <2>6, <3>1
    <3> QED BY <2>2, <2>6, <3>2
  <2>7. CASE at[b].pc \in Running /\ at'[b].run = at[b].run /\ at'[b].seen = at[b].seen
    <3>1. at[b].seen.token # Run(at[b].run) BY <2>7 DEF StampsInv
    <3> QED BY <2>1, <2>2, <2>7, <3>1
  <2> QED BY <2>1, <2>2, <2>5, <2>6, <2>7
<1>7. ASSUME NEW b \in Actors, Writing(at'[b])
      PROVE  /\ row'.token # Run(at'[b].run)
             /\ \A c \in Actors :
                   /\ at'[c].under # Run(at'[b].run) /\ at'[c].seen.token # Run(at'[b].run)
                   /\ b # c /\ at'[c].pc \in Running => at'[c].run # at'[b].run
  <2>1. at'[b].run = Fresh \/ (Writing(at[b]) /\ at'[b].run = at[b].run)
    BY <1>6, <1>7 DEF Writing
  <2>2. at'[b].run # 0 BY <1>6, <1>7 DEF Writing
  <2>3. row'.token # Run(at'[b].run)
    <3>1. CASE row'.token = row.token BY <1>3, <2>1, <3>1 DEF StampsInv
    <3>2. CASE row'.token.run = Fresh /\ at'[a].pc \notin Running
      <4>1. b # a BY <1>7, <3>2 DEF Writing
      <4>2. at'[b].run = at[b].run BY <4>1 DEF Others
      <4> QED BY <1>2, <1>4, <3>2, <4>2
    <3>3. CASE row'.token = Run(at[a].run) /\ at[a].pc \in Running
          /\ ~Writing(at'[a])
      <4>1. b # a BY <1>7, <3>3
      <4>2. at'[b].run = at[b].run BY <4>1 DEF Others
      <4>3. Writing(at[b]) BY <1>4, <2>1, <4>2
      <4>4. at[a].run # at[b].run BY <3>3, <4>1, <4>3 DEF StampsInv
      <4> QED BY <1>1, <3>3, <4>2, <4>4
    <3> QED BY <3>1, <3>2, <3>3
  <2>4. ASSUME NEW c \in Actors
        PROVE  /\ at'[c].under # Run(at'[b].run) /\ at'[c].seen.token # Run(at'[b].run)
               /\ b # c /\ at'[c].pc \in Running => at'[c].run # at'[b].run
    <3>1. /\ at'[c].under \in {at[c].under, row.token, Run(0)}
          /\ at'[c].seen.token \in {at[c].seen.token, row.token, Run(0)} BY DEF Carried, Others
    <3>2. /\ at[c].under # Run(at'[b].run) /\ at[c].seen.token # Run(at'[b].run)
          /\ row.token # Run(at'[b].run) BY <1>3, <1>4, <2>1 DEF StampsInv
    <3>3. Run(0) # Run(at'[b].run) BY <1>1, <2>2
    <3>4. ASSUME b # c, at'[c].pc \in Running PROVE at'[c].run # at'[b].run
      <4>1. at'[c].run = Fresh \/ (at[c].pc \in Running /\ at'[c].run = at[c].run)
        BY <1>6, <3>4
      <4>2. b # a \/ c # a BY <3>4
      <4>3. b # a => at'[b].run = at[b].run BY DEF Others
      <4>4. c # a => at'[c].run = at[c].run BY DEF Others
      <4>5. Writing(at[b]) /\ at[c].pc \in Running => at[b].run # at[c].run
        BY <3>4 DEF StampsInv
      <4> QED BY <1>4, <2>1, <4>1, <4>2, <4>3, <4>4, <4>5
    <3> QED BY <3>1, <3>2, <3>3, <3>4
  <2> QED BY <2>3, <2>4
<1>8. ASSUME NEW b \in Actors, at'[b].pc \in Timing
      PROVE  /\ at'[b].now = Fresh
                \/ (at[b].pc \in Timing /\ at'[b].now = at[b].now
                    /\ (Dating(at'[b]) => Dating(at[b])))
             /\ at'[b].now # 0
  <2>1. at'[b].now = Fresh \/ (at[b].pc \in Timing /\ at'[b].now = at[b].now
                               /\ (Dating(at'[b]) => Dating(at[b])))
    BY <1>8 DEF Carried, Others, Dating
  <2> QED BY <1>3, <2>1 DEF StampsInv
<1>9. ASSUME NEW b \in Actors, Dating(at'[b])
      PROVE  /\ row'.tested # at'[b].now
             /\ \A c \in Actors :
                   /\ at'[c].seen.tested # at'[b].now
                   /\ b # c /\ at'[c].pc \in Timing => at'[c].now # at'[b].now
  <2>1. at'[b].now = Fresh \/ (Dating(at[b]) /\ at'[b].now = at[b].now)
    BY <1>8, <1>9 DEF Dating
  <2>2. at'[b].now # 0 BY <1>8, <1>9 DEF Dating
  <2>3. row'.tested # at'[b].now
    <3>1. CASE row'.tested \in {row.tested, 0} BY <1>3, <2>1, <2>2, <3>1 DEF StampsInv
    <3>2. CASE row'.tested = at[a].now /\ at[a].pc \in Timing /\ ~Dating(at'[a])
      <4>1. b # a BY <1>9, <3>2
      <4>2. at'[b].now = at[b].now BY <4>1 DEF Others
      <4>3. Dating(at[b]) BY <1>4, <2>1, <4>2
      <4>4. at[a].now # at[b].now BY <3>2, <4>1, <4>3 DEF StampsInv
      <4> QED BY <3>2, <4>2, <4>4
    <3> QED BY <3>1, <3>2
  <2>4. ASSUME NEW c \in Actors
        PROVE  /\ at'[c].seen.tested # at'[b].now
               /\ b # c /\ at'[c].pc \in Timing => at'[c].now # at'[b].now
    <3>1. at'[c].seen.tested \in {at[c].seen.tested, row.tested, 0} BY DEF Carried, Others
    <3>2. at[c].seen.tested # at'[b].now /\ row.tested # at'[b].now
      BY <1>3, <1>4, <2>1 DEF StampsInv
    <3>3. ASSUME b # c, at'[c].pc \in Timing PROVE at'[c].now # at'[b].now
      <4>1. at'[c].now = Fresh \/ (at[c].pc \in Timing /\ at'[c].now = at[c].now)
        BY <1>8, <3>3
      <4>2. b # a \/ c # a BY <3>3
      <4>3. b # a => at'[b].now = at[b].now BY DEF Others
      <4>4. c # a => at'[c].now = at[c].now BY DEF Others
      <4>5. Dating(at[b]) /\ at[c].pc \in Timing => at[b].now # at[c].now
        BY <3>3 DEF StampsInv
      <4> QED BY <1>4, <2>1, <4>1, <4>2, <4>3, <4>4, <4>5
    <3> QED BY <2>2, <3>1, <3>2, <3>3
  <2> QED BY <2>3, <2>4
<1> QED BY <1>6, <1>7, <1>8, <1>9 DEF StampsInv

\* A step that leaves the row as it is.
LEMMA QuietCarries ==
  ASSUME ShapeInv, StampsInv, NEW a \in Actors, row' = row, Carried(at[a], at'[a]),
         \A b \in Actors : b # a => at'[b] = at[b]
  PROVE  StampsInv'
BY StampsCarry DEF Others

\* What was never read has no stamps.
LEMMA UnseenIs == Unseen.token = Run(0) /\ Unseen.tested = 0 /\ Unseen.armed = FALSE
BY DEF Unseen

\* A run that ends, or that loses its commit, learns nothing.
LEMMA EndsCarried ==
  ASSUME NEW l \in Locals
  PROVE  /\ Carried(l, Idle) /\ Carried(l, Close(l)) /\ Carried(l, Fail(l))
         /\ Close(l).pc \notin Timing /\ Fail(l).pc \notin Timing /\ Idle.pc \notin Timing
         /\ l.pc = "readback" => Carried(l, Discarded(l))
<1>1. \A m : m.pc \notin Timing /\ m.under = Run(0) /\ m.seen = Unseen => Carried(l, m)
  BY UnseenIs DEF Carried, Timing
<1>2. \A m \in {Idle, Close(l), Fail(l)} :
         m.pc \notin Timing /\ m.under = Run(0) /\ m.seen = Unseen
  <2>1. Idle.pc = "idle" /\ Idle.under = Run(0) /\ Idle.seen = Unseen BY DEF Idle
  <2>2. \/ Close(l) = Idle
        \/ Close(l).pc = "done" /\ Close(l).under = Run(0) /\ Close(l).seen = Unseen
        \/ Close(l).pc = "reload" /\ Close(l).under = Run(0) /\ Close(l).seen = Unseen
    BY DEF Close, Idle
  <2>3. \/ Fail(l) = Idle
        \/ Fail(l).pc = "retry" /\ Fail(l).under = Run(0) /\ Fail(l).seen = Unseen
    BY DEF Fail, Idle
  <2> QED BY <2>1, <2>2, <2>3 DEF Timing, Running
<1>3. \A pc : LET m == [l EXCEPT !.pc = pc] IN l.pc = "readback" => Carried(l, m)
  BY DEF Carried, Running, Timing, Locals
<1>4. l.pc = "readback" => Carried(l, Discarded(l)) BY <1>1, <1>2, <1>3 DEF Discarded
<1> QED BY <1>1, <1>2, <1>4

\* A job that reads the row knows what the row says.
LEMMA JobCarries ==
  ASSUME ShapeInv, StampsInv, NEW w \in Workers, at[w].op = "job", at[w].pc \in Timing,
         \/ Drop(w) \/ Return(w) \/ Continue(w, "fulfill")
         \/ \E stage \in {"first", "again"} : Attempt(w, stage)
  PROVE  StampsInv'
<1>1. w \in Actors /\ at[w] \in Locals BY SidesApart DEF ShapeInv, ActorsFit
<1>2. row' = row BY DEF Drop, Return, Continue, Attempt
<1>3. CASE \E stage \in {"first", "again"} : Attempt(w, stage)
  <2>1. PICK stage \in {"first", "again"} : Attempt(w, stage) BY <1>3
  <2>2. /\ \A b \in Actors : b # w => at'[b] = at[b]
        /\ at'[w].pc = "probe" /\ at'[w].now = at[w].now /\ at'[w].run = Fresh
        /\ at'[w].under = row.token /\ at'[w].seen = Sight(row)
        /\ at'[w].landed = at[w].landed BY <2>1, AttemptFits
  <2>3. Carried(at[w], at'[w]) BY <2>2, SightIs DEF Carried, Running, Timing
  <2> QED BY <1>1, <1>2, <2>2, <2>3, QuietCarries
<1>4. CASE Drop(w) \/ Return(w)
  <2>1. at'[w] \in {Close(at[w]), Fail(at[w])} /\ \A b \in Actors : b # w => at'[b] = at[b]
    BY <1>1, <1>4 DEF Drop, Return, Go, ShapeInv, ActorsFit
  <2> QED BY <1>1, <1>2, <2>1, EndsCarried, QuietCarries
<1>5. CASE Continue(w, "fulfill")
  <2>1. at'[w] = [at[w] EXCEPT !.pc = "fulfill"]
        /\ \A b \in Actors : b # w => at'[b] = at[b]
    BY <1>1, <1>5 DEF Continue, Point, Go, ShapeInv, ActorsFit
  <2>2. Carried(at[w], at'[w]) BY <1>1, <2>1 DEF Carried, Running, Timing, Locals
  <2> QED BY <1>1, <1>2, <2>1, <2>2, QuietCarries
<1> QED BY <1>3, <1>4, <1>5

\* A step keeps the stamps apart.
LEMMA StampsStep ==
  ASSUME ShapeInv, StampsInv, [Next]_vars
  PROVE  StampsInv'
<1>1. ASSUME NEW w \in Workers, Take(w) PROVE StampsInv'
  <2>1. w \in Actors /\ row' = row BY <1>1, SidesApart DEF Take
  <2>2. \A b \in Actors : b # w => at'[b] = at[b] BY <1>1, <2>1 DEF Take, Go, ShapeInv, ActorsFit
  <2>3. at'[w] = [Idle EXCEPT !.op = "job", !.pc = "read", !.now = Fresh]
    BY <1>1, <2>1 DEF Take, Go, ShapeInv, ActorsFit
  <2>4. /\ at'[w].pc = "read" /\ at'[w].now = Fresh /\ at'[w].under = Run(0)
        /\ at'[w].seen.token = Run(0) /\ at'[w].seen.tested = 0
    BY <2>3, IdleFits, UnseenIs DEF Locals
  <2>5. at[w].landed = FALSE
    BY <1>1, <2>1 DEF Take, At, ShapeInv, ActorsFit, Fits, Locals
  <2>6. Carried(at[w], at'[w]) BY <2>4, <2>5 DEF Carried, Running, Timing
  <2> QED BY <2>1, <2>2, <2>6, QuietCarries
<1>2. ASSUME NEW w \in Workers, JobRead(w) \/ Refetch(w) \/ Reread(w) \/ Settled(w)
      PROVE  StampsInv'
  <2>1. at[w].pc \in {"read", "refetch", "reread", "settled"}
    BY <1>2 DEF JobRead, Refetch, Reread, Settled, At
  <2>2. w \in Actors /\ at[w].op = "job"
    BY <1>2, <2>1, SidesApart, MovesAlone DEF AloneStep, JobStep
  <2>3. \/ Drop(w) \/ Return(w) \/ Continue(w, "fulfill")
        \/ \E stage \in {"first", "again"} : Attempt(w, stage)
    BY <1>2 DEF JobRead, Refetch, Reread, Settled
  <2> QED BY <2>1, <2>2, <2>3, JobCarries DEF Timing, Running
<1>3. ASSUME NEW w \in Workers, Fulfill(w) PROVE StampsInv'
  <2>1. w \in Actors /\ at[w] \in Locals BY SidesApart DEF ShapeInv, ActorsFit
  <2>2. row'.token = row.token /\ row'.tested = row.tested
    BY <1>3 DEF Fulfill, Fulfilled, ShapeInv, Rows
  <2>3. at'[w] = Close(at[w]) /\ Others(w)
    BY <1>3, <2>1 DEF Fulfill, Go, Others, ShapeInv, ActorsFit
  <2>4. Carried(at[w], at'[w]) BY <2>1, <2>3, EndsCarried
  <2> QED BY <2>1, <2>2, <2>3, <2>4, StampsCarry
<1>4. ASSUME NEW w \in Workers, FulfillMisses(w) PROVE StampsInv'
  <2>1. w \in Actors /\ at[w] \in Locals /\ OthersRest(w) /\ row' = row /\ at[w].pc = "fulfill"
    BY <1>4, SidesApart, MovesAlone DEF AloneStep, JobStep, FulfillMisses, At, Continue
  <2>2. at'[w] = [at[w] EXCEPT !.pc = "refetch"]
    BY <1>4, <2>1 DEF FulfillMisses, Continue, Point, Go, ShapeInv, ActorsFit
  <2>3. Carried(at[w], at'[w]) BY <2>1, <2>2 DEF Carried, Running, Timing, Locals
  <2> QED BY <2>1, <2>3, QuietCarries DEF OthersRest
<1>5. ASSUME NEW w \in Workers, Stamp(w) PROVE StampsInv'
  <2>1. w \in Actors /\ at[w] \in Locals /\ Fits(w, at[w])
    BY SidesApart DEF ShapeInv, ActorsFit, Fits
  <2>2. at[w].pc = "stamp" /\ at[w].op = "job"
    BY <1>5, <2>1, SidesApart DEF Stamp, At, Fits, JobFits
  <2>3. CASE Drop(w) BY <2>1, <2>2, <2>3, JobCarries DEF Timing, Running
  <2>4. CASE ~Drop(w)
    <3> DEFINE m == [at[w] EXCEPT !.pc = "commit", !.outcome = "inconclusive",
                                  !.under = row.token, !.run = Fresh, !.tries = @ + 1]
    <3>1. Go(w, m) /\ row' = row BY <1>5, <2>4 DEF Stamp
    <3>2. /\ m.pc = "commit" /\ m.run = Fresh /\ m.now = at[w].now /\ m.under = row.token
          /\ m.seen = at[w].seen /\ m.landed = at[w].landed BY <2>1 DEF Locals
    <3> HIDE DEF m
    <3>3. Carried(at[w], m) BY <2>2, <3>2 DEF Carried, Running, Timing
    <3>4. at'[w] = m /\ \A b \in Actors : b # w => at'[b] = at[b]
      BY <2>1, <3>1 DEF Go, ShapeInv, ActorsFit
    <3> QED BY <2>1, <3>1, <3>3, <3>4, QuietCarries
  <2> QED BY <2>3, <2>4
<1>6. ASSUME NEW w \in Workers, Finish(w) PROVE StampsInv'
  <2>1. w \in Actors /\ at[w] \in Locals /\ row' = row
    BY <1>6, SidesApart DEF Finish, ShapeInv, ActorsFit, Local
  <2>2. at'[w] = Idle /\ \A b \in Actors : b # w => at'[b] = at[b]
    BY <1>6, <2>1 DEF Finish, Go, ShapeInv, ActorsFit
  <2> QED BY <2>1, <2>2, EndsCarried, QuietCarries
<1>7. ASSUME NEW a \in Actors, Probe(a) PROVE StampsInv'
  <2>1. /\ a \in Actors /\ at[a] \in Locals /\ row' = row /\ at[a].pc = "probe"
    BY <1>7 DEF ShapeInv, ActorsFit, Probe, At
  <2>2. \A b \in Actors : b # a => at'[b] = at[b] BY <1>7 DEF Probe, Go, ShapeInv, ActorsFit
  <2>3. \/ at'[a] = Close(at[a])
        \/ at'[a] = [at[a] EXCEPT !.pc = "stamp", !.stage = "stamp"]
        \/ \E o \in Outcomes : at'[a] = [at[a] EXCEPT !.pc = "commit", !.outcome = o]
    BY <1>7, <2>1 DEF Probe, Go, ShapeInv, ActorsFit
  <2>4. CASE at'[a] # Close(at[a])
    <3>1. /\ at'[a].pc \in {"stamp", "commit"} /\ at'[a].run = at[a].run
          /\ at'[a].now = at[a].now /\ at'[a].seen = at[a].seen
             /\ at'[a].under = at[a].under /\ at'[a].landed = at[a].landed
      BY <2>1, <2>3, <2>4 DEF Locals
    <3> QED BY <2>1, <2>2, <3>1, QuietCarries DEF Carried, Running, Timing
  <2> QED BY <2>1, <2>2, <2>4, EndsCarried, QuietCarries
<1>8. ASSUME NEW a \in Actors, Commit(a) PROVE StampsInv'
  <2>1. /\ at[a] \in Locals /\ at[a].pc = "commit" /\ Fits(a, at[a])
    BY <1>8 DEF ShapeInv, ActorsFit, Commit, At, Fits
  <2>2. at[a].outcome \in Outcomes BY <2>1, SidesApart DEF Fits, JobFits, RequestFits
  <2>3. row'.token = Run(at[a].run) /\ row'.tested = at[a].now
    BY <1>8, <2>1, <2>2, CommittedIs DEF Commit, Land, ShapeInv
  <2>4. at'[a] = Close(at[a]) /\ \A b \in Actors : b # a => at'[b] = at[b]
    BY <1>8 DEF Commit, Go, ShapeInv, ActorsFit
  <2>5. Carried(at[a], at'[a]) /\ at'[a].pc \notin Timing BY <2>1, <2>4, EndsCarried
  <2>6. Others(a) BY <2>4 DEF Others
  <2>7. ~Writing(at'[a]) /\ ~Dating(at'[a]) BY <2>5 DEF Writing, Dating, Timing
  <2> QED BY <2>1, <2>3, <2>5, <2>6, <2>7, StampsCarry DEF Running, Timing
<1>9. ASSUME NEW a \in Actors, CommitMisses(a) PROVE StampsInv'
  <2>1. /\ a \in Actors /\ at[a] \in Locals /\ row' = row /\ at[a].pc = "commit"
    BY <1>9 DEF ShapeInv, ActorsFit, CommitMisses, At
  <2>2. /\ at'[a] = [at[a] EXCEPT !.pc = "readback"]
        /\ \A b \in Actors : b # a => at'[b] = at[b]
    BY <1>9, <2>1 DEF CommitMisses, Point, Go, ShapeInv, ActorsFit
  <2>3. Carried(at[a], at'[a]) BY <2>1, <2>2 DEF Carried, Running, Timing, Locals
  <2> QED BY <2>1, <2>2, <2>3, QuietCarries
<1>10. ASSUME NEW a \in Actors, ReadBack(a) PROVE StampsInv'
  <2>1. /\ a \in Actors /\ at[a] \in Locals /\ row' = row /\ at[a].pc = "readback"
    BY <1>10 DEF ShapeInv, ActorsFit, ReadBack, At
  <2>2. /\ at'[a] \in {Close(at[a]), Fail(at[a]), Discarded(at[a])}
        /\ \A b \in Actors : b # a => at'[b] = at[b]
    BY <1>10, <2>1 DEF ReadBack, Go, ShapeInv, ActorsFit
  <2> QED BY <2>1, <2>2, EndsCarried, QuietCarries
<1>11. ASSUME NEW a \in Actors, CommitUnheard(a) PROVE StampsInv'
  <2>1. /\ at[a] \in Locals /\ at[a].pc = "commit" /\ Fits(a, at[a])
    BY <1>11 DEF ShapeInv, ActorsFit, CommitUnheard, At, Fits
  <2>2. at[a].outcome \in Outcomes BY <2>1, SidesApart DEF Fits, JobFits, RequestFits
  <2>3. row'.token = Run(at[a].run) /\ row'.tested = at[a].now
    BY <1>11, <2>1, <2>2, CommittedIs DEF CommitUnheard, Land, ShapeInv
  <2>4. /\ at'[a] = [at[a] EXCEPT !.landed = TRUE]
        /\ \A b \in Actors : b # a => at'[b] = at[b]
    BY <1>11 DEF CommitUnheard, Go, ShapeInv, ActorsFit
  <2>5. /\ at'[a].pc = at[a].pc /\ at'[a].run = at[a].run /\ at'[a].now = at[a].now
        /\ at'[a].under = at[a].under /\ at'[a].seen = at[a].seen /\ at'[a].landed
    BY <2>1, <2>4 DEF Locals
  <2>6. Carried(at[a], at'[a]) BY <2>1, <2>5 DEF Carried, Running, Timing
  <2>7. Others(a) /\ ~Writing(at'[a]) /\ ~Dating(at'[a])
    BY <2>4, <2>5 DEF Others, Writing, Dating
  <2> QED BY <2>1, <2>3, <2>6, <2>7, StampsCarry DEF Running, Timing
<1>12. ASSUME NEW a \in Actors, Outage(a) PROVE StampsInv'
  <2>1. a \in Actors /\ at[a] \in Locals /\ row' = row BY <1>12 DEF ShapeInv, ActorsFit, Outage
  <2>2. at'[a] = Fail(at[a]) /\ \A b \in Actors : b # a => at'[b] = at[b]
    BY <1>12, <2>1 DEF Outage, Go, ShapeInv, ActorsFit
  <2> QED BY <2>1, <2>2, EndsCarried, QuietCarries
<1>13. ASSUME NEW a \in Admins, EnqueueImported(a) PROVE StampsInv'
  <2>1. a \in Actors /\ at[a] \in Locals /\ row' = row
    BY <1>13, SidesApart DEF EnqueueImported, ShapeInv, ActorsFit, Local
  <2>2. at'[a] = Idle /\ \A b \in Actors : b # a => at'[b] = at[b]
    BY <1>13, <2>1 DEF EnqueueImported, Go, ShapeInv, ActorsFit
  <2> QED BY <2>1, <2>2, EndsCarried, QuietCarries
<1>14. ASSUME NEW a \in Admins, EditWrites(a) PROVE StampsInv'
  <2> DEFINE l == at[a]
             disables == l.outcome = "off" /\ row.exists
             next == IF WorthProbing(l) THEN [l EXCEPT !.pc = "fresh"] ELSE Close(l)
             told == IF disables THEN SwitchedOff(row, l.now) ELSE row
  <2>1. a \in Actors /\ l \in Locals /\ Fits(a, l) /\ l.pc = "write" /\ a \notin Workers
    BY <1>14, SidesApart DEF ShapeInv, ActorsFit, Fits, EditWrites, At
  <2>2. /\ l.now = l.run
        /\ row' = IF row.exists
                  THEN Renamed(told, l.name, l.name # l.seen.name, l.now) ELSE row
        /\ at' = [(IF disables THEN Overruled ELSE at) EXCEPT ![a] = next]
    BY <1>14, <2>1, SidesApart DEF EditWrites, Fits, RequestFits
  <2>3. at'[a] = next /\ Others(a)
    BY <2>1, <2>2, OverruledFits, OverruledKeeps DEF Others, ShapeInv, ActorsFit
  <2>4. disables => next = Close(l) BY DEF WorthProbing
  <2>5. Carried(l, next)
    <3>1. CASE WorthProbing(l)
      <4>1. next = [l EXCEPT !.pc = "fresh"] BY <3>1
      <4> QED BY <2>1, <4>1 DEF Carried, Running, Timing, Locals
    <3>2. CASE ~WorthProbing(l) BY <2>1, <3>2, EndsCarried
    <3> QED BY <3>1, <3>2
  <2>6. /\ row'.token = row.token \/ (disables /\ row'.token = Run(l.run))
        /\ row'.tested \in {row.tested, 0} BY <2>2 DEF Renamed, SwitchedOff, ShapeInv, Rows
  <2>7. disables => at'[a].pc \notin Timing BY <2>1, <2>3, <2>4, EndsCarried
  <2>8. disables => ~Writing(at'[a]) BY <2>7 DEF Writing, Timing
  <2> HIDE DEF next
  <2> QED BY <2>1, <2>3, <2>5, <2>6, <2>8, StampsCarry DEF Running, Timing
<1>15. ASSUME NEW a \in Admins, EditReadsAgain(a) PROVE StampsInv'
  <2>1. /\ a \in Actors /\ at[a] \in Locals /\ row' = row /\ at[a].pc = "fresh"
        /\ ~at[a].landed
    BY <1>15, SidesApart DEF ShapeInv, ActorsFit, Fits, EditReadsAgain, At
  <2>2. \A b \in Actors : b # a => at'[b] = at[b]
    BY <1>15 DEF EditReadsAgain, Go, ShapeInv, ActorsFit
  <2> DEFINE seen == [Sight(row) EXCEPT !.enabled = at[a].seen.enabled]
             m == [at[a] EXCEPT !.pc = "probe", !.mode = EditMode(at[a]),
                                !.under = row.token,
                                !.seen = seen]
  <2>3. at'[a] = Idle \/ at'[a] = m BY <1>15, <2>1 DEF EditReadsAgain, Go, ShapeInv, ActorsFit
  <2>4. /\ m.pc = "probe" /\ m.run = at[a].run /\ m.now = at[a].now /\ m.under = row.token
        /\ m.seen.token = row.token /\ m.seen.tested = row.tested BY <2>1, SightIs DEF Locals
  <2> HIDE DEF m
  <2>5. Carried(at[a], m) BY <2>1, <2>4 DEF Carried, Running, Timing
  <2> QED BY <2>1, <2>2, <2>3, <2>5, EndsCarried, QuietCarries
<1>16. ASSUME NEW a \in Admins, Recommit(a) PROVE StampsInv'
  <2>1. /\ a \in Actors /\ at[a] \in Locals /\ row' = row /\ at[a].pc = "recommit"
    BY <1>16, SidesApart DEF ShapeInv, ActorsFit, Recommit, At
  <2>2. \A b \in Actors : b # a => at'[b] = at[b] BY <1>16 DEF Recommit, Go, ShapeInv, ActorsFit
  <2> DEFINE m == [at[a] EXCEPT !.pc = "commit", !.stage = "recommit", !.under = row.token,
                                !.mode = IF at[a].seen.armed THEN "armed" ELSE "plain",
                                !.tries = @ + 1]
  <2>3. at'[a] = Close(at[a]) \/ at'[a] = m BY <1>16, <2>1 DEF Recommit, Go, ShapeInv, ActorsFit
  <2>4. /\ m.pc = "commit" /\ m.run = at[a].run /\ m.now = at[a].now /\ m.under = row.token
        /\ m.seen = at[a].seen /\ m.landed = at[a].landed BY <2>1 DEF Locals
  <2> HIDE DEF m
  <2>5. Carried(at[a], m) BY <2>1, <2>4 DEF Carried, Running, Timing
  <2> QED BY <2>1, <2>2, <2>3, <2>5, EndsCarried, QuietCarries
<1>17. ASSUME NEW a \in Admins, EditReloads(a) PROVE StampsInv'
  <2>1. a \in Actors /\ at[a] \in Locals /\ row' = row
    BY <1>17, SidesApart DEF ShapeInv, ActorsFit, EditReloads
  <2>2. \A b \in Actors : b # a => at'[b] = at[b]
    BY <1>17 DEF EditReloads, Go, ShapeInv, ActorsFit
  <2> DEFINE m == [at[a] EXCEPT !.pc = "demote", !.seen = Sight(row)]
  <2>3. at'[a] = Idle \/ at'[a] = m BY <1>17, <2>1 DEF EditReloads, Go, ShapeInv, ActorsFit
  <2>4. /\ m.pc = "demote" /\ m.under = at[a].under
        /\ m.seen.token = row.token /\ m.seen.tested = row.tested BY <2>1, SightIs DEF Locals
  <2> HIDE DEF m
  <2>5. Carried(at[a], m) BY <2>4 DEF Carried, Running, Timing
  <2> QED BY <2>1, <2>2, <2>3, <2>5, EndsCarried, QuietCarries
<1>18. ASSUME NEW a \in Admins, EditDemotes(a) PROVE StampsInv'
  <2>1. a \in Actors /\ at[a] \in Locals BY SidesApart DEF ShapeInv, ActorsFit
  <2>2. row'.token = row.token /\ row'.tested = row.tested
    BY <1>18 DEF EditDemotes, Demoted, ShapeInv, Rows
  <2>3. at'[a] = Idle /\ Others(a) BY <1>18, <2>1 DEF EditDemotes, Go, Others, ShapeInv, ActorsFit
  <2>4. Carried(at[a], at'[a]) BY <2>1, <2>3, EndsCarried
  <2> QED BY <2>1, <2>2, <2>3, <2>4, StampsCarry
<1>19. ASSUME NEW a \in Admins, Disable(a) PROVE StampsInv'
  <2>1. a \in Actors /\ at[a].pc = "idle" BY <1>19, SidesApart DEF Disable, Arrives, At
  <2>2. Others(a) /\ at'[a].pc = "idle" /\ at'[a].under = at[a].under
        /\ at'[a].seen = at[a].seen BY <1>19, <2>1, OverruledKeeps DEF Disable, Others, ShapeInv
  <2>3. row'.token = Run(Fresh) /\ row'.tested = row.tested
    BY <1>19 DEF Disable, SwitchedOff, ShapeInv, Rows
  <2>4. Carried(at[a], at'[a]) BY <2>2 DEF Carried, Running, Timing
  <2>5. row'.token.run = Fresh BY <2>3 DEF Run
  <2> QED BY <2>1, <2>2, <2>3, <2>4, <2>5, StampsCarry DEF Running
<1>20. ASSUME NEW a \in Admins, Enable(a) \/ Reprice(a) \/ Delete(a) PROVE StampsInv'
  <2>1. at' = at /\ row'.token = row.token /\ row'.tested = row.tested
    BY <1>20 DEF Enable, Reprice, Delete, SwitchedOn, Repriced, Renamed, ShapeInv, Rows
  <2> QED BY <2>1 DEF StampsInv, Writing, Dating
<1>21. ASSUME NEW a \in Admins, Retest(a) PROVE StampsInv'
  <2>1. a \in Actors /\ row' = row BY <1>21, SidesApart DEF Retest
  <2> DEFINE mode == IF row.armed THEN "armed"
                     ELSE IF row.verified # "passed" THEN "explicit" ELSE "plain"
             m == Begin("retest", "probe", row, mode)
  <2>2. at'[a] = m /\ \A b \in Actors : b # a => at'[b] = at[b]
    BY <1>21, <2>1 DEF Retest, Go, ShapeInv, ActorsFit
  <2>3. mode \in Modes BY DEF Modes
  <2> HIDE DEF mode
  <2>4. m.pc = "probe" /\ m.now = Fresh /\ m.run = Fresh /\ m.seen = Sight(row)
        /\ m.under = row.token BY <2>3, BeginFits, Zenon DEF Opened
  <2> HIDE DEF m
  <2>5. at[a].landed = FALSE
    BY <1>21, <2>1 DEF Retest, Arrives, At, ShapeInv, ActorsFit, Fits, Locals
  <2>6. Carried(at[a], m) BY <2>4, <2>5, SightIs DEF Carried, Running, Timing
  <2> QED BY <2>1, <2>2, <2>6, QuietCarries
<1>22. ASSUME NEW a \in Admins, NEW priced \in BOOLEAN, Requeue(a, priced) PROVE StampsInv'
  <2>1. a \in Actors BY SidesApart
  <2>2. row'.token.run = Fresh /\ row'.tested = 0
    BY <1>22 DEF Requeue, Requeued, RequeueRun, ShapeInv, Rows
  <2>3. at'[a] = [Idle EXCEPT !.op = "import", !.pc = "enqueue"] /\ Others(a)
    BY <1>22, <2>1 DEF Requeue, Go, Others, ShapeInv, ActorsFit
  <2>4. /\ at'[a].pc = "enqueue" /\ at'[a].under = Run(0)
        /\ at'[a].seen.token = Run(0) /\ at'[a].seen.tested = 0
    BY <2>3, IdleFits, UnseenIs DEF Locals
  <2>5. Carried(at[a], at'[a]) /\ at'[a].pc \notin Running BY <2>4 DEF Carried, Running, Timing
  <2> QED BY <2>1, <2>2, <2>3, <2>5, StampsCarry
<1>23. ASSUME NEW a \in Admins, NEW name \in Names, NEW status \in Asked, Edit(a, name, status)
      PROVE  StampsInv'
  <2>1. a \in Actors /\ row' = row BY <1>23, SidesApart DEF Edit
  <2> DEFINE l == Begin("edit", "write", row, "plain")
             m == [l EXCEPT !.name = name, !.outcome = status]
  <2>2. at'[a] = m /\ \A b \in Actors : b # a => at'[b] = at[b]
    BY <1>23, <2>1 DEF Edit, Go, ShapeInv, ActorsFit
  <2>3. "plain" \in Modes /\ "edit" \in {"retest", "edit"} /\ "write" \in {"probe", "write"}
    BY DEF Modes
  <2>4. /\ l \in Locals /\ l.pc = "write" /\ l.now = Fresh /\ l.run = Fresh
        /\ l.seen = Sight(row) /\ l.under = row.token BY <2>3, BeginFits, Zenon DEF Opened
  <2> HIDE DEF l
  <2>5. /\ m.pc = "write" /\ m.now = Fresh /\ m.run = Fresh
        /\ m.seen = Sight(row) /\ m.under = row.token BY <2>4 DEF Locals
  <2> HIDE DEF m
  <2>6. at[a].landed = FALSE
    BY <1>23, <2>1 DEF Edit, Arrives, At, ShapeInv, ActorsFit, Fits, Locals
  <2>7. Carried(at[a], m) BY <2>5, <2>6, SightIs DEF Carried, Running, Timing
  <2> QED BY <2>1, <2>2, <2>7, QuietCarries
<1>24. CASE RetryFires BY <1>24 DEF RetryFires, StampsInv, Writing, Dating
<1>25. CASE RecoverLists BY <1>25 DEF RecoverLists, StampsInv, Writing, Dating
<1>26. CASE RecoverEnqueues BY <1>26 DEF RecoverEnqueues, StampsInv, Writing, Dating
<1>27. CASE Crash
  <2>1. \A b \in Actors : at'[b] = Idle BY <1>27 DEF Crash
  <2> QED BY <2>1, IdleFits DEF StampsInv, Writing, Dating, Running, Timing
<1>28. CASE UNCHANGED vars BY <1>28 DEF vars, StampsInv, Writing, Dating
<1> QED BY <1>1, <1>2, <1>3, <1>4, <1>5, <1>6, <1>7, <1>8, <1>9, <1>10, <1>11, <1>12, <1>13,
     <1>14, <1>15, <1>16, <1>17, <1>18, <1>19, <1>20, <1>21, <1>22, <1>23, <1>24, <1>25, <1>26,
     <1>27, <1>28 DEF Next, Goes, Work, Verify, Serve, Ask, Recover, Trouble, Asked

----------------------------------------
(* What a run whose verdict has landed unheard may still write. *)

\* It commits over no promise: whoever promised since it read the row requeued it, and
\* it sees that the token is a requeue's, or that the test time is not what it read.
Landed(l) ==
  l.landed =>
      /\ row.token # Run(0)
      /\ l.seen.token.rq => row.token # l.seen.token
      /\ row.armed => row.token.rq \/ row.tested # l.seen.tested
      /\ l.pc \in {"probe", "commit"} /\ row.armed => row.token # l.under

LandedInv ==
  /\ row.armed => row.token = Run(0) \/ row.token.rq \/ row.tested # 0
  /\ \A b \in Actors : Landed(at[b])

\* How the token, the test time and the promise of a row can move in a step.
RowMoved ==
  /\ row'.exists => row.exists
  /\ row'.armed =>
        \/ row.armed /\ row'.token = row.token /\ row'.tested = row.tested
        \/ row'.token = RequeueRun(Fresh)
        \/ \E a \in Actors :
              /\ at[a].pc = "commit" /\ ~at[a].landed
              /\ row'.token = Run(at[a].run) /\ row'.tested = at[a].now
  /\ \/ row'.token = row.token \/ row'.token.run = Fresh
     \/ \E a \in Actors :
           /\ at[a].pc \in Running /\ (at[a].landed => relanded')
           /\ row'.token = Run(at[a].run)
  /\ row'.token.rq => row'.token \in {row.token, RequeueRun(Fresh)}
  /\ relanded /\ ~relanded' => \A b \in Actors :
        row'.token # at[b].under /\ row'.token # at[b].seen.token

\* A row that rests moves nowhere.
LEMMA RowRests == ASSUME row' = row, relanded' = relanded PROVE RowMoved
BY DEF RowMoved

\* Every step moves the row so.
LEMMA RowMoves ==
  ASSUME ShapeInv, StampsInv, LandedInv, [Next]_vars
  PROVE  RowMoved
<1>0. \A n : Run(n).rq = FALSE /\ Run(n).run = n /\ RequeueRun(n).run = n BY DEF Run, RequeueRun
<1>1. ASSUME NEW w \in Workers, Take(w) PROVE RowMoved BY <1>1, RowRests DEF Take, ghosts
<1>2. ASSUME NEW w \in Workers, JobRead(w) PROVE RowMoved
  BY <1>2, RowRests DEF JobRead, ghosts, Drop, Continue, Attempt
<1>3. ASSUME NEW w \in Workers, Fulfill(w) PROVE RowMoved
  <2>1. /\ row'.token = row.token /\ row'.tested = row.tested
        /\ (row'.armed => row.armed) /\ (row'.exists => row.exists)
        /\ relanded' = relanded
    BY <1>3 DEF Fulfill, SwitchedOn, Repriced, Renamed, Fulfilled, Demoted, ghosts,
       ShapeInv, Rows
  <2> QED BY <2>1 DEF RowMoved
<1>4. ASSUME NEW w \in Workers, FulfillMisses(w) PROVE RowMoved
  BY <1>4, RowRests DEF FulfillMisses, ghosts, Continue
<1>5. ASSUME NEW w \in Workers, Refetch(w) PROVE RowMoved
  BY <1>5, RowRests DEF Refetch, ghosts, Drop, Attempt
<1>6. ASSUME NEW w \in Workers, Reread(w) PROVE RowMoved
  BY <1>6, RowRests DEF Reread, ghosts, Drop, Return, Attempt
<1>7. ASSUME NEW w \in Workers, Settled(w) PROVE RowMoved
  BY <1>7, RowRests DEF Settled, ghosts, Drop, Return
<1>8. ASSUME NEW w \in Workers, Stamp(w) PROVE RowMoved BY <1>8, RowRests DEF Stamp, ghosts, Drop
<1>9. ASSUME NEW w \in Workers, Finish(w) PROVE RowMoved BY <1>9, RowRests DEF Finish, ghosts
<1>10. ASSUME NEW a \in Actors, Probe(a) PROVE RowMoved BY <1>10, RowRests DEF Probe, ghosts
<1>11. ASSUME NEW a \in Actors, Commit(a) \/ CommitUnheard(a) PROVE RowMoved
  <2>1. /\ at[a] \in Locals /\ at[a].pc = "commit" /\ Fits(a, at[a]) /\ Landed(at[a])
    BY <1>11 DEF ShapeInv, ActorsFit, Commit, CommitUnheard, At, Fits, LandedInv
  <2>2. at[a].outcome \in Outcomes BY <2>1, SidesApart DEF Fits, JobFits, RequestFits
  <2>3. row.token = at[a].under BY <1>11 DEF Commit, CommitUnheard, Unmoved, Claim
  <2>4. /\ row'.token = Run(at[a].run) /\ row'.tested = at[a].now /\ row'.exists = row.exists
        /\ row'.armed => row.armed
    <3>1. row' = Committed(row, Claim(at[a])) BY <1>11 DEF Commit, CommitUnheard, Land
    <3>2. StillArmed(row, Claim(at[a])) => row.armed BY DEF StillArmed
    <3> QED BY <2>1, <2>2, <3>1, <3>2, CommittedIs DEF ShapeInv
  <2>5. relanded' = (relanded \/ at[a].landed) BY <1>11 DEF Commit, CommitUnheard, Land
  <2>6. row'.armed => ~at[a].landed BY <2>1, <2>3, <2>4 DEF Landed
  <2> QED BY <1>0, <2>1, <2>4, <2>5, <2>6 DEF RowMoved, Running, ShapeInv
<1>12. ASSUME NEW a \in Actors, CommitMisses(a) PROVE RowMoved
  BY <1>12, RowRests DEF CommitMisses, ghosts
<1>13. ASSUME NEW a \in Actors, ReadBack(a) PROVE RowMoved BY <1>13, RowRests DEF ReadBack, ghosts
<1>15. ASSUME NEW a \in Actors, Outage(a) PROVE RowMoved BY <1>15, RowRests DEF Outage, ghosts
<1>16. ASSUME NEW a \in Admins, EnqueueImported(a) PROVE RowMoved
  BY <1>16, RowRests DEF EnqueueImported, ghosts
<1>17. ASSUME NEW a \in Admins, EditWrites(a) PROVE RowMoved
  <2> DEFINE l == at[a]
             disables == l.outcome = "off" /\ row.exists
             told == IF disables THEN SwitchedOff(row, l.now) ELSE row
  <2>1. /\ a \in Actors /\ l \in Locals /\ l.pc = "write" /\ l.now = l.run /\ ~l.landed
    BY <1>17, SidesApart DEF ShapeInv, ActorsFit, Fits, EditWrites, At, RequestFits
  <2>2. /\ row' = IF row.exists
                  THEN Renamed(told, l.name, l.name # l.seen.name, l.now) ELSE row
        /\ relanded' = (relanded /\ ~disables) BY <1>17 DEF EditWrites
  <2>3. CASE disables
    <3>1. row'.token = Run(l.run) /\ row'.armed = FALSE /\ row'.exists = row.exists
      BY <2>1, <2>2, <2>3 DEF Renamed, SwitchedOff, ShapeInv, Rows
    <3>2. \A b \in Actors : at[b].under # Run(l.run) /\ at[b].seen.token # Run(l.run)
      BY <2>1 DEF StampsInv, Writing, Running
    <3> QED BY <1>0, <2>1, <3>1, <3>2 DEF RowMoved, Running
  <2>4. CASE ~disables
    <3>1. /\ row'.token = row.token /\ row'.exists = row.exists
          /\ row'.armed => row.armed /\ row'.tested = row.tested
      BY <2>2, <2>4 DEF Renamed, ShapeInv, Rows
    <3> QED BY <2>2, <2>4, <3>1 DEF RowMoved, ShapeInv
  <2> QED BY <2>3, <2>4
<1>18. ASSUME NEW a \in Admins, EditReadsAgain(a) PROVE RowMoved
  BY <1>18, RowRests DEF EditReadsAgain, ghosts
<1>19. ASSUME NEW a \in Admins, Recommit(a) PROVE RowMoved BY <1>19, RowRests DEF Recommit, ghosts
<1>20. ASSUME NEW a \in Admins, EditReloads(a) PROVE RowMoved
  BY <1>20, RowRests DEF EditReloads, ghosts
<1>21. ASSUME NEW a \in Admins, EditDemotes(a) PROVE RowMoved
  <2>1. /\ row'.token = row.token /\ row'.tested = row.tested
        /\ (row'.armed => row.armed) /\ (row'.exists => row.exists)
        /\ relanded' = relanded
    BY <1>21 DEF EditDemotes, SwitchedOn, Repriced, Renamed, Fulfilled, Demoted, ghosts,
       ShapeInv, Rows
  <2> QED BY <2>1 DEF RowMoved
<1>22. ASSUME NEW a \in Admins, Disable(a) PROVE RowMoved
  <2>1. row'.token = Run(Fresh) /\ row'.armed = FALSE /\ row'.exists = row.exists
    BY <1>22 DEF Disable, SwitchedOff, ShapeInv, Rows
  <2>2. \A b \in Actors : at[b].under # Run(Fresh) /\ at[b].seen.token # Run(Fresh)
    BY <1>0, FreshIsNew
  <2> QED BY <1>0, <2>1, <2>2 DEF RowMoved
<1>23. ASSUME NEW a \in Admins, Enable(a) PROVE RowMoved
  <2>1. /\ row'.token = row.token /\ row'.tested = row.tested
        /\ (row'.armed => row.armed) /\ (row'.exists => row.exists)
        /\ relanded' = relanded
    BY <1>23 DEF Enable, SwitchedOn, Repriced, Renamed, Fulfilled, Demoted, ghosts,
       ShapeInv, Rows
  <2> QED BY <2>1 DEF RowMoved
<1>24. ASSUME NEW a \in Admins, Reprice(a) PROVE RowMoved
  <2>1. /\ row'.token = row.token /\ row'.tested = row.tested
        /\ (row'.armed => row.armed) /\ (row'.exists => row.exists)
        /\ relanded' = relanded
    BY <1>24 DEF Reprice, SwitchedOn, Repriced, Renamed, Fulfilled, Demoted, ghosts,
       ShapeInv, Rows
  <2> QED BY <2>1 DEF RowMoved
<1>25. ASSUME NEW a \in Admins, Delete(a) PROVE RowMoved
  <2>1. /\ row'.token = row.token /\ row'.tested = row.tested
        /\ (row'.armed => row.armed) /\ (row'.exists => row.exists)
        /\ relanded' = relanded
    BY <1>25 DEF Delete, SwitchedOn, Repriced, Renamed, Fulfilled, Demoted, ghosts,
       ShapeInv, Rows
  <2> QED BY <2>1 DEF RowMoved
<1>26. ASSUME NEW a \in Admins, Retest(a) PROVE RowMoved BY <1>26, RowRests DEF Retest
<1>27. ASSUME NEW a \in Admins, NEW priced \in BOOLEAN, Requeue(a, priced) PROVE RowMoved
  <2>1. row'.token = RequeueRun(Fresh) /\ row'.exists = row.exists
    BY <1>27 DEF Requeue, Requeued, ShapeInv, Rows
  <2>2. relanded' = relanded BY <1>27 DEF Requeue
  <2> QED BY <1>0, <2>1, <2>2 DEF RowMoved
<1>28. ASSUME NEW a \in Admins, NEW name \in Names, NEW status \in Asked, Edit(a, name, status)
      PROVE  RowMoved BY <1>28, RowRests DEF Edit
<1>29. CASE RetryFires BY <1>29, RowRests DEF RetryFires, ghosts
<1>30. CASE RecoverLists BY <1>30, RowRests DEF RecoverLists, ghosts
<1>31. CASE RecoverEnqueues BY <1>31, RowRests DEF RecoverEnqueues, ghosts
<1>32. CASE Crash BY <1>32, RowRests DEF Crash, ghosts
<1>33. CASE UNCHANGED vars BY <1>33, RowRests DEF vars, ghosts
<1> QED BY <1>1, <1>2, <1>3, <1>4, <1>5, <1>6, <1>7, <1>8, <1>9, <1>10, <1>11, <1>12,
     <1>13, <1>15, <1>16, <1>17, <1>18, <1>19, <1>20, <1>21, <1>22, <1>23, <1>24,
     <1>25, <1>26, <1>27, <1>28, <1>29, <1>30, <1>31, <1>32, <1>33 DEF Next, Goes, Work,
     Verify, Serve, Ask, Recover, Trouble, Asked

\* A run that a step leaves alone.
LEMMA LandedRests ==
  ASSUME ShapeInv, StampsInv, LandedInv, RowMoved, NEW b \in Actors, NEW m, Landed(at[b]),
         m.landed => at[b].landed,
         m.pc \in {"probe", "commit"} => at[b].pc \in {"probe", "commit"},
         m.under = at[b].under, m.seen = at[b].seen
  PROVE  m.landed =>
            /\ row'.token # Run(0)
            /\ m.seen.token.rq => row'.token # m.seen.token
            /\ row'.armed => row'.token.rq \/ row'.tested # m.seen.tested
            /\ m.pc \in {"probe", "commit"} /\ row'.armed => row'.token # m.under
<1> SUFFICES ASSUME m.landed
             PROVE  /\ row'.token # Run(0)
                    /\ m.seen.token.rq => row'.token # m.seen.token
                    /\ row'.armed => row'.token.rq \/ row'.tested # m.seen.tested
                    /\ m.pc \in {"probe", "commit"} /\ row'.armed => row'.token # m.under
  OBVIOUS
<1>1. \A n : /\ RequeueRun(n) # Run(0) /\ RequeueRun(n).rq /\ RequeueRun(n).run = n
             /\ Run(n).run = n /\ Run(n).rq = FALSE BY DEF RequeueRun, Run
<1>2. Fresh # 0 /\ Fresh # at[b].under.run /\ Fresh # at[b].seen.token.run BY FreshIsNew
<1>3. ASSUME NEW a \in Actors, at[a].pc = "commit", ~at[a].landed
      PROVE  at[b].under # Run(at[a].run) /\ at[b].seen.tested # at[a].now
  BY <1>3 DEF StampsInv, Running, Timing, Writing, Dating
<1>4. ASSUME NEW a \in Actors, at[a].pc \in Running PROVE at[a].run # 0
  BY <1>4 DEF StampsInv
<1>5. row'.token # Run(0) BY <1>1, <1>2, <1>4 DEF RowMoved, Landed
<1>6. m.seen.token.rq => row'.token # m.seen.token BY <1>1, <1>2 DEF RowMoved, Landed
<1>7. row'.armed => row'.token.rq \/ row'.tested # m.seen.tested
  BY <1>1, <1>3 DEF RowMoved, Landed
<1>8. m.pc \in {"probe", "commit"} /\ row'.armed => row'.token # m.under
  BY <1>1, <1>2, <1>3 DEF RowMoved, Landed
<1> QED BY <1>5, <1>6, <1>7, <1>8

\* One actor moves on.
LEMMA LandedMoves ==
  ASSUME ShapeInv, StampsInv, LandedInv, RowMoved, NEW a \in Actors, Landed(at[a])',
         \A b \in Actors : b # a =>
             /\ at'[b].pc = at[b].pc /\ at'[b].under = at[b].under
             /\ at'[b].seen = at[b].seen /\ at'[b].landed = at[b].landed
  PROVE  LandedInv'
<1>1. row'.armed => row'.token = Run(0) \/ row'.token.rq \/ row'.tested # 0
  <2>1. RequeueRun(Fresh).rq BY DEF RequeueRun
  <2>2. ASSUME NEW b \in Actors, at[b].pc = "commit" PROVE at[b].now # 0
    BY <2>2 DEF StampsInv, Timing, Running
  <2> QED BY <2>1, <2>2 DEF RowMoved, LandedInv
<1>2. ASSUME NEW b \in Actors PROVE Landed(at[b])'
  <2>1. CASE b = a BY <2>1
  <2>2. CASE b # a
    <3>1. Landed(at[b]) BY DEF LandedInv
    <3>2. PICK m : m = at'[b] OBVIOUS
    <3>3. /\ m.landed => at[b].landed /\ m.under = at[b].under /\ m.seen = at[b].seen
          /\ m.pc \in {"probe", "commit"} => at[b].pc \in {"probe", "commit"} BY <2>2, <3>2
    <3> QED BY <3>1, <3>2, <3>3, LandedRests DEF Landed
  <2> QED BY <2>1, <2>2
<1> QED BY <1>1, <1>2 DEF LandedInv

\* A job goes on, or ends.
LEMMA LandedGoes ==
  ASSUME ShapeInv, StampsInv, LandedInv, RowMoved, NEW a \in Actors, NEW m, Go(a, m),
         ~m.landed \/ /\ m.landed = at[a].landed /\ m.under = at[a].under /\ m.seen = at[a].seen
                      /\ m.pc \in {"probe", "commit"} => at[a].pc \in {"probe", "commit"}
  PROVE  LandedInv'
<1>1. at'[a] = m /\ \A b \in Actors : b # a => at'[b] = at[b] BY DEF Go, ShapeInv, ActorsFit
<1>2. Landed(at[a]) BY DEF LandedInv
<1>3. Landed(at[a])'
  <2>1. CASE ~m.landed BY <1>1, <2>1 DEF Landed
  <2>2. CASE m.landed BY <1>1, <1>2, <2>2, LandedRests DEF Landed
  <2> QED BY <2>1, <2>2
<1> QED BY <1>1, <1>3, LandedMoves

\* A step leaves every run whose verdict landed unheard off the promises.
LEMMA LandedStep ==
  ASSUME ShapeInv, StampsInv, LandedInv, RowMoved, [Next]_vars
  PROVE  LandedInv'
<1> USE SidesApart, IdleFits
<1>0. ASSUME NEW a \in Actors PROVE at[a] \in Locals /\ Fits(a, at[a]) /\ Landed(at[a])
  BY DEF ShapeInv, ActorsFit, Fits, LandedInv
<1>a. \A l : ~Close(l).landed /\ ~Fail(l).landed BY DEF Close, Fail, Idle
<1>b. ASSUME NEW a \in Actors, NEW pc, pc \notin {"probe", "commit"}
      PROVE  LET m == [at[a] EXCEPT !.pc = pc] IN
             /\ m.landed = at[a].landed /\ m.under = at[a].under /\ m.seen = at[a].seen
             /\ m.pc \notin {"probe", "commit"} BY <1>0, <1>b DEF Locals
<1>c. ASSUME at' = at PROVE LandedInv'
  <2>1. CASE Actors = {}
    <3>1. \A b \in Actors : Landed(at[b])' BY <2>1
    <3>2. row'.armed => row'.token = Run(0) \/ row'.token.rq \/ row'.tested # 0
      BY <2>1 DEF RowMoved, LandedInv, RequeueRun
    <3> QED BY <3>1, <3>2 DEF LandedInv
  <2>2. CASE Actors # {}
    <3>1. PICK a \in Actors : TRUE BY <2>2
    <3>2. Landed(at[a])' BY <1>0, <1>c, LandedRests DEF Landed
    <3> QED BY <1>c, <3>1, <3>2, LandedMoves
  <2> QED BY <2>1, <2>2
<1>1. ASSUME NEW w \in Workers, Take(w) PROVE LandedInv'
  <2>1. PICK m : m = [Idle EXCEPT !.op = "job", !.pc = "read", !.now = Fresh] OBVIOUS
  <2>2. Go(w, m) /\ ~m.landed BY <1>1, <2>1 DEF Take, Idle
  <2> QED BY <2>2, LandedGoes
<1>2. ASSUME NEW w \in Workers,
             JobRead(w) \/ FulfillMisses(w) \/ Refetch(w) \/ Reread(w) \/ Settled(w)
      PROVE  LandedInv'
  <2>1. w \in Actors /\ row' = row
    BY <1>2 DEF JobRead, FulfillMisses, Refetch, Reread, Settled, Drop, Return, Continue, Attempt
  <2>2. \/ Drop(w) \/ Return(w) \/ Continue(w, "fulfill") \/ Continue(w, "refetch")
        \/ \E stage \in {"first", "again"} : Attempt(w, stage)
    BY <1>2 DEF JobRead, FulfillMisses, Refetch, Reread, Settled
  <2>3. CASE Drop(w) BY <1>a, <2>1, <2>3, LandedGoes DEF Drop
  <2>4. CASE Return(w) BY <1>a, <2>1, <2>4, LandedGoes DEF Return
  <2>5. ASSUME NEW pc \in {"fulfill", "refetch"}, Continue(w, pc) PROVE LandedInv'
    <3>1. PICK m : m = [at[w] EXCEPT !.pc = pc] OBVIOUS
    <3>2. Go(w, m) BY <2>5, <3>1 DEF Continue, Point
    <3> QED BY <1>b, <2>1, <2>5, <3>1, <3>2, LandedGoes
  <2>6. ASSUME NEW stage \in {"first", "again"}, Attempt(w, stage) PROVE LandedInv'
    <3>1. at[w].pc \in {"read", "refetch", "reread"} /\ at[w].op = "job"
      <4>1. at[w].pc \in {"read", "fulfill", "refetch", "reread", "settled"}
        BY <1>2 DEF JobRead, FulfillMisses, Refetch, Reread, Settled, At
      <4>2. at[w].op = "job" BY <1>0, <2>1, <4>1 DEF Fits, JobFits
      <4>3. at'[w].pc = "probe" BY <2>6, <4>2, AttemptFits
      <4>4. at[w].pc \in {"fulfill", "settled"} => at'[w].pc # "probe"
        <5>1. CASE at[w].pc = "fulfill"
          <6>1. Go(w, [at[w] EXCEPT !.pc = "refetch"])
            BY <1>2, <5>1 DEF JobRead, FulfillMisses, Refetch, Reread, Settled, At, Continue, Point
          <6> QED BY <1>0, <2>1, <5>1, <6>1 DEF Go, ShapeInv, ActorsFit, Locals
        <5>2. CASE at[w].pc = "settled"
          <6>1. Go(w, Close(at[w])) \/ Go(w, Fail(at[w]))
            BY <1>2, <5>2 DEF JobRead, FulfillMisses, Refetch, Reread, Settled, At, Drop, Return
          <6> QED BY <2>1, <4>2, <6>1, EndsWhere DEF Go, ShapeInv, ActorsFit
        <5> QED BY <5>1, <5>2
      <4> QED BY <4>1, <4>2, <4>3, <4>4
    <3>2. /\ at'[w].landed = at[w].landed /\ at'[w].under = row.token
          /\ at'[w].seen.token = row.token /\ at'[w].seen.tested = row.tested
          /\ \A b \in Actors : b # w => at'[b] = at[b] BY <2>6, <3>1, AttemptFits, SightIs
    <3>3. Landed(at[w])'
      <4>1. CASE ~at[w].landed BY <3>2, <4>1 DEF Landed
      <4>2. CASE at[w].landed
        <5>1. at[w].pc = "reread" BY <1>0, <2>1, <3>1, <4>2 DEF Fits
        <5>2. ~RequeuedSince(at[w]) /\ row.tested = at[w].seen.tested
          <6>1. at'[w].pc = "probe" BY <2>6, <3>1, AttemptFits
          <6>2. Reread(w) /\ ~Drop(w)
            BY <1>2, <2>1, <3>1, <5>1, <6>1, EndsWhere DEF JobRead, FulfillMisses, Refetch,
               Settled, At, Drop, Go, ShapeInv, ActorsFit
          <6>3. ~Return(w) BY <2>1, <3>1, <6>1, EndsWhere DEF Return, Go, ShapeInv, ActorsFit
          <6> QED BY <6>2, <6>3 DEF Reread
        <5>3. ~row.token.rq BY <1>0, <2>1, <4>2, <5>2 DEF RequeuedSince, Landed
        <5>4. ~row.armed BY <1>0, <2>1, <4>2, <5>2, <5>3 DEF Landed
        <5> QED BY <1>0, <2>1, <3>2, <4>2, <5>3, <5>4 DEF Landed
      <4> QED BY <4>1, <4>2
    <3> QED BY <2>1, <3>2, <3>3, LandedMoves
  <2> QED BY <2>2, <2>3, <2>4, <2>5, <2>6
<1>3. ASSUME NEW w \in Workers, Fulfill(w) PROVE LandedInv'
  BY <1>3, <1>a, LandedGoes DEF Fulfill
<1>4. ASSUME NEW w \in Workers, Stamp(w) PROVE LandedInv'
  <2>1. w \in Actors /\ row' = row /\ at[w].pc = "stamp" BY <1>4 DEF Stamp, Drop, At
  <2>2. CASE Drop(w) BY <1>a, <2>1, <2>2, LandedGoes DEF Drop
  <2>3. CASE ~Drop(w)
    <3> DEFINE m == [at[w] EXCEPT !.pc = "commit", !.outcome = "inconclusive",
                                  !.under = row.token, !.run = Fresh, !.tries = @ + 1]
    <3>1. Go(w, m) /\ Unstamped(row) /\ ~RequeuedSince(at[w]) BY <1>4, <2>3 DEF Stamp
    <3>2. m.landed = at[w].landed /\ m.seen = at[w].seen /\ m.pc = "commit"
      BY <1>0, <2>1 DEF Locals
    <3>3. at'[w] = m /\ \A b \in Actors : b # w => at'[b] = at[b]
      BY <2>1, <3>1 DEF Go, ShapeInv, ActorsFit
    <3> HIDE DEF m
    <3>4. at[w].landed => ~row.armed
      BY <1>0, <2>1, <3>1 DEF Landed, LandedInv, Unstamped, RequeuedSince
    <3>5. Landed(at[w])' BY <1>0, <2>1, <3>2, <3>3, <3>4 DEF Landed
    <3> QED BY <2>1, <3>3, <3>5, LandedMoves
  <2> QED BY <2>2, <2>3
<1>5. ASSUME NEW w \in Workers, Finish(w) PROVE LandedInv'
  BY <1>5, LandedGoes DEF Finish
<1>6. ASSUME NEW a \in Actors, Probe(a) PROVE LandedInv'
  <2>1. at[a].pc = "probe" /\ row' = row BY <1>6 DEF Probe, At
  <2>2. PICK m : /\ Go(a, m)
                /\ \/ m = Close(at[a])
                   \/ m = [at[a] EXCEPT !.pc = "stamp", !.stage = "stamp"]
                   \/ \E o \in Outcomes : m = [at[a] EXCEPT !.pc = "commit", !.outcome = o]
    BY <1>6 DEF Probe
  <2>3. CASE m = Close(at[a]) BY <1>a, <2>2, <2>3, LandedGoes
  <2>4. CASE m # Close(at[a])
    <3>1. m.landed = at[a].landed /\ m.under = at[a].under /\ m.seen = at[a].seen
      BY <1>0, <2>2, <2>4 DEF Locals
    <3> QED BY <2>1, <2>2, <3>1, LandedGoes
  <2> QED BY <2>3, <2>4
<1>7. ASSUME NEW a \in Actors, Commit(a) PROVE LandedInv'
  BY <1>7, <1>a, LandedGoes DEF Commit
<1>8. ASSUME NEW a \in Actors, CommitMisses(a) PROVE LandedInv'
  <2>1. PICK m : m = [at[a] EXCEPT !.pc = "readback"] OBVIOUS
  <2>2. Go(a, m) BY <1>8, <2>1 DEF CommitMisses, Point
  <2> QED BY <1>b, <2>1, <2>2, LandedGoes
<1>9. ASSUME NEW a \in Actors, ReadBack(a) PROVE LandedInv'
  <2>1. PICK m : Go(a, m) /\ m \in {Close(at[a]), Fail(at[a]), Discarded(at[a])}
    BY <1>9 DEF ReadBack
  <2>2. \/ Discarded(at[a]) \in {Close(at[a]), Fail(at[a])}
        \/ \E pc \in {"reread", "settled", "stamp", "recommit"} :
              Discarded(at[a]) = [at[a] EXCEPT !.pc = pc] BY DEF Discarded
  <2>3. CASE m \in {Close(at[a]), Fail(at[a])} BY <1>a, <2>1, <2>3, LandedGoes
  <2>4. ASSUME NEW pc \in {"reread", "settled", "stamp", "recommit"},
               m = [at[a] EXCEPT !.pc = pc] PROVE LandedInv'
    BY <1>b, <2>1, <2>4, LandedGoes
  <2> QED BY <2>1, <2>2, <2>3, <2>4
<1>10. ASSUME NEW a \in Actors, CommitUnheard(a) PROVE LandedInv'
  <2>1. at[a].pc = "commit" /\ at[a].outcome \in Outcomes /\ row.token = at[a].under
    BY <1>0, <1>10 DEF CommitUnheard, At, Fits, JobFits, RequestFits, Unmoved, Claim
  <2>2. /\ row'.token = Run(at[a].run) /\ row'.tested = at[a].now
        /\ row'.armed => row.armed
    <3>1. row' = Committed(row, Claim(at[a])) BY <1>10 DEF CommitUnheard, Land
    <3>2. StillArmed(row, Claim(at[a])) => row.armed BY DEF StillArmed
    <3> QED BY <1>0, <2>1, <3>1, <3>2, CommittedIs DEF ShapeInv
  <2>3. /\ at'[a] = [at[a] EXCEPT !.landed = TRUE]
        /\ \A b \in Actors : b # a => at'[b] = at[b]
    BY <1>10 DEF CommitUnheard, Go, ShapeInv, ActorsFit
  <2>4. at'[a].pc = "commit" /\ at'[a].under = at[a].under /\ at'[a].seen = at[a].seen
    BY <1>0, <2>1, <2>3 DEF Locals
  <2>5. at[a].run # 0 BY <2>1 DEF StampsInv, Running
  <2>6. ~at[a].landed => at[a].under # Run(at[a].run) /\ at[a].seen.tested # at[a].now
    BY <2>1 DEF StampsInv, Writing, Dating, Running, Timing
  <2>7. row'.armed => ~at[a].landed BY <1>0, <2>1, <2>2 DEF Landed
  <2>8. Run(at[a].run) # Run(0) /\ ~Run(at[a].run).rq BY <2>5 DEF Run
  <2>9. Landed(at[a])'
    BY <2>2, <2>4, <2>6, <2>7, <2>8 DEF Landed
  <2> QED BY <2>3, <2>9, LandedMoves
<1>11. ASSUME NEW a \in Actors, Outage(a) PROVE LandedInv'
  BY <1>11, <1>a, LandedGoes DEF Outage
<1>12. ASSUME NEW a \in Admins, EnqueueImported(a) PROVE LandedInv'
  BY <1>12, LandedGoes DEF EnqueueImported
<1>13. ASSUME NEW a \in Admins, EditWrites(a) PROVE LandedInv'
  <2> DEFINE l == at[a]
             disables == l.outcome = "off" /\ row.exists
             next == IF WorthProbing(l) THEN [l EXCEPT !.pc = "fresh"] ELSE Close(l)
  <2>1. a \in Actors /\ l.pc = "write" /\ ~l.landed BY <1>0, <1>13 DEF EditWrites, At, Fits
  <2>2. at' = [(IF disables THEN Overruled ELSE at) EXCEPT ![a] = next]
    BY <1>13 DEF EditWrites
  <2>3. ~next.landed BY <1>0, <1>a, <2>1 DEF Locals
  <2> HIDE DEF next, disables
  <2>4. at'[a] = next
    BY <2>1, <2>2, OverruledFits DEF ShapeInv, ActorsFit
  <2>5. ASSUME NEW b \in Actors, b # a
        PROVE  /\ at'[b].pc = at[b].pc /\ at'[b].under = at[b].under
               /\ at'[b].seen = at[b].seen /\ at'[b].landed = at[b].landed
    BY <2>2, <2>5, OverruledFits, OverruledKeeps DEF ShapeInv, ActorsFit
  <2>6. Landed(at[a])' BY <2>3, <2>4 DEF Landed
  <2> QED BY <2>1, <2>5, <2>6, LandedMoves
<1>14. ASSUME NEW a \in Admins, EditReadsAgain(a) PROVE LandedInv'
  <2>1. a \in Actors /\ ~at[a].landed BY <1>0, <1>14 DEF EditReadsAgain, At, Fits
  <2> DEFINE seen == [Sight(row) EXCEPT !.enabled = at[a].seen.enabled]
             m == [at[a] EXCEPT !.pc = "probe", !.mode = EditMode(at[a]),
                                !.under = row.token, !.seen = seen]
  <2>2. Go(a, Idle) \/ Go(a, m) BY <1>14 DEF EditReadsAgain
  <2>3. ~m.landed BY <1>0, <2>1 DEF Locals
  <2> HIDE DEF m
  <2> QED BY <2>1, <2>2, <2>3, LandedGoes
<1>15. ASSUME NEW a \in Admins, Recommit(a) PROVE LandedInv'
  <2> DEFINE m == [at[a] EXCEPT !.pc = "commit", !.stage = "recommit", !.under = row.token,
                                !.mode = IF at[a].seen.armed THEN "armed" ELSE "plain",
                                !.tries = @ + 1]
  <2>1. a \in Actors /\ row' = row BY <1>15 DEF Recommit
  <2>2. CASE Go(a, Close(at[a])) BY <1>a, <2>1, <2>2, LandedGoes
  <2>3. CASE ~Go(a, Close(at[a]))
    <3>1. Go(a, m) /\ row.tested = at[a].seen.tested /\ ~row.token.rq
      BY <1>15, <2>3 DEF Recommit
    <3>2. m.landed = at[a].landed /\ m.seen = at[a].seen /\ m.pc = "commit"
      BY <1>0, <2>1 DEF Locals
    <3>3. at'[a] = m /\ \A b \in Actors : b # a => at'[b] = at[b]
      BY <2>1, <3>1 DEF Go, ShapeInv, ActorsFit
    <3> HIDE DEF m
    <3>4. at[a].landed => ~row.armed BY <1>0, <2>1, <3>1 DEF Landed
    <3>5. Landed(at[a])' BY <1>0, <2>1, <3>2, <3>3, <3>4 DEF Landed
    <3> QED BY <2>1, <3>3, <3>5, LandedMoves
  <2> QED BY <2>2, <2>3
<1>16. ASSUME NEW a \in Admins, EditReloads(a) PROVE LandedInv'
  <2>1. a \in Actors /\ ~at[a].landed BY <1>0, <1>16 DEF EditReloads, At, Fits
  <2> DEFINE m == [at[a] EXCEPT !.pc = "demote", !.seen = Sight(row)]
  <2>2. Go(a, Idle) \/ Go(a, m) BY <1>16 DEF EditReloads
  <2>3. ~m.landed BY <1>0, <2>1 DEF Locals
  <2> HIDE DEF m
  <2> QED BY <2>1, <2>2, <2>3, LandedGoes
<1>17. ASSUME NEW a \in Admins, EditDemotes(a) PROVE LandedInv'
  BY <1>17, LandedGoes DEF EditDemotes
<1>18. ASSUME NEW a \in Admins, Disable(a) PROVE LandedInv'
  <2>1. a \in Actors /\ at' = Overruled /\ at[a].pc = "idle"
    BY <1>18 DEF Disable, Arrives, At
  <2>2. ASSUME NEW b \in Actors
        PROVE  /\ at'[b].pc = at[b].pc /\ at'[b].under = at[b].under
               /\ at'[b].seen = at[b].seen /\ at'[b].landed = at[b].landed
    BY <2>1, OverruledKeeps DEF ShapeInv
  <2>3. ~at'[a].landed BY <1>0, <2>1, <2>2 DEF Fits
  <2>4. Landed(at[a])' BY <2>3 DEF Landed
  <2> QED BY <2>1, <2>2, <2>4, LandedMoves
<1>19. ASSUME NEW a \in Admins, Enable(a) \/ Reprice(a) \/ Delete(a) PROVE LandedInv'
  BY <1>19, <1>c DEF Enable, Reprice, Delete
<1>20. ASSUME NEW a \in Admins, Retest(a) PROVE LandedInv'
  <2> DEFINE mode == IF row.armed THEN "armed"
                     ELSE IF row.verified # "passed" THEN "explicit" ELSE "plain"
             m == Begin("retest", "probe", row, mode)
  <2>1. Go(a, m) BY <1>20 DEF Retest
  <2>2. ~m.landed BY DEF Begin, Idle
  <2> HIDE DEF m
  <2> QED BY <2>1, <2>2, LandedGoes
<1>21. ASSUME NEW a \in Admins, NEW priced \in BOOLEAN, Requeue(a, priced) PROVE LandedInv'
  <2>1. PICK m : m = [Idle EXCEPT !.op = "import", !.pc = "enqueue"] OBVIOUS
  <2>2. Go(a, m) /\ ~m.landed BY <1>21, <2>1 DEF Requeue, Idle
  <2> QED BY <2>2, LandedGoes
<1>22. ASSUME NEW a \in Admins, NEW name \in Names, NEW status \in Asked, Edit(a, name, status)
      PROVE  LandedInv'
  <2> DEFINE m == [Begin("edit", "write", row, "plain") EXCEPT !.name = name,
                                                               !.outcome = status]
  <2>1. Go(a, m) BY <1>22 DEF Edit
  <2>2. ~m.landed BY DEF Begin, Idle
  <2> HIDE DEF m
  <2> QED BY <2>1, <2>2, LandedGoes
<1>23. CASE RetryFires \/ RecoverLists \/ RecoverEnqueues
  BY <1>23, <1>c DEF RetryFires, RecoverLists, RecoverEnqueues
<1>24. CASE Crash
  BY <1>24 DEF Crash, LandedInv, Landed
<1>25. CASE UNCHANGED vars BY <1>25, <1>c DEF vars
<1> QED BY <1>1, <1>2, <1>3, <1>4, <1>5, <1>6, <1>7, <1>8, <1>9, <1>10, <1>11, <1>12,
     <1>13, <1>14, <1>15, <1>16, <1>17, <1>18, <1>19, <1>20, <1>21, <1>22, <1>23, <1>24,
     <1>25 DEF Next, Goes, Work, Verify, Serve, Ask, Recover, Trouble, Asked
----------------------------------------
(* What a run may still write, whatever was written since it read the row. *)

\* Over an armed row nothing commits but runs of the armed mode.
Keeping(l) ==
  l.pc \in {"probe", "commit"} /\ row.token = l.under /\ row.armed => l.mode = "armed"

\* A run that read the row unarmed sees, if it is armed now, that it changed.
Noticing(l) ==
  /\ l.op \in {"retest", "edit"} /\ l.pc \in {"probe", "commit", "readback", "recommit"}
  /\ ~l.seen.armed /\ row.armed
  => row.token.rq \/ row.tested # l.seen.tested

\* A run that a disable overruled no longer has the token, unless a verdict landed twice.
Yielding(l) ==
  \/ relanded
  \/ row.exists /\ l.overruled =>
        /\ l.pc \in {"write", "fresh"} => row.token # l.seen.token
        /\ l.pc \in {"probe", "commit"} /\ l.mode = "explicit" => row.token # l.under

Own(b) == Keeping(at[b]) /\ Noticing(at[b]) /\ Yielding(at[b])
OwnInv == \A b \in Actors : Own(b)

\* A token that a run does not hold does not come back to it, unless a verdict lands
\* twice.
LEMMA TokensLeave ==
  ASSUME ShapeInv, StampsInv, RowMoved, NEW b \in Actors, ~relanded'
  PROVE  /\ row.token # at[b].under \/ relanded => row'.token # at[b].under
         /\ row.token # at[b].seen.token \/ relanded => row'.token # at[b].seen.token
<1>1. Fresh # at[b].under.run /\ Fresh # at[b].seen.token.run BY FreshIsNew
<1>2. ASSUME NEW a \in Actors, at[a].pc \in Running, ~at[a].landed
      PROVE  at[b].under # Run(at[a].run) /\ at[b].seen.token # Run(at[a].run)
  BY <1>2 DEF StampsInv, Writing
<1> QED BY <1>1, <1>2 DEF RowMoved

\* A run that a step leaves alone.
LEMMA OwnRests ==
  ASSUME ShapeInv, StampsInv, RowMoved, NEW b \in Actors, Own(b), at'[b] = at[b]
  PROVE  Own(b)'
<1>1. \A r : RequeueRun(r) # Run(0) /\ RequeueRun(r).rq /\ RequeueRun(r).run = r
  BY DEF RequeueRun, Run
<1>2. Fresh # at[b].under.run BY FreshIsNew
<1>3. ASSUME NEW a \in Actors, at[a].pc = "commit", ~at[a].landed
      PROVE  at[b].under # Run(at[a].run) /\ at[b].seen.tested # at[a].now
  BY <1>3 DEF StampsInv, Writing, Dating, Running, Timing
<1>4. Keeping(at[b])' BY <1>1, <1>2, <1>3 DEF Own, Keeping, RowMoved
<1>5. Noticing(at[b])' BY <1>1, <1>3 DEF Own, Noticing, RowMoved
<1>6. Yielding(at[b])'
  <2>1. row'.exists => row.exists BY DEF RowMoved
  <2>2. CASE ~relanded' BY <2>1, <2>2, TokensLeave DEF Own, Yielding
  <2> QED BY <2>2 DEF Yielding
<1> QED BY <1>4, <1>5, <1>6 DEF Own

\* A run that has nothing to write.
LEMMA OwnOver ==
  ASSUME NEW b \in Actors, at'[b].pc \notin Running
  PROVE  Own(b)'
BY DEF Own, Keeping, Noticing, Yielding, Running

\* One run moves on and the others are left alone.
LEMMA OwnQuiet ==
  ASSUME ShapeInv, StampsInv, OwnInv, RowMoved, NEW a \in Actors, Own(a)',
         \A b \in Actors : b # a => at'[b] = at[b]
  PROVE  OwnInv'
BY OwnRests DEF OwnInv

\* A job is of the armed mode, so it may land over a promise.
LEMMA JobOwns ==
  ASSUME ShapeInv, ShapeInv', NEW w \in Workers PROVE Own(w)'
<1>1. w \in Actors /\ JobFits(at[w])' BY SidesApart DEF ShapeInv, ActorsFit, Fits
<1> QED BY <1>1 DEF JobFits, Own, Keeping, Noticing, Yielding

\* A step leaves every run with what it may still write.
LEMMA OwnStep ==
  ASSUME ShapeInv, StampsInv, LandedInv, OwnInv, ShapeInv', RowMoved, [Next]_vars
  PROVE  OwnInv'
<1>1. ASSUME NEW w \in Workers, Take(w) \/ Finish(w) \/ JobStep(w) PROVE OwnInv'
  <2>1. w \in Actors /\ Own(w)' BY SidesApart, JobOwns
  <2>2. CASE Take(w) \/ Finish(w)
    <3>1. OthersRest(w) BY <2>1, <2>2 DEF Take, Finish, Go, ShapeInv, ActorsFit, OthersRest
    <3> QED BY <2>1, <3>1, OwnQuiet DEF OthersRest
  <2>3. CASE JobStep(w) BY <2>1, <2>3, MovesAlone, OwnQuiet DEF AloneStep, OthersRest
  <2> QED BY <1>1, <2>2, <2>3
<1>2. ASSUME NEW a \in Actors, Probe(a) PROVE OwnInv'
  <2>1. /\ a \in Actors /\ at[a] \in Locals /\ at[a].pc = "probe" /\ row' = row /\ Own(a)
        /\ relanded' = relanded
    BY <1>2, SidesApart DEF ShapeInv, ActorsFit, Probe, At, OwnInv, ghosts
  <2>2. \A b \in Actors : b # a => at'[b] = at[b]
    BY <1>2 DEF Probe, Point, Go, ShapeInv, ActorsFit
  <2>3. ASSUME at'[a] = Close(at[a]) PROVE Own(a)' BY <2>1, <2>3, EndsCarried, OwnOver DEF Timing
  <2>4. ASSUME at'[a] # Close(at[a]) PROVE Own(a)'
    <3>0. \/ at'[a] = [at[a] EXCEPT !.pc = "stamp", !.stage = "stamp"]
          \/ \E o \in Outcomes : at'[a] = [at[a] EXCEPT !.pc = "commit", !.outcome = o]
      BY <1>2, <2>1, <2>4 DEF Probe, Go, ShapeInv, ActorsFit
    <3>1. /\ at'[a].op = at[a].op /\ at'[a].seen = at[a].seen /\ at'[a].under = at[a].under
          /\ at'[a].mode = at[a].mode /\ at'[a].overruled = at[a].overruled
          /\ at'[a].pc \in {"stamp", "commit"} BY <2>1, <3>0 DEF Locals
    <3> QED BY <2>1, <3>1 DEF Own, Keeping, Noticing, Yielding
  <2>9. Own(a)' BY <2>3, <2>4
  <2> QED BY <2>1, <2>2, <2>9, OwnQuiet
<1>3. ASSUME NEW a \in Actors,
             Commit(a) \/ Outage(a) \/ (a \in Admins /\ (EnqueueImported(a) \/ EditDemotes(a)))
      PROVE  OwnInv'
  <2>1. at[a] \in Locals BY DEF ShapeInv, ActorsFit
  <2>2. at'[a] \in {Close(at[a]), Fail(at[a]), Idle} /\ \A b \in Actors : b # a => at'[b] = at[b]
    BY <1>3 DEF Commit, Outage, EnqueueImported, EditDemotes, Go, ShapeInv, ActorsFit
  <2>3. Own(a)' BY <2>1, <2>2, EndsCarried, OwnOver DEF Timing
  <2> QED BY <2>2, <2>3, OwnQuiet
<1>4. ASSUME NEW a \in Admins, EnqueueImported(a) \/ EditDemotes(a) PROVE OwnInv'
  BY <1>3, <1>4, SidesApart
<1>5. ASSUME NEW a \in Actors, CommitMisses(a) PROVE OwnInv'
  <2>1. /\ a \in Actors /\ at[a] \in Locals /\ at[a].pc = "commit" /\ row' = row /\ Own(a)
        /\ relanded' = relanded
    BY <1>5, SidesApart DEF ShapeInv, ActorsFit, CommitMisses, At, OwnInv, ghosts
  <2>2. \A b \in Actors : b # a => at'[b] = at[b]
    BY <1>5 DEF CommitMisses, Point, Go, ShapeInv, ActorsFit
  <2>9. Own(a)'
    <3>0. at'[a] = [at[a] EXCEPT !.pc = "readback"]
      BY <1>5, <2>1 DEF CommitMisses, Point, Go, ShapeInv, ActorsFit
    <3>1. /\ at'[a].op = at[a].op /\ at'[a].seen = at[a].seen /\ at'[a].under = at[a].under
          /\ at'[a].mode = at[a].mode /\ at'[a].overruled = at[a].overruled
          /\ at'[a].pc \in {"readback"} BY <2>1, <3>0 DEF Locals
    <3> QED BY <2>1, <3>1 DEF Own, Keeping, Noticing, Yielding
  <2> QED BY <2>1, <2>2, <2>9, OwnQuiet
<1>6. ASSUME NEW a \in Actors, ReadBack(a) PROVE OwnInv'
  <2>1. /\ a \in Actors /\ at[a] \in Locals /\ at[a].pc = "readback" /\ row' = row /\ Own(a)
        /\ relanded' = relanded
    BY <1>6, SidesApart DEF ShapeInv, ActorsFit, ReadBack, At, OwnInv, ghosts
  <2>2. \A b \in Actors : b # a => at'[b] = at[b]
    BY <1>6 DEF ReadBack, Point, Go, ShapeInv, ActorsFit
  <2>3. \/ at'[a] \in {Close(at[a]), Fail(at[a])}
        \/ \E pc \in {"reread", "settled", "stamp", "recommit"} :
              at'[a] = [at[a] EXCEPT !.pc = pc]
    BY <1>6, <2>1 DEF ReadBack, Discarded, Go, ShapeInv, ActorsFit
  <2>4. ASSUME at'[a] \in {Close(at[a]), Fail(at[a])} PROVE Own(a)'
    BY <2>1, <2>4, EndsCarried, OwnOver DEF Timing
  <2>5. ASSUME at'[a] \notin {Close(at[a]), Fail(at[a])} PROVE Own(a)'
    <3>1. /\ at'[a].op = at[a].op /\ at'[a].seen = at[a].seen /\ at'[a].under = at[a].under
          /\ at'[a].mode = at[a].mode /\ at'[a].overruled = at[a].overruled
          /\ at'[a].pc \in {"reread", "settled", "stamp", "recommit"}
      BY <2>1, <2>3, <2>5 DEF Locals
    <3> QED BY <2>1, <3>1 DEF Own, Keeping, Noticing, Yielding
  <2>9. Own(a)' BY <2>4, <2>5
  <2> QED BY <2>1, <2>2, <2>9, OwnQuiet
<1>7. ASSUME NEW a \in Actors, CommitUnheard(a) PROVE OwnInv'
  <2> DEFINE l == at[a]
  <2>1. /\ l \in Locals /\ Fits(a, l) /\ l.pc = "commit" /\ Landed(l) /\ row.token = l.under
    BY <1>7 DEF ShapeInv, ActorsFit, Fits, CommitUnheard, At, LandedInv, Unmoved, Claim
  <2>2. l.outcome \in Outcomes BY <2>1, SidesApart DEF Fits, JobFits, RequestFits
  <2>3. /\ row'.token = Run(l.run) /\ row'.tested = l.now /\ (row'.armed => row.armed)
        /\ relanded' = (relanded \/ l.landed)
    <3>1. row' = Committed(row, Claim(l)) /\ relanded' = (relanded \/ l.landed)
      BY <1>7 DEF CommitUnheard, Land
    <3>2. StillArmed(row, Claim(l)) => row.armed BY DEF StillArmed
    <3> QED BY <2>1, <2>2, <3>1, <3>2, CommittedIs DEF ShapeInv
  <2>4. at'[a] = [l EXCEPT !.landed = TRUE] /\ \A b \in Actors : b # a => at'[b] = at[b]
    BY <1>7 DEF CommitUnheard, Go, ShapeInv, ActorsFit
  <2>5. at'[a].pc = "commit" /\ at'[a].under = l.under /\ at'[a].seen = l.seen
    BY <2>1, <2>4 DEF Locals
  <2>6. ~l.landed => l.under # Run(l.run) /\ l.seen.tested # l.now
    BY <2>1 DEF StampsInv, Writing, Dating, Running, Timing
  <2>7. row'.armed => ~l.landed BY <2>1, <2>3 DEF Landed
  <2>8. Own(a)' BY <2>3, <2>5, <2>6, <2>7 DEF Own, Keeping, Noticing, Yielding
  <2> QED BY <2>4, <2>8, OwnQuiet
<1>8. ASSUME NEW a \in Admins, EditWrites(a) PROVE OwnInv'
  <2> DEFINE l == at[a]
             disables == l.outcome = "off" /\ row.exists
             next == IF WorthProbing(l) THEN [l EXCEPT !.pc = "fresh"] ELSE Close(l)
             told == IF disables THEN SwitchedOff(row, l.now) ELSE row
  <2>1. /\ a \in Actors /\ l \in Locals /\ Fits(a, l) /\ l.pc = "write" /\ a \notin Workers
        /\ Own(a) BY <1>8, SidesApart DEF ShapeInv, ActorsFit, Fits, EditWrites, At, OwnInv
  <2>2. /\ l.now = l.run
        /\ row' = IF row.exists
                  THEN Renamed(told, l.name, l.name # l.seen.name, l.now) ELSE row
        /\ relanded' = (relanded /\ ~disables)
        /\ at' = [(IF disables THEN Overruled ELSE at) EXCEPT ![a] = next]
    BY <1>8, <2>1, SidesApart DEF EditWrites, Fits, RequestFits
  <2>3. CASE disables
    <3>1. at'[a] = Close(l)
      BY <2>1, <2>2, <2>3, OverruledFits DEF WorthProbing, ShapeInv, ActorsFit
    <3>2. Own(a)' BY <2>1, <3>1, EndsCarried, OwnOver DEF Timing
    <3>3. row'.token = Run(l.run) /\ row'.armed = FALSE
      BY <2>2, <2>3 DEF Renamed, SwitchedOff, ShapeInv, Rows
    <3>4. ASSUME NEW b \in Actors, b # a PROVE Own(b)'
      <4>1. /\ at'[b].pc = at[b].pc /\ at'[b].op = at[b].op /\ at'[b].seen = at[b].seen
            /\ at'[b].under = at[b].under
        BY <2>2, <2>3, <3>4, OverruledFits, OverruledKeeps DEF ShapeInv
      <4>2. at[b].under # Run(l.run) /\ at[b].seen.token # Run(l.run)
        BY <2>1 DEF StampsInv, Writing, Running, Fits
      <4> QED BY <3>3, <4>1, <4>2 DEF Own, Keeping, Noticing, Yielding
    <3> QED BY <3>2, <3>4 DEF OwnInv
  <2>4. CASE ~disables
    <3>1. at'[a] = next /\ \A b \in Actors : b # a => at'[b] = at[b]
      BY <2>1, <2>2, <2>4 DEF ShapeInv, ActorsFit
    <3>2. row'.token = row.token /\ row'.exists = row.exists /\ relanded' = relanded
      BY <2>2, <2>4 DEF Renamed, ShapeInv, Rows
    <3>3. CASE ~WorthProbing(l)
      <4>1. Own(a)' BY <2>1, <3>1, <3>3, EndsCarried, OwnOver DEF Timing
      <4> QED BY <2>1, <3>1, <4>1, OwnQuiet
    <3>4. CASE WorthProbing(l)
      <4>1. /\ at'[a].pc = "fresh" /\ at'[a].seen = l.seen /\ at'[a].overruled = l.overruled
        BY <2>1, <3>1, <3>4 DEF Locals
      <4>2. Own(a)' BY <2>1, <3>2, <4>1 DEF Own, Keeping, Noticing, Yielding
      <4> QED BY <2>1, <3>1, <4>2, OwnQuiet
    <3> QED BY <3>3, <3>4
  <2> QED BY <2>3, <2>4
<1>9. ASSUME NEW a \in Admins, EditReadsAgain(a) PROVE OwnInv'
  <2>1. /\ a \in Actors /\ at[a] \in Locals /\ at[a].pc = "fresh" /\ row' = row /\ Own(a)
        /\ relanded' = relanded
    BY <1>9, SidesApart DEF ShapeInv, ActorsFit, EditReadsAgain, At, OwnInv, ghosts
  <2>2. \A b \in Actors : b # a => at'[b] = at[b]
    BY <1>9 DEF EditReadsAgain, Point, Go, ShapeInv, ActorsFit
  <2> DEFINE l == at[a]
             seen == [Sight(row) EXCEPT !.enabled = l.seen.enabled]
             m == [l EXCEPT !.pc = "probe", !.mode = EditMode(l), !.under = row.token,
                            !.seen = seen]
  <2>3. at'[a] = Idle \/ at'[a] = m BY <1>9, <2>1 DEF EditReadsAgain, Go, ShapeInv, ActorsFit
  <2>4. ASSUME at'[a] = Idle PROVE Own(a)' BY <2>1, <2>4, EndsCarried, OwnOver DEF Timing
  <2>5. ASSUME at'[a] = m PROVE Own(a)'
    <3>1. /\ m.pc = "probe" /\ m.mode = EditMode(l) /\ m.under = row.token
          /\ m.seen.armed = row.armed /\ m.overruled = l.overruled BY <2>1, SightIs DEF Locals
    <3>2. row.armed => EditMode(l) = "armed" BY DEF EditMode
    <3>3. EditMode(l) = "explicit" => row.token = l.seen.token BY DEF EditMode
    <3> HIDE DEF m
    <3> QED BY <2>1, <2>5, <3>1, <3>2, <3>3 DEF Own, Keeping, Noticing, Yielding
  <2>9. Own(a)' BY <2>3, <2>4, <2>5
  <2> QED BY <2>1, <2>2, <2>9, OwnQuiet
<1>10. ASSUME NEW a \in Admins, Recommit(a) PROVE OwnInv'
  <2>1. /\ a \in Actors /\ at[a] \in Locals /\ at[a].pc = "recommit" /\ row' = row /\ Own(a)
        /\ relanded' = relanded
    BY <1>10, SidesApart DEF ShapeInv, ActorsFit, Recommit, At, OwnInv, ghosts
  <2>2. \A b \in Actors : b # a => at'[b] = at[b]
    BY <1>10 DEF Recommit, Point, Go, ShapeInv, ActorsFit
  <2> DEFINE l == at[a]
             mode == IF l.seen.armed THEN "armed" ELSE "plain"
             m == [l EXCEPT !.pc = "commit", !.stage = "recommit", !.under = row.token,
                            !.mode = mode, !.tries = @ + 1]
  <2>3. at'[a] = Close(l) \/ at'[a] = m BY <1>10, <2>1 DEF Recommit, Go, ShapeInv, ActorsFit
  <2>4. ASSUME at'[a] = Close(l) PROVE Own(a)' BY <2>1, <2>4, EndsCarried, OwnOver DEF Timing
  <2>5. ASSUME at'[a] = m /\ at'[a] # Close(l) PROVE Own(a)'
    <3>1. /\ m.pc = "commit" /\ m.op = l.op /\ m.seen = l.seen /\ m.mode = mode
          /\ m.overruled = l.overruled BY <2>1 DEF Locals
    <3>2. row.tested = l.seen.tested /\ ~row.token.rq
      BY <1>10, <2>1, <2>5 DEF Recommit, Go, ShapeInv, ActorsFit
    <3>3. l.op \in {"retest", "edit"}
      BY <2>1, SidesApart DEF ShapeInv, ActorsFit, Fits, JobFits, RequestFits
    <3>4. row.armed => l.seen.armed BY <2>1, <3>2, <3>3 DEF Own, Noticing
    <3> QED BY <2>1, <2>5, <3>1, <3>4 DEF Own, Keeping, Noticing, Yielding
  <2>9. Own(a)' BY <2>3, <2>4, <2>5
  <2> QED BY <2>1, <2>2, <2>9, OwnQuiet
<1>11. ASSUME NEW a \in Admins, EditReloads(a) PROVE OwnInv'
  <2>1. a \in Actors /\ at[a] \in Locals BY SidesApart DEF ShapeInv, ActorsFit
  <2>2. /\ at'[a] \in {Idle, [at[a] EXCEPT !.pc = "demote", !.seen = Sight(row)]}
        /\ \A b \in Actors : b # a => at'[b] = at[b]
    BY <1>11, <2>1 DEF EditReloads, Go, ShapeInv, ActorsFit
  <2>3. at'[a].pc \in {"idle", "demote"} BY <2>1, <2>2, IdleFits DEF Locals
  <2>4. Own(a)' BY <2>1, <2>3, OwnOver DEF Running
  <2> QED BY <2>1, <2>2, <2>4, OwnQuiet
<1>12. ASSUME NEW a \in Admins, Disable(a) PROVE OwnInv'
  <2>1. \A b \in Actors :
           /\ at'[b].pc = at[b].pc /\ at'[b].op = at[b].op /\ at'[b].seen = at[b].seen
           /\ at'[b].under = at[b].under BY <1>12, OverruledKeeps DEF Disable, ShapeInv
  <2>2. row'.token = Run(Fresh) /\ row'.armed = FALSE
    BY <1>12 DEF Disable, SwitchedOff, ShapeInv, Rows
  <2>3. \A b \in Actors : at[b].under # Run(Fresh) /\ at[b].seen.token # Run(Fresh)
    BY FreshIsNew DEF Run
  <2> QED BY <2>1, <2>2, <2>3 DEF OwnInv, Own, Keeping, Noticing, Yielding
<1>13. ASSUME NEW a \in Admins, Enable(a) \/ Reprice(a) \/ Delete(a) PROVE OwnInv'
  <2>1. at' = at BY <1>13 DEF Enable, Reprice, Delete
  <2> QED BY <2>1, OwnRests DEF OwnInv
<1>14. ASSUME NEW a \in Admins, Retest(a) PROVE OwnInv'
  <2>1. a \in Actors /\ row' = row BY <1>14, SidesApart DEF Retest
  <2> DEFINE mode == IF row.armed THEN "armed"
                     ELSE IF row.verified # "passed" THEN "explicit" ELSE "plain"
             m == Begin("retest", "probe", row, mode)
  <2>2. at'[a] = m /\ \A b \in Actors : b # a => at'[b] = at[b]
    BY <1>14, <2>1 DEF Retest, Go, ShapeInv, ActorsFit
  <2>3. mode \in Modes /\ (row.armed => mode = "armed") BY DEF Modes
  <2> HIDE DEF mode
  <2>4. /\ m.pc = "probe" /\ m.mode = mode /\ m.overruled = FALSE /\ m.seen = Sight(row)
    BY <2>3, BeginFits, Zenon DEF Opened
  <2> HIDE DEF m
  <2>5. m.seen.armed = row.armed BY <2>4, SightIs
  <2>9. Own(a)' BY <2>1, <2>2, <2>3, <2>4, <2>5 DEF Own, Keeping, Noticing, Yielding
  <2> QED BY <2>1, <2>2, <2>9, OwnQuiet
<1>15. ASSUME NEW a \in Admins, NEW priced \in BOOLEAN, Requeue(a, priced) PROVE OwnInv'
  <2>1. a \in Actors BY SidesApart
  <2>2. at'[a].pc = "enqueue" /\ \A b \in Actors : b # a => at'[b] = at[b]
    BY <1>15, <2>1 DEF Requeue, Go, ShapeInv, ActorsFit, Idle
  <2>3. Own(a)' BY <2>1, <2>2, OwnOver DEF Running
  <2> QED BY <2>1, <2>2, <2>3, OwnQuiet
<1>16. ASSUME NEW a \in Admins, NEW name \in Names, NEW status \in Asked, Edit(a, name, status)
      PROVE  OwnInv'
  <2>1. a \in Actors /\ row' = row BY <1>16, SidesApart DEF Edit
  <2> DEFINE l == Begin("edit", "write", row, "plain")
             m == [l EXCEPT !.name = name, !.outcome = status]
  <2>2. at'[a] = m /\ \A b \in Actors : b # a => at'[b] = at[b]
    BY <1>16, <2>1 DEF Edit, Go, ShapeInv, ActorsFit
  <2>3. "plain" \in Modes /\ "edit" \in {"retest", "edit"} /\ "write" \in {"probe", "write"}
    BY DEF Modes
  <2>4. l \in Locals /\ l.pc = "write" /\ l.overruled = FALSE BY <2>3, BeginFits, Zenon DEF Opened
  <2> HIDE DEF l
  <2>5. m.pc = "write" /\ m.overruled = FALSE BY <2>4 DEF Locals
  <2> HIDE DEF m
  <2>9. Own(a)' BY <2>2, <2>5 DEF Own, Keeping, Noticing, Yielding
  <2> QED BY <2>1, <2>2, <2>9, OwnQuiet
<1>17. CASE RetryFires BY <1>17, OwnRests DEF RetryFires, OwnInv
<1>18. CASE RecoverLists BY <1>18, OwnRests DEF RecoverLists, OwnInv
<1>19. CASE RecoverEnqueues BY <1>19, OwnRests DEF RecoverEnqueues, OwnInv
<1>20. CASE Crash BY <1>20, IdleFits, OwnOver DEF Crash, OwnInv, Running
<1>21. CASE UNCHANGED vars BY <1>21, OwnRests DEF vars, OwnInv
<1> QED BY <1>1, <1>2, <1>3, <1>4, <1>5, <1>6, <1>7, <1>8, <1>9, <1>10, <1>11, <1>12, <1>13,
     <1>14, <1>15, <1>16, <1>17, <1>18, <1>19, <1>20, <1>21 DEF Next, Goes, Work, Verify, Serve,
     Ask, Recover, Trouble, Asked, JobStep

----------------------------------------
(* A disable stands. *)

\* A mapping that is promised to be on was not told to be off since, and one that is on
\* neither, unless a verdict landed twice.
OffInv == (row.armed => ~off) /\ (row.enabled => ~off \/ relanded)

\* Nothing else turns a mapping on that was told to be off.
LEMMA OffStep ==
  ASSUME ShapeInv, OwnInv, OffInv, [Next]_vars
  PROVE  OffInv'
<1>1. ASSUME NEW w \in Workers, Take(w) PROVE OffInv' BY <1>1 DEF Take, OffInv, ghosts
<1>2. ASSUME NEW w \in Workers, JobRead(w) PROVE OffInv'
  BY <1>2 DEF JobRead, OffInv, ghosts, Drop, Continue, Attempt
<1>3. ASSUME NEW w \in Workers, Fulfill(w) PROVE OffInv'
  <2>1. /\ row.armed /\ row'.armed = FALSE /\ off' = off /\ relanded' = relanded
    BY <1>3 DEF Fulfill, MayFulfill, Fulfilled, ghosts, ShapeInv, Rows
  <2> QED BY <2>1 DEF OffInv
<1>4. ASSUME NEW w \in Workers, FulfillMisses(w) PROVE OffInv'
  BY <1>4 DEF FulfillMisses, OffInv, ghosts, Continue
<1>5. ASSUME NEW w \in Workers, Refetch(w) PROVE OffInv'
  BY <1>5 DEF Refetch, OffInv, ghosts, Drop, Attempt
<1>6. ASSUME NEW w \in Workers, Reread(w) PROVE OffInv'
  BY <1>6 DEF Reread, OffInv, ghosts, Drop, Return, Attempt
<1>7. ASSUME NEW w \in Workers, Settled(w) PROVE OffInv'
  BY <1>7 DEF Settled, OffInv, ghosts, Drop, Return
<1>8. ASSUME NEW w \in Workers, Stamp(w) PROVE OffInv' BY <1>8 DEF Stamp, OffInv, ghosts, Drop
<1>9. ASSUME NEW w \in Workers, Finish(w) PROVE OffInv' BY <1>9 DEF Finish, OffInv, ghosts
<1>10. ASSUME NEW a \in Actors, Probe(a) PROVE OffInv' BY <1>10 DEF Probe, OffInv, ghosts
<1>11. ASSUME NEW a \in Actors, Commit(a) \/ CommitUnheard(a) PROVE OffInv'
  <2> DEFINE l == at[a]
             c == Claim(l)
  <2>1. /\ l \in Locals /\ l.pc = "commit" /\ Fits(a, l) /\ Own(a)
    BY <1>11 DEF ShapeInv, ActorsFit, Commit, CommitUnheard, At, Fits, OwnInv
  <2>2. l.outcome \in Outcomes BY <2>1, SidesApart DEF Fits, JobFits, RequestFits
  <2>3. /\ row.exists /\ row.token = l.under
        /\ row' = Committed(row, c) /\ relanded' = (relanded \/ l.landed)
        /\ off' = (off /\ ~(Enables(row, c) /\ c.mode = "explicit" /\ ~l.overruled))
    BY <1>11 DEF Commit, CommitUnheard, Land, Unmoved, Claim
  <2>4. StillArmed(row, c) => row.armed BY DEF StillArmed
  <2>5. (row'.enabled => row.enabled \/ Enables(row, c)) /\ (row'.armed => row.armed)
    BY <2>1, <2>2, <2>3, <2>4, CommittedIs DEF ShapeInv
  <2>6. Enables(row, c) /\ c.mode # "explicit" => row.armed BY DEF Enables
  <2>7. c.mode = l.mode BY DEF Claim
  <2>8. c.mode = "explicit" => ~l.overruled \/ relanded
    BY <2>1, <2>3, <2>7 DEF Own, Yielding
  <2> HIDE DEF c
  <2> QED BY <2>3, <2>5, <2>6, <2>8 DEF OffInv
<1>12. ASSUME NEW a \in Actors, CommitMisses(a) PROVE OffInv'
  BY <1>12 DEF CommitMisses, OffInv, ghosts
<1>13. ASSUME NEW a \in Actors, ReadBack(a) PROVE OffInv' BY <1>13 DEF ReadBack, OffInv, ghosts
<1>15. ASSUME NEW a \in Actors, Outage(a) PROVE OffInv' BY <1>15 DEF Outage, OffInv, ghosts
<1>16. ASSUME NEW a \in Admins, EnqueueImported(a) PROVE OffInv'
  BY <1>16 DEF EnqueueImported, OffInv, ghosts
<1>17. ASSUME NEW a \in Admins, EditWrites(a) PROVE OffInv'
  <2> DEFINE l == at[a]
             disables == l.outcome = "off" /\ row.exists
             told == IF disables THEN SwitchedOff(row, l.now) ELSE row
  <2>1. /\ row' = IF row.exists
                  THEN Renamed(told, l.name, l.name # l.seen.name, l.now) ELSE row
        /\ off' = (off \/ disables) /\ relanded' = (relanded /\ ~disables) BY <1>17 DEF EditWrites
  <2>2. CASE disables
    <3>1. row'.enabled = FALSE /\ row'.armed = FALSE
      BY <2>1, <2>2 DEF Renamed, SwitchedOff, ShapeInv, Rows
    <3> QED BY <3>1 DEF OffInv
  <2>3. CASE ~disables
    <3>1. (row'.enabled => row.enabled) /\ (row'.armed => row.armed)
      BY <2>1, <2>3 DEF Renamed, ShapeInv, Rows
    <3> QED BY <2>1, <2>3, <3>1 DEF OffInv
  <2> QED BY <2>2, <2>3
<1>18. ASSUME NEW a \in Admins, EditReadsAgain(a) PROVE OffInv'
  BY <1>18 DEF EditReadsAgain, OffInv, ghosts
<1>19. ASSUME NEW a \in Admins, Recommit(a) PROVE OffInv' BY <1>19 DEF Recommit, OffInv, ghosts
<1>20. ASSUME NEW a \in Admins, EditReloads(a) PROVE OffInv'
  BY <1>20 DEF EditReloads, OffInv, ghosts
<1>21. ASSUME NEW a \in Admins, EditDemotes(a) PROVE OffInv'
  <2>1. /\ (row'.enabled => row.enabled) /\ (row'.armed => row.armed) /\ off' = off
        /\ relanded' = relanded
    BY <1>21 DEF EditDemotes, Repriced, Renamed, Demoted, ghosts, ShapeInv, Rows
  <2> QED BY <2>1 DEF OffInv
<1>22. ASSUME NEW a \in Admins, Disable(a) PROVE OffInv'
  <2>1. row'.enabled = FALSE /\ row'.armed = FALSE
    BY <1>22 DEF Disable, SwitchedOff, ShapeInv, Rows
  <2> QED BY <2>1 DEF OffInv
<1>23. ASSUME NEW a \in Admins, Enable(a) PROVE OffInv' BY <1>23 DEF Enable, OffInv
<1>24. ASSUME NEW a \in Admins, Reprice(a) PROVE OffInv'
  <2>1. /\ (row'.enabled => row.enabled) /\ (row'.armed => row.armed) /\ off' = off
        /\ relanded' = relanded
    BY <1>24 DEF Reprice, Repriced, Renamed, Demoted, ghosts, ShapeInv, Rows
  <2> QED BY <2>1 DEF OffInv
<1>25. ASSUME NEW a \in Admins, Delete(a) PROVE OffInv'
  <2>1. /\ (row'.enabled => row.enabled) /\ (row'.armed => row.armed) /\ off' = off
        /\ relanded' = relanded
    BY <1>25 DEF Delete, Repriced, Renamed, Demoted, ghosts, ShapeInv, Rows
  <2> QED BY <2>1 DEF OffInv
<1>26. ASSUME NEW a \in Admins, Retest(a) PROVE OffInv' BY <1>26 DEF Retest, OffInv, ghosts
<1>27. ASSUME NEW a \in Admins, NEW priced \in BOOLEAN, Requeue(a, priced) PROVE OffInv'
  <2>1. /\ row'.enabled = row.enabled /\ row'.armed = priced /\ off' = (off /\ ~priced)
        /\ relanded' = relanded
    BY <1>27 DEF Requeue, Requeued, ShapeInv, Rows
  <2> QED BY <2>1 DEF OffInv
<1>28. ASSUME NEW a \in Admins, NEW name \in Names, NEW status \in Asked, Edit(a, name, status)
      PROVE  OffInv' BY <1>28 DEF Edit, OffInv, ghosts
<1>29. CASE RetryFires BY <1>29 DEF RetryFires, OffInv, ghosts
<1>30. CASE RecoverLists BY <1>30 DEF RecoverLists, OffInv, ghosts
<1>31. CASE RecoverEnqueues BY <1>31 DEF RecoverEnqueues, OffInv, ghosts
<1>32. CASE Crash BY <1>32 DEF Crash, OffInv, ghosts
<1>33. CASE UNCHANGED vars BY <1>33 DEF vars, ghosts, OffInv
<1> QED BY <1>1, <1>2, <1>3, <1>4, <1>5, <1>6, <1>7, <1>8, <1>9, <1>10, <1>11, <1>12,
     <1>13, <1>15, <1>16, <1>17, <1>18, <1>19, <1>20, <1>21, <1>22, <1>23, <1>24,
     <1>25, <1>26, <1>27, <1>28, <1>29, <1>30, <1>31, <1>32, <1>33 DEF Next, Goes, Work,
     Verify, Serve, Ask, Recover, Trouble, Asked

----------------------------------------
(* A verdict is of the name the row points at. *)

\* A retarget takes the verification with it, a verdict lands on its name, and an edit
\* that writes its name over another strays.
LEMMA VerdictStep ==
  ASSUME ShapeInv, VerdictIsOfTarget, [Next]_vars
  PROVE  VerdictIsOfTarget'
<1>1. ASSUME NEW w \in Workers, Take(w) PROVE VerdictIsOfTarget'
  BY <1>1 DEF Take, Arrives, VerdictIsOfTarget, VerdictIsOfName, ghosts
<1>2. ASSUME NEW w \in Workers, JobRead(w) PROVE VerdictIsOfTarget'
  BY <1>2 DEF JobRead, Arrives, VerdictIsOfTarget, VerdictIsOfName, ghosts, Drop, Continue, Attempt
<1>3. ASSUME NEW w \in Workers, Fulfill(w) PROVE VerdictIsOfTarget'
  <2>1. /\ row'.name = row.name /\ row'.verified = row.verified /\ earned' = earned
        /\ strayed' = strayed
    BY <1>3 DEF Fulfill, Arrives, SwitchedOff, SwitchedOn, Repriced, Renamed, Fulfilled,
       Demoted, Requeued,
             ghosts, ShapeInv, Rows
  <2> QED BY <2>1 DEF VerdictIsOfTarget, VerdictIsOfName
<1>4. ASSUME NEW w \in Workers, FulfillMisses(w) PROVE VerdictIsOfTarget'
  BY <1>4 DEF FulfillMisses, Arrives, VerdictIsOfTarget, VerdictIsOfName, ghosts, Continue
<1>5. ASSUME NEW w \in Workers, Refetch(w) PROVE VerdictIsOfTarget'
  BY <1>5 DEF Refetch, Arrives, VerdictIsOfTarget, VerdictIsOfName, ghosts, Drop, Attempt
<1>6. ASSUME NEW w \in Workers, Reread(w) PROVE VerdictIsOfTarget'
  BY <1>6 DEF Reread, Arrives, VerdictIsOfTarget, VerdictIsOfName, ghosts, Drop, Return, Attempt
<1>7. ASSUME NEW w \in Workers, Settled(w) PROVE VerdictIsOfTarget'
  BY <1>7 DEF Settled, Arrives, VerdictIsOfTarget, VerdictIsOfName, ghosts, Drop, Return
<1>8. ASSUME NEW w \in Workers, Stamp(w) PROVE VerdictIsOfTarget'
  BY <1>8 DEF Stamp, Arrives, VerdictIsOfTarget, VerdictIsOfName, ghosts, Drop
<1>9. ASSUME NEW w \in Workers, Finish(w) PROVE VerdictIsOfTarget'
  BY <1>9 DEF Finish, Arrives, VerdictIsOfTarget, VerdictIsOfName, ghosts
<1>10. ASSUME NEW a \in Actors, Probe(a) PROVE VerdictIsOfTarget'
  BY <1>10 DEF Probe, Arrives, VerdictIsOfTarget, VerdictIsOfName, ghosts
<1>11. ASSUME NEW a \in Actors, Commit(a) \/ CommitUnheard(a) PROVE VerdictIsOfTarget'
  <2>1. /\ at[a] \in Locals /\ at[a].pc = "commit" /\ Fits(a, at[a])
    BY <1>11 DEF ShapeInv, ActorsFit, Commit, CommitUnheard, At, Fits
  <2>2. at[a].outcome \in Outcomes BY <2>1, SidesApart DEF Fits, JobFits, RequestFits
  <2>3. /\ row.name = at[a].name /\ row' = Committed(row, Claim(at[a]))
        /\ earned' = IF at[a].outcome = "passed" THEN at[a].name ELSE earned
        /\ strayed' = (strayed /\ at[a].outcome = "inconclusive")
    BY <1>11 DEF Commit, CommitUnheard, Land, Unmoved, Claim
  <2>4. /\ row'.name = row.name
        /\ row'.verified = IF at[a].outcome = "inconclusive"
                           THEN row.verified ELSE at[a].outcome
    BY <2>1, <2>2, <2>3, CommittedIs DEF ShapeInv
  <2> QED BY <2>3, <2>4 DEF VerdictIsOfTarget, VerdictIsOfName
<1>12. ASSUME NEW a \in Actors, CommitMisses(a) PROVE VerdictIsOfTarget'
  BY <1>12 DEF CommitMisses, Arrives, VerdictIsOfTarget, VerdictIsOfName, ghosts
<1>13. ASSUME NEW a \in Actors, ReadBack(a) PROVE VerdictIsOfTarget'
  BY <1>13 DEF ReadBack, Arrives, VerdictIsOfTarget, VerdictIsOfName, ghosts
<1>15. ASSUME NEW a \in Actors, Outage(a) PROVE VerdictIsOfTarget'
  BY <1>15 DEF Outage, Arrives, VerdictIsOfTarget, VerdictIsOfName, ghosts
<1>16. ASSUME NEW a \in Admins, EnqueueImported(a) PROVE VerdictIsOfTarget'
  BY <1>16 DEF EnqueueImported, Arrives, VerdictIsOfTarget, VerdictIsOfName, ghosts
<1>17. ASSUME NEW a \in Admins, EditWrites(a) PROVE VerdictIsOfTarget'
  <2> DEFINE l == at[a]
             disables == l.outcome = "off" /\ row.exists
             retargeted == l.name # l.seen.name
             told == IF disables THEN SwitchedOff(row, l.now) ELSE row
  <2>1. /\ row' = IF row.exists THEN Renamed(told, l.name, retargeted, l.now) ELSE row
        /\ strayed' = IF row.exists
                      THEN ~retargeted /\ (strayed \/ row.name # l.name) ELSE strayed
        /\ earned' = earned BY <1>17 DEF EditWrites
  <2>2. CASE row.exists
    <3>1. /\ row'.name = l.name
          /\ row'.verified = IF retargeted THEN "untested" ELSE row.verified
      BY <2>1, <2>2 DEF Renamed, SwitchedOff, ShapeInv, Rows
    <3> QED BY <2>1, <2>2, <3>1 DEF VerdictIsOfTarget, VerdictIsOfName
  <2>3. CASE ~row.exists BY <2>1, <2>3 DEF VerdictIsOfTarget, VerdictIsOfName
  <2> QED BY <2>2, <2>3
<1>18. ASSUME NEW a \in Admins, EditReadsAgain(a) PROVE VerdictIsOfTarget'
  BY <1>18 DEF EditReadsAgain, Arrives, VerdictIsOfTarget, VerdictIsOfName, ghosts
<1>19. ASSUME NEW a \in Admins, Recommit(a) PROVE VerdictIsOfTarget'
  BY <1>19 DEF Recommit, Arrives, VerdictIsOfTarget, VerdictIsOfName, ghosts
<1>20. ASSUME NEW a \in Admins, EditReloads(a) PROVE VerdictIsOfTarget'
  BY <1>20 DEF EditReloads, Arrives, VerdictIsOfTarget, VerdictIsOfName, ghosts
<1>21. ASSUME NEW a \in Admins, EditDemotes(a) PROVE VerdictIsOfTarget'
  <2>1. /\ row'.name = row.name /\ row'.verified = row.verified /\ earned' = earned
        /\ strayed' = strayed
    BY <1>21 DEF EditDemotes, Arrives, SwitchedOff, SwitchedOn, Repriced, Renamed,
       Fulfilled, Demoted, Requeued,
             ghosts, ShapeInv, Rows
  <2> QED BY <2>1 DEF VerdictIsOfTarget, VerdictIsOfName
<1>22. ASSUME NEW a \in Admins, Disable(a) PROVE VerdictIsOfTarget'
  <2>1. /\ row'.name = row.name /\ row'.verified = row.verified /\ earned' = earned
        /\ strayed' = strayed
    BY <1>22 DEF Disable, Arrives, SwitchedOff, SwitchedOn, Repriced, Renamed, Fulfilled,
       Demoted, Requeued,
             ghosts, ShapeInv, Rows
  <2> QED BY <2>1 DEF VerdictIsOfTarget, VerdictIsOfName
<1>23. ASSUME NEW a \in Admins, Enable(a) PROVE VerdictIsOfTarget'
  <2>1. /\ row'.name = row.name /\ row'.verified = row.verified /\ earned' = earned
        /\ strayed' = strayed
    BY <1>23 DEF Enable, Arrives, SwitchedOff, SwitchedOn, Repriced, Renamed, Fulfilled,
       Demoted, Requeued,
             ghosts, ShapeInv, Rows
  <2> QED BY <2>1 DEF VerdictIsOfTarget, VerdictIsOfName
<1>24. ASSUME NEW a \in Admins, Reprice(a) PROVE VerdictIsOfTarget'
  <2>1. /\ row'.name = row.name /\ row'.verified = row.verified /\ earned' = earned
        /\ strayed' = strayed
    BY <1>24 DEF Reprice, Arrives, SwitchedOff, SwitchedOn, Repriced, Renamed, Fulfilled,
       Demoted, Requeued,
             ghosts, ShapeInv, Rows
  <2> QED BY <2>1 DEF VerdictIsOfTarget, VerdictIsOfName
<1>25. ASSUME NEW a \in Admins, Delete(a) PROVE VerdictIsOfTarget'
  <2>1. /\ row'.name = row.name /\ row'.verified = row.verified /\ earned' = earned
        /\ strayed' = strayed
    BY <1>25 DEF Delete, Arrives, SwitchedOff, SwitchedOn, Repriced, Renamed, Fulfilled,
       Demoted, Requeued,
             ghosts, ShapeInv, Rows
  <2> QED BY <2>1 DEF VerdictIsOfTarget, VerdictIsOfName
<1>26. ASSUME NEW a \in Admins, Retest(a) PROVE VerdictIsOfTarget'
  BY <1>26 DEF Retest, Arrives, VerdictIsOfTarget, VerdictIsOfName, ghosts
<1>27. ASSUME NEW a \in Admins, NEW priced \in BOOLEAN, Requeue(a, priced)
      PROVE  VerdictIsOfTarget'
  <2>1. row'.verified = "untested"
    BY <1>27 DEF Requeue, MayRequeue, Requeued, ShapeInv, Rows
  <2> QED BY <2>1 DEF VerdictIsOfTarget, VerdictIsOfName
<1>28. ASSUME NEW a \in Admins, NEW name \in Names, NEW status \in Asked, Edit(a, name, status)
      PROVE  VerdictIsOfTarget' BY <1>28 DEF Edit, Arrives, VerdictIsOfTarget, VerdictIsOfName, ghosts
<1>29. CASE RetryFires BY <1>29 DEF RetryFires, VerdictIsOfTarget, VerdictIsOfName, ghosts
<1>30. CASE RecoverLists BY <1>30 DEF RecoverLists, VerdictIsOfTarget, VerdictIsOfName, ghosts
<1>31. CASE RecoverEnqueues BY <1>31 DEF RecoverEnqueues, VerdictIsOfTarget, VerdictIsOfName, ghosts
<1>32. CASE Crash BY <1>32 DEF Crash, VerdictIsOfTarget, VerdictIsOfName, ghosts
<1>33. CASE UNCHANGED vars BY <1>33 DEF vars, ghosts, VerdictIsOfTarget, VerdictIsOfName
<1> QED BY <1>1, <1>2, <1>3, <1>4, <1>5, <1>6, <1>7, <1>8, <1>9, <1>10, <1>11, <1>12,
     <1>13, <1>15, <1>16, <1>17, <1>18, <1>19, <1>20, <1>21, <1>22, <1>23, <1>24,
     <1>25, <1>26, <1>27, <1>28, <1>29, <1>30, <1>31, <1>32, <1>33 DEF Next, Goes, Work,
     Verify, Serve, Ask, Recover, Trouble, Asked

----------------------------------------
(* Debts. *)

\* The two ways to be owed: an enable that was promised, and a first probe.
Promised == row.exists /\ row.armed /\ row.verified = "passed" /\ ~row.enabled
Waiting == row.exists /\ row.owed /\ Unstamped(row)

\* A row is owed something where a promise is open or a first probe waits.
LEMMA OwedIs == Owed(row) <=> Promised \/ Waiting
BY DEF Owed, Promised, Waiting

\* Someone other than the job that runs will come to the mapping.
Expected ==
  \/ boot # "recovered" \/ timers > 0 \/ queue.fifo > 0 \/ queue.rerun
  \/ \E a \in Admins : At(a, "enqueue")

\* A job that read the row, and the row as it reads.
Past == {"probe", "commit", "readback", "reread", "settled", "stamp"}
Same(w) == row.token = at[w].seen.token /\ row.tested = at[w].seen.tested
/\ row.name = at[w].name

\* No job is past its read of a row whose promise is open; one past its read of a row
\* that waits knows that row, unless someone else will come; and no debt is forgotten.
\* Of a row that waits only where no edit strayed.
DebtInv ==
  /\ Promised => Held /\ \A w \in Workers : at[w].pc \notin Past \cup {"refetch"}
  /\ Waiting /\ ~strayed =>
        Held /\ (Expected \/ \A w \in Workers : at[w].pc \in Past => Same(w))

\* A mapping is held by whoever is expected, or by a job that runs.
LEMMA HeldIs == Held <=> Expected \/ \E w \in Workers : at[w].pc \notin {"idle", "done"}
BY DEF Held, Expected

\* What becomes of a job in a step.
Discharged(w) ==
  \/ ~Promised' /\ ~Waiting'
  \/ at[w].pc \in Past \cup {"refetch"} /\ ~Waiting'
  \/ at[w].pc \in Past /\ row' = row /\ ~Same(w)
WorkerMoved(w) ==
  \/ at'[w].pc = at[w].pc /\ at'[w].seen = at[w].seen /\ at'[w].name = at[w].name
  \/ at[w].pc = "idle" /\ at'[w].pc = "read"
  \/ at[w].pc = "done" /\ at'[w].pc = "idle"
  \/ at[w].pc = "retry" /\ at'[w].pc = "idle" /\ timers' > 0
  \/ at'[w].pc = "idle" /\ boot' = "listing"
  \/ at[w].pc # "idle" /\ at'[w].pc = "retry"
  \/ at[w].pc = "read" /\ at'[w].pc = "fulfill"
  \/ at[w].pc = "fulfill" /\ at'[w].pc = "refetch" /\ row' = row /\ ~MayFulfill(row)
  \/ /\ at[w].pc \in {"read", "refetch", "reread"} /\ at'[w].pc = "probe"
     /\ row' = row /\ row.verified # "passed"
     /\ at'[w].seen = Sight(row) /\ at'[w].name = row.name
  \/ /\ at[w].pc \in Past /\ at'[w].pc \in Past
     /\ at'[w].seen = at[w].seen /\ at'[w].name = at[w].name
  \/ at[w].pc # "idle" /\ at'[w].pc = "done" /\ Discharged(w)
WorkersMoved == \A w \in Workers : WorkerMoved(w)

\* Only one actor moves.
LEMMA OneGoesOn ==
  ASSUME NEW a \in Actors, \A b \in Actors : b # a => at'[b] = at[b],
         a \in Workers => WorkerMoved(a)
  PROVE  WorkersMoved
BY SidesApart DEF WorkersMoved, WorkerMoved

\* No actor moves.
LEMMA AllRest ==
  ASSUME \A b \in Actors : at'[b].pc = at[b].pc /\ at'[b].seen = at[b].seen
                           /\ at'[b].name = at[b].name
  PROVE  WorkersMoved
BY SidesApart DEF WorkersMoved, WorkerMoved

\* A job that takes the row it reads.
LEMMA JobAttempts ==
  ASSUME ShapeInv, NEW w \in Workers, at[w].op = "job",
         at[w].pc \in {"read", "refetch", "reread"}, row.verified # "passed",
         NEW stage \in {"first", "again"}, Attempt(w, stage)
  PROVE  WorkerMoved(w)
BY AttemptFits DEF WorkerMoved

\* A job that ends, or goes to be tried again.
LEMMA JobEnds ==
  ASSUME NEW w \in Workers, at[w].op = "job", at[w].pc # "idle",
         \/ at'[w] = Fail(at[w])
         \/ at'[w] = Close(at[w]) /\ Discharged(w)
  PROVE  WorkerMoved(w)
BY EndsWhere DEF WorkerMoved

\* What every step does to every job.
LEMMA WorkersMove ==
  ASSUME ShapeInv, StampsInv, [Next]_vars
  PROVE  WorkersMoved
<1>1. ASSUME NEW w \in Workers, Take(w) PROVE WorkersMoved
  <2>1. /\ w \in Actors /\ at[w] \in Locals /\ Fits(w, at[w])
        /\ \A b \in Actors : b # w => at'[b] = at[b]
    BY <1>1, SidesApart DEF ShapeInv, ActorsFit, Fits, Take, Go
  <2>2. at[w].pc = "idle"
        /\ at'[w] = [Idle EXCEPT !.op = "job", !.pc = "read", !.now = Fresh]
    BY <1>1, <2>1 DEF Take, At, Go, ShapeInv, ActorsFit
  <2>3. at'[w].pc = "read" BY <2>2 DEF Idle
  <2>9. WorkerMoved(w) BY <2>2, <2>3 DEF WorkerMoved
  <2> QED BY <2>1, <2>9, OneGoesOn
<1>2. ASSUME NEW w \in Workers, JobRead(w) PROVE WorkersMoved
  <2>1. /\ w \in Actors /\ at[w] \in Locals /\ Fits(w, at[w])
        /\ \A b \in Actors : b # w => at'[b] = at[b]
    BY <1>2, SidesApart DEF ShapeInv, ActorsFit, Fits, JobRead, Go, Drop, Continue, Point, Attempt
  <2>2. at[w].op = "job" /\ at[w].pc = "read" BY <1>2, <2>1 DEF JobRead, At, Fits, JobFits
  <2>3. CASE Drop(w) /\ ~Promised /\ ~Waiting
    <3>1. at'[w] = Close(at[w]) /\ row' = row BY <2>1, <2>3 DEF Drop, Go, ShapeInv, ActorsFit
    <3>2. Discharged(w) BY <2>3, <3>1 DEF Discharged, Promised, Waiting
    <3>3. WorkerMoved(w) BY <2>2, <3>1, <3>2, JobEnds
    <3> QED BY <2>1, <3>3, OneGoesOn
  <2>4. CASE row.verified # "passed" /\ Attempt(w, "first")
    <3>1. WorkerMoved(w) BY <2>2, <2>4, JobAttempts
    <3> QED BY <2>1, <3>1, OneGoesOn
  <2>5. CASE Continue(w, "fulfill")
    <3>1. at'[w].pc = "fulfill" BY <2>1, <2>5 DEF Continue, Point, Go, ShapeInv, ActorsFit, Locals
    <3>2. WorkerMoved(w) BY <2>2, <3>1 DEF WorkerMoved
    <3> QED BY <2>1, <3>2, OneGoesOn
  <2>6. (~row.exists \/ NoDebt(row)) => ~Promised /\ ~Waiting
    BY DEF NoDebt, Promised, Waiting, Unstamped
  <2>7. (row.verified = "passed" /\ ~row.armed) => ~Promised /\ ~Waiting
    BY DEF Promised, Waiting, Unstamped
  <2>8. (Drop(w) /\ ~Promised /\ ~Waiting) \/ (row.verified # "passed"
        /\ Attempt(w, "first"))
        \/ Continue(w, "fulfill") BY <1>2, <2>6, <2>7 DEF JobRead
  <2> QED BY <2>3, <2>4, <2>5, <2>8
<1>3. ASSUME NEW w \in Workers, Fulfill(w) PROVE WorkersMoved
  <2>1. /\ w \in Actors /\ at[w] \in Locals /\ Fits(w, at[w])
        /\ \A b \in Actors : b # w => at'[b] = at[b]
    BY <1>3, SidesApart DEF ShapeInv, ActorsFit, Fits, Fulfill, Go
  <2>2. at[w].op = "job" /\ at[w].pc = "fulfill" BY <1>3, <2>1 DEF Fulfill, At, Fits, JobFits
  <2>3. at'[w] = Close(at[w]) BY <1>3, <2>1 DEF Fulfill, Go, ShapeInv, ActorsFit
  <2>4. row'.armed = FALSE /\ row'.verified = "passed"
    BY <1>3 DEF Fulfill, MayFulfill, Fulfilled, ShapeInv, Rows
  <2>5. Discharged(w) BY <2>4 DEF Discharged, Promised, Waiting, Unstamped
  <2>9. WorkerMoved(w) BY <2>2, <2>3, <2>5, JobEnds
  <2> QED BY <2>1, <2>9, OneGoesOn
<1>4. ASSUME NEW w \in Workers, FulfillMisses(w) PROVE WorkersMoved
  <2>1. /\ w \in Actors /\ at[w] \in Locals /\ Fits(w, at[w])
        /\ \A b \in Actors : b # w => at'[b] = at[b]
    BY <1>4, SidesApart DEF ShapeInv, ActorsFit, Fits, FulfillMisses, Go, Continue, Point
  <2>2. at[w].op = "job" /\ at[w].pc = "fulfill"
    BY <1>4, <2>1 DEF FulfillMisses, At, Fits, JobFits
  <2>3. at'[w].pc = "refetch" /\ row' = row
    BY <1>4, <2>1 DEF FulfillMisses, Continue, Point, Go, ShapeInv, ActorsFit, Locals
  <2>9. WorkerMoved(w) BY <1>4, <2>2, <2>3 DEF WorkerMoved, FulfillMisses
  <2> QED BY <2>1, <2>9, OneGoesOn
<1>5. ASSUME NEW w \in Workers, Refetch(w) PROVE WorkersMoved
  <2>1. /\ w \in Actors /\ at[w] \in Locals /\ Fits(w, at[w])
        /\ \A b \in Actors : b # w => at'[b] = at[b]
    BY <1>5, SidesApart DEF ShapeInv, ActorsFit, Fits, Refetch, Go, Drop, Attempt
  <2>2. at[w].op = "job" /\ at[w].pc = "refetch" BY <1>5, <2>1 DEF Refetch, At, Fits, JobFits
  <2>3. ~(row.exists /\ Unstamped(row) /\ row.owed) /\ row' = row => Discharged(w)
    BY <2>2 DEF Discharged, Waiting
  <2>4. CASE Drop(w) /\ (row' = row => Discharged(w))
    <3>1. at'[w] = Close(at[w]) /\ row' = row BY <2>1, <2>4 DEF Drop, Go, ShapeInv, ActorsFit
    <3>2. WorkerMoved(w) BY <2>2, <2>4, <3>1, JobEnds
    <3> QED BY <2>1, <3>2, OneGoesOn
  <2>5. CASE Return(w)
    <3>1. at'[w] = Fail(at[w]) BY <2>1, <2>5 DEF Return, Go, ShapeInv, ActorsFit
    <3>2. WorkerMoved(w) BY <2>2, <3>1, JobEnds
    <3> QED BY <2>1, <3>2, OneGoesOn
  <2>6. CASE row.verified # "passed" /\ Attempt(w, "first")
    <3>1. WorkerMoved(w) BY <2>2, <2>6, JobAttempts
    <3> QED BY <2>1, <3>1, OneGoesOn
  <2> QED BY <1>5, <2>3, <2>4, <2>5, <2>6 DEF Refetch, Unstamped
<1>6. ASSUME NEW w \in Workers, Reread(w) PROVE WorkersMoved
  <2>1. /\ w \in Actors /\ at[w] \in Locals /\ Fits(w, at[w])
        /\ \A b \in Actors : b # w => at'[b] = at[b]
    BY <1>6, SidesApart DEF ShapeInv, ActorsFit, Fits, Reread, Go, Drop, Return, Attempt
  <2>2. at[w].op = "job" /\ at[w].pc = "reread" BY <1>6, <2>1 DEF Reread, At, Fits, JobFits
  <2>3. /\ RequeuedSince(at[w]) \/ row.tested # at[w].seen.tested
           \/ row.name # at[w].name \/ row.verified = "passed"
        /\ row' = row
        => Discharged(w) BY <2>2 DEF Discharged, Waiting, Past, Same, RequeuedSince, Unstamped
  <2>4. CASE Drop(w) /\ (row' = row => Discharged(w))
    <3>1. at'[w] = Close(at[w]) /\ row' = row BY <2>1, <2>4 DEF Drop, Go, ShapeInv, ActorsFit
    <3>2. WorkerMoved(w) BY <2>2, <2>4, <3>1, JobEnds
    <3> QED BY <2>1, <3>2, OneGoesOn
  <2>5. CASE Return(w)
    <3>1. at'[w] = Fail(at[w]) BY <2>1, <2>5 DEF Return, Go, ShapeInv, ActorsFit
    <3>2. WorkerMoved(w) BY <2>2, <3>1, JobEnds
    <3> QED BY <2>1, <3>2, OneGoesOn
  <2>6. CASE row.verified # "passed" /\ Attempt(w, "again")
    <3>1. WorkerMoved(w) BY <2>2, <2>6, JobAttempts
    <3> QED BY <2>1, <3>1, OneGoesOn
  <2> QED BY <1>6, <2>3, <2>4, <2>5, <2>6 DEF Reread, Unstamped
<1>7. ASSUME NEW w \in Workers, Settled(w) PROVE WorkersMoved
  <2>1. /\ w \in Actors /\ at[w] \in Locals /\ Fits(w, at[w])
        /\ \A b \in Actors : b # w => at'[b] = at[b]
    BY <1>7, SidesApart DEF ShapeInv, ActorsFit, Fits, Settled, Go, Drop, Return
  <2>2. at[w].op = "job" /\ at[w].pc = "settled" BY <1>7, <2>1 DEF Settled, At, Fits, JobFits
  <2>3. ~(row.exists /\ Unstamped(row)) /\ row' = row => Discharged(w)
    BY <2>2 DEF Discharged, Waiting, Past
  <2>4. CASE Drop(w) /\ (row' = row => Discharged(w))
    <3>1. at'[w] = Close(at[w]) /\ row' = row BY <2>1, <2>4 DEF Drop, Go, ShapeInv, ActorsFit
    <3>2. WorkerMoved(w) BY <2>2, <2>4, <3>1, JobEnds
    <3> QED BY <2>1, <3>2, OneGoesOn
  <2>5. CASE Return(w)
    <3>1. at'[w] = Fail(at[w]) BY <2>1, <2>5 DEF Return, Go, ShapeInv, ActorsFit
    <3>2. WorkerMoved(w) BY <2>2, <3>1, JobEnds
    <3> QED BY <2>1, <3>2, OneGoesOn
  <2> QED BY <1>7, <2>3, <2>4, <2>5 DEF Settled, Unstamped
<1>8. ASSUME NEW w \in Workers, Stamp(w) PROVE WorkersMoved
  <2>1. /\ w \in Actors /\ at[w] \in Locals /\ Fits(w, at[w])
        /\ \A b \in Actors : b # w => at'[b] = at[b]
    BY <1>8, SidesApart DEF ShapeInv, ActorsFit, Fits, Stamp, Go, Drop
  <2>2. at[w].op = "job" /\ at[w].pc = "stamp" BY <1>8, <2>1 DEF Stamp, At, Fits, JobFits
  <2> DEFINE m == [at[w] EXCEPT !.pc = "commit", !.outcome = "inconclusive",
                                !.under = row.token,
                                !.run = Fresh, !.tries = @ + 1]
             lost == ~row.exists \/ ~Unstamped(row) \/ row.name # at[w].name
                     \/ RequeuedSince(at[w])
  <2>3. (lost /\ at'[w] = Close(at[w]) /\ row' = row) \/ at'[w] = m
    BY <1>8, <2>1 DEF Stamp, Drop, Go, ShapeInv, ActorsFit
  <2>4. lost /\ row' = row => Discharged(w)
    BY <2>2 DEF Discharged, Waiting, Past, Same, RequeuedSince
  <2>5. m.pc = "commit" /\ m.seen = at[w].seen /\ m.name = at[w].name BY <2>1 DEF Locals
  <2> HIDE DEF m, lost
  <2>6. ASSUME at'[w] = m PROVE WorkerMoved(w) BY <2>2, <2>5, <2>6 DEF WorkerMoved, Past
  <2>7. ASSUME lost, at'[w] = Close(at[w]), row' = row PROVE WorkerMoved(w)
    BY <2>2, <2>4, <2>7, JobEnds
  <2>9. WorkerMoved(w) BY <2>3, <2>6, <2>7
  <2> QED BY <2>1, <2>9, OneGoesOn
<1>9. ASSUME NEW w \in Workers, Finish(w) PROVE WorkersMoved
  <2>1. /\ w \in Actors /\ at[w] \in Locals /\ Fits(w, at[w])
        /\ \A b \in Actors : b # w => at'[b] = at[b]
    BY <1>9, SidesApart DEF ShapeInv, ActorsFit, Fits, Finish, Go
  <2>2. at'[w].pc = "idle" BY <1>9, <2>1, IdleFits DEF Finish, Go, ShapeInv, ActorsFit
  <2>3. at[w].pc = "retry" => timers' > 0 BY <1>9 DEF Finish, At, ShapeInv
  <2>9. WorkerMoved(w) BY <1>9, <2>2, <2>3 DEF WorkerMoved, Finish, At
  <2> QED BY <2>1, <2>9, OneGoesOn
<1>10. ASSUME NEW a \in Actors, Probe(a) PROVE WorkersMoved
  <2>1. /\ a \in Actors /\ at[a] \in Locals /\ Fits(a, at[a])
        /\ \A b \in Actors : b # a => at'[b] = at[b]
    BY <1>10, SidesApart DEF ShapeInv, ActorsFit, Fits, Probe, Go
  <2>2. at[a].pc = "probe" BY <1>10 DEF Probe, At
  <2>9. ASSUME a \in Workers PROVE WorkerMoved(a)
    <3>1. at[a].op = "job" BY <2>1, <2>2, <2>9 DEF Fits, JobFits
    <3>2. \/ at'[a] = [at[a] EXCEPT !.pc = "stamp", !.stage = "stamp"]
          \/ \E o \in Outcomes : at'[a] = [at[a] EXCEPT !.pc = "commit", !.outcome = o]
      BY <1>10, <2>1, <3>1 DEF Probe, Go, ShapeInv, ActorsFit
    <3>3. at'[a].pc \in {"stamp", "commit"} /\ at'[a].seen = at[a].seen
          /\ at'[a].name = at[a].name BY <2>1, <3>2 DEF Locals
    <3> QED BY <2>2, <3>3 DEF WorkerMoved, Past
  <2> QED BY <2>1, <2>9, OneGoesOn
<1>11. ASSUME NEW a \in Actors, Commit(a) PROVE WorkersMoved
  <2>1. /\ a \in Actors /\ at[a] \in Locals /\ Fits(a, at[a])
        /\ \A b \in Actors : b # a => at'[b] = at[b]
    BY <1>11, SidesApart DEF ShapeInv, ActorsFit, Fits, Commit, Go
  <2>2. at[a].pc = "commit" BY <1>11 DEF Commit, At
  <2>9. ASSUME a \in Workers PROVE WorkerMoved(a)
    <3>1. at[a].op = "job" BY <2>1, <2>2, <2>9 DEF Fits, JobFits
    <3>2. at[a].outcome \in Outcomes BY <2>1, <2>2, <2>9 DEF Fits, JobFits
    <3>3. row'.owed = FALSE BY <1>11, <2>1, <3>2, CommittedIs DEF Commit, Land, ShapeInv
    <3>4. at'[a] = Close(at[a]) BY <1>11, <2>1 DEF Commit, Go, ShapeInv, ActorsFit
    <3>5. Discharged(a) BY <2>2, <3>3 DEF Discharged, Waiting, Past
    <3> QED BY <2>2, <2>9, <3>1, <3>4, <3>5, JobEnds
  <2> QED BY <2>1, <2>9, OneGoesOn
<1>12. ASSUME NEW a \in Actors, CommitMisses(a) PROVE WorkersMoved
  <2>1. /\ a \in Actors /\ at[a] \in Locals /\ Fits(a, at[a])
        /\ \A b \in Actors : b # a => at'[b] = at[b]
    BY <1>12, SidesApart DEF ShapeInv, ActorsFit, Fits, CommitMisses, Go, Point
  <2>2. at[a].pc = "commit" BY <1>12 DEF CommitMisses, At
  <2>9. ASSUME a \in Workers PROVE WorkerMoved(a)
    <3>1. at[a].op = "job" BY <2>1, <2>2, <2>9 DEF Fits, JobFits
    <3>2. at'[a] = [at[a] EXCEPT !.pc = "readback"]
      BY <1>12, <2>1 DEF CommitMisses, Point, Go, ShapeInv, ActorsFit
    <3>3. at'[a].pc = "readback" /\ at'[a].seen = at[a].seen /\ at'[a].name = at[a].name
      BY <2>1, <3>2 DEF Locals
    <3> QED BY <2>2, <3>3 DEF WorkerMoved, Past
  <2> QED BY <2>1, <2>9, OneGoesOn
<1>13. ASSUME NEW a \in Actors, ReadBack(a) PROVE WorkersMoved
  <2>1. /\ a \in Actors /\ at[a] \in Locals /\ Fits(a, at[a])
        /\ \A b \in Actors : b # a => at'[b] = at[b]
    BY <1>13, SidesApart DEF ShapeInv, ActorsFit, Fits, ReadBack, Go
  <2>2. at[a].pc = "readback" BY <1>13 DEF ReadBack, At
  <2>9. ASSUME a \in Workers PROVE WorkerMoved(a)
    <3>1. at[a].op = "job" BY <2>1, <2>2, <2>9 DEF Fits, JobFits
    <3>2. at[a].seen.token # Run(at[a].run) BY <2>2 DEF StampsInv, Running
    <3>3. /\ row' = row
          /\ \/ at'[a] = Fail(at[a]) \/ at'[a] = Discarded(at[a])
             \/ at'[a] = Close(at[a]) /\ row.token = Run(at[a].run)
      BY <1>13, <2>1 DEF ReadBack, Mine, Go, ShapeInv, ActorsFit
    <3>4. at[a].stage \in {"first", "again", "stamp"}
      BY <2>1, <2>2, <2>9 DEF Fits, JobFits, Locals
    <3>5. \/ at'[a] = Fail(at[a])
          \/ at'[a] = Close(at[a]) /\ row.token = Run(at[a].run)
          \/ \E pc \in {"reread", "settled", "stamp"} : at'[a] = [at[a] EXCEPT !.pc = pc]
      BY <3>1, <3>3, <3>4 DEF Discarded
    <3>6. CASE at'[a] = Fail(at[a]) BY <2>2, <2>9, <3>1, <3>6, JobEnds
    <3>7. ASSUME NEW pc \in {"reread", "settled", "stamp"}, at'[a] = [at[a] EXCEPT !.pc = pc]
          PROVE  WorkerMoved(a)
      <4>1. at'[a].pc = pc /\ at'[a].seen = at[a].seen /\ at'[a].name = at[a].name
        BY <2>1, <3>7 DEF Locals
      <4> QED BY <2>2, <3>7, <4>1 DEF WorkerMoved, Past
    <3>8. CASE at'[a] = Close(at[a]) /\ row.token = Run(at[a].run)
      <4>1. Discharged(a) BY <2>2, <3>2, <3>3, <3>8 DEF Discharged, Past, Same
      <4> QED BY <2>2, <2>9, <3>1, <3>8, <4>1, JobEnds
    <3> QED BY <3>5, <3>6, <3>7, <3>8
  <2> QED BY <2>1, <2>9, OneGoesOn
<1>14. ASSUME NEW a \in Actors, CommitUnheard(a) PROVE WorkersMoved
  <2>1. /\ a \in Actors /\ at[a] \in Locals
        /\ at'[a] = [at[a] EXCEPT !.landed = TRUE] /\ \A b \in Actors : b # a => at'[b] = at[b]
    BY <1>14 DEF ShapeInv, ActorsFit, CommitUnheard, Go
  <2>2. at'[a].pc = at[a].pc /\ at'[a].seen = at[a].seen /\ at'[a].name = at[a].name
    BY <2>1 DEF Locals
  <2> QED BY <2>1, <2>2, OneGoesOn DEF WorkerMoved
<1>15. ASSUME NEW a \in Actors, Outage(a) PROVE WorkersMoved
  <2>1. /\ a \in Actors /\ at[a] \in Locals /\ Fits(a, at[a])
        /\ \A b \in Actors : b # a => at'[b] = at[b]
    BY <1>15, SidesApart DEF ShapeInv, ActorsFit, Fits, Outage, Go
  <2>2. at'[a] = Fail(at[a]) /\ at[a].pc \notin {"idle", "done", "retry"}
    BY <1>15, <2>1 DEF Outage, Go, ShapeInv, ActorsFit
  <2>9. ASSUME a \in Workers PROVE WorkerMoved(a)
    <3>1. at[a].op = "job" BY <2>1, <2>2, <2>9 DEF Fits, JobFits
    <3> QED BY <2>2, <2>9, <3>1, JobEnds
  <2> QED BY <2>1, <2>9, OneGoesOn
<1>16. ASSUME NEW a \in Admins, EnqueueImported(a) PROVE WorkersMoved
  <2>1. a \in Actors /\ a \notin Workers BY SidesApart
  <2>2. \A b \in Actors : b # a => at'[b] = at[b]
    BY <1>16 DEF EnqueueImported, Go, ShapeInv, ActorsFit
  <2> QED BY <2>1, <2>2, OneGoesOn
<1>17. ASSUME NEW a \in Admins, EditWrites(a) PROVE WorkersMoved
  <2>1. a \in Actors /\ a \notin Workers BY SidesApart
  <2>2. \A b \in Actors : b # a =>
           at'[b].pc = at[b].pc /\ at'[b].seen = at[b].seen /\ at'[b].name = at[b].name
    BY <1>17, <2>1, OverruledFits, OverruledKeeps DEF EditWrites, ShapeInv, ActorsFit
  <2> QED BY <2>1, <2>2, SidesApart DEF WorkersMoved, WorkerMoved
<1>18. ASSUME NEW a \in Admins, RequestStep(a) PROVE WorkersMoved
  <2>1. a \in Actors /\ a \notin Workers BY SidesApart
  <2> QED BY <1>18, <2>1, MovesAlone, OneGoesOn DEF AloneStep, OthersRest
<1>19. ASSUME NEW a \in Admins, Disable(a) PROVE WorkersMoved
  <2>1. \A b \in Actors :
           at'[b].pc = at[b].pc /\ at'[b].seen = at[b].seen /\ at'[b].name = at[b].name
    BY <1>19, OverruledKeeps DEF Disable, ShapeInv
  <2> QED BY <2>1, AllRest
<1>20. ASSUME NEW a \in Admins, Enable(a) \/ Reprice(a) \/ Delete(a) PROVE WorkersMoved
  BY <1>20, AllRest DEF Enable, Reprice, Delete
<1>21. CASE RetryFires BY <1>21, AllRest DEF RetryFires
<1>22. CASE RecoverLists BY <1>22, AllRest DEF RecoverLists
<1>23. CASE RecoverEnqueues BY <1>23, AllRest DEF RecoverEnqueues
<1>24. CASE Crash BY <1>24, IdleFits, SidesApart DEF Crash, WorkersMoved, WorkerMoved
<1>25. CASE UNCHANGED vars BY <1>25, AllRest DEF vars
<1> QED BY <1>1, <1>2, <1>3, <1>4, <1>5, <1>6, <1>7, <1>8, <1>9, <1>10, <1>11, <1>12, <1>13,
     <1>14, <1>15, <1>16, <1>17, <1>18, <1>19, <1>20, <1>21, <1>22, <1>23, <1>24, <1>25 DEF
     Next, Goes, Work, Verify, Serve, Ask, Recover, Trouble, Asked, RequestStep

\* What every step does to what the mapping is owed.
Owes ==
  /\ Promised' => Promised
  /\ Waiting' /\ ~strayed' =>
        \/ Waiting /\ ~strayed /\ row'.token = row.token /\ row'.name = row.name
        \/ \E a \in Admins : At(a, "enqueue")'

\* No step makes a promise of a passed row, and one that makes it wait is followed by an
\* enqueue.
LEMMA RowOwes ==
  ASSUME ShapeInv, OwnInv, [Next]_vars
  PROVE  Owes
<1>1. ASSUME NEW w \in Workers, Take(w) PROVE Owes
  BY <1>1 DEF Take, Owes, Promised, Waiting, ghosts
<1>2. ASSUME NEW w \in Workers, JobRead(w) PROVE Owes
  BY <1>2 DEF JobRead, Owes, Promised, Waiting, ghosts, Drop, Continue, Point, Attempt
<1>3. ASSUME NEW w \in Workers, Fulfill(w) PROVE Owes
  <2>1. row'.armed = FALSE /\ row'.verified = "passed"
    BY <1>3 DEF Fulfill, MayFulfill, Fulfilled, ShapeInv, Rows
  <2> QED BY <2>1 DEF Owes, Promised, Waiting, ghosts, Unstamped
<1>4. ASSUME NEW w \in Workers, FulfillMisses(w) PROVE Owes
  BY <1>4 DEF FulfillMisses, Owes, Promised, Waiting, ghosts, Continue, Point
<1>5. ASSUME NEW w \in Workers, Refetch(w) PROVE Owes
  BY <1>5 DEF Refetch, Owes, Promised, Waiting, ghosts, Drop, Attempt
<1>6. ASSUME NEW w \in Workers, Reread(w) PROVE Owes
  BY <1>6 DEF Reread, Owes, Promised, Waiting, ghosts, Drop, Return, Attempt
<1>7. ASSUME NEW w \in Workers, Settled(w) PROVE Owes
  BY <1>7 DEF Settled, Owes, Promised, Waiting, ghosts, Drop, Return
<1>8. ASSUME NEW w \in Workers, Stamp(w) PROVE Owes
  BY <1>8 DEF Stamp, Owes, Promised, Waiting, ghosts, Drop
<1>9. ASSUME NEW w \in Workers, Finish(w) PROVE Owes
  BY <1>9 DEF Finish, Owes, Promised, Waiting, ghosts
<1>10. ASSUME NEW a \in Actors, Probe(a) PROVE Owes
  BY <1>10 DEF Probe, Owes, Promised, Waiting, ghosts
<1>11. ASSUME NEW a \in Actors, Commit(a) \/ CommitUnheard(a) PROVE Owes
  <2> DEFINE l == at[a]
             c == Claim(l)
  <2>1. /\ l \in Locals /\ l.pc = "commit" /\ Fits(a, l) /\ Own(a)
    BY <1>11 DEF ShapeInv, ActorsFit, Commit, CommitUnheard, At, Fits, OwnInv
  <2>2. l.outcome \in Outcomes BY <2>1, SidesApart DEF Fits, JobFits, RequestFits
  <2>3. /\ row'.owed = FALSE /\ row'.exists = row.exists
        /\ row'.verified = (IF l.outcome = "inconclusive" THEN row.verified ELSE l.outcome)
        /\ row'.enabled <=> l.outcome # "failed" /\ (row.enabled \/ Enables(row, c))
        /\ row'.armed <=> StillArmed(row, c)
    <3>1. row' = Committed(row, c) BY <1>11 DEF Commit, CommitUnheard, Land
    <3> QED BY <2>1, <2>2, <3>1, CommittedIs DEF ShapeInv
  <2>4. row.token = l.under /\ c.mode = l.mode /\ c.outcome = l.outcome
    BY <1>11 DEF Commit, CommitUnheard, Unmoved, Claim
  <2>5. row.armed => l.mode = "armed" BY <2>1, <2>4 DEF Own, Keeping
  <2>6. ASSUME Promised' PROVE Promised
    <3>1. l.outcome # "failed" BY <2>3, <2>6 DEF Promised
    <3>2. ~row.enabled BY <2>3, <2>6, <3>1 DEF Promised
    <3>3. row.armed BY <2>3, <2>6 DEF Promised, StillArmed
    <3>4. l.outcome # "passed" BY <2>3, <2>4, <2>5, <2>6, <3>3 DEF Promised, StillArmed
    <3>5. row.verified = "passed" BY <2>2, <2>3, <2>6, <3>1, <3>4 DEF Promised, Outcomes
    <3> QED BY <2>3, <2>6, <3>2, <3>3, <3>5 DEF Promised
  <2> QED BY <2>3, <2>6 DEF Owes, Waiting
<1>12. ASSUME NEW a \in Actors, CommitMisses(a) PROVE Owes
  BY <1>12 DEF CommitMisses, Owes, Promised, Waiting, ghosts, Point
<1>13. ASSUME NEW a \in Actors, ReadBack(a) PROVE Owes
  BY <1>13 DEF ReadBack, Owes, Promised, Waiting, ghosts
<1>15. ASSUME NEW a \in Actors, Outage(a) PROVE Owes
  BY <1>15 DEF Outage, Owes, Promised, Waiting, ghosts
<1>16. ASSUME NEW a \in Admins, EnqueueImported(a) PROVE Owes
  BY <1>16 DEF EnqueueImported, Owes, Promised, Waiting, ghosts
<1>17. ASSUME NEW a \in Admins, EditWrites(a) PROVE Owes
  <2> DEFINE l == at[a]
             disables == l.outcome = "off" /\ row.exists
             retargeted == l.name # l.seen.name
             told == IF disables THEN SwitchedOff(row, l.now) ELSE row
  <2>1. /\ row' = IF row.exists THEN Renamed(told, l.name, retargeted, l.now) ELSE row
        /\ strayed' = IF row.exists
                      THEN ~retargeted /\ (strayed \/ row.name # l.name) ELSE strayed
    BY <1>17 DEF EditWrites
  <2>2. CASE ~row.exists BY <2>1, <2>2 DEF Owes, Promised, Waiting
  <2>3. CASE row.exists /\ (disables \/ retargeted)
    <3>1. row'.armed = FALSE /\ row'.owed = FALSE
      BY <2>1, <2>3 DEF Renamed, SwitchedOff, ShapeInv, Rows
    <3> QED BY <3>1 DEF Owes, Promised, Waiting
  <2>4. CASE row.exists /\ ~disables /\ ~retargeted
    <3>1. /\ row'.name = l.name /\ row'.token = row.token /\ row'.exists = row.exists
          /\ row'.armed = row.armed /\ row'.owed = row.owed /\ row'.verified = row.verified
          /\ row'.tested = row.tested /\ row'.enabled = row.enabled
      BY <2>1, <2>4 DEF Renamed, ShapeInv, Rows
    <3> QED BY <2>1, <2>4, <3>1 DEF Owes, Promised, Waiting, Unstamped
  <2> QED BY <2>2, <2>3, <2>4
<1>18. ASSUME NEW a \in Admins, EditReadsAgain(a) PROVE Owes
  BY <1>18 DEF EditReadsAgain, Owes, Promised, Waiting, ghosts
<1>19. ASSUME NEW a \in Admins, Recommit(a) PROVE Owes
  BY <1>19 DEF Recommit, Owes, Promised, Waiting, ghosts
<1>20. ASSUME NEW a \in Admins, EditReloads(a) PROVE Owes
  BY <1>20 DEF EditReloads, Owes, Promised, Waiting, ghosts
<1>21. ASSUME NEW a \in Admins, EditDemotes(a) PROVE Owes
  <2>1. /\ row'.name = row.name /\ row'.token = row.token /\ (row'.exists => row.exists)
        /\ row'.armed = row.armed /\ row'.owed = row.owed /\ row'.verified = row.verified
        /\ row'.tested = row.tested
        /\ row'.enabled = row.enabled \/ row.verified # "passed"
        /\ strayed' = strayed
    BY <1>21 DEF EditDemotes, Repriced, Renamed, MayDemote, Demoted, ghosts,
       ShapeInv, Rows
  <2> QED BY <2>1 DEF Owes, Promised, Waiting, ghosts, Unstamped
<1>22. ASSUME NEW a \in Admins, Disable(a) PROVE Owes
  <2>1. row'.armed = FALSE /\ row'.owed = FALSE BY <1>22 DEF Disable, SwitchedOff, ShapeInv, Rows
  <2> QED BY <2>1 DEF Owes, Promised, Waiting, ghosts
<1>23. ASSUME NEW a \in Admins, Enable(a) PROVE Owes
  <2>1. row'.enabled = TRUE /\ row'.verified = "passed"
    BY <1>23 DEF Enable, SwitchedOn, ShapeInv, Rows
  <2> QED BY <2>1 DEF Owes, Promised, Waiting, ghosts, Unstamped
<1>24. ASSUME NEW a \in Admins, Reprice(a) PROVE Owes
  <2>1. /\ row'.name = row.name /\ row'.token = row.token /\ (row'.exists => row.exists)
        /\ row'.armed = row.armed /\ row'.owed = row.owed /\ row'.verified = row.verified
        /\ row'.tested = row.tested
        /\ row'.enabled = row.enabled \/ row.verified # "passed"
        /\ strayed' = strayed
    BY <1>24 DEF Reprice, Repriced, Renamed, MayDemote, Demoted, ghosts,
       ShapeInv, Rows
  <2> QED BY <2>1 DEF Owes, Promised, Waiting, ghosts, Unstamped
<1>25. ASSUME NEW a \in Admins, Delete(a) PROVE Owes
  <2>1. /\ row'.name = row.name /\ row'.token = row.token /\ (row'.exists => row.exists)
        /\ row'.armed = row.armed /\ row'.owed = row.owed /\ row'.verified = row.verified
        /\ row'.tested = row.tested
        /\ row'.enabled = row.enabled \/ row.verified # "passed"
        /\ strayed' = strayed
    BY <1>25 DEF Delete, Repriced, Renamed, MayDemote, Demoted, ghosts,
       ShapeInv, Rows
  <2> QED BY <2>1 DEF Owes, Promised, Waiting, ghosts, Unstamped
<1>26. ASSUME NEW a \in Admins, Retest(a) PROVE Owes
  BY <1>26 DEF Retest, Owes, Promised, Waiting, ghosts
<1>27. ASSUME NEW a \in Admins, NEW priced \in BOOLEAN, Requeue(a, priced) PROVE Owes
  <2>1. a \in Actors /\ at'[a] = [Idle EXCEPT !.op = "import", !.pc = "enqueue"]
    BY <1>27, SidesApart DEF Requeue, Go, ShapeInv, ActorsFit
  <2>2. at'[a].pc = "enqueue" BY <2>1 DEF Idle
  <2>3. row'.verified # "passed" BY <1>27 DEF Requeue, MayRequeue, Requeued, ShapeInv, Rows
  <2> QED BY <2>2, <2>3 DEF Owes, Promised, At
<1>28. ASSUME NEW a \in Admins, NEW name \in Names, NEW status \in Asked, Edit(a, name, status)
      PROVE  Owes BY <1>28 DEF Edit, Owes, Promised, Waiting, ghosts
<1>29. CASE RetryFires BY <1>29 DEF RetryFires, Owes, Promised, Waiting, ghosts
<1>30. CASE RecoverLists BY <1>30 DEF RecoverLists, Owes, Promised, Waiting, ghosts
<1>31. CASE RecoverEnqueues BY <1>31 DEF RecoverEnqueues, Owes, Promised, Waiting, ghosts
<1>32. CASE Crash BY <1>32 DEF Crash, Owes, Promised, Waiting, ghosts
<1>33. CASE UNCHANGED vars BY <1>33 DEF vars, Owes, Promised, Waiting, ghosts
<1> QED BY <1>1, <1>2, <1>3, <1>4, <1>5, <1>6, <1>7, <1>8, <1>9, <1>10, <1>11, <1>12,
     <1>13, <1>15, <1>16, <1>17, <1>18, <1>19, <1>20, <1>21, <1>22, <1>23, <1>24,
     <1>25, <1>26, <1>27, <1>28, <1>29, <1>30, <1>31, <1>32, <1>33 DEF Next, Goes, Work,
     Verify, Serve, Ask, Recover, Trouble, Asked

\* Whoever is expected comes, or a worker has begun, or the debt is gone.
Begun == \E w \in Workers : at'[w].pc = "read" /\ \A v \in Workers : at[v].pc = "idle"
Lasts == Expected => Expected' \/ Begun \/ (~Promised' /\ ~Waiting')

\* One actor that has nothing to enqueue moves, and the queue rests.
LEMMA LastsAlone ==
  ASSUME NEW a \in Actors, at[a].pc # "enqueue", \A b \in Actors : b # a => at'[b] = at[b],
         UNCHANGED <<boot, timers, queue>>
  PROVE  Lasts
BY SidesApart DEF Lasts, Expected, At

\* No actor moves, and the queue rests.
LEMMA LastsQuiet ==
  ASSUME \A b \in Actors : at'[b].pc = at[b].pc, UNCHANGED <<boot, timers, queue>>
  PROVE  Lasts
BY SidesApart DEF Lasts, Expected, At

\* An enqueued mapping is waiting, or will run again.
LEMMA EnqueuedIs ==
  ASSUME ShapeInv, QueueInv, queue' = Enqueued(queue)
  PROVE  Expected'
<1>1. CASE queue.pending
  <2>1. /\ queue'.fifo = queue.fifo /\ (queue'.rerun <=> queue.rerun \/ queue.active)
    BY <1>1 DEF Enqueued, ShapeInv, Queues
  <2> QED BY <1>1, <2>1 DEF QueueInv, Expected
<1>2. CASE ~queue.pending
  <2>1. queue'.fifo = queue.fifo + 1 BY <1>2 DEF Enqueued, ShapeInv, Queues
  <2>2. queue'.fifo > 0 BY <2>1 DEF ShapeInv, Queues
  <2> QED BY <2>2 DEF Expected
<1> QED BY <1>1, <1>2

\* Whoever is expected stays so until a worker begins or the debt is gone.
LEMMA ExpectedLasts ==
  ASSUME ShapeInv, QueueInv, [Next]_vars
  PROVE  Lasts
<1>1. ASSUME NEW w \in Workers, Take(w) PROVE Lasts
  <2>1. w \in Actors /\ at'[w] = [Idle EXCEPT !.op = "job", !.pc = "read", !.now = Fresh]
    BY <1>1, SidesApart DEF Take, Go, ShapeInv, ActorsFit
  <2>2. at'[w].pc = "read" BY <2>1 DEF Idle
  <2>3. queue.fifo = 1 BY <1>1 DEF Take, QueueInv
  <2>4. \A v \in Workers : at[v].pc = "idle" BY <2>3 DEF QueueInv
  <2> QED BY <2>2, <2>4 DEF Lasts, Begun
<1>2. ASSUME NEW a \in Actors, AloneStep(a) PROVE Lasts
  BY <1>2, MovesAlone, LastsAlone DEF OthersRest
<1>3. ASSUME NEW w \in Workers, Finish(w) PROVE Lasts
  <2>1. w \in Actors /\ at[w].pc # "enqueue" /\ at[w].pc # "idle" /\ boot' = boot
    BY <1>3, SidesApart DEF Finish, At
  <2>2. \A b \in Actors : b # w => at'[b] = at[b]
    BY <1>3, <2>1 DEF Finish, Go, ShapeInv, ActorsFit
  <2>3. timers > 0 => timers' > 0 BY <1>3 DEF Finish, ShapeInv
  <2>4. queue.fifo = 0 BY <2>1 DEF QueueInv
  <2>5. queue.rerun => queue'.fifo = queue.fifo + 1
    BY <1>3 DEF Finish, Processed, ShapeInv, Queues
  <2>6. queue.rerun => queue'.fifo > 0 BY <2>4, <2>5
  <2> QED BY <2>1, <2>2, <2>3, <2>4, <2>6, SidesApart DEF Lasts, Expected, At
<1>4. ASSUME NEW a \in Admins, EnqueueImported(a) PROVE Lasts
  BY <1>4, EnqueuedIs DEF EnqueueImported, Lasts
<1>5. ASSUME NEW a \in Admins, EditWrites(a) PROVE Lasts
  <2>1. /\ a \in Actors /\ at[a].pc = "write" /\ at[a].op = "edit" /\ at[a] \in Locals
        /\ UNCHANGED <<boot, timers, queue>>
    BY <1>5, SidesApart DEF EditWrites, At, Local, ShapeInv, ActorsFit, Fits, RequestFits
  <2>2. \A b \in Actors : b # a => at'[b].pc = at[b].pc
    BY <1>5, <2>1, OverruledFits, OverruledKeeps DEF EditWrites, ShapeInv, ActorsFit
  <2> QED BY <2>1, <2>2, SidesApart DEF Lasts, Expected, At
<1>6. ASSUME NEW a \in Admins, Disable(a) PROVE Lasts
  <2>1. \A b \in Actors : at'[b].pc = at[b].pc BY <1>6, OverruledKeeps DEF Disable, ShapeInv
  <2> QED BY <1>6, <2>1, LastsQuiet DEF Disable, Arrives
<1>7. ASSUME NEW a \in Admins, Enable(a) \/ Reprice(a) \/ Delete(a) PROVE Lasts
  BY <1>7, LastsQuiet DEF Enable, Reprice, Delete, Arrives
<1>8. CASE RetryFires BY <1>8, EnqueuedIs DEF RetryFires, Lasts
<1>9. CASE RecoverLists
  <2>1. CASE Owed(row)
    <3>1. boot' = "listed" BY <1>9, <2>1 DEF RecoverLists
    <3> QED BY <3>1 DEF Lasts, Expected
  <2>2. CASE ~Owed(row)
    <3>1. ~Promised' /\ ~Waiting' BY <1>9, <2>2, OwedIs DEF RecoverLists, Promised, Waiting
    <3> QED BY <3>1 DEF Lasts
  <2> QED BY <2>1, <2>2
<1>10. CASE RecoverEnqueues BY <1>10, EnqueuedIs DEF RecoverEnqueues, Lasts
<1>11. CASE Crash BY <1>11 DEF Crash, Lasts, Expected
<1>12. CASE UNCHANGED vars BY <1>12, LastsQuiet DEF vars
<1> QED BY <1>1, <1>2, <1>3, <1>4, <1>5, <1>6, <1>7, <1>8, <1>9, <1>10, <1>11, <1>12, SidesApart
     DEF Next, Goes, Work, Verify, Serve, Ask, Recover, Trouble, Asked, AloneStep, JobStep,
     RunStep, RequestStep

\* No debt is forgotten in a step.
LEMMA DebtStep ==
  ASSUME ShapeInv, QueueInv, StampsInv, OwnInv, DebtInv, [Next]_vars, ShapeInv'
  PROVE  DebtInv'
<1>1. WorkersMoved BY WorkersMove
<1>2. Owes BY RowOwes
<1>3. Lasts BY ExpectedLasts
<1>4. ASSUME Promised' PROVE \A w \in Workers : at'[w].pc \notin Past \cup {"refetch"}
  <2>1. Promised BY <1>2, <1>4 DEF Owes
  <2>2. \A w \in Workers : at[w].pc \notin Past \cup {"refetch"} BY <2>1 DEF DebtInv
  <2>3. MayFulfill(row) /\ row.verified = "passed" BY <2>1 DEF Promised, MayFulfill
  <2> SUFFICES ASSUME NEW w \in Workers PROVE at'[w].pc \notin Past \cup {"refetch"} OBVIOUS
  <2>4. WorkerMoved(w) BY <1>1 DEF WorkersMoved
  <2> QED BY <2>2, <2>3, <2>4 DEF WorkerMoved, Past
<1>5. ASSUME Waiting', ~strayed', ~Expected', NEW w \in Workers, at'[w].pc \in Past
      PROVE  Same(w)'
  <2>1. Waiting /\ ~strayed /\ row'.token = row.token /\ row'.name = row.name
    BY <1>2, <1>5 DEF Owes, Expected
  <2>2. WorkerMoved(w) BY <1>1 DEF WorkersMoved
  <2>3. row'.tested = row.tested BY <1>5, <2>1 DEF Waiting, Unstamped
  <2>4. CASE Expected
    <3>1. Begun BY <1>3, <1>5, <2>4 DEF Lasts
    <3>2. at[w].pc = "idle" BY <3>1 DEF Begun
    <3>3. FALSE BY <1>5, <2>2, <3>2 DEF WorkerMoved, Past
    <3> QED BY <3>3
  <2>5. CASE ~Expected
    <3>1. at[w].pc \in Past => Same(w) BY <2>1, <2>5 DEF DebtInv
    <3>2. CASE /\ at[w].pc \in Past /\ at'[w].seen = at[w].seen /\ at'[w].name = at[w].name
      BY <2>1, <2>3, <3>1, <3>2 DEF Same
    <3>3. CASE row' = row /\ at'[w].seen = Sight(row) /\ at'[w].name = row.name
      BY <3>3, SightIs DEF Same
    <3> QED BY <1>5, <2>2, <3>2, <3>3 DEF WorkerMoved, Past
  <2> QED BY <2>4, <2>5
<1>6. ASSUME Promised' \/ (Waiting' /\ ~strayed') PROVE Held'
  <2> SUFFICES ASSUME ~Expected' PROVE \E w \in Workers : at'[w].pc \notin {"idle", "done"}
    BY HeldIs DEF Held, Expected
  <2>1. /\ Promised' => Promised
        /\ Waiting' /\ ~strayed' => Waiting /\ ~strayed BY <1>2 DEF Owes, Expected
  <2>2. CASE Expected
    <3>1. Begun BY <1>3, <1>6, <2>2 DEF Lasts
    <3> QED BY <3>1 DEF Begun
  <2>3. CASE ~Expected
    <3>1. Held BY <1>6, <2>1 DEF DebtInv
    <3>2. PICK w \in Workers : at[w].pc \notin {"idle", "done"} BY <2>3, <3>1, HeldIs
    <3>3. WorkerMoved(w) BY <1>1 DEF WorkersMoved
    <3>4. timers' > 0 \/ boot' = "listing" => Expected' BY DEF Expected
    <3>5. ~Discharged(w)
      <4>1. Promised' => at[w].pc \notin Past \cup {"refetch"} BY <2>1 DEF DebtInv
      <4>2. Waiting' /\ ~strayed' => (at[w].pc \in Past => Same(w)) BY <2>1, <2>3 DEF DebtInv
      <4> QED BY <1>6, <4>1, <4>2 DEF Discharged
    <3> QED BY <3>2, <3>3, <3>4, <3>5 DEF WorkerMoved, Past
  <2> QED BY <2>2, <2>3
<1>7. Waiting' /\ ~strayed' => Expected' \/ \A w \in Workers : at'[w].pc \in Past => Same(w)'
  BY <1>5
<1> QED BY <1>4, <1>6, <1>7 DEF DebtInv

----------------------------------------
(* The start. *)

\* A row just stored.
LEMMA BlankIs ==
  /\ Blank \in Rows /\ Blank.armed = FALSE /\ Blank.enabled = FALSE /\ Blank.tested = 0
  /\ Blank.token = Run(0) /\ Blank.verified = "untested" /\ Blank.name \in Names
<1>1. Blank.name \in Names BY NamesAssumption DEF Blank
<1> QED BY <1>1 DEF Blank, Rows, Tokens, Run, Verdicts

\* The rows the process may find are rows.
LEMMA StoredFits == ASSUME row \in StoredRows PROVE row \in Rows
<1>1. Imported \in Rows BY BlankIs DEF Imported, Rows
<1>2. Serving \in Rows BY BlankIs DEF Serving, Rows, Run, Tokens, Verdicts
<1>3. Inherited(TRUE) \in Rows /\ Inherited(FALSE) \in Rows BY <1>1 DEF Inherited, Rows, Verdicts
<1> QED BY <1>1, <1>2, <1>3, BlankIs DEF StoredRows

\* The request that stored the row.
LEMMA CreatingIs ==
  /\ Creating \in Locals /\ Creating.op = "create" /\ Creating.pc = "probe"
  /\ Creating.now = 1 /\ Creating.run = 2 /\ Creating.under = Run(0)
  /\ Creating.seen = Sight(Blank) /\ Creating.overruled = FALSE
     /\ Creating.stage = "first" /\ Creating.landed = FALSE
<1>1. Sight(Blank) \in Sights BY BlankIs, SightIs DEF Rows, Sights, Called
<1>2. Blank.name \in Called BY BlankIs DEF Called
<1> QED BY <1>1, <1>2, IdleFits DEF Creating, Locals, Points, Ops, Modes

\* Everybody rests, but for one request that may have just stored the row.
Starts ==
  /\ at \in [Actors -> {Idle, Creating}]
  /\ \A a \in Workers : at[a] = Idle
  /\ \A a, b \in Actors : at[a] = Creating /\ at[b] = Creating => a = b
  /\ \A a \in Actors : at[a] = Creating => row = Blank

\* At the start nobody runs but that request.
LEMMA InitStarts == Init => Starts
<1> SUFFICES ASSUME Init PROVE Starts OBVIOUS
<1>1. PICK first \in IF row = Blank THEN {Idle, Creating} ELSE {Idle} :
         at = [a \in Actors |-> IF a \in Admins /\ \A b \in Admins : a <= b
                                THEN first ELSE Idle] BY DEF Init
<1>2. Idle # Creating BY IdleFits, CreatingIs
<1>3. \A a \in Actors : at[a] = (IF a \in Admins
      /\ \A b \in Admins : a <= b THEN first ELSE Idle) BY <1>1
<1>4. at \in [Actors -> {Idle, Creating}] BY <1>1
<1>5. \A a \in Actors : at[a] = Creating => a \in Admins /\ \A b \in Admins : a <= b BY <1>2, <1>3
<1>6. \A a, b \in Admins : a <= b /\ b <= a => a = b BY ActorAssumption
<1>7. \A a \in Actors : at[a] = Creating => row = Blank BY <1>1, <1>2, <1>3
<1> QED BY <1>3, <1>4, <1>5, <1>6, <1>7, SidesApart DEF Starts

\* The start is of its type.
LEMMA InitShape == ASSUME Init, Starts PROVE ShapeInv
<1>1. row \in Rows BY StoredFits DEF Init
<1>2. queue \in Queues BY DEF Init, EmptyQueue, Queues
<1>3. timers \in Nat /\ boot \in {"listing", "listed", "recovered"} /\ troubles \in Nat
  BY DEF Init
<1>4. /\ off \in BOOLEAN /\ earned \in Names
      /\ strayed \in BOOLEAN /\ relanded \in BOOLEAN BY <1>1 DEF Init, Rows
<1>5. requests \in Nat
  <2>1. IsFiniteSet({a \in Admins : ~At(a, "idle")}) BY ActorAssumption, FS_Subset
  <2> QED BY <2>1, FS_CardinalityType DEF Init
<1>6. ActorsFit
  <2>1. \A a \in Actors : at[a] \in Locals BY IdleFits, CreatingIs DEF Starts
  <2>2. \A a \in Actors : Fits(a, at[a])
    <3> SUFFICES ASSUME NEW a \in Actors PROVE Fits(a, at[a]) OBVIOUS
    <3>1. CASE at[a] = Idle BY <3>1, IdleFits
    <3>2. CASE at[a] = Creating
      <4>1. a \notin Workers BY <3>2, IdleFits, CreatingIs DEF Starts
      <4> QED BY <3>2, <4>1, CreatingIs DEF Fits, RequestFits
    <3> QED BY <3>1, <3>2 DEF Starts
  <2> QED BY <2>1, <2>2 DEF ActorsFit, Starts
<1> QED BY <1>1, <1>2, <1>3, <1>4, <1>5, <1>6 DEF ShapeInv

\* The queue starts empty.
LEMMA InitQueue == ASSUME Init, Starts PROVE QueueInv
<1>1. \A w \in Workers : at[w].pc = "idle" BY IdleFits DEF Starts
<1> QED BY <1>1 DEF Init, EmptyQueue, QueueInv, OneJobAtATime, At

\* The stamps of the request that stored the row are nowhere to be read.
LEMMA InitStamps == ASSUME Init, Starts PROVE StampsInv
<1>1. \A n : Run(n) = Run(0) => n = 0 BY DEF Run
<1>2. \A a \in Actors : at[a].pc \in Timing => at[a] = Creating
  BY IdleFits DEF Starts, Timing, Running
<1>3. \A a \in Actors : at[a].under = Run(0) /\ at[a].seen.token = Run(0)
      /\ at[a].seen.tested = 0
  <2>1. Sight(Blank).token = Run(0) /\ Sight(Blank).tested = 0 BY BlankIs, SightIs
  <2>2. \A a \in Actors : at[a] = Idle \/ at[a] = Creating BY DEF Starts
  <2> QED BY <2>1, <2>2, IdleFits, UnseenIs, CreatingIs
<1>4. \A a \in Actors : at[a] = Creating => row.token = Run(0) /\ row.tested = 0
  BY BlankIs DEF Starts
<1>5. Running \subseteq Timing BY DEF Timing
<1> QED BY <1>1, <1>2, <1>3, <1>4, <1>5, CreatingIs DEF StampsInv, Writing, Dating, Starts

\* No verdict has landed.
LEMMA InitLanded == ASSUME Init, Starts PROVE LandedInv
<1>1. \A a \in Actors : ~at[a].landed BY IdleFits, CreatingIs DEF Starts
<1>2. row.armed => row.token = Run(0) BY BlankIs, StoredFits DEF Init, StoredRows, Imported,
      Serving, Inherited, Rows
<1> QED BY <1>1, <1>2 DEF LandedInv, Landed

\* That request found the row unarmed.
LEMMA InitOwn == ASSUME Init, Starts PROVE OwnInv
<1> SUFFICES ASSUME NEW a \in Actors PROVE Own(a) BY DEF OwnInv
<1>1. CASE at[a] = Idle BY <1>1, IdleFits DEF Own, Keeping, Noticing, Yielding
<1>2. CASE at[a] = Creating
  <2>1. row.armed = FALSE BY <1>2, BlankIs DEF Starts
  <2> QED BY <1>2, <2>1, CreatingIs DEF Own, Keeping, Noticing, Yielding
<1> QED BY <1>1, <1>2 DEF Starts

\* A verdict that is stored was obtained for the name that is stored.
LEMMA InitVerdict == ASSUME Init PROVE VerdictIsOfTarget
BY DEF Init, VerdictIsOfTarget, VerdictIsOfName

\* Recovery is expected at the start.
LEMMA InitDebts == ASSUME Init, Starts PROVE DebtInv
<1>1. \A w \in Workers : at[w].pc = "idle" BY IdleFits DEF Starts
<1>2. Expected BY DEF Init, Expected
<1> QED BY <1>1, <1>2, HeldIs DEF DebtInv, Past

----------------------------------------
(* Theorems. *)

MappingInv ==
  /\ ShapeInv /\ QueueInv /\ StampsInv /\ LandedInv /\ OwnInv
  /\ OffInv /\ VerdictIsOfTarget /\ DebtInv

\* The invariant holds for every number of workers, requests, names and failures.
THEOREM MappingInvariance == Spec => []MappingInv
<1>1. Init => MappingInv
  BY InitStarts, InitShape, InitQueue, InitStamps, InitLanded, InitOwn, InitVerdict, InitDebts
     DEF MappingInv, OffInv, Init
<1>2. MappingInv /\ [Next]_vars => MappingInv'
  <2> SUFFICES ASSUME MappingInv, [Next]_vars PROVE MappingInv' OBVIOUS
  <2>1. /\ ShapeInv /\ QueueInv /\ StampsInv /\ LandedInv /\ OwnInv
        /\ OffInv /\ VerdictIsOfTarget /\ DebtInv BY DEF MappingInv
  <2>2. ShapeInv' BY <2>1, ShapeStep
  <2>3. RowMoved BY <2>1, RowMoves
  <2>4. QueueInv' BY <2>1, QueueStep
  <2>5. StampsInv' BY <2>1, StampsStep
  <2>6. LandedInv' BY <2>1, <2>3, LandedStep
  <2>7. OwnInv' BY <2>1, <2>2, <2>3, OwnStep
  <2>8. OffInv' BY <2>1, OffStep
  <2>9. VerdictIsOfTarget' BY <2>1, VerdictStep
  <2>10. DebtInv' BY <2>1, <2>2, DebtStep
  <2> QED BY <2>2, <2>4, <2>5, <2>6, <2>7, <2>8, <2>9, <2>10 DEF MappingInv
<1> QED BY <1>1, <1>2, PTL DEF Spec

\* The variables keep their types.
THEOREM MappingTypes == Spec => []TypeOK
<1>1. MappingInv => TypeOK BY DEF MappingInv, ShapeInv, TypeOK, Queues, ActorsFit, Locals
<1> QED BY <1>1, MappingInvariance, PTL

\* SetCandidateStatus and UpdateModelCandidate against every probe in flight, whose
\* commits may land unheard and be made again: nothing turns a mapping on that was told
\* to be off, unless a verdict landed a second time since (model_service.go,
\* CommitModelCandidateProbeResults).
THEOREM DisablesStand == Spec => []DisableStands
<1>1. MappingInv => DisableStands BY DEF MappingInv, OffInv, DisableStands
<1> QED BY <1>1, MappingInvariance, PTL

\* The name a commit expects (model_repository.go), while edits overlap: a passed
\* verification was obtained for the name the mapping points at, unless an edit wrote
\* the name it kept over the name of another.
THEOREM VerdictsOfTarget == Spec => []VerdictIsOfTarget
<1>1. MappingInv => VerdictIsOfTarget BY DEF MappingInv
<1> QED BY <1>1, MappingInvariance, PTL

\* enqueueCandidate and process (probe_queue.go): whatever happens, one probe of the
\* mapping runs in the queue at a time.
THEOREM OneJob == Spec => []OneJobAtATime
<1>1. MappingInv => OneJobAtATime BY DEF MappingInv, QueueInv
<1> QED BY <1>1, MappingInvariance, PTL

\* Recovery, retries and requeues (probe_queue.go): one probe runs at a time, no promise
\* is forgotten, and no first probe either, unless an edit wrote the name it kept over
\* the name of another since it was asked for.
THEOREM QueueSound == Spec => []QueueIsSound
<1>1. MappingInv => OneJobAtATime BY DEF MappingInv, QueueInv
<1>2. MappingInv => DebtsAreHeld
  BY OwedIs DEF MappingInv, DebtInv, DebtsAreHeld, Waiting
<1>3. MappingInv => QueueIsSound BY <1>1, <1>2 DEF QueueIsSound
<1> QED BY <1>3, MappingInvariance, PTL
================================================================================
