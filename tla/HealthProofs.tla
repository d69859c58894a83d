---------------------------- MODULE HealthProofs ----------------------------
(***************************************************************************)
(* Proofs about what the gateway remembers of the health of a provider     *)
(* (Circuit) and of its keys (KeyPool), for every threshold, timeout and   *)
(* bench window, every set of requests, attempts and tests, and every      *)
(* bound on faults, replacements and instants.  Of each: first what the    *)
(* operators on a record do, then the inductive invariant, then the        *)
(* properties.                                                             *)
(***************************************************************************)
EXTENDS Circuit, KeyPool, TLAPS
----------------------------------------
(***************************************************************************)
(* The circuit breaker.                                                    *)
(***************************************************************************)

USE ConfigAssumption, DestinationsAssumption, MaxFaultsAssumption
----------------------------------------
(* The record's operators. *)

\* Changing one field within its type leaves a record.
LEMMA FieldUpdates ==
  ASSUME NEW s \in Record
  PROVE  /\ \A b \in BOOLEAN : [s EXCEPT !.known = b] \in Record
         /\ \A k \in Kinds : [s EXCEPT !.kind = k] \in Record
         /\ \A n \in Nat : [s EXCEPT !.failures = n] \in Record
         /\ \A n \in Nat : [s EXCEPT !.successes = n] \in Record
         /\ \A n \in 0..1 : [s EXCEPT !.soft = n] \in Record
         /\ \A n \in 0..OpenTimeout : [s EXCEPT !.sinceOpened = n] \in Record
         /\ \A n \in 0..OpenTimeout : [s EXCEPT !.sinceProbe = n] \in Record
         /\ \A n \in Nat : [s EXCEPT !.generation = n] \in Record
BY DEF Record

\* What the fields of a record are.
LEMMA Fields ==
  ASSUME NEW s \in Record
  PROVE  /\ s.known \in BOOLEAN /\ s.kind \in Kinds
         /\ s.failures \in Nat /\ s.successes \in Nat /\ s.soft \in 0..1
         /\ s.sinceOpened \in 0..OpenTimeout /\ s.sinceProbe \in 0..OpenTimeout
         /\ s.generation \in Nat /\ s.destination \in Nat
BY DEF Record

\* A fresh record is a closed record with nothing counted.
LEMMA FreshRecord ==
  ASSUME NEW g \in Nat, NEW d \in Nat
  PROVE  /\ Fresh(g, d) \in Record
         /\ Fresh(g, d).known /\ Fresh(g, d).kind = "closed"
         /\ Fresh(g, d).failures = 0 /\ Fresh(g, d).soft = 0
         /\ Fresh(g, d).generation = g /\ Fresh(g, d).destination = d
BY DEF Fresh, Record, Kinds

\* A trip leaves an open record of the next generation.
LEMMA TripRecord ==
  ASSUME NEW s \in Record
  PROVE  /\ Trip(s) \in Record
         /\ Trip(s).kind = "open" /\ Trip(s).generation = s.generation + 1
         /\ Trip(s).known = s.known /\ Trip(s).destination = s.destination
<1> DEFINE a == [s EXCEPT !.kind = "open"]
           b == [a EXCEPT !.sinceOpened = 0]
           c == [b EXCEPT !.failures = 0]
           d == [c EXCEPT !.successes = 0]
           e == [d EXCEPT !.soft = 0]
           f == [e EXCEPT !.generation = e.generation + 1]
<1>0. "open" \in Kinds /\ 0 \in 0..OpenTimeout /\ 0 \in 0..1 BY DEF Kinds
<1>1. a \in Record BY <1>0, FieldUpdates
<1>2. b \in Record BY <1>0, <1>1, FieldUpdates
<1>3. c \in Record BY <1>2, FieldUpdates
<1>4. d \in Record BY <1>3, FieldUpdates
<1>5. e \in Record BY <1>0, <1>4, FieldUpdates
<1>6. f \in Record
  <2> HIDE DEF e
  <2>1. e.generation + 1 \in Nat BY <1>5, Fields
  <2>2. QED BY <1>5, <2>1, FieldUpdates
<1>7. Trip(s) \in Record BY <1>6 DEF Trip
<1>8. QED BY <1>7 DEF Record, Trip

\* What Allow does to a record that exists: it stays in its era, or a new
\* destination starts the next one.
LEMMA AllowRecord ==
  ASSUME NEW s \in Record, s.known, NEW d \in Nat, Admits(s, d), NEW t, t = AfterAllow(s, d)
  PROVE  /\ t \in Record /\ t.known
         /\ \/ /\ Overtakes(s, t) /\ t.generation = s.generation + 1
               /\ t.kind = "closed" /\ t.failures = 0 /\ t.soft = 0
            \/ /\ ~Overtakes(s, t) /\ t.generation = s.generation
               /\ s.kind = "closed" => t = s
               /\ s.kind # "closed" => t.kind = "halfOpen"
<1>0. s.generation + 1 \in Nat /\ s.kind \in Kinds BY Fields
<1>1. CASE s.destination # d
  <2>1. t = Fresh(s.generation + 1, d) BY <1>1 DEF AfterAllow, ResetFor
  <2>2. QED BY <1>0, <1>1, <2>1, FreshRecord DEF Overtakes
<1>2. CASE s.destination = d /\ s.kind = "open"
  <2> DEFINE a == [s EXCEPT !.kind = "halfOpen"]
             b == [a EXCEPT !.successes = 0]
             c == [b EXCEPT !.sinceProbe = 0]
  <2>0. "halfOpen" \in Kinds /\ 0 \in 0..OpenTimeout BY DEF Kinds
  <2>1. t = c BY <1>2 DEF AfterAllow, Admits
  <2>2. a \in Record BY <2>0, FieldUpdates
  <2>3. b \in Record BY <2>2, FieldUpdates
  <2>4. c \in Record BY <2>0, <2>3, FieldUpdates
  <2>5. /\ c.kind = "halfOpen" /\ c.known = s.known
        /\ c.generation = s.generation /\ c.destination = s.destination BY DEF Record
  <2> HIDE DEF c
  <2>6. QED BY <1>2, <2>1, <2>4, <2>5 DEF Overtakes
<1>3. CASE s.destination = d /\ s.kind = "halfOpen"
  <2>1. t = [s EXCEPT !.sinceProbe = 0] BY <1>3 DEF AfterAllow, Admits
  <2>2. 0 \in 0..OpenTimeout OBVIOUS
  <2>3. t \in Record BY <2>1, <2>2, FieldUpdates
  <2>4. /\ t.kind = s.kind /\ t.known = s.known
        /\ t.generation = s.generation /\ t.destination = s.destination BY <2>1 DEF Record
  <2>5. QED BY <1>3, <2>3, <2>4 DEF Overtakes
<1>4. CASE s.destination = d /\ s.kind = "closed"
  <2>1. t = s BY <1>4 DEF AfterAllow
  <2>2. QED BY <1>4, <2>1 DEF Overtakes
<1>5. QED BY <1>0, <1>1, <1>2, <1>3, <1>4 DEF Kinds

\* A full fault opens the breaker or adds one to the streak.
LEMMA FaultRecord ==
  ASSUME NEW s \in Record, s.kind # "open"
  PROVE  /\ Fault(s) \in Record
         /\ Fault(s).known = s.known /\ Fault(s).destination = s.destination
         /\ \/ /\ Fault(s).kind = "open"
               /\ Fault(s).generation = s.generation + 1
               /\ s.kind = "closed" => s.failures + 1 >= FailureThreshold
            \/ /\ Fault(s).kind = "closed" /\ s.kind = "closed"
               /\ Fault(s).generation = s.generation
               /\ Fault(s).failures = s.failures + 1
               /\ s.failures + 1 < FailureThreshold
               /\ Fault(s).soft = s.soft
<1>0. s.kind \in {"closed", "halfOpen"} /\ s.failures + 1 \in Nat BY Fields DEF Kinds
<1>1. CASE Fault(s) = Trip(s) /\ (s.kind = "closed" => s.failures + 1 >= FailureThreshold)
  BY <1>1, TripRecord
<1>2. CASE s.kind = "closed" /\ s.failures + 1 < FailureThreshold
  <2>1. Fault(s) = [s EXCEPT !.failures = s.failures + 1] BY <1>0, <1>2 DEF Fault
  <2>2. Fault(s) \in Record BY <1>0, <2>1, FieldUpdates
  <2>3. QED BY <1>2, <2>1, <2>2 DEF Record
<1>3. QED BY <1>0, <1>1, <1>2 DEF Fault

\* A soft fault opens the breaker or adds a half to the streak.
LEMMA SoftFaultRecord ==
  ASSUME NEW s \in Record, s.kind # "open"
  PROVE  /\ SoftFault(s) \in Record
         /\ SoftFault(s).known = s.known /\ SoftFault(s).destination = s.destination
         /\ \/ /\ SoftFault(s).kind = "open"
               /\ SoftFault(s).generation = s.generation + 1
               /\ s.soft = 1
               /\ s.kind = "closed" => s.failures + 1 >= FailureThreshold
            \/ /\ SoftFault(s).kind = s.kind
               /\ SoftFault(s).generation = s.generation
               /\ 2 * SoftFault(s).failures + SoftFault(s).soft
                      = 2 * s.failures + s.soft + 1
               /\ s.failures < FailureThreshold
                      => SoftFault(s).failures < FailureThreshold
<1>0. s.soft \in {0, 1} /\ s.failures \in Nat BY Fields
<1>1. CASE s.soft = 0
  <2>1. SoftFault(s) = [s EXCEPT !.soft = 1] BY <1>1 DEF SoftFault
  <2>2. 1 \in 0..1 OBVIOUS
  <2>3. SoftFault(s) \in Record
    <3>1. \A n \in 0..1 : [s EXCEPT !.soft = n] \in Record BY FieldUpdates
    <3> QED BY <2>1, <2>2, <3>1
  <2>4. QED BY <1>0, <1>1, <2>1, <2>3 DEF Record
<1>2. CASE s.soft = 1
  <2> DEFINE u == [s EXCEPT !.soft = 0]
  <2>1. SoftFault(s) = Fault(u) BY <1>2 DEF SoftFault
  <2>2. 0 \in 0..1 OBVIOUS
  <2>3. u \in Record BY <2>2, FieldUpdates
  <2>4. /\ u.kind = s.kind /\ u.known = s.known /\ u.destination = s.destination
        /\ u.generation = s.generation /\ u.failures = s.failures /\ u.soft = 0 BY DEF Record
  <2> HIDE DEF u
  <2>5. QED BY <1>0, <1>2, <2>1, <2>3, <2>4, FaultRecord
<1>3. QED BY <1>0, <1>1, <1>2

\* A success closes the breaker or clears the streak.
LEMMA HealthyRecord ==
  ASSUME NEW s \in Record, s.known, s.kind # "open"
  PROVE  /\ Healthy(s) \in Record
         /\ Healthy(s).known /\ Healthy(s).destination = s.destination
         /\ \/ /\ s.kind = "halfOpen" /\ Healthy(s).kind = "closed"
               /\ Healthy(s).generation = s.generation + 1
               /\ Healthy(s).failures = 0 /\ Healthy(s).soft = 0
            \/ /\ Healthy(s).kind = s.kind
               /\ Healthy(s).generation = s.generation
               /\ s.kind = "closed" => Healthy(s).failures = 0 /\ Healthy(s).soft = 0
<1>0. /\ s.kind \in {"closed", "halfOpen"} /\ s.successes + 1 \in Nat
      /\ s.generation + 1 \in Nat /\ s.destination \in Nat /\ 0 \in 0..1 BY Fields DEF Kinds
<1>1. CASE s.kind = "closed"
  <2> DEFINE a == [s EXCEPT !.failures = 0]
             b == [a EXCEPT !.soft = 0]
  <2>1. Healthy(s) = b BY <1>1 DEF Healthy
  <2>2. a \in Record BY FieldUpdates
  <2>3. b \in Record BY <1>0, <2>2, FieldUpdates
  <2>4. /\ b.kind = s.kind /\ b.known = s.known /\ b.destination = s.destination
        /\ b.generation = s.generation /\ b.failures = 0 /\ b.soft = 0 BY DEF Record
  <2> HIDE DEF b
  <2>5. QED BY <2>1, <2>3, <2>4
<1>2. CASE s.kind = "halfOpen" /\ s.successes + 1 >= SuccessThreshold
  <2>1. Healthy(s) = Fresh(s.generation + 1, s.destination) BY <1>2 DEF Healthy, ResetFor
  <2>2. QED BY <1>0, <1>2, <2>1, FreshRecord
<1>3. CASE s.kind = "halfOpen" /\ ~(s.successes + 1 >= SuccessThreshold)
  <2> DEFINE a == [s EXCEPT !.soft = 0]
             b == [a EXCEPT !.successes = a.successes + 1]
  <2>1. Healthy(s) = b BY <1>3 DEF Healthy
  <2>2. a \in Record /\ a.successes = s.successes BY <1>0, FieldUpdates DEF Record
  <2>3. b \in Record
    <3> HIDE DEF a
    <3>1. QED BY <1>0, <2>2, FieldUpdates
  <2>4. /\ b.kind = s.kind /\ b.known = s.known /\ b.destination = s.destination
        /\ b.generation = s.generation BY DEF Record
  <2> HIDE DEF b
  <2>5. QED BY <1>3, <2>1, <2>3, <2>4
<1>4. QED BY <1>0, <1>1, <1>2, <1>3

\* The half-faults an effect adds.
Half(effect) == IF effect = "penalize" THEN 2 ELSE 1
Streak(s) == 2 * s.failures + s.soft

\* Booking: nothing for another generation; for its own, the breaker opens,
\* closes, or stays and counts.
LEMMA BookRecord ==
  ASSUME NEW s \in Record, s.known, NEW g \in Nat, NEW e \in Effects,
         s.kind = "open" => g # s.generation,
         NEW t, t = Booked(s, g, e)
  PROVE  /\ t \in Record /\ t.known /\ t.destination = s.destination
         /\ (g # s.generation \/ e = "none") => t = s
         /\ (g = s.generation /\ e # "none") =>
              /\ s.kind # "open"
              /\ \/ /\ t.kind = "open" /\ t.generation = s.generation + 1
                    /\ s.kind = "closed" =>
                          e # "reset" /\ Streak(s) + Half(e) >= 2 * FailureThreshold
                 \/ /\ s.kind = "halfOpen" /\ t.kind = "closed"
                    /\ t.generation = s.generation + 1
                    /\ t.failures = 0 /\ t.soft = 0
                 \/ /\ t.kind = s.kind /\ t.generation = s.generation
                    /\ s.kind = "closed" =>
                          /\ Streak(t) = IF e = "reset" THEN 0 ELSE Streak(s) + Half(e)
                          /\ s.failures < FailureThreshold
                                  => t.failures < FailureThreshold
<1>0. /\ s.failures \in Nat /\ s.soft \in {0, 1} /\ s.generation \in Nat
      /\ FailureThreshold \in Nat BY Fields
<1>1. CASE g # s.generation \/ e = "none" BY <1>1 DEF Booked, Effects
<1>2. CASE g = s.generation /\ e = "reset"
  <2>1. t = Healthy(s) /\ s.kind # "open" BY <1>2 DEF Booked
  <2>2. QED BY <1>0, <1>2, <2>1, HealthyRecord DEF Streak
<1>3. CASE g = s.generation /\ e = "penalize"
  <2>1. t = Fault(s) /\ s.kind # "open" BY <1>3 DEF Booked
  <2>2. t \in Record BY <2>1, FaultRecord
  <2>3. t.failures \in Nat /\ t.soft \in {0, 1} BY <2>2, Fields
  <2>4. QED BY <1>0, <1>3, <2>1, <2>2, <2>3, FaultRecord DEF Streak, Half
<1>4. CASE g = s.generation /\ e = "penalizeSoft"
  <2>1. t = SoftFault(s) /\ s.kind # "open" BY <1>4 DEF Booked
  <2>2. t \in Record BY <2>1, SoftFaultRecord
  <2>3. t.failures \in Nat /\ t.soft \in {0, 1} BY <2>2, Fields
  <2>4. QED BY <1>0, <1>4, <2>1, <2>2, <2>3, SoftFaultRecord DEF Streak, Half
<1>5. QED BY <1>1, <1>2, <1>3, <1>4 DEF Effects

\* The passage of time changes neither the era nor what is counted.
LEMMA AgedRecord ==
  ASSUME NEW s \in Record, NEW t, t = Aged(s)
  PROVE  /\ t \in Record /\ t.known = s.known /\ t.kind = s.kind
         /\ t.generation = s.generation /\ t.destination = s.destination
         /\ t.failures = s.failures /\ t.soft = s.soft
<1> DEFINE u == IF s.sinceOpened < OpenTimeout THEN s.sinceOpened + 1 ELSE s.sinceOpened
           a == [s EXCEPT !.sinceOpened = u]
           v == IF a.sinceProbe < OpenTimeout THEN a.sinceProbe + 1 ELSE a.sinceProbe
           b == [a EXCEPT !.sinceProbe = v]
<1>1. u \in 0..OpenTimeout BY Fields
<1>2. a \in Record
  <2> HIDE DEF u
  <2>1. QED BY <1>1, FieldUpdates
<1>3. v \in 0..OpenTimeout
  <2> HIDE DEF a
  <2>1. QED BY <1>2, Fields
<1>4. b \in Record
  <2> HIDE DEF a, v
  <2>1. QED BY <1>2, <1>3, FieldUpdates
<1>5. t = b BY DEF Aged, Record
<1>6. /\ b.known = s.known /\ b.kind = s.kind
      /\ b.generation = s.generation /\ b.destination = s.destination
      /\ b.failures = s.failures /\ b.soft = s.soft
  <2> HIDE DEF u, v
  <2>1. QED BY DEF Record
<1> HIDE DEF b
<1>7. QED BY <1>4, <1>5, <1>6

\* Marking changes nothing of a request but its history bit.
LEMMA MarkedRecord ==
  ASSUME NEW q \in [Requests -> RequestType], NEW s, NEW t, NEW r \in Requests,
         NEW m, m = MarkOvertaken(s, t, q)
  PROVE  /\ m \in [Requests -> RequestType]
         /\ m[r].pc = q[r].pc /\ m[r].destination = q[r].destination
         /\ m[r].generation = q[r].generation
         /\ Overtakes(s, t) /\ q[r].pc \in {"admitted", "dispatched"}
              => m[r].overtaken
         /\ ~(Overtakes(s, t) /\ q[r].pc \in {"admitted", "dispatched"})
              => m[r] = q[r]
<1>1. CASE Overtakes(s, t) BY <1>1 DEF MarkOvertaken, RequestType
<1>2. CASE ~Overtakes(s, t) BY <1>2 DEF MarkOvertaken
<1>3. QED BY <1>1, <1>2
----------------------------------------
(* The inductive invariant. *)

\* Before the first Allow nobody holds an admission.
Untouched ==
  ~record.known => /\ record.kind = "closed" /\ Streak(record) = 0 /\ weight = 0
                   /\ record.failures = 0
                   /\ record.generation = 0 /\ \A r \in Requests : ~InFlight(r)

\* What a request holds: an admission of the current generation exactly when
\* it is not overtaken, of an older one otherwise, overtaken while open.
Holds(r) ==
  /\ InFlight(r) =>
        /\ req[r].generation <= record.generation
        /\ req[r].overtaken <=> req[r].generation # record.generation
        /\ record.kind = "open" => req[r].overtaken
  /\ ~InFlight(r) => ~req[r].overtaken

\* A closed record's counters are the half-faults of the streak.
Counted ==
  record.kind = "closed" =>
      weight = Streak(record) /\ record.failures < FailureThreshold

IndInv == CircuitTypeOK /\ Untouched /\ (\A r \in Requests : Holds(r)) /\ Counted

\* The requests start idle before an unknown record.
LEMMA InitInv == CircuitInit => IndInv
<1> SUFFICES ASSUME CircuitInit PROVE IndInv OBVIOUS
<1>1. NoRecord \in Record /\ ~NoRecord.known /\ NoRecord.kind = "closed"
      /\ NoRecord.failures = 0 /\ NoRecord.soft = 0 /\ NoRecord.generation = 0
  <2> DEFINE f == Fresh(0, 0)
  <2>1. f \in Record /\ f.kind = "closed" /\ f.failures = 0 /\ f.soft = 0
        /\ f.generation = 0 BY FreshRecord
  <2>2. NoRecord = [f EXCEPT !.known = FALSE] BY DEF NoRecord
  <2> HIDE DEF f
  <2>3. NoRecord \in Record BY <2>1, <2>2, FieldUpdates
  <2>4. QED BY <2>1, <2>2, <2>3 DEF Record
<1>2. Idle \in RequestType /\ Idle.pc = "idle" /\ ~Idle.overtaken BY DEF Idle, RequestType
<1>3. CircuitTypeOK BY <1>1, <1>2 DEF CircuitInit, CircuitTypeOK
<1>4. \A r \in Requests : req[r] = Idle BY DEF CircuitInit
<1>5. \A r \in Requests : Holds(r) /\ ~InFlight(r) BY <1>2, <1>4 DEF Holds, InFlight
<1>6. Untouched /\ Counted BY <1>1, <1>5 DEF Untouched, Counted, CircuitInit, Streak
<1>7. QED BY <1>3, <1>5, <1>6 DEF IndInv

\* A step that only moves a request between its idle, loaded and in-flight
\* points, or drops it, keeps the invariant.
LEMMA QuietStep ==
  ASSUME IndInv, NEW r \in Requests, NEW q \in RequestType, req' = [req EXCEPT ![r] = q],
         UNCHANGED <<record, destination, faults, weight, sinceTrip>>,
         \/ q.pc \in {"idle", "loaded"} /\ ~q.overtaken
         \/ /\ InFlight(r) /\ q.pc = "dispatched"
            /\ q.generation = req[r].generation /\ q.overtaken = req[r].overtaken
  PROVE  IndInv'
<1>1. CircuitTypeOK' BY DEF IndInv, CircuitTypeOK
<1>2. \A x \in Requests \ {r} : req'[x] = req[x] BY DEF IndInv, CircuitTypeOK
<1>3. req'[r] = q BY DEF IndInv, CircuitTypeOK
<1>4. \A x \in Requests : Holds(x)'
  <2> SUFFICES ASSUME NEW x \in Requests PROVE Holds(x)' OBVIOUS
  <2>1. Holds(x) /\ Holds(r) BY DEF IndInv
  <2>2. CASE x # r BY <1>2, <2>1, <2>2 DEF Holds, InFlight
  <2>3. CASE x = r /\ q.pc \in {"idle", "loaded"} /\ ~q.overtaken
    BY <1>3, <2>3 DEF Holds, InFlight
  <2>4. CASE /\ x = r /\ InFlight(r) /\ q.pc = "dispatched"
             /\ q.generation = req[r].generation /\ q.overtaken = req[r].overtaken
    <3>1. /\ req[r].generation <= record.generation
          /\ req[r].overtaken <=> req[r].generation # record.generation
          /\ record.kind = "open" => req[r].overtaken BY <2>1, <2>4 DEF Holds
    <3>2. QED BY <1>3, <2>4, <3>1 DEF Holds, InFlight
  <2>5. QED BY <2>2, <2>3, <2>4
<1>5. Untouched' BY <1>2, <1>3 DEF IndInv, Untouched, InFlight, Streak
<1>6. Counted' BY DEF IndInv, Counted, Streak
<1>7. QED BY <1>1, <1>4, <1>5, <1>6 DEF IndInv

\* LoadProvider, Refused, EnterKey and Leave are such steps.
LEMMA QuietActions ==
  ASSUME IndInv, NEW r \in Requests, LoadProvider(r) \/ Refused(r) \/ EnterKey(r) \/ Leave(r)
  PROVE  IndInv'
<1>1. destination \in Destinations /\ req[r] \in RequestType
      /\ req \in [Requests -> RequestType] BY DEF IndInv, CircuitTypeOK
<1>2. Idle \in RequestType /\ Idle.pc = "idle" /\ ~Idle.overtaken BY DEF Idle, RequestType
<1>3. CASE LoadProvider(r)
  <2> DEFINE q == [Idle EXCEPT !.pc = "loaded", !.destination = destination]
  <2>1. q \in RequestType /\ q.pc = "loaded" /\ ~q.overtaken BY <1>1 DEF RequestType, Idle
  <2>2. req' = [req EXCEPT ![r] = q] BY <1>3 DEF LoadProvider
  <2> HIDE DEF q
  <2>3. QED BY <1>3, <2>1, <2>2, QuietStep DEF LoadProvider
<1>4. CASE Refused(r) \/ Leave(r) BY <1>2, <1>4, QuietStep DEF Refused, Leave
<1>5. CASE EnterKey(r)
  <2> DEFINE q == [req[r] EXCEPT !.pc = "dispatched"]
  <2>1. q \in RequestType /\ q.generation = req[r].generation
        /\ q.overtaken = req[r].overtaken /\ q.pc = "dispatched" BY <1>1 DEF RequestType
  <2>2. req' = [req EXCEPT ![r] = q] /\ InFlight(r) BY <1>5 DEF EnterKey, InFlight
  <2> HIDE DEF q
  <2>3. QED BY <1>5, <2>1, <2>2, QuietStep DEF EnterKey
<1>6. QED BY <1>3, <1>4, <1>5

\* What both moving steps do to the other requests' history bits.
LEMMA MarkedHolds ==
  ASSUME IndInv, NEW x \in Requests, NEW t \in Record,
         \/ /\ Overtakes(record, t) /\ t.generation = record.generation + 1
            /\ record.known
         \/ ~Overtakes(record, t) /\ t.generation = record.generation
            /\ (t.kind = "open" => record.kind = "open"),
         record' = t, NEW m, m = MarkOvertaken(record, t, req), req'[x] = m[x]
  PROVE  Holds(x)'
<1>1. req \in [Requests -> RequestType] /\ record \in Record /\ Holds(x)
  BY DEF IndInv, CircuitTypeOK
<1>2. /\ record.generation \in Nat /\ t.generation \in Nat
      /\ req[x].generation \in Nat BY <1>1, Fields DEF RequestType
<1>3. /\ m[x].pc = req[x].pc /\ m[x].generation = req[x].generation
      /\ Overtakes(record, t) /\ InFlight(x) => m[x].overtaken
      /\ ~(Overtakes(record, t) /\ InFlight(x)) => m[x] = req[x]
  BY <1>1, MarkedRecord DEF InFlight
<1>4. CASE ~InFlight(x) BY <1>1, <1>3, <1>4 DEF Holds, InFlight
<1>5. CASE InFlight(x) /\ Overtakes(record, t)
  <2>1. t.generation = record.generation + 1 /\ req[x].generation <= record.generation
    BY <1>1, <1>5 DEF Holds
  <2>2. req[x].generation <= t.generation /\ req[x].generation # t.generation BY <1>2, <2>1
  <2>3. QED BY <1>3, <1>5, <2>2 DEF Holds, InFlight
<1>6. CASE InFlight(x) /\ ~Overtakes(record, t)
  <2>1. t.generation = record.generation /\ m[x] = req[x]
        /\ (t.kind = "open" => record.kind = "open") BY <1>3, <1>6
  <2>2. QED BY <1>1, <1>6, <2>1 DEF Holds, InFlight
<1>7. QED BY <1>4, <1>5, <1>6

\* Allow keeps the invariant: a new destination overtakes everyone before this
\* request joins, anything else joins the era in force.
LEMMA AdmittedStep ==
  ASSUME IndInv, NEW r \in Requests, Admitted(r)
  PROVE  IndInv'
<1> DEFINE d == req[r].destination
           t == AfterAllow(record, d)
           m == MarkOvertaken(record, t, req)
           q == [[m[r] EXCEPT !.pc = "admitted"] EXCEPT !.generation = t.generation]
<1>1. /\ record \in Record /\ req \in [Requests -> RequestType]
      /\ Admits(record, d) /\ record' = t /\ req[r].pc = "loaded" /\ Holds(r)
      /\ weight \in Nat /\ Untouched /\ Counted BY DEF IndInv, CircuitTypeOK, Admitted
<1>2. d \in Nat
  <2>1. req[r] \in RequestType BY <1>1
  <2>2. req[r].destination \in Destinations \cup {0} BY <2>1 DEF RequestType
  <2>3. \A x \in Destinations \cup {0} : x \in Nat OBVIOUS
  <2>4. QED BY <2>2, <2>3
<1>3. /\ ~record.known => t = Fresh(0, d)
      /\ t \in Record /\ t.known /\ t.kind # "open"
      /\ \/ /\ Overtakes(record, t) /\ t.kind = "closed" /\ Streak(t) = 0 /\ t.failures = 0
            /\ (record.known => t.generation = record.generation + 1)
            /\ (~record.known => t.generation = record.generation)
         \/ /\ ~Overtakes(record, t) /\ t.generation = record.generation
            /\ t.kind = "closed" => /\ record.kind = "closed" /\ Streak(t) = Streak(record)
                                    /\ t.failures = record.failures
  <2>1. CASE record.known
    <3> HIDE DEF t, d
    <3>1. t = AfterAllow(record, d) BY DEF t
    <3>2. QED BY <1>1, <1>2, <2>1, <3>1, AllowRecord, Fields DEF Streak, Kinds
  <2>2. CASE ~record.known
    <3>1. t = Fresh(0, d) BY <2>2 DEF AfterAllow
    <3>2. /\ t \in Record /\ t.known /\ t.kind = "closed" /\ t.failures = 0
          /\ t.soft = 0 /\ t.generation = 0 BY <1>2, <3>1, FreshRecord
    <3> HIDE DEF t
    <3>3. /\ record.kind = "closed" /\ record.generation = 0 /\ Streak(record) = 0
          /\ record.failures = 0 BY <1>1, <2>2 DEF Untouched
    <3>4. QED BY <2>2, <3>1, <3>2, <3>3 DEF Streak
  <2>3. QED BY <2>1, <2>2
<1>4. /\ m \in [Requests -> RequestType]
      /\ m[r] = req[r] /\ \A x \in Requests : m[x].pc = req[x].pc
  <2>1. m = MarkOvertaken(record, t, req) OBVIOUS
  <2> HIDE DEF m, t
  <2>2. QED BY <1>1, <2>1, MarkedRecord
<1>5. q \in RequestType /\ q.pc = "admitted" /\ q.generation = t.generation
      /\ q.overtaken = req[r].overtaken
  <2>1. t.generation \in Nat BY <1>3, Fields
  <2> HIDE DEF t, m
  <2>2. QED BY <1>4, <2>1 DEF RequestType
<1>6. req' = [m EXCEPT ![r] = q] BY <1>4 DEF Admitted
<1> HIDE DEF q, m, t
<1>7. req' \in [Requests -> RequestType] /\ req'[r] = q
      /\ \A x \in Requests \ {r} : req'[x] = m[x] BY <1>4, <1>5, <1>6
<1>8. weight' = IF Overtakes(record, t) THEN 0 ELSE weight BY DEF Admitted, t
<1>9. CircuitTypeOK'
  <2>1. UNCHANGED <<destination, faults, sinceTrip>> /\ weight' \in Nat BY <1>1, <1>8 DEF Admitted
  <2>2. QED BY <1>1, <1>3, <1>7, <2>1 DEF IndInv, CircuitTypeOK
<1>10. \A x \in Requests : Holds(x)'
  <2> SUFFICES ASSUME NEW x \in Requests PROVE Holds(x)' OBVIOUS
  <2>1. CASE x = r
    <3>1. ~req[r].overtaken BY <1>1 DEF Holds, InFlight
    <3>2. QED BY <1>1, <1>3, <1>5, <1>7, <2>1, <3>1, Fields DEF Holds, InFlight
  <2>2. CASE x # r /\ record.known
    <3>1. req'[x] = m[x] /\ m = MarkOvertaken(record, t, req) BY <1>7, <2>2 DEF m
    <3>2. QED BY <1>1, <1>3, <2>2, <3>1, MarkedHolds
  <2>3. CASE x # r /\ ~record.known
    <3>1. ~InFlight(x) /\ Holds(x) BY <1>1, <2>3 DEF IndInv, Untouched
    <3>2. m = MarkOvertaken(record, t, req) BY DEF m
    <3>3. m[x] = req[x] BY <1>1, <3>1, <3>2, MarkedRecord DEF InFlight
    <3>4. QED BY <1>7, <2>3, <3>1, <3>3 DEF Holds, InFlight
  <2>4. QED BY <2>1, <2>2, <2>3
<1>11. Untouched' BY <1>1, <1>3 DEF Untouched
<1>12. Counted' BY <1>1, <1>3, <1>8 DEF Counted, Streak
<1>13. QED BY <1>9, <1>10, <1>11, <1>12 DEF IndInv

\* A booking keeps the invariant: what opens or closes the breaker overtakes
\* everyone, this request included; what does not stays in the era.
LEMMA BookStep ==
  ASSUME IndInv, NEW r \in Requests, NEW e \in Effects, Book(r, e)
  PROVE  /\ IndInv'
         /\ req[r].overtaken => record' = record
         /\ (record.kind = "closed" /\ record'.kind = "open")
                  => weight' >= 2 * FailureThreshold
<1> DEFINE g == req[r].generation
           t == Booked(record, g, e)
           m == MarkOvertaken(record, t, req)
           q == [m[r] EXCEPT !.pc = "admitted"]
<1>1. /\ record \in Record /\ req \in [Requests -> RequestType]
      /\ record' = t /\ req[r].pc = "dispatched" /\ Holds(r) /\ InFlight(r)
      /\ weight \in Nat /\ Untouched /\ Counted /\ UNCHANGED destination
  BY DEF IndInv, CircuitTypeOK, Book, InFlight
<1>2. /\ record.known /\ req[r] \in RequestType /\ g \in Nat
      /\ record.kind = "open" => g # record.generation
      /\ req[r].overtaken => g # record.generation
      /\ g # record.generation => req[r].overtaken BY <1>1 DEF Untouched, Holds, RequestType
<1>3. /\ t \in Record /\ t.known /\ t.destination = record.destination
      /\ (g # record.generation \/ e = "none") => t = record
      /\ (g = record.generation /\ e # "none") =>
           /\ record.kind # "open"
           /\ \/ /\ t.kind = "open" /\ t.generation = record.generation + 1
                 /\ record.kind = "closed" =>
                       e # "reset" /\ Streak(record) + Half(e) >= 2 * FailureThreshold
              \/ /\ record.kind = "halfOpen" /\ t.kind = "closed"
                 /\ t.generation = record.generation + 1
                 /\ t.failures = 0 /\ t.soft = 0
              \/ /\ t.kind = record.kind /\ t.generation = record.generation
                 /\ record.kind = "closed" =>
                       /\ Streak(t) = IF e = "reset" THEN 0 ELSE Streak(record) + Half(e)
                       /\ record.failures < FailureThreshold
                               => t.failures < FailureThreshold
  <2> HIDE DEF g
  <2>1. t = Booked(record, g, e) OBVIOUS
  <2> HIDE DEF t
  <2>2. QED BY <1>1, <1>2, <2>1, BookRecord
<1> HIDE DEF t
<1>4. \/ Overtakes(record, t) /\ t.generation = record.generation + 1
      \/ /\ ~Overtakes(record, t) /\ t.generation = record.generation
         /\ t.kind = record.kind BY <1>3 DEF Overtakes
<1>5. /\ m \in [Requests -> RequestType] /\ m[r].pc = req[r].pc
      /\ m[r].generation = g
      /\ Overtakes(record, t) => m[r].overtaken
      /\ ~Overtakes(record, t) => m[r] = req[r]
  <2>1. m = MarkOvertaken(record, t, req) OBVIOUS
  <2> HIDE DEF m
  <2>2. QED BY <1>1, <2>1, MarkedRecord
<1>6. q \in RequestType /\ q.pc = "admitted" /\ q.generation = g
      /\ q.overtaken = m[r].overtaken
  <2> HIDE DEF m, g
  <2>1. m[r] \in RequestType BY <1>5
  <2>2. QED BY <1>5, <2>1 DEF RequestType
<1>7. req' = [m EXCEPT ![r] = q] BY <1>5 DEF Book, t
<1> HIDE DEF q, m, g
<1>8. req' \in [Requests -> RequestType] /\ req'[r] = q
      /\ \A x \in Requests \ {r} : req'[x] = m[x] BY <1>5, <1>6, <1>7
<1>9. weight' = IF Overtakes(record, t) /\ t.kind = "closed" THEN 0 ELSE Weigh(r, e)
  BY DEF Book, t, g
<1>10. /\ Weigh(r, e) \in Nat
       /\ (req[r].overtaken \/ e = "none" \/ record.kind # "closed")
              => Weigh(r, e) = weight
       /\ (~req[r].overtaken /\ e # "none" /\ record.kind = "closed")
              => Weigh(r, e) = IF e = "reset" THEN 0 ELSE weight + Half(e)
  BY <1>1 DEF Weigh, Half, Effects
<1>11. CircuitTypeOK'
  <2>1. faults' \in 0..MaxFaults /\ sinceTrip' \in 0..OpenTimeout
    BY DEF IndInv, CircuitTypeOK, Book
  <2>2. weight' \in Nat BY <1>9, <1>10
  <2>3. QED BY <1>1, <1>3, <1>8, <2>1, <2>2 DEF IndInv, CircuitTypeOK
<1>12. \A x \in Requests : Holds(x)'
  <2> SUFFICES ASSUME NEW x \in Requests PROVE Holds(x)' OBVIOUS
  <2>1. CASE x # r
    <3>1. req'[x] = m[x] /\ m = MarkOvertaken(record, t, req) BY <1>8, <2>1 DEF m
    <3>2. QED BY <1>1, <1>2, <1>3, <1>4, <3>1, MarkedHolds
  <2>2. CASE x = r
    <3>1. record.generation \in Nat /\ g <= record.generation BY <1>1, Fields DEF Holds, g
    <3>2. /\ t.kind = record.kind => (record.kind = "open" => req[r].overtaken)
          /\ req[r].overtaken <=> g # record.generation BY <1>1, <1>2 DEF Holds, g
    <3>3. /\ g <= t.generation
          /\ q.overtaken <=> g # t.generation
          /\ t.kind = "open" => q.overtaken BY <1>2, <1>4, <1>5, <1>6, <3>1, <3>2
    <3>4. QED BY <1>1, <1>6, <1>8, <2>2, <3>3 DEF Holds, InFlight
  <2>3. QED BY <2>1, <2>2
<1>13. Untouched' BY <1>1, <1>3 DEF Untouched
<1>14. Counted' /\ (record.kind = "closed" /\ record'.kind = "open"
                        => weight' >= 2 * FailureThreshold)
  <2>1. record.kind = "closed" => weight = Streak(record) /\ record.failures < FailureThreshold
    BY <1>1 DEF Counted
  <2>2. CASE g # record.generation \/ e = "none"
    <3>1. t = record /\ ~Overtakes(record, t) BY <1>3, <2>2 DEF Overtakes
    <3>2. record.kind = "closed" => weight' = weight BY <1>2, <1>9, <1>10, <2>2, <3>1
    <3>3. QED BY <1>1, <2>1, <3>1, <3>2 DEF Counted
  <2>3. CASE g = record.generation /\ e # "none" /\ record.kind = "closed"
    <3>1. Weigh(r, e) = IF e = "reset" THEN 0 ELSE Streak(record) + Half(e)
      BY <1>2, <1>10, <2>1, <2>3
    <3>2. \/ /\ t.kind = "open" /\ e # "reset"
             /\ Streak(record) + Half(e) >= 2 * FailureThreshold
          \/ /\ t.kind = "closed" /\ ~Overtakes(record, t)
             /\ Streak(t) = IF e = "reset" THEN 0 ELSE Streak(record) + Half(e)
             /\ t.failures < FailureThreshold BY <1>3, <2>1, <2>3 DEF Overtakes
    <3>3. QED BY <1>1, <1>9, <3>1, <3>2 DEF Counted, Streak
  <2>4. CASE g = record.generation /\ e # "none" /\ record.kind # "closed"
    <3>1. \/ t.kind # "closed"
          \/ Overtakes(record, t) /\ t.failures = 0 /\ t.soft = 0 /\ t.kind = "closed"
      BY <1>3, <2>4 DEF Overtakes
    <3>2. QED BY <1>1, <1>9, <2>4, <3>1 DEF Counted, Streak
  <2>5. QED BY <2>2, <2>3, <2>4
<1>15. req[r].overtaken => record' = record BY <1>1, <1>2, <1>3
<1>16. QED BY <1>11, <1>12, <1>13, <1>14, <1>15 DEF IndInv

\* The invariant is inductive.
LEMMA NextInv == IndInv /\ [CircuitNext]_circuit => IndInv'
<1> SUFFICES ASSUME IndInv, [CircuitNext]_circuit PROVE IndInv' OBVIOUS
<1>1. ASSUME NEW r \in Requests, Step(r) PROVE IndInv'
  BY <1>1, QuietActions, AdmittedStep, BookStep DEF Step
<1>2. CASE Repair
  <2>1. CircuitTypeOK' BY <1>2 DEF Repair, IndInv, CircuitTypeOK
  <2>2. \A r \in Requests : Holds(r)' BY <1>2 DEF Repair, IndInv, Holds, InFlight
  <2>3. Untouched' /\ Counted' BY <1>2 DEF Repair, IndInv, Untouched, Counted, InFlight, Streak
  <2>4. QED BY <2>1, <2>2, <2>3 DEF IndInv
<1>3. CASE CircuitTick
  <2>1. /\ record \in Record /\ sinceTrip \in 0..OpenTimeout
        /\ record' = Aged(record) /\ UNCHANGED <<destination, req, faults, weight>>
    BY <1>3 DEF CircuitTick, IndInv, CircuitTypeOK
  <2>2. /\ record' \in Record /\ record'.known = record.known
        /\ record'.kind = record.kind /\ record'.generation = record.generation
        /\ record'.failures = record.failures /\ record'.soft = record.soft BY <2>1, AgedRecord
  <2>3. sinceTrip' \in 0..OpenTimeout BY <1>3, <2>1 DEF CircuitTick
  <2>4. CircuitTypeOK' BY <2>1, <2>2, <2>3 DEF IndInv, CircuitTypeOK
  <2>5. \A r \in Requests : Holds(r)' BY <2>1, <2>2 DEF IndInv, Holds, InFlight
  <2>6. Untouched' /\ Counted' BY <2>1, <2>2 DEF IndInv, Untouched, Counted, InFlight, Streak
  <2>7. QED BY <2>4, <2>5, <2>6 DEF IndInv
<1>4. CASE UNCHANGED circuit
  BY <1>4 DEF circuit, IndInv, CircuitTypeOK, Untouched, Holds, InFlight, Counted, Streak
<1>5. QED BY <1>1, <1>2, <1>3, <1>4 DEF CircuitNext
----------------------------------------
(* The properties. *)

\* The invariant holds throughout.
THEOREM CircuitInvariance == CircuitSpec => []IndInv
<1>1. QED BY InitInv, NextInv, PTL DEF CircuitSpec

\* The breaker, the provider row and the requests keep their types.
THEOREM CircuitTypeCorrect == CircuitSpec => []CircuitTypeOK
<1>1. IndInv => CircuitTypeOK BY DEF IndInv
<1>2. QED BY <1>1, CircuitInvariance, PTL

\* A generation is an era, whatever the interleaving of requests, trips,
\* recoveries and repairs.
THEOREM GenerationsSound == CircuitSpec => []GenerationsNameEras
<1>1. IndInv => GenerationsNameEras BY DEF IndInv, Holds, GenerationsNameEras
<1>2. QED BY <1>1, CircuitInvariance, PTL

\* Nobody holds a current admission to an open breaker: the branches the code
\* calls unreachable (circuit.go:243 and 318) are.
THEOREM OpenIsSealed == CircuitSpec => []OpenHasNoLiveAdmission
<1>1. IndInv => OpenHasNoLiveAdmission BY DEF IndInv, Holds, OpenHasNoLiveAdmission, Live
<1>2. QED BY <1>1, CircuitInvariance, PTL

\* A result of an earlier era never changes the record.
THEOREM LateResultsDropped == CircuitSpec => OvertakenNeverBooks
<1>1. ASSUME IndInv, [CircuitNext]_circuit
      PROVE  [\A r \in Requests :
                (req[r].pc = "dispatched" /\ req'[r].pc = "admitted" /\ req[r].overtaken)
                    => record' = record]_circuit
  <2> SUFFICES ASSUME NEW r \in Requests, CircuitNext, req[r].pc = "dispatched",
                      req'[r].pc = "admitted", req[r].overtaken
               PROVE  record' = record BY <1>1
  <2>1. req \in [Requests -> RequestType] BY <1>1 DEF IndInv, CircuitTypeOK
  <2>2. \E e \in Effects : Book(r, e)
    <3>1. ASSUME NEW x \in Requests, x # r, Step(x) PROVE req'[r].pc = req[r].pc
      <4>1. CASE LoadProvider(x) \/ Refused(x) \/ EnterKey(x) \/ Leave(x)
        BY <2>1, <3>1, <4>1 DEF LoadProvider, Refused, EnterKey, Leave
      <4>2. CASE Admitted(x) BY <2>1, <3>1, <4>2, MarkedRecord DEF Admitted
      <4>3. CASE \E e \in Effects : Book(x, e) BY <2>1, <3>1, <4>3, MarkedRecord DEF Book
      <4>4. QED BY <3>1, <4>1, <4>2, <4>3 DEF Step
    <3>2. CASE Step(r) BY <2>1, <3>2 DEF Step, LoadProvider, Refused, Admitted, EnterKey, Leave
    <3>3. CASE Repair \/ CircuitTick BY <3>3 DEF Repair, CircuitTick
    <3>4. QED BY <3>1, <3>2, <3>3 DEF CircuitNext
  <2>3. QED BY <1>1, <2>2, BookStep
<1>2. QED BY <1>1, CircuitInvariance, PTL DEF CircuitSpec, OvertakenNeverBooks

\* The breaker opens at the threshold, and not before.
THEOREM ThresholdExact == CircuitSpec => OpensAtThreshold
<1>1. IndInv => (record.kind = "closed" => weight < 2 * FailureThreshold)
  <2> SUFFICES ASSUME IndInv, record.kind = "closed"
               PROVE  weight < 2 * FailureThreshold OBVIOUS
  <2>1. record.soft \in {0, 1} /\ record.failures \in Nat BY Fields DEF IndInv, CircuitTypeOK
  <2>2. QED BY <2>1 DEF IndInv, Counted, Streak
<1>2. ASSUME IndInv, [CircuitNext]_circuit
      PROVE  [(record.kind = "closed" /\ record'.kind = "open")
                => weight' >= 2 * FailureThreshold]_circuit
  <2> SUFFICES ASSUME CircuitNext, record.kind = "closed", record'.kind = "open"
               PROVE  weight' >= 2 * FailureThreshold BY <1>2
  <2>1. record \in Record /\ req \in [Requests -> RequestType] BY <1>2 DEF IndInv, CircuitTypeOK
  <2>2. ASSUME NEW r \in Requests, Step(r)
        PROVE  \E e \in Effects : Book(r, e)
    <3>1. CASE LoadProvider(r) \/ Refused(r) \/ EnterKey(r) \/ Leave(r)
      BY <3>1 DEF LoadProvider, Refused, EnterKey, Leave
    <3>2. CASE Admitted(r)
      <4>1. req[r].destination \in Nat
        <5>1. req[r].destination \in Destinations \cup {0} BY <2>1 DEF RequestType
        <5>2. \A x \in Destinations \cup {0} : x \in Nat OBVIOUS
        <5>3. QED BY <5>1, <5>2
      <4>2. CASE record.known BY <2>1, <3>2, <4>1, <4>2, AllowRecord DEF Admitted
      <4>3. CASE ~record.known BY <3>2, <4>1, <4>3, FreshRecord DEF Admitted, AfterAllow
      <4>4. QED BY <4>2, <4>3
    <3>3. QED BY <2>2, <3>1, <3>2 DEF Step
  <2>3. CASE Repair BY <2>3 DEF Repair
  <2>4. CASE CircuitTick BY <2>1, <2>4, AgedRecord DEF CircuitTick
  <2>5. QED BY <1>2, <2>2, <2>3, <2>4, BookStep DEF CircuitNext
<1>3. QED BY <1>1, <1>2, CircuitInvariance, PTL DEF CircuitSpec, OpensAtThreshold
----------------------------------------
(* The refinement. *)

\* Whoever is in flight and not overtaken is live.
LEMMA LiveIsCurrent ==
  ASSUME IndInv
  PROVE  Live = {r \in Requests : InFlight(r) /\ ~req[r].overtaken}
BY DEF IndInv, Holds, Live

\* What a request's step does to the live set.
LEMMA LiveStep ==
  ASSUME IndInv, IndInv', NEW r \in Requests, NEW t, NEW m, NEW q,
         record' = t, m = MarkOvertaken(record, t, req),
         m \in [Requests -> RequestType], req' = [m EXCEPT ![r] = q]
  PROVE  /\ Overtakes(record, t) => Live' \ {r} = {}
         /\ ~Overtakes(record, t) => Live' \ {r} = Live \ {r}
         /\ r \in Live' <=> q.pc \in {"admitted", "dispatched"} /\ ~q.overtaken
<1>1. req \in [Requests -> RequestType] BY DEF IndInv, CircuitTypeOK
<1>2. req'[r] = q /\ \A x \in Requests \ {r} : req'[x] = m[x] OBVIOUS
<1>3. \A x \in Requests \ {r} :
         /\ m[x].pc = req[x].pc
         /\ Overtakes(record, t) /\ InFlight(x) => m[x].overtaken
         /\ ~Overtakes(record, t) => m[x] = req[x]
  <2> SUFFICES ASSUME NEW x \in Requests
               PROVE  /\ m[x].pc = req[x].pc
                      /\ Overtakes(record, t) /\ InFlight(x) => m[x].overtaken
                      /\ ~Overtakes(record, t) => m[x] = req[x] OBVIOUS
  <2>1. m = MarkOvertaken(record, t, req) OBVIOUS
  <2>2. /\ m[x].pc = req[x].pc
        /\ Overtakes(record, t) /\ req[x].pc \in {"admitted", "dispatched"}
                => m[x].overtaken
        /\ ~(Overtakes(record, t) /\ req[x].pc \in {"admitted", "dispatched"})
                => m[x] = req[x] BY ONLY <1>1, <2>1, x \in Requests, MarkedRecord
  <2>3. QED BY <2>2 DEF InFlight
<1>4. Live = {x \in Requests : InFlight(x) /\ ~req[x].overtaken} BY LiveIsCurrent
<1>5. Live' = {x \in Requests : InFlight(x)' /\ ~req'[x].overtaken} BY DEF IndInv, Holds, Live
<1>6. \A x \in Requests \ {r} : Overtakes(record, t) => x \notin Live'
  BY <1>2, <1>3, <1>5 DEF InFlight
<1>7. \A x \in Requests \ {r} :
         ~Overtakes(record, t) => (x \in Live' <=> x \in Live)
  BY <1>2, <1>3, <1>4, <1>5 DEF InFlight
<1>8. r \in Live' <=> q.pc \in {"admitted", "dispatched"} /\ ~q.overtaken
  BY <1>2, <1>5 DEF InFlight
<1>9. QED BY <1>4, <1>5, <1>6, <1>7, <1>8

\* The breaker implements BreakerEras: only admissions of the era in force move
\* it, a trip or a closing ends them all, nobody is admitted while it is open.
THEOREM Refinement == CircuitSpec => RefinesEras
<1>1. CircuitInit => Eras!Init
  <2> SUFFICES ASSUME CircuitInit PROVE Eras!Init OBVIOUS
  <2>1. record.kind = "closed" BY DEF CircuitInit, NoRecord, Fresh
  <2>2. \A r \in Requests : ~InFlight(r) BY DEF CircuitInit, InFlight, Idle
  <2>3. QED BY <2>1, <2>2 DEF Eras!Init, Live
<1>2. ASSUME IndInv, IndInv', [CircuitNext]_circuit
      PROVE  [Eras!Next]_(Eras!vars)
  <2>0. /\ record \in Record /\ req \in [Requests -> RequestType]
        /\ record' \in Record /\ req' \in [Requests -> RequestType]
        /\ \A r \in Requests : Holds(r) BY <1>2 DEF IndInv, CircuitTypeOK
  <2>1. ASSUME NEW r \in Requests, LoadProvider(r) \/ Refused(r) \/ EnterKey(r)
        PROVE  UNCHANGED Eras!vars
    <3>1. UNCHANGED record BY <2>1 DEF LoadProvider, Refused, EnterKey
    <3>2. \A x \in Requests \ {r} : req'[x] = req[x]
      BY <2>0, <2>1 DEF LoadProvider, Refused, EnterKey
    <3>3. \/ ~InFlight(r) /\ ~InFlight(r)'
          \/ /\ InFlight(r) /\ InFlight(r)'
             /\ req'[r].generation = req[r].generation
      <4>1. req[r] \in RequestType BY <2>0
      <4>2. CASE LoadProvider(r) BY <2>0, <4>2 DEF LoadProvider, InFlight, Idle
      <4>3. CASE Refused(r) BY <2>0, <4>3 DEF Refused, InFlight, Idle
      <4>4. CASE EnterKey(r) BY <2>0, <4>1, <4>4 DEF EnterKey, InFlight, RequestType
      <4>5. QED BY <2>1, <4>2, <4>3, <4>4
    <3>4. Live' = Live BY <3>1, <3>2, <3>3 DEF Live, InFlight
    <3>5. QED BY <3>1, <3>4 DEF Eras!vars
  <2>2. ASSUME NEW r \in Requests, Leave(r) PROVE Eras!Finish(r)
    <3>1. UNCHANGED record BY <2>2 DEF Leave
    <3>2. /\ ~InFlight(r)'
          /\ \A x \in Requests \ {r} : req'[x] = req[x] BY <2>0, <2>2 DEF Leave, Idle, InFlight
    <3>3. Live' = Live \ {r} BY <3>1, <3>2 DEF Live, InFlight
    <3>4. QED BY <3>1, <3>3 DEF Eras!Finish
  <2>3. ASSUME NEW r \in Requests, Admitted(r)
        PROVE  Eras!Admit(r) \/ Eras!Probe(r) \/ Eras!Restart(r)
    <3> DEFINE t == AfterAllow(record, req[r].destination)
               m == MarkOvertaken(record, t, req)
               q == [[m[r] EXCEPT !.pc = "admitted"] EXCEPT !.generation = t.generation]
    <3>1. /\ record' = t
          /\ Admits(record, req[r].destination) /\ req[r].pc = "loaded" BY <2>3 DEF Admitted
    <3>2. m \in [Requests -> RequestType] /\ m[r] = req[r]
      <4>1. m = MarkOvertaken(record, t, req) OBVIOUS
      <4> HIDE DEF m, t
      <4>2. QED BY <2>0, <3>1, <4>1, MarkedRecord
    <3>3. req' = [m EXCEPT ![r] = q] BY <2>3, <3>2 DEF Admitted
    <3>4. q.pc = "admitted" /\ ~q.overtaken
      <4>1. ~req[r].overtaken /\ req[r] \in RequestType BY <2>0, <3>1 DEF Holds, InFlight
      <4>2. m[r] \in RequestType /\ ~m[r].overtaken BY <3>2, <4>1
      <4> HIDE DEF m, t
      <4>3. QED BY <4>2 DEF RequestType
    <3>t. t = AfterAllow(record, req[r].destination) /\ m = MarkOvertaken(record, t, req) OBVIOUS
    <3> HIDE DEF q, m, t
    <3>5. /\ Overtakes(record, t) => Live' \ {r} = {}
          /\ ~Overtakes(record, t) => Live' \ {r} = Live \ {r}
          /\ r \in Live' BY <1>2, <3>t, <3>1, <3>2, <3>3, <3>4, LiveStep
    <3>6. r \notin Live BY <3>1 DEF Live, InFlight
    <3>7. Live \subseteq Requests /\ Live' \subseteq Requests BY DEF Live
    <3>8. req[r].destination \in Nat
      <4>1. req[r] \in RequestType BY <2>0
      <4>2. req[r].destination \in Destinations \cup {0} BY <4>1 DEF RequestType
      <4>3. \A x \in Destinations \cup {0} : x \in Nat OBVIOUS
      <4>4. QED BY <4>2, <4>3
    <3>9. CASE Overtakes(record, t) \/ ~record.known
      <4>1. record'.kind = "closed"
        <5>1. CASE record.known BY <2>0, <3>t, <3>1, <3>8, <3>9, <5>1, AllowRecord
        <5>2. CASE ~record.known BY <3>t, <3>1, <3>8, <5>2, FreshRecord DEF AfterAllow
        <5>3. QED BY <5>1, <5>2
      <4>2. ~record.known => Live = {} BY <1>2 DEF IndInv, Untouched, Live
      <4>3. Live' = {r} BY <3>5, <3>7, <3>9, <4>2
      <4>4. QED BY <4>1, <4>3 DEF Eras!Restart
    <3>10. CASE ~Overtakes(record, t) /\ record.known
      <4>1. /\ record.kind = "closed" => record' = record
            /\ record.kind # "closed" => record'.kind = "halfOpen"
        BY <2>0, <3>t, <3>1, <3>8, <3>10, AllowRecord
      <4>2. Live' = Live \cup {r} BY <3>5, <3>6, <3>7, <3>10
      <4>3. record.kind \in {"closed", "open", "halfOpen"} BY <2>0, Fields DEF Kinds
      <4>4. QED BY <4>1, <4>2, <4>3 DEF Eras!Admit, Eras!Probe
    <3>11. QED BY <3>9, <3>10
  <2>4. ASSUME NEW r \in Requests, NEW e \in Effects, Book(r, e)
        PROVE  Eras!Open(r) \/ Eras!Close(r) \/ UNCHANGED Eras!vars
    <3> DEFINE g == req[r].generation
               t == Booked(record, g, e)
               m == MarkOvertaken(record, t, req)
               q == [m[r] EXCEPT !.pc = "admitted"]
    <3>1. /\ record' = t /\ req[r].pc = "dispatched" /\ InFlight(r) BY <2>4 DEF Book, InFlight
    <3>2. /\ m \in [Requests -> RequestType] /\ m[r].pc = req[r].pc
          /\ m[r].generation = g
          /\ Overtakes(record, t) => m[r].overtaken
          /\ ~Overtakes(record, t) => m[r] = req[r]
      <4>1. m = MarkOvertaken(record, t, req) OBVIOUS
      <4> HIDE DEF m, t
      <4>2. QED BY <2>0, <3>1, <4>1, MarkedRecord
    <3>3. req' = [m EXCEPT ![r] = q] BY <2>4, <3>2 DEF Book
    <3>4. q.pc = "admitted" /\ q.overtaken = m[r].overtaken
      <4>1. m[r] \in RequestType BY <3>2
      <4> HIDE DEF m
      <4>2. QED BY <4>1 DEF RequestType
    <3>t. t = Booked(record, g, e) /\ m = MarkOvertaken(record, t, req) OBVIOUS
    <3> HIDE DEF q, m, t
    <3>5. /\ Overtakes(record, t) => Live' \ {r} = {}
          /\ ~Overtakes(record, t) => Live' \ {r} = Live \ {r}
          /\ r \in Live' <=> ~m[r].overtaken BY <1>2, <3>t, <3>1, <3>2, <3>3, <3>4, LiveStep
    <3>6. Live \subseteq Requests /\ Live' \subseteq Requests BY DEF Live
    <3>7. /\ r \in Live <=> g = record.generation
          /\ r \in Live <=> ~req[r].overtaken
          /\ record.kind = "open" => g # record.generation
          /\ record.known /\ g \in Nat
      <4>1. Holds(r) /\ req[r] \in RequestType BY <2>0
      <4>2. record.known BY <1>2, <3>1 DEF IndInv, Untouched
      <4>3. QED BY <3>1, <4>1, <4>2 DEF Holds, Live, RequestType
    <3> HIDE DEF g
    <3>8. CASE Overtakes(record, t)
      <4>1. Live' = {} BY <3>2, <3>5, <3>6, <3>8
      <4>2. /\ r \in Live /\ record.kind # "open"
            /\ record'.kind = "open" \/ (record.kind = "halfOpen" /\ record'.kind = "closed")
        BY <2>0, <3>t, <3>1, <3>7, <3>8, BookRecord DEF Overtakes
      <4>3. QED BY <4>1, <4>2 DEF Eras!Open, Eras!Close
    <3>9. CASE ~Overtakes(record, t)
      <4>1. Live' = Live BY <3>2, <3>5, <3>6, <3>7, <3>9
      <4>2. record'.kind = record.kind BY <2>0, <3>t, <3>1, <3>7, <3>9, BookRecord DEF Overtakes
      <4>3. QED BY <4>1, <4>2 DEF Eras!vars
    <3>10. QED BY <3>8, <3>9
  <2>5. CASE Repair \/ CircuitTick
    <3>1. record'.kind = record.kind /\ record'.generation = record.generation
      BY <2>0, <2>5, AgedRecord DEF Repair, CircuitTick
    <3>2. UNCHANGED req BY <2>5 DEF Repair, CircuitTick
    <3>3. QED BY <3>1, <3>2 DEF Eras!vars, Live, InFlight
  <2>6. CASE UNCHANGED circuit BY <2>6 DEF circuit, Eras!vars, Live, InFlight
  <2>7. QED BY <1>2, <2>1, <2>2, <2>3, <2>4, <2>5, <2>6 DEF CircuitNext, Step, Eras!Next
<1>3. QED BY <1>1, <1>2, CircuitInvariance, PTL DEF CircuitSpec, RefinesEras, Eras!Spec
----------------------------------------
(***************************************************************************)
(* The key pool.                                                           *)
(***************************************************************************)

USE WindowsAssumption, BoundsAssumption

\* What a record says of the newest verdicts on its credential: all of it, and of
\* the 429s no more than there were; a bench is only of a 429 that nothing refutes.
Knows(t, h) ==
  /\ t.invalidatedAt = h.bad /\ t.recoveredAt = h.ok /\ t.limitedAt <= h.limit
  /\ Benched(t) => /\ h.bad < t.limitedAt
                   /\ h.ok <= t.benchInstalled
                   /\ t.limitedAt <= t.benchInstalled

\* The newest 429, if newer than the rest, has its bench.
Keeps(t, h, time) ==
  (h.limit > h.ok /\ h.limit > h.bad) =>
      /\ t.limitedAt = h.limit
      /\ time < h.until => t.benchUntil >= h.until
----------------------------------------
(* Records. *)

\* What the fields of a record are.
LEMMA RecordFields ==
  ASSUME NEW s \in Records
  PROVE  /\ s.cfg \in 0..MaxConfig /\ s.benchUntil \in Nat /\ s.benchInstalled \in Nat
         /\ s.limitedAt \in Nat /\ s.invalidatedAt \in Nat /\ s.recoveredAt \in Nat
BY DEF Records

\* Changing one field within its type leaves a record with that field changed.
LEMMA RecordUpdates ==
  ASSUME NEW s \in Records
  PROVE  /\ \A x \in Nat : [s EXCEPT !.benchUntil = x] \in Records
         /\ \A x \in Nat : [s EXCEPT !.benchInstalled = x] \in Records
         /\ \A x \in Nat : [s EXCEPT !.limitedAt = x] \in Records
         /\ \A x \in Nat : [s EXCEPT !.invalidatedAt = x] \in Records
         /\ \A x \in Nat : [s EXCEPT !.recoveredAt = x] \in Records
BY DEF Records

LEMMA VerdictFields ==
  ASSUME NEW h \in Verdicts
  PROVE  h.limit \in Nat /\ h.until \in Nat /\ h.ok \in Nat /\ h.bad \in Nat
BY DEF Verdicts

\* A blank record knows nothing, like a pool that was told nothing.
LEMMA BlankRecord ==
  ASSUME NEW c \in 0..MaxConfig, NEW time
  PROVE  /\ Blank(c) \in Records /\ Blank(c).cfg = c /\ ~Benched(Blank(c))
         /\ Silence \in Verdicts
         /\ Knows(Blank(c), Silence) /\ Keeps(Blank(c), Silence, time)
<1> DEFINE b == [cfg |-> c, benchUntil |-> 0, benchInstalled |-> 0,
                 limitedAt |-> 0, invalidatedAt |-> 0, recoveredAt |-> 0]
<1>1. b \in Records BY DEF Records
<1>2. b.cfg = c /\ b.benchUntil = 0 /\ b.invalidatedAt = 0 /\ b.recoveredAt = 0
      /\ b.limitedAt = 0 OBVIOUS
<1>3. Blank(c) = b BY DEF Blank
<1> HIDE DEF b
<1>4. Silence \in Verdicts /\ Silence.limit = 0 /\ Silence.ok = 0 /\ Silence.bad = 0
  BY DEF Silence, Verdicts
<1> QED BY <1>1, <1>2, <1>3, <1>4 DEF Benched, Knows, Keeps

\* What dropping a bench does to the fields.
LEMMA DropBenchRecord ==
  ASSUME NEW s \in Records
  PROVE  LET d == DropBench(s) IN
         /\ d \in Records /\ d.cfg = s.cfg /\ d.benchUntil = 0 /\ ~Benched(d)
         /\ d.limitedAt = s.limitedAt /\ d.invalidatedAt = s.invalidatedAt
         /\ d.recoveredAt = s.recoveredAt
<1> DEFINE a == [s EXCEPT !.benchUntil = 0]
           b == [a EXCEPT !.benchInstalled = 0]
<1>1. a \in Records BY RecordUpdates
<1>2. /\ a.benchUntil = 0 /\ a.cfg = s.cfg /\ a.limitedAt = s.limitedAt
      /\ a.invalidatedAt = s.invalidatedAt /\ a.recoveredAt = s.recoveredAt BY DEF Records
<1> HIDE DEF a
<1>3. b \in Records BY <1>1, RecordUpdates
<1>4. /\ b.benchUntil = a.benchUntil /\ b.cfg = a.cfg /\ b.limitedAt = a.limitedAt
      /\ b.invalidatedAt = a.invalidatedAt /\ b.recoveredAt = a.recoveredAt BY <1>1 DEF Records
<1>5. DropBench(s) = b BY DEF DropBench, a
<1> HIDE DEF b
<1> QED BY <1>2, <1>3, <1>4, <1>5 DEF Benched
----------------------------------------
(* Verdicts, on a record of their own credential. *)

\* What coolKey does with a 429 that names a window.
Cooled(t, at, d, time) ==
  IF NewerThanAll(t, at)
  THEN [t EXCEPT !.benchUntil = time + d, !.benchInstalled = time, !.limitedAt = at]
  ELSE t

NewLimit(h, at, d, time) == [h EXCEPT !.limit = at, !.until = time + d]

HeardLimit(h, at, d, time) == IF at > h.limit THEN NewLimit(h, at, d, time) ELSE h

LEMMA NewLimitFields ==
  ASSUME NEW h \in Verdicts, NEW at \in Nat, NEW d \in Nat, NEW time \in Nat
  PROVE  LET k == NewLimit(h, at, d, time) IN
         /\ k \in Verdicts /\ k.limit = at /\ k.until = time + d
         /\ k.ok = h.ok /\ k.bad = h.bad
<1> DEFINE a == [h EXCEPT !.limit = at]
           b == [a EXCEPT !.until = time + d]
<1>1. a \in Verdicts /\ a.limit = at /\ a.ok = h.ok /\ a.bad = h.bad BY DEF Verdicts
<1>2. NewLimit(h, at, d, time) = b BY DEF NewLimit, a
<1> HIDE DEF a
<1>3. /\ b \in Verdicts /\ b.limit = a.limit /\ b.until = time + d /\ b.ok = a.ok
      /\ b.bad = a.bad BY <1>1 DEF Verdicts
<1> HIDE DEF b
<1> QED BY <1>1, <1>2, <1>3

\* What a 429 that counts leaves in a record.
BenchLaid(t, at, d, time, k) ==
  /\ k \in Records /\ k.cfg = t.cfg /\ k.benchUntil = time + d
  /\ k.benchInstalled = time /\ k.limitedAt = at
  /\ k.invalidatedAt = t.invalidatedAt /\ k.recoveredAt = t.recoveredAt

LEMMA CooledFields ==
  ASSUME NEW t \in Records, NEW at \in Nat, NEW d \in Nat, NEW time \in Nat, NewerThanAll(t, at)
  PROVE  BenchLaid(t, at, d, time, Cooled(t, at, d, time))
<1> DEFINE a == [t EXCEPT !.benchUntil = time + d]
           b == [a EXCEPT !.benchInstalled = time]
           c == [b EXCEPT !.limitedAt = at]
<1>1. /\ a \in Records /\ a.cfg = t.cfg /\ a.benchUntil = time + d
      /\ a.invalidatedAt = t.invalidatedAt /\ a.recoveredAt = t.recoveredAt
  <2>1. a \in Records BY RecordUpdates
  <2> QED BY <2>1 DEF Records
<1>2. Cooled(t, at, d, time) = c BY DEF Cooled, a, b
<1> HIDE DEF a
<1>3. /\ b \in Records /\ b.cfg = a.cfg /\ b.benchUntil = a.benchUntil
      /\ b.benchInstalled = time
      /\ b.invalidatedAt = a.invalidatedAt /\ b.recoveredAt = a.recoveredAt
  <2>1. b \in Records BY <1>1, RecordUpdates
  <2> QED BY <1>1, <2>1 DEF Records
<1> HIDE DEF b
<1>4. /\ c \in Records /\ c.cfg = b.cfg /\ c.benchUntil = b.benchUntil
      /\ c.benchInstalled = b.benchInstalled /\ c.limitedAt = at
      /\ c.invalidatedAt = b.invalidatedAt /\ c.recoveredAt = b.recoveredAt
  <2>1. c \in Records BY <1>3, RecordUpdates
  <2> QED BY <1>3, <2>1 DEF Records
<1> HIDE DEF c
<1> QED BY <1>1, <1>2, <1>3, <1>4 DEF BenchLaid

\* A 429 is booked if it is the newest evidence, and heard if it is the newest 429.
LEMMA CoolingAgrees ==
  ASSUME NEW t \in Records, NEW h \in Verdicts, Knows(t, h),
         NEW at \in Nat, NEW d \in Nat, NEW time \in Nat, at <= time
  PROVE  LET u == Cooled(t, at, d, time)
             k == HeardLimit(h, at, d, time) IN
         /\ u \in Records /\ k \in Verdicts /\ u.cfg = t.cfg /\ Knows(u, k)
         /\ Keeps(t, h, time) => Keeps(u, k, time)
         /\ u.benchUntil < t.benchUntil => u.limitedAt > t.limitedAt
<1> DEFINE u == Cooled(t, at, d, time)
           k == HeardLimit(h, at, d, time)
<1>a. ASSUME NewerThanAll(t, at)
      PROVE  /\ u \in Records /\ u.cfg = t.cfg /\ u.benchUntil = time + d
             /\ u.benchInstalled = time /\ u.limitedAt = at
             /\ u.invalidatedAt = t.invalidatedAt /\ u.recoveredAt = t.recoveredAt
  <2>1. BenchLaid(t, at, d, time, u) BY <1>a, CooledFields
  <2> HIDE DEF u
  <2> QED BY <2>1, Zenon DEF BenchLaid
<1>b. ~NewerThanAll(t, at) => u = t BY Zenon DEF Cooled
<1>c. at > h.limit => /\ k \in Verdicts /\ k.limit = at /\ k.until = time + d
                      /\ k.ok = h.ok /\ k.bad = h.bad
  <2> SUFFICES ASSUME at > h.limit
               PROVE  /\ k \in Verdicts /\ k.limit = at /\ k.until = time + d
                      /\ k.ok = h.ok /\ k.bad = h.bad OBVIOUS
  <2>1. k = NewLimit(h, at, d, time) BY DEF HeardLimit
  <2>2. NewLimit(h, at, d, time) \in Verdicts BY NewLimitFields
  <2>3. NewLimit(h, at, d, time).limit = at BY NewLimitFields
  <2>4. NewLimit(h, at, d, time).until = time + d BY NewLimitFields
  <2>5. NewLimit(h, at, d, time).ok = h.ok BY NewLimitFields
  <2>6. NewLimit(h, at, d, time).bad = h.bad BY NewLimitFields
  <2> QED BY <2>1, <2>2, <2>3, <2>4, <2>5, <2>6
<1>d. ~(at > h.limit) => k = h BY Zenon DEF HeardLimit
<1>e. u = Cooled(t, at, d, time) /\ k = HeardLimit(h, at, d, time) OBVIOUS
<1> HIDE DEF u, k
<1>1. /\ t.benchUntil \in Nat /\ t.benchInstalled \in Nat /\ t.limitedAt \in Nat
      /\ t.invalidatedAt \in Nat /\ t.recoveredAt \in Nat
      /\ h.limit \in Nat /\ h.until \in Nat /\ h.ok \in Nat /\ h.bad \in Nat
  BY RecordFields, VerdictFields
<1>2. NewerThanAll(t, at) <=> at > t.invalidatedAt /\ at > t.recoveredAt /\ at > t.limitedAt
  BY DEF NewerThanAll
<1>3. u \in Records /\ k \in Verdicts /\ u.cfg = t.cfg BY <1>a, <1>b, <1>c, <1>d
<1>4. Knows(u, k)
  <2>1. CASE NewerThanAll(t, at) BY <1>a, <1>b, <1>c, <1>d, <1>1, <1>2, <2>1 DEF Knows
  <2>2. CASE ~NewerThanAll(t, at) BY <1>a, <1>b, <1>c, <1>d, <1>1, <2>2 DEF Knows
  <2> QED BY <2>1, <2>2
<1>5. ASSUME Keeps(t, h, time) PROVE Keeps(u, k, time)
  <2>1. CASE NewerThanAll(t, at) BY <1>a, <1>c, <1>d, <1>1, <1>2, <1>5, <2>1 DEF Knows, Keeps
  <2>2. CASE ~NewerThanAll(t, at) BY <1>a, <1>b, <1>c, <1>d, <1>1, <1>2, <1>5, <2>2 DEF Knows, Keeps
  <2> QED BY <2>1, <2>2
<1>6. u.benchUntil < t.benchUntil => u.limitedAt > t.limitedAt BY <1>a, <1>b, <1>c, <1>d, <1>1, <1>2
<1> QED BY <1>e, <1>3, <1>4, <1>5, <1>6

\* What lengthenKeyBench does with a window the body names.
Lengthened(t, at, d, time) ==
  IF OwnsBench(t, at) /\ time + d > t.benchUntil
  THEN [t EXCEPT !.benchUntil = time + d] ELSE t

\* A bench only grows by it.
LEMMA LengtheningAgrees ==
  ASSUME NEW t \in Records, NEW h \in Verdicts, Knows(t, h),
         NEW at \in Nat, NEW d \in Nat, NEW time \in Nat
  PROVE  LET u == Lengthened(t, at, d, time) IN
         /\ u \in Records /\ u.cfg = t.cfg /\ Knows(u, h)
         /\ Keeps(t, h, time) => Keeps(u, h, time)
         /\ u.benchUntil >= t.benchUntil
<1> DEFINE u == Lengthened(t, at, d, time)
           a == [t EXCEPT !.benchUntil = time + d]
<1>1. /\ a \in Records /\ a.cfg = t.cfg /\ a.benchUntil = time + d
      /\ a.benchInstalled = t.benchInstalled /\ a.limitedAt = t.limitedAt
      /\ a.invalidatedAt = t.invalidatedAt /\ a.recoveredAt = t.recoveredAt
  <2>1. a \in Records BY RecordUpdates
  <2> QED BY <2>1 DEF Records
<1>2. \/ u = t
      \/ u = a /\ Benched(t) /\ time + d > t.benchUntil BY Zenon DEF Lengthened, OwnsBench
<1>3. t.benchUntil \in Nat BY RecordFields
<1> HIDE DEF u, a
<1>4. /\ u \in Records /\ u.cfg = t.cfg /\ Knows(u, h)
      /\ Keeps(t, h, time) => Keeps(u, h, time)
      /\ u.benchUntil >= t.benchUntil
  <2>1. CASE u = t BY <1>3, <2>1
  <2>2. CASE u = a /\ Benched(t) /\ time + d > t.benchUntil
    <3>1. Knows(u, h) BY <1>1, <2>2 DEF Knows
    <3>2. ASSUME Keeps(t, h, time) PROVE Keeps(u, h, time)
      <4>1. h.until \in Nat BY VerdictFields
      <4> QED BY <1>1, <1>3, <2>2, <3>2, <4>1 DEF Keeps
    <3> QED BY <1>1, <1>3, <2>2, <3>1, <3>2
  <2> QED BY <1>2, <2>1, <2>2
<1> QED BY <1>4 DEF u

\* What dropKey does with a rejection, and what is heard of it.
Dropped(t, observed) ==
  LET u == [t EXCEPT !.invalidatedAt = IF observed > @ THEN observed ELSE @] IN
  IF Ends(t, observed) THEN DropBench(u) ELSE u

HeardBad(h, observed) == [h EXCEPT !.bad = Newest(@, observed)]

\* A rejection ends the bench of every 429 dispatched before it.
LEMMA DroppingAgrees ==
  ASSUME NEW t \in Records, NEW h \in Verdicts, Knows(t, h),
         NEW observed \in Nat, NEW time \in Nat
  PROVE  /\ Dropped(t, observed) \in Records /\ HeardBad(h, observed) \in Verdicts
         /\ Dropped(t, observed).cfg = t.cfg
         /\ Knows(Dropped(t, observed), HeardBad(h, observed))
         /\ Keeps(t, h, time) => Keeps(Dropped(t, observed), HeardBad(h, observed), time)
         /\ Dropped(t, observed).benchUntil < t.benchUntil =>
               Dropped(t, observed).invalidatedAt >= t.limitedAt
<1> DEFINE a == [t EXCEPT !.invalidatedAt = IF observed > @ THEN observed ELSE @]
           u == Dropped(t, observed)
           k == HeardBad(h, observed)
<1>1. /\ t.benchUntil \in Nat /\ t.benchInstalled \in Nat /\ t.limitedAt \in Nat
      /\ t.invalidatedAt \in Nat /\ t.recoveredAt \in Nat
      /\ h.limit \in Nat /\ h.until \in Nat /\ h.ok \in Nat /\ h.bad \in Nat
  BY RecordFields, VerdictFields
<1> DEFINE bad == IF observed > h.bad THEN observed ELSE h.bad
<1>2. bad \in Nat /\ bad >= observed /\ bad >= h.bad /\ (bad = observed \/ bad = h.bad) BY <1>1
<1>3. t.invalidatedAt = h.bad BY DEF Knows
<1>4. a = [t EXCEPT !.invalidatedAt = bad] BY <1>3
<1>5. k = [h EXCEPT !.bad = bad]
  <2>1. Newest(h.bad, observed) = bad BY <1>1 DEF Newest
  <2> QED BY <2>1, Zenon DEF HeardBad
<1> HIDE DEF bad
<1>6. /\ a \in Records /\ a.cfg = t.cfg /\ a.benchUntil = t.benchUntil
      /\ a.benchInstalled = t.benchInstalled /\ a.limitedAt = t.limitedAt
      /\ a.invalidatedAt = bad /\ a.recoveredAt = t.recoveredAt
  <2> HIDE DEF a
  <2>1. a \in Records BY <1>2, <1>4, RecordUpdates
  <2> QED BY <1>4, <2>1 DEF Records
<1>7. k \in Verdicts /\ k.bad = bad /\ k.limit = h.limit /\ k.until = h.until /\ k.ok = h.ok
  <2> HIDE DEF k
  <2> QED BY <1>2, <1>5 DEF Verdicts
<1>8. u = IF Ends(t, observed) THEN DropBench(a) ELSE a BY Zenon DEF Dropped
<1> HIDE DEF a, k, u
<1>9. CASE Ends(t, observed)
  <2>1. /\ u \in Records /\ u.cfg = t.cfg /\ u.benchUntil = 0 /\ ~Benched(u)
        /\ u.limitedAt = t.limitedAt /\ u.invalidatedAt = bad /\ u.recoveredAt = t.recoveredAt
    BY <1>6, <1>8, <1>9, DropBenchRecord
  <2>2. t.limitedAt <= observed BY <1>9 DEF Ends
  <2>3. Knows(u, k) BY <1>7, <2>1 DEF Knows
  <2>4. ASSUME Keeps(t, h, time) PROVE Keeps(u, k, time)
    BY <1>1, <1>2, <1>7, <2>1, <2>2, <2>4 DEF Keeps
  <2>5. u.invalidatedAt >= t.limitedAt BY <1>1, <1>2, <2>1, <2>2
  <2> QED BY <1>7, <2>1, <2>3, <2>4, <2>5 DEF u, k
<1>10. CASE ~Ends(t, observed)
  <2>1. u = a BY <1>8, <1>10
  <2>2. Benched(t) => observed < t.limitedAt BY <1>1, <1>10 DEF Ends
  <2>3. Benched(u) <=> Benched(t) BY <1>6, <2>1 DEF Benched
  <2>4. Knows(u, k) BY <1>1, <1>2, <1>6, <1>7, <2>1, <2>2, <2>3 DEF Knows
  <2>5. ASSUME Keeps(t, h, time) PROVE Keeps(u, k, time)
    BY <1>1, <1>2, <1>6, <1>7, <2>1, <2>5 DEF Keeps
  <2>6. ~(u.benchUntil < t.benchUntil) BY <1>1, <1>6, <2>1
  <2> QED BY <1>6, <1>7, <2>1, <2>4, <2>5, <2>6 DEF u, k
<1> QED BY <1>9, <1>10

\* What clearKey does with a success, and what is heard of it.
Cleared(t, at) ==
  LET u == [t EXCEPT !.recoveredAt = IF at > @ THEN at ELSE @] IN
  IF Releases(t, at) THEN DropBench(u) ELSE u

HeardOK(h, at) == [h EXCEPT !.ok = Newest(@, at)]

\* A success ends the benches booked before it was dispatched.
LEMMA ClearingAgrees ==
  ASSUME NEW t \in Records, NEW h \in Verdicts, Knows(t, h), NEW at \in Nat, NEW time \in Nat
  PROVE  /\ Cleared(t, at) \in Records /\ HeardOK(h, at) \in Verdicts
         /\ Cleared(t, at).cfg = t.cfg
         /\ Knows(Cleared(t, at), HeardOK(h, at))
         /\ Keeps(t, h, time) => Keeps(Cleared(t, at), HeardOK(h, at), time)
         /\ Cleared(t, at).benchUntil < t.benchUntil =>
               Cleared(t, at).recoveredAt > t.benchInstalled
<1> DEFINE a == [t EXCEPT !.recoveredAt = IF at > @ THEN at ELSE @]
           u == Cleared(t, at)
           k == HeardOK(h, at)
<1>1. /\ t.benchUntil \in Nat /\ t.benchInstalled \in Nat /\ t.limitedAt \in Nat
      /\ t.invalidatedAt \in Nat /\ t.recoveredAt \in Nat
      /\ h.limit \in Nat /\ h.until \in Nat /\ h.ok \in Nat /\ h.bad \in Nat
  BY RecordFields, VerdictFields
<1> DEFINE ok == IF at > h.ok THEN at ELSE h.ok
<1>2. ok \in Nat /\ ok >= at /\ ok >= h.ok /\ (ok = at \/ ok = h.ok) BY <1>1
<1>3. t.recoveredAt = h.ok BY DEF Knows
<1>4. a = [t EXCEPT !.recoveredAt = ok] BY <1>3
<1>5. k = [h EXCEPT !.ok = ok]
  <2>1. Newest(h.ok, at) = ok BY <1>1 DEF Newest
  <2> QED BY <2>1, Zenon DEF HeardOK
<1> HIDE DEF ok
<1>6. /\ a \in Records /\ a.cfg = t.cfg /\ a.benchUntil = t.benchUntil
      /\ a.benchInstalled = t.benchInstalled /\ a.limitedAt = t.limitedAt
      /\ a.invalidatedAt = t.invalidatedAt /\ a.recoveredAt = ok
  <2> HIDE DEF a
  <2>1. a \in Records BY <1>2, <1>4, RecordUpdates
  <2> QED BY <1>4, <2>1 DEF Records
<1>7. k \in Verdicts /\ k.ok = ok /\ k.limit = h.limit /\ k.until = h.until /\ k.bad = h.bad
  <2> HIDE DEF k
  <2> QED BY <1>2, <1>5 DEF Verdicts
<1>8. u = IF Releases(t, at) THEN DropBench(a) ELSE a BY Zenon DEF Cleared
<1> HIDE DEF a, k, u
<1>9. CASE Releases(t, at)
  <2>1. /\ u \in Records /\ u.cfg = t.cfg /\ u.benchUntil = 0 /\ ~Benched(u)
        /\ u.limitedAt = t.limitedAt /\ u.invalidatedAt = t.invalidatedAt /\ u.recoveredAt = ok
    BY <1>6, <1>8, <1>9, DropBenchRecord
  <2>2. at > t.benchInstalled /\ Benched(t) BY <1>9 DEF Releases
  <2>3. Knows(u, k) BY <1>7, <2>1 DEF Knows
  <2>4. ASSUME Keeps(t, h, time) PROVE Keeps(u, k, time)
    BY <1>1, <1>2, <1>7, <2>1, <2>2, <2>4 DEF Keeps, Knows
  <2>5. u.recoveredAt > t.benchInstalled BY <1>1, <1>2, <2>1, <2>2
  <2> QED BY <1>7, <2>1, <2>3, <2>4, <2>5 DEF u, k
<1>10. CASE ~Releases(t, at)
  <2>1. u = a BY <1>8, <1>10
  <2>2. Benched(t) => at <= t.benchInstalled BY <1>1, <1>10 DEF Releases
  <2>3. Benched(u) <=> Benched(t) BY <1>6, <2>1 DEF Benched
  <2>4. Knows(u, k) BY <1>1, <1>2, <1>6, <1>7, <2>1, <2>2, <2>3 DEF Knows
  <2>5. ASSUME Keeps(t, h, time) PROVE Keeps(u, k, time)
    BY <1>1, <1>2, <1>6, <1>7, <2>1, <2>5 DEF Keeps
  <2>6. ~(u.benchUntil < t.benchUntil) BY <1>1, <1>6, <2>1
  <2> QED BY <1>6, <1>7, <2>1, <2>4, <2>5, <2>6 DEF u, k
<1> QED BY <1>9, <1>10
----------------------------------------
(* The pool's record and what the pool was told. *)

\* The record p agrees with what the pool was told, hs, when credential cur is in
\* use: it is about the newest credential anything was told about, knows what was
\* told about that one, and keeps the newest 429's bench if that one is in use.
Agrees(p, hs, cur, time) ==
  /\ p.cfg <= cur
  /\ \A c \in Configs : c > p.cfg => hs[c] = Silence
  /\ p.cfg \in Configs => Knows(p, hs[p.cfg])
  /\ p.cfg = cur => Keeps(p, hs[cur], time)
  /\ p.cfg = 0 => ~Benched(p)

\* What a verdict on a credential in use, now or before, finds.
LEMMA StateForAgrees ==
  ASSUME NEW p \in Records, NEW hs \in [Configs -> Verdicts], NEW cur \in Configs,
         NEW time \in Nat, Agrees(p, hs, cur, time), NEW c \in Configs, c <= cur, c >= p.cfg
  PROVE  /\ StateFor(p, c) \in Records
         /\ StateFor(p, c).cfg = c
         /\ Knows(StateFor(p, c), hs[c])
         /\ c = cur => Keeps(StateFor(p, c), hs[c], time)
         /\ p.cfg < c \/ StateFor(p, c) = p
<1>1. p.cfg \in Nat /\ c \in Nat /\ c \in 0..MaxConfig BY RecordFields DEF Configs
<1>2. CASE p.cfg = c
  <2>1. StateFor(p, c) = p BY <1>2 DEF StateFor
  <2> QED BY <1>2, <2>1 DEF Agrees
<1>3. CASE p.cfg # c
  <2>1. c > p.cfg BY <1>1, <1>3
  <2>2. StateFor(p, c) = Blank(c) BY <1>3, Zenon DEF StateFor
  <2>3. hs[c] = Silence BY <2>1 DEF Agrees
  <2>4. /\ Blank(c) \in Records /\ Blank(c).cfg = c
        /\ Knows(Blank(c), Silence) /\ Keeps(Blank(c), Silence, time) BY <1>1, BlankRecord
  <2> QED BY <2>1, <2>2, <2>3, <2>4
<1> QED BY <1>2, <1>3

\* A record brought up to date with a verdict agrees with the telling of it.
LEMMA VerdictAgrees ==
  ASSUME NEW p \in Records, NEW hs \in [Configs -> Verdicts], NEW cur \in Configs,
         NEW time \in Nat, Agrees(p, hs, cur, time), NEW c \in Configs, c <= cur, c >= p.cfg,
         NEW u \in Records, u.cfg = c, NEW k \in Verdicts, Knows(u, k),
         c = cur => Keeps(u, k, time)
  PROVE  Agrees(u, [hs EXCEPT ![c] = k], cur, time)
<1> DEFINE ks == [hs EXCEPT ![c] = k]
<1>1. ks[c] = k /\ \A e \in Configs : e # c => ks[e] = hs[e] OBVIOUS
<1>2. p.cfg \in Nat /\ c \in Nat /\ c # 0 BY RecordFields DEF Configs
<1> HIDE DEF ks
<1>3. ASSUME NEW e \in Configs, e > c PROVE ks[e] = Silence
  <2>1. e > p.cfg /\ e # c BY <1>2, <1>3 DEF Configs
  <2> QED BY <1>1, <2>1 DEF Agrees
<1>4. Agrees(u, ks, cur, time) BY <1>1, <1>2, <1>3 DEF Agrees
<1> QED BY <1>4 DEF ks

\* A verdict on an older credential than the record's says nothing to it.
LEMMA DeafAgrees ==
  ASSUME NEW p \in Records, NEW hs \in [Configs -> Verdicts], NEW cur \in Configs,
         NEW time \in Nat, Agrees(p, hs, cur, time), NEW c \in Configs, c < p.cfg, NEW k
  PROVE  Agrees(p, [hs EXCEPT ![c] = k], cur, time)
<1> DEFINE ks == [hs EXCEPT ![c] = k]
<1>1. \A e \in Configs : e # c => ks[e] = hs[e] OBVIOUS
<1>2. p.cfg \in Nat /\ cur \in Nat /\ c \in Nat BY RecordFields DEF Configs
<1> HIDE DEF ks
<1>3. \A e \in Configs : e > p.cfg => ks[e] = Silence BY <1>1, <1>2 DEF Agrees, Configs
<1>4. p.cfg # c BY <1>2
<1>5. Agrees(p, ks, cur, time) BY <1>1, <1>3, <1>4 DEF Agrees
<1> QED BY <1>5 DEF ks

\* A walk prunes no bench of the credential in use before its time.
LEMMA PrunedAgrees ==
  ASSUME NEW p \in Records, NEW hs \in [Configs -> Verdicts], NEW cur \in Configs,
         NEW time \in Nat, Agrees(p, hs, cur, time), NEW c \in Configs, c <= cur
  PROVE  /\ Pruned(p, c, time) \in Records
         /\ Agrees(Pruned(p, c, time), hs, cur, time)
         /\ Pruned(p, c, time).benchUntil < p.benchUntil =>
               p.cfg < cur \/ p.benchUntil <= time
<1> DEFINE u == DropBench(p)
<1>1. CASE Benched(p) /\ Expired(p, c, time)
  <2>1. Pruned(p, c, time) = u BY <1>1, Zenon DEF Pruned
  <2>2. /\ u \in Records /\ u.cfg = p.cfg /\ u.benchUntil = 0 /\ ~Benched(u)
        /\ u.limitedAt = p.limitedAt /\ u.invalidatedAt = p.invalidatedAt
        /\ u.recoveredAt = p.recoveredAt BY DropBenchRecord
  <2>3. p.cfg < cur \/ p.benchUntil <= time BY <1>1, RecordFields DEF Expired, Configs
  <2> HIDE DEF u
  <2>4. p.cfg \in Configs => Knows(u, hs[p.cfg]) BY <2>2 DEF Agrees, Knows
  <2>5. p.cfg = cur => Keeps(u, hs[cur], time)
    <3> SUFFICES ASSUME p.cfg = cur PROVE Keeps(u, hs[cur], time) OBVIOUS
    <3>1. Keeps(p, hs[cur], time) BY DEF Agrees
    <3>2. hs[cur].until \in Nat BY VerdictFields
    <3>3. p.benchUntil <= time /\ p.benchUntil \in Nat BY <2>3, RecordFields DEF Configs
    <3> QED BY <2>2, <3>1, <3>2, <3>3 DEF Keeps
  <2>6. Agrees(u, hs, cur, time) BY <2>2, <2>4, <2>5 DEF Agrees
  <2> QED BY <2>1, <2>2, <2>3, <2>6
<1>2. CASE ~(Benched(p) /\ Expired(p, c, time))
  <2>1. Pruned(p, c, time) = p BY <1>2, Zenon DEF Pruned
  <2> QED BY <2>1, RecordFields
<1> QED BY <1>1, <1>2
----------------------------------------
(* Verdicts, on whatever record the pool has. *)

\* Going from p to u, the bench of the credential in use is not cut short.
NotCut(p, u, cur, time) ==
  (time < p.benchUntil /\ u.benchUntil < p.benchUntil) =>
      \/ p.cfg < cur
      \/ u.limitedAt > p.limitedAt
      \/ u.recoveredAt > p.benchInstalled
      \/ u.invalidatedAt >= p.limitedAt

\* coolKey, and the telling of a 429 that names a window.
LEMMA CoolKeyAgrees ==
  ASSUME NEW p \in Records, NEW hs \in [Configs -> Verdicts], NEW cur \in Configs,
         NEW time \in Nat, Agrees(p, hs, cur, time), NEW c \in Configs, c <= cur,
         NEW at \in Nat, NEW d \in Nat, at <= time, d # 0
  PROVE  /\ CoolKey(p, c, at, d, time) \in Records
         /\ HeardLimit(hs[c], at, d, time) \in Verdicts
         /\ Agrees(CoolKey(p, c, at, d, time),
                   [hs EXCEPT ![c] = HeardLimit(hs[c], at, d, time)], cur, time)
         /\ NotCut(p, CoolKey(p, c, at, d, time), cur, time)
<1> DEFINE t == StateFor(p, c)
           u == Cooled(t, at, d, time)
           k == HeardLimit(hs[c], at, d, time)
<1>0. p.cfg \in Nat /\ c \in Nat /\ cur \in Nat /\ p.benchUntil \in Nat
  BY RecordFields DEF Configs
<1>1. CASE Hears(p, c)
  <2>1. c >= p.cfg BY <1>1 DEF Hears
  <2>2. /\ t \in Records /\ t.cfg = c /\ Knows(t, hs[c])
        /\ c = cur => Keeps(t, hs[c], time)
        /\ p.cfg < c \/ t = p BY <2>1, StateForAgrees
  <2>3. CoolKey(p, c, at, d, time) = u BY <1>1, Zenon DEF CoolKey, Cooled
  <2> HIDE DEF t
  <2>4. /\ u \in Records /\ k \in Verdicts /\ u.cfg = t.cfg /\ Knows(u, k)
        /\ Keeps(t, hs[c], time) => Keeps(u, k, time)
        /\ u.benchUntil < t.benchUntil => u.limitedAt > t.limitedAt
    <3>1. hs[c] \in Verdicts OBVIOUS
    <3> QED BY <2>2, <3>1, CoolingAgrees
  <2> HIDE DEF u, k
  <2>5. Agrees(u, [hs EXCEPT ![c] = k], cur, time) BY <2>1, <2>2, <2>4, VerdictAgrees
  <2>6. NotCut(p, u, cur, time) BY <1>0, <2>2, <2>4 DEF NotCut
  <2> QED BY <2>3, <2>4, <2>5, <2>6 DEF k
<1>2. CASE ~Hears(p, c)
  <2>1. c < p.cfg BY <1>0, <1>2 DEF Hears
  <2>2. CoolKey(p, c, at, d, time) = p BY <1>2, Zenon DEF CoolKey
  <2>3. k \in Verdicts
    <3>1. hs[c] \in Verdicts OBVIOUS
    <3>2. NewLimit(hs[c], at, d, time) \in Verdicts BY <3>1, NewLimitFields
    <3> QED BY <3>1, <3>2 DEF HeardLimit
  <2> HIDE DEF k
  <2>4. Agrees(p, [hs EXCEPT ![c] = k], cur, time) BY <2>1, DeafAgrees
  <2>5. NotCut(p, p, cur, time) BY <1>0 DEF NotCut
  <2> QED BY <2>2, <2>3, <2>4, <2>5 DEF k
<1> QED BY <1>1, <1>2

\* lengthenKeyBench: nothing is told, for the 429 was told of already.
LEMMA LengthenKeyBenchAgrees ==
  ASSUME NEW p \in Records, NEW hs \in [Configs -> Verdicts], NEW cur \in Configs,
         NEW time \in Nat, Agrees(p, hs, cur, time), NEW c \in Configs, c <= cur,
         NEW at \in Nat, NEW d \in Nat
  PROVE  /\ LengthenKeyBench(p, c, at, d, time) \in Records
         /\ Agrees(LengthenKeyBench(p, c, at, d, time), hs, cur, time)
         /\ NotCut(p, LengthenKeyBench(p, c, at, d, time), cur, time)
<1> DEFINE t == StateFor(p, c)
           u == Lengthened(t, at, d, time)
<1>0. p.cfg \in Nat /\ c \in Nat /\ cur \in Nat /\ p.benchUntil \in Nat
  BY RecordFields DEF Configs
<1>1. CASE Hears(p, c) /\ d # 0
  <2>1. c >= p.cfg BY <1>1 DEF Hears
  <2>2. /\ t \in Records /\ t.cfg = c /\ Knows(t, hs[c])
        /\ c = cur => Keeps(t, hs[c], time)
        /\ p.cfg < c \/ t = p BY <2>1, StateForAgrees
  <2>3. LengthenKeyBench(p, c, at, d, time) = u BY <1>1, Zenon DEF LengthenKeyBench, Lengthened
  <2> HIDE DEF t
  <2>4. /\ u \in Records /\ u.cfg = t.cfg /\ Knows(u, hs[c])
        /\ Keeps(t, hs[c], time) => Keeps(u, hs[c], time)
        /\ u.benchUntil >= t.benchUntil
    <3>1. hs[c] \in Verdicts OBVIOUS
    <3> QED BY <2>2, <3>1, LengtheningAgrees
  <2> HIDE DEF u
  <2>5. Agrees(u, [hs EXCEPT ![c] = hs[c]], cur, time)
    <3>1. hs[c] \in Verdicts OBVIOUS
    <3> QED BY <2>1, <2>2, <2>4, <3>1, VerdictAgrees
  <2>6. [hs EXCEPT ![c] = hs[c]] = hs OBVIOUS
  <2>7. u.benchUntil \in Nat BY <2>4, RecordFields
  <2>8. NotCut(p, u, cur, time) BY <1>0, <2>2, <2>4, <2>7 DEF NotCut
  <2> QED BY <2>3, <2>4, <2>5, <2>6, <2>8
<1>2. CASE ~(Hears(p, c) /\ d # 0)
  <2>1. LengthenKeyBench(p, c, at, d, time) = p BY <1>2, Zenon DEF LengthenKeyBench
  <2>2. NotCut(p, p, cur, time) BY <1>0 DEF NotCut
  <2> QED BY <2>1, <2>2
<1> QED BY <1>1, <1>2

\* dropKey, and the telling of a rejection.
LEMMA DropKeyAgrees ==
  ASSUME NEW p \in Records, NEW hs \in [Configs -> Verdicts], NEW cur \in Configs,
         NEW time \in Nat, Agrees(p, hs, cur, time), NEW c \in Configs, c <= cur,
         NEW observed \in Nat
  PROVE  /\ DropKey(p, c, observed) \in Records
         /\ HeardBad(hs[c], observed) \in Verdicts
         /\ Agrees(DropKey(p, c, observed),
                   [hs EXCEPT ![c] = HeardBad(hs[c], observed)], cur, time)
         /\ NotCut(p, DropKey(p, c, observed), cur, time)
<1> DEFINE t == StateFor(p, c)
           u == Dropped(t, observed)
           k == HeardBad(hs[c], observed)
<1>0. p.cfg \in Nat /\ c \in Nat /\ cur \in Nat /\ p.benchUntil \in Nat
  BY RecordFields DEF Configs
<1>1. CASE Hears(p, c)
  <2>1. c >= p.cfg BY <1>1 DEF Hears
  <2>2. /\ t \in Records /\ t.cfg = c /\ Knows(t, hs[c])
        /\ c = cur => Keeps(t, hs[c], time)
        /\ p.cfg < c \/ t = p BY <2>1, StateForAgrees
  <2>3. DropKey(p, c, observed) = u BY <1>1, Zenon DEF DropKey, Dropped
  <2> HIDE DEF t
  <2>4. /\ u \in Records /\ k \in Verdicts /\ u.cfg = t.cfg /\ Knows(u, k)
        /\ Keeps(t, hs[c], time) => Keeps(u, k, time)
        /\ u.benchUntil < t.benchUntil => u.invalidatedAt >= t.limitedAt
    <3>1. hs[c] \in Verdicts OBVIOUS
    <3> QED BY <2>2, <3>1, DroppingAgrees
  <2> HIDE DEF u, k
  <2>5. Agrees(u, [hs EXCEPT ![c] = k], cur, time) BY <2>1, <2>2, <2>4, VerdictAgrees
  <2>6. NotCut(p, u, cur, time) BY <1>0, <2>2, <2>4 DEF NotCut
  <2> QED BY <2>3, <2>4, <2>5, <2>6 DEF k
<1>2. CASE ~Hears(p, c)
  <2>1. c < p.cfg BY <1>0, <1>2 DEF Hears
  <2>2. DropKey(p, c, observed) = p BY <1>2, Zenon DEF DropKey
  <2>3. k \in Verdicts
    <3>1. hs[c] \in Verdicts OBVIOUS
    <3>2. Newest(hs[c].bad, observed) \in Nat BY <3>1, VerdictFields DEF Newest
    <3> QED BY <3>1, <3>2 DEF HeardBad, Verdicts
  <2> HIDE DEF k
  <2>4. Agrees(p, [hs EXCEPT ![c] = k], cur, time) BY <2>1, DeafAgrees
  <2>5. NotCut(p, p, cur, time) BY <1>0 DEF NotCut
  <2> QED BY <2>2, <2>3, <2>4, <2>5 DEF k
<1> QED BY <1>1, <1>2

\* clearKey, and the telling of a success.
LEMMA ClearKeyAgrees ==
  ASSUME NEW p \in Records, NEW hs \in [Configs -> Verdicts], NEW cur \in Configs,
         NEW time \in Nat, Agrees(p, hs, cur, time), NEW c \in Configs, c <= cur, NEW at \in Nat
  PROVE  /\ ClearKey(p, c, at) \in Records
         /\ HeardOK(hs[c], at) \in Verdicts
         /\ Agrees(ClearKey(p, c, at),
                   [hs EXCEPT ![c] = HeardOK(hs[c], at)], cur, time)
         /\ NotCut(p, ClearKey(p, c, at), cur, time)
<1> DEFINE t == StateFor(p, c)
           u == Cleared(t, at)
           k == HeardOK(hs[c], at)
<1>0. p.cfg \in Nat /\ c \in Nat /\ cur \in Nat /\ p.benchUntil \in Nat
  BY RecordFields DEF Configs
<1>1. CASE Hears(p, c)
  <2>1. c >= p.cfg BY <1>1 DEF Hears
  <2>2. /\ t \in Records /\ t.cfg = c /\ Knows(t, hs[c])
        /\ c = cur => Keeps(t, hs[c], time)
        /\ p.cfg < c \/ t = p BY <2>1, StateForAgrees
  <2>3. ClearKey(p, c, at) = u BY <1>1, Zenon DEF ClearKey, Cleared
  <2> HIDE DEF t
  <2>4. /\ u \in Records /\ k \in Verdicts /\ u.cfg = t.cfg /\ Knows(u, k)
        /\ Keeps(t, hs[c], time) => Keeps(u, k, time)
        /\ u.benchUntil < t.benchUntil => u.recoveredAt > t.benchInstalled
    <3>1. hs[c] \in Verdicts OBVIOUS
    <3> QED BY <2>2, <3>1, ClearingAgrees
  <2> HIDE DEF u, k
  <2>5. Agrees(u, [hs EXCEPT ![c] = k], cur, time) BY <2>1, <2>2, <2>4, VerdictAgrees
  <2>6. NotCut(p, u, cur, time) BY <1>0, <2>2, <2>4 DEF NotCut
  <2> QED BY <2>3, <2>4, <2>5, <2>6 DEF k
<1>2. CASE ~Hears(p, c)
  <2>1. c < p.cfg BY <1>0, <1>2 DEF Hears
  <2>2. ClearKey(p, c, at) = p BY <1>2, Zenon DEF ClearKey
  <2>3. k \in Verdicts
    <3>1. hs[c] \in Verdicts OBVIOUS
    <3>2. Newest(hs[c].ok, at) \in Nat BY <3>1, VerdictFields DEF Newest
    <3> QED BY <3>1, <3>2 DEF HeardOK, Verdicts
  <2> HIDE DEF k
  <2>4. Agrees(p, [hs EXCEPT ![c] = k], cur, time) BY <2>1, DeafAgrees
  <2>5. NotCut(p, p, cur, time) BY <1>0 DEF NotCut
  <2> QED BY <2>2, <2>3, <2>4, <2>5 DEF k
<1> QED BY <1>1, <1>2
----------------------------------------
(* The invariant. *)

\* What an attempt holds of the row r is the row as it is or as it was; it was
\* overtaken only if a test was claimed since.
AttemptOK(s, r, time) ==
  s.pc # "idle" =>
      /\ s.cfg \in 1..r.cfg /\ s.gen \in 1..r.gen
      /\ s.overtaken => s.gen < r.gen
      /\ s.at <= time

\* So is what a test holds.
TestOK(s, r) == s.pc # "idle" => s.cfg \in 1..r.cfg /\ s.gen \in 1..r.gen

AttemptsOK == \A a \in Attempts : AttemptOK(att[a], row, now)

TestsOK == \A t \in Tests : TestOK(test[t], row)

DecidedOK == decided.cfg = row.cfg /\ decided.gen <= row.gen

PoolOK == Agrees(pool, heard, row.cfg, now)

IInv == TypeOK /\ AttemptsOK /\ TestsOK /\ DecidedOK /\ PoolOK

Rows == [cfg : Configs, gen : 1..MaxGeneration, status : Statuses]

\* Idle hands hold nothing.
LEMMA IdleHands ==
  ASSUME NEW r, NEW time
  PROVE  /\ NoAttempt \in HeldByAttempt /\ AttemptOK(NoAttempt, r, time)
         /\ NoTest \in HeldByTest /\ TestOK(NoTest, r)
<1>1. NoAttempt \in HeldByAttempt /\ NoAttempt.pc = "idle"
  BY DEF NoAttempt, HeldByAttempt, AttemptStates
<1>2. NoTest \in HeldByTest /\ NoTest.pc = "idle" BY DEF NoTest, HeldByTest, TestStates
<1> QED BY <1>1, <1>2 DEF AttemptOK, TestOK

\* What an attempt holds after each of its steps.
LEMMA AttemptMoves ==
  ASSUME NEW s \in HeldByAttempt, NEW r, NEW time \in Nat, AttemptOK(s, r, time), s.pc # "idle"
  PROVE  /\ \A x \in AttemptStates :
                /\ [s EXCEPT !.pc = x] \in HeldByAttempt
                /\ AttemptOK([s EXCEPT !.pc = x], r, time)
         /\ [s EXCEPT !.pc = "sent", !.at = time] \in HeldByAttempt
         /\ AttemptOK([s EXCEPT !.pc = "sent", !.at = time], r, time)
         /\ [s EXCEPT !.pc = "marking", !.observed = time] \in HeldByAttempt
         /\ AttemptOK([s EXCEPT !.pc = "marking", !.observed = time], r, time)
         /\ [s EXCEPT !.pc = "reading", !.quota = TRUE] \in HeldByAttempt
         /\ AttemptOK([s EXCEPT !.pc = "reading", !.quota = TRUE], r, time)
<1>1. ASSUME NEW x \in AttemptStates
      PROVE  /\ [s EXCEPT !.pc = x] \in HeldByAttempt
             /\ [s EXCEPT !.pc = x].pc = x
             /\ AttemptOK([s EXCEPT !.pc = x], r, time) BY DEF HeldByAttempt, AttemptOK
<1>2. "sent" \in AttemptStates /\ "marking" \in AttemptStates /\ "reading" \in AttemptStates
  BY DEF AttemptStates
<1> DEFINE a == [s EXCEPT !.pc = "sent"]
           b == [s EXCEPT !.pc = "marking"]
           c == [s EXCEPT !.pc = "reading"]
<1>3. a \in HeldByAttempt /\ a.pc # "idle" /\ AttemptOK(a, r, time) BY <1>1, <1>2
<1>4. b \in HeldByAttempt /\ b.pc # "idle" /\ AttemptOK(b, r, time) BY <1>1, <1>2
<1>5. c \in HeldByAttempt /\ c.pc # "idle" /\ AttemptOK(c, r, time) BY <1>1, <1>2
<1>6. [s EXCEPT !.pc = "sent", !.at = time] = [a EXCEPT !.at = time] OBVIOUS
<1>7. [s EXCEPT !.pc = "marking", !.observed = time] = [b EXCEPT !.observed = time] OBVIOUS
<1>8. [s EXCEPT !.pc = "reading", !.quota = TRUE] = [c EXCEPT !.quota = TRUE] OBVIOUS
<1> HIDE DEF a, b, c
<1>9. [a EXCEPT !.at = time] \in HeldByAttempt /\ AttemptOK([a EXCEPT !.at = time], r, time)
  BY <1>3 DEF HeldByAttempt, AttemptOK
<1>10. [b EXCEPT !.observed = time] \in HeldByAttempt
       /\ AttemptOK([b EXCEPT !.observed = time], r, time) BY <1>4 DEF HeldByAttempt, AttemptOK
<1>11. [c EXCEPT !.quota = TRUE] \in HeldByAttempt
       /\ AttemptOK([c EXCEPT !.quota = TRUE], r, time) BY <1>5 DEF HeldByAttempt, AttemptOK
<1> QED BY <1>1, <1>6, <1>7, <1>8, <1>9, <1>10, <1>11

\* A step of one attempt that leaves the row's credential and generation alone.
LEMMA AttemptSteps ==
  ASSUME IInv, NEW a \in Attempts, NEW s \in HeldByAttempt, AttemptOK(s, row, now),
         att' = [att EXCEPT ![a] = s], now' = now, row'.cfg = row.cfg, row'.gen = row.gen
  PROVE  att' \in [Attempts -> HeldByAttempt] /\ AttemptsOK'
<1>1. att \in [Attempts -> HeldByAttempt] BY DEF IInv, TypeOK
<1>2. att' \in [Attempts -> HeldByAttempt] BY <1>1
<1>3. ASSUME NEW b \in Attempts PROVE AttemptOK(att'[b], row', now')
  <2>1. AttemptOK(att'[b], row, now) BY <1>1 DEF IInv, AttemptsOK
  <2> QED BY <2>1 DEF AttemptOK
<1> QED BY <1>2, <1>3 DEF AttemptsOK

\* A step of one test that does.
LEMMA TestSteps ==
  ASSUME IInv, NEW t \in Tests, NEW s \in HeldByTest, TestOK(s, row),
         test' = [test EXCEPT ![t] = s], row'.cfg = row.cfg, row'.gen = row.gen
  PROVE  test' \in [Tests -> HeldByTest] /\ TestsOK'
<1>1. test \in [Tests -> HeldByTest] BY DEF IInv, TypeOK
<1>2. test' \in [Tests -> HeldByTest] BY <1>1
<1>3. ASSUME NEW b \in Tests PROVE TestOK(test'[b], row')
  <2>1. TestOK(test'[b], row) BY <1>1 DEF IInv, TestsOK
  <2> QED BY <2>1 DEF TestOK
<1> QED BY <1>2, <1>3 DEF TestsOK

\* Steps that leave them all alone, too.
LEMMA OthersStay ==
  ASSUME IInv, row'.cfg = row.cfg, row'.gen = row.gen
  PROVE  /\ (att' = att /\ now' = now) => att' \in [Attempts -> HeldByAttempt] /\ AttemptsOK'
         /\ test' = test => test' \in [Tests -> HeldByTest] /\ TestsOK'
         /\ decided' = decided => DecidedOK'
         /\ (pool' = pool /\ heard' = heard /\ now' = now) => PoolOK'
<1>1. (att' = att /\ now' = now) => AttemptsOK' BY DEF IInv, AttemptsOK, AttemptOK
<1>2. test' = test => TestsOK' BY DEF IInv, TestsOK, TestOK
<1>3. decided' = decided => DecidedOK' BY DEF IInv, DecidedOK
<1>4. (pool' = pool /\ heard' = heard /\ now' = now) => PoolOK' BY DEF IInv, PoolOK
<1> QED BY <1>1, <1>2, <1>3, <1>4 DEF IInv, TypeOK

\* Initially nothing is held and nothing was told.
LEMMA InitIInv == Init => IInv
<1> SUFFICES ASSUME Init PROVE IInv OBVIOUS
<1>1. Unknown \in Records /\ Unknown.cfg = 0 /\ ~Benched(Unknown) /\ Silence \in Verdicts
  BY BlankRecord DEF Unknown
<1>2. NoAttempt \in HeldByAttempt /\ AttemptOK(NoAttempt, row, now)
      /\ NoTest \in HeldByTest /\ TestOK(NoTest, row) BY IdleHands
<1>3. 1 \in Configs /\ 1 \in 1..MaxGeneration /\ 0 \notin Configs BY DEF Configs
<1>4. row \in Rows /\ row.cfg = 1 /\ row.gen = 1 BY <1>3 DEF Init, Rows, Statuses
<1>5. decided \in [cfg : Configs, gen : 1..MaxGeneration, at : Nat]
      /\ decided.cfg = 1 /\ decided.gen = 1 BY <1>3 DEF Init
<1>6. heard \in [Configs -> Verdicts] /\ \A c \in Configs : heard[c] = Silence BY <1>1 DEF Init
<1>7. TypeOK BY <1>1, <1>2, <1>4, <1>5, <1>6 DEF Init, TypeOK, Rows
<1>8. PoolOK BY <1>1, <1>3, <1>4, <1>6 DEF Init, PoolOK, Agrees
<1>9. AttemptsOK /\ TestsOK BY <1>2 DEF Init, AttemptsOK, TestsOK
<1>10. DecidedOK BY <1>4, <1>5 DEF DecidedOK
<1> QED BY <1>7, <1>8, <1>9, <1>10 DEF IInv
----------------------------------------
(* Every step keeps the invariant. *)

\* What the invariant says of the shared state.
LEMMA Shared ==
  ASSUME IInv
  PROVE  /\ pool \in Records /\ heard \in [Configs -> Verdicts] /\ row \in Rows
         /\ row.cfg \in Configs /\ row.gen \in 1..MaxGeneration /\ now \in Nat
         /\ decided \in [cfg : Configs, gen : 1..MaxGeneration, at : Nat]
         /\ decided.gen \in Nat /\ row.gen \in Nat
         /\ Agrees(pool, heard, row.cfg, now)
         /\ NotCut(pool, pool, row.cfg, now)
<1>1. pool.benchUntil \in Nat BY RecordFields DEF IInv, TypeOK
<1>2. NotCut(pool, pool, row.cfg, now) BY <1>1 DEF NotCut
<1> QED BY <1>2 DEF IInv, TypeOK, PoolOK, Rows

\* What it says of an attempt under way.
LEMMA Attempting ==
  ASSUME IInv, NEW a \in Attempts
  PROVE  /\ att[a] \in HeldByAttempt /\ AttemptOK(att[a], row, now)
         /\ att[a].at \in Nat /\ att[a].observed \in Nat
         /\ att[a].pc # "idle" =>
               /\ att[a].cfg \in Configs /\ att[a].cfg <= row.cfg
               /\ att[a].gen \in 1..row.gen /\ att[a].at <= now
               /\ att[a].overtaken => att[a].gen < row.gen
<1>1. att[a] \in HeldByAttempt /\ AttemptOK(att[a], row, now) BY DEF IInv, TypeOK, AttemptsOK
<1> QED BY <1>1, Shared DEF HeldByAttempt, AttemptOK, Configs

\* And of a test.
LEMMA Testing ==
  ASSUME IInv, NEW t \in Tests
  PROVE  /\ test[t] \in HeldByTest /\ TestOK(test[t], row) /\ test[t].at \in Nat
         /\ test[t].pc # "idle" =>
               /\ test[t].cfg \in Configs /\ test[t].cfg <= row.cfg
               /\ test[t].gen \in 1..row.gen
<1>1. test[t] \in HeldByTest /\ TestOK(test[t], row) BY DEF IInv, TypeOK, TestsOK
<1> QED BY <1>1, Shared DEF HeldByTest, TestOK, Configs

\* A step of one attempt that at most tells the pool something.
LEMMA AttemptTells ==
  ASSUME IInv, NEW a \in Attempts, NEW s \in HeldByAttempt, AttemptOK(s, row, now),
         att' = [att EXCEPT ![a] = s], UNCHANGED <<now, row, test, decided>>,
         pool' \in Records, heard' \in [Configs -> Verdicts], Agrees(pool', heard', row.cfg, now)
  PROVE  IInv' /\ decided'.gen >= decided.gen
<1>1. row'.cfg = row.cfg /\ row'.gen = row.gen /\ now' = now OBVIOUS
<1>2. att' \in [Attempts -> HeldByAttempt] /\ AttemptsOK' BY <1>1, AttemptSteps
<1>3. test' \in [Tests -> HeldByTest] /\ TestsOK' /\ DecidedOK' BY <1>1, OthersStay
<1>4. TypeOK' BY <1>2, <1>3 DEF IInv, TypeOK
<1>5. PoolOK' BY DEF PoolOK
<1> QED BY <1>2, <1>3, <1>4, <1>5, Shared DEF IInv

\* A step of one attempt that tells it nothing.
LEMMA AttemptIsQuiet ==
  ASSUME IInv, NEW a \in Attempts, NEW s \in HeldByAttempt, AttemptOK(s, row, now),
         att' = [att EXCEPT ![a] = s], UNCHANGED <<now, pool, row, test, heard, decided>>
  PROVE  IInv' /\ NotCut(pool, pool', row.cfg, now) /\ decided'.gen >= decided.gen
<1>1. /\ pool' \in Records /\ heard' \in [Configs -> Verdicts]
      /\ Agrees(pool', heard', row.cfg, now)
      /\ NotCut(pool, pool', row.cfg, now) BY Shared
<1> QED BY <1>1, AttemptTells

\* A step of one test that at most tells the pool something.
LEMMA TestTells ==
  ASSUME IInv, NEW t \in Tests, NEW s \in HeldByTest, TestOK(s, row),
         test' = [test EXCEPT ![t] = s], UNCHANGED <<now, row, att, decided>>,
         pool' \in Records, heard' \in [Configs -> Verdicts], Agrees(pool', heard', row.cfg, now)
  PROVE  IInv' /\ decided'.gen >= decided.gen
<1>1. row'.cfg = row.cfg /\ row'.gen = row.gen /\ now' = now OBVIOUS
<1>2. test' \in [Tests -> HeldByTest] /\ TestsOK' BY <1>1, TestSteps
<1>3. att' \in [Attempts -> HeldByAttempt] /\ AttemptsOK' /\ DecidedOK' BY <1>1, OthersStay
<1>4. TypeOK' BY <1>2, <1>3 DEF IInv, TypeOK
<1>5. PoolOK' BY DEF PoolOK
<1> QED BY <1>2, <1>3, <1>4, <1>5, Shared DEF IInv

\* Every step of an attempt keeps the invariant, cuts no bench short and does not
\* go back on a later test.
LEMMA AttemptKeeps ==
  ASSUME IInv, NEW a \in Attempts, AttemptStep(a)
  PROVE  IInv' /\ NotCut(pool, pool', row.cfg, now) /\ decided'.gen >= decided.gen
<1> DEFINE s == att[a]
           c == s.cfg
           Goal == IInv' /\ NotCut(pool, pool', row.cfg, now) /\ decided'.gen >= decided.gen
<1>1. NoAttempt \in HeldByAttempt /\ AttemptOK(NoAttempt, row, now) BY IdleHands
<1>2. /\ s \in HeldByAttempt /\ AttemptOK(s, row, now) /\ s.at \in Nat /\ s.observed \in Nat
      /\ s.pc # "idle" => c \in Configs /\ c <= row.cfg /\ s.gen \in 1..row.gen /\ s.at <= now
  BY Attempting
<1>3. /\ s.pc # "idle" =>
            /\ \A x \in AttemptStates : /\ [s EXCEPT !.pc = x] \in HeldByAttempt
                                        /\ AttemptOK([s EXCEPT !.pc = x], row, now)
            /\ [s EXCEPT !.pc = "sent", !.at = now] \in HeldByAttempt
            /\ AttemptOK([s EXCEPT !.pc = "sent", !.at = now], row, now)
            /\ [s EXCEPT !.pc = "marking", !.observed = now] \in HeldByAttempt
            /\ AttemptOK([s EXCEPT !.pc = "marking", !.observed = now], row, now)
            /\ [s EXCEPT !.pc = "reading", !.quota = TRUE] \in HeldByAttempt
            /\ AttemptOK([s EXCEPT !.pc = "reading", !.quota = TRUE], row, now)
  BY <1>2, Shared, AttemptMoves
<1>4. att \in [Attempts -> HeldByAttempt] BY DEF IInv, TypeOK
<1>5. ASSUME s.pc # "idle", Rejects(a), UNCHANGED <<now, pool, row, test, heard, decided>>
      PROVE  Goal
  <2>1. att' = [att EXCEPT ![a] = [s EXCEPT !.pc = "marking", !.observed = now]]
    BY <1>5, Zenon DEF Rejects
  <2> QED BY <1>3, <1>5, <2>1, AttemptIsQuiet
<1>6. ASSUME s.pc # "idle", Marked(a)
      PROVE  \E m \in HeldByAttempt : AttemptOK(m, row, now) /\ att' = [att EXCEPT ![a] = m]
  <2> DEFINE m == IF s.quota THEN [s EXCEPT !.pc = "learning"] ELSE NoAttempt
  <2>1. att' = [att EXCEPT ![a] = m] BY <1>6, Zenon DEF Marked
  <2>2. "learning" \in AttemptStates BY DEF AttemptStates
  <2>3. m \in HeldByAttempt /\ AttemptOK(m, row, now) BY <1>1, <1>3, <1>6, <2>2
  <2> QED BY <2>1, <2>3
<1> HIDE DEF Goal
<1>10. CASE Load(a)
  <2> DEFINE k == [NoAttempt EXCEPT !.pc = "loaded", !.cfg = row.cfg, !.gen = row.gen]
  <2> DEFINE x == [NoAttempt EXCEPT !.pc = "loaded"]
             y == [x EXCEPT !.cfg = row.cfg]
             z == [y EXCEPT !.gen = row.gen]
  <2>1. /\ x \in HeldByAttempt /\ x.at = 0 /\ ~x.overtaken
    BY <1>1 DEF NoAttempt, HeldByAttempt, AttemptStates
  <2>2. k = z OBVIOUS
  <2> HIDE DEF x, k
  <2>7. row.cfg \in 0..MaxConfig /\ row.gen \in 0..MaxGeneration BY Shared DEF Configs
  <2>5. y \in HeldByAttempt /\ y.cfg = row.cfg /\ y.at = 0 /\ ~y.overtaken
    BY <2>1, <2>7 DEF HeldByAttempt
  <2> HIDE DEF y
  <2>6. /\ z \in HeldByAttempt /\ z.cfg = row.cfg /\ z.gen = row.gen /\ z.at = 0
        /\ ~z.overtaken BY <2>5, <2>7 DEF HeldByAttempt
  <2>3. att' = [att EXCEPT ![a] = k] BY <1>10, Zenon DEF Load, k
  <2> HIDE DEF z
  <2>4. AttemptOK(z, row, now) BY <2>6, Shared DEF AttemptOK, Configs
  <2> QED BY <1>10, <2>2, <2>3, <2>4, <2>6, AttemptIsQuiet DEF Load, Goal
<1>11. CASE Walk(a)
  <2>1. "walked" \in AttemptStates BY DEF AttemptStates
  <2>2. s.pc # "idle" BY <1>11 DEF Walk
  <2>3. att' = [att EXCEPT ![a] = [s EXCEPT !.pc = "walked"]] BY <1>11, Zenon DEF Walk
  <2>4. pool' = Pruned(pool, c, now) /\ heard' = heard BY <1>11 DEF Walk
  <2>5. /\ pool' \in Records /\ Agrees(pool', heard', row.cfg, now)
        /\ pool'.benchUntil < pool.benchUntil =>
              pool.cfg < row.cfg \/ pool.benchUntil <= now
    BY <1>2, <2>2, <2>4, Shared, PrunedAgrees
  <2>6. NotCut(pool, pool', row.cfg, now) BY <2>5, RecordFields, Shared DEF NotCut
  <2>7. IInv' /\ decided'.gen >= decided.gen
    BY <1>3, <1>11, <2>1, <2>2, <2>3, <2>4, <2>5, Shared, AttemptTells DEF Walk
  <2> QED BY <2>6, <2>7 DEF Goal
<1>12. CASE Dispatch(a)
  <2>1. att' = [att EXCEPT ![a] = [s EXCEPT !.pc = "sent", !.at = now]]
    BY <1>12, Zenon DEF Dispatch
  <2> QED BY <1>3, <1>12, <2>1, AttemptIsQuiet DEF Dispatch, Goal
<1>13. CASE NoWord(a) BY <1>1, <1>13, AttemptIsQuiet DEF NoWord, Goal
<1>14. CASE Accepted(a)
  <2>1. s.pc # "idle" BY <1>14 DEF Accepted
  <2>2. /\ pool' = ClearKey(pool, c, s.at)
        /\ heard' = [heard EXCEPT ![c] = HeardOK(heard[c], s.at)]
    BY <1>14, Zenon DEF Accepted, Told, HeardOK
  <2>3. /\ pool' \in Records /\ HeardOK(heard[c], s.at) \in Verdicts
        /\ Agrees(pool', heard', row.cfg, now)
        /\ NotCut(pool, pool', row.cfg, now) BY <1>2, <2>1, <2>2, Shared, ClearKeyAgrees
  <2>4. heard' \in [Configs -> Verdicts] BY <2>2, <2>3, Shared
  <2>5. IInv' /\ decided'.gen >= decided.gen BY <1>1, <1>14, <2>3, <2>4, AttemptTells DEF Accepted
  <2> QED BY <2>3, <2>5 DEF Goal
<1>15. CASE Unauthorized(a) BY <1>5, <1>15 DEF Unauthorized, Goal
<1>16. CASE Exhausted(a) BY <1>5, <1>16 DEF Exhausted, Goal
<1>17. CASE Mark(a)
  <2>1. "dropping" \in AttemptStates BY DEF AttemptStates
  <2>2. s.pc # "idle" BY <1>17 DEF Mark
  <2>3. att' = [att EXCEPT ![a] = [s EXCEPT !.pc = "dropping"]] BY <1>17, Zenon DEF Mark
  <2>4. row' = [row EXCEPT !.status = "failed"] BY <1>17 DEF Mark
  <2>5. row' \in Rows /\ row'.cfg = row.cfg /\ row'.gen = row.gen
    BY <2>4, Shared DEF Rows, Statuses
  <2>6. decided' = [cfg |-> s.cfg, gen |-> s.gen, at |-> s.observed] BY <1>17 DEF Mark
  <2>7. s.cfg = row.cfg /\ s.gen = row.gen BY <1>17 DEF Mark, IsCurrent
  <2>8. decided' \in [cfg : Configs, gen : 1..MaxGeneration, at : Nat] /\ DecidedOK'
        /\ decided'.gen = row.gen BY <1>2, <2>5, <2>6, <2>7, Shared DEF DecidedOK
  <2>9. decided'.gen >= decided.gen BY <2>8, Shared DEF IInv, DecidedOK
  <2>10. now' = now /\ pool' = pool /\ test' = test /\ heard' = heard BY <1>17 DEF Mark
  <2>11. att' \in [Attempts -> HeldByAttempt] /\ AttemptsOK'
    BY <1>3, <2>1, <2>2, <2>3, <2>5, <2>10, AttemptSteps
  <2>12. test' \in [Tests -> HeldByTest] /\ TestsOK' /\ PoolOK' BY <2>5, <2>10, OthersStay
  <2>13. TypeOK' BY <2>5, <2>8, <2>10, <2>11, <2>12, Shared DEF TypeOK, Rows
  <2>14. NotCut(pool, pool', row.cfg, now) BY <2>10, Shared
  <2> QED BY <2>8, <2>9, <2>11, <2>12, <2>13, <2>14 DEF IInv, Goal
<1>18. CASE MarkLost(a)
  <2>1. s.pc # "idle" /\ Marked(a) BY <1>18 DEF MarkLost
  <2>2. PICK m \in HeldByAttempt : AttemptOK(m, row, now) /\ att' = [att EXCEPT ![a] = m]
    BY <1>6, <2>1
  <2> QED BY <1>18, <2>2, AttemptIsQuiet DEF MarkLost, Goal
<1>19. CASE Drop(a)
  <2>1. s.pc # "idle" /\ Marked(a) BY <1>19 DEF Drop
  <2>2. /\ pool' = DropKey(pool, c, s.observed)
        /\ heard' = [heard EXCEPT ![c] = HeardBad(heard[c], s.observed)]
    BY <1>19, Zenon DEF Drop, Told, HeardBad
  <2>3. /\ pool' \in Records /\ HeardBad(heard[c], s.observed) \in Verdicts
        /\ Agrees(pool', heard', row.cfg, now)
        /\ NotCut(pool, pool', row.cfg, now) BY <1>2, <2>1, <2>2, Shared, DropKeyAgrees
  <2>4. heard' \in [Configs -> Verdicts] BY <2>2, <2>3, Shared
  <2>5. PICK m \in HeldByAttempt : AttemptOK(m, row, now) /\ att' = [att EXCEPT ![a] = m]
    BY <1>6, <2>1
  <2>6. IInv' /\ decided'.gen >= decided.gen BY <1>19, <2>3, <2>4, <2>5, AttemptTells DEF Drop
  <2> QED BY <2>3, <2>6 DEF Goal
<1>20. ASSUME NEW d \in Windows, Limited(a, d) PROVE Goal
  <2>1. s.pc # "idle" BY <1>20 DEF Limited
  <2>2. att' = [att EXCEPT ![a] = [s EXCEPT !.pc = "reading", !.quota = TRUE]]
    BY <1>20, Zenon DEF Limited
  <2>3. pool' = CoolKey(pool, c, s.at, d, now) BY <1>20 DEF Limited
  <2>4. d \in Nat OBVIOUS
  <2>5. /\ pool' \in Records /\ heard' \in [Configs -> Verdicts]
        /\ Agrees(pool', heard', row.cfg, now) /\ NotCut(pool, pool', row.cfg, now)
    <3>1. CASE d = 0
      <4>1. pool' = pool BY <2>3, <3>1, Zenon DEF CoolKey
      <4>2. ~(d > 0) BY <3>1
      <4>3. heard' = heard BY <1>20, <4>2, Zenon DEF Limited
      <4> QED BY <4>1, <4>3, Shared
    <3>2. CASE d # 0
      <4> DEFINE k == HeardLimit(heard[c], s.at, d, now)
      <4>1. d > 0 BY <2>4, <3>2
      <4>2. heard' = [heard EXCEPT ![c] = k]
        <5>1. CASE s.at > heard[c].limit
          BY <1>20, <4>1, <5>1, Zenon DEF Limited, Told, HeardLimit, NewLimit
        <5>2. CASE ~(s.at > heard[c].limit)
          <6>1. heard' = heard BY <1>20, <5>2, Zenon DEF Limited
          <6>2. k = heard[c] BY <5>2, Zenon DEF HeardLimit
          <6>3. heard = [heard EXCEPT ![c] = heard[c]] BY Shared
          <6> QED BY <6>1, <6>2, <6>3
        <5> QED BY <5>1, <5>2
      <4>3. /\ pool' \in Records /\ k \in Verdicts
            /\ Agrees(pool', heard', row.cfg, now) /\ NotCut(pool, pool', row.cfg, now)
        BY <1>2, <2>1, <2>3, <2>4, <3>2, <4>2, Shared, CoolKeyAgrees
      <4> HIDE DEF k
      <4>4. heard' \in [Configs -> Verdicts] BY <4>2, <4>3, Shared
      <4> QED BY <4>3, <4>4
    <3> QED BY <3>1, <3>2
  <2>6. IInv' /\ decided'.gen >= decided.gen
    BY <1>3, <1>20, <2>1, <2>2, <2>5, AttemptTells DEF Limited
  <2> QED BY <2>5, <2>6 DEF Goal
<1>21. ASSUME NEW d \in Windows \cup {0}, Learn(a, d) PROVE Goal
  <2>1. s.pc # "idle" BY <1>21 DEF Learn
  <2>2. pool' = LengthenKeyBench(pool, c, s.at, d, now) /\ heard' = heard BY <1>21 DEF Learn
  <2>3. d \in Nat OBVIOUS
  <2>4. /\ pool' \in Records /\ Agrees(pool', heard', row.cfg, now)
        /\ NotCut(pool, pool', row.cfg, now)
    BY <1>2, <2>1, <2>2, <2>3, Shared, LengthenKeyBenchAgrees
  <2>5. IInv' /\ decided'.gen >= decided.gen
    BY <1>1, <1>21, <2>2, <2>4, Shared, AttemptTells DEF Learn
  <2> QED BY <2>4, <2>5 DEF Goal
<1> QED BY <1>10, <1>11, <1>12, <1>13, <1>14, <1>15, <1>16, <1>17, <1>18, <1>19, <1>20, <1>21
  DEF AttemptStep, Goal

\* A new claim overtakes every attempt in flight, and every test's claim is older.
LEMMA ClaimKeeps ==
  ASSUME IInv, NEW t \in Tests, NEW s \in HeldByTest,
         row' \in Rows, row'.cfg >= row.cfg, row'.gen = row.gen + 1,
         s.cfg = row'.cfg, s.gen = row'.gen, test' = [test EXCEPT ![t] = s], Overtake, now' = now
  PROVE  /\ att' \in [Attempts -> HeldByAttempt] /\ AttemptsOK'
         /\ test' \in [Tests -> HeldByTest] /\ TestsOK'
<1>0. /\ row.cfg \in Nat /\ row'.cfg \in Nat /\ row'.cfg # 0
      /\ row.gen \in Nat /\ row'.gen \in Nat BY Shared DEF Rows, Configs
<1>1. ASSUME NEW a \in Attempts
      PROVE  att'[a] \in HeldByAttempt /\ AttemptOK(att'[a], row', now')
  <2> DEFINE m == [att[a] EXCEPT !.overtaken = TRUE]
  <2>1. att'[a] = IF att[a].pc = "idle" THEN att[a] ELSE m BY DEF Overtake
  <2>2. att[a] \in HeldByAttempt /\ AttemptOK(att[a], row, now) BY Attempting
  <2>3. /\ m \in HeldByAttempt /\ m.cfg = att[a].cfg /\ m.gen = att[a].gen
        /\ m.at = att[a].at /\ m.pc = att[a].pc BY <2>2 DEF HeldByAttempt
  <2> HIDE DEF m
  <2>4. CASE att[a].pc = "idle" BY <2>1, <2>2, <2>4 DEF AttemptOK
  <2>5. CASE att[a].pc # "idle"
    <3>1. att'[a] = m BY <2>1, <2>5
    <3>2. att[a].cfg \in 1..row.cfg /\ att[a].gen \in 1..row.gen /\ att[a].at <= now
      BY <2>2, <2>5 DEF AttemptOK
    <3>3. m.cfg \in 1..row'.cfg /\ m.gen \in 1..row'.gen /\ m.gen < row'.gen /\ m.at <= now'
      BY <1>0, <2>3, <3>2
    <3> QED BY <2>3, <3>1, <3>3 DEF AttemptOK
  <2> QED BY <2>4, <2>5
<1>2. att' \in [Attempts -> HeldByAttempt] BY <1>1 DEF Overtake
<1>3. ASSUME NEW x \in Tests
      PROVE  test'[x] \in HeldByTest /\ TestOK(test'[x], row')
  <2>1. test \in [Tests -> HeldByTest] BY DEF IInv, TypeOK
  <2>2. CASE x = t BY <1>0, <2>1, <2>2 DEF TestOK
  <2>3. CASE x # t
    <3>1. test'[x] = test[x] BY <2>1, <2>3
    <3>2. TestOK(test[x], row) /\ test[x] \in HeldByTest BY Testing
    <3>3. test[x].pc # "idle" => test[x].cfg \in 1..row.cfg /\ test[x].gen \in 1..row.gen
      BY <3>2 DEF TestOK
    <3>4. test[x].pc # "idle" => test[x].cfg \in 1..row'.cfg /\ test[x].gen \in 1..row'.gen
      BY <1>0, <3>3
    <3> QED BY <3>1, <3>2, <3>4 DEF TestOK
  <2> QED BY <2>2, <2>3
<1>4. test' \in [Tests -> HeldByTest] BY <1>3 DEF IInv, TypeOK
<1> QED BY <1>1, <1>2, <1>3, <1>4 DEF AttemptsOK, TestsOK

\* So does every step of a test.
LEMMA TestKeeps ==
  ASSUME IInv, NEW t \in Tests, TestStep(t)
  PROVE  IInv' /\ NotCut(pool, pool', row.cfg, now) /\ decided'.gen >= decided.gen
<1> DEFINE s == test[t]
           c == s.cfg
           Goal == IInv' /\ NotCut(pool, pool', row.cfg, now) /\ decided'.gen >= decided.gen
<1>1. NoTest \in HeldByTest /\ TestOK(NoTest, row) BY IdleHands
<1>2. /\ s \in HeldByTest /\ TestOK(s, row) /\ s.at \in Nat
      /\ s.pc # "idle" => c \in Configs /\ c <= row.cfg /\ s.gen \in 1..row.gen BY Testing
<1>3. test \in [Tests -> HeldByTest] BY DEF IInv, TypeOK
<1> HIDE DEF Goal
<1>4. ASSUME NEW m \in HeldByTest, TestOK(m, row), test' = [test EXCEPT ![t] = m],
             UNCHANGED <<now, pool, row, att, heard, decided>>
      PROVE  Goal
  <2>1. /\ pool' \in Records /\ heard' \in [Configs -> Verdicts]
        /\ Agrees(pool', heard', row.cfg, now)
        /\ NotCut(pool, pool', row.cfg, now) BY <1>4, Shared
  <2> QED BY <1>4, <2>1, TestTells DEF Goal
<1>5. CASE Claim(t)
  <2> DEFINE k == [pc |-> "claimed", retest |-> TRUE, cfg |-> row.cfg,
                   gen |-> row.gen + 1, at |-> 0]
  <2>1. row.gen < MaxGeneration /\ Overtake BY <1>5 DEF Claim
  <2>2. row' = [row EXCEPT !.gen = @ + 1] BY <1>5 DEF Claim
  <2>3. row' \in Rows /\ row'.cfg = row.cfg /\ row'.gen = row.gen + 1
    <3>1. row.gen + 1 \in 1..MaxGeneration BY <2>1, Shared
    <3> QED BY <2>2, <3>1, Shared DEF Rows
  <2>4. test' = [test EXCEPT ![t] = k] BY <1>5 DEF Claim
  <2>5. k \in HeldByTest /\ k.cfg = row'.cfg /\ k.gen = row'.gen
    <3>1. row.gen + 1 \in 0..MaxGeneration /\ row.cfg \in 0..MaxConfig BY <2>1, Shared DEF Configs
    <3> QED BY <2>3, <3>1 DEF HeldByTest, TestStates
  <2> HIDE DEF k
  <2>6. now' = now /\ pool' = pool /\ heard' = heard /\ decided' = decided BY <1>5 DEF Claim
  <2>7. row'.cfg >= row.cfg BY <2>3, Shared DEF Configs
  <2>8. /\ att' \in [Attempts -> HeldByAttempt] /\ AttemptsOK'
        /\ test' \in [Tests -> HeldByTest] /\ TestsOK'
    BY <2>1, <2>3, <2>4, <2>5, <2>6, <2>7, ClaimKeeps
  <2>9. PoolOK' BY <2>3, <2>6, Shared DEF PoolOK
  <2>10. DecidedOK' BY <2>3, <2>6, Shared DEF IInv, DecidedOK
  <2>11. TypeOK' BY <2>3, <2>6, <2>8, Shared DEF TypeOK, Rows
  <2> QED BY <2>6, <2>8, <2>9, <2>10, <2>11, Shared DEF IInv, Goal
<1>6. CASE Swap(t)
  <2> DEFINE k == [pc |-> "claimed", retest |-> FALSE, cfg |-> row.cfg + 1,
                   gen |-> row.gen + 1, at |-> 0]
  <2>1. row.gen < MaxGeneration /\ row.cfg < MaxConfig /\ Overtake BY <1>6 DEF Swap
  <2>2. row' = [cfg |-> row.cfg + 1, gen |-> row.gen + 1, status |-> "untested"]
        /\ decided' = [cfg |-> row.cfg + 1, gen |-> row.gen + 1, at |-> 0] BY <1>6 DEF Swap
  <2>0. row.gen + 1 \in 1..MaxGeneration /\ row.cfg + 1 \in Configs
        /\ row.gen + 1 \in 0..MaxGeneration /\ row.cfg + 1 \in 0..MaxConfig
    BY <2>1, Shared DEF Configs
  <2>3. row' \in Rows /\ row'.cfg = row.cfg + 1 /\ row'.gen = row.gen + 1
    BY <2>0, <2>2 DEF Rows, Statuses
  <2>4. test' = [test EXCEPT ![t] = k] BY <1>6 DEF Swap
  <2>5. k \in HeldByTest /\ k.cfg = row'.cfg /\ k.gen = row'.gen
    BY <2>0, <2>3 DEF HeldByTest, TestStates
  <2> HIDE DEF k
  <2>6. now' = now /\ pool' = pool /\ heard' = heard BY <1>6 DEF Swap
  <2>7. row.cfg \in Nat /\ row'.cfg >= row.cfg BY <2>3, Shared DEF Configs
  <2>8. /\ att' \in [Attempts -> HeldByAttempt] /\ AttemptsOK'
        /\ test' \in [Tests -> HeldByTest] /\ TestsOK'
    BY <2>1, <2>3, <2>4, <2>5, <2>6, <2>7, ClaimKeeps
  <2>9. PoolOK'
    <3>1. pool.cfg \in Nat /\ pool.cfg <= row.cfg BY Shared, RecordFields DEF Agrees
    <3>2. pool.cfg <= row'.cfg /\ pool.cfg # row'.cfg BY <2>3, <2>7, <3>1
    <3> QED BY <2>6, <3>2, Shared DEF PoolOK, Agrees
  <2>10. decided' \in [cfg : Configs, gen : 1..MaxGeneration, at : Nat]
         /\ decided'.cfg = row'.cfg /\ decided'.gen = row'.gen BY <2>0, <2>2, <2>3
  <2>11. DecidedOK' /\ decided'.gen >= decided.gen BY <2>3, <2>10, Shared DEF IInv, DecidedOK
  <2>12. TypeOK' BY <2>3, <2>6, <2>8, <2>10, Shared DEF TypeOK, Rows
  <2> QED BY <2>6, <2>8, <2>9, <2>11, <2>12, Shared DEF IInv, Goal
<1>7. CASE Probe(t)
  <2> DEFINE x == [s EXCEPT !.pc = "probing"]
             m == [x EXCEPT !.at = now]
  <2>1. test' = [test EXCEPT ![t] = [s EXCEPT !.pc = "probing", !.at = now]]
    BY <1>7, Zenon DEF Probe
  <2>2. [s EXCEPT !.pc = "probing", !.at = now] = m OBVIOUS
  <2>3. s.pc # "idle" BY <1>7 DEF Probe
  <2>4. x \in HeldByTest /\ TestOK(x, row) BY <1>2, <2>3 DEF HeldByTest, TestStates, TestOK
  <2> HIDE DEF x
  <2>5. m \in HeldByTest /\ TestOK(m, row) BY <2>4, Shared DEF HeldByTest, TestOK
  <2> HIDE DEF m
  <2>6. test' = [test EXCEPT ![t] = m] BY <2>1, <2>2
  <2> QED BY <1>4, <1>7, <2>5, <2>6 DEF Probe, Goal
<1>8. CASE NoVerdict(t) BY <1>1, <1>4, <1>8 DEF NoVerdict, Goal
<1>9. CASE Note(t)
  <2>1. s.pc # "idle" BY <1>9 DEF Note
  <2>2. /\ pool' = ClearKey(pool, c, s.at)
        /\ heard' = [heard EXCEPT ![c] = HeardOK(heard[c], s.at)]
    BY <1>9, Zenon DEF Note, Told, HeardOK
  <2>3. /\ pool' \in Records /\ HeardOK(heard[c], s.at) \in Verdicts
        /\ Agrees(pool', heard', row.cfg, now)
        /\ NotCut(pool, pool', row.cfg, now) BY <1>2, <2>1, <2>2, Shared, ClearKeyAgrees
  <2>4. heard' \in [Configs -> Verdicts] BY <2>2, <2>3, Shared
  <2>5. IInv' /\ decided'.gen >= decided.gen BY <1>1, <1>9, <2>3, <2>4, TestTells DEF Note
  <2> QED BY <2>3, <2>5 DEF Goal
<1>10. ASSUME NEW verdict \in {"passed", "failed", "inconclusive"}, Commit(t, verdict)
       PROVE  Goal
  <2>1. s.pc # "idle" BY <1>10 DEF Commit
  <2> DEFINE m == IF verdict = "passed" /\ s.retest THEN [s EXCEPT !.pc = "noting"] ELSE NoTest
  <2>2. test' = [test EXCEPT ![t] = m] BY <1>10, Zenon DEF Commit
  <2>3. m \in HeldByTest /\ TestOK(m, row)
    <3>1. [s EXCEPT !.pc = "noting"] \in HeldByTest /\ TestOK([s EXCEPT !.pc = "noting"], row)
      BY <1>2, <2>1 DEF HeldByTest, TestStates, TestOK
    <3> QED BY <1>1, <3>1
  <2> HIDE DEF m
  <2>4. s.cfg = row.cfg /\ s.gen = row.gen BY <1>10 DEF Commit, MayCommit
  <2>5. now' = now /\ pool' = pool /\ att' = att /\ heard' = heard BY <1>10 DEF Commit
  <2>6. CASE verdict = "inconclusive" BY <1>4, <1>10, <2>2, <2>3, <2>5, <2>6 DEF Commit
  <2>7. CASE verdict # "inconclusive"
    <3>1. row' = [row EXCEPT !.status = verdict] BY <1>10, <2>7 DEF Commit
    <3>2. decided' = [cfg |-> s.cfg, gen |-> s.gen, at |-> s.at] BY <1>10, <2>7 DEF Commit
    <3>3. row' \in Rows /\ row'.cfg = row.cfg /\ row'.gen = row.gen
      BY <2>7, <3>1, Shared DEF Rows, Statuses
    <3>4. decided' \in [cfg : Configs, gen : 1..MaxGeneration, at : Nat] /\ DecidedOK'
          /\ decided'.gen = row.gen BY <1>2, <2>4, <3>2, <3>3, Shared DEF DecidedOK
    <3>5. decided'.gen >= decided.gen BY <3>4, Shared DEF IInv, DecidedOK
    <3>6. test' \in [Tests -> HeldByTest] /\ TestsOK' BY <2>2, <2>3, <3>3, TestSteps
    <3>7. att' \in [Attempts -> HeldByAttempt] /\ AttemptsOK' /\ PoolOK' BY <2>5, <3>3, OthersStay
    <3>8. TypeOK' BY <2>5, <3>3, <3>4, <3>6, <3>7, Shared DEF TypeOK, Rows
    <3> QED BY <2>5, <3>4, <3>5, <3>6, <3>7, <3>8, Shared DEF IInv, Goal
  <2> QED BY <2>6, <2>7
<1> QED BY <1>5, <1>6, <1>7, <1>8, <1>9, <1>10 DEF TestStep, Goal

\* Time only lets windows run out.
LEMMA TickKeeps == IInv /\ Tick => IInv'
<1> SUFFICES ASSUME IInv, Tick PROVE IInv' OBVIOUS
<1>1. now' = now + 1 /\ pool' = pool /\ row' = row /\ att' = att /\ test' = test
      /\ heard' = heard /\ decided' = decided BY DEF Tick
<1>2. TypeOK' BY <1>1 DEF IInv, TypeOK
<1>3. ASSUME NEW a \in Attempts PROVE AttemptOK(att'[a], row', now')
  BY <1>1, Attempting, Shared DEF AttemptOK
<1>4. TestsOK' /\ DecidedOK' BY <1>1 DEF IInv, TestsOK, DecidedOK
<1>5. PoolOK'
  <2>1. Agrees(pool, heard, row.cfg, now) BY Shared
  <2>2. Keeps(pool, heard[row.cfg], now) => Keeps(pool, heard[row.cfg], now + 1)
    <3>1. heard[row.cfg].until \in Nat BY Shared, VerdictFields
    <3> QED BY <3>1, Shared DEF Keeps
  <2> QED BY <1>1, <2>1, <2>2 DEF PoolOK, Agrees
<1> QED BY <1>2, <1>3, <1>4, <1>5 DEF IInv, AttemptsOK

\* Every step keeps the invariant, cuts no bench short and does not go back on a
\* later test.
LEMMA NextKeeps ==
  ASSUME IInv, [Next]_vars
  PROVE  IInv' /\ NotCut(pool, pool', row.cfg, now) /\ decided'.gen >= decided.gen
<1>1. ASSUME NEW a \in Attempts, AttemptStep(a)
      PROVE  IInv' /\ NotCut(pool, pool', row.cfg, now) /\ decided'.gen >= decided.gen
  BY <1>1, AttemptKeeps
<1>2. ASSUME NEW t \in Tests, TestStep(t)
      PROVE  IInv' /\ NotCut(pool, pool', row.cfg, now) /\ decided'.gen >= decided.gen
  BY <1>2, TestKeeps
<1>3. CASE Tick
  <2>1. pool' = pool /\ decided' = decided BY <1>3 DEF Tick
  <2> QED BY <1>3, <2>1, TickKeeps, Shared
<1>4. CASE UNCHANGED vars
  <2>1. now' = now /\ pool' = pool /\ row' = row /\ att' = att /\ test' = test
        /\ heard' = heard /\ decided' = decided BY <1>4 DEF vars
  <2>2. TypeOK' BY <2>1 DEF IInv, TypeOK
  <2>3. AttemptsOK' /\ TestsOK' /\ DecidedOK' /\ PoolOK' BY <2>1, OthersStay
  <2> QED BY <2>1, <2>2, <2>3, Shared DEF IInv
<1> QED BY <1>1, <1>2, <1>3, <1>4 DEF Next
----------------------------------------
(* What holds of every behaviour. *)

\* The invariant: what everybody holds is the row as it is or was, and the pool's
\* record agrees with what the pool was told.
THEOREM Invariance == Spec => []IInv
<1>1. IInv /\ [Next]_vars => IInv' BY NextKeeps
<1> QED BY <1>1, InitIInv, PTL DEF Spec

\* Every variable stays of its type, whatever overlaps.
THEOREM TypeCorrect == Spec => []TypeOK
<1>1. IInv => TypeOK BY DEF IInv
<1> QED BY <1>1, Invariance, PTL

\* In whatever order the verdicts come back, a bench stands only on a 429 that
\* nothing refutes.
THEOREM BenchEarned == Spec => []BenchIsEarned
<1>1. IInv => BenchIsEarned
  <2> SUFFICES ASSUME IInv, Benched(pool) PROVE BenchIsEarned BY DEF BenchIsEarned
  <2>1. pool.cfg \in Configs BY Shared, RecordFields DEF Agrees, Configs
  <2>2. Knows(pool, heard[pool.cfg]) BY <2>1, Shared DEF Agrees
  <2> QED BY <2>2 DEF BenchIsEarned, Knows
<1> QED BY <1>1, Invariance, PTL

\* And the newest 429, when it is the newest evidence there is, has its bench.
THEOREM NewestLimitHeld == Spec => []NewestLimitHolds
<1>1. IInv => NewestLimitHolds
  <2> SUFFICES ASSUME IInv PROVE NewestLimitHolds OBVIOUS
  <2> QED BY Shared DEF Agrees, NewestLimitHolds, Keeps
<1> QED BY <1>1, Invariance, PTL

\* The pool's record is about the newest credential it was told about, and holds
\* the newest of what it was told about that one.
THEOREM RecordOfNewest == Spec => []RecordIsOfNewest
<1>1. IInv => RecordIsOfNewest
  <2> SUFFICES ASSUME IInv PROVE RecordIsOfNewest OBVIOUS
  <2>1. ASSUME NEW c \in Configs, heard[c] # Silence PROVE c <= pool.cfg
    BY <2>1, Shared, RecordFields DEF Agrees, Configs
  <2>2. ASSUME pool.cfg \in Configs PROVE Knows(pool, heard[pool.cfg]) BY <2>2, Shared DEF Agrees
  <2> QED BY <2>1, <2>2 DEF RecordIsOfNewest, Knows
<1> QED BY <1>1, Invariance, PTL

\* A bench stands exactly while a 429 of the newest credential that nothing refutes
\* says so.
THEOREM BenchesHonest == Spec => []BenchesAreHonest
<1>1. BenchIsEarned /\ NewestLimitHolds /\ RecordIsOfNewest => BenchesAreHonest
  BY DEF BenchesAreHonest
<1> QED BY <1>1, BenchEarned, NewestLimitHeld, RecordOfNewest, PTL

\* No step ends the bench of the credential in use early without evidence.
THEOREM BenchNotCutShort == Spec => BenchIsNotCutShort
<1>1. IInv /\ [Next]_vars => NotCut(pool, pool', row.cfg, now) BY NextKeeps
<1>2. NotCut(pool, pool', row.cfg, now) =>
        [ (now < pool.benchUntil /\ pool'.benchUntil < pool.benchUntil) =>
            \/ pool.cfg < row.cfg
            \/ pool'.limitedAt > pool.limitedAt
            \/ pool'.recoveredAt > pool.benchInstalled
            \/ pool'.invalidatedAt >= pool.limitedAt ]_vars BY DEF NotCut
<1> QED BY <1>1, <1>2, Invariance, PTL DEF Spec, BenchIsNotCutShort

\* The status in the row is about the credential in the row.
THEOREM StatusOfThisSecret == Spec => []StatusIsOfThisSecret
<1>1. IInv => StatusIsOfThisSecret BY DEF IInv, DecidedOK, StatusIsOfThisSecret
<1> QED BY <1>1, Invariance, PTL

\* A result of a test is written neither on another credential nor over that of
\* a later test.
THEOREM TestsInOrder == Spec => TestsDecideInOrder
<1>1. IInv /\ [Next]_vars => decided'.gen >= decided.gen BY NextKeeps
<1>2. IInv => StatusIsOfThisSecret BY DEF IInv, DecidedOK, StatusIsOfThisSecret
<1> QED BY <1>1, <1>2, Invariance, PTL DEF Spec, TestsDecideInOrder

\* What a request learnt with an old row in hand never fails the key.
THEOREM OvertakenFailNothing == Spec => OvertakenFailsNothing
<1>1. IInv => [\A a \in Attempts : Mark(a) => ~att[a].overtaken]_vars
  <2> SUFFICES ASSUME IInv, NEW a \in Attempts, Mark(a) PROVE ~att[a].overtaken OBVIOUS
  <2>1. att[a].pc # "idle" /\ att[a].gen = row.gen BY DEF Mark, IsCurrent
  <2>2. att[a].overtaken => att[a].gen < row.gen BY <2>1, Attempting
  <2> QED BY <2>1, <2>2, Shared
<1> QED BY <1>1, Invariance, PTL DEF Spec, OvertakenFailsNothing

\* Both: what is decided of a key is decided on the state it is in.
THEOREM VerdictsCurrent == Spec => VerdictsAreCurrent
<1> QED BY TestsInOrder, OvertakenFailNothing DEF VerdictsAreCurrent
=============================================================================
