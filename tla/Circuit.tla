------------------------------ MODULE Circuit ------------------------------
(***************************************************************************)
(* The circuit breaker of internal/gateway/circuit under the requests that *)
(* use it (internal/gateway/relay.go).  A request takes a snapshot of the  *)
(* provider row, asks Allow once, asks StillAllowed before each of its     *)
(* attempts, and books each attempt's result with the generation Allow     *)
(* gave it, however long the attempt took.  An operator may meanwhile      *)
(* repair the provider's base URL.                                         *)
(*                                                                         *)
(* Records of different providers never meet, so one provider is enough.   *)
(***************************************************************************)
EXTENDS CircuitRecord

CONSTANTS Requests,   \* the requests in flight at one time
          MaxFaults   \* bound: faults the provider commits in one behaviour

ASSUME MaxFaultsAssumption == MaxFaults \in Nat

VARIABLES
    record,       \* Breaker.states[provider]
    destination,  \* the provider row's destination_version
    req,          \* what each request holds
    faults,       \* faults booked so far, for the bound
    weight,       \* history: half-faults of this streak, see Weigh
    sinceTrip     \* history: time since the current destination's last trip

circuit == <<record, destination, req, faults, weight, sinceTrip>>

Idle == [pc |-> "idle", destination |-> 0, generation |-> 0, overtaken |-> FALSE]

InFlight(r) == req[r].pc \in {"admitted", "dispatched"}

CircuitInit ==
    /\ record = NoRecord
    /\ destination \in Destinations
    /\ \A d \in Destinations : destination <= d
    /\ req = [r \in Requests |-> Idle]
    /\ faults = 0
    /\ weight = 0
    /\ sinceTrip = OpenTimeout
-----------------------------------------------------------------------------
(* History.  An admission is overtaken when the breaker opens, closes or   *)
(* starts over after it.  Going half-open overtakes nothing: whoever made  *)
(* that happen holds the first probe.                                      *)

Overtakes(s, t) ==
    \/ s.destination # t.destination
    \/ s.kind # t.kind /\ ~(s.kind = "open" /\ t.kind = "halfOpen")

MarkOvertaken(s, t, q) ==
    IF Overtakes(s, t)
    THEN [r \in Requests |->
            IF q[r].pc \in {"admitted", "dispatched"}
            THEN [q[r] EXCEPT !.overtaken = TRUE] ELSE q[r]]
    ELSE q

\* Half-faults booked in a closed era since the last success. The sum stands
\* through the trip it leads to and starts at 0 with the next closed era.
Weigh(r, effect) ==
    CASE req[r].overtaken \/ effect = "none" \/ record.kind # "closed" -> weight
      [] ~req[r].overtaken /\ record.kind = "closed" /\ effect = "penalize" -> weight + 2
      [] ~req[r].overtaken /\ record.kind = "closed" /\ effect = "penalizeSoft" -> weight + 1
      [] ~req[r].overtaken /\ record.kind = "closed" /\ effect = "reset" -> 0
-----------------------------------------------------------------------------
(* A request.                                                              *)

\* Handle loads the model's candidates, with their providers, once.
LoadProvider(r) ==
    /\ req[r].pc = "idle"
    /\ req' = [req EXCEPT ![r] = [Idle EXCEPT !.pc = "loaded", !.destination = destination]]
    /\ UNCHANGED <<record, destination, faults, weight, sinceTrip>>

Refused(r) ==
    /\ req[r].pc = "loaded"
    /\ ~Admits(record, req[r].destination)
    /\ req' = [req EXCEPT ![r] = Idle]
    /\ UNCHANGED <<record, destination, faults, weight, sinceTrip>>

Admitted(r) ==
    LET after == AfterAllow(record, req[r].destination) IN
    /\ req[r].pc = "loaded"
    /\ Admits(record, req[r].destination)
    /\ record' = after
    /\ req' = [MarkOvertaken(record, after, req) EXCEPT
                    ![r].pc = "admitted", ![r].generation = after.generation]
    /\ weight' = IF Overtakes(record, after) THEN 0 ELSE weight
    /\ UNCHANGED <<destination, faults, sinceTrip>>

\* tryKeys enters one more key.
EnterKey(r) ==
    /\ req[r].pc = "admitted"
    /\ StillAllowed(record, req[r].generation)
    /\ req' = [req EXCEPT ![r].pc = "dispatched"]
    /\ UNCHANGED <<record, destination, faults, weight, sinceTrip>>

\* The request ends or moves to another provider: no key left, admission
\* revoked, response written.
Leave(r) ==
    /\ req[r].pc = "admitted"
    /\ req' = [req EXCEPT ![r] = Idle]
    /\ UNCHANGED <<record, destination, faults, weight, sinceTrip>>

\* executeCircuit: the attempt's result reaches the breaker.
Book(r, effect) ==
    LET after == Booked(record, req[r].generation, effect)
        fault == effect \in {"penalize", "penalizeSoft"} IN
    /\ req[r].pc = "dispatched"
    /\ fault => faults < MaxFaults
    /\ record' = after
    /\ req' = [MarkOvertaken(record, after, req) EXCEPT ![r].pc = "admitted"]
    /\ faults' = IF fault THEN faults + 1 ELSE faults
    /\ weight' = IF Overtakes(record, after) /\ after.kind = "closed"
                 THEN 0 ELSE Weigh(r, effect)
    /\ sinceTrip' = IF after.kind = "open" /\ record.kind # "open"
                       /\ after.destination = destination
                    THEN 0 ELSE sinceTrip
    /\ UNCHANGED destination
-----------------------------------------------------------------------------
\* An operator edits the base URL: a new destination, never seen before.
Repair ==
    /\ destination + 1 \in Destinations
    /\ destination' = destination + 1
    /\ sinceTrip' = OpenTimeout
    /\ UNCHANGED <<record, req, faults, weight>>

CircuitTick ==
    /\ record' = Aged(record)
    /\ sinceTrip' = IF sinceTrip < OpenTimeout THEN sinceTrip + 1 ELSE sinceTrip
    /\ UNCHANGED <<destination, req, faults, weight>>

Step(r) == \/ LoadProvider(r) \/ Refused(r) \/ Admitted(r) \/ EnterKey(r) \/ Leave(r)
           \/ \E effect \in Effects : Book(r, effect)

CircuitNext == (\E r \in Requests : Step(r)) \/ Repair \/ CircuitTick

CircuitSpec == CircuitInit /\ [][CircuitNext]_circuit

\* Time passes, a request that can go on does, and the provider recovers: its
\* faults are bounded, and a caller that keeps being admitted is not always
\* skipped before dispatch nor always left without a verdict.
Fairness ==
    /\ WF_circuit(CircuitTick)
    /\ \A r \in Requests : /\ WF_circuit(Step(r))
                           /\ SF_circuit(EnterKey(r)) /\ SF_circuit(Book(r, "reset"))

FairSpec == CircuitSpec /\ Fairness
-----------------------------------------------------------------------------
RequestType == [pc : {"idle", "loaded", "admitted", "dispatched"},
                destination : Destinations \cup {0},
                generation : Nat, overtaken : BOOLEAN]

\* Types of the breaker, the provider row and the requests.
CircuitTypeOK ==
    /\ record \in Record
    /\ destination \in Destinations
    /\ req \in [Requests -> RequestType]
    /\ faults \in 0..MaxFaults
    /\ weight \in Nat
    /\ sinceTrip \in 0..OpenTimeout

\* Whoever the breaker would still listen to.
Live == {r \in Requests : InFlight(r) /\ req[r].generation = record.generation}

\* A generation stands for an era: an admission is current by its number
\* exactly when no trip, closing or new destination has come since. Both
\* "unreachable" branches of Record* rest on it (circuit.go:243 and 318).
GenerationsNameEras ==
    \A r \in Requests : InFlight(r) =>
        (req[r].overtaken <=> req[r].generation # record.generation)

\* While the breaker is open nobody holds an admission it would honour: no key
\* is dispatched under it and no result can close or re-trip it.
OpenHasNoLiveAdmission == record.kind = "open" => Live = {}

\* The result of an attempt admitted before the last trip, closing or change
\* of destination never changes the record, however late it is booked.
OvertakenNeverBooks ==
    [][\A r \in Requests :
        (req[r].pc = "dispatched" /\ req'[r].pc = "admitted" /\ req[r].overtaken)
            => record' = record]_circuit

\* The breaker opens from closed exactly at FailureThreshold faults in a row,
\* two soft ones counting for one: a closed record carries less, and no trip
\* happens with less.
OpensAtThreshold ==
    /\ [](record.kind = "closed" => weight < 2 * FailureThreshold)
    /\ [][(record.kind = "closed" /\ record'.kind = "open")
            => weight' >= 2 * FailureThreshold]_circuit

\* A provider that recovers is taken back: whatever was booked or left
\* unbooked while half-open, the breaker does not stay open for ever.
Recovers == []<>(record.kind = "closed")

\* The breaker keeps the promises of BreakerEras.
Eras == INSTANCE BreakerEras WITH kind <- record.kind, live <- Live
RefinesEras == Eras!Spec
-----------------------------------------------------------------------------
(* What comments of the code say and the code does not do.                 *)

\* circuit.go:38: after a trip, the provider (where it now is) is given no
\* request before OpenTimeout has passed.
OpenWindowHolds ==
    [][\A r \in Requests :
        (/\ req[r].pc = "loaded" /\ req'[r].pc = "admitted"
         /\ req[r].destination = destination)
            => sinceTrip >= OpenTimeout]_circuit
=============================================================================
