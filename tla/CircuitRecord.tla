--------------------------- MODULE CircuitRecord ---------------------------
(***************************************************************************)
(* One provider's health record, and what each method of                   *)
(* internal/gateway/circuit.Breaker does to it.  Every method takes the    *)
(* breaker's mutex, touches the record of one provider and returns, so a   *)
(* method is one operator from a record to a record.                       *)
(*                                                                         *)
(* The code stamps openedAt and lastProbeAt and later compares the time    *)
(* that has passed with a duration.  The record here holds the time that   *)
(* has passed instead, stopped at OpenTimeout, the longest duration it is  *)
(* ever compared with.                                                     *)
(***************************************************************************)
EXTENDS Integers

CONSTANTS FailureThreshold,  \* consecutive failures that open the breaker
          SuccessThreshold,  \* half-open successes that close it
          OpenTimeout        \* how long an open breaker refuses traffic

ASSUME ConfigAssumption ==
    /\ FailureThreshold \in Nat \ {0}
    /\ SuccessThreshold \in Nat \ {0}
    /\ OpenTimeout \in Nat \ {0}

CONSTANT Destinations        \* versions of the provider's base URL
ASSUME DestinationsAssumption == Destinations \subseteq Nat

Kinds == {"closed", "open", "halfOpen"}

\* "known" is membership of the map: a provider never seen has no record.
Record == [known : BOOLEAN, kind : Kinds, failures : Nat, successes : Nat,
           soft : 0..1, sinceOpened : 0..OpenTimeout,
           sinceProbe : 0..OpenTimeout, generation : Nat, destination : Nat]

\* The zero value the code builds a fresh record from.
Fresh(generation, destination) ==
    [known |-> TRUE, kind |-> "closed", failures |-> 0, successes |-> 0,
     soft |-> 0, sinceOpened |-> OpenTimeout, sinceProbe |-> OpenTimeout,
     generation |-> generation, destination |-> destination]

NoRecord == [Fresh(0, 0) EXCEPT !.known = FALSE]

\* One millisecond is the unit of time, so the floor is 1.
ProbeInterval ==
    LET share == OpenTimeout \div SuccessThreshold
    IN  IF share < 1 THEN 1 ELSE share
-----------------------------------------------------------------------------
(* Allow: whether the provider may be called, and the record afterwards.   *)

\* Mutants: one probe per half-open era, a reset that restarts the generations.
ProbeOnlyOnce(s) == FALSE
ResetForgetsGeneration(s, d) == Fresh(0, d)

ProbeDue(s) == s.sinceProbe >= ProbeInterval
WindowOver(s) == s.sinceOpened >= OpenTimeout

ResetFor(s, d) == Fresh(s.generation + 1, d)

Admits(s, d) ==
    \/ ~s.known
    \/ s.destination # d
    \/ s.kind = "closed"
    \/ s.kind = "open" /\ WindowOver(s)
    \/ s.kind = "halfOpen" /\ ProbeDue(s)

\* Also what Allow returns as the generation: the generation of the result.
AfterAllow(s, d) ==
    CASE ~s.known -> Fresh(0, d)
      [] s.known /\ s.destination # d -> ResetFor(s, d)
      [] s.known /\ s.destination = d /\ s.kind = "open" /\ WindowOver(s) ->
            [s EXCEPT !.kind = "halfOpen", !.successes = 0, !.sinceProbe = 0]
      [] s.known /\ s.destination = d /\ s.kind = "halfOpen" /\ ProbeDue(s) ->
            [s EXCEPT !.sinceProbe = 0]
      [] OTHER -> s

StillAllowed(s, generation) == s.known => s.generation = generation

IsOpen(s, d) ==
    s.known /\ s.kind = "open" /\ s.destination = d /\ ~WindowOver(s)
-----------------------------------------------------------------------------
(* Booking a result.                                                       *)

\* Mutant: a trip that does not start a new generation.
TripKeepsGeneration(s) ==
    [s EXCEPT !.kind = "open", !.sinceOpened = 0, !.failures = 0,
              !.successes = 0, !.soft = 0]

Trip(s) ==
    [s EXCEPT !.kind = "open", !.sinceOpened = 0, !.failures = 0,
              !.successes = 0, !.soft = 0, !.generation = @ + 1]

\* A full fault against a closed or half-open record.
Fault(s) ==
    CASE s.kind = "closed" ->
            IF s.failures + 1 >= FailureThreshold
            THEN Trip(s) ELSE [s EXCEPT !.failures = @ + 1]
      [] s.kind = "halfOpen" -> Trip(s)
      [] s.kind = "open" -> s

\* Every second soft fault is a full one.
SoftFault(s) ==
    CASE s.kind = "open" -> s
      [] s.kind # "open" /\ s.soft = 0 -> [s EXCEPT !.soft = 1]
      [] s.kind # "open" /\ s.soft # 0 -> Fault([s EXCEPT !.soft = 0])

\* A mutant: a success that clears the failures and not the half fault.
HealthyKeepsSoft(s) ==
    IF s.kind = "closed" THEN [s EXCEPT !.failures = 0] ELSE s

Healthy(s) ==
    CASE s.kind = "closed" -> [s EXCEPT !.failures = 0, !.soft = 0]
      [] s.kind = "halfOpen" ->
            IF s.successes + 1 >= SuccessThreshold
            THEN ResetFor(s, s.destination)
            ELSE [s EXCEPT !.soft = 0, !.successes = @ + 1]
      [] s.kind = "open" -> s

Effects == {"penalize", "penalizeSoft", "reset", "none"}

\* A mutant: a success counts whenever it comes.
BookedLateSuccess(s, generation, effect) ==
    CASE effect = "reset" -> Healthy(s)
      [] effect = "penalize" /\ s.generation = generation -> Fault(s)
      [] effect = "penalizeSoft" /\ s.generation = generation -> SoftFault(s)
      [] OTHER -> s

\* A booking creates the record it needs, except a success; a result of an
\* older generation changes nothing.
Booked(s, generation, effect) ==
    LET t == IF s.known THEN s ELSE Fresh(0, 0)
    IN  CASE effect = "none" -> s
          [] effect = "reset" ->
                IF s.known /\ s.generation = generation THEN Healthy(s) ELSE s
          [] effect = "penalize" ->
                IF t.generation = generation THEN Fault(t) ELSE t
          [] effect = "penalizeSoft" ->
                IF t.generation = generation THEN SoftFault(t) ELSE t

\* A unit of time passes.
Aged(s) ==
    [s EXCEPT !.sinceOpened = IF @ < OpenTimeout THEN @ + 1 ELSE @,
              !.sinceProbe = IF @ < OpenTimeout THEN @ + 1 ELSE @]
=============================================================================
