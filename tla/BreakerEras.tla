---------------------------- MODULE BreakerEras ----------------------------
(***************************************************************************)
(* What the circuit breaker of one provider promises, without generations, *)
(* counters or time.  "live" is the set of requests whose admission is     *)
(* still in force: only what they report may move the breaker, and no      *)
(* admission is in force while the breaker is open.                        *)
(***************************************************************************)
CONSTANT Requests

VARIABLES kind, live
vars == <<kind, live>>

Init == kind = "closed" /\ live = {}

Admit(r) == kind = "closed" /\ live' = live \cup {r} /\ UNCHANGED kind

Probe(r) == /\ kind \in {"open", "halfOpen"}
            /\ kind' = "halfOpen"
            /\ live' = live \cup {r}

\* The provider was moved: the breaker starts over, with this request alone.
Restart(r) == kind' = "closed" /\ live' = {r}

\* A fault of a live request opens the breaker and ends every admission.
Open(r) == r \in live /\ kind # "open" /\ kind' = "open" /\ live' = {}

\* The success that completes the recovery also ends every admission.
Close(r) == /\ r \in live /\ kind = "halfOpen"
            /\ kind' = "closed" /\ live' = {}

Finish(r) == live' = live \ {r} /\ UNCHANGED kind

Next == \E r \in Requests :
            Admit(r) \/ Probe(r) \/ Restart(r) \/ Open(r) \/ Close(r) \/ Finish(r)

Spec == Init /\ [][Next]_vars
=============================================================================
