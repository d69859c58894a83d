---------------------------- MODULE MCAdmission -----------------------------
(***************************************************************************)
(* What a request passes before it is sent, checked in one run: its key's  *)
(* limits, the provider its key is bound to, the order of the provider's   *)
(* keys; and, to spare runs, the windows before a login and the update of  *)
(* the binary.  They share no state: a behaviour is a behaviour of one of  *)
(* the parts, chosen at the start, while the others rest.                  *)
(***************************************************************************)
EXTENDS Binding, RateLimit, KeyWalk, Windows, Upgrade, TLC

CONSTANTS p1, p2, m1, m2, q1

VARIABLE part

\* The bindings are used by one request at a time, of any key on any model, or by two on
\* m1 while the breakers stay closed.
Alone == Step(q1) \/ Breakers \/ Tick
Together ==
    /\ (\E q \in Requests : Step(q)) \/ Tick
    /\ \A q \in Requests : req'[q].pc = "walking" => req'[q].pair[2] = m1

MCInit ==
    /\ Init /\ LimitInit /\ WalkInit /\ WindowsInit /\ UpgradeInit
    /\ part \in {"bindings", "overlaps", "limits", "walks", "windows", "upgrade"}

MCNext ==
    /\ UNCHANGED part
    /\ \/ part = "bindings" /\ Alone /\ UNCHANGED <<limiter, walks, windows, upgrade>>
       \/ part = "overlaps" /\ Together /\ UNCHANGED <<limiter, walks, windows, upgrade>>
       \/ part = "limits" /\ LimitNext /\ UNCHANGED <<vars, walks, windows, upgrade>>
       \/ part = "walks" /\ WalkNext /\ UNCHANGED <<vars, limiter, windows, upgrade>>
       \/ part = "windows" /\ WindowsNext /\ UNCHANGED <<vars, limiter, walks, upgrade>>
       \/ part = "upgrade" /\ UpgradeNext /\ UNCHANGED <<vars, limiter, walks, windows>>

MCSpec == MCInit /\ [][MCNext]_<<part, vars, limiter, walks, windows, upgrade>>

\* Candidates 1 and 2 chain m1, 3 and 4 chain m2; 5 is the first mapping made again.
MCModelOf == 1 :> m1 @@ 2 :> m1 @@ 3 :> m2 @@ 4 :> m2 @@ 5 :> m1
MCProviderOf == 1 :> p1 @@ 2 :> p2 @@ 3 :> p2 @@ 4 :> p1 @@ 5 :> p1

\* The parts that rest are as they were at the start, and a request that rests holds
\* nothing that matters.
MCView ==
    <<part, CASE part = "limits" -> limiter
              [] part = "walks" -> walks
              [] part = "windows" -> windows
              [] part = "upgrade" -> upgrade
              [] OTHER -> <<now, reg, deadEndUntil, open, steady,
                            [q \in {x \in Requests : req[x].pc # "idle"} |-> req[q]]>> >>

U(p, c, r, w, t) == [prompt |-> p, completion |-> c, cacheRead |-> r, cacheWrite |-> w, total |-> t]

\* Nothing settled; a total below and above the parts; a negative part; all there is.
MCUsages == {U(0, 0, 0, 0, 0), U(1, 1, 0, 0, 0), U(1, 0, 0, 0, 2), U(-1, 0, 1, 0, 0),
             U(2, 3, 1, 0, 0)}

L(c, t, r) == [conc |-> c, tpm |-> t, rpm |-> r]

\* The key before and after an edit, and a key without a concurrency limit.
MCLimits == {L(1, 2, 1), L(2, 4, 2), L(0, 4, 0)}

\* Caller keys and admissions are the same values.
MCSymmetry == Permutations(CallerKeys)
=============================================================================
