----------------------------- MODULE MCGateway ------------------------------
(***************************************************************************)
(* An exchange, and the translation of its answer, checked in one run.     *)
(* They share no state: a behaviour is a behaviour of one of the parts,    *)
(* chosen at the start, while the other rests.                             *)
(***************************************************************************)
EXTENDS Relay, Codec

VARIABLE part

MCPlain == [fresh |-> 5, read |-> 0, write |-> 0, out |-> 3, think |-> 1]
\* More cache than fresh input: an input stated net of it looks impossible.
MCCostly == [fresh |-> 2, read |-> 3, write |-> 2, out |-> 4, think |-> 0]

\* A part at rest has one initial state.
MCInit ==
    \/ /\ part = "exchange"
       /\ pair = <<"chat", "claude">>
       /\ plan = CHOOSE p \in Plans("chat") : p.said = <<>>
       /\ Init /\ CodecInit
    \/ /\ part = "codec"
       /\ payload = "translated"
       /\ Init /\ CodecInit

MCNext ==
    /\ UNCHANGED part
    /\ \/ part = "exchange" /\ Next /\ UNCHANGED codec
       \/ part = "codec" /\ CodecNext /\ UNCHANGED vars

MCSpec == MCInit /\ [][MCNext]_<<part, vars, codec>>

\* A refusal of the payload, in two wordings.
Refusal(words) == [kind |-> PayloadRefused, reason |-> words, detail |-> 1]

\* Nothing reported, one observer's refusal, two observers' in both orders.
MCBatches == {<<>>, <<Refusal(1)>>, <<Refusal(1), Refusal(2)>>,
              <<Refusal(2), Refusal(1)>>}
=============================================================================
