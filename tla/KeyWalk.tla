------------------------------ MODULE KeyWalk ------------------------------
(***************************************************************************)
(* The order a provider's keys are walked in (keyPool.walkOrder): benched  *)
(* keys trail, and a cursor turns the others so that consecutive requests  *)
(* start on different keys.  A key is its place in the provider's          *)
(* sort_order.  Which verdicts bench and release a key is KeyPool's        *)
(* subject; here they may do so at any time.                               *)
(***************************************************************************)
EXTENDS Naturals, FiniteSets, Sequences, Functions

CONSTANTS PoolKeys,  \* the provider's keys, by sort_order
          Benches,   \* how long a key may be benched
          MaxTicks,  \* bound: the clock stops here
          MaxWalks   \* bound: walks in one behaviour

ASSUME PoolKeysAssumption ==
    IsFiniteSet(PoolKeys) /\ PoolKeys \subseteq Nat /\ Benches \subseteq Nat

VARIABLES
    ticks,    \* keyPool.now
    until,    \* the keys' benchUntil, 0 when healthy
    cursor,   \* keyPool.cursors[provider]
    walk,     \* the last walk: its ready keys, and the order
    starts    \* history: first keys of the latest walks over the same ready keys

walks == <<ticks, until, cursor, walk, starts>>

WalkInit ==
    /\ ticks = 1
    /\ until = [k \in PoolKeys |-> 0]
    /\ cursor = 0
    /\ walk = [ready |-> {}, order |-> <<>>]
    /\ starts = <<>>

\* The members of S, each before those it comes before.
Sorted(S, Before(_, _)) ==
    CHOOSE s \in [1..Cardinality(S) -> S] :
        \A i, j \in DOMAIN s : i < j => Before(s[i], s[j])

InSortOrder(S) == Sorted(S, LAMBDA j, k : j < k)

Ready(offered) == {k \in offered : until[k] <= ticks}

SoonestFirst(S) ==
    Sorted(S, LAMBDA j, k : until[j] < until[k] \/ (until[j] = until[k] /\ j < k))

\* Bug: all keys are turned, then the benched ones are taken out.
TurnedFirst(offered) ==
    LET all == InSortOrder(offered)
        start == cursor % Len(all) IN
    SelectSeq(SubSeq(all, start + 1, Len(all)) \o SubSeq(all, 1, start),
              LAMBDA k : k \in Ready(offered))

\* The ready keys, turned by the cursor modulo how many they are now.
Turned(offered) ==
    LET ready == InSortOrder(Ready(offered))
        start == cursor % Len(ready) IN
    IF ready = <<>> THEN <<>>
    ELSE SubSeq(ready, start + 1, Len(ready)) \o SubSeq(ready, 1, start)

Order(offered) ==
    IF Cardinality(offered) < 2 THEN InSortOrder(offered)
    ELSE Turned(offered) \o SoonestFirst(offered \ Ready(offered))

\* What the ready keys' first places were since the ready keys last changed.
Started(ready, k) ==
    IF ready = {} THEN <<>>
    ELSE IF ready # walk.ready THEN <<k>>
    ELSE IF Len(starts) < Cardinality(ready) THEN Append(starts, k)
    ELSE Append(Tail(starts), k)

\* walkOrder, with the keys that are usable for this request. A single key is
\* returned before the benches are looked at.
Walk(offered) ==
    /\ cursor < MaxWalks
    /\ cursor' = cursor + 1
    /\ walk' = [ready |-> Ready(offered), order |-> Order(offered)]
    /\ until' = [k \in PoolKeys |-> IF k \in Ready(offered) /\ Cardinality(offered) > 1
                                THEN 0 ELSE until[k]]
    /\ starts' = Started(Ready(offered), Head(Order(offered)))
    /\ UNCHANGED ticks

\* coolKey; LengthenKeyBench and a newer 429 also land here.
Bench(k, d) ==
    /\ until' = [until EXCEPT ![k] = ticks + d]
    /\ UNCHANGED <<ticks, cursor, walk, starts>>

\* clearKey, dropKey.
ReleaseKey(k) ==
    /\ until[k] # 0
    /\ until' = [until EXCEPT ![k] = 0]
    /\ UNCHANGED <<ticks, cursor, walk, starts>>

TickPasses ==
    /\ ticks < MaxTicks
    /\ ticks' = ticks + 1
    /\ UNCHANGED <<until, cursor, walk, starts>>

WalkNext ==
    \/ \E offered \in (SUBSET PoolKeys) \ {{}} : Walk(offered)
    \/ \E k \in PoolKeys : ReleaseKey(k) \/ \E d \in Benches : Bench(k, d)
    \/ TickPasses

WalkSpec == WalkInit /\ [][WalkNext]_walks
-----------------------------------------------------------------------------
(* Properties.                                                             *)

\* While the ready keys stay the same, each of them starts one of as many
\* consecutive walks as there are: no key gets its benched neighbour's turn.
TurnsAreFair == IsInjective(starts)
=============================================================================
