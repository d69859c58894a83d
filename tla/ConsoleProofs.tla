---------------------------- MODULE ConsoleProofs ----------------------------
(***************************************************************************)
(* Proofs about the console's components, for any number of users, keys,   *)
(* models, requests and versions.                                          *)
(*                                                                         *)
(* Windows: the common window lets through at most twice its limit over a  *)
(* span shorter by what a request may come late, three times over its own. *)
(*                                                                         *)
(* Accounts and Federation: a session is owed to its account, an           *)
(* administrator remains, a lock is earned; a federated login takes one    *)
(* exchange, and a person has one account.                                 *)
(*                                                                         *)
(* ApiKeys, Settings and Catalogue: a write replaces or reports the row    *)
(* its request read, or it is told so, or the overtaking is named; what    *)
(* the cache answers the rows have held.                                   *)
(***************************************************************************)
EXTENDS Windows, Accounts, Federation, ApiKeys, Settings, Catalogue, FiniteSetTheorems, TLAPS

(* Windows. *)

\* The numbers a window can hand out, and what a request holds.
Asking == [step : {"window", "client", "slot", "work"}, client : Clients, now : Nat]
Tickets == [win : Nat, nr : Nat, at : Nat]
AtWork == {a \in Askers : At(a, "work")}

WindowsTypeOK ==
  /\ time \in Nat
  /\ window \in [start : Nat, count : Nat]
  /\ asks \in [Askers -> {NoAsk} \cup Asking]
  /\ let \in SUBSET Tickets
  /\ free \in Nat

\* A request that waits for the first lock is late by no more than MaxWait, and the
\* window began at a time that was read.
LateByLess ==
  /\ window.start <= time
  /\ \A a \in Askers : At(a, "window") => asks[a].now <= time /\ time <= asks[a].now + MaxWait

\* A ticket is of its window and of no other request; windows begin a span apart.
TicketsAreOwn ==
  /\ \A x \in let :
      /\ x.nr \in 1..WindowLimit
      /\ x.win <= x.at + MaxWait /\ x.at < x.win + WindowSpan
      /\ x.win <= window.start
      /\ x.win = window.start => x.nr <= window.count
      /\ x.win < window.start => x.win + WindowSpan <= window.start
  /\ \A x, y \in let : x.win = y.win /\ x.nr = y.nr => x = y
  /\ \A x, y \in let : x.win < y.win => x.win + WindowSpan <= y.win

MapIsBounded ==
  /\ DOMAIN clients \subseteq Clients
  /\ Cardinality(DOMAIN clients) <= perClientMapCap

SlotsAreKept == free + Cardinality(AtWork) = SemaphoreSlots

WindowsInv == WindowsTypeOK /\ LateByLess /\ TicketsAreOwn /\ MapIsBounded /\ SlotsAreKept

\* Tickets of finitely many windows are at most the limit for each.
LEMMA TicketsCounted ==
  ASSUME WindowsTypeOK, TicketsAreOwn, NEW T, T \subseteq let, NEW W, IsFiniteSet(W),
         \A x \in T : x.win \in W
  PROVE  /\ IsFiniteSet(T) /\ Cardinality(T) \in Nat
         /\ Cardinality(T) <= Cardinality(W) * WindowLimit
<1> DEFINE P == W \X (1..WindowLimit)
           f == [x \in T |-> <<x.win, x.nr>>]
<1>1. WindowLimit \in Nat BY WindowsAssumption
<1>2. IsFiniteSet(1..WindowLimit) /\ Cardinality(1..WindowLimit) = WindowLimit
  <2>1. /\ IsFiniteSet(1..WindowLimit)
        /\ Cardinality(1..WindowLimit) = IF 1 > WindowLimit THEN 0 ELSE WindowLimit - 1 + 1
    BY <1>1, FS_Interval
  <2> QED BY <1>1, <2>1
<1>3. IsFiniteSet(P) /\ Cardinality(P) = Cardinality(W) * WindowLimit BY <1>2, FS_Product
<1>4. f \in [T -> P] BY DEF TicketsAreOwn
<1>5. \A x, y \in T : f[x] = f[y] => x = y BY DEF TicketsAreOwn
<1>6. f \in Injection(T, P) BY <1>4, <1>5 DEF Injection, IsInjective
<1> HIDE DEF f, P
<1>7. IsFiniteSet(T) /\ Cardinality(T) <= Cardinality(P) BY <1>3, <1>6, FS_Injection
<1> QED BY <1>3, <1>7, FS_CardinalityType

\* Two windows, and three.
LEMMA OfTwo ==
  ASSUME NEW a, NEW b, NEW c
  PROVE  /\ IsFiniteSet({a, b}) /\ Cardinality({a, b}) \in 1..2
         /\ IsFiniteSet({a, b, c}) /\ Cardinality({a, b, c}) \in 1..3
<1>1. IsFiniteSet({a}) /\ Cardinality({a}) = 1 BY FS_Singleton
<1>2. IsFiniteSet({a, b}) /\ Cardinality({a, b}) \in 1..2
  <2>1. {a} \cup {b} = {a, b} OBVIOUS
  <2>2. /\ IsFiniteSet({a} \cup {b})
        /\ Cardinality({a} \cup {b}) = IF b \in {a} THEN Cardinality({a}) ELSE Cardinality({a}) + 1
    BY <1>1, FS_AddElement
  <2> QED BY <1>1, <2>1, <2>2
<1>3. {a, b} \cup {c} = {a, b, c} OBVIOUS
<1>4. /\ IsFiniteSet({a, b} \cup {c})
      /\ Cardinality({a, b} \cup {c}) =
            IF c \in {a, b} THEN Cardinality({a, b}) ELSE Cardinality({a, b}) + 1
  BY <1>2, FS_AddElement
<1> QED BY <1>2, <1>3, <1>4

\* Over a span shorter by MaxWait no three windows let anybody through, and over one
\* of a window's length no four.
LEMMA SpansAreOfFew ==
  ASSUME WindowsTypeOK, TicketsAreOwn, NEW p \in Nat
  PROVE  /\ \E a, b : \A x \in Through(p, p + WindowSpan - MaxWait) : x.win \in {a, b}
         /\ \E a, b, c : \A x \in Through(p, p + WindowSpan - 1) : x.win \in {a, b, c}
<1>1. /\ WindowSpan \in Nat /\ WindowSpan > 0 /\ MaxWait \in Nat /\ MaxWait < WindowSpan
  BY WindowsAssumption
<1>2. \A x \in let : x.win \in Nat /\ x.at \in Nat BY DEF WindowsTypeOK, Tickets
<1>3. \A x \in let : x.win <= x.at + MaxWait /\ x.at < x.win + WindowSpan BY DEF TicketsAreOwn
<1>4. \A x, y \in let : x.win < y.win => x.win + WindowSpan <= y.win BY DEF TicketsAreOwn
<1>5. \A q : \A x \in Through(p, q) : x \in let /\ p <= x.at /\ x.at <= q BY DEF Through
<1>6. ASSUME NEW q, NEW x \in Through(p, q), NEW y \in Through(p, q), NEW z \in Through(p, q),
             q \in Int, x.win < y.win, y.win < z.win
      PROVE  q > p + WindowSpan - MaxWait BY <1>1, <1>2, <1>3, <1>4, <1>5, <1>6
<1>7. ASSUME NEW q, NEW x \in Through(p, q), NEW y \in Through(p, q), NEW z \in Through(p, q),
             NEW w \in Through(p, q), q \in Int, x.win < y.win, y.win < z.win, z.win < w.win
      PROVE  q > p + WindowSpan - 1
  <2>1. x.win + WindowSpan <= y.win /\ y.win + WindowSpan <= z.win /\ z.win + WindowSpan <= w.win
    BY <1>4, <1>5, <1>7
  <2>2. x.at < x.win + WindowSpan /\ w.win <= w.at + MaxWait /\ p <= x.at /\ w.at <= q
    BY <1>3, <1>5
  <2> QED BY <1>1, <1>2, <1>5, <1>7, <2>1, <2>2
<1>8. ASSUME NEW q \in Int, q <= p + WindowSpan - MaxWait
      PROVE  \E a, b : \A x \in Through(p, q) : x.win \in {a, b}
  <2>1. CASE \E x, y \in Through(p, q) : x.win # y.win
    <3>1. PICK x, y \in Through(p, q) : x.win # y.win BY <2>1
    <3>2. \A z \in Through(p, q) : z.win \in {x.win, y.win} BY <1>1, <1>2, <1>5, <1>6, <1>8, <3>1
    <3> QED BY <3>2
  <2>2. CASE ~ \E x, y \in Through(p, q) : x.win # y.win
    <3>1. CASE Through(p, q) = {} BY <3>1
    <3>2. CASE Through(p, q) # {}
      <4>1. PICK x \in Through(p, q) : TRUE BY <3>2
      <4>2. \A z \in Through(p, q) : z.win \in {x.win, x.win} BY <2>2
      <4> QED BY <4>2
    <3> QED BY <3>1, <3>2
  <2> QED BY <2>1, <2>2
<1>9. ASSUME NEW q \in Int, q <= p + WindowSpan - 1
      PROVE  \E a, b, c : \A x \in Through(p, q) : x.win \in {a, b, c}
  <2>1. CASE \E x, y, z \in Through(p, q) : x.win # y.win /\ y.win # z.win /\ x.win # z.win
    <3>1. PICK x, y, z \in Through(p, q) : x.win # y.win /\ y.win # z.win /\ x.win # z.win BY <2>1
    <3>2. \A w \in Through(p, q) : w.win \in {x.win, y.win, z.win}
      <4> SUFFICES ASSUME NEW w \in Through(p, q), w.win \notin {x.win, y.win, z.win}
                   PROVE  FALSE OBVIOUS
      <4>1. ~(q > p + WindowSpan - 1) BY <1>1, <1>9
      <4>2. /\ x.win \in Nat /\ y.win \in Nat /\ z.win \in Nat /\ w.win \in Nat BY <1>2, <1>5
      <4>3. \A r, s, t, u \in {x, y, z, w} : ~(r.win < s.win /\ s.win < t.win /\ t.win < u.win)
        BY <1>7, <4>1
      <4> QED BY <3>1, <4>2, <4>3
    <3> QED BY <3>2
  <2>2. CASE ~ \E x, y, z \in Through(p, q) : x.win # y.win /\ y.win # z.win /\ x.win # z.win
    <3>1. CASE \E x, y \in Through(p, q) : x.win # y.win
      <4>1. PICK x, y \in Through(p, q) : x.win # y.win BY <3>1
      <4>2. \A z \in Through(p, q) : z.win \in {x.win, y.win, y.win} BY <2>2, <4>1
      <4> QED BY <4>2
    <3>2. CASE ~ \E x, y \in Through(p, q) : x.win # y.win
      <4>1. CASE Through(p, q) = {} BY <4>1
      <4>2. CASE Through(p, q) # {}
        <5>1. PICK x \in Through(p, q) : TRUE BY <4>2
        <5>2. \A z \in Through(p, q) : z.win \in {x.win, x.win, x.win} BY <3>2
        <5> QED BY <5>2
      <4> QED BY <4>1, <4>2
    <3> QED BY <3>1, <3>2
  <2> QED BY <2>1, <2>2
<1>10. /\ p + WindowSpan - MaxWait \in Int /\ p + WindowSpan - MaxWait <= p + WindowSpan - MaxWait
       /\ p + WindowSpan - 1 \in Int /\ p + WindowSpan - 1 <= p + WindowSpan - 1 BY <1>1
<1>11. \E a, b : \A x \in Through(p, p + WindowSpan - MaxWait) : x.win \in {a, b} BY <1>8, <1>10
<1>12. \E a, b, c : \A x \in Through(p, p + WindowSpan - 1) : x.win \in {a, b, c} BY <1>9, <1>10
<1> QED BY <1>11, <1>12

\* The invariant bounds the bursts.
LEMMA WindowsBound == WindowsInv => BurstsAreBounded
<1> SUFFICES ASSUME WindowsInv PROVE BurstsAreBounded OBVIOUS
<1>1. WindowLimit \in Nat BY WindowsAssumption
<1>2. ASSUME NEW x \in let
      PROVE  /\ Cardinality(Through(x.at, x.at + WindowSpan - MaxWait)) <= 2 * WindowLimit
             /\ Cardinality(Through(x.at, x.at + WindowSpan - 1)) <= 3 * WindowLimit
  <2>1. x.at \in Nat BY DEF WindowsInv, WindowsTypeOK, Tickets
  <2>2. PICK a, b : \A y \in Through(x.at, x.at + WindowSpan - MaxWait) : y.win \in {a, b}
    BY <2>1, SpansAreOfFew DEF WindowsInv
  <2>3. PICK c, d, e : \A y \in Through(x.at, x.at + WindowSpan - 1) : y.win \in {c, d, e}
    BY <2>1, SpansAreOfFew DEF WindowsInv
  <2>4. \A q : Through(x.at, q) \subseteq let BY DEF Through
  <2>5. /\ Cardinality(Through(x.at, x.at + WindowSpan - MaxWait)) \in Nat
        /\ Cardinality(Through(x.at, x.at + WindowSpan - MaxWait))
                <= Cardinality({a, b}) * WindowLimit
    BY <2>2, <2>4, OfTwo, TicketsCounted DEF WindowsInv
  <2>6. /\ Cardinality(Through(x.at, x.at + WindowSpan - 1)) \in Nat
        /\ Cardinality(Through(x.at, x.at + WindowSpan - 1))
                <= Cardinality({c, d, e}) * WindowLimit
    BY <2>3, <2>4, OfTwo, TicketsCounted DEF WindowsInv
  <2>7. Cardinality({a, b}) \in 1..2 /\ Cardinality({c, d, e}) \in 1..3 BY OfTwo
  <2>8. /\ Cardinality({a, b}) = 1 \/ Cardinality({a, b}) = 2
        /\ Cardinality({c, d, e}) = 1 \/ Cardinality({c, d, e}) = 2 \/ Cardinality({c, d, e}) = 3
    BY <2>7
  <2>9. Cardinality(Through(x.at, x.at + WindowSpan - MaxWait)) <= 2 * WindowLimit
    BY <1>1, <2>5, <2>8
  <2>10. Cardinality(Through(x.at, x.at + WindowSpan - 1)) <= 3 * WindowLimit BY <1>1, <2>6, <2>8
  <2> QED BY <2>9, <2>10
<1> QED BY <1>2 DEF BurstsAreBounded, WindowsInv, MapIsBounded, SlotsAreKept, AtWork

LEMMA WindowsStart == WindowsInit => WindowsInv
<1> SUFFICES ASSUME WindowsInit PROVE WindowsInv OBVIOUS
<1> USE WindowsAssumption
<1>1. WindowsTypeOK /\ LateByLess /\ TicketsAreOwn
  BY DEF WindowsInit, WindowsTypeOK, LateByLess, TicketsAreOwn, At, NoAsk
<1>2. MapIsBounded
  <2>1. DOMAIN clients = {} BY DEF WindowsInit
  <2> QED BY <2>1, FS_EmptySet DEF MapIsBounded
<1>3. SlotsAreKept
  <2>1. AtWork = {} BY DEF WindowsInit, AtWork, At, NoAsk
  <2> QED BY <2>1, FS_EmptySet DEF WindowsInit, SlotsAreKept
<1> QED BY <1>1, <1>2, <1>3 DEF WindowsInv

\* A request that moves joins those at work, leaves them, or stays apart from them.
LEMMA WorkCounted ==
  ASSUME NEW a \in Askers
  PROVE  /\ IsFiniteSet(AtWork) /\ Cardinality(AtWork) \in Nat
         /\ ~At(a, "work") => Cardinality(AtWork \cup {a}) = Cardinality(AtWork) + 1
         /\ At(a, "work") => Cardinality(AtWork \ {a}) = Cardinality(AtWork) - 1
<1>1. IsFiniteSet(AtWork) BY WindowsAssumption, FS_Subset DEF AtWork
<1>2. Cardinality(AtWork) \in Nat BY <1>1, FS_CardinalityType
<1>3. Cardinality(AtWork \cup {a}) =
        IF a \in AtWork THEN Cardinality(AtWork) ELSE Cardinality(AtWork) + 1
  BY <1>1, FS_AddElement
<1>4. Cardinality(AtWork \ {a}) =
        IF a \in AtWork THEN Cardinality(AtWork) - 1 ELSE Cardinality(AtWork)
  BY <1>1, FS_RemoveElement
<1> QED BY <1>1, <1>2, <1>3, <1>4 DEF AtWork

\* What a step of one request does to the requests.
LEMMA Stepped ==
  ASSUME WindowsTypeOK, NEW a \in Askers
  PROVE  /\ \A step \in {"window", "client", "slot", "work"} :
              asks[a] # NoAsk /\ Moves(a, step) =>
                  /\ asks' \in [Askers -> {NoAsk} \cup Asking]
                  /\ asks'[a].step = step
                  /\ \A b \in Askers \ {a} : asks'[b] = asks[b]
         /\ Refused(a) =>
                  /\ asks' \in [Askers -> {NoAsk} \cup Asking]
                  /\ asks'[a].step = "none"
                  /\ \A b \in Askers \ {a} : asks'[b] = asks[b]
<1>1. asks \in [Askers -> {NoAsk} \cup Asking] BY DEF WindowsTypeOK
<1>2. ASSUME NEW step \in {"window", "client", "slot", "work"},
             asks[a] # NoAsk, Moves(a, step)
      PROVE  /\ asks' \in [Askers -> {NoAsk} \cup Asking]
             /\ asks'[a].step = step
             /\ \A b \in Askers \ {a} : asks'[b] = asks[b]
  <2> DEFINE w == [asks[a] EXCEPT !.step = step]
  <2>1. asks[a] \in Asking BY <1>1, <1>2
  <2>2. w \in Asking /\ w.step = step BY <2>1 DEF Asking
  <2>3. asks' = [asks EXCEPT ![a] = w] BY <1>2 DEF Moves
  <2> HIDE DEF w
  <2> QED BY <1>1, <2>2, <2>3
<1>3. ASSUME Refused(a)
      PROVE  /\ asks' \in [Askers -> {NoAsk} \cup Asking]
             /\ asks'[a].step = "none"
             /\ \A b \in Askers \ {a} : asks'[b] = asks[b]
  <2>1. asks' = [asks EXCEPT ![a] = NoAsk] /\ NoAsk.step = "none" BY <1>3 DEF Refused, NoAsk
  <2> QED BY <1>1, <2>1
<1> QED BY <1>2, <1>3

\* A request at a step is no empty place.
LEMMA Stands ==
  ASSUME WindowsTypeOK, NEW a \in Askers
  PROVE  /\ \A step \in {"window", "client", "slot", "work"} :
              At(a, step) => asks[a] \in Asking /\ asks[a] # NoAsk
         /\ asks[a] = NoAsk => asks[a].step = "none"
BY DEF WindowsTypeOK, Asking, NoAsk, At

LEMMA TimePassesKeeps == WindowsInv /\ TimePasses => WindowsInv'
<1> SUFFICES ASSUME WindowsInv, TimePasses PROVE WindowsInv' OBVIOUS
<1> USE WindowsAssumption DEF WindowsInv
<1>1. WindowsTypeOK' BY DEF WindowsTypeOK, TimePasses
<1>2. LateByLess'
  <2>1. ASSUME NEW a \in Askers, At(a, "window")
        PROVE  asks[a].now <= time' /\ time' <= asks[a].now + MaxWait
    <3>1. asks[a].now \in Nat BY <2>1, Stands DEF Asking
    <3> QED BY <2>1, <3>1 DEF TimePasses, LateByLess, WindowsTypeOK
  <2> QED BY <2>1 DEF LateByLess, TimePasses, WindowsTypeOK, At
<1>3. TicketsAreOwn' BY DEF TicketsAreOwn, TimePasses
<1>4. MapIsBounded' /\ SlotsAreKept' BY DEF MapIsBounded, SlotsAreKept, AtWork, At, TimePasses
<1> QED BY <1>1, <1>2, <1>3, <1>4

LEMMA AskKeeps ==
  ASSUME NEW a \in Askers, NEW c \in Clients
  PROVE  WindowsInv /\ Ask(a, c) => WindowsInv'
<1> SUFFICES ASSUME WindowsInv, Ask(a, c) PROVE WindowsInv' OBVIOUS
<1> USE WindowsAssumption DEF WindowsInv
<1> DEFINE r == [step |-> "window", client |-> c, now |-> time]
<1>1. r \in Asking BY DEF Asking, WindowsTypeOK
<1>2. r.step = "window" /\ r.now = time OBVIOUS
<1>3. asks' = [asks EXCEPT ![a] = r] BY DEF Ask
<1> HIDE DEF r
<1>4. asks'[a] = r /\ \A b \in Askers \ {a} : asks'[b] = asks[b] BY <1>3 DEF WindowsTypeOK
<1>5. WindowsTypeOK' BY <1>1, <1>3 DEF WindowsTypeOK, Ask
<1>6. LateByLess' BY <1>2, <1>4 DEF LateByLess, At, Ask, WindowsTypeOK
<1>7. TicketsAreOwn' /\ MapIsBounded' BY DEF TicketsAreOwn, MapIsBounded, Ask
<1>8. AtWork' = AtWork BY <1>2, <1>4, Stands DEF AtWork, At, Ask
<1>9. SlotsAreKept' BY <1>8 DEF SlotsAreKept, Ask
<1> QED BY <1>5, <1>6, <1>7, <1>9

\* A new window begins a span after every other, and its tickets are numbered in turn.
LEMMA AllowKeeps ==
  ASSUME NEW a \in Askers
  PROVE  WindowsInv /\ Allow(a) => WindowsInv'
<1> SUFFICES ASSUME WindowsInv, Allow(a) PROVE WindowsInv' OBVIOUS
<1> USE WindowsAssumption DEF WindowsInv
<1> DEFINE now == asks[a].now
           w == Rolled(now)
           x == [win |-> w.start, nr |-> w.count + 1, at |-> now]
<1>1. asks[a] \in Asking /\ asks[a] # NoAsk /\ now \in Nat BY Stands DEF Allow, Asking
<1>2. time \in Nat /\ window.start \in Nat /\ window.count \in Nat /\ window.start <= time
  BY DEF WindowsTypeOK, LateByLess
<1>3. now <= time /\ time <= now + MaxWait BY DEF LateByLess, Allow
<1>4. \A y \in let : y \in Tickets /\ y.win \in Nat /\ y.nr \in Nat /\ y.at \in Nat
  BY DEF WindowsTypeOK, Tickets
<1>5. /\ w \in [start : Nat, count : Nat] /\ w.start \in Nat /\ w.count \in Nat
      /\ w.start <= time /\ now < w.start + WindowSpan /\ w.start <= now + MaxWait
      /\ \A y \in let : /\ y.win <= w.start
                        /\ y.win = w.start => y.nr <= w.count
                        /\ y.win < w.start => y.win + WindowSpan <= w.start
  <2>1. CASE Over(window.start, now)
    <3>1. w = [start |-> now, count |-> 0] BY <2>1 DEF Rolled
    <3>2. w \in [start : Nat, count : Nat] /\ w.start = now /\ w.count = 0 BY <1>1, <3>1
    <3>3. \A y \in let : y.win + WindowSpan <= now
      BY <1>1, <1>2, <1>4, <2>1 DEF Over, TicketsAreOwn
    <3> HIDE DEF w
    <3> QED BY <1>1, <1>2, <1>3, <1>4, <3>2, <3>3
  <2>2. CASE ~Over(window.start, now)
    <3>1. w = window BY <2>2 DEF Rolled
    <3>2. now < window.start + WindowSpan BY <1>1, <1>2, <2>2 DEF Over
    <3> HIDE DEF w
    <3> QED BY <1>1, <1>2, <1>3, <3>1, <3>2 DEF WindowsTypeOK, TicketsAreOwn
  <2> QED BY <2>1, <2>2
<1>6. x \in Tickets /\ x.win = w.start /\ x.nr = w.count + 1 /\ x.at = now BY <1>1, <1>5 DEF Tickets
<1>7. /\ UNCHANGED <<time, clients, free>>
      /\ \/ /\ w.count < WindowLimit
            /\ window' = [start |-> w.start, count |-> w.count + 1]
            /\ let' = let \cup {x} /\ Moves(a, "client")
         \/ window' = w /\ let' = let /\ Refused(a) BY DEF Allow
<1> HIDE DEF w, x
<1>8. /\ asks' \in [Askers -> {NoAsk} \cup Asking]
      /\ asks'[a].step \in {"client", "none"}
      /\ \A b \in Askers \ {a} : asks'[b] = asks[b]
  <2>1. CASE Moves(a, "client") BY <1>1, <2>1, Stepped
  <2>2. CASE Refused(a) BY <2>2, Stepped
  <2> QED BY <1>7, <2>1, <2>2
<1>9. window'.start = w.start /\ window'.count \in Nat /\ window' \in [start : Nat, count : Nat]
      /\ w.count <= window'.count BY <1>5, <1>7
<1>10. WindowsTypeOK' BY <1>6, <1>7, <1>8, <1>9 DEF WindowsTypeOK
<1>11. LateByLess' BY <1>5, <1>7, <1>8, <1>9 DEF LateByLess, At
<1>12. TicketsAreOwn'
  <2>1. CASE let' = let BY <1>4, <1>5, <1>9, <2>1 DEF TicketsAreOwn
  <2>2. CASE w.count < WindowLimit /\ window' = [start |-> w.start, count |-> w.count + 1]
             /\ let' = let \cup {x}
    <3>1. window'.count = w.count + 1 BY <2>2
    <3>2. ASSUME NEW y \in let'
          PROVE  /\ y.nr \in 1..WindowLimit
                 /\ y.win <= y.at + MaxWait /\ y.at < y.win + WindowSpan
                 /\ y.win <= window'.start
                 /\ y.win = window'.start => y.nr <= window'.count
                 /\ y.win < window'.start => y.win + WindowSpan <= window'.start
      <4>1. CASE y = x BY <1>5, <1>6, <1>9, <2>2, <3>1, <4>1
      <4>2. CASE y \in let BY <1>4, <1>5, <1>9, <3>1, <4>2 DEF TicketsAreOwn
      <4> QED BY <2>2, <4>1, <4>2
    <3>3. \A y \in let : ~(y.win = x.win /\ y.nr = x.nr) BY <1>4, <1>5, <1>6
    <3>4. \A y, z \in let' : y.win = z.win /\ y.nr = z.nr => y = z BY <2>2, <3>3 DEF TicketsAreOwn
    <3>5. \A y \in let : ~(x.win < y.win) /\ (y.win < x.win => y.win + WindowSpan <= x.win)
      BY <1>4, <1>5, <1>6
    <3>6. ~(x.win < x.win) BY <1>5, <1>6
    <3>7. \A y, z \in let' : y.win < z.win => y.win + WindowSpan <= z.win
      BY <2>2, <3>5, <3>6 DEF TicketsAreOwn
    <3> QED BY <3>2, <3>4, <3>7 DEF TicketsAreOwn
  <2> QED BY <1>7, <2>1, <2>2
<1>13. AtWork' = AtWork BY <1>8 DEF AtWork, At, Allow
<1>14. MapIsBounded' /\ SlotsAreKept' BY <1>7, <1>13 DEF MapIsBounded, SlotsAreKept
<1> QED BY <1>10, <1>11, <1>12, <1>14

\* The map grows by the newcomer it has room for, and sweeping never makes it larger.
LEMMA AllowClientKeeps ==
  ASSUME NEW a \in Askers
  PROVE  WindowsInv /\ AllowClient(a) => WindowsInv'
<1> SUFFICES ASSUME WindowsInv, AllowClient(a) PROVE WindowsInv' OBVIOUS
<1> USE WindowsAssumption DEF WindowsInv
<1> DEFINE c == asks[a].client
           now == asks[a].now
           full == c \notin DOMAIN clients /\ Cardinality(DOMAIN clients) >= perClientMapCap
           map == IF full THEN Kept(Swept(now)) ELSE clients
           turned == full /\ Cardinality(DOMAIN map) >= perClientMapCap
<1>1. asks[a] \in Asking /\ asks[a] # NoAsk /\ c \in Clients BY Stands DEF AllowClient, Asking
<1>2. DOMAIN map \subseteq DOMAIN clients BY DEF Kept, Swept
<1>3. \/ DOMAIN clients' = DOMAIN map /\ Refused(a)
      \/ ~turned /\ DOMAIN clients' = DOMAIN map \cup {c} /\ Moves(a, "slot")
  <2> HIDE DEF map
  <2> QED BY DEF AllowClient, map
<1>4. IsFiniteSet(DOMAIN clients) BY FS_Subset DEF MapIsBounded
<1>5. /\ IsFiniteSet(DOMAIN map) /\ Cardinality(DOMAIN map) <= Cardinality(DOMAIN clients)
      /\ Cardinality(DOMAIN clients) \in Nat /\ Cardinality(DOMAIN map) \in Nat
  <2> HIDE DEF map
  <2>1. /\ IsFiniteSet(DOMAIN map) /\ Cardinality(DOMAIN map) <= Cardinality(DOMAIN clients)
    BY <1>2, <1>4, FS_Subset
  <2> QED BY <1>4, <2>1, FS_CardinalityType
<1>6. c \in DOMAIN map \/ turned \/ Cardinality(DOMAIN map) < perClientMapCap
  <2>1. CASE full BY <1>5, <2>1
  <2>2. CASE ~full
    <3>1. map = clients BY <2>2
    <3> QED BY <1>5, <2>2, <3>1
  <2> QED BY <2>1, <2>2
<1> HIDE DEF map, turned
<1>7. Cardinality(DOMAIN map \cup {c}) =
        IF c \in DOMAIN map THEN Cardinality(DOMAIN map) ELSE Cardinality(DOMAIN map) + 1
  BY <1>5, FS_AddElement
<1>8. MapIsBounded' BY <1>1, <1>2, <1>3, <1>5, <1>6, <1>7 DEF MapIsBounded
<1>9. /\ asks' \in [Askers -> {NoAsk} \cup Asking]
      /\ asks'[a].step \in {"slot", "none"}
      /\ \A b \in Askers \ {a} : asks'[b] = asks[b]
  <2>1. CASE Moves(a, "slot") BY <1>1, <2>1, Stepped
  <2>2. CASE Refused(a) BY <2>2, Stepped
  <2> QED BY <1>3, <2>1, <2>2
<1>10. UNCHANGED <<time, window, free, let>> /\ At(a, "client") BY DEF AllowClient
<1>11. WindowsTypeOK' BY <1>9, <1>10 DEF WindowsTypeOK
<1>12. LateByLess' BY <1>9, <1>10 DEF LateByLess, At
<1>13. TicketsAreOwn' BY <1>10 DEF TicketsAreOwn
<1>14. AtWork' = AtWork BY <1>9, <1>10 DEF AtWork, At
<1>15. SlotsAreKept' BY <1>10, <1>14 DEF SlotsAreKept
<1> QED BY <1>8, <1>11, <1>12, <1>13, <1>15

LEMMA TryAcquireKeeps ==
  ASSUME NEW a \in Askers
  PROVE  WindowsInv /\ TryAcquire(a) => WindowsInv'
<1> SUFFICES ASSUME WindowsInv, TryAcquire(a) PROVE WindowsInv' OBVIOUS
<1> USE WindowsAssumption DEF WindowsInv
<1>1. asks[a] \in Asking /\ asks[a] # NoAsk BY Stands DEF TryAcquire
<1>2. UNCHANGED <<time, window, clients, let>> /\ At(a, "slot") BY DEF TryAcquire
<1>3. CASE free > 0 /\ free' = free - 1 /\ Moves(a, "work")
  <2>1. /\ asks' \in [Askers -> {NoAsk} \cup Asking]
        /\ asks'[a].step = "work"
        /\ \A b \in Askers \ {a} : asks'[b] = asks[b] BY <1>1, <1>3, Stepped
  <2>3. WindowsTypeOK' /\ LateByLess' /\ TicketsAreOwn' /\ MapIsBounded'
    BY <1>2, <1>3, <2>1 DEF WindowsTypeOK, LateByLess, At, TicketsAreOwn, MapIsBounded
  <2>4. AtWork' = AtWork \cup {a} BY <2>1 DEF AtWork, At
  <2>5. Cardinality(AtWork') = Cardinality(AtWork) + 1 /\ Cardinality(AtWork) \in Nat
    BY <1>2, <2>4, WorkCounted DEF At
  <2>6. SlotsAreKept' BY <1>3, <2>5 DEF SlotsAreKept, WindowsTypeOK
  <2> QED BY <2>3, <2>6
<1>4. CASE UNCHANGED free /\ Refused(a)
  <2>1. /\ asks' \in [Askers -> {NoAsk} \cup Asking]
        /\ asks'[a].step = "none"
        /\ \A b \in Askers \ {a} : asks'[b] = asks[b] BY <1>4, Stepped
  <2>2. WindowsTypeOK' /\ LateByLess' /\ TicketsAreOwn' /\ MapIsBounded'
    BY <1>2, <1>4, <2>1 DEF WindowsTypeOK, LateByLess, At, TicketsAreOwn, MapIsBounded
  <2>3. AtWork' = AtWork BY <1>2, <2>1 DEF AtWork, At
  <2> QED BY <1>4, <2>2, <2>3 DEF SlotsAreKept
<1> QED BY <1>3, <1>4 DEF TryAcquire

LEMMA ReleaseKeeps ==
  ASSUME NEW a \in Askers
  PROVE  WindowsInv /\ FreeSlot(a) => WindowsInv'
<1> SUFFICES ASSUME WindowsInv, FreeSlot(a) PROVE WindowsInv' OBVIOUS
<1> USE WindowsAssumption DEF WindowsInv
<1>1. UNCHANGED <<time, window, clients, let>> /\ At(a, "work") /\ free' = free + 1 /\ Refused(a)
  BY DEF FreeSlot
<1>2. /\ asks' \in [Askers -> {NoAsk} \cup Asking]
      /\ asks'[a].step = "none"
      /\ \A b \in Askers \ {a} : asks'[b] = asks[b] BY <1>1, Stepped
<1>3. WindowsTypeOK' /\ LateByLess' /\ TicketsAreOwn' /\ MapIsBounded'
  BY <1>1, <1>2 DEF WindowsTypeOK, LateByLess, At, TicketsAreOwn, MapIsBounded
<1>4. AtWork' = AtWork \ {a} BY <1>2 DEF AtWork, At
<1>5. Cardinality(AtWork') = Cardinality(AtWork) - 1 /\ Cardinality(AtWork) \in Nat
  BY <1>1, <1>4, WorkCounted
<1>6. SlotsAreKept' BY <1>1, <1>5 DEF SlotsAreKept, WindowsTypeOK
<1> QED BY <1>3, <1>6

LEMMA WindowsKeep == WindowsInv /\ [WindowsNext]_windows => WindowsInv'
<1> SUFFICES ASSUME WindowsInv, [WindowsNext]_windows PROVE WindowsInv' OBVIOUS
<1>1. CASE TimePasses BY <1>1, TimePassesKeeps
<1>2. ASSUME NEW a \in Askers, NEW c \in Clients, Ask(a, c) PROVE WindowsInv' BY <1>2, AskKeeps
<1>3. ASSUME NEW a \in Askers,
             Allow(a) \/ AllowClient(a) \/ TryAcquire(a) \/ FreeSlot(a)
      PROVE  WindowsInv' BY <1>3, AllowKeeps, AllowClientKeeps, TryAcquireKeeps, ReleaseKeeps
<1>4. CASE UNCHANGED windows
  BY <1>4 DEF windows, WindowsInv, WindowsTypeOK, LateByLess, TicketsAreOwn, MapIsBounded,
              SlotsAreKept, AtWork, At
<1> QED BY <1>1, <1>2, <1>3, <1>4 DEF WindowsNext

\* In every behaviour the windows are as their invariant says.
THEOREM WindowsInvariance == WindowsSpec => []WindowsInv
<1> QED BY WindowsStart, WindowsKeep, PTL DEF WindowsSpec

\* However late requests come to its lock (by less than a window), the common window
\* lets through at most twice its limit over a span shorter by that lateness, three
\* times over a window's length; the map of clients stays within its cap, and every
\* slot is free or at work (middleware/ratewindow.go, middleware/semaphore.go).
THEOREM BurstsBounded == WindowsSpec => []BurstsAreBounded
<1> QED BY WindowsInvariance, WindowsBound, PTL
----------------------------------------
(* Accounts. *)

UserRows == [exists : BOOLEAN, boot : BOOLEAN, role : {"admin", "member"}, enabled : BOOLEAN,
             failed : Nat, lock : {"none", "on", "ended"}]
Switches == {"enable", "disable", "promote", "demote"}
Administered == [op : {"create", "reset", "count", "write"} \cup Switches,
                 actor : Users, user : Users, to : {"create", "reset"} \cup Switches]
CallRecords ==
  {NoCall} \cup [op : {"setup", "change"}, user : Users]
           \cup [op : {"login"}, user : Users, right : BOOLEAN, enabled : BOOLEAN]
           \cup Administered

AccountsTypeOK ==
  /\ users \in [Users -> UserRows]
  /\ sessions \in SUBSET [user : Users, minted : Nat]
  /\ calls \in [Calls -> CallRecords]
  /\ edits \in [Users -> Nat]
  /\ wrong \in [Users -> Nat]

\* What is so of every row: the bootstrap account is an administrator who can sign in,
\* and failures counted are failures that happened.
RowIsSound(row, fails) ==
  /\ row.boot = TRUE => row.exists = TRUE /\ row.role = "admin" /\ row.enabled = TRUE
  /\ row.enabled = TRUE => row.exists = TRUE
  /\ row.lock = "none" => row.failed <= fails
  /\ row.lock = "on" => row.failed >= LoginLockThreshold

\* With any account there is the bootstrap account, and no second one.
OneBootstrap ==
  /\ \A u, v \in Users : users[u].boot = TRUE /\ users[v].boot = TRUE => u = v
  /\ (\E u \in Users : users[u].exists = TRUE) => \E u \in Users : users[u].boot = TRUE

\* An account is created once there is one, and nobody is about to disable or demote
\* the bootstrap account.
CallIsGrounded(call) ==
  /\ call.op = "create" => \E u \in Users : users[u].boot = TRUE
  /\ call.op \in Switches => call.to = call.op
  /\ call.op \in {"count", "write"} =>
      /\ call.to \in Switches
      /\ users[call.user].exists = TRUE
      /\ call.to \in {"disable", "demote"} => users[call.user].boot = FALSE

AccountsInv ==
  /\ AccountsTypeOK
  /\ \A u \in Users : RowIsSound(users[u], wrong[u])
  /\ OneBootstrap
  /\ \A c \in Calls : CallIsGrounded(calls[c])
  /\ SessionsAreOwed

LEMMA UserFields ==
  ASSUME NEW row \in UserRows
  PROVE  /\ row.exists \in BOOLEAN /\ row.boot \in BOOLEAN /\ row.enabled \in BOOLEAN
         /\ row.role \in {"admin", "member"} /\ row.failed \in Nat
         /\ row.lock \in {"none", "on", "ended"}
BY DEF UserRows

\* Counting a failure touches the counter and the lock, and a lock it begins was earned.
LEMMA FailureCounted ==
  ASSUME NEW row \in UserRows, NEW fails \in Nat, RowIsSound(row, fails)
  PROVE  LET f == Failed(row) IN
         /\ f \in UserRows /\ f.exists = row.exists /\ f.boot = row.boot
         /\ f.role = row.role /\ f.enabled = row.enabled
         /\ RowIsSound(f, IF f.lock = "on" THEN 0 ELSE fails + 1)
         /\ row.lock # "on" /\ f.lock = "on" => fails + 1 >= LoginLockThreshold
<1>1. /\ LoginLockThreshold \in Nat /\ LoginLockThreshold > 0 BY AccountsAssumption
<1>2. /\ row.failed \in Nat /\ row.lock \in {"none", "on", "ended"} BY UserFields
<1>3. CASE row.lock = "ended"
  <2> DEFINE f == [row EXCEPT !.failed = 1, !.lock = "none"]
  <2>1. /\ f \in UserRows /\ f.exists = row.exists /\ f.boot = row.boot
        /\ f.role = row.role /\ f.enabled = row.enabled /\ f.failed = 1 /\ f.lock = "none"
    BY DEF UserRows
  <2>2. Failed(row) = f BY <1>3 DEF Failed
  <2> HIDE DEF f
  <2> QED BY <1>1, <1>2, <2>1, <2>2 DEF RowIsSound
<1>4. CASE row.lock # "ended"
  <2> DEFINE lock == IF row.failed + 1 >= LoginLockThreshold THEN "on" ELSE "none"
             f == [row EXCEPT !.failed = row.failed + 1, !.lock = lock]
  <2>1. Failed(row) = f BY <1>4 DEF Failed
  <2>2. lock \in {"none", "on", "ended"} /\ row.failed + 1 \in Nat BY <1>2
  <2>3. /\ lock = "on" => row.failed + 1 >= LoginLockThreshold
        /\ lock = "none" => row.failed + 1 < LoginLockThreshold
        /\ lock # "ended" BY <1>1, <1>2
  <2> HIDE DEF lock
  <2>4. /\ f \in UserRows /\ f.exists = row.exists /\ f.boot = row.boot
        /\ f.role = row.role /\ f.enabled = row.enabled
        /\ f.failed = row.failed + 1 /\ f.lock = lock BY <2>2 DEF UserRows
  <2> HIDE DEF f
  <2> QED BY <1>1, <1>2, <1>4, <2>1, <2>3, <2>4 DEF RowIsSound
<1> QED BY <1>3, <1>4

\* A change of role or status touches nothing else.
LEMMA ChangeMade ==
  ASSUME NEW row \in UserRows, NEW to \in Switches
  PROVE  LET f == Changed(to, row) IN
         /\ f \in UserRows /\ f.exists = row.exists /\ f.boot = row.boot
         /\ f.failed = row.failed /\ f.lock = row.lock
         /\ to # "disable" => (f.enabled = row.enabled \/ f.enabled = TRUE)
         /\ to # "demote" => (f.role = row.role \/ f.role = "admin")
         /\ to \in {"promote", "demote"} => f.enabled = row.enabled
         /\ to \in {"enable", "disable"} => f.role = row.role
<1>1. CASE to = "enable" BY <1>1 DEF Changed, UserRows
<1>2. CASE to = "disable" BY <1>2 DEF Changed, UserRows
<1>3. CASE to = "promote" BY <1>3 DEF Changed, UserRows
<1>4. CASE to = "demote" BY <1>4 DEF Changed, UserRows
<1> QED BY <1>1, <1>2, <1>3, <1>4 DEF Switches

\* The fields of the calls.
LEMMA CallFields ==
  ASSUME NEW call \in CallRecords
  PROVE  /\ call.op \in {"idle", "setup", "change", "login", "create", "reset", "count",
                         "write", "enable", "disable", "promote", "demote"}
         /\ call.op # "idle" => call.user \in Users
         /\ call.op \in {"create", "reset", "count", "write"} \cup Switches
              => call \in Administered
BY DEF CallRecords, Administered, Switches, NoCall

\* The bootstrap accounts are counted right.
LEMMA BootstrapCounted ==
  ASSUME NEW boots, boots = {u \in Users : users[u].boot}
  PROVE  /\ CountBootstrapUsers = 0 <=> boots = {}
         /\ (\A u, v \in boots : u = v) => CountBootstrapUsers <= 1
<1>1. IsFiniteSet(boots) BY AccountsAssumption, FS_Subset
<1>2. CountBootstrapUsers = Cardinality(boots) BY DEF CountBootstrapUsers
<1>3. ASSUME \A u, v \in boots : u = v PROVE CountBootstrapUsers <= 1
  <2>1. CASE boots = {} BY <1>2, <2>1, FS_EmptySet
  <2>2. CASE boots # {}
    <3>1. PICK u \in boots : TRUE BY <2>2
    <3>2. boots = {u} BY <1>3, <3>1
    <3>3. Cardinality({u}) = 1 BY FS_Singleton
    <3> QED BY <1>2, <3>2, <3>3
  <2> QED BY <2>1, <2>2
<1> QED BY <1>1, <1>2, <1>3, FS_EmptySet

LEMMA AccountsStart == AccountsInit => AccountsInv
<1> SUFFICES ASSUME AccountsInit PROVE AccountsInv OBVIOUS
<1>1. /\ NoRow \in UserRows /\ NoRow.exists = FALSE /\ NoRow.boot = FALSE /\ NoRow.enabled = FALSE
      /\ NoRow.failed = 0 /\ NoRow.lock = "none" BY DEF NoRow, UserRows
<1>2. AccountsTypeOK
  <2>1. NoCall \in CallRecords BY DEF CallRecords
  <2>2. users \in [Users -> UserRows] BY <1>1 DEF AccountsInit
  <2>3. calls \in [Calls -> CallRecords] BY <2>1 DEF AccountsInit
  <2>4. edits \in [Users -> Nat] /\ wrong \in [Users -> Nat] BY DEF AccountsInit
  <2>5. sessions \in SUBSET [user : Users, minted : Nat] BY DEF AccountsInit
  <2> QED BY <2>2, <2>3, <2>4, <2>5 DEF AccountsTypeOK
<1>3. \A u \in Users : RowIsSound(users[u], wrong[u]) BY <1>1 DEF AccountsInit, RowIsSound
<1>4. OneBootstrap BY <1>1 DEF AccountsInit, OneBootstrap
<1>5. \A c \in Calls : CallIsGrounded(calls[c]) BY DEF AccountsInit, CallIsGrounded, NoCall, Switches
<1>6. SessionsAreOwed BY DEF AccountsInit, SessionsAreOwed
<1> QED BY <1>2, <1>3, <1>4, <1>5, <1>6 DEF AccountsInv

\* What a step may do to one row: it stays what it is to the others.
RowMoves(u, row, fails) ==
  /\ row \in UserRows /\ RowIsSound(row, fails)
  /\ row.exists = users[u].exists /\ row.boot = users[u].boot

\* Calls stay grounded while rows keep their existence and their bootstrap flag.
LEMMA CallsStayGrounded ==
  ASSUME AccountsInv,
         \A u \in Users : users'[u].exists = users[u].exists /\ users'[u].boot = users[u].boot
  PROVE  /\ OneBootstrap'
         /\ \A call \in CallRecords : CallIsGrounded(call) => CallIsGrounded(call)'
<1>1. OneBootstrap' BY DEF AccountsInv, OneBootstrap
<1>2. ASSUME NEW call \in CallRecords, CallIsGrounded(call) PROVE CallIsGrounded(call)'
  <2>1. call.op \in {"count", "write"} => call.user \in Users BY CallFields
  <2> QED BY <1>2, <2>1 DEF CallIsGrounded
<1> QED BY <1>1, <1>2

\* What a step does to the call that takes it.
LEMMA CallMoves ==
  ASSUME AccountsTypeOK, NEW c \in Calls, NEW call \in CallRecords,
         calls' = [calls EXCEPT ![c] = call]
  PROVE  /\ calls' \in [Calls -> CallRecords] /\ calls'[c] = call
         /\ \A d \in Calls \ {c} : calls'[d] = calls[d]
BY DEF AccountsTypeOK

LEMMA NoCallIsCall == NoCall \in CallRecords /\ CallIsGrounded(NoCall) /\ CallIsGrounded(NoCall)'
BY DEF CallRecords, CallIsGrounded, NoCall, Switches

\* A step of a call that leaves the rows alone.
LEMMA OnlyCallKeeps ==
  ASSUME AccountsInv, NEW c \in Calls, NEW call \in CallRecords, CallIsGrounded(call),
         calls' = [calls EXCEPT ![c] = call], UNCHANGED <<users, sessions, edits, wrong>>
  PROVE  AccountsInv'
<1>1. AccountsTypeOK BY DEF AccountsInv
<1>2. /\ calls' \in [Calls -> CallRecords] /\ calls'[c] = call
      /\ \A d \in Calls \ {c} : calls'[d] = calls[d] BY <1>1, CallMoves
<1>3. AccountsTypeOK' BY <1>1, <1>2 DEF AccountsTypeOK
<1>4. OneBootstrap' /\ SessionsAreOwed' /\ \A u \in Users : RowIsSound(users[u], wrong[u])'
  BY DEF AccountsInv, OneBootstrap, SessionsAreOwed, RowIsSound
<1>5. \A d \in Calls : CallIsGrounded(calls'[d]) BY <1>2 DEF AccountsInv
<1>6. \A d \in Calls : CallIsGrounded(calls[d])' BY <1>5 DEF CallIsGrounded
<1> QED BY <1>3, <1>4, <1>6 DEF AccountsInv

LEMMA GiveUpKeeps ==
  ASSUME NEW c \in Calls
  PROVE  AccountsInv /\ GiveUp(c) => AccountsInv'
BY NoCallIsCall, OnlyCallKeeps DEF GiveUp, End

\* A step that writes one row and ends its call.
LEMMA OneRowKeeps ==
  ASSUME AccountsInv, NEW c \in Calls, NEW u \in Users, NEW row,
         RowMoves(u, row, wrong'[u]), users' = [users EXCEPT ![u] = row], End(c),
         wrong' \in [Users -> Nat], \A v \in Users \ {u} : wrong'[v] = wrong[v],
         sessions' \in SUBSET [user : Users, minted : Nat], edits' \in [Users -> Nat],
         SessionsAreOwed'
  PROVE  AccountsInv'
<1>1. AccountsTypeOK BY DEF AccountsInv
<1>2. users'[u] = row /\ \A v \in Users \ {u} : users'[v] = users[v] BY <1>1 DEF AccountsTypeOK
<1>3. row \in UserRows /\ RowIsSound(row, wrong'[u]) BY DEF RowMoves
<1>4. users' \in [Users -> UserRows] BY <1>1, <1>3 DEF AccountsTypeOK
<1>5. NoCall \in CallRecords BY NoCallIsCall
<1>6. /\ calls' \in [Calls -> CallRecords] /\ calls'[c] = NoCall
      /\ \A d \in Calls \ {c} : calls'[d] = calls[d] BY <1>1, <1>5, CallMoves DEF End
<1>7. AccountsTypeOK' BY <1>4, <1>6 DEF AccountsTypeOK
<1>8. \A v \in Users : users'[v].exists = users[v].exists /\ users'[v].boot = users[v].boot
  BY <1>2 DEF RowMoves
<1>9. OneBootstrap' /\ \A call \in CallRecords : CallIsGrounded(call) => CallIsGrounded(call)'
  BY <1>8, CallsStayGrounded
<1>10. \A d \in Calls : CallIsGrounded(calls[d])'
  <2> SUFFICES ASSUME NEW d \in Calls PROVE CallIsGrounded(calls[d])' OBVIOUS
  <2>1. CASE d = c
    <3>1. calls'[d] = NoCall BY <1>6, <2>1
    <3> QED BY <3>1 DEF CallIsGrounded, NoCall, Switches
  <2>2. CASE d # c
    <3>1. calls'[d] = calls[d] /\ calls[d] \in CallRecords BY <1>1, <1>6, <2>2 DEF AccountsTypeOK
    <3>2. CallIsGrounded(calls[d]) BY DEF AccountsInv
    <3> QED BY <1>8, <3>1, <3>2, CallFields DEF CallIsGrounded
  <2> QED BY <2>1, <2>2
<1>11. \A v \in Users : RowIsSound(users[v], wrong[v])'
  <2> SUFFICES ASSUME NEW v \in Users PROVE RowIsSound(users'[v], wrong'[v]) BY DEF RowIsSound
  <2>1. v # u => users'[v] = users[v] /\ wrong'[v] = wrong[v] BY <1>2
  <2>2. RowIsSound(users[v], wrong[v]) BY DEF AccountsInv
  <2> QED BY <1>2, <1>3, <2>1, <2>2
<1> QED BY <1>7, <1>9, <1>10, <1>11 DEF AccountsInv

\* An edit ends the sessions of its account.
LEMMA EditKeeps ==
  ASSUME AccountsInv, NEW c \in Calls, NEW u \in Users, NEW row,
         RowMoves(u, row, wrong[u]), Edit(c, u, row)
  PROVE  AccountsInv'
<1>1. AccountsTypeOK BY DEF AccountsInv
<1>2. /\ users' = [users EXCEPT ![u] = row] /\ End(c) /\ wrong' = wrong
      /\ sessions' = {s \in sessions : s.user # u} /\ edits' = [edits EXCEPT ![u] = edits[u] + 1]
  BY DEF Edit, DeleteAllSessionsForUser
<1>3. /\ wrong' \in [Users -> Nat] /\ edits' \in [Users -> Nat]
      /\ sessions' \in SUBSET [user : Users, minted : Nat]
      /\ \A v \in Users \ {u} : users'[v] = users[v] /\ edits'[v] = edits[v]
  BY <1>1, <1>2 DEF AccountsTypeOK
<1>4. SessionsAreOwed'
  <2> SUFFICES ASSUME NEW s \in sessions'
               PROVE  users'[s.user].enabled /\ s.minted = edits'[s.user] BY DEF SessionsAreOwed
  <2>1. s \in sessions /\ s.user # u /\ s.user \in Users BY <1>1, <1>2 DEF AccountsTypeOK
  <2> QED BY <1>3, <2>1 DEF AccountsInv, SessionsAreOwed
<1> QED BY <1>2, <1>3, <1>4, OneRowKeeps

\* A row written back as it is.
LEMMA SameRow ==
  ASSUME AccountsInv, NEW u \in Users
  PROVE  RowMoves(u, users[u], wrong[u])
BY DEF AccountsInv, AccountsTypeOK, RowMoves

\* A new session of an enabled account is owed.
LEMMA SessionOpened ==
  ASSUME AccountsInv, NEW u \in Users, sessions' = sessions \cup {NewSession(u)},
         edits' = edits, users'[u].enabled, \A v \in Users \ {u} : users'[v] = users[v]
  PROVE  SessionsAreOwed' /\ sessions' \in SUBSET [user : Users, minted : Nat]
<1>1. /\ sessions \in SUBSET [user : Users, minted : Nat] /\ edits \in [Users -> Nat]
  BY DEF AccountsInv, AccountsTypeOK
<1>2. NewSession(u) \in [user : Users, minted : Nat] /\ NewSession(u).user = u
      /\ NewSession(u).minted = edits[u] BY <1>1 DEF NewSession
<1>3. ASSUME NEW s \in sessions' PROVE users'[s.user].enabled /\ s.minted = edits'[s.user]
  <2>1. CASE s = NewSession(u) BY <1>2, <2>1
  <2>2. CASE s \in sessions
    <3>1. s.user \in Users BY <1>1, <2>2
    <3>2. users[s.user].enabled /\ s.minted = edits[s.user] BY <2>2 DEF AccountsInv, SessionsAreOwed
    <3> QED BY <3>1, <3>2
  <2> QED BY <2>1, <2>2
<1> QED BY <1>1, <1>2, <1>3 DEF SessionsAreOwed

\* A row nobody has is made one: sessions and calls are of other rows, except that a
\* call may create or set up the same.
LEMMA NewRowKeeps ==
  ASSUME AccountsInv, NEW c \in Calls, NEW u \in Users, NEW row \in UserRows,
         users[u].exists = FALSE, row.exists = TRUE, row.enabled = TRUE, row.failed = 0,
         row.lock = "none",
         row.boot = TRUE => row.role = "admin" /\ \A v \in Users : users[v].boot = FALSE,
         row.boot = FALSE => \E v \in Users : users[v].boot = TRUE,
         users' = [users EXCEPT ![u] = row], End(c), UNCHANGED <<edits, wrong>>,
         sessions' = sessions \/ sessions' = sessions \cup {NewSession(u)}
  PROVE  AccountsInv'
<1>1. AccountsTypeOK BY DEF AccountsInv
<1>2. users'[u] = row /\ \A v \in Users \ {u} : users'[v] = users[v] BY <1>1 DEF AccountsTypeOK
<1>3. users' \in [Users -> UserRows] BY <1>1 DEF AccountsTypeOK
<1>4. /\ calls' \in [Calls -> CallRecords] /\ calls'[c] = NoCall
      /\ \A d \in Calls \ {c} : calls'[d] = calls[d] BY <1>1, NoCallIsCall, CallMoves DEF End
<1>5. \A v \in Users : users[v] \in UserRows /\ wrong[v] \in Nat
                            /\ users[v].boot \in BOOLEAN /\ users[v].enabled \in BOOLEAN
  BY <1>1, UserFields DEF AccountsTypeOK
<1>6. users[u].boot = FALSE /\ users[u].enabled = FALSE BY <1>5 DEF AccountsInv, RowIsSound
<1>7. OneBootstrap'
  <2>1. CASE row.boot = TRUE
    <3>1. \A v \in Users : users'[v].boot = TRUE => v = u BY <1>2, <2>1
    <3> QED BY <1>2, <2>1, <3>1 DEF OneBootstrap
  <2>2. CASE row.boot = FALSE
    <3>1. PICK v \in Users : users[v].boot = TRUE BY <2>2
    <3>2. \A x \in Users : users'[x].boot = TRUE => users[x].boot = TRUE BY <1>2, <2>2
    <3>3. users'[v].boot = TRUE BY <1>2, <1>6, <3>1
    <3> QED BY <3>2, <3>3 DEF AccountsInv, OneBootstrap
  <2>3. row.boot \in BOOLEAN BY UserFields
  <2> QED BY <2>1, <2>2, <2>3
<1>8. \A d \in Calls : CallIsGrounded(calls[d])'
  <2> SUFFICES ASSUME NEW d \in Calls PROVE CallIsGrounded(calls[d])' OBVIOUS
  <2>1. CASE d = c
    <3>1. calls'[d] = NoCall BY <1>4, <2>1
    <3> QED BY <3>1 DEF CallIsGrounded, NoCall, Switches
  <2>2. CASE d # c
    <3>1. calls'[d] = calls[d] /\ calls[d] \in CallRecords BY <1>1, <1>4, <2>2 DEF AccountsTypeOK
    <3>2. CallIsGrounded(calls[d]) BY DEF AccountsInv
    <3>3. calls[d].op \in {"count", "write"} => calls[d].user \in Users BY <3>1, CallFields
    <3>4. calls[d].op \in {"count", "write"} => users'[calls[d].user] = users[calls[d].user]
      BY <1>2, <3>2, <3>3 DEF CallIsGrounded
    <3>5. (\E v \in Users : users[v].boot = TRUE) => \E v \in Users : users'[v].boot = TRUE
      BY <1>2, <1>6
    <3> QED BY <3>1, <3>2, <3>4, <3>5 DEF CallIsGrounded
  <2> QED BY <2>1, <2>2
<1>9. \A v \in Users : RowIsSound(users[v], wrong[v])'
  <2> SUFFICES ASSUME NEW v \in Users PROVE RowIsSound(users'[v], wrong[v]) BY DEF RowIsSound
  <2>1. v # u => users'[v] = users[v] BY <1>2
  <2>2. RowIsSound(users[v], wrong[v]) BY DEF AccountsInv
  <2>3. RowIsSound(row, wrong[u]) BY <1>5 DEF RowIsSound
  <2> QED BY <1>2, <2>1, <2>2, <2>3
<1>10. SessionsAreOwed' /\ sessions' \in SUBSET [user : Users, minted : Nat]
  <2>1. users'[u].enabled BY <1>2
  <2>2. CASE sessions' = sessions \cup {NewSession(u)} BY <1>2, <2>1, <2>2, SessionOpened
  <2>3. CASE sessions' = sessions
    <3> SUFFICES ASSUME NEW s \in sessions
                 PROVE  users'[s.user].enabled /\ s.minted = edits'[s.user]
      BY <1>1, <2>3 DEF SessionsAreOwed, AccountsTypeOK
    <3>1. s.user \in Users BY <1>1 DEF AccountsTypeOK
    <3>2. users[s.user].enabled /\ s.minted = edits[s.user] BY DEF AccountsInv, SessionsAreOwed
    <3> QED BY <1>2, <2>1, <3>1, <3>2
  <2> QED BY <2>2, <2>3
<1>11. AccountsTypeOK' BY <1>1, <1>3, <1>4, <1>10 DEF AccountsTypeOK
<1> QED BY <1>7, <1>8, <1>9, <1>10, <1>11 DEF AccountsInv

(* The steps. *)

LEMMA ArrivalKeeps ==
  ASSUME NEW c \in Calls
  PROVE  AccountsInv /\ Arrives(c) => AccountsInv'
<1> SUFFICES ASSUME AccountsInv, Arrives(c) PROVE AccountsInv' OBVIOUS
<1>1. AccountsTypeOK BY DEF AccountsInv
<1>2. ASSUME NEW call \in CallRecords, CallIsGrounded(call), Begin(c, call),
             UNCHANGED <<users, sessions, edits, wrong>>
      PROVE  AccountsInv' BY <1>2, OnlyCallKeeps DEF Begin
<1>3. ASSUME NEW u \in Users, PostSetup(c, u) PROVE AccountsInv'
  <2> DEFINE call == [op |-> "setup", user |-> u]
  <2>1. call \in CallRecords /\ call.op = "setup" BY DEF CallRecords
  <2>2. Begin(c, call) /\ UNCHANGED <<users, sessions, edits, wrong>> BY <1>3 DEF PostSetup
  <2> HIDE DEF call
  <2>3. CallIsGrounded(call) BY <2>1 DEF CallIsGrounded, Switches
  <2> QED BY <1>2, <2>1, <2>2, <2>3
<1>4. ASSUME NEW u \in Users, PutPassword(c, u) PROVE AccountsInv'
  <2> DEFINE call == [op |-> "change", user |-> u]
  <2>1. call \in CallRecords /\ call.op = "change" BY DEF CallRecords
  <2>2. Begin(c, call) /\ UNCHANGED <<users, sessions, edits, wrong>> BY <1>4 DEF PutPassword
  <2> HIDE DEF call
  <2>3. CallIsGrounded(call) BY <2>1 DEF CallIsGrounded, Switches
  <2> QED BY <1>2, <2>1, <2>2, <2>3
<1>5. ASSUME NEW u \in Users, NEW right \in BOOLEAN, PostLogin(c, u, right) PROVE AccountsInv'
  <2> DEFINE call == [op |-> "login", user |-> u, right |-> right, enabled |-> users[u].enabled]
  <2>1. users[u].enabled \in BOOLEAN BY <1>1, UserFields DEF AccountsTypeOK
  <2>2. call \in CallRecords /\ call.op = "login" BY <2>1 DEF CallRecords
  <2>3. Begin(c, call) /\ UNCHANGED <<users, sessions, edits, wrong>> BY <1>5 DEF PostLogin
  <2> HIDE DEF call
  <2>4. CallIsGrounded(call) BY <2>2 DEF CallIsGrounded, Switches
  <2> QED BY <1>2, <2>2, <2>3, <2>4
<1>6. ASSUME NEW u \in Users, NEW actor \in Users, NEW op \in {"create", "reset"} \cup Switches,
             Administer(c, actor, op, u)
      PROVE  AccountsInv'
  <2> DEFINE call == [op |-> op, actor |-> actor, user |-> u, to |-> op]
  <2>1. call \in Administered /\ call.op = op /\ call.to = op BY DEF Administered
  <2>2. call \in CallRecords BY <2>1 DEF CallRecords
  <2>3. Begin(c, call) /\ UNCHANGED <<users, sessions, edits, wrong>> BY <1>6 DEF Administer
  <2>4. users[actor].enabled = TRUE
    BY <1>1, <1>6, UserFields DEF Administer, RequireSession, AccountsTypeOK
  <2>5. \E v \in Users : users[v].boot = TRUE BY <2>4 DEF AccountsInv, RowIsSound, OneBootstrap
  <2> HIDE DEF call
  <2>6. CallIsGrounded(call) BY <2>1, <2>5 DEF CallIsGrounded, Switches
  <2> QED BY <1>2, <2>2, <2>3, <2>6
<1>7. ASSUME NEW u \in Users, NEW actor \in Users,
             PostUser(c, actor, u) \/ PostUserPasswordReset(c, actor, u)
                \/ PatchUserStatus(c, actor, u) \/ PatchUserRole(c, actor, u)
      PROVE  AccountsInv'
  BY <1>6, <1>7 DEF PostUser, PostUserPasswordReset, PatchUserStatus, PatchUserRole, Switches
<1> QED BY <1>3, <1>4, <1>5, <1>7 DEF Arrives

LEMMA SetupKeeps ==
  ASSUME NEW c \in Calls
  PROVE  AccountsInv /\ Setup(c) => AccountsInv'
<1> SUFFICES ASSUME AccountsInv, Setup(c) PROVE AccountsInv' OBVIOUS
<1> DEFINE u == calls[c].user
           row == NewRow(TRUE, "admin")
           boots == {v \in Users : users[v].boot}
<1>1. AccountsTypeOK BY DEF AccountsInv
<1>2. u \in Users BY <1>1, CallFields DEF Setup, On, AccountsTypeOK
<1>4. /\ row \in UserRows /\ row.exists = TRUE /\ row.boot = TRUE /\ row.role = "admin"
      /\ row.enabled = TRUE /\ row.failed = 0 /\ row.lock = "none" BY DEF UserRows, NewRow
<1>5. /\ users' = [users EXCEPT ![u] = row] /\ sessions' = sessions \cup {NewSession(u)}
      /\ End(c) /\ UNCHANGED <<edits, wrong>> /\ Unique(u, TRUE) BY DEF Setup
<1> HIDE DEF row
<1>6. users[u].exists = FALSE BY <1>1, <1>2, <1>5, UserFields DEF Unique, AccountsTypeOK
<1>7. CountBootstrapUsers = 0 BY <1>5 DEF Unique
<1>8. boots = {} BY <1>7, BootstrapCounted
<1>9. \A v \in Users : users[v].boot = FALSE BY <1>1, <1>8, UserFields DEF AccountsTypeOK
<1> QED BY <1>2, <1>4, <1>5, <1>6, <1>9, NewRowKeeps

LEMMA CreateUserKeeps ==
  ASSUME NEW c \in Calls
  PROVE  AccountsInv /\ CreateUser(c) => AccountsInv'
<1> SUFFICES ASSUME AccountsInv, CreateUser(c) PROVE AccountsInv' OBVIOUS
<1> DEFINE u == calls[c].user
           row == NewRow(FALSE, "member")
<1>1. AccountsTypeOK BY DEF AccountsInv
<1>2. u \in Users BY <1>1, CallFields DEF CreateUser, On, AccountsTypeOK
<1>3. CASE Unique(u, FALSE)
  <2>2. /\ row \in UserRows /\ row.exists = TRUE /\ row.boot = FALSE
        /\ row.enabled = TRUE /\ row.failed = 0 /\ row.lock = "none" BY DEF UserRows, NewRow
  <2>3. /\ users' = [users EXCEPT ![u] = row] /\ sessions' = sessions
        /\ End(c) /\ UNCHANGED <<edits, wrong>> BY <1>3 DEF CreateUser
  <2> HIDE DEF row
  <2>4. users[u].exists = FALSE BY <1>1, <1>2, <1>3, UserFields DEF Unique, AccountsTypeOK
  <2>5. \E v \in Users : users[v].boot = TRUE BY DEF AccountsInv, CallIsGrounded, CreateUser, On
  <2> QED BY <1>2, <2>2, <2>3, <2>4, <2>5, NewRowKeeps
<1>4. CASE ~Unique(u, FALSE) BY <1>4, GiveUpKeeps DEF CreateUser
<1> QED BY <1>3, <1>4

LEMMA LoginFailureKeeps ==
  ASSUME NEW c \in Calls
  PROVE  AccountsInv /\ LoginFails(c) => AccountsInv'
<1> SUFFICES ASSUME AccountsInv, LoginFails(c) PROVE AccountsInv' OBVIOUS
<1> DEFINE u == calls[c].user
           f == Failed(users[u])
<1>1. AccountsTypeOK BY DEF AccountsInv
<1>2. u \in Users BY <1>1, CallFields DEF LoginFails, On, AccountsTypeOK
<1>3. users[u] \in UserRows /\ wrong[u] \in Nat /\ RowIsSound(users[u], wrong[u])
  BY <1>1, <1>2 DEF AccountsInv, AccountsTypeOK
<1>4. /\ f \in UserRows /\ f.exists = users[u].exists /\ f.boot = users[u].boot
      /\ f.enabled = users[u].enabled
      /\ RowIsSound(f, IF f.lock = "on" THEN 0 ELSE wrong[u] + 1) BY <1>3, FailureCounted
<1>5. /\ users' = [users EXCEPT ![u] = f] /\ End(c) /\ UNCHANGED <<sessions, edits>>
      /\ wrong' = [wrong EXCEPT ![u] = IF users'[u].lock = "on" THEN 0 ELSE wrong[u] + 1]
  BY DEF LoginFails
<1> HIDE DEF f
<1>6. users'[u] = f /\ \A v \in Users \ {u} : users'[v] = users[v]
  BY <1>1, <1>2, <1>5 DEF AccountsTypeOK
<1>7. /\ wrong' \in [Users -> Nat] /\ \A v \in Users \ {u} : wrong'[v] = wrong[v]
      /\ wrong'[u] = IF f.lock = "on" THEN 0 ELSE wrong[u] + 1
  BY <1>1, <1>2, <1>3, <1>5, <1>6 DEF AccountsTypeOK
<1>8. RowMoves(u, f, wrong'[u]) BY <1>4, <1>7 DEF RowMoves
<1>9. SessionsAreOwed'
  <2> SUFFICES ASSUME NEW s \in sessions
               PROVE  users'[s.user].enabled /\ s.minted = edits[s.user]
    BY <1>5 DEF SessionsAreOwed
  <2>1. s.user \in Users BY <1>1 DEF AccountsTypeOK
  <2>2. users[s.user].enabled /\ s.minted = edits[s.user] BY DEF AccountsInv, SessionsAreOwed
  <2> QED BY <1>4, <1>6, <2>1, <2>2
<1> QED BY <1>1, <1>2, <1>5, <1>7, <1>8, <1>9, OneRowKeeps DEF AccountsTypeOK

LEMMA LoginKeeps ==
  ASSUME NEW c \in Calls
  PROVE  AccountsInv /\ LoginSucceeds(c) => AccountsInv'
<1> SUFFICES ASSUME AccountsInv, LoginSucceeds(c) PROVE AccountsInv' OBVIOUS
<1> DEFINE u == calls[c].user
           f == [users[u] EXCEPT !.failed = 0, !.lock = "none"]
<1>1. AccountsTypeOK BY DEF AccountsInv
<1>2. u \in Users BY <1>1, CallFields DEF LoginSucceeds, On, AccountsTypeOK
<1>3. users[u] \in UserRows /\ wrong[u] \in Nat /\ RowIsSound(users[u], wrong[u])
  BY <1>1, <1>2 DEF AccountsInv, AccountsTypeOK
<1>4. /\ f \in UserRows /\ f.exists = users[u].exists /\ f.boot = users[u].boot
      /\ f.enabled = users[u].enabled /\ f.role = users[u].role /\ f.failed = 0 /\ f.lock = "none"
  BY <1>3 DEF UserRows
<1>5. /\ users' = [users EXCEPT ![u] = f] /\ End(c) /\ sessions' = sessions \cup {NewSession(u)}
      /\ wrong' = [wrong EXCEPT ![u] = 0] /\ edits' = edits /\ users[u].enabled
  BY DEF LoginSucceeds, MayCreateSession
<1> HIDE DEF f
<1>6. users'[u] = f /\ \A v \in Users \ {u} : users'[v] = users[v]
  BY <1>1, <1>2, <1>5 DEF AccountsTypeOK
<1>7. /\ wrong' \in [Users -> Nat] /\ \A v \in Users \ {u} : wrong'[v] = wrong[v]
      /\ wrong'[u] = 0 BY <1>1, <1>2, <1>5 DEF AccountsTypeOK
<1>8. RowMoves(u, f, wrong'[u]) BY <1>3, <1>4, <1>7 DEF RowMoves, RowIsSound
<1>9. SessionsAreOwed' /\ sessions' \in SUBSET [user : Users, minted : Nat]
  BY <1>2, <1>4, <1>5, <1>6, SessionOpened
<1> QED BY <1>1, <1>2, <1>5, <1>7, <1>8, <1>9, OneRowKeeps DEF AccountsTypeOK

LEMMA LockEndKeeps ==
  ASSUME NEW u \in Users
  PROVE  AccountsInv /\ LockEnds(u) => AccountsInv'
<1> SUFFICES ASSUME AccountsInv, LockEnds(u) PROVE AccountsInv' OBVIOUS
<1> DEFINE f == [users[u] EXCEPT !.lock = "ended"]
<1>1. AccountsTypeOK BY DEF AccountsInv
<1>2. users[u] \in UserRows /\ RowIsSound(users[u], wrong[u]) BY <1>1 DEF AccountsInv, AccountsTypeOK
<1>3. /\ f \in UserRows /\ f.exists = users[u].exists /\ f.boot = users[u].boot
      /\ f.enabled = users[u].enabled /\ f.role = users[u].role /\ f.lock = "ended"
  BY <1>2 DEF UserRows
<1>4. users' = [users EXCEPT ![u] = f] /\ UNCHANGED <<sessions, calls, edits, wrong>>
  BY DEF LockEnds
<1> HIDE DEF f
<1>5. users'[u] = f /\ \A v \in Users \ {u} : users'[v] = users[v] BY <1>1, <1>4 DEF AccountsTypeOK
<1>6. AccountsTypeOK' BY <1>1, <1>3, <1>4 DEF AccountsTypeOK
<1>7. \A v \in Users : /\ users'[v].exists = users[v].exists /\ users'[v].boot = users[v].boot
                       /\ users'[v].enabled = users[v].enabled BY <1>3, <1>5
<1>8. OneBootstrap' /\ \A call \in CallRecords : CallIsGrounded(call) => CallIsGrounded(call)'
  BY <1>7, CallsStayGrounded
<1>9. \A d \in Calls : CallIsGrounded(calls[d])'
  <2> SUFFICES ASSUME NEW d \in Calls PROVE CallIsGrounded(calls[d])' OBVIOUS
  <2>1. calls'[d] = calls[d] /\ calls[d] \in CallRecords BY <1>1, <1>4 DEF AccountsTypeOK
  <2>2. CallIsGrounded(calls[d]) BY DEF AccountsInv
  <2> QED BY <1>7, <2>1, <2>2, CallFields DEF CallIsGrounded
<1>10. \A v \in Users : RowIsSound(users[v], wrong[v])'
  <2> SUFFICES ASSUME NEW v \in Users PROVE RowIsSound(users'[v], wrong[v]) BY <1>4 DEF RowIsSound
  <2>1. RowIsSound(users[v], wrong[v]) BY DEF AccountsInv
  <2>2. RowIsSound(f, wrong[u]) BY <1>2, <1>3 DEF RowIsSound
  <2> QED BY <1>5, <2>1, <2>2
<1>11. SessionsAreOwed'
  <2> SUFFICES ASSUME NEW s \in sessions
               PROVE  users'[s.user].enabled /\ s.minted = edits[s.user]
    BY <1>4 DEF SessionsAreOwed
  <2>1. s.user \in Users BY <1>1 DEF AccountsTypeOK
  <2>2. users[s.user].enabled /\ s.minted = edits[s.user] BY DEF AccountsInv, SessionsAreOwed
  <2> QED BY <1>7, <2>1, <2>2
<1> QED BY <1>6, <1>8, <1>9, <1>10, <1>11 DEF AccountsInv

\* A change of password and a reset write the row as it is.
LEMMA PasswordKeeps ==
  ASSUME NEW c \in Calls
  PROVE  AccountsInv /\ (ChangePassword(c) \/ ResetUserPassword(c)) => AccountsInv'
<1> SUFFICES ASSUME AccountsInv, ChangePassword(c) \/ ResetUserPassword(c) PROVE AccountsInv'
  OBVIOUS
<1>1. calls[c].user \in Users
  BY CallFields DEF AccountsInv, AccountsTypeOK, ChangePassword, ResetUserPassword, On
<1>2. RowMoves(calls[c].user, users[calls[c].user], wrong[calls[c].user]) BY <1>1, SameRow
<1>3. CASE Edit(c, calls[c].user, users[calls[c].user]) BY <1>1, <1>2, <1>3, EditKeeps
<1>4. CASE GiveUp(c) BY <1>4, GiveUpKeeps
<1> QED BY <1>3, <1>4 DEF ChangePassword, ResetUserPassword

LEMMA ReadTargetKeeps ==
  ASSUME NEW c \in Calls
  PROVE  AccountsInv /\ ReadTarget(c) => AccountsInv'
<1> SUFFICES ASSUME AccountsInv, ReadTarget(c) PROVE AccountsInv' OBVIOUS
<1> DEFINE row == users[calls[c].user]
           to == calls[c].to
           op == IF Endangers(to, row) THEN "count" ELSE "write"
           call == [calls[c] EXCEPT !.op = op]
<1>1. AccountsTypeOK BY DEF AccountsInv
<1>2. calls[c] \in CallRecords /\ calls[c].op \in Switches
  BY <1>1 DEF AccountsTypeOK, ReadTarget, Switches
<1>3. calls[c] \in Administered /\ calls[c].user \in Users BY <1>2, CallFields DEF Switches
<1>4. CASE GiveUp(c) BY <1>4, GiveUpKeeps
<1>5. CASE ~GiveUp(c)
  <2>1. /\ row.exists /\ Changed(to, row) # row /\ ~Protected(to, row)
        /\ Becomes(c, op) /\ UNCHANGED <<users, sessions, edits, wrong>> BY <1>5 DEF ReadTarget
  <2>2. op \in {"count", "write"} OBVIOUS
  <2>3. row.exists = TRUE /\ row.boot \in BOOLEAN
    BY <1>1, <1>3, <2>1, UserFields DEF AccountsTypeOK
  <2>4. calls' = [calls EXCEPT ![c] = call] BY <2>1 DEF Becomes
  <2>5. to \in {"disable", "demote"} => row.boot = FALSE BY <2>1, <2>3 DEF Protected
  <2> HIDE DEF op
  <2>6. call \in Administered /\ call.op = op /\ call.user = calls[c].user /\ call.to = to
    BY <1>3, <2>2 DEF Administered
  <2>7. to \in Switches BY <1>2 DEF AccountsInv, CallIsGrounded
  <2> HIDE DEF call
  <2>8. CallIsGrounded(call) BY <2>2, <2>3, <2>5, <2>6, <2>7 DEF CallIsGrounded, Switches
  <2> QED BY <2>1, <2>4, <2>6, <2>8, OnlyCallKeeps DEF CallRecords
<1> QED BY <1>4, <1>5

LEMMA CountKeeps ==
  ASSUME NEW c \in Calls
  PROVE  AccountsInv /\ CountAdmins(c) => AccountsInv'
<1> SUFFICES ASSUME AccountsInv, CountAdmins(c) PROVE AccountsInv' OBVIOUS
<1> DEFINE call == [calls[c] EXCEPT !.op = "write"]
<1>1. calls[c] \in Administered /\ calls[c].op = "count"
  BY CallFields DEF AccountsInv, AccountsTypeOK, CountAdmins, On
<1>2. call \in Administered /\ call.op = "write" /\ call.user = calls[c].user
      /\ call.to = calls[c].to BY <1>1 DEF Administered
<1>3. CASE GiveUp(c) BY <1>3, GiveUpKeeps
<1>4. CASE Becomes(c, "write") /\ UNCHANGED <<users, sessions, edits, wrong>>
  <2>1. calls' = [calls EXCEPT ![c] = call] BY <1>4 DEF Becomes
  <2>2. CallIsGrounded(calls[c]) BY DEF AccountsInv
  <2> HIDE DEF call
  <2>3. CallIsGrounded(call) BY <1>1, <1>2, <2>2 DEF CallIsGrounded, Switches
  <2> QED BY <1>2, <1>4, <2>1, <2>3, OnlyCallKeeps DEF CallRecords
<1> QED BY <1>3, <1>4 DEF CountAdmins

LEMMA WriteTargetKeeps ==
  ASSUME NEW c \in Calls
  PROVE  AccountsInv /\ WriteTarget(c) => AccountsInv'
<1> SUFFICES ASSUME AccountsInv, WriteTarget(c) PROVE AccountsInv' OBVIOUS
<1> DEFINE u == calls[c].user
           to == calls[c].to
           row == Changed(to, users[u])
<1>1. AccountsTypeOK BY DEF AccountsInv
<1>2. u \in Users /\ calls[c].op = "write" BY <1>1, CallFields DEF AccountsTypeOK, WriteTarget, On
<1>3. /\ to \in Switches /\ users[u].exists = TRUE
      /\ to \in {"disable", "demote"} => users[u].boot = FALSE
  BY <1>2 DEF AccountsInv, CallIsGrounded
<1>4. users[u] \in UserRows /\ RowIsSound(users[u], wrong[u])
  BY <1>1, <1>2 DEF AccountsInv, AccountsTypeOK
<1>5. /\ row \in UserRows /\ row.exists = users[u].exists /\ row.boot = users[u].boot
      /\ row.failed = users[u].failed /\ row.lock = users[u].lock
      /\ to # "disable" => (row.enabled = users[u].enabled \/ row.enabled = TRUE)
      /\ to # "demote" => (row.role = users[u].role \/ row.role = "admin")
      /\ to \in {"promote", "demote"} => row.enabled = users[u].enabled
      /\ to \in {"enable", "disable"} => row.role = users[u].role BY <1>3, <1>4, ChangeMade
<1>6. Edit(c, u, row) BY DEF WriteTarget
<1> HIDE DEF row
<1>7. RowMoves(u, row, wrong[u]) BY <1>3, <1>4, <1>5 DEF RowMoves, RowIsSound
<1> QED BY <1>2, <1>6, <1>7, EditKeeps

LEMMA LogoutKeeps == AccountsInv /\ Logout => AccountsInv'
<1> SUFFICES ASSUME AccountsInv, Logout PROVE AccountsInv' OBVIOUS
<1>1. UNCHANGED <<users, calls, edits, wrong>> /\ sessions' \subseteq sessions BY DEF Logout
<1>2. AccountsTypeOK' BY <1>1 DEF AccountsInv, AccountsTypeOK
<1>3. SessionsAreOwed' BY <1>1 DEF AccountsInv, SessionsAreOwed
<1>4. OneBootstrap' /\ (\A u \in Users : RowIsSound(users[u], wrong[u])')
      /\ (\A c \in Calls : CallIsGrounded(calls[c])')
  BY <1>1 DEF AccountsInv, OneBootstrap, RowIsSound, CallIsGrounded
<1> QED BY <1>2, <1>3, <1>4 DEF AccountsInv

LEMMA AccountsKeep == AccountsInv /\ [AccountsNext]_accounts => AccountsInv'
<1> SUFFICES ASSUME AccountsInv, [AccountsNext]_accounts PROVE AccountsInv' OBVIOUS
<1>1. CASE Logout BY <1>1, LogoutKeeps
<1>2. ASSUME NEW u \in Users, LockEnds(u) PROVE AccountsInv' BY <1>2, LockEndKeeps
<1>3. ASSUME NEW c \in Calls, Arrives(c) PROVE AccountsInv' BY <1>3, ArrivalKeeps
<1>4. ASSUME NEW c \in Calls, Works(c) PROVE AccountsInv'
  <2>1. CASE SetupLoses(c) \/ LoginRefused(c) \/ PasswordRefused(c)
    BY <2>1, GiveUpKeeps DEF SetupLoses, LoginRefused, PasswordRefused
  <2> QED BY <1>4, <2>1, SetupKeeps, CreateUserKeeps, LoginFailureKeeps, LoginKeeps,
             PasswordKeeps, ReadTargetKeeps, CountKeeps, WriteTargetKeeps DEF Works
<1>5. CASE UNCHANGED accounts
  <2>1. UNCHANGED <<users, sessions, calls, edits, wrong>> BY <1>5 DEF accounts
  <2> QED BY <2>1 DEF AccountsInv, AccountsTypeOK, OneBootstrap, RowIsSound, CallIsGrounded,
                      SessionsAreOwed
<1> QED BY <1>1, <1>2, <1>3, <1>4, <1>5 DEF AccountsNext

\* In every behaviour the accounts are as their invariant says.
THEOREM AccountsInvariance == AccountsSpec => []AccountsInv
<1> QED BY AccountsStart, AccountsKeep, PTL DEF AccountsSpec

\* No session outlives the edits of its account or belongs to a disabled one, and once
\* set up the console has one bootstrap account and an administrator who can sign in
\* (CreateSession's guard, the edits' transactions, the bootstrap rule).
THEOREM AccountsSound == AccountsSpec => []AccountsAreSound
<1>1. AccountsInv => AccountsAreSound
  <2> SUFFICES ASSUME AccountsInv PROVE AnAdminRemains BY DEF AccountsInv, AccountsAreSound
  <2> DEFINE boots == {u \in Users : users[u].boot}
  <2>1. \A u \in Users : users[u].boot \in BOOLEAN /\ users[u].exists \in BOOLEAN
    BY UserFields DEF AccountsInv, AccountsTypeOK
  <2>2. \A u, v \in boots : u = v BY <2>1 DEF AccountsInv, OneBootstrap
  <2>3. CountBootstrapUsers <= 1 BY <2>2, BootstrapCounted
  <2>4. ASSUME NEW u \in Users, users[u].exists
        PROVE  \E v \in Users : users[v].role = "admin" /\ users[v].enabled
    <3>1. PICK v \in Users : users[v].boot = TRUE BY <2>1, <2>4 DEF AccountsInv, OneBootstrap
    <3> QED BY <3>1 DEF AccountsInv, RowIsSound
  <2> QED BY <2>3, <2>4 DEF AnAdminRemains
<1> QED BY <1>1, AccountsInvariance, PTL

\* A lock that begins has been earned since the last one by as many wrong passwords as
\* the threshold says (RecordLoginFailure).
THEOREM LocksEarned == AccountsSpec => LocksAreEarned
<1> DEFINE A == \A u \in Users :
                    users[u].lock # "on" /\ users'[u].lock = "on"
                        => wrong[u] + 1 >= LoginLockThreshold
<1>1. AccountsInv /\ [AccountsNext]_accounts => A
  <2> SUFFICES ASSUME AccountsInv, [AccountsNext]_accounts, NEW u \in Users,
                      users[u].lock # "on", users'[u].lock = "on"
               PROVE  wrong[u] + 1 >= LoginLockThreshold OBVIOUS
  <2>1. /\ users \in [Users -> UserRows] /\ calls \in [Calls -> CallRecords]
        /\ wrong \in [Users -> Nat] BY DEF AccountsInv, AccountsTypeOK
  <2>2. ASSUME NEW x \in Users, NEW row, users' = [users EXCEPT ![x] = row],
               row.lock = users[x].lock \/ row.lock # "on"
        PROVE  FALSE BY <2>1, <2>2
  <2>3. ASSUME NEW c \in Calls, LoginFails(c)
        PROVE  wrong[u] + 1 >= LoginLockThreshold
    <3> DEFINE x == calls[c].user
               f == Failed(users[x])
    <3>1. x \in Users BY <2>1, <2>3, CallFields DEF LoginFails, On
    <3>2. users' = [users EXCEPT ![x] = f] BY <2>3 DEF LoginFails
    <3>3. RowIsSound(users[x], wrong[x]) /\ users[x] \in UserRows /\ wrong[x] \in Nat
      BY <2>1, <3>1 DEF AccountsInv
    <3>4. users[x].lock # "on" /\ f.lock = "on" => wrong[x] + 1 >= LoginLockThreshold
      BY <3>3, FailureCounted
    <3> HIDE DEF f
    <3> QED BY <2>1, <3>1, <3>2, <3>4
  <2>4. ASSUME NEW c \in Calls, LoginSucceeds(c) PROVE FALSE
    <3> DEFINE x == calls[c].user
               f == [users[x] EXCEPT !.failed = 0, !.lock = "none"]
    <3>1. x \in Users BY <2>1, <2>4, CallFields DEF LoginSucceeds, On
    <3>2. users' = [users EXCEPT ![x] = f] BY <2>4 DEF LoginSucceeds
    <3>3. f.lock = "none" BY <2>1, <3>1 DEF UserRows
    <3> HIDE DEF f
    <3> QED BY <2>2, <3>1, <3>2, <3>3
  <2>5. ASSUME NEW c \in Calls, Setup(c) \/ CreateUser(c) PROVE FALSE
    <3> DEFINE x == calls[c].user
    <3>1. x \in Users BY <2>1, <2>5, CallFields DEF Setup, CreateUser, On
    <3>2. PICK boot \in BOOLEAN, role \in {"admin", "member"} :
                users' = [users EXCEPT ![x] = NewRow(boot, role)] \/ users' = users
      BY <2>5 DEF Setup, CreateUser, GiveUp
    <3>3. NewRow(boot, role).lock = "none" BY DEF NewRow
    <3> QED BY <2>2, <3>1, <3>2, <3>3
  <2>6. ASSUME NEW c \in Calls, WriteTarget(c) PROVE FALSE
    <3> DEFINE x == calls[c].user
               f == Changed(calls[c].to, users[x])
    <3>1. x \in Users /\ calls[c].op = "write" BY <2>1, <2>6, CallFields DEF WriteTarget, On
    <3>2. calls[c].to \in Switches BY <3>1 DEF AccountsInv, CallIsGrounded
    <3>3. users' = [users EXCEPT ![x] = f] BY <2>6 DEF WriteTarget, Edit
    <3>4. f.lock = users[x].lock BY <2>1, <3>1, <3>2, ChangeMade
    <3> HIDE DEF f
    <3> QED BY <2>2, <3>1, <3>3, <3>4
  <2>7. ASSUME NEW x \in Users, LockEnds(x) PROVE FALSE
    <3> DEFINE f == [users[x] EXCEPT !.lock = "ended"]
    <3>1. users' = [users EXCEPT ![x] = f] BY <2>7 DEF LockEnds
    <3>2. f.lock = "ended" BY <2>1 DEF UserRows
    <3> HIDE DEF f
    <3> QED BY <2>2, <3>1, <3>2
  <2>8. ASSUME NEW c \in Calls, ChangePassword(c) \/ ResetUserPassword(c) PROVE FALSE
    <3> DEFINE x == calls[c].user
    <3>1. x \in Users BY <2>1, <2>8, CallFields DEF ChangePassword, ResetUserPassword, On
    <3>2. users' = [users EXCEPT ![x] = users[x]] \/ users' = users
      BY <2>8 DEF ChangePassword, ResetUserPassword, Edit, GiveUp
    <3> QED BY <2>2, <3>1, <3>2
  <2>9. users' # users OBVIOUS
  <2>10. ASSUME NEW c \in Calls, Arrives(c) PROVE FALSE
    BY <2>9, <2>10 DEF Arrives, PostSetup, PostLogin, PutPassword, PostUser,
                       PostUserPasswordReset, PatchUserStatus, PatchUserRole, Administer
  <2>11. ASSUME NEW c \in Calls, SetupLoses(c) \/ LoginRefused(c) \/ PasswordRefused(c)
                                    \/ ReadTarget(c) \/ CountAdmins(c)
         PROVE  FALSE
    BY <2>9, <2>11 DEF SetupLoses, LoginRefused, PasswordRefused, ReadTarget, CountAdmins, GiveUp
  <2>12. ~Logout /\ ~(UNCHANGED accounts) BY <2>9 DEF Logout, accounts
  <2> QED BY <2>3, <2>4, <2>5, <2>6, <2>7, <2>8, <2>10, <2>11, <2>12 DEF AccountsNext, Works
<1>2. AccountsSpec => [][A]_accounts BY <1>1, AccountsInvariance, PTL DEF AccountsSpec
<1> QED BY <1>2 DEF LocksAreEarned
----------------------------------------
(* Federation. *)

Persons == [id : Nat, subject : Subjects]
Uses == [browser : Browsers, id : Nat, uses : Nat]
StateRows == [token : Nat, id : Nat, spent : BOOLEAN, expired : BOOLEAN]
Identities == [id : Nat, subject : Subjects, user : Nat]
VisitRecords ==
  {NoVisit} \cup [step : {"begin"}, browser : Browsers, id : Nat]
            \cup [step : {"find"}, browser : Browsers, slug : Slugs, token : Nat]
            \cup [step : {"consume", "exchange"}, browser : Browsers, token : Nat, id : Nat]
            \cup [step : {"register"}, browser : Browsers, id : Nat, subject : Subjects]
            \cup [step : {"session"}, browser : Browsers, id : Nat, subject : Subjects, user : Nat]

FederationTypeOK ==
  /\ providers \in [Slugs -> [id : Nat, enabled : BOOLEAN]]
  /\ nextId \in Nat /\ nextId > 0
  /\ states \in SUBSET StateRows
  /\ issued \in Seq(Uses)
  /\ cookie \in [Browsers -> Nat]
  /\ identities \in SUBSET Identities
  /\ people \in Seq(Persons)
  /\ visits \in [Visits -> VisitRecords]
  /\ signedIn \in SUBSET Identities

\* A state that can still be spent has not been, and there is one of each token; a
\* cookie names a state its browser began.
TokensAreSound ==
  /\ \A a \in states :
      /\ a.token \in 1..Len(issued) /\ issued[a.token].id = a.id
      /\ a.spent = FALSE => issued[a.token].uses = 0
  /\ \A a, b \in states : a.token = b.token => a = b
  /\ \A t \in 1..Len(issued) : issued[t].uses <= 1
  /\ \A b \in Browsers :
      cookie[b] # 0 => cookie[b] \in 1..Len(issued) /\ issued[cookie[b]].browser = b

\* Ids are handed out once; while a provider is stored, whoever registered through it
\* has an identity.
PeopleAreSound ==
  /\ \A s \in Slugs : providers[s].id < nextId
  /\ \A s, t \in Slugs : providers[s].id # 0 /\ providers[s].id = providers[t].id => s = t
  /\ \A p \in 1..Len(people) : people[p].id # 0 /\ people[p].id < nextId
  /\ \A p \in 1..Len(people) : Stored(people[p].id) => FindIdentity(people[p].id, people[p].subject) # {}
  /\ \A p, q \in 1..Len(people) : people[p] = people[q] => p = q
  /\ \A i \in identities \cup signedIn :
      i.user \in 1..Len(people) /\ people[i.user] = [id |-> i.id, subject |-> i.subject]

VisitIsSound(x) ==
  /\ x.step \in {"find", "consume", "exchange"} =>
      x.token \in 1..Len(issued) /\ issued[x.token].browser = x.browser
  /\ x.step = "exchange" => issued[x.token].id = x.id
  /\ x.step \in {"begin", "consume", "exchange", "register", "session"} =>
      x.id # 0 /\ x.id < nextId
  /\ x.step = "session" =>
      x.user \in 1..Len(people) /\ people[x.user] = [id |-> x.id, subject |-> x.subject]

FederationInv ==
  /\ FederationTypeOK /\ TokensAreSound /\ PeopleAreSound
  /\ \A v \in Visits : VisitIsSound(visits[v])

LEMMA VisitFields ==
  ASSUME NEW x \in VisitRecords
  PROVE  /\ x.step \in {"none", "begin", "find", "consume", "exchange", "register", "session"}
         /\ x.step # "none" => x.browser \in Browsers
         /\ x.step \in {"find", "consume", "exchange"} => x.token \in Nat
         /\ x.step \in {"begin", "consume", "exchange", "register", "session"} => x.id \in Nat
         /\ x.step \in {"register", "session"} => x.subject \in Subjects
         /\ x.step = "session" => x.user \in Nat
         /\ x.step = "consume" =>
              x \in [step : {"consume", "exchange"}, browser : Browsers, token : Nat, id : Nat]
BY DEF VisitRecords, NoVisit

LEMMA NoVisitIsSound == NoVisit \in VisitRecords /\ NoVisit.step = "none"
BY DEF VisitRecords, NoVisit

LEMMA FederationStart == FederationInit => FederationInv
<1> SUFFICES ASSUME FederationInit PROVE FederationInv OBVIOUS
<1>1. FederationTypeOK
  <2>1. visits \in [Visits -> VisitRecords] BY NoVisitIsSound DEF FederationInit
  <2>2. providers \in [Slugs -> [id : Nat, enabled : BOOLEAN]] BY DEF FederationInit
  <2> QED BY <2>1, <2>2 DEF FederationInit, FederationTypeOK
<1>2. TokensAreSound BY DEF FederationInit, TokensAreSound
<1>3. PeopleAreSound BY DEF FederationInit, PeopleAreSound
<1>4. \A v \in Visits : VisitIsSound(visits[v]) BY NoVisitIsSound DEF FederationInit, VisitIsSound
<1> QED BY <1>1, <1>2, <1>3, <1>4 DEF FederationInv

\* What a step does to the visit that takes it.
LEMMA VisitMoves ==
  ASSUME FederationTypeOK, NEW v \in Visits, NEW x \in VisitRecords,
         visits' = [visits EXCEPT ![v] = x]
  PROVE  /\ visits' \in [Visits -> VisitRecords] /\ visits'[v] = x
         /\ \A w \in Visits \ {v} : visits'[w] = visits[w]
BY DEF FederationTypeOK

\* What has been issued and who has registered only grow.
Grows ==
  /\ Len(issued) <= Len(issued') /\ Len(people) <= Len(people') /\ nextId <= nextId'
  /\ \A t \in 1..Len(issued) : issued'[t].browser = issued[t].browser /\ issued'[t].id = issued[t].id
  /\ \A p \in 1..Len(people) : people'[p] = people[p]

LEMMA VisitsStaySound ==
  ASSUME FederationTypeOK, FederationTypeOK', Grows, NEW x \in VisitRecords, VisitIsSound(x)
  PROVE  VisitIsSound(x)'
<1>1. /\ Len(issued) \in Nat /\ Len(people) \in Nat /\ Len(issued') \in Nat /\ Len(people') \in Nat
      /\ nextId \in Nat /\ nextId' \in Nat BY DEF FederationTypeOK
<1> QED BY <1>1, VisitFields DEF VisitIsSound, Grows

\* A step of one visit, or of none, after which the rest is sound.
LEMMA VisitsKeep ==
  ASSUME FederationInv, FederationTypeOK', Grows, TokensAreSound', PeopleAreSound',
         \/ UNCHANGED visits
         \/ \E v \in Visits : /\ VisitIsSound(visits[v])'
                              /\ \A w \in Visits \ {v} : visits'[w] = visits[w]
  PROVE  FederationInv'
<1>1. ASSUME NEW v \in Visits, visits'[v] = visits[v] PROVE VisitIsSound(visits[v])'
  <2>1. visits[v] \in VisitRecords /\ VisitIsSound(visits[v])
    BY DEF FederationInv, FederationTypeOK
  <2>2. \A x \in VisitRecords : VisitIsSound(x) => VisitIsSound(x)'
    BY VisitsStaySound DEF FederationInv
  <2> QED BY <1>1, <2>1, <2>2 DEF VisitIsSound
<1>2. \A v \in Visits : VisitIsSound(visits[v])' BY <1>1
<1> QED BY <1>2 DEF FederationInv

(* The steps. *)

\* Steps that leave tokens and people to themselves.
LEMMA TokensRest ==
  ASSUME TokensAreSound, UNCHANGED <<states, issued, cookie>>
  PROVE  TokensAreSound'
BY DEF TokensAreSound

LEMMA PeopleRest ==
  ASSUME PeopleAreSound, UNCHANGED <<rows, people, signedIn>>
  PROVE  PeopleAreSound'
BY DEF PeopleAreSound, rows, Stored, FindIdentity

LEMMA CreateProviderKeeps ==
  ASSUME NEW s \in Slugs, NEW enabled \in BOOLEAN
  PROVE  FederationInv /\ CreateProvider(s, enabled) => FederationInv'
<1> SUFFICES ASSUME FederationInv, CreateProvider(s, enabled) PROVE FederationInv' OBVIOUS
<1> DEFINE row == [id |-> nextId, enabled |-> enabled]
<1>1. FederationTypeOK /\ TokensAreSound /\ PeopleAreSound BY DEF FederationInv
<1>2. /\ providers[s].id = 0 /\ providers' = [providers EXCEPT ![s] = row] /\ nextId' = nextId + 1
      /\ UNCHANGED <<states, issued, cookie, identities, people, visits, signedIn>>
  BY DEF CreateProvider
<1>3. row.id = nextId /\ row \in [id : Nat, enabled : BOOLEAN] BY <1>1 DEF FederationTypeOK
<1> HIDE DEF row
<1>4. /\ providers' \in [Slugs -> [id : Nat, enabled : BOOLEAN]] /\ providers'[s] = row
      /\ \A t \in Slugs \ {s} : providers'[t] = providers[t]
  BY <1>1, <1>2, <1>3 DEF FederationTypeOK
<1>5. FederationTypeOK' BY <1>1, <1>2, <1>4 DEF FederationTypeOK
<1>6. TokensAreSound' BY <1>1, <1>2, TokensRest
<1>7. /\ nextId \in Nat /\ \A t \in Slugs : providers[t].id \in Nat
      /\ Len(people) \in Nat /\ \A p \in 1..Len(people) : people[p].id \in Nat
  <2>1. people \in Seq(Persons) BY <1>1 DEF FederationTypeOK
  <2>2. \A p \in 1..Len(people) : people[p] \in Persons BY <2>1
  <2> QED BY <1>1, <2>1, <2>2 DEF FederationTypeOK, Persons
<1>8. PeopleAreSound'
  <2>1. \A t \in Slugs : providers'[t].id < nextId' BY <1>1, <1>2, <1>3, <1>4, <1>7 DEF PeopleAreSound
  <2>2. \A t, u \in Slugs : providers'[t].id # 0 /\ providers'[t].id = providers'[u].id => t = u
    BY <1>1, <1>2, <1>3, <1>4, <1>7 DEF PeopleAreSound
  <2>3. \A p \in 1..Len(people) : people[p].id # 0 /\ people[p].id < nextId'
    BY <1>1, <1>2, <1>7 DEF PeopleAreSound
  <2>4. \A p \in 1..Len(people) : Stored(people[p].id)' => Stored(people[p].id)
    BY <1>1, <1>2, <1>3, <1>4, <1>7 DEF PeopleAreSound, Stored
  <2> QED BY <1>1, <1>2, <2>1, <2>2, <2>3, <2>4 DEF PeopleAreSound, FindIdentity, Stored
<1>9. Grows BY <1>1, <1>2, <1>7 DEF Grows, FederationTypeOK
<1> QED BY <1>2, <1>5, <1>6, <1>8, <1>9, VisitsKeep

LEMMA UpdateProviderKeeps ==
  ASSUME NEW s \in Slugs
  PROVE  FederationInv /\ UpdateProvider(s) => FederationInv'
<1> SUFFICES ASSUME FederationInv, UpdateProvider(s) PROVE FederationInv' OBVIOUS
<1> DEFINE row == [providers[s] EXCEPT !.enabled = ~@]
<1>1. FederationTypeOK /\ TokensAreSound /\ PeopleAreSound BY DEF FederationInv
<1>2. /\ providers' = [providers EXCEPT ![s] = row]
      /\ UNCHANGED <<nextId, states, issued, cookie, identities, people, visits, signedIn>>
  BY DEF UpdateProvider
<1>3. row.id = providers[s].id /\ row \in [id : Nat, enabled : BOOLEAN]
  BY <1>1 DEF FederationTypeOK
<1> HIDE DEF row
<1>4. /\ providers' \in [Slugs -> [id : Nat, enabled : BOOLEAN]]
      /\ \A t \in Slugs : providers'[t].id = providers[t].id
  BY <1>1, <1>2, <1>3 DEF FederationTypeOK
<1>5. FederationTypeOK' BY <1>1, <1>2, <1>4 DEF FederationTypeOK
<1>6. TokensAreSound' BY <1>1, <1>2, TokensRest
<1>7. PeopleAreSound' BY <1>1, <1>2, <1>4 DEF PeopleAreSound, Stored, FindIdentity
<1>8. Grows BY <1>1, <1>2 DEF Grows, FederationTypeOK
<1> QED BY <1>2, <1>5, <1>6, <1>7, <1>8, VisitsKeep

LEMMA DeleteProviderKeeps ==
  ASSUME NEW s \in Slugs
  PROVE  FederationInv /\ DeleteOAuthProvider(s) => FederationInv'
<1> SUFFICES ASSUME FederationInv, DeleteOAuthProvider(s) PROVE FederationInv' OBVIOUS
<1> DEFINE gone == providers[s].id
           row == [id |-> 0, enabled |-> FALSE]
<1>1. FederationTypeOK /\ TokensAreSound /\ PeopleAreSound BY DEF FederationInv
<1>2. /\ gone # 0 /\ providers' = [providers EXCEPT ![s] = row]
      /\ states' = {a \in states : a.id # gone}
      /\ identities' = {i \in identities : i.id # gone}
      /\ UNCHANGED <<nextId, issued, cookie, people, visits, signedIn>> BY DEF DeleteOAuthProvider
<1>3. row.id = 0 /\ row \in [id : Nat, enabled : BOOLEAN] OBVIOUS
<1> HIDE DEF row
<1>4. /\ providers' \in [Slugs -> [id : Nat, enabled : BOOLEAN]] /\ providers'[s] = row
      /\ \A t \in Slugs \ {s} : providers'[t] = providers[t]
  BY <1>1, <1>2, <1>3 DEF FederationTypeOK
<1>5. FederationTypeOK' BY <1>1, <1>2, <1>4 DEF FederationTypeOK
<1>6. TokensAreSound' BY <1>1, <1>2 DEF TokensAreSound
<1>7. nextId \in Nat /\ nextId > 0 /\ \A t \in Slugs : providers[t].id \in Nat
  BY <1>1 DEF FederationTypeOK
<1>8. PeopleAreSound'
  <2>1. \A t \in Slugs : providers'[t].id < nextId BY <1>1, <1>3, <1>4, <1>7 DEF PeopleAreSound
  <2>2. \A t, u \in Slugs : providers'[t].id # 0 /\ providers'[t].id = providers'[u].id => t = u
    BY <1>1, <1>3, <1>4 DEF PeopleAreSound
  <2>3. ASSUME NEW p \in 1..Len(people), Stored(people[p].id)'
        PROVE  FindIdentity(people[p].id, people[p].subject)' # {}
    <3>1. people[p].id # 0 BY <1>1 DEF PeopleAreSound
    <3>2. PICK t \in Slugs : providers'[t].id = people[p].id BY <1>2, <2>3 DEF Stored
    <3>3. t # s /\ providers[t].id = people[p].id BY <1>3, <1>4, <3>1, <3>2
    <3>4. people[p].id # gone BY <1>1, <1>2, <3>3 DEF PeopleAreSound
    <3>5. FindIdentity(people[p].id, people[p].subject) # {}
      BY <1>1, <3>3 DEF PeopleAreSound, Stored
    <3> QED BY <1>2, <3>4, <3>5 DEF FindIdentity
  <2>4. \A i \in identities' \cup signedIn' :
            i.user \in 1..Len(people) /\ people[i.user] = [id |-> i.id, subject |-> i.subject]
    BY <1>1, <1>2 DEF PeopleAreSound
  <2>5. /\ \A p \in 1..Len(people) : people[p].id # 0 /\ people[p].id < nextId
        /\ \A p, q \in 1..Len(people) : people[p] = people[q] => p = q BY <1>1 DEF PeopleAreSound
  <2>6. \A p \in 1..Len(people') :
            Stored(people[p].id)' => FindIdentity(people[p].id, people[p].subject)' # {}
    BY <1>2, <2>3
  <2> QED BY <1>2, <2>1, <2>2, <2>4, <2>5, <2>6 DEF PeopleAreSound
<1>9. Grows BY <1>1, <1>2 DEF Grows, FederationTypeOK
<1> QED BY <1>2, <1>5, <1>6, <1>8, <1>9, VisitsKeep

\* A step of one visit that leaves everything else but the cookie of its browser.
LEMMA VisitStepKeeps ==
  ASSUME FederationInv, NEW v \in Visits, NEW x \in VisitRecords, VisitIsSound(x),
         visits' = [visits EXCEPT ![v] = x],
         \/ cookie' = cookie
         \/ \E b \in Browsers : cookie' = [cookie EXCEPT ![b] = 0],
         UNCHANGED <<rows, states, issued, people, signedIn>>
  PROVE  FederationInv'
<1>1. FederationTypeOK /\ TokensAreSound /\ PeopleAreSound BY DEF FederationInv
<1>2. /\ visits' \in [Visits -> VisitRecords] /\ visits'[v] = x
      /\ \A w \in Visits \ {v} : visits'[w] = visits[w] BY <1>1, VisitMoves
<1>3. UNCHANGED <<providers, nextId, identities, states, issued, people, signedIn>> BY DEF rows
<1>4. /\ cookie' \in [Browsers -> Nat]
      /\ \A b \in Browsers : cookie'[b] = 0 \/ cookie'[b] = cookie[b] BY <1>1 DEF FederationTypeOK
<1>5. FederationTypeOK' BY <1>1, <1>2, <1>3, <1>4 DEF FederationTypeOK
<1>6. TokensAreSound' BY <1>1, <1>3, <1>4 DEF TokensAreSound
<1>7. PeopleAreSound' BY <1>1, <1>3, PeopleRest DEF rows
<1>8. Grows BY <1>1, <1>3 DEF Grows, FederationTypeOK
<1>9. VisitIsSound(visits[v])' BY <1>2, <1>3 DEF VisitIsSound
<1> QED BY <1>2, <1>5, <1>6, <1>7, <1>8, <1>9, VisitsKeep

\* A visit that is answered leaves nothing behind but a cookie cleared.
LEMMA AnswerKeeps ==
  ASSUME FederationInv, NEW v \in Visits, visits[v].step # "none", Answer(v),
         UNCHANGED <<rows, states, issued, people, signedIn>>
  PROVE  FederationInv'
<1>1. visits[v].browser \in Browsers BY VisitFields DEF FederationInv, FederationTypeOK
<1>2. VisitIsSound(NoVisit) BY NoVisitIsSound DEF VisitIsSound
<1> QED BY <1>1, <1>2, NoVisitIsSound, VisitStepKeeps DEF Answer, Leaves

LEMMA CookieMismatchKeeps ==
  ASSUME NEW b \in Browsers
  PROVE  FederationInv /\ CookieMismatch(b) => FederationInv'
<1> SUFFICES ASSUME FederationInv, CookieMismatch(b) PROVE FederationInv' OBVIOUS
<1>1. FederationTypeOK /\ TokensAreSound /\ PeopleAreSound BY DEF FederationInv
<1>2. /\ cookie' = [cookie EXCEPT ![b] = 0]
      /\ UNCHANGED <<providers, nextId, identities, states, issued, people, visits, signedIn>>
  BY DEF CookieMismatch, rows
<1>3. FederationTypeOK' BY <1>1, <1>2 DEF FederationTypeOK
<1>4. TokensAreSound' BY <1>1, <1>2 DEF TokensAreSound, FederationTypeOK
<1>5. PeopleAreSound' BY <1>1, <1>2, PeopleRest DEF rows
<1>6. Grows BY <1>1, <1>2 DEF Grows, FederationTypeOK
<1> QED BY <1>2, <1>3, <1>4, <1>5, <1>6, VisitsKeep

LEMMA PostStateKeeps ==
  ASSUME NEW v \in Visits, NEW b \in Browsers, NEW s \in Slugs
  PROVE  FederationInv /\ PostOAuthState(v, b, s) => FederationInv'
<1> SUFFICES ASSUME FederationInv, PostOAuthState(v, b, s) PROVE FederationInv' OBVIOUS
<1> DEFINE x == [step |-> "begin", browser |-> b, id |-> providers[s].id]
<1>1. FederationTypeOK /\ TokensAreSound /\ PeopleAreSound BY DEF FederationInv
<1>2. /\ providers[s].id # 0 /\ providers[s].id < nextId /\ providers[s].id \in Nat
  BY <1>1 DEF PostOAuthState, findEnabledProvider, PeopleAreSound, FederationTypeOK
<1>3. x \in VisitRecords /\ x.step = "begin" /\ x.id = providers[s].id BY <1>2 DEF VisitRecords
<1>4. /\ visits' = [visits EXCEPT ![v] = x] /\ states' = {a \in states : ~a.expired}
      /\ UNCHANGED <<providers, nextId, identities, issued, cookie, people, signedIn>>
  BY DEF PostOAuthState, Opens, rows
<1> HIDE DEF x
<1>5. /\ visits' \in [Visits -> VisitRecords] /\ visits'[v] = x
      /\ \A w \in Visits \ {v} : visits'[w] = visits[w] BY <1>1, <1>3, <1>4, VisitMoves
<1>6. FederationTypeOK' BY <1>1, <1>4, <1>5 DEF FederationTypeOK
<1>7. TokensAreSound' BY <1>1, <1>4 DEF TokensAreSound
<1>8. PeopleAreSound' BY <1>1, <1>4, PeopleRest DEF rows
<1>9. Grows BY <1>1, <1>4 DEF Grows, FederationTypeOK
<1>10. VisitIsSound(visits[v])' BY <1>2, <1>3, <1>4, <1>5 DEF VisitIsSound
<1> QED BY <1>5, <1>6, <1>7, <1>8, <1>9, <1>10, VisitsKeep

\* A new state is of the next token, unspent, and of the browser whose cookie names it.
LEMMA BeginLoginKeeps ==
  ASSUME NEW v \in Visits
  PROVE  FederationInv /\ BeginLogin(v) => FederationInv'
<1> SUFFICES ASSUME FederationInv, BeginLogin(v) PROVE FederationInv' OBVIOUS
<1> DEFINE visit == visits[v]
           t == Len(issued) + 1
           row == [token |-> t, id |-> visit.id, spent |-> FALSE, expired |-> FALSE]
           use == [browser |-> visit.browser, id |-> visit.id, uses |-> 0]
<1>1. FederationTypeOK /\ TokensAreSound /\ PeopleAreSound BY DEF FederationInv
<1>2. visit \in VisitRecords /\ visit.step = "begin"
  BY <1>1 DEF FederationTypeOK, BeginLogin, Waits
<1>3. visit.browser \in Browsers /\ visit.id \in Nat BY <1>2, VisitFields
<1>4. visits' = [visits EXCEPT ![v] = NoVisit]
      /\ UNCHANGED <<providers, nextId, identities, people, signedIn>>
  BY DEF BeginLogin, Leaves, rows
<1>5. CASE UNCHANGED <<states, issued, cookie>>
  <2>1. VisitIsSound(NoVisit) BY NoVisitIsSound DEF VisitIsSound
  <2> QED BY <1>4, <1>5, <2>1, NoVisitIsSound, VisitStepKeeps DEF rows
<1>6. CASE /\ states' = states \cup {row} /\ issued' = Append(issued, use)
           /\ cookie' = [cookie EXCEPT ![visit.browser] = t]
  <2>1. issued \in Seq(Uses) /\ Len(issued) \in Nat BY <1>1 DEF FederationTypeOK
  <2>2. /\ row \in StateRows /\ row.token = t /\ row.id = visit.id /\ row.spent = FALSE
    BY <1>3, <2>1 DEF StateRows
  <2>3. use \in Uses /\ use.browser = visit.browser /\ use.id = visit.id /\ use.uses = 0
    BY <1>3 DEF Uses
  <2>4. t \in Nat /\ t > Len(issued) /\ t # 0 BY <2>1
  <2> HIDE DEF row, use
  <2>5. /\ issued' \in Seq(Uses) /\ Len(issued') = t /\ issued'[t] = use
        /\ \A u \in 1..Len(issued) : issued'[u] = issued[u] BY <1>6, <2>1, <2>3
  <2>6. /\ cookie' \in [Browsers -> Nat] /\ cookie'[visit.browser] = t
        /\ \A b \in Browsers \ {visit.browser} : cookie'[b] = cookie[b]
    BY <1>1, <1>3, <1>6, <2>4 DEF FederationTypeOK
  <2>7. /\ visits' \in [Visits -> VisitRecords] /\ visits'[v] = NoVisit
        /\ \A w \in Visits \ {v} : visits'[w] = visits[w]
    BY <1>1, <1>4, NoVisitIsSound, VisitMoves
  <2>8. FederationTypeOK' BY <1>1, <1>4, <1>6, <2>2, <2>5, <2>6, <2>7 DEF FederationTypeOK
  <2>9. 1..Len(issued') = 1..Len(issued) \cup {t} BY <2>1, <2>5
  <2> HIDE DEF t
  <2>10. TokensAreSound'
    <3>1. \A a \in states' : /\ a.token \in 1..Len(issued') /\ issued'[a.token].id = a.id
                             /\ a.spent = FALSE => issued'[a.token].uses = 0
      BY <1>1, <1>6, <2>2, <2>3, <2>5, <2>9 DEF TokensAreSound
    <3>2. \A a \in states : a.token # t BY <1>1, <2>1, <2>4 DEF TokensAreSound
    <3>3. \A a, b \in states' : a.token = b.token => a = b
      BY <1>1, <1>6, <2>2, <3>2 DEF TokensAreSound
    <3>4. \A u \in 1..Len(issued') : issued'[u].uses <= 1
      BY <1>1, <2>3, <2>5, <2>9 DEF TokensAreSound
    <3>5. \A b \in Browsers : cookie'[b] # 0 =>
            cookie'[b] \in 1..Len(issued') /\ issued'[cookie'[b]].browser = b
      BY <1>1, <2>3, <2>5, <2>6, <2>9 DEF TokensAreSound
    <3> QED BY <3>1, <3>3, <3>4, <3>5 DEF TokensAreSound
  <2>11. PeopleAreSound' BY <1>1, <1>4, PeopleRest DEF rows
  <2>12. Grows BY <1>1, <1>4, <2>1, <2>4, <2>5 DEF Grows, FederationTypeOK
  <2>13. VisitIsSound(visits[v])' BY <2>7, NoVisitIsSound DEF VisitIsSound
  <2> QED BY <2>7, <2>8, <2>10, <2>11, <2>12, <2>13, VisitsKeep
<1> QED BY <1>5, <1>6 DEF BeginLogin, CreateAuthState

LEMMA ExpiryKeeps ==
  ASSUME NEW a \in states
  PROVE  FederationInv /\ AuthStateExpires(a) => FederationInv'
<1> SUFFICES ASSUME FederationInv, AuthStateExpires(a) PROVE FederationInv' OBVIOUS
<1> DEFINE row == [a EXCEPT !.expired = TRUE]
<1>1. FederationTypeOK /\ TokensAreSound /\ PeopleAreSound BY DEF FederationInv
<1>2. /\ states' = (states \ {a}) \cup {row}
      /\ UNCHANGED <<providers, nextId, identities, issued, cookie, people, visits, signedIn>>
  BY DEF AuthStateExpires, rows
<1>3. a \in StateRows BY <1>1 DEF FederationTypeOK
<1>4. row \in StateRows /\ row.token = a.token /\ row.id = a.id /\ row.spent = a.spent
  BY <1>3 DEF StateRows
<1> HIDE DEF row
<1>5. FederationTypeOK' BY <1>1, <1>2, <1>4 DEF FederationTypeOK
<1>6. TokensAreSound'
  <2>1. \A b \in states' : /\ b.token \in 1..Len(issued') /\ issued'[b.token].id = b.id
                           /\ b.spent = FALSE => issued'[b.token].uses = 0
    BY <1>1, <1>2, <1>4 DEF TokensAreSound
  <2>2. \A b, c \in states' : b.token = c.token => b = c BY <1>1, <1>2, <1>4 DEF TokensAreSound
  <2> QED BY <1>1, <1>2, <2>1, <2>2 DEF TokensAreSound
<1>7. PeopleAreSound' BY <1>1, <1>2, PeopleRest DEF rows
<1>8. Grows BY <1>1, <1>2 DEF Grows, FederationTypeOK
<1> QED BY <1>2, <1>5, <1>6, <1>7, <1>8, VisitsKeep

LEMMA CallbackKeeps ==
  ASSUME NEW v \in Visits, NEW b \in Browsers, NEW s \in Slugs, NEW t \in 1..Len(issued)
  PROVE  FederationInv /\ GetOAuthCallback(v, b, s, t) => FederationInv'
<1> SUFFICES ASSUME FederationInv, GetOAuthCallback(v, b, s, t) PROVE FederationInv' OBVIOUS
<1> DEFINE x == [step |-> "find", browser |-> b, slug |-> s, token |-> t]
<1>1. FederationTypeOK /\ TokensAreSound BY DEF FederationInv
<1>2. Len(issued) \in Nat /\ t \in Nat /\ t # 0 BY <1>1 DEF FederationTypeOK
<1>3. /\ x \in VisitRecords /\ x.step = "find" /\ x.token = t /\ x.browser = b
  BY <1>2 DEF VisitRecords
<1>4. /\ cookie[b] = t /\ visits' = [visits EXCEPT ![v] = x]
      /\ UNCHANGED <<rows, states, issued, cookie, people, signedIn>>
  BY DEF GetOAuthCallback, Opens
<1> HIDE DEF x
<1>5. VisitIsSound(x) BY <1>1, <1>2, <1>3, <1>4 DEF VisitIsSound, TokensAreSound
<1> QED BY <1>3, <1>4, <1>5, VisitStepKeeps

LEMMA FindProviderKeeps ==
  ASSUME NEW v \in Visits
  PROVE  FederationInv /\ FindProvider(v) => FederationInv'
<1> SUFFICES ASSUME FederationInv, FindProvider(v) PROVE FederationInv' OBVIOUS
<1> DEFINE visit == visits[v]
           x == [step |-> "consume", browser |-> visit.browser, token |-> visit.token,
                 id |-> providers[visit.slug].id]
<1>1. FederationTypeOK /\ PeopleAreSound BY DEF FederationInv
<1>2. /\ visit \in VisitRecords /\ visit.step = "find" /\ VisitIsSound(visit)
      /\ UNCHANGED <<rows, states, issued, people, signedIn>>
  BY <1>1 DEF FederationTypeOK, FederationInv, FindProvider, Waits
<1>3. CASE findEnabledProvider(visit.slug)
  <2>1. visit.browser \in Browsers /\ visit.token \in Nat BY <1>2, VisitFields
  <2>2. visit.slug \in Slugs BY <1>2 DEF VisitRecords, NoVisit
  <2>3. /\ providers[visit.slug].id \in Nat /\ providers[visit.slug].id # 0
        /\ providers[visit.slug].id < nextId
    BY <1>1, <1>3, <2>2 DEF findEnabledProvider, FederationTypeOK, PeopleAreSound
  <2>4. /\ x \in VisitRecords /\ x.step = "consume" /\ x.token = visit.token
        /\ x.browser = visit.browser /\ x.id = providers[visit.slug].id
    BY <2>1, <2>3 DEF VisitRecords
  <2>5. visits' = [visits EXCEPT ![v] = x] /\ cookie' = cookie BY <1>3 DEF FindProvider, Goes
  <2> HIDE DEF x
  <2>6. VisitIsSound(x) BY <1>2, <2>3, <2>4 DEF VisitIsSound
  <2> QED BY <1>2, <2>4, <2>5, <2>6, VisitStepKeeps
<1>4. CASE ~findEnabledProvider(visit.slug)
  <2>1. Answer(v) BY <1>4 DEF FindProvider
  <2> QED BY <1>2, <2>1, AnswerKeeps
<1> QED BY <1>3, <1>4

\* Spending a state spends the one row of its token, which nobody had spent.
LEMMA ConsumeKeeps ==
  ASSUME NEW v \in Visits
  PROVE  FederationInv /\ ConsumeAuthState(v) => FederationInv'
<1> SUFFICES ASSUME FederationInv, ConsumeAuthState(v) PROVE FederationInv' OBVIOUS
<1> DEFINE visit == visits[v]
           t == visit.token
           mine == {a \in states : Spendable(a, t, visit.id)}
           x == [visit EXCEPT !.step = "exchange"]
           use == [issued[t] EXCEPT !.uses = @ + 1]
<1>1. FederationTypeOK /\ TokensAreSound /\ PeopleAreSound BY DEF FederationInv
<1>2. /\ visit \in VisitRecords /\ visit.step = "consume" /\ VisitIsSound(visit)
      /\ UNCHANGED <<providers, nextId, identities, people, signedIn>>
  BY <1>1 DEF FederationTypeOK, FederationInv, ConsumeAuthState, Waits, rows
<1>3. CASE mine = {}
  <2>1. Answer(v) /\ UNCHANGED <<states, issued>> BY <1>3 DEF ConsumeAuthState
  <2> QED BY <1>2, <2>1, AnswerKeeps DEF rows
<1>4. CASE mine # {}
  <2>1. PICK a \in mine : TRUE BY <1>4
  <2>2. /\ a \in states /\ a.token = t /\ a.id = visit.id /\ ~a.spent /\ ~a.expired
    BY <2>1 DEF Spendable
  <2>3. mine = {a} BY <1>1, <2>1, <2>2 DEF TokensAreSound, Spendable
  <2> DEFINE row == [a EXCEPT !.spent = TRUE]
  <2>4. /\ states' = {b \in states \ mine : ~b.expired} \cup {[b EXCEPT !.spent = TRUE] : b \in mine}
        /\ issued' = [issued EXCEPT ![t] = use]
        /\ visits' = [visits EXCEPT ![v] = x] /\ cookie' = cookie
    BY <1>4 DEF ConsumeAuthState, Goes
  <2>5. states' = {b \in states \ {a} : ~b.expired} \cup {row} BY <2>3, <2>4
  <2>6. a \in StateRows BY <1>1, <2>2 DEF FederationTypeOK
  <2>7. /\ row \in StateRows /\ row.token = t /\ row.id = visit.id /\ row.spent = TRUE
    BY <2>2, <2>6 DEF StateRows
  <2>8. /\ visit \in [step : {"consume", "exchange"}, browser : Browsers, token : Nat, id : Nat]
    BY <1>2, VisitFields
  <2>9. x \in VisitRecords /\ x.step = "exchange" /\ x.token = t /\ x.browser = visit.browser
        /\ x.id = visit.id BY <2>8 DEF VisitRecords
  <2>10. issued \in Seq(Uses) /\ t \in 1..Len(issued) /\ issued[t].id = visit.id
         /\ issued[t].browser = visit.browser /\ issued[t].uses = 0
    <3>1. a.spent = FALSE BY <2>2, <2>6 DEF StateRows
    <3> QED BY <1>1, <1>2, <2>2, <3>1 DEF TokensAreSound, FederationTypeOK, VisitIsSound
  <2>11. issued[t] \in Uses BY <2>10
  <2>12. use \in Uses /\ use.browser = visit.browser /\ use.id = visit.id /\ use.uses = 1
    <3>1. \A u \in Uses : [u EXCEPT !.uses = u.uses + 1] =
              [browser |-> u.browser, id |-> u.id, uses |-> u.uses + 1] BY DEF Uses
    <3>2. use = [browser |-> issued[t].browser, id |-> issued[t].id, uses |-> issued[t].uses + 1]
      BY <2>11, <3>1
    <3>3. issued[t].browser \in Browsers /\ issued[t].id \in Nat /\ issued[t].uses + 1 = 1
      BY <2>10, <2>11 DEF Uses
    <3> HIDE DEF use, row, x, mine, visit, t
    <3> QED BY <2>10, <3>2, <3>3 DEF Uses
  <2> HIDE DEF row, x, use, mine
  <2>13. /\ issued' \in Seq(Uses) /\ Len(issued') = Len(issued) /\ issued'[t] = use
         /\ \A u \in 1..Len(issued) : u # t => issued'[u] = issued[u] BY <2>4, <2>10, <2>12
  <2>14. /\ visits' \in [Visits -> VisitRecords] /\ visits'[v] = x
         /\ \A w \in Visits \ {v} : visits'[w] = visits[w] BY <1>1, <2>4, <2>9, VisitMoves
  <2>15. FederationTypeOK' BY <1>1, <1>2, <2>4, <2>5, <2>7, <2>13, <2>14 DEF FederationTypeOK
  <2>16. \A u \in 1..Len(issued) : issued'[u].browser = issued[u].browser /\ issued'[u].id = issued[u].id
    BY <2>10, <2>12, <2>13
  <2>17. TokensAreSound'
    <3>1. \A b \in states' : b = row \/ (b \in states /\ b.token # t)
      BY <1>1, <2>2, <2>5 DEF TokensAreSound
    <3>2. \A b \in states' : /\ b.token \in 1..Len(issued') /\ issued'[b.token].id = b.id
                             /\ b.spent = FALSE => issued'[b.token].uses = 0
      BY <1>1, <2>7, <2>10, <2>12, <2>13, <3>1 DEF TokensAreSound
    <3>3. \A b, c \in states' : b.token = c.token => b = c BY <1>1, <2>7, <3>1 DEF TokensAreSound
    <3>4. \A u \in 1..Len(issued') : issued'[u].uses <= 1 BY <1>1, <2>12, <2>13 DEF TokensAreSound
    <3>5. \A b \in Browsers : cookie'[b] # 0 =>
            cookie'[b] \in 1..Len(issued') /\ issued'[cookie'[b]].browser = b
      BY <1>1, <2>4, <2>13, <2>16 DEF TokensAreSound
    <3> QED BY <3>2, <3>3, <3>4, <3>5 DEF TokensAreSound
  <2>18. PeopleAreSound' BY <1>1, <1>2, PeopleRest DEF rows
  <2>19. Grows BY <1>1, <1>2, <2>13, <2>16 DEF Grows, FederationTypeOK
  <2>20. VisitIsSound(visits[v])' BY <1>2, <2>9, <2>10, <2>12, <2>13, <2>14 DEF VisitIsSound
  <2> QED BY <2>14, <2>15, <2>17, <2>18, <2>19, <2>20, VisitsKeep
<1> QED BY <1>3, <1>4

\* Whoever has an identity is signed in as the account it names.
LEMMA IdentityNames ==
  ASSUME FederationInv, NEW x, NEW who \in Subjects, x.browser \in Browsers, x.id \in Nat,
         x.id # 0, x.id < nextId, FindIdentity(x.id, who) # {}
  PROVE  LET y == SignIn(x, who, (CHOOSE i \in FindIdentity(x.id, who) : TRUE).user) IN
         y \in VisitRecords /\ VisitIsSound(y)
<1> DEFINE i == CHOOSE j \in FindIdentity(x.id, who) : TRUE
           y == [step |-> "session", browser |-> x.browser, id |-> x.id, subject |-> who,
                 user |-> i.user]
<1>1. i \in FindIdentity(x.id, who) OBVIOUS
<1>2. i \in identities /\ i.id = x.id /\ i.subject = who BY <1>1 DEF FindIdentity
<1>3. /\ i.user \in 1..Len(people) /\ people[i.user] = [id |-> x.id, subject |-> who]
  BY <1>2 DEF FederationInv, PeopleAreSound
<1>4. i.user \in Nat BY <1>2 DEF FederationInv, FederationTypeOK, Identities
<1> HIDE DEF i
<1>5. y \in VisitRecords /\ y.step = "session" /\ y.id = x.id /\ y.subject = who /\ y.user = i.user
  BY <1>4 DEF VisitRecords
<1>6. y = SignIn(x, who, i.user) BY DEF SignIn
<1> HIDE DEF y
<1>7. VisitIsSound(y) BY <1>3, <1>5 DEF VisitIsSound
<1> QED BY <1>5, <1>6, <1>7 DEF i

LEMMA UserinfoKeeps ==
  ASSUME NEW v \in Visits, NEW who \in Subjects
  PROVE  FederationInv /\ FetchUserinfo(v, who) => FederationInv'
<1> SUFFICES ASSUME FederationInv, FetchUserinfo(v, who) PROVE FederationInv' OBVIOUS
<1> DEFINE visit == visits[v]
           y == SignIn(visit, who, (CHOOSE i \in FindIdentity(visit.id, who) : TRUE).user)
           x == [step |-> "register", browser |-> visit.browser, id |-> visit.id, subject |-> who]
<1>1. /\ visit \in VisitRecords /\ visit.step = "exchange" /\ VisitIsSound(visit)
      /\ UNCHANGED <<rows, states, issued, cookie, people, signedIn>>
  BY DEF FederationTypeOK, FederationInv, FetchUserinfo, Waits
<1>2. visit.browser \in Browsers /\ visit.id \in Nat /\ visit.id # 0 /\ visit.id < nextId
  BY <1>1, VisitFields DEF VisitIsSound
<1>3. CASE FindIdentity(visit.id, who) # {}
  <2>1. visits' = [visits EXCEPT ![v] = y] BY <1>3 DEF FetchUserinfo, Goes
  <2>2. y \in VisitRecords /\ VisitIsSound(y) BY <1>2, <1>3, IdentityNames
  <2> HIDE DEF y
  <2> QED BY <1>1, <2>1, <2>2, VisitStepKeeps
<1>4. CASE FindIdentity(visit.id, who) = {}
  <2>1. visits' = [visits EXCEPT ![v] = x] BY <1>4 DEF FetchUserinfo, Goes
  <2>2. x \in VisitRecords /\ x.step = "register" /\ x.id = visit.id BY <1>2 DEF VisitRecords
  <2> HIDE DEF x
  <2>3. VisitIsSound(x) BY <1>2, <2>2 DEF VisitIsSound
  <2> QED BY <1>1, <2>1, <2>2, <2>3, VisitStepKeeps
<1> QED BY <1>3, <1>4

\* A registration is of somebody whom no account was made for while the provider is stored.
LEMMA RegisterKeeps ==
  ASSUME NEW v \in Visits
  PROVE  FederationInv /\ Register(v) => FederationInv'
<1> SUFFICES ASSUME FederationInv, Register(v) PROVE FederationInv' OBVIOUS
<1> DEFINE visit == visits[v]
           user == Len(people) + 1
           there == FindIdentity(visit.id, visit.subject)
           person == [id |-> visit.id, subject |-> visit.subject]
           identity == [id |-> visit.id, subject |-> visit.subject, user |-> user]
           x == SignIn(visit, visit.subject, user)
           y == SignIn(visit, visit.subject, (CHOOSE i \in there : TRUE).user)
<1>1. FederationTypeOK /\ TokensAreSound /\ PeopleAreSound BY DEF FederationInv
<1>2. /\ visit \in VisitRecords /\ visit.step = "register" /\ VisitIsSound(visit)
      /\ UNCHANGED <<providers, nextId, states, issued, signedIn>>
  BY <1>1 DEF FederationTypeOK, FederationInv, Register, Waits
<1>3. /\ visit.browser \in Browsers /\ visit.id \in Nat /\ visit.id # 0 /\ visit.id < nextId
      /\ visit.subject \in Subjects BY <1>2, VisitFields DEF VisitIsSound
<1>4. CASE there = {} /\ Stored(visit.id)
  <2>1. /\ people' = Append(people, person) /\ identities' = identities \cup {identity}
        /\ visits' = [visits EXCEPT ![v] = x] /\ cookie' = cookie
    BY <1>4 DEF Register, NewPerson, Goes
  <2>2. people \in Seq(Persons) /\ Len(people) \in Nat /\ user \in Nat /\ user > Len(people)
    BY <1>1 DEF FederationTypeOK
  <2>3. /\ person \in Persons /\ person.id = visit.id /\ person.subject = visit.subject
        /\ identity \in Identities /\ identity.id = visit.id /\ identity.subject = visit.subject
        /\ identity.user = user
        /\ x \in VisitRecords /\ x.step = "session" /\ x.id = visit.id
        /\ x.subject = visit.subject /\ x.user = user
    BY <1>3, <2>2 DEF Persons, Identities, VisitRecords, SignIn
  <2>4. /\ people' \in Seq(Persons) /\ Len(people') = user /\ people'[user] = person
        /\ \A p \in 1..Len(people) : people'[p] = people[p] BY <2>1, <2>2, <2>3
  <2>5. 1..Len(people') = 1..Len(people) \cup {user} BY <2>2, <2>4
  <2>6. \A p \in 1..Len(people) : people[p] # person
    <3> SUFFICES ASSUME NEW p \in 1..Len(people), people[p] = person PROVE FALSE OBVIOUS
    <3>1. people[p].id = visit.id /\ people[p].subject = visit.subject BY <2>3
    <3> QED BY <1>1, <1>4, <3>1 DEF PeopleAreSound
  <2>7. person = [id |-> visit.id, subject |-> visit.subject] OBVIOUS
  <2> HIDE DEF person, identity, x
  <2>8. /\ visits' \in [Visits -> VisitRecords] /\ visits'[v] = x
        /\ \A w \in Visits \ {v} : visits'[w] = visits[w] BY <1>1, <2>1, <2>3, VisitMoves
  <2>9. FederationTypeOK' BY <1>1, <1>2, <2>1, <2>3, <2>4, <2>8 DEF FederationTypeOK
  <2>10. TokensAreSound' BY <1>1, <1>2, <2>1, TokensRest
  <2>11. PeopleAreSound'
    <3>1. \A p \in 1..Len(people') : people'[p].id # 0 /\ people'[p].id < nextId
      BY <1>1, <1>3, <2>3, <2>4, <2>5 DEF PeopleAreSound
    <3>2. \A p \in 1..Len(people') :
            Stored(people'[p].id) => \E i \in identities' : i.id = people'[p].id
                                                            /\ i.subject = people'[p].subject
      <4> SUFFICES ASSUME NEW p \in 1..Len(people'), Stored(people'[p].id)
                   PROVE  \E i \in identities' : i.id = people'[p].id
                                                  /\ i.subject = people'[p].subject OBVIOUS
      <4>1. CASE p = user BY <2>1, <2>3, <2>4, <4>1
      <4>2. CASE p \in 1..Len(people)
        <5>1. FindIdentity(people[p].id, people[p].subject) # {}
          BY <1>1, <2>4, <4>2 DEF PeopleAreSound
        <5> QED BY <2>1, <2>4, <4>2, <5>1 DEF FindIdentity
      <4> QED BY <2>5, <4>1, <4>2
    <3>3. \A p, q \in 1..Len(people') : people'[p] = people'[q] => p = q
      BY <1>1, <2>4, <2>5, <2>6 DEF PeopleAreSound
    <3>4. \A i \in identities' \cup signedIn' :
            i.user \in 1..Len(people') /\ people'[i.user] = [id |-> i.id, subject |-> i.subject]
      <4> SUFFICES ASSUME NEW i \in identities' \cup signedIn'
                   PROVE  /\ i.user \in 1..Len(people')
                          /\ people'[i.user] = [id |-> i.id, subject |-> i.subject] OBVIOUS
      <4>1. CASE i = identity BY <2>3, <2>4, <2>5, <2>7, <4>1
      <4>2. CASE i \in identities \cup signedIn BY <1>1, <2>4, <2>5, <4>2 DEF PeopleAreSound
      <4> QED BY <1>2, <2>1, <4>1, <4>2
    <3>5. /\ \A s \in Slugs : providers'[s].id < nextId'
          /\ \A s, t \in Slugs : providers'[s].id # 0 /\ providers'[s].id = providers'[t].id => s = t
      BY <1>1, <1>2 DEF PeopleAreSound
    <3>6. \A p \in 1..Len(people') : Stored(people[p].id)' => FindIdentity(people[p].id, people[p].subject)' # {}
      BY <1>2, <3>2 DEF FindIdentity, Stored
    <3> QED BY <1>2, <3>1, <3>3, <3>4, <3>5, <3>6 DEF PeopleAreSound
  <2>12. Grows BY <1>1, <1>2, <2>2, <2>4 DEF Grows, FederationTypeOK
  <2>13. VisitIsSound(visits[v])' BY <1>2, <1>3, <2>3, <2>4, <2>5, <2>7, <2>8 DEF VisitIsSound
  <2> QED BY <2>8, <2>9, <2>10, <2>11, <2>12, <2>13, VisitsKeep
<1>5. CASE ~(there = {} /\ Stored(visit.id)) /\ there # {}
  <2>1. /\ visits' = [visits EXCEPT ![v] = y]
        /\ UNCHANGED <<rows, states, issued, cookie, people, signedIn>>
    BY <1>5 DEF Register, Losing, Goes, rows
  <2>2. y \in VisitRecords /\ VisitIsSound(y) BY <1>3, <1>5, IdentityNames
  <2> HIDE DEF y
  <2> QED BY <2>1, <2>2, VisitStepKeeps
<1>6. CASE ~(there = {} /\ Stored(visit.id)) /\ there = {}
  <2>1. Answer(v) /\ UNCHANGED <<rows, states, issued, people, signedIn>>
    BY <1>6 DEF Register, Losing, rows
  <2> QED BY <1>2, <2>1, AnswerKeeps
<1> QED BY <1>4, <1>5, <1>6

LEMMA SessionKeeps ==
  ASSUME NEW v \in Visits, NEW refused \in BOOLEAN
  PROVE  FederationInv /\ IssueSession(v, refused) => FederationInv'
<1> SUFFICES ASSUME FederationInv, IssueSession(v, refused) PROVE FederationInv' OBVIOUS
<1> DEFINE visit == visits[v]
           s == [user |-> visit.user, id |-> visit.id, subject |-> visit.subject]
<1>1. FederationTypeOK /\ TokensAreSound /\ PeopleAreSound BY DEF FederationInv
<1>2. /\ visit \in VisitRecords /\ visit.step = "session" /\ VisitIsSound(visit)
      /\ UNCHANGED <<rows, states, issued, people>> /\ Answer(v)
  BY <1>1 DEF FederationTypeOK, FederationInv, IssueSession, Waits
<1>3. CASE signedIn' = signedIn BY <1>2, <1>3, AnswerKeeps
<1>4. CASE signedIn' = signedIn \cup {s}
  <2>1. visit.browser \in Browsers /\ visit.id \in Nat /\ visit.subject \in Subjects /\ visit.user \in Nat
    BY <1>2, VisitFields
  <2>2. s \in Identities /\ s.user = visit.user /\ s.id = visit.id /\ s.subject = visit.subject
    BY <2>1 DEF Identities
  <2> HIDE DEF s
  <2>3. /\ visits' = [visits EXCEPT ![v] = NoVisit]
        /\ cookie' = [cookie EXCEPT ![visit.browser] = 0] BY <1>2 DEF Answer, Leaves
  <2>4. /\ visits' \in [Visits -> VisitRecords] /\ visits'[v] = NoVisit
        /\ \A w \in Visits \ {v} : visits'[w] = visits[w]
    BY <1>1, <2>3, NoVisitIsSound, VisitMoves
  <2>5. /\ cookie' \in [Browsers -> Nat]
        /\ \A b \in Browsers : cookie'[b] = 0 \/ cookie'[b] = cookie[b]
    BY <1>1, <2>3 DEF FederationTypeOK
  <2>6. FederationTypeOK' BY <1>1, <1>2, <1>4, <2>2, <2>4, <2>5 DEF FederationTypeOK, rows
  <2>7. TokensAreSound' BY <1>1, <1>2, <2>5 DEF TokensAreSound
  <2>8. s.user \in 1..Len(people) /\ people[s.user] = [id |-> s.id, subject |-> s.subject]
    BY <1>2, <2>2 DEF VisitIsSound
  <2>9. PeopleAreSound' BY <1>1, <1>2, <1>4, <2>8 DEF PeopleAreSound, rows, Stored, FindIdentity
  <2>10. Grows BY <1>1, <1>2 DEF Grows, FederationTypeOK, rows
  <2>11. VisitIsSound(visits[v])' BY <2>4, NoVisitIsSound DEF VisitIsSound
  <2> QED BY <2>4, <2>6, <2>7, <2>9, <2>10, <2>11, VisitsKeep
<1> QED BY <1>3, <1>4 DEF IssueSession

LEMMA FederationKeep == FederationInv /\ [FederationNext]_federation => FederationInv'
<1> SUFFICES ASSUME FederationInv, [FederationNext]_federation PROVE FederationInv' OBVIOUS
<1>1. CASE PostOAuthProvider \/ PatchOAuthProvider \/ DeleteProvider
  BY <1>1, CreateProviderKeeps, UpdateProviderKeeps, DeleteProviderKeeps
  DEF PostOAuthProvider, PatchOAuthProvider, DeleteProvider
<1>2. ASSUME NEW a \in states, AuthStateExpires(a) PROVE FederationInv' BY <1>2, ExpiryKeeps
<1>3. ASSUME NEW b \in Browsers, CookieMismatch(b) PROVE FederationInv'
  BY <1>3, CookieMismatchKeeps
<1>4. ASSUME NEW v \in Visits, NEW b \in Browsers, NEW s \in Slugs, PostOAuthState(v, b, s)
      PROVE  FederationInv' BY <1>4, PostStateKeeps
<1>5. ASSUME NEW v \in Visits, NEW b \in Browsers, NEW s \in Slugs, NEW t \in 1..Len(issued),
             GetOAuthCallback(v, b, s, t)
      PROVE  FederationInv' BY <1>5, CallbackKeeps
<1>6. ASSUME NEW v \in Visits, BeginLogin(v) \/ FindProvider(v) \/ ConsumeAuthState(v) \/ Register(v)
      PROVE  FederationInv'
  BY <1>6, BeginLoginKeeps, FindProviderKeeps, ConsumeKeeps, RegisterKeeps
<1>7. ASSUME NEW v \in Visits, ExchangeFails(v) PROVE FederationInv'
  BY <1>7, AnswerKeeps DEF ExchangeFails, Waits
<1>8. ASSUME NEW v \in Visits, NEW who \in Subjects, FetchUserinfo(v, who) PROVE FederationInv'
  BY <1>8, UserinfoKeeps
<1>9. ASSUME NEW v \in Visits, NEW refused \in BOOLEAN, IssueSession(v, refused)
      PROVE  FederationInv' BY <1>9, SessionKeeps
<1>10. CASE UNCHANGED federation
  <2>1. UNCHANGED <<providers, nextId, states, issued, cookie, identities, people, visits, signedIn>>
    BY <1>10 DEF federation
  <2>2. TokensAreSound' /\ PeopleAreSound' BY <2>1, TokensRest, PeopleRest DEF FederationInv, rows
  <2>3. FederationTypeOK' BY <2>1 DEF FederationInv, FederationTypeOK
  <2>4. Grows BY <2>1 DEF Grows, FederationInv, FederationTypeOK
  <2> QED BY <2>1, <2>2, <2>3, <2>4, VisitsKeep
<1> QED BY <1>1, <1>2, <1>3, <1>4, <1>5, <1>6, <1>7, <1>8, <1>9, <1>10 DEF FederationNext

\* In every behaviour tokens, accounts and visits are as their invariant says.
THEOREM FederationInvariance == FederationSpec => []FederationInv
<1> QED BY FederationStart, FederationKeep, PTL DEF FederationSpec

\* However callbacks are replayed and providers come and go, a login takes one exchange,
\* in the browser and for the row it began at, and a person has one account and is signed
\* in to no other (ConsumeAuthState, findOrCreateUser).
THEOREM LoginsSound == FederationSpec => []LoginsAreSound
<1>1. FederationInv => LoginsAreSound
  <2> SUFFICES ASSUME FederationInv PROVE LoginsAreSound OBVIOUS
  <2>1. StatesAreSpentOnce
    BY DEF FederationInv, TokensAreSound, VisitIsSound, StatesAreSpentOnce, Waits
  <2>2. OneAccountPerIdentity BY DEF FederationInv, PeopleAreSound, OneAccountPerIdentity
  <2> QED BY <2>1, <2>2 DEF LoginsAreSound
<1> QED BY <1>1, FederationInvariance, PTL
----------------------------------------
(* ApiKeys. *)

KeyRows == [exists : BOOLEAN, all : BOOLEAN, prompt : BOOLEAN, text : BOOLEAN,
            active : BOOLEAN, stamp : Nat]
Writing == [step : {"write"}, known : SUBSET Models, cas : BOOLEAN, expected : Nat, read : Nat]
Asked == [step : {"route", "admitted"}, model : Models, all : BOOLEAN, granted : BOOLEAN]

ApiKeysTypeOK ==
  /\ key \in KeyRows
  /\ allow \subseteq Models
  /\ models \subseteq Models
  /\ work \in [Edits -> {NoEdit} \cup Writing]
  /\ requests \in [Requests -> {NoEdit} \cup Asked]
  /\ revision \in Nat
  /\ emptied \in BOOLEAN

\* An edit is of a row there is; one that names an instant is of that instant's row.
EditsAreOfRows ==
  \A e \in Edits : work[e].step = "write" =>
      /\ key.exists = TRUE
      /\ work[e].cas => /\ work[e].expected <= key.stamp
                        /\ work[e].expected = key.stamp => work[e].read = revision

\* What a request holds or would find has been permitted since it came.
Vouched(q, k, list) ==
  /\ q.all = TRUE => q.granted = TRUE
  /\ Permits(k, list, q.model) => q.granted = TRUE
  /\ q.step = "admitted" => q.granted = TRUE

RequestsAreVouched ==
  \A r \in Requests : requests[r] # NoEdit => Vouched(requests[r], key, allow)

RowsBegin == key.exists = FALSE => key = NoKey

ApiKeysInv ==
  ApiKeysTypeOK /\ RowsBegin /\ EditsAreOfRows /\ RequestsAreVouched /\ KeysAreCoherent

LEMMA KeyFields ==
  ASSUME NEW k \in KeyRows
  PROVE  /\ k.exists \in BOOLEAN /\ k.all \in BOOLEAN /\ k.prompt \in BOOLEAN
         /\ k.text \in BOOLEAN /\ k.active \in BOOLEAN /\ k.stamp \in Nat
BY DEF KeyRows

\* A later stamp changes nothing else.
LEMMA Stamping ==
  ASSUME NEW k \in KeyRows, NEW n \in Nat
  PROVE  LET s == [k EXCEPT !.stamp = n] IN
         /\ s \in KeyRows /\ s.stamp = n
         /\ s.exists = k.exists /\ s.all = k.all /\ s.prompt = k.prompt /\ s.text = k.text
         /\ s.active = k.active
BY DEF KeyRows

\* Watching a change keeps every request vouched for.
LEMMA Watching ==
  ASSUME ApiKeysTypeOK, RequestsAreVouched, NEW k, NEW list
  PROVE  /\ Watched(k, list) \in [Requests -> {NoEdit} \cup Asked]
         /\ \A r \in Requests : Watched(k, list)[r] # NoEdit =>
              /\ requests[r] # NoEdit
              /\ Watched(k, list)[r].model = requests[r].model
              /\ Vouched(Watched(k, list)[r], k, list)
<1> SUFFICES ASSUME NEW r \in Requests
             PROVE  /\ Watched(k, list)[r] \in {NoEdit} \cup Asked
                    /\ Watched(k, list)[r] # NoEdit =>
                        /\ requests[r] # NoEdit
                        /\ Watched(k, list)[r].model = requests[r].model
                        /\ Vouched(Watched(k, list)[r], k, list)
  <2>1. Watched(k, list) = [r \in Requests |-> Watched(k, list)[r]] BY DEF Watched
  <2> QED BY <2>1
<1>1. CASE requests[r] = NoEdit
  <2>1. requests[r].step = "none" BY <1>1 DEF NoEdit
  <2>2. Watched(k, list)[r] = NoEdit BY <2>1 DEF Watched
  <2> QED BY <2>2
<1>2. CASE requests[r] # NoEdit
  <2> DEFINE q == requests[r]
             g == q.granted \/ Permits(k, list, q.model)
             p == [q EXCEPT !.granted = g]
  <2>1. q \in Asked BY <1>2 DEF ApiKeysTypeOK
  <2>2. q.step # "none" BY <2>1 DEF Asked
  <2>3. Watched(k, list)[r] = p BY <2>2 DEF Watched
  <2>4. g \in BOOLEAN BY <2>1 DEF Permits, Asked
  <2>5. Vouched(q, key, allow) BY <1>2 DEF RequestsAreVouched
  <2>6. g = TRUE \/ (g = FALSE /\ ~q.granted /\ ~Permits(k, list, q.model)) BY <2>4
  <2> HIDE DEF g
  <2>7. p \in Asked /\ p.granted = g /\ p.model = q.model /\ p.all = q.all /\ p.step = q.step
    BY <2>1, <2>4 DEF Asked
  <2>8. Vouched(p, k, list) BY <2>5, <2>6, <2>7 DEF Vouched, Permits
  <2> QED BY <1>2, <2>3, <2>7, <2>8
<1> QED BY <1>1, <1>2

LEMMA ApiKeysStart == ApiKeysInit => ApiKeysInv
<1> SUFFICES ASSUME ApiKeysInit PROVE ApiKeysInv OBVIOUS
<1> USE DEF ApiKeysInit
<1>1. key \in KeyRows /\ key.exists = FALSE /\ key.all = FALSE /\ key.prompt = FALSE
  BY DEF NoKey, KeyRows
<1>2. ApiKeysTypeOK BY <1>1 DEF ApiKeysTypeOK
<1>3. EditsAreOfRows BY DEF EditsAreOfRows, NoEdit
<1>4. RequestsAreVouched BY DEF RequestsAreVouched
<1>5. KeysAreCoherent BY <1>1 DEF KeysAreCoherent, validateCSPInvariants
<1> QED BY <1>2, <1>3, <1>4, <1>5 DEF ApiKeysInv, RowsBegin

\* Storing a row and a list keeps the requests vouched for and moves the stamp on.
LEMMA Storing ==
  ASSUME ApiKeysInv, NEW k \in KeyRows, NEW list \in SUBSET Models, Store(k, list),
         k.stamp = key.stamp
  PROVE  /\ key' \in KeyRows /\ key'.stamp = key.stamp + 1
         /\ key'.exists = k.exists /\ key'.all = k.all /\ key'.prompt = k.prompt
         /\ key'.text = k.text
         /\ allow' = list /\ RequestsAreVouched'
         /\ requests' \in [Requests -> {NoEdit} \cup Asked]
<1>1. k.stamp \in Nat /\ k.stamp + 1 \in Nat BY KeyFields
<1>2. key' = [k EXCEPT !.stamp = k.stamp + 1] BY DEF Store
<1>3. /\ key' \in KeyRows /\ key'.stamp = key.stamp + 1
      /\ key'.exists = k.exists /\ key'.all = k.all /\ key'.prompt = k.prompt
      /\ key'.text = k.text
  <2>1. LET s == [k EXCEPT !.stamp = k.stamp + 1] IN
        /\ s \in KeyRows /\ s.stamp = k.stamp + 1
        /\ s.exists = k.exists /\ s.all = k.all /\ s.prompt = k.prompt /\ s.text = k.text
    BY <1>1, Stamping
  <2> QED BY <1>2, <2>1
<1>4. allow' = list /\ requests' = Watched(k, list) BY DEF Store
<1>5. /\ requests' \in [Requests -> {NoEdit} \cup Asked]
      /\ \A r \in Requests : requests'[r] # NoEdit => Vouched(requests'[r], k, list)
  BY <1>4, Watching DEF ApiKeysInv
<1>6. RequestsAreVouched' BY <1>3, <1>4, <1>5 DEF RequestsAreVouched, Vouched, Permits
<1> QED BY <1>3, <1>4, <1>5, <1>6

\* Edits under way are no longer of the newest row once its stamp has moved on.
LEMMA EditsFallBehind ==
  ASSUME ApiKeysInv, UNCHANGED work, key'.stamp = key.stamp + 1, key'.exists = TRUE
  PROVE  EditsAreOfRows'
<1>1. \A e \in Edits : work[e].step = "write" => work[e].expected \in Nat
  BY DEF ApiKeysInv, ApiKeysTypeOK, NoEdit, Writing
<1>2. key.stamp \in Nat BY KeyFields DEF ApiKeysInv, ApiKeysTypeOK
<1> QED BY <1>1, <1>2 DEF ApiKeysInv, EditsAreOfRows

LEMMA CreateKeeps ==
  ASSUME NEW all \in BOOLEAN, NEW ids \in SUBSET Models, NEW prompt \in BOOLEAN,
         NEW text \in BOOLEAN
  PROVE  ApiKeysInv /\ CreateAPIKey(all, ids, prompt, text) => ApiKeysInv'
<1> SUFFICES ASSUME ApiKeysInv, CreateAPIKey(all, ids, prompt, text) PROVE ApiKeysInv' OBVIOUS
<1> DEFINE k == [exists |-> TRUE, all |-> all, prompt |-> prompt, text |-> text,
                 active |-> TRUE, stamp |-> 0]
           list == IF all THEN {} ELSE ids
<1>1. k \in KeyRows /\ k.stamp = 0 /\ k.exists = TRUE /\ k.all = all /\ k.prompt = prompt
      /\ k.text = text BY DEF KeyRows
<1>2. /\ Store(k, list) /\ key.exists = FALSE
      /\ all \/ ids # {}
      /\ validateCSPInvariants(k)
      /\ revision' = revision + 1 /\ UNCHANGED <<models, work, emptied>>
  BY KeyFields DEF CreateAPIKey, ApiKeysInv, ApiKeysTypeOK
<1>3. list \in SUBSET Models /\ (all = TRUE => list = {}) /\ (all = FALSE => list = ids) OBVIOUS
<1> HIDE DEF k, list
<1>4. key.stamp = 0 BY <1>2 DEF ApiKeysInv, RowsBegin, NoKey
<1>5. /\ key' \in KeyRows /\ key'.stamp = key.stamp + 1 /\ key'.exists = TRUE
      /\ key'.all = all /\ key'.prompt = prompt /\ key'.text = text
      /\ allow' = list /\ RequestsAreVouched'
      /\ requests' \in [Requests -> {NoEdit} \cup Asked] BY <1>1, <1>2, <1>3, <1>4, Storing
<1>6. ApiKeysTypeOK' BY <1>2, <1>3, <1>5 DEF ApiKeysInv, ApiKeysTypeOK
<1>7. EditsAreOfRows' BY <1>2, <1>5, EditsFallBehind
<1>8. KeysAreCoherent' BY <1>1, <1>2, <1>3, <1>5 DEF KeysAreCoherent, validateCSPInvariants
<1>9. RowsBegin' BY <1>5 DEF RowsBegin
<1> QED BY <1>5, <1>6, <1>7, <1>8, <1>9 DEF ApiKeysInv

LEMMA PatchKeeps ==
  ASSUME NEW e \in Edits, NEW cas \in BOOLEAN
  PROVE  ApiKeysInv /\ PatchAPIKey(e, cas) => ApiKeysInv'
<1> SUFFICES ASSUME ApiKeysInv, PatchAPIKey(e, cas) PROVE ApiKeysInv' OBVIOUS
<1> DEFINE w == [step |-> "write", known |-> models, cas |-> cas,
                 expected |-> IF cas THEN key.stamp ELSE 0,
                 read |-> IF cas THEN revision ELSE 0]
<1>1. key.stamp \in Nat /\ key.exists = TRUE /\ revision \in Nat /\ models \in SUBSET Models
  BY KeyFields DEF ApiKeysInv, ApiKeysTypeOK, PatchAPIKey
<1>2. w \in Writing BY <1>1 DEF Writing
<1>3. w.cas => w.expected = key.stamp /\ w.read = revision OBVIOUS
<1>4. /\ work' = [work EXCEPT ![e] = w]
      /\ UNCHANGED <<key, allow, models, requests, revision, emptied>> BY DEF PatchAPIKey
<1> HIDE DEF w
<1>5. /\ work' \in [Edits -> {NoEdit} \cup Writing] /\ work'[e] = w
      /\ \A f \in Edits \ {e} : work'[f] = work[f] BY <1>2, <1>4 DEF ApiKeysInv, ApiKeysTypeOK
<1>6. ApiKeysTypeOK' BY <1>4, <1>5 DEF ApiKeysInv, ApiKeysTypeOK
<1>7. EditsAreOfRows' BY <1>1, <1>3, <1>4, <1>5 DEF ApiKeysInv, EditsAreOfRows
<1>8. RequestsAreVouched' /\ KeysAreCoherent' /\ RowsBegin'
  BY <1>4 DEF ApiKeysInv, RequestsAreVouched, Vouched, Permits, KeysAreCoherent,
              validateCSPInvariants, RowsBegin
<1> QED BY <1>6, <1>7, <1>8 DEF ApiKeysInv

\* What a patch makes of a row: the flag it asks for, or the one it had.
LEMMA Patching ==
  ASSUME NEW k \in KeyRows, NEW patch \in Patches
  PROVE  LET p == Patched(k, Wanted(patch)) IN
         /\ p \in KeyRows /\ p.exists = k.exists /\ p.stamp = k.stamp
         /\ p.all = TRUE => k.all = TRUE \/ patch.all = "all"
         /\ p.all = FALSE => Wanted(patch) = patch /\ (k.all = FALSE \/ patch.all = "custom")
<1> DEFINE want == Wanted(patch)
           a == IF want.all = "keep" THEN k.all ELSE want.all = "all"
           q == want.prompt = "on" \/ (k.prompt /\ want.prompt # "off")
           t == k.text /\ want.prompt # "blank"
           p == [k EXCEPT !.all = a, !.prompt = q, !.text = t]
<1>1. /\ patch.all \in {"keep", "all", "custom"}
      /\ patch.list \in BOOLEAN /\ patch.ids \in SUBSET Models
      /\ patch.prompt \in {"keep", "on", "off", "blank"}
      /\ patch \in [all : {"keep", "all", "custom"}, list : BOOLEAN, ids : SUBSET Models,
                    prompt : {"keep", "on", "off", "blank"}] BY DEF Patches
<1>2. want.all = patch.all /\ (patch.all # "all" => want = patch) BY <1>1 DEF Wanted
<1>3. p = Patched(k, want) BY DEF Patched
<1>4. /\ k.all \in BOOLEAN /\ k.prompt \in BOOLEAN /\ k.text \in BOOLEAN BY KeyFields
<1>5. a \in BOOLEAN /\ q \in BOOLEAN /\ t \in BOOLEAN BY <1>4
<1>6. /\ a = TRUE => k.all = TRUE \/ patch.all = "all"
      /\ a = FALSE => want = patch /\ (k.all = FALSE \/ patch.all = "custom") BY <1>1, <1>2, <1>4
<1> HIDE DEF a, q, t, want
<1>7. p \in KeyRows /\ p.exists = k.exists /\ p.stamp = k.stamp /\ p.all = a BY <1>5 DEF KeyRows
<1> HIDE DEF p
<1> QED BY <1>3, <1>6, <1>7 DEF want

\* The three rules of an edit hold of the row and the list it leaves.
LEMMA UpdateKeeps ==
  ASSUME NEW e \in Edits, NEW asked \in Patches
  PROVE  ApiKeysInv /\ UpdateAPIKey(e, asked) => ApiKeysInv'
<1> SUFFICES ASSUME ApiKeysInv, UpdateAPIKey(e, asked) PROVE ApiKeysInv' OBVIOUS
<1> DEFINE patch == Wanted(asked)
           k == Patched(key, patch)
<1>1. key \in KeyRows /\ key.stamp \in Nat BY KeyFields DEF ApiKeysInv, ApiKeysTypeOK
<1>2. /\ k \in KeyRows /\ k.exists = key.exists /\ k.stamp = key.stamp
      /\ k.all = FALSE => patch = asked /\ (key.all = FALSE \/ asked.all = "custom")
  BY <1>1, Patching
<1>3. /\ work' = [work EXCEPT ![e] = NoEdit] /\ work[e].step = "write"
      /\ models' = models
      /\ \/ /\ Acceptable(k, patch) /\ validateCSPInvariants(k)
            /\ key' = Written(k, patch)
            /\ allow' = Reconciled(k, patch)
            /\ requests' = Watched(k, allow')
            /\ revision' = revision + 1
            /\ emptied' = (emptied /\ allow' = {})
         \/ UNCHANGED <<key, allow, requests, revision, emptied>> BY DEF UpdateAPIKey, Done
<1>4. patch.ids \in SUBSET Models BY DEF Wanted, Patches
<1> HIDE DEF k, patch
<1>5. /\ work' \in [Edits -> {NoEdit} \cup Writing] /\ work'[e] = NoEdit
      /\ \A f \in Edits \ {e} : work'[f] = work[f] BY <1>3 DEF ApiKeysInv, ApiKeysTypeOK
<1>6. NoEdit.step = "none" BY DEF NoEdit
<1>7. CASE UNCHANGED <<key, allow, requests, revision, emptied>>
  <2>1. ApiKeysTypeOK' BY <1>3, <1>5, <1>7 DEF ApiKeysInv, ApiKeysTypeOK
  <2>2. EditsAreOfRows' BY <1>5, <1>6, <1>7 DEF ApiKeysInv, EditsAreOfRows
  <2>3. RequestsAreVouched' /\ KeysAreCoherent' /\ RowsBegin'
    BY <1>7 DEF ApiKeysInv, RequestsAreVouched, Vouched, Permits, KeysAreCoherent,
                validateCSPInvariants, RowsBegin
  <2> QED BY <2>1, <2>2, <2>3 DEF ApiKeysInv
<1>8. CASE /\ Acceptable(k, patch) /\ validateCSPInvariants(k)
           /\ key' = Written(k, patch)
           /\ allow' = Reconciled(k, patch)
           /\ requests' = Watched(k, allow')
           /\ revision' = revision + 1
           /\ emptied' = (emptied /\ allow' = {})
  <2>1. key' = [k EXCEPT !.stamp = key.stamp + 1] BY <1>2, <1>8 DEF Written
  <2>2. /\ key' \in KeyRows /\ key'.stamp = key.stamp + 1 /\ key'.exists = key.exists
        /\ key'.all = k.all /\ key'.prompt = k.prompt /\ key'.text = k.text
    BY <1>1, <1>2, <2>1, Stamping
  <2>3. key.exists = TRUE BY <1>3 DEF ApiKeysInv, EditsAreOfRows
  <2>4. allow' \in SUBSET Models BY <1>4, <1>8 DEF Reconciled, ApiKeysInv, ApiKeysTypeOK
  <2>5. /\ requests' \in [Requests -> {NoEdit} \cup Asked]
        /\ \A r \in Requests : requests'[r] # NoEdit => Vouched(requests'[r], k, allow')
    BY <1>8, Watching DEF ApiKeysInv
  <2>6. RequestsAreVouched' BY <2>2, <2>5 DEF RequestsAreVouched, Vouched, Permits
  <2>7. emptied' \in BOOLEAN BY <1>8
  <2>8. ApiKeysTypeOK' BY <1>3, <1>5, <1>8, <2>2, <2>4, <2>5, <2>7 DEF ApiKeysInv, ApiKeysTypeOK
  <2>9. EditsAreOfRows'
    <3>1. \A f \in Edits : work[f].step = "write" => work[f].expected \in Nat
      BY DEF ApiKeysInv, ApiKeysTypeOK, NoEdit, Writing
    <3> QED BY <1>1, <1>5, <1>6, <2>2, <2>3, <3>1 DEF ApiKeysInv, EditsAreOfRows
  <2>10. k.all \in BOOLEAN /\ key.all \in BOOLEAN BY <1>1, <1>2, KeyFields
  <2>11. KeysAreCoherent'
    <3>1. CASE k.all = TRUE
      <4>1. allow' = {} BY <1>8, <3>1 DEF Reconciled
      <4> QED BY <1>8, <2>2, <3>1, <4>1 DEF KeysAreCoherent, validateCSPInvariants
    <3>2. CASE k.all = FALSE
      <4>1. allow' = {} => ~patch.list /\ allow = {} BY <1>8, <3>2 DEF Reconciled, Acceptable
      <4>2. ~patch.list /\ allow = {} => key.all = FALSE BY <1>2, <1>8, <3>2 DEF Acceptable
      <4>3. allow' = {} => emptied BY <2>3, <4>1, <4>2 DEF ApiKeysInv, KeysAreCoherent
      <4> QED BY <1>8, <2>2, <3>2, <4>3 DEF KeysAreCoherent, validateCSPInvariants
    <3> QED BY <2>10, <3>1, <3>2
  <2>12. RowsBegin' BY <2>2, <2>3 DEF RowsBegin
  <2> QED BY <2>6, <2>8, <2>9, <2>11, <2>12 DEF ApiKeysInv
<1> QED BY <1>3, <1>7, <1>8

LEMMA RevokeKeeps == ApiKeysInv /\ RevokeAPIKey => ApiKeysInv'
<1> SUFFICES ASSUME ApiKeysInv, RevokeAPIKey PROVE ApiKeysInv' OBVIOUS
<1> DEFINE k == [key EXCEPT !.active = FALSE]
<1>1. key \in KeyRows BY DEF ApiKeysInv, ApiKeysTypeOK
<1>2. /\ k \in KeyRows /\ k.stamp = key.stamp /\ k.exists = key.exists /\ k.all = key.all
      /\ k.prompt = key.prompt /\ k.text = key.text BY <1>1 DEF KeyRows
<1>3. Store(k, allow) /\ revision' = revision + 1 /\ UNCHANGED <<models, work, emptied>>
  BY DEF RevokeAPIKey
<1>4. key.exists = TRUE
  <2>1. key.active BY DEF RevokeAPIKey
  <2>2. NoKey.active = FALSE BY DEF NoKey
  <2> QED BY <1>1, <2>1, <2>2, KeyFields DEF ApiKeysInv, RowsBegin
<1> HIDE DEF k
<1>5. allow \in SUBSET Models BY DEF ApiKeysInv, ApiKeysTypeOK
<1>6. /\ key' \in KeyRows /\ key'.stamp = key.stamp + 1 /\ key'.exists = TRUE
      /\ key'.all = key.all /\ key'.prompt = key.prompt /\ key'.text = key.text
      /\ allow' = allow /\ RequestsAreVouched'
      /\ requests' \in [Requests -> {NoEdit} \cup Asked] BY <1>2, <1>3, <1>4, <1>5, Storing
<1>7. ApiKeysTypeOK' BY <1>3, <1>6 DEF ApiKeysInv, ApiKeysTypeOK
<1>8. EditsAreOfRows' BY <1>3, <1>6, EditsFallBehind
<1>9. KeysAreCoherent' BY <1>3, <1>4, <1>6 DEF ApiKeysInv, KeysAreCoherent, validateCSPInvariants
<1> QED BY <1>6, <1>7, <1>8, <1>9 DEF ApiKeysInv, RowsBegin

LEMMA ChargeKeeps == ApiKeysInv /\ ChargeVideo => ApiKeysInv'
<1> SUFFICES ASSUME ApiKeysInv, ChargeVideo PROVE ApiKeysInv' OBVIOUS
<1>1. key \in KeyRows /\ key.exists = TRUE BY KeyFields DEF ApiKeysInv, ApiKeysTypeOK, ChargeVideo
<1>2. Store(key, allow) /\ UNCHANGED <<models, work, revision, emptied>> BY DEF ChargeVideo
<1>3. allow \in SUBSET Models BY DEF ApiKeysInv, ApiKeysTypeOK
<1>4. /\ key' \in KeyRows /\ key'.stamp = key.stamp + 1 /\ key'.exists = TRUE
      /\ key'.all = key.all /\ key'.prompt = key.prompt /\ key'.text = key.text
      /\ allow' = allow /\ RequestsAreVouched'
      /\ requests' \in [Requests -> {NoEdit} \cup Asked] BY <1>1, <1>2, <1>3, Storing
<1>5. ApiKeysTypeOK' BY <1>2, <1>4 DEF ApiKeysInv, ApiKeysTypeOK
<1>6. EditsAreOfRows' BY <1>2, <1>4, EditsFallBehind
<1>7. KeysAreCoherent' BY <1>1, <1>2, <1>4 DEF ApiKeysInv, KeysAreCoherent, validateCSPInvariants
<1> QED BY <1>4, <1>5, <1>6, <1>7 DEF ApiKeysInv, RowsBegin

LEMMA DeleteKeeps ==
  ASSUME NEW m \in Models
  PROVE  ApiKeysInv /\ DeleteModel(m) => ApiKeysInv'
<1> SUFFICES ASSUME ApiKeysInv, DeleteModel(m) PROVE ApiKeysInv' OBVIOUS
<1>1. /\ models' = models \ {m} /\ allow' = allow \ {m}
      /\ emptied' = (emptied \/ allow = {m})
      /\ requests' = Watched(key, allow') /\ UNCHANGED <<key, work, revision>> BY DEF DeleteModel
<1>2. /\ requests' \in [Requests -> {NoEdit} \cup Asked]
      /\ \A r \in Requests : requests'[r] # NoEdit => Vouched(requests'[r], key, allow')
  BY <1>1, Watching DEF ApiKeysInv
<1>3. emptied' \in BOOLEAN BY <1>1
<1>4. ApiKeysTypeOK' BY <1>1, <1>2, <1>3 DEF ApiKeysInv, ApiKeysTypeOK
<1>5. RequestsAreVouched' BY <1>1, <1>2 DEF RequestsAreVouched
<1>6. EditsAreOfRows' /\ RowsBegin' BY <1>1 DEF ApiKeysInv, EditsAreOfRows, RowsBegin
<1>7. KeysAreCoherent'
  <2>1. allow' = {} => allow = {} \/ allow = {m} BY <1>1
  <2>2. allow = {} => allow' = {} BY <1>1
  <2> QED BY <1>1, <2>1, <2>2 DEF ApiKeysInv, KeysAreCoherent, validateCSPInvariants
<1> QED BY <1>4, <1>5, <1>6, <1>7 DEF ApiKeysInv

\* A step of one request alone, whose place stays vouched for.
LEMMA RequestKeeps ==
  ASSUME ApiKeysInv, NEW r \in Requests, NEW q \in {NoEdit} \cup Asked,
         requests' = [requests EXCEPT ![r] = q], q # NoEdit => Vouched(q, key, allow),
         UNCHANGED <<key, allow, models, work, revision, emptied>>
  PROVE  ApiKeysInv'
<1>1. /\ requests' \in [Requests -> {NoEdit} \cup Asked] /\ requests'[r] = q
      /\ \A s \in Requests \ {r} : requests'[s] = requests[s] BY DEF ApiKeysInv, ApiKeysTypeOK
<1>2. ApiKeysTypeOK' BY <1>1 DEF ApiKeysInv, ApiKeysTypeOK
<1>3. RequestsAreVouched' BY <1>1 DEF ApiKeysInv, RequestsAreVouched
<1>4. EditsAreOfRows' /\ RowsBegin' /\ KeysAreCoherent'
  BY DEF ApiKeysInv, EditsAreOfRows, RowsBegin, KeysAreCoherent, validateCSPInvariants
<1> QED BY <1>2, <1>3, <1>4 DEF ApiKeysInv

LEMMA AuthKeeps ==
  ASSUME NEW r \in Requests, NEW m \in Models
  PROVE  ApiKeysInv /\ APIKeyAuth(r, m) => ApiKeysInv'
<1> SUFFICES ASSUME ApiKeysInv, APIKeyAuth(r, m) PROVE ApiKeysInv' OBVIOUS
<1> DEFINE g == Permits(key, allow, m)
           q == [step |-> "route", model |-> m, all |-> key.all, granted |-> g]
<1>1. key.all \in BOOLEAN BY KeyFields DEF ApiKeysInv, ApiKeysTypeOK
<1>2. g \in BOOLEAN /\ (key.all = TRUE => g = TRUE) BY <1>1 DEF Permits
<1>3. /\ requests' = [requests EXCEPT ![r] = q]
      /\ UNCHANGED <<key, allow, models, work, revision, emptied>> BY DEF APIKeyAuth
<1>4. Permits(key, allow, m) => g = TRUE BY <1>2
<1> HIDE DEF g
<1>5. q \in Asked /\ q.step = "route" /\ q.model = m /\ q.all = key.all /\ q.granted = g
  BY <1>1, <1>2 DEF Asked
<1>6. Vouched(q, key, allow) BY <1>2, <1>4, <1>5 DEF Vouched
<1> HIDE DEF q
<1> QED BY <1>3, <1>5, <1>6, RequestKeeps

LEMMA AdmitKeeps ==
  ASSUME NEW r \in Requests
  PROVE  ApiKeysInv /\ Admit(r) => ApiKeysInv'
<1> SUFFICES ASSUME ApiKeysInv, Admit(r) PROVE ApiKeysInv' OBVIOUS
<1> DEFINE q == requests[r]
           p == [q EXCEPT !.step = "admitted"]
<1>1. q.step = "route" /\ q # NoEdit BY DEF Admit, NoEdit
<1>2. q \in Asked BY <1>1 DEF ApiKeysInv, ApiKeysTypeOK
<1>3. Vouched(q, key, allow) BY <1>1 DEF ApiKeysInv, RequestsAreVouched
<1>4. p \in Asked /\ p.all = q.all /\ p.model = q.model /\ p.granted = q.granted BY <1>2 DEF Asked
<1>5. q.all \in BOOLEAN BY <1>2 DEF Asked
<1>6. UNCHANGED <<key, allow, models, work, revision, emptied>> BY DEF Admit
<1>7. CASE q.model \in models /\ (q.all \/ HasAPIKeyModelAccess(q.model))
  <2>1. requests' = [requests EXCEPT ![r] = p] BY <1>7 DEF Admit
  <2>2. q.granted = TRUE BY <1>3, <1>5, <1>7 DEF Vouched, HasAPIKeyModelAccess, Permits
  <2> HIDE DEF p
  <2>3. Vouched(p, key, allow) BY <1>3, <1>4, <2>2 DEF Vouched
  <2> QED BY <1>4, <1>6, <2>1, <2>3, RequestKeeps
<1>8. CASE ~(q.model \in models /\ (q.all \/ HasAPIKeyModelAccess(q.model)))
  <2>1. requests' = [requests EXCEPT ![r] = NoEdit] BY <1>8 DEF Admit
  <2> QED BY <1>6, <2>1, RequestKeeps
<1> QED BY <1>7, <1>8

LEMMA ApiKeysKeep == ApiKeysInv /\ [ApiKeysNext]_apikeys => ApiKeysInv'
<1> SUFFICES ASSUME ApiKeysInv, [ApiKeysNext]_apikeys PROVE ApiKeysInv' OBVIOUS
<1>1. CASE PostAPIKey BY <1>1, CreateKeeps DEF PostAPIKey
<1>2. ASSUME NEW e \in Edits, NEW cas \in BOOLEAN, PatchAPIKey(e, cas) PROVE ApiKeysInv'
  BY <1>2, PatchKeeps
<1>3. ASSUME NEW e \in Edits, NEW patch \in Patches, UpdateAPIKey(e, patch) PROVE ApiKeysInv'
  BY <1>3, UpdateKeeps
<1>4. CASE RevokeAPIKey \/ ChargeVideo BY <1>4, RevokeKeeps, ChargeKeeps
<1>5. ASSUME NEW m \in Models, DeleteModel(m) PROVE ApiKeysInv' BY <1>5, DeleteKeeps
<1>6. ASSUME NEW r \in Requests, NEW m \in Models, APIKeyAuth(r, m) PROVE ApiKeysInv'
  BY <1>6, AuthKeeps
<1>7. ASSUME NEW r \in Requests, Admit(r) PROVE ApiKeysInv' BY <1>7, AdmitKeeps
<1>8. ASSUME NEW r \in Requests, Finish(r) PROVE ApiKeysInv'
  <2>1. /\ requests' = [requests EXCEPT ![r] = NoEdit]
        /\ UNCHANGED <<key, allow, models, work, revision, emptied>> BY <1>8 DEF Finish
  <2> QED BY <2>1, RequestKeeps
<1>9. CASE UNCHANGED apikeys
  BY <1>9 DEF apikeys, ApiKeysInv, ApiKeysTypeOK, EditsAreOfRows, RequestsAreVouched, Vouched,
              Permits, KeysAreCoherent, validateCSPInvariants, RowsBegin
<1> QED BY <1>1, <1>2, <1>3, <1>4, <1>5, <1>6, <1>7, <1>8, <1>9 DEF ApiKeysNext

\* In every behaviour a key is as its invariant says.
THEOREM ApiKeysInvariance == ApiKeysSpec => []ApiKeysInv
<1> QED BY ApiKeysStart, ApiKeysKeep, PTL DEF ApiKeysSpec

\* However edits, deletions and charges interleave, a key is coherent, and no request is
\* admitted to a model the key never permitted since it came (UpdateAPIKey's three
\* invariants; APIKeyAuth and the relay's allowlist step).
THEOREM KeysKept == ApiKeysSpec => []KeysAreKept
<1>1. ApiKeysInv => KeysAreKept
  <2> SUFFICES ASSUME ApiKeysInv, NEW r \in Requests, requests[r].step = "admitted"
               PROVE  requests[r].granted BY DEF ApiKeysInv, KeysAreKept, AccessWasGranted
  <2>1. requests[r] # NoEdit BY DEF NoEdit
  <2> QED BY <2>1 DEF ApiKeysInv, RequestsAreVouched, Vouched
<1> QED BY <1>1, ApiKeysInvariance, PTL

\* An edit that names the row it was made for replaces that row and no later one
\* (UpdateAPIKey's expectedUpdatedAt): the charges that move the row's instant make it
\* conflict, never succeed.
THEOREM EditsReplace == ApiKeysSpec => EditsReplaceWhatTheyRead
<1> DEFINE A == \A e \in Edits :
                    work[e].step = "write" /\ work[e].cas /\ work'[e] = NoEdit
                            /\ revision' # revision
                        => work[e].read = revision
<1>1. ApiKeysInv /\ [ApiKeysNext]_apikeys => A
  <2> SUFFICES ASSUME ApiKeysInv, [ApiKeysNext]_apikeys, NEW e \in Edits,
                      work[e].step = "write", work[e].cas, work'[e] = NoEdit,
                      revision' # revision
               PROVE  work[e].read = revision OBVIOUS
  <2>1. work'[e] # work[e] BY DEF NoEdit
  <2>2. \/ \E f \in Edits, patch \in Patches : UpdateAPIKey(f, patch)
        \/ \E f \in Edits, cas \in BOOLEAN : PatchAPIKey(f, cas)
    BY <2>1 DEF ApiKeysNext, apikeys, PostAPIKey, CreateAPIKey, RevokeAPIKey, ChargeVideo,
                DeleteModel, APIKeyAuth, Admit, Finish
  <2>3. ~ \E f \in Edits, cas \in BOOLEAN : PatchAPIKey(f, cas) BY DEF PatchAPIKey
  <2>4. PICK f \in Edits, patch \in Patches : UpdateAPIKey(f, patch) BY <2>2, <2>3
  <2>5. f = e BY <2>1, <2>4 DEF UpdateAPIKey, Done, ApiKeysInv, ApiKeysTypeOK
  <2>6. ~Conflict(e) BY <2>4, <2>5 DEF UpdateAPIKey
  <2> QED BY <2>6 DEF Conflict, ApiKeysInv, EditsAreOfRows
<1>2. ApiKeysSpec => [][A]_apikeys BY <1>1, ApiKeysInvariance, PTL DEF ApiKeysSpec
<1> QED BY <1>2 DEF EditsReplaceWhatTheyRead
----------------------------------------
(* Settings. *)

FamilyNames == {"custom_system_prompt", "input_compression", "vision_fallback", "key_auto_recovery",
          "request_log_retention", "admin_audit_retention", "outbound_proxy",
          "capability_enforcement"}

LookupRecords ==
  {NoLookup} \cup [step : {"cold", "waiting", "failed"}, floor : Nat]
             \cup [step : {"zero"}]
             \cup [step : {"served"}, held : BOOLEAN, current : BOOLEAN]

\* A version that the rows have reached.
Past(v) == v \in 0..MaxVersion /\ \A row \in Rows : v <= stored[row].version

\* The rows are of one version.
AllAt(v) == \A row \in Rows : stored[row].version = v

\* An entry has these fields and no others.
EntryShape(e) ==
  e = [has |-> e.has, value |-> e.value, version |-> e.version, fresh |-> e.fresh,
       failing |-> e.failing]

SettingsTypeOK ==
  /\ family \in FamilyNames
  /\ \A row \in Rows : stored[row].version \in 0..MaxVersion
  /\ \A row \in Rows : stored[row].version = 0 => stored[row] = Absent
  /\ chronicle = [v \in 0..MaxVersion |-> chronicle[v]]
  /\ lookups \in [Lookups -> LookupRecords]
  /\ puts = [p \in Puts |-> puts[p]]
  /\ EntryShape(entry)

\* The history agrees with the rows, and with the defaults before there were any.
ChronicleIsHeld ==
  /\ chronicle[0] = DefaultSetting
  /\ \A v \in 1..MaxVersion : AllAt(v) => chronicle[v] = HeldNow

\* What is cached, read or about to be reported is of a version the rows have reached.
SnapshotIsPast(value, version) == Past(version) /\ value = chronicle[version]

PutIsSound(x) ==
  /\ x.step = "seen" => Past(x.version) /\ x.version > 0 /\ (AllAt(x.version) => x.before = HeldNow)
  /\ x.step = "written" =>
      /\ Past(x.version) /\ x.version > 0 /\ x.value = chronicle[x.version]
      /\ x.before = chronicle[x.version - 1]

LookupIsSound(x) ==
  /\ x.step \in {"cold", "waiting", "failed"} => x.floor <= entry.version
  /\ x.step = "served" => x.held = TRUE /\ x.current = TRUE

EntryIsSound ==
  /\ SnapshotIsPast(entry.value, entry.version)
  /\ ~entry.has => entry.version = 0

FlightIsSound ==
  flight.step = "read" /\ flight.row.ok =>
      SnapshotIsPast(flight.row.value, flight.row.version)

SettingsInv ==
  /\ SettingsTypeOK /\ ChronicleIsHeld
  /\ EntryIsSound /\ FlightIsSound
  /\ \A l \in Lookups : LookupIsSound(lookups[l])
  /\ \A p \in Puts : PutIsSound(puts[p])

LEMMA Shape ==
  ASSUME family \in FamilyNames
  PROVE  /\ Rows # {}
         /\ \A v \in Submissions : v = [row \in Rows |-> v[row]]
<1>1. CASE family = "custom_system_prompt" BY <1>1 DEF Rows, Submissions
<1>2. CASE family = "input_compression" BY <1>2 DEF Rows, Submissions
<1>3. CASE family = "vision_fallback" BY <1>3 DEF Rows, Submissions
<1>4. CASE family = "key_auto_recovery" BY <1>4 DEF Rows, Submissions
<1>5. CASE family \in {"request_log_retention", "admin_audit_retention"}
  BY <1>5 DEF Rows, Submissions
<1>6. CASE family = "outbound_proxy" BY <1>6 DEF Rows, Submissions
<1>7. CASE family = "capability_enforcement" BY <1>7 DEF Rows, Submissions
<1> QED BY <1>1, <1>2, <1>3, <1>4, <1>5, <1>6, <1>7 DEF FamilyNames

\* What a reader of the rows finds: the defaults where there are none, or what they hold.
IsFound(r) ==
  r.ok => \/ Missing /\ r.value = DefaultSetting /\ r.version = 0
          \/ ~Missing /\ ~Uneven /\ AllAt(r.version) /\ r.value = HeldNow

LEMMA RowsRead ==
  ASSUME family \in FamilyNames
  PROVE  /\ \A S : IsFound(Parsed(S)) /\ IsFound(OrDefault(S))
         /\ ReadRows.ok \in BOOLEAN
         /\ IsFound(ReadRows) /\ ~Unread.ok
<1>1. ASSUME NEW S PROVE IsFound(Parsed(S)) /\ Parsed(S).ok \in BOOLEAN
  <2> DEFINE r == [ok |-> TRUE, value |-> [row \in Rows |-> stored[row].value],
                   version |-> stored[CHOOSE row \in Rows : TRUE].version]
  <2>1. CASE Uneven \/ Missing \/ Corrupt(S) # {}
    <3>1. Parsed(S) = Unread BY <2>1 DEF Parsed
    <3> QED BY <3>1 DEF IsFound, Unread
  <2>2. CASE ~(Uneven \/ Missing \/ Corrupt(S) # {})
    <3>1. Parsed(S) = r BY <2>2 DEF Parsed
    <3>2. (CHOOSE row \in Rows : TRUE) \in Rows BY Shape
    <3>3. AllAt(r.version) BY <2>2, <3>2 DEF AllAt, Uneven
    <3>4. r.value = HeldNow BY DEF HeldNow
    <3> QED BY <2>2, <3>1, <3>3, <3>4 DEF IsFound
  <2> QED BY <2>1, <2>2
<1>2. ASSUME NEW S PROVE IsFound(OrDefault(S)) /\ OrDefault(S).ok \in BOOLEAN
  <2>1. CASE Missing BY <2>1 DEF OrDefault, IsFound
  <2>2. CASE ~Missing BY <1>1, <2>2 DEF OrDefault
  <2> QED BY <2>1, <2>2
<1>3. (\E S : ReadRows = Parsed(S)) \/ (\E S : ReadRows = OrDefault(S))
  <2> USE DEF ReadRows, GetCustomSystemPrompt, GetInputCompression, GetVisionFallback,
        GetKeyAutoRecovery, GetRequestLogRetention, GetAdminAuditRetention, GetOutboundProxy,
        GetCapabilityEnforcement
  <2>1. CASE family = "custom_system_prompt" BY <2>1
  <2>2. CASE family = "input_compression" BY <2>2
  <2>3. CASE family = "vision_fallback" BY <2>3
  <2>4. CASE family = "key_auto_recovery" BY <2>4
  <2>5. CASE family = "request_log_retention" BY <2>5
  <2>6. CASE family = "admin_audit_retention" BY <2>6
  <2>7. CASE family = "outbound_proxy" BY <2>7
  <2>8. CASE family = "capability_enforcement" BY <2>8
  <2> QED BY <2>1, <2>2, <2>3, <2>4, <2>5, <2>6, <2>7, <2>8 DEF FamilyNames
<1>4. IsFound(ReadRows) /\ ReadRows.ok \in BOOLEAN BY <1>1, <1>2, <1>3
<1>5. ~Unread.ok BY DEF Unread
<1> QED BY <1>1, <1>2, <1>4, <1>5

\* What a step keeps that leaves the rows alone.
LEMMA RowsStand ==
  ASSUME SettingsInv, UNCHANGED <<family, stored, chronicle>>
  PROVE  /\ family' \in FamilyNames /\ Rows' = Rows
         /\ (\A row \in Rows : stored[row].version \in 0..MaxVersion)'
         /\ (\A row \in Rows : stored[row].version = 0 => stored[row] = Absent)'
         /\ (chronicle = [v \in 0..MaxVersion |-> chronicle[v]])'
         /\ ChronicleIsHeld'
         /\ \A value, version : SnapshotIsPast(value, version) => SnapshotIsPast(value, version)'
         /\ \A x : PutIsSound(x) => PutIsSound(x)'
<1>1. Rows' = Rows BY DEF Rows
<1>2. DefaultSetting' = DefaultSetting BY DEF DefaultSetting
<1> USE DEF SettingsInv, SettingsTypeOK
<1>3. HeldNow' = HeldNow BY <1>1 DEF HeldNow
<1>4. ASSUME NEW v PROVE Past(v)' = Past(v) /\ AllAt(v)' = AllAt(v) BY <1>1 DEF Past, AllAt
<1>5. ChronicleIsHeld' BY <1>2, <1>3, <1>4 DEF ChronicleIsHeld
<1>6. \A value, version : SnapshotIsPast(value, version) => SnapshotIsPast(value, version)'
  BY <1>4 DEF SnapshotIsPast
<1>7. \A x : PutIsSound(x) => PutIsSound(x)' BY <1>3, <1>4 DEF PutIsSound
<1> QED BY <1>1, <1>5, <1>6, <1>7

\* One read moves on.
LEMMA LookupMoves ==
  ASSUME SettingsInv, NEW l \in Lookups, NEW x \in LookupRecords, LookupIsSound(x),
         lookups' = [lookups EXCEPT ![l] = x],
         UNCHANGED <<family, stored, entry, puts, chronicle>>,
         flight' = flight \/ (flight'.step # "read")
  PROVE  SettingsInv'
<1> USE DEF SettingsInv
<1>1. SettingsTypeOK'
  <2>1. lookups' \in [Lookups -> LookupRecords] BY DEF SettingsTypeOK
  <2>2. EntryShape(entry)' BY DEF SettingsTypeOK, EntryShape
  <2>3. (puts = [p \in Puts |-> puts[p]])' BY DEF SettingsTypeOK
  <2> QED BY <2>1, <2>2, <2>3, RowsStand DEF SettingsTypeOK
<1>2. EntryIsSound' BY RowsStand DEF EntryIsSound
<1>3. FlightIsSound'
  <2>1. CASE flight' = flight BY <2>1, RowsStand DEF FlightIsSound
  <2>2. CASE flight'.step # "read" BY <2>2 DEF FlightIsSound
  <2> QED BY <2>1, <2>2
<1>4. \A m \in Lookups : LookupIsSound(lookups[m])'
  <2>1. lookups'[l] = x /\ \A m \in Lookups \ {l} : lookups'[m] = lookups[m] BY DEF SettingsTypeOK
  <2>2. \A y : LookupIsSound(y) => LookupIsSound(y)' BY DEF LookupIsSound
  <2>3. LookupIsSound(lookups[l])' BY <2>1, <2>2 DEF LookupIsSound
  <2>4. ASSUME NEW m \in Lookups \ {l} PROVE LookupIsSound(lookups[m])'
    BY <2>1, <2>4 DEF LookupIsSound
  <2> QED BY <2>3, <2>4
<1>5. \A p \in Puts : PutIsSound(puts[p])'
  <2> SUFFICES ASSUME NEW p \in Puts PROVE PutIsSound(puts[p])' OBVIOUS
  <2>1. PutIsSound(puts[p])  OBVIOUS
  <2>2. \A x1 : PutIsSound(x1) => PutIsSound(x1)' BY RowsStand
  <2> QED BY <2>1, <2>2 DEF PutIsSound
<1> QED BY <1>1, <1>2, <1>3, <1>4, <1>5, RowsStand

\* What the cache may answer: the snapshot it holds, to a read that began no later.
LEMMA SnapshotsAreHonest ==
  ASSUME SettingsInv, NEW floor \in Nat, floor <= entry.version
  PROVE  /\ Given(entry.value, entry.version, floor) \in LookupRecords
         /\ LookupIsSound(Given(entry.value, entry.version, floor))
<1> DEFINE x == Given(entry.value, entry.version, floor)
<1>1. entry.value = chronicle[entry.version] /\ entry.version \in Nat
  BY SettingsAssumption DEF SettingsInv, EntryIsSound, SnapshotIsPast, Past
<1>2. x = [step |-> "served", held |-> TRUE, current |-> TRUE] BY <1>1 DEF Given
<1> QED BY <1>2 DEF LookupRecords, LookupIsSound

LEMMA LookupKeeps ==
  ASSUME SettingsInv, NEW l \in Lookups,
         \/ readCached(l) \/ ServedZero(l) \/ JoinRefresh(l) \/ LeadRefresh(l)
         \/ FailOpen(l) \/ EndLookup(l)
  PROVE  SettingsInv'
<1>1. entry.version \in Nat
  BY SettingsAssumption DEF SettingsInv, EntryIsSound, SnapshotIsPast, Past
<1>2. lookups[l] \in LookupRecords /\ LookupIsSound(lookups[l]) BY DEF SettingsInv, SettingsTypeOK
<1>3. lookups[l].step \in {"cold", "waiting", "failed"} =>
        lookups[l].floor \in Nat /\ lookups[l].floor <= entry.version
  BY <1>2 DEF LookupRecords, LookupIsSound, NoLookup
<1>4. CASE readCached(l)
  <2> DEFINE x == [step |-> "cold", floor |-> entry.version]
  <2>1. x \in LookupRecords /\ LookupIsSound(x) BY <1>1 DEF LookupRecords, LookupIsSound
  <2>2. lookups' = [lookups EXCEPT ![l] = x] /\ UNCHANGED <<family, stored, entry, flight, puts, chronicle>>
    BY <1>4 DEF readCached
  <2> HIDE DEF x
  <2> QED BY <2>1, <2>2, LookupMoves
<1>5. CASE ServedZero(l)
  <2> DEFINE x == [step |-> "zero"]
  <2>1. x \in LookupRecords /\ LookupIsSound(x) BY DEF LookupRecords, LookupIsSound
  <2>2. lookups' = [lookups EXCEPT ![l] = x] /\ UNCHANGED <<family, stored, entry, flight, puts, chronicle>>
    BY <1>5 DEF ServedZero
  <2> HIDE DEF x
  <2> QED BY <2>1, <2>2, LookupMoves
<1>6. ASSUME lookups[l].step = "cold", lookups' = [lookups EXCEPT ![l].step = "waiting"],
             UNCHANGED <<family, stored, entry, puts, chronicle>>,
             flight' = flight \/ flight'.step # "read"
      PROVE  SettingsInv'
  <2> DEFINE x == [lookups[l] EXCEPT !.step = "waiting"]
  <2>1. lookups[l] \in [step : {"cold", "waiting", "failed"}, floor : Nat]
    BY <1>2, <1>6 DEF LookupRecords, NoLookup
  <2>2. x \in [step : {"cold", "waiting", "failed"}, floor : Nat] /\ x.floor = lookups[l].floor
        /\ x.step = "waiting" BY <2>1
  <2>3. lookups' = [lookups EXCEPT ![l] = x] BY <1>6
  <2> HIDE DEF x
  <2>4. x \in LookupRecords /\ LookupIsSound(x)
    BY <1>3, <1>6, <2>2 DEF LookupRecords, LookupIsSound
  <2> QED BY <1>6, <2>3, <2>4, LookupMoves
<1>7. ASSUME lookups[l].step \in {"cold", "failed"},
             lookups' = [lookups EXCEPT ![l] = Given(entry.value, entry.version, @.floor)],
             UNCHANGED <<family, stored, entry, flight, puts, chronicle>>
      PROVE  SettingsInv'
  <2> DEFINE x == Given(entry.value, entry.version, lookups[l].floor)
  <2>1. x \in LookupRecords /\ LookupIsSound(x) BY <1>3, <1>7, SnapshotsAreHonest
  <2>2. lookups' = [lookups EXCEPT ![l] = x] BY <1>7
  <2> HIDE DEF x
  <2> QED BY <1>7, <2>1, <2>2, LookupMoves
<1>8. CASE JoinRefresh(l) BY <1>6, <1>8 DEF JoinRefresh
<1>9. CASE LeadRefresh(l)
  <2>1. CASE cachedEntry BY <1>7, <1>9, <2>1 DEF LeadRefresh
  <2>2. CASE ~cachedEntry
    <3>1. flight' = [step |-> "reading"] BY <1>9, <2>2 DEF LeadRefresh
    <3> QED BY <1>6, <1>9, <2>2, <3>1 DEF LeadRefresh
  <2> QED BY <2>1, <2>2
<1>10. CASE FailOpen(l) BY <1>7, <1>10 DEF FailOpen
<1>11. CASE EndLookup(l)
  <2>1. NoLookup \in LookupRecords /\ LookupIsSound(NoLookup)
    BY DEF LookupRecords, NoLookup, LookupIsSound
  <2> QED BY <1>11, <2>1, LookupMoves DEF EndLookup
<1> QED BY <1>4, <1>5, <1>8, <1>9, <1>10, <1>11

\* Publishing a past snapshot leaves a past snapshot, no older than the one there was.
LEMMA Publishing ==
  ASSUME SettingsInv, NEW value, NEW version, SnapshotIsPast(value, version),
         NEW e, e = publishIfNewer(entry, value, version)
  PROVE  /\ EntryShape(e) /\ SnapshotIsPast(e.value, e.version)
         /\ ~e.has => e.version = 0
         /\ entry.version <= e.version /\ e.version \in Nat
<1>1. entry.version \in Nat /\ version \in Nat
  BY SettingsAssumption DEF SettingsInv, EntryIsSound, SnapshotIsPast, Past
<1>2. CASE entry.has /\ version < entry.version
  <2>1. e = [entry EXCEPT !.failing = FALSE] BY <1>2 DEF publishIfNewer
  <2>2. entry = [has |-> entry.has, value |-> entry.value, version |-> entry.version,
                 fresh |-> entry.fresh, failing |-> entry.failing]
    BY DEF SettingsInv, SettingsTypeOK, EntryShape
  <2>3. e = [has |-> entry.has, value |-> entry.value, version |-> entry.version,
             fresh |-> entry.fresh, failing |-> FALSE] BY <2>1, <2>2
  <2>4. SnapshotIsPast(entry.value, entry.version) BY DEF SettingsInv, EntryIsSound
  <2> QED BY <1>1, <1>2, <2>3, <2>4 DEF EntryShape
<1>3. CASE ~(entry.has /\ version < entry.version)
  <2>1. e = [has |-> TRUE, value |-> value, version |-> version, fresh |-> TRUE, failing |-> FALSE]
    BY <1>3 DEF publishIfNewer
  <2>2. entry.version <= version BY <1>1, <1>3 DEF SettingsInv, EntryIsSound
  <2> QED BY <1>1, <2>1, <2>2 DEF EntryShape
<1> QED BY <1>2, <1>3

\* A refresh reads what is past: the rows, or the defaults where there are none.
LEMMA RefreshReadsKeeps ==
  ASSUME SettingsInv, RefreshReads PROVE SettingsInv'
<1> USE DEF SettingsInv, RefreshReads
<1>1. family \in FamilyNames BY DEF SettingsTypeOK
<1>2. 0 \in 0..MaxVersion /\ MaxVersion \in Nat BY SettingsAssumption
<1>3. PICK row \in {ReadRows, Unread} : flight' = [step |-> "read", row |-> row] OBVIOUS
<1>4. row.ok => SnapshotIsPast(row.value, row.version)
  <2> SUFFICES ASSUME row.ok PROVE SnapshotIsPast(row.value, row.version) OBVIOUS
  <2>1. row = ReadRows /\ IsFound(row) BY <1>1, <1>3, RowsRead
  <2>2. CASE Missing /\ row.value = DefaultSetting /\ row.version = 0
    <3>1. Past(0) BY <1>2 DEF Past, SettingsTypeOK
    <3> QED BY <2>2, <3>1 DEF ChronicleIsHeld, SnapshotIsPast
  <2>3. CASE ~Missing /\ AllAt(row.version) /\ row.value = HeldNow
    <3>1. PICK r \in Rows : stored[r] # Absent BY <2>3 DEF Missing
    <3>2. row.version \in 0..MaxVersion /\ row.version # 0 BY <2>3, <3>1 DEF AllAt, SettingsTypeOK
    <3>3. Past(row.version) BY <2>3, <3>2 DEF AllAt, Past
    <3> QED BY <1>2, <2>3, <3>2, <3>3 DEF ChronicleIsHeld, SnapshotIsPast
  <2> QED BY <2>1, <2>2, <2>3 DEF IsFound
<1>5. FlightIsSound'
  <2> SUFFICES ASSUME row.ok PROVE SnapshotIsPast(row.value, row.version)' BY <1>3 DEF FlightIsSound
  <2> QED BY <1>4, RowsStand DEF SnapshotIsPast
<1>6. SettingsTypeOK' BY RowsStand DEF SettingsTypeOK, EntryShape
<1>9. EntryIsSound' BY RowsStand DEF EntryIsSound
<1>7. \A l \in Lookups : LookupIsSound(lookups[l])' BY DEF LookupIsSound
<1>8. \A p \in Puts : PutIsSound(puts[p])'
  <2>1. \A x : PutIsSound(x) => PutIsSound(x)' BY RowsStand
  <2> QED BY <2>1 DEF PutIsSound
<1> QED BY <1>5, <1>6, <1>7, <1>8, <1>9, RowsStand

\* What the entry may become while reads are under way.
LEMMA EntryMoves ==
  ASSUME SettingsInv, UNCHANGED <<family, stored, chronicle>>,
         EntryShape(entry'), SnapshotIsPast(entry'.value, entry'.version),
         ~entry'.has => entry'.version = 0,
         entry.version <= entry'.version
  PROVE  /\ EntryShape(entry)' /\ EntryIsSound'
         /\ \A x \in LookupRecords : LookupIsSound(x) => LookupIsSound(x)'
<1>1. entry.version \in Nat /\ entry'.version \in Nat
  BY SettingsAssumption DEF SettingsInv, EntryIsSound, SnapshotIsPast, Past
<1>2. EntryShape(entry)' BY DEF EntryShape
<1>3. EntryIsSound'
  <2>1. \A value, version : SnapshotIsPast(value, version) => SnapshotIsPast(value, version)'
    BY RowsStand
  <2> QED BY <2>1 DEF EntryIsSound, SnapshotIsPast
<1>4. ASSUME NEW x \in LookupRecords, LookupIsSound(x) PROVE LookupIsSound(x)'
  <2>1. x.step \in {"cold", "waiting", "failed"} => x.floor \in Nat BY DEF LookupRecords, NoLookup
  <2> QED BY <1>1, <1>4, <2>1 DEF LookupIsSound
<1> QED BY <1>2, <1>3, <1>4

LEMMA refreshEntryKeeps ==
  ASSUME SettingsInv, refreshEntry PROVE SettingsInv'
<1> USE DEF SettingsInv, refreshEntry
<1>1. /\ EntryShape(entry') /\ SnapshotIsPast(entry'.value, entry'.version)
      /\ ~entry'.has => entry'.version = 0
      /\ entry.version <= entry'.version /\ entry'.version \in Nat
  <2>1. CASE flight.row.ok
    <3>1. SnapshotIsPast(flight.row.value, flight.row.version) BY <2>1 DEF FlightIsSound
    <3>2. entry' = publishIfNewer(entry, flight.row.value, flight.row.version) BY <2>1
    <3> QED BY <3>1, <3>2, Publishing
  <2>2. CASE ~flight.row.ok
    <3>1. entry' = [entry EXCEPT !.failing = TRUE] BY <2>2
    <3>2. entry = [has |-> entry.has, value |-> entry.value, version |-> entry.version,
                   fresh |-> entry.fresh, failing |-> entry.failing]
      BY DEF SettingsTypeOK, EntryShape
    <3>3. entry' = [has |-> entry.has, value |-> entry.value, version |-> entry.version,
                    fresh |-> entry.fresh, failing |-> TRUE] BY <3>1, <3>2
    <3>4. entry.version \in Nat BY SettingsAssumption DEF EntryIsSound, SnapshotIsPast, Past
    <3>5. SnapshotIsPast(entry.value, entry.version) /\ (~entry.has => entry.version = 0)
      BY DEF EntryIsSound
    <3> HIDE DEF SettingsInv, refreshEntry
    <3> QED BY <3>3, <3>4, <3>5 DEF EntryShape
  <2> QED BY <2>1, <2>2
<1>2. /\ EntryShape(entry)' /\ EntryIsSound'
      /\ \A x \in LookupRecords : LookupIsSound(x) => LookupIsSound(x)' BY <1>1, EntryMoves
<1>3. entry'.value = chronicle[entry'.version] BY <1>1 DEF SnapshotIsPast
<1>4. FlightIsSound' BY DEF FlightIsSound, Grounded
<1>5. ASSUME NEW l \in Lookups
      PROVE  lookups'[l] \in LookupRecords /\ LookupIsSound(lookups[l])'
  <2>1. lookups[l] \in LookupRecords /\ LookupIsSound(lookups[l]) BY DEF SettingsTypeOK
  <2>2. CASE lookups[l].step # "waiting"
    <3>1. lookups'[l] = lookups[l] BY <2>2
    <3> QED BY <1>2, <2>1, <3>1 DEF LookupIsSound
  <2>3. CASE lookups[l].step = "waiting"
    <3>1. lookups[l] \in [step : {"cold", "waiting", "failed"}, floor : Nat]
          /\ lookups[l].floor <= entry.version
      BY <2>1, <2>3 DEF LookupRecords, NoLookup, LookupIsSound
    <3>2. entry.version \in Nat BY SettingsAssumption DEF EntryIsSound, SnapshotIsPast, Past
    <3>3. lookups[l].floor <= entry'.version BY <1>1, <3>1, <3>2
    <3>4. CASE flight.row.ok
      <4>1. lookups'[l] = Given(entry'.value, entry'.version, lookups[l].floor) BY <2>3, <3>4
      <4>2. lookups'[l] = [step |-> "served", held |-> TRUE, current |-> TRUE]
        BY <1>1, <1>3, <3>1, <3>3, <4>1 DEF Given
      <4> HIDE DEF SettingsInv, refreshEntry
      <4> QED BY <4>2 DEF LookupRecords, LookupIsSound
    <3>5. CASE ~flight.row.ok
      <4>1. lookups'[l] = [lookups[l] EXCEPT !.step = "failed"] BY <2>3, <3>5
      <4>2. lookups'[l] = [step |-> "failed", floor |-> lookups[l].floor] BY <3>1, <4>1
      <4> DEFINE x == [step |-> "failed", floor |-> lookups[l].floor]
      <4>3. x \in [step : {"cold", "waiting", "failed"}, floor : Nat] BY <3>1
      <4>4. x.step = "failed" /\ x.floor = lookups[l].floor OBVIOUS
      <4>5. lookups'[l] = x BY <4>2
      <4> HIDE DEF x, SettingsInv, refreshEntry
      <4> QED BY <3>3, <4>3, <4>4, <4>5 DEF LookupRecords, LookupIsSound
    <3> QED BY <3>4, <3>5
  <2> QED BY <2>2, <2>3
<1>6. lookups' \in [Lookups -> LookupRecords] BY <1>5
<1>7. (puts = [p \in Puts |-> puts[p]])' BY DEF SettingsTypeOK
<1>8. SettingsTypeOK' BY <1>2, <1>6, <1>7, RowsStand DEF SettingsTypeOK
<1>9. \A p \in Puts : PutIsSound(puts[p])'
  <2>1. \A x : PutIsSound(x) => PutIsSound(x)' BY RowsStand
  <2> QED BY <2>1 DEF PutIsSound
<1> QED BY <1>2, <1>4, <1>5, <1>8, <1>9, RowsStand

LEMMA TimeKeeps ==
  ASSUME SettingsInv, TimePassesOver PROVE SettingsInv'
<1> USE DEF SettingsInv, TimePassesOver
<1>1. entry = [has |-> entry.has, value |-> entry.value, version |-> entry.version,
               fresh |-> entry.fresh, failing |-> entry.failing] BY DEF SettingsTypeOK, EntryShape
<1>2. \/ entry' = [has |-> entry.has, value |-> entry.value, version |-> entry.version,
                   fresh |-> FALSE, failing |-> entry.failing]
      \/ entry' = [has |-> entry.has, value |-> entry.value, version |-> entry.version,
                   fresh |-> entry.fresh, failing |-> FALSE] BY <1>1
<1>3. entry.version \in Nat BY SettingsAssumption DEF EntryIsSound, SnapshotIsPast, Past
<1>4. /\ EntryShape(entry') /\ SnapshotIsPast(entry'.value, entry'.version)
      /\ ~entry'.has => entry'.version = 0
      /\ entry.version <= entry'.version BY <1>2, <1>3 DEF EntryShape, EntryIsSound
<1>5. /\ EntryShape(entry)' /\ EntryIsSound'
      /\ \A x \in LookupRecords : LookupIsSound(x) => LookupIsSound(x)' BY <1>4, EntryMoves
<1>6. \A l \in Lookups : LookupIsSound(lookups[l])' BY <1>5 DEF SettingsTypeOK, LookupIsSound
<1>7. SettingsTypeOK' BY <1>5, RowsStand DEF SettingsTypeOK
<1>8. FlightIsSound' BY RowsStand DEF FlightIsSound
<1>9. \A p \in Puts : PutIsSound(puts[p])'
  <2>1. \A x : PutIsSound(x) => PutIsSound(x)' BY RowsStand
  <2> QED BY <2>1 DEF PutIsSound
<1> QED BY <1>5, <1>6, <1>7, <1>8, <1>9, RowsStand

\* One write moves on, or ends; the rows stay.
LEMMA PutMoves ==
  ASSUME SettingsInv, NEW p \in Puts, NEW x, PutIsSound(x), puts' = [puts EXCEPT ![p] = x],
         UNCHANGED <<family, stored, flight, lookups, chronicle>>, entry' = entry \/
           /\ EntryShape(entry') /\ SnapshotIsPast(entry'.value, entry'.version)
           /\ ~entry'.has => entry'.version = 0
           /\ entry.version <= entry'.version
  PROVE  SettingsInv'
<1> USE DEF SettingsInv
<1>1. entry.version \in Nat BY SettingsAssumption DEF EntryIsSound, SnapshotIsPast, Past
<1>2. /\ EntryShape(entry') /\ SnapshotIsPast(entry'.value, entry'.version)
      /\ ~entry'.has => entry'.version = 0
      /\ entry.version <= entry'.version BY <1>1 DEF SettingsTypeOK, EntryIsSound
<1>3. /\ EntryShape(entry)' /\ EntryIsSound'
      /\ \A y \in LookupRecords : LookupIsSound(y) => LookupIsSound(y)' BY <1>2, EntryMoves
<1>4. \A l \in Lookups : LookupIsSound(lookups[l])' BY <1>3 DEF SettingsTypeOK, LookupIsSound
<1>5. FlightIsSound' BY RowsStand DEF FlightIsSound
<1>6. /\ puts'[p] = x /\ \A q \in Puts \ {p} : puts'[q] = puts[q]
      /\ (puts = [q \in Puts |-> puts[q]])'
  <2>1. puts = [q \in Puts |-> puts[q]] BY DEF SettingsTypeOK
  <2> QED BY <2>1
<1>7. SettingsTypeOK' BY <1>3, <1>6, RowsStand DEF SettingsTypeOK
<1>8. ASSUME NEW q \in Puts PROVE PutIsSound(puts[q])'
  <2>1. \A y : PutIsSound(y) => PutIsSound(y)' BY RowsStand
  <2>2. PutIsSound(puts'[q]) BY <1>6
  <2> QED BY <2>1, <2>2 DEF PutIsSound
<1> QED BY <1>3, <1>4, <1>5, <1>7, <1>8, RowsStand

LEMMA PutSettingKeeps ==
  ASSUME SettingsInv, NEW p \in Puts, NEW before, IsFound(before), PutSetting(p, before)
  PROVE  SettingsInv'
<1> USE DEF PutSetting
<1>1. PICK version \in 1..before.version :
        puts' = [puts EXCEPT ![p] =
            [step |-> "seen", version |-> version, before |-> before.value]] OBVIOUS
<1> DEFINE x == [step |-> "seen", version |-> version, before |-> before.value]
<1>2. /\ Rows # {} /\ MaxVersion \in Nat
      /\ \A row \in Rows : stored[row].version \in 0..MaxVersion
  BY Shape, SettingsAssumption DEF SettingsInv, SettingsTypeOK
<1>3. AllAt(before.version) /\ before.value = HeldNow
  <2>1. before.version # 0 BY <1>1
  <2> QED BY <2>1 DEF IsFound
<1>4. before.version \in 0..MaxVersion BY <1>2, <1>3 DEF AllAt
<1>5. Past(version) /\ version > 0 BY <1>1, <1>2, <1>3, <1>4 DEF AllAt, Past
<1>6. PutIsSound(x) BY <1>3, <1>5 DEF PutIsSound
<1> HIDE DEF x
<1> QED BY <1>1, <1>6, PutMoves DEF x

LEMMA PutBegins ==
  ASSUME SettingsInv, NEW p \in Puts,
         \/ PutCustomSystemPrompt(p) \/ PutInputCompression(p) \/ PutVisionFallback(p)
         \/ PutKeyAutoRecovery(p) \/ PutRequestLogRetention(p) \/ PutAdminAuditRetention(p)
         \/ PutOutboundProxy(p) \/ PutCapabilityEnforcement(p)
  PROVE  SettingsInv'
<1>1. \A S : IsFound(Parsed(S)) /\ IsFound(OrDefault(S))
  BY RowsRead DEF SettingsInv, SettingsTypeOK
<1>2. PICK before : IsFound(before) /\ PutSetting(p, before)
  BY <1>1 DEF PutCustomSystemPrompt, PutInputCompression, PutVisionFallback, PutKeyAutoRecovery,
       PutRequestLogRetention, PutAdminAuditRetention, PutOutboundProxy, PutCapabilityEnforcement,
       GetCustomSystemPrompt, GetInputCompression, GetVisionFallback, GetKeyAutoRecovery,
       GetRequestLogRetention, GetAdminAuditRetention, GetOutboundProxy, GetCapabilityEnforcement
<1> QED BY <1>2, PutSettingKeeps

LEMMA PutEnds ==
  ASSUME SettingsInv, NEW p \in Puts, PutRefused(p) \/ PublishPut(p)
  PROVE  SettingsInv'
<1>1. PutIsSound(NoPut) BY DEF PutIsSound, NoPut
<1>2. CASE PutRefused(p) BY <1>1, <1>2, PutMoves DEF PutRefused
<1>3. CASE PublishPut(p)
  <2>1. PutIsSound(puts[p]) /\ puts[p].step = "written" BY <1>3 DEF SettingsInv, PublishPut
  <2>2. SnapshotIsPast(puts[p].value, puts[p].version) BY <2>1 DEF PutIsSound, SnapshotIsPast
  <2>3. entry' = publishIfNewer(entry, puts[p].value, puts[p].version) BY <1>3 DEF PublishPut
  <2>4. /\ EntryShape(entry') /\ SnapshotIsPast(entry'.value, entry'.version)
        /\ ~entry'.has => entry'.version = 0
        /\ entry.version <= entry'.version BY <2>2, <2>3, Publishing
  <2> QED BY <1>1, <1>3, <2>4, PutMoves DEF PublishPut
<1> QED BY <1>2, <1>3

\* The rows go from one version to the next together: what is past stays as it was.
Advances(V, value) ==
  /\ V \in 1..MaxVersion /\ V < MaxVersion /\ AllAt(V)
  /\ value = [row \in Rows |-> value[row]]
  /\ family' = family
  /\ stored' = [row \in Rows |-> [value |-> value[row], version |-> V + 1]]
  /\ chronicle' = [chronicle EXCEPT ![V + 1] = value]
  /\ UNCHANGED <<entry, flight, lookups>>

LEMMA Advance ==
  ASSUME SettingsInv, NEW V, NEW value, Advances(V, value)
  PROVE  /\ Rows' = Rows
         /\ (\A row \in Rows : stored[row].version \in 0..MaxVersion)'
         /\ (\A row \in Rows : stored[row].version = 0 => stored[row] = Absent)'
         /\ (chronicle = [v \in 0..MaxVersion |-> chronicle[v]])'
         /\ ChronicleIsHeld' /\ EntryIsSound' /\ FlightIsSound'
         /\ \A l \in Lookups : LookupIsSound(lookups[l])'
         /\ \A x : PutIsSound(x) => PutIsSound(x)'
         /\ (\A v : v = V + 1 => Past(v)') /\ chronicle'[V + 1] = value /\ chronicle'[V] = HeldNow
<1> USE DEF SettingsInv, Advances
<1>1. Rows' = Rows /\ DefaultSetting' = DefaultSetting BY DEF Rows, DefaultSetting
<1>2. Rows # {} /\ MaxVersion \in Nat /\ V \in Nat /\ V + 1 \in 1..MaxVersion
  BY Shape, SettingsAssumption DEF SettingsTypeOK
<1>3. \A row \in Rows : stored'[row].version = V + 1 /\ stored'[row].value = value[row] OBVIOUS
<1>4. \A row \in Rows : stored[row].version = V BY DEF AllAt
<1>5. chronicle'[V + 1] = value /\ \A v \in 0..MaxVersion : v # V + 1 => chronicle'[v] = chronicle[v]
  BY <1>2 DEF SettingsTypeOK
<1>6. HeldNow' = value BY <1>1, <1>3 DEF HeldNow
<1>7. \A v : AllAt(v)' => v = V + 1 BY <1>1, <1>2, <1>3 DEF AllAt
<1>8. ASSUME NEW v, Past(v)
      PROVE  v \in 0..V /\ Past(v)' /\ chronicle'[v] = chronicle[v]
  <2>1. v \in 0..MaxVersion /\ v <= V BY <1>2, <1>4, <1>8 DEF Past
  <2>2. Past(v)' BY <1>1, <1>2, <1>3, <2>1 DEF Past
  <2> QED BY <1>2, <1>5, <2>1, <2>2
<1>9. ChronicleIsHeld'
  <2>1. (chronicle[0] = DefaultSetting)' BY <1>1, <1>2, <1>5 DEF ChronicleIsHeld
  <2>2. (\A v \in 1..MaxVersion : AllAt(v) => chronicle[v] = HeldNow)' BY <1>5, <1>6, <1>7
  <2> QED BY <2>1, <2>2 DEF ChronicleIsHeld
<1>10. \A x, v : SnapshotIsPast(x, v) => SnapshotIsPast(x, v)' BY <1>8 DEF SnapshotIsPast
<1>11. EntryIsSound' /\ FlightIsSound' BY <1>10 DEF EntryIsSound, FlightIsSound
<1>12. \A l \in Lookups : LookupIsSound(lookups[l])' BY DEF LookupIsSound
<1>13. ASSUME NEW x, PutIsSound(x) PROVE PutIsSound(x)'
  <2>1. CASE x.step = "seen"
    <3>1. Past(x.version) /\ x.version > 0 BY <1>13, <2>1 DEF PutIsSound
    <3>2. ~AllAt(x.version)' BY <1>2, <1>7, <1>8, <3>1
    <3> QED BY <1>8, <2>1, <3>1, <3>2 DEF PutIsSound
  <2>2. CASE x.step = "written"
    <3>1. Past(x.version) /\ x.version > 0 /\ x.value = chronicle[x.version]
          /\ x.before = chronicle[x.version - 1] BY <1>13, <2>2 DEF PutIsSound
    <3>2. x.version \in 0..V /\ Past(x.version)' /\ chronicle'[x.version] = chronicle[x.version]
      BY <1>8, <3>1
    <3>3. x.version - 1 \in 0..MaxVersion /\ x.version - 1 # V + 1 BY <1>2, <3>1, <3>2
    <3> QED BY <1>5, <2>2, <3>1, <3>2, <3>3 DEF PutIsSound
  <2>3. CASE x.step \notin {"seen", "written"} BY <2>3 DEF PutIsSound
  <2> QED BY <2>1, <2>2, <2>3
<1>14. \A v : v = V + 1 => Past(v)' BY <1>1, <1>2, <1>3 DEF Past
<1>15. chronicle'[V] = HeldNow BY <1>2, <1>5 DEF ChronicleIsHeld
<1>16. (chronicle = [v \in 0..MaxVersion |-> chronicle[v]])' BY DEF SettingsTypeOK
<1>17. (\A row \in Rows : stored[row].version \in 0..MaxVersion)'
       /\ (\A row \in Rows : stored[row].version = 0 => stored[row] = Absent)' BY <1>1, <1>2, <1>3
<1> QED BY <1>1, <1>5, <1>9, <1>11, <1>12, <1>13, <1>14, <1>15, <1>16, <1>17

LEMMA PutUpdateKeeps ==
  ASSUME SettingsInv, NEW p \in Puts, UpdateSetting(p) PROVE SettingsInv'
<1> USE DEF SettingsInv
<1> PICK V : V = puts[p].version OBVIOUS
<1> PICK before : before = puts[p].before OBVIOUS
<1> DEFINE row0 == CHOOSE r \in Rows : TRUE
<1>1. /\ puts[p].step = "seen" /\ stored[row0].version < MaxVersion
      /\ family' = family /\ UNCHANGED <<entry, flight, lookups>> BY DEF UpdateSetting
<1>2. PICK value \in Submissions :
        /\ CompareAndSet(V, value) # stored
        /\ Settle(CompareAndSet(V, value))
        /\ \/ puts' = [puts EXCEPT ![p] = NoPut]
           \/ puts' = [puts EXCEPT ![p] = [step |-> "written", version |-> V + 1,
                                           before |-> before, value |-> value]]
  BY DEF UpdateSetting
<1> DEFINE moved == [row \in Rows |-> [value |-> value[row], version |-> V + 1]]
<1>3. Rows # {} /\ value = [row \in Rows |-> value[row]] BY Shape DEF SettingsTypeOK
<1>4. PutIsSound(puts[p]) OBVIOUS
<1>5. Past(V) /\ V > 0 /\ (AllAt(V) => before = HeldNow) BY <1>1, <1>4 DEF PutIsSound
<1>60. AllAt(V) BY <1>2 DEF CompareAndSet, AllAt
<1>6. AllAt(V) /\ CompareAndSet(V, value) = moved BY <1>2 DEF CompareAndSet, AllAt
<1>7. V \in 1..MaxVersion /\ V < MaxVersion
  <2>1. row0 \in Rows BY <1>3
  <2> QED BY <1>1, <1>5, <1>6, <2>1, SettingsAssumption DEF AllAt, Past
<1>8. /\ stored' = [row \in Rows |-> [value |-> value[row], version |-> V + 1]]
      /\ chronicle' = [chronicle EXCEPT ![V + 1] = value]
  <2>1. row0 \in Rows BY <1>3
  <2>2. moved[row0].version = V + 1 /\ [r \in Rows |-> moved[r].value] = value BY <1>3, <2>1
  <2> QED BY <1>2, <1>6, <2>2 DEF Settle
<1> HIDE DEF SettingsInv
<1> HIDE DEF row0, moved
<1>80. Advances(V, value) BY <1>1, <1>3, <1>60, <1>7, <1>8 DEF Advances
<1>9. /\ Rows' = Rows
      /\ (\A row \in Rows : stored[row].version \in 0..MaxVersion)'
      /\ (\A row \in Rows : stored[row].version = 0 => stored[row] = Absent)'
      /\ (chronicle = [v \in 0..MaxVersion |-> chronicle[v]])'
      /\ ChronicleIsHeld' /\ EntryIsSound' /\ FlightIsSound'
      /\ \A l \in Lookups : LookupIsSound(lookups[l])'
      /\ \A x : PutIsSound(x) => PutIsSound(x)'
      /\ (\A v : v = V + 1 => Past(v)') /\ chronicle'[V + 1] = value /\ chronicle'[V] = HeldNow
  BY <1>80, Advance
<1>10. PICK x : puts' = [puts EXCEPT ![p] = x] /\ PutIsSound(x)'
  <2> DEFINE x == [step |-> "written", version |-> V + 1, before |-> before, value |-> value]
  <2>1. PutIsSound(NoPut)' BY DEF PutIsSound, NoPut
  <2>2. PutIsSound(x)'
    <3>2. x.step = "written" /\ x.version = V + 1 /\ x.before = before /\ x.value = value OBVIOUS
    <3>3. before = chronicle'[V] /\ value = chronicle'[V + 1] /\ \A v : v = V + 1 => Past(v)'
      BY <1>5, <1>60, <1>9
    <3> HIDE DEF x
    <3>4. x.version - 1 = V /\ x.version > 0
      <4>1. V \in Nat BY <1>7, SettingsAssumption
      <4>2. \A n \in Nat : \A m : m = n + 1 => m - 1 = n /\ m > 0 OBVIOUS
      <4> QED BY <3>2, <4>1, <4>2
    <3> QED BY <3>2, <3>3, <3>4 DEF PutIsSound
  <2> HIDE DEF x
  <2> QED BY <1>2, <2>1, <2>2 DEF x
<1>11. /\ puts'[p] = x /\ \A q \in Puts \ {p} : puts'[q] = puts[q]
       /\ (puts = [q \in Puts |-> puts[q]])'
  <2>1. puts = [q \in Puts |-> puts[q]] BY DEF SettingsInv, SettingsTypeOK
  <2> QED BY <1>10, <2>1
<1>12. ASSUME NEW q \in Puts PROVE PutIsSound(puts[q])'
  <2>1. CASE q = p BY <1>10, <1>11, <2>1 DEF PutIsSound
  <2>2. CASE q # p BY <1>9, <1>11, <2>2 DEF SettingsInv, PutIsSound
  <2> QED BY <2>1, <2>2
<1>13. SettingsTypeOK' BY <1>1, <1>9, <1>11 DEF SettingsInv, SettingsTypeOK, EntryShape
<1> QED BY <1>9, <1>12, <1>13 DEF SettingsInv

LEMMA FallbackKeeps ==
  ASSUME SettingsInv, FallbackFollows PROVE SettingsInv'
<1>0. /\ family = "vision_fallback" /\ stored["model"].value = "known"
      /\ stored["model"].version < MaxVersion /\ ReadRows.ok
      /\ UNCHANGED <<family, entry, flight, lookups, puts>> BY DEF FallbackFollows
<1>1. "model" \in Rows BY <1>0 DEF Rows
<1>2. IsFound(ReadRows) BY RowsRead DEF SettingsInv, SettingsTypeOK
<1>3. stored["model"] # Absent
  <2>1. "known" # "" OBVIOUS
  <2>2. Absent.value = "" BY DEF Absent
  <2> QED BY <1>0, <2>1, <2>2
<1> PICK V : V = stored["model"].version OBVIOUS
<1>4. AllAt(V) BY <1>0, <1>1, <1>2, <1>3 DEF IsFound, Missing, AllAt
<1>5. V \in 1..MaxVersion /\ V < MaxVersion /\ V + 1 # V
  <2>1. V \in 0..MaxVersion /\ V # 0 BY <1>1, <1>3 DEF SettingsInv, SettingsTypeOK
  <2>2. \A v \in Nat : v + 1 # v OBVIOUS
  <2> QED BY <1>0, <2>1, <2>2, SettingsAssumption
<1>6. PICK name \in {"", "known"} :
        Settle([row \in Rows |->
            [value |-> IF row = "model" THEN name ELSE stored[row].value,
             version |-> stored[row].version + 1]]) BY DEF FallbackFollows
<1> PICK value : value = [row \in Rows |-> IF row = "model" THEN name ELSE stored[row].value]
  OBVIOUS
<1> DEFINE moved == [row \in Rows |-> [value |-> value[row], version |-> V + 1]]
<1>7. [row \in Rows |-> [value |-> IF row = "model" THEN name ELSE stored[row].value,
                         version |-> stored[row].version + 1]] = moved BY <1>4 DEF AllAt
<1>8. /\ stored' = [row \in Rows |-> [value |-> value[row], version |-> V + 1]]
      /\ chronicle' = [chronicle EXCEPT ![V + 1] = value]
  <2> DEFINE row0 == CHOOSE r \in Rows : TRUE
  <2>1. row0 \in Rows BY <1>1
  <2>2. moved[row0].version = V + 1 /\ [r \in Rows |-> moved[r].value] = value BY <2>1
  <2>3. moved # stored
    <3>1. moved["model"].version = V + 1 BY <1>1
    <3> HIDE DEF moved
    <3> QED BY <1>5, <3>1
  <2> QED BY <1>6, <1>7, <2>2, <2>3 DEF Settle
<1>9. value = [row \in Rows |-> value[row]] OBVIOUS
<1>10. /\ Rows' = Rows
       /\ (\A row \in Rows : stored[row].version \in 0..MaxVersion)'
       /\ (\A row \in Rows : stored[row].version = 0 => stored[row] = Absent)'
       /\ (chronicle = [v \in 0..MaxVersion |-> chronicle[v]])'
       /\ ChronicleIsHeld' /\ EntryIsSound' /\ FlightIsSound'
       /\ \A l \in Lookups : LookupIsSound(lookups[l])'
       /\ \A x : PutIsSound(x) => PutIsSound(x)'
  <2>1. Advances(V, value) BY <1>0, <1>4, <1>5, <1>8, <1>9 DEF Advances
  <2> QED BY <1>0, <2>1, Advance
<1>11. \A q \in Puts : PutIsSound(puts[q])' BY <1>0, <1>10 DEF SettingsInv, PutIsSound
<1>12. SettingsTypeOK' BY <1>0, <1>10 DEF SettingsInv, SettingsTypeOK, EntryShape
<1> QED BY <1>10, <1>11, <1>12 DEF SettingsInv

LEMMA SettingsStart == ASSUME SettingsInit PROVE SettingsInv
<1>1. family \in FamilyNames BY SettingsAssumption DEF SettingsInit, FamilyNames
<1>2. MaxVersion \in Nat /\ 0 \in 0..MaxVersion /\ 1 \in 0..MaxVersion /\ 2 \in 0..MaxVersion
  BY SettingsAssumption
<1>3. ASSUME NEW row \in Rows
      PROVE  stored[row] = Absent \/ stored[row].version \in {1, 2}
  <2>1. \A v : Seeded(v) = [r \in Rows |-> [value |-> DefaultSetting[r], version |-> v]]
    BY DEF Seeded
  <2>2. CASE stored \in {Seeded(1), Seeded(2), [r \in Rows |-> Absent]} BY <2>1, <2>2
  <2>3. CASE \E r \in Rows : \E torn \in Torn(r) : stored = [Seeded(1) EXCEPT ![r] = torn]
    <3>0. PICK r \in Rows : \E torn \in Torn(r) : stored = [Seeded(1) EXCEPT ![r] = torn] BY <2>3
    <3>1. PICK torn \in Torn(r) : stored = [Seeded(1) EXCEPT ![r] = torn] BY <3>0
    <3>2. torn = Absent \/ torn.version \in {1, 2} BY <3>1 DEF Torn
    <3>3. stored[row] = torn \/ stored[row].version = 1
      <4>1. CASE row = r BY <2>1, <3>1, <4>1
      <4>2. CASE row # r BY <2>1, <3>1, <4>2
      <4> QED BY <4>1, <4>2
    <3> QED BY <3>2, <3>3
  <2> QED BY <2>2, <2>3 DEF SettingsInit, Found
<1>4. /\ \A row \in Rows : stored[row].version \in 0..MaxVersion
      /\ \A row \in Rows : stored[row].version = 0 => stored[row] = Absent
  <2>1. Absent.version = 0 BY DEF Absent
  <2> QED BY <1>2, <1>3, <2>1
<1>5. Past(0) BY <1>2, <1>4 DEF Past
<1>6. /\ chronicle = [v \in 0..MaxVersion |-> IF v = 0 THEN DefaultSetting ELSE HeldNow]
      /\ lookups = [l \in Lookups |-> NoLookup] /\ puts = [p \in Puts |-> NoPut]
      /\ entry = NewSystemSettingsService /\ flight = Grounded BY DEF SettingsInit
<1>7. chronicle = [v \in 0..MaxVersion |-> chronicle[v]] /\ ChronicleIsHeld
  BY <1>2, <1>6 DEF ChronicleIsHeld
<1>8. lookups \in [Lookups -> LookupRecords] BY <1>6 DEF LookupRecords
<1>9. SettingsTypeOK
  <2>1. EntryShape(entry) BY <1>6 DEF EntryShape, NewSystemSettingsService
  <2>2. puts = [p \in Puts |-> puts[p]] BY <1>6
  <2> QED BY <1>1, <1>4, <1>7, <1>8, <2>1, <2>2 DEF SettingsTypeOK
<1>10. EntryIsSound
  BY <1>5, <1>6, <1>7 DEF EntryIsSound, SnapshotIsPast, NewSystemSettingsService, ChronicleIsHeld
<1>11. FlightIsSound BY <1>6 DEF FlightIsSound, Grounded
<1>12. \A l \in Lookups : LookupIsSound(lookups[l]) BY <1>6 DEF LookupIsSound, NoLookup
<1>13. \A p \in Puts : PutIsSound(puts[p]) BY <1>6 DEF PutIsSound, NoPut
<1> QED BY <1>7, <1>9, <1>10, <1>11, <1>12, <1>13 DEF SettingsInv

LEMMA SettingsKeeps == ASSUME SettingsInv, [SettingsNext]_settings PROVE SettingsInv'
<1>1. CASE UNCHANGED settings
  <2>1. UNCHANGED <<family, stored, entry, flight, lookups, puts, chronicle>> BY <1>1 DEF settings
  <2>2. SettingsTypeOK' BY <2>1, RowsStand DEF SettingsInv, SettingsTypeOK, EntryShape
  <2>3. EntryIsSound' /\ FlightIsSound'
    <3>1. \A x, v : SnapshotIsPast(x, v) => SnapshotIsPast(x, v)' BY <2>1, RowsStand
    <3> QED BY <2>1, <3>1 DEF SettingsInv, EntryIsSound, FlightIsSound
  <2>4. \A l \in Lookups : LookupIsSound(lookups[l])' BY <2>1 DEF SettingsInv, LookupIsSound
  <2>5. \A p \in Puts : PutIsSound(puts[p])'
    <3>1. \A x : PutIsSound(x) => PutIsSound(x)' BY <2>1, RowsStand
    <3> QED BY <2>1, <3>1 DEF SettingsInv, PutIsSound
  <2>6. ChronicleIsHeld' BY <2>1, RowsStand
  <2> QED BY <2>2, <2>3, <2>4, <2>5, <2>6 DEF SettingsInv
<1>2. CASE SettingsNext
  BY <1>2, LookupKeeps, RefreshReadsKeeps, refreshEntryKeeps, TimeKeeps, PutBegins, PutEnds,
     PutUpdateKeeps, FallbackKeeps DEF SettingsNext
<1> QED BY <1>1, <1>2

\* The invariant that the settings rest on: what is cached, read or in flight is a whole
\* snapshot the rows held under its version, never one of a version they have not
\* reached (publishIfNewer, refreshEntry, UpdateVersionedSettings).
THEOREM SettingsInvariance == SettingsSpec => []SettingsInv
<1>1. SettingsInit => SettingsInv BY SettingsStart
<1>2. SettingsInv /\ [SettingsNext]_settings => SettingsInv' BY SettingsKeeps
<1> QED BY <1>1, <1>2, PTL DEF SettingsSpec

\* A read through the cache is answered a whole snapshot no older than what had been
\* published when it began, and a write reports what its version replaced, for every
\* number of reads and writes and every version (GetX and PutX of the settings).
THEOREM SettingsHonest == SettingsSpec => []SettingsAreHonest
<1>1. SettingsInv => SettingsAreHonest
  <2> SUFFICES ASSUME SettingsInv PROVE SettingsAreHonest OBVIOUS
  <2>1. ReadsAreCurrent BY DEF SettingsInv, LookupIsSound, ReadsAreCurrent
  <2>2. WritesAreReported BY DEF SettingsInv, PutIsSound, WritesAreReported
  <2> QED BY <2>1, <2>2 DEF SettingsAreHonest
<1> QED BY <1>1, SettingsInvariance, PTL
----------------------------------------
(* Catalogue. *)

KeptRows == [state : {"kept"}, name : ModelNames, on : BOOLEAN, inputs : Inputs]

SaveSteps == {"patch", "flip", "delete", "choose", "import"}

SaveRecords ==
  {NoSave} \cup [step : SaveSteps, id : ModelIds \cup {0}, name : ModelNames \cup {""},
                 stale : BOOLEAN, row : KeptRows \cup {Unborn}]

\* What a request read of a row is still so, as far as the request relies on it.
Agrees(s) ==
  /\ s.step \in {"patch", "flip", "delete"} =>
      FindModelByID(s.id) /\ table[s.id].name = s.row.name /\ table[s.id].on = s.row.on
  /\ s.step = "import" /\ s.id # 0 =>
      FindModelByID(s.id) /\ table[s.id].inputs = s.row.inputs
  /\ s.step = "choose" => \E id \in ModelIds : FindModelByID(id) /\ table[id].name = s.name

\* A request read the row it goes by, and knows it still unless it was overtaken.
SaveIsSound(s) ==
  /\ s \in SaveRecords
  /\ s.step \in {"patch", "flip", "delete"} => s.id \in ModelIds /\ s.row \in KeptRows
  /\ s.step = "import" /\ s.id # 0 => s.id \in ModelIds /\ s.row \in KeptRows
  /\ s.step = "import" => s.name \in ModelNames
  /\ s # NoSave => (s.stale = TRUE \/ Agrees(s))

CatalogueInv ==
  /\ table \in [ModelIds -> KeptRows \cup {Unborn, Deleted}]
  /\ saves = [e \in Editors |-> saves[e]]
  /\ \A e \in Editors : SaveIsSound(saves[e])

LEMMA KeptRow ==
  ASSUME table \in [ModelIds -> KeptRows \cup {Unborn, Deleted}]
  PROVE  /\ \A id \in ModelIds : FindModelByID(id) <=> table[id] \in KeptRows
         /\ \A id \in ModelIds : table[id] = Unborn => ~FindModelByID(id)
         /\ Unborn \notin KeptRows /\ Deleted \notin KeptRows
<1>1. Unborn.state # "kept" /\ Deleted.state # "kept" BY DEF Unborn, Deleted
<1>2. \A r \in KeptRows : r.state = "kept" BY DEF KeptRows
<1> QED BY <1>1, <1>2 DEF FindModelByID

\* Where the kept rows stay as they are, what was read stays so.
LEMMA KeptStay ==
  ASSUME \A id \in ModelIds : FindModelByID(id) => table'[id] = table[id],
         NEW s, SaveIsSound(s)
  PROVE  SaveIsSound(s)'
<1>1. \A id \in ModelIds : FindModelByID(id) => FindModelByID(id)' BY DEF FindModelByID
<1>2. ASSUME s # NoSave, Agrees(s) PROVE Agrees(s)'
  <2>1. s.step \in {"patch", "flip", "delete"} \/ (s.step = "import" /\ s.id # 0) => s.id \in ModelIds
    BY DEF SaveIsSound
  <2> QED BY <1>1, <1>2, <2>1 DEF Agrees
<1> QED BY <1>2 DEF SaveIsSound

\* Where one row moves, what was read of the others stays so.
LEMMA OthersStay ==
  ASSUME NEW id \in ModelIds, \A i \in ModelIds \ {id} : table'[i] = table[i],
         NEW s, SaveIsSound(s), s # NoSave, s.id # id,
         FindModelByID(id) => table[id].name # s.name
  PROVE  SaveIsSound(s)'
<1>1. \A i \in ModelIds \ {id} : FindModelByID(i) => FindModelByID(i)' BY DEF FindModelByID
<1>2. ASSUME Agrees(s) PROVE Agrees(s)'
  <2>1. s.step \in {"patch", "flip", "delete"} \/ (s.step = "import" /\ s.id # 0) => s.id \in ModelIds
    BY DEF SaveIsSound
  <2> QED BY <1>1, <1>2, <2>1 DEF Agrees
<1> QED BY <1>2 DEF SaveIsSound

\* A request that is overtaken stays the request it was.
LEMMA Overtaken ==
  ASSUME CatalogueInv, NEW e \in Editors, NEW id, NEW steps, Overtaking(e, id, steps)
  PROVE  /\ (saves = [f \in Editors |-> saves[f]])' /\ saves'[e] = NoSave
         /\ \A f \in Editors :
              \/ saves'[f] = NoSave
              \/ saves'[f] # NoSave /\ saves[f] # NoSave /\ saves'[f].stale = TRUE
                 /\ SaveIsSound(saves[f])
                 /\ saves'[f] \in SaveRecords /\ saves'[f].step = saves[f].step
                 /\ saves'[f].id = saves[f].id /\ saves'[f].row = saves[f].row
                 /\ saves'[f].name = saves[f].name
              \/ saves'[f] = saves[f] /\ saves[f] # NoSave /\ SaveIsSound(saves[f])
                 /\ (saves[f].step \in steps =>
                      saves[f].id # id /\ (FindModelByID(id) => table[id].name # saves[f].name))
<1>1. saves' = [f \in Editors |->
        IF f = e THEN NoSave
        ELSE IF saves[f] # NoSave /\ saves[f].step \in steps
                /\ (saves[f].id = id \/ (FindModelByID(id) /\ table[id].name = saves[f].name))
             THEN [saves[f] EXCEPT !.stale = TRUE]
             ELSE saves[f]] BY DEF Overtaking
<1>2. ASSUME NEW f \in Editors
      PROVE  \/ saves'[f] = NoSave
             \/ saves'[f] # NoSave /\ saves[f] # NoSave /\ saves'[f].stale = TRUE
                /\ SaveIsSound(saves[f])
                /\ saves'[f] \in SaveRecords /\ saves'[f].step = saves[f].step
                /\ saves'[f].id = saves[f].id /\ saves'[f].row = saves[f].row
                /\ saves'[f].name = saves[f].name
             \/ saves'[f] = saves[f] /\ saves[f] # NoSave /\ SaveIsSound(saves[f])
                /\ (saves[f].step \in steps =>
                     saves[f].id # id /\ (FindModelByID(id) => table[id].name # saves[f].name))
  <2>1. SaveIsSound(saves[f]) BY DEF CatalogueInv
  <2>2. CASE f = e \/ saves[f] = NoSave BY <1>1, <2>2
  <2> DEFINE hit == saves[f].step \in steps
                /\ (saves[f].id = id \/ (FindModelByID(id) /\ table[id].name = saves[f].name))
  <2>3. CASE f # e /\ saves[f] # NoSave /\ hit
    <3>1. saves'[f] = [saves[f] EXCEPT !.stale = TRUE] BY <1>1, <2>3
    <3>2. saves[f] \in [step : SaveSteps, id : ModelIds \cup {0}, name : ModelNames \cup {""},
                        stale : BOOLEAN, row : KeptRows \cup {Unborn}]
      BY <2>1, <2>3 DEF SaveIsSound, SaveRecords
    <3> HIDE DEF hit
    <3>3. /\ saves'[f] \in [step : SaveSteps, id : ModelIds \cup {0}, name : ModelNames \cup {""},
                            stale : BOOLEAN, row : KeptRows \cup {Unborn}]
          /\ saves'[f].step = saves[f].step /\ saves'[f].id = saves[f].id
          /\ saves'[f].row = saves[f].row /\ saves'[f].name = saves[f].name
          /\ saves'[f].stale = TRUE BY <3>1, <3>2
    <3>4. saves'[f] # NoSave
      <4>1. saves'[f].step \in SaveSteps BY <3>3
      <4>2. NoSave.step \notin SaveSteps BY DEF NoSave, SaveSteps
      <4> QED BY <4>1, <4>2
    <3> QED BY <2>1, <2>3, <3>3, <3>4 DEF SaveRecords
  <2>4. CASE f # e /\ saves[f] # NoSave /\ ~hit
    <3>1. saves'[f] = saves[f] BY <1>1, <2>4
    <3> QED BY <2>1, <2>4, <3>1
  <2> QED BY <2>2, <2>3, <2>4
<1>3. (saves = [f \in Editors |-> saves[f]])' /\ saves'[e] = NoSave BY <1>1
<1> QED BY <1>2, <1>3

\* A row of a request is a kept one, still so or not.
LEMMA Ended == SaveIsSound(NoSave)'
<1>1. NoSave.step = "none" BY DEF NoSave
<1> QED BY <1>1 DEF SaveIsSound, SaveRecords

LEMMA StaleIsSound ==
  ASSUME NEW s, NEW r, SaveIsSound(s), r \in SaveRecords, r.stale = TRUE,
         r.step = s.step, r.id = s.id, r.row = s.row, r.name = s.name
  PROVE  SaveIsSound(r)'
BY DEF SaveIsSound

\* The invariant after a request that moved one row and overtook who relied on it.
LEMMA FinishingKeeps ==
  ASSUME CatalogueInv, NEW e \in Editors, NEW id \in ModelIds, Finishing(e, id),
         NEW row \in KeptRows \cup {Unborn, Deleted}, table' = [table EXCEPT ![id] = row]
  PROVE  CatalogueInv'
<1>1. (table \in [ModelIds -> KeptRows \cup {Unborn, Deleted}])' BY DEF CatalogueInv
<1>2. \A i \in ModelIds \ {id} : table'[i] = table[i] BY DEF CatalogueInv
<1>3. Overtaking(e, id, SaveSteps) BY DEF Finishing, SaveSteps
<1>4. ASSUME NEW f \in Editors PROVE SaveIsSound(saves[f])'
  <2>1. CASE saves'[f] = NoSave BY <2>1, Ended DEF SaveIsSound
  <2>2. CASE saves'[f].stale = TRUE /\ SaveIsSound(saves[f]) /\ saves'[f] \in SaveRecords
             /\ saves'[f].step = saves[f].step
             /\ saves'[f].id = saves[f].id /\ saves'[f].row = saves[f].row
             /\ saves'[f].name = saves[f].name
    <3>1. \A s, r : SaveIsSound(s) /\ r \in SaveRecords /\ r.stale = TRUE
              /\ r.step = s.step /\ r.id = s.id /\ r.row = s.row /\ r.name = s.name => SaveIsSound(r)'
      BY StaleIsSound
    <3> QED BY <2>2, <3>1 DEF SaveIsSound
  <2>3. CASE saves'[f] = saves[f] /\ saves[f] # NoSave /\ SaveIsSound(saves[f])
             /\ (saves[f].step \in SaveSteps =>
                   saves[f].id # id /\ (FindModelByID(id) => table[id].name # saves[f].name))
    <3>1. saves[f].step \in SaveSteps BY <2>3 DEF SaveIsSound, SaveRecords
    <3>2. \A s : SaveIsSound(s) /\ s # NoSave /\ s.id # id
                 /\ (FindModelByID(id) => table[id].name # s.name) => SaveIsSound(s)'
      BY <1>2, OthersStay
    <3> QED BY <2>3, <3>1, <3>2 DEF SaveIsSound
  <2>4. \/ saves'[f] = NoSave
        \/ saves'[f] # NoSave /\ saves[f] # NoSave /\ saves'[f].stale = TRUE
           /\ SaveIsSound(saves[f])
           /\ saves'[f] \in SaveRecords /\ saves'[f].step = saves[f].step
           /\ saves'[f].id = saves[f].id /\ saves'[f].row = saves[f].row
           /\ saves'[f].name = saves[f].name
        \/ saves'[f] = saves[f] /\ saves[f] # NoSave /\ SaveIsSound(saves[f])
           /\ (saves[f].step \in SaveSteps =>
                 saves[f].id # id /\ (FindModelByID(id) => table[id].name # saves[f].name))
    BY <1>3, Overtaken
  <2> QED BY <2>1, <2>2, <2>3, <2>4
<1>5. (saves = [f \in Editors |-> saves[f]])' BY <1>3, Overtaken
<1> QED BY <1>1, <1>4, <1>5 DEF CatalogueInv

\* The invariant after a step that moved no kept row, and one request at most.
LEMMA MovingKeeps ==
  ASSUME CatalogueInv, \A id \in ModelIds : FindModelByID(id) => table'[id] = table[id],
         (table \in [ModelIds -> KeptRows \cup {Unborn, Deleted}])',
         NEW e \in Editors, NEW s, SaveIsSound(s)', saves' = [saves EXCEPT ![e] = s]
  PROVE  CatalogueInv'
<1>1. saves' = [f \in Editors |-> IF f = e THEN s ELSE saves[f]] BY DEF CatalogueInv
<1>2. \A r : SaveIsSound(r) => SaveIsSound(r)' BY KeptStay
<1>3. ASSUME NEW f \in Editors PROVE SaveIsSound(saves[f])'
  <2>1. CASE f = e BY <1>1, <2>1 DEF SaveIsSound
  <2>2. CASE f # e
    <3>1. saves'[f] = saves[f] /\ SaveIsSound(saves[f]) BY <1>1, <2>2 DEF CatalogueInv
    <3> QED BY <1>2, <3>1 DEF SaveIsSound
  <2> QED BY <2>1, <2>2
<1>4. (saves = [f \in Editors |-> saves[f]])' BY <1>1
<1> QED BY <1>3, <1>4 DEF CatalogueInv

LEMMA StandingKeeps ==
  ASSUME CatalogueInv, \A id \in ModelIds : FindModelByID(id) => table'[id] = table[id],
         (table \in [ModelIds -> KeptRows \cup {Unborn, Deleted}])', saves' = saves
  PROVE  CatalogueInv'
<1>1. \A r : SaveIsSound(r) => SaveIsSound(r)' BY KeptStay
<1>2. ASSUME NEW f \in Editors PROVE SaveIsSound(saves[f])'
  <2>1. SaveIsSound(saves[f]) BY DEF CatalogueInv
  <2> QED BY <1>1, <2>1 DEF SaveIsSound
<1> QED BY <1>2 DEF CatalogueInv

LEMMA LeavingKeeps == ASSUME CatalogueInv, NEW e \in Editors, Leaving(e) PROVE CatalogueInv'
<1>1. (table \in [ModelIds -> KeptRows \cup {Unborn, Deleted}])' BY DEF CatalogueInv, Leaving
<1> QED BY <1>1, Ended, MovingKeeps DEF Leaving

\* A request that has just read a row, or found that there is none.
LEMMA ReadingKeeps ==
  ASSUME CatalogueInv, NEW e \in Editors, NEW step \in SaveSteps, NEW id \in ModelIds \cup {0},
         NEW name \in ModelNames \cup {""}, Reading(e, step, id, name),
         step \in {"patch", "flip", "delete"} => FindModelByID(id) /\ id # 0,
         step = "import" /\ id # 0 => FindModelByID(id),
         step = "import" => name \in ModelNames,
         step = "choose" => id = 0 /\ FindModelByName(name) # {}
  PROVE  CatalogueInv'
<1> PICK row : row = IF id = 0 THEN Unborn ELSE table[id] OBVIOUS
<1> DEFINE s == [step |-> step, id |-> id, name |-> name, stale |-> FALSE, row |-> row]
<1>1. saves' = [saves EXCEPT ![e] = s] /\ UNCHANGED <<table, fallback>> BY DEF Reading
<1>2. (table \in [ModelIds -> KeptRows \cup {Unborn, Deleted}])' BY <1>1 DEF CatalogueInv
<1>3. step # "choose" /\ id # 0 => id \in ModelIds /\ row = table[id] /\ row \in KeptRows
  BY KeptRow DEF CatalogueInv, SaveSteps
<1>4. row \in KeptRows \cup {Unborn} BY <1>3 DEF SaveSteps
<1>5. /\ s \in SaveRecords /\ s.step = step /\ s.id = id /\ s.name = name /\ s.row = row
  BY <1>4 DEF SaveRecords
<1> HIDE DEF s
<1>6. step = "choose" => \E i \in ModelIds : FindModelByID(i) /\ table[i].name = name
  BY DEF FindModelByName
<1>7. Agrees(s) BY <1>3, <1>5, <1>6 DEF Agrees
<1>8. SaveIsSound(s) BY <1>3, <1>5, <1>7 DEF SaveIsSound
<1>9. SaveIsSound(s)'
  <2>1. \A r : SaveIsSound(r) => SaveIsSound(r)' BY <1>1, KeptStay
  <2> QED BY <1>8, <2>1
<1> QED BY <1>1, <1>2, <1>9, MovingKeeps

LEMMA ReadersKeep ==
  ASSUME CatalogueInv, NEW e \in Editors,
         \/ \E id \in ModelIds :
              PatchModel(e, id) \/ PatchModelStatus(e, id) \/ DeleteModelById(e, id)
         \/ \E name \in ModelNames : ChooseFallback(e, name) \/ PostProviderModelsImport(e, name)
  PROVE  CatalogueInv' /\ UNCHANGED <<table, fallback>>
<1>0. 0 \notin ModelIds BY CatalogueAssumption
<1>1. ASSUME NEW id \in ModelIds, PatchModel(e, id) PROVE CatalogueInv'
  BY <1>0, <1>1, ReadingKeeps DEF PatchModel, SaveSteps
<1>2. ASSUME NEW id \in ModelIds, PatchModelStatus(e, id) PROVE CatalogueInv'
  BY <1>0, <1>2, ReadingKeeps DEF PatchModelStatus, SaveSteps
<1>3. ASSUME NEW id \in ModelIds, DeleteModelById(e, id) PROVE CatalogueInv'
  BY <1>0, <1>3, ReadingKeeps DEF DeleteModelById, SaveSteps
<1>4. ASSUME NEW name \in ModelNames, ChooseFallback(e, name) PROVE CatalogueInv'
  BY <1>4, ReadingKeeps DEF ChooseFallback, SaveSteps
<1>5. ASSUME NEW name \in ModelNames, PostProviderModelsImport(e, name) PROVE CatalogueInv'
  <2>1. PICK id \in IF FindModelByName(name) = {} THEN {0} ELSE FindModelByName(name) :
            Reading(e, "import", id, name) BY <1>5 DEF PostProviderModelsImport
  <2>2. id = 0 \/ (id \in ModelIds /\ FindModelByID(id)) BY <2>1 DEF FindModelByName
  <2> QED BY <2>1, <2>2, ReadingKeeps DEF SaveSteps
<1>6. UNCHANGED <<table, fallback>>
  BY DEF PatchModel, PatchModelStatus, DeleteModelById, ChooseFallback, PostProviderModelsImport,
         Reading
<1> QED BY <1>1, <1>2, <1>3, <1>4, <1>5, <1>6
----------------------------------------
(* What EditsChangeWhatTheyAsk says of one step, a column at a time. *)

NameAsked ==
  \A id \in ModelIds : FindModelByID(id) /\ FindModelByID(id)' =>
      (table'[id].name # table[id].name =>
          \E e \in Editors : Ends(e, "patch") \/ Late(e, "flip"))

StatusAsked ==
  \A id \in ModelIds : FindModelByID(id) /\ FindModelByID(id)' =>
      (table'[id].on # table[id].on =>
          \E e \in Editors : Ends(e, "flip") \/ Late(e, "patch"))

InputsAsked ==
  \A id \in ModelIds : FindModelByID(id) /\ FindModelByID(id)' =>
      (table'[id].inputs # table[id].inputs =>
          \E e \in Editors :
              \/ Ends(e, "patch") \/ Late(e, "import")
              \/ Ends(e, "import") /\ table[id].inputs = "undeclared")

FallbackAsked ==
  fallback # "" /\ FindModelByName(fallback) # {} =>
      \/ fallback' = ""
      \/ \E id \in ModelIds : FindModelByID(id)' /\ table'[id].name = fallback'
      \/ \E e \in Editors :
          Late(e, "patch") \/ Late(e, "flip") \/ Late(e, "delete") \/ Late(e, "choose")

ColumnsAsked == NameAsked /\ StatusAsked /\ InputsAsked /\ FallbackAsked

\* A step that moves no kept row changes no column; the fallback's model stays.
LEMMA NothingMoves ==
  ASSUME \A id \in ModelIds : FindModelByID(id) => table'[id] = table[id]
  PROVE  /\ NameAsked /\ StatusAsked /\ InputsAsked
         /\ fallback' = fallback => FallbackAsked
<1>1. \A id \in ModelIds : FindModelByID(id) => FindModelByID(id)' BY DEF FindModelByID
<1>2. fallback' = fallback => FallbackAsked BY <1>1 DEF FallbackAsked, FindModelByName
<1> QED BY <1>2 DEF NameAsked, StatusAsked, InputsAsked

LEMMA CreatingKeeps ==
  ASSUME CatalogueInv,
         \/ \E name \in ModelNames : CreateModel(name)
         \/ \E names \in SUBSET ModelNames : CreateModelsBatch(names)
  PROVE  CatalogueInv' /\ ColumnsAsked
<1> USE DEF CatalogueInv
<1>1. \A name \in ModelNames, inputs \in Inputs : Row(name, inputs) \in KeptRows
  BY DEF Row, KeptRows
<1>2. "undeclared" \in Inputs BY DEF Inputs
<1>3. \A n : NextIds(n) \subseteq {id \in ModelIds : table[id] = Unborn} BY DEF NextIds
<1>4. ASSUME NEW name \in ModelNames, CreateModel(name)
      PROVE  /\ (table \in [ModelIds -> KeptRows \cup {Unborn, Deleted}])'
             /\ \A id \in ModelIds : FindModelByID(id) => table'[id] = table[id]
             /\ UNCHANGED <<fallback, saves>>
  <2>1. PICK id \in NextIds(1) : table' = [table EXCEPT ![id] = Row(name, "undeclared")]
    BY <1>4 DEF CreateModel
  <2>2. id \in ModelIds /\ ~FindModelByID(id) BY <1>3, KeptRow
  <2> QED BY <1>1, <1>2, <1>4, <2>1, <2>2 DEF CreateModel
<1>5. ASSUME NEW names \in SUBSET ModelNames, CreateModelsBatch(names)
      PROVE  /\ (table \in [ModelIds -> KeptRows \cup {Unborn, Deleted}])'
             /\ \A id \in ModelIds : FindModelByID(id) => table'[id] = table[id]
             /\ UNCHANGED <<fallback, saves>>
  <2> DEFINE new == {name \in names : FindModelByName(name) = {}}
  <2>1. PICK ids \in [new -> NextIds(Cardinality(new))] :
            table' = [id \in ModelIds |->
                        IF \E name \in new : ids[name] = id
                        THEN Row(CHOOSE name \in new : ids[name] = id, "undeclared")
                        ELSE table[id]] BY <1>5 DEF CreateModelsBatch
  <2>2. \A name \in new : ids[name] \in ModelIds /\ ~FindModelByID(ids[name]) BY <1>3, KeptRow
  <2>3. \A id \in ModelIds : FindModelByID(id) => table'[id] = table[id] BY <2>1, <2>2
  <2>4. ASSUME NEW id \in ModelIds PROVE table'[id] \in KeptRows \cup {Unborn, Deleted}
    <3>1. CASE \E name \in new : ids[name] = id
      <4> DEFINE name == CHOOSE n \in new : ids[n] = id
      <4>1. name \in new BY <3>1
      <4>2. name \in ModelNames BY <4>1
      <4>3. table'[id] = Row(name, "undeclared") BY <2>1, <3>1
      <4> HIDE DEF name
      <4> QED BY <1>1, <1>2, <4>2, <4>3
    <3>2. CASE ~\E name \in new : ids[name] = id BY <2>1, <3>2
    <3> QED BY <3>1, <3>2
  <2>5. (table \in [ModelIds -> KeptRows \cup {Unborn, Deleted}])' BY <2>1, <2>4
  <2> QED BY <1>5, <2>3, <2>5 DEF CreateModelsBatch
<1>6. /\ (table \in [ModelIds -> KeptRows \cup {Unborn, Deleted}])'
      /\ \A id \in ModelIds : FindModelByID(id) => table'[id] = table[id]
      /\ UNCHANGED <<fallback, saves>> BY <1>4, <1>5
<1> HIDE DEF CatalogueInv
<1> QED BY <1>6, StandingKeeps, NothingMoves DEF ColumnsAsked

\* What is written over a kept row.
LEMMA Rewritten ==
  ASSUME CatalogueInv, NEW id \in ModelIds, FindModelByID(id),
         NEW name \in ModelNames, NEW on \in BOOLEAN, NEW inputs \in Inputs \cup {"keep"}
  PROVE  \E row \in KeptRows :
              /\ UpdateModelRow(id, name, on, inputs) = [table EXCEPT ![id] = row]
              /\ row.name = name /\ row.on = on
              /\ row.inputs = IF inputs = "keep" THEN table[id].inputs ELSE inputs
<1> DEFINE row == [state |-> "kept", name |-> name, on |-> on,
                   inputs |-> IF inputs = "keep" THEN table[id].inputs ELSE inputs]
<1>1. table[id] \in KeptRows BY KeptRow DEF CatalogueInv
<1>2. row \in KeptRows BY <1>1 DEF KeptRows
<1>3. row.name = name /\ row.on = on
      /\ row.inputs = IF inputs = "keep" THEN table[id].inputs ELSE inputs BY <1>1 DEF KeptRows
<1>4. UpdateModelRow(id, name, on, inputs) = [table EXCEPT ![id] = row] BY DEF UpdateModelRow
<1> HIDE DEF row
<1> QED BY <1>2, <1>3, <1>4

\* A kept row's rewriting, by the request that relies on what it read of it.
LEMMA RewriterKeeps ==
  ASSUME CatalogueInv, NEW e \in Editors, NEW step \in {"patch", "flip"}, saves[e].step = step,
         NEW name \in ModelNames, NEW on \in BOOLEAN, NEW inputs \in Inputs \cup {"keep"},
         table' = UpdateModelRow(saves[e].id, name, on, inputs), Finishing(e, saves[e].id),
         step = "patch" => on = saves[e].row.on
             /\ fallback' = RenameVisionFallbackModel(saves[e].row.name, name),
         step = "flip" => name = saves[e].row.name /\ inputs = "keep" /\ fallback' = fallback
  PROVE  CatalogueInv' /\ ColumnsAsked
<1> PICK id : id = saves[e].id OBVIOUS
<1>1. SaveIsSound(saves[e]) /\ saves[e] # NoSave BY DEF CatalogueInv, NoSave
<1>2. id \in ModelIds BY <1>1 DEF SaveIsSound
<1>3. Ends(e, step)
  <2>1. saves'[e] = NoSave BY Overtaken DEF Finishing
  <2> QED BY <1>1, <2>1 DEF Ends
<1>4. Late(e, step) \/ Agrees(saves[e]) BY <1>1, <1>3 DEF SaveIsSound, Late
<1>5. CASE ~FindModelByID(id)
  <2>1. CatalogueInv'
    <3> PICK row : row = table[id] OBVIOUS
    <3>1. row \in KeptRows \cup {Unborn, Deleted} BY <1>2 DEF CatalogueInv
    <3>2. table' = [table EXCEPT ![id] = row] BY <1>5 DEF UpdateModelRow, CatalogueInv
    <3> QED BY <1>2, <3>1, <3>2, FinishingKeeps
  <2>2. table' = table BY <1>5 DEF UpdateModelRow
  <2>3. Late(e, step) BY <1>4, <1>5 DEF Agrees
  <2>4. FallbackAsked BY <2>3 DEF FallbackAsked
  <2> QED BY <2>1, <2>2, <2>4, NothingMoves DEF ColumnsAsked
<1>6. CASE FindModelByID(id)
  <2>1. PICK row \in KeptRows :
            /\ table' = [table EXCEPT ![id] = row]
            /\ row.name = name /\ row.on = on
            /\ row.inputs = IF inputs = "keep" THEN table[id].inputs ELSE inputs
    BY <1>2, <1>6, Rewritten
  <2>2. CatalogueInv' BY <1>2, <2>1, FinishingKeeps
  <2>3. table'[id] = row /\ \A i \in ModelIds \ {id} : table'[i] = table[i]
    BY <1>2, <2>1 DEF CatalogueInv
  <2>4. Agrees(saves[e]) => table[id].name = saves[e].row.name /\ table[id].on = saves[e].row.on
    BY DEF Agrees
  <2>5. NameAsked BY <1>3, <1>4, <2>1, <2>3, <2>4 DEF NameAsked
  <2>6. StatusAsked BY <1>3, <1>4, <2>1, <2>3, <2>4 DEF StatusAsked
  <2>7. InputsAsked BY <1>3, <2>1, <2>3 DEF InputsAsked
  <2>8. FallbackAsked
    <3> SUFFICES ASSUME fallback # "", FindModelByName(fallback) # {}, Agrees(saves[e])
                 PROVE  \E i \in ModelIds : FindModelByID(i)' /\ table'[i].name = fallback'
      BY <1>4 DEF FallbackAsked
    <3>1. PICK i \in ModelIds : FindModelByID(i) /\ table[i].name = fallback
      BY DEF FindModelByName
    <3>2. FindModelByID(id)' BY <2>1, <2>3 DEF FindModelByID, KeptRows
    <3>3. i # id => FindModelByID(i)' /\ table'[i].name = fallback BY <2>3, <3>1 DEF FindModelByID
    <3>4. CASE fallback = table[id].name /\ step = "patch"
      BY <1>2, <2>1, <2>3, <2>4, <3>2, <3>4 DEF RenameVisionFallbackModel
    <3>5. CASE fallback = table[id].name /\ step = "flip" BY <1>2, <2>1, <2>3, <2>4, <3>2, <3>5
    <3>6. CASE fallback # table[id].name
      <4>1. fallback' = fallback BY <2>4, <3>6 DEF RenameVisionFallbackModel
      <4> QED BY <3>1, <3>3, <3>6, <4>1
    <3> QED BY <3>4, <3>5, <3>6
  <2> QED BY <2>2, <2>5, <2>6, <2>7, <2>8 DEF ColumnsAsked
<1> QED BY <1>5, <1>6

LEMMA LeavingAsks ==
  ASSUME CatalogueInv, NEW e \in Editors, Leaving(e) PROVE CatalogueInv' /\ ColumnsAsked
BY LeavingKeeps, NothingMoves DEF Leaving, ColumnsAsked

LEMMA EditingKeeps ==
  ASSUME CatalogueInv, NEW e \in Editors,
         \/ \E name \in ModelNames, inputs \in Inputs \cup {"keep"} : UpdateModel(e, name, inputs)
         \/ \E on \in BOOLEAN : SetModelStatus(e, on)
  PROVE  CatalogueInv' /\ ColumnsAsked
<1>1. SaveIsSound(saves[e]) BY DEF CatalogueInv
<1>2. saves[e].step \in {"patch", "flip"} =>
        saves[e].row.name \in ModelNames /\ saves[e].row.on \in BOOLEAN
  BY <1>1 DEF SaveIsSound, KeptRows
<1>3. ASSUME NEW name \in ModelNames, NEW inputs \in Inputs \cup {"keep"},
             UpdateModel(e, name, inputs)
      PROVE  CatalogueInv' /\ ColumnsAsked
  <2>1. saves[e].step = "patch" BY <1>3 DEF UpdateModel
  <2>2. CASE Leaving(e) BY <2>2, LeavingAsks
  <2>3. CASE ~Leaving(e)
    <3>1. /\ table' = UpdateModelRow(saves[e].id, name, saves[e].row.on, inputs)
          /\ fallback' = RenameVisionFallbackModel(saves[e].row.name, name)
          /\ Finishing(e, saves[e].id) BY <1>3, <2>3 DEF UpdateModel
    <3>2. PICK on \in BOOLEAN : on = saves[e].row.on BY <1>2, <2>1
    <3> QED BY <2>1, <3>1, <3>2, RewriterKeeps
  <2> QED BY <2>2, <2>3
<1>4. ASSUME NEW on \in BOOLEAN, SetModelStatus(e, on) PROVE CatalogueInv' /\ ColumnsAsked
  <2>1. saves[e].step = "flip" BY <1>4 DEF SetModelStatus
  <2>2. CASE Leaving(e) BY <2>2, LeavingAsks
  <2>3. CASE ~Leaving(e)
    <3>1. /\ table' = UpdateModelRow(saves[e].id, saves[e].row.name, on, "keep")
          /\ fallback' = fallback /\ Finishing(e, saves[e].id) BY <1>4, <2>3 DEF SetModelStatus
    <3>2. PICK name \in ModelNames : name = saves[e].row.name BY <1>2, <2>1
    <3> QED BY <2>1, <3>1, <3>2, RewriterKeeps
  <2> QED BY <2>2, <2>3
<1> QED BY <1>3, <1>4

LEMMA DeletionKeeps ==
  ASSUME CatalogueInv, NEW e \in Editors, DeleteModelCascade(e) PROVE CatalogueInv' /\ ColumnsAsked
<1> PICK id : id = saves[e].id OBVIOUS
<1>1. /\ saves[e].step = "delete" /\ table' = [table EXCEPT ![id] = Deleted]
      /\ fallback' = ClearVisionFallbackModel(saves[e].row.name)
      /\ FindModelByID(id) => Finishing(e, id)
      /\ ~FindModelByID(id) => saves' = [saves EXCEPT ![e] = NoSave] BY DEF DeleteModelCascade
<1>2. SaveIsSound(saves[e]) /\ saves[e] # NoSave BY <1>1 DEF CatalogueInv, NoSave
<1>3. id \in ModelIds BY <1>1, <1>2 DEF SaveIsSound
<1>4. table'[id] = Deleted /\ \A i \in ModelIds \ {id} : table'[i] = table[i]
  BY <1>1, <1>3 DEF CatalogueInv
<1>5. ~FindModelByID(id)' BY <1>4 DEF FindModelByID, Deleted
<1>6. CatalogueInv'
  <2>1. CASE FindModelByID(id) BY <1>1, <1>3, <2>1, FinishingKeeps
  <2>2. CASE ~FindModelByID(id)
    <3>1. (table \in [ModelIds -> KeptRows \cup {Unborn, Deleted}])' BY <1>1 DEF CatalogueInv
    <3>2. \A i \in ModelIds : FindModelByID(i) => table'[i] = table[i] BY <1>4, <2>2
    <3> QED BY <1>1, <2>2, <3>1, <3>2, Ended, MovingKeeps
  <2> QED BY <2>1, <2>2
<1>7. NameAsked /\ StatusAsked /\ InputsAsked
  BY <1>4, <1>5 DEF NameAsked, StatusAsked, InputsAsked
<1>8. saves'[e] = NoSave
  <2>1. CASE FindModelByID(id) BY <1>1, <2>1, Overtaken DEF Finishing
  <2>2. CASE ~FindModelByID(id) BY <1>1, <2>2 DEF CatalogueInv
  <2> QED BY <2>1, <2>2
<1>9. Late(e, "delete") \/ Agrees(saves[e]) BY <1>1, <1>2, <1>8 DEF SaveIsSound, Late, Ends
<1>10. FallbackAsked
  <2> SUFFICES ASSUME fallback # "", FindModelByName(fallback) # {}, Agrees(saves[e]), fallback' # ""
               PROVE  \E i \in ModelIds : FindModelByID(i)' /\ table'[i].name = fallback'
    BY <1>9 DEF FallbackAsked
  <2>1. table[id].name = saves[e].row.name BY <1>1 DEF Agrees
  <2>2. fallback # table[id].name /\ fallback' = fallback
    BY <1>1, <2>1 DEF ClearVisionFallbackModel
  <2>3. PICK i \in ModelIds : FindModelByID(i) /\ table[i].name = fallback BY DEF FindModelByName
  <2> QED BY <1>4, <2>2, <2>3 DEF FindModelByID
<1> QED BY <1>6, <1>7, <1>10 DEF ColumnsAsked

LEMMA ChoosingKeeps ==
  ASSUME CatalogueInv, NEW e \in Editors, SaveFallback(e) PROVE CatalogueInv' /\ ColumnsAsked
<1>1. CASE Leaving(e) BY <1>1, LeavingAsks
<1>2. CASE ~Leaving(e)
  <2>1. /\ saves[e].step = "choose" /\ fallback' = saves[e].name
        /\ saves' = [saves EXCEPT ![e] = NoSave] /\ table' = table BY <1>2 DEF SaveFallback
  <2>2. CatalogueInv'
    <3>1. (table \in [ModelIds -> KeptRows \cup {Unborn, Deleted}])' BY <2>1 DEF CatalogueInv
    <3> QED BY <2>1, <3>1, Ended, MovingKeeps
  <2>3. SaveIsSound(saves[e]) /\ saves[e] # NoSave /\ saves'[e] = NoSave
    BY <2>1 DEF CatalogueInv, NoSave
  <2>4. Late(e, "choose") \/ Agrees(saves[e]) BY <2>1, <2>3 DEF SaveIsSound, Late, Ends
  <2>5. FallbackAsked BY <2>1, <2>4 DEF FallbackAsked, Agrees, FindModelByID
  <2> QED BY <2>1, <2>2, <2>5, NothingMoves DEF ColumnsAsked
<1> QED BY <1>1, <1>2

LEMMA ImportingKeeps ==
  ASSUME CatalogueInv, NEW e \in Editors,
         \/ ImportProviderModels(e)
         \/ \E declared \in Inputs : ImportCreates(e, declared)
  PROVE  CatalogueInv' /\ ColumnsAsked
<1>1. SaveIsSound(saves[e]) BY DEF CatalogueInv
<1>2. ASSUME ImportProviderModels(e), ~Leaving(e) PROVE CatalogueInv' /\ ColumnsAsked
  <2>1. PICK id \in FindModelByName(saves[e].name) :
            /\ saves' = [saves EXCEPT ![e] = [@ EXCEPT !.id = id, !.row = table[id], !.stale = FALSE]]
            /\ UNCHANGED <<table, fallback>> BY <1>2 DEF ImportProviderModels
  <2>2. id \in ModelIds /\ FindModelByID(id) /\ table[id] \in KeptRows
    BY KeptRow DEF FindModelByName, CatalogueInv
  <2>3. PICK row \in KeptRows : row = table[id] BY <2>2
  <2>4. saves[e].step = "import" BY <1>2 DEF ImportProviderModels
  <2>5. saves[e] \in [step : SaveSteps, id : ModelIds \cup {0}, name : ModelNames \cup {""},
                      stale : BOOLEAN, row : KeptRows \cup {Unborn}]
    <3>1. NoSave.step = "none" BY DEF NoSave
    <3>2. saves[e] # NoSave BY <2>4, <3>1
    <3> QED BY <1>1, <3>2 DEF SaveIsSound, SaveRecords
  <2> DEFINE s == [saves[e] EXCEPT !.id = id, !.row = row, !.stale = FALSE]
  <2>6. /\ s \in [step : SaveSteps, id : ModelIds \cup {0}, name : ModelNames \cup {""},
                  stale : BOOLEAN, row : KeptRows \cup {Unborn}]
        /\ s.step = "import" /\ s.id = id /\ s.row = row /\ s.name = saves[e].name
    BY <2>2, <2>4, <2>5
  <2>11. saves[e].name \in ModelNames BY <1>1, <2>4 DEF SaveIsSound
  <2>7. saves' = [saves EXCEPT ![e] = s] BY <2>1, <2>3
  <2> HIDE DEF s
  <2>8. Agrees(s) BY <2>2, <2>3, <2>6 DEF Agrees
  <2>9. SaveIsSound(s) BY <2>2, <2>6, <2>8, <2>11 DEF SaveIsSound, SaveRecords
  <2>10. CatalogueInv'
    <3>1. (table \in [ModelIds -> KeptRows \cup {Unborn, Deleted}])' BY <2>1 DEF CatalogueInv
    <3>2. \A i \in ModelIds : FindModelByID(i) => table'[i] = table[i] BY <2>1
    <3>3. PICK r : r = s OBVIOUS
    <3>4. \A x : SaveIsSound(x) => SaveIsSound(x)' BY <3>2, KeptStay
    <3>5. SaveIsSound(r)' BY <2>9, <3>3, <3>4
    <3> QED BY <2>7, <3>1, <3>2, <3>3, <3>5, MovingKeeps
  <2> QED BY <2>1, <2>10, NothingMoves DEF ColumnsAsked
<1>3. ASSUME NEW declared \in Inputs, ImportCreates(e, declared) PROVE CatalogueInv' /\ ColumnsAsked
  <2>1. PICK id \in NextIds(1) : table' = [table EXCEPT ![id] = Row(saves[e].name, declared)]
    BY <1>3 DEF ImportCreates
  <2>2. id \in ModelIds /\ ~FindModelByID(id) BY KeptRow DEF NextIds, CatalogueInv
  <2>3. saves[e].step = "import" /\ saves[e].id = 0 /\ FindModelByName(saves[e].name) = {}
        /\ saves' = [saves EXCEPT ![e] = NoSave] /\ fallback' = fallback BY <1>3 DEF ImportCreates
  <2>4. Row(saves[e].name, declared) \in KeptRows BY <1>1, <2>3 DEF SaveIsSound, Row, KeptRows
  <2>5. (table \in [ModelIds -> KeptRows \cup {Unborn, Deleted}])'
    BY <2>1, <2>2, <2>4 DEF CatalogueInv
  <2>6. \A i \in ModelIds : FindModelByID(i) => table'[i] = table[i]
    BY <2>1, <2>2 DEF CatalogueInv
  <2>7. CatalogueInv' BY <2>3, <2>5, <2>6, Ended, MovingKeeps
  <2> QED BY <2>3, <2>6, <2>7, NothingMoves DEF ColumnsAsked
<1> QED BY <1>2, <1>3, LeavingAsks

\* The import writes one column, and overtakes only the imports that read it.
LEMMA FillingKeeps ==
  ASSUME CatalogueInv, NEW e \in Editors, NEW declared \in Inputs, ImportFills(e, declared)
  PROVE  CatalogueInv' /\ ColumnsAsked
<1>1. CASE Leaving(e) BY <1>1, LeavingAsks
<1>2. CASE ~Leaving(e)
  <2>0. PICK id : id = saves[e].id OBVIOUS
  <2>1. /\ saves[e].step = "import" /\ id # 0 /\ FindModelByID(id)
        /\ declared # "undeclared" /\ ~adjudicateCapabilities(saves[e].row, declared)
        /\ saves[e].row.inputs # declared
        /\ table' = UpdateModelCapabilityFill(id, saves[e].row, declared)
        /\ Overtaking(e, id, {"import"}) /\ fallback' = fallback BY <1>2, <2>0 DEF ImportFills
  <2>2. SaveIsSound(saves[e]) /\ saves[e] # NoSave BY <2>1 DEF CatalogueInv, NoSave
  <2>3. id \in ModelIds BY <2>0, <2>1, <2>2 DEF SaveIsSound
  <2>4. table[id] \in KeptRows BY <2>1, <2>3, KeptRow DEF CatalogueInv
  <2>5. PICK row : row = [table[id] EXCEPT !.inputs = declared] OBVIOUS
  <2>6. row \in KeptRows /\ row.name = table[id].name /\ row.on = table[id].on
    BY <2>4, <2>5 DEF KeptRows
  <2>7. table' = [table EXCEPT ![id] = row] BY <2>1, <2>5 DEF UpdateModelCapabilityFill
  <2>8. /\ table'[id] = row /\ (\A i \in ModelIds \ {id} : table'[i] = table[i])
        /\ (table \in [ModelIds -> KeptRows \cup {Unborn, Deleted}])'
    BY <2>3, <2>6, <2>7 DEF CatalogueInv
  <2>9. /\ \A i \in ModelIds : FindModelByID(i) => FindModelByID(i)'
        /\ \A i \in ModelIds : FindModelByID(i) =>
              table'[i].name = table[i].name /\ table'[i].on = table[i].on
    BY <2>6, <2>8 DEF FindModelByID, KeptRows
  <2>10. ASSUME NEW s, SaveIsSound(s), s # NoSave,
                s.step = "import" => s.id # id
         PROVE  SaveIsSound(s)'
    <3>1. ASSUME Agrees(s) PROVE Agrees(s)'
      <4>1. s.step \in {"patch", "flip", "delete"} \/ (s.step = "import" /\ s.id # 0)
              => s.id \in ModelIds BY <2>10 DEF SaveIsSound
      <4> QED BY <2>8, <2>9, <2>10, <3>1, <4>1 DEF Agrees
    <3> QED BY <2>10, <3>1 DEF SaveIsSound
  <2>11. (saves = [f \in Editors |-> saves[f]])' /\ saves'[e] = NoSave BY <2>1, Overtaken
  <2>12. ASSUME NEW f \in Editors PROVE SaveIsSound(saves[f])'
    <3>1. CASE saves'[f] = NoSave BY <3>1, Ended DEF SaveIsSound
    <3>2. CASE saves'[f].stale = TRUE /\ SaveIsSound(saves[f]) /\ saves'[f] \in SaveRecords
               /\ saves'[f].step = saves[f].step
               /\ saves'[f].id = saves[f].id /\ saves'[f].row = saves[f].row
               /\ saves'[f].name = saves[f].name
      <4>1. \A s, r : SaveIsSound(s) /\ r \in SaveRecords /\ r.stale = TRUE
                /\ r.step = s.step /\ r.id = s.id /\ r.row = s.row /\ r.name = s.name
                => SaveIsSound(r)' BY StaleIsSound
      <4> QED BY <3>2, <4>1 DEF SaveIsSound
    <3>3. CASE saves'[f] = saves[f] /\ saves[f] # NoSave /\ SaveIsSound(saves[f])
               /\ (saves[f].step = "import" => saves[f].id # id)
      <4>1. \A s : SaveIsSound(s) /\ s # NoSave /\ (s.step = "import" => s.id # id)
                   => SaveIsSound(s)' BY <2>10
      <4> QED BY <3>3, <4>1 DEF SaveIsSound
    <3>4. \/ saves'[f] = NoSave
          \/ saves'[f] # NoSave /\ saves[f] # NoSave /\ saves'[f].stale = TRUE
             /\ SaveIsSound(saves[f])
             /\ saves'[f] \in SaveRecords /\ saves'[f].step = saves[f].step
             /\ saves'[f].id = saves[f].id /\ saves'[f].row = saves[f].row
             /\ saves'[f].name = saves[f].name
          \/ saves'[f] = saves[f] /\ saves[f] # NoSave /\ SaveIsSound(saves[f])
             /\ (saves[f].step \in {"import"} =>
                   saves[f].id # id /\ (FindModelByID(id) => table[id].name # saves[f].name))
      <4>0. PICK steps : steps = {"import"} OBVIOUS
      <4>1. Overtaking(e, id, steps) BY <2>1, <4>0
      <4>2. \/ saves'[f] = NoSave
            \/ saves'[f] # NoSave /\ saves[f] # NoSave /\ saves'[f].stale = TRUE
               /\ SaveIsSound(saves[f])
               /\ saves'[f] \in SaveRecords /\ saves'[f].step = saves[f].step
               /\ saves'[f].id = saves[f].id /\ saves'[f].row = saves[f].row
               /\ saves'[f].name = saves[f].name
            \/ saves'[f] = saves[f] /\ saves[f] # NoSave /\ SaveIsSound(saves[f])
               /\ (saves[f].step \in steps =>
                     saves[f].id # id /\ (FindModelByID(id) => table[id].name # saves[f].name))
        BY <4>1, Overtaken
      <4> QED BY <4>0, <4>2, Zenon
    <3> QED BY <3>1, <3>2, <3>3, <3>4
  <2>13. CatalogueInv' BY <2>8, <2>11, <2>12 DEF CatalogueInv
  <2>14. NameAsked /\ StatusAsked BY <2>9 DEF NameAsked, StatusAsked
  <2>15. Ends(e, "import") BY <2>1, <2>2, <2>11 DEF Ends
  <2>16. Late(e, "import") \/ table[id].inputs = "undeclared"
    <3>1. saves[e].row.inputs = "undeclared" BY <2>1 DEF adjudicateCapabilities
    <3>2. saves[e].stale = TRUE \/ table[id].inputs = saves[e].row.inputs
      BY <2>0, <2>1, <2>2 DEF SaveIsSound, Agrees
    <3> QED BY <2>15, <3>1, <3>2 DEF Late
  <2>17. InputsAsked BY <2>8, <2>15, <2>16 DEF InputsAsked
  <2>18. FallbackAsked BY <2>1, <2>9 DEF FallbackAsked, FindModelByName
  <2> QED BY <2>13, <2>14, <2>17, <2>18 DEF ColumnsAsked
<1> QED BY <1>1, <1>2

LEMMA CatalogueStart == ASSUME CatalogueInit PROVE CatalogueInv
<1>1. SaveIsSound(NoSave)
  <2>1. NoSave.step = "none" BY DEF NoSave
  <2> QED BY <2>1 DEF SaveIsSound, SaveRecords
<1> QED BY <1>1 DEF CatalogueInit, CatalogueInv

LEMMA CatalogueStep ==
  ASSUME CatalogueInv, [CatalogueNext]_catalogue PROVE CatalogueInv' /\ (ColumnsAsked \/ UNCHANGED catalogue)
<1>1. CASE UNCHANGED catalogue
  <2>1. table' = table /\ saves' = saves BY <1>1 DEF catalogue
  <2>2. (table \in [ModelIds -> KeptRows \cup {Unborn, Deleted}])' BY <2>1 DEF CatalogueInv
  <2> QED BY <1>1, <2>1, <2>2, StandingKeeps
<1>2. ASSUME NEW e \in Editors,
             \/ \E id \in ModelIds :
                  PatchModel(e, id) \/ PatchModelStatus(e, id) \/ DeleteModelById(e, id)
             \/ \E name \in ModelNames :
                  ChooseFallback(e, name) \/ PostProviderModelsImport(e, name)
      PROVE  CatalogueInv' /\ ColumnsAsked
  <2>1. CatalogueInv' /\ UNCHANGED <<table, fallback>> BY <1>2, ReadersKeep
  <2> QED BY <2>1, NothingMoves DEF ColumnsAsked
<1>3. CASE CatalogueNext
  BY <1>2, <1>3, CreatingKeeps, EditingKeeps, DeletionKeeps, ChoosingKeeps, ImportingKeeps,
     FillingKeeps DEF CatalogueNext
<1> QED BY <1>1, <1>3

\* The invariant that the catalogue's edits rest on: a request that nobody overtook still
\* knows the row it read, as far as it relies on it (UpdateModel, SetModelStatus,
\* DeleteModelCascade, UpdateModelCapabilityFill, SaveFallback).
THEOREM CatalogueInvariance == CatalogueSpec => []CatalogueInv
<1>1. CatalogueInit => CatalogueInv BY CatalogueStart
<1>2. CatalogueInv /\ [CatalogueNext]_catalogue => CatalogueInv' BY CatalogueStep
<1> QED BY <1>1, <1>2, PTL DEF CatalogueSpec

\* A column changes at the request of an edit of that column, an import declares only
\* what was not declared, and the vision fallback goes on naming a model, unless the
\* request read the row before another edit of it; for every number of models, names and
\* requests in flight.
THEOREM EditsAsked == CatalogueSpec => EditsChangeWhatTheyAsk
<1>1. CatalogueInv /\ [CatalogueNext]_catalogue =>
        [/\ \A id \in ModelIds : FindModelByID(id) /\ FindModelByID(id)' =>
              /\ table'[id].name # table[id].name =>
                  \E e \in Editors : Ends(e, "patch") \/ Late(e, "flip")
              /\ table'[id].on # table[id].on =>
                  \E e \in Editors : Ends(e, "flip") \/ Late(e, "patch")
              /\ table'[id].inputs # table[id].inputs =>
                  \E e \in Editors :
                      \/ Ends(e, "patch") \/ Late(e, "import")
                      \/ Ends(e, "import") /\ table[id].inputs = "undeclared"
         /\ fallback # "" /\ FindModelByName(fallback) # {} =>
              \/ fallback' = ""
              \/ \E id \in ModelIds : FindModelByID(id)' /\ table'[id].name = fallback'
              \/ \E e \in Editors :
                  Late(e, "patch") \/ Late(e, "flip") \/ Late(e, "delete") \/ Late(e, "choose")
        ]_catalogue
  <2> SUFFICES ASSUME CatalogueInv, [CatalogueNext]_catalogue, ~UNCHANGED catalogue
               PROVE  ColumnsAsked
    BY DEF ColumnsAsked, NameAsked, StatusAsked, InputsAsked, FallbackAsked
  <2> QED BY CatalogueStep
<1> QED BY <1>1, CatalogueInvariance, PTL DEF CatalogueSpec, EditsChangeWhatTheyAsk
=============================================================================
