-------------------------- MODULE AdmissionProofs --------------------------
(***************************************************************************)
(* Proofs about what a request passes before it is sent, and about the     *)
(* update of the binary that is checked in the same run.                   *)
(*                                                                         *)
(* RateLimit, for any requests, limits, usages and size of int: the        *)
(* concurrency count is the number of limited requests in flight, and each *)
(* window holds what its minute spent and used.                            *)
(*                                                                         *)
(* KeyWalk, for any keys and benches: consecutive walks over the same      *)
(* ready keys begin with as many different ones.                           *)
(*                                                                         *)
(* Upgrade, for any updaters and releases: an updater replaces only the    *)
(* file it set out from, by no older release, a copy of it beside.         *)
(*                                                                         *)
(* Binding, for every set of caller keys, models, candidates and requests, *)
(* every capacity and cooldown: the counts the balancing is decided on are *)
(* the numbers of bindings, at most the capacity of them; a binding lands  *)
(* on a least-bound provider; and a rebinding moves only a dead end.       *)
(***************************************************************************)
EXTENDS RateLimit, Binding, KeyWalk, Upgrade, FiniteSetTheorems, TLAPS

(* RateLimit. *)

USE LimitsAssumption, MaxIntAssumption, UsagesAssumption, RequestsAssumption, TimeAssumption

Min2(a, b) == IF a < b THEN a ELSE b

Holding == {"tpmClock", "tpm", "rpmClock", "rpm", "giveBack", "served"}

\* While a request is between its two ends, its ticket says whether it is counted.
TicketsAreSlots ==
  \A r \in Admissions :
      /\ pc[r] \in {"new", "acquire"} => ~held[r]
      /\ pc[r] \in Holding => (held[r] <=> view[r].conc > 0)
      /\ pc[r] = "giveBack" => held[r]
      /\ pc[r] = "new" => view[r].conc = 0

\* A request on its way to the debit owes what it used, up to the largest int.
DebtsAreCapped ==
  \A r \in Admissions :
      pc[r] \in {"debitClock", "debit"} =>
          /\ debt[r].used \in Nat /\ debt[r].used > 0
          /\ debt[r].cost = Min2(debt[r].used, MaxInt)

LimitInv == /\ LimitTypeOK
        /\ TicketsAreSlots
        /\ DebtsAreCapped
        /\ SlotsAreInFlight
        /\ WindowCountsItsMinute
        /\ TallyIsWhatWasUsed
----------------------------------------
(* Sums. *)

\* Adding a share to a tally that is already capped caps the true sum.
LEMMA SatAddCaps ==
  ASSUME NEW a \in Nat, NEW b \in Int
  PROVE  satAdd(Min2(a, MaxInt), b) = Min2(a + (IF b > 0 THEN b ELSE 0), MaxInt)
BY DEF satAdd, Min2

LEMMA SatAddCapsBoth ==
  ASSUME NEW a \in Nat, NEW b \in Nat
  PROVE  satAdd(Min2(a, MaxInt), Min2(b, MaxInt)) = Min2(a + b, MaxInt)
BY DEF satAdd, Min2

\* What a request is debited is what it used, up to the largest int; nothing is
\* debited exactly when nothing was used.
LEMMA BasisIsCost ==
  ASSUME NEW u \in Usages
  PROVE  /\ Cost(u) \in Int /\ debitBasis(u) \in Int
         /\ debitBasis(u) > 0 <=> Cost(u) > 0
         /\ Cost(u) > 0 => debitBasis(u) = Min2(Cost(u), MaxInt)
<1> DEFINE part(n) == IF n > 0 THEN n ELSE 0
           g1 == part(u.prompt)
           g2 == g1 + part(u.completion)
           g3 == g2 + part(u.cacheRead)
           g4 == g3 + part(u.cacheWrite)
<1>1. /\ u.prompt \in Int /\ u.completion \in Int /\ u.cacheRead \in Int
      /\ u.cacheWrite \in Int /\ u.total \in Int /\ u.total <= MaxInt OBVIOUS
<1>2. g1 \in Nat /\ g2 \in Nat /\ g3 \in Nat /\ g4 \in Nat BY <1>1
<1>3. satAdd(0, u.prompt) = Min2(g1, MaxInt) BY <1>1 DEF satAdd, Min2
<1>4. satAdd(Min2(g1, MaxInt), u.completion) = Min2(g2, MaxInt) BY <1>1, <1>2, SatAddCaps
<1>5. satAdd(Min2(g2, MaxInt), u.cacheRead) = Min2(g3, MaxInt) BY <1>1, <1>2, SatAddCaps
<1>6. satAdd(Min2(g3, MaxInt), u.cacheWrite) = Min2(g4, MaxInt) BY <1>1, <1>2, SatAddCaps
<1>7. debitBasis(u) = IF Min2(g4, MaxInt) > u.total THEN Min2(g4, MaxInt) ELSE u.total
  BY <1>3, <1>4, <1>5, <1>6 DEF debitBasis
<1>8. Cost(u) = IF g4 > u.total THEN g4 ELSE u.total BY DEF Cost
<1> HIDE DEF g4
<1> QED BY <1>1, <1>2, <1>7, <1>8 DEF Min2

\* A window rolled by a time that is not ahead of the clock.
LEMMA Rolling ==
  ASSUME NEW m \in Minutes
  PROVE  /\ \A w \in [minute : Minutes, count : Nat] :
               /\ RpmRolled(w, m) \in [minute : Minutes, count : Nat]
               /\ RpmRolled(w, m) = w \/ /\ RpmRolled(w, m) = [minute |-> m, count |-> 0]
                                         /\ m > w.minute
         /\ \A w \in [minute : Minutes, tokens : 0..MaxInt] :
               /\ TpmRolled(w, m) \in [minute : Minutes, tokens : 0..MaxInt]
               /\ TpmRolled(w, m) = w \/ /\ TpmRolled(w, m) = [minute |-> m, tokens |-> 0]
                                         /\ m > w.minute
BY DEF RpmRolled, TpmRolled

\* A window that counts its minute in history h, and the later minutes' are empty.
Counts(n, minute, h) ==
  /\ n = h[minute]
  /\ \A m \in Minutes : m > minute => h[m] = 0

Tallies(n, minute, h) ==
  /\ n = Min2(h[minute], MaxInt)
  /\ \A m \in Minutes : m > minute => h[m] = 0

\* Rolling keeps the count right, and so does counting one more.
LEMMA CountsRolled ==
  ASSUME NEW w \in [minute : Minutes, count : Nat], NEW h \in [Minutes -> Nat],
         NEW m \in Minutes, Counts(w.count, w.minute, h)
  PROVE  Counts(RpmRolled(w, m).count, RpmRolled(w, m).minute, h)
<1> DEFINE v == RpmRolled(w, m)
<1>1. CASE m > w.minute
  <2>1. v.minute = m /\ v.count = 0 BY <1>1 DEF RpmRolled
  <2>2. h[m] = 0 BY <1>1 DEF Counts
  <2>3. \A n \in Minutes : n > m => h[n] = 0 BY <1>1 DEF Counts, Minutes
  <2> QED BY <2>1, <2>2, <2>3 DEF Counts
<1>2. CASE ~(m > w.minute) BY <1>2 DEF RpmRolled
<1> QED BY <1>1, <1>2

LEMMA CountsOneMore ==
  ASSUME NEW n \in Nat, NEW minute \in Minutes, NEW h \in [Minutes -> Nat], Counts(n, minute, h)
  PROVE  Counts(n + 1, minute, [h EXCEPT ![minute] = @ + 1])
<1>1. \A m \in Minutes : m > minute => m # minute BY DEF Minutes
<1> QED BY <1>1 DEF Counts

LEMMA TalliesRolled ==
  ASSUME NEW w \in [minute : Minutes, tokens : 0..MaxInt], NEW h \in [Minutes -> Nat],
         NEW m \in Minutes, Tallies(w.tokens, w.minute, h)
  PROVE  Tallies(TpmRolled(w, m).tokens, TpmRolled(w, m).minute, h)
<1> DEFINE v == TpmRolled(w, m)
<1>1. CASE m > w.minute
  <2>1. v.minute = m /\ v.tokens = 0 BY <1>1 DEF TpmRolled
  <2>2. h[m] = 0 BY <1>1 DEF Tallies
  <2>3. \A n \in Minutes : n > m => h[n] = 0 BY <1>1 DEF Tallies, Minutes
  <2> QED BY <2>1, <2>2, <2>3 DEF Tallies, Min2
<1>2. CASE ~(m > w.minute) BY <1>2 DEF TpmRolled
<1> QED BY <1>1, <1>2

LEMMA TalliesMore ==
  ASSUME NEW n \in Nat, NEW minute \in Minutes, NEW h \in [Minutes -> Nat],
         Tallies(n, minute, h), NEW used \in Nat
  PROVE  Tallies(Min2(h[minute] + used, MaxInt), minute, [h EXCEPT ![minute] = @ + used])
<1>1. \A m \in Minutes : m > minute => m # minute BY DEF Minutes
<1> QED BY <1>1 DEF Tallies

LEMMA WindowsAsCounts ==
  /\ WindowCountsItsMinute <=> Counts(rpm.count, rpm.minute, spent)
  /\ TallyIsWhatWasUsed <=> Tallies(tpm.tokens, tpm.minute, debited)
  /\ WindowCountsItsMinute' <=> Counts(rpm'.count, rpm'.minute, spent')
  /\ TallyIsWhatWasUsed' <=> Tallies(tpm'.tokens, tpm'.minute, debited')
BY DEF WindowCountsItsMinute, TallyIsWhatWasUsed, Counts, Tallies, Min2
----------------------------------------
(* Slots. *)

LEMMA InFlightFinite ==
  /\ IsFiniteSet(InFlight)
  /\ Cardinality(InFlight) \in Nat
<1>1. InFlight \subseteq Admissions BY DEF InFlight
<1>2. IsFiniteSet(InFlight) BY <1>1, FS_Subset
<1> QED BY <1>2, FS_CardinalityType

\* The requests in flight after a step of request r alone.
LEMMA OneMoves ==
  ASSUME LimitTypeOK, NEW r \in Admissions,
         \A q \in Admissions \ {r} : pc'[q] = pc[q] /\ view'[q] = view[q]
  PROVE  /\ r \in InFlight' /\ r \notin InFlight => InFlight' = InFlight \cup {r}
         /\ r \notin InFlight' /\ r \in InFlight => InFlight' = InFlight \ {r}
         /\ (r \in InFlight' <=> r \in InFlight) => InFlight' = InFlight
BY DEF InFlight

\* The count follows: one more, one less or as before, with the floor never met.
LEMMA CountFollows ==
  ASSUME LimitTypeOK, SlotsAreInFlight, NEW r \in Admissions,
         \A q \in Admissions \ {r} : pc'[q] = pc[q] /\ view'[q] = view[q]
  PROVE  /\ r \in InFlight' /\ r \notin InFlight /\ conc' = conc + 1 => SlotsAreInFlight'
         /\ r \notin InFlight' /\ r \in InFlight /\ conc' = SlotReleased(conc) => SlotsAreInFlight'
         /\ (r \in InFlight' <=> r \in InFlight) /\ conc' = conc => SlotsAreInFlight'
<1>1. Cardinality(InFlight) \in Nat /\ IsFiniteSet(InFlight) BY InFlightFinite
<1>2. CASE r \in InFlight' /\ r \notin InFlight
  <2>1. Cardinality(InFlight \cup {r}) = Cardinality(InFlight) + 1 BY <1>1, <1>2, FS_AddElement
  <2>2. InFlight' = InFlight \cup {r} BY <1>2, OneMoves
  <2> QED BY <1>2, <2>1, <2>2 DEF SlotsAreInFlight
<1>3. CASE r \notin InFlight' /\ r \in InFlight
  <2>1. Cardinality(InFlight \ {r}) = Cardinality(InFlight) - 1 BY <1>1, <1>3, FS_RemoveElement
  <2>2. InFlight' = InFlight \ {r} BY <1>3, OneMoves
  <2>3. IsFiniteSet(InFlight \ {r}) /\ Cardinality(InFlight \ {r}) \in Nat
    BY <1>1, FS_Subset, FS_CardinalityType
  <2>4. conc > 0 BY <1>1, <2>1, <2>3 DEF SlotsAreInFlight
  <2> QED BY <1>1, <1>3, <2>1, <2>2, <2>4 DEF SlotsAreInFlight, SlotReleased
<1>4. CASE r \in InFlight' <=> r \in InFlight BY <1>4, OneMoves DEF SlotsAreInFlight
<1> QED BY <1>2, <1>3, <1>4
----------------------------------------
(* The invariant. *)

LEMMA LimitStarts == LimitInit => LimitInv
<1> SUFFICES ASSUME LimitInit PROVE LimitInv OBVIOUS
<1> USE DEF LimitInit
<1>1. LimitTypeOK BY DEF LimitTypeOK, Minutes, Points, NoLimit
<1>2. InFlight = {} BY DEF InFlight
<1>3. SlotsAreInFlight BY <1>2, FS_EmptySet DEF SlotsAreInFlight
<1>4. TicketsAreSlots /\ DebtsAreCapped BY DEF TicketsAreSlots, DebtsAreCapped, Holding, NoLimit
<1>5. WindowCountsItsMinute /\ TallyIsWhatWasUsed
  BY DEF WindowCountsItsMinute, TallyIsWhatWasUsed, Minutes
<1> QED BY <1>1, <1>3, <1>4, <1>5 DEF LimitInv

\* Where nothing is spent or debited, the windows keep their counts.
LEMMA WindowsKept ==
  ASSUME LimitInv, UNCHANGED <<rpm, tpm, history>>
  PROVE  WindowCountsItsMinute' /\ TallyIsWhatWasUsed'
BY DEF LimitInv, WindowCountsItsMinute, TallyIsWhatWasUsed, history

LEMMA ArriveInv ==
  ASSUME LimitInv, NEW r \in Admissions, NEW limits \in Limits, Arrive(r, limits)
  PROVE  LimitInv'
<1> USE DEF LimitInv, Arrive, Goto, shared, history
<1>1. LimitTypeOK' BY DEF LimitTypeOK, Points
<1>2. TicketsAreSlots' BY DEF TicketsAreSlots, LimitTypeOK, Holding
<1>3. DebtsAreCapped' BY DEF DebtsAreCapped, LimitTypeOK
<1>4. r \notin InFlight /\ r \notin InFlight' BY DEF InFlight, LimitTypeOK
<1>5. SlotsAreInFlight' BY <1>4, CountFollows DEF LimitTypeOK
<1> QED BY <1>1, <1>2, <1>3, <1>5, WindowsKept

LEMMA AcquireInv ==
  ASSUME LimitInv, NEW r \in Admissions, Acquire(r)
  PROVE  LimitInv'
<1> USE DEF LimitInv, Acquire, Goto, history
<1>1. LimitTypeOK'
  <2>1. conc' \in Nat /\ UNCHANGED <<clock, rpm, tpm, view, at, debt, history>> BY DEF LimitTypeOK
  <2>2. held' \in [Admissions -> BOOLEAN] BY DEF LimitTypeOK
  <2>3. pc' \in [Admissions -> Points] BY DEF LimitTypeOK, Points
  <2> QED BY <2>1, <2>2, <2>3 DEF LimitTypeOK
<1>2. TicketsAreSlots' BY DEF TicketsAreSlots, LimitTypeOK, Holding
<1>3. DebtsAreCapped' BY DEF DebtsAreCapped, LimitTypeOK
<1>4. r \notin InFlight BY DEF InFlight, LimitTypeOK
<1>5. r \in InFlight' <=> view[r].conc > 0 /\ conc < view[r].conc BY DEF InFlight, LimitTypeOK
<1>6. SlotsAreInFlight' BY <1>4, <1>5, CountFollows DEF LimitTypeOK
<1> QED BY <1>1, <1>2, <1>3, <1>6, WindowsKept

LEMMA ReadClockInv ==
  ASSUME LimitInv, NEW r \in Admissions,
         NEW p, NEW n, <<p, n>> \in {<<"tpmClock", "tpm">>, <<"rpmClock", "rpm">>,
                                     <<"debitClock", "debit">>},
         ReadClock(r, p, n)
  PROVE  LimitInv'
<1> USE DEF LimitInv, ReadClock, Goto, shared, history
<1>1. LimitTypeOK' BY DEF LimitTypeOK, Points
<1>2. TicketsAreSlots' BY DEF TicketsAreSlots, LimitTypeOK, Holding
<1>3. DebtsAreCapped' BY DEF DebtsAreCapped, LimitTypeOK
<1>4. r \in InFlight' <=> r \in InFlight BY DEF InFlight, LimitTypeOK
<1>5. SlotsAreInFlight' BY <1>4, CountFollows DEF LimitTypeOK
<1> QED BY <1>1, <1>2, <1>3, <1>5, WindowsKept

LEMMA CheckTPMInv ==
  ASSUME LimitInv, NEW r \in Admissions, CheckTPM(r)
  PROVE  LimitInv'
<1> USE DEF LimitInv, CheckTPM, Goto, Refuse, local, history
<1>0. tpm' \in [minute : Minutes, tokens : 0..MaxInt]
  <2>1. tpm' = tpm \/ tpm' = TpmRolled(tpm, at[r]) OBVIOUS
  <2>2. tpm \in [minute : Minutes, tokens : 0..MaxInt] /\ at[r] \in Minutes BY DEF LimitTypeOK
  <2> QED BY ONLY <2>1, <2>2, Rolling
<1>p. \/ pc' = [pc EXCEPT ![r] = "rpmClock"]
      \/ held[r] /\ pc' = [pc EXCEPT ![r] = "giveBack"]
      \/ ~held[r] /\ pc' = [pc EXCEPT ![r] = "refused"] OBVIOUS
<1>k. pc[r] = "tpm" /\ UNCHANGED <<clock, conc, rpm, local, history>> OBVIOUS
<1>1. LimitTypeOK'
  <2>1. pc' \in [Admissions -> Points] BY <1>p DEF LimitTypeOK, Points
  <2> QED BY <1>0, <1>k, <2>1 DEF LimitTypeOK
<1>2. TicketsAreSlots' BY <1>p, <1>k DEF TicketsAreSlots, LimitTypeOK, Holding
<1>3. DebtsAreCapped' BY <1>p, <1>k DEF DebtsAreCapped, LimitTypeOK
<1>4. (r \in InFlight' <=> r \in InFlight)
  BY <1>p, <1>k DEF InFlight, LimitTypeOK, TicketsAreSlots, Holding
<1>5. SlotsAreInFlight' BY <1>4, CountFollows DEF LimitTypeOK
<1>6. TallyIsWhatWasUsed'
  <2>1. tpm' = tpm \/ tpm' = TpmRolled(tpm, at[r]) OBVIOUS
  <2>2. tpm \in [minute : Minutes, tokens : 0..MaxInt] /\ at[r] \in Minutes
        /\ debited \in [Minutes -> Nat] BY DEF LimitTypeOK
  <2>3. Tallies(tpm.tokens, tpm.minute, debited) BY WindowsAsCounts
  <2>4. Tallies(tpm'.tokens, tpm'.minute, debited) BY <2>1, <2>2, <2>3, TalliesRolled
  <2>5. debited' = debited BY <1>k
  <2> QED BY <2>4, <2>5, WindowsAsCounts
<1> QED BY <1>1, <1>2, <1>3, <1>5, <1>6 DEF WindowCountsItsMinute

LEMMA CheckRPMInv ==
  ASSUME LimitInv, NEW r \in Admissions, CheckRPM(r)
  PROVE  LimitInv'
<1> DEFINE w == RpmRolled(rpm, at[r])
<1> USE DEF LimitInv, CheckRPM, Goto, Refuse, local
<1>0. /\ w \in [minute : Minutes, count : Nat]
      /\ w = rpm \/ (w = [minute |-> at[r], count |-> 0] /\ at[r] > rpm.minute)
  BY Rolling DEF LimitTypeOK
<1>c. \/ view[r].rpm = 0 /\ UNCHANGED <<rpm, spent>>
      \/ rpm' = [minute |-> w.minute, count |-> w.count + 1]
         /\ spent' = [spent EXCEPT ![w.minute] = @ + 1]
      \/ rpm' = w /\ spent' = spent BY DEF SpendRPM, RefuseRPM
<1>p. pc' = [pc EXCEPT ![r] = "served"] \/ pc' = [pc EXCEPT ![r] = IF held[r] THEN "giveBack" ELSE "refused"]
  BY DEF SpendRPM, RefuseRPM
<1>1. LimitTypeOK'
  <2>1. rpm' \in [minute : Minutes, count : Nat] /\ spent' \in [Minutes -> Nat]
    BY <1>0, <1>c DEF LimitTypeOK
  <2>2. pc' \in [Admissions -> Points] BY <1>p DEF LimitTypeOK, Points
  <2> QED BY <2>1, <2>2 DEF LimitTypeOK
<1>2. TicketsAreSlots' BY <1>p DEF TicketsAreSlots, LimitTypeOK, Holding
<1>3. DebtsAreCapped' BY <1>p DEF DebtsAreCapped, LimitTypeOK
<1>4. (r \in InFlight' <=> r \in InFlight)
  BY <1>p DEF InFlight, LimitTypeOK, TicketsAreSlots, Holding
<1>5. SlotsAreInFlight' BY <1>4, <1>p, CountFollows DEF LimitTypeOK
<1>6. WindowCountsItsMinute'
  <2>1. rpm \in [minute : Minutes, count : Nat] /\ at[r] \in Minutes
        /\ spent \in [Minutes -> Nat] BY DEF LimitTypeOK
  <2>2. Counts(rpm.count, rpm.minute, spent) BY WindowsAsCounts
  <2>3. Counts(w.count, w.minute, spent) BY <2>1, <2>2, CountsRolled
  <2> HIDE DEF w
  <2>4. w.count \in Nat /\ w.minute \in Minutes BY <1>0 DEF LimitTypeOK
  <2>5. Counts(rpm'.count, rpm'.minute, spent') BY <1>c, <2>1, <2>2, <2>3, <2>4, CountsOneMore
  <2> QED BY <2>5, WindowsAsCounts
<1> QED BY <1>1, <1>2, <1>3, <1>5, <1>6 DEF TallyIsWhatWasUsed

LEMMA GiveBackInv ==
  ASSUME LimitInv, NEW r \in Admissions, GiveBack(r)
  PROVE  LimitInv'
<1> USE DEF LimitInv, GiveBack, Goto, history
<1>1. LimitTypeOK' BY DEF LimitTypeOK, Points, SlotReleased
<1>2. TicketsAreSlots' BY DEF TicketsAreSlots, LimitTypeOK, Holding
<1>3. DebtsAreCapped' BY DEF DebtsAreCapped, LimitTypeOK
<1>4. r \in InFlight /\ r \notin InFlight' BY DEF InFlight, LimitTypeOK, TicketsAreSlots, Holding
<1>5. SlotsAreInFlight' BY <1>4, CountFollows DEF LimitTypeOK
<1> QED BY <1>1, <1>2, <1>3, <1>5, WindowsKept

LEMMA ReleaseInv ==
  ASSUME LimitInv, NEW r \in Admissions, NEW u \in Usages, Release(r, u)
  PROVE  LimitInv'
<1> USE DEF LimitInv, Release, Goto, history
<1>0. /\ Cost(u) \in Int /\ debitBasis(u) \in Int
      /\ debitBasis(u) > 0 <=> Cost(u) > 0
      /\ Cost(u) > 0 => debitBasis(u) = Min2(Cost(u), MaxInt) BY BasisIsCost
<1>1. LimitTypeOK'
  <2>1. conc' \in Nat BY DEF LimitTypeOK, SlotReleased
  <2>2. debt' \in [Admissions -> [cost : Int, used : Int]] BY <1>0 DEF LimitTypeOK
  <2>3. pc' \in [Admissions -> Points] BY DEF LimitTypeOK, Points
  <2>4. UNCHANGED <<clock, rpm, tpm, view, held, at, history>> OBVIOUS
  <2> HIDE DEF Release
  <2> QED BY <2>1, <2>2, <2>3, <2>4 DEF LimitTypeOK
<1>2. TicketsAreSlots' BY DEF TicketsAreSlots, LimitTypeOK, Holding
<1>3. DebtsAreCapped' BY <1>0 DEF DebtsAreCapped, LimitTypeOK
<1>4. r \notin InFlight' BY DEF InFlight, LimitTypeOK
<1>5. r \in InFlight <=> held[r] BY DEF InFlight, LimitTypeOK, TicketsAreSlots, Holding
<1>6. SlotsAreInFlight' BY <1>4, <1>5, CountFollows DEF LimitTypeOK
<1> QED BY <1>1, <1>2, <1>3, <1>6, WindowsKept

LEMMA AddTokensInv ==
  ASSUME LimitInv, NEW r \in Admissions, AddTokens(r)
  PROVE  LimitInv'
<1> DEFINE w == TpmRolled(tpm, at[r])
           cost == debt[r].cost
           used == debt[r].used
<1> USE DEF LimitInv, AddTokens, Goto, local
<1>0. /\ w \in [minute : Minutes, tokens : 0..MaxInt]
      /\ w = tpm \/ (w = [minute |-> at[r], tokens |-> 0] /\ at[r] > tpm.minute)
  BY Rolling DEF LimitTypeOK
<1>u. used \in Nat /\ used > 0 /\ cost = Min2(used, MaxInt) BY DEF DebtsAreCapped, LimitTypeOK
<1>t. Tallies(w.tokens, w.minute, debited)
  <2>1. Tallies(tpm.tokens, tpm.minute, debited) BY WindowsAsCounts
  <2> QED BY <2>1, TalliesRolled DEF LimitTypeOK
<1>w. w.minute \in Minutes /\ w.tokens = Min2(debited[w.minute], MaxInt) BY <1>0, <1>t DEF Tallies
<1>d. debited[w.minute] \in Nat BY <1>w DEF LimitTypeOK
<1>s. satAdd(w.tokens, cost) = Min2(debited[w.minute] + used, MaxInt)
  BY <1>u, <1>w, <1>d, SatAddCapsBoth
<1>1. LimitTypeOK'
  <2>1. tpm' \in [minute : Minutes, tokens : 0..MaxInt]
    <3>1. tpm' = [minute |-> w.minute, tokens |-> satAdd(w.tokens, cost)] OBVIOUS
    <3>2. satAdd(w.tokens, cost) \in 0..MaxInt BY <1>s, <1>d, <1>u DEF Min2
    <3>3. w.minute \in Minutes BY <1>w
    <3> HIDE DEF w, cost
    <3> QED BY ONLY <3>1, <3>2, <3>3
  <2>2. debited' \in [Minutes -> Nat]
    <3>1. debited' = [debited EXCEPT ![w.minute] = debited[w.minute] + used]
      BY Zenon DEF LimitTypeOK
    <3>2. debited[w.minute] + used \in Nat BY <1>d, <1>u
    <3> HIDE DEF w, used
    <3> QED BY <3>1, <3>2 DEF LimitTypeOK
  <2>3. pc' \in [Admissions -> Points] BY DEF LimitTypeOK, Points
  <2>4. UNCHANGED <<clock, conc, rpm, local, spent>> OBVIOUS
  <2> HIDE DEF AddTokens
  <2> QED BY <2>1, <2>2, <2>3, <2>4 DEF LimitTypeOK
<1>2. TicketsAreSlots' BY DEF TicketsAreSlots, LimitTypeOK, Holding
<1>3. DebtsAreCapped' BY DEF DebtsAreCapped, LimitTypeOK
<1>4. r \notin InFlight /\ r \notin InFlight' BY DEF InFlight, LimitTypeOK
<1>5. SlotsAreInFlight' BY <1>4, CountFollows DEF LimitTypeOK
<1>6. TallyIsWhatWasUsed'
  <2>1. tpm' = [minute |-> w.minute, tokens |-> Min2(debited[w.minute] + used, MaxInt)] BY <1>s
  <2>2. debited' = [debited EXCEPT ![w.minute] = @ + used] OBVIOUS
  <2>3. w.tokens \in Nat BY <1>0
  <2>4. debited \in [Minutes -> Nat] BY DEF LimitTypeOK
  <2> HIDE DEF w, used
  <2>5. Tallies(Min2(debited[w.minute] + used, MaxInt), w.minute,
                [debited EXCEPT ![w.minute] = @ + used])
    BY ONLY <1>t, <1>u, <1>w, <2>3, <2>4, TalliesMore
  <2>6. Tallies(tpm'.tokens, tpm'.minute, debited') BY ONLY <2>1, <2>2, <2>5
  <2> QED BY <2>6, WindowsAsCounts
<1> QED BY <1>1, <1>2, <1>3, <1>5, <1>6 DEF WindowCountsItsMinute

LEMMA TickInv ==
  ASSUME LimitInv, MinutePasses
  PROVE  LimitInv'
<1> USE DEF LimitInv, MinutePasses, local, history
<1>1. LimitTypeOK'
  <2>1. clock' \in Minutes BY DEF LimitTypeOK, Minutes
  <2>2. UNCHANGED <<conc, rpm, tpm, pc, local, history>> OBVIOUS
  <2> HIDE DEF MinutePasses
  <2> QED BY <2>1, <2>2 DEF LimitTypeOK
<1>2. TicketsAreSlots' /\ DebtsAreCapped' BY DEF TicketsAreSlots, DebtsAreCapped
<1>3. InFlight' = InFlight BY DEF InFlight
<1>4. SlotsAreInFlight' BY <1>3 DEF SlotsAreInFlight
<1> QED BY <1>1, <1>2, <1>4, WindowsKept

LEMMA LimitKeeps == LimitInv /\ [LimitNext]_limiter => LimitInv'
<1> SUFFICES ASSUME LimitInv, [LimitNext]_limiter PROVE LimitInv' OBVIOUS
<1>1. ASSUME NEW r \in Admissions, LimitStep(r) PROVE LimitInv'
  BY <1>1, ArriveInv, AcquireInv, ReadClockInv, CheckTPMInv, CheckRPMInv, GiveBackInv,
     ReleaseInv, AddTokensInv DEF LimitStep
<1>2. CASE MinutePasses BY <1>2, TickInv
<1>3. CASE UNCHANGED limiter
  <2>1. InFlight' = InFlight BY <1>3 DEF limiter, local, InFlight
  <2> QED BY <1>3, <2>1 DEF limiter, shared, local, history, LimitInv, LimitTypeOK, TicketsAreSlots,
            DebtsAreCapped, SlotsAreInFlight, WindowCountsItsMinute, TallyIsWhatWasUsed
<1> QED BY <1>1, <1>2, <1>3 DEF LimitNext

\* What every reachable state satisfies.
THEOREM LimitInvariance == LimitSpec => []LimitInv
BY LimitStarts, LimitKeeps, PTL DEF LimitSpec

\* The limiter's state keeps its types: the tally is never beyond the largest int.
THEOREM LimitTypeCorrect == LimitSpec => []LimitTypeOK
<1>1. LimitInv => LimitTypeOK BY DEF LimitInv
<1> QED BY <1>1, LimitInvariance, PTL

\* No path through the gates leaks a concurrency slot or gives one back twice.
THEOREM SlotsExact == LimitSpec => []SlotsAreInFlight
<1>1. LimitInv => SlotsAreInFlight BY DEF LimitInv
<1> QED BY <1>1, LimitInvariance, PTL

\* The request window counts its minute, whatever the order stale clocks arrive in.
THEOREM WindowExact == LimitSpec => []WindowCountsItsMinute
<1>1. LimitInv => WindowCountsItsMinute BY DEF LimitInv
<1> QED BY <1>1, LimitInvariance, PTL

\* The token tally is the capped sum of what the minute's requests used.
THEOREM TallyExact == LimitSpec => []TallyIsWhatWasUsed
<1>1. LimitInv => TallyIsWhatWasUsed BY DEF LimitInv
<1> QED BY <1>1, LimitInvariance, PTL

\* All three at once.
THEOREM WindowsExact == LimitSpec => []WindowsAreExact
<1>1. LimitInv => WindowsAreExact BY DEF LimitInv, WindowsAreExact
<1> QED BY <1>1, LimitInvariance, PTL
----------------------------------------
(* Upgrade. *)

USE UpgradeAssumption

Updaters == Posts \cup Commands

\* From the lock to the rename an updater has the lock file.
LocksAreHeld ==
  \A u \in Updaters :
      run[u].pc \in {"locked", "same", "copied", "sure", "installed"} => updateLock = u

\* What an updater saw is not ahead of the file; while the file is the one it saw, the
\* release it is to install is no older.
SightsAreOld ==
  /\ exe.version <= latest
  /\ \A u \in Updaters :
      /\ run[u].pc \notin {"idle", "gated"} => run[u].saw <= exe.id
      /\ run[u].pc \in {"fetching", "asking", "locking", "locked", "same", "copied", "sure"} =>
          /\ run[u].target \in 1..latest
          /\ run[u].saw = exe.id => exe.version <= run[u].target

\* The copy is of the file that is about to be replaced.
CopiesAreOfIt ==
  \A u \in Updaters :
      /\ run[u].pc = "copied" /\ run[u].saw = exe.id => bak = exe.version
      /\ run[u].pc = "sure" /\ ~run[u].overtaken => run[u].saw = exe.id /\ bak = exe.version

\* One request of the console at a time.
GateLetsOneIn ==
  /\ \A u \in Commands : run[u].pc # "gated"
  /\ \A u \in Posts : run[u].pc # "idle" =>
      /\ server.gate = "running"
      /\ \A v \in Posts : run[v].pc # "idle" => u = v

\* As long as nobody else touches the files, the binary is the one that runs until a
\* request has replaced it, once.
ConsoleAlone ==
  alone =>
      /\ \A u \in Posts : ~run[u].overtaken
      /\ exe.version # server.running =>
          /\ bak = server.running
          /\ server.gate = "applied" \/ \E u \in Posts : run[u].pc = "installed"

UpgradeInv == /\ UpgradeTypeOK
              /\ LocksAreHeld
              /\ SightsAreOld
              /\ CopiesAreOfIt
              /\ GateLetsOneIn
              /\ ConsoleAlone

LEMMA AtRestType == AtRest \in Runs
BY DEF AtRest, Runs, RunSteps

\* What a step of u alone leaves of the runs.
LEMMA Moved ==
  ASSUME UpgradeTypeOK, NEW u \in Updaters, NEW point \in RunSteps, Goes(u, point)
  PROVE  /\ run' \in [Updaters -> Runs]
         /\ run'[u].pc = point
         /\ run'[u].saw = run[u].saw
         /\ run'[u].target = run[u].target
         /\ run'[u].overtaken = run[u].overtaken
         /\ \A v \in Updaters : v # u => run'[v] = run[v]
<1>1. run \in [Updaters -> Runs] /\ run[u] \in Runs BY DEF UpgradeTypeOK, Updaters
<1>2. run' = [run EXCEPT ![u] = [run[u] EXCEPT !.pc = point]] BY DEF Goes
<1>3. [run[u] EXCEPT !.pc = point] \in Runs BY <1>1 DEF Runs
<1> QED BY <1>1, <1>2, <1>3 DEF Runs

\* An updater that has not replaced the binary returns, its lock file and the gate
\* with it.
LEMMA ReturnsInv ==
  ASSUME UpgradeInv, NEW u \in Updaters, run[u].pc \notin {"idle", "installed"} , Returns(u, "idle"),
         UNCHANGED <<latest, exe, bak, alone>>
  PROVE  UpgradeInv'
<1>1. /\ run' = [run EXCEPT ![u] = AtRest]
      /\ run \in [Updaters -> Runs] BY DEF Returns, UpgradeInv, UpgradeTypeOK, Updaters
<1>2. /\ run' \in [Updaters -> Runs]
      /\ run'[u] = AtRest
      /\ \A v \in Updaters : v # u => run'[v] = run[v] BY <1>1, AtRestType
<1>3. updateLock' \in {Free, Orphan} \cup Updaters
  BY DEF Returns, UpgradeInv, UpgradeTypeOK, Updaters
<1>4. /\ u \in Commands => server' = server
      /\ u \in Posts => server' = [server EXCEPT !.gate = "idle"] BY DEF Returns, Gate
<1>5. UpgradeTypeOK' BY <1>2, <1>3, <1>4 DEF UpgradeInv, UpgradeTypeOK, Updaters
<1>6. LocksAreHeld' BY <1>2 DEF UpgradeInv, LocksAreHeld, Returns, AtRest
<1>7. SightsAreOld' /\ CopiesAreOfIt' BY <1>2 DEF UpgradeInv, SightsAreOld, CopiesAreOfIt, AtRest
<1>8. server'.running = server.running /\ (server'.gate = server.gate \/ u \in Posts)
  BY <1>4 DEF UpgradeInv, UpgradeTypeOK, Updaters
<1>9. GateLetsOneIn' BY <1>2, <1>4 DEF UpgradeInv, GateLetsOneIn, AtRest, Updaters
<1>10. ConsoleAlone'
  BY <1>2, <1>4, <1>8 DEF UpgradeInv, ConsoleAlone, GateLetsOneIn, AtRest, Updaters
<1> QED BY <1>5, <1>6, <1>7, <1>9, <1>10 DEF UpgradeInv

\* A step towards the rename that leaves everything but u's place, and maybe the lock
\* file, alone.
LEMMA Onward ==
  ASSUME UpgradeInv, NEW u \in Updaters, NEW point \in RunSteps \ {"idle", "gated", "looking", "installed"},
         run[u].pc \notin {"idle", "gated", "looking", "sure", "installed"}, Goes(u, point),
         UNCHANGED <<latest, exe, bak, server, alone>>,
         IF point \in {"locked", "same", "copied", "sure"}
         THEN updateLock' = u /\ updateLock \in {Free, u}
         ELSE UNCHANGED updateLock,
         point \in {"copied", "sure"} => run[u].saw = exe.id /\ bak = exe.version
  PROVE  UpgradeInv'
<1>1. /\ run' \in [Updaters -> Runs]
      /\ run'[u].pc = point
      /\ run'[u].saw = run[u].saw
      /\ run'[u].target = run[u].target
      /\ run'[u].overtaken = run[u].overtaken
      /\ \A v \in Updaters : v # u => run'[v] = run[v] BY Moved DEF UpgradeInv
<1>2. UpgradeTypeOK' BY <1>1 DEF UpgradeInv, UpgradeTypeOK, Updaters
<1>3. LocksAreHeld' BY <1>1 DEF UpgradeInv, LocksAreHeld, Updaters, Free
<1>3a. run[u].pc \in {"fetching", "asking", "locking", "locked", "same", "copied"}
  BY DEF UpgradeInv, UpgradeTypeOK, Updaters, Runs, RunSteps
<1>4. SightsAreOld' BY <1>1, <1>3a DEF UpgradeInv, SightsAreOld
<1>4a. CopiesAreOfIt' BY <1>1, <1>3a DEF UpgradeInv, CopiesAreOfIt
<1>5. GateLetsOneIn' BY <1>1 DEF UpgradeInv, GateLetsOneIn, Updaters
<1>6. ConsoleAlone' BY <1>1 DEF UpgradeInv, ConsoleAlone, Updaters
<1> QED BY <1>2, <1>3, <1>4, <1>4a, <1>5, <1>6 DEF UpgradeInv

LEMMA PostUpdateInv ==
  ASSUME UpgradeInv, NEW u \in Updaters, PostUpdate(u)
  PROVE  UpgradeInv'
<1>1. /\ run' \in [Updaters -> Runs]
      /\ run'[u].pc = "gated"
      /\ run'[u].overtaken = run[u].overtaken
      /\ \A v \in Updaters : v # u => run'[v] = run[v]
  BY Moved DEF UpgradeInv, PostUpdate, RunSteps
<1>2. /\ server'.gate = "running" /\ server'.running = server.running
      /\ server' \in [running : 1..MaxRelease, gate : {"idle", "running", "applied"}]
  BY DEF UpgradeInv, UpgradeTypeOK, PostUpdate, Gate
<1>3. UpgradeTypeOK' BY <1>1, <1>2 DEF UpgradeInv, UpgradeTypeOK, PostUpdate, Updaters
<1>4. LocksAreHeld' /\ SightsAreOld' /\ CopiesAreOfIt'
  BY <1>1 DEF UpgradeInv, LocksAreHeld, SightsAreOld, CopiesAreOfIt, PostUpdate
<1>5. GateLetsOneIn' BY <1>1, <1>2 DEF UpgradeInv, GateLetsOneIn, PostUpdate, Updaters
<1>6. ConsoleAlone'
  BY <1>1, <1>2 DEF UpgradeInv, ConsoleAlone, GateLetsOneIn, PostUpdate, Updaters
<1> QED BY <1>3, <1>4, <1>5, <1>6 DEF UpgradeInv

LEMMA BeginApplyInv ==
  ASSUME UpgradeInv, NEW u \in Updaters, BeginApply(u)
  PROVE  UpgradeInv'
<1> DEFINE current == IF u \in Posts THEN server.running ELSE exe.version
           begun == [pc |-> "looking", saw |-> exe.id, target |-> 0, overtaken |-> FALSE,
                     current |-> current]
<1>1. /\ current \in 1..MaxRelease /\ exe.id \in 0..MaxInstalls
      /\ run \in [Updaters -> Runs] BY DEF UpgradeInv, UpgradeTypeOK, Updaters
<1>3. run' = [run EXCEPT ![u] = begun] BY DEF BeginApply
<1> HIDE DEF current
<1>4. begun \in Runs BY <1>1 DEF Runs, RunSteps
<1>5. /\ run' \in [Updaters -> Runs]
      /\ run'[u] = begun
      /\ \A v \in Updaters : v # u => run'[v] = run[v] BY <1>1, <1>3, <1>4
<1>6. run'[u].pc = "looking" /\ run'[u].saw = exe.id /\ ~run'[u].overtaken BY <1>5
<1> HIDE DEF begun
<1>7. UpgradeTypeOK' BY <1>5 DEF UpgradeInv, UpgradeTypeOK, BeginApply, Updaters
<1>8. LocksAreHeld' /\ SightsAreOld' /\ CopiesAreOfIt'
  BY <1>1, <1>5, <1>6 DEF UpgradeInv, LocksAreHeld, SightsAreOld, CopiesAreOfIt, BeginApply
<1>9. u \in Posts => run[u].pc # "idle" BY DEF BeginApply
<1>10. GateLetsOneIn' BY <1>5, <1>6, <1>9 DEF UpgradeInv, GateLetsOneIn, BeginApply, Updaters
<1>11. ConsoleAlone' BY <1>5, <1>6, <1>9 DEF UpgradeInv, ConsoleAlone, BeginApply, Updaters
<1> QED BY <1>7, <1>8, <1>10, <1>11 DEF UpgradeInv

LEMMA LookupInv ==
  ASSUME UpgradeInv, NEW u \in Updaters, Lookup(u)
  PROVE  UpgradeInv'
<1> DEFINE a == [run[u] EXCEPT !.pc = "fetching"]
           found == [a EXCEPT !.target = latest]
<1>1. run \in [Updaters -> Runs] /\ run[u] \in Runs /\ latest \in 1..MaxRelease
  BY DEF UpgradeInv, UpgradeTypeOK, Updaters
<1>2. run' = [run EXCEPT ![u] = found] BY DEF Lookup
<1>2a. a \in Runs /\ a.pc = "fetching" /\ a.saw = run[u].saw /\ a.overtaken = run[u].overtaken
  BY <1>1 DEF Runs, RunSteps
<1> HIDE DEF a
<1>3. /\ found \in Runs /\ found.pc = "fetching" /\ found.target = latest
      /\ found.saw = run[u].saw /\ found.overtaken = run[u].overtaken BY <1>1, <1>2a DEF Runs
<1> HIDE DEF found
<1>4. /\ run' \in [Updaters -> Runs]
      /\ run'[u] = found
      /\ \A v \in Updaters : v # u => run'[v] = run[v] BY <1>1, <1>2, <1>3
<1>5. UpgradeTypeOK' BY <1>4 DEF UpgradeInv, UpgradeTypeOK, Lookup, Updaters
<1>6. LocksAreHeld' /\ SightsAreOld' /\ CopiesAreOfIt'
  BY <1>1, <1>3, <1>4 DEF UpgradeInv, LocksAreHeld, SightsAreOld, CopiesAreOfIt, Lookup
<1>7. GateLetsOneIn' BY <1>3, <1>4 DEF UpgradeInv, GateLetsOneIn, Lookup, Updaters
<1>8. ConsoleAlone' BY <1>3, <1>4 DEF UpgradeInv, ConsoleAlone, Lookup, Updaters
<1> QED BY <1>5, <1>6, <1>7, <1>8 DEF UpgradeInv

LEMMA BackUpInv ==
  ASSUME UpgradeInv, NEW u \in Updaters, BackUp(u)
  PROVE  UpgradeInv'
<1>1. /\ run' \in [Updaters -> Runs]
      /\ run'[u].pc = "copied"
      /\ run'[u].saw = run[u].saw
      /\ run'[u].target = run[u].target
      /\ run'[u].overtaken = run[u].overtaken
      /\ \A v \in Updaters : v # u => run'[v] = run[v] BY Moved DEF UpgradeInv, BackUp, RunSteps
<1>2. exe.version \in 1..MaxRelease /\ bak' = exe.version BY DEF UpgradeInv, UpgradeTypeOK, BackUp
<1>3. UpgradeTypeOK' BY <1>1, <1>2 DEF UpgradeInv, UpgradeTypeOK, BackUp, Updaters
<1>4. updateLock = u /\ updateLock' = u BY DEF UpgradeInv, LocksAreHeld, BackUp
<1>5. LocksAreHeld' BY <1>1, <1>4 DEF UpgradeInv, LocksAreHeld
<1>6. SightsAreOld' BY <1>1 DEF UpgradeInv, SightsAreOld, BackUp
<1>7. CopiesAreOfIt' BY <1>1, <1>2, <1>4 DEF UpgradeInv, LocksAreHeld, CopiesAreOfIt, BackUp
<1>8. GateLetsOneIn' BY <1>1 DEF UpgradeInv, GateLetsOneIn, BackUp, Updaters
<1>9. ConsoleAlone'
  <2>1. SUFFICES ASSUME alone' PROVE ConsoleAlone' BY DEF ConsoleAlone
  <2>2. alone /\ u \in Posts BY <2>1 DEF BackUp
  <2>3. exe.version = server.running BY <2>2 DEF UpgradeInv, ConsoleAlone, GateLetsOneIn, BackUp
  <2> QED BY <1>1, <1>2, <2>2, <2>3 DEF UpgradeInv, ConsoleAlone, BackUp, Updaters
<1> QED BY <1>3, <1>5, <1>6, <1>7, <1>8, <1>9 DEF UpgradeInv

\* The rename: the file is the one that was seen, its copy beside it, the release no
\* older, unless an installer came in between.
LEMMA RenameReplaces ==
  ASSUME UpgradeInv, NEW u \in Updaters, Rename(u), ~run[u].overtaken
  PROVE  /\ exe.id = run[u].saw
         /\ bak = exe.version
         /\ exe'.version >= exe.version
<1>1. exe.id = run[u].saw /\ bak = exe.version BY DEF UpgradeInv, CopiesAreOfIt, Rename
<1>2. exe'.version = run[u].target BY DEF Rename
<1>3. run[u].target \in 1..latest /\ exe.version <= run[u].target
  BY <1>1 DEF UpgradeInv, SightsAreOld, Rename
<1>4. exe.version \in Nat /\ latest \in Nat BY DEF UpgradeInv, UpgradeTypeOK
<1> QED BY <1>1, <1>2, <1>3, <1>4

LEMMA RenameInv ==
  ASSUME UpgradeInv, NEW u \in Updaters, Rename(u)
  PROVE  UpgradeInv'
<1>1. /\ run' \in [Updaters -> Runs]
      /\ run'[u].pc = "installed"
      /\ run'[u].saw = run[u].saw
      /\ run'[u].overtaken = run[u].overtaken
      /\ \A v \in Updaters : v # u => run'[v] = run[v] BY Moved DEF UpgradeInv, Rename, RunSteps
<1>2. /\ exe' = [version |-> run[u].target, id |-> exe.id + 1]
      /\ exe.id < MaxInstalls /\ exe.id \in Nat /\ latest \in 1..MaxRelease
      /\ run[u].target \in 1..latest BY DEF UpgradeInv, UpgradeTypeOK, SightsAreOld, Rename
<1>3. UpgradeTypeOK' BY <1>1, <1>2 DEF UpgradeInv, UpgradeTypeOK, Rename, Updaters
<1>4. updateLock = u /\ updateLock' = u BY DEF UpgradeInv, LocksAreHeld, Rename
<1>5. LocksAreHeld' BY <1>1, <1>4 DEF UpgradeInv, LocksAreHeld
<1>6. \A v \in Updaters : run[v].saw \in Nat BY DEF UpgradeInv, UpgradeTypeOK, Updaters, Runs
<1>7. SightsAreOld' BY <1>1, <1>2, <1>6 DEF UpgradeInv, SightsAreOld, Rename
<1>8. CopiesAreOfIt'
  BY <1>1, <1>2, <1>4, <1>6 DEF UpgradeInv, LocksAreHeld, SightsAreOld, CopiesAreOfIt, Rename
<1>9. GateLetsOneIn' BY <1>1 DEF UpgradeInv, GateLetsOneIn, Rename, Updaters
<1>10. ConsoleAlone'
  <2>1. SUFFICES ASSUME alone' PROVE ConsoleAlone' BY DEF ConsoleAlone
  <2>2. alone /\ u \in Posts /\ bak' = bak /\ server' = server BY <2>1 DEF Rename
  <2>3. exe.version = server.running BY <2>2 DEF UpgradeInv, ConsoleAlone, GateLetsOneIn, Rename
  <2>4. bak = exe.version BY <2>2 DEF UpgradeInv, ConsoleAlone, CopiesAreOfIt, Rename
  <2> QED BY <1>1, <2>2, <2>3, <2>4 DEF UpgradeInv, ConsoleAlone, Updaters
<1> QED BY <1>3, <1>5, <1>7, <1>8, <1>9, <1>10 DEF UpgradeInv

LEMMA AppliedInv ==
  ASSUME UpgradeInv, NEW u \in Updaters, Applied(u)
  PROVE  UpgradeInv'
<1>1. /\ run' = [run EXCEPT ![u] = AtRest]
      /\ run \in [Updaters -> Runs] BY DEF Applied, Returns, UpgradeInv, UpgradeTypeOK, Updaters
<1>2. /\ run' \in [Updaters -> Runs]
      /\ run'[u] = AtRest
      /\ \A v \in Updaters : v # u => run'[v] = run[v] BY <1>1, AtRestType
<1>3. updateLock' \in {Free, Orphan} \cup Updaters
  BY DEF Applied, Returns, UpgradeInv, UpgradeTypeOK, Updaters
<1>4. /\ u \in Commands => server' = server
      /\ u \in Posts => server' = [server EXCEPT !.gate = "applied"]
      /\ u \in Commands => u \notin Posts BY DEF Applied, Returns, Gate
<1>5. UpgradeTypeOK' BY <1>2, <1>3, <1>4 DEF UpgradeInv, UpgradeTypeOK, Applied, Updaters
<1>6. LocksAreHeld' BY <1>2 DEF UpgradeInv, LocksAreHeld, Applied, Returns, AtRest
<1>7. SightsAreOld' /\ CopiesAreOfIt'
  BY <1>2 DEF UpgradeInv, SightsAreOld, CopiesAreOfIt, Applied, AtRest
<1>8. /\ server'.running = server.running
      /\ server'.gate = IF u \in Posts THEN "applied" ELSE server.gate
  BY <1>4 DEF UpgradeInv, UpgradeTypeOK, Updaters
<1>9. GateLetsOneIn' BY <1>2, <1>4, <1>8 DEF UpgradeInv, GateLetsOneIn, Applied, AtRest, Updaters
<1>10. ConsoleAlone' BY <1>2, <1>4, <1>8 DEF UpgradeInv, ConsoleAlone, Applied, AtRest, Updaters
<1> QED BY <1>5, <1>6, <1>7, <1>9, <1>10 DEF UpgradeInv

LEMMA RestartInv ==
  ASSUME UpgradeInv, Restart
  PROVE  UpgradeInv'
<1>1. /\ run \in [Updaters -> Runs]
      /\ exe.version \in 1..MaxRelease BY DEF UpgradeInv, UpgradeTypeOK, Updaters
<1>2. run' = [u \in Updaters |-> IF u \in Posts THEN AtRest ELSE run[u]] BY <1>1 DEF Restart, Dies
<1>3. /\ run' \in [Updaters -> Runs]
      /\ \A u \in Posts : run'[u] = AtRest
      /\ \A u \in Commands : run'[u] = run[u] BY <1>1, <1>2, AtRestType DEF Updaters
<1>4. UpgradeTypeOK' BY <1>1, <1>3 DEF UpgradeInv, UpgradeTypeOK, Restart, Dies, Updaters
<1>5. LocksAreHeld' BY <1>3 DEF UpgradeInv, LocksAreHeld, Restart, Dies, Updaters, AtRest
<1>6. SightsAreOld' /\ CopiesAreOfIt'
  BY <1>3 DEF UpgradeInv, SightsAreOld, CopiesAreOfIt, Restart, Updaters, AtRest
<1>7. GateLetsOneIn' /\ ConsoleAlone'
  BY <1>3 DEF UpgradeInv, GateLetsOneIn, ConsoleAlone, Restart, AtRest
<1> QED BY <1>4, <1>5, <1>6, <1>7 DEF UpgradeInv

LEMMA CommandDiesInv ==
  ASSUME UpgradeInv, NEW u \in Updaters, CommandDies(u)
  PROVE  UpgradeInv'
<1>1. run \in [Updaters -> Runs] /\ u \in Commands /\ u \notin Posts
  BY DEF UpgradeInv, UpgradeTypeOK, Updaters, CommandDies
<1>2. run' = [v \in Updaters |-> IF v = u THEN AtRest ELSE run[v]] BY <1>1 DEF CommandDies, Dies
<1>3. /\ run' \in [Updaters -> Runs]
      /\ run'[u] = AtRest
      /\ \A v \in Updaters : v # u => run'[v] = run[v] BY <1>1, <1>2, AtRestType
<1>4. UpgradeTypeOK' BY <1>3 DEF UpgradeInv, UpgradeTypeOK, CommandDies, Dies, Updaters
<1>5. LocksAreHeld' BY <1>3 DEF UpgradeInv, LocksAreHeld, CommandDies, Dies, AtRest
<1>6. SightsAreOld' /\ CopiesAreOfIt'
  BY <1>3 DEF UpgradeInv, SightsAreOld, CopiesAreOfIt, CommandDies, AtRest
<1>7. GateLetsOneIn' /\ ConsoleAlone'
  BY <1>1, <1>3 DEF UpgradeInv, GateLetsOneIn, ConsoleAlone, CommandDies, AtRest, Updaters
<1> QED BY <1>4, <1>5, <1>6, <1>7 DEF UpgradeInv

LEMMA NewReleaseInv ==
  ASSUME UpgradeInv, NewRelease
  PROVE  UpgradeInv'
<1>1. UpgradeTypeOK' BY DEF UpgradeInv, UpgradeTypeOK, NewRelease
<1>2. SightsAreOld' BY DEF UpgradeInv, UpgradeTypeOK, SightsAreOld, NewRelease
<1> QED BY <1>1, <1>2
    DEF UpgradeInv, LocksAreHeld, CopiesAreOfIt, GateLetsOneIn, ConsoleAlone, NewRelease

LEMMA InstallInv ==
  ASSUME UpgradeInv, Install
  PROVE  UpgradeInv'
<1>0. /\ run \in [Updaters -> Runs]
      /\ exe.version \in 1..MaxRelease /\ latest \in 1..MaxRelease
      /\ exe.id \in 0..MaxInstalls /\ exe.id < MaxInstalls
  BY DEF UpgradeInv, UpgradeTypeOK, Updaters, Install
<1>1. /\ exe'.id = exe.id + 1 /\ exe'.version \in exe.version..latest
      /\ exe' \in [version : 1..MaxRelease, id : 0..MaxInstalls] BY <1>0 DEF Install
<1>2. ASSUME NEW u \in Updaters
      PROVE  /\ run'[u] \in Runs
             /\ run'[u].pc = run[u].pc /\ run'[u].saw = run[u].saw
             /\ run'[u].target = run[u].target
             /\ run'[u].overtaken = (run[u].overtaken \/ run[u].pc = "sure")
  <2>1. run'[u] = [run[u] EXCEPT !.overtaken = @ \/ run[u].pc = "sure"] BY <1>0 DEF Install
  <2>2. run[u] \in Runs BY <1>0
  <2> QED BY <2>1, <2>2 DEF Runs
<1>3. DOMAIN run' = Updaters /\ run' = [u \in Updaters |-> run'[u]] BY <1>0 DEF Install
<1>4. run' \in [Updaters -> Runs] BY <1>2, <1>3
<1>5. UpgradeTypeOK' BY <1>1, <1>4 DEF UpgradeInv, UpgradeTypeOK, Install, Updaters
<1>6. LocksAreHeld' BY <1>2 DEF UpgradeInv, LocksAreHeld, Install
<1>7. \A u \in Updaters : run[u].saw \in Nat BY <1>0 DEF Runs
<1>8. SightsAreOld' BY <1>0, <1>1, <1>2, <1>7 DEF UpgradeInv, SightsAreOld, Install
<1>9. ASSUME NEW u \in Updaters
      PROVE  /\ run'[u].pc = "copied" => run'[u].saw # exe'.id
             /\ run'[u].pc = "sure" => run'[u].overtaken = TRUE
  <2>1. run[u].pc = "copied" => run[u].saw <= exe.id BY DEF UpgradeInv, SightsAreOld
  <2>2. run'[u].pc = "copied" => run'[u].saw # exe'.id BY <1>0, <1>1, <1>2, <1>7, <2>1
  <2>3. run'[u].pc = "sure" => run'[u].overtaken = TRUE BY <1>2
  <2> QED BY <2>2, <2>3
<1>9a. CopiesAreOfIt' BY <1>9 DEF CopiesAreOfIt
<1>10. GateLetsOneIn' BY <1>2 DEF UpgradeInv, GateLetsOneIn, Install, Updaters
<1>11. ConsoleAlone' BY DEF ConsoleAlone, Install
<1> QED BY <1>5, <1>6, <1>8, <1>9a, <1>10, <1>11 DEF UpgradeInv

LEMMA UpdateInv ==
  ASSUME UpgradeInv, NEW u \in Updaters, Update(u)
  PROVE  UpgradeInv'
<1>1. CASE PostUpdate(u) BY <1>1, PostUpdateInv
<1>2. CASE PreflightRefuses(u) \/ UpToDate(u) \/ Fails(u) \/ RenameFails(u)
  BY <1>2, ReturnsInv DEF PreflightRefuses, UpToDate, Fails, RenameFails
<1>3. CASE BeginApply(u) BY <1>3, BeginApplyInv
<1>4. CASE Lookup(u) BY <1>4, LookupInv
<1>5. CASE Fetched(u)
  <2>1. Goes(u, "asking") \/ Goes(u, "locking") BY <1>5 DEF Fetched
  <2> QED BY <1>5, <2>1, Onward DEF Fetched, RunSteps
<1>6. CASE Confirm(u) BY <1>6, Onward DEF Confirm, RunSteps
<1>7. CASE AcquireLock(u)
  <2>1. CASE updateLock = Free BY <1>7, <2>1, Onward DEF AcquireLock, RunSteps
  <2>2. CASE updateLock # Free BY <1>7, <2>2, ReturnsInv DEF AcquireLock
  <2> QED BY <2>1, <2>2
<1>8. CASE Recheck(u)
  <2>0. updateLock = u BY <1>8 DEF Recheck, UpgradeInv, LocksAreHeld
  <2>1. CASE SameFile(u) BY <1>8, <2>0, <2>1, Onward DEF Recheck, RunSteps
  <2>2. CASE ~SameFile(u) BY <1>8, <2>2, ReturnsInv DEF Recheck
  <2> QED BY <2>1, <2>2
<1>9. CASE BackUp(u) BY <1>9, BackUpInv
<1>10. CASE RecheckCopied(u)
  <2>0. updateLock = u BY <1>10 DEF RecheckCopied, UpgradeInv, LocksAreHeld
  <2>1. CASE SameFile(u)
    <3>1. run[u].saw = exe.id /\ bak = exe.version
      BY <1>10, <2>1 DEF SameFile, RecheckCopied, UpgradeInv, CopiesAreOfIt
    <3> QED BY <1>10, <2>0, <2>1, <3>1, Onward DEF RecheckCopied, RunSteps
  <2>2. CASE ~SameFile(u) BY <1>10, <2>2, ReturnsInv DEF RecheckCopied
  <2> QED BY <2>1, <2>2
<1>11. CASE Rename(u) BY <1>11, RenameInv
<1>12. CASE Applied(u) BY <1>12, AppliedInv
<1>13. CASE CommandDies(u) BY <1>13, CommandDiesInv
<1> QED BY <1>1, <1>2, <1>3, <1>4, <1>5, <1>6, <1>7, <1>8, <1>9, <1>10, <1>11, <1>12, <1>13
    DEF Update

LEMMA UpgradeStarts == UpgradeInit => UpgradeInv
<1> SUFFICES ASSUME UpgradeInit PROVE UpgradeInv OBVIOUS
<1>1. \A u \in Updaters : run[u].pc = "idle" /\ ~run[u].overtaken
  BY DEF UpgradeInit, Updaters, AtRest
<1>1a. exe.version = 1 /\ server.running = 1 /\ latest = 1 BY DEF UpgradeInit
<1>2. UpgradeTypeOK BY AtRestType DEF UpgradeInit, UpgradeTypeOK
<1>3. LocksAreHeld /\ CopiesAreOfIt BY <1>1 DEF LocksAreHeld, CopiesAreOfIt
<1>3a. SightsAreOld BY <1>1, <1>1a DEF SightsAreOld
<1>4. GateLetsOneIn /\ ConsoleAlone BY <1>1, <1>1a DEF GateLetsOneIn, ConsoleAlone, Updaters
<1> QED BY <1>2, <1>3, <1>3a, <1>4 DEF UpgradeInv

LEMMA UpgradeKeeps == UpgradeInv /\ [UpgradeNext]_upgrade => UpgradeInv'
<1> SUFFICES ASSUME UpgradeInv, [UpgradeNext]_upgrade PROVE UpgradeInv' OBVIOUS
<1>1. CASE \E u \in Updaters : Update(u) BY <1>1, UpdateInv
<1>2. CASE Restart BY <1>2, RestartInv
<1>3. CASE OperatorClearsLock
  <2>1. LocksAreHeld' BY <1>3 DEF UpgradeInv, LocksAreHeld, OperatorClearsLock, Updaters, Orphan
  <2> QED BY <1>3, <2>1 DEF OperatorClearsLock, UpgradeInv, UpgradeTypeOK, SightsAreOld, CopiesAreOfIt,
        GateLetsOneIn, ConsoleAlone
<1>4. CASE NewRelease BY <1>4, NewReleaseInv
<1>5. CASE Install BY <1>5, InstallInv
<1>6. CASE UNCHANGED upgrade
  BY <1>6 DEF upgrade, UpgradeInv, UpgradeTypeOK, LocksAreHeld, SightsAreOld, CopiesAreOfIt,
      GateLetsOneIn, ConsoleAlone
<1> QED BY <1>1, <1>2, <1>3, <1>4, <1>5, <1>6 DEF UpgradeNext, Updaters

\* Only a rename takes an updater from sure to installed.
LEMMA ReplacesStep ==
  UpgradeInv /\ [UpgradeNext]_upgrade => [\A u \in Posts \cup Commands : Replaces(u)]_upgrade
<1> SUFFICES ASSUME UpgradeInv, UpgradeNext, NEW u \in Updaters,
                    run[u].pc = "sure", run'[u].pc = "installed", ~run[u].overtaken
             PROVE  exe.id = run[u].saw /\ bak = exe.version /\ exe'.version >= exe.version
  BY DEF Replaces, Updaters
<1>0. run \in [Updaters -> Runs] BY DEF UpgradeInv, UpgradeTypeOK, Updaters
<1>1. ASSUME NEW v \in Updaters, Update(v) PROVE Rename(u)
  <2>1. CASE u = v /\ ~Rename(v)
    <3>1. ~(PostUpdate(v) \/ PreflightRefuses(v) \/ BeginApply(v) \/ Lookup(v) \/ UpToDate(v)
            \/ Fetched(v) \/ Confirm(v) \/ Fails(v) \/ AcquireLock(v) \/ Recheck(v)
            \/ BackUp(v) \/ RecheckCopied(v) \/ Applied(v))
      BY <2>1 DEF PostUpdate, PreflightRefuses, BeginApply, Lookup, UpToDate, Fetched, Confirm,
         Fails, AcquireLock, Recheck, BackUp, RecheckCopied, Applied
    <3>2. RenameFails(v) => run'[u].pc = "idle" BY <1>0, <2>1 DEF RenameFails, Returns, AtRest
    <3>3. CommandDies(v) => run'[u].pc = "idle" BY <1>0, <2>1 DEF CommandDies, Dies, AtRest
    <3> QED BY <1>1, <2>1, <3>1, <3>2, <3>3 DEF Update
  <2>2. CASE u # v
    <3>1. run'[u] = run[u] BY <1>0, <1>1, <2>2, Zenon
         DEF Update, PostUpdate, PreflightRefuses, BeginApply, Lookup, UpToDate, Fetched, Confirm,
         Fails, AcquireLock, Recheck, BackUp, RecheckCopied, Rename, RenameFails, Applied,
         CommandDies, Dies, Returns, Goes
    <3> QED BY <3>1
  <2> QED BY <1>1, <2>1, <2>2
<1>2. ~Restart BY <1>0 DEF Restart, Dies, AtRest
<1>3. ~(OperatorClearsLock \/ NewRelease) BY DEF OperatorClearsLock, NewRelease
<1>4. ~Install
  <2>1. Install => run'[u].pc = run[u].pc BY <1>0 DEF Install, Runs
  <2> QED BY <2>1
<1>5. Rename(u) BY <1>1, <1>2, <1>3, <1>4 DEF UpgradeNext, Updaters
<1> QED BY <1>5, RenameReplaces

\* An updater replaces the file it set out from, whose copy is then beside the new one,
\* by no older release; and the copy is the version still running until the restart.
THEOREM UpdatesReversible == UpgradeSpec => UpdatesAreReversible
<1>1. UpgradeSpec => []UpgradeInv BY UpgradeStarts, UpgradeKeeps, PTL DEF UpgradeSpec
<1>2. UpgradeInv => RollbackStands BY DEF UpgradeInv, UpgradeTypeOK, ConsoleAlone, RollbackStands
<1>3. UpgradeSpec => []RollbackStands BY <1>1, <1>2, PTL
<1>4. UpgradeSpec => [][\A u \in Posts \cup Commands : Replaces(u)]_upgrade
  BY <1>1, ReplacesStep, PTL DEF UpgradeSpec
<1> QED BY <1>3, <1>4 DEF UpdatesAreReversible
----------------------------------------
(* Binding.  What releasing, evicting and assigning do to a registry whose *)
(* counts are right comes first, then the invariant.                       *)

USE CandidatesAssumption, CapacityAssumption, PairsAssumption, TimesAssumption

Sound(r) == /\ r \in Registries
            /\ \A s \in Slots : r.counts[s] = Cardinality(HoldersIn(r, s))
            /\ Cardinality(Bound(r)) <= Capacity
----------------------------------------
(* Registries. *)

LEMMA PairsFinite == IsFiniteSet(Pairs)
BY FS_Product DEF Pairs

\* What a registry holds.
LEMMA Fields ==
  ASSUME NEW r \in Registries
  PROVE  /\ r.target \in [Pairs -> Candidates \cup {0}]
         /\ r.lastUsed \in [Pairs -> Nat]
         /\ r.counts \in [Slots -> Nat]
BY DEF Registries

LEMMA SlotType ==
  ASSUME NEW p \in Pairs, NEW c \in Candidates
  PROVE  Slot(p, c) \in Slots
BY DEF Slot, Slots, Pairs

LEMMA SetsFinite ==
  ASSUME NEW r \in Registries
  PROVE  /\ IsFiniteSet(Bound(r)) /\ Cardinality(Bound(r)) \in Nat
         /\ \A s : IsFiniteSet(HoldersIn(r, s)) /\ Cardinality(HoldersIn(r, s)) \in Nat
<1>1. Bound(r) \subseteq Pairs BY DEF Bound
<1>2. IsFiniteSet(Bound(r)) BY <1>1, PairsFinite, FS_Subset
<1>3. \A s : HoldersIn(r, s) \subseteq Bound(r) BY DEF HoldersIn
<1>4. \A s : IsFiniteSet(HoldersIn(r, s)) BY <1>2, <1>3, FS_Subset
<1> QED BY <1>2, <1>4, FS_CardinalityType

\* Releasing a bound pair takes it, and nothing else, out of the bindings.
LEMMA ReleaseBound ==
  ASSUME NEW r, Sound(r), NEW p \in Bound(r)
  PROVE  /\ Sound(Released(r, p))
         /\ Bound(Released(r, p)) = Bound(r) \ {p}
         /\ Cardinality(Bound(Released(r, p))) = Cardinality(Bound(r)) - 1
         /\ Released(r, p).target = [r.target EXCEPT ![p] = 0]
<1> DEFINE s0 == Slot(p, r.target[p])
           n == IF r.counts[s0] <= 1 THEN 0 ELSE r.counts[s0] - 1
           f == Released(r, p)
<1>1. r \in Registries BY DEF Sound
<1>2. p \in Pairs /\ r.target[p] # 0 /\ r.target[p] \in Candidates BY <1>1, Fields DEF Bound
<1>3. s0 \in Slots BY <1>2, SlotType
<1>4. r.counts[s0] \in Nat /\ n \in Nat BY <1>1, <1>3, Fields
<1>5. /\ f.target = [r.target EXCEPT ![p] = 0]
      /\ f.lastUsed = [r.lastUsed EXCEPT ![p] = 0]
      /\ f.counts = [r.counts EXCEPT ![s0] = n]
      /\ f = [target |-> f.target, lastUsed |-> f.lastUsed, counts |-> f.counts]
  BY <1>1, <1>2 DEF Released, Registries
<1>6. /\ f.target \in [Pairs -> Candidates \cup {0}]
      /\ f.lastUsed \in [Pairs -> Nat]
      /\ f.counts \in [Slots -> Nat] BY <1>1, <1>2, <1>3, <1>4, <1>5, Fields
<1>7. f \in Registries BY <1>5, <1>6 DEF Registries
<1>8. Bound(f) = Bound(r) \ {p} BY <1>1, <1>2, <1>5, Fields DEF Bound
<1>9. Cardinality(Bound(f)) = Cardinality(Bound(r)) - 1
  <2> HIDE DEF f
  <2>1. IsFiniteSet(Bound(r)) BY <1>1, SetsFinite
  <2>2. Cardinality(Bound(r) \ {p}) = Cardinality(Bound(r)) - 1 BY <2>1, FS_RemoveElement
  <2> QED BY <1>8, <2>2
<1>10. ASSUME NEW s \in Slots
       PROVE  f.counts[s] = Cardinality(HoldersIn(f, s))
  <2>1. r.counts[s] = Cardinality(HoldersIn(r, s)) BY DEF Sound
  <2>2. HoldersIn(f, s) = HoldersIn(r, s) \ {p}
    BY <1>1, <1>2, <1>5, <1>8, Fields DEF HoldersIn, Bound
  <2>3. p \in HoldersIn(r, s) <=> s = s0 BY DEF HoldersIn
  <2>4. CASE s = s0
    <3>0. IsFiniteSet(HoldersIn(r, s)) /\ p \in HoldersIn(r, s) BY <1>1, <2>3, <2>4, SetsFinite
    <3>1. Cardinality(HoldersIn(f, s)) = Cardinality(HoldersIn(r, s)) - 1
      BY ONLY <2>2, <3>0, FS_RemoveElement
    <3>2. Cardinality(HoldersIn(f, s)) \in Nat BY <1>7, SetsFinite
    <3>3. f.counts[s] = n BY <1>1, <1>3, <1>5, <2>4, Fields
    <3> QED BY <1>4, <2>1, <2>4, <3>1, <3>2, <3>3
  <2>5. CASE s # s0
    <3>1. HoldersIn(f, s) = HoldersIn(r, s) BY <2>2, <2>3, <2>5
    <3>2. f.counts[s] = r.counts[s] BY <1>1, <1>3, <1>5, <2>5, Fields
    <3> QED BY <2>1, <3>1, <3>2
  <2> QED BY <2>4, <2>5
<1>11. Cardinality(Bound(f)) <= Capacity BY <1>1, <1>9, SetsFinite DEF Sound
<1> QED BY <1>5, <1>7, <1>8, <1>9, <1>10, <1>11 DEF Sound

\* Releasing any pair leaves it unbound and the counts right.
LEMMA ReleaseAny ==
  ASSUME NEW r, Sound(r), NEW p \in Pairs
  PROVE  /\ Sound(Released(r, p))
         /\ Released(r, p).target[p] = 0
<1>1. CASE r.target[p] = 0 BY <1>1 DEF Released
<1>2. CASE r.target[p] # 0
  <2>1. p \in Bound(r) BY <1>2 DEF Bound
  <2>2. r.target \in [Pairs -> Candidates \cup {0}] BY Fields DEF Sound
  <2>3. Sound(Released(r, p)) /\ Released(r, p).target = [r.target EXCEPT ![p] = 0]
    BY <2>1, ReleaseBound
  <2> QED BY <2>2, <2>3
<1> QED BY <1>1, <1>2

\* Making room leaves room, and binds nothing.
LEMMA Evict ==
  ASSUME NEW r, Sound(r), NEW e \in Evictions(r), NEW p \in Pairs, r.target[p] = 0
  PROVE  /\ Sound(e)
         /\ Cardinality(Bound(e)) < Capacity
         /\ e.target[p] = 0
<1>1. r \in Registries /\ Cardinality(Bound(r)) \in Nat /\ Cardinality(Bound(r)) <= Capacity
  BY SetsFinite DEF Sound
<1>2. CASE Cardinality(Bound(r)) < Capacity BY <1>2 DEF Evictions
<1>3. CASE ~(Cardinality(Bound(r)) < Capacity)
  <2>1. PICK v \in Oldest(r) : e = Released(r, v) BY <1>3 DEF Evictions
  <2>2. v \in Bound(r) BY DEF Oldest
  <2>3. e.target = [r.target EXCEPT ![v] = 0] BY <2>1, <2>2, ReleaseBound
  <2>4. r.target \in [Pairs -> Candidates \cup {0}] BY <1>1, Fields
  <2>5. e.target[p] = 0 BY <2>3, <2>4
  <2>6. Sound(e) /\ Cardinality(Bound(e)) = Cardinality(Bound(r)) - 1 BY <2>1, <2>2, ReleaseBound
  <2> QED BY <1>1, <2>5, <2>6
<1> QED BY <1>2, <1>3

\* Assigning an unbound pair, where there is room, adds its binding.
LEMMA Assigning ==
  ASSUME NEW r, Sound(r), Cardinality(Bound(r)) < Capacity, now \in Nat,
         NEW p \in Pairs, r.target[p] = 0, NEW c \in Candidates
  PROVE  Sound(Assigned(r, p, c))
<1> DEFINE s0 == Slot(p, c)
           n == r.counts[s0] + 1
           f == Assigned(r, p, c)
<1>1. r \in Registries BY DEF Sound
<1>2. s0 \in Slots BY SlotType
<1>3. r.counts[s0] \in Nat /\ n \in Nat BY <1>1, <1>2, Fields
<1>0. f = [[[r EXCEPT !.target = [r.target EXCEPT ![p] = c]]
                  EXCEPT !.lastUsed = [r.lastUsed EXCEPT ![p] = now]]
                  EXCEPT !.counts = [r.counts EXCEPT ![s0] = n]] BY <1>1 DEF Assigned, Registries
<1>4. /\ f.target = [r.target EXCEPT ![p] = c]
      /\ f.lastUsed = [r.lastUsed EXCEPT ![p] = now]
      /\ f.counts = [r.counts EXCEPT ![s0] = n]
      /\ f = [target |-> f.target, lastUsed |-> f.lastUsed, counts |-> f.counts]
  <2> HIDE DEF s0, n, f
  <2> QED BY <1>0, <1>1 DEF Registries
<1>5. /\ f.target \in [Pairs -> Candidates \cup {0}]
      /\ f.lastUsed \in [Pairs -> Nat]
      /\ f.counts \in [Slots -> Nat] BY <1>1, <1>2, <1>3, <1>4, Fields
<1>6. f \in Registries BY <1>4, <1>5 DEF Registries
<1>7. c # 0 OBVIOUS
<1>8. Bound(f) = Bound(r) \cup {p} /\ p \notin Bound(r) BY <1>1, <1>4, <1>7, Fields DEF Bound
<1>9. Cardinality(Bound(f)) = Cardinality(Bound(r)) + 1 BY <1>1, <1>8, SetsFinite, FS_AddElement
<1>10. ASSUME NEW s \in Slots
       PROVE  f.counts[s] = Cardinality(HoldersIn(f, s))
  <2>1. r.counts[s] = Cardinality(HoldersIn(r, s)) BY DEF Sound
  <2>2. f.target[p] = c /\ \A q \in Bound(r) : f.target[q] = r.target[q]
    BY <1>1, <1>4, <1>8, Fields DEF Bound
  <2>3. p \notin HoldersIn(r, s) BY <1>8 DEF HoldersIn
  <2>4. CASE s = s0
    <3>1. HoldersIn(f, s) = HoldersIn(r, s) \cup {p} BY <1>8, <2>2, <2>4 DEF HoldersIn
    <3>2. Cardinality(HoldersIn(f, s)) = Cardinality(HoldersIn(r, s)) + 1
      <4> HIDE DEF f
      <4>1. IsFiniteSet(HoldersIn(r, s)) BY <1>1, SetsFinite
      <4>2. Cardinality(HoldersIn(r, s) \cup {p}) = Cardinality(HoldersIn(r, s)) + 1
        BY <2>3, <4>1, FS_AddElement
      <4> QED BY <3>1, <4>2
    <3>3. f.counts[s] = n BY <1>1, <1>2, <1>4, <2>4, Fields
    <3> QED BY <2>1, <2>4, <3>2, <3>3
  <2>5. CASE s # s0
    <3>1. HoldersIn(f, s) = HoldersIn(r, s) BY <1>8, <2>2, <2>5 DEF HoldersIn
    <3>2. f.counts[s] = r.counts[s] BY <1>1, <1>2, <1>4, <2>5, Fields
    <3> QED BY <2>1, <3>1, <3>2
  <2> QED BY <2>4, <2>5
<1>11. Cardinality(Bound(f)) <= Capacity BY <1>1, <1>9, SetsFinite
<1> QED BY <1>6, <1>10, <1>11 DEF Sound

\* Release, make room, assign: what Route and Rebind do to a pair.
LEMMA Replacing ==
  ASSUME NEW r, Sound(r), NEW p \in Pairs, now \in Nat,
         NEW e \in Evictions(Released(r, p)), NEW c \in Candidates
  PROVE  Sound(Assigned(e, p, c))
<1>1. Sound(Released(r, p)) /\ Released(r, p).target[p] = 0 BY ReleaseAny
<1>2. Sound(e) /\ Cardinality(Bound(e)) < Capacity /\ e.target[p] = 0 BY <1>1, Evict
<1> QED BY <1>2, Assigning
----------------------------------------
(* The specification. *)

BindingInv == TypeOK /\ Sound(reg)

LEMMA NoRequestType == NoRequest \in Walks
<1>1. PICK k \in CallerKeys : \E m \in Models : TRUE OBVIOUS
<1>2. PICK m \in Models : TRUE BY <1>1
<1>3. <<k, m>> \in Pairs BY DEF Pairs
<1> DEFINE anyPair == CHOOSE p \in Pairs : TRUE
<1>4. anyPair \in Pairs BY <1>3, Zenon
<1>5. NoRequest = [pc |-> "idle", pair |-> anyPair, first |-> 0, left |-> {},
                   invalidated |-> FALSE] BY DEF NoRequest
<1> HIDE DEF anyPair
<1> QED BY <1>4, <1>5 DEF Walks

LEMMA BindingStarts == Init => BindingInv
<1> SUFFICES ASSUME Init PROVE BindingInv OBVIOUS
<1>2. Empty \in Registries BY DEF Empty, Registries
<1>3. Bound(Empty) = {} BY DEF Bound, Empty
<1>4. \A s \in Slots : HoldersIn(Empty, s) = {} BY <1>3 DEF HoldersIn
<1>5. \A s \in Slots : Empty.counts[s] = 0 BY DEF Empty
<1>6. Sound(Empty)
  <2>1. Cardinality({}) = 0 BY FS_EmptySet, Zenon
  <2>2. Capacity \in Nat \ {0} BY CapacityAssumption
  <2>3. Cardinality(Bound(Empty)) <= Capacity BY <1>3, <2>1, <2>2
  <2>4. \A s \in Slots : Empty.counts[s] = Cardinality(HoldersIn(Empty, s))
    BY <1>4, <1>5, <2>1, Zenon
  <2> QED BY <1>2, <2>3, <2>4, Zenon DEF Sound
<1>7. TypeOK BY <1>2, NoRequestType DEF Init, TypeOK
<1> QED BY <1>6, <1>7 DEF Init, BindingInv

\* A walk that begins holds its pair, its first candidate and its chain.
LEMMA Beginning ==
  ASSUME TypeOK, NEW q \in Requests, NEW pair \in Pairs,
         NEW first \in Candidates \cup {0}, NEW chain \in SUBSET Candidates,
         Begin(q, pair, first, chain)
  PROVE  req' \in [Requests -> Walks]
<1>1. [pc |-> "walking", pair |-> pair, first |-> first, left |-> chain,
       invalidated |-> FALSE] \in Walks BY DEF Walks
<1>2. req \in [Requests -> Walks] BY DEF TypeOK
<1> QED BY <1>1, <1>2 DEF Begin

LEMMA HitStep ==
  ASSUME BindingInv, NEW pair \in Pairs, NEW c \in Candidates, reg.target[pair] = c,
         reg' = [reg EXCEPT !.lastUsed[pair] = now]
  PROVE  Sound(reg')
<1>1. reg \in Registries /\ now \in Nat BY DEF BindingInv, TypeOK
<1>2. reg' = [reg EXCEPT !.lastUsed = [reg.lastUsed EXCEPT ![pair] = now]] BY <1>1 DEF Registries
<1>3. [reg.lastUsed EXCEPT ![pair] = now] \in [Pairs -> Nat] BY <1>1, Fields
<1>4. reg' \in Registries /\ reg'.target = reg.target /\ reg'.counts = reg.counts
  BY <1>1, <1>2, <1>3 DEF Registries
<1>5. Bound(reg') = Bound(reg) BY <1>4 DEF Bound
<1>6. \A s \in Slots : HoldersIn(reg', s) = HoldersIn(reg, s) BY <1>4, <1>5 DEF HoldersIn
<1> QED BY <1>4, <1>5, <1>6 DEF BindingInv, Sound

LEMMA RouteStep ==
  ASSUME BindingInv, NEW q \in Requests, NEW pair \in Pairs, NEW chain \in Chains(pair[2]),
         Route(q, pair, chain)
  PROVE  BindingInv'
<1>1. TypeOK /\ Sound(reg) /\ now \in Nat /\ reg \in Registries BY DEF BindingInv, TypeOK
<1>2. chain \subseteq Candidates /\ Eligible(chain) \subseteq Candidates BY DEF Chains, Eligible
<1>3. deadEndUntil' \in [Providers -> Nat] /\ now' = now /\ open' = open BY <1>1 DEF Route, TypeOK
<1>4. CASE Hit(q, pair, chain)
  <2>1. reg.target[pair] \in Candidates BY <1>2, <1>4 DEF Hit
  <2>2. Begin(q, pair, reg.target[pair], chain) /\ steady' = steady BY <1>4 DEF Hit
  <2>3. Sound(reg') BY <1>4, <2>1, HitStep DEF Hit
  <2> QED BY <1>1, <1>2, <1>3, <2>1, <2>2, <2>3, Beginning DEF BindingInv, TypeOK, Sound
<1>5. CASE Assign(q, pair, chain)
  <2>1. reg' \in Assignments(reg, pair, Eligible(chain)) BY <1>5 DEF Assign
  <2>a. PICK e \in Evictions(Released(reg, pair)) :
            \E c \in LeastBound(e, pair, Eligible(chain)) : reg' = Assigned(e, pair, c)
    BY <2>1 DEF Assignments
  <2>2. PICK c \in LeastBound(e, pair, Eligible(chain)) : reg' = Assigned(e, pair, c) BY <2>a
  <2>3. c \in Candidates BY <1>2 DEF LeastBound
  <2>4. Sound(Assigned(e, pair, c)) BY <1>1, <2>3, Replacing
  <2>5. Sound(reg') /\ reg' \in Registries BY <2>2, <2>4 DEF Sound
  <2>6. reg'.target[pair] \in Candidates \cup {0} BY <2>5 DEF Registries
  <2>7. Begin(q, pair, reg'.target[pair], chain) /\ steady' \in BOOLEAN
    BY <1>1, <1>5 DEF Assign, TypeOK
  <2>8. req' \in [Requests -> Walks] BY <1>1, <1>2, <2>6, <2>7, Beginning
  <2> QED BY <1>1, <1>3, <2>5, <2>7, <2>8 DEF BindingInv, TypeOK
<1>6. CASE Blackout(q, pair, chain)
  <2>1. Begin(q, pair, 0, chain) /\ reg' = reg /\ steady' = steady BY <1>6 DEF Blackout
  <2>2. Sound(reg') BY <1>1, <2>1
  <2> QED BY <1>1, <1>2, <1>3, <2>1, <2>2, Beginning DEF BindingInv, TypeOK
<1> QED BY <1>4, <1>5, <1>6 DEF Route

\* The walking steps that leave the registry alone.
LEMMA WalkStep ==
  ASSUME BindingInv, NEW q \in Requests, NEW c \in Candidates, DeadEnd(q, c) \/ Skip(q, c)
  PROVE  BindingInv'
<1>1. TypeOK /\ Sound(reg) /\ reg' = reg BY DEF BindingInv, DeadEnd, Skip
<1>2. Sound(reg') BY <1>1
<1>3. CASE DeadEnd(q, c)
  <2>1. now + Cooldown \in Nat BY <1>1 DEF TypeOK
  <2>2. deadEndUntil' \in [Providers -> Nat] BY <1>1, <1>3, <2>1 DEF DeadEnd, TypeOK
  <2>3. req' \in [Requests -> Walks]
    <3> DEFINE w == [req[q] EXCEPT !.left = @ \ {c}, !.invalidated = @ \/ c = req[q].first]
    <3>1. req \in [Requests -> Walks] /\ req[q] \in Walks BY <1>1 DEF TypeOK
    <3>2. w \in Walks BY <3>1 DEF Walks
    <3>3. req' = [req EXCEPT ![q] = w] BY <1>3, <3>1 DEF DeadEnd
    <3> HIDE DEF w
    <3> QED BY <3>1, <3>2, <3>3
  <2>4. UNCHANGED <<now, reg, open, steady>> BY <1>3 DEF DeadEnd
  <2> QED BY <1>1, <1>2, <2>2, <2>3, <2>4 DEF TypeOK, BindingInv
<1>4. CASE Skip(q, c) BY <1>1, <1>2, <1>4 DEF Skip, TypeOK, Walks, BindingInv
<1> QED BY <1>3, <1>4

LEMMA ServedStep ==
  ASSUME BindingInv, NEW q \in Requests, NEW c \in Candidates, Served(q, c)
  PROVE  BindingInv'
<1>1. TypeOK /\ Sound(reg) /\ now \in Nat /\ req[q].pair \in Pairs
  BY DEF BindingInv, TypeOK, Walks
<1>2. Sound(reg')
  <2>1. CASE reg' = reg BY <1>1, <2>1
  <2>2. CASE reg' # reg
    <3>1. reg' \in Rebindings(reg, req[q].pair, c, req[q].first) BY <2>2 DEF Served
    <3>2. PICK e \in Evictions(Released(reg, req[q].pair)) :
              reg' = Assigned(e, req[q].pair, c) BY <2>2, <3>1 DEF Rebindings
    <3>3. Sound(Assigned(e, req[q].pair, c)) BY <1>1, Replacing
    <3> QED BY <3>2, <3>3
  <2> QED BY <2>1, <2>2
<1>4. steady' \in BOOLEAN BY <1>1 DEF Served, TypeOK
<1>5. req' \in [Requests -> Walks] BY <1>1, NoRequestType DEF Served, TypeOK
<1> QED BY <1>1, <1>2, <1>4, <1>5 DEF Served, TypeOK, BindingInv, Sound

LEMMA BindingKeeps == BindingInv /\ [Next]_vars => BindingInv'
<1> SUFFICES ASSUME BindingInv, [Next]_vars PROVE BindingInv' OBVIOUS
<1>1. ASSUME NEW q \in Requests, NEW pair \in Pairs, NEW chain \in Chains(pair[2]),
             Route(q, pair, chain)
      PROVE  BindingInv' BY <1>1, RouteStep
<1>2. ASSUME NEW q \in Requests, NEW c \in Candidates, DeadEnd(q, c) \/ Skip(q, c)
      PROVE  BindingInv' BY <1>2, WalkStep
<1>3. ASSUME NEW q \in Requests, End(q)
      PROVE  BindingInv'
  <2>1. TypeOK /\ Sound(reg) /\ reg' = reg BY <1>3 DEF BindingInv, End
  <2>2. Sound(reg') BY <2>1
  <2>3. req' \in [Requests -> Walks] BY <1>3, <2>1, NoRequestType DEF End, TypeOK
  <2> QED BY <1>3, <2>1, <2>2, <2>3 DEF End, TypeOK, BindingInv
<1>4. ASSUME NEW q \in Requests, NEW c \in Candidates, Served(q, c)
      PROVE  BindingInv' BY <1>4, ServedStep
<1>5. CASE Breakers
  <2>1. TypeOK /\ Sound(reg) /\ reg' = reg BY <1>5 DEF BindingInv, Breakers
  <2>2. Sound(reg') BY <2>1
  <2> QED BY <1>5, <2>1, <2>2 DEF BindingInv, TypeOK, Breakers
<1>6. CASE Tick
  <2>1. TypeOK /\ Sound(reg) /\ reg' = reg BY <1>6 DEF BindingInv, Tick
  <2>2. Sound(reg') BY <2>1
  <2>3. now' \in Nat BY <1>6, <2>1 DEF Tick, TypeOK
  <2> QED BY <1>6, <2>1, <2>2, <2>3 DEF BindingInv, TypeOK, Tick
<1>7. CASE UNCHANGED vars
  <2>1. TypeOK /\ Sound(reg) /\ reg' = reg BY <1>7 DEF BindingInv, vars
  <2>2. Sound(reg') BY <2>1
  <2> QED BY <1>7, <2>1, <2>2 DEF BindingInv, TypeOK, vars
<1> QED BY <1>1, <1>2, <1>3, <1>4, <1>5, <1>6, <1>7 DEF Next, Step

\* The invariant of the registry under every interleaving of requests.
THEOREM BindingInvariance == Spec => []BindingInv
<1> QED BY BindingStarts, BindingKeeps, PTL DEF Spec

\* Type correctness.
THEOREM BindingTypeCorrect == Spec => []TypeOK
<1>1. BindingInv => TypeOK BY DEF BindingInv
<1> QED BY BindingInvariance, <1>1, PTL

\* The count a least-bound choice reads is the number of the model's bindings to
\* the provider, whatever was released, evicted, assigned or rebound before.
THEOREM CountsExact == Spec => []CountsAreBindings
<1>1. BindingInv => CountsAreBindings BY DEF BindingInv, Sound, CountsAreBindings, Holders
<1> QED BY BindingInvariance, <1>1, PTL

\* The registry never holds more than Capacity bindings.
THEOREM Bounded == Spec => []WithinCapacity
<1>1. BindingInv => WithinCapacity BY DEF BindingInv, Sound, WithinCapacity
<1> QED BY BindingInvariance, <1>1, PTL
----------------------------------------
(* Where bindings land. *)

\* A walk that has met its bound candidate as a dead end has left it.
DeadEndsAreLeft ==
  \A q \in Requests : req[q].invalidated => req[q].first \notin req[q].left

\* A model's bindings are spread over its providers.
Even(r) ==
  \A m \in Models : \A p, o \in Whole(m) : r.counts[<<m, p>>] <= r.counts[<<m, o>>] + 1

BalanceInv == BindingInv /\ DeadEndsAreLeft /\ (steady => Even(reg))

\* What a step of q alone leaves of the walks.
LEMMA Walked ==
  ASSUME TypeOK, NEW q \in Requests, NEW w, req' = [req EXCEPT ![q] = w]
  PROVE  req'[q] = w /\ \A o \in Requests : o # q => req'[o] = req[o]
BY DEF TypeOK

\* The count of the slot a binding is added to is one more, the others are as they were.
LEMMA AssignedCounts ==
  ASSUME NEW r \in Registries, NEW p \in Pairs, NEW c \in Candidates
  PROVE  /\ Assigned(r, p, c).target[p] = c
         /\ Assigned(r, p, c).counts[Slot(p, c)] = r.counts[Slot(p, c)] + 1
         /\ \A s \in Slots : s # Slot(p, c) => Assigned(r, p, c).counts[s] = r.counts[s]
<1> DEFINE s0 == Slot(p, c)
<1>1. s0 \in Slots BY SlotType
<1>2. /\ Assigned(r, p, c).target = [r.target EXCEPT ![p] = c]
      /\ Assigned(r, p, c).counts = [r.counts EXCEPT ![s0] = r.counts[s0] + 1]
  BY DEF Assigned, Registries
<1> HIDE DEF s0
<1>3. \A s \in Slots : s # s0 => Assigned(r, p, c).counts[s] = r.counts[s] BY <1>1, <1>2, Fields
<1>4. Assigned(r, p, c).counts[s0] = r.counts[s0] + 1 BY <1>1, <1>2, Fields
<1>5. Assigned(r, p, c).target[p] = c BY <1>2, Fields
<1> QED BY <1>3, <1>4, <1>5 DEF s0

\* A registry that Assign may leave: the binding made, in a registry with room for it.
LEMMA AssignedTo ==
  ASSUME BindingInv, NEW q \in Requests, NEW pair \in Pairs, NEW chain \in Chains(pair[2]),
         Assign(q, pair, chain)
  PROVE  \E e \in Evictions(Released(reg, pair)) :
             /\ e \in Registries
             /\ \E c \in Eligible(chain) :
                  /\ c \in LeastBound(e, pair, Eligible(chain))
                  /\ reg' = Assigned(e, pair, c)
<1>1. PICK e \in Evictions(Released(reg, pair)) :
            \E c \in LeastBound(e, pair, Eligible(chain)) : reg' = Assigned(e, pair, c)
  BY DEF Assign, Assignments
<1>2. Sound(Released(reg, pair)) /\ Released(reg, pair).target[pair] = 0
  BY ReleaseAny DEF BindingInv
<1>3. e \in Registries BY <1>1, <1>2, Evict DEF Sound
<1> QED BY <1>1, <1>3 DEF LeastBound

LEMMA EligibleType ==
  ASSUME NEW pair \in Pairs, NEW chain \in Chains(pair[2])
  PROVE  Eligible(chain) \subseteq Candidates
BY DEF Chains, Eligible

\* A least-bound choice keeps an even spread even, where every provider may be chosen.
LEMMA EvenStays ==
  ASSUME BindingInv, NEW pair \in Pairs, NEW chain \in Chains(pair[2]),
         {ProviderOf[c] : c \in Eligible(chain)} = Whole(pair[2]), Even(reg),
         NEW c \in LeastBound(reg, pair, Eligible(chain))
  PROVE  Even(Assigned(reg, pair, c))
<1> DEFINE r == Assigned(reg, pair, c)
<1>1. reg \in Registries BY DEF BindingInv, Sound
<1>2. c \in Candidates /\ c \in Eligible(chain) BY EligibleType DEF LeastBound
<1>3. /\ r.counts[Slot(pair, c)] = reg.counts[Slot(pair, c)] + 1
      /\ \A s \in Slots : s # Slot(pair, c) => r.counts[s] = reg.counts[s]
  BY <1>1, <1>2, AssignedCounts
<1> HIDE DEF r
<1>4. SUFFICES ASSUME NEW m \in Models, NEW p \in Whole(m), NEW o \in Whole(m)
               PROVE  r.counts[<<m, p>>] <= r.counts[<<m, o>>] + 1 BY DEF Even, r
<1>5. <<m, p>> \in Slots /\ <<m, o>> \in Slots BY CandidatesAssumption DEF Slots, Whole
<1>6. reg.counts[<<m, p>>] \in Nat /\ reg.counts[<<m, o>>] \in Nat BY <1>1, <1>5, Fields
<1>7. reg.counts[<<m, p>>] <= reg.counts[<<m, o>>] + 1 BY DEF Even
<1>8. CASE <<m, p>> = Slot(pair, c) /\ <<m, o>> # Slot(pair, c)
  <2>1. m = pair[2] BY <1>8 DEF Slot
  <2>2. PICK d \in Eligible(chain) : o = ProviderOf[d] BY <2>1
  <2>3. <<m, o>> = Slot(pair, d) BY <2>1, <2>2 DEF Slot
  <2>4. reg.counts[<<m, p>>] <= reg.counts[<<m, o>>]
    <3>1. \/ reg.counts[Slot(pair, c)] < reg.counts[Slot(pair, d)]
          \/ reg.counts[Slot(pair, c)] = reg.counts[Slot(pair, d)] BY <2>2 DEF LeastBound
    <3> QED BY <1>6, <1>8, <2>3, <3>1
  <2> QED BY <1>3, <1>5, <1>6, <1>8, <2>4
<1>9. CASE <<m, p>> = Slot(pair, c) /\ <<m, o>> = Slot(pair, c) BY <1>3, <1>6, <1>9
<1>10. CASE <<m, p>> # Slot(pair, c) BY <1>3, <1>5, <1>6, <1>7, <1>10
<1> QED BY <1>8, <1>9, <1>10

\* Routing keeps an even spread, or is no longer steady.
LEMMA RouteBalance ==
  ASSUME BalanceInv, NEW q \in Requests, NEW pair \in Pairs, NEW chain \in Chains(pair[2]),
         Route(q, pair, chain)
  PROVE  steady' => Even(reg')
<1>0. BindingInv /\ (steady => Even(reg)) BY DEF BalanceInv
<1>1. CASE Hit(q, pair, chain)
  <2>1. reg' = [reg EXCEPT !.lastUsed[pair] = now] /\ steady' = steady BY <1>1 DEF Hit
  <2>2. reg'.counts = reg.counts BY <1>0, <2>1 DEF BindingInv, Sound, Registries
  <2> QED BY <1>0, <2>1, <2>2 DEF Even
<1>2. CASE Assign(q, pair, chain)
  <2>1. SUFFICES ASSUME steady' PROVE Even(reg') OBVIOUS
  <2>2. /\ steady /\ {ProviderOf[c] : c \in Eligible(chain)} = Whole(pair[2])
        /\ reg.target[pair] = 0 /\ Cardinality(Bound(reg)) < Capacity BY <1>2, <2>1 DEF Assign
  <2>3. Evictions(Released(reg, pair)) = {reg} BY <2>2 DEF Released, Evictions
  <2>4. PICK c \in Eligible(chain) :
            c \in LeastBound(reg, pair, Eligible(chain)) /\ reg' = Assigned(reg, pair, c)
    BY <1>0, <1>2, <2>3, AssignedTo
  <2> QED BY <1>0, <2>2, <2>4, EvenStays
<1>3. CASE Blackout(q, pair, chain) BY <1>0, <1>3 DEF Blackout
<1> QED BY <1>1, <1>2, <1>3 DEF Route

LEMMA BalanceKeeps == BalanceInv /\ [Next]_vars => BalanceInv'
<1> SUFFICES ASSUME BalanceInv, [Next]_vars PROVE BalanceInv' OBVIOUS
<1>0. BindingInv /\ DeadEndsAreLeft /\ (steady => Even(reg)) /\ TypeOK
  BY DEF BalanceInv, BindingInv
<1>1. BindingInv' BY <1>0, BindingKeeps
<1>2. DeadEndsAreLeft'
  <2>1. ASSUME NEW q \in Requests, NEW pair \in Pairs, NEW chain \in Chains(pair[2]),
               Route(q, pair, chain)
        PROVE  DeadEndsAreLeft'
    <3>1. PICK first : Begin(q, pair, first, chain) BY <2>1 DEF Route, Hit, Assign, Blackout
    <3> DEFINE w == [pc |-> "walking", pair |-> pair, first |-> first, left |-> chain,
                     invalidated |-> FALSE]
    <3>2. req' = [req EXCEPT ![q] = w] BY <3>1 DEF Begin
    <3>3. ~w.invalidated OBVIOUS
    <3> HIDE DEF w
    <3>4. req'[q] = w /\ \A o \in Requests : o # q => req'[o] = req[o] BY <1>0, <3>2, Walked
    <3> QED BY <1>0, <3>3, <3>4 DEF DeadEndsAreLeft
  <2>2. ASSUME NEW q \in Requests, NEW c \in Candidates, DeadEnd(q, c)
        PROVE  DeadEndsAreLeft'
    <3> DEFINE a == [req[q] EXCEPT !.left = @ \ {c}]
               w == [a EXCEPT !.invalidated = @ \/ c = req[q].first]
    <3>1. req' = [req EXCEPT ![q] = w] BY <2>2 DEF DeadEnd
    <3>2. req[q] \in Walks BY <1>0 DEF TypeOK
    <3>3. a \in Walks /\ a.left = req[q].left \ {c} /\ a.first = req[q].first
             /\ a.invalidated = req[q].invalidated BY <3>2 DEF Walks
    <3> HIDE DEF a
    <3>4. w.left = a.left /\ w.first = a.first
             /\ w.invalidated = (a.invalidated \/ c = req[q].first) BY <3>3 DEF Walks
    <3> HIDE DEF w
    <3>5. req'[q] = w /\ \A o \in Requests : o # q => req'[o] = req[o] BY <1>0, <3>1, Walked
    <3> QED BY <1>0, <3>3, <3>4, <3>5 DEF DeadEndsAreLeft
  <2>3. ASSUME NEW q \in Requests, NEW c \in Candidates, Skip(q, c)
        PROVE  DeadEndsAreLeft'
    <3>1. req[q] \in Walks BY <1>0 DEF TypeOK
    <3>2. /\ req'[q].left = req[q].left \ {c} /\ req'[q].first = req[q].first
          /\ req'[q].invalidated = req[q].invalidated
          /\ \A o \in Requests : o # q => req'[o] = req[o]
      BY <1>0, <2>3, <3>1 DEF Skip, TypeOK, Walks
    <3> QED BY <1>0, <3>2 DEF DeadEndsAreLeft
  <2>4. ASSUME NEW q \in Requests, req' = [req EXCEPT ![q] = NoRequest]
        PROVE  DeadEndsAreLeft'
    <3>1. ~NoRequest.invalidated BY DEF NoRequest
    <3> QED BY <1>0, <2>4, <3>1, Walked DEF DeadEndsAreLeft
  <2>5. CASE UNCHANGED req BY <1>0, <2>5 DEF DeadEndsAreLeft
  <2> QED BY <2>1, <2>2, <2>3, <2>4, <2>5 DEF Next, Step, Served, End, Breakers, Tick, vars
<1>3. steady' => Even(reg')
  <2>1. ASSUME NEW q \in Requests, NEW pair \in Pairs, NEW chain \in Chains(pair[2]),
               Route(q, pair, chain)
        PROVE  steady' => Even(reg') BY <2>1, RouteBalance
  <2>2. CASE UNCHANGED <<reg, steady>> BY <1>0, <2>2
  <2>3. ASSUME NEW q \in Requests, NEW c \in Candidates, Served(q, c)
        PROVE  steady' => Even(reg') BY <1>0, <2>3 DEF Served
  <2> QED BY <2>1, <2>2, <2>3 DEF Next, Step, DeadEnd, Skip, End, Breakers, Tick, vars
<1> QED BY <1>1, <1>2, <1>3 DEF BalanceInv

LEMMA BalanceStarts == Init => BalanceInv
<1> SUFFICES ASSUME Init PROVE BalanceInv OBVIOUS
<1>1. BindingInv BY BindingStarts
<1>2. DeadEndsAreLeft BY DEF Init, DeadEndsAreLeft, NoRequest
<1>3. Even(reg)
  <2>1. \A s \in Slots : reg.counts[s] = 0 BY DEF Init, Empty
  <2>2. \A m \in Models : \A p \in Whole(m) : <<m, p>> \in Slots
    BY CandidatesAssumption DEF Slots, Whole
  <2>3. ASSUME NEW m \in Models, NEW p \in Whole(m), NEW o \in Whole(m)
        PROVE  reg.counts[<<m, p>>] <= reg.counts[<<m, o>>] + 1
    <3>1. reg.counts[<<m, p>>] = 0 /\ reg.counts[<<m, o>>] = 0 BY <2>1, <2>2
    <3> QED BY <3>1
  <2> QED BY <2>3 DEF Even
<1> QED BY <1>1, <1>2, <1>3 DEF BalanceInv

\* The registry stays sound and, undisturbed, even; a walk that rebinds has left its
\* binding: the invariant of which the properties of the bindings are parts.
THEOREM BalanceInvariance == Spec => []BalanceInv
BY BalanceStarts, BalanceKeeps, PTL DEF Spec

LEMMA EvenIsSpread == BalanceInv => SpreadIsEven
<1> SUFFICES ASSUME BalanceInv, steady, NEW m \in Models, NEW p \in Whole(m), NEW o \in Whole(m)
             PROVE  Cardinality(Holders(<<m, p>>)) <= Cardinality(Holders(<<m, o>>)) + 1
  BY DEF SpreadIsEven
<1>1. Sound(reg) /\ Even(reg) BY DEF BalanceInv, BindingInv
<1>2. <<m, p>> \in Slots /\ <<m, o>> \in Slots BY CandidatesAssumption DEF Slots, Whole
<1>3. /\ reg.counts[<<m, p>>] = Cardinality(Holders(<<m, p>>))
      /\ reg.counts[<<m, o>>] = Cardinality(Holders(<<m, o>>)) BY <1>1, <1>2 DEF Sound, Holders
<1>4. reg.counts[<<m, p>>] <= reg.counts[<<m, o>>] + 1 BY <1>1 DEF Even
<1> QED BY <1>3, <1>4

\* A key that is routed anew lands on a least-bound provider.
LEMMA LandsStep ==
  ASSUME BalanceInv, [Next]_vars, NEW q \in Requests, req[q].pc = "idle", req'[q].pc = "walking",
         reg'.target[req'[q].pair] # reg.target[req'[q].pair], NEW d \in Eligible(req'[q].left)
  PROVE  reg'.counts[Slot(req'[q].pair, reg'.target[req'[q].pair])]
            <= reg'.counts[Slot(req'[q].pair, d)] + 1
<1>0. BindingInv /\ TypeOK /\ reg \in Registries BY DEF BalanceInv, BindingInv, Sound
<1>1. PICK o \in Requests, pair \in Pairs : \E chain \in Chains(pair[2]) : Route(o, pair, chain)
  <2>1. CASE UNCHANGED reg BY <2>1
  <2>2. ASSUME NEW o \in Requests, NEW c \in Candidates, Served(o, c) PROVE FALSE
    <3>1. req' = [req EXCEPT ![o] = NoRequest] BY <2>2 DEF Served
    <3>2. NoRequest.pc = "idle" BY DEF NoRequest
    <3>3. req'[o] = NoRequest /\ (q # o => req'[q] = req[q]) BY <1>0, <3>1, Walked
    <3> QED BY <3>2, <3>3
  <2> QED BY <2>1, <2>2 DEF Next, Step, DeadEnd, Skip, End, Breakers, Tick, vars
<1>2. PICK chain \in Chains(pair[2]) : Route(o, pair, chain) BY <1>1
<1>3. PICK first : Begin(o, pair, first, chain) BY <1>2 DEF Route, Hit, Assign, Blackout
<1>4. /\ req'[o].pair = pair /\ req'[o].left = chain
      /\ \A r \in Requests : r # o => req'[r] = req[r]
  <2>1. req' = [req EXCEPT ![o] = [pc |-> "walking", pair |-> pair, first |-> first,
                                   left |-> chain, invalidated |-> FALSE]] BY <1>3 DEF Begin
  <2> QED BY <1>0, <2>1, Walked
<1>5. q = o BY <1>4
<1>6. CASE Hit(o, pair, chain)
  <2>1. reg'.target = reg.target BY <1>0, <1>6 DEF Hit, Registries
  <2> QED BY <2>1
<1>7. CASE Assign(o, pair, chain)
  <2>1. PICK e \in Registries :
            \E c \in Eligible(chain) :
                /\ c \in LeastBound(e, pair, Eligible(chain))
                /\ reg' = Assigned(e, pair, c) BY <1>0, <1>7, AssignedTo
  <2>2. PICK c \in Eligible(chain) :
            c \in LeastBound(e, pair, Eligible(chain)) /\ reg' = Assigned(e, pair, c) BY <2>1
  <2>3. c \in Candidates /\ d \in Candidates /\ d \in Eligible(chain) BY <1>4, <1>5, EligibleType
  <2>4. /\ reg'.target[pair] = c
        /\ reg'.counts[Slot(pair, c)] = e.counts[Slot(pair, c)] + 1
        /\ \A s \in Slots : s # Slot(pair, c) => reg'.counts[s] = e.counts[s]
    BY <2>2, <2>3, AssignedCounts
  <2>5. \/ e.counts[Slot(pair, c)] < e.counts[Slot(pair, d)]
        \/ e.counts[Slot(pair, c)] = e.counts[Slot(pair, d)] BY <2>2, <2>3 DEF LeastBound
  <2>6. /\ Slot(pair, c) \in Slots /\ Slot(pair, d) \in Slots
        /\ e.counts[Slot(pair, c)] \in Nat /\ e.counts[Slot(pair, d)] \in Nat
    BY <2>3, SlotType, Fields
  <2>7. reg'.counts[Slot(pair, c)] <= reg'.counts[Slot(pair, d)] + 1 BY <2>4, <2>5, <2>6
  <2> QED BY <1>4, <1>5, <2>4, <2>7
<1>8. CASE Blackout(o, pair, chain) BY <1>8 DEF Blackout
<1> QED BY <1>2, <1>6, <1>7, <1>8 DEF Route

\* The counts are right, each choice is of a least-bound provider, and while nothing has
\* displaced a binding the spread over a model's providers is even.
THEOREM Balanced == Spec => BindingsAreBalanced
<1>1. BalanceInv => CountsAreBindings /\ SpreadIsEven
  BY EvenIsSpread DEF BalanceInv, BindingInv, Sound, CountsAreBindings, Holders
<1>2. BalanceInv /\ [Next]_vars =>
        [ \A q \in Requests :
          LET pair == req'[q].pair
              c == reg'.target[pair] IN
          (req[q].pc = "idle" /\ req'[q].pc = "walking" /\ c # reg.target[pair]) =>
             \A d \in Eligible(req'[q].left) :
                reg'.counts[Slot(pair, c)] <= reg'.counts[Slot(pair, d)] + 1 ]_vars BY LandsStep
<1>3. Spec => LandsOnLeastBound BY <1>2, BalanceInvariance, PTL DEF Spec, LandsOnLeastBound
<1>4. Spec => []CountsAreBindings /\ []SpreadIsEven BY <1>1, BalanceInvariance, PTL
<1> QED BY <1>3, <1>4 DEF BindingsAreBalanced

\* A rebinding takes the key off the dead end it was bound to, and takes away nothing
\* that was bound since.
THEOREM RebindMoves == Spec => RebindMovesOnlyTheDeadEnd
<1>1. ASSUME BalanceInv, NEW q \in Requests, NEW c \in Candidates,
             req[q].invalidated, Served(q, c)
      PROVE  LET pair == req[q].pair
                 was == reg.target[pair]
                 is == reg'.target[pair] IN
             /\ is \notin {0, req[q].first}
             /\ was \notin {0, req[q].first} => is = was
  <2> DEFINE pair == req[q].pair
             first == req[q].first
  <2>1. BindingInv /\ TypeOK /\ Sound(reg) BY <1>1 DEF BalanceInv, BindingInv
  <2>2. pair \in Pairs BY <2>1 DEF TypeOK, Walks
  <2>3. c # first BY <1>1 DEF Served, Current, BalanceInv, DeadEndsAreLeft
  <2>4. reg' \in Rebindings(reg, pair, c, first) BY <1>1 DEF Served
  <2>5. CASE Yields(reg, pair, first)
    <3>1. reg' = reg /\ reg.target[pair] \notin {0, first} BY <2>4, <2>5 DEF Rebindings, Yields
    <3> QED BY <3>1
  <2>6. CASE ~Yields(reg, pair, first)
    <3>1. reg.target[pair] \in {0, first} BY <2>6 DEF Yields
    <3>2. PICK e \in Evictions(Released(reg, pair)) : reg' = Assigned(e, pair, c)
      BY <2>4, <2>6 DEF Rebindings
    <3>3. Sound(Released(reg, pair)) /\ Released(reg, pair).target[pair] = 0
      BY <2>1, <2>2, ReleaseAny
    <3>4. e \in Registries BY <2>2, <3>3, Evict DEF Sound
    <3>5. reg'.target[pair] = c BY <2>2, <3>2, <3>4, AssignedCounts
    <3>6. c # 0 BY CandidatesAssumption
    <3> QED BY <2>3, <3>1, <3>5, <3>6
  <2> QED BY <2>5, <2>6
<1>2. BalanceInv /\ [Next]_vars =>
        [ \A q \in Requests, c \in Candidates :
          (req[q].invalidated /\ Served(q, c)) =>
          LET pair == req[q].pair
              was == reg.target[pair]
              is == reg'.target[pair] IN
          /\ is \notin {0, req[q].first}
          /\ was \notin {0, req[q].first} => is = was ]_vars BY <1>1
<1> QED BY <1>2, BalanceInvariance, PTL DEF Spec, RebindMovesOnlyTheDeadEnd
----------------------------------------
(* KeyWalk. *)

\* A strict and total order of the members of S, as a set of pairs.
Orders(B, S) ==
  /\ \A j, k \in S : j # k => <<j, k>> \in B \/ <<k, j>> \in B
  /\ \A j \in S : <<j, j>> \notin B
  /\ \A i, j, k \in S : <<i, j>> \in B /\ <<j, k>> \in B => <<i, k>> \in B

\* Finitely many can be put in order, each once: by how many come before.
LEMMA InOrder ==
  ASSUME NEW S, IsFiniteSet(S), NEW B, Orders(B, S)
  PROVE  /\ Cardinality(S) \in Nat
         /\ \E s \in [1..Cardinality(S) -> S] :
              \A i, j \in DOMAIN s : i < j => <<s[i], s[j]>> \in B
<1> DEFINE n == Cardinality(S)
           Below(k) == {j \in S : <<j, k>> \in B}
           rank == [k \in S |-> Cardinality(Below(k)) + 1]
<1>1. n \in Nat BY FS_CardinalityType
<1>2. \A k \in S : IsFiniteSet(Below(k)) /\ Cardinality(Below(k)) \in Nat
  BY FS_Subset, FS_CardinalityType
<1>3. ASSUME NEW k \in S PROVE rank[k] \in 1..n
  <2>1. Below(k) \subseteq S /\ Below(k) # S BY <1>3 DEF Orders
  <2>2. Cardinality(Below(k)) <= n /\ Cardinality(Below(k)) # n BY <2>1, FS_Subset
  <2>3. rank[k] = Cardinality(Below(k)) + 1 OBVIOUS
  <2>4. Cardinality(Below(k)) \in Nat BY <1>2
  <2> HIDE DEF rank, Below
  <2> QED BY <2>2, <2>3, <2>4, <1>1
<1>4. ASSUME NEW j \in S, NEW k \in S, <<j, k>> \in B PROVE rank[j] < rank[k]
  <2>1. Below(j) \subseteq Below(k) /\ j \in Below(k) /\ j \notin Below(j) BY <1>4 DEF Orders
  <2>2. IsFiniteSet(Below(k)) BY <1>2
  <2>3. /\ Cardinality(Below(j)) <= Cardinality(Below(k))
        /\ Cardinality(Below(j)) # Cardinality(Below(k))
    <3> HIDE DEF Below
    <3>1. Below(j) \in SUBSET Below(k) /\ Below(j) # Below(k) BY <2>1
    <3> QED BY <3>1, <2>2, FS_Subset
  <2>4. /\ rank[j] = Cardinality(Below(j)) + 1 /\ rank[k] = Cardinality(Below(k)) + 1
        /\ Cardinality(Below(j)) \in Nat /\ Cardinality(Below(k)) \in Nat BY <1>2
  <2> HIDE DEF rank, Below
  <2> QED BY <2>3, <2>4
<1>5. \A j, k \in S : rank[j] \in Nat /\ rank[k] \in Nat
                      /\ (j = k \/ rank[j] < rank[k] \/ rank[k] < rank[j])
  <2>1. \A j \in S : rank[j] \in Nat BY <1>3
  <2> HIDE DEF rank
  <2> QED BY <2>1, <1>4 DEF Orders
<1>6. rank \in Injection(S, 1..n)
  <2>1. rank \in [S -> 1..n] BY <1>3
  <2>2. \A j, k \in S : rank[j] = rank[k] => j = k
    <3> HIDE DEF rank
    <3> QED BY <1>5
  <2>3. DOMAIN rank = S OBVIOUS
  <2> HIDE DEF rank
  <2> QED BY <2>1, <2>2, <2>3 DEF Injection, IsInjective
<1>7. \A i \in 1..n : \E k \in S : rank[k] = i
  <2>1. IsFiniteSet(1..n) /\ Cardinality(1..n) = n BY <1>1, FS_Interval
  <2> HIDE DEF rank
  <2>2. rank \in Surjection(S, 1..n) BY <2>1, <1>6, FS_Injection
  <2> QED BY <2>2 DEF Surjection
<1> DEFINE s == [i \in 1..n |-> CHOOSE k \in S : rank[k] = i]
<1>8. \A i \in 1..n : s[i] \in S /\ rank[s[i]] = i
  <2> HIDE DEF rank
  <2> QED BY <1>7
<1>9. ASSUME NEW i \in 1..n, NEW j \in 1..n, i < j PROVE <<s[i], s[j]>> \in B
  <2> HIDE DEF s, rank
  <2>1. rank[s[i]] = i /\ rank[s[j]] = j /\ s[i] \in S /\ s[j] \in S BY <1>8
  <2>2. s[i] # s[j] /\ ~(rank[s[j]] < rank[s[i]]) BY <2>1, <1>9
  <2> QED BY <2>1, <2>2, <1>4 DEF Orders
<1>10. s \in [1..n -> S] BY <1>8
<1>11. \A i, j \in DOMAIN s : i < j => <<s[i], s[j]>> \in B
  <2>1. DOMAIN s = 1..n OBVIOUS
  <2> HIDE DEF s
  <2> QED BY <1>9, <2>1
<1> HIDE DEF s
<1> QED BY <1>1, <1>10, <1>11

\* The keys in their order.
LEMMA Listed ==
  ASSUME NEW S, S \subseteq PoolKeys
  PROVE  /\ IsFiniteSet(S) /\ Cardinality(S) \in Nat
         /\ InSortOrder(S) \in [1..Cardinality(S) -> S]
         /\ \A i, j \in 1..Cardinality(S) : i < j => InSortOrder(S)[i] < InSortOrder(S)[j]
<1> DEFINE B == {x \in S \X S : x[1] < x[2]}
           n == Cardinality(S)
           Good(t) == \A i, j \in DOMAIN t : i < j => t[i] < t[j]
<1>1. IsFiniteSet(S) /\ S \subseteq Nat BY PoolKeysAssumption, FS_Subset
<1>2. \A j, k \in S : <<j, k>> \in B <=> j < k OBVIOUS
<1>3. Orders(B, S)
  <2> HIDE DEF B
  <2> QED BY <1>1, <1>2 DEF Orders
<1> HIDE DEF B
<1>4. n \in Nat BY <1>1, FS_CardinalityType
<1>5. PICK s \in [1..n -> S] : \A i, j \in DOMAIN s : i < j => <<s[i], s[j]>> \in B
  BY <1>1, <1>3, InOrder
<1>6. Good(s) BY <1>2, <1>5
<1>7. InSortOrder(S) = CHOOSE t \in [1..n -> S] : Good(t) BY DEF InSortOrder, Sorted
<1> HIDE DEF Good, n
<1>8. InSortOrder(S) \in [1..n -> S] /\ Good(InSortOrder(S)) BY <1>6, <1>7
<1>9. DOMAIN InSortOrder(S) = 1..n BY <1>8
<1> QED BY <1>1, <1>4, <1>8, <1>9 DEF Good, n

\* The benched keys in theirs.
LEMMA TailListed ==
  ASSUME NEW S, S \subseteq PoolKeys, until \in [PoolKeys -> Nat]
  PROVE  SoonestFirst(S) \in [1..Cardinality(S) -> S]
<1> DEFINE Sooner(j, k) == until[j] < until[k] \/ (until[j] = until[k] /\ j < k)
           B == {x \in S \X S : Sooner(x[1], x[2])}
           n == Cardinality(S)
           Good(t) == \A i, j \in DOMAIN t : i < j => Sooner(t[i], t[j])
<1>1. IsFiniteSet(S) /\ S \subseteq Nat BY PoolKeysAssumption, FS_Subset
<1>2. \A j, k \in S : <<j, k>> \in B <=> Sooner(j, k) OBVIOUS
<1>3. \A j \in S : until[j] \in Nat /\ j \in Nat BY <1>1
<1>4. Orders(B, S)
  <2> HIDE DEF B
  <2> QED BY <1>2, <1>3 DEF Orders
<1> HIDE DEF B
<1>5. PICK s \in [1..n -> S] : \A i, j \in DOMAIN s : i < j => <<s[i], s[j]>> \in B
  BY <1>1, <1>4, InOrder
<1>6. Good(s)
  <2> HIDE DEF Sooner
  <2> QED BY <1>2, <1>5
<1>7. SoonestFirst(S) = CHOOSE t \in [1..n -> S] : Good(t) BY DEF SoonestFirst, Sorted
<1> HIDE DEF Good, n
<1> QED BY <1>6, <1>7 DEF n

\* The place in a turn of n of a walk that came so many walks before the one at p.
Back(p, many, n) == IF many <= p THEN p - many ELSE p - many + n

\* One walk later, what began a walk m walks ago began one m + 1 walks ago.
LEMMA BackOne ==
  ASSUME NEW n \in Nat, NEW r \in 0..(n - 1), NEW m \in 0..(n - 1),
         NEW t, t = IF r = n - 1 THEN 0 ELSE r + 1
  PROVE  Back(t, m + 1, n) = Back(r, m, n)
BY DEF Back

\* Walks fewer than n apart are at different places of a turn of n.
LEMMA BackApart ==
  ASSUME NEW n \in Nat, NEW r \in 0..(n - 1), NEW a \in 0..(n - 1), NEW b \in 0..(n - 1), a # b
  PROVE  /\ Back(r, a, n) + 1 \in 1..n /\ Back(r, b, n) + 1 \in 1..n
         /\ Back(r, a, n) # Back(r, b, n)
BY DEF Back

\* A list of n members is a sequence.
LEMMA ListIsSeq ==
  ASSUME NEW S, NEW n \in Nat, NEW s \in [1..n -> S]
  PROVE  /\ s \in Seq(S) /\ Len(s) = n
         /\ n > 0 => Head(s) = s[1] /\ s[1] \in S
OBVIOUS

\* First places, newest last, were consecutive in the turn of the keys R, the last of
\* them where the cursor c pointed.
InTurn(R, c, first) ==
  /\ first \in Seq(PoolKeys) /\ Len(first) <= Cardinality(R)
  /\ \A i \in 1..Len(first) :
      first[i] = InSortOrder(R)[Back(c % Cardinality(R), Len(first) - i, Cardinality(R)) + 1]

\* The first places remembered are the turn of the ready keys, up to the last walk.
TurnInv ==
  /\ cursor \in Nat /\ ticks \in Nat /\ until \in [PoolKeys -> Nat]
  /\ walk.ready \subseteq PoolKeys
  /\ walk.ready # {} => cursor > 0
  /\ InTurn(walk.ready, cursor - 1, starts)

\* A remainder is the only one.
LEMMA OneRemainder ==
  ASSUME NEW n \in Nat, n > 0, NEW q \in Int, NEW p \in Int, NEW r \in 0..(n - 1),
         NEW t \in 0..(n - 1), n * q + r = n * p + t
  PROVE  r = t
<1>1. ASSUME NEW d \in Int, d >= 1 PROVE n * d >= n
  <2>1. n * (d - 1) >= 0 BY <1>1
  <2>2. n * d = n * (d - 1) + n BY <1>1
  <2>3. n * d \in Int /\ n * (d - 1) \in Int BY <1>1
  <2> QED BY <2>1, <2>2, <2>3
<1>2. n * q \in Int /\ n * p \in Int OBVIOUS
<1>3. CASE q > p
  <2>1. n * (q - p) >= n BY <1>1, <1>3
  <2>2. n * (q - p) = n * q - n * p OBVIOUS
  <2> QED BY <2>1, <2>2, <1>2
<1>4. CASE p > q
  <2>1. n * (p - q) >= n BY <1>1, <1>4
  <2>2. n * (p - q) = n * p - n * q OBVIOUS
  <2> QED BY <2>1, <2>2, <1>2
<1>5. CASE p = q BY <1>5, <1>2
<1> QED BY <1>3, <1>4, <1>5

\* One more advances the remainder by one, or returns it to 0.
LEMMA NextPlace ==
  ASSUME NEW c \in Nat, NEW n \in Nat, n > 0
  PROVE  /\ c % n \in 0..(n - 1)
         /\ (c + 1) % n = IF c % n = n - 1 THEN 0 ELSE (c % n) + 1
<1> DEFINE q == c \div n
           r == c % n
           p == (c + 1) \div n
           t == (c + 1) % n
<1>1. q \in Int /\ r \in 0..(n - 1) /\ c = n * q + r OBVIOUS
<1>2. p \in Int /\ t \in 0..(n - 1) /\ c + 1 = n * p + t OBVIOUS
<1> HIDE DEF q, r, p, t
<1>3. CASE r = n - 1
  <2>1. c + 1 = n * q + n BY <1>1, <1>3
  <2>2. n * (q + 1) = n * q + n BY <1>1
  <2>3. n * (q + 1) + 0 = n * p + t BY <2>1, <2>2, <1>2
  <2>4. 0 \in 0..(n - 1) /\ q + 1 \in Int BY <1>1
  <2>5. t = 0 BY <2>3, <2>4, <1>2, OneRemainder
  <2> QED BY <2>5, <1>1, <1>3 DEF r, t
<1>4. CASE r # n - 1
  <2>1. r + 1 \in 0..(n - 1) BY <1>1, <1>4
  <2>2. n * q + (r + 1) = n * p + t BY <1>1, <1>2
  <2>3. t = r + 1 BY <2>1, <2>2, <1>1, <1>2, OneRemainder
  <2> QED BY <2>3, <1>1, <1>4 DEF r, t
<1> QED BY <1>3, <1>4

\* A walk over some ready keys begins with the one its cursor points at.
LEMMA HeadOfOrder ==
  ASSUME NEW offered, offered \subseteq PoolKeys, Ready(offered) # {}, cursor \in Nat,
         until \in [PoolKeys -> Nat]
  PROVE  LET n == Cardinality(Ready(offered)) IN
         /\ n \in Nat /\ n > 0
         /\ Head(Order(offered)) = InSortOrder(Ready(offered))[(cursor % n) + 1]
         /\ Head(Order(offered)) \in PoolKeys
<1> DEFINE R == Ready(offered)
           n == Cardinality(R)
           s == InSortOrder(R)
           start == cursor % n
           tail == SoonestFirst(offered \ R)
<1>1. R \subseteq offered /\ R \subseteq PoolKeys BY DEF Ready
<1>2. /\ IsFiniteSet(offered) /\ Cardinality(offered) \in Nat
      /\ IsFiniteSet(R) /\ n \in Nat
      /\ InSortOrder(offered) \in [1..Cardinality(offered) -> offered] /\ s \in [1..n -> R]
  BY <1>1, Listed
<1>3. n # 0 /\ n <= Cardinality(offered) BY <1>1, <1>2, FS_EmptySet, FS_Subset
<1>4. tail \in [1..Cardinality(offered \ R) -> offered \ R] /\ Cardinality(offered \ R) \in Nat
  <2>1. offered \ R \subseteq PoolKeys OBVIOUS
  <2> QED BY <2>1, TailListed, Listed
<1> HIDE DEF R
<1>5. CASE Cardinality(offered) < 2
  <2>1. n = 1 /\ Cardinality(offered) = 1 BY <1>2, <1>3, <1>5
  <2>2. R = offered BY <2>1, <1>1, <1>2, FS_Subset
  <2>3. cursor % n = 0 BY <2>1
  <2>4. Order(offered) = s BY <1>5, <2>2 DEF Order
  <2> HIDE DEF s, n
  <2>6. Head(s) = s[1] /\ s[1] \in R BY <2>1, <1>2, ListIsSeq
  <2> QED BY <2>1, <2>3, <2>4, <2>6, <1>1 DEF R, s, n
<1>6. CASE ~(Cardinality(offered) < 2)
  <2>1. s \in Seq(R) /\ Len(s) = n
    <3> HIDE DEF s, n
    <3> QED BY <1>2, ListIsSeq
  <2>2. s # <<>> BY <2>1, <1>2, <1>3
  <2>3. start \in 0..(n - 1) BY <1>2, <1>3, NextPlace
  <2> HIDE DEF s, n, start
  <2>4. SubSeq(s, start + 1, n) \in Seq(R) /\ Len(SubSeq(s, start + 1, n)) = n - start
        /\ SubSeq(s, start + 1, n)[1] = s[start + 1] BY <2>1, <2>3, <1>2
  <2>5. SubSeq(s, 1, start) \in Seq(R) BY <2>1, <2>3, <1>2
  <2>6. Turned(offered) = SubSeq(s, start + 1, n) \o SubSeq(s, 1, start)
    BY <2>1, <2>2 DEF Turned, R, s, start
  <2>7. Turned(offered) \in Seq(R) /\ Len(Turned(offered)) > 0
        /\ Turned(offered)[1] = s[start + 1] BY <2>3, <2>4, <2>5, <2>6, <1>2
  <2>8. Order(offered) = Turned(offered) \o tail BY <1>6 DEF Order, R
  <2> HIDE DEF tail
  <2>9. tail \in Seq(offered \ R) BY <1>4, ListIsSeq
  <2>10. Head(Turned(offered) \o tail) = s[start + 1] BY <2>7, <2>9
  <2>11. s[start + 1] \in R BY <2>1, <2>3
  <2>12. Head(Order(offered)) = s[start + 1] BY <2>8, <2>10
  <2>13. s[start + 1] \in PoolKeys BY <2>11, <1>1
  <2>14. n \in Nat /\ n > 0 BY <1>2, <1>3
  <2> QED BY <2>12, <2>13, <2>14 DEF R, s, n, start
<1> QED BY <1>5, <1>6

\* Every step of a walk, a bench, a release or the clock keeps the turn.
LEMMA TurnStep ==
  ASSUME TurnInv, [WalkNext]_walks
  PROVE  TurnInv'
<1>1. ASSUME NEW offered \in (SUBSET PoolKeys) \ {{}}, Walk(offered)
      PROVE  TurnInv'
  <2> DEFINE R == Ready(offered)
             n == Cardinality(R)
             s == InSortOrder(R)
             k == Head(Order(offered))
             d == Len(starts)
  <2>1. R \subseteq PoolKeys /\ n \in Nat BY Listed DEF Ready
  <2>2. /\ cursor' = cursor + 1 /\ cursor' \in Nat /\ cursor' - 1 = cursor /\ cursor' > 0
        /\ ticks' \in Nat /\ until' \in [PoolKeys -> Nat]
        /\ walk'.ready = R /\ starts' = Started(R, k) BY <1>1 DEF Walk, TurnInv
  <2>3. CASE R = {}
    <3>1. starts' = <<>> BY <2>2, <2>3 DEF Started
    <3>2. InTurn(R, cursor, <<>>) BY <2>1 DEF InTurn
    <3> HIDE DEF R
    <3> QED BY <2>1, <2>2, <2>3, <3>1, <3>2 DEF TurnInv
  <2>4. CASE R # {}
    <3>1. /\ n > 0 /\ k \in PoolKeys /\ k = s[(cursor % n) + 1] BY <2>4, HeadOfOrder DEF TurnInv
    <3>2. cursor % n \in 0..(n - 1) BY <2>1, <3>1, NextPlace DEF TurnInv
    <3> HIDE DEF R, n, s, k
    <3>3. k = s[Back(cursor % n, 0, n) + 1] BY <3>1, <3>2 DEF Back
    <3>4. ASSUME R # walk.ready PROVE InTurn(R, cursor, starts')
      <4>1. starts' = <<k>> BY <2>2, <2>4, <3>4 DEF Started
      <4>2. starts' \in Seq(PoolKeys) /\ Len(starts') = 1 BY <4>1, <3>1
      <4>3. \A i \in 1..Len(starts') :
                starts'[i] = s[Back(cursor % n, Len(starts') - i, n) + 1] BY <4>1, <4>2, <3>3
      <4>4. Len(starts') <= n BY <4>2, <2>1, <3>1
      <4> QED BY <4>2, <4>3, <4>4 DEF InTurn, n, s
    <3>5. ASSUME R = walk.ready PROVE InTurn(R, cursor, starts')
      <4>1. /\ starts \in Seq(PoolKeys) /\ d \in Nat /\ d <= n /\ cursor > 0 /\ cursor \in Nat
            /\ \A i \in 1..d : starts[i] = s[Back((cursor - 1) % n, d - i, n) + 1]
        <5>1. cursor \in Nat /\ InTurn(walk.ready, cursor - 1, starts) BY DEF TurnInv
        <5>2. R # {} BY <2>4 DEF R
        <5>3. cursor > 0 BY <5>2, <3>5 DEF TurnInv
        <5>4. InTurn(R, cursor - 1, starts) BY <5>1, <3>5
        <5>5. starts \in Seq(PoolKeys) /\ Len(starts) \in Nat BY <5>4 DEF InTurn
        <5> QED BY <5>1, <5>3, <5>4, <5>5 DEF InTurn, n, s
      <4>2. /\ (cursor - 1) % n \in 0..(n - 1)
            /\ cursor % n = IF (cursor - 1) % n = n - 1 THEN 0 ELSE ((cursor - 1) % n) + 1
        <5>1. cursor - 1 \in Nat /\ (cursor - 1) + 1 = cursor BY <4>1
        <5> QED BY <5>1, <2>1, <3>1, NextPlace
      <4>3. \A i \in 1..d : (i > 1 \/ d < n) =>
                starts[i] = s[Back(cursor % n, d + 1 - i, n) + 1]
        <5> SUFFICES ASSUME NEW i \in 1..d, i > 1 \/ d < n
                     PROVE  Back(cursor % n, d + 1 - i, n) = Back((cursor - 1) % n, d - i, n)
          BY <4>1
        <5>1. d - i \in 0..(n - 1) /\ d + 1 - i = (d - i) + 1 BY <4>1, <2>1
        <5> DEFINE r == (cursor - 1) % n
                   t == cursor % n
        <5>2. r \in 0..(n - 1) /\ t = IF r = n - 1 THEN 0 ELSE r + 1 BY <4>2
        <5> HIDE DEF r, t
        <5>3. Back(t, (d - i) + 1, n) = Back(r, d - i, n) BY <5>1, <5>2, <2>1, BackOne
        <5> QED BY <5>1, <5>3 DEF r, t
      <4>4. CASE d < n
        <5>1. starts' = Append(starts, k) BY <2>2, <2>4, <3>5, <4>4 DEF Started, n
        <5>2. starts' \in Seq(PoolKeys) /\ Len(starts') = d + 1
              /\ (\A i \in 1..d : starts'[i] = starts[i]) /\ starts'[d + 1] = k
          BY <5>1, <4>1, <3>1
        <5>3. \A i \in 1..Len(starts') :
                starts'[i] = s[Back(cursor % n, Len(starts') - i, n) + 1]
          <6> SUFFICES ASSUME NEW i \in 1..(d + 1)
                       PROVE  starts'[i] = s[Back(cursor % n, d + 1 - i, n) + 1] BY <5>2
          <6>1. CASE i \in 1..d BY <6>1, <5>2, <4>3, <4>4
          <6>2. CASE i = d + 1
            <7>1. d + 1 - i = 0 BY <6>2, <4>1
            <7> QED BY <7>1, <6>2, <5>2, <3>3
          <6> QED BY <6>1, <6>2, <4>1
        <5>4. d + 1 <= n BY <4>1, <4>4, <2>1
        <5> HIDE DEF d
        <5> QED BY <5>2, <5>3, <5>4 DEF InTurn, n, s
      <4>5. CASE d = n
        <5>1. starts' = Append(Tail(starts), k) BY <2>2, <2>4, <3>5, <4>5, <2>1 DEF Started, n
        <5>2. starts # <<>> BY <4>1, <4>5, <3>1
        <5>3. starts' \in Seq(PoolKeys) /\ Len(starts') = d
              /\ (\A i \in 1..(d - 1) : starts'[i] = starts[i + 1]) /\ starts'[d] = k
          BY <5>1, <5>2, <4>1, <3>1
        <5>4. \A i \in 1..Len(starts') :
                starts'[i] = s[Back(cursor % n, Len(starts') - i, n) + 1]
          <6> SUFFICES ASSUME NEW i \in 1..d
                       PROVE  starts'[i] = s[Back(cursor % n, d - i, n) + 1] BY <5>3
          <6>1. CASE i \in 1..(d - 1)
            <7>1. i + 1 \in 1..d /\ i + 1 > 1 /\ d + 1 - (i + 1) = d - i BY <6>1, <4>1
            <7> QED BY <7>1, <6>1, <5>3, <4>3
          <6>2. CASE i = d
            <7>1. d - i = 0 BY <6>2, <4>1
            <7> QED BY <7>1, <6>2, <5>3, <3>3
          <6> QED BY <6>1, <6>2, <4>1
        <5> HIDE DEF d
        <5> QED BY <4>1, <5>3, <5>4 DEF InTurn, n, s
      <4> QED BY <4>1, <4>4, <4>5, <2>1
    <3> QED BY <2>1, <2>2, <3>4, <3>5 DEF TurnInv
  <2> QED BY <2>3, <2>4
<1>2. ASSUME NEW k \in PoolKeys, ReleaseKey(k) PROVE TurnInv'
  <2>1. until' \in [PoolKeys -> Nat] BY <1>2 DEF ReleaseKey, TurnInv
  <2> QED BY <2>1, <1>2 DEF ReleaseKey, TurnInv
<1>3. ASSUME NEW k \in PoolKeys, NEW d \in Benches, Bench(k, d) PROVE TurnInv'
  <2>1. until' \in [PoolKeys -> Nat] BY <1>3, PoolKeysAssumption DEF Bench, TurnInv
  <2> QED BY <2>1, <1>3 DEF Bench, TurnInv
<1>4. CASE TickPasses BY <1>4 DEF TickPasses, TurnInv
<1>5. CASE UNCHANGED walks BY <1>5 DEF walks, TurnInv
<1> QED BY <1>1, <1>2, <1>3, <1>4, <1>5 DEF WalkNext

\* While the ready keys stay the same, as many consecutive walks as there are begin each
\* with another one (keyPool.walkOrder).
THEOREM TurnsFair == WalkSpec => []TurnsAreFair
<1>1. WalkInit => TurnInv
  <2> SUFFICES ASSUME WalkInit PROVE TurnInv OBVIOUS
  <2>1. Cardinality({}) = 0 BY FS_EmptySet
  <2>2. walk.ready = {} /\ starts = <<>> /\ cursor = 0 /\ ticks = 1
        /\ until \in [PoolKeys -> Nat] BY DEF WalkInit
  <2> QED BY <2>1, <2>2 DEF TurnInv, InTurn
<1>2. TurnInv => TurnsAreFair
  <2> SUFFICES ASSUME TurnInv PROVE IsInjective(starts) BY DEF TurnsAreFair
  <2> DEFINE n == Cardinality(walk.ready)
             s == InSortOrder(walk.ready)
             p == (cursor - 1) % n
             d == Len(starts)
  <2>0. n > 0 => cursor > 0
    <3>1. Cardinality({}) = 0 BY FS_EmptySet
    <3>2. walk.ready # {} => cursor > 0 BY DEF TurnInv
    <3> QED BY <3>1, <3>2
  <2>1. /\ n \in Nat /\ s \in [1..n -> walk.ready] /\ walk.ready \subseteq Nat
        /\ \A i, j \in 1..n : i < j => s[i] < s[j] BY Listed, PoolKeysAssumption DEF TurnInv
  <2>2. /\ starts \in Seq(PoolKeys) /\ d \in Nat /\ d <= n /\ DOMAIN starts = 1..d
        /\ \A i \in 1..d : starts[i] = s[Back(p, d - i, n) + 1] BY DEF TurnInv, InTurn
  <2>3. n > 0 => p \in 0..(n - 1)
    <3>1. n > 0 => cursor - 1 \in Nat BY <2>0 DEF TurnInv
    <3> QED BY <3>1, <2>1, NextPlace
  <2> HIDE DEF n, s, p, d
  <2>4. ASSUME NEW i \in 1..d, NEW j \in 1..d, i < j PROVE starts[i] # starts[j]
    <3>1. /\ Back(p, d - i, n) + 1 \in 1..n /\ Back(p, d - j, n) + 1 \in 1..n
          /\ Back(p, d - i, n) # Back(p, d - j, n)
      <4>1. d - i \in 0..(n - 1) /\ d - j \in 0..(n - 1) /\ d - i # d - j BY <2>1, <2>2, <2>4
      <4>2. n > 0 BY <2>1, <2>2, <2>4
      <4> QED BY <4>1, <4>2, <2>1, <2>3, BackApart
    <3>2. \A a, b \in 1..n : a # b => s[a] # s[b]
      <4> TAKE a, b \in 1..n
      <4>1. s[a] \in Nat /\ s[b] \in Nat BY <2>1
      <4> QED BY <4>1, <2>1
    <3>3. s[Back(p, d - i, n) + 1] # s[Back(p, d - j, n) + 1]
      <4> DEFINE a == Back(p, d - i, n)
                 b == Back(p, d - j, n)
      <4>1. a + 1 \in 1..n /\ b + 1 \in 1..n /\ a # b BY <3>1
      <4>2. a \in Int /\ b \in Int BY <2>1, <2>2, <2>3, <2>4 DEF Back
      <4> HIDE DEF a, b
      <4>3. a + 1 # b + 1 BY <4>1, <4>2
      <4>4. s[a + 1] # s[b + 1] BY <4>1, <4>3, <3>2
      <4> QED BY <4>4 DEF a, b
    <3> QED BY <3>3, <2>2
  <2>5. \A i, j \in 1..d : starts[i] = starts[j] => i = j BY <2>2, <2>4
  <2> QED BY <2>2, <2>5 DEF IsInjective
<1> QED BY <1>1, <1>2, TurnStep, PTL DEF WalkSpec
=============================================================================
