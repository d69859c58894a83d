---------------------------- MODULE GatewayProofs ----------------------------
(***************************************************************************)
(* What holds of every exchange, whatever the budgets, the candidates and  *)
(* the facts reported: the walk is bounded, a verdict is its facts'        *)
(* whichever order they came in, what is quoted is the last attempt's,     *)
(* blame is fair and an exchange ends once.  And of every answer that is   *)
(* translated: in each protocol the caller is shown what the deltas told,  *)
(* by frames that have their place.  What the upstream's frames become as  *)
(* deltas is in CodecProofs.                                               *)
(*                                                                         *)
(* The facts of a batch, the deltas of a chunk and the frames of an answer *)
(* are folded one by one, so most of this is shown by induction on how     *)
(* many were.  The induction is the well-foundedness of strict inclusion   *)
(* on the finite sets, from which a set of naturals has a least element:   *)
(* the shortest prefix a fold gets wrong would be one it gets right.       *)
(***************************************************************************)
EXTENDS Relay, Codec, FiniteSetTheorems, SequenceTheorems, WellFoundedInduction, TLAPS

(* Least numbers. *)

LEMMA Least ==
  ASSUME NEW T, T \subseteq Nat, T # {}
  PROVE  \E m \in T : \A n \in T : m <= n
<1> DEFINE Below == {0 .. n : n \in T}
<1>1. Below \subseteq FiniteSubsetsOf(Nat)
  <2>1. \A n \in Nat : IsFiniteSet(0 .. n) /\ 0 .. n \in SUBSET Nat BY FS_Interval
  <2> QED BY <2>1 DEF FiniteSubsetsOf
<1>2. Below # {} OBVIOUS
<1>3. \E x \in Below : \A y \in Below : ~(<<y, x>> \in StrictSubsetOrdering(Nat))
  <2> HIDE DEF Below
  <2>1. IsWellFoundedOn(StrictSubsetOrdering(Nat), FiniteSubsetsOf(Nat))
    BY FS_StrictSubsetOrderingWellFounded
  <2> QED BY <1>1, <1>2, <2>1, WFMin
<1>4. PICK m \in T : \A n \in T : ~(<<0 .. n, 0 .. m>> \in StrictSubsetOrdering(Nat)) BY <1>3
<1>5. \A n \in T : ~(n < m)
  <2> TAKE n \in T
  <2>1. n \in Nat /\ m \in Nat OBVIOUS
  <2>2. n < m => /\ 0 .. n \subseteq 0 .. m /\ m \in 0 .. m /\ m \notin 0 .. n
                 /\ 0 .. n \in SUBSET Nat /\ 0 .. m \in SUBSET Nat BY <2>1
  <2> QED BY <1>4, <2>2 DEF StrictSubsetOrdering
<1> QED BY <1>5

\* n is the highest, the lowest number of S.
Highest(S, n) == n \in S /\ \A m \in S : m <= n
Lowest(S, n) == n \in S /\ \A m \in S : n <= m

\* A bounded set of naturals that is not empty has a highest element.
LEMMA Most ==
  ASSUME NEW T, NEW bound \in Nat, T \subseteq 0 .. bound, T # {}
  PROVE  \E m \in T : \A n \in T : n <= m
<1> DEFINE Room == {bound - n : n \in T}
<1>1. Room \subseteq Nat /\ Room # {}
  <2>1. \A n \in 0 .. bound : bound - n \in Nat OBVIOUS
  <2> QED BY <2>1
<1>2. PICK r \in Room : \A q \in Room : r <= q
  <2> HIDE DEF Room
  <2> QED BY <1>1, Least
<1>3. PICK m \in T : r = bound - m OBVIOUS
<1>4. \A n \in T : n \in Nat /\ bound - m <= bound - n BY <1>2, <1>3
<1>5. m \in Nat OBVIOUS
<1>6. \A n \in T : n <= m BY <1>4, <1>5
<1> QED BY <1>6

\* What MostOf and LeastOf choose.
LEMMA MostOfIsHighest ==
  ASSUME NEW T, NEW bound \in Nat, T \subseteq 0 .. bound, T # {}
  PROVE  Highest(T, MostOf(T))
BY Most DEF Highest, MostOf

\* The same of LeastOf.
LEMMA LeastOfIsLowest ==
  ASSUME NEW T, T \subseteq Nat, T # {}
  PROVE  Lowest(T, LeastOf(T))
BY Least DEF Lowest, LeastOf

\* There is one of each.
LEMMA HighestIsOne ==
  ASSUME NEW T, T \subseteq Nat, NEW m, NEW n, Highest(T, m), Highest(T, n)
  PROVE  m = n
BY DEF Highest

\* And of the lowest.
LEMMA LowestIsOne ==
  ASSUME NEW T, T \subseteq Nat, NEW m, NEW n, Lowest(T, m), Lowest(T, n)
  PROVE  m = n
BY DEF Lowest

\* The highest of two sets' highest is their union's.
LEMMA HighestOfBoth ==
  ASSUME NEW S, NEW T, S \subseteq Nat, T \subseteq Nat, NEW m, NEW n,
         Highest(S, m), Highest(T, n)
  PROVE  Highest(S \cup T, Strongest(m, n))
<1>1. m \in Nat /\ n \in Nat BY DEF Highest
<1>2. CASE n > m BY <1>1, <1>2 DEF Highest, Strongest
<1>3. CASE ~(n > m) BY <1>1, <1>3 DEF Highest, Strongest
<1> QED BY <1>2, <1>3
----------------------------------------
(* The rows of the table. *)

\* The table read row by row.
LEMMA TableRead ==
  /\ For(KindNone) = Zero
  /\ For(QuotaExhausted) = Reverses(Answers(LoopTerminate, 429, "insufficient_quota"))
  /\ For(BalanceInsufficient) = Reverses(Answers(LoopTerminate, 402, "insufficient_quota"))
  /\ For(CallerRateLimited) = Answers(LoopTerminate, 429, "rate_limit_error")
  /\ For(PricingUnavailableTerminal) =
        Reverses([Steers(LoopTerminate) EXCEPT !.status = StatusFromPeer])
  /\ For(PricingUnavailableSkip) =
        Quoted(Probes(Answers(LoopNextCandidate, 503, "service_unavailable")))
  /\ For(CandidateUnsupported) =
        Quoted(Probes(Answers(LoopNextCandidate, 400, "invalid_request_error")))
  /\ For(PayloadRefused) = Quoted(Attempts(Forwards(Steers(LoopNextCandidate))))
  /\ For(PayloadRepairedRetrySame) = Attempts(Steers(LoopRetrySameCandidate))
  /\ For(UpstreamAuthRejected) = Attempts(Steers(LoopRotateKey))
  /\ For(UpstreamRateLimited) =
        Quoted(Attempts(Books(Answers(LoopRotateKey, 429, "rate_limit_error"), CircuitPenalizeSoft)))
  /\ For(UpstreamServerError) = Attempts(Books(Steers(LoopNextCandidate), CircuitPenalize))
  /\ For(UpstreamClientError) = Bills(Attempts(Forwards(Steers(LoopTerminate))))
  /\ For(UpstreamTransportFailure) = Attempts(Books(Steers(LoopNextCandidate), CircuitPenalize))
  /\ For(UpstreamPayloadUndecodable) = Attempts(Books(Steers(LoopNextCandidate), CircuitPenalize))
  /\ For(UpstreamSucceeded) =
        Bills(Attempts(Books(Forwards(Steers(LoopCommitted)), CircuitReset)))
  /\ For(KeyUnusable) = Steers(LoopRotateKey)
  /\ For(RequestBudgetExhausted) = Reverses(Answers(LoopTerminate, 504, "upstream_error"))
  /\ For(IngressRewriteFailed) = Reverses(Answers(LoopTerminate, 500, "server_error"))
  /\ For(EgressRewriteFailed) = Probes(Steers(LoopNextCandidate))
BY DEF For, DecisionTable, Kinds,
       KindNone, QuotaExhausted, BalanceInsufficient, CallerRateLimited,
       PricingUnavailableTerminal, PricingUnavailableSkip, CandidateUnsupported,
       PayloadRefused, PayloadRepairedRetrySame, UpstreamAuthRejected,
       UpstreamRateLimited, UpstreamServerError, UpstreamClientError,
       UpstreamTransportFailure, UpstreamPayloadUndecodable, UpstreamSucceeded,
       UpstreamStreamTruncated, ClientGone, ClientWriteFailed, KeyUnusable,
       RequestBudgetExhausted, IngressRewriteFailed, EgressRewriteFailed

\* Its rows without an error type.
LEMMA StreamRowsRead ==
  /\ For(UpstreamStreamTruncated) = Bills(Books(Answers(LoopCommitted, 200, ""), CircuitPenalizeSoft))
  /\ For(ClientGone) = Bills(Answers(LoopCommitted, 499, ""))
  /\ For(ClientWriteFailed) = Bills(Answers(LoopCommitted, 499, ""))
BY DEF For, DecisionTable, Kinds,
       KindNone, QuotaExhausted, BalanceInsufficient, CallerRateLimited,
       PricingUnavailableTerminal, PricingUnavailableSkip, CandidateUnsupported,
       PayloadRefused, PayloadRepairedRetrySame, UpstreamAuthRejected,
       UpstreamRateLimited, UpstreamServerError, UpstreamClientError,
       UpstreamTransportFailure, UpstreamPayloadUndecodable, UpstreamSucceeded,
       UpstreamStreamTruncated, ClientGone, ClientWriteFailed, KeyUnusable,
       RequestBudgetExhausted, IngressRewriteFailed, EgressRewriteFailed

\* The columns of a row that the folding reads.
Columns(k, loop, status, circuit, budget, settle, sticky) ==
  /\ For(k).loop = loop /\ For(k).status = status /\ For(k).circuit = circuit
  /\ For(k).budget = budget /\ For(k).settle = settle /\ For(k).sticky = sticky

\* The table's rows, column by column.
LEMMA TableColumns ==
  /\ Columns(KindNone, 0, 0, 0, 0, 0, FALSE)
  /\ Columns(QuotaExhausted, 5, 3, 0, 0, 3, FALSE)
  /\ Columns(BalanceInsufficient, 5, 3, 0, 0, 3, FALSE)
  /\ Columns(CallerRateLimited, 5, 3, 0, 0, 0, FALSE)
  /\ Columns(PricingUnavailableTerminal, 5, 1, 0, 0, 3, FALSE)
  /\ Columns(PricingUnavailableSkip, 4, 3, 0, 1, 0, TRUE)
  /\ Columns(CandidateUnsupported, 4, 3, 0, 1, 0, TRUE)
  /\ Columns(PayloadRefused, 4, 2, 0, 2, 0, TRUE)
  /\ Columns(PayloadRepairedRetrySame, 2, 0, 0, 2, 0, FALSE)
  /\ Columns(UpstreamAuthRejected, 3, 0, 0, 2, 0, FALSE)
  /\ Columns(UpstreamRateLimited, 3, 3, 2, 2, 0, TRUE)
  /\ Columns(UpstreamServerError, 4, 0, 3, 2, 0, FALSE)
  /\ Columns(UpstreamClientError, 5, 2, 0, 2, 1, FALSE)
  /\ Columns(UpstreamTransportFailure, 4, 0, 3, 2, 0, FALSE)
  /\ Columns(UpstreamPayloadUndecodable, 4, 0, 3, 2, 0, FALSE)
  /\ Columns(UpstreamSucceeded, 6, 2, 1, 2, 1, FALSE)
  /\ Columns(UpstreamStreamTruncated, 6, 3, 2, 0, 1, FALSE)
  /\ Columns(ClientGone, 6, 3, 0, 0, 1, FALSE)
  /\ Columns(ClientWriteFailed, 6, 3, 0, 0, 1, FALSE)
  /\ Columns(KeyUnusable, 3, 0, 0, 0, 0, FALSE)
  /\ Columns(RequestBudgetExhausted, 5, 3, 0, 0, 3, FALSE)
  /\ Columns(IngressRewriteFailed, 5, 3, 0, 0, 3, FALSE)
  /\ Columns(EgressRewriteFailed, 4, 0, 0, 1, 0, FALSE)
<1>1. Columns(KindNone, 0, 0, 0, 0, 0, FALSE)
  <2>1. For(KindNone) = Zero BY TableRead
  <2>2. /\ Zero.loop = 0 /\ Zero.status = 0 /\ Zero.circuit = 0 /\ Zero.budget = 0
        /\ Zero.settle = 0 /\ Zero.sticky = FALSE
    BY DEF Zero, LoopNone, StatusNone, CircuitNone, BudgetNone, SettleNone
  <2> QED BY <2>1, <2>2
    DEF Columns, Zero, LoopNone, StatusNone, CircuitNone, BudgetNone, SettleNone
<1>2. Columns(QuotaExhausted, 5, 3, 0, 0, 3, FALSE)
  <2>1. For(QuotaExhausted) = Reverses(Answers(LoopTerminate, 429, "insufficient_quota"))
    BY TableRead
  <2> QED BY <2>1
    DEF Columns, Answers, Reverses, LoopTerminate, Zero, LoopNone, StatusNone,
         CircuitNone, BudgetNone, SettleNone, Steers, StatusFixed, SettleReverseAll
<1>3. Columns(BalanceInsufficient, 5, 3, 0, 0, 3, FALSE)
  <2>1. For(BalanceInsufficient) = Reverses(Answers(LoopTerminate, 402, "insufficient_quota"))
    BY TableRead
  <2> QED BY <2>1
    DEF Columns, Answers, Reverses, LoopTerminate, Zero, LoopNone, StatusNone,
         CircuitNone, BudgetNone, SettleNone, Steers, StatusFixed, SettleReverseAll
<1>4. Columns(CallerRateLimited, 5, 3, 0, 0, 0, FALSE)
  <2>1. For(CallerRateLimited) = Answers(LoopTerminate, 429, "rate_limit_error") BY TableRead
  <2> QED BY <2>1
    DEF Columns, Answers, LoopTerminate, Zero, LoopNone, StatusNone, CircuitNone,
         BudgetNone, SettleNone, Steers, StatusFixed
<1>5. Columns(PricingUnavailableTerminal, 5, 1, 0, 0, 3, FALSE)
  <2>1. For(PricingUnavailableTerminal) =
          Reverses([Steers(LoopTerminate) EXCEPT !.status = StatusFromPeer]) BY TableRead
  <2> QED BY <2>1
    DEF Columns, Steers, Reverses, LoopTerminate, StatusFromPeer, Zero, LoopNone,
         StatusNone, CircuitNone, BudgetNone, SettleNone, SettleReverseAll
<1>6. Columns(PricingUnavailableSkip, 4, 3, 0, 1, 0, TRUE)
  <2>1. For(PricingUnavailableSkip) =
          Quoted(Probes(Answers(LoopNextCandidate, 503, "service_unavailable"))) BY TableRead
  <2> QED BY <2>1
    DEF Columns, Answers, Probes, Quoted, LoopNextCandidate, Zero, LoopNone,
         StatusNone, CircuitNone, BudgetNone, SettleNone, Steers, StatusFixed,
         ConsumeProbe
<1>7. Columns(CandidateUnsupported, 4, 3, 0, 1, 0, TRUE)
  <2>1. For(CandidateUnsupported) =
          Quoted(Probes(Answers(LoopNextCandidate, 400, "invalid_request_error"))) BY TableRead
  <2> QED BY <2>1
    DEF Columns, Answers, Probes, Quoted, LoopNextCandidate, Zero, LoopNone,
         StatusNone, CircuitNone, BudgetNone, SettleNone, Steers, StatusFixed,
         ConsumeProbe
<1>8. Columns(PayloadRefused, 4, 2, 0, 2, 0, TRUE)
  <2>1. For(PayloadRefused) = Quoted(Attempts(Forwards(Steers(LoopNextCandidate)))) BY TableRead
  <2> QED BY <2>1
    DEF Columns, Steers, Attempts, Quoted, Forwards, LoopNextCandidate, Zero,
         LoopNone, StatusNone, CircuitNone, BudgetNone, SettleNone, ConsumeAttempt,
         StatusFromUpstream
<1>9. Columns(PayloadRepairedRetrySame, 2, 0, 0, 2, 0, FALSE)
  <2>1. For(PayloadRepairedRetrySame) = Attempts(Steers(LoopRetrySameCandidate)) BY TableRead
  <2> QED BY <2>1
    DEF Columns, Steers, Attempts, LoopRetrySameCandidate, Zero, LoopNone,
         StatusNone, CircuitNone, BudgetNone, SettleNone, ConsumeAttempt
<1>10. Columns(UpstreamAuthRejected, 3, 0, 0, 2, 0, FALSE)
  <2>1. For(UpstreamAuthRejected) = Attempts(Steers(LoopRotateKey)) BY TableRead
  <2> QED BY <2>1
    DEF Columns, Steers, Attempts, LoopRotateKey, Zero, LoopNone, StatusNone,
         CircuitNone, BudgetNone, SettleNone, ConsumeAttempt
<1>11. Columns(UpstreamRateLimited, 3, 3, 2, 2, 0, TRUE)
  <2>1. For(UpstreamRateLimited) =
          Quoted(Attempts(Books(Answers(LoopRotateKey, 429, "rate_limit_error"), CircuitPenalizeSoft)))
    BY TableRead
  <2> QED BY <2>1
    DEF Columns, Answers, Attempts, Quoted, Books, LoopRotateKey,
         CircuitPenalizeSoft, Zero, LoopNone, StatusNone, CircuitNone, BudgetNone,
         SettleNone, Steers, StatusFixed, ConsumeAttempt
<1>12. Columns(UpstreamServerError, 4, 0, 3, 2, 0, FALSE)
  <2>1. For(UpstreamServerError) = Attempts(Books(Steers(LoopNextCandidate), CircuitPenalize))
    BY TableRead
  <2> QED BY <2>1
    DEF Columns, Steers, Attempts, Books, LoopNextCandidate, CircuitPenalize, Zero,
         LoopNone, StatusNone, CircuitNone, BudgetNone, SettleNone, ConsumeAttempt
<1>13. Columns(UpstreamClientError, 5, 2, 0, 2, 1, FALSE)
  <2>1. For(UpstreamClientError) = Bills(Attempts(Forwards(Steers(LoopTerminate)))) BY TableRead
  <2> QED BY <2>1
    DEF Columns, Steers, Attempts, Forwards, Bills, LoopTerminate, Zero, LoopNone,
         StatusNone, CircuitNone, BudgetNone, SettleNone, ConsumeAttempt,
         StatusFromUpstream, SettleWithUsage
<1>14. Columns(UpstreamTransportFailure, 4, 0, 3, 2, 0, FALSE)
  <2>1. For(UpstreamTransportFailure) = Attempts(Books(Steers(LoopNextCandidate), CircuitPenalize))
    BY TableRead
  <2> QED BY <2>1
    DEF Columns, Steers, Attempts, Books, LoopNextCandidate, CircuitPenalize, Zero,
         LoopNone, StatusNone, CircuitNone, BudgetNone, SettleNone, ConsumeAttempt
<1>15. Columns(UpstreamPayloadUndecodable, 4, 0, 3, 2, 0, FALSE)
  <2>1. For(UpstreamPayloadUndecodable) =
          Attempts(Books(Steers(LoopNextCandidate), CircuitPenalize)) BY TableRead
  <2> QED BY <2>1
    DEF Columns, Steers, Attempts, Books, LoopNextCandidate, CircuitPenalize, Zero,
         LoopNone, StatusNone, CircuitNone, BudgetNone, SettleNone, ConsumeAttempt
<1>16. Columns(UpstreamSucceeded, 6, 2, 1, 2, 1, FALSE)
  <2>1. For(UpstreamSucceeded) =
          Bills(Attempts(Books(Forwards(Steers(LoopCommitted)), CircuitReset))) BY TableRead
  <2> QED BY <2>1
    DEF Columns, Steers, Attempts, Books, Forwards, Bills, LoopCommitted,
         CircuitReset, Zero, LoopNone, StatusNone, CircuitNone, BudgetNone,
         SettleNone, ConsumeAttempt, StatusFromUpstream, SettleWithUsage
<1>17. Columns(UpstreamStreamTruncated, 6, 3, 2, 0, 1, FALSE)
  <2>1. For(UpstreamStreamTruncated) =
          Bills(Books(Answers(LoopCommitted, 200, ""), CircuitPenalizeSoft)) BY StreamRowsRead
  <2> QED BY <2>1
    DEF Columns, Answers, Books, Bills, LoopCommitted, CircuitPenalizeSoft, Zero,
         LoopNone, StatusNone, CircuitNone, BudgetNone, SettleNone, Steers,
         StatusFixed, SettleWithUsage
<1>18. Columns(ClientGone, 6, 3, 0, 0, 1, FALSE)
  <2>1. For(ClientGone) = Bills(Answers(LoopCommitted, 499, "")) BY StreamRowsRead
  <2> QED BY <2>1
    DEF Columns, Answers, Bills, LoopCommitted, Zero, LoopNone, StatusNone,
         CircuitNone, BudgetNone, SettleNone, Steers, StatusFixed, SettleWithUsage
<1>19. Columns(ClientWriteFailed, 6, 3, 0, 0, 1, FALSE)
  <2>1. For(ClientWriteFailed) = Bills(Answers(LoopCommitted, 499, "")) BY StreamRowsRead
  <2> QED BY <2>1
    DEF Columns, Answers, Bills, LoopCommitted, Zero, LoopNone, StatusNone,
         CircuitNone, BudgetNone, SettleNone, Steers, StatusFixed, SettleWithUsage
<1>20. Columns(KeyUnusable, 3, 0, 0, 0, 0, FALSE)
  <2>1. For(KeyUnusable) = Steers(LoopRotateKey) BY TableRead
  <2> QED BY <2>1
    DEF Columns, Steers, LoopRotateKey, Zero, LoopNone, StatusNone, CircuitNone,
         BudgetNone, SettleNone
<1>21. Columns(RequestBudgetExhausted, 5, 3, 0, 0, 3, FALSE)
  <2>1. For(RequestBudgetExhausted) = Reverses(Answers(LoopTerminate, 504, "upstream_error"))
    BY TableRead
  <2> QED BY <2>1
    DEF Columns, Answers, Reverses, LoopTerminate, Zero, LoopNone, StatusNone,
         CircuitNone, BudgetNone, SettleNone, Steers, StatusFixed, SettleReverseAll
<1>22. Columns(IngressRewriteFailed, 5, 3, 0, 0, 3, FALSE)
  <2>1. For(IngressRewriteFailed) = Reverses(Answers(LoopTerminate, 500, "server_error"))
    BY TableRead
  <2> QED BY <2>1
    DEF Columns, Answers, Reverses, LoopTerminate, Zero, LoopNone, StatusNone,
         CircuitNone, BudgetNone, SettleNone, Steers, StatusFixed, SettleReverseAll
<1>23. Columns(EgressRewriteFailed, 4, 0, 0, 1, 0, FALSE)
  <2>1. For(EgressRewriteFailed) = Probes(Steers(LoopNextCandidate)) BY TableRead
  <2> QED BY <2>1
    DEF Columns, Steers, Probes, LoopNextCandidate, Zero, LoopNone, StatusNone,
         CircuitNone, BudgetNone, SettleNone, ConsumeProbe
<1> QED BY <1>1, <1>2, <1>3, <1>4, <1>5, <1>6, <1>7, <1>8, <1>9, <1>10, <1>11, <1>12, <1>13,
     <1>14, <1>15, <1>16, <1>17, <1>18, <1>19, <1>20, <1>21, <1>22, <1>23

\* The columns' types.
LEMMA TableType ==
  ASSUME NEW k \in Kinds
  PROVE  /\ For(k).loop \in 0 .. 6 /\ For(k).circuit \in 0 .. 3
         /\ For(k).budget \in 0 .. 2 /\ For(k).settle \in 0 .. 3
         /\ For(k).status \in 0 .. 3
<1>1. k = KindNone \/ k = QuotaExhausted \/ k = BalanceInsufficient \/ k =
      CallerRateLimited \/ k = PricingUnavailableTerminal \/ k =
      PricingUnavailableSkip \/ k = CandidateUnsupported \/ k = PayloadRefused \/ k
      = PayloadRepairedRetrySame \/ k = UpstreamAuthRejected \/ k =
      UpstreamRateLimited \/ k = UpstreamServerError \/ k = UpstreamClientError \/ k
      = UpstreamTransportFailure \/ k = UpstreamPayloadUndecodable \/ k =
      UpstreamSucceeded \/ k = UpstreamStreamTruncated \/ k = ClientGone \/ k =
      ClientWriteFailed \/ k = KeyUnusable \/ k = RequestBudgetExhausted \/ k =
      IngressRewriteFailed \/ k = EgressRewriteFailed BY DEF Kinds,
       KindNone, QuotaExhausted, BalanceInsufficient, CallerRateLimited,
       PricingUnavailableTerminal, PricingUnavailableSkip, CandidateUnsupported,
       PayloadRefused, PayloadRepairedRetrySame, UpstreamAuthRejected,
       UpstreamRateLimited, UpstreamServerError, UpstreamClientError,
       UpstreamTransportFailure, UpstreamPayloadUndecodable, UpstreamSucceeded,
       UpstreamStreamTruncated, ClientGone, ClientWriteFailed, KeyUnusable,
       RequestBudgetExhausted, IngressRewriteFailed, EgressRewriteFailed
<1>2. For(k).loop \in 0 .. 6 BY <1>1, TableColumns DEF Columns
<1>3. For(k).circuit \in 0 .. 3 BY <1>1, TableColumns DEF Columns
<1>4. For(k).budget \in 0 .. 2 BY <1>1, TableColumns DEF Columns
<1>5. For(k).settle \in 0 .. 3 BY <1>1, TableColumns DEF Columns
<1>6. For(k).status \in 0 .. 3 BY <1>1, TableColumns DEF Columns
<1> QED BY <1>2, <1>3, <1>4, <1>5, <1>6
----------------------------------------
(* Folding facts. *)

\* The fact of an empty batch.
Nothing == [kind |-> KindNone, reason |-> 0, detail |-> 0]
Volume(f) == StatusStrength(For(f.kind).status)
FaceOf(f) == Face(f.kind, f.reason, f.detail)

\* The caller is shown f rather than g.
Precedes(f, g) ==
  \/ Volume(f) > Volume(g)
  \/ /\ Volume(f) = Volume(g)
     /\ \/ f.kind < g.kind
        \/ /\ f.kind = g.kind
           /\ f.reason < g.reason \/ (f.reason = g.reason /\ f.detail <= g.detail)

\* The columns of some facts.
Loops(F) == {For(f.kind).loop : f \in F}
Circuits(F) == {For(f.kind).circuit : f \in F}
Budgets(F) == {For(f.kind).budget : f \in F}
Settles(F) == {For(f.kind).settle : f \in F}
KindsAt(F, loop) == {f.kind : f \in {g \in F : For(g.kind).loop = loop}}
Adopted(face, F) == \E f \in F : face = FaceOf(f) /\ \A g \in F : Precedes(f, g)

\* v has a verdict's fields and no other.
Formed(v) ==
  v = [loop |-> v.loop, loopFrom |-> v.loopFrom, circuit |-> v.circuit,
       budget |-> v.budget, settle |-> v.settle, face |-> v.face]

\* v is the verdict of the facts F.
IsVerdict(v, F) ==
  /\ Formed(v)
  /\ Highest(Loops(F), v.loop)
  /\ Lowest(KindsAt(F, v.loop), v.loopFrom)
  /\ Highest(Circuits(F), v.circuit)
  /\ Highest(Budgets(F), v.budget)
  /\ Highest(Settles(F), v.settle)
  /\ Adopted(v.face, F)

\* The types of a fact and of the columns.
LEMMA FactFields ==
  ASSUME NEW f \in Facts
  PROVE  /\ f.kind \in Kinds /\ f.kind \in Nat /\ f.reason \in Nat /\ f.detail \in Nat
         /\ Volume(f) \in 0 .. 2
<1>1. f.kind \in Kinds /\ f.reason \in Nat /\ f.detail \in Nat BY DEF Facts
<1>2. f.kind \in Nat BY <1>1 DEF Kinds
<1>3. Volume(f) \in 0 .. 2 BY DEF Volume, StatusStrength
<1> QED BY <1>1, <1>2, <1>3

\* A verdict is folded column by column.
LEMMA Columnwise ==
  ASSUME NEW F, F \subseteq Facts
  PROVE  /\ Loops(F) \subseteq 0 .. 6 /\ Circuits(F) \subseteq 0 .. 3
         /\ Budgets(F) \subseteq 0 .. 2 /\ Settles(F) \subseteq 0 .. 3
         /\ \A n : KindsAt(F, n) \subseteq Nat
<1>1. \A f \in F : f.kind \in Kinds /\ f.kind \in Nat BY FactFields
<1>2. Loops(F) \subseteq 0 .. 6 BY <1>1, TableType DEF Loops
<1>3. Circuits(F) \subseteq 0 .. 3 BY <1>1, TableType DEF Circuits
<1>4. Budgets(F) \subseteq 0 .. 2 BY <1>1, TableType DEF Budgets
<1>5. Settles(F) \subseteq 0 .. 3 BY <1>1, TableType DEF Settles
<1>6. \A n : KindsAt(F, n) \subseteq Nat BY <1>1 DEF KindsAt
<1> QED BY <1>2, <1>3, <1>4, <1>5, <1>6

\* Of two facts one is shown rather than the other, and always the same one.
LEMMA PrecedesOrders ==
  ASSUME NEW f \in Facts, NEW g \in Facts
  PROVE  /\ Precedes(f, f)
         /\ Precedes(f, g) \/ Precedes(g, f)
         /\ Precedes(f, g) /\ Precedes(g, f) => FaceOf(f) = FaceOf(g)
         /\ \A h \in Facts : Precedes(f, g) /\ Precedes(g, h) => Precedes(f, h)
<1>1. f.kind \in Nat /\ f.reason \in Nat /\ f.detail \in Nat /\ Volume(f) \in Nat BY FactFields
<1>2. g.kind \in Nat /\ g.reason \in Nat /\ g.detail \in Nat /\ Volume(g) \in Nat BY FactFields
<1>3. Precedes(f, f) BY <1>1 DEF Precedes
<1>4. Precedes(f, g) \/ Precedes(g, f) BY <1>1, <1>2 DEF Precedes
<1>5. Precedes(f, g) /\ Precedes(g, f) => FaceOf(f) = FaceOf(g)
  <2>1. Precedes(f, g) /\ Precedes(g, f)
          => f.kind = g.kind /\ f.reason = g.reason /\ f.detail = g.detail
    BY <1>1, <1>2 DEF Precedes
  <2> QED BY <2>1 DEF FaceOf
<1>6. ASSUME NEW h \in Facts, Precedes(f, g), Precedes(g, h)
      PROVE  Precedes(f, h)
  <2>1. h.kind \in Nat /\ h.reason \in Nat /\ h.detail \in Nat /\ Volume(h) \in Nat BY FactFields
  <2> QED BY <1>1, <1>2, <1>6, <2>1 DEF Precedes
<1> QED BY <1>3, <1>4, <1>5, <1>6

\* The code's comparison of two faces.
LEMMA WinsIsStrict ==
  ASSUME NEW f \in Facts, NEW g \in Facts
  PROVE  StatusWins(FaceOf(f), FaceOf(g)) <=> ~Precedes(g, f)
<1>1. /\ FaceOf(f).status = For(f.kind).status /\ FaceOf(f).statusFrom = f.kind
      /\ FaceOf(f).reason = f.reason /\ FaceOf(f).detail = f.detail BY DEF FaceOf, Face
<1>2. /\ FaceOf(g).status = For(g.kind).status /\ FaceOf(g).statusFrom = g.kind
      /\ FaceOf(g).reason = g.reason /\ FaceOf(g).detail = g.detail BY DEF FaceOf, Face
<1>3. f.kind \in Nat /\ f.reason \in Nat /\ f.detail \in Nat /\ Volume(f) \in Nat BY FactFields
<1>4. g.kind \in Nat /\ g.reason \in Nat /\ g.detail \in Nat /\ Volume(g) \in Nat BY FactFields
<1>5. /\ StatusStrength(FaceOf(f).status) = Volume(f)
      /\ StatusStrength(FaceOf(g).status) = Volume(g) BY <1>1, <1>2 DEF Volume
<1> DEFINE a == FaceOf(f)
           b == FaceOf(g)
<1>6. StatusWins(a, b)
        <=> IF Volume(f) # Volume(g) THEN Volume(f) > Volume(g)
            ELSE IF f.kind # g.kind THEN f.kind < g.kind
            ELSE IF f.reason # g.reason THEN f.reason < g.reason
            ELSE f.detail < g.detail BY <1>1, <1>2, <1>5 DEF StatusWins
<1> QED BY <1>3, <1>4, <1>6 DEF Precedes

\* Facts have one verdict.
LEMMA VerdictIsOne ==
  ASSUME NEW F, F \subseteq Facts, NEW v, NEW w, IsVerdict(v, F), IsVerdict(w, F)
  PROVE  v = w
<1>1. /\ Loops(F) \subseteq Nat /\ Circuits(F) \subseteq Nat /\ Budgets(F) \subseteq Nat
      /\ Settles(F) \subseteq Nat /\ KindsAt(F, v.loop) \subseteq Nat BY Columnwise
<1>2. v.loop = w.loop BY <1>1, HighestIsOne DEF IsVerdict
<1>3. v.loopFrom = w.loopFrom BY <1>1, <1>2, LowestIsOne DEF IsVerdict
<1>4. v.circuit = w.circuit BY <1>1, HighestIsOne DEF IsVerdict
<1>5. v.budget = w.budget BY <1>1, HighestIsOne DEF IsVerdict
<1>6. v.settle = w.settle BY <1>1, HighestIsOne DEF IsVerdict
<1>7. v.face = w.face
  <2>1. Adopted(v.face, F) /\ Adopted(w.face, F) BY DEF IsVerdict
  <2>2. PICK f \in F : v.face = FaceOf(f) /\ \A h \in F : Precedes(f, h) BY <2>1 DEF Adopted
  <2>3. PICK g \in F : w.face = FaceOf(g) /\ \A h \in F : Precedes(g, h) BY <2>1 DEF Adopted
  <2>4. Precedes(f, g) /\ Precedes(g, f) BY <2>2, <2>3
  <2>5. f \in Facts /\ g \in Facts OBVIOUS
  <2>6. FaceOf(f) = FaceOf(g) BY <2>4, <2>5, PrecedesOrders
  <2> QED BY <2>2, <2>3, <2>6
<1>8. Formed(v) /\ Formed(w) BY DEF IsVerdict
<1> QED BY <1>2, <1>3, <1>4, <1>5, <1>6, <1>7, <1>8 DEF Formed

\* One fact's verdict, and that of two sets of facts combined.
LEMMA VerdictOfOne ==
  ASSUME NEW x \in Facts
  PROVE  IsVerdict(Resolved(x), {x})
<1> DEFINE v == Resolved(x)
<1>1. /\ v.loop = For(x.kind).loop /\ v.loopFrom = x.kind /\ v.circuit = For(x.kind).circuit
      /\ v.budget = For(x.kind).budget /\ v.settle = For(x.kind).settle
      /\ v.face = FaceOf(x) BY DEF Resolved, FaceOf
<1>2. Formed(v) BY DEF Resolved, Formed
<1>3. /\ Loops({x}) = {v.loop} /\ KindsAt({x}, v.loop) = {v.loopFrom}
      /\ Circuits({x}) = {v.circuit} /\ Budgets({x}) = {v.budget}
      /\ Settles({x}) = {v.settle}
  <2> HIDE DEF v
  <2> QED BY <1>1 DEF Loops, KindsAt, Circuits, Budgets, Settles
<1>4. /\ v.loop \in Nat /\ v.loopFrom \in Nat /\ v.circuit \in Nat /\ v.budget \in Nat
      /\ v.settle \in Nat
  <2> HIDE DEF v
  <2> QED BY <1>1, FactFields, TableType
<1>5. Adopted(v.face, {x})
  <2> HIDE DEF v
  <2>1. Precedes(x, x) BY PrecedesOrders
  <2> QED BY <1>1, <2>1 DEF Adopted
<1> HIDE DEF v
<1>6. /\ Highest(Loops({x}), v.loop) /\ Lowest(KindsAt({x}, v.loop), v.loopFrom)
      /\ Highest(Circuits({x}), v.circuit) /\ Highest(Budgets({x}), v.budget)
      /\ Highest(Settles({x}), v.settle) BY <1>3, <1>4 DEF Highest, Lowest
<1>7. IsVerdict(v, {x}) BY <1>2, <1>5, <1>6 DEF IsVerdict
<1> QED BY <1>7 DEF v

\* The verdicts of two sets of facts combine to the verdict of their union.
LEMMA VerdictOfBoth ==
  ASSUME NEW F, NEW G, F \subseteq Facts, G \subseteq Facts, NEW v, NEW w,
         IsVerdict(v, F), IsVerdict(w, G)
  PROVE  IsVerdict(Combine(v, w), F \cup G)
<1> DEFINE u == Combine(v, w)
<1>1. /\ u.loop = Strongest(v.loop, w.loop)
      /\ u.loopFrom = IF w.loop > v.loop \/ (w.loop = v.loop /\ w.loopFrom < v.loopFrom)
                      THEN w.loopFrom ELSE v.loopFrom
      /\ u.circuit = Strongest(v.circuit, w.circuit)
      /\ u.budget = Strongest(v.budget, w.budget)
      /\ u.settle = Strongest(v.settle, w.settle)
      /\ u.face = IF StatusWins(w.face, v.face) THEN w.face ELSE v.face BY DEF Combine
<1>2. Formed(u) BY DEF Combine, Formed
<1> HIDE DEF u
<1>3. /\ Loops(F \cup G) = Loops(F) \cup Loops(G)
      /\ Circuits(F \cup G) = Circuits(F) \cup Circuits(G)
      /\ Budgets(F \cup G) = Budgets(F) \cup Budgets(G)
      /\ Settles(F \cup G) = Settles(F) \cup Settles(G)
      /\ \A n : KindsAt(F \cup G, n) = KindsAt(F, n) \cup KindsAt(G, n)
  BY DEF Loops, Circuits, Budgets, Settles, KindsAt
<1>4. /\ Loops(F) \subseteq Nat /\ Circuits(F) \subseteq Nat /\ Budgets(F) \subseteq Nat
      /\ Settles(F) \subseteq Nat /\ \A n : KindsAt(F, n) \subseteq Nat BY Columnwise
<1>5. /\ Loops(G) \subseteq Nat /\ Circuits(G) \subseteq Nat /\ Budgets(G) \subseteq Nat
      /\ Settles(G) \subseteq Nat /\ \A n : KindsAt(G, n) \subseteq Nat BY Columnwise
<1>6. Highest(Loops(F \cup G), u.loop)
  <2>1. Highest(Loops(F), v.loop) /\ Highest(Loops(G), w.loop) BY DEF IsVerdict
  <2>2. Highest(Loops(F) \cup Loops(G), Strongest(v.loop, w.loop))
    BY <1>4, <1>5, <2>1, HighestOfBoth
  <2> QED BY <1>1, <1>3, <2>2
<1>7. Highest(Circuits(F \cup G), u.circuit)
  <2>1. Highest(Circuits(F), v.circuit) /\ Highest(Circuits(G), w.circuit) BY DEF IsVerdict
  <2>2. Highest(Circuits(F) \cup Circuits(G), Strongest(v.circuit, w.circuit))
    BY <1>4, <1>5, <2>1, HighestOfBoth
  <2> QED BY <1>1, <1>3, <2>2
<1>8. Highest(Budgets(F \cup G), u.budget)
  <2>1. Highest(Budgets(F), v.budget) /\ Highest(Budgets(G), w.budget) BY DEF IsVerdict
  <2>2. Highest(Budgets(F) \cup Budgets(G), Strongest(v.budget, w.budget))
    BY <1>4, <1>5, <2>1, HighestOfBoth
  <2> QED BY <1>1, <1>3, <2>2
<1>9. Highest(Settles(F \cup G), u.settle)
  <2>1. Highest(Settles(F), v.settle) /\ Highest(Settles(G), w.settle) BY DEF IsVerdict
  <2>2. Highest(Settles(F) \cup Settles(G), Strongest(v.settle, w.settle))
    BY <1>4, <1>5, <2>1, HighestOfBoth
  <2> QED BY <1>1, <1>3, <2>2
<1>10. Lowest(KindsAt(F \cup G, u.loop), u.loopFrom)
  <2>1. /\ Highest(Loops(F), v.loop) /\ Lowest(KindsAt(F, v.loop), v.loopFrom)
        /\ Highest(Loops(G), w.loop) /\ Lowest(KindsAt(G, w.loop), w.loopFrom) BY DEF IsVerdict
  <2>2. v.loop \in Nat /\ w.loop \in Nat BY <1>4, <1>5, <2>1 DEF Highest
  <2>3. v.loopFrom \in Nat /\ w.loopFrom \in Nat BY <1>4, <1>5, <2>1 DEF Lowest
  <2>4. \A n \in Nat : n > v.loop => KindsAt(F, n) = {}
    <3> TAKE n \in Nat
    <3>1. \A f \in F : For(f.kind).loop <= v.loop BY <2>1 DEF Highest, Loops
    <3>2. n > v.loop => ~(n <= v.loop) BY <2>2
    <3> QED BY <3>1, <3>2 DEF KindsAt
  <2>5. \A n \in Nat : n > w.loop => KindsAt(G, n) = {}
    <3> TAKE n \in Nat
    <3>1. \A g \in G : For(g.kind).loop <= w.loop BY <2>1 DEF Highest, Loops
    <3>2. n > w.loop => ~(n <= w.loop) BY <2>2
    <3> QED BY <3>1, <3>2 DEF KindsAt
  <2>6. CASE w.loop > v.loop
    <3>1. u.loop = w.loop /\ u.loopFrom = w.loopFrom BY <1>1, <2>6 DEF Strongest
    <3>2. KindsAt(F \cup G, u.loop) = KindsAt(G, w.loop) BY <1>3, <2>2, <2>4, <2>6, <3>1
    <3> QED BY <2>1, <3>1, <3>2
  <2>7. CASE v.loop > w.loop
    <3>1. u.loop = v.loop /\ u.loopFrom = v.loopFrom BY <1>1, <2>2, <2>7 DEF Strongest
    <3>2. KindsAt(F \cup G, u.loop) = KindsAt(F, v.loop) BY <1>3, <2>2, <2>5, <2>7, <3>1
    <3> QED BY <2>1, <3>1, <3>2
  <2>8. CASE v.loop = w.loop
    <3>1. /\ u.loop = v.loop
          /\ u.loopFrom = IF w.loopFrom < v.loopFrom THEN w.loopFrom ELSE v.loopFrom
      BY <1>1, <2>2, <2>8 DEF Strongest
    <3>2. KindsAt(F \cup G, u.loop) = KindsAt(F, v.loop) \cup KindsAt(G, w.loop)
      BY <1>3, <2>8, <3>1
    <3>3. KindsAt(F, v.loop) \subseteq Nat /\ KindsAt(G, w.loop) \subseteq Nat BY <1>4, <1>5
    <3> QED BY <2>1, <2>3, <3>1, <3>2, <3>3 DEF Lowest
  <2> QED BY <2>2, <2>6, <2>7, <2>8
<1>11. Adopted(u.face, F \cup G)
  <2>1. PICK f \in F : v.face = FaceOf(f) /\ \A h \in F : Precedes(f, h) BY DEF IsVerdict, Adopted
  <2>2. PICK g \in G : w.face = FaceOf(g) /\ \A h \in G : Precedes(g, h) BY DEF IsVerdict, Adopted
  <2>3. f \in Facts /\ g \in Facts OBVIOUS
  <2>4. StatusWins(w.face, v.face) <=> ~Precedes(f, g) BY <2>1, <2>2, <2>3, WinsIsStrict
  <2>5. CASE Precedes(f, g)
    <3>1. u.face = FaceOf(f) BY <1>1, <2>1, <2>4, <2>5
    <3>2. \A h \in F \cup G : Precedes(f, h) BY <2>1, <2>2, <2>3, <2>5, PrecedesOrders
    <3> QED BY <3>1, <3>2 DEF Adopted
  <2>6. CASE ~Precedes(f, g)
    <3>1. u.face = FaceOf(g) BY <1>1, <2>2, <2>4, <2>6
    <3>2. Precedes(g, f) BY <2>3, <2>6, PrecedesOrders
    <3>3. \A h \in F \cup G : Precedes(g, h) BY <2>1, <2>2, <2>3, <3>2, PrecedesOrders
    <3> QED BY <3>1, <3>3 DEF Adopted
  <2> QED BY <2>5, <2>6
<1>12. IsVerdict(u, F \cup G) BY <1>2, <1>6, <1>7, <1>8, <1>9, <1>10, <1>11 DEF IsVerdict
<1> QED BY <1>12 DEF u

\* No verdict yet is the empty fact's.
LEMMA NothingIsFact == Nothing \in Facts /\ Unresolved = Resolved(Nothing)
BY DEF Nothing, Facts, Unresolved, KindNone, Kinds

\* A set of facts and the empty one has a verdict: VerdictOf's.
LEMMA VerdictOfIsOne ==
  ASSUME NEW F, F \subseteq Facts
  PROVE  IsVerdict(VerdictOf(F), F \cup {Nothing})
<1> DEFINE G == F \cup {Nothing}
           Strength(f) == StatusStrength(For(f.kind).status)
           loudest == {f \in G : \A g \in G : Strength(g) <= Strength(f)}
           first == {f \in loudest : \A g \in loudest : f.kind <= g.kind}
           named == {f \in first : \A g \in first : f.reason <= g.reason}
           said == CHOOSE f \in named : \A g \in named : f.detail <= g.detail
           v == VerdictOf(F)
<1>1. G \subseteq Facts /\ Nothing \in G BY NothingIsFact
<1>2. /\ v.loop = MostOf(Loops(G))
      /\ v.loopFrom = LeastOf(KindsAt(G, v.loop))
      /\ v.circuit = MostOf(Circuits(G))
      /\ v.budget = MostOf(Budgets(G))
      /\ v.settle = MostOf(Settles(G))
      /\ v.face = FaceOf(said)
  BY DEF VerdictOf, Loops, KindsAt, Circuits, Budgets, Settles, FaceOf, Nothing
<1>3. Formed(v) BY DEF VerdictOf, Formed
<1>4. \A f \in G : /\ f.kind \in Nat /\ f.reason \in Nat /\ f.detail \in Nat
                   /\ Strength(f) \in 0 .. 2
  <2> TAKE f \in G
  <2>1. f \in Facts BY <1>1
  <2>2. f.kind \in Nat /\ f.reason \in Nat /\ f.detail \in Nat /\ Volume(f) \in 0 .. 2
    BY <2>1, FactFields
  <2> QED BY <2>2 DEF Volume
<1>5. \E f \in G : \A g \in G : Strength(g) <= Strength(f)
  <2> DEFINE T == {Strength(f) : f \in G}
  <2>1. T \subseteq 0 .. 2 /\ T # {} BY <1>1, <1>4
  <2> HIDE DEF T
  <2>2. PICK m \in T : \A n \in T : n <= m BY <2>1, Most
  <2> QED BY <2>2 DEF T
<1>6. loudest # {} /\ loudest \subseteq G BY <1>5
<1> HIDE DEF loudest
<1>7. first # {} /\ first \subseteq loudest
  <2> DEFINE T == {f.kind : f \in loudest}
  <2>1. T \subseteq Nat /\ T # {} BY <1>4, <1>6
  <2> HIDE DEF T
  <2>2. PICK m \in T : \A n \in T : m <= n BY <2>1, Least
  <2> QED BY <2>2 DEF T
<1> HIDE DEF first
<1>8. named # {} /\ named \subseteq first
  <2> DEFINE T == {f.reason : f \in first}
  <2>1. T \subseteq Nat /\ T # {} BY <1>4, <1>6, <1>7
  <2> HIDE DEF T
  <2>2. PICK m \in T : \A n \in T : m <= n BY <2>1, Least
  <2> QED BY <2>2 DEF T
<1> HIDE DEF named
<1>9. said \in named /\ \A g \in named : said.detail <= g.detail
  <2> DEFINE T == {f.detail : f \in named}
  <2>1. T \subseteq Nat /\ T # {} BY <1>4, <1>6, <1>7, <1>8
  <2> HIDE DEF T
  <2>2. PICK m \in T : \A n \in T : m <= n BY <2>1, Least
  <2>3. \E f \in named : \A g \in named : f.detail <= g.detail BY <2>2 DEF T
  <2> QED BY <2>3
<1> HIDE DEF said
<1>10. /\ said \in G /\ \A g \in G : Strength(g) <= Strength(said)
       /\ \A g \in loudest : said.kind <= g.kind
       /\ \A g \in first : said.reason <= g.reason
  BY <1>6, <1>7, <1>8, <1>9 DEF loudest, first, named
<1>11. \A g \in G : Precedes(said, g)
  <2> TAKE g \in G
  <2>1. Strength(g) = Strength(said) => g \in loudest BY <1>10 DEF loudest
  <2>2. g \in loudest /\ g.kind = said.kind => g \in first BY <1>10 DEF first
  <2>3. g \in first /\ g.reason = said.reason => g \in named BY <1>10 DEF named
  <2>4. /\ g.kind \in Nat /\ g.reason \in Nat /\ g.detail \in Nat
        /\ Strength(g) \in Nat
        /\ said.kind \in Nat /\ said.reason \in Nat /\ said.detail \in Nat
        /\ Strength(said) \in Nat BY <1>4, <1>10
  <2>5. Strength(g) <= Strength(said) BY <1>10
  <2>6. Strength(g) = Strength(said) => said.kind <= g.kind BY <1>10, <2>1
  <2>7. Strength(g) = Strength(said) /\ g.kind = said.kind => said.reason <= g.reason
    BY <1>10, <2>1, <2>2
  <2>8. Strength(g) = Strength(said) /\ g.kind = said.kind /\ g.reason = said.reason
          => said.detail <= g.detail BY <1>9, <2>1, <2>2, <2>3
  <2>9. Volume(g) = Strength(g) /\ Volume(said) = Strength(said) BY DEF Volume
  <2> HIDE DEF Strength
  <2> QED BY <2>4, <2>5, <2>6, <2>7, <2>8, <2>9 DEF Precedes
<1> HIDE DEF v, Strength
<1>12. Adopted(v.face, G) BY <1>2, <1>10, <1>11 DEF Adopted
<1>13. /\ Loops(G) \subseteq 0 .. 6 /\ Circuits(G) \subseteq 0 .. 3
       /\ Budgets(G) \subseteq 0 .. 2 /\ Settles(G) \subseteq 0 .. 3
       /\ \A n : KindsAt(G, n) \subseteq Nat
  <2> HIDE DEF G
  <2> QED BY <1>1, Columnwise
<1>14. Loops(G) # {} /\ Circuits(G) # {} /\ Budgets(G) # {} /\ Settles(G) # {}
  <2> HIDE DEF G
  <2> QED BY <1>1 DEF Loops, Circuits, Budgets, Settles
<1> HIDE DEF G
<1>15. Highest(Loops(G), v.loop)
  <2>1. Highest(Loops(G), MostOf(Loops(G))) BY <1>13, <1>14, MostOfIsHighest, 6 \in Nat
  <2> QED BY <1>2, <2>1
<1>16. Highest(Circuits(G), v.circuit)
  <2>1. Highest(Circuits(G), MostOf(Circuits(G))) BY <1>13, <1>14, MostOfIsHighest, 3 \in Nat
  <2> QED BY <1>2, <2>1
<1>17. Highest(Budgets(G), v.budget)
  <2>1. Highest(Budgets(G), MostOf(Budgets(G))) BY <1>13, <1>14, MostOfIsHighest, 2 \in Nat
  <2> QED BY <1>2, <2>1
<1>18. Highest(Settles(G), v.settle)
  <2>1. Highest(Settles(G), MostOf(Settles(G))) BY <1>13, <1>14, MostOfIsHighest, 3 \in Nat
  <2> QED BY <1>2, <2>1
<1>19. Lowest(KindsAt(G, v.loop), v.loopFrom)
  <2>1. v.loop \in Loops(G) BY <1>15 DEF Highest
  <2>2. KindsAt(G, v.loop) # {} BY <2>1 DEF Loops, KindsAt
  <2>3. Lowest(KindsAt(G, v.loop), LeastOf(KindsAt(G, v.loop))) BY <1>13, <2>2, LeastOfIsLowest
  <2> QED BY <1>2, <2>3
<1>20. IsVerdict(v, G) BY <1>3, <1>12, <1>15, <1>16, <1>17, <1>18, <1>19 DEF IsVerdict
<1> QED BY <1>20 DEF v, G

\* Two sets of facts and of their union; a set of facts and one more.
LEMMA VerdictsCombine ==
  ASSUME NEW F, NEW G, F \subseteq Facts, G \subseteq Facts
  PROVE  Combine(VerdictOf(F), VerdictOf(G)) = VerdictOf(F \cup G)
<1> DEFINE N == {Nothing}
<1>1. N \subseteq Facts BY NothingIsFact
<1> HIDE DEF N
<1>2. /\ IsVerdict(VerdictOf(F), F \cup N) /\ IsVerdict(VerdictOf(G), G \cup N)
      /\ IsVerdict(VerdictOf(F \cup G), (F \cup G) \cup N)
  <2>1. F \cup G \subseteq Facts OBVIOUS
  <2> QED BY <2>1, VerdictOfIsOne DEF N
<1>3. F \cup N \subseteq Facts /\ G \cup N \subseteq Facts BY <1>1
<1>4. IsVerdict(Combine(VerdictOf(F), VerdictOf(G)), (F \cup N) \cup (G \cup N))
  BY <1>2, <1>3, VerdictOfBoth
<1>5. (F \cup N) \cup (G \cup N) = (F \cup G) \cup N OBVIOUS
<1>6. (F \cup G) \cup N \subseteq Facts BY <1>1
<1> QED BY <1>2, <1>4, <1>5, <1>6, VerdictIsOne

\* The verdict of no fact, and of one fact more.
LEMMA VerdictOfNothing == VerdictOf({}) = Unresolved
<1>1. IsVerdict(VerdictOf({}), {} \cup {Nothing}) BY VerdictOfIsOne
<1>2. {} \cup {Nothing} = {Nothing} OBVIOUS
<1>3. IsVerdict(Unresolved, {Nothing}) BY NothingIsFact, VerdictOfOne
<1>4. {Nothing} \subseteq Facts BY NothingIsFact
<1> QED BY <1>1, <1>2, <1>3, <1>4, VerdictIsOne

\* A fact combined into a verdict is a fact more of it.
LEMMA OneFactMore ==
  ASSUME NEW F, F \subseteq Facts, NEW x \in Facts
  PROVE  Combine(VerdictOf(F), Resolved(x)) = VerdictOf(F \cup {x})
<1> DEFINE N == F \cup {Nothing}
<1>1. N \subseteq Facts BY NothingIsFact
<1>2. IsVerdict(VerdictOf(F), N) BY VerdictOfIsOne
<1>3. IsVerdict(Resolved(x), {x}) BY VerdictOfOne
<1>4. {x} \subseteq Facts OBVIOUS
<1>5. IsVerdict(VerdictOf(F \cup {x}), (F \cup {x}) \cup {Nothing}) BY VerdictOfIsOne
<1>6. (F \cup {x}) \cup {Nothing} = N \cup {x} OBVIOUS
<1> HIDE DEF N
<1>7. IsVerdict(Combine(VerdictOf(F), Resolved(x)), N \cup {x})
  BY <1>1, <1>2, <1>3, <1>4, VerdictOfBoth
<1>8. N \cup {x} \subseteq Facts BY <1>1
<1> QED BY <1>5, <1>6, <1>7, <1>8, VerdictIsOne

\* A batch of facts folds to what they say as a set, whichever order they were
\* reported in and however many they are (decision.go: Combine, statusWins,
\* ResolveBatch).
THEOREM FoldIsVerdict ==
  ASSUME NEW facts \in Seq(Facts)
  PROVE  ResolveBatch(facts) = VerdictOf(Range(facts))
<1> DEFINE D == DOMAIN facts
           Reported(t) == {facts[i] : i \in t}
           Step(f) == [t \in SUBSET D |->
                          IF t = {} THEN Unresolved
                          ELSE Combine(f[t \ {Max(t)}], Resolved(facts[Max(t)]))]
           f == CHOOSE g : g = Step(g)
           n == Len(facts)
           v == [t \in SUBSET D |-> VerdictOf(Reported(t))]
<1>1. ResolveBatch(facts) = f[D] BY DEF ResolveBatch, FoldLeft, MapThenFoldSet
<1>2. D = 1 .. n /\ n \in Nat /\ \A i \in D : facts[i] \in Facts OBVIOUS
<1>3. \A t \in SUBSET D : t # {} => Max(t) \in t
  <2> TAKE t \in SUBSET D
  <2> HAVE t # {}
  <2>1. t \subseteq 0 .. n BY <1>2
  <2>2. \E m \in t : \A k \in t : k <= m BY <1>2, <2>1, Most
  <2>3. \A k \in t : k \in Int BY <2>1
  <2>4. \E m \in t : \A k \in t : m >= k BY <2>2, <2>3
  <2> QED BY <2>4 DEF Max
<1>4. \A t \in SUBSET D : Reported(t) \subseteq Facts BY <1>2
<1>5. \A t \in SUBSET D : t # {} =>
         v[t] = Combine(v[t \ {Max(t)}], Resolved(facts[Max(t)]))
  <2> TAKE t \in SUBSET D
  <2> HAVE t # {}
  <2> DEFINE m == Max(t)
             rest == t \ {m}
  <2>1. m \in t /\ m \in D /\ rest \in SUBSET D BY <1>3
  <2> HIDE DEF m
  <2>2. Reported(t) = Reported(rest) \cup {facts[m]} BY <2>1
  <2>3. Reported(rest) \subseteq Facts /\ facts[m] \in Facts BY <1>2, <1>4, <2>1
  <2>4. Combine(VerdictOf(Reported(rest)), Resolved(facts[m]))
          = VerdictOf(Reported(rest) \cup {facts[m]})
    <3> HIDE DEF Reported
    <3> QED BY <2>3, OneFactMore
  <2>5. v[t] = VerdictOf(Reported(t)) /\ v[rest] = VerdictOf(Reported(rest)) BY <2>1
  <2>6. v[t] = Combine(v[rest], Resolved(facts[m]))
    <3> HIDE DEF Reported, v, rest
    <3> QED BY <2>2, <2>4, <2>5
  <2> QED BY <2>6 DEF m
<1>6. v[{}] = Unresolved
  <2>1. Reported({}) = {} /\ {} \in SUBSET D OBVIOUS
  <2> QED BY <2>1, VerdictOfNothing
<1>7. v = Step(v)
  <2>1. v = [t \in SUBSET D |-> v[t]] OBVIOUS
  <2> HIDE DEF v, D
  <2> QED BY <1>5, <1>6, <2>1
<1>8. f = Step(f)
  <2> HIDE DEF v, Step
  <2> QED BY <1>7
<1>9. /\ {} \in SUBSET D => f[{}] = Unresolved
      /\ \A t \in SUBSET D : t # {} =>
            f[t] = Combine(f[t \ {Max(t)}], Resolved(facts[Max(t)]))
  <2> HIDE DEF f, D
  <2> QED BY <1>8
<1> HIDE DEF f, v, Step
<1> DEFINE Wrong == {k \in 0 .. n : f[1 .. k] # v[1 .. k]}
<1>10. Wrong = {}
  <2> SUFFICES ASSUME Wrong # {} PROVE FALSE OBVIOUS
  <2>1. PICK k \in Wrong : \A l \in Wrong : k <= l
    <3>1. Wrong \subseteq Nat BY <1>2
    <3> HIDE DEF Wrong
    <3> QED BY <3>1, Least
  <2>2. k \in 0 .. n /\ f[1 .. k] # v[1 .. k] BY <2>1
  <2>3. CASE k = 0
    <3>1. 1 .. k = {} BY <2>3
    <3> QED BY <1>6, <1>9, <2>2, <3>1
  <2>4. CASE k # 0
    <3>1. k - 1 \in 0 .. n /\ ~(k <= k - 1) BY <1>2, <2>2, <2>4
    <3>2. f[1 .. k - 1] = v[1 .. k - 1] BY <2>1, <3>1
    <3>3. 1 .. k \in SUBSET D /\ k \in 1 .. k /\ 1 .. k # {} BY <1>2, <2>2, <2>4
    <3>4. Max(1 .. k) = k
      <4>1. Max(1 .. k) \in 1 .. k /\ \A l \in 1 .. k : Max(1 .. k) >= l
        <5>1. \E m \in 1 .. k : \A l \in 1 .. k : m >= l BY <2>2, <3>3
        <5> QED BY <5>1 DEF Max
      <4> QED BY <2>2, <3>3, <4>1
    <3>5. (1 .. k) \ {k} = 1 .. k - 1 BY <2>2
    <3>6. f[1 .. k] = Combine(f[1 .. k - 1], Resolved(facts[k])) BY <1>9, <3>3, <3>4, <3>5
    <3>7. v[1 .. k] = Combine(v[1 .. k - 1], Resolved(facts[k])) BY <1>5, <3>3, <3>4, <3>5
    <3> QED BY <2>2, <3>2, <3>6, <3>7
  <2> QED BY <2>3, <2>4
<1>11. f[D] = v[D]
  <2>1. n \in 0 .. n BY <1>2
  <2> QED BY <1>2, <1>10, <2>1
<1>12. v[D] = VerdictOf(Range(facts))
  <2>1. Reported(D) = Range(facts) BY DEF Range
  <2>2. v[D] = VerdictOf(Reported(D))
    <3> HIDE DEF Reported, D
    <3> QED BY DEF v
  <2> QED BY <2>1, <2>2
<1> QED BY <1>1, <1>11, <1>12
----------------------------------------
(* The shape of an exchange, its tickets and its walk. *)

\* Where the handler may be, and where it has not begun to settle.
Places == {"key", "arrival", "checks", "priced", "chain", "begun", "keys", "entered",
           "sent", "judged", "failed", "settle", "concluding", "conclude", "release",
           "record", "end"}
Chaining == {"key", "arrival", "checks", "priced", "chain", "begun", "keys", "entered",
             "sent", "judged", "failed"}

\* Where the handler is and what its variables hold.
ShapeInv ==
  /\ pc \in Places
  /\ gone \in BOOLEAN /\ late \in BOOLEAN /\ panicked \in BOOLEAN
  /\ stage \in {"admitted", "estimated", "prepared", "finalized"}
  /\ left \in Nat /\ begun \in Nat /\ keys \in Nat /\ repairs \in Nat
  /\ before \in Nat /\ attempts \in Nat /\ probes \in Nat
  /\ logWritten \in BOOLEAN /\ charged \in Nat /\ recorded \in Nat
  /\ answers \in Nat
  /\ payload \in PayloadKinds
  /\ heard \in Statuses \cup {Waiting, Failed, Cancelled}
  /\ pc \in {"entered", "sent", "judged"} => keys > 0

\* The tickets given back are the newest, newest first.
TicketsInv ==
  /\ asked \in Nat /\ tickets \in Seq(Nat) /\ released \in Seq(Nat)
  /\ Len(released) <= Len(tickets)
  /\ \A i \in 1 .. Len(released) : released[i] = tickets[Len(tickets) - i + 1]
  /\ pc \notin {"release", "record", "end"} => released = <<>>
  /\ pc \in {"record", "end"} => Len(released) = Len(tickets)

\* Every candidate entered is paid for by the time the next one is.
WalkInv ==
  /\ WalkIsBounded
  /\ pc \in {"key", "arrival", "checks", "priced"}
        => begun = 0 /\ attempts = 0 /\ probes = 0
  /\ pc = "chain" => begun <= attempts + probes
  /\ pc = "begun" => /\ begun <= attempts + probes + 1
                     /\ attempts < MaxUpstreamAttempts
                     /\ probes < MaxCandidateProbes
  /\ pc \in {"keys", "entered", "sent", "judged"}
        => /\ before <= attempts /\ begun <= before + probes + 1
           /\ probes < MaxCandidateProbes
  /\ pc \in {"entered", "sent"} => attempts < MaxUpstreamAttempts

\* What finalize leaves of the charge and of the panic.
LEMMA FinalizeCharges ==
  ASSUME NEW next, Finalize(next), panicked \in BOOLEAN, charged \in Nat, logWritten \in BOOLEAN
  PROVE  charged' \in Nat /\ panicked' \in BOOLEAN
<1>1. CASE logWritten BY <1>1 DEF Finalize
<1>2. CASE ~logWritten
  <2>1. charged' = charged + (IF closing.usage THEN 1 ELSE 0) BY <1>2 DEF Finalize
  <2>2. panicked' = panicked \/ panicked' = TRUE BY <1>2, Zenon DEF Finalize
  <2>3. charged' = charged + 1 \/ charged' = charged + 0 BY <2>1, Zenon
  <2>4. charged' \in Nat BY <2>3
  <2>5. panicked' \in BOOLEAN BY <2>2
  <2> QED BY <2>4, <2>5
<1> QED BY <1>1, <1>2

\* A step keeps the shape of the state.
LEMMA ShapeStep ==
  ASSUME ShapeInv, [Next]_vars
  PROVE  ShapeInv'
<1> USE DEF ShapeInv, Places, environment, admission, walk, ledger, attempt, wire,
      caller, settlement
<1>1. CASE CheckKey BY <1>1, BudgetAssumption DEF CheckKey, RejectRequest, Write, Settle
<1>2. CASE AskOnArrival BY <1>2, BudgetAssumption DEF AskOnArrival, Ask, RejectRequest,
  Write, Settle
<1>3. CASE AdmitOnArrival BY <1>3, BudgetAssumption DEF AdmitOnArrival, Admit
<1>4. CASE AdmitSubCall BY <1>4, BudgetAssumption DEF AdmitSubCall
<1>5. CASE Check BY <1>5, BudgetAssumption DEF Check, RejectRequest, AbandonRequest, Write, Settle
<1>6. CASE AskWhenPriced BY <1>6, BudgetAssumption DEF AskWhenPriced, Ask,
  RejectRequest, Write, Settle
<1>7. CASE AdmitWhenPriced BY <1>7, BudgetAssumption DEF AdmitWhenPriced, Admit
<1>8. CASE EnterCandidate BY <1>8, BudgetAssumption DEF EnterCandidate, ClearVerdict
<1>9. CASE ChainEnds BY <1>9, BudgetAssumption DEF ChainEnds
<1>10. CASE SkipCandidate BY <1>10, BudgetAssumption DEF SkipCandidate
<1>11. CASE LoseCaller BY <1>11, BudgetAssumption DEF LoseCaller, AbandonRequest, Settle
<1>12. CASE WalkKeys BY <1>12, BudgetAssumption DEF WalkKeys
<1>13. CASE StopWalking BY <1>13, BudgetAssumption DEF StopWalking, LeaveCandidate, ProbesLeaving
<1>14. CASE EnterKey BY <1>14, BudgetAssumption DEF EnterKey, ClearVerdict
<1>15. CASE Unsent BY <1>15, BudgetAssumption DEF Unsent, LeaveCandidate, ProbesLeaving
<1>16. CASE Dispatch BY <1>16, BudgetAssumption DEF Dispatch, Waiting, Failed, Cancelled
<1>17. CASE Hear BY <1>17, BudgetAssumption DEF Hear, Waiting, Failed, Cancelled
<1>18. CASE TransportFails BY <1>18, BudgetAssumption DEF TransportFails,
  AbandonRequest, Settle, LeaveCandidate, ProbesLeaving, Book
<1>19. CASE Judge BY <1>19, BudgetAssumption DEF Judge
<1>20. CASE RetrySame BY <1>20, BudgetAssumption DEF RetrySame, ActOn, Book
<1>21. CASE RotateKey BY <1>21, BudgetAssumption DEF RotateKey, ActOn, Book, HoldVerdict
<1>22. CASE FailOver BY <1>22, BudgetAssumption DEF FailOver, ActOn, Book, HoldVerdict,
  LeaveCandidate, ProbesLeaving
<1>23. CASE Terminate BY <1>23, BudgetAssumption DEF Terminate, ActOn, Book,
  HoldVerdict, Write, Settle
<1>24. CASE Deliver BY <1>24, BudgetAssumption DEF Deliver, Book, Settle,
  LeaveCandidate, ProbesLeaving
<1>25. CASE AllCandidatesFailed BY <1>25, BudgetAssumption DEF AllCandidatesFailed,
  RejectRequest, Write, Settle
<1>26. CASE FinalizeInHandler
  <2>1. Finalize("conclude") BY <1>26 DEF FinalizeInHandler
  <2>2. charged' \in Nat /\ panicked' \in BOOLEAN BY <2>1, FinalizeCharges
  <2>3. /\ pc' = "conclude" /\ logWritten' = TRUE
        /\ UNCHANGED <<gone, late, stage, left, begun, keys, repairs, before, attempts,
                       probes, answers, recorded, payload, heard>> BY <2>1 DEF Finalize
  <2> QED BY <2>2, <2>3
<1>27. CASE FinalizeConcluding
  <2>1. Finalize("release") BY <1>27 DEF FinalizeConcluding
  <2>2. charged' \in Nat /\ panicked' \in BOOLEAN BY <2>1, FinalizeCharges
  <2>3. /\ pc' = "release" /\ logWritten' = TRUE
        /\ UNCHANGED <<gone, late, stage, left, begun, keys, repairs, before, attempts,
                       probes, answers, recorded, payload, heard>> BY <2>1 DEF Finalize
  <2> QED BY <2>2, <2>3
<1>28. CASE Conclude BY <1>28, BudgetAssumption DEF Conclude
<1>29. CASE Release BY <1>29, BudgetAssumption DEF Release
<1>30. CASE Record BY <1>30, BudgetAssumption DEF Record
<1>31. CASE HangUp BY <1>31, BudgetAssumption DEF HangUp, Handling
<1>32. CASE Expire BY <1>32, BudgetAssumption DEF Expire, Handling
<1>33. CASE Panic BY <1>33, BudgetAssumption DEF Panic
<1>34. CASE UNCHANGED vars BY <1>34 DEF vars
<1> QED BY <1>1, <1>2, <1>3, <1>4, <1>5, <1>6, <1>7, <1>8, <1>9, <1>10, <1>11, <1>12,
     <1>13, <1>14, <1>15, <1>16, <1>17, <1>18, <1>19, <1>20, <1>21, <1>22, <1>23, <1>24,
     <1>25, <1>26, <1>27, <1>28, <1>29, <1>30, <1>31, <1>32, <1>33, <1>34 DEF Next

\* A step keeps the tickets: those given back are the newest, newest first.
LEMMA TicketsStep ==
  ASSUME TicketsInv, [Next]_vars
  PROVE  TicketsInv'
<1> USE DEF TicketsInv, environment, admission, walk, ledger, attempt, wire, caller,
      settlement
<1>1. CASE CheckKey BY <1>1 DEF CheckKey, RejectRequest, Write, Settle
<1>2. CASE AskOnArrival
  <2>1. /\ asked' = asked + 1 /\ tickets' \in {tickets, Append(tickets, Len(tickets) + 1)}
        /\ released' = released /\ pc \notin {"release", "record", "end"}
        /\ pc' \notin {"release", "record", "end"}
    BY <1>2 DEF AskOnArrival, Ask, RejectRequest, Write, Settle
  <2>2. released = <<>> /\ Len(released) = 0 BY <2>1
  <2>3. tickets' \in Seq(Nat) /\ Len(tickets') \in Nat BY <2>1
  <2> QED BY <2>1, <2>2, <2>3
<1>3. CASE AdmitOnArrival BY <1>3 DEF AdmitOnArrival, Admit
<1>4. CASE AdmitSubCall BY <1>4 DEF AdmitSubCall
<1>5. CASE Check BY <1>5 DEF Check, RejectRequest, AbandonRequest, Write, Settle
<1>6. CASE AskWhenPriced
  <2>1. /\ asked' = asked + 1 /\ tickets' \in {tickets, Append(tickets, Len(tickets) + 1)}
        /\ released' = released /\ pc \notin {"release", "record", "end"}
        /\ pc' \notin {"release", "record", "end"}
    BY <1>6 DEF AskWhenPriced, Ask, RejectRequest, Write, Settle
  <2>2. released = <<>> /\ Len(released) = 0 BY <2>1
  <2>3. tickets' \in Seq(Nat) /\ Len(tickets') \in Nat BY <2>1
  <2> QED BY <2>1, <2>2, <2>3
<1>7. CASE AdmitWhenPriced BY <1>7 DEF AdmitWhenPriced, Admit
<1>8. CASE EnterCandidate BY <1>8 DEF EnterCandidate, ClearVerdict
<1>9. CASE ChainEnds BY <1>9 DEF ChainEnds
<1>10. CASE SkipCandidate BY <1>10 DEF SkipCandidate
<1>11. CASE LoseCaller BY <1>11 DEF LoseCaller, AbandonRequest, Settle
<1>12. CASE WalkKeys BY <1>12 DEF WalkKeys
<1>13. CASE StopWalking BY <1>13 DEF StopWalking, LeaveCandidate, ProbesLeaving
<1>14. CASE EnterKey BY <1>14 DEF EnterKey, ClearVerdict
<1>15. CASE Unsent BY <1>15 DEF Unsent, LeaveCandidate, ProbesLeaving
<1>16. CASE Dispatch BY <1>16 DEF Dispatch
<1>17. CASE Hear BY <1>17 DEF Hear
<1>18. CASE TransportFails BY <1>18 DEF TransportFails, AbandonRequest, Settle,
  LeaveCandidate, ProbesLeaving, Book
<1>19. CASE Judge BY <1>19 DEF Judge
<1>20. CASE RetrySame BY <1>20 DEF RetrySame, ActOn, Book
<1>21. CASE RotateKey BY <1>21 DEF RotateKey, ActOn, Book, HoldVerdict
<1>22. CASE FailOver BY <1>22 DEF FailOver, ActOn, Book, HoldVerdict, LeaveCandidate,
  ProbesLeaving
<1>23. CASE Terminate BY <1>23 DEF Terminate, ActOn, Book, HoldVerdict, Write, Settle
<1>24. CASE Deliver BY <1>24 DEF Deliver, Book, Settle, LeaveCandidate, ProbesLeaving
<1>25. CASE AllCandidatesFailed BY <1>25 DEF AllCandidatesFailed, RejectRequest, Write, Settle
<1>26. CASE FinalizeInHandler BY <1>26 DEF FinalizeInHandler, Finalize
<1>27. CASE FinalizeConcluding BY <1>27 DEF FinalizeConcluding, Finalize
<1>28. CASE Conclude BY <1>28 DEF Conclude
<1>29. CASE Release
  <2> DEFINE back == Len(tickets) - Len(released)
  <2>1. Len(tickets) \in Nat /\ Len(released) \in Nat OBVIOUS
  <2>2. CASE back = 0
    <3>1. pc' = "record" /\ UNCHANGED <<asked, tickets, released>> BY <1>29, <2>2 DEF Release
    <3>2. Len(released) = Len(tickets) BY <2>1, <2>2
    <3> QED BY <3>1, <3>2
  <2>3. CASE back # 0
    <3>1. /\ pc' = "release" /\ UNCHANGED <<asked, tickets>>
          /\ released' = Append(released, tickets[back]) BY <1>29, <2>3 DEF Release
    <3>2. back \in 1 .. Len(tickets) BY <2>1, <2>3
    <3>3. tickets[back] \in Nat BY <3>2
    <3> HIDE DEF back
    <3>4. /\ released' \in Seq(Nat) /\ Len(released') = Len(released) + 1
          /\ \A i \in 1 .. Len(released) : released'[i] = released[i]
          /\ released'[Len(released) + 1] = tickets[back] BY <3>1, <3>3
    <3>5. \A i \in 1 .. Len(released') : released'[i] = tickets[Len(tickets) - i + 1]
      <4> TAKE i \in 1 .. Len(released')
      <4>1. CASE i \in 1 .. Len(released) BY <3>4, <4>1
      <4>2. CASE i = Len(released) + 1
        <5>1. Len(tickets) - i + 1 = back BY <2>1, <4>2 DEF back
        <5> QED BY <3>4, <4>2, <5>1
      <4> QED BY <2>1, <3>4, <4>1, <4>2
    <3>6. Len(released') <= Len(tickets) BY <2>1, <3>2, <3>4 DEF back
    <3> QED BY <3>1, <3>4, <3>5, <3>6
  <2> QED BY <2>2, <2>3
<1>30. CASE Record BY <1>30 DEF Record
<1>31. CASE HangUp BY <1>31 DEF HangUp, Handling
<1>32. CASE Expire BY <1>32 DEF Expire, Handling
<1>33. CASE Panic BY <1>33 DEF Panic
<1>34. CASE UNCHANGED vars BY <1>34 DEF vars
<1> QED BY <1>1, <1>2, <1>3, <1>4, <1>5, <1>6, <1>7, <1>8, <1>9, <1>10, <1>11, <1>12,
     <1>13, <1>14, <1>15, <1>16, <1>17, <1>18, <1>19, <1>20, <1>21, <1>22, <1>23, <1>24,
     <1>25, <1>26, <1>27, <1>28, <1>29, <1>30, <1>31, <1>32, <1>33, <1>34 DEF Next

\* A step keeps the walk bounded.
LEMMA WalkStep ==
  ASSUME ShapeInv, WalkInv, [Next]_vars
  PROVE  WalkInv'
<1> USE DEF WalkInv, WalkIsBounded, ShapeInv, environment, admission, walk, ledger,
      attempt, wire, caller, settlement
<1>1. CASE CheckKey BY <1>1, BudgetAssumption DEF CheckKey, RejectRequest, Write, Settle
<1>2. CASE AskOnArrival BY <1>2, BudgetAssumption DEF AskOnArrival, Ask, RejectRequest,
  Write, Settle
<1>3. CASE AdmitOnArrival BY <1>3, BudgetAssumption DEF AdmitOnArrival, Admit
<1>4. CASE AdmitSubCall BY <1>4, BudgetAssumption DEF AdmitSubCall
<1>5. CASE Check BY <1>5, BudgetAssumption DEF Check, RejectRequest, AbandonRequest, Write, Settle
<1>6. CASE AskWhenPriced BY <1>6, BudgetAssumption DEF AskWhenPriced, Ask,
  RejectRequest, Write, Settle
<1>7. CASE AdmitWhenPriced BY <1>7, BudgetAssumption DEF AdmitWhenPriced, Admit
<1>8. CASE EnterCandidate BY <1>8, BudgetAssumption DEF EnterCandidate, ClearVerdict, Exhausted
<1>9. CASE ChainEnds BY <1>9, BudgetAssumption DEF ChainEnds
<1>10. CASE SkipCandidate BY <1>10, BudgetAssumption DEF SkipCandidate
<1>11. CASE LoseCaller BY <1>11, BudgetAssumption DEF LoseCaller, AbandonRequest, Settle
<1>12. CASE WalkKeys BY <1>12, BudgetAssumption DEF WalkKeys
<1>13. CASE StopWalking BY <1>13, BudgetAssumption DEF StopWalking, LeaveCandidate, ProbesLeaving
<1>14. CASE EnterKey BY <1>14, BudgetAssumption DEF EnterKey, ClearVerdict
<1>15. CASE Unsent BY <1>15, BudgetAssumption DEF Unsent, LeaveCandidate, ProbesLeaving
<1>16. CASE Dispatch BY <1>16, BudgetAssumption DEF Dispatch
<1>17. CASE Hear BY <1>17, BudgetAssumption DEF Hear
<1>18. CASE TransportFails BY <1>18, BudgetAssumption DEF TransportFails,
  AbandonRequest, Settle, LeaveCandidate, ProbesLeaving, Book
<1>19. CASE Judge BY <1>19, BudgetAssumption DEF Judge
<1>20. CASE RetrySame BY <1>20, BudgetAssumption DEF RetrySame, ActOn, Book
<1>21. CASE RotateKey BY <1>21, BudgetAssumption DEF RotateKey, ActOn, Book, HoldVerdict
<1>22. CASE FailOver BY <1>22, BudgetAssumption DEF FailOver, ActOn, Book, HoldVerdict,
  LeaveCandidate, ProbesLeaving
<1>23. CASE Terminate BY <1>23, BudgetAssumption DEF Terminate, ActOn, Book,
  HoldVerdict, Write, Settle
<1>24. CASE Deliver BY <1>24, BudgetAssumption DEF Deliver, Book, Settle,
  LeaveCandidate, ProbesLeaving
<1>25. CASE AllCandidatesFailed BY <1>25, BudgetAssumption DEF AllCandidatesFailed,
  RejectRequest, Write, Settle
<1>26. CASE FinalizeInHandler BY <1>26, BudgetAssumption DEF FinalizeInHandler, Finalize
<1>27. CASE FinalizeConcluding BY <1>27, BudgetAssumption DEF FinalizeConcluding, Finalize
<1>28. CASE Conclude BY <1>28, BudgetAssumption DEF Conclude
<1>29. CASE Release BY <1>29, BudgetAssumption DEF Release
<1>30. CASE Record BY <1>30, BudgetAssumption DEF Record
<1>31. CASE HangUp BY <1>31, BudgetAssumption DEF HangUp, Handling
<1>32. CASE Expire BY <1>32, BudgetAssumption DEF Expire, Handling
<1>33. CASE Panic BY <1>33, BudgetAssumption DEF Panic
<1>34. CASE UNCHANGED vars BY <1>34 DEF vars
<1> QED BY <1>1, <1>2, <1>3, <1>4, <1>5, <1>6, <1>7, <1>8, <1>9, <1>10, <1>11, <1>12,
     <1>13, <1>14, <1>15, <1>16, <1>17, <1>18, <1>19, <1>20, <1>21, <1>22, <1>23, <1>24,
     <1>25, <1>26, <1>27, <1>28, <1>29, <1>30, <1>31, <1>32, <1>33, <1>34 DEF Next
----------------------------------------
(* The ends of a delivery. *)

\* Why a settled delivery may have begun no answer.
Unbegun == {"commit_failed", "delivery_contradicts_response"}

\* What the kernel makes of an end.
Upshot(end) == Checked(ReconcileWithResponse(end.served, end.d))

\* What BlameIsFair and AnsweredOnce need of an end.
EndIsFair(end, kind, hung) ==
  LET d == Upshot(end) IN
  /\ d.verdict # "settled" => end.served = 0 /\ d.failReason # "invalid_delivery"
  /\ d.verdict = "settled" /\ end.served = 0 /\ d.failReason # "invalid_delivery"
        => hung \/ d.failReason \in Unbegun
  /\ DeliveryEffect(d) = CircuitReset => d.verdict = "settled" /\ end.served # 0
  /\ DeliveryEffect(d) \in Penalties =>
        end.culprit = "upstream" \/ (end.culprit = "caller" /\ kind \in NeverAsking)

\* A settled delivery is billed once checked, and checking it again changes nothing.
LEMMA CheckedSettles ==
  ASSUME NEW d, d.verdict = "settled"
  PROVE  Checked(d).verdict = "settled" /\ Checked(d).billingStatus # 0
<1>1. CASE Valid(d) BY <1>1 DEF Checked, Valid
<1>2. CASE ~Valid(d) BY <1>2 DEF Checked, Undelivered, Delivery
<1> QED BY <1>1, <1>2

\* Checking a verdict twice is checking it once.
LEMMA CheckedTwice ==
  ASSUME NEW d
  PROVE  Checked(Checked(d)) = Checked(d)
<1>1. CASE Valid(d) BY <1>1 DEF Checked
<1>2. CASE ~Valid(d)
  <2> DEFINE u == Undelivered(500, "settled", "gateway", "invalid_delivery")
  <2>1. Checked(d) = u BY <1>2 DEF Checked
  <2>2. Valid(u) BY DEF Valid, Undelivered, Delivery
  <2> HIDE DEF u
  <2> QED BY <2>1, <2>2 DEF Checked
<1> QED BY <1>1, <1>2

\* What an end has to say of itself to be fair: a delivery that contradicts
\* the caller's connection or itself is replaced by one that blames nobody.
Sincere(end, kind, hung) ==
  /\ end.d.failReason # "invalid_delivery"
  /\ end.served = 0 /\ ~end.d.committed /\ end.d.verdict = "settled"
        => (hung \/ end.d.failReason \in Unbegun) /\ end.d.fault # "upstream"
  /\ end.d.fault = "upstream" /\ (end.served # 0 <=> end.d.committed) /\ Valid(end.d)
        => end.culprit = "upstream" \/ (end.culprit = "caller" /\ kind \in NeverAsking)

\* A delivery that was replaced blames nobody.
LEMMA ReplacedIsFair ==
  ASSUME NEW end, NEW kind, NEW hung,
         Upshot(end).verdict = "settled", Upshot(end).fault = "gateway", ~Upshot(end).complete,
         Upshot(end).failReason \in {"invalid_delivery", "delivery_contradicts_response"}
  PROVE  EndIsFair(end, kind, hung)
<1> DEFINE d == Upshot(end)
<1>0. d.fault = "gateway" /\ ~d.complete OBVIOUS
<1> HIDE DEF d
<1>1. DeliveryEffect(d) = CircuitNone BY <1>0 DEF DeliveryEffect
<1>2. CircuitNone # CircuitReset /\ CircuitNone \notin Penalties
  BY DEF CircuitNone, CircuitReset, CircuitPenalize, CircuitPenalizeSoft, Penalties
<1>3. /\ d.verdict = "settled"
      /\ d.failReason \in {"invalid_delivery", "delivery_contradicts_response"} BY DEF d
<1> QED BY <1>1, <1>2, <1>3 DEF EndIsFair, Unbegun, d

\* A sincere end is fair.
LEMMA SincereIsFair ==
  ASSUME NEW end, NEW kind, NEW hung, Sincere(end, kind, hung)
  PROVE  EndIsFair(end, kind, hung)
<1> DEFINE d == end.d
           r == ReconcileWithResponse(end.served, d)
           c == Checked(r)
           invalid == Undelivered(500, "settled", "gateway", "invalid_delivery")
<1>0. Upshot(end) = c BY DEF Upshot
<1>1. CASE end.served # 0 /\ (~d.committed \/ d.clientStatus # end.served)
  <2> DEFINE t == Truncated(end.served, 500, "gateway", "delivery_contradicts_response")
  <2>1. r = t BY <1>1 DEF ReconcileWithResponse
  <2>2. /\ t.verdict = "settled" /\ t.billingStatus = 500 /\ t.committed = TRUE
        /\ t.clientStatus = end.served /\ t.complete = FALSE /\ t.fault = "gateway"
        /\ t.failReason = "delivery_contradicts_response" BY DEF Truncated, Delivery
  <2> HIDE DEF t, r
  <2>3. Valid(t) BY <1>1, <2>2 DEF Valid
  <2>4. c = t BY <2>1, <2>3 DEF Checked
  <2> QED BY <1>0, <2>2, <2>4, ReplacedIsFair
<1>2. CASE end.served = 0 /\ d.committed
  <2> DEFINE u == Undelivered(500, "settled", "gateway", "delivery_contradicts_response")
  <2>1. r = u BY <1>2 DEF ReconcileWithResponse
  <2>2. /\ u.verdict = "settled" /\ u.billingStatus = 500 /\ u.committed = FALSE
        /\ u.clientStatus = 0 /\ u.complete = FALSE /\ u.fault = "gateway"
        /\ u.failReason = "delivery_contradicts_response" BY DEF Undelivered, Delivery
  <2> HIDE DEF u, r
  <2>3. Valid(u) BY <2>2 DEF Valid
  <2>4. c = u BY <2>1, <2>3 DEF Checked
  <2> QED BY <1>0, <2>2, <2>4, ReplacedIsFair
<1>3. CASE /\ end.served # 0 => d.committed /\ d.clientStatus = end.served
           /\ end.served = 0 => ~d.committed
  <2>1. r = d BY <1>3 DEF ReconcileWithResponse
  <2>2. CASE ~Valid(d)
    <3>1. c = invalid BY <2>1, <2>2 DEF Checked
    <3>2. /\ invalid.verdict = "settled" /\ invalid.complete = FALSE
          /\ invalid.fault = "gateway" /\ invalid.failReason = "invalid_delivery"
      BY DEF Undelivered, Delivery
    <3> HIDE DEF invalid
    <3> QED BY <1>0, <3>1, <3>2, ReplacedIsFair
  <2>3. CASE Valid(d)
    <3>1. Upshot(end) = end.d BY <1>0, <2>1, <2>3 DEF Checked
    <3>2. DeliveryEffect(d) \in Penalties => d.fault = "upstream"
      BY DEF DeliveryEffect, Penalties, CircuitReset, CircuitNone, CircuitPenalize,
             CircuitPenalizeSoft
    <3>3. DeliveryEffect(d) = CircuitReset
            => d.complete \/ (d.fault = "upstream" /\ d.verdict = "settled")
      BY DEF DeliveryEffect, CircuitReset, CircuitNone, CircuitPenalize, CircuitPenalizeSoft
    <3>4. /\ d.committed => d.verdict = "settled"
          /\ d.complete => d.committed BY <2>3 DEF Valid
    <3> QED BY <1>3, <2>3, <3>1, <3>2, <3>3, <3>4 DEF EndIsFair, Sincere
  <2> QED BY <2>2, <2>3
<1> QED BY <1>1, <1>2, <1>3

\* The ends of the payloads are sincere.
LEMMA PlainEndsSincere ==
  ASSUME NEW kind, NEW hung
  PROVE  \A end \in {Whole, Unwritable, Uncommitted, Refused, Undecodable, NotRewritten,
                     KlingFails} : Sincere(end, kind, hung)
<1> USE DEF Sincere, Unbegun, End, Succeeded, Truncated, Undelivered, Rejected, HandedOn,
            Delivery
<1>1. Sincere(Whole, kind, hung) BY DEF Whole
<1>2. Sincere(Unwritable, kind, hung) BY DEF Unwritable
<1>3. Sincere(Uncommitted, kind, hung) BY DEF Uncommitted
<1>4. Sincere(Refused, kind, hung) BY DEF Refused
<1>5. Sincere(Undecodable, kind, hung) BY DEF Undecodable
<1>6. Sincere(NotRewritten, kind, hung) BY DEF NotRewritten
<1>7. Sincere(KlingFails, kind, hung) BY DEF KlingFails
<1> HIDE DEF Sincere
<1> QED BY <1>1, <1>2, <1>3, <1>4, <1>5, <1>6, <1>7

\* Those that end in a failed read, whoever's doing it is.
LEMMA ReadEndsSincere ==
  ASSUME NEW kind, NEW hung \in BOOLEAN
  PROVE  /\ Sincere(UnreadAsking(hung), kind, hung)
         /\ Sincere(CutAsking(hung), kind, hung)
         /\ \A reason \in {"stream_no_done", "stream_ended_unannounced"} :
               Sincere(Unannounced(reason), kind, hung)
         /\ hung => Sincere(LeftUnserved, kind, hung) /\ Sincere(LeftMidStream, kind, hung)
         /\ kind \in NeverAsking =>
               /\ Sincere(Unread(hung), kind, hung)
               /\ \A billing \in {200, 502} : Sincere(Cut(billing, hung), kind, hung)
               /\ \A whose \in {"upstream", "caller"} :
                     Sincere(NoAudio(whose), kind, hung)
<1> USE DEF Sincere, Unbegun, End, Succeeded, Truncated, Undelivered, Rejected, HandedOn,
            CallerGone, Delivery
<1>1. hung => Sincere(LeftUnserved, kind, hung) BY DEF LeftUnserved
<1>2. hung => Sincere(LeftMidStream, kind, hung) BY DEF LeftMidStream
<1>3. ~hung => Sincere(UnreadAsking(hung), kind, hung) BY DEF UnreadAsking
<1>4. ~hung => Sincere(CutAsking(hung), kind, hung) BY DEF CutAsking
<1>5. hung => UnreadAsking(hung) = LeftUnserved /\ CutAsking(hung) = LeftMidStream
  BY DEF UnreadAsking, CutAsking
<1>6. \A reason \in {"stream_no_done", "stream_ended_unannounced"} :
         Sincere(Unannounced(reason), kind, hung) BY DEF Unannounced
<1>7. kind \in NeverAsking => Sincere(Unread(hung), kind, hung) BY DEF Unread, ReadFailedBy
<1>8. kind \in NeverAsking => \A billing \in {200, 502} : Sincere(Cut(billing, hung), kind, hung)
  BY DEF Cut, ReadFailedBy
<1>9. kind \in NeverAsking =>
         \A whose \in {"upstream", "caller"} : Sincere(NoAudio(whose), kind, hung) BY DEF NoAudio
<1> HIDE DEF Sincere
<1> QED BY <1>1, <1>2, <1>3, <1>4, <1>5, <1>6, <1>7, <1>8, <1>9

\* And those of a payload that breaks its contract.
LEMMA CarelessEndsSincere ==
  ASSUME NEW kind, NEW hung, NEW end \in Careless
  PROVE  Sincere(end, kind, hung)
<1> DEFINE whole == Succeeded(200)
           handed == HandedOn("upstream", "careless")
           billed == Delivery(FALSE, 0, "next_candidate", 502, FALSE, "upstream", "careless")
           denied == Delivery(TRUE, 200, "next_candidate", 0, FALSE, "upstream", "careless")
           All == {whole, handed, billed, denied}
           Written == {0, 200}
<1>1. PICK served \in Written, d \in All : end = CarelessEnd(served, d)
  <2>1. Careless = {CarelessEnd(served, d) : served \in Written, d \in All} BY DEF Careless
  <2> HIDE DEF Written, All
  <2> QED BY <2>1
<1>2. end.served = served /\ end.d = d BY <1>1 DEF CarelessEnd, End
<1>3. end.culprit = IF d.committed = (served # 0) /\ Valid(d) THEN d.fault ELSE "gateway"
  BY <1>1 DEF CarelessEnd, End
<1>4. /\ whole.committed = TRUE /\ whole.failReason = "" /\ whole.fault = "none"
      /\ handed.committed = FALSE /\ handed.failReason = "careless"
      /\ handed.verdict = "next_candidate"
      /\ billed.committed = FALSE /\ billed.failReason = "careless"
      /\ billed.verdict = "next_candidate"
      /\ denied.committed = TRUE /\ denied.failReason = "careless"
  BY DEF Succeeded, HandedOn, Delivery
<1> HIDE DEF whole, handed, billed, denied, Written
<1>5. /\ d.committed \in BOOLEAN /\ d.failReason # "invalid_delivery"
      /\ ~d.committed => d.verdict # "settled" BY <1>1, <1>4
<1> QED BY <1>2, <1>3, <1>5 DEF Sincere

\* Every end of every payload is fair.
LEMMA EndsAreFair ==
  ASSUME NEW kind \in PayloadKinds, NEW hung \in BOOLEAN, NEW end \in Ends(kind, hung)
  PROVE  EndIsFair(end, kind, hung)
<1>1. Sincere(end, kind, hung)
  <2>0. ReadFailedBy(hung) \in {"upstream", "caller"} BY DEF ReadFailedBy
  <2> USE PlainEndsSincere, ReadEndsSincere
  <2>1. CASE kind = "passthrough" BY <2>1 DEF Ends
  <2>2. CASE kind = "translated" BY <2>2 DEF Ends, NeverAsking
  <2>3. CASE kind = "stream" BY <2>3 DEF Ends
  <2>4. CASE kind = "translated_stream" BY <2>4 DEF Ends, NeverAsking
  <2>5. CASE kind = "image" BY <2>5 DEF Ends
  <2>6. CASE kind = "kling" BY <2>6 DEF Ends
  <2>7. CASE kind = "image_stream" BY <2>7 DEF Ends, NeverAsking
  <2>8. CASE kind = "audio" BY <2>0, <2>8 DEF Ends, NeverAsking
  <2>9. CASE kind = "careless" BY <2>9, CarelessEndsSincere DEF Ends
  <2> QED BY <2>1, <2>2, <2>3, <2>4, <2>5, <2>6, <2>7, <2>8, <2>9 DEF PayloadKinds
<1> QED BY <1>1, SincereIsFair
----------------------------------------
(* Settling. *)

\* What is settled so far: nothing while the request is handled, then once.
SettleInv ==
  /\ pc \in Chaining => answers = 0
  /\ pc \in Chaining \cup {"settle", "concluding"} => ~logWritten
  /\ pc \in {"release", "record", "end"} => logWritten
  /\ ~logWritten => charged = 0 /\ outcome = NoOutcome
  /\ logWritten => outcome # NoOutcome \/ panicked
  /\ charged \in {0, 1} /\ answers \in {0, 1}
  /\ pc \in {"settle", "concluding"} => closing.d.billingStatus # 0
  /\ pc # "end" => recorded = 0
  /\ pc = "end" => recorded = IF outcome # NoOutcome THEN 1 ELSE 0
  /\ (pc = "conclude" /\ ~logWritten) \/ pc = "concluding" => panicked
  /\ pc = "settle" => answers = 1 \/ gone \/ closing.d.failReason \in Unbegun
  /\ pc \in {"conclude", "release", "record", "end"} /\ ~panicked
        => answers = 1 \/ gone \/ outcome.reason \in Unbegun

\* The handler goes on, or ends: in a rejection, or with the caller gone.
LEMMA HandlingOn ==
  ASSUME SettleInv, pc \in Chaining, pc' \in Chaining, UNCHANGED <<answers, settlement>>
  PROVE  SettleInv'
BY DEF SettleInv, Chaining, settlement

\* The end of a handler that answered, or had nobody to answer, is one to settle.
LEMMA HandlingEnds ==
  ASSUME SettleInv, pc \in Chaining, pc' = "settle",
         UNCHANGED <<logWritten, charged, outcome, recorded, panicked>>,
         answers' \in {0, 1}, closing'.d.billingStatus # 0,
         answers' = 1 \/ gone' \/ closing'.d.failReason \in Unbegun
  PROVE  SettleInv'
BY DEF SettleInv, Chaining

\* So is a rejection,
LEMMA RejectionEnds ==
  ASSUME SettleInv, pc \in Chaining, UNCHANGED <<gone, panicked>>,
         NEW by, NEW status, NEW at, RejectRequest(by, status, at)
  PROVE  SettleInv'
<1>1. answers = 0 BY DEF SettleInv
<1>2. answers' = 1 BY <1>1 DEF RejectRequest, Write
<1>3. /\ closing' = [d |-> Checked(Rejected(status, at, by)), usage |-> FALSE]
      /\ pc' = "settle" /\ UNCHANGED <<logWritten, charged, outcome, recorded>>
  BY DEF RejectRequest, Settle
<1>4. Rejected(status, at, by).verdict = "settled" BY DEF Rejected, Delivery
<1>5. closing'.d.billingStatus # 0 BY <1>3, <1>4, CheckedSettles
<1> QED BY <1>2, <1>3, <1>5, HandlingEnds

\* and so is an abandonment of a caller who left.
LEMMA AbandonmentEnds ==
  ASSUME SettleInv, pc \in Chaining, gone, UNCHANGED <<gone, panicked, answers>>, AbandonRequest
  PROVE  SettleInv'
<1> DEFINE d == CallerGone("client_disconnected")
<1>1. answers' \in {0, 1} BY DEF SettleInv
<1>2. /\ closing' = [d |-> Checked(d), usage |-> FALSE]
      /\ pc' = "settle" /\ UNCHANGED <<logWritten, charged, outcome, recorded>>
  BY DEF AbandonRequest, Settle
<1>3. d.verdict = "settled" BY DEF CallerGone, Undelivered, Delivery
<1> HIDE DEF d
<1>4. closing'.d.billingStatus # 0 BY <1>2, <1>3, CheckedSettles
<1> QED BY <1>1, <1>2, <1>4, HandlingEnds

\* What the first call of finalize fixes.
LEMMA FinalizeSettles ==
  ASSUME NEW next, Finalize(next), ~logWritten, closing.d.billingStatus # 0,
         charged = 0, panicked \in BOOLEAN, outcome = NoOutcome
  PROVE  /\ pc' = next /\ logWritten' /\ UNCHANGED <<gone, answers, recorded>>
         /\ charged' \in {0, 1}
         /\ \/ /\ outcome' # NoOutcome /\ panicked' = panicked
               /\ outcome'.reason = closing.d.failReason
            \/ panicked'
<1>1. pc' = next /\ logWritten' /\ UNCHANGED <<gone, answers, recorded>>
  BY DEF Finalize, caller, admission, walk, ledger, attempt, wire
<1>2. charged' = charged + (IF closing.usage THEN 1 ELSE 0) BY DEF Finalize
<1>3. charged' = charged + 1 \/ charged' = charged + 0 BY <1>2, Zenon
<1>4. charged' \in {0, 1} BY <1>3
<1>5. \/ /\ outcome' = [status |-> closing.d.billingStatus, fault |-> closing.d.fault,
                       reason |-> closing.d.failReason]
         /\ panicked' = panicked
      \/ panicked' = TRUE BY Zenon DEF Finalize
<1>6. CASE /\ outcome' = [status |-> closing.d.billingStatus, fault |-> closing.d.fault,
                         reason |-> closing.d.failReason]
           /\ panicked' = panicked
  <2>1. outcome'.status # 0 /\ outcome'.reason = closing.d.failReason BY <1>6
  <2>2. NoOutcome.status = 0 BY DEF NoOutcome
  <2>3. outcome' # NoOutcome BY <2>1, <2>2
  <2> QED BY <1>1, <1>4, <1>6, <2>1, <2>3
<1> QED BY <1>1, <1>4, <1>5, <1>6

\* A step keeps what is settled.
LEMMA SettleStep ==
  ASSUME ShapeInv, SettleInv, [Next]_vars
  PROVE  SettleInv'
<1> USE DEF environment, admission, walk, ledger, attempt, wire, caller, settlement
<1>1. CASE CheckKey
  <2>1. pc \in Chaining /\ UNCHANGED <<gone, panicked>> BY <1>1 DEF CheckKey, Chaining
  <2>2. CASE pc' = "arrival" /\ UNCHANGED <<caller, settlement>>
    BY <2>1, <2>2, HandlingOn DEF Chaining
  <2>3. CASE \E status \in {401, 429} : RejectRequest("checks", status, "client")
    BY <2>1, <2>3, RejectionEnds
  <2> QED BY <1>1, <2>2, <2>3 DEF CheckKey
<1>2. CASE AskOnArrival
  <2>1. pc \in Chaining /\ UNCHANGED <<gone, panicked>> BY <1>2 DEF AskOnArrival, Ask, Chaining
  <2>2. CASE UNCHANGED <<pc, caller, settlement>> BY <2>1, <2>2, HandlingOn
  <2>3. CASE \E status : RejectRequest("admission", status, "client") BY <2>1, <2>3, RejectionEnds
  <2> QED BY <1>2, <2>2, <2>3 DEF AskOnArrival, Ask
<1>3. CASE AdmitOnArrival
  <2>1. pc \in Chaining /\ pc' \in Chaining BY <1>3 DEF Chaining, AdmitOnArrival, Admit
  <2>2. UNCHANGED <<answers, settlement>> BY <1>3 DEF AdmitOnArrival, Admit
  <2> QED BY <2>1, <2>2, HandlingOn
<1>4. CASE AdmitSubCall
  <2>1. pc \in Chaining /\ pc' \in Chaining BY <1>4 DEF Chaining, AdmitSubCall
  <2>2. UNCHANGED <<answers, settlement>> BY <1>4 DEF AdmitSubCall
  <2> QED BY <2>1, <2>2, HandlingOn
<1>5. CASE Check
  <2>1. pc \in Chaining /\ UNCHANGED <<gone, panicked>> BY <1>5 DEF Check, Chaining
  <2>2. CASE pc' = "priced" /\ UNCHANGED <<caller, settlement>>
    BY <2>1, <2>2, HandlingOn DEF Chaining
  <2>3. CASE \E status, at : RejectRequest("checks", status, at) BY <2>1, <2>3, RejectionEnds
  <2>4. CASE gone /\ AbandonRequest
    <3>1. UNCHANGED answers BY <2>4 DEF AbandonRequest
    <3> QED BY <2>1, <2>4, <3>1, AbandonmentEnds
  <2> QED BY <1>5, <2>2, <2>3, <2>4 DEF Check
<1>6. CASE AskWhenPriced
  <2>1. pc \in Chaining /\ UNCHANGED <<gone, panicked>> BY <1>6 DEF AskWhenPriced, Ask, Chaining
  <2>2. CASE UNCHANGED <<pc, caller, settlement>> BY <2>1, <2>2, HandlingOn
  <2>3. CASE \E status : RejectRequest("admission", status, "client") BY <2>1, <2>3, RejectionEnds
  <2> QED BY <1>6, <2>2, <2>3 DEF AskWhenPriced, Ask
<1>7. CASE AdmitWhenPriced
  <2>1. pc \in Chaining /\ pc' \in Chaining BY <1>7 DEF Chaining, AdmitWhenPriced, Admit
  <2>2. UNCHANGED <<answers, settlement>> BY <1>7 DEF AdmitWhenPriced, Admit
  <2> QED BY <2>1, <2>2, HandlingOn
<1>8. CASE EnterCandidate
  <2>1. pc \in Chaining /\ pc' \in Chaining BY <1>8 DEF Chaining, EnterCandidate, ClearVerdict
  <2>2. UNCHANGED <<answers, settlement>> BY <1>8 DEF EnterCandidate, ClearVerdict
  <2> QED BY <2>1, <2>2, HandlingOn
<1>9. CASE ChainEnds
  <2>1. pc \in Chaining /\ pc' \in Chaining BY <1>9 DEF Chaining, ChainEnds
  <2>2. UNCHANGED <<answers, settlement>> BY <1>9 DEF ChainEnds
  <2> QED BY <2>1, <2>2, HandlingOn
<1>10. CASE SkipCandidate
  <2>1. pc \in Chaining /\ pc' \in Chaining BY <1>10 DEF Chaining, SkipCandidate
  <2>2. UNCHANGED <<answers, settlement>> BY <1>10 DEF SkipCandidate
  <2> QED BY <2>1, <2>2, HandlingOn
<1>11. CASE LoseCaller
  <2>1. pc \in Chaining /\ gone /\ UNCHANGED <<gone, panicked>> /\ AbandonRequest
    BY <1>11 DEF LoseCaller, Chaining
  <2>2. UNCHANGED answers BY <2>1 DEF AbandonRequest
  <2> QED BY <2>1, <2>2, AbandonmentEnds
<1>12. CASE WalkKeys
  <2>1. pc \in Chaining /\ pc' \in Chaining BY <1>12 DEF Chaining, WalkKeys
  <2>2. UNCHANGED <<answers, settlement>> BY <1>12 DEF WalkKeys
  <2> QED BY <2>1, <2>2, HandlingOn
<1>13. CASE StopWalking
  <2>1. pc \in Chaining /\ pc' \in Chaining
    BY <1>13 DEF Chaining, StopWalking, LeaveCandidate, ProbesLeaving
  <2>2. UNCHANGED <<answers, settlement>> BY <1>13 DEF StopWalking, LeaveCandidate, ProbesLeaving
  <2> QED BY <2>1, <2>2, HandlingOn
<1>14. CASE EnterKey
  <2>1. pc \in Chaining /\ pc' \in Chaining BY <1>14 DEF Chaining, EnterKey, ClearVerdict
  <2>2. UNCHANGED <<answers, settlement>> BY <1>14 DEF EnterKey, ClearVerdict
  <2> QED BY <2>1, <2>2, HandlingOn
<1>15. CASE Unsent
  <2>1. pc \in Chaining /\ pc' \in Chaining
    BY <1>15 DEF Chaining, Unsent, LeaveCandidate, ProbesLeaving
  <2>2. UNCHANGED <<answers, settlement>> BY <1>15 DEF Unsent, LeaveCandidate, ProbesLeaving
  <2> QED BY <2>1, <2>2, HandlingOn
<1>16. CASE Dispatch
  <2>1. pc \in Chaining /\ pc' \in Chaining BY <1>16 DEF Chaining, Dispatch
  <2>2. UNCHANGED <<answers, settlement>> BY <1>16 DEF Dispatch
  <2> QED BY <2>1, <2>2, HandlingOn
<1>17. CASE Hear
  <2>1. pc \in Chaining /\ pc' \in Chaining BY <1>17 DEF Chaining, Hear
  <2>2. UNCHANGED <<answers, settlement>> BY <1>17 DEF Hear
  <2> QED BY <2>1, <2>2, HandlingOn
<1>18. CASE TransportFails
  <2>1. pc \in Chaining /\ UNCHANGED <<gone, panicked>> BY <1>18 DEF TransportFails, Chaining
  <2>2. CASE gone /\ AbandonRequest
    <3>1. UNCHANGED answers BY <2>2 DEF AbandonRequest
    <3> QED BY <2>1, <2>2, <3>1, AbandonmentEnds
  <2>3. CASE LeaveCandidate(attempts + 1) /\ UNCHANGED <<caller, settlement>>
    BY <2>1, <2>3, HandlingOn DEF LeaveCandidate, Chaining
  <2> QED BY <1>18, <2>2, <2>3 DEF TransportFails
<1>19. CASE Judge
  <2>1. pc \in Chaining /\ pc' \in Chaining BY <1>19 DEF Chaining, Judge
  <2>2. UNCHANGED <<answers, settlement>> BY <1>19 DEF Judge
  <2> QED BY <2>1, <2>2, HandlingOn
<1>20. CASE RetrySame
  <2>1. pc \in Chaining /\ pc' \in Chaining BY <1>20 DEF Chaining, RetrySame, ActOn, Book
  <2>2. UNCHANGED <<answers, settlement>> BY <1>20 DEF RetrySame, ActOn, Book
  <2> QED BY <2>1, <2>2, HandlingOn
<1>21. CASE RotateKey
  <2>1. pc \in Chaining /\ pc' \in Chaining
    BY <1>21 DEF Chaining, RotateKey, ActOn, Book, HoldVerdict
  <2>2. UNCHANGED <<answers, settlement>> BY <1>21 DEF RotateKey, ActOn, Book, HoldVerdict
  <2> QED BY <2>1, <2>2, HandlingOn
<1>22. CASE FailOver
  <2>1. pc \in Chaining /\ pc' \in Chaining
    BY <1>22 DEF Chaining, FailOver, ActOn, Book, HoldVerdict, LeaveCandidate, ProbesLeaving
  <2>2. UNCHANGED <<answers, settlement>>
    BY <1>22 DEF FailOver, ActOn, Book, HoldVerdict, LeaveCandidate, ProbesLeaving
  <2> QED BY <2>1, <2>2, HandlingOn
<1>23. CASE Terminate
  <2> DEFINE status == IF Shown = 0 THEN heard ELSE Shown
             d == Rejected(status, "upstream", "upstream")
  <2>1. pc \in Chaining /\ UNCHANGED <<gone, panicked>> BY <1>23 DEF Terminate, ActOn, Chaining
  <2>2. answers = 0 BY <2>1 DEF SettleInv
  <2>3. Write("upstream", status) /\ Settle(d, FALSE) BY <1>23, <2>2 DEF Terminate
  <2>4. RejectRequest("upstream", status, "upstream") BY <2>3 DEF RejectRequest
  <2> HIDE DEF status
  <2> QED BY <2>1, <2>4, RejectionEnds
<1>24. CASE Deliver
  <2>1. pc \in Chaining /\ UNCHANGED <<gone, panicked>> BY <1>24 DEF Deliver, Chaining
  <2>2. PICK end \in Ends(payload, gone) :
          LET d == Upshot(end)
              apology == d.failReason = "invalid_delivery" /\ end.served = 0 IN
          /\ answers' = answers + (IF end.served # 0 \/ apology THEN 1 ELSE 0)
          /\ IF d.verdict = "settled" THEN \E usage \in BOOLEAN : Settle(d, usage)
             ELSE LeaveCandidate(attempts + 1) /\ UNCHANGED settlement
    BY <1>24 DEF Deliver, Upshot
  <2> DEFINE d == Upshot(end)
             begins == end.served # 0 \/ (d.failReason = "invalid_delivery" /\ end.served = 0)
  <2>3. EndIsFair(end, payload, gone) BY EndsAreFair DEF ShapeInv
  <2>4. /\ d.verdict # "settled" => ~begins
        /\ d.verdict = "settled" /\ ~begins => gone \/ d.failReason \in Unbegun
    BY <2>3 DEF EndIsFair
  <2>5. /\ answers' = answers + (IF begins THEN 1 ELSE 0)
        /\ d.verdict = "settled" => \E usage \in BOOLEAN : Settle(d, usage)
        /\ d.verdict # "settled" => LeaveCandidate(attempts + 1) /\ UNCHANGED settlement BY <2>2
  <2>6. answers = 0 BY <2>1 DEF SettleInv
  <2>7. d = Checked(ReconcileWithResponse(end.served, end.d)) BY DEF Upshot
  <2> HIDE DEF begins
  <2>8. (begins => answers' = 1) /\ (~begins => answers' = 0) BY <2>5, <2>6
  <2>9. CASE d.verdict = "settled"
    <3>1. PICK usage \in BOOLEAN : Settle(d, usage) BY <2>5, <2>9
    <3>2. /\ closing' = [d |-> d, usage |-> usage] /\ pc' = "settle"
          /\ UNCHANGED <<logWritten, charged, outcome, recorded>>
      BY <2>7, <3>1, CheckedTwice DEF Settle
    <3> HIDE DEF d
    <3>3. Checked(d).billingStatus # 0 BY <2>9, CheckedSettles
    <3>4. Checked(d) = d BY <2>7, CheckedTwice
    <3>5. closing'.d = d BY <3>2
    <3> QED BY <2>1, <2>4, <2>8, <2>9, <3>2, <3>3, <3>4, <3>5, HandlingEnds
  <2>10. CASE d.verdict # "settled"
    <3> HIDE DEF d
    <3>1. UNCHANGED <<answers, settlement>> BY <2>4, <2>5, <2>6, <2>8, <2>10
    <3>2. pc' \in Chaining BY <2>5, <2>10 DEF LeaveCandidate, Chaining
    <3> QED BY <2>1, <3>1, <3>2, HandlingOn
  <2> QED BY <2>9, <2>10
<1>25. CASE AllCandidatesFailed
  <2>1. pc \in Chaining /\ UNCHANGED <<gone, panicked>> BY <1>25 DEF AllCandidatesFailed, Chaining
  <2>2. answers = 0 BY <2>1 DEF SettleInv
  <2>3. \E by, status : RejectRequest(by, status, "upstream")
    BY <1>25, <2>2 DEF AllCandidatesFailed
  <2> QED BY <2>1, <2>3, RejectionEnds
<1>26. CASE FinalizeInHandler
  <2>1. pc = "settle" /\ Finalize("conclude") BY <1>26 DEF FinalizeInHandler
  <2>2. /\ ~logWritten /\ charged = 0 /\ outcome = NoOutcome /\ recorded = 0
        /\ closing.d.billingStatus # 0 /\ answers \in {0, 1}
        /\ answers = 1 \/ gone \/ closing.d.failReason \in Unbegun BY <2>1 DEF SettleInv
  <2>3. panicked \in BOOLEAN BY DEF ShapeInv
  <2> QED BY <2>1, <2>2, <2>3, FinalizeSettles DEF SettleInv, Chaining
<1>27. CASE FinalizeConcluding
  <2>1. pc = "concluding" /\ Finalize("release") BY <1>27 DEF FinalizeConcluding
  <2>2. /\ ~logWritten /\ charged = 0 /\ outcome = NoOutcome /\ recorded = 0
        /\ closing.d.billingStatus # 0 /\ answers \in {0, 1} /\ panicked BY <2>1 DEF SettleInv
  <2>3. panicked \in BOOLEAN BY DEF ShapeInv
  <2>4. panicked' BY <2>1, <2>2, <2>3, FinalizeSettles
  <2> QED BY <2>1, <2>2, <2>3, <2>4, FinalizeSettles DEF SettleInv, Chaining
<1>28. CASE Conclude
  <2>1. pc = "conclude" /\ UNCHANGED <<gone, panicked, answers, logWritten, charged, outcome, recorded>>
    BY <1>28 DEF Conclude
  <2>2. CASE logWritten
    <3>1. pc' = "release" BY <1>28, <2>2 DEF Conclude
    <3> QED BY <2>1, <2>2, <3>1 DEF SettleInv, Chaining
  <2>3. CASE ~logWritten
    <3> DEFINE d == IF answers > 0 THEN Truncated(200, 500, "gateway", "panic_recovered")
                    ELSE Undelivered(500, "settled", "gateway", "panic_recovered")
    <3>1. pc' = "concluding" /\ closing' = [d |-> Checked(d), usage |-> FALSE]
      BY <1>28, <2>3 DEF Conclude
    <3>2. d.verdict = "settled" BY DEF Truncated, Undelivered, Delivery
    <3> HIDE DEF d
    <3>3. closing'.d.billingStatus # 0 BY <3>1, <3>2, CheckedSettles
    <3> QED BY <2>1, <2>3, <3>1, <3>3 DEF SettleInv, Chaining
  <2> QED BY <2>2, <2>3
<1>29. CASE Release BY <1>29 DEF Release, SettleInv, Chaining
<1>30. CASE Record BY <1>30 DEF Record, SettleInv, Chaining
<1>31. CASE HangUp BY <1>31 DEF HangUp, Handling, SettleInv, Chaining
<1>32. CASE Expire BY <1>32 DEF Expire, Handling, SettleInv, Chaining
<1>33. CASE Panic
  <2>1. pc \in Chaining /\ pc' = "conclude" /\ panicked' = TRUE /\ UNCHANGED settlement
    BY <1>33 DEF Panic, Chaining
  <2>2. answers = 0 BY <2>1 DEF SettleInv
  <2>3. answers' \in {0, 1} BY <1>33, <2>2 DEF Panic
  <2> QED BY <2>1, <2>3 DEF SettleInv, Chaining
<1>34. CASE UNCHANGED vars BY <1>34 DEF vars, SettleInv
<1> QED BY <1>1, <1>2, <1>3, <1>4, <1>5, <1>6, <1>7, <1>8, <1>9, <1>10, <1>11, <1>12,
     <1>13, <1>14, <1>15, <1>16, <1>17, <1>18, <1>19, <1>20, <1>21, <1>22, <1>23, <1>24,
     <1>25, <1>26, <1>27, <1>28, <1>29, <1>30, <1>31, <1>32, <1>33, <1>34 DEF Next

\* What the invariants make of an exchange's end.
LEMMA SettledEndsOnce ==
  ASSUME ShapeInv, TicketsInv, SettleInv
  PROVE  EndsOnce
<1>1. answers <= 1 /\ charged <= 1 /\ recorded <= 1 BY DEF SettleInv
<1>2. pc = "end" /\ ~gone /\ ~panicked /\ outcome.reason \notin Unbegun => answers = 1
  BY DEF SettleInv
<1>3. charged = 1 => outcome # NoOutcome \/ panicked BY DEF SettleInv
<1>4. pc = "end" => logWritten /\ (recorded = 1 <=> outcome # NoOutcome) BY DEF SettleInv
<1>5. pc = "end" /\ ~panicked => recorded = 1 BY <1>4 DEF SettleInv
<1>6. pc \in {"record", "end"} => released = Reverse(tickets)
  <2> HAVE pc \in {"record", "end"}
  <2>1. /\ Len(released) = Len(tickets) /\ released \in Seq(Nat)
        /\ \A i \in 1 .. Len(released) : released[i] = tickets[Len(tickets) - i + 1]
    BY DEF TicketsInv
  <2>2. released = [i \in 1 .. Len(released) |-> released[i]] BY <2>1
  <2>3. [i \in 1 .. Len(released) |-> released[i]]
          = [i \in 1 .. Len(tickets) |-> tickets[(Len(tickets) - i) + 1]] BY <2>1
  <2> QED BY <2>2, <2>3 DEF Reverse
<1> QED BY <1>1, <1>2, <1>3, <1>4, <1>5, <1>6 DEF EndsOnce, AnsweredOnce, Unbegun
----------------------------------------
(* What a verdict books and shows. *)

\* The facts a status may be judged by.
Reports(status) == Refusals \cup {Offered} \cup {KernelUpstreamFact(status)}

\* The verdict acted on is its facts'.
JudgedInv ==
  pc = "judged" => /\ heard \in Statuses \ {200}
                   /\ told \subseteq Reports(heard)
                   /\ judged.folded = VerdictOf(told)

\* The kernel's own fact, and the facts reported.
LEMMA KernelFact ==
  ASSUME NEW status
  PROVE  /\ KernelUpstreamFact(status) \in Facts
         /\ KernelUpstreamFact(status).kind = KindForUpstreamStatus(status)
         /\ KindForUpstreamStatus(status) \in
               {UpstreamAuthRejected, UpstreamRateLimited, UpstreamServerError,
                UpstreamClientError}
<1>1. KindForUpstreamStatus(status) \in
         {UpstreamAuthRejected, UpstreamRateLimited, UpstreamServerError, UpstreamClientError}
  BY DEF KindForUpstreamStatus
<1>2. {UpstreamAuthRejected, UpstreamRateLimited, UpstreamServerError, UpstreamClientError}
         \subseteq Kinds BY DEF UpstreamAuthRejected, UpstreamRateLimited, UpstreamServerError,
         UpstreamClientError, Kinds
<1> QED BY <1>1, <1>2 DEF KernelUpstreamFact, Facts

\* What an attempt reports are facts of the table.
LEMMA ReportsAreFacts ==
  ASSUME NEW status
  PROVE  Reports(status) \subseteq Facts /\ Offered \in Facts
<1>1. Offered \in Facts BY DEF Offered, Facts, PayloadRepairedRetrySame, Kinds
<1> QED BY <1>1, KernelFact DEF Reports, Refusals

\* The members of a sequence of one.
LEMMA RangeOfOne ==
  ASSUME NEW x
  PROVE  Range(<<x>>) = {x} /\ Range(<<>>) = {}
BY DEF Range

\* A batch, an offer and the kernel's own fact fold to the verdict of all of them.
LEMMA JudgeFolds ==
  ASSUME NEW batch \in Batches, NEW offered \in {<<>>, <<Offered>>}, NEW status
  PROVE  LET observed == Combine(ResolveBatch(batch), ResolveBatch(offered))
             seen == Range(batch) \cup Range(offered)
             own == KernelUpstreamFact(status) IN
         /\ seen \subseteq Refusals \cup {Offered}
         /\ observed = VerdictOf(seen)
         /\ Combine(observed, ResolveBatch(<<own>>)) = VerdictOf(seen \cup {own})
<1> DEFINE seen == Range(batch) \cup Range(offered)
           own == KernelUpstreamFact(status)
<1>1. batch \in Seq(Refusals) /\ batch \in Seq(Facts)
  <2>1. batch \in Seq(Refusals) BY BatchAssumption
  <2>2. \A i \in 1 .. Len(batch) : batch[i] \in Facts BY <2>1 DEF Refusals
  <2> QED BY <2>1, <2>2
<1>2. offered \in Seq(Facts)
  <2>1. Offered \in Facts BY ReportsAreFacts
  <2>2. CASE offered = <<>> BY <2>2
  <2>3. CASE offered = <<Offered>> BY <2>1, <2>3
  <2> QED BY <2>2, <2>3
<1>3. own \in Facts BY KernelFact
<1> HIDE DEF own
<1>4. <<own>> \in Seq(Facts) BY <1>3
<1>5. Range(batch) \subseteq Refusals BY <1>1 DEF Range
<1>6. Range(offered) \subseteq {Offered} BY RangeOfOne
<1>7. Range(batch) \subseteq Facts /\ Range(offered) \subseteq Facts
  BY <1>5, <1>6, ReportsAreFacts DEF Refusals
<1>8. /\ ResolveBatch(batch) = VerdictOf(Range(batch))
      /\ ResolveBatch(offered) = VerdictOf(Range(offered))
      /\ ResolveBatch(<<own>>) = VerdictOf({own})
  <2>1. ResolveBatch(<<own>>) = VerdictOf(Range(<<own>>)) BY <1>4, FoldIsVerdict
  <2> QED BY <1>1, <1>2, <2>1, FoldIsVerdict, RangeOfOne
<1>9. Combine(VerdictOf(Range(batch)), VerdictOf(Range(offered))) = VerdictOf(seen)
  BY <1>7, VerdictsCombine
<1>10. seen \subseteq Facts /\ {own} \subseteq Facts BY <1>3, <1>7
<1>11. seen \subseteq Refusals \cup {Offered} BY <1>5, <1>6
<1> HIDE DEF seen
<1>12. Combine(VerdictOf(seen), VerdictOf({own})) = VerdictOf(seen \cup {own})
  BY <1>10, VerdictsCombine
<1> QED BY <1>8, <1>9, <1>11, <1>12 DEF seen, own

\* The status shown by a verdict that forwards the upstream's, or has its own.
LEMMA ForwardedStatus ==
  ASSUME NEW v, NEW status, NEW errType, v.face.status = StatusFromUpstream
  PROVE  CallerFacing(v, status, errType).status = status
<1>1. StatusFromUpstream # StatusFixed BY DEF StatusFromUpstream, StatusFixed
<1>2. CallerFacing(v, status, errType) = [status |-> status, errType |-> errType]
  BY <1>1 DEF CallerFacing
<1> QED BY <1>2

\* A verdict of a fixed status faces the caller with it.
LEMMA FixedStatus ==
  ASSUME NEW v, NEW status, NEW errType, v.face.status = StatusFixed
  PROVE  CallerFacing(v, status, errType).status = v.face.code
<1>1. StatusFromUpstream # StatusFixed BY DEF StatusFromUpstream, StatusFixed
<1>2. CallerFacing(v, status, errType)
        = [status |-> v.face.code, errType |-> v.face.errType] BY <1>1 DEF CallerFacing
<1> QED BY <1>2

\* What a verdict of those facts books, and what it shows the caller.
LEMMA VerdictOfReports ==
  ASSUME NEW status, NEW errType, NEW F, F \subseteq Reports(status)
  PROVE  LET v == VerdictOf(F) IN
         /\ v.circuit \in {CircuitNone} \cup Penalties
         /\ v.circuit \in Penalties => status = 429 \/ status >= 500
         /\ v.face.sticky \in BOOLEAN
         /\ v.face.sticky => CallerFacing(v, status, errType).status = status
<1> DEFINE v == VerdictOf(F)
           G == F \cup {Nothing}
<1>1. F \subseteq Facts BY ReportsAreFacts
<1>2. IsVerdict(v, G) BY <1>1, VerdictOfIsOne
<1> HIDE DEF v
<1>3. \A f \in G : \/ f.kind = PayloadRefused \/ f.kind = PayloadRepairedRetrySame
                   \/ f.kind = KindForUpstreamStatus(status) \/ f.kind = KindNone
  <2>1. Nothing.kind = KindNone /\ Offered.kind = PayloadRepairedRetrySame BY DEF Nothing, Offered
  <2> QED BY <2>1, KernelFact DEF Reports, Refusals
<1>4. KindForUpstreamStatus(status) = UpstreamRateLimited => status = 429
  BY DEF KindForUpstreamStatus, UpstreamAuthRejected, UpstreamRateLimited,
         UpstreamServerError, UpstreamClientError
<1>5. KindForUpstreamStatus(status) = UpstreamServerError => status >= 500
  BY DEF KindForUpstreamStatus, UpstreamAuthRejected, UpstreamRateLimited,
         UpstreamServerError, UpstreamClientError
<1>6. \A f \in G : /\ For(f.kind).circuit \in {CircuitNone} \cup Penalties
                   /\ For(f.kind).circuit \in Penalties => status = 429 \/ status >= 500
  <2> TAKE f \in G
  <2> USE DEF CircuitNone, Penalties, CircuitPenalizeSoft, CircuitPenalize
  <2>1. CASE f.kind \in {PayloadRefused, PayloadRepairedRetrySame, KindNone}
    BY <2>1, TableColumns DEF Columns
  <2>2. CASE f.kind = KindForUpstreamStatus(status)
    <3>1. CASE f.kind = UpstreamAuthRejected BY <3>1, TableColumns DEF Columns
    <3>2. CASE f.kind = UpstreamClientError BY <3>2, TableColumns DEF Columns
    <3>3. CASE f.kind = UpstreamRateLimited BY <1>4, <2>2, <3>3, TableColumns DEF Columns
    <3>4. CASE f.kind = UpstreamServerError BY <1>5, <2>2, <3>4, TableColumns DEF Columns
    <3> QED BY <2>2, <3>1, <3>2, <3>3, <3>4, KernelFact
  <2> QED BY <1>3, <2>1, <2>2
<1>7. PICK b \in G : v.circuit = For(b.kind).circuit BY <1>2 DEF IsVerdict, Highest, Circuits
<1>8. PICK f \in G : v.face = FaceOf(f) BY <1>2 DEF IsVerdict, Adopted
<1>9. /\ v.face.sticky = For(f.kind).sticky /\ v.face.status = For(f.kind).status
      /\ v.face.code = For(f.kind).code BY <1>8 DEF FaceOf, Face
<1>10. For(f.kind).sticky \in BOOLEAN
  <2>1. \A k \in {PayloadRefused, PayloadRepairedRetrySame, KindNone} : For(k).sticky \in BOOLEAN
    BY TableColumns, Zenon DEF Columns
  <2>2. \A k \in {UpstreamAuthRejected, UpstreamRateLimited, UpstreamServerError,
                  UpstreamClientError} : For(k).sticky \in BOOLEAN
    BY TableColumns, Zenon DEF Columns
  <2> QED BY <1>3, <2>1, <2>2, KernelFact
<1>11. For(f.kind).sticky => f.kind \in {PayloadRefused, UpstreamRateLimited}
  <2>1. f.kind \in {PayloadRefused, PayloadRepairedRetrySame, KindNone,
                    UpstreamAuthRejected, UpstreamRateLimited, UpstreamServerError,
                    UpstreamClientError} BY <1>3, KernelFact
  <2> QED BY <2>1, TableColumns DEF Columns
<1>12. For(f.kind).sticky => CallerFacing(v, status, errType).status = status
  <2>1. CASE f.kind = PayloadRefused
    <3>1. v.face.status = StatusFromUpstream
      BY <1>9, <2>1, TableColumns DEF Columns, StatusFromUpstream
    <3> QED BY <3>1, ForwardedStatus
  <2>2. CASE f.kind = UpstreamRateLimited
    <3>1. For(UpstreamRateLimited).code = 429
      <4>1. For(UpstreamRateLimited)
              = Quoted(Attempts(Books(Answers(LoopRotateKey, 429, "rate_limit_error"),
                                      CircuitPenalizeSoft))) BY TableRead
      <4> QED BY <4>1 DEF Quoted, Attempts, Books, Answers, Steers, Zero
    <3>2. v.face.status = StatusFixed /\ v.face.code = 429
      BY <1>9, <2>2, <3>1, TableColumns DEF Columns, StatusFixed
    <3>3. status = 429
      <4>1. f.kind = KindForUpstreamStatus(status)
        BY <1>3, <2>2 DEF PayloadRefused, PayloadRepairedRetrySame, KindNone, UpstreamRateLimited
      <4> QED BY <1>4, <2>2, <4>1
    <3>4. CallerFacing(v, status, errType).status = v.face.code
      <4>1. v.face.status = StatusFixed BY <3>2
      <4> QED BY <4>1, FixedStatus
    <3> QED BY <3>2, <3>3, <3>4
  <2> QED BY <1>11, <2>1, <2>2
<1>13. /\ v.circuit \in {CircuitNone} \cup Penalties
       /\ v.circuit \in Penalties => status = 429 \/ status >= 500
       /\ v.face.sticky \in BOOLEAN
       /\ v.face.sticky => CallerFacing(v, status, errType).status = status
  BY <1>6, <1>7, <1>9, <1>10, <1>12
<1> QED BY <1>13 DEF v
----------------------------------------
(* Blame. *)

\* What is booked against the breaker, and whose doing what was heard is.
BlameInv ==
  /\ booked \in Seq(Nat) /\ Len(booked) <= 1
  /\ pc \in {"sent", "judged"} => booked = <<>>
  /\ pc \in {"sent", "judged"} /\ (heard = Failed \/ heard = 429 \/ heard >= 500)
        => culprit = "upstream"
  /\ pc = "sent" /\ heard = Cancelled => gone
  /\ Range(booked) \intersect Penalties # {} =>
        culprit = "upstream" \/ (culprit = "caller" /\ payload \in NeverAsking)
  /\ CircuitReset \in Range(booked) => pc \notin Chaining /\ heard = 200 /\ answers = 1

\* What the end of a chain will quote.
QuoteInv ==
  /\ pc \in {"entered", "sent", "judged"} => verdict = NoVerdict
  /\ verdict # NoVerdict => last.quotable /\ verdict.status = last.status
  /\ last.quotable /\ left = 0 => verdict # NoVerdict
  /\ pc \in Chaining => reply.by \notin {"verdict", "budget", "chain"}
  /\ AnswerIsOfTheLastAttempt

\* Nothing is heard, and nothing booked, blamed or answered.
Unheard ==
  /\ UNCHANGED <<heard, booked, culprit, payload>> /\ pc' \notin {"sent", "judged"}
  /\ pc \in Chaining \/ (pc' \notin Chaining /\ UNCHANGED answers)

\* A step like that keeps the blame fair.
LEMMA NothingHeard ==
  ASSUME BlameInv, Unheard
  PROVE  BlameInv'
BY DEF BlameInv, Unheard

\* Booking a result keeps the blame fair, if it penalises no one but who is to blame.
LEMMA ResultBooked ==
  ASSUME BlameInv, NEW effect \in Nat, booked = <<>>, Book(effect),
         UNCHANGED <<heard, payload>>, pc' \notin {"sent", "judged"}, effect \in Penalties =>
            culprit' = "upstream" \/ (culprit' = "caller" /\ payload \in NeverAsking),
         effect = CircuitReset => pc' \notin Chaining /\ heard = 200 /\ answers' = 1
  PROVE  BlameInv'
<1>1. CASE effect = CircuitNone
  <2>1. booked' = <<>> BY <1>1 DEF Book
  <2>2. Range(booked') = {} BY <2>1, RangeOfOne
  <2> QED BY <2>1, <2>2 DEF BlameInv
<1>2. CASE effect # CircuitNone
  <2>1. booked' = <<effect>> BY <1>2 DEF Book
  <2>2. Range(booked') = {effect} BY <2>1, RangeOfOne
  <2>3. booked' \in Seq(Nat) /\ Len(booked') = 1 BY <2>1
  <2> QED BY <2>2, <2>3 DEF BlameInv
<1> QED BY <1>1, <1>2

\* The verdict acted on, booked.
LEMMA VerdictBooked ==
  ASSUME ShapeInv, JudgedInv, BlameInv, NEW route, ActOn(route), pc' \notin {"sent", "judged"}
  PROVE  BlameInv'
<1> DEFINE effect == judged.folded.circuit
<1>1. /\ pc = "judged" /\ UNCHANGED <<heard, payload, culprit>> /\ Book(effect) BY DEF ActOn
<1>2. told \subseteq Reports(heard) /\ judged.folded = VerdictOf(told) BY <1>1 DEF JudgedInv
<1>3. /\ effect \in {CircuitNone} \cup Penalties
      /\ effect \in Penalties => heard = 429 \/ heard >= 500
  <2>1. LET v == VerdictOf(told) IN
        /\ v.circuit \in {CircuitNone} \cup Penalties
        /\ v.circuit \in Penalties => heard = 429 \/ heard >= 500
    <3>1. told \subseteq Reports(heard) BY <1>2
    <3> QED BY <3>1, VerdictOfReports
  <2> QED BY <1>2, <2>1
<1>4. booked = <<>> BY <1>1 DEF BlameInv
<1>5. effect \in Nat /\ effect # CircuitReset
  BY <1>3 DEF Penalties, CircuitNone, CircuitPenalizeSoft, CircuitPenalize, CircuitReset
<1>6. effect \in Penalties => culprit' = "upstream" BY <1>1, <1>3 DEF BlameInv
<1> HIDE DEF effect
<1> QED BY <1>1, <1>4, <1>5, <1>6, ResultBooked

\* A step keeps a verdict its facts'.
LEMMA JudgedStep ==
  ASSUME ShapeInv, JudgedInv, [Next]_vars
  PROVE  JudgedInv'
<1>1. CASE Judge
  <2>1. /\ heard \in Statuses \ {200} /\ UNCHANGED heard
        /\ \E batch \in Batches, offer \in {"none", "repaired", "undone"} :
              LET offered == IF offer = "none" THEN <<>> ELSE <<Offered>>
                  observed == Combine(ResolveBatch(batch), ResolveBatch(offered))
                  d == FoldUpstreamDecision(observed, heard, offer = "repaired") IN
              /\ judged' = d
              /\ told' = Range(batch) \union Range(offered)
                         \union (IF d.baseline THEN {KernelUpstreamFact(heard)} ELSE {})
    BY <1>1 DEF Judge
  <2>2. PICK batch \in Batches, offer \in {"none", "repaired", "undone"} :
              LET offered == IF offer = "none" THEN <<>> ELSE <<Offered>>
                  observed == Combine(ResolveBatch(batch), ResolveBatch(offered))
                  d == FoldUpstreamDecision(observed, heard, offer = "repaired") IN
              /\ judged' = d
              /\ told' = Range(batch) \union Range(offered)
                         \union (IF d.baseline THEN {KernelUpstreamFact(heard)} ELSE {}) BY <2>1
  <2> DEFINE offered == IF offer = "none" THEN <<>> ELSE <<Offered>>
             observed == Combine(ResolveBatch(batch), ResolveBatch(offered))
             own == KernelUpstreamFact(heard)
             seen == Range(batch) \cup Range(offered)
             d == FoldUpstreamDecision(observed, heard, offer = "repaired")
  <2>3. judged' = d /\ told' = seen \cup (IF d.baseline THEN {own} ELSE {}) BY <2>2
  <2>4. offered \in {<<>>, <<Offered>>} OBVIOUS
  <2> HIDE DEF offered
  <2>5. /\ seen \subseteq Refusals \cup {Offered}
        /\ observed = VerdictOf(seen)
        /\ Combine(observed, ResolveBatch(<<own>>)) = VerdictOf(seen \cup {own})
    BY <2>4, JudgeFolds
  <2>6. d.folded = IF d.baseline THEN Combine(observed, ResolveBatch(<<own>>)) ELSE observed
    BY DEF FoldUpstreamDecision
  <2> HIDE DEF d, observed, seen, own
  <2>7. judged'.folded = VerdictOf(told') BY <2>3, <2>5, <2>6
  <2>8. told' \subseteq Refusals \cup {Offered} \cup {own} BY <2>3, <2>5
  <2>9. told' \subseteq Reports(heard) BY <2>8 DEF Reports, own
  <2> QED BY <2>1, <2>7, <2>9 DEF JudgedInv
<1>2. CASE HangUp \/ Expire \/ UNCHANGED vars BY <1>2 DEF JudgedInv, HangUp, Expire, vars, wire
<1>3. CASE pc' # "judged" BY <1>3 DEF JudgedInv
<1>4. Next => Judge \/ HangUp \/ Expire \/ pc' # "judged"
  <2> SUFFICES ASSUME Next PROVE Judge \/ HangUp \/ Expire \/ pc' # "judged" OBVIOUS
  <2>1. CASE CheckKey BY <2>1 DEF CheckKey, RejectRequest, Write, Settle
  <2>2. CASE AskOnArrival BY <2>2 DEF AskOnArrival, Ask, RejectRequest, Write, Settle
  <2>3. CASE AdmitOnArrival BY <2>3 DEF AdmitOnArrival, Admit
  <2>4. CASE AdmitSubCall BY <2>4 DEF AdmitSubCall
  <2>5. CASE Check BY <2>5 DEF Check, RejectRequest, AbandonRequest, Write, Settle
  <2>6. CASE AskWhenPriced BY <2>6 DEF AskWhenPriced, Ask, RejectRequest, Write, Settle
  <2>7. CASE AdmitWhenPriced BY <2>7 DEF AdmitWhenPriced, Admit
  <2>8. CASE EnterCandidate BY <2>8 DEF EnterCandidate, ClearVerdict
  <2>9. CASE ChainEnds BY <2>9 DEF ChainEnds
  <2>10. CASE SkipCandidate BY <2>10 DEF SkipCandidate
  <2>11. CASE LoseCaller BY <2>11 DEF LoseCaller, AbandonRequest, Settle
  <2>12. CASE WalkKeys BY <2>12 DEF WalkKeys
  <2>13. CASE StopWalking BY <2>13 DEF StopWalking, LeaveCandidate, ProbesLeaving
  <2>14. CASE EnterKey BY <2>14 DEF EnterKey, ClearVerdict
  <2>15. CASE Unsent BY <2>15 DEF Unsent, LeaveCandidate, ProbesLeaving
  <2>16. CASE Dispatch BY <2>16 DEF Dispatch
  <2>17. CASE TransportFails BY <2>17 DEF TransportFails, AbandonRequest, Settle,
    LeaveCandidate, ProbesLeaving, Book
  <2>18. CASE RetrySame BY <2>18 DEF RetrySame, ActOn, Book
  <2>19. CASE RotateKey BY <2>19 DEF RotateKey, ActOn, Book, HoldVerdict
  <2>20. CASE FailOver BY <2>20 DEF FailOver, ActOn, Book, HoldVerdict, LeaveCandidate,
    ProbesLeaving
  <2>21. CASE Terminate BY <2>21 DEF Terminate, ActOn, Book, HoldVerdict, Write, Settle
  <2>22. CASE Deliver BY <2>22 DEF Deliver, Book, Settle, LeaveCandidate, ProbesLeaving
  <2>23. CASE AllCandidatesFailed BY <2>23 DEF AllCandidatesFailed, RejectRequest, Write, Settle
  <2>24. CASE FinalizeInHandler BY <2>24 DEF FinalizeInHandler, Finalize
  <2>25. CASE FinalizeConcluding BY <2>25 DEF FinalizeConcluding, Finalize
  <2>26. CASE Conclude BY <2>26 DEF Conclude
  <2>27. CASE Release BY <2>27 DEF Release
  <2>28. CASE Record BY <2>28 DEF Record
  <2>29. CASE Panic BY <2>29 DEF Panic
  <2>30. CASE Hear BY <2>30 DEF Hear
  <2> QED BY <2>1, <2>2, <2>3, <2>4, <2>5, <2>6, <2>7, <2>8, <2>9, <2>10, <2>11, <2>12,
       <2>13, <2>14, <2>15, <2>16, <2>17, <2>18, <2>19, <2>20, <2>21, <2>22, <2>23,
       <2>24, <2>25, <2>26, <2>27, <2>28, <2>29, <2>30 DEF Next
<1> QED BY <1>1, <1>2, <1>3, <1>4

\* A step keeps the blame fair.
LEMMA BlameStep ==
  ASSUME ShapeInv, SettleInv, JudgedInv, BlameInv, [Next]_vars
  PROVE  BlameInv'
<1> USE DEF environment, admission, walk, ledger, attempt, wire, caller, settlement
<1>1. CASE CheckKey
  <2>1. Unheard BY <1>1 DEF Unheard, Chaining, CheckKey, RejectRequest, Write, Settle
  <2> QED BY <2>1, NothingHeard
<1>2. CASE AskOnArrival
  <2>1. Unheard BY <1>2 DEF Unheard, Chaining, AskOnArrival, Ask, RejectRequest, Write, Settle
  <2> QED BY <2>1, NothingHeard
<1>3. CASE AdmitOnArrival
  <2>1. Unheard BY <1>3 DEF Unheard, Chaining, AdmitOnArrival, Admit
  <2> QED BY <2>1, NothingHeard
<1>4. CASE AdmitSubCall
  <2>1. Unheard BY <1>4 DEF Unheard, Chaining, AdmitSubCall
  <2> QED BY <2>1, NothingHeard
<1>5. CASE Check
  <2>1. Unheard BY <1>5 DEF Unheard, Chaining, Check, RejectRequest, AbandonRequest, Write, Settle
  <2> QED BY <2>1, NothingHeard
<1>6. CASE AskWhenPriced
  <2>1. Unheard BY <1>6 DEF Unheard, Chaining, AskWhenPriced, Ask, RejectRequest, Write, Settle
  <2> QED BY <2>1, NothingHeard
<1>7. CASE AdmitWhenPriced
  <2>1. Unheard BY <1>7 DEF Unheard, Chaining, AdmitWhenPriced, Admit
  <2> QED BY <2>1, NothingHeard
<1>8. CASE EnterCandidate
  <2>1. Unheard BY <1>8 DEF Unheard, Chaining, EnterCandidate, ClearVerdict
  <2> QED BY <2>1, NothingHeard
<1>9. CASE ChainEnds
  <2>1. Unheard BY <1>9 DEF Unheard, Chaining, ChainEnds
  <2> QED BY <2>1, NothingHeard
<1>10. CASE SkipCandidate
  <2>1. Unheard BY <1>10 DEF Unheard, Chaining, SkipCandidate
  <2> QED BY <2>1, NothingHeard
<1>11. CASE LoseCaller
  <2>1. Unheard BY <1>11 DEF Unheard, Chaining, LoseCaller, AbandonRequest, Settle
  <2> QED BY <2>1, NothingHeard
<1>12. CASE WalkKeys
  <2>1. Unheard BY <1>12 DEF Unheard, Chaining, WalkKeys
  <2> QED BY <2>1, NothingHeard
<1>13. CASE StopWalking
  <2>1. Unheard BY <1>13 DEF Unheard, Chaining, StopWalking, LeaveCandidate, ProbesLeaving
  <2> QED BY <2>1, NothingHeard
<1>14. CASE EnterKey
  <2>1. Unheard BY <1>14 DEF Unheard, Chaining, EnterKey, ClearVerdict
  <2> QED BY <2>1, NothingHeard
<1>15. CASE Unsent
  <2>1. Unheard BY <1>15 DEF Unheard, Chaining, Unsent, LeaveCandidate, ProbesLeaving
  <2> QED BY <2>1, NothingHeard
<1>16. CASE Dispatch
  <2>1. /\ pc = "entered" /\ pc' = "sent" /\ booked' = <<>> /\ UNCHANGED gone
        /\ heard' = (IF gone THEN Cancelled ELSE Waiting) BY <1>16 DEF Dispatch
  <2>2. Range(booked') = {} /\ booked' \in Seq(Nat) /\ Len(booked') = 0
    <3>1. Range(<<>>) = {} BY RangeOfOne
    <3> QED BY <2>1, <3>1
  <2>3. ~(heard' = Failed \/ heard' = 429 \/ heard' >= 500) BY <2>1 DEF Cancelled, Waiting, Failed
  <2>4. heard' = Cancelled => gone' BY <2>1 DEF Cancelled, Waiting
  <2> QED BY <2>1, <2>2, <2>3, <2>4 DEF BlameInv
<1>17. CASE Hear
  <2>1. /\ pc = "sent" /\ pc' = "sent" /\ UNCHANGED <<gone, booked, payload, answers>>
        /\ heard' \in Statuses \cup {Failed} \cup (IF gone THEN {Cancelled} ELSE {})
        /\ culprit' = IF heard' = Cancelled THEN "caller"
                      ELSE IF heard' = Failed \/ heard' = 429 \/ heard' >= 500
                      THEN "upstream" ELSE "nobody" BY <1>17 DEF Hear
  <2>2. booked = <<>> /\ Range(booked) = {} BY <2>1, RangeOfOne DEF BlameInv
  <2>3. heard' = Cancelled => gone BY <2>1, StatusAssumption DEF Cancelled, Failed
  <2>4. heard' = Cancelled => ~(heard' = Failed \/ heard' = 429 \/ heard' >= 500)
    BY DEF Cancelled, Failed
  <2> QED BY <2>1, <2>2, <2>3, <2>4 DEF BlameInv, Chaining
<1>18. CASE TransportFails
  <2>1. /\ pc = "sent" /\ heard \in {Failed, Cancelled}
        /\ UNCHANGED <<heard, culprit, payload>> BY <1>18 DEF TransportFails
  <2>2. CASE gone /\ AbandonRequest /\ UNCHANGED booked
    <3>1. pc' = "settle" BY <2>2 DEF AbandonRequest, Settle
    <3>2. Unheard BY <2>1, <2>2, <3>1 DEF Unheard, Chaining
    <3> QED BY <3>2, NothingHeard
  <2>3. CASE /\ ~gone /\ LeaveCandidate(attempts + 1)
             /\ Book(For(UpstreamTransportFailure).circuit)
    <3>1. For(UpstreamTransportFailure).circuit = 3 BY TableColumns DEF Columns
    <3>2. Book(3) BY <2>3, <3>1
    <3>3. pc' = "chain" BY <2>3 DEF LeaveCandidate
    <3>4. heard = Failed /\ culprit = "upstream" /\ booked = <<>> BY <2>1, <2>3 DEF BlameInv
    <3>5. 3 # CircuitReset /\ 3 \in Nat BY DEF CircuitReset
    <3> QED BY <2>1, <3>2, <3>3, <3>4, <3>5, ResultBooked
  <2> QED BY <1>18, <2>2, <2>3 DEF TransportFails
<1>19. CASE Judge
  <2>1. /\ pc = "sent" /\ pc' = "judged" /\ heard \in Statuses \ {200}
        /\ UNCHANGED <<gone, heard, booked, culprit, payload, answers>> BY <1>19 DEF Judge
  <2> QED BY <2>1 DEF BlameInv, Chaining
<1>20. CASE RetrySame
  <2>1. ActOn("retry") /\ pc' \notin {"sent", "judged"} BY <1>20 DEF RetrySame
  <2> QED BY <2>1, VerdictBooked
<1>21. CASE RotateKey
  <2>1. ActOn("rotate") /\ pc' \notin {"sent", "judged"} BY <1>21 DEF RotateKey
  <2> QED BY <2>1, VerdictBooked
<1>22. CASE FailOver
  <2>1. ActOn("next") /\ pc' \notin {"sent", "judged"} BY <1>22 DEF FailOver, LeaveCandidate
  <2> QED BY <2>1, VerdictBooked
<1>23. CASE Terminate
  <2>1. ActOn("terminal") /\ pc' \notin {"sent", "judged"} BY <1>23 DEF Terminate, Settle
  <2> QED BY <2>1, VerdictBooked
<1>24. CASE Deliver
  <2>1. /\ pc = "sent" /\ heard = 200 /\ UNCHANGED <<heard, payload>> BY <1>24 DEF Deliver
  <2>2. PICK end \in Ends(payload, gone) :
          LET d == Upshot(end)
              apology == d.failReason = "invalid_delivery" /\ end.served = 0 IN
          /\ culprit' = end.culprit
          /\ Book(DeliveryEffect(d))
          /\ answers' = answers + (IF end.served # 0 \/ apology THEN 1 ELSE 0)
          /\ IF d.verdict = "settled" THEN \E usage \in BOOLEAN : Settle(d, usage)
             ELSE LeaveCandidate(attempts + 1) BY <1>24 DEF Deliver, Upshot
  <2> DEFINE d == Upshot(end)
             effect == DeliveryEffect(d)
  <2>3. EndIsFair(end, payload, gone) BY EndsAreFair DEF ShapeInv
  <2>4. /\ effect = CircuitReset => d.verdict = "settled" /\ end.served # 0
        /\ effect \in Penalties =>
              end.culprit = "upstream" \/ (end.culprit = "caller" /\ payload \in NeverAsking)
    BY <2>3 DEF EndIsFair
  <2>5. effect \in Nat
    BY DEF DeliveryEffect, CircuitNone, CircuitReset, CircuitPenalize, CircuitPenalizeSoft
  <2>6. /\ culprit' = end.culprit /\ Book(effect)
        /\ end.served # 0 => answers' = answers + 1
        /\ d.verdict = "settled" => \E usage \in BOOLEAN : Settle(d, usage)
        /\ d.verdict # "settled" => LeaveCandidate(attempts + 1) BY <2>2
  <2> HIDE DEF effect, d
  <2>7. answers = 0 /\ booked = <<>> BY <2>1 DEF SettleInv, BlameInv, Chaining
  <2>8. /\ d.verdict = "settled" => pc' = "settle"
        /\ d.verdict # "settled" => pc' = "chain" BY <2>6 DEF Settle, LeaveCandidate
  <2>9. pc' \notin {"sent", "judged"} BY <2>8
  <2>10. effect = CircuitReset => pc' \notin Chaining /\ heard = 200 /\ answers' = 1
    BY <2>1, <2>4, <2>6, <2>7, <2>8 DEF Chaining
  <2>11. effect \in Penalties =>
           culprit' = "upstream" \/ (culprit' = "caller" /\ payload \in NeverAsking) BY <2>4, <2>6
  <2> QED BY <2>1, <2>5, <2>6, <2>7, <2>9, <2>10, <2>11, ResultBooked
<1>25. CASE AllCandidatesFailed
  <2>1. Unheard BY <1>25 DEF Unheard, Chaining, AllCandidatesFailed, RejectRequest, Write, Settle
  <2> QED BY <2>1, NothingHeard
<1>26. CASE FinalizeInHandler
  <2>1. Unheard BY <1>26 DEF Unheard, Chaining, FinalizeInHandler, Finalize
  <2> QED BY <2>1, NothingHeard
<1>27. CASE FinalizeConcluding
  <2>1. Unheard BY <1>27 DEF Unheard, Chaining, FinalizeConcluding, Finalize
  <2> QED BY <2>1, NothingHeard
<1>28. CASE Conclude
  <2>1. Unheard BY <1>28 DEF Unheard, Chaining, Conclude
  <2> QED BY <2>1, NothingHeard
<1>29. CASE Release
  <2>1. Unheard BY <1>29 DEF Unheard, Chaining, Release
  <2> QED BY <2>1, NothingHeard
<1>30. CASE Record
  <2>1. Unheard BY <1>30 DEF Unheard, Chaining, Record
  <2> QED BY <2>1, NothingHeard
<1>31. CASE HangUp BY <1>31 DEF HangUp, Handling, BlameInv, Chaining
<1>32. CASE Expire BY <1>32 DEF Expire, Handling, BlameInv, Chaining
<1>33. CASE Panic
  <2>1. Unheard BY <1>33 DEF Unheard, Chaining, Panic
  <2> QED BY <2>1, NothingHeard
<1>34. CASE UNCHANGED vars BY <1>34 DEF vars, BlameInv
<1> QED BY <1>1, <1>2, <1>3, <1>4, <1>5, <1>6, <1>7, <1>8, <1>9, <1>10, <1>11, <1>12,
     <1>13, <1>14, <1>15, <1>16, <1>17, <1>18, <1>19, <1>20, <1>21, <1>22, <1>23, <1>24,
     <1>25, <1>26, <1>27, <1>28, <1>29, <1>30, <1>31, <1>32, <1>33, <1>34 DEF Next
----------------------------------------
(* What is quoted. *)

\* The replies that quote a chain's end.
Quoting == {"verdict", "budget", "chain"}

\* Nothing is quoted yet; what was quoted stays.
LEMMA NothingQuoted ==
  ASSUME QuoteInv, pc \in Chaining, UNCHANGED attempt, left' = left \/ left' > 0,
         left' \in Nat,
         pc' \in {"entered", "sent", "judged"} => pc \in {"entered", "sent", "judged"},
         reply' = reply \/ reply'.by \notin Quoting
  PROVE  QuoteInv'
BY DEF QuoteInv, Quoting, AnswerIsOfTheLastAttempt, attempt

\* On the way, with nothing attempted and nothing said.
Unsaid ==
  /\ pc \in Chaining /\ UNCHANGED <<attempt, left, reply>>
  /\ pc' \in {"entered", "sent", "judged"} => pc \in {"entered", "sent", "judged"}

LEMMA NothingSaid ==
  ASSUME ShapeInv, QuoteInv, Unsaid
  PROVE  QuoteInv'
<1>1. left' \in Nat BY DEF Unsaid, ShapeInv
<1> QED BY <1>1, NothingQuoted DEF Unsaid

\* Once the chain is left, what was quoted stays.
LEMMA AfterTheQuote ==
  ASSUME QuoteInv, pc \notin Chaining, pc' \notin Chaining, UNCHANGED <<attempt, left, reply>>
  PROVE  QuoteInv'
BY DEF QuoteInv, Chaining, AnswerIsOfTheLastAttempt, attempt

\* What a rejection replies.
LEMMA RejectionReplies ==
  ASSUME NEW by, NEW status, NEW at, RejectRequest(by, status, at)
  PROVE  reply'.by = by /\ reply'.status = status
<1>1. reply' = [by |-> by, status |-> status] BY DEF RejectRequest, Write
<1> QED BY <1>1

\* What is held of a verdict acted on is what was heard.
LEMMA VerdictHeld ==
  ASSUME ShapeInv, JudgedInv, QuoteInv, NEW route, ActOn(route), HoldVerdict
  PROVE  /\ pc = "judged" /\ left' = left
         /\ verdict' # NoVerdict => last'.quotable /\ verdict'.status = last'.status
         /\ last'.quotable => verdict' # NoVerdict
<1>1. pc = "judged" /\ left' = left BY DEF ActOn
<1>2. told \subseteq Reports(heard) /\ judged.folded = VerdictOf(told) BY <1>1 DEF JudgedInv
<1>3. judged.folded.face.sticky => Shown = heard
  <2>1. told \subseteq Reports(heard) BY <1>2
  <2>2. \A e : LET v == VerdictOf(told) IN
                 v.face.sticky => CallerFacing(v, heard, e).status = heard
    BY <2>1, VerdictOfReports
  <2> QED BY <1>2, <2>2 DEF Shown
<1>4. verdict = NoVerdict BY <1>1 DEF QuoteInv
<1>5. /\ Quotable => verdict' = [status |-> Shown, from |-> judged.folded.face.statusFrom]
      /\ ~Quotable => verdict' = NoVerdict
      /\ last' = [status |-> heard, quotable |-> Quotable] BY <1>4 DEF HoldVerdict
<1>6. last'.status = heard /\ (last'.quotable <=> Quotable) BY <1>5
<1>7. CASE Quotable
  <2>1. Shown = heard /\ Shown # 0 BY <1>3, <1>7 DEF Quotable
  <2>2. verdict'.status = Shown BY <1>5, <1>7
  <2>3. NoVerdict.status = 0 BY DEF NoVerdict
  <2>4. verdict' # NoVerdict BY <2>1, <2>2, <2>3
  <2> QED BY <1>1, <1>6, <1>7, <2>1, <2>2, <2>4
<1>8. CASE ~Quotable BY <1>1, <1>5, <1>6, <1>8
<1> QED BY <1>7, <1>8

\* Holding it keeps what will be quoted the last attempt's.
LEMMA HeldVerdictKept ==
  ASSUME ShapeInv, JudgedInv, QuoteInv, NEW route, ActOn(route), HoldVerdict,
         pc' \notin {"entered", "sent", "judged"}, reply' = reply \/ reply'.by \notin Quoting
  PROVE  QuoteInv'
<1>1. /\ pc = "judged" /\ left' = left
      /\ verdict' # NoVerdict => last'.quotable /\ verdict'.status = last'.status
      /\ last'.quotable => verdict' # NoVerdict BY VerdictHeld
<1>2. reply'.by \notin Quoting BY <1>1 DEF QuoteInv, Chaining, Quoting
<1> QED BY <1>1, <1>2 DEF QuoteInv, Quoting, AnswerIsOfTheLastAttempt

\* A step keeps what is quoted the last attempt's.
LEMMA QuoteStep ==
  ASSUME ShapeInv, SettleInv, JudgedInv, QuoteInv, [Next]_vars
  PROVE  QuoteInv'
<1> USE DEF environment, admission, walk, ledger, attempt, wire, caller, settlement
<1>1. CASE CheckKey
  <2>1. /\ pc \in Chaining /\ UNCHANGED <<attempt, left>>
        /\ pc' \notin {"entered", "sent", "judged"}
    BY <1>1 DEF Chaining, CheckKey, RejectRequest, Write, Settle
  <2>2. reply' = reply \/ reply'.by \in {"checks", "admission"}
    BY <1>1 DEF CheckKey, RejectRequest, Write, Settle
  <2>3. left' \in Nat BY <2>1 DEF ShapeInv
  <2> QED BY <2>1, <2>2, <2>3, NothingQuoted DEF Quoting
<1>2. CASE AskOnArrival
  <2>1. /\ pc \in Chaining /\ UNCHANGED <<attempt, left>>
        /\ pc' \notin {"entered", "sent", "judged"}
    BY <1>2 DEF Chaining, AskOnArrival, Ask, RejectRequest, Write, Settle
  <2>2. reply' = reply \/ reply'.by \in {"checks", "admission"}
    BY <1>2 DEF AskOnArrival, Ask, RejectRequest, Write, Settle
  <2>3. left' \in Nat BY <2>1 DEF ShapeInv
  <2> QED BY <2>1, <2>2, <2>3, NothingQuoted DEF Quoting
<1>3. CASE AdmitOnArrival
  <2>1. Unsaid BY <1>3 DEF Unsaid, Chaining, AdmitOnArrival, Admit
  <2> QED BY <2>1, NothingSaid
<1>4. CASE AdmitSubCall
  <2>1. Unsaid BY <1>4 DEF Unsaid, Chaining, AdmitSubCall
  <2> QED BY <2>1, NothingSaid
<1>5. CASE Check
  <2>1. /\ pc \in Chaining /\ UNCHANGED attempt /\ pc' \notin {"entered", "sent", "judged"}
    BY <1>5 DEF Chaining, Check, RejectRequest, AbandonRequest, Write, Settle
  <2>2. reply' = reply \/ reply'.by = "checks"
    <3>1. \/ UNCHANGED caller \/ \E status, at : RejectRequest("checks", status, at)
      <4>1. \/ UNCHANGED <<caller, settlement>> \/ AbandonRequest
            \/ \E status \in {400, 403, 404, 413} : RejectRequest("checks", status, "client")
            \/ \E status \in {500, 503} : RejectRequest("checks", status, "gateway")
        BY <1>5, Zenon DEF Check
      <4>2. UNCHANGED <<caller, settlement>> => UNCHANGED caller OBVIOUS
      <4>3. AbandonRequest => UNCHANGED caller BY DEF AbandonRequest
      <4>4. (\E status \in {400, 403, 404, 413} : RejectRequest("checks", status, "client"))
              => \E status, at : RejectRequest("checks", status, at) OBVIOUS
      <4>5. (\E status \in {500, 503} : RejectRequest("checks", status, "gateway"))
              => \E status, at : RejectRequest("checks", status, at) OBVIOUS
      <4> QED BY <4>1, <4>2, <4>3, <4>4, <4>5
    <3>2. UNCHANGED caller => UNCHANGED reply BY DEF caller
    <3> QED BY <3>1, RejectionReplies
  <2>3. left' = left \/ left' \in 1 .. MaxCandidates BY <1>5 DEF Check
  <2>4. left' \in Nat /\ (left' = left \/ left' > 0) BY <2>3, BudgetAssumption DEF ShapeInv
  <2> QED BY <2>1, <2>2, <2>4, NothingQuoted DEF Quoting
<1>6. CASE AskWhenPriced
  <2>1. /\ pc \in Chaining /\ UNCHANGED <<attempt, left>>
        /\ pc' \notin {"entered", "sent", "judged"}
    BY <1>6 DEF Chaining, AskWhenPriced, Ask, RejectRequest, Write, Settle
  <2>2. reply' = reply \/ reply'.by \in {"checks", "admission"}
    BY <1>6 DEF AskWhenPriced, Ask, RejectRequest, Write, Settle
  <2>3. left' \in Nat BY <2>1 DEF ShapeInv
  <2> QED BY <2>1, <2>2, <2>3, NothingQuoted DEF Quoting
<1>7. CASE AdmitWhenPriced
  <2>1. Unsaid BY <1>7 DEF Unsaid, Chaining, AdmitWhenPriced, Admit
  <2> QED BY <2>1, NothingSaid
<1>8. CASE EnterCandidate
  <2>1. /\ pc = "chain" /\ left > 0 /\ verdict' = NoVerdict /\ UNCHANGED reply
        /\ pc' \in {"failed", "begun"} BY <1>8 DEF EnterCandidate, ClearVerdict
  <2>2. UNCHANGED left \/ last' = NoAttempt BY <1>8 DEF EnterCandidate
  <2>3. ~NoAttempt.quotable BY DEF NoAttempt
  <2>4. ~last'.quotable \/ left' # 0 BY <2>1, <2>2, <2>3 DEF ShapeInv
  <2>5. reply.by \notin {"verdict", "budget", "chain"} BY <2>1 DEF QuoteInv, Chaining
  <2> QED BY <2>1, <2>4, <2>5 DEF QuoteInv, AnswerIsOfTheLastAttempt
<1>9. CASE ChainEnds
  <2>1. Unsaid BY <1>9 DEF Unsaid, Chaining, ChainEnds
  <2> QED BY <2>1, NothingSaid
<1>10. CASE SkipCandidate
  <2>1. Unsaid BY <1>10 DEF Unsaid, Chaining, SkipCandidate
  <2> QED BY <2>1, NothingSaid
<1>11. CASE LoseCaller
  <2>1. Unsaid BY <1>11 DEF Unsaid, Chaining, LoseCaller, AbandonRequest, Settle
  <2> QED BY <2>1, NothingSaid
<1>12. CASE WalkKeys
  <2>1. Unsaid BY <1>12 DEF Unsaid, Chaining, WalkKeys
  <2> QED BY <2>1, NothingSaid
<1>13. CASE StopWalking
  <2>1. Unsaid BY <1>13 DEF Unsaid, Chaining, StopWalking, LeaveCandidate, ProbesLeaving
  <2> QED BY <2>1, NothingSaid
<1>14. CASE EnterKey
  <2>1. /\ pc = "keys" /\ verdict' = NoVerdict /\ last' = NoAttempt /\ UNCHANGED reply
    BY <1>14 DEF EnterKey, ClearVerdict
  <2>2. ~NoAttempt.quotable BY DEF NoAttempt
  <2>3. reply.by \notin {"verdict", "budget", "chain"} BY <2>1 DEF QuoteInv, Chaining
  <2> QED BY <2>1, <2>2, <2>3 DEF QuoteInv, AnswerIsOfTheLastAttempt
<1>15. CASE Unsent
  <2>1. Unsaid BY <1>15 DEF Unsaid, Chaining, Unsent, LeaveCandidate, ProbesLeaving
  <2> QED BY <2>1, NothingSaid
<1>16. CASE Dispatch
  <2>1. Unsaid BY <1>16 DEF Unsaid, Chaining, Dispatch
  <2> QED BY <2>1, NothingSaid
<1>17. CASE Hear
  <2>1. Unsaid BY <1>17 DEF Unsaid, Chaining, Hear
  <2> QED BY <2>1, NothingSaid
<1>18. CASE TransportFails
  <2>1. Unsaid BY <1>18 DEF Unsaid, Chaining, TransportFails, AbandonRequest, Settle, LeaveCandidate, ProbesLeaving, Book
  <2> QED BY <2>1, NothingSaid
<1>19. CASE Judge
  <2>1. Unsaid BY <1>19 DEF Unsaid, Chaining, Judge
  <2> QED BY <2>1, NothingSaid
<1>20. CASE RetrySame
  <2>1. /\ pc = "judged" /\ pc' = "keys" /\ UNCHANGED <<attempt, left, reply>>
    BY <1>20 DEF RetrySame, ActOn
  <2>2. left' \in Nat BY <2>1 DEF ShapeInv
  <2> QED BY <2>1, <2>2, NothingQuoted DEF Chaining
<1>21. CASE RotateKey
  <2>1. /\ ActOn("rotate") /\ HoldVerdict /\ UNCHANGED reply
        /\ pc' \notin {"entered", "sent", "judged"} BY <1>21 DEF RotateKey, LeaveCandidate
  <2> QED BY <2>1, HeldVerdictKept
<1>22. CASE FailOver
  <2>1. /\ ActOn("next") /\ HoldVerdict /\ UNCHANGED reply
        /\ pc' \notin {"entered", "sent", "judged"} BY <1>22 DEF FailOver, LeaveCandidate
  <2> QED BY <2>1, HeldVerdictKept
<1>23. CASE Terminate
  <2>1. ActOn("terminal") /\ HoldVerdict /\ pc' = "settle" BY <1>23 DEF Terminate, Settle
  <2>2. reply' = reply \/ reply'.by = "upstream" BY <1>23 DEF Terminate, Write
  <2> QED BY <2>1, <2>2, HeldVerdictKept DEF Quoting
<1>24. CASE Deliver
  <2>1. /\ pc = "sent" /\ UNCHANGED <<attempt, left>> BY <1>24 DEF Deliver
  <2>2. reply' = reply \/ reply'.by = "kernel" BY <1>24 DEF Deliver
  <2>3. left' \in Nat BY <2>1 DEF ShapeInv
  <2> QED BY <2>1, <2>2, <2>3, NothingQuoted DEF Quoting, Chaining
<1>25. CASE AllCandidatesFailed
  <2>1. /\ pc = "failed" /\ pc' = "settle" /\ UNCHANGED <<attempt, left>>
    BY <1>25 DEF AllCandidatesFailed, RejectRequest, Settle
  <2>2. answers = 0 BY <2>1 DEF SettleInv, Chaining
  <2>3. CASE verdict # NoVerdict
    <3>0. RejectRequest("verdict", verdict.status, "upstream")
      BY <1>25, <2>2, <2>3 DEF AllCandidatesFailed
    <3>1. reply'.by = "verdict" /\ reply'.status = verdict.status BY <3>0, RejectionReplies
    <3> QED BY <2>1, <2>3, <3>1 DEF QuoteInv, AnswerIsOfTheLastAttempt, Chaining
  <2>4. CASE verdict = NoVerdict
    <3>0. \E status : \/ RejectRequest("budget", status, "upstream")
                      \/ RejectRequest("chain", status, "upstream")
      BY <1>25, <2>2, <2>4 DEF AllCandidatesFailed
    <3>1. reply'.by \in {"budget", "chain"} BY <3>0, RejectionReplies
    <3> QED BY <2>1, <2>4, <3>1 DEF QuoteInv, AnswerIsOfTheLastAttempt, Chaining
  <2> QED BY <2>3, <2>4
<1>26. CASE FinalizeInHandler
  <2>1. /\ pc \notin Chaining /\ pc' \notin Chaining /\ UNCHANGED <<attempt, left, reply>>
    BY <1>26 DEF Chaining, FinalizeInHandler, Finalize
  <2> QED BY <2>1, AfterTheQuote
<1>27. CASE FinalizeConcluding
  <2>1. /\ pc \notin Chaining /\ pc' \notin Chaining /\ UNCHANGED <<attempt, left, reply>>
    BY <1>27 DEF Chaining, FinalizeConcluding, Finalize
  <2> QED BY <2>1, AfterTheQuote
<1>28. CASE Conclude
  <2>1. /\ pc \notin Chaining /\ pc' \notin Chaining /\ UNCHANGED <<attempt, left, reply>>
    BY <1>28 DEF Chaining, Conclude
  <2> QED BY <2>1, AfterTheQuote
<1>29. CASE Release
  <2>1. /\ pc \notin Chaining /\ pc' \notin Chaining /\ UNCHANGED <<attempt, left, reply>>
    BY <1>29 DEF Chaining, Release
  <2> QED BY <2>1, AfterTheQuote
<1>30. CASE Record
  <2>1. /\ pc \notin Chaining /\ pc' \notin Chaining /\ UNCHANGED <<attempt, left, reply>>
    BY <1>30 DEF Chaining, Record
  <2> QED BY <2>1, AfterTheQuote
<1>31. CASE HangUp BY <1>31 DEF HangUp, Handling, QuoteInv, AnswerIsOfTheLastAttempt, Chaining
<1>32. CASE Expire BY <1>32 DEF Expire, Handling, QuoteInv, AnswerIsOfTheLastAttempt, Chaining
<1>33. CASE Panic
  <2>1. Unsaid BY <1>33 DEF Unsaid, Chaining, Panic
  <2> QED BY <2>1, NothingSaid
<1>34. CASE UNCHANGED vars BY <1>34 DEF vars, QuoteInv, AnswerIsOfTheLastAttempt
<1> QED BY <1>1, <1>2, <1>3, <1>4, <1>5, <1>6, <1>7, <1>8, <1>9, <1>10, <1>11, <1>12,
     <1>13, <1>14, <1>15, <1>16, <1>17, <1>18, <1>19, <1>20, <1>21, <1>22, <1>23, <1>24,
     <1>25, <1>26, <1>27, <1>28, <1>29, <1>30, <1>31, <1>32, <1>33, <1>34 DEF Next

\* The inductive invariant of an exchange.
RelayInv ==
  ShapeInv /\ TicketsInv /\ WalkInv /\ SettleInv /\ JudgedInv /\ BlameInv /\ QuoteInv

\* It holds at the start.
LEMMA RelayInit ==
  ASSUME Init
  PROVE  RelayInv
<1> USE DEF Init
<1>1. ShapeInv BY BudgetAssumption, PayloadAssumption DEF ShapeInv, Places, Waiting
<1>2. TicketsInv BY DEF TicketsInv
<1>3. WalkInv BY BudgetAssumption DEF WalkInv, WalkIsBounded
<1>4. SettleInv BY DEF SettleInv, Chaining
<1>5. JudgedInv BY DEF JudgedInv
<1>6. BlameInv
  <2>1. Range(booked) = {} BY RangeOfOne
  <2> QED BY <2>1 DEF BlameInv
<1>7. QuoteInv
  <2>1. ~last.quotable BY DEF NoAttempt
  <2>2. reply.by = "nobody" BY DEF NoReply
  <2>3. verdict = NoVerdict OBVIOUS
  <2> HIDE DEF Init
  <2> QED BY <2>1, <2>2, <2>3 DEF QuoteInv, AnswerIsOfTheLastAttempt
<1> HIDE DEF Init
<1> QED BY <1>1, <1>2, <1>3, <1>4, <1>5, <1>6, <1>7 DEF RelayInv

\* The inductive invariant holds of every exchange (relay.go: Handle and all it
\* calls up to the last deferred call).
THEOREM RelayInvariance == Spec => []RelayInv
<1>1. Init => RelayInv BY RelayInit
<1>2. RelayInv /\ [Next]_vars => RelayInv'
  <2> SUFFICES ASSUME RelayInv, [Next]_vars PROVE RelayInv' OBVIOUS
  <2>1. ShapeInv' /\ TicketsInv' /\ WalkInv' BY ShapeStep, TicketsStep, WalkStep DEF RelayInv
  <2>2. SettleInv' /\ JudgedInv' BY SettleStep, JudgedStep DEF RelayInv
  <2>3. BlameInv' /\ QuoteInv' BY BlameStep, QuoteStep DEF RelayInv
  <2> QED BY <2>1, <2>2, <2>3 DEF RelayInv
<1> QED BY <1>1, <1>2, PTL DEF Spec

\* The state keeps its types.
THEOREM RelayTypes == Spec => []TypeOK
<1>1. RelayInv => TypeOK BY DEF RelayInv, ShapeInv, TicketsInv, TypeOK, Places
<1> QED BY <1>1, RelayInvariance, PTL

\* However the candidates fail it, a request spends no more than its budgets and
\* enters fewer candidates than their sum (relay.go: spendBudget, exhaustedBudget).
THEOREM WalksBounded == Spec => []WalkIsBounded
<1>1. RelayInv => WalkIsBounded BY DEF RelayInv, WalkInv
<1> QED BY <1>1, RelayInvariance, PTL

\* A caller who is there is answered once; the key is charged at most once, one
\* row is written, and every ticket is back, newest first, before it is
\* (conclude.go: finalize, concludeExchange, releaseAdmissions, recordTerminal).
THEOREM ExchangesEndOnce == Spec => []EndsOnce
<1>1. RelayInv => EndsOnce BY SettledEndsOnce DEF RelayInv
<1> QED BY <1>1, RelayInvariance, PTL

\* A dispatch books one result at most, a penalty only for what the upstream did
\* and a reset only for a 2xx the caller was served of (relay.go: executeCircuit,
\* recordAndSettle).
THEOREM BlamesFair == Spec => []BlameIsFair
<1>1. RelayInv => BlameIsFair
  <2> SUFFICES ASSUME RelayInv PROVE BlameIsFair OBVIOUS
  <2> QED BY DEF RelayInv, BlameInv, BlameIsFair
<1> QED BY <1>1, RelayInvariance, PTL

\* The verdict acted on is what its facts say, and what the end of a chain quotes
\* is what the last attempt came to (relay.go: foldUpstreamDecision, HoldVerdict,
\* ClearVerdict, allCandidatesFailed).
THEOREM AnswersOfFacts == Spec => []AnswerIsOfItsFacts
<1>1. RelayInv => AnswerIsOfItsFacts
  BY DEF RelayInv, QuoteInv, JudgedInv, AnswerIsOfItsFacts, VerdictIsOfTheFacts
<1> QED BY <1>1, RelayInvariance, PTL
----------------------------------------
(* The caller's side of the codecs.  What the deltas of an answer tell is  *)
(* kept in a story (think, text, calls, ...); each protocol's encoder and  *)
(* a client of what it writes are shown to stay with it, delta by delta.   *)
(* First the least numbers and the folds this goes by.                     *)

\* A set of naturals that has a member has one with none below it.
LEMMA NoneBelow ==
  ASSUME NEW T, T \subseteq Nat, T # {}
  PROVE  \E n \in T : \A m \in T : ~(m < n)
<1>1. PICK n \in T : \A m \in T : n <= m BY Least
<1> QED BY <1>1

\* What holds of 0 and passes from each number to the next holds up to any: the
\* numbers up to n of which it fails are a set without a least member.
LEMMA UpTo ==
  ASSUME NEW n \in Nat, NEW T, 0 \in T, \A i \in 0..(n - 1) : i \in T => i + 1 \in T
  PROVE  \A i \in 0..n : i \in T
<1> DEFINE F == {i \in 0..n : i \notin T}
<1> SUFFICES ASSUME F # {} PROVE FALSE OBVIOUS
<1>1. F \subseteq Nat OBVIOUS
<1>2. \E i \in F : \A m \in F : ~(m < i)
  <2> HIDE DEF F
  <2> QED BY <1>1, NoneBelow
<1>3. PICK i \in F : \A m \in F : ~(m < i) BY <1>2
<1>4. i # 0 /\ i \in 0..n /\ i \notin T BY <1>3
<1>5. i - 1 \in 0..(n - 1) /\ i - 1 \in Nat /\ i - 1 < i /\ (i - 1) + 1 = i BY <1>4
<1>6. i - 1 \notin F BY <1>3, <1>5
<1>7. i - 1 \in T BY <1>5, <1>6
<1> QED BY <1>4, <1>5, <1>7

\* Max is a member of its set, and none is greater.
LEMMA MaxIs ==
  ASSUME NEW n \in Nat, NEW D, D \subseteq 1..n, D # {}
  PROVE  Max(D) \in D /\ \A y \in D : y <= Max(D)
<1> DEFINE T == {n - x : x \in D}
<1>0. \A x \in D : x \in 1..n /\ n - x \in Nat OBVIOUS
<1>1. T \subseteq Nat BY <1>0
<1>7. T # {}
  <2>1. PICK x : x \in D OBVIOUS
  <2>2. n - x \in T BY <2>1
  <2> QED BY <2>2
<1>2. \E t \in T : \A m \in T : ~(m < t)
  <2> HIDE DEF T
  <2> QED BY <1>1, <1>7, NoneBelow
<1>a. PICK t \in T : \A m \in T : ~(m < t) BY <1>2
<1>b. PICK x \in D : t = n - x BY <1>a
<1>3. ASSUME NEW y \in D PROVE x >= y
  <2>1. n - y \in T OBVIOUS
  <2>2. ~(n - y < n - x) BY <1>a, <1>b, <2>1
  <2> QED BY <1>0, <2>2
<1> DEFINE P(z) == \A y \in D : z >= y
<1>5. (CHOOSE z \in D : P(z)) \in D /\ P(CHOOSE z \in D : P(z)) BY <1>3, Zenon
<1>6. Max(D) = CHOOSE z \in D : P(z) BY Zenon DEF Max
<1>8. Max(D) \in 1..n BY <1>0, <1>5, <1>6
<1>9. \A y \in D : Max(D) >= y BY <1>5, <1>6
<1> QED BY <1>0, <1>5, <1>6, <1>8, <1>9
----------------------------------------
(* A fold, step by step.  The operators the codecs fold with are told apart *)
(* by a name: none of the provers can be given an operator.                 *)

EncodeOne(p, e, delta) ==
  CASE p = "chat" -> encodeChat(e, delta)
    [] p = "claude" -> encodeClaude(e, delta)
    [] p = "gemini" -> encodeGemini(e, delta)
    [] p = "responses" -> encodeResponses(e, delta)

ReadOne(p, c, f) ==
  CASE f.f = "foreign" -> c
    [] f.f # "foreign" /\ p = "chat" -> ChatClient(c, f)
    [] f.f # "foreign" /\ p = "claude" -> ClaudeClient(c, f)
    [] f.f # "foreign" /\ p = "gemini" -> GeminiClient(c, f)
    [] f.f # "foreign" /\ p = "responses" -> ResponsesClient(c, f)

ChatHear(c, tc) ==
  IF tc.call # 0 THEN Opens(c, tc.index, tc.call, tc.args) ELSE HearsArgs(c, tc.index, tc.args)

GeminiHear(c, part) ==
  IF part.kind = "call" THEN Opens(c, 0, part.call, part.args)
  ELSE Hears(c, part.kind, part.body)

GeminiThen(acc, part) ==
  LET step == geminiPart(acc.state, part) IN Decoded(step.state, acc.deltas \o step.deltas)

CloseOne(reason, e, t) == itemDone(e, t.item, t.at, t.args, itemStatus(reason))

Op(name, with, acc, x) ==
  CASE name = "encode" -> EncodeOne(with, acc, x)
    [] name = "read" -> ReadOne(with, acc, x)
    [] name = "chat" -> ChatHear(acc, x)
    [] name = "gemini" -> GeminiHear(acc, x)
    [] name = "then" -> GeminiThen(acc, x)
    [] name = "close" -> CloseOne(with, acc, x)
    [] name = "flat" -> acc \o x

Iter(name, with, base, s, D, iter) ==
  iter = [d \in SUBSET D |->
             IF d = {} THEN base ELSE Op(name, with, iter[d \ {Max(d)}], s[Max(d)])]

\* The steps of a fold over m members extend to m + 1.
LEMMA IterExtends ==
  ASSUME NEW name, NEW with, NEW base, NEW s, NEW m \in Nat,
         \E iter : Iter(name, with, base, s, 1..m, iter)
  PROVE  \E iter : Iter(name, with, base, s, 1..(m + 1), iter)
<1>1. PICK g : Iter(name, with, base, s, 1..m, g) OBVIOUS
<1> DEFINE S == SUBSET (1..m)
           U == SUBSET (1..(m + 1))
           h == [D \in U |-> IF m + 1 \in D THEN Op(name, with, g[D \ {m + 1}], s[m + 1])
                             ELSE g[D]]
           k == [D \in U |-> IF D = {} THEN base
                             ELSE Op(name, with, h[D \ {Max(D)}], s[Max(D)])]
<1>2. ASSUME NEW D \in S
      PROVE  g[D] = IF D = {} THEN base ELSE Op(name, with, g[D \ {Max(D)}], s[Max(D)])
  BY <1>1 DEF Iter
<1>3. ASSUME NEW D \in S PROVE h[D] = g[D]
  <2>1. D \in U /\ m + 1 \notin D OBVIOUS
  <2> QED BY <2>1
<1>4. ASSUME NEW D \in U PROVE h[D] = k[D]
  <2>1. CASE D = {}
    <3>1. D \in S BY <2>1
    <3> QED BY <2>1, <3>1, <1>2, <1>3
  <2>2. CASE D # {} /\ m + 1 \notin D
    <3>1. D \in S
      <4>1. \A x \in D : x \in 1..(m + 1) /\ x # m + 1 BY <2>2
      <4> QED BY <4>1
    <3>2. D \ {Max(D)} \in S BY <3>1
    <3>3. h[D] = g[D] /\ h[D \ {Max(D)}] = g[D \ {Max(D)}] BY <1>3, <3>1, <3>2
    <3>4. g[D] = Op(name, with, g[D \ {Max(D)}], s[Max(D)]) BY <1>2, <2>2, <3>1
    <3>5. k[D] = Op(name, with, h[D \ {Max(D)}], s[Max(D)]) BY <2>2
    <3> HIDE DEF h, k
    <3> QED BY <3>3, <3>4, <3>5
  <2>3. CASE m + 1 \in D
    <3>1. Max(D) = m + 1
      <4>0. m + 1 \in Nat /\ D \subseteq 1..(m + 1) /\ D # {} BY <2>3
      <4>1. Max(D) \in D /\ \A y \in D : y <= Max(D)
        <5> HIDE DEF h, k, U, S
        <5> QED BY <4>0, MaxIs
      <4>2. Max(D) \in 1..(m + 1) /\ m + 1 <= Max(D) BY <2>3, <4>1
      <4> QED BY <4>2
    <3>2. D \ {m + 1} \in S
      <4>1. \A x \in D \ {m + 1} : x \in 1..(m + 1) /\ x # m + 1 OBVIOUS
      <4>2. \A x \in D \ {m + 1} : x \in 1..m BY <4>1
      <4> QED BY <4>2
    <3>3. h[D \ {m + 1}] = g[D \ {m + 1}] BY <1>3, <3>2
    <3>4. h[D] = Op(name, with, g[D \ {m + 1}], s[m + 1]) BY <2>3
    <3>5. k[D] = Op(name, with, h[D \ {Max(D)}], s[Max(D)]) BY <2>3
    <3> HIDE DEF h, k
    <3> QED BY <3>1, <3>3, <3>4, <3>5
  <2> QED BY <2>1, <2>2, <2>3
<1>5. h = k
  <2> HIDE DEF S
  <2> QED BY <1>4
<1>6. h = [D \in SUBSET (1..(m + 1)) |-> IF D = {} THEN base
                             ELSE Op(name, with, h[D \ {Max(D)}], s[Max(D)])]
  <2> HIDE DEF h
  <2> QED BY <1>5
<1> HIDE DEF h
<1> QED BY <1>6, Zenon DEF Iter

\* A fold over n members has its steps, however many n is.
LEMMA IterExists ==
  ASSUME NEW name, NEW with, NEW base, NEW s, NEW n \in Nat
  PROVE  \E iter : Iter(name, with, base, s, 1..n, iter)
<1> DEFINE T == {i \in Nat : \E iter : Iter(name, with, base, s, 1..i, iter)}
<1>1. 0 \in T
  <2> DEFINE h == [D \in SUBSET (1..0) |-> base]
  <2>1. \A D \in SUBSET (1..0) : D = {} OBVIOUS
  <2>2. h = [D \in SUBSET (1..0) |->
               IF D = {} THEN base ELSE Op(name, with, h[D \ {Max(D)}], s[Max(D)])] BY <2>1
  <2>3. Iter(name, with, base, s, 1..0, h) BY <2>2, Zenon DEF Iter
  <2> QED BY <2>3
<1>2. \A i \in 0..(n - 1) : i \in T => i + 1 \in T BY IterExtends
<1>3. n \in 0..n OBVIOUS
<1>4. n \in T
  <2> HIDE DEF T
  <2> QED BY <1>1, <1>2, <1>3, UpTo
<1> QED BY <1>4

\* A fold step by step: what it has come to after each element.
Trace(name, with, base, s, n, P) ==
  P[0] = base /\ \A i \in 1..n : P[i] = Op(name, with, P[i - 1], s[i])

\* The steps of a fold, read in order, are a trace that ends in its value.
LEMMA IterTraces ==
  ASSUME NEW name, NEW with, NEW base, NEW s, NEW n \in Nat,
         NEW iter, Iter(name, with, base, s, 1..n, iter)
  PROVE  \E P : Trace(name, with, base, s, n, P) /\ P[n] = iter[1..n]
<1> DEFINE P == [i \in 0..n |-> iter[1..i]]
<1>1. ASSUME NEW D \in SUBSET (1..n)
      PROVE  iter[D] = IF D = {} THEN base ELSE Op(name, with, iter[D \ {Max(D)}], s[Max(D)])
  BY DEF Iter
<1>2. P[0] = base
  <2>1. 1..0 = {} OBVIOUS
  <2>2. P[0] = iter[{}] BY <2>1
  <2>3. iter[{}] = base BY <1>1
  <2> QED BY <2>2, <2>3
<1>3. ASSUME NEW i \in 1..n PROVE P[i] = Op(name, with, P[i - 1], s[i])
  <2>1. 1..i \in SUBSET (1..n) /\ i \in 1..i OBVIOUS
  <2>2. Max(1..i) = i
    <3>1. i \in Nat OBVIOUS
    <3>4. 1..i # {}
      <4> HIDE DEF P
      <4> QED BY <2>1
    <3>2. Max(1..i) \in 1..i /\ \A y \in 1..i : y <= Max(1..i)
      <4> HIDE DEF P
      <4> QED BY <3>1, <3>4, MaxIs
    <3>3. i <= Max(1..i) BY <2>1, <3>2
    <3> QED BY <3>2, <3>3
  <2>3. (1..i) \ {i} = 1..(i - 1) OBVIOUS
  <2>4. iter[1..i] = Op(name, with, iter[(1..i) \ {Max(1..i)}], s[Max(1..i)]) BY <1>1, <2>1
  <2>5. P[i] = iter[1..i] /\ P[i - 1] = iter[1..(i - 1)] OBVIOUS
  <2> HIDE DEF P
  <2> QED BY <2>2, <2>3, <2>4, <2>5
<1>4. P[n] = iter[1..n] OBVIOUS
<1> HIDE DEF P
<1> QED BY <1>2, <1>3, <1>4 DEF Trace

\* What a fold comes to, along any trace of it.
Folded(name, with, base, s) ==
  (CHOOSE iter : Iter(name, with, base, s, DOMAIN s, iter))[DOMAIN s]

\* A fold has one trace.
LEMMA TracesAgree ==
  ASSUME NEW name, NEW with, NEW base, NEW s, NEW n \in Nat, NEW P, NEW Q,
         Trace(name, with, base, s, n, P), Trace(name, with, base, s, n, Q)
  PROVE  \A i \in 0..n : P[i] = Q[i]
<1> DEFINE T == {i \in Nat : P[i] = Q[i]}
<1>1. 0 \in T BY DEF Trace
<1>2. \A i \in 0..(n - 1) : i \in T => i + 1 \in T
  <2> SUFFICES ASSUME NEW i \in 0..(n - 1), i \in T PROVE i + 1 \in T OBVIOUS
  <2>1. i + 1 \in 1..n /\ (i + 1) - 1 = i /\ i + 1 \in Nat OBVIOUS
  <2>2. P[i + 1] = Op(name, with, P[i], s[i + 1]) /\ Q[i + 1] = Op(name, with, Q[i], s[i + 1])
    BY <2>1 DEF Trace
  <2> QED BY <2>1, <2>2
<1>3. \A i \in 0..n : i \in T
  <2> HIDE DEF T
  <2> QED BY <1>1, <1>2, UpTo
<1> QED BY <1>3

\* Every fold over a sequence has a trace, and ends where it ends.
LEMMA FoldTraces ==
  ASSUME NEW name, NEW with, NEW base, NEW s, NEW n \in Nat, DOMAIN s = 1..n
  PROVE  \E P : Trace(name, with, base, s, n, P) /\ P[n] = Folded(name, with, base, s)
<1> DEFINE it == CHOOSE iter : Iter(name, with, base, s, 1..n, iter)
<1>3. \E iter : Iter(name, with, base, s, 1..n, iter) BY IterExists
<1>1. Iter(name, with, base, s, 1..n, it) BY <1>3, Zenon
<1>2. Folded(name, with, base, s) = it[1..n] BY Zenon DEF Folded
<1> HIDE DEF it
<1> QED BY <1>1, <1>2, IterTraces

\* A trace of a fold ends in the fold's value.
LEMMA FoldIs ==
  ASSUME NEW name, NEW with, NEW base, NEW s, NEW n \in Nat, DOMAIN s = 1..n,
         NEW P, Trace(name, with, base, s, n, P)
  PROVE  Folded(name, with, base, s) = P[n]
<1>1. PICK Q : Trace(name, with, base, s, n, Q) /\ Q[n] = Folded(name, with, base, s)
  BY FoldTraces
<1>2. n \in 0..n OBVIOUS
<1> QED BY <1>1, <1>2, TracesAgree

\* A fold over nothing is its base.
LEMMA FoldNone ==
  ASSUME NEW name, NEW with, NEW base
  PROVE  Folded(name, with, base, <<>>) = base
<1>1. DOMAIN <<>> = 1..0 OBVIOUS
<1>2. PICK P : Trace(name, with, base, <<>>, 0, P) /\ P[0] = Folded(name, with, base, <<>>)
  BY <1>1, FoldTraces
<1> QED BY <1>2 DEF Trace

\* One element more.
LEMMA FoldMore ==
  ASSUME NEW name, NEW with, NEW base, NEW n \in Nat, NEW s, DOMAIN s = 1..n,
         NEW t, DOMAIN t = 1..(n + 1), \A i \in 1..n : t[i] = s[i]
  PROVE  Folded(name, with, base, t) = Op(name, with, Folded(name, with, base, s), t[n + 1])
<1>1. PICK P : Trace(name, with, base, s, n, P) /\ P[n] = Folded(name, with, base, s)
  BY FoldTraces
<1> DEFINE Q == [i \in 0..(n + 1) |-> IF i = n + 1 THEN Op(name, with, P[n], t[n + 1]) ELSE P[i]]
<1>2. Q[0] = base BY <1>1 DEF Trace
<1>3. ASSUME NEW i \in 1..(n + 1) PROVE Q[i] = Op(name, with, Q[i - 1], t[i])
  <2>1. CASE i = n + 1
    <3>1. Q[i] = Op(name, with, P[n], t[n + 1]) /\ Q[i - 1] = P[n] BY <2>1
    <3> HIDE DEF Q
    <3> QED BY <2>1, <3>1
  <2>2. CASE i # n + 1
    <3>1. i \in 1..n /\ Q[i] = P[i] /\ Q[i - 1] = P[i - 1] BY <2>2
    <3>2. P[i] = Op(name, with, P[i - 1], s[i]) BY <1>1, <3>1 DEF Trace
    <3> HIDE DEF Q
    <3> QED BY <3>1, <3>2
  <2> QED BY <2>1, <2>2
<1>4. Q[n + 1] = Op(name, with, P[n], t[n + 1]) OBVIOUS
<1>5. Trace(name, with, base, t, n + 1, Q)
  <2> HIDE DEF Q
  <2> QED BY <1>2, <1>3 DEF Trace
<1>6. n + 1 \in Nat OBVIOUS
<1>7. Folded(name, with, base, t) = Q[n + 1]
  <2> HIDE DEF Q
  <2> QED BY <1>5, <1>6, FoldIs
<1> HIDE DEF Q
<1> QED BY <1>1, <1>4, <1>7

----------------------------------------
(* Sequences, whatever they are of. *)

IsSeq(s) == \E S : s \in Seq(S)

\* A sequence is the function of its indices.
LEMMA SeqDomain ==
  ASSUME NEW s, IsSeq(s)
  PROVE  /\ Len(s) \in Nat /\ DOMAIN s = 1..Len(s) /\ (Len(s) = 0 <=> s = <<>>)
         /\ s = [i \in 1..Len(s) |-> s[i]]
<1>1. PICK S : s \in Seq(S) BY DEF IsSeq
<1>2. Len(s) \in Nat /\ s \in [1..Len(s) -> S] /\ DOMAIN s = 1..Len(s) BY <1>1, LenProperties
<1>3. Len(<<>>) = 0 /\ (s # <<>> => Len(s) # 0) BY <1>1, EmptySeq
<1>4. s = [i \in 1..Len(s) |-> s[i]] BY <1>2
<1> QED BY <1>2, <1>3, <1>4

\* A function of 1..n is a sequence of length n.
LEMMA SeqFunction ==
  ASSUME NEW n \in Nat, NEW f, f = [i \in 1..n |-> f[i]]
  PROVE  IsSeq(f) /\ Len(f) = n
<1> DEFINE S == {f[i] : i \in 1..n}
<1>1. f \in [1..n -> S] OBVIOUS
<1>2. f \in Seq(S)
  <2> HIDE DEF S
  <2> QED BY <1>1
<1>3. Len(f) \in Nat /\ DOMAIN f = 1..Len(f) BY <1>2, LenProperties
<1>4. 1..Len(f) = 1..n BY <1>1, <1>3
<1>5. Len(f) = n BY <1>3, <1>4
<1> QED BY <1>2, <1>5, Zenon DEF IsSeq

\* As many as there are, and each the same.
LEMMA SeqSame ==
  ASSUME NEW s, NEW t, IsSeq(s), IsSeq(t), Len(s) = Len(t), \A i \in 1..Len(s) : s[i] = t[i]
  PROVE  s = t
<1>1. s = [i \in 1..Len(s) |-> s[i]] /\ t = [i \in 1..Len(t) |-> t[i]] BY SeqDomain
<1>2. [i \in 1..Len(s) |-> s[i]] = [i \in 1..Len(s) |-> t[i]] OBVIOUS
<1>3. t = [i \in 1..Len(s) |-> t[i]] BY <1>1
<1> QED BY <1>1, <1>2, <1>3, Zenon

\* The empty sequence.
LEMMA SeqEmpty == IsSeq(<<>>) /\ Len(<<>>) = 0 /\ DOMAIN <<>> = {}
<1>1. <<>> \in Seq({}) BY EmptySeq
<1>2. IsSeq(<<>>) BY <1>1, Zenon DEF IsSeq
<1>3. Len(<<>>) = 0 BY EmptySeq
<1>4. DOMAIN <<>> = 1..0 BY <1>2, <1>3, SeqDomain
<1> QED BY <1>2, <1>3, <1>4

\* A sequence of one.
LEMMA SeqOne ==
  ASSUME NEW x
  PROVE  IsSeq(<<x>>) /\ Len(<<x>>) = 1 /\ <<x>>[1] = x /\ DOMAIN <<x>> = 1..1 /\ <<x>> # <<>>
<1>1. <<x>> \in Seq({x}) OBVIOUS
<1>2. IsSeq(<<x>>) BY <1>1, Zenon DEF IsSeq
<1>3. Len(<<x>>) = 1 /\ <<x>>[1] = x OBVIOUS
<1> QED BY <1>2, <1>3, SeqDomain

\* Three sequences are sequences over one set, as the library's facts want them.
LEMMA SeqTogether ==
  ASSUME NEW s, NEW t, NEW u, IsSeq(s), IsSeq(t), IsSeq(u)
  PROVE  \E S : s \in Seq(S) /\ t \in Seq(S) /\ u \in Seq(S)
<1>1. PICK S : s \in Seq(S) BY DEF IsSeq
<1>2. PICK T : t \in Seq(T) BY DEF IsSeq
<1>3. PICK U : u \in Seq(U) BY DEF IsSeq
<1> DEFINE V == S \cup T \cup U
<1>4. s \in Seq(V) BY <1>1, SeqMonotonic
<1>5. t \in Seq(V) BY <1>2, SeqMonotonic
<1>6. u \in Seq(V) BY <1>3, SeqMonotonic
<1> HIDE DEF V
<1> QED BY <1>4, <1>5, <1>6

\* What a concatenation holds.
LEMMA SeqCat ==
  ASSUME NEW s, NEW t, IsSeq(s), IsSeq(t)
  PROVE  /\ IsSeq(s \o t) /\ Len(s \o t) = Len(s) + Len(t)
         /\ \A i \in 1..Len(s) : (s \o t)[i] = s[i]
         /\ \A i \in 1..Len(t) : (s \o t)[Len(s) + i] = t[i]
         /\ s \o <<>> = s /\ <<>> \o t = t
<1>1. PICK S : s \in Seq(S) /\ t \in Seq(S) BY SeqTogether
<1>2. /\ s \o t \in Seq(S) /\ Len(s \o t) = Len(s) + Len(t)
      /\ \A i \in 1..(Len(s) + Len(t)) :
             (s \o t)[i] = IF i <= Len(s) THEN s[i] ELSE t[i - Len(s)] BY <1>1, ConcatProperties
<1>3. s \o <<>> = s /\ <<>> \o t = t BY <1>1, ConcatEmptySeq
<1>4. IsSeq(s \o t) BY <1>2, Zenon DEF IsSeq
<1>5. Len(s) \in Nat /\ Len(t) \in Nat BY SeqDomain
<1>6. ASSUME NEW i \in 1..Len(s) PROVE (s \o t)[i] = s[i]
  <2>1. i \in 1..(Len(s) + Len(t)) /\ i <= Len(s) BY <1>5
  <2> QED BY <1>2, <2>1
<1>7. ASSUME NEW i \in 1..Len(t) PROVE (s \o t)[Len(s) + i] = t[i]
  <2>1. /\ Len(s) + i \in 1..(Len(s) + Len(t)) /\ ~(Len(s) + i <= Len(s))
        /\ (Len(s) + i) - Len(s) = i BY <1>5
  <2> QED BY <1>2, <2>1
<1> QED BY <1>2, <1>3, <1>4, <1>6, <1>7

\* Concatenation is associative.
LEMMA SeqAssoc ==
  ASSUME NEW s, NEW t, NEW u, IsSeq(s), IsSeq(t), IsSeq(u)
  PROVE  (s \o t) \o u = s \o (t \o u)
<1>1. PICK S : s \in Seq(S) /\ t \in Seq(S) /\ u \in Seq(S) BY SeqTogether
<1> QED BY <1>1, ConcatAssociative

\* What an extended sequence holds.
LEMMA SeqMore ==
  ASSUME NEW s, NEW x, IsSeq(s)
  PROVE  /\ Append(s, x) = s \o <<x>> /\ IsSeq(Append(s, x)) /\ Len(Append(s, x)) = Len(s) + 1
         /\ \A i \in 1..Len(s) : Append(s, x)[i] = s[i]
         /\ Append(s, x)[Len(s) + 1] = x
         /\ Append(s, x) # <<>>
<1>1. PICK S : s \in Seq(S) /\ <<x>> \in Seq(S) BY SeqOne, SeqTogether
<1>2. x \in S
  <2>1. 1 \in 1..Len(<<x>>) BY SeqOne
  <2>2. <<x>>[1] \in S BY <1>1, <2>1, ElementOfSeq
  <2> QED BY <2>2, SeqOne
<1>3. /\ Append(s, x) \in Seq(S) /\ Append(s, x) # <<>> /\ Len(Append(s, x)) = Len(s) + 1
      /\ \A i \in 1..Len(s) : Append(s, x)[i] = s[i]
      /\ Append(s, x)[Len(s) + 1] = x BY <1>1, <1>2, AppendProperties
<1>4. Append(s, x) = s \o <<x>> BY <1>1, <1>2, AppendIsConcat
<1>5. IsSeq(Append(s, x)) BY <1>3, Zenon DEF IsSeq
<1> QED BY <1>3, <1>4, <1>5

\* What the rest of a sequence holds.
LEMMA SeqRest ==
  ASSUME NEW s, IsSeq(s), s # <<>>
  PROVE  /\ Head(s) = s[1] /\ IsSeq(Tail(s)) /\ Len(Tail(s)) = Len(s) - 1
         /\ \A i \in 1..(Len(s) - 1) : Tail(s)[i] = s[i + 1]
         /\ Len(s) \in Nat \ {0}
<1>1. PICK S : s \in Seq(S) BY DEF IsSeq
<1>2. /\ Tail(s) \in Seq(S) /\ Len(Tail(s)) = Len(s) - 1
      /\ \A i \in 1..Len(Tail(s)) : Tail(s)[i] = s[i + 1] BY <1>1, HeadTailProperties
<1>3. Head(s) = s[1] BY <1>1
<1>4. IsSeq(Tail(s)) BY <1>2, Zenon DEF IsSeq
<1>5. Len(s) \in Nat \ {0} BY SeqDomain
<1>6. \A i \in 1..(Len(s) - 1) : Tail(s)[i] = s[i + 1] BY <1>2
<1> QED BY <1>2, <1>3, <1>4, <1>5, <1>6

----------------------------------------
(* The folds of the codecs, by their traces. *)

LEMMA OpIs ==
  ASSUME NEW with, NEW acc, NEW x
  PROVE  /\ Op("encode", with, acc, x) = EncodeOne(with, acc, x)
         /\ Op("read", with, acc, x) = ReadOne(with, acc, x)
         /\ Op("chat", with, acc, x) = ChatHear(acc, x)
         /\ Op("gemini", with, acc, x) = GeminiHear(acc, x)
         /\ Op("then", with, acc, x) = GeminiThen(acc, x)
         /\ Op("close", with, acc, x) = CloseOne(with, acc, x)
         /\ Op("flat", with, acc, x) = acc \o x
BY DEF Op

\* Whatever steps a CHOOSE picks, they end in the fold's value.
LEMMA FoldChosen ==
  ASSUME NEW name, NEW with, NEW base, NEW s, NEW n \in Nat, DOMAIN s = 1..n, NEW chosen,
         (\E it : Iter(name, with, base, s, 1..n, it)) => Iter(name, with, base, s, 1..n, chosen)
  PROVE  chosen[1..n] = Folded(name, with, base, s)
<1>1. Iter(name, with, base, s, 1..n, chosen) BY IterExists
<1>2. PICK P : Trace(name, with, base, s, n, P) /\ P[n] = chosen[1..n] BY <1>1, IterTraces
<1> QED BY <1>2, FoldIs

ChatHeard(base, calls) == FoldLeft(ChatHear, base, calls)
GeminiHeard(base, parts) == FoldLeft(GeminiHear, base, parts)
GeminiThens(base, parts) == FoldLeft(GeminiThen, base, parts)
ClosedCalls(reason, base, tools) == FoldLeft(LAMBDA acc, t : CloseOne(reason, acc, t), base, tools)

\* encodeDeltas is a fold of encodeOne.
LEMMA EncodeFold ==
  ASSUME NEW q, NEW e, NEW s, NEW n \in Nat, DOMAIN s = 1..n
  PROVE  EncodeDeltas(q, e, s) = Folded("encode", q, [e EXCEPT !.out = <<>>], s)
<1> DEFINE first == [e EXCEPT !.out = <<>>]
           A(it) == it = [d \in SUBSET DOMAIN s |->
                      IF d = {} THEN first ELSE EncodeOne(q, it[d \ {Max(d)}], s[Max(d)])]
<1>1. EncodeDeltas(q, e, s) = (CHOOSE it : A(it))[DOMAIN s]
  BY Zenon DEF EncodeDeltas, EncodeOne, FoldLeft, MapThenFoldSet
<1> HIDE DEF first
<1>2. ASSUME NEW it PROVE A(it) <=> Iter("encode", q, first, s, 1..n, it)
  <2>1. \A a, x : EncodeOne(q, a, x) = Op("encode", q, a, x) BY OpIs, Zenon
  <2>2. [d \in SUBSET DOMAIN s |-> IF d = {} THEN first ELSE EncodeOne(q, it[d \ {Max(d)}], s[Max(d)])]
        = [d \in SUBSET DOMAIN s |->
             IF d = {} THEN first ELSE Op("encode", q, it[d \ {Max(d)}], s[Max(d)])] BY <2>1
  <2> QED BY <2>2, Zenon DEF Iter
<1> HIDE DEF A
<1> DEFINE chosen == CHOOSE it : A(it)
<1>3. (\E it : Iter("encode", q, first, s, 1..n, it)) => Iter("encode", q, first, s, 1..n, chosen)
  BY <1>2, Zenon
<1>4. EncodeDeltas(q, e, s) = chosen[1..n] BY <1>1, Zenon
<1> HIDE DEF chosen
<1>5. chosen[1..n] = Folded("encode", q, first, s) BY <1>3, FoldChosen
<1> QED BY <1>4, <1>5, Zenon DEF first

\* A client's reading is a fold of its reading of a frame.
LEMMA ClientFold ==
  ASSUME NEW q, NEW c, NEW s, NEW n \in Nat, DOMAIN s = 1..n
  PROVE  Client(q, c, s) = Folded("read", q, c, s)
<1> DEFINE first == c
           A(it) == it = [d \in SUBSET DOMAIN s |->
                      IF d = {} THEN first ELSE ReadOne(q, it[d \ {Max(d)}], s[Max(d)])]
<1>1. Client(q, c, s) = (CHOOSE it : A(it))[DOMAIN s]
  BY Zenon DEF Client, ReadOne, FoldLeft, MapThenFoldSet
<1> HIDE DEF first
<1>2. ASSUME NEW it PROVE A(it) <=> Iter("read", q, first, s, 1..n, it)
  <2>1. \A a, x : ReadOne(q, a, x) = Op("read", q, a, x) BY OpIs, Zenon
  <2>2. [d \in SUBSET DOMAIN s |-> IF d = {} THEN first ELSE ReadOne(q, it[d \ {Max(d)}], s[Max(d)])]
        = [d \in SUBSET DOMAIN s |->
             IF d = {} THEN first ELSE Op("read", q, it[d \ {Max(d)}], s[Max(d)])] BY <2>1
  <2> QED BY <2>2, Zenon DEF Iter
<1> HIDE DEF A
<1> DEFINE chosen == CHOOSE it : A(it)
<1>3. (\E it : Iter("read", q, first, s, 1..n, it)) => Iter("read", q, first, s, 1..n, chosen)
  BY <1>2, Zenon
<1>4. Client(q, c, s) = chosen[1..n] BY <1>1, Zenon
<1> HIDE DEF chosen
<1>5. chosen[1..n] = Folded("read", q, first, s) BY <1>3, FoldChosen
<1> QED BY <1>4, <1>5, Zenon DEF first

\* So is what a chat client makes of a chunk's calls,
LEMMA ChatFold ==
  ASSUME NEW c, NEW s, NEW n \in Nat, DOMAIN s = 1..n
  PROVE  ChatHeard(c, s) = Folded("chat", 0, c, s)
<1> DEFINE first == c
           A(it) == it = [d \in SUBSET DOMAIN s |->
                      IF d = {} THEN first ELSE ChatHear(it[d \ {Max(d)}], s[Max(d)])]
<1>1. ChatHeard(c, s) = (CHOOSE it : A(it))[DOMAIN s]
  BY Zenon DEF ChatHeard, FoldLeft, MapThenFoldSet
<1> HIDE DEF first
<1>2. ASSUME NEW it PROVE A(it) <=> Iter("chat", 0, first, s, 1..n, it)
  <2>1. \A a, x : ChatHear(a, x) = Op("chat", 0, a, x) BY OpIs, Zenon
  <2>2. [d \in SUBSET DOMAIN s |-> IF d = {} THEN first ELSE ChatHear(it[d \ {Max(d)}], s[Max(d)])]
        = [d \in SUBSET DOMAIN s |->
             IF d = {} THEN first ELSE Op("chat", 0, it[d \ {Max(d)}], s[Max(d)])] BY <2>1
  <2> QED BY <2>2, Zenon DEF Iter
<1> HIDE DEF A
<1> DEFINE chosen == CHOOSE it : A(it)
<1>3. (\E it : Iter("chat", 0, first, s, 1..n, it)) => Iter("chat", 0, first, s, 1..n, chosen)
  BY <1>2, Zenon
<1>4. ChatHeard(c, s) = chosen[1..n] BY <1>1, Zenon
<1> HIDE DEF chosen
<1>5. chosen[1..n] = Folded("chat", 0, first, s) BY <1>3, FoldChosen
<1> QED BY <1>4, <1>5, Zenon DEF first

\* what a Gemini client makes of a candidate's parts,
LEMMA GeminiFold ==
  ASSUME NEW c, NEW s, NEW n \in Nat, DOMAIN s = 1..n
  PROVE  GeminiHeard(c, s) = Folded("gemini", 0, c, s)
<1> DEFINE first == c
           A(it) == it = [d \in SUBSET DOMAIN s |->
                      IF d = {} THEN first ELSE GeminiHear(it[d \ {Max(d)}], s[Max(d)])]
<1>1. GeminiHeard(c, s) = (CHOOSE it : A(it))[DOMAIN s]
  BY Zenon DEF GeminiHeard, FoldLeft, MapThenFoldSet
<1> HIDE DEF first
<1>2. ASSUME NEW it PROVE A(it) <=> Iter("gemini", 0, first, s, 1..n, it)
  <2>1. \A a, x : GeminiHear(a, x) = Op("gemini", 0, a, x) BY OpIs, Zenon
  <2>2. [d \in SUBSET DOMAIN s |-> IF d = {} THEN first ELSE GeminiHear(it[d \ {Max(d)}], s[Max(d)])]
        = [d \in SUBSET DOMAIN s |->
             IF d = {} THEN first ELSE Op("gemini", 0, it[d \ {Max(d)}], s[Max(d)])] BY <2>1
  <2> QED BY <2>2, Zenon DEF Iter
<1> HIDE DEF A
<1> DEFINE chosen == CHOOSE it : A(it)
<1>3. (\E it : Iter("gemini", 0, first, s, 1..n, it)) => Iter("gemini", 0, first, s, 1..n, chosen)
  BY <1>2, Zenon
<1>4. GeminiHeard(c, s) = chosen[1..n] BY <1>1, Zenon
<1> HIDE DEF chosen
<1>5. chosen[1..n] = Folded("gemini", 0, first, s) BY <1>3, FoldChosen
<1> QED BY <1>4, <1>5, Zenon DEF first

\* what decodeGemini makes of them,
LEMMA ThenFold ==
  ASSUME NEW c, NEW s, NEW n \in Nat, DOMAIN s = 1..n
  PROVE  GeminiThens(c, s) = Folded("then", 0, c, s)
<1> DEFINE first == c
           A(it) == it = [d \in SUBSET DOMAIN s |->
                      IF d = {} THEN first ELSE GeminiThen(it[d \ {Max(d)}], s[Max(d)])]
<1>1. GeminiThens(c, s) = (CHOOSE it : A(it))[DOMAIN s]
  BY Zenon DEF GeminiThens, FoldLeft, MapThenFoldSet
<1> HIDE DEF first
<1>2. ASSUME NEW it PROVE A(it) <=> Iter("then", 0, first, s, 1..n, it)
  <2>1. \A a, x : GeminiThen(a, x) = Op("then", 0, a, x) BY OpIs, Zenon
  <2>2. [d \in SUBSET DOMAIN s |-> IF d = {} THEN first ELSE GeminiThen(it[d \ {Max(d)}], s[Max(d)])]
        = [d \in SUBSET DOMAIN s |->
             IF d = {} THEN first ELSE Op("then", 0, it[d \ {Max(d)}], s[Max(d)])] BY <2>1
  <2> QED BY <2>2, Zenon DEF Iter
<1> HIDE DEF A
<1> DEFINE chosen == CHOOSE it : A(it)
<1>3. (\E it : Iter("then", 0, first, s, 1..n, it)) => Iter("then", 0, first, s, 1..n, chosen)
  BY <1>2, Zenon
<1>4. GeminiThens(c, s) = chosen[1..n] BY <1>1, Zenon
<1> HIDE DEF chosen
<1>5. chosen[1..n] = Folded("then", 0, first, s) BY <1>3, FoldChosen
<1> QED BY <1>4, <1>5, Zenon DEF first

\* and the closing of the Responses encoder's tools.
LEMMA CloseFold ==
  ASSUME NEW reason, NEW e, NEW s, NEW n \in Nat, DOMAIN s = 1..n
  PROVE  ClosedCalls(reason, e, s) = Folded("close", reason, e, s)
<1> DEFINE first == e
           A(it) == it = [d \in SUBSET DOMAIN s |->
                      IF d = {} THEN first ELSE CloseOne(reason, it[d \ {Max(d)}], s[Max(d)])]
<1>1. ClosedCalls(reason, e, s) = (CHOOSE it : A(it))[DOMAIN s]
  BY Zenon DEF ClosedCalls, FoldLeft, MapThenFoldSet
<1> HIDE DEF first
<1>2. ASSUME NEW it PROVE A(it) <=> Iter("close", reason, first, s, 1..n, it)
  <2>1. \A a, x : CloseOne(reason, a, x) = Op("close", reason, a, x) BY OpIs, Zenon
  <2>2. [d \in SUBSET DOMAIN s |-> IF d = {} THEN first ELSE CloseOne(reason, it[d \ {Max(d)}], s[Max(d)])]
        = [d \in SUBSET DOMAIN s |->
             IF d = {} THEN first ELSE Op("close", reason, it[d \ {Max(d)}], s[Max(d)])] BY <2>1
  <2> QED BY <2>2, Zenon DEF Iter
<1> HIDE DEF A
<1> DEFINE chosen == CHOOSE it : A(it)
<1>3. (\E it : Iter("close", reason, first, s, 1..n, it)) => Iter("close", reason, first, s, 1..n, chosen)
  BY <1>2, Zenon
<1>4. ClosedCalls(reason, e, s) = chosen[1..n] BY <1>1, Zenon
<1> HIDE DEF chosen
<1>5. chosen[1..n] = Folded("close", reason, first, s) BY <1>3, FoldChosen
<1> QED BY <1>4, <1>5, Zenon DEF first

\* How a chat client reads a frame.
LEMMA ChatReads ==
  ASSUME NEW c, NEW f
  PROVE  ChatClient(c, f) =
           IF f.f = "[DONE]" THEN [Expect(c, TRUE) EXCEPT !.over = TRUE]
           ELSE [Told(Expect(ChatHeard(Hears(Hears(c, "think", f.think), "text", f.text), f.calls),
                             c.end = "" \/ (f.think = <<>> /\ f.text = <<>> /\ f.calls = <<>>)),
                      f.usage)
                 EXCEPT !.end = IF f.finish = "" THEN @ ELSE f.finish]
BY Zenon DEF ChatClient, ChatHeard, FoldLeft, MapThenFoldSet, ChatHear

\* How a Gemini client does.
LEMMA GeminiReads ==
  ASSUME NEW c, NEW f
  PROVE  GeminiClient(c, f) =
           [ Told(Expect(GeminiHeard(c, f.parts), TRUE), f.usage)
             EXCEPT !.over = f.finish # "", !.end = f.finish ]
BY Zenon DEF GeminiClient, GeminiHeard, FoldLeft, MapThenFoldSet, GeminiHear

\* decodeGemini, with the fold over the parts named.
LEMMA GeminiDecodes ==
  ASSUME NEW d, NEW f
  PROVE  LET parts == GeminiThens(Decoded([d EXCEPT !.started = TRUE],
                                          When(~d.started, <<Start>>)), f.parts)
         IN decodeGemini(d, f) =
              Decoded(parts.state,
                 parts.deltas
                 \o When(f.finish # "", <<Done(mapFromGeminiFinishReason(f.finish))>>)
                 \o When(f.usage # Null, <<UsageOf(Judged(GeminiUsage(f.usage)))>>))
BY Zenon DEF decodeGemini, GeminiThens, FoldLeft, MapThenFoldSet, GeminiThen

\* closeAllTools, with the fold over the tools named.
LEMMA ToolsClose ==
  ASSUME NEW e, NEW reason
  PROVE  closeAllTools(e, reason) = [ClosedCalls(reason, e, e.tools) EXCEPT !.tools = <<>>]
BY Zenon DEF closeAllTools, ClosedCalls, FoldLeft, MapThenFoldSet, CloseOne

\* A client that reads nothing, and one that reads one frame more.
LEMMA ReadNone ==
  ASSUME NEW q, NEW c
  PROVE  Client(q, c, <<>>) = c
<1>1. DOMAIN <<>> = 1..0 BY SeqEmpty
<1>2. Client(q, c, <<>>) = Folded("read", q, c, <<>>) BY <1>1, ClientFold
<1> QED BY <1>2, FoldNone

\* One more frame is one more reading.
LEMMA ReadMore ==
  ASSUME NEW q, NEW c, NEW s, IsSeq(s), NEW f
  PROVE  Client(q, c, Append(s, f)) = ReadOne(q, Client(q, c, s), f)
<1> DEFINE n == Len(s)
           t == Append(s, f)
<1>1. n \in Nat /\ DOMAIN s = 1..n BY SeqDomain
<1>2. IsSeq(t) /\ Len(t) = n + 1 /\ (\A i \in 1..n : t[i] = s[i]) /\ t[n + 1] = f BY SeqMore
<1>3. DOMAIN t = 1..(n + 1) /\ n + 1 \in Nat BY <1>1, <1>2, SeqDomain
<1> HIDE DEF n, t
<1>4. Client(q, c, s) = Folded("read", q, c, s) BY <1>1, ClientFold
<1>5. Client(q, c, t) = Folded("read", q, c, t) BY <1>3, ClientFold
<1>6. Folded("read", q, c, t) = Op("read", q, Folded("read", q, c, s), t[n + 1])
  BY <1>1, <1>2, <1>3, FoldMore
<1>7. Client(q, c, t) = ReadOne(q, Client(q, c, s), f) BY <1>2, <1>4, <1>5, <1>6, OpIs
<1> QED BY <1>7 DEF t

\* One frame is one reading.
LEMMA ReadFirst ==
  ASSUME NEW q, NEW c, NEW f
  PROVE  Client(q, c, <<f>>) = ReadOne(q, c, f)
<1>3. Append(<<>>, f) = <<>> \o <<f>> BY SeqEmpty, SeqMore
<1>4. <<>> \o <<f>> = <<f>> BY SeqEmpty, SeqOne, SeqCat
<1>1. Append(<<>>, f) = <<f>> BY <1>3, <1>4
<1>5. IsSeq(<<>>) BY SeqEmpty
<1>6. \A s : IsSeq(s) => Client(q, c, Append(s, f)) = ReadOne(q, Client(q, c, s), f) BY ReadMore
<1>2. Client(q, c, Append(<<>>, f)) = ReadOne(q, Client(q, c, <<>>), f) BY <1>5, <1>6, Zenon
<1> QED BY <1>1, <1>2, ReadNone

\* Two elements are one and one more.
LEMMA SeqPair ==
  ASSUME NEW f, NEW g
  PROVE  IsSeq(<<f, g>>) /\ Len(<<f, g>>) = 2 /\ <<f, g>> = <<f>> \o <<g>>
<1>1. IsSeq(<<f>>) /\ IsSeq(<<g>>) /\ Len(<<f>>) = 1 /\ Len(<<g>>) = 1 BY SeqOne
<1>2. <<f, g>> \in Seq({f, g}) OBVIOUS
<1>3. IsSeq(<<f, g>>) BY <1>2, Zenon DEF IsSeq
<1>4. Len(<<f, g>>) = 2 /\ <<f, g>>[1] = f /\ <<f, g>>[2] = g OBVIOUS
<1> DEFINE t == <<f>> \o <<g>>
<1>5. IsSeq(t) /\ Len(t) = 1 + 1 /\ t[1] = f /\ t[1 + 1] = g
  <2>1. 1 \in 1..1 OBVIOUS
  <2> QED BY <1>1, <2>1, SeqCat, SeqOne
<1>6. 1 + 1 = 2 /\ \A i \in 1..2 : i = 1 \/ i = 2 OBVIOUS
<1> HIDE DEF t
<1>7. \A i \in 1..Len(t) : t[i] = <<f, g>>[i] BY <1>4, <1>5, <1>6
<1>8. t = <<f, g>> BY <1>3, <1>4, <1>5, <1>6, <1>7, SeqSame
<1> QED BY <1>3, <1>4, <1>8 DEF t

\* Two members more.
LEMMA SeqTwo ==
  ASSUME NEW s, IsSeq(s), NEW f, NEW g
  PROVE  IsSeq(Append(s, f)) /\ Append(Append(s, f), g) = s \o <<f, g>>
<1>1. <<f, g>> = <<f>> \o <<g>> BY SeqPair
<1>2. s \o <<f, g>> = (s \o <<f>>) \o <<g>>
  <2>1. PICK t, u : t = <<f>> /\ u = <<g>> OBVIOUS
  <2>2. IsSeq(t) /\ IsSeq(u) BY <2>1, SeqOne
  <2>3. IsSeq(s) OBVIOUS
  <2>4. (s \o t) \o u = s \o (t \o u) BY ONLY <2>2, <2>3, SeqAssoc
  <2>5. <<f, g>> = t \o u BY <1>1, <2>1
  <2> QED BY <2>1, <2>4, <2>5
<1>3. Append(s, f) = s \o <<f>> /\ IsSeq(Append(s, f)) BY SeqMore
<1>4. Append(Append(s, f), g) = Append(s, f) \o <<g>>
  <2>1. PICK u : u = Append(s, f) OBVIOUS
  <2>2. IsSeq(u) BY <1>3, <2>1
  <2>3. Append(u, g) = u \o <<g>> BY ONLY <2>2, SeqMore
  <2> QED BY <2>1, <2>3
<1> QED BY <1>1, <1>2, <1>3, <1>4

\* Two frames more are two readings more.
LEMMA ReadTwo ==
  ASSUME NEW q, NEW c, NEW s, IsSeq(s), NEW f, NEW g
  PROVE  Client(q, c, s \o <<f, g>>) = ReadOne(q, ReadOne(q, Client(q, c, s), f), g)
<1>3. IsSeq(Append(s, f)) /\ Append(Append(s, f), g) = s \o <<f, g>> BY SeqTwo, Zenon
<1>4. Client(q, c, Append(Append(s, f), g)) = ReadOne(q, Client(q, c, Append(s, f)), g)
  <2>1. PICK u : u = Append(s, f) OBVIOUS
  <2>2. IsSeq(u) BY <1>3, <2>1
  <2>3. Client(q, c, Append(u, g)) = ReadOne(q, Client(q, c, u), g) BY ONLY <2>2, ReadMore
  <2> QED BY <2>1, <2>3
<1>5. Client(q, c, Append(s, f)) = ReadOne(q, Client(q, c, s), f) BY ReadMore
<1> QED BY <1>3, <1>4, <1>5

\* An encoder over some deltas, delta by delta.
LEMMA EncodeSteps ==
  ASSUME NEW q, NEW e, NEW s, IsSeq(s)
  PROVE  \E E : /\ E[0] = [e EXCEPT !.out = <<>>]
                /\ \A i \in 1..Len(s) : E[i] = EncodeOne(q, E[i - 1], s[i])
                /\ E[Len(s)] = EncodeDeltas(q, e, s)
<1> DEFINE n == Len(s)
           base == [e EXCEPT !.out = <<>>]
<1>1. n \in Nat /\ DOMAIN s = 1..n BY SeqDomain
<1>2. EncodeDeltas(q, e, s) = Folded("encode", q, base, s) BY <1>1, EncodeFold
<1> HIDE DEF base
<1>3. PICK P : Trace("encode", q, base, s, n, P) /\ P[n] = Folded("encode", q, base, s)
  BY <1>1, FoldTraces
<1>4. P[0] = base /\ \A i \in 1..n : P[i] = EncodeOne(q, P[i - 1], s[i]) BY <1>3, OpIs DEF Trace
<1>5. P[n] = EncodeDeltas(q, e, s) BY <1>2, <1>3
<1>6. P[0] = [e EXCEPT !.out = <<>>] BY <1>4, Zenon DEF base
<1> QED BY <1>4, <1>5, <1>6

\* A fold over one member is one step.
LEMMA FoldOne ==
  ASSUME NEW name, NEW with, NEW base, NEW x
  PROVE  Folded(name, with, base, <<x>>) = Op(name, with, base, x)
<1> DEFINE none == <<>>
           one == <<x>>
<1>1. DOMAIN none = 1..0 /\ DOMAIN one = 1..(0 + 1) /\ one[0 + 1] = x BY SeqEmpty, SeqOne
<1>2. Folded(name, with, base, none) = base BY FoldNone, Zenon
<1>3. \A i \in 1..0 : one[i] = none[i] OBVIOUS
<1> HIDE DEF none, one
<1>6. PICK m \in Nat : m = 0 OBVIOUS
<1>4. Folded(name, with, base, one) = Op(name, with, Folded(name, with, base, none), one[m + 1])
  <2>1. DOMAIN none = 1..m /\ DOMAIN one = 1..(m + 1) /\ \A i \in 1..m : one[i] = none[i]
    BY <1>1, <1>3, <1>6
  <2> QED BY <2>1, FoldMore
<1>5. Folded(name, with, base, one) = Op(name, with, base, x) BY <1>1, <1>2, <1>4, <1>6
<1> QED BY <1>5, Zenon DEF one

\* The folds over the parts of a frame that has none, or one.
LEMMA HeardFew ==
  ASSUME NEW c, NEW x
  PROVE  /\ ChatHeard(c, <<>>) = c /\ ChatHeard(c, <<x>>) = ChatHear(c, x)
         /\ GeminiHeard(c, <<>>) = c /\ GeminiHeard(c, <<x>>) = GeminiHear(c, x)
         /\ GeminiThens(c, <<>>) = c /\ GeminiThens(c, <<x>>) = GeminiThen(c, x)
<1>1. DOMAIN <<>> = 1..0 /\ DOMAIN <<x>> = 1..1 BY SeqEmpty, SeqOne
<1>2. /\ Folded("chat", 0, c, <<>>) = c /\ Folded("gemini", 0, c, <<>>) = c
      /\ Folded("then", 0, c, <<>>) = c BY FoldNone
<1>3. /\ Folded("chat", 0, c, <<x>>) = ChatHear(c, x)
      /\ Folded("gemini", 0, c, <<x>>) = GeminiHear(c, x)
      /\ Folded("then", 0, c, <<x>>) = GeminiThen(c, x) BY FoldOne, OpIs
<1>4. ChatHeard(c, <<>>) = c /\ GeminiHeard(c, <<>>) = c /\ GeminiThens(c, <<>>) = c
  BY <1>1, <1>2, ChatFold, GeminiFold, ThenFold
<1>5. /\ ChatHeard(c, <<x>>) = ChatHear(c, x) /\ GeminiHeard(c, <<x>>) = GeminiHear(c, x)
      /\ GeminiThens(c, <<x>>) = GeminiThen(c, x) BY <1>1, <1>3, ChatFold, GeminiFold, ThenFold
<1> QED BY <1>4, <1>5

\* The same of a sequence known to be empty,
LEMMA HeardNone ==
  ASSUME NEW c, NEW s, s = <<>>
  PROVE  ChatHeard(c, s) = c /\ GeminiHeard(c, s) = c /\ GeminiThens(c, s) = c
BY HeardFew

\* and of one known to have one member.
LEMMA HeardOne ==
  ASSUME NEW c, NEW x, NEW s, s = <<x>>
  PROVE  /\ ChatHeard(c, s) = ChatHear(c, x) /\ GeminiHeard(c, s) = GeminiHear(c, x)
         /\ GeminiThens(c, s) = GeminiThen(c, x)
BY HeardFew, Zenon

\* FlattenSeq, sequence by sequence.
LEMMA FlattenSteps ==
  ASSUME NEW ss, IsSeq(ss), \A i \in 1..Len(ss) : IsSeq(ss[i])
  PROVE  \E P : /\ P[0] = <<>> /\ P[Len(ss)] = FlattenSeq(ss)
                /\ \A i \in 1..Len(ss) : P[i] = P[i - 1] \o ss[i]
<1> DEFINE n == Len(ss)
<1>1. n \in Nat /\ DOMAIN ss = 1..n /\ (n = 0 => ss = <<>>) BY SeqDomain
<1>2. CASE n = 0
  <2> DEFINE P == [i \in {0} |-> <<>>]
  <2>1. FlattenSeq(ss) = <<>> BY <1>1, <1>2 DEF FlattenSeq
  <2>2. P[0] = <<>> /\ P[n] = FlattenSeq(ss) BY <1>2, <2>1
  <2>3. \A i \in 1..n : P[i] = P[i - 1] \o ss[i] BY <1>2
  <2> HIDE DEF P
  <2> QED BY <2>2, <2>3
<1>3. CASE n # 0 /\ IsSeq(ss[1])
  <2>1. PICK Q : Trace("flat", 0, <<>>, ss, n, Q) BY <1>1, FoldTraces
  <2> DEFINE P == [i \in 0..n |-> Q[i]]
             Laid(g) == g = [i \in 1..n |-> IF i = 1 THEN ss[i] ELSE g[i - 1] \o ss[i]]
  <2>2. P[0] = <<>> /\ \A i \in 1..n : P[i] = P[i - 1] \o ss[i]
    <3>1. P[0] = <<>> BY <1>1, <2>1 DEF Trace
    <3>2. ASSUME NEW i \in 1..n PROVE P[i] = P[i - 1] \o ss[i]
      <4>1. Q[i] = Op("flat", 0, Q[i - 1], ss[i])
        <5> HIDE DEF P
        <5> QED BY <2>1 DEF Trace
      <4>2. Q[i] = Q[i - 1] \o ss[i]
        <5>1. Op("flat", 0, Q[i - 1], ss[i]) = Q[i - 1] \o ss[i] BY OpIs, Zenon
        <5> HIDE DEF P
        <5> QED BY <4>1, <5>1, Zenon
      <4>3. P[i] = Q[i] /\ P[i - 1] = Q[i - 1] BY <1>1
      <4> HIDE DEF P
      <4> QED BY <4>2, <4>3
    <3> QED BY <3>1, <3>2
  <2>3. \A g : Laid(g) => \A i \in 1..n : g[i] = P[i]
    <3> SUFFICES ASSUME NEW g, Laid(g) PROVE \A i \in 1..n : g[i] = P[i] BY Zenon
    <3> DEFINE T == {i \in Nat : i = 0 \/ g[i] = P[i]}
    <3>1. 0 \in T OBVIOUS
    <3>2. ASSUME NEW i \in 0..(n - 1), i \in T PROVE i + 1 \in T
      <4>1. i + 1 \in 1..n /\ (i + 1) - 1 = i /\ i \in Nat BY <1>1
      <4>2. g[i + 1] = IF i + 1 = 1 THEN ss[i + 1] ELSE g[(i + 1) - 1] \o ss[i + 1] BY <4>1
      <4>3. P[i + 1] = P[i] \o ss[i + 1]
        <5> HIDE DEF P
        <5> QED BY <2>2, <4>1
      <4>4. CASE i = 0
        <5>1. P[i + 1] = <<>> \o ss[1]
          <6>1. P[0] = <<>> /\ P[i] = P[0] /\ ss[i + 1] = ss[1]
            <7> HIDE DEF P
            <7> QED BY <2>2, <4>4
          <6> HIDE DEF P
          <6> QED BY <6>1, <4>3, Zenon
        <5>2. <<>> \o ss[1] = ss[1] BY <1>3, SeqEmpty, SeqCat
        <5>3. g[i + 1] = ss[1]
          <6>1. i + 1 = 1 BY <4>4
          <6> HIDE DEF P, Laid
          <6> QED BY <6>1, <4>2
        <5>4. g[i + 1] = P[i + 1] /\ i + 1 \in Nat
          <6> HIDE DEF P, Laid
          <6> QED BY <5>1, <5>2, <5>3, <4>1
        <5> QED BY <5>4
      <4>5. CASE i # 0
        <5>1. g[i] = P[i] BY <3>2, <4>5
        <5>2. g[i + 1] = g[i] \o ss[i + 1]
          <6>1. i + 1 # 1 BY <4>1, <4>5
          <6> QED BY <4>1, <4>2, <6>1
        <5>3. g[i + 1] = P[i + 1] /\ i + 1 \in Nat
          <6> HIDE DEF P, Laid
          <6> QED BY <5>1, <5>2, <4>3, <4>1
        <5> QED BY <5>3
      <4> QED BY <4>4, <4>5
    <3>3. \A i \in 0..n : i \in T
      <4> HIDE DEF T
      <4> QED BY <1>1, <3>1, <3>2, UpTo
    <3> QED BY <3>3
  <2>4. \E g : Laid(g)
    <3> DEFINE g == [i \in 1..n |-> P[i]]
    <3>1. ASSUME NEW i \in 1..n PROVE P[i] = IF i = 1 THEN ss[i] ELSE g[i - 1] \o ss[i]
      <4>1. P[i] = P[i - 1] \o ss[i]
        <5> HIDE DEF P
        <5> QED BY <2>2
      <4>2. CASE i = 1
        <5>1. P[i] = <<>> \o ss[1]
          <6>1. i - 1 = 0 BY <4>2
          <6>2. P[i - 1] = <<>>
            <7> HIDE DEF P
            <7> QED BY <2>2, <6>1, Zenon
          <6> HIDE DEF P
          <6> QED BY <6>2, <4>1, <4>2, Zenon
        <5> HIDE DEF P
        <5> QED BY <5>1, <4>2, <1>3, SeqEmpty, SeqCat
      <4>3. CASE i # 1
        <5>1. i - 1 \in 1..n BY <1>1, <4>3
        <5>2. g[i - 1] = P[i - 1] BY <5>1
        <5> HIDE DEF P, g
        <5> QED BY <4>1, <4>3, <5>2
      <4> QED BY <4>2, <4>3
    <3>4. [i \in 1..n |-> P[i]]
          = [i \in 1..n |-> IF i = 1 THEN ss[i] ELSE g[i - 1] \o ss[i]]
      <4> HIDE DEF P, g
      <4> QED BY <3>1
    <3>2. g = [i \in 1..n |-> IF i = 1 THEN ss[i] ELSE g[i - 1] \o ss[i]] BY <3>4, Zenon
    <3>3. Laid(g)
      <4> HIDE DEF P, g
      <4> QED BY <3>2
    <3> HIDE DEF g, Laid
    <3> QED BY <3>3
  <2>5. FlattenSeq(ss) = (CHOOSE g : Laid(g))[n]
    <3> HIDE DEF P
    <3> QED BY <1>3, Zenon DEF FlattenSeq
  <2>6. n \in 1..n BY <1>1, <1>3
  <2>7. FlattenSeq(ss) = P[n]
    <3> HIDE DEF P, Laid
    <3>1. Laid(CHOOSE g : Laid(g)) BY <2>4, Zenon
    <3> QED BY <2>3, <2>5, <2>6, <3>1, Zenon
  <2> HIDE DEF P
  <2> QED BY <2>2, <2>7
<1>4. n # 0 => IsSeq(ss[1])
  <2>1. n # 0 => 1 \in 1..n BY <1>1
  <2> QED BY <2>1
<1> QED BY <1>2, <1>3, <1>4

----------------------------------------
(* What an answer has told so far, in the deltas' own terms. *)

StoryFields == {"begun", "done", "last", "think", "text", "calls", "reason"}

NewStory == [begun |-> FALSE, done |-> FALSE, last |-> "", think |-> <<>>, text |-> <<>>,
             calls |-> <<>>, reason |-> ""]

WithArgs(calls, index, body) ==
  [i \in DOMAIN calls |-> IF calls[i].index = index
                          THEN [calls[i] EXCEPT !.args = @ \o body] ELSE calls[i]]

After(h, delta) ==
  CASE delta.d = "start" -> [h EXCEPT !.begun = TRUE]
    [] delta.d = "think" -> [h EXCEPT !.think = @ \o delta.body, !.last = "think"]
    [] delta.d = "text" -> [h EXCEPT !.text = @ \o delta.body, !.last = "text"]
    [] delta.d = "call" ->
         [h EXCEPT !.calls = Append(@, [index |-> delta.index, call |-> delta.call, args |-> <<>>]),
                   !.last = "call"]
    [] delta.d = "args" -> [h EXCEPT !.calls = WithArgs(@, delta.index, delta.body)]
    [] delta.d = "done" -> [h EXCEPT !.done = TRUE, !.reason = delta.reason]
    [] delta.d \in {"usage", "unknown"} -> h

Reasons == {"stop", "tool_calls", "length", "content_filter"}

\* Arguments are for a call that still waits for some; unless the upstream may come
\* back to an earlier one, for what was opened last.
AwaitsArgs(loose, h, index) ==
  \E i \in 1..Len(h.calls) :
      /\ h.calls[i].index = index /\ ~Complete(h.calls[i].args)
      /\ loose \/ (h.last = "call" /\ i = Len(h.calls))

Allowed(loose, h, delta) ==
  \/ delta.d = "start" /\ ~h.begun
  \/ delta.d \in {"think", "text"} /\ h.begun /\ ~h.done /\ IsSeq(delta.body)
  \/ delta.d = "call" /\ h.begun /\ ~h.done /\ delta.call # 0
       /\ \A i \in 1..Len(h.calls) : h.calls[i].index # delta.index
  \/ delta.d = "args" /\ h.begun /\ ~h.done /\ IsSeq(delta.body) /\ AwaitsArgs(loose, h, delta.index)
  \/ delta.d = "done" /\ h.begun /\ ~h.done /\ delta.reason \in Reasons
  \/ delta.d \in {"usage", "unknown"}

CallFields == {"index", "call", "args"}

\* Calls are told apart by their index.
StoryIsSound(h) ==
  /\ DOMAIN h = StoryFields
  /\ IsSeq(h.think) /\ IsSeq(h.text) /\ IsSeq(h.calls)
  /\ \A i \in 1..Len(h.calls) : DOMAIN h.calls[i] = CallFields /\ IsSeq(h.calls[i].args)
  /\ \A i, j \in 1..Len(h.calls) : h.calls[i].index = h.calls[j].index => i = j
  /\ h.done => h.begun /\ h.reason \in Reasons

\* Nothing told yet is sound.
LEMMA NewStoryIsSound == StoryIsSound(NewStory)
<1>1. IsSeq(<<>>) /\ Len(<<>>) = 0 BY SeqEmpty
<1>2. DOMAIN NewStory = StoryFields BY DEF NewStory, StoryFields
<1>3. NewStory.think = <<>> /\ NewStory.text = <<>> /\ NewStory.calls = <<>> /\ ~NewStory.done
  BY DEF NewStory
<1> QED BY <1>1, <1>2, <1>3 DEF StoryIsSound

\* The calls a delta adds to or leaves alone.
LEMMA CallsAfterArgs ==
  ASSUME NEW calls, IsSeq(calls), NEW index, NEW body, IsSeq(body),
         \A i \in 1..Len(calls) : DOMAIN calls[i] = CallFields /\ IsSeq(calls[i].args)
  PROVE  LET after == WithArgs(calls, index, body) IN
         /\ IsSeq(after) /\ Len(after) = Len(calls)
         /\ \A i \in 1..Len(calls) :
              /\ DOMAIN after[i] = CallFields
              /\ after[i].index = calls[i].index /\ after[i].call = calls[i].call
              /\ after[i].args = IF calls[i].index = index THEN calls[i].args \o body
                                 ELSE calls[i].args
              /\ IsSeq(after[i].args)
<1> DEFINE n == Len(calls)
           after == WithArgs(calls, index, body)
<1>1. n \in Nat /\ DOMAIN calls = 1..n BY SeqDomain
<1>2. after = [i \in 1..n |-> IF calls[i].index = index
                              THEN [calls[i] EXCEPT !.args = @ \o body] ELSE calls[i]]
  BY <1>1 DEF WithArgs
<1>3. after = [i \in 1..n |-> after[i]] BY <1>2
<1>4. IsSeq(after) /\ Len(after) = n
  <2> HIDE DEF after
  <2> QED BY <1>1, <1>3, SeqFunction
<1>5. ASSUME NEW i \in 1..n
      PROVE  /\ DOMAIN after[i] = CallFields
             /\ after[i].index = calls[i].index /\ after[i].call = calls[i].call
             /\ after[i].args = IF calls[i].index = index THEN calls[i].args \o body
                                ELSE calls[i].args
             /\ IsSeq(after[i].args)
  <2>1. after[i] = IF calls[i].index = index
                   THEN [calls[i] EXCEPT !.args = calls[i].args \o body] ELSE calls[i] BY <1>2
  <2>2. DOMAIN calls[i] = CallFields /\ IsSeq(calls[i].args) OBVIOUS
  <2>3. IsSeq(calls[i].args \o body) BY <2>2, SeqCat
  <2> HIDE DEF after, n
  <2>4. CASE calls[i].index = index BY <2>1, <2>2, <2>3, <2>4 DEF CallFields
  <2>5. CASE calls[i].index # index BY <2>1, <2>2, <2>5
  <2> QED BY <2>4, <2>5
<1> QED BY <1>4, <1>5

\* A delta that may come leaves the story sound.
LEMMA StoryStaysSound ==
  ASSUME NEW loose, NEW h, StoryIsSound(h), NEW delta, Allowed(loose, h, delta)
  PROVE  StoryIsSound(After(h, delta))
<1> USE DEF StoryIsSound
<1> SUFFICES ASSUME NEW k, k = After(h, delta) PROVE StoryIsSound(k) BY Zenon
<1>1. CASE delta.d = "start"
  <2>1. k = [h EXCEPT !.begun = TRUE] BY <1>1 DEF After
  <2>2. /\ DOMAIN k = StoryFields /\ k.think = h.think /\ k.text = h.text /\ k.calls = h.calls
        /\ k.begun /\ k.done = h.done /\ k.reason = h.reason
    BY <2>1, DOMAIN h = StoryFields DEF StoryFields
  <2> QED BY <2>2
<1>2. CASE delta.d = "think"
  <2>1. k = [h EXCEPT !.think = h.think \o delta.body, !.last = "think"] BY <1>2 DEF After
  <2>2. IsSeq(h.think \o delta.body) BY <1>2, SeqCat DEF Allowed
  <2>3. /\ DOMAIN k = StoryFields /\ k.think = h.think \o delta.body /\ k.text = h.text
        /\ k.calls = h.calls /\ k.begun = h.begun /\ k.done = h.done /\ k.reason = h.reason
    BY <2>1, DOMAIN h = StoryFields DEF StoryFields
  <2> QED BY <2>2, <2>3
<1>3. CASE delta.d = "text"
  <2>1. k = [h EXCEPT !.text = h.text \o delta.body, !.last = "text"] BY <1>3 DEF After
  <2>2. IsSeq(h.text \o delta.body) BY <1>3, SeqCat DEF Allowed
  <2>3. /\ DOMAIN k = StoryFields /\ k.text = h.text \o delta.body /\ k.think = h.think
        /\ k.calls = h.calls /\ k.begun = h.begun /\ k.done = h.done /\ k.reason = h.reason
    BY <2>1, DOMAIN h = StoryFields DEF StoryFields
  <2> QED BY <2>2, <2>3
<1>4. CASE delta.d = "call"
  <2> DEFINE call == [index |-> delta.index, call |-> delta.call, args |-> <<>>]
             n == Len(h.calls)
             after == Append(h.calls, call)
  <2>1. k = [h EXCEPT !.calls = after, !.last = "call"] BY <1>4 DEF After
  <2>2. /\ IsSeq(after) /\ Len(after) = n + 1 /\ n \in Nat
        /\ (\A i \in 1..n : after[i] = h.calls[i]) /\ after[n + 1] = call
    <3>1. PICK t, x : t = h.calls /\ x = call OBVIOUS
    <3>2. IsSeq(t) BY <3>1
    <3>3. Len(t) \in Nat BY ONLY <3>2, SeqDomain
    <3>4. IsSeq(Append(t, x)) /\ Len(Append(t, x)) = Len(t) + 1 BY ONLY <3>2, SeqMore
    <3>5. \A i \in 1..Len(t) : Append(t, x)[i] = t[i] BY ONLY <3>2, SeqMore
    <3>6. Append(t, x)[Len(t) + 1] = x BY ONLY <3>2, SeqMore
    <3> QED BY <3>1, <3>3, <3>4, <3>5, <3>6
  <2>3. DOMAIN call = CallFields /\ call.index = delta.index /\ call.args = <<>> BY DEF CallFields
  <2>4. IsSeq(<<>>) BY SeqEmpty
  <2>5. \A i \in 1..n : h.calls[i].index # delta.index BY <1>4 DEF Allowed
  <2> HIDE DEF after, call, n
  <2>6. \A i \in 1..(n + 1) : i \in 1..n \/ i = n + 1 BY <2>2
  <2>7. \A i \in 1..Len(after) : DOMAIN after[i] = CallFields /\ IsSeq(after[i].args)
    <3> SUFFICES ASSUME NEW i \in 1..(n + 1)
                 PROVE  DOMAIN after[i] = CallFields /\ IsSeq(after[i].args) BY <2>2
    <3>1. CASE i \in 1..n BY <2>2, <3>1 DEF n
    <3>2. CASE i = n + 1 BY <2>2, <2>3, <2>4, <3>2
    <3> QED BY <2>6, <3>1, <3>2
  <2>8. \A i, j \in 1..Len(after) : after[i].index = after[j].index => i = j
    <3>1. ASSUME NEW i \in 1..n, NEW j \in 1..n, after[i].index = after[j].index PROVE i = j
      BY <2>2, <3>1 DEF n
    <3>2. ASSUME NEW i \in 1..n PROVE after[i].index # after[n + 1].index BY <2>2, <2>3, <2>5
    <3> QED BY <2>2, <2>6, <3>1, <3>2
  <2>9. DOMAIN k = StoryFields /\ k.think = h.think /\ k.text = h.text /\ k.calls = after
        /\ k.begun = h.begun /\ k.done = h.done /\ k.reason = h.reason
    BY <2>1, DOMAIN h = StoryFields DEF StoryFields
  <2> QED BY <2>2, <2>7, <2>8, <2>9
<1>5. CASE delta.d = "args"
  <2> DEFINE after == WithArgs(h.calls, delta.index, delta.body)
  <2>1. k = [h EXCEPT !.calls = after] BY <1>5 DEF After
  <2>2. /\ IsSeq(after) /\ Len(after) = Len(h.calls)
        /\ \A i \in 1..Len(h.calls) : /\ DOMAIN after[i] = CallFields /\ IsSeq(after[i].args)
                                      /\ after[i].index = h.calls[i].index
    BY <1>5, CallsAfterArgs DEF Allowed
  <2> HIDE DEF after
  <2>3. DOMAIN k = StoryFields /\ k.think = h.think /\ k.text = h.text /\ k.calls = after
        /\ k.begun = h.begun /\ k.done = h.done /\ k.reason = h.reason
    BY <2>1, DOMAIN h = StoryFields DEF StoryFields
  <2> QED BY <2>2, <2>3
<1>6. CASE delta.d = "done"
  <2>1. k = [h EXCEPT !.done = TRUE, !.reason = delta.reason] BY <1>6 DEF After
  <2>2. delta.reason \in Reasons /\ h.begun BY <1>6 DEF Allowed
  <2>3. /\ DOMAIN k = StoryFields /\ k.think = h.think /\ k.text = h.text /\ k.calls = h.calls
        /\ k.reason = delta.reason /\ k.begun = h.begun
    BY <2>1, DOMAIN h = StoryFields DEF StoryFields
  <2> QED BY <2>2, <2>3
<1>7. CASE delta.d \in {"usage", "unknown"} BY <1>7 DEF After
<1> QED BY <1>1, <1>2, <1>3, <1>4, <1>5, <1>6, <1>7 DEF Allowed

Follows(loose, h, delta, k) == Allowed(loose, h, delta) /\ k = After(h, delta)

\* One delta after the other.
Tells(with, a, s, b) ==
  /\ IsSeq(s)
  /\ \E T : /\ T[0] = a /\ T[Len(s)] = b
           /\ \A i \in 1..Len(s) : Follows(with, T[i - 1], s[i], T[i])

\* No delta tells nothing.
LEMMA TellsNone ==
  ASSUME NEW with, NEW a
  PROVE  Tells(with, a, <<>>, a)
<1> DEFINE T == [i \in {0} |-> a]
           none == <<>>
<1>1. IsSeq(none) /\ Len(none) = 0 BY SeqEmpty
<1>2. T[0] = a /\ T[Len(none)] = a BY <1>1
<1> HIDE DEF T, none
<1>3. Tells(with, a, none, a) BY <1>1, <1>2 DEF Tells
<1> QED BY <1>3 DEF none

\* One delta tells what follows it.
LEMMA TellsOne ==
  ASSUME NEW with, NEW a, NEW x, NEW b, Follows(with, a, x, b)
  PROVE  Tells(with, a, <<x>>, b)
<1> DEFINE T == [i \in 0..1 |-> IF i = 0 THEN a ELSE b]
           one == <<x>>
<1>1. IsSeq(one) /\ Len(one) = 1 /\ one[1] = x BY SeqOne
<1>2. T[0] = a /\ T[1] = b OBVIOUS
<1> HIDE DEF T, one
<1>3. \A i \in 1..Len(one) : Follows(with, T[i - 1], one[i], T[i])
  <2>1. \A i \in 1..1 : i = 1 /\ i - 1 = 0 OBVIOUS
  <2> QED BY <1>1, <1>2, <2>1
<1>4. Tells(with, a, one, b) BY <1>1, <1>2, <1>3 DEF Tells
<1> QED BY <1>4 DEF one

\* Deltas after deltas tell on from where those left off.
LEMMA TellsCat ==
  ASSUME NEW with, NEW a, NEW b, NEW c, NEW s, NEW t, Tells(with, a, s, b), Tells(with, b, t, c)
  PROVE  Tells(with, a, s \o t, c)
<1> DEFINE m == Len(s)
           n == Len(t)
<1>0. IsSeq(s) /\ IsSeq(t) BY DEF Tells
<1>1. PICK T : /\ T[0] = a /\ T[m] = b
               /\ \A i \in 1..m : Follows(with, T[i - 1], s[i], T[i]) BY DEF Tells
<1>2. PICK U : /\ U[0] = b /\ U[n] = c
               /\ \A i \in 1..n : Follows(with, U[i - 1], t[i], U[i]) BY DEF Tells
<1>3. m \in Nat /\ n \in Nat BY <1>0, SeqDomain
<1> DEFINE u == s \o t
           V == [i \in 0..(m + n) |-> IF i <= m THEN T[i] ELSE U[i - m]]
<1>4. /\ IsSeq(u) /\ Len(u) = m + n /\ (\A i \in 1..m : u[i] = s[i])
      /\ \A i \in 1..n : u[m + i] = t[i] BY <1>0, SeqCat
<1> HIDE DEF u, m, n
<1>5. V[0] = a /\ V[m + n] = c
  <2>1. V[0] = T[0] BY <1>3
  <2>2. V[m + n] = c
    <3>1. CASE n = 0 BY <1>1, <1>2, <1>3, <3>1
    <3>2. CASE n # 0
      <4>1. m + n \in 0..(m + n) /\ ~(m + n <= m) /\ (m + n) - m = n BY <1>3, <3>2
      <4>2. V[m + n] = U[n] BY <4>1
      <4> HIDE DEF V
      <4> QED BY <1>2, <4>2
    <3> QED BY <3>1, <3>2
  <2> HIDE DEF V
  <2> QED BY <1>1, <2>1, <2>2
<1>6. ASSUME NEW i \in 1..(m + n) PROVE Follows(with, V[i - 1], u[i], V[i])
  <2>1. CASE i <= m
    <3>1. i \in 1..m /\ i \in 0..(m + n) /\ i - 1 \in 0..(m + n) /\ i - 1 <= m BY <1>3, <2>1
    <3>2. V[i] = T[i] /\ V[i - 1] = T[i - 1] BY <2>1, <3>1
    <3>3. u[i] = s[i] BY <1>4, <3>1
    <3> HIDE DEF V
    <3> QED BY <1>1, <3>1, <3>2, <3>3
  <2>2. CASE ~(i <= m)
    <3> DEFINE j == i - m
    <3>1. j \in 1..n /\ i = m + j /\ i \in 0..(m + n) /\ i - 1 \in 0..(m + n)
          /\ (i - 1) - m = j - 1 BY <1>3, <2>2
    <3>2. V[i] = U[j] BY <2>2, <3>1
    <3>3. V[i - 1] = U[j - 1]
      <4>1. CASE j = 1
        <5>1. i - 1 = m /\ i - 1 <= m BY <1>3, <4>1
        <5>2. V[i - 1] = T[m] BY <3>1, <5>1
        <5> HIDE DEF V
        <5> QED BY <1>1, <1>2, <4>1, <5>2
      <4>2. CASE j # 1
        <5>1. ~(i - 1 <= m) BY <1>3, <3>1, <4>2
        <5>2. V[i - 1] = U[(i - 1) - m] BY <3>1, <5>1
        <5> HIDE DEF V, j
        <5> QED BY <3>1, <5>2
      <4> QED BY <4>1, <4>2
    <3> HIDE DEF V, j
    <3>4. u[i] = t[j] BY <1>4, <3>1
    <3> QED BY <1>2, <3>1, <3>2, <3>3, <3>4
  <2> QED BY <2>1, <2>2, <1>3
<1> HIDE DEF V
<1>7. Tells(with, a, u, c) BY <1>4, <1>5, <1>6 DEF Tells
<1> QED BY <1>7 DEF u

\* A client of the upstream, and what the gateway has made of the same frames: the
\* same texts and calls; an end only where the upstream has put one.
IsHeardCall(x) == DOMAIN x = {"at", "call", "args"}

Mirrors(caught, tale) ==
  /\ IsSeq(caught) /\ IsSeq(tale) /\ Len(caught) = Len(tale)
  /\ \A i \in 1..Len(tale) : /\ IsHeardCall(caught[i])
                             /\ caught[i].call = tale[i].call /\ caught[i].args = tale[i].args

AwaitsFinish(d) == d.completed /\ d.started /\ ~d.done /\ ~d.failed

Agrees(w, x) ==
  /\ StoryIsSound(x.h)
  /\ x.source.think = x.h.think /\ x.source.text = x.h.text
  /\ Mirrors(x.source.calls, x.h.calls)
  /\ x.h.done => x.stated = "ended" /\ EndClass(x.source.end) = EndClass(x.h.reason)
  /\ x.stated = "ended" => \/ x.h.done
                           \/ x.dec.failed
                           \/ w.up = "claude" /\ AwaitsFinish(x.dec)
  /\ x.dec.failed /\ x.stated = "ended" => w.fate = "errs late"
  /\ w.up = "claude" =>
       /\ x.dec.done <=> x.h.done
       /\ AwaitsFinish(x.dec) => /\ x.h.begun /\ x.stated = "ended"
                                /\ EndClass(x.source.end) = "normal"

Reads(w, x, f, y) ==
  LET step == DecodeChunk(w.up, x.dec, f) IN
  /\ y.dec = step.state
  /\ Tells(w.loose, x.h, step.deltas, y.h)
  /\ y.source = IF x.source.over \/ f.f = "error" THEN x.source
                ELSE ReadOne(w.up, x.source, f)
  /\ y.stated = IF x.stated = "" THEN EndIn(f) ELSE x.stated
  /\ Agrees(w, y)

\* One frame after the other.
Leads(with, a, s, b) ==
  /\ IsSeq(s)
  /\ \E T : /\ T[0] = a /\ T[Len(s)] = b
           /\ \A i \in 1..Len(s) : Reads(with, T[i - 1], s[i], T[i])

\* No frame leads nowhere.
LEMMA LeadsNone ==
  ASSUME NEW with, NEW a
  PROVE  Leads(with, a, <<>>, a)
<1> DEFINE T == [i \in {0} |-> a]
           none == <<>>
<1>1. IsSeq(none) /\ Len(none) = 0 BY SeqEmpty
<1>2. T[0] = a /\ T[Len(none)] = a BY <1>1
<1> HIDE DEF T, none
<1>3. Leads(with, a, none, a) BY <1>1, <1>2 DEF Leads
<1> QED BY <1>3 DEF none

\* One frame leads to what its reading makes.
LEMMA LeadsOne ==
  ASSUME NEW with, NEW a, NEW x, NEW b, Reads(with, a, x, b)
  PROVE  Leads(with, a, <<x>>, b)
<1> DEFINE T == [i \in 0..1 |-> IF i = 0 THEN a ELSE b]
           one == <<x>>
<1>1. IsSeq(one) /\ Len(one) = 1 /\ one[1] = x BY SeqOne
<1>2. T[0] = a /\ T[1] = b OBVIOUS
<1> HIDE DEF T, one
<1>3. \A i \in 1..Len(one) : Reads(with, T[i - 1], one[i], T[i])
  <2>1. \A i \in 1..1 : i = 1 /\ i - 1 = 0 OBVIOUS
  <2> QED BY <1>1, <1>2, <2>1
<1>4. Leads(with, a, one, b) BY <1>1, <1>2, <1>3 DEF Leads
<1> QED BY <1>4 DEF one

\* Frames after frames lead on from where those left off.
LEMMA LeadsCat ==
  ASSUME NEW with, NEW a, NEW b, NEW c, NEW s, NEW t, Leads(with, a, s, b), Leads(with, b, t, c)
  PROVE  Leads(with, a, s \o t, c)
<1> DEFINE m == Len(s)
           n == Len(t)
<1>0. IsSeq(s) /\ IsSeq(t) BY DEF Leads
<1>1. PICK T : /\ T[0] = a /\ T[m] = b
               /\ \A i \in 1..m : Reads(with, T[i - 1], s[i], T[i]) BY DEF Leads
<1>2. PICK U : /\ U[0] = b /\ U[n] = c
               /\ \A i \in 1..n : Reads(with, U[i - 1], t[i], U[i]) BY DEF Leads
<1>3. m \in Nat /\ n \in Nat BY <1>0, SeqDomain
<1> DEFINE u == s \o t
           V == [i \in 0..(m + n) |-> IF i <= m THEN T[i] ELSE U[i - m]]
<1>4. /\ IsSeq(u) /\ Len(u) = m + n /\ (\A i \in 1..m : u[i] = s[i])
      /\ \A i \in 1..n : u[m + i] = t[i] BY <1>0, SeqCat
<1> HIDE DEF u, m, n
<1>5. V[0] = a /\ V[m + n] = c
  <2>1. V[0] = T[0] BY <1>3
  <2>2. V[m + n] = c
    <3>1. CASE n = 0 BY <1>1, <1>2, <1>3, <3>1
    <3>2. CASE n # 0
      <4>1. m + n \in 0..(m + n) /\ ~(m + n <= m) /\ (m + n) - m = n BY <1>3, <3>2
      <4>2. V[m + n] = U[n] BY <4>1
      <4> HIDE DEF V
      <4> QED BY <1>2, <4>2
    <3> QED BY <3>1, <3>2
  <2> HIDE DEF V
  <2> QED BY <1>1, <2>1, <2>2
<1>6. ASSUME NEW i \in 1..(m + n) PROVE Reads(with, V[i - 1], u[i], V[i])
  <2>1. CASE i <= m
    <3>1. i \in 1..m /\ i \in 0..(m + n) /\ i - 1 \in 0..(m + n) /\ i - 1 <= m BY <1>3, <2>1
    <3>2. V[i] = T[i] /\ V[i - 1] = T[i - 1] BY <2>1, <3>1
    <3>3. u[i] = s[i] BY <1>4, <3>1
    <3> HIDE DEF V
    <3> QED BY <1>1, <3>1, <3>2, <3>3
  <2>2. CASE ~(i <= m)
    <3> DEFINE j == i - m
    <3>1. j \in 1..n /\ i = m + j /\ i \in 0..(m + n) /\ i - 1 \in 0..(m + n)
          /\ (i - 1) - m = j - 1 BY <1>3, <2>2
    <3>2. V[i] = U[j] BY <2>2, <3>1
    <3>3. V[i - 1] = U[j - 1]
      <4>1. CASE j = 1
        <5>1. i - 1 = m /\ i - 1 <= m BY <1>3, <4>1
        <5>2. V[i - 1] = T[m] BY <3>1, <5>1
        <5> HIDE DEF V
        <5> QED BY <1>1, <1>2, <4>1, <5>2
      <4>2. CASE j # 1
        <5>1. ~(i - 1 <= m) BY <1>3, <3>1, <4>2
        <5>2. V[i - 1] = U[(i - 1) - m] BY <3>1, <5>1
        <5> HIDE DEF V, j
        <5> QED BY <3>1, <5>2
      <4> QED BY <4>1, <4>2
    <3> HIDE DEF V, j
    <3>4. u[i] = t[j] BY <1>4, <3>1
    <3> QED BY <1>2, <3>1, <3>2, <3>3, <3>4
  <2> QED BY <2>1, <2>2, <1>3
<1> HIDE DEF V
<1>7. Leads(with, a, u, c) BY <1>4, <1>5, <1>6 DEF Leads
<1> QED BY <1>7 DEF u

\* The first frame of several, and what is left.
LEMMA LeadsFirst ==
  ASSUME NEW with, NEW a, NEW b, NEW s, Leads(with, a, s, b), s # <<>>
  PROVE  \E m : Reads(with, a, Head(s), m) /\ Leads(with, m, Tail(s), b)
<1> DEFINE n == Len(s)
           t == Tail(s)
<1>0. IsSeq(s) BY DEF Leads
<1>1. PICK T : /\ T[0] = a /\ T[n] = b
               /\ \A i \in 1..n : Reads(with, T[i - 1], s[i], T[i]) BY DEF Leads
<1>2. /\ Head(s) = s[1] /\ IsSeq(t) /\ Len(t) = n - 1 /\ n \in Nat \ {0}
      /\ \A i \in 1..(n - 1) : t[i] = s[i + 1] BY <1>0, SeqRest
<1> DEFINE U == [i \in 0..(n - 1) |-> T[i + 1]]
<1>3. U[0] = T[1] /\ U[n - 1] = T[n] BY <1>2
<1> HIDE DEF n, t
<1>4. ASSUME NEW i \in 1..(n - 1) PROVE Reads(with, U[i - 1], t[i], U[i])
  <2>1. i + 1 \in 1..n /\ (i + 1) - 1 = i /\ i - 1 \in 0..(n - 1) /\ i \in 0..(n - 1)
        /\ (i - 1) + 1 = i BY <1>2
  <2>2. U[i - 1] = T[i] /\ U[i] = T[i + 1] BY <2>1
  <2>3. t[i] = s[i + 1] BY <1>2
  <2>4. Reads(with, T[(i + 1) - 1], s[i + 1], T[i + 1]) BY <1>1, <2>1
  <2> HIDE DEF U
  <2> QED BY <2>1, <2>2, <2>3, <2>4
<1> HIDE DEF U
<1>5. Leads(with, T[1], t, b) BY <1>1, <1>2, <1>3, <1>4 DEF Leads
<1>6. Reads(with, a, s[1], T[1])
  <2>1. 1 \in 1..n /\ 1 - 1 = 0 BY <1>2
  <2> QED BY <1>1, <2>1
<1>7. Reads(with, a, Head(s), T[1]) /\ Leads(with, T[1], Tail(s), b) BY <1>2, <1>5, <1>6 DEF t
<1> QED BY <1>7

\* What holds of a story and passes along what is told.
LEMMA TellsSound ==
  ASSUME NEW loose, NEW h, NEW s, NEW k, Tells(loose, h, s, k), StoryIsSound(h)
  PROVE  StoryIsSound(k) /\ (k.done <=> h.done \/ SaysDone(s))
<1> DEFINE n == Len(s)
<1>0. IsSeq(s) /\ n \in Nat /\ DOMAIN s = 1..n BY SeqDomain DEF Tells
<1>1. PICK T : /\ T[0] = h /\ T[n] = k
               /\ \A i \in 1..n : Follows(loose, T[i - 1], s[i], T[i]) BY DEF Tells
<1> DEFINE Said(i) == \E j \in 1..i : s[j].d = "done"
           X == {i \in Nat : StoryIsSound(T[i]) /\ (T[i].done <=> h.done \/ Said(i))}
<1>2. 0 \in X
  <2>1. ~Said(0) OBVIOUS
  <2> HIDE DEF Said
  <2> QED BY <1>1, <2>1
<1>3. ASSUME NEW i \in 0..(n - 1), i \in X PROVE i + 1 \in X
  <2>1. i + 1 \in 1..n /\ (i + 1) - 1 = i /\ i + 1 \in Nat BY <1>0
  <2>2. Allowed(loose, T[i], s[i + 1]) /\ T[i + 1] = After(T[i], s[i + 1])
    BY <1>1, <2>1 DEF Follows
  <2>3. StoryIsSound(T[i]) BY <1>3
  <2>4. StoryIsSound(T[i + 1]) BY <2>2, <2>3, StoryStaysSound
  <2>5. T[i + 1].done <=> T[i].done \/ s[i + 1].d = "done"
    <3>1. DOMAIN T[i] = StoryFields BY <2>3 DEF StoryIsSound
    <3> QED BY <2>2, <3>1 DEF Allowed, After, StoryFields
  <2>6. Said(i + 1) <=> Said(i) \/ s[i + 1].d = "done"
    <3>1. 1..(i + 1) = 1..i \cup {i + 1} BY <2>1
    <3> QED BY <3>1
  <2> HIDE DEF Said
  <2> QED BY <1>3, <2>1, <2>4, <2>5, <2>6
<1>4. \A i \in 0..n : i \in X
  <2> HIDE DEF X, n
  <2> QED BY <1>0, <1>2, <1>3, UpTo
<1>5. StoryIsSound(T[n]) /\ (T[n].done <=> h.done \/ Said(n))
  <2> HIDE DEF Said
  <2> QED BY <1>0, <1>4
<1>6. Said(n) <=> SaysDone(s) BY <1>0 DEF SaysDone
<1> HIDE DEF Said
<1> QED BY <1>1, <1>5, <1>6

\* No calls mirror no calls.
LEMMA MirrorsNone == Mirrors(<<>>, <<>>)
<1>1. IsSeq(<<>>) /\ Len(<<>>) = 0 BY SeqEmpty
<1> QED BY <1>1 DEF Mirrors

\* A call opened on both sides keeps them mirrored.
LEMMA MirrorOpens ==
  ASSUME NEW caught, NEW tale, Mirrors(caught, tale), NEW y, NEW x,
         IsHeardCall(x), x.call = y.call, x.args = y.args,
         NEW after, after = Append(caught, x), NEW next, next = Append(tale, y)
  PROVE  /\ Mirrors(after, next)
         /\ Len(after) = Len(tale) + 1 /\ Len(next) = Len(tale) + 1 /\ Len(tale) \in Nat
         /\ \A i \in 1..Len(tale) : after[i] = caught[i] /\ next[i] = tale[i]
         /\ after[Len(tale) + 1] = x /\ next[Len(tale) + 1] = y
<1> DEFINE n == Len(tale)
<1>1. IsSeq(caught) /\ IsSeq(tale) /\ Len(caught) = n BY DEF Mirrors
<1>2. n \in Nat BY <1>1, SeqDomain
<1>3. /\ IsSeq(after) /\ Len(after) = n + 1 /\ (\A i \in 1..n : after[i] = caught[i])
      /\ after[n + 1] = x
  <2>1. /\ IsSeq(after) /\ Len(after) = Len(caught) + 1
        /\ (\A i \in 1..Len(caught) : after[i] = caught[i]) /\ after[Len(caught) + 1] = x
    BY <1>1, SeqMore
  <2> HIDE DEF n
  <2> QED BY <1>1, <2>1
<1>4. /\ IsSeq(next) /\ Len(next) = n + 1 /\ (\A i \in 1..n : next[i] = tale[i])
      /\ next[n + 1] = y BY <1>1, SeqMore
<1>6. \A i \in 1..n : /\ IsHeardCall(caught[i])
                      /\ caught[i].call = tale[i].call /\ caught[i].args = tale[i].args
  BY DEF Mirrors
<1> HIDE DEF n
<1>7. ASSUME NEW i \in 1..(n + 1)
      PROVE  /\ IsHeardCall(after[i])
             /\ after[i].call = next[i].call /\ after[i].args = next[i].args
  <2>1. CASE i = n + 1 BY <1>3, <1>4, <2>1
  <2>2. CASE i # n + 1
    <3>1. i \in 1..n BY <1>2, <2>2
    <3>2. after[i] = caught[i] /\ next[i] = tale[i] BY <1>3, <1>4, <3>1
    <3> QED BY <1>6, <3>1, <3>2
  <2> QED BY <2>1, <2>2
<1>8. Mirrors(after, next) BY <1>3, <1>4, <1>7 DEF Mirrors
<1> QED BY <1>2, <1>3, <1>4, <1>8 DEF n

ArgsHeard(calls, at, body) ==
  [i \in DOMAIN calls |-> IF calls[i].at = at
                          THEN [calls[i] EXCEPT !.args = @ \o body] ELSE calls[i]]

\* So do arguments added to the calls found at the same place on both sides.
LEMMA MirrorArgs ==
  ASSUME NEW caught, NEW tale, Mirrors(caught, tale), NEW at, NEW index, NEW body, IsSeq(body),
         \A i \in 1..Len(tale) : DOMAIN tale[i] = CallFields /\ IsSeq(tale[i].args),
         \A i \in 1..Len(tale) : caught[i].at = at <=> tale[i].index = index
  PROVE  LET after == ArgsHeard(caught, at, body) IN
         /\ Mirrors(after, WithArgs(tale, index, body))
         /\ Len(after) = Len(tale)
         /\ \A i \in 1..Len(tale) : after[i].at = caught[i].at
<1> DEFINE n == Len(tale)
           after == ArgsHeard(caught, at, body)
           next == WithArgs(tale, index, body)
<1>1. IsSeq(caught) /\ IsSeq(tale) /\ Len(caught) = n BY DEF Mirrors
<1>2. n \in Nat /\ DOMAIN caught = 1..n BY <1>1, SeqDomain
<1>3. /\ IsSeq(next) /\ Len(next) = n
      /\ \A i \in 1..n : /\ next[i].call = tale[i].call
                         /\ next[i].args = IF tale[i].index = index THEN tale[i].args \o body
                                           ELSE tale[i].args BY <1>1, CallsAfterArgs
<1>4. after = [i \in 1..n |-> after[i]] BY <1>2 DEF ArgsHeard
<1>5. ASSUME NEW i \in 1..n
      PROVE  after[i] = IF caught[i].at = at THEN [caught[i] EXCEPT !.args = caught[i].args \o body]
                        ELSE caught[i] BY <1>2 DEF ArgsHeard
<1> HIDE DEF after, next, n
<1>6. IsSeq(after) /\ Len(after) = n BY <1>2, <1>4, SeqFunction
<1>7. ASSUME NEW i \in 1..n
      PROVE  /\ IsHeardCall(after[i]) /\ after[i].at = caught[i].at
             /\ after[i].call = next[i].call /\ after[i].args = next[i].args
  <2>1. /\ IsHeardCall(caught[i])
        /\ caught[i].call = tale[i].call /\ caught[i].args = tale[i].args BY DEF Mirrors, n
  <2>2. CASE caught[i].at = at
    <3>1. tale[i].index = index BY <2>2 DEF n
    <3>2. after[i] = [caught[i] EXCEPT !.args = caught[i].args \o body] BY <1>5, <2>2
    <3>3. /\ IsHeardCall(after[i]) /\ after[i].at = caught[i].at
          /\ after[i].call = caught[i].call /\ after[i].args = caught[i].args \o body
      BY <2>1, <3>2 DEF IsHeardCall
    <3>4. next[i].args = tale[i].args \o body /\ next[i].call = tale[i].call BY <1>3, <3>1
    <3> QED BY <2>1, <3>3, <3>4
  <2>3. CASE caught[i].at # at
    <3>1. tale[i].index # index BY <2>3 DEF n
    <3>2. after[i] = caught[i] BY <1>5, <2>3
    <3>3. next[i].args = tale[i].args /\ next[i].call = tale[i].call BY <1>3, <3>1
    <3> QED BY <2>1, <3>2, <3>3
  <2> QED BY <2>2, <2>3
<1>8. Mirrors(after, next) BY <1>3, <1>6, <1>7 DEF Mirrors
<1> QED BY <1>6, <1>7, <1>8 DEF after, next, n

\* What is heard under one name is what is told under the other.
LEMMA MirrorKnown ==
  ASSUME NEW caught, NEW other, NEW tale, Mirrors(caught, tale), Mirrors(other, tale)
  PROVE  Known(caught) = Known(other) /\ Len(caught) = Len(other)
<1>1. /\ IsSeq(caught) /\ IsSeq(other) /\ Len(caught) = Len(tale) /\ Len(other) = Len(tale)
  BY DEF Mirrors
<1>2. DOMAIN caught = 1..Len(tale) /\ DOMAIN other = 1..Len(tale) BY <1>1, SeqDomain
<1>3. \A i \in 1..Len(tale) : caught[i].call = other[i].call /\ caught[i].args = other[i].args
  BY DEF Mirrors
<1> QED BY <1>1, <1>2, <1>3 DEF Known
----------------------------------------
(* Encoders and clients as records. *)

EncFields == {"out", "usage", "includeUsage", "reason", "hasStop", "ended", "hasTools", "block",
              "blockIndex", "tools", "created", "items", "outputIndex", "message", "text",
              "reasoning"}

CliFields == {"ok", "begun", "over", "end", "usage", "think", "text", "calls", "block", "items"}

\* An encoder that has only written.
Same(e, g) ==
  /\ DOMAIN g = EncFields /\ IsSeq(g.out)
  /\ g.usage = e.usage /\ g.includeUsage = e.includeUsage /\ g.reason = e.reason
  /\ g.hasStop = e.hasStop /\ g.ended = e.ended /\ g.hasTools = e.hasTools
  /\ g.block = e.block /\ g.blockIndex = e.blockIndex /\ g.tools = e.tools
  /\ g.created = e.created /\ g.items = e.items /\ g.outputIndex = e.outputIndex
  /\ g.message = e.message /\ g.text = e.text /\ g.reasoning = e.reasoning

\* A frame written, and read by a caller that has read what was written before.
Shows(q, c, e, f, g) ==
  Same(e, g) /\ Client(q, c, g.out) = ReadOne(q, Client(q, c, e.out), f)

\* A frame emitted is shown to the caller's client.
LEMMA EmitShows ==
  ASSUME NEW q, NEW c, NEW e, DOMAIN e = EncFields, IsSeq(e.out), NEW f, NEW g, g = Emit(e, <<f>>)
  PROVE  Shows(q, c, e, f, g)
<1>1. g = [e EXCEPT !.out = e.out \o <<f>>] BY DEF Emit
<1>2. Append(e.out, f) = e.out \o <<f>> /\ IsSeq(Append(e.out, f)) BY SeqMore
<1>3. g.out = Append(e.out, f) BY <1>1, <1>2 DEF EncFields
<1>4. Same(e, g) BY <1>1, <1>2, <1>3 DEF Same, EncFields
<1>5. Client(q, c, Append(e.out, f)) = ReadOne(q, Client(q, c, e.out), f) BY ReadMore
<1> QED BY <1>3, <1>4, <1>5 DEF Shows

----------------------------------------
(* A client that hears what a story tells. *)

Heard(h, c) ==
  /\ DOMAIN c = CliFields
  /\ c.think = h.think /\ c.text = h.text /\ Mirrors(c.calls, h.calls)

\* A client that has only heard.
Untouched(c, g) ==
  /\ DOMAIN g = CliFields
  /\ g.ok = c.ok /\ g.begun = c.begun /\ g.over = c.over /\ g.end = c.end
  /\ g.usage = c.usage /\ g.block = c.block /\ g.items = c.items

\* A story to which calls alone have been added.
Aside(h, k) ==
  /\ DOMAIN k = StoryFields
  /\ k.begun = h.begun /\ k.done = h.done /\ k.reason = h.reason

\* What becomes of both when a text, a call or arguments are told and heard.
SaidTo(h, c, delta, k, g) ==
  /\ Heard(k, g) /\ Untouched(c, g) /\ Aside(h, k)
  /\ k.calls = h.calls /\ g.calls = c.calls /\ k.last = delta.d

CallTo(h, c, delta, at, k, g) ==
  LET n == Len(h.calls) IN
  /\ Heard(k, g) /\ Untouched(c, g) /\ Aside(h, k) /\ k.last = "call"
  /\ n \in Nat /\ Len(k.calls) = n + 1 /\ Len(g.calls) = n + 1
  /\ \A i \in 1..n : g.calls[i] = c.calls[i] /\ k.calls[i] = h.calls[i]
  /\ g.calls[n + 1].at = at
  /\ k.calls[n + 1] = [index |-> delta.index, call |-> delta.call, args |-> <<>>]

ArgsTo(h, c, delta, k, g) ==
  LET n == Len(h.calls) IN
  /\ Heard(k, g) /\ Untouched(c, g) /\ Aside(h, k) /\ k.last = h.last
  /\ Len(k.calls) = n /\ Len(g.calls) = n
  /\ \A i \in 1..n : /\ g.calls[i].at = c.calls[i].at
                     /\ k.calls[i].index = h.calls[i].index
                     /\ k.calls[i].call = h.calls[i].call
                     /\ k.calls[i].args = IF h.calls[i].index = delta.index
                                          THEN h.calls[i].args \o delta.body
                                          ELSE h.calls[i].args

\* A client that takes words as they are told stays with the story,
LEMMA HearsSaid ==
  ASSUME NEW h, StoryIsSound(h), NEW c, Heard(h, c), NEW delta, delta.d \in {"think", "text"},
         NEW k, k = After(h, delta), NEW g, g = Hears(c, delta.d, delta.body)
  PROVE  SaidTo(h, c, delta, k, g)
<1>1. DOMAIN h = StoryFields /\ DOMAIN c = CliFields BY DEF StoryIsSound, Heard
<1>2. CASE delta.d = "think"
  <2>1. PICK more : more = h.think \o delta.body OBVIOUS
  <2>2. k = [h EXCEPT !.think = more, !.last = "think"] BY <1>2, <2>1 DEF After
  <2>3. g = [c EXCEPT !.think = c.think \o delta.body] BY <1>2 DEF Hears
  <2>4. c.think = h.think BY DEF Heard
  <2>5. g = [c EXCEPT !.think = more] BY <2>1, <2>3, <2>4
  <2>6. /\ DOMAIN k = StoryFields /\ k.think = more /\ k.text = h.text /\ k.calls = h.calls
        /\ k.begun = h.begun /\ k.done = h.done /\ k.reason = h.reason /\ k.last = "think"
    BY <1>1, <2>2 DEF StoryFields
  <2>7. Untouched(c, g) /\ g.think = more /\ g.text = c.text /\ g.calls = c.calls
    BY <1>1, <2>5 DEF Untouched, CliFields
  <2> QED BY <1>2, <2>6, <2>7 DEF Heard, Aside, Untouched, SaidTo
<1>3. CASE delta.d = "text"
  <2>1. PICK more : more = h.text \o delta.body OBVIOUS
  <2>2. k = [h EXCEPT !.text = more, !.last = "text"] BY <1>3, <2>1 DEF After
  <2>3. g = [c EXCEPT !.text = c.text \o delta.body] BY <1>3 DEF Hears
  <2>4. c.text = h.text BY DEF Heard
  <2>5. g = [c EXCEPT !.text = more] BY <2>1, <2>3, <2>4
  <2>6. /\ DOMAIN k = StoryFields /\ k.text = more /\ k.think = h.think /\ k.calls = h.calls
        /\ k.begun = h.begun /\ k.done = h.done /\ k.reason = h.reason /\ k.last = "text"
    BY <1>1, <2>2 DEF StoryFields
  <2>7. Untouched(c, g) /\ g.text = more /\ g.think = c.think /\ g.calls = c.calls
    BY <1>1, <2>5 DEF Untouched, CliFields
  <2> QED BY <1>3, <2>6, <2>7 DEF Heard, Aside, Untouched, SaidTo
<1> QED BY <1>2, <1>3

\* one that opens a call as it is told does,
LEMMA HearsCall ==
  ASSUME NEW h, StoryIsSound(h), NEW c, Heard(h, c), NEW delta, delta.d = "call", NEW at,
         NEW k, k = After(h, delta), NEW g, g = Opens(c, at, delta.call, <<>>)
  PROVE  CallTo(h, c, delta, at, k, g)
<1> DEFINE n == Len(h.calls)
<1>1. DOMAIN h = StoryFields /\ DOMAIN c = CliFields /\ IsSeq(h.calls) BY DEF StoryIsSound, Heard
<1>2. PICK none : none = <<>> OBVIOUS
<1>3. PICK new : new = [index |-> delta.index, call |-> delta.call, args |-> none] OBVIOUS
<1>4. PICK said : said = [at |-> at, call |-> delta.call, args |-> none] OBVIOUS
<1>16. IsHeardCall(said) /\ said.call = new.call /\ said.args = new.args
  BY <1>3, <1>4 DEF IsHeardCall
<1>5. k = [h EXCEPT !.calls = Append(h.calls, new), !.last = "call"] BY <1>2, <1>3 DEF After
<1>6. g = [c EXCEPT !.calls = Append(c.calls, said)] BY <1>2, <1>4 DEF Opens
<1>7. PICK more : more = Append(h.calls, new) OBVIOUS
<1>8. PICK caught : caught = Append(c.calls, said) OBVIOUS
<1> HIDE DEF n
<1>9. /\ k.calls = more /\ k.think = h.think /\ k.text = h.text /\ Aside(h, k) /\ k.last = "call"
  BY <1>1, <1>5, <1>7 DEF StoryFields, Aside
<1>10. Untouched(c, g) /\ g.think = c.think /\ g.text = c.text /\ g.calls = caught
  BY <1>1, <1>6, <1>8 DEF Untouched, CliFields
<1>11. Mirrors(c.calls, h.calls) BY DEF Heard
<1>12. /\ Mirrors(caught, more) /\ Len(caught) = n + 1 /\ Len(more) = n + 1 /\ n \in Nat
       /\ (\A i \in 1..n : caught[i] = c.calls[i] /\ more[i] = h.calls[i])
       /\ caught[n + 1] = said /\ more[n + 1] = new
  <2>1. PICK cc, hc : cc = c.calls /\ hc = h.calls OBVIOUS
  <2>2. caught = Append(cc, said) /\ more = Append(hc, new) /\ Mirrors(cc, hc)
    BY <1>7, <1>8, <1>11, <2>1
  <2>3. Mirrors(caught, more) BY ONLY <2>2, <1>16, MirrorOpens
  <2>4. Len(caught) = Len(hc) + 1 /\ Len(more) = Len(hc) + 1 /\ Len(hc) \in Nat
    BY ONLY <2>2, <1>16, MirrorOpens
  <2>5. \A i \in 1..Len(hc) : caught[i] = cc[i] /\ more[i] = hc[i]
    BY ONLY <2>2, <1>16, MirrorOpens
  <2>6. caught[Len(hc) + 1] = said BY ONLY <2>2, <1>16, MirrorOpens
  <2>7. more[Len(hc) + 1] = new BY ONLY <2>2, <1>16, MirrorOpens
  <2> QED BY <2>1, <2>3, <2>4, <2>5, <2>6, <2>7 DEF n
<1>13. said.at = at BY <1>4
<1>14. Heard(k, g) BY <1>9, <1>10, <1>12 DEF Heard, Untouched
<1> QED BY <1>2, <1>3, <1>9, <1>10, <1>12, <1>13, <1>14 DEF n, CallTo

\* and one that adds the arguments to the call they are of.
LEMMA HearsMore ==
  ASSUME NEW h, StoryIsSound(h), NEW c, Heard(h, c), NEW delta, delta.d = "args",
         IsSeq(delta.body), NEW at,
         \A i \in 1..Len(h.calls) : c.calls[i].at = at <=> h.calls[i].index = delta.index,
         NEW k, k = After(h, delta), NEW g, g = HearsArgs(c, at, delta.body)
  PROVE  ArgsTo(h, c, delta, k, g)
<1> DEFINE n == Len(h.calls)
<1>1. DOMAIN h = StoryFields /\ DOMAIN c = CliFields /\ IsSeq(h.calls) BY DEF StoryIsSound, Heard
<1>2. PICK more : more = WithArgs(h.calls, delta.index, delta.body) OBVIOUS
<1>3. PICK caught : caught = ArgsHeard(c.calls, at, delta.body) OBVIOUS
<1>4. k = [h EXCEPT !.calls = more] BY <1>2 DEF After
<1>5. g = [c EXCEPT !.calls = caught]
  <2>1. HearsArgs(c, at, delta.body) = [c EXCEPT !.calls = ArgsHeard(c.calls, at, delta.body)]
    BY Zenon DEF HearsArgs, ArgsHeard
  <2> QED BY <1>3, <2>1, Zenon
<1> HIDE DEF n
<1>6. /\ k.calls = more /\ k.think = h.think /\ k.text = h.text /\ Aside(h, k) /\ k.last = h.last
  BY <1>1, <1>4 DEF StoryFields, Aside
<1>7. Untouched(c, g) /\ g.think = c.think /\ g.text = c.text /\ g.calls = caught
  BY <1>1, <1>5 DEF Untouched, CliFields
<1>8. Mirrors(c.calls, h.calls) BY DEF Heard
<1>9. \A i \in 1..Len(h.calls) : DOMAIN h.calls[i] = CallFields /\ IsSeq(h.calls[i].args)
  BY DEF StoryIsSound
<1>10. /\ Mirrors(caught, more) /\ Len(caught) = n
       /\ \A i \in 1..n : caught[i].at = c.calls[i].at BY <1>2, <1>3, <1>8, <1>9, MirrorArgs DEF n
<1>11. /\ Len(more) = n
       /\ \A i \in 1..n : /\ more[i].index = h.calls[i].index /\ more[i].call = h.calls[i].call
                          /\ more[i].args = IF h.calls[i].index = delta.index
                                            THEN h.calls[i].args \o delta.body
                                            ELSE h.calls[i].args
  BY <1>1, <1>2, <1>9, CallsAfterArgs DEF n
<1>12. Heard(k, g) BY <1>6, <1>7, <1>10 DEF Heard, Untouched
<1> QED BY <1>6, <1>7, <1>10, <1>11, <1>12 DEF n, ArgsTo

\* Deltas that say nothing: the first and the last.
Begins(h, k) ==
  /\ DOMAIN k = StoryFields /\ k.begun /\ k.done = h.done /\ k.reason = h.reason
  /\ k.think = h.think /\ k.text = h.text /\ k.calls = h.calls /\ k.last = h.last

Stops(h, delta, k) ==
  /\ DOMAIN k = StoryFields /\ k.begun = h.begun /\ k.done /\ k.reason = delta.reason
  /\ k.think = h.think /\ k.text = h.text /\ k.calls = h.calls /\ k.last = h.last

\* What a start tells.
LEMMA StartBegins ==
  ASSUME NEW h, StoryIsSound(h), NEW delta, delta.d = "start", NEW k, k = After(h, delta)
  PROVE  Begins(h, k)
<1>1. DOMAIN h = StoryFields BY DEF StoryIsSound
<1> QED BY <1>1 DEF After, StoryFields, Begins

\* What a stop tells.
LEMMA DoneStops ==
  ASSUME NEW h, StoryIsSound(h), NEW delta, delta.d = "done", NEW k, k = After(h, delta)
  PROVE  Stops(h, delta, k)
<1>1. DOMAIN h = StoryFields BY DEF StoryIsSound
<1> QED BY <1>1 DEF After, StoryFields, Stops

\* A client that hears nothing.
Silence(h, c, g) == Heard(h, g) /\ Untouched(c, g) /\ g.calls = c.calls

\* Empty words change nothing a client has heard.
LEMMA HearsNothing ==
  ASSUME NEW h, StoryIsSound(h), NEW c, Heard(h, c), NEW kind \in {"think", "text"},
         NEW body, body = <<>>, NEW g, g = Hears(c, kind, body)
  PROVE  Silence(h, c, g)
<1>1. DOMAIN c = CliFields BY DEF Heard
<1>2. c.think \o <<>> = c.think /\ c.text \o <<>> = c.text
  <2>1. IsSeq(c.think) /\ IsSeq(c.text) BY DEF Heard, StoryIsSound
  <2> QED BY <2>1, SeqEmpty, SeqCat
<1>3. g = [c EXCEPT !.think = c.think] \/ g = [c EXCEPT !.text = c.text] BY <1>2 DEF Hears
<1>4. Untouched(c, g) /\ g.think = c.think /\ g.text = c.text /\ g.calls = c.calls
  BY <1>1, <1>3 DEF Untouched, CliFields
<1> QED BY <1>4 DEF Heard, Untouched, Silence

\* A client at the end of a chunk, and what it has made of what the chunk carries.
ChunkEnds(g, f, r) ==
  /\ DOMAIN r = CliFields /\ r.ok = (g.ok /\ ~g.over) /\ r.over = g.over
  /\ r.think = g.think /\ r.text = g.text /\ r.calls = g.calls
  /\ r.end = IF f.finish = "" THEN g.end ELSE f.finish

\* A chunk before the end is read whole, and may state the end.
LEMMA ChunkIsRead ==
  ASSUME NEW c, NEW f, f.f = "chunk", NEW a, a = Hears(c, "think", f.think),
         NEW b, b = Hears(a, "text", f.text), NEW g, g = ChatHeard(b, f.calls),
         DOMAIN g = CliFields, c.end = "" \/ (f.think = <<>> /\ f.text = <<>> /\ f.calls = <<>>),
         NEW r, r = ReadOne("chat", c, f)
  PROVE  ChunkEnds(g, f, r)
<1> DEFINE silent == c.end = "" \/ (f.think = <<>> /\ f.text = <<>> /\ f.calls = <<>>)
<1>1. r = ChatClient(c, f) BY DEF ReadOne
<1>10. g = ChatHeard(Hears(Hears(c, "think", f.think), "text", f.text), f.calls) OBVIOUS
<1>2. r = [Told(Expect(g, silent), f.usage) EXCEPT !.end = IF f.finish = "" THEN @ ELSE f.finish]
  <2>1. f.f # "[DONE]" OBVIOUS
  <2> QED BY ONLY <1>1, <1>10, <2>1, ChatReads, Zenon DEF silent
<1>3. silent OBVIOUS
<1> HIDE DEF silent
<1>4. PICK x : x = Expect(g, silent) OBVIOUS
<1>5. /\ DOMAIN x = CliFields /\ x.ok = (g.ok /\ ~g.over) /\ x.over = g.over
      /\ x.think = g.think /\ x.text = g.text /\ x.calls = g.calls /\ x.end = g.end
  BY <1>3, <1>4 DEF Expect, CliFields
<1>6. PICK y : y = Told(x, f.usage) OBVIOUS
<1>7. /\ DOMAIN y = CliFields /\ y.ok = x.ok /\ y.over = x.over
      /\ y.think = x.think /\ y.text = x.text /\ y.calls = x.calls /\ y.end = x.end
  BY <1>5, <1>6 DEF Told, CliFields
<1>8. r = [y EXCEPT !.end = IF f.finish = "" THEN y.end ELSE f.finish] BY <1>2, <1>4, <1>6
<1>9. /\ DOMAIN r = CliFields /\ r.ok = y.ok /\ r.over = y.over
      /\ r.think = y.think /\ r.text = y.text /\ r.calls = y.calls
      /\ r.end = IF f.finish = "" THEN y.end ELSE f.finish BY <1>7, <1>8 DEF CliFields
<1> QED BY <1>5, <1>7, <1>9 DEF ChunkEnds

\* A chunk that carries a delta.
Carries(f, delta) ==
  /\ f.f = "chunk"
  /\ \/ delta.d = "think" /\ f.think = delta.body /\ f.text = <<>> /\ f.calls = <<>>
     \/ delta.d = "text" /\ f.think = <<>> /\ f.text = delta.body /\ f.calls = <<>>
     \/ /\ delta.d = "call" /\ f.think = <<>> /\ f.text = <<>>
        /\ f.calls = <<[index |-> delta.index, call |-> delta.call, args |-> <<>>]>>
     \/ /\ delta.d = "args" /\ f.think = <<>> /\ f.text = <<>>
        /\ f.calls = <<[index |-> delta.index, call |-> 0, args |-> delta.body]>>

ByIndex(h, c) == \A i \in 1..Len(h.calls) : c.calls[i].at = h.calls[i].index

ChatListens(h, c) == Heard(h, c) /\ c.ok /\ ~c.over /\ ByIndex(h, c)

\* A chunk of nothing tells a chat client nothing but an end.
LEMMA EmptyChunk ==
  ASSUME NEW h, StoryIsSound(h), NEW c, ChatListens(h, c), NEW f, f.f = "chunk",
         f.think = <<>>, f.text = <<>>, f.calls = <<>>
  PROVE  LET r == ReadOne("chat", c, f) IN
         ChatListens(h, r) /\ r.end = IF f.finish = "" THEN c.end ELSE f.finish
<1>0. Heard(h, c) /\ c.ok /\ ~c.over /\ ByIndex(h, c) BY DEF ChatListens
<1>1. PICK r : r = ReadOne("chat", c, f) OBVIOUS
<1>2. PICK a : a = Hears(c, "think", f.think) OBVIOUS
<1>3. Silence(h, c, a) BY <1>0, <1>2, HearsNothing
<1>4. PICK b : b = Hears(a, "text", f.text) OBVIOUS
<1>5. Silence(h, a, b) BY <1>3, <1>4, HearsNothing DEF Silence
<1>6. b = ChatHeard(b, f.calls) BY HeardNone
<1>8. DOMAIN b = CliFields BY <1>5 DEF Heard, Silence
<1>9. ChunkEnds(b, f, r) BY <1>1, <1>2, <1>4, <1>6, <1>8, ChunkIsRead
<1>10. ChatListens(h, r)
  BY <1>0, <1>3, <1>5, <1>9 DEF ChatListens, Heard, Untouched, ByIndex, ChunkEnds, Silence
<1> QED BY <1>1, <1>3, <1>5, <1>9, <1>10 DEF Untouched, ChunkEnds, Silence

\* A client that hears a delta it is carried.
ChatHears(h, delta, r, f) == ChatListens(After(h, delta), r) /\ r.end = f.finish

Unended(c) == c.end = ""

\* A chunk that carries a delta tells a chat client that delta.
LEMMA ChatListensOn ==
  ASSUME NEW loose, NEW h, StoryIsSound(h), NEW c, ChatListens(h, c), Unended(c),
         NEW delta, Allowed(loose, h, delta), NEW f, Carries(f, delta)
  PROVE  ChatHears(h, delta, ReadOne("chat", c, f), f)
<1>0. Heard(h, c) /\ c.ok /\ ~c.over /\ ByIndex(h, c) BY DEF ChatListens
<1>1. PICK r : r = ReadOne("chat", c, f) OBVIOUS
<1>2. PICK k : k = After(h, delta) OBVIOUS
<1>3. StoryIsSound(k) BY <1>2, StoryStaysSound
<1>4. PICK a : a = Hears(c, "think", f.think) OBVIOUS
<1>5. PICK b : b = Hears(a, "text", f.text) OBVIOUS
<1>6. PICK g : g = ChatHeard(b, f.calls) OBVIOUS
<1>7. f.f = "chunk" BY DEF Carries
<1>8. Heard(k, g) /\ Untouched(c, g) /\ ByIndex(k, g)
  <2>1. CASE delta.d = "think"
    <3>1. f.think = delta.body /\ f.text = <<>> /\ f.calls = <<>> BY <2>1 DEF Carries
    <3>2. SaidTo(h, c, delta, k, a) BY <1>0, <1>2, <1>4, <2>1, <3>1, HearsSaid
    <3>3. Silence(k, a, b) BY <1>3, <1>5, <3>1, <3>2, HearsNothing DEF SaidTo
    <3>4. g = b BY <1>6, <3>1, HeardNone
    <3> QED BY <1>0, <3>2, <3>3, <3>4 DEF Untouched, ByIndex, Silence, SaidTo
  <2>2. CASE delta.d = "text"
    <3>1. f.think = <<>> /\ f.text = delta.body /\ f.calls = <<>> BY <2>2 DEF Carries
    <3>2. Silence(h, c, a) BY <1>0, <1>4, <3>1, HearsNothing
    <3>3. SaidTo(h, a, delta, k, b) BY <1>2, <1>5, <2>2, <3>1, <3>2, HearsSaid DEF Silence
    <3>4. g = b BY <1>6, <3>1, HeardNone
    <3> QED BY <1>0, <3>2, <3>3, <3>4 DEF Untouched, ByIndex, Silence, SaidTo
  <2>3. ASSUME delta.d \in {"call", "args"}
        PROVE  f.think = <<>> /\ f.text = <<>> /\ Heard(h, b) /\ Untouched(c, b) /\ ByIndex(h, b)
    <3>1. f.think = <<>> /\ f.text = <<>> BY <2>3 DEF Carries
    <3>2. Silence(h, c, a) BY <1>0, <1>4, <3>1, HearsNothing
    <3>3. Silence(h, a, b) BY <1>5, <3>1, <3>2, HearsNothing DEF Silence
    <3> QED BY <1>0, <3>1, <3>2, <3>3 DEF Untouched, ByIndex, Silence
  <2>4. CASE delta.d = "call"
    <3>0. PICK tc : tc = [index |-> delta.index, call |-> delta.call, args |-> <<>>] OBVIOUS
    <3>1. /\ f.calls = <<tc>> /\ tc.index = delta.index /\ tc.call = delta.call
          /\ tc.args = <<>> BY <2>4, <3>0 DEF Carries
    <3>2. delta.call # 0 BY <2>4 DEF Allowed
    <3>3. g = ChatHear(b, tc) BY <1>6, <3>1, HeardOne
    <3>4. g = Opens(b, delta.index, delta.call, <<>>) BY <3>1, <3>2, <3>3 DEF ChatHear
    <3>5. PICK n : n = Len(h.calls) OBVIOUS
    <3>6. CallTo(h, b, delta, delta.index, k, g) BY <1>2, <2>3, <2>4, <3>4, HearsCall
    <3>7. Heard(k, g) /\ Untouched(b, g) /\ n \in Nat /\ Len(k.calls) = n + 1
      BY <3>5, <3>6 DEF CallTo
    <3>8. \A i \in 1..n : g.calls[i] = b.calls[i] /\ k.calls[i] = h.calls[i]
      BY <3>5, <3>6 DEF CallTo
    <3>9. g.calls[n + 1].at = delta.index /\ k.calls[n + 1].index = delta.index
      BY <3>5, <3>6 DEF CallTo
    <3>10. ByIndex(k, g)
      <4>1. \A i \in 1..n : g.calls[i].at = k.calls[i].index BY <2>3, <2>4, <3>5, <3>8 DEF ByIndex
      <4> QED BY <3>7, <3>9, <4>1 DEF ByIndex
    <3> QED BY <2>3, <2>4, <3>7, <3>10 DEF Untouched
  <2>5. CASE delta.d = "args"
    <3>0. PICK tc : tc = [index |-> delta.index, call |-> 0, args |-> delta.body] OBVIOUS
    <3>1. /\ f.calls = <<tc>> /\ tc.index = delta.index /\ tc.call = 0
          /\ tc.args = delta.body BY <2>5, <3>0 DEF Carries
    <3>3. g = ChatHear(b, tc) BY <1>6, <3>1, HeardOne
    <3>4. g = HearsArgs(b, delta.index, delta.body) BY <3>1, <3>3 DEF ChatHear
    <3>5. \A i \in 1..Len(h.calls) : b.calls[i].at = delta.index <=> h.calls[i].index = delta.index
      BY <2>3, <2>5 DEF ByIndex
    <3>6. /\ Heard(k, g) /\ Untouched(b, g) /\ Len(k.calls) = Len(h.calls)
          /\ \A i \in 1..Len(h.calls) : /\ g.calls[i].at = b.calls[i].at
                                        /\ k.calls[i].index = h.calls[i].index
      <4>1. IsSeq(delta.body) BY <2>5 DEF Allowed
      <4>2. ArgsTo(h, b, delta, k, g) BY <1>2, <2>3, <2>5, <3>4, <3>5, <4>1, HearsMore
      <4> QED BY <4>2 DEF ArgsTo
    <3> QED BY <2>3, <2>5, <3>6 DEF Untouched, ByIndex
  <2> QED BY <2>1, <2>2, <2>4, <2>5 DEF Carries
<1>9. ChunkEnds(g, f, r)
  <2>1. DOMAIN g = CliFields BY <1>8 DEF Heard
  <2>2. c.end = "" BY DEF Unended
  <2> QED BY <1>1, <1>4, <1>5, <1>6, <1>7, <2>1, <2>2, ChunkIsRead
<1>10. ChatListens(k, r) BY <1>0, <1>8, <1>9 DEF ChatListens, Heard, Untouched, ByIndex, ChunkEnds
<1>11. r.end = f.finish BY <1>8, <1>9 DEF Untouched, ChunkEnds, Unended
<1> QED BY <1>1, <1>2, <1>10, <1>11 DEF ChatHears

----------------------------------------
(* The chat encoder and its caller. *)

\* An end of the kind that was verdict; of calls, in words of its own.
EndsAs(h, end, tools) ==
  /\ EndClass(end) = EndClass(h.reason)
  /\ EndClass(end) = "normal" /\ h.calls # <<>> => end = tools

\* An encoder that knows of the calls.
ToolsAs(k, m) == m.hasTools \in BOOLEAN /\ (m.hasTools <=> k.calls # <<>>)

ChatHolds(h, e, c) ==
  /\ DOMAIN e = EncFields /\ IsSeq(e.out)
  /\ ChatListens(h, c)
  /\ (Unended(c) <=> ~h.done)
  /\ ToolsAs(h, e)
  /\ e.hasStop \in BOOLEAN /\ (e.hasStop <=> h.done)
  /\ h.done => EndsAs(h, c.end, "tool_calls")

Unstopped(f) == f.finish = ""

Amid(e, m) == DOMAIN m = EncFields /\ m.out = e.out /\ m.hasStop = e.hasStop

\* The chunk of a delta is read for what it carries.
LEMMA ChatSays ==
  ASSUME NEW loose, NEW h, StoryIsSound(h), NEW delta, Allowed(loose, h, delta), ~h.done,
         NEW k, k = After(h, delta), ~k.done, NEW c0, NEW e, NEW c, c = Client("chat", c0, e.out),
         ChatHolds(h, e, c), NEW f, Carries(f, delta), Unstopped(f),
         NEW m, Amid(e, m), ToolsAs(k, m), NEW g, g = Emit(m, <<f>>)
  PROVE  ChatHolds(k, g, Client("chat", c0, g.out))
<1>1. IsSeq(e.out) /\ ChatListens(h, c) /\ Unended(c) BY DEF ChatHolds
<1>2. Shows("chat", c0, m, f, g) BY <1>1, EmitShows DEF Amid
<1>3. PICK r : r = ReadOne("chat", c, f) OBVIOUS
<1>4. ChatHears(h, delta, r, f) BY <1>1, <1>3, ChatListensOn
<1>5. ChatListens(k, r) BY <1>2, <1>4 DEF ChatHears
<1>8. Unended(r)
  <2>1. r.end = f.finish BY <1>4 DEF ChatHears
  <2> QED BY <2>1 DEF Unended, Unstopped
<1>6. Client("chat", c0, g.out) = r BY <1>2, <1>3 DEF Shows, Amid
<1>9. e.hasStop \in BOOLEAN /\ (e.hasStop <=> h.done) BY DEF ChatHolds
<1>10. ToolsAs(k, g) BY <1>2 DEF ToolsAs, Shows, Same
<1>11. DOMAIN g = EncFields /\ IsSeq(g.out) /\ g.hasStop = m.hasStop BY <1>2 DEF Shows, Same
<1>12. m.hasStop = e.hasStop BY DEF Amid
<1>7. ChatHolds(k, g, r) BY <1>5, <1>8, <1>9, <1>10, <1>11, <1>12 DEF ChatHolds
<1> QED BY <1>6, <1>7

\* A chunk without anything but an end, and a frame of no protocol.
LEMMA ChatSaysNothing ==
  ASSUME NEW h, StoryIsSound(h), NEW c, ChatListens(h, c), NEW delta, NEW k, Stops(h, delta, k),
         Unended(c), NEW f, f.f = "chunk", f.think = <<>>, f.text = <<>>, f.calls = <<>>
  PROVE  LET r == ReadOne("chat", c, f) IN ChatListens(k, r) /\ r.end = f.finish
<1>1. PICK r : r = ReadOne("chat", c, f) OBVIOUS
<1>2. ChatListens(h, r) /\ r.end = IF f.finish = "" THEN c.end ELSE f.finish BY <1>1, EmptyChunk
<1>3. ChatListens(k, r) BY <1>2 DEF ChatListens, Stops, Heard, ByIndex
<1> QED BY <1>1, <1>2, <1>3 DEF Unended

\* The finish_reason of chat is of the kind of the reason.
LEMMA ChatFinishes ==
  ASSUME NEW reason \in Reasons, NEW tools \in BOOLEAN
  PROVE  LET end == chatFinish(reason, tools) IN
         /\ end # "" /\ EndClass(end) = EndClass(reason)
         /\ EndClass(end) = "normal" /\ tools => end = "tool_calls"
BY DEF chatFinish, WithTools, IRStopReasonIsAbnormal, EndClass, Reasons

\* encodeChat keeps its caller with the story, whatever delta comes.
LEMMA ChatStep ==
  ASSUME NEW loose, NEW h, StoryIsSound(h), NEW delta, Allowed(loose, h, delta),
         NEW k, k = After(h, delta), NEW c0, NEW e, NEW c, c = Client("chat", c0, e.out),
         ChatHolds(h, e, c), NEW g, g = encodeChat(e, delta)
  PROVE  ChatHolds(k, g, Client("chat", c0, g.out))
<1>0. DOMAIN e = EncFields /\ IsSeq(e.out) /\ ChatListens(h, c) BY DEF ChatHolds
<1>1. CASE delta.d = "start"
  <2>1. g = e BY <1>1 DEF encodeChat
  <2>2. Begins(h, k) BY <1>1, StartBegins
  <2> QED BY <2>1, <2>2 DEF Begins, ChatHolds, ChatListens, Heard, ByIndex, EndsAs, ToolsAs
<1>2. CASE delta.d \in {"text", "think"}
  <2>1. PICK f : f = IF delta.d = "text" THEN [NoChunk EXCEPT !.text = delta.body]
                     ELSE [NoChunk EXCEPT !.think = delta.body] OBVIOUS
  <2>2. g = Emit(e, <<f>>) BY <1>2, <2>1, Zenon DEF encodeChat
  <2>3. Carries(f, delta) /\ Unstopped(f) BY <1>2, <2>1 DEF Carries, NoChunk, Unstopped
  <2>4. ~h.done BY <1>2 DEF Allowed
  <2>5. PICK s : SaidTo(h, c, delta, k, s)
    <3>1. Heard(h, c) BY <1>0 DEF ChatListens
    <3> QED BY <1>2, <3>1, HearsSaid
  <2>6. ~k.done /\ k.calls = h.calls BY <2>4, <2>5 DEF SaidTo, Aside
  <2>7. ToolsAs(k, e) /\ Amid(e, e) BY <1>0, <2>6 DEF ChatHolds, ToolsAs, Amid
  <2> QED BY <2>2, <2>3, <2>4, <2>6, <2>7, ChatSays
<1>3. CASE delta.d = "call"
  <2>1. PICK f : f = [NoChunk EXCEPT !.calls =
                         <<[index |-> delta.index, call |-> delta.call, args |-> <<>>]>>] OBVIOUS
  <2>2. PICK m : m = [e EXCEPT !.hasTools = TRUE] OBVIOUS
  <2>3. g = Emit(m, <<f>>) BY <1>3, <2>1, <2>2, Zenon DEF encodeChat
  <2>4. Carries(f, delta) /\ Unstopped(f) BY <1>3, <2>1 DEF Carries, NoChunk, Unstopped
  <2>5. ~h.done BY <1>3 DEF Allowed
  <2>6. PICK s : CallTo(h, c, delta, 0, k, s)
    <3>1. Heard(h, c) BY <1>0 DEF ChatListens
    <3> QED BY <1>3, <3>1, HearsCall
  <2>7. ~k.done /\ Len(k.calls) = Len(h.calls) + 1 /\ Len(h.calls) \in Nat
    BY <2>5, <2>6 DEF CallTo, Aside
  <2>8. k.calls # <<>> BY <2>7, SeqEmpty
  <2>9. DOMAIN m = EncFields /\ m.out = e.out /\ m.hasStop = e.hasStop /\ m.hasTools = TRUE
    BY <1>0, <2>2 DEF EncFields
  <2>10. ToolsAs(k, m) /\ Amid(e, m) BY <2>8, <2>9 DEF ToolsAs, Amid
  <2> QED BY <2>3, <2>4, <2>5, <2>7, <2>10, ChatSays
<1>4. CASE delta.d = "args"
  <2>1. PICK f : f = [NoChunk EXCEPT !.calls =
                         <<[index |-> delta.index, call |-> 0, args |-> delta.body]>>] OBVIOUS
  <2>2. g = Emit(e, <<f>>) BY <1>4, <2>1, Zenon DEF encodeChat
  <2>3. Carries(f, delta) /\ Unstopped(f) BY <1>4, <2>1 DEF Carries, NoChunk, Unstopped
  <2>4. ~h.done /\ IsSeq(delta.body) BY <1>4 DEF Allowed
  <2>5. PICK s : ArgsTo(h, c, delta, k, s)
    <3>1. Heard(h, c) /\ ByIndex(h, c) BY <1>0 DEF ChatListens
    <3>2. \A i \in 1..Len(h.calls) : c.calls[i].at = delta.index <=> h.calls[i].index = delta.index
      BY <3>1 DEF ByIndex
    <3> QED BY <1>4, <2>4, <3>1, <3>2, HearsMore
  <2>6. ~k.done /\ Len(k.calls) = Len(h.calls) BY <2>4, <2>5 DEF ArgsTo, Aside
  <2>7. k.calls # <<>> <=> h.calls # <<>>
    <3>1. IsSeq(k.calls) /\ IsSeq(h.calls) BY StoryStaysSound DEF StoryIsSound
    <3> QED BY <2>6, <3>1, SeqDomain
  <2>8. ToolsAs(k, e) /\ Amid(e, e) BY <1>0, <2>7 DEF ChatHolds, ToolsAs, Amid
  <2> QED BY <2>2, <2>3, <2>4, <2>6, <2>8, ChatSays
<1>5. CASE delta.d = "usage"
  <2>1. g = [e EXCEPT !.usage = Merge(e.usage, delta.usage)] BY <1>5 DEF encodeChat, Merged
  <2>2. k = h BY <1>5 DEF After
  <2>3. DOMAIN g = EncFields /\ g.out = e.out /\ g.hasTools = e.hasTools /\ g.hasStop = e.hasStop
    BY <1>0, <2>1 DEF EncFields
  <2> QED BY <2>2, <2>3 DEF ChatHolds, ToolsAs
<1>6. CASE delta.d = "unknown"
  <2>1. PICK f : f = [f |-> "foreign"] OBVIOUS
  <2>2. g = Emit(e, <<f>>) BY <1>6, <2>1, Zenon DEF encodeChat
  <2>3. Shows("chat", c0, e, f, g) BY <1>0, <2>2, EmitShows
  <2>4. ReadOne("chat", c, f) = c BY <2>1 DEF ReadOne
  <2>5. k = h BY <1>6 DEF After
  <2>6. Client("chat", c0, g.out) = c BY <2>3, <2>4 DEF Shows
  <2>7. ChatHolds(h, g, c) BY <2>3 DEF ChatHolds, Shows, Same, ToolsAs
  <2> QED BY <2>5, <2>6, <2>7
<1>7. CASE delta.d = "done"
  <2>0. delta.reason \in Reasons /\ ~h.done BY <1>7 DEF Allowed
  <2>1. PICK end : end = chatFinish(delta.reason, e.hasTools) OBVIOUS
  <2>2. PICK f : f = [NoChunk EXCEPT !.finish = end] OBVIOUS
  <2>3. PICK m : m = [e EXCEPT !.hasStop = TRUE] OBVIOUS
  <2>4. g = Emit(m, <<f>>) BY <1>7, <2>1, <2>2, <2>3, Zenon DEF encodeChat
  <2>5. DOMAIN m = EncFields /\ m.out = e.out /\ m.hasTools = e.hasTools /\ m.hasStop = TRUE
    BY <1>0, <2>3 DEF EncFields
  <2>6. Shows("chat", c0, m, f, g) BY <1>0, <2>4, <2>5, EmitShows
  <2>7. Stops(h, delta, k) BY <1>7, DoneStops
  <2>8. Unended(c) BY <2>0 DEF ChatHolds
  <2>9. /\ f.f = "chunk" /\ f.think = <<>> /\ f.text = <<>> /\ f.calls = <<>>
        /\ f.finish = end BY <2>2 DEF NoChunk
  <2>10. PICK r : r = ReadOne("chat", c, f) OBVIOUS
  <2>11. ChatListens(k, r) /\ r.end = end BY <1>0, <2>7, <2>8, <2>9, <2>10, ChatSaysNothing
  <2>12. e.hasTools \in BOOLEAN /\ (e.hasTools <=> h.calls # <<>>) BY DEF ChatHolds, ToolsAs
  <2>13. /\ end # "" /\ EndClass(end) = EndClass(delta.reason)
         /\ EndClass(end) = "normal" /\ e.hasTools => end = "tool_calls"
    BY <2>0, <2>1, <2>12, ChatFinishes
  <2>14. EndsAs(k, r.end, "tool_calls") BY <2>7, <2>11, <2>12, <2>13 DEF EndsAs, Stops
  <2>15. Client("chat", c0, g.out) = r BY <2>5, <2>6, <2>10 DEF Shows
  <2>16. ~Unended(r) BY <2>11, <2>13 DEF Unended
  <2>17. ChatHolds(k, g, r)
    BY <2>5, <2>6, <2>7, <2>11, <2>12, <2>14, <2>16 DEF ChatHolds, Shows, Same, Stops, ToolsAs
  <2> QED BY <2>15, <2>17
<1> QED BY <1>1, <1>2, <1>3, <1>4, <1>5, <1>6, <1>7 DEF Allowed

----------------------------------------
(* The Claude encoder and its caller, frame by frame. *)

Intact(c, r) ==
  /\ DOMAIN r = CliFields /\ r.over = c.over /\ r.end = c.end
  /\ r.think = c.think /\ r.text = c.text

BlockStopped(c, f, r) ==
  /\ Intact(c, r) /\ r.calls = c.calls /\ r.begun = c.begun
  /\ r.block = "" /\ r.items = Append(c.items, c.block)
  /\ r.ok = (c.ok /\ ~c.over /\ c.block # "" /\ f.index = Len(c.items))

\* How a Claude client reads the stop of a block,
LEMMA BlockStops ==
  ASSUME NEW c, DOMAIN c = CliFields, NEW f, f.f = "block_stop",
         NEW r, r = ReadOne("claude", c, f)
  PROVE  BlockStopped(c, f, r)
<1>1. r = ClaudeClient(c, f) BY DEF ReadOne
<1>2. PICK x : x = Expect(c, c.block # "" /\ f.index = Len(c.items)) OBVIOUS
<1>3. PICK more : more = Append(c.items, c.block) OBVIOUS
<1>4. /\ DOMAIN x = CliFields /\ x.over = c.over /\ x.end = c.end /\ x.think = c.think
      /\ x.text = c.text /\ x.calls = c.calls /\ x.begun = c.begun /\ x.items = c.items
      /\ x.ok = (c.ok /\ ~c.over /\ c.block # "" /\ f.index = Len(c.items))
  BY <1>2 DEF Expect, CliFields
<1>5. r = [x EXCEPT !.block = "", !.items = Append(x.items, c.block)]
  BY <1>1, <1>2 DEF ClaudeClient
<1>6. r = [x EXCEPT !.block = "", !.items = more] BY <1>3, <1>4, <1>5
<1>7. /\ DOMAIN r = CliFields /\ r.over = x.over /\ r.end = x.end /\ r.think = x.think
      /\ r.text = x.text /\ r.calls = x.calls /\ r.begun = x.begun /\ r.block = ""
      /\ r.items = more /\ r.ok = x.ok BY <1>4, <1>6 DEF CliFields
<1> QED BY <1>3, <1>4, <1>7 DEF BlockStopped, Intact

BlockStarted(c, f, r) ==
  /\ Intact(c, r) /\ r.begun = c.begun /\ r.block = f.kind /\ r.items = c.items
  /\ f.kind # "call" => r.calls = c.calls
  /\ f.kind = "call" =>
       r.calls = Append(c.calls, [at |-> Len(c.items), call |-> f.call, args |-> <<>>])
  /\ r.ok = (c.ok /\ ~c.over /\ c.begun /\ c.block = "" /\ f.index = Len(c.items))

\* the start of one,
LEMMA BlockStarts ==
  ASSUME NEW c, DOMAIN c = CliFields, NEW f, f.f = "block_start",
         NEW r, r = ReadOne("claude", c, f)
  PROVE  BlockStarted(c, f, r)
<1>1. r = ClaudeClient(c, f) BY DEF ReadOne
<1>2. PICK more : more = Append(c.calls, [at |-> Len(c.items), call |-> f.call, args |-> <<>>])
  OBVIOUS
<1>3. PICK o : o = IF f.kind = "call" THEN Opens(c, Len(c.items), f.call, <<>>) ELSE c OBVIOUS
<1>4. /\ DOMAIN o = CliFields /\ o.over = c.over /\ o.end = c.end /\ o.think = c.think
      /\ o.text = c.text /\ o.begun = c.begun /\ o.items = c.items /\ o.ok = c.ok
      /\ o.calls = IF f.kind = "call" THEN more ELSE c.calls
  <2>1. CASE f.kind = "call"
    <3>1. o = [c EXCEPT !.calls = more] BY <1>2, <1>3, <2>1 DEF Opens
    <3> QED BY <2>1, <3>1 DEF CliFields
  <2>2. CASE f.kind # "call"
    <3>1. o = c BY <1>3, <2>2
    <3> QED BY <2>2, <3>1
  <2> QED BY <2>1, <2>2
<1>5. PICK x : x = Expect(o, c.begun /\ c.block = "" /\ f.index = Len(c.items)) OBVIOUS
<1>6. /\ DOMAIN x = CliFields /\ x.over = c.over /\ x.end = c.end /\ x.think = c.think
      /\ x.text = c.text /\ x.calls = o.calls /\ x.begun = c.begun /\ x.items = c.items
      /\ x.ok = (c.ok /\ ~c.over /\ c.begun /\ c.block = "" /\ f.index = Len(c.items))
  BY <1>4, <1>5 DEF Expect, CliFields
<1>7. r = [x EXCEPT !.block = f.kind] BY <1>1, <1>3, <1>5 DEF ClaudeClient
<1>8. /\ DOMAIN r = CliFields /\ r.over = x.over /\ r.end = x.end /\ r.think = x.think
      /\ r.text = x.text /\ r.calls = x.calls /\ r.begun = x.begun /\ r.block = f.kind
      /\ r.items = x.items /\ r.ok = x.ok BY <1>6, <1>7 DEF CliFields
<1> QED BY <1>2, <1>4, <1>6, <1>8 DEF BlockStarted, Intact

Spoken(c, kind, body, r) ==
  /\ r.think = IF kind = "think" THEN c.think \o body ELSE c.think
  /\ r.text = IF kind = "text" THEN c.text \o body ELSE c.text

BlockSaid(c, f, r) ==
  /\ DOMAIN r = CliFields /\ r.over = c.over /\ r.end = c.end /\ Spoken(c, f.kind, f.body, r)
  /\ r.begun = c.begun /\ r.block = c.block /\ r.items = c.items /\ r.calls = c.calls
  /\ r.ok = (c.ok /\ ~c.over /\ c.block = f.kind /\ f.index = Len(c.items))

\* words in one,
LEMMA BlockSays ==
  ASSUME NEW c, DOMAIN c = CliFields, NEW f, f.f = "block_delta", f.kind \in {"think", "text"},
         NEW r, r = ReadOne("claude", c, f)
  PROVE  BlockSaid(c, f, r)
<1>1. r = ClaudeClient(c, f) BY DEF ReadOne
<1>2. PICK o : o = Hears(c, f.kind, f.body) OBVIOUS
<1>3. PICK thought : thought = c.think \o f.body OBVIOUS
<1>4. PICK said : said = c.text \o f.body OBVIOUS
<1>5. o = IF f.kind = "think" THEN [c EXCEPT !.think = thought] ELSE [c EXCEPT !.text = said]
  BY <1>2, <1>3, <1>4 DEF Hears
<1>6. /\ DOMAIN o = CliFields /\ o.over = c.over /\ o.end = c.end
      /\ o.think = (IF f.kind = "think" THEN thought ELSE c.think)
      /\ o.text = (IF f.kind = "text" THEN said ELSE c.text)
      /\ o.begun = c.begun /\ o.items = c.items /\ o.ok = c.ok /\ o.block = c.block
      /\ o.calls = c.calls BY <1>5 DEF CliFields
<1>7. r = Expect(o, c.block = f.kind /\ f.index = Len(c.items)) BY <1>1, <1>2 DEF ClaudeClient
<1>8. /\ DOMAIN r = CliFields /\ r.over = o.over /\ r.end = o.end /\ r.think = o.think
      /\ r.text = o.text /\ r.calls = o.calls /\ r.begun = o.begun /\ r.items = o.items
      /\ r.block = o.block
      /\ r.ok = (c.ok /\ ~c.over /\ c.block = f.kind /\ f.index = Len(c.items))
  BY <1>6, <1>7 DEF Expect, CliFields
<1> QED BY <1>3, <1>4, <1>6, <1>8 DEF BlockSaid, Spoken

BlockArgued(c, f, r) ==
  /\ Intact(c, r) /\ r.begun = c.begun /\ r.block = c.block /\ r.items = c.items
  /\ r.calls = ArgsHeard(c.calls, f.index, f.body)
  /\ r.ok = (c.ok /\ ~c.over /\ c.block = "call" /\ f.index = Len(c.items))

\* arguments in one,
LEMMA BlockArgues ==
  ASSUME NEW c, DOMAIN c = CliFields, NEW f, f.f = "block_delta", f.kind = "args",
         NEW r, r = ReadOne("claude", c, f)
  PROVE  BlockArgued(c, f, r)
<1>1. r = ClaudeClient(c, f) BY DEF ReadOne
<1>2. PICK more : more = ArgsHeard(c.calls, f.index, f.body) OBVIOUS
<1>3. PICK o : o = HearsArgs(c, f.index, f.body) OBVIOUS
<1>4. o = [c EXCEPT !.calls = more]
  <2>1. HearsArgs(c, f.index, f.body) = [c EXCEPT !.calls = ArgsHeard(c.calls, f.index, f.body)]
    BY Zenon DEF HearsArgs, ArgsHeard
  <2> QED BY <1>2, <1>3, <2>1, Zenon
<1>5. /\ DOMAIN o = CliFields /\ o.over = c.over /\ o.end = c.end /\ o.think = c.think
      /\ o.text = c.text /\ o.begun = c.begun /\ o.items = c.items /\ o.ok = c.ok
      /\ o.block = c.block /\ o.calls = more BY <1>4 DEF CliFields
<1>6. r = Expect(o, c.block = "call" /\ f.index = Len(c.items)) BY <1>1, <1>3 DEF ClaudeClient
<1>7. /\ DOMAIN r = CliFields /\ r.over = o.over /\ r.end = o.end /\ r.think = o.think
      /\ r.text = o.text /\ r.calls = o.calls /\ r.begun = o.begun /\ r.items = o.items
      /\ r.block = o.block
      /\ r.ok = (c.ok /\ ~c.over /\ c.block = "call" /\ f.index = Len(c.items))
  BY <1>5, <1>6 DEF Expect, CliFields
<1> QED BY <1>2, <1>5, <1>7 DEF BlockArgued, Intact

MessageStarted(c, r) ==
  /\ Intact(c, r) /\ r.begun = TRUE /\ r.block = c.block /\ r.items = c.items
  /\ r.calls = c.calls /\ r.ok = (c.ok /\ ~c.over /\ ~c.begun)

\* and the start of a message.
LEMMA MessageStarts ==
  ASSUME NEW c, DOMAIN c = CliFields, NEW f, f.f = "message_start",
         NEW r, r = ReadOne("claude", c, f)
  PROVE  MessageStarted(c, r)
<1>1. r = [Expect(c, ~c.begun) EXCEPT !.begun = TRUE] BY DEF ReadOne, ClaudeClient
<1>2. PICK x : x = Expect(c, ~c.begun) OBVIOUS
<1>3. /\ DOMAIN x = CliFields /\ x.over = c.over /\ x.end = c.end /\ x.think = c.think
      /\ x.text = c.text /\ x.calls = c.calls /\ x.block = c.block /\ x.items = c.items
      /\ x.ok = (c.ok /\ ~c.over /\ ~c.begun) BY <1>2 DEF Expect, CliFields
<1>4. r = [x EXCEPT !.begun = TRUE] BY <1>1, <1>2
<1>5. /\ DOMAIN r = CliFields /\ r.over = x.over /\ r.end = x.end /\ r.think = x.think
      /\ r.text = x.text /\ r.calls = x.calls /\ r.begun = TRUE /\ r.block = x.block
      /\ r.items = x.items /\ r.ok = x.ok BY <1>3, <1>4 DEF CliFields
<1> QED BY <1>3, <1>5 DEF MessageStarted, Intact

\* What an encoder has written so far is where its caller is.
ClaudeNeat(e, c) == c.ok /\ c.block = e.block /\ IsSeq(c.items) /\ Len(c.items) = e.blockIndex

Lays(loose, e, c) ==
  /\ DOMAIN e = EncFields /\ IsSeq(e.out) /\ DOMAIN c = CliFields /\ ~c.over /\ Unended(c)
  /\ loose \/ ClaudeNeat(e, c)

SameTale(e, g) == g.hasTools = e.hasTools /\ g.reason = e.reason /\ g.ended = e.ended

Shut(loose, e, c, g, r) ==
  /\ Lays(loose, g, r) /\ SameTale(e, g) /\ g.block = ""
  /\ g.blockIndex = IF e.block = "" THEN e.blockIndex ELSE e.blockIndex + 1
  /\ Intact(c, r) /\ r.calls = c.calls /\ r.begun = c.begun

\* closeBlock shows its client the block closed, and nothing else.
LEMMA ClaudeShuts ==
  ASSUME NEW loose, NEW c0, NEW e, NEW c, c = Client("claude", c0, e.out), Lays(loose, e, c),
         NEW g, g = closeBlock(e), NEW r, r = Client("claude", c0, g.out)
  PROVE  Shut(loose, e, c, g, r)
<1>0. DOMAIN e = EncFields /\ IsSeq(e.out) /\ DOMAIN c = CliFields /\ ~c.over /\ Unended(c)
  BY DEF Lays
<1>1. CASE e.block = ""
  <2>1. g = e BY <1>1 DEF closeBlock
  <2>2. r = c BY <2>1
  <2> QED BY <1>0, <1>1, <2>1, <2>2 DEF Shut, SameTale, Intact
<1>2. CASE e.block # ""
  <2>1. PICK f : f = [f |-> "block_stop", index |-> e.blockIndex] OBVIOUS
  <2>2. PICK m : m = [e EXCEPT !.block = "", !.blockIndex = e.blockIndex + 1] OBVIOUS
  <2>3. g = Emit(m, <<f>>) BY <1>2, <2>1, <2>2, Zenon DEF closeBlock
  <2>4. /\ DOMAIN m = EncFields /\ m.out = e.out /\ SameTale(e, m) /\ m.block = ""
        /\ m.blockIndex = e.blockIndex + 1 BY <1>0, <2>2 DEF EncFields, SameTale
  <2>5. Shows("claude", c0, m, f, g) BY <1>0, <2>3, <2>4, EmitShows
  <2>6. r = ReadOne("claude", c, f) BY <2>4, <2>5 DEF Shows
  <2>7. f.f = "block_stop" /\ f.index = e.blockIndex BY <2>1
  <2>8. BlockStopped(c, f, r) BY <1>0, <2>6, <2>7, BlockStops
  <2>9. Intact(c, r) /\ r.calls = c.calls /\ r.begun = c.begun BY <2>8 DEF BlockStopped
  <2>10. DOMAIN g = EncFields /\ IsSeq(g.out) /\ g.block = "" /\ g.blockIndex = e.blockIndex + 1
         /\ SameTale(e, g) BY <2>4, <2>5 DEF Shows, Same, SameTale
  <2>11. loose \/ ClaudeNeat(g, r)
    <3>1. SUFFICES ASSUME ClaudeNeat(e, c) PROVE ClaudeNeat(g, r) BY DEF Lays
    <3>2. r.ok /\ r.block = "" /\ r.items = Append(c.items, c.block)
      BY <1>0, <1>2, <2>7, <2>8, <3>1 DEF BlockStopped, ClaudeNeat
    <3>3. IsSeq(r.items) /\ Len(r.items) = Len(c.items) + 1
      <4>1. IsSeq(c.items) BY <3>1 DEF ClaudeNeat
      <4>2. PICK s, b : s = c.items /\ b = c.block OBVIOUS
      <4>3. IsSeq(Append(s, b)) /\ Len(Append(s, b)) = Len(s) + 1 BY <4>1, <4>2, SeqMore
      <4> QED BY <3>2, <4>2, <4>3
    <3> QED BY <2>10, <3>1, <3>2, <3>3 DEF ClaudeNeat
  <2>12. Lays(loose, g, r) BY <1>0, <2>9, <2>10, <2>11 DEF Lays, Intact, Unended
  <2> QED BY <1>2, <2>9, <2>10, <2>12 DEF Shut
<1> QED BY <1>1, <1>2

Begun(loose, e, c, kind, call, g, r) ==
  /\ Lays(loose, g, r) /\ SameTale(e, g) /\ g.block = kind /\ g.blockIndex = e.blockIndex
  /\ Intact(c, r) /\ r.begun = c.begun
  /\ kind # "call" => r.calls = c.calls
  /\ kind = "call" /\ ~loose =>
       r.calls = Append(c.calls, [at |-> e.blockIndex, call |-> call, args |-> <<>>])

\* openBlock shows its client the block opened.
LEMMA ClaudeBegins ==
  ASSUME NEW loose, NEW c0, NEW e, NEW c, c = Client("claude", c0, e.out), Lays(loose, e, c),
         e.block = "", c.begun \/ loose, NEW kind, NEW call,
         NEW g, g = openBlock(e, kind, call), NEW r, r = Client("claude", c0, g.out)
  PROVE  Begun(loose, e, c, kind, call, g, r)
<1>0. DOMAIN e = EncFields /\ IsSeq(e.out) /\ DOMAIN c = CliFields /\ ~c.over /\ Unended(c)
  BY DEF Lays
<1>1. PICK f : f = [f |-> "block_start", index |-> e.blockIndex, kind |-> kind, call |-> call]
  OBVIOUS
<1>2. PICK m : m = [e EXCEPT !.block = kind] OBVIOUS
<1>3. g = Emit(m, <<f>>) BY <1>1, <1>2, Zenon DEF openBlock
<1>4. /\ DOMAIN m = EncFields /\ m.out = e.out /\ SameTale(e, m) /\ m.block = kind
      /\ m.blockIndex = e.blockIndex BY <1>0, <1>2 DEF EncFields, SameTale
<1>5. Shows("claude", c0, m, f, g) BY <1>0, <1>3, <1>4, EmitShows
<1>6. r = ReadOne("claude", c, f) BY <1>4, <1>5 DEF Shows
<1>7. f.f = "block_start" /\ f.index = e.blockIndex /\ f.kind = kind /\ f.call = call BY <1>1
<1>8. BlockStarted(c, f, r) BY <1>0, <1>6, <1>7, BlockStarts
<1>9. Intact(c, r) /\ r.begun = c.begun /\ (kind # "call" => r.calls = c.calls)
  BY <1>7, <1>8 DEF BlockStarted
<1>10. DOMAIN g = EncFields /\ IsSeq(g.out) /\ g.block = kind /\ g.blockIndex = e.blockIndex
       /\ SameTale(e, g) BY <1>4, <1>5 DEF Shows, Same, SameTale
<1>11. loose \/ ClaudeNeat(g, r)
  <2>1. SUFFICES ASSUME ClaudeNeat(e, c), c.begun PROVE ClaudeNeat(g, r) BY DEF Lays
  <2>2. r.ok /\ r.block = kind /\ r.items = c.items
    BY <1>0, <1>7, <1>8, <2>1 DEF BlockStarted, ClaudeNeat
  <2> QED BY <1>10, <2>1, <2>2 DEF ClaudeNeat
<1>12. Lays(loose, g, r) BY <1>0, <1>9, <1>10, <1>11 DEF Lays, Intact, Unended
<1>13. ASSUME kind = "call", ~loose
       PROVE  r.calls = Append(c.calls, [at |-> e.blockIndex, call |-> call, args |-> <<>>])
  <2>1. Len(c.items) = e.blockIndex BY <1>13 DEF Lays, ClaudeNeat
  <2>2. r.calls = Append(c.calls, [at |-> Len(c.items), call |-> f.call, args |-> <<>>])
    BY <1>7, <1>8, <1>13 DEF BlockStarted
  <2> QED BY <1>7, <2>1, <2>2
<1> QED BY <1>9, <1>10, <1>12, <1>13 DEF Begun

Delivered(loose, e, c, kind, body, g, r) ==
  /\ Lays(loose, g, r) /\ SameTale(e, g) /\ g.block = e.block /\ g.blockIndex = e.blockIndex
  /\ Spoken(c, kind, body, r) /\ r.begun = c.begun
  /\ r.calls = IF kind = "args" THEN ArgsHeard(c.calls, e.blockIndex, body) ELSE c.calls

\* A delta of the open block reaches the client as it is.
LEMMA ClaudeDelivers ==
  ASSUME NEW loose, NEW c0, NEW e, NEW c, c = Client("claude", c0, e.out), Lays(loose, e, c),
         NEW kind \in {"think", "text", "args"}, NEW body,
         loose \/ e.block = IF kind = "args" THEN "call" ELSE kind,
         NEW g, g = blockDelta(e, kind, body), NEW r, r = Client("claude", c0, g.out)
  PROVE  Delivered(loose, e, c, kind, body, g, r)
<1>0. DOMAIN e = EncFields /\ IsSeq(e.out) /\ DOMAIN c = CliFields /\ ~c.over /\ Unended(c)
  BY DEF Lays
<1>1. PICK f : f = [f |-> "block_delta", index |-> e.blockIndex, kind |-> kind, body |-> body]
  OBVIOUS
<1>3. g = Emit(e, <<f>>) BY <1>1, Zenon DEF blockDelta
<1>5. Shows("claude", c0, e, f, g) BY <1>0, <1>3, EmitShows
<1>6. r = ReadOne("claude", c, f) BY <1>5 DEF Shows
<1>7. f.f = "block_delta" /\ f.index = e.blockIndex /\ f.kind = kind /\ f.body = body BY <1>1
<1>8. kind = "args" => BlockArgued(c, f, r) BY <1>0, <1>6, <1>7, BlockArgues
<1>9. kind # "args" => BlockSaid(c, f, r) BY <1>0, <1>6, <1>7, BlockSays
<1>10. /\ DOMAIN r = CliFields /\ r.over = c.over /\ r.end = c.end /\ Spoken(c, kind, body, r)
       /\ r.begun = c.begun /\ r.block = c.block /\ r.items = c.items
       /\ r.calls = IF kind = "args" THEN ArgsHeard(c.calls, e.blockIndex, body) ELSE c.calls
  BY <1>7, <1>8, <1>9 DEF BlockArgued, BlockSaid, Intact, Spoken
<1>11. DOMAIN g = EncFields /\ IsSeq(g.out) /\ g.block = e.block /\ g.blockIndex = e.blockIndex
       /\ SameTale(e, g) BY <1>5 DEF Shows, Same, SameTale
<1>12. loose \/ ClaudeNeat(g, r)
  <2>1. SUFFICES ASSUME ClaudeNeat(e, c), ~loose PROVE ClaudeNeat(g, r) BY DEF Lays
  <2>2. c.block = (IF kind = "args" THEN "call" ELSE kind) /\ c.ok /\ Len(c.items) = e.blockIndex
    BY <2>1 DEF ClaudeNeat
  <2>3. r.ok BY <1>0, <1>7, <1>8, <1>9, <2>2 DEF BlockSaid, BlockArgued
  <2> QED BY <1>10, <1>11, <2>1, <2>3 DEF ClaudeNeat
<1>13. Lays(loose, g, r) BY <1>0, <1>10, <1>11, <1>12 DEF Lays, Unended
<1> QED BY <1>10, <1>11, <1>13 DEF Delivered

\* Each call has the block it was opened in; only the last one's may be open.
ClaudeCalls(tale, e, c) ==
  /\ Mirrors(c.calls, tale) /\ e.blockIndex \in Nat
  /\ \A i \in 1..Len(tale) :
       /\ c.calls[i].at \in Nat
       /\ \/ c.calls[i].at < e.blockIndex
          \/ c.calls[i].at = e.blockIndex /\ e.block = "call" /\ i = Len(tale)
  /\ e.block = "call" => Len(tale) # 0 /\ c.calls[Len(tale)].at = e.blockIndex

\* A block closed leaves the calls as they were,
LEMMA CallsShut ==
  ASSUME NEW tale, NEW e, NEW c, ClaudeCalls(tale, e, c), NEW g, NEW r, r.calls = c.calls,
         g.block = "", g.blockIndex = IF e.block = "" THEN e.blockIndex ELSE e.blockIndex + 1
  PROVE  ClaudeCalls(tale, g, r)
<1>1. PICK b, n : b = e.blockIndex /\ n = Len(tale) OBVIOUS
<1>2. PICK caught : caught = c.calls OBVIOUS
<1>3. /\ Mirrors(caught, tale) /\ b \in Nat
      /\ \A i \in 1..n : /\ caught[i].at \in Nat
                         /\ caught[i].at < b \/ (caught[i].at = b /\ e.block = "call" /\ i = n)
  BY <1>1, <1>2 DEF ClaudeCalls
<1>4. PICK b2 : b2 = g.blockIndex OBVIOUS
<1>5. CASE e.block = ""
  <2>1. b2 = b BY <1>1, <1>4, <1>5
  <2>2. \A i \in 1..n : caught[i].at \in Nat /\ caught[i].at < b2 BY ONLY <1>3, <1>5, <2>1
  <2> QED BY <1>1, <1>2, <1>3, <1>4, <2>1, <2>2 DEF ClaudeCalls
<1>6. CASE e.block # ""
  <2>1. b2 = b + 1 BY <1>1, <1>4, <1>6
  <2>2. \A i \in 1..n : caught[i].at \in Nat /\ caught[i].at < b2 BY ONLY <1>3, <2>1
  <2>3. b2 \in Nat BY ONLY <1>3, <2>1
  <2> QED BY <1>1, <1>2, <1>3, <1>4, <2>2, <2>3 DEF ClaudeCalls
<1> QED BY <1>5, <1>6

\* and so does one opened that is not a call's.
LEMMA CallsAside ==
  ASSUME NEW tale, NEW e, NEW c, ClaudeCalls(tale, e, c), e.block # "call",
         NEW g, NEW r, r.calls = c.calls, g.block # "call", g.blockIndex = e.blockIndex
  PROVE  ClaudeCalls(tale, g, r)
BY DEF ClaudeCalls

\* A call's block opened is the story's last call.
LEMMA CallsOpen ==
  ASSUME NEW tale, NEW e, NEW c, ClaudeCalls(tale, e, c), e.block = "",
         NEW y, NEW x, IsHeardCall(x), x.call = y.call, x.args = y.args, x.at = e.blockIndex,
         NEW g, NEW r, r.calls = Append(c.calls, x), NEW next, next = Append(tale, y),
         g.block = "call", g.blockIndex = e.blockIndex
  PROVE  ClaudeCalls(next, g, r)
<1>1. PICK after, caught, n, b : /\ after = Append(c.calls, x) /\ caught = c.calls
                                /\ n = Len(tale) /\ b = e.blockIndex OBVIOUS
<1>2. Mirrors(caught, tale) /\ b \in Nat BY <1>1 DEF ClaudeCalls
<1>3. after = Append(caught, x) BY <1>1
<1>4. next = Append(tale, y) /\ IsHeardCall(x) /\ x.call = y.call /\ x.args = y.args OBVIOUS
<1>5. Mirrors(after, next) BY ONLY <1>2, <1>3, <1>4, MirrorOpens
<1>6. Len(next) = Len(tale) + 1 /\ Len(tale) \in Nat BY ONLY <1>2, <1>3, <1>4, MirrorOpens
<1>7. \A i \in 1..Len(tale) : after[i] = caught[i] BY ONLY <1>2, <1>3, <1>4, MirrorOpens
<1>8. after[Len(tale) + 1] = x BY ONLY <1>2, <1>3, <1>4, MirrorOpens
<1>9. PICK m : m = Len(next) OBVIOUS
<1>10. m = n + 1 /\ n \in Nat BY <1>1, <1>6, <1>9
<1>11. \A i \in 1..n : caught[i].at \in Nat /\ caught[i].at < b
  <2>1. e.block # "call" OBVIOUS
  <2> QED BY <1>1, <2>1 DEF ClaudeCalls
<1>12. x.at = b BY <1>1
<1>13. ASSUME NEW i \in 1..m
       PROVE  after[i].at \in Nat /\ (after[i].at < b \/ (after[i].at = b /\ i = m))
  <2>1. CASE i \in 1..n
    <3>1. after[i] = caught[i] BY <1>1, <1>7, <2>1
    <3> QED BY <1>11, <2>1, <3>1
  <2>2. CASE i = n + 1
    <3>1. after[i] = x BY <1>1, <1>8, <2>2
    <3> QED BY <1>2, <1>10, <1>12, <2>2, <3>1
  <2>3. i \in 1..n \/ i = n + 1 BY ONLY <1>10, i \in 1..m
  <2> QED BY <2>1, <2>2, <2>3
<1>14. m # 0 /\ after[m].at = b
  <2>1. n = Len(tale) BY <1>1
  <2>2. after[m] = x BY ONLY <1>8, <1>10, <2>1
  <2> QED BY ONLY <1>10, <1>12, <2>2
<1>15. r.calls = after /\ g.blockIndex = b /\ g.block = "call" BY <1>1
<1> QED BY ONLY <1>2, <1>5, <1>9, <1>13, <1>14, <1>15 DEF ClaudeCalls

\* Arguments in a call's block are that call's.
LEMMA CallsArgue ==
  ASSUME NEW tale, NEW e, NEW c, ClaudeCalls(tale, e, c), e.block = "call",
         NEW index, tale[Len(tale)].index = index,
         \A i, j \in 1..Len(tale) : tale[i].index = tale[j].index => i = j,
         \A i \in 1..Len(tale) : DOMAIN tale[i] = CallFields /\ IsSeq(tale[i].args),
         NEW body, IsSeq(body), NEW next, next = WithArgs(tale, index, body),
         NEW g, NEW r, r.calls = ArgsHeard(c.calls, e.blockIndex, body),
         g.block = "call", g.blockIndex = e.blockIndex
  PROVE  ClaudeCalls(next, g, r)
<1>1. PICK after : after = ArgsHeard(c.calls, e.blockIndex, body) OBVIOUS
<1>2. PICK caught : caught = c.calls OBVIOUS
<1>3. PICK n : n = Len(tale) OBVIOUS
<1>4. Mirrors(caught, tale) /\ e.blockIndex \in Nat BY <1>2 DEF ClaudeCalls
<1>5. n \in Nat /\ n # 0
  <2>1. IsSeq(tale) BY <1>4 DEF Mirrors
  <2> QED BY <1>3, <2>1, SeqDomain DEF ClaudeCalls
<1>6. caught[n].at = e.blockIndex BY <1>2, <1>3 DEF ClaudeCalls
<1>7. \A i \in 1..n : /\ caught[i].at \in Nat
                      /\ i # n => caught[i].at < e.blockIndex BY <1>2, <1>3 DEF ClaudeCalls
<1>8. ASSUME NEW i \in 1..n PROVE caught[i].at = e.blockIndex <=> tale[i].index = index
  BY <1>3, <1>4, <1>5, <1>6, <1>7
<1>9. /\ Mirrors(after, next) /\ Len(after) = n
      /\ \A i \in 1..n : after[i].at = caught[i].at
  <2>1. after = ArgsHeard(caught, e.blockIndex, body) BY <1>1, <1>2
  <2>2. \A i \in 1..Len(tale) : caught[i].at = e.blockIndex <=> tale[i].index = index
    BY <1>3, <1>8
  <2> QED BY <1>3, <1>4, <2>1, <2>2, MirrorArgs
<1>10. Len(next) = n BY <1>9 DEF Mirrors
<1>11. r.calls = after BY <1>1
<1> QED BY <1>4, <1>5, <1>6, <1>7, <1>9, <1>10, <1>11 DEF ClaudeCalls

\* Into a block for texts.
Entered(loose, e, c, kind, g, r) ==
  /\ Lays(loose, g, r) /\ SameTale(e, g) /\ g.block = kind /\ Intact(c, r) /\ r.begun = c.begun

\* Words find their block open, whichever was open before.
LEMMA ClaudeEnters ==
  ASSUME NEW loose, NEW c0, NEW e, NEW c, c = Client("claude", c0, e.out), Lays(loose, e, c),
         c.begun \/ loose, NEW kind \in {"think", "text"},
         NEW g, g = inBlock(e, kind), NEW r, r = Client("claude", c0, g.out)
  PROVE  /\ Entered(loose, e, c, kind, g, r)
         /\ \A tale : ~loose /\ ClaudeCalls(tale, e, c) => ClaudeCalls(tale, g, r)
<1>1. CASE e.block = kind
  <2>1. g = e BY <1>1 DEF inBlock
  <2>2. r = c BY <2>1
  <2> QED BY <1>1, <2>1, <2>2 DEF Entered, SameTale, Intact, Lays
<1>2. CASE e.block # kind
  <2>1. PICK m : m = closeBlock(e) OBVIOUS
  <2>2. g = openBlock(m, kind, 0) BY <1>2, <2>1 DEF inBlock
  <2>3. PICK s : s = Client("claude", c0, m.out) OBVIOUS
  <2>4. Shut(loose, e, c, m, s) BY <2>1, <2>3, ClaudeShuts
  <2>5. Lays(loose, m, s) /\ m.block = "" /\ s.begun = c.begun BY <2>4 DEF Shut
  <2>6. Begun(loose, m, s, kind, 0, g, r) BY <2>2, <2>3, <2>5, ClaudeBegins
  <2>7. Entered(loose, e, c, kind, g, r) BY <2>4, <2>6 DEF Shut, Begun, Entered, SameTale, Intact
  <2>8. ASSUME NEW tale, ClaudeCalls(tale, e, c) PROVE ClaudeCalls(tale, g, r)
    <3>1. ClaudeCalls(tale, m, s) BY <2>4, <2>8, CallsShut DEF Shut
    <3>2. r.calls = s.calls /\ g.block # "call" /\ g.blockIndex = m.blockIndex BY <2>6 DEF Begun
    <3> QED BY <2>5, <3>1, <3>2, CallsAside
  <2> QED BY <2>7, <2>8
<1> QED BY <1>1, <1>2

\* Where the caller hears everything in its place.
ClaudeTidy(h, e, c) ==
  /\ (c.begun <=> h.begun) /\ ClaudeCalls(h.calls, e, c)
  /\ h.last = "call" /\ ~h.done => e.block = "call"
  /\ h.done => e.block = ""

\* The stop waits in the encoder.
ClaudeWaits(h, e) ==
  /\ ToolsAs(h, e) /\ ~e.ended /\ (e.reason # "" <=> h.done)
  /\ h.done => e.reason = WithTools(h.reason, e.hasTools)

HearsWords(h, c) == c.think = h.think /\ c.text = h.text

ClaudeHolds(loose, h, e, c) ==
  /\ Lays(loose, e, c) /\ HearsWords(h, c) /\ ClaudeWaits(h, e)
  /\ loose \/ ClaudeTidy(h, e, c)

\* A story that has had a text more.
Worded(h, delta, k) == Aside(h, k) /\ k.calls = h.calls /\ k.last = delta.d /\ Spoken(h, delta.d, delta.body, k)

\* What words tell,
LEMMA WordsAreWorded ==
  ASSUME NEW h, StoryIsSound(h), NEW delta, delta.d \in {"think", "text"},
         NEW k, k = After(h, delta)
  PROVE  Worded(h, delta, k)
<1>1. DOMAIN h = StoryFields BY DEF StoryIsSound
<1>2. PICK thought, said : thought = h.think \o delta.body /\ said = h.text \o delta.body OBVIOUS
<1>3. CASE delta.d = "think"
  <2>1. k = [h EXCEPT !.think = thought, !.last = "think"] BY <1>2, <1>3 DEF After
  <2>2. /\ DOMAIN k = StoryFields /\ k.think = thought /\ k.text = h.text /\ k.calls = h.calls
        /\ k.begun = h.begun /\ k.done = h.done /\ k.reason = h.reason /\ k.last = "think"
    BY <1>1, <2>1 DEF StoryFields
  <2> QED BY <1>2, <1>3, <2>2 DEF Worded, Aside, Spoken
<1>4. CASE delta.d = "text"
  <2>1. k = [h EXCEPT !.text = said, !.last = "text"] BY <1>2, <1>4 DEF After
  <2>2. /\ DOMAIN k = StoryFields /\ k.think = h.think /\ k.text = said /\ k.calls = h.calls
        /\ k.begun = h.begun /\ k.done = h.done /\ k.reason = h.reason /\ k.last = "text"
    BY <1>1, <2>1 DEF StoryFields
  <2> QED BY <1>2, <1>4, <2>2 DEF Worded, Aside, Spoken
<1> QED BY <1>3, <1>4

\* A story that has had a call more, or more of its arguments.
Called(h, delta, k) ==
  /\ Aside(h, k) /\ k.think = h.think /\ k.text = h.text /\ k.last = "call"
  /\ k.calls = Append(h.calls, [index |-> delta.index, call |-> delta.call, args |-> <<>>])

Argued(h, delta, k) ==
  /\ Aside(h, k) /\ k.think = h.think /\ k.text = h.text /\ k.last = h.last
  /\ k.calls = WithArgs(h.calls, delta.index, delta.body)

\* what a call tells,
LEMMA CallIsCalled ==
  ASSUME NEW h, StoryIsSound(h), NEW delta, delta.d = "call", NEW k, k = After(h, delta)
  PROVE  Called(h, delta, k)
<1>1. DOMAIN h = StoryFields BY DEF StoryIsSound
<1>2. PICK more : more = Append(h.calls, [index |-> delta.index, call |-> delta.call, args |-> <<>>])
  OBVIOUS
<1>3. k = [h EXCEPT !.calls = more, !.last = "call"] BY <1>2 DEF After
<1>4. /\ DOMAIN k = StoryFields /\ k.think = h.think /\ k.text = h.text /\ k.calls = more
      /\ k.begun = h.begun /\ k.done = h.done /\ k.reason = h.reason /\ k.last = "call"
  BY <1>1, <1>3 DEF StoryFields
<1> QED BY <1>2, <1>4 DEF Called, Aside

\* and what arguments tell.
LEMMA ArgsAreArgued ==
  ASSUME NEW h, StoryIsSound(h), NEW delta, delta.d = "args", NEW k, k = After(h, delta)
  PROVE  Argued(h, delta, k)
<1>1. DOMAIN h = StoryFields BY DEF StoryIsSound
<1>2. PICK more : more = WithArgs(h.calls, delta.index, delta.body) OBVIOUS
<1>3. k = [h EXCEPT !.calls = more] BY <1>2 DEF After
<1>4. /\ DOMAIN k = StoryFields /\ k.think = h.think /\ k.text = h.text /\ k.calls = more
      /\ k.begun = h.begun /\ k.done = h.done /\ k.reason = h.reason /\ k.last = h.last
  BY <1>1, <1>3 DEF StoryFields
<1> QED BY <1>2, <1>4 DEF Argued, Aside

\* A call told is one the encoder notes,
LEMMA ToolsOfCalled ==
  ASSUME NEW h, StoryIsSound(h), NEW delta, NEW k, Called(h, delta, k), NEW m, m.hasTools = TRUE
  PROVE  ToolsAs(k, m)
<1>1. PICK x : x = [index |-> delta.index, call |-> delta.call, args |-> <<>>] OBVIOUS
<1>2. PICK s, more : s = h.calls /\ more = Append(s, x) OBVIOUS
<1>3. k.calls = more BY <1>1, <1>2 DEF Called
<1>5. IsSeq(s) BY <1>2 DEF StoryIsSound
<1>6. more # <<>> BY ONLY <1>2, <1>5, SeqMore
<1>4. k.calls # <<>> BY ONLY <1>3, <1>6
<1> QED BY <1>4 DEF ToolsAs

\* and it notes none for arguments.
LEMMA ToolsOfArgued ==
  ASSUME NEW h, StoryIsSound(h), NEW delta, IsSeq(delta.body), NEW k, Argued(h, delta, k), NEW m, ToolsAs(h, m)
  PROVE  ToolsAs(k, m)
<1>1. /\ IsSeq(h.calls)
      /\ \A i \in 1..Len(h.calls) : DOMAIN h.calls[i] = CallFields /\ IsSeq(h.calls[i].args)
  BY DEF StoryIsSound
<1>2. PICK calls : calls = h.calls OBVIOUS
<1>3. k.calls = WithArgs(calls, delta.index, delta.body) BY <1>2 DEF Argued
<1>4. IsSeq(k.calls) /\ Len(k.calls) = Len(calls) BY <1>1, <1>2, <1>3, CallsAfterArgs
<1>5. k.calls # <<>> <=> h.calls # <<>> BY <1>1, <1>2, <1>4, SeqDomain
<1> QED BY <1>5 DEF ToolsAs

\* encodeClaude keeps its caller with the story, whatever delta comes.
LEMMA ClaudeStep ==
  ASSUME NEW loose \in BOOLEAN, NEW h, StoryIsSound(h), NEW delta, Allowed(loose, h, delta),
         NEW k, k = After(h, delta), NEW c0, NEW e, NEW c, c = Client("claude", c0, e.out),
         ClaudeHolds(loose, h, e, c), NEW g, g = encodeClaude(e, delta),
         NEW r, r = Client("claude", c0, g.out)
  PROVE  ClaudeHolds(loose, k, g, r)
<1>0. /\ Lays(loose, e, c) /\ HearsWords(h, c) /\ ClaudeWaits(h, e)
      /\ loose \/ ClaudeTidy(h, e, c) BY DEF ClaudeHolds
<1>10. DOMAIN e = EncFields /\ IsSeq(e.out) /\ DOMAIN c = CliFields /\ ~c.over /\ Unended(c)
  BY <1>0 DEF Lays
<1>1. CASE delta.d = "start"
  <2>1. PICK f : f = [f |-> "message_start", usage |-> Counts(0, 0, 0, NoUsage)] OBVIOUS
  <2>2. g = Emit(e, <<f>>) BY <1>1, <2>1, Zenon DEF encodeClaude
  <2>3. Shows("claude", c0, e, f, g) BY <1>10, <2>2, EmitShows
  <2>4. r = ReadOne("claude", c, f) BY <2>3 DEF Shows
  <2>5. f.f = "message_start" BY <2>1
  <2>6. MessageStarted(c, r) BY <1>10, <2>4, <2>5, MessageStarts
  <2>7. Begins(h, k) BY <1>1, StartBegins
  <2>8. DOMAIN g = EncFields /\ IsSeq(g.out) /\ SameTale(e, g) /\ g.block = e.block
        /\ g.blockIndex = e.blockIndex BY <2>3 DEF Shows, Same, SameTale
  <2>9. ~h.begun BY <1>1 DEF Allowed
  <2>10. Lays(loose, g, r)
    <3>1. loose \/ ClaudeNeat(g, r)
      BY <1>0, <2>6, <2>8, <2>9 DEF Lays, ClaudeNeat, ClaudeTidy, MessageStarted
    <3> QED BY <1>10, <2>6, <2>8, <3>1 DEF Lays, MessageStarted, Intact, Unended
  <2>11. HearsWords(k, r) BY <1>0, <2>6, <2>7 DEF HearsWords, MessageStarted, Intact, Begins
  <2>12. ClaudeWaits(k, g) BY <1>0, <2>7, <2>8 DEF ClaudeWaits, ToolsAs, Begins, SameTale
  <2>13. loose \/ ClaudeTidy(k, g, r)
    <3>1. SUFFICES ASSUME ClaudeTidy(h, e, c) PROVE ClaudeTidy(k, g, r) BY <1>0
    <3>2. r.begun /\ r.calls = c.calls BY <2>6 DEF MessageStarted
    <3>3. ClaudeCalls(k.calls, g, r)
      <4>1. ClaudeCalls(h.calls, e, c) BY <3>1 DEF ClaudeTidy
      <4>2. PICK tale : tale = h.calls OBVIOUS
      <4>3. k.calls = tale BY <2>7, <4>2 DEF Begins
      <4>4. ClaudeCalls(tale, g, r) BY <2>8, <3>2, <4>1, <4>2 DEF ClaudeCalls
      <4> QED BY <4>3, <4>4
    <3> QED BY <2>7, <2>8, <3>1, <3>2, <3>3 DEF ClaudeTidy, Begins
  <2> QED BY <2>10, <2>11, <2>12, <2>13 DEF ClaudeHolds
<1>2. CASE delta.d \in {"text", "think"}
  <2>1. Worded(h, delta, k) BY <1>2, WordsAreWorded
  <2>2. h.begun /\ ~h.done BY <1>2 DEF Allowed
  <2>3. PICK m : m = inBlock(e, delta.d) OBVIOUS
  <2>4. g = blockDelta(m, delta.d, delta.body) BY <1>2, <2>3, Zenon DEF encodeClaude
  <2>5. PICK s : s = Client("claude", c0, m.out) OBVIOUS
  <2>6. c.begun \/ loose BY <1>0, <2>2 DEF ClaudeTidy
  <2>7. Entered(loose, e, c, delta.d, m, s) BY <1>0, <1>2, <2>3, <2>5, <2>6, ClaudeEnters
  <2>8. ~loose => ClaudeCalls(h.calls, m, s)
    <3>1. PICK tale : tale = h.calls OBVIOUS
    <3>2. ~loose => ClaudeCalls(tale, e, c) BY <1>0, <3>1 DEF ClaudeTidy
    <3>3. \A t : ~loose /\ ClaudeCalls(t, e, c) => ClaudeCalls(t, m, s)
      BY <1>0, <1>2, <2>3, <2>5, <2>6, ClaudeEnters
    <3> QED BY <3>1, <3>2, <3>3
  <2>9. Lays(loose, m, s) /\ m.block = delta.d BY <2>7 DEF Entered
  <2>10. Delivered(loose, m, s, delta.d, delta.body, g, r)
    BY <1>2, <2>4, <2>5, <2>9, ClaudeDelivers
  <2>11. HearsWords(k, r)
    BY <1>0, <2>1, <2>7, <2>10 DEF HearsWords, Worded, Entered, Delivered, Spoken, Intact
  <2>12. SameTale(e, g) BY <2>7, <2>10 DEF Entered, Delivered, SameTale
  <2>13. ClaudeWaits(k, g) BY <1>0, <2>1, <2>12 DEF ClaudeWaits, ToolsAs, Worded, Aside, SameTale
  <2>14. loose \/ ClaudeTidy(k, g, r)
    <3>1. SUFFICES ASSUME ~loose PROVE ClaudeTidy(k, g, r) OBVIOUS
    <3>2. r.calls = s.calls /\ r.begun = s.begun /\ g.block = m.block /\ g.blockIndex = m.blockIndex
      BY <1>2, <2>10 DEF Delivered
    <3>3. m.block # "call" BY <1>2, <2>9
    <3>4. ClaudeCalls(h.calls, g, r) BY <2>8, <3>1, <3>2, <3>3, CallsAside
    <3>5. k.calls = h.calls /\ k.begun = h.begun /\ k.done = h.done /\ k.last # "call"
      BY <1>2, <2>1 DEF Worded, Aside
    <3>6. r.begun = c.begun BY <2>7, <3>2 DEF Entered
    <3>7. c.begun <=> h.begun BY <1>0, <3>1 DEF ClaudeTidy
    <3> QED BY <2>2, <3>4, <3>5, <3>6, <3>7 DEF ClaudeTidy
  <2> QED BY <2>10, <2>11, <2>13, <2>14 DEF ClaudeHolds, Delivered
<1>3. CASE delta.d = "call"
  <2>1. Called(h, delta, k) BY <1>3, CallIsCalled
  <2>2. h.begun /\ ~h.done BY <1>3 DEF Allowed
  <2>3. PICK m : m = [e EXCEPT !.hasTools = TRUE] OBVIOUS
  <2>4. PICK n : n = closeBlock(m) OBVIOUS
  <2>5. g = openBlock(n, "call", delta.call) BY <1>3, <2>3, <2>4, Zenon DEF encodeClaude
  <2>6. /\ DOMAIN m = EncFields /\ m.out = e.out /\ m.block = e.block
        /\ m.blockIndex = e.blockIndex /\ m.hasTools = TRUE /\ m.reason = e.reason
        /\ m.ended = e.ended BY <1>10, <2>3 DEF EncFields
  <2>7. Lays(loose, m, c) BY <1>0, <2>6 DEF Lays, ClaudeNeat
  <2>8. PICK s : s = Client("claude", c0, n.out) OBVIOUS
  <2>9. Shut(loose, m, c, n, s) BY <2>4, <2>6, <2>7, <2>8, ClaudeShuts
  <2>10. Lays(loose, n, s) /\ n.block = "" /\ s.begun = c.begun BY <2>9 DEF Shut
  <2>11. s.begun \/ loose BY <1>0, <2>2, <2>10 DEF ClaudeTidy
  <2>12. Begun(loose, n, s, "call", delta.call, g, r) BY <2>5, <2>8, <2>10, <2>11, ClaudeBegins
  <2>13. HearsWords(k, r) BY <1>0, <2>1, <2>9, <2>12 DEF HearsWords, Called, Shut, Begun, Intact
  <2>14. g.hasTools = TRUE /\ g.reason = e.reason /\ g.ended = e.ended
    BY <2>6, <2>9, <2>12 DEF Shut, Begun, SameTale
  <2>15. ToolsAs(k, g) BY <2>1, <2>14, ToolsOfCalled
  <2>16. ClaudeWaits(k, g) BY <1>0, <2>1, <2>2, <2>14, <2>15 DEF ClaudeWaits, Called, Aside
  <2>17. loose \/ ClaudeTidy(k, g, r)
    <3>1. SUFFICES ASSUME ~loose PROVE ClaudeTidy(k, g, r) OBVIOUS
    <3>2. ClaudeCalls(h.calls, e, c) BY <1>0, <3>1 DEF ClaudeTidy
    <3>3. n.blockIndex = IF e.block = "" THEN e.blockIndex ELSE e.blockIndex + 1
      BY <2>6, <2>9 DEF Shut
    <3>4. s.calls = c.calls BY <2>9 DEF Shut
    <3>5. ClaudeCalls(h.calls, n, s) BY <2>10, <3>2, <3>3, <3>4, CallsShut
    <3>6. PICK none, x, y : /\ none = <<>>
                            /\ x = [at |-> n.blockIndex, call |-> delta.call, args |-> none]
                            /\ y = [index |-> delta.index, call |-> delta.call, args |-> none]
      OBVIOUS
    <3>7. /\ IsHeardCall(x) /\ x.call = y.call /\ x.args = y.args /\ x.at = n.blockIndex
      BY <3>6 DEF IsHeardCall
    <3>8. r.calls = Append(s.calls, x) BY <2>12, <3>1, <3>6 DEF Begun
    <3>9. k.calls = Append(h.calls, y) BY <2>1, <3>6 DEF Called
    <3>10. g.block = "call" /\ g.blockIndex = n.blockIndex BY <2>12 DEF Begun
    <3>11. ClaudeCalls(k.calls, g, r) BY ONLY <2>10, <3>5, <3>7, <3>8, <3>9, <3>10, CallsOpen
    <3>12. k.begun = h.begun /\ k.done = h.done BY <2>1 DEF Called, Aside
    <3>13. r.begun = c.begun BY <2>10, <2>12 DEF Begun
    <3>14. c.begun <=> h.begun BY <1>0, <3>1 DEF ClaudeTidy
    <3> QED BY <2>2, <3>10, <3>11, <3>12, <3>13, <3>14 DEF ClaudeTidy
  <2> QED BY <2>12, <2>13, <2>16, <2>17 DEF ClaudeHolds, Begun
<1>4. CASE delta.d = "args"
  <2>1. Argued(h, delta, k) BY <1>4, ArgsAreArgued
  <2>2. h.begun /\ ~h.done /\ IsSeq(delta.body) /\ AwaitsArgs(loose, h, delta.index)
    BY <1>4 DEF Allowed
  <2>3. g = blockDelta(e, "args", delta.body) BY <1>4, Zenon DEF encodeClaude
  <2>4. ~loose => h.last = "call" BY <2>2 DEF AwaitsArgs
  <2>5. ~loose => e.block = "call" BY <1>0, <2>2, <2>4 DEF ClaudeTidy
  <2>6. PICK kind : kind = "args" OBVIOUS
  <2>7. Delivered(loose, e, c, kind, delta.body, g, r) BY <1>0, <2>3, <2>5, <2>6, ClaudeDelivers
  <2>8. HearsWords(k, r) BY <1>0, <2>1, <2>6, <2>7 DEF HearsWords, Argued, Delivered, Spoken
  <2>9. SameTale(e, g) /\ ToolsAs(h, e) BY <1>0, <2>7 DEF Delivered, ClaudeWaits
  <2>10. ToolsAs(k, g)
    <3>1. ToolsAs(h, g) BY <2>9 DEF ToolsAs, SameTale
    <3> QED BY <2>1, <2>2, <3>1, ToolsOfArgued
  <2>11. ClaudeWaits(k, g) BY <1>0, <2>1, <2>9, <2>10 DEF ClaudeWaits, Argued, Aside, SameTale
  <2>12. loose \/ ClaudeTidy(k, g, r)
    <3>1. SUFFICES ASSUME ~loose PROVE ClaudeTidy(k, g, r) OBVIOUS
    <3>2. ClaudeCalls(h.calls, e, c) BY <1>0, <3>1 DEF ClaudeTidy
    <3>3. h.calls[Len(h.calls)].index = delta.index BY <2>2, <3>1 DEF AwaitsArgs
    <3>4. r.calls = ArgsHeard(c.calls, e.blockIndex, delta.body) BY <2>6, <2>7 DEF Delivered
    <3>5. g.block = "call" /\ g.blockIndex = e.blockIndex BY <2>5, <2>7, <3>1 DEF Delivered
    <3>6. k.calls = WithArgs(h.calls, delta.index, delta.body) BY <2>1 DEF Argued
    <3>7. /\ \A i, j \in 1..Len(h.calls) : h.calls[i].index = h.calls[j].index => i = j
          /\ \A i \in 1..Len(h.calls) : DOMAIN h.calls[i] = CallFields /\ IsSeq(h.calls[i].args)
      BY DEF StoryIsSound
    <3>8. ClaudeCalls(k.calls, g, r)
      BY ONLY <2>2, <2>5, <3>1, <3>2, <3>3, <3>4, <3>5, <3>6, <3>7, CallsArgue
    <3>9. k.begun = h.begun /\ k.done = h.done /\ k.last = h.last BY <2>1 DEF Argued, Aside
    <3>10. r.begun = c.begun BY <2>7 DEF Delivered
    <3>11. c.begun <=> h.begun BY <1>0, <3>1 DEF ClaudeTidy
    <3> QED BY <2>2, <3>5, <3>8, <3>9, <3>10, <3>11 DEF ClaudeTidy
  <2> QED BY <2>7, <2>8, <2>11, <2>12 DEF ClaudeHolds, Delivered
<1>5. CASE delta.d = "usage"
  <2>1. g = [e EXCEPT !.usage = Merge(e.usage, delta.usage)] BY <1>5 DEF encodeClaude, Merged
  <2>2. k = h BY <1>5 DEF After
  <2>3. /\ DOMAIN g = EncFields /\ g.out = e.out /\ SameTale(e, g) /\ g.block = e.block
        /\ g.blockIndex = e.blockIndex BY <1>10, <2>1 DEF EncFields, SameTale
  <2>4. r = c BY <2>3
  <2>5. Lays(loose, g, c) BY <1>0, <2>3 DEF Lays, ClaudeNeat
  <2>6. ClaudeWaits(h, g) BY <1>0, <2>3 DEF ClaudeWaits, SameTale, ToolsAs
  <2>7. ClaudeTidy(h, e, c) => ClaudeTidy(h, g, c) BY <2>3 DEF ClaudeTidy, ClaudeCalls
  <2> QED BY <1>0, <2>2, <2>4, <2>5, <2>6, <2>7 DEF ClaudeHolds
<1>6. CASE delta.d = "unknown"
  <2>1. PICK f : f = [f |-> "foreign"] OBVIOUS
  <2>2. g = Emit(e, <<f>>) BY <1>6, <2>1, Zenon DEF encodeClaude
  <2>3. Shows("claude", c0, e, f, g) BY <1>10, <2>2, EmitShows
  <2>4. ReadOne("claude", c, f) = c BY <2>1 DEF ReadOne
  <2>5. k = h BY <1>6 DEF After
  <2>6. r = c BY <2>3, <2>4 DEF Shows
  <2>7. /\ DOMAIN g = EncFields /\ IsSeq(g.out) /\ SameTale(e, g) /\ g.block = e.block
        /\ g.blockIndex = e.blockIndex BY <2>3 DEF Shows, Same, SameTale
  <2>8. Lays(loose, g, c) BY <1>0, <2>7 DEF Lays, ClaudeNeat
  <2>9. ClaudeWaits(h, g) BY <1>0, <2>7 DEF ClaudeWaits, SameTale, ToolsAs
  <2>10. ClaudeTidy(h, e, c) => ClaudeTidy(h, g, c) BY <2>7 DEF ClaudeTidy, ClaudeCalls
  <2> QED BY <1>0, <2>5, <2>6, <2>8, <2>9, <2>10 DEF ClaudeHolds
<1>7. CASE delta.d = "done"
  <2>0. delta.reason \in Reasons /\ ~h.done BY <1>7 DEF Allowed
  <2>1. PICK m : m = closeBlock(e) OBVIOUS
  <2>2. PICK reason : reason = WithTools(delta.reason, e.hasTools) OBVIOUS
  <2>3. g = [m EXCEPT !.reason = reason] BY <1>7, <2>1, <2>2, Zenon DEF encodeClaude
  <2>4. PICK s : s = Client("claude", c0, m.out) OBVIOUS
  <2>5. Shut(loose, e, c, m, s) BY <1>0, <2>1, <2>4, ClaudeShuts
  <2>6. DOMAIN m = EncFields BY <2>5 DEF Shut, Lays
  <2>7. /\ DOMAIN g = EncFields /\ g.out = m.out /\ g.block = m.block
        /\ g.blockIndex = m.blockIndex /\ g.hasTools = m.hasTools /\ g.ended = m.ended
        /\ g.reason = reason BY <2>3, <2>6 DEF EncFields
  <2>8. r = s BY <2>4, <2>7
  <2>9. Stops(h, delta, k) BY <1>7, DoneStops
  <2>10. Lays(loose, g, r) BY <2>5, <2>7, <2>8 DEF Lays, ClaudeNeat, Shut
  <2>11. HearsWords(k, r) BY <1>0, <2>5, <2>8, <2>9 DEF HearsWords, Shut, Intact, Stops
  <2>12. g.hasTools = e.hasTools /\ g.ended = e.ended BY <2>5, <2>7 DEF Shut, SameTale
  <2>13. reason # "" BY <2>0, <2>2 DEF WithTools, Reasons
  <2>14. ToolsAs(k, g) BY <1>0, <2>9, <2>12 DEF ClaudeWaits, ToolsAs, Stops
  <2>15. k.done /\ k.reason = delta.reason BY <2>9 DEF Stops
  <2>16. ClaudeWaits(k, g) BY <1>0, <2>2, <2>7, <2>12, <2>13, <2>14, <2>15 DEF ClaudeWaits
  <2>17. loose \/ ClaudeTidy(k, g, r)
    <3>1. SUFFICES ASSUME ~loose PROVE ClaudeTidy(k, g, r) OBVIOUS
    <3>2. ClaudeCalls(h.calls, e, c) BY <1>0, <3>1 DEF ClaudeTidy
    <3>3. /\ g.blockIndex = (IF e.block = "" THEN e.blockIndex ELSE e.blockIndex + 1)
          /\ r.calls = c.calls /\ g.block = "" /\ r.begun = c.begun BY <2>5, <2>7, <2>8 DEF Shut
    <3>4. ClaudeCalls(h.calls, g, r) BY <3>2, <3>3, CallsShut
    <3>5. k.calls = h.calls /\ k.begun = h.begun BY <2>9 DEF Stops
    <3>6. c.begun <=> h.begun BY <1>0, <3>1 DEF ClaudeTidy
    <3> QED BY <2>15, <3>3, <3>4, <3>5, <3>6 DEF ClaudeTidy
  <2> QED BY <2>10, <2>11, <2>16, <2>17 DEF ClaudeHolds
<1> QED BY <1>1, <1>2, <1>3, <1>4, <1>5, <1>6, <1>7 DEF Allowed

----------------------------------------
(* The ends of chat and Claude. *)

\* A last frame written to a caller that waits for it, and a pair of them.
LEMMA ReadOneMore ==
  ASSUME NEW q, NEW c0, NEW out, IsSeq(out), NEW c, c = Client(q, c0, out), NEW f,
         NEW s, s = <<f>>
  PROVE  Client(q, c0, out \o s) = ReadOne(q, c, f)
<1>2. Client(q, c0, Append(out, f)) = ReadOne(q, c, f) BY ReadMore
<1>3. Append(out, f) = out \o <<f>> BY SeqMore
<1> QED BY <1>2, <1>3

\* What is left to write is written from nothing.
LEMMA CleanOut ==
  ASSUME NEW e, DOMAIN e = EncFields, NEW m, m = [e EXCEPT !.out = <<>>],
         NEW s, IsSeq(s), NEW g, g = Emit(m, s)
  PROVE  g.out = s /\ m.out = <<>> /\ DOMAIN m = EncFields
<1>1. DOMAIN m = EncFields /\ m.out = <<>> BY DEF EncFields
<1>2. <<>> \o s = s BY SeqEmpty, SeqCat
<1>3. g = [m EXCEPT !.out = s] BY <1>1, <1>2 DEF Emit
<1>4. g.out = s BY <1>1, <1>3 DEF EncFields
<1> QED BY <1>1, <1>4

\* What the last frames leave to a caller.
Over(c, r) ==
  /\ DOMAIN r = CliFields /\ r.think = c.think /\ r.text = c.text /\ r.calls = c.calls
  /\ r.over

\* [DONE] ends a chat stream and says no more.
LEMMA DoneIsRead ==
  ASSUME NEW c, DOMAIN c = CliFields, NEW f, f.f = "[DONE]", NEW r, r = ReadOne("chat", c, f)
  PROVE  Over(c, r) /\ r.ok = (c.ok /\ ~c.over) /\ r.end = c.end
<1>1. r = [Expect(c, TRUE) EXCEPT !.over = TRUE] BY ChatReads DEF ReadOne
<1>2. PICK x : x = Expect(c, TRUE) OBVIOUS
<1>3. /\ DOMAIN x = CliFields /\ x.think = c.think /\ x.text = c.text /\ x.calls = c.calls
      /\ x.end = c.end /\ x.ok = (c.ok /\ ~c.over) BY <1>2 DEF Expect, CliFields
<1>4. r = [x EXCEPT !.over = TRUE] BY <1>1, <1>2
<1>5. /\ DOMAIN r = CliFields /\ r.think = x.think /\ r.text = x.text /\ r.calls = x.calls
      /\ r.end = x.end /\ r.ok = x.ok /\ r.over = TRUE BY <1>3, <1>4 DEF CliFields
<1> QED BY <1>3, <1>5 DEF Over

\* A chat answer that ends is told to its end.
LEMMA ChatEnds ==
  ASSUME NEW h, StoryIsSound(h), h.done, NEW c0, NEW e, NEW c, c = Client("chat", c0, e.out),
         ChatHolds(h, e, c), NEW finale, finale = EncodeDone("chat", e),
         NEW r, r = Client("chat", c0, e.out \o finale.out)
  PROVE  Heard(h, r) /\ r.ok /\ r.over /\ EndsAs(h, r.end, "tool_calls")
<1>0. /\ DOMAIN e = EncFields /\ IsSeq(e.out) /\ ChatListens(h, c) /\ e.hasStop
      /\ EndsAs(h, c.end, "tool_calls") BY DEF ChatHolds
<1>1. PICK m : m = [e EXCEPT !.out = <<>>] OBVIOUS
<1>2. finale = endChat(m) BY <1>1, Zenon DEF EncodeDone
<1>3. /\ DOMAIN m = EncFields /\ m.hasStop = e.hasStop BY <1>0, <1>1 DEF EncFields
<1>4. PICK f : f = [f |-> "[DONE]"] OBVIOUS
<1>5. PICK u : u = [NoChunk EXCEPT !.usage = openAIWireUsage(m.usage)] OBVIOUS
<1>6. PICK tale : tale = (m.includeUsage /\ HasAnyUsage(m.usage)) OBVIOUS
<1>7. finale = Emit(m, When(tale, <<u>>) \o <<f>>)
  BY <1>0, <1>2, <1>3, <1>4, <1>5, <1>6, Zenon DEF endChat
<1>8. f.f = "[DONE]" BY <1>4
<1>9. ASSUME NEW d, ChatListens(h, d), d.end = c.end
      PROVE  LET x == ReadOne("chat", d, f) IN
             Heard(h, x) /\ x.ok /\ x.over /\ EndsAs(h, x.end, "tool_calls")
  <2>1. PICK x : x = ReadOne("chat", d, f) OBVIOUS
  <2>2. Heard(h, d) /\ d.ok /\ ~d.over BY <1>9 DEF ChatListens
  <2>3. DOMAIN d = CliFields BY <2>2 DEF Heard
  <2>4. Over(d, x) /\ x.ok = (d.ok /\ ~d.over) /\ x.end = d.end BY <1>8, <2>1, <2>3, DoneIsRead
  <2>5. Heard(h, x) BY <2>2, <2>4 DEF Heard, Over
  <2> QED BY <1>0, <1>9, <2>1, <2>2, <2>4, <2>5 DEF Over
<1>10. CASE tale
  <2>1. PICK s : s = <<u>> \o <<f>> OBVIOUS
  <2>2. finale = Emit(m, s) BY <1>7, <1>10, <2>1, Zenon DEF When
  <2>3. IsSeq(s) BY <2>1, SeqOne, SeqCat
  <2>4. finale.out = s BY <1>0, <1>1, <2>2, <2>3, CleanOut
  <2>5. s = <<u, f>> BY <2>1, SeqPair
  <2>6. PICK d : d = ReadOne("chat", c, u) OBVIOUS
  <2>7. r = ReadOne("chat", d, f)
    <3>1. PICK out : out = e.out OBVIOUS
    <3>2. r = Client("chat", c0, out \o <<u, f>>) BY <2>4, <2>5, <3>1
    <3>3. IsSeq(out) /\ c = Client("chat", c0, out) BY <1>0, <3>1
    <3> QED BY <2>6, <3>2, <3>3, ReadTwo
  <2>8. u.f = "chunk" /\ u.think = <<>> /\ u.text = <<>> /\ u.calls = <<>> BY <1>5 DEF NoChunk
  <2>9. u.finish = "" BY <1>5 DEF NoChunk
  <2>10. ChatListens(h, d) /\ d.end = IF u.finish = "" THEN c.end ELSE u.finish
    BY <1>0, <2>6, <2>8, EmptyChunk
  <2>11. d.end = c.end BY <2>9, <2>10
  <2> QED BY <1>9, <2>7, <2>10, <2>11
<1>11. CASE ~tale
  <2>1. PICK s : s = <<f>> OBVIOUS
  <2>2. IsSeq(s) /\ <<>> \o s = s BY <2>1, SeqOne, SeqEmpty, SeqCat
  <2>3. finale = Emit(m, <<>> \o s) BY <1>7, <1>11, <2>1, Zenon DEF When
  <2>4. finale = Emit(m, s) BY <2>2, <2>3
  <2>5. finale.out = s BY <1>0, <1>1, <2>2, <2>4, CleanOut
  <2>6. PICK out : out = e.out OBVIOUS
  <2>7. r = ReadOne("chat", c, f)
    <3>1. IsSeq(out) /\ c = Client("chat", c0, out) BY <1>0, <2>6
    <3>2. r = Client("chat", c0, out \o s) BY <2>5, <2>6
    <3> QED BY ONLY <2>1, <3>1, <3>2, ReadOneMore
  <2> QED BY <1>0, <1>9, <2>7
<1> QED BY <1>10, <1>11

MessageEnded(c, f, r) ==
  /\ DOMAIN r = CliFields /\ r.over = c.over /\ r.think = c.think /\ r.text = c.text
  /\ r.calls = c.calls /\ r.ok = (c.ok /\ ~c.over /\ c.begun /\ c.block = "")
  /\ r.end = IF f.reason = "" THEN c.end ELSE f.reason

\* How a Claude client reads a message_delta,
LEMMA MessageEnds ==
  ASSUME NEW c, DOMAIN c = CliFields, NEW f, f.f = "message_delta",
         NEW r, r = ReadOne("claude", c, f)
  PROVE  MessageEnded(c, f, r)
<1>1. r = ClaudeClient(c, f) BY DEF ReadOne
<1>2. PICK x : x = Expect(c, c.begun /\ c.block = "") OBVIOUS
<1>3. /\ DOMAIN x = CliFields /\ x.over = c.over /\ x.think = c.think /\ x.text = c.text
      /\ x.calls = c.calls /\ x.ok = (c.ok /\ ~c.over /\ c.begun /\ c.block = "")
      /\ x.end = c.end BY <1>2 DEF Expect, CliFields
<1>4. PICK y : y = Told(x, f.usage) OBVIOUS
<1>5. /\ DOMAIN y = CliFields /\ y.over = x.over /\ y.think = x.think /\ y.text = x.text
      /\ y.calls = x.calls /\ y.ok = x.ok /\ y.end = x.end BY <1>3, <1>4 DEF Told, CliFields
<1>6. r = [y EXCEPT !.end = IF f.reason = "" THEN y.end ELSE f.reason]
  BY <1>1, <1>2, <1>4 DEF ClaudeClient
<1>7. /\ DOMAIN r = CliFields /\ r.over = y.over /\ r.think = y.think /\ r.text = y.text
      /\ r.calls = y.calls /\ r.ok = y.ok
      /\ r.end = IF f.reason = "" THEN y.end ELSE f.reason BY <1>5, <1>6 DEF CliFields
<1> QED BY <1>3, <1>5, <1>7 DEF MessageEnded

\* and a message_stop.
LEMMA MessageStops ==
  ASSUME NEW c, DOMAIN c = CliFields, NEW f, f.f = "message_stop",
         NEW r, r = ReadOne("claude", c, f)
  PROVE  Over(c, r) /\ r.ok = (c.ok /\ ~c.over) /\ r.end = c.end
<1>1. r = [Expect(c, TRUE) EXCEPT !.over = TRUE] BY DEF ReadOne, ClaudeClient
<1>2. PICK x : x = Expect(c, TRUE) OBVIOUS
<1>3. /\ DOMAIN x = CliFields /\ x.think = c.think /\ x.text = c.text /\ x.calls = c.calls
      /\ x.end = c.end /\ x.ok = (c.ok /\ ~c.over) BY <1>2 DEF Expect, CliFields
<1>4. r = [x EXCEPT !.over = TRUE] BY <1>1, <1>2
<1>5. /\ DOMAIN r = CliFields /\ r.think = x.think /\ r.text = x.text /\ r.calls = x.calls
      /\ r.end = x.end /\ r.ok = x.ok /\ r.over = TRUE BY <1>3, <1>4 DEF CliFields
<1> QED BY <1>3, <1>5 DEF Over

\* The stop_reason of Claude is of the kind of the reason.
LEMMA ClaudeStops ==
  ASSUME NEW reason \in Reasons, NEW tools \in BOOLEAN
  PROVE  LET end == irToClaudeStopReason(WithTools(reason, tools)) IN
         /\ end # "" /\ EndClass(end) = EndClass(reason)
         /\ EndClass(end) = "normal" /\ tools => end = "tool_use"
BY DEF irToClaudeStopReason, WithTools, IRStopReasonIsAbnormal, EndClass, Reasons

\* A Claude answer that ends is told to its end.
LEMMA ClaudeEnds ==
  ASSUME NEW loose \in BOOLEAN, NEW h, StoryIsSound(h), h.done, NEW c0, NEW e,
         NEW c, c = Client("claude", c0, e.out),
         ClaudeHolds(loose, h, e, c), NEW finale, finale = EncodeDone("claude", e),
         NEW r, r = Client("claude", c0, e.out \o finale.out)
  PROVE  /\ HearsWords(h, r) /\ r.over /\ EndsAs(h, r.end, "tool_use")
         /\ loose \/ (r.ok /\ Mirrors(r.calls, h.calls))
<1>0. /\ Lays(loose, e, c) /\ HearsWords(h, c) /\ ClaudeWaits(h, e)
      /\ loose \/ ClaudeTidy(h, e, c) BY DEF ClaudeHolds
<1>1. DOMAIN e = EncFields /\ IsSeq(e.out) /\ DOMAIN c = CliFields /\ ~c.over /\ Unended(c)
  BY <1>0 DEF Lays
<1>2. e.reason # "" /\ ~e.ended /\ e.reason = WithTools(h.reason, e.hasTools) /\ ToolsAs(h, e)
  BY <1>0 DEF ClaudeWaits
<1>3. PICK m : m = [e EXCEPT !.out = <<>>] OBVIOUS
<1>4. finale = endClaude(m) BY <1>3, Zenon DEF EncodeDone
<1>5. /\ DOMAIN m = EncFields /\ m.reason = e.reason /\ m.ended = e.ended /\ m.out = <<>>
  BY <1>1, <1>3 DEF EncFields
<1>6. PICK u : u = [f |-> "message_delta", reason |-> irToClaudeStopReason(m.reason),
                    usage |-> claudeUsageMap(m.usage)] OBVIOUS
<1>7. PICK f : f = [f |-> "message_stop"] OBVIOUS
<1>8. PICK n : n = [m EXCEPT !.ended = TRUE] OBVIOUS
<1>9. PICK s : s = <<u, f>> OBVIOUS
<1>10. finale = Emit(n, s) BY <1>2, <1>4, <1>5, <1>6, <1>7, <1>8, <1>9, Zenon DEF endClaude
<1>11. IsSeq(s) BY <1>9, SeqPair
<1>12. finale.out = s
  <2>1. n.out = <<>> /\ DOMAIN n = EncFields BY <1>5, <1>8 DEF EncFields
  <2>2. <<>> \o s = s BY <1>11, SeqEmpty, SeqCat
  <2>3. finale = [n EXCEPT !.out = s] BY <1>10, <2>1, <2>2 DEF Emit
  <2> QED BY <2>1, <2>3 DEF EncFields
<1>13. PICK d : d = ReadOne("claude", c, u) OBVIOUS
<1>14. r = ReadOne("claude", d, f)
  <2>1. PICK out : out = e.out OBVIOUS
  <2>2. r = Client("claude", c0, out \o <<u, f>>) BY <1>9, <1>12, <2>1
  <2>3. IsSeq(out) /\ c = Client("claude", c0, out) BY <1>1, <2>1
  <2> QED BY <1>13, <2>2, <2>3, ReadTwo
<1>15. u.f = "message_delta" /\ u.reason = irToClaudeStopReason(e.reason) /\ f.f = "message_stop"
  BY <1>5, <1>6, <1>7
<1>16. MessageEnded(c, u, d) BY <1>1, <1>13, <1>15, MessageEnds
<1>17. DOMAIN d = CliFields BY <1>16 DEF MessageEnded
<1>18. Over(d, r) /\ r.ok = (d.ok /\ ~d.over) /\ r.end = d.end BY <1>14, <1>15, <1>17, MessageStops
<1>19. HearsWords(h, r) /\ r.over /\ r.calls = c.calls
  BY <1>0, <1>16, <1>18 DEF HearsWords, MessageEnded, Over
<1>20. EndsAs(h, r.end, "tool_use")
  <2>1. h.reason \in Reasons BY DEF StoryIsSound
  <2>2. e.hasTools \in BOOLEAN /\ (e.hasTools <=> h.calls # <<>>) BY <1>2 DEF ToolsAs
  <2>3. PICK end : end = irToClaudeStopReason(WithTools(h.reason, e.hasTools)) OBVIOUS
  <2>4. /\ end # "" /\ EndClass(end) = EndClass(h.reason)
        /\ EndClass(end) = "normal" /\ e.hasTools => end = "tool_use"
    BY <2>1, <2>2, <2>3, ClaudeStops
  <2>5. u.reason = end BY <1>2, <1>15, <2>3
  <2>6. d.end = end BY <1>16, <2>4, <2>5 DEF MessageEnded
  <2>7. r.end = end BY <1>18, <2>6
  <2> QED BY <2>2, <2>4, <2>7 DEF EndsAs
<1>21. loose \/ (r.ok /\ Mirrors(r.calls, h.calls))
  <2>1. SUFFICES ASSUME ~loose PROVE r.ok /\ Mirrors(r.calls, h.calls) OBVIOUS
  <2>2. ClaudeTidy(h, e, c) /\ ClaudeNeat(e, c) BY <1>0, <2>1 DEF Lays
  <2>3. h.begun BY DEF StoryIsSound
  <2> QED BY <1>1, <1>16, <1>18, <1>19, <2>2, <2>3 DEF ClaudeTidy, ClaudeCalls, ClaudeNeat, MessageEnded
<1> QED BY <1>19, <1>20, <1>21

----------------------------------------
(* What is known of calls, and what of them is ready. *)

ReadyCalls(calls) == {x \in Known(calls) : Complete(x[2])}

IsCall(p, call, args) == p = <<call, args>>

\* The members of Known,
LEMMA KnownIs ==
  ASSUME NEW s, IsSeq(s), NEW x
  PROVE  x \in Known(s) <=> \E i \in 1..Len(s) : x = <<s[i].call, s[i].args>>
<1>1. DOMAIN s = 1..Len(s) BY SeqDomain
<1> QED BY <1>1 DEF Known

\* and those of them whose arguments are complete.
LEMMA ReadyIs ==
  ASSUME NEW s, IsSeq(s), NEW x
  PROVE  x \in ReadyCalls(s) <=>
             \E i \in 1..Len(s) : x = <<s[i].call, s[i].args>> /\ Complete(s[i].args)
<1>1. x \in ReadyCalls(s) <=> x \in Known(s) /\ Complete(x[2]) BY DEF ReadyCalls
<1>2. \A i : x = <<s[i].call, s[i].args>> => x[2] = s[i].args OBVIOUS
<1> QED BY <1>1, <1>2, KnownIs

\* Calls that mirror each other are known alike.
LEMMA MirrorIsKnown ==
  ASSUME NEW caught, NEW tale, Mirrors(caught, tale)
  PROVE  Known(caught) = Known(tale)
<1>1. IsSeq(caught) /\ IsSeq(tale) /\ Len(caught) = Len(tale) BY DEF Mirrors
<1>2. DOMAIN caught = 1..Len(tale) /\ DOMAIN tale = 1..Len(tale) BY <1>1, SeqDomain
<1>3. \A i \in 1..Len(tale) : caught[i].call = tale[i].call /\ caught[i].args = tale[i].args
  BY DEF Mirrors
<1> QED BY <1>2, <1>3 DEF Known

KnownMoreOf(s, t, p, args) ==
  /\ \A x : x \in Known(t) <=> x \in Known(s) \/ x = p
  /\ \A x : x \in ReadyCalls(t) <=> x \in ReadyCalls(s) \/ (x = p /\ Complete(args))

\* One call more.
LEMMA KnownMore ==
  ASSUME NEW s, IsSeq(s), NEW y, NEW t, t = Append(s, y), NEW call, NEW args,
         y.call = call, y.args = args, NEW p, IsCall(p, call, args)
  PROVE  KnownMoreOf(s, t, p, args)
<1> SUFFICES ASSUME NEW x
             PROVE  /\ x \in Known(t) <=> x \in Known(s) \/ x = p
                    /\ x \in ReadyCalls(t) <=> x \in ReadyCalls(s) \/ (x = p /\ Complete(args))
  BY DEF KnownMoreOf
<1>1. /\ IsSeq(t) /\ Len(t) = Len(s) + 1 /\ (\A i \in 1..Len(s) : t[i] = s[i])
      /\ t[Len(s) + 1] = y BY SeqMore
<1>2. Len(s) \in Nat BY SeqDomain
<1>3. PICK n : n = Len(s) OBVIOUS
<1>4. \A i \in 1..(n + 1) : i \in 1..n \/ i = n + 1 BY <1>2, <1>3
<1>5. \A i \in 1..n : i \in 1..(n + 1) BY <1>2, <1>3
<1>6. n + 1 \in 1..(n + 1) BY <1>2, <1>3
<1>7. \A i \in 1..n : t[i] = s[i] BY <1>1, <1>3
<1>8. t[n + 1] = y /\ Len(t) = n + 1 BY <1>1, <1>3
<1>9. y.call = call /\ y.args = args /\ p = <<call, args>> BY DEF IsCall
<1>10. x \in Known(t) <=> \E i \in 1..(n + 1) : x = <<t[i].call, t[i].args>>
  BY ONLY <1>1, <1>8, KnownIs
<1>11. x \in Known(s) <=> \E i \in 1..n : x = <<s[i].call, s[i].args>> BY <1>3, KnownIs
<1>12. x \in ReadyCalls(t) <=>
         \E i \in 1..(n + 1) : x = <<t[i].call, t[i].args>> /\ Complete(t[i].args)
  BY ONLY <1>1, <1>8, ReadyIs
<1>13. x \in ReadyCalls(s) <=> \E i \in 1..n : x = <<s[i].call, s[i].args>> /\ Complete(s[i].args)
  BY <1>3, ReadyIs
<1>14. x \in Known(t) <=> x \in Known(s) \/ x = p
  BY ONLY <1>4, <1>5, <1>6, <1>7, <1>8, <1>9, <1>10, <1>11
<1>15. x \in ReadyCalls(t) <=> x \in ReadyCalls(s) \/ (x = p /\ Complete(args))
  BY ONLY <1>4, <1>5, <1>6, <1>7, <1>8, <1>9, <1>12, <1>13
<1> QED BY <1>14, <1>15

KnownPlus(t, s, p) == \A x : x \in Known(t) <=> x \in Known(s) \/ x = p

\* One more call is one more known.
LEMMA KnownGrows ==
  ASSUME NEW s, IsSeq(s), NEW y, NEW t, t = Append(s, y), NEW p, IsCall(p, y.call, y.args)
  PROVE  KnownPlus(t, s, p)
<1>1. PICK args : args = y.args OBVIOUS
<1>2. PICK call : call = y.call OBVIOUS
<1>3. IsCall(p, call, args) BY <1>1, <1>2
<1>5. KnownMoreOf(s, t, p, args) BY <1>1, <1>2, <1>3, KnownMore
<1> QED BY <1>5 DEF KnownPlus, KnownMoreOf

\* More arguments of a call that was not ready.
LEMMA ReadyArgs ==
  ASSUME NEW s, IsSeq(s), NEW t, IsSeq(t), Len(t) = Len(s), NEW n \in 1..Len(s),
         \A i \in 1..Len(s) : i # n => t[i].call = s[i].call /\ t[i].args = s[i].args,
         ~Complete(s[n].args), NEW call, NEW args, t[n].call = call, t[n].args = args,
         NEW p, IsCall(p, call, args), NEW x
  PROVE  x \in ReadyCalls(t) <=> x \in ReadyCalls(s) \/ (x = p /\ Complete(args))
<1>1. PICK m : m = Len(s) OBVIOUS
<1>2. x \in ReadyCalls(t) <=> \E i \in 1..m : x = <<t[i].call, t[i].args>> /\ Complete(t[i].args)
  BY <1>1, ReadyIs
<1>3. x \in ReadyCalls(s) <=> \E i \in 1..m : x = <<s[i].call, s[i].args>> /\ Complete(s[i].args)
  BY <1>1, ReadyIs
<1>4. \A i \in 1..m : i # n => t[i].call = s[i].call /\ t[i].args = s[i].args BY <1>1
<1>5. n \in 1..m /\ ~Complete(s[n].args) /\ t[n].call = call /\ t[n].args = args
      /\ p = <<call, args>> BY <1>1 DEF IsCall
<1> QED BY ONLY <1>2, <1>3, <1>4, <1>5
----------------------------------------
(* The Gemini encoder and its caller. *)

\* Words that are heard, and nothing else.
WordsOnly(c, kind, body, o) ==
  /\ DOMAIN o = CliFields /\ Spoken(c, kind, body, o)
  /\ o.over = c.over /\ o.end = c.end /\ o.begun = c.begun /\ o.items = c.items
  /\ o.ok = c.ok /\ o.block = c.block /\ o.calls = c.calls

\* Words change a client's words only.
LEMMA HearsWordsOnly ==
  ASSUME NEW c, DOMAIN c = CliFields, NEW kind \in {"think", "text"}, NEW body,
         NEW o, o = Hears(c, kind, body)
  PROVE  WordsOnly(c, kind, body, o)
<1>3. PICK thought, said : thought = c.think \o body /\ said = c.text \o body OBVIOUS
<1>5. o = IF kind = "think" THEN [c EXCEPT !.think = thought] ELSE [c EXCEPT !.text = said]
  BY <1>3 DEF Hears
<1>6. /\ DOMAIN o = CliFields /\ o.over = c.over /\ o.end = c.end
      /\ o.think = (IF kind = "think" THEN thought ELSE c.think)
      /\ o.text = (IF kind = "text" THEN said ELSE c.text)
      /\ o.begun = c.begun /\ o.items = c.items /\ o.ok = c.ok /\ o.block = c.block
      /\ o.calls = c.calls BY <1>5 DEF CliFields
<1> QED BY <1>3, <1>6 DEF WordsOnly, Spoken

PartRead(g, f, r) ==
  /\ DOMAIN r = CliFields /\ r.ok = (g.ok /\ ~g.over) /\ r.think = g.think /\ r.text = g.text
  /\ r.calls = g.calls /\ (r.over <=> f.finish # "") /\ r.end = f.finish

\* How a Gemini client reads a candidate.
LEMMA PartIsRead ==
  ASSUME NEW c, NEW f, f.f = "chunk", NEW g, g = GeminiHeard(c, f.parts), DOMAIN g = CliFields,
         NEW r, r = ReadOne("gemini", c, f)
  PROVE  PartRead(g, f, r)
<1>1. r = [Told(Expect(g, TRUE), f.usage) EXCEPT !.over = f.finish # "", !.end = f.finish]
  BY GeminiReads DEF ReadOne
<1>2. PICK x : x = Expect(g, TRUE) OBVIOUS
<1>3. /\ DOMAIN x = CliFields /\ x.ok = (g.ok /\ ~g.over) /\ x.think = g.think
      /\ x.text = g.text /\ x.calls = g.calls BY <1>2 DEF Expect, CliFields
<1>4. PICK y : y = Told(x, f.usage) OBVIOUS
<1>5. /\ DOMAIN y = CliFields /\ y.ok = x.ok /\ y.think = x.think
      /\ y.text = x.text /\ y.calls = x.calls BY <1>3, <1>4 DEF Told, CliFields
<1>6. r = [y EXCEPT !.over = f.finish # "", !.end = f.finish] BY <1>1, <1>2, <1>4
<1>7. /\ DOMAIN r = CliFields /\ r.ok = y.ok /\ r.think = y.think /\ r.text = y.text
      /\ r.calls = y.calls /\ (r.over <=> f.finish # "") /\ r.end = f.finish
  BY <1>5, <1>6 DEF CliFields
<1> QED BY <1>3, <1>5, <1>7 DEF PartRead

GeminiListens(h, c) ==
  /\ DOMAIN c = CliFields /\ c.ok /\ ~c.over /\ HearsWords(h, c)
  /\ IsSeq(c.calls) /\ \A x : x \in Known(c.calls) <=> x \in ReadyCalls(h.calls)

GeminiWaits(h, e) ==
  /\ e.tools = h.calls
  /\ e.hasStop \in BOOLEAN /\ (e.hasStop <=> h.done) /\ (h.done => e.reason = h.reason)

GeminiHolds(h, e, c) ==
  DOMAIN e = EncFields /\ IsSeq(e.out) /\ GeminiListens(h, c) /\ GeminiWaits(h, e)

\* An encoder that has only written waits as before.
LEMMA GeminiWrites ==
  ASSUME NEW h, NEW c0, NEW m, DOMAIN m = EncFields, IsSeq(m.out), NEW f,
         NEW c, c = Client("gemini", c0, m.out), NEW g, g = Emit(m, <<f>>),
         GeminiWaits(h, m), GeminiListens(h, ReadOne("gemini", c, f))
  PROVE  GeminiHolds(h, g, Client("gemini", c0, g.out))
<1>1. Shows("gemini", c0, m, f, g) BY EmitShows
<1>2. Client("gemini", c0, g.out) = ReadOne("gemini", c, f) BY <1>1 DEF Shows
<1>3. DOMAIN g = EncFields /\ IsSeq(g.out) /\ GeminiWaits(h, g)
  BY <1>1 DEF Shows, Same, GeminiWaits
<1> QED BY <1>2, <1>3 DEF GeminiHolds

\* Words told are words heard.
LEMMA GeminiSays ==
  ASSUME NEW h, StoryIsSound(h), NEW c, GeminiListens(h, c), NEW delta,
         delta.d \in {"think", "text"}, NEW k, Worded(h, delta, k),
         NEW f, f = onePart(delta.d, delta.body)
  PROVE  GeminiListens(k, ReadOne("gemini", c, f))
<1>0. /\ DOMAIN c = CliFields /\ c.ok /\ ~c.over /\ HearsWords(h, c)
      /\ IsSeq(c.calls) /\ \A x : x \in Known(c.calls) <=> x \in ReadyCalls(h.calls)
  BY DEF GeminiListens
<1>1. PICK part : part = [kind |-> delta.d, body |-> delta.body] OBVIOUS
<1>2. f.f = "chunk" /\ f.parts = <<part>> BY <1>1 DEF onePart, NoCandidate
<1>3. f.finish = "" BY DEF onePart, NoCandidate
<1>4. PICK g : g = GeminiHeard(c, f.parts) OBVIOUS
<1>5. g = GeminiHear(c, part) BY <1>2, <1>4, HeardOne
<1>6. g = Hears(c, delta.d, delta.body) BY <1>1, <1>5 DEF GeminiHear
<1>7. WordsOnly(c, delta.d, delta.body, g) BY <1>0, <1>6, HearsWordsOnly
<1>8. PICK r : r = ReadOne("gemini", c, f) OBVIOUS
<1>9. PartRead(g, f, r) BY <1>2, <1>4, <1>7, <1>8, PartIsRead DEF WordsOnly
<1>10. HearsWords(k, r) BY <1>0, <1>7, <1>9 DEF HearsWords, Worded, WordsOnly, PartRead, Spoken
<1>11. DOMAIN r = CliFields /\ r.ok /\ r.calls = c.calls
  BY <1>0, <1>7, <1>9 DEF WordsOnly, PartRead
<1>12. ~r.over BY <1>3, <1>9 DEF PartRead
<1>13. k.calls = h.calls BY DEF Worded
<1>14. GeminiListens(k, r) BY <1>0, <1>10, <1>11, <1>12, <1>13 DEF GeminiListens
<1> QED BY <1>8, <1>14

\* A call that is ready.
LEMMA GeminiCalls ==
  ASSUME NEW h, NEW c, GeminiListens(h, c), NEW k, k.think = h.think, k.text = h.text,
         NEW call, NEW args, Complete(args), NEW p, IsCall(p, call, args),
         \A x : x \in ReadyCalls(k.calls) <=> x \in ReadyCalls(h.calls) \/ x = p,
         NEW part, part = [kind |-> "call", call |-> call, args |-> args],
         NEW f, f = [NoCandidate EXCEPT !.parts = <<part>>]
  PROVE  GeminiListens(k, ReadOne("gemini", c, f))
<1>0. /\ DOMAIN c = CliFields /\ c.ok /\ ~c.over /\ HearsWords(h, c)
      /\ IsSeq(c.calls) /\ \A x : x \in Known(c.calls) <=> x \in ReadyCalls(h.calls)
  BY DEF GeminiListens
<1>2. f.f = "chunk" /\ f.parts = <<part>> BY DEF NoCandidate
<1>3. f.finish = "" BY DEF NoCandidate
<1>4. PICK g : g = GeminiHeard(c, f.parts) OBVIOUS
<1>5. g = GeminiHear(c, part) BY <1>2, <1>4, HeardOne
<1>6. PICK y : y = [at |-> 0, call |-> call, args |-> args] OBVIOUS
<1>7. PICK more, calls : calls = c.calls /\ more = Append(calls, y) OBVIOUS
<1>8. g = [c EXCEPT !.calls = more] BY <1>5, <1>6, <1>7 DEF GeminiHear, Opens
<1>9. /\ DOMAIN g = CliFields /\ g.ok = c.ok /\ g.over = c.over /\ g.think = c.think
      /\ g.text = c.text /\ g.calls = more BY <1>0, <1>8 DEF CliFields
<1>10. PICK r : r = ReadOne("gemini", c, f) OBVIOUS
<1>11. PartRead(g, f, r) BY <1>2, <1>4, <1>9, <1>10, PartIsRead
<1>12. DOMAIN r = CliFields /\ r.ok /\ r.calls = more /\ r.think = c.think /\ r.text = c.text
  BY <1>0, <1>9, <1>11 DEF PartRead
<1>13. ~r.over BY <1>3, <1>11 DEF PartRead
<1>14. IsSeq(calls) BY <1>0, <1>7
<1>15. IsSeq(more) BY ONLY <1>7, <1>14, SeqMore
<1>16. y.call = call /\ y.args = args BY <1>6
<1>21. more = Append(calls, y) BY <1>7
<1>22. IsCall(p, call, args) OBVIOUS
<1>17. ASSUME NEW x PROVE x \in Known(more) <=> x \in Known(calls) \/ x = p
  <2>1. IsCall(p, y.call, y.args) BY <1>16, <1>22
  <2>2. KnownPlus(more, calls, p) BY ONLY <1>14, <1>21, <2>1, KnownGrows
  <2> QED BY <2>2 DEF KnownPlus
<1>18. \A x : x \in Known(r.calls) <=> x \in ReadyCalls(k.calls) BY ONLY <1>0, <1>7, <1>12, <1>17,
          \A x : x \in ReadyCalls(k.calls) <=> x \in ReadyCalls(h.calls) \/ x = p
<1>19. HearsWords(k, r) BY <1>0, <1>12 DEF HearsWords
<1>20. GeminiListens(k, r) BY <1>12, <1>13, <1>15, <1>18, <1>19 DEF GeminiListens
<1> QED BY <1>10, <1>20

\* A Gemini client stays with a story whose words and complete calls stay.
LEMMA GeminiSame ==
  ASSUME NEW h, NEW c, GeminiListens(h, c), NEW k, k.think = h.think, k.text = h.text,
         \A x : x \in ReadyCalls(k.calls) <=> x \in ReadyCalls(h.calls)
  PROVE  GeminiListens(k, c)
BY DEF GeminiListens, HearsWords

\* The arguments go to the one call of their index.
LEMMA ArgsFound ==
  ASSUME NEW loose, NEW h, StoryIsSound(h), NEW index, AwaitsArgs(loose, h, index),
         NEW e, e.tools = h.calls
  PROVE  \E n \in 1..Len(h.calls) :
           /\ ToolAt(e, index) = n /\ n # 0
           /\ h.calls[n].index = index /\ ~Complete(h.calls[n].args)
           /\ \A i \in 1..Len(h.calls) : h.calls[i].index = index <=> i = n
<1>1. PICK n \in 1..Len(h.calls) : h.calls[n].index = index /\ ~Complete(h.calls[n].args)
  BY DEF AwaitsArgs
<1>2. \A i \in 1..Len(h.calls) : h.calls[i].index = index <=> i = n BY <1>1 DEF StoryIsSound
<1>3. IsSeq(h.calls) BY DEF StoryIsSound
<1>4. DOMAIN h.calls = 1..Len(h.calls) /\ Len(h.calls) \in Nat BY <1>3, SeqDomain
<1>5. PICK known : known = {t \in DOMAIN e.tools : e.tools[t].index = index} OBVIOUS
<1>6. known = {n} BY <1>2, <1>4, <1>5
<1>7. ToolAt(e, index) = CHOOSE t \in known : \A s \in known : s <= t BY <1>5, <1>6 DEF ToolAt
<1>8. n \in Nat /\ n # 0 /\ n <= n BY <1>4
<1>9. ToolAt(e, index) = n BY <1>6, <1>7, <1>8
<1> QED BY <1>1, <1>2, <1>8, <1>9

OnlyAt(s, index, n) ==
  IsSeq(s) /\ n \in 1..Len(s) /\ \A i \in 1..Len(s) : s[i].index = index <=> i = n

ArguedAt(s, n, args, a) == a = [s EXCEPT ![n].args = args]

\* Arguments for the only tool of an index are WithArgs.
LEMMA ToolsArgue ==
  ASSUME NEW s, NEW n, NEW index, OnlyAt(s, index, n), NEW body,
         NEW args, args = s[n].args \o body, NEW a, ArguedAt(s, n, args, a)
  PROVE  a = WithArgs(s, index, body)
<1> USE DEF OnlyAt, ArguedAt
<1>1. DOMAIN s = 1..Len(s) BY SeqDomain
<1>3. PICK b : b = WithArgs(s, index, body) OBVIOUS
<1>4. a = [i \in DOMAIN s |-> IF i = n THEN [s[n] EXCEPT !.args = args] ELSE s[i]] BY <1>1
<1>5. b = [i \in DOMAIN s |-> IF s[i].index = index THEN [s[i] EXCEPT !.args = s[i].args \o body]
                              ELSE s[i]] BY <1>3 DEF WithArgs
<1>6. a = b BY <1>1, <1>4, <1>5
<1> QED BY <1>3, <1>6

\* encodeGemini keeps its caller with the story: its calls are those complete.
LEMMA GeminiStep ==
  ASSUME NEW loose, NEW h, StoryIsSound(h), NEW delta, Allowed(loose, h, delta),
         NEW k, k = After(h, delta), NEW c0, NEW e, NEW c, c = Client("gemini", c0, e.out),
         GeminiHolds(h, e, c), NEW g, g = encodeGemini(e, delta),
         NEW r, r = Client("gemini", c0, g.out)
  PROVE  GeminiHolds(k, g, r)
<1>0. DOMAIN e = EncFields /\ IsSeq(e.out) /\ GeminiListens(h, c) /\ GeminiWaits(h, e)
  BY DEF GeminiHolds
<1>1. CASE delta.d = "start"
  <2>1. g = e BY <1>1 DEF encodeGemini
  <2>2. Begins(h, k) BY <1>1, StartBegins
  <2>3. r = c BY <2>1
  <2>4. GeminiListens(k, c) BY <1>0, <2>2, GeminiSame DEF Begins
  <2>5. GeminiWaits(k, g) BY <1>0, <2>1, <2>2 DEF GeminiWaits, Begins
  <2> QED BY <1>0, <2>1, <2>3, <2>4, <2>5 DEF GeminiHolds
<1>2. CASE delta.d \in {"text", "think"}
  <2>1. PICK f : f = onePart(delta.d, delta.body) OBVIOUS
  <2>2. g = Emit(e, <<f>>) BY <1>2, <2>1, Zenon DEF encodeGemini
  <2>3. Worded(h, delta, k) BY <1>2, WordsAreWorded
  <2>4. GeminiListens(k, ReadOne("gemini", c, f)) BY <1>0, <1>2, <2>1, <2>3, GeminiSays
  <2>5. GeminiWaits(k, e) BY <1>0, <2>3 DEF GeminiWaits, Worded, Aside
  <2> QED BY <1>0, <2>2, <2>4, <2>5, GeminiWrites
<1>3. CASE delta.d = "call"
  <2>1. Called(h, delta, k) BY <1>3, CallIsCalled
  <2>2. PICK none, y : none = <<>> /\ y = [index |-> delta.index, call |-> delta.call, args |-> none]
    OBVIOUS
  <2>3. PICK s, more : s = h.calls /\ more = Append(s, y) OBVIOUS
  <2>4. e.tools = s BY <1>0, <2>3 DEF GeminiWaits
  <2>5. g = [e EXCEPT !.tools = more] BY <1>3, <2>2, <2>3, <2>4 DEF encodeGemini
  <2>6. /\ DOMAIN g = EncFields /\ g.out = e.out /\ g.tools = more /\ g.hasStop = e.hasStop
        /\ g.reason = e.reason BY <1>0, <2>5 DEF EncFields
  <2>7. k.calls = more BY <2>1, <2>2, <2>3 DEF Called
  <2>8. r = c BY <2>6
  <2>15. PICK call, p : call = delta.call /\ IsCall(p, call, none) BY DEF IsCall
  <2>9. y.call = call /\ y.args = none /\ ~Complete(none) /\ IsCall(p, call, none)
    BY <2>2, <2>15 DEF Complete
  <2>10. IsSeq(s) BY <2>3 DEF StoryIsSound
  <2>11. more = Append(s, y) BY <2>3
  <2>12. ASSUME NEW x PROVE x \in ReadyCalls(more) <=> x \in ReadyCalls(s)
    <3>1. KnownMoreOf(s, more, p, none) BY ONLY <2>9, <2>10, <2>11, KnownMore
    <3> QED BY <2>9, <3>1 DEF KnownMoreOf
  <2>13. GeminiListens(k, c) BY <1>0, <2>1, <2>3, <2>7, <2>12, GeminiSame DEF Called
  <2>14. GeminiWaits(k, g) BY <1>0, <2>1, <2>6, <2>7 DEF GeminiWaits, Called, Aside
  <2> QED BY <1>0, <2>6, <2>8, <2>13, <2>14 DEF GeminiHolds
<1>4. CASE delta.d = "args"
  <2>0. AwaitsArgs(loose, h, delta.index) /\ IsSeq(delta.body) BY <1>4 DEF Allowed
  <2>1. Argued(h, delta, k) BY <1>4, ArgsAreArgued
  <2>2. e.tools = h.calls BY <1>0 DEF GeminiWaits
  <2>30. PICK ix, b : ix = delta.index /\ b = delta.body OBVIOUS
  <2>31. AwaitsArgs(loose, h, ix) BY <2>0, <2>30
  <2>3. PICK n \in 1..Len(h.calls) :
          /\ ToolAt(e, ix) = n /\ n # 0
          /\ h.calls[n].index = ix /\ ~Complete(h.calls[n].args)
          /\ \A i \in 1..Len(h.calls) : h.calls[i].index = ix <=> i = n BY <2>2, <2>31, ArgsFound
  <2>4. PICK s, more : s = h.calls /\ more = WithArgs(s, ix, b) OBVIOUS
  <2>5. PICK args, call, p : args = s[n].args \o b /\ call = s[n].call /\ IsCall(p, call, args) BY DEF IsCall
  <2>6. e.tools = s /\ e.tools[n].args \o b = args /\ e.tools[n].call = call BY <2>2, <2>4, <2>5
  <2>7. PICK part : part = [kind |-> "call", call |-> call, args |-> args] OBVIOUS
  <2>8. PICK f : f = [NoCandidate EXCEPT !.parts = <<part>>] OBVIOUS
  <2>9. PICK m : m = [e EXCEPT !.tools[n].args = args] OBVIOUS
  <2>10. g = Emit(m, When(Complete(args), <<f>>))
    <3>1. ToolAt(e, ix) = n /\ n # 0 BY <2>3
    <3>2. PICK t : t = ToolAt(e, ix) OBVIOUS
    <3>3. g = IF t = 0 THEN e
              ELSE Emit([e EXCEPT !.tools[t].args = e.tools[t].args \o b],
                        When(Complete(e.tools[t].args \o b),
                             << [NoCandidate EXCEPT !.parts =
                                    <<[kind |-> "call", call |-> e.tools[t].call,
                                       args |-> e.tools[t].args \o b]>>] >>))
      BY <1>4, <2>30, <3>2, Zenon DEF encodeGemini
    <3> QED BY <2>6, <2>7, <2>8, <2>9, <3>1, <3>2, <3>3, Zenon
  <2>11. IsSeq(s) /\ n \in 1..Len(s) BY <2>4 DEF StoryIsSound
  <2>12. [s EXCEPT ![n].args = args] = more
    <3>1. OnlyAt(s, ix, n) BY <2>3, <2>4, <2>11 DEF OnlyAt
    <3>2. args = s[n].args \o b BY <2>5
    <3>3. PICK a : a = [s EXCEPT ![n].args = args] OBVIOUS
    <3>4. ArguedAt(s, n, args, a) BY <3>3 DEF ArguedAt
    <3>5. a = WithArgs(s, ix, b) BY ONLY <3>1, <3>2, <3>4, ToolsArgue
    <3> QED BY <2>4, <3>3, <3>5
  <2>13. m = [e EXCEPT !.tools = more]
    <3>1. m = [e EXCEPT !.tools = [e.tools EXCEPT ![n].args = args]] BY <2>9
    <3> QED BY <2>6, <2>12, <3>1
  <2>14. /\ DOMAIN m = EncFields /\ m.out = e.out /\ m.tools = more /\ m.hasStop = e.hasStop
         /\ m.reason = e.reason BY <1>0, <2>13 DEF EncFields
  <2>15. k.calls = more BY <2>1, <2>4, <2>30 DEF Argued
  <2>16. GeminiWaits(k, m) BY <1>0, <2>1, <2>14, <2>15 DEF GeminiWaits, Argued, Aside
  <2>17. \A i \in 1..Len(s) : DOMAIN s[i] = CallFields /\ IsSeq(s[i].args)
    BY <2>4 DEF StoryIsSound
  <2>18. /\ IsSeq(more) /\ Len(more) = Len(s)
         /\ \A i \in 1..Len(s) :
              /\ more[i].call = s[i].call
              /\ more[i].args = IF s[i].index = ix THEN s[i].args \o b ELSE s[i].args
    <3>1. more = WithArgs(s, ix, b) /\ IsSeq(b) BY <2>0, <2>4, <2>30
    <3> QED BY ONLY <2>11, <2>17, <3>1, CallsAfterArgs
  <2>19. \A i \in 1..Len(s) : i # n => more[i].call = s[i].call /\ more[i].args = s[i].args
    BY <2>3, <2>4, <2>18
  <2>20. more[n].call = call /\ more[n].args = args BY <2>3, <2>4, <2>5, <2>11, <2>18
  <2>21. ~Complete(s[n].args) BY <2>3, <2>4
  <2>22. IsSeq(more) /\ Len(more) = Len(s) BY <2>18
  <2>23. ASSUME NEW x PROVE x \in ReadyCalls(more) <=> x \in ReadyCalls(s) \/ (x = p /\ Complete(args))
    BY ONLY <2>11, <2>19, <2>20, <2>21, <2>22, <2>5, ReadyArgs
  <2>24. k.think = h.think /\ k.text = h.text BY <2>1 DEF Argued
  <2>25. CASE Complete(args)
    <3>1. g = Emit(m, <<f>>) BY <2>10, <2>25, Zenon DEF When
    <3>2. \A x : x \in ReadyCalls(k.calls) <=> x \in ReadyCalls(h.calls) \/ x = p
      BY <2>4, <2>15, <2>23, <2>25
    <3>3. GeminiListens(k, ReadOne("gemini", c, f))
      BY <1>0, <2>5, <2>7, <2>8, <2>24, <2>25, <3>2, GeminiCalls
    <3>4. c = Client("gemini", c0, m.out) /\ IsSeq(m.out) BY <1>0, <2>14
    <3> QED BY <2>14, <2>16, <3>1, <3>3, <3>4, GeminiWrites
  <2>26. CASE ~Complete(args)
    <3>1. g = Emit(m, <<>>) BY <2>10, <2>26, Zenon DEF When
    <3>2. m.out \o <<>> = m.out BY <1>0, <2>14, SeqCat, SeqEmpty
    <3>3. g = [m EXCEPT !.out = m.out] BY <3>1, <3>2 DEF Emit
    <3>4. /\ DOMAIN g = EncFields /\ g.out = m.out /\ g.tools = m.tools /\ g.hasStop = m.hasStop
          /\ g.reason = m.reason BY <2>14, <3>3 DEF EncFields
    <3>5. r = c BY <2>14, <3>4
    <3>6. \A x : x \in ReadyCalls(k.calls) <=> x \in ReadyCalls(h.calls) BY <2>4, <2>15, <2>23, <2>26
    <3>7. GeminiListens(k, c) BY <1>0, <2>24, <3>6, GeminiSame
    <3>8. GeminiWaits(k, g) BY <2>16, <3>4 DEF GeminiWaits
    <3> QED BY <1>0, <2>14, <3>4, <3>5, <3>7, <3>8 DEF GeminiHolds
  <2> QED BY <2>25, <2>26
<1>5. CASE delta.d = "usage"
  <2>1. g = [e EXCEPT !.usage = Merge(e.usage, delta.usage)] BY <1>5 DEF encodeGemini, Merged
  <2>2. k = h BY <1>5 DEF After
  <2>3. /\ DOMAIN g = EncFields /\ g.out = e.out /\ g.tools = e.tools /\ g.hasStop = e.hasStop
        /\ g.reason = e.reason BY <1>0, <2>1 DEF EncFields
  <2>4. r = c BY <2>3
  <2> QED BY <1>0, <2>2, <2>3, <2>4 DEF GeminiHolds, GeminiWaits
<1>6. CASE delta.d = "unknown"
  <2>1. PICK f : f = [f |-> "foreign"] OBVIOUS
  <2>2. g = Emit(e, <<f>>) BY <1>6, <2>1, Zenon DEF encodeGemini
  <2>4. ReadOne("gemini", c, f) = c BY <2>1 DEF ReadOne
  <2>5. k = h BY <1>6 DEF After
  <2> QED BY <1>0, <2>2, <2>4, <2>5, GeminiWrites
<1>7. CASE delta.d = "done"
  <2>1. g = [e EXCEPT !.reason = delta.reason, !.hasStop = TRUE] BY <1>7 DEF encodeGemini
  <2>2. Stops(h, delta, k) BY <1>7, DoneStops
  <2>3. /\ DOMAIN g = EncFields /\ g.out = e.out /\ g.tools = e.tools /\ g.hasStop = TRUE
        /\ g.reason = delta.reason BY <1>0, <2>1 DEF EncFields
  <2>4. r = c BY <2>3
  <2>5. GeminiListens(k, c) BY <1>0, <2>2, GeminiSame DEF Stops
  <2>6. GeminiWaits(k, g) BY <1>0, <2>2, <2>3 DEF GeminiWaits, Stops
  <2> QED BY <1>0, <2>3, <2>4, <2>5, <2>6 DEF GeminiHolds
<1> QED BY <1>1, <1>2, <1>3, <1>4, <1>5, <1>6, <1>7 DEF Allowed

\* The finishReason of Gemini is of the kind of the reason.
LEMMA GeminiFinishes ==
  ASSUME NEW reason \in Reasons, NEW tools \in BOOLEAN
  PROVE  LET end == mapToGeminiFinishReason(reason, tools) IN
         end # "" /\ EndClass(end) = EndClass(reason)
BY DEF mapToGeminiFinishReason, EndClass, Reasons

\* A Gemini answer that ends is told to its end.
LEMMA GeminiEnds ==
  ASSUME NEW h, StoryIsSound(h), h.done, NEW c0, NEW e, NEW c, c = Client("gemini", c0, e.out),
         GeminiHolds(h, e, c), NEW finale, finale = EncodeDone("gemini", e),
         NEW r, r = Client("gemini", c0, e.out \o finale.out)
  PROVE  /\ HearsWords(h, r) /\ r.ok /\ r.over /\ EndClass(r.end) = EndClass(h.reason)
         /\ \A x : x \in Known(r.calls) <=> x \in ReadyCalls(h.calls)
<1>0. DOMAIN e = EncFields /\ IsSeq(e.out) /\ GeminiListens(h, c) /\ GeminiWaits(h, e)
  BY DEF GeminiHolds
<1>1. /\ DOMAIN c = CliFields /\ c.ok /\ ~c.over /\ HearsWords(h, c)
      /\ \A x : x \in Known(c.calls) <=> x \in ReadyCalls(h.calls) BY <1>0 DEF GeminiListens
<1>2. PICK m : m = [e EXCEPT !.out = <<>>] OBVIOUS
<1>3. finale = endGemini(m) BY <1>2, Zenon DEF EncodeDone
<1>4. DOMAIN m = EncFields /\ m.hasStop = e.hasStop /\ m.reason = e.reason
  BY <1>0, <1>2 DEF EncFields
<1>5. PICK end : end = mapToGeminiFinishReason(m.reason, m.tools # <<>>) OBVIOUS
<1>6. PICK f : f = [NoCandidate EXCEPT !.finish = end, !.usage = buildGeminiUsage(m.usage)] OBVIOUS
<1>7. m.hasStop BY <1>0, <1>4 DEF GeminiWaits
<1>8. PICK s : s = <<f>> OBVIOUS
<1>9. finale = Emit(m, s) BY <1>3, <1>5, <1>6, <1>7, <1>8, Zenon DEF endGemini
<1>10. IsSeq(s) BY <1>8, SeqOne
<1>11. finale.out = s BY <1>0, <1>2, <1>9, <1>10, CleanOut
<1>12. PICK out : out = e.out OBVIOUS
<1>13. IsSeq(out) /\ c = Client("gemini", c0, out) BY <1>0, <1>12
<1>14. r = Client("gemini", c0, out \o s) BY <1>11, <1>12
<1>15. r = ReadOne("gemini", c, f) BY ONLY <1>8, <1>13, <1>14, ReadOneMore
<1>16. f.f = "chunk" /\ f.parts = <<>> BY <1>6 DEF NoCandidate
<1>17. f.finish = end BY <1>6 DEF NoCandidate
<1>18. c = GeminiHeard(c, f.parts) BY <1>16, HeardNone
<1>19. PartRead(c, f, r) BY <1>1, <1>15, <1>16, <1>18, PartIsRead
<1>20. HearsWords(h, r) /\ r.ok /\ r.calls = c.calls BY <1>1, <1>19 DEF HearsWords, PartRead
<1>21. e.reason \in Reasons /\ e.reason = h.reason BY <1>0 DEF GeminiWaits, StoryIsSound
<1>22. end # "" /\ EndClass(end) = EndClass(h.reason)
  <2>1. PICK tools : tools = (m.tools # <<>>) OBVIOUS
  <2>2. tools \in BOOLEAN BY <2>1
  <2>3. end = mapToGeminiFinishReason(h.reason, tools) BY <1>4, <1>5, <1>21, <2>1
  <2> QED BY <1>21, <2>2, <2>3, GeminiFinishes
<1>23. r.over /\ r.end = end BY <1>17, <1>19, <1>22 DEF PartRead
<1> QED BY <1>1, <1>20, <1>22, <1>23

----------------------------------------
(* What a caller of Responses makes of a frame. *)

ItemFields == {"item", "kind", "open", "body"}

\* Items are numbered as they come.
Stocked(items) ==
  /\ IsSeq(items)
  /\ \A i \in 1..Len(items) : DOMAIN items[i] = ItemFields /\ items[i].item = i

IsOpen(items, i, kind) == i \in 1..Len(items) /\ items[i].open = TRUE /\ items[i].kind = kind

Elsewhere(items, after, j) == \A i \in 1..Len(items) : i # j => after[i] = items[i]

\* The calls, and what was said, are a matter of their own.
Carried(c, r) ==
  /\ DOMAIN r = CliFields /\ r.over = c.over /\ r.begun = c.begun /\ r.end = c.end

Expected(c, condition, x) ==
  /\ DOMAIN x = CliFields /\ x.over = c.over /\ x.end = c.end /\ x.think = c.think
  /\ x.text = c.text /\ x.calls = c.calls /\ x.begun = c.begun /\ x.items = c.items
  /\ (x.ok <=> c.ok /\ ~c.over /\ condition)

\* Expecting a condition costs a client nothing else.
LEMMA IsExpected ==
  ASSUME NEW c, DOMAIN c = CliFields, NEW condition, NEW x, x = Expect(c, condition)
  PROVE  Expected(c, condition, x)
BY DEF Expect, CliFields, Expected

ResponseBegun(c, r) ==
  /\ Intact(c, r) /\ r.begun = TRUE /\ r.items = c.items /\ r.calls = c.calls
  /\ (r.ok <=> c.ok /\ ~c.over /\ ~c.begun)

\* How a Responses client reads response.created,
LEMMA CreatedIsRead ==
  ASSUME NEW c, DOMAIN c = CliFields, NEW f, f.f = "created", NEW r, r = ReadOne("responses", c, f)
  PROVE  ResponseBegun(c, r)
<1>1. r = ResponsesClient(c, f) BY DEF ReadOne
<1>2. PICK x : x = Expect(c, ~c.begun) OBVIOUS
<1>3. Expected(c, ~c.begun, x) BY <1>2, IsExpected
<1>4. r = [x EXCEPT !.begun = TRUE] BY <1>1, <1>2 DEF ResponsesClient
<1>5. /\ DOMAIN r = CliFields /\ r.over = x.over /\ r.end = x.end /\ r.think = x.think
      /\ r.text = x.text /\ r.begun = TRUE /\ r.items = x.items /\ r.calls = x.calls
      /\ r.ok = x.ok BY <1>3, <1>4 DEF Expected, CliFields
<1> QED BY <1>3, <1>5 DEF Expected, Intact, ResponseBegun

\* response.in_progress,
LEMMA ProgressIsRead ==
  ASSUME NEW c, DOMAIN c = CliFields, NEW f, f.f = "in_progress",
         NEW r, r = ReadOne("responses", c, f)
  PROVE  Expected(c, c.begun, r)
<1>1. r = ResponsesClient(c, f) BY DEF ReadOne
<1>2. r = Expect(c, c.begun) BY <1>1 DEF ResponsesClient
<1> QED BY <1>2, IsExpected

\* A new item.
ItemOpened(c, f, r) ==
  LET n == Len(c.items) IN
  /\ Carried(c, r) /\ r.think = c.think /\ r.text = c.text /\ (c.ok /\ ~c.over /\ c.begun => r.ok)
  /\ Stocked(r.items) /\ n \in Nat /\ Len(r.items) = n + 1 /\ Elsewhere(c.items, r.items, n + 1)
  /\ IsOpen(r.items, n + 1, f.kind) /\ r.items[n + 1].body = <<>>
  /\ f.kind # "call" => r.calls = c.calls
  /\ f.kind = "call" => r.calls = Append(c.calls, [at |-> n + 1, call |-> f.call, args |-> <<>>])

\* an item added,
LEMMA ItemOpens ==
  ASSUME NEW c, DOMAIN c = CliFields, Stocked(c.items), NEW f, f.f = "item_added",
         f.item = Len(c.items) + 1, NEW r, r = ReadOne("responses", c, f)
  PROVE  ItemOpened(c, f, r)
<1>0. PICK items : items = c.items OBVIOUS
<1>20. PICK n : n = Len(items) OBVIOUS
<1>1. r = ResponsesClient(c, f) BY DEF ReadOne
<1>2. PICK calls : calls = Append(c.calls, [at |-> f.item, call |-> f.call, args |-> <<>>])
  OBVIOUS
<1>3. PICK o : o = IF f.kind = "call" THEN Opens(c, f.item, f.call, <<>>) ELSE c OBVIOUS
<1>4. o = IF f.kind = "call" THEN [c EXCEPT !.calls = calls] ELSE c BY <1>2, <1>3 DEF Opens
<1>5. /\ DOMAIN o = CliFields /\ o.over = c.over /\ o.end = c.end /\ o.think = c.think
      /\ o.text = c.text /\ o.begun = c.begun /\ o.items = items /\ o.ok = c.ok
      /\ o.calls = IF f.kind = "call" THEN calls ELSE c.calls BY <1>0, <1>4 DEF CliFields
<1>6. PICK room : room = (c.begun /\ \A i \in DOMAIN c.items : c.items[i].item # f.item) OBVIOUS
<1>8. PICK w : w = Expect(o, room) OBVIOUS
<1>9. Expected(o, room, w) BY <1>5, <1>8, IsExpected
<1>10. PICK none, y : none = <<>> /\ y = [item |-> f.item, kind |-> f.kind, open |-> TRUE, body |-> none]
  OBVIOUS
<1>11. PICK more : more = Append(items, y) OBVIOUS
<1>12. w.items = items BY <1>5, <1>9 DEF Expected
<1>13. r = [w EXCEPT !.items = more]
  <2>1. r = [w EXCEPT !.items = Append(@, [item |-> f.item, kind |-> f.kind, open |-> TRUE,
                                          body |-> <<>>])]
    BY <1>1, <1>3, <1>6, <1>8, Zenon DEF ResponsesClient
  <2> QED BY <1>10, <1>11, <1>12, <2>1
<1>14. /\ DOMAIN r = CliFields /\ r.over = w.over /\ r.end = w.end /\ r.think = w.think
       /\ r.text = w.text /\ r.begun = w.begun /\ r.items = more /\ r.ok = w.ok
       /\ r.calls = w.calls BY <1>9, <1>13 DEF Expected, CliFields
<1>15. IsSeq(items) /\ n \in Nat /\ DOMAIN items = 1..n
  <2>1. IsSeq(items) BY <1>0 DEF Stocked
  <2> QED BY <1>20, <2>1, SeqDomain
<1>16. /\ IsSeq(more) /\ Len(more) = n + 1 /\ (\A i \in 1..n : more[i] = items[i])
       /\ more[n + 1] = y BY ONLY <1>11, <1>15, <1>20, SeqMore
<1>17. f.item = n + 1 BY <1>0, <1>20
<1>18. /\ DOMAIN y = ItemFields /\ y.item = n + 1 /\ y.kind = f.kind /\ y.open = TRUE
       /\ y.body = none BY <1>10, <1>17 DEF ItemFields
<1>19. \A i \in 1..n : DOMAIN items[i] = ItemFields /\ items[i].item = i
  BY <1>0, <1>20 DEF Stocked
<1>21. \A i \in 1..(n + 1) : i \in 1..n \/ i = n + 1 BY <1>15
<1>22. Stocked(more) BY <1>16, <1>18, <1>19, <1>21 DEF Stocked
<1>23. c.begun => room
  <2>1. \A i \in 1..n : i # n + 1 BY <1>15
  <2> QED BY <1>0, <1>6, <1>15, <1>17, <1>19, <2>1
<1>24. n + 1 \in 1..(n + 1) BY <1>15
<1>25. IsOpen(more, n + 1, f.kind) /\ more[n + 1].body = none BY <1>16, <1>18, <1>24 DEF IsOpen
<1>26. Elsewhere(items, more, n + 1) BY <1>16, <1>20 DEF Elsewhere
<1>27. c.ok /\ ~c.over /\ c.begun => r.ok BY <1>5, <1>9, <1>14, <1>23 DEF Expected
<1>28. r.calls = IF f.kind = "call" THEN calls ELSE c.calls BY <1>5, <1>9, <1>14 DEF Expected
<1>29. Carried(c, r) /\ r.think = c.think /\ r.text = c.text
  BY <1>5, <1>9, <1>14 DEF Expected, Carried
<1>30. calls = Append(c.calls, [at |-> n + 1, call |-> f.call, args |-> <<>>]) BY <1>2, <1>17
<1>31. r.items = more /\ more[n + 1].body = <<>> BY <1>10, <1>14, <1>25
<1> QED BY <1>0, <1>15, <1>16, <1>20, <1>22, <1>25, <1>26, <1>27, <1>28, <1>29, <1>30, <1>31,
           Zenon
    DEF ItemOpened

\* One item among those there are, changed in one field.
Changed(items, j, y, after) ==
  /\ Stocked(after) /\ Len(after) = Len(items) /\ Elsewhere(items, after, j) /\ after[j] = y

\* (of its items, one changes)
LEMMA ItemChanges ==
  ASSUME NEW items, Stocked(items), NEW j \in 1..Len(items), NEW y,
         DOMAIN y = ItemFields, y.item = j, NEW after,
         after = [i \in DOMAIN items |-> IF i = j THEN y ELSE items[i]]
  PROVE  Changed(items, j, y, after)
<1>1. PICK n : n = Len(items) OBVIOUS
<1>2. IsSeq(items) BY DEF Stocked
<1>3. n \in Nat /\ DOMAIN items = 1..n BY <1>1, <1>2, SeqDomain
<1>4. after = [i \in 1..n |-> after[i]] BY <1>3
<1>5. IsSeq(after) /\ Len(after) = n BY <1>3, <1>4, SeqFunction
<1>6. after[j] = y /\ \A i \in 1..n : i # j => after[i] = items[i] BY <1>1, <1>3
<1>7. \A i \in 1..n : DOMAIN items[i] = ItemFields /\ items[i].item = i BY <1>1 DEF Stocked
<1>8. Stocked(after) BY <1>5, <1>6, <1>7 DEF Stocked
<1> QED BY <1>1, <1>5, <1>6, <1>8 DEF Changed, Elsewhere

\* (one item has the number a delta is for)
LEMMA OpenAt ==
  ASSUME NEW items, Stocked(items), NEW j, NEW kind, IsOpen(items, j, kind)
  PROVE  {i \in DOMAIN items : items[i].item = j /\ items[i].open} = {j}
<1>1. DOMAIN items = 1..Len(items) BY SeqDomain DEF Stocked
<1> QED BY <1>1 DEF Stocked, IsOpen

\* A delta of an item.
KindOf(f) == IF f.kind = "args" THEN "call" ELSE f.kind

ItemSaid(c, f, r) ==
  /\ Carried(c, r) /\ Spoken(c, f.kind, f.body, r) /\ (c.ok /\ ~c.over => r.ok)
  /\ Stocked(r.items) /\ Len(r.items) = Len(c.items) /\ Elsewhere(c.items, r.items, f.item)
  /\ IsOpen(r.items, f.item, KindOf(f)) /\ r.items[f.item].body = c.items[f.item].body \o f.body
  /\ r.calls = IF f.kind = "args" THEN ArgsHeard(c.calls, f.item, f.body) ELSE c.calls

\* a delta of an open item,
LEMMA ItemSays ==
  ASSUME NEW c, DOMAIN c = CliFields, Stocked(c.items), NEW f, f.f = "item_delta",
         f.kind \in {"think", "text", "args"}, IsOpen(c.items, f.item, KindOf(f)),
         NEW r, r = ReadOne("responses", c, f)
  PROVE  ItemSaid(c, f, r)
<1>1. r = ResponsesClient(c, f) BY DEF ReadOne
<1>2. PICK items, j : items = c.items /\ j = f.item OBVIOUS
<1>3. PICK at : at = {i \in DOMAIN c.items : c.items[i].item = f.item /\ c.items[i].open} OBVIOUS
<1>4. at = {j} BY <1>2, <1>3, OpenAt
<1>5. PICK o : o = IF f.kind = "args" THEN HearsArgs(c, f.item, f.body) ELSE Hears(c, f.kind, f.body)
  OBVIOUS
<1>6. PICK room : room = \E i \in at : c.items[i].kind = IF f.kind = "args" THEN "call" ELSE f.kind
  OBVIOUS
<1>7. PICK w : w = Expect(o, room) OBVIOUS
<1>8. PICK after : after = [i \in DOMAIN c.items |->
                              IF i \in at THEN [c.items[i] EXCEPT !.body = @ \o f.body]
                              ELSE c.items[i]] OBVIOUS
<1>9. r = [w EXCEPT !.items = after]
  BY <1>1, <1>3, <1>5, <1>6, <1>7, <1>8, Zenon DEF ResponsesClient
<1>10. PICK calls : calls = ArgsHeard(c.calls, f.item, f.body) OBVIOUS
<1>11. PICK thought, said : thought = c.think \o f.body /\ said = c.text \o f.body OBVIOUS
<1>12. o = IF f.kind = "args" THEN [c EXCEPT !.calls = calls]
           ELSE IF f.kind = "think" THEN [c EXCEPT !.think = thought]
           ELSE [c EXCEPT !.text = said]
  <2>1. HearsArgs(c, f.item, f.body) = [c EXCEPT !.calls = ArgsHeard(c.calls, f.item, f.body)]
    BY Zenon DEF HearsArgs, ArgsHeard
  <2>2. HearsArgs(c, f.item, f.body) = [c EXCEPT !.calls = calls] BY <1>10, <2>1, Zenon
  <2>3. f.kind \in {"think", "text"} =>
          Hears(c, f.kind, f.body) = IF f.kind = "think" THEN [c EXCEPT !.think = thought]
                                     ELSE [c EXCEPT !.text = said] BY <1>11 DEF Hears
  <2> QED BY <1>5, <2>2, <2>3
<1>13. /\ DOMAIN o = CliFields /\ o.over = c.over /\ o.end = c.end /\ o.begun = c.begun
       /\ o.items = c.items /\ o.ok = c.ok
       /\ o.think = (IF f.kind = "think" THEN thought ELSE c.think)
       /\ o.text = (IF f.kind = "text" THEN said ELSE c.text)
       /\ o.calls = (IF f.kind = "args" THEN calls ELSE c.calls) BY <1>12 DEF CliFields
<1>14. Expected(o, room, w) BY <1>7, <1>13, IsExpected
<1>15. /\ DOMAIN r = CliFields /\ r.over = w.over /\ r.end = w.end /\ r.think = w.think
       /\ r.text = w.text /\ r.begun = w.begun /\ r.items = after /\ r.ok = w.ok
       /\ r.calls = w.calls BY <1>9, <1>14 DEF Expected, CliFields
<1>16. PICK kind : kind = KindOf(f) OBVIOUS
<1>17. j \in 1..Len(items) /\ items[j].open = TRUE /\ items[j].kind = kind
  BY <1>2, <1>16 DEF IsOpen
<1>18. room BY <1>2, <1>4, <1>6, <1>16, <1>17 DEF KindOf
<1>19. PICK b : b = items[j].body \o f.body OBVIOUS
<1>20. PICK y : y = [items[j] EXCEPT !.body = b] OBVIOUS
<1>21. DOMAIN items[j] = ItemFields /\ items[j].item = j BY <1>2, <1>17 DEF Stocked
<1>22. /\ DOMAIN y = ItemFields /\ y.item = j /\ y.open = TRUE /\ y.kind = kind /\ y.body = b
  BY <1>17, <1>20, <1>21 DEF ItemFields
<1>23. after = [i \in DOMAIN items |-> IF i = j THEN y ELSE items[i]]
  <2>1. ASSUME NEW i
        PROVE  (IF i \in at THEN [c.items[i] EXCEPT !.body = c.items[i].body \o f.body]
                ELSE c.items[i])
               = IF i = j THEN y ELSE items[i] BY <1>2, <1>4, <1>19, <1>20
  <2> QED BY <1>2, <1>8, <2>1, Zenon
<1>24. Changed(items, j, y, after) BY <1>2, <1>17, <1>22, <1>23, ItemChanges
<1>25. /\ Stocked(after) /\ Len(after) = Len(items) /\ Elsewhere(items, after, j)
       /\ IsOpen(after, j, kind) /\ after[j].body = b BY <1>17, <1>22, <1>24 DEF Changed, IsOpen
<1>26. Carried(c, r) /\ (c.ok /\ ~c.over => r.ok)
  BY <1>13, <1>14, <1>15, <1>18 DEF Carried, Expected
<1>27. Spoken(c, f.kind, f.body, r) BY <1>11, <1>13, <1>14, <1>15 DEF Spoken, Expected
<1>28. r.calls = IF f.kind = "args" THEN calls ELSE c.calls BY <1>13, <1>14, <1>15 DEF Expected
<1>29. r.items = after BY <1>15
<1> QED BY <1>2, <1>10, <1>16, <1>19, <1>25, <1>26, <1>27, <1>28, <1>29 DEF ItemSaid

\* An item that is done with.
ItemShut(c, f, r) ==
  /\ Intact(c, r) /\ r.begun = c.begun /\ r.calls = c.calls /\ (c.ok /\ ~c.over => r.ok)
  /\ Stocked(r.items) /\ Len(r.items) = Len(c.items) /\ Elsewhere(c.items, r.items, f.item)
  /\ r.items[f.item].open = FALSE

\* an item done that restates what it held,
LEMMA ItemShuts ==
  ASSUME NEW c, DOMAIN c = CliFields, Stocked(c.items), NEW f, f.f = "item_done",
         NEW kind, IsOpen(c.items, f.item, kind), kind = "think" \/ c.items[f.item].body = f.body,
         NEW r, r = ReadOne("responses", c, f)
  PROVE  ItemShut(c, f, r)
<1>1. r = ResponsesClient(c, f) BY DEF ReadOne
<1>2. PICK items, j : items = c.items /\ j = f.item OBVIOUS
<1>3. PICK at : at = {i \in DOMAIN c.items : c.items[i].item = f.item /\ c.items[i].open} OBVIOUS
<1>4. at = {j} BY <1>2, <1>3, OpenAt
<1>6. PICK room : room = \E i \in at : c.items[i].kind = "think" \/ c.items[i].body = f.body
  OBVIOUS
<1>7. PICK w : w = Expect(c, room) OBVIOUS
<1>8. PICK after : after = [i \in DOMAIN c.items |->
                              IF i \in at THEN [c.items[i] EXCEPT !.open = FALSE]
                              ELSE c.items[i]] OBVIOUS
<1>9. r = [w EXCEPT !.items = after] BY <1>1, <1>3, <1>6, <1>7, <1>8, Zenon DEF ResponsesClient
<1>14. Expected(c, room, w) BY <1>7, IsExpected
<1>15. /\ DOMAIN r = CliFields /\ r.over = w.over /\ r.end = w.end /\ r.think = w.think
       /\ r.text = w.text /\ r.begun = w.begun /\ r.items = after /\ r.ok = w.ok
       /\ r.calls = w.calls BY <1>9, <1>14 DEF Expected, CliFields
<1>17. j \in 1..Len(items) /\ items[j].open = TRUE /\ items[j].kind = kind BY <1>2 DEF IsOpen
<1>18. room BY <1>2, <1>4, <1>6, <1>17
<1>20. PICK y : y = [items[j] EXCEPT !.open = FALSE] OBVIOUS
<1>21. DOMAIN items[j] = ItemFields /\ items[j].item = j BY <1>2, <1>17 DEF Stocked
<1>22. DOMAIN y = ItemFields /\ y.item = j /\ y.open = FALSE BY <1>20, <1>21 DEF ItemFields
<1>23. after = [i \in DOMAIN items |-> IF i = j THEN y ELSE items[i]]
  <2>1. ASSUME NEW i
        PROVE  (IF i \in at THEN [c.items[i] EXCEPT !.open = FALSE] ELSE c.items[i])
               = IF i = j THEN y ELSE items[i] BY <1>2, <1>4, <1>20
  <2> QED BY <1>2, <1>8, <2>1, Zenon
<1>24. Changed(items, j, y, after) BY <1>2, <1>17, <1>22, <1>23, ItemChanges
<1>25. /\ Stocked(after) /\ Len(after) = Len(items) /\ Elsewhere(items, after, j)
       /\ after[j].open = FALSE BY <1>22, <1>24 DEF Changed
<1>26. Intact(c, r) /\ r.begun = c.begun /\ r.calls = c.calls /\ (c.ok /\ ~c.over => r.ok)
  BY <1>14, <1>15, <1>18 DEF Intact, Expected
<1> QED BY <1>2, <1>15, <1>25, <1>26 DEF ItemShut

\* and the end of the response.
LEMMA EndedIsRead ==
  ASSUME NEW c, DOMAIN c = CliFields, NEW f, f.f = "ended", NEW r, r = ReadOne("responses", c, f)
  PROVE  /\ Over(c, r)
         /\ r.ok <=> c.ok /\ ~c.over /\ \A i \in DOMAIN c.items : ~c.items[i].open
         /\ r.end = IF f.status = "incomplete" THEN f.reason ELSE f.status
<1>1. r = ResponsesClient(c, f) BY DEF ReadOne
<1>2. PICK room : room = \A i \in DOMAIN c.items : ~c.items[i].open OBVIOUS
<1>3. PICK x : x = Expect(c, room) OBVIOUS
<1>4. Expected(c, room, x) BY <1>3, IsExpected
<1>5. PICK y : y = Told(x, f.usage) OBVIOUS
<1>6. /\ DOMAIN y = CliFields /\ y.think = x.think /\ y.text = x.text /\ y.calls = x.calls
      /\ y.ok = x.ok BY <1>4, <1>5 DEF Told, CliFields, Expected
<1>7. PICK end : end = IF f.status = "incomplete" THEN f.reason ELSE f.status OBVIOUS
<1>8. r = [y EXCEPT !.over = TRUE, !.end = end]
  BY <1>1, <1>2, <1>3, <1>5, <1>7, Zenon DEF ResponsesClient
<1>9. /\ DOMAIN r = CliFields /\ r.think = y.think /\ r.text = y.text /\ r.calls = y.calls
      /\ r.ok = y.ok /\ r.over = TRUE /\ r.end = end BY <1>6, <1>8 DEF CliFields
<1> QED BY <1>2, <1>4, <1>6, <1>7, <1>9 DEF Over, Expected

----------------------------------------
(* What an encoder keeps open: a message, a reasoning, and tools, of which  *)
(* the first p have been closed.                                            *)

HeldTool(t, items) == IsOpen(items, t.item, "call") /\ items[t.item].body = t.args

Claimed(p, m, r, tools, i) ==
  i = m \/ i = r \/ \E t \in 1..Len(tools) : t > p /\ tools[t].item = i

Holding(p, m, text, r, tools, items) ==
  /\ IsSeq(tools) /\ IsSeq(items)
  /\ m # 0 => IsOpen(items, m, "text") /\ items[m].body = text
  /\ r # 0 => IsOpen(items, r, "think")
  /\ \A t \in 1..Len(tools) : t > p => HeldTool(tools[t], items)
  /\ \A t \in 1..Len(tools) : tools[t].item \in 1..Len(items)
  /\ \A t, u \in 1..Len(tools) : tools[t].item = tools[u].item => t = u
  /\ \A i \in 1..Len(items) : items[i].open => Claimed(p, m, r, tools, i)

\* One item more, open.
Grown(items, kind, after) ==
  /\ IsSeq(after) /\ Len(after) = Len(items) + 1 /\ Elsewhere(items, after, Len(items) + 1)
  /\ IsOpen(after, Len(items) + 1, kind) /\ after[Len(items) + 1].body = <<>>

\* An item more leaves the others where they were.
LEMMA GrownKeeps ==
  ASSUME NEW items, IsSeq(items), NEW kind, NEW after, Grown(items, kind, after)
  PROVE  /\ Len(items) \in Nat /\ Len(items) + 1 # 0
         /\ \A i \in 1..Len(items) : after[i] = items[i] /\ i \in 1..Len(after) /\ i # Len(items) + 1
         /\ \A i \in 1..Len(after) : i \in 1..Len(items) \/ i = Len(items) + 1
<1>1. Len(items) \in Nat BY SeqDomain
<1> QED BY <1>1 DEF Grown, Elsewhere

\* The item more is the message,
LEMMA MessageOpens ==
  ASSUME NEW p, NEW text, NEW r, NEW tools, NEW items, Holding(p, 0, text, r, tools, items),
         NEW after, Grown(items, "text", after), NEW n, n = Len(items) + 1, NEW b, b = <<>>
  PROVE  Holding(p, n, b, r, tools, after)
<1>0. IsSeq(items) BY DEF Holding
<1>1. /\ n # 0 /\ Len(items) \in Nat
      /\ \A i \in 1..Len(items) : after[i] = items[i] /\ i \in 1..Len(after) /\ i # n
      /\ \A i \in 1..Len(after) : i \in 1..Len(items) \/ i = n BY <1>0, GrownKeeps
<1>2. IsSeq(tools) /\ IsSeq(after) BY DEF Holding, Grown
<1>3. IsOpen(after, n, "text") /\ after[n].body = b BY DEF Grown
<1>4. r # 0 => IsOpen(after, r, "think") BY <1>1 DEF Holding, IsOpen
<1>5. \A t \in 1..Len(tools) : t > p => HeldTool(tools[t], after)
  BY <1>1 DEF Holding, HeldTool, IsOpen
<1>6. \A t \in 1..Len(tools) : tools[t].item \in 1..Len(after) BY <1>1 DEF Holding
<1>7. \A t, u \in 1..Len(tools) : tools[t].item = tools[u].item => t = u BY DEF Holding
<1>8. ASSUME NEW i \in 1..Len(after), after[i].open PROVE Claimed(p, n, r, tools, i)
  <2>1. CASE i = n BY <2>1 DEF Claimed
  <2>2. CASE i \in 1..Len(items)
    <3>1. Claimed(p, 0, r, tools, i) BY <1>1, <1>8, <2>2 DEF Holding
    <3>2. i # 0 BY <1>1, <2>2
    <3> QED BY <3>1, <3>2 DEF Claimed
  <2> QED BY <1>1, <2>1, <2>2
<1> QED BY <1>2, <1>3, <1>4, <1>5, <1>6, <1>7, <1>8 DEF Holding

\* the reasoning,
LEMMA ReasoningOpens ==
  ASSUME NEW p, NEW m, NEW text, NEW tools, NEW items, Holding(p, m, text, 0, tools, items),
         NEW after, Grown(items, "think", after), NEW n, n = Len(items) + 1
  PROVE  Holding(p, m, text, n, tools, after)
<1>0. IsSeq(items) BY DEF Holding
<1>1. /\ n # 0 /\ Len(items) \in Nat
      /\ \A i \in 1..Len(items) : after[i] = items[i] /\ i \in 1..Len(after) /\ i # n
      /\ \A i \in 1..Len(after) : i \in 1..Len(items) \/ i = n BY <1>0, GrownKeeps
<1>2. IsSeq(tools) /\ IsSeq(after) BY DEF Holding, Grown
<1>3. IsOpen(after, n, "think") BY DEF Grown
<1>4. m # 0 => IsOpen(after, m, "text") /\ after[m].body = text BY <1>1 DEF Holding, IsOpen
<1>5. \A t \in 1..Len(tools) : t > p => HeldTool(tools[t], after)
  BY <1>1 DEF Holding, HeldTool, IsOpen
<1>6. \A t \in 1..Len(tools) : tools[t].item \in 1..Len(after) BY <1>1 DEF Holding
<1>7. \A t, u \in 1..Len(tools) : tools[t].item = tools[u].item => t = u BY DEF Holding
<1>8. ASSUME NEW i \in 1..Len(after), after[i].open PROVE Claimed(p, m, n, tools, i)
  <2>1. CASE i = n BY <2>1 DEF Claimed
  <2>2. CASE i \in 1..Len(items)
    <3>1. Claimed(p, m, 0, tools, i) BY <1>1, <1>8, <2>2 DEF Holding
    <3>2. i # 0 BY <1>1, <2>2
    <3> QED BY <3>1, <3>2 DEF Claimed
  <2> QED BY <1>1, <2>1, <2>2
<1> QED BY <1>2, <1>3, <1>4, <1>5, <1>6, <1>7, <1>8 DEF Holding

\* or a tool's.
LEMMA ToolOpens ==
  ASSUME NEW p, NEW m, NEW text, NEW r, NEW tools, NEW items, Holding(p, m, text, r, tools, items),
         NEW after, Grown(items, "call", after), NEW n, n = Len(items) + 1,
         NEW tool, tool.item = n, tool.args = <<>>, NEW more, more = Append(tools, tool),
         p \in 0..Len(tools)
  PROVE  Holding(p, m, text, r, more, after)
<1>0. IsSeq(items) BY DEF Holding
<1>1. /\ n # 0 /\ Len(items) \in Nat
      /\ \A i \in 1..Len(items) : after[i] = items[i] /\ i \in 1..Len(after) /\ i # n
      /\ \A i \in 1..Len(after) : i \in 1..Len(items) \/ i = n BY <1>0, GrownKeeps
<1>2. IsSeq(tools) /\ IsSeq(after) BY DEF Holding, Grown
<1>20. PICK k : k = Len(tools) OBVIOUS
<1>21. k \in Nat BY <1>2, <1>20, SeqDomain
<1>22. /\ IsSeq(more) /\ Len(more) = k + 1 /\ (\A t \in 1..k : more[t] = tools[t])
       /\ more[k + 1] = tool BY ONLY <1>2, <1>20, more = Append(tools, tool), SeqMore
<1>23. \A t \in 1..(k + 1) : t \in 1..k \/ t = k + 1 BY <1>21
<1>24. \A t \in 1..k : t \in 1..(k + 1) BY <1>21
<1>3. IsOpen(after, n, "call") /\ after[n].body = <<>> BY DEF Grown
<1>4. m # 0 => IsOpen(after, m, "text") /\ after[m].body = text BY <1>1 DEF Holding, IsOpen
<1>9. r # 0 => IsOpen(after, r, "think") BY <1>1 DEF Holding, IsOpen
<1>10. HeldTool(tool, after) BY <1>3 DEF HeldTool
<1>11. \A t \in 1..k : t > p => HeldTool(tools[t], after)
  BY <1>1, <1>20 DEF Holding, HeldTool, IsOpen
<1>5. \A t \in 1..Len(more) : t > p => HeldTool(more[t], after) BY <1>10, <1>11, <1>22, <1>23
<1>12. \A t \in 1..k : tools[t].item \in 1..Len(items) BY <1>20 DEF Holding
<1>13. n \in 1..Len(after) BY <1>3 DEF IsOpen
<1>15. \A t \in 1..k : more[t].item = tools[t].item /\ more[t].item \in 1..Len(items)
  BY <1>12, <1>22
<1>16. more[k + 1].item = n /\ Len(more) = k + 1 BY <1>22
<1>17. \A i \in 1..Len(items) : i \in 1..Len(after) /\ i # n BY <1>1
<1>6. \A t \in 1..Len(more) : more[t].item \in 1..Len(after)
  <2> SUFFICES ASSUME NEW t \in 1..(k + 1) PROVE more[t].item \in 1..Len(after) BY <1>16
  <2>1. CASE t \in 1..k BY <1>15, <1>17, <2>1
  <2>2. CASE t = k + 1 BY <1>13, <1>16, <2>2
  <2> QED BY <1>23, <2>1, <2>2
<1>14. \A t, u \in 1..k : tools[t].item = tools[u].item => t = u BY <1>20 DEF Holding
<1>7. \A t, u \in 1..Len(more) : more[t].item = more[u].item => t = u
  <2>1. ASSUME NEW t \in 1..k, NEW u \in 1..k, more[t].item = more[u].item PROVE t = u
    BY <1>14, <1>15, <2>1
  <2>2. ASSUME NEW t \in 1..k PROVE more[t].item # more[k + 1].item BY <1>15, <1>16, <1>17
  <2> QED BY <1>16, <1>23, <2>1, <2>2
<1>8. ASSUME NEW i \in 1..Len(after), after[i].open PROVE Claimed(p, m, r, more, i)
  <2>1. CASE i = n
    <3>1. k + 1 \in 1..Len(more) /\ more[k + 1].item = n /\ k + 1 > p BY <1>20, <1>21, <1>22
    <3> QED BY <2>1, <3>1 DEF Claimed
  <2>2. CASE i \in 1..Len(items)
    <3>1. Claimed(p, m, r, tools, i) BY <1>1, <1>8, <2>2 DEF Holding
    <3>2. \A t \in 1..k : t \in 1..Len(more) /\ more[t].item = tools[t].item BY <1>22, <1>24
    <3> QED BY <1>20, <3>1, <3>2 DEF Claimed
  <2> QED BY <1>1, <2>1, <2>2
<1> QED BY <1>2, <1>4, <1>5, <1>6, <1>7, <1>8, <1>9, <1>22 DEF Holding

\* One item with more in its body.
Fuller(items, j, kind, body, after) ==
  /\ IsSeq(after) /\ Len(after) = Len(items) /\ Elsewhere(items, after, j)
  /\ IsOpen(after, j, kind) /\ after[j].body = body

\* What the message's item says is the message's text;
LEMMA MessageFills ==
  ASSUME NEW p, NEW m, NEW text, NEW r, NEW tools, NEW items, Holding(p, m, text, r, tools, items),
         NEW body, NEW after, Fuller(items, m, "text", body, after), m # 0
  PROVE  Holding(p, m, body, r, tools, after)
<1>0. IsOpen(items, m, "text") BY DEF Holding
<1>1. \A i \in 1..Len(items) : i # m => after[i] = items[i] BY DEF Fuller, Elsewhere
<1>2. Len(after) = Len(items) /\ IsSeq(after) /\ IsSeq(tools) BY DEF Fuller, Holding
<1>3. IsOpen(after, m, "text") /\ after[m].body = body BY DEF Fuller
<1>4. r # 0 => IsOpen(after, r, "think") BY <1>0, <1>1, <1>2 DEF Holding, IsOpen
<1>5. \A t \in 1..Len(tools) : t > p => HeldTool(tools[t], after)
  BY <1>0, <1>1, <1>2 DEF Holding, HeldTool, IsOpen
<1>6. \A t \in 1..Len(tools) : tools[t].item \in 1..Len(after) BY <1>2 DEF Holding
<1>7. \A t, u \in 1..Len(tools) : tools[t].item = tools[u].item => t = u BY DEF Holding
<1>8. \A i \in 1..Len(after) : after[i].open => Claimed(p, m, r, tools, i)
  BY <1>1, <1>2 DEF Holding, Claimed
<1> QED BY <1>2, <1>3, <1>4, <1>5, <1>6, <1>7, <1>8 DEF Holding

\* what the reasoning's says is not kept;
LEMMA ReasoningFills ==
  ASSUME NEW p, NEW m, NEW text, NEW r, NEW tools, NEW items, Holding(p, m, text, r, tools, items),
         NEW body, NEW after, Fuller(items, r, "think", body, after), r # 0
  PROVE  Holding(p, m, text, r, tools, after)
<1>0. IsOpen(items, r, "think") BY DEF Holding
<1>1. \A i \in 1..Len(items) : i # r => after[i] = items[i] BY DEF Fuller, Elsewhere
<1>2. Len(after) = Len(items) /\ IsSeq(after) /\ IsSeq(tools) BY DEF Fuller, Holding
<1>3. IsOpen(after, r, "think") BY DEF Fuller
<1>4. m # 0 => IsOpen(after, m, "text") /\ after[m].body = text
  BY <1>0, <1>1, <1>2 DEF Holding, IsOpen
<1>5. \A t \in 1..Len(tools) : t > p => HeldTool(tools[t], after)
  BY <1>0, <1>1, <1>2 DEF Holding, HeldTool, IsOpen
<1>6. \A t \in 1..Len(tools) : tools[t].item \in 1..Len(after) BY <1>2 DEF Holding
<1>7. \A t, u \in 1..Len(tools) : tools[t].item = tools[u].item => t = u BY DEF Holding
<1>8. \A i \in 1..Len(after) : after[i].open => Claimed(p, m, r, tools, i)
  BY <1>1, <1>2 DEF Holding, Claimed
<1> QED BY <1>2, <1>3, <1>4, <1>5, <1>6, <1>7, <1>8 DEF Holding

\* A tool with the arguments its item has.
Argues(tools, n, body, more) ==
  /\ IsSeq(more) /\ Len(more) = Len(tools)
  /\ \A t \in 1..Len(tools) : /\ more[t].item = tools[t].item
                              /\ more[t].args = IF t = n THEN body ELSE tools[t].args

\* what a tool's says is its arguments.
LEMMA ToolFills ==
  ASSUME NEW p, NEW m, NEW text, NEW r, NEW tools, NEW items, Holding(p, m, text, r, tools, items),
         NEW n \in 1..Len(tools), n > p, NEW j, j = tools[n].item, NEW body, NEW after,
         Fuller(items, j, "call", body, after), NEW more, Argues(tools, n, body, more)
  PROVE  Holding(p, m, text, r, more, after)
<1>0. IsOpen(items, j, "call") BY DEF Holding, HeldTool
<1>1. \A i \in 1..Len(items) : i # j => after[i] = items[i] BY DEF Fuller, Elsewhere
<1>2. /\ Len(after) = Len(items) /\ IsSeq(after) /\ IsSeq(more) /\ Len(more) = Len(tools)
  BY DEF Fuller, Argues
<1>3. IsOpen(after, j, "call") /\ after[j].body = body BY DEF Fuller
<1>4. m # 0 => IsOpen(after, m, "text") /\ after[m].body = text
  BY <1>0, <1>1, <1>2 DEF Holding, IsOpen
<1>9. r # 0 => IsOpen(after, r, "think") BY <1>0, <1>1, <1>2 DEF Holding, IsOpen
<1>10. \A t \in 1..Len(tools) : /\ more[t].item = tools[t].item
                                /\ more[t].args = IF t = n THEN body ELSE tools[t].args
  BY DEF Argues
<1>7. \A t, u \in 1..Len(tools) : tools[t].item = tools[u].item => t = u BY DEF Holding
<1>5. ASSUME NEW t \in 1..Len(more), t > p PROVE HeldTool(more[t], after)
  <2>1. CASE t = n BY <1>2, <1>3, <1>10, <2>1 DEF HeldTool
  <2>2. CASE t # n
    <3>1. tools[t].item # j BY <1>2, <1>7, <2>2
    <3>2. HeldTool(tools[t], items) BY <1>2, <1>5 DEF Holding
    <3> QED BY <1>1, <1>2, <1>10, <2>2, <3>1, <3>2 DEF HeldTool, IsOpen
  <2> QED BY <2>1, <2>2
<1>6. \A t \in 1..Len(more) : more[t].item \in 1..Len(after) BY <1>2, <1>10 DEF Holding
<1>11. \A t, u \in 1..Len(more) : more[t].item = more[u].item => t = u BY <1>2, <1>7, <1>10
<1>8. ASSUME NEW i \in 1..Len(after), after[i].open PROVE Claimed(p, m, r, more, i)
  <2>1. CASE i = j BY <1>2, <1>10, <2>1 DEF Claimed
  <2>2. CASE i # j
    <3>1. Claimed(p, m, r, tools, i) BY <1>1, <1>2, <1>8, <2>2 DEF Holding
    <3> QED BY <1>2, <1>10, <3>1 DEF Claimed
  <2> QED BY <2>1, <2>2
<1> QED BY <1>2, <1>4, <1>5, <1>6, <1>8, <1>9, <1>11 DEF Holding

\* One item less that is open.
Less(items, j, after) ==
  /\ IsSeq(after) /\ Len(after) = Len(items) /\ Elsewhere(items, after, j)
  /\ after[j].open = FALSE

\* A message closed is held no more,
LEMMA MessageCloses ==
  ASSUME NEW p, NEW m, NEW text, NEW r, NEW tools, NEW items, Holding(p, m, text, r, tools, items),
         NEW after, Less(items, m, after), m # 0, NEW b
  PROVE  Holding(p, 0, b, r, tools, after)
<1>0. IsOpen(items, m, "text") BY DEF Holding
<1>1. \A i \in 1..Len(items) : i # m => after[i] = items[i] BY DEF Less, Elsewhere
<1>2. Len(after) = Len(items) /\ IsSeq(after) /\ IsSeq(tools) BY DEF Less, Holding
<1>4. r # 0 => IsOpen(after, r, "think") BY <1>0, <1>1, <1>2 DEF Holding, IsOpen
<1>5. \A t \in 1..Len(tools) : t > p => HeldTool(tools[t], after)
  BY <1>0, <1>1, <1>2 DEF Holding, HeldTool, IsOpen
<1>6. \A t \in 1..Len(tools) : tools[t].item \in 1..Len(after) BY <1>2 DEF Holding
<1>7. \A t, u \in 1..Len(tools) : tools[t].item = tools[u].item => t = u BY DEF Holding
<1>8. ASSUME NEW i \in 1..Len(after), after[i].open PROVE Claimed(p, 0, r, tools, i)
  <2>1. i # m BY <1>8 DEF Less
  <2>2. Claimed(p, m, r, tools, i) BY <1>1, <1>2, <1>8, <2>1 DEF Holding
  <2> QED BY <2>1, <2>2 DEF Claimed
<1> QED BY <1>2, <1>4, <1>5, <1>6, <1>7, <1>8 DEF Holding

\* nor is a reasoning,
LEMMA ReasoningCloses ==
  ASSUME NEW p, NEW m, NEW text, NEW r, NEW tools, NEW items, Holding(p, m, text, r, tools, items),
         NEW after, Less(items, r, after), r # 0
  PROVE  Holding(p, m, text, 0, tools, after)
<1>0. IsOpen(items, r, "think") BY DEF Holding
<1>1. \A i \in 1..Len(items) : i # r => after[i] = items[i] BY DEF Less, Elsewhere
<1>2. Len(after) = Len(items) /\ IsSeq(after) /\ IsSeq(tools) BY DEF Less, Holding
<1>4. m # 0 => IsOpen(after, m, "text") /\ after[m].body = text
  BY <1>0, <1>1, <1>2 DEF Holding, IsOpen
<1>5. \A t \in 1..Len(tools) : t > p => HeldTool(tools[t], after)
  BY <1>0, <1>1, <1>2 DEF Holding, HeldTool, IsOpen
<1>6. \A t \in 1..Len(tools) : tools[t].item \in 1..Len(after) BY <1>2 DEF Holding
<1>7. \A t, u \in 1..Len(tools) : tools[t].item = tools[u].item => t = u BY DEF Holding
<1>8. ASSUME NEW i \in 1..Len(after), after[i].open PROVE Claimed(p, m, 0, tools, i)
  <2>1. i # r BY <1>8 DEF Less
  <2>2. Claimed(p, m, r, tools, i) BY <1>1, <1>2, <1>8, <2>1 DEF Holding
  <2> QED BY <2>1, <2>2 DEF Claimed
<1> QED BY <1>2, <1>4, <1>5, <1>6, <1>7, <1>8 DEF Holding

\* nor a tool: they are closed in order.
LEMMA ToolCloses ==
  ASSUME NEW p \in Nat, NEW m, NEW text, NEW r, NEW tools, NEW items,
         Holding(p, m, text, r, tools, items), NEW n, n = p + 1, n \in 1..Len(tools),
         NEW j, j = tools[n].item, NEW after, Less(items, j, after)
  PROVE  Holding(n, m, text, r, tools, after)
<1>0. IsOpen(items, j, "call") BY DEF Holding, HeldTool
<1>1. \A i \in 1..Len(items) : i # j => after[i] = items[i] BY DEF Less, Elsewhere
<1>2. Len(after) = Len(items) /\ IsSeq(after) /\ IsSeq(tools) BY DEF Less, Holding
<1>20. Len(tools) \in Nat BY <1>2, SeqDomain
<1>4. m # 0 => IsOpen(after, m, "text") /\ after[m].body = text
  BY <1>0, <1>1, <1>2 DEF Holding, IsOpen
<1>9. r # 0 => IsOpen(after, r, "think") BY <1>0, <1>1, <1>2 DEF Holding, IsOpen
<1>7. \A t, u \in 1..Len(tools) : tools[t].item = tools[u].item => t = u BY DEF Holding
<1>5. ASSUME NEW t \in 1..Len(tools), t > n PROVE HeldTool(tools[t], after)
  <2>1. t # n /\ t > p BY <1>5, <1>20
  <2>2. tools[t].item # j BY <1>7, <2>1
  <2>3. HeldTool(tools[t], items) BY <2>1 DEF Holding
  <2> QED BY <1>1, <1>2, <2>2, <2>3 DEF HeldTool, IsOpen
<1>6. \A t \in 1..Len(tools) : tools[t].item \in 1..Len(after) BY <1>2 DEF Holding
<1>8. ASSUME NEW i \in 1..Len(after), after[i].open PROVE Claimed(n, m, r, tools, i)
  <2>1. i # j BY <1>8 DEF Less
  <2>2. Claimed(p, m, r, tools, i) BY <1>1, <1>2, <1>8, <2>1 DEF Holding
  <2>3. \A t \in 1..Len(tools) : t > p /\ tools[t].item = i => t > n BY <1>20, <2>1
  <2> QED BY <2>2, <2>3 DEF Claimed
<1> QED BY <1>2, <1>4, <1>5, <1>6, <1>7, <1>8, <1>9 DEF Holding

----------------------------------------
(* The Responses encoder and its caller. *)

Shelf(p, e, c) ==
  /\ DOMAIN e = EncFields /\ IsSeq(e.out) /\ DOMAIN c = CliFields /\ c.ok /\ ~c.over
  /\ e.created \in BOOLEAN /\ (c.begun <=> e.created)
  /\ Stocked(c.items) /\ Len(c.items) = e.items
  /\ Holding(p, e.message, e.text, e.reasoning, e.tools, c.items)

Steady(e, g) ==
  g.tools = e.tools /\ g.hasStop = e.hasStop /\ g.ended = e.ended /\ g.reason = e.reason

AsTold(c, r) == r.think = c.think /\ r.text = c.text /\ r.calls = c.calls

\* A step of the encoder that tells nothing.
Mute(p, e, c, g, r) ==
  Shelf(p, g, r) /\ Steady(e, g) /\ AsTold(c, r) /\ g.created = (e.created \/ g.created)

\* Two steps that say nothing of the answer are one.
LEMMA MuteMute ==
  ASSUME NEW p, NEW e, NEW c, NEW g, NEW r, Mute(p, e, c, g, r), NEW x, NEW d, Mute(p, g, r, x, d)
  PROVE  Mute(p, e, c, x, d)
BY DEF Mute, Shelf, Steady, AsTold

\* ensureCreated says nothing of the answer.
LEMMA RespCreates ==
  ASSUME NEW p, NEW c0, NEW e, NEW c, c = Client("responses", c0, e.out), Shelf(p, e, c),
         NEW g, g = ensureCreated(e), NEW r, r = Client("responses", c0, g.out)
  PROVE  /\ Mute(p, e, c, g, r) /\ g.created
         /\ g.message = e.message /\ g.reasoning = e.reasoning
<1>0. /\ DOMAIN e = EncFields /\ IsSeq(e.out) /\ DOMAIN c = CliFields /\ c.ok /\ ~c.over
      /\ e.created \in BOOLEAN /\ (c.begun <=> e.created) BY DEF Shelf
<1>1. CASE e.created
  <2>1. g = e BY <1>1 DEF ensureCreated
  <2>2. r = c BY <2>1
  <2> QED BY <1>0, <1>1, <2>1, <2>2 DEF Mute, Steady, AsTold
<1>2. CASE ~e.created
  <2>1. PICK f, s : f = [f |-> "created"] /\ s = [f |-> "in_progress"] OBVIOUS
  <2>2. PICK m : m = [e EXCEPT !.created = TRUE] OBVIOUS
  <2>3. g = Emit(m, <<f, s>>) BY <1>2, <2>1, <2>2, Zenon DEF ensureCreated
  <2>4. /\ DOMAIN m = EncFields /\ m.out = e.out /\ Steady(e, m) /\ m.created = TRUE
        /\ m.items = e.items /\ m.message = e.message /\ m.text = e.text
        /\ m.reasoning = e.reasoning BY <1>0, <2>2 DEF EncFields, Steady
  <2>5. PICK out : out = e.out OBVIOUS
  <2>6. PICK two : two = <<f, s>> OBVIOUS
  <2>7. g = [m EXCEPT !.out = out \o two] BY <2>3, <2>4, <2>5, <2>6 DEF Emit
  <2>8. /\ DOMAIN g = EncFields /\ g.out = out \o two /\ Steady(m, g) /\ g.created = TRUE
        /\ g.items = m.items /\ g.message = m.message /\ g.text = m.text
        /\ g.reasoning = m.reasoning BY <2>4, <2>7 DEF EncFields, Steady
  <2>9. IsSeq(out \o two) BY <1>0, <2>5, <2>6, SeqPair, SeqCat
  <2>10. PICK d : d = ReadOne("responses", c, f) OBVIOUS
  <2>11. r = ReadOne("responses", d, s)
    <3>1. IsSeq(out) /\ c = Client("responses", c0, out) BY <1>0, <2>5
    <3>2. r = Client("responses", c0, out \o <<f, s>>) BY <2>6, <2>8
    <3> QED BY <2>10, <3>1, <3>2, ReadTwo
  <2>12. f.f = "created" /\ s.f = "in_progress" BY <2>1
  <2>13. ResponseBegun(c, d) BY <1>0, <2>10, <2>12, CreatedIsRead
  <2>14. DOMAIN d = CliFields BY <2>13 DEF ResponseBegun, Intact
  <2>15. Expected(d, d.begun, r) BY <2>11, <2>12, <2>14, ProgressIsRead
  <2>16. /\ DOMAIN r = CliFields /\ ~r.over /\ r.begun = TRUE /\ r.items = c.items /\ r.ok
         /\ AsTold(c, r) BY <1>0, <1>2, <2>13, <2>15 DEF Expected, ResponseBegun, Intact, AsTold
  <2>18. g.tools = e.tools BY <2>4, <2>8 DEF Steady
  <2>19. Shelf(p, g, r) BY <2>4, <2>8, <2>9, <2>16, <2>18 DEF Shelf
  <2>20. Steady(e, g) BY <2>4, <2>8 DEF Steady
  <2> QED BY <2>4, <2>8, <2>16, <2>19, <2>20 DEF Mute
<1> QED BY <1>1, <1>2

\* A frame put after what was written.
Puts(m, f, c, g, r) == Same(m, g) /\ r = ReadOne("responses", c, f)

\* A frame put out is a frame read.
LEMMA FramePut ==
  ASSUME NEW c0, NEW e, IsSeq(e.out), NEW c, c = Client("responses", c0, e.out),
         NEW m, DOMAIN m = EncFields, m.out = e.out, NEW f, NEW g, g = Emit(m, <<f>>),
         NEW r, r = Client("responses", c0, g.out)
  PROVE  Puts(m, f, c, g, r)
<1>1. Shows("responses", c0, m, f, g) BY EmitShows
<1> QED BY <1>1 DEF Shows, Puts

\* ensureMessage opens the message if none is open,
LEMMA MessageEnsured ==
  ASSUME NEW p, NEW c0, NEW e, NEW c, c = Client("responses", c0, e.out), Shelf(p, e, c),
         e.created, NEW g, g = ensureMessage(e), NEW r, r = Client("responses", c0, g.out)
  PROVE  Mute(p, e, c, g, r) /\ g.message # 0 /\ g.created
<1>0. /\ DOMAIN e = EncFields /\ IsSeq(e.out) /\ DOMAIN c = CliFields /\ c.ok /\ ~c.over
      /\ e.created \in BOOLEAN /\ (c.begun <=> e.created)
      /\ Stocked(c.items) /\ Len(c.items) = e.items
      /\ Holding(p, e.message, e.text, e.reasoning, e.tools, c.items) BY DEF Shelf
<1>1. CASE e.message # 0
  <2>1. g = e BY <1>1 DEF ensureMessage
  <2>2. r = c BY <2>1
  <2> QED BY <1>1, <2>1, <2>2 DEF Mute, Steady, AsTold
<1>2. CASE e.message = 0
  <2>1. PICK id, none : id = e.items + 1 /\ none = <<>> OBVIOUS
  <2>2. PICK m : m = [e EXCEPT !.items = id, !.message = id, !.text = none] OBVIOUS
  <2>3. PICK f : f = [f |-> "item_added", item |-> id, index |-> m.outputIndex, kind |-> "text",
                      call |-> 0] OBVIOUS
  <2>4. g = Emit(m, <<f>>) BY <1>2, <2>1, <2>2, <2>3, Zenon DEF ensureMessage, itemAdded
  <2>5. /\ DOMAIN m = EncFields /\ m.out = e.out /\ Steady(e, m) /\ m.created = e.created
        /\ m.items = id /\ m.message = id /\ m.text = none /\ m.reasoning = e.reasoning
    BY <1>0, <2>2 DEF EncFields, Steady
  <2>6. Puts(m, f, c, g, r) BY <1>0, <2>4, <2>5, FramePut
  <2>7. f.f = "item_added" /\ f.item = id /\ f.kind = "text" BY <2>3
  <2>8. ItemOpened(c, f, r) BY <1>0, <2>1, <2>6, <2>7, ItemOpens DEF Puts
  <2>9. PICK items, after : items = c.items /\ after = r.items OBVIOUS
  <2>10. Grown(items, "text", after) /\ Stocked(after) /\ id = Len(items) + 1
         /\ id # 0 /\ Len(after) = id
    BY <1>0, <2>1, <2>7, <2>8, <2>9 DEF Grown, ItemOpened, Stocked
  <2>11. PICK tools : tools = e.tools OBVIOUS
  <2>12. Holding(p, 0, e.text, e.reasoning, tools, items) BY <1>0, <1>2, <2>9, <2>11
  <2>13. Holding(p, id, none, e.reasoning, tools, after) BY ONLY <2>1, <2>10, <2>12, MessageOpens
  <2>14. /\ DOMAIN g = EncFields /\ IsSeq(g.out) /\ Steady(e, g) /\ g.created = e.created
         /\ g.items = id /\ g.message = id /\ g.text = none /\ g.reasoning = e.reasoning
         /\ g.tools = tools BY <2>5, <2>6, <2>11 DEF Puts, Same, Steady
  <2>15. /\ DOMAIN r = CliFields /\ r.ok /\ ~r.over /\ (r.begun <=> e.created) /\ AsTold(c, r)
    BY <1>0, <2>7, <2>8 DEF ItemOpened, Carried, AsTold
  <2>16. Shelf(p, g, r) BY <1>0, <2>9, <2>10, <2>13, <2>14, <2>15 DEF Shelf
  <2> QED BY <1>0, <2>10, <2>14, <2>15, <2>16 DEF Mute
<1> QED BY <1>1, <1>2

\* ensureReasoning the reasoning.
LEMMA ReasoningEnsured ==
  ASSUME NEW p, NEW c0, NEW e, NEW c, c = Client("responses", c0, e.out), Shelf(p, e, c),
         e.created, NEW g, g = ensureReasoning(e), NEW r, r = Client("responses", c0, g.out)
  PROVE  Mute(p, e, c, g, r) /\ g.reasoning # 0 /\ g.created
<1>0. /\ DOMAIN e = EncFields /\ IsSeq(e.out) /\ DOMAIN c = CliFields /\ c.ok /\ ~c.over
      /\ e.created \in BOOLEAN /\ (c.begun <=> e.created)
      /\ Stocked(c.items) /\ Len(c.items) = e.items
      /\ Holding(p, e.message, e.text, e.reasoning, e.tools, c.items) BY DEF Shelf
<1>1. CASE e.reasoning # 0
  <2>1. g = e BY <1>1 DEF ensureReasoning
  <2>2. r = c BY <2>1
  <2> QED BY <1>1, <2>1, <2>2 DEF Mute, Steady, AsTold
<1>2. CASE e.reasoning = 0
  <2>1. PICK id : id = e.items + 1 OBVIOUS
  <2>2. PICK m : m = [e EXCEPT !.items = id, !.reasoning = id] OBVIOUS
  <2>3. PICK f : f = [f |-> "item_added", item |-> id, index |-> m.outputIndex, kind |-> "think",
                      call |-> 0] OBVIOUS
  <2>4. g = Emit(m, <<f>>) BY <1>2, <2>1, <2>2, <2>3, Zenon DEF ensureReasoning, itemAdded
  <2>5. /\ DOMAIN m = EncFields /\ m.out = e.out /\ Steady(e, m) /\ m.created = e.created
        /\ m.items = id /\ m.message = e.message /\ m.text = e.text /\ m.reasoning = id
    BY <1>0, <2>2 DEF EncFields, Steady
  <2>6. Puts(m, f, c, g, r) BY <1>0, <2>4, <2>5, FramePut
  <2>7. f.f = "item_added" /\ f.item = id /\ f.kind = "think" BY <2>3
  <2>8. ItemOpened(c, f, r) BY <1>0, <2>1, <2>6, <2>7, ItemOpens DEF Puts
  <2>9. PICK items, after : items = c.items /\ after = r.items OBVIOUS
  <2>10. Grown(items, "think", after) /\ Stocked(after) /\ id = Len(items) + 1
         /\ id # 0 /\ Len(after) = id
    BY <1>0, <2>1, <2>7, <2>8, <2>9 DEF Grown, ItemOpened, Stocked
  <2>11. PICK tools : tools = e.tools OBVIOUS
  <2>12. Holding(p, e.message, e.text, 0, tools, items) BY <1>0, <1>2, <2>9, <2>11
  <2>13. Holding(p, e.message, e.text, id, tools, after) BY ONLY <2>10, <2>12, ReasoningOpens
  <2>14. /\ DOMAIN g = EncFields /\ IsSeq(g.out) /\ Steady(e, g) /\ g.created = e.created
         /\ g.items = id /\ g.message = e.message /\ g.text = e.text /\ g.reasoning = id
         /\ g.tools = tools BY <2>5, <2>6, <2>11 DEF Puts, Same, Steady
  <2>15. /\ DOMAIN r = CliFields /\ r.ok /\ ~r.over /\ (r.begun <=> e.created) /\ AsTold(c, r)
    BY <1>0, <2>7, <2>8 DEF ItemOpened, Carried, AsTold
  <2>16. Shelf(p, g, r) BY <1>0, <2>9, <2>10, <2>13, <2>14, <2>15 DEF Shelf
  <2> QED BY <1>0, <2>10, <2>14, <2>15, <2>16 DEF Mute
<1> QED BY <1>1, <1>2

NoMessage(p, e, c, g, r) ==
  /\ Mute(p, e, c, g, r) /\ g.message = 0 /\ g.created = e.created
  /\ g.reasoning = e.reasoning

\* closeMessage restates the text that its item said.
LEMMA MessageShut ==
  ASSUME NEW p, NEW c0, NEW e, NEW c, c = Client("responses", c0, e.out), Shelf(p, e, c),
         NEW reason, NEW g, g = closeMessage(e, reason), NEW r, r = Client("responses", c0, g.out)
  PROVE  NoMessage(p, e, c, g, r)
<1>0. /\ DOMAIN e = EncFields /\ IsSeq(e.out) /\ DOMAIN c = CliFields /\ c.ok /\ ~c.over
      /\ e.created \in BOOLEAN /\ (c.begun <=> e.created)
      /\ Stocked(c.items) /\ Len(c.items) = e.items
      /\ Holding(p, e.message, e.text, e.reasoning, e.tools, c.items) BY DEF Shelf
<1>1. CASE e.message = 0
  <2>1. g = e BY <1>1 DEF closeMessage
  <2>2. r = c BY <2>1
  <2> QED BY <1>0, <1>1, <2>1, <2>2 DEF Mute, Steady, AsTold, NoMessage
<1>2. CASE e.message # 0
  <2>1. PICK none, next : none = <<>> /\ next = e.outputIndex + 1 OBVIOUS
  <2>2. PICK m : m = [e EXCEPT !.message = 0, !.text = none, !.outputIndex = next] OBVIOUS
  <2>3. PICK f : f = [f |-> "item_done", item |-> e.message, index |-> e.outputIndex,
                      body |-> e.text, status |-> itemStatus(reason)] OBVIOUS
  <2>4. g = Emit(m, <<f>>)
    <3>1. m = [e EXCEPT !.message = 0, !.text = <<>>, !.outputIndex = @ + 1] BY <2>1, <2>2
    <3> QED BY <1>2, <2>3, <3>1, Zenon DEF closeMessage, itemDone
  <2>5. /\ DOMAIN m = EncFields /\ m.out = e.out /\ Steady(e, m) /\ m.created = e.created
        /\ m.items = e.items /\ m.message = 0 /\ m.text = none /\ m.reasoning = e.reasoning
    BY <1>0, <2>2 DEF EncFields, Steady
  <2>6. Puts(m, f, c, g, r) BY <1>0, <2>4, <2>5, FramePut
  <2>7. f.f = "item_done" /\ f.item = e.message /\ f.body = e.text BY <2>3
  <2>8. IsOpen(c.items, f.item, "text") /\ c.items[f.item].body = f.body
    BY <1>0, <1>2, <2>7 DEF Holding
  <2>9. ItemShut(c, f, r) BY <1>0, <2>6, <2>7, <2>8, ItemShuts DEF Puts
  <2>10. PICK items, after : items = c.items /\ after = r.items OBVIOUS
  <2>11. Less(items, e.message, after) /\ Stocked(after) /\ Len(after) = e.items
    BY <1>0, <2>7, <2>9, <2>10 DEF Less, ItemShut, Stocked
  <2>12. PICK tools : tools = e.tools OBVIOUS
  <2>13. PICK id, text, open : id = e.message /\ text = e.text /\ open = e.reasoning OBVIOUS
  <2>14. Holding(p, id, text, open, tools, items) /\ Less(items, id, after) /\ id # 0
    BY <1>0, <1>2, <2>10, <2>11, <2>12, <2>13
  <2>15. Holding(p, 0, none, open, tools, after) BY ONLY <2>14, MessageCloses
  <2>16. /\ DOMAIN g = EncFields /\ IsSeq(g.out) /\ Steady(e, g) /\ g.created = e.created
         /\ g.items = e.items /\ g.message = 0 /\ g.text = none /\ g.reasoning = open
         /\ g.tools = tools BY <2>5, <2>6, <2>12, <2>13 DEF Puts, Same, Steady
  <2>17. /\ DOMAIN r = CliFields /\ r.ok /\ ~r.over /\ (r.begun <=> e.created) /\ AsTold(c, r)
    BY <1>0, <2>9 DEF ItemShut, Intact, AsTold
  <2>18. Shelf(p, g, r) BY <1>0, <2>10, <2>11, <2>15, <2>16, <2>17 DEF Shelf
  <2> QED BY <1>0, <2>13, <2>16, <2>17, <2>18 DEF Mute, NoMessage
<1> QED BY <1>1, <1>2

\* closeReasoning closes the reasoning's item.
LEMMA ReasoningShut ==
  ASSUME NEW p, NEW c0, NEW e, NEW c, c = Client("responses", c0, e.out), Shelf(p, e, c),
         NEW g, g = closeReasoning(e), NEW r, r = Client("responses", c0, g.out)
  PROVE  /\ Mute(p, e, c, g, r) /\ g.reasoning = 0 /\ g.created = e.created
         /\ g.message = e.message
<1>0. /\ DOMAIN e = EncFields /\ IsSeq(e.out) /\ DOMAIN c = CliFields /\ c.ok /\ ~c.over
      /\ e.created \in BOOLEAN /\ (c.begun <=> e.created)
      /\ Stocked(c.items) /\ Len(c.items) = e.items
      /\ Holding(p, e.message, e.text, e.reasoning, e.tools, c.items) BY DEF Shelf
<1>1. CASE e.reasoning = 0
  <2>1. g = e BY <1>1 DEF closeReasoning
  <2>2. r = c BY <2>1
  <2> QED BY <1>0, <1>1, <2>1, <2>2 DEF Mute, Steady, AsTold
<1>2. CASE e.reasoning # 0
  <2>1. PICK next : next = e.outputIndex + 1 OBVIOUS
  <2>2. PICK m : m = [e EXCEPT !.reasoning = 0, !.outputIndex = next] OBVIOUS
  <2>3. PICK f : f = [f |-> "item_done", item |-> e.reasoning, index |-> e.outputIndex,
                      body |-> <<>>, status |-> ""] OBVIOUS
  <2>4. g = Emit(m, <<f>>)
    <3>1. m = [e EXCEPT !.reasoning = 0, !.outputIndex = @ + 1] BY <2>1, <2>2
    <3> QED BY <1>2, <2>3, <3>1, Zenon DEF closeReasoning, itemDone
  <2>5. /\ DOMAIN m = EncFields /\ m.out = e.out /\ Steady(e, m) /\ m.created = e.created
        /\ m.items = e.items /\ m.message = e.message /\ m.text = e.text /\ m.reasoning = 0
    BY <1>0, <2>2 DEF EncFields, Steady
  <2>6. Puts(m, f, c, g, r) BY <1>0, <2>4, <2>5, FramePut
  <2>7. f.f = "item_done" /\ f.item = e.reasoning BY <2>3
  <2>8. IsOpen(c.items, f.item, "think") BY <1>0, <1>2, <2>7 DEF Holding
  <2>9. ItemShut(c, f, r) BY <1>0, <2>6, <2>7, <2>8, ItemShuts DEF Puts
  <2>10. PICK items, after : items = c.items /\ after = r.items OBVIOUS
  <2>11. Less(items, e.reasoning, after) /\ Stocked(after) /\ Len(after) = e.items
    BY <1>0, <2>7, <2>9, <2>10 DEF Less, ItemShut, Stocked
  <2>12. PICK tools : tools = e.tools OBVIOUS
  <2>13. PICK id, text, open : id = e.message /\ text = e.text /\ open = e.reasoning OBVIOUS
  <2>14. Holding(p, id, text, open, tools, items) /\ Less(items, open, after) /\ open # 0
    BY <1>0, <1>2, <2>10, <2>11, <2>12, <2>13
  <2>15. Holding(p, id, text, 0, tools, after) BY ONLY <2>14, ReasoningCloses
  <2>16. /\ DOMAIN g = EncFields /\ IsSeq(g.out) /\ Steady(e, g) /\ g.created = e.created
         /\ g.items = e.items /\ g.message = id /\ g.text = text /\ g.reasoning = 0
         /\ g.tools = tools BY <2>5, <2>6, <2>12, <2>13 DEF Puts, Same, Steady
  <2>17. /\ DOMAIN r = CliFields /\ r.ok /\ ~r.over /\ (r.begun <=> e.created) /\ AsTold(c, r)
    BY <1>0, <2>9 DEF ItemShut, Intact, AsTold
  <2>18. Shelf(p, g, r) BY <1>0, <2>10, <2>11, <2>15, <2>16, <2>17 DEF Shelf
  <2> QED BY <1>0, <2>13, <2>16, <2>17, <2>18 DEF Mute
<1> QED BY <1>1, <1>2

\* Words told to a caller that has an item open for them.
SpeaksOn(p, e, c, kind, body, g, r) ==
  /\ Shelf(p, g, r) /\ Steady(e, g) /\ r.calls = c.calls /\ Spoken(c, kind, body, r)
  /\ g.created = e.created /\ g.message = e.message /\ g.reasoning = e.reasoning

\* A text delta is what the message says next,
LEMMA TextPut ==
  ASSUME NEW p, NEW c0, NEW e, NEW c, c = Client("responses", c0, e.out), Shelf(p, e, c),
         e.message # 0, NEW body,
         NEW g, g = itemDelta([e EXCEPT !.text = @ \o body], e.message, e.outputIndex, "text", body),
         NEW r, r = Client("responses", c0, g.out)
  PROVE  SpeaksOn(p, e, c, "text", body, g, r)
<1>0. /\ DOMAIN e = EncFields /\ IsSeq(e.out) /\ DOMAIN c = CliFields /\ c.ok /\ ~c.over
      /\ e.created \in BOOLEAN /\ (c.begun <=> e.created)
      /\ Stocked(c.items) /\ Len(c.items) = e.items
      /\ Holding(p, e.message, e.text, e.reasoning, e.tools, c.items) BY DEF Shelf
<1>1. PICK said : said = e.text \o body OBVIOUS
<1>2. PICK m : m = [e EXCEPT !.text = said] OBVIOUS
<1>3. PICK f : f = [f |-> "item_delta", item |-> e.message, index |-> e.outputIndex,
                    kind |-> "text", body |-> body] OBVIOUS
<1>4. g = Emit(m, <<f>>)
  <2>1. [e EXCEPT !.text = @ \o body] = m BY <1>1, <1>2
  <2> QED BY <1>3, <2>1, Zenon DEF itemDelta
<1>5. /\ DOMAIN m = EncFields /\ m.out = e.out /\ Steady(e, m) /\ m.created = e.created
      /\ m.items = e.items /\ m.message = e.message /\ m.text = said
      /\ m.reasoning = e.reasoning BY <1>0, <1>2 DEF EncFields, Steady
<1>6. Puts(m, f, c, g, r) BY <1>0, <1>4, <1>5, FramePut
<1>7. f.f = "item_delta" /\ f.item = e.message /\ f.kind = "text" /\ f.body = body BY <1>3
<1>8. IsOpen(c.items, f.item, KindOf(f)) /\ c.items[f.item].body = e.text
  BY <1>0, <1>7 DEF Holding, KindOf
<1>9. ItemSaid(c, f, r) BY <1>0, <1>6, <1>7, <1>8, ItemSays DEF Puts
<1>10. PICK items, after : items = c.items /\ after = r.items OBVIOUS
<1>11. Fuller(items, e.message, "text", said, after) /\ Stocked(after) /\ Len(after) = e.items
  BY <1>0, <1>1, <1>7, <1>8, <1>9, <1>10 DEF Fuller, ItemSaid, Stocked, KindOf
<1>12. PICK tools, id, text, open : tools = e.tools /\ id = e.message /\ text = e.text
                                     /\ open = e.reasoning OBVIOUS
<1>13. Holding(p, id, text, open, tools, items) /\ Fuller(items, id, "text", said, after) /\ id # 0
  BY <1>0, <1>10, <1>11, <1>12
<1>14. Holding(p, id, said, open, tools, after) BY ONLY <1>13, MessageFills
<1>15. /\ DOMAIN g = EncFields /\ IsSeq(g.out) /\ Steady(e, g) /\ g.created = e.created
       /\ g.items = e.items /\ g.message = id /\ g.text = said /\ g.reasoning = open
       /\ g.tools = tools BY <1>5, <1>6, <1>12 DEF Puts, Same, Steady
<1>16. /\ DOMAIN r = CliFields /\ r.ok /\ ~r.over /\ (r.begun <=> e.created) /\ r.calls = c.calls
       /\ Spoken(c, "text", body, r) BY <1>0, <1>7, <1>9 DEF ItemSaid, Carried
<1>17. Shelf(p, g, r) BY <1>0, <1>10, <1>11, <1>14, <1>15, <1>16 DEF Shelf
<1> QED BY <1>12, <1>15, <1>16, <1>17 DEF SpeaksOn

\* and a thinking delta what the reasoning does.
LEMMA ThinkPut ==
  ASSUME NEW p, NEW c0, NEW e, NEW c, c = Client("responses", c0, e.out), Shelf(p, e, c),
         e.reasoning # 0, NEW body,
         NEW g, g = itemDelta(e, e.reasoning, e.outputIndex, "think", body),
         NEW r, r = Client("responses", c0, g.out)
  PROVE  SpeaksOn(p, e, c, "think", body, g, r)
<1>0. /\ DOMAIN e = EncFields /\ IsSeq(e.out) /\ DOMAIN c = CliFields /\ c.ok /\ ~c.over
      /\ e.created \in BOOLEAN /\ (c.begun <=> e.created)
      /\ Stocked(c.items) /\ Len(c.items) = e.items
      /\ Holding(p, e.message, e.text, e.reasoning, e.tools, c.items) BY DEF Shelf
<1>3. PICK f : f = [f |-> "item_delta", item |-> e.reasoning, index |-> e.outputIndex,
                    kind |-> "think", body |-> body] OBVIOUS
<1>4. g = Emit(e, <<f>>) BY <1>3, Zenon DEF itemDelta
<1>6. Puts(e, f, c, g, r) BY <1>0, <1>4, FramePut
<1>7. f.f = "item_delta" /\ f.item = e.reasoning /\ f.kind = "think" /\ f.body = body BY <1>3
<1>8. IsOpen(c.items, f.item, KindOf(f)) BY <1>0, <1>7 DEF Holding, KindOf
<1>9. ItemSaid(c, f, r) BY <1>0, <1>6, <1>7, <1>8, ItemSays DEF Puts
<1>10. PICK items, after : items = c.items /\ after = r.items OBVIOUS
<1>1. PICK said : said = after[e.reasoning].body OBVIOUS
<1>11. Fuller(items, e.reasoning, "think", said, after) /\ Stocked(after) /\ Len(after) = e.items
  BY <1>0, <1>1, <1>7, <1>9, <1>10 DEF Fuller, ItemSaid, Stocked, KindOf
<1>12. PICK tools, id, text, open : tools = e.tools /\ id = e.message /\ text = e.text
                                     /\ open = e.reasoning OBVIOUS
<1>13. Holding(p, id, text, open, tools, items) /\ Fuller(items, open, "think", said, after)
       /\ open # 0 BY <1>0, <1>10, <1>11, <1>12
<1>14. Holding(p, id, text, open, tools, after) BY ONLY <1>13, ReasoningFills
<1>15. /\ DOMAIN g = EncFields /\ IsSeq(g.out) /\ Steady(e, g) /\ g.created = e.created
       /\ g.items = e.items /\ g.message = id /\ g.text = text /\ g.reasoning = open
       /\ g.tools = tools BY <1>6, <1>12 DEF Puts, Same, Steady
<1>16. /\ DOMAIN r = CliFields /\ r.ok /\ ~r.over /\ (r.begun <=> e.created) /\ r.calls = c.calls
       /\ Spoken(c, "think", body, r) BY <1>0, <1>7, <1>9 DEF ItemSaid, Carried
<1>17. Shelf(p, g, r) BY <1>0, <1>10, <1>11, <1>14, <1>15, <1>16 DEF Shelf
<1> QED BY <1>12, <1>15, <1>16, <1>17 DEF SpeaksOn

\* Arguments for the tool at n.
ToolFields == {"index", "item", "at", "args"}

AsWords(c, r) == r.think = c.think /\ r.text = c.text

ArguesOn(p, e, c, n, body, g, r) ==
  /\ Shelf(p, g, r) /\ AsWords(c, r) /\ g.hasStop = e.hasStop /\ g.ended = e.ended
  /\ g.reason = e.reason
  /\ r.calls = ArgsHeard(c.calls, e.tools[n].item, body)
  /\ ArguedAt(e.tools, n, e.tools[n].args \o body, g.tools)

\* Arguments added to a tool leave the tools what else they were.
LEMMA ArgsArgue ==
  ASSUME NEW s, IsSeq(s), NEW n \in 1..Len(s), \A i \in 1..Len(s) : DOMAIN s[i] = ToolFields,
         NEW args, NEW a, ArguedAt(s, n, args, a)
  PROVE  /\ IsSeq(a) /\ Len(a) = Len(s)
         /\ \A i \in 1..Len(s) : /\ DOMAIN a[i] = ToolFields
                                 /\ a[i].index = s[i].index /\ a[i].item = s[i].item
                                 /\ a[i].at = s[i].at
                                 /\ a[i].args = IF i = n THEN args ELSE s[i].args
<1>1. DOMAIN s = 1..Len(s) /\ Len(s) \in Nat BY SeqDomain
<1>2. a = [s EXCEPT ![n].args = args] BY DEF ArguedAt
<1>3. a = [i \in 1..Len(s) |-> IF i = n THEN [s[n] EXCEPT !.args = args] ELSE s[i]] BY <1>1, <1>2
<1>4. a = [i \in 1..Len(s) |-> a[i]] BY <1>3
<1>5. IsSeq(a) /\ Len(a) = Len(s) BY ONLY <1>1, <1>4, SeqFunction
<1>6. ASSUME NEW i \in 1..Len(s)
      PROVE  /\ DOMAIN a[i] = ToolFields
             /\ a[i].index = s[i].index /\ a[i].item = s[i].item /\ a[i].at = s[i].at
             /\ a[i].args = IF i = n THEN args ELSE s[i].args
  <2>1. CASE i = n
    <3>1. a[i] = [s[i] EXCEPT !.args = args] BY <1>3, <2>1
    <3> QED BY <2>1, <3>1 DEF ToolFields
  <2>2. CASE i # n BY <1>3, <2>2
  <2> QED BY <2>1, <2>2
<1> QED BY <1>5, <1>6

Tooled(s) == IsSeq(s) /\ \A i \in 1..Len(s) : DOMAIN s[i] = ToolFields

\* An arguments delta is what the tool's call says next.
LEMMA ArgsPut ==
  ASSUME NEW c0, NEW e, NEW c, c = Client("responses", c0, e.out), Shelf(0, e, c),
         Tooled(e.tools), NEW n \in 1..Len(e.tools), NEW body,
         NEW g, g = itemDelta([e EXCEPT !.tools[n].args = @ \o body], e.tools[n].item,
                              e.tools[n].at, "args", body),
         NEW r, r = Client("responses", c0, g.out)
  PROVE  ArguesOn(0, e, c, n, body, g, r)
<1>0. /\ DOMAIN e = EncFields /\ IsSeq(e.out) /\ DOMAIN c = CliFields /\ c.ok /\ ~c.over
      /\ e.created \in BOOLEAN /\ (c.begun <=> e.created)
      /\ Stocked(c.items) /\ Len(c.items) = e.items
      /\ Holding(0, e.message, e.text, e.reasoning, e.tools, c.items) BY DEF Shelf
<1>1. PICK tools, said : tools = e.tools /\ said = tools[n].args \o body OBVIOUS
<1>2. PICK more : more = [tools EXCEPT ![n].args = said] OBVIOUS
<1>3. PICK m : m = [e EXCEPT !.tools = more] OBVIOUS
<1>4. PICK j, at : j = tools[n].item /\ at = tools[n].at OBVIOUS
<1>5. PICK f : f = [f |-> "item_delta", item |-> j, index |-> at, kind |-> "args", body |-> body]
  OBVIOUS
<1>6. g = Emit(m, <<f>>)
  <2>1. [e EXCEPT !.tools[n].args = @ \o body] = m
    <3>1. [e EXCEPT !.tools[n].args = @ \o body]
          = [e EXCEPT !.tools = [e.tools EXCEPT ![n].args = e.tools[n].args \o body]] OBVIOUS
    <3> QED BY <1>1, <1>2, <1>3, <3>1
  <2>2. e.tools[n].item = j /\ e.tools[n].at = at BY <1>1, <1>4
  <2> QED BY <1>5, <2>1, <2>2, Zenon DEF itemDelta
<1>7. /\ DOMAIN m = EncFields /\ m.out = e.out /\ m.tools = more /\ m.created = e.created
      /\ m.items = e.items /\ m.message = e.message /\ m.text = e.text
      /\ m.reasoning = e.reasoning /\ m.hasStop = e.hasStop /\ m.ended = e.ended
      /\ m.reason = e.reason BY <1>0, <1>3 DEF EncFields
<1>8. Puts(m, f, c, g, r) BY <1>0, <1>6, <1>7, FramePut
<1>9. f.f = "item_delta" /\ f.item = j /\ f.kind = "args" /\ f.body = body BY <1>5
<1>10. ArguedAt(tools, n, said, more) BY <1>2 DEF ArguedAt
<1>11. IsSeq(tools) /\ n \in 1..Len(tools) /\ \A i \in 1..Len(tools) : DOMAIN tools[i] = ToolFields
  BY <1>1 DEF Tooled
<1>12. Argues(tools, n, said, more)
  <2>1. /\ IsSeq(more) /\ Len(more) = Len(tools)
        /\ \A i \in 1..Len(tools) : /\ more[i].item = tools[i].item
                                    /\ more[i].args = IF i = n THEN said ELSE tools[i].args
    BY ONLY <1>10, <1>11, ArgsArgue
  <2> QED BY <2>1 DEF Argues
<1>13. HeldTool(tools[n], c.items)
  <2>1. n > 0 OBVIOUS
  <2> QED BY <1>0, <1>1, <2>1 DEF Holding
<1>14. IsOpen(c.items, f.item, KindOf(f)) /\ c.items[f.item].body = tools[n].args
  BY <1>4, <1>9, <1>13 DEF HeldTool, KindOf
<1>15. ItemSaid(c, f, r) BY <1>0, <1>8, <1>9, <1>14, ItemSays DEF Puts
<1>16. PICK items, after : items = c.items /\ after = r.items OBVIOUS
<1>17. Fuller(items, j, "call", said, after) /\ Stocked(after) /\ Len(after) = e.items
  BY <1>0, <1>1, <1>9, <1>14, <1>15, <1>16 DEF Fuller, ItemSaid, Stocked, KindOf
<1>18. PICK id, text, open : id = e.message /\ text = e.text /\ open = e.reasoning OBVIOUS
<1>19. Holding(0, id, text, open, tools, items) BY <1>0, <1>1, <1>16, <1>18
<1>20. n \in 1..Len(tools) /\ n > 0 /\ j = tools[n].item BY <1>4, <1>11
<1>21. Fuller(items, j, "call", said, after) BY <1>17
<1>22. Holding(0, id, text, open, more, after) BY ONLY <1>12, <1>19, <1>20, <1>21, ToolFills
<1>23. /\ DOMAIN g = EncFields /\ IsSeq(g.out) /\ g.created = e.created
       /\ g.items = e.items /\ g.message = id /\ g.text = text /\ g.reasoning = open
       /\ g.tools = more /\ g.hasStop = e.hasStop /\ g.ended = e.ended /\ g.reason = e.reason
  BY <1>7, <1>8, <1>18 DEF Puts, Same
<1>24. /\ DOMAIN r = CliFields /\ r.ok /\ ~r.over /\ (r.begun <=> e.created)
       /\ r.calls = ArgsHeard(c.calls, j, body) /\ AsWords(c, r)
  BY <1>0, <1>9, <1>15 DEF ItemSaid, Carried, Spoken, AsWords
<1>25. Shelf(0, g, r) BY <1>0, <1>16, <1>17, <1>22, <1>23, <1>24 DEF Shelf
<1> QED BY <1>1, <1>4, <1>10, <1>23, <1>24, <1>25 DEF ArguesOn

\* What is kept of a sequence, each by itself, when nothing is left out.
LEMMA FlattenOnes ==
  ASSUME NEW s, IsSeq(s), NEW ss, IsSeq(ss), Len(ss) = Len(s), \A i \in 1..Len(s) : ss[i] = <<s[i]>>
  PROVE  FlattenSeq(ss) = s
<1> DEFINE n == Len(s)
<1>1. n \in Nat BY SeqDomain
<1>2. \A i \in 1..Len(ss) : IsSeq(ss[i])
  <2>1. \A x : IsSeq(<<x>>) BY SeqOne
  <2> QED BY <2>1
<1>3. PICK P : /\ P[0] = <<>> /\ P[n] = FlattenSeq(ss)
               /\ \A i \in 1..n : P[i] = P[i - 1] \o ss[i]
  <2>1. \E P : /\ P[0] = <<>> /\ P[Len(ss)] = FlattenSeq(ss)
               /\ \A i \in 1..Len(ss) : P[i] = P[i - 1] \o ss[i] BY <1>2, FlattenSteps
  <2> QED BY <2>1
<1> DEFINE Prefix(t, i) == IsSeq(t) /\ Len(t) = i /\ \A j \in 1..i : t[j] = s[j]
           X == {i \in Nat : Prefix(P[i], i)}
<1>4. Prefix(P[0], 0) BY <1>3, SeqEmpty
<1>5. ASSUME NEW i \in 0..(n - 1), Prefix(P[i], i) PROVE Prefix(P[i + 1], i + 1)
  <2>1. i + 1 \in 1..n /\ (i + 1) - 1 = i /\ i \in Nat BY <1>1
  <2>2. PICK t, x, u : t = P[i] /\ x = s[i + 1] /\ u = Append(t, x) OBVIOUS
  <2>3. IsSeq(t) /\ Len(t) = i /\ \A j \in 1..i : t[j] = s[j] BY <1>5, <2>2
  <2> HIDE DEF Prefix, n
  <2>4. P[i + 1] = t \o <<x>>
    <3>1. P[i + 1] = P[(i + 1) - 1] \o ss[i + 1] BY <1>3, <2>1
    <3>2. ss[i + 1] = <<x>> BY <2>1, <2>2 DEF n
    <3> QED BY <2>1, <2>2, <3>1, <3>2
  <2>5. /\ u = t \o <<x>> /\ IsSeq(u) /\ Len(u) = Len(t) + 1 /\ (\A j \in 1..Len(t) : u[j] = t[j])
        /\ u[Len(t) + 1] = x BY ONLY <2>2, <2>3, SeqMore
  <2>6. \A j \in 1..(i + 1) : j \in 1..i \/ j = i + 1 BY <2>1
  <2>7. \A j \in 1..(i + 1) : u[j] = s[j] BY <2>2, <2>3, <2>5, <2>6
  <2>8. Prefix(u, i + 1) BY <2>3, <2>5, <2>7 DEF Prefix
  <2> QED BY <2>4, <2>5, <2>8
<1>6. \A i \in 0..n : i \in X
  <2> HIDE DEF Prefix, n
  <2>1. 0 \in X BY <1>4
  <2>2. \A i \in 0..(n - 1) : i \in X => i + 1 \in X BY <1>1, <1>5
  <2> HIDE DEF X
  <2> QED BY <1>1, <2>1, <2>2, UpTo
<1>7. Prefix(P[n], n)
  <2> HIDE DEF Prefix
  <2> QED BY <1>1, <1>6
<1>8. P[n] = s
  <2>1. PICK t : t = P[n] OBVIOUS
  <2>2. IsSeq(t) /\ Len(t) = Len(s) /\ \A j \in 1..Len(s) : t[j] = s[j] BY <1>7, <2>1
  <2>3. t = s BY ONLY <2>2, SeqSame, IsSeq(s)
  <2> QED BY <2>1, <2>3
<1> QED BY <1>3, <1>8

\* A tool of an index nobody had.
LEMMA ToolKept ==
  ASSUME NEW tools, IsSeq(tools), NEW index, \A i \in 1..Len(tools) : tools[i].index # index
  PROVE  FlattenSeq([t \in DOMAIN tools |-> When(tools[t].index # index, <<tools[t]>>)]) = tools
<1>1. DOMAIN tools = 1..Len(tools) /\ Len(tools) \in Nat BY SeqDomain
<1>2. PICK ss : ss = [t \in DOMAIN tools |-> When(tools[t].index # index, <<tools[t]>>)] OBVIOUS
<1>3. ASSUME NEW i \in 1..Len(tools) PROVE ss[i] = <<tools[i]>>
  <2>1. ss[i] = When(tools[i].index # index, <<tools[i]>>) BY <1>1, <1>2
  <2>2. tools[i].index # index OBVIOUS
  <2> QED BY <2>1, <2>2, Zenon DEF When
<1>4. ss = [i \in 1..Len(tools) |-> ss[i]] BY <1>1, <1>2
<1>5. IsSeq(ss) /\ Len(ss) = Len(tools) BY ONLY <1>1, <1>4, SeqFunction
<1>6. FlattenSeq(ss) = tools BY ONLY <1>3, <1>5, IsSeq(tools), FlattenOnes
<1> QED BY <1>2, <1>6

\* A tool of its own item.
IsTool(x, index, id) ==
  DOMAIN x = ToolFields /\ x.index = index /\ x.item = id /\ x.args = <<>>

Heeds(e, g) == g.hasStop = e.hasStop /\ g.ended = e.ended /\ g.reason = e.reason

OpensOn(e, c, index, call, g, r) ==
  /\ Shelf(0, g, r) /\ AsWords(c, r) /\ Heeds(e, g)
  /\ \E x : IsTool(x, index, e.items + 1) /\ g.tools = Append(e.tools, x)
  /\ r.calls = Append(c.calls, [at |-> e.items + 1, call |-> call, args |-> <<>>])

\* openTool adds the call's item, and the client hears of the call.
LEMMA ToolPut ==
  ASSUME NEW c0, NEW e, NEW c, c = Client("responses", c0, e.out), Shelf(0, e, c), e.created,
         NEW index, \A i \in 1..Len(e.tools) : e.tools[i].index # index, NEW call,
         NEW g, g = openTool(e, index, call), NEW r, r = Client("responses", c0, g.out)
  PROVE  OpensOn(e, c, index, call, g, r)
<1>0. /\ DOMAIN e = EncFields /\ IsSeq(e.out) /\ DOMAIN c = CliFields /\ c.ok /\ ~c.over
      /\ e.created \in BOOLEAN /\ (c.begun <=> e.created)
      /\ Stocked(c.items) /\ Len(c.items) = e.items
      /\ Holding(0, e.message, e.text, e.reasoning, e.tools, c.items) BY DEF Shelf
<1>1. PICK id, tools, next : id = e.items + 1 /\ tools = e.tools /\ next = e.outputIndex + 1
  OBVIOUS
<1>2. PICK tool : tool = [index |-> index, item |-> id, at |-> e.outputIndex, args |-> <<>>] OBVIOUS
<1>3. PICK more : more = Append(tools, tool) OBVIOUS
<1>4. PICK f : f = [f |-> "item_added", item |-> id, index |-> e.outputIndex, kind |-> "call",
                    call |-> call] OBVIOUS
<1>5. PICK w : w = Emit(e, <<f>>) OBVIOUS
<1>6. IsSeq(tools) /\ \A i \in 1..Len(tools) : tools[i].index # index BY <1>0, <1>1 DEF Holding
<1>7. FlattenSeq([t \in DOMAIN tools |-> When(tools[t].index # index, <<tools[t]>>)]) = tools
  BY ONLY <1>6, ToolKept
<1>8. PICK d : d = Client("responses", c0, w.out) OBVIOUS
<1>9. Puts(e, f, c, w, d) BY <1>0, <1>5, <1>8, FramePut
<1>10. DOMAIN w = EncFields /\ w.outputIndex = e.outputIndex BY <1>9 DEF Puts, Same
<1>11. g = [w EXCEPT !.items = id, !.outputIndex = next, !.tools = more]
  <2>1. itemAdded(e, id, "call", call) = w BY <1>4, <1>5, Zenon DEF itemAdded
  <2>2. g = [ itemAdded(e, e.items + 1, "call", call) EXCEPT
                !.items = e.items + 1, !.outputIndex = @ + 1,
                !.tools = Append(FlattenSeq([t \in DOMAIN e.tools |->
                                    When(e.tools[t].index # index, <<e.tools[t]>>)]),
                                 [index |-> index, item |-> e.items + 1, at |-> e.outputIndex,
                                  args |-> <<>>]) ] BY Zenon DEF openTool
  <2>3. g = [ w EXCEPT !.items = id, !.outputIndex = @ + 1,
                       !.tools = Append(tools, tool) ] BY <1>1, <1>2, <1>7, <2>1, <2>2, Zenon
  <2> QED BY <1>1, <1>3, <1>10, <2>3
<1>12. /\ DOMAIN g = EncFields /\ g.out = w.out /\ g.items = id /\ g.tools = more
       /\ g.created = w.created /\ g.message = w.message /\ g.text = w.text
       /\ g.reasoning = w.reasoning /\ Heeds(w, g) BY <1>10, <1>11 DEF EncFields, Heeds
<1>13. r = d BY <1>8, <1>12
<1>14. f.f = "item_added" /\ f.item = id /\ f.kind = "call" /\ f.call = call BY <1>4
<1>15. ItemOpened(c, f, r) BY <1>0, <1>1, <1>9, <1>13, <1>14, ItemOpens DEF Puts
<1>16. PICK items, after : items = c.items /\ after = r.items OBVIOUS
<1>17. /\ Grown(items, "call", after) /\ Stocked(after) /\ id = Len(items) + 1
       /\ Len(after) = id BY <1>0, <1>1, <1>14, <1>15, <1>16 DEF Grown, ItemOpened, Stocked
<1>18. PICK m, text, open : m = e.message /\ text = e.text /\ open = e.reasoning OBVIOUS
<1>19. Holding(0, m, text, open, tools, items) BY <1>0, <1>1, <1>16, <1>18
<1>20. tool.item = id /\ tool.args = <<>> BY <1>2
<1>21. 0 \in 0..Len(tools)
  <2>1. Len(tools) \in Nat BY <1>6, SeqDomain
  <2> QED BY <2>1
<1>22. Holding(0, m, text, open, more, after) BY ONLY <1>3, <1>17, <1>19, <1>20, <1>21, ToolOpens
<1>23. /\ IsSeq(g.out) /\ g.created = e.created /\ g.message = m /\ g.text = text
       /\ g.reasoning = open /\ Heeds(e, g) BY <1>9, <1>12, <1>18 DEF Puts, Same, Heeds
<1>24. /\ DOMAIN r = CliFields /\ r.ok /\ ~r.over /\ (r.begun <=> e.created) /\ AsWords(c, r)
  BY <1>0, <1>15 DEF ItemOpened, Carried, AsWords
<1>25. Shelf(0, g, r) BY <1>0, <1>16, <1>17, <1>22, <1>12, <1>23, <1>24 DEF Shelf
<1>26. r.calls = Append(c.calls, [at |-> e.items + 1, call |-> call, args |-> <<>>])
  <2>1. r.calls = Append(c.calls, [at |-> Len(c.items) + 1, call |-> f.call, args |-> <<>>])
    BY <1>14, <1>15 DEF ItemOpened
  <2> QED BY <1>0, <1>14, <2>1
<1>27. IsTool(tool, index, e.items + 1) BY <1>1, <1>2 DEF IsTool, ToolFields
<1>28. g.tools = Append(e.tools, tool) BY <1>1, <1>3, <1>12
<1> QED BY <1>23, <1>24, <1>25, <1>26, <1>27, <1>28 DEF OpensOn

\* One tool after the other is closed.
ShutsTool(n, e, c, g, r) ==
  Mute(n, e, c, g, r) /\ g.message = e.message /\ g.reasoning = e.reasoning

\* A tool is closed with the arguments it said.
LEMMA ToolShut ==
  ASSUME NEW p \in Nat, NEW c0, NEW e, NEW c, c = Client("responses", c0, e.out), Shelf(p, e, c),
         NEW n, n = p + 1, n \in 1..Len(e.tools), NEW reason,
         NEW g, g = CloseOne(reason, e, e.tools[n]), NEW r, r = Client("responses", c0, g.out)
  PROVE  ShutsTool(n, e, c, g, r)
<1>0. /\ DOMAIN e = EncFields /\ IsSeq(e.out) /\ DOMAIN c = CliFields /\ c.ok /\ ~c.over
      /\ e.created \in BOOLEAN /\ (c.begun <=> e.created)
      /\ Stocked(c.items) /\ Len(c.items) = e.items
      /\ Holding(p, e.message, e.text, e.reasoning, e.tools, c.items) BY DEF Shelf
<1>1. PICK tools, t : tools = e.tools /\ t = tools[n] OBVIOUS
<1>2. PICK f : f = [f |-> "item_done", item |-> t.item, index |-> t.at, body |-> t.args,
                    status |-> itemStatus(reason)] OBVIOUS
<1>3. g = Emit(e, <<f>>) BY <1>1, <1>2, Zenon DEF CloseOne, itemDone
<1>4. Puts(e, f, c, g, r) BY <1>0, <1>3, FramePut
<1>5. f.f = "item_done" /\ f.item = t.item /\ f.body = t.args BY <1>2
<1>6. HeldTool(t, c.items) BY <1>0, <1>1 DEF Holding
<1>7. IsOpen(c.items, f.item, "call") /\ c.items[f.item].body = f.body BY <1>5, <1>6 DEF HeldTool
<1>8. ItemShut(c, f, r) BY <1>0, <1>4, <1>5, <1>7, ItemShuts DEF Puts
<1>9. PICK items, after, j : items = c.items /\ after = r.items /\ j = tools[n].item OBVIOUS
<1>10. Less(items, j, after) /\ Stocked(after) /\ Len(after) = e.items
  BY <1>0, <1>1, <1>5, <1>8, <1>9 DEF Less, ItemShut, Stocked
<1>11. PICK id, text, open : id = e.message /\ text = e.text /\ open = e.reasoning OBVIOUS
<1>12. Holding(p, id, text, open, tools, items) /\ n \in 1..Len(tools) BY <1>0, <1>1, <1>9, <1>11
<1>13. j = tools[n].item /\ Less(items, j, after) BY <1>9, <1>10
<1>14. Holding(n, id, text, open, tools, after)
  BY ONLY p \in Nat, n = p + 1, <1>12, <1>13, ToolCloses
<1>15. /\ DOMAIN g = EncFields /\ IsSeq(g.out) /\ Steady(e, g) /\ g.created = e.created
       /\ g.items = e.items /\ g.message = id /\ g.text = text /\ g.reasoning = open
       /\ g.tools = tools BY <1>1, <1>4, <1>11 DEF Puts, Same, Steady
<1>16. /\ DOMAIN r = CliFields /\ r.ok /\ ~r.over /\ (r.begun <=> e.created) /\ AsTold(c, r)
  BY <1>0, <1>8 DEF ItemShut, Intact, AsTold
<1>17. Shelf(n, g, r) BY <1>0, <1>9, <1>10, <1>14, <1>15, <1>16 DEF Shelf
<1> QED BY <1>0, <1>11, <1>15, <1>16, <1>17 DEF Mute, ShutsTool

\* Tools that have all been closed need not be held.
LEMMA ToolsDropped ==
  ASSUME NEW m, NEW text, NEW r, NEW tools, NEW items,
         Holding(Len(tools), m, text, r, tools, items), NEW none, none = <<>>
  PROVE  Holding(0, m, text, r, none, items)
<1>1. IsSeq(none) /\ Len(none) = 0 BY SeqEmpty
<1>2. Len(tools) \in Nat BY SeqDomain DEF Holding
<1>3. \A t \in 1..Len(none) : FALSE BY <1>1
<1>4. ASSUME NEW i \in 1..Len(items), items[i].open PROVE Claimed(0, m, r, none, i)
  <2>1. Claimed(Len(tools), m, r, tools, i) BY <1>4 DEF Holding
  <2>2. \A t \in 1..Len(tools) : ~(t > Len(tools)) BY <1>2
  <2> QED BY <2>1, <2>2 DEF Claimed
<1> QED BY <1>1, <1>3, <1>4 DEF Holding

ToolsGone(e, c, g, r) ==
  /\ Shelf(0, g, r) /\ AsTold(c, r) /\ Heeds(e, g) /\ g.tools = <<>>
  /\ g.message = e.message /\ g.reasoning = e.reasoning

\* closeAllTools closes every one of them.
LEMMA ToolsShut ==
  ASSUME NEW c0, NEW e, NEW c, c = Client("responses", c0, e.out), Shelf(0, e, c), NEW reason,
         NEW g, g = closeAllTools(e, reason), NEW r, r = Client("responses", c0, g.out)
  PROVE  ToolsGone(e, c, g, r)
<1> DEFINE n == Len(e.tools)
<1>0. IsSeq(e.tools) BY DEF Shelf, Holding
<1>1. n \in Nat /\ DOMAIN e.tools = 1..n BY <1>0, SeqDomain
<1>2. PICK P : Trace("close", reason, e, e.tools, n, P) /\ P[n] = Folded("close", reason, e, e.tools)
  BY <1>1, FoldTraces
<1>3. P[0] = e /\ \A i \in 1..n : P[i] = CloseOne(reason, P[i - 1], e.tools[i])
  BY <1>2, OpIs DEF Trace
<1>4. ClosedCalls(reason, e, e.tools) = P[n] BY <1>1, <1>2, CloseFold
<1> DEFINE D(i) == Client("responses", c0, P[i].out)
           Shutting(i) == Mute(i, e, c, P[i], D(i)) /\ P[i].message = e.message
                             /\ P[i].reasoning = e.reasoning
           X == {i \in Nat : Shutting(i)}
<1> HIDE DEF n
<1>5. Shutting(0)
  <2>1. P[0] = e /\ D(0) = c BY <1>3
  <2>2. Mute(0, e, c, e, c) BY DEF Mute, Shelf, Steady, AsTold
  <2> HIDE DEF D
  <2> QED BY <2>1, <2>2
<1>6. ASSUME NEW i \in 0..(n - 1), Shutting(i) PROVE Shutting(i + 1)
  <2>1. i + 1 \in 1..n /\ (i + 1) - 1 = i /\ i \in Nat BY <1>1
  <2>2. PICK x, y, d, k : x = P[i] /\ y = P[i + 1] /\ d = D(i) /\ k = i + 1 OBVIOUS
  <2>3. Mute(i, e, c, x, d) /\ x.message = e.message /\ x.reasoning = e.reasoning
    <3> HIDE DEF D
    <3> QED BY <1>6, <2>2
  <2>4. d = Client("responses", c0, x.out) BY <2>2
  <2>5. y = CloseOne(reason, x, e.tools[k])
    <3>1. P[i + 1] = CloseOne(reason, P[(i + 1) - 1], e.tools[i + 1]) BY <1>3, <2>1
    <3> QED BY <2>1, <2>2, <3>1
  <2>6. x.tools = e.tools BY <2>3 DEF Mute, Steady
  <2>7. Shelf(i, x, d) BY <2>3 DEF Mute
  <2>8. PICK r1 : r1 = Client("responses", c0, y.out) OBVIOUS
  <2>9. k \in 1..Len(x.tools) /\ y = CloseOne(reason, x, x.tools[k]) /\ k = i + 1
    BY <2>1, <2>2, <2>5, <2>6 DEF n
  <2>10. Mute(k, x, d, y, r1) /\ y.message = x.message /\ y.reasoning = x.reasoning
    <3>1. PICK p \in Nat : p = i BY <2>1
    <3>2. Shelf(p, x, d) /\ k = p + 1 BY <2>7, <2>9, <3>1
    <3>3. k \in 1..Len(x.tools) /\ y = CloseOne(reason, x, x.tools[k]) BY <2>9
    <3>4. ShutsTool(k, x, d, y, r1) BY ONLY p \in Nat, <2>4, <2>8, <3>2, <3>3, ToolShut
    <3> QED BY <3>4 DEF ShutsTool
  <2>11. Mute(k, e, c, y, r1) BY <2>3, <2>10 DEF Mute, Steady, AsTold, Shelf
  <2>12. D(i + 1) = r1 BY <2>2, <2>8
  <2> HIDE DEF D
  <2> QED BY <2>2, <2>3, <2>10, <2>11, <2>12
<1>7. \A i \in 0..n : i \in X
  <2> HIDE DEF Shutting
  <2>1. 0 \in X BY <1>5
  <2>2. \A i \in 0..(n - 1) : i \in X => i + 1 \in X BY <1>1, <1>6
  <2> HIDE DEF X
  <2> QED BY <1>1, <2>1, <2>2, UpTo
<1>8. Shutting(n)
  <2> HIDE DEF Shutting
  <2> QED BY <1>1, <1>7
<1>9. PICK x, d, none : x = P[n] /\ d = D(n) /\ none = <<>> OBVIOUS
<1>10. Mute(n, e, c, x, d) /\ x.message = e.message /\ x.reasoning = e.reasoning
  <2> HIDE DEF D
  <2> QED BY <1>8, <1>9
<1>11. d = Client("responses", c0, x.out) BY <1>9
<1> HIDE DEF D, Shutting, X
<1>12. g = [x EXCEPT !.tools = none] BY <1>4, <1>9, ToolsClose
<1>13. /\ DOMAIN x = EncFields /\ IsSeq(x.out) /\ DOMAIN d = CliFields /\ d.ok /\ ~d.over
       /\ x.created \in BOOLEAN /\ (d.begun <=> x.created)
       /\ Stocked(d.items) /\ Len(d.items) = x.items
       /\ Holding(n, x.message, x.text, x.reasoning, x.tools, d.items)
       /\ x.tools = e.tools /\ x.hasStop = e.hasStop /\ x.ended = e.ended /\ x.reason = e.reason
       /\ AsTold(c, d) BY <1>10 DEF Mute, Shelf, Steady
<1>14. /\ DOMAIN g = EncFields /\ g.out = x.out /\ g.created = x.created /\ g.items = x.items
       /\ g.message = x.message /\ g.text = x.text /\ g.reasoning = x.reasoning
       /\ g.tools = none /\ Heeds(x, g) BY <1>12, <1>13 DEF EncFields, Heeds
<1>15. r = d BY <1>11, <1>14
<1>16. Holding(0, x.message, x.text, x.reasoning, none, d.items)
  <2>1. Holding(Len(e.tools), x.message, x.text, x.reasoning, e.tools, d.items) BY <1>13 DEF n
  <2> QED BY <1>9, <2>1, ToolsDropped
<1>17. Shelf(0, g, r) BY <1>13, <1>14, <1>15, <1>16 DEF Shelf
<1> QED BY <1>9, <1>10, <1>13, <1>14, <1>15, <1>17 DEF ToolsGone, Heeds

\* The tools the encoder holds are the calls it was told of, in their order, each
\* under the name its caller has for it.
ByItem(h, e, c) ==
  /\ Len(e.tools) = Len(h.calls)
  /\ \A i \in 1..Len(h.calls) :
       e.tools[i].index = h.calls[i].index /\ c.calls[i].at = e.tools[i].item

Emptied(e, reason) ==
  e.reason = reason /\ e.tools = <<>> /\ e.message = 0 /\ e.reasoning = 0

RespWaits(h, e) ==
  /\ e.hasStop \in BOOLEAN /\ (e.hasStop <=> h.done) /\ ~e.ended
  /\ h.done => Emptied(e, h.reason)

RespHolds(h, e, c) ==
  /\ Shelf(0, e, c) /\ HearsWords(h, c) /\ Mirrors(c.calls, h.calls) /\ Tooled(e.tools)
  /\ RespWaits(h, e) /\ (h.done \/ ByItem(h, e, c))

\* Words put out keep a Responses client with the story,
LEMMA RespSpeaks ==
  ASSUME NEW h, NEW e, NEW c, RespHolds(h, e, c), ~h.done, NEW delta, NEW k, Worded(h, delta, k),
         NEW x, NEW d, Mute(0, e, c, x, d), NEW g, NEW r,
         SpeaksOn(0, x, d, delta.d, delta.body, g, r)
  PROVE  RespHolds(k, g, r)
<1>1. /\ HearsWords(h, c) /\ Mirrors(c.calls, h.calls) /\ Tooled(e.tools)
      /\ RespWaits(h, e) /\ ByItem(h, e, c) BY DEF RespHolds
<1>2. /\ Steady(e, x) /\ d.think = c.think /\ d.text = c.text /\ d.calls = c.calls
  BY DEF Mute, AsTold
<1>3. Shelf(0, g, r) /\ Steady(x, g) /\ r.calls = d.calls /\ Spoken(d, delta.d, delta.body, r)
  BY DEF SpeaksOn
<1>4. Steady(e, g) /\ r.calls = c.calls BY <1>2, <1>3 DEF Steady
<1>5. /\ k.calls = h.calls /\ k.done = h.done /\ k.reason = h.reason
      /\ Spoken(h, delta.d, delta.body, k) BY DEF Worded, Aside
<1>6. HearsWords(k, r) BY <1>1, <1>2, <1>3, <1>5 DEF HearsWords, Spoken
<1>7. RespWaits(k, g) BY <1>1, <1>4, <1>5 DEF RespWaits, Steady, Emptied
<1>8. ByItem(k, g, r) BY <1>1, <1>4, <1>5 DEF ByItem, Steady
<1>9. Mirrors(r.calls, k.calls) /\ Tooled(g.tools) BY <1>1, <1>4, <1>5 DEF Steady
<1> QED BY <1>3, <1>6, <1>7, <1>8, <1>9 DEF RespHolds

\* a call opened does,
LEMMA RespCalls ==
  ASSUME NEW h, NEW e, NEW c, RespHolds(h, e, c), ~h.done, NEW delta, NEW k, Called(h, delta, k),
         NEW x, NEW d, Mute(0, e, c, x, d), NEW g, NEW r,
         OpensOn(x, d, delta.index, delta.call, g, r)
  PROVE  RespHolds(k, g, r)
<1>1. /\ HearsWords(h, c) /\ Mirrors(c.calls, h.calls) /\ Tooled(e.tools)
      /\ RespWaits(h, e) /\ ByItem(h, e, c) BY DEF RespHolds
<1>2. /\ Steady(e, x) /\ d.think = c.think /\ d.text = c.text /\ d.calls = c.calls
  BY DEF Mute, AsTold
<1>3. /\ Shelf(0, g, r) /\ AsWords(d, r) /\ Heeds(x, g) BY DEF OpensOn
<1>4. PICK tool : IsTool(tool, delta.index, x.items + 1) /\ g.tools = Append(x.tools, tool)
  BY DEF OpensOn
<1>5. PICK at : at = x.items + 1 OBVIOUS
<1>6. PICK none : none = <<>> OBVIOUS
<1>7. PICK said : said = [at |-> at, call |-> delta.call, args |-> none] OBVIOUS
<1>8. PICK new : new = [index |-> delta.index, call |-> delta.call, args |-> none] OBVIOUS
<1>9. PICK tale, caught, tools : tale = h.calls /\ caught = c.calls /\ tools = e.tools OBVIOUS
<1>10. PICK next, after, more : next = k.calls /\ after = r.calls /\ more = g.tools OBVIOUS
<1>11. next = Append(tale, new) BY <1>6, <1>8, <1>9, <1>10 DEF Called
<1>12. after = Append(caught, said)
  <2>1. r.calls = Append(d.calls, [at |-> x.items + 1, call |-> delta.call, args |-> <<>>])
    BY DEF OpensOn
  <2> QED BY <1>2, <1>5, <1>6, <1>7, <1>9, <1>10, <2>1
<1>13. more = Append(tools, tool) BY <1>2, <1>4, <1>9, <1>10 DEF Steady
<1>14. IsHeardCall(said) /\ said.call = new.call /\ said.args = new.args
  BY <1>7, <1>8 DEF IsHeardCall
<1>15. Mirrors(caught, tale) BY <1>1, <1>9
<1>16. PICK n : n = Len(tale) OBVIOUS
<1>17. Mirrors(after, next) BY ONLY <1>11, <1>12, <1>14, <1>15, MirrorOpens
<1>18. /\ Len(next) = n + 1 /\ n \in Nat
       /\ (\A i \in 1..n : after[i] = caught[i] /\ next[i] = tale[i])
       /\ after[n + 1] = said /\ next[n + 1] = new
  <2>1. /\ Len(next) = Len(tale) + 1 /\ Len(tale) \in Nat
    BY ONLY <1>11, <1>12, <1>14, <1>15, MirrorOpens
  <2>2. \A i \in 1..Len(tale) : after[i] = caught[i] /\ next[i] = tale[i]
    BY ONLY <1>11, <1>12, <1>14, <1>15, MirrorOpens
  <2>3. after[Len(tale) + 1] = said BY ONLY <1>11, <1>12, <1>14, <1>15, MirrorOpens
  <2>4. next[Len(tale) + 1] = new BY ONLY <1>11, <1>12, <1>14, <1>15, MirrorOpens
  <2> QED BY <1>16, <2>1, <2>2, <2>3, <2>4
<1>19. IsSeq(tools) /\ Len(tools) = n BY <1>1, <1>9, <1>16 DEF Tooled, ByItem
<1>20. /\ IsSeq(more) /\ Len(more) = n + 1 /\ (\A i \in 1..n : more[i] = tools[i])
       /\ more[n + 1] = tool
  <2>1. /\ IsSeq(more) /\ Len(more) = Len(tools) + 1
        /\ (\A i \in 1..Len(tools) : more[i] = tools[i]) /\ more[Len(tools) + 1] = tool
    BY ONLY <1>13, <1>19, SeqMore
  <2> QED BY <1>19, <2>1
<1>21. DOMAIN tool = ToolFields /\ tool.index = delta.index /\ tool.item = at
  BY <1>4, <1>5 DEF IsTool
<1>22. new.index = delta.index /\ said.at = at BY <1>7, <1>8
<1>23. \A i \in 1..(n + 1) : i \in 1..n \/ i = n + 1 BY <1>18
<1>24. \A i \in 1..n : tools[i].index = tale[i].index /\ caught[i].at = tools[i].item
                       /\ DOMAIN tools[i] = ToolFields
  BY <1>1, <1>9, <1>16, <1>19 DEF ByItem, Tooled
<1>25. ASSUME NEW i \in 1..(n + 1)
       PROVE  /\ more[i].index = next[i].index /\ after[i].at = more[i].item
              /\ DOMAIN more[i] = ToolFields
  <2>1. CASE i \in 1..n
    <3>1. more[i] = tools[i] /\ next[i] = tale[i] /\ after[i] = caught[i] BY <1>18, <1>20, <2>1
    <3> QED BY <1>24, <2>1, <3>1
  <2>2. CASE i = n + 1 BY <1>18, <1>20, <1>21, <1>22, <2>2
  <2> QED BY <1>23, <2>1, <2>2
<1>26. ByItem(k, g, r) BY <1>10, <1>18, <1>20, <1>25 DEF ByItem
<1>27. Tooled(g.tools) BY <1>10, <1>20, <1>25 DEF Tooled
<1>28. k.done = h.done /\ k.reason = h.reason /\ k.think = h.think /\ k.text = h.text
  BY DEF Called, Aside
<1>29. HearsWords(k, r) BY <1>1, <1>2, <1>3, <1>28 DEF HearsWords, AsWords
<1>30. RespWaits(k, g) BY <1>1, <1>2, <1>3, <1>28 DEF RespWaits, Steady, Heeds
<1> QED BY <1>3, <1>10, <1>17, <1>26, <1>27, <1>29, <1>30 DEF RespHolds

\* The arguments go to the one tool of their index.
FoundAt(h, e, index, n) ==
  /\ n \in 1..Len(h.calls) /\ ToolAt(e, index) = n /\ n # 0
  /\ \A i \in 1..Len(h.calls) : h.calls[i].index = index <=> i = n

\* (the tool a story awaits arguments for is one the encoder keeps)
LEMMA ToolFound ==
  ASSUME NEW loose, NEW h, StoryIsSound(h), NEW index, AwaitsArgs(loose, h, index),
         NEW e, NEW c, ByItem(h, e, c), Tooled(e.tools)
  PROVE  \E n : FoundAt(h, e, index, n)
<1>1. PICK n \in 1..Len(h.calls) : h.calls[n].index = index BY DEF AwaitsArgs
<1>2. \A i \in 1..Len(h.calls) : h.calls[i].index = index <=> i = n BY <1>1 DEF StoryIsSound
<1>3. IsSeq(e.tools) /\ Len(e.tools) = Len(h.calls) BY DEF Tooled, ByItem
<1>4. DOMAIN e.tools = 1..Len(h.calls) /\ Len(h.calls) \in Nat BY <1>3, SeqDomain
<1>5. PICK known : known = {t \in DOMAIN e.tools : e.tools[t].index = index} OBVIOUS
<1>6. \A i \in 1..Len(h.calls) : e.tools[i].index = index <=> i = n BY <1>2 DEF ByItem
<1>10. known = {n} BY <1>4, <1>5, <1>6
<1>7. ToolAt(e, index) = CHOOSE t \in known : \A s \in known : s <= t BY <1>5, <1>10 DEF ToolAt
<1>8. n \in Nat /\ n # 0 /\ n <= n BY <1>4
<1>9. ToolAt(e, index) = n BY <1>10, <1>7, <1>8
<1> QED BY <1>2, <1>8, <1>9 DEF FoundAt

ArgsMirrored(caught, tale, after, next) ==
  Mirrors(after, next) /\ \A i \in 1..Len(tale) : after[i].at = caught[i].at

\* (arguments added on both sides keep the calls mirrored)
LEMMA MirrorArgued ==
  ASSUME NEW caught, NEW tale, Mirrors(caught, tale), NEW at, NEW index, NEW body, IsSeq(body),
         \A i \in 1..Len(tale) : DOMAIN tale[i] = CallFields /\ IsSeq(tale[i].args),
         \A i \in 1..Len(tale) : caught[i].at = at <=> tale[i].index = index,
         NEW after, after = ArgsHeard(caught, at, body),
         NEW next, next = WithArgs(tale, index, body)
  PROVE  ArgsMirrored(caught, tale, after, next)
BY MirrorArgs DEF ArgsMirrored

\* arguments put out do,
LEMMA RespArgues ==
  ASSUME NEW h, StoryIsSound(h), NEW e, NEW c, RespHolds(h, e, c), ~h.done, NEW delta,
         IsSeq(delta.body), NEW k, Argued(h, delta, k), NEW n \in 1..Len(h.calls),
         \A i \in 1..Len(h.calls) : h.calls[i].index = delta.index <=> i = n,
         NEW g, NEW r, ArguesOn(0, e, c, n, delta.body, g, r)
  PROVE  RespHolds(k, g, r)
<1>1. /\ Shelf(0, e, c) /\ HearsWords(h, c) /\ Mirrors(c.calls, h.calls) /\ Tooled(e.tools)
      /\ RespWaits(h, e) /\ ByItem(h, e, c) BY DEF RespHolds
<1>2. PICK at, index, body : at = e.tools[n].item /\ index = delta.index /\ body = delta.body
  OBVIOUS
<1>3. PICK tale, caught, tools : tale = h.calls /\ caught = c.calls /\ tools = e.tools OBVIOUS
<1>4. PICK next, after, more : next = k.calls /\ after = r.calls /\ more = g.tools OBVIOUS
<1>5. PICK args : args = tools[n].args \o body OBVIOUS
<1>6. /\ Shelf(0, g, r) /\ AsWords(c, r) /\ g.hasStop = e.hasStop /\ g.ended = e.ended
      /\ g.reason = e.reason /\ after = ArgsHeard(caught, at, body)
      /\ ArguedAt(tools, n, args, more) BY <1>2, <1>3, <1>4, <1>5 DEF ArguesOn
<1>7. next = WithArgs(tale, index, body) BY <1>2, <1>3, <1>4 DEF Argued
<1>8. Mirrors(caught, tale) /\ IsSeq(body) BY <1>1, <1>2, <1>3
<1>9. \A i \in 1..Len(tale) : DOMAIN tale[i] = CallFields /\ IsSeq(tale[i].args)
  BY <1>3 DEF StoryIsSound
<1>10. \A i \in 1..Len(tale) : tale[i].index = index <=> i = n BY <1>2, <1>3
<1>11. /\ IsSeq(tools) /\ n \in 1..Len(tools) /\ Len(tools) = Len(tale)
       /\ \A i \in 1..Len(tools) : DOMAIN tools[i] = ToolFields BY <1>1, <1>3 DEF Tooled, ByItem
<1>12. \A i, j \in 1..Len(tools) : tools[i].item = tools[j].item => i = j
  BY <1>1, <1>3 DEF Shelf, Holding
<1>13. \A i \in 1..Len(tale) : caught[i].at = tools[i].item /\ tools[i].index = tale[i].index
  BY <1>1, <1>3 DEF ByItem
<1>14. \A i \in 1..Len(tale) : caught[i].at = at <=> tale[i].index = index
  BY <1>2, <1>3, <1>10, <1>11, <1>12, <1>13
<1>15. ArgsMirrored(caught, tale, after, next)
  <2>1. after = ArgsHeard(caught, at, body) /\ next = WithArgs(tale, index, body) BY <1>6, <1>7
  <2> QED BY ONLY <1>8, <1>9, <1>14, <2>1, MirrorArgued
<1>16. Mirrors(after, next) /\ \A i \in 1..Len(tale) : after[i].at = caught[i].at
  BY <1>15 DEF ArgsMirrored
<1>17. IsSeq(tale) BY <1>3 DEF StoryIsSound
<1>18. Len(next) = Len(tale) /\ \A i \in 1..Len(tale) : next[i].index = tale[i].index
  BY ONLY <1>7, <1>8, <1>9, <1>17, CallsAfterArgs
<1>19. /\ IsSeq(more) /\ Len(more) = Len(tools)
       /\ \A i \in 1..Len(tools) : /\ DOMAIN more[i] = ToolFields
                                   /\ more[i].index = tools[i].index
                                   /\ more[i].item = tools[i].item BY ONLY <1>6, <1>11, ArgsArgue
<1>20. ByItem(k, g, r) BY <1>4, <1>11, <1>13, <1>16, <1>18, <1>19 DEF ByItem
<1>21. Tooled(g.tools) BY <1>4, <1>19 DEF Tooled
<1>22. k.done = h.done /\ k.reason = h.reason /\ k.think = h.think /\ k.text = h.text
  BY DEF Argued, Aside
<1>23. HearsWords(k, r) BY <1>1, <1>6, <1>22 DEF HearsWords, AsWords
<1>24. RespWaits(k, g) BY <1>1, <1>6, <1>22 DEF RespWaits
<1> QED BY <1>4, <1>6, <1>16, <1>20, <1>21, <1>23, <1>24 DEF RespHolds

\* What a step that changes neither the items nor the calls leaves.
RespKept(e, g) ==
  /\ DOMAIN g = EncFields /\ IsSeq(g.out) /\ g.created = e.created /\ g.items = e.items
  /\ g.message = e.message /\ g.text = e.text /\ g.reasoning = e.reasoning
  /\ g.tools = e.tools /\ Heeds(e, g)

\* a delta that tells neither does,
LEMMA RespSame ==
  ASSUME NEW h, NEW e, NEW c, RespHolds(h, e, c), NEW k, k.think = h.think, k.text = h.text,
         k.calls = h.calls, k.done = h.done, k.reason = h.reason, NEW g, RespKept(e, g)
  PROVE  RespHolds(k, g, c)
<1>1. Shelf(0, g, c) BY DEF RespHolds, Shelf, RespKept
<1>2. HearsWords(k, c) /\ Mirrors(c.calls, k.calls) /\ Tooled(g.tools)
  BY DEF RespHolds, HearsWords, RespKept
<1>3. RespWaits(k, g) BY DEF RespHolds, RespWaits, RespKept, Heeds, Emptied
<1>4. k.done \/ ByItem(k, g, c) BY DEF RespHolds, ByItem, RespKept
<1> QED BY <1>1, <1>2, <1>3, <1>4 DEF RespHolds

\* and so does the stop, which closes everything.
LEMMA RespStops ==
  ASSUME NEW h, NEW e, NEW c, RespHolds(h, e, c), NEW delta, NEW k, Stops(h, delta, k),
         NEW c0, NEW g, NEW r, c = Client("responses", c0, e.out),
         g = [ closeMessage(closeReasoning(closeAllTools(e, delta.reason)), delta.reason)
               EXCEPT !.reason = delta.reason, !.hasStop = TRUE ],
         r = Client("responses", c0, g.out)
  PROVE  RespHolds(k, g, r)
<1>1. Shelf(0, e, c) /\ HearsWords(h, c) /\ Mirrors(c.calls, h.calls) /\ ~e.ended
  BY DEF RespHolds, RespWaits
<1>2. PICK reason : reason = delta.reason OBVIOUS
<1>3. PICK x : x = closeAllTools(e, reason) OBVIOUS
<1>4. PICK y : y = closeReasoning(x) OBVIOUS
<1>5. PICK z : z = closeMessage(y, reason) OBVIOUS
<1>6. PICK rx, ry, rz : /\ rx = Client("responses", c0, x.out)
                        /\ ry = Client("responses", c0, y.out)
                        /\ rz = Client("responses", c0, z.out) OBVIOUS
<1>7. ToolsGone(e, c, x, rx) BY <1>1, <1>3, <1>6, ToolsShut
<1>8. Shelf(0, x, rx) BY <1>7 DEF ToolsGone
<1>9. Mute(0, x, rx, y, ry) /\ y.reasoning = 0 BY ONLY <1>4, <1>6, <1>8, ReasoningShut
<1>10. Shelf(0, y, ry) BY <1>9 DEF Mute
<1>11. Mute(0, y, ry, z, rz) /\ z.message = 0 /\ z.reasoning = y.reasoning
  <2>1. NoMessage(0, y, ry, z, rz) BY ONLY <1>5, <1>6, <1>10, MessageShut
  <2> QED BY <2>1 DEF NoMessage
<1>12. g = [z EXCEPT !.reason = reason, !.hasStop = TRUE] BY <1>2, <1>3, <1>4, <1>5, Zenon
<1>13. Shelf(0, z, rz) BY <1>11 DEF Mute
<1>14. DOMAIN z = EncFields /\ IsSeq(z.out) BY <1>13 DEF Shelf
<1>15. /\ DOMAIN g = EncFields /\ g.out = z.out /\ g.created = z.created /\ g.items = z.items
       /\ g.message = z.message /\ g.text = z.text /\ g.reasoning = z.reasoning
       /\ g.tools = z.tools /\ g.ended = z.ended /\ g.hasStop = TRUE /\ g.reason = reason
  BY <1>12, <1>14 DEF EncFields
<1>16. r = rz BY <1>6, <1>15
<1>17. Shelf(0, g, r) BY <1>13, <1>15, <1>16 DEF Shelf
<1>18. z.tools = <<>> BY <1>7, <1>9, <1>11 DEF ToolsGone, Mute, Steady
<1>19. ~z.ended BY <1>1, <1>7, <1>9, <1>11 DEF ToolsGone, Mute, Steady, Heeds
<1>20. r.think = c.think /\ r.text = c.text /\ r.calls = c.calls
  BY <1>7, <1>9, <1>11, <1>16 DEF ToolsGone, Mute, AsTold
<1>21. /\ k.done /\ k.reason = delta.reason /\ k.think = h.think /\ k.text = h.text
       /\ k.calls = h.calls BY DEF Stops
<1>22. RespWaits(k, g) BY <1>2, <1>9, <1>11, <1>15, <1>18, <1>19, <1>21 DEF RespWaits, Emptied
<1>23. HearsWords(k, r) /\ Mirrors(r.calls, k.calls) BY <1>1, <1>20, <1>21 DEF HearsWords
<1>24. Tooled(g.tools)
  <2>1. PICK none : none = <<>> OBVIOUS
  <2>2. IsSeq(none) /\ Len(none) = 0 BY <2>1, SeqEmpty
  <2>3. Tooled(none) BY <2>2 DEF Tooled
  <2> QED BY <1>15, <1>18, <2>1, <2>3
<1> QED BY <1>17, <1>21, <1>22, <1>23, <1>24 DEF RespHolds

\* encodeResponses keeps its caller with the story, whatever delta comes.
LEMMA ResponsesStep ==
  ASSUME NEW loose, NEW h, StoryIsSound(h), NEW delta, Allowed(loose, h, delta),
         NEW k, k = After(h, delta), NEW c0, NEW e, NEW c, c = Client("responses", c0, e.out),
         RespHolds(h, e, c), NEW g, g = encodeResponses(e, delta),
         NEW r, r = Client("responses", c0, g.out)
  PROVE  RespHolds(k, g, r)
<1>0. Shelf(0, e, c) BY DEF RespHolds
<1>00. DOMAIN e = EncFields /\ IsSeq(e.out) BY <1>0 DEF Shelf
<1>1. CASE delta.d = "start"
  <2>1. g = e BY <1>1 DEF encodeResponses
  <2>2. Begins(h, k) BY <1>1, StartBegins
  <2>3. r = c BY <2>1
  <2>4. RespKept(e, g) BY <1>00, <2>1 DEF RespKept, Heeds
  <2>5. /\ k.think = h.think /\ k.text = h.text /\ k.calls = h.calls /\ k.done = h.done
        /\ k.reason = h.reason BY <2>2 DEF Begins
  <2> QED BY <2>3, <2>4, <2>5, RespSame
<1>2. CASE delta.d = "text"
  <2>1. PICK body : body = delta.body OBVIOUS
  <2>2. PICK x : x = ensureCreated(e) OBVIOUS
  <2>3. PICK y : y = ensureMessage(x) OBVIOUS
  <2>4. PICK rx, ry : rx = Client("responses", c0, x.out) /\ ry = Client("responses", c0, y.out)
    OBVIOUS
  <2>5. Mute(0, e, c, x, rx) /\ x.created BY <1>0, <2>2, <2>4, RespCreates
  <2>6. Shelf(0, x, rx) BY <2>5 DEF Mute
  <2>7. Mute(0, x, rx, y, ry) /\ y.message # 0 BY ONLY <2>3, <2>4, <2>5, <2>6, MessageEnsured
  <2>8. Shelf(0, y, ry) BY <2>7 DEF Mute
  <2>9. g = itemDelta([y EXCEPT !.text = @ \o body], y.message, y.outputIndex, "text", body)
    BY <1>2, <2>1, <2>2, <2>3, Zenon DEF encodeResponses
  <2>10. ry = Client("responses", c0, y.out) /\ y.message # 0 BY <2>4, <2>7
  <2>11. r = Client("responses", c0, g.out) OBVIOUS
  <2>12. SpeaksOn(0, y, ry, "text", body, g, r) BY ONLY <2>8, <2>9, <2>10, <2>11, TextPut
  <2>13. Mute(0, e, c, y, ry) BY ONLY <2>5, <2>7, MuteMute
  <2>14. Worded(h, delta, k) /\ ~h.done BY <1>2, WordsAreWorded DEF Allowed
  <2> QED BY <1>2, <2>1, <2>12, <2>13, <2>14, RespSpeaks
<1>3. CASE delta.d = "think"
  <2>1. PICK body : body = delta.body OBVIOUS
  <2>2. PICK x : x = ensureCreated(e) OBVIOUS
  <2>3. PICK y : y = closeMessage(x, "") OBVIOUS
  <2>4. PICK z : z = ensureReasoning(y) OBVIOUS
  <2>5. PICK rx, ry, rz : /\ rx = Client("responses", c0, x.out)
                          /\ ry = Client("responses", c0, y.out)
                          /\ rz = Client("responses", c0, z.out) OBVIOUS
  <2>6. Mute(0, e, c, x, rx) /\ x.created BY <1>0, <2>2, <2>5, RespCreates
  <2>7. Shelf(0, x, rx) BY <2>6 DEF Mute
  <2>8. Mute(0, x, rx, y, ry) /\ y.created = x.created
    <3>1. NoMessage(0, x, rx, y, ry) BY ONLY <2>3, <2>5, <2>7, MessageShut
    <3> QED BY <3>1 DEF NoMessage
  <2>9. Shelf(0, y, ry) /\ y.created BY <2>6, <2>8 DEF Mute
  <2>10. Mute(0, y, ry, z, rz) /\ z.reasoning # 0 BY ONLY <2>4, <2>5, <2>9, ReasoningEnsured
  <2>11. Shelf(0, z, rz) /\ z.reasoning # 0 BY <2>10 DEF Mute
  <2>12. g = itemDelta(z, z.reasoning, z.outputIndex, "think", body)
    BY <1>3, <2>1, <2>2, <2>3, <2>4, Zenon DEF encodeResponses
  <2>13. r = Client("responses", c0, g.out) /\ rz = Client("responses", c0, z.out) BY <2>5
  <2>14. SpeaksOn(0, z, rz, "think", body, g, r) BY ONLY <2>11, <2>12, <2>13, ThinkPut
  <2>15. Mute(0, e, c, y, ry) BY ONLY <2>6, <2>8, MuteMute
  <2>16. Mute(0, e, c, z, rz) BY ONLY <2>15, <2>10, MuteMute
  <2>17. Worded(h, delta, k) /\ ~h.done BY <1>3, WordsAreWorded DEF Allowed
  <2> QED BY <1>3, <2>1, <2>14, <2>16, <2>17, RespSpeaks
<1>4. CASE delta.d = "call"
  <2>1. PICK index, call : index = delta.index /\ call = delta.call OBVIOUS
  <2>2. PICK x : x = ensureCreated(e) OBVIOUS
  <2>3. PICK y : y = closeReasoning(x) OBVIOUS
  <2>4. PICK z : z = closeMessage(y, "") OBVIOUS
  <2>5. PICK rx, ry, rz : /\ rx = Client("responses", c0, x.out)
                          /\ ry = Client("responses", c0, y.out)
                          /\ rz = Client("responses", c0, z.out) OBVIOUS
  <2>6. Mute(0, e, c, x, rx) /\ x.created BY <1>0, <2>2, <2>5, RespCreates
  <2>7. Shelf(0, x, rx) BY <2>6 DEF Mute
  <2>8. Mute(0, x, rx, y, ry) /\ y.created = x.created BY ONLY <2>3, <2>5, <2>7, ReasoningShut
  <2>9. Shelf(0, y, ry) BY <2>8 DEF Mute
  <2>10. Mute(0, y, ry, z, rz) /\ z.created = y.created
    <3>1. NoMessage(0, y, ry, z, rz) BY ONLY <2>4, <2>5, <2>9, MessageShut
    <3> QED BY <3>1 DEF NoMessage
  <2>11. Shelf(0, z, rz) /\ z.created BY <2>6, <2>8, <2>10 DEF Mute
  <2>12. g = openTool(z, index, call) BY <1>4, <2>1, <2>2, <2>3, <2>4, Zenon DEF encodeResponses
  <2>13. Mute(0, e, c, y, ry) BY ONLY <2>6, <2>8, MuteMute
  <2>14. Mute(0, e, c, z, rz) BY ONLY <2>13, <2>10, MuteMute
  <2>15. Called(h, delta, k) /\ ~h.done BY <1>4, CallIsCalled DEF Allowed
  <2>16. \A i \in 1..Len(h.calls) : h.calls[i].index # index BY <1>4, <2>1 DEF Allowed
  <2>17. \A i \in 1..Len(z.tools) : z.tools[i].index # index
    <3>1. z.tools = e.tools BY <2>14 DEF Mute, Steady
    <3>2. ByItem(h, e, c) BY <2>15 DEF RespHolds
    <3> QED BY <2>16, <3>1, <3>2 DEF ByItem
  <2>18. r = Client("responses", c0, g.out) /\ rz = Client("responses", c0, z.out) BY <2>5
  <2>19. OpensOn(z, rz, index, call, g, r) BY ONLY <2>11, <2>12, <2>17, <2>18, ToolPut
  <2> QED BY <2>1, <2>14, <2>15, <2>19, RespCalls
<1>5. CASE delta.d = "args"
  <2>1. AwaitsArgs(loose, h, delta.index) /\ IsSeq(delta.body) /\ ~h.done BY <1>5 DEF Allowed
  <2>2. Argued(h, delta, k) BY <1>5, ArgsAreArgued
  <2>3. PICK index, body : index = delta.index /\ body = delta.body OBVIOUS
  <2>4. ByItem(h, e, c) /\ Tooled(e.tools) BY <2>1 DEF RespHolds
  <2>5. AwaitsArgs(loose, h, index) BY <2>1, <2>3
  <2>30. PICK n : FoundAt(h, e, index, n) BY ONLY <2>4, <2>5, StoryIsSound(h), ToolFound
  <2>6. /\ n \in 1..Len(h.calls) /\ ToolAt(e, index) = n /\ n # 0
        /\ \A i \in 1..Len(h.calls) : h.calls[i].index = index <=> i = n BY <2>30 DEF FoundAt
  <2>7. g = itemDelta([e EXCEPT !.tools[n].args = @ \o body], e.tools[n].item, e.tools[n].at,
                      "args", body)
    <3>1. PICK t : t = ToolAt(e, index) OBVIOUS
    <3>2. g = IF t = 0 THEN e
              ELSE itemDelta([e EXCEPT !.tools[t].args = @ \o body], e.tools[t].item,
                             e.tools[t].at, "args", body)
      BY <1>5, <2>3, <3>1, Zenon DEF encodeResponses
    <3>3. t = n /\ n # 0 BY <2>6, <3>1
    <3> QED BY <3>2, <3>3, Zenon
  <2>8. n \in 1..Len(e.tools) BY <2>4, <2>6 DEF ByItem
  <2>9. c = Client("responses", c0, e.out) /\ r = Client("responses", c0, g.out) OBVIOUS
  <2>10. ArguesOn(0, e, c, n, body, g, r) BY ONLY <1>0, <2>4, <2>7, <2>8, <2>9, ArgsPut
  <2> QED BY <2>1, <2>2, <2>3, <2>6, <2>10, RespArgues
<1>6. CASE delta.d = "usage"
  <2>1. g = [e EXCEPT !.usage = Merge(e.usage, delta.usage)] BY <1>6 DEF encodeResponses, Merged
  <2>2. k = h BY <1>6 DEF After
  <2>3. g.out = e.out /\ RespKept(e, g) BY <1>00, <2>1 DEF EncFields, RespKept, Heeds
  <2>4. r = c BY <2>3
  <2> QED BY <2>2, <2>3, <2>4, RespSame
<1>7. CASE delta.d = "unknown"
  <2>1. PICK f : f = [f |-> "foreign"] OBVIOUS
  <2>2. g = Emit(e, <<f>>) BY <1>7, <2>1, Zenon DEF encodeResponses
  <2>3. Puts(e, f, c, g, r) BY <1>00, <2>2, FramePut
  <2>4. ReadOne("responses", c, f) = c BY <2>1 DEF ReadOne
  <2>5. k = h BY <1>7 DEF After
  <2>6. r = c /\ RespKept(e, g) BY <2>3, <2>4 DEF Puts, Same, RespKept, Heeds
  <2> QED BY <2>5, <2>6, RespSame
<1>8. CASE delta.d = "done"
  <2>1. Stops(h, delta, k) BY <1>8, DoneStops
  <2>2. g = [ closeMessage(closeReasoning(closeAllTools(e, delta.reason)), delta.reason)
              EXCEPT !.reason = delta.reason, !.hasStop = TRUE ]
    BY <1>8, Zenon DEF encodeResponses
  <2> QED BY <2>1, <2>2, RespStops
<1> QED BY <1>1, <1>2, <1>3, <1>4, <1>5, <1>6, <1>7, <1>8 DEF Allowed

\* The end of a response is of the kind of the reason.
LEMMA ResponsesFinishes ==
  ASSUME NEW reason \in Reasons, NEW usage, NEW f, f = ended(reason, usage)
  PROVE  /\ f.f = "ended"
         /\ EndClass(IF f.status = "incomplete" THEN f.reason ELSE f.status) = EndClass(reason)
BY DEF ended, incompleteReason, IRStopReasonIsAbnormal, EndClass, Reasons

\* A Responses answer that ends is told to its end.
LEMMA ResponsesEnds ==
  ASSUME NEW h, StoryIsSound(h), h.done, NEW c0, NEW e, NEW c, c = Client("responses", c0, e.out),
         RespHolds(h, e, c), NEW finale, finale = EncodeDone("responses", e),
         NEW r, r = Client("responses", c0, e.out \o finale.out)
  PROVE  /\ HearsWords(h, r) /\ r.ok /\ r.over /\ EndClass(r.end) = EndClass(h.reason)
         /\ Mirrors(r.calls, h.calls)
<1>0. /\ Shelf(0, e, c) /\ HearsWords(h, c) /\ Mirrors(c.calls, h.calls) /\ RespWaits(h, e)
  BY DEF RespHolds
<1>1. /\ DOMAIN e = EncFields /\ IsSeq(e.out) /\ DOMAIN c = CliFields /\ c.ok /\ ~c.over
      /\ Stocked(c.items)
      /\ Holding(0, e.message, e.text, e.reasoning, e.tools, c.items) BY <1>0 DEF Shelf
<1>2. PICK m : m = [e EXCEPT !.out = <<>>] OBVIOUS
<1>3. finale = endResponses(m) BY <1>2, Zenon DEF EncodeDone
<1>4. /\ DOMAIN m = EncFields /\ m.hasStop = e.hasStop /\ m.reason = e.reason
      /\ m.ended = e.ended BY <1>1, <1>2 DEF EncFields
<1>5. PICK f : f = ended(m.reason, m.usage) OBVIOUS
<1>6. m.hasStop /\ ~m.ended BY <1>0, <1>4 DEF RespWaits
<1>7. PICK s : s = <<f>> OBVIOUS
<1>8. finale = Emit([m EXCEPT !.ended = TRUE], s) BY <1>3, <1>5, <1>6, <1>7, Zenon DEF endResponses
<1>9. IsSeq(s) BY <1>7, SeqOne
<1>10. finale.out = s
  <2>1. PICK e2 : e2 = [e EXCEPT !.ended = TRUE] OBVIOUS
  <2>2. DOMAIN e2 = EncFields BY <1>1, <2>1 DEF EncFields
  <2>3. [m EXCEPT !.ended = TRUE] = [e2 EXCEPT !.out = <<>>]
    <3>1. PICK none : none = <<>> OBVIOUS
    <3>2. m = [e EXCEPT !.out = none] BY <1>2, <3>1
    <3>3. [m EXCEPT !.ended = TRUE] = [e2 EXCEPT !.out = none] BY <1>1, <2>1, <3>2 DEF EncFields
    <3> QED BY <3>1, <3>3
  <2> QED BY <1>8, <1>9, <2>2, <2>3, CleanOut
<1>11. PICK out : out = e.out OBVIOUS
<1>12. IsSeq(out) /\ c = Client("responses", c0, out) BY <1>1, <1>11
<1>13. r = Client("responses", c0, out \o s) BY <1>10, <1>11
<1>14. r = ReadOne("responses", c, f) BY ONLY <1>7, <1>12, <1>13, ReadOneMore
<1>15. e.reason \in Reasons /\ e.reason = h.reason BY <1>0 DEF RespWaits, Emptied, StoryIsSound
<1>16. PICK usage : usage = m.usage OBVIOUS
<1>17. f = ended(h.reason, usage) /\ h.reason \in Reasons BY <1>4, <1>5, <1>15, <1>16
<1>18. /\ f.f = "ended"
       /\ EndClass(IF f.status = "incomplete" THEN f.reason ELSE f.status) = EndClass(h.reason)
  BY ONLY <1>17, ResponsesFinishes
<1>19. /\ Over(c, r)
       /\ r.ok <=> c.ok /\ ~c.over /\ \A i \in DOMAIN c.items : ~c.items[i].open
       /\ r.end = IF f.status = "incomplete" THEN f.reason ELSE f.status
  BY ONLY <1>1, <1>14, <1>18, EndedIsRead
<1>20. \A i \in DOMAIN c.items : ~c.items[i].open
  <2>1. e.message = 0 /\ e.reasoning = 0 /\ e.tools = <<>> BY <1>0 DEF RespWaits, Emptied
  <2>2. Len(e.tools) = 0 BY <2>1, SeqEmpty
  <2>3. DOMAIN c.items = 1..Len(c.items) /\ Len(c.items) \in Nat BY <1>1, SeqDomain DEF Stocked
  <2> SUFFICES ASSUME NEW i \in 1..Len(c.items), c.items[i].open PROVE FALSE BY <2>3
  <2>4. Claimed(0, e.message, e.reasoning, e.tools, i) BY <1>1 DEF Holding
  <2>5. i # 0 BY <2>3
  <2> QED BY <2>1, <2>2, <2>4, <2>5 DEF Claimed
<1>21. HearsWords(h, r) /\ r.over /\ Mirrors(r.calls, h.calls) BY <1>0, <1>19 DEF HearsWords, Over
<1> QED BY <1>1, <1>18, <1>19, <1>20, <1>21
=============================================================================
