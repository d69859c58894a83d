------------------------------ MODULE Decision ------------------------------
(***************************************************************************)
(* The decision table of internal/decision: what a reported fact makes the *)
(* gateway do, and how the facts of one batch fold into one verdict.       *)
(* Every effect is an ordinal, ordered by strength as in the code.  Words  *)
(* (a fact's reason and detail) are compared by the code as strings and    *)
(* are natural numbers here: only their order is used; 0 is the empty one. *)
(***************************************************************************)
EXTENDS Integers, Sequences, SequencesExt

\* The kinds of fact, in the order of their ordinals.
KindNone == 0
QuotaExhausted == 1
BalanceInsufficient == 2
CallerRateLimited == 3
PricingUnavailableTerminal == 4
PricingUnavailableSkip == 5
CandidateUnsupported == 6
PayloadRefused == 7
PayloadRepairedRetrySame == 8
UpstreamAuthRejected == 9
UpstreamRateLimited == 10
UpstreamServerError == 11
UpstreamClientError == 12
UpstreamTransportFailure == 13
UpstreamPayloadUndecodable == 14
UpstreamSucceeded == 15
UpstreamStreamTruncated == 16
ClientGone == 17
ClientWriteFailed == 18
KeyUnusable == 19
RequestBudgetExhausted == 20
IngressRewriteFailed == 21
EgressRewriteFailed == 22
Kinds == 0 .. 22

\* What a reporter says it saw; its words matter only by their order.
Facts == [kind : Kinds, reason : Nat, detail : Nat]

\* LoopEffect, in the order of its strength.
LoopNone == 0
LoopContinue == 1
LoopRetrySameCandidate == 2
LoopRotateKey == 3
LoopNextCandidate == 4
LoopTerminate == 5
LoopCommitted == 6

StatusNone == 0
StatusFromPeer == 1
StatusFromUpstream == 2
StatusFixed == 3

CircuitNone == 0
CircuitReset == 1
CircuitPenalizeSoft == 2
CircuitPenalize == 3

BudgetNone == 0
ConsumeProbe == 1
ConsumeAttempt == 2

SettleNone == 0
SettleWithUsage == 1
SettleReverseAll == 3

\* An undefined row, and a row that steers the loop and nothing else.
Zero == [loop |-> LoopNone, status |-> StatusNone, code |-> 0, errType |-> "",
         circuit |-> CircuitNone, budget |-> BudgetNone, sticky |-> FALSE,
         settle |-> SettleNone]
Steers(loop) == [Zero EXCEPT !.loop = loop]
Answers(loop, code, errType) ==
    [Steers(loop) EXCEPT !.status = StatusFixed, !.code = code, !.errType = errType]
Reverses(row) == [row EXCEPT !.settle = SettleReverseAll]
Probes(row) == [row EXCEPT !.budget = ConsumeProbe]
Attempts(row) == [row EXCEPT !.budget = ConsumeAttempt]
Quoted(row) == [row EXCEPT !.sticky = TRUE]
Books(row, circuit) == [row EXCEPT !.circuit = circuit]
Forwards(row) == [row EXCEPT !.status = StatusFromUpstream]
Bills(row) == [row EXCEPT !.settle = SettleWithUsage]

DecisionTable == [k \in Kinds |->
    CASE k = QuotaExhausted ->
            Reverses(Answers(LoopTerminate, 429, "insufficient_quota"))
      [] k = BalanceInsufficient ->
            Reverses(Answers(LoopTerminate, 402, "insufficient_quota"))
      [] k = CallerRateLimited -> Answers(LoopTerminate, 429, "rate_limit_error")
      [] k = PricingUnavailableTerminal ->
            Reverses([Steers(LoopTerminate) EXCEPT !.status = StatusFromPeer])
      [] k = PricingUnavailableSkip ->
            Quoted(Probes(Answers(LoopNextCandidate, 503, "service_unavailable")))
      [] k = CandidateUnsupported ->
            Quoted(Probes(Answers(LoopNextCandidate, 400, "invalid_request_error")))
      [] k = PayloadRefused ->
            Quoted(Attempts(Forwards(Steers(LoopNextCandidate))))
      [] k = PayloadRepairedRetrySame -> Attempts(Steers(LoopRetrySameCandidate))
      [] k = UpstreamAuthRejected -> Attempts(Steers(LoopRotateKey))
      [] k = UpstreamRateLimited ->
            Quoted(Attempts(Books(Answers(LoopRotateKey, 429, "rate_limit_error"),
                                  CircuitPenalizeSoft)))
      [] k \in {UpstreamServerError, UpstreamTransportFailure,
                UpstreamPayloadUndecodable} ->
            Attempts(Books(Steers(LoopNextCandidate), CircuitPenalize))
      [] k = UpstreamClientError -> Bills(Attempts(Forwards(Steers(LoopTerminate))))
      [] k = UpstreamSucceeded ->
            Bills(Attempts(Books(Forwards(Steers(LoopCommitted)), CircuitReset)))
      [] k = UpstreamStreamTruncated ->
            Bills(Books(Answers(LoopCommitted, 200, ""), CircuitPenalizeSoft))
      [] k \in {ClientGone, ClientWriteFailed} ->
            Bills(Answers(LoopCommitted, 499, ""))
      [] k = KeyUnusable -> Steers(LoopRotateKey)
      [] k = RequestBudgetExhausted ->
            Reverses(Answers(LoopTerminate, 504, "upstream_error"))
      [] k = IngressRewriteFailed ->
            Reverses(Answers(LoopTerminate, 500, "server_error"))
      [] k = EgressRewriteFailed -> Probes(Steers(LoopNextCandidate))
      [] k = KindNone -> Zero]

For(k) == DecisionTable[k]
-----------------------------------------------------------------------------
\* What the caller may be shown of a fact, adopted whole from that one fact.
Face(k, reason, detail) ==
    [status |-> For(k).status, code |-> For(k).code, errType |-> For(k).errType,
     sticky |-> For(k).sticky, statusFrom |-> k, reason |-> reason, detail |-> detail]

\* A resolved batch.  The verdict the caller sees is kept together.
Resolved(fact) ==
    [loop |-> For(fact.kind).loop, loopFrom |-> fact.kind,
     circuit |-> For(fact.kind).circuit, budget |-> For(fact.kind).budget,
     settle |-> For(fact.kind).settle,
     face |-> Face(fact.kind, fact.reason, fact.detail)]

Unresolved == Resolved([kind |-> KindNone, reason |-> 0, detail |-> 0])

StatusStrength(policy) ==
    CASE policy = StatusNone -> 0 [] policy = StatusFromPeer -> 1 [] OTHER -> 2

\* Does the challenger's opinion of the status replace the holder's?
StatusWins(challenger, holder) ==
    LET cs == StatusStrength(challenger.status)
        hs == StatusStrength(holder.status) IN
    IF cs # hs THEN cs > hs
    ELSE IF challenger.statusFrom # holder.statusFrom
         THEN challenger.statusFrom < holder.statusFrom
    ELSE IF challenger.reason # holder.reason
         THEN challenger.reason < holder.reason
    ELSE challenger.detail < holder.detail

Strongest(x, y) == IF y > x THEN y ELSE x

\* Mutant: facts of one kind are not told apart by their words.
CombineByKind(a, b) ==
    [loop |-> Strongest(a.loop, b.loop),
     loopFrom |-> IF b.loop > a.loop \/ (b.loop = a.loop /\ b.loopFrom < a.loopFrom)
                  THEN b.loopFrom ELSE a.loopFrom,
     circuit |-> Strongest(a.circuit, b.circuit),
     budget |-> Strongest(a.budget, b.budget),
     settle |-> Strongest(a.settle, b.settle),
     face |-> IF /\ b.face.statusFrom # a.face.statusFrom
                 /\ StatusWins(b.face, a.face)
              THEN b.face ELSE a.face]

Combine(a, b) ==
    [loop |-> Strongest(a.loop, b.loop),
     loopFrom |-> IF b.loop > a.loop \/ (b.loop = a.loop /\ b.loopFrom < a.loopFrom)
                  THEN b.loopFrom ELSE a.loopFrom,
     circuit |-> Strongest(a.circuit, b.circuit),
     budget |-> Strongest(a.budget, b.budget),
     settle |-> Strongest(a.settle, b.settle),
     face |-> IF StatusWins(b.face, a.face) THEN b.face ELSE a.face]

ResolveBatch(facts) ==
    FoldLeft(LAMBDA v, fact : Combine(v, Resolved(fact)), Unresolved, facts)

\* The status and error type a verdict asks the caller to be shown; a zero
\* status is no opinion.
CallerFacing(v, upstreamStatus, upstreamErrType) ==
    CASE v.face.status = StatusFixed ->
            [status |-> v.face.code, errType |-> v.face.errType]
      [] v.face.status = StatusFromUpstream ->
            [status |-> upstreamStatus, errType |-> upstreamErrType]
      [] OTHER -> [status |-> 0, errType |-> ""]

PreDispatchRejectionStatus(v, fallback) ==
    IF v.face.status = StatusFixed /\ v.face.code # 0 THEN v.face.code ELSE fallback
AdmissionRejectionStatus(v) == PreDispatchRejectionStatus(v, 429)

\* The fact a failure is filed under: its own reason, or else its kind.
FailReason(v) == [kind |-> v.face.statusFrom, reason |-> v.face.reason]
-----------------------------------------------------------------------------
(* The same verdict said without an order: of a set of facts.              *)

LeastOf(S) == CHOOSE x \in S : \A y \in S : x <= y
MostOf(S) == CHOOSE x \in S : \A y \in S : y <= x

VerdictOf(facts) ==
    LET F == facts \union {[kind |-> KindNone, reason |-> 0, detail |-> 0]}
        loop == MostOf({For(f.kind).loop : f \in F})
        Strength(f) == StatusStrength(For(f.kind).status)
        loudest == {f \in F : \A g \in F : Strength(g) <= Strength(f)}
        first == {f \in loudest : \A g \in loudest : f.kind <= g.kind}
        named == {f \in first : \A g \in first : f.reason <= g.reason}
        said == CHOOSE f \in named : \A g \in named : f.detail <= g.detail IN
    [loop |-> loop,
     loopFrom |-> LeastOf({f.kind : f \in {g \in F : For(g.kind).loop = loop}}),
     circuit |-> MostOf({For(f.kind).circuit : f \in F}),
     budget |-> MostOf({For(f.kind).budget : f \in F}),
     settle |-> MostOf({For(f.kind).settle : f \in F}),
     face |-> Face(said.kind, said.reason, said.detail)]
=============================================================================
