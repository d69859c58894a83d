-------------------------------- MODULE Relay -------------------------------
(***************************************************************************)
(* One exchange of the gateway, from the handler's entry to its last       *)
(* deferred call (internal/gateway: relay.go, conclude.go, log.go).  The   *)
(* request is admitted, walks a chain of candidates and the keys of each   *)
(* under two budgets and a deadline, is answered once, settled once, gives *)
(* its admissions back and is recorded.  The caller may hang up, the       *)
(* deadline may pass and code the kernel calls may panic at any point.     *)
(*                                                                         *)
(* Decision folds the facts an attempt reports; Delivery checks what a     *)
(* payload says of a 2xx answer.  The breaker and the key pool are modules *)
(* of their own: here the breaker admits, refuses or withdraws as it       *)
(* likes, and what is booked against it is on record.                      *)
(***************************************************************************)
EXTENDS Decision, Delivery

CONSTANTS
    MaxUpstreamAttempts,    \* dispatches a request may make
    MaxCandidateProbes,     \* candidates it may drop without a dispatch
    MaxCandidates,          \* candidates a chain may have
    MaxKeys,                \* usable keys a provider may have
    ArrivalAdmissions,      \* admissions asked on arrival
    PricedAdmissions,       \* admissions asked once the request is priced
    Statuses,               \* HTTP statuses upstreams answer with
    Batches,                \* facts observers of one error may report, in order
    Payloads                \* how the request's answers are delivered

ASSUME BudgetAssumption ==
    /\ MaxUpstreamAttempts \in Nat \ {0}
    /\ MaxCandidateProbes \in Nat \ {0}
    /\ MaxCandidates \in Nat \ {0}
    /\ MaxKeys \in Nat \ {0}
ASSUME StatusAssumption == Statuses \subseteq 100 .. 599

\* The one observer of failures registered reports a refusal, or nothing.
Refusals == {f \in Facts : f.kind = PayloadRefused}
ASSUME BatchAssumption == Batches \subseteq Seq(Refusals)
ASSUME PayloadAssumption == Payloads \subseteq PayloadKinds

VARIABLES
    pc,         \* where the handler is
    gone,       \* has the caller hung up?
    late,       \* has the request's deadline passed?
    panicked,   \* did code the kernel called panic?
    asked,      \* admissions asked in this phase
    tickets,    \* tickets taken, oldest first
    released,   \* tickets given back, in that order
    payload,    \* how this request's answers are delivered
    stage,      \* orderedPayload.stage
    left,       \* candidates not yet entered
    begun,      \* candidates entered
    keys,       \* keys of the candidate not yet walked past
    repairs,    \* bodies repaired for the candidate
    before,     \* attempts spent when its key walk began
    attempts,   \* Exchange.attemptsSpent
    probes,     \* Exchange.probesSpent
    verdict,    \* the verdict held for the end of the chain
    last,       \* what the last attempt entered came to
    heard,      \* what came back on the wire
    told,       \* the facts behind the verdict being acted on
    judged,     \* foldUpstreamDecision's result
    booked,     \* what the dispatch booked against the breaker
    culprit,    \* whose fault its end was
    answers,    \* responses begun to the caller
    reply,      \* the last one the kernel itself wrote
    closing,    \* the delivery being settled
    logWritten, \* Exchange.logWritten
    charged,    \* increments of the key's spend
    outcome,    \* Exchange.outcome
    recorded    \* runs of the recorders

environment == <<gone, late, panicked>>
admission == <<asked, tickets, released>>
walk == <<left, begun, keys, repairs, before>>
ledger == <<attempts, probes>>
attempt == <<verdict, last>>
wire == <<heard, told, judged, booked, culprit>>
caller == <<answers, reply>>
settlement == <<closing, logWritten, charged, outcome, recorded>>
vars == <<pc, environment, admission, payload, stage, walk, ledger, attempt, wire,
          caller, settlement>>
-----------------------------------------------------------------------------
Waiting == 0
Failed == 1
Cancelled == 2
NoVerdict == [status |-> 0, from |-> KindNone]
NoAttempt == [status |-> 0, quotable |-> FALSE]
NoReply == [by |-> "nobody", status |-> 0]
NoOutcome == [status |-> 0, fault |-> "none", reason |-> ""]
NoDelivery == Delivery(FALSE, 0, "unset", 0, FALSE, "none", "")
Unjudged == [folded |-> Unresolved, baseline |-> FALSE, route |-> "none"]

Init ==
    /\ pc = "key"
    /\ gone = FALSE /\ late = FALSE /\ panicked = FALSE
    /\ asked = 0 /\ tickets = <<>> /\ released = <<>>
    /\ payload \in Payloads
    /\ stage = "admitted"
    /\ left = 0 /\ begun = 0 /\ keys = 0 /\ repairs = 0 /\ before = 0
    /\ attempts = 0 /\ probes = 0
    /\ verdict = NoVerdict /\ last = NoAttempt
    /\ heard = Waiting /\ told = {} /\ judged = Unjudged
    /\ booked = <<>> /\ culprit = "nobody"
    /\ answers = 0 /\ reply = NoReply
    /\ closing = [d |-> NoDelivery, usage |-> FALSE]
    /\ logWritten = FALSE /\ charged = 0 /\ outcome = NoOutcome /\ recorded = 0
-----------------------------------------------------------------------------
(* Ending a request.                                                       *)

\* settle: the delivery is checked, and finalize is next.
Settle(d, usage) ==
    /\ closing' = [d |-> Checked(d), usage |-> usage]
    /\ pc' = "settle"
    /\ UNCHANGED <<logWritten, charged, outcome, recorded>>

Write(by, status) ==
    /\ answers' = answers + 1
    /\ reply' = [by |-> by, status |-> status]

\* rejectRequest and abandonRequest.
RejectRequest(by, status, at) ==
    /\ Write(by, status)
    /\ Settle(Rejected(status, at, by), FALSE)
AbandonRequest ==
    /\ Settle(CallerGone("client_disconnected"), FALSE)
    /\ UNCHANGED caller

\* finalize: the first call charges the key and fixes the outcome.  It may
\* panic between the two.
Finalize(next) ==
    /\ pc' = next
    /\ logWritten' = TRUE
    /\ IF logWritten THEN UNCHANGED <<charged, outcome, panicked>>
       ELSE /\ charged' = charged + (IF closing.usage THEN 1 ELSE 0)
            /\ \/ /\ outcome' = [status |-> closing.d.billingStatus,
                                 fault |-> closing.d.fault,
                                 reason |-> closing.d.failReason]
                  /\ UNCHANGED panicked
               \/ /\ panicked' = TRUE
                  /\ UNCHANGED outcome
    /\ UNCHANGED <<gone, late, admission, payload, stage, walk, ledger, attempt, wire,
                   caller, closing, recorded>>

FinalizeInHandler == pc = "settle" /\ Finalize("conclude")
FinalizeConcluding == pc = "concluding" /\ Finalize("release")

\* concludeExchange: whatever ended the handler, the exchange is settled.
Conclude ==
    /\ pc = "conclude"
    /\ IF logWritten THEN pc' = "release" /\ UNCHANGED closing
       ELSE /\ pc' = "concluding"
            /\ closing' = [d |-> Checked(IF answers > 0
                                 THEN Truncated(200, 500, "gateway", "panic_recovered")
                                 ELSE Undelivered(500, "settled", "gateway",
                                                  "panic_recovered")),
                           usage |-> FALSE]
    /\ UNCHANGED <<environment, admission, payload, stage, walk, ledger, attempt, wire,
                   caller, logWritten, charged, outcome, recorded>>

\* releaseAdmissions: the newest ticket not yet given back; a release that
\* panics is recovered from and the loop goes on.
Release ==
    /\ pc = "release"
    /\ LET back == Len(tickets) - Len(released) IN
       IF back = 0 THEN pc' = "record" /\ UNCHANGED released
       ELSE released' = Append(released, tickets[back]) /\ UNCHANGED pc
    /\ UNCHANGED <<environment, asked, tickets, payload, stage, walk, ledger, attempt,
                   wire, caller, settlement>>

\* recordTerminal.
Record ==
    /\ pc = "record"
    /\ pc' = "end"
    /\ recorded' = recorded + (IF outcome # NoOutcome THEN 1 ELSE 0)
    /\ UNCHANGED <<environment, admission, payload, stage, walk, ledger, attempt, wire,
                   caller, closing, logWritten, charged, outcome>>
-----------------------------------------------------------------------------
(* Admission and the checks before the chain.                              *)

\* checkKeyStateAndLimits.
CheckKey ==
    /\ pc = "key"
    /\ \/ pc' = "arrival" /\ UNCHANGED <<caller, settlement>>
       \/ \E status \in {401, 429} : RejectRequest("checks", status, "client")
    /\ UNCHANGED <<environment, admission, payload, stage, walk, ledger, attempt, wire>>

\* One admission of a phase: it may hand out a ticket, and may refuse.
Ask(phase, count) ==
    /\ pc = phase /\ asked < count
    /\ asked' = asked + 1
    /\ tickets' \in {tickets, Append(tickets, Len(tickets) + 1)}
    /\ \/ UNCHANGED <<pc, caller, settlement>>
       \/ RejectRequest("admission",
              AdmissionRejectionStatus(ResolveBatch(
                  <<[kind |-> CallerRateLimited, reason |-> 1, detail |-> 1]>>)),
              "client")
    /\ UNCHANGED <<environment, released, payload, stage, walk, ledger, attempt, wire>>

Admit(phase, count, next) ==
    /\ pc = phase /\ asked = count
    /\ pc' = next /\ asked' = 0
    /\ UNCHANGED <<environment, tickets, released, payload, stage, walk, ledger,
                   attempt, wire, caller, settlement>>

AskOnArrival == Ask("arrival", ArrivalAdmissions)
AdmitOnArrival == Admit("arrival", ArrivalAdmissions, "checks")
AskWhenPriced == Ask("priced", PricedAdmissions)
AdmitWhenPriced == Admit("priced", PricedAdmissions, "chain")

\* A call the gateway makes to itself is admitted with its parent.
AdmitSubCall ==
    /\ pc = "arrival" /\ asked = 0
    /\ pc' = "checks"
    /\ UNCHANGED <<environment, admission, payload, stage, walk, ledger, attempt, wire,
                   caller, settlement>>

\* The rest of Handle: the body, the rewriters, the modality, the model, the
\* allowlist and the candidates.
Check ==
    /\ pc = "checks"
    /\ \/ /\ pc' = "priced"
          /\ stage' = "estimated"
          /\ left' \in 1 .. MaxCandidates
          /\ UNCHANGED <<caller, settlement>>
       \/ /\ \E status \in {400, 403, 404, 413} : RejectRequest("checks", status, "client")
          /\ UNCHANGED <<stage, left>>
       \/ /\ \E status \in {500, 503} : RejectRequest("checks", status, "gateway")
          /\ UNCHANGED <<stage, left>>
       \/ /\ gone /\ AbandonRequest
          /\ UNCHANGED <<stage, left>>
    /\ UNCHANGED <<environment, admission, payload, begun, keys, repairs, before, ledger,
                   attempt, wire>>
-----------------------------------------------------------------------------
(* The candidate loop.                                                     *)

Exhausted == late \/ attempts >= MaxUpstreamAttempts \/ probes >= MaxCandidateProbes

\* Mutant: the verdict held is not cleared.
KeepVerdict == UNCHANGED verdict

ClearVerdict == verdict' = NoVerdict

\* The next candidate is entered unless a budget is gone.
EnterCandidate ==
    /\ pc = "chain" /\ left > 0
    /\ ClearVerdict
    /\ IF Exhausted
       THEN pc' = "failed" /\ UNCHANGED <<left, begun, last>>
       ELSE /\ pc' = "begun"
            /\ left' = left - 1 /\ begun' = begun + 1
            /\ last' = NoAttempt
    /\ UNCHANGED <<environment, admission, payload, stage, keys, repairs, before, ledger,
                   wire, caller, settlement>>

ChainEnds ==
    /\ pc = "chain" /\ left = 0
    /\ pc' = "failed"
    /\ UNCHANGED <<environment, admission, payload, stage, walk, ledger, attempt, wire,
                   caller, settlement>>

\* skipCandidate: refused by the breaker or by its own rows, not supported,
\* not built, or turned down by a rewriter.
SkipCandidate ==
    /\ pc = "begun"
    /\ pc' = "chain"
    /\ probes' = probes + 1
    /\ stage' \in {stage, "estimated", "prepared"}
    /\ UNCHANGED <<environment, admission, payload, walk, attempts, attempt, wire,
                   caller, settlement>>

\* The keys do not load because the caller is gone.
LoseCaller ==
    /\ pc = "begun" /\ gone
    /\ AbandonRequest
    /\ UNCHANGED <<environment, admission, payload, stage, walk, ledger, attempt, wire>>

\* Supports and PrepareUpstream accept the candidate, and keys can be walked.
WalkKeys ==
    /\ pc = "begun"
    /\ pc' = "keys"
    /\ keys' \in 1 .. MaxKeys
    /\ stage' = "prepared"
    /\ repairs' = 0 /\ before' = attempts
    /\ UNCHANGED <<environment, admission, payload, left, begun, ledger, attempt, wire,
                   caller, settlement>>

\* Mutant: a candidate none of whose keys was sent anything costs nothing.
NothingForUnsent(spent) == probes

\* What the probes come to when a candidate is left with that many attempts
\* spent: one more if it sent nothing.
ProbesLeaving(spent) == IF spent = before THEN probes + 1 ELSE probes

\* tryKeys gives the candidate up; the loop goes on.
LeaveCandidate(spent) ==
    /\ pc' = "chain"
    /\ attempts' = spent
    /\ probes' = ProbesLeaving(spent)

\* No key left, no attempt left, or the breaker has withdrawn the admission.
StopWalking ==
    /\ pc = "keys"
    /\ LeaveCandidate(attempts)
    /\ UNCHANGED <<environment, admission, payload, stage, walk, attempt, wire, caller,
                   settlement>>

EnterKey ==
    /\ pc = "keys" /\ keys > 0 /\ attempts < MaxUpstreamAttempts
    /\ pc' = "entered"
    /\ ClearVerdict
    /\ last' = NoAttempt
    /\ UNCHANGED <<environment, admission, payload, stage, walk, ledger, wire, caller,
                   settlement>>
-----------------------------------------------------------------------------
(* One attempt.                                                            *)

\* The deadline has passed, or the request cannot be built.
Unsent ==
    /\ pc = "entered"
    /\ LeaveCandidate(attempts)
    /\ UNCHANGED <<environment, admission, payload, stage, walk, attempt, wire, caller,
                   settlement>>

\* A request whose caller has already hung up fails before it is sent.
Dispatch ==
    /\ pc = "entered" /\ ~late
    /\ pc' = "sent"
    /\ booked' = <<>>
    /\ heard' = (IF gone THEN Cancelled ELSE Waiting)
    /\ culprit' = (IF gone THEN "caller" ELSE "nobody")
    /\ UNCHANGED <<environment, admission, payload, stage, walk, ledger, attempt, told,
                   judged, caller, settlement>>

\* The upstream answers or the transport fails; a caller who hangs up takes
\* the request on the wire along.
Hear ==
    /\ pc = "sent" /\ heard = Waiting
    /\ heard' \in Statuses \union {Failed} \union (IF gone THEN {Cancelled} ELSE {})
    /\ culprit' = IF heard' = Cancelled THEN "caller"
                  ELSE IF heard' = Failed \/ heard' = 429 \/ heard' >= 500
                  THEN "upstream" ELSE "nobody"
    /\ UNCHANGED <<pc, environment, admission, payload, stage, walk, ledger, attempt,
                   told, judged, booked, caller, settlement>>

\* executeCircuit.
Book(effect) ==
    booked' = IF effect = CircuitNone THEN booked ELSE Append(booked, effect)

TransportFails ==
    /\ pc = "sent" /\ heard \in {Failed, Cancelled}
    /\ \/ /\ gone
          /\ attempts' = attempts + 1
          /\ AbandonRequest
          /\ UNCHANGED <<probes, booked>>
       \/ /\ ~gone
          /\ LeaveCandidate(attempts + 1)
          /\ Book(For(UpstreamTransportFailure).circuit)
          /\ UNCHANGED <<caller, settlement>>
    /\ UNCHANGED <<environment, admission, payload, stage, walk, attempt, heard, told,
                   judged, culprit>>

KindForUpstreamStatus(status) ==
    CASE status = 401 -> UpstreamAuthRejected
      [] status = 429 -> UpstreamRateLimited
      [] status >= 500 -> UpstreamServerError
      [] OTHER -> UpstreamClientError

KernelUpstreamFact(status) ==
    [kind |-> KindForUpstreamStatus(status),
     reason |-> IF status = 401 \/ status >= 500 THEN 0 ELSE 1, detail |-> 0]

PayloadRepairable(status) == status \in {400, 413, 422}

\* What a failure rewriter's offer reports.
Offered == [kind |-> PayloadRepairedRetrySame, reason |-> 0, detail |-> 0]

FoldUpstreamDecision(observed, status, repaired) ==
    LET retry == /\ observed.loop = LoopRetrySameCandidate
                 /\ repaired /\ repairs = 0 /\ PayloadRepairable(status)
        baseline == observed.loop <= LoopRetrySameCandidate /\ ~retry
        folded == IF baseline
                  THEN Combine(observed, ResolveBatch(<<KernelUpstreamFact(status)>>))
                  ELSE observed IN
    [folded |-> folded, baseline |-> baseline,
     route |-> CASE retry -> "retry"
                 [] folded.loop >= LoopTerminate -> "terminal"
                 [] folded.loop = LoopRotateKey -> "rotate"
                 [] OTHER -> "next"]

\* A non-2xx answer: what the observers and a failure rewriter report of it
\* is folded, with the kernel's own reading where they leave it the routing.
Judge ==
    /\ pc = "sent" /\ heard \in Statuses \ {200}
    /\ pc' = "judged"
    /\ attempts' = attempts + 1
    /\ \E batch \in Batches, offer \in {"none", "repaired", "undone"} :
          LET offered == IF offer = "none" THEN <<>> ELSE <<Offered>>
              observed == Combine(ResolveBatch(batch), ResolveBatch(offered))
              d == FoldUpstreamDecision(observed, heard, offer = "repaired") IN
          /\ judged' = d
          /\ told' = Range(batch) \union Range(offered)
                     \union (IF d.baseline THEN {KernelUpstreamFact(heard)} ELSE {})
    /\ UNCHANGED <<environment, admission, payload, stage, walk, probes, attempt, heard,
                   booked, culprit, caller, settlement>>

\* The verdict is acted on: booked, held for the end of the chain, routed.
Shown == CallerFacing(judged.folded, heard, "").status
Quotable == judged.folded.face.sticky /\ Shown # 0

ActOn(route) ==
    /\ pc = "judged" /\ judged.route = route
    /\ Book(judged.folded.circuit)
    /\ told' = {} /\ judged' = Unjudged
    /\ UNCHANGED <<environment, admission, payload, stage, left, begun, before, heard,
                   culprit>>

HoldVerdict ==
    /\ verdict' = IF Quotable
                  THEN [status |-> Shown, from |-> judged.folded.face.statusFrom]
                  ELSE verdict
    /\ last' = [status |-> heard, quotable |-> Quotable]

RetrySame ==
    /\ ActOn("retry")
    /\ pc' = "keys"
    /\ repairs' = repairs + 1
    /\ UNCHANGED <<keys, ledger, attempt, caller, settlement>>

RotateKey ==
    /\ ActOn("rotate")
    /\ HoldVerdict
    /\ pc' = "keys"
    /\ keys' = keys - 1
    /\ UNCHANGED <<repairs, ledger, caller, settlement>>

FailOver ==
    /\ ActOn("next")
    /\ HoldVerdict
    /\ LeaveCandidate(attempts)
    /\ UNCHANGED <<keys, repairs, caller, settlement>>

Terminate ==
    /\ ActOn("terminal")
    /\ HoldVerdict
    /\ LET status == IF Shown = 0 THEN heard ELSE Shown IN
       /\ IF answers = 0 THEN Write("upstream", status) ELSE UNCHANGED caller
       /\ Settle(Rejected(status, "upstream", "upstream"), FALSE)
    /\ UNCHANGED <<keys, repairs, ledger>>

\* Mutant: whose fault the delivery was is not asked.
EffectWhoeverIsToBlame(d) ==
    IF d.complete THEN CircuitReset
    ELSE IF d.verdict # "settled" THEN CircuitPenalize
    ELSE IF SettlementIsRoutine(d) THEN CircuitReset ELSE CircuitPenalizeSoft

\* What a checked delivery books, in recordAndSettle.
DeliveryEffect(d) ==
    IF d.complete THEN CircuitReset
    ELSE IF d.fault # "upstream" THEN CircuitNone
    ELSE IF d.verdict # "settled" THEN CircuitPenalize
    ELSE IF SettlementIsRoutine(d) THEN CircuitReset ELSE CircuitPenalizeSoft

\* A 2xx answer: what the payload reports is held against what the caller
\* was served and checked; a settled delivery ends the request.
Deliver ==
    /\ pc = "sent" /\ heard = 200
    /\ \E end \in Ends(payload, gone) :
          LET d == Checked(ReconcileWithResponse(end.served, end.d))
              apology == d.failReason = "invalid_delivery" /\ end.served = 0 IN
          /\ culprit' = end.culprit
          /\ Book(DeliveryEffect(d))
          /\ answers' = answers + (IF end.served # 0 \/ apology THEN 1 ELSE 0)
          /\ reply' = IF apology THEN [by |-> "kernel", status |-> 500] ELSE reply
          /\ IF d.verdict = "settled"
             THEN /\ stage' = "finalized"
                  /\ attempts' = attempts + 1 /\ UNCHANGED probes
                  /\ \E usage \in BOOLEAN : Settle(d, usage)
             ELSE /\ stage' = "estimated"
                  /\ LeaveCandidate(attempts + 1)
                  /\ UNCHANGED settlement
    /\ UNCHANGED <<environment, admission, payload, walk, attempt, heard, told, judged>>

\* allCandidatesFailed.
AllCandidatesFailed ==
    /\ pc = "failed"
    /\ CASE answers > 0 ->
               /\ Settle(Truncated(502, 502, "upstream", "partial_then_exhausted"), FALSE)
               /\ UNCHANGED caller
         [] answers = 0 /\ verdict # NoVerdict ->
               RejectRequest("verdict", verdict.status, "upstream")
         [] answers = 0 /\ verdict = NoVerdict /\ Exhausted ->
               RejectRequest("budget", For(RequestBudgetExhausted).code, "upstream")
         [] OTHER -> RejectRequest("chain", 502, "upstream")
    /\ UNCHANGED <<environment, admission, payload, stage, walk, ledger, attempt, wire>>
-----------------------------------------------------------------------------
(* The environment.                                                        *)

Handling == pc \notin {"conclude", "concluding", "release", "record", "end"}

HangUp ==
    /\ Handling /\ ~gone
    /\ gone' = TRUE
    /\ UNCHANGED <<pc, late, panicked, admission, payload, stage, walk, ledger, attempt,
                   wire, caller, settlement>>

Expire ==
    /\ Handling /\ ~late
    /\ late' = TRUE
    /\ UNCHANGED <<pc, gone, panicked, admission, payload, stage, walk, ledger, attempt,
                   wire, caller, settlement>>

\* An admission, a rewriter, an observer or the payload panics; a payload may
\* have begun an answer.
Panic ==
    /\ \/ pc \in {"arrival", "checks", "priced", "begun"} /\ UNCHANGED answers
       \/ pc = "sent" /\ heard \in Statuses \ {200} /\ UNCHANGED answers
       \/ pc = "sent" /\ heard = 200 /\ answers' \in {answers, answers + 1}
    /\ panicked' = TRUE
    /\ pc' = "conclude"
    /\ UNCHANGED <<gone, late, admission, payload, stage, walk, ledger, attempt, wire,
                   reply, settlement>>

Next ==
    \/ CheckKey
    \/ AskOnArrival \/ AdmitOnArrival \/ AdmitSubCall \/ Check
    \/ AskWhenPriced \/ AdmitWhenPriced
    \/ EnterCandidate \/ ChainEnds \/ SkipCandidate \/ LoseCaller \/ WalkKeys
    \/ StopWalking \/ EnterKey \/ Unsent \/ Dispatch \/ Hear \/ TransportFails
    \/ Judge \/ RetrySame \/ RotateKey \/ FailOver \/ Terminate \/ Deliver
    \/ AllCandidatesFailed
    \/ FinalizeInHandler \/ FinalizeConcluding \/ Conclude \/ Release \/ Record
    \/ HangUp \/ Expire \/ Panic

Spec == Init /\ [][Next]_vars
-----------------------------------------------------------------------------
(* Properties.                                                             *)

TypeOK ==
    /\ pc \in {"key", "arrival", "checks", "priced", "chain", "begun", "keys", "entered",
               "sent", "judged", "failed", "settle", "concluding", "conclude",
               "release", "record", "end"}
    /\ gone \in BOOLEAN /\ late \in BOOLEAN /\ panicked \in BOOLEAN
    /\ asked \in Nat /\ tickets \in Seq(Nat) /\ released \in Seq(Nat)
    /\ stage \in {"admitted", "estimated", "prepared", "finalized"}
    /\ left \in Nat /\ begun \in Nat /\ keys \in Nat /\ repairs \in Nat
    /\ before \in Nat /\ attempts \in Nat /\ probes \in Nat
    /\ logWritten \in BOOLEAN /\ charged \in Nat /\ recorded \in Nat
    /\ answers \in Nat

\* Every candidate entered costs an attempt or a probe, so a request is done
\* after a bounded walk however the candidates fail it (relay.go: spendBudget
\* at its three places, exhaustedBudget, tryKeys's own gate).
WalkIsBounded ==
    /\ attempts <= MaxUpstreamAttempts
    /\ probes <= MaxCandidateProbes
    /\ begun < MaxUpstreamAttempts + MaxCandidateProbes

\* What the end of a chain quotes is what the last attempt entered on the
\* last candidate entered came to; with no candidate left, a verdict worth
\* quoting is quoted (relay.go: ClearVerdict, HoldVerdict, allCandidatesFailed).
AnswerIsOfTheLastAttempt ==
    /\ reply.by = "verdict" => last.quotable /\ reply.status = last.status
    /\ reply.by \in {"budget", "chain"} /\ left = 0 => ~last.quotable

\* The payloads that never ask whether a failed read is the caller's doing.
NeverAsking == {"translated", "translated_stream", "image_stream", "audio"}

Penalties == {CircuitPenalizeSoft, CircuitPenalize}

\* A dispatch books at most one result against the breaker: a penalty only for
\* what the upstream did, a reset only once the caller was served of its 2xx
\* answer (relay.go: executeCircuit and its callers).  A payload that never
\* asks may take the caller's doing for the provider's.
BlameIsFair ==
    /\ Len(booked) <= 1
    /\ Range(booked) \intersect Penalties # {} =>
          culprit = "upstream" \/ (culprit = "caller" /\ payload \in NeverAsking)
    /\ CircuitReset \in Range(booked) => heard = 200 /\ answers = 1

\* The caller's own faults book nothing against the provider (the comment of
\* relay.go's recordAndSettle; modality_tools.go on CallerGone).
CallersAreNotBlamed ==
    culprit = "caller" => Range(booked) \intersect Penalties = {}

\* A verdict is what its facts say, whichever order they were reported in
\* (decision.go: Combine, statusWins, ResolveBatch; relay.go: foldUpstreamDecision).
VerdictIsOfTheFacts ==
    pc = "judged" => judged.folded = VerdictOf(told)

\* An answer is the combination of an attempt's facts, and of the last attempt's.
AnswerIsOfItsFacts == AnswerIsOfTheLastAttempt /\ VerdictIsOfTheFacts

\* A caller who is there is answered, once, whatever ends the request: not
\* when the answer could not be begun or the handler panicked.
AnsweredOnce ==
    /\ answers <= 1
    /\ (pc = "end" /\ ~gone /\ ~panicked
        /\ outcome.reason \notin {"commit_failed", "delivery_contradicts_response"})
          => answers = 1

\* The exchange charges at most once and leaves one row, unless settling it
\* panicked; every ticket is back, newest first, before the row is written.
EndsOnce ==
    /\ AnsweredOnce
    /\ charged <= 1 /\ recorded <= 1
    /\ charged = 1 => outcome # NoOutcome \/ panicked
    /\ pc = "end" => logWritten /\ (recorded = 1 <=> outcome # NoOutcome)
    /\ pc = "end" /\ ~panicked => recorded = 1
    /\ pc \in {"record", "end"} => released = Reverse(tickets)

\* The kernel never asks the payload for a step out of its order
\* (modality_order.go: require, refuseAfterDelivered, refuseAfterFinalize).
PayloadInOrder ==
    /\ pc \in {"chain", "begun"} => stage \in {"estimated", "prepared"}
    /\ pc \in {"keys", "entered", "sent", "judged"} => stage = "prepared"
=============================================================================
