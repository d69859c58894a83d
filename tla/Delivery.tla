------------------------------ MODULE Delivery ------------------------------
(***************************************************************************)
(* What a payload says became of an upstream's 2xx answer (internal/fact), *)
(* and what the gateway makes of it: a delivery is held against what the   *)
(* caller's connection shows was written, then against itself, and only    *)
(* then labelled, booked and settled.  A status is its HTTP number, 0 for  *)
(* none; a reason is a word of a small set.                                *)
(***************************************************************************)
EXTENDS Integers

Verdicts == {"unset", "settled", "next_candidate"}
Faults == {"none", "client", "upstream", "gateway"}

Delivery(committed, client, verdict, billing, complete, fault, reason) ==
    [committed |-> committed, clientStatus |-> client, verdict |-> verdict,
     billingStatus |-> billing, complete |-> complete, fault |-> fault,
     failReason |-> reason]

Succeeded(status) == Delivery(TRUE, status, "settled", status, TRUE, "none", "")
Truncated(client, billing, at, reason) ==
    Delivery(TRUE, client, "settled", billing, FALSE, at, reason)
Rejected(status, at, reason) ==
    Delivery(TRUE, status, "settled", status, FALSE, at, reason)
Undelivered(billing, next, at, reason) ==
    Delivery(FALSE, 0, next, billing, FALSE, at, reason)
HandedOn(at, reason) ==
    Delivery(FALSE, 0, "next_candidate", 0, FALSE, at, reason)
CallerGone(reason) == Undelivered(499, "settled", "client", reason)

\* Validate: a delivery no request could have had is refused.
Valid(d) ==
    /\ d.verdict # "unset"
    /\ d.verdict = "settled" => d.billingStatus # 0
    /\ d.committed => d.verdict = "settled" /\ d.clientStatus # 0
    /\ ~d.committed => d.clientStatus = 0
    /\ d.complete => d.committed /\ d.billingStatus < 400 /\ d.fault = "none"
    /\ d.verdict # "settled" => d.billingStatus = 0

\* Mutant: the payload's word is taken for what the caller received.
TakenAtItsWord(served, d) == d

\* What the caller was served wins over what the payload says: served is the
\* status on the caller's connection, 0 while nothing has been written.
ReconcileWithResponse(served, d) ==
    CASE served # 0 /\ (~d.committed \/ d.clientStatus # served) ->
            Truncated(served, 500, "gateway", "delivery_contradicts_response")
      [] served = 0 /\ d.committed ->
            Undelivered(500, "settled", "gateway", "delivery_contradicts_response")
      [] OTHER -> d

Checked(d) ==
    IF Valid(d) THEN d
    ELSE Undelivered(500, "settled", "gateway", "invalid_delivery")

SettlementIsRoutine(d) ==
    \/ d.fault = "client"
    \/ /\ d.billingStatus < 500
       /\ d.committed /\ ~d.complete /\ d.clientStatus < 400
             => d.failReason = "stream_no_done"
-----------------------------------------------------------------------------
(* What the payloads answer.  An end is what the caller was served, the    *)
(* delivery reported for it and whose doing it was.                        *)

End(served, d, culprit) == [served |-> served, d |-> d, culprit |-> culprit]

Whole == End(200, Succeeded(200), "nobody")
Unwritable == End(200, Truncated(200, 499, "client", "client_write"), "caller")
Uncommitted == End(0, Undelivered(500, "settled", "gateway", "commit_failed"), "gateway")
Refused == End(422, Rejected(422, "client", "business_error"), "caller")
Undecodable == End(0, HandedOn("upstream", "decode"), "upstream")
NotRewritten == End(0, HandedOn("gateway", "response_rewrite_failed"), "gateway")
Unannounced(reason) == End(200, Truncated(200, 200, "upstream", reason), "upstream")
LeftUnserved == End(0, CallerGone("client_disconnected"), "caller")
LeftMidStream == End(200, Truncated(200, 499, "client", "client_disconnected"), "caller")

\* A read of the upstream's body fails: with the caller gone that is the
\* caller's doing, whatever is reported.
ReadFailedBy(gone) == IF gone THEN "caller" ELSE "upstream"

\* Before the caller was served anything, in the payloads that ask whether
\* the caller is gone and in those that do not.
UnreadAsking(gone) ==
    IF gone THEN LeftUnserved ELSE End(0, HandedOn("upstream", "read_body"), "upstream")
Unread(gone) == End(0, HandedOn("upstream", "read_body"), ReadFailedBy(gone))
CutAsking(gone) ==
    IF gone THEN LeftMidStream
    ELSE End(200, Truncated(200, 200, "upstream", "stream_partial"), "upstream")
Cut(billing, gone) ==
    End(200, Truncated(200, billing, "upstream", "cut_short"), ReadFailedBy(gone))
NoAudio(culprit) ==
    End(502, Rejected(502, "upstream", "upstream_200_without_audio"), culprit)
\* A failure after Kling has taken the task: a 502 is written and the
\* delivery denies it.
KlingFails == End(502, Undelivered(502, "settled", "upstream", "kling"), "upstream")

\* What a payload that breaks its contract may report.
CarelessEnd(served, d) ==
    End(served, d,
        IF d.committed = (served # 0) /\ Valid(d) THEN d.fault ELSE "gateway")
Careless == {CarelessEnd(served, d) : served \in {0, 200}, d \in
    {Succeeded(200), HandedOn("upstream", "careless"),
     Delivery(FALSE, 0, "next_candidate", 502, FALSE, "upstream", "careless"),
     Delivery(TRUE, 200, "next_candidate", 0, FALSE, "upstream", "careless")}}

PayloadKinds == {"passthrough", "translated", "stream", "translated_stream", "image",
                 "kling", "image_stream", "audio", "careless"}

\* The ends of each kind of payload, with the caller gone or not.
Ends(payload, gone) ==
    CASE payload = "passthrough" ->
            {Whole, Unwritable, Uncommitted, Undecodable, NotRewritten, UnreadAsking(gone)}
      [] payload = "translated" -> {Whole, Unwritable, Undecodable, Unread(gone)}
      [] payload = "stream" ->
            {Whole, Unwritable, Undecodable, UnreadAsking(gone), CutAsking(gone),
             Unannounced("stream_no_done"), Unannounced("stream_ended_unannounced")}
      [] payload = "translated_stream" ->
            {Whole, Unwritable, Undecodable, Unread(gone), CutAsking(gone)}
      [] payload = "image" ->
            {Whole, Unwritable, Uncommitted, Undecodable, Refused, UnreadAsking(gone)}
      [] payload = "kling" ->
            {Whole, Unwritable, Uncommitted, Refused, KlingFails, UnreadAsking(gone)}
      [] payload = "image_stream" ->
            {Whole, Unwritable, Uncommitted, Undecodable, Unread(gone), Cut(200, gone)}
            \union (IF gone THEN {LeftUnserved, LeftMidStream} ELSE {})
      [] payload = "audio" ->
            {Whole, Unwritable, Uncommitted, NoAudio("upstream"),
             NoAudio(ReadFailedBy(gone)), Cut(502, gone)}
      [] payload = "careless" -> Careless
=============================================================================
