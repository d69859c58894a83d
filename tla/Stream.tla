------------------------------- MODULE Stream -------------------------------
(***************************************************************************)
(* The delivery of a streamed answer (internal/gateway:                    *)
(* modality_text_stream.go; internal/protocols: relay.go): a body read     *)
(* through IdleReadCloser is forwarded frame by frame, as it is or in the  *)
(* caller's protocol, and what became of it is settled.  The upstream may  *)
(* stop, break off or stay silent, the caller may leave or stop reading,   *)
(* and the attempt's budget may run out, at any point.                     *)
(*                                                                         *)
(* Frames are "pre" (nothing but framing), "text", "usage", "stop" (the    *)
(* end of the completion), "final" (the end and the usage), "tail" (a      *)
(* final whose last blank line never comes), "end" ([DONE]) and "fail" (an *)
(* error of the upstream's own).                                           *)
(***************************************************************************)
EXTENDS BodyReader, SequencesExt

CONSTANT Modes  \* "chat" and "decoded" pass the frames through, "translated" does not

ASSUME ModesAssumption == Modes \subseteq {"chat", "decoded", "translated"}

\* The frames each kind of upstream sends.
KindsOf(mode) ==
    CASE mode = "chat" -> {"pre", "text", "usage", "end"}
      [] mode = "decoded" -> {"pre", "text", "final", "tail"}
      [] mode = "translated" -> {"text", "usage", "stop", "final", "tail", "fail"}

D == INSTANCE Delivery

VARIABLES
    mode,       \* how the answer is forwarded
    at,         \* where the pump is
    lines,      \* frames read and not yet looked at
    scanErr,    \* how the reading ended
    looked,     \* the frames looked at
    preamble,   \* frames held back until there is data
    seen,       \* what the frames have said: {"done", "usage", "failed"}
    committed,  \* is the response open?
    sent,       \* frames flushed to the caller, 0 for a terminator of our own
    gone,       \* does the connection say that the caller has left?
    outcome     \* the delivery, with what was served and whose doing it was

pump == <<mode, at, lines, scanErr, looked, preamble, seen, committed, sent, outcome>>
vars == <<ctx, done, reader, pump, gone>>

NoOutcome == D!End(0, D!Undelivered(0, "unset", "none", ""), "nobody")

Init ==
    /\ InitBody
    /\ mode \in Modes /\ at = "scan"
    /\ lines = <<>> /\ scanErr = None /\ looked = <<>> /\ preamble = <<>>
    /\ seen = {} /\ committed = FALSE /\ sent = <<>>
    /\ gone = FALSE
    /\ outcome = NoOutcome

Passthrough == mode # "translated"
Terminator == 0
-----------------------------------------------------------------------------
(* The environment, while it matters.                                      *)

Delivering == at \notin {"closing", "ended"}

\* The caller leaves and the connection says so; one whose leaving shows only
\* in a failed write is a write that fails.
Leave ==
    /\ Delivering /\ ~gone
    /\ gone' = TRUE
    /\ ctx' = IF ctx = None THEN "canceled" ELSE ctx
    /\ UNCHANGED <<done, reader, pump>>

\* The attempt's budget, or the request's, runs out.
Expire ==
    /\ Delivering /\ ctx = None
    /\ ctx' = "deadline"
    /\ UNCHANGED <<done, reader, pump, gone>>

\* WatchClientClose, which only the translating relay arms.
WatchCloses ==
    /\ Delivering /\ gone /\ ~Passthrough /\ ~done
    /\ done' = TRUE
    /\ UNCHANGED <<ctx, reader, pump, gone>>
-----------------------------------------------------------------------------
(* The end of a delivery.                                                  *)

\* What the caller was served, and what is reported of it.
End(opened, d, culprit) ==
    /\ at' = "closing"
    /\ committed' = opened
    /\ outcome' = D!End(IF opened THEN 200 ELSE 0, d, culprit)

Complete == End(committed, D!Succeeded(200), "nobody")
Unwritten == End(TRUE, D!Truncated(200, 499, "client", "client_write"), "caller")

CallerLeft ==
    End(committed,
        IF committed THEN D!Truncated(200, 499, "client", "client_disconnected")
        ELSE D!CallerGone("client_disconnected"),
        "caller")

\* clientDisconnectOutcome.
Disconnected == IF "done" \in seen THEN Complete ELSE CallerLeft

\* Whose doing the end of the reading was.
ReadEndedBy == IF scanErr \in {"canceled", "closed"} THEN "caller" ELSE "upstream"

\* Mutant: a caller who left is not asked for.
MidStreamFailureUnasked(culprit) ==
    End(TRUE, D!Truncated(200, 200, "upstream", "stream_partial"), culprit)

\* midStreamFailure: the caller may have left, or only the reading failed.
MidStreamFailure(culprit) ==
    IF gone \/ scanErr = "canceled" THEN CallerLeft
    ELSE End(TRUE, D!Truncated(200, 200, "upstream", "stream_partial"), culprit)

\* settleStream on any other error.
Broken(reason, culprit) ==
    IF committed THEN MidStreamFailure(culprit)
    ELSE End(FALSE, D!HandedOn("upstream", reason), culprit)

\* IsBenignPostDoneReadErr.
Benign(err) == err \in {"canceled", "torn", "closed", "idle"}
-----------------------------------------------------------------------------
(* Reading.                                                                *)

\* scanner.Scan asks for more once it has no line left.
Scan ==
    /\ at = "scan" /\ lines = <<>> /\ scanErr = None
    /\ CallRead
    /\ at' = "read"
    /\ UNCHANGED <<ctx, done, goroutine, chunkCh, clock, leftover, lastErr, result,
                   mode, lines, scanErr, looked, preamble, seen, committed, sent, outcome,
                   gone>>

Scanned ==
    /\ at = "read" /\ rd = "out"
    /\ at' = "scan"
    /\ lines' = result.buf
    /\ scanErr' = result.err
    /\ Collect
    /\ UNCHANGED <<ctx, done, goroutine, chunkCh, clock, leftover, lastErr, mode, looked,
                   preamble, seen, committed, sent, outcome, gone>>

Read ==
    /\ ReaderSteps
    /\ UNCHANGED <<pump, gone>>

Tick ==
    /\ TimerFires
    /\ UNCHANGED <<pump, gone>>

Upstream ==
    /\ Delivering /\ Arrive
    /\ UNCHANGED <<pump, gone>>
-----------------------------------------------------------------------------
(* Frames.                                                                 *)

\* What a decoder makes of a frame when it comes.
Decoded(kind) ==
    CASE kind = "final" -> {"done", "usage"}
      [] kind = "stop" -> {"done"}
      [] kind = "usage" -> {"usage"}
      [] kind = "fail" -> {"failed"}
      [] OTHER -> {}

\* What writeStreamLine reads off a line of an OpenAI stream.
Noted(kind) ==
    CASE kind = "end" -> {"done"}
      [] kind = "usage" -> {"usage"}
      [] OTHER -> {}

\* What a frame says is settled when it is looked at: until then it is a
\* position.
Frame == lines[1]

Look(kind) ==
    /\ at = "scan" /\ lines # <<>>
    /\ kind \in KindsOf(mode)
    /\ lines' = Tail(lines)
    /\ looked' = Append(looked, kind)
    /\ UNCHANGED <<ctx, done, reader, mode, scanErr, gone>>

\* What a decoder still holds of a last frame without its blank line.
Unfinished == IF looked # <<>> /\ Last(looked) = "tail" THEN {"done", "usage"} ELSE {}

\* pumpSameProtocol and pumpSameProtocolDecoded: the caller is asked for
\* between frames; what comes before the first data is held back.
Forward(kind) ==
    /\ Passthrough /\ ~gone
    /\ Look(kind)
    /\ LET held == ~committed /\ kind = "pre"
           said == IF mode = "decoded" THEN Unfinished \union Decoded(kind) ELSE Noted(kind)
       IN
       /\ seen' = seen \union said
       /\ IF held
          THEN /\ preamble' = Append(preamble, Frame)
               /\ UNCHANGED <<at, committed, sent, outcome>>
          ELSE /\ preamble' = <<>>
               /\ \/ /\ committed' = TRUE
                     /\ sent' = sent \o Append(preamble, Frame)
                     /\ UNCHANGED <<at, outcome>>
                  \/ Unwritten /\ UNCHANGED sent

\* Gone between frames.
StopForwarding ==
    /\ Passthrough /\ gone
    /\ at = "scan" /\ lines # <<>>
    /\ Disconnected
    /\ UNCHANGED <<ctx, done, reader, mode, lines, scanErr, looked, preamble, seen,
                   sent, gone>>

\* emit: the first events open the response.
Emit(frames) ==
    \/ committed' = TRUE /\ sent' = sent \o frames /\ UNCHANGED <<at, outcome>>
    \/ Unwritten /\ UNCHANGED sent

\* Whether a frame comes to events in the caller's protocol is the encoder's
\* business, but for text, which does.
Events(kind) ==
    CASE kind = "text" -> {TRUE}
      [] kind \in {"usage", "stop", "final"} -> BOOLEAN
      [] OTHER -> {FALSE}

Translate(kind) ==
    /\ ~Passthrough
    /\ Look(kind)
    /\ seen' = seen \union Unfinished \union Decoded(kind)
    /\ \E event \in Events(kind) :
          IF event THEN Emit(<<Frame>>) ELSE UNCHANGED <<at, committed, sent, outcome>>
    /\ UNCHANGED preamble
-----------------------------------------------------------------------------
(* The end of the body.                                                    *)

ScanEnded == at = "scan" /\ lines = <<>> /\ scanErr # None

\* streamPump.end.
EndForwarding ==
    /\ ScanEnded /\ Passthrough
    /\ seen' = IF mode = "decoded" /\ scanErr = "eof" THEN seen \union Unfinished ELSE seen
    /\ LET terminated == "done" \in seen'
           finished == IF mode = "decoded" THEN terminated ELSE "usage" \in seen' IN
       CASE scanErr # "eof" /\ gone ->
                IF terminated THEN Complete ELSE CallerLeft
         [] scanErr # "eof" /\ ~gone ->
                IF terminated /\ finished /\ Benign(scanErr) THEN Complete
                ELSE Broken("read_body", ReadEndedBy)
         [] scanErr = "eof" /\ ~committed -> Broken("decode", "upstream")
         [] scanErr = "eof" /\ committed /\ ~terminated ->
                End(TRUE, D!Truncated(200, 200, "upstream",
                          IF finished THEN "stream_no_done" ELSE "stream_ended_unannounced"),
                    "upstream")
         [] OTHER -> Complete
    /\ UNCHANGED <<ctx, done, reader, mode, lines, scanErr, looked, preamble, sent,
                   gone>>

\* decoder.Finish is asked before the reading's error is looked at.
FinishDecoding ==
    /\ ScanEnded /\ ~Passthrough
    /\ seen' = seen \union Unfinished
    /\ \E event \in IF Unfinished = {} THEN {FALSE} ELSE BOOLEAN :
          IF event
          THEN \/ at' = "finished" /\ committed' = TRUE /\ sent' = Append(sent, Len(looked))
                  /\ UNCHANGED outcome
               \/ Unwritten /\ UNCHANGED sent
          ELSE at' = "finished" /\ UNCHANGED <<committed, sent, outcome>>
    /\ UNCHANGED <<ctx, done, reader, mode, lines, scanErr, looked, preamble,
                   gone>>

\* An error of the reading interrupts nothing once everything has come.
Forgiven == seen \intersect {"done", "usage"} = {"done", "usage"} /\ Benign(scanErr)

\* The terminator is the caller's only if the upstream announced the end.
EndTranslating ==
    /\ at = "finished"
    /\ CASE scanErr # "eof" /\ ~Forgiven ->
                Broken("read_body", ReadEndedBy) /\ UNCHANGED sent
         [] (scanErr = "eof" \/ Forgiven) /\ ("failed" \in seen \/ "done" \notin seen) ->
                Broken("decode", "upstream") /\ UNCHANGED sent
         [] OTHER ->
                \/ End(TRUE, D!Succeeded(200), "nobody") /\ sent' = Append(sent, Terminator)
                \/ Unwritten /\ UNCHANGED sent
    /\ UNCHANGED <<ctx, done, reader, mode, lines, scanErr, looked, preamble, seen,
                   gone>>

\* The deferred resp.Body.Close.
CloseBody ==
    /\ at = "closing"
    /\ at' = "ended"
    /\ done' = TRUE
    /\ UNCHANGED <<ctx, reader, mode, lines, scanErr, looked, preamble, seen,
                   committed, sent, outcome, gone>>

Pump ==
    \/ Scan \/ Scanned
    \/ \E kind \in KindsOf(mode) : Forward(kind) \/ Translate(kind)
    \/ StopForwarding \/ EndForwarding \/ FinishDecoding \/ EndTranslating \/ CloseBody

Next ==
    \/ Upstream \/ Leave \/ Expire \/ WatchCloses
    \/ Read \/ Tick \/ Pump

Spec == Init /\ [][Next]_vars

\* Goroutines run and timers fire; the upstream and the caller do as they like.
FairSpec == Spec /\ WF_vars(Read) /\ WF_vars(Tick) /\ WF_vars(Pump)
-----------------------------------------------------------------------------
(* Properties.                                                             *)

TypeOK ==
    /\ TypeOKBody
    /\ mode \in Modes
    /\ at \in {"scan", "read", "finished", "closing", "ended"}
    /\ scanErr \in {None, "eof", "torn", "reset", "closed", "idle", "first_byte",
                    "canceled", "deadline"}
    /\ seen \subseteq {"done", "usage", "failed"}
    /\ gone \in BOOLEAN /\ committed \in BOOLEAN

Texts(upTo) == {i \in 1 .. upTo : looked[i] = "text"}

\* What has reached the caller is the upstream's answer up to here: in its
\* order, nothing left out, nothing twice; and what is recorded as complete
\* ends where the upstream said it did (idle_reader.go: leftover and
\* handleChunk; modality_text_stream.go: admit, end; relay.go: SawDone).
CallerHoldsThePrefix ==
    /\ \A i, j \in DOMAIN sent : i < j /\ sent[j] # Terminator => sent[i] < sent[j]
    /\ outcome = NoOutcome /\ lines = <<>> => Texts(Len(looked)) \subseteq Range(sent)
    /\ outcome.d.complete =>
          \E last \in DOMAIN looked :
              /\ Texts(last) \subseteq Range(sent)
              /\ IF Passthrough THEN last \in Range(sent) ELSE Last(sent) = Terminator
              /\ IF mode = "chat" THEN looked[last] = "end"
                 ELSE looked[last] \in {"stop", "final", "tail"}

\* A Read that begins after the context has ended brings nothing more, so a
\* departed caller is not served on; and a timeout is only said of a body
\* nothing of which is waiting (idle_reader.go, Read: "ctx > chunk > timer").
ReadIsHonest ==
    [][rd # "out" /\ rd' = "out" =>
          /\ began # None => result'.buf = <<>>
          /\ lastErr = None /\ result'.err \in {"idle", "first_byte"} => chunkCh = <<>>]_vars

\* A delivery comes to one of the ends the exchange is built for: what it
\* makes of a broken stream, and whom it names, are Delivery's
\* (modality_text_stream.go: settleStream, midStreamFailure, end).
OutcomeIsPromised ==
    [][outcome' # outcome =>
          \E end \in D!Ends(IF Passthrough THEN "stream" ELSE "translated_stream", gone) :
              /\ end.served = outcome'.served
              /\ end.d = outcome'.d
              /\ outcome'.culprit = "caller" => end.culprit = "caller"]_vars

\* The caller is given what was read, and what was read is what there was.
DeliveryIsHonest == []CallerHoldsThePrefix /\ ReadIsHonest

\* However the upstream and the caller behave, the delivery ends and its
\* reading goroutine with it (idle_reader.go: readLoop, Close; the timer).
EveryStreamEnds == <>(at = "ended" /\ loop = "exited")
=============================================================================
