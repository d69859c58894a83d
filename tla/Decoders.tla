------------------------------ MODULE Decoders ------------------------------
(***************************************************************************)
(* The upstream side of the four codecs: each turns the frames of its      *)
(* protocol into deltas of one intermediate form (protocols/stream.go),    *)
(* and a whole body into one intermediate response.                        *)
(*                                                                         *)
(* Texts and arguments are sequences of pieces; ids and names of a call    *)
(* are one value, the call.  Frames are parsed: lines, separators, json.   *)
(* An empty arguments object and no arguments are the same, <<>>.          *)
(***************************************************************************)
EXTENDS Usage, Sequences, SequencesExt

Protocols == {"chat", "claude", "gemini", "responses"}

(* Deltas.                                                                 *)
Start == [d |-> "start"]
Text(body) == [d |-> "text", body |-> body]
Thinking(body) == [d |-> "think", body |-> body]
ToolCallStart(index, call) == [d |-> "call", index |-> index, call |-> call]
ToolCallArgs(index, body) == [d |-> "args", index |-> index, body |-> body]
UsageOf(u) == [d |-> "usage", usage |-> u]
Done(reason) == [d |-> "done", reason |-> reason]
Unknown == [d |-> "unknown"]

When(condition, deltas) == IF condition THEN deltas ELSE <<>>

\* One decoder state serves the four; each uses its fields.
NewDecoder ==
    [started |-> FALSE, done |-> FALSE, completed |-> FALSE, failed |-> FALSE,
     callOf |-> <<>>, usage |-> NoUsage, told |-> FALSE]

IRStopReasonIsAbnormal(reason) == reason \in {"length", "content_filter"}

Decoded(state, deltas) == [state |-> state, deltas |-> deltas]
-----------------------------------------------------------------------------
(* Chat completions.                                                       *)

chatReason(reason) ==
    CASE reason = "function_call" -> "tool_calls"
      [] reason \in {"max_tokens", "model_length", "max_output_tokens"} -> "length"
      [] reason \in {"safety", "recitation"} -> "content_filter"
      [] OTHER -> reason

chatToolCall(tc) ==
    When(tc.call # 0, <<ToolCallStart(tc.index, tc.call)>>)
        \o When(tc.args # <<>>, <<ToolCallArgs(tc.index, tc.args)>>)

\* Bug: [DONE] says stop whatever was said.
chatDoneAgain(d) == <<Done("stop")>>

\* One choice, one finish: [DONE] only stands in for a finish that never came.
chatDone(d) == When(~d.done, <<Done("stop")>>)

decodeChat(d, f) ==
    IF f.f = "[DONE]" THEN Decoded([d EXCEPT !.done = TRUE], chatDone(d))
    ELSE Decoded(
        [d EXCEPT !.started = TRUE, !.done = @ \/ f.finish # ""],
        When(~d.started, <<Start>>)
            \o When(f.think # <<>>, <<Thinking(f.think)>>)
            \o When(f.text # <<>>, <<Text(f.text)>>)
            \o FlattenSeq([i \in DOMAIN f.calls |-> chatToolCall(f.calls[i])])
            \o When(f.finish # "" /\ ~d.done, <<Done(chatReason(f.finish))>>)
            \o When(f.usage # Null, <<UsageOf(Judged(OpenAIUsage(f.usage)))>>))
-----------------------------------------------------------------------------
(* Claude messages.                                                        *)

claudeMapStopReason(reason) ==
    CASE reason \in {"end_turn", "stop_sequence", "pause_turn", ""} -> "stop"
      [] reason = "tool_use" -> "tool_calls"
      [] reason \in {"max_tokens", "model_context_window_exceeded"} -> "length"
      [] reason = "refusal" -> "content_filter"
      [] OTHER -> reason

\* message_start states the input.
claudeStartUsage(w) ==
    [NoUsage EXCEPT !.prompt = w.input, !.write = w.write, !.read = w.read,
                    !.total = Plus(Plus(w.input, w.write), w.read)]

\* message_delta states the output, and the input only to an upstream that had not.
claudeDeltaUsage(u, w) ==
    LET v == [u EXCEPT !.completion = w.output,
                       !.prompt = IF @ = 0 THEN Stated(w.input, 0) ELSE @,
                       !.write = Stated(w.write, @),
                       !.read = Stated(w.read, @)]
        newTotal == Plus(Plus(v.prompt, w.output), Plus(v.write, v.read))
    IN [v EXCEPT !.total = IF @ = 0 THEN newTotal ELSE Larger(@, newTotal)]

claudeCounted(u) == \E n \in {u.prompt, u.completion, u.write, u.read} : n > 0

decodeClaude(d, f) ==
    CASE f.f = "message_start" ->
           Decoded([d EXCEPT !.started = TRUE, !.usage = claudeStartUsage(f.usage)], <<Start>>)
      [] f.f = "block_start" /\ f.kind = "call" ->
           Decoded([d EXCEPT !.callOf = Append(@, f.index)],
                   <<ToolCallStart(Len(d.callOf), f.call)>>)
      [] f.f = "block_delta" /\ f.kind = "text" -> Decoded(d, <<Text(f.body)>>)
      [] f.f = "block_delta" /\ f.kind = "think" -> Decoded(d, <<Thinking(f.body)>>)
      [] f.f = "block_delta" /\ f.kind = "args" ->
           Decoded(d, << ToolCallArgs((CHOOSE i \in DOMAIN d.callOf : d.callOf[i] = f.index) - 1,
                                      f.body) >>)
      [] f.f = "message_delta" ->
           LET u == claudeDeltaUsage(d.usage, f.usage) IN
           Decoded([d EXCEPT !.done = @ \/ f.reason # "", !.usage = u],
                   When(f.reason # "", <<Done(claudeMapStopReason(f.reason))>>)
                       \o <<UsageOf(u)>>)
      [] f.f = "message_stop" -> Decoded([d EXCEPT !.completed = TRUE], <<>>)
      [] f.f = "error" -> Decoded([d EXCEPT !.failed = TRUE], <<>>)
      [] OTHER -> Decoded(d, <<>>)

\* A stream without message_stop says nothing more; an error only its usage.
finishClaude(d) ==
    LET usage == When(claudeCounted(d.usage), <<UsageOf(d.usage)>>) IN
    IF d.failed THEN usage
    ELSE When(d.completed /\ d.started, When(~d.done, <<Done("stop")>>) \o usage)
-----------------------------------------------------------------------------
(* Gemini.                                                                 *)

mapFromGeminiFinishReason(reason) ==
    CASE reason = "STOP" -> "stop"
      [] reason = "MAX_TOKENS" -> "length"
      [] reason \in {"SAFETY", "RECITATION", "BLOCKLIST"} -> "content_filter"
      [] OTHER -> reason

\* Calls arrive whole and are numbered in the order they come.
geminiPart(d, part) ==
    CASE part.kind = "text" -> Decoded(d, When(part.body # <<>>, <<Text(part.body)>>))
      [] part.kind = "think" -> Decoded(d, <<Thinking(part.body)>>)
      [] part.kind = "call" ->
           Decoded([d EXCEPT !.callOf = Append(@, part.call)],
                   <<ToolCallStart(Len(d.callOf), part.call)>>
                       \o When(part.args # <<>>, <<ToolCallArgs(Len(d.callOf), part.args)>>))

decodeGemini(d, f) ==
    LET then(acc, part) ==
            LET step == geminiPart(acc.state, part) IN
            Decoded(step.state, acc.deltas \o step.deltas)
        parts == FoldLeft(then, Decoded([d EXCEPT !.started = TRUE],
                                        When(~d.started, <<Start>>)), f.parts)
    IN Decoded(parts.state,
               parts.deltas
                   \o When(f.finish # "", <<Done(mapFromGeminiFinishReason(f.finish))>>)
                   \o When(f.usage # Null, <<UsageOf(Judged(GeminiUsage(f.usage)))>>))
-----------------------------------------------------------------------------
(* Responses.                                                              *)

normalizeResponsesIncompleteReason(reason) ==
    IF reason = "content_filter" THEN "content_filter" ELSE "length"

StatusIsNonServed(status) == status \in {"failed", "cancelled"}

\* collectUsage and appendUsageDelta: the running record, unless it has been
\* told and did not change.
withUsage(d, f) ==
    LET u == Merge(d.usage, Judged(OpenAIUsage(f.usage)))
        judged == [u EXCEPT !.invalid = IsIncoherentMidStream(u)]
    IN IF f.usage = Null THEN Decoded(d, <<>>)
       ELSE IF d.told /\ u = d.usage THEN Decoded(d, <<>>)
       ELSE Decoded([d EXCEPT !.usage = judged, !.told = TRUE], <<UsageOf(judged)>>)

\* appendTerminal and appendDone: the first verdict stands.
withTerminal(step, f) ==
    LET d == step.state
        reason == IF f.status = "incomplete"
                  THEN normalizeResponsesIncompleteReason(f.reason) ELSE "stop"
    IN IF d.done THEN step
       ELSE IF StatusIsNonServed(f.status) THEN [step EXCEPT !.state.failed = TRUE]
       ELSE Decoded([d EXCEPT !.done = TRUE], Append(step.deltas, Done(reason)))

decodeResponses(d, f) ==
    CASE d.failed -> Decoded(d, <<>>)
      [] ~d.failed /\ f.f = "created" ->
           Decoded([d EXCEPT !.started = TRUE], When(~d.started, <<Start>>))
      [] ~d.failed /\ f.f = "item_added" /\ f.kind = "call" ->
           Decoded(d, <<ToolCallStart(f.index, f.call)>>)
      [] ~d.failed /\ f.f = "item_delta" ->
           Decoded(d, << CASE f.kind = "text" -> Text(f.body)
                           [] f.kind = "think" -> Thinking(f.body)
                           [] f.kind = "args" -> ToolCallArgs(f.index, f.body) >>)
      [] ~d.failed /\ f.f = "ended" -> withTerminal(withUsage(d, f), f)
      [] ~d.failed /\ f.f = "error" ->
           Decoded([d EXCEPT !.failed = ~d.done], <<Unknown>>)
      [] OTHER -> Decoded(d, <<>>)
-----------------------------------------------------------------------------
(* By protocol.                                                            *)

DecodeChunk(protocol, d, f) ==
    CASE protocol = "chat" -> decodeChat(d, f)
      [] protocol = "claude" -> decodeClaude(d, f)
      [] protocol = "gemini" -> decodeGemini(d, f)
      [] protocol = "responses" -> decodeResponses(d, f)

Finish(protocol, d) == When(protocol = "claude", finishClaude(d))

(* Whole bodies: each channel's text, the calls, the stop and the usage.    *)

Answer(body, reason, usage) ==
    [think |-> body.think, text |-> body.text, calls |-> body.calls, reason |-> reason,
     usage |-> Judged(usage), failed |-> FALSE]

chatResponse(body) == Answer(body, chatReason(body.stop), OpenAIUsage(body.usage))
claudeResponse(body) == Answer(body, claudeMapStopReason(body.stop), ClaudeUsage(body.usage))
geminiResponse(body) ==
    Answer(body, mapFromGeminiFinishReason(body.stop), GeminiUsage(body.usage))

\* A body that failed is refused, and keeps its usage.
responsesResponse(body) ==
    LET reason == IF body.status = "incomplete"
                  THEN normalizeResponsesIncompleteReason(body.stop)
                  ELSE IF body.calls # <<>> THEN "tool_calls" ELSE "stop"
    IN [Answer(body, reason, OpenAIUsage(body.usage))
        EXCEPT !.failed = StatusIsNonServed(body.status)]

DecodeResponse(protocol, body) ==
    CASE protocol = "chat" -> chatResponse(body)
      [] protocol = "claude" -> claudeResponse(body)
      [] protocol = "gemini" -> geminiResponse(body)
      [] protocol = "responses" -> responsesResponse(body)
=============================================================================
