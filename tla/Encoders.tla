------------------------------ MODULE Encoders ------------------------------
(***************************************************************************)
(* The caller's side of the four codecs: each turns deltas into the frames *)
(* of its protocol, and an intermediate response into one whole body.      *)
(*                                                                         *)
(* A state carries the frames of the current call in "out".  Item ids of   *)
(* Responses are numbers in the order they are drawn.                      *)
(***************************************************************************)
EXTENDS Decoders

\* One encoder state serves the four; each uses its fields.
NewEncoder(includeUsage) ==
    [out |-> <<>>, usage |-> NoUsage, includeUsage |-> includeUsage,
     reason |-> "", hasStop |-> FALSE, ended |-> FALSE, hasTools |-> FALSE,
     block |-> "", blockIndex |-> 0,
     tools |-> <<>>,
     created |-> FALSE, items |-> 0, outputIndex |-> 0,
     message |-> 0, text |-> <<>>, reasoning |-> 0]

Emit(e, frames) == [e EXCEPT !.out = @ \o frames]

Merged(e, delta) == [e EXCEPT !.usage = Merge(@, delta.usage)]

\* The tool an index stands for, the last one opened under it; 0 for none.
ToolAt(e, index) ==
    LET known == {t \in DOMAIN e.tools : e.tools[t].index = index} IN
    IF known = {} THEN 0 ELSE CHOOSE t \in known : \A s \in known : s <= t

\* A call whose arguments have all arrived parses; half of them do not.
Complete(args) == args # <<>> /\ args[Len(args)].last

\* The stop a caller is told when it is told of calls in words of its own.
WithTools(reason, hasTools) ==
    IF hasTools /\ ~IRStopReasonIsAbnormal(reason) THEN "tool_calls" ELSE reason
-----------------------------------------------------------------------------
(* Chat completions.                                                       *)

NoChunk == [f |-> "chunk", think |-> <<>>, text |-> <<>>, calls |-> <<>>, finish |-> "",
            usage |-> Null]

\* mapFromOpenAIFinishReason
chatFinish(reason, hasTools) ==
    IF WithTools(reason, hasTools) = "" THEN "stop" ELSE WithTools(reason, hasTools)

encodeChat(e, delta) ==
    CASE delta.d = "text" -> Emit(e, <<[NoChunk EXCEPT !.text = delta.body]>>)
      [] delta.d = "think" -> Emit(e, <<[NoChunk EXCEPT !.think = delta.body]>>)
      [] delta.d = "call" ->
           Emit([e EXCEPT !.hasTools = TRUE],
                << [NoChunk EXCEPT !.calls =
                       <<[index |-> delta.index, call |-> delta.call, args |-> <<>>]>>] >>)
      [] delta.d = "args" ->
           Emit(e, << [NoChunk EXCEPT !.calls =
                          <<[index |-> delta.index, call |-> 0, args |-> delta.body]>>] >>)
      [] delta.d = "usage" -> Merged(e, delta)
      [] delta.d = "done" ->
           Emit([e EXCEPT !.hasStop = TRUE],
                <<[NoChunk EXCEPT !.finish = chatFinish(delta.reason, e.hasTools)]>>)
      [] delta.d = "unknown" -> Emit(e, <<[f |-> "foreign"]>>)
      [] OTHER -> e

\* The usage chunk is the caller's to ask for; its counts are kept either way.
endChat(e) ==
    IF ~e.hasStop THEN e
    ELSE Emit(e, When(e.includeUsage /\ HasAnyUsage(e.usage),
                      <<[NoChunk EXCEPT !.usage = openAIWireUsage(e.usage)]>>)
                     \o <<[f |-> "[DONE]"]>>)
-----------------------------------------------------------------------------
(* Claude messages.                                                        *)

irToClaudeStopReason(reason) ==
    CASE reason = "stop" -> "end_turn"
      [] reason = "tool_calls" -> "tool_use"
      [] reason = "length" -> "max_tokens"
      [] reason = "content_filter" -> "refusal"
      [] OTHER -> reason

\* Bug: an index is used again.
closeBlockInPlace(e) ==
    IF e.block = "" THEN e
    ELSE Emit([e EXCEPT !.block = ""], <<[f |-> "block_stop", index |-> e.blockIndex]>>)

closeBlock(e) ==
    IF e.block = "" THEN e
    ELSE Emit([e EXCEPT !.block = "", !.blockIndex = @ + 1],
              <<[f |-> "block_stop", index |-> e.blockIndex]>>)

openBlock(e, kind, call) ==
    Emit([e EXCEPT !.block = kind],
         <<[f |-> "block_start", index |-> e.blockIndex, kind |-> kind, call |-> call]>>)

blockDelta(e, kind, body) ==
    Emit(e, <<[f |-> "block_delta", index |-> e.blockIndex, kind |-> kind, body |-> body]>>)

inBlock(e, kind) == IF e.block = kind THEN e ELSE openBlock(closeBlock(e), kind, 0)

encodeClaude(e, delta) ==
    CASE delta.d = "start" -> Emit(e, <<[f |-> "message_start", usage |-> Counts(0, 0, 0, NoUsage)]>>)
      [] delta.d \in {"text", "think"} ->
           blockDelta(inBlock(e, delta.d), delta.d, delta.body)
      [] delta.d = "call" ->
           openBlock(closeBlock([e EXCEPT !.hasTools = TRUE]), "call", delta.call)
      [] delta.d = "args" -> blockDelta(e, "args", delta.body)
      [] delta.d = "usage" -> Merged(e, delta)
      [] delta.d = "done" ->
           [closeBlock(e) EXCEPT !.reason = WithTools(delta.reason, e.hasTools)]
      [] delta.d = "unknown" -> Emit(e, <<[f |-> "foreign"]>>)

\* The stop waits until here, for the usage that follows it.
endClaude(e) ==
    IF e.ended \/ e.reason = "" THEN e
    ELSE Emit([e EXCEPT !.ended = TRUE],
              << [f |-> "message_delta", reason |-> irToClaudeStopReason(e.reason),
                  usage |-> claudeUsageMap(e.usage)],
                 [f |-> "message_stop"] >>)
-----------------------------------------------------------------------------
(* Gemini.                                                                 *)

mapToGeminiFinishReason(reason, hasTools) ==
    CASE reason = "content_filter" -> "SAFETY"
      [] reason = "length" -> "MAX_TOKENS"
      [] ~hasTools /\ reason = "max_tokens" -> "MAX_TOKENS"
      [] ~hasTools /\ reason = "error" -> "OTHER"
      [] OTHER -> "STOP"

NoCandidate == [f |-> "chunk", parts |-> <<>>, finish |-> "", usage |-> Null]

onePart(kind, body) == [NoCandidate EXCEPT !.parts = <<[kind |-> kind, body |-> body]>>]

\* A call is emitted whole, when its arguments parse: not before, and not at all
\* if none come.
encodeGemini(e, delta) ==
    CASE delta.d \in {"text", "think"} -> Emit(e, <<onePart(delta.d, delta.body)>>)
      [] delta.d = "call" ->
           [e EXCEPT !.tools = Append(@, [index |-> delta.index, call |-> delta.call,
                                          args |-> <<>>])]
      [] delta.d = "args" ->
           LET t == ToolAt(e, delta.index)
               args == e.tools[t].args \o delta.body
           IN IF t = 0 THEN e
              ELSE Emit([e EXCEPT !.tools[t].args = args],
                        When(Complete(args),
                             << [NoCandidate EXCEPT !.parts =
                                    <<[kind |-> "call", call |-> e.tools[t].call,
                                       args |-> args]>>] >>))
      [] delta.d = "usage" -> Merged(e, delta)
      [] delta.d = "done" -> [e EXCEPT !.reason = delta.reason, !.hasStop = TRUE]
      [] delta.d = "unknown" -> Emit(e, <<[f |-> "foreign"]>>)
      [] OTHER -> e

endGemini(e) ==
    IF ~e.hasStop THEN e
    ELSE Emit(e, << [NoCandidate EXCEPT
                        !.finish = mapToGeminiFinishReason(e.reason, e.tools # <<>>),
                        !.usage = buildGeminiUsage(e.usage)] >>)
-----------------------------------------------------------------------------
(* Responses.                                                              *)

ensureCreated(e) ==
    IF e.created THEN e
    ELSE Emit([e EXCEPT !.created = TRUE], <<[f |-> "created"], [f |-> "in_progress"]>>)

itemAdded(e, item, kind, call) ==
    Emit(e, << [f |-> "item_added", item |-> item, index |-> e.outputIndex, kind |-> kind,
                call |-> call] >>)

itemDelta(e, item, index, kind, body) ==
    Emit(e, << [f |-> "item_delta", item |-> item, index |-> index, kind |-> kind,
                body |-> body] >>)

itemDone(e, item, index, body, status) ==
    Emit(e, << [f |-> "item_done", item |-> item, index |-> index, body |-> body,
                status |-> status] >>)

itemStatus(reason) == IF IRStopReasonIsAbnormal(reason) THEN "incomplete" ELSE "completed"

ensureMessage(e) ==
    LET id == e.items + 1 IN
    IF e.message # 0 THEN e
    ELSE itemAdded([e EXCEPT !.items = id, !.message = id, !.text = <<>>], id, "text", 0)

closeMessage(e, reason) ==
    IF e.message = 0 THEN e
    ELSE itemDone([e EXCEPT !.message = 0, !.text = <<>>, !.outputIndex = @ + 1],
                  e.message, e.outputIndex, e.text, itemStatus(reason))

ensureReasoning(e) ==
    LET id == e.items + 1 IN
    IF e.reasoning # 0 THEN e
    ELSE itemAdded([e EXCEPT !.items = id, !.reasoning = id], id, "think", 0)

\* The item is closed without a text of its own.
closeReasoning(e) ==
    IF e.reasoning = 0 THEN e
    ELSE itemDone([e EXCEPT !.reasoning = 0, !.outputIndex = @ + 1],
                  e.reasoning, e.outputIndex, <<>>, "")

openTool(e, index, call) ==
    LET id == e.items + 1
        kept == FlattenSeq([t \in DOMAIN e.tools |->
                               When(e.tools[t].index # index, <<e.tools[t]>>)])
    IN [ itemAdded(e, id, "call", call) EXCEPT
           !.items = id, !.outputIndex = @ + 1,
           !.tools = Append(kept, [index |-> index, item |-> id, at |-> e.outputIndex,
                                   args |-> <<>>]) ]

\* In the order of their output index, which is the order they were opened in.
closeAllTools(e, reason) ==
    [ FoldLeft(LAMBDA acc, t : itemDone(acc, t.item, t.at, t.args, itemStatus(reason)),
               e, e.tools) EXCEPT !.tools = <<>> ]

encodeResponses(e, delta) ==
    CASE delta.d = "text" ->
           LET m == ensureMessage(ensureCreated(e)) IN
           itemDelta([m EXCEPT !.text = @ \o delta.body], m.message, m.outputIndex, "text",
                     delta.body)
      [] delta.d = "think" ->
           LET r == ensureReasoning(closeMessage(ensureCreated(e), "")) IN
           itemDelta(r, r.reasoning, r.outputIndex, "think", delta.body)
      [] delta.d = "call" ->
           openTool(closeMessage(closeReasoning(ensureCreated(e)), ""), delta.index, delta.call)
      [] delta.d = "args" ->
           LET t == ToolAt(e, delta.index) IN
           IF t = 0 THEN e
           ELSE itemDelta([e EXCEPT !.tools[t].args = @ \o delta.body], e.tools[t].item,
                          e.tools[t].at, "args", delta.body)
      [] delta.d = "usage" -> Merged(e, delta)
      [] delta.d = "done" ->
           [ closeMessage(closeReasoning(closeAllTools(e, delta.reason)), delta.reason)
             EXCEPT !.reason = delta.reason, !.hasStop = TRUE ]
      [] delta.d = "unknown" -> Emit(e, <<[f |-> "foreign"]>>)
      [] OTHER -> e

incompleteReason(reason) == IF reason = "length" THEN "max_output_tokens" ELSE "content_filter"

\* makeCompleted: the terminal event, and the top level of a whole body.
ended(reason, u) ==
    LET abnormal == IRStopReasonIsAbnormal(reason) IN
    [f |-> "ended", status |-> IF abnormal THEN "incomplete" ELSE "completed",
     reason |-> IF abnormal THEN incompleteReason(reason) ELSE "",
     usage |-> openAIWireUsage(u)]

endResponses(e) ==
    IF e.ended \/ ~e.hasStop THEN e
    ELSE Emit([e EXCEPT !.ended = TRUE], <<ended(e.reason, e.usage)>>)
-----------------------------------------------------------------------------
(* By protocol.                                                            *)

EncodeDeltas(protocol, e, deltas) ==
    LET encode(acc, delta) ==
            CASE protocol = "chat" -> encodeChat(acc, delta)
              [] protocol = "claude" -> encodeClaude(acc, delta)
              [] protocol = "gemini" -> encodeGemini(acc, delta)
              [] protocol = "responses" -> encodeResponses(acc, delta)
    IN FoldLeft(encode, [e EXCEPT !.out = <<>>], deltas)

EncodeDone(protocol, e) ==
    LET clean == [e EXCEPT !.out = <<>>] IN
    CASE protocol = "chat" -> endChat(clean)
      [] protocol = "claude" -> endClaude(clean)
      [] protocol = "gemini" -> endGemini(clean)
      [] protocol = "responses" -> endResponses(clean)

(* Whole bodies.                                                           *)

bodyOf(r, calls, stop, status, usage) ==
    [think |-> r.think, text |-> r.text, calls |-> calls, stop |-> stop, status |-> status,
     usage |-> usage]

\* Arguments carried as values: what does not parse is dropped.
Parsed(calls) ==
    [i \in DOMAIN calls |-> IF Complete(calls[i].args) THEN calls[i]
                            ELSE [calls[i] EXCEPT !.args = <<>>]]

chatBody(r) ==
    bodyOf(r, r.calls, chatFinish(r.reason, r.calls # <<>>), "", openAIWireUsage(r.usage))
claudeBody(r) ==
    bodyOf(r, Parsed(r.calls), irToClaudeStopReason(WithTools(r.reason, r.calls # <<>>)), "",
          claudeUsageMap(r.usage))
geminiBody(r) ==
    bodyOf(r, Parsed(r.calls), mapToGeminiFinishReason(r.reason, r.calls # <<>>), "",
          buildGeminiUsage(r.usage))
responsesBody(r) ==
    bodyOf(r, r.calls, ended(r.reason, r.usage).reason, ended(r.reason, r.usage).status,
          openAIWireUsage(r.usage))

EncodeResponse(protocol, r) ==
    CASE protocol = "chat" -> chatBody(r)
      [] protocol = "claude" -> claudeBody(r)
      [] protocol = "gemini" -> geminiBody(r)
      [] protocol = "responses" -> responsesBody(r)
=============================================================================
