-------------------------------- MODULE Wire --------------------------------
(***************************************************************************)
(* The two parties outside the gateway: how an upstream of each protocol   *)
(* puts an answer on the wire, and what a client of each protocol makes of *)
(* the frames it gets.  Both follow the protocols as the codecs speak them *)
(* and as their tests quote them.                                          *)
(*                                                                         *)
(* A plan is an answer: what is said, in order, why it stops, what it      *)
(* costs, in which convention the upstream counts, where it puts the       *)
(* counts, and whether it ends, errs, fails, or errs after its end.        *)
(***************************************************************************)
EXTENDS Encoders

Utterances == [kind : {"think", "text"}, call : {0}] \cup [kind : {"call", "args"}, call : 1..2]

\* Calls are opened in order, and have arguments only once open.
WellSaid(said) ==
    \A i \in DOMAIN said :
        LET opened == {said[j].call : j \in {j \in 1..(i - 1) : said[j].kind = "call"}} IN
        /\ said[i].kind = "call" => opened = 1..(said[i].call - 1)
        /\ said[i].kind = "args" => said[i].call \in opened

\* Arguments come while something else has been opened since their call.
Interleaved(said) ==
    \E i \in DOMAIN said : said[i].kind = "args" /\ said[i - 1].call # said[i].call

Calls(said) == {i \in DOMAIN said : said[i].kind = "call"}
ArgsOf(said, call) == {i \in DOMAIN said : said[i].kind = "args" /\ said[i].call = call}

Normal(plan) == ~IRStopReasonIsAbnormal(plan.reason)

\* Arguments are complete only in an answer that stops of itself.
Piece(plan, i) ==
    LET u == plan.said[i] IN
    [n |-> i,
     last |-> u.kind = "args" /\ Normal(plan) /\ \A j \in ArgsOf(plan.said, u.call) : j <= i]

Pieces(plan, positions) ==
    FlattenSeq([i \in DOMAIN plan.said |-> When(i \in positions, <<Piece(plan, i)>>)])

Arguments(plan, call) == Pieces(plan, ArgsOf(plan.said, call))
-----------------------------------------------------------------------------
(* The counts as an upstream states them.  A foreign OpenAI dialect states *)
(* the input net of the cache; a foreign Gemini one counts the thinking as *)
(* candidates; a foreign Claude one states the input at the end.           *)

Gross(c) == c.fresh + c.read + c.write

Stating(c, input, output, total) ==
    [input |-> input, output |-> output, total |-> total, read |-> c.read,
     write |-> c.write, reasoning |-> c.think]

OnWire(protocol, plan) ==
    LET c == plan.counts
        out == IF plan.dialect = "absurd" THEN -1 ELSE c.out
        all == Gross(c) + c.out
        foreign == plan.dialect = "foreign"
    IN CASE protocol = "claude" -> [Stating(c, c.fresh, out, 0) EXCEPT !.reasoning = 0]
         [] protocol = "gemini" -> Stating(c, Gross(c), IF foreign \/ out < 0 THEN out ELSE c.out - c.think, all)
         [] OTHER -> Stating(c, IF foreign THEN c.fresh ELSE Gross(c), out, all)

Silent == Stating([read |-> 0, write |-> 0, think |-> 0], 0, 0, 0)

InputOnly(w) == [w EXCEPT !.output = 0, !.total = 0, !.reasoning = 0]
OutputOnly(w) == [Silent EXCEPT !.output = w.output, !.reasoning = w.reasoning]
-----------------------------------------------------------------------------
(* Answers as frames.                                                      *)

NativeStop(protocol, plan) ==
    LET r == plan.reason
        tools == Calls(plan.said) # {}
    IN CASE protocol = "chat" -> IF r = "stop" /\ tools THEN "tool_calls" ELSE r
         [] protocol = "claude" /\ r = "stop" -> IF tools THEN "tool_use" ELSE "end_turn"
         [] protocol = "claude" -> CASE r = "length" -> "max_tokens"
                                     [] r = "content_filter" -> "refusal" [] OTHER -> ""
         [] protocol = "gemini" -> CASE r = "length" -> "MAX_TOKENS"
                                     [] r = "content_filter" -> "SAFETY" [] OTHER -> "STOP"
         [] protocol = "responses" -> CASE r = "length" -> "max_output_tokens"
                                        [] OTHER -> r

chatSays(plan, i) ==
    LET u == plan.said[i]
        body == <<Piece(plan, i)>>
    IN CASE u.kind = "think" -> [NoChunk EXCEPT !.think = body]
         [] u.kind = "text" -> [NoChunk EXCEPT !.text = body]
         [] u.kind = "call" ->
              [NoChunk EXCEPT !.calls = <<[index |-> u.call, call |-> u.call, args |-> <<>>]>>]
         [] u.kind = "args" ->
              [NoChunk EXCEPT !.calls = <<[index |-> u.call, call |-> 0, args |-> body]>>]

\* The last chunk may hold the finish and the counts.
chatChunk(plan, i) ==
    IF plan.tail = "together" /\ i = Len(plan.said)
    THEN [chatSays(plan, i) EXCEPT !.finish = NativeStop("chat", plan), !.usage = OnWire("chat", plan)]
    ELSE chatSays(plan, i)

ChatFrames(plan) ==
    LET w == OnWire("chat", plan)
        finish == [NoChunk EXCEPT !.finish = NativeStop("chat", plan)]
    IN [i \in DOMAIN plan.said |-> chatChunk(plan, i)]
       \o When(~(plan.tail = "together" /\ plan.said # <<>>),
               <<finish>> \o IF plan.tail = "split"
                             THEN << [NoChunk EXCEPT !.usage = InputOnly(w)],
                                     [NoChunk EXCEPT !.usage = OutputOnly(w)] >>
                             ELSE << [NoChunk EXCEPT !.usage = w] >>)
       \o <<[f |-> "[DONE]"]>>

\* Claude's blocks: an utterance of another kind, or of another call, opens one.
OpensBlock(said, i) ==
    \/ said[i].kind = "call"
    \/ said[i].kind # "args" /\ (i = 1 \/ said[i - 1].kind # said[i].kind)
BlockIndex(said, i) == Cardinality({j \in 1..i : OpensBlock(said, j)}) - 1

claudeSays(plan, i) ==
    LET said == plan.said
        u == said[i]
        ix == BlockIndex(said, i)
    IN When(OpensBlock(said, i) /\ i > 1, <<[f |-> "block_stop", index |-> ix - 1]>>)
       \o When(OpensBlock(said, i),
               <<[f |-> "block_start", index |-> ix, kind |-> u.kind, call |-> u.call]>>)
       \o When(u.kind # "call",
               << [f |-> "block_delta", index |-> ix, kind |-> u.kind,
                   body |-> <<Piece(plan, i)>>] >>)

ClaudeFrames(plan) ==
    LET w == OnWire("claude", plan)
        late == plan.dialect = "foreign"
        first == IF late THEN Silent ELSE [w EXCEPT !.output = 0]
        last == IF late THEN w ELSE OutputOnly(w)
        n == Len(plan.said)
    IN <<[f |-> "message_start", usage |-> first]>>
       \o FlattenSeq([i \in DOMAIN plan.said |-> claudeSays(plan, i)])
       \o When(n > 0, <<[f |-> "block_stop", index |-> BlockIndex(plan.said, n)]>>)
       \o When(plan.tail = "split",
               << [f |-> "message_delta", reason |-> "", usage |-> [last EXCEPT !.output = 1]] >>)
       \o IF plan.fate \in {"errors", "fails"} THEN <<[f |-> "error"]>>
          ELSE << [f |-> "message_delta", reason |-> NativeStop("claude", plan), usage |-> last],
                  [f |-> "message_stop"] >>
               \o When(plan.fate = "errs late", <<[f |-> "error"]>>)

\* Gemini sends a call whole, where it is opened.
geminiPartOf(plan, i) ==
    LET u == plan.said[i] IN
    IF u.kind = "call" THEN [kind |-> "call", call |-> u.call, args |-> Arguments(plan, u.call)]
    ELSE [kind |-> u.kind, body |-> <<Piece(plan, i)>>]

\* The first chunk may hold what is known of the counts, the last the finish.
geminiChunk(plan, i) ==
    LET w == OnWire("gemini", plan)
        first == i = 1 /\ plan.tail = "split"
        last == plan.tail = "together"
                    /\ \A j \in (i + 1)..Len(plan.said) : plan.said[j].kind = "args"
    IN [NoCandidate EXCEPT
           !.parts = <<geminiPartOf(plan, i)>>,
           !.finish = IF last THEN NativeStop("gemini", plan) ELSE "",
           !.usage = CASE last -> w
                       [] first -> [InputOnly(w) EXCEPT !.total = @ + w.input]
                       [] OTHER -> Null]

GeminiFrames(plan) ==
    FlattenSeq([i \in DOMAIN plan.said |->
                   When(plan.said[i].kind # "args", <<geminiChunk(plan, i)>>)])
    \o When(~(plan.tail = "together" /\ plan.said # <<>>),
            <<[NoCandidate EXCEPT !.finish = NativeStop("gemini", plan),
                                  !.usage = OnWire("gemini", plan)]>>)

responsesSays(plan, i) ==
    LET said == plan.said
        u == said[i]
        ix == IF u.kind = "args"
              THEN BlockIndex(said, CHOOSE j \in Calls(said) : said[j].call = u.call)
              ELSE BlockIndex(said, i)
    IN When(OpensBlock(said, i),
            << [f |-> "item_added", item |-> ix, index |-> ix, kind |-> u.kind,
                call |-> u.call] >>)
       \o When(u.kind # "call",
               << [f |-> "item_delta", item |-> ix, index |-> ix, kind |-> u.kind,
                   body |-> <<Piece(plan, i)>>] >>)

ResponsesEnd(plan) ==
    [f |-> "ended",
     status |-> CASE plan.fate = "fails" -> "failed"
                  [] Normal(plan) -> "completed" [] OTHER -> "incomplete",
     reason |-> IF Normal(plan) THEN "" ELSE NativeStop("responses", plan),
     usage |-> OnWire("responses", plan)]

ResponsesFrames(plan) ==
    <<[f |-> "created"]>>
        \o FlattenSeq([i \in DOMAIN plan.said |-> responsesSays(plan, i)])
        \o IF plan.fate = "errors" THEN <<[f |-> "error"]>>
           ELSE <<ResponsesEnd(plan)>>
                \o When(plan.tail = "split", <<ResponsesEnd(plan)>>)
                \o When(plan.fate = "errs late",
                        <<[ResponsesEnd(plan) EXCEPT !.status = "failed"]>>)

Frames(protocol, plan) ==
    CASE protocol = "chat" -> ChatFrames(plan)
      [] protocol = "claude" -> ClaudeFrames(plan)
      [] protocol = "gemini" -> GeminiFrames(plan)
      [] protocol = "responses" -> ResponsesFrames(plan)

\* The same answer as one body.
Body(protocol, plan) ==
    LET channel(kind) == {i \in DOMAIN plan.said : plan.said[i].kind = kind}
        wholly == IF protocol = "responses" THEN ResponsesEnd(plan).status ELSE ""
    IN [think |-> Pieces(plan, channel("think")), text |-> Pieces(plan, channel("text")),
        calls |-> [k \in 1..Cardinality(Calls(plan.said)) |->
                      [call |-> k, args |-> Arguments(plan, k)]],
        stop |-> NativeStop(protocol, plan), status |-> wholly,
        usage |-> OnWire(protocol, plan)]
-----------------------------------------------------------------------------
(* A client: what it has heard, and whether every frame had its place.     *)

NewClient ==
    [ok |-> TRUE, begun |-> FALSE, over |-> FALSE, end |-> "", usage |-> Null,
     think |-> <<>>, text |-> <<>>, calls |-> <<>>, block |-> "", items |-> <<>>]

Hears(c, kind, body) ==
    CASE kind = "think" -> [c EXCEPT !.think = @ \o body]
      [] kind = "text" -> [c EXCEPT !.text = @ \o body]

Opens(c, at, call, args) ==
    [c EXCEPT !.calls = Append(@, [at |-> at, call |-> call, args |-> args])]

HearsArgs(c, at, body) ==
    [c EXCEPT !.calls = [i \in DOMAIN c.calls |->
                            IF c.calls[i].at = at THEN [c.calls[i] EXCEPT !.args = @ \o body]
                            ELSE c.calls[i]]]

Told(c, usage) == IF usage = Null THEN c ELSE [c EXCEPT !.usage = usage]
Expect(c, condition) == [c EXCEPT !.ok = @ /\ ~c.over /\ condition]

ChatClient(c, f) ==
    LET hear(acc, tc) == IF tc.call # 0 THEN Opens(acc, tc.index, tc.call, tc.args)
                         ELSE HearsArgs(acc, tc.index, tc.args)
        silent == f.think = <<>> /\ f.text = <<>> /\ f.calls = <<>>
        heard == FoldLeft(hear, Hears(Hears(c, "think", f.think), "text", f.text), f.calls)
    IN IF f.f = "[DONE]" THEN [Expect(c, TRUE) EXCEPT !.over = TRUE]
       ELSE [Told(Expect(heard, c.end = "" \/ silent), f.usage)
             EXCEPT !.end = IF f.finish = "" THEN @ ELSE f.finish]

ClaudeClient(c, f) ==
    LET n == Len(c.items) IN
    CASE f.f = "message_start" -> [Expect(c, ~c.begun) EXCEPT !.begun = TRUE]
      [] f.f = "block_start" ->
           [ Expect(IF f.kind = "call" THEN Opens(c, n, f.call, <<>>) ELSE c,
                    c.begun /\ c.block = "" /\ f.index = n) EXCEPT !.block = f.kind ]
      [] f.f = "block_delta" /\ f.kind = "args" ->
           Expect(HearsArgs(c, f.index, f.body), c.block = "call" /\ f.index = n)
      [] f.f = "block_delta" /\ f.kind # "args" ->
           Expect(Hears(c, f.kind, f.body), c.block = f.kind /\ f.index = n)
      [] f.f = "block_stop" ->
           [ Expect(c, c.block # "" /\ f.index = n) EXCEPT !.block = "",
                                                           !.items = Append(@, c.block) ]
      [] f.f = "message_delta" ->
           [ Told(Expect(c, c.begun /\ c.block = ""), f.usage)
             EXCEPT !.end = IF f.reason = "" THEN @ ELSE f.reason ]
      [] f.f = "message_stop" -> [Expect(c, TRUE) EXCEPT !.over = TRUE]

GeminiClient(c, f) ==
    LET hear(acc, part) ==
            IF part.kind = "call" THEN Opens(acc, 0, part.call, part.args)
            ELSE Hears(acc, part.kind, part.body)
    IN [ Told(Expect(FoldLeft(hear, c, f.parts), TRUE), f.usage)
         EXCEPT !.over = f.finish # "", !.end = f.finish ]

\* Items are told apart by their ids; a finished one restates what it held.
ResponsesClient(c, f) ==
    LET At(item) == {i \in DOMAIN c.items : c.items[i].item = item /\ c.items[i].open} IN
    CASE f.f = "created" -> [Expect(c, ~c.begun) EXCEPT !.begun = TRUE]
      [] f.f = "in_progress" -> Expect(c, c.begun)
      [] f.f = "item_added" ->
           [ Expect(IF f.kind = "call" THEN Opens(c, f.item, f.call, <<>>) ELSE c,
                    c.begun /\ \A i \in DOMAIN c.items : c.items[i].item # f.item)
             EXCEPT !.items = Append(@, [item |-> f.item, kind |-> f.kind, open |-> TRUE,
                                         body |-> <<>>]) ]
      [] f.f = "item_delta" ->
           [ Expect(IF f.kind = "args" THEN HearsArgs(c, f.item, f.body)
                    ELSE Hears(c, f.kind, f.body),
                    \E i \in At(f.item) :
                        c.items[i].kind = IF f.kind = "args" THEN "call" ELSE f.kind)
             EXCEPT !.items = [i \in DOMAIN c.items |->
                                  IF i \in At(f.item)
                                  THEN [c.items[i] EXCEPT !.body = @ \o f.body] ELSE c.items[i]] ]
      [] f.f = "item_done" ->
           [ Expect(c, \E i \in At(f.item) : c.items[i].kind = "think"
                                              \/ c.items[i].body = f.body)
             EXCEPT !.items = [i \in DOMAIN c.items |->
                                  IF i \in At(f.item)
                                  THEN [c.items[i] EXCEPT !.open = FALSE] ELSE c.items[i]] ]
      [] f.f = "ended" ->
           [ Told(Expect(c, \A i \in DOMAIN c.items : ~c.items[i].open), f.usage)
             EXCEPT !.over = TRUE, !.end = IF f.status = "incomplete" THEN f.reason ELSE f.status ]

\* A frame of another protocol is skipped.
Client(protocol, c, frames) ==
    LET read(acc, f) ==
            CASE f.f = "foreign" -> acc
              [] f.f # "foreign" /\ protocol = "chat" -> ChatClient(acc, f)
              [] f.f # "foreign" /\ protocol = "claude" -> ClaudeClient(acc, f)
              [] f.f # "foreign" /\ protocol = "gemini" -> GeminiClient(acc, f)
              [] f.f # "foreign" /\ protocol = "responses" -> ResponsesClient(acc, f)
    IN FoldLeft(read, c, frames)
=============================================================================
