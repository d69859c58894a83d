----------------------------- MODULE CodecProofs -----------------------------
(***************************************************************************)
(* What holds of every translated answer, however many utterances it is    *)
(* made of and whichever protocols the upstream and the caller speak: each *)
(* frame the caller gets has its place in his protocol, and he hears what  *)
(* a client of the upstream's own protocol would have heard.               *)
(*                                                                         *)
(* The invariant, CodecInv, says of a relay that still reads that there is *)
(* a place in the upstream's answer and a story such that what is unread   *)
(* is the rest of the answer from that place, the decoder's deltas so far  *)
(* have told the story, the upstream's own client has heard it, and so has *)
(* the caller, by what the encoder wrote.  Each caller's part is from      *)
(* GatewayProofs; here each upstream protocol is followed from frame to    *)
(* frame.                                                                  *)
(***************************************************************************)
EXTENDS GatewayProofs
----------------------------------------
(* A caller of any protocol. *)

Holds(q, loose, h, e, c) ==
  \/ q = "chat" /\ ChatHolds(h, e, c)
  \/ q = "claude" /\ ClaudeHolds(loose, h, e, c)
  \/ q = "gemini" /\ GeminiHolds(h, e, c)
  \/ q = "responses" /\ RespHolds(h, e, c)

EncoderIsNew(e) ==
  /\ e.out = <<>> /\ e.reason = "" /\ e.hasStop = FALSE /\ e.ended = FALSE
  /\ e.hasTools = FALSE /\ e.block = "" /\ e.blockIndex = 0 /\ e.tools = <<>>
  /\ e.created = FALSE /\ e.items = 0 /\ e.message = 0 /\ e.reasoning = 0
  /\ DOMAIN e = EncFields

ClientIsNew(c) ==
  /\ DOMAIN c = CliFields
  /\ c.ok = TRUE /\ c.begun = FALSE /\ c.over = FALSE /\ c.end = "" /\ c.think = <<>>
  /\ c.text = <<>> /\ c.calls = <<>> /\ c.block = "" /\ c.items = <<>>

StoryIsNew(h) ==
  /\ DOMAIN h = StoryFields
  /\ h.begun = FALSE /\ h.done = FALSE /\ h.last = "" /\ h.think = <<>> /\ h.text = <<>>
  /\ h.calls = <<>>

\* What everyone starts from.
LEMMA AllIsNew ==
  ASSUME NEW asks
  PROVE  EncoderIsNew(NewEncoder(asks)) /\ ClientIsNew(NewClient) /\ StoryIsNew(NewStory)
<1>1. EncoderIsNew(NewEncoder(asks)) BY Zenon DEF EncoderIsNew, NewEncoder, EncFields
<1>2. ClientIsNew(NewClient) BY Zenon DEF ClientIsNew, NewClient, CliFields
<1>3. StoryIsNew(NewStory) BY Zenon DEF StoryIsNew, NewStory, StoryFields
<1> QED BY <1>1, <1>2, <1>3

\* A new chat caller awaits the story,
LEMMA ChatAwaits ==
  ASSUME NEW h, StoryIsNew(h), NEW e, EncoderIsNew(e), NEW c, ClientIsNew(c)
  PROVE  ChatHolds(h, e, c)
<1>1. PICK none : none = <<>> OBVIOUS
<1>2. IsSeq(none) /\ Len(none) = 0 BY <1>1, SeqEmpty
<1>3. Mirrors(none, none) BY <1>1, MirrorsNone
<1>4. Heard(h, c) BY <1>1, <1>3 DEF Heard, StoryIsNew, ClientIsNew
<1>5. ByIndex(h, c)
  <2>1. h.calls = none BY <1>1 DEF StoryIsNew
  <2>2. 1..Len(h.calls) = {} BY <1>2, <2>1
  <2> QED BY <2>2 DEF ByIndex
<1>6. ChatListens(h, c) BY <1>4, <1>5 DEF ChatListens, ClientIsNew
<1>7. ToolsAs(h, e) BY DEF ToolsAs, StoryIsNew, EncoderIsNew
<1>8. Unended(c) /\ ~h.done BY DEF Unended, ClientIsNew, StoryIsNew
<1>9. DOMAIN e = EncFields /\ IsSeq(e.out) BY <1>1, <1>2 DEF EncoderIsNew
<1>10. e.hasStop \in BOOLEAN /\ ~e.hasStop BY DEF EncoderIsNew
<1> QED BY <1>6, <1>7, <1>8, <1>9, <1>10 DEF ChatHolds

\* a new Claude caller,
LEMMA ClaudeAwaits ==
  ASSUME NEW loose, NEW h, StoryIsNew(h), NEW e, EncoderIsNew(e), NEW c, ClientIsNew(c)
  PROVE  ClaudeHolds(loose, h, e, c)
<1>1. PICK none : none = <<>> OBVIOUS
<1>2. IsSeq(none) /\ Len(none) = 0 BY <1>1, SeqEmpty
<1>3. Mirrors(none, none) BY <1>1, MirrorsNone
<1>4. c.items = none /\ e.out = none /\ c.calls = none /\ h.calls = none
  BY <1>1 DEF ClientIsNew, EncoderIsNew, StoryIsNew
<1>5. e.blockIndex = 0 /\ c.ok /\ c.block = e.block BY DEF ClientIsNew, EncoderIsNew
<1>6. ClaudeNeat(e, c) BY <1>2, <1>4, <1>5 DEF ClaudeNeat
<1>7. Lays(loose, e, c)
  <2>1. DOMAIN e = EncFields /\ DOMAIN c = CliFields /\ ~c.over /\ Unended(c)
    BY DEF ClientIsNew, EncoderIsNew, Unended
  <2> QED BY <1>2, <1>4, <1>6, <2>1 DEF Lays
<1>8. HearsWords(h, c) BY DEF HearsWords, ClientIsNew, StoryIsNew
<1>9. ClaudeWaits(h, e)
  <2>1. ToolsAs(h, e) BY DEF ToolsAs, StoryIsNew, EncoderIsNew
  <2> QED BY <2>1 DEF ClaudeWaits, StoryIsNew, EncoderIsNew
<1>10. ClaudeCalls(h.calls, e, c)
  <2>1. 1..Len(h.calls) = {} BY <1>2, <1>4
  <2>2. e.block # "call" BY DEF EncoderIsNew
  <2> QED BY <1>3, <1>4, <1>5, <2>1, <2>2 DEF ClaudeCalls
<1>11. ClaudeTidy(h, e, c)
  <2>1. (c.begun <=> h.begun) /\ h.last # "call" /\ ~h.done BY DEF ClientIsNew, StoryIsNew
  <2> QED BY <1>10, <2>1 DEF ClaudeTidy
<1> QED BY <1>7, <1>8, <1>9, <1>11 DEF ClaudeHolds

\* a new Gemini caller
LEMMA GeminiAwaits ==
  ASSUME NEW h, StoryIsNew(h), NEW e, EncoderIsNew(e), NEW c, ClientIsNew(c)
  PROVE  GeminiHolds(h, e, c)
<1>1. PICK none : none = <<>> OBVIOUS
<1>2. IsSeq(none) /\ Len(none) = 0 BY <1>1, SeqEmpty
<1>3. e.out = none /\ c.calls = none /\ h.calls = none /\ e.tools = none
  BY <1>1 DEF ClientIsNew, EncoderIsNew, StoryIsNew
<1>4. ASSUME NEW x PROVE x \in Known(c.calls) <=> x \in ReadyCalls(h.calls)
  <2>1. x \notin Known(none)
    <3>1. 1..Len(none) = {} BY <1>2
    <3> QED BY <1>2, <3>1, KnownIs
  <2>2. x \notin ReadyCalls(none) BY <2>1 DEF ReadyCalls
  <2> QED BY <1>3, <2>1, <2>2
<1>5. GeminiListens(h, c)
  <2>1. HearsWords(h, c) BY DEF HearsWords, ClientIsNew, StoryIsNew
  <2>2. DOMAIN c = CliFields /\ c.ok /\ ~c.over BY DEF ClientIsNew
  <2>3. IsSeq(c.calls) BY <1>2, <1>3
  <2> QED BY <1>4, <2>1, <2>2, <2>3 DEF GeminiListens
<1>6. GeminiWaits(h, e) BY <1>3 DEF GeminiWaits, EncoderIsNew, StoryIsNew
<1>7. DOMAIN e = EncFields /\ IsSeq(e.out) BY <1>2, <1>3 DEF EncoderIsNew
<1> QED BY <1>5, <1>6, <1>7 DEF GeminiHolds

\* and a new Responses caller.
LEMMA RespAwaits ==
  ASSUME NEW h, StoryIsNew(h), NEW e, EncoderIsNew(e), NEW c, ClientIsNew(c)
  PROVE  RespHolds(h, e, c)
<1>1. PICK none : none = <<>> OBVIOUS
<1>2. IsSeq(none) /\ Len(none) = 0 BY <1>1, SeqEmpty
<1>3. Mirrors(none, none) BY <1>1, MirrorsNone
<1>4. /\ c.items = none /\ e.out = none /\ c.calls = none /\ h.calls = none /\ e.tools = none
  BY <1>1 DEF ClientIsNew, EncoderIsNew, StoryIsNew
<1>5. 1..Len(none) = {} BY <1>2
<1>6. Holding(0, e.message, e.text, e.reasoning, e.tools, c.items)
  <2>1. e.message = 0 /\ e.reasoning = 0 BY DEF EncoderIsNew
  <2> QED BY <1>2, <1>4, <1>5, <2>1 DEF Holding
<1>7. Shelf(0, e, c)
  <2>1. /\ DOMAIN e = EncFields /\ DOMAIN c = CliFields /\ c.ok /\ ~c.over
        /\ e.created \in BOOLEAN /\ (c.begun <=> e.created) /\ e.items = 0
    BY DEF ClientIsNew, EncoderIsNew
  <2>2. Stocked(c.items) BY <1>2, <1>4, <1>5 DEF Stocked
  <2> QED BY <1>2, <1>4, <1>6, <2>1, <2>2 DEF Shelf
<1>8. HearsWords(h, c) BY DEF HearsWords, ClientIsNew, StoryIsNew
<1>9. Tooled(e.tools) BY <1>2, <1>4, <1>5 DEF Tooled
<1>10. RespWaits(h, e) BY DEF RespWaits, EncoderIsNew, StoryIsNew
<1>11. ByItem(h, e, c) BY <1>4, <1>5 DEF ByItem
<1> QED BY <1>3, <1>4, <1>7, <1>8, <1>9, <1>10, <1>11 DEF RespHolds

\* A new caller awaits the story, whatever it speaks.
LEMMA DownAwaits ==
  ASSUME NEW q \in Protocols, NEW loose, NEW asks
  PROVE  Holds(q, loose, NewStory, NewEncoder(asks), NewClient)
<1>1. EncoderIsNew(NewEncoder(asks)) /\ ClientIsNew(NewClient) /\ StoryIsNew(NewStory) BY AllIsNew
<1>2. /\ ChatHolds(NewStory, NewEncoder(asks), NewClient)
      /\ ClaudeHolds(loose, NewStory, NewEncoder(asks), NewClient)
      /\ GeminiHolds(NewStory, NewEncoder(asks), NewClient)
      /\ RespHolds(NewStory, NewEncoder(asks), NewClient)
  BY <1>1, ChatAwaits, ClaudeAwaits, GeminiAwaits, RespAwaits
<1> QED BY <1>2 DEF Holds, Protocols

\* The next call writes from an empty buffer.
Emptying(e, m) == m = [e EXCEPT !.out = <<>>]

\* An encoder whose frames were taken is the same but for those.
LEMMA EmptyIsSame ==
  ASSUME NEW e, DOMAIN e = EncFields, NEW m, Emptying(e, m)
  PROVE  Same(e, m) /\ m.out = <<>>
<1>1. PICK none : none = <<>> OBVIOUS
<1>2. IsSeq(none) BY <1>1, SeqEmpty
<1>3. m = [e EXCEPT !.out = none] BY <1>1 DEF Emptying
<1>4. DOMAIN m = EncFields BY <1>3
<1>5. m.out = none BY <1>3 DEF EncFields
<1>6. /\ m.usage = e.usage /\ m.includeUsage = e.includeUsage /\ m.reason = e.reason
      /\ m.hasStop = e.hasStop /\ m.ended = e.ended /\ m.hasTools = e.hasTools
      /\ m.block = e.block /\ m.blockIndex = e.blockIndex /\ m.tools = e.tools
      /\ m.created = e.created /\ m.items = e.items /\ m.outputIndex = e.outputIndex
      /\ m.message = e.message /\ m.text = e.text /\ m.reasoning = e.reasoning
  BY <1>3 DEF EncFields
<1> QED BY <1>1, <1>2, <1>4, <1>5, <1>6 DEF Same

\* Taking its frames from an encoder leaves its caller with the story.
LEMMA DownAgain ==
  ASSUME NEW q, NEW loose, NEW h, NEW e, NEW c, Holds(q, loose, h, e, c), NEW m, Emptying(e, m)
  PROVE  Holds(q, loose, h, m, c)
<1>1. DOMAIN e = EncFields
  BY DEF Holds, ChatHolds, ClaudeHolds, Lays, GeminiHolds, RespHolds, Shelf
<1>2. Same(e, m) BY <1>1, EmptyIsSame
<1>3. CASE q = "chat" /\ ChatHolds(h, e, c)
  <2>1. ToolsAs(h, m) BY <1>2, <1>3 DEF ChatHolds, ToolsAs, Same
  <2>2. ChatHolds(h, m, c) BY <1>2, <1>3, <2>1 DEF ChatHolds, Same
  <2> QED BY <1>3, <2>2 DEF Holds
<1>4. CASE q = "claude" /\ ClaudeHolds(loose, h, e, c)
  <2>1. Lays(loose, m, c) BY <1>2, <1>4 DEF ClaudeHolds, Lays, ClaudeNeat, Same
  <2>2. ClaudeWaits(h, m)
    <3>1. ToolsAs(h, m) BY <1>2, <1>4 DEF ClaudeHolds, ClaudeWaits, ToolsAs, Same
    <3> QED BY <1>2, <1>4, <3>1 DEF ClaudeHolds, ClaudeWaits, Same
  <2>3. ASSUME ~loose PROVE ClaudeTidy(h, m, c)
    <3>1. ClaudeTidy(h, e, c) BY <1>4, <2>3 DEF ClaudeHolds
    <3>2. m.block = e.block /\ m.blockIndex = e.blockIndex BY <1>2 DEF Same
    <3>3. ClaudeCalls(h.calls, m, c) BY <3>1, <3>2 DEF ClaudeTidy, ClaudeCalls
    <3> QED BY <3>1, <3>2, <3>3 DEF ClaudeTidy
  <2>4. ClaudeHolds(loose, h, m, c) BY <1>4, <2>1, <2>2, <2>3 DEF ClaudeHolds
  <2> QED BY <1>4, <2>4 DEF Holds
<1>5. CASE q = "gemini" /\ GeminiHolds(h, e, c)
  <2>1. GeminiHolds(h, m, c) BY <1>2, <1>5 DEF GeminiHolds, GeminiWaits, Same
  <2> QED BY <1>5, <2>1 DEF Holds
<1>6. CASE q = "responses" /\ RespHolds(h, e, c)
  <2>1. RespKept(e, m) BY <1>2 DEF RespKept, Heeds, Same
  <2>2. RespHolds(h, m, c) BY <1>6, <2>1, RespSame
  <2> QED BY <1>6, <2>2 DEF Holds
<1> QED BY <1>3, <1>4, <1>5, <1>6 DEF Holds

\* An encoder of any protocol keeps its caller with the story.
LEMMA DownStep ==
  ASSUME NEW q \in Protocols, NEW loose \in BOOLEAN, NEW h, StoryIsSound(h),
         NEW delta, Allowed(loose, h, delta), NEW k, k = After(h, delta),
         NEW c0, NEW e, NEW c, c = Client(q, c0, e.out), Holds(q, loose, h, e, c),
         NEW g, g = EncodeOne(q, e, delta), NEW r, r = Client(q, c0, g.out)
  PROVE  Holds(q, loose, k, g, r)
<1>1. CASE q = "chat"
  <2>1. g = encodeChat(e, delta) BY <1>1 DEF EncodeOne
  <2>2. ChatHolds(h, e, c) BY <1>1 DEF Holds
  <2>3. ChatHolds(k, g, Client("chat", c0, g.out)) BY <1>1, <2>1, <2>2, ChatStep
  <2> QED BY <1>1, <2>3 DEF Holds
<1>2. CASE q = "claude"
  <2>1. g = encodeClaude(e, delta) BY <1>2 DEF EncodeOne
  <2>2. ClaudeHolds(loose, h, e, c) BY <1>2 DEF Holds
  <2>3. ClaudeHolds(loose, k, g, r) BY <1>2, <2>1, <2>2, ClaudeStep
  <2> QED BY <1>2, <2>3 DEF Holds
<1>3. CASE q = "gemini"
  <2>1. g = encodeGemini(e, delta) BY <1>3 DEF EncodeOne
  <2>2. GeminiHolds(h, e, c) BY <1>3 DEF Holds
  <2>3. GeminiHolds(k, g, r) BY <1>3, <2>1, <2>2, GeminiStep
  <2> QED BY <1>3, <2>3 DEF Holds
<1>4. CASE q = "responses"
  <2>1. g = encodeResponses(e, delta) BY <1>4 DEF EncodeOne
  <2>2. RespHolds(h, e, c) BY <1>4 DEF Holds
  <2>3. RespHolds(k, g, r) BY <1>4, <2>1, <2>2, ResponsesStep
  <2> QED BY <1>4, <2>3 DEF Holds
<1> QED BY <1>1, <1>2, <1>3, <1>4 DEF Protocols

\* What is told is written, and read by the caller.
LEMMA DownTells ==
  ASSUME NEW q \in Protocols, NEW loose \in BOOLEAN, NEW h, StoryIsSound(h),
         NEW s, NEW k, Tells(loose, h, s, k), NEW e, NEW c, Holds(q, loose, h, e, c),
         NEW g, g = EncodeDeltas(q, e, s), NEW r, r = Client(q, c, g.out)
  PROVE  Holds(q, loose, k, g, r)
<1> DEFINE n == Len(s)
<1>0. IsSeq(s) /\ n \in Nat BY SeqDomain DEF Tells
<1>1. PICK T : /\ T[0] = h /\ T[n] = k
               /\ \A i \in 1..n : Follows(loose, T[i - 1], s[i], T[i]) BY DEF Tells
<1>2. PICK E : /\ E[0] = [e EXCEPT !.out = <<>>] /\ E[n] = EncodeDeltas(q, e, s)
               /\ \A i \in 1..n : E[i] = EncodeOne(q, E[i - 1], s[i]) BY <1>0, EncodeSteps
<1> DEFINE On(i) == StoryIsSound(T[i]) /\ Holds(q, loose, T[i], E[i], Client(q, c, E[i].out))
           X == {i \in Nat : On(i)}
<1>3. 0 \in X
  <2>1. Emptying(e, E[0]) BY <1>2 DEF Emptying
  <2>2. DOMAIN e = EncFields
    BY DEF Holds, ChatHolds, ClaudeHolds, Lays, GeminiHolds, RespHolds, Shelf
  <2>3. E[0].out = <<>> BY <2>1, <2>2, EmptyIsSame
  <2>4. Client(q, c, E[0].out) = c BY <2>3, ReadNone
  <2>5. Holds(q, loose, h, E[0], c) BY <2>1, DownAgain
  <2> QED BY <1>1, <2>4, <2>5
<1>4. ASSUME NEW i \in 0..(n - 1), i \in X PROVE i + 1 \in X
  <2>1. i + 1 \in 1..n /\ (i + 1) - 1 = i /\ i + 1 \in Nat BY <1>0
  <2>2. Allowed(loose, T[i], s[i + 1]) /\ T[i + 1] = After(T[i], s[i + 1])
    BY <1>1, <2>1 DEF Follows
  <2>3. E[i + 1] = EncodeOne(q, E[i], s[i + 1]) BY <1>2, <2>1
  <2>4. StoryIsSound(T[i]) /\ Holds(q, loose, T[i], E[i], Client(q, c, E[i].out)) BY <1>4
  <2>5. StoryIsSound(T[i + 1]) BY <2>2, <2>4, StoryStaysSound
  <2> HIDE DEF X, n
  <2>6. Holds(q, loose, T[i + 1], E[i + 1], Client(q, c, E[i + 1].out))
    <3>1. PICK a, b, x, y, u, v, f :
            /\ a = T[i] /\ b = T[i + 1] /\ x = E[i] /\ y = E[i + 1] /\ f = s[i + 1]
            /\ u = Client(q, c, x.out) /\ v = Client(q, c, y.out) OBVIOUS
    <3>2. /\ q \in Protocols /\ loose \in BOOLEAN /\ StoryIsSound(a) /\ Allowed(loose, a, f)
          /\ b = After(a, f) /\ u = Client(q, c, x.out) /\ Holds(q, loose, a, x, u)
          /\ y = EncodeOne(q, x, f) /\ v = Client(q, c, y.out) BY <2>2, <2>3, <2>4, <3>1
    <3>3. Holds(q, loose, b, y, v) BY ONLY <3>2, DownStep
    <3> QED BY <3>1, <3>3
  <2>7. On(i + 1) BY <2>5, <2>6
  <2> QED BY <2>1, <2>7 DEF X
<1>5. \A i \in 0..n : i \in X
  <2> HIDE DEF X
  <2> QED BY <1>0, <1>3, <1>4, UpTo
<1>6. n \in X BY <1>0, <1>5
<1>7. Holds(q, loose, T[n], E[n], Client(q, c, E[n].out)) BY <1>6
<1> QED BY <1>1, <1>2, <1>7

\* What the caller has heard at any time.
CallsTold(q, h, c) ==
  IF q = "gemini" THEN \A x : x \in Known(c.calls) <=> x \in ReadyCalls(h.calls)
  ELSE Mirrors(c.calls, h.calls)

HasHeard(q, loose, h, c) ==
  /\ HearsWords(h, c)
  /\ (q = "claude" /\ loose) \/ (c.ok /\ CallsTold(q, h, c))

\* A caller with the story has heard it, and no end yet.
LEMMA DownHeard ==
  ASSUME NEW q, NEW loose \in BOOLEAN, NEW h, NEW e, NEW c, Holds(q, loose, h, e, c)
  PROVE  HasHeard(q, loose, h, c) /\ ~c.over
<1>1. CASE q = "chat" /\ ChatHolds(h, e, c)
  <2>1. CallsTold(q, h, c) BY <1>1 DEF CallsTold, ChatHolds, ChatListens, Heard
  <2> QED BY <1>1, <2>1 DEF HasHeard, HearsWords, ChatHolds, ChatListens, Heard
<1>2. CASE q = "claude" /\ ClaudeHolds(loose, h, e, c)
  <2>1. ASSUME ~loose PROVE c.ok /\ CallsTold(q, h, c)
    <3>1. ClaudeTidy(h, e, c) /\ ClaudeNeat(e, c) BY <1>2, <2>1 DEF ClaudeHolds, Lays
    <3> QED BY <1>2, <3>1 DEF ClaudeTidy, ClaudeNeat, ClaudeCalls, CallsTold
  <2> QED BY <1>2, <2>1 DEF HasHeard, ClaudeHolds, Lays
<1>3. CASE q = "gemini" /\ GeminiHolds(h, e, c)
  <2>1. CallsTold(q, h, c) BY <1>3 DEF CallsTold, GeminiHolds, GeminiListens
  <2> QED BY <1>3, <2>1 DEF HasHeard, GeminiHolds, GeminiListens
<1>4. CASE q = "responses" /\ RespHolds(h, e, c)
  <2>1. CallsTold(q, h, c) BY <1>4 DEF CallsTold, RespHolds
  <2> QED BY <1>4, <2>1 DEF HasHeard, RespHolds, Shelf
<1> QED BY <1>1, <1>2, <1>3, <1>4 DEF Holds

\* The end it is told of.
EndTold(q, h, c) ==
  /\ c.over /\ EndClass(c.end) = EndClass(h.reason)
  /\ q \in {"chat", "claude"} /\ EndClass(c.end) = "normal" /\ h.calls # <<>>
       => c.end \in {"tool_calls", "tool_use"}

\* An answer that ends is told to its end, in any protocol.
LEMMA DownEnds ==
  ASSUME NEW q, NEW loose \in BOOLEAN, NEW h, StoryIsSound(h), h.done, NEW c0, NEW e,
         NEW c, c = Client(q, c0, e.out), Holds(q, loose, h, e, c),
         NEW finale, finale = EncodeDone(q, e), NEW r, r = Client(q, c0, e.out \o finale.out)
  PROVE  HasHeard(q, loose, h, r) /\ EndTold(q, h, r)
<1>1. CASE q = "chat" /\ ChatHolds(h, e, c)
  <2>1. Heard(h, r) /\ r.ok /\ r.over /\ EndsAs(h, r.end, "tool_calls") BY <1>1, ChatEnds
  <2>2. HasHeard(q, loose, h, r) BY <1>1, <2>1 DEF HasHeard, HearsWords, Heard, CallsTold
  <2>3. EndTold(q, h, r) BY <2>1 DEF EndTold, EndsAs
  <2> QED BY <2>2, <2>3
<1>2. CASE q = "claude" /\ ClaudeHolds(loose, h, e, c)
  <2>1. /\ HearsWords(h, r) /\ r.over /\ EndsAs(h, r.end, "tool_use")
        /\ loose \/ (r.ok /\ Mirrors(r.calls, h.calls)) BY <1>2, ClaudeEnds
  <2>2. HasHeard(q, loose, h, r) BY <1>2, <2>1 DEF HasHeard, CallsTold
  <2>3. EndTold(q, h, r) BY <2>1 DEF EndTold, EndsAs
  <2> QED BY <2>2, <2>3
<1>3. CASE q = "gemini" /\ GeminiHolds(h, e, c)
  <2>1. /\ HearsWords(h, r) /\ r.ok /\ r.over /\ EndClass(r.end) = EndClass(h.reason)
        /\ \A x : x \in Known(r.calls) <=> x \in ReadyCalls(h.calls)
    <3>1. /\ StoryIsSound(h) /\ h.done /\ c = Client("gemini", c0, e.out)
          /\ GeminiHolds(h, e, c) /\ finale = EncodeDone("gemini", e)
          /\ r = Client("gemini", c0, e.out \o finale.out) BY <1>3
    <3>2. HearsWords(h, r) /\ r.ok /\ r.over /\ EndClass(r.end) = EndClass(h.reason)
      BY ONLY <3>1, GeminiEnds
    <3>3. \A x : x \in Known(r.calls) <=> x \in ReadyCalls(h.calls) BY ONLY <3>1, GeminiEnds, Zenon
    <3> QED BY <3>2, <3>3
  <2>2. HasHeard(q, loose, h, r) BY <1>3, <2>1 DEF HasHeard, CallsTold
  <2>3. EndTold(q, h, r) BY <1>3, <2>1 DEF EndTold
  <2> QED BY <2>2, <2>3
<1>4. CASE q = "responses" /\ RespHolds(h, e, c)
  <2>1. /\ HearsWords(h, r) /\ r.ok /\ r.over /\ EndClass(r.end) = EndClass(h.reason)
        /\ Mirrors(r.calls, h.calls) BY <1>4, ResponsesEnds
  <2>2. HasHeard(q, loose, h, r) BY <1>4, <2>1 DEF HasHeard, CallsTold
  <2>3. EndTold(q, h, r) BY <1>4, <2>1 DEF EndTold
  <2> QED BY <2>2, <2>3
<1> QED BY <1>1, <1>2, <1>3, <1>4 DEF Holds

----------------------------------------
(* An answer said piece by piece: what has been told after each. *)

WellTalked(said) ==
  /\ IsSeq(said) /\ WellSaid(said)
  /\ \A i \in 1..Len(said) : said[i] \in Utterances

Opened(said, i) == {said[j].call : j \in {j \in 1..i : said[j].kind = "call"}}

\* Every call so far has been told, in order; one whose arguments are complete gets no
\* more; and unless calls are interleaved arguments are the last call's.
Talked(loose, said, i, h) ==
  /\ Opened(said, i) = 1..Len(h.calls)
  /\ \A k \in 1..Len(h.calls) : Complete(h.calls[k].args) => \A j \in ArgsOf(said, k) : j <= i
  /\ loose \/ i = 0 \/ said[i].call = 0 \/ (h.last = "call" /\ said[i].call = Len(h.calls))

\* The delta of an utterance, if its call goes by this index.
DeltaOf(plan_, i, index) ==
  LET u == plan_.said[i]
      body == <<Piece(plan_, i)>>
  IN CASE u.kind = "think" -> Thinking(body)
       [] u.kind = "text" -> Text(body)
       [] u.kind = "call" -> ToolCallStart(index, u.call)
       [] u.kind = "args" -> ToolCallArgs(index, body)

TalkKinds == {"think", "text", "call", "args"}

\* What an utterance is.
LEMMA UtteranceIs ==
  ASSUME NEW u \in Utterances
  PROVE  /\ u.kind \in TalkKinds
         /\ u.kind \in {"think", "text"} => u.call = 0
         /\ u.kind \in {"call", "args"} => u.call \in 1..2
BY DEF Utterances, TalkKinds

\* The calls opened grow with a call and with nothing else.
LEMMA OpenedMore ==
  ASSUME NEW said, NEW i \in Nat
  PROVE  /\ said[i + 1].kind = "call" => Opened(said, i + 1) = Opened(said, i) \cup {said[i + 1].call}
         /\ said[i + 1].kind # "call" => Opened(said, i + 1) = Opened(said, i)
<1>1. 1..(i + 1) = 1..i \cup {i + 1} OBVIOUS
<1>2. CASE said[i + 1].kind = "call"
  <2>1. {j \in 1..(i + 1) : said[j].kind = "call"} = {j \in 1..i : said[j].kind = "call"} \cup {i + 1}
    BY <1>1, <1>2
  <2> QED BY <1>2, <2>1 DEF Opened
<1>3. CASE said[i + 1].kind # "call"
  <2>1. {j \in 1..(i + 1) : said[j].kind = "call"} = {j \in 1..i : said[j].kind = "call"}
    BY <1>1, <1>3
  <2> QED BY <1>3, <2>1 DEF Opened
<1> QED BY <1>2, <1>3

\* What is said next opens the next call, or is about one that is open.
LEMMA OpenedSoFar ==
  ASSUME NEW said, WellTalked(said), NEW i \in 0..(Len(said) - 1)
  PROVE  LET u == said[i + 1] IN
         /\ i \in Nat /\ i + 1 \in 1..Len(said) /\ u \in Utterances
         /\ u.kind = "call" => Opened(said, i) = 1..(u.call - 1)
         /\ u.kind = "args" => u.call \in Opened(said, i)
<1>1. Len(said) \in Nat /\ DOMAIN said = 1..Len(said) BY SeqDomain DEF WellTalked
<1>2. i \in Nat /\ i + 1 \in 1..Len(said) /\ (i + 1) - 1 = i BY <1>1
<1>3. said[i + 1] \in Utterances BY <1>2 DEF WellTalked
<1>4. WellSaid(said) BY DEF WellTalked
<1>5. LET opened == {said[j].call : j \in {j \in 1..((i + 1) - 1) : said[j].kind = "call"}} IN
      /\ said[i + 1].kind = "call" => opened = 1..(said[i + 1].call - 1)
      /\ said[i + 1].kind = "args" => said[i + 1].call \in opened BY <1>1, <1>2, <1>4 DEF WellSaid
<1> QED BY <1>2, <1>3, <1>5 DEF Opened

\* An interval from 1 tells its end.
LEMMA IntervalsMatch ==
  ASSUME NEW a \in Nat, NEW b \in Nat, 1..a = 1..b
  PROVE  a = b
<1>1. CASE a < b
  <2>1. b \in 1..b /\ ~(b \in 1..a) BY <1>1
  <2> QED BY <2>1
<1>2. CASE b < a
  <2>1. a \in 1..a /\ ~(a \in 1..b) BY <1>2
  <2> QED BY <2>1
<1> QED BY <1>1, <1>2

\* Arguments are what is said next.
ArgsNext(loose, said, i, h) ==
  /\ WellTalked(said) /\ (loose \/ ~Interleaved(said)) /\ i \in 0..(Len(said) - 1)
  /\ IsSeq(h.calls) /\ Talked(loose, said, i, h) /\ said[i + 1].kind = "args"

ArgsPlaced(loose, said, i, h) ==
  /\ said[i + 1].call \in 1..Len(h.calls)
  /\ loose \/ (i > 0 /\ h.last = "call" /\ said[i].call = said[i + 1].call
                     /\ said[i + 1].call = Len(h.calls))

\* Their place: their call's, and the last call's unless some are interleaved.
LEMMA ArgsPlace ==
  ASSUME NEW said, NEW loose, NEW i, NEW h, ArgsNext(loose, said, i, h)
  PROVE  ArgsPlaced(loose, said, i, h)
<1>0. /\ WellTalked(said) /\ (loose \/ ~Interleaved(said)) /\ i \in 0..(Len(said) - 1)
      /\ IsSeq(h.calls) /\ Talked(loose, said, i, h) /\ said[i + 1].kind = "args" BY DEF ArgsNext
<1>1. /\ i \in Nat /\ i + 1 \in 1..Len(said) /\ (i + 1) - 1 = i
      /\ said[i + 1].call \in Opened(said, i) /\ said[i + 1] \in Utterances
      /\ DOMAIN said = 1..Len(said) /\ IsSeq(said) BY <1>0, OpenedSoFar, SeqDomain DEF WellTalked
<1>2. said[i + 1].call \in 1..Len(h.calls) BY <1>0, <1>1 DEF Talked
<1>3. CASE ~loose
  <2>1. i > 0
    <3>1. CASE i = 0
      <4>1. Opened(said, 0) = {} BY DEF Opened
      <4> QED BY <1>0, <1>1, <3>1, <4>1
    <3> QED BY <1>1, <3>1
  <2>2. said[i].call = said[i + 1].call
    <3>1. ~Interleaved(said) BY <1>0, <1>3
    <3>2. ~(said[i + 1].kind = "args" /\ said[(i + 1) - 1].call # said[i + 1].call)
      BY <1>0, <1>1, <3>1 DEF Interleaved
    <3> QED BY <1>0, <1>1, <3>2
  <2>3. said[i + 1].call # 0 BY <1>0, <1>1, UtteranceIs
  <2>4. h.last = "call" /\ said[i].call = Len(h.calls) BY <1>0, <1>3, <2>1, <2>2, <2>3 DEF Talked
  <2>5. said[i + 1].call = Len(h.calls) BY <2>2, <2>4
  <2> QED BY <1>2, <2>1, <2>2, <2>4, <2>5 DEF ArgsPlaced
<1> QED BY <1>2, <1>3 DEF ArgsPlaced

\* Each kind of utterance may be told, and leaves the answer told so far.
Live(h) == StoryIsSound(h) /\ h.begun /\ ~h.done

\* The calls of a story under way.
LEMMA LiveCalls ==
  ASSUME NEW h, Live(h)
  PROVE  /\ IsSeq(h.calls) /\ Len(h.calls) \in Nat
         /\ \A i \in 1..Len(h.calls) : DOMAIN h.calls[i] = CallFields /\ IsSeq(h.calls[i].args)
<1>1. IsSeq(h.calls) BY DEF Live, StoryIsSound
<1> QED BY <1>1, SeqDomain DEF Live, StoryIsSound

\* The story follows words said next,
LEMMA TalkWords ==
  ASSUME NEW said, WellTalked(said), NEW loose, NEW i \in 0..(Len(said) - 1),
         NEW h, Live(h), Talked(loose, said, i, h), said[i + 1].kind \in {"think", "text"},
         NEW delta, delta.d \in {"think", "text"}, IsSeq(delta.body), NEW k, k = After(h, delta)
  PROVE  Allowed(loose, h, delta) /\ Talked(loose, said, i + 1, k) /\ Live(k)
<1>1. Allowed(loose, h, delta) BY DEF Allowed, Live
<1>2. Worded(h, delta, k) BY WordsAreWorded DEF Live
<1>3. k.calls = h.calls /\ Aside(h, k) BY <1>2 DEF Worded
<1>4. StoryIsSound(k) BY <1>1, StoryStaysSound DEF Live
<1>5. i \in Nat /\ said[i + 1] \in Utterances BY OpenedSoFar
<1>6. said[i + 1].call = 0 /\ said[i + 1].kind # "call" BY <1>5, UtteranceIs
<1>7. Opened(said, i + 1) = Opened(said, i) BY <1>5, <1>6, OpenedMore
<1>8. \A c \in 1..Len(h.calls) :
         Complete(h.calls[c].args) => \A j \in ArgsOf(said, c) : j <= i + 1
  <2> SUFFICES ASSUME NEW c \in 1..Len(h.calls), Complete(h.calls[c].args),
                      NEW j \in ArgsOf(said, c)
               PROVE  j <= i + 1 OBVIOUS
  <2>1. j <= i BY DEF Talked
  <2>2. j \in Nat
    <3>1. DOMAIN said = 1..Len(said) BY SeqDomain DEF WellTalked
    <3> QED BY <3>1 DEF ArgsOf
  <2> QED BY <1>5, <2>1, <2>2
<1>9. Talked(loose, said, i + 1, k) BY <1>3, <1>6, <1>7, <1>8 DEF Talked
<1> QED BY <1>1, <1>3, <1>4, <1>9 DEF Live, Aside

\* a call opened next
LEMMA TalkCall ==
  ASSUME NEW said, WellTalked(said), NEW loose, NEW i \in 0..(Len(said) - 1),
         NEW h, Live(h), Talked(loose, said, i, h), said[i + 1].kind = "call",
         NEW delta, delta.d = "call", delta.call = said[i + 1].call,
         \A n \in 1..Len(h.calls) : h.calls[n].index # delta.index,
         NEW k, k = After(h, delta)
  PROVE  /\ Allowed(loose, h, delta) /\ Talked(loose, said, i + 1, k) /\ Live(k)
         /\ said[i + 1].call = Len(h.calls) + 1
<1>1. /\ i \in Nat /\ said[i + 1] \in Utterances
      /\ Opened(said, i) = 1..(said[i + 1].call - 1) BY OpenedSoFar
<1>2. said[i + 1].call \in 1..2 BY <1>1, UtteranceIs
<1>3. PICK n, c : n = Len(h.calls) /\ c = said[i + 1].call OBVIOUS
<1>4. n \in Nat /\ IsSeq(h.calls) BY <1>3, LiveCalls
<1>5. c = n + 1
  <2>1. 1..n = 1..(c - 1) BY <1>1, <1>3 DEF Talked
  <2>2. c - 1 \in Nat BY <1>2, <1>3
  <2>3. n = c - 1 BY <1>4, <2>1, <2>2, IntervalsMatch
  <2> QED BY <1>2, <1>3, <1>4, <2>3
<1>6. Allowed(loose, h, delta)
  <2>1. delta.call # 0 BY <1>2
  <2> QED BY <2>1 DEF Allowed, Live
<1>7. StoryIsSound(k) BY <1>6, StoryStaysSound DEF Live
<1>8. Called(h, delta, k) BY CallIsCalled DEF Live
<1>9. PICK x : x = [index |-> delta.index, call |-> delta.call, args |-> <<>>] OBVIOUS
<1>10. PICK s, t : s = h.calls /\ t = k.calls OBVIOUS
<1>11. t = Append(s, x) /\ Aside(h, k) /\ k.last = "call" BY <1>8, <1>9, <1>10 DEF Called
<1>12. /\ Len(t) = n + 1 /\ (\A m \in 1..n : t[m] = s[m]) /\ t[n + 1] = x
  <2>1. IsSeq(s) /\ Len(s) = n BY <1>3, <1>4, <1>10
  <2>2. /\ Len(Append(s, x)) = Len(s) + 1 /\ (\A m \in 1..Len(s) : Append(s, x)[m] = s[m])
        /\ Append(s, x)[Len(s) + 1] = x BY ONLY <2>1, SeqMore
  <2> QED BY <1>11, <2>1, <2>2
<1>13. Opened(said, i + 1) = 1..(n + 1)
  <2>1. Opened(said, i + 1) = Opened(said, i) \cup {c} BY <1>1, <1>3, OpenedMore
  <2>2. Opened(said, i) = 1..n BY <1>3 DEF Talked
  <2>3. 1..(n + 1) = 1..n \cup {n + 1} BY <1>4
  <2> QED BY <1>5, <2>1, <2>2, <2>3
<1>14. \A m \in 1..(n + 1) :
         Complete(t[m].args) => \A j \in ArgsOf(said, m) : j <= i + 1
  <2> SUFFICES ASSUME NEW m \in 1..(n + 1), Complete(t[m].args), NEW j \in ArgsOf(said, m)
               PROVE  j <= i + 1 OBVIOUS
  <2>1. m # n + 1
    <3>1. CASE m = n + 1
      <4>1. t[m].args = <<>> BY <1>9, <1>12, <3>1
      <4> QED BY <4>1 DEF Complete
    <3> QED BY <3>1
  <2>2. m \in 1..n BY <1>4, <2>1
  <2>3. Complete(h.calls[m].args) BY <1>10, <1>12, <2>2
  <2>4. j <= i BY <1>3, <2>2, <2>3 DEF Talked
  <2>5. j \in Nat
    <3>1. DOMAIN said = 1..Len(said) BY SeqDomain DEF WellTalked
    <3> QED BY <3>1 DEF ArgsOf
  <2> QED BY <1>1, <2>4, <2>5
<1>15. Talked(loose, said, i + 1, k)
  <2>1. Len(k.calls) = n + 1 BY <1>10, <1>12
  <2> QED BY <1>3, <1>5, <1>10, <1>11, <1>13, <1>14, <2>1 DEF Talked
<1> QED BY <1>3, <1>5, <1>6, <1>7, <1>11, <1>15 DEF Live, Aside

\* and arguments said next, which find their call.
LEMMA TalkArgs ==
  ASSUME NEW plan_, NEW said, said = plan_.said, WellTalked(said), NEW loose, loose \/ ~Interleaved(said),
         NEW i \in 0..(Len(said) - 1),
         NEW h, Live(h), Talked(loose, said, i, h), said[i + 1].kind = "args",
         NEW delta, delta.d = "args", delta.body = <<Piece(plan_, i + 1)>>,
         delta.index = h.calls[said[i + 1].call].index, NEW k, k = After(h, delta)
  PROVE  /\ Allowed(loose, h, delta) /\ Talked(loose, said, i + 1, k) /\ Live(k)
<1>1. /\ i \in Nat /\ i + 1 \in 1..Len(said) /\ DOMAIN said = 1..Len(said)
  BY OpenedSoFar, SeqDomain DEF WellTalked
<1>2. PICK n, c, p : n = Len(h.calls) /\ c = said[i + 1].call /\ p = Piece(plan_, i + 1) OBVIOUS
<1>3. n \in Nat /\ IsSeq(h.calls) BY <1>2, LiveCalls
<1>4. /\ c \in 1..n
      /\ loose \/ (i > 0 /\ h.last = "call" /\ said[i].call = c /\ c = n)
  <2>1. ArgsNext(loose, said, i, h) BY <1>3, LiveCalls DEF ArgsNext
  <2>2. ArgsPlaced(loose, said, i, h) BY ONLY <2>1, ArgsPlace
  <2> QED BY <1>2, <2>2 DEF ArgsPlaced
<1>5. ~Complete(h.calls[c].args)
  <2>1. i + 1 \in ArgsOf(said, c) BY <1>1, <1>2 DEF ArgsOf
  <2>2. ~(i + 1 <= i) BY <1>1
  <2> QED BY <1>2, <1>4, <2>1, <2>2 DEF Talked
<1>6. IsSeq(delta.body) /\ delta.body = <<p>> BY <1>2, SeqOne
<1>7. Allowed(loose, h, delta)
  <2>1. AwaitsArgs(loose, h, delta.index) BY <1>2, <1>4, <1>5 DEF AwaitsArgs
  <2> QED BY <1>6, <2>1 DEF Allowed, Live
<1>8. StoryIsSound(k) BY <1>7, StoryStaysSound DEF Live
<1>9. Argued(h, delta, k) BY ArgsAreArgued DEF Live
<1>10. PICK s, t, index, body : /\ s = h.calls /\ t = k.calls
                               /\ index = delta.index /\ body = delta.body OBVIOUS
<1>11. t = WithArgs(s, index, body) /\ Aside(h, k) /\ k.last = h.last BY <1>9, <1>10 DEF Argued
<1>12. /\ Len(t) = n
       /\ \A m \in 1..n : t[m].args = IF s[m].index = index THEN s[m].args \o body ELSE s[m].args
  <2>1. /\ IsSeq(s) /\ IsSeq(body) /\ Len(s) = n
        /\ \A m \in 1..Len(s) : DOMAIN s[m] = CallFields /\ IsSeq(s[m].args)
    BY <1>2, <1>3, <1>6, <1>10, LiveCalls
  <2>2. LET after == WithArgs(s, index, body) IN
        /\ Len(after) = Len(s)
        /\ \A m \in 1..Len(s) :
             after[m].args = IF s[m].index = index THEN s[m].args \o body ELSE s[m].args
    BY ONLY <2>1, CallsAfterArgs
  <2> QED BY <1>11, <2>1, <2>2
<1>13. \A m \in 1..n : Complete(t[m].args) => \A j \in ArgsOf(said, m) : j <= i + 1
  <2> SUFFICES ASSUME NEW m \in 1..n, Complete(t[m].args), NEW j \in ArgsOf(said, m)
               PROVE  j <= i + 1 OBVIOUS
  <2>0. j \in Nat /\ i \in Nat BY <1>1 DEF ArgsOf
  <2>1. CASE s[m].index = index
    <3>1. m = c
      <4>1. s[m].index = s[c].index BY <1>2, <1>10, <2>1
      <4> QED BY <1>2, <1>4, <1>10, <4>1 DEF Live, StoryIsSound
    <3>2. t[m].args = s[m].args \o <<p>> BY <1>6, <1>10, <1>12, <2>1
    <3>3. p.last
      <4>1. PICK a : a = s[m].args OBVIOUS
      <4>2. IsSeq(a) BY <1>2, <1>10, <4>1, LiveCalls
      <4>3. PICK one : one = <<p>> OBVIOUS
      <4>4. IsSeq(one) /\ Len(one) = 1 /\ one[1] = p BY <4>3, SeqOne
      <4>5. Len(a) \in Nat BY <4>2, SeqDomain
      <4>6. Len(a \o one) = Len(a) + 1 /\ (a \o one)[Len(a) + 1] = p
        <5>1. Len(a \o one) = Len(a) + Len(one) /\ \A x \in 1..Len(one) : (a \o one)[Len(a) + x] = one[x]
          BY ONLY <4>2, <4>4, SeqCat
        <5> QED BY <4>4, <5>1
      <4>7. t[m].args = a \o one BY <3>2, <4>1, <4>3
      <4> QED BY <4>6, <4>7 DEF Complete
    <3>4. \A x \in ArgsOf(plan_.said, plan_.said[i + 1].call) : x <= i + 1 BY <1>2, <3>3 DEF Piece
    <3> QED BY <1>2, <3>1, <3>4
  <2>2. CASE s[m].index # index
    <3>1. t[m].args = h.calls[m].args BY <1>10, <1>12, <2>2
    <3>2. j <= i BY <1>2, <3>1 DEF Talked
    <3> QED BY <2>0, <3>2
  <2> QED BY <2>1, <2>2
<1>14. Opened(said, i + 1) = 1..n BY <1>1, <1>2, OpenedMore DEF Talked
<1>15. loose \/ (k.last = "call" /\ said[i + 1].call = n) BY <1>2, <1>4, <1>11
<1>16. Talked(loose, said, i + 1, k) BY <1>10, <1>12, <1>13, <1>14, <1>15 DEF Talked
<1> QED BY <1>7, <1>8, <1>11, <1>16 DEF Live, Aside

\* What is sure of an answer.
PlanIsSound(p, plan_) ==
  /\ WellTalked(plan_.said)
  /\ p \in {"claude", "gemini"} => ~Interleaved(plan_.said)
  /\ plan_.reason \in {"stop", "length", "content_filter"} \cup (IF p \in {"chat", "claude"} THEN {""} ELSE {})
  /\ plan_.fate \in {"ends", "errors", "fails", "errs late"}
  /\ p \in {"chat", "gemini"} => plan_.fate = "ends"
  /\ plan_.tail \in {"apart", "split", "together"}
  /\ p \in {"claude", "responses"} => plan_.tail # "together"

\* What is said is a sequence of utterances.
LEMMA SaidIsSeq ==
  ASSUME NEW said \in SeqOf(Utterances, MaxSaid)
  PROVE  IsSeq(said) /\ \A i \in 1..Len(said) : said[i] \in Utterances
<1>1. PICK m \in 0..MaxSaid : said \in [1..m -> Utterances] BY DEF SeqOf
<1>2. m \in Nat BY MaxSaidAssumption
<1>3. said = [i \in 1..m |-> said[i]] BY <1>1
<1>4. IsSeq(said) /\ Len(said) = m BY <1>2, <1>3, SeqFunction
<1> QED BY <1>1, <1>4

\* Every plan of an upstream is a sound one.
LEMMA PlansAreSound ==
  ASSUME NEW p \in Protocols, NEW plan_ \in Plans(p)
  PROVE  PlanIsSound(p, plan_)
<1> DEFINE talk == {said \in SeqOf(Utterances, MaxSaid) :
                       /\ WellSaid(said)
                       /\ p \in {"claude", "gemini"} => ~Interleaved(said)}
           reasons == {"stop", "length", "content_filter"}
                          \cup (IF p \in {"chat", "claude"} THEN {""} ELSE {})
           fates == {"ends"} \cup (IF p \in {"claude", "responses"}
                                   THEN {"errors", "fails", "errs late"} ELSE {})
           tails == {"apart", "split"} \cup (IF p \in {"chat", "gemini"} THEN {"together"} ELSE {})
<1>1. /\ plan_.said \in talk /\ plan_.reason \in reasons /\ plan_.fate \in fates
      /\ plan_.tail \in tails
  <2> DEFINE brief == {said \in talk : Len(said) <= 2 /\ \A i \in DOMAIN said : said[i].kind # "think"}
             ways == [said : talk, reason : {"stop", "length"}, counts : {Plain}, dialect : {"own"},
                      tail : {"apart"}, fate : {"ends"}, asks : {TRUE}]
             costs == [said : brief, reason : reasons, counts : {Plain, Costly},
                       dialect : {"own", "foreign", "absurd"}, tail : tails, fate : fates,
                       asks : BOOLEAN]
  <2>1. plan_ \in ways \/ plan_ \in costs BY Zenon DEF Plans
  <2>2. brief \subseteq talk OBVIOUS
  <2>3. "stop" \in reasons /\ "length" \in reasons /\ "ends" \in fates /\ "apart" \in tails
    OBVIOUS
  <2> HIDE DEF talk, brief, reasons, fates, tails
  <2>4. CASE plan_ \in ways BY <2>3, <2>4
  <2>5. CASE plan_ \in costs BY <2>2, <2>5
  <2> QED BY <2>1, <2>4, <2>5
<1>2. WellTalked(plan_.said) BY <1>1, SaidIsSeq DEF WellTalked
<1>3. p \in {"claude", "gemini"} => ~Interleaved(plan_.said) BY <1>1
<1>4. /\ plan_.fate \in {"ends", "errors", "fails", "errs late"}
      /\ p \in {"chat", "gemini"} => plan_.fate = "ends" BY <1>1
<1>5. /\ plan_.tail \in {"apart", "split", "together"}
      /\ p \in {"claude", "responses"} => plan_.tail # "together" BY <1>1
<1>6. plan_.reason \in reasons BY <1>1
<1> HIDE DEF talk, fates, tails
<1> QED BY <1>2, <1>3, <1>4, <1>5, <1>6, Zenon DEF PlanIsSound
----------------------------------------
(* What the gateway has made of an upstream's answer, and its own client   *)
(* of the same frames, before the end.                                     *)

\* The index and the place of each call.
Placed(h, c, index, at) ==
  \A i \in 1..Len(h.calls) : h.calls[i].index = index[i] /\ c.calls[i].at = at[i]

Calm(x) ==
  /\ StoryIsSound(x.h) /\ Heard(x.h, x.source) /\ ~x.h.done
  /\ ~x.source.over /\ x.stated = ""
  /\ x.dec.started \in BOOLEAN /\ (x.dec.started <=> x.h.begun)
  /\ x.dec.done = FALSE /\ x.dec.completed = FALSE /\ x.dec.failed = FALSE

\* An upstream under way agrees with its own client.
LEMMA CalmAgrees ==
  ASSUME NEW w, NEW x, Calm(x)
  PROVE  Agrees(w, x)
BY DEF Calm, Agrees, Heard, AwaitsFinish

\* Before the first frame.
AtFirst == [dec |-> NewDecoder, h |-> NewStory, source |-> NewClient, stated |-> ""]

\* So does one not heard yet.
LEMMA BegunCalm ==
  ASSUME NEW x, x = AtFirst
  PROVE  Calm(x) /\ ~x.h.begun /\ x.h.calls = <<>> /\ x.dec.callOf = <<>>
<1>1. /\ x.h.think = <<>> /\ x.h.text = <<>> /\ x.h.calls = <<>> /\ ~x.h.done /\ x.h.begun = FALSE
  BY DEF AtFirst, NewStory
<1>2. /\ DOMAIN x.source = CliFields /\ x.source.think = <<>> /\ x.source.text = <<>>
      /\ x.source.calls = <<>> /\ x.source.over = FALSE BY DEF AtFirst, NewClient, CliFields
<1>3. /\ x.dec.started = FALSE /\ x.dec.done = FALSE /\ x.dec.completed = FALSE
      /\ x.dec.failed = FALSE /\ x.dec.callOf = <<>> BY DEF AtFirst, NewDecoder
<1>4. x.stated = "" /\ x.h = NewStory BY DEF AtFirst
<1>5. Heard(x.h, x.source) BY <1>1, <1>2, MirrorsNone DEF Heard
<1> QED BY <1>1, <1>2, <1>3, <1>4, <1>5, NewStoryIsSound DEF Calm

\* Nothing said, no call told.
LEMMA TalkedNone ==
  ASSUME NEW loose, NEW said, NEW h, h.calls = <<>>
  PROVE  Talked(loose, said, 0, h)
<1>1. Len(h.calls) = 0 BY SeqEmpty
<1>2. Opened(said, 0) = {} BY DEF Opened
<1> QED BY <1>1, <1>2 DEF Talked

----------------------------------------
(* Deltas that may be left out. *)

LEMMA TellsWhen ==
  ASSUME NEW with, NEW a, NEW x, NEW b, NEW condition \in BOOLEAN,
         condition => Follows(with, a, x, b), ~condition => b = a
  PROVE  Tells(with, a, When(condition, <<x>>), b)
<1>1. CASE condition
  <2>1. When(condition, <<x>>) = <<x>> BY <1>1, Zenon DEF When
  <2>2. Tells(with, a, <<x>>, b) BY <1>1, TellsOne
  <2> QED BY <2>1, <2>2
<1>2. CASE ~condition
  <2>1. When(condition, <<x>>) = <<>> BY <1>2, Zenon DEF When
  <2>2. Tells(with, a, <<>>, a) BY TellsNone
  <2> QED BY <1>2, <2>1, <2>2
<1> QED BY <1>1, <1>2

\* Usage is not of the story.
LEMMA TellsUsage ==
  ASSUME NEW with, NEW a, NEW u, NEW condition \in BOOLEAN
  PROVE  Tells(with, a, When(condition, <<UsageOf(u)>>), a)
<1>1. PICK x : x = UsageOf(u) OBVIOUS
<1>2. x.d = "usage" BY <1>1 DEF UsageOf
<1>3. Follows(with, a, x, a) BY <1>2 DEF Follows, Allowed, After
<1>4. Tells(with, a, When(condition, <<x>>), a) BY <1>3, TellsWhen
<1> QED BY <1>1, <1>4

\* The first frame begins the story.
Outset(h, k) ==
  /\ StoryIsSound(k) /\ k.begun /\ k.done = h.done /\ k.reason = h.reason
  /\ k.think = h.think /\ k.text = h.text /\ k.calls = h.calls /\ k.last = h.last

\* A start comes once.
LEMMA TellsStart ==
  ASSUME NEW with, NEW h, StoryIsSound(h), NEW started \in BOOLEAN, started <=> h.begun
  PROVE  \E k : Outset(h, k) /\ Tells(with, h, When(~started, <<Start>>), k)
<1>1. PICK x : x = Start OBVIOUS
<1>2. x.d = "start" BY <1>1 DEF Start
<1>3. CASE started
  <2>1. Tells(with, h, When(~started, <<x>>), h) BY <1>3, TellsWhen
  <2>2. Outset(h, h) BY <1>3 DEF Outset
  <2> QED BY <1>1, <2>1, <2>2
<1>4. CASE ~started
  <2>1. PICK k : k = After(h, x) OBVIOUS
  <2>2. Allowed(with, h, x) BY <1>2, <1>4 DEF Allowed
  <2>3. StoryIsSound(k) BY <2>1, <2>2, StoryStaysSound
  <2>4. Begins(h, k) BY <1>2, <2>1, StartBegins
  <2>5. Outset(h, k) BY <2>3, <2>4 DEF Outset, Begins
  <2>6. Follows(with, h, x, k) BY <2>1, <2>2 DEF Follows
  <2>7. Tells(with, h, When(~started, <<x>>), k) BY <1>4, <2>6, TellsWhen
  <2> QED BY <1>1, <2>5, <2>7
<1> QED BY <1>3, <1>4

\* A story that may stop now, and that has, if it does.
MayStop(h, finishes, reason) ==
  /\ StoryIsSound(h) /\ h.begun /\ reason \in Reasons /\ finishes \in BOOLEAN
  /\ finishes => ~h.done

Stopped(with, h, finishes, reason, k) ==
  /\ Tells(with, h, When(finishes, <<Done(reason)>>), k) /\ StoryIsSound(k)
  /\ finishes => Stops(h, Done(reason), k)
  /\ ~finishes => k = h

\* Its last delta ends it.
LEMMA TellsDone ==
  ASSUME NEW with, NEW h, NEW reason, NEW finishes, MayStop(h, finishes, reason)
  PROVE  \E k : Stopped(with, h, finishes, reason, k)
<1>0. /\ StoryIsSound(h) /\ h.begun /\ reason \in Reasons /\ finishes \in BOOLEAN
      /\ finishes => ~h.done BY DEF MayStop
<1>1. PICK x : x = Done(reason) OBVIOUS
<1>2. x.d = "done" /\ x.reason = reason BY <1>1 DEF Done
<1>3. CASE finishes
  <2>1. PICK k : k = After(h, x) OBVIOUS
  <2>2. Allowed(with, h, x) BY <1>0, <1>2, <1>3 DEF Allowed
  <2>3. StoryIsSound(k) BY <1>0, <2>1, <2>2, StoryStaysSound
  <2>4. Stops(h, x, k) BY <1>0, <1>2, <2>1, DoneStops
  <2>5. Follows(with, h, x, k) BY <2>1, <2>2 DEF Follows
  <2>6. Tells(with, h, When(finishes, <<x>>), k) BY <1>3, <2>5, TellsWhen
  <2>7. Stopped(with, h, finishes, reason, k) BY <1>1, <1>3, <2>3, <2>4, <2>6 DEF Stopped
  <2> QED BY <2>7
<1>4. CASE ~finishes
  <2>1. Tells(with, h, When(finishes, <<x>>), h) BY <1>0, <1>4, TellsWhen
  <2>2. Stopped(with, h, finishes, reason, h) BY <1>0, <1>1, <1>4, <2>1 DEF Stopped
  <2> QED BY <2>2
<1> QED BY <1>0, <1>3, <1>4

\* Sequences of none and of one.
LEMMA FlattenFew ==
  ASSUME NEW ss, IsSeq(ss)
  PROVE  /\ Len(ss) = 0 => FlattenSeq(ss) = <<>>
         /\ Len(ss) = 1 /\ IsSeq(ss[1]) => FlattenSeq(ss) = ss[1]
<1>1. CASE Len(ss) = 0
  <2>1. \A i \in 1..Len(ss) : IsSeq(ss[i]) BY <1>1
  <2>2. PICK P : P[0] = <<>> /\ P[Len(ss)] = FlattenSeq(ss) BY <2>1, FlattenSteps
  <2> QED BY <1>1, <2>2
<1>2. CASE Len(ss) = 1 /\ IsSeq(ss[1])
  <2>1. \A i \in 1..Len(ss) : i = 1 BY <1>2
  <2>2. \A i \in 1..Len(ss) : IsSeq(ss[i]) BY <1>2, <2>1
  <2>3. PICK P : /\ P[0] = <<>> /\ P[Len(ss)] = FlattenSeq(ss)
                 /\ \A i \in 1..Len(ss) : P[i] = P[i - 1] \o ss[i] BY <2>2, FlattenSteps
  <2>4. PICK none : none = <<>> OBVIOUS
  <2>5. none \o ss[1] = ss[1]
    <3>1. <<>> \o ss[1] = ss[1] BY <1>2, SeqCat, SeqEmpty
    <3> QED BY <2>4, <3>1
  <2>6. P[1] = P[0] \o ss[1]
    <3>1. 1 \in 1..Len(ss) /\ 1 - 1 = 0 BY <1>2
    <3> QED BY <2>3, <3>1
  <2> QED BY <1>2, <2>3, <2>4, <2>5, <2>6
<1> QED BY <1>1, <1>2

----------------------------------------
(* A chat completions upstream. *)

ThinkIn(f) == When(f.think # <<>>, <<Thinking(f.think)>>)
TextIn(f) == When(f.text # <<>>, <<Text(f.text)>>)
CallsIn(f) == FlattenSeq([i \in DOMAIN f.calls |-> chatToolCall(f.calls[i])])

\* What the middle of a chunk tells.
ChunkTells(loose, h, f, k) ==
  \E b, c : /\ Tells(loose, h, ThinkIn(f), b) /\ Tells(loose, b, TextIn(f), c)
            /\ Tells(loose, c, CallsIn(f), k)

\* A chunk without calls has none in it,
LEMMA NoCalls ==
  ASSUME NEW f, f.calls = <<>>
  PROVE  CallsIn(f) = <<>>
<1>1. PICK ss : ss = [i \in DOMAIN f.calls |-> chatToolCall(f.calls[i])] OBVIOUS
<1>2. DOMAIN f.calls = {} BY SeqEmpty
<1>3. ss = [i \in 1..0 |-> ss[i]] BY <1>1, <1>2
<1>4. IsSeq(ss) /\ Len(ss) = 0 BY <1>3, SeqFunction
<1>5. FlattenSeq(ss) = <<>> BY <1>4, FlattenFew
<1> QED BY <1>1, <1>5 DEF CallsIn

\* and one with a call has that one.
LEMMA OneCall ==
  ASSUME NEW f, NEW tc, f.calls = <<tc>>, IsSeq(chatToolCall(tc))
  PROVE  CallsIn(f) = chatToolCall(tc)
<1>1. PICK ss, s : ss = [i \in DOMAIN f.calls |-> chatToolCall(f.calls[i])] /\ s = chatToolCall(tc)
  OBVIOUS
<1>2. DOMAIN f.calls = 1..1 /\ f.calls[1] = tc BY SeqOne, Zenon
<1>3. ss = [i \in 1..1 |-> ss[i]] /\ ss[1] = s BY <1>1, <1>2
<1>4. IsSeq(ss) /\ Len(ss) = 1 BY <1>3, SeqFunction
<1>5. FlattenSeq(ss) = s BY <1>1, <1>3, <1>4, FlattenFew
<1> QED BY <1>1, <1>5 DEF CallsIn

\* A chunk of nothing tells nothing.
LEMMA SilentChunk ==
  ASSUME NEW loose, NEW h, NEW f, f.think = <<>>, f.text = <<>>, f.calls = <<>>
  PROVE  ChunkTells(loose, h, f, h)
<1>1. ThinkIn(f) = <<>> /\ TextIn(f) = <<>> BY Zenon DEF ThinkIn, TextIn, When
<1>2. CallsIn(f) = <<>> BY NoCalls
<1>3. Tells(loose, h, <<>>, h) BY TellsNone
<1>4. /\ Tells(loose, h, ThinkIn(f), h) /\ Tells(loose, h, TextIn(f), h)
      /\ Tells(loose, h, CallsIn(f), h) BY <1>1, <1>2, <1>3
<1> QED BY <1>4 DEF ChunkTells

\* A delta as the chat decoder makes it.
WholeCall(delta) ==
  \/ delta.d = "think" /\ delta = Thinking(delta.body) /\ delta.body # <<>>
  \/ delta.d = "text" /\ delta = Text(delta.body) /\ delta.body # <<>>
  \/ delta.d = "call" /\ delta = ToolCallStart(delta.index, delta.call) /\ delta.call # 0
  \/ delta.d = "args" /\ delta = ToolCallArgs(delta.index, delta.body) /\ delta.body # <<>>

\* A call of a chunk comes to the one delta it carries.
LEMMA ToolCallIs ==
  ASSUME NEW tc, NEW delta, WholeCall(delta),
         \/ delta.d = "call" /\ tc.index = delta.index /\ tc.call = delta.call /\ tc.args = <<>>
         \/ delta.d = "args" /\ tc.index = delta.index /\ tc.call = 0 /\ tc.args = delta.body
  PROVE  chatToolCall(tc) = <<delta>>
<1>1. PICK none, one : none = <<>> /\ one = <<delta>> OBVIOUS
<1>2. IsSeq(none) /\ IsSeq(one) BY <1>1, SeqEmpty, SeqOne
<1>3. none \o one = one /\ one \o none = one
  <2>1. one \o <<>> = one /\ <<>> \o one = one BY <1>2, SeqCat
  <2> QED BY <1>1, <2>1
<1>4. CASE delta.d = "call"
  <2>1. When(tc.call # 0, <<ToolCallStart(tc.index, tc.call)>>) = one
    <3>1. ToolCallStart(tc.index, tc.call) = delta /\ tc.call # 0 BY <1>4 DEF WholeCall
    <3> QED BY <1>1, <3>1, Zenon DEF When
  <2>2. When(tc.args # <<>>, <<ToolCallArgs(tc.index, tc.args)>>) = none
    <3>1. tc.args = <<>> BY <1>4
    <3> QED BY <1>1, <3>1, Zenon DEF When
  <2> QED BY <1>1, <1>3, <2>1, <2>2 DEF chatToolCall
<1>5. CASE delta.d = "args"
  <2>1. When(tc.call # 0, <<ToolCallStart(tc.index, tc.call)>>) = none
    <3>1. tc.call = 0 BY <1>5
    <3> QED BY <1>1, <3>1, Zenon DEF When
  <2>2. When(tc.args # <<>>, <<ToolCallArgs(tc.index, tc.args)>>) = one
    <3>1. ToolCallArgs(tc.index, tc.args) = delta /\ tc.args # <<>> BY <1>5 DEF WholeCall
    <3> QED BY <1>1, <3>1, Zenon DEF When
  <2> QED BY <1>1, <1>3, <2>1, <2>2 DEF chatToolCall
<1> QED BY <1>4, <1>5

\* A chunk tells the one delta it carries.
LEMMA LoadedChunk ==
  ASSUME NEW loose, NEW h, NEW delta, WholeCall(delta), NEW f, Carries(f, delta),
         NEW k, Follows(loose, h, delta, k)
  PROVE  ChunkTells(loose, h, f, k)
<1>1. Tells(loose, h, <<delta>>, k) BY TellsOne
<1>2. Tells(loose, h, <<>>, h) /\ Tells(loose, k, <<>>, k) BY TellsNone
<1>3. CASE delta.d = "think"
  <2>1. f.think = delta.body /\ f.text = <<>> /\ f.calls = <<>> BY <1>3 DEF Carries
  <2>2. ThinkIn(f) = <<delta>>
    <3>1. Thinking(f.think) = delta /\ f.think # <<>> BY <1>3, <2>1 DEF WholeCall
    <3> QED BY <3>1, Zenon DEF ThinkIn, When
  <2>3. TextIn(f) = <<>> BY <2>1, Zenon DEF TextIn, When
  <2>4. CallsIn(f) = <<>> BY <2>1, NoCalls
  <2> QED BY <1>1, <1>2, <2>2, <2>3, <2>4, Zenon DEF ChunkTells
<1>4. CASE delta.d = "text"
  <2>1. f.think = <<>> /\ f.text = delta.body /\ f.calls = <<>> BY <1>4 DEF Carries
  <2>2. TextIn(f) = <<delta>>
    <3>1. Text(f.text) = delta /\ f.text # <<>> BY <1>4, <2>1 DEF WholeCall
    <3> QED BY <3>1, Zenon DEF TextIn, When
  <2>3. ThinkIn(f) = <<>> BY <2>1, Zenon DEF ThinkIn, When
  <2>4. CallsIn(f) = <<>> BY <2>1, NoCalls
  <2> QED BY <1>1, <1>2, <2>2, <2>3, <2>4, Zenon DEF ChunkTells
<1>5. CASE delta.d \in {"call", "args"}
  <2>0. PICK tc : /\ f.calls = <<tc>>
                  /\ \/ delta.d = "call" /\ tc.index = delta.index /\ tc.call = delta.call /\ tc.args = <<>>
                     \/ delta.d = "args" /\ tc.index = delta.index /\ tc.call = 0 /\ tc.args = delta.body
    <3>1. CASE delta.d = "call"
      <4>1. PICK tc : tc = [index |-> delta.index, call |-> delta.call, args |-> <<>>] OBVIOUS
      <4>2. f.calls = <<tc>> BY <3>1, <4>1 DEF Carries
      <4>3. tc.index = delta.index /\ tc.call = delta.call /\ tc.args = <<>> BY <4>1
      <4> QED BY <3>1, <4>2, <4>3
    <3>2. CASE delta.d = "args"
      <4>1. PICK tc : tc = [index |-> delta.index, call |-> 0, args |-> delta.body] OBVIOUS
      <4>2. f.calls = <<tc>> BY <3>2, <4>1 DEF Carries
      <4>3. tc.index = delta.index /\ tc.call = 0 /\ tc.args = delta.body BY <4>1
      <4> QED BY <3>2, <4>2, <4>3
    <3> QED BY <1>5, <3>1, <3>2
  <2>1. f.think = <<>> /\ f.text = <<>> BY <1>5 DEF Carries
  <2>2. ThinkIn(f) = <<>> /\ TextIn(f) = <<>> BY <2>1, Zenon DEF ThinkIn, TextIn, When
  <2>3. chatToolCall(tc) = <<delta>> BY <2>0, ToolCallIs
  <2>4. CallsIn(f) = <<delta>> BY <2>0, <2>3, OneCall, SeqOne
  <2> QED BY <1>1, <1>2, <2>2, <2>4, Zenon DEF ChunkTells
<1> QED BY <1>3, <1>4, <1>5 DEF WholeCall

ChatEnded(h, c) == EndClass(c.end) = EndClass(h.reason)

ChatNow(x) ==
  /\ StoryIsSound(x.h) /\ ChatListens(x.h, x.source)
  /\ x.dec.started \in BOOLEAN /\ (x.dec.started <=> x.h.begun)
  /\ x.h.done \in BOOLEAN /\ x.dec.done = x.h.done
  /\ x.dec.completed = FALSE /\ x.dec.failed = FALSE /\ x.dec.callOf = <<>>
  /\ DOMAIN x.dec = DOMAIN NewDecoder
  /\ x.h.done => x.stated = "ended" /\ ChatEnded(x.h, x.source)
  /\ ~x.h.done => x.stated = "" /\ Unended(x.source)

\* The native stops of a chat completions upstream.
ChatStop(finish) ==
  finish = "" \/ (chatReason(finish) \in Reasons /\ EndClass(finish) = EndClass(chatReason(finish)))

\* A chat upstream agrees with its client, ended or not.
LEMMA ChatAgrees ==
  ASSUME NEW w, w.up = "chat", NEW x, ChatNow(x)
  PROVE  Agrees(w, x)
<1>1. Heard(x.h, x.source) BY DEF ChatNow, ChatListens
<1> QED BY <1>1 DEF ChatNow, Agrees, Heard, ChatEnded

\* A chunk is read.
ChatDone(finishes, d, f) == When(finishes /\ ~d.done, <<Done(chatReason(f.finish))>>)
ChatCounts(f) == When(f.usage # Null, <<UsageOf(Judged(OpenAIUsage(f.usage)))>>)

\* What decodeChat makes of a chunk, part by part.
LEMMA ChunkDecoded ==
  ASSUME NEW d, NEW f, f.f = "chunk", NEW finishes \in BOOLEAN, finishes <=> f.finish # ""
  PROVE  DecodeChunk("chat", d, f)
           = Decoded([d EXCEPT !.started = TRUE, !.done = d.done \/ finishes],
                     When(~d.started, <<Start>>) \o ThinkIn(f) \o TextIn(f) \o CallsIn(f)
                        \o ChatDone(finishes, d, f) \o ChatCounts(f))
<1>1. f.f # "[DONE]" OBVIOUS
<1>2. PICK ends : ends = (f.finish # "") OBVIOUS
<1>3. ends = finishes BY <1>2
<1>4. DecodeChunk("chat", d, f) = decodeChat(d, f) BY DEF DecodeChunk
<1>5. decodeChat(d, f)
        = Decoded([d EXCEPT !.started = TRUE, !.done = d.done \/ ends],
                  When(~d.started, <<Start>>) \o ThinkIn(f) \o TextIn(f) \o CallsIn(f)
                     \o ChatDone(ends, d, f) \o ChatCounts(f))
  BY <1>1, <1>2, Zenon DEF decodeChat, ThinkIn, TextIn, CallsIn, ChatDone, ChatCounts
<1> QED BY <1>3, <1>4, <1>5

\* What the chunk makes of the story.
ChatTold(h, k, finishes, m) ==
  /\ StoryIsSound(m) /\ m.begun /\ m.done = (h.done \/ finishes)
  /\ m.think = k.think /\ m.text = k.text /\ m.calls = k.calls /\ m.last = k.last

\* The story at the end of the chunk.
ChatClosed(loose, h, k, d, f, finishes, m) ==
  /\ Tells(loose, k, ChatDone(finishes, d, f), m) /\ ChatTold(h, k, finishes, m)
  /\ finishes => m.reason = chatReason(f.finish)
  /\ ~finishes => m.reason = k.reason

\* The end a chunk states is one the story may have.
LEMMA ChatMayEnd ==
  ASSUME NEW loose, NEW h, h.done \in BOOLEAN, NEW k, StoryIsSound(k), k.begun, k.done = h.done,
         NEW d, d.done = h.done, NEW f, NEW finishes \in BOOLEAN,
         finishes => ~h.done /\ chatReason(f.finish) \in Reasons
  PROVE  \E m : ChatClosed(loose, h, k, d, f, finishes, m)
<1>1. PICK reason : reason = chatReason(f.finish) OBVIOUS
<1>2. CASE finishes
  <2>1. reason \in Reasons /\ ~k.done /\ ~d.done BY <1>1, <1>2
  <2>9. MayStop(k, finishes, reason) BY <2>1 DEF MayStop
  <2>10. \E m : Stopped(loose, k, finishes, reason, m) BY ONLY <2>9, TellsDone
  <2>2. \E m : /\ Tells(loose, k, When(finishes, <<Done(reason)>>), m) /\ StoryIsSound(m)
               /\ finishes => Stops(k, Done(reason), m)
               /\ ~finishes => m = k BY <2>10, Zenon DEF Stopped
  <2>3. PICK m : /\ Tells(loose, k, When(finishes, <<Done(reason)>>), m) /\ StoryIsSound(m)
                 /\ Stops(k, Done(reason), m) BY <1>2, <2>2
  <2>4. (finishes /\ ~d.done) = finishes BY <1>2, <2>1
  <2>5. Tells(loose, k, ChatDone(finishes, d, f), m) BY <1>1, <2>3, <2>4 DEF ChatDone
  <2>6. Done(reason).reason = reason BY DEF Done
  <2>7. ChatTold(h, k, finishes, m) BY <1>2, <2>3 DEF ChatTold, Stops
  <2>8. m.reason = reason BY <2>3, <2>6 DEF Stops
  <2> QED BY <1>1, <1>2, <2>5, <2>7, <2>8 DEF ChatClosed
<1>3. CASE ~finishes
  <2>1. ChatDone(finishes, d, f) = <<>> BY <1>3, Zenon DEF ChatDone, When
  <2>2. Tells(loose, k, <<>>, k) BY TellsNone
  <2>3. (h.done \/ finishes) = h.done BY <1>3
  <2> QED BY <1>3, <2>1, <2>2, <2>3 DEF ChatTold, ChatClosed
<1> QED BY <1>2, <1>3

\* What a chunk tells, from its start to its counts.
LEMMA ChatTells ==
  ASSUME NEW loose, NEW g, NEW d, NEW h, Tells(loose, g, When(~d.started, <<Start>>), h),
         NEW f, NEW k, ChunkTells(loose, h, f, k), NEW finishes, NEW m,
         Tells(loose, k, ChatDone(finishes, d, f), m)
  PROVE  Tells(loose, g, When(~d.started, <<Start>>) \o ThinkIn(f) \o TextIn(f) \o CallsIn(f)
                            \o ChatDone(finishes, d, f) \o ChatCounts(f), m)
<1>1. PICK b, c : /\ Tells(loose, h, ThinkIn(f), b) /\ Tells(loose, b, TextIn(f), c)
                  /\ Tells(loose, c, CallsIn(f), k) BY DEF ChunkTells
<1>2. Tells(loose, m, ChatCounts(f), m)
  <2>1. (f.usage # Null) \in BOOLEAN OBVIOUS
  <2> QED BY <2>1, TellsUsage DEF ChatCounts
<1>3. Tells(loose, g, When(~d.started, <<Start>>) \o ThinkIn(f), b) BY <1>1, TellsCat
<1>4. Tells(loose, g, When(~d.started, <<Start>>) \o ThinkIn(f) \o TextIn(f), c)
  BY <1>1, <1>3, TellsCat
<1>5. Tells(loose, g, When(~d.started, <<Start>>) \o ThinkIn(f) \o TextIn(f) \o CallsIn(f), k)
  BY <1>1, <1>4, TellsCat
<1>6. Tells(loose, g, When(~d.started, <<Start>>) \o ThinkIn(f) \o TextIn(f) \o CallsIn(f)
                         \o ChatDone(finishes, d, f), m) BY <1>5, TellsCat
<1> QED BY <1>2, <1>6, TellsCat

\* The state and the source after it.
ChatGoesOn(w, x, f, k, finishes, y) ==
  /\ Reads(w, x, f, y) /\ ChatNow(y) /\ y.h.begun
  /\ y.h.done = (x.h.done \/ finishes)
  /\ y.h.calls = k.calls /\ y.h.last = k.last

\* A chunk read leaves the decoder and the client in agreement.
LEMMA ChatGoes ==
  ASSUME NEW w, w.up = "chat", NEW x, ChatNow(x), NEW f, f.f = "chunk",
         NEW h, Tells(w.loose, x.h, When(~x.dec.started, <<Start>>), h),
         NEW k, ChunkTells(w.loose, h, f, k),
         StoryIsSound(k), k.begun, k.done = x.h.done, x.h.done => k.reason = x.h.reason,
         NEW r, r = ReadOne("chat", x.source, f), ChatListens(k, r),
         r.end = IF f.finish = "" THEN x.source.end ELSE f.finish,
         NEW finishes \in BOOLEAN, finishes <=> f.finish # "",
         finishes => ~x.h.done /\ ChatStop(f.finish)
  PROVE  \E y : ChatGoesOn(w, x, f, k, finishes, y)
<1> PICK d : d = x.dec OBVIOUS
<1>1. /\ d.started \in BOOLEAN /\ x.h.done \in BOOLEAN /\ d.done = x.h.done
      /\ d.completed = FALSE /\ d.failed = FALSE /\ d.callOf = <<>>
      /\ DOMAIN d = DOMAIN NewDecoder BY DEF ChatNow
<1>2. finishes => /\ chatReason(f.finish) \in Reasons
                  /\ EndClass(f.finish) = EndClass(chatReason(f.finish))
  BY DEF ChatStop, Unstopped
<1>3. PICK m : ChatClosed(w.loose, x.h, k, d, f, finishes, m)
  <2>1. PICK g : g = x.h OBVIOUS
  <2>2. /\ g.done \in BOOLEAN /\ k.done = g.done /\ d.done = g.done /\ StoryIsSound(k) /\ k.begun
        /\ finishes => ~g.done /\ chatReason(f.finish) \in Reasons
        /\ finishes \in BOOLEAN BY <1>1, <1>2, <2>1
  <2>3. \E m : ChatClosed(w.loose, g, k, d, f, finishes, m) BY ONLY <2>2, ChatMayEnd
  <2> QED BY <2>1, <2>3
<1>4. /\ Tells(w.loose, k, ChatDone(finishes, d, f), m) /\ ChatTold(x.h, k, finishes, m)
      /\ m.reason = IF finishes THEN chatReason(f.finish) ELSE k.reason BY <1>3 DEF ChatClosed
<1>5. PICK state : state = [d EXCEPT !.started = TRUE, !.done = d.done \/ finishes] OBVIOUS
<1>6. /\ state.started = TRUE /\ state.done = (d.done \/ finishes) /\ state.completed = FALSE
      /\ state.failed = FALSE /\ state.callOf = <<>> /\ DOMAIN state = DOMAIN NewDecoder
  BY <1>1, <1>5 DEF NewDecoder
<1>7. PICK deltas : /\ DecodeChunk("chat", d, f) = Decoded(state, deltas)
                    /\ Tells(w.loose, x.h, deltas, m)
  <2>1. PICK deltas : deltas = When(~d.started, <<Start>>) \o ThinkIn(f) \o TextIn(f)
                                  \o CallsIn(f) \o ChatDone(finishes, d, f) \o ChatCounts(f)
    OBVIOUS
  <2>2. DecodeChunk("chat", d, f) = Decoded(state, deltas)
    <3>1. f.f = "chunk" /\ finishes \in BOOLEAN /\ (finishes <=> f.finish # "") OBVIOUS
    <3> QED BY ONLY <1>5, <2>1, <3>1, ChunkDecoded, Zenon
  <2>3. Tells(w.loose, x.h, When(~d.started, <<Start>>), h) OBVIOUS
  <2>4. Tells(w.loose, x.h, deltas, m) BY ONLY <1>4, <2>1, <2>3, ChunkTells(w.loose, h, f, k), ChatTells
  <2> QED BY <2>2, <2>4
<1>8. PICK judgement : judgement = IF x.stated = "" THEN EndIn(f) ELSE x.stated OBVIOUS
<1>9. /\ m.done => judgement = "ended"
      /\ ~m.done => judgement = ""
  <2>1. EndIn(f) = IF finishes THEN "ended" ELSE "" BY DEF EndIn
  <2>2. m.done = (x.h.done \/ finishes) BY <1>4 DEF ChatTold
  <2> QED BY <1>8, <2>1, <2>2 DEF ChatNow
<1>10. ChatListens(m, r) BY <1>4 DEF ChatTold, ChatListens, Heard, ByIndex
<1>11. /\ m.done => ChatEnded(m, r)
       /\ ~m.done => Unended(r)
  <2>1. CASE finishes BY <1>2, <1>4, <2>1 DEF ChatEnded, ChatTold
  <2>2. CASE ~finishes
    <3>1. r.end = x.source.end /\ m.reason = k.reason /\ m.done = x.h.done
      BY <1>1, <1>4, <2>2 DEF ChatTold
    <3> QED BY <3>1 DEF ChatEnded, ChatNow, Unended
  <2> QED BY <2>1, <2>2
<1>12. PICK y : y = [dec |-> state, h |-> m, source |-> r, stated |-> judgement] OBVIOUS
<1>13. y.dec = state /\ y.h = m /\ y.source = r /\ y.stated = judgement BY <1>12
<1>14. ChatNow(y)
  <2>1. StoryIsSound(m) /\ m.begun = TRUE /\ m.done \in BOOLEAN /\ state.done = m.done
    <3>1. m.begun /\ StoryIsSound(m) /\ m.done = (x.h.done \/ finishes) BY <1>4 DEF ChatTold
    <3> QED BY <1>1, <1>6, <3>1
  <2> QED BY <1>6, <1>9, <1>10, <1>11, <1>13, <2>1 DEF ChatNow
<1>15. Reads(w, x, f, y)
  <2>1. DecodeChunk(w.up, x.dec, f).state = state /\ DecodeChunk(w.up, x.dec, f).deltas = deltas
    <3>1. DecodeChunk(w.up, x.dec, f) = DecodeChunk("chat", d, f) OBVIOUS
    <3>2. Decoded(state, deltas).state = state /\ Decoded(state, deltas).deltas = deltas
      BY DEF Decoded
    <3> QED BY <1>7, <3>1, <3>2
  <2>2. ~x.source.over /\ f.f # "error" BY DEF ChatNow, ChatListens
  <2>3. Agrees(w, y) BY <1>14, ChatAgrees
  <2> QED BY <1>7, <1>8, <1>13, <2>1, <2>2, <2>3 DEF Reads
<1> QED BY <1>4, <1>13, <1>14, <1>15 DEF ChatGoesOn, ChatTold

\* What the delta of an utterance is.
LEMMA DeltaIs ==
  ASSUME NEW plan_, NEW i, NEW u, u = plan_.said[i], u \in Utterances, NEW index,
         NEW delta, delta = DeltaOf(plan_, i, index)
  PROVE  /\ delta.d = u.kind
         /\ u.kind \in {"think", "text", "args"} =>
              delta.body = <<Piece(plan_, i)>> /\ IsSeq(delta.body) /\ delta.body # <<>>
         /\ u.kind = "call" => delta.index = index /\ delta.call = u.call
         /\ u.kind = "args" => delta.index = index
         /\ WholeCall(delta)
<1>1. PICK body : body = <<Piece(plan_, i)>> OBVIOUS
<1>2. IsSeq(body) /\ body # <<>> BY <1>1, SeqOne, Zenon
<1>3. /\ u.kind \in TalkKinds
      /\ u.kind \in {"call", "args"} => u.call # 0 BY UtteranceIs
<1>4. delta = CASE u.kind = "think" -> Thinking(body)
                [] u.kind = "text" -> Text(body)
                [] u.kind = "call" -> ToolCallStart(index, u.call)
                [] u.kind = "args" -> ToolCallArgs(index, body) BY <1>1, Zenon DEF DeltaOf
<1>5. CASE u.kind = "think"
  <2>1. delta = Thinking(body) BY <1>4, <1>5
  <2>2. delta.d = "think" /\ delta.body = body BY <2>1 DEF Thinking
  <2> QED BY <1>1, <1>2, <1>5, <2>1, <2>2 DEF WholeCall
<1>6. CASE u.kind = "text"
  <2>1. delta = Text(body) BY <1>4, <1>6
  <2>2. delta.d = "text" /\ delta.body = body BY <2>1 DEF Text
  <2> QED BY <1>1, <1>2, <1>6, <2>1, <2>2 DEF WholeCall
<1>7. CASE u.kind = "call"
  <2>1. delta = ToolCallStart(index, u.call) BY <1>4, <1>7
  <2>2. delta.d = "call" /\ delta.index = index /\ delta.call = u.call BY <2>1 DEF ToolCallStart
  <2> QED BY <1>3, <1>7, <2>1, <2>2 DEF WholeCall
<1>8. CASE u.kind = "args"
  <2>1. delta = ToolCallArgs(index, body) BY <1>4, <1>8
  <2>2. delta.d = "args" /\ delta.index = index /\ delta.body = body BY <2>1 DEF ToolCallArgs
  <2> QED BY <1>1, <1>2, <1>8, <2>1, <2>2 DEF WholeCall
<1> QED BY <1>3, <1>5, <1>6, <1>7, <1>8 DEF TalkKinds

\* A chunk carries its utterance; the last may finish.
Closes(plan_, i) == plan_.tail = "together" /\ i = Len(plan_.said)

ChunkFields == {"f", "think", "text", "calls", "finish", "usage"}

\* A chat upstream's chunk for an utterance carries its delta,
LEMMA SaysIs ==
  ASSUME NEW plan_, NEW i, NEW u, u = plan_.said[i], u \in Utterances,
         NEW delta, delta = DeltaOf(plan_, i, u.call), NEW f, f = chatSays(plan_, i)
  PROVE  DOMAIN f = ChunkFields /\ Carries(f, delta) /\ f.finish = ""
<1>1. PICK body, none : body = <<Piece(plan_, i)>> /\ none = <<>> OBVIOUS
<1>2. u.kind \in TalkKinds BY UtteranceIs
<1>3. f = CASE u.kind = "think" -> [NoChunk EXCEPT !.think = body]
            [] u.kind = "text" -> [NoChunk EXCEPT !.text = body]
            [] u.kind = "call" ->
                 [NoChunk EXCEPT !.calls = <<[index |-> u.call, call |-> u.call, args |-> none]>>]
            [] u.kind = "args" ->
                 [NoChunk EXCEPT !.calls = <<[index |-> u.call, call |-> 0, args |-> body]>>]
  BY <1>1, Zenon DEF chatSays
<1>4. /\ DOMAIN NoChunk = ChunkFields /\ NoChunk.f = "chunk" /\ NoChunk.think = none
      /\ NoChunk.text = none /\ NoChunk.calls = none /\ NoChunk.finish = ""
  BY <1>1 DEF NoChunk, ChunkFields
<1>5. /\ delta.d = u.kind
      /\ u.kind \in {"think", "text", "args"} => delta.body = body
      /\ u.kind = "call" => delta.index = u.call /\ delta.call = u.call
      /\ u.kind = "args" => delta.index = u.call BY <1>1, DeltaIs
<1>6. PICK given : given = u.call OBVIOUS
<1>7. CASE u.kind = "think"
  <2>1. f = [NoChunk EXCEPT !.think = body] BY <1>3, <1>7
  <2>2. /\ DOMAIN f = ChunkFields /\ f.f = "chunk" /\ f.think = body
        /\ f.text = none /\ f.calls = none /\ f.finish = "" BY <1>4, <2>1 DEF ChunkFields
  <2> QED BY <1>1, <1>5, <1>7, <2>2 DEF Carries
<1>8. CASE u.kind = "text"
  <2>1. f = [NoChunk EXCEPT !.text = body] BY <1>3, <1>8
  <2>2. /\ DOMAIN f = ChunkFields /\ f.f = "chunk" /\ f.text = body
        /\ f.think = none /\ f.calls = none /\ f.finish = "" BY <1>4, <2>1 DEF ChunkFields
  <2> QED BY <1>1, <1>5, <1>8, <2>2 DEF Carries
<1>9. CASE u.kind = "call"
  <2>0. PICK calls : calls = <<[index |-> u.call, call |-> u.call, args |-> none]>> OBVIOUS
  <2>1. f = [NoChunk EXCEPT !.calls = calls] BY <1>3, <1>9, <2>0
  <2>2. /\ DOMAIN f = ChunkFields /\ f.f = "chunk" /\ f.calls = calls
        /\ f.think = none /\ f.text = none /\ f.finish = "" BY <1>4, <2>1 DEF ChunkFields
  <2>3. calls = <<[index |-> delta.index, call |-> delta.call, args |-> <<>>]>>
    BY <1>1, <1>5, <1>9, <2>0
  <2> QED BY <1>1, <1>5, <1>9, <2>2, <2>3 DEF Carries
<1>10. CASE u.kind = "args"
  <2>0. PICK calls : calls = <<[index |-> u.call, call |-> 0, args |-> body]>> OBVIOUS
  <2>1. f = [NoChunk EXCEPT !.calls = calls] BY <1>3, <1>10, <2>0
  <2>2. /\ DOMAIN f = ChunkFields /\ f.f = "chunk" /\ f.calls = calls
        /\ f.think = none /\ f.text = none /\ f.finish = "" BY <1>4, <2>1 DEF ChunkFields
  <2>3. calls = <<[index |-> delta.index, call |-> 0, args |-> delta.body]>>
    BY <1>1, <1>5, <1>10, <2>0
  <2> QED BY <1>1, <1>5, <1>10, <2>2, <2>3 DEF Carries
<1> QED BY <1>2, <1>7, <1>8, <1>9, <1>10 DEF TalkKinds

\* and its last may carry the end too.
LEMMA ChunkIs ==
  ASSUME NEW plan_, NEW i, NEW u, u = plan_.said[i], u \in Utterances,
         NEW delta, delta = DeltaOf(plan_, i, u.call), NEW f, f = chatChunk(plan_, i)
  PROVE  /\ f.f = "chunk" /\ Carries(f, delta)
         /\ f.finish = IF Closes(plan_, i) THEN NativeStop("chat", plan_) ELSE ""
<1>1. PICK g : g = chatSays(plan_, i) OBVIOUS
<1>2. DOMAIN g = ChunkFields /\ Carries(g, delta) /\ g.finish = "" BY <1>1, SaysIs
<1>3. CASE Closes(plan_, i)
  <2>1. PICK stop, usage : stop = NativeStop("chat", plan_) /\ usage = OnWire("chat", plan_) OBVIOUS
  <2>2. f = [g EXCEPT !.finish = stop, !.usage = usage]
    BY <1>1, <1>3, <2>1, Zenon DEF chatChunk, Closes
  <2>3. /\ f.f = g.f /\ f.think = g.think /\ f.text = g.text /\ f.calls = g.calls /\ f.finish = stop
    BY <1>2, <2>2 DEF ChunkFields
  <2> QED BY <1>2, <1>3, <2>1, <2>3 DEF Carries
<1>4. CASE ~Closes(plan_, i)
  <2>1. f = g BY <1>1, <1>4, Zenon DEF chatChunk, Closes
  <2> QED BY <1>2, <1>4, <2>1 DEF Carries
<1> QED BY <1>3, <1>4

\* A chat upstream's finish_reason is one chatReason knows.
LEMMA ChatStops ==
  ASSUME NEW plan_, PlanIsSound("chat", plan_)
  PROVE  ChatStop(NativeStop("chat", plan_))
<1>1. plan_.reason \in {"stop", "length", "content_filter", ""} BY DEF PlanIsSound
<1>2. NativeStop("chat", plan_) \in {"stop", "tool_calls", "length", "content_filter", ""}
  BY <1>1 DEF NativeStop
<1> QED BY <1>2 DEF ChatStop, chatReason, EndClass, Reasons

\* A call keeps its index.
Indexed(h, delta, k) ==
  LET n == Len(h.calls) IN
  /\ n \in Nat /\ \A m \in 1..n : k.calls[m].index = h.calls[m].index
  /\ delta.d = "call" => Len(k.calls) = n + 1 /\ k.calls[n + 1].index = delta.index
  /\ delta.d # "call" => Len(k.calls) = n

\* A delta leaves the calls' indices, but for the call it opens.
LEMMA AfterIndexed ==
  ASSUME NEW h, StoryIsSound(h), NEW delta, delta.d \in TalkKinds,
         delta.d = "args" => IsSeq(delta.body), NEW k, k = After(h, delta)
  PROVE  Indexed(h, delta, k)
<1>1. PICK s, t, n : s = h.calls /\ t = k.calls /\ n = Len(s) OBVIOUS
<1>2. /\ IsSeq(s) /\ n \in Nat
      /\ \A i \in 1..Len(s) : DOMAIN s[i] = CallFields /\ IsSeq(s[i].args)
  BY <1>1, SeqDomain DEF StoryIsSound
<1>3. CASE delta.d \in {"think", "text"}
  <2>1. t = s BY <1>1, <1>3, WordsAreWorded DEF Worded
  <2> QED BY <1>1, <1>2, <1>3, <2>1 DEF Indexed
<1>4. CASE delta.d = "call"
  <2>1. PICK x : x = [index |-> delta.index, call |-> delta.call, args |-> <<>>] OBVIOUS
  <2>2. t = Append(s, x) BY <1>1, <1>4, <2>1, CallIsCalled DEF Called
  <2>3. /\ Len(Append(s, x)) = Len(s) + 1 /\ (\A m \in 1..Len(s) : Append(s, x)[m] = s[m])
        /\ Append(s, x)[Len(s) + 1] = x BY ONLY <1>2, SeqMore
  <2>4. x.index = delta.index BY <2>1
  <2>5. Len(t) = n + 1 /\ t[n + 1].index = delta.index /\ \A m \in 1..n : t[m] = s[m]
    BY <1>1, <2>2, <2>3, <2>4
  <2> QED BY <1>1, <1>2, <1>4, <2>5 DEF Indexed
<1>5. CASE delta.d = "args"
  <2>1. PICK index, body : index = delta.index /\ body = delta.body OBVIOUS
  <2>2. t = WithArgs(s, index, body) /\ IsSeq(body) BY <1>1, <1>5, <2>1, ArgsAreArgued DEF Argued
  <2>3. LET after == WithArgs(s, index, body) IN
        Len(after) = Len(s) /\ \A m \in 1..Len(s) : after[m].index = s[m].index
    BY ONLY <1>2, <2>2, CallsAfterArgs
  <2>4. Len(t) = n /\ \A m \in 1..n : t[m].index = s[m].index BY <1>1, <2>2, <2>3
  <2> QED BY <1>1, <1>2, <1>5, <2>4 DEF Indexed
<1> QED BY <1>3, <1>4, <1>5 DEF TalkKinds

Uttered(loose, said, i, h, u, index, delta, k) ==
  /\ Follows(loose, h, delta, k) /\ Talked(loose, said, i + 1, k) /\ Live(k)
  /\ Indexed(h, delta, k) /\ WholeCall(delta) /\ delta.d = u.kind
  /\ u.kind = "call" => u.call = Len(h.calls) + 1 /\ delta.index = index

\* An utterance is told, if its call goes by this index.
LEMMA TalkDelta ==
  ASSUME NEW plan_, NEW said, said = plan_.said, WellTalked(said), NEW loose,
         loose \/ ~Interleaved(said), NEW i \in 0..(Len(said) - 1),
         NEW h, Live(h), Talked(loose, said, i, h), NEW u, u = said[i + 1], NEW index,
         u.kind = "call" => \A n \in 1..Len(h.calls) : h.calls[n].index # index,
         u.kind = "args" => index = h.calls[u.call].index,
         NEW delta, delta = DeltaOf(plan_, i + 1, index), NEW k, k = After(h, delta)
  PROVE  Uttered(loose, said, i, h, u, index, delta, k)
<1>1. u \in Utterances BY OpenedSoFar
<1>2. u.kind \in TalkKinds BY <1>1, UtteranceIs
<1>3. /\ delta.d = u.kind
      /\ u.kind \in {"think", "text", "args"} =>
           delta.body = <<Piece(plan_, i + 1)>> /\ IsSeq(delta.body)
      /\ u.kind = "call" => delta.index = index /\ delta.call = u.call
      /\ u.kind = "args" => delta.index = index
      /\ WholeCall(delta) BY <1>1, DeltaIs
<1>4. Indexed(h, delta, k)
  <2>1. StoryIsSound(h) BY DEF Live
  <2>2. delta.d = "args" => IsSeq(delta.body) BY <1>3
  <2> QED BY <1>2, <1>3, <2>1, <2>2, AfterIndexed
<1>5. /\ Allowed(loose, h, delta) /\ Talked(loose, said, i + 1, k) /\ Live(k)
      /\ u.kind = "call" => u.call = Len(h.calls) + 1
  <2>1. CASE u.kind \in {"think", "text"}
    <3>1. delta.d \in {"think", "text"} /\ IsSeq(delta.body) /\ u.kind # "call" BY <1>3, <2>1
    <3>2. said[i + 1].kind \in {"think", "text"} BY <2>1
    <3> QED BY <3>1, <3>2, TalkWords
  <2>2. CASE u.kind = "call"
    <3>1. delta.d = "call" /\ delta.call = said[i + 1].call
          /\ \A n \in 1..Len(h.calls) : h.calls[n].index # delta.index BY <1>3, <2>2
    <3>2. said[i + 1].kind = "call" BY <2>2
    <3>3. /\ Allowed(loose, h, delta) /\ Talked(loose, said, i + 1, k) /\ Live(k)
          /\ said[i + 1].call = Len(h.calls) + 1
      <4>1. /\ WellTalked(said) /\ i \in 0..(Len(said) - 1) /\ Live(h) /\ Talked(loose, said, i, h)
            /\ k = After(h, delta) OBVIOUS
      <4> QED BY ONLY <3>1, <3>2, <4>1, TalkCall
    <3> QED BY <3>3
  <2>3. CASE u.kind = "args"
    <3>1. /\ delta.d = "args" /\ delta.body = <<Piece(plan_, i + 1)>>
          /\ delta.index = h.calls[said[i + 1].call].index BY <1>3, <2>3
    <3>2. said[i + 1].kind = "args" /\ u.kind # "call" BY <2>3
    <3>3. Allowed(loose, h, delta) /\ Talked(loose, said, i + 1, k) /\ Live(k)
      BY <3>1, <3>2, TalkArgs
    <3> QED BY <3>2, <3>3
  <2> QED BY <1>2, <2>1, <2>2, <2>3 DEF TalkKinds
<1>6. Follows(loose, h, delta, k) BY <1>5 DEF Follows
<1> QED BY <1>3, <1>4, <1>5, <1>6 DEF Uttered

Numbered(h) == \A m \in 1..Len(h.calls) : h.calls[m].index = m

ChatStage(w, plan_, i, x) ==
  /\ ChatNow(x) /\ Talked(w.loose, plan_.said, i, x.h) /\ Numbered(x.h)
  /\ x.h.done => i > 0 /\ Closes(plan_, i)
  /\ i > 0 => x.h.begun

\* The utterance of a chunk, told to a story that has begun.
LEMMA ChatUtters ==
  ASSUME NEW plan_, PlanIsSound("chat", plan_), NEW loose, loose \/ ~Interleaved(plan_.said),
         NEW i \in 0..(Len(plan_.said) - 1), NEW h, Live(h), Talked(loose, plan_.said, i, h),
         Numbered(h), NEW f, f = chatChunk(plan_, i + 1)
  PROVE  \E delta, k : /\ Follows(loose, h, delta, k) /\ Talked(loose, plan_.said, i + 1, k) /\ Live(k)
                       /\ WholeCall(delta) /\ Carries(f, delta) /\ Numbered(k)
<1>1. PICK said, u : said = plan_.said /\ u = said[i + 1] OBVIOUS
<1>2. WellTalked(said) BY <1>1 DEF PlanIsSound
<1>3. i + 1 \in 1..Len(said) /\ u \in Utterances /\ i \in Nat BY <1>1, <1>2, OpenedSoFar
<1>4. PICK delta : delta = DeltaOf(plan_, i + 1, u.call) OBVIOUS
<1>5. PICK k : k = After(h, delta) OBVIOUS
<1>6. Len(h.calls) \in Nat /\ IsSeq(h.calls) BY LiveCalls
<1>7. u.kind = "call" => \A n \in 1..Len(h.calls) : h.calls[n].index # u.call
  <2> SUFFICES ASSUME u.kind = "call", NEW n \in 1..Len(h.calls) PROVE h.calls[n].index # u.call
    OBVIOUS
  <2>1. Opened(said, i) = 1..(u.call - 1) BY <1>1, <1>2, OpenedSoFar
  <2>2. n \in 1..(u.call - 1) BY <1>1, <2>1 DEF Talked
  <2>3. u.call \in 1..2 BY <1>3, UtteranceIs
  <2>4. h.calls[n].index = n BY DEF Numbered
  <2> QED BY <2>2, <2>3, <2>4
<1>8. u.kind = "args" => u.call = h.calls[u.call].index
  <2> SUFFICES ASSUME u.kind = "args" PROVE u.call = h.calls[u.call].index OBVIOUS
  <2>1. ArgsNext(loose, said, i, h) BY <1>1, <1>2, <1>6 DEF ArgsNext
  <2>2. ArgsPlaced(loose, said, i, h) BY ONLY <2>1, ArgsPlace
  <2>3. u.call \in 1..Len(h.calls) BY <1>1, <2>2 DEF ArgsPlaced
  <2> QED BY <2>3 DEF Numbered
<1>9. /\ Follows(loose, h, delta, k) /\ Talked(loose, said, i + 1, k) /\ Live(k)
      /\ Indexed(h, delta, k) /\ WholeCall(delta) /\ delta.d = u.kind
      /\ u.kind = "call" => u.call = Len(h.calls) + 1 /\ delta.index = u.call
  <2>0. PICK index : index = u.call OBVIOUS
  <2>1. /\ said = plan_.said /\ (loose \/ ~Interleaved(said)) /\ Talked(loose, said, i, h)
        /\ i \in 0..(Len(said) - 1) /\ WellTalked(said) /\ Live(h) /\ u = said[i + 1]
        /\ delta = DeltaOf(plan_, i + 1, index) /\ k = After(h, delta)
        /\ u.kind = "call" => \A n \in 1..Len(h.calls) : h.calls[n].index # index
        /\ u.kind = "args" => index = h.calls[u.call].index
    BY <1>1, <1>2, <1>4, <1>5, <1>7, <1>8, <2>0
  <2>2. Uttered(loose, said, i, h, u, index, delta, k) BY ONLY <2>1, TalkDelta
  <2> QED BY <2>0, <2>2 DEF Uttered
<1>10. Carries(f, delta) BY <1>1, <1>3, <1>4, ChunkIs
<1>11. Numbered(k)
  <2>1. PICK n : n = Len(h.calls) OBVIOUS
  <2>2. n \in Nat /\ \A m \in 1..n : k.calls[m].index = m BY <1>9, <2>1 DEF Indexed, Numbered
  <2>3. CASE u.kind = "call"
    <3>1. Len(k.calls) = n + 1 /\ k.calls[n + 1].index = n + 1 BY <1>9, <2>1, <2>3 DEF Indexed
    <3> QED BY <2>2, <3>1 DEF Numbered
  <2>4. CASE u.kind # "call"
    <3>1. Len(k.calls) = n BY <1>9, <2>1, <2>4 DEF Indexed
    <3> QED BY <2>2, <3>1 DEF Numbered
  <2> QED BY <2>3, <2>4
<1> QED BY <1>1, <1>9, <1>10, <1>11

\* A chat upstream's next utterance is one the story follows.
LEMMA ChatUpSays ==
  ASSUME NEW plan_, PlanIsSound("chat", plan_), NEW w, w.up = "chat",
         w.loose \/ ~Interleaved(plan_.said), NEW i \in 0..(Len(plan_.said) - 1),
         NEW x, ChatStage(w, plan_, i, x), NEW f, f = chatChunk(plan_, i + 1)
  PROVE  \E y : Reads(w, x, f, y) /\ ChatStage(w, plan_, i + 1, y)
<1>1. PICK said, u : said = plan_.said /\ u = said[i + 1] OBVIOUS
<1>2. WellTalked(said) BY <1>1 DEF PlanIsSound
<1>3. i + 1 \in 1..Len(said) /\ u \in Utterances /\ i \in Nat BY <1>1, <1>2, OpenedSoFar
<1>4. ~x.h.done
  <2>1. i # Len(plan_.said) BY <1>1, <1>3
  <2> QED BY <2>1 DEF ChatStage, Closes
<1>5. ChatNow(x) /\ Talked(w.loose, said, i, x.h) /\ Numbered(x.h) BY <1>1 DEF ChatStage
<1>6. PICK h : Outset(x.h, h) /\ Tells(w.loose, x.h, When(~x.dec.started, <<Start>>), h)
  <2>1. StoryIsSound(x.h) /\ x.dec.started \in BOOLEAN /\ (x.dec.started <=> x.h.begun)
    BY <1>5 DEF ChatNow
  <2>2. PICK loose, g, started : loose = w.loose /\ g = x.h /\ started = x.dec.started OBVIOUS
  <2>3. \E k : Outset(g, k) /\ Tells(loose, g, When(~started, <<Start>>), k)
    BY <2>1, <2>2, TellsStart
  <2> QED BY <2>2, <2>3
<1>7. Live(h) /\ Talked(w.loose, said, i, h) /\ Numbered(h) /\ h.done = x.h.done
  BY <1>4, <1>5, <1>6 DEF Live, Outset, Talked, Numbered
<1>8. PICK delta, k : /\ Follows(w.loose, h, delta, k) /\ Talked(w.loose, said, i + 1, k) /\ Live(k)
                      /\ WholeCall(delta) /\ Carries(f, delta) /\ Numbered(k)
  <2>1. PICK loose : loose = w.loose OBVIOUS
  <2>2. /\ PlanIsSound("chat", plan_) /\ (loose \/ ~Interleaved(plan_.said))
        /\ i \in 0..(Len(plan_.said) - 1) /\ Live(h) /\ Talked(loose, plan_.said, i, h)
        /\ Numbered(h) /\ f = chatChunk(plan_, i + 1) BY <1>1, <1>7, <2>1
  <2>3. \E delta, k : /\ Follows(loose, h, delta, k) /\ Talked(loose, plan_.said, i + 1, k) /\ Live(k)
                      /\ WholeCall(delta) /\ Carries(f, delta) /\ Numbered(k)
    BY ONLY <2>2, ChatUtters
  <2> QED BY <1>1, <2>1, <2>3
<1>9. PICK r : r = ReadOne("chat", x.source, f) OBVIOUS
<1>10. ChatListens(k, r) /\ r.end = f.finish
  <2>1. PICK c : c = x.source OBVIOUS
  <2>2. StoryIsSound(h) /\ ChatListens(h, c) /\ Unended(c) /\ Allowed(w.loose, h, delta)
    <3>1. ChatListens(x.h, c) /\ Unended(c) BY <1>4, <1>5, <2>1 DEF ChatNow
    <3>2. ChatListens(h, c) BY <1>6, <3>1 DEF ChatListens, Heard, ByIndex, Outset
    <3> QED BY <1>7, <1>8, <3>1, <3>2 DEF Live, Follows
  <2>3. ChatHears(h, delta, ReadOne("chat", c, f), f) BY <1>8, <2>2, ChatListensOn
  <2>4. k = After(h, delta) BY <1>8 DEF Follows
  <2> QED BY <1>9, <2>1, <2>3, <2>4 DEF ChatHears
<1>11. f.f = "chunk" /\ f.finish = IF Closes(plan_, i + 1) THEN NativeStop("chat", plan_) ELSE ""
  <2>1. PICK delta2 : delta2 = DeltaOf(plan_, i + 1, u.call) OBVIOUS
  <2> QED BY <1>1, <1>3, <2>1, ChunkIs
<1>12. PICK finishes : finishes = (f.finish # "") OBVIOUS
<1>13. /\ finishes \in BOOLEAN /\ (finishes <=> f.finish # "")
       /\ finishes => Closes(plan_, i + 1) /\ ChatStop(f.finish) BY <1>11, <1>12, ChatStops
<1>14. ChunkTells(w.loose, h, f, k) BY <1>8, LoadedChunk
<1>15. \E y : ChatGoesOn(w, x, f, k, finishes, y)
  <2>1. StoryIsSound(k) /\ k.begun /\ k.done = x.h.done
    <3>1. k.done \in BOOLEAN /\ x.h.done \in BOOLEAN
      <4>1. Aside(h, k)
        <5>1. h.done = x.h.done /\ x.h.done \in BOOLEAN BY <1>5, <1>7 DEF ChatNow
        <5>2. k = After(h, delta) /\ StoryIsSound(h) BY <1>7, <1>8 DEF Follows, Live
        <5>3. CASE delta.d \in {"think", "text"} BY <5>2, <5>3, WordsAreWorded DEF Worded
        <5>4. CASE delta.d = "call" BY <5>2, <5>4, CallIsCalled DEF Called
        <5>5. CASE delta.d = "args" BY <5>2, <5>5, ArgsAreArgued DEF Argued
        <5> QED BY <1>8, <5>3, <5>4, <5>5 DEF WholeCall
      <4> QED BY <1>5, <1>7, <4>1 DEF Aside, ChatNow
    <3> QED BY <1>4, <1>8, <3>1 DEF Live
  <2>2. r.end = IF f.finish = "" THEN x.source.end ELSE f.finish
    <3>1. x.source.end = "" BY <1>4, <1>5 DEF ChatNow, Unended
    <3> QED BY <1>10, <3>1
  <2>3. /\ w.up = "chat" /\ ChatNow(x) /\ f.f = "chunk" /\ ChunkTells(w.loose, h, f, k)
        /\ Tells(w.loose, x.h, When(~x.dec.started, <<Start>>), h)
        /\ StoryIsSound(k) /\ k.begun /\ k.done = x.h.done /\ (x.h.done => k.reason = x.h.reason)
        /\ r = ReadOne("chat", x.source, f) /\ ChatListens(k, r)
        /\ r.end = IF f.finish = "" THEN x.source.end ELSE f.finish
        /\ finishes \in BOOLEAN /\ (finishes <=> f.finish # "")
        /\ finishes => ~x.h.done /\ ChatStop(f.finish)
    BY <1>4, <1>5, <1>6, <1>9, <1>10, <1>11, <1>13, <1>14, <2>1, <2>2
  <2> QED BY ONLY <2>3, ChatGoes
<1>16. PICK y : ChatGoesOn(w, x, f, k, finishes, y) BY <1>15
<1>17. ChatStage(w, plan_, i + 1, y)
  <2>1. ChatNow(y) /\ y.h.begun /\ y.h.calls = k.calls /\ y.h.last = k.last
    BY <1>16 DEF ChatGoesOn
  <2>2. y.h.done => i + 1 > 0 /\ Closes(plan_, i + 1)
    <3>1. i + 1 > 0 BY <1>3
    <3>2. y.h.done => Closes(plan_, i + 1) BY <1>4, <1>13, <1>16 DEF ChatGoesOn
    <3> QED BY <3>1, <3>2
  <2>3. Talked(w.loose, plan_.said, i + 1, y.h) /\ Numbered(y.h)
    BY <1>1, <1>8, <2>1 DEF Talked, Numbered
  <2> QED BY <2>1, <2>2, <2>3 DEF ChatStage
<1> QED BY <1>16, <1>17 DEF ChatGoesOn

ChatWent(w, x, f, y) ==
  /\ Reads(w, x, f, y) /\ ChatNow(y) /\ y.h.begun
  /\ f.finish = "" => y.h.done = x.h.done

\* A chunk of nothing but an end, or nothing at all, may come too.
LEMMA ChatEmpty ==
  ASSUME NEW w, w.up = "chat", NEW x, ChatNow(x), NEW f, f.f = "chunk",
         f.think = <<>>, f.text = <<>>, f.calls = <<>>,
         f.finish = "" \/ (~x.h.done /\ ChatStop(f.finish))
  PROVE  \E y : ChatWent(w, x, f, y)
<1>1. PICK h : Outset(x.h, h) /\ Tells(w.loose, x.h, When(~x.dec.started, <<Start>>), h)
  <2>1. StoryIsSound(x.h) /\ x.dec.started \in BOOLEAN /\ (x.dec.started <=> x.h.begun)
    BY DEF ChatNow
  <2>2. PICK loose, g, started : loose = w.loose /\ g = x.h /\ started = x.dec.started OBVIOUS
  <2>3. \E k : Outset(g, k) /\ Tells(loose, g, When(~started, <<Start>>), k)
    BY <2>1, <2>2, TellsStart
  <2> QED BY <2>2, <2>3
<1>2. ChunkTells(w.loose, h, f, h) BY SilentChunk
<1>3. PICK r : r = ReadOne("chat", x.source, f) OBVIOUS
<1>4. ChatListens(h, r) /\ r.end = IF f.finish = "" THEN x.source.end ELSE f.finish
  <2>1. PICK c : c = x.source OBVIOUS
  <2>2. StoryIsSound(h) BY <1>1 DEF Outset
  <2>3. ChatListens(h, c) BY <1>1, <2>1 DEF ChatNow, ChatListens, Heard, ByIndex, Outset
  <2>4. /\ ChatListens(h, ReadOne("chat", c, f))
        /\ ReadOne("chat", c, f).end = IF f.finish = "" THEN c.end ELSE f.finish
    BY <2>2, <2>3, EmptyChunk
  <2> QED BY <1>3, <2>1, <2>4
<1>5. PICK finishes : finishes = (f.finish # "") OBVIOUS
<1>6. \E y : ChatGoesOn(w, x, f, h, finishes, y)
  <2>1. /\ w.up = "chat" /\ ChatNow(x) /\ f.f = "chunk" /\ ChunkTells(w.loose, h, f, h)
        /\ Tells(w.loose, x.h, When(~x.dec.started, <<Start>>), h)
        /\ StoryIsSound(h) /\ h.begun /\ h.done = x.h.done /\ (x.h.done => h.reason = x.h.reason)
        /\ r = ReadOne("chat", x.source, f) /\ ChatListens(h, r)
        /\ r.end = IF f.finish = "" THEN x.source.end ELSE f.finish
        /\ finishes \in BOOLEAN /\ (finishes <=> f.finish # "")
        /\ finishes => ~x.h.done /\ ChatStop(f.finish) BY <1>1, <1>2, <1>3, <1>4, <1>5 DEF Outset
  <2> QED BY ONLY <2>1, ChatGoes
<1>7. PICK y : ChatGoesOn(w, x, f, h, finishes, y) BY <1>6
<1>8. Reads(w, x, f, y) /\ ChatNow(y) /\ y.h.begun /\ y.h.done = (x.h.done \/ finishes)
  BY <1>7 DEF ChatGoesOn
<1>9. f.finish = "" => y.h.done = x.h.done
  <2>1. x.h.done \in BOOLEAN BY DEF ChatNow
  <2> QED BY <1>5, <1>8, <2>1
<1> QED BY <1>8, <1>9 DEF ChatWent

\* [DONE] says stop if nothing has.
LEMMA ChatLast ==
  ASSUME NEW w, w.up = "chat", NEW x, ChatNow(x), x.h.begun, NEW f, f.f = "[DONE]"
  PROVE  \E y : Reads(w, x, f, y)
<1>1. PICK d, h, c : d = x.dec /\ h = x.h /\ c = x.source OBVIOUS
<1>2. /\ StoryIsSound(h) /\ ChatListens(h, c) /\ h.begun /\ h.done \in BOOLEAN /\ d.done = h.done
      /\ d.failed = FALSE /\ d.completed = FALSE /\ DOMAIN d = DOMAIN NewDecoder
      /\ h.done => x.stated = "ended" /\ ChatEnded(h, c)
      /\ ~h.done => x.stated = "" /\ Unended(c) BY <1>1 DEF ChatNow
<1>3. PICK state : state = [d EXCEPT !.done = TRUE] OBVIOUS
<1>4. state.failed = FALSE /\ state.completed = FALSE BY <1>2, <1>3 DEF NewDecoder
<1>5. PICK going : going = ~d.done OBVIOUS
<1>6. going \in BOOLEAN /\ (going <=> ~h.done) BY <1>2, <1>5
<1>7. PICK k : /\ Tells(w.loose, h, When(going, <<Done("stop")>>), k) /\ StoryIsSound(k)
               /\ going => Stops(h, Done("stop"), k)
               /\ ~going => k = h
  <2>1. PICK reason, loose : reason = "stop" /\ loose = w.loose OBVIOUS
  <2>2. reason \in Reasons BY <2>1 DEF Reasons
  <2>3. going => ~h.done BY <1>6
  <2>5. MayStop(h, going, reason) BY <1>2, <1>6, <2>2, <2>3 DEF MayStop
  <2>6. \E k : Stopped(loose, h, going, reason, k) BY ONLY <2>5, TellsDone
  <2>4. \E k : /\ Tells(loose, h, When(going, <<Done(reason)>>), k) /\ StoryIsSound(k)
               /\ going => Stops(h, Done(reason), k)
               /\ ~going => k = h BY <2>6, Zenon DEF Stopped
  <2> QED BY <2>1, <2>4
<1>8. PICK r : r = ReadOne("chat", c, f) OBVIOUS
<1>9. Over(c, r) /\ r.end = c.end
  <2>1. DOMAIN c = CliFields BY <1>2 DEF ChatListens, Heard
  <2> QED BY <1>8, <2>1, DoneIsRead
<1>10. PICK judgement : judgement = IF x.stated = "" THEN EndIn(f) ELSE x.stated OBVIOUS
<1>11. judgement = "ended"
  <2>1. EndIn(f) = "ended" BY DEF EndIn
  <2> QED BY <1>2, <1>10, <2>1
<1>12. k.think = h.think /\ k.text = h.text /\ k.calls = h.calls /\ k.done BY <1>6, <1>7 DEF Stops
<1>13. EndClass(r.end) = EndClass(k.reason)
  <2>1. CASE h.done BY <1>2, <1>6, <1>7, <1>9, <2>1 DEF ChatEnded
  <2>2. CASE ~h.done
    <3>1. k.reason = "stop"
      <4>1. Done("stop").reason = "stop" BY DEF Done
      <4> QED BY <1>6, <1>7, <2>2, <4>1 DEF Stops
    <3>2. r.end = "" BY <1>2, <1>9, <2>2 DEF Unended
    <3> QED BY <3>1, <3>2 DEF EndClass
  <2> QED BY <2>1, <2>2
<1>14. PICK y : y = [dec |-> state, h |-> k, source |-> r, stated |-> judgement] OBVIOUS
<1>15. y.dec = state /\ y.h = k /\ y.source = r /\ y.stated = judgement BY <1>14
<1>16. Agrees(w, y)
  <2>1. Heard(k, r) BY <1>2, <1>9, <1>12 DEF ChatListens, Heard, Over
  <2> QED BY <1>4, <1>7, <1>11, <1>12, <1>13, <1>15, <2>1 DEF Agrees, Heard
<1>17. Reads(w, x, f, y)
  <2>1. DecodeChunk("chat", d, f) = Decoded(state, When(going, <<Done("stop")>>))
    BY <1>3, <1>5, Zenon DEF DecodeChunk, decodeChat, chatDone
  <2>2. DecodeChunk(w.up, x.dec, f) = DecodeChunk("chat", d, f) BY <1>1
  <2>3. \A a, b : Decoded(a, b).state = a /\ Decoded(a, b).deltas = b BY DEF Decoded
  <2>4. ~c.over /\ f.f # "error" BY <1>2 DEF ChatListens
  <2>5. /\ y.dec = DecodeChunk(w.up, x.dec, f).state
        /\ Tells(w.loose, x.h, DecodeChunk(w.up, x.dec, f).deltas, y.h)
    BY <1>1, <1>7, <1>15, <2>1, <2>2, <2>3
  <2>6. y.source = ReadOne(w.up, x.source, f) BY <1>1, <1>8, <1>15
  <2> QED BY <1>1, <1>10, <1>15, <1>16, <2>4, <2>5, <2>6 DEF Reads
<1> QED BY <1>17

\* A chunk of usage is one of nothing,
LEMMA NoChunkCounts ==
  ASSUME NEW usage, NEW f, f = [NoChunk EXCEPT !.usage = usage]
  PROVE  f.f = "chunk" /\ f.think = <<>> /\ f.text = <<>> /\ f.calls = <<>> /\ f.finish = ""
<1>1. PICK none : none = <<>> OBVIOUS
<1>2. /\ DOMAIN NoChunk = ChunkFields /\ NoChunk.f = "chunk" /\ NoChunk.think = none
      /\ NoChunk.text = none /\ NoChunk.calls = none /\ NoChunk.finish = ""
  BY <1>1 DEF NoChunk, ChunkFields
<1>3. /\ f.f = "chunk" /\ f.think = none /\ f.text = none /\ f.calls = none /\ f.finish = ""
  BY <1>2 DEF ChunkFields
<1> QED BY <1>1, <1>3

\* and so is a chunk of an end.
LEMMA NoChunkFinishes ==
  ASSUME NEW stop, NEW f, f = [NoChunk EXCEPT !.finish = stop]
  PROVE  f.f = "chunk" /\ f.think = <<>> /\ f.text = <<>> /\ f.calls = <<>> /\ f.finish = stop
<1>1. PICK none : none = <<>> OBVIOUS
<1>2. /\ DOMAIN NoChunk = ChunkFields /\ NoChunk.f = "chunk" /\ NoChunk.think = none
      /\ NoChunk.text = none /\ NoChunk.calls = none BY <1>1 DEF NoChunk, ChunkFields
<1>3. /\ f.f = "chunk" /\ f.think = none /\ f.text = none /\ f.calls = none /\ f.finish = stop
  BY <1>2 DEF ChunkFields
<1> QED BY <1>1, <1>3

\* Usage may come after the end.
LEMMA ChatCountsLast ==
  ASSUME NEW w, w.up = "chat", NEW x, ChatNow(x), x.h.begun, NEW usage
  PROVE  \E y : Leads(w, x, <<[NoChunk EXCEPT !.usage = usage]>>, y) /\ ChatNow(y) /\ y.h.begun
<1>1. PICK f : f = [NoChunk EXCEPT !.usage = usage] OBVIOUS
<1>2. f.f = "chunk" /\ f.think = <<>> /\ f.text = <<>> /\ f.calls = <<>> /\ f.finish = ""
  BY <1>1, NoChunkCounts
<1>3. PICK y : ChatWent(w, x, f, y) BY <1>2, ChatEmpty
<1> QED BY <1>1, <1>3, LeadsOne DEF ChatWent

\* What follows the utterances.
LEMMA ChatTail ==
  ASSUME NEW plan_, PlanIsSound("chat", plan_), NEW w, w.up = "chat",
         NEW x, ChatStage(w, plan_, Len(plan_.said), x), NEW finish, NEW in, NEW out, NEW all,
         finish = [NoChunk EXCEPT !.finish = NativeStop("chat", plan_)],
         NEW tail, tail = When(~(plan_.tail = "together" /\ plan_.said # <<>>),
             <<finish>> \o IF plan_.tail = "split"
                           THEN << [NoChunk EXCEPT !.usage = in], [NoChunk EXCEPT !.usage = out] >>
                           ELSE << [NoChunk EXCEPT !.usage = all] >>)
  PROVE  \E y : Leads(w, x, tail \o <<[f |-> "[DONE]"]>>, y)
<1>1. ChatNow(x) BY DEF ChatStage
<1>2. \E y : Leads(w, x, tail, y) /\ ChatNow(y) /\ y.h.begun
  <2>1. CASE plan_.tail = "together" /\ plan_.said # <<>>
    <3>1. tail = <<>> BY <2>1, Zenon DEF When
    <3>2. x.h.begun
      <4>1. IsSeq(plan_.said) BY DEF PlanIsSound, WellTalked
      <4>2. Len(plan_.said) > 0 BY <2>1, <4>1, SeqDomain
      <4> QED BY <4>2 DEF ChatStage
    <3> QED BY <1>1, <3>1, <3>2, LeadsNone
  <2>2. CASE ~(plan_.tail = "together" /\ plan_.said # <<>>)
    <3>1. PICK a, b, c, rest : /\ a = [NoChunk EXCEPT !.usage = in] /\ b = [NoChunk EXCEPT !.usage = out]
                               /\ c = [NoChunk EXCEPT !.usage = all]
                               /\ rest = IF plan_.tail = "split" THEN <<a, b>> ELSE <<c>> OBVIOUS
    <3>2. tail = <<finish>> \o rest BY <2>2, <3>1, Zenon DEF When
    <3>3. ~x.h.done
      <4>1. CASE plan_.tail # "together" BY <4>1 DEF ChatStage, Closes
      <4>2. CASE plan_.said = <<>>
        <5>1. Len(plan_.said) = 0 BY <4>2, SeqEmpty
        <5> QED BY <5>1 DEF ChatStage
      <4> QED BY <2>2, <4>1, <4>2
    <3>4. /\ finish.f = "chunk" /\ finish.think = <<>> /\ finish.text = <<>>
          /\ finish.calls = <<>> /\ finish.finish = NativeStop("chat", plan_) BY NoChunkFinishes
    <3>5. PICK y : ChatWent(w, x, finish, y) BY <1>1, <3>3, <3>4, ChatStops, ChatEmpty
    <3>6. Leads(w, x, <<finish>>, y) /\ ChatNow(y) /\ y.h.begun BY <3>5, LeadsOne DEF ChatWent
    <3>7. \E z : Leads(w, y, rest, z) /\ ChatNow(z) /\ z.h.begun
      <4>1. CASE plan_.tail = "split"
        <5>1. PICK m : Leads(w, y, <<a>>, m) /\ ChatNow(m) /\ m.h.begun
          BY <3>1, <3>6, ChatCountsLast
        <5>2. PICK z : Leads(w, m, <<b>>, z) /\ ChatNow(z) /\ z.h.begun
          BY <3>1, <5>1, ChatCountsLast
        <5>3. Leads(w, y, <<a>> \o <<b>>, z) BY <5>1, <5>2, LeadsCat
        <5>4. <<a>> \o <<b>> = rest BY <3>1, <4>1, SeqPair
        <5> QED BY <5>2, <5>3, <5>4
      <4>2. CASE plan_.tail # "split"
        <5>1. PICK z : Leads(w, y, <<c>>, z) /\ ChatNow(z) /\ z.h.begun
          BY <3>1, <3>6, ChatCountsLast
        <5> QED BY <3>1, <4>2, <5>1
      <4> QED BY <4>1, <4>2
    <3> QED BY <3>2, <3>6, <3>7, LeadsCat
  <2> QED BY <2>1, <2>2
<1>3. PICK y : Leads(w, x, tail, y) /\ ChatNow(y) /\ y.h.begun BY <1>2
<1>4. PICK finale : finale = [f |-> "[DONE]"] OBVIOUS
<1>5. finale.f = "[DONE]" BY <1>4
<1>6. PICK z : Reads(w, y, finale, z) BY <1>3, <1>5, ChatLast
<1>7. Leads(w, x, tail \o <<finale>>, z) BY <1>3, <1>6, LeadsOne, LeadsCat
<1> QED BY <1>4, <1>7

----------------------------------------
(* A Gemini upstream. *)

\* Calls are numbered in the order they come.
CountedAs(h, d) ==
  /\ IsSeq(d.callOf) /\ Len(d.callOf) = Len(h.calls)
  /\ \A m \in 1..Len(h.calls) : h.calls[m].index = m - 1

DecoderOnly(d, state) ==
  /\ DOMAIN state = DOMAIN NewDecoder /\ state.started = d.started /\ state.done = d.done
  /\ state.completed = d.completed /\ state.failed = d.failed

IsPart(part) ==
  \/ part.kind \in {"text", "think"} /\ IsSeq(part.body) /\ part.body # <<>>
  \/ part.kind = "call" /\ IsSeq(part.args) /\ part.call # 0

PartGoes(loose, h, c, d, part, state, deltas, k, g) ==
  /\ geminiPart(d, part) = Decoded(state, deltas) /\ Tells(loose, h, deltas, k)
  /\ Live(k) /\ Heard(k, g) /\ Untouched(c, g)
  /\ CountedAs(k, state) /\ DecoderOnly(d, state)

PartMayGo(loose, h, c, d, part, g) ==
  \E state, deltas, k : PartGoes(loose, h, c, d, part, state, deltas, k, g)

\* A part of words tells those words.
LEMMA PartSaid ==
  ASSUME NEW loose, NEW h, Live(h), NEW c, Heard(h, c), NEW d, DOMAIN d = DOMAIN NewDecoder,
         CountedAs(h, d), NEW part, part.kind \in {"text", "think"}, IsSeq(part.body),
         part.body # <<>>, NEW g, g = GeminiHear(c, part)
  PROVE  PartMayGo(loose, h, c, d, part, g)
<1>1. PICK delta : delta = IF part.kind = "text" THEN Text(part.body) ELSE Thinking(part.body)
  OBVIOUS
<1>2. delta.d = part.kind /\ delta.body = part.body
  <2>1. CASE part.kind = "text" BY <1>1, <2>1 DEF Text
  <2>2. CASE part.kind = "think" BY <1>1, <2>2 DEF Thinking
  <2> QED BY <2>1, <2>2
<1>3. PICK deltas : deltas = <<delta>> OBVIOUS
<1>4. geminiPart(d, part) = Decoded(d, deltas)
  <2>1. CASE part.kind = "text"
    <3>1. delta = Text(part.body) BY <1>1, <2>1
    <3>2. When(part.body # <<>>, <<Text(part.body)>>) = <<Text(part.body)>> BY Zenon DEF When
    <3> QED BY <1>3, <2>1, <3>1, <3>2, Zenon DEF geminiPart
  <2>2. CASE part.kind = "think"
    <3>1. delta = Thinking(part.body) /\ part.kind # "text" BY <1>1, <2>2
    <3> QED BY <1>3, <2>2, <3>1, Zenon DEF geminiPart
  <2> QED BY <2>1, <2>2
<1>5. PICK k : k = After(h, delta) OBVIOUS
<1>6. StoryIsSound(h) BY DEF Live
<1>7. Allowed(loose, h, delta) BY <1>2 DEF Allowed, Live
<1>8. Tells(loose, h, deltas, k)
  <2>1. Follows(loose, h, delta, k) BY <1>5, <1>7 DEF Follows
  <2> QED BY <1>3, <2>1, TellsOne
<1>9. SaidTo(h, c, delta, k, g)
  <2>1. g = Hears(c, delta.d, delta.body) BY <1>2 DEF GeminiHear
  <2>2. delta.d \in {"think", "text"} BY <1>2
  <2> QED BY <1>5, <1>6, <2>1, <2>2, HearsSaid
<1>10. StoryIsSound(k) BY <1>5, <1>6, <1>7, StoryStaysSound
<1>11. Live(k) BY <1>9, <1>10 DEF Live, SaidTo, Aside
<1>12. CountedAs(k, d)
  <2>1. k.calls = h.calls BY <1>9 DEF SaidTo
  <2> QED BY <2>1 DEF CountedAs
<1>13. PartGoes(loose, h, c, d, part, d, deltas, k, g)
  BY <1>4, <1>8, <1>9, <1>11, <1>12 DEF PartGoes, SaidTo, DecoderOnly
<1> QED BY <1>13 DEF PartMayGo

PartOpens(loose, h, d, first, state, n, k) ==
  /\ Follows(loose, h, first, k) /\ Live(k) /\ Called(h, first, k)
  /\ CountedAs(k, state) /\ DecoderOnly(d, state) /\ n \in Nat /\ n = Len(h.calls)
  /\ Len(k.calls) = n + 1

\* A call, opened and given its arguments.
LEMMA PartCalled ==
  ASSUME NEW loose, NEW h, Live(h), NEW d, DOMAIN d = DOMAIN NewDecoder,
         CountedAs(h, d), NEW call, call # 0,
         NEW state, state = [d EXCEPT !.callOf = Append(d.callOf, call)],
         NEW n, n = Len(d.callOf), NEW first, first = ToolCallStart(n, call),
         NEW k, k = After(h, first)
  PROVE  PartOpens(loose, h, d, first, state, n, k)
<1>1. PICK delta : delta = first OBVIOUS
<1>2. delta.d = "call" /\ delta.index = n /\ delta.call = call BY <1>1 DEF ToolCallStart
<1>3. IsSeq(d.callOf) /\ n = Len(h.calls) /\ (\A m \in 1..n : h.calls[m].index = m - 1)
  BY DEF CountedAs
<1>4. n \in Nat BY <1>3, SeqDomain
<1>5. StoryIsSound(h) BY DEF Live
<1>6. Allowed(loose, h, delta)
  <2>1. \A m \in 1..Len(h.calls) : h.calls[m].index # n BY <1>3, <1>4
  <2> QED BY <1>2, <2>1 DEF Allowed, Live
<1>7. Follows(loose, h, delta, k) BY <1>1, <1>6 DEF Follows
<1>8. StoryIsSound(k) BY <1>1, <1>5, <1>6, StoryStaysSound
<1>9. Called(h, delta, k) BY <1>1, <1>2, <1>5, CallIsCalled
<1>10. Live(k) BY <1>8, <1>9 DEF Live, Called, Aside
<1>11. Indexed(h, delta, k)
  <2>1. delta.d \in TalkKinds /\ (delta.d = "args" => IsSeq(delta.body)) BY <1>2 DEF TalkKinds
  <2> QED BY <1>1, <1>5, <2>1, AfterIndexed
<1>12. PICK more : more = Append(d.callOf, call) OBVIOUS
<1>13. IsSeq(more) /\ Len(more) = n + 1
  <2>1. PICK s : s = d.callOf OBVIOUS
  <2>2. IsSeq(s) BY <1>3, <2>1
  <2>3. IsSeq(Append(s, call)) /\ Len(Append(s, call)) = Len(s) + 1 BY ONLY <2>2, SeqMore
  <2> QED BY <1>12, <2>1, <2>3
<1>14. state.callOf = more /\ DecoderOnly(d, state) BY <1>12 DEF NewDecoder, DecoderOnly
<1>15. Len(k.calls) = n + 1 /\ \A m \in 1..(n + 1) : k.calls[m].index = m - 1
  <2>1. Len(k.calls) = n + 1 /\ k.calls[n + 1].index = n BY <1>2, <1>3, <1>11 DEF Indexed
  <2>2. \A m \in 1..n : k.calls[m].index = m - 1 BY <1>3, <1>11 DEF Indexed
  <2>3. \A m \in 1..(n + 1) : m \in 1..n \/ m = n + 1 BY <1>4
  <2> QED BY <1>4, <2>1, <2>2, <2>3
<1>16. CountedAs(k, state) BY <1>13, <1>14, <1>15 DEF CountedAs
<1> QED BY <1>1, <1>3, <1>4, <1>7, <1>9, <1>10, <1>14, <1>15, <1>16 DEF PartOpens

OneMore(s, x, more) ==
  /\ IsSeq(more) /\ Len(more) = Len(s) + 1 /\ (\A m \in 1..Len(s) : more[m] = s[m])
  /\ more[Len(s) + 1] = x /\ more # <<>>

\* One more.
LEMMA SeqAppended ==
  ASSUME NEW s, IsSeq(s), NEW x
  PROVE  OneMore(s, x, Append(s, x))
<1>1. /\ IsSeq(Append(s, x)) /\ Len(Append(s, x)) = Len(s) + 1
      /\ (\A m \in 1..Len(s) : Append(s, x)[m] = s[m]) /\ Append(s, x)[Len(s) + 1] = x
      /\ Append(s, x) # <<>> BY ONLY IsSeq(s), SeqMore
<1> QED BY <1>1 DEF OneMore

\* The call as a client hears it: opened with its arguments at once.
CallWhole(c, call, args, g) ==
  /\ Untouched(c, g) /\ g.think = c.think /\ g.text = c.text
  /\ IsSeq(g.calls) /\ Len(g.calls) = Len(c.calls) + 1
  /\ (\A m \in 1..Len(c.calls) : g.calls[m] = c.calls[m])
  /\ IsHeardCall(g.calls[Len(c.calls) + 1]) /\ g.calls[Len(c.calls) + 1].call = call
  /\ g.calls[Len(c.calls) + 1].args = args

\* A client that opens a call with its arguments holds it whole.
LEMMA OpensWhole ==
  ASSUME NEW c, DOMAIN c = CliFields, IsSeq(c.calls), NEW at, NEW call, NEW args,
         NEW g, g = Opens(c, at, call, args)
  PROVE  CallWhole(c, call, args, g)
<1>1. PICK x : x = [at |-> at, call |-> call, args |-> args] OBVIOUS
<1>2. IsHeardCall(x) /\ x.call = call /\ x.args = args BY <1>1 DEF IsHeardCall
<1>3. PICK s, more : s = c.calls /\ more = Append(s, x) OBVIOUS
<1>4. g = [c EXCEPT !.calls = more] BY <1>1, <1>3 DEF Opens
<1>5. Untouched(c, g) /\ g.think = c.think /\ g.text = c.text /\ g.calls = more
  BY <1>4 DEF Untouched, CliFields
<1>6. IsSeq(s) BY <1>3
<1>7. /\ IsSeq(more) /\ Len(more) = Len(s) + 1 /\ (\A m \in 1..Len(s) : more[m] = s[m])
      /\ more[Len(s) + 1] = x
  <2>1. OneMore(s, x, Append(s, x)) BY ONLY <1>6, SeqAppended
  <2>2. OneMore(s, x, more) BY <1>3, <2>1
  <2> QED BY <2>2 DEF OneMore
<1> QED BY <1>2, <1>3, <1>5, <1>7 DEF CallWhole

\* The same call as the story has it.
ToldWhole(h, call, args, k) ==
  /\ k.think = h.think /\ k.text = h.text
  /\ IsSeq(k.calls) /\ Len(k.calls) = Len(h.calls) + 1
  /\ (\A m \in 1..Len(h.calls) : k.calls[m].call = h.calls[m].call
                                 /\ k.calls[m].args = h.calls[m].args)
  /\ k.calls[Len(h.calls) + 1].call = call /\ k.calls[Len(h.calls) + 1].args = args

\* A call told whole is heard whole.
LEMMA WholeIsHeard ==
  ASSUME NEW h, NEW c, Heard(h, c), NEW call, NEW args, NEW g, CallWhole(c, call, args, g),
         NEW k, ToldWhole(h, call, args, k)
  PROVE  Heard(k, g)
<1>1. PICK n : n = Len(h.calls) OBVIOUS
<1>2. Mirrors(c.calls, h.calls) BY DEF Heard
<1>3. Len(c.calls) = n /\ IsSeq(h.calls) BY <1>1, <1>2 DEF Mirrors
<1>4. n \in Nat BY <1>1, <1>3, SeqDomain
<1>5. \A m \in 1..n : /\ IsHeardCall(c.calls[m]) /\ c.calls[m].call = h.calls[m].call
                      /\ c.calls[m].args = h.calls[m].args BY <1>1, <1>2 DEF Mirrors
<1>6. /\ IsSeq(g.calls) /\ Len(g.calls) = n + 1 /\ (\A m \in 1..n : g.calls[m] = c.calls[m])
      /\ IsHeardCall(g.calls[n + 1]) /\ g.calls[n + 1].call = call /\ g.calls[n + 1].args = args
  BY <1>3 DEF CallWhole
<1>7. /\ IsSeq(k.calls) /\ Len(k.calls) = n + 1
      /\ (\A m \in 1..n : k.calls[m].call = h.calls[m].call /\ k.calls[m].args = h.calls[m].args)
      /\ k.calls[n + 1].call = call /\ k.calls[n + 1].args = args BY <1>1 DEF ToldWhole
<1>8. ASSUME NEW m \in 1..(n + 1)
      PROVE  /\ IsHeardCall(g.calls[m]) /\ g.calls[m].call = k.calls[m].call
             /\ g.calls[m].args = k.calls[m].args
  <2>1. CASE m = n + 1 BY <1>6, <1>7, <2>1
  <2>2. CASE m # n + 1
    <3>1. m \in 1..n BY <1>4, <2>2
    <3> QED BY <1>5, <1>6, <1>7, <3>1
  <2> QED BY <2>1, <2>2
<1>9. Mirrors(g.calls, k.calls) BY <1>6, <1>7, <1>8 DEF Mirrors
<1> QED BY <1>9 DEF Heard, CallWhole, ToldWhole, Untouched

\* A call without arguments is told whole by its start.
LEMMA CalledIsWhole ==
  ASSUME NEW h, StoryIsSound(h), NEW delta, NEW k, Called(h, delta, k)
  PROVE  ToldWhole(h, delta.call, <<>>, k)
<1>1. PICK s, x, more, none : /\ none = <<>> /\ s = h.calls
                              /\ x = [index |-> delta.index, call |-> delta.call, args |-> none]
                              /\ more = Append(s, x) OBVIOUS
<1>2. k.calls = more /\ k.think = h.think /\ k.text = h.text BY <1>1 DEF Called
<1>3. IsSeq(s) BY <1>1 DEF StoryIsSound
<1>4. /\ IsSeq(more) /\ Len(more) = Len(s) + 1 /\ (\A m \in 1..Len(s) : more[m] = s[m])
      /\ more[Len(s) + 1] = x
  <2>1. OneMore(s, x, Append(s, x)) BY ONLY <1>3, SeqAppended
  <2>2. OneMore(s, x, more) BY <1>1, <2>1
  <2> QED BY <2>2 DEF OneMore
<1>5. x.call = delta.call /\ x.args = none BY <1>1
<1>6. ToldWhole(h, delta.call, none, k) BY <1>1, <1>2, <1>4, <1>5 DEF ToldWhole
<1> QED BY <1>1, <1>6

\* The arguments of the last call, none of which had come.
LEMMA ArguedIsWhole ==
  ASSUME NEW h, NEW n \in Nat, n = Len(h.calls), NEW call, NEW none, none = <<>>, NEW k, ToldWhole(h, call, none, k),
         StoryIsSound(k), \A m \in 1..(n + 1) : k.calls[m].index = m - 1,
         NEW delta, delta.index = n, IsSeq(delta.body), NEW j, Argued(k, delta, j)
  PROVE  /\ ToldWhole(h, call, delta.body, j)
         /\ Len(j.calls) = n + 1 /\ \A m \in 1..(n + 1) : j.calls[m].index = m - 1
<1>1. PICK s, t, body : s = k.calls /\ t = j.calls /\ body = delta.body OBVIOUS
<1>2. /\ IsSeq(s) /\ Len(s) = n + 1
      /\ (\A m \in 1..n : s[m].call = h.calls[m].call /\ s[m].args = h.calls[m].args)
      /\ s[n + 1].call = call /\ s[n + 1].args = none BY <1>1 DEF ToldWhole
<1>3. t = WithArgs(s, n, body) /\ j.think = k.think /\ j.text = k.text BY <1>1 DEF Argued
<1>4. /\ IsSeq(body)
      /\ \A m \in 1..Len(s) : DOMAIN s[m] = CallFields /\ IsSeq(s[m].args)
  BY <1>1 DEF StoryIsSound
<1>5. /\ IsSeq(t) /\ Len(t) = Len(s)
      /\ \A m \in 1..Len(s) :
           /\ t[m].index = s[m].index /\ t[m].call = s[m].call
           /\ t[m].args = IF s[m].index = n THEN s[m].args \o body ELSE s[m].args
  <2>1. LET after == WithArgs(s, n, body) IN
        /\ IsSeq(after) /\ Len(after) = Len(s)
        /\ \A m \in 1..Len(s) :
             /\ after[m].index = s[m].index /\ after[m].call = s[m].call
             /\ after[m].args = IF s[m].index = n THEN s[m].args \o body ELSE s[m].args
    BY ONLY <1>2, <1>4, CallsAfterArgs
  <2> QED BY <1>3, <2>1
<1>6. \A m \in 1..n : t[m].call = h.calls[m].call /\ t[m].args = h.calls[m].args
  <2> SUFFICES ASSUME NEW m \in 1..n
               PROVE  t[m].call = h.calls[m].call /\ t[m].args = h.calls[m].args OBVIOUS
  <2>1. m \in 1..(n + 1) /\ m - 1 # n OBVIOUS
  <2>2. s[m].index # n BY <1>1, <2>1
  <2> QED BY <1>2, <1>5, <2>1, <2>2
<1>7. t[n + 1].call = call /\ t[n + 1].args = body
  <2>1. n + 1 \in 1..(n + 1) /\ (n + 1) - 1 = n OBVIOUS
  <2>2. s[n + 1].index = n BY <1>1, <2>1
  <2>3. none \o body = body
    <3>1. <<>> \o body = body BY <1>4, SeqCat
    <3> QED BY <3>1
  <2> QED BY <1>2, <1>5, <2>1, <2>2, <2>3
<1>8. j.think = h.think /\ j.text = h.text BY <1>3 DEF ToldWhole
<1>9. ToldWhole(h, call, body, j) BY <1>1, <1>2, <1>5, <1>6, <1>7, <1>8 DEF ToldWhole
<1> QED BY <1>1, <1>2, <1>5, <1>9

\* A part of a call comes to a start, and arguments if it has any.
LEMMA CallPartIs ==
  ASSUME NEW d, NEW part, part.kind = "call", NEW n, n = Len(d.callOf)
  PROVE  geminiPart(d, part)
           = Decoded([d EXCEPT !.callOf = Append(d.callOf, part.call)],
                     <<ToolCallStart(n, part.call)>>
                         \o When(part.args # <<>>, <<ToolCallArgs(n, part.args)>>))
BY Zenon DEF geminiPart

\* A part of a call tells that call whole.
LEMMA PartCall ==
  ASSUME NEW loose, NEW h, Live(h), NEW c, Heard(h, c), NEW d, DOMAIN d = DOMAIN NewDecoder,
         CountedAs(h, d), NEW part, part.kind = "call", part.call # 0, IsSeq(part.args),
         NEW g, g = GeminiHear(c, part)
  PROVE  \E state, deltas, k : PartGoes(loose, h, c, d, part, state, deltas, k, g)
<1>1. PICK n, call, args : n = Len(d.callOf) /\ call = part.call /\ args = part.args OBVIOUS
<1>2. PICK state : state = [d EXCEPT !.callOf = Append(d.callOf, call)] OBVIOUS
<1>3. PICK first : first = ToolCallStart(n, call) OBVIOUS
<1>4. PICK k : k = After(h, first) OBVIOUS
<1>5. /\ Follows(loose, h, first, k) /\ Live(k) /\ Called(h, first, k)
      /\ CountedAs(k, state) /\ DecoderOnly(d, state) /\ n \in Nat /\ n = Len(h.calls)
      /\ Len(k.calls) = n + 1
  <2>1. call # 0 /\ n = Len(d.callOf) BY <1>1
  <2>2. Live(h) /\ DOMAIN d = DOMAIN NewDecoder /\ CountedAs(h, d) OBVIOUS
  <2>3. PartOpens(loose, h, d, first, state, n, k)
    BY ONLY <1>2, <1>3, <1>4, <2>1, <2>2, PartCalled
  <2> QED BY <2>3 DEF PartOpens
<1>6. first.call = call BY <1>3 DEF ToolCallStart
<1>7. ToldWhole(h, call, <<>>, k) BY <1>5, <1>6, CalledIsWhole DEF Live
<1>8. CallWhole(c, call, args, g)
  <2>1. DOMAIN c = CliFields /\ IsSeq(c.calls) BY DEF Heard, Mirrors
  <2>2. g = Opens(c, 0, call, args) BY <1>1 DEF GeminiHear
  <2> QED BY <2>1, <2>2, OpensWhole
<1>9. Tells(loose, h, <<first>>, k) BY <1>5, TellsOne
<1>10. PICK second : second = ToolCallArgs(n, args) OBVIOUS
<1>11. PICK deltas : deltas = <<first>> \o When(args # <<>>, <<second>>) OBVIOUS
<1>12. geminiPart(d, part) = Decoded(state, deltas)
  <2>1. geminiPart(d, part)
          = Decoded([d EXCEPT !.callOf = Append(d.callOf, part.call)],
                    <<ToolCallStart(n, part.call)>>
                        \o When(part.args # <<>>, <<ToolCallArgs(n, part.args)>>))
    BY <1>1, CallPartIs
  <2> QED BY <1>1, <1>2, <1>3, <1>10, <1>11, <2>1
<1>13. CASE args = <<>>
  <2>1. Tells(loose, h, deltas, k)
    <3>1. When(args # <<>>, <<second>>) = <<>> BY <1>13, Zenon DEF When
    <3>2. Tells(loose, k, <<>>, k) BY TellsNone
    <3> QED BY <1>9, <1>11, <3>1, <3>2, TellsCat
  <2>2. ToldWhole(h, call, args, k) BY <1>7, <1>13
  <2>3. Heard(k, g) BY <1>8, <2>2, WholeIsHeard
  <2> QED BY <1>5, <1>8, <1>12, <2>1, <2>3 DEF PartGoes, CallWhole
<1>14. CASE args # <<>>
  <2>1. second.d = "args" /\ second.index = n /\ second.body = args BY <1>10 DEF ToolCallArgs
  <2>2. PICK j : j = After(k, second) OBVIOUS
  <2>3. IsSeq(second.body) BY <1>1, <2>1
  <2>4. Argued(k, second, j) BY <1>5, <2>1, <2>2, ArgsAreArgued DEF Live
  <2>5. \A m \in 1..(n + 1) : k.calls[m].index = m - 1 BY <1>5 DEF CountedAs
  <2>6. /\ ToldWhole(h, call, second.body, j)
        /\ Len(j.calls) = n + 1 /\ \A m \in 1..(n + 1) : j.calls[m].index = m - 1
    <3>1. PICK none : none = <<>> OBVIOUS
    <3>2. ToldWhole(h, call, none, k) /\ StoryIsSound(k) BY <1>5, <1>7, <3>1 DEF Live
    <3>3. n \in Nat /\ n = Len(h.calls) BY <1>5
    <3>4. second.index = n BY <2>1
    <3> QED BY ONLY <2>3, <2>4, <2>5, <3>1, <3>2, <3>3, <3>4, ArguedIsWhole
  <2>7. Allowed(loose, k, second)
    <3>1. n + 1 \in 1..Len(k.calls) /\ n + 1 = Len(k.calls) BY <1>5
    <3>2. k.calls[n + 1].index = n BY <1>5, <2>5
    <3>3. k.calls[n + 1].args = <<>> BY <1>5, <1>7 DEF ToldWhole
    <3>4. ~Complete(k.calls[n + 1].args) BY <3>3 DEF Complete
    <3>5. k.last = "call" BY <1>5 DEF Called
    <3>6. AwaitsArgs(loose, k, second.index) BY <2>1, <3>1, <3>2, <3>4, <3>5 DEF AwaitsArgs
    <3> QED BY <1>5, <2>1, <2>3, <3>6 DEF Allowed, Live
  <2>8. Follows(loose, k, second, j) BY <2>2, <2>7 DEF Follows
  <2>9. Tells(loose, h, deltas, j)
    <3>1. When(args # <<>>, <<second>>) = <<second>> BY <1>14, Zenon DEF When
    <3>2. Tells(loose, k, <<second>>, j) BY <2>8, TellsOne
    <3> QED BY <1>9, <1>11, <3>1, <3>2, TellsCat
  <2>10. StoryIsSound(j) BY <1>5, <2>2, <2>7, StoryStaysSound DEF Live
  <2>11. Live(j) BY <1>5, <2>4, <2>10 DEF Live, Argued, Aside
  <2>12. Heard(j, g) BY <1>8, <2>1, <2>6, WholeIsHeard
  <2>13. CountedAs(j, state) BY <1>5, <2>6 DEF CountedAs
  <2>14. Untouched(c, g) /\ DecoderOnly(d, state) BY <1>5, <1>8 DEF CallWhole
  <2>15. PartGoes(loose, h, c, d, part, state, deltas, j, g)
    BY <1>12, <2>9, <2>11, <2>12, <2>13, <2>14 DEF PartGoes
  <2> QED BY <2>15
<1> QED BY <1>13, <1>14

\* A part of either kind is told as it is heard.
LEMMA PartTold ==
  ASSUME NEW loose, NEW h, Live(h), NEW c, Heard(h, c), NEW d, DOMAIN d = DOMAIN NewDecoder,
         CountedAs(h, d), NEW part, IsPart(part), NEW g, g = GeminiHear(c, part)
  PROVE  PartMayGo(loose, h, c, d, part, g)
<1>1. CASE part.kind \in {"text", "think"} /\ IsSeq(part.body) /\ part.body # <<>>
  BY <1>1, PartSaid
<1>2. CASE part.kind = "call" /\ IsSeq(part.args) /\ part.call # 0 BY <1>2, PartCall DEF PartMayGo
<1> QED BY <1>1, <1>2 DEF IsPart

GeminiNow(x) ==
  /\ StoryIsSound(x.h) /\ Heard(x.h, x.source) /\ CountedAs(x.h, x.dec)
  /\ x.dec.started \in BOOLEAN /\ (x.dec.started <=> x.h.begun)
  /\ x.dec.failed = FALSE /\ DOMAIN x.dec = DOMAIN NewDecoder
  /\ x.h.done => x.stated = "ended" /\ ChatEnded(x.h, x.source)
  /\ ~x.h.done => x.stated = "" /\ ~x.source.over

\* A Gemini upstream agrees with its client, ended or not.
LEMMA GeminiAgrees ==
  ASSUME NEW w, w.up = "gemini", NEW x, GeminiNow(x)
  PROVE  Agrees(w, x)
BY DEF GeminiNow, Agrees, Heard, ChatEnded

GeminiDone(f) == When(f.finish # "", <<Done(mapFromGeminiFinishReason(f.finish))>>)
GeminiCounts(f) == When(f.usage # Null, <<UsageOf(Judged(GeminiUsage(f.usage)))>>)

\* A chunk of one part or of none.
Loaded(f) == f.f = "chunk" /\ (f.parts = <<>> \/ \E part : f.parts = <<part>> /\ IsPart(part))

GeminiStop(finish) ==
  finish = "" \/ /\ mapFromGeminiFinishReason(finish) \in Reasons
                 /\ EndClass(finish) = EndClass(mapFromGeminiFinishReason(finish))

\* What the chunk's part makes of a story that has begun.
ChunkGoes(loose, h, c, d, f, state, deltas, k, g) ==
  /\ decodeGemini(d, f) = Decoded(state, When(~d.started, <<Start>>) \o deltas
                                           \o GeminiDone(f) \o GeminiCounts(f))
  /\ Tells(loose, h, deltas, k) /\ Live(k) /\ Heard(k, g) /\ Untouched(c, g)
  /\ CountedAs(k, state) /\ state.started = TRUE /\ state.failed = d.failed
  /\ DOMAIN state = DOMAIN NewDecoder

\* What decodeGemini makes of a candidate, once its parts are read.
LEMMA DecodedNone ==
  ASSUME NEW d, NEW f, NEW first, first = [d EXCEPT !.started = TRUE],
         NEW parts, parts = GeminiThens(Decoded(first, When(~d.started, <<Start>>)), f.parts),
         NEW state, NEW deltas, parts = Decoded(state, deltas)
  PROVE  decodeGemini(d, f) = Decoded(state, deltas \o GeminiDone(f) \o GeminiCounts(f))
<1>1. decodeGemini(d, f) =
        Decoded(parts.state,
           parts.deltas
           \o When(f.finish # "", <<Done(mapFromGeminiFinishReason(f.finish))>>)
           \o When(f.usage # Null, <<UsageOf(Judged(GeminiUsage(f.usage)))>>)) BY GeminiDecodes
<1>2. parts.state = state /\ parts.deltas = deltas BY DEF Decoded
<1>3. decodeGemini(d, f) = Decoded(parts.state, parts.deltas \o GeminiDone(f) \o GeminiCounts(f))
  BY <1>1, Zenon DEF GeminiDone, GeminiCounts
<1> QED BY <1>2, <1>3

\* A candidate of one part or none is told as it is heard.
LEMMA ChunkGoesOn ==
  ASSUME NEW loose, NEW h, Live(h), NEW c, Heard(h, c), NEW d, DOMAIN d = DOMAIN NewDecoder,
         CountedAs(h, d), NEW f, Loaded(f), NEW g, g = GeminiHeard(c, f.parts)
  PROVE  \E state, deltas, k : ChunkGoes(loose, h, c, d, f, state, deltas, k, g)
<1>1. PICK first : first = [d EXCEPT !.started = TRUE] OBVIOUS
<1>2. /\ DOMAIN first = DOMAIN NewDecoder /\ first.started = TRUE /\ first.failed = d.failed
      /\ first.callOf = d.callOf BY <1>1 DEF NewDecoder
<1>3. CountedAs(h, first) BY <1>2 DEF CountedAs
<1>4. PICK start : start = When(~d.started, <<Start>>) OBVIOUS
<1>5. IsSeq(start)
  <2>1. CASE d.started
    <3>1. start = <<>> BY <1>4, <2>1, Zenon DEF When
    <3> QED BY <3>1, SeqEmpty
  <2>2. CASE ~d.started
    <3>1. start = <<Start>> BY <1>4, <2>2, Zenon DEF When
    <3> QED BY <3>1, SeqOne
  <2> QED BY <2>1, <2>2
<1>6. PICK acc, parts : acc = Decoded(first, start) /\ parts = GeminiThens(acc, f.parts) OBVIOUS
<1>7. CASE f.parts = <<>>
  <2>1. parts = acc /\ g = c BY <1>6, <1>7, HeardNone
  <2>2. PICK none : none = <<>> OBVIOUS
  <2>3. start \o none = start
    <3>1. start \o <<>> = start BY <1>5, SeqCat
    <3> QED BY <2>2, <3>1
  <2>4. parts = Decoded(first, start \o none) BY <1>6, <2>1, <2>3
  <2>5. decodeGemini(d, f) = Decoded(first, start \o none \o GeminiDone(f) \o GeminiCounts(f))
    BY <1>1, <1>4, <1>6, <2>4, DecodedNone
  <2>6. Tells(loose, h, none, h) BY <2>2, TellsNone
  <2>7. Untouched(c, g) /\ Heard(h, g) BY <2>1 DEF Untouched, Heard
  <2>8. ChunkGoes(loose, h, c, d, f, first, none, h, g)
    BY <1>2, <1>3, <1>4, <2>5, <2>6, <2>7 DEF ChunkGoes
  <2> QED BY <2>8
<1>8. CASE f.parts # <<>>
  <2>1. PICK part : f.parts = <<part>> /\ IsPart(part) BY <1>8 DEF Loaded
  <2>2. parts = GeminiThen(acc, part) /\ g = GeminiHear(c, part) BY <1>6, <2>1, HeardOne
  <2>3. PartMayGo(loose, h, c, first, part, g) BY <1>2, <1>3, <2>1, <2>2, PartTold
  <2>4. PICK state, deltas, k : PartGoes(loose, h, c, first, part, state, deltas, k, g)
    BY <2>3 DEF PartMayGo
  <2>5. parts = Decoded(state, start \o deltas)
    <3>1. acc.state = first /\ acc.deltas = start BY <1>6 DEF Decoded
    <3>2. geminiPart(first, part) = Decoded(state, deltas) BY <2>4 DEF PartGoes
    <3>3. Decoded(state, deltas).state = state /\ Decoded(state, deltas).deltas = deltas
      BY DEF Decoded
    <3>4. GeminiThen(acc, part) = Decoded(geminiPart(acc.state, part).state,
                                          acc.deltas \o geminiPart(acc.state, part).deltas)
      BY DEF GeminiThen
    <3> QED BY <2>2, <3>1, <3>2, <3>3, <3>4
  <2>6. decodeGemini(d, f) = Decoded(state, start \o deltas \o GeminiDone(f) \o GeminiCounts(f))
    BY <1>1, <1>4, <1>6, <2>5, DecodedNone
  <2>7. ChunkGoes(loose, h, c, d, f, state, deltas, k, g)
    BY <1>2, <1>4, <2>4, <2>6 DEF ChunkGoes, PartGoes, DecoderOnly
  <2> QED BY <2>7
<1> QED BY <1>7, <1>8

GeminiWent(w, x, f, y) ==
  /\ Reads(w, x, f, y) /\ GeminiNow(y) /\ y.h.begun
  /\ y.h.done <=> f.finish # ""

\* A candidate read leaves the decoder and the client in agreement.
LEMMA GeminiGoes ==
  ASSUME NEW w, w.up = "gemini", NEW x, GeminiNow(x), ~x.h.done, NEW f, Loaded(f),
         GeminiStop(f.finish)
  PROVE  \E y : GeminiWent(w, x, f, y)
<1>1. PICK d, c, loose, g0 : d = x.dec /\ c = x.source /\ loose = w.loose /\ g0 = x.h OBVIOUS
<1>2. /\ StoryIsSound(g0) /\ Heard(g0, c) /\ CountedAs(g0, d) /\ DOMAIN d = DOMAIN NewDecoder
      /\ d.started \in BOOLEAN /\ (d.started <=> g0.begun) /\ d.failed = FALSE
      /\ x.stated = "" /\ ~c.over /\ ~g0.done BY <1>1 DEF GeminiNow
<1>3. PICK h : Outset(g0, h) /\ Tells(loose, g0, When(~d.started, <<Start>>), h)
  BY <1>2, TellsStart
<1>4. Live(h) /\ Heard(h, c) /\ CountedAs(h, d) BY <1>2, <1>3 DEF Live, Outset, Heard, CountedAs
<1>5. PICK g : g = GeminiHeard(c, f.parts) OBVIOUS
<1>6. \E state, deltas, k : ChunkGoes(loose, h, c, d, f, state, deltas, k, g)
  <2>1. /\ Live(h) /\ Heard(h, c) /\ DOMAIN d = DOMAIN NewDecoder /\ CountedAs(h, d) /\ Loaded(f)
    BY <1>2, <1>4
  <2> QED BY ONLY <1>5, <2>1, ChunkGoesOn
<1>7. PICK state, deltas, k : ChunkGoes(loose, h, c, d, f, state, deltas, k, g) BY <1>6
<1>8. PICK reason, finishes : /\ reason = mapFromGeminiFinishReason(f.finish)
                              /\ finishes = (f.finish # "") OBVIOUS
<1>9. /\ finishes \in BOOLEAN /\ (finishes <=> f.finish # "")
      /\ finishes => reason \in Reasons /\ EndClass(f.finish) = EndClass(reason)
  BY <1>8 DEF GeminiStop
<1>10. StoryIsSound(k) /\ k.begun /\ ~k.done /\ Heard(k, g) /\ CountedAs(k, state)
  BY <1>7 DEF ChunkGoes, Live
<1>11. PICK m : /\ Tells(loose, k, GeminiDone(f), m) /\ StoryIsSound(m)
                /\ finishes => Stops(k, Done(reason), m)
                /\ ~finishes => m = k
  <2>1. GeminiDone(f) = When(finishes, <<Done(reason)>>) BY <1>8 DEF GeminiDone
  <2>2. CASE finishes
    <3>1. reason \in Reasons BY <1>9, <2>2
    <3>2. \E m : /\ Tells(loose, k, When(finishes, <<Done(reason)>>), m) /\ StoryIsSound(m)
                 /\ finishes => Stops(k, Done(reason), m)
                 /\ ~finishes => m = k
      <4>1. MayStop(k, finishes, reason) BY <1>9, <1>10, <3>1 DEF MayStop
      <4>2. \E m : Stopped(loose, k, finishes, reason, m) BY ONLY <4>1, TellsDone
      <4> QED BY <4>2, Zenon DEF Stopped
    <3> QED BY <2>1, <3>2
  <2>3. CASE ~finishes
    <3>1. When(finishes, <<Done(reason)>>) = <<>> BY <2>3, Zenon DEF When
    <3>2. Tells(loose, k, <<>>, k) BY TellsNone
    <3> QED BY <1>10, <2>1, <2>3, <3>1, <3>2
  <2> QED BY <1>9, <2>2, <2>3
<1>12. Done(reason).reason = reason BY DEF Done
<1>13. /\ m.begun /\ (m.done <=> finishes) /\ m.think = k.think /\ m.text = k.text
       /\ m.calls = k.calls /\ (finishes => m.reason = reason)
  BY <1>9, <1>10, <1>11, <1>12 DEF Stops
<1>14. PICK tale : tale = When(~d.started, <<Start>>) \o deltas \o GeminiDone(f) \o GeminiCounts(f)
  OBVIOUS
<1>15. Tells(loose, g0, tale, m)
  <2>1. Tells(loose, m, GeminiCounts(f), m)
    <3>1. (f.usage # Null) \in BOOLEAN OBVIOUS
    <3> QED BY <3>1, TellsUsage DEF GeminiCounts
  <2>2. Tells(loose, h, deltas, k) BY <1>7 DEF ChunkGoes
  <2>3. Tells(loose, g0, When(~d.started, <<Start>>) \o deltas, k) BY <1>3, <2>2, TellsCat
  <2>4. Tells(loose, g0, When(~d.started, <<Start>>) \o deltas \o GeminiDone(f), m)
    BY <1>11, <2>3, TellsCat
  <2> QED BY <1>14, <2>1, <2>4, TellsCat
<1>16. PICK r : r = ReadOne("gemini", c, f) OBVIOUS
<1>17. PartRead(g, f, r)
  <2>1. f.f = "chunk" /\ DOMAIN g = CliFields BY <1>10 DEF Loaded, Heard
  <2> QED BY <1>5, <1>16, <2>1, PartIsRead
<1>18. PICK judgement : judgement = IF x.stated = "" THEN EndIn(f) ELSE x.stated OBVIOUS
<1>19. /\ m.done => judgement = "ended"
       /\ ~m.done => judgement = ""
  <2>1. EndIn(f) = IF finishes THEN "ended" ELSE "" BY <1>8 DEF EndIn, Loaded
  <2> QED BY <1>2, <1>13, <1>18, <2>1
<1>20. PICK y : y = [dec |-> state, h |-> m, source |-> r, stated |-> judgement] OBVIOUS
<1>21. y.dec = state /\ y.h = m /\ y.source = r /\ y.stated = judgement BY <1>20
<1>22. GeminiNow(y)
  <2>1. Heard(m, r) BY <1>10, <1>13, <1>17 DEF Heard, PartRead
  <2>2. CountedAs(m, state) BY <1>10, <1>13 DEF CountedAs
  <2>3. m.done => ChatEnded(m, r) BY <1>9, <1>13, <1>17 DEF PartRead, ChatEnded
  <2>4. ~m.done => ~r.over BY <1>9, <1>13, <1>17 DEF PartRead
  <2>6. state.started = TRUE /\ state.failed = FALSE /\ DOMAIN state = DOMAIN NewDecoder
    BY <1>2, <1>7 DEF ChunkGoes
  <2> QED BY <1>11, <1>13, <1>19, <1>21, <2>1, <2>2, <2>3, <2>4, <2>6 DEF GeminiNow
<1>23. Reads(w, x, f, y)
  <2>1. DecodeChunk(w.up, x.dec, f) = decodeGemini(d, f) BY <1>1 DEF DecodeChunk
  <2>2. decodeGemini(d, f) = Decoded(state, tale) BY <1>7, <1>14 DEF ChunkGoes
  <2>3. Decoded(state, tale).state = state /\ Decoded(state, tale).deltas = tale BY DEF Decoded
  <2>4. f.f # "error" BY DEF Loaded
  <2>5. Agrees(w, y) BY <1>22, GeminiAgrees
  <2>6. /\ y.dec = DecodeChunk(w.up, x.dec, f).state
        /\ Tells(w.loose, x.h, DecodeChunk(w.up, x.dec, f).deltas, y.h)
    BY <1>1, <1>15, <1>21, <2>1, <2>2, <2>3
  <2>7. y.source = ReadOne(w.up, x.source, f) BY <1>1, <1>16, <1>21
  <2> QED BY <1>1, <1>2, <1>18, <1>21, <2>4, <2>5, <2>6, <2>7 DEF Reads
<1> QED BY <1>9, <1>13, <1>21, <1>22, <1>23 DEF GeminiWent

\* Several sequences make one.
LEMMA FlattenIsSeq ==
  ASSUME NEW ss, IsSeq(ss), \A i \in 1..Len(ss) : IsSeq(ss[i])
  PROVE  IsSeq(FlattenSeq(ss))
<1> DEFINE n == Len(ss)
<1>1. PICK P : P[0] = <<>> /\ P[n] = FlattenSeq(ss) /\ \A i \in 1..n : P[i] = P[i - 1] \o ss[i]
  BY FlattenSteps
<1>2. n \in Nat BY SeqDomain
<1> DEFINE T == {i \in Nat : IsSeq(P[i])}
<1>3. 0 \in T BY <1>1, SeqEmpty
<1>4. ASSUME NEW i \in 0..(n - 1), i \in T PROVE i + 1 \in T
  <2>1. i + 1 \in 1..n /\ (i + 1) - 1 = i /\ i + 1 \in Nat BY <1>2
  <2>2. P[i + 1] = P[i] \o ss[i + 1] BY <1>1, <2>1
  <2>3. IsSeq(P[i]) /\ IsSeq(ss[i + 1]) BY <1>4, <2>1
  <2>4. IsSeq(P[i] \o ss[i + 1]) BY <2>3, SeqCat
  <2> QED BY <2>1, <2>2, <2>4
<1>5. n \in 0..n BY <1>2
<1>6. n \in T
  <2> HIDE DEF T, n
  <2> QED BY <1>2, <1>3, <1>4, <1>5, UpTo
<1> QED BY <1>1, <1>6

\* What comes on a condition is a sequence,
LEMMA WhenIsSeq ==
  ASSUME NEW condition, NEW x
  PROVE  IsSeq(When(condition, <<x>>))
<1>1. CASE condition
  <2>1. When(condition, <<x>>) = <<x>> BY <1>1, Zenon DEF When
  <2> QED BY <2>1, SeqOne
<1>2. CASE ~condition
  <2>1. When(condition, <<x>>) = <<>> BY <1>2, Zenon DEF When
  <2> QED BY <2>1, SeqEmpty
<1> QED BY <1>1, <1>2, Zenon

\* and so are a call's arguments.
LEMMA ArgumentsAreSeq ==
  ASSUME NEW plan_, IsSeq(plan_.said), NEW call
  PROVE  IsSeq(Arguments(plan_, call))
<1>1. PICK said, at : said = plan_.said /\ at = ArgsOf(plan_.said, call) OBVIOUS
<1>2. PICK n : n = Len(said) OBVIOUS
<1>3. n \in Nat /\ DOMAIN said = 1..n BY <1>1, <1>2, SeqDomain
<1> DEFINE one(i) == When(i \in at, <<Piece(plan_, i)>>)
<1>4. \A i : IsSeq(one(i))
  <2> TAKE i
  <2>1. (i \in at) \in BOOLEAN OBVIOUS
  <2> QED BY <2>1, WhenIsSeq
<1>5. PICK ss : ss = [i \in 1..n |-> one(i)] OBVIOUS
<1>6. Arguments(plan_, call) = FlattenSeq(ss)
  <2>1. Arguments(plan_, call) = FlattenSeq([i \in DOMAIN plan_.said |-> one(i)])
    BY <1>1, Zenon DEF Arguments, Pieces
  <2> HIDE DEF one
  <2> QED BY <1>1, <1>3, <1>5, <2>1
<1> HIDE DEF one
<1>7. ss = [i \in 1..n |-> ss[i]] /\ \A i \in 1..n : ss[i] = one(i) BY <1>5
<1>8. IsSeq(ss) /\ Len(ss) = n BY <1>3, <1>7, SeqFunction
<1>9. \A i \in 1..Len(ss) : IsSeq(ss[i]) BY <1>4, <1>7, <1>8
<1> QED BY <1>6, <1>8, <1>9, FlattenIsSeq

GeminiLast(plan_, i) ==
  plan_.tail = "together" /\ \A j \in (i + 1)..Len(plan_.said) : plan_.said[j].kind = "args"

CandidateFields == {"f", "parts", "finish", "usage"}

\* A Gemini upstream's part for an utterance,
LEMMA GeminiPartIs ==
  ASSUME NEW plan_, IsSeq(plan_.said), NEW i, NEW u, u = plan_.said[i], u \in Utterances,
         u.kind # "args", NEW part, part = geminiPartOf(plan_, i)
  PROVE  IsPart(part)
<1>1. u.kind \in {"think", "text", "call"} BY UtteranceIs DEF TalkKinds
<1>2. CASE u.kind = "call"
  <2>1. PICK args : args = Arguments(plan_, u.call) OBVIOUS
  <2>2. IsSeq(args) BY <2>1, ArgumentsAreSeq
  <2>3. part = [kind |-> "call", call |-> u.call, args |-> args]
    BY <1>2, <2>1, Zenon DEF geminiPartOf
  <2>4. u.call # 0 BY <1>2, UtteranceIs
  <2> QED BY <2>2, <2>3, <2>4 DEF IsPart
<1>3. CASE u.kind # "call"
  <2>1. PICK body : body = <<Piece(plan_, i)>> OBVIOUS
  <2>2. IsSeq(body) /\ body # <<>> BY <2>1, SeqOne, Zenon
  <2>3. part = [kind |-> u.kind, body |-> body] BY <1>3, <2>1, Zenon DEF geminiPartOf
  <2> QED BY <1>1, <1>3, <2>2, <2>3 DEF IsPart
<1> QED BY <1>2, <1>3

\* and its candidate, of which the last states the end.
LEMMA GeminiChunkIs ==
  ASSUME NEW plan_, IsSeq(plan_.said), NEW i, NEW u, u = plan_.said[i], u \in Utterances,
         u.kind # "args", NEW f, f = geminiChunk(plan_, i)
  PROVE  /\ Loaded(f)
         /\ f.finish = IF GeminiLast(plan_, i) THEN NativeStop("gemini", plan_) ELSE ""
<1>1. PICK part : part = geminiPartOf(plan_, i) OBVIOUS
<1>2. IsPart(part) BY <1>1, GeminiPartIs
<1>3. PICK finish : finish = IF GeminiLast(plan_, i) THEN NativeStop("gemini", plan_) ELSE "" OBVIOUS
<1>4. PICK parts : parts = <<part>> OBVIOUS
<1>5. \E usage : f = [NoCandidate EXCEPT !.parts = parts, !.finish = finish, !.usage = usage]
  BY <1>1, <1>3, <1>4, Zenon DEF geminiChunk, GeminiLast
<1>6. PICK usage : f = [NoCandidate EXCEPT !.parts = parts, !.finish = finish, !.usage = usage]
  BY <1>5
<1>7. PICK none : none = <<>> OBVIOUS
<1>8. DOMAIN NoCandidate = CandidateFields /\ NoCandidate.f = "chunk"
  BY DEF NoCandidate, CandidateFields
<1>9. f.f = "chunk" /\ f.parts = parts /\ f.finish = finish BY <1>6, <1>8 DEF CandidateFields
<1> QED BY <1>2, <1>3, <1>4, <1>9 DEF Loaded

\* A Gemini upstream's finishReason is one the mapping knows.
LEMMA GeminiStops ==
  ASSUME NEW plan_, PlanIsSound("gemini", plan_)
  PROVE  NativeStop("gemini", plan_) # "" /\ GeminiStop(NativeStop("gemini", plan_))
<1>1. NativeStop("gemini", plan_) \in {"MAX_TOKENS", "SAFETY", "STOP"} BY DEF NativeStop
<1> QED BY <1>1 DEF GeminiStop, mapFromGeminiFinishReason, EndClass, Reasons

GeminiStage(w, plan_, i, x) ==
  GeminiNow(x) /\ (x.h.done => i > 0 /\ GeminiLast(plan_, i))

\* A Gemini upstream's next utterance is one the story follows.
LEMMA GeminiUpSays ==
  ASSUME NEW plan_, PlanIsSound("gemini", plan_), NEW w, w.up = "gemini",
         NEW i \in 0..(Len(plan_.said) - 1), NEW x, GeminiStage(w, plan_, i, x),
         NEW s, s = When(plan_.said[i + 1].kind # "args", <<geminiChunk(plan_, i + 1)>>)
  PROVE  \E y : Leads(w, x, s, y) /\ GeminiStage(w, plan_, i + 1, y)
<1>1. PICK said, u : said = plan_.said /\ u = said[i + 1] OBVIOUS
<1>2. WellTalked(said) BY <1>1 DEF PlanIsSound
<1>3. i + 1 \in 1..Len(said) /\ u \in Utterances /\ i \in Nat BY <1>1, <1>2, OpenedSoFar
<1>4. IsSeq(said) /\ Len(said) \in Nat BY <1>2, SeqDomain DEF WellTalked
<1>5. CASE u.kind = "args"
  <2>1. s = <<>> BY <1>1, <1>5, Zenon DEF When
  <2>2. Leads(w, x, s, x) BY <2>1, LeadsNone
  <2>3. x.h.done => i + 1 > 0 /\ GeminiLast(plan_, i + 1)
    <3> SUFFICES ASSUME x.h.done PROVE i + 1 > 0 /\ GeminiLast(plan_, i + 1) OBVIOUS
    <3>1. GeminiLast(plan_, i) BY DEF GeminiStage
    <3>2. \A j \in ((i + 1) + 1)..Len(said) : j \in (i + 1)..Len(said) BY <1>3, <1>4
    <3> QED BY <1>1, <1>3, <3>1, <3>2 DEF GeminiLast
  <2> QED BY <2>2, <2>3 DEF GeminiStage
<1>6. CASE u.kind # "args"
  <2>1. PICK f : f = geminiChunk(plan_, i + 1) OBVIOUS
  <2>2. s = <<f>> BY <1>1, <1>6, <2>1, Zenon DEF When
  <2>3. ~x.h.done
    <3>1. ASSUME x.h.done PROVE FALSE
      <4>1. GeminiLast(plan_, i) BY <3>1 DEF GeminiStage
      <4>2. i + 1 \in (i + 1)..Len(said) BY <1>3
      <4> QED BY <1>1, <1>6, <4>1, <4>2 DEF GeminiLast
    <3> QED BY <3>1
  <2>4. /\ Loaded(f)
        /\ f.finish = IF GeminiLast(plan_, i + 1) THEN NativeStop("gemini", plan_) ELSE ""
    BY <1>1, <1>3, <1>4, <1>6, <2>1, GeminiChunkIs
  <2>5. GeminiStop(f.finish) /\ (f.finish # "" => GeminiLast(plan_, i + 1))
    BY <2>4, GeminiStops DEF GeminiStop
  <2>6. GeminiNow(x) BY DEF GeminiStage
  <2>7. PICK y : GeminiWent(w, x, f, y) BY <2>3, <2>4, <2>5, <2>6, GeminiGoes
  <2>8. Leads(w, x, s, y) BY <2>2, <2>7, LeadsOne DEF GeminiWent
  <2>9. i + 1 > 0 BY <1>3
  <2> QED BY <2>5, <2>7, <2>8, <2>9 DEF GeminiStage, GeminiWent
<1> QED BY <1>5, <1>6

\* What follows a Gemini upstream's utterances is read as well.
LEMMA GeminiTail ==
  ASSUME NEW plan_, PlanIsSound("gemini", plan_), NEW w, w.up = "gemini",
         NEW x, GeminiStage(w, plan_, Len(plan_.said), x), NEW usage, NEW tail,
         tail = When(~(plan_.tail = "together" /\ plan_.said # <<>>),
                     <<[NoCandidate EXCEPT !.finish = NativeStop("gemini", plan_), !.usage = usage]>>)
  PROVE  \E y : Leads(w, x, tail, y)
<1>1. CASE plan_.tail = "together" /\ plan_.said # <<>>
  <2>1. tail = <<>> BY <1>1, Zenon DEF When
  <2> QED BY <2>1, LeadsNone
<1>2. CASE ~(plan_.tail = "together" /\ plan_.said # <<>>)
  <2>1. PICK stop : stop = NativeStop("gemini", plan_) OBVIOUS
  <2>2. PICK f : f = [NoCandidate EXCEPT !.finish = stop, !.usage = usage] OBVIOUS
  <2>3. tail = <<f>> BY <1>2, <2>1, <2>2, Zenon DEF When
  <2>4. ~x.h.done
    <3>1. CASE plan_.tail # "together" BY <3>1 DEF GeminiStage, GeminiLast
    <3>2. CASE plan_.said = <<>>
      <4>1. Len(plan_.said) = 0 BY <3>2, SeqEmpty
      <4> QED BY <4>1 DEF GeminiStage
    <3> QED BY <1>2, <3>1, <3>2
  <2>5. PICK none : none = <<>> OBVIOUS
  <2>6. DOMAIN NoCandidate = CandidateFields /\ NoCandidate.f = "chunk" /\ NoCandidate.parts = none
    BY <2>5 DEF NoCandidate, CandidateFields
  <2>7. f.f = "chunk" /\ f.parts = none /\ f.finish = stop BY <2>2, <2>6 DEF CandidateFields
  <2>8. Loaded(f) /\ GeminiStop(f.finish) BY <2>1, <2>5, <2>7, GeminiStops DEF Loaded
  <2>9. GeminiNow(x) BY DEF GeminiStage
  <2>10. PICK y : GeminiWent(w, x, f, y) BY <2>4, <2>8, <2>9, GeminiGoes
  <2> QED BY <2>3, <2>10, LeadsOne DEF GeminiWent
<1> QED BY <1>1, <1>2

----------------------------------------
(* A Claude upstream. *)

LEMMA BlockIndexSteps ==
  ASSUME NEW said, NEW i \in Nat
  PROVE  /\ BlockIndex(said, i) \in Int /\ -1 <= BlockIndex(said, i)
         /\ BlockIndex(said, 0) = -1
         /\ OpensBlock(said, i + 1) => BlockIndex(said, i + 1) = BlockIndex(said, i) + 1
         /\ ~OpensBlock(said, i + 1) => BlockIndex(said, i + 1) = BlockIndex(said, i)
<1> DEFINE T(m) == {j \in 1..m : OpensBlock(said, j)}
<1>1. IsFiniteSet(T(i)) /\ Cardinality(T(i)) \in Nat
  <2>1. IsFiniteSet(1..i) BY FS_Interval
  <2>2. IsFiniteSet(T(i)) BY <2>1, FS_Subset
  <2> QED BY <2>2, FS_CardinalityType
<1>2. Cardinality(T(0)) = 0
  <2>1. T(0) = {} OBVIOUS
  <2> QED BY <2>1, FS_EmptySet
<1>3. 1..(i + 1) = 1..i \cup {i + 1} /\ i + 1 \notin T(i) OBVIOUS
<1>4. \A m : BlockIndex(said, m) = Cardinality(T(m)) - 1 BY Zenon DEF BlockIndex
<1>5. CASE OpensBlock(said, i + 1)
  <2>1. T(i + 1) = T(i) \cup {i + 1} BY <1>3, <1>5
  <2> HIDE DEF T
  <2>2. Cardinality(T(i + 1)) = Cardinality(T(i)) + 1 BY <1>1, <1>3, <2>1, FS_AddElement
  <2> QED BY <1>1, <1>2, <1>4, <1>5, <2>2
<1>6. CASE ~OpensBlock(said, i + 1)
  <2>1. T(i + 1) = T(i) BY <1>3, <1>6
  <2> HIDE DEF T
  <2> QED BY <1>1, <1>2, <1>4, <1>6, <2>1
<1> QED BY <1>5, <1>6

\* A frame that says nothing of the end.
Quiet(state, k) ==
  /\ state.started \in BOOLEAN /\ (state.started <=> k.begun)
  /\ state.done = FALSE /\ state.completed = FALSE /\ state.failed = FALSE

Reached(w, x, f, state, k, r, y) ==
  Reads(w, x, f, y) /\ Calm(y) /\ y.dec = state /\ y.h = k /\ y.source = r

\* A frame that states no end leaves decoder and client in agreement.
LEMMA QuietRead ==
  ASSUME NEW w, NEW x, Calm(x), NEW f, f.f # "error", EndIn(f) = "",
         NEW state, NEW deltas, DecodeChunk(w.up, x.dec, f) = Decoded(state, deltas),
         NEW k, Tells(w.loose, x.h, deltas, k), StoryIsSound(k), ~k.done, Quiet(state, k),
         NEW r, r = ReadOne(w.up, x.source, f), Heard(k, r), ~r.over
  PROVE  \E y : Reached(w, x, f, state, k, r, y)
<1>1. PICK y : y = [dec |-> state, h |-> k, source |-> r, stated |-> ""] OBVIOUS
<1>2. y.dec = state /\ y.h = k /\ y.source = r /\ y.stated = "" BY <1>1
<1>3. Calm(y) BY <1>2 DEF Calm, Quiet
<1>4. Agrees(w, y) BY <1>3, CalmAgrees
<1>5. x.stated = "" /\ ~x.source.over BY DEF Calm
<1>6. \A a, b : Decoded(a, b).state = a /\ Decoded(a, b).deltas = b BY DEF Decoded
<1>7. PICK step : step = DecodeChunk(w.up, x.dec, f) OBVIOUS
<1>8. step.state = state /\ step.deltas = deltas
  <2>1. step = Decoded(state, deltas) BY <1>7
  <2> QED BY ONLY <1>6, <2>1
<1>9. Reads(w, x, f, y) BY <1>2, <1>4, <1>5, <1>7, <1>8 DEF Reads
<1> QED BY <1>2, <1>3, <1>9 DEF Reached

\* The calls of a Claude upstream are numbered as they come, and found by their blocks.
Filed(tale, caught, callOf, top) ==
  LET n == Len(tale) IN
  /\ IsSeq(callOf) /\ Len(callOf) = n
  /\ \A k \in 1..n : /\ tale[k].index = k - 1 /\ caught[k].at = callOf[k]
                     /\ callOf[k] \in Int /\ callOf[k] <= top
  /\ \A k \in 1..(n - 1) : callOf[k] < callOf[n]

\* No call, nothing filed.
LEMMA FiledNone ==
  ASSUME NEW tale, NEW caught, NEW callOf, NEW top, tale = <<>>, callOf = <<>>
  PROVE  Filed(tale, caught, callOf, top)
<1>1. Len(tale) = 0 /\ Len(callOf) = 0 /\ IsSeq(callOf) BY SeqEmpty
<1> QED BY <1>1 DEF Filed

\* Calls keep the blocks they are filed under,
LEMMA FiledSame ==
  ASSUME NEW tale, NEW caught, NEW callOf, NEW top, Filed(tale, caught, callOf, top),
         NEW n, n = Len(tale), NEW more, NEW other, Len(more) = n,
         \A k \in 1..n : more[k].index = tale[k].index /\ other[k].at = caught[k].at
  PROVE  Filed(more, other, callOf, top)
BY DEF Filed

Lengthened(tale, caught, n, at, more, other) ==
  /\ Len(tale) = n /\ Len(more) = n + 1
  /\ \A k \in 1..n : more[k] = tale[k] /\ other[k] = caught[k]
  /\ more[n + 1].index = n /\ other[n + 1].at = at

FiledAt(more, other, longer, n, at) == Filed(more, other, longer, at) /\ longer[n + 1] = at

\* and one more is filed under a block above them all.
LEMMA FiledMore ==
  ASSUME NEW tale, NEW caught, NEW callOf, NEW top \in Int, Filed(tale, caught, callOf, top),
         NEW n \in Nat, NEW more, NEW other, NEW at \in Int, top < at,
         Lengthened(tale, caught, n, at, more, other), NEW longer, longer = Append(callOf, at)
  PROVE  FiledAt(more, other, longer, n, at)
<1>0. /\ Len(tale) = n /\ Len(more) = n + 1
      /\ \A k \in 1..n : more[k] = tale[k] /\ other[k] = caught[k]
      /\ more[n + 1].index = n /\ other[n + 1].at = at BY DEF Lengthened
<1>1. IsSeq(callOf) /\ Len(callOf) = n BY <1>0 DEF Filed
<1>2. OneMore(callOf, at, Append(callOf, at)) BY <1>1, SeqAppended
<1>3. /\ IsSeq(longer) /\ Len(longer) = n + 1 /\ (\A k \in 1..n : longer[k] = callOf[k])
      /\ longer[n + 1] = at BY <1>1, <1>2 DEF OneMore
<1>4. \A k \in 1..(n + 1) : k \in 1..n \/ k = n + 1 OBVIOUS
<1>5. \A k \in 1..n : /\ more[k].index = k - 1 /\ other[k].at = longer[k]
                      /\ longer[k] \in Int /\ longer[k] < at
  <2> SUFFICES ASSUME NEW k \in 1..n
               PROVE  /\ more[k].index = k - 1 /\ other[k].at = longer[k]
                      /\ longer[k] \in Int /\ longer[k] < at OBVIOUS
  <2>1. /\ tale[k].index = k - 1 /\ caught[k].at = callOf[k]
        /\ callOf[k] \in Int /\ callOf[k] <= top BY <1>0 DEF Filed
  <2>2. more[k] = tale[k] /\ other[k] = caught[k] /\ longer[k] = callOf[k] BY <1>0, <1>3
  <2>3. callOf[k] < at BY <2>1
  <2> QED BY ONLY <2>1, <2>2, <2>3
<1>6. \A k \in 1..(n + 1) : /\ more[k].index = k - 1 /\ other[k].at = longer[k]
                            /\ longer[k] \in Int /\ longer[k] <= at
  <2> SUFFICES ASSUME NEW k \in 1..(n + 1)
               PROVE  /\ more[k].index = k - 1 /\ other[k].at = longer[k]
                      /\ longer[k] \in Int /\ longer[k] <= at OBVIOUS
  <2>1. CASE k \in 1..n BY <1>5, <2>1
  <2>2. CASE k = n + 1 BY <1>0, <1>3, <2>2
  <2> QED BY <1>4, <2>1, <2>2
<1>7. \A k \in 1..((n + 1) - 1) : longer[k] < longer[n + 1] BY <1>3, <1>5
<1>8. Filed(more, other, longer, at) BY <1>0, <1>3, <1>6, <1>7 DEF Filed
<1> QED BY <1>3, <1>8 DEF FiledAt

ClaudeNow(x, top, blocks) ==
  /\ Calm(x) /\ x.h.begun /\ DOMAIN x.dec = DOMAIN NewDecoder /\ Unended(x.source)
  /\ Filed(x.h.calls, x.source.calls, x.dec.callOf, top)
  /\ IsSeq(x.source.items) /\ Len(x.source.items) = blocks

\* A frame that tells nothing.
ClaudeSilent(w, x, f, top, blocks, y) ==
  Reads(w, x, f, y) /\ ClaudeNow(y, top, blocks) /\ y.h = x.h /\ y.dec = x.dec

\* A Claude frame that tells nothing leaves the story where it was:
LEMMA ClaudeQuiet ==
  ASSUME NEW w, w.up = "claude", NEW top, NEW blocks, NEW x, ClaudeNow(x, top, blocks),
         NEW f, f.f # "error", EndIn(f) = "",
         DecodeChunk("claude", x.dec, f) = Decoded(x.dec, <<>>),
         NEW r, r = ReadOne("claude", x.source, f), Intact(x.source, r),
         r.calls = x.source.calls, IsSeq(r.items), NEW after, Len(r.items) = after
  PROVE  \E y : ClaudeSilent(w, x, f, top, after, y)
<1>1. PICK h, d, c, none : h = x.h /\ d = x.dec /\ c = x.source /\ none = <<>> OBVIOUS
<1>2. Calm(x) BY DEF ClaudeNow
<1>3. StoryIsSound(h) /\ ~h.done /\ Quiet(d, h) /\ Heard(h, c) /\ ~c.over
  BY <1>1, <1>2 DEF Calm, Quiet
<1>4. Heard(h, r) /\ ~r.over /\ Unended(r) BY <1>1, <1>3 DEF Intact, Heard, ClaudeNow, Unended
<1>5. Tells(w.loose, h, none, h) BY <1>1, TellsNone
<1>6. \E y : Reached(w, x, f, d, h, r, y)
  <2>1. /\ Calm(x) /\ f.f # "error" /\ EndIn(f) = ""
        /\ DecodeChunk(w.up, x.dec, f) = Decoded(d, none) /\ Tells(w.loose, x.h, none, h)
        /\ StoryIsSound(h) /\ ~h.done /\ Quiet(d, h)
        /\ r = ReadOne(w.up, x.source, f) /\ Heard(h, r) /\ ~r.over
    BY <1>1, <1>2, <1>3, <1>4, <1>5
  <2> QED BY ONLY <2>1, QuietRead
<1>7. PICK y : Reached(w, x, f, d, h, r, y) BY <1>6
<1>8. ClaudeNow(y, top, after) BY <1>1, <1>4, <1>7 DEF Reached, ClaudeNow
<1> QED BY <1>1, <1>7, <1>8 DEF Reached, ClaudeSilent

\* the stop of a block
LEMMA ClaudeStopRead ==
  ASSUME NEW w, w.up = "claude", NEW top, NEW blocks \in Int, NEW x, ClaudeNow(x, top, blocks),
         NEW f, f.f = "block_stop"
  PROVE  \E y : ClaudeSilent(w, x, f, top, blocks + 1, y)
<1>1. PICK c : c = x.source OBVIOUS
<1>2. DOMAIN c = CliFields /\ IsSeq(c.items) /\ Len(c.items) = blocks
  BY <1>1 DEF ClaudeNow, Calm, Heard
<1>3. PICK r : r = ReadOne("claude", c, f) OBVIOUS
<1>4. Intact(c, r) /\ r.calls = c.calls /\ r.items = Append(c.items, c.block)
  BY <1>2, <1>3, BlockStops DEF BlockStopped
<1>5. IsSeq(r.items) /\ Len(r.items) = blocks + 1
  <2>1. PICK s, b : s = c.items /\ b = c.block OBVIOUS
  <2>2. OneMore(s, b, Append(s, b)) BY <1>2, <2>1, SeqAppended
  <2> QED BY <1>2, <1>4, <2>1, <2>2 DEF OneMore
<1>6. EndIn(f) = "" /\ f.f # "error" BY DEF EndIn
<1>7. DecodeChunk("claude", x.dec, f) = Decoded(x.dec, <<>>)
  BY Zenon DEF DecodeChunk, decodeClaude
<1> QED BY <1>1, <1>3, <1>4, <1>5, <1>6, <1>7, ClaudeQuiet

\* and the start of one that is not a call's.
LEMMA ClaudeStartRead ==
  ASSUME NEW w, w.up = "claude", NEW top, NEW blocks, NEW x, ClaudeNow(x, top, blocks),
         NEW f, f.f = "block_start", f.kind # "call"
  PROVE  \E y : ClaudeSilent(w, x, f, top, blocks, y)
<1>1. PICK c : c = x.source OBVIOUS
<1>2. DOMAIN c = CliFields /\ IsSeq(c.items) /\ Len(c.items) = blocks
  BY <1>1 DEF ClaudeNow, Calm, Heard
<1>3. PICK r : r = ReadOne("claude", c, f) OBVIOUS
<1>4. Intact(c, r) /\ r.calls = c.calls /\ r.items = c.items
  BY <1>2, <1>3, BlockStarts DEF BlockStarted
<1>6. EndIn(f) = "" /\ f.f # "error" BY DEF EndIn
<1>7. DecodeChunk("claude", x.dec, f) = Decoded(x.dec, <<>>)
  BY Zenon DEF DecodeChunk, decodeClaude
<1> QED BY <1>1, <1>2, <1>3, <1>4, <1>6, <1>7, ClaudeQuiet

\* The state after a frame that tells something.
ClaudeTold(w, x, f, k, top, blocks, y) ==
  /\ Reads(w, x, f, y) /\ ClaudeNow(y, top, blocks) /\ y.h = k

ClaudeToldBy(w, x, f, k, top, blocks, state, y) ==
  ClaudeTold(w, x, f, k, top, blocks, y) /\ y.dec = state

\* What a decoder keeps when it tells something before the end.
Keeps(d, state) ==
  /\ DOMAIN state = DOMAIN NewDecoder /\ state.started = d.started
  /\ state.done = d.done /\ state.completed = d.completed /\ state.failed = d.failed

LastAt(x, at) == LET n == Len(x.h.calls) IN n > 0 /\ x.dec.callOf[n] = at

\* A Claude frame that comes to one delta tells it:
LEMMA ClaudeTells ==
  ASSUME NEW w, w.up = "claude", NEW top, NEW blocks, NEW x, ClaudeNow(x, top, blocks),
         NEW f, f.f # "error", EndIn(f) = "",
         NEW state, Keeps(x.dec, state), NEW delta, NEW deltas, deltas = <<delta>>,
         DecodeChunk("claude", x.dec, f) = Decoded(state, deltas), NEW k, Follows(w.loose, x.h, delta, k), Live(k),
         NEW r, r = ReadOne("claude", x.source, f), Heard(k, r), ~r.over, Unended(r),
         NEW after, Filed(k.calls, r.calls, state.callOf, after), r.items = x.source.items
  PROVE  \E y : ClaudeToldBy(w, x, f, k, after, blocks, state, y)
<1>1. Calm(x) /\ x.h.begun BY DEF ClaudeNow
<1>3. Tells(w.loose, x.h, deltas, k) BY TellsOne
<1>4. StoryIsSound(k) /\ ~k.done /\ k.begun BY DEF Live
<1>5. Quiet(state, k) BY <1>1, <1>4 DEF Quiet, Calm, Keeps
<1>6. \E y : Reached(w, x, f, state, k, r, y)
  <2>1. /\ Calm(x) /\ f.f # "error" /\ EndIn(f) = ""
        /\ DecodeChunk(w.up, x.dec, f) = Decoded(state, deltas) /\ Tells(w.loose, x.h, deltas, k)
        /\ StoryIsSound(k) /\ ~k.done /\ Quiet(state, k)
        /\ r = ReadOne(w.up, x.source, f) /\ Heard(k, r) /\ ~r.over BY <1>1, <1>3, <1>4, <1>5
  <2> QED BY ONLY <2>1, QuietRead
<1>7. PICK y : Reached(w, x, f, state, k, r, y) BY <1>6
<1>8. ClaudeNow(y, after, blocks) BY <1>4, <1>7 DEF Reached, ClaudeNow, Keeps
<1> QED BY <1>7, <1>8 DEF Reached, ClaudeTold, ClaudeToldBy

\* words,
LEMMA ClaudeWordsRead ==
  ASSUME NEW w, w.up = "claude", NEW top, NEW blocks, NEW x, ClaudeNow(x, top, blocks),
         NEW f, f.f = "block_delta", f.kind \in {"think", "text"},
         NEW delta, WholeCall(delta), delta.d = f.kind, delta.body = f.body,
         NEW k, Follows(w.loose, x.h, delta, k), Live(k)
  PROVE  \E y : ClaudeToldBy(w, x, f, k, top, blocks, x.dec, y)
<1>1. PICK h, d, c : h = x.h /\ d = x.dec /\ c = x.source OBVIOUS
<1>2. /\ StoryIsSound(h) /\ Heard(h, c) /\ ~c.over /\ Unended(c) /\ DOMAIN c = CliFields
      /\ DOMAIN d = DOMAIN NewDecoder /\ Filed(h.calls, c.calls, d.callOf, top)
  BY <1>1 DEF ClaudeNow, Calm, Heard
<1>3. PICK r : r = ReadOne("claude", c, f) OBVIOUS
<1>4. BlockSaid(c, f, r) BY <1>2, <1>3, BlockSays
<1>5. Worded(h, delta, k) BY <1>1, <1>2, WordsAreWorded DEF Follows
<1>6. /\ DOMAIN r = CliFields /\ ~r.over /\ Unended(r) /\ r.items = c.items /\ r.calls = c.calls
      /\ Spoken(c, f.kind, f.body, r) BY <1>2, <1>4 DEF BlockSaid, Unended
<1>7. k.calls = h.calls /\ Spoken(h, f.kind, f.body, k) BY <1>5 DEF Worded
<1>8. Heard(k, r) BY <1>2, <1>6, <1>7 DEF Heard, Spoken
<1>9. EndIn(f) = "" /\ f.f # "error" BY DEF EndIn
<1>10. DecodeChunk("claude", d, f) = Decoded(d, <<delta>>)
  <2>1. CASE f.kind = "text"
    <3>1. delta = Text(f.body) BY <2>1 DEF WholeCall
    <3>2. decodeClaude(d, f) = Decoded(d, <<Text(f.body)>>) BY <2>1, Zenon DEF decodeClaude
    <3> QED BY <3>1, <3>2, Zenon DEF DecodeChunk
  <2>2. CASE f.kind = "think"
    <3>1. delta = Thinking(f.body) BY <2>2 DEF WholeCall
    <3>2. decodeClaude(d, f) = Decoded(d, <<Thinking(f.body)>>) BY <2>2, Zenon DEF decodeClaude
    <3> QED BY <3>1, <3>2, Zenon DEF DecodeChunk
  <2> QED BY <2>1, <2>2
<1>11. Filed(k.calls, r.calls, d.callOf, top) BY <1>2, <1>6, <1>7
<1>12. PICK deltas : deltas = <<delta>> OBVIOUS
<1>13. /\ w.up = "claude" /\ ClaudeNow(x, top, blocks) /\ f.f # "error" /\ EndIn(f) = ""
       /\ Keeps(x.dec, d) /\ deltas = <<delta>> /\ DecodeChunk("claude", x.dec, f) = Decoded(d, deltas)
       /\ Follows(w.loose, x.h, delta, k) /\ Live(k)
       /\ r = ReadOne("claude", x.source, f) /\ Heard(k, r) /\ ~r.over /\ Unended(r)
       /\ Filed(k.calls, r.calls, d.callOf, top) /\ r.items = x.source.items
  BY <1>1, <1>2, <1>3, <1>6, <1>8, <1>9, <1>10, <1>11, <1>12 DEF Keeps
<1>14. \E y : ClaudeToldBy(w, x, f, k, top, blocks, d, y) BY ONLY <1>13, ClaudeTells
<1> QED BY <1>1, <1>14

\* the start of a call's block
LEMMA ClaudeCallRead ==
  ASSUME NEW w, w.up = "claude", NEW top \in Int, NEW blocks \in Int, top < blocks,
         NEW x, ClaudeNow(x, top, blocks),
         NEW f, f.f = "block_start", f.kind = "call", f.index = blocks,
         NEW delta, delta = ToolCallStart(Len(x.h.calls), f.call),
         NEW k, Follows(w.loose, x.h, delta, k), Live(k)
  PROVE  \E y : ClaudeTold(w, x, f, k, blocks, blocks, y) /\ LastAt(y, blocks)
<1>1. PICK h, d, c : h = x.h /\ d = x.dec /\ c = x.source OBVIOUS
<1>2. /\ StoryIsSound(h) /\ Heard(h, c) /\ ~c.over /\ Unended(c) /\ DOMAIN c = CliFields
      /\ DOMAIN d = DOMAIN NewDecoder /\ Filed(h.calls, c.calls, d.callOf, top)
      /\ Len(c.items) = blocks BY <1>1 DEF ClaudeNow, Calm, Heard
<1>3. PICK tale, caught, callOf, n : /\ tale = h.calls /\ caught = c.calls /\ callOf = d.callOf
                                    /\ n = Len(tale) OBVIOUS
<1>4. n \in Nat /\ IsSeq(callOf) /\ Len(callOf) = n /\ Mirrors(caught, tale)
  BY <1>2, <1>3, SeqDomain DEF StoryIsSound, Filed, Heard
<1>5. PICK r : r = ReadOne("claude", c, f) OBVIOUS
<1>6. PICK here : here = [at |-> blocks, call |-> f.call, args |-> <<>>] OBVIOUS
<1>7. Intact(c, r) /\ r.items = c.items /\ r.calls = Append(caught, here)
  <2>1. BlockStarted(c, f, r) BY <1>2, <1>5, BlockStarts
  <2>2. Len(c.items) = blocks /\ f.kind = "call" /\ caught = c.calls BY <1>2, <1>3
  <2> QED BY ONLY <1>6, <2>1, <2>2 DEF BlockStarted
<1>8. delta.d = "call" /\ delta.index = n /\ delta.call = f.call BY <1>1, <1>3 DEF ToolCallStart
<1>9. PICK new : new = [index |-> n, call |-> f.call, args |-> <<>>] OBVIOUS
<1>10. Called(h, delta, k) BY <1>1, <1>2, <1>8, CallIsCalled DEF Follows
<1>11. k.calls = Append(tale, new) /\ k.think = h.think /\ k.text = h.text
  BY <1>3, <1>8, <1>9, <1>10 DEF Called
<1>12. PICK more, other : more = k.calls /\ other = r.calls OBVIOUS
<1>13. IsHeardCall(here) /\ here.call = new.call /\ here.args = new.args /\ here.at = blocks
       /\ new.index = n BY <1>6, <1>9 DEF IsHeardCall
<1>14. /\ Mirrors(other, more) /\ Len(more) = Len(tale) + 1
       /\ (\A i \in 1..Len(tale) : other[i] = caught[i] /\ more[i] = tale[i])
       /\ other[Len(tale) + 1] = here /\ more[Len(tale) + 1] = new
  <2>1. /\ other = Append(caught, here) /\ more = Append(tale, new) /\ Mirrors(caught, tale)
        /\ IsHeardCall(here) /\ here.call = new.call /\ here.args = new.args
    BY <1>4, <1>7, <1>11, <1>12, <1>13
  <2>2. Mirrors(other, more) BY ONLY <2>1, MirrorOpens
  <2>3. Len(more) = Len(tale) + 1 BY ONLY <2>1, MirrorOpens
  <2>4. \A i \in 1..Len(tale) : other[i] = caught[i] /\ more[i] = tale[i]
    BY ONLY <2>1, MirrorOpens
  <2>5. other[Len(tale) + 1] = here BY ONLY <2>1, MirrorOpens
  <2>6. more[Len(tale) + 1] = new BY ONLY <2>1, MirrorOpens
  <2> QED BY <2>2, <2>3, <2>4, <2>5, <2>6
<1>15. PICK longer : longer = Append(callOf, blocks) OBVIOUS
<1>16. PICK state : state = [d EXCEPT !.callOf = longer] OBVIOUS
<1>17. state.callOf = longer /\ Keeps(d, state) BY <1>2, <1>16 DEF NewDecoder, Keeps
<1>18. Filed(more, other, longer, blocks) /\ longer[n + 1] = blocks
  <2>1. /\ Filed(tale, caught, callOf, top) /\ longer = Append(callOf, blocks)
        /\ Lengthened(tale, caught, n, blocks, more, other)
        /\ top \in Int /\ blocks \in Int /\ top < blocks /\ n \in Nat
    BY <1>2, <1>3, <1>4, <1>13, <1>14, <1>15 DEF Lengthened
  <2>2. FiledAt(more, other, longer, n, blocks) BY ONLY <2>1, FiledMore
  <2> QED BY <2>2 DEF FiledAt
<1>25. PICK deltas : deltas = <<delta>> OBVIOUS
<1>19. DecodeChunk("claude", d, f) = Decoded(state, deltas)
  <2>1. decodeClaude(d, f) = Decoded([d EXCEPT !.callOf = Append(d.callOf, f.index)],
                                     <<ToolCallStart(Len(d.callOf), f.call)>>)
    BY Zenon DEF decodeClaude
  <2>2. ToolCallStart(Len(d.callOf), f.call) = delta BY <1>1, <1>3, <1>4
  <2>3. [d EXCEPT !.callOf = Append(d.callOf, f.index)] = state BY <1>3, <1>15, <1>16
  <2>4. DecodeChunk("claude", d, f) = decodeClaude(d, f) BY DEF DecodeChunk
  <2> QED BY ONLY <1>25, <2>1, <2>2, <2>3, <2>4
<1>20. EndIn(f) = "" /\ f.f # "error" BY DEF EndIn
<1>21. Heard(k, r) /\ ~r.over /\ Unended(r)
  BY <1>2, <1>7, <1>11, <1>12, <1>14 DEF Heard, Intact, Unended
<1>22. \E y : ClaudeToldBy(w, x, f, k, blocks, blocks, state, y)
  <2>1. /\ w.up = "claude" /\ ClaudeNow(x, top, blocks) /\ f.f # "error" /\ EndIn(f) = ""
        /\ Keeps(x.dec, state) /\ deltas = <<delta>>
        /\ DecodeChunk("claude", x.dec, f) = Decoded(state, deltas)
        /\ Follows(w.loose, x.h, delta, k) /\ Live(k)
        /\ r = ReadOne("claude", x.source, f) /\ Heard(k, r) /\ ~r.over /\ Unended(r)
        /\ Filed(k.calls, r.calls, state.callOf, blocks) /\ r.items = x.source.items
    BY <1>1, <1>5, <1>7, <1>12, <1>17, <1>18, <1>19, <1>20, <1>21, <1>25
  <2> QED BY ONLY <2>1, ClaudeTells
<1>23. PICK y : ClaudeToldBy(w, x, f, k, blocks, blocks, state, y) BY <1>22
<1>24. LastAt(y, blocks)
  <2>1. Len(y.h.calls) = n + 1 /\ n + 1 > 0 /\ y.dec = state
    BY <1>3, <1>4, <1>12, <1>14, <1>23 DEF ClaudeTold, ClaudeToldBy
  <2> QED BY <1>17, <1>18, <2>1 DEF LastAt
<1> QED BY <1>23, <1>24 DEF ClaudeToldBy

\* Arguments are of the last call, and find it by its block.
LEMMA FiledLast ==
  ASSUME NEW tale, NEW caught, NEW callOf, NEW top, Filed(tale, caught, callOf, top),
         NEW n, n = Len(tale), n \in Nat, n > 0, NEW at, at = callOf[n]
  PROVE  /\ (CHOOSE i \in DOMAIN callOf : callOf[i] = at) = n
         /\ \A i \in 1..n : caught[i].at = at <=> tale[i].index = n - 1
         /\ tale[n].index = n - 1
<1>1. /\ IsSeq(callOf) /\ Len(callOf) = n /\ DOMAIN callOf = 1..n BY SeqDomain DEF Filed
<1>2. \A k \in 1..n : /\ tale[k].index = k - 1 /\ caught[k].at = callOf[k] /\ callOf[k] \in Int
  BY DEF Filed
<1>3. \A k \in 1..(n - 1) : callOf[k] < callOf[n] BY DEF Filed
<1>4. n \in 1..n /\ \A k \in 1..n : k = n \/ k \in 1..(n - 1) OBVIOUS
<1>5. \A k \in 1..n : callOf[k] = at => k = n
  <2> SUFFICES ASSUME NEW k \in 1..n, callOf[k] = at, k # n PROVE FALSE OBVIOUS
  <2>1. k \in 1..(n - 1) BY <1>4
  <2>2. callOf[k] < callOf[n] /\ callOf[k] \in Int /\ callOf[n] \in Int BY <1>2, <1>3, <1>4, <2>1
  <2> QED BY <2>2
<1>6. (CHOOSE i \in DOMAIN callOf : callOf[i] = at) = n BY <1>1, <1>4, <1>5
<1>7. \A i \in 1..n : caught[i].at = at <=> tale[i].index = n - 1
  <2> SUFFICES ASSUME NEW i \in 1..n PROVE caught[i].at = at <=> tale[i].index = n - 1 OBVIOUS
  <2>1. tale[i].index = i - 1 /\ caught[i].at = callOf[i] BY <1>2
  <2>2. callOf[i] = at <=> i = n BY <1>5
  <2>3. i - 1 = n - 1 <=> i = n OBVIOUS
  <2> QED BY <2>1, <2>2, <2>3
<1> QED BY <1>2, <1>4, <1>6, <1>7

\* and arguments in the last call's block.
LEMMA ClaudeArgsRead ==
  ASSUME NEW w, w.up = "claude", NEW top, NEW blocks, NEW x, ClaudeNow(x, top, blocks),
         NEW f, f.f = "block_delta", f.kind = "args", IsSeq(f.body), LastAt(x, f.index),
         NEW delta, delta = ToolCallArgs(Len(x.h.calls) - 1, f.body),
         NEW k, Follows(w.loose, x.h, delta, k), Live(k)
  PROVE  \E y : ClaudeToldBy(w, x, f, k, top, blocks, x.dec, y)
<1>1. PICK h, d, c : h = x.h /\ d = x.dec /\ c = x.source OBVIOUS
<1>2. /\ StoryIsSound(h) /\ Heard(h, c) /\ ~c.over /\ Unended(c) /\ DOMAIN c = CliFields
      /\ DOMAIN d = DOMAIN NewDecoder /\ Filed(h.calls, c.calls, d.callOf, top)
  BY <1>1 DEF ClaudeNow, Calm, Heard
<1>3. PICK tale, caught, callOf, n, at, body : /\ tale = h.calls /\ caught = c.calls /\ callOf = d.callOf
                                    /\ n = Len(tale) /\ at = f.index /\ body = f.body OBVIOUS
<1>4. /\ n \in Nat /\ n > 0 /\ callOf[n] = at /\ Mirrors(caught, tale)
      /\ \A i \in 1..n : DOMAIN tale[i] = CallFields /\ IsSeq(tale[i].args)
  <2>1. IsSeq(tale) BY <1>2, <1>3 DEF StoryIsSound
  <2> QED BY <1>1, <1>2, <1>3, <2>1, SeqDomain DEF StoryIsSound, LastAt, Heard
<1>5. PICK index : index = n - 1 OBVIOUS
<1>6. /\ (CHOOSE i \in DOMAIN callOf : callOf[i] = at) = n
      /\ \A i \in 1..n : caught[i].at = at <=> tale[i].index = index
  <2>1. /\ Filed(tale, caught, callOf, top) /\ n = Len(tale) /\ n \in Nat /\ n > 0 /\ at = callOf[n]
    BY <1>2, <1>3, <1>4
  <2>2. (CHOOSE i \in DOMAIN callOf : callOf[i] = at) = n BY ONLY <2>1, FiledLast
  <2>3. \A i \in 1..n : caught[i].at = at <=> tale[i].index = n - 1 BY ONLY <2>1, FiledLast
  <2> QED BY <1>5, <2>2, <2>3
<1>7. PICK r : r = ReadOne("claude", c, f) OBVIOUS
<1>8. Intact(c, r) /\ r.items = c.items /\ r.calls = ArgsHeard(caught, at, body)
  <2>1. BlockArgued(c, f, r) BY <1>2, <1>7, BlockArgues
  <2> QED BY <1>3, <2>1 DEF BlockArgued
<1>9. delta.d = "args" /\ delta.index = index /\ delta.body = body
  BY <1>1, <1>3, <1>5 DEF ToolCallArgs
<1>10. Argued(h, delta, k) BY <1>1, <1>2, <1>9, ArgsAreArgued DEF Follows
<1>11. k.calls = WithArgs(tale, index, body) /\ k.think = h.think /\ k.text = h.text
  BY <1>3, <1>9, <1>10 DEF Argued
<1>12. PICK more, other : more = k.calls /\ other = r.calls OBVIOUS
<1>13. Mirrors(other, more) /\ Len(more) = n /\ \A i \in 1..n : other[i].at = caught[i].at
  <2>0. IsSeq(body) BY <1>3
  <2>1. /\ Mirrors(caught, tale) /\ IsSeq(body)
        /\ \A i \in 1..Len(tale) : DOMAIN tale[i] = CallFields /\ IsSeq(tale[i].args)
        /\ \A i \in 1..Len(tale) : caught[i].at = at <=> tale[i].index = index
    BY <1>3, <1>4, <1>6, <2>0, Zenon
  <2>2. other = ArgsHeard(caught, at, body) /\ more = WithArgs(tale, index, body) BY <1>8, <1>11, <1>12
  <2>3. ArgsMirrored(caught, tale, other, more) BY ONLY <2>1, <2>2, MirrorArgued
  <2>4. Mirrors(other, more) /\ \A i \in 1..n : other[i].at = caught[i].at
    BY <1>3, <2>3 DEF ArgsMirrored
  <2>6. Len(more) = n
    <3>1. /\ IsSeq(tale) /\ IsSeq(body)
          /\ \A i \in 1..Len(tale) : DOMAIN tale[i] = CallFields /\ IsSeq(tale[i].args)
      BY <1>4, <2>1 DEF Mirrors
    <3>2. LET after == WithArgs(tale, index, body) IN Len(after) = Len(tale)
      BY ONLY <3>1, CallsAfterArgs
    <3> QED BY <1>3, <2>2, <3>2
  <2> QED BY <2>4, <2>6
<1>14. \A i \in 1..n : more[i].index = tale[i].index
  <2>1. /\ IsSeq(tale) /\ IsSeq(body)
        /\ \A i \in 1..Len(tale) : DOMAIN tale[i] = CallFields /\ IsSeq(tale[i].args)
    BY <1>3, <1>4 DEF Mirrors
  <2>2. LET after == WithArgs(tale, index, body) IN
        \A i \in 1..Len(tale) : after[i].index = tale[i].index BY ONLY <2>1, CallsAfterArgs
  <2> QED BY <1>3, <1>11, <1>12, <2>2
<1>15. Filed(k.calls, r.calls, d.callOf, top)
  <2>1. /\ Filed(tale, caught, callOf, top) /\ n = Len(tale) /\ Len(more) = n
        /\ \A i \in 1..n : more[i].index = tale[i].index /\ other[i].at = caught[i].at
    BY <1>2, <1>3, <1>13, <1>14
  <2>2. Filed(more, other, callOf, top) BY ONLY <2>1, FiledSame
  <2> QED BY <1>3, <1>12, <2>2
<1>16. PICK deltas : deltas = <<delta>> OBVIOUS
<1>17. DecodeChunk("claude", d, f) = Decoded(d, deltas)
  <2>1. decodeClaude(d, f) =
            Decoded(d, << ToolCallArgs((CHOOSE i \in DOMAIN d.callOf : d.callOf[i] = f.index) - 1,
                                       f.body) >>) BY Zenon DEF decodeClaude
  <2>2. ToolCallArgs((CHOOSE i \in DOMAIN d.callOf : d.callOf[i] = f.index) - 1, f.body) = delta
    BY <1>1, <1>3, <1>6
  <2>4. DecodeChunk("claude", d, f) = decodeClaude(d, f) BY DEF DecodeChunk
  <2> QED BY ONLY <1>16, <2>1, <2>2, <2>4
<1>18. EndIn(f) = "" /\ f.f # "error" BY DEF EndIn
<1>19. Heard(k, r) /\ ~r.over /\ Unended(r)
  BY <1>2, <1>8, <1>11, <1>12, <1>13 DEF Heard, Intact, Unended
<1>20. /\ w.up = "claude" /\ ClaudeNow(x, top, blocks) /\ f.f # "error" /\ EndIn(f) = ""
       /\ Keeps(x.dec, d) /\ deltas = <<delta>> /\ DecodeChunk("claude", x.dec, f) = Decoded(d, deltas)
       /\ Follows(w.loose, x.h, delta, k) /\ Live(k)
       /\ r = ReadOne("claude", x.source, f) /\ Heard(k, r) /\ ~r.over /\ Unended(r)
       /\ Filed(k.calls, r.calls, d.callOf, top) /\ r.items = x.source.items
  BY <1>1, <1>2, <1>7, <1>8, <1>15, <1>16, <1>17, <1>18, <1>19 DEF Keeps
<1>21. \E y : ClaudeToldBy(w, x, f, k, top, blocks, d, y) BY ONLY <1>20, ClaudeTells
<1> QED BY <1>1, <1>21

ClaudeStage(w, plan_, i, x) ==
  LET said == plan_.said
      ix == BlockIndex(said, i)
  IN /\ ClaudeNow(x, ix, IF i = 0 THEN 0 ELSE ix) /\ Talked(w.loose, said, i, x.h)
     /\ i > 0 /\ said[i].call # 0 => LastAt(x, ix)

\* A bound on the blocks in use may be raised.
LEMMA ClaudeTopUp ==
  ASSUME NEW x, NEW top \in Int, NEW blocks, ClaudeNow(x, top, blocks), NEW more \in Int, top <= more
  PROVE  ClaudeNow(x, more, blocks)
<1>1. PICK tale, caught, callOf : tale = x.h.calls /\ caught = x.source.calls /\ callOf = x.dec.callOf
  OBVIOUS
<1>2. Filed(tale, caught, callOf, top) BY <1>1 DEF ClaudeNow
<1>3. \A k : callOf[k] \in Int /\ callOf[k] <= top => callOf[k] <= more OBVIOUS
<1>4. Filed(tale, caught, callOf, more) BY <1>2, <1>3 DEF Filed
<1> QED BY <1>1, <1>4 DEF ClaudeNow

ClaudeSaid(w, plan_, i, h, u, delta, k) ==
  /\ Follows(w.loose, h, delta, k) /\ Talked(w.loose, plan_.said, i + 1, k) /\ Live(k)
  /\ WholeCall(delta)
  /\ delta = DeltaOf(plan_, i + 1, IF u.kind = "call" THEN Len(h.calls) ELSE Len(h.calls) - 1)

ClaudeMayUtter(w, plan_, i, h, u) == \E delta, k : ClaudeSaid(w, plan_, i, h, u, delta, k)

ClaudeArgsAt(plan_, i, h, u) ==
  u.kind = "args" =>
      i > 0 /\ plan_.said[i].call = u.call /\ u.call = Len(h.calls) /\ Len(h.calls) > 0

\* A Claude upstream's next utterance is one the story allows.
LEMMA ClaudeUtters ==
  ASSUME NEW plan_, PlanIsSound("claude", plan_), NEW w, w.loose = FALSE,
         NEW i \in 0..(Len(plan_.said) - 1), NEW x, ClaudeStage(w, plan_, i, x),
         NEW u, u = plan_.said[i + 1], NEW h, h = x.h
  PROVE  ClaudeMayUtter(w, plan_, i, h, u) /\ ClaudeArgsAt(plan_, i, h, u)
<1>1. PICK said, loose, n : said = plan_.said /\ loose = w.loose /\ n = Len(h.calls) OBVIOUS
<1>2. WellTalked(said) /\ (loose \/ ~Interleaved(said)) BY <1>1 DEF PlanIsSound
<1>3. u \in Utterances BY <1>1, <1>2, OpenedSoFar
<1>4. Live(h) /\ Talked(loose, said, i, h) BY <1>1 DEF ClaudeStage, ClaudeNow, Calm, Live
<1>5. n \in Nat /\ IsSeq(h.calls) BY <1>1, <1>4, LiveCalls
<1>6. \A m \in 1..n : h.calls[m].index = m - 1 BY <1>1 DEF ClaudeStage, ClaudeNow, Filed
<1>7. PICK index : index = IF u.kind = "call" THEN n ELSE n - 1 OBVIOUS
<1>8. u.kind = "args" => i > 0 /\ said[i].call = u.call /\ u.call = n /\ u.call \in 1..n
  <2>1. CASE u.kind = "args"
    <3>1. ArgsNext(loose, said, i, h) BY <1>1, <1>2, <1>4, <1>5, <2>1 DEF ArgsNext
    <3>2. ArgsPlaced(loose, said, i, h) BY ONLY <3>1, ArgsPlace
    <3> QED BY <1>1, <3>2 DEF ArgsPlaced
  <2> QED BY <2>1
<1>9. u.kind = "args" => index = h.calls[u.call].index
  <2>1. CASE u.kind = "args"
    <3>1. u.call \in 1..n /\ u.call = n BY <1>8, <2>1
    <3>2. h.calls[u.call].index = u.call - 1 BY <1>6, <3>1
    <3> QED BY <1>7, <2>1, <3>1, <3>2
  <2> QED BY <2>1
<1>10. u.kind = "call" => \A m \in 1..n : h.calls[m].index # index
  <2>1. CASE u.kind = "call"
    <3>1. \A m \in 1..n : m - 1 # n OBVIOUS
    <3> QED BY <1>5, <1>6, <1>7, <2>1, <3>1
  <2> QED BY <2>1
<1>11. PICK delta : delta = DeltaOf(plan_, i + 1, index) OBVIOUS
<1>12. PICK k : k = After(h, delta) OBVIOUS
<1>13. Uttered(loose, said, i, h, u, index, delta, k)
  <2>1. /\ said = plan_.said /\ WellTalked(said) /\ (loose \/ ~Interleaved(said))
        /\ i \in 0..(Len(said) - 1) /\ Live(h) /\ Talked(loose, said, i, h) /\ u = said[i + 1]
        /\ (u.kind = "call" => \A m \in 1..Len(h.calls) : h.calls[m].index # index)
        /\ (u.kind = "args" => index = h.calls[u.call].index)
        /\ delta = DeltaOf(plan_, i + 1, index) /\ k = After(h, delta)
    BY <1>1, <1>2, <1>4, <1>9, <1>10, <1>11, <1>12
  <2> QED BY ONLY <2>1, TalkDelta
<1>14. ClaudeSaid(w, plan_, i, h, u, delta, k) BY <1>1, <1>7, <1>11, <1>13 DEF Uttered, ClaudeSaid
<1>15. ClaudeMayUtter(w, plan_, i, h, u) BY <1>14 DEF ClaudeMayUtter
<1>16. ClaudeArgsAt(plan_, i, h, u) BY <1>1, <1>5, <1>8 DEF ClaudeArgsAt
<1> QED BY <1>15, <1>16

\* The frames before the delta.
ClaudeShut(w, x, s, top, blocks, y) ==
  Leads(w, x, s, y) /\ ClaudeNow(y, top, blocks) /\ y.h = x.h /\ y.dec = x.dec

BlockGoes(opens, at, ix) ==
  at \in Int /\ ix \in Int /\ (opens => at < ix) /\ (~opens => at = ix)

\* It closes the block before it opens the next.
LEMMA ClaudeCloses ==
  ASSUME NEW plan_, PlanIsSound("claude", plan_), NEW w, w.up = "claude",
         NEW i \in 0..(Len(plan_.said) - 1), NEW x, ClaudeStage(w, plan_, i, x),
         NEW opens \in BOOLEAN, opens <=> OpensBlock(plan_.said, i + 1),
         NEW stop, stop.f = "block_stop", NEW s, s = When(opens /\ i + 1 > 1, <<stop>>),
         NEW at, at = BlockIndex(plan_.said, i), NEW ix, ix = BlockIndex(plan_.said, i + 1)
  PROVE  BlockGoes(opens, at, ix) /\ \E y : ClaudeShut(w, x, s, at, ix, y)
<1>0. PICK said, u : said = plan_.said /\ u = said[i + 1] OBVIOUS
<1>1. /\ said = plan_.said /\ u = said[i + 1] /\ at = BlockIndex(said, i)
      /\ ix = BlockIndex(said, i + 1) BY <1>0
<1>2. WellTalked(said) BY <1>1 DEF PlanIsSound
<1>3. i \in Nat /\ u \in Utterances /\ (u.kind = "args" => u.call \in Opened(said, i))
  BY <1>1, <1>2, OpenedSoFar
<1>4. /\ at \in Int /\ ix \in Int /\ (i = 0 => at = -1) /\ (opens => ix = at + 1)
      /\ (~opens => ix = at)
  <2>1. /\ BlockIndex(said, i) \in Int
        /\ BlockIndex(said, 0) = -1
        /\ OpensBlock(said, i + 1) => BlockIndex(said, i + 1) = BlockIndex(said, i) + 1
        /\ ~OpensBlock(said, i + 1) => BlockIndex(said, i + 1) = BlockIndex(said, i)
    BY <1>3, BlockIndexSteps
  <2> QED BY <1>1, <2>1
<1>5. ClaudeNow(x, at, IF i = 0 THEN 0 ELSE at) BY <1>1 DEF ClaudeStage
<1>6. i = 0 => opens
  <2>1. CASE i = 0
    <3>1. Opened(said, 0) = {} BY DEF Opened
    <3>2. u.kind # "args" /\ i + 1 = 1 BY <1>3, <2>1, <3>1
    <3> QED BY <1>1, <2>1, <3>2 DEF OpensBlock
  <2> QED BY <2>1
<1>7. \E y : ClaudeShut(w, x, s, at, ix, y)
  <2>1. CASE opens /\ i > 0
    <3>1. opens /\ i + 1 > 1 /\ ix = at + 1 BY <1>3, <1>4, <2>1
    <3>2. s = <<stop>> BY <3>1, Zenon DEF When
    <3>3. ClaudeNow(x, at, at) BY <1>3, <1>5, <2>1
    <3>4. PICK y : ClaudeSilent(w, x, stop, at, at + 1, y) BY <1>4, <3>3, ClaudeStopRead
    <3>5. Leads(w, x, <<stop>>, y) BY <3>4, LeadsOne DEF ClaudeSilent
    <3> QED BY <3>1, <3>2, <3>4, <3>5 DEF ClaudeSilent, ClaudeShut
  <2>2. CASE ~(opens /\ i > 0)
    <3>1. ~(opens /\ i + 1 > 1) BY <1>3, <2>2
    <3>2. s = <<>> BY <3>1, Zenon DEF When
    <3>3. Leads(w, x, s, x) BY <3>2, LeadsNone
    <3>4. ClaudeNow(x, at, ix)
      <4>1. CASE i = 0
        <5>1. ix = 0 BY <1>4, <1>6, <4>1
        <5> QED BY <1>5, <4>1, <5>1
      <4>2. CASE i # 0
        <5>1. ix = at BY <1>3, <1>4, <2>2, <4>2
        <5> QED BY <1>5, <4>2, <5>1
      <4> QED BY <4>1, <4>2
    <3> QED BY <3>3, <3>4 DEF ClaudeShut
  <2> QED BY <2>1, <2>2
<1>8. BlockGoes(opens, at, ix)
  <2>1. at < at + 1 BY <1>4
  <2> QED BY <1>4, <2>1 DEF BlockGoes
<1> QED BY <1>7, <1>8

ClaudePieces(plan_, i, ix, u, stop, start, part) ==
  /\ stop.f = "block_stop"
  /\ start.f = "block_start" /\ start.index = ix /\ start.kind = u.kind /\ start.call = u.call
  /\ part.f = "block_delta" /\ part.index = ix /\ part.kind = u.kind
  /\ part.body = <<Piece(plan_, i)>>

ClaudeParts(plan_, i, ix, u, opens, stop, start, part, s) ==
  /\ ClaudePieces(plan_, i, ix, u, stop, start, part)
  /\ s = When(opens /\ i > 1, <<stop>>) \o When(opens, <<start>>)
            \o When(u.kind # "call", <<part>>)

\* The frames of an utterance: a stop, a start and a delta.
LEMMA ClaudeSaysIs ==
  ASSUME NEW plan_, NEW i, NEW u, u = plan_.said[i], NEW ix, ix = BlockIndex(plan_.said, i),
         NEW opens, opens = OpensBlock(plan_.said, i), NEW s, s = claudeSays(plan_, i)
  PROVE  \E stop, start, part : ClaudeParts(plan_, i, ix, u, opens, stop, start, part, s)
<1>1. PICK body : body = <<Piece(plan_, i)>> OBVIOUS
<1>2. PICK stop, start, part :
        /\ stop = [f |-> "block_stop", index |-> ix - 1]
        /\ start = [f |-> "block_start", index |-> ix, kind |-> u.kind, call |-> u.call]
        /\ part = [f |-> "block_delta", index |-> ix, kind |-> u.kind, body |-> body] OBVIOUS
<1>3. ClaudePieces(plan_, i, ix, u, stop, start, part) BY <1>1, <1>2 DEF ClaudePieces
<1>4. claudeSays(plan_, i) = When(opens /\ i > 1, <<stop>>) \o When(opens, <<start>>)
                               \o When(u.kind # "call", <<part>>)
  BY <1>1, <1>2, Zenon DEF claudeSays
<1>5. ClaudeParts(plan_, i, ix, u, opens, stop, start, part, s)
  BY <1>3, <1>4, Zenon DEF ClaudeParts
<1> QED BY <1>5

\* The utterance is heard by who has closed the block before it.
LEMMA ClaudeCallSaid ==
  ASSUME NEW plan_, NEW w, w.up = "claude", NEW i \in Nat, NEW at \in Int,
         NEW ix, ix = BlockIndex(plan_.said, i + 1), ix \in Int, at < ix,
         NEW x, ClaudeNow(x, at, ix), NEW u, u = plan_.said[i + 1], u.kind = "call",
         NEW stop, NEW start, NEW part, ClaudePieces(plan_, i + 1, ix, u, stop, start, part),
         NEW delta, NEW k, ClaudeSaid(w, plan_, i, x.h, u, delta, k)
  PROVE  \E y : Leads(w, x, <<start>>, y) /\ ClaudeStage(w, plan_, i + 1, y)
<1>1. start.f = "block_start" /\ start.kind = "call" /\ start.index = ix /\ start.call = u.call
  BY DEF ClaudePieces
<1>2. Follows(w.loose, x.h, delta, k) /\ Live(k) /\ Talked(w.loose, plan_.said, i + 1, k)
  BY DEF ClaudeSaid
<1>3. delta = ToolCallStart(Len(x.h.calls), start.call)
  <2>1. PICK index, v : index = Len(x.h.calls) /\ v = plan_.said[i + 1] OBVIOUS
  <2>2. delta = DeltaOf(plan_, i + 1, index) BY <2>1 DEF ClaudeSaid
  <2>3. DeltaOf(plan_, i + 1, index) = ToolCallStart(index, v.call)
    <3>1. v.kind = "call" BY <2>1
    <3> QED BY <2>1, <3>1, Zenon DEF DeltaOf
  <2> QED BY <1>1, <2>1, <2>2, <2>3
<1>4. \E y : ClaudeTold(w, x, start, k, ix, ix, y) /\ LastAt(y, ix)
  BY <1>1, <1>2, <1>3, ClaudeCallRead
<1>5. PICK y : ClaudeTold(w, x, start, k, ix, ix, y) /\ LastAt(y, ix) BY <1>4
<1>6. Leads(w, x, <<start>>, y) BY <1>5, LeadsOne DEF ClaudeTold
<1>7. i + 1 # 0 OBVIOUS
<1>8. ClaudeStage(w, plan_, i + 1, y)
  <2>1. ClaudeNow(y, ix, ix) /\ y.h = k BY <1>5 DEF ClaudeTold
  <2> QED BY <1>2, <1>5, <1>7, <2>1 DEF ClaudeStage
<1> QED BY <1>6, <1>8

\* An utterance that is not a call is told by its frames.
LEMMA ClaudePartSaid ==
  ASSUME NEW plan_, NEW w, w.up = "claude", NEW i \in Nat, NEW at \in Int,
         NEW ix, ix = BlockIndex(plan_.said, i + 1), ix \in Int, at <= ix,
         NEW x, ClaudeNow(x, at, ix),
         NEW u, u = plan_.said[i + 1], u \in Utterances, u.kind # "call",
         NEW stop, NEW start, NEW part, ClaudePieces(plan_, i + 1, ix, u, stop, start, part),
         u.kind = "args" => LastAt(x, ix),
         NEW delta, NEW k, ClaudeSaid(w, plan_, i, x.h, u, delta, k)
  PROVE  \E y : Leads(w, x, <<part>>, y) /\ ClaudeStage(w, plan_, i + 1, y)
<1>1. /\ part.f = "block_delta" /\ part.kind = u.kind /\ part.index = ix
      /\ part.body = <<Piece(plan_, i + 1)>> BY DEF ClaudePieces
<1>2. Follows(w.loose, x.h, delta, k) /\ Live(k) /\ Talked(w.loose, plan_.said, i + 1, k) /\ WholeCall(delta)
  BY DEF ClaudeSaid
<1>3. PICK index : index = Len(x.h.calls) - 1 OBVIOUS
<1>4. delta = DeltaOf(plan_, i + 1, index) BY <1>3 DEF ClaudeSaid
<1>5. u.kind \in TalkKinds /\ (u.kind \in {"think", "text"} => u.call = 0) BY UtteranceIs
<1>6. ClaudeNow(x, ix, ix) BY ClaudeTopUp
<1>7. /\ delta.d = u.kind
      /\ delta.body = <<Piece(plan_, i + 1)>> /\ IsSeq(delta.body)
      /\ u.kind = "args" => delta.index = index
  <2>1. /\ delta.d = u.kind
        /\ u.kind \in {"think", "text", "args"} =>
             delta.body = <<Piece(plan_, i + 1)>> /\ IsSeq(delta.body)
        /\ u.kind = "args" => delta.index = index BY <1>4, DeltaIs
  <2> QED BY <1>5, <2>1 DEF TalkKinds
<1>8. \E y : ClaudeToldBy(w, x, part, k, ix, ix, x.dec, y)
  <2>1. CASE u.kind \in {"think", "text"}
    <3>1. /\ w.up = "claude" /\ ClaudeNow(x, ix, ix) /\ part.f = "block_delta"
          /\ part.kind \in {"think", "text"} /\ WholeCall(delta) /\ delta.d = part.kind
          /\ delta.body = part.body /\ Follows(w.loose, x.h, delta, k) /\ Live(k)
      BY <1>1, <1>2, <1>6, <1>7, <2>1
    <3> QED BY ONLY <3>1, ClaudeWordsRead
  <2>2. CASE u.kind = "args"
    <3>1. delta = ToolCallArgs(index, part.body)
      <4>1. PICK v : v = plan_.said[i + 1] OBVIOUS
      <4>2. v.kind = "args" BY <2>2, <4>1
      <4>3. DeltaOf(plan_, i + 1, index) = ToolCallArgs(index, <<Piece(plan_, i + 1)>>)
        BY <4>1, <4>2, Zenon DEF DeltaOf
      <4> QED BY <1>1, <1>4, <4>3
    <3>2. /\ w.up = "claude" /\ ClaudeNow(x, ix, ix) /\ part.f = "block_delta"
          /\ part.kind = "args" /\ IsSeq(part.body) /\ LastAt(x, part.index)
          /\ delta = ToolCallArgs(Len(x.h.calls) - 1, part.body)
          /\ Follows(w.loose, x.h, delta, k) /\ Live(k)
      BY <1>1, <1>2, <1>3, <1>6, <1>7, <2>2, <3>1
    <3> QED BY ONLY <3>2, ClaudeArgsRead
  <2> QED BY <1>5, <2>1, <2>2 DEF TalkKinds
<1>9. PICK y : ClaudeToldBy(w, x, part, k, ix, ix, x.dec, y) BY <1>8
<1>10. Reads(w, x, part, y) /\ ClaudeNow(y, ix, ix) /\ y.h = k /\ y.dec = x.dec
  BY <1>9 DEF ClaudeToldBy, ClaudeTold
<1>11. Leads(w, x, <<part>>, y) BY <1>10, LeadsOne
<1>12. u.call # 0 => LastAt(y, ix)
  <2> SUFFICES ASSUME u.call # 0 PROVE LastAt(y, ix) OBVIOUS
  <2>1. LastAt(x, ix) BY <1>5 DEF TalkKinds
  <2>2. Len(x.h.calls) = Len(x.dec.callOf) BY DEF ClaudeNow, Filed
  <2>3. Len(y.h.calls) = Len(y.dec.callOf) BY <1>10 DEF ClaudeNow, Filed
  <2> QED BY <1>10, <2>1, <2>2, <2>3 DEF LastAt
<1>13. i + 1 # 0 OBVIOUS
<1>14. ClaudeStage(w, plan_, i + 1, y) BY <1>2, <1>10, <1>12, <1>13 DEF ClaudeStage
<1> QED BY <1>11, <1>14

\* A Claude upstream's next utterance is one the story follows.
LEMMA ClaudeUpSays ==
  ASSUME NEW plan_, PlanIsSound("claude", plan_), NEW w, w.up = "claude", w.loose = FALSE,
         NEW i \in 0..(Len(plan_.said) - 1), NEW x, ClaudeStage(w, plan_, i, x),
         NEW s, s = claudeSays(plan_, i + 1)
  PROVE  \E y : Leads(w, x, s, y) /\ ClaudeStage(w, plan_, i + 1, y)
<1>1. PICK u, at, ix, opens : /\ u = plan_.said[i + 1] /\ at = BlockIndex(plan_.said, i)
                              /\ ix = BlockIndex(plan_.said, i + 1)
                              /\ opens = OpensBlock(plan_.said, i + 1) OBVIOUS
<1>2. opens \in BOOLEAN /\ (opens <=> OpensBlock(plan_.said, i + 1)) BY <1>1 DEF OpensBlock
<1>3. PICK stop, start, part : ClaudeParts(plan_, i + 1, ix, u, opens, stop, start, part, s)
  <2>1. PICK j : j = i + 1 OBVIOUS
  <2>2. /\ u = plan_.said[j] /\ ix = BlockIndex(plan_.said, j) /\ opens = OpensBlock(plan_.said, j)
        /\ s = claudeSays(plan_, j) BY <1>1, <2>1
  <2>3. \E stop, start, part : ClaudeParts(plan_, j, ix, u, opens, stop, start, part, s)
    BY ONLY <2>2, ClaudeSaysIs
  <2> QED BY <2>1, <2>3
<1>4. WellTalked(plan_.said) BY DEF PlanIsSound
<1>5. i \in Nat /\ u \in Utterances BY <1>1, <1>4, OpenedSoFar
<1>6. PICK s1, s2, s3 : /\ s1 = When(opens /\ i + 1 > 1, <<stop>>) /\ s2 = When(opens, <<start>>)
                        /\ s3 = When(u.kind # "call", <<part>>) OBVIOUS
<1>7. s = s1 \o s2 \o s3 BY <1>3, <1>6, Zenon DEF ClaudeParts
<1>8. ClaudePieces(plan_, i + 1, ix, u, stop, start, part) /\ stop.f = "block_stop"
  BY <1>3 DEF ClaudeParts, ClaudePieces
<1>9. BlockGoes(opens, at, ix) /\ \E y : ClaudeShut(w, x, s1, at, ix, y)
  <2>1. /\ PlanIsSound("claude", plan_) /\ w.up = "claude" /\ i \in 0..(Len(plan_.said) - 1)
        /\ ClaudeStage(w, plan_, i, x) /\ opens \in BOOLEAN
        /\ (opens <=> OpensBlock(plan_.said, i + 1)) /\ stop.f = "block_stop"
        /\ s1 = When(opens /\ i + 1 > 1, <<stop>>)
        /\ at = BlockIndex(plan_.said, i) /\ ix = BlockIndex(plan_.said, i + 1)
    BY <1>1, <1>2, <1>6, <1>8
  <2>2. BlockGoes(opens, at, ix) BY ONLY <2>1, ClaudeCloses
  <2>3. \E y : ClaudeShut(w, x, s1, at, ix, y) BY ONLY <2>1, ClaudeCloses
  <2> QED BY <2>2, <2>3
<1>10. PICK y : ClaudeShut(w, x, s1, at, ix, y) BY <1>9
<1>11. Leads(w, x, s1, y) /\ ClaudeNow(y, at, ix) /\ y.h = x.h /\ y.dec = x.dec
  BY <1>10 DEF ClaudeShut
<1>12. at \in Int /\ ix \in Int /\ (opens => at < ix) /\ (~opens => at = ix) /\ at <= ix
  BY <1>2, <1>9 DEF BlockGoes
<1>13. PICK h : h = x.h OBVIOUS
<1>14. /\ \E delta, k : ClaudeSaid(w, plan_, i, h, u, delta, k)
       /\ u.kind = "args" =>
            i > 0 /\ plan_.said[i].call = u.call /\ u.call = Len(h.calls) /\ Len(h.calls) > 0
  <2>1. /\ PlanIsSound("claude", plan_) /\ w.loose = FALSE /\ i \in 0..(Len(plan_.said) - 1)
        /\ ClaudeStage(w, plan_, i, x) /\ u = plan_.said[i + 1] /\ h = x.h BY <1>1, <1>13
  <2>2. ClaudeMayUtter(w, plan_, i, h, u) BY ONLY <2>1, ClaudeUtters
  <2>3. ClaudeArgsAt(plan_, i, h, u) BY ONLY <2>1, ClaudeUtters
  <2> QED BY <2>2, <2>3 DEF ClaudeMayUtter, ClaudeArgsAt
<1>15. PICK delta, k : ClaudeSaid(w, plan_, i, y.h, u, delta, k) BY <1>11, <1>13, <1>14
<1>16. CASE u.kind = "call"
  <2>1. opens BY <1>1, <1>2, <1>16 DEF OpensBlock
  <2>2. s2 = <<start>> BY <1>6, <2>1, Zenon DEF When
  <2>3. s3 = <<>> BY <1>6, <1>16, Zenon DEF When
  <2>4. PICK z : Leads(w, y, <<start>>, z) /\ ClaudeStage(w, plan_, i + 1, z)
    <3>1. /\ w.up = "claude" /\ i \in Nat /\ at \in Int /\ ix = BlockIndex(plan_.said, i + 1)
          /\ ix \in Int /\ at < ix /\ ClaudeNow(y, at, ix) /\ u = plan_.said[i + 1] /\ u.kind = "call"
          /\ ClaudePieces(plan_, i + 1, ix, u, stop, start, part)
          /\ ClaudeSaid(w, plan_, i, y.h, u, delta, k)
      BY <1>1, <1>5, <1>8, <1>11, <1>12, <1>15, <1>16, <2>1
    <3> QED BY ONLY <3>1, ClaudeCallSaid
  <2>5. Leads(w, x, s1 \o s2, z) BY <1>11, <2>2, <2>4, LeadsCat
  <2>6. Leads(w, z, s3, z) BY <2>3, LeadsNone
  <2> QED BY <1>7, <2>4, <2>5, <2>6, LeadsCat
<1>17. CASE u.kind # "call"
  <2>1. \E z : ClaudeShut(w, y, s2, at, ix, z)
    <3>1. CASE opens
      <4>1. s2 = <<start>> BY <1>6, <3>1, Zenon DEF When
      <4>2. start.f = "block_start" /\ start.kind # "call" BY <1>8, <1>17 DEF ClaudePieces
      <4>3. PICK z : ClaudeSilent(w, y, start, at, ix, z) BY <1>11, <4>2, ClaudeStartRead
      <4>4. Leads(w, y, <<start>>, z) BY <4>3, LeadsOne DEF ClaudeSilent
      <4> QED BY <4>1, <4>3, <4>4 DEF ClaudeSilent, ClaudeShut
    <3>2. CASE ~opens
      <4>1. s2 = <<>> BY <1>6, <3>2, Zenon DEF When
      <4>2. Leads(w, y, s2, y) BY <4>1, LeadsNone
      <4> QED BY <1>11, <4>2 DEF ClaudeShut
    <3> QED BY <3>1, <3>2
  <2>2. PICK z : ClaudeShut(w, y, s2, at, ix, z) BY <2>1
  <2>3. Leads(w, y, s2, z) /\ ClaudeNow(z, at, ix) /\ z.h = y.h /\ z.dec = y.dec
    BY <2>2 DEF ClaudeShut
  <2>4. u.kind = "args" => LastAt(z, ix)
    <3> SUFFICES ASSUME u.kind = "args" PROVE LastAt(z, ix) OBVIOUS
    <3>1. i > 0 /\ plan_.said[i].call = u.call /\ u.call = Len(h.calls) /\ Len(h.calls) > 0
      BY <1>14
    <3>2. u.call # 0 BY <1>5, UtteranceIs
    <3>3. LastAt(x, at) BY <1>1, <3>1, <3>2 DEF ClaudeStage
    <3>4. ~opens BY <1>1, <1>2 DEF OpensBlock
    <3>5. z.h = x.h /\ z.dec = x.dec BY <1>11, <2>3
    <3> QED BY <1>12, <3>3, <3>4, <3>5 DEF LastAt
  <2>5. s3 = <<part>> BY <1>6, <1>17, Zenon DEF When
  <2>6. PICK v : Leads(w, z, <<part>>, v) /\ ClaudeStage(w, plan_, i + 1, v)
    <3>1. /\ w.up = "claude" /\ i \in Nat /\ at \in Int /\ ix = BlockIndex(plan_.said, i + 1)
          /\ ix \in Int /\ at <= ix /\ ClaudeNow(z, at, ix) /\ u = plan_.said[i + 1]
          /\ u \in Utterances /\ u.kind # "call"
          /\ ClaudePieces(plan_, i + 1, ix, u, stop, start, part)
          /\ (u.kind = "args" => LastAt(z, ix))
          /\ ClaudeSaid(w, plan_, i, z.h, u, delta, k)
      BY <1>1, <1>5, <1>8, <1>12, <1>15, <1>17, <2>3, <2>4
    <3> QED BY ONLY <3>1, ClaudePartSaid
  <2>7. Leads(w, x, s1 \o s2, z) BY <1>11, <2>3, LeadsCat
  <2> QED BY <1>7, <2>5, <2>6, <2>7, LeadsCat
<1> QED BY <1>16, <1>17

\* It starts with message_start.
LEMMA ClaudeFirst ==
  ASSUME NEW plan_, NEW w, w.up = "claude", NEW x, x = AtFirst, NEW f, f.f = "message_start"
  PROVE  \E y : Leads(w, x, <<f>>, y) /\ ClaudeStage(w, plan_, 0, y)
<1>1. PICK d, h, c, loose, none : /\ d = x.dec /\ h = x.h /\ c = x.source /\ loose = w.loose
                                  /\ none = <<>> OBVIOUS
<1>2. Calm(x) /\ ~x.h.begun /\ x.h.calls = none /\ x.dec.callOf = none BY <1>1, BegunCalm
<1>3. /\ DOMAIN d = DOMAIN NewDecoder /\ d.started = FALSE /\ d.done = FALSE
      /\ d.completed = FALSE /\ d.failed = FALSE /\ c.end = "" /\ c.items = none /\ c.calls = none
  BY <1>1 DEF AtFirst, NewDecoder, NewClient
<1>4. StoryIsSound(h) /\ Heard(h, c) /\ ~h.done /\ ~h.begun /\ ~c.over /\ DOMAIN c = CliFields
  BY <1>1, <1>2 DEF Calm, Heard
<1>5. PICK started : started = FALSE OBVIOUS
<1>6. PICK k : Outset(h, k) /\ Tells(loose, h, When(~started, <<Start>>), k)
  <2>1. started \in BOOLEAN /\ (started <=> h.begun) BY <1>4, <1>5
  <2> QED BY <1>4, <2>1, TellsStart
<1>7. PICK deltas : deltas = <<Start>> OBVIOUS
<1>8. When(~started, <<Start>>) = deltas BY <1>5, <1>7, Zenon DEF When
<1>9. PICK u : u = claudeStartUsage(f.usage) OBVIOUS
<1>10. PICK state : state = [d EXCEPT !.started = TRUE, !.usage = u] OBVIOUS
<1>11. /\ DOMAIN state = DOMAIN NewDecoder /\ state.started = TRUE /\ state.done = FALSE
       /\ state.completed = FALSE /\ state.failed = FALSE /\ state.callOf = d.callOf
  BY <1>3, <1>10 DEF NewDecoder
<1>12. DecodeChunk("claude", d, f) = Decoded(state, deltas)
  <2>1. decodeClaude(d, f) = Decoded(state, deltas) BY <1>7, <1>9, <1>10, Zenon DEF decodeClaude
  <2>2. DecodeChunk("claude", d, f) = decodeClaude(d, f) BY DEF DecodeChunk
  <2> QED BY <2>1, <2>2
<1>13. PICK r : r = ReadOne("claude", c, f) OBVIOUS
<1>14. Intact(c, r) /\ r.items = c.items /\ r.calls = c.calls
  <2>1. DOMAIN c = CliFields /\ f.f = "message_start" /\ r = ReadOne("claude", c, f)
    BY <1>4, <1>13
  <2>2. MessageStarted(c, r) BY ONLY <2>1, MessageStarts
  <2> QED BY <2>2 DEF MessageStarted
<1>15. StoryIsSound(k) /\ k.begun /\ ~k.done /\ k.calls = h.calls BY <1>4, <1>6 DEF Outset
<1>16. Heard(k, r) /\ ~r.over /\ r.end = "" BY <1>3, <1>4, <1>6, <1>14 DEF Heard, Outset, Intact
<1>17. f.f # "error" /\ EndIn(f) = "" BY DEF EndIn
<1>18. Quiet(state, k) BY <1>11, <1>15 DEF Quiet
<1>19. \E y : Reached(w, x, f, state, k, r, y)
  <2>1. /\ Calm(x) /\ f.f # "error" /\ EndIn(f) = ""
        /\ DecodeChunk(w.up, x.dec, f) = Decoded(state, deltas) /\ Tells(w.loose, x.h, deltas, k)
        /\ StoryIsSound(k) /\ ~k.done /\ Quiet(state, k)
        /\ r = ReadOne(w.up, x.source, f) /\ Heard(k, r) /\ ~r.over
    BY <1>1, <1>2, <1>6, <1>8, <1>12, <1>13, <1>15, <1>16, <1>17, <1>18
  <2> QED BY ONLY <2>1, QuietRead
<1>20. PICK y : Reached(w, x, f, state, k, r, y) BY <1>19
<1>21. Calm(y) /\ y.dec = state /\ y.h = k /\ y.source = r BY <1>20 DEF Reached
<1>22. PICK at : at = BlockIndex(plan_.said, 0) OBVIOUS
<1>23. k.calls = none /\ r.calls = none /\ state.callOf = none /\ r.items = none
  BY <1>1, <1>2, <1>3, <1>11, <1>14, <1>15
<1>24. Filed(k.calls, r.calls, state.callOf, at)
  <2>1. PICK tale, caught, callOf : tale = k.calls /\ caught = r.calls /\ callOf = state.callOf OBVIOUS
  <2>2. tale = <<>> /\ callOf = <<>> BY <1>1, <1>23, <2>1
  <2>3. Filed(tale, caught, callOf, at) BY ONLY <2>2, FiledNone
  <2> QED BY <2>1, <2>3
<1>25. ClaudeNow(y, at, 0)
  <2>1. IsSeq(none) /\ Len(none) = 0 BY <1>1, SeqEmpty
  <2> QED BY <1>11, <1>15, <1>16, <1>21, <1>23, <1>24, <2>1 DEF ClaudeNow, Unended
<1>26. Talked(w.loose, plan_.said, 0, y.h)
  <2>1. PICK said, g : said = plan_.said /\ g = y.h OBVIOUS
  <2>2. g.calls = <<>> BY <1>1, <1>21, <1>23, <2>1
  <2>3. Talked(loose, said, 0, g) BY ONLY <2>2, TalkedNone
  <2> QED BY <1>1, <2>1, <2>3
<1>27. ClaudeStage(w, plan_, 0, y) BY <1>22, <1>25, <1>26 DEF ClaudeStage
<1> QED BY <1>20, <1>27, LeadsOne DEF Reached
----------------------------------------
(* What follows the utterances. *)

ClaudePaused(x) ==
  /\ StoryIsSound(x.h) /\ Heard(x.h, x.source) /\ x.h.begun /\ ~x.source.over
  /\ DOMAIN x.dec = DOMAIN NewDecoder /\ x.dec.started = TRUE /\ x.dec.completed = FALSE
  /\ x.dec.failed = FALSE /\ (x.dec.done <=> x.h.done)
  /\ x.h.done => x.stated = "ended" /\ EndClass(x.source.end) = EndClass(x.h.reason)
  /\ ~x.h.done => x.stated = "" /\ Unended(x.source)

ClaudeStop(reason) ==
  reason # "" => LET stop == claudeMapStopReason(reason) IN
                 stop \in Reasons /\ EndClass(reason) = EndClass(stop)

\* An upstream amid its utterances may pause,
LEMMA ClaudeNowPaused ==
  ASSUME NEW x, NEW top, NEW blocks, ClaudeNow(x, top, blocks)
  PROVE  ClaudePaused(x) /\ ~x.h.done
BY DEF ClaudeNow, Calm, ClaudePaused

\* and agrees with its client when it does.
LEMMA ClaudePausedAgrees ==
  ASSUME NEW w, NEW x, ClaudePaused(x)
  PROVE  Agrees(w, x)
BY DEF ClaudePaused, Agrees, Heard, AwaitsFinish

\* The counts and the reason.
LEMMA ClaudeCounts ==
  ASSUME NEW w, w.up = "claude", NEW x, ClaudePaused(x), ~x.h.done,
         NEW f, f.f = "message_delta", ClaudeStop(f.reason)
  PROVE  \E y : Reads(w, x, f, y) /\ ClaudePaused(y) /\ (y.h.done <=> f.reason # "")
<1>1. PICK d, h, c, loose : d = x.dec /\ h = x.h /\ c = x.source /\ loose = w.loose OBVIOUS
<1>2. /\ StoryIsSound(h) /\ Heard(h, c) /\ h.begun /\ ~h.done /\ ~c.over
      /\ DOMAIN d = DOMAIN NewDecoder /\ d.started = TRUE /\ d.completed = FALSE
      /\ d.failed = FALSE /\ ~d.done /\ x.stated = "" /\ Unended(c) /\ DOMAIN c = CliFields
  BY <1>1 DEF ClaudePaused, Heard
<1>3. PICK reason, finishes : reason = claudeMapStopReason(f.reason) /\ finishes = (f.reason # "")
  OBVIOUS
<1>4. /\ finishes \in BOOLEAN /\ (finishes <=> f.reason # "")
      /\ finishes => reason \in Reasons /\ EndClass(f.reason) = EndClass(reason)
  BY <1>3 DEF ClaudeStop
<1>5. PICK k : /\ Tells(loose, h, When(finishes, <<Done(reason)>>), k) /\ StoryIsSound(k)
               /\ finishes => Stops(h, Done(reason), k)
               /\ ~finishes => k = h
  <2>1. CASE finishes
    <3>1. MayStop(h, finishes, reason) BY <1>2, <1>4, <2>1 DEF MayStop
    <3>2. \E k : Stopped(loose, h, finishes, reason, k) BY ONLY <3>1, TellsDone
    <3> QED BY <3>2, Zenon DEF Stopped
  <2>2. CASE ~finishes
    <3>1. When(finishes, <<Done(reason)>>) = <<>> BY <2>2, Zenon DEF When
    <3>2. Tells(loose, h, <<>>, h) BY TellsNone
    <3> QED BY <1>2, <2>2, <3>1, <3>2
  <2> QED BY <1>4, <2>1, <2>2
<1>6. /\ k.begun /\ (k.done <=> finishes) /\ k.think = h.think /\ k.text = h.text
      /\ k.calls = h.calls /\ (finishes => k.reason = reason)
  <2>1. Done(reason).reason = reason BY DEF Done
  <2> QED BY <1>2, <1>4, <1>5, <2>1 DEF Stops
<1>7. PICK u, over : u = claudeDeltaUsage(d.usage, f.usage) /\ over = (d.done \/ f.reason # "") OBVIOUS
<1>8. over <=> finishes BY <1>2, <1>4, <1>7
<1>9. PICK tale : tale = When(finishes, <<Done(reason)>>) \o <<UsageOf(u)>> OBVIOUS
<1>10. Tells(loose, h, tale, k)
  <2>1. PICK yes : yes = TRUE OBVIOUS
  <2>2. Tells(loose, k, When(yes, <<UsageOf(u)>>), k)
    <3>1. yes \in BOOLEAN BY <2>1
    <3> QED BY <3>1, TellsUsage
  <2>3. When(yes, <<UsageOf(u)>>) = <<UsageOf(u)>> BY <2>1, Zenon DEF When
  <2>4. Tells(loose, k, <<UsageOf(u)>>, k) BY <2>2, <2>3
  <2> QED BY <1>5, <1>9, <2>4, TellsCat
<1>11. PICK state : state = [d EXCEPT !.done = over, !.usage = u] OBVIOUS
<1>12. /\ DOMAIN state = DOMAIN NewDecoder /\ state.started = TRUE /\ state.done = over
       /\ state.completed = FALSE /\ state.failed = FALSE BY <1>2, <1>11 DEF NewDecoder
<1>13. DecodeChunk("claude", d, f) = Decoded(state, tale)
  <2>1. decodeClaude(d, f) = Decoded([d EXCEPT !.done = d.done \/ f.reason # "", !.usage = u], tale)
    BY <1>3, <1>7, <1>9, Zenon DEF decodeClaude
  <2>2. decodeClaude(d, f) = Decoded(state, tale) BY <1>7, <1>11, <2>1
  <2> QED BY <2>2 DEF DecodeChunk
<1>14. PICK r : r = ReadOne("claude", c, f) OBVIOUS
<1>15. MessageEnded(c, f, r) BY <1>2, <1>14, MessageEnds
<1>16. PICK judgement : judgement = IF x.stated = "" THEN EndIn(f) ELSE x.stated OBVIOUS
<1>17. (finishes => judgement = "ended") /\ (~finishes => judgement = "")
  <2>1. EndIn(f) = IF f.reason = "" THEN "" ELSE "ended" BY DEF EndIn
  <2> QED BY <1>2, <1>4, <1>16, <2>1
<1>18. PICK y : y = [dec |-> state, h |-> k, source |-> r, stated |-> judgement] OBVIOUS
<1>19. y.dec = state /\ y.h = k /\ y.source = r /\ y.stated = judgement BY <1>18
<1>20. ClaudePaused(y)
  <2>1. Heard(k, r) BY <1>2, <1>6, <1>15 DEF Heard, MessageEnded
  <2>2. finishes => EndClass(r.end) = EndClass(k.reason) BY <1>4, <1>6, <1>15 DEF MessageEnded
  <2>3. ~finishes => Unended(r) BY <1>2, <1>4, <1>15 DEF MessageEnded, Unended
  <2>4. ~r.over BY <1>2, <1>15 DEF MessageEnded
  <2>5. StoryIsSound(k) BY <1>5
  <2> QED BY <1>6, <1>8, <1>12, <1>17, <1>19, <2>1, <2>2, <2>3, <2>4, <2>5 DEF ClaudePaused
<1>21. Reads(w, x, f, y)
  <2>1. \A a, b : Decoded(a, b).state = a /\ Decoded(a, b).deltas = b BY DEF Decoded
  <2>2. PICK step : step = DecodeChunk(w.up, x.dec, f) OBVIOUS
  <2>3. step.state = state /\ step.deltas = tale
    <3>1. step = Decoded(state, tale) BY <1>1, <1>13, <2>2
    <3> QED BY ONLY <2>1, <3>1
  <2>4. Agrees(w, y) BY <1>20, ClaudePausedAgrees
  <2>5. ~x.source.over /\ f.f # "error" BY <1>1, <1>2
  <2>6. y.source = ReadOne(w.up, x.source, f) BY <1>1, <1>14, <1>19
  <2> QED BY <1>1, <1>10, <1>16, <1>19, <2>2, <2>3, <2>4, <2>5, <2>6 DEF Reads
<1> QED BY <1>4, <1>6, <1>19, <1>20, <1>21

\* Where an error may come: before the end, or late.
ClaudeMayFail(w, x) ==
  /\ StoryIsSound(x.h) /\ Heard(x.h, x.source) /\ DOMAIN x.dec = DOMAIN NewDecoder
  /\ x.dec.done <=> x.h.done
  /\ x.h.done => x.stated = "ended" /\ EndClass(x.source.end) = EndClass(x.h.reason)
  /\ x.stated = "" \/ (x.stated = "ended" /\ w.fate = "errs late")

\* An error may come before the end, or late.
LEMMA ClaudeErrs ==
  ASSUME NEW w, w.up = "claude", NEW x, ClaudeMayFail(w, x), NEW f, f.f = "error"
  PROVE  \E y : Reads(w, x, f, y)
<1>1. PICK d, h, c, loose, none : /\ d = x.dec /\ h = x.h /\ c = x.source /\ loose = w.loose
                                  /\ none = <<>> OBVIOUS
<1>2. PICK state : state = [d EXCEPT !.failed = TRUE] OBVIOUS
<1>3. /\ state.failed = TRUE /\ state.done = d.done BY <1>1, <1>2 DEF ClaudeMayFail, NewDecoder
<1>4. PICK judgement : judgement = IF x.stated = "" THEN EndIn(f) ELSE x.stated OBVIOUS
<1>5. (judgement = "failed" /\ ~h.done) \/ (judgement = "ended" /\ w.fate = "errs late")
  <2>1. EndIn(f) = "failed" BY DEF EndIn
  <2> QED BY <1>1, <1>4, <2>1 DEF ClaudeMayFail
<1>6. PICK y : y = [dec |-> state, h |-> h, source |-> c, stated |-> judgement] OBVIOUS
<1>7. y.dec = state /\ y.h = h /\ y.source = c /\ y.stated = judgement BY <1>6
<1>8. Agrees(w, y) BY <1>1, <1>3, <1>5, <1>7 DEF ClaudeMayFail, Agrees, AwaitsFinish, Heard
<1>9. DecodeChunk("claude", d, f) = Decoded(state, none)
  <2>1. decodeClaude(d, f) = Decoded(state, none) BY <1>1, <1>2, Zenon DEF decodeClaude
  <2>2. DecodeChunk("claude", d, f) = decodeClaude(d, f) BY DEF DecodeChunk
  <2> QED BY <2>1, <2>2
<1>10. PICK step : step = DecodeChunk(w.up, x.dec, f) OBVIOUS
<1>11. step.state = state /\ step.deltas = none
  <2>1. \A a, b : Decoded(a, b).state = a /\ Decoded(a, b).deltas = b BY DEF Decoded
  <2>2. step = Decoded(state, none) BY <1>1, <1>9, <1>10
  <2> QED BY ONLY <2>1, <2>2
<1>12. Tells(loose, h, none, h) BY <1>1, TellsNone
<1>13. Reads(w, x, f, y) BY <1>1, <1>4, <1>7, <1>8, <1>10, <1>11, <1>12 DEF Reads
<1> QED BY <1>13

ClaudeClosed(x) ==
  /\ StoryIsSound(x.h) /\ Heard(x.h, x.source) /\ DOMAIN x.dec = DOMAIN NewDecoder
  /\ (x.dec.done <=> x.h.done) /\ x.stated = "ended"
  /\ x.h.done => EndClass(x.source.end) = EndClass(x.h.reason)

\* message_stop says stop if nothing has.
LEMMA ClaudeLast ==
  ASSUME NEW w, w.up = "claude", NEW x, ClaudePaused(x), NEW f, f.f = "message_stop"
  PROVE  \E y : Reads(w, x, f, y) /\ ClaudeClosed(y)
<1>1. PICK d, h, c, loose, none : /\ d = x.dec /\ h = x.h /\ c = x.source /\ loose = w.loose
                                  /\ none = <<>> OBVIOUS
<1>2. PICK state : state = [d EXCEPT !.completed = TRUE] OBVIOUS
<1>3. /\ DOMAIN d = DOMAIN NewDecoder /\ DOMAIN c = CliFields /\ ~c.over /\ StoryIsSound(h)
      /\ Heard(h, c) /\ h.begun /\ (d.done <=> h.done) /\ d.failed = FALSE
      /\ (h.done => x.stated = "ended" /\ EndClass(c.end) = EndClass(h.reason))
      /\ (~h.done => x.stated = "" /\ Unended(c)) BY <1>1 DEF ClaudePaused, Heard
<1>4. /\ DOMAIN state = DOMAIN NewDecoder /\ state.failed = FALSE /\ state.done = d.done
  BY <1>2, <1>3 DEF NewDecoder
<1>5. PICK judgement : judgement = IF x.stated = "" THEN EndIn(f) ELSE x.stated OBVIOUS
<1>6. judgement = "ended"
  <2>1. EndIn(f) = "ended" BY DEF EndIn
  <2> QED BY <1>3, <1>5, <2>1
<1>7. PICK r : r = ReadOne("claude", c, f) OBVIOUS
<1>8. Over(c, r) /\ r.end = c.end
  <2>1. DOMAIN c = CliFields /\ f.f = "message_stop" /\ r = ReadOne("claude", c, f) BY <1>3, <1>7
  <2>2. Over(c, r) BY ONLY <2>1, MessageStops
  <2>3. r.end = c.end BY ONLY <2>1, MessageStops
  <2> QED BY <2>2, <2>3
<1>9. Heard(h, r) BY <1>3, <1>8 DEF Heard, Over
<1>10. ~h.done => EndClass(r.end) = "normal"
  <2>1. Unended(r) => EndClass(r.end) = "normal" BY DEF Unended, EndClass
  <2>2. Unended(c) => Unended(r) BY <1>8 DEF Unended
  <2> QED BY <1>3, <2>1, <2>2
<1>11. h.done => EndClass(r.end) = EndClass(h.reason) BY <1>3, <1>8
<1>12. PICK y : y = [dec |-> state, h |-> h, source |-> r, stated |-> judgement] OBVIOUS
<1>13. y.dec = state /\ y.h = h /\ y.source = r /\ y.stated = judgement BY <1>12
<1>14. state.completed /\ state.started BY <1>1, <1>2, <1>3 DEF NewDecoder, ClaudePaused
<1>15. Agrees(w, y)
  BY <1>3, <1>4, <1>6, <1>9, <1>10, <1>11, <1>13, <1>14 DEF Agrees, AwaitsFinish, Heard
<1>16. DecodeChunk("claude", d, f) = Decoded(state, none)
  <2>1. decodeClaude(d, f) = Decoded(state, none) BY <1>1, <1>2, Zenon DEF decodeClaude
  <2>2. DecodeChunk("claude", d, f) = decodeClaude(d, f) BY DEF DecodeChunk
  <2> QED BY <2>1, <2>2
<1>17. PICK step : step = DecodeChunk(w.up, x.dec, f) OBVIOUS
<1>18. step.state = state /\ step.deltas = none
  <2>1. \A a, b : Decoded(a, b).state = a /\ Decoded(a, b).deltas = b BY DEF Decoded
  <2>2. step = Decoded(state, none) BY <1>1, <1>16, <1>17
  <2> QED BY ONLY <2>1, <2>2
<1>19. Tells(loose, h, none, h) BY <1>1, TellsNone
<1>20. Reads(w, x, f, y)
  <2>1. ~x.source.over /\ f.f # "error" BY <1>1, <1>3
  <2>2. y.source = ReadOne(w.up, x.source, f) BY <1>1, <1>7, <1>13
  <2> QED BY <1>1, <1>5, <1>13, <1>15, <1>17, <1>18, <1>19, <2>1, <2>2 DEF Reads
<1>21. ClaudeClosed(y) BY <1>3, <1>4, <1>6, <1>9, <1>11, <1>13 DEF ClaudeClosed
<1> QED BY <1>20, <1>21

\* A Claude upstream's stop_reason is one the mapping knows.
LEMMA ClaudeReasons ==
  ASSUME NEW plan_, PlanIsSound("claude", plan_)
  PROVE  ClaudeStop(NativeStop("claude", plan_))
<1>1. NativeStop("claude", plan_) \in {"tool_use", "end_turn", "max_tokens", "refusal", ""}
  BY DEF NativeStop
<1> QED BY <1>1 DEF ClaudeStop, claudeMapStopReason, EndClass, Reasons

\* From the last utterance to the end: the block's, the early counts, the rest.
ClaudeBreaks(w, x, s, y) == Leads(w, x, s, y) /\ ClaudePaused(y) /\ ~y.h.done

\* The last block is closed,
LEMMA ClaudeLastBlock ==
  ASSUME NEW plan_, PlanIsSound("claude", plan_), NEW w, w.up = "claude", NEW n \in Nat,
         NEW x, ClaudeStage(w, plan_, n, x), NEW stop, stop.f = "block_stop",
         NEW s, s = When(n > 0, <<stop>>)
  PROVE  \E y : ClaudeBreaks(w, x, s, y)
<1>1. PICK at : at = BlockIndex(plan_.said, n) OBVIOUS
<1>2. ClaudeNow(x, at, IF n = 0 THEN 0 ELSE at) BY <1>1 DEF ClaudeStage
<1>3. CASE n > 0
  <2>1. s = <<stop>> BY <1>3, Zenon DEF When
  <2>2. ClaudeNow(x, at, at) BY <1>2, <1>3
  <2>3. at \in Int
    <3>1. PICK items : items = x.source.items OBVIOUS
    <3>2. IsSeq(items) /\ Len(items) = at BY <2>2, <3>1 DEF ClaudeNow
    <3> QED BY <3>2, SeqDomain
  <2>4. PICK y : ClaudeSilent(w, x, stop, at, at + 1, y) BY <2>2, <2>3, ClaudeStopRead
  <2>5. ClaudePaused(y) /\ ~y.h.done BY <2>4, ClaudeNowPaused DEF ClaudeSilent
  <2>6. Leads(w, x, s, y) BY <2>1, <2>4, LeadsOne DEF ClaudeSilent
  <2> QED BY <2>5, <2>6 DEF ClaudeBreaks
<1>4. CASE ~(n > 0)
  <2>1. s = <<>> BY <1>4, Zenon DEF When
  <2>2. ClaudePaused(x) /\ ~x.h.done BY <1>2, ClaudeNowPaused
  <2>3. Leads(w, x, s, x) BY <2>1, LeadsNone
  <2> QED BY <2>2, <2>3 DEF ClaudeBreaks
<1> QED BY <1>3, <1>4

\* usage may come before the end,
LEMMA ClaudeEarlyCounts ==
  ASSUME NEW w, w.up = "claude", NEW x, ClaudePaused(x), ~x.h.done, NEW early \in BOOLEAN,
         NEW f, f.f = "message_delta", f.reason = "", NEW s, s = When(early, <<f>>)
  PROVE  \E y : ClaudeBreaks(w, x, s, y)
<1>1. CASE early
  <2>1. s = <<f>> BY <1>1, Zenon DEF When
  <2>2. ClaudeStop(f.reason) BY DEF ClaudeStop
  <2>3. PICK y : Reads(w, x, f, y) /\ ClaudePaused(y) /\ (y.h.done <=> f.reason # "")
    BY <2>2, ClaudeCounts
  <2>4. Leads(w, x, s, y) BY <2>1, <2>3, LeadsOne
  <2> QED BY <2>3, <2>4 DEF ClaudeBreaks
<1>2. CASE ~early
  <2>1. s = <<>> BY <1>2, Zenon DEF When
  <2>2. Leads(w, x, s, x) BY <2>1, LeadsNone
  <2> QED BY <2>2 DEF ClaudeBreaks
<1> QED BY <1>1, <1>2

\* an error may be all that comes,
LEMMA ClaudeError ==
  ASSUME NEW w, w.up = "claude", NEW x, ClaudePaused(x), ~x.h.done, NEW f, f.f = "error"
  PROVE  \E y : Leads(w, x, <<f>>, y)
<1>1. ClaudeMayFail(w, x) BY DEF ClaudePaused, ClaudeMayFail
<1>2. PICK y : Reads(w, x, f, y) BY <1>1, ClaudeErrs
<1> QED BY <1>2, LeadsOne

\* or the end does, with an error after it or not.
LEMMA ClaudeEnding ==
  ASSUME NEW w, w.up = "claude", NEW x, ClaudePaused(x), ~x.h.done,
         NEW f, f.f = "message_delta", ClaudeStop(f.reason), NEW g, g.f = "message_stop",
         NEW tardy \in BOOLEAN, tardy => w.fate = "errs late", NEW e, e.f = "error",
         NEW s, s = <<f, g>> \o When(tardy, <<e>>)
  PROVE  \E y : Leads(w, x, s, y)
<1>1. PICK y : Reads(w, x, f, y) /\ ClaudePaused(y) BY ClaudeCounts
<1>2. PICK z : Reads(w, y, g, z) /\ ClaudeClosed(z) BY <1>1, ClaudeLast
<1>3. Leads(w, x, <<f>> \o <<g>>, z)
  <2>1. Leads(w, x, <<f>>, y) BY <1>1, LeadsOne
  <2>2. Leads(w, y, <<g>>, z) BY <1>2, LeadsOne
  <2> QED BY <2>1, <2>2, LeadsCat
<1>4. Leads(w, x, <<f, g>>, z) BY <1>3, SeqPair, Zenon
<1>5. \E v : Leads(w, z, When(tardy, <<e>>), v)
  <2>1. CASE tardy
    <3>1. When(tardy, <<e>>) = <<e>> BY <2>1, Zenon DEF When
    <3>2. ClaudeMayFail(w, z) BY <1>2, <2>1 DEF ClaudeClosed, ClaudeMayFail
    <3>3. PICK v : Reads(w, z, e, v) BY <3>2, ClaudeErrs
    <3>4. Leads(w, z, <<e>>, v) BY <3>3, LeadsOne
    <3> QED BY <3>1, <3>4, Zenon
  <2>2. CASE ~tardy
    <3>1. When(tardy, <<e>>) = <<>> BY <2>2, Zenon DEF When
    <3> QED BY <3>1, LeadsNone
  <2> QED BY <2>1, <2>2
<1> QED BY <1>4, <1>5, LeadsCat

ClaudeWentOut(w, x, s1, s2, s3) ==
  \E a, b, y : Leads(w, x, s1, a) /\ Leads(w, a, s2, b) /\ Leads(w, b, s3, y)

ClaudeRest(plan_, err, finale, over) ==
  IF plan_.fate \in {"errors", "fails"} THEN <<err>>
  ELSE <<finale, over>> \o When(plan_.fate = "errs late", <<err>>)

\* What follows a Claude upstream's utterances is read, however it ends.
LEMMA ClaudeTail ==
  ASSUME NEW plan_, PlanIsSound("claude", plan_), NEW w, w.up = "claude", w.fate = plan_.fate,
         NEW n \in Nat, NEW x, ClaudeStage(w, plan_, n, x),
         NEW stop, stop.f = "block_stop", NEW counts, counts.f = "message_delta",
         counts.reason = "", NEW err, err.f = "error", NEW finale, finale.f = "message_delta",
         finale.reason = NativeStop("claude", plan_), NEW over, over.f = "message_stop",
         NEW s1, s1 = When(n > 0, <<stop>>), NEW s2, s2 = When(plan_.tail = "split", <<counts>>),
         NEW s3, s3 = ClaudeRest(plan_, err, finale, over)
  PROVE  ClaudeWentOut(w, x, s1, s2, s3)
<1>1. PICK a : ClaudeBreaks(w, x, s1, a) BY ClaudeLastBlock
<1>2. PICK early, tardy : early = (plan_.tail = "split") /\ tardy = (plan_.fate = "errs late") OBVIOUS
<1>3. early \in BOOLEAN /\ tardy \in BOOLEAN /\ (tardy => w.fate = "errs late") BY <1>2
<1>4. ClaudePaused(a) /\ ~a.h.done BY <1>1 DEF ClaudeBreaks
<1>5. PICK b : ClaudeBreaks(w, a, s2, b) BY <1>2, <1>3, <1>4, ClaudeEarlyCounts
<1>6. ClaudePaused(b) /\ ~b.h.done BY <1>5 DEF ClaudeBreaks
<1>7. \E y : Leads(w, b, s3, y)
  <2>1. CASE plan_.fate \in {"errors", "fails"}
    <3>1. s3 = <<err>> BY <2>1, Zenon DEF ClaudeRest
    <3> QED BY <1>6, <3>1, ClaudeError
  <2>2. CASE ~(plan_.fate \in {"errors", "fails"})
    <3>1. s3 = <<finale, over>> \o When(tardy, <<err>>)
      <4>1. s3 = <<finale, over>> \o When(plan_.fate = "errs late", <<err>>)
        BY <2>2, Zenon DEF ClaudeRest
      <4>2. When(plan_.fate = "errs late", <<err>>) = When(tardy, <<err>>) BY <1>2, Zenon
      <4> QED BY ONLY <4>1, <4>2, Zenon
    <3>2. ClaudeStop(finale.reason) BY ClaudeReasons
    <3>3. /\ w.up = "claude" /\ ClaudePaused(b) /\ ~b.h.done /\ finale.f = "message_delta"
          /\ ClaudeStop(finale.reason) /\ over.f = "message_stop" /\ tardy \in BOOLEAN
          /\ (tardy => w.fate = "errs late") /\ err.f = "error"
          /\ s3 = <<finale, over>> \o When(tardy, <<err>>) BY <1>3, <1>6, <3>1, <3>2
    <3> QED BY ONLY <3>3, ClaudeEnding
  <2> QED BY <2>1, <2>2
<1> QED BY <1>1, <1>5, <1>7 DEF ClaudeBreaks, ClaudeWentOut

----------------------------------------
(* A Responses upstream. *)

\* Where a call is opened.
CallAt(said, call) == CHOOSE j \in Calls(said) : said[j].call = call
CallBlock(said, call) == BlockIndex(said, CallAt(said, call))

\* A call is where it was opened.
LEMMA CallIsAt ==
  ASSUME NEW said, WellTalked(said), NEW i \in 0..(Len(said) - 1), said[i + 1].kind = "call",
         NEW call, call = said[i + 1].call
  PROVE  CallAt(said, call) = i + 1
<1>1. Len(said) \in Nat /\ DOMAIN said = 1..Len(said) BY SeqDomain DEF WellTalked
<1>2. i \in Nat /\ i + 1 \in 1..Len(said) /\ said[i + 1] \in Utterances BY OpenedSoFar
<1>3. call \in 1..2 BY <1>2, UtteranceIs
<1>4. Opened(said, i) = 1..(call - 1) BY OpenedSoFar
<1>5. ASSUME NEW j \in Calls(said), said[j].call = call PROVE j = i + 1
  <2>1. j \in 1..Len(said) /\ said[j].kind = "call" BY <1>1, <1>5 DEF Calls
  <2>2. CASE j <= i
    <3>1. j \in 1..i BY <1>2, <2>1, <2>2
    <3>2. call \in Opened(said, i) BY <1>5, <2>1, <3>1 DEF Opened
    <3>3. call \notin 1..(call - 1) BY <1>3
    <3> QED BY <1>4, <3>2, <3>3
  <2>3. CASE i + 1 < j
    <3>1. PICK m : m = j - 1 OBVIOUS
    <3>2. m \in 0..(Len(said) - 1) /\ m + 1 = j /\ i + 1 \in 1..m BY <1>1, <1>2, <2>1, <2>3, <3>1
    <3>3. said[m + 1].kind = "call" /\ said[m + 1].call = call BY <1>5, <2>1, <3>2
    <3>4. Opened(said, m) = 1..(call - 1)
      <4>1. said[m + 1].kind = "call" => Opened(said, m) = 1..(said[m + 1].call - 1)
        BY <3>2, OpenedSoFar
      <4> QED BY <3>3, <4>1
    <3>5. call \in Opened(said, m) BY <3>2 DEF Opened
    <3>6. call \notin 1..(call - 1) BY <1>3
    <3> QED BY <3>4, <3>5, <3>6
  <2> QED BY <1>1, <1>2, <2>1, <2>2, <2>3
<1>6. i + 1 \in Calls(said) BY <1>1, <1>2 DEF Calls
<1> QED BY <1>5, <1>6 DEF CallAt

\* The calls are told, and heard, by the items that hold them.
Itemed(said, tale, caught, top) ==
  \A k \in 1..Len(tale) : /\ tale[k].index = CallBlock(said, k) /\ caught[k].at = CallBlock(said, k)
                          /\ CallBlock(said, k) \in Int /\ CallBlock(said, k) <= top

\* No call, no item.
LEMMA ItemedNone ==
  ASSUME NEW said, NEW tale, NEW caught, NEW top, tale = <<>>
  PROVE  Itemed(said, tale, caught, top)
<1>1. Len(tale) = 0 BY SeqEmpty
<1> QED BY <1>1 DEF Itemed

\* A bound on the items in use may be raised.
LEMMA ItemedUp ==
  ASSUME NEW said, NEW tale, NEW caught, NEW top \in Int, Itemed(said, tale, caught, top),
         NEW more \in Int, top <= more
  PROVE  Itemed(said, tale, caught, more)
<1> SUFFICES ASSUME NEW k \in 1..Len(tale)
             PROVE  /\ tale[k].index = CallBlock(said, k) /\ caught[k].at = CallBlock(said, k)
                    /\ CallBlock(said, k) \in Int /\ CallBlock(said, k) <= more BY DEF Itemed
<1>1. /\ tale[k].index = CallBlock(said, k) /\ caught[k].at = CallBlock(said, k)
      /\ CallBlock(said, k) \in Int /\ CallBlock(said, k) <= top BY DEF Itemed
<1>2. PICK b : b = CallBlock(said, k) OBVIOUS
<1>3. b \in Int /\ b <= top BY <1>1, <1>2
<1>4. b <= more BY <1>3
<1> QED BY <1>1, <1>2, <1>4

\* Calls keep the items they are of,
LEMMA ItemedSame ==
  ASSUME NEW said, NEW tale, NEW caught, NEW top, Itemed(said, tale, caught, top),
         NEW n, n = Len(tale), NEW more, NEW other, Len(more) = n,
         \A k \in 1..n : more[k].index = tale[k].index /\ other[k].at = caught[k].at
  PROVE  Itemed(said, more, other, top)
BY DEF Itemed

\* and one more has an item of its own.
LEMMA ItemedMore ==
  ASSUME NEW said, NEW tale, NEW caught, NEW top, Itemed(said, tale, caught, top),
         NEW n \in Nat, NEW more, NEW other, NEW at, at = CallBlock(said, n + 1),
         at \in Int, at <= top, Len(tale) = n, Len(more) = n + 1,
         \A k \in 1..n : more[k] = tale[k] /\ other[k] = caught[k],
         more[n + 1].index = at, other[n + 1].at = at
  PROVE  Itemed(said, more, other, top)
<1>1. \A k \in 1..(n + 1) : k \in 1..n \/ k = n + 1 OBVIOUS
<1>2. \A k \in 1..n : /\ more[k].index = CallBlock(said, k) /\ other[k].at = CallBlock(said, k)
                      /\ CallBlock(said, k) \in Int /\ CallBlock(said, k) <= top BY DEF Itemed
<1> SUFFICES ASSUME NEW k \in 1..(n + 1)
             PROVE  /\ more[k].index = CallBlock(said, k) /\ other[k].at = CallBlock(said, k)
                    /\ CallBlock(said, k) \in Int /\ CallBlock(said, k) <= top BY DEF Itemed
<1>3. CASE k \in 1..n BY <1>2, <1>3
<1>4. CASE k = n + 1 BY <1>4
<1> QED BY <1>1, <1>3, <1>4
----------------------------------------
(* What a client of the upstream makes of its frames. *)

LEMMA ItemAdds ==
  ASSUME NEW c, DOMAIN c = CliFields, NEW f, f.f = "item_added", NEW r, r = ReadOne("responses", c, f)
  PROVE  /\ Intact(c, r)
         /\ f.kind = "call" => r.calls = Append(c.calls, [at |-> f.item, call |-> f.call, args |-> <<>>])
         /\ f.kind # "call" => r.calls = c.calls
<1>1. r = ResponsesClient(c, f) BY DEF ReadOne
<1>2. PICK calls : calls = Append(c.calls, [at |-> f.item, call |-> f.call, args |-> <<>>])
  OBVIOUS
<1>3. PICK o : o = IF f.kind = "call" THEN Opens(c, f.item, f.call, <<>>) ELSE c OBVIOUS
<1>4. o = IF f.kind = "call" THEN [c EXCEPT !.calls = calls] ELSE c BY <1>2, <1>3 DEF Opens
<1>5. /\ DOMAIN o = CliFields /\ o.over = c.over /\ o.end = c.end /\ o.think = c.think
      /\ o.text = c.text /\ o.begun = c.begun /\ o.ok = c.ok
      /\ o.calls = IF f.kind = "call" THEN calls ELSE c.calls BY <1>4 DEF CliFields
<1>6. PICK room : room = (c.begun /\ \A i \in DOMAIN c.items : c.items[i].item # f.item) OBVIOUS
<1>8. PICK w : w = Expect(o, room) OBVIOUS
<1>9. Expected(o, room, w) BY <1>5, <1>8, IsExpected
<1>10. PICK y : y = [item |-> f.item, kind |-> f.kind, open |-> TRUE, body |-> <<>>] OBVIOUS
<1>11. PICK more : more = Append(w.items, y) OBVIOUS
<1>13. r = [w EXCEPT !.items = more]
  <2>1. r = [w EXCEPT !.items = Append(@, [item |-> f.item, kind |-> f.kind, open |-> TRUE,
                                          body |-> <<>>])]
    BY <1>1, <1>3, <1>6, <1>8, Zenon DEF ResponsesClient
  <2> QED BY <1>10, <1>11, <2>1
<1>14. /\ DOMAIN r = CliFields /\ r.over = w.over /\ r.end = w.end /\ r.think = w.think
       /\ r.text = w.text /\ r.calls = w.calls BY <1>9, <1>13 DEF Expected, CliFields
<1>15. Intact(c, r) BY <1>5, <1>9, <1>14 DEF Expected, Intact
<1>16. r.calls = IF f.kind = "call" THEN calls ELSE c.calls BY <1>5, <1>9, <1>14 DEF Expected
<1> QED BY <1>2, <1>15, <1>16

ItemTold(c, f, r) ==
  /\ DOMAIN r = CliFields /\ r.over = c.over /\ r.end = c.end /\ Spoken(c, f.kind, f.body, r)
  /\ r.calls = IF f.kind = "args" THEN ArgsHeard(c.calls, f.item, f.body) ELSE c.calls

\* A client of Responses hears a delta of an item as it is.
LEMMA ItemTells ==
  ASSUME NEW c, DOMAIN c = CliFields, NEW f, f.f = "item_delta",
         f.kind \in {"think", "text", "args"}, NEW r, r = ReadOne("responses", c, f)
  PROVE  ItemTold(c, f, r)
<1>1. r = ResponsesClient(c, f) BY DEF ReadOne
<1>3. PICK at : at = {i \in DOMAIN c.items : c.items[i].item = f.item /\ c.items[i].open} OBVIOUS
<1>5. PICK o : o = IF f.kind = "args" THEN HearsArgs(c, f.item, f.body) ELSE Hears(c, f.kind, f.body)
  OBVIOUS
<1>6. PICK room : room = \E i \in at : c.items[i].kind = IF f.kind = "args" THEN "call" ELSE f.kind
  OBVIOUS
<1>7. PICK w : w = Expect(o, room) OBVIOUS
<1>8. PICK after : after = [i \in DOMAIN c.items |->
                              IF i \in at THEN [c.items[i] EXCEPT !.body = @ \o f.body]
                              ELSE c.items[i]] OBVIOUS
<1>9. r = [w EXCEPT !.items = after]
  BY <1>1, <1>3, <1>5, <1>6, <1>7, <1>8, Zenon DEF ResponsesClient
<1>10. PICK calls : calls = ArgsHeard(c.calls, f.item, f.body) OBVIOUS
<1>11. PICK thought, said : thought = c.think \o f.body /\ said = c.text \o f.body OBVIOUS
<1>12. o = IF f.kind = "args" THEN [c EXCEPT !.calls = calls]
           ELSE IF f.kind = "think" THEN [c EXCEPT !.think = thought]
           ELSE [c EXCEPT !.text = said]
  <2>1. HearsArgs(c, f.item, f.body) = [c EXCEPT !.calls = ArgsHeard(c.calls, f.item, f.body)]
    BY Zenon DEF HearsArgs, ArgsHeard
  <2>2. HearsArgs(c, f.item, f.body) = [c EXCEPT !.calls = calls] BY <1>10, <2>1, Zenon
  <2>3. f.kind \in {"think", "text"} =>
          Hears(c, f.kind, f.body) = IF f.kind = "think" THEN [c EXCEPT !.think = thought]
                                     ELSE [c EXCEPT !.text = said] BY <1>11 DEF Hears
  <2> QED BY <1>5, <2>2, <2>3
<1>13. /\ DOMAIN o = CliFields /\ o.over = c.over /\ o.end = c.end
       /\ o.think = (IF f.kind = "think" THEN thought ELSE c.think)
       /\ o.text = (IF f.kind = "text" THEN said ELSE c.text)
       /\ o.calls = (IF f.kind = "args" THEN calls ELSE c.calls) BY <1>12 DEF CliFields
<1>14. Expected(o, room, w) BY <1>7, <1>13, IsExpected
<1>15. /\ DOMAIN r = CliFields /\ r.over = w.over /\ r.end = w.end /\ r.think = w.think
       /\ r.text = w.text /\ r.calls = w.calls BY <1>9, <1>14 DEF Expected, CliFields
<1>26. DOMAIN r = CliFields /\ r.over = c.over /\ r.end = c.end
  BY <1>13, <1>14, <1>15 DEF Expected
<1>27. Spoken(c, f.kind, f.body, r) BY <1>11, <1>13, <1>14, <1>15 DEF Spoken, Expected
<1>28. r.calls = IF f.kind = "args" THEN calls ELSE c.calls BY <1>13, <1>14, <1>15 DEF Expected
<1> QED BY <1>10, <1>26, <1>27, <1>28 DEF ItemTold

ResNow(said, top, x) ==
  /\ Calm(x) /\ x.h.begun /\ DOMAIN x.dec = DOMAIN NewDecoder /\ Unended(x.source)
  /\ Itemed(said, x.h.calls, x.source.calls, top)

ResTold(w, x, f, said, top, k, y) == Reads(w, x, f, y) /\ ResNow(said, top, y) /\ y.h = k

\* A Responses frame that comes to one delta tells it:
LEMMA ResTells ==
  ASSUME NEW w, w.up = "responses", NEW said, NEW top, NEW x, ResNow(said, top, x),
         NEW f, f.f # "error", EndIn(f) = "", NEW deltas,
         DecodeChunk("responses", x.dec, f) = Decoded(x.dec, deltas),
         NEW k, Tells(w.loose, x.h, deltas, k), Live(k),
         NEW r, r = ReadOne("responses", x.source, f), Heard(k, r), ~r.over, Unended(r),
         NEW after, Itemed(said, k.calls, r.calls, after)
  PROVE  \E y : ResTold(w, x, f, said, after, k, y)
<1>1. Calm(x) /\ x.h.begun BY DEF ResNow
<1>2. PICK d : d = x.dec OBVIOUS
<1>4. StoryIsSound(k) /\ ~k.done /\ k.begun BY DEF Live
<1>5. Quiet(d, k) BY <1>1, <1>2, <1>4 DEF Quiet, Calm
<1>6. \E y : Reached(w, x, f, d, k, r, y)
  <2>1. /\ Calm(x) /\ f.f # "error" /\ EndIn(f) = ""
        /\ DecodeChunk(w.up, x.dec, f) = Decoded(d, deltas) /\ Tells(w.loose, x.h, deltas, k)
        /\ StoryIsSound(k) /\ ~k.done /\ Quiet(d, k)
        /\ r = ReadOne(w.up, x.source, f) /\ Heard(k, r) /\ ~r.over BY <1>1, <1>2, <1>4, <1>5
  <2> QED BY ONLY <2>1, QuietRead
<1>7. PICK y : Reached(w, x, f, d, k, r, y) BY <1>6
<1>8. ResNow(said, after, y) BY <1>2, <1>4, <1>7 DEF Reached, ResNow
<1> QED BY <1>7, <1>8 DEF Reached, ResTold

\* An item that is not a call.
LEMMA ResAddRead ==
  ASSUME NEW w, w.up = "responses", NEW said, NEW top, NEW x, ResNow(said, top, x),
         NEW f, f.f = "item_added", f.kind # "call", NEW k, k = x.h
  PROVE  \E y : ResTold(w, x, f, said, top, k, y)
<1>1. PICK d, c, none : d = x.dec /\ c = x.source /\ none = <<>> OBVIOUS
<1>2. /\ StoryIsSound(k) /\ Heard(k, c) /\ ~c.over /\ Unended(c) /\ DOMAIN c = CliFields
      /\ Itemed(said, k.calls, c.calls, top) /\ Live(k) /\ d.failed = FALSE
  BY <1>1 DEF ResNow, Calm, Heard, Live
<1>3. PICK r : r = ReadOne("responses", c, f) OBVIOUS
<1>4. Intact(c, r) /\ r.calls = c.calls BY <1>2, <1>3, ItemAdds
<1>5. Heard(k, r) /\ ~r.over /\ Unended(r) BY <1>2, <1>4 DEF Heard, Intact, Unended
<1>6. DecodeChunk("responses", d, f) = Decoded(d, none)
  <2>1. decodeResponses(d, f) = Decoded(d, <<>>) BY <1>2, Zenon DEF decodeResponses
  <2>2. DecodeChunk("responses", d, f) = decodeResponses(d, f) BY DEF DecodeChunk
  <2> QED BY <1>1, <2>1, <2>2
<1>7. EndIn(f) = "" /\ f.f # "error" BY DEF EndIn
<1>8. Tells(w.loose, k, none, k) BY <1>1, TellsNone
<1>9. /\ w.up = "responses" /\ ResNow(said, top, x) /\ f.f # "error" /\ EndIn(f) = ""
      /\ DecodeChunk("responses", x.dec, f) = Decoded(x.dec, none)
      /\ Tells(w.loose, x.h, none, k) /\ Live(k)
      /\ r = ReadOne("responses", x.source, f) /\ Heard(k, r) /\ ~r.over /\ Unended(r)
      /\ Itemed(said, k.calls, r.calls, top) BY <1>1, <1>2, <1>3, <1>4, <1>5, <1>6, <1>7, <1>8
<1> QED BY ONLY <1>9, ResTells

\* words,
LEMMA ResWordsRead ==
  ASSUME NEW w, w.up = "responses", NEW said, NEW top, NEW x, ResNow(said, top, x),
         NEW f, f.f = "item_delta", f.kind \in {"think", "text"},
         NEW delta, WholeCall(delta), delta.d = f.kind, delta.body = f.body,
         NEW k, Follows(w.loose, x.h, delta, k), Live(k)
  PROVE  \E y : ResTold(w, x, f, said, top, k, y)
<1>1. PICK h, d, c : h = x.h /\ d = x.dec /\ c = x.source OBVIOUS
<1>2. /\ StoryIsSound(h) /\ Heard(h, c) /\ ~c.over /\ Unended(c) /\ DOMAIN c = CliFields
      /\ Itemed(said, h.calls, c.calls, top) /\ d.failed = FALSE BY <1>1 DEF ResNow, Calm, Heard
<1>3. PICK r : r = ReadOne("responses", c, f) OBVIOUS
<1>4. ItemTold(c, f, r) BY <1>2, <1>3, ItemTells
<1>5. Worded(h, delta, k) BY <1>1, <1>2, WordsAreWorded DEF Follows
<1>6. /\ DOMAIN r = CliFields /\ ~r.over /\ Unended(r) /\ r.calls = c.calls
      /\ Spoken(c, f.kind, f.body, r) BY <1>2, <1>4 DEF ItemTold, Unended
<1>7. k.calls = h.calls /\ Spoken(h, f.kind, f.body, k) BY <1>5 DEF Worded
<1>8. Heard(k, r) BY <1>2, <1>6, <1>7 DEF Heard, Spoken
<1>9. EndIn(f) = "" /\ f.f # "error" BY DEF EndIn
<1>12. PICK deltas : deltas = <<delta>> OBVIOUS
<1>10. DecodeChunk("responses", d, f) = Decoded(d, deltas)
  <2>0. DecodeChunk("responses", d, f) = decodeResponses(d, f) BY DEF DecodeChunk
  <2>1. CASE f.kind = "text"
    <3>1. delta = Text(f.body) BY <2>1 DEF WholeCall
    <3>2. decodeResponses(d, f) = Decoded(d, <<Text(f.body)>>)
      BY <1>2, <2>1, Zenon DEF decodeResponses
    <3> QED BY <1>12, <2>0, <3>1, <3>2, Zenon
  <2>2. CASE f.kind = "think"
    <3>1. delta = Thinking(f.body) BY <2>2 DEF WholeCall
    <3>2. decodeResponses(d, f) = Decoded(d, <<Thinking(f.body)>>)
      BY <1>2, <2>2, Zenon DEF decodeResponses
    <3> QED BY <1>12, <2>0, <3>1, <3>2, Zenon
  <2> QED BY <2>1, <2>2
<1>11. Itemed(said, k.calls, r.calls, top) BY <1>2, <1>6, <1>7
<1>13. Tells(w.loose, h, deltas, k) BY <1>1, <1>12, TellsOne
<1>14. /\ w.up = "responses" /\ ResNow(said, top, x) /\ f.f # "error" /\ EndIn(f) = ""
       /\ DecodeChunk("responses", x.dec, f) = Decoded(x.dec, deltas)
       /\ Tells(w.loose, x.h, deltas, k) /\ Live(k)
       /\ r = ReadOne("responses", x.source, f) /\ Heard(k, r) /\ ~r.over /\ Unended(r)
       /\ Itemed(said, k.calls, r.calls, top) BY <1>1, <1>3, <1>6, <1>8, <1>9, <1>10, <1>11, <1>13
<1> QED BY ONLY <1>14, ResTells

\* the item of a call
LEMMA ResCallRead ==
  ASSUME NEW w, w.up = "responses", NEW said, NEW top, NEW x, ResNow(said, top, x),
         NEW f, f.f = "item_added", f.kind = "call", NEW at, f.item = at, f.index = at,
         at \in Int, at <= top, at = CallBlock(said, Len(x.h.calls) + 1),
         NEW delta, delta = ToolCallStart(at, f.call),
         NEW k, Follows(w.loose, x.h, delta, k), Live(k)
  PROVE  \E y : ResTold(w, x, f, said, top, k, y)
<1>1. PICK h, d, c : h = x.h /\ d = x.dec /\ c = x.source OBVIOUS
<1>2. /\ StoryIsSound(h) /\ Heard(h, c) /\ ~c.over /\ Unended(c) /\ DOMAIN c = CliFields
      /\ Itemed(said, h.calls, c.calls, top) /\ d.failed = FALSE BY <1>1 DEF ResNow, Calm, Heard
<1>3. PICK tale, caught, n : tale = h.calls /\ caught = c.calls /\ n = Len(tale) OBVIOUS
<1>4. n \in Nat /\ Mirrors(caught, tale) BY <1>2, <1>3, SeqDomain DEF StoryIsSound, Heard
<1>5. PICK r : r = ReadOne("responses", c, f) OBVIOUS
<1>6. PICK here : here = [at |-> at, call |-> f.call, args |-> <<>>] OBVIOUS
<1>7. Intact(c, r) /\ r.calls = Append(caught, here)
  <2>1. DOMAIN c = CliFields /\ f.f = "item_added" /\ r = ReadOne("responses", c, f) BY <1>2, <1>5
  <2>2. Intact(c, r) BY ONLY <2>1, ItemAdds
  <2>3. f.kind = "call" => r.calls = Append(c.calls, [at |-> f.item, call |-> f.call, args |-> <<>>])
    BY ONLY <2>1, ItemAdds
  <2> QED BY <1>3, <1>6, <2>2, <2>3
<1>8. delta.d = "call" /\ delta.index = at /\ delta.call = f.call BY DEF ToolCallStart
<1>9. PICK new : new = [index |-> at, call |-> f.call, args |-> <<>>] OBVIOUS
<1>10. Called(h, delta, k) BY <1>1, <1>2, <1>8, CallIsCalled DEF Follows
<1>11. k.calls = Append(tale, new) /\ k.think = h.think /\ k.text = h.text
  BY <1>3, <1>8, <1>9, <1>10 DEF Called
<1>12. PICK more, other : more = k.calls /\ other = r.calls OBVIOUS
<1>13. IsHeardCall(here) /\ here.call = new.call /\ here.args = new.args /\ here.at = at
       /\ new.index = at BY <1>6, <1>9 DEF IsHeardCall
<1>14. /\ Mirrors(other, more) /\ Len(more) = Len(tale) + 1
       /\ (\A i \in 1..Len(tale) : other[i] = caught[i] /\ more[i] = tale[i])
       /\ other[Len(tale) + 1] = here /\ more[Len(tale) + 1] = new
  <2>1. /\ other = Append(caught, here) /\ more = Append(tale, new) /\ Mirrors(caught, tale)
        /\ IsHeardCall(here) /\ here.call = new.call /\ here.args = new.args
    BY <1>4, <1>7, <1>11, <1>12, <1>13
  <2>2. Mirrors(other, more) BY ONLY <2>1, MirrorOpens
  <2>3. Len(more) = Len(tale) + 1 BY ONLY <2>1, MirrorOpens
  <2>4. \A i \in 1..Len(tale) : other[i] = caught[i] /\ more[i] = tale[i]
    BY ONLY <2>1, MirrorOpens
  <2>5. other[Len(tale) + 1] = here BY ONLY <2>1, MirrorOpens
  <2>6. more[Len(tale) + 1] = new BY ONLY <2>1, MirrorOpens
  <2> QED BY <2>2, <2>3, <2>4, <2>5, <2>6
<1>15. Itemed(said, more, other, top)
  <2>1. /\ Itemed(said, tale, caught, top) /\ n \in Nat /\ at = CallBlock(said, n + 1)
        /\ at \in Int /\ at <= top /\ Len(tale) = n /\ Len(more) = n + 1
        /\ \A m \in 1..n : more[m] = tale[m] /\ other[m] = caught[m]
        /\ more[n + 1].index = at /\ other[n + 1].at = at BY <1>1, <1>2, <1>3, <1>4, <1>13, <1>14
  <2> QED BY ONLY <2>1, ItemedMore
<1>16. PICK deltas : deltas = <<delta>> OBVIOUS
<1>19. DecodeChunk("responses", d, f) = Decoded(d, deltas)
  <2>1. decodeResponses(d, f) = Decoded(d, <<ToolCallStart(f.index, f.call)>>)
    BY <1>2, Zenon DEF decodeResponses
  <2>2. ToolCallStart(f.index, f.call) = delta OBVIOUS
  <2>4. DecodeChunk("responses", d, f) = decodeResponses(d, f) BY DEF DecodeChunk
  <2> QED BY ONLY <1>16, <2>1, <2>2, <2>4
<1>20. EndIn(f) = "" /\ f.f # "error" BY DEF EndIn
<1>21. Heard(k, r) /\ ~r.over /\ Unended(r)
  BY <1>2, <1>7, <1>11, <1>12, <1>14 DEF Heard, Intact, Unended
<1>22. Tells(w.loose, h, deltas, k) BY <1>1, <1>16, TellsOne
<1>23. /\ w.up = "responses" /\ ResNow(said, top, x) /\ f.f # "error" /\ EndIn(f) = ""
       /\ DecodeChunk("responses", x.dec, f) = Decoded(x.dec, deltas)
       /\ Tells(w.loose, x.h, deltas, k) /\ Live(k)
       /\ r = ReadOne("responses", x.source, f) /\ Heard(k, r) /\ ~r.over /\ Unended(r)
       /\ Itemed(said, k.calls, r.calls, top)
  BY <1>1, <1>5, <1>12, <1>15, <1>19, <1>20, <1>21, <1>22
<1> QED BY ONLY <1>23, ResTells

\* and arguments of a call's item.
LEMMA ResArgsRead ==
  ASSUME NEW w, w.up = "responses", NEW said, NEW top, NEW x, ResNow(said, top, x),
         NEW f, f.f = "item_delta", f.kind = "args", IsSeq(f.body),
         NEW at, f.item = at, f.index = at, NEW delta, delta = ToolCallArgs(at, f.body),
         NEW k, Follows(w.loose, x.h, delta, k), Live(k)
  PROVE  \E y : ResTold(w, x, f, said, top, k, y)
<1>1. PICK h, d, c : h = x.h /\ d = x.dec /\ c = x.source OBVIOUS
<1>2. /\ StoryIsSound(h) /\ Heard(h, c) /\ ~c.over /\ Unended(c) /\ DOMAIN c = CliFields
      /\ Itemed(said, h.calls, c.calls, top) /\ d.failed = FALSE BY <1>1 DEF ResNow, Calm, Heard
<1>3. PICK tale, caught, n, body : /\ tale = h.calls /\ caught = c.calls /\ n = Len(tale)
                                  /\ body = f.body OBVIOUS
<1>4. /\ n \in Nat /\ Mirrors(caught, tale)
      /\ \A i \in 1..n : DOMAIN tale[i] = CallFields /\ IsSeq(tale[i].args)
  <2>1. IsSeq(tale) BY <1>2, <1>3 DEF StoryIsSound
  <2> QED BY <1>1, <1>2, <1>3, <2>1, SeqDomain DEF StoryIsSound, Heard
<1>6. \A i \in 1..n : caught[i].at = at <=> tale[i].index = at BY <1>2, <1>3 DEF Itemed
<1>7. PICK r : r = ReadOne("responses", c, f) OBVIOUS
<1>8. /\ DOMAIN r = CliFields /\ ~r.over /\ Unended(r) /\ r.calls = ArgsHeard(caught, at, body)
      /\ r.think = c.think /\ r.text = c.text
  <2>1. ItemTold(c, f, r) BY <1>2, <1>7, ItemTells
  <2> QED BY <1>2, <1>3, <2>1 DEF ItemTold, Spoken, Unended
<1>9. delta.d = "args" /\ delta.index = at /\ delta.body = body BY <1>3 DEF ToolCallArgs
<1>10. Argued(h, delta, k) BY <1>1, <1>2, <1>9, ArgsAreArgued DEF Follows
<1>11. k.calls = WithArgs(tale, at, body) /\ k.think = h.think /\ k.text = h.text
  BY <1>3, <1>9, <1>10 DEF Argued
<1>12. PICK more, other : more = k.calls /\ other = r.calls OBVIOUS
<1>13. Mirrors(other, more) /\ Len(more) = n /\ \A i \in 1..n : other[i].at = caught[i].at
  <2>0. IsSeq(body) BY <1>3
  <2>1. /\ Mirrors(caught, tale) /\ IsSeq(body)
        /\ \A i \in 1..Len(tale) : DOMAIN tale[i] = CallFields /\ IsSeq(tale[i].args)
        /\ \A i \in 1..Len(tale) : caught[i].at = at <=> tale[i].index = at
    BY <1>3, <1>4, <1>6, <2>0, Zenon
  <2>2. other = ArgsHeard(caught, at, body) /\ more = WithArgs(tale, at, body) BY <1>8, <1>11, <1>12
  <2>3. ArgsMirrored(caught, tale, other, more) BY ONLY <2>1, <2>2, MirrorArgued
  <2>4. Mirrors(other, more) /\ \A i \in 1..n : other[i].at = caught[i].at
    BY <1>3, <2>3 DEF ArgsMirrored
  <2>6. Len(more) = n
    <3>1. /\ IsSeq(tale) /\ IsSeq(body)
          /\ \A i \in 1..Len(tale) : DOMAIN tale[i] = CallFields /\ IsSeq(tale[i].args)
      BY <1>4, <2>1 DEF Mirrors
    <3>2. LET after == WithArgs(tale, at, body) IN Len(after) = Len(tale)
      BY ONLY <3>1, CallsAfterArgs
    <3> QED BY <1>3, <2>2, <3>2
  <2> QED BY <2>4, <2>6
<1>14. \A i \in 1..n : more[i].index = tale[i].index
  <2>1. /\ IsSeq(tale) /\ IsSeq(body)
        /\ \A i \in 1..Len(tale) : DOMAIN tale[i] = CallFields /\ IsSeq(tale[i].args)
    BY <1>3, <1>4 DEF Mirrors
  <2>2. LET after == WithArgs(tale, at, body) IN
        \A i \in 1..Len(tale) : after[i].index = tale[i].index BY ONLY <2>1, CallsAfterArgs
  <2> QED BY <1>3, <1>11, <1>12, <2>2
<1>15. Itemed(said, more, other, top)
  <2>1. /\ Itemed(said, tale, caught, top) /\ n = Len(tale) /\ Len(more) = n
        /\ \A i \in 1..n : more[i].index = tale[i].index /\ other[i].at = caught[i].at
    BY <1>2, <1>3, <1>13, <1>14
  <2> QED BY ONLY <2>1, ItemedSame
<1>16. PICK deltas : deltas = <<delta>> OBVIOUS
<1>17. DecodeChunk("responses", d, f) = Decoded(d, deltas)
  <2>1. decodeResponses(d, f) = Decoded(d, <<ToolCallArgs(f.index, f.body)>>)
    BY <1>2, Zenon DEF decodeResponses
  <2>2. ToolCallArgs(f.index, f.body) = delta OBVIOUS
  <2>4. DecodeChunk("responses", d, f) = decodeResponses(d, f) BY DEF DecodeChunk
  <2> QED BY ONLY <1>16, <2>1, <2>2, <2>4
<1>18. EndIn(f) = "" /\ f.f # "error" BY DEF EndIn
<1>19. Heard(k, r) /\ ~r.over /\ Unended(r) BY <1>2, <1>8, <1>11, <1>12, <1>13 DEF Heard
<1>20. Tells(w.loose, h, deltas, k) BY <1>1, <1>16, TellsOne
<1>21. /\ w.up = "responses" /\ ResNow(said, top, x) /\ f.f # "error" /\ EndIn(f) = ""
       /\ DecodeChunk("responses", x.dec, f) = Decoded(x.dec, deltas)
       /\ Tells(w.loose, x.h, deltas, k) /\ Live(k)
       /\ r = ReadOne("responses", x.source, f) /\ Heard(k, r) /\ ~r.over /\ Unended(r)
       /\ Itemed(said, k.calls, r.calls, top)
  BY <1>1, <1>7, <1>12, <1>15, <1>17, <1>18, <1>19, <1>20
<1> QED BY ONLY <1>21, ResTells

ResStage(w, plan_, i, x) ==
  ResNow(plan_.said, BlockIndex(plan_.said, i), x) /\ Talked(w.loose, plan_.said, i, x.h)

\* A bound on the items may be raised.
LEMMA ResTops ==
  ASSUME NEW said, NEW x, NEW top \in Int, NEW more \in Int, top <= more, ResNow(said, top, x)
  PROVE  ResNow(said, more, x)
<1>1. PICK tale, caught : tale = x.h.calls /\ caught = x.source.calls OBVIOUS
<1>2. Itemed(said, tale, caught, top) BY <1>1 DEF ResNow
<1>3. Itemed(said, tale, caught, more) BY <1>2, ItemedUp
<1> QED BY <1>1, <1>3 DEF ResNow

\* The frames of an utterance.
ResPieces(plan_, i, ix, u, added, part) ==
  /\ added.f = "item_added" /\ added.item = ix /\ added.index = ix /\ added.kind = u.kind
  /\ added.call = u.call
  /\ part.f = "item_delta" /\ part.item = ix /\ part.index = ix /\ part.kind = u.kind
  /\ part.body = <<Piece(plan_, i)>>

ResParts(plan_, i, ix, u, opens, added, part, s) ==
  /\ ResPieces(plan_, i, ix, u, added, part)
  /\ s = When(opens, <<added>>) \o When(u.kind # "call", <<part>>)

ItemIndex(said, i, u) == IF u.kind = "args" THEN CallBlock(said, u.call) ELSE BlockIndex(said, i)

\* The frames of an utterance: an item added and a delta.
LEMMA ResSaysIs ==
  ASSUME NEW plan_, NEW i, NEW u, u = plan_.said[i], NEW ix, ix = ItemIndex(plan_.said, i, u),
         NEW opens, opens = OpensBlock(plan_.said, i), NEW s, s = responsesSays(plan_, i)
  PROVE  \E added, part : ResParts(plan_, i, ix, u, opens, added, part, s)
<1>1. PICK body : body = <<Piece(plan_, i)>> OBVIOUS
<1>2. PICK added, part :
        /\ added = [f |-> "item_added", item |-> ix, index |-> ix, kind |-> u.kind, call |-> u.call]
        /\ part = [f |-> "item_delta", item |-> ix, index |-> ix, kind |-> u.kind, body |-> body]
  OBVIOUS
<1>3. ResPieces(plan_, i, ix, u, added, part) BY <1>1, <1>2 DEF ResPieces
<1>4. ix = IF u.kind = "args"
           THEN BlockIndex(plan_.said, CHOOSE j \in Calls(plan_.said) : plan_.said[j].call = u.call)
           ELSE BlockIndex(plan_.said, i) BY Zenon DEF ItemIndex, CallBlock, CallAt
<1>5. responsesSays(plan_, i) = When(opens, <<added>>) \o When(u.kind # "call", <<part>>)
  BY <1>1, <1>2, <1>4, Zenon DEF responsesSays
<1>6. ResParts(plan_, i, ix, u, opens, added, part, s) BY <1>3, <1>5, Zenon DEF ResParts
<1> QED BY <1>6

\* What may be told, by the item's index.
ResSaid(w, plan_, i, h, u, ix, delta, k) ==
  /\ Follows(w.loose, h, delta, k) /\ Talked(w.loose, plan_.said, i + 1, k) /\ Live(k)
  /\ WholeCall(delta) /\ delta = DeltaOf(plan_, i + 1, ix)
  /\ u.kind = "call" => u.call = Len(h.calls) + 1

ResMayUtter(w, plan_, i, h, u, ix) == \E delta, k : ResSaid(w, plan_, i, h, u, ix, delta, k)

\* Where the next item stands.
ResGoes(plan_, i, u, ix, at, top) ==
  /\ at \in Int /\ top \in Int /\ at <= top /\ i \in Nat /\ u \in Utterances
  /\ u.kind = "call" => ix = top /\ at < top /\ CallBlock(plan_.said, u.call) = ix

\* An utterance is of the item last added, or of its call's.
LEMMA ResPlaces ==
  ASSUME NEW plan_, WellTalked(plan_.said), NEW i \in 0..(Len(plan_.said) - 1),
         NEW u, u = plan_.said[i + 1], NEW ix, ix = ItemIndex(plan_.said, i + 1, u),
         NEW at, at = BlockIndex(plan_.said, i), NEW top, top = BlockIndex(plan_.said, i + 1)
  PROVE  ResGoes(plan_, i, u, ix, at, top)
<1>0. PICK said : said = plan_.said OBVIOUS
<1>1. /\ WellTalked(said) /\ u = said[i + 1] /\ at = BlockIndex(said, i)
      /\ top = BlockIndex(said, i + 1) /\ i \in 0..(Len(said) - 1) BY <1>0
<1>2. i \in Nat /\ u \in Utterances BY <1>1, OpenedSoFar
<1>3. /\ at \in Int /\ top \in Int /\ at <= top /\ (OpensBlock(said, i + 1) => at < top)
  <2>1. /\ BlockIndex(said, i) \in Int
        /\ OpensBlock(said, i + 1) => BlockIndex(said, i + 1) = BlockIndex(said, i) + 1
        /\ ~OpensBlock(said, i + 1) => BlockIndex(said, i + 1) = BlockIndex(said, i)
    BY <1>2, BlockIndexSteps
  <2> QED BY <1>1, <2>1
<1>4. u.kind = "call" => ix = top /\ at < top /\ CallBlock(said, u.call) = ix
  <2> SUFFICES ASSUME u.kind = "call"
               PROVE  ix = top /\ at < top /\ CallBlock(said, u.call) = ix OBVIOUS
  <2>1. OpensBlock(said, i + 1) BY <1>1 DEF OpensBlock
  <2>2. ix = top BY <1>0, <1>1 DEF ItemIndex
  <2>3. CallAt(said, u.call) = i + 1 BY <1>1, CallIsAt
  <2> QED BY <1>1, <1>3, <2>1, <2>2, <2>3 DEF CallBlock
<1> QED BY <1>0, <1>2, <1>3, <1>4 DEF ResGoes

\* A Responses upstream's next utterance is one the story allows.
LEMMA ResUtters ==
  ASSUME NEW plan_, PlanIsSound("responses", plan_), NEW w, w.loose \/ ~Interleaved(plan_.said),
         NEW i \in 0..(Len(plan_.said) - 1), NEW x, ResStage(w, plan_, i, x),
         NEW u, u = plan_.said[i + 1], NEW h, h = x.h,
         NEW ix, ix = ItemIndex(plan_.said, i + 1, u), NEW at, at = BlockIndex(plan_.said, i),
         NEW top, ResGoes(plan_, i, u, ix, at, top)
  PROVE  ResMayUtter(w, plan_, i, h, u, ix)
<1>1. PICK said, loose, n : said = plan_.said /\ loose = w.loose /\ n = Len(h.calls) OBVIOUS
<1>2. WellTalked(said) /\ (loose \/ ~Interleaved(said)) BY <1>1 DEF PlanIsSound
<1>3. u \in Utterances BY DEF ResGoes
<1>4. Live(h) /\ Talked(loose, said, i, h) BY <1>1 DEF ResStage, ResNow, Calm, Live
<1>5. n \in Nat /\ IsSeq(h.calls) BY <1>1, <1>4, LiveCalls
<1>6. \A m \in 1..n : /\ h.calls[m].index = CallBlock(said, m) /\ CallBlock(said, m) \in Int
                      /\ CallBlock(said, m) <= at BY <1>1 DEF ResStage, ResNow, Itemed
<1>7. u.kind = "args" => ix = h.calls[u.call].index
  <2> SUFFICES ASSUME u.kind = "args" PROVE ix = h.calls[u.call].index OBVIOUS
  <2>1. ArgsNext(loose, said, i, h) BY <1>1, <1>2, <1>4, <1>5 DEF ArgsNext
  <2>4. ArgsPlaced(loose, said, i, h) BY ONLY <2>1, ArgsPlace
  <2>2. said[i + 1].call \in 1..Len(h.calls) BY <2>4 DEF ArgsPlaced
  <2>3. ix = CallBlock(said, u.call) BY <1>1 DEF ItemIndex
  <2> QED BY <1>1, <1>6, <2>2, <2>3
<1>8. u.kind = "call" => \A m \in 1..n : h.calls[m].index # ix
  <2> SUFFICES ASSUME u.kind = "call", NEW m \in 1..n PROVE h.calls[m].index # ix OBVIOUS
  <2>1. ix = top /\ at < top /\ at \in Int /\ top \in Int BY DEF ResGoes
  <2>2. PICK b : b = CallBlock(said, m) OBVIOUS
  <2>3. h.calls[m].index = b /\ b \in Int /\ b <= at BY <1>6, <2>2
  <2>4. b # ix BY <2>1, <2>3
  <2> QED BY <2>3, <2>4
<1>11. PICK delta : delta = DeltaOf(plan_, i + 1, ix) OBVIOUS
<1>12. PICK k : k = After(h, delta) OBVIOUS
<1>13. Uttered(loose, said, i, h, u, ix, delta, k)
  <2>1. /\ said = plan_.said /\ WellTalked(said) /\ (loose \/ ~Interleaved(said))
        /\ i \in 0..(Len(said) - 1) /\ Live(h) /\ Talked(loose, said, i, h) /\ u = said[i + 1]
        /\ (u.kind = "call" => \A m \in 1..Len(h.calls) : h.calls[m].index # ix)
        /\ (u.kind = "args" => ix = h.calls[u.call].index)
        /\ delta = DeltaOf(plan_, i + 1, ix) /\ k = After(h, delta)
    BY <1>1, <1>2, <1>4, <1>7, <1>8, <1>11, <1>12
  <2> QED BY ONLY <2>1, TalkDelta
<1>14. ResSaid(w, plan_, i, h, u, ix, delta, k) BY <1>1, <1>11, <1>13 DEF Uttered, ResSaid
<1> QED BY <1>14 DEF ResMayUtter

ResWent(w, plan_, i, x, s, y) == Leads(w, x, s, y) /\ ResStage(w, plan_, i, y)

\* A call is told by its frames,
LEMMA ResCallSaid ==
  ASSUME NEW plan_, NEW w, w.up = "responses", NEW i, NEW u, u = plan_.said[i + 1], u.kind = "call",
         NEW ix, NEW at, NEW top, top = BlockIndex(plan_.said, i + 1), ResGoes(plan_, i, u, ix, at, top),
         NEW x, ResNow(plan_.said, top, x),
         NEW added, NEW part, ResPieces(plan_, i + 1, ix, u, added, part),
         NEW delta, NEW k, ResSaid(w, plan_, i, x.h, u, ix, delta, k)
  PROVE  \E y : ResWent(w, plan_, i + 1, x, <<added>>, y)
<1>1. /\ added.f = "item_added" /\ added.kind = "call" /\ added.index = ix /\ added.item = ix
      /\ added.call = u.call BY DEF ResPieces
<1>2. /\ Follows(w.loose, x.h, delta, k) /\ Live(k) /\ Talked(w.loose, plan_.said, i + 1, k)
      /\ u.call = Len(x.h.calls) + 1 BY DEF ResSaid
<1>3. ix = top /\ top \in Int /\ CallBlock(plan_.said, u.call) = ix BY DEF ResGoes
<1>4. delta = ToolCallStart(ix, added.call)
  <2>1. PICK v : v = plan_.said[i + 1] OBVIOUS
  <2>2. delta = DeltaOf(plan_, i + 1, ix) BY DEF ResSaid
  <2>3. DeltaOf(plan_, i + 1, ix) = ToolCallStart(ix, v.call)
    <3>1. v.kind = "call" BY <2>1
    <3> QED BY <2>1, <3>1, Zenon DEF DeltaOf
  <2> QED BY <1>1, <2>1, <2>2, <2>3
<1>5. PICK said : said = plan_.said OBVIOUS
<1>6. \E y : ResTold(w, x, added, said, top, k, y)
  <2>0. ix <= top BY <1>3
  <2>1. /\ w.up = "responses" /\ ResNow(said, top, x) /\ added.f = "item_added"
        /\ added.kind = "call" /\ added.item = ix /\ added.index = ix /\ ix \in Int /\ ix <= top
        /\ ix = CallBlock(said, Len(x.h.calls) + 1) /\ delta = ToolCallStart(ix, added.call)
        /\ Follows(w.loose, x.h, delta, k) /\ Live(k) BY <1>1, <1>2, <1>3, <1>4, <1>5, <2>0
  <2> QED BY ONLY <2>1, ResCallRead
<1>7. PICK y : ResTold(w, x, added, said, top, k, y) BY <1>6
<1>8. Leads(w, x, <<added>>, y) BY <1>7, LeadsOne DEF ResTold
<1>9. ResStage(w, plan_, i + 1, y) BY <1>2, <1>5, <1>7 DEF ResTold, ResStage
<1> QED BY <1>8, <1>9 DEF ResWent

\* and so is an utterance that is not a call.
LEMMA ResPartSaid ==
  ASSUME NEW plan_, NEW w, w.up = "responses", NEW i, NEW u, u = plan_.said[i + 1],
         u \in Utterances, u.kind # "call", NEW ix, NEW top, top = BlockIndex(plan_.said, i + 1),
         NEW x, ResNow(plan_.said, top, x),
         NEW added, NEW part, ResPieces(plan_, i + 1, ix, u, added, part),
         NEW delta, NEW k, ResSaid(w, plan_, i, x.h, u, ix, delta, k)
  PROVE  \E y : ResWent(w, plan_, i + 1, x, <<part>>, y)
<1>1. /\ part.f = "item_delta" /\ part.kind = u.kind /\ part.index = ix /\ part.item = ix
      /\ part.body = <<Piece(plan_, i + 1)>> BY DEF ResPieces
<1>2. /\ Follows(w.loose, x.h, delta, k) /\ Live(k) /\ Talked(w.loose, plan_.said, i + 1, k)
      /\ WholeCall(delta) /\ delta = DeltaOf(plan_, i + 1, ix) BY DEF ResSaid
<1>3. PICK said, j : said = plan_.said /\ j = i + 1 OBVIOUS
<1>5. u.kind \in TalkKinds BY UtteranceIs
<1>6. /\ delta.d = u.kind /\ delta.body = part.body /\ IsSeq(part.body)
  <2>1. u = plan_.said[j] /\ u \in Utterances /\ delta = DeltaOf(plan_, j, ix) BY <1>2, <1>3
  <2>2. delta.d = u.kind BY ONLY <2>1, DeltaIs
  <2>3. u.kind \in {"think", "text", "args"} =>
          delta.body = <<Piece(plan_, j)>> /\ IsSeq(delta.body) /\ delta.body # <<>>
    BY ONLY <2>1, DeltaIs
  <2>4. u.kind \in {"think", "text", "args"} BY <1>5 DEF TalkKinds
  <2> QED BY <1>1, <1>3, <2>2, <2>3, <2>4
<1>8. \E y : ResTold(w, x, part, said, top, k, y)
  <2>1. CASE u.kind \in {"think", "text"}
    <3>1. /\ w.up = "responses" /\ ResNow(said, top, x) /\ part.f = "item_delta"
          /\ part.kind \in {"think", "text"} /\ WholeCall(delta) /\ delta.d = part.kind
          /\ delta.body = part.body /\ Follows(w.loose, x.h, delta, k) /\ Live(k)
      BY <1>1, <1>2, <1>3, <1>6, <2>1
    <3> QED BY ONLY <3>1, ResWordsRead
  <2>2. CASE u.kind = "args"
    <3>1. delta = ToolCallArgs(ix, part.body)
      <4>1. PICK v : v = plan_.said[i + 1] OBVIOUS
      <4>2. v.kind = "args" BY <2>2, <4>1
      <4>3. DeltaOf(plan_, i + 1, ix) = ToolCallArgs(ix, <<Piece(plan_, i + 1)>>)
        BY <4>1, <4>2, Zenon DEF DeltaOf
      <4> QED BY <1>1, <1>2, <4>3
    <3>2. /\ w.up = "responses" /\ ResNow(said, top, x) /\ part.f = "item_delta"
          /\ part.kind = "args" /\ IsSeq(part.body) /\ part.item = ix /\ part.index = ix
          /\ delta = ToolCallArgs(ix, part.body)
          /\ Follows(w.loose, x.h, delta, k) /\ Live(k) BY <1>1, <1>2, <1>3, <1>6, <2>2, <3>1
    <3> QED BY ONLY <3>2, ResArgsRead
  <2> QED BY <1>5, <2>1, <2>2 DEF TalkKinds
<1>9. PICK y : ResTold(w, x, part, said, top, k, y) BY <1>8
<1>10. Leads(w, x, <<part>>, y) BY <1>9, LeadsOne DEF ResTold
<1>11. ResStage(w, plan_, i + 1, y) BY <1>2, <1>3, <1>9 DEF ResTold, ResStage
<1> QED BY <1>10, <1>11 DEF ResWent

\* A Responses upstream's next utterance is one the story follows.
LEMMA ResUpSays ==
  ASSUME NEW plan_, PlanIsSound("responses", plan_), NEW w, w.up = "responses",
         w.loose \/ ~Interleaved(plan_.said),
         NEW i \in 0..(Len(plan_.said) - 1), NEW x, ResStage(w, plan_, i, x),
         NEW s, s = responsesSays(plan_, i + 1)
  PROVE  \E y : Leads(w, x, s, y) /\ ResStage(w, plan_, i + 1, y)
<1>1. PICK u, at, top, opens, said, h : /\ u = plan_.said[i + 1] /\ at = BlockIndex(plan_.said, i)
                              /\ top = BlockIndex(plan_.said, i + 1)
                              /\ opens = OpensBlock(plan_.said, i + 1)
                              /\ said = plan_.said /\ h = x.h OBVIOUS
<1>2. PICK ix : ix = ItemIndex(plan_.said, i + 1, u) OBVIOUS
<1>3. opens \in BOOLEAN /\ (opens <=> OpensBlock(plan_.said, i + 1)) BY <1>1 DEF OpensBlock
<1>4. PICK added, part : ResParts(plan_, i + 1, ix, u, opens, added, part, s)
  <2>1. PICK j : j = i + 1 OBVIOUS
  <2>2. /\ u = plan_.said[j] /\ ix = ItemIndex(plan_.said, j, u) /\ opens = OpensBlock(plan_.said, j)
        /\ s = responsesSays(plan_, j) BY <1>1, <1>2, <2>1
  <2>3. \E added, part : ResParts(plan_, j, ix, u, opens, added, part, s) BY ONLY <2>2, ResSaysIs
  <2> QED BY <2>1, <2>3
<1>5. ResGoes(plan_, i, u, ix, at, top)
  <2>1. WellTalked(plan_.said) BY DEF PlanIsSound
  <2>2. /\ WellTalked(plan_.said) /\ i \in 0..(Len(plan_.said) - 1) /\ u = plan_.said[i + 1]
        /\ ix = ItemIndex(plan_.said, i + 1, u) /\ at = BlockIndex(plan_.said, i)
        /\ top = BlockIndex(plan_.said, i + 1) BY <1>1, <1>2, <2>1
  <2> QED BY ONLY <2>2, ResPlaces
<1>6. ResMayUtter(w, plan_, i, h, u, ix)
  <2>1. /\ PlanIsSound("responses", plan_) /\ (w.loose \/ ~Interleaved(plan_.said))
        /\ i \in 0..(Len(plan_.said) - 1) /\ ResStage(w, plan_, i, x) /\ u = plan_.said[i + 1]
        /\ h = x.h /\ ix = ItemIndex(plan_.said, i + 1, u) /\ at = BlockIndex(plan_.said, i)
        /\ ResGoes(plan_, i, u, ix, at, top) BY <1>1, <1>2, <1>5
  <2> QED BY ONLY <2>1, ResUtters
<1>7. PICK delta, k : ResSaid(w, plan_, i, h, u, ix, delta, k) BY <1>6 DEF ResMayUtter
<1>8. ResNow(said, top, x)
  <2>1. ResNow(said, at, x) BY <1>1 DEF ResStage
  <2>2. at \in Int /\ top \in Int /\ at <= top BY <1>5 DEF ResGoes
  <2> QED BY <2>1, <2>2, ResTops
<1>9. PICK s1, s2 : s1 = When(opens, <<added>>) /\ s2 = When(u.kind # "call", <<part>>) OBVIOUS
<1>10. s = s1 \o s2 BY <1>4, <1>9, Zenon DEF ResParts
<1>11. ResPieces(plan_, i + 1, ix, u, added, part) BY <1>4 DEF ResParts
<1>12. u \in Utterances BY <1>5 DEF ResGoes
<1>13. CASE u.kind = "call"
  <2>1. opens BY <1>1, <1>3, <1>13 DEF OpensBlock
  <2>2. s1 = <<added>> BY <1>9, <2>1, Zenon DEF When
  <2>3. s2 = <<>> BY <1>9, <1>13, Zenon DEF When
  <2>4. \E y : ResWent(w, plan_, i + 1, x, <<added>>, y)
    <3>1. /\ w.up = "responses" /\ u = plan_.said[i + 1] /\ u.kind = "call"
          /\ top = BlockIndex(plan_.said, i + 1) /\ ResGoes(plan_, i, u, ix, at, top)
          /\ ResNow(plan_.said, top, x) /\ ResPieces(plan_, i + 1, ix, u, added, part)
          /\ ResSaid(w, plan_, i, x.h, u, ix, delta, k) BY <1>1, <1>5, <1>7, <1>8, <1>11, <1>13
    <3> QED BY ONLY <3>1, ResCallSaid
  <2>5. PICK y : ResWent(w, plan_, i + 1, x, <<added>>, y) BY <2>4
  <2>6. Leads(w, x, s1, y) /\ ResStage(w, plan_, i + 1, y) BY <2>2, <2>5 DEF ResWent
  <2>7. Leads(w, y, s2, y) BY <2>3, LeadsNone
  <2> QED BY <1>10, <2>6, <2>7, LeadsCat
<1>14. CASE u.kind # "call"
  <2>1. \E y : Leads(w, x, s1, y) /\ ResNow(said, top, y) /\ y.h = h
    <3>1. CASE opens
      <4>1. s1 = <<added>> BY <1>9, <3>1, Zenon DEF When
      <4>2. added.f = "item_added" /\ added.kind # "call" BY <1>11, <1>14 DEF ResPieces
      <4>3. PICK y : ResTold(w, x, added, said, top, h, y) BY <1>1, <1>8, <4>2, ResAddRead
      <4>4. Leads(w, x, <<added>>, y) BY <4>3, LeadsOne DEF ResTold
      <4> QED BY <4>1, <4>3, <4>4 DEF ResTold
    <3>2. CASE ~opens
      <4>1. s1 = <<>> BY <1>9, <3>2, Zenon DEF When
      <4>2. Leads(w, x, s1, x) BY <4>1, LeadsNone
      <4> QED BY <1>1, <1>8, <4>2
    <3> QED BY <1>3, <3>1, <3>2
  <2>2. PICK y : Leads(w, x, s1, y) /\ ResNow(said, top, y) /\ y.h = h BY <2>1
  <2>3. s2 = <<part>> BY <1>9, <1>14, Zenon DEF When
  <2>4. \E z : ResWent(w, plan_, i + 1, y, <<part>>, z)
    <3>1. /\ w.up = "responses" /\ u = plan_.said[i + 1] /\ u \in Utterances /\ u.kind # "call"
          /\ top = BlockIndex(plan_.said, i + 1) /\ ResNow(plan_.said, top, y)
          /\ ResPieces(plan_, i + 1, ix, u, added, part)
          /\ ResSaid(w, plan_, i, y.h, u, ix, delta, k) BY <1>1, <1>7, <1>11, <1>12, <1>14, <2>2
    <3> QED BY ONLY <3>1, ResPartSaid
  <2>5. PICK z : ResWent(w, plan_, i + 1, y, <<part>>, z) BY <2>4
  <2>6. Leads(w, y, s2, z) /\ ResStage(w, plan_, i + 1, z) BY <2>3, <2>5 DEF ResWent
  <2> QED BY <1>10, <2>2, <2>6, LeadsCat
<1> QED BY <1>13, <1>14

\* It starts with response.created.
LEMMA ResFirst ==
  ASSUME NEW plan_, NEW w, w.up = "responses", NEW x, x = AtFirst, NEW f, f.f = "created"
  PROVE  \E y : Leads(w, x, <<f>>, y) /\ ResStage(w, plan_, 0, y)
<1>1. PICK d, h, c, loose, none : /\ d = x.dec /\ h = x.h /\ c = x.source /\ loose = w.loose
                                  /\ none = <<>> OBVIOUS
<1>2. Calm(x) /\ ~x.h.begun /\ x.h.calls = none BY <1>1, BegunCalm
<1>3. /\ DOMAIN d = DOMAIN NewDecoder /\ d.started = FALSE /\ d.done = FALSE
      /\ d.completed = FALSE /\ d.failed = FALSE /\ Unended(c)
  BY <1>1 DEF AtFirst, NewDecoder, NewClient, Unended
<1>4. StoryIsSound(h) /\ Heard(h, c) /\ ~h.done /\ ~h.begun /\ ~c.over /\ DOMAIN c = CliFields
  BY <1>1, <1>2 DEF Calm, Heard
<1>5. PICK started : started = FALSE OBVIOUS
<1>6. PICK k : Outset(h, k) /\ Tells(loose, h, When(~started, <<Start>>), k)
  <2>1. started \in BOOLEAN /\ (started <=> h.begun) BY <1>4, <1>5
  <2> QED BY <1>4, <2>1, TellsStart
<1>7. PICK deltas : deltas = <<Start>> OBVIOUS
<1>8. When(~started, <<Start>>) = deltas BY <1>5, <1>7, Zenon DEF When
<1>9. PICK state : state = [d EXCEPT !.started = TRUE] OBVIOUS
<1>11. /\ DOMAIN state = DOMAIN NewDecoder /\ state.started = TRUE /\ state.done = FALSE
       /\ state.completed = FALSE /\ state.failed = FALSE BY <1>3, <1>9 DEF NewDecoder
<1>12. DecodeChunk("responses", d, f) = Decoded(state, deltas)
  <2>1. decodeResponses(d, f) = Decoded(state, When(~d.started, <<Start>>))
    BY <1>3, <1>9, Zenon DEF decodeResponses
  <2>2. When(~d.started, <<Start>>) = deltas BY <1>3, <1>7, Zenon DEF When
  <2>3. DecodeChunk("responses", d, f) = decodeResponses(d, f) BY DEF DecodeChunk
  <2> QED BY <2>1, <2>2, <2>3
<1>13. PICK r : r = ReadOne("responses", c, f) OBVIOUS
<1>14. Intact(c, r) /\ r.calls = c.calls
  <2>1. ResponseBegun(c, r) BY <1>4, <1>13, CreatedIsRead
  <2> QED BY <2>1 DEF ResponseBegun
<1>15. StoryIsSound(k) /\ k.begun /\ ~k.done /\ k.calls = h.calls BY <1>4, <1>6 DEF Outset
<1>16. Heard(k, r) /\ ~r.over /\ Unended(r)
  BY <1>3, <1>4, <1>6, <1>14 DEF Heard, Outset, Intact, Unended
<1>17. f.f # "error" /\ EndIn(f) = "" BY DEF EndIn
<1>18. Quiet(state, k) BY <1>11, <1>15 DEF Quiet
<1>19. \E y : Reached(w, x, f, state, k, r, y)
  <2>1. /\ Calm(x) /\ f.f # "error" /\ EndIn(f) = ""
        /\ DecodeChunk(w.up, x.dec, f) = Decoded(state, deltas) /\ Tells(w.loose, x.h, deltas, k)
        /\ StoryIsSound(k) /\ ~k.done /\ Quiet(state, k)
        /\ r = ReadOne(w.up, x.source, f) /\ Heard(k, r) /\ ~r.over
    BY <1>1, <1>2, <1>6, <1>8, <1>12, <1>13, <1>15, <1>16, <1>17, <1>18
  <2> QED BY ONLY <2>1, QuietRead
<1>20. PICK y : Reached(w, x, f, state, k, r, y) BY <1>19
<1>21. Calm(y) /\ y.dec = state /\ y.h = k /\ y.source = r BY <1>20 DEF Reached
<1>22. PICK at : at = BlockIndex(plan_.said, 0) OBVIOUS
<1>24. Itemed(plan_.said, k.calls, r.calls, at)
  <2>1. PICK said, tale, caught : said = plan_.said /\ tale = k.calls /\ caught = r.calls OBVIOUS
  <2>2. tale = <<>> BY <1>1, <1>2, <1>15, <2>1
  <2>3. Itemed(said, tale, caught, at) BY ONLY <2>2, ItemedNone
  <2> QED BY <2>1, <2>3
<1>25. ResNow(plan_.said, at, y) BY <1>11, <1>15, <1>16, <1>21, <1>24 DEF ResNow
<1>26. Talked(w.loose, plan_.said, 0, y.h)
  <2>1. PICK said, g : said = plan_.said /\ g = y.h OBVIOUS
  <2>2. g.calls = <<>> BY <1>1, <1>2, <1>15, <1>21, <2>1
  <2>3. Talked(loose, said, 0, g) BY ONLY <2>2, TalkedNone
  <2> QED BY <1>1, <2>1, <2>3
<1>27. ResStage(w, plan_, 0, y) BY <1>22, <1>25, <1>26 DEF ResStage
<1> QED BY <1>20, <1>27, LeadsOne DEF Reached

\* The counts a frame states are told, or nothing is.
Counting(deltas) == deltas = <<>> \/ \E u : deltas = <<UsageOf(u)>>

CountsTold(d, step, state, deltas) ==
  /\ step = Decoded(state, deltas) /\ Counting(deltas)
  /\ DOMAIN state = DOMAIN NewDecoder /\ state.done = d.done /\ state.failed = d.failed

\* Usage is not of the story.
LEMMA CountingTells ==
  ASSUME NEW loose, NEW h, NEW deltas, Counting(deltas)
  PROVE  Tells(loose, h, deltas, h)
<1>1. CASE deltas = <<>> BY <1>1, TellsNone
<1>2. ASSUME NEW u, deltas = <<UsageOf(u)>> PROVE Tells(loose, h, deltas, h)
  <2>1. PICK x : x = UsageOf(u) OBVIOUS
  <2>2. x.d = "usage" BY <2>1 DEF UsageOf
  <2>3. Follows(loose, h, x, h) BY <2>2 DEF Follows, Allowed, After
  <2>4. Tells(loose, h, <<x>>, h) BY <2>3, TellsOne
  <2> QED BY <1>2, <2>1, <2>4
<1> QED BY <1>1, <1>2 DEF Counting

\* withUsage tells usage and nothing else.
LEMMA UsageIsTold ==
  ASSUME NEW d, DOMAIN d = DOMAIN NewDecoder, NEW f, NEW step, step = withUsage(d, f)
  PROVE  \E state, deltas : CountsTold(d, step, state, deltas)
<1>1. PICK u : u = Merge(d.usage, Judged(OpenAIUsage(f.usage))) OBVIOUS
<1>2. PICK weighed : weighed = [u EXCEPT !.invalid = IsIncoherentMidStream(u)] OBVIOUS
<1>3. PICK more : more = [d EXCEPT !.usage = weighed, !.told = TRUE] OBVIOUS
<1>4. PICK none, one : none = <<>> /\ one = <<UsageOf(weighed)>> OBVIOUS
<1>5. step = IF f.usage = Null THEN Decoded(d, none)
             ELSE IF d.told /\ u = d.usage THEN Decoded(d, none) ELSE Decoded(more, one)
  BY <1>1, <1>2, <1>3, <1>4, Zenon DEF withUsage
<1>6. step = Decoded(d, none) \/ step = Decoded(more, one) BY <1>5, Zenon
<1>7. Counting(none) /\ Counting(one)
  <2>1. Counting(none) BY <1>4 DEF Counting
  <2>2. Counting(one) BY <1>4, Zenon DEF Counting
  <2> QED BY <2>1, <2>2
<1>8. DOMAIN more = DOMAIN NewDecoder /\ more.done = d.done /\ more.failed = d.failed
  BY <1>3 DEF NewDecoder
<1>9. step = Decoded(d, none) => CountsTold(d, step, d, none) BY <1>7 DEF CountsTold
<1>10. step = Decoded(more, one) => CountsTold(d, step, more, one) BY <1>7, <1>8 DEF CountsTold
<1> QED BY <1>6, <1>9, <1>10
----------------------------------------
(* What follows the utterances: an end, perhaps more of them, or an error. *)

ResServed(x) ==
  /\ x.stated = "ended" /\ x.h.done /\ x.dec.done = TRUE /\ x.dec.failed = FALSE
  /\ EndClass(x.source.end) = EndClass(x.h.reason)

ResLost(x) == x.stated = "failed" /\ ~x.h.done /\ x.dec.failed = TRUE

ResOver(x) ==
  /\ StoryIsSound(x.h) /\ Heard(x.h, x.source) /\ x.source.over
  /\ DOMAIN x.dec = DOMAIN NewDecoder
  /\ ResServed(x) \/ ResLost(x)

\* A Responses upstream that ended agrees with its client,
LEMMA ResOverAgrees ==
  ASSUME NEW w, w.up = "responses", NEW x, ResOver(x)
  PROVE  Agrees(w, x)
<1>1. CASE ResServed(x) BY <1>1 DEF ResOver, ResServed, Agrees, Heard
<1>2. CASE ResLost(x) BY <1>2 DEF ResOver, ResLost, Agrees, Heard
<1> QED BY <1>1, <1>2 DEF ResOver

ResCloses(w, x, f, y) == Reads(w, x, f, y) /\ ResOver(y)

\* and another end changes nothing.
LEMMA ResOverRead ==
  ASSUME NEW w, w.up = "responses", NEW x, ResOver(x), NEW f, f.f = "ended"
  PROVE  \E y : ResCloses(w, x, f, y)
<1>1. PICK d, h, c, none : d = x.dec /\ h = x.h /\ c = x.source /\ none = <<>> OBVIOUS
<1>2. \E state, deltas : CountsTold(d, DecodeChunk("responses", d, f), state, deltas)
  <2>1. DecodeChunk("responses", d, f) = decodeResponses(d, f) BY DEF DecodeChunk
  <2>2. CASE ResServed(x)
    <3>1. d.done = TRUE /\ d.failed = FALSE /\ DOMAIN d = DOMAIN NewDecoder
      BY <1>1, <2>2 DEF ResServed, ResOver
    <3>2. PICK step : step = withUsage(d, f) OBVIOUS
    <3>3. decodeResponses(d, f) = withTerminal(step, f) BY <3>1, <3>2, Zenon DEF decodeResponses
    <3>4. PICK state, deltas : CountsTold(d, step, state, deltas) BY <3>1, <3>2, UsageIsTold
    <3>5. step.state = state
      <4>1. \A a, b : Decoded(a, b).state = a BY DEF Decoded
      <4>2. step = Decoded(state, deltas) BY <3>4 DEF CountsTold
      <4> QED BY ONLY <4>1, <4>2
    <3>6. step.state.done BY <3>1, <3>4, <3>5 DEF CountsTold
    <3>7. withTerminal(step, f) = step BY <3>6, Zenon DEF withTerminal
    <3> QED BY <2>1, <3>3, <3>4, <3>7
  <2>3. CASE ResLost(x)
    <3>1. d.failed = TRUE /\ DOMAIN d = DOMAIN NewDecoder BY <1>1, <2>3 DEF ResLost, ResOver
    <3>2. decodeResponses(d, f) = Decoded(d, none) BY <1>1, <3>1, Zenon DEF decodeResponses
    <3>3. CountsTold(d, Decoded(d, none), d, none) BY <1>1, <3>1 DEF CountsTold, Counting
    <3> QED BY <2>1, <3>2, <3>3
  <2> QED BY <2>2, <2>3 DEF ResOver
<1>3. PICK step : step = DecodeChunk(w.up, x.dec, f) OBVIOUS
<1>4. PICK state, deltas : CountsTold(d, step, state, deltas) BY <1>1, <1>2, <1>3
<1>5. step.state = state /\ step.deltas = deltas
  <2>1. \A a, b : Decoded(a, b).state = a /\ Decoded(a, b).deltas = b BY DEF Decoded
  <2>2. step = Decoded(state, deltas) BY <1>4 DEF CountsTold
  <2> QED BY ONLY <2>1, <2>2
<1>6. PICK y : y = [dec |-> state, h |-> h, source |-> c, stated |-> x.stated] OBVIOUS
<1>7. y.dec = state /\ y.h = h /\ y.source = c /\ y.stated = x.stated BY <1>6
<1>8. ResOver(y) BY <1>1, <1>4, <1>7 DEF ResOver, ResServed, ResLost, CountsTold
<1>9. Tells(w.loose, h, deltas, h) BY <1>4, CountingTells DEF CountsTold
<1>10. x.stated # "" /\ x.source.over BY DEF ResOver, ResServed, ResLost
<1>11. Agrees(w, y) BY <1>8, ResOverAgrees
<1>12. Reads(w, x, f, y) BY <1>1, <1>3, <1>5, <1>7, <1>9, <1>10, <1>11 DEF Reads
<1> QED BY <1>8, <1>12 DEF ResCloses

\* The frame that ends an answer.
ResEnds(f) ==
  /\ f.f = "ended" /\ f.status \in {"completed", "incomplete", "failed"}
  /\ f.status = "incomplete" => f.reason \in {"max_output_tokens", "content_filter"}

EndReason(f) ==
  IF f.status = "incomplete" THEN normalizeResponsesIncompleteReason(f.reason) ELSE "stop"

\* The reason of an end is of the kind of the end.
LEMMA EndReasons ==
  ASSUME NEW f, ResEnds(f), f.status # "failed", NEW end,
         end = IF f.status = "incomplete" THEN f.reason ELSE f.status,
         NEW reason, reason = EndReason(f)
  PROVE  reason \in Reasons /\ EndClass(end) = EndClass(reason)
<1>1. CASE f.status = "completed"
  <2>1. end = "completed" /\ reason = "stop" BY <1>1 DEF EndReason
  <2> QED BY <2>1 DEF Reasons, EndClass
<1>2. CASE f.status = "incomplete" /\ f.reason = "max_output_tokens"
  <2>1. end = "max_output_tokens" /\ reason = "length"
    BY <1>2 DEF EndReason, normalizeResponsesIncompleteReason
  <2> QED BY <2>1 DEF Reasons, EndClass
<1>3. CASE f.status = "incomplete" /\ f.reason = "content_filter"
  <2>1. end = "content_filter" /\ reason = "content_filter"
    BY <1>3 DEF EndReason, normalizeResponsesIncompleteReason
  <2> QED BY <2>1 DEF Reasons, EndClass
<1> QED BY <1>1, <1>2, <1>3 DEF ResEnds

\* What the decoder makes of it.
EndDecoded(d, f, state, deltas) ==
  /\ DecodeChunk("responses", d, f) = Decoded(state, deltas)
  /\ DOMAIN state = DOMAIN NewDecoder

ServesEnd(f, state, deltas, early) ==
  /\ state.done = TRUE /\ state.failed = FALSE /\ Counting(early)
  /\ deltas = early \o <<Done(EndReason(f))>>

\* An end completed or incomplete stops the story;
LEMMA EndIsServed ==
  ASSUME NEW d, DOMAIN d = DOMAIN NewDecoder, d.done = FALSE, d.failed = FALSE,
         NEW f, f.f = "ended", f.status \in {"completed", "incomplete"}
  PROVE  \E state, deltas, early : EndDecoded(d, f, state, deltas) /\ ServesEnd(f, state, deltas, early)
<1>1. PICK step : step = withUsage(d, f) OBVIOUS
<1>2. PICK tale, early : CountsTold(d, step, tale, early) BY <1>1, UsageIsTold
<1>3. step.state = tale /\ step.deltas = early
  <2>1. \A a, b : Decoded(a, b).state = a /\ Decoded(a, b).deltas = b BY DEF Decoded
  <2>2. step = Decoded(tale, early) BY <1>2 DEF CountsTold
  <2> QED BY ONLY <2>1, <2>2
<1>4. PICK done : done = Done(EndReason(f)) OBVIOUS
<1>5. PICK state : state = [tale EXCEPT !.done = TRUE] OBVIOUS
<1>6. tale.done = FALSE /\ tale.failed = FALSE /\ DOMAIN tale = DOMAIN NewDecoder
  BY <1>2 DEF CountsTold
<1>7. DOMAIN state = DOMAIN NewDecoder /\ state.done = TRUE /\ state.failed = FALSE
  BY <1>5, <1>6 DEF NewDecoder
<1>8. decodeResponses(d, f) = withTerminal(step, f) BY <1>1, Zenon DEF decodeResponses
<1>9. withTerminal(step, f) = Decoded(state, Append(early, done))
  <2>1. ~StatusIsNonServed(f.status) BY DEF StatusIsNonServed
  <2>2. ~step.state.done BY <1>3, <1>6
  <2>3. withTerminal(step, f) = Decoded([step.state EXCEPT !.done = TRUE], Append(step.deltas, done))
    BY <1>4, <2>1, <2>2, Zenon DEF withTerminal, EndReason
  <2> QED BY <1>3, <1>5, <2>3
<1>10. PICK deltas : deltas = Append(early, done) OBVIOUS
<1>11. deltas = early \o <<done>>
  <2>1. IsSeq(early)
    <3>1. Tells("", "", early, "") BY <1>2, CountingTells DEF CountsTold
    <3> QED BY <3>1 DEF Tells
  <2> QED BY <1>10, <2>1, SeqMore
<1>12. DecodeChunk("responses", d, f) = decodeResponses(d, f) BY DEF DecodeChunk
<1>13. EndDecoded(d, f, state, deltas) BY <1>7, <1>8, <1>9, <1>10, <1>12 DEF EndDecoded
<1>14. ServesEnd(f, state, deltas, early) BY <1>2, <1>4, <1>7, <1>11 DEF ServesEnd, CountsTold
<1> QED BY <1>13, <1>14

\* one that failed does not.
LEMMA EndIsLost ==
  ASSUME NEW d, DOMAIN d = DOMAIN NewDecoder, d.done = FALSE, d.failed = FALSE,
         NEW f, f.f = "ended", f.status = "failed"
  PROVE  \E state, deltas : /\ EndDecoded(d, f, state, deltas)
                            /\ state.failed = TRUE /\ Counting(deltas)
<1>1. PICK step : step = withUsage(d, f) OBVIOUS
<1>2. PICK tale, early : CountsTold(d, step, tale, early) BY <1>1, UsageIsTold
<1>3. step.state = tale /\ step = Decoded(tale, early)
  <2>1. \A a, b : Decoded(a, b).state = a BY DEF Decoded
  <2>2. step = Decoded(tale, early) BY <1>2 DEF CountsTold
  <2> QED BY ONLY <2>1, <2>2
<1>5. PICK state : state = [tale EXCEPT !.failed = TRUE] OBVIOUS
<1>6. tale.done = FALSE /\ tale.failed = FALSE /\ DOMAIN tale = DOMAIN NewDecoder
  BY <1>2 DEF CountsTold
<1>7. DOMAIN state = DOMAIN NewDecoder /\ state.failed = TRUE BY <1>5, <1>6 DEF NewDecoder
<1>8. decodeResponses(d, f) = withTerminal(step, f) BY <1>1, Zenon DEF decodeResponses
<1>9. withTerminal(step, f) = Decoded(state, early)
  <2>1. StatusIsNonServed(f.status) BY DEF StatusIsNonServed
  <2>2. ~step.state.done BY <1>3, <1>6
  <2>3. withTerminal(step, f) = [step EXCEPT !.state.failed = TRUE]
    BY <2>1, <2>2, Zenon DEF withTerminal
  <2>4. step = [state |-> tale, deltas |-> early] BY <1>3 DEF Decoded
  <2>5. PICK g : g = [step EXCEPT !.state.failed = TRUE] OBVIOUS
  <2>6. g.state = state /\ g.deltas = early /\ g = [state |-> g.state, deltas |-> g.deltas]
    BY <1>5, <2>4, <2>5
  <2>7. g = Decoded(state, early) BY <2>6 DEF Decoded
  <2> QED BY <2>3, <2>5, <2>7
<1>12. DecodeChunk("responses", d, f) = decodeResponses(d, f) BY DEF DecodeChunk
<1>13. EndDecoded(d, f, state, early) BY <1>7, <1>8, <1>9, <1>12 DEF EndDecoded
<1> QED BY <1>2, <1>7, <1>13 DEF CountsTold

\* Either is read in agreement,
LEMMA ResEndRead ==
  ASSUME NEW w, w.up = "responses", NEW said, NEW top, NEW x, ResNow(said, top, x),
         NEW f, ResEnds(f)
  PROVE  \E y : ResCloses(w, x, f, y)
<1>1. PICK d, h, c, loose : d = x.dec /\ h = x.h /\ c = x.source /\ loose = w.loose OBVIOUS
<1>2. /\ DOMAIN d = DOMAIN NewDecoder /\ d.done = FALSE /\ d.failed = FALSE /\ StoryIsSound(h)
      /\ Heard(h, c) /\ ~h.done /\ h.begun /\ ~c.over /\ DOMAIN c = CliFields /\ x.stated = ""
  BY <1>1 DEF ResNow, Calm, Heard
<1>3. PICK r : r = ReadOne("responses", c, f) OBVIOUS
<1>4. PICK end : end = IF f.status = "incomplete" THEN f.reason ELSE f.status OBVIOUS
<1>5. Over(c, r) /\ r.end = end
  <2>1. DOMAIN c = CliFields /\ f.f = "ended" /\ r = ReadOne("responses", c, f)
    BY <1>2, <1>3 DEF ResEnds
  <2>2. Over(c, r) BY ONLY <2>1, EndedIsRead
  <2>3. r.end = IF f.status = "incomplete" THEN f.reason ELSE f.status BY ONLY <2>1, EndedIsRead
  <2> QED BY <1>4, <2>2, <2>3
<1>6. PICK judgement : judgement = EndIn(f) OBVIOUS
<1>7. PICK step : step = DecodeChunk(w.up, x.dec, f) OBVIOUS
<1>8. ASSUME NEW state, NEW deltas, EndDecoded(d, f, state, deltas), NEW k, Tells(loose, h, deltas, k),
             NEW y, y = [dec |-> state, h |-> k, source |-> r, stated |-> judgement], ResOver(y)
      PROVE  ResCloses(w, x, f, y)
  <2>1. y.dec = state /\ y.h = k /\ y.source = r /\ y.stated = judgement BY <1>8
  <2>2. step.state = state /\ step.deltas = deltas
    <3>1. \A a, b : Decoded(a, b).state = a /\ Decoded(a, b).deltas = b BY DEF Decoded
    <3>2. step = Decoded(state, deltas) BY <1>1, <1>7, <1>8 DEF EndDecoded
    <3> QED BY ONLY <3>1, <3>2
  <2>3. Agrees(w, y) BY <1>8, ResOverAgrees
  <2>4. ~x.source.over /\ f.f # "error" BY <1>1, <1>2 DEF ResEnds
  <2>5. y.source = ReadOne(w.up, x.source, f) BY <1>1, <1>3, <2>1
  <2>6. Tells(w.loose, x.h, deltas, k) BY <1>1, <1>8
  <2>7. Reads(w, x, f, y) BY <1>2, <1>6, <1>7, <2>1, <2>2, <2>3, <2>4, <2>5, <2>6 DEF Reads
  <2> QED BY <1>8, <2>7 DEF ResCloses
<1>9. CASE f.status # "failed"
  <2>1. PICK state, deltas, early :
          EndDecoded(d, f, state, deltas) /\ ServesEnd(f, state, deltas, early)
    <3>1. f.f = "ended" /\ f.status \in {"completed", "incomplete"} BY <1>9 DEF ResEnds
    <3> QED BY <1>2, <3>1, EndIsServed
  <2>2. PICK reason : reason = EndReason(f) OBVIOUS
  <2>3. reason \in Reasons /\ EndClass(end) = EndClass(reason) BY <1>4, <1>9, <2>2, EndReasons
  <2>4. PICK finishes : finishes = TRUE OBVIOUS
  <2>5. PICK k : /\ Tells(loose, h, When(finishes, <<Done(reason)>>), k) /\ StoryIsSound(k)
                 /\ Stops(h, Done(reason), k)
    <3>1. MayStop(h, finishes, reason) BY <1>2, <2>3, <2>4 DEF MayStop
    <3>2. \E k : Stopped(loose, h, finishes, reason, k) BY ONLY <3>1, TellsDone
    <3> QED BY <2>4, <3>2, Zenon DEF Stopped
  <2>6. When(finishes, <<Done(reason)>>) = <<Done(reason)>> BY <2>4, Zenon DEF When
  <2>7. Tells(loose, h, deltas, k)
    <3>1. Tells(loose, h, early, h) BY <2>1, CountingTells DEF ServesEnd
    <3>2. Tells(loose, h, <<Done(reason)>>, k) BY <2>5, <2>6
    <3>3. deltas = early \o <<Done(reason)>> BY <2>1, <2>2 DEF ServesEnd
    <3> QED BY <3>1, <3>2, <3>3, TellsCat
  <2>8. PICK y : y = [dec |-> state, h |-> k, source |-> r, stated |-> judgement] OBVIOUS
  <2>9. y.dec = state /\ y.h = k /\ y.source = r /\ y.stated = judgement BY <2>8
  <2>10. k.done /\ k.reason = reason /\ k.calls = h.calls /\ k.think = h.think /\ k.text = h.text
    BY <2>5 DEF Stops, Done
  <2>11. Heard(k, r) BY <1>2, <1>5, <2>10 DEF Heard, Over
  <2>12. judgement = "ended" BY <1>6, <1>9 DEF EndIn, ResEnds, StatusIsNonServed
  <2>13. ResServed(y) BY <1>5, <2>1, <2>3, <2>9, <2>10, <2>12 DEF ResServed, ServesEnd
  <2>14. ResOver(y) BY <1>5, <2>1, <2>5, <2>9, <2>11, <2>13 DEF ResOver, EndDecoded, Over
  <2> QED BY <1>8, <2>1, <2>7, <2>8, <2>14
<1>10. CASE f.status = "failed"
  <2>1. PICK state, deltas : /\ EndDecoded(d, f, state, deltas)
                             /\ state.failed = TRUE /\ Counting(deltas)
    BY <1>2, <1>10, EndIsLost DEF ResEnds
  <2>2. Tells(loose, h, deltas, h) BY <2>1, CountingTells
  <2>3. PICK y : y = [dec |-> state, h |-> h, source |-> r, stated |-> judgement] OBVIOUS
  <2>4. y.dec = state /\ y.h = h /\ y.source = r /\ y.stated = judgement BY <2>3
  <2>5. Heard(h, r) BY <1>2, <1>5 DEF Heard, Over
  <2>6. judgement = "failed" BY <1>6, <1>10 DEF EndIn, ResEnds, StatusIsNonServed
  <2>7. ResLost(y) BY <1>2, <2>1, <2>4, <2>6 DEF ResLost
  <2>8. ResOver(y) BY <1>2, <1>5, <2>1, <2>4, <2>5, <2>7 DEF ResOver, EndDecoded, Over
  <2> QED BY <1>8, <2>1, <2>2, <2>3, <2>8
<1> QED BY <1>9, <1>10

\* and so is an error.
LEMMA ResErrRead ==
  ASSUME NEW w, w.up = "responses", NEW said, NEW top, NEW x, ResNow(said, top, x),
         NEW f, f.f = "error"
  PROVE  \E y : Reads(w, x, f, y)
<1>1. PICK d, h, c, loose : d = x.dec /\ h = x.h /\ c = x.source /\ loose = w.loose OBVIOUS
<1>2. /\ DOMAIN d = DOMAIN NewDecoder /\ d.done = FALSE /\ d.failed = FALSE /\ StoryIsSound(h)
      /\ Heard(h, c) /\ ~h.done /\ x.stated = "" BY <1>1 DEF ResNow, Calm
<1>3. PICK delta, deltas : delta = Unknown /\ deltas = <<delta>> OBVIOUS
<1>4. Tells(loose, h, deltas, h)
  <2>1. delta.d = "unknown" BY <1>3 DEF Unknown
  <2>2. Follows(loose, h, delta, h) BY <2>1 DEF Follows, Allowed, After
  <2> QED BY <1>3, <2>2, TellsOne
<1>5. PICK state : state = [d EXCEPT !.failed = ~d.done] OBVIOUS
<1>6. state.failed = TRUE BY <1>2, <1>5 DEF NewDecoder
<1>7. DecodeChunk("responses", d, f) = Decoded(state, deltas)
  <2>1. decodeResponses(d, f) = Decoded(state, <<Unknown>>)
    BY <1>2, <1>5, Zenon DEF decodeResponses
  <2>2. DecodeChunk("responses", d, f) = decodeResponses(d, f) BY DEF DecodeChunk
  <2> QED BY <1>3, <2>1, <2>2
<1>8. PICK judgement : judgement = "failed" OBVIOUS
<1>9. EndIn(f) = judgement BY <1>8 DEF EndIn
<1>10. PICK y : y = [dec |-> state, h |-> h, source |-> c, stated |-> judgement] OBVIOUS
<1>11. y.dec = state /\ y.h = h /\ y.source = c /\ y.stated = judgement BY <1>10
<1>12. Agrees(w, y) BY <1>2, <1>6, <1>8, <1>11 DEF Agrees, Heard
<1>13. PICK step : step = DecodeChunk(w.up, x.dec, f) OBVIOUS
<1>14. step.state = state /\ step.deltas = deltas
  <2>1. \A a, b : Decoded(a, b).state = a /\ Decoded(a, b).deltas = b BY DEF Decoded
  <2>2. step = Decoded(state, deltas) BY <1>1, <1>7, <1>13
  <2> QED BY ONLY <2>1, <2>2
<1> QED BY <1>1, <1>2, <1>4, <1>9, <1>11, <1>12, <1>13, <1>14 DEF Reads

\* More ends may come.
LEMMA ResMoreEnds ==
  ASSUME NEW w, w.up = "responses", NEW x, ResOver(x), NEW f, f.f = "ended", NEW more \in BOOLEAN
  PROVE  \E y : Leads(w, x, When(more, <<f>>), y) /\ ResOver(y)
<1>1. CASE more
  <2>1. When(more, <<f>>) = <<f>> BY <1>1, Zenon DEF When
  <2>2. PICK y : ResCloses(w, x, f, y) BY ResOverRead
  <2>3. Leads(w, x, <<f>>, y) BY <2>2, LeadsOne DEF ResCloses
  <2> QED BY <2>1, <2>2, <2>3 DEF ResCloses
<1>2. CASE ~more
  <2>1. When(more, <<f>>) = <<>> BY <1>2, Zenon DEF When
  <2>2. Leads(w, x, When(more, <<f>>), x) BY <2>1, LeadsNone
  <2> QED BY <2>2
<1> QED BY <1>1, <1>2

\* A Responses upstream's end is one of them.
LEMMA ResponsesEndEnds ==
  ASSUME NEW plan_, PlanIsSound("responses", plan_), NEW f, f = ResponsesEnd(plan_)
  PROVE  ResEnds(f)
<1>1. f.f = "ended" /\ f.status \in {"completed", "incomplete", "failed"} BY DEF ResponsesEnd
<1>2. ASSUME f.status = "incomplete" PROVE f.reason \in {"max_output_tokens", "content_filter"}
  <2>1. ~Normal(plan_) BY <1>2 DEF ResponsesEnd
  <2>2. f.reason = NativeStop("responses", plan_) BY <2>1 DEF ResponsesEnd
  <2>3. plan_.reason \in {"length", "content_filter"} BY <2>1 DEF Normal, IRStopReasonIsAbnormal
  <2> QED BY <2>2, <2>3 DEF NativeStop
<1> QED BY <1>1, <1>2 DEF ResEnds

ResWentOut(w, x, s) == \E y : Leads(w, x, s, y)

ResRest(plan_, err, end, again) ==
  IF plan_.fate = "errors" THEN <<err>>
  ELSE <<end>> \o When(plan_.tail = "split", <<end>>)
               \o When(plan_.fate = "errs late", <<again>>)

\* What follows a Responses upstream's utterances is read, however it ends.
LEMMA ResTail ==
  ASSUME NEW plan_, PlanIsSound("responses", plan_), NEW w, w.up = "responses",
         NEW n, NEW x, ResStage(w, plan_, n, x),
         NEW err, err.f = "error", NEW end, end = ResponsesEnd(plan_),
         NEW again, again.f = "ended", NEW s, s = ResRest(plan_, err, end, again)
  PROVE  ResWentOut(w, x, s)
<1>1. PICK said, top : said = plan_.said /\ top = BlockIndex(plan_.said, n) OBVIOUS
<1>2. ResNow(said, top, x) BY <1>1 DEF ResStage
<1>3. CASE plan_.fate = "errors"
  <2>1. s = <<err>> BY <1>3, Zenon DEF ResRest
  <2>2. PICK y : Reads(w, x, err, y) BY <1>2, ResErrRead
  <2> QED BY <2>1, <2>2, LeadsOne DEF ResWentOut
<1>4. CASE plan_.fate # "errors"
  <2>1. PICK twice, tardy : twice = (plan_.tail = "split") /\ tardy = (plan_.fate = "errs late") OBVIOUS
  <2>2. twice \in BOOLEAN /\ tardy \in BOOLEAN BY <2>1
  <2>3. PICK s1, s2 : s1 = When(twice, <<end>>) /\ s2 = When(tardy, <<again>>) OBVIOUS
  <2>4. s = <<end>> \o s1 \o s2
    <3>1. s = <<end>> \o When(plan_.tail = "split", <<end>>) \o When(plan_.fate = "errs late", <<again>>)
      BY <1>4, Zenon DEF ResRest
    <3>2. When(plan_.tail = "split", <<end>>) = s1 BY <2>1, <2>3, Zenon
    <3>3. When(plan_.fate = "errs late", <<again>>) = s2 BY <2>1, <2>3, Zenon
    <3> QED BY ONLY <3>1, <3>2, <3>3, Zenon
  <2>5. ResEnds(end) BY ResponsesEndEnds
  <2>6. PICK a : ResCloses(w, x, end, a) BY <1>2, <2>5, ResEndRead
  <2>7. Leads(w, x, <<end>>, a) BY <2>6, LeadsOne DEF ResCloses
  <2>8. ResOver(a) /\ end.f = "ended" BY <2>5, <2>6 DEF ResCloses, ResEnds
  <2>9. PICK b : Leads(w, a, s1, b) /\ ResOver(b) BY <2>2, <2>3, <2>8, ResMoreEnds
  <2>10. PICK y : Leads(w, b, s2, y) BY <2>2, <2>3, <2>9, ResMoreEnds
  <2>11. Leads(w, x, <<end>> \o s1, b) BY <2>7, <2>9, LeadsCat
  <2>12. Leads(w, x, <<end>> \o s1 \o s2, y) BY <2>10, <2>11, LeadsCat
  <2> QED BY <2>4, <2>12 DEF ResWentOut
<1> QED BY <1>3, <1>4

----------------------------------------
(* An upstream of any protocol, from its first frame to its last. *)

UpstreamIs(w, plan_) ==
  /\ w.up \in Protocols /\ PlanIsSound(w.up, plan_) /\ w.fate = plan_.fate
  /\ w.loose = Interleaved(plan_.said)

Says(p, plan_, i) ==
  CASE p = "chat" -> <<chatChunk(plan_, i)>>
    [] p = "claude" -> claudeSays(plan_, i)
    [] p = "gemini" -> When(plan_.said[i].kind # "args", <<geminiChunk(plan_, i)>>)
    [] p = "responses" -> responsesSays(plan_, i)

Stage(w, plan_, i, x) ==
  CASE w.up = "chat" -> ChatStage(w, plan_, i, x)
    [] w.up = "claude" -> ClaudeStage(w, plan_, i, x)
    [] w.up = "gemini" -> GeminiStage(w, plan_, i, x)
    [] w.up = "responses" -> ResStage(w, plan_, i, x)

SaysOn(w, plan_, x, s, i) == \E y : Leads(w, x, s, y) /\ Stage(w, plan_, i, y)

\* An upstream's next utterance is one the story follows, whatever it speaks.
LEMMA UpSays ==
  ASSUME NEW plan_, NEW w, UpstreamIs(w, plan_), NEW i \in 0..(Len(plan_.said) - 1),
         NEW x, Stage(w, plan_, i, x), NEW s, s = Says(w.up, plan_, i + 1)
  PROVE  SaysOn(w, plan_, x, s, i + 1)
<1>1. PlanIsSound(w.up, plan_) /\ w.up \in Protocols BY DEF UpstreamIs
<1>2. w.loose \/ ~Interleaved(plan_.said) BY DEF UpstreamIs
<1>3. CASE w.up = "chat"
  <2>1. PICK f : f = chatChunk(plan_, i + 1) OBVIOUS
  <2>2. s = <<f>> BY <1>3, <2>1, Zenon DEF Says
  <2>3. ChatStage(w, plan_, i, x) BY <1>3 DEF Stage
  <2>4. PICK y : Reads(w, x, f, y) /\ ChatStage(w, plan_, i + 1, y)
    BY <1>1, <1>2, <1>3, <2>1, <2>3, ChatUpSays
  <2>5. Leads(w, x, s, y) BY <2>2, <2>4, LeadsOne
  <2>6. Stage(w, plan_, i + 1, y) BY <1>3, <2>4 DEF Stage
  <2> QED BY <2>5, <2>6 DEF SaysOn
<1>4. CASE w.up = "claude"
  <2>1. s = claudeSays(plan_, i + 1) BY <1>4 DEF Says
  <2>2. ClaudeStage(w, plan_, i, x) BY <1>4 DEF Stage
  <2>3. w.loose = FALSE
    <3>1. ~Interleaved(plan_.said) BY <1>1, <1>4 DEF PlanIsSound
    <3> QED BY <3>1 DEF UpstreamIs, Interleaved
  <2>4. PICK y : Leads(w, x, s, y) /\ ClaudeStage(w, plan_, i + 1, y)
    BY <1>1, <1>4, <2>1, <2>2, <2>3, ClaudeUpSays
  <2>5. Stage(w, plan_, i + 1, y) BY <1>4, <2>4 DEF Stage
  <2> QED BY <2>4, <2>5 DEF SaysOn
<1>5. CASE w.up = "gemini"
  <2>1. s = When(plan_.said[i + 1].kind # "args", <<geminiChunk(plan_, i + 1)>>)
    BY <1>5, Zenon DEF Says
  <2>2. GeminiStage(w, plan_, i, x) BY <1>5 DEF Stage
  <2>3. PICK y : Leads(w, x, s, y) /\ GeminiStage(w, plan_, i + 1, y)
    BY <1>1, <1>5, <2>1, <2>2, GeminiUpSays
  <2>4. Stage(w, plan_, i + 1, y) BY <1>5, <2>3 DEF Stage
  <2> QED BY <2>3, <2>4 DEF SaysOn
<1>6. CASE w.up = "responses"
  <2>1. s = responsesSays(plan_, i + 1) BY <1>6 DEF Says
  <2>2. ResStage(w, plan_, i, x) BY <1>6 DEF Stage
  <2>3. PICK y : Leads(w, x, s, y) /\ ResStage(w, plan_, i + 1, y)
    BY <1>1, <1>2, <1>6, <2>1, <2>2, ResUpSays
  <2>4. Stage(w, plan_, i + 1, y) BY <1>6, <2>3 DEF Stage
  <2> QED BY <2>3, <2>4 DEF SaysOn
<1> QED BY <1>1, <1>3, <1>4, <1>5, <1>6 DEF Protocols

\* The frames of an utterance are a sequence.
LEMMA SaysIsSeq ==
  ASSUME NEW p \in Protocols, NEW plan_, NEW i
  PROVE  IsSeq(Says(p, plan_, i))
<1>1. CASE p = "chat"
  <2>1. Says(p, plan_, i) = <<chatChunk(plan_, i)>> BY <1>1, Zenon DEF Says
  <2> QED BY <2>1, SeqOne
<1>2. CASE p = "claude"
  <2>1. Says(p, plan_, i) = claudeSays(plan_, i) BY <1>2 DEF Says
  <2>2. PICK a, b, c, e, f, g :
          claudeSays(plan_, i) = When(a, <<b>>) \o When(c, <<e>>) \o When(f, <<g>>)
    BY Zenon DEF claudeSays
  <2>3. IsSeq(When(a, <<b>>)) /\ IsSeq(When(c, <<e>>)) /\ IsSeq(When(f, <<g>>)) BY WhenIsSeq
  <2>4. IsSeq(When(a, <<b>>) \o When(c, <<e>>) \o When(f, <<g>>)) BY <2>3, SeqCat
  <2> QED BY <2>1, <2>2, <2>4
<1>3. CASE p = "gemini"
  <2>1. Says(p, plan_, i) = When(plan_.said[i].kind # "args", <<geminiChunk(plan_, i)>>)
    BY <1>3, Zenon DEF Says
  <2> QED BY <2>1, WhenIsSeq
<1>4. CASE p = "responses"
  <2>1. Says(p, plan_, i) = responsesSays(plan_, i) BY <1>4 DEF Says
  <2>2. PICK a, b, c, e : responsesSays(plan_, i) = When(a, <<b>>) \o When(c, <<e>>)
    BY Zenon DEF responsesSays
  <2>3. IsSeq(When(a, <<b>>)) /\ IsSeq(When(c, <<e>>)) BY WhenIsSeq
  <2>4. IsSeq(When(a, <<b>>) \o When(c, <<e>>)) BY <2>3, SeqCat
  <2> QED BY <2>1, <2>2, <2>4
<1> QED BY <1>1, <1>2, <1>3, <1>4 DEF Protocols

\* All the utterances are, one after the other.
LEMMA UpWalk ==
  ASSUME NEW plan_, NEW w, UpstreamIs(w, plan_), NEW x, Stage(w, plan_, 0, x),
         NEW s, s = FlattenSeq([i \in DOMAIN plan_.said |-> Says(w.up, plan_, i)])
  PROVE  SaysOn(w, plan_, x, s, Len(plan_.said))
<1> DEFINE n == Len(plan_.said)
           ss == [i \in DOMAIN plan_.said |-> Says(w.up, plan_, i)]
<1>1. IsSeq(plan_.said) BY DEF UpstreamIs, PlanIsSound, WellTalked
<1>2. n \in Nat /\ DOMAIN plan_.said = 1..n BY <1>1, SeqDomain
<1>3. ss = [i \in 1..n |-> Says(w.up, plan_, i)] BY <1>2
<1>4. \A i \in 1..n : ss[i] = Says(w.up, plan_, i) BY <1>3
<1>5. IsSeq(ss) /\ Len(ss) = n
  <2>1. ss = [i \in 1..n |-> ss[i]] BY <1>3
  <2> HIDE DEF ss, n
  <2> QED BY <1>2, <2>1, SeqFunction
<1> HIDE DEF n, ss
<1>6. \A i \in 1..n : IsSeq(ss[i])
  <2>1. w.up \in Protocols BY DEF UpstreamIs
  <2> QED BY <1>4, <2>1, SaysIsSeq
<1>7. PICK P : /\ P[0] = <<>> /\ P[n] = FlattenSeq(ss)
               /\ \A i \in 1..n : P[i] = P[i - 1] \o ss[i] BY <1>5, <1>6, FlattenSteps
<1> DEFINE X == {i \in Nat : SaysOn(w, plan_, x, P[i], i)}
<1>8. 0 \in X
  <2>1. Leads(w, x, P[0], x) BY <1>7, LeadsNone
  <2>2. SaysOn(w, plan_, x, P[0], 0) BY <2>1 DEF SaysOn
  <2> QED BY <2>2
<1>9. ASSUME NEW i \in 0..(n - 1), i \in X PROVE i + 1 \in X
  <2>1. PICK y : Leads(w, x, P[i], y) /\ Stage(w, plan_, i, y) BY <1>9 DEF SaysOn
  <2>2. i + 1 \in 1..n /\ (i + 1) - 1 = i /\ i + 1 \in Nat BY <1>2
  <2>3. PICK t : t = Says(w.up, plan_, i + 1) OBVIOUS
  <2>4. SaysOn(w, plan_, y, t, i + 1) BY <2>1, <2>3, UpSays DEF n
  <2>5. PICK z : Leads(w, y, t, z) /\ Stage(w, plan_, i + 1, z) BY <2>4 DEF SaysOn
  <2>6. P[i + 1] = P[i] \o t BY <1>4, <1>7, <2>2, <2>3
  <2>7. Leads(w, x, P[i + 1], z) BY <2>1, <2>5, <2>6, LeadsCat
  <2>8. SaysOn(w, plan_, x, P[i + 1], i + 1) BY <2>5, <2>7 DEF SaysOn
  <2> QED BY <2>2, <2>8
<1>10. \A i \in 0..n : i \in X
  <2> HIDE DEF X
  <2> QED BY <1>2, <1>8, <1>9, UpTo
<1>11. SaysOn(w, plan_, x, P[n], n) BY <1>2, <1>10
<1> QED BY <1>7, <1>11 DEF n, ss

\* A chat or Gemini upstream starts without a frame of its own.
LEMMA FirstStage ==
  ASSUME NEW plan_, NEW w, w.up \in {"chat", "gemini"}, NEW x, x = AtFirst
  PROVE  Stage(w, plan_, 0, x)
<1>1. PICK d, h, c, none : d = x.dec /\ h = x.h /\ c = x.source /\ none = <<>> OBVIOUS
<1>2. Calm(x) /\ ~h.begun /\ h.calls = none /\ d.callOf = none BY <1>1, BegunCalm
<1>3. /\ DOMAIN d = DOMAIN NewDecoder /\ d.started = FALSE /\ d.done = FALSE
      /\ d.completed = FALSE /\ d.failed = FALSE /\ Unended(c) /\ c.ok = TRUE /\ c.over = FALSE
      /\ h.done = FALSE /\ h.begun = FALSE
  BY <1>1 DEF AtFirst, NewDecoder, NewClient, NewStory, Unended
<1>4. StoryIsSound(h) /\ Heard(h, c) /\ x.stated = "" BY <1>1, <1>2 DEF Calm
<1>5. IsSeq(none) /\ Len(none) = 0 BY <1>1, SeqEmpty
<1>6. Len(h.calls) = 0 BY <1>2, <1>5
<1>7. ByIndex(h, c) /\ Numbered(h) BY <1>6 DEF ByIndex, Numbered
<1>8. CASE w.up = "chat"
  <2>1. d.callOf = <<>> BY <1>1, <1>2
  <2>2. ChatListens(h, c) BY <1>3, <1>4, <1>7 DEF ChatListens
  <2>3. ChatNow(x) BY <1>1, <1>3, <1>4, <2>1, <2>2 DEF ChatNow
  <2>4. Talked(w.loose, plan_.said, 0, h)
    <3>1. h.calls = <<>> BY <1>1, <1>2
    <3> QED BY <3>1, TalkedNone
  <2>5. ChatStage(w, plan_, 0, x) BY <1>1, <1>3, <1>7, <2>3, <2>4 DEF ChatStage
  <2> QED BY <1>8, <2>5 DEF Stage
<1>9. CASE w.up = "gemini"
  <2>1. CountedAs(h, d) BY <1>2, <1>5, <1>6 DEF CountedAs
  <2>2. GeminiNow(x) BY <1>1, <1>3, <1>4, <2>1 DEF GeminiNow
  <2>3. GeminiStage(w, plan_, 0, x) BY <1>1, <1>3, <2>2 DEF GeminiStage
  <2> QED BY <1>9, <2>3 DEF Stage
<1> QED BY <1>8, <1>9

Said(p, plan_) == FlattenSeq([i \in DOMAIN plan_.said |-> Says(p, plan_, i)])

WentOut(w, x, s) == \E y : Leads(w, x, s, y)

\* Every answer of a chat upstream leads on from frame to frame,
LEMMA ChatSpeaks ==
  ASSUME NEW plan_, NEW w, UpstreamIs(w, plan_), w.up = "chat", NEW x, x = AtFirst,
         NEW s, s = ChatFrames(plan_)
  PROVE  WentOut(w, x, s)
<1>1. PICK content, finish, tail, finale, in, out, all :
        /\ content = [i \in DOMAIN plan_.said |-> chatChunk(plan_, i)]
        /\ finish = [NoChunk EXCEPT !.finish = NativeStop("chat", plan_)]
        /\ finale = <<[f |-> "[DONE]"]>> /\ in = InputOnly(OnWire("chat", plan_))
        /\ out = OutputOnly(OnWire("chat", plan_)) /\ all = OnWire("chat", plan_)
        /\ tail = When(~(plan_.tail = "together" /\ plan_.said # <<>>),
               <<finish>> \o IF plan_.tail = "split"
                             THEN << [NoChunk EXCEPT !.usage = in], [NoChunk EXCEPT !.usage = out] >>
                             ELSE << [NoChunk EXCEPT !.usage = all] >>) OBVIOUS
<1>2. s = content \o tail \o finale BY <1>1, Zenon DEF ChatFrames
<1>3. PlanIsSound("chat", plan_) /\ IsSeq(plan_.said) BY DEF UpstreamIs, PlanIsSound, WellTalked
<1>4. PICK n : n = Len(plan_.said) OBVIOUS
<1>5. n \in Nat /\ DOMAIN plan_.said = 1..n BY <1>3, <1>4, SeqDomain
<1>6. PICK ss : ss = [i \in DOMAIN plan_.said |-> Says(w.up, plan_, i)] OBVIOUS
<1>7. content = Said(w.up, plan_)
  <2>1. IsSeq(content) /\ Len(content) = n
    <3>1. content = [i \in 1..n |-> content[i]] BY <1>1, <1>5
    <3> QED BY <1>5, <3>1, SeqFunction
  <2>2. IsSeq(ss) /\ Len(ss) = n
    <3>1. ss = [i \in 1..n |-> ss[i]] BY <1>5, <1>6
    <3> QED BY <1>5, <3>1, SeqFunction
  <2>3. \A i \in 1..n : ss[i] = <<content[i]>>
    <3> SUFFICES ASSUME NEW i \in 1..n PROVE ss[i] = <<content[i]>> OBVIOUS
    <3>1. content[i] = chatChunk(plan_, i) BY <1>1, <1>5
    <3>2. ss[i] = Says("chat", plan_, i) BY <1>5, <1>6
    <3>3. Says("chat", plan_, i) = <<chatChunk(plan_, i)>> BY Zenon DEF Says
    <3> QED BY <3>1, <3>2, <3>3
  <2>4. FlattenSeq(ss) = content BY <2>1, <2>2, <2>3, FlattenOnes
  <2> QED BY <1>6, <2>4 DEF Said
<1>8. Stage(w, plan_, 0, x) BY FirstStage
<1>9. SaysOn(w, plan_, x, content, Len(plan_.said)) BY <1>7, <1>8, UpWalk DEF Said
<1>10. PICK y : Leads(w, x, content, y) /\ Stage(w, plan_, Len(plan_.said), y) BY <1>9 DEF SaysOn
<1>11. ChatStage(w, plan_, Len(plan_.said), y) BY <1>10 DEF Stage
<1>12. \E z : Leads(w, y, tail \o finale, z)
  <2>1. \E z : Leads(w, y, tail \o <<[f |-> "[DONE]"]>>, z) BY <1>1, <1>3, <1>11, ChatTail
  <2> QED BY <1>1, <2>1
<1>13. PICK z : Leads(w, y, tail \o finale, z) BY <1>12
<1>14. Leads(w, x, content \o (tail \o finale), z) BY <1>10, <1>13, LeadsCat
<1>15. (content \o tail) \o finale = content \o (tail \o finale)
  <2>1. IsSeq(content) BY <1>10 DEF Leads
  <2>2. IsSeq(finale) BY <1>1, SeqOne
  <2>3. IsSeq(tail)
    <3>1. PICK a, b : IsSeq(a) /\ IsSeq(b) /\ tail = When(~(plan_.tail = "together" /\ plan_.said # <<>>), a \o b)
      <4>1. \A f, g : IsSeq(<<f>>) /\ IsSeq(<<f, g>>) BY SeqOne, SeqPair
      <4> QED BY <1>1, <4>1
    <3>2. IsSeq(a \o b) /\ IsSeq(<<>>) BY <3>1, SeqCat, SeqEmpty
    <3> QED BY <3>1, <3>2 DEF When
  <2> QED BY <2>1, <2>2, <2>3, SeqAssoc
<1> QED BY <1>2, <1>14, <1>15 DEF WentOut

\* of a Gemini upstream,
LEMMA GeminiSpeaks ==
  ASSUME NEW plan_, NEW w, UpstreamIs(w, plan_), w.up = "gemini", NEW x, x = AtFirst,
         NEW s, s = GeminiFrames(plan_)
  PROVE  WentOut(w, x, s)
<1>1. PICK content, usage, tail :
        /\ content = FlattenSeq([i \in DOMAIN plan_.said |->
                         When(plan_.said[i].kind # "args", <<geminiChunk(plan_, i)>>)])
        /\ usage = OnWire("gemini", plan_)
        /\ tail = When(~(plan_.tail = "together" /\ plan_.said # <<>>),
                       <<[NoCandidate EXCEPT !.finish = NativeStop("gemini", plan_), !.usage = usage]>>)
  OBVIOUS
<1>2. s = content \o tail BY <1>1, Zenon DEF GeminiFrames
<1>3. PlanIsSound("gemini", plan_) BY DEF UpstreamIs
<1>4. content = Said(w.up, plan_)
  <2>1. \A i : Says("gemini", plan_, i) = When(plan_.said[i].kind # "args", <<geminiChunk(plan_, i)>>)
    BY Zenon DEF Says
  <2>2. [i \in DOMAIN plan_.said |-> Says(w.up, plan_, i)]
           = [i \in DOMAIN plan_.said |-> When(plan_.said[i].kind # "args", <<geminiChunk(plan_, i)>>)]
    BY <2>1
  <2> QED BY <1>1, <2>2 DEF Said
<1>5. Stage(w, plan_, 0, x) BY FirstStage
<1>6. SaysOn(w, plan_, x, content, Len(plan_.said)) BY <1>4, <1>5, UpWalk DEF Said
<1>7. PICK y : Leads(w, x, content, y) /\ Stage(w, plan_, Len(plan_.said), y) BY <1>6 DEF SaysOn
<1>8. GeminiStage(w, plan_, Len(plan_.said), y) BY <1>7 DEF Stage
<1>9. PICK z : Leads(w, y, tail, z) BY <1>1, <1>3, <1>8, GeminiTail
<1> QED BY <1>2, <1>7, <1>9, LeadsCat DEF WentOut

\* of a Claude upstream
LEMMA ClaudeSpeaks ==
  ASSUME NEW plan_, NEW w, UpstreamIs(w, plan_), w.up = "claude", NEW x, x = AtFirst,
         NEW s, s = ClaudeFrames(plan_)
  PROVE  WentOut(w, x, s)
<1>1. PICK n, tardy, first, more, start, stop, counts, err, finale, over :
        /\ n = Len(plan_.said)
        /\ tardy = (plan_.dialect = "foreign")
        /\ first = (IF tardy THEN Silent ELSE [OnWire("claude", plan_) EXCEPT !.output = 0])
        /\ more = (IF tardy THEN OnWire("claude", plan_) ELSE OutputOnly(OnWire("claude", plan_)))
        /\ start = [f |-> "message_start", usage |-> first]
        /\ stop = [f |-> "block_stop", index |-> BlockIndex(plan_.said, n)]
        /\ counts = [f |-> "message_delta", reason |-> "", usage |-> [more EXCEPT !.output = 1]]
        /\ err = [f |-> "error"]
        /\ finale = [f |-> "message_delta", reason |-> NativeStop("claude", plan_), usage |-> more]
        /\ over = [f |-> "message_stop"] OBVIOUS
<1>2. PICK content, s1, s2, s3 :
        /\ content = FlattenSeq([i \in DOMAIN plan_.said |-> claudeSays(plan_, i)])
        /\ s1 = When(n > 0, <<stop>>)
        /\ s2 = When(plan_.tail = "split", <<counts>>)
        /\ s3 = ClaudeRest(plan_, err, finale, over) OBVIOUS
<1>3. s = <<start>> \o content \o s1 \o s2 \o s3 BY <1>1, <1>2, Zenon DEF ClaudeFrames, ClaudeRest
<1>4. PlanIsSound("claude", plan_) /\ IsSeq(plan_.said) /\ w.fate = plan_.fate
  BY DEF UpstreamIs, PlanIsSound, WellTalked
<1>5. n \in Nat BY <1>1, <1>4, SeqDomain
<1>6. content = Said(w.up, plan_)
  <2>1. \A i : Says("claude", plan_, i) = claudeSays(plan_, i) BY Zenon DEF Says
  <2>2. [i \in DOMAIN plan_.said |-> Says(w.up, plan_, i)]
           = [i \in DOMAIN plan_.said |-> claudeSays(plan_, i)] BY <2>1
  <2> QED BY <1>2, <2>2 DEF Said
<1>7. start.f = "message_start" BY <1>1
<1>8. PICK a : Leads(w, x, <<start>>, a) /\ ClaudeStage(w, plan_, 0, a) BY <1>7, ClaudeFirst
<1>9. Stage(w, plan_, 0, a) BY <1>8 DEF Stage
<1>10. SaysOn(w, plan_, a, content, n) BY <1>1, <1>6, <1>9, UpWalk DEF Said
<1>11. PICK b : Leads(w, a, content, b) /\ Stage(w, plan_, n, b) BY <1>10 DEF SaysOn
<1>12. ClaudeStage(w, plan_, n, b) BY <1>11 DEF Stage
<1>13. ClaudeWentOut(w, b, s1, s2, s3)
  <2>1. /\ stop.f = "block_stop" /\ counts.f = "message_delta" /\ counts.reason = ""
        /\ err.f = "error" /\ finale.f = "message_delta" /\ over.f = "message_stop"
        /\ finale.reason = NativeStop("claude", plan_) BY <1>1
  <2>2. /\ PlanIsSound("claude", plan_) /\ w.up = "claude" /\ w.fate = plan_.fate /\ n \in Nat
        /\ ClaudeStage(w, plan_, n, b)
        /\ stop.f = "block_stop" /\ counts.f = "message_delta" /\ counts.reason = ""
        /\ err.f = "error" /\ finale.f = "message_delta" /\ over.f = "message_stop"
        /\ finale.reason = NativeStop("claude", plan_)
        /\ s1 = When(n > 0, <<stop>>) /\ s2 = When(plan_.tail = "split", <<counts>>)
        /\ s3 = ClaudeRest(plan_, err, finale, over) BY <1>2, <1>4, <1>5, <1>12, <2>1
  <2> QED BY ONLY <2>2, ClaudeTail
<1>14. PICK p, q, z : Leads(w, b, s1, p) /\ Leads(w, p, s2, q) /\ Leads(w, q, s3, z)
  BY <1>13 DEF ClaudeWentOut
<1>15. Leads(w, x, <<start>> \o content, b) BY <1>8, <1>11, LeadsCat
<1>16. Leads(w, x, <<start>> \o content \o s1, p) BY <1>14, <1>15, LeadsCat
<1>17. Leads(w, x, <<start>> \o content \o s1 \o s2, q) BY <1>14, <1>16, LeadsCat
<1>18. Leads(w, x, <<start>> \o content \o s1 \o s2 \o s3, z) BY <1>14, <1>17, LeadsCat
<1> QED BY <1>3, <1>18 DEF WentOut

\* and of a Responses upstream.
LEMMA ResponsesSpeaks ==
  ASSUME NEW plan_, NEW w, UpstreamIs(w, plan_), w.up = "responses", NEW x, x = AtFirst,
         NEW s, s = ResponsesFrames(plan_)
  PROVE  WentOut(w, x, s)
<1>1. PICK n, start, end, err, again :
        /\ n = Len(plan_.said) /\ start = [f |-> "created"] /\ end = ResponsesEnd(plan_)
        /\ err = [f |-> "error"] /\ again = [end EXCEPT !.status = "failed"] OBVIOUS
<1>2. PICK content, rest :
        /\ content = FlattenSeq([i \in DOMAIN plan_.said |-> responsesSays(plan_, i)])
        /\ rest = ResRest(plan_, err, end, again) OBVIOUS
<1>3. s = <<start>> \o content \o rest BY <1>1, <1>2, Zenon DEF ResponsesFrames, ResRest
<1>4. PlanIsSound("responses", plan_) BY DEF UpstreamIs
<1>6. content = Said(w.up, plan_)
  <2>1. \A i : Says("responses", plan_, i) = responsesSays(plan_, i) BY Zenon DEF Says
  <2>2. [i \in DOMAIN plan_.said |-> Says(w.up, plan_, i)]
           = [i \in DOMAIN plan_.said |-> responsesSays(plan_, i)] BY <2>1
  <2> QED BY <1>2, <2>2 DEF Said
<1>7. /\ start.f = "created" /\ err.f = "error" /\ again.f = "ended"
  <2>1. again.f = end.f
    <3>1. DOMAIN end = {"f", "status", "reason", "usage"} BY <1>1 DEF ResponsesEnd
    <3> QED BY <1>1, <3>1
  <2>2. end.f = "ended" BY <1>1 DEF ResponsesEnd
  <2> QED BY <1>1, <2>1, <2>2
<1>8. PICK a : Leads(w, x, <<start>>, a) /\ ResStage(w, plan_, 0, a) BY <1>7, ResFirst
<1>9. Stage(w, plan_, 0, a) BY <1>8 DEF Stage
<1>10. SaysOn(w, plan_, a, content, n) BY <1>1, <1>6, <1>9, UpWalk DEF Said
<1>11. PICK b : Leads(w, a, content, b) /\ Stage(w, plan_, n, b) BY <1>10 DEF SaysOn
<1>12. ResStage(w, plan_, n, b) BY <1>11 DEF Stage
<1>13. ResWentOut(w, b, rest)
  <2>1. /\ PlanIsSound("responses", plan_) /\ w.up = "responses" /\ ResStage(w, plan_, n, b)
        /\ err.f = "error" /\ end = ResponsesEnd(plan_) /\ again.f = "ended"
        /\ rest = ResRest(plan_, err, end, again) BY <1>1, <1>2, <1>4, <1>7, <1>12
  <2> QED BY ONLY <2>1, ResTail
<1>14. PICK z : Leads(w, b, rest, z) BY <1>13 DEF ResWentOut
<1>15. Leads(w, x, <<start>> \o content, b) BY <1>8, <1>11, LeadsCat
<1>16. Leads(w, x, <<start>> \o content \o rest, z) BY <1>14, <1>15, LeadsCat
<1> QED BY <1>3, <1>16 DEF WentOut

\* An answer leads a reader from its first frame to its last.
LEMMA UpstreamSpeaks ==
  ASSUME NEW plan_, NEW w, UpstreamIs(w, plan_), NEW x, x = AtFirst, NEW s, s = Frames(w.up, plan_)
  PROVE  WentOut(w, x, s)
<1>1. CASE w.up = "chat"
  <2>1. s = ChatFrames(plan_) BY <1>1 DEF Frames
  <2> QED BY <1>1, <2>1, ChatSpeaks
<1>2. CASE w.up = "claude"
  <2>1. s = ClaudeFrames(plan_) BY <1>2 DEF Frames
  <2> QED BY <1>2, <2>1, ClaudeSpeaks
<1>3. CASE w.up = "gemini"
  <2>1. s = GeminiFrames(plan_) BY <1>3 DEF Frames
  <2> QED BY <1>3, <2>1, GeminiSpeaks
<1>4. CASE w.up = "responses"
  <2>1. s = ResponsesFrames(plan_) BY <1>4 DEF Frames
  <2> QED BY <1>4, <2>1, ResponsesSpeaks
<1> QED BY <1>1, <1>2, <1>3, <1>4 DEF UpstreamIs, Protocols

----------------------------------------
(* Both sides together. *)

\* The calls of a caller and of a client of the upstream.
CallsAgree(q, c, s) ==
  IF q = "gemini" THEN Known(c.calls) = {x \in Known(s.calls) : Complete(x[2])}
  ELSE Known(c.calls) = Known(s.calls) /\ Len(c.calls) = Len(s.calls)

SoundsAlike(q, loose, c, s) ==
  /\ (q = "claude" /\ loose) \/ c.ok
  /\ c.think = s.think /\ c.text = s.text
  /\ (q = "claude" /\ loose) \/ CallsAgree(q, c, s)

\* The story as a client of the upstream has it.
IsStoryOf(h, s) == s.think = h.think /\ s.text = h.text /\ Mirrors(s.calls, h.calls)

\* Who hears the story hears what the upstream's own client does.
LEMMA BothHear ==
  ASSUME NEW q, NEW loose, NEW h, NEW c, HasHeard(q, loose, h, c), NEW s, IsStoryOf(h, s)
  PROVE  SoundsAlike(q, loose, c, s)
<1>1. c.think = s.think /\ c.text = s.text BY DEF HasHeard, HearsWords, IsStoryOf
<1>2. ASSUME ~(q = "claude" /\ loose) PROVE c.ok /\ CallsAgree(q, c, s)
  <2>1. c.ok /\ CallsTold(q, h, c) BY <1>2 DEF HasHeard
  <2>2. Mirrors(s.calls, h.calls) BY DEF IsStoryOf
  <2>3. CASE q = "gemini"
    <3>1. \A x : x \in Known(c.calls) <=> x \in ReadyCalls(h.calls) BY <2>1, <2>3 DEF CallsTold
    <3>2. Known(s.calls) = Known(h.calls) BY <2>2, MirrorIsKnown
    <3>3. ReadyCalls(h.calls) = {x \in Known(s.calls) : Complete(x[2])} BY <3>2 DEF ReadyCalls
    <3>4. Known(c.calls) = ReadyCalls(h.calls) BY <3>1, Zenon
    <3> QED BY <2>1, <2>3, <3>3, <3>4 DEF CallsAgree
  <2>4. CASE q # "gemini"
    <3>1. Mirrors(c.calls, h.calls) BY <2>1, <2>4 DEF CallsTold
    <3>2. Known(c.calls) = Known(s.calls) /\ Len(c.calls) = Len(s.calls)
      BY <2>2, <3>1, MirrorKnown
    <3> QED BY <2>1, <2>4, <3>2 DEF CallsAgree
  <2> QED BY <2>3, <2>4
<1> QED BY <1>1, <1>2 DEF SoundsAlike

\* The story when the body is over: an end that was stated is told, if nothing failed.
Concludes(w, x, k) ==
  /\ StoryIsSound(k) /\ IsStoryOf(k, x.source)
  /\ k.done => x.stated = "ended" /\ EndClass(x.source.end) = EndClass(k.reason)
  /\ x.stated = "ended" => k.done \/ (x.dec.failed /\ w.fate = "errs late")

ClosedBy(w, x, s, k) == Tells(w.loose, x.h, s, k) /\ Concludes(w, x, k)

\* An upstream in agreement concludes as it is,
LEMMA AgreesConcludes ==
  ASSUME NEW w, NEW x, Agrees(w, x), ~(w.up = "claude" /\ AwaitsFinish(x.dec))
  PROVE  Concludes(w, x, x.h)
<1>1. IsStoryOf(x.h, x.source) BY DEF Agrees, IsStoryOf
<1>2. /\ StoryIsSound(x.h)
      /\ x.h.done => x.stated = "ended" /\ EndClass(x.source.end) = EndClass(x.h.reason)
      /\ x.stated = "ended" => x.h.done \/ x.dec.failed
      /\ x.dec.failed /\ x.stated = "ended" => w.fate = "errs late" BY DEF Agrees
<1> QED BY <1>1, <1>2 DEF Concludes

\* or with what its decoder still held.
LEMMA FinishTells ==
  ASSUME NEW w, NEW x, Agrees(w, x), NEW s, s = Finish(w.up, x.dec)
  PROVE  \E k : ClosedBy(w, x, s, k)
<1>0. PICK d, h : d = x.dec /\ h = x.h OBVIOUS
<1>1. CASE w.up # "claude"
  <2>1. s = <<>> BY <1>1 DEF Finish, When
  <2>2. Tells(w.loose, h, s, h) BY <2>1, TellsNone
  <2>3. Concludes(w, x, x.h) BY <1>1, AgreesConcludes
  <2> QED BY <1>0, <2>2, <2>3 DEF ClosedBy
<1>2. CASE w.up = "claude"
  <2>1. PICK counted, usage : /\ counted = claudeCounted(d.usage)
                              /\ usage = When(counted, <<UsageOf(d.usage)>>) OBVIOUS
  <2>2. counted \in BOOLEAN BY <2>1 DEF claudeCounted
  <2>3. s = finishClaude(d) BY <1>0, <1>2, Zenon DEF Finish, When
  <2>4. \A a : Tells(w.loose, a, usage, a) BY <2>1, <2>2, TellsUsage
  <2>5. CASE d.failed
    <3>1. s = usage BY <2>1, <2>3, <2>5, Zenon DEF finishClaude
    <3>2. ~AwaitsFinish(x.dec) BY <1>0, <2>5 DEF AwaitsFinish
    <3>3. Concludes(w, x, x.h) BY <3>2, AgreesConcludes
    <3>4. Tells(w.loose, h, s, h) BY <2>4, <3>1
    <3> QED BY <1>0, <3>3, <3>4 DEF ClosedBy
  <2>6. CASE ~d.failed /\ ~(d.completed /\ d.started)
    <3>1. s = <<>> BY <2>3, <2>6, Zenon DEF finishClaude, When
    <3>2. ~AwaitsFinish(x.dec) BY <1>0, <2>6 DEF AwaitsFinish
    <3>3. Concludes(w, x, x.h) BY <3>2, AgreesConcludes
    <3>4. Tells(w.loose, h, s, h) BY <3>1, TellsNone
    <3> QED BY <1>0, <3>3, <3>4 DEF ClosedBy
  <2>7. CASE ~d.failed /\ d.completed /\ d.started
    <3>1. PICK t : t = When(~d.done, <<Done("stop")>>) OBVIOUS
    <3>2. s = t \o usage BY <2>1, <2>3, <2>7, <3>1, Zenon DEF finishClaude, When
    <3>3. CASE d.done
      <4>1. t = <<>> BY <3>1, <3>3 DEF When
      <4>2. Tells(w.loose, h, t, h) BY <4>1, TellsNone
      <4>3. Tells(w.loose, h, s, h) BY <2>4, <3>2, <4>2, TellsCat
      <4>4. ~AwaitsFinish(x.dec) BY <1>0, <3>3 DEF AwaitsFinish
      <4>5. Concludes(w, x, x.h) BY <4>4, AgreesConcludes
      <4> QED BY <1>0, <4>3, <4>5 DEF ClosedBy
    <3>4. CASE ~d.done
      <4>1. AwaitsFinish(d) BY <2>7, <3>4 DEF AwaitsFinish
      <4>2. /\ StoryIsSound(h) /\ h.begun /\ ~h.done /\ x.stated = "ended"
            /\ EndClass(x.source.end) = "normal" BY <1>0, <1>2, <3>4, <4>1 DEF Agrees
      <4>3. PICK reason : reason = "stop" OBVIOUS
      <4>4. reason \in Reasons BY <4>3 DEF Reasons
      <4>5. PICK finishes \in BOOLEAN : finishes OBVIOUS
      <4>6. t = When(finishes, <<Done(reason)>>) BY <3>1, <3>4, <4>3, <4>5 DEF When
      <4>7. PICK k : Tells(w.loose, h, t, k) /\ StoryIsSound(k) /\ Stops(h, Done(reason), k)
        <5>1. MayStop(h, finishes, reason) BY <4>2, <4>4, <4>5 DEF MayStop
        <5>2. PICK loose : loose = w.loose OBVIOUS
        <5>3. PICK k : Stopped(loose, h, finishes, reason, k) BY ONLY <5>1, TellsDone
        <5> QED BY <4>5, <4>6, <5>2, <5>3 DEF Stopped
      <4>8. Tells(w.loose, h, s, k) BY <2>4, <3>2, <4>7, TellsCat
      <4>9. /\ k.think = h.think /\ k.text = h.text /\ k.calls = h.calls /\ k.done
            /\ k.reason = reason BY <4>7 DEF Stops, Done
      <4>10. IsStoryOf(k, x.source) BY <1>0, <4>9 DEF Agrees, IsStoryOf
      <4>11. EndClass(k.reason) = "normal" BY <4>3, <4>9 DEF EndClass
      <4>12. Concludes(w, x, k) BY <4>2, <4>7, <4>9, <4>10, <4>11 DEF Concludes
      <4> QED BY <1>0, <4>8, <4>12 DEF ClosedBy
    <3> QED BY <3>3, <3>4
  <2> QED BY <1>0, <2>5, <2>6, <2>7
<1> QED BY <1>1, <1>2

\* What is promised of a caller, a client of the upstream and an ending.
Owed(q, w, c, s, judgement, end) ==
  /\ SoundsAlike(q, w.loose, c, s)
  /\ c.over <=> end = "served"
  /\ end = "served" =>
       /\ judgement = "ended" /\ EndClass(c.end) = EndClass(s.end)
       /\ EndClass(s.end) = "normal" /\ s.calls # <<>> /\ q \in {"chat", "claude"}
            => c.end \in {"tool_calls", "tool_use"}
  /\ (end = "failed" /\ judgement = "ended") => w.fate = "errs late"

\* While the body is read, nothing more than what was said is heard.
LEMMA PromisedSoFar ==
  ASSUME NEW q, NEW w, w.loose \in BOOLEAN, NEW x, Agrees(w, x),
         NEW e, NEW c, Holds(q, w.loose, x.h, e, c)
  PROVE  Owed(q, w, c, x.source, x.stated, "open")
<1>1. HasHeard(q, w.loose, x.h, c) /\ ~c.over BY DownHeard
<1>2. IsStoryOf(x.h, x.source) BY DEF Agrees, IsStoryOf
<1>3. SoundsAlike(q, w.loose, c, x.source) BY <1>1, <1>2, BothHear
<1> QED BY <1>1, <1>3 DEF Owed

\* A caller told of an end is told what it is owed,
LEMMA EndsServed ==
  ASSUME NEW q, NEW w, w.loose \in BOOLEAN, NEW x, NEW k, Concludes(w, x, k), k.done,
         NEW c0, NEW e, NEW c, c = Client(q, c0, e.out), Holds(q, w.loose, k, e, c),
         NEW finale, finale = EncodeDone(q, e), NEW r, r = Client(q, c0, e.out \o finale.out)
  PROVE  Owed(q, w, r, x.source, x.stated, "served")
<1>1. PICK loose : loose = w.loose OBVIOUS
<1>2. /\ loose \in BOOLEAN /\ StoryIsSound(k) /\ k.done /\ c = Client(q, c0, e.out)
      /\ Holds(q, loose, k, e, c) /\ finale = EncodeDone(q, e)
      /\ r = Client(q, c0, e.out \o finale.out) BY <1>1 DEF Concludes
<1>3. HasHeard(q, loose, k, r) BY ONLY <1>2, DownEnds
<1>4. EndTold(q, k, r) BY ONLY <1>2, DownEnds
<1>5. /\ IsStoryOf(k, x.source) /\ x.stated = "ended"
      /\ EndClass(x.source.end) = EndClass(k.reason) BY DEF Concludes
<1>6. SoundsAlike(q, w.loose, r, x.source) BY <1>1, <1>3, <1>5, BothHear
<1>7. r.over /\ EndClass(r.end) = EndClass(x.source.end) BY <1>4, <1>5 DEF EndTold
<1>8. ASSUME x.source.calls # <<>> PROVE k.calls # <<>>
  <2>1. Mirrors(x.source.calls, k.calls) BY <1>5 DEF IsStoryOf
  <2>2. /\ IsSeq(x.source.calls) /\ IsSeq(k.calls) /\ Len(x.source.calls) = Len(k.calls)
    BY <2>1 DEF Mirrors
  <2>3. Len(k.calls) # 0 BY <1>8, <2>2, SeqDomain
  <2> QED BY <2>2, <2>3, SeqDomain
<1>9. ASSUME EndClass(x.source.end) = "normal", x.source.calls # <<>>, q \in {"chat", "claude"}
      PROVE  r.end \in {"tool_calls", "tool_use"} BY <1>4, <1>7, <1>8, <1>9 DEF EndTold
<1> QED BY <1>5, <1>6, <1>7, <1>9 DEF Owed

\* A relay that is not served has lost its end, or never had one.
Unserved(q, w, x, k, e, c, how) ==
  /\ w.loose \in BOOLEAN /\ Concludes(w, x, k) /\ Holds(q, w.loose, k, e, c)
  /\ how # "served" /\ (how = "failed" => ~k.done \/ x.dec.failed)
  /\ x.dec.failed /\ x.stated = "ended" => w.fate = "errs late"

\* and so is one that is told of none.
LEMMA EndsUnserved ==
  ASSUME NEW q, NEW w, NEW x, NEW k, NEW e, NEW c, NEW how, Unserved(q, w, x, k, e, c, how)
  PROVE  Owed(q, w, c, x.source, x.stated, how)
<1>1. HasHeard(q, w.loose, k, c) /\ ~c.over BY DownHeard DEF Unserved
<1>2. IsStoryOf(k, x.source) BY DEF Unserved, Concludes
<1>3. SoundsAlike(q, w.loose, c, x.source) BY <1>1, <1>2, BothHear
<1>4. (how = "failed" /\ x.stated = "ended") => w.fate = "errs late" BY DEF Concludes, Unserved
<1> QED BY <1>1, <1>3, <1>4 DEF Owed, Unserved
----------------------------------------
(* The relay. *)

World == [up |-> up, loose |-> Interleaved(plan.said), fate |-> plan.fate]

\* The relay has read a part of the answer, and the rest leads to its end.
Reading(x, z) ==
  /\ x.dec = dec /\ x.source = source /\ x.stated = stated
  /\ Agrees(World, x) /\ Leads(World, x, unread, z)
  /\ sawDone <=> x.h.done
  /\ Holds(down, World.loose, x.h, enc, listener)

CodecInv ==
  /\ pair \in Pairs
  /\ ending = "open" => \E x, z : Reading(x, z)
  /\ Owed(down, World, listener, source, stated, ending)

\* The two sides of a pair.
LEMMA PairIs ==
  ASSUME pair \in Pairs
  PROVE  up \in Protocols /\ down \in Protocols
BY DEF Pairs, up, down

\* What an upstream's world is.
LEMMA WorldIs ==
  /\ World.up = up /\ World.loose = Interleaved(plan.said) /\ World.fate = plan.fate
  /\ World.loose \in BOOLEAN
<1>1. World.up = up /\ World.loose = Interleaved(plan.said) /\ World.fate = plan.fate BY DEF World
<1>2. Interleaved(plan.said) \in BOOLEAN BY DEF Interleaved
<1> QED BY <1>1, <1>2

\* Nothing read, everything still to come.
LEMMA CodecInvInit == CodecInit => CodecInv
<1> SUFFICES ASSUME CodecInit PROVE CodecInv OBVIOUS
<1>1. pair \in Pairs /\ up \in Protocols /\ down \in Protocols BY PairIs DEF CodecInit
<1>2. PlanIsSound(up, plan)
  <2>1. plan \in Plans(up) BY DEF CodecInit
  <2> QED BY ONLY <1>1, <2>1, PlansAreSound
<1>3. UpstreamIs(World, plan) BY <1>1, <1>2, WorldIs DEF UpstreamIs
<1>4. PICK x : x = AtFirst OBVIOUS
<1>5. unread = Frames(World.up, plan) BY WorldIs DEF CodecInit
<1>6. PICK z : Leads(World, x, unread, z) BY <1>3, <1>4, <1>5, UpstreamSpeaks DEF WentOut
<1>7. Agrees(World, x)
  <2>1. Calm(x) BY <1>4, BegunCalm
  <2> QED BY <2>1, CalmAgrees
<1>8. x.dec = dec /\ x.source = source /\ x.stated = stated /\ x.h = NewStory
  BY <1>4 DEF AtFirst, CodecInit
<1>9. sawDone <=> x.h.done
  <2>1. sawDone = FALSE BY DEF CodecInit
  <2>2. NewStory.done = FALSE BY DEF NewStory
  <2> QED BY <1>8, <2>1, <2>2
<1>10. Holds(down, World.loose, x.h, enc, listener) BY <1>1, <1>8, DownAwaits DEF CodecInit
<1>11. Reading(x, z) BY <1>6, <1>7, <1>8, <1>9, <1>10 DEF Reading
<1>12. ending = "open" BY DEF CodecInit
<1>13. Owed(down, World, listener, source, stated, ending)
  BY <1>7, <1>8, <1>10, <1>12, WorldIs, PromisedSoFar
<1> QED BY <1>1, <1>11, <1>12, <1>13 DEF CodecInv

\* A frame read is told on.
LEMMA ReadFrameKeeps == CodecInv /\ ReadFrame => CodecInv'
<1> SUFFICES ASSUME CodecInv, ReadFrame PROVE CodecInv' OBVIOUS
<1>1. PICK f, step, e :
        /\ f = Head(unread) /\ step = DecodeChunk(up, dec, f)
        /\ e = EncodeDeltas(down, enc, step.deltas) OBVIOUS
<1>2. /\ ending = "open" /\ unread # <<>> /\ unread' = Tail(unread) /\ dec' = step.state
      /\ enc' = e /\ sawDone' = (sawDone \/ SaysDone(step.deltas))
      /\ listener' = Client(down, listener, e.out)
      /\ source' = Client(up, source, IF source.over \/ f.f = "error" THEN <<>> ELSE <<f>>)
      /\ stated' = IF stated = "" THEN EndIn(f) ELSE stated
      /\ UNCHANGED <<pair, plan, ending>> BY <1>1, Zenon DEF ReadFrame
<1>3. /\ pair' = pair /\ plan' = plan /\ ending' = ending BY <1>2
<1>4. World' = World /\ up' = up /\ down' = down BY <1>3 DEF World, up, down
<1>5. pair \in Pairs /\ up \in Protocols /\ down \in Protocols BY PairIs DEF CodecInv
<1>6. PICK x, z : Reading(x, z) BY <1>2 DEF CodecInv
<1>7. Leads(World, x, unread, z) BY <1>6 DEF Reading
<1>8. PICK y : Reads(World, x, f, y) /\ Leads(World, y, Tail(unread), z)
  BY <1>1, <1>2, <1>7, LeadsFirst
<1>9. DecodeChunk(World.up, x.dec, f) = step BY <1>1, <1>6, WorldIs DEF Reading
<1>10. /\ y.dec = step.state /\ Tells(World.loose, x.h, step.deltas, y.h)
       /\ y.source = IF x.source.over \/ f.f = "error" THEN x.source
                     ELSE ReadOne(World.up, x.source, f)
       /\ y.stated = IF x.stated = "" THEN EndIn(f) ELSE x.stated
       /\ Agrees(World, y) BY <1>8, <1>9, Zenon DEF Reads
<1>11. y.source = source'
  <2>1. x.source = source BY <1>6 DEF Reading
  <2>2. CASE source.over \/ f.f = "error"
    <3>1. source' = Client(up, source, <<>>) BY <1>2, <2>2
    <3>2. source' = source BY <3>1, ReadNone
    <3> QED BY <1>10, <2>1, <2>2, <3>2
  <2>3. CASE ~(source.over \/ f.f = "error")
    <3>1. source' = Client(up, source, <<f>>) BY <1>2, <2>3, Zenon
    <3>2. source' = ReadOne(up, source, f) BY <3>1, ReadFirst
    <3> QED BY <1>10, <2>1, <2>3, <3>2, WorldIs
  <2> QED BY <2>2, <2>3
<1>12. y.stated = stated' BY <1>2, <1>6, <1>10 DEF Reading
<1>13. sawDone' <=> y.h.done
  <2>1. StoryIsSound(x.h) /\ (sawDone <=> x.h.done) BY <1>6 DEF Reading, Agrees
  <2>2. y.h.done <=> x.h.done \/ SaysDone(step.deltas) BY <1>10, <2>1, TellsSound
  <2> QED BY <1>2, <2>1, <2>2
<1>14. Holds(down, World.loose, y.h, e, listener')
  <2>1. PICK deltas, loose, h, k, c, r :
          /\ deltas = step.deltas /\ loose = World.loose /\ h = x.h /\ k = y.h /\ c = listener
          /\ r = listener' OBVIOUS
  <2>2. /\ down \in Protocols /\ loose \in BOOLEAN /\ StoryIsSound(h) /\ Tells(loose, h, deltas, k)
        /\ Holds(down, loose, h, enc, c) /\ e = EncodeDeltas(down, enc, deltas)
        /\ r = Client(down, c, e.out)
    BY <1>1, <1>2, <1>5, <1>6, <1>10, <2>1, WorldIs DEF Reading, Agrees
  <2>3. Holds(down, loose, k, e, r) BY ONLY <2>2, DownTells
  <2> QED BY <2>1, <2>3
<1>15. Reading(y, z)'
  <2>1. y.dec = dec' BY <1>2, <1>10
  <2>2. Leads(World', y, unread', z) BY <1>2, <1>4, <1>8
  <2>3. Holds(down', World'.loose, y.h, enc', listener') BY <1>2, <1>4, <1>14
  <2>4. Agrees(World', y) BY <1>4, <1>10
  <2> QED BY <1>11, <1>12, <1>13, <2>1, <2>2, <2>3, <2>4 DEF Reading
<1>16. ending' = "open" BY <1>2, <1>3
<1>17. Owed(down, World, listener, source, stated, ending)'
  <2>1. Owed(down, World, listener', y.source, y.stated, "open")
    <3>1. PICK q, w, r : q = down /\ w = World /\ r = listener' OBVIOUS
    <3>2. w.loose \in BOOLEAN /\ Agrees(w, y) /\ Holds(q, w.loose, y.h, e, r)
      BY <1>10, <1>14, <3>1, WorldIs
    <3>3. Owed(q, w, r, y.source, y.stated, "open") BY ONLY <3>2, PromisedSoFar
    <3> QED BY <3>1, <3>3
  <2> QED BY <1>4, <1>11, <1>12, <1>16, <2>1
<1>18. (\E a, b : Reading(a, b))' BY <1>15
<1> QED BY <1>3, <1>5, <1>17, <1>18 DEF CodecInv

\* The end of the body concludes what was told.
LEMMA ConcludeKeeps ==
  ASSUME CodecInv, NEW failedRead \in BOOLEAN, NEW benign \in BOOLEAN,
         ConcludeRelay(failedRead, benign)
  PROVE  CodecInv'
<1>1. PICK deltas, e, done, pardoned, served, finale :
        /\ deltas = Finish(up, dec) /\ e = EncodeDeltas(down, enc, deltas)
        /\ done = (sawDone \/ SaysDone(deltas))
        /\ pardoned = (~failedRead \/ (done /\ benign /\ hasMeaningfulUsage(e.usage)))
        /\ served = (pardoned /\ mayEnd(dec.failed, done))
        /\ finale = IF served THEN EncodeDone(down, e) ELSE [e EXCEPT !.out = <<>>] OBVIOUS
<1>2. /\ ending = "open"
      /\ listener' = Client(down, listener, e.out \o finale.out)
      /\ ending' = IF ~pardoned THEN "broken" ELSE IF served THEN "served" ELSE "failed"
      /\ UNCHANGED <<pair, plan, source, stated>> BY <1>1, Zenon DEF ConcludeRelay
<1>3. pair' = pair /\ plan' = plan /\ source' = source /\ stated' = stated BY <1>2
<1>4. World' = World /\ down' = down BY <1>3 DEF World, up, down
<1>5. pair \in Pairs /\ up \in Protocols /\ down \in Protocols BY PairIs DEF CodecInv
<1>6. PICK x, z : Reading(x, z) BY <1>2 DEF CodecInv
<1>7. PICK q, w, h : q = down /\ w = World /\ h = x.h OBVIOUS
<1>8. /\ w.loose \in BOOLEAN /\ Agrees(w, x) /\ Holds(q, w.loose, h, enc, listener)
      /\ StoryIsSound(h) /\ (sawDone <=> h.done) /\ x.dec = dec
      /\ x.source = source /\ x.stated = stated /\ w.up = up /\ q \in Protocols
  BY <1>5, <1>6, <1>7, WorldIs DEF Reading, Agrees
<1>9. deltas = Finish(w.up, x.dec) BY <1>1, <1>8
<1>10. PICK k : ClosedBy(w, x, deltas, k)
  <2>1. Agrees(w, x) BY <1>8
  <2> QED BY ONLY <2>1, <1>9, FinishTells
<1>11. Tells(w.loose, h, deltas, k) /\ Concludes(w, x, k) BY <1>7, <1>10 DEF ClosedBy
<1>12. done <=> k.done
  <2>1. k.done <=> h.done \/ SaysDone(deltas) BY <1>8, <1>11, TellsSound
  <2> QED BY <1>1, <1>8, <2>1
<1>13. PICK r : r = Client(q, listener, e.out) OBVIOUS
<1>14. Holds(q, w.loose, k, e, r)
  <2>1. PICK loose, c, m : loose = w.loose /\ c = listener /\ m = enc OBVIOUS
  <2>2. /\ q \in Protocols /\ loose \in BOOLEAN /\ StoryIsSound(h) /\ Tells(loose, h, deltas, k)
        /\ Holds(q, loose, h, m, c) /\ e = EncodeDeltas(q, m, deltas)
        /\ r = Client(q, c, e.out) BY <1>1, <1>7, <1>8, <1>11, <1>13, <2>1
  <2>3. Holds(q, loose, k, e, r) BY ONLY <2>2, DownTells
  <2> QED BY <2>1, <2>3
<1>15. CASE served
  <2>1. PICK c, g : c = listener /\ g = listener' OBVIOUS
  <2>2. finale = EncodeDone(q, e) BY <1>1, <1>7, <1>15
  <2>3. k.done BY <1>1, <1>12, <1>15 DEF mayEnd
  <2>4. g = Client(q, c, e.out \o finale.out) BY <1>2, <1>7, <2>1
  <2>5. /\ w.loose \in BOOLEAN /\ Concludes(w, x, k) /\ k.done /\ r = Client(q, c, e.out)
        /\ Holds(q, w.loose, k, e, r) /\ finale = EncodeDone(q, e)
        /\ g = Client(q, c, e.out \o finale.out)
    BY <1>8, <1>11, <1>13, <1>14, <2>1, <2>2, <2>3, <2>4
  <2>6. Owed(q, w, g, x.source, x.stated, "served") BY ONLY <2>5, EndsServed
  <2>7. ending' = "served" BY <1>1, <1>2, <1>15
  <2>8. Owed(down, World, listener, source, stated, ending)'
    BY <1>3, <1>4, <1>7, <1>8, <2>1, <2>6, <2>7
  <2>9. ending' # "open" BY <2>7
  <2> QED BY <1>3, <1>5, <2>8, <2>9 DEF CodecInv
<1>16. CASE ~served
  <2>1. Emptying(e, finale) BY <1>1, <1>16, Zenon DEF Emptying
  <2>2. DOMAIN e = EncFields /\ IsSeq(e.out)
    BY <1>14 DEF Holds, ChatHolds, ClaudeHolds, Lays, GeminiHolds, RespHolds, Shelf
  <2>3. finale.out = <<>> BY <2>1, <2>2, EmptyIsSame
  <2>4. e.out \o finale.out = e.out BY <2>2, <2>3, SeqCat, SeqEmpty
  <2>5. listener' = r BY <1>2, <1>7, <1>13, <2>4
  <2>6. PICK how : how = ending' OBVIOUS
  <2>7. how \in {"broken", "failed"} /\ (how = "failed" => pardoned) BY <1>1, <1>2, <1>16, <2>6
  <2>8. how = "failed" => ~k.done \/ x.dec.failed BY <1>1, <1>8, <1>12, <1>16, <2>7 DEF mayEnd
  <2>9. x.dec.failed /\ x.stated = "ended" => w.fate = "errs late" BY <1>8 DEF Agrees
  <2>10. Unserved(q, w, x, k, e, r, how) BY <1>8, <1>11, <1>14, <2>7, <2>8, <2>9 DEF Unserved
  <2>11. Owed(q, w, r, x.source, x.stated, how) BY ONLY <2>10, EndsUnserved
  <2>12. Owed(down, World, listener, source, stated, ending)'
    BY <1>3, <1>4, <1>7, <1>8, <2>5, <2>6, <2>11
  <2>13. ending' # "open" BY <2>6, <2>7
  <2> QED BY <1>3, <1>5, <2>12, <2>13 DEF CodecInv
<1> QED BY <1>15, <1>16

\* Every step keeps the invariant.
LEMMA CodecInvNext == CodecInv /\ [CodecNext]_codec => CodecInv'
<1> SUFFICES ASSUME CodecInv, [CodecNext]_codec PROVE CodecInv' OBVIOUS
<1>1. CASE ReadFrame BY <1>1, ReadFrameKeeps
<1>2. CASE BodyEnds
  <2>1. ConcludeRelay(FALSE, FALSE) BY <1>2 DEF BodyEnds
  <2> QED BY <2>1, ConcludeKeeps
<1>3. CASE ReadFails
  <2>1. PICK benign \in BOOLEAN : ConcludeRelay(TRUE, benign) BY <1>3 DEF ReadFails
  <2> QED BY <2>1, ConcludeKeeps
<1>4. CASE UNCHANGED codec
  <2>1. /\ pair' = pair /\ plan' = plan /\ unread' = unread /\ dec' = dec /\ enc' = enc
        /\ sawDone' = sawDone /\ listener' = listener /\ source' = source /\ stated' = stated
        /\ ending' = ending BY <1>4 DEF codec
  <2>2. World' = World /\ down' = down BY <2>1 DEF World, up, down
  <2>3. \A x, z : Reading(x, z)' <=> Reading(x, z) BY <2>1, <2>2 DEF Reading
  <2>4. Owed(down, World, listener, source, stated, ending)' BY <2>1, <2>2 DEF CodecInv
  <2>5. ending' = "open" => (\E x, z : Reading(x, z))' BY <2>1, <2>3 DEF CodecInv
  <2> QED BY <2>1, <2>4, <2>5 DEF CodecInv
<1> QED BY <1>1, <1>2, <1>3, <1>4 DEF CodecNext

\* The codecs' own invariant.
THEOREM CodecInvariant == CodecSpec => []CodecInv
BY CodecInvInit, CodecInvNext, PTL DEF CodecSpec

\* A caller of another protocol than the upstream's gets a well-formed stream, and
\* hears what a client of the upstream would have.
LEMMA PromisedIsHeard ==
  ASSUME CodecInv
  PROVE  CallerWireIsWellFormed /\ CallerHearsTheUpstream
<1>1. PICK misfiled : misfiled = (down = "claude" /\ Interleaved(plan.said)) OBVIOUS
<1>2. Owed(down, World, listener, source, stated, ending) BY DEF CodecInv
<1>3. SoundsAlike(down, World.loose, listener, source) BY <1>2 DEF Owed
<1>4. Misfiled <=> down = "claude" /\ World.loose BY WorldIs DEF Misfiled
<1>5. CallsHeard <=> CallsAgree(down, listener, source) BY DEF CallsHeard, CallsAgree
<1>6. CallerWireIsWellFormed BY <1>3, <1>4 DEF SoundsAlike, CallerWireIsWellFormed
<1>7. listener.think = source.think /\ listener.text = source.text /\ (Misfiled \/ CallsHeard)
  BY <1>3, <1>4, <1>5 DEF SoundsAlike
<1>8. /\ listener.over <=> ending = "served"
      /\ ending = "served" =>
         /\ stated = "ended"
         /\ EndClass(listener.end) = EndClass(source.end)
         /\ EndClass(source.end) = "normal" /\ source.calls # <<>> /\ down \in {"chat", "claude"}
              => listener.end \in {"tool_calls", "tool_use"}
      /\ (ending = "failed" /\ stated = "ended") => plan.fate = "errs late"
  BY <1>2, WorldIs DEF Owed
<1> QED BY <1>6, <1>7, <1>8 DEF CallerHearsTheUpstream

\* Every frame the caller gets has its place in its protocol, whatever the upstream
\* says and however many utterances it takes.
THEOREM CallerWireHolds == CodecSpec => []CallerWireIsWellFormed
<1>1. CodecInv => CallerWireIsWellFormed BY PromisedIsHeard
<1> QED BY <1>1, CodecInvariant, PTL

\* The caller hears every text and call of the upstream and no other, and an end
\* only if there was one, of its kind.
THEOREM CallerHearingHolds == CodecSpec => []CallerHearsTheUpstream
<1>1. CodecInv => CallerHearsTheUpstream BY PromisedIsHeard
<1> QED BY <1>1, CodecInvariant, PTL
=============================================================================
