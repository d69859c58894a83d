---------------------------- MODULE AnswerProofs ----------------------------
(***************************************************************************)
(* Proofs about the answer a caller gets.                                  *)
(*                                                                         *)
(* Usage, for every record of machine integers: the conversions lose       *)
(* nothing, no protocol's usage object is misread by the decoder of the    *)
(* same protocol, and no upstream can make a count negative.               *)
(*                                                                         *)
(* Stream, for bodies of any length: the caller holds a prefix of what the *)
(* upstream sent, a complete answer ends where the upstream ended it, no   *)
(* Read is served past the attempt's end, and every delivery comes to an   *)
(* end the exchange is built for.                                          *)
(***************************************************************************)
EXTENDS Usage, Stream, TLAPS

(* Usage. *)

\* An int, and a count that can be believed.
Ints == (0 - MaxInt - 1)..MaxInt
Tokens == 0..MaxInt

Records == [prompt : Ints, completion : Ints, total : Ints, read : Ints, write : Ints,
            reasoning : Ints, inPrompt : BOOLEAN, invalid : BOOLEAN]

\* What an honest answer costs: possible counts, a prompt among them, that add
\* up to an int.
Honest(u) ==
  /\ u \in Records
  /\ ~IsIncoherent(u)
  /\ u.prompt > 0
  /\ u.prompt + u.completion + u.read + u.write <= MaxInt

\* The components of a cost, that every protocol states in its own way.
SameCost(u, v) ==
  /\ NetPromptTokens(u) = NetPromptTokens(v)
  /\ GrossPromptTokens(u) = GrossPromptTokens(v)
  /\ u.completion = v.completion
  /\ u.read = v.read
  /\ u.write = v.write
----------------------------------------
(* Sums. *)

LEMMA IntFields ==
  ASSUME NEW u \in Records
  PROVE  /\ u.prompt \in Ints /\ u.completion \in Ints /\ u.total \in Ints
         /\ u.read \in Ints /\ u.write \in Ints /\ u.reasoning \in Ints
         /\ u.inPrompt \in BOOLEAN /\ u.invalid \in BOOLEAN
BY DEF Records

\* A sum is a count that fits, or it is not trusted.
LEMMA AddFits ==
  ASSUME NEW a \in Int, NEW b \in Int
  PROVE  /\ Add(a, b) \in Tokens \cup {Untrusted}
         /\ Add(a, b) # Untrusted => Add(a, b) = a + b /\ a >= 0 /\ b >= 0
         /\ (a >= 0 /\ b >= 0 /\ a + b <= MaxInt) => Add(a, b) = a + b
BY MaxIntAssumption DEF Add, Untrusted, Tokens

\* Counts of an honest record, and their sums.
LEMMA HonestCounts ==
  ASSUME NEW u, Honest(u)
  PROVE  /\ u.prompt \in Tokens /\ u.completion \in Tokens /\ u.total \in Tokens
         /\ u.read \in Tokens /\ u.write \in Tokens /\ u.reasoning \in Tokens
         /\ u.inPrompt \in BOOLEAN
         /\ u.invalid = FALSE
         /\ CacheOf(u) = u.read + u.write
         /\ PromptIncludesCache(u) => u.read + u.write <= u.prompt
<1>1. /\ u.prompt \in Ints /\ u.completion \in Ints /\ u.total \in Ints
      /\ u.read \in Ints /\ u.write \in Ints /\ u.reasoning \in Ints
      /\ u.inPrompt \in BOOLEAN /\ u.invalid \in BOOLEAN BY IntFields DEF Honest
<1>2. ~IsIncoherentMidStream(u) BY DEF Honest, IsIncoherent
<1>3. ~u.invalid /\ ~HasNegativeCount(u) BY <1>2 DEF IsIncoherentMidStream
<1>4. /\ u.prompt >= 0 /\ u.completion >= 0 /\ u.total >= 0
      /\ u.read >= 0 /\ u.write >= 0 /\ u.reasoning >= 0
  BY <1>1, <1>3, MaxIntAssumption DEF HasNegativeCount, Ints
<1>5. u.read + u.write <= MaxInt BY <1>1, <1>4, MaxIntAssumption DEF Honest, Ints
<1>6. CacheOf(u) = u.read + u.write
  BY <1>1, <1>4, <1>5, AddFits, MaxIntAssumption DEF CacheOf, Ints
<1>7. PromptIncludesCache(u) => u.read + u.write <= u.prompt
  BY <1>1, <1>2, <1>4, <1>6, MaxIntAssumption DEF IsIncoherentMidStream, Honest, Ints
<1> QED BY <1>1, <1>3, <1>4, <1>6, <1>7, MaxIntAssumption DEF Ints, Tokens

\* The two prompt counts of an honest record.
LEMMA HonestPrompts ==
  ASSUME NEW u, Honest(u)
  PROVE  /\ PromptIncludesCache(u) =>
              /\ NetPromptTokens(u) = u.prompt - (u.read + u.write)
              /\ GrossPromptTokens(u) = u.prompt
         /\ ~PromptIncludesCache(u) =>
              /\ NetPromptTokens(u) = u.prompt
              /\ GrossPromptTokens(u) = u.prompt + u.write + u.read
<1>0. /\ u.prompt \in Tokens /\ u.completion \in Tokens /\ u.total \in Tokens
      /\ u.read \in Tokens /\ u.write \in Tokens
      /\ CacheOf(u) = u.read + u.write
      /\ PromptIncludesCache(u) => u.read + u.write <= u.prompt
      /\ u.prompt + u.completion + u.read + u.write <= MaxInt BY HonestCounts DEF Honest
<1>1. CASE PromptIncludesCache(u)
  <2>1. CacheOf(u) # Untrusted BY <1>0, MaxIntAssumption DEF Untrusted, Tokens
  <2>2. NetPromptTokens(u) = Larger(u.prompt - CacheOf(u), 0)
    BY ONLY <1>1, <2>1 DEF NetPromptTokens
  <2>3. GrossPromptTokens(u) = Larger(u.prompt, 0) BY ONLY <1>1 DEF GrossPromptTokens
  <2> QED BY <1>0, <1>1, <2>2, <2>3, MaxIntAssumption DEF Larger, Tokens
<1>2. CASE ~PromptIncludesCache(u)
  <2>1. NetPromptTokens(u) = Larger(u.prompt, 0) BY ONLY <1>2 DEF NetPromptTokens
  <2>2. GrossPromptTokens(u) = Larger(Add(Add(u.prompt, u.write), u.read), 0)
    BY ONLY <1>2 DEF GrossPromptTokens
  <2>3. Add(u.prompt, u.write) = u.prompt + u.write BY <1>0, AddFits, MaxIntAssumption DEF Tokens
  <2>4. Add(u.prompt + u.write, u.read) = u.prompt + u.write + u.read
    BY <1>0, AddFits, MaxIntAssumption DEF Tokens
  <2> QED BY <1>0, <1>2, <2>1, <2>2, <2>3, <2>4, MaxIntAssumption DEF Larger, Tokens
<1> QED BY <1>1, <1>2
----------------------------------------
(* Nothing is billed twice, or not at all. *)

\* Whatever convention a record follows, its input splits into what is billed
\* as input and what is billed as cache.
THEOREM CacheIsBilledOnce ==
  ASSUME NEW u, Honest(u)
  PROVE  GrossPromptTokens(u) = NetPromptTokens(u) + u.read + u.write
<1>0. u.prompt \in Tokens /\ u.read \in Tokens /\ u.write \in Tokens BY HonestCounts
<1>1. /\ u.prompt \in Int /\ u.read \in Int /\ u.write \in Int
  BY <1>0, MaxIntAssumption DEF Tokens
<1> DEFINE n == NetPromptTokens(u)
           g == GrossPromptTokens(u)
<1>2. CASE PromptIncludesCache(u)
  <2>1. n = u.prompt - (u.read + u.write) /\ g = u.prompt BY <1>2, HonestPrompts
  <2> HIDE DEF n, g
  <2> QED BY <1>1, <2>1 DEF n, g
<1>3. CASE ~PromptIncludesCache(u)
  <2>1. n = u.prompt /\ g = u.prompt + u.write + u.read BY <1>3, HonestPrompts
  <2> HIDE DEF n, g
  <2> QED BY <1>1, <2>1 DEF n, g
<1> QED BY <1>2, <1>3

\* The prompt counts and the total of an honest record are counts that fit.
LEMMA HonestTotals ==
  ASSUME NEW u, Honest(u)
  PROVE  /\ NetPromptTokens(u) \in Tokens
         /\ GrossPromptTokens(u) \in Tokens
         /\ GrossPromptTokens(u) > 0
         /\ GrossPromptTokens(u) + u.completion <= MaxInt
         /\ GrossTotalTokens(u) = GrossPromptTokens(u) + u.completion
<1> DEFINE n == NetPromptTokens(u)
           g == GrossPromptTokens(u)
<1>0. /\ u.prompt \in Tokens /\ u.completion \in Tokens /\ u.total \in Tokens
      /\ u.read \in Tokens /\ u.write \in Tokens
      /\ CacheOf(u) = u.read + u.write
      /\ PromptIncludesCache(u) => u.read + u.write <= u.prompt
      /\ u.prompt > 0
      /\ u.prompt + u.completion + u.read + u.write <= MaxInt BY HonestCounts DEF Honest
<1>1. CASE PromptIncludesCache(u)
  <2>1. n = u.prompt - (u.read + u.write) /\ g = u.prompt BY <1>1, HonestPrompts
  <2> HIDE DEF n, g
  <2>2. n \in Tokens /\ g \in Tokens /\ g > 0 /\ g + u.completion <= MaxInt
    BY <1>0, <1>1, <2>1, MaxIntAssumption DEF Tokens
  <2>3. Add(g, u.completion) = g + u.completion
    BY <1>0, <2>2, AddFits, MaxIntAssumption DEF Tokens
  <2> QED BY <1>0, <2>2, <2>3, MaxIntAssumption DEF GrossTotalTokens, Larger, Tokens, n, g
<1>2. CASE ~PromptIncludesCache(u)
  <2>1. n = u.prompt /\ g = u.prompt + u.write + u.read BY <1>2, HonestPrompts
  <2> HIDE DEF n, g
  <2>2. n \in Tokens /\ g \in Tokens /\ g > 0 /\ g + u.completion <= MaxInt
    BY <1>0, <2>1, MaxIntAssumption DEF Tokens
  <2>3. Add(g, u.completion) = g + u.completion
    BY <1>0, <2>2, AddFits, MaxIntAssumption DEF Tokens
  <2> QED BY <1>0, <2>2, <2>3, MaxIntAssumption DEF GrossTotalTokens, Larger, Tokens, n, g
<1> QED BY <1>1, <1>2

\* A record that says its cache is in its prompt, and whose total is the sum of
\* the two, is taken at its word: an upstream that follows the OpenAI convention
\* is not mistaken for one that only speaks its format.
THEOREM GrossDialectIsBelieved ==
  ASSUME NEW u, Honest(u), u.inPrompt,
         u.total = u.prompt + u.completion, u.read + u.write <= u.prompt
  PROVE  NetPromptTokens(u) = u.prompt - (u.read + u.write)
<1>0. /\ u.prompt \in Tokens /\ u.completion \in Tokens /\ u.total \in Tokens
      /\ u.read \in Tokens /\ u.write \in Tokens
      /\ CacheOf(u) = u.read + u.write
      /\ u.prompt + u.completion + u.read + u.write <= MaxInt BY HonestCounts DEF Honest
<1>1. ~CacheSitsOutsidePrompt(u)
  <2> SUFFICES ASSUME CacheSitsOutsidePrompt(u) PROVE FALSE OBVIOUS
  <2> DEFINE c == u.read + u.write
             s == Add(u.prompt, u.completion)
  <2>1. c > 0 /\ Add(s, c) # Untrusted /\ Add(s, c) <= u.total BY <1>0 DEF CacheSitsOutsidePrompt
  <2>2. s = u.prompt + u.completion BY <1>0, AddFits, MaxIntAssumption DEF Tokens
  <2>3. Add(s, c) = u.prompt + u.completion + c
    BY <1>0, <2>1, <2>2, AddFits, MaxIntAssumption DEF Tokens
  <2> QED BY <1>0, <2>1, <2>3, MaxIntAssumption DEF Tokens
<1>2. PromptIncludesCache(u) BY <1>1 DEF PromptIncludesCache
<1> QED BY <1>2, HonestPrompts

\* A record that says so and whose total only adds up with the cache beside the
\* prompt is read as what it is: no cached token is taken out of the input twice.
THEOREM NetDialectIsSeen ==
  ASSUME NEW u \in Records, u.inPrompt, ~HasNegativeCount(u), u.read + u.write > 0,
         u.total = u.prompt + u.completion + u.read + u.write
  PROVE  /\ NetPromptTokens(u) = u.prompt
         /\ GrossPromptTokens(u) = u.prompt + u.read + u.write
<1>1. /\ u.prompt \in Tokens /\ u.completion \in Tokens /\ u.total \in Tokens
      /\ u.read \in Tokens /\ u.write \in Tokens
  BY IntFields, MaxIntAssumption DEF HasNegativeCount, Ints, Tokens
<1> DEFINE c == u.read + u.write
<1>2. CacheOf(u) = c BY <1>1, AddFits, MaxIntAssumption DEF CacheOf, Tokens
<1>3. Add(u.prompt, u.completion) = u.prompt + u.completion
  BY <1>1, AddFits, MaxIntAssumption DEF Tokens
<1>4. Add(u.prompt + u.completion, c) = u.total BY <1>1, AddFits, MaxIntAssumption DEF Tokens
<1>5. CacheSitsOutsidePrompt(u)
  BY <1>1, <1>2, <1>3, <1>4, MaxIntAssumption DEF CacheSitsOutsidePrompt, Untrusted, Tokens
<1>6. ~PromptIncludesCache(u) BY <1>5 DEF PromptIncludesCache
<1>7. NetPromptTokens(u) = Larger(u.prompt, 0) BY ONLY <1>6 DEF NetPromptTokens
<1>8. GrossPromptTokens(u) = Larger(Add(Add(u.prompt, u.write), u.read), 0)
  BY ONLY <1>6 DEF GrossPromptTokens
<1>9. Add(u.prompt, u.write) = u.prompt + u.write BY <1>1, AddFits, MaxIntAssumption DEF Tokens
<1>10. Add(u.prompt + u.write, u.read) = u.prompt + u.write + u.read
  BY <1>1, AddFits, MaxIntAssumption DEF Tokens
<1> QED BY <1>1, <1>7, <1>8, <1>9, <1>10, MaxIntAssumption DEF Larger, Tokens
----------------------------------------
(* No protocol's usage object is misread by that protocol's decoder. *)

\* A record whose cache is beside its prompt costs what it says.
LEMMA NetRecord ==
  ASSUME NEW v, ~v.inPrompt
  PROVE  /\ NetPromptTokens(v) = Larger(v.prompt, 0)
         /\ GrossPromptTokens(v) = Larger(Add(Add(v.prompt, v.write), v.read), 0)
<1>1. ~PromptIncludesCache(v) BY DEF PromptIncludesCache
<1> QED BY ONLY <1>1 DEF NetPromptTokens, GrossPromptTokens

\* What a Claude client reads of a cost is that cost.
THEOREM ClaudeCarriesTheCost ==
  ASSUME NEW u, Honest(u)
  PROVE  SameCost(ClaudeUsage(claudeUsageMap(u)), u)
<1> DEFINE w == claudeUsageMap(u)
           v == ClaudeUsage(w)
           n == NetPromptTokens(u)
<1>1. w = [input |-> n, output |-> u.completion, total |-> 0, read |-> u.read,
           write |-> u.write, reasoning |-> 0] BY HonestCounts DEF claudeUsageMap, Counts
<1>2. /\ v.prompt = n /\ v.completion = u.completion /\ v.read = u.read
      /\ v.write = u.write /\ v.inPrompt = FALSE BY <1>1 DEF ClaudeUsage, FromCounts
<1> HIDE DEF w, v
<1>3. n \in Tokens /\ u.write \in Tokens /\ u.read \in Tokens BY HonestTotals, HonestCounts
<1>4. n + u.write + u.read <= MaxInt
  BY <1>3, CacheIsBilledOnce, HonestTotals, HonestCounts, MaxIntAssumption DEF Tokens
<1> HIDE DEF n
<1>5. Add(n, u.write) = n + u.write BY <1>3, <1>4, AddFits, MaxIntAssumption DEF Tokens
<1>6. Add(n + u.write, u.read) = n + u.write + u.read
  BY <1>3, <1>4, AddFits, MaxIntAssumption DEF Tokens
<1>7. NetPromptTokens(v) = n BY <1>2, <1>3, NetRecord, MaxIntAssumption DEF Larger, Tokens
<1>8. GrossPromptTokens(v) = n + u.write + u.read
  BY <1>2, <1>3, <1>5, <1>6, NetRecord, MaxIntAssumption DEF Larger, Tokens
<1>9. GrossPromptTokens(v) = GrossPromptTokens(u)
  BY <1>3, <1>8, CacheIsBilledOnce, MaxIntAssumption DEF Tokens, n
<1> QED BY <1>2, <1>7, <1>9 DEF SameCost, v, w, n

\* A record of the gross convention with an exact total costs what it says.
LEMMA GrossRecord ==
  ASSUME NEW v, v.inPrompt,
         NEW g \in Tokens, NEW c \in Tokens, NEW r \in Tokens, NEW k \in Tokens,
         v.prompt = g, v.completion = c, v.read = r, v.write = k, v.total = g + c,
         g + c <= MaxInt, r + k <= g
  PROVE  /\ NetPromptTokens(v) = g - (r + k)
         /\ GrossPromptTokens(v) = g
<1>1. CacheOf(v) = r + k BY AddFits, MaxIntAssumption DEF CacheOf, Tokens
<1>2. Add(g, c) = g + c BY AddFits, MaxIntAssumption DEF Tokens
<1>3. ~CacheSitsOutsidePrompt(v)
  <2> SUFFICES ASSUME CacheSitsOutsidePrompt(v) PROVE FALSE OBVIOUS
  <2>1. /\ r + k > 0 /\ Add(g + c, r + k) # Untrusted
        /\ Add(g + c, r + k) <= g + c BY <1>1, <1>2 DEF CacheSitsOutsidePrompt
  <2>2. Add(g + c, r + k) = g + c + (r + k) BY <2>1, AddFits, MaxIntAssumption DEF Tokens
  <2> QED BY <2>1, <2>2, MaxIntAssumption DEF Tokens
<1>4. PromptIncludesCache(v) BY <1>3 DEF PromptIncludesCache
<1>5. CacheOf(v) # Untrusted BY <1>1, MaxIntAssumption DEF Untrusted, Tokens
<1>6. NetPromptTokens(v) = Larger(g - (r + k), 0) BY <1>1, <1>4, <1>5 DEF NetPromptTokens
<1>7. GrossPromptTokens(v) = Larger(g, 0) BY <1>4 DEF GrossPromptTokens
<1> QED BY <1>6, <1>7, MaxIntAssumption DEF Larger, Tokens

\* What a chat or Responses client reads of a cost is that cost, whether the
\* upstream's input was net or gross.
THEOREM OpenAICarriesTheCost ==
  ASSUME NEW u, Honest(u)
  PROVE  SameCost(OpenAIUsage(openAIWireUsage(u)), u)
<1> DEFINE w == openAIWireUsage(u)
           v == OpenAIUsage(w)
           g == GrossPromptTokens(u)
<1>1. w = [input |-> g, output |-> u.completion, total |-> g + u.completion,
           read |-> u.read, write |-> u.write, reasoning |-> u.reasoning]
  BY HonestCounts, HonestTotals DEF openAIWireUsage, Counts
<1>2. /\ v.prompt = g /\ v.completion = u.completion /\ v.total = g + u.completion
      /\ v.read = u.read /\ v.write = u.write /\ v.inPrompt = TRUE
  BY <1>1 DEF OpenAIUsage, FromCounts
<1> HIDE DEF w, v
<1>3. /\ g \in Tokens /\ u.completion \in Tokens /\ u.read \in Tokens /\ u.write \in Tokens
      /\ g + u.completion <= MaxInt BY HonestTotals, HonestCounts
<1>4. g = NetPromptTokens(u) + u.read + u.write BY CacheIsBilledOnce
<1>5. NetPromptTokens(u) \in Tokens BY HonestTotals
<1>6. u.read + u.write <= g BY <1>3, <1>4, <1>5, MaxIntAssumption DEF Tokens
<1>7. NetPromptTokens(v) = g - (u.read + u.write) /\ GrossPromptTokens(v) = g
  BY <1>2, <1>3, <1>6, GrossRecord
<1>8. NetPromptTokens(v) = NetPromptTokens(u)
  BY <1>3, <1>4, <1>5, <1>7, MaxIntAssumption DEF Tokens
<1> QED BY <1>2, <1>7, <1>8 DEF SameCost, v, w, g

\* What a Gemini client reads of a cost is that cost, with the thinking counted
\* once, when the answer has output or no thinking.
THEOREM GeminiCarriesTheCost ==
  ASSUME NEW u, Honest(u), u.completion > 0 \/ u.reasoning = 0
  PROVE  SameCost(GeminiUsage(buildGeminiUsage(u)), u)
<1> DEFINE w == buildGeminiUsage(u)
           v == GeminiUsage(w)
           g == GrossPromptTokens(u)
           o == Larger(u.completion - u.reasoning, 0)
<1>1. w = [input |-> g, output |-> o, total |-> g + u.completion,
           read |-> u.read, write |-> u.write, reasoning |-> u.reasoning]
  BY HonestCounts, HonestTotals DEF buildGeminiUsage, Counts
<1>2. /\ g \in Tokens /\ u.completion \in Tokens /\ u.read \in Tokens /\ u.write \in Tokens
      /\ u.reasoning \in Tokens /\ g + u.completion <= MaxInt BY HonestTotals, HonestCounts
<1>3. o \in Tokens /\ o <= u.completion BY <1>2, MaxIntAssumption DEF Larger, Tokens
<1> HIDE DEF g, o
<1>4. ~ \E n \in {w.input, w.output, w.total, w.read, w.write, w.reasoning} : n < 0
  BY <1>1, <1>2, <1>3, MaxIntAssumption DEF Tokens
<1>5. completionTokens(w) = u.completion
  <2>1. CASE u.completion > 0
    <3>1. w.total > w.input /\ w.total - w.input = u.completion
      BY <1>1, <1>2, <2>1, MaxIntAssumption DEF Tokens
    <3>2. completionTokens(w) = Larger(u.completion, o) BY <1>1, <3>1 DEF completionTokens
    <3> QED BY <1>2, <1>3, <3>2, MaxIntAssumption DEF Larger, Tokens
  <2>2. CASE u.completion = 0
    <3>1. o = 0 /\ u.reasoning = 0 BY <1>2, <1>3, <2>2, MaxIntAssumption DEF Tokens
    <3>2. completionTokens(w) = Plus(0, 0)
      BY <1>1, <1>2, <2>2, <3>1, MaxIntAssumption DEF completionTokens, Tokens
    <3> QED BY <2>2, <3>2, MaxIntAssumption DEF Plus
  <2> QED BY <1>2, <2>1, <2>2, MaxIntAssumption DEF Tokens
<1>6. Larger(w.total, Plus(w.input, u.completion)) = g + u.completion
  BY <1>1, <1>2, MaxIntAssumption DEF Larger, Plus, Tokens
<1>7. v = FromCounts(w.input, u.completion, g + u.completion, w, TRUE)
  BY <1>4, <1>5, <1>6 DEF GeminiUsage
<1>8. /\ v.prompt = g /\ v.completion = u.completion /\ v.total = g + u.completion
      /\ v.read = u.read /\ v.write = u.write /\ v.inPrompt = TRUE BY <1>1, <1>7 DEF FromCounts
<1> HIDE DEF w, v
<1>9. g = NetPromptTokens(u) + u.read + u.write BY CacheIsBilledOnce DEF g
<1>10. NetPromptTokens(u) \in Tokens BY HonestTotals
<1>11. u.read + u.write <= g BY <1>2, <1>9, <1>10, MaxIntAssumption DEF Tokens
<1>12. NetPromptTokens(v) = g - (u.read + u.write) /\ GrossPromptTokens(v) = g
  BY <1>2, <1>8, <1>11, GrossRecord
<1>13. NetPromptTokens(v) = NetPromptTokens(u)
  BY <1>2, <1>9, <1>10, <1>12, MaxIntAssumption DEF Tokens
<1> QED BY <1>8, <1>12, <1>13 DEF SameCost, v, w, g
----------------------------------------
(* Frames, and what no upstream can do. *)

\* Once a frame's counts are impossible no later frame makes them believable,
\* and a request's cost stays unbilled.
THEOREM AVerdictStays ==
  ASSUME NEW u, NEW src, u.invalid \in BOOLEAN, u.invalid \/ IsIncoherentMidStream(src)
  PROVE  Merge(u, src).invalid /\ ~HasBillableUsage(Merge(u, src))
BY DEF Merge, HasBillableUsage

\* A frame takes nothing away: a count that was stated stays until a frame states
\* another, and the total never falls behind what it is the total of.
THEOREM AFrameTakesNothingAway ==
  ASSUME NEW u \in Records, NEW src \in Records, ~HasNegativeCount(u), ~HasNegativeCount(src),
         Stated(src.prompt, u.prompt) + Stated(src.completion, u.completion) <= MaxInt
  PROVE  LET m == Merge(u, src) IN
         /\ src.prompt = 0 => m.prompt = u.prompt
         /\ src.completion = 0 => m.completion = u.completion
         /\ src.read = 0 => m.read = u.read
         /\ src.write = 0 => m.write = u.write
         /\ m.total >= m.prompt + m.completion
         /\ ~HasNegativeCount(m)
<1> DEFINE m == Merge(u, src)
<1>1. /\ u.prompt \in Tokens /\ u.completion \in Tokens /\ u.total \in Tokens
      /\ u.read \in Tokens /\ u.write \in Tokens /\ u.reasoning \in Tokens
  BY IntFields, MaxIntAssumption DEF HasNegativeCount, Ints, Tokens
<1>2. /\ src.prompt \in Tokens /\ src.completion \in Tokens /\ src.total \in Tokens
      /\ src.read \in Tokens /\ src.write \in Tokens /\ src.reasoning \in Tokens
  BY IntFields, MaxIntAssumption DEF HasNegativeCount, Ints, Tokens
<1> DEFINE p == Stated(src.prompt, u.prompt)
           c == Stated(src.completion, u.completion)
           t == Stated(src.total, u.total)
<1>3. m.prompt = p /\ m.completion = c
      /\ m.read = Stated(src.read, u.read) /\ m.write = Stated(src.write, u.write)
      /\ m.reasoning = Stated(src.reasoning, u.reasoning)
      /\ m.total = IF t = 0 \/ t < Plus(p, c) THEN Plus(p, c) ELSE t BY DEF Merge
<1>4. p \in Tokens /\ c \in Tokens /\ t \in Tokens
      /\ m.read \in Tokens /\ m.write \in Tokens /\ m.reasoning \in Tokens
  BY <1>1, <1>2, <1>3 DEF Stated
<1>5. Plus(p, c) = p + c BY <1>4, MaxIntAssumption DEF Plus, Tokens
<1> HIDE DEF m, p, c, t
<1>6. m.total >= m.prompt + m.completion /\ m.total >= 0
  BY <1>3, <1>4, <1>5, MaxIntAssumption DEF Tokens
<1>7. ~HasNegativeCount(m)
  <2>1. /\ m.prompt \in Nat /\ m.completion \in Nat /\ m.total \in Nat
        /\ m.read \in Nat /\ m.write \in Nat /\ m.reasoning \in Nat
    BY <1>3, <1>4, <1>5, MaxIntAssumption DEF Tokens
  <2> QED BY ONLY <2>1 DEF HasNegativeCount
<1>8. /\ src.prompt = 0 => m.prompt = u.prompt
      /\ src.completion = 0 => m.completion = u.completion
      /\ src.read = 0 => m.read = u.read
      /\ src.write = 0 => m.write = u.write BY <1>3 DEF Stated, p, c
<1> QED BY <1>6, <1>7, <1>8 DEF m

\* Whatever ints an upstream states, absurd or negative, what is billed and what
\* callers are told is a count that fits an int.
THEOREM NoCountIsNegative ==
  ASSUME NEW u \in Records
  PROVE  /\ NetPromptTokens(u) \in Tokens
         /\ GrossPromptTokens(u) \in Tokens
         /\ GrossTotalTokens(u) \in Tokens
<1>1. /\ u.prompt \in Ints /\ u.completion \in Ints /\ u.read \in Ints /\ u.write \in Ints
  BY IntFields
<1>2. CacheOf(u) \in Tokens \cup {Untrusted} BY <1>1, AddFits, MaxIntAssumption DEF CacheOf, Ints
<1>3. NetPromptTokens(u) \in Tokens
  <2>1. CASE ~PromptIncludesCache(u)
    BY <1>1, <2>1, MaxIntAssumption DEF NetPromptTokens, Larger, Ints, Tokens
  <2>2. CASE PromptIncludesCache(u) /\ CacheOf(u) = Untrusted
    BY <2>2, MaxIntAssumption DEF NetPromptTokens, Tokens
  <2>3. CASE PromptIncludesCache(u) /\ CacheOf(u) # Untrusted
    <3>1. NetPromptTokens(u) = Larger(u.prompt - CacheOf(u), 0) BY ONLY <2>3 DEF NetPromptTokens
    <3> QED BY <1>1, <1>2, <2>3, <3>1, MaxIntAssumption DEF Larger, Ints, Tokens
  <2> QED BY <2>1, <2>2, <2>3
<1>4. GrossPromptTokens(u) \in Tokens
  <2>1. CASE PromptIncludesCache(u)
    BY <1>1, <2>1, MaxIntAssumption DEF GrossPromptTokens, Larger, Ints, Tokens
  <2>2. CASE ~PromptIncludesCache(u)
    <3> DEFINE a == Add(u.prompt, u.write)
               b == Add(a, u.read)
    <3>1. a \in Tokens \cup {Untrusted} BY <1>1, AddFits, MaxIntAssumption DEF Ints
    <3>2. a \in Int BY <3>1, MaxIntAssumption DEF Tokens, Untrusted
    <3> HIDE DEF a
    <3>3. b \in Tokens \cup {Untrusted} BY <1>1, <3>2, AddFits, MaxIntAssumption DEF Ints
    <3>4. GrossPromptTokens(u) = Larger(b, 0) BY ONLY <2>2 DEF GrossPromptTokens, a
    <3> HIDE DEF b
    <3> QED BY <3>3, <3>4, MaxIntAssumption DEF Larger, Tokens, Untrusted
  <2> QED BY <2>1, <2>2
<1>5. GrossTotalTokens(u) \in Tokens
  <2> DEFINE g == GrossPromptTokens(u)
             b == Add(g, u.completion)
  <2>1. g \in Int /\ u.completion \in Int BY <1>1, <1>4, MaxIntAssumption DEF Tokens, Ints
  <2> HIDE DEF g
  <2>2. b \in Tokens \cup {Untrusted} BY <2>1, AddFits
  <2>3. GrossTotalTokens(u) = Larger(b, 0) BY DEF GrossTotalTokens, g
  <2> HIDE DEF b
  <2> QED BY <2>2, <2>3, MaxIntAssumption DEF Larger, Tokens, Untrusted
<1> QED BY <1>3, <1>4, <1>5
----------------------------------------
(* Stream. *)

\* Ends of the attempt, errors of a chunk, errors of a Read.
Ctxs == {None, "canceled", "deadline"}
ChunkErrs == {None, "eof", "torn", "reset", "closed", "canceled", "deadline"}
Chunks == [buf : Seq(Nat), err : ChunkErrs]
Errs == ChunkErrs \cup {"idle", "first_byte"}

\* Positions that follow n.
Run(s, n) == s \in Seq(Nat) /\ \A i \in 1..Len(s) : s[i] = n + i

\* What the channel holds.
Queued == IF chunkCh = <<>> THEN <<>> ELSE chunkCh[1].buf

\* Types of what reads the body.
BodyTyped ==
  /\ ctx \in Ctxs /\ began \in Ctxs
  /\ done \in BOOLEAN /\ firstByteReceived \in BOOLEAN
  /\ loop \in {"reading", "sending", "exited"}
  /\ taken \in 0 .. MaxFrames
  /\ timer \in {"running", "fired", "stopped"}
  /\ rd \in {"out", "entered", "drain", "select", "timer"}
  /\ pending \in [buf : Seq(Nat), err : ChunkErrs]
  /\ chunkCh \in Seq(Chunks) /\ Len(chunkCh) \in {0, 1}
  /\ leftover \in Seq(Nat) /\ lastErr \in Errs
  /\ result \in [buf : Seq(Nat), err : Errs]

\* What a Read in progress has made sure of.
ReadSound ==
  /\ rd \in {"drain", "select", "timer"} =>
          leftover = <<>> /\ lastErr = None /\ began = None
  /\ rd # "out" /\ began # None => ctx # None
  /\ rd # "out" => result = Nothing /\ at = "read"
  /\ at = "read" => lines = <<>> /\ scanErr = None
  /\ at # "read" => result = Nothing
  /\ loop # "sending" => pending = Nothing

\* The frames read up to lines, result, leftover and the channel.
Read0 == Len(looked) + Len(lines)
Read1 == Read0 + Len(result.buf)
Read2 == Read1 + Len(leftover)
Read3 == Read2 + Len(Queued)

\* Nothing is lost on the way, until an error ends the reading.
ChainSound ==
  /\ Run(lines, Len(looked))
  /\ Run(result.buf, Read0)
  /\ Run(leftover, Read1)
  /\ lastErr = None =>
      /\ Run(Queued, Read2)
      /\ Run(pending.buf, Read3)
      /\ loop # "exited" => taken = Read3 + Len(pending.buf)

\* What a reading ends with when the caller leaves.
Callers == {"canceled", "closed"}

\* No error names the caller before he has left.
BlameSound ==
  at # "ended" /\ ~gone =>
      /\ ctx # "canceled" /\ ~done
      /\ pending.err \notin Callers /\ lastErr \notin Callers
      /\ result.err \notin Callers /\ scanErr \notin Callers
      /\ chunkCh # <<>> => chunkCh[1].err \notin Callers

\* Frames, and those that announce the end.
Kinds == {"pre", "text", "usage", "stop", "final", "tail", "end", "fail"}
EndKinds == IF mode = "chat" THEN {"end"} ELSE {"stop", "final", "tail"}

\* The delivery has come to its end.
Ended == at \in {"closing", "ended"}

\* Types of what delivers it.
PumpTyped ==
  /\ mode \in Modes /\ gone \in BOOLEAN /\ committed \in BOOLEAN
  /\ at \in {"scan", "read", "finished", "closing", "ended"}
  /\ at = "finished" => ~Passthrough
  /\ scanErr \in Errs
  /\ looked \in Seq(Kinds) /\ sent \in Seq(Nat) /\ preamble \in Seq(Nat)
  /\ seen \subseteq {"done", "usage", "failed"}
  /\ Ended <=> outcome # NoOutcome

\* What is forwarded is everything, the preamble with the first data.
ForwardSound ==
  ~Ended /\ Passthrough =>
      IF committed THEN /\ preamble = <<>>
                        /\ Run(sent, 0) /\ Len(sent) = Len(looked)
      ELSE /\ sent = <<>>
           /\ Run(preamble, 0) /\ Len(preamble) = Len(looked)
           /\ \A i \in 1..Len(looked) : looked[i] = "pre"

\* What is translated is every text at least, once.
TranslateSound ==
  ~Ended /\ ~Passthrough =>
      /\ \A i \in 1..Len(sent) : sent[i] \in 1..Len(looked)
      /\ \A i \in 1..Len(looked) : looked[i] = "text" => \E j \in 1..Len(sent) : sent[j] = i
      /\ at # "finished" => \A i \in 1..Len(sent) : looked[sent[i]] # "tail"

\* What was sent is in order, but for a terminator.
Rising == \A i, j \in 1..Len(sent) : i < j /\ sent[j] # Terminator => sent[i] < sent[j]

\* An end that was said was said by a frame.
Announced == "done" \in seen => \E i \in 1..Len(looked) : looked[i] \in EndKinds

\* A complete answer ends where the upstream said it did.
CompleteSound ==
  outcome.d.complete =>
        \E last \in DOMAIN looked :
            /\ Texts(last) \subseteq Range(sent)
            /\ IF Passthrough THEN last \in Range(sent) ELSE Last(sent) = Terminator
            /\ looked[last] \in EndKinds

\* The empty run.
LEMMA RunNone == \A n \in Nat : Run(<<>>, n)
BY DEF Run

\* What the upstream's bytes become.
LEMMA RunPositions ==
  ASSUME NEW a \in Nat, NEW b \in Nat, a <= b
  PROVE  Run(Positions(a, b), a) /\ Len(Positions(a, b)) = b - a
<1>1. Positions(a, b) \in Seq(Nat) /\ Len(Positions(a, b)) = b - a BY DEF Positions
<1> QED BY <1>1 DEF Run, Positions

\* A run with the next position.
LEMMA RunLonger ==
  ASSUME NEW n \in Nat, NEW s, Run(s, n), NEW x, x = n + Len(s) + 1
  PROVE  Run(Append(s, x), n) /\ Len(Append(s, x)) = Len(s) + 1
BY DEF Run

\* A run without its first.
LEMMA RunTail ==
  ASSUME NEW n \in Nat, NEW s, Run(s, n), s # <<>>
  PROVE  /\ Run(Tail(s), n + 1) /\ Len(Tail(s)) = Len(s) - 1 /\ Len(s) > 0
         /\ s[1] = n + 1
BY DEF Run

\* A run in two, as a Read splits a chunk.
LEMMA RunSplit ==
  ASSUME NEW n \in Nat, NEW s, Run(s, n), NEW k \in 1..Len(s)
  PROVE  /\ Run(SubSeq(s, 1, k), n) /\ Len(SubSeq(s, 1, k)) = k
         /\ Run(Past(s, k), n + k) /\ Len(Past(s, k)) = Len(s) - k
<1>1. s \in Seq(Nat) /\ Len(s) \in Nat BY DEF Run
<1>2. SubSeq(s, 1, k) \in Seq(Nat) /\ Len(SubSeq(s, 1, k)) = k
      /\ \A i \in 1..k : SubSeq(s, 1, k)[i] = s[i] BY <1>1
<1>3. Past(s, k) \in Seq(Nat) /\ Len(Past(s, k)) = Len(s) - k
      /\ \A i \in 1..(Len(s) - k) : Past(s, k)[i] = s[k + i] BY <1>1 DEF Past
<1>4. \A i \in 1..Len(s) : s[i] = n + i BY DEF Run
<1>5. Run(SubSeq(s, 1, k), n) BY <1>1, <1>2, <1>4 DEF Run
<1>6. Run(Past(s, k), n + k) BY <1>1, <1>3, <1>4 DEF Run
<1> QED BY <1>2, <1>3, <1>5, <1>6

\* The two parts of a stream: what reads the body and what delivers it.
ReaderInv == BodyTyped /\ ReadSound /\ ChainSound /\ BlameSound

\* What is on its way is sequences.
LEMMA Lengths ==
  ASSUME BodyTyped, PumpTyped, ChainSound
  PROVE  /\ Len(looked) \in Nat /\ Len(lines) \in Nat /\ Len(result.buf) \in Nat
         /\ Len(leftover) \in Nat /\ Len(Queued) \in Nat /\ Len(pending.buf) \in Nat
         /\ Queued \in Seq(Nat)
<1>1. Queued \in Seq(Nat)
  <2>1. chunkCh # <<>> => chunkCh[1] \in Chunks BY DEF BodyTyped
  <2> QED BY <2>1 DEF Queued, Chunks
<1>2. lines \in Seq(Nat) BY DEF ChainSound, Run
<1> QED BY <1>1, <1>2 DEF BodyTyped, PumpTyped

\* So many frames have been read up to each place.
LEMMA ReadNats ==
  ASSUME BodyTyped, PumpTyped, ChainSound
  PROVE  Read0 \in Nat /\ Read1 \in Nat /\ Read2 \in Nat /\ Read3 \in Nat
<1>1. Read0 \in Nat BY Lengths DEF Read0
<1>2. Read1 \in Nat BY <1>1, Lengths DEF Read1
<1>3. Read2 \in Nat BY <1>2, Lengths DEF Read2
<1> QED BY <1>1, <1>2, <1>3, Lengths DEF Read3

\* A Read that brings an error.
LEMMA FailKeeps ==
  ASSUME ReaderInv, PumpTyped, rd # "out", rd' = "out",
         NEW e \in Errs \ {None}, ~gone => e \notin Callers,
         result' = Chunk(<<>>, e), lastErr' = e,
         leftover' \in {leftover, <<>>}, chunkCh' \in {chunkCh, <<>>},
         timer' \in {"running", "fired", "stopped"},
         UNCHANGED <<ctx, done, goroutine, firstByteReceived, began, pump, gone>>
  PROVE  ReaderInv'
<1> USE DEF ReaderInv, pump, goroutine
<1>1. BodyTyped'
  <2>1. result' \in [buf : Seq(Nat), err : Errs] BY DEF Chunk
  <2>4. chunkCh \in Seq(Chunks) /\ Len(chunkCh) \in {0, 1} /\ leftover \in Seq(Nat)
    BY DEF BodyTyped
  <2>5. <<>> \in Seq(Chunks) /\ Len(<<>>) = 0 /\ <<>> \in Seq(Nat) OBVIOUS
  <2>6. chunkCh' = chunkCh \/ chunkCh' = <<>> OBVIOUS
  <2>7. leftover' = leftover \/ leftover' = <<>> OBVIOUS
  <2>2. chunkCh' \in Seq(Chunks) /\ Len(chunkCh') \in {0, 1} BY <2>4, <2>5, <2>6
  <2>3. leftover' \in Seq(Nat) /\ lastErr' \in Errs BY <2>4, <2>5, <2>7
  <2> QED BY <2>1, <2>2, <2>3 DEF BodyTyped
<1>2. ReadSound' BY DEF ReadSound
<1>3. ChainSound'
  <2>1. Len(looked) + Len(lines) \in Nat BY Lengths
  <2>2. result.buf = <<>> /\ result'.buf = <<>> BY DEF ReadSound, Nothing, Chunk
  <2>3. Read0' = Read0 /\ Read0 \in Nat BY <2>1 DEF Read0
  <2>7. Read1 = Read0 + Len(result.buf) /\ Read1' = Read0' + Len(result'.buf) BY DEF Read1
  <2>8. Read1 = Read0 /\ Read1' = Read0 BY <2>2, <2>3, <2>7
  <2>4. Run(lines, Len(looked))' BY DEF ChainSound
  <2>5. Run(result.buf, Read0)' BY <2>1, <2>2, <2>3, RunNone DEF Read0
  <2>6. Run(leftover, Read1)' BY <2>8, <2>3, RunNone DEF ChainSound
  <2> QED BY <2>4, <2>5, <2>6 DEF ChainSound
<1>4. BlameSound' BY DEF BlameSound, Chunk, Callers
<1> QED BY <1>1, <1>2, <1>3, <1>4

\* A Read that takes what is queued.
LEMMA HandleChunkKeeps ==
  ASSUME ReaderInv, PumpTyped, rd \in {"drain", "select", "timer"},
         chunkCh # <<>>, HandleChunk(Head(chunkCh)),
         UNCHANGED <<ctx, done, goroutine, began, pump, gone>>
  PROVE  ReaderInv'
<1> USE DEF ReaderInv, pump, goroutine
<1> DEFINE c == Head(chunkCh)
           err == IF c.err # None /\ ctx # None THEN ctx ELSE c.err
<1>1. c \in [buf : Seq(Nat), err : ChunkErrs] /\ c = chunkCh[1]
  <2>1. c \in Chunks /\ c = chunkCh[1] BY DEF BodyTyped
  <2> QED BY <2>1 DEF Chunks
<1>2. /\ leftover = <<>> /\ lastErr = None /\ result = Nothing
      /\ err \in ChunkErrs BY <1>1 DEF ReadSound, BodyTyped, ChunkErrs, Ctxs
<1>3. Queued = c.buf BY <1>1 DEF Queued
<1>4. /\ Len(looked) + Len(lines) \in Nat
      /\ Read1 = Read0 /\ Read2 = Read0 /\ Read0 \in Nat /\ Run(c.buf, Read0)
      /\ Read3 = Read0 + Len(c.buf) /\ Len(c.buf) \in Nat /\ Read0' = Read0
  BY <1>1, <1>2, <1>3, Lengths DEF Read0, Read1, Read2, Read3, Nothing, Chunk, ChainSound
<1>5. /\ chunkCh' = <<>> /\ rd' = "out" /\ lastErr' = err
      /\ timer' \in {"running", "stopped"} /\ firstByteReceived' \in BOOLEAN
  BY DEF HandleChunk, Return, BodyTyped
<1>6. /\ Run(result'.buf, Read0) /\ Run(leftover', Read0 + Len(result'.buf))
      /\ Len(result'.buf) + Len(leftover') = Len(c.buf) /\ Len(result'.buf) \in Nat
      /\ result'.err \in {err, None} /\ result' \in [buf : Seq(Nat), err : Errs]
  <2>1. CASE c.buf = <<>>
    <3>1. result' = Chunk(<<>>, err) /\ leftover' = <<>> BY <2>1 DEF HandleChunk, Return
    <3> QED BY <3>1, <2>1, <1>2, <1>4, RunNone DEF Chunk, Errs
  <2>2. CASE c.buf # <<>>
    <3>1. PICK n \in 1..Len(c.buf) :
                result' = Chunk(SubSeq(c.buf, 1, n), None) /\ leftover' = Past(c.buf, n)
      BY <2>2 DEF HandleChunk, Return
    <3>2. /\ Run(SubSeq(c.buf, 1, n), Read0) /\ Len(SubSeq(c.buf, 1, n)) = n
          /\ Run(Past(c.buf, n), Read0 + n) /\ Len(Past(c.buf, n)) = Len(c.buf) - n
      BY <1>4, RunSplit
    <3>3. result'.buf = SubSeq(c.buf, 1, n) /\ result'.err = None BY <3>1 DEF Chunk
    <3>4. SubSeq(c.buf, 1, n) \in Seq(Nat) /\ None \in Errs BY <3>2 DEF Errs, ChunkErrs, Run
    <3>5. result' \in [buf : Seq(Nat), err : Errs] BY <3>1, <3>4 DEF Chunk
    <3>6. n \in Nat /\ Len(c.buf) \in Nat /\ leftover' = Past(c.buf, n) BY <3>1, <1>4
    <3>7. Len(result'.buf) = n /\ Len(leftover') = Len(c.buf) - n BY <3>2, <3>3, <3>6
    <3>8. Run(result'.buf, Read0) /\ Run(leftover', Read0 + Len(result'.buf))
      BY <3>2, <3>3, <3>6, <3>7
    <3>9. Len(result'.buf) + Len(leftover') = Len(c.buf)
      <4> HIDE DEF c
      <4> QED BY <3>6, <3>7
    <3>10. Len(result'.buf) \in Nat BY <3>6, <3>7
    <3> QED BY <3>3, <3>5, <3>8, <3>9, <3>10
  <2> QED BY <2>1, <2>2
<1> HIDE DEF c, err
<1>7. BodyTyped' BY <1>2, <1>5, <1>6 DEF BodyTyped, Errs, Run
<1>8. ReadSound' BY <1>5 DEF ReadSound
<1>9. ChainSound'
  <2>1. Queued' = <<>> /\ pending' = pending /\ loop' = loop /\ taken' = taken BY <1>5 DEF Queued
  <2>2. /\ Read1' = Read0 + Len(result'.buf) /\ Read2' = Read0 + Len(c.buf)
        /\ Read3' = Read3
    <3>1. /\ Read1' = Read0' + Len(result'.buf) /\ Read2' = Read1' + Len(leftover')
          /\ Read3' = Read2' + Len(Queued') BY DEF Read1, Read2, Read3
    <3>2. Len(Queued') = 0 /\ Len(leftover') \in Nat BY <2>1, <1>6 DEF Run
    <3> QED BY <3>1, <3>2, <1>4, <1>6
  <2>3. Run(lines, Len(looked))' BY DEF ChainSound
  <2>4. Run(result.buf, Read0)' BY <1>4, <1>6
  <2>5. Run(leftover, Read1)' BY <1>6, <2>2
  <2>6. Run(Queued, Read2)' BY <2>1, <2>2, <1>4, RunNone
  <2>7. Run(pending.buf, Read3)' /\ (loop # "exited" => taken = Read3 + Len(pending.buf))'
    BY <2>1, <2>2, <1>2 DEF ChainSound
  <2> QED BY <2>3, <2>4, <2>5, <2>6, <2>7 DEF ChainSound
<1>10. BlameSound'
  <2>1. at # "ended" /\ ~gone => c.err \notin Callers /\ err \notin Callers
    BY <1>1 DEF BlameSound, err, Callers, None, BodyTyped, Ctxs
  <2> QED BY <2>1, <1>2, <1>5, <1>6 DEF BlameSound, Callers, None
<1> QED BY <1>7, <1>8, <1>9, <1>10

\* Reading the rest of a chunk.
LEMMA ReadRestKeeps ==
  ASSUME ReaderInv, PumpTyped, rd = "entered", ReadRest,
         UNCHANGED <<ctx, done, goroutine, chunkCh, firstByteReceived, began, pump, gone>>
  PROVE  ReaderInv'
<1> USE DEF ReaderInv, pump, goroutine
<1>1. PICK n \in 1..Len(leftover) :
        /\ rd' = "out" /\ result' = Chunk(SubSeq(leftover, 1, n), None)
        /\ leftover' = Past(leftover, n) /\ lastErr' = lastErr /\ timer' = timer
  BY DEF ReadRest, Return
<1>2. /\ Len(looked) + Len(lines) \in Nat /\ result = Nothing
      /\ Read1 = Read0 /\ Read0 \in Nat /\ Read0' = Read0
      /\ Read2 = Read0 + Len(leftover) /\ Len(leftover) \in Nat
  BY Lengths DEF Read0, Read1, Read2, ReadSound, Nothing, Chunk
<1>3. /\ Run(SubSeq(leftover, 1, n), Read0) /\ Len(SubSeq(leftover, 1, n)) = n
      /\ Run(Past(leftover, n), Read0 + n) /\ Len(Past(leftover, n)) = Len(leftover) - n
  BY <1>2, RunSplit DEF ChainSound
<1>4. /\ result'.buf = SubSeq(leftover, 1, n) /\ result'.err = None
      /\ result' \in [buf : Seq(Nat), err : Errs] BY <1>1, <1>3 DEF Chunk, Errs, ChunkErrs, Run
<1>5. BodyTyped' BY <1>1, <1>3, <1>4 DEF BodyTyped, Run
<1>6. ReadSound' BY <1>1 DEF ReadSound
<1>7. ChainSound'
  <2>1. Queued' = Queued /\ pending' = pending /\ loop' = loop /\ taken' = taken BY DEF Queued
  <2>2. Read1' = Read0 + n /\ Read2' = Read2 /\ Read3' = Read3
    <3>1. /\ Read1' = Read0' + Len(result'.buf) /\ Read2' = Read1' + Len(leftover')
          /\ Read3' = Read2' + Len(Queued') /\ Read3 = Read2 + Len(Queued)
      BY DEF Read1, Read2, Read3
    <3>2. Len(result'.buf) = n /\ Len(leftover') = Len(leftover) - n /\ n \in Nat
      BY <1>1, <1>3, <1>4
    <3>3. Read0' = Read0 /\ Read0 \in Nat /\ Read2 = Read0 + Len(leftover)
          /\ Len(leftover) \in Nat /\ Queued' = Queued BY <2>1, <1>2
    <3>4. Read1' = Read0 + n BY <3>1, <3>2, <3>3
    <3>5. Read2' = Read2 BY <3>1, <3>2, <3>3, <3>4
    <3> QED BY <3>1, <3>3, <3>4, <3>5
  <2>3. Run(lines, Len(looked))' BY DEF ChainSound
  <2>4. Run(result.buf, Read0)' BY <1>2, <1>3, <1>4
  <2>5. Run(leftover, Read1)' BY <1>1, <1>3, <2>2
  <2> QED BY <2>1, <2>2, <2>3, <2>4, <2>5, <1>1 DEF ChainSound
<1>8. BlameSound' BY <1>1, <1>4 DEF BlameSound, Callers, None
<1> QED BY <1>5, <1>6, <1>7, <1>8

\* The goroutine has read something, or an error.
LEMMA ReceiveKeeps ==
  ASSUME ReaderInv, PumpTyped, NEW buf, NEW err \in ChunkErrs,
         Run(buf, taken), taken + Len(buf) <= MaxFrames,
         at # "ended" /\ ~gone => err \notin Callers,
         Receive(Chunk(buf, err)), UNCHANGED <<pump, gone>>
  PROVE  ReaderInv'
<1> USE DEF ReaderInv, pump
<1>1. /\ loop = "reading" /\ loop' = "sending" /\ pending = Nothing
      /\ pending' = Chunk(buf, err) /\ taken' = taken + Len(buf)
      /\ UNCHANGED <<ctx, done, chunkCh, clock, leftover, lastErr, rd, result, began>>
  BY DEF Receive, Chunk, ReadSound
<1>2. /\ pending'.buf = buf /\ pending'.err = err /\ buf \in Seq(Nat) /\ Len(buf) \in Nat
      /\ pending' \in Chunks BY <1>1 DEF Chunk, Run, Chunks
<1>3. BodyTyped' BY <1>1, <1>2 DEF BodyTyped, Chunks, clock
<1>4. ReadSound' BY <1>1 DEF ReadSound
<1>5. ChainSound'
  <2>1. Queued' = Queued /\ Read0' = Read0 BY <1>1 DEF Queued, Read0
  <2>2. Read1' = Read1 /\ Read2' = Read2 /\ Read3' = Read3 BY <2>1, <1>1 DEF Read1, Read2, Read3
  <2>3. Read3 \in Nat BY ReadNats
  <2>4. lastErr = None => taken = Read3 + Len(pending.buf) BY <1>1 DEF ChainSound
  <2>5. lastErr = None => taken = Read3 BY <2>3, <2>4, <1>1 DEF Nothing, Chunk
  <2> QED BY <2>1, <2>2, <2>5, <1>1, <1>2 DEF ChainSound
<1>6. BlameSound' BY <1>1, <1>2 DEF BlameSound
<1> QED BY <1>3, <1>4, <1>5, <1>6

\* The upstream's bytes arrive.
LEMMA ArriveKeeps ==
  ASSUME ReaderInv, PumpTyped, Arrive, UNCHANGED <<pump, gone>>
  PROVE  ReaderInv'
<1>1. PICK to \in taken .. MaxFrames, end \in {None, "eof", "torn", "reset"} :
        Receive(Chunk(Positions(taken, to), end)) BY DEF Arrive
<1>2. taken \in Nat /\ to \in Nat /\ taken <= to /\ to <= MaxFrames
  BY FramesAssumption DEF ReaderInv, BodyTyped
<1>3. Run(Positions(taken, to), taken) /\ taken + Len(Positions(taken, to)) <= MaxFrames
  BY <1>2, FramesAssumption, RunPositions
<1>4. end \in ChunkErrs /\ end \notin Callers BY DEF ChunkErrs, Callers, None
<1> QED BY <1>1, <1>3, <1>4, ReceiveKeeps

\* The attempt's end, or Close, ends the goroutine's read.
LEMMA UnblockKeeps ==
  ASSUME ReaderInv, PumpTyped, Unblock, UNCHANGED <<pump, gone>>
  PROVE  ReaderInv'
<1>1. PICK err \in {ctx, "closed"} :
        /\ Receive(Chunk(<<>>, err)) /\ err \in ChunkErrs
        /\ at # "ended" /\ ~gone => err \notin Callers
  BY DEF Unblock, ReaderInv, BodyTyped, Ctxs, ChunkErrs, BlameSound, Callers, None
<1>2. taken \in Nat /\ taken <= MaxFrames BY FramesAssumption DEF ReaderInv, BodyTyped
<1>3. Run(<<>>, taken) /\ taken + Len(<<>>) <= MaxFrames
  <2>1. Len(<<>>) = 0 OBVIOUS
  <2> QED BY <2>1, <1>2, RunNone
<1>4. Receive(Chunk(<<>>, err)) /\ err \in ChunkErrs
      /\ (at # "ended" /\ ~gone => err \notin Callers) BY <1>1
<1> QED BY <1>3, <1>4, ReceiveKeeps

\* The chunk is queued.
LEMMA SendChunkKeeps ==
  ASSUME ReaderInv, PumpTyped, SendChunk, UNCHANGED <<pump, gone>>
  PROVE  ReaderInv'
<1> USE DEF ReaderInv, pump
<1>1. /\ loop = "sending" /\ chunkCh = <<>> /\ chunkCh' = <<pending>>
      /\ loop' \in {"reading", "exited"} /\ pending' = Nothing
      /\ UNCHANGED <<ctx, done, taken, clock, leftover, lastErr, rd, result, began>>
  BY DEF SendChunk
<1>2. pending \in Chunks /\ pending.buf \in Seq(Nat) BY DEF BodyTyped, Chunks
<1>3. /\ Nothing \in Chunks /\ Nothing.buf = <<>> /\ Nothing.err = None
      /\ chunkCh'[1] = pending /\ chunkCh' # <<>> /\ Len(chunkCh') = 1
      /\ chunkCh' \in Seq(Chunks) BY <1>1, <1>2 DEF Nothing, Chunk, Chunks, ChunkErrs
<1>4. BodyTyped' BY <1>1, <1>3 DEF BodyTyped, Chunks, clock
<1>5. ReadSound' BY <1>1 DEF ReadSound
<1>6. ChainSound'
  <2>1. Queued = <<>> /\ Queued' = pending.buf /\ Read0' = Read0 BY <1>1, <1>3 DEF Queued, Read0
  <2>2. Read1' = Read1 /\ Read2' = Read2 BY <2>1, <1>1 DEF Read1, Read2
  <2>3. Read2 \in Nat /\ Len(pending.buf) \in Nat BY Lengths, ReadNats
  <2>4. Read3 = Read2 BY <2>1, <2>3 DEF Read3
  <2>5. Read3' = Read2 + Len(pending.buf) BY <2>1, <2>2 DEF Read3
  <2>6. Read3' \in Nat /\ Len(pending'.buf) = 0 /\ Run(pending'.buf, Read3')
    BY <2>3, <2>5, <1>1, <1>3, RunNone
  <2>7. lastErr = None => Run(Queued', Read2') /\ taken' = Read3' + Len(pending'.buf)
    BY <1>1, <2>1, <2>2, <2>3, <2>4, <2>5, <2>6 DEF ChainSound
  <2>8. Run(lines, Len(looked))' /\ Run(result.buf, Read0)' /\ Run(leftover, Read1)'
    BY <1>1, <2>1, <2>2 DEF ChainSound
  <2> QED BY <1>1, <2>6, <2>7, <2>8 DEF ChainSound
<1>7. BlameSound' BY <1>1, <1>3 DEF BlameSound, Callers, None
<1> QED BY <1>4, <1>5, <1>6, <1>7

\* The chunk is given up, and with it the goroutine.
LEMMA QuitSendingKeeps ==
  ASSUME ReaderInv, PumpTyped, QuitSending, UNCHANGED <<pump, gone>>
  PROVE  ReaderInv'
<1> USE DEF ReaderInv, pump
<1>1. /\ loop' = "exited" /\ pending' = Nothing
      /\ UNCHANGED <<ctx, done, taken, chunkCh, clock, leftover, lastErr, rd, result, began>>
  BY DEF QuitSending
<1>2. Nothing \in Chunks /\ Nothing.buf = <<>> /\ Nothing.err = None
  BY DEF Nothing, Chunk, Chunks, ChunkErrs
<1>3. BodyTyped' BY <1>1, <1>2 DEF BodyTyped, Chunks, clock
<1>4. ReadSound' BY <1>1 DEF ReadSound
<1>5. ChainSound'
  <2>1. Queued' = Queued /\ Read0' = Read0 BY <1>1 DEF Queued, Read0
  <2>2. Read1' = Read1 /\ Read2' = Read2 /\ Read3' = Read3 BY <2>1, <1>1 DEF Read1, Read2, Read3
  <2>3. Read3 \in Nat BY ReadNats
  <2>4. Run(pending'.buf, Read3) BY <2>3, <1>1, <1>2, RunNone
  <2> QED BY <1>1, <2>1, <2>2, <2>4 DEF ChainSound
<1>6. BlameSound' BY <1>1, <1>2 DEF BlameSound, Callers, None
<1> QED BY <1>3, <1>4, <1>5, <1>6

\* A Read that touches nothing yet.
LEMMA EnterKeeps ==
  ASSUME ReaderInv, PumpTyped, rd \in {"entered", "drain", "select"},
         rd' \in {"drain", "select", "timer"}, leftover = <<>>, lastErr = None, began = None,
         UNCHANGED <<ctx, done, goroutine, chunkCh, clock, leftover, lastErr, result, began,
                     pump, gone>>
  PROVE  ReaderInv'
<1> USE DEF ReaderInv, pump, goroutine, clock
<1>1. BodyTyped' BY DEF BodyTyped
<1>2. ReadSound' BY DEF ReadSound
<1>3. ChainSound' BY DEF ChainSound, Queued, Read0, Read1, Read2, Read3
<1>4. BlameSound' BY DEF BlameSound
<1> QED BY <1>1, <1>2, <1>3, <1>4

\* The context's end, as an error to report.
LEMMA CtxIsError ==
  ASSUME ReaderInv, at = "read", ctx # None
  PROVE  ctx \in Errs \ {None} /\ (~gone => ctx \notin Callers)
BY DEF ReaderInv, BodyTyped, BlameSound, Ctxs, Errs, ChunkErrs, Callers, None

\* What the channel gives, or that it is closed.
LEMMA HandleKeeps ==
  ASSUME ReaderInv, PumpTyped, rd \in {"drain", "select", "timer"}, Handle,
         UNCHANGED <<ctx, done, goroutine, began, pump, gone>>
  PROVE  ReaderInv'
<1>1. CASE chunkCh # <<>> BY <1>1, HandleChunkKeeps DEF Handle
<1>2. CASE chunkCh = <<>>
  <2> DEFINE e == IF ctx # None THEN ctx ELSE "eof"
  <2>1. at = "read" BY DEF ReaderInv, ReadSound
  <2>2. e \in Errs \ {None} /\ (~gone => e \notin Callers)
    BY <2>1, CtxIsError DEF Errs, ChunkErrs, Callers, None
  <2>3. /\ rd # "out" /\ rd' = "out" /\ result' = Chunk(<<>>, e) /\ lastErr' = e
        /\ leftover' = leftover /\ chunkCh' = chunkCh /\ timer' = "stopped"
        /\ firstByteReceived' = firstByteReceived BY <1>2 DEF Handle, HandleClosed, Fail, Return
  <2> HIDE DEF e
  <2> QED BY <2>2, <2>3, FailKeeps
<1> QED BY <1>1, <1>2

\* The context's error, whatever is queued.
LEMMA CtxKeeps ==
  ASSUME ReaderInv, PumpTyped, rd # "out", ctx # None, Fail(ctx),
         leftover' \in {leftover, <<>>}, chunkCh' \in {chunkCh, <<>>},
         timer' \in {timer, "stopped"},
         UNCHANGED <<ctx, done, goroutine, firstByteReceived, began, pump, gone>>
  PROVE  ReaderInv'
<1>1. at = "read" BY DEF ReaderInv, ReadSound
<1>2. ctx \in Errs \ {None} /\ (~gone => ctx \notin Callers) BY <1>1, CtxIsError
<1>3. rd' = "out" /\ result' = Chunk(<<>>, ctx) /\ lastErr' = ctx BY DEF Fail, Return
<1>4. timer' \in {"running", "fired", "stopped"} BY DEF ReaderInv, BodyTyped
<1> QED BY <1>2, <1>3, <1>4, FailKeeps

\* A Read as it begins: the rest of a chunk, an error, or a look at the channel.
LEMMA EnterReadKeeps ==
  ASSUME ReaderInv, PumpTyped, EnterRead, UNCHANGED <<pump, gone>>
  PROVE  ReaderInv'
<1>1. /\ rd = "entered" /\ at = "read"
      /\ UNCHANGED <<ctx, done, goroutine, chunkCh, firstByteReceived, began>>
  BY DEF EnterRead, ReaderInv, ReadSound
<1>2. CASE leftover # <<>> /\ Cancelled BY <1>1, <1>2, CtxKeeps DEF EnterRead, Cancelled
<1>3. CASE leftover # <<>> /\ ~Cancelled
  <2>1. ReadRest BY <1>3 DEF EnterRead
  <2> QED BY <1>1, <2>1, ReadRestKeeps
<1>4. CASE leftover = <<>> /\ lastErr # None
  <2>1. /\ rd' = "out" /\ result' = Chunk(<<>>, lastErr)
        /\ UNCHANGED <<leftover, lastErr, timer>> BY <1>4 DEF EnterRead, Return
  <2>2. /\ lastErr \in Errs \ {None} /\ (~gone => lastErr \notin Callers)
        /\ timer \in {"running", "fired", "stopped"}
    BY <1>1, <1>4 DEF ReaderInv, BodyTyped, BlameSound
  <2> QED BY <1>1, <2>1, <2>2, FailKeeps
<1>5. CASE leftover = <<>> /\ lastErr = None /\ Cancelled
  BY <1>1, <1>5, CtxKeeps DEF EnterRead, Cancelled
<1>6. CASE leftover = <<>> /\ lastErr = None /\ ~Cancelled
  <2>1. rd' = "drain" /\ UNCHANGED <<leftover, lastErr, timer, result>> BY <1>6 DEF EnterRead
  <2>2. began = None BY <1>1, <1>6 DEF Cancelled, ReaderInv, ReadSound
  <2> QED BY <1>1, <1>6, <2>1, <2>2, EnterKeeps DEF clock
<1> QED BY <1>2, <1>3, <1>4, <1>5, <1>6

\* The end of the wait.
LEMMA WaitKeeps ==
  ASSUME ReaderInv, PumpTyped, Drain \/ SelectCtx \/ SelectChunk \/ SelectTimer \/ Recheck,
         UNCHANGED <<pump, gone>>
  PROVE  ReaderInv'
<1>1. /\ rd \in {"drain", "select", "timer"} /\ at = "read"
      /\ leftover = <<>> /\ lastErr = None /\ began = None
      /\ UNCHANGED <<ctx, done, goroutine, began>>
  BY DEF Drain, SelectCtx, SelectChunk, SelectTimer, Recheck, ReaderInv, ReadSound
<1>2. CASE Drain
  <2>1. CASE Ready BY <1>1, <1>2, <2>1, HandleKeeps DEF Drain
  <2>2. CASE ~Ready
    <3>1. rd = "drain" /\ rd' = "select"
          /\ UNCHANGED <<chunkCh, clock, leftover, lastErr, result>> BY <1>2, <2>2 DEF Drain
    <3> QED BY <1>1, <3>1, EnterKeeps
  <2> QED BY <2>1, <2>2
<1>3. CASE SelectCtx
  <2>1. ctx # None /\ Fail(ctx) /\ timer' = "stopped"
        /\ UNCHANGED <<chunkCh, firstByteReceived, leftover>> BY <1>3 DEF SelectCtx
  <2> QED BY <1>1, <2>1, CtxKeeps
<1>4. CASE SelectChunk
  <2>1. CASE ctx # None
    <3>1. Discard /\ timer' = "stopped" BY <1>4, <2>1 DEF SelectChunk
    <3> QED BY <1>1, <2>1, <3>1, CtxKeeps DEF Discard
  <2>2. CASE ctx = None
    <3>1. Handle BY <1>4, <2>2 DEF SelectChunk
    <3> QED BY <1>1, <3>1, HandleKeeps
  <2> QED BY <2>1, <2>2
<1>5. CASE SelectTimer
  <2>1. UNCHANGED <<chunkCh, clock, leftover>> BY <1>5 DEF SelectTimer
  <2>2. CASE ctx # None
    <3>1. Fail(ctx) BY <1>5, <2>2 DEF SelectTimer
    <3> QED BY <1>1, <2>1, <2>2, <3>1, CtxKeeps DEF clock
  <2>3. CASE ctx = None
    <3>1. rd = "select" /\ rd' = "timer" /\ UNCHANGED <<lastErr, result>>
      BY <1>5, <2>3 DEF SelectTimer
    <3> QED BY <1>1, <2>1, <3>1, EnterKeeps
  <2> QED BY <2>2, <2>3
<1>6. CASE Recheck
  <2>1. CASE Ready /\ ctx # None
    <3>1. Discard /\ timer' = timer BY <1>6, <2>1 DEF Recheck
    <3> QED BY <1>1, <2>1, <3>1, CtxKeeps DEF Discard
  <2>2. CASE Ready /\ ctx = None
    <3>1. Handle BY <1>6, <2>2 DEF Recheck
    <3> QED BY <1>1, <3>1, HandleKeeps
  <2>3. CASE ~Ready
    <3>1. PICK e \in {"idle", "first_byte"} :
            Fail(e) /\ UNCHANGED <<chunkCh, clock, leftover>> BY <1>6, <2>3 DEF Recheck
    <3>2. e \in Errs \ {None} /\ e \notin Callers BY DEF Errs, ChunkErrs, Callers, None
    <3>3. rd' = "out" /\ result' = Chunk(<<>>, e) /\ lastErr' = e BY <3>1 DEF Fail, Return
    <3>4. /\ timer' \in {"running", "fired", "stopped"}
          /\ firstByteReceived' = firstByteReceived BY <3>1 DEF ReaderInv, BodyTyped, clock
    <3> QED BY <1>1, <3>1, <3>2, <3>3, <3>4, FailKeeps
  <2> QED BY <2>1, <2>2, <2>3
<1> QED BY <1>2, <1>3, <1>4, <1>5, <1>6

\* The reading as a whole.
LEMMA ReadKeeps ==
  ASSUME ReaderInv, PumpTyped, Read \/ Tick \/ Upstream
  PROVE  ReaderInv' /\ UNCHANGED <<pump, gone>>
<1>1. UNCHANGED <<pump, gone>> BY DEF Read, Tick, Upstream
<1>2. CASE Read
  BY <1>1, <1>2, UnblockKeeps, SendChunkKeeps, QuitSendingKeeps, EnterReadKeeps, WaitKeeps
  DEF Read, ReaderSteps
<1>3. CASE Upstream BY <1>1, <1>3, ArriveKeeps DEF Upstream
<1>4. CASE Tick
  <2>1. /\ timer' = "fired"
        /\ UNCHANGED <<ctx, done, goroutine, chunkCh, firstByteReceived, leftover, lastErr, rd,
                       result, began, pump, gone>> BY <1>4 DEF Tick, TimerFires
  <2> USE DEF ReaderInv, pump, goroutine
  <2>2. BodyTyped' BY <2>1 DEF BodyTyped
  <2>3. ReadSound' BY <2>1 DEF ReadSound
  <2>4. ChainSound' BY <2>1 DEF ChainSound, Queued, Read0, Read1, Read2, Read3
  <2>5. BlameSound' BY <2>1 DEF BlameSound
  <2> QED BY <1>1, <2>2, <2>3, <2>4, <2>5
<1> QED BY <1>1, <1>2, <1>3, <1>4

PumpInv ==
  PumpTyped /\ ForwardSound /\ TranslateSound /\ Rising /\ Announced /\ CompleteSound

\* What may be reported of the end that a step comes to.
Promised ==
  \E end \in D!Ends(IF Passthrough THEN "stream" ELSE "translated_stream", gone) :
            /\ end.served = outcome'.served
            /\ end.d = outcome'.d
            /\ outcome'.culprit = "caller" => end.culprit = "caller"

\* A step that ends a delivery.
Closed == at' = "closing" /\ committed' \in BOOLEAN /\ outcome' # NoOutcome

\* A step of the pump that is no Read leaves the reader as it is.
LEMMA StillKeeps ==
  ASSUME ReaderInv, PumpTyped, at # "read", at' # "read",
         UNCHANGED <<ctx, reader, scanErr, gone>>,
         \/ at' = "ended" /\ done' \in BOOLEAN
         \/ at # "ended" /\ done' = done,
         Run(lines', Len(looked')), Read0' = Read0
  PROVE  ReaderInv'
<1> USE DEF ReaderInv, reader, goroutine, clock
<1>1. BodyTyped' BY DEF BodyTyped
<1>2. ReadSound' BY DEF ReadSound
<1>3. ChainSound'
  <2>1. Queued' = Queued BY DEF Queued
  <2>2. Read1' = Read1 BY DEF Read1
  <2>3. Read2' = Read2 BY <2>2 DEF Read2
  <2>4. Read3' = Read3 BY <2>1, <2>3 DEF Read3
  <2> QED BY <2>1, <2>2, <2>3, <2>4 DEF ChainSound
<1>4. BlameSound' BY DEF BlameSound
<1> QED BY <1>1, <1>2, <1>3, <1>4

\* The ends a delivery comes to are among those promised. The caller could not be written to.
LEMMA UnwrittenEnds ==
  ASSUME Unwritten
  PROVE  Closed /\ Promised /\ outcome'.d.complete = FALSE
<1>1. /\ at' = "closing" /\ committed' = TRUE
      /\ outcome' = D!Unwritable BY DEF Unwritten, End, D!Unwritable
<1>2. D!Unwritable \in D!Ends(IF Passthrough THEN "stream" ELSE "translated_stream", gone)
  BY DEF D!Ends
<1>3. outcome' # NoOutcome /\ outcome'.d.complete = FALSE
  BY <1>1 DEF NoOutcome, D!Unwritable, D!End, D!Truncated, D!Undelivered, D!Delivery
<1> QED BY <1>1, <1>2, <1>3 DEF Closed, Promised

\* The caller left.
LEMMA CallerLeftEnds ==
  ASSUME CallerLeft, gone = TRUE, committed \in BOOLEAN, committed \/ Passthrough
  PROVE  Closed /\ Promised /\ outcome'.d.complete = FALSE
<1>1. /\ at' = "closing" /\ committed' = committed
      /\ outcome' = IF committed THEN D!LeftMidStream ELSE D!LeftUnserved
  BY DEF CallerLeft, End, D!LeftMidStream, D!LeftUnserved
<1>2. {D!CutAsking(gone), D!UnreadAsking(gone)} \subseteq D!Ends("stream", gone) BY DEF D!Ends
<1>3. D!CutAsking(gone) \in D!Ends("translated_stream", gone) BY DEF D!Ends
<1>4. outcome' # NoOutcome /\ outcome'.d.complete = FALSE
  BY <1>1 DEF NoOutcome, D!LeftMidStream, D!LeftUnserved, D!End, D!Truncated, D!CallerGone,
              D!Undelivered, D!Delivery
<1>5. D!CutAsking(gone) = D!LeftMidStream /\ D!UnreadAsking(gone) = D!LeftUnserved
  BY DEF D!CutAsking, D!UnreadAsking
<1>6. outcome' \in D!Ends(IF Passthrough THEN "stream" ELSE "translated_stream", gone)
  BY <1>1, <1>2, <1>3, <1>5
<1> QED BY <1>1, <1>4, <1>6 DEF Closed, Promised

\* The answer is complete.
LEMMA CompleteEnds ==
  ASSUME End(TRUE, D!Succeeded(200), "nobody")
  PROVE  Closed /\ Promised
<1>1. at' = "closing" /\ committed' = TRUE /\ outcome' = D!Whole BY DEF End, D!Whole
<1>2. D!Whole \in D!Ends(IF Passthrough THEN "stream" ELSE "translated_stream", gone)
  BY DEF D!Ends
<1>3. outcome' # NoOutcome
  BY <1>1 DEF NoOutcome, D!Whole, D!End, D!Succeeded, D!Undelivered, D!Delivery
<1> QED BY <1>1, <1>2, <1>3 DEF Closed, Promised

\* The reading broke off, or what was read made no answer.
LEMMA BrokenEnds ==
  ASSUME NEW reason, NEW culprit, Broken(reason, culprit),
         gone \in BOOLEAN, committed \in BOOLEAN, scanErr = "canceled" => gone,
         \/ reason = "decode" /\ culprit = "upstream"
         \/ /\ reason = "read_body" /\ culprit \in {"caller", "upstream"}
            /\ culprit = "caller" => gone
            /\ Passthrough => ~gone
  PROVE  Closed /\ Promised /\ outcome'.d.complete = FALSE
<1>1. CASE committed /\ (gone \/ scanErr = "canceled")
  BY <1>1, CallerLeftEnds DEF Broken, MidStreamFailure
<1>2. CASE committed /\ ~gone /\ scanErr # "canceled"
  <2>1. /\ at' = "closing" /\ committed' = TRUE
        /\ outcome' = D!End(200, D!Truncated(200, 200, "upstream", "stream_partial"), culprit)
    BY <1>2 DEF Broken, MidStreamFailure, End
  <2>2. D!CutAsking(gone) \in D!Ends(IF Passthrough THEN "stream" ELSE "translated_stream", gone)
    BY DEF D!Ends
  <2>3. /\ D!CutAsking(gone).served = outcome'.served /\ D!CutAsking(gone).d = outcome'.d
        /\ outcome'.culprit # "caller" BY <2>1, <1>2 DEF D!CutAsking, D!End
  <2>4. outcome' # NoOutcome /\ outcome'.d.complete = FALSE
    BY <2>1 DEF NoOutcome, D!End, D!Truncated, D!Undelivered, D!Delivery
  <2> QED BY <2>1, <2>2, <2>3, <2>4 DEF Closed, Promised
<1>3. CASE ~committed
  <2>1. /\ at' = "closing" /\ committed' = FALSE
        /\ outcome' = D!End(0, D!HandedOn("upstream", reason), culprit) BY <1>3 DEF Broken, End
  <2>2. outcome' # NoOutcome /\ outcome'.d.complete = FALSE
    BY <2>1 DEF NoOutcome, D!End, D!HandedOn, D!Undelivered, D!Delivery
  <2> DEFINE ends == D!Ends(IF Passthrough THEN "stream" ELSE "translated_stream", gone)
  <2>3. D!Undecodable \in ends /\ (Passthrough => D!UnreadAsking(gone) \in ends)
        /\ (~Passthrough => D!Unread(gone) \in ends) BY DEF D!Ends
  <2> HIDE DEF ends
  <2>4. PICK end \in ends : /\ end.served = 0 /\ end.d = D!HandedOn("upstream", reason)
                            /\ culprit = "caller" => end.culprit = "caller"
    <3>1. CASE reason = "decode" BY <3>1, <2>3 DEF D!Undecodable, D!End
    <3>2. CASE reason = "read_body" /\ Passthrough BY <3>2, <2>3 DEF D!UnreadAsking, D!End
    <3>3. CASE reason = "read_body" /\ ~Passthrough
      BY <3>3, <2>3 DEF D!Unread, D!End, D!ReadFailedBy
    <3> QED BY <3>1, <3>2, <3>3
  <2>5. outcome'.served = 0 /\ outcome'.d = D!HandedOn("upstream", reason)
        /\ outcome'.culprit = culprit BY <2>1 DEF D!End
  <2> QED BY <2>1, <2>2, <2>4, <2>5 DEF Closed, Promised, ends
<1> QED BY <1>1, <1>2, <1>3

\* The frames of every way of forwarding.
LEMMA KindsAreKnown == mode \in Modes => KindsOf(mode) \subseteq Kinds
BY ModesAssumption DEF KindsOf, Kinds

\* What looking at a frame does to the reader's part.
LEMMA LookKeeps ==
  ASSUME ReaderInv, PumpTyped, NEW kind, Look(kind), at' # "read", at' # "ended"
  PROVE  /\ ReaderInv'
         /\ Frame = Len(looked) + 1 /\ Frame \in Nat
         /\ looked' \in Seq(Kinds) /\ Len(looked') = Len(looked) + 1
         /\ Len(looked) \in Nat /\ looked'[Frame] = kind /\ kind \in Kinds
         /\ \A i \in 1..Len(looked) : looked'[i] = looked[i]
<1>1. /\ at = "scan" /\ lines # <<>> /\ kind \in KindsOf(mode) /\ lines' = Tail(lines)
      /\ looked' = Append(looked, kind)
      /\ UNCHANGED <<ctx, done, reader, mode, scanErr, gone>> BY DEF Look
<1>2. kind \in Kinds /\ looked \in Seq(Kinds) /\ Len(looked) \in Nat
  BY <1>1, KindsAreKnown DEF PumpTyped
<1>3. Run(lines, Len(looked)) BY DEF ReaderInv, ChainSound
<1>4. /\ Run(Tail(lines), Len(looked) + 1) /\ Len(Tail(lines)) = Len(lines) - 1
      /\ lines[1] = Len(looked) + 1 /\ Len(lines) \in Nat
  <2>1. Len(lines) \in Nat BY <1>3 DEF Run
  <2> QED BY <2>1, <1>1, <1>2, <1>3, RunTail
<1>5. /\ looked' \in Seq(Kinds) /\ Len(looked') = Len(looked) + 1
      /\ looked'[Len(looked) + 1] = kind
      /\ \A i \in 1..Len(looked) : looked'[i] = looked[i] BY <1>1, <1>2
<1>6. Frame = Len(looked) + 1 /\ Frame \in Nat BY <1>2, <1>4 DEF Frame
<1>7. Read0' = Read0 BY <1>1, <1>2, <1>4, <1>5 DEF Read0
<1>8. Run(lines', Len(looked')) BY <1>1, <1>4, <1>5
<1>9. ReaderInv' BY <1>1, <1>7, <1>8, StillKeeps
<1> QED BY <1>2, <1>5, <1>6, <1>9

\* Once the end has been announced, it stays so.
LEMMA AnnouncedGrows ==
  ASSUME PumpTyped, Announced, NEW said, NEW kind, seen' = seen \union said, mode' = mode,
         looked' = Append(looked, kind),
         "done" \in said => \/ kind \in EndKinds
                            \/ Len(looked) > 0 /\ looked[Len(looked)] \in EndKinds
  PROVE  Announced'
<1>1. looked \in Seq(Kinds) /\ Len(looked) \in Nat BY DEF PumpTyped
<1>2. /\ Len(looked') = Len(looked) + 1 /\ looked'[Len(looked) + 1] = kind
      /\ \A i \in 1..Len(looked) : looked'[i] = looked[i] BY <1>1
<1>3. EndKinds' = EndKinds BY DEF EndKinds
<1> SUFFICES ASSUME "done" \in seen' PROVE \E i \in 1..Len(looked') : looked'[i] \in EndKinds
  BY <1>3 DEF Announced
<1>4. CASE kind \in EndKinds BY <1>1, <1>2, <1>4
<1>5. CASE Len(looked) > 0 /\ looked[Len(looked)] \in EndKinds
  <2>1. Len(looked) \in 1..Len(looked) /\ Len(looked) \in 1..Len(looked') BY <1>1, <1>2, <1>5
  <2> QED BY <2>1, <1>2, <1>5
<1>6. CASE "done" \in seen
  <2>1. PICK i \in 1..Len(looked) : looked[i] \in EndKinds BY <1>6 DEF Announced
  <2>2. i \in 1..Len(looked') /\ looked'[i] = looked[i] BY <2>1, <1>1, <1>2
  <2> QED BY <2>1, <2>2
<1> QED BY <1>4, <1>5, <1>6

\* The inductive invariant of a stream.
StreamInv == ReaderInv /\ PumpInv

\* Where a step leads, and what it reports if it ends the delivery.
Goes == StreamInv' /\ (outcome' = outcome \/ Promised)

\* Nothing is complete before the end.
LEMMA Unstarted == NoOutcome.d.complete = FALSE
<1>1. D!Undelivered(0, "unset", "none", "").complete = FALSE BY DEF D!Undelivered, D!Delivery
<1>2. NoOutcome.d = D!Undelivered(0, "unset", "none", "") BY DEF NoOutcome, D!End
<1> QED BY <1>1, <1>2

\* Frames forwarded are all there were, and so the end of a complete answer is one.
LEMMA ForwardComplete ==
  ASSUME PumpTyped, ForwardSound, ~Ended, Passthrough, committed,
         UNCHANGED <<mode, looked, sent>>, \E i \in 1..Len(looked) : looked[i] \in EndKinds
  PROVE  CompleteSound'
<1>1. /\ looked \in Seq(Kinds) /\ Len(looked) \in Nat /\ Run(sent, 0)
      /\ Len(sent) = Len(looked) /\ DOMAIN sent = 1..Len(looked)
  BY DEF PumpTyped, ForwardSound, Run
<1>2. \A i \in 1..Len(looked) : i \in Range(sent) BY <1>1 DEF Run, Range
<1>3. PICK i \in 1..Len(looked) : looked[i] \in EndKinds OBVIOUS
<1>4. Texts(i) \subseteq Range(sent) BY <1>1, <1>2 DEF Texts
<1>5. /\ Texts(i)' = Texts(i) /\ EndKinds' = EndKinds /\ Range(sent)' = Range(sent)
      /\ Passthrough' = Passthrough /\ i \in DOMAIN looked'
  BY <1>1 DEF Texts, EndKinds, Range, Passthrough
<1> QED BY <1>2, <1>3, <1>4, <1>5 DEF CompleteSound

\* The parts of a delivery that has ended.
LEMMA EndingGoes ==
  ASSUME StreamInv, Closed, Promised, CompleteSound', Rising', Announced',
         at # "read", ~Ended, seen' \subseteq {"done", "usage", "failed"}, sent' \in Seq(Nat),
         UNCHANGED <<ctx, done, reader, mode, lines, scanErr, looked, preamble, gone>>
  PROVE  Goes
<1> USE DEF StreamInv, PumpInv
<1>1. ReaderInv'
  <2>1. Run(lines', Len(looked')) /\ Read0' = Read0 BY DEF ReaderInv, ChainSound, Read0
  <2>2. at # "ended" BY DEF Ended
  <2> QED BY <2>1, <2>2, StillKeeps DEF Closed
<1>2. Ended' BY DEF Closed, Ended
<1>3. PumpTyped' BY <1>2 DEF PumpTyped, Closed, Passthrough
<1>4. ForwardSound' /\ TranslateSound' BY <1>2 DEF ForwardSound, TranslateSound
<1> QED BY <1>1, <1>3, <1>4 DEF Goes

\* The caller is gone between two frames.
LEMMA StopForwardingGoes ==
  ASSUME StreamInv, StopForwarding
  PROVE  Goes
<1> USE DEF StreamInv, PumpInv
<1>1. /\ Passthrough /\ gone = TRUE /\ at = "scan" /\ ~Ended
      /\ UNCHANGED <<ctx, done, reader, mode, lines, scanErr, looked, preamble, seen, sent, gone>>
      /\ committed \in BOOLEAN BY DEF StopForwarding, PumpTyped, Ended
<1>2. Closed /\ Promised /\ CompleteSound'
  <2>1. CASE "done" \in seen
    <3>1. \E i \in 1..Len(looked) : looked[i] \in EndKinds BY <2>1 DEF Announced
    <3>2. committed
      <4>1. \A i \in 1..Len(looked) : looked[i] = "pre" => looked[i] \notin EndKinds BY DEF EndKinds
      <4> QED BY <3>1, <4>1, <1>1 DEF ForwardSound
    <3>3. End(TRUE, D!Succeeded(200), "nobody")
      BY <2>1, <3>2, <1>1 DEF StopForwarding, Disconnected, Complete
    <3> QED BY <1>1, <3>1, <3>2, <3>3, ForwardComplete, CompleteEnds
  <2>2. CASE "done" \notin seen
    <3>1. CallerLeft BY <2>2 DEF StopForwarding, Disconnected
    <3>2. Closed /\ Promised /\ outcome'.d.complete = FALSE BY <1>1, <3>1, CallerLeftEnds
    <3> QED BY <3>2 DEF CompleteSound
  <2> QED BY <2>1, <2>2
<1>3. Rising' /\ Announced' BY <1>1 DEF Rising, Announced, EndKinds
<1>4. seen' \subseteq {"done", "usage", "failed"} /\ sent' \in Seq(Nat) BY <1>1 DEF PumpTyped
<1> QED BY <1>1, <1>2, <1>3, <1>4, EndingGoes

\* What a decoder still holds announces the end.
LEMMA UnfinishedAnnounces ==
  ASSUME PumpTyped, "done" \in Unfinished, mode # "chat"
  PROVE  Len(looked) > 0 /\ looked[Len(looked)] = "tail" /\ looked[Len(looked)] \in EndKinds
BY DEF Unfinished, Last, PumpTyped, EndKinds

\* The body of a forwarded answer ends.
LEMMA EndForwardingGoes ==
  ASSUME StreamInv, EndForwarding
  PROVE  Goes
<1> USE DEF StreamInv, PumpInv
<1>1. /\ Passthrough /\ at = "scan" /\ ~Ended /\ scanErr # None
      /\ UNCHANGED <<ctx, done, reader, mode, lines, scanErr, looked, preamble, sent, gone>>
      /\ committed \in BOOLEAN /\ gone \in BOOLEAN
  BY DEF EndForwarding, ScanEnded, PumpTyped, Ended
<1>2. /\ seen' = IF mode = "decoded" /\ scanErr = "eof" THEN seen \union Unfinished ELSE seen
      /\ seen' \subseteq {"done", "usage", "failed"} BY DEF EndForwarding, PumpTyped, Unfinished
<1>3. Announced'
  <2> SUFFICES ASSUME "done" \in seen' PROVE \E i \in 1..Len(looked) : looked[i] \in EndKinds
    BY <1>1 DEF Announced, EndKinds
  <2>1. CASE "done" \in seen BY <2>1 DEF Announced
  <2>2. CASE "done" \notin seen
    <3>1. "done" \in Unfinished /\ mode # "chat" BY <2>2, <1>2
    <3>2. Len(looked) \in Nat BY DEF PumpTyped
    <3> QED BY <3>1, <3>2, UnfinishedAnnounces
  <2> QED BY <2>1, <2>2
<1>4. "done" \in seen' => \E i \in 1..Len(looked) : looked[i] \in EndKinds
  BY <1>1, <1>3 DEF Announced, EndKinds
<1>5. "done" \in seen' => committed
  <2>1. \A i \in 1..Len(looked) : looked[i] = "pre" => looked[i] \notin EndKinds BY DEF EndKinds
  <2> QED BY <1>4, <2>1, <1>1 DEF ForwardSound
<1>6. scanErr \in Callers => gone BY <1>1 DEF ReaderInv, BlameSound
<1>7. scanErr = "canceled" => gone BY <1>6 DEF Callers
<1>8. ASSUME Complete, "done" \in seen' PROVE Closed /\ Promised /\ CompleteSound'
  <2>1. End(TRUE, D!Succeeded(200), "nobody") BY <1>5, <1>8, <1>1 DEF Complete
  <2> QED BY <1>1, <1>4, <1>5, <1>8, <2>1, ForwardComplete, CompleteEnds
<1>9. Closed /\ Promised /\ CompleteSound'
  <2>1. CASE scanErr # "eof" /\ gone
    <3>1. CASE "done" \in seen' BY <1>8, <2>1, <3>1 DEF EndForwarding
    <3>2. CASE "done" \notin seen'
      <4>1. CallerLeft BY <2>1, <3>2 DEF EndForwarding
      <4> QED BY <1>1, <2>1, <4>1, CallerLeftEnds DEF CompleteSound
    <3> QED BY <3>1, <3>2
  <2>2. CASE scanErr # "eof" /\ ~gone
    <3>1. \/ Complete /\ "done" \in seen'
          \/ Broken("read_body", ReadEndedBy) BY <2>2 DEF EndForwarding
    <3>2. ASSUME Broken("read_body", ReadEndedBy) PROVE Closed /\ Promised /\ CompleteSound'
      <4>1. ReadEndedBy = "upstream" BY <1>6, <2>2 DEF ReadEndedBy, Callers
      <4> QED BY <1>1, <1>7, <2>2, <3>2, <4>1, BrokenEnds DEF CompleteSound
    <3> QED BY <1>8, <3>1, <3>2
  <2>3. CASE scanErr = "eof" /\ ~committed
    <3>1. Broken("decode", "upstream") BY <2>3 DEF EndForwarding
    <3> QED BY <1>1, <1>7, <3>1, BrokenEnds DEF CompleteSound
  <2>4. CASE scanErr = "eof" /\ committed /\ "done" \notin seen'
    <3>1. PICK reason \in {"stream_no_done", "stream_ended_unannounced"} :
            End(TRUE, D!Truncated(200, 200, "upstream", reason), "upstream")
      BY <2>4 DEF EndForwarding
    <3>2. at' = "closing" /\ committed' = TRUE /\ outcome' = D!Unannounced(reason)
      BY <3>1 DEF End, D!Unannounced
    <3>3. D!Unannounced(reason) \in D!Ends("stream", gone) BY DEF D!Ends
    <3>4. outcome' # NoOutcome /\ outcome'.d.complete = FALSE
      BY <3>2 DEF NoOutcome, D!Unannounced, D!End, D!Truncated, D!Undelivered, D!Delivery
    <3> QED BY <1>1, <3>2, <3>3, <3>4 DEF Closed, Promised, CompleteSound
  <2>5. CASE scanErr = "eof" /\ committed /\ "done" \in seen'
    <3>1. Complete BY <2>5 DEF EndForwarding
    <3> QED BY <1>8, <2>5, <3>1
  <2> QED BY <1>1, <2>1, <2>2, <2>3, <2>4, <2>5
<1>10. Rising' /\ sent' \in Seq(Nat) BY <1>1 DEF Rising, PumpTyped
<1> QED BY <1>1, <1>2, <1>3, <1>9, <1>10, EndingGoes

\* A frame is forwarded, kept for the first data, or ends the delivery.
LEMMA ForwardGoes ==
  ASSUME StreamInv, NEW kind \in KindsOf(mode), Forward(kind)
  PROVE  Goes
<1> USE DEF StreamInv, PumpInv
<1> DEFINE said == IF mode = "decoded" THEN Unfinished \union Decoded(kind) ELSE Noted(kind)
           held == ~committed /\ kind = "pre"
<1>1. /\ Passthrough /\ gone = FALSE /\ at = "scan" /\ ~Ended /\ Look(kind)
      /\ seen' = seen \union said
      /\ UNCHANGED <<ctx, done, reader, mode, scanErr, gone>>
      /\ looked' = Append(looked, kind) /\ outcome = NoOutcome
  BY DEF Forward, Look, PumpTyped, Ended
<1>2. \/ /\ held /\ preamble' = Append(preamble, Frame)
         /\ UNCHANGED <<at, committed, sent, outcome>>
      \/ /\ ~held /\ preamble' = <<>> /\ committed' = TRUE
         /\ sent' = sent \o Append(preamble, Frame)
         /\ UNCHANGED <<at, outcome>>
      \/ /\ ~held /\ preamble' = <<>> /\ Unwritten /\ UNCHANGED sent BY DEF Forward
<1>3. at' \in {"scan", "closing"} BY <1>1, <1>2, UnwrittenEnds DEF Closed
<1>4. /\ ReaderInv'
      /\ Frame = Len(looked) + 1 /\ Frame \in Nat
      /\ looked' \in Seq(Kinds) /\ Len(looked') = Len(looked) + 1
      /\ Len(looked) \in Nat /\ looked'[Frame] = kind /\ kind \in Kinds
      /\ \A i \in 1..Len(looked) : looked'[i] = looked[i] BY <1>1, <1>3, LookKeeps
<1>5. Announced'
  <2>1. ASSUME "done" \in said
        PROVE  kind \in EndKinds \/ (Len(looked) > 0 /\ looked[Len(looked)] \in EndKinds)
    <3>1. CASE mode = "decoded"
      <4>1. CASE "done" \in Unfinished BY <3>1, <4>1, UnfinishedAnnounces
      <4>2. CASE "done" \in Decoded(kind) BY <3>1, <4>2 DEF Decoded, EndKinds
      <4> QED BY <2>1, <3>1, <4>1, <4>2
    <3>2. CASE mode # "decoded"
      <4>1. "done" \in Noted(kind) BY <2>1, <3>2
      <4>2. kind = "end" BY <4>1 DEF Noted
      <4>3. mode = "chat" BY <1>1, <3>2, ModesAssumption DEF Passthrough, PumpTyped
      <4> QED BY <4>2, <4>3 DEF EndKinds
    <3> QED BY <3>1, <3>2
  <2> HIDE DEF said
  <2> QED BY <2>1, <1>1, AnnouncedGrows
<1>6. said \subseteq {"done", "usage", "failed"} BY DEF Unfinished, Decoded, Noted
<1> HIDE DEF said, held
<1>7. seen' \subseteq {"done", "usage", "failed"} BY <1>1, <1>6 DEF PumpTyped
<1>8. /\ preamble \in Seq(Nat) /\ sent \in Seq(Nat) /\ mode' \in Modes /\ gone' \in BOOLEAN
      /\ scanErr' \in Errs /\ Passthrough' BY <1>1 DEF PumpTyped, Passthrough
<1>9. TranslateSound' BY <1>8 DEF TranslateSound
<1>10. ASSUME held, preamble' = Append(preamble, Frame),
              UNCHANGED <<at, committed, sent, outcome>>
       PROVE  Goes
  <2>1. ~committed /\ kind = "pre" BY <1>10 DEF held
  <2>2. /\ sent = <<>> /\ Run(preamble, 0) /\ Len(preamble) = Len(looked)
        /\ \A i \in 1..Len(looked) : looked[i] = "pre" BY <1>1, <2>1 DEF ForwardSound
  <2>3. Run(preamble', 0) /\ Len(preamble') = Len(looked') BY <1>10, <2>2, <1>4, RunLonger
  <2>4. \A i \in 1..Len(looked') : looked'[i] = "pre" BY <2>1, <2>2, <1>4
  <2>5. ForwardSound' BY <1>10, <2>1, <2>2, <2>3, <2>4 DEF ForwardSound
  <2>6. PumpTyped' BY <1>1, <1>4, <1>7, <1>8, <1>10, <2>3 DEF PumpTyped, Ended, Run
  <2>7. Rising' BY <1>10, <2>2 DEF Rising
  <2>8. CompleteSound' BY <1>1, <1>10, Unstarted DEF CompleteSound
  <2> QED BY <1>4, <1>5, <1>9, <1>10, <2>5, <2>6, <2>7, <2>8 DEF Goes
<1>11. ASSUME ~held, preamble' = <<>>, committed' = TRUE,
              sent' = sent \o Append(preamble, Frame), UNCHANGED <<at, outcome>>
       PROVE  Goes
  <2>1. Run(sent', 0) /\ Len(sent') = Len(looked')
    <3>1. CASE committed
      <4>1. preamble = <<>> /\ Run(sent, 0) /\ Len(sent) = Len(looked)
        BY <1>1, <3>1 DEF ForwardSound
      <4>2. sent' = Append(sent, Frame) BY <4>1, <1>4, <1>8, <1>11
      <4> QED BY <4>1, <4>2, <1>4, RunLonger
    <3>2. CASE ~committed
      <4>1. sent = <<>> /\ Run(preamble, 0) /\ Len(preamble) = Len(looked)
        BY <1>1, <3>2 DEF ForwardSound
      <4>2. sent' = Append(preamble, Frame) BY <4>1, <1>4, <1>8, <1>11
      <4> QED BY <4>1, <4>2, <1>4, RunLonger
    <3> QED BY <3>1, <3>2
  <2>2. ForwardSound' BY <1>11, <2>1 DEF ForwardSound
  <2>3. PumpTyped' BY <1>1, <1>4, <1>7, <1>8, <1>11, <2>1 DEF PumpTyped, Ended, Run
  <2>4. Rising' BY <2>1, <1>4 DEF Rising, Run
  <2>5. CompleteSound' BY <1>1, <1>11, Unstarted DEF CompleteSound
  <2> QED BY <1>4, <1>5, <1>9, <1>11, <2>2, <2>3, <2>4, <2>5 DEF Goes
<1>12. ASSUME preamble' = <<>>, Unwritten, UNCHANGED sent
       PROVE  Goes
  <2>1. Closed /\ Promised /\ outcome'.d.complete = FALSE BY <1>12, UnwrittenEnds
  <2>2. Ended' BY <2>1 DEF Closed, Ended
  <2>3. ForwardSound' BY <2>2 DEF ForwardSound
  <2>4. PumpTyped' BY <1>1, <1>4, <1>7, <1>8, <1>12, <2>1, <2>2 DEF PumpTyped, Closed
  <2>5. Rising' BY <1>12 DEF Rising
  <2>6. CompleteSound' BY <2>1 DEF CompleteSound
  <2> QED BY <1>4, <1>5, <1>9, <2>1, <2>3, <2>4, <2>5, <2>6 DEF Goes
<1> QED BY <1>2, <1>10, <1>11, <1>12

\* A frame is translated to events, to nothing yet, or ends the delivery.
LEMMA TranslateGoes ==
  ASSUME StreamInv, NEW kind \in KindsOf(mode), Translate(kind)
  PROVE  Goes
<1> USE DEF StreamInv, PumpInv
<1> DEFINE said == Unfinished \union Decoded(kind)
<1>1. /\ ~Passthrough /\ at = "scan" /\ ~Ended /\ Look(kind)
      /\ seen' = seen \union said
      /\ UNCHANGED <<ctx, done, reader, mode, scanErr, gone, preamble>>
      /\ looked' = Append(looked, kind) /\ outcome = NoOutcome
  BY DEF Translate, Look, PumpTyped, Ended
<1>2. \/ /\ kind # "text" /\ UNCHANGED <<at, committed, sent, outcome>>
      \/ /\ kind # "tail" /\ committed' = TRUE /\ sent' = sent \o <<Frame>>
         /\ UNCHANGED <<at, outcome>>
      \/ Unwritten /\ UNCHANGED sent BY DEF Translate, Emit, Events
<1>3. at' \in {"scan", "closing"} BY <1>1, <1>2, UnwrittenEnds DEF Closed
<1>4. /\ ReaderInv'
      /\ Frame = Len(looked) + 1 /\ Frame \in Nat
      /\ looked' \in Seq(Kinds) /\ Len(looked') = Len(looked) + 1
      /\ Len(looked) \in Nat /\ looked'[Frame] = kind /\ kind \in Kinds
      /\ \A i \in 1..Len(looked) : looked'[i] = looked[i] BY <1>1, <1>3, LookKeeps
<1>5. Announced'
  <2>1. mode # "chat" BY <1>1 DEF Passthrough, PumpTyped
  <2>2. ASSUME "done" \in said
        PROVE  kind \in EndKinds \/ (Len(looked) > 0 /\ looked[Len(looked)] \in EndKinds)
    <3>1. CASE "done" \in Unfinished BY <2>1, <3>1, UnfinishedAnnounces
    <3>2. CASE "done" \in Decoded(kind) BY <2>1, <3>2 DEF Decoded, EndKinds
    <3> QED BY <2>2, <3>1, <3>2
  <2> HIDE DEF said
  <2> QED BY <2>2, <1>1, AnnouncedGrows
<1>6. said \subseteq {"done", "usage", "failed"} BY DEF Unfinished, Decoded
<1> HIDE DEF said
<1>7. seen' \subseteq {"done", "usage", "failed"} BY <1>1, <1>6 DEF PumpTyped
<1>8. /\ preamble' \in Seq(Nat) /\ sent \in Seq(Nat) /\ mode' \in Modes /\ gone' \in BOOLEAN
      /\ scanErr' \in Errs /\ ~Passthrough' BY <1>1 DEF PumpTyped, Passthrough
<1>9. ForwardSound' BY <1>8 DEF ForwardSound
<1>10. /\ \A i \in 1..Len(sent) : sent[i] \in 1..Len(looked) /\ looked[sent[i]] # "tail"
       /\ \A i \in 1..Len(looked) : looked[i] = "text" => \E j \in 1..Len(sent) : sent[j] = i
       /\ Len(sent) \in Nat BY <1>1, <1>8 DEF TranslateSound
<1>11. ASSUME kind # "text", UNCHANGED <<at, committed, sent, outcome>>
       PROVE  Goes
  <2>1. \A i \in 1..Len(sent) : sent[i] \in 1..Len(looked') /\ looked'[sent[i]] # "tail"
    BY <1>4, <1>10
  <2>2. \A i \in 1..Len(looked') : looked'[i] = "text" => \E j \in 1..Len(sent) : sent[j] = i
    <3> TAKE i \in 1..Len(looked')
    <3>1. i = Frame \/ i \in 1..Len(looked) BY <1>4
    <3> QED BY <3>1, <1>4, <1>10, <1>11
  <2>3. TranslateSound' BY <1>11, <2>1, <2>2 DEF TranslateSound
  <2>4. PumpTyped' BY <1>1, <1>4, <1>7, <1>8, <1>11 DEF PumpTyped, Ended
  <2>5. Rising' BY <1>11 DEF Rising
  <2>6. CompleteSound' BY <1>1, <1>11, Unstarted DEF CompleteSound
  <2> QED BY <1>4, <1>5, <1>9, <1>11, <2>3, <2>4, <2>5, <2>6 DEF Goes
<1>12. ASSUME kind # "tail", committed' = TRUE, sent' = sent \o <<Frame>>,
              UNCHANGED <<at, outcome>>
       PROVE  Goes
  <2>1. /\ sent' \in Seq(Nat) /\ Len(sent') = Len(sent) + 1 /\ sent'[Len(sent) + 1] = Frame
        /\ \A i \in 1..Len(sent) : sent'[i] = sent[i] BY <1>4, <1>8, <1>12
  <2>2. \A i \in 1..Len(sent') : sent'[i] \in 1..Len(looked') /\ looked'[sent'[i]] # "tail"
    <3> TAKE i \in 1..Len(sent')
    <3>1. CASE i = Len(sent) + 1
      <4>1. sent'[i] = Frame /\ Frame \in 1..Len(looked') BY <3>1, <2>1, <1>4
      <4> QED BY <4>1, <1>4, <1>12
    <3>2. CASE i \in 1..Len(sent)
      <4>1. sent'[i] = sent[i] BY <3>2, <2>1
      <4>2. sent[i] \in 1..Len(looked) /\ looked[sent[i]] # "tail" BY <3>2, <1>10
      <4>3. sent[i] \in 1..Len(looked') /\ looked'[sent[i]] = looked[sent[i]] BY <4>2, <1>4
      <4> QED BY <4>1, <4>2, <4>3
    <3> QED BY <3>1, <3>2, <2>1, <1>10
  <2>3. \A i \in 1..Len(looked') : looked'[i] = "text" => \E j \in 1..Len(sent') : sent'[j] = i
    <3> SUFFICES ASSUME NEW i \in 1..Len(looked'), looked'[i] = "text"
                 PROVE  \E j \in 1..Len(sent') : sent'[j] = i OBVIOUS
    <3>1. CASE i = Frame
      <4>1. Len(sent) + 1 \in 1..Len(sent') BY <2>1, <1>10
      <4> QED BY <4>1, <3>1, <2>1
    <3>2. CASE i \in 1..Len(looked)
      <4>1. PICK j \in 1..Len(sent) : sent[j] = i BY <3>2, <1>4, <1>10
      <4>2. j \in 1..Len(sent') /\ sent'[j] = i BY <4>1, <2>1, <1>10
      <4> QED BY <4>2
    <3> QED BY <3>1, <3>2, <1>4
  <2>4. TranslateSound' BY <1>12, <2>2, <2>3 DEF TranslateSound
  <2>5. PumpTyped' BY <1>1, <1>4, <1>7, <1>8, <1>12, <2>1 DEF PumpTyped, Ended
  <2>6. Rising'
    <3> SUFFICES ASSUME NEW i \in 1..Len(sent'), NEW j \in 1..Len(sent'), i < j
                 PROVE  sent'[i] < sent'[j] \/ sent'[j] = 0 BY DEF Rising, Terminator
    <3>1. i \in 1..Len(sent) BY <2>1, <1>10
    <3>2. CASE j = Len(sent) + 1
      <4>1. sent'[i] \in 1..Len(looked) BY <3>1, <2>1, <1>10
      <4>2. sent'[j] = Len(looked) + 1 BY <3>2, <2>1, <1>4
      <4> QED BY <4>1, <4>2, <1>4
    <3>3. CASE j \in 1..Len(sent) BY <3>1, <3>3, <2>1 DEF Rising, Terminator
    <3>5. Len(sent) \in Nat /\ Len(sent') = Len(sent) + 1 BY <2>1, <1>10
    <3>4. j = Len(sent) + 1 \/ j \in 1..Len(sent) BY <3>5
    <3> QED BY <3>2, <3>3, <3>4
  <2>7. CompleteSound' BY <1>1, <1>12, Unstarted DEF CompleteSound
  <2> QED BY <1>4, <1>5, <1>9, <1>12, <2>4, <2>5, <2>6, <2>7 DEF Goes
<1>13. ASSUME Unwritten, UNCHANGED sent
       PROVE  Goes
  <2>1. Closed /\ Promised /\ outcome'.d.complete = FALSE BY <1>13, UnwrittenEnds
  <2>2. Ended' BY <2>1 DEF Closed, Ended
  <2>3. TranslateSound' BY <2>2 DEF TranslateSound
  <2>4. PumpTyped' BY <1>1, <1>4, <1>7, <1>8, <1>13, <2>1, <2>2 DEF PumpTyped, Closed
  <2>5. Rising' BY <1>13 DEF Rising
  <2>6. CompleteSound' BY <2>1 DEF CompleteSound
  <2> QED BY <1>4, <1>5, <1>9, <2>1, <2>3, <2>4, <2>5, <2>6 DEF Goes
<1> QED BY <1>2, <1>11, <1>12, <1>13

\* What the decoder still held is translated.
LEMMA FinishDecodingGoes ==
  ASSUME StreamInv, FinishDecoding
  PROVE  Goes
<1> USE DEF StreamInv, PumpInv
<1>1. /\ ~Passthrough /\ at = "scan" /\ ~Ended /\ mode # "chat"
      /\ seen' = seen \union Unfinished /\ outcome = NoOutcome
      /\ UNCHANGED <<ctx, done, reader, mode, lines, scanErr, looked, preamble, gone>>
  BY DEF FinishDecoding, ScanEnded, PumpTyped, Ended, Passthrough
<1>2. \/ at' = "finished" /\ UNCHANGED <<committed, sent, outcome>>
      \/ /\ Unfinished # {} /\ at' = "finished" /\ committed' = TRUE
         /\ sent' = Append(sent, Len(looked)) /\ outcome' = outcome
      \/ Unwritten /\ UNCHANGED sent BY DEF FinishDecoding
<1>3. Len(looked) \in Nat /\ Len(sent) \in Nat /\ sent \in Seq(Nat) /\ looked \in Seq(Kinds)
  BY DEF PumpTyped
<1>4. Announced'
  <2> SUFFICES ASSUME "done" \in seen' PROVE \E i \in 1..Len(looked) : looked[i] \in EndKinds
    BY <1>1 DEF Announced, EndKinds
  <2>1. CASE "done" \in seen BY <2>1 DEF Announced
  <2>2. CASE "done" \notin seen
    <3>1. "done" \in Unfinished BY <2>2, <1>1
    <3> QED BY <3>1, <1>1, <1>3, UnfinishedAnnounces
  <2> QED BY <2>1, <2>2
<1>5. seen' \subseteq {"done", "usage", "failed"} BY <1>1 DEF PumpTyped, Unfinished
<1>6. /\ \A i \in 1..Len(sent) : sent[i] \in 1..Len(looked) /\ looked[sent[i]] # "tail"
      /\ \A i \in 1..Len(looked) : looked[i] = "text" => \E j \in 1..Len(sent) : sent[j] = i
  BY <1>1 DEF TranslateSound
<1>7. ASSUME Unwritten, UNCHANGED sent PROVE Goes
  <2>1. Closed /\ Promised /\ outcome'.d.complete = FALSE BY <1>7, UnwrittenEnds
  <2>2. CompleteSound' BY <2>1 DEF CompleteSound
  <2>3. Rising' /\ sent' \in Seq(Nat) BY <1>3, <1>7 DEF Rising
  <2> QED BY <1>1, <1>4, <1>5, <2>1, <2>2, <2>3, EndingGoes
<1>8. ASSUME at' = "finished", outcome' = outcome, committed' \in BOOLEAN,
             sent' \in Seq(Nat), Rising',
             \A i \in 1..Len(sent') : sent'[i] \in 1..Len(looked),
             \A i \in 1..Len(looked) : looked[i] = "text" => \E j \in 1..Len(sent') : sent'[j] = i
      PROVE  Goes
  <2>1. ReaderInv'
    <3>1. Run(lines', Len(looked')) /\ Read0' = Read0 BY <1>1 DEF ReaderInv, ChainSound, Read0
    <3> QED BY <1>1, <1>8, <3>1, StillKeeps
  <2>2. ~Passthrough' BY <1>1 DEF Passthrough
  <2>3. PumpTyped' BY <1>1, <1>5, <1>8, <2>2 DEF PumpTyped, Ended
  <2>4. ForwardSound' BY <2>2 DEF ForwardSound
  <2>5. TranslateSound' BY <1>1, <1>8 DEF TranslateSound
  <2>6. CompleteSound' BY <1>1, <1>8, Unstarted DEF CompleteSound
  <2> QED BY <1>4, <1>8, <2>1, <2>3, <2>4, <2>5, <2>6 DEF Goes
<1>9. ASSUME at' = "finished", UNCHANGED <<committed, sent, outcome>> PROVE Goes
  <2>1. Rising' /\ sent' \in Seq(Nat) /\ committed' \in BOOLEAN BY <1>9 DEF Rising, PumpTyped
  <2> QED BY <1>6, <1>8, <1>9, <2>1
<1>10. ASSUME Unfinished # {}, at' = "finished", committed' = TRUE,
              sent' = Append(sent, Len(looked)), outcome' = outcome
       PROVE  Goes
  <2>1. Len(looked) > 0 /\ looked[Len(looked)] = "tail"
    <3>1. "done" \in Unfinished BY <1>10 DEF Unfinished
    <3> QED BY <3>1, <1>1, UnfinishedAnnounces
  <2>2. /\ sent' \in Seq(Nat) /\ Len(sent') = Len(sent) + 1
        /\ sent'[Len(sent) + 1] = Len(looked)
        /\ \A i \in 1..Len(sent) : sent'[i] = sent[i] BY <1>3, <1>10
  <2>3. \A i \in 1..Len(sent') : sent'[i] \in 1..Len(looked)
    <3> TAKE i \in 1..Len(sent')
    <3>1. CASE i = Len(sent) + 1 BY <3>1, <2>1, <2>2, <1>3
    <3>2. CASE i \in 1..Len(sent) BY <3>2, <2>2, <1>6
    <3> QED BY <3>1, <3>2, <2>2, <1>3
  <2>4. \A i \in 1..Len(looked) : looked[i] = "text" => \E j \in 1..Len(sent') : sent'[j] = i
    <3> SUFFICES ASSUME NEW i \in 1..Len(looked), looked[i] = "text"
                 PROVE  \E j \in 1..Len(sent') : sent'[j] = i OBVIOUS
    <3>1. PICK j \in 1..Len(sent) : sent[j] = i BY <1>6
    <3>2. j \in 1..Len(sent') /\ sent'[j] = i BY <3>1, <2>2, <1>3
    <3> QED BY <3>2
  <2>5. Rising'
    <3> SUFFICES ASSUME NEW i \in 1..Len(sent'), NEW j \in 1..Len(sent'), i < j
                 PROVE  sent'[i] < sent'[j] \/ sent'[j] = 0 BY DEF Rising, Terminator
    <3>1. i \in 1..Len(sent) BY <2>2, <1>3
    <3>2. CASE j = Len(sent) + 1
      <4>1. sent'[i] \in 1..Len(looked) /\ looked[sent'[i]] # "tail" BY <3>1, <2>2, <1>6
      <4>2. sent'[i] # Len(looked) BY <4>1, <2>1
      <4> QED BY <3>2, <4>1, <4>2, <2>2, <1>3
    <3>3. CASE j \in 1..Len(sent) BY <3>1, <3>3, <2>2 DEF Rising, Terminator
    <3>4. j = Len(sent) + 1 \/ j \in 1..Len(sent) BY <2>2, <1>3
    <3> QED BY <3>2, <3>3, <3>4
  <2> QED BY <1>8, <1>10, <2>2, <2>3, <2>4, <2>5
<1> QED BY <1>2, <1>7, <1>9, <1>10

\* The body of a translated answer ends.
LEMMA EndTranslatingGoes ==
  ASSUME StreamInv, EndTranslating
  PROVE  Goes
<1> USE DEF StreamInv, PumpInv
<1>1. /\ ~Passthrough /\ at = "finished" /\ ~Ended
      /\ UNCHANGED <<ctx, done, reader, mode, lines, scanErr, looked, preamble, seen, gone>>
      /\ committed \in BOOLEAN /\ gone \in BOOLEAN
      /\ seen' \subseteq {"done", "usage", "failed"} BY DEF EndTranslating, PumpTyped, Ended
<1>2. \/ Broken("read_body", ReadEndedBy) /\ UNCHANGED sent
      \/ Broken("decode", "upstream") /\ UNCHANGED sent
      \/ /\ "done" \in seen /\ End(TRUE, D!Succeeded(200), "nobody")
         /\ sent' = Append(sent, Terminator)
      \/ Unwritten /\ UNCHANGED sent
  <2>1. CASE scanErr # "eof" /\ ~Forgiven BY <2>1 DEF EndTranslating
  <2>2. CASE (scanErr = "eof" \/ Forgiven) /\ ("failed" \in seen \/ "done" \notin seen)
    BY <2>2 DEF EndTranslating
  <2>3. CASE (scanErr = "eof" \/ Forgiven) /\ "failed" \notin seen /\ "done" \in seen
    BY <2>3 DEF EndTranslating
  <2> QED BY <2>1, <2>2, <2>3
<1>3. Announced' BY <1>1 DEF Announced, EndKinds
<1>4. scanErr \in Callers => gone BY <1>1 DEF ReaderInv, BlameSound, Ended
<1>5. scanErr = "canceled" => gone BY <1>4 DEF Callers
<1>6. sent \in Seq(Nat) /\ Len(sent) \in Nat BY DEF PumpTyped
<1>7. ASSUME Closed, Promised, outcome'.d.complete = FALSE, UNCHANGED sent PROVE Goes
  <2>1. Rising' /\ CompleteSound' /\ sent' \in Seq(Nat) BY <1>6, <1>7 DEF Rising, CompleteSound
  <2> QED BY <1>1, <1>3, <1>7, <2>1, EndingGoes
<1>8. ASSUME Broken("read_body", ReadEndedBy), UNCHANGED sent PROVE Goes
  <2>1. /\ ReadEndedBy \in {"caller", "upstream"}
        /\ ReadEndedBy = "caller" => gone BY <1>4 DEF ReadEndedBy, Callers
  <2> QED BY <1>1, <1>5, <1>7, <1>8, <2>1, BrokenEnds
<1>9. ASSUME Broken("decode", "upstream"), UNCHANGED sent PROVE Goes
  BY <1>1, <1>5, <1>7, <1>9, BrokenEnds
<1>10. ASSUME Unwritten, UNCHANGED sent PROVE Goes BY <1>7, <1>10, UnwrittenEnds
<1>11. ASSUME "done" \in seen, End(TRUE, D!Succeeded(200), "nobody"),
              sent' = Append(sent, Terminator)
       PROVE  Goes
  <2>1. Closed /\ Promised BY <1>11, CompleteEnds
  <2>2. /\ sent' \in Seq(Nat) /\ Len(sent') = Len(sent) + 1 /\ sent'[Len(sent) + 1] = Terminator
        /\ \A i \in 1..Len(sent) : sent'[i] = sent[i]
        /\ DOMAIN sent' = 1..Len(sent') BY <1>6, <1>11 DEF Terminator
  <2>3. Rising'
    <3> SUFFICES ASSUME NEW i \in 1..Len(sent'), NEW j \in 1..Len(sent'), i < j
                 PROVE  sent'[i] < sent'[j] \/ sent'[j] = 0 BY DEF Rising, Terminator
    <3>1. i \in 1..Len(sent) BY <2>2, <1>6
    <3>2. CASE j = Len(sent) + 1 BY <3>2, <2>2 DEF Terminator
    <3>3. CASE j \in 1..Len(sent) BY <3>1, <3>3, <2>2 DEF Rising, Terminator
    <3>4. j = Len(sent) + 1 \/ j \in 1..Len(sent)
      <4>1. Len(sent) \in Nat /\ j \in 1..(Len(sent) + 1) BY <2>2, <1>6
      <4> QED BY <4>1
    <3> QED BY <3>2, <3>3, <3>4
  <2>4. CompleteSound'
    <3>1. PICK last \in 1..Len(looked) : looked[last] \in EndKinds BY <1>11 DEF Announced
    <3>2. Last(sent') = Terminator BY <2>2 DEF Last
    <3>3. Texts(last)' \subseteq Range(sent')
      <4> SUFFICES ASSUME NEW i \in 1..last, looked[i] = "text" PROVE i \in Range(sent')
        BY <1>1 DEF Texts
      <4>1. i \in 1..Len(looked)
        <5>1. Len(looked) \in Nat BY DEF PumpTyped
        <5> QED BY <5>1, <3>1
      <4>2. PICK j \in 1..Len(sent) : sent[j] = i BY <1>1, <4>1 DEF TranslateSound
      <4>3. j \in DOMAIN sent' /\ sent'[j] = i BY <4>2, <2>2, <1>6
      <4> QED BY <4>3 DEF Range
    <3>4. last \in DOMAIN looked' /\ looked'[last] \in EndKinds' /\ ~Passthrough'
      <4>1. DOMAIN looked = 1..Len(looked) BY DEF PumpTyped
      <4> QED BY <4>1, <3>1, <1>1 DEF EndKinds, Passthrough
    <3> QED BY <3>2, <3>3, <3>4 DEF CompleteSound
  <2> QED BY <1>1, <1>3, <2>1, <2>2, <2>3, <2>4, EndingGoes
<1> QED BY <1>2, <1>8, <1>9, <1>10, <1>11

\* What of a delivery does not depend on where the pump is.
LEMMA PumpStays ==
  ASSUME PumpInv, gone' \in BOOLEAN, scanErr' \in Errs,
         UNCHANGED <<mode, looked, preamble, seen, committed, sent, outcome>>,
         \/ at' = at
         \/ at \in {"scan", "read"} /\ at' \in {"scan", "read"}
         \/ at = "closing" /\ at' = "ended"
  PROVE  PumpInv'
<1> USE DEF PumpInv
<1>1. /\ Ended' <=> Ended
      /\ at' = "finished" => at = "finished"
      /\ at # "finished" => Ended \/ at' # "finished"
      /\ Passthrough' <=> Passthrough
      /\ EndKinds' = EndKinds BY DEF Ended, Passthrough, EndKinds
<1>2. PumpTyped' BY <1>1 DEF PumpTyped
<1>3. ForwardSound' BY <1>1 DEF ForwardSound
<1>4. TranslateSound' BY <1>1 DEF TranslateSound, Ended
<1>5. Rising' /\ Announced' BY <1>1 DEF Rising, Announced
<1>6. CompleteSound' BY <1>1 DEF CompleteSound, Texts, Range
<1> QED BY <1>2, <1>3, <1>4, <1>5, <1>6

\* The body is closed.
LEMMA CloseBodyGoes ==
  ASSUME StreamInv, CloseBody
  PROVE  Goes
<1> USE DEF StreamInv
<1>1. /\ at = "closing" /\ at' = "ended" /\ done' = TRUE
      /\ UNCHANGED <<ctx, reader, mode, lines, scanErr, looked, preamble, seen, committed, sent,
                     outcome, gone>> BY DEF CloseBody
<1>2. PumpInv' BY <1>1, PumpStays DEF PumpInv, PumpTyped
<1>3. Run(lines', Len(looked')) /\ Read0' = Read0 BY <1>1 DEF ReaderInv, ChainSound, Read0
<1>4. ReaderInv' BY <1>1, <1>3, StillKeeps DEF PumpInv
<1> QED BY <1>1, <1>2, <1>4 DEF Goes

\* A Read begins.
LEMMA ScanGoes ==
  ASSUME StreamInv, Scan
  PROVE  Goes
<1> USE DEF StreamInv
<1>1. /\ at = "scan" /\ lines = <<>> /\ scanErr = None /\ rd = "out" /\ rd' = "entered"
      /\ began' = ctx /\ at' = "read"
      /\ UNCHANGED <<ctx, done, goroutine, chunkCh, clock, leftover, lastErr, result, mode,
                     lines, scanErr, looked, preamble, seen, committed, sent, outcome, gone>>
  BY DEF Scan, CallRead
<1>2. PumpInv' BY <1>1, PumpStays DEF PumpInv, PumpTyped
<1>3. ReaderInv'
  <2> USE DEF ReaderInv, goroutine, clock
  <2>1. BodyTyped' BY <1>1 DEF BodyTyped
  <2>2. ReadSound' BY <1>1 DEF ReadSound
  <2>3. ChainSound' BY <1>1 DEF ChainSound, Queued, Read0, Read1, Read2, Read3
  <2>4. BlameSound' BY <1>1 DEF BlameSound
  <2> QED BY <2>1, <2>2, <2>3, <2>4
<1> QED BY <1>1, <1>2, <1>3 DEF Goes

\* What a Read brought is taken over.
LEMMA ScannedGoes ==
  ASSUME StreamInv, Scanned
  PROVE  Goes
<1> USE DEF StreamInv
<1>1. /\ at = "read" /\ at' = "scan" /\ rd = "out" /\ rd' = "out"
      /\ lines' = result.buf /\ scanErr' = result.err /\ result' = Nothing /\ began' = None
      /\ UNCHANGED <<ctx, done, goroutine, chunkCh, clock, leftover, lastErr, mode, looked,
                     preamble, seen, committed, sent, outcome, gone>> BY DEF Scanned, Collect
<1>2. /\ Nothing.buf = <<>> /\ Nothing.err = None /\ Nothing \in [buf : Seq(Nat), err : Errs]
      /\ result.err \in Errs /\ result.buf \in Seq(Nat)
  BY DEF Nothing, Chunk, Errs, ChunkErrs, ReaderInv, BodyTyped
<1>3. PumpInv' BY <1>1, <1>2, PumpStays DEF PumpInv, PumpTyped
<1>4. ReaderInv'
  <2> USE DEF ReaderInv, goroutine, clock
  <2>1. BodyTyped' BY <1>1, <1>2 DEF BodyTyped, Ctxs
  <2>2. ReadSound' BY <1>1 DEF ReadSound
  <2>3. ChainSound'
    <3>1. lines = <<>> /\ Len(lines) = 0 BY <1>1 DEF ReadSound
    <3>2. Len(looked) \in Nat /\ Len(result.buf) \in Nat BY Lengths DEF PumpInv
    <3>3. Read0 = Len(looked) BY <3>1, <3>2 DEF Read0
    <3>4. Read1 = Len(looked) + Len(result.buf) BY <3>3 DEF Read1
    <3>5. Read0' = Len(looked) + Len(result.buf) BY <1>1 DEF Read0
    <3>6. Read1' = Read0' + 0 BY <1>1, <1>2 DEF Read1
    <3>7. Read1' = Read1 /\ Read0' = Read1 /\ Read1 \in Nat BY <3>2, <3>4, <3>5, <3>6
    <3>8. Queued' = Queued BY <1>1 DEF Queued
    <3>9. Read2' = Read2 /\ Read3' = Read3 BY <1>1, <3>7, <3>8 DEF Read2, Read3
    <3>10. Run(lines', Len(looked')) BY <1>1, <3>3 DEF ChainSound
    <3>11. Run(result'.buf, Read0') BY <1>1, <1>2, <3>7, RunNone
    <3> QED BY <1>1, <3>7, <3>8, <3>9, <3>10, <3>11 DEF ChainSound
  <2>4. BlameSound' BY <1>1, <1>2 DEF BlameSound, Callers, None
  <2> QED BY <2>1, <2>2, <2>3, <2>4
<1> QED BY <1>1, <1>3, <1>4 DEF Goes

\* The caller leaves, time runs out, the watch notices.
LEMMA WorldGoes ==
  ASSUME StreamInv, Leave \/ Expire \/ WatchCloses
  PROVE  Goes
<1> USE DEF StreamInv
<1>1. /\ at # "ended" /\ UNCHANGED <<reader, pump>>
      /\ \/ gone' = TRUE /\ done' = done /\ ctx' \in {"canceled", "deadline"}
         \/ gone' = gone /\ done' = done /\ ctx' = "deadline"
         \/ gone' = gone /\ gone /\ done' = TRUE /\ ctx' = ctx
  BY DEF Leave, Expire, WatchCloses, Delivering, ReaderInv, BodyTyped, Ctxs
<1>2. gone' \in BOOLEAN BY <1>1 DEF PumpInv, PumpTyped
<1>3. PumpInv' BY <1>1, <1>2, PumpStays DEF PumpInv, PumpTyped, pump
<1>4. ReaderInv'
  <2> USE DEF ReaderInv, reader, goroutine, clock, pump
  <2>0. ctx' \in Ctxs /\ done' \in BOOLEAN /\ UNCHANGED reader /\ BodyTyped
    BY <1>1 DEF BodyTyped, Ctxs
  <2>1. BodyTyped' BY <2>0 DEF BodyTyped
  <2>2. ReadSound' BY <1>1 DEF ReadSound, None
  <2>3. ChainSound' BY <1>1 DEF ChainSound, Queued, Read0, Read1, Read2, Read3
  <2>4. BlameSound' BY <1>1 DEF BlameSound
  <2> QED BY <2>1, <2>2, <2>3, <2>4
<1> QED BY <1>1, <1>3, <1>4 DEF Goes, pump

\* Every step keeps the invariant, and reports an end only if it is promised.
LEMMA StreamGoes ==
  ASSUME StreamInv, [Next]_vars
  PROVE  Goes
<1>1. CASE Upstream \/ Read \/ Tick
  <2>1. ReaderInv' /\ UNCHANGED <<pump, gone>> BY <1>1, ReadKeeps DEF StreamInv, PumpInv
  <2>2. PumpInv' BY <2>1, PumpStays DEF StreamInv, PumpInv, PumpTyped, pump
  <2> QED BY <2>1, <2>2 DEF Goes, StreamInv, pump
<1>2. CASE Leave \/ Expire \/ WatchCloses BY <1>2, WorldGoes
<1>3. CASE Pump BY <1>3, ScanGoes, ScannedGoes, ForwardGoes, TranslateGoes, StopForwardingGoes,
     EndForwardingGoes, FinishDecodingGoes, EndTranslatingGoes, CloseBodyGoes
  DEF Pump
<1>4. CASE UNCHANGED vars
  <2>1. UNCHANGED <<ctx, done, reader, pump, gone>> BY <1>4 DEF vars
  <2>2. PumpInv' BY <2>1, PumpStays DEF StreamInv, PumpInv, PumpTyped, pump
  <2>3. ReaderInv'
    <3> USE DEF StreamInv, ReaderInv, reader, goroutine, clock, pump
    <3>1. BodyTyped' BY <2>1 DEF BodyTyped
    <3>2. ReadSound' BY <2>1 DEF ReadSound
    <3>3. ChainSound' BY <2>1 DEF ChainSound, Queued, Read0, Read1, Read2, Read3
    <3>4. BlameSound' BY <2>1 DEF BlameSound
    <3> QED BY <3>1, <3>2, <3>3, <3>4
  <2> QED BY <2>1, <2>2, <2>3 DEF Goes, StreamInv, pump
<1> QED BY <1>1, <1>2, <1>3, <1>4 DEF Next

\* A delivery that has not begun.
LEMMA StreamStarts == Init => StreamInv
<1> SUFFICES ASSUME Init PROVE StreamInv OBVIOUS
<1>1. /\ ctx = None /\ done = FALSE /\ loop = "reading" /\ taken = 0 /\ pending = Nothing
      /\ chunkCh = <<>> /\ timer = "running" /\ firstByteReceived = FALSE
      /\ leftover = <<>> /\ lastErr = None /\ rd = "out" /\ result = Nothing /\ began = None
      /\ mode \in Modes /\ at = "scan" /\ lines = <<>> /\ scanErr = None /\ looked = <<>>
      /\ preamble = <<>> /\ seen = {} /\ committed = FALSE /\ sent = <<>> /\ gone = FALSE
      /\ outcome = NoOutcome BY DEF Init, InitBody
<1>2. /\ Nothing.buf = <<>> /\ Nothing.err = None
      /\ Nothing \in [buf : Seq(Nat), err : ChunkErrs] /\ Nothing \in [buf : Seq(Nat), err : Errs]
      /\ <<>> \in Seq(Chunks) /\ <<>> \in Seq(Nat) /\ <<>> \in Seq(Kinds)
  BY DEF Nothing, Chunk, ChunkErrs, Errs
<1>3. None \in Ctxs /\ None \in Errs /\ 0 \in 0..MaxFrames /\ None \notin Callers
  BY FramesAssumption DEF Ctxs, Errs, ChunkErrs, None, Callers
<1>4. Len(<<>>) = 0 /\ \A n \in Nat : Run(<<>>, n) BY RunNone
<1>5. BodyTyped BY <1>1, <1>2, <1>3, <1>4 DEF BodyTyped
<1>6. PumpTyped BY <1>1, <1>2, <1>3 DEF PumpTyped, Ended
<1>7. ReadSound BY <1>1 DEF ReadSound
<1>8. ChainSound
  <2>1. Queued = <<>> BY <1>1 DEF Queued
  <2>2. Read0 = 0 BY <1>1, <1>4 DEF Read0
  <2>3. Read1 = 0 BY <1>1, <1>2, <1>4, <2>2 DEF Read1
  <2>4. Read2 = 0 BY <1>1, <1>4, <2>3 DEF Read2
  <2>5. Read3 = 0 BY <1>4, <2>1, <2>4 DEF Read3
  <2> QED BY <1>1, <1>2, <1>4, <2>1, <2>2, <2>3, <2>4, <2>5 DEF ChainSound
<1>9. BlameSound BY <1>1, <1>2, <1>3 DEF BlameSound, None
<1>10. ForwardSound /\ TranslateSound BY <1>1, <1>4 DEF ForwardSound, TranslateSound
<1>11. Rising /\ Announced BY <1>1, <1>4 DEF Rising, Announced
<1>12. CompleteSound BY <1>1, Unstarted DEF CompleteSound
<1> QED BY <1>5, <1>6, <1>7, <1>8, <1>9, <1>10, <1>11, <1>12 DEF StreamInv, ReaderInv, PumpInv

\* A Read that returns: nothing if it began too late, a timeout only of an empty channel.
HonestReturn ==
  rd # "out" /\ rd' = "out" =>
        /\ began # None => result'.buf = <<>>
        /\ lastErr = None /\ result'.err \in {"idle", "first_byte"} => chunkCh = <<>>

\* Every step that returns from a Read is honest.
LEMMA ReturnsAreHonest ==
  ASSUME StreamInv, [Next]_vars
  PROVE  HonestReturn
<1> USE DEF StreamInv, ReaderInv
<1> SUFFICES ASSUME rd # "out", rd' = "out"
             PROVE  /\ began # None => result'.buf = <<>>
                    /\ lastErr = None /\ result'.err \in {"idle", "first_byte"} => chunkCh = <<>>
  BY DEF HonestReturn
<1>1. at = "read" /\ began # None => ctx # None BY DEF ReadSound
<1>2. EnterRead \/ Drain \/ SelectCtx \/ SelectChunk \/ SelectTimer \/ Recheck
  BY DEF Next, Upstream, Arrive, Receive, Leave, Expire, WatchCloses, Read, ReaderSteps, Unblock,
         SendChunk, QuitSending, Tick, TimerFires, Pump, Scan, CallRead, Scanned, Forward,
         Translate, Look, StopForwarding, EndForwarding, FinishDecoding, EndTranslating,
         CloseBody, vars, pump, reader
<1>3. ctx \notin {"idle", "first_byte"} BY DEF BodyTyped, Ctxs, None
<1>4. ASSUME NEW e, Fail(e) PROVE result'.buf = <<>> /\ result'.err = e
  BY <1>4 DEF Fail, Return, Chunk
<1>5. ASSUME Handle PROVE result'.err \notin {"idle", "first_byte"}
  <2>1. CASE chunkCh = <<>>
    <3>1. Fail(IF ctx # None THEN ctx ELSE "eof") BY <1>5, <2>1 DEF Handle, HandleClosed
    <3> QED BY <1>3, <1>4, <3>1
  <2>2. CASE chunkCh # <<>>
    <3>1. HandleChunk(Head(chunkCh)) BY <1>5, <2>2 DEF Handle
    <3>2. Head(chunkCh) \in Chunks BY <2>2 DEF BodyTyped
    <3>3. Head(chunkCh).err \notin {"idle", "first_byte"} BY <3>2 DEF Chunks, ChunkErrs, None
    <3>4. result'.err \in {None, ctx, Head(chunkCh).err} BY <3>1 DEF HandleChunk, Return, Chunk
    <3> QED BY <1>3, <3>3, <3>4 DEF None
  <2> QED BY <2>1, <2>2
<1>6. CASE EnterRead
  <2>1. CASE leftover # <<>> /\ Cancelled
    <3>1. Fail(ctx) BY <1>6, <2>1 DEF EnterRead
    <3> QED BY <1>3, <1>4, <3>1
  <2>2. CASE leftover # <<>> /\ ~Cancelled
    <3>1. ReadRest /\ began = None BY <1>1, <1>6, <2>2 DEF EnterRead, Cancelled, ReadSound
    <3>2. result'.err = None BY <3>1 DEF ReadRest, Return, Chunk
    <3> QED BY <3>1, <3>2 DEF None
  <2>3. CASE leftover = <<>> /\ lastErr # None
    <3>1. Return(<<>>, lastErr) BY <1>6, <2>3 DEF EnterRead
    <3> QED BY <2>3, <3>1 DEF Return, Chunk
  <2>4. CASE leftover = <<>> /\ lastErr = None /\ Cancelled
    <3>1. Fail(ctx) BY <1>6, <2>4 DEF EnterRead
    <3> QED BY <1>3, <1>4, <3>1
  <2>5. CASE leftover = <<>> /\ lastErr = None /\ ~Cancelled
    <3>1. rd' = "drain" BY <1>6, <2>5 DEF EnterRead
    <3> QED BY <3>1
  <2> QED BY <2>1, <2>2, <2>3, <2>4, <2>5
<1>7. CASE ~EnterRead
  <2>1. began = None
    BY <1>2, <1>7 DEF Drain, SelectCtx, SelectChunk, SelectTimer, Recheck, ReadSound
  <2>2. result'.err \in {"idle", "first_byte"} => chunkCh = <<>>
    <3>1. CASE Drain
      <4>1. Handle BY <3>1 DEF Drain
      <4> QED BY <1>5, <4>1
    <3>2. CASE SelectCtx BY <1>3, <1>4, <3>2 DEF SelectCtx
    <3>3. CASE SelectChunk
      <4>1. Handle \/ Fail(ctx) BY <3>3 DEF SelectChunk, Discard
      <4> QED BY <1>3, <1>4, <1>5, <4>1
    <3>4. CASE SelectTimer
      <4>1. Fail(ctx) BY <3>4 DEF SelectTimer
      <4> QED BY <1>3, <1>4, <4>1
    <3>5. CASE Recheck
      <4>1. CASE Ready
        <5>1. Handle \/ Fail(ctx) BY <3>5, <4>1 DEF Recheck, Discard
        <5> QED BY <1>3, <1>4, <1>5, <5>1
      <4>2. CASE ~Ready BY <4>2 DEF Ready
      <4> QED BY <4>1, <4>2
    <3> QED BY <1>2, <1>7, <3>1, <3>2, <3>3, <3>4, <3>5
  <2> QED BY <2>1, <2>2
<1> QED BY <1>6, <1>7

\* The invariant of a stream.
LEMMA StreamAlways == Spec => []StreamInv
<1>1. StreamInv /\ [Next]_vars => StreamInv' BY StreamGoes DEF Goes
<1> QED BY <1>1, StreamStarts, PTL DEF Spec

\* It says that the caller holds a prefix.
LEMMA PrefixIsHeld == StreamInv => CallerHoldsThePrefix
<1> SUFFICES ASSUME StreamInv PROVE CallerHoldsThePrefix OBVIOUS
<1> USE DEF StreamInv, PumpInv
<1>1. DOMAIN sent = 1..Len(sent) /\ Len(looked) \in Nat BY DEF PumpTyped
<1>2. \A i, j \in DOMAIN sent : i < j /\ sent[j] # Terminator => sent[i] < sent[j]
  BY <1>1 DEF Rising
<1>3. ASSUME outcome = NoOutcome PROVE Texts(Len(looked)) \subseteq Range(sent)
  <2> SUFFICES ASSUME NEW i \in 1..Len(looked), looked[i] = "text" PROVE i \in Range(sent)
    BY DEF Texts
  <2>1. ~Ended BY <1>3 DEF PumpTyped
  <2>2. CASE Passthrough
    <3>1. Run(sent, 0) /\ Len(sent) = Len(looked) BY <2>1, <2>2 DEF ForwardSound
    <3>2. i \in DOMAIN sent /\ sent[i] = i BY <3>1, <1>1 DEF Run
    <3> QED BY <3>2 DEF Range
  <2>3. CASE ~Passthrough
    <3>1. PICK j \in 1..Len(sent) : sent[j] = i BY <2>1, <2>3 DEF TranslateSound
    <3> QED BY <3>1, <1>1 DEF Range
  <2> QED BY <2>2, <2>3
<1>4. outcome.d.complete =>
          \E last \in DOMAIN looked :
              /\ Texts(last) \subseteq Range(sent)
              /\ IF Passthrough THEN last \in Range(sent) ELSE Last(sent) = Terminator
              /\ IF mode = "chat" THEN looked[last] = "end"
                 ELSE looked[last] \in {"stop", "final", "tail"} BY DEF CompleteSound, EndKinds
<1> QED BY <1>2, <1>3, <1>4 DEF CallerHoldsThePrefix

\* What the caller has been sent is the upstream's answer so far, and every Read of it is
\* honest about the end (IdleReadCloser, streamPump, RelayStream).
THEOREM DeliveriesHonest == Spec => DeliveryIsHonest
<1>1. Spec => []CallerHoldsThePrefix BY StreamAlways, PrefixIsHeld, PTL
<1>2. Spec => ReadIsHonest
  <2>1. StreamInv /\ [Next]_vars => [HonestReturn]_vars BY ReturnsAreHonest
  <2>2. Spec => [][HonestReturn]_vars BY <2>1, StreamAlways, PTL DEF Spec
  <2> QED BY <2>2 DEF ReadIsHonest, HonestReturn
<1> QED BY <1>1, <1>2 DEF DeliveryIsHonest

\* Every end is one that the exchange is built for, blamed on the caller only where the
\* exchange may (settleStream, midStreamFailure, streamPump.end).
THEOREM OutcomesPromised == Spec => OutcomeIsPromised
<1>1. StreamInv /\ [Next]_vars => [outcome' # outcome => Promised]_vars BY StreamGoes DEF Goes
<1>2. Spec => [][outcome' # outcome => Promised]_vars BY <1>1, StreamAlways, PTL DEF Spec
<1> QED BY <1>2 DEF OutcomeIsPromised, Promised
=============================================================================
