------------------------------- MODULE Usage -------------------------------
(***************************************************************************)
(* Token counts (internal/protocols/usage.go, and the usage objects of the *)
(* four codecs).  Protocols disagree on whether the input count includes   *)
(* the cached tokens: Anthropic's does not, the others' does.  A record    *)
(* keeps the count as the upstream stated it, with the convention its      *)
(* decoder believed; every consumer converts.  Web searches are left out.  *)
(***************************************************************************)
EXTENDS Integers

CONSTANT MaxInt  \* the largest int

ASSUME MaxIntAssumption == MaxInt \in Nat

NoUsage == [prompt |-> 0, completion |-> 0, total |-> 0, read |-> 0, write |-> 0,
            reasoning |-> 0, inPrompt |-> FALSE, invalid |-> FALSE]

Larger(a, b) == IF a >= b THEN a ELSE b

\* int addition of two counts.
Plus(a, b) == IF a + b > MaxInt THEN a + b - 2 * (MaxInt + 1) ELSE a + b

\* AddTokenCounts, a sum at a time; Untrusted is its false.
Untrusted == -1
Add(a, b) == IF a >= 0 /\ b >= 0 /\ a + b <= MaxInt THEN a + b ELSE Untrusted

CacheOf(u) == Add(u.read, u.write)
-----------------------------------------------------------------------------
(* The convention a record follows, and whether it is possible at all.     *)

\* Bug: slack in the total is taken for evidence.
OutsideIfItFits(u) ==
    LET net == Add(Add(u.prompt, u.completion), CacheOf(u)) IN
    /\ u.inPrompt
    /\ CacheOf(u) > 0 /\ u.total > 0
    /\ net # Untrusted /\ net <= u.total + CacheOf(u)

\* The counts themselves rule out that the cache is inside the prompt.
CacheSitsOutsidePrompt(u) ==
    LET net == Add(Add(u.prompt, u.completion), CacheOf(u)) IN
    /\ u.inPrompt
    /\ CacheOf(u) > 0 /\ u.total > 0
    /\ net # Untrusted /\ net <= u.total
    /\ CacheOf(u) > u.prompt \/ net = u.total

PromptIncludesCache(u) == u.inPrompt /\ ~CacheSitsOutsidePrompt(u)

HasNegativeCount(u) ==
    \E n \in {u.prompt, u.completion, u.total, u.read, u.write, u.reasoning} : n < 0

IsIncoherentMidStream(u) ==
    \/ u.invalid
    \/ HasNegativeCount(u)
    \/ /\ PromptIncludesCache(u)
       /\ u.total > 0 \/ u.prompt # 0
       /\ CacheOf(u) = Untrusted \/ CacheOf(u) > u.prompt

reasoningExceedsCompletion(u) == u.completion > 0 /\ u.reasoning > u.completion

IsIncoherent(u) == IsIncoherentMidStream(u) \/ reasoningExceedsCompletion(u)

\* The verdict a decoder hands on with a snapshot.
Judged(u) == [u EXCEPT !.invalid = IsIncoherent(u)]
-----------------------------------------------------------------------------
(* Merge: what a frame states replaces what was known, and a verdict stays. *)

Stated(new, old) == IF new > 0 THEN new ELSE old

\* Bug: the frame replaces the record.
Replace(u, src) == [src EXCEPT !.invalid = @ \/ u.invalid]

Merge(u, src) ==
    LET prompt == Stated(src.prompt, u.prompt)
        completion == Stated(src.completion, u.completion)
        total == Stated(src.total, u.total)
    IN [prompt |-> prompt,
        completion |-> completion,
        total |-> IF total = 0 \/ total < Plus(prompt, completion)
                  THEN Plus(prompt, completion) ELSE total,
        read |-> Stated(src.read, u.read),
        write |-> Stated(src.write, u.write),
        reasoning |-> Stated(src.reasoning, u.reasoning),
        inPrompt |-> u.inPrompt \/ src.inPrompt,
        invalid |-> u.invalid \/ IsIncoherentMidStream(src)]
-----------------------------------------------------------------------------
(* The conversions.                                                        *)

NetPromptTokens(u) ==
    IF ~PromptIncludesCache(u) THEN Larger(u.prompt, 0)
    ELSE IF CacheOf(u) = Untrusted THEN 0 ELSE Larger(u.prompt - CacheOf(u), 0)

GrossPromptTokens(u) ==
    IF PromptIncludesCache(u) THEN Larger(u.prompt, 0)
    ELSE Larger(Add(Add(u.prompt, u.write), u.read), 0)

GrossTotalTokens(u) == Larger(Add(GrossPromptTokens(u), u.completion), 0)

HasBillableUsage(u) ==
    ~u.invalid /\ \E n \in {u.prompt, u.completion, u.total, u.read, u.write} : n > 0

HasAnyUsage(u) == HasBillableUsage(u) \/ (~u.invalid /\ u.reasoning > 0)
-----------------------------------------------------------------------------
(* Usage objects on the wire, the four protocols' fields under one set of   *)
(* names; "output" is Gemini's candidatesTokenCount.                        *)

Null == [null |-> TRUE]

Counts(input, output, total, u) ==
    [input |-> input, output |-> output, total |-> total, read |-> u.read,
     write |-> u.write, reasoning |-> u.reasoning]

claudeUsageMap(u) ==
    IF u.invalid THEN Null
    ELSE [Counts(NetPromptTokens(u), u.completion, 0, u) EXCEPT !.reasoning = 0]

\* Chat and Responses.
openAIWireUsage(u) ==
    IF u.invalid THEN Null
    ELSE Counts(GrossPromptTokens(u), u.completion, GrossTotalTokens(u), u)

buildGeminiUsage(u) ==
    IF u.invalid THEN Null
    ELSE Counts(GrossPromptTokens(u), Larger(u.completion - u.reasoning, 0),
                GrossTotalTokens(u), u)

\* What the decoders make of them.
FromCounts(prompt, completion, total, w, inPrompt) ==
    [prompt |-> prompt, completion |-> completion, total |-> total, read |-> w.read,
     write |-> w.write, reasoning |-> w.reasoning, inPrompt |-> inPrompt,
     invalid |-> FALSE]

ClaudeUsage(w) ==
    FromCounts(w.input, w.output, Plus(Plus(w.input, w.output), Plus(w.write, w.read)), w,
               FALSE)

OpenAIUsage(w) == FromCounts(w.input, w.output, w.total, w, TRUE)

\* The backends disagree on whether candidates include the thinking: only the
\* total tells.
completionTokens(w) ==
    IF w.total > w.input THEN Larger(w.total - w.input, w.output)
    ELSE Plus(w.output, w.reasoning)

GeminiUsage(w) ==
    IF \E n \in {w.input, w.output, w.total, w.read, w.write, w.reasoning} : n < 0
    THEN [NoUsage EXCEPT !.invalid = TRUE]
    ELSE LET completion == completionTokens(w) IN
         FromCounts(w.input, completion, Larger(w.total, Plus(w.input, completion)), w, TRUE)
=============================================================================
