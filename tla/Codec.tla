-------------------------------- MODULE Codec --------------------------------
(***************************************************************************)
(* A streamed answer of an upstream of one protocol, translated for a      *)
(* caller of another (IRStreamRelay and its JSON-lines twin,               *)
(* internal/protocols/relay.go).  Frames are read one at a time; the body  *)
(* may end, or the read may fail, after any of them.                       *)
(*                                                                         *)
(* "source" is a client of the upstream's own protocol that reads the same *)
(* frames up to its end: what the caller should have heard.                *)
(***************************************************************************)
EXTENDS Wire

CONSTANTS MaxSaid,  \* utterances in an answer
          Plain,    \* the counts of most answers
          Costly    \* the counts of answers that vary in how they count

ASSUME MaxSaidAssumption == MaxSaid \in Nat

Pairs == {pair \in Protocols \X Protocols : pair[1] # pair[2]}

VARIABLES pair,     \* <<upstream's protocol, caller's>>
          plan,     \* the answer
          unread,   \* frames not read yet
          dec, enc, \* the codecs' states
          sawDone,  \* FinishSignals.SawDone
          listener, \* the caller
          source,   \* the upstream's own client
          stated,   \* what the upstream said of its end: "", "ended", "failed"
          ending    \* "open", "served", "failed", "broken"

codec == <<pair, plan, unread, dec, enc, sawDone, listener, source, stated, ending>>

up == pair[1]
down == pair[2]

\* Every way of talking at one way of counting, and every way of counting at a few
\* ways of talking.  Claude and Gemini send a call in one go; a fate that needs an
\* error event or a failed status belongs to Claude and Responses.
Plans(protocol) ==
    LET talk == {said \in SeqOf(Utterances, MaxSaid) :
                    /\ WellSaid(said)
                    /\ protocol \in {"claude", "gemini"} => ~Interleaved(said)}
        brief == {said \in talk : Len(said) <= 2 /\ \A i \in DOMAIN said : said[i].kind # "think"}
        reasons == {"stop", "length", "content_filter"}
                       \cup (IF protocol \in {"chat", "claude"} THEN {""} ELSE {})
        fates == {"ends"} \cup (IF protocol \in {"claude", "responses"}
                                THEN {"errors", "fails", "errs late"} ELSE {})
        tails == {"apart", "split"} \cup (IF protocol \in {"chat", "gemini"} THEN {"together"} ELSE {})
        ways == [said : talk, reason : {"stop", "length"}, counts : {Plain}, dialect : {"own"},
                 tail : {"apart"}, fate : {"ends"}, asks : {TRUE}]
        costs == [said : brief, reason : reasons, counts : {Plain, Costly},
                  dialect : {"own", "foreign", "absurd"}, tail : tails, fate : fates,
                  asks : BOOLEAN]
        \* An input alone, less than its cache, is impossible before the total is known.
    IN ways \cup {p \in costs : protocol = "chat" /\ p.dialect = "foreign" => p.tail # "split"}

CodecInit ==
    /\ pair \in Pairs
    /\ plan \in Plans(up)
    /\ unread = Frames(up, plan)
    /\ dec = NewDecoder
    /\ enc = NewEncoder(plan.asks)
    /\ sawDone = FALSE
    /\ listener = NewClient
    /\ source = NewClient
    /\ stated = ""
    /\ ending = "open"

SaysDone(deltas) == \E i \in DOMAIN deltas : deltas[i].d = "done"

\* The first word on its end an upstream puts in a frame.
EndIn(f) ==
    CASE f.f \in {"[DONE]", "message_stop"} -> "ended"
      [] f.f = "chunk" -> IF f.finish = "" THEN "" ELSE "ended"
      [] f.f = "message_delta" -> IF f.reason = "" THEN "" ELSE "ended"
      [] f.f = "ended" -> IF StatusIsNonServed(f.status) THEN "failed" ELSE "ended"
      [] f.f = "error" -> "failed"
      [] OTHER -> ""

\* DecodeChunk, Accumulate, EncodeDeltas.
ReadFrame ==
    LET f == Head(unread)
        step == DecodeChunk(up, dec, f)
        e == EncodeDeltas(down, enc, step.deltas)
    IN /\ ending = "open" /\ unread # <<>>
       /\ unread' = Tail(unread)
       /\ dec' = step.state
       /\ enc' = e
       /\ sawDone' = (sawDone \/ SaysDone(step.deltas))
       /\ listener' = Client(down, listener, e.out)
       /\ source' = Client(up, source, IF source.over \/ f.f = "error" THEN <<>> ELSE <<f>>)
       /\ stated' = IF stated = "" THEN EndIn(f) ELSE stated
       /\ UNCHANGED <<pair, plan, ending>>

\* Bug: an end is written whatever was read.
mayEndAnyway(failed, done) == TRUE

\* The end is the upstream's to state, and an error unstates it.
mayEnd(failed, done) == ~failed /\ done

hasMeaningfulUsage(u) == ~u.invalid /\ (u.prompt > 0 \/ u.completion > 0 \/ u.total > 0)

\* Finish, then EncodeDone.  A failed read is pardoned when it is a reset and nothing
\* is missing.
ConcludeRelay(failedRead, benign) ==
    LET deltas == Finish(up, dec)
        e == EncodeDeltas(down, enc, deltas)
        done == sawDone \/ SaysDone(deltas)
        pardoned == ~failedRead \/ (done /\ benign /\ hasMeaningfulUsage(e.usage))
        served == pardoned /\ mayEnd(dec.failed, done)
        last == IF served THEN EncodeDone(down, e) ELSE [e EXCEPT !.out = <<>>]
    IN /\ ending = "open"
       /\ enc' = last
       /\ sawDone' = done
       /\ listener' = Client(down, listener, e.out \o last.out)
       /\ ending' = IF ~pardoned THEN "broken" ELSE IF served THEN "served" ELSE "failed"
       /\ UNCHANGED <<pair, plan, unread, dec, source, stated>>

BodyEnds == ConcludeRelay(FALSE, FALSE)

ReadFails == \E benign \in BOOLEAN : ConcludeRelay(TRUE, benign)

\* The answer as one body (IRNonStreamRelay); Null when the upstream's failed.
WholeAnswer(body) ==
    LET r == DecodeResponse(up, body) IN
    IF r.failed THEN Null ELSE EncodeResponse(down, r)

CodecNext == ReadFrame \/ BodyEnds \/ ReadFails

CodecSpec == CodecInit /\ [][CodecNext]_codec
-----------------------------------------------------------------------------
CodecTypeOK ==
    /\ pair \in Pairs
    /\ sawDone \in BOOLEAN
    /\ stated \in {"", "ended", "failed"}
    /\ ending \in {"open", "served", "failed", "broken"}

\* Claude has one block open at a time, and its encoder writes late arguments to it
\* whichever call they belong to.
Misfiled == down = "claude" /\ Interleaved(plan.said)

\* Every frame the caller gets has its place in the caller's protocol: a block opens
\* when the last is closed, a delta is of what is open, an item restates what it held,
\* nothing follows the end (the four StreamEncoders).
CallerWireIsWellFormed == Misfiled \/ listener.ok

Known(calls) == {<<calls[i].call, calls[i].args>> : i \in DOMAIN calls}

EndClass(end) ==
    CASE end \in {"length", "max_tokens", "MAX_TOKENS", "max_output_tokens"} -> "length"
      [] end \in {"content_filter", "refusal", "SAFETY"} -> "content_filter"
      [] OTHER -> "normal"

CallsHeard ==
    IF down = "gemini"
    THEN Known(listener.calls) = {c \in Known(source.calls) : Complete(c[2])}
    ELSE Known(listener.calls) = Known(source.calls) /\ Len(listener.calls) = Len(source.calls)

\* The caller has heard what a client of the upstream would have, neither more nor
\* less: every text, every call with its arguments (a Gemini caller, those that are
\* complete).  It is told of an end only if the upstream stated one, of the same
\* kind, so that cut arguments are not called ready; and it is told of it if the
\* body ended there (IRStreamRelay).
CallerHearsTheUpstream ==
    /\ listener.think = source.think /\ listener.text = source.text
    /\ Misfiled \/ CallsHeard
    /\ listener.over <=> ending = "served"
    /\ ending = "served" =>
         /\ stated = "ended"
         /\ EndClass(listener.end) = EndClass(source.end)
         /\ EndClass(source.end) = "normal" /\ source.calls # <<>> /\ down \in {"chat", "claude"}
              => listener.end \in {"tool_calls", "tool_use"}
    /\ (ending = "failed" /\ stated = "ended") => plan.fate = "errs late"

\* The counts a client reads off its protocol's usage object.
ReadOff(protocol, w) ==
    [fresh |-> IF protocol = "claude" THEN w.input ELSE w.input - w.read - w.write,
     read |-> w.read, write |-> w.write,
     out |-> IF protocol = "gemini" THEN w.output + w.reasoning ELSE w.output]

\* The record the relay settles on and the counts the caller is shown are those the
\* upstream incurred, in whichever convention either states them, however they were
\* spread over frames; impossible ones are neither shown nor billed
\* (IRUsage.Merge, CacheSitsOutsidePrompt, the usage objects of the encoders).
CountsAgree ==
    (ending = "served" /\ unread = <<>>) =>
        LET c == plan.counts
            shown == down # "chat" \/ plan.asks
        IN IF plan.dialect = "absurd"
           THEN ~HasBillableUsage(enc.usage) /\ listener.usage = Null
           ELSE /\ HasBillableUsage(enc.usage)
                /\ NetPromptTokens(enc.usage) = c.fresh
                /\ GrossPromptTokens(enc.usage) = Gross(c)
                /\ <<enc.usage.read, enc.usage.write, enc.usage.completion>>
                       = <<c.read, c.write, c.out>>
                /\ shown => listener.usage # Null
                             /\ ReadOff(down, listener.usage) =
                                    [fresh |-> c.fresh, read |-> c.read, write |-> c.write,
                                     out |-> c.out]

\* A caller that streams and one that does not are given the same answer: the same
\* texts and calls, the same stop, the same counts (IRNonStreamRelay against
\* IRStreamRelay).  Calls cut short or without arguments aside, and stops an upstream
\* gave no reason for.
StreamedIsWhole ==
    (ending = "served" /\ unread = <<>> /\ plan.fate = "ends") =>
        LET body == WholeAnswer(Body(up, plan))
            ready(calls) == {c \in Known(calls) : Complete(c[2])}
        IN /\ body # Null
           /\ body.think = listener.think /\ body.text = listener.text
           /\ Misfiled \/ ready(body.calls) = ready(listener.calls)
           /\ EndClass(body.stop) = EndClass(listener.end)
           /\ (plan.reason # "" /\ down \in {"chat", "claude"}) => body.stop = listener.end
           /\ (down # "chat" \/ plan.asks) => body.usage = listener.usage

\* A served answer is counted and put together alike by everyone who reads it.
AnswersAgree == CountsAgree /\ StreamedIsWhole
=============================================================================
