----------------------------- MODULE BodyReader -----------------------------
(***************************************************************************)
(* IdleReadCloser (internal/gateway/idle_reader.go): a body read by a      *)
(* goroutine of its own, one chunk ahead of the consumer, under a timer    *)
(* and the attempt's context.  The upstream's body is a sequence of frames *)
(* known by their positions: a chunk, and what a Read returns, is a run of *)
(* positions or an error.                                                  *)
(***************************************************************************)
EXTENDS Naturals, Sequences

CONSTANT MaxFrames  \* frames of a body

ASSUME FramesAssumption == MaxFrames \in Nat

VARIABLES
    ctx,        \* ctx.Err()
    done,       \* is done closed, and the body with it?
    loop,       \* where readLoop is
    taken,      \* frames body.Read has returned to it
    pending,    \* the result it is sending
    chunkCh,    \* the channel's buffer
    timer,      \* "running", "fired" or "stopped"
    firstByteReceived,
    leftover,   \* frames of the last chunk not yet returned
    lastErr,    \* the terminal error, once there is one
    rd,         \* where Read is; "out" between calls
    result,     \* what the last Read returned
    began       \* history: ctx when the last Read began

goroutine == <<loop, taken, pending>>
clock == <<timer, firstByteReceived>>
reader == <<goroutine, chunkCh, clock, leftover, lastErr, rd, result, began>>

None == "none"
Chunk(buf, err) == [buf |-> buf, err |-> err]
Nothing == Chunk(<<>>, None)
Positions(from, to) == [i \in 1 .. to - from |-> from + i]

InitBody ==
    /\ ctx = None /\ done = FALSE
    /\ loop = "reading" /\ taken = 0 /\ pending = Nothing
    /\ chunkCh = <<>>
    /\ timer = "running" /\ firstByteReceived = FALSE
    /\ leftover = <<>> /\ lastErr = None
    /\ rd = "out" /\ result = Nothing /\ began = None
-----------------------------------------------------------------------------
(* readLoop.  Its read is blocked until the upstream's bytes arrive, with   *)
(* or without the body's end: "torn" is one the transport calls unexpected, *)
(* "reset" a broken connection.                                             *)

Receive(res) ==
    /\ loop = "reading"
    /\ loop' = "sending"
    /\ pending' = res
    /\ taken' = taken + Len(res.buf)
    /\ UNCHANGED <<ctx, done, chunkCh, clock, leftover, lastErr, rd, result, began>>

Arrive ==
    /\ ~done
    /\ \E to \in taken .. MaxFrames, end \in {None, "eof", "torn", "reset"} :
          /\ to = taken => end # None
          /\ Receive(Chunk(Positions(taken, to), end))

\* The attempt's end, or Close, unblocks it.
Unblock ==
    \/ ctx # None /\ Receive(Chunk(<<>>, ctx))
    \/ done /\ Receive(Chunk(<<>>, "closed"))

SendChunk ==
    /\ loop = "sending" /\ chunkCh = <<>>
    /\ chunkCh' = <<pending>>
    /\ loop' = IF pending.err = None THEN "reading" ELSE "exited"
    /\ pending' = Nothing
    /\ UNCHANGED <<ctx, done, taken, clock, leftover, lastErr, rd, result,
                   began>>

\* Mutant: the send waits for the consumer alone.
NeverUnblocked == FALSE

\* The send gives way to Close.
Unblocked == done

QuitSending ==
    /\ loop = "sending" /\ Unblocked
    /\ loop' = "exited"
    /\ pending' = Nothing
    /\ UNCHANGED <<ctx, done, taken, chunkCh, clock, leftover, lastErr, rd,
                   result, began>>
-----------------------------------------------------------------------------
(* Read.                                                                   *)

CallRead ==
    /\ rd = "out"
    /\ rd' = "entered"
    /\ began' = ctx

\* What it returned is the caller's now.
Collect ==
    /\ rd = "out"
    /\ result' = Nothing
    /\ began' = None
    /\ UNCHANGED rd

Return(buf, err) ==
    /\ rd' = "out"
    /\ result' = Chunk(buf, err)

\* A terminal error, kept for every later Read.
Fail(err) ==
    /\ lastErr' = err
    /\ Return(<<>>, err)

\* Mutant: what does not fit the consumer's buffer is dropped.
NothingPast(buf, n) == <<>>

\* What is left of a chunk once the consumer's buffer is full.
Past(buf, n) == SubSeq(buf, n + 1, Len(buf))

ReadRest ==
    \E n \in 1 .. Len(leftover) :
        /\ Return(SubSeq(leftover, 1, n), None)
        /\ leftover' = Past(leftover, n)
        /\ UNCHANGED <<lastErr, timer>>

\* Mutant: only what is queued is asked for, not the caller.
CancelledLater == FALSE

\* The context has ended before anything is taken.
Cancelled == ctx # None

\* The checks before the channel is touched.
EnterRead ==
    /\ rd = "entered"
    /\ CASE leftover # <<>> /\ Cancelled ->
               leftover' = <<>> /\ timer' = "stopped" /\ Fail(ctx)
         [] leftover # <<>> /\ ~Cancelled -> ReadRest
         [] leftover = <<>> /\ lastErr # None ->
               Return(<<>>, lastErr) /\ UNCHANGED <<leftover, lastErr, timer>>
         [] leftover = <<>> /\ lastErr = None /\ Cancelled ->
               timer' = "stopped" /\ Fail(ctx) /\ UNCHANGED leftover
         [] OTHER ->
               rd' = "drain" /\ UNCHANGED <<leftover, lastErr, timer, result>>
    /\ UNCHANGED <<ctx, done, goroutine, chunkCh, firstByteReceived, began>>

Ready == chunkCh # <<>> \/ loop = "exited"

\* handleChunk on the channel's closure, and on a chunk: data rearms the
\* timer, and the context's error wins over the chunk's own.
HandleClosed ==
    /\ Fail(IF ctx # None THEN ctx ELSE "eof")
    /\ timer' = "stopped"
    /\ UNCHANGED <<chunkCh, leftover, firstByteReceived>>

HandleChunk(res) ==
    LET err == IF res.err # None /\ ctx # None THEN ctx ELSE res.err IN
    /\ chunkCh' = <<>>
    /\ firstByteReceived' = (firstByteReceived \/ res.buf # <<>>)
    /\ timer' = IF err # None THEN "stopped" ELSE "running"
    /\ lastErr' = err
    /\ IF res.buf = <<>> THEN Return(<<>>, err) /\ leftover' = <<>>
       ELSE \E n \in 1 .. Len(res.buf) :
               /\ Return(SubSeq(res.buf, 1, n), None)
               /\ leftover' = Past(res.buf, n)

Handle == IF chunkCh = <<>> THEN HandleClosed ELSE HandleChunk(Head(chunkCh))

\* The context's error instead of a chunk that is there to be taken: the
\* chunk is gone with it.
Discard ==
    /\ chunkCh' = <<>>
    /\ Fail(ctx)
    /\ UNCHANGED <<leftover, firstByteReceived>>

Drain ==
    /\ rd = "drain"
    /\ IF Ready THEN Handle
       ELSE rd' = "select" /\ UNCHANGED <<chunkCh, clock, leftover, lastErr, result>>
    /\ UNCHANGED <<ctx, done, goroutine, began>>

\* The blocking select: whichever of its cases the runtime picks, the
\* context's end wins.
SelectCtx ==
    /\ rd = "select" /\ ctx # None
    /\ timer' = "stopped"
    /\ Fail(ctx)
    /\ UNCHANGED <<ctx, done, goroutine, chunkCh, firstByteReceived, leftover, began>>

SelectChunk ==
    /\ rd = "select" /\ Ready
    /\ IF ctx # None THEN Discard /\ timer' = "stopped" ELSE Handle
    /\ UNCHANGED <<ctx, done, goroutine, began>>

SelectTimer ==
    /\ rd = "select" /\ timer = "fired"
    /\ IF ctx # None THEN Fail(ctx)
       ELSE rd' = "timer" /\ UNCHANGED <<lastErr, result>>
    /\ UNCHANGED <<ctx, done, goroutine, chunkCh, clock, leftover, began>>

\* The timer has fired: the channel is looked at once more.
Recheck ==
    /\ rd = "timer"
    /\ CASE Ready /\ ctx # None -> Discard /\ UNCHANGED timer
         [] Ready /\ ctx = None -> Handle
         [] OTHER -> /\ Fail(IF firstByteReceived THEN "idle" ELSE "first_byte")
                     /\ UNCHANGED <<chunkCh, clock, leftover>>
    /\ UNCHANGED <<ctx, done, goroutine, began>>

TimerFires ==
    /\ timer = "running"
    /\ timer' = "fired"
    /\ UNCHANGED <<ctx, done, goroutine, chunkCh, firstByteReceived, leftover,
                   lastErr, rd, result, began>>

ReaderSteps ==
    \/ Unblock \/ SendChunk \/ QuitSending
    \/ EnterRead \/ Drain \/ SelectCtx \/ SelectChunk \/ SelectTimer \/ Recheck

TypeOKBody ==
    /\ ctx \in {None, "canceled", "deadline"}
    /\ done \in BOOLEAN /\ firstByteReceived \in BOOLEAN
    /\ loop \in {"reading", "sending", "exited"}
    /\ taken \in 0 .. MaxFrames
    /\ Len(chunkCh) <= 1
    /\ timer \in {"running", "fired", "stopped"}
    /\ rd \in {"out", "entered", "drain", "select", "timer"}
=============================================================================
