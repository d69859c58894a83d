------------------------------ MODULE Windows -------------------------------
(***************************************************************************)
(* The windows in front of the console's costly or anonymous endpoints     *)
(* (middleware/ratewindow.go, middleware/semaphore.go, as PostOAuthState   *)
(* uses them): one for everybody, one for each client, and the slots of a  *)
(* semaphore.  A request reads the clock first and passes the three one    *)
(* after the other, each under a lock of its own, so what they are told is *)
(* the time may run backwards.                                             *)
(***************************************************************************)
EXTENDS Naturals, FiniteSets

CONSTANTS
    Clients,            \* client addresses
    Askers,             \* requests in flight
    WindowLimit,        \* admissions of a window
    ClientLimit,        \* admissions of a client's window
    WindowSpan,         \* its length
    MaxWait,            \* how late a request may come to the first lock
    perClientMapCap,    \* entries of the map of clients
    SemaphoreSlots,     \* capacity of the semaphore
    WindowClock         \* bound: the clock stops here

ASSUME WindowsAssumption ==
    /\ WindowLimit \in Nat /\ ClientLimit \in Nat
    /\ WindowSpan \in Nat \ {0} /\ MaxWait \in 0..(WindowSpan - 1)
    /\ perClientMapCap \in Nat \ {0} /\ SemaphoreSlots \in Nat
    /\ WindowClock \in Nat
    /\ IsFiniteSet(Clients) /\ IsFiniteSet(Askers)

VARIABLES
    time,
    window,     \* windowStart and count
    clients,    \* the map: an entry for each client it holds
    free,       \* slots free
    asks,       \* the requests
    let         \* history: whom the common window has let through: the window, the
                \* number in it, the time read

windows == <<time, window, clients, free, asks, let>>

NoAsk == [step |-> "none"]

WindowsInit ==
    /\ time = WindowSpan
    /\ window = [start |-> 0, count |-> 0]
    /\ clients = << >>
    /\ free = SemaphoreSlots
    /\ asks = [a \in Askers |-> NoAsk]
    /\ let = {}

At(a, step) == asks[a].step = step
Moves(a, step) == asks' = [asks EXCEPT ![a].step = step]
Refused(a) == asks' = [asks EXCEPT ![a] = NoAsk]

\* Mutant: a window is over as soon as time has passed.
OverAtOnce(start, now) == now > start

\* now.Sub(start) >= window; a time before the start is none.
Over(start, now) == now >= start + WindowSpan

\* No request waits for the first lock longer than MaxWait, less than a window.
TimePasses ==
    /\ time < WindowClock
    /\ \A a \in Askers : At(a, "window") => time < asks[a].now + MaxWait
    /\ time' = time + 1
    /\ UNCHANGED <<window, clients, free, asks, let>>

Ask(a, c) ==
    /\ asks[a] = NoAsk
    /\ asks' = [asks EXCEPT ![a] = [step |-> "window", client |-> c, now |-> time]]
    /\ UNCHANGED <<time, window, clients, free, let>>

Rolled(now) ==
    IF Over(window.start, now) THEN [start |-> now, count |-> 0] ELSE window

\* RateWindow.Allow.
Allow(a) ==
    LET now == asks[a].now
        w == Rolled(now) IN
    /\ At(a, "window")
    /\ IF w.count < WindowLimit
       THEN /\ window' = [start |-> w.start, count |-> w.count + 1]
            /\ let' = let \cup {[win |-> w.start, nr |-> w.count + 1, at |-> now]}
            /\ Moves(a, "client")
       ELSE /\ window' = w
            /\ Refused(a)
            /\ UNCHANGED let
    /\ UNCHANGED <<time, clients, free>>

Swept(now) == {c \in DOMAIN clients : ~Over(clients[c].start, now)}
Kept(S) == [c \in S |-> clients[c]]

\* PerClientRateWindow.Allow: a full map is swept for a newcomer, and turns it away
\* when nothing was over.
AllowClient(a) ==
    LET c == asks[a].client
        now == asks[a].now
        full == c \notin DOMAIN clients /\ Cardinality(DOMAIN clients) >= perClientMapCap
        map == IF full THEN Kept(Swept(now)) ELSE clients
        fresh == c \notin DOMAIN map \/ Over(map[c].start, now)
        turned == full /\ Cardinality(DOMAIN map) >= perClientMapCap
        spent == ~fresh /\ map[c].count >= ClientLimit IN
    /\ At(a, "client")
    /\ IF turned \/ spent
       THEN clients' = map /\ Refused(a)
       ELSE /\ clients' = [d \in DOMAIN map \cup {c} |->
                            IF d # c THEN map[d]
                            ELSE IF fresh THEN [start |-> now, count |-> 1]
                            ELSE [map[c] EXCEPT !.count = @ + 1]]
            /\ Moves(a, "slot")
    /\ UNCHANGED <<time, window, free, let>>

TryAcquire(a) ==
    /\ At(a, "slot")
    /\ IF free > 0 THEN free' = free - 1 /\ Moves(a, "work") ELSE UNCHANGED free /\ Refused(a)
    /\ UNCHANGED <<time, window, clients, let>>

FreeSlot(a) ==
    /\ At(a, "work")
    /\ free' = free + 1
    /\ Refused(a)
    /\ UNCHANGED <<time, window, clients, let>>

WindowsNext ==
    \/ TimePasses
    \/ \E a \in Askers :
        \/ \E c \in Clients : Ask(a, c)
        \/ Allow(a) \/ AllowClient(a) \/ TryAcquire(a) \/ FreeSlot(a)

WindowsSpec == WindowsInit /\ [][WindowsNext]_windows

(* Properties.                                                             *)

Through(first, last) == {x \in let : first <= x.at /\ x.at <= last}

\* However late the requests come to its lock, the common window lets through three
\* times its limit at most over any span as long as a window, and twice over a span
\* shorter by as much as a request may be late; the map stays within its cap; and every
\* slot is free or held by a request at work (the comments of RateWindow and
\* PerClientRateWindow.Allow; PostOAuthState's defer).
BurstsAreBounded ==
    /\ \A x \in let :
        /\ Cardinality(Through(x.at, x.at + WindowSpan - MaxWait)) <= 2 * WindowLimit
        /\ Cardinality(Through(x.at, x.at + WindowSpan - 1)) <= 3 * WindowLimit
    /\ Cardinality(DOMAIN clients) <= perClientMapCap
    /\ free + Cardinality({a \in Askers : At(a, "work")}) = SemaphoreSlots
=============================================================================
