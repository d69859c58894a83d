----------------------------- MODULE RateLimit -----------------------------
(***************************************************************************)
(* The limits of one API key (internal/capability/ratelimit/limiter.go):   *)
(* a count of requests in flight and two fixed-minute windows, shared by   *)
(* the requests made with the key.                                         *)
(*                                                                         *)
(* An admission is three critical sections of the key's mutex and a        *)
(* release is two; other requests run in between.  Each section that needs *)
(* the time reads the clock before it waits for the mutex.  A request      *)
(* reads its limits when it arrives; an administrator may edit them while  *)
(* it runs.  The clock counts minutes (minuteOf).                          *)
(***************************************************************************)
EXTENDS Integers, FiniteSets

CONSTANTS Admissions,   \* the requests made with the key
          Limits,     \* the limits the key may have, 0 for none
          Usages,     \* the usage a request may settle on
          MaxInt,     \* math.MaxInt
          MaxMinute     \* bound: the clock stops here

ASSUME LimitsAssumption == Limits \subseteq [conc : Nat, tpm : Nat, rpm : Nat]
ASSUME MaxIntAssumption == MaxInt \in Nat \ {0}
\* Usage comes from third-party JSON: any int.
ASSUME UsagesAssumption ==
    \A u \in Usages : /\ u.prompt \in Int /\ u.completion \in Int
                      /\ u.cacheRead \in Int /\ u.cacheWrite \in Int
                      /\ u.total \in Int /\ u.total <= MaxInt
ASSUME RequestsAssumption == IsFiniteSet(Admissions)
ASSUME TimeAssumption == MaxMinute \in Nat

VARIABLES
    clock,      \* the minute it is
    conc,     \* keySlot.conc
    rpm,      \* keySlot.rpm
    tpm,      \* keySlot.tpm
    pc,       \* where each request is in Admit and Release
    view,     \* the limits it read when it arrived
    held,     \* Ticket.heldSlot
    at,       \* the time it read last
    debt,     \* what its release debits, and what it really used
    spent,    \* history: the request tokens spent in each minute's window
    debited   \* history: what was used in each minute's window, with no bound on it

shared == <<clock, conc, rpm, tpm>>
local == <<view, held, at, debt>>
history == <<spent, debited>>
limiter == <<shared, pc, local, history>>

Minutes == 0..MaxMinute

NoLimit == [conc |-> 0, tpm |-> 0, rpm |-> 0]

LimitInit ==
    /\ clock = 0
    /\ conc = 0
    /\ rpm = [minute |-> 0, count |-> 0]
    /\ tpm = [minute |-> 0, tokens |-> 0]
    /\ pc = [r \in Admissions |-> "new"]
    /\ view = [r \in Admissions |-> NoLimit]
    /\ held = [r \in Admissions |-> FALSE]
    /\ at = [r \in Admissions |-> 0]
    /\ debt = [r \in Admissions |-> [cost |-> 0, used |-> 0]]
    /\ spent = [m \in Minutes |-> 0]
    /\ debited = [m \in Minutes |-> 0]
-----------------------------------------------------------------------------
(* The windows.                                                            *)

\* Bug: the sum wraps.
satAddWraps(a, b) == IF b <= 0 THEN a ELSE (a + b) % (MaxInt + 1)

satAdd(a, b) == IF b <= 0 THEN a ELSE IF b > MaxInt - a THEN MaxInt ELSE a + b

\* Bug: any other minute rolls the window, an older one too.
RpmRollsBack(w, m) == IF m # w.minute THEN [minute |-> m, count |-> 0] ELSE w

\* The first half of minuteWindow.allow: forward only.
RpmRolled(w, m) == IF m > w.minute THEN [minute |-> m, count |-> 0] ELSE w

\* tokenWindow.roll
TpmRolled(w, m) == IF m > w.minute THEN [minute |-> m, tokens |-> 0] ELSE w

debitBasis(u) ==
    LET gross == satAdd(satAdd(satAdd(satAdd(0, u.prompt), u.completion),
                               u.cacheRead), u.cacheWrite)
    IN IF gross > u.total THEN gross ELSE u.total

\* What the request really used, with no bound on it.
Cost(u) ==
    LET part(n) == IF n > 0 THEN n ELSE 0
        gross == part(u.prompt) + part(u.completion) + part(u.cacheRead) + part(u.cacheWrite)
    IN IF gross > u.total THEN gross ELSE u.total
-----------------------------------------------------------------------------
(* Admit.                                                                  *)

Goto(r, point) == pc' = [pc EXCEPT ![r] = point]

Arrive(r, limits) ==
    /\ pc[r] = "new"
    /\ view' = [view EXCEPT ![r] = limits]
    /\ Goto(r, "acquire")
    /\ UNCHANGED <<shared, held, at, debt, history>>

\* AcquireConcurrency, when there is a limit on it.
Acquire(r) ==
    /\ pc[r] = "acquire"
    /\ IF view[r].conc > 0 /\ conc < view[r].conc
       THEN conc' = conc + 1 /\ held' = [held EXCEPT ![r] = TRUE]
       ELSE UNCHANGED <<conc, held>>
    /\ Goto(r, IF view[r].conc > 0 /\ conc >= view[r].conc THEN "refused" ELSE "tpmClock")
    /\ UNCHANGED <<clock, rpm, tpm, view, at, debt, history>>

\* time.Now() is evaluated before the lock is waited for.
ReadClock(r, point, next) ==
    /\ pc[r] = point
    /\ at' = [at EXCEPT ![r] = clock]
    /\ Goto(r, next)
    /\ UNCHANGED <<shared, view, held, debt, history>>

\* Bug: a refused request keeps its slot.
RefuseAndKeep(r) == Goto(r, "refused")

\* A request refused after it took a slot gives the slot back, in a section of its own.
Refuse(r) == Goto(r, IF held[r] THEN "giveBack" ELSE "refused")

\* CheckTPM
CheckTPM(r) ==
    /\ pc[r] = "tpm"
    /\ IF view[r].tpm = 0
       THEN Goto(r, "rpmClock") /\ UNCHANGED tpm
       ELSE /\ tpm' = TpmRolled(tpm, at[r])
            /\ IF tpm'.tokens < view[r].tpm THEN Goto(r, "rpmClock") ELSE Refuse(r)
    /\ UNCHANGED <<clock, conc, rpm, local, history>>

SpendRPM(r, w) ==
    /\ w.count < view[r].rpm
    /\ rpm' = [minute |-> w.minute, count |-> w.count + 1]
    /\ spent' = [spent EXCEPT ![w.minute] = @ + 1]
    /\ Goto(r, "served")

RefuseRPM(r, w) ==
    /\ w.count >= view[r].rpm
    /\ rpm' = w
    /\ Refuse(r)
    /\ UNCHANGED spent

\* CheckRPM
CheckRPM(r) ==
    /\ pc[r] = "rpm"
    /\ IF view[r].rpm = 0
       THEN Goto(r, "served") /\ UNCHANGED <<rpm, spent>>
       ELSE SpendRPM(r, RpmRolled(rpm, at[r])) \/ RefuseRPM(r, RpmRolled(rpm, at[r]))
    /\ UNCHANGED <<clock, conc, tpm, local, debited>>

\* ReleaseConcurrency
SlotReleased(c) == IF c > 0 THEN c - 1 ELSE c

GiveBack(r) ==
    /\ pc[r] = "giveBack"
    /\ conc' = SlotReleased(conc)
    /\ held' = [held EXCEPT ![r] = FALSE]
    /\ Goto(r, "refused")
    /\ UNCHANGED <<clock, rpm, tpm, view, at, debt, history>>
-----------------------------------------------------------------------------
(* Release.                                                                *)

\* The exchange settled on usage u: the slot first, then the debit, if there is a
\* limit and something to debit.
Release(r, u) ==
    /\ pc[r] = "served"
    /\ conc' = IF held[r] THEN SlotReleased(conc) ELSE conc
    /\ debt' = [debt EXCEPT ![r] = [cost |-> debitBasis(u), used |-> Cost(u)]]
    /\ Goto(r, IF view[r].tpm > 0 /\ debitBasis(u) > 0 THEN "debitClock" ELSE "done")
    /\ UNCHANGED <<clock, rpm, tpm, view, held, at, history>>

\* AddTokens
AddTokens(r) ==
    /\ pc[r] = "debit"
    /\ LET w == TpmRolled(tpm, at[r]) IN
       /\ tpm' = [minute |-> w.minute, tokens |-> satAdd(w.tokens, debt[r].cost)]
       /\ debited' = [debited EXCEPT ![w.minute] = @ + debt[r].used]
    /\ Goto(r, "done")
    /\ UNCHANGED <<clock, conc, rpm, local, spent>>

MinutePasses ==
    /\ clock < MaxMinute
    /\ clock' = clock + 1
    /\ UNCHANGED <<conc, rpm, tpm, pc, local, history>>

LimitStep(r) ==
    \/ \E limits \in Limits : Arrive(r, limits)
    \/ Acquire(r)
    \/ ReadClock(r, "tpmClock", "tpm")
    \/ CheckTPM(r)
    \/ ReadClock(r, "rpmClock", "rpm")
    \/ CheckRPM(r)
    \/ GiveBack(r)
    \/ \E u \in Usages : Release(r, u)
    \/ ReadClock(r, "debitClock", "debit")
    \/ AddTokens(r)

LimitNext == (\E r \in Admissions : LimitStep(r)) \/ MinutePasses

LimitSpec == LimitInit /\ [][LimitNext]_limiter
-----------------------------------------------------------------------------
(* Properties.                                                             *)

Points == {"new", "acquire", "tpmClock", "tpm", "rpmClock", "rpm", "giveBack", "served",
           "debitClock", "debit", "done", "refused"}

LimitTypeOK ==
    /\ clock \in Minutes
    /\ conc \in Nat
    /\ rpm \in [minute : Minutes, count : Nat]
    /\ tpm \in [minute : Minutes, tokens : 0..MaxInt]
    /\ pc \in [Admissions -> Points]
    /\ view \in [Admissions -> [conc : Nat, tpm : Nat, rpm : Nat]]
    /\ held \in [Admissions -> BOOLEAN]
    /\ at \in [Admissions -> Minutes]
    /\ debt \in [Admissions -> [cost : Int, used : Int]]
    /\ spent \in [Minutes -> Nat]
    /\ debited \in [Minutes -> Nat]

\* The requests a concurrency limit applies to and that are between their admission
\* and their end.
InFlight == {r \in Admissions :
                /\ view[r].conc > 0
                /\ pc[r] \in {"tpmClock", "tpm", "rpmClock", "rpm", "giveBack", "served"}}

\* The count of the concurrency limit is the number of limited requests in flight:
\* a request refused by the second or third gate leaves nothing behind (Admit,
\* limiter.go:248-281), one without a limit takes nothing away, and the floor of
\* ReleaseConcurrency is never needed.
SlotsAreInFlight == conc = Cardinality(InFlight)

\* The count of the request window is what was spent in its minute, all of it and
\* nothing else: a request that stood in line across the minute's end does not reopen
\* the minute (minuteWindow.allow), so no minute spends more than the limit.
WindowCountsItsMinute ==
    /\ rpm.count = spent[rpm.minute]
    /\ \A m \in Minutes : m > rpm.minute => spent[m] = 0

\* The tally of the token window is what its minute's requests used, up to the
\* largest int: absurd counts close the window and never wrap it open (satAdd), and a
\* minute that is over is not reopened (tokenWindow.roll).
TallyIsWhatWasUsed ==
    /\ tpm.tokens = IF debited[tpm.minute] < MaxInt THEN debited[tpm.minute] ELSE MaxInt
    /\ \A m \in Minutes : m > tpm.minute => debited[m] = 0

\* The key's three limits count exactly what they are the limits of.
WindowsAreExact == SlotsAreInFlight /\ WindowCountsItsMinute /\ TallyIsWhatWasUsed
=============================================================================
