------------------------------ MODULE Upgrade -------------------------------
(***************************************************************************)
(* The in-place update of the binary (internal/selfupdate, the console's   *)
(* endpoint, the update command): updaters of one installation, an         *)
(* external installer, restarts, and updaters that die at any point.       *)
(*                                                                         *)
(* exe is the installed binary, its id standing for size and modification  *)
(* time; bak is the version of the copy beside it; updateLock is the lock  *)
(* file.  A release is fetched or not: which route answered is left out.   *)
(***************************************************************************)
EXTENDS Naturals

CONSTANTS Posts,        \* update requests of the console
          Commands,     \* runs of the update command
          MaxRelease,   \* bound on releases
          MaxInstalls   \* bound on replacements of the binary

ASSUME UpgradeAssumption ==
    /\ Posts \cap Commands = {}
    /\ {"free", "orphan"} \cap (Posts \cup Commands) = {}
    /\ MaxRelease \in Nat \ {0} /\ MaxInstalls \in Nat

VARIABLES latest, exe, bak, updateLock, server, run,
          alone   \* history: nobody but the console touched the files since this server started

upgrade == <<latest, exe, bak, updateLock, server, run, alone>>

Free == "free"
Orphan == "orphan"   \* the lock file of an updater that died

AtRest == [pc |-> "idle", current |-> 0, saw |-> 0, target |-> 0, overtaken |-> FALSE]

UpgradeInit ==
    /\ latest = 1 /\ exe = [version |-> 1, id |-> 0] /\ bak = 0
    /\ updateLock = Free
    /\ server = [running |-> 1, gate |-> "idle"]
    /\ run = [u \in Posts \cup Commands |-> AtRest]
    /\ alone = TRUE

RunSteps == {"idle", "gated", "looking", "fetching", "asking", "locking", "locked",
             "same", "copied", "sure", "installed"}

Runs == [pc : RunSteps, current : 0..MaxRelease, saw : 0..MaxInstalls, target : 0..MaxRelease,
         overtaken : BOOLEAN]

UpgradeTypeOK ==
    /\ latest \in 1..MaxRelease /\ bak \in 0..MaxRelease
    /\ exe \in [version : 1..MaxRelease, id : 0..MaxInstalls]
    /\ updateLock \in {Free, Orphan} \cup Posts \cup Commands
    /\ server \in [running : 1..MaxRelease, gate : {"idle", "running", "applied"}]
    /\ run \in [Posts \cup Commands -> Runs]
    /\ alone \in BOOLEAN

-----------------------------------------------------------------------------
Goes(u, pc) == run' = [run EXCEPT ![u].pc = pc]

SameFile(u) == run[u].saw = exe.id

\* The gate of the console's endpoint; a command has none.
Gate(u, to) == server' = IF u \in Posts THEN [server EXCEPT !.gate = to] ELSE server

\* u returns: its lock file is removed and the gate left as told.
Returns(u, gate) ==
    /\ run' = [run EXCEPT ![u] = AtRest]
    /\ updateLock' = IF updateLock = u THEN Free ELSE updateLock
    /\ Gate(u, gate)

\* The endpoint lets one request through until it fails or the server restarts.
PostUpdate(u) ==
    /\ u \in Posts /\ run[u].pc = "idle" /\ server.gate = "idle"
    /\ Gate(u, "running") /\ Goes(u, "gated")
    /\ UNCHANGED <<latest, exe, bak, updateLock, alone>>

PreflightRefuses(u) ==
    /\ run[u].pc = "gated"
    /\ Returns(u, "idle")
    /\ UNCHANGED <<latest, exe, bak, alone>>

\* Before anything else Apply notes which file it is about to replace.  The console
\* compares releases with the version it runs, a command with the installed one.
BeginApply(u) ==
    /\ run[u].pc = IF u \in Posts THEN "gated" ELSE "idle"
    /\ run' = [run EXCEPT ![u] =
                 [pc |-> "looking", saw |-> exe.id, target |-> 0, overtaken |-> FALSE,
                  current |-> IF u \in Posts THEN server.running ELSE exe.version]]
    /\ UNCHANGED <<latest, exe, bak, updateLock, server, alone>>

Lookup(u) ==
    /\ run[u].pc = "looking" /\ latest > run[u].current
    /\ run' = [run EXCEPT ![u] = [@ EXCEPT !.pc = "fetching", !.target = latest]]
    /\ UNCHANGED <<latest, exe, bak, updateLock, server, alone>>

UpToDate(u) ==
    /\ run[u].pc = "looking" /\ latest <= run[u].current
    /\ Returns(u, "idle")
    /\ UNCHANGED <<latest, exe, bak, alone>>

\* Both assets arrived, and what they hold was verified.
Fetched(u) ==
    /\ run[u].pc = "fetching"
    /\ Goes(u, IF u \in Commands THEN "asking" ELSE "locking")
    /\ UNCHANGED <<latest, exe, bak, updateLock, server, alone>>

Confirm(u) ==
    /\ run[u].pc = "asking" /\ Goes(u, "locking")
    /\ UNCHANGED <<latest, exe, bak, updateLock, server, alone>>

\* No route answered, an asset did not verify, the operator declined, staging or
\* copying failed: nothing was replaced.
Fails(u) ==
    /\ run[u].pc \in {"looking", "fetching", "asking", "locked", "same", "copied"}
    /\ Returns(u, "idle")
    /\ UNCHANGED <<latest, exe, bak, alone>>

\* A file left at the path is opened, not refused.
LockAnyway(u) ==
    /\ run[u].pc = "locking"
    /\ updateLock' = u /\ Goes(u, "locked")
    /\ UNCHANGED <<latest, exe, bak, server, alone>>

\* The gate opens again after an update that stands.
AppliedReopens(u) ==
    /\ run[u].pc = "installed"
    /\ Returns(u, "idle")
    /\ UNCHANGED <<latest, exe, bak, alone>>

AcquireLock(u) ==
    /\ run[u].pc = "locking"
    /\ IF updateLock = Free
       THEN updateLock' = u /\ Goes(u, "locked") /\ UNCHANGED server
       ELSE Returns(u, "idle")
    /\ UNCHANGED <<latest, exe, bak, alone>>

\* The file is looked at again under the lock ...
Recheck(u) ==
    /\ run[u].pc = "locked"
    /\ IF SameFile(u)
       THEN Goes(u, "same") /\ UNCHANGED <<updateLock, server>>
       ELSE Returns(u, "idle")
    /\ UNCHANGED <<latest, exe, bak, alone>>

\* ... copied ...
BackUp(u) ==
    /\ run[u].pc = "same"
    /\ bak' = exe.version /\ Goes(u, "copied")
    /\ alone' = (alone /\ u \in Posts)
    /\ UNCHANGED <<latest, exe, updateLock, server>>

\* ... and looked at once more.
RecheckCopied(u) ==
    /\ run[u].pc = "copied"
    /\ IF SameFile(u)
       THEN Goes(u, "sure") /\ UNCHANGED <<updateLock, server>>
       ELSE Returns(u, "idle")
    /\ UNCHANGED <<latest, exe, bak, alone>>

\* The rename puts the downloaded release in its place.
Rename(u) ==
    /\ run[u].pc = "sure" /\ exe.id < MaxInstalls
    /\ exe' = [version |-> run[u].target, id |-> exe.id + 1]
    /\ alone' = (alone /\ u \in Posts)
    /\ Goes(u, "installed")
    /\ UNCHANGED <<latest, bak, updateLock, server>>

\* The rename itself failed.
RenameFails(u) ==
    /\ run[u].pc = "sure"
    /\ Returns(u, "idle")
    /\ UNCHANGED <<latest, exe, bak, alone>>

\* After a success the gate stays closed: the restart is the only step left.
Applied(u) ==
    /\ run[u].pc = "installed"
    /\ Returns(u, "applied")
    /\ UNCHANGED <<latest, exe, bak, alone>>

-----------------------------------------------------------------------------
Dies(lost) ==
    /\ run' = [u \in DOMAIN run |-> IF u \in lost THEN AtRest ELSE run[u]]
    /\ updateLock' = IF updateLock \in lost THEN Orphan ELSE updateLock

\* The server ends, asked to or not, and starts on the installed binary.
Restart ==
    /\ server' = [running |-> exe.version, gate |-> "idle"]
    /\ Dies(Posts)
    /\ alone' = TRUE
    /\ UNCHANGED <<latest, exe, bak>>

CommandDies(u) ==
    /\ u \in Commands /\ run[u].pc # "idle"
    /\ Dies({u})
    /\ UNCHANGED <<latest, exe, bak, server, alone>>

\* The refusal tells the operator to remove the file once no update is running.
OperatorClearsLock ==
    /\ updateLock = Orphan /\ updateLock' = Free
    /\ UNCHANGED <<latest, exe, bak, server, run, alone>>

NewRelease ==
    /\ latest < MaxRelease /\ latest' = latest + 1
    /\ UNCHANGED <<exe, bak, updateLock, server, run, alone>>

\* A package manager installs a release; it takes no lock.
Install ==
    /\ exe.id < MaxInstalls
    /\ \E v \in exe.version..latest : exe' = [version |-> v, id |-> exe.id + 1]
    /\ run' = [u \in DOMAIN run |->
                 [run[u] EXCEPT !.overtaken = @ \/ run[u].pc = "sure"]]
    /\ alone' = FALSE
    /\ UNCHANGED <<latest, bak, updateLock, server>>

Update(u) ==
    \/ PostUpdate(u) \/ PreflightRefuses(u) \/ BeginApply(u) \/ Lookup(u) \/ UpToDate(u)
    \/ Fetched(u) \/ Confirm(u) \/ Fails(u) \/ AcquireLock(u) \/ Recheck(u)
    \/ BackUp(u) \/ RecheckCopied(u) \/ Rename(u) \/ RenameFails(u) \/ Applied(u)
    \/ CommandDies(u)

UpgradeNext ==
    \/ \E u \in Posts \cup Commands : Update(u)
    \/ Restart \/ OperatorClearsLock \/ NewRelease \/ Install

UpgradeSpec == UpgradeInit /\ [][UpgradeNext]_upgrade

-----------------------------------------------------------------------------
\* Apply: an updater replaces only the file it set out from, whose copy is then beside
\* the new one, and never by an older release than was installed meanwhile.  What an
\* external installer does between the last look and the rename is out of its reach.
Replaces(u) ==
    run[u].pc = "sure" /\ run'[u].pc = "installed" /\ ~run[u].overtaken =>
        /\ exe.id = run[u].saw
        /\ bak = exe.version
        /\ exe'.version >= exe.version

\* PostSystemUpdate: until the restart that an update of the console asks for, the copy
\* beside the binary is the version still running, unless somebody else updated too.
RollbackStands == alone /\ exe.version > server.running => bak = server.running

UpdatesAreReversible ==
    [][\A u \in Posts \cup Commands : Replaces(u)]_upgrade /\ []RollbackStands
=============================================================================
