------------------------------ MODULE Accounts ------------------------------
(***************************************************************************)
(* The accounts of the console, their sessions and the requests that edit  *)
(* both (internal/service/auth, internal/service/user, middleware/auth.go  *)
(* and their repositories).  Setup, sign-in, password changes and the      *)
(* edits of administrators overlap: each reads rows, works on what it read *)
(* (a hash takes a while), and writes in one transaction.                  *)
(*                                                                         *)
(* Transactions are those of READ COMMITTED.  One that writes an account   *)
(* locks its row first and holds it, so two that write the same account    *)
(* follow each other and what each writes is one step; what it read before *)
(* may be stale.  A password is known by the edit that set it, and a       *)
(* session by its owner: tokens, names and directory fields are left out.  *)
(* Sessions expire and locks end when they like, except that no sign-in    *)
(* takes as long as a lock lasts (fifteen minutes).                        *)
(***************************************************************************)
EXTENDS Naturals, FiniteSets

CONSTANTS
    Users,              \* user names
    Calls,              \* requests in flight at once
    LoginLockThreshold, \* wrong passwords that lock an account
    MaxEdits            \* bound: edits of one account that sign it out

ASSUME AccountsAssumption == IsFiniteSet(Users) /\ LoginLockThreshold \in Nat \ {0}

VARIABLES
    users,      \* the rows, by name
    sessions,   \* rows of user_sessions: the owner, and the edit that was its last
    calls,      \* the requests
    edits,      \* history: edits of an account that sign it out
    wrong       \* history: wrong passwords since a lock began or the last sign-in

accounts == <<users, sessions, calls, edits, wrong>>

NoRow == [exists |-> FALSE, boot |-> FALSE, role |-> "member", enabled |-> FALSE,
          failed |-> 0, lock |-> "none"]
NewRow(boot, role) == [exists |-> TRUE, boot |-> boot, role |-> role, enabled |-> TRUE,
                       failed |-> 0, lock |-> "none"]
NoCall == [op |-> "idle"]

AccountsInit ==
    /\ users = [u \in Users |-> NoRow]
    /\ sessions = {}
    /\ calls = [c \in Calls |-> NoCall]
    /\ edits = [u \in Users |-> 0]
    /\ wrong = [u \in Users |-> 0]

Idle(c) == calls[c] = NoCall
Begin(c, call) == Idle(c) /\ calls' = [calls EXCEPT ![c] = call]
End(c) == calls' = [calls EXCEPT ![c] = NoCall]
On(c, op) == calls[c].op = op
Becomes(c, op) == calls' = [calls EXCEPT ![c].op = op]
GiveUp(c) == End(c) /\ UNCHANGED <<users, sessions, edits, wrong>>

CountBootstrapUsers == Cardinality({u \in Users : users[u].boot})
CountEnabledAdminsExcluding(u) ==
    Cardinality({v \in Users \ {u} : users[v].role = "admin" /\ users[v].enabled})

\* Names are unique, and so is the bootstrap flag among the rows that have it.
Unique(u, boot) == ~users[u].exists /\ (boot => CountBootstrapUsers = 0)

(* Sessions.                                                               *)

DeleteAllSessionsForUser(u) == {s \in sessions : s.user # u}

NewSession(u) == [user |-> u, minted |-> edits[u]]

\* Mutant: the insert does not ask.
MayCreateSessionUnasked(u) == users[u].exists

\* The insert asks in the same statement whether its owner is enabled.
MayCreateSession(u) == users[u].exists /\ users[u].enabled

\* A cookie is given up, or its day is over and a sign-in sweeps its row away.
Logout ==
    /\ \E s \in sessions : sessions' = sessions \ {s}
    /\ UNCHANGED <<users, calls, edits, wrong>>

(* First-run setup.                                                        *)

PostSetup(c, u) ==
    /\ CountBootstrapUsers = 0
    /\ Begin(c, [op |-> "setup", user |-> u])
    /\ UNCHANGED <<users, sessions, edits, wrong>>

Setup(c) ==
    LET u == calls[c].user IN
    /\ On(c, "setup")
    /\ Unique(u, TRUE)
    /\ users' = [users EXCEPT ![u] = NewRow(TRUE, "admin")]
    /\ sessions' = sessions \cup {NewSession(u)}
    /\ End(c)
    /\ UNCHANGED <<edits, wrong>>

SetupLoses(c) == On(c, "setup") /\ ~Unique(calls[c].user, TRUE) /\ GiveUp(c)

(* Signing in.                                                             *)

\* The row is read, and a lock in force answers at once.
PostLogin(c, u, right) ==
    /\ users[u].exists /\ users[u].lock # "on"
    /\ Begin(c, [op |-> "login", user |-> u, right |-> right,
                 enabled |-> users[u].enabled])
    /\ UNCHANGED <<users, sessions, edits, wrong>>

\* Mutant: a failure after a lock has ended goes on counting.
FailedCountingOn(row) ==
    [row EXCEPT !.failed = @ + 1,
                !.lock = IF row.failed + 1 >= LoginLockThreshold THEN "on" ELSE "none"]

\* RecordLoginFailure, on the row as it is.
Failed(row) ==
    IF row.lock = "ended"
    THEN [row EXCEPT !.failed = 1, !.lock = "none"]
    ELSE [row EXCEPT !.failed = @ + 1,
                     !.lock = IF row.failed + 1 >= LoginLockThreshold THEN "on" ELSE "none"]

LoginFails(c) ==
    LET u == calls[c].user IN
    /\ On(c, "login") /\ ~calls[c].right
    /\ users' = [users EXCEPT ![u] = Failed(@)]
    /\ wrong' = [wrong EXCEPT ![u] = IF users'[u].lock = "on" THEN 0 ELSE @ + 1]
    /\ End(c)
    /\ UNCHANGED <<sessions, edits>>

\* The lock is cleared and the session issued in one transaction.
LoginSucceeds(c) ==
    LET u == calls[c].user IN
    /\ On(c, "login") /\ calls[c].right /\ calls[c].enabled
    /\ MayCreateSession(u)
    /\ users' = [users EXCEPT ![u] = [@ EXCEPT !.failed = 0, !.lock = "none"]]
    /\ sessions' = sessions \cup {NewSession(u)}
    /\ wrong' = [wrong EXCEPT ![u] = 0]
    /\ End(c)
    /\ UNCHANGED edits

LoginRefused(c) ==
    /\ On(c, "login") /\ calls[c].right
    /\ ~calls[c].enabled \/ ~MayCreateSession(calls[c].user)
    /\ GiveUp(c)

LockEnds(u) ==
    /\ users[u].lock = "on"
    /\ \A c \in Calls : On(c, "login") => calls[c].user # u
    /\ users' = [users EXCEPT ![u].lock = "ended"]
    /\ UNCHANGED <<sessions, calls, edits, wrong>>

(* Requests with a session: its owner, with the status and role it has now.*)

FindUserByValidSession(u) == \E s \in sessions : s.user = u
RequireSession(u) == FindUserByValidSession(u) /\ users[u].enabled
RequireAdmin(u) == users[u].role = "admin"

PutPassword(c, u) ==
    /\ RequireSession(u)
    /\ Begin(c, [op |-> "change", user |-> u])
    /\ UNCHANGED <<users, sessions, edits, wrong>>

\* Nobody edits an account of their own this way.
Administer(c, actor, op, u) ==
    /\ RequireSession(actor) /\ RequireAdmin(actor)
    /\ actor # u
    /\ Begin(c, [op |-> op, actor |-> actor, user |-> u, to |-> op])
    /\ UNCHANGED <<users, sessions, edits, wrong>>

PostUser(c, actor, u) == Administer(c, actor, "create", u)
PostUserPasswordReset(c, actor, u) == Administer(c, actor, "reset", u)
PatchUserStatus(c, actor, u) == \E op \in {"enable", "disable"} : Administer(c, actor, op, u)
PatchUserRole(c, actor, u) == \E op \in {"promote", "demote"} : Administer(c, actor, op, u)

\* Mutant: an edit leaves the sessions of its account.
EditQuietly(c, u, row) ==
    /\ edits[u] < MaxEdits
    /\ users' = [users EXCEPT ![u] = row]
    /\ edits' = [edits EXCEPT ![u] = @ + 1]
    /\ End(c)
    /\ UNCHANGED <<sessions, wrong>>

\* An edit that signs its account out.
Edit(c, u, row) ==
    /\ edits[u] < MaxEdits
    /\ users' = [users EXCEPT ![u] = row]
    /\ sessions' = DeleteAllSessionsForUser(u)
    /\ edits' = [edits EXCEPT ![u] = @ + 1]
    /\ End(c)
    /\ UNCHANGED wrong

\* The current password was right when it was read; the new one is hashed, stored.
ChangePassword(c) == On(c, "change") /\ Edit(c, calls[c].user, users[calls[c].user])

PasswordRefused(c) == On(c, "change") /\ GiveUp(c)

\* What it asks of either account never changes while it runs.
ResetUserPassword(c) ==
    LET u == calls[c].user IN
    /\ On(c, "reset")
    /\ IF users[calls[c].actor].boot /\ users[u].exists
       THEN Edit(c, u, users[u])
       ELSE GiveUp(c)

CreateUser(c) ==
    LET u == calls[c].user IN
    /\ On(c, "create")
    /\ IF Unique(u, FALSE)
       THEN /\ users' = [users EXCEPT ![u] = NewRow(FALSE, "member")]
            /\ End(c)
            /\ UNCHANGED <<sessions, edits, wrong>>
       ELSE GiveUp(c)

(* SetUserStatus and SetUserRole: the target is read, administrators are   *)
(* counted, then both are written on.                                      *)

Changed(to, row) ==
    CASE to = "enable"  -> [row EXCEPT !.enabled = TRUE]
      [] to = "disable" -> [row EXCEPT !.enabled = FALSE]
      [] to = "promote" -> [row EXCEPT !.role = "admin"]
      [] to = "demote"  -> [row EXCEPT !.role = "member"]

\* Mutant: the bootstrap account is like any other.
ProtectedByCount(to, row) == FALSE

Protected(to, row) == to \in {"disable", "demote"} /\ row.boot

\* An administrator is about to be lost.
Endangers(to, row) ==
    /\ to = "disable" \/ (to = "demote" /\ row.enabled)
    /\ row.role = "admin"

ReadTarget(c) ==
    LET row == users[calls[c].user]
        to == calls[c].to IN
    /\ calls[c].op \in {"enable", "disable", "promote", "demote"}
    /\ IF ~row.exists \/ Changed(to, row) = row \/ Protected(to, row)
       THEN GiveUp(c)
       ELSE /\ Becomes(c, IF Endangers(to, row) THEN "count" ELSE "write")
            /\ UNCHANGED <<users, sessions, edits, wrong>>

CountAdmins(c) ==
    /\ On(c, "count")
    /\ IF CountEnabledAdminsExcluding(calls[c].user) = 0
       THEN GiveUp(c)
       ELSE Becomes(c, "write") /\ UNCHANGED <<users, sessions, edits, wrong>>

WriteTarget(c) ==
    LET u == calls[c].user IN
    /\ On(c, "write")
    /\ Edit(c, u, Changed(calls[c].to, users[u]))

Arrives(c) ==
    \E u \in Users :
        \/ PostSetup(c, u)
        \/ \E right \in BOOLEAN : PostLogin(c, u, right)
        \/ PutPassword(c, u)
        \/ \E actor \in Users :
            \/ PostUser(c, actor, u) \/ PostUserPasswordReset(c, actor, u)
            \/ PatchUserStatus(c, actor, u) \/ PatchUserRole(c, actor, u)

Works(c) ==
    \/ Setup(c) \/ SetupLoses(c)
    \/ LoginFails(c) \/ LoginSucceeds(c) \/ LoginRefused(c)
    \/ ChangePassword(c) \/ PasswordRefused(c)
    \/ ResetUserPassword(c) \/ CreateUser(c)
    \/ ReadTarget(c) \/ CountAdmins(c) \/ WriteTarget(c)

AccountsNext ==
    \/ Logout
    \/ \E u \in Users : LockEnds(u)
    \/ \E c \in Calls : Arrives(c) \/ Works(c)

AccountsSpec == AccountsInit /\ [][AccountsNext]_accounts

(* Properties.                                                             *)

\* Nobody is signed in to a disabled account, and no session outlives an edit of its
\* owner's password, role or status, however the sign-in and the edit overlap
\* (CreateSession's guard, and the deletion in each edit's transaction).
SessionsAreOwed ==
    \A s \in sessions : users[s.user].enabled /\ s.minted = edits[s.user]

\* Once set up, there is one bootstrap account and an administrator who can sign in,
\* whatever administrators do to each other at once (user_service.go: the bootstrap
\* rule and the last-admin count).
AnAdminRemains ==
    /\ CountBootstrapUsers <= 1
    /\ (\E u \in Users : users[u].exists) =>
        \E u \in Users : users[u].role = "admin" /\ users[u].enabled

\* Both, which concern the same rows.
AccountsAreSound == SessionsAreOwed /\ AnAdminRemains

\* A lock that begins has been earned, since the last one and the last sign-in, by as
\* many wrong passwords as the threshold says: the first failure after a lock does not
\* renew it (user_repository.go, RecordLoginFailure).
LocksAreEarned ==
    [][\A u \in Users :
        users[u].lock # "on" /\ users'[u].lock = "on"
            => wrong[u] + 1 >= LoginLockThreshold]_accounts
=============================================================================
