------------------------------- MODULE MappingRow ------------------------------
(***************************************************************************)
(* A model candidate (internal/model, model_candidates): the mapping of a  *)
(* model to a name at one provider, and the statements that write its      *)
(* verification and its enablement (internal/repository/                   *)
(* model_repository.go).  Each is one UPDATE, so each is a function of the *)
(* row; those with a guard have it beside them.                            *)
(*                                                                         *)
(* A stamp is a number no two operations share, and 0 is NULL: the code    *)
(* only asks whether two of them are equal.  A token is the run that wrote *)
(* it, and whether the run was a requeue (the "rq-" prefix).  Prices,      *)
(* capability flags and the text of a failure are left out.                *)
(***************************************************************************)
EXTENDS Naturals

CONSTANT Names      \* names the mapping may point at

ASSUME NamesAssumption == Names # {}

Verdicts == {"untested", "passed", "failed"}
Outcomes == {"passed", "failed", "inconclusive"}
Modes == {"plain", "explicit", "armed"}
Tokens == [run : Nat, rq : BOOLEAN]
Rows == [exists : BOOLEAN, name : Names, enabled : BOOLEAN, verified : Verdicts,
         tested : Nat, owed : BOOLEAN, armed : BOOLEAN, armedAt : Nat,
         updatedAt : Nat, token : Tokens]

Run(n) == [run |-> n, rq |-> FALSE]
RequeueRun(n) == [run |-> n, rq |-> TRUE]

Unstamped(r) == r.verified = "untested" /\ r.tested = 0
NoDebt(r) == Unstamped(r) /\ ~r.owed
Aligned(r) == r.armedAt # 0 /\ r.updatedAt = r.armedAt

\* ListUnprobedCandidateIDs: what the queue still owes the row something for.
Owed(r) == /\ r.exists
           /\ \/ r.owed /\ Unstamped(r)
              \/ r.armed /\ r.verified = "passed" /\ ~r.enabled

\* SetModelCandidateManagementStatusAdvancingProbeToken.
SwitchedOff(r, n) ==
    [r EXCEPT !.enabled = FALSE, !.token = Run(n), !.armed = FALSE, !.owed = FALSE,
              !.updatedAt = n]

\* SetModelCandidateManagementStatusIfVerified.
SwitchedOn(r, n) == [r EXCEPT !.enabled = TRUE, !.updatedAt = n]

\* UpdateModelCandidate: "retargeted" is what the caller found, not what the row says.
Renamed(r, name, retargeted, n) ==
    LET kept == [r EXCEPT !.name = name, !.updatedAt = n] IN
    IF retargeted
    THEN [kept EXCEPT !.verified = "untested", !.tested = 0, !.armed = FALSE, !.owed = FALSE]
    ELSE [kept EXCEPT !.armedAt = IF r.armed THEN n ELSE @]

\* bulkPriceUpdates, as an edit that keeps the name.
Repriced(r, n) == Renamed(r, r.name, FALSE, n)

\* DemoteUnverifiedEnabledCandidate.
MayDemote(r, name, expectedUpdatedAt) ==
    /\ r.exists /\ r.name = name /\ r.updatedAt = expectedUpdatedAt
    /\ r.enabled /\ r.verified # "passed"
Demoted(r, n) == [r EXCEPT !.enabled = FALSE, !.updatedAt = n]

\* FulfillArmedEnableIfVerified.
MayFulfill(r) == r.exists /\ r.verified = "passed" /\ r.armed
Fulfilled(r, n) ==
    [r EXCEPT !.enabled = @ \/ Aligned(r), !.armed = FALSE, !.updatedAt = n]

\* ClearCandidatesProbeResidue: "priced" says whether the declared prices support
\* the promise to enable.
MayRequeue(r) == r.exists /\ r.verified = "untested"
Requeued(r, priced, n) ==
    [r EXCEPT !.tested = 0, !.owed = TRUE, !.armed = priced, !.token = RequeueRun(n),
              !.armedAt = IF priced THEN n ELSE @, !.updatedAt = n]
-----------------------------------------------------------------------------
(* CommitModelCandidateProbeResults.  A claim c is what a run wants to     *)
(* write: its outcome, the name it probed, the token it expects, the token *)
(* it leaves, its mode and what it expects of the row to enable it.        *)

\* Bug: a retarget keeps the token, and the name is not asked.
UnmovedToken(r, c) == r.exists /\ r.token = c.expected
Unmoved(r, c) == r.exists /\ r.name = c.name /\ r.token = c.expected

Enables(r, c) ==
    /\ c.outcome = "passed"
    /\ \/ /\ c.mode = "explicit"
          /\ r.enabled = c.enabled
          /\ r.updatedAt = c.updatedAt
       \/ c.mode = "armed" /\ r.armed /\ Aligned(r)

\* Is the promise still open after the commit?
StillArmed(r, c) ==
    /\ r.armed
    /\ IF c.mode = "armed" THEN c.outcome # "passed" /\ Aligned(r)
       ELSE c.outcome = "passed" => ~(r.enabled \/ Enables(r, c))

Committed(r, c) ==
    [r EXCEPT
        !.verified = IF c.outcome = "inconclusive" THEN @ ELSE c.outcome,
        !.tested = c.now,
        !.token = Run(c.run),
        !.updatedAt = c.now,
        !.owed = FALSE,
        !.enabled = c.outcome # "failed" /\ (@ \/ Enables(r, c)),
        !.armed = StillArmed(r, c),
        !.armedAt = IF c.mode = "armed" /\ c.outcome # "passed" /\ r.armed /\ Aligned(r)
                    THEN c.now ELSE @]
=============================================================================
