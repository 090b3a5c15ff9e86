------------------------- MODULE ReleaseLifecycle -------------------------
(***************************************************************************)
(* What the service promises about the status of a release, with no        *)
(* database, no users and no clock: the transitions the functions of       *)
(* app/services/releases.py allow, each taken in one indivisible step.     *)
(* ReleaseWorkflow implements this module: whatever requests and workers   *)
(* do to one another, the committed status moves along these edges only.   *)
(***************************************************************************)

CONSTANTS
    Releases,        \* the releases
    NeedsApproval    \* [Releases -> BOOLEAN], Environment.requires_approval

VARIABLE status      \* [Releases -> Statuses], the committed releases.status

Statuses ==
    { "draft", "pending_approval", "approved", "rejected", "scheduled",
      "deploying", "deployed", "failed", "rolled_back", "cancelled" }

(***************************************************************************)
(* The statuses that _ensure_status expects before each action.            *)
(***************************************************************************)
Expected(action) ==
    CASE action = "submit" -> { "draft", "rejected" }
      [] action \in { "approve", "reject" } -> { "pending_approval" }
      [] action = "schedule" -> { "approved" }
      [] action = "deploy" -> { "approved", "scheduled" }
      [] action \in { "complete", "fail" } -> { "deploying" }
      [] action = "rollback" -> { "deployed" }
      [] action = "cancel" -> { "draft", "pending_approval", "approved",
                                "rejected", "scheduled" }

Move(r, action, to) ==
    /\ status[r] \in Expected(action)
    /\ status' = [status EXCEPT ![r] = to]

Submit(r) ==
    Move(r, "submit",
         IF NeedsApproval[r] THEN "pending_approval" ELSE "approved")

Approve(r) == Move(r, "approve", "approved")
Reject(r) == Move(r, "reject", "rejected")
Schedule(r) == Move(r, "schedule", "scheduled")
DeployNow(r) == Move(r, "deploy", "deploying")
Complete(r) == Move(r, "complete", "deployed")
Fail(r) == Move(r, "fail", "failed")
Rollback(r) == Move(r, "rollback", "rolled_back")
Cancel(r) == Move(r, "cancel", "cancelled")

(***************************************************************************)
(* One run of the scheduler starts the deployment of a batch of releases.  *)
(***************************************************************************)
Activate(batch) ==
    /\ \A r \in batch : status[r] = "scheduled"
    /\ status' = [r \in Releases |->
                     IF r \in batch THEN "deploying" ELSE status[r]]

-----------------------------------------------------------------------------

Init == status = [r \in Releases |-> "draft"]

Next ==
    \/ \E r \in Releases :
          \/ Submit(r) \/ Approve(r) \/ Reject(r) \/ Schedule(r)
          \/ DeployNow(r) \/ Complete(r) \/ Fail(r) \/ Rollback(r)
          \/ Cancel(r)
    \/ \E batch \in SUBSET Releases : Activate(batch)

Spec == Init /\ [][Next]_status
=============================================================================
