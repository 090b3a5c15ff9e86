---------------------- MODULE ReleaseWorkflow_proofs ----------------------
(***************************************************************************)
(* Theorems about ReleaseWorkflow, for every set of users, releases,       *)
(* requests and workers and every value of the bounds.                     *)
(***************************************************************************)
EXTENDS ReleaseWorkflow, SequenceTheorems, TLAPS

(***************************************************************************)
(* The function of the statuses has the type its name says.                *)
(***************************************************************************)
LEMMA StatusAfterType == StatusAfter \in [Actions -> Statuses]
  BY DEF StatusAfter, Actions, Statuses

(***************************************************************************)
(* A review leads to a status that is one of the two decisions.            *)
(***************************************************************************)
LEMMA ReviewStatus ==
  ASSUME NEW action \in Reviews
  PROVE  StatusAfter[action] \in Decisions
  BY DEF Reviews, StatusAfter, Decisions

(***************************************************************************)
(* release.scheduled is the one action that leads to scheduled.            *)
(***************************************************************************)
LEMMA OnlyScheduling ==
  ASSUME NEW action \in Actions, StatusAfter[action] = "scheduled"
  PROVE  action = "release.scheduled"
  BY DEF Actions, StatusAfter

(***************************************************************************)
(* release.deployment_started is the one action that leads to deploying.   *)
(***************************************************************************)
LEMMA OnlyDeploying ==
  ASSUME NEW action \in Actions, StatusAfter[action] = "deploying"
  PROVE  action = "release.deployment_started"
  BY DEF Actions, StatusAfter

(***************************************************************************)
(* Assigning well-typed values to a loaded row gives a well-typed change.  *)
(***************************************************************************)
LEMMA HeldType ==
  ASSUME TypeOK, NEW r \in Releases, NEW new \in Row, NEW action \in Actions
  PROVE  Held(r, new, action) \in Change
  <1>1. row[r] \in Row
    BY DEF TypeOK
  <1>2. row[r].lock_version + 1 \in Nat
    BY <1>1 DEF Row
  <1>3. [new EXCEPT !.lock_version = row[r].lock_version + 1] \in Row
    BY <1>2 DEF Row
  <1> QED
    BY <1>1, <1>3 DEF Held, Change

(***************************************************************************)
(* Staging a well-typed row keeps the types.                               *)
(***************************************************************************)
LEMMA StageType ==
  ASSUME TypeOK, NEW q \in Requests, NEW r \in Releases,
         NEW new \in Row, NEW action \in Actions,
         Stage(q, r, new, action)
  PROVE  TypeOK'
  <1>1. Held(r, new, action) \in Change
    BY HeldType
  <1>2. q \in Processes
    BY DEF Processes
  <1>3. txn' = [txn EXCEPT ![q].write[r] = Held(r, new, action)]
    BY DEF Stage
  <1>4. txn' \in [Processes -> Transaction]
    BY <1>1, <1>2, <1>3 DEF TypeOK, Transaction
  <1> QED
    BY <1>4 DEF TypeOK, Stage, database

(***************************************************************************)
(* A process that ends without writing keeps the types.                    *)
(***************************************************************************)
LEMMA ClosedType == Closed \in Transaction
  BY DEF Closed, NoWrites, Transaction

(***************************************************************************)
(* A transaction that ends with nothing written keeps the types.           *)
(***************************************************************************)
LEMMA CloseType ==
  ASSUME TypeOK, NEW p \in Processes,
         txn' = [txn EXCEPT ![p] = Closed],
         UNCHANGED << database, now >>
  PROVE  TypeOK'
  BY ClosedType DEF TypeOK, database

(***************************************************************************)
(* What Commit writes for one release.                                     *)
(***************************************************************************)
LEMMA CommitRows ==
  ASSUME TypeOK, SessionsAreLegal, NEW p \in Processes, NEW r \in Loaded(p)
  PROVE  /\ r \in Releases
         /\ txn[p].write[r] \in Change
         /\ NewApprovals(p, r) \subseteq Approval
         /\ AuditRow(p, r) \in AuditEvent
         /\ OutboxRow(p, r) \in OutboxEvent
  <1>1. txn[p] \in Transaction /\ r \in Releases
    BY DEF TypeOK, Loaded
  <1>2. txn[p].write[r] \in Change
    BY <1>1 DEF Transaction, Loaded
  <1>3. txn[p].write[r].new.status \in Statuses
    BY <1>2 DEF Change, Row
  <1>4. AuditRow(p, r) \in AuditEvent /\ OutboxRow(p, r) \in OutboxEvent
    BY <1>1, <1>2, <1>3 DEF AuditRow, OutboxRow, AuditEvent, OutboxEvent,
                            Transaction, Change
  <1>5. NewApprovals(p, r) \subseteq Approval
    <2>1. CASE txn[p].write[r].action \notin Reviews
      BY <2>1 DEF NewApprovals
    <2>2. CASE txn[p].write[r].action \in Reviews
      <3>1. txn[p].actor \in Users
        BY <2>2 DEF SessionsAreLegal, ChangeIsLegal
      <3>2. StatusAfter[txn[p].write[r].action] \in Decisions
        BY <2>2, ReviewStatus
      <3> QED
        BY <2>2, <3>1, <3>2 DEF NewApprovals, Approval
    <2> QED
      BY <2>1, <2>2
  <1> QED
    BY <1>1, <1>2, <1>4, <1>5

(***************************************************************************)
(* A commit keeps the types.                                               *)
(***************************************************************************)
LEMMA CommitType ==
  ASSUME TypeOK, SessionsAreLegal, NEW p \in Processes, Commit(p)
  PROVE  TypeOK'
  <1>1. \A r \in Loaded(p) : /\ r \in Releases
                             /\ txn[p].write[r] \in Change
                             /\ NewApprovals(p, r) \subseteq Approval
                             /\ AuditRow(p, r) \in AuditEvent
                             /\ OutboxRow(p, r) \in OutboxEvent
    BY CommitRows
  <1>2. row' \in [Releases -> Row]
    <2>1. row' = [ r \in Releases |->
                     IF r \in Loaded(p) THEN txn[p].write[r].new ELSE row[r] ]
      BY DEF Commit
    <2>2. \A r \in Loaded(p) : txn[p].write[r].new \in Row
      BY <1>1 DEF Change
    <2> QED
      BY <2>1, <2>2 DEF TypeOK
  <1>3. approvals' \in [Releases -> SUBSET Approval]
    <2>1. approvals' = [ r \in Releases |->
                           IF r \in Loaded(p)
                           THEN approvals[r] \cup NewApprovals(p, r)
                           ELSE approvals[r] ]
      BY DEF Commit
    <2> QED
      BY <2>1, <1>1 DEF TypeOK
  <1>4. audit' \in [Releases -> Seq(AuditEvent)]
    <2>1. audit' = [ r \in Releases |->
                       IF r \in Loaded(p) THEN Append(audit[r], AuditRow(p, r))
                                          ELSE audit[r] ]
      BY DEF Commit
    <2>2. \A r \in Releases : audit[r] \in Seq(AuditEvent)
      BY DEF TypeOK
    <2>3. \A r \in Loaded(p) :
            Append(audit[r], AuditRow(p, r)) \in Seq(AuditEvent)
      BY <1>1, <2>2, AppendProperties
    <2> QED
      BY <2>1, <2>2, <2>3
  <1>5. outbox' \in [Releases -> Seq(OutboxEvent)]
    <2>1. outbox' = [ r \in Releases |->
                        IF r \in Loaded(p)
                        THEN Append(outbox[r], OutboxRow(p, r))
                        ELSE outbox[r] ]
      BY DEF Commit
    <2>2. \A r \in Releases : outbox[r] \in Seq(OutboxEvent)
      BY DEF TypeOK
    <2>3. \A r \in Loaded(p) :
            Append(outbox[r], OutboxRow(p, r)) \in Seq(OutboxEvent)
      BY <1>1, <2>2, AppendProperties
    <2> QED
      BY <2>1, <2>2, <2>3
  <1>6. txn' \in [Processes -> Transaction]
    BY ClosedType DEF TypeOK, Commit
  <1> QED
    BY <1>2, <1>3, <1>4, <1>5, <1>6 DEF TypeOK, Commit

-----------------------------------------------------------------------------
(***************************************************************************)
(* A process whose transaction did not change still has a legal session    *)
(* when no committed row changed and the clock did not go back.            *)
(***************************************************************************)
LEMMA SessionUnchanged ==
  ASSUME TypeOK, SessionsAreLegal, NEW p \in Processes,
         txn'[p] = txn[p], row' = row, now' \in Nat, now <= now'
  PROVE  /\ OnlyBatchesAreLarge(p)'
         /\ \A r \in Loaded(p)' : SeenIsNotNewer(p, r)' /\ ChangeIsLegal(p, r)'
  <1>1. Loaded(p)' = Loaded(p)
    BY DEF Loaded
  <1>2. OnlyBatchesAreLarge(p)'
    BY <1>1 DEF SessionsAreLegal, OnlyBatchesAreLarge
  <1>3. ASSUME NEW r \in Loaded(p)
        PROVE  SeenIsNotNewer(p, r)' /\ ChangeIsLegal(p, r)'
    <2>1. SeenIsNotNewer(p, r) /\ ChangeIsLegal(p, r)
      BY DEF SessionsAreLegal
    <2>2. SeenIsNotNewer(p, r)'
      BY <2>1 DEF SeenIsNotNewer
    <2>3. ChangeIsLegal(p, r)'
      BY <2>1 DEF ChangeIsLegal, TypeOK
    <2> QED
      BY <2>2, <2>3
  <1> QED
    BY <1>1, <1>2, <1>3

(***************************************************************************)
(* A process that has closed holds nothing.                                *)
(***************************************************************************)
LEMMA ClosedHoldsNothing ==
  ASSUME NEW p \in Processes, txn'[p] = Closed
  PROVE  Loaded(p)' = {}
  BY DEF Loaded, Closed, NoWrites

(***************************************************************************)
(* The end of a transaction leaves the other requests their users.         *)
(***************************************************************************)
LEMMA CloseActor ==
  ASSUME TypeOK, RequestsHaveActor, NEW p \in Processes,
         txn' = [txn EXCEPT ![p] = Closed]
  PROVE  RequestsHaveActor'
  <1> SUFFICES ASSUME NEW q \in Requests, txn'[q].open
               PROVE  txn'[q].actor \in Users
    BY DEF RequestsHaveActor
  <1>1. txn'[q] = IF q = p THEN Closed ELSE txn[q]
    BY DEF TypeOK, Processes
  <1>2. q # p
    BY <1>1 DEF Closed
  <1> QED
    BY <1>1, <1>2 DEF RequestsHaveActor

(***************************************************************************)
(* A transaction that ends with nothing written (StaleDataError, Abort)    *)
(* keeps the invariant: the other sessions hold what they held.            *)
(***************************************************************************)
LEMMA CloseLegal ==
  ASSUME WorkflowInv, NEW p \in Processes,
         txn' = [txn EXCEPT ![p] = Closed],
         UNCHANGED << database, now >>
  PROVE  WorkflowInv'
  <1>1. TypeOK'
    BY CloseType DEF WorkflowInv
  <1>2. SessionsAreLegal'
    <2> SUFFICES ASSUME NEW s \in Processes
                 PROVE  /\ OnlyBatchesAreLarge(s)'
                        /\ \A r \in Loaded(s)' :
                              SeenIsNotNewer(s, r)' /\ ChangeIsLegal(s, r)'
      BY DEF SessionsAreLegal
    <2>1. CASE s = p
      <3>1. Loaded(s)' = {}
        BY <2>1, ClosedHoldsNothing DEF WorkflowInv, TypeOK
      <3> QED
        BY <3>1 DEF OnlyBatchesAreLarge
    <2>2. CASE s # p
      <3>1. txn'[s] = txn[s] /\ row' = row /\ now' \in Nat /\ now <= now'
        BY <2>2 DEF WorkflowInv, TypeOK, database
      <3> QED
        BY <3>1, SessionUnchanged DEF WorkflowInv
    <2> QED
      BY <2>1, <2>2
  <1>3. ScheduledHasTime'
    BY DEF WorkflowInv, ScheduledHasTime, database
  <1>4. RequestsHaveActor'
    BY CloseActor DEF WorkflowInv
  <1> QED
    BY <1>1, <1>2, <1>3, <1>4 DEF WorkflowInv

-----------------------------------------------------------------------------
(***************************************************************************)
(* What a service function has established of the values new that it is    *)
(* about to stage for the release r, and of the action it records.         *)
(***************************************************************************)
LegalPlan(q, r, new, action) ==
    /\ new \in Row
    /\ action \in Actions
    /\ row[r].status \in AllowedFrom[action]
    /\ new.status = StatusAfter[action]
    /\ action = "release.submitted" => NeedsApproval[r]
    /\ action = "release.auto_approved" => ~NeedsApproval[r]
    /\ action \in Reviews => /\ txn[q].actor \in Users
                             /\ Independent(txn[q].actor, r)
    /\ new.approved_by = IF action = "release.approved"
                         THEN txn[q].actor ELSE row[r].approved_by
    /\ IF action = "release.scheduled"
       THEN new.scheduled_at \in Nat
       ELSE new.scheduled_at = row[r].scheduled_at
    /\ (/\ action = "release.deployment_started"
        /\ row[r].status = "scheduled"
        /\ row[r].scheduled_at \in Nat) => row[r].scheduled_at <= now

(***************************************************************************)
(* A service function that makes a legal change of the row it has just     *)
(* loaded keeps the invariant.                                             *)
(***************************************************************************)
LEMMA StageLegal ==
  ASSUME WorkflowInv, NEW q \in Requests, NEW r \in Releases,
         NEW new, NEW action, CanLoad(q, r),
         LegalPlan(q, r, new, action), Stage(q, r, new, action)
  PROVE  WorkflowInv'
  <1>1. TypeOK'
    BY StageType DEF WorkflowInv, LegalPlan
  <1>2. q \in Processes /\ txn \in [Processes -> Transaction]
    BY DEF Processes, WorkflowInv, TypeOK
  <1>3. /\ txn' = [txn EXCEPT ![q].write[r] = Held(r, new, action)]
        /\ row' = row /\ now' = now
    BY DEF Stage, database
  <1>4. SessionsAreLegal'
    <2> SUFFICES ASSUME NEW s \in Processes
                 PROVE  /\ OnlyBatchesAreLarge(s)'
                        /\ \A x \in Loaded(s)' :
                              SeenIsNotNewer(s, x)' /\ ChangeIsLegal(s, x)'
      BY DEF SessionsAreLegal
    <2>1. CASE s # q
      <3>1. txn'[s] = txn[s]
        BY <1>2, <1>3, <2>1
      <3>2. now' \in Nat /\ now <= now'
        BY <1>3 DEF WorkflowInv, TypeOK
      <3> QED
        BY <1>3, <3>1, <3>2, SessionUnchanged DEF WorkflowInv
    <2>2. CASE s = q
      <3>1. /\ txn'[q].actor = txn[q].actor
            /\ txn'[q].write = [txn[q].write EXCEPT ![r] =
                                   Held(r, new, action)]
        BY <1>2, <1>3 DEF Transaction
      <3>2. \A x \in Releases : x # r => txn[q].write[x] = NoChange
        BY DEF CanLoad, Loaded
      <3>3. \A x \in Releases : x # r => txn'[q].write[x] = NoChange
        BY <1>2, <3>1, <3>2 DEF Transaction
      <3>4. Loaded(s)' \subseteq { r }
        BY <2>2, <3>3 DEF Loaded
      <3>5. txn'[q].write[r] = Held(r, new, action)
        BY <1>2, <3>1 DEF Transaction
      <3>6. OnlyBatchesAreLarge(s)'
        BY <3>4 DEF OnlyBatchesAreLarge
      <3>7. /\ txn'[q].write[r].seen = row[r]
            /\ txn'[q].write[r].action = action
            /\ txn'[q].write[r].new =
                 [new EXCEPT !.lock_version = row[r].lock_version + 1]
        BY <3>5 DEF Held
      <3>8. /\ txn'[q].write[r].new.status = new.status
            /\ txn'[q].write[r].new.approved_by = new.approved_by
            /\ txn'[q].write[r].new.scheduled_at = new.scheduled_at
            /\ txn'[q].write[r].new.lock_version = row[r].lock_version + 1
        BY <3>7 DEF LegalPlan, Row
      <3>9. SeenIsNotNewer(s, r)'
        <4>1. row[r].lock_version \in Nat
          BY DEF WorkflowInv, TypeOK, Row
        <4> QED
          BY <1>3, <2>2, <3>7, <4>1 DEF SeenIsNotNewer
      <3>10. ChangeIsLegal(s, r)'
        BY <1>3, <2>2, <3>1, <3>7, <3>8
           DEF ChangeIsLegal, LegalPlan, Independent
      <3> QED
        BY <3>4, <3>6, <3>9, <3>10
    <2> QED
      BY <2>1, <2>2
  <1>5. ScheduledHasTime'
    BY <1>3 DEF WorkflowInv, ScheduledHasTime
  <1>6. RequestsHaveActor'
    <2> SUFFICES ASSUME NEW s \in Requests, txn'[s].open
                 PROVE  txn'[s].actor \in Users
      BY DEF RequestsHaveActor
    <2>1. txn'[s].open = txn[s].open /\ txn'[s].actor = txn[s].actor
      BY <1>2, <1>3 DEF Processes, Transaction
    <2> QED
      BY <2>1 DEF WorkflowInv, RequestsHaveActor
  <1> QED
    BY <1>1, <1>4, <1>5, <1>6 DEF WorkflowInv

(***************************************************************************)
(* Every service function stages a legal change, or nothing at all.        *)
(***************************************************************************)
LEMMA HandleLegal ==
  ASSUME WorkflowInv, NEW q \in Requests, NEW r \in Releases, Handle(q, r)
  PROVE  WorkflowInv'
  <1>1. /\ row[r] \in Row
        /\ now \in Nat
    BY DEF WorkflowInv, TypeOK
  <1>2. CanLoad(q, r) => txn[q].actor \in Users
    BY DEF CanLoad, WorkflowInv, RequestsHaveActor
  <1>3. CASE SubmitRelease(q, r)
    <2>1. CASE NeedsApproval[r]
      <3> DEFINE new == [row[r] EXCEPT !.status = "pending_approval"]
      <3>1. Stage(q, r, new, "release.submitted") /\ CanLoad(q, r)
        BY <1>3, <2>1 DEF SubmitRelease
      <3>2. LegalPlan(q, r, new, "release.submitted")
        BY <1>1, <1>3, <2>1
           DEF SubmitRelease, LegalPlan, Row, Statuses, StatusAfter,
               AllowedFrom, Actions, Reviews
      <3> QED
        BY <3>1, <3>2, StageLegal
    <2>2. CASE ~NeedsApproval[r]
      <3> DEFINE new == [row[r] EXCEPT !.status = "approved"]
      <3>1. Stage(q, r, new, "release.auto_approved") /\ CanLoad(q, r)
        BY <1>3, <2>2 DEF SubmitRelease
      <3>2. LegalPlan(q, r, new, "release.auto_approved")
        BY <1>1, <1>3, <2>2
           DEF SubmitRelease, LegalPlan, Row, Statuses, StatusAfter,
               AllowedFrom, Actions, Reviews
      <3> QED
        BY <3>1, <3>2, StageLegal
    <2> QED
      BY <2>1, <2>2
  <1>4. ASSUME MayReview(q, r), txn[q].actor \in Users
        PROVE  Independent(txn[q].actor, r)
    BY <1>4 DEF MayReview, Independent, IsAdmin
  <1>5. CASE ApproveRelease(q, r)
    <2> DEFINE new == [row[r] EXCEPT !.status = "approved",
                                     !.approved_by = txn[q].actor]
    <2>1. Stage(q, r, new, "release.approved") /\ CanLoad(q, r)
      BY <1>5 DEF ApproveRelease
    <2>2. MayReview(q, r)
      BY <1>5 DEF ApproveRelease
    <2>3. LegalPlan(q, r, new, "release.approved")
      BY <1>1, <1>2, <1>4, <2>1, <2>2
         DEF MayReview, LegalPlan, Row, Statuses, StatusAfter, AllowedFrom,
             Actions, Reviews
    <2> QED
      BY <2>1, <2>3, StageLegal
  <1>6. CASE RejectRelease(q, r)
    <2> DEFINE new == [row[r] EXCEPT !.status = "rejected"]
    <2>1. Stage(q, r, new, "release.rejected") /\ CanLoad(q, r)
      BY <1>6 DEF RejectRelease
    <2>2. MayReview(q, r)
      BY <1>6 DEF RejectRelease
    <2>3. LegalPlan(q, r, new, "release.rejected")
      BY <1>1, <1>2, <1>4, <2>1, <2>2
         DEF MayReview, LegalPlan, Row, Statuses, StatusAfter, AllowedFrom,
             Actions, Reviews
    <2> QED
      BY <2>1, <2>3, StageLegal
  <1>7. CASE ScheduleRelease(q, r)
    <2>1. PICK t \in 0..MaxTime :
             Stage(q, r, [row[r] EXCEPT !.status = "scheduled",
                                        !.scheduled_at = t],
                   "release.scheduled")
      BY <1>7 DEF ScheduleRelease
    <2> DEFINE new == [row[r] EXCEPT !.status = "scheduled",
                                     !.scheduled_at = t]
    <2>2. CanLoad(q, r) /\ row[r].status = "approved" /\ t \in Nat
      BY <1>7 DEF ScheduleRelease
    <2>3. LegalPlan(q, r, new, "release.scheduled")
      BY <1>1, <2>2
         DEF LegalPlan, Row, Times, Statuses, StatusAfter, AllowedFrom,
             Actions, Reviews
    <2> QED
      BY <2>1, <2>2, <2>3, StageLegal
  <1>8. CASE StartDeployment(q, r)
    <2> DEFINE new == [row[r] EXCEPT !.status = "deploying"]
    <2>1. Stage(q, r, new, "release.deployment_started") /\ CanLoad(q, r)
      BY <1>8 DEF StartDeployment
    <2>2. /\ row[r].status \in { "approved", "scheduled" }
          /\ row[r].status = "scheduled" /\ row[r].scheduled_at \in Nat
                => row[r].scheduled_at <= now
      BY <1>8, UsersAssumption DEF StartDeployment, IsDue
    <2>3. LegalPlan(q, r, new, "release.deployment_started")
      BY <1>1, <2>2
         DEF LegalPlan, Row, Statuses, StatusAfter, AllowedFrom, Actions,
             Reviews
    <2> QED
      BY <2>1, <2>3, StageLegal
  <1>9. CASE FinishDeployment(q, r)
    <2>1. CanLoad(q, r) /\ row[r].status = "deploying"
      BY <1>9 DEF FinishDeployment
    <2>2. CASE Stage(q, r, [row[r] EXCEPT !.status = "deployed",
                                          !.deployed_at = now],
                     "release.deployed")
      <3> DEFINE new == [row[r] EXCEPT !.status = "deployed",
                                       !.deployed_at = now]
      <3>1. LegalPlan(q, r, new, "release.deployed")
        BY <1>1, <2>1
           DEF LegalPlan, Row, Times, Statuses, StatusAfter, AllowedFrom,
               Actions, Reviews
      <3> QED
        BY <2>1, <2>2, <3>1, StageLegal
    <2>3. CASE Stage(q, r, [row[r] EXCEPT !.status = "failed"],
                     "release.failed")
      <3> DEFINE new == [row[r] EXCEPT !.status = "failed"]
      <3>1. LegalPlan(q, r, new, "release.failed")
        BY <1>1, <2>1
           DEF LegalPlan, Row, Statuses, StatusAfter, AllowedFrom, Actions,
               Reviews
      <3> QED
        BY <2>1, <2>3, <3>1, StageLegal
    <2> QED
      BY <1>9, <2>2, <2>3 DEF FinishDeployment
  <1>10. CASE RollbackRelease(q, r)
    <2> DEFINE new == [row[r] EXCEPT !.status = "rolled_back"]
    <2>1. /\ Stage(q, r, new, "release.rolled_back") /\ CanLoad(q, r)
          /\ row[r].status = "deployed"
      BY <1>10 DEF RollbackRelease
    <2>2. LegalPlan(q, r, new, "release.rolled_back")
      BY <1>1, <2>1
         DEF LegalPlan, Row, Statuses, StatusAfter, AllowedFrom, Actions,
             Reviews
    <2> QED
      BY <2>1, <2>2, StageLegal
  <1>11. CASE CancelRelease(q, r)
    <2> DEFINE new == [row[r] EXCEPT !.status = "cancelled"]
    <2>1. Stage(q, r, new, "release.cancelled") /\ CanLoad(q, r)
      BY <1>11 DEF CancelRelease
    <2>2. LegalPlan(q, r, new, "release.cancelled")
      BY <1>1, <1>11
         DEF CancelRelease, LegalPlan, Row, Statuses, StatusAfter,
             AllowedFrom, Actions, Reviews
    <2> QED
      BY <2>1, <2>2, StageLegal
  <1> QED
    BY <1>3, <1>5, <1>6, <1>7, <1>8, <1>9, <1>10, <1>11 DEF Handle

(***************************************************************************)
(* The scheduler's batch.                                                  *)
(***************************************************************************)
Activation(r) ==
    Held(r, [row[r] EXCEPT !.status = "deploying"],
         "release.deployment_started")

(***************************************************************************)
(* What the scheduler makes of a due release is a change.                  *)
(***************************************************************************)
LEMMA ActivationIsChange ==
  ASSUME TypeOK, NEW r \in Releases
  PROVE  Activation(r) \in Change /\ Activation(r) # NoChange
  <1>1. [row[r] EXCEPT !.status = "deploying"] \in Row
    BY DEF TypeOK, Row, Statuses
  <1>2. "release.deployment_started" \in Actions
    BY DEF Actions, StatusAfter
  <1> QED
    BY <1>1, <1>2, HeldType, ChangeAssumption DEF Activation

(***************************************************************************)
(* A run of the scheduler keeps the invariant: all it has selected is due. *)
(***************************************************************************)
LEMMA SelectLegal ==
  ASSUME WorkflowInv, NEW w \in Workers, SelectDue(w)
  PROVE  WorkflowInv'
  <1>1. PICK batch \in SUBSET DueReleases :
           txn' = [txn EXCEPT ![w] =
              [ open |-> TRUE, actor |-> NoUser, began |-> now,
                write |-> [ r \in Releases |->
                    IF r \in batch THEN Activation(r) ELSE NoChange ]]]
    BY DEF SelectDue, Activation
  <1>2. /\ w \in Processes /\ w \notin Requests
        /\ row' = row /\ approvals' = approvals /\ audit' = audit
        /\ outbox' = outbox /\ now' = now /\ now \in Nat
        /\ txn \in [Processes -> Transaction]
    BY ProcessesAssumption
       DEF Processes, SelectDue, database, WorkflowInv, TypeOK
  <1>3. \A r \in Releases : Activation(r) \in Change /\ Activation(r) # NoChange
    BY ActivationIsChange DEF WorkflowInv
  <1>4. /\ txn'[w].open = TRUE /\ txn'[w].actor = NoUser
        /\ \A r \in Releases : txn'[w].write[r] =
              IF r \in batch THEN Activation(r) ELSE NoChange
        /\ \A s \in Processes \ { w } : txn'[s] = txn[s]
    BY <1>1, <1>2
  <1>5. TypeOK'
    <2>1. txn' \in [Processes -> Transaction]
      BY <1>1, <1>2, <1>3 DEF Transaction
    <2> QED
      BY <1>2, <2>1 DEF WorkflowInv, TypeOK
  <1>6. RequestsHaveActor'
    BY <1>2, <1>4 DEF RequestsHaveActor, WorkflowInv, Processes
  <1>7. SessionsAreLegal'
    <2> SUFFICES ASSUME NEW s \in Processes
                 PROVE  /\ OnlyBatchesAreLarge(s)'
                        /\ \A x \in Loaded(s)' :
                              SeenIsNotNewer(s, x)' /\ ChangeIsLegal(s, x)'
      BY DEF SessionsAreLegal
    <2>1. CASE s # w
      BY <1>2, <1>4, <2>1, SessionUnchanged DEF WorkflowInv
    <2>2. CASE s = w
      <3>1. Loaded(s)' \subseteq batch
        BY <1>4, <2>2 DEF Loaded
      <3>2. \A x \in batch : /\ x \in Releases
                             /\ txn'[w].write[x] = Activation(x)
                             /\ row[x].status = "scheduled"
                             /\ row[x].scheduled_at <= now
                             /\ row[x] \in Row
        BY <1>4 DEF DueReleases, WorkflowInv, TypeOK
      <3>3. ASSUME NEW x \in batch
            PROVE  /\ txn'[w].write[x].seen = row[x]
                   /\ txn'[w].write[x].action = "release.deployment_started"
                   /\ txn'[w].write[x].new.status = "deploying"
                   /\ txn'[w].write[x].new.approved_by = row[x].approved_by
                   /\ txn'[w].write[x].new.scheduled_at = row[x].scheduled_at
                   /\ txn'[w].write[x].new.lock_version
                        = row[x].lock_version + 1
        <4>1. row[x] \in Row /\ txn'[w].write[x] = Activation(x)
          BY <3>2
        <4>2. /\ Activation(x).seen = row[x]
              /\ Activation(x).action = "release.deployment_started"
              /\ Activation(x).new =
                   [[row[x] EXCEPT !.status = "deploying"]
                       EXCEPT !.lock_version = row[x].lock_version + 1]
          BY DEF Activation, Held
        <4> QED
          BY <4>1, <4>2 DEF Row
      <3>4. OnlyBatchesAreLarge(s)'
        BY <2>2, <3>1, <3>2, <3>3 DEF OnlyBatchesAreLarge
      <3>5. ASSUME NEW x \in batch
            PROVE  SeenIsNotNewer(w, x)' /\ ChangeIsLegal(w, x)'
        <4>1. SeenIsNotNewer(w, x)'
          BY <1>2, <3>2, <3>3 DEF SeenIsNotNewer, Row
        <4>2. "scheduled" \in AllowedFrom["release.deployment_started"]
          BY DEF AllowedFrom, Actions, StatusAfter, Reviews
        <4>3. StatusAfter["release.deployment_started"] = "deploying"
          BY DEF StatusAfter
        <4>4. "release.deployment_started" \notin Reviews
          BY DEF Reviews
        <4>5. ChangeIsLegal(w, x)'
          BY <1>2, <1>4, <3>2, <3>3, <4>2, <4>3, <4>4 DEF ChangeIsLegal
        <4> QED
          BY <4>1, <4>5
      <3> QED
        BY <2>2, <3>1, <3>4, <3>5
    <2> QED
      BY <2>1, <2>2
  <1>8. ScheduledHasTime'
    BY <1>2 DEF WorkflowInv, ScheduledHasTime
  <1> QED
    BY <1>5, <1>6, <1>7, <1>8 DEF WorkflowInv

(***************************************************************************)
(* The commit: a session that still holds a release the commit has written *)
(* now holds an older version of it.                                       *)
(***************************************************************************)
LEMMA CommitRow ==
  ASSUME WorkflowInv, NEW p \in Processes, NEW r \in Loaded(p), Commit(p)
  PROVE  /\ txn[p].write[r].seen = row[r]
         /\ row'[r] = txn[p].write[r].new
         /\ row'[r].lock_version = row[r].lock_version + 1
         /\ row[r].lock_version \in Nat
  <1>1. r \in Releases /\ row[r] \in Row
    BY DEF Loaded, WorkflowInv, TypeOK
  <1>2. SeenIsNotNewer(p, r) /\ ChangeIsLegal(p, r)
    BY DEF WorkflowInv, SessionsAreLegal
  <1>3. txn[p].write[r].seen = row[r]
    BY <1>2 DEF Commit, VersionMatches, SeenIsNotNewer
  <1>4. row'[r] = txn[p].write[r].new
    BY <1>1 DEF Commit
  <1> QED
    BY <1>1, <1>2, <1>3, <1>4 DEF ChangeIsLegal, Row

(***************************************************************************)
(* A commit keeps the invariant: the versions of the written rows grow, so *)
(* that what another session has read of them is older.                    *)
(***************************************************************************)
LEMMA CommitLegal ==
  ASSUME WorkflowInv, NEW p \in Processes, Commit(p)
  PROVE  WorkflowInv'
  <1>1. TypeOK'
    BY CommitType DEF WorkflowInv
  <1>2. /\ txn' = [txn EXCEPT ![p] = Closed]
        /\ txn \in [Processes -> Transaction]
        /\ now' = now /\ now \in Nat
        /\ \A r \in Releases : r \notin Loaded(p) => row'[r] = row[r]
    BY DEF Commit, WorkflowInv, TypeOK
  <1>3. RequestsHaveActor'
    BY <1>2, CloseActor DEF WorkflowInv
  <1>4. SessionsAreLegal'
    <2> SUFFICES ASSUME NEW s \in Processes
                 PROVE  /\ OnlyBatchesAreLarge(s)'
                        /\ \A x \in Loaded(s)' :
                              SeenIsNotNewer(s, x)' /\ ChangeIsLegal(s, x)'
      BY DEF SessionsAreLegal
    <2>1. CASE s = p
      <3>1. Loaded(s)' = {}
        BY <1>2, <2>1, ClosedHoldsNothing
      <3> QED
        BY <3>1 DEF OnlyBatchesAreLarge
    <2>2. CASE s # p
      <3>1. txn'[s] = txn[s] /\ Loaded(s)' = Loaded(s)
        BY <1>2, <2>2 DEF Loaded
      <3>2. OnlyBatchesAreLarge(s)'
        BY <3>1 DEF OnlyBatchesAreLarge, WorkflowInv, SessionsAreLegal
      <3>3. ASSUME NEW x \in Loaded(s)
            PROVE  SeenIsNotNewer(s, x)' /\ ChangeIsLegal(s, x)'
        <4>1. SeenIsNotNewer(s, x) /\ ChangeIsLegal(s, x)
          BY DEF WorkflowInv, SessionsAreLegal
        <4>2. ChangeIsLegal(s, x)'
          BY <1>2, <3>1, <4>1 DEF ChangeIsLegal
        <4>3. x \in Releases /\ txn[s].write[x].seen.lock_version \in Nat
          BY DEF Loaded, WorkflowInv, TypeOK, Transaction, Change, Row
        <4>4. CASE x \in Loaded(p)
          <5>1. /\ row'[x].lock_version = row[x].lock_version + 1
                /\ row[x].lock_version \in Nat
            BY <4>4, CommitRow
          <5> QED
            BY <3>1, <4>1, <4>2, <4>3, <5>1 DEF SeenIsNotNewer
        <4>5. CASE x \notin Loaded(p)
          BY <1>2, <3>1, <4>1, <4>2, <4>3, <4>5 DEF SeenIsNotNewer
        <4> QED
          BY <4>4, <4>5
      <3> QED
        BY <3>1, <3>2, <3>3
    <2> QED
      BY <2>1, <2>2
  <1>5. ScheduledHasTime'
    <2> SUFFICES ASSUME NEW r \in Releases, row'[r].status = "scheduled"
                 PROVE  row'[r].scheduled_at \in Nat
      BY DEF ScheduledHasTime
    <2>1. CASE r \notin Loaded(p)
      BY <1>2, <2>1 DEF WorkflowInv, ScheduledHasTime
    <2>2. CASE r \in Loaded(p)
      <3>1. ChangeIsLegal(p, r) /\ row'[r] = txn[p].write[r].new
        BY <2>2, CommitRow DEF WorkflowInv, SessionsAreLegal
      <3>2. txn[p].write[r].action \in Actions
        BY <2>2 DEF Loaded, WorkflowInv, TypeOK, Transaction, Change
      <3>3. txn[p].write[r].action = "release.scheduled"
        BY <3>1, <3>2, OnlyScheduling DEF ChangeIsLegal
      <3> QED
        BY <3>1, <3>3 DEF ChangeIsLegal
    <2> QED
      BY <2>1, <2>2
  <1> QED
    BY <1>1, <1>3, <1>4, <1>5 DEF WorkflowInv

(***************************************************************************)
(* The begin of a transaction keeps the invariant.                         *)
(***************************************************************************)
LEMMA BeginLegal ==
  ASSUME WorkflowInv, NEW q \in Requests, NEW u \in Users, Begin(q, u)
  PROVE  WorkflowInv'
  <1>1. /\ q \in Processes /\ txn \in [Processes -> Transaction]
        /\ row' = row /\ approvals' = approvals /\ audit' = audit
        /\ outbox' = outbox /\ now' = now /\ now \in Nat
        /\ txn' = [txn EXCEPT ![q] = [ open |-> TRUE, actor |-> u,
                                       began |-> now, write |-> NoWrites ]]
    BY DEF Begin, Processes, database, WorkflowInv, TypeOK
  <1>2. /\ txn'[q].actor = u
        /\ txn'[q].write = NoWrites
        /\ \A s \in Processes \ { q } : txn'[s] = txn[s]
    BY <1>1
  <1>3. TypeOK'
    BY <1>1 DEF WorkflowInv, TypeOK, Transaction, NoWrites
  <1>4. RequestsHaveActor'
    BY <1>2 DEF WorkflowInv, RequestsHaveActor, Processes
  <1>5. SessionsAreLegal'
    <2> SUFFICES ASSUME NEW s \in Processes
                 PROVE  /\ OnlyBatchesAreLarge(s)'
                        /\ \A x \in Loaded(s)' :
                              SeenIsNotNewer(s, x)' /\ ChangeIsLegal(s, x)'
      BY DEF SessionsAreLegal
    <2>1. CASE s = q
      <3>1. Loaded(s)' = {}
        BY <1>2, <2>1 DEF Loaded, NoWrites
      <3> QED
        BY <3>1 DEF OnlyBatchesAreLarge
    <2>2. CASE s # q
      BY <1>1, <1>2, <2>2, SessionUnchanged DEF WorkflowInv
    <2> QED
      BY <2>1, <2>2
  <1>6. ScheduledHasTime'
    BY <1>1 DEF WorkflowInv, ScheduledHasTime
  <1> QED
    BY <1>3, <1>4, <1>5, <1>6 DEF WorkflowInv

(***************************************************************************)
(* The clock moves on, or nothing happens.                                 *)
(***************************************************************************)
LEMMA TimeLegal ==
  ASSUME WorkflowInv, Tick \/ UNCHANGED vars
  PROVE  WorkflowInv'
  <1>1. /\ row' = row /\ approvals' = approvals /\ audit' = audit
        /\ outbox' = outbox /\ txn' = txn
        /\ now \in Nat /\ now' \in Nat /\ now <= now'
    BY DEF Tick, vars, database, WorkflowInv, TypeOK
  <1>2. TypeOK' /\ RequestsHaveActor' /\ ScheduledHasTime'
    BY <1>1 DEF WorkflowInv, TypeOK, RequestsHaveActor, ScheduledHasTime
  <1>3. SessionsAreLegal'
    <2> SUFFICES ASSUME NEW s \in Processes
                 PROVE  /\ OnlyBatchesAreLarge(s)'
                        /\ \A x \in Loaded(s)' :
                              SeenIsNotNewer(s, x)' /\ ChangeIsLegal(s, x)'
      BY DEF SessionsAreLegal
    <2> QED
      BY <1>1, SessionUnchanged DEF WorkflowInv
  <1> QED
    BY <1>2, <1>3 DEF WorkflowInv

(***************************************************************************)
(* The invariant holds when no transaction is open.                        *)
(***************************************************************************)
LEMMA InitLegal ==
  ASSUME Init
  PROVE  WorkflowInv
  <1>1. ASSUME NEW p \in Processes
        PROVE  Loaded(p) = {} /\ txn[p] = Closed
    BY DEF Init, Loaded, Closed, NoWrites
  <1>2. row \in [Releases -> Row]
    BY DEF Init, Row, Statuses, Times
  <1>3. approvals \in [Releases -> SUBSET Approval]
    BY DEF Init
  <1>4. audit \in [Releases -> Seq(AuditEvent)]
    <2> DEFINE first(r) == [ action |-> "release.created",
                             actor |-> Creator[r], created_at |-> 0 ]
    <2>1. \A r \in Releases : first(r) \in AuditEvent
      BY ReleasesAssumption DEF AuditEvent, Actions, StatusAfter
    <2>2. \A r \in Releases : << first(r) >> \in Seq(AuditEvent)
      BY <2>1
    <2>3. audit = [ r \in Releases |-> << first(r) >> ]
      BY DEF Init
    <2> QED
      BY <2>2, <2>3
  <1>5. outbox \in [Releases -> Seq(OutboxEvent)]
    <2> DEFINE first == [ event_type |-> "release.created",
                          status |-> "draft", created_at |-> 0 ]
    <2>1. first \in OutboxEvent
      BY DEF OutboxEvent, Actions, StatusAfter, Statuses
    <2>2. << first >> \in Seq(OutboxEvent)
      BY <2>1
    <2>3. outbox = [ r \in Releases |-> << first >> ]
      BY DEF Init
    <2> QED
      BY <2>2, <2>3
  <1>6. TypeOK
    BY <1>2, <1>3, <1>4, <1>5, ClosedType DEF Init, TypeOK
  <1>7. RequestsHaveActor
    BY <1>1 DEF RequestsHaveActor, Closed, Processes
  <1>8. SessionsAreLegal
    BY <1>1 DEF SessionsAreLegal, OnlyBatchesAreLarge
  <1>9. ScheduledHasTime
    BY DEF Init, ScheduledHasTime
  <1> QED
    BY <1>6, <1>7, <1>8, <1>9 DEF WorkflowInv

(***************************************************************************)
(* Every step keeps the invariant.                                         *)
(***************************************************************************)
LEMMA NextLegal ==
  ASSUME WorkflowInv, [Next]_vars
  PROVE  WorkflowInv'
  <1>1. ASSUME NEW q \in Requests, NEW u \in Users, Begin(q, u)
        PROVE  WorkflowInv'
    BY <1>1, BeginLegal
  <1>2. ASSUME NEW q \in Requests, NEW r \in Releases, Handle(q, r)
        PROVE  WorkflowInv'
    BY <1>2, HandleLegal
  <1>3. ASSUME NEW w \in Workers, SelectDue(w)
        PROVE  WorkflowInv'
    BY <1>3, SelectLegal
  <1>4. ASSUME NEW p \in Processes, Commit(p)
        PROVE  WorkflowInv'
    BY <1>4, CommitLegal
  <1>5. ASSUME NEW p \in Processes, StaleDataError(p) \/ Abort(p)
        PROVE  WorkflowInv'
    BY <1>5, CloseLegal DEF StaleDataError, Abort
  <1>6. ASSUME Tick \/ UNCHANGED vars
        PROVE  WorkflowInv'
    BY <1>6, TimeLegal
  <1> QED
    BY <1>1, <1>2, <1>3, <1>4, <1>5, <1>6 DEF Next, End

(***************************************************************************)
(* In every reachable state, whatever the users, the releases and the      *)
(* number of processes, with or without row locks: the state is well       *)
(* typed, every open session holds the committed row or an older version   *)
(* of it, and what it is about to write is a legal change of what it read. *)
(***************************************************************************)
THEOREM WorkflowInvariant == Spec => []WorkflowInv
  <1>1. Init => WorkflowInv
    BY InitLegal
  <1>2. WorkflowInv /\ [Next]_vars => WorkflowInv'
    BY NextLegal
  <1> QED
    BY <1>1, <1>2, PTL DEF Spec

(***************************************************************************)
(* The columns, the events and the sessions always have their types.       *)
(***************************************************************************)
THEOREM TypeCorrect == Spec => []TypeOK
  <1>1. WorkflowInv => TypeOK
    BY DEF WorkflowInv
  <1> QED
    BY <1>1, WorkflowInvariant, PTL
=============================================================================
