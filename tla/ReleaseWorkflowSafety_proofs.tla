------------------- MODULE ReleaseWorkflowSafety_proofs -------------------
(***************************************************************************)
(* The safety properties of ReleaseWorkflow, from the inductive invariant  *)
(* of ReleaseWorkflow_proofs.                                              *)
(***************************************************************************)
EXTENDS ReleaseWorkflow_proofs

(***************************************************************************)
(* The only step that changes a committed row is a commit, and it writes   *)
(* rows of the very version it has read.                                   *)
(***************************************************************************)
LEMMA HandleStages ==
  ASSUME NEW q \in Requests, NEW r \in Releases, Handle(q, r)
  PROVE  /\ CanLoad(q, r)
         /\ \E new, action : Stage(q, r, new, action)
  <1>1. CASE SubmitRelease(q, r)
    BY <1>1 DEF SubmitRelease
  <1>2. CASE ApproveRelease(q, r)
    BY <1>2 DEF ApproveRelease
  <1>3. CASE RejectRelease(q, r)
    BY <1>3 DEF RejectRelease
  <1>4. CASE ScheduleRelease(q, r)
    BY <1>4 DEF ScheduleRelease
  <1>5. CASE StartDeployment(q, r)
    BY <1>5 DEF StartDeployment
  <1>6. CASE FinishDeployment(q, r)
    BY <1>6 DEF FinishDeployment
  <1>7. CASE RollbackRelease(q, r)
    BY <1>7 DEF RollbackRelease
  <1>8. CASE CancelRelease(q, r)
    BY <1>8 DEF CancelRelease
  <1> QED
    BY <1>1, <1>2, <1>3, <1>4, <1>5, <1>6, <1>7, <1>8 DEF Handle

(***************************************************************************)
(* Every step but a commit leaves the tables as they are.                  *)
(***************************************************************************)
LEMMA OnlyCommitWrites ==
  ASSUME [Next]_vars
  PROVE  UNCHANGED database \/ \E p \in Processes : Commit(p)
  <1>1. ASSUME NEW q \in Requests, NEW r \in Releases, Handle(q, r)
        PROVE  UNCHANGED database
    BY <1>1, HandleStages DEF Stage
  <1>2. ASSUME NEW q \in Requests, NEW u \in Users, Begin(q, u)
        PROVE  UNCHANGED database
    BY <1>2 DEF Begin
  <1>3. ASSUME NEW w \in Workers, SelectDue(w)
        PROVE  UNCHANGED database
    BY <1>3 DEF SelectDue
  <1>4. ASSUME NEW p \in Processes, StaleDataError(p) \/ Abort(p)
        PROVE  UNCHANGED database
    BY <1>4 DEF StaleDataError, Abort
  <1>5. Tick \/ UNCHANGED vars => UNCHANGED database
    BY DEF Tick, vars, database
  <1> QED
    BY <1>1, <1>2, <1>3, <1>4, <1>5 DEF Next, End

-----------------------------------------------------------------------------
(***************************************************************************)
(* A scheduled release is never deployed before its time.                  *)
(***************************************************************************)
THEOREM DeploysOnTime == Spec => NeverEarly
  <1> DEFINE OnTime ==
        \A r \in Releases :
          row[r].status = "scheduled" /\ row'[r].status = "deploying"
              => row[r].scheduled_at \in Nat /\ row[r].scheduled_at <= now
  <1>1. WorkflowInv /\ [Next]_vars => OnTime
    <2> SUFFICES ASSUME WorkflowInv, [Next]_vars, NEW r \in Releases,
                        row[r].status = "scheduled",
                        row'[r].status = "deploying"
                 PROVE  row[r].scheduled_at \in Nat
                          /\ row[r].scheduled_at <= now
      OBVIOUS
    <2>1. row[r].scheduled_at \in Nat
      BY DEF WorkflowInv, ScheduledHasTime
    <2>2. PICK p \in Processes : Commit(p)
      BY OnlyCommitWrites DEF database
    <2>3. r \in Loaded(p)
      BY <2>2 DEF Commit, WorkflowInv, TypeOK
    <2>4. /\ txn[p].write[r].seen = row[r]
          /\ row'[r] = txn[p].write[r].new
      BY <2>2, <2>3, CommitRow
    <2>5. ChangeIsLegal(p, r) /\ txn[p].write[r].action \in Actions
      BY <2>3 DEF WorkflowInv, TypeOK, SessionsAreLegal, Loaded, Transaction,
                  Change
    <2>6. txn[p].write[r].action = "release.deployment_started"
      BY <2>4, <2>5, OnlyDeploying DEF ChangeIsLegal
    <2> QED
      BY <2>1, <2>4, <2>5, <2>6 DEF ChangeIsLegal
  <1>2. WorkflowInv /\ [Next]_vars => [OnTime]_vars
    BY <1>1
  <1> QED
    BY <1>2, WorkflowInvariant, PTL DEF Spec, NeverEarly

-----------------------------------------------------------------------------
(***************************************************************************)
(* Row locks.                                                              *)
(***************************************************************************)
LEMMA StageLocks ==
  ASSUME LockInv, NEW q \in Requests, NEW r \in Releases,
         NEW new, NEW action, CanLoad(q, r), Stage(q, r, new, action)
  PROVE  LocksExclude' /\ LockedRowIsCurrent'
  <1>1. /\ q \in Processes /\ txn \in [Processes -> Transaction]
        /\ txn' = [txn EXCEPT ![q].write[r] = Held(r, new, action)]
        /\ row' = row
    BY DEF Stage, database, Processes, LockInv, WorkflowInv, TypeOK
  <1>2. \A s \in Processes : s # q => /\ txn'[s] = txn[s]
                                     /\ Loaded(s)' = Loaded(s)
    BY <1>1 DEF Loaded
  <1>3. Loaded(q)' \subseteq { r } /\ txn'[q].write[r].seen = row[r]
    <2>1. txn'[q].write = [txn[q].write EXCEPT ![r] = Held(r, new, action)]
      BY <1>1 DEF Transaction
    <2>2. txn[q].write \in [Releases -> Change \cup { NoChange }]
      BY <1>1 DEF Transaction
    <2>3. txn'[q].write[r] = Held(r, new, action)
      BY <2>1, <2>2
    <2>4. \A x \in Releases : x # r => txn'[q].write[x] = NoChange
      BY <2>1, <2>2 DEF CanLoad, Loaded
    <2>5. Held(r, new, action).seen = row[r]
      BY DEF Held
    <2> QED
      BY <2>3, <2>4, <2>5 DEF Loaded
  <1>4. RowLocks => \A s \in Processes : r \notin Loaded(s)
    BY DEF CanLoad, Locked
  <1>5. LocksExclude'
    BY <1>2, <1>3, <1>4 DEF LockInv, LocksExclude
  <1>6. LockedRowIsCurrent'
    BY <1>1, <1>2, <1>3 DEF LockInv, LockedRowIsCurrent
  <1> QED
    BY <1>5, <1>6

(***************************************************************************)
(* The scheduler leaves out locked rows (SKIP LOCKED), so that its batch   *)
(* meets no other session's rows.                                          *)
(***************************************************************************)
LEMMA SelectLocks ==
  ASSUME LockInv, NEW w \in Workers, SelectDue(w)
  PROVE  LocksExclude' /\ LockedRowIsCurrent'
  <1>1. PICK batch \in SUBSET DueReleases :
           txn' = [txn EXCEPT ![w] =
              [ open |-> TRUE, actor |-> NoUser, began |-> now,
                write |-> [ r \in Releases |->
                    IF r \in batch THEN Activation(r) ELSE NoChange ]]]
    BY DEF SelectDue, Activation
  <1>2. /\ w \in Processes /\ txn \in [Processes -> Transaction]
        /\ row' = row
    BY DEF SelectDue, database, Processes, LockInv, WorkflowInv, TypeOK
  <1>3. \A s \in Processes : s # w => /\ txn'[s] = txn[s]
                                     /\ Loaded(s)' = Loaded(s)
    BY <1>1, <1>2 DEF Loaded
  <1>4. /\ Loaded(w)' \subseteq batch
        /\ \A r \in batch : txn'[w].write[r].seen = row[r]
    <2>1. txn'[w].write = [ r \in Releases |->
                    IF r \in batch THEN Activation(r) ELSE NoChange ]
      BY <1>1, <1>2
    <2>2. batch \subseteq Releases
      BY DEF DueReleases
    <2>3. \A r \in batch : Activation(r).seen = row[r]
      BY DEF Activation, Held
    <2> QED
      BY <2>1, <2>2, <2>3 DEF Loaded
  <1>5. RowLocks => \A r \in batch : \A s \in Processes : r \notin Loaded(s)
    BY DEF DueReleases, Locked
  <1>6. LocksExclude'
    BY <1>3, <1>4, <1>5 DEF LockInv, LocksExclude
  <1>7. LockedRowIsCurrent'
    BY <1>2, <1>3, <1>4 DEF LockInv, LockedRowIsCurrent
  <1> QED
    BY <1>6, <1>7

(***************************************************************************)
(* A commit changes only rows its session holds, which no other holds.     *)
(***************************************************************************)
LEMMA CommitLocks ==
  ASSUME LockInv, NEW p \in Processes, Commit(p)
  PROVE  LocksExclude' /\ LockedRowIsCurrent'
  <1>1. /\ txn' = [txn EXCEPT ![p] = Closed]
        /\ txn \in [Processes -> Transaction]
        /\ \A r \in Releases : r \notin Loaded(p) => row'[r] = row[r]
    BY DEF Commit, LockInv, WorkflowInv, TypeOK
  <1>2. Loaded(p)' = {}
    BY <1>1, ClosedHoldsNothing
  <1>3. \A s \in Processes : s # p => /\ txn'[s] = txn[s]
                                     /\ Loaded(s)' = Loaded(s)
    BY <1>1 DEF Loaded
  <1>4. LocksExclude'
    BY <1>2, <1>3 DEF LockInv, LocksExclude
  <1>5. LockedRowIsCurrent'
    <2> SUFFICES ASSUME RowLocks, NEW s \in Processes, NEW r \in Loaded(s)'
                 PROVE  txn'[s].write[r].seen = row'[r]
      BY DEF LockedRowIsCurrent
    <2>1. s # p /\ r \in Loaded(s) /\ r \in Releases
      BY <1>2, <1>3 DEF Loaded
    <2>2. r \notin Loaded(p)
      BY <2>1 DEF LockInv, LocksExclude
    <2> QED
      BY <1>1, <1>3, <2>1, <2>2 DEF LockInv, LockedRowIsCurrent
  <1> QED
    BY <1>4, <1>5

(***************************************************************************)
(* Nothing changes for the locks when rows stay as they are and sessions   *)
(* only end.                                                               *)
(***************************************************************************)
LEMMA OtherLocks ==
  ASSUME LockInv, row' = row,
         \A p \in Processes : \/ txn'[p] = txn[p]
                             \/ Loaded(p)' = {}
  PROVE  LocksExclude' /\ LockedRowIsCurrent'
  <1>1. ASSUME NEW p \in Processes, NEW r \in Loaded(p)'
        PROVE  r \in Loaded(p) /\ txn'[p] = txn[p]
    BY DEF Loaded
  <1>2. LocksExclude'
    <2> SUFFICES ASSUME RowLocks, NEW p \in Processes, NEW q \in Processes,
                        p # q, NEW r \in Loaded(p)', r \in Loaded(q)'
                 PROVE  FALSE
      BY DEF LocksExclude
    <2> QED
      BY <1>1 DEF LockInv, LocksExclude
  <1>3. LockedRowIsCurrent'
    <2> SUFFICES ASSUME RowLocks, NEW p \in Processes, NEW r \in Loaded(p)'
                 PROVE  txn'[p].write[r].seen = row'[r]
      BY DEF LockedRowIsCurrent
    <2> QED
      BY <1>1 DEF LockInv, LockedRowIsCurrent
  <1> QED
    BY <1>2, <1>3

(***************************************************************************)
(* Every step keeps the locking invariant.                                 *)
(***************************************************************************)
LEMMA NextLocks ==
  ASSUME LockInv, [Next]_vars
  PROVE  LockInv'
  <1>1. WorkflowInv'
    BY NextLegal DEF LockInv
  <1>2. txn \in [Processes -> Transaction]
    BY DEF LockInv, WorkflowInv, TypeOK
  <1>3. ASSUME NEW q \in Requests, NEW u \in Users, Begin(q, u)
        PROVE  LocksExclude' /\ LockedRowIsCurrent'
    <2>1. Loaded(q)' = {}
      BY <1>2, <1>3 DEF Begin, Loaded, NoWrites, Processes
    <2>2. row' = row /\ \A s \in Processes \ { q } : txn'[s] = txn[s]
      BY <1>2, <1>3 DEF Begin, database
    <2> QED
      BY <2>1, <2>2, OtherLocks
  <1>4. ASSUME NEW q \in Requests, NEW r \in Releases, Handle(q, r)
        PROVE  LocksExclude' /\ LockedRowIsCurrent'
    BY <1>4, HandleStages, StageLocks
  <1>5. ASSUME NEW w \in Workers, SelectDue(w)
        PROVE  LocksExclude' /\ LockedRowIsCurrent'
    BY <1>5, SelectLocks
  <1>6. ASSUME NEW p \in Processes, Commit(p)
        PROVE  LocksExclude' /\ LockedRowIsCurrent'
    BY <1>6, CommitLocks
  <1>7. ASSUME NEW p \in Processes, StaleDataError(p) \/ Abort(p)
        PROVE  LocksExclude' /\ LockedRowIsCurrent'
    <2>1. /\ txn' = [txn EXCEPT ![p] = Closed] /\ row' = row
      BY <1>7 DEF StaleDataError, Abort, database
    <2>2. Loaded(p)' = {}
      BY <1>2, <2>1, ClosedHoldsNothing
    <2> QED
      BY <1>2, <2>1, <2>2, OtherLocks
  <1>8. ASSUME Tick \/ UNCHANGED vars
        PROVE  LocksExclude' /\ LockedRowIsCurrent'
    <2>1. row' = row /\ txn' = txn
      BY <1>8 DEF Tick, vars, database
    <2> QED
      BY <2>1, OtherLocks
  <1>9. LocksExclude' /\ LockedRowIsCurrent'
    BY <1>3, <1>4, <1>5, <1>6, <1>7, <1>8 DEF Next, End
  <1> QED
    BY <1>1, <1>9 DEF LockInv

(***************************************************************************)
(* Where the database honours FOR UPDATE no two transactions ever hold the *)
(* same release.                                                           *)
(***************************************************************************)
THEOREM LockInvariant == Spec => []LockInv
  <1>1. Init => LockInv
    <2> SUFFICES ASSUME Init PROVE LockInv
      OBVIOUS
    <2>1. WorkflowInv
      BY InitLegal
    <2>2. \A p \in Processes : Loaded(p) = {}
      BY DEF Init, Loaded, Closed, NoWrites
    <2> QED
      BY <2>1, <2>2 DEF LockInv, LocksExclude, LockedRowIsCurrent
  <1>2. LockInv /\ [Next]_vars => LockInv'
    BY NextLocks
  <1> QED
    BY <1>1, <1>2, PTL DEF Spec

(***************************************************************************)
(* Then every session holds what is committed: the version check never     *)
(* fails, and StaleDataError is never raised.                              *)
(***************************************************************************)
THEOREM LocksKeepRowsCurrent == Spec => []LockedRowIsCurrent
  <1>1. LockInv => LockedRowIsCurrent
    BY DEF LockInv
  <1> QED
    BY <1>1, LockInvariant, PTL

-----------------------------------------------------------------------------
(***************************************************************************)
(* The refinement of ReleaseLifecycle.                                     *)
(***************************************************************************)
Committed == [ r \in Releases |-> row[r].status ]

(***************************************************************************)
(* What Commit does to the committed status of the releases it holds.      *)
(***************************************************************************)
LEMMA CommitStatus ==
  ASSUME WorkflowInv, NEW p \in Processes, Commit(p)
  PROVE  /\ Committed' = [ r \in Releases |->
                             IF r \in Loaded(p)
                             THEN StatusAfter[txn[p].write[r].action]
                             ELSE Committed[r] ]
         /\ \A r \in Loaded(p) :
              /\ r \in Releases
              /\ txn[p].write[r].action \in Actions
              /\ Committed[r] \in AllowedFrom[txn[p].write[r].action]
  <1>1. ASSUME NEW r \in Loaded(p)
        PROVE  /\ r \in Releases
               /\ txn[p].write[r].action \in Actions
               /\ Committed[r] \in AllowedFrom[txn[p].write[r].action]
               /\ row'[r].status = StatusAfter[txn[p].write[r].action]
    <2>1. r \in Releases /\ txn[p].write[r].action \in Actions
      BY DEF Loaded, WorkflowInv, TypeOK, Transaction, Change
    <2>2. ChangeIsLegal(p, r)
      BY DEF WorkflowInv, SessionsAreLegal
    <2>3. /\ txn[p].write[r].seen = row[r]
          /\ row'[r] = txn[p].write[r].new
      BY CommitRow
    <2> QED
      BY <2>1, <2>2, <2>3 DEF ChangeIsLegal, Committed
  <1>2. ASSUME NEW r \in Releases, r \notin Loaded(p)
        PROVE  row'[r].status = Committed[r]
    BY <1>2 DEF Commit, Committed
  <1> QED
    BY <1>1, <1>2 DEF Committed

(***************************************************************************)
(* One release moved by one recorded action is a step of the lifecycle.    *)
(***************************************************************************)
LEMMA ActionIsStep ==
  ASSUME NEW r \in Releases, NEW action \in Actions,
         Committed[r] \in AllowedFrom[action],
         Committed' = [Committed EXCEPT ![r] = StatusAfter[action]],
         action = "release.submitted" => NeedsApproval[r],
         action = "release.auto_approved" => ~NeedsApproval[r]
  PROVE  Lifecycle!Next
  <1> USE DEF AllowedFrom, StatusAfter, Actions, Reviews, Lifecycle!Move,
              Lifecycle!Expected
  <1>1. CASE action = "release.submitted"
    BY <1>1 DEF Lifecycle!Next, Lifecycle!Submit, Committed
  <1>2. CASE action = "release.auto_approved"
    BY <1>2 DEF Lifecycle!Next, Lifecycle!Submit, Committed
  <1>3. CASE action = "release.approved"
    BY <1>3 DEF Lifecycle!Next, Lifecycle!Approve, Committed
  <1>4. CASE action = "release.rejected"
    BY <1>4 DEF Lifecycle!Next, Lifecycle!Reject, Committed
  <1>5. CASE action = "release.scheduled"
    BY <1>5 DEF Lifecycle!Next, Lifecycle!Schedule, Committed
  <1>6. CASE action = "release.deployment_started"
    BY <1>6 DEF Lifecycle!Next, Lifecycle!DeployNow, Committed
  <1>7. CASE action = "release.deployed"
    BY <1>7 DEF Lifecycle!Next, Lifecycle!Complete, Committed
  <1>8. CASE action = "release.failed"
    BY <1>8 DEF Lifecycle!Next, Lifecycle!Fail, Committed
  <1>9. CASE action = "release.rolled_back"
    BY <1>9 DEF Lifecycle!Next, Lifecycle!Rollback, Committed
  <1>10. CASE action = "release.cancelled"
    BY <1>10 DEF Lifecycle!Next, Lifecycle!Cancel, Committed
  <1>11. CASE action = "release.created"
    BY <1>11
  <1> QED
    BY <1>1, <1>2, <1>3, <1>4, <1>5, <1>6, <1>7, <1>8, <1>9, <1>10, <1>11

(***************************************************************************)
(* A commit is a step of the lifecycle: an Activate when it writes several *)
(* releases, the action of its one change otherwise.                       *)
(***************************************************************************)
LEMMA CommitIsStep ==
  ASSUME WorkflowInv, NEW p \in Processes, Commit(p)
  PROVE  Lifecycle!Next
  <1>1. CASE \E r, s \in Loaded(p) : r # s
    <2>1. \A r \in Loaded(p) :
             /\ txn[p].write[r].action = "release.deployment_started"
             /\ txn[p].write[r].seen.status = "scheduled"
      BY <1>1 DEF WorkflowInv, SessionsAreLegal, OnlyBatchesAreLarge
    <2>2. \A r \in Loaded(p) : r \in Releases /\ row[r].status = "scheduled"
      BY <2>1, CommitRow DEF Loaded
    <2>3. StatusAfter["release.deployment_started"] = "deploying"
      BY DEF StatusAfter
    <2>4. Committed' = [ r \in Releases |-> IF r \in Loaded(p)
                                            THEN "deploying"
                                            ELSE Committed[r] ]
      BY <2>1, <2>3, CommitStatus
    <2>5. PICK batch \in SUBSET Releases : batch = Loaded(p)
      BY DEF Loaded
    <2>6. Lifecycle!Activate(batch)
      BY <2>2, <2>4, <2>5 DEF Lifecycle!Activate, Committed
    <2> QED
      BY <2>6 DEF Lifecycle!Next
  <1>2. CASE ~ \E r, s \in Loaded(p) : r # s
    <2>1. PICK r \in Loaded(p) : TRUE
      BY DEF Commit
    <2>2. Loaded(p) = { r }
      BY <1>2, <2>1
    <2> DEFINE action == txn[p].write[r].action
    <2>3. /\ r \in Releases /\ action \in Actions
          /\ Committed[r] \in AllowedFrom[action]
          /\ Committed' = [ x \in Releases |->
                 IF x \in Loaded(p) THEN StatusAfter[txn[p].write[x].action]
                                    ELSE Committed[x] ]
      BY <2>1, CommitStatus
    <2>4. Committed' = [Committed EXCEPT ![r] = StatusAfter[action]]
      BY <2>2, <2>3 DEF Committed
    <2>5. ChangeIsLegal(p, r)
      BY <2>1 DEF WorkflowInv, SessionsAreLegal
    <2>6. /\ action = "release.submitted" => NeedsApproval[r]
          /\ action = "release.auto_approved" => ~NeedsApproval[r]
      BY <2>5 DEF ChangeIsLegal
    <2> HIDE DEF action
    <2> QED
      BY <2>3, <2>4, <2>6, ActionIsStep
  <1> QED
    BY <1>1, <1>2

(***************************************************************************)
(* The service implements the lifecycle: every step of every interleaving  *)
(* of requests, scheduler runs, refusals and crashes, on a database that   *)
(* honours FOR UPDATE or does not, takes the committed statuses along one  *)
(* edge of the state machine or leaves them alone.                         *)
(***************************************************************************)
THEOREM Refinement == Spec => ImplementsLifecycle
  <1>1. Init => Lifecycle!Init
    BY DEF Init, Lifecycle!Init
  <1>2. WorkflowInv /\ [Next]_vars => [Lifecycle!Next]_Committed
    <2> SUFFICES ASSUME WorkflowInv, [Next]_vars
                 PROVE  Lifecycle!Next \/ UNCHANGED Committed
      OBVIOUS
    <2>1. CASE UNCHANGED database
      BY <2>1 DEF database, Committed
    <2>2. ASSUME NEW p \in Processes, Commit(p)
          PROVE  Lifecycle!Next
      BY <2>2, CommitIsStep
    <2> QED
      BY <2>1, <2>2, OnlyCommitWrites
  <1>3. WorkflowInv /\ [Next]_vars =>
          [Lifecycle!Next]_([ r \in Releases |-> row[r].status ])
    BY <1>2 DEF Committed
  <1> QED
    BY <1>1, <1>3, WorkflowInvariant, PTL
       DEF Spec, ImplementsLifecycle, Lifecycle!Spec

-----------------------------------------------------------------------------
(***************************************************************************)
(* The history.                                                            *)
(***************************************************************************)
LEMMA CommitHistory ==
  ASSUME WorkflowInv, HistoryComplete, NEW p \in Processes, Commit(p),
         NEW r \in Loaded(p)
  PROVE  EveryVersionAudited(r)' /\ EveryAuditPublished(r)'
           /\ EveryReviewAudited(r)'
  <1> DEFINE n == Len(audit[r])
             change == txn[p].write[r]
  <1>1. /\ r \in Releases
        /\ audit[r] \in Seq(AuditEvent) /\ outbox[r] \in Seq(OutboxEvent)
        /\ AuditRow(p, r) \in AuditEvent /\ OutboxRow(p, r) \in OutboxEvent
    BY CommitRows DEF WorkflowInv, TypeOK
  <1>2. /\ EveryVersionAudited(r) /\ EveryAuditPublished(r)
        /\ EveryReviewAudited(r)
    BY <1>1 DEF HistoryComplete
  <1>3. n \in Nat
    BY <1>1
  <1>4. audit'[r] = Append(audit[r], AuditRow(p, r))
    BY <1>1 DEF Commit
  <1>5. outbox'[r] = Append(outbox[r], OutboxRow(p, r))
    BY <1>1 DEF Commit
  <1>6. approvals'[r] = approvals[r] \cup NewApprovals(p, r)
    BY <1>1 DEF Commit
  <1>7. /\ Len(audit'[r]) = n + 1
        /\ \A i \in 1..n : audit'[r][i] = audit[r][i]
        /\ audit'[r][n + 1] = AuditRow(p, r)
    BY <1>1, <1>4, AppendProperties
  <1>8. /\ Len(outbox'[r]) = n + 1
        /\ \A i \in 1..n : outbox'[r][i] = outbox[r][i]
        /\ outbox'[r][n + 1] = OutboxRow(p, r)
    BY <1>1, <1>2, <1>5, AppendProperties DEF EveryAuditPublished
  <1>9. change.new.status = StatusAfter[change.action]
    BY DEF WorkflowInv, SessionsAreLegal, ChangeIsLegal
  <1> HIDE DEF n
  <1>10. EveryVersionAudited(r)'
    <2>1. /\ row'[r] = change.new
          /\ row'[r].lock_version = row[r].lock_version + 1
      BY CommitRow
    <2>2. row'[r].lock_version = n + 1
      BY <1>2, <2>1 DEF EveryVersionAudited, n
    <2>3. audit'[r][n + 1].action = change.action
      BY <1>7 DEF AuditRow
    <2> QED
      BY <1>7, <1>9, <2>1, <2>2, <2>3 DEF EveryVersionAudited
  <1>11. EveryAuditPublished(r)'
    <2> SUFFICES ASSUME NEW i \in 1..(n + 1)
                 PROVE  outbox'[r][i] =
                          [ event_type |-> audit'[r][i].action,
                            status |-> StatusAfter[audit'[r][i].action],
                            created_at |-> audit'[r][i].created_at ]
      BY <1>7, <1>8 DEF EveryAuditPublished
    <2>1. CASE i = n + 1
      BY <1>7, <1>8, <1>9, <2>1 DEF AuditRow, OutboxRow
    <2>2. CASE i # n + 1
      <3>1. i \in 1..n
        BY <1>3, <2>2
      <3>2. outbox[r][i] = [ event_type |-> audit[r][i].action,
                             status |-> StatusAfter[audit[r][i].action],
                             created_at |-> audit[r][i].created_at ]
        BY <1>2, <3>1 DEF EveryAuditPublished, n
      <3> QED
        BY <1>7, <1>8, <3>1, <3>2
    <2> QED
      BY <2>1, <2>2
  <1>12. EveryReviewAudited(r)'
    <2> DEFINE reviews(h, m) ==
                 { Review(h[i]) :
                     i \in { j \in 1..m : h[j].action \in Reviews } }
    <2>1. approvals[r] = reviews(audit[r], n)
      BY <1>2 DEF EveryReviewAudited, n
    <2>2. NewApprovals(p, r) = IF audit'[r][n + 1].action \in Reviews
                               THEN { Review(audit'[r][n + 1]) } ELSE {}
      BY <1>7 DEF NewApprovals, AuditRow, Review
    <2>3. 1..(n + 1) = (1..n) \cup { n + 1 }
      BY <1>3
    <2>4. reviews(audit'[r], n + 1) =
            reviews(audit[r], n) \cup NewApprovals(p, r)
      BY <1>7, <2>2, <2>3
    <2> QED
      BY <1>6, <1>7, <2>1, <2>4 DEF EveryReviewAudited
  <1> QED
    BY <1>10, <1>11, <1>12

(***************************************************************************)
(* The history is complete: in every reachable state the audit rows of a   *)
(* release account for each version of its row, for its status and for its *)
(* approvals, and each has its outbox row.                                 *)
(***************************************************************************)
THEOREM HistoryIsComplete == Spec => []HistoryComplete
  <1>1. Init => HistoryComplete
    <2> SUFFICES ASSUME Init, NEW r \in Releases
                 PROVE  EveryVersionAudited(r) /\ EveryAuditPublished(r)
                          /\ EveryReviewAudited(r)
      BY DEF HistoryComplete
    <2>1. /\ row[r].lock_version = 1 /\ row[r].status = "draft"
          /\ approvals[r] = {}
          /\ audit[r] = << [ action |-> "release.created",
                             actor |-> Creator[r], created_at |-> 0 ] >>
          /\ outbox[r] = << [ event_type |-> "release.created",
                              status |-> "draft", created_at |-> 0 ] >>
      BY DEF Init
    <2>2. /\ Len(audit[r]) = 1 /\ audit[r][1].action = "release.created"
          /\ audit[r][1].created_at = 0
          /\ Len(outbox[r]) = 1
          /\ outbox[r][1] = [ event_type |-> "release.created",
                              status |-> "draft", created_at |-> 0 ]
      BY <2>1
    <2>3. /\ StatusAfter["release.created"] = "draft"
          /\ "release.created" \notin Reviews
      BY DEF StatusAfter, Reviews
    <2>4. EveryVersionAudited(r)
      BY <2>1, <2>2, <2>3 DEF EveryVersionAudited
    <2>5. EveryAuditPublished(r)
      BY <2>2, <2>3 DEF EveryAuditPublished
    <2>6. EveryReviewAudited(r)
      BY <2>1, <2>2, <2>3 DEF EveryReviewAudited
    <2> QED
      BY <2>4, <2>5, <2>6
  <1>2. WorkflowInv /\ HistoryComplete /\ [Next]_vars => HistoryComplete'
    <2> SUFFICES ASSUME WorkflowInv, HistoryComplete, [Next]_vars,
                        NEW r \in Releases
                 PROVE  EveryVersionAudited(r)' /\ EveryAuditPublished(r)'
                          /\ EveryReviewAudited(r)'
      BY DEF HistoryComplete
    <2>1. ASSUME UNCHANGED << row[r], approvals[r], audit[r], outbox[r] >>
          PROVE  EveryVersionAudited(r)' /\ EveryAuditPublished(r)'
                   /\ EveryReviewAudited(r)'
      BY <2>1 DEF HistoryComplete, EveryVersionAudited, EveryAuditPublished,
                  EveryReviewAudited
    <2>2. CASE UNCHANGED database
      BY <2>1, <2>2 DEF database
    <2>3. ASSUME NEW p \in Processes, Commit(p), r \in Loaded(p)
          PROVE  EveryVersionAudited(r)' /\ EveryAuditPublished(r)'
                   /\ EveryReviewAudited(r)'
      BY <2>3, CommitHistory
    <2>4. ASSUME NEW p \in Processes, Commit(p), r \notin Loaded(p)
          PROVE  UNCHANGED << row[r], approvals[r], audit[r], outbox[r] >>
      BY <2>4 DEF Commit
    <2> QED
      BY <2>1, <2>2, <2>3, <2>4, OnlyCommitWrites
  <1> QED
    BY <1>1, <1>2, WorkflowInvariant, PTL DEF Spec

-----------------------------------------------------------------------------
(***************************************************************************)
(* The approval gate.                                                      *)
(***************************************************************************)
ReleaseGate(r) ==
    NeedsApproval[r] =>
        /\ \A i \in 1..Len(audit[r]) :
              audit[r][i].action \in PastGate => ApprovedBefore(r, i)
        /\ row[r].status \in { "approved", "scheduled" }
              => ApprovedBefore(r, Len(audit[r]) + 1)
        /\ row[r].status \in { "draft", "pending_approval", "rejected" }
              => \A i \in 1..Len(audit[r]) : audit[r][i].action \notin PastGate

(***************************************************************************)
(* The gate invariant, release by release.                                 *)
(***************************************************************************)
LEMMA GateByRelease == GateInv <=> \A r \in Releases : ReleaseGate(r)
  BY DEF GateInv, ApprovalGate, ReleaseGate

(***************************************************************************)
(* Which actions lead to which statuses, and from which.                   *)
(***************************************************************************)
LEMMA GateActions ==
  ASSUME NEW action \in Actions, NEW from \in AllowedFrom[action]
  PROVE  /\ action \in PastGate => from \in { "approved", "scheduled" }
         /\ StatusAfter[action] = "approved" =>
              \/ action = "release.approved" /\ from = "pending_approval"
              \/ action = "release.auto_approved"
         /\ StatusAfter[action] = "scheduled" =>
              action = "release.scheduled" /\ from = "approved"
         /\ StatusAfter[action] \in { "draft", "pending_approval", "rejected" }
              => /\ action \notin PastGate
                 /\ from \in { "draft", "pending_approval", "rejected" }
         /\ action = "release.approved" => from = "pending_approval"
         /\ action = "release.approved" => action \in Reviews
  BY DEF Actions, AllowedFrom, StatusAfter, PastGate, Reviews

(***************************************************************************)
(* A commit keeps the gate of each release it writes.                      *)
(***************************************************************************)
LEMMA CommitGate ==
  ASSUME WorkflowInv, NEW p \in Processes, Commit(p),
         NEW r \in Loaded(p), ReleaseGate(r), NeedsApproval[r]
  PROVE  ReleaseGate(r)'
  <1> DEFINE action == txn[p].write[r].action
             actor == txn[p].actor
  <1>1. /\ r \in Releases /\ audit[r] \in Seq(AuditEvent)
        /\ AuditRow(p, r) \in AuditEvent /\ action \in Actions
    BY CommitRows DEF WorkflowInv, TypeOK, Change
  <1>2. PICK n \in Nat : n = Len(audit[r])
    BY <1>1
  <1>3. audit'[r] = Append(audit[r], AuditRow(p, r))
    BY <1>1 DEF Commit
  <1>4. /\ Len(audit'[r]) = n + 1
        /\ \A i \in 1..n : audit'[r][i] = audit[r][i]
        /\ audit'[r][n + 1].action = action
        /\ audit'[r][n + 1].actor = actor
    BY <1>1, <1>2, <1>3, AppendProperties DEF AuditRow
  <1>5. ChangeIsLegal(p, r)
    BY DEF WorkflowInv, SessionsAreLegal
  <1>6. /\ row'[r].status = StatusAfter[action]
        /\ row[r].status \in AllowedFrom[action]
        /\ row'[r].approved_by = IF action = "release.approved"
                                 THEN actor ELSE row[r].approved_by
        /\ action # "release.auto_approved"
        /\ action \in Reviews => actor \in Users /\ Independent(actor, r)
    BY <1>5, CommitRow DEF ChangeIsLegal
  <1> HIDE DEF action, actor
  <1>7. ASSUME NEW i \in 1..(n + 1), ApprovedBefore(r, i),
               action # "release.approved"
        PROVE  ApprovedBefore(r, i)'
    <2>1. PICK j \in 1..(i - 1) :
             /\ audit[r][j].action = "release.approved"
             /\ audit[r][j].actor = row[r].approved_by
             /\ audit[r][j].actor \in Users
             /\ Independent(audit[r][j].actor, r)
             /\ \A k \in j..(i - 1) : audit[r][k].action # "release.submitted"
      BY <1>7 DEF ApprovedBefore
    <2>2. \A k \in j..(i - 1) : audit'[r][k] = audit[r][k]
      BY <1>2, <1>4
    <2>3. audit'[r][j] = audit[r][j]
      BY <1>2, <2>2
    <2>4. row'[r].approved_by = row[r].approved_by
      BY <1>6, <1>7
    <2> QED
      BY <2>1, <2>2, <2>3, <2>4 DEF ApprovedBefore, Independent
  <1>8. row[r].status \in { "approved", "scheduled" }
          => ApprovedBefore(r, n + 1)
    BY <1>2 DEF ReleaseGate
  <1>9. row[r].status \in { "draft", "pending_approval", "rejected" }
          => \A i \in 1..n : audit[r][i].action \notin PastGate
    BY <1>2 DEF ReleaseGate
  <1>10. \A i \in 1..(n + 1) :
            audit'[r][i].action \in PastGate => ApprovedBefore(r, i)'
    <2> SUFFICES ASSUME NEW i \in 1..(n + 1),
                        audit'[r][i].action \in PastGate
                 PROVE  ApprovedBefore(r, i)'
      OBVIOUS
    <2>1. CASE action = "release.approved"
      <3>1. /\ row[r].status = "pending_approval"
            /\ action \notin PastGate
        BY <1>1, <1>6, <2>1, GateActions DEF PastGate
      <3>2. i \in 1..n
        BY <1>2, <1>4, <3>1
      <3> QED
        BY <1>4, <1>9, <3>1, <3>2
    <2>2. CASE action # "release.approved"
      <3>1. CASE i = n + 1
        <4>1. row[r].status \in { "approved", "scheduled" }
          BY <1>1, <1>4, <1>6, <3>1, GateActions
        <4> QED
          BY <1>7, <1>8, <2>2, <3>1, <4>1
      <3>2. CASE i # n + 1
        <4>1. i \in 1..n
          BY <1>2, <3>2
        <4>2. ApprovedBefore(r, i)
          BY <1>2, <1>4, <4>1 DEF ReleaseGate
        <4> QED
          BY <1>7, <2>2, <4>2
      <3> QED
        BY <3>1, <3>2
    <2> QED
      BY <2>1, <2>2
  <1>11. ASSUME row'[r].status \in { "approved", "scheduled" }
         PROVE  ApprovedBefore(r, n + 2)'
    <2>1. CASE action = "release.approved"
      <3>1. actor \in Users /\ Independent(actor, r)
        BY <1>1, <1>6, <2>1, GateActions
      <3>2. /\ audit'[r][n + 1].action = "release.approved"
            /\ audit'[r][n + 1].actor = row'[r].approved_by
            /\ audit'[r][n + 1].actor \in Users
            /\ Independent(audit'[r][n + 1].actor, r)
        BY <1>4, <1>6, <2>1, <3>1
      <3>3. n + 1 \in 1..((n + 2) - 1)
        BY <1>2
      <3>4. \A k \in (n + 1)..((n + 2) - 1) :
               audit'[r][k].action # "release.submitted"
        BY <1>2, <3>2
      <3> QED
        BY <3>2, <3>3, <3>4 DEF ApprovedBefore, Independent
    <2>2. CASE action # "release.approved"
      <3>1. action = "release.scheduled" /\ row[r].status = "approved"
        BY <1>1, <1>6, <1>11, <2>2, GateActions
      <3>2. ApprovedBefore(r, n + 1)'
        BY <1>2, <1>7, <1>8, <2>2, <3>1
      <3>3. PICK j \in 1..((n + 1) - 1) :
               /\ audit'[r][j].action = "release.approved"
               /\ audit'[r][j].actor = row'[r].approved_by
               /\ audit'[r][j].actor \in Users
               /\ Independent(audit'[r][j].actor, r)
               /\ \A k \in j..((n + 1) - 1) :
                     audit'[r][k].action # "release.submitted"
        BY <3>2 DEF ApprovedBefore, Independent
      <3>4. j \in 1..((n + 2) - 1)
        BY <1>2
      <3>5. \A k \in j..((n + 2) - 1) :
               audit'[r][k].action # "release.submitted"
        BY <1>2, <1>4, <3>1, <3>3
      <3> QED
        BY <3>3, <3>4, <3>5 DEF ApprovedBefore, Independent
    <2> QED
      BY <2>1, <2>2
  <1>12. row'[r].status \in { "draft", "pending_approval", "rejected" }
           => \A i \in 1..(n + 1) : audit'[r][i].action \notin PastGate
    <2> SUFFICES ASSUME row'[r].status \in
                           { "draft", "pending_approval", "rejected" },
                        NEW i \in 1..(n + 1)
                 PROVE  audit'[r][i].action \notin PastGate
      OBVIOUS
    <2>1. StatusAfter[action] \in { "draft", "pending_approval", "rejected" }
      BY <1>6
    <2>2. /\ action \notin PastGate
          /\ row[r].status \in { "draft", "pending_approval", "rejected" }
      BY <1>1, <1>6, <2>1, GateActions
    <2>3. CASE i = n + 1
      BY <1>4, <2>2, <2>3
    <2>4. CASE i # n + 1
      <3>1. i \in 1..n
        BY <1>2, <2>4
      <3> QED
        BY <1>4, <1>9, <2>2, <3>1
    <2> QED
      BY <2>3, <2>4
  <1>13. (n + 1) + 1 = n + 2
    BY <1>2
  <1> QED
    BY <1>4, <1>10, <1>11, <1>12, <1>13 DEF ReleaseGate

(***************************************************************************)
(* A release that may pass the gate has its approval in the history, and   *)
(* one that may still be reviewed has never passed it.                     *)
(***************************************************************************)
THEOREM GateInvariant == Spec => []GateInv
  <1>1. Init => GateInv
    <2> SUFFICES ASSUME Init, NEW r \in Releases
                 PROVE  ReleaseGate(r)
      BY GateByRelease
    <2>1. /\ row[r].status = "draft"
          /\ Len(audit[r]) = 1 /\ audit[r][1].action = "release.created"
      BY DEF Init
    <2>2. "release.created" \notin PastGate
      BY DEF PastGate
    <2> QED
      BY <2>1, <2>2 DEF ReleaseGate
  <1>2. WorkflowInv /\ GateInv /\ [Next]_vars => GateInv'
    <2> SUFFICES ASSUME WorkflowInv, GateInv, [Next]_vars, NEW r \in Releases
                 PROVE  ReleaseGate(r)'
      BY DEF GateInv, ApprovalGate, ReleaseGate
    <2>1. ReleaseGate(r)
      BY GateByRelease
    <2>2. ASSUME UNCHANGED << row[r], audit[r] >>
          PROVE  ReleaseGate(r)'
      BY <2>1, <2>2 DEF ReleaseGate, ApprovedBefore, Independent
    <2>3. CASE UNCHANGED database
      BY <2>2, <2>3 DEF database
    <2>4. ASSUME NEW p \in Processes, Commit(p), r \in Loaded(p)
          PROVE  ReleaseGate(r)'
      BY <2>1, <2>4, CommitGate DEF ReleaseGate
    <2>5. ASSUME NEW p \in Processes, Commit(p), r \notin Loaded(p)
          PROVE  UNCHANGED << row[r], audit[r] >>
      BY <2>5 DEF Commit
    <2> QED
      BY <2>2, <2>3, <2>4, <2>5, OnlyCommitWrites
  <1> QED
    BY <1>1, <1>2, WorkflowInvariant, PTL DEF Spec

(***************************************************************************)
(* Where an environment requires approval, no release is ever scheduled or *)
(* deployed that was not approved since it was last submitted, by a        *)
(* reviewer other than its creator or by an admin, who is the approved_by  *)
(* of the row: for any number of resubmissions, users and requests.        *)
(***************************************************************************)
THEOREM GateIsKept == Spec => []ApprovalGate
  <1>1. GateInv => ApprovalGate
    BY DEF GateInv
  <1> QED
    BY <1>1, GateInvariant, PTL
=============================================================================
