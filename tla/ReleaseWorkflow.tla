-------------------------- MODULE ReleaseWorkflow --------------------------
(***************************************************************************)
(* The transitions of a release as API requests and the activation task of *)
(* the worker run them, concurrently, against one database.                *)
(*                                                                         *)
(* Every request is one database transaction.  get_current_user begins it  *)
(* (Begin); the service function then reads the release with FOR UPDATE,   *)
(* checks its guards and assigns the new values in the session (one action *)
(* per function of app/services/releases.py); the flush and the commit     *)
(* write the release, the approval, the audit row and the outbox row at    *)
(* once (Commit), provided that the row still has the lock_version that    *)
(* was read (otherwise StaleDataError).  The activation task does the same *)
(* for a batch of due releases (SelectDue).  A refusal by a guard, a lost  *)
(* client and a crash all end the transaction with nothing written (Abort).*)
(***************************************************************************)
EXTENDS Naturals, Sequences, FiniteSets

CONSTANTS
    Users,           \* the users that send requests
    Role,            \* [Users -> Roles], User.role
    Releases,        \* the releases, all of them already created
    Creator,         \* [Releases -> Users], Release.created_by
    NeedsApproval,   \* [Releases -> BOOLEAN], Environment.requires_approval
    Requests,        \* the requests the API serves at the same time
    Workers,         \* the runs of activate_due_releases at the same time
    RowLocks,        \* TRUE when the database honours FOR UPDATE (PostgreSQL),
                     \* FALSE when it ignores it (SQLite, as in the tests)
    BatchLimit,      \* LIMIT of the activation query, 50 in the code
    NoUser,          \* actor of the scheduler, approved_by of a new release
    NoTime,          \* NULL in a column that holds a time
    NoChange,        \* what a session holds of a release it has not loaded
    MaxTime,         \* bound: the clock stops here
    ResubmitBound    \* bound: no resubmission from this lock_version on

Roles == { "developer", "reviewer", "admin" }

Decisions == { "approved", "rejected" }

Processes == Requests \cup Workers

ASSUME UsersAssumption ==
    /\ Role \in [Users -> Roles]
    /\ NoUser \notin Users
    /\ NoTime \notin Nat

ASSUME ReleasesAssumption ==
    /\ Creator \in [Releases -> Users]
    /\ NeedsApproval \in [Releases -> BOOLEAN]

ASSUME ProcessesAssumption ==
    /\ Requests \cap Workers = {}
    /\ RowLocks \in BOOLEAN
    /\ BatchLimit \in Nat \ {0}

ASSUME BoundsAssumption ==
    /\ MaxTime \in Nat
    /\ ResubmitBound \in Nat

VARIABLES
    row,         \* the committed rows of table releases
    approvals,   \* the committed (reviewer, decision) pairs of release_approvals
    audit,       \* the committed rows of audit_events, in commit order
    outbox,      \* the committed rows of outbox_events, in commit order
    txn,         \* the transaction of each process
    now          \* the clock of the database and of the services

database == << row, approvals, audit, outbox >>

vars == << row, approvals, audit, outbox, txn, now >>

-----------------------------------------------------------------------------
(***************************************************************************)
(* Rows, events and transactions.                                          *)
(***************************************************************************)

Statuses ==
    { "draft", "pending_approval", "approved", "rejected", "scheduled",
      "deploying", "deployed", "failed", "rolled_back", "cancelled" }

(***************************************************************************)
(* The status a release has once the action has been recorded for it.      *)
(***************************************************************************)
StatusAfter ==
    [ action \in { "release.created", "release.submitted",
                   "release.auto_approved", "release.approved",
                   "release.rejected", "release.scheduled",
                   "release.deployment_started", "release.deployed",
                   "release.failed", "release.rolled_back",
                   "release.cancelled" } |->
        CASE action = "release.created"            -> "draft"
          [] action = "release.submitted"          -> "pending_approval"
          [] action = "release.auto_approved"      -> "approved"
          [] action = "release.approved"           -> "approved"
          [] action = "release.rejected"           -> "rejected"
          [] action = "release.scheduled"          -> "scheduled"
          [] action = "release.deployment_started" -> "deploying"
          [] action = "release.deployed"           -> "deployed"
          [] action = "release.failed"             -> "failed"
          [] action = "release.rolled_back"        -> "rolled_back"
          [] action = "release.cancelled"          -> "cancelled" ]

Actions == DOMAIN StatusAfter

Reviews == { "release.approved", "release.rejected" }

Times == Nat \cup { NoTime }

Row ==
    [ status : Statuses, scheduled_at : Times, deployed_at : Times,
      approved_by : Users \cup { NoUser }, lock_version : Nat ]

Approval == [ reviewer : Users, decision : Decisions ]

AuditEvent ==
    [ action : Actions, actor : Users \cup { NoUser }, created_at : Nat ]

OutboxEvent ==
    [ event_type : Actions, status : Statuses, created_at : Nat ]

(***************************************************************************)
(* What a session holds of a release: the row as it was read, the row as   *)
(* the flush will write it, and the action it will record.                 *)
(***************************************************************************)
Change == [ seen : Row, new : Row, action : Actions ]

Transaction ==
    [ open : BOOLEAN, actor : Users \cup { NoUser }, began : Nat,
      write : [Releases -> Change \cup { NoChange }] ]

ASSUME ChangeAssumption == NoChange \notin Change

NoWrites == [ r \in Releases |-> NoChange ]

Closed == [ open |-> FALSE, actor |-> NoUser, began |-> 0,
            write |-> NoWrites ]

Loaded(p) == { r \in Releases : txn[p].write[r] # NoChange }

IsAdmin(u) == Role[u] = "admin"

NeverLocked(r) == FALSE            \* fault: get_release without for_update

Locked(r) == RowLocks /\ \E p \in Processes : r \in Loaded(p)

-----------------------------------------------------------------------------
(***************************************************************************)
(* A request q of the user u is authenticated: reading the user begins the *)
(* transaction, and with it the value of now() in the database.            *)
(***************************************************************************)
Begin(q, u) ==
    /\ ~txn[q].open
    /\ txn' = [txn EXCEPT ![q] = [ open |-> TRUE, actor |-> u,
                                   began |-> now, write |-> NoWrites ]]
    /\ UNCHANGED << database, now >>

(***************************************************************************)
(* get_release(..., for_update=True): the request q has loaded nothing yet *)
(* and waits until no other transaction holds the row.                     *)
(***************************************************************************)
CanLoad(q, r) ==
    /\ txn[q].open
    /\ Loaded(q) = {}
    /\ ~Locked(r)

(***************************************************************************)
(* The session of p holds row[r] with the values of new; the flush will    *)
(* write it with the next lock_version.                                    *)
(***************************************************************************)
Held(r, new, action) ==
    [ seen |-> row[r],
      new |-> [new EXCEPT !.lock_version = row[r].lock_version + 1],
      action |-> action ]

Stage(q, r, new, action) ==
    /\ txn' = [txn EXCEPT ![q].write[r] = Held(r, new, action)]
    /\ UNCHANGED << database, now >>

CreatorOrAdmin(q, r) ==
    Creator[r] = txn[q].actor \/ IsAdmin(txn[q].actor)

SubmitRelease(q, r) ==
    /\ CanLoad(q, r)
    /\ CreatorOrAdmin(q, r)
    /\ row[r].status \in { "draft", "rejected" }
    /\ row[r].status = "rejected" => row[r].lock_version < ResubmitBound
    /\ \/ /\ NeedsApproval[r]
          /\ Stage(q, r, [row[r] EXCEPT !.status = "pending_approval"],
                   "release.submitted")
       \/ /\ ~NeedsApproval[r]
          /\ Stage(q, r, [row[r] EXCEPT !.status = "approved"],
                   "release.auto_approved")

(***************************************************************************)
(* review_release, for either decision: a reviewer may not decide on a     *)
(* release of its own, an admin may.                                       *)
(***************************************************************************)
AnyReviewerMay(q, r) ==            \* fault: four-eyes check forgotten
    /\ Role[txn[q].actor] \in { "reviewer", "admin" }
    /\ row[r].status = "pending_approval"

MayReview(q, r) ==
    /\ Role[txn[q].actor] \in { "reviewer", "admin" }
    /\ row[r].status = "pending_approval"
    /\ Creator[r] # txn[q].actor \/ IsAdmin(txn[q].actor)

ApproveRelease(q, r) ==
    /\ CanLoad(q, r)
    /\ MayReview(q, r)
    /\ Stage(q, r, [row[r] EXCEPT !.status = "approved",
                                  !.approved_by = txn[q].actor],
             "release.approved")

RejectRelease(q, r) ==
    /\ CanLoad(q, r)
    /\ MayReview(q, r)
    /\ Stage(q, r, [row[r] EXCEPT !.status = "rejected"], "release.rejected")

ScheduleRelease(q, r) ==
    /\ CanLoad(q, r)
    /\ CreatorOrAdmin(q, r)
    /\ row[r].status = "approved"
    /\ \E t \in 0..MaxTime :
          /\ t > now
          /\ Stage(q, r, [row[r] EXCEPT !.status = "scheduled",
                                        !.scheduled_at = t],
                   "release.scheduled")

AlwaysDue(r) == TRUE               \* fault: scheduled_at not compared

IsDue(r) == row[r].scheduled_at # NoTime => row[r].scheduled_at <= now

StartDeployment(q, r) ==
    /\ CanLoad(q, r)
    /\ IsAdmin(txn[q].actor)
    /\ row[r].status \in { "approved", "scheduled" }
    /\ row[r].status = "scheduled" => IsDue(r)
    /\ Stage(q, r, [row[r] EXCEPT !.status = "deploying"],
             "release.deployment_started")

FinishDeployment(q, r) ==
    /\ CanLoad(q, r)
    /\ IsAdmin(txn[q].actor)
    /\ row[r].status = "deploying"
    /\ \/ Stage(q, r, [row[r] EXCEPT !.status = "deployed",
                                     !.deployed_at = now],
                "release.deployed")
       \/ Stage(q, r, [row[r] EXCEPT !.status = "failed"], "release.failed")

RollbackRelease(q, r) ==
    /\ CanLoad(q, r)
    /\ IsAdmin(txn[q].actor)
    /\ row[r].status = "deployed"
    /\ Stage(q, r, [row[r] EXCEPT !.status = "rolled_back"],
             "release.rolled_back")

CancelRelease(q, r) ==
    /\ CanLoad(q, r)
    /\ CreatorOrAdmin(q, r)
    /\ row[r].status \in { "draft", "pending_approval", "approved",
                           "rejected", "scheduled" }
    /\ Stage(q, r, [row[r] EXCEPT !.status = "cancelled"],
             "release.cancelled")

-----------------------------------------------------------------------------
(***************************************************************************)
(* A run w of _activate_due_releases: one query that locks at most         *)
(* BatchLimit due releases, in no given order, and leaves out those that   *)
(* another transaction has locked (SKIP LOCKED).                           *)
(***************************************************************************)
DueJustNow ==                      \* fault: = for <= in the query
    { r \in Releases : /\ row[r].status = "scheduled"
                       /\ row[r].scheduled_at = now
                       /\ ~Locked(r) }

DueReleases ==
    { r \in Releases : /\ row[r].status = "scheduled"
                       /\ row[r].scheduled_at # NoTime
                       /\ row[r].scheduled_at <= now
                       /\ ~Locked(r) }

SelectDue(w) ==
    /\ ~txn[w].open
    /\ \E batch \in SUBSET DueReleases :
          /\ batch # {}
          /\ Cardinality(batch) <= BatchLimit
          /\ \/ Cardinality(batch) = BatchLimit
             \/ batch = DueReleases
          /\ txn' = [txn EXCEPT ![w] =
                [ open |-> TRUE, actor |-> NoUser, began |-> now,
                  write |-> [ r \in Releases |->
                      IF r \in batch
                      THEN Held(r, [row[r] EXCEPT !.status = "deploying"],
                                "release.deployment_started")
                      ELSE NoChange ]]]
    /\ UNCHANGED << database, now >>

-----------------------------------------------------------------------------
(***************************************************************************)
(* The flush and the commit.  UPDATE releases ... WHERE lock_version =     *)
(* the version read: all rows match, or StaleDataError undoes everything.  *)
(***************************************************************************)
VersionUnchecked(p, r) == TRUE     \* fault: no version_id_col

VersionMatches(p, r) ==
    txn[p].write[r].seen.lock_version = row[r].lock_version

(***************************************************************************)
(* record_domain_event: one audit row and one outbox row per change.       *)
(* created_at is func.now(), the time at which the transaction began.      *)
(***************************************************************************)
UnstampedAuditRow(p, r) ==         \* fault: no server default
    [ action |-> txn[p].write[r].action, actor |-> txn[p].actor,
      created_at |-> NoTime ]

AuditRow(p, r) ==
    [ action |-> txn[p].write[r].action, actor |-> txn[p].actor,
      created_at |-> txn[p].began ]

OutboxRow(p, r) ==
    [ event_type |-> txn[p].write[r].action,
      status |-> txn[p].write[r].new.status, created_at |-> txn[p].began ]

OnlyApprovals(p, r) ==             \* fault: rejections not recorded
    IF txn[p].write[r].action = "release.approved"
    THEN { [ reviewer |-> txn[p].actor, decision |-> "approved" ] }
    ELSE {}

NewApprovals(p, r) ==
    IF txn[p].write[r].action \in Reviews
    THEN { [ reviewer |-> txn[p].actor,
             decision |-> StatusAfter[txn[p].write[r].action] ] }
    ELSE {}

Commit(p) ==
    /\ Loaded(p) # {}
    /\ \A r \in Loaded(p) : VersionMatches(p, r)
    /\ row' = [ r \in Releases |->
          IF r \in Loaded(p) THEN txn[p].write[r].new ELSE row[r] ]
    /\ approvals' = [ r \in Releases |->
          IF r \in Loaded(p) THEN approvals[r] \cup NewApprovals(p, r)
                             ELSE approvals[r] ]
    /\ audit' = [ r \in Releases |->
          IF r \in Loaded(p) THEN Append(audit[r], AuditRow(p, r))
                             ELSE audit[r] ]
    /\ outbox' = [ r \in Releases |->
          IF r \in Loaded(p) THEN Append(outbox[r], OutboxRow(p, r))
                             ELSE outbox[r] ]
    /\ txn' = [txn EXCEPT ![p] = Closed]
    /\ UNCHANGED now

StaleDataError(p) ==
    /\ \E r \in Loaded(p) : ~VersionMatches(p, r)
    /\ txn' = [txn EXCEPT ![p] = Closed]
    /\ UNCHANGED << database, now >>

(***************************************************************************)
(* The transaction ends with nothing written: the release does not exist,  *)
(* a guard raises ForbiddenError, InvalidTransitionError or ConflictError, *)
(* the client goes away, or the process dies.                              *)
(***************************************************************************)
Abort(p) ==
    /\ txn[p].open
    /\ txn' = [txn EXCEPT ![p] = Closed]
    /\ UNCHANGED << database, now >>

Tick ==
    /\ now < MaxTime
    /\ now' = now + 1
    /\ UNCHANGED << database, txn >>

-----------------------------------------------------------------------------

Init ==
    /\ row = [ r \in Releases |->
          [ status |-> "draft", scheduled_at |-> NoTime,
            deployed_at |-> NoTime, approved_by |-> NoUser,
            lock_version |-> 1 ] ]
    /\ approvals = [ r \in Releases |-> {} ]
    /\ audit = [ r \in Releases |->
          << [ action |-> "release.created", actor |-> Creator[r],
               created_at |-> 0 ] >> ]
    /\ outbox = [ r \in Releases |->
          << [ event_type |-> "release.created", status |-> "draft",
               created_at |-> 0 ] >> ]
    /\ txn = [ p \in Processes |-> Closed ]
    /\ now = 0

Handle(q, r) ==
    \/ SubmitRelease(q, r)
    \/ ApproveRelease(q, r)
    \/ RejectRelease(q, r)
    \/ ScheduleRelease(q, r)
    \/ StartDeployment(q, r)
    \/ FinishDeployment(q, r)
    \/ RollbackRelease(q, r)
    \/ CancelRelease(q, r)

End(p) == Commit(p) \/ StaleDataError(p) \/ Abort(p)

Next ==
    \/ \E q \in Requests, u \in Users : Begin(q, u)
    \/ \E q \in Requests, r \in Releases : Handle(q, r)
    \/ \E w \in Workers : SelectDue(w)
    \/ \E p \in Processes : End(p)
    \/ Tick

Spec == Init /\ [][Next]_vars

(***************************************************************************)
(* Time passes; a transaction that has written ends; Celery Beat sends the *)
(* activation task every 15 seconds for ever, so a run that finds a due    *)
(* release unlocked again and again takes it, and not every run of a       *)
(* worker dies before its commit.  Nothing forces a client to send a       *)
(* request.                                                                *)
(***************************************************************************)
Fairness ==
    /\ WF_vars(Tick)
    /\ \A q \in Requests : WF_vars(Loaded(q) # {} /\ End(q))
    /\ \A w \in Workers :
          /\ WF_vars(End(w))
          /\ SF_vars(Commit(w))
          /\ SF_vars(SelectDue(w))

FairSpec == Spec /\ Fairness

-----------------------------------------------------------------------------
(***************************************************************************)
(* Properties.                                                             *)
(***************************************************************************)

(***************************************************************************)
(* The columns, the events and the sessions have the types of app/models.  *)
(***************************************************************************)
TypeOK ==
    /\ row \in [Releases -> Row]
    /\ approvals \in [Releases -> SUBSET Approval]
    /\ audit \in [Releases -> Seq(AuditEvent)]
    /\ outbox \in [Releases -> Seq(OutboxEvent)]
    /\ txn \in [Processes -> Transaction]
    /\ now \in Nat

(***************************************************************************)
(* "Can an operator reconstruct the full history later?"  Whatever the     *)
(* transactions did to one another, the committed audit rows of a release  *)
(* account for every version of it and for the status it has; each has its *)
(* outbox row with the status of that moment; and the approvals are those  *)
(* the audit rows tell of.  (record_domain_event in the transaction of the *)
(* change.)                                                                *)
(***************************************************************************)
EveryVersionAudited(r) ==
    /\ Len(audit[r]) = row[r].lock_version
    /\ row[r].status = StatusAfter[audit[r][Len(audit[r])].action]

EveryAuditPublished(r) ==
    /\ Len(outbox[r]) = Len(audit[r])
    /\ \A i \in 1..Len(audit[r]) :
          outbox[r][i] = [ event_type |-> audit[r][i].action,
                           status |-> StatusAfter[audit[r][i].action],
                           created_at |-> audit[r][i].created_at ]

Review(event) ==
    [ reviewer |-> event.actor, decision |-> StatusAfter[event.action] ]

EveryReviewAudited(r) ==
    approvals[r] =
        { Review(audit[r][i]) :
            i \in { j \in 1..Len(audit[r]) : audit[r][j].action \in Reviews } }

HistoryComplete ==
    \A r \in Releases :
        /\ EveryVersionAudited(r)
        /\ EveryAuditPublished(r)
        /\ EveryReviewAudited(r)

(***************************************************************************)
(* The approval gate, over the whole history of a release: where the       *)
(* environment requires approval, no deployment has started that was not   *)
(* preceded by an approval of the current submission, given by a reviewer  *)
(* other than the creator or by an admin, who is the approved_by of the    *)
(* row.  (review_release, submit_release.)                                 *)
(***************************************************************************)
Independent(u, r) ==
    \/ Role[u] = "admin"
    \/ Role[u] = "reviewer" /\ u # Creator[r]

ApprovedBefore(r, i) ==
    \E j \in 1..(i - 1) :
        /\ audit[r][j].action = "release.approved"
        /\ audit[r][j].actor = row[r].approved_by
        /\ audit[r][j].actor \in Users
        /\ Independent(audit[r][j].actor, r)
        /\ \A k \in j..(i - 1) : audit[r][k].action # "release.submitted"

PastGate == { "release.scheduled", "release.deployment_started" }

ApprovalGate ==
    \A r \in Releases : NeedsApproval[r] =>
        \A i \in 1..Len(audit[r]) :
            audit[r][i].action \in PastGate => ApprovedBefore(r, i)

(***************************************************************************)
(* Where the database honours FOR UPDATE, what a session has read of a     *)
(* release is what the database holds until that session commits: no other *)
(* request and no worker changes it in between, so that StaleDataError     *)
(* cannot happen.  (get_release(for_update=True), SKIP LOCKED.)            *)
(***************************************************************************)
LockedRowIsCurrent ==
    RowLocks => \A p \in Processes : \A r \in Loaded(p) :
                    txn[p].write[r].seen = row[r]

(***************************************************************************)
(* The committed statuses move as ReleaseLifecycle says, with or without   *)
(* row locks: two requests, or a request and the scheduler, that race for  *)
(* a release never both win (a cancelled release is never deployed).       *)
(***************************************************************************)
Lifecycle ==
    INSTANCE ReleaseLifecycle
        WITH status <- [ r \in Releases |-> row[r].status ]

ImplementsLifecycle == Lifecycle!Spec

(***************************************************************************)
(* A scheduled release is never deployed early, neither by an admin nor by *)
(* the scheduler: when the deployment of a scheduled release is committed  *)
(* its time has come.  (start_deployment, _activate_due_releases.)         *)
(***************************************************************************)
NeverEarly ==
    [][ \A r \in Releases :
          row[r].status = "scheduled" /\ row'[r].status = "deploying"
              => row[r].scheduled_at \in Nat /\ row[r].scheduled_at <= now ]_vars

(***************************************************************************)
(* Every scheduled release is deployed or cancelled in the end, although   *)
(* the batch query skips locked rows, has a limit and has no ORDER BY.     *)
(***************************************************************************)
ScheduledIsActivated ==
    \A r \in Releases :
        row[r].status = "scheduled" ~> row[r].status # "scheduled"

(***************************************************************************)
(* What makes the properties above inductive.  A session holds either the  *)
(* committed row or an older version of it, and the change it will write   *)
(* is one that a service function makes of the row it has read.            *)
(***************************************************************************)
AllowedFrom ==
    [ action \in Actions |->
        CASE action \in { "release.submitted", "release.auto_approved" }
                -> { "draft", "rejected" }
          [] action \in Reviews -> { "pending_approval" }
          [] action = "release.scheduled" -> { "approved" }
          [] action = "release.deployment_started"
                -> { "approved", "scheduled" }
          [] action \in { "release.deployed", "release.failed" }
                -> { "deploying" }
          [] action = "release.rolled_back" -> { "deployed" }
          [] action = "release.cancelled"
                -> { "draft", "pending_approval", "approved", "rejected",
                     "scheduled" }
          [] action = "release.created" -> {} ]

SeenIsNotNewer(p, r) ==
    LET seen == txn[p].write[r].seen
    IN  /\ seen.lock_version <= row[r].lock_version
        /\ seen.lock_version = row[r].lock_version => seen = row[r]

ChangeIsLegal(p, r) ==
    LET actor == txn[p].actor
        seen == txn[p].write[r].seen
        new == txn[p].write[r].new
        action == txn[p].write[r].action
    IN  /\ seen.status \in AllowedFrom[action]
        /\ new.status = StatusAfter[action]
        /\ new.lock_version = seen.lock_version + 1
        /\ action = "release.submitted" => NeedsApproval[r]
        /\ action = "release.auto_approved" => ~NeedsApproval[r]
        /\ action \in Reviews => actor \in Users /\ Independent(actor, r)
        /\ new.approved_by = IF action = "release.approved"
                             THEN actor ELSE seen.approved_by
        /\ IF action = "release.scheduled"
           THEN new.scheduled_at \in Nat
           ELSE new.scheduled_at = seen.scheduled_at
        /\ (/\ action = "release.deployment_started"
            /\ seen.status = "scheduled"
            /\ seen.scheduled_at \in Nat) => seen.scheduled_at <= now

(***************************************************************************)
(* Only the scheduler holds more than one release.                         *)
(***************************************************************************)
OnlyBatchesAreLarge(p) ==
    \A r, s \in Loaded(p) : r # s =>
        /\ txn[p].write[r].action = "release.deployment_started"
        /\ txn[p].write[r].seen.status = "scheduled"

SessionsAreLegal ==
    \A p \in Processes :
        /\ OnlyBatchesAreLarge(p)
        /\ \A r \in Loaded(p) : SeenIsNotNewer(p, r) /\ ChangeIsLegal(p, r)

ScheduledHasTime ==
    \A r \in Releases :
        row[r].status = "scheduled" => row[r].scheduled_at \in Nat

RequestsHaveActor == \A q \in Requests : txn[q].open => txn[q].actor \in Users

WorkflowInv ==
    /\ TypeOK
    /\ RequestsHaveActor
    /\ SessionsAreLegal
    /\ ScheduledHasTime

(***************************************************************************)
(* The approval gate as it holds after every step: the approval of a       *)
(* release that may be scheduled or deployed is in its history already,    *)
(* and a release that can still be reviewed has never passed the gate.     *)
(***************************************************************************)
GateInv ==
    /\ ApprovalGate
    /\ \A r \in Releases : NeedsApproval[r] =>
          /\ row[r].status \in { "approved", "scheduled" }
                => ApprovedBefore(r, Len(audit[r]) + 1)
          /\ row[r].status \in { "draft", "pending_approval", "rejected" }
                => \A i \in 1..Len(audit[r]) : audit[r][i].action \notin PastGate

LocksExclude ==
    RowLocks => \A p, q \in Processes :
                    p # q => Loaded(p) \cap Loaded(q) = {}

LockInv == WorkflowInv /\ LocksExclude /\ LockedRowIsCurrent

(***************************************************************************)
(* README.md:23 and :61: the timestamps of the audit rows give the order   *)
(* of the history.  The code does not keep this promise: created_at is the *)
(* time at which the transaction began, before it waited for the row.      *)
(***************************************************************************)
HistoryByTimestamp ==
    \A r \in Releases : \A i, j \in DOMAIN audit[r] :
        i < j => audit[r][i].created_at <= audit[r][j].created_at
=============================================================================
