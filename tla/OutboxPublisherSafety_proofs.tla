-------------------- MODULE OutboxPublisherSafety_proofs --------------------
(***************************************************************************)
(* What the publisher promises, from the invariant of its runs: the        *)
(* delivery history, runs that do not overlap, the number of POSTs, and    *)
(* the abstract outbox, which it implements.                               *)
(***************************************************************************)
EXTENDS OutboxPublisher_proofs, FiniteSetTheorems

-----------------------------------------------------------------------------
(***************************************************************************)
(* The delivery history: one row for each attempt that an event counts and *)
(* each endpoint it is owed to that is still there, no row for another     *)
(* attempt, and none that says delivered without a 2xx answer.             *)
(***************************************************************************)
LEMMA HistoryFollows == PublisherInv => DeliveryHistoryExact
  <1> SUFFICES ASSUME PublisherInv
               PROVE  DeliveryHistoryExact
    OBVIOUS
  <1>1. DeliveryOnce /\ DeliveryComplete /\ DeliveryIsTrue
    BY DEF PublisherInv, DatabaseInv
  <1>2. ASSUME NEW v \in Events, NEW e \in audience[v],
               endpoint[e] = "present", NEW n \in 1..MaxAttempts,
               n <= event[v].attempts
        PROVE  Cardinality(RowsOf(v, e, n)) = 1
    <2>1. n \in 1..event[v].attempts
      BY <1>2 DEF PublisherInv, TypeOK, OutboxRow
    <2>2. PICK d : d \in RowsOf(v, e, n)
      BY <1>1, <1>2, <2>1 DEF DeliveryComplete
    <2>3. \A c \in RowsOf(v, e, n) : c = d
      BY <1>1, <2>2 DEF RowsOf, DeliveryOnce
    <2>4. RowsOf(v, e, n) = {d}
      BY <2>2, <2>3
    <2> QED
      BY <2>4, FS_Singleton
  <1>3. ASSUME NEW v \in Events, NEW e \in audience[v],
               NEW n \in 1..MaxAttempts, ~(n <= event[v].attempts)
        PROVE  Cardinality(RowsOf(v, e, n)) = 0
    <2>1. RowsOf(v, e, n) = {}
      BY <1>1, <1>3 DEF RowsOf, DeliveryIsTrue
    <2> QED
      BY <2>1, FS_EmptySet
  <1> QED
    BY <1>1, <1>2, <1>3 DEF DeliveryHistoryExact, DeliveryIsTrue

(***************************************************************************)
(* The delivery history is always exact.                                   *)
(***************************************************************************)
THEOREM HistoryIsExact == Spec => []DeliveryHistoryExact
  BY HistoryFollows, PublisherInvariant, PTL

-----------------------------------------------------------------------------
(***************************************************************************)
(* The attempts that failed.  A run has in its session a failed delivery   *)
(* for each event that it will not publish; the commit makes of it one of  *)
(* the attempts of the event, and only a deletion takes it away.           *)
(***************************************************************************)
FailedDelivery(p, v) ==
    \E d \in Session(p) : d.event = v /\ d.status = "failed"

SessionMatches(p) ==
    /\ run[p].step = "post" => run[p].targets \subseteq Matches[Current(p)]
    /\ \A d \in Session(p) : d.endpoint \in Matches[d.event]

FailureIsSeen(p) ==
    /\ run[p].step = "post" /\ ~run[p].succeeded =>
          FailedDelivery(p, Current(p))
    /\ \A v \in run[p].batch \ run[p].todo :
          run[p].outcome[v].status # "published" => FailedDelivery(p, v)

AttemptsFailed(v) ==
    event[v].status # "published" =>
        \A n \in 1..event[v].attempts : FailedAttempt(v, n)

GivenUpLate(v) ==
    event[v].status = "failed" => event[v].attempts = MaxAttempts

DeliveryMatches == \A d \in deliveries : d.endpoint \in Matches[d.event]

FailInv ==
    /\ \A p \in Publishers : SessionMatches(p) /\ FailureIsSeen(p)
    /\ DeliveryMatches
    /\ \A v \in Events : AttemptsFailed(v) /\ GivenUpLate(v)

(***************************************************************************)
(* An attempt that failed stays so.                                        *)
(***************************************************************************)
LEMMA AttemptStaysFailed ==
  ASSUME DeliveryMatches, NEW v \in Events, NEW n, FailedAttempt(v, n),
         \A e \in Endpoints : endpoint[e] = "deleted" =>
            endpoint'[e] = "deleted",
         \A d \in deliveries :
            d \in deliveries' \/ endpoint'[d.endpoint] = "deleted"
  PROVE  FailedAttempt(v, n)'
  <1>1. Matches[v] \subseteq Endpoints
    BY EventsAssumption
  <1> QED
    BY <1>1 DEF FailedAttempt, DeliveryMatches

(***************************************************************************)
(* A run that does not move, and one that has ended.                       *)
(***************************************************************************)
LEMMA UnmovedRunFails ==
  ASSUME FailInv, NEW p \in Publishers, run'[p] = run[p]
  PROVE  SessionMatches(p)' /\ FailureIsSeen(p)'
  <1>1. Current(p)' = Current(p) /\ Session(p)' = Session(p)
    BY Zenon DEF Current, Session
  <1> QED
    BY <1>1 DEF FailInv, SessionMatches, FailureIsSeen, FailedDelivery

LEMMA EmptyRunFails ==
  ASSUME NEW p \in Publishers, run'[p].step # "post",
         run'[p].todo = run'[p].batch,
         run'[p].added = {}, run'[p].flushed = {}
  PROVE  SessionMatches(p)' /\ FailureIsSeen(p)'
  BY DEF SessionMatches, FailureIsSeen, Session

(***************************************************************************)
(* A step of a run that commits nothing.                                   *)
(***************************************************************************)
LEMMA RunStepFails ==
  ASSUME FailInv, UNCHANGED database, NEW p \in Publishers,
         \A q \in Publishers \ {p} : run'[q] = run[q],
         SessionMatches(p)', FailureIsSeen(p)'
  PROVE  FailInv'
  <1>1. event' = event /\ endpoint' = endpoint /\ deliveries' = deliveries
    BY DEF database
  <1>2. \A q \in Publishers : SessionMatches(q)' /\ FailureIsSeen(q)'
    BY UnmovedRunFails
  <1>3. DeliveryMatches'
    BY <1>1 DEF FailInv, DeliveryMatches
  <1>4. \A v \in Events : AttemptsFailed(v)' /\ GivenUpLate(v)'
    BY <1>1 DEF FailInv, AttemptsFailed, GivenUpLate, FailedAttempt
  <1> QED
    BY <1>2, <1>3, <1>4 DEF FailInv

LEMMA ApiFails ==
  ASSUME PublisherInv, FailInv,
         \/ \E v \in Events : Emit(v)
         \/ \E e \in Endpoints : CreateWebhook(e) \/ DeleteWebhook(e)
         \/ UNCHANGED vars
  PROVE  FailInv'
  <1>1. UNCHANGED run
    BY DEF Emit, CreateWebhook, DeleteWebhook, vars
  <1>2. \A p \in Publishers : SessionMatches(p)' /\ FailureIsSeen(p)'
    BY <1>1, UnmovedRunFails
  <1>3. /\ deliveries' \subseteq deliveries
        /\ \A d \in deliveries :
              d \in deliveries' \/ endpoint'[d.endpoint] = "deleted"
        /\ \A e \in Endpoints : endpoint[e] = "deleted" =>
              endpoint'[e] = "deleted"
    <2>1. CASE UNCHANGED << deliveries, endpoint >>
      BY <2>1
    <2>2. ASSUME NEW e \in Endpoints, CreateWebhook(e)
          PROVE  /\ deliveries' = deliveries
                 /\ \A f \in Endpoints : endpoint[f] = "deleted" =>
                       endpoint'[f] = "deleted"
      BY <2>2 DEF CreateWebhook, PublisherInv, TypeOK
    <2>3. ASSUME NEW e \in Endpoints, DeleteWebhook(e)
          PROVE  /\ deliveries' \subseteq deliveries
                 /\ \A d \in deliveries : d \in deliveries' \/
                       endpoint'[d.endpoint] = "deleted"
                 /\ \A f \in Endpoints : endpoint[f] = "deleted" =>
                       endpoint'[f] = "deleted"
      BY <2>3 DEF DeleteWebhook, PublisherInv, TypeOK
    <2> QED
      BY <2>1, <2>2, <2>3 DEF Emit, vars
  <1>4. DeliveryMatches'
    BY <1>3 DEF FailInv, DeliveryMatches
  <1>5. ASSUME NEW v \in Events
        PROVE  /\ event'[v].attempts = event[v].attempts
               /\ \/ event'[v].status = event[v].status
                  \/ event[v].status = "absent" /\ event'[v].status = "pending"
    BY DEF Emit, CreateWebhook, DeleteWebhook, vars, PublisherInv, TypeOK,
           OutboxRow
  <1>6. ASSUME NEW v \in Events
        PROVE  AttemptsFailed(v)' /\ GivenUpLate(v)'
    <2>1. GivenUpLate(v)'
      BY <1>5 DEF FailInv, GivenUpLate
    <2>2. event'[v].status # "published" => event[v].status # "published"
      BY <1>5
    <2>3. AttemptsFailed(v)'
      BY <1>3, <1>5, <2>2, AttemptStaysFailed DEF FailInv, AttemptsFailed
    <2> QED
      BY <2>1, <2>3
  <1> QED
    BY <1>2, <1>4, <1>6 DEF FailInv

LEMMA SelectEndpointsFails ==
  ASSUME PublisherInv, FailInv, NEW p \in Publishers, SelectEndpoints(p)
  PROVE  FailInv'
  <1>1. TypeOK /\ UNCHANGED database
    BY DEF PublisherInv, SelectEndpoints
  <1>2. /\ \A q \in Publishers \ {p} : run'[q] = run[q]
        /\ run'[p].batch = run[p].batch /\ run'[p].todo = run[p].todo
        /\ run'[p].targets = { e \in Matches[Current(p)] :
                                 endpoint[e] = "present" }
        /\ run'[p].succeeded = TRUE
        /\ run'[p].outcome = run[p].outcome
        /\ run'[p].flushed = Session(p) /\ run'[p].added = {}
    BY <1>1, SelectEndpointsRun
  <1>3. Current(p)' = Current(p)
    BY <1>2, Zenon DEF Current
  <1>4. Session(p)' = Session(p)
    BY <1>2 DEF Session
  <1>5. SessionMatches(p)'
    BY <1>2, <1>3, <1>4 DEF FailInv, SessionMatches
  <1>6. FailureIsSeen(p)'
    BY <1>2, <1>4 DEF FailInv, FailureIsSeen, FailedDelivery
  <1> QED
    BY <1>1, <1>2, <1>5, <1>6, RunStepFails

LEMMA PostFails ==
  ASSUME PublisherInv, FailInv, NEW p \in Publishers, NEW e \in Endpoints,
         NEW status \in { "delivered", "failed" }, Post(p, e, status)
  PROVE  FailInv'
  <1>0. PICK v, row : v = Current(p) /\ row = Added(p, e, status)
    OBVIOUS
  <1>1. TypeOK /\ AttemptsLeft /\ HoldsPending(p) /\ UNCHANGED database
    BY DEF PublisherInv, RunInv, DatabaseInv, Post
  <1>2. /\ \A q \in Publishers \ {p} : run'[q] = run[q]
        /\ run[p].step = "post" /\ run[p].todo # {} /\ e \in run[p].targets
        /\ run'[p].batch = run[p].batch /\ run'[p].todo = run[p].todo
        /\ run'[p].targets = run[p].targets \ {e}
        /\ run'[p].succeeded = (run[p].succeeded /\ status = "delivered")
        /\ run'[p].outcome = run[p].outcome
        /\ run'[p].flushed = run[p].flushed
        /\ run'[p].added = run[p].added \cup { row }
    BY <1>0, <1>1, PostRun
  <1>3. row.event = v /\ row.endpoint = e /\ row.status = status
    BY <1>0 DEF Added
  <1>4. Current(p)' = v
    BY <1>0, <1>2, Zenon DEF Current
  <1>5. Session(p)' = Session(p) \cup { row }
    BY <1>2 DEF Session
  <1>6. SessionMatches(p)'
    BY <1>0, <1>2, <1>3, <1>4, <1>5 DEF FailInv, SessionMatches
  <1>7. \A w : FailedDelivery(p, w) => FailedDelivery(p, w)'
    BY <1>5 DEF FailedDelivery
  <1>8. status = "failed" => FailedDelivery(p, v)'
    BY <1>3, <1>5 DEF FailedDelivery
  <1>9. ~run'[p].succeeded => ~run[p].succeeded \/ status = "failed"
    BY <1>2
  <1>10. FailureIsSeen(p)'
    BY <1>0, <1>2, <1>4, <1>7, <1>8, <1>9 DEF FailInv, FailureIsSeen
  <1> QED
    BY <1>1, <1>2, <1>6, <1>10, RunStepFails

LEMMA FinishEventFails ==
  ASSUME PublisherInv, FailInv, NEW p \in Publishers, FinishEvent(p)
  PROVE  FailInv'
  <1>0. PICK v : v = Current(p)
    OBVIOUS
  <1>1. /\ TypeOK /\ AttemptsLeft /\ HoldsPending(p) /\ UNCHANGED database
        /\ run[p].batch \subseteq Events
    BY RunFields DEF PublisherInv, RunInv, DatabaseInv, FinishEvent
  <1>2. /\ \A q \in Publishers \ {p} : run'[q] = run[q]
        /\ run[p].step = "post" /\ run'[p].step = "next"
        /\ run'[p].batch = run[p].batch
        /\ run'[p].todo = run[p].todo \ {v}
        /\ run'[p].outcome[v] = Outcome(event[v].attempts, run[p].succeeded)
        /\ \A w \in Events \ {v} :
              run'[p].outcome[w] = run[p].outcome[w]
        /\ run'[p].flushed = run[p].flushed /\ run'[p].added = run[p].added
    BY <1>0, <1>1, FinishEventRun
  <1>3. Session(p)' = Session(p)
    BY <1>2 DEF Session
  <1>4. SessionMatches(p)'
    BY <1>2, <1>3 DEF FailInv, SessionMatches
  <1>5. ASSUME NEW w \in run[p].batch, w \notin run'[p].todo,
               run'[p].outcome[w].status # "published"
        PROVE  FailedDelivery(p, w)'
    <2>1. FailedDelivery(p, w)' <=> FailedDelivery(p, w)
      BY <1>3 DEF FailedDelivery
    <2>2. CASE w = v
      <3>1. ~run[p].succeeded
        BY <1>2, <1>5, <2>2 DEF Outcome
      <3> QED
        BY <1>0, <1>2, <2>1, <2>2, <3>1 DEF FailInv, FailureIsSeen
    <2>3. CASE w # v
      BY <1>1, <1>2, <1>5, <2>1, <2>3 DEF FailInv, FailureIsSeen
    <2> QED
      BY <2>2, <2>3
  <1>6. FailureIsSeen(p)'
    BY <1>2, <1>5 DEF FailureIsSeen
  <1> QED
    BY <1>1, <1>2, <1>4, <1>6, RunStepFails

(***************************************************************************)
(* A run that is rolled back takes with it what it has seen.               *)
(***************************************************************************)
LEMMA StartOrRollbackFails ==
  ASSUME PublisherInv, FailInv, NEW p \in Publishers,
         SelectEvents(p) \/ IntegrityError(p) \/ Crash(p)
  PROVE  FailInv'
  <1>1. TypeOK /\ UNCHANGED database
    BY DEF PublisherInv, SelectEvents, IntegrityError, Crash
  <1>2. /\ \A q \in Publishers \ {p} : run'[q] = run[q]
        /\ run'[p].step # "post" /\ run'[p].todo = run'[p].batch
        /\ run'[p].added = {} /\ run'[p].flushed = {}
    BY <1>1, SelectEventsRun, EndedRun DEF IntegrityError, Crash
  <1> QED
    BY <1>1, <1>2, EmptyRunFails, RunStepFails

(***************************************************************************)
(* The commit: one attempt more, and a delivery of it that failed for each *)
(* event that is not published.                                            *)
(***************************************************************************)
LEMMA CommitFails ==
  ASSUME PublisherInv, FailInv, NEW p \in Publishers, CommitRun(p)
  PROVE  FailInv'
  <1>1. /\ TypeOK /\ run[p].batch \subseteq Events /\ run[p].todo = {}
        /\ UNCHANGED endpoint /\ run' = [run EXCEPT ![p] = Idle]
        /\ RunInv(p) /\ AttemptsLeft
    BY RunFields DEF PublisherInv, DatabaseInv, CommitRun
  <1>2. \A q \in Publishers : SessionMatches(q)' /\ FailureIsSeen(q)'
    BY <1>1, EndedRun, EmptyRunFails, UnmovedRunFails
  <1>3. /\ deliveries' = deliveries \cup Session(p)
        /\ \A d \in Session(p) : d.attempt = event[d.event].attempts + 1
    BY CommitSession
  <1>4. DeliveryMatches'
    BY <1>3 DEF FailInv, SessionMatches, DeliveryMatches
  <1>5. \A v \in Events, n \in Nat :
           FailedAttempt(v, n) => FailedAttempt(v, n)'
    BY <1>1, <1>3, AttemptStaysFailed DEF FailInv
  <1>6. ASSUME NEW v \in Events \ run[p].batch
        PROVE  AttemptsFailed(v)' /\ GivenUpLate(v)'
    <2>1. event'[v] = event[v]
      BY DEF CommitRun
    <2> QED
      BY <1>5, <2>1 DEF FailInv, AttemptsFailed, GivenUpLate
  <1>7. ASSUME NEW v \in run[p].batch
        PROVE  AttemptsFailed(v)' /\ GivenUpLate(v)'
    <2>1. /\ event[v].status = "pending" /\ v \in Events
          /\ event'[v].attempts = event[v].attempts + 1
          /\ event'[v] = run[p].outcome[v]
      BY <1>1, CommitOutcome DEF CommitRun
    <2>2. event[v].attempts \in Nat /\ event[v].attempts < MaxAttempts
      BY <1>1, <2>1 DEF AttemptsLeft, TypeOK, OutboxRow
    <2>3. AttemptsFailed(v)'
      <3> SUFFICES ASSUME event'[v].status # "published",
                          NEW n \in 1..event'[v].attempts
                   PROVE  FailedAttempt(v, n)'
        BY DEF AttemptsFailed
      <3>1. CASE n \in 1..event[v].attempts
        BY <1>5, <2>1, <3>1 DEF FailInv, AttemptsFailed
      <3>2. CASE n = event[v].attempts + 1
        <4>1. PICK d \in Session(p) : d.event = v /\ d.status = "failed"
          BY <1>1, <2>1 DEF FailInv, FailureIsSeen, FailedDelivery
        <4> QED
          BY <1>3, <3>2, <4>1 DEF FailedAttempt
      <3> QED
        BY <2>1, <2>2, <3>1, <3>2
    <2>4. GivenUpLate(v)'
      <3>1. PICK succeeded \in BOOLEAN :
               run[p].outcome[v] = Outcome(event[v].attempts, succeeded)
        BY <1>1 DEF RunInv, OutcomeIsTrue
      <3>2. event'[v].status = "failed" =>
               event[v].attempts + 1 >= MaxAttempts
        BY <2>1, <3>1 DEF Outcome
      <3> QED
        BY <2>1, <2>2, <3>2, LimitsAssumption DEF GivenUpLate
    <2> QED
      BY <2>3, <2>4
  <1> QED
    BY <1>2, <1>4, <1>6, <1>7 DEF FailInv

LEMMA FailuresKept == PublisherInv /\ FailInv /\ [Next]_vars => FailInv'
  <1> SUFFICES ASSUME PublisherInv, FailInv, [Next]_vars
               PROVE  FailInv'
    OBVIOUS
  <1>1. ASSUME NEW p \in Publishers, Publish(p)
        PROVE  FailInv'
    BY <1>1, SelectEndpointsFails, PostFails, FinishEventFails, CommitFails,
       StartOrRollbackFails DEF Publish
  <1>2. ASSUME NEW p \in Publishers, SelectEvents(p) \/ Crash(p)
        PROVE  FailInv'
    BY <1>2, StartOrRollbackFails
  <1> QED
    BY <1>1, <1>2, ApiFails DEF Next

(***************************************************************************)
(* An event is given up after MaxAttempts attempts, and each has failed.   *)
(***************************************************************************)
THEOREM GivenUpAfterAll == Spec => []GivenUpInTheEnd
  <1>1. Init => FailInv
    <2> SUFFICES ASSUME Init
                 PROVE  FailInv
      OBVIOUS
    <2>1. /\ \A p \in Publishers : run[p] = Idle
          /\ \A v \in Events : event[v] = Absent
          /\ deliveries = {}
      BY DEF Init
    <2>2. /\ Idle.step = "idle" /\ Idle.batch = {}
          /\ Idle.added = {} /\ Idle.flushed = {}
      BY DEF Idle
    <2>3. \A p \in Publishers : SessionMatches(p) /\ FailureIsSeen(p)
      BY <2>1, <2>2 DEF SessionMatches, FailureIsSeen, Session
    <2>4. \A v \in Events : AttemptsFailed(v) /\ GivenUpLate(v)
      BY <2>1 DEF AttemptsFailed, GivenUpLate, Absent
    <2> QED
      BY <2>1, <2>3, <2>4 DEF FailInv, DeliveryMatches
  <1>2. FailInv => GivenUpInTheEnd
    BY DEF FailInv, AttemptsFailed, GivenUpLate, GivenUpInTheEnd
  <1> QED
    BY <1>1, <1>2, FailuresKept, PublisherInvariant, PTL DEF Spec

-----------------------------------------------------------------------------
(***************************************************************************)
(* Only Emit and CommitRun write events, only Post sends one.              *)
(***************************************************************************)
LEMMA EventsWritten ==
  ASSUME PublisherInv, [Next]_vars, NEW v \in Events, event'[v] # event[v]
  PROVE  \/ Emit(v)
         \/ \E p \in Publishers : CommitRun(p) /\ v \in run[p].batch
  <1>1. event \in [Events -> OutboxRow]
    BY DEF PublisherInv, TypeOK
  <1>2. ASSUME NEW w \in Events, Emit(w)
        PROVE  w = v
    BY <1>1, <1>2 DEF Emit
  <1>3. ASSUME NEW p \in Publishers, CommitRun(p)
        PROVE  v \in run[p].batch
    BY <1>3 DEF CommitRun
  <1>4. ~UNCHANGED event
    OBVIOUS
  <1>5. \/ \E w \in Events : Emit(w)
        \/ \E p \in Publishers : CommitRun(p)
    BY <1>4 DEF Next, Publish, vars, database, CreateWebhook, DeleteWebhook,
                SelectEvents, SelectEndpoints, Post, FinishEvent,
                IntegrityError, Crash
  <1> QED
    BY <1>2, <1>3, <1>5

LEMMA EventsSent ==
  ASSUME PublisherInv, [Next]_vars, NEW v \in Events, NEW e \in Endpoints,
         posts'[<< v, e >>] # posts[<< v, e >>]
  PROVE  \E p \in Publishers : v \in run[p].batch
  <1>1. ~UNCHANGED posts
    OBVIOUS
  <1>2. PICK p \in Publishers, f \in Endpoints,
             status \in { "delivered", "failed" } : Post(p, f, status)
    BY <1>1 DEF Next, Publish, vars, world, Emit, CreateWebhook,
                DeleteWebhook, SelectEvents, SelectEndpoints, FinishEvent,
                CommitRun, IntegrityError, Crash
  <1>3. TypeOK /\ HoldsPending(p) /\ run[p].todo # {}
    BY <1>2 DEF PublisherInv, RunInv, HoldsPending, Post
  <1>4. Current(p) \in run[p].batch
    BY <1>3, CurrentIsToDo DEF HoldsPending
  <1>5. v = Current(p)
    BY <1>2, <1>3 DEF Post, TypeOK
  <1> QED
    BY <1>4, <1>5

(***************************************************************************)
(* An event is POSTed only while it is pending, what was decided of an     *)
(* event is never taken back, and each commit counts one attempt.          *)
(***************************************************************************)
THEOREM RunsDoNotOverlap == Spec => OneRunAtATime
  <1> DEFINE A(v) ==
        /\ (\E e \in Endpoints : posts'[<< v, e >>] # posts[<< v, e >>])
              => event[v].status = "pending"
        /\ event[v].status \in { "published", "failed" }
              => event'[v] = event[v]
        /\ event[v].status = "pending" /\ event'[v] # event[v]
              => event'[v].attempts = event[v].attempts + 1
  <1>1. ASSUME PublisherInv, [Next]_vars, NEW v \in Events
        PROVE  A(v)
    <2>1. \A p \in Publishers : v \in run[p].batch =>
             event[v].status = "pending"
      BY <1>1 DEF PublisherInv, RunInv, HoldsPending
    <2>2. (\E e \in Endpoints : posts'[<< v, e >>] # posts[<< v, e >>])
             => event[v].status = "pending"
      BY <1>1, <2>1, EventsSent
    <2>3. event'[v] # event[v] =>
             event[v].status = "absent" \/ event[v].status = "pending"
      BY <1>1, <2>1, EventsWritten DEF Emit
    <2>4. event[v].status = "pending" /\ event'[v] # event[v] =>
             event'[v].attempts = event[v].attempts + 1
      BY <1>1, EventsWritten, CommitOutcome DEF Emit
    <2> QED
      BY <2>2, <2>3, <2>4
  <1>2. PublisherInv /\ [Next]_vars => [\A v \in Events : A(v)]_vars
    BY <1>1
  <1> QED
    BY <1>2, PublisherInvariant, PTL DEF Spec, OneRunAtATime

-----------------------------------------------------------------------------
(***************************************************************************)
(* The refinement.  What the receivers see changes in Emit, in the two     *)
(* operations on endpoints, in a POST that is answered, and in the commit, *)
(* which settles the events it publishes and gives up.                     *)
(***************************************************************************)
Seen == << [ v \in Events |-> event[v].status ], endpoint, audience, acked >>

LEMMA EmitStores ==
  ASSUME PublisherInv, NEW v \in Events, Emit(v)
  PROVE  Promise!Store(v)
  <1>1. event \in [Events -> OutboxRow] /\ event[v].status = "absent"
    BY DEF PublisherInv, TypeOK, Emit
  <1>2. event' = [event EXCEPT ![v].status = "pending"]
    BY DEF Emit
  <1>3. event'[v].status = "pending"
    BY <1>1, <1>2 DEF OutboxRow
  <1>4. \A w \in Events \ {v} : event'[w] = event[w]
    BY <1>1, <1>2
  <1>5. [ w \in Events |-> event'[w].status ] =
           [[ w \in Events |-> event[w].status ] EXCEPT ![v] = "pending"]
    BY <1>3, <1>4
  <1> QED
    BY <1>1, <1>5 DEF Emit, Promise!Store

LEMMA WebhookOpensOrCloses ==
  ASSUME NEW e \in Endpoints
  PROVE  /\ CreateWebhook(e) => Promise!Open(e)
         /\ DeleteWebhook(e) => Promise!Close(e)
  BY DEF CreateWebhook, DeleteWebhook, Promise!Open, Promise!Close, world

LEMMA PostIsReceived ==
  ASSUME PublisherInv, NEW p \in Publishers, NEW e \in Endpoints,
         NEW status \in { "delivered", "failed" }, Post(p, e, status)
  PROVE  \/ \E v \in Events : Promise!Receive(v, e)
         \/ UNCHANGED Seen
  <1>1. TypeOK /\ HoldsPending(p) /\ run[p].todo # {}
    BY DEF PublisherInv, RunInv, HoldsPending, Post
  <1>2. Current(p) \in Events /\ event[Current(p)].status = "pending"
    BY <1>1, CurrentIsToDo DEF HoldsPending
  <1>3. event' = event /\ endpoint' = endpoint /\ audience' = audience
    BY DEF Post, database
  <1>4. CASE status = "delivered"
    <2>1. acked' = acked \cup { << Current(p), e >> }
      BY <1>4 DEF Post
    <2>2. Promise!Receive(Current(p), e)
      BY <1>2, <1>3, <2>1 DEF Promise!Receive
    <2> QED
      BY <1>2, <2>2
  <1>5. CASE status # "delivered"
    BY <1>3, <1>5 DEF Post, Seen
  <1> QED
    BY <1>4, <1>5

LEMMA CommitSettles ==
  ASSUME PublisherInv, NEW p \in Publishers, CommitRun(p)
  PROVE  \E published, failed \in SUBSET Events :
            Promise!Settle(published, failed)
  <1>0. PICK published, failed :
          /\ published =
               { v \in run[p].batch : event'[v].status = "published" }
          /\ failed = { v \in run[p].batch : event'[v].status = "failed" }
    OBVIOUS
  <1>1. TypeOK /\ run[p].batch \subseteq Events
    BY RunFields DEF PublisherInv
  <1>2. /\ endpoint' = endpoint /\ audience' = audience /\ acked' = acked
        /\ \A v \in Events \ run[p].batch : event'[v] = event[v]
    BY DEF CommitRun, world
  <1>3. \A v \in run[p].batch :
           /\ event[v].status = "pending"
           /\ event'[v].status \in { "pending", "published", "failed" }
           /\ event'[v].status = "published" => AllDelivered(p, v)
    BY CommitOutcome DEF OutboxRow, OutboxStatuses
  <1>4. ASSUME NEW v \in published
        PROVE  Promise!Delivered(v)
    <2> SUFFICES ASSUME NEW e \in audience[v], endpoint[e] # "deleted"
                 PROVE  << v, e >> \in acked
      BY DEF Promise!Delivered
    <2>1. endpoint[e] = "present"
      BY <1>0, <1>1 DEF PublisherInv, DatabaseInv, AudienceExisted, TypeOK
    <2>2. PICK d \in Session(p) : d.event = v /\ d.endpoint = e
      BY <1>0, <2>1, CommitSession
    <2>3. d.status = "delivered"
      BY <1>0, <1>3, <2>2 DEF AllDelivered
    <2> QED
      BY <2>2, <2>3, CommitSession
  <1>5. [ v \in Events |-> event'[v].status ] =
           [ v \in Events |-> IF v \in published THEN "published"
                              ELSE IF v \in failed THEN "failed"
                              ELSE [ w \in Events |-> event[w].status ][v] ]
    BY <1>0, <1>1, <1>2, <1>3
  <1>6. \A v \in published \cup failed : event[v].status = "pending"
    BY <1>0, <1>3
  <1>7. published \in SUBSET Events /\ failed \in SUBSET Events
    BY <1>0, <1>1
  <1>8. Promise!Settle(published, failed)
    BY <1>2, <1>4, <1>5, <1>6, <1>7 DEF Promise!Settle
  <1> QED
    BY <1>7, <1>8

(***************************************************************************)
(* The publisher implements the promise of the outbox, step by step.       *)
(***************************************************************************)
THEOREM DeliveryRefinement == Spec => ImplementsDelivery
  <1>1. Init => Promise!Init
    BY DEF Init, Promise!Init, Absent
  <1>2. PublisherInv /\ [Next]_vars => [Promise!Next]_Seen
    <2> SUFFICES ASSUME PublisherInv, [Next]_vars
                 PROVE  Promise!Next \/ UNCHANGED Seen
      OBVIOUS
    <2>1. ASSUME NEW v \in Events, Emit(v)
          PROVE  Promise!Next
      BY <2>1, EmitStores DEF Promise!Next
    <2>2. ASSUME NEW e \in Endpoints, CreateWebhook(e) \/ DeleteWebhook(e)
          PROVE  Promise!Next
      BY <2>2, WebhookOpensOrCloses DEF Promise!Next
    <2>3. ASSUME NEW p \in Publishers,
                 SelectEvents(p) \/ SelectEndpoints(p) \/ FinishEvent(p)
                    \/ IntegrityError(p) \/ Crash(p)
          PROVE  UNCHANGED Seen
      <3>1. UNCHANGED << event, endpoint, audience, acked >>
        BY <2>3 DEF SelectEvents, SelectEndpoints, FinishEvent,
                    IntegrityError, Crash, database, world
      <3> QED
        BY <3>1 DEF Seen
    <2>4. ASSUME NEW p \in Publishers, NEW e \in Endpoints,
                 NEW status \in { "delivered", "failed" },
                 Post(p, e, status)
          PROVE  Promise!Next \/ UNCHANGED Seen
      BY <2>4, PostIsReceived DEF Promise!Next
    <2>5. ASSUME NEW p \in Publishers, CommitRun(p)
          PROVE  Promise!Next
      BY <2>5, CommitSettles DEF Promise!Next
    <2>6. CASE UNCHANGED vars
      BY <2>6 DEF vars, Seen
    <2> QED
      BY <2>1, <2>2, <2>3, <2>4, <2>5, <2>6 DEF Next, Publish
  <1>3. PublisherInv /\ [Next]_vars =>
          [Promise!Next]_<< [ v \in Events |-> event[v].status ], endpoint,
                            audience, acked >>
    BY <1>2 DEF Seen
  <1> QED
    BY <1>1, <1>3, PublisherInvariant, PTL
       DEF Spec, ImplementsDelivery, Promise!Spec

-----------------------------------------------------------------------------
(***************************************************************************)
(* The POSTs.  The endpoints that have been deleted, and those of a run    *)
(* under way whose deletion will roll it back: the run has read them, or   *)
(* has added a delivery to them that it has not flushed.  A POST of a run  *)
(* that is rolled back is accounted for by the endpoint that is the cause; *)
(* as long as the run goes on, that endpoint accounts for nothing.         *)
(***************************************************************************)
Deleted == { e \in Endpoints : endpoint[e] = "deleted" }

Doomed(p) ==
    { e \in Deleted : \/ e \in run[p].targets
                      \/ \E d \in run[p].added : d.endpoint = e }

PostsOfRun(p, v, e) ==
    posts[<< v, e >>] <=
        event[v].attempts + (IF HasPosted(p, v, e) THEN 1 ELSE 0) + crashes
        + Cardinality(Deleted \ Doomed(p))

PostsOfRest(v, e) ==
    posts[<< v, e >>] <= event[v].attempts + crashes + Cardinality(Deleted)

EndpointsExisted(p) ==
    /\ \A e \in run[p].targets : endpoint[e] # "absent"
    /\ \A d \in run[p].added : endpoint[d.endpoint] # "absent"

RunRetries(p) ==
    /\ EndpointsExisted(p)
    /\ \A v \in run[p].batch : \A e \in Endpoints : PostsOfRun(p, v, e)

RestRetries ==
    \A v \in Events : \A e \in Endpoints : ~Locked(v) => PostsOfRest(v, e)

RetryInv ==
    /\ IsFiniteSet(Deleted)
    /\ \A p \in Publishers : RunRetries(p)
    /\ RestRetries

(***************************************************************************)
(* The numbers in these bounds.                                            *)
(***************************************************************************)
LEMMA RetryNumbers ==
  ASSUME TypeOK, IsFiniteSet(Deleted),
         NEW v \in Events, NEW e \in Endpoints
  PROVE  /\ posts[<< v, e >>] \in Nat /\ event[v].attempts \in Nat
         /\ crashes \in Nat
         /\ Cardinality(Deleted) \in Nat
         /\ \A S : /\ IsFiniteSet(Deleted \ S)
                   /\ Cardinality(Deleted \ S) \in Nat
                   /\ Cardinality(Deleted \ S) <= Cardinality(Deleted)
  <1>1. \A S : Deleted \ S \in SUBSET Deleted
    OBVIOUS
  <1>2. \A S : IsFiniteSet(Deleted \ S)
              /\ Cardinality(Deleted \ S) <= Cardinality(Deleted)
    BY <1>1, FS_Subset
  <1>3. Cardinality(Deleted) \in Nat
        /\ \A S : Cardinality(Deleted \ S) \in Nat
    BY <1>2, FS_CardinalityType
  <1>4. posts[<< v, e >>] \in Nat /\ crashes \in Nat
        /\ event[v].attempts \in Nat
    BY LimitsAssumption DEF TypeOK, OutboxRow
  <1> QED
    BY <1>2, <1>3, <1>4

(***************************************************************************)
(* A run keeps its bound when no POST of its events is made and nothing    *)
(* that accounts for one is lost.                                          *)
(***************************************************************************)
LEMMA PostsOfRunKept ==
  ASSUME TypeOK, TypeOK', IsFiniteSet(Deleted), IsFiniteSet(Deleted'),
         NEW p \in Publishers, NEW v \in Events, NEW e \in Endpoints,
         PostsOfRun(p, v, e),
         posts'[<< v, e >>] = posts[<< v, e >>],
         event[v].attempts <= event'[v].attempts,
         HasPosted(p, v, e) => HasPosted(p, v, e)',
         crashes <= crashes',
         Deleted \ Doomed(p) \subseteq Deleted' \ Doomed(p)'
  PROVE  PostsOfRun(p, v, e)'
  <1>1. Cardinality(Deleted \ Doomed(p)) <=
           Cardinality(Deleted' \ Doomed(p)')
    <2>1. IsFiniteSet(Deleted' \ Doomed(p)')
      BY FS_Difference
    <2> QED
      BY <2>1, FS_Subset
  <1>2. /\ posts[<< v, e >>] \in Nat /\ event[v].attempts \in Nat
        /\ crashes \in Nat /\ Cardinality(Deleted \ Doomed(p)) \in Nat
    BY RetryNumbers
  <1>3. /\ event'[v].attempts \in Nat /\ crashes' \in Nat
    BY LimitsAssumption DEF TypeOK, OutboxRow
  <1>4. Cardinality(Deleted' \ Doomed(p)') \in Nat
    BY FS_Difference, FS_CardinalityType
  <1>5. posts[<< v, e >>] <=
          event[v].attempts + (IF HasPosted(p, v, e) THEN 1 ELSE 0) + crashes
          + Cardinality(Deleted \ Doomed(p))
    BY DEF PostsOfRun
  <1>6. posts'[<< v, e >>] <=
          event'[v].attempts + (IF HasPosted(p, v, e)' THEN 1 ELSE 0)
          + crashes' + Cardinality(Deleted' \ Doomed(p)')
    BY <1>1, <1>2, <1>3, <1>4, <1>5
  <1> QED
    BY <1>6 DEF PostsOfRun

LEMMA RunRetriesKept ==
  ASSUME TypeOK, TypeOK', RetryInv, IsFiniteSet(Deleted'),
         Deleted \subseteq Deleted',
         NEW q \in Publishers, run'[q] = run[q],
         \A e \in Endpoints :
            endpoint'[e] = "absent" => endpoint[e] = "absent",
         \A v \in run[q].batch :
            /\ event[v].attempts <= event'[v].attempts
            /\ \A e \in Endpoints : posts'[<< v, e >>] = posts[<< v, e >>],
         crashes <= crashes'
  PROVE  RunRetries(q)'
  <1>1. RunRetries(q)
    BY DEF RetryInv
  <1>2. EndpointsExisted(q)'
    BY <1>1, RunFields DEF RunRetries, EndpointsExisted, Delivery
  <1>3. Current(q)' = Current(q)
    BY Zenon DEF Current
  <1>4. ASSUME NEW v \in run[q].batch, NEW e \in Endpoints
        PROVE  PostsOfRun(q, v, e)'
    <2>1. v \in Events /\ PostsOfRun(q, v, e)
      BY <1>1, RunFields DEF RunRetries
    <2>2. HasPosted(q, v, e) => HasPosted(q, v, e)'
      BY <1>3 DEF HasPosted
    <2>3. Deleted \ Doomed(q) \subseteq Deleted' \ Doomed(q)'
      BY DEF Doomed
    <2> QED
      BY <2>1, <2>2, <2>3, PostsOfRunKept DEF RetryInv
  <1> QED
    BY <1>2, <1>4 DEF RunRetries

LEMMA PostsOfRestKept ==
  ASSUME TypeOK, TypeOK', IsFiniteSet(Deleted), IsFiniteSet(Deleted'),
         Deleted \subseteq Deleted',
         NEW v \in Events, NEW e \in Endpoints, PostsOfRest(v, e),
         posts'[<< v, e >>] = posts[<< v, e >>],
         event[v].attempts <= event'[v].attempts, crashes <= crashes'
  PROVE  PostsOfRest(v, e)'
  <1>1. Cardinality(Deleted) <= Cardinality(Deleted')
        /\ Cardinality(Deleted') \in Nat
    BY FS_Subset, FS_CardinalityType
  <1>2. /\ posts[<< v, e >>] \in Nat /\ event[v].attempts \in Nat
        /\ crashes \in Nat /\ Cardinality(Deleted) \in Nat
    BY RetryNumbers
  <1>3. event'[v].attempts \in Nat /\ crashes' \in Nat
    BY LimitsAssumption DEF TypeOK, OutboxRow
  <1>4. posts'[<< v, e >>] <=
          event'[v].attempts + crashes' + Cardinality(Deleted')
    BY <1>1, <1>2, <1>3 DEF PostsOfRest
  <1> QED
    BY <1>4 DEF PostsOfRest

(***************************************************************************)
(* A run whose POSTs are bounded leaves them so when it ends and another   *)
(* attempt is counted, or a crash.                                         *)
(***************************************************************************)
LEMMA RunIsLeft ==
  ASSUME TypeOK, IsFiniteSet(Deleted), NEW p \in Publishers,
         NEW v \in Events, NEW e \in Endpoints, PostsOfRun(p, v, e)
  PROVE  posts[<< v, e >>] <=
           event[v].attempts + 1 + crashes + Cardinality(Deleted)
  <1>1. /\ posts[<< v, e >>] \in Nat /\ event[v].attempts \in Nat
        /\ crashes \in Nat /\ Cardinality(Deleted) \in Nat
        /\ Cardinality(Deleted \ Doomed(p)) \in Nat
        /\ Cardinality(Deleted \ Doomed(p)) <= Cardinality(Deleted)
    BY RetryNumbers
  <1> QED
    BY <1>1 DEF PostsOfRun

(***************************************************************************)
(* Each step keeps the bounds: first the steps of the API, and those that  *)
(* change nothing.                                                         *)
(***************************************************************************)
LEMMA ApiRetries ==
  ASSUME TypeOK, TypeOK', RetryInv, UNCHANGED << run, posts, crashes >>,
         IsFiniteSet(Deleted'), Deleted \subseteq Deleted',
         \A e \in Endpoints :
            endpoint'[e] = "absent" => endpoint[e] = "absent",
         \A v \in Events : event'[v].attempts = event[v].attempts
  PROVE  RetryInv'
  <1>1. /\ crashes <= crashes'
        /\ \A v \in Events : event[v].attempts <= event'[v].attempts
    BY LimitsAssumption DEF TypeOK, OutboxRow
  <1>2. \A q \in Publishers : RunRetries(q)'
    BY <1>1, RunFields, RunRetriesKept
  <1>3. RestRetries'
    <2> SUFFICES ASSUME NEW v \in Events, NEW e \in Endpoints, ~Locked(v)
                 PROVE  PostsOfRest(v, e)'
      BY DEF RestRetries, Locked
    <2>1. PostsOfRest(v, e)
      BY DEF RetryInv, RestRetries
    <2> QED
      BY <1>1, <2>1, PostsOfRestKept DEF RetryInv
  <1> QED
    BY <1>2, <1>3 DEF RetryInv

LEMMA ApiStepRetries ==
  ASSUME TypeOK, TypeOK', RetryInv,
         \/ \E v \in Events : Emit(v)
         \/ \E e \in Endpoints : CreateWebhook(e) \/ DeleteWebhook(e)
         \/ UNCHANGED vars
  PROVE  RetryInv'
  <1>1. UNCHANGED << run, posts, crashes >>
    BY DEF Emit, CreateWebhook, DeleteWebhook, vars, world
  <1>2. \A v \in Events : event'[v].attempts = event[v].attempts
    <2>1. event \in [Events -> OutboxRow]
      BY DEF TypeOK
    <2>2. ASSUME NEW w \in Events, Emit(w)
          PROVE  \A v \in Events : event'[v].attempts = event[v].attempts
      BY <2>1, <2>2 DEF Emit, OutboxRow
    <2>3. UNCHANGED event =>
             \A v \in Events : event'[v].attempts = event[v].attempts
      OBVIOUS
    <2> QED
      BY <2>2, <2>3 DEF CreateWebhook, DeleteWebhook, vars
  <1>3. \/ UNCHANGED endpoint
        \/ \E f \in Endpoints : /\ endpoint[f] = "absent"
                               /\ endpoint' =
                                    [endpoint EXCEPT ![f] = "present"]
        \/ \E f \in Endpoints : /\ endpoint[f] = "present"
                               /\ endpoint' =
                                    [endpoint EXCEPT ![f] = "deleted"]
    BY DEF Emit, CreateWebhook, DeleteWebhook, vars
  <1>4. \A e \in Endpoints :
           endpoint'[e] = "absent" => endpoint[e] = "absent"
    BY <1>3 DEF TypeOK
  <1>5. Deleted' = Deleted \/ \E f \in Endpoints : Deleted' = Deleted \cup {f}
    BY <1>3 DEF TypeOK, Deleted
  <1>6. IsFiniteSet(Deleted') /\ Deleted \subseteq Deleted'
    BY <1>5, FS_AddElement DEF RetryInv
  <1> QED
    BY <1>1, <1>2, <1>4, <1>6, ApiRetries

(***************************************************************************)
(* A step of a run: what it must show of itself, and of the events that it *)
(* no longer holds.                                                        *)
(***************************************************************************)
LEMMA RunStepRetries ==
  ASSUME PublisherInv, TypeOK', RetryInv, UNCHANGED endpoint,
         NEW p \in Publishers,
         \A q \in Publishers \ {p} : run'[q] = run[q],
         \A v \in Events \ run[p].batch :
            /\ event'[v] = event[v]
            /\ \A e \in Endpoints : posts'[<< v, e >>] = posts[<< v, e >>],
         crashes <= crashes',
         RunRetries(p)',
         \A v \in run[p].batch \ run'[p].batch : \A e \in Endpoints :
            PostsOfRest(v, e)'
  PROVE  RetryInv'
  <1>1. TypeOK /\ RunsExclude
    BY DEF PublisherInv
  <1>2. IsFiniteSet(Deleted') /\ Deleted' = Deleted
    BY DEF RetryInv, Deleted
  <1>3. \A v \in Events \ run[p].batch :
           event[v].attempts <= event'[v].attempts
    BY <1>1 DEF TypeOK, OutboxRow
  <1>4. ASSUME NEW q \in Publishers \ {p}
        PROVE  RunRetries(q)'
    <2>1. run[q].batch \subseteq Events \ run[p].batch
      BY <1>1, RunFields DEF RunsExclude
    <2> QED
      BY <1>1, <1>2, <1>3, <2>1, RunRetriesKept
  <1>5. RestRetries'
    <2> SUFFICES ASSUME NEW v \in Events, NEW e \in Endpoints, ~Locked(v)'
                 PROVE  PostsOfRest(v, e)'
      BY DEF RestRetries
    <2>1. v \notin run'[p].batch
      BY DEF Locked
    <2>2. CASE v \in run[p].batch
      BY <2>1, <2>2
    <2>3. CASE v \notin run[p].batch
      <3>1. ~Locked(v)
        BY <2>3 DEF Locked
      <3>2. PostsOfRest(v, e)
        BY <3>1 DEF RetryInv, RestRetries
      <3> QED
        BY <1>1, <1>2, <1>3, <2>3, <3>2, PostsOfRestKept DEF RetryInv
    <2> QED
      BY <2>2, <2>3
  <1> QED
    BY <1>2, <1>4, <1>5 DEF RetryInv

LEMMA SelectEventsRetries ==
  ASSUME PublisherInv, TypeOK', RetryInv, NEW p \in Publishers,
         SelectEvents(p)
  PROVE  RetryInv'
  <1>1. /\ TypeOK /\ run[p].batch = {}
        /\ UNCHANGED << event, endpoint, posts, crashes >>
    BY DEF PublisherInv, RunInv, HoldsPending, SelectEvents, database, world
  <1>2. /\ \A q \in Publishers \ {p} : run'[q] = run[q]
        /\ run'[p].step = "next"
        /\ run'[p].batch \subseteq { v \in Events : Available(v) }
        /\ run'[p].todo = run'[p].batch
        /\ run'[p].targets = {} /\ run'[p].added = {}
    BY <1>1, SelectEventsRun
  <1>3. Deleted' \ Doomed(p)' = Deleted
    BY <1>1, <1>2 DEF Deleted, Doomed
  <1>4. ASSUME NEW v \in run'[p].batch, NEW e \in Endpoints
        PROVE  PostsOfRun(p, v, e)'
    <2>1. v \in Events /\ ~Locked(v)
      BY <1>2 DEF Available
    <2>2. posts[<< v, e >>] <=
             event[v].attempts + crashes + Cardinality(Deleted)
      BY <2>1 DEF RetryInv, RestRetries, PostsOfRest
    <2>3. ~HasPosted(p, v, e)'
      BY <1>2 DEF HasPosted
    <2>4. event[v].attempts \in Nat
      BY <1>1, <2>1 DEF TypeOK, OutboxRow
    <2>5. event[v].attempts + 0 = event[v].attempts
      BY <2>4
    <2> QED
      BY <1>1, <1>3, <2>2, <2>3, <2>5 DEF PostsOfRun
  <1>5. RunRetries(p)'
    BY <1>2, <1>4 DEF RunRetries, EndpointsExisted
  <1>6. crashes <= crashes'
    BY <1>1, LimitsAssumption DEF TypeOK
  <1> QED
    BY <1>1, <1>2, <1>5, <1>6, RunStepRetries

LEMMA SelectEndpointsRetries ==
  ASSUME PublisherInv, TypeOK', RetryInv, NEW p \in Publishers,
         SelectEndpoints(p)
  PROVE  RetryInv'
  <1>1. /\ TypeOK /\ RunRetries(p) /\ IsFiniteSet(Deleted)
        /\ UNCHANGED << event, endpoint, posts, crashes >>
    BY DEF PublisherInv, RetryInv, SelectEndpoints, database, world
  <1>2. /\ \A q \in Publishers \ {p} : run'[q] = run[q]
        /\ run[p].step = "next" /\ run'[p].step = "post"
        /\ run'[p].batch = run[p].batch /\ run'[p].todo = run[p].todo
        /\ run'[p].targets = { e \in Matches[Current(p)] :
                                 endpoint[e] = "present" }
        /\ run'[p].added = {}
    BY <1>1, SelectEndpointsRun
  <1>3. Deleted' = Deleted /\ Doomed(p)' = {}
    BY <1>1, <1>2 DEF Deleted, Doomed
  <1>4. ASSUME NEW v \in run[p].batch, NEW e \in Endpoints
        PROVE  PostsOfRun(p, v, e)'
    <2>1. v \in Events /\ PostsOfRun(p, v, e)
      BY <1>1, RunFields DEF RunRetries
    <2>2. HasPosted(p, v, e) => HasPosted(p, v, e)'
      BY <1>2 DEF HasPosted
    <2>3. event[v].attempts <= event'[v].attempts /\ crashes <= crashes'
      BY <1>1, <2>1, LimitsAssumption DEF TypeOK, OutboxRow
    <2> QED
      BY <1>1, <1>3, <2>1, <2>2, <2>3, PostsOfRunKept
  <1>5. EndpointsExisted(p)'
    BY <1>1, <1>2 DEF EndpointsExisted
  <1>6. RunRetries(p)'
    BY <1>2, <1>4, <1>5 DEF RunRetries
  <1>7. crashes <= crashes'
    BY <1>1, LimitsAssumption DEF TypeOK
  <1> QED
    BY <1>1, <1>2, <1>6, <1>7, RunStepRetries

LEMMA FinishEventRetries ==
  ASSUME PublisherInv, TypeOK', RetryInv, NEW p \in Publishers,
         FinishEvent(p)
  PROVE  RetryInv'
  <1>1. /\ TypeOK /\ RunRetries(p) /\ IsFiniteSet(Deleted)
        /\ AttemptsLeft /\ HoldsPending(p)
        /\ UNCHANGED << event, endpoint, posts, crashes >>
    BY DEF PublisherInv, RunInv, DatabaseInv, RetryInv, FinishEvent,
           database, world
  <1>2. /\ \A q \in Publishers \ {p} : run'[q] = run[q]
        /\ run[p].targets = {} /\ run'[p].batch = run[p].batch
        /\ run'[p].todo = run[p].todo \ { Current(p) }
        /\ run'[p].targets = run[p].targets /\ run'[p].added = run[p].added
    BY <1>1, FinishEventRun
  <1>3. Deleted' = Deleted /\ Doomed(p)' = Doomed(p)
    BY <1>1, <1>2 DEF Deleted, Doomed
  <1>4. ASSUME NEW v \in run[p].batch, NEW e \in Endpoints
        PROVE  PostsOfRun(p, v, e)'
    <2>1. v \in Events /\ PostsOfRun(p, v, e)
      BY <1>1, RunFields DEF RunRetries
    <2>2. HasPosted(p, v, e) => HasPosted(p, v, e)'
      BY <1>2 DEF HasPosted
    <2>3. event[v].attempts <= event'[v].attempts /\ crashes <= crashes'
      BY <1>1, <2>1, LimitsAssumption DEF TypeOK, OutboxRow
    <2> QED
      BY <1>1, <1>3, <2>1, <2>2, <2>3, PostsOfRunKept
  <1>5. EndpointsExisted(p)'
    BY <1>1, <1>2 DEF RunRetries, EndpointsExisted
  <1>6. RunRetries(p)'
    BY <1>2, <1>4, <1>5 DEF RunRetries
  <1>7. crashes <= crashes'
    BY <1>1, LimitsAssumption DEF TypeOK
  <1> QED
    BY <1>1, <1>2, <1>6, <1>7, RunStepRetries

(***************************************************************************)
(* A POST is the first of its attempt to its endpoint.                     *)
(***************************************************************************)
LEMMA PostRetries ==
  ASSUME PublisherInv, TypeOK', RetryInv, NEW p \in Publishers,
         NEW e \in Endpoints, NEW status \in { "delivered", "failed" },
         Post(p, e, status)
  PROVE  RetryInv'
  <1>0. PICK v, row : v = Current(p) /\ row = Added(p, e, status)
    OBVIOUS
  <1>1. /\ TypeOK /\ RunRetries(p) /\ IsFiniteSet(Deleted)
        /\ AttemptsLeft /\ HoldsPending(p)
        /\ UNCHANGED << event, endpoint, crashes >>
        /\ posts' = [posts EXCEPT ![<< v, e >>] = @ + 1]
    BY <1>0 DEF PublisherInv, RunInv, DatabaseInv, RetryInv, Post, database
  <1>2. /\ \A q \in Publishers \ {p} : run'[q] = run[q]
        /\ run[p].step = "post" /\ run[p].todo # {}
        /\ e \in run[p].targets /\ run'[p].step = "post"
        /\ run'[p].batch = run[p].batch /\ run'[p].todo = run[p].todo
        /\ run'[p].targets = run[p].targets \ {e}
        /\ run'[p].added = run[p].added \cup { row }
    BY <1>0, <1>1, PostRun
  <1>3. v \in run[p].todo /\ v \in Events /\ v \in run[p].batch
    BY <1>0, <1>1, <1>2, CurrentIsToDo DEF HoldsPending
  <1>4. row.endpoint = e
    BY <1>0 DEF Added
  <1>5. Current(p)' = v
    BY <1>0, <1>2, Zenon DEF Current
  <1>6. /\ posts'[<< v, e >>] = posts[<< v, e >>] + 1
        /\ \A w \in Events, f \in Endpoints :
              ~(w = v /\ f = e) => posts'[<< w, f >>] = posts[<< w, f >>]
    BY <1>1, <1>3 DEF TypeOK
  <1>7. Deleted' = Deleted /\ Doomed(p)' = Doomed(p)
    BY <1>1, <1>2, <1>4 DEF Deleted, Doomed
  <1>8. ~HasPosted(p, v, e) /\ HasPosted(p, v, e)'
    BY <1>2, <1>3, <1>5 DEF HasPosted
  <1>9. PostsOfRun(p, v, e)'
    <2>1. PostsOfRun(p, v, e)
      BY <1>1, <1>3 DEF RunRetries
    <2>2. /\ posts[<< v, e >>] \in Nat /\ event[v].attempts \in Nat
          /\ crashes \in Nat /\ Cardinality(Deleted \ Doomed(p)) \in Nat
      BY <1>1, <1>3, RetryNumbers
    <2>3. posts[<< v, e >>] <=
             event[v].attempts + 0 + crashes
             + Cardinality(Deleted \ Doomed(p))
      BY <1>8, <2>1 DEF PostsOfRun
    <2>4. posts[<< v, e >>] + 1 <=
             event[v].attempts + 1 + crashes
             + Cardinality(Deleted \ Doomed(p))
      BY <2>2, <2>3
    <2> QED
      BY <1>1, <1>6, <1>7, <1>8, <2>4 DEF PostsOfRun
  <1>10. ASSUME NEW w \in run[p].batch, NEW f \in Endpoints,
                ~(w = v /\ f = e)
         PROVE  PostsOfRun(p, w, f)'
    <2>1. w \in Events /\ PostsOfRun(p, w, f)
      BY <1>1, RunFields DEF RunRetries
    <2>2. HasPosted(p, w, f) => HasPosted(p, w, f)'
      BY <1>0, <1>2, <1>5 DEF HasPosted
    <2>3. event[w].attempts <= event'[w].attempts /\ crashes <= crashes'
      BY <1>1, <2>1, LimitsAssumption DEF TypeOK, OutboxRow
    <2> QED
      BY <1>1, <1>6, <1>7, <1>10, <2>1, <2>2, <2>3, PostsOfRunKept
  <1>11. EndpointsExisted(p)'
    BY <1>1, <1>2, <1>4 DEF RunRetries, EndpointsExisted
  <1>12. \A w \in run'[p].batch : \A f \in Endpoints : PostsOfRun(p, w, f)'
    BY <1>2, <1>9, <1>10
  <1>13. RunRetries(p)'
    BY <1>11, <1>12 DEF RunRetries
  <1>14. \A w \in Events \ run[p].batch :
            /\ event'[w] = event[w]
            /\ \A f \in Endpoints : posts'[<< w, f >>] = posts[<< w, f >>]
    BY <1>1, <1>3, <1>6
  <1>15. crashes <= crashes'
    BY <1>1, LimitsAssumption DEF TypeOK
  <1> QED
    BY <1>1, <1>2, <1>13, <1>14, <1>15, RunStepRetries

(***************************************************************************)
(* The run that ends leaves its events to the next: a commit has counted   *)
(* the attempt, a crash is counted, and the run that is rolled back for an *)
(* endpoint that has gone now lets that endpoint account for its POSTs.    *)
(***************************************************************************)
LEMMA EndedRetries ==
  ASSUME PublisherInv, TypeOK', RetryInv, NEW p \in Publishers,
         run' = [run EXCEPT ![p] = Idle], UNCHANGED << endpoint, posts >>,
         \A v \in Events \ run[p].batch : event'[v] = event[v],
         crashes <= crashes',
         \A v \in run[p].batch : \A e \in Endpoints :
            posts[<< v, e >>] <=
               event'[v].attempts + crashes' + Cardinality(Deleted)
  PROVE  RetryInv'
  <1>1. TypeOK
    BY DEF PublisherInv
  <1>2. /\ \A q \in Publishers \ {p} : run'[q] = run[q]
        /\ run'[p].batch = {} /\ run'[p].targets = {}
        /\ run'[p].added = {}
    BY <1>1, EndedRun
  <1>3. RunRetries(p)'
    BY <1>2 DEF RunRetries, EndpointsExisted
  <1>4. Deleted' = Deleted
    BY DEF Deleted
  <1>5. \A v \in run[p].batch \ run'[p].batch : \A e \in Endpoints :
           PostsOfRest(v, e)'
    BY <1>4 DEF PostsOfRest
  <1> QED
    BY <1>2, <1>3, <1>5, RunStepRetries

LEMMA CommitRunRetries ==
  ASSUME PublisherInv, TypeOK', RetryInv, NEW p \in Publishers, CommitRun(p)
  PROVE  RetryInv'
  <1>1. /\ TypeOK /\ RunRetries(p) /\ IsFiniteSet(Deleted)
        /\ run' = [run EXCEPT ![p] = Idle]
        /\ UNCHANGED << endpoint, posts, crashes >>
        /\ \A v \in Events \ run[p].batch : event'[v] = event[v]
    BY DEF PublisherInv, RetryInv, CommitRun, world
  <1>2. ASSUME NEW v \in run[p].batch, NEW e \in Endpoints
        PROVE  posts[<< v, e >>] <=
                  event'[v].attempts + crashes' + Cardinality(Deleted)
    <2>1. v \in Events /\ PostsOfRun(p, v, e)
      BY <1>1, RunFields DEF RunRetries
    <2>2. posts[<< v, e >>] <=
             event[v].attempts + 1 + crashes + Cardinality(Deleted)
      BY <1>1, <2>1, RunIsLeft
    <2>3. event'[v].attempts = event[v].attempts + 1
      BY CommitOutcome
    <2> QED
      BY <1>1, <2>2, <2>3
  <1>3. crashes <= crashes'
    BY <1>1, LimitsAssumption DEF TypeOK
  <1> QED
    BY <1>1, <1>2, <1>3, EndedRetries

LEMMA CrashRetries ==
  ASSUME PublisherInv, TypeOK', RetryInv, NEW p \in Publishers, Crash(p)
  PROVE  RetryInv'
  <1>1. /\ TypeOK /\ RunRetries(p) /\ IsFiniteSet(Deleted)
        /\ run' = [run EXCEPT ![p] = Idle] /\ crashes' = crashes + 1
        /\ UNCHANGED << event, endpoint, posts >>
    BY DEF PublisherInv, RetryInv, Crash, database
  <1>2. ASSUME NEW v \in run[p].batch, NEW e \in Endpoints
        PROVE  posts[<< v, e >>] <=
                  event'[v].attempts + crashes' + Cardinality(Deleted)
    <2>1. v \in Events /\ PostsOfRun(p, v, e)
      BY <1>1, RunFields DEF RunRetries
    <2>2. posts[<< v, e >>] <=
             event[v].attempts + 1 + crashes + Cardinality(Deleted)
      BY <1>1, <2>1, RunIsLeft
    <2>3. /\ posts[<< v, e >>] \in Nat /\ event[v].attempts \in Nat
          /\ crashes \in Nat /\ Cardinality(Deleted) \in Nat
      BY <1>1, <2>1, RetryNumbers
    <2> QED
      BY <1>1, <2>2, <2>3
  <1>3. crashes <= crashes'
    BY <1>1, LimitsAssumption DEF TypeOK
  <1> QED
    BY <1>1, <1>2, <1>3, EndedRetries

LEMMA IntegrityErrorRetries ==
  ASSUME PublisherInv, TypeOK', RetryInv, NEW p \in Publishers,
         IntegrityError(p)
  PROVE  RetryInv'
  <1>1. /\ TypeOK /\ RunRetries(p) /\ IsFiniteSet(Deleted)
        /\ run' = [run EXCEPT ![p] = Idle] /\ ~CanFlush(p)
        /\ UNCHANGED << event, endpoint, posts, crashes >>
    BY DEF PublisherInv, RetryInv, IntegrityError, database, world
  <1>2. PICK d \in run[p].added : endpoint[d.endpoint] # "present"
    BY <1>1 DEF CanFlush
  <1>3. d.endpoint \in Doomed(p)
    <2>1. d.endpoint \in Endpoints
      BY <1>1, <1>2, RunFields DEF Delivery
    <2>2. endpoint[d.endpoint] = "deleted"
      BY <1>1, <1>2, <2>1 DEF RunRetries, EndpointsExisted, TypeOK
    <2> QED
      BY <1>2, <2>1, <2>2 DEF Doomed, Deleted
  <1>4. Cardinality(Deleted \ Doomed(p)) + 1 <= Cardinality(Deleted)
    <2>1. d.endpoint \in Deleted
      BY <1>3 DEF Doomed
    <2>2. /\ IsFiniteSet(Deleted \ {d.endpoint})
          /\ Cardinality(Deleted \ {d.endpoint}) = Cardinality(Deleted) - 1
      BY <1>1, <2>1, FS_RemoveElement
    <2>3. Deleted \ Doomed(p) \in SUBSET (Deleted \ {d.endpoint})
      BY <1>3
    <2>4. Cardinality(Deleted \ Doomed(p)) <=
             Cardinality(Deleted \ {d.endpoint})
      BY <2>2, <2>3, FS_Subset
    <2>5. Cardinality(Deleted) \in Nat
          /\ Cardinality(Deleted \ Doomed(p)) \in Nat
      BY <1>1, FS_CardinalityType, FS_Difference
    <2> QED
      BY <2>2, <2>4, <2>5
  <1>5. ASSUME NEW v \in run[p].batch, NEW e \in Endpoints
        PROVE  posts[<< v, e >>] <=
                  event'[v].attempts + crashes' + Cardinality(Deleted)
    <2>1. v \in Events /\ PostsOfRun(p, v, e)
      BY <1>1, RunFields DEF RunRetries
    <2>2. /\ posts[<< v, e >>] \in Nat /\ event[v].attempts \in Nat
          /\ crashes \in Nat /\ Cardinality(Deleted) \in Nat
          /\ Cardinality(Deleted \ Doomed(p)) \in Nat
      BY <1>1, <2>1, RetryNumbers
    <2>3. posts[<< v, e >>] <=
             event[v].attempts + 1 + crashes
             + Cardinality(Deleted \ Doomed(p))
      BY <2>1, <2>2 DEF PostsOfRun
    <2> QED
      BY <1>1, <1>4, <2>2, <2>3
  <1>6. crashes <= crashes'
    BY <1>1, LimitsAssumption DEF TypeOK
  <1> QED
    BY <1>1, <1>5, <1>6, EndedRetries

LEMMA RetryInit == Init => RetryInv
  <1> SUFFICES ASSUME Init
               PROVE  RetryInv
    OBVIOUS
  <1>1. /\ \A v \in Events : event[v].attempts = 0
        /\ \A p \in Publishers :
              run[p].batch = {} /\ run[p].targets = {} /\ run[p].added = {}
        /\ \A v \in Events, e \in Endpoints : posts[<< v, e >>] = 0
        /\ crashes = 0
    BY DEF Init, Absent, Idle
  <1>2. Deleted = {}
    BY DEF Init, Deleted
  <1>3. IsFiniteSet(Deleted) /\ Cardinality(Deleted) = 0
    BY <1>2, FS_EmptySet
  <1>4. \A p \in Publishers : RunRetries(p)
    BY <1>1 DEF RunRetries, EndpointsExisted
  <1>5. RestRetries
    BY <1>1, <1>3 DEF RestRetries, PostsOfRest
  <1> QED
    BY <1>3, <1>4, <1>5 DEF RetryInv

LEMMA RetryNext ==
  PublisherInv /\ TypeOK' /\ RetryInv /\ [Next]_vars => RetryInv'
  <1> SUFFICES ASSUME PublisherInv, TypeOK', RetryInv, [Next]_vars
               PROVE  RetryInv'
    OBVIOUS
  <1>1. TypeOK
    BY DEF PublisherInv
  <1>2. ASSUME NEW v \in Events, Emit(v)
        PROVE  RetryInv'
    BY <1>1, <1>2, ApiStepRetries
  <1>3. ASSUME NEW e \in Endpoints, CreateWebhook(e) \/ DeleteWebhook(e)
        PROVE  RetryInv'
    BY <1>1, <1>3, ApiStepRetries
  <1>4. ASSUME NEW p \in Publishers, SelectEvents(p)
        PROVE  RetryInv'
    BY <1>4, SelectEventsRetries
  <1>5. ASSUME NEW p \in Publishers, Publish(p)
        PROVE  RetryInv'
    <2>1. ASSUME NEW e \in Endpoints,
                 NEW status \in { "delivered", "failed" },
                 Post(p, e, status)
          PROVE  RetryInv'
      BY <2>1, PostRetries
    <2> QED
      BY <1>5, <2>1, SelectEndpointsRetries, FinishEventRetries,
         CommitRunRetries, IntegrityErrorRetries DEF Publish
  <1>6. ASSUME NEW p \in Publishers, Crash(p)
        PROVE  RetryInv'
    BY <1>6, CrashRetries
  <1>7. CASE UNCHANGED vars
    BY <1>1, <1>7, ApiStepRetries
  <1> QED
    BY <1>2, <1>3, <1>4, <1>5, <1>6, <1>7 DEF Next

LEMMA RetriesFollow == PublisherInv /\ RetryInv => RetriesBounded
  <1> SUFFICES ASSUME PublisherInv, RetryInv,
                      NEW v \in Events, NEW e \in Endpoints
               PROVE  posts[<< v, e >>] <=
                         event[v].attempts + (IF Locked(v) THEN 1 ELSE 0)
                         + crashes + Cardinality(Deleted)
    BY DEF RetriesBounded, Deleted
  <1>1. TypeOK /\ IsFiniteSet(Deleted)
    BY DEF PublisherInv, RetryInv
  <1>2. CASE Locked(v)
    <2>1. PICK p \in Publishers : v \in run[p].batch
      BY <1>2 DEF Locked
    <2>2. PostsOfRun(p, v, e)
      BY <2>1 DEF RetryInv, RunRetries
    <2> QED
      BY <1>1, <1>2, <2>2, RunIsLeft
  <1>3. CASE ~Locked(v)
    <2>1. PostsOfRest(v, e)
      BY <1>3 DEF RetryInv, RestRetries
    <2>2. event[v].attempts + 0 = event[v].attempts
      BY <1>1 DEF TypeOK, OutboxRow
    <2> QED
      BY <1>3, <2>1, <2>2 DEF PostsOfRest
  <1> QED
    BY <1>2, <1>3

(***************************************************************************)
(* No receiver is sent an event more often than its attempts, the run that *)
(* has it, the runs that died, and the endpoints that were deleted.        *)
(***************************************************************************)
THEOREM RetriesAreBounded == Spec => []RetriesBounded
  <1>1. PublisherInv => TypeOK
    BY DEF PublisherInv
  <1>2. Spec => []RetryInv
    BY <1>1, RetryInit, RetryNext, PublisherInvariant, PTL DEF Spec
  <1> QED
    BY <1>2, RetriesFollow, PublisherInvariant, PTL
=============================================================================
