-------------------------- MODULE OutboxPublisher --------------------------
(***************************************************************************)
(* The publisher of app/worker.py: runs of _publish_outbox_events take the *)
(* pending rows of the outbox in batches, POST each event to the webhook   *)
(* endpoints of its project, and commit the outcome of the whole batch in  *)
(* one transaction, while the API inserts events and creates and deletes   *)
(* endpoints.                                                              *)
(*                                                                         *)
(* The rows of a batch are locked (FOR UPDATE SKIP LOCKED) from the query  *)
(* to the end of the run.  What a run has to write it keeps in its         *)
(* session; the session is flushed before the endpoints of the next event  *)
(* are read and at the commit, and there the foreign key of a delivery     *)
(* whose endpoint has been deleted fails, which rolls back the whole run.  *)
(* The POSTs of a run that is rolled back have been sent all the same.     *)
(***************************************************************************)
EXTENDS Naturals, FiniteSets

CONSTANTS
    Events,          \* the rows of outbox_events, in the order of created_at
    Endpoints,       \* the rows of webhook_endpoints
    Matches,         \* Matches[v]: the endpoints event v is for, by project
                     \* and by event_matches
    Publishers,      \* the runs of publish_outbox_events at the same time
    BatchLimit,      \* LIMIT of the query, 50 in the code
    MaxAttempts,     \* attempts before an event is given up, 5 in the code
    MaxCrashes       \* bound: so many runs die

ASSUME EventsAssumption ==
    /\ Events \subseteq Nat
    /\ IsFiniteSet(Events)
    /\ Matches \in [Events -> SUBSET Endpoints]

ASSUME LimitsAssumption ==
    /\ BatchLimit \in Nat \ {0}
    /\ MaxAttempts \in Nat \ {0}
    /\ MaxCrashes \in Nat

VARIABLES
    event,        \* the committed rows of outbox_events
    endpoint,     \* the state of each row of webhook_endpoints
    deliveries,   \* the committed rows of webhook_deliveries
    run,          \* the run and the session of each publisher
    posts,        \* how often each event was POSTed to each endpoint
    acked,        \* the (event, endpoint) pairs whose receiver answered 2xx
    audience,     \* the endpoints there were for an event when it was stored
    crashes       \* how many runs have died

database == << event, endpoint, deliveries >>

world == << posts, acked, audience, crashes >>

vars == << event, endpoint, deliveries, run, posts, acked, audience, crashes >>

-----------------------------------------------------------------------------

OutboxStatuses == { "absent", "pending", "published", "failed" }

OutboxRow == [ status : OutboxStatuses, attempts : 0..MaxAttempts ]

(***************************************************************************)
(* A row of webhook_deliveries; attempt tells the rows of one event and    *)
(* one endpoint apart.                                                     *)
(***************************************************************************)
Delivery ==
    [ event : Events, endpoint : Endpoints, attempt : 1..MaxAttempts,
      status : { "delivered", "failed" } ]

(***************************************************************************)
(* A run: the rows it has locked, those it has still to publish, the       *)
(* endpoints read for the current event and not yet POSTed to, and the     *)
(* session: the new event rows, and the delivery rows added since the last *)
(* flush and those already flushed.                                        *)
(***************************************************************************)
Run ==
    [ step : { "idle", "next", "post" },
      batch : SUBSET Events, todo : SUBSET Events,
      targets : SUBSET Endpoints, succeeded : BOOLEAN,
      outcome : [Events -> OutboxRow],
      added : SUBSET Delivery, flushed : SUBSET Delivery ]

(***************************************************************************)
(* A publisher without a run; its outcome is never read.                   *)
(***************************************************************************)
Absent == [ status |-> "absent", attempts |-> 0 ]

Idle ==
    [ step |-> "idle", batch |-> {}, todo |-> {}, targets |-> {},
      succeeded |-> TRUE, outcome |-> [ v \in Events |-> Absent ],
      added |-> {}, flushed |-> {} ]

Current(p) == CHOOSE v \in run[p].todo : \A w \in run[p].todo : v <= w

Locked(v) == \E p \in Publishers : v \in run[p].batch

-----------------------------------------------------------------------------
(***************************************************************************)
(* The API, in transactions of its own: record_domain_event, of the        *)
(* workflow; create_webhook; delete_webhook, which deletes the deliveries  *)
(* of the endpoint with it (ON DELETE CASCADE) and waits for a run that    *)
(* has flushed a delivery to the endpoint.                                 *)
(***************************************************************************)
Emit(v) ==
    /\ event[v].status = "absent"
    /\ event' = [event EXCEPT ![v].status = "pending"]
    /\ audience' = [audience EXCEPT ![v] =
          { e \in Matches[v] : endpoint[e] = "present" }]
    /\ UNCHANGED << endpoint, deliveries, run, posts, acked, crashes >>

CreateWebhook(e) ==
    /\ endpoint[e] = "absent"
    /\ endpoint' = [endpoint EXCEPT ![e] = "present"]
    /\ UNCHANGED << event, deliveries, run, world >>

KeyShared(e) ==
    \E p \in Publishers : \E d \in run[p].flushed : d.endpoint = e

DeleteWebhook(e) ==
    /\ endpoint[e] = "present"
    /\ ~KeyShared(e)
    /\ endpoint' = [endpoint EXCEPT ![e] = "deleted"]
    /\ deliveries' = { d \in deliveries : d.endpoint # e }
    /\ UNCHANGED << event, run, world >>

-----------------------------------------------------------------------------
(***************************************************************************)
(* The batch: the BatchLimit oldest pending rows that no other run holds.  *)
(***************************************************************************)
AlsoLocked(v) == event[v].status = "pending" \* fault: no FOR UPDATE

OnlyNew(v) ==                      \* fault: events that failed not selected
    event[v].status = "pending" /\ event[v].attempts = 0 /\ ~Locked(v)

Available(v) == event[v].status = "pending" /\ ~Locked(v)

Oldest(S) ==
    { v \in S : Cardinality({ w \in S : w < v }) < BatchLimit }

SelectEvents(p) ==
    /\ run[p].step = "idle"
    /\ LET batch == Oldest({ v \in Events : Available(v) })
       IN  /\ batch # {}
           /\ run' = [run EXCEPT ![p] =
                 [Idle EXCEPT !.step = "next", !.batch = batch,
                              !.todo = batch]]
    /\ UNCHANGED << database, world >>

(***************************************************************************)
(* A flush inserts the added deliveries; it fails when the endpoint of one *)
(* of them is gone.                                                        *)
(***************************************************************************)
AlwaysFlushed(p) == TRUE           \* fault: no foreign key to the endpoint

CanFlush(p) == \A d \in run[p].added : endpoint[d.endpoint] = "present"

(***************************************************************************)
(* The first statement of _publish_event flushes the session and reads the *)
(* endpoints of the current event.                                         *)
(***************************************************************************)
SelectEndpoints(p) ==
    /\ run[p].step = "next"
    /\ run[p].todo # {}
    /\ CanFlush(p)
    /\ run' = [run EXCEPT ![p] =
          [run[p] EXCEPT !.step = "post",
                         !.targets = { e \in Matches[Current(p)] :
                                         endpoint[e] = "present" },
                         !.succeeded = TRUE,
                         !.flushed = @ \cup run[p].added,
                         !.added = {}]]
    /\ UNCHANGED << database, world >>

(***************************************************************************)
(* One POST.  The receiver answers 2xx, or the POST fails: an answer with  *)
(* another status, or no answer in time, whatever the receiver made of it. *)
(***************************************************************************)
Added(p, e, status) ==
    [ event |-> Current(p), endpoint |-> e,
      attempt |-> event[Current(p)].attempts + 1, status |-> status ]

LastSucceeded(p, status) ==        \* fault: the last POST decides
    status = "delivered"

AllSucceeded(p, status) == run[p].succeeded /\ status = "delivered"

Post(p, e, status) ==
    /\ run[p].step = "post"
    /\ e \in run[p].targets
    /\ run' = [run EXCEPT ![p] =
          [run[p] EXCEPT !.targets = @ \ {e},
                         !.succeeded = AllSucceeded(p, status),
                         !.added = @ \cup { Added(p, e, status) }]]
    /\ posts' = [posts EXCEPT ![<< Current(p), e >>] = @ + 1]
    /\ acked' = IF status = "delivered"
                THEN acked \cup { << Current(p), e >> } ELSE acked
    /\ UNCHANGED << database, audience, crashes >>

(***************************************************************************)
(* The end of _publish_event: the attempt is counted, and the event is     *)
(* published when every POST of this attempt succeeded.                    *)
(***************************************************************************)
OneTooMany(attempts, succeeded) == \* fault: > for >=
    [ attempts |-> attempts + 1,
      status |-> IF succeeded THEN "published"
                 ELSE IF attempts + 1 > MaxAttempts THEN "failed"
                 ELSE "pending" ]

OneTooFew(attempts, succeeded) ==  \* fault: the limit less one
    [ attempts |-> attempts + 1,
      status |-> IF succeeded THEN "published"
                 ELSE IF attempts + 2 >= MaxAttempts THEN "failed"
                 ELSE "pending" ]

NotCounted(attempts, succeeded) == \* fault: only a success is counted
    [ attempts |-> IF succeeded THEN attempts + 1 ELSE attempts,
      status |-> IF succeeded THEN "published" ELSE "pending" ]

Outcome(attempts, succeeded) ==
    [ attempts |-> attempts + 1,
      status |-> IF succeeded THEN "published"
                 ELSE IF attempts + 1 >= MaxAttempts THEN "failed"
                 ELSE "pending" ]

FinishEvent(p) ==
    /\ run[p].step = "post"
    /\ run[p].targets = {}
    /\ run' = [run EXCEPT ![p] =
          [run[p] EXCEPT !.step = "next",
                         !.todo = @ \ { Current(p) },
                         !.outcome[Current(p)] =
                             Outcome(event[Current(p)].attempts,
                                     run[p].succeeded)]]
    /\ UNCHANGED << database, world >>

(***************************************************************************)
(* session.commit(), after the last event.                                 *)
(***************************************************************************)
CommitRun(p) ==
    /\ run[p].step = "next"
    /\ run[p].todo = {}
    /\ CanFlush(p)
    /\ event' = [ v \in Events |-> IF v \in run[p].batch
                                   THEN run[p].outcome[v] ELSE event[v] ]
    /\ deliveries' = deliveries \cup run[p].flushed \cup run[p].added
    /\ run' = [run EXCEPT ![p] = Idle]
    /\ UNCHANGED << endpoint, world >>

(***************************************************************************)
(* IntegrityError out of the flush: the task fails, nothing is committed.  *)
(***************************************************************************)
IntegrityError(p) ==
    /\ run[p].step = "next"
    /\ ~CanFlush(p)
    /\ run' = [run EXCEPT ![p] = Idle]
    /\ UNCHANGED << database, world >>

(***************************************************************************)
(* The worker dies, or _publish_event raises what it does not catch (httpx *)
(* has errors that are no HTTPError); the database rolls back and releases *)
(* the rows.                                                               *)
(***************************************************************************)
Crash(p) ==
    /\ run[p].step # "idle"
    /\ crashes < MaxCrashes
    /\ crashes' = crashes + 1
    /\ run' = [run EXCEPT ![p] = Idle]
    /\ UNCHANGED << database, posts, acked, audience >>

-----------------------------------------------------------------------------

Init ==
    /\ event = [ v \in Events |-> Absent ]
    /\ endpoint = [ e \in Endpoints |-> "absent" ]
    /\ deliveries = {}
    /\ run = [ p \in Publishers |-> Idle ]
    /\ posts = [ x \in Events \X Endpoints |-> 0 ]
    /\ acked = {}
    /\ audience = [ v \in Events |-> {} ]
    /\ crashes = 0

Publish(p) ==
    \/ SelectEndpoints(p)
    \/ \E e \in Endpoints, status \in { "delivered", "failed" } :
          Post(p, e, status)
    \/ FinishEvent(p)
    \/ CommitRun(p)
    \/ IntegrityError(p)

Next ==
    \/ \E v \in Events : Emit(v)
    \/ \E e \in Endpoints : CreateWebhook(e) \/ DeleteWebhook(e)
    \/ \E p \in Publishers : SelectEvents(p) \/ Publish(p) \/ Crash(p)

Spec == Init /\ [][Next]_vars

(***************************************************************************)
(* Celery Beat sends the task every 10 seconds for ever and a run comes to *)
(* its end: POSTs have a timeout.  Only MaxCrashes runs die.  Nothing      *)
(* forces a receiver to answer 2xx.                                        *)
(***************************************************************************)
Fairness ==
    \A p \in Publishers : WF_vars(SelectEvents(p)) /\ WF_vars(Publish(p))

FairSpec == Spec /\ Fairness

-----------------------------------------------------------------------------
(***************************************************************************)
(* Properties.                                                             *)
(***************************************************************************)

(***************************************************************************)
(* The tables and the sessions have the types of app/models/webhook.py.    *)
(***************************************************************************)
TypeOK ==
    /\ event \in [Events -> OutboxRow]
    /\ endpoint \in [Endpoints -> { "absent", "present", "deleted" }]
    /\ deliveries \subseteq Delivery
    /\ run \in [Publishers -> Run]
    /\ posts \in [Events \X Endpoints -> Nat]
    /\ acked \subseteq Events \X Endpoints
    /\ audience \in [Events -> SUBSET Endpoints]
    /\ crashes \in 0..MaxCrashes

(***************************************************************************)
(* "Will downstream systems receive events if a process crashes?"  An      *)
(* event is published only when each endpoint that was there when it was   *)
(* stored, and still is, has answered it with 2xx, and the delivery        *)
(* history says so.  (_publish_event: all_succeeded.)                      *)
(***************************************************************************)
PublishedWasReceived ==
    \A v \in Events : event[v].status = "published" =>
        \A e \in audience[v] : endpoint[e] = "present" =>
            /\ << v, e >> \in acked
            /\ \E d \in deliveries :
                  d.event = v /\ d.endpoint = e /\ d.status = "delivered"

(***************************************************************************)
(* The delivery history of the endpoints that are still there is exact:    *)
(* one row for each attempt the event counts, none for another attempt,    *)
(* and a row says delivered only when the receiver answered 2xx.           *)
(***************************************************************************)
RowsOf(v, e, n) ==
    { d \in deliveries : d.event = v /\ d.endpoint = e /\ d.attempt = n }

DeliveryHistoryExact ==
    /\ \A v \in Events : \A e \in audience[v] : endpoint[e] = "present" =>
          \A n \in 1..MaxAttempts :
              Cardinality(RowsOf(v, e, n)) =
                  IF n <= event[v].attempts THEN 1 ELSE 0
    /\ \A d \in deliveries :
          /\ endpoint[d.endpoint] = "present"
          /\ d.attempt <= event[d.event].attempts
          /\ d.status = "delivered" => << d.event, d.endpoint >> \in acked

(***************************************************************************)
(* An event is given up after MaxAttempts attempts and not before, and     *)
(* each of them failed: it has left a failed delivery, which is lost only  *)
(* when an endpoint is deleted.  (The limit in _publish_event; attempts    *)
(* that were rolled back are not among them.)                              *)
(***************************************************************************)
FailedAttempt(v, n) ==
    \/ \E d \in deliveries :
          d.event = v /\ d.attempt = n /\ d.status = "failed"
    \/ \E e \in Matches[v] : endpoint[e] = "deleted"

GivenUpInTheEnd ==
    \A v \in Events : event[v].status = "failed" =>
        /\ event[v].attempts = MaxAttempts
        /\ \A n \in 1..MaxAttempts : FailedAttempt(v, n)

(***************************************************************************)
(* How many times a receiver can be sent one event: once per attempt the   *)
(* event counts and once in a run that has it now, and once more for each  *)
(* run that died and each endpoint that was deleted.  (event.attempts is   *)
(* rolled back with the run.)                                              *)
(***************************************************************************)
RetriesBounded ==
    \A v \in Events : \A e \in Endpoints :
        posts[<< v, e >>] <=
            event[v].attempts + (IF Locked(v) THEN 1 ELSE 0) + crashes
            + Cardinality({ x \in Endpoints : endpoint[x] = "deleted" })

(***************************************************************************)
(* Runs do not overlap: an event is POSTed only while it is pending, no    *)
(* commit takes back an outcome, and each commit counts one attempt.       *)
(* (FOR UPDATE SKIP LOCKED; outbox_events has no version column.)          *)
(***************************************************************************)
OneRunAtATime ==
    [][ \A v \in Events :
          /\ (\E e \in Endpoints : posts'[<< v, e >>] # posts[<< v, e >>])
                => event[v].status = "pending"
          /\ event[v].status \in { "published", "failed" }
                => event'[v] = event[v]
          /\ event[v].status = "pending" /\ event'[v] # event[v]
                => event'[v].attempts = event[v].attempts + 1 ]_vars

(***************************************************************************)
(* The publisher implements what is promised to the receivers, though its  *)
(* runs overlap, die, and are rolled back with their POSTs sent.           *)
(***************************************************************************)
Promise == INSTANCE OutboxDelivery WITH
    fate <- [ v \in Events |-> event[v].status ],
    listening <- endpoint,
    owed <- audience,
    received <- acked

ImplementsDelivery == Promise!Spec

(***************************************************************************)
(* Every event that is stored is published or given up in the end, though  *)
(* a batch takes the oldest rows first, one endpoint that fails makes the  *)
(* event be sent again, and a deleted endpoint rolls a whole batch back.   *)
(***************************************************************************)
EventsSettle ==
    \A v \in Events :
        event[v].status = "pending" ~> event[v].status \in { "published",
                                                             "failed" }

(***************************************************************************)
(* README.md:60, "bounded retries", and MaxAttempts in the code: no        *)
(* receiver is sent an event more than MaxAttempts times.  The code does   *)
(* not keep this promise even when no process dies: a run that meets a     *)
(* deleted endpoint is rolled back, and its attempts are not counted.      *)
(***************************************************************************)
AtMostMaxAttempts ==
    \A x \in Events \X Endpoints : posts[x] <= MaxAttempts
=============================================================================
