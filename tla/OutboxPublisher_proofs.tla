----------------------- MODULE OutboxPublisher_proofs -----------------------
(***************************************************************************)
(* What the runs of the publisher keep, for any number of events,          *)
(* endpoints, runs, attempts and crashes, and any size of a batch.         *)
(***************************************************************************)
EXTENDS OutboxPublisher, WellFoundedInduction, TLAPS

(***************************************************************************)
(* The deliveries in the session of a run, flushed or not, and what the    *)
(* run has POSTed.                                                         *)
(***************************************************************************)
Session(p) == run[p].added \cup run[p].flushed

HasPosted(p, v, e) ==
    /\ v \in run[p].batch
    /\ v \in run[p].todo =>
          /\ run[p].step = "post"
          /\ v = Current(p)
          /\ e \notin run[p].targets

(***************************************************************************)
(* A run holds what no other run holds, all of it pending.                 *)
(***************************************************************************)
RunsExclude ==
    \A p, q \in Publishers : p # q => run[p].batch \cap run[q].batch = {}

HoldsPending(p) ==
    /\ run[p].todo \subseteq run[p].batch
    /\ \A v \in run[p].batch : event[v].status = "pending"
    /\ run[p].step = "idle" => run[p].batch = {}
    /\ run[p].step = "post" => run[p].todo # {}
    /\ run[p].step # "post" => run[p].targets = {}

(***************************************************************************)
(* The session has one delivery for each POST of the attempt that is being *)
(* made, and none else.                                                    *)
(***************************************************************************)
SessionIsOwn(p) ==
    \A d \in Session(p) :
        /\ HasPosted(p, d.event, d.endpoint)
        /\ d.attempt = event[d.event].attempts + 1
        /\ d.status = "delivered" => << d.event, d.endpoint >> \in acked

SessionOnce(p) ==
    \A c, d \in Session(p) :
        c.event = d.event /\ c.endpoint = d.endpoint => c = d

SessionComplete(p) ==
    \A v \in run[p].batch : \A e \in audience[v] :
        endpoint[e] = "present" /\ HasPosted(p, v, e) =>
            \E d \in Session(p) : d.event = v /\ d.endpoint = e

FlushedIsThere(p) ==
    \A d \in run[p].flushed : endpoint[d.endpoint] = "present"

AllDelivered(p, v) ==
    \A d \in Session(p) : d.event = v => d.status = "delivered"

OutcomeIsTrue(p) ==
    /\ \A v \in run[p].batch \ run[p].todo :
          \E succeeded \in BOOLEAN :
              /\ run[p].outcome[v] = Outcome(event[v].attempts, succeeded)
              /\ succeeded => AllDelivered(p, v)
    /\ run[p].step = "post" /\ run[p].succeeded =>
          AllDelivered(p, Current(p))

RunInv(p) ==
    /\ HoldsPending(p)
    /\ SessionIsOwn(p) /\ SessionOnce(p) /\ SessionComplete(p)
    /\ FlushedIsThere(p)
    /\ OutcomeIsTrue(p)

(***************************************************************************)
(* What is committed.                                                      *)
(***************************************************************************)
AttemptsLeft ==
    \A v \in Events :
        /\ event[v].status = "absent" => event[v].attempts = 0
        /\ event[v].status = "pending" => event[v].attempts < MaxAttempts

AudienceExisted ==
    \A v \in Events : \A e \in audience[v] :
        e \in Matches[v] /\ endpoint[e] # "absent"

DeliveryOnce ==
    \A c, d \in deliveries :
        /\ c.event = d.event /\ c.endpoint = d.endpoint
        /\ c.attempt = d.attempt
        => c = d

DeliveryComplete ==
    \A v \in Events : \A e \in audience[v] : endpoint[e] = "present" =>
        \A n \in 1..event[v].attempts : RowsOf(v, e, n) # {}

DeliveryIsTrue ==
    \A d \in deliveries :
        /\ endpoint[d.endpoint] = "present"
        /\ d.attempt <= event[d.event].attempts
        /\ d.status = "delivered" => << d.event, d.endpoint >> \in acked

DatabaseInv ==
    /\ AttemptsLeft /\ AudienceExisted
    /\ DeliveryOnce /\ DeliveryComplete /\ DeliveryIsTrue
    /\ PublishedWasReceived

PublisherInv ==
    /\ TypeOK
    /\ RunsExclude
    /\ \A p \in Publishers : RunInv(p)
    /\ DatabaseInv

-----------------------------------------------------------------------------
(***************************************************************************)
(* There is a smallest element in a set of numbers, so that a run that has *)
(* events left to publish has a current one, which is one of them.         *)
(***************************************************************************)
LEMMA Smallest ==
  ASSUME NEW S \in SUBSET Nat, S # {}
  PROVE  \E v \in S : \A w \in S : v <= w
  <1> DEFINE R == OpToRel(<, Nat)
  <1>1. PICK v \in S : \A w \in S : ~(<< w, v >> \in R)
    BY NatLessThanWellFounded, WFMin
  <1>2. \A w \in S : << w, v >> \in R <=> w < v
    BY DEF OpToRel
  <1> HIDE DEF R
  <1>3. \A w \in S : ~(w < v)
    BY <1>1, <1>2
  <1> QED
    BY <1>3

LEMMA CurrentIsToDo ==
  ASSUME TypeOK, NEW p \in Publishers, run[p].todo # {}
  PROVE  Current(p) \in run[p].todo /\ Current(p) \in Events
  <1>1. run[p].todo \subseteq Events /\ run[p].todo \in SUBSET Nat
    BY EventsAssumption DEF TypeOK, Run
  <1>2. \E v \in run[p].todo : \A w \in run[p].todo : v <= w
    BY <1>1, Smallest
  <1> QED
    BY <1>1, <1>2 DEF Current

(***************************************************************************)
(* The types of the fields of a run.                                       *)
(***************************************************************************)
LEMMA RunFields ==
  ASSUME TypeOK, NEW p \in Publishers
  PROVE  /\ run[p].step \in { "idle", "next", "post" }
         /\ run[p].batch \subseteq Events
         /\ run[p].todo \subseteq Events
         /\ run[p].targets \subseteq Endpoints
         /\ run[p].succeeded \in BOOLEAN
         /\ run[p].outcome \in [Events -> OutboxRow]
         /\ run[p].added \subseteq Delivery
         /\ run[p].flushed \subseteq Delivery
         /\ Session(p) \subseteq Delivery
  BY DEF TypeOK, Run, Session

LEMMA IdleIsRun == Idle \in Run
  <1>1. Absent \in OutboxRow
    BY LimitsAssumption DEF Absent, OutboxRow, OutboxStatuses
  <1> QED
    BY <1>1 DEF Idle, Run

(***************************************************************************)
(* What each step of a run makes of the run.                               *)
(***************************************************************************)
LEMMA SelectEventsRun ==
  ASSUME TypeOK, NEW p \in Publishers, SelectEvents(p)
  PROVE  /\ run' \in [Publishers -> Run]
         /\ \A q \in Publishers \ {p} : run'[q] = run[q]
         /\ run[p].step = "idle"
         /\ run'[p].step = "next"
         /\ run'[p].batch \subseteq { v \in Events : Available(v) }
         /\ run'[p].todo = run'[p].batch
         /\ run'[p].targets = {} /\ run'[p].added = {}
         /\ run'[p].flushed = {}
  <1> DEFINE batch == Oldest({ v \in Events : Available(v) })
             started == [Idle EXCEPT !.step = "next", !.batch = batch,
                                     !.todo = batch]
  <1>1. batch \subseteq { v \in Events : Available(v) }
    BY DEF Oldest
  <1>2. run' = [run EXCEPT ![p] = started] /\ run[p].step = "idle"
    BY DEF SelectEvents
  <1>3. /\ Idle \in Run /\ Idle.targets = {}
        /\ Idle.added = {} /\ Idle.flushed = {}
    BY IdleIsRun DEF Idle
  <1> HIDE DEF batch
  <1>4. started \in Run
    <2> DEFINE a == [Idle EXCEPT !.step = "next", !.batch = batch]
               b == [a EXCEPT !.todo = batch]
    <2>1. a \in Run
      BY <1>1, <1>3 DEF Run
    <2> HIDE DEF a
    <2>2. b \in Run
      BY <1>1, <2>1 DEF Run
    <2>3. started = b
      BY DEF a
    <2> QED
      BY <2>2, <2>3
  <1>5. /\ started.step = "next" /\ started.batch = batch
        /\ started.todo = batch
    BY <1>3 DEF Run
  <1>6. /\ started.targets = {}
        /\ started.added = {} /\ started.flushed = {}
    BY <1>3 DEF Run
  <1> HIDE DEF started
  <1>7. run'[p] = started /\ \A q \in Publishers \ {p} : run'[q] = run[q]
    BY <1>2 DEF TypeOK
  <1>8. run' \in [Publishers -> Run]
    BY <1>2, <1>4 DEF TypeOK
  <1> QED
    BY <1>1, <1>2, <1>5, <1>6, <1>7, <1>8

LEMMA SelectEndpointsRun ==
  ASSUME TypeOK, NEW p \in Publishers, SelectEndpoints(p)
  PROVE  /\ run' \in [Publishers -> Run]
         /\ \A q \in Publishers \ {p} : run'[q] = run[q]
         /\ run[p].step = "next" /\ run[p].todo # {}
         /\ run'[p].step = "post"
         /\ run'[p].batch = run[p].batch /\ run'[p].todo = run[p].todo
         /\ run'[p].targets = { e \in Matches[Current(p)] :
                                  endpoint[e] = "present" }
         /\ run'[p].succeeded = TRUE
         /\ run'[p].outcome = run[p].outcome
         /\ run'[p].flushed = Session(p) /\ run'[p].added = {}
  <1> DEFINE targets == { e \in Matches[Current(p)] :
                            endpoint[e] = "present" }
             old == run[p]
             new == [old EXCEPT !.step = "post", !.targets = targets,
                                !.succeeded = TRUE,
                                !.flushed = @ \cup old.added,
                                !.added = {}]
  <1>1. run' = [run EXCEPT ![p] = new]
        /\ old.step = "next" /\ old.todo # {}
    BY DEF SelectEndpoints, TypeOK
  <1>2. targets \subseteq Endpoints
    BY <1>1, CurrentIsToDo, EventsAssumption
  <1>3. old \in Run
    BY DEF TypeOK
  <1>4. Session(p) = old.flushed \cup old.added
    BY DEF Session
  <1> HIDE DEF targets, old
  <1>5. /\ new.step = "post" /\ new.batch = old.batch
        /\ new.todo = old.todo /\ new.targets = targets
        /\ new.succeeded = TRUE /\ new.outcome = old.outcome
    BY <1>3 DEF Run
  <1>6. new.flushed = old.flushed \cup old.added /\ new.added = {}
    BY <1>3 DEF Run
  <1>7. new \in Run
    <2> DEFINE a == [old EXCEPT !.step = "post", !.targets = targets]
               b == [a EXCEPT !.succeeded = TRUE]
               c == [b EXCEPT !.flushed = @ \cup old.added]
               d == [c EXCEPT !.added = {}]
    <2>1. old.flushed \subseteq Delivery /\ old.added \subseteq Delivery
      BY <1>3 DEF Run
    <2>2. a \in Run /\ a.flushed = old.flushed
      BY <1>2, <1>3 DEF Run
    <2> HIDE DEF a
    <2>3. b \in Run /\ b.flushed = old.flushed
      BY <2>2 DEF Run
    <2> HIDE DEF b
    <2>4. c \in Run
      BY <2>1, <2>3 DEF Run
    <2> HIDE DEF c
    <2>5. d \in Run
      BY <2>4 DEF Run
    <2>6. new = d
      BY DEF a, b, c
    <2> QED
      BY <2>5, <2>6
  <1> HIDE DEF new
  <1>8. run'[p] = new /\ \A q \in Publishers \ {p} : run'[q] = run[q]
    BY <1>1 DEF TypeOK
  <1>9. run' \in [Publishers -> Run]
    BY <1>1, <1>7 DEF TypeOK
  <1> QED
    BY <1>1, <1>4, <1>5, <1>6, <1>8, <1>9 DEF targets, old

(***************************************************************************)
(* The delivery that a POST adds to the session.                           *)
(***************************************************************************)
LEMMA AddedIsDelivery ==
  ASSUME TypeOK, AttemptsLeft, NEW p \in Publishers, HoldsPending(p),
         run[p].todo # {},
         NEW e \in Endpoints, NEW status \in { "delivered", "failed" }
  PROVE  /\ Added(p, e, status) \in Delivery
         /\ Added(p, e, status).event = Current(p)
         /\ Added(p, e, status).endpoint = e
         /\ Added(p, e, status).attempt = event[Current(p)].attempts + 1
         /\ Added(p, e, status).status = status
  <1> DEFINE v == Current(p)
  <1>1. v \in Events /\ v \in run[p].batch
    BY CurrentIsToDo DEF HoldsPending
  <1>2. event[v] \in OutboxRow /\ event[v].status = "pending"
    BY <1>1 DEF TypeOK, HoldsPending
  <1>3. event[v].attempts \in Nat /\ event[v].attempts < MaxAttempts
    BY <1>1, <1>2 DEF AttemptsLeft, OutboxRow
  <1>4. event[v].attempts + 1 \in 1..MaxAttempts
    BY <1>3, LimitsAssumption
  <1> QED
    BY <1>1, <1>4 DEF Added, Delivery

LEMMA PostRun ==
  ASSUME TypeOK, AttemptsLeft, NEW p \in Publishers, HoldsPending(p),
         NEW e \in Endpoints, NEW status \in { "delivered", "failed" },
         Post(p, e, status)
  PROVE  /\ run' \in [Publishers -> Run]
         /\ \A q \in Publishers \ {p} : run'[q] = run[q]
         /\ run[p].step = "post" /\ run[p].todo # {}
         /\ e \in run[p].targets
         /\ run'[p].step = "post"
         /\ run'[p].batch = run[p].batch /\ run'[p].todo = run[p].todo
         /\ run'[p].targets = run[p].targets \ {e}
         /\ run'[p].succeeded = (run[p].succeeded /\ status = "delivered")
         /\ run'[p].outcome = run[p].outcome
         /\ run'[p].flushed = run[p].flushed
         /\ run'[p].added = run[p].added \cup { Added(p, e, status) }
  <1> DEFINE row == Added(p, e, status)
             succeeded == AllSucceeded(p, status)
             old == run[p]
             new == [old EXCEPT !.targets = @ \ {e},
                                !.succeeded = succeeded,
                                !.added = @ \cup { row }]
  <1>1. run' = [run EXCEPT ![p] = new]
        /\ old.step = "post" /\ old.todo # {} /\ e \in old.targets
    BY DEF Post, HoldsPending
  <1>2. row \in Delivery
    BY <1>1, AddedIsDelivery
  <1>3. old \in Run
    BY DEF TypeOK
  <1>4. succeeded \in BOOLEAN
        /\ succeeded = (old.succeeded /\ status = "delivered")
    BY DEF AllSucceeded
  <1> HIDE DEF row, succeeded, old
  <1>5. /\ new.step = old.step /\ new.batch = old.batch
        /\ new.todo = old.todo /\ new.targets = old.targets \ {e}
        /\ new.outcome = old.outcome /\ new.flushed = old.flushed
    BY <1>3 DEF Run
  <1>6. new.succeeded = succeeded /\ new.added = old.added \cup { row }
    BY <1>3 DEF Run
  <1>7. new \in Run
    <2> DEFINE a == [old EXCEPT !.targets = @ \ {e}]
               b == [a EXCEPT !.succeeded = succeeded]
               c == [b EXCEPT !.added = @ \cup { row }]
    <2>1. a \in Run
      BY <1>3 DEF Run
    <2> HIDE DEF a
    <2>2. b \in Run
      BY <1>4, <2>1 DEF Run
    <2> HIDE DEF b
    <2>3. c \in Run
      BY <1>2, <2>2 DEF Run
    <2>4. new = c
      BY DEF a, b
    <2> QED
      BY <2>3, <2>4
  <1> HIDE DEF new
  <1>8. run'[p] = new /\ \A q \in Publishers \ {p} : run'[q] = run[q]
    BY <1>1 DEF TypeOK
  <1>9. run' \in [Publishers -> Run]
    BY <1>1, <1>7 DEF TypeOK
  <1> QED
    BY <1>1, <1>4, <1>5, <1>6, <1>8, <1>9 DEF row, old

LEMMA OutcomeIsRow ==
  ASSUME NEW attempts \in Nat, attempts < MaxAttempts,
         NEW succeeded \in BOOLEAN
  PROVE  /\ Outcome(attempts, succeeded) \in OutboxRow
         /\ Outcome(attempts, succeeded).attempts = attempts + 1
         /\ Outcome(attempts, succeeded).status # "absent"
         /\ Outcome(attempts, succeeded).status = "pending" =>
               attempts + 1 < MaxAttempts
         /\ Outcome(attempts, succeeded).status = "published" <=> succeeded
  BY LimitsAssumption DEF Outcome, OutboxRow, OutboxStatuses

LEMMA FinishEventRun ==
  ASSUME TypeOK, AttemptsLeft, NEW p \in Publishers, HoldsPending(p),
         FinishEvent(p)
  PROVE  /\ run' \in [Publishers -> Run]
         /\ \A q \in Publishers \ {p} : run'[q] = run[q]
         /\ run[p].step = "post" /\ run[p].todo # {}
         /\ run[p].targets = {}
         /\ run'[p].step = "next"
         /\ run'[p].batch = run[p].batch
         /\ run'[p].todo = run[p].todo \ { Current(p) }
         /\ run'[p].targets = run[p].targets
         /\ run'[p].outcome[Current(p)] =
               Outcome(event[Current(p)].attempts, run[p].succeeded)
         /\ \A v \in Events \ { Current(p) } :
               run'[p].outcome[v] = run[p].outcome[v]
         /\ run'[p].flushed = run[p].flushed
         /\ run'[p].added = run[p].added
  <1> DEFINE current == Current(p)
             row == Outcome(event[current].attempts, run[p].succeeded)
             old == run[p]
             new == [old EXCEPT !.step = "next",
                                !.todo = @ \ { current },
                                !.outcome[current] = row]
  <1>1. run' = [run EXCEPT ![p] = new]
        /\ old.step = "post" /\ old.todo # {} /\ old.targets = {}
    BY DEF FinishEvent, HoldsPending
  <1>2. old \in Run
    BY DEF TypeOK
  <1>3. current \in Events /\ current \in old.batch
    BY <1>1, CurrentIsToDo DEF HoldsPending
  <1>4. event[current] \in OutboxRow /\ event[current].status = "pending"
    BY <1>3 DEF TypeOK, HoldsPending
  <1>5. event[current].attempts \in Nat
        /\ event[current].attempts < MaxAttempts
    BY <1>3, <1>4 DEF AttemptsLeft, OutboxRow
  <1>6. row \in OutboxRow
    BY <1>5, OutcomeIsRow, RunFields
  <1> HIDE DEF row, current, old
  <1>7. /\ new.step = "next" /\ new.batch = old.batch
        /\ new.todo = old.todo \ { current } /\ new.targets = old.targets
        /\ new.added = old.added /\ new.flushed = old.flushed
    BY <1>2 DEF Run
  <1>8. new.outcome = [old.outcome EXCEPT ![current] = row]
    BY <1>2 DEF Run
  <1>9. old.outcome \in [Events -> OutboxRow]
    BY <1>2 DEF Run
  <1>10. /\ new.outcome[current] = row
         /\ \A v \in Events \ { current } :
                new.outcome[v] = old.outcome[v]
    BY <1>3, <1>8, <1>9
  <1>11. new \in Run
    <2> DEFINE a == [old EXCEPT !.step = "next", !.todo = @ \ { current }]
               b == [a EXCEPT !.outcome[current] = row]
    <2>1. a \in Run
      BY <1>2 DEF Run
    <2> HIDE DEF a
    <2>2. b \in Run
      BY <1>3, <1>6, <2>1 DEF Run
    <2>3. new = b
      BY DEF a
    <2> QED
      BY <2>2, <2>3
  <1> HIDE DEF new
  <1>12. run'[p] = new /\ \A q \in Publishers \ {p} : run'[q] = run[q]
    BY <1>1 DEF TypeOK
  <1>13. run' \in [Publishers -> Run]
    BY <1>1, <1>11 DEF TypeOK
  <1> QED
    BY <1>1, <1>7, <1>10, <1>12, <1>13 DEF row, current, old

(***************************************************************************)
(* A run that ends, however it does, holds nothing.                        *)
(***************************************************************************)
LEMMA EndedRun ==
  ASSUME TypeOK, NEW p \in Publishers, run' = [run EXCEPT ![p] = Idle]
  PROVE  /\ run' \in [Publishers -> Run]
         /\ \A q \in Publishers \ {p} : run'[q] = run[q]
         /\ run'[p].step = "idle"
         /\ run'[p].batch = {} /\ run'[p].todo = {}
         /\ run'[p].targets = {}
         /\ run'[p].added = {} /\ run'[p].flushed = {}
  <1>1. run'[p] = Idle
    BY DEF TypeOK
  <1>2. /\ Idle.step = "idle" /\ Idle.batch = {} /\ Idle.todo = {}
        /\ Idle.targets = {} /\ Idle.added = {} /\ Idle.flushed = {}
    BY DEF Idle
  <1> QED
    BY <1>1, <1>2, IdleIsRun DEF TypeOK

-----------------------------------------------------------------------------
(***************************************************************************)
(* What a run keeps when another one, or the API, takes a step: the rows   *)
(* it holds are as they were, and no endpoint it relies on has gone or     *)
(* come.                                                                   *)
(***************************************************************************)
LEMMA RunKept ==
  ASSUME PublisherInv, NEW q \in Publishers, run'[q] = run[q],
         \A v \in run[q].batch :
            event'[v] = event[v] /\ audience'[v] = audience[v],
         \A v \in run[q].batch : \A e \in audience[v] :
            endpoint'[e] = "present" => endpoint[e] = "present",
         \A d \in run[q].flushed : endpoint'[d.endpoint] = "present",
         acked \subseteq acked'
  PROVE  RunInv(q)'
  <1>1. RunInv(q)
    BY DEF PublisherInv
  <1>2. Current(q)' = Current(q)
    BY Zenon DEF Current
  <1>3. Session(q)' = Session(q)
    BY DEF Session
  <1>4. \A v, e : HasPosted(q, v, e)' <=> HasPosted(q, v, e)
    BY <1>2 DEF HasPosted
  <1>5. HoldsPending(q)'
    BY <1>1 DEF RunInv, HoldsPending
  <1>6. SessionIsOwn(q)'
    <2> SUFFICES ASSUME NEW d \in Session(q)
                 PROVE  /\ HasPosted(q, d.event, d.endpoint)
                        /\ d.attempt = event'[d.event].attempts + 1
                        /\ d.status = "delivered" =>
                              << d.event, d.endpoint >> \in acked'
      BY <1>3, <1>4 DEF SessionIsOwn
    <2>1. HasPosted(q, d.event, d.endpoint)
      BY <1>1 DEF RunInv, SessionIsOwn
    <2>2. event'[d.event] = event[d.event]
      BY <2>1 DEF HasPosted
    <2> QED
      BY <1>1, <2>1, <2>2 DEF RunInv, SessionIsOwn
  <1>7. SessionOnce(q)'
    BY <1>1, <1>3 DEF RunInv, SessionOnce
  <1>8. SessionComplete(q)'
    BY <1>1, <1>3, <1>4 DEF RunInv, SessionComplete
  <1>9. FlushedIsThere(q)'
    BY DEF FlushedIsThere
  <1>10. OutcomeIsTrue(q)'
    <2>1. \A v : AllDelivered(q, v)' <=> AllDelivered(q, v)
      BY <1>3 DEF AllDelivered
    <2> QED
      BY <1>1, <1>2, <2>1 DEF RunInv, OutcomeIsTrue, Outcome
  <1> QED
    BY <1>5, <1>6, <1>7, <1>8, <1>9, <1>10 DEF RunInv

LEMMA IdleRunInv ==
  ASSUME NEW p \in Publishers,
         run'[p].step = "idle", run'[p].batch = {}, run'[p].todo = {},
         run'[p].targets = {}, run'[p].added = {}, run'[p].flushed = {}
  PROVE  RunInv(p)'
  <1>1. Session(p)' = {}
    BY DEF Session
  <1> QED
    BY <1>1 DEF RunInv, HoldsPending, SessionIsOwn, SessionOnce,
                SessionComplete, FlushedIsThere, OutcomeIsTrue

(***************************************************************************)
(* A step of a run that commits nothing.                                   *)
(***************************************************************************)
LEMMA DatabaseKept ==
  ASSUME PublisherInv, UNCHANGED << database, audience >>,
         acked \subseteq acked'
  PROVE  DatabaseInv'
  <1>1. /\ event' = event /\ endpoint' = endpoint
        /\ deliveries' = deliveries /\ audience' = audience
    BY DEF database
  <1>2. AttemptsLeft' /\ AudienceExisted'
    BY <1>1 DEF PublisherInv, DatabaseInv, AttemptsLeft, AudienceExisted
  <1>3. DeliveryOnce'
    BY <1>1 DEF PublisherInv, DatabaseInv, DeliveryOnce
  <1>4. DeliveryComplete'
    BY <1>1 DEF PublisherInv, DatabaseInv, DeliveryComplete, RowsOf
  <1>5. DeliveryIsTrue'
    BY <1>1 DEF PublisherInv, DatabaseInv, DeliveryIsTrue
  <1>6. PublishedWasReceived'
    BY <1>1 DEF PublisherInv, DatabaseInv, PublishedWasReceived
  <1> QED
    BY <1>2, <1>3, <1>4, <1>5, <1>6 DEF DatabaseInv

LEMMA RunStep ==
  ASSUME PublisherInv, TypeOK', NEW p \in Publishers,
         \A q \in Publishers \ {p} : run'[q] = run[q],
         \A q \in Publishers \ {p} : run'[p].batch \cap run[q].batch = {},
         RunInv(p)', UNCHANGED << database, audience >>,
         acked \subseteq acked'
  PROVE  PublisherInv'
  <1>1. event' = event /\ endpoint' = endpoint /\ audience' = audience
    BY DEF database
  <1>2. \A q \in Publishers \ {p} : RunInv(q)'
    <2> TAKE q \in Publishers \ {p}
    <2>1. \A d \in run[q].flushed : endpoint[d.endpoint] = "present"
      BY DEF PublisherInv, RunInv, FlushedIsThere
    <2> QED
      BY <1>1, <2>1, RunKept
  <1>3. RunsExclude'
    BY DEF PublisherInv, RunsExclude
  <1> QED
    BY <1>2, <1>3, DatabaseKept DEF PublisherInv

(***************************************************************************)
(* Each step of a run keeps the invariant.                                 *)
(***************************************************************************)
LEMMA SelectEventsKeeps ==
  ASSUME PublisherInv, NEW p \in Publishers, SelectEvents(p)
  PROVE  PublisherInv'
  <1>1. TypeOK /\ UNCHANGED << database, world >>
    BY DEF PublisherInv, SelectEvents
  <1>2. TypeOK'
    BY <1>1, SelectEventsRun DEF TypeOK, database, world
  <1>3. \A v \in run'[p].batch : event[v].status = "pending" /\ ~Locked(v)
    BY <1>1, SelectEventsRun DEF Available
  <1>4. \A q \in Publishers \ {p} : run'[p].batch \cap run[q].batch = {}
    BY <1>3 DEF Locked
  <1>5. RunInv(p)'
    <2>1. Session(p)' = {}
      BY <1>1, SelectEventsRun DEF Session
    <2>2. HoldsPending(p)'
      BY <1>1, <1>3, SelectEventsRun DEF HoldsPending, database
    <2>3. \A v, e : ~HasPosted(p, v, e)'
      BY <1>1, SelectEventsRun DEF HasPosted
    <2> QED
      BY <1>1, <2>1, <2>2, <2>3, SelectEventsRun
         DEF RunInv, SessionIsOwn, SessionOnce, SessionComplete,
             FlushedIsThere, OutcomeIsTrue
  <1> QED
    BY <1>1, <1>2, <1>4, <1>5, SelectEventsRun, RunStep DEF world, database

LEMMA SelectEndpointsKeeps ==
  ASSUME PublisherInv, NEW p \in Publishers, SelectEndpoints(p)
  PROVE  PublisherInv'
  <1>1. TypeOK /\ RunInv(p) /\ CanFlush(p)
        /\ UNCHANGED << database, world >>
    BY DEF PublisherInv, SelectEndpoints
  <1>2. TypeOK'
    BY <1>1, SelectEndpointsRun DEF TypeOK, database, world
  <1>3. /\ event' = event /\ endpoint' = endpoint
        /\ audience' = audience /\ acked' = acked
    BY <1>1 DEF database, world
  <1>4. Session(p)' = Session(p)
    BY <1>1, SelectEndpointsRun DEF Session
  <1>5. Current(p)' = Current(p)
    <2>1. run'[p].todo = run[p].todo
      BY <1>1, SelectEndpointsRun
    <2> QED
      BY <2>1, Zenon DEF Current
  <1>6. \A v, e : HasPosted(p, v, e) => HasPosted(p, v, e)'
    BY <1>1, SelectEndpointsRun DEF HasPosted
  <1>7. HoldsPending(p)'
    BY <1>1, <1>3, SelectEndpointsRun DEF RunInv, HoldsPending
  <1>8. SessionIsOwn(p)'
    BY <1>1, <1>3, <1>4, <1>6 DEF RunInv, SessionIsOwn
  <1>9. SessionOnce(p)'
    BY <1>1, <1>4 DEF RunInv, SessionOnce
  <1>10. SessionComplete(p)'
    <2>1. /\ run'[p].batch = run[p].batch /\ run'[p].todo = run[p].todo
          /\ run'[p].targets = { e \in Matches[Current(p)] :
                                   endpoint[e] = "present" }
      BY <1>1, SelectEndpointsRun
    <2>2. ASSUME NEW v \in run[p].batch, NEW e \in audience[v],
                 endpoint[e] = "present", HasPosted(p, v, e)'
          PROVE  HasPosted(p, v, e)
      <3>1. v \in Events /\ e \in Matches[v]
        BY <1>1, RunFields DEF PublisherInv, DatabaseInv, AudienceExisted
      <3>2. v \in run[p].todo => v = Current(p) /\ e \notin run'[p].targets
        BY <1>5, <2>1, <2>2 DEF HasPosted
      <3>3. v \notin run[p].todo
        BY <2>1, <2>2, <3>1, <3>2
      <3> QED
        BY <3>3 DEF HasPosted
    <2>3. SessionComplete(p)
      BY <1>1 DEF RunInv
    <2> QED
      BY <1>3, <1>4, <2>1, <2>2, <2>3 DEF SessionComplete
  <1>11. FlushedIsThere(p)'
    BY <1>1, <1>3, SelectEndpointsRun
       DEF RunInv, FlushedIsThere, CanFlush, Session
  <1>12. OutcomeIsTrue(p)'
    <2>1. \A v : AllDelivered(p, v)' <=> AllDelivered(p, v)
      BY <1>4 DEF AllDelivered
    <2>2. \A d \in Session(p) : d.event # Current(p)
      BY <1>1, SelectEndpointsRun, CurrentIsToDo
         DEF RunInv, SessionIsOwn, HasPosted
    <2>3. AllDelivered(p, Current(p))
      BY <2>2 DEF AllDelivered
    <2>4. /\ run'[p].outcome = run[p].outcome
          /\ run'[p].batch = run[p].batch /\ run'[p].todo = run[p].todo
      BY <1>1, SelectEndpointsRun
    <2> QED
      BY <1>1, <1>3, <1>5, <2>1, <2>3, <2>4 DEF RunInv, OutcomeIsTrue
  <1>13. RunInv(p)'
    BY <1>7, <1>8, <1>9, <1>10, <1>11, <1>12 DEF RunInv
  <1>14. \A q \in Publishers \ {p} : run'[p].batch \cap run[q].batch = {}
    BY <1>1, SelectEndpointsRun DEF PublisherInv, RunsExclude
  <1> QED
    BY <1>1, <1>2, <1>3, <1>13, <1>14, SelectEndpointsRun, RunStep

LEMMA PostKeeps ==
  ASSUME PublisherInv, NEW p \in Publishers, NEW e \in Endpoints,
         NEW status \in { "delivered", "failed" }, Post(p, e, status)
  PROVE  PublisherInv'
  <1>0. PICK v, row : v = Current(p) /\ row = Added(p, e, status)
    OBVIOUS
  <1>1. /\ TypeOK /\ AttemptsLeft /\ RunInv(p) /\ HoldsPending(p)
        /\ UNCHANGED << event, endpoint, deliveries, audience, crashes >>
        /\ posts' = [posts EXCEPT ![<< v, e >>] = @ + 1]
        /\ acked' = IF status = "delivered"
                    THEN acked \cup { << v, e >> } ELSE acked
    BY <1>0 DEF PublisherInv, DatabaseInv, RunInv, Post, database
  <1>2. /\ run' \in [Publishers -> Run]
        /\ \A q \in Publishers \ {p} : run'[q] = run[q]
        /\ run[p].step = "post" /\ run[p].todo # {}
        /\ e \in run[p].targets /\ run'[p].step = "post"
        /\ run'[p].batch = run[p].batch /\ run'[p].todo = run[p].todo
        /\ run'[p].targets = run[p].targets \ {e}
        /\ run'[p].succeeded = (run[p].succeeded /\ status = "delivered")
        /\ run'[p].outcome = run[p].outcome
        /\ run'[p].flushed = run[p].flushed
        /\ run'[p].added = run[p].added \cup { row }
    BY <1>0, <1>1, PostRun
  <1>3. v \in run[p].todo /\ v \in Events /\ v \in run[p].batch
    BY <1>0, <1>1, <1>2, CurrentIsToDo DEF HoldsPending
  <1>4. /\ row.event = v /\ row.endpoint = e /\ row.status = status
        /\ row.attempt = event[v].attempts + 1
    BY <1>0, <1>1, <1>2, AddedIsDelivery
  <1>5. Current(p)' = v
    BY <1>0, <1>2, Zenon DEF Current
  <1>6. TypeOK'
    <2>1. posts' \in [Events \X Endpoints -> Nat]
      BY <1>1, <1>3 DEF TypeOK
    <2>2. acked' \subseteq Events \X Endpoints
      BY <1>1, <1>3 DEF TypeOK
    <2> QED
      BY <1>1, <1>2, <2>1, <2>2 DEF TypeOK
  <1>7. acked \subseteq acked'
        /\ (status = "delivered" => << v, e >> \in acked')
    BY <1>1
  <1>8. Session(p)' = Session(p) \cup { row }
    BY <1>2 DEF Session
  <1>9. \A w, f : HasPosted(p, w, f)' <=>
                     HasPosted(p, w, f) \/ (w = v /\ f = e)
    BY <1>0, <1>2, <1>3, <1>5 DEF HasPosted
  <1>10. \A d \in Session(p) : ~(d.event = v /\ d.endpoint = e)
    BY <1>0, <1>1, <1>2, <1>3 DEF RunInv, SessionIsOwn, HasPosted
  <1>11. HoldsPending(p)'
    BY <1>1, <1>2 DEF HoldsPending
  <1>12. SessionIsOwn(p)'
    <2>1. SessionIsOwn(p)
      BY <1>1 DEF RunInv
    <2>2. \A d \in Session(p) :
             /\ HasPosted(p, d.event, d.endpoint)'
             /\ d.attempt = event'[d.event].attempts + 1
             /\ d.status = "delivered" =>
                    << d.event, d.endpoint >> \in acked'
      BY <1>1, <1>7, <1>9, <2>1 DEF SessionIsOwn
    <2>3. /\ HasPosted(p, row.event, row.endpoint)'
          /\ row.attempt = event'[row.event].attempts + 1
          /\ row.status = "delivered" =>
                << row.event, row.endpoint >> \in acked'
      BY <1>1, <1>4, <1>7, <1>9
    <2> QED
      BY <1>8, <2>2, <2>3 DEF SessionIsOwn
  <1>13. SessionOnce(p)'
    BY <1>1, <1>4, <1>8, <1>10 DEF RunInv, SessionOnce
  <1>14. SessionComplete(p)'
    <2>1. SessionComplete(p)
      BY <1>1 DEF RunInv
    <2> QED
      BY <1>1, <1>2, <1>4, <1>8, <1>9, <2>1 DEF SessionComplete
  <1>15. FlushedIsThere(p)'
    BY <1>1, <1>2 DEF RunInv, FlushedIsThere
  <1>16. OutcomeIsTrue(p)'
    <2>1. \A w : w # v => (AllDelivered(p, w)' <=> AllDelivered(p, w))
      BY <1>4, <1>8 DEF AllDelivered
    <2>2. AllDelivered(p, v) /\ status = "delivered" =>
             AllDelivered(p, v)'
      BY <1>4, <1>8 DEF AllDelivered
    <2>3. OutcomeIsTrue(p)
      BY <1>1 DEF RunInv
    <2>4. run'[p].succeeded => AllDelivered(p, v)'
      BY <1>0, <1>2, <2>2, <2>3 DEF OutcomeIsTrue
    <2>5. ASSUME NEW w \in run[p].batch \ run[p].todo
          PROVE  \E succeeded \in BOOLEAN :
                    /\ run'[p].outcome[w] =
                          Outcome(event[w].attempts, succeeded)
                    /\ succeeded => AllDelivered(p, w)'
      BY <1>2, <1>3, <2>1, <2>3 DEF OutcomeIsTrue
    <2> QED
      BY <1>1, <1>2, <1>5, <2>4, <2>5 DEF OutcomeIsTrue, Outcome
  <1>17. RunInv(p)'
    BY <1>11, <1>12, <1>13, <1>14, <1>15, <1>16 DEF RunInv
  <1>18. \A q \in Publishers \ {p} : run'[p].batch \cap run[q].batch = {}
    BY <1>2 DEF PublisherInv, RunsExclude
  <1> QED
    BY <1>1, <1>2, <1>6, <1>7, <1>17, <1>18, RunStep DEF database

LEMMA FinishEventKeeps ==
  ASSUME PublisherInv, NEW p \in Publishers, FinishEvent(p)
  PROVE  PublisherInv'
  <1> DEFINE v == Current(p)
  <1>1. /\ TypeOK /\ AttemptsLeft /\ RunInv(p) /\ HoldsPending(p)
        /\ UNCHANGED << database, world >>
    BY DEF PublisherInv, DatabaseInv, RunInv, FinishEvent
  <1>2. /\ run' \in [Publishers -> Run]
        /\ \A q \in Publishers \ {p} : run'[q] = run[q]
        /\ run[p].step = "post" /\ run[p].todo # {}
        /\ run[p].targets = {} /\ run'[p].step = "next"
        /\ run'[p].batch = run[p].batch
        /\ run'[p].todo = run[p].todo \ { v }
        /\ run'[p].targets = run[p].targets
        /\ run'[p].outcome[v] =
              Outcome(event[v].attempts, run[p].succeeded)
        /\ \A w \in Events \ { v } :
              run'[p].outcome[w] = run[p].outcome[w]
        /\ run'[p].flushed = run[p].flushed
        /\ run'[p].added = run[p].added
    BY <1>1, FinishEventRun
  <1>3. v \in run[p].todo /\ v \in Events /\ v \in run[p].batch
    BY <1>1, <1>2, CurrentIsToDo DEF HoldsPending
  <1>4. run[p].batch \subseteq Events /\ run[p].succeeded \in BOOLEAN
    BY <1>1, RunFields
  <1>5. /\ event' = event /\ endpoint' = endpoint
        /\ audience' = audience /\ acked' = acked
    BY <1>1 DEF database, world
  <1>6. TypeOK'
    BY <1>1, <1>2 DEF TypeOK, database, world
  <1>7. Session(p)' = Session(p)
    BY <1>2 DEF Session
  <1>8. \A w, e : HasPosted(p, w, e)' <=> HasPosted(p, w, e)
    BY <1>2, <1>3 DEF HasPosted
  <1> HIDE DEF v
  <1>9. HoldsPending(p)'
    BY <1>1, <1>2, <1>5 DEF HoldsPending
  <1>10. SessionIsOwn(p)'
    BY <1>1, <1>5, <1>7, <1>8 DEF RunInv, SessionIsOwn
  <1>11. SessionOnce(p)'
    BY <1>1, <1>7 DEF RunInv, SessionOnce
  <1>12. SessionComplete(p)'
    BY <1>1, <1>2, <1>5, <1>7, <1>8 DEF RunInv, SessionComplete
  <1>13. FlushedIsThere(p)'
    BY <1>1, <1>2, <1>5 DEF RunInv, FlushedIsThere
  <1>14. OutcomeIsTrue(p)'
    <2>1. \A w : AllDelivered(p, w)' <=> AllDelivered(p, w)
      BY <1>7 DEF AllDelivered
    <2>2. OutcomeIsTrue(p)
      BY <1>1 DEF RunInv
    <2>3. run[p].succeeded => AllDelivered(p, v)
      BY <1>2, <2>2 DEF OutcomeIsTrue, v
    <2>4. ASSUME NEW w \in run[p].batch \ run'[p].todo
          PROVE  \E succeeded \in BOOLEAN :
                    /\ run'[p].outcome[w] =
                          Outcome(event[w].attempts, succeeded)
                    /\ succeeded => AllDelivered(p, w)
      <3>1. CASE w = v
        BY <1>2, <1>4, <2>3, <3>1
      <3>2. CASE w # v
        BY <1>2, <1>4, <2>2, <3>2 DEF OutcomeIsTrue
      <3> QED
        BY <3>1, <3>2
    <2> QED
      BY <1>2, <1>5, <2>1, <2>4 DEF OutcomeIsTrue, Outcome
  <1>15. RunInv(p)'
    BY <1>9, <1>10, <1>11, <1>12, <1>13, <1>14 DEF RunInv
  <1>16. \A q \in Publishers \ {p} : run'[p].batch \cap run[q].batch = {}
    BY <1>2 DEF PublisherInv, RunsExclude
  <1> QED
    BY <1>1, <1>2, <1>5, <1>6, <1>15, <1>16, RunStep

LEMMA RollbackKeeps ==
  ASSUME PublisherInv, NEW p \in Publishers, IntegrityError(p) \/ Crash(p)
  PROVE  PublisherInv'
  <1>1. /\ TypeOK /\ run' = [run EXCEPT ![p] = Idle]
        /\ UNCHANGED << event, endpoint, deliveries, posts, acked,
                        audience >>
        /\ crashes' \in 0..MaxCrashes
    BY LimitsAssumption
       DEF PublisherInv, IntegrityError, Crash, database, world, TypeOK
  <1>2. TypeOK'
    BY <1>1, EndedRun DEF TypeOK
  <1>3. RunInv(p)'
    BY <1>1, EndedRun, IdleRunInv
  <1> QED
    BY <1>1, <1>2, <1>3, EndedRun, RunStep DEF database

(***************************************************************************)
(* The API: an event that is stored is in no run; an endpoint that is      *)
(* created is owed nothing; the deliveries to one that is deleted go with  *)
(* it, and no run has flushed any.                                         *)
(***************************************************************************)
LEMMA EmitKeeps ==
  ASSUME PublisherInv, NEW v \in Events, Emit(v)
  PROVE  PublisherInv'
  <1> DEFINE owed == { e \in Matches[v] : endpoint[e] = "present" }
  <1>1. /\ TypeOK /\ event[v].status = "absent"
        /\ event' = [event EXCEPT ![v].status = "pending"]
        /\ audience' = [audience EXCEPT ![v] = owed]
        /\ UNCHANGED << endpoint, deliveries, run, posts, acked, crashes >>
    BY DEF PublisherInv, Emit
  <1>2. event[v] \in OutboxRow /\ event[v].attempts = 0
    BY <1>1 DEF TypeOK, PublisherInv, DatabaseInv, AttemptsLeft
  <1>3. /\ event'[v] \in OutboxRow
        /\ event'[v].status = "pending" /\ event'[v].attempts = 0
    BY <1>1, <1>2 DEF TypeOK, OutboxRow, OutboxStatuses
  <1>4. \A w \in Events \ {v} : event'[w] = event[w]
                                /\ audience'[w] = audience[w]
    BY <1>1 DEF TypeOK
  <1>5. owed \subseteq Endpoints
        /\ \A e \in owed : e \in Matches[v] /\ endpoint[e] = "present"
    BY EventsAssumption
  <1>6. audience'[v] = owed
    BY <1>1 DEF TypeOK
  <1> HIDE DEF owed
  <1>7. TypeOK'
    <2>1. event' \in [Events -> OutboxRow]
      <3>1. DOMAIN event' = Events /\ event' = [ w \in Events |-> event'[w] ]
        BY <1>1 DEF TypeOK
      <3>2. \A w \in Events : event'[w] \in OutboxRow
        BY <1>1, <1>3, <1>4 DEF TypeOK
      <3> QED
        BY <3>1, <3>2
    <2>2. audience' \in [Events -> SUBSET Endpoints]
      BY <1>1, <1>5 DEF TypeOK
    <2> QED
      BY <1>1, <2>1, <2>2 DEF TypeOK
  <1>8. RunsExclude'
    BY <1>1 DEF PublisherInv, RunsExclude
  <1>9. ASSUME NEW q \in Publishers
        PROVE  RunInv(q)'
    <2>1. \A w \in run[q].batch : w \in Events /\ w # v
      BY <1>1, RunFields DEF PublisherInv, RunInv, HoldsPending
    <2>2. \A d \in run[q].flushed : endpoint[d.endpoint] = "present"
      BY DEF PublisherInv, RunInv, FlushedIsThere
    <2>3. /\ run'[q] = run[q] /\ acked \subseteq acked'
          /\ \A w \in run[q].batch :
                 event'[w] = event[w] /\ audience'[w] = audience[w]
          /\ \A w \in run[q].batch : \A e \in audience[w] :
                 endpoint'[e] = "present" => endpoint[e] = "present"
          /\ \A d \in run[q].flushed : endpoint'[d.endpoint] = "present"
      BY <1>1, <1>4, <2>1, <2>2
    <2> QED
      BY <2>3, RunKept
  <1>10. AttemptsLeft'
    BY <1>3, <1>4, LimitsAssumption
       DEF PublisherInv, DatabaseInv, AttemptsLeft
  <1>11. AudienceExisted'
    BY <1>1, <1>4, <1>5, <1>6 DEF PublisherInv, DatabaseInv, AudienceExisted
  <1>12. DeliveryOnce'
    BY <1>1 DEF PublisherInv, DatabaseInv, DeliveryOnce
  <1>13. DeliveryComplete'
    BY <1>1, <1>3, <1>4
       DEF PublisherInv, DatabaseInv, DeliveryComplete, RowsOf
  <1>14. DeliveryIsTrue'
    <2>1. \A d \in deliveries : d.event \in Events
      BY <1>1 DEF TypeOK, Delivery
    <2>2. \A w \in Events : event'[w].attempts = event[w].attempts
      BY <1>2, <1>3, <1>4
    <2> QED
      BY <1>1, <2>1, <2>2 DEF PublisherInv, DatabaseInv, DeliveryIsTrue
  <1>15. PublishedWasReceived'
    BY <1>1, <1>3, <1>4 DEF PublisherInv, DatabaseInv, PublishedWasReceived
  <1> QED
    BY <1>7, <1>8, <1>9, <1>10, <1>11, <1>12, <1>13, <1>14, <1>15
       DEF PublisherInv, DatabaseInv

LEMMA CreateWebhookKeeps ==
  ASSUME PublisherInv, NEW e \in Endpoints, CreateWebhook(e)
  PROVE  PublisherInv'
  <1>1. /\ TypeOK /\ endpoint[e] = "absent"
        /\ endpoint' = [endpoint EXCEPT ![e] = "present"]
        /\ UNCHANGED << event, deliveries, run, world >>
    BY DEF PublisherInv, CreateWebhook
  <1>2. /\ event' = event /\ deliveries' = deliveries /\ run' = run
        /\ audience' = audience /\ acked' = acked
        /\ endpoint'[e] = "present"
        /\ \A f \in Endpoints \ {e} : endpoint'[f] = endpoint[f]
    BY <1>1 DEF world, TypeOK
  <1>3. TypeOK'
    BY <1>1 DEF TypeOK, world
  <1>4. \A v \in Events : \A f \in audience[v] : f \in Endpoints /\ f # e
    BY <1>1 DEF TypeOK, PublisherInv, DatabaseInv, AudienceExisted
  <1>5. \A d \in deliveries : d.endpoint \in Endpoints /\ d.endpoint # e
    BY <1>1 DEF TypeOK, Delivery, PublisherInv, DatabaseInv, DeliveryIsTrue
  <1>6. RunsExclude'
    BY <1>2 DEF PublisherInv, RunsExclude
  <1>7. ASSUME NEW q \in Publishers
        PROVE  RunInv(q)'
    <2>1. \A d \in run[q].flushed :
             d.endpoint \in Endpoints /\ endpoint[d.endpoint] = "present"
      BY <1>1, RunFields
         DEF PublisherInv, RunInv, FlushedIsThere, Delivery
    <2>2. run[q].batch \subseteq Events
      BY <1>1, RunFields
    <2>3. /\ run'[q] = run[q] /\ acked \subseteq acked'
          /\ \A w \in run[q].batch :
                 event'[w] = event[w] /\ audience'[w] = audience[w]
          /\ \A w \in run[q].batch : \A f \in audience[w] :
                 endpoint'[f] = "present" => endpoint[f] = "present"
          /\ \A d \in run[q].flushed : endpoint'[d.endpoint] = "present"
      BY <1>2, <1>4, <2>1, <2>2
    <2> QED
      BY <2>3, RunKept
  <1>8. AttemptsLeft' /\ DeliveryOnce'
    BY <1>2 DEF PublisherInv, DatabaseInv, AttemptsLeft, DeliveryOnce
  <1>9. AudienceExisted'
    BY <1>2, <1>4 DEF PublisherInv, DatabaseInv, AudienceExisted
  <1>10. DeliveryComplete'
    BY <1>2, <1>4 DEF PublisherInv, DatabaseInv, DeliveryComplete, RowsOf
  <1>11. DeliveryIsTrue'
    BY <1>2, <1>5 DEF PublisherInv, DatabaseInv, DeliveryIsTrue
  <1>12. PublishedWasReceived'
    BY <1>2, <1>4 DEF PublisherInv, DatabaseInv, PublishedWasReceived
  <1> QED
    BY <1>3, <1>6, <1>7, <1>8, <1>9, <1>10, <1>11, <1>12
       DEF PublisherInv, DatabaseInv

LEMMA DeleteWebhookKeeps ==
  ASSUME PublisherInv, NEW e \in Endpoints, DeleteWebhook(e)
  PROVE  PublisherInv'
  <1>1. /\ TypeOK /\ endpoint[e] = "present" /\ ~KeyShared(e)
        /\ endpoint' = [endpoint EXCEPT ![e] = "deleted"]
        /\ deliveries' = { d \in deliveries : d.endpoint # e }
        /\ UNCHANGED << event, run, world >>
    BY DEF PublisherInv, DeleteWebhook
  <1>2. /\ event' = event /\ run' = run
        /\ audience' = audience /\ acked' = acked
        /\ endpoint'[e] = "deleted"
        /\ \A f \in Endpoints \ {e} : endpoint'[f] = endpoint[f]
    BY <1>1 DEF world, TypeOK
  <1>3. TypeOK'
    BY <1>1 DEF TypeOK, world
  <1>4. \A v \in Events : \A f \in audience[v] : f \in Endpoints
    BY <1>1 DEF TypeOK
  <1>5. \A d \in deliveries : d.endpoint \in Endpoints
    BY <1>1 DEF TypeOK, Delivery
  <1>6. RunsExclude'
    BY <1>2 DEF PublisherInv, RunsExclude
  <1>7. ASSUME NEW q \in Publishers
        PROVE  RunInv(q)'
    <2>1. \A d \in run[q].flushed :
             /\ d.endpoint \in Endpoints /\ d.endpoint # e
             /\ endpoint[d.endpoint] = "present"
      BY <1>1, RunFields
         DEF PublisherInv, RunInv, FlushedIsThere, Delivery, KeyShared
    <2>2. run[q].batch \subseteq Events
      BY <1>1, RunFields
    <2>3. /\ run'[q] = run[q] /\ acked \subseteq acked'
          /\ \A w \in run[q].batch :
                 event'[w] = event[w] /\ audience'[w] = audience[w]
          /\ \A w \in run[q].batch : \A f \in audience[w] :
                 endpoint'[f] = "present" => endpoint[f] = "present"
          /\ \A d \in run[q].flushed : endpoint'[d.endpoint] = "present"
      BY <1>2, <1>4, <2>1, <2>2
    <2> QED
      BY <2>3, RunKept
  <1>8. AttemptsLeft'
    BY <1>2 DEF PublisherInv, DatabaseInv, AttemptsLeft
  <1>9. DeliveryOnce'
    BY <1>1 DEF PublisherInv, DatabaseInv, DeliveryOnce
  <1>10. AudienceExisted'
    BY <1>2, <1>4 DEF PublisherInv, DatabaseInv, AudienceExisted
  <1>11. DeliveryComplete'
    <2> SUFFICES ASSUME NEW v \in Events, NEW f \in audience[v],
                        endpoint'[f] = "present",
                        NEW n \in 1..event[v].attempts
                 PROVE  RowsOf(v, f, n)' # {}
      BY <1>2 DEF DeliveryComplete
    <2>1. f # e /\ endpoint[f] = "present"
      BY <1>2, <1>4
    <2>2. RowsOf(v, f, n) # {}
      BY <2>1 DEF PublisherInv, DatabaseInv, DeliveryComplete
    <2> QED
      BY <1>1, <2>1, <2>2 DEF RowsOf
  <1>12. DeliveryIsTrue'
    BY <1>1, <1>2, <1>5 DEF PublisherInv, DatabaseInv, DeliveryIsTrue
  <1>13. PublishedWasReceived'
    <2> SUFFICES ASSUME NEW v \in Events, event[v].status = "published",
                        NEW f \in audience[v], endpoint'[f] = "present"
                 PROVE  /\ << v, f >> \in acked
                        /\ \E d \in deliveries' :
                              /\ d.event = v /\ d.endpoint = f
                              /\ d.status = "delivered"
      BY <1>2 DEF PublishedWasReceived
    <2>1. f # e /\ endpoint[f] = "present"
      BY <1>2, <1>4
    <2> QED
      BY <1>1, <2>1 DEF PublisherInv, DatabaseInv, PublishedWasReceived
  <1> QED
    BY <1>3, <1>6, <1>7, <1>8, <1>9, <1>10, <1>11, <1>12, <1>13
       DEF PublisherInv, DatabaseInv

(***************************************************************************)
(* The commit.  Every event of the batch has its outcome, and the session  *)
(* has one delivery of this attempt for each endpoint it is owed to.       *)
(***************************************************************************)
LEMMA CommitOutcome ==
  ASSUME PublisherInv, NEW p \in Publishers, CommitRun(p),
         NEW v \in run[p].batch
  PROVE  /\ event[v].status = "pending"
         /\ event'[v] \in OutboxRow
         /\ event'[v].attempts = event[v].attempts + 1
         /\ event'[v].status # "absent"
         /\ event'[v].status = "pending" =>
               event'[v].attempts < MaxAttempts
         /\ event'[v].status = "published" => AllDelivered(p, v)
  <1>1. TypeOK /\ RunInv(p) /\ AttemptsLeft /\ run[p].todo = {}
    BY DEF PublisherInv, DatabaseInv, CommitRun
  <1>2. v \in Events
    BY <1>1, RunFields
  <1>3. event'[v] = run[p].outcome[v]
    BY <1>2 DEF CommitRun
  <1>4. event[v] \in OutboxRow /\ event[v].status = "pending"
    BY <1>1, <1>2 DEF TypeOK, RunInv, HoldsPending
  <1>5. event[v].attempts \in Nat /\ event[v].attempts < MaxAttempts
    BY <1>1, <1>2, <1>4 DEF AttemptsLeft, OutboxRow
  <1>6. PICK succeeded \in BOOLEAN :
           /\ run[p].outcome[v] = Outcome(event[v].attempts, succeeded)
           /\ succeeded => AllDelivered(p, v)
    BY <1>1 DEF RunInv, OutcomeIsTrue
  <1> QED
    BY <1>3, <1>4, <1>5, <1>6, OutcomeIsRow

LEMMA CommitSession ==
  ASSUME PublisherInv, NEW p \in Publishers, CommitRun(p)
  PROVE  /\ deliveries' = deliveries \cup Session(p)
         /\ \A d \in Session(p) :
               /\ d \in Delivery
               /\ d.event \in run[p].batch
               /\ endpoint[d.endpoint] = "present"
               /\ d.attempt = event[d.event].attempts + 1
               /\ d.status = "delivered" =>
                     << d.event, d.endpoint >> \in acked
         /\ \A v \in run[p].batch : \A e \in audience[v] :
               endpoint[e] = "present" =>
                  \E d \in Session(p) : d.event = v /\ d.endpoint = e
  <1>1. TypeOK /\ RunInv(p) /\ run[p].todo = {} /\ CanFlush(p)
    BY DEF PublisherInv, CommitRun
  <1>2. deliveries' = deliveries \cup Session(p)
    BY DEF CommitRun, Session
  <1>3. ASSUME NEW d \in Session(p)
        PROVE  /\ d \in Delivery
               /\ d.event \in run[p].batch
               /\ endpoint[d.endpoint] = "present"
               /\ d.attempt = event[d.event].attempts + 1
               /\ d.status = "delivered" =>
                     << d.event, d.endpoint >> \in acked
    <2>1. d \in Delivery
      BY <1>1, RunFields
    <2>2. endpoint[d.endpoint] = "present"
      BY <1>1 DEF Session, RunInv, FlushedIsThere, CanFlush
    <2>3. d.event \in run[p].batch
      BY <1>1 DEF RunInv, SessionIsOwn, HasPosted
    <2> QED
      BY <1>1, <2>1, <2>2, <2>3 DEF RunInv, SessionIsOwn
  <1>4. \A v \in run[p].batch : \A e : HasPosted(p, v, e)
    BY <1>1 DEF HasPosted
  <1>5. SessionComplete(p)
    BY <1>1 DEF RunInv
  <1> QED
    BY <1>2, <1>3, <1>4, <1>5 DEF SessionComplete

LEMMA CommitRunKeeps ==
  ASSUME PublisherInv, NEW p \in Publishers, CommitRun(p)
  PROVE  PublisherInv'
  <1> DEFINE batch == run[p].batch
  <1>1. /\ TypeOK /\ run' = [run EXCEPT ![p] = Idle]
        /\ UNCHANGED << endpoint, world >>
        /\ batch \subseteq Events
    BY RunFields DEF PublisherInv, CommitRun
  <1>2. /\ \A v \in batch :
              /\ event[v].status = "pending"
              /\ event'[v] \in OutboxRow
              /\ event'[v].attempts = event[v].attempts + 1
              /\ event'[v].status # "absent"
              /\ event'[v].status = "pending" =>
                    event'[v].attempts < MaxAttempts
              /\ event'[v].status = "published" => AllDelivered(p, v)
        /\ \A v \in Events \ batch : event'[v] = event[v]
        /\ event' = [ v \in Events |-> event'[v] ]
    BY <1>1, CommitOutcome DEF CommitRun
  <1>3. /\ deliveries' = deliveries \cup Session(p)
        /\ \A d \in Session(p) :
              /\ d \in Delivery
              /\ d.event \in batch
              /\ endpoint[d.endpoint] = "present"
              /\ d.attempt = event[d.event].attempts + 1
              /\ d.status = "delivered" =>
                    << d.event, d.endpoint >> \in acked
        /\ \A v \in batch : \A e \in audience[v] :
              endpoint[e] = "present" =>
                 \E d \in Session(p) : d.event = v /\ d.endpoint = e
    BY CommitSession
  <1>4. /\ endpoint' = endpoint /\ audience' = audience /\ acked' = acked
        /\ \A q \in Publishers \ {p} : run'[q] = run[q]
        /\ run'[p].batch = {}
    BY <1>1, EndedRun DEF world
  <1>5. \A d \in deliveries : d \in Delivery /\ d.event \in Events
    BY <1>1 DEF TypeOK, Delivery
  <1>6. \A v \in Events : event[v].attempts \in Nat
    BY <1>1 DEF TypeOK, OutboxRow
  <1>7. DatabaseInv
    BY DEF PublisherInv
  <1> HIDE DEF batch
  <1>8. TypeOK'
    <2>1. event' \in [Events -> OutboxRow]
      BY <1>1, <1>2 DEF TypeOK
    <2> QED
      BY <1>1, <1>3, <2>1, EndedRun DEF TypeOK, world
  <1>9. RunsExclude'
    BY <1>4 DEF PublisherInv, RunsExclude
  <1>10. ASSUME NEW q \in Publishers
         PROVE  RunInv(q)'
    <2>1. CASE q = p
      BY <1>1, <2>1, EndedRun, IdleRunInv
    <2>2. CASE q # p
      <3>1. run[q].batch \subseteq Events \ batch
        BY <1>1, <2>2, RunFields DEF PublisherInv, RunsExclude, batch
      <3>2. \A d \in run[q].flushed : endpoint[d.endpoint] = "present"
        BY DEF PublisherInv, RunInv, FlushedIsThere
      <3>3. run'[q] = run[q]
        BY <1>4, <2>2
      <3> QED
        BY <1>2, <1>4, <3>1, <3>2, <3>3, RunKept
    <2> QED
      BY <2>1, <2>2
  <1>11. AttemptsLeft'
    BY <1>2, <1>7 DEF DatabaseInv, AttemptsLeft
  <1>12. AudienceExisted'
    BY <1>4, <1>7 DEF DatabaseInv, AudienceExisted
  <1>13. DeliveryOnce'
    <2>1. ASSUME NEW c \in deliveries, NEW d \in Session(p),
                 c.event = d.event, c.attempt = d.attempt
          PROVE  FALSE
      <3>1. c.attempt <= event[c.event].attempts
        BY <1>7 DEF DatabaseInv, DeliveryIsTrue
      <3>2. d.attempt = event[c.event].attempts + 1
        BY <1>3, <2>1
      <3> QED
        BY <1>5, <1>6, <2>1, <3>1, <3>2
    <2>2. SessionOnce(p) /\ DeliveryOnce
      BY <1>7 DEF PublisherInv, RunInv, DatabaseInv
    <2> QED
      BY <1>3, <2>1, <2>2 DEF SessionOnce, DeliveryOnce
  <1>14. DeliveryComplete'
    <2> SUFFICES ASSUME NEW v \in Events, NEW e \in audience[v],
                        endpoint[e] = "present",
                        NEW n \in 1..event'[v].attempts
                 PROVE  \E d \in deliveries' :
                           d.event = v /\ d.endpoint = e /\ d.attempt = n
      BY <1>4 DEF DeliveryComplete, RowsOf
    <2>1. CASE n \in 1..event[v].attempts
      BY <1>3, <1>7, <2>1 DEF DatabaseInv, DeliveryComplete, RowsOf
    <2>2. CASE n \notin 1..event[v].attempts
      <3>1. v \in batch
        BY <1>2, <2>2
      <3>2. n = event[v].attempts + 1
        BY <1>2, <1>6, <2>2, <3>1
      <3>3. PICK d \in Session(p) : d.event = v /\ d.endpoint = e
        BY <1>3, <3>1
      <3>4. d.attempt = n /\ d \in deliveries'
        BY <1>3, <3>2, <3>3
      <3> QED
        BY <3>3, <3>4
    <2> QED
      BY <2>1, <2>2
  <1>15. DeliveryIsTrue'
    <2>1. \A v \in Events : event[v].attempts <= event'[v].attempts
      BY <1>2, <1>6
    <2>2. ASSUME NEW d \in deliveries
          PROVE  /\ endpoint[d.endpoint] = "present"
                 /\ d.attempt <= event'[d.event].attempts
                 /\ d.status = "delivered" =>
                       << d.event, d.endpoint >> \in acked
      <3>1. event'[d.event].attempts \in Nat /\ d.attempt \in Nat
        BY <1>5, <1>8 DEF TypeOK, OutboxRow, Delivery
      <3> QED
        BY <1>5, <1>6, <1>7, <2>1, <3>1 DEF DatabaseInv, DeliveryIsTrue
    <2>3. ASSUME NEW d \in Session(p)
          PROVE  /\ endpoint[d.endpoint] = "present"
                 /\ d.attempt <= event'[d.event].attempts
                 /\ d.status = "delivered" =>
                       << d.event, d.endpoint >> \in acked
      BY <1>1, <1>2, <1>3, <1>6
    <2> QED
      BY <1>3, <1>4, <2>2, <2>3 DEF DeliveryIsTrue
  <1>16. PublishedWasReceived'
    <2> SUFFICES ASSUME NEW v \in Events, event'[v].status = "published",
                        NEW e \in audience[v], endpoint[e] = "present"
                 PROVE  /\ << v, e >> \in acked
                        /\ \E d \in deliveries' :
                              /\ d.event = v /\ d.endpoint = e
                              /\ d.status = "delivered"
      BY <1>4 DEF PublishedWasReceived
    <2>1. CASE v \in batch
      <3>1. PICK d \in Session(p) : d.event = v /\ d.endpoint = e
        BY <1>3, <2>1
      <3>2. d.status = "delivered"
        BY <1>2, <2>1, <3>1 DEF AllDelivered
      <3> QED
        BY <1>3, <3>1, <3>2
    <2>2. CASE v \notin batch
      BY <1>2, <1>3, <1>7, <2>2 DEF DatabaseInv, PublishedWasReceived
    <2> QED
      BY <2>1, <2>2
  <1> QED
    BY <1>8, <1>9, <1>10, <1>11, <1>12, <1>13, <1>14, <1>15, <1>16
       DEF PublisherInv, DatabaseInv

-----------------------------------------------------------------------------
(***************************************************************************)
(* The invariant.                                                          *)
(***************************************************************************)
LEMMA PublisherInit == Init => PublisherInv
  <1> SUFFICES ASSUME Init
               PROVE  PublisherInv
    OBVIOUS
  <1>1. /\ \A v \in Events : event[v] = Absent /\ audience[v] = {}
        /\ \A e \in Endpoints : endpoint[e] = "absent"
        /\ \A p \in Publishers : run[p] = Idle
        /\ deliveries = {} /\ acked = {}
    BY DEF Init
  <1>2. Absent \in OutboxRow /\ Absent.status = "absent"
        /\ Absent.attempts = 0
    BY LimitsAssumption DEF Absent, OutboxRow, OutboxStatuses
  <1>3. TypeOK
    BY <1>2, IdleIsRun, LimitsAssumption DEF Init, TypeOK
  <1>4. /\ Idle.step = "idle" /\ Idle.batch = {} /\ Idle.todo = {}
        /\ Idle.targets = {} /\ Idle.added = {} /\ Idle.flushed = {}
    BY DEF Idle
  <1>5. RunsExclude
    BY <1>1, <1>4 DEF RunsExclude
  <1>6. ASSUME NEW p \in Publishers
        PROVE  RunInv(p)
    <2>1. Session(p) = {}
      BY <1>1, <1>4 DEF Session
    <2> QED
      BY <1>1, <1>4, <2>1
         DEF RunInv, HoldsPending, SessionIsOwn, SessionOnce,
             SessionComplete, FlushedIsThere, OutcomeIsTrue
  <1>7. DatabaseInv
    BY <1>1, <1>2
       DEF DatabaseInv, AttemptsLeft, AudienceExisted, DeliveryOnce,
           DeliveryComplete, DeliveryIsTrue, PublishedWasReceived
  <1> QED
    BY <1>3, <1>5, <1>6, <1>7 DEF PublisherInv

LEMMA PublisherStutters ==
  ASSUME PublisherInv, UNCHANGED vars
  PROVE  PublisherInv'
  <1>1. /\ UNCHANGED << database, audience >> /\ acked \subseteq acked'
        /\ run' = run
    BY DEF vars, database
  <1>2. TypeOK'
    BY DEF PublisherInv, TypeOK, vars
  <1>3. RunsExclude'
    BY <1>1 DEF PublisherInv, RunsExclude
  <1>4. ASSUME NEW q \in Publishers
        PROVE  RunInv(q)'
    <2>1. \A d \in run[q].flushed : endpoint[d.endpoint] = "present"
      BY DEF PublisherInv, RunInv, FlushedIsThere
    <2> QED
      BY <1>1, <2>1, RunKept DEF database
  <1> QED
    BY <1>1, <1>2, <1>3, <1>4, DatabaseKept DEF PublisherInv

LEMMA PublisherNext == PublisherInv /\ [Next]_vars => PublisherInv'
  <1> SUFFICES ASSUME PublisherInv, [Next]_vars
               PROVE  PublisherInv'
    OBVIOUS
  <1>1. ASSUME NEW v \in Events, Emit(v)
        PROVE  PublisherInv'
    BY <1>1, EmitKeeps
  <1>2. ASSUME NEW e \in Endpoints, CreateWebhook(e) \/ DeleteWebhook(e)
        PROVE  PublisherInv'
    BY <1>2, CreateWebhookKeeps, DeleteWebhookKeeps
  <1>3. ASSUME NEW p \in Publishers, SelectEvents(p)
        PROVE  PublisherInv'
    BY <1>3, SelectEventsKeeps
  <1>4. ASSUME NEW p \in Publishers, Publish(p)
        PROVE  PublisherInv'
    <2>1. CASE SelectEndpoints(p)
      BY <2>1, SelectEndpointsKeeps
    <2>2. ASSUME NEW e \in Endpoints,
                 NEW status \in { "delivered", "failed" },
                 Post(p, e, status)
          PROVE  PublisherInv'
      BY <2>2, PostKeeps
    <2>3. CASE FinishEvent(p)
      BY <2>3, FinishEventKeeps
    <2>4. CASE CommitRun(p)
      BY <2>4, CommitRunKeeps
    <2>5. CASE IntegrityError(p)
      BY <2>5, RollbackKeeps
    <2> QED
      BY <1>4, <2>1, <2>2, <2>3, <2>4, <2>5 DEF Publish
  <1>5. ASSUME NEW p \in Publishers, Crash(p)
        PROVE  PublisherInv'
    BY <1>5, RollbackKeeps
  <1>6. CASE UNCHANGED vars
    BY <1>6, PublisherStutters
  <1> QED
    BY <1>1, <1>2, <1>3, <1>4, <1>5, <1>6 DEF Next

(***************************************************************************)
(* The invariant holds of the publisher.                                   *)
(***************************************************************************)
THEOREM PublisherInvariant == Spec => []PublisherInv
  BY PublisherInit, PublisherNext, PTL DEF Spec

(***************************************************************************)
(* The tables and the sessions always have their types.                    *)
(***************************************************************************)
THEOREM TypeCorrect == Spec => []TypeOK
  <1>1. PublisherInv => TypeOK
    BY DEF PublisherInv
  <1> QED
    BY <1>1, PublisherInvariant, PTL

(***************************************************************************)
(* An event is published only when each endpoint that it is owed to and    *)
(* that is still there has answered 2xx, and the history says so: however  *)
(* many runs overlap, die, or are rolled back.                             *)
(***************************************************************************)
THEOREM PublishedReceived == Spec => []PublishedWasReceived
  <1>1. PublisherInv => PublishedWasReceived
    BY DEF PublisherInv, DatabaseInv
  <1> QED
    BY <1>1, PublisherInvariant, PTL
=============================================================================
