-------------------------- MODULE OutboxDelivery --------------------------
(***************************************************************************)
(* What the transactional outbox promises the receivers of webhooks, with  *)
(* no runs, batches, locks or transactions: an event that is stored is     *)
(* received any number of times while it is pending, and by then by every  *)
(* receiver it is owed to when it is published; what is published or given *)
(* up stays so and is sent no more.  OutboxPublisher implements this.      *)
(***************************************************************************)

CONSTANTS Events, Endpoints, Matches

VARIABLES
    fate,       \* [Events -> status], the committed outbox
    listening,  \* [Endpoints -> "absent", "present", "deleted"]
    owed,       \* [Events -> the endpoints the event is owed to]
    received    \* the (event, endpoint) pairs acknowledged by a receiver

Store(v) ==
    /\ fate[v] = "absent"
    /\ fate' = [fate EXCEPT ![v] = "pending"]
    /\ owed' = [owed EXCEPT ![v] =
          { e \in Matches[v] : listening[e] = "present" }]
    /\ UNCHANGED << listening, received >>

Open(e) ==
    /\ listening[e] = "absent"
    /\ listening' = [listening EXCEPT ![e] = "present"]
    /\ UNCHANGED << fate, owed, received >>

Close(e) ==
    /\ listening[e] = "present"
    /\ listening' = [listening EXCEPT ![e] = "deleted"]
    /\ UNCHANGED << fate, owed, received >>

Receive(v, e) ==
    /\ fate[v] = "pending"
    /\ received' = received \cup { << v, e >> }
    /\ UNCHANGED << fate, listening, owed >>

Delivered(v) ==
    \A e \in owed[v] : listening[e] # "deleted" => << v, e >> \in received

Settle(published, failed) ==
    /\ \A v \in published \cup failed : fate[v] = "pending"
    /\ \A v \in published : Delivered(v)
    /\ fate' = [ v \in Events |-> IF v \in published THEN "published"
                                  ELSE IF v \in failed THEN "failed"
                                  ELSE fate[v] ]
    /\ UNCHANGED << listening, owed, received >>

Init ==
    /\ fate = [ v \in Events |-> "absent" ]
    /\ listening = [ e \in Endpoints |-> "absent" ]
    /\ owed = [ v \in Events |-> {} ]
    /\ received = {}

Next ==
    \/ \E v \in Events : Store(v)
    \/ \E e \in Endpoints : Open(e) \/ Close(e)
    \/ \E v \in Events, e \in Endpoints : Receive(v, e)
    \/ \E published, failed \in SUBSET Events : Settle(published, failed)

Spec == Init /\ [][Next]_<< fate, listening, owed, received >>
=============================================================================
