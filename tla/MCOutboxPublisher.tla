------------------------ MODULE MCOutboxPublisher ------------------------
(***************************************************************************)
(* OutboxPublisher for TLC: every event is for every endpoint, which is    *)
(* the case in which events wait for one another's endpoints.              *)
(***************************************************************************)
EXTENDS OutboxPublisher, TLC

MCMatches == [ v \in Events |-> Endpoints ]

PublisherSymmetry == Permutations(Endpoints)
=============================================================================
