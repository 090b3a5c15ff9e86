------------------------------ MODULE Service ------------------------------
(***************************************************************************)
(* The service as it is deployed: the containers of Startup and the        *)
(* requests of Directory, on one database.  The account that a bootstrap   *)
(* makes is a row of users, under an address that requests ask for, too.   *)
(* A request runs in a container that serves, and dies with it.            *)
(***************************************************************************)
EXTENDS Directory

CONSTANTS
    Containers,
    Deployments,        \* pairs: those that install, those that serve
    MaxCrashes          \* bound: so many containers die

ASSUME ServiceAssumption ==
    /\ Deployments \subseteq (SUBSET Containers) \X (SUBSET Containers)
    /\ \A d \in Deployments : d[1] # {}
    /\ MaxCrashes \in Nat

VARIABLES
    installers, servers,    \* the deployment
    schema,                 \* whether the tables are there
    step,                   \* the statement a container is about to run
    crashes

Launch ==
    INSTANCE Startup WITH
        admin <- IF row[Root] = Free THEN "none" ELSE row[Root].role

vars == << tables, request, installers, servers, schema, step, crashes >>

Serving == { c \in servers : step[c] = "serving" }

-----------------------------------------------------------------------------
(***************************************************************************)
(* A container goes on; its bootstrap may make the account.                *)
(***************************************************************************)
Run(c) ==
    /\ row' \in { row, [row EXCEPT ![Root] = Admin] }
    /\ Launch!Run(c)
    /\ UNCHANGED << history, request >>

Lost(requests) ==
    request' = [ q \in Requests |->
        IF q \in requests THEN [request[q] EXCEPT !.step = "done"]
        ELSE request[q] ]

Crash(c) ==
    /\ UNCHANGED tables
    /\ Launch!Crash(c)
    /\ \E lost \in SUBSET InFlight :
          /\ c \notin Serving => lost = {}
          /\ Serving = { c } => lost = InFlight
          /\ Lost(lost)

Restart(c) ==
    /\ UNCHANGED << tables, request >>
    /\ Launch!Restart(c)

Handle(q) ==
    /\ (Serving # {} /\ Arrive(q)) \/ Serve(q) \/ Abort(q)
    /\ UNCHANGED << installers, servers, schema, step, crashes >>

-----------------------------------------------------------------------------

Init == DatabaseInit /\ Launch!Init

Next ==
    \/ \E c \in Containers : Run(c) \/ Crash(c) \/ Restart(c)
    \/ \E q \in Requests : Handle(q)

Spec == Init /\ [][Next]_vars

(***************************************************************************)
(* The commands of a container run to their end; compose does not miss     *)
(* that migrate has completed, even when it is run again.  Nobody has to   *)
(* start a container again, and nobody to send a request.                  *)
(***************************************************************************)
FairSpec == Spec /\ \A c \in Containers : SF_vars(Run(c))

-----------------------------------------------------------------------------
(***************************************************************************)
(* Properties.                                                             *)
(***************************************************************************)

(***************************************************************************)
(* While a container serves, the tables are there and the bootstrap email  *)
(* is the bootstrap admin's: nobody can have registered it first, however  *)
(* many containers install at once, die and start again.  (The order of    *)
(* the entrypoint; depends_on: service_completed_successfully.)            *)
(***************************************************************************)
ServingIsReady == Serving # {} => schema /\ row[Root] = Admin

(***************************************************************************)
(* When no container dies, one gets through: those that fail on a table or *)
(* on the email have lost to another, which does not fail on both.         *)
(***************************************************************************)
LaunchSucceeds == <>(crashes > 0 \/ Serving # {})
=============================================================================
