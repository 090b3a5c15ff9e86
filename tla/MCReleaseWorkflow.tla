------------------------ MODULE MCReleaseWorkflow ------------------------
(***************************************************************************)
(* ReleaseWorkflow for TLC.  Which users and releases there are, which     *)
(* releases need approval and how many processes run is chosen by the      *)
(* configurations.                                                         *)
(***************************************************************************)
EXTENDS ReleaseWorkflow

CONSTANTS dev, rev, adm     \* a developer, a reviewer and an admin
CONSTANTS r1, r2            \* releases

MCRole ==
    [ u \in Users |-> CASE u = adm -> "admin"
                        [] u = rev -> "reviewer"
                        [] u = dev -> "developer" ]

(***************************************************************************)
(* A reviewer's own release tells the four-eyes rule from the role check.  *)
(***************************************************************************)
MCCreator == [ r \in Releases |-> IF r = r1 THEN rev ELSE dev ]

AdminCreates == [ r \in Releases |-> adm ]

AllGated == [ r \in Releases |-> TRUE ]
NoneGated == [ r \in Releases |-> FALSE ]
=============================================================================
