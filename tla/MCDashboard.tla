---------------------------- MODULE MCDashboard ----------------------------
(***************************************************************************)
(* Dashboard for TLC: a user of each role; the developer is the creator of *)
(* the releases, the first project has them all, and approval is required. *)
(***************************************************************************)
EXTENDS Dashboard

CONSTANTS dev, rev, adm, r1, f1

MCRoleOf == [ u \in Users |-> CASE u = dev -> "developer"
                                [] u = rev -> "reviewer"
                                [] OTHER -> "admin" ]

MCProjectOf == [ r \in Releases |-> First ]

MCCreator == [ r \in Releases |-> dev ]

MCNeedsApproval == [ r \in Releases |-> TRUE ]
(***************************************************************************)
(* Everybody uses the page for releases that its form makes, one request   *)
(* at a time, with all that can fail; a patient user of two projects, and  *)
(* nothing fails; users who sign in and out and do not wait.               *)
(***************************************************************************)
Buttons ==
    [ users |-> Users, projects |-> { First }, existing |-> {},
      fetches |-> { f1 }, patient |-> FALSE, reliable |-> FALSE ]

PatientUser ==
    [ users |-> { dev, adm }, projects |-> Projects, existing |-> { r1 },
      fetches |-> { f1 }, patient |-> TRUE, reliable |-> TRUE ]

SignOut ==
    [ users |-> { rev, adm }, projects |-> { First }, existing |-> {},
      fetches |-> Fetches, patient |-> FALSE, reliable |-> TRUE ]

MCSettings == { Buttons, PatientUser, SignOut }
=============================================================================
