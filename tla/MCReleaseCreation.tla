------------------------ MODULE MCReleaseCreation ------------------------
(***************************************************************************)
(* ReleaseCreation for TLC: the owner of the project asks for everything,  *)
(* another user for one release.                                           *)
(***************************************************************************)
EXTENDS ReleaseCreation

CONSTANTS owner, other, t1

MCAsked == ({ owner } \X Targets) \cup { << other, t1 >> }
=============================================================================
