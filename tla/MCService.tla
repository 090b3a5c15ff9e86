----------------------------- MODULE MCService -----------------------------
(***************************************************************************)
(* Service for TLC: the address of a user in two spellings, and that of    *)
(* the bootstrap admin; two containers of the image, or one that migrates  *)
(* and one that serves.                                                    *)
(***************************************************************************)
EXTENDS Service

CONSTANTS ann, Ann, c1, c2

MCLower == [ e \in Emails |-> IF e = Ann THEN ann ELSE e ]

MCDeployments ==
    { << { c1, c2 }, { c1, c2 } >>, << { c1 }, { c2 } >> }
=============================================================================
