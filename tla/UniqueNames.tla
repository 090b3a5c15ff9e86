---------------------------- MODULE UniqueNames ----------------------------
(***************************************************************************)
(* What the unique constraints of the schema promise those who ask for a   *)
(* name: an email, the slug of a project, the name of an environment in    *)
(* its project.  A claim is one indivisible step, and it fails only when   *)
(* somebody has the name.  Directory implements this module: its look-ups  *)
(* and inserts are many steps and look like one.                           *)
(***************************************************************************)

CONSTANTS
    Names,
    Claimants,
    Nobody,         \* who has a name that is free
    Installer       \* who has one that no claimant has asked for

VARIABLES
    holder,     \* [Names -> who has the name]
    verdict     \* [Claimants -> what has become of the claim]

Init ==
    /\ holder \in [Names -> { Nobody, Installer }]
    /\ verdict = [ q \in Claimants |-> "open" ]

Win(q, n) ==
    /\ verdict[q] = "open"
    /\ holder[n] = Nobody
    /\ holder' = [holder EXCEPT ![n] = q]
    /\ verdict' = [verdict EXCEPT ![q] = "won"]

Lose(q, n) ==
    /\ verdict[q] = "open"
    /\ holder[n] # Nobody
    /\ verdict' = [verdict EXCEPT ![q] = "lost"]
    /\ UNCHANGED holder

Install(n) ==
    /\ holder[n] = Nobody
    /\ holder' = [holder EXCEPT ![n] = Installer]
    /\ UNCHANGED verdict

Next ==
    \/ \E q \in Claimants, n \in Names : Win(q, n) \/ Lose(q, n)
    \/ \E n \in Names : Install(n)

Spec == Init /\ [][Next]_<< holder, verdict >>
=============================================================================
