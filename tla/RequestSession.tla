--------------------------- MODULE RequestSession ---------------------------
(***************************************************************************)
(* The database session of a request about one release, which the other    *)
(* modules hide in one step: the connection it takes from the engine's     *)
(* pool, the row lock, the objects it keeps, the commit, and the reload    *)
(* in _commit_and_reload, a new transaction on a connection of its own.    *)
(* With expire_on_commit=False the reload leaves what the session has      *)
(* loaded as it is and reads only updated_at, which the UPDATE expired.    *)
(* A release is loaded by two queries, of its row and of its approvals.    *)
(***************************************************************************)
EXTENDS Naturals, FiniteSets

CONSTANTS
    Requests,
    PoolSize        \* connections of the engine's pool

ASSUME PoolAssumption == PoolSize \in Nat \ {0}

VARIABLES
    version,        \* lock_version of the committed row; each transition is
                    \* one version, of which status and updated_at depend
    approvals,      \* the versions that came with a row of release_approvals
    request         \* what each request does, how far it is, its objects

vars == << version, approvals, request >>

Kinds == { "read", "change", "approve" }

(***************************************************************************)
(* The objects of a session.  status stands for the columns the session    *)
(* has loaded and set, by the version they are of; updated_at likewise.    *)
(***************************************************************************)
Request ==
    [ kind : Kinds,
      step : { "connect", "row", "approvals", "commit", "reconnect",
               "reload", "done", "aborted" },
      status : Nat, updated_at : Nat, approvals : SUBSET Nat ]

New == [ step |-> "new" ]

Keep(q, step) == [ request[q] EXCEPT !.step = step ]

Become(q, record) ==
    /\ request' = [request EXCEPT ![q] = record]
    /\ UNCHANGED << version, approvals >>

(***************************************************************************)
(* A connection is held from the first statement of a transaction to its   *)
(* end, a row lock from the SELECT ... FOR UPDATE.                         *)
(***************************************************************************)
TwoConnections ==                  \* fault: the reload in a second session
    Cardinality({ q \in Requests : request[q].step \in
        { "row", "approvals", "commit", "reconnect", "reload" } })

Connections ==
    Cardinality({ q \in Requests :
        request[q].step \in { "row", "approvals", "commit", "reload" } })

Writes(q) == request[q].kind \in { "change", "approve" }

RowLocked ==
    \E q \in Requests :
        request[q].step \in { "approvals", "commit" } /\ Writes(q)

-----------------------------------------------------------------------------

Receive(q, kind) ==
    /\ request[q] = New
    /\ Become(q, [ kind |-> kind, step |-> "connect", status |-> 0,
                   updated_at |-> 0, approvals |-> {} ])

(***************************************************************************)
(* get_current_user, or the reload after a commit, takes a connection.     *)
(***************************************************************************)
Connect(q) ==
    /\ Connections < PoolSize
    /\ \/ request[q].step = "connect" /\ Become(q, Keep(q, "row"))
       \/ request[q].step = "reconnect" /\ Become(q, Keep(q, "reload"))

(***************************************************************************)
(* get_release: the row, FOR UPDATE in a transition, then the approvals.   *)
(***************************************************************************)
ApprovalsFirst(q) ==               \* fault: the two queries in reverse
    IF request[q].step = "row"
    THEN [Keep(q, "approvals") EXCEPT !.approvals = approvals]
    ELSE [Keep(q, IF Writes(q) THEN "commit" ELSE "done")
             EXCEPT !.status = version, !.updated_at = version]

Loaded(q) ==
    IF request[q].step = "row"
    THEN [Keep(q, "approvals") EXCEPT !.status = version,
                                      !.updated_at = version]
    ELSE [Keep(q, IF Writes(q) THEN "commit" ELSE "done")
             EXCEPT !.approvals = approvals]

Load(q) ==
    /\ request[q].step \in { "row", "approvals" }
    /\ Writes(q) /\ request[q].step = "row" => ~RowLocked
    /\ Become(q, Loaded(q))

(***************************************************************************)
(* The service function, the flush and the commit.  The new approval is    *)
(* added by its foreign key, not to the collection the session has loaded. *)
(***************************************************************************)
Unversioned == version             \* fault: no version_id_col

NextVersion == version + 1

Commit(q) ==
    /\ request[q].step = "commit"
    /\ version' = NextVersion
    /\ approvals' = IF request[q].kind = "approve"
                    THEN approvals \cup { version' } ELSE approvals
    /\ request' = [request EXCEPT ![q] =
          [Keep(q, "reconnect") EXCEPT !.status = request[q].status + 1]]

ReloadExpired(q) ==                \* fault: expire_on_commit=True
    [Keep(q, "done") EXCEPT !.status = version, !.updated_at = version,
                            !.approvals = approvals]

Reloaded(q) == [Keep(q, "done") EXCEPT !.updated_at = version]

Reload(q) == request[q].step = "reload" /\ Become(q, Reloaded(q))

(***************************************************************************)
(* A refusal, a client that goes away, a pool that times out.              *)
(***************************************************************************)
Abort(q) ==
    /\ request[q].step \notin { "new", "done", "aborted" }
    /\ Become(q, Keep(q, "aborted"))

-----------------------------------------------------------------------------

Init ==
    /\ version = 1
    /\ approvals = {}
    /\ request = [ q \in Requests |-> New ]

Serve(q) ==
    \/ Connect(q) \/ Load(q) \/ Commit(q) \/ Reload(q)

Next ==
    \E q \in Requests :
        (\E kind \in Kinds : Receive(q, kind)) \/ Serve(q) \/ Abort(q)

Spec == Init /\ [][Next]_vars

(***************************************************************************)
(* A request that has its connection, and the row lock where it needs one, *)
(* runs its next statement.  Nothing has to abort.                         *)
(***************************************************************************)
FairSpec == Spec /\ \A q \in Requests : WF_vars(Serve(q))

-----------------------------------------------------------------------------
(***************************************************************************)
(* Properties.                                                             *)
(***************************************************************************)

(***************************************************************************)
(* The row and the sessions have their types.                              *)
(***************************************************************************)
TypeOK ==
    /\ version \in Nat \ {0}
    /\ approvals \in SUBSET (2..version)
    /\ request \in [Requests -> Request \cup { New }]

Answered(S) == { q \in Requests : request[q].step = "done"
                                    /\ request[q].kind \in S }

(***************************************************************************)
(* The answer to a transition shows the status and the lock_version that   *)
(* this request has committed, whatever has been committed since; so no    *)
(* two answers show the same version.  Its approvals are those of the      *)
(* versions before, without the request's own, and its updated_at may be   *)
(* that of a later transition.  (_commit_and_reload.)                      *)
(***************************************************************************)
AnswerIsOwnCommit ==
    /\ \A q \in Answered({ "change", "approve" }) :
          /\ request[q].kind = "approve" => request[q].status \in approvals
          /\ request[q].approvals =
                { v \in approvals : v < request[q].status }
          /\ request[q].updated_at >= request[q].status
    /\ \A q, o \in Answered({ "change", "approve" }) :
          request[q].status = request[o].status => q = o

(***************************************************************************)
(* GET shows all the approvals of the version it shows, and may show some  *)
(* of later ones.  (get_release without FOR UPDATE: two queries.)          *)
(***************************************************************************)
ReadsMissNothing ==
    \A q \in Answered({ "read" }) :
        { v \in approvals : v <= request[q].status } \subseteq
            request[q].approvals

(***************************************************************************)
(* Every request that arrives comes to an end (there are only so many),    *)
(* though those that wait for the row hold the connections that the others *)
(* need, and one that has committed needs a second.  (db/session.py; the   *)
(* reload after the commit.)                                               *)
(***************************************************************************)
PoolIsNeverStuck ==
    <>[](\A q \in Requests : request[q].step \in { "new", "done", "aborted" })
=============================================================================
