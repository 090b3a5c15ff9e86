----------------------- MODULE RequestSession_proofs -----------------------
(***************************************************************************)
(* What a session answers, for any number of requests and connections.     *)
(***************************************************************************)
EXTENDS RequestSession, TLAPS

(***************************************************************************)
(* The sessions that hold the row lock, and those that have committed.     *)
(***************************************************************************)
Holds(q) == request[q].step \in { "approvals", "commit" } /\ Writes(q)

HasCommitted(q) ==
    \/ request[q].step \in { "reconnect", "reload" }
    \/ request[q].step = "done" /\ Writes(q)

(***************************************************************************)
(* What a session has loaded is current while it holds the lock, so that   *)
(* the version it commits is its own.                                      *)
(***************************************************************************)
LoadedIsCurrent(q) ==
    /\ Holds(q) => /\ request[q].status = version
                   /\ request[q].updated_at = version
    /\ request[q].step = "commit" => /\ Writes(q)
                                     /\ request[q].approvals = approvals

CommittedIsOwn(q) ==
    HasCommitted(q) =>
        /\ Writes(q)
        /\ request[q].status <= version
        /\ request[q].kind = "approve" => request[q].status \in approvals
        /\ request[q].approvals =
              { v \in approvals : v < request[q].status }
        /\ request[q].updated_at <= version
        /\ request[q].step = "done" =>
              request[q].status <= request[q].updated_at

(***************************************************************************)
(* A session that only reads sees what was there when it read.             *)
(***************************************************************************)
ReadIsPast(q) ==
    request[q].step \in { "approvals", "done" } =>
        /\ request[q].status <= version
        /\ request[q].step = "done" /\ ~Writes(q) =>
              { v \in approvals : v <= request[q].status } \subseteq
                  request[q].approvals

OnlyOneHolds == \A q, o \in Requests : Holds(q) /\ Holds(o) => q = o

VersionsDiffer ==
    \A q, o \in Requests :
        HasCommitted(q) /\ HasCommitted(o)
            /\ request[q].status = request[o].status => q = o

SessionInv ==
    /\ TypeOK
    /\ \A q \in Requests :
          LoadedIsCurrent(q) /\ CommittedIsOwn(q) /\ ReadIsPast(q)
    /\ OnlyOneHolds
    /\ VersionsDiffer

-----------------------------------------------------------------------------
(***************************************************************************)
(* A step of q leaves the other sessions as they are.                      *)
(***************************************************************************)
LEMMA OthersStay ==
  ASSUME TypeOK, NEW q \in Requests, NEW record, Become(q, record)
  PROVE  /\ request'[q] = record
         /\ \A o \in Requests \ {q} : request'[o] = request[o]
         /\ version' = version /\ approvals' = approvals
  BY DEF TypeOK, Become

(***************************************************************************)
(* A step that writes nothing to the database keeps the invariant when it  *)
(* keeps it for the session that takes it.                                 *)
(***************************************************************************)
LEMMA OwnStep ==
  ASSUME SessionInv, NEW q \in Requests, NEW record, Become(q, record),
         record \in Request,
         LoadedIsCurrent(q)', CommittedIsOwn(q)', ReadIsPast(q)',
         Holds(q)' => \A o \in Requests \ {q} : ~Holds(o),
         HasCommitted(q)' =>
            HasCommitted(q) /\ record.status = request[q].status
  PROVE  SessionInv'
  <1>1. /\ request'[q] = record
        /\ \A o \in Requests \ {q} : request'[o] = request[o]
        /\ version' = version /\ approvals' = approvals
    BY OthersStay DEF SessionInv
  <1>2. TypeOK'
    BY <1>1 DEF SessionInv, TypeOK, Become
  <1>3. ASSUME NEW o \in Requests \ {q}
        PROVE  /\ LoadedIsCurrent(o)' /\ CommittedIsOwn(o)' /\ ReadIsPast(o)'
               /\ Holds(o)' <=> Holds(o)
               /\ HasCommitted(o)' <=> HasCommitted(o)
               /\ request'[o] = request[o]
    BY <1>1 DEF SessionInv, LoadedIsCurrent, CommittedIsOwn, ReadIsPast,
                Holds, HasCommitted, Writes
  <1>4. OnlyOneHolds'
    BY <1>3 DEF SessionInv, OnlyOneHolds
  <1>5. VersionsDiffer'
    BY <1>1, <1>3 DEF SessionInv, VersionsDiffer
  <1> QED
    BY <1>2, <1>3, <1>4, <1>5 DEF SessionInv

-----------------------------------------------------------------------------
(***************************************************************************)
(* The steps of a session.  A request arrives and holds nothing yet.       *)
(***************************************************************************)
LEMMA ReceiveStep ==
  ASSUME SessionInv, NEW q \in Requests, NEW kind \in Kinds, Receive(q, kind)
  PROVE  SessionInv'
  <1> DEFINE record == [ kind |-> kind, step |-> "connect", status |-> 0,
                         updated_at |-> 0, approvals |-> {} ]
  <1>1. Become(q, record) /\ request'[q] = record
    BY OthersStay DEF Receive, SessionInv
  <1>2. record \in Request
    BY DEF Request
  <1>3. request'[q].step = "connect"
    BY <1>1
  <1>4. /\ ~Holds(q)' /\ ~HasCommitted(q)'
        /\ LoadedIsCurrent(q)' /\ CommittedIsOwn(q)' /\ ReadIsPast(q)'
    BY <1>3 DEF Holds, HasCommitted, LoadedIsCurrent, CommittedIsOwn,
                ReadIsPast
  <1> HIDE DEF record
  <1> QED
    BY <1>1, <1>2, <1>4, OwnStep

(***************************************************************************)
(* A connection is taken for the load or for the reload, and nothing else  *)
(* that the session has changes.                                           *)
(***************************************************************************)
LEMMA ConnectStep ==
  ASSUME SessionInv, NEW q \in Requests, Connect(q)
  PROVE  SessionInv'
  <1>1. request[q] \in Request
    BY DEF Connect, SessionInv, TypeOK, New
  <1>2. CASE request[q].step = "connect" /\ Become(q, Keep(q, "row"))
    <2>1. /\ request'[q] = Keep(q, "row") /\ Keep(q, "row") \in Request
          /\ request'[q].step = "row"
      BY <1>1, <1>2, OthersStay DEF SessionInv, Keep, Request
    <2>2. /\ ~Holds(q)' /\ ~HasCommitted(q)'
          /\ LoadedIsCurrent(q)' /\ CommittedIsOwn(q)' /\ ReadIsPast(q)'
      BY <2>1 DEF Holds, HasCommitted, LoadedIsCurrent, CommittedIsOwn,
                  ReadIsPast
    <2> QED
      BY <1>2, <2>1, <2>2, OwnStep
  <1>3. CASE request[q].step = "reconnect" /\ Become(q, Keep(q, "reload"))
    <2>1. /\ request'[q] = Keep(q, "reload") /\ Keep(q, "reload") \in Request
          /\ request'[q].step = "reload"
          /\ request'[q].status = request[q].status
          /\ request'[q].kind = request[q].kind
          /\ request'[q].approvals = request[q].approvals
          /\ request'[q].updated_at = request[q].updated_at
          /\ version' = version /\ approvals' = approvals
      BY <1>1, <1>3, OthersStay DEF SessionInv, Keep, Request
    <2>2. HasCommitted(q) /\ CommittedIsOwn(q)
      BY <1>3 DEF HasCommitted, SessionInv
    <2>3. /\ ~Holds(q)' /\ LoadedIsCurrent(q)' /\ ReadIsPast(q)'
      BY <2>1 DEF Holds, LoadedIsCurrent, ReadIsPast
    <2>4. CommittedIsOwn(q)'
      BY <2>1, <2>2 DEF CommittedIsOwn, Writes
    <2>5. Keep(q, "reload").status = request[q].status
      BY <2>1
    <2> QED
      BY <1>3, <2>1, <2>2, <2>3, <2>4, <2>5, OwnStep
  <1> QED
    BY <1>2, <1>3 DEF Connect

(***************************************************************************)
(* The release and then its approvals are read; with FOR UPDATE, only when *)
(* nobody holds the row.                                                   *)
(***************************************************************************)
LEMMA LoadStep ==
  ASSUME SessionInv, NEW q \in Requests, Load(q)
  PROVE  SessionInv'
  <1>1. request[q] \in Request /\ version \in Nat
        /\ approvals \in SUBSET (2..version)
    BY DEF Load, SessionInv, TypeOK, New
  <1>2. /\ Become(q, Loaded(q)) /\ request'[q] = Loaded(q)
        /\ version' = version /\ approvals' = approvals
    BY OthersStay DEF Load, SessionInv
  <1>3. CASE request[q].step = "row"
    <2>1. /\ Loaded(q) \in Request
          /\ request'[q].step = "approvals"
          /\ request'[q].kind = request[q].kind
          /\ request'[q].status = version
          /\ request'[q].updated_at = version
      BY <1>1, <1>2, <1>3 DEF Loaded, Keep, Request
    <2>2. /\ LoadedIsCurrent(q)' /\ ~HasCommitted(q)'
          /\ CommittedIsOwn(q)' /\ ReadIsPast(q)'
      BY <1>1, <1>2, <2>1 DEF LoadedIsCurrent, HasCommitted, CommittedIsOwn,
                              ReadIsPast
    <2>3. Holds(q)' => \A o \in Requests \ {q} : ~Holds(o)
      BY <1>3, <2>1 DEF Load, RowLocked, Holds, Writes
    <2> QED
      BY <1>2, <2>1, <2>2, <2>3, OwnStep
  <1>4. CASE request[q].step = "approvals"
    <2>1. /\ Loaded(q) \in Request
          /\ request'[q].step = IF Writes(q) THEN "commit" ELSE "done"
          /\ request'[q].kind = request[q].kind
          /\ request'[q].status = request[q].status
          /\ request'[q].updated_at = request[q].updated_at
          /\ request'[q].approvals = approvals
      <3>1. Loaded(q) = [Keep(q, IF Writes(q) THEN "commit" ELSE "done")
                            EXCEPT !.approvals = approvals]
        BY <1>4 DEF Loaded
      <3>2. approvals \in SUBSET Nat
        BY <1>1
      <3>3. CASE Writes(q)
        BY <1>1, <1>2, <3>1, <3>2, <3>3 DEF Keep, Request
      <3>4. CASE ~Writes(q)
        BY <1>1, <1>2, <3>1, <3>2, <3>4 DEF Keep, Request
      <3> QED
        BY <3>3, <3>4
    <2>2. Writes(q)' <=> Writes(q)
      BY <2>1 DEF Writes
    <2>3. LoadedIsCurrent(q) /\ ReadIsPast(q) /\ OnlyOneHolds
      BY DEF SessionInv
    <2>4. ~HasCommitted(q)' /\ CommittedIsOwn(q)'
      BY <2>1, <2>2 DEF HasCommitted, CommittedIsOwn
    <2>5. LoadedIsCurrent(q)'
      BY <1>2, <1>4, <2>1, <2>2, <2>3 DEF LoadedIsCurrent, Holds
    <2>6. ReadIsPast(q)'
      BY <1>2, <1>4, <2>1, <2>2, <2>3 DEF ReadIsPast
    <2>7. Holds(q)' => \A o \in Requests \ {q} : ~Holds(o)
      BY <1>4, <2>2, <2>3 DEF Holds, OnlyOneHolds
    <2> QED
      BY <1>2, <2>1, <2>4, <2>5, <2>6, <2>7, OwnStep
  <1> QED
    BY <1>3, <1>4 DEF Load

(***************************************************************************)
(* The reload reads what the commit has expired and keeps the rest.        *)
(***************************************************************************)
LEMMA ReloadStep ==
  ASSUME SessionInv, NEW q \in Requests, Reload(q)
  PROVE  SessionInv'
  <1>1. /\ request[q] \in Request /\ request[q].step = "reload"
        /\ version \in Nat
    BY DEF Reload, SessionInv, TypeOK, New
  <1>2. /\ Become(q, Reloaded(q)) /\ request'[q] = Reloaded(q)
        /\ version' = version /\ approvals' = approvals
    BY OthersStay DEF Reload, SessionInv
  <1>3. /\ Reloaded(q) \in Request
        /\ request'[q].step = "done"
        /\ request'[q].kind = request[q].kind
        /\ request'[q].status = request[q].status
        /\ request'[q].approvals = request[q].approvals
        /\ request'[q].updated_at = version
    BY <1>1, <1>2 DEF Reloaded, Keep, Request
  <1>4. HasCommitted(q) /\ CommittedIsOwn(q)
    BY <1>1 DEF HasCommitted, SessionInv
  <1>5. Writes(q)' /\ ~Holds(q)' /\ LoadedIsCurrent(q)'
    BY <1>3, <1>4 DEF CommittedIsOwn, Writes, Holds, LoadedIsCurrent
  <1>6. CommittedIsOwn(q)' /\ ReadIsPast(q)'
    BY <1>1, <1>2, <1>3, <1>4, <1>5 DEF CommittedIsOwn, ReadIsPast
  <1>7. Reloaded(q).status = request[q].status
    BY <1>2, <1>3
  <1> QED
    BY <1>2, <1>3, <1>4, <1>5, <1>6, <1>7, OwnStep

(***************************************************************************)
(* A session that is given up holds nothing and has answered nothing.      *)
(***************************************************************************)
LEMMA AbortStep ==
  ASSUME SessionInv, NEW q \in Requests, Abort(q)
  PROVE  SessionInv'
  <1>1. request[q] \in Request
    BY DEF Abort, SessionInv, TypeOK, New
  <1>2. /\ Become(q, Keep(q, "aborted")) /\ Keep(q, "aborted") \in Request
        /\ request'[q].step = "aborted"
    BY <1>1, OthersStay DEF Abort, SessionInv, Keep, Request
  <1>3. /\ ~Holds(q)' /\ ~HasCommitted(q)'
        /\ LoadedIsCurrent(q)' /\ CommittedIsOwn(q)' /\ ReadIsPast(q)'
    BY <1>2 DEF Holds, HasCommitted, LoadedIsCurrent, CommittedIsOwn,
                ReadIsPast
  <1> QED
    BY <1>2, <1>3, OwnStep

(***************************************************************************)
(* A commit is one of the version that the session has loaded: nobody else *)
(* has held the lock since.                                                *)
(***************************************************************************)
LEMMA CommitStep ==
  ASSUME SessionInv, NEW q \in Requests, Commit(q)
  PROVE  SessionInv'
  <1>1. /\ request[q] \in Request /\ request[q].step = "commit"
        /\ version \in Nat \ {0} /\ approvals \in SUBSET (2..version)
    BY DEF Commit, SessionInv, TypeOK, New
  <1>2. /\ Writes(q) /\ Holds(q)
        /\ request[q].status = version /\ request[q].updated_at = version
        /\ request[q].approvals = approvals
    BY <1>1 DEF SessionInv, LoadedIsCurrent, Holds
  <1>3. version' = version + 1
    BY DEF Commit, NextVersion
  <1>4. /\ approvals' \in SUBSET (2..version')
        /\ approvals \subseteq approvals'
        /\ \A v \in approvals' : v \in approvals \/ v = version + 1
        /\ request[q].kind = "approve" => version + 1 \in approvals'
    <2>1. version' \in 2..version' /\ 2..version \subseteq 2..version'
      BY <1>1, <1>3
    <2>2. CASE request[q].kind = "approve"
      <3>1. approvals' = approvals \cup { version' }
        BY <2>2 DEF Commit
      <3> QED
        BY <1>1, <1>3, <2>1, <3>1
    <2>3. CASE request[q].kind # "approve"
      <3>1. approvals' = approvals
        BY <2>3 DEF Commit
      <3> QED
        BY <1>1, <2>1, <2>3, <3>1
    <2> QED
      BY <2>2, <2>3
  <1>5. /\ request'[q] \in Request
        /\ request'[q].step = "reconnect"
        /\ request'[q].kind = request[q].kind
        /\ request'[q].status = version + 1
        /\ request'[q].updated_at = version
        /\ request'[q].approvals = approvals
        /\ \A o \in Requests \ {q} : request'[o] = request[o]
    <2> DEFINE record == [Keep(q, "reconnect") EXCEPT
                             !.status = request[q].status + 1]
    <2>1. request' = [request EXCEPT ![q] = record]
      BY DEF Commit
    <2>2. request \in [Requests -> Request \cup { New }]
      BY DEF SessionInv, TypeOK
    <2>3. /\ record \in Request
          /\ record.step = "reconnect" /\ record.kind = request[q].kind
          /\ record.status = version + 1 /\ record.updated_at = version
          /\ record.approvals = approvals
      <3>1. /\ Keep(q, "reconnect") \in Request
            /\ Keep(q, "reconnect").step = "reconnect"
            /\ Keep(q, "reconnect").kind = request[q].kind
            /\ Keep(q, "reconnect").updated_at = request[q].updated_at
            /\ Keep(q, "reconnect").approvals = request[q].approvals
        BY <1>1 DEF Keep, Request
      <3>2. request[q].status + 1 = version + 1 /\ version + 1 \in Nat
        BY <1>1, <1>2
      <3> QED
        BY <1>2, <3>1, <3>2 DEF Request
    <2> HIDE DEF record
    <2> QED
      BY <2>1, <2>2, <2>3
  <1>6. TypeOK'
    <2>1. request' \in [Requests -> Request \cup { New }]
      BY <1>5 DEF Commit, SessionInv, TypeOK
    <2> QED
      BY <1>1, <1>3, <1>4, <2>1 DEF TypeOK
  <1>7. LoadedIsCurrent(q)' /\ CommittedIsOwn(q)' /\ ReadIsPast(q)'
    <2>1. Writes(q)' /\ ~Holds(q)'
      BY <1>2, <1>5 DEF Writes, Holds
    <2>2. { v \in approvals' : v < version + 1 } = approvals
      <3>1. \A v \in approvals : v < version + 1
        BY <1>1
      <3>2. ASSUME NEW v \in approvals', v < version + 1
            PROVE  v \in approvals
        <4>1. ~(version + 1 < version + 1)
          BY <1>1
        <4>2. v # version + 1
          BY <3>2, <4>1
        <4> QED
          BY <1>4, <3>2, <4>2
      <3>3. approvals \subseteq approvals'
        BY <1>4
      <3> QED
        BY <3>1, <3>2, <3>3
    <2>3. CommittedIsOwn(q)'
      BY <1>1, <1>3, <1>4, <1>5, <2>1, <2>2 DEF CommittedIsOwn
    <2> QED
      BY <1>5, <2>1, <2>3 DEF LoadedIsCurrent, ReadIsPast
  <1>8. ASSUME NEW o \in Requests \ {q}
        PROVE  /\ request'[o] = request[o]
               /\ ~Holds(o) /\ ~Holds(o)'
               /\ HasCommitted(o)' <=> HasCommitted(o)
               /\ Writes(o)' <=> Writes(o)
    BY <1>2, <1>5 DEF SessionInv, OnlyOneHolds, Holds, HasCommitted, Writes
  <1>9. ASSUME NEW o \in Requests \ {q}
        PROVE  LoadedIsCurrent(o)' /\ CommittedIsOwn(o)' /\ ReadIsPast(o)'
    <2>1. LoadedIsCurrent(o)'
      BY <1>8 DEF SessionInv, LoadedIsCurrent, Holds
    <2>2. CommittedIsOwn(o)'
      <3> SUFFICES ASSUME HasCommitted(o)'
                   PROVE  CommittedIsOwn(o)'
        BY DEF CommittedIsOwn
      <3>1. HasCommitted(o) /\ CommittedIsOwn(o) /\ request[o] \in Request
        BY <1>8 DEF SessionInv, TypeOK, New, HasCommitted
      <3>2. /\ request[o].status \in Nat /\ request[o].updated_at \in Nat
            /\ request[o].status <= version
            /\ request[o].updated_at <= version
        BY <3>1 DEF CommittedIsOwn, Request
      <3>3. { v \in approvals' : v < request[o].status } =
            { v \in approvals : v < request[o].status }
        <4>1. \A v \in approvals' :
                 v < request[o].status => v \in approvals
          BY <1>1, <1>4, <3>2
        <4> QED
          BY <1>4, <4>1
      <3> QED
        BY <1>1, <1>3, <1>4, <1>8, <3>1, <3>2, <3>3 DEF CommittedIsOwn
    <2>3. ReadIsPast(o)'
      <3> SUFFICES ASSUME request[o].step \in { "approvals", "done" }
                   PROVE  ReadIsPast(o)'
        BY <1>8 DEF ReadIsPast
      <3>1. ReadIsPast(o) /\ request[o] \in Request
        BY DEF SessionInv, TypeOK, New
      <3>2. request[o].status \in Nat /\ request[o].status <= version
        BY <3>1 DEF ReadIsPast, Request
      <3>3. { v \in approvals' : v <= request[o].status } =
            { v \in approvals : v <= request[o].status }
        <4>1. \A v \in approvals' :
                 v <= request[o].status => v \in approvals
          BY <1>1, <1>4, <3>2
        <4> QED
          BY <1>4, <4>1
      <3> QED
        BY <1>1, <1>3, <1>8, <3>1, <3>2, <3>3 DEF ReadIsPast
    <2> QED
      BY <2>1, <2>2, <2>3
  <1>10. OnlyOneHolds'
    BY <1>8 DEF OnlyOneHolds
  <1>11. VersionsDiffer'
    <2>1. ASSUME NEW o \in Requests \ {q}, HasCommitted(o)'
          PROVE  request'[o].status # version + 1
      <3>1. CommittedIsOwn(o) /\ HasCommitted(o) /\ request[o] \in Request
        BY <1>8, <2>1 DEF SessionInv, TypeOK, New, HasCommitted
      <3> QED
        BY <1>1, <1>8, <3>1 DEF CommittedIsOwn, Request
    <2> QED
      BY <1>5, <1>8, <2>1 DEF SessionInv, VersionsDiffer
  <1> QED
    BY <1>6, <1>7, <1>9, <1>10, <1>11 DEF SessionInv

-----------------------------------------------------------------------------
(***************************************************************************)
(* The invariant holds of every reachable state.                           *)
(***************************************************************************)
THEOREM SessionInvariant == Spec => []SessionInv
  <1>1. Init => SessionInv
    <2> SUFFICES ASSUME Init
                 PROVE  SessionInv
      OBVIOUS
    <2>1. TypeOK
      BY DEF Init, TypeOK
    <2>2. \A q \in Requests : request[q].step = "new"
      BY DEF Init, New
    <2> QED
      BY <2>1, <2>2 DEF SessionInv, LoadedIsCurrent, CommittedIsOwn,
            ReadIsPast, OnlyOneHolds, VersionsDiffer, Holds, HasCommitted
  <1>2. SessionInv /\ [Next]_vars => SessionInv'
    <2> SUFFICES ASSUME SessionInv, [Next]_vars
                 PROVE  SessionInv'
      OBVIOUS
    <2>1. ASSUME NEW q \in Requests, NEW kind \in Kinds, Receive(q, kind)
          PROVE  SessionInv'
      BY <2>1, ReceiveStep
    <2>2. ASSUME NEW q \in Requests, Serve(q)
          PROVE  SessionInv'
      BY <2>2, ConnectStep, LoadStep, CommitStep, ReloadStep DEF Serve
    <2>3. ASSUME NEW q \in Requests, Abort(q)
          PROVE  SessionInv'
      BY <2>3, AbortStep
    <2>4. CASE UNCHANGED vars
      BY <2>4 DEF vars, SessionInv, TypeOK, LoadedIsCurrent, CommittedIsOwn,
            ReadIsPast, OnlyOneHolds, VersionsDiffer, Holds, HasCommitted,
            Writes
    <2> QED
      BY <2>1, <2>2, <2>3, <2>4 DEF Next
  <1> QED
    BY <1>1, <1>2, PTL DEF Spec

(***************************************************************************)
(* The tables and the sessions keep their types.                           *)
(***************************************************************************)
THEOREM SessionTypes == Spec => []TypeOK
  <1>1. SessionInv => TypeOK
    BY DEF SessionInv
  <1> QED
    BY <1>1, SessionInvariant, PTL

(***************************************************************************)
(* The answer to a transition shows what its own request has committed,    *)
(* and no two answers show the same version, for any number of requests    *)
(* and any size of the pool.  (_commit_and_reload.)                        *)
(***************************************************************************)
THEOREM AnswersAreOwn == Spec => []AnswerIsOwnCommit
  <1>1. SessionInv => AnswerIsOwnCommit
    <2> SUFFICES ASSUME SessionInv
                 PROVE  AnswerIsOwnCommit
      OBVIOUS
    <2>1. ASSUME NEW q \in Answered({ "change", "approve" })
          PROVE  q \in Requests /\ HasCommitted(q) /\ CommittedIsOwn(q)
                 /\ request[q].step = "done" /\ request[q] \in Request
      BY DEF Answered, HasCommitted, Writes, SessionInv, TypeOK, New
    <2>2. ASSUME NEW q \in Answered({ "change", "approve" })
          PROVE  request[q].updated_at >= request[q].status
      BY <2>1 DEF CommittedIsOwn, Request
    <2> QED
      BY <2>1, <2>2 DEF AnswerIsOwnCommit, CommittedIsOwn, SessionInv,
                        VersionsDiffer
  <1> QED
    BY <1>1, SessionInvariant, PTL

(***************************************************************************)
(* A GET, whose two queries see different moments, shows every approval of *)
(* the version it shows.  (get_release without FOR UPDATE.)                *)
(***************************************************************************)
THEOREM ReadsAreComplete == Spec => []ReadsMissNothing
  <1>1. SessionInv => ReadsMissNothing
    BY DEF SessionInv, ReadsMissNothing, ReadIsPast, Answered, Writes
  <1> QED
    BY <1>1, SessionInvariant, PTL
=============================================================================
