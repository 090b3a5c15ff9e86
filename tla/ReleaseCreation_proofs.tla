---------------------- MODULE ReleaseCreation_proofs ----------------------
(***************************************************************************)
(* What racing requests to create releases are told, for any number of     *)
(* users, keys, versions and requests.                                     *)
(***************************************************************************)
EXTENDS ReleaseCreation, SequenceTheorems, TLAPS

(***************************************************************************)
(* The two unique constraints hold of what is committed, and keep apart    *)
(* what is inserted and not committed.                                     *)
(***************************************************************************)
RowsDiffer == \A i, j \in Ids : Conflict(table[i], table[j]) => i = j

HasEntry(q, u) == request[q] # New /\ u \in request[q].holds

EntriesDiffer ==
    \A u \in Indexes : \A q, o \in Requests :
        /\ HasEntry(q, u) /\ HasEntry(o, u)
        /\ Clash(u, request[q], request[o])
        => q = o

OneCreatorEach ==
    \A q, o \in Answered(201) :
        request[q].release = request[o].release => q = o

HistoryOfRows ==
    Len(events) = Len(table) /\ \A i \in Ids : events[i] = i

(***************************************************************************)
(* What a request has checked, and what it may go on.                      *)
(***************************************************************************)
InProject(q) ==
    request[q].step \in { "version", "insert", "commit" } =>
        request[q].user \in Managers /\ request[q].target \in KnownTargets

ArrivedThen(q) ==
    request[q].step # "new" =>
        /\ request[q].rows <= Len(table)
        /\ request[q].original # 0 =>
              /\ request[q].original \in Ids
              /\ table[request[q].original].key = request[q].key
        /\ request[q].step # "done" => request[q].status = 0

Replays(q) ==
    /\ request[q].step # "new"
    /\ request[q].key \in Keys /\ request[q].original # 0
    => /\ request[q].step \in { "key", "done" }
       /\ request[q].step = "done" /\ request[q].status # 0 =>
             /\ request[q].status = 200
             /\ request[q].release = request[q].original

KeyWasFree(q) ==
    /\ request[q].step \in { "project", "version", "insert", "commit" }
    /\ request[q].key \in Keys
    => \A i \in Ids : i <= request[q].rows => table[i].key # request[q].key

VersionWasFree(q) ==
    request[q].step \in { "insert", "commit" } =>
        \A i \in Ids : i <= request[q].rows =>
            table[i].target # request[q].target

(***************************************************************************)
(* The entries of an insert are made in one order, and gone when it ends;  *)
(* none is equal to that of a row.                                         *)
(***************************************************************************)
EntersInOrder(q) ==
    request[q].step # "new" =>
        /\ request[q].step \notin { "insert", "commit" } =>
              request[q].holds = {}
        /\ request[q].step = "insert" =>
              request[q].holds \in { {}, { "version" } }
        /\ request[q].step = "commit" => request[q].holds = Indexes

EntryIsFree(q) ==
    \A u \in Indexes : HasEntry(q, u) =>
        \A i \in Ids : ~Clash(u, request[q], table[i])

(***************************************************************************)
(* What the answers 200, 201, 409 and 500 say.                             *)
(***************************************************************************)
ReplayIsTrue(q) ==
    /\ request[q].release \in Ids
    /\ table[request[q].release].key = request[q].key

CreationIsTrue(q) ==
    /\ request[q].release \in Ids
    /\ table[request[q].release] =
          [ key |-> request[q].key, target |-> request[q].target,
            created_by |-> request[q].user ]
    /\ request[q].user \in Managers
    /\ request[q].target \in KnownTargets

RefusalIsTrue(q) == \E i \in Ids : table[i].target = request[q].target

FailureIsTrue(q) ==
    \E i \in Ids :
        /\ Conflict(request[q], table[i])
        /\ \/ i > request[q].rows
           \/ request[q].key = EmptyKey /\ table[i].key = EmptyKey

AnswerIsTrue(q) ==
    request[q].step = "done" =>
        /\ request[q].status = 200 => ReplayIsTrue(q)
        /\ request[q].status = 201 => CreationIsTrue(q)
        /\ request[q].status = 409 => RefusalIsTrue(q)
        /\ request[q].status = 500 => FailureIsTrue(q)

RequestInv(q) ==
    /\ InProject(q) /\ ArrivedThen(q) /\ Replays(q)
    /\ KeyWasFree(q) /\ VersionWasFree(q)
    /\ EntersInOrder(q) /\ EntryIsFree(q)
    /\ AnswerIsTrue(q)

CreationInv ==
    /\ TypeOK
    /\ RowsDiffer /\ EntriesDiffer /\ OneCreatorEach /\ HistoryOfRows
    /\ \A q \in Requests : RequestInv(q)

-----------------------------------------------------------------------------
(***************************************************************************)
(* The row that WithKey finds has the key, and finds it when there is one. *)
(***************************************************************************)
LEMMA WithKeyFinds ==
  ASSUME TypeOK, NEW k
  PROVE  /\ WithKey(k) # 0 => /\ WithKey(k) \in Ids
                              /\ table[WithKey(k)].key = k
         /\ WithKey(k) = 0 => \A i \in Ids : table[i].key # k
         /\ WithKey(k) \in Nat
  <1>1. Ids = 1..Len(table) /\ Len(table) \in Nat
    BY DEF TypeOK, Ids
  <1>2. CASE \E i \in Ids : table[i].key = k
    <2>1. WithKey(k) = CHOOSE i \in Ids : table[i].key = k
      BY <1>2 DEF WithKey
    <2>2. WithKey(k) \in Ids /\ table[WithKey(k)].key = k
      BY <1>2, <2>1
    <2> QED
      BY <1>1, <2>2
  <1>3. CASE ~ \E i \in Ids : table[i].key = k
    BY <1>3 DEF WithKey
  <1> QED
    BY <1>2, <1>3

(***************************************************************************)
(* A step of q that leaves the tables alone keeps the invariant when it    *)
(* keeps it for q, makes no entry that another has, and does not answer    *)
(* that a release is created.                                              *)
(***************************************************************************)
EntersFree(q, record) ==
    \A u \in record.holds : \A o \in Requests \ {q} :
        HasEntry(o, u) => ~Clash(u, record, request[o])

NotCreated(record) == record.step # "done" \/ record.status # 201

LEMMA CreationOwnStep ==
  ASSUME CreationInv, NEW q \in Requests, NEW record \in Request,
         request' = [request EXCEPT ![q] = record], UNCHANGED database,
         RequestInv(q)', EntersFree(q, record), NotCreated(record)
  PROVE  CreationInv'
  <1>1. /\ request'[q] = record
        /\ \A o \in Requests \ {q} : request'[o] = request[o]
        /\ table' = table /\ events' = events
    BY DEF CreationInv, TypeOK, database
  <1>2. TypeOK'
    BY <1>1 DEF CreationInv, TypeOK, Ids
  <1>3. RowsDiffer' /\ HistoryOfRows'
    BY <1>1 DEF CreationInv, RowsDiffer, HistoryOfRows, Ids
  <1>4. EntriesDiffer'
    <2>1. \A u, a, b : Clash(u, a, b) <=> Clash(u, b, a)
      BY DEF Clash
    <2> QED
      BY <1>1, <2>1 DEF CreationInv, EntriesDiffer, HasEntry, EntersFree
  <1>5. OneCreatorEach'
    BY <1>1 DEF CreationInv, OneCreatorEach, Answered, NotCreated
  <1>6. ASSUME NEW o \in Requests \ {q}
        PROVE  RequestInv(o)'
    <2>1. RequestInv(o) /\ request'[o] = request[o] /\ table' = table
      BY <1>1 DEF CreationInv
    <2> QED
      BY <2>1 DEF RequestInv, InProject, ArrivedThen, Replays, KeyWasFree,
                  VersionWasFree, EntersInOrder, EntryIsFree, HasEntry,
                  AnswerIsTrue, ReplayIsTrue, CreationIsTrue,
                  RefusalIsTrue, FailureIsTrue, Ids
  <1> QED
    BY <1>2, <1>3, <1>4, <1>5, <1>6 DEF CreationInv

-----------------------------------------------------------------------------
(***************************************************************************)
(* A request that goes on to a statement and is not answered.              *)
(***************************************************************************)
LEMMA GoOn ==
  ASSUME CreationInv, NEW q \in Requests, request[q] \in Request,
         NEW step \in { "project", "version", "insert" },
         Go(q, step)
  PROVE  \E record \in Request :
             /\ request' = [request EXCEPT ![q] = record]
             /\ request'[q] = record
             /\ UNCHANGED database /\ table' = table
             /\ record.step = step
             /\ record.user = request[q].user
             /\ record.key = request[q].key
             /\ record.target = request[q].target
             /\ record.original = request[q].original
             /\ record.rows = request[q].rows
             /\ record.holds = request[q].holds
             /\ record.status = request[q].status
             /\ record.release = request[q].release
  <1> DEFINE record == [request[q] EXCEPT !.step = step]
  <1>1. /\ record \in Request
        /\ record.step = step
        /\ record.user = request[q].user
        /\ record.key = request[q].key
        /\ record.target = request[q].target
        /\ record.original = request[q].original
        /\ record.rows = request[q].rows
        /\ record.holds = request[q].holds
        /\ record.status = request[q].status
        /\ record.release = request[q].release
    BY DEF Request
  <1>2. request' = [request EXCEPT ![q] = record] /\ UNCHANGED database
    BY DEF Go
  <1>3. request \in [Requests -> Request \cup { New }]
    BY DEF CreationInv, TypeOK
  <1> HIDE DEF record
  <1>4. request'[q] = record /\ table' = table
    BY <1>2, <1>3 DEF database
  <1> QED
    BY <1>1, <1>2, <1>4

(***************************************************************************)
(* A request that is answered.                                             *)
(***************************************************************************)
LEMMA Answers ==
  ASSUME CreationInv, NEW q \in Requests, request[q] \in Request,
         NEW status \in { 0, 200, 201, 403, 404, 409, 500 }, NEW release \in Nat,
         Reply(q, status, release)
  PROVE  /\ request' = [request EXCEPT ![q] = request'[q]]
         /\ request'[q] \in Request
         /\ request'[q].step = "done" /\ request'[q].holds = {}
         /\ request'[q].user = request[q].user
         /\ request'[q].key = request[q].key
         /\ request'[q].target = request[q].target
         /\ request'[q].original = request[q].original
         /\ request'[q].rows = request[q].rows
         /\ request'[q].status = status
         /\ request'[q].release = release
  <1> DEFINE record == [request[q] EXCEPT !.step = "done", !.holds = {},
                           !.status = status, !.release = release]
  <1>1. request' = [request EXCEPT ![q] = record]
    BY DEF Reply
  <1>2. request \in [Requests -> Request \cup { New }]
    BY DEF CreationInv, TypeOK
  <1>3. /\ record \in Request
        /\ record.step = "done" /\ record.holds = {}
        /\ record.user = request[q].user
        /\ record.key = request[q].key
        /\ record.target = request[q].target
        /\ record.original = request[q].original
        /\ record.rows = request[q].rows
        /\ record.status = status
        /\ record.release = release
    <2>1. record \in Request
      <3> DEFINE ended == [request[q] EXCEPT !.step = "done"]
                 free == [ended EXCEPT !.holds = {}]
                 answered == [free EXCEPT !.status = status]
      <3>1. ended \in Request
        BY DEF Request
      <3>2. record = [answered EXCEPT !.release = release]
        OBVIOUS
      <3> HIDE DEF ended, record
      <3>3. free \in Request
        BY <3>1 DEF Request
      <3> HIDE DEF free
      <3>4. answered \in Request
        BY <3>3 DEF Request
      <3> HIDE DEF answered
      <3> QED
        BY <3>2, <3>4 DEF Request
    <2>2. /\ record.step = "done" /\ record.holds = {}
          /\ record.status = status
          /\ record.release = release
      BY DEF Request
    <2>3. /\ record.user = request[q].user
          /\ record.key = request[q].key
          /\ record.target = request[q].target
      BY DEF Request
    <2>4. /\ record.original = request[q].original
          /\ record.rows = request[q].rows
      BY DEF Request
    <2> HIDE DEF record
    <2> QED
      BY <2>1, <2>2, <2>3, <2>4
  <1> HIDE DEF record
  <1>4. request'[q] = record
    BY <1>1, <1>2
  <1>5. request' = [request EXCEPT ![q] = request'[q]]
    BY <1>1, <1>4, Zenon
  <1>6. request'[q] \in Request
    BY <1>3, <1>4
  <1>7. /\ request'[q].step = "done" /\ request'[q].holds = {}
        /\ request'[q].user = request[q].user
        /\ request'[q].key = request[q].key
        /\ request'[q].target = request[q].target
    BY <1>3, <1>4
  <1>8. /\ request'[q].original = request[q].original
        /\ request'[q].rows = request[q].rows
        /\ request'[q].status = status
        /\ request'[q].release = release
    BY <1>3, <1>4
  <1> QED
    BY <1>5, <1>6, <1>7, <1>8

(***************************************************************************)
(* An error that says the truth keeps the invariant.                       *)
(***************************************************************************)
LEMMA RefuseStep ==
  ASSUME CreationInv, NEW q \in Requests, request[q] \in Request,
         NEW status \in { 403, 404, 409, 500 }, Refuse(q, status),
         request[q].step \in { "project", "version", "insert" },
         status = 409 => RefusalIsTrue(q),
         status = 500 => FailureIsTrue(q)
  PROVE  CreationInv'
  <1>1. RequestInv(q)
    BY DEF CreationInv
  <1>2. PICK record \in Request :
          /\ request' = [request EXCEPT ![q] = record]
          /\ request'[q] = record
          /\ record.step = "done" /\ record.holds = {}
          /\ record.user = request[q].user
          /\ record.key = request[q].key
          /\ record.target = request[q].target
          /\ record.original = request[q].original
          /\ record.rows = request[q].rows
          /\ record.status = status
          /\ record.release = 0
    <2>1. Reply(q, status, 0) /\ status # 0
      BY DEF Refuse
    <2>2. status \in { 0, 200, 201, 403, 404, 409, 500 } /\ 0 \in Nat
      OBVIOUS
    <2> QED
      BY <2>1, <2>2, Answers
  <1>3. UNCHANGED database /\ table' = table
    BY DEF Refuse, database
  <1>4. /\ status = 409 => RefusalIsTrue(q)'
        /\ status = 500 => FailureIsTrue(q)'
    BY <1>2, <1>3 DEF RefusalIsTrue, FailureIsTrue, Conflict, Clash, Ids
  <1>5. RequestInv(q)'
    BY <1>1, <1>2, <1>3, <1>4 DEF RequestInv, InProject, ArrivedThen,
          Replays, KeyWasFree, VersionWasFree,
          EntersInOrder, EntryIsFree, HasEntry, AnswerIsTrue, Ids
  <1>6. EntersFree(q, record) /\ NotCreated(record)
    BY <1>2 DEF EntersFree, NotCreated
  <1>7. request' = [request EXCEPT ![q] = record]
    BY <1>2
  <1> QED
    BY <1>3, <1>5, <1>6, <1>7, CreationOwnStep

(***************************************************************************)
(* A request arrives and remembers the release that has its key.           *)
(***************************************************************************)
LEMMA ArrivalStep ==
  ASSUME CreationInv, NEW q \in Requests, NEW u \in Users,
         NEW k \in Headers, NEW t \in Targets, Receive(q, u, k, t)
  PROVE  CreationInv'
  <1> DEFINE record == [ step |-> "key", user |-> u, key |-> k, target |-> t,
                         original |-> WithKey(k), rows |-> Len(table),
                         holds |-> {},
                         status |-> 0, release |-> 0 ]
  <1>1. /\ WithKey(k) \in Nat /\ Len(table) \in Nat
        /\ WithKey(k) # 0 => /\ WithKey(k) \in Ids
                             /\ table[WithKey(k)].key = k
    BY WithKeyFinds DEF CreationInv, TypeOK
  <1>2. /\ record \in Request
        /\ request' = [request EXCEPT ![q] = record] /\ UNCHANGED database
        /\ request'[q] = record /\ table' = table
    BY <1>1 DEF Receive, Request, database, CreationInv, TypeOK
  <1>3. /\ request'[q].step = "key" /\ request'[q].holds = {}
        /\ request'[q].key = k
        /\ request'[q].original = WithKey(k)
        /\ request'[q].rows = Len(table) /\ request'[q].status = 0
        /\ record.step = "key" /\ record.holds = {}
    BY <1>2
  <1> HIDE DEF record
  <1>4. RequestInv(q)'
    BY <1>1, <1>2, <1>3 DEF RequestInv, InProject, ArrivedThen, Replays,
          KeyWasFree, VersionWasFree, EntersInOrder, EntryIsFree, HasEntry,
          AnswerIsTrue, Ids
  <1>5. EntersFree(q, record) /\ NotCreated(record)
    BY <1>3 DEF EntersFree, NotCreated
  <1> QED
    BY <1>2, <1>4, <1>5, CreationOwnStep

(***************************************************************************)
(* The key is looked for: 200 with its release, or it was free.            *)
(***************************************************************************)
LEMMA FindByKeyStep ==
  ASSUME CreationInv, NEW q \in Requests, FindByKey(q)
  PROVE  CreationInv'
  <1> DEFINE k == request[q].key
  <1>1. /\ request[q] \in Request /\ request[q].step = "key"
        /\ RequestInv(q) /\ TypeOK /\ RowsDiffer
    BY DEF FindByKey, CreationInv, TypeOK, New
  <1>2. CASE k \in Keys /\ Found(q) # 0
    <2>1. /\ Found(q) \in Ids /\ table[Found(q)].key = k /\ Found(q) \in Nat
      BY <1>1, <1>2, WithKeyFinds DEF Found
    <2>2. Reply(q, 200, Found(q)) /\ UNCHANGED database
      BY <1>2 DEF FindByKey
    <2>3. PICK record \in Request :
            /\ request' = [request EXCEPT ![q] = record]
            /\ request'[q] = record /\ record.step = "done"
            /\ record.key = k /\ record.status = 200
            /\ record.holds = {}
            /\ record.original = request[q].original
            /\ record.rows = request[q].rows
            /\ record.release = Found(q)
      BY <1>1, <2>1, <2>2, Answers
    <2>4. UNCHANGED database /\ table' = table
      BY <2>2 DEF database
    <2>5. request[q].original # 0 => request[q].original = Found(q)
      <3>1. ASSUME request[q].original # 0
            PROVE  Conflict(table[request[q].original], table[Found(q)])
        BY <1>1, <1>2, <2>1, <3>1, CreationAssumption
          DEF RequestInv, ArrivedThen, Conflict, Clash, Indexes
      <3> QED
        BY <1>1, <2>1, <3>1 DEF RowsDiffer, RequestInv, ArrivedThen
    <2>6. RequestInv(q)'
      BY <1>1, <2>1, <2>3, <2>4, <2>5 DEF RequestInv, InProject, ArrivedThen,
            Replays, KeyWasFree, VersionWasFree,
            EntersInOrder, EntryIsFree, HasEntry, AnswerIsTrue,
            ReplayIsTrue, Ids
    <2>7. /\ request' = [request EXCEPT ![q] = record]
          /\ EntersFree(q, record) /\ NotCreated(record)
      BY <2>3 DEF EntersFree, NotCreated
    <2> QED
      BY <2>4, <2>6, <2>7, CreationOwnStep
  <1>3. CASE ~(k \in Keys /\ Found(q) # 0)
    <2>1. Go(q, "project")
      BY <1>3 DEF FindByKey
    <2>2. PICK record \in Request :
            /\ request' = [request EXCEPT ![q] = record]
            /\ request'[q] = record /\ record.step = "project"
            /\ record.key = k /\ record.status = request[q].status
            /\ record.original = request[q].original
            /\ record.rows = request[q].rows
            /\ record.holds = request[q].holds
            /\ UNCHANGED database /\ table' = table
      BY <1>1, <2>1, GoOn DEF database
    <2>3. k \in Keys => \A i \in Ids : table[i].key # k
      BY <1>1, <1>3, WithKeyFinds DEF Found
    <2>4. RequestInv(q)'
      BY <1>1, <2>2, <2>3 DEF RequestInv, InProject, ArrivedThen, Replays,
            KeyWasFree, VersionWasFree, EntersInOrder, EntryIsFree, HasEntry,
            AnswerIsTrue, Ids
    <2>5. record.holds = {} /\ record.step # "done"
      BY <1>1, <2>2 DEF RequestInv, EntersInOrder
    <2>6. EntersFree(q, record) /\ NotCreated(record)
      BY <2>5 DEF EntersFree, NotCreated
    <2> QED
      BY <2>2, <2>4, <2>6, CreationOwnStep
  <1> QED
    BY <1>2, <1>3

(***************************************************************************)
(* The project and the environment are checked: 403, 404, or further.      *)
(***************************************************************************)
LEMMA CheckProjectStep ==
  ASSUME CreationInv, NEW q \in Requests, CheckProject(q)
  PROVE  CreationInv'
  <1>1. /\ request[q] \in Request /\ request[q].step = "project"
        /\ RequestInv(q)
    BY DEF CheckProject, CreationInv, TypeOK, New
  <1>2. CASE Refuse(q, 403) \/ Refuse(q, 404)
    BY <1>1, <1>2, RefuseStep
  <1>3. CASE ~(Refuse(q, 403) \/ Refuse(q, 404))
    <2>1. /\ request[q].user \in Managers
          /\ request[q].target \in KnownTargets
          /\ Go(q, "version")
      BY <1>3 DEF CheckProject
    <2>2. PICK record \in Request :
            /\ request' = [request EXCEPT ![q] = record]
            /\ request'[q] = record /\ record.step = "version"
            /\ record.user = request[q].user /\ record.key = request[q].key
            /\ record.target = request[q].target
            /\ record.status = request[q].status
            /\ record.original = request[q].original
            /\ record.rows = request[q].rows
            /\ record.holds = request[q].holds
            /\ UNCHANGED database /\ table' = table
      BY <1>1, <2>1, GoOn
    <2>3. RequestInv(q)'
      BY <1>1, <2>1, <2>2 DEF RequestInv, InProject, ArrivedThen, Replays,
            KeyWasFree, VersionWasFree, EntersInOrder, EntryIsFree, HasEntry,
            AnswerIsTrue, Ids
    <2>4. record.holds = {} /\ record.step # "done"
      BY <1>1, <2>2 DEF RequestInv, EntersInOrder
    <2>5. EntersFree(q, record) /\ NotCreated(record)
      BY <2>4 DEF EntersFree, NotCreated
    <2> QED
      BY <2>2, <2>3, <2>5, CreationOwnStep
  <1> QED
    BY <1>2, <1>3

(***************************************************************************)
(* The version is looked for: 409, or it was free.                         *)
(***************************************************************************)
LEMMA FindDuplicateStep ==
  ASSUME CreationInv, NEW q \in Requests, FindDuplicate(q)
  PROVE  CreationInv'
  <1>1. /\ request[q] \in Request /\ request[q].step = "version"
        /\ RequestInv(q)
    BY DEF FindDuplicate, CreationInv, TypeOK, New
  <1>2. CASE \E i \in Ids : table[i].target = request[q].target
    <2>1. Refuse(q, 409) /\ RefusalIsTrue(q)
      BY <1>2 DEF FindDuplicate, RefusalIsTrue
    <2> QED
      BY <1>1, <2>1, RefuseStep
  <1>3. CASE ~ \E i \in Ids : table[i].target = request[q].target
    <2>1. Go(q, "insert")
      BY <1>3 DEF FindDuplicate
    <2>2. PICK record \in Request :
            /\ request' = [request EXCEPT ![q] = record]
            /\ request'[q] = record /\ record.step = "insert"
            /\ record.user = request[q].user /\ record.key = request[q].key
            /\ record.target = request[q].target
            /\ record.status = request[q].status
            /\ record.original = request[q].original
            /\ record.rows = request[q].rows
            /\ record.holds = request[q].holds
            /\ UNCHANGED database /\ table' = table
      BY <1>1, <2>1, GoOn
    <2>3. RequestInv(q)'
      BY <1>1, <1>3, <2>2 DEF RequestInv, InProject, ArrivedThen, Replays,
            KeyWasFree, VersionWasFree, EntersInOrder, EntryIsFree, HasEntry,
            AnswerIsTrue, Ids
    <2>4. record.holds = {} /\ record.step # "done"
      BY <1>1, <2>2 DEF RequestInv, EntersInOrder
    <2>5. EntersFree(q, record) /\ NotCreated(record)
      BY <2>4 DEF EntersFree, NotCreated
    <2> QED
      BY <2>2, <2>3, <2>5, CreationOwnStep
  <1> QED
    BY <1>2, <1>3

(***************************************************************************)
(* The insert fails on a row that has come since, or on the empty key.     *)
(***************************************************************************)
LEMMA InsertFails ==
  ASSUME CreationInv, NEW q \in Requests, NEW u \in Indexes, Insert(q, u),
         NEW i \in Ids, Clash(u, request[q], table[i])
  PROVE  CreationInv'
  <1>1. /\ request[q] \in Request /\ request[q].step = "insert"
        /\ RequestInv(q) /\ TypeOK
    BY DEF Insert, CreationInv, TypeOK, New
  <1>2. i \in Nat /\ request[q].rows \in Nat
    BY <1>1 DEF TypeOK, Ids, Request
  <1>3. request[q].key \in Keys \cup { EmptyKey, NoKey }
    BY <1>1 DEF Request, Headers
  <1>4. ASSUME i <= request[q].rows
        PROVE  request[q].key = EmptyKey /\ table[i].key = EmptyKey
    <2>1. table[i].target # request[q].target
      BY <1>1, <1>4 DEF RequestInv, VersionWasFree
    <2>2. request[q].key = table[i].key /\ request[q].key # NoKey
      BY <2>1 DEF Clash
    <2>3. request[q].key \notin Keys
      BY <1>1, <1>4, <2>2 DEF RequestInv, KeyWasFree
    <2> QED
      BY <1>3, <2>2, <2>3
  <1>5. FailureIsTrue(q)
    BY <1>2, <1>4 DEF FailureIsTrue, Conflict
  <1>6. Refuse(q, 500)
    BY DEF Insert
  <1> QED
    BY <1>1, <1>5, <1>6, RefuseStep

(***************************************************************************)
(* Or it makes an entry that is equal to none, committed or not.           *)
(***************************************************************************)
LEMMA InsertEnters ==
  ASSUME CreationInv, NEW q \in Requests, NEW u \in Indexes, Insert(q, u),
         \A i \in Ids : ~Clash(u, request[q], table[i])
  PROVE  CreationInv'
  <1>1. /\ request[q] \in Request /\ request[q].step = "insert"
        /\ RequestInv(q) /\ TypeOK
    BY DEF Insert, CreationInv, TypeOK, New
  <1> DEFINE held == request[q].holds \cup {u}
             next == IF held = Indexes THEN "commit" ELSE "insert"
             entered == [request[q] EXCEPT !.holds = held]
             record == [request[q] EXCEPT !.holds = held, !.step = next]
  <1>2. request' = [request EXCEPT ![q] = record] /\ UNCHANGED database
    BY DEF Insert
  <1>3. /\ held \subseteq Indexes
        /\ next = "insert" => held \in { {}, { "version" } }
        /\ next = "commit" => held = Indexes
        /\ next \in { "insert", "commit" }
    BY <1>1 DEF Insert, NextIndex, RequestInv, EntersInOrder, Indexes,
                Request
  <1>4. \A x \in held : x = u \/ HasEntry(q, x)
    BY <1>1 DEF HasEntry, New
  <1> HIDE DEF held, next
  <1>5. /\ record \in Request
        /\ record.step = next /\ record.holds = held
        /\ record.user = request[q].user /\ record.key = request[q].key
        /\ record.target = request[q].target
        /\ record.status = request[q].status
        /\ record.original = request[q].original
        /\ record.rows = request[q].rows
    <2>1. entered \in Request
      BY <1>1, <1>3 DEF Request
    <2>2. record = [entered EXCEPT !.step = next]
      OBVIOUS
    <2>3. record \in Request
      <3> HIDE DEF entered, record
      <3> QED
        BY <1>3, <2>1, <2>2 DEF Request
    <2>4. /\ record.step = next /\ record.holds = held
          /\ record.user = request[q].user /\ record.key = request[q].key
          /\ record.target = request[q].target
          /\ record.status = request[q].status
          /\ record.original = request[q].original
          /\ record.rows = request[q].rows
      BY <1>1 DEF Request
    <2> HIDE DEF record
    <2> QED
      BY <2>3, <2>4
  <1> HIDE DEF record, entered
  <1>6. /\ request'[q] = record /\ table' = table /\ record # New
    BY <1>1, <1>2, <1>3, <1>5 DEF TypeOK, database, New
  <1>7. \A x, b : Clash(x, record, b) <=> Clash(x, request[q], b)
    BY <1>5 DEF Clash
  <1>8. EntryIsFree(q)'
    <2>1. ASSUME NEW x \in held, NEW i \in Ids, x \in Indexes
          PROVE  ~Clash(x, record, table[i])
      BY <1>1, <1>4, <1>7, <2>1 DEF RequestInv, EntryIsFree
    <2> QED
      BY <1>5, <1>6, <2>1 DEF EntryIsFree, HasEntry, Ids
  <1>9. RequestInv(q)'
    BY <1>1, <1>3, <1>5, <1>6, <1>8 DEF RequestInv, InProject, ArrivedThen,
       Replays, KeyWasFree, VersionWasFree, EntersInOrder, AnswerIsTrue, Ids
  <1>10. ASSUME NEW x \in record.holds, NEW o \in Requests \ {q},
                HasEntry(o, x)
         PROVE  ~Clash(x, record, request[o])
    <2>1. x \in Indexes /\ (x = u \/ HasEntry(q, x))
      BY <1>3, <1>4, <1>5
    <2>2. CASE x = u
      BY <1>7, <1>10, <2>2 DEF Insert, Blocks, HasEntry
    <2>3. CASE HasEntry(q, x)
      BY <1>7, <1>10, <2>1, <2>3 DEF CreationInv, EntriesDiffer
    <2> QED
      BY <2>1, <2>2, <2>3
  <1>11. EntersFree(q, record) /\ NotCreated(record)
    BY <1>3, <1>5, <1>10 DEF EntersFree, NotCreated
  <1> QED
    BY <1>2, <1>5, <1>9, <1>11, CreationOwnStep

LEMMA InsertStep ==
  ASSUME CreationInv, NEW q \in Requests, NEW u \in Indexes, Insert(q, u)
  PROVE  CreationInv'
  BY InsertFails, InsertEnters

(***************************************************************************)
(* A request that is given up before the commit has no answer.             *)
(***************************************************************************)
LEMMA GiveUpStep ==
  ASSUME CreationInv, NEW q \in Requests, Abort(q)
  PROVE  CreationInv'
  <1>1. /\ request[q] \in Request /\ RequestInv(q)
        /\ request[q].step \notin { "new", "done" }
        /\ Reply(q, 0, 0) /\ UNCHANGED database /\ table' = table
    BY DEF Abort, CreationInv, TypeOK, New, database
  <1>2. PICK record \in Request :
          /\ request' = [request EXCEPT ![q] = record]
          /\ request'[q] = record /\ record.step = "done"
          /\ record.key = request[q].key
          /\ record.status = 0 /\ record.holds = {}
          /\ record.original = request[q].original
          /\ record.rows = request[q].rows
    BY <1>1, Answers
  <1>3. record.status = 0 /\ record.holds = {}
    BY <1>2
  <1>4. RequestInv(q)'
    BY <1>1, <1>2, <1>3 DEF RequestInv, InProject, ArrivedThen, Replays,
          KeyWasFree, VersionWasFree, EntersInOrder, EntryIsFree, HasEntry,
          AnswerIsTrue, Ids
  <1>5. /\ request' = [request EXCEPT ![q] = record] /\ UNCHANGED database
        /\ EntersFree(q, record) /\ NotCreated(record)
    BY <1>1, <1>2, <1>3 DEF EntersFree, NotCreated
  <1> QED
    BY <1>4, <1>5, CreationOwnStep

-----------------------------------------------------------------------------
(***************************************************************************)
(* The commit adds a row that conflicts with none, with no insert of       *)
(* another request, and whose id is greater than any that was looked for.  *)
(***************************************************************************)
LEMMA CommitStep ==
  ASSUME CreationInv, NEW q \in Requests, Commit(q)
  PROVE  CreationInv'
  <1> DEFINE n == Len(table) + 1
             row == [ key |-> request[q].key, target |-> request[q].target,
                      created_by |-> request[q].user ]
  <1>1. /\ request[q] \in Request /\ request[q].step = "commit"
        /\ TypeOK /\ HistoryOfRows
        /\ \A o \in Requests : RequestInv(o)
    BY DEF Commit, CreationInv, TypeOK, New
  <1>2. row \in ReleaseRow
    BY <1>1 DEF Request, ReleaseRow
  <1>3. /\ row.key = request[q].key /\ row.target = request[q].target
        /\ row.created_by = request[q].user
    OBVIOUS
  <1>4. Ids = 1..Len(table) /\ Len(table) \in Nat /\ n \in Nat
    BY <1>1 DEF TypeOK, Ids
  <1>5. table' = Append(table, row)
    BY DEF Commit
  <1>6. /\ table' \in Seq(ReleaseRow) /\ Len(table') = n
        /\ table'[n] = row
        /\ \A i \in Ids : table'[i] = table[i]
    BY <1>1, <1>2, <1>4, <1>5, AppendProperties DEF TypeOK
  <1> HIDE DEF row
  <1>7. /\ Ids' = Ids \cup { n } /\ n \notin Ids
        /\ \A i \in Ids : i \in Nat /\ i <= Len(table)
    BY <1>4, <1>6 DEF Ids
  <1>8. /\ events' \in Seq(Ids')
        /\ Len(events') = n /\ \A i \in Ids' : events'[i] = i
    <2>1. events' = Append(events, n)
      BY <1>6 DEF Commit
    <2>2. events \in Seq(Ids') /\ n \in Ids'
      BY <1>1, <1>7, SeqMonotonic DEF TypeOK
    <2>3. /\ events' \in Seq(Ids') /\ Len(events') = Len(events) + 1
          /\ \A i \in 1..Len(events) : events'[i] = events[i]
          /\ events'[Len(events) + 1] = n
      BY <2>1, <2>2, AppendProperties
    <2>4. Len(events) = Len(table) /\ \A i \in Ids : events[i] = i
      BY <1>1 DEF HistoryOfRows
    <2> QED
      BY <1>4, <1>7, <2>3, <2>4
  <1>9. PICK record \in Request :
          /\ request' = [request EXCEPT ![q] = record]
          /\ request'[q] = record
          /\ record.step = "done" /\ record.holds = {}
          /\ record.user = request[q].user
          /\ record.key = request[q].key
          /\ record.target = request[q].target
          /\ record.original = request[q].original
          /\ record.rows = request[q].rows
          /\ record.status = 201
          /\ record.release = n
    <2>1. Reply(q, 201, n)
      BY <1>6 DEF Commit
    <2> QED
      BY <1>1, <1>4, <2>1, Answers
  <1>10. \A o \in Requests \ {q} : request'[o] = request[o]
    BY <1>1, <1>9 DEF TypeOK
  <1> HIDE DEF n
  <1>11. TypeOK'
    BY <1>1, <1>6, <1>8, <1>9 DEF TypeOK
  <1>12. \A i \in Ids : ~Conflict(row, table[i]) /\ ~Conflict(table[i], row)
    <2>1. \A u \in Indexes : HasEntry(q, u)
      BY <1>1 DEF RequestInv, EntersInOrder, HasEntry, New
    <2> QED
      BY <1>1, <1>3, <2>1 DEF RequestInv, EntryIsFree, Conflict, Clash
  <1>13. RowsDiffer'
    <2> SUFFICES ASSUME NEW i \in Ids', NEW j \in Ids',
                        Conflict(table'[i], table'[j])
                 PROVE  i = j
      BY DEF RowsDiffer
    <2>1. CASE i \in Ids /\ j \in Ids
      BY <1>6, <2>1 DEF CreationInv, RowsDiffer
    <2>2. CASE i = n \/ j = n
      BY <1>6, <1>7, <1>12, <2>2
    <2> QED
      BY <1>7, <2>1, <2>2
  <1>14. EntriesDiffer'
    BY <1>9, <1>10 DEF CreationInv, EntriesDiffer, HasEntry, Clash
  <1>15. HistoryOfRows'
    BY <1>6, <1>8 DEF HistoryOfRows
  <1>16. ASSUME NEW o \in Requests \ {q}
         PROVE  RequestInv(o)'
    <2>1. RequestInv(o) /\ request'[o] = request[o]
      BY <1>1, <1>10
    <2>2. request[o].step # "new" => request[o] \in Request
      BY <1>1 DEF TypeOK, New
    <2>3. InProject(o)'
      BY <2>1 DEF RequestInv, InProject
    <2>4. ArrivedThen(o)'
      <3>1. request[o].step # "new" => request[o].rows \in Nat
        BY <2>2 DEF Request
      <3> QED
        BY <1>4, <1>6, <1>7, <2>1, <3>1 DEF RequestInv, ArrivedThen, n
    <2>5. Replays(o)'
      BY <2>1 DEF RequestInv, Replays
    <2>6. ASSUME NEW i \in Ids', request[o].step # "new",
                 i <= request[o].rows
          PROVE  i \in Ids /\ table'[i] = table[i]
      <3>1. request[o].rows \in Nat /\ request[o].rows <= Len(table)
        BY <2>1, <2>2, <2>6 DEF Request, RequestInv, ArrivedThen
      <3> QED
        BY <1>4, <1>6, <1>7, <2>6, <3>1 DEF n
    <2>7. KeyWasFree(o)'
      BY <2>1, <2>6 DEF RequestInv, KeyWasFree
    <2>8. VersionWasFree(o)'
      BY <2>1, <2>6 DEF RequestInv, VersionWasFree
    <2>9. EntryIsFree(o)'
      <3> SUFFICES ASSUME NEW u \in Indexes, HasEntry(o, u),
                          NEW i \in Ids'
                   PROVE  ~Clash(u, request[o], table'[i])
        BY <2>1 DEF EntryIsFree, HasEntry
      <3>1. CASE i \in Ids
        BY <1>6, <2>1, <3>1 DEF RequestInv, EntryIsFree
      <3>2. CASE i = n
        <4>1. HasEntry(q, u)
          BY <1>1 DEF RequestInv, EntersInOrder, HasEntry, New
        <4>2. ~Clash(u, request[o], request[q])
          BY <4>1 DEF CreationInv, EntriesDiffer
        <4>3. ~Clash(u, request[o], row)
          BY <1>3, <4>2 DEF Clash
        <4> QED
          BY <1>6, <3>2, <4>3
      <3> QED
        BY <1>7, <3>1, <3>2
    <2>11. EntersInOrder(o)'
      BY <2>1 DEF RequestInv, EntersInOrder
    <2>10. AnswerIsTrue(o)'
      <3> SUFFICES ASSUME request[o].step = "done"
                   PROVE  AnswerIsTrue(o)'
        BY <2>1 DEF AnswerIsTrue
      <3>1. AnswerIsTrue(o)
        BY <2>1 DEF RequestInv
      <3>2. ReplayIsTrue(o) => ReplayIsTrue(o)'
        BY <1>6, <1>7, <2>1 DEF ReplayIsTrue
      <3>3. CreationIsTrue(o) => CreationIsTrue(o)'
        BY <1>6, <1>7, <2>1 DEF CreationIsTrue
      <3>4. RefusalIsTrue(o) => RefusalIsTrue(o)'
        BY <1>6, <1>7, <2>1 DEF RefusalIsTrue
      <3>5. FailureIsTrue(o) => FailureIsTrue(o)'
        BY <1>6, <1>7, <2>1 DEF FailureIsTrue, Conflict, Clash
      <3> QED
        BY <2>1, <3>1, <3>2, <3>3, <3>4, <3>5 DEF AnswerIsTrue
    <2> QED
      BY <2>3, <2>4, <2>5, <2>7, <2>8, <2>9, <2>10, <2>11
        DEF RequestInv
  <1>17. RequestInv(q)'
    <2>1. RequestInv(q)
      BY <1>1
    <2>3. ArrivedThen(q)'
      <3>1. request[q].rows \in Nat /\ ArrivedThen(q)
        BY <1>1, <2>1 DEF Request, RequestInv
      <3> QED
        BY <1>1, <1>4, <1>6, <1>7, <1>9, <3>1 DEF ArrivedThen, n
    <2>4. CreationIsTrue(q)'
      BY <1>1, <1>3, <1>6, <1>7, <1>9, <2>1
        DEF CreationIsTrue, RequestInv, InProject, row
    <2>5. Replays(q)'
      BY <1>1, <1>9, <2>1 DEF RequestInv, Replays
    <2> QED
      BY <1>9, <2>3, <2>4, <2>5 DEF RequestInv, InProject, KeyWasFree,
         VersionWasFree, EntersInOrder, EntryIsFree, HasEntry, AnswerIsTrue
  <1>18. OneCreatorEach'
    <2>1. ASSUME NEW o \in Answered(201)
          PROVE  o \in Requests \ {q} /\ request[o].release \in Ids
      BY <1>1 DEF Answered, RequestInv, AnswerIsTrue, CreationIsTrue
    <2>2. Answered(201)' \subseteq Answered(201) \cup { q }
      BY <1>10 DEF Answered
    <2> SUFFICES ASSUME NEW a \in Answered(201)', NEW b \in Answered(201)',
                        request'[a].release = request'[b].release
                 PROVE  a = b
      BY DEF OneCreatorEach
    <2>3. CASE a # q /\ b # q
      BY <1>10, <2>1, <2>2, <2>3 DEF CreationInv, OneCreatorEach
    <2>4. CASE a = q /\ b # q
      BY <1>7, <1>9, <1>10, <2>1, <2>2, <2>4
    <2>5. CASE a # q /\ b = q
      BY <1>7, <1>9, <1>10, <2>1, <2>2, <2>5
    <2> QED
      BY <2>3, <2>4, <2>5
  <1> QED
    BY <1>11, <1>13, <1>14, <1>15, <1>16, <1>17, <1>18 DEF CreationInv

-----------------------------------------------------------------------------
(***************************************************************************)
(* CreationInv is an invariant: no interleaving of requests breaks what    *)
(* the queries and the constraints establish together.                     *)
(***************************************************************************)
THEOREM CreationInvariant == Spec => []CreationInv
  <1>1. Init => CreationInv
    <2> SUFFICES ASSUME Init
                 PROVE  CreationInv
      OBVIOUS
    <2>1. /\ table = << >> /\ events = << >> /\ Ids = {}
          /\ \A q \in Requests : request[q] = New /\ request[q].step = "new"
      BY EmptySeq DEF Init, New, Ids
    <2>2. TypeOK
      BY <2>1, EmptySeq DEF Init, TypeOK
    <2> QED
      BY <2>1, <2>2, EmptySeq DEF CreationInv, RowsDiffer, EntriesDiffer,
         OneCreatorEach, Answered, HistoryOfRows, RequestInv, InProject,
         ArrivedThen, Replays, KeyWasFree, VersionWasFree,
            EntersInOrder, EntryIsFree, HasEntry,
         AnswerIsTrue
  <1>2. CreationInv /\ [Next]_vars => CreationInv'
    <2> SUFFICES ASSUME CreationInv, [Next]_vars
                 PROVE  CreationInv'
      OBVIOUS
    <2>1. CASE UNCHANGED vars
      BY <2>1 DEF vars, CreationInv, TypeOK, RowsDiffer, EntriesDiffer,
         OneCreatorEach, Answered, HistoryOfRows, RequestInv, InProject,
         ArrivedThen, Replays, KeyWasFree, VersionWasFree,
            EntersInOrder, EntryIsFree, HasEntry,
         AnswerIsTrue, ReplayIsTrue, CreationIsTrue, RefusalIsTrue,
         FailureIsTrue, Ids
    <2>2. ASSUME NEW q \in Requests, NEW a \in Asked, NEW k \in Headers,
                 Receive(q, a[1], k, a[2])
          PROVE  CreationInv'
      <3>1. a[1] \in Users /\ a[2] \in Targets
        BY CreationAssumption
      <3> QED
        BY <2>2, <3>1, ArrivalStep
    <2>3. ASSUME NEW q \in Requests, Serve(q)
          PROVE  CreationInv'
      BY <2>3, FindByKeyStep, CheckProjectStep, FindDuplicateStep,
         InsertStep, CommitStep DEF Serve
    <2>4. ASSUME NEW q \in Requests, Abort(q)
          PROVE  CreationInv'
      BY <2>4, GiveUpStep
    <2> QED
      BY <2>1, <2>2, <2>3, <2>4 DEF Next
  <1> QED
    BY <1>1, <1>2, PTL DEF Spec

(***************************************************************************)
(* The rows, the requests and the answers have their types.                *)
(***************************************************************************)
THEOREM CreationTypes == Spec => []TypeOK
  <1>1. CreationInv => TypeOK
    BY DEF CreationInv
  <1> QED
    BY <1>1, CreationInvariant, PTL

(***************************************************************************)
(* All the requests with one key that succeed are told of one release.     *)
(***************************************************************************)
THEOREM OneReleasePerKey == Spec => []KeyNamesOneRelease
  <1>1. CreationInv => KeyNamesOneRelease
    <2> SUFFICES ASSUME CreationInv,
                        NEW q \in Answered(200) \cup Answered(201),
                        NEW o \in Answered(200) \cup Answered(201),
                        request[q].key = request[o].key,
                        request[q].key \in Keys
                 PROVE  request[q].release = request[o].release
      BY DEF KeyNamesOneRelease
    <2>1. ASSUME NEW a \in Answered(200) \cup Answered(201)
          PROVE  /\ request[a].release \in Ids
                 /\ table[request[a].release].key = request[a].key
      <3>1. /\ AnswerIsTrue(a) /\ request[a].step = "done"
            /\ request[a].status \in { 200, 201 }
        BY DEF Answered, CreationInv, RequestInv
      <3> QED
        BY <3>1 DEF AnswerIsTrue, ReplayIsTrue, CreationIsTrue
    <2>2. Conflict(table[request[q].release], table[request[o].release])
      BY <2>1, CreationAssumption DEF Conflict, Clash, Indexes
    <2> QED
      BY <2>1, <2>2 DEF CreationInv, RowsDiffer
  <1> QED
    BY <1>1, CreationInvariant, PTL

(***************************************************************************)
(* A retry that arrives after the release of its key has been committed is *)
(* answered with that release, whatever else runs.                         *)
(***************************************************************************)
THEOREM LateRetriesAreReplayed == Spec => []LateRetryIsReplayed
  <1>1. CreationInv => LateRetryIsReplayed
    BY DEF LateRetryIsReplayed, Answered, CreationInv, RequestInv, Replays
  <1> QED
    BY <1>1, CreationInvariant, PTL

(***************************************************************************)
(* 201 and 409 agree with the database, and a version exists once.         *)
(***************************************************************************)
THEOREM AnswersAgree == Spec => []AnswersAreTrue
  <1>1. CreationInv => AnswersAreTrue
    <2> SUFFICES ASSUME CreationInv
                 PROVE  AnswersAreTrue
      OBVIOUS
    <2>1. ASSUME NEW q \in Answered(201)
          PROVE  CreationIsTrue(q)
      BY DEF Answered, CreationInv, RequestInv, AnswerIsTrue
    <2>2. ASSUME NEW q \in Answered(409)
          PROVE  RefusalIsTrue(q)
      BY DEF Answered, CreationInv, RequestInv, AnswerIsTrue
    <2>3. \A i, j \in Ids : table[i].target = table[j].target => i = j
      BY DEF CreationInv, RowsDiffer, Conflict, Clash, Indexes
    <2>4. \A i \in Ids : events[i] = i
      BY DEF CreationInv, HistoryOfRows
    <2>5. ASSUME NEW q \in Answered(201), NEW o \in Answered(201) \ {q}
          PROVE  request[o].release # request[q].release
      BY DEF CreationInv, OneCreatorEach
    <2>6. ASSUME NEW q \in Answered(201)
          PROVE  /\ request[q].release \in Ids
                 /\ table[request[q].release] =
                       [ key |-> request[q].key, target |-> request[q].target,
                         created_by |-> request[q].user ]
                 /\ request[q].user \in Managers
                 /\ request[q].target \in KnownTargets
                 /\ events[request[q].release] = request[q].release
      BY <2>1, <2>4 DEF CreationIsTrue
    <2>7. ASSUME NEW q \in Answered(409)
          PROVE  \E i \in Ids : table[i].target = request[q].target
      BY <2>2 DEF RefusalIsTrue
    <2> QED
      BY <2>3, <2>5, <2>6, <2>7 DEF AnswersAreTrue
  <1> QED
    BY <1>1, CreationInvariant, PTL

(***************************************************************************)
(* An insert that is waited for by one that is waited for has an entry in  *)
(* the first index and waits in the second, for one that has entered both. *)
(***************************************************************************)
LEMMA WaitsAreShort ==
  ASSUME CreationInv, NEW q \in Requests, NEW o \in Requests,
         NEW p \in Requests, NEW x \in Requests,
         WaitsFor(q, o), WaitsFor(o, p)
  PROVE  ~WaitsFor(p, x)
  <1>1. /\ request[q].step = "insert" /\ request[o].step = "insert"
        /\ EntersInOrder(o) /\ EntersInOrder(p)
    BY DEF WaitsFor, CreationInv, RequestInv
  <1>2. "version" \in request[o].holds
    BY <1>1 DEF WaitsFor, Blocks, EntersInOrder, Indexes
  <1>3. "key" \in request[p].holds /\ request[p].step # "new"
    <2>1. request[p] # New /\ request[p] \in Request \cup { New }
      BY DEF WaitsFor, Blocks, CreationInv, TypeOK
    <2> QED
      BY <1>2, <2>1 DEF WaitsFor, NextIndex, Blocks, Request
  <1>4. request[p].step # "insert"
    BY <1>1, <1>3 DEF EntersInOrder
  <1> QED
    BY <1>4 DEF WaitsFor

(***************************************************************************)
(* Inserts do not wait for one another in a circle: NoDeadlock.            *)
(***************************************************************************)
THEOREM InsertsDoNotDeadlock == Spec => []NoDeadlock
  <1>1. CreationInv => NoDeadlock
    <2> SUFFICES ASSUME CreationInv,
                        NEW S \in SUBSET Requests, S # {},
                        \A q \in S : \E o \in S : WaitsFor(q, o)
                 PROVE  FALSE
      BY DEF NoDeadlock
    <2>1. PICK q \in S : TRUE
      OBVIOUS
    <2>2. PICK o \in S : WaitsFor(q, o)
      BY <2>1
    <2>3. PICK p \in S : WaitsFor(o, p)
      BY <2>2
    <2>4. PICK x \in S : WaitsFor(p, x)
      BY <2>3
    <2> QED
      BY <2>2, <2>3, <2>4, WaitsAreShort
  <1> QED
    BY <1>1, CreationInvariant, PTL

(***************************************************************************)
(* 500 is for a row that came after the request, or for the empty key.     *)
(***************************************************************************)
THEOREM FailuresAreRaces == Spec => []FailsOnlyInRaces
  <1>1. CreationInv => FailsOnlyInRaces
    BY DEF FailsOnlyInRaces, Answered, CreationInv, RequestInv,
           AnswerIsTrue, FailureIsTrue
  <1> QED
    BY <1>1, CreationInvariant, PTL
=============================================================================
