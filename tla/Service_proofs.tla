--------------------------- MODULE Service_proofs ---------------------------
(***************************************************************************)
(* What the containers and the requests keep, for any number of both, and  *)
(* any names.                                                              *)
(***************************************************************************)
EXTENDS Service, SequenceTheorems, TLAPS

(***************************************************************************)
(* The row that a request makes.  A request has the row of its name from   *)
(* its commit on, and no other.                                            *)
(***************************************************************************)
OwnRow(q) ==
    [ by |-> q, owner |-> request[q].actor, role |-> request[q].role ]

RowsAreOwn ==
    \A n \in Names : \A q \in Requests : row[n] # Free /\ row[n].by = q =>
        /\ request[q].step \in { "refresh", "done" }
        /\ n = Key(q)

(***************************************************************************)
(* A request that is about to commit has its name to itself, and nobody    *)
(* has the row yet: those that came later wait for it.                     *)
(***************************************************************************)
NameIsFree(q) == request[q].step = "commit" => row[Key(q)] = Free

OneClaims ==
    \A q, o \in Requests :
        /\ request[q].step = "commit" /\ request[o].step = "commit"
        /\ Key(q) = Key(o)
        => q = o

HasItsRow(q) == request[q].step = "refresh" => row[Key(q)] = OwnRow(q)

Unanswered(q) ==
    request[q].step \notin { "new", "done" } => request[q].status = 0

(***************************************************************************)
(* What the guards have found is still so.                                 *)
(***************************************************************************)
Allowed(q) ==
    request[q].step \in { "look", "insert", "commit" } =>
        /\ request[q].name \in Emails /\ request[q].role # "developer" =>
              IsAdmin(request[q].actor)
        /\ request[q].name \in Environments =>
              /\ row[request[q].name[1]] # Free
              /\ Manages(request[q].actor, request[q].name[1])

AnswerIsTrue(q) ==
    request[q].step = "done" =>
        /\ request[q].status = 201 => row[Key(q)] = OwnRow(q)
        /\ request[q].status \in { 409, 500 } =>
              Holder(Key(q)) \notin { Free, q }

RequestInv(q) ==
    /\ NameIsFree(q) /\ HasItsRow(q) /\ Unanswered(q) /\ Allowed(q)
    /\ AnswerIsTrue(q)

DirectoryInv ==
    /\ TypeOK
    /\ RowsAreOwn
    /\ OneClaims
    /\ \A q \in Requests : RequestInv(q)
    /\ HistoryExact
    /\ AuthorityIsGranted

(***************************************************************************)
(* The containers: what each has done by the step it is at; and no request *)
(* arrives before the bootstrap admin has her row.                         *)
(***************************************************************************)
DeploymentOK ==
    /\ installers \subseteq Containers /\ installers # {}
    /\ servers \subseteq Containers
    /\ schema \in BOOLEAN
    /\ step \in [Containers -> Launch!Steps]

HasMigrated ==
    \A c \in Containers :
        step[c] \in { "look", "insert", "inserted", "completed", "serving" }
            => schema

HasInstalled ==
    \A c \in Containers :
        step[c] \in { "completed", "serving" } => row[Root] = Admin

OneInserts ==
    /\ \A c \in Containers : step[c] = "inserted" => row[Root] = Free
    /\ \A c, o \in Containers :
          step[c] = "inserted" /\ step[o] = "inserted" => c = o

RootIsAdmin ==
    /\ row[Root] \in { Free, Admin }
    /\ \A q \in Requests : request[q] # New => row[Root] = Admin

LaunchInv ==
    /\ DeploymentOK
    /\ HasMigrated /\ HasInstalled /\ OneInserts /\ RootIsAdmin

ServiceInv == DirectoryInv /\ LaunchInv

-----------------------------------------------------------------------------
(***************************************************************************)
(* A request is New or a record; its name and its key have one kind.       *)
(***************************************************************************)
LEMMA RequestType ==
  ASSUME TypeOK, NEW q \in Requests
  PROVE  /\ request[q].step = "new" <=> request[q] = New
         /\ request[q].step # "new" => request[q] \in Request
  <1>1. request[q] \in Request \cup { New }
    BY DEF TypeOK
  <1>2. New.step = "new" /\ \A r \in Request : r.step # "new"
    BY DEF New, Request
  <1> QED
    BY <1>1, <1>2

LEMMA KeyType ==
  ASSUME TypeOK, NEW q \in Requests, request[q].step # "new"
  PROVE  /\ Key(q) \in Names
         /\ Key(q) \in Emails <=> request[q].name \in Emails
         /\ Key(q) \in Emails => Lower[Key(q)] = Key(q)
         /\ request[q].name \notin Emails => Key(q) = request[q].name
  <1>1. request[q].name \in Names
    BY RequestType DEF Request
  <1> QED
    BY <1>1, DirectoryAssumption DEF Key, Names

(***************************************************************************)
(* A committed row is not Free, and neither is who made it.                *)
(***************************************************************************)
LEMMA RowType ==
  ASSUME TypeOK, NEW n \in Names
  PROVE  /\ row[n] # Free => row[n] \in Row /\ row[n].by # Free
         /\ Holder(n) = Free <=> row[n] = Free
         /\ row[n] # Free => Holder(n) = row[n].by
  <1>1. row[n] # Free => row[n] \in Row
    BY DEF TypeOK
  <1>2. Free \notin Requests /\ Free # Root
    BY DirectoryAssumption DEF Names
  <1>3. row[n] # Free => row[n].by # Free
    BY <1>1, <1>2 DEF Row
  <1> QED
    BY <1>1, <1>3 DEF Holder

LEMMA AdminIsRow == Admin \in Row /\ Admin # Free /\ Admin.by = Root
  <1>1. Admin = [ by |-> Root, owner |-> Free, role |-> "admin" ]
    BY DEF Admin, Given
  <1>2. Admin \in Row
    BY <1>1 DEF Row, Roles
  <1> QED
    BY <1>1, <1>2, DirectoryAssumption

(***************************************************************************)
(* What a statement makes of the request.                                  *)
(***************************************************************************)
SameRequest(q) ==
    /\ request'[q].name = request[q].name
    /\ request'[q].actor = request[q].actor
    /\ request'[q].role = request[q].role

LEMMA SameKey ==
  ASSUME NEW q \in Requests, SameRequest(q)
  PROVE  Key(q)' = Key(q) /\ OwnRow(q)' = OwnRow(q)
  BY DEF SameRequest, Key, OwnRow

LEMMA GoRequest ==
  ASSUME TypeOK, NEW q \in Requests, request[q].step # "new",
         NEW to \in { "guard", "look", "insert", "commit", "refresh",
                      "done" },
         Go(q, to)
  PROVE  /\ request' \in [Requests -> Request \cup { New }]
         /\ \A o \in Requests \ {q} : request'[o] = request[o]
         /\ SameRequest(q)
         /\ request'[q].step = to
         /\ request'[q].status = request[q].status
  <1> DEFINE new == [request[q] EXCEPT !.step = to]
  <1>1. request[q] \in Request
    BY RequestType
  <1>2. request' = [request EXCEPT ![q] = new]
    BY DEF Go
  <1>3. /\ new \in Request /\ new.step = to
        /\ new.name = request[q].name /\ new.actor = request[q].actor
        /\ new.role = request[q].role /\ new.status = request[q].status
    BY <1>1 DEF Request
  <1> HIDE DEF new
  <1>4. request'[q] = new
        /\ \A o \in Requests \ {q} : request'[o] = request[o]
    BY <1>2 DEF TypeOK
  <1> QED
    BY <1>2, <1>3, <1>4 DEF TypeOK, SameRequest

LEMMA ReplyRequest ==
  ASSUME TypeOK, NEW q \in Requests, request[q].step # "new",
         NEW status \in { 0, 201, 403, 404, 409, 500 }, Reply(q, status)
  PROVE  /\ request' \in [Requests -> Request \cup { New }]
         /\ \A o \in Requests \ {q} : request'[o] = request[o]
         /\ SameRequest(q)
         /\ request'[q].step = "done"
         /\ request'[q].status = status
         /\ UNCHANGED tables
  <1> DEFINE new == [request[q] EXCEPT !.step = "done", !.status = status]
  <1>1. request[q] \in Request
    BY RequestType
  <1>2. request' = [request EXCEPT ![q] = new] /\ UNCHANGED tables
    BY DEF Reply
  <1>3. /\ new \in Request /\ new.step = "done"
        /\ new.name = request[q].name /\ new.actor = request[q].actor
        /\ new.role = request[q].role /\ new.status = status
    <2> DEFINE ended == [request[q] EXCEPT !.step = "done"]
               answered == [ended EXCEPT !.status = status]
    <2>1. /\ ended \in Request /\ ended.step = "done"
          /\ ended.name = request[q].name
          /\ ended.actor = request[q].actor
          /\ ended.role = request[q].role
      BY <1>1 DEF Request
    <2>2. new = answered
      OBVIOUS
    <2> HIDE DEF ended, new
    <2> QED
      BY <2>1, <2>2 DEF Request
  <1> HIDE DEF new
  <1>4. request'[q] = new
        /\ \A o \in Requests \ {q} : request'[o] = request[o]
    BY <1>2 DEF TypeOK
  <1> QED
    BY <1>2, <1>3, <1>4 DEF TypeOK, SameRequest

-----------------------------------------------------------------------------
(***************************************************************************)
(* Rows are never changed, so what a request has relied on stays true.     *)
(***************************************************************************)
RowsStay == \A n \in Names : row[n] # Free => row'[n] = row[n]

LEMMA RequestKept ==
  ASSUME TypeOK, RowsStay, NEW q \in Requests, RequestInv(q),
         request'[q] = request[q],
         request[q].step = "commit" => row'[Key(q)] = Free
  PROVE  RequestInv(q)'
  <1>1. SameRequest(q)
    BY DEF SameRequest
  <1>2. Key(q)' = Key(q) /\ OwnRow(q)' = OwnRow(q)
    BY <1>1, SameKey
  <1>3. CASE request[q].step = "new"
    BY <1>3 DEF RequestInv, NameIsFree, HasItsRow, Unanswered, Allowed,
                AnswerIsTrue
  <1>4. CASE request[q].step # "new"
    <2>1. Key(q) \in Names /\ request[q] \in Request
      BY <1>4, KeyType, RequestType
    <2>2. NameIsFree(q)' /\ Unanswered(q)'
      BY <1>2 DEF RequestInv, NameIsFree, Unanswered
    <2>3. HasItsRow(q)'
      <3> SUFFICES ASSUME request[q].step = "refresh"
                   PROVE  row'[Key(q)] = OwnRow(q)
        BY <1>2 DEF HasItsRow
      <3>1. row[Key(q)] = OwnRow(q)
        BY DEF RequestInv, HasItsRow
      <3>2. OwnRow(q) # Free
        BY <2>1, DirectoryAssumption DEF OwnRow, Row, Request
      <3> QED
        BY <2>1, <3>1, <3>2 DEF RowsStay
    <2>4. Allowed(q)'
      <3> SUFFICES ASSUME request[q].step \in { "look", "insert", "commit" }
                   PROVE  /\ request[q].name \in Emails
                             /\ request[q].role # "developer" =>
                                IsAdmin(request[q].actor)'
                          /\ request[q].name \in Environments =>
                                /\ row'[request[q].name[1]] # Free
                                /\ Manages(request[q].actor,
                                           request[q].name[1])'
        BY DEF Allowed
      <3>1. request[q].actor \in Emails \cup { Free }
        BY <2>1 DEF Request
      <3>2. /\ request[q].name \in Emails /\ request[q].role # "developer" =>
                  IsAdmin(request[q].actor)
            /\ request[q].name \in Environments =>
                  /\ row[request[q].name[1]] # Free
                  /\ Manages(request[q].actor, request[q].name[1])
        BY DEF RequestInv, Allowed
      <3>3. IsAdmin(request[q].actor) => IsAdmin(request[q].actor)'
        BY <3>1 DEF IsAdmin, RowsStay, Names
      <3>4. ASSUME request[q].name \in Environments
            PROVE  /\ row'[request[q].name[1]] # Free
                   /\ Manages(request[q].actor, request[q].name[1])'
        <4>1. request[q].name[1] \in Slugs
          BY <3>4 DEF Environments
        <4>2. row'[request[q].name[1]] = row[request[q].name[1]]
          BY <3>2, <3>4, <4>1 DEF RowsStay, Names
        <4> QED
          BY <3>2, <3>3, <3>4, <4>2 DEF Manages
      <3> QED
        BY <3>2, <3>3, <3>4
    <2>5. AnswerIsTrue(q)'
      <3>1. Holder(Key(q)) # Free => Holder(Key(q))' = Holder(Key(q))
        BY <1>2, <2>1 DEF Holder, RowsStay
      <3>2. OwnRow(q) # Free
        BY <2>1, DirectoryAssumption DEF OwnRow, Row, Request
      <3>3. row[Key(q)] = OwnRow(q) => row'[Key(q)] = OwnRow(q)
        BY <2>1, <3>2 DEF RowsStay
      <3> QED
        BY <1>2, <3>1, <3>3 DEF RequestInv, AnswerIsTrue
    <2> QED
      BY <2>2, <2>3, <2>4, <2>5 DEF RequestInv
  <1> QED
    BY <1>3, <1>4

(***************************************************************************)
(* Steps of requests that write no table.                                  *)
(***************************************************************************)
LEMMA TablesKept ==
  ASSUME DirectoryInv, UNCHANGED tables,
         request' \in [Requests -> Request \cup { New }],
         OneClaims',
         \A q \in Requests :
            \/ request'[q] = request[q]
            \/ /\ RequestInv(q)'
               /\ \A n \in Names : row[n] # Free /\ row[n].by = q =>
                     request'[q].step \in { "refresh", "done" }
                        /\ n = Key(q)'
  PROVE  DirectoryInv'
  <1>1. row' = row /\ history' = history /\ TypeOK /\ RowsStay
    BY DEF tables, DirectoryInv, RowsStay
  <1>2. TypeOK'
    BY <1>1 DEF TypeOK
  <1>3. \A q \in Requests : request'[q] = request[q] => Key(q)' = Key(q)
    BY SameKey DEF SameRequest
  <1>4. RowsAreOwn'
    <2> SUFFICES ASSUME NEW n \in Names, NEW q \in Requests,
                        row[n] # Free, row[n].by = q
                 PROVE  /\ request'[q].step \in { "refresh", "done" }
                        /\ n = Key(q)'
      BY <1>1 DEF RowsAreOwn
    <2> QED
      BY <1>3 DEF DirectoryInv, RowsAreOwn
  <1>5. ASSUME NEW q \in Requests
        PROVE  RequestInv(q)'
    <2>1. CASE request'[q] = request[q]
      BY <1>1, <2>1, RequestKept DEF DirectoryInv, RequestInv, NameIsFree
    <2>2. CASE request'[q] # request[q]
      BY <2>2
    <2> QED
      BY <2>1, <2>2
  <1>6. HistoryExact'
    BY <1>1 DEF DirectoryInv, HistoryExact
  <1>7. AuthorityIsGranted'
    BY <1>1 DEF DirectoryInv, AuthorityIsGranted, IsAdmin, Manages
  <1> QED
    BY <1>2, <1>4, <1>5, <1>6, <1>7 DEF DirectoryInv

(***************************************************************************)
(* No claim is made by a step after which nobody new is about to commit.   *)
(***************************************************************************)
LEMMA NoNewClaim ==
  ASSUME OneClaims,
         \A q \in Requests : request'[q].step = "commit" =>
            request'[q] = request[q]
  PROVE  OneClaims'
  <1>1. \A q \in Requests : request'[q] = request[q] => Key(q)' = Key(q)
    BY SameKey DEF SameRequest
  <1> QED
    BY <1>1 DEF OneClaims

(***************************************************************************)
(* A request that has not committed has no row.                            *)
(***************************************************************************)
LEMMA NoRowYet ==
  ASSUME DirectoryInv, NEW q \in Requests,
         request[q].step \in { "new", "guard", "look", "insert", "commit" }
  PROVE  /\ \A n \in Names : ~(row[n] # Free /\ row[n].by = q)
         /\ \A n \in Names : Holder(n) # q
  <1>1. \A n \in Names : ~(row[n] # Free /\ row[n].by = q)
    BY DEF DirectoryInv, RowsAreOwn
  <1>2. q # Free
    BY DirectoryAssumption
  <1> QED
    BY <1>1, <1>2 DEF Holder

LEMMA AdvanceKeeps ==
  ASSUME DirectoryInv, NEW q \in Requests,
         request[q].step \in { "guard", "look", "insert" },
         NEW to \in { "look", "insert", "commit" }, Advance(q, to),
         request[q].step = "guard" => Allowed(q)',
         to = "commit" => row[Key(q)] = Free /\ ~MustWait(q)
  PROVE  DirectoryInv'
  <1>1. TypeOK /\ RequestInv(q) /\ OneClaims /\ Go(q, to)
        /\ UNCHANGED tables /\ row' = row
    BY DEF DirectoryInv, Advance, tables
  <1>2. /\ request' \in [Requests -> Request \cup { New }]
        /\ \A o \in Requests \ {q} : request'[o] = request[o]
        /\ SameRequest(q)
        /\ request'[q].step = to
        /\ request'[q].status = request[q].status
    BY <1>1, GoRequest
  <1>3. Key(q)' = Key(q) /\ OwnRow(q)' = OwnRow(q)
    BY <1>2, SameKey
  <1>4. \A o \in Requests \ {q} : Key(o)' = Key(o)
    BY <1>2, SameKey DEF SameRequest
  <1>5. OneClaims'
    <2>1. ASSUME NEW o \in Requests \ {q}, to = "commit",
                 request[o].step = "commit"
          PROVE  Key(o) # Key(q)
      BY <2>1 DEF MustWait
    <2> QED
      BY <1>1, <1>2, <1>3, <1>4, <2>1 DEF OneClaims
  <1>6. Allowed(q)'
    <2>1. CASE request[q].step = "guard"
      BY <2>1
    <2>2. CASE request[q].step # "guard"
      BY <1>1, <1>2, <2>2
         DEF RequestInv, Allowed, SameRequest, IsAdmin, Manages
    <2> QED
      BY <2>1, <2>2
  <1>7. RequestInv(q)'
    BY <1>1, <1>2, <1>3, <1>6
       DEF RequestInv, NameIsFree, HasItsRow, Unanswered, AnswerIsTrue
  <1> QED
    BY <1>1, <1>2, <1>5, <1>7, NoRowYet, TablesKept

LEMMA ReplyKeeps ==
  ASSUME DirectoryInv, NEW q \in InFlight,
         NEW status \in { 0, 201, 403, 404, 409, 500 }, Reply(q, status),
         status = 201 => row[Key(q)] = OwnRow(q),
         status \in { 409, 500 } => Holder(Key(q)) \notin { Free, q }
  PROVE  DirectoryInv'
  <1>1. /\ TypeOK /\ RequestInv(q) /\ OneClaims /\ q \in Requests
        /\ request[q].step \notin { "new", "done" }
        /\ UNCHANGED tables /\ row' = row
    BY DEF DirectoryInv, InFlight, Reply, tables
  <1>2. /\ request' \in [Requests -> Request \cup { New }]
        /\ \A o \in Requests \ {q} : request'[o] = request[o]
        /\ SameRequest(q)
        /\ request'[q].step = "done"
        /\ request'[q].status = status
    BY <1>1, ReplyRequest
  <1>3. Key(q)' = Key(q) /\ OwnRow(q)' = OwnRow(q)
    BY <1>1, <1>2, SameKey
  <1>4. OneClaims'
    BY <1>1, <1>2, NoNewClaim
  <1>5. Holder(Key(q))' = Holder(Key(q))
    BY <1>1, <1>3 DEF Holder
  <1>6. RequestInv(q)'
    BY <1>1, <1>2, <1>3, <1>5
       DEF RequestInv, NameIsFree, HasItsRow, Unanswered, Allowed,
           AnswerIsTrue
  <1>7. \A n \in Names : row[n] # Free /\ row[n].by = q => n = Key(q)
    BY <1>1 DEF DirectoryInv, RowsAreOwn
  <1> QED
    BY <1>1, <1>2, <1>3, <1>4, <1>6, <1>7, TablesKept

LEMMA ReceiveKeeps ==
  ASSUME DirectoryInv, NEW q \in Requests, NEW to \in { "guard", "look" },
         NEW actor \in Emails \cup { Free }, NEW name \in Names,
         NEW role \in Roles \cup { "none" },
         Receive(q, to, actor, name, role),
         to = "look" => /\ name \notin Environments
                        /\ name \in Emails => role = "developer"
  PROVE  DirectoryInv'
  <1> DEFINE new == [ step |-> to, actor |-> actor, name |-> name,
                      role |-> role, status |-> 0 ]
  <1>1. /\ TypeOK /\ RequestInv(q) /\ OneClaims
        /\ request[q].step = "new" /\ UNCHANGED tables
        /\ request' = [request EXCEPT ![q] = new]
    BY DEF DirectoryInv, Receive
  <1>2. /\ new \in Request /\ new.step = to /\ new.name = name
        /\ new.role = role /\ new.status = 0
    BY DEF Request
  <1> HIDE DEF new
  <1>3. /\ request' \in [Requests -> Request \cup { New }]
        /\ \A o \in Requests \ {q} : request'[o] = request[o]
        /\ request'[q] = new
    BY <1>1, <1>2 DEF TypeOK
  <1>4. OneClaims'
    BY <1>1, <1>2, <1>3, NoNewClaim
  <1>5. RequestInv(q)'
    BY <1>1, <1>2, <1>3
       DEF RequestInv, NameIsFree, HasItsRow, Unanswered, Allowed,
           AnswerIsTrue
  <1> QED
    BY <1>1, <1>3, <1>4, <1>5, NoRowYet, TablesKept

(***************************************************************************)
(* The container dies, with requests that it serves.                       *)
(***************************************************************************)
LEMMA LostKeeps ==
  ASSUME DirectoryInv, NEW lost \in SUBSET InFlight, Lost(lost),
         UNCHANGED tables
  PROVE  DirectoryInv'
  <1>1. TypeOK /\ OneClaims /\ row' = row
    BY DEF DirectoryInv, tables
  <1>2. ASSUME NEW q \in lost
        PROVE  /\ q \in Requests /\ request[q] \in Request
               /\ request'[q] = [request[q] EXCEPT !.step = "done"]
    BY <1>1, <1>2, RequestType DEF Lost, InFlight
  <1>3. ASSUME NEW q \in lost
        PROVE  /\ SameRequest(q) /\ request'[q] \in Request
               /\ request'[q].step = "done" /\ request'[q].status = 0
    <2>1. request[q].status = 0
      BY DEF DirectoryInv, RequestInv, Unanswered, InFlight
    <2> DEFINE old == request[q]
               ended == [old EXCEPT !.step = "done"]
    <2>2. old \in Request /\ request'[q] = ended
      BY <1>2
    <2> HIDE DEF old
    <2>3. /\ ended \in Request /\ ended.step = "done"
          /\ ended.status = old.status /\ ended.name = old.name
          /\ ended.actor = old.actor /\ ended.role = old.role
      BY <2>2 DEF Request
    <2> HIDE DEF ended
    <2> QED
      BY <2>1, <2>2, <2>3 DEF SameRequest, old
  <1>4. \A q \in Requests \ lost : request'[q] = request[q]
    BY DEF Lost
  <1>5. request' \in [Requests -> Request \cup { New }]
    <2>1. \A q \in Requests : request'[q] \in Request \cup { New }
      BY <1>1, <1>3, <1>4 DEF TypeOK
    <2>2. DOMAIN request' = Requests
          /\ request' = [ q \in Requests |-> request'[q] ]
      BY DEF Lost
    <2> QED
      BY <2>1, <2>2
  <1>6. OneClaims'
    BY <1>1, <1>3, <1>4, NoNewClaim
  <1>7. ASSUME NEW q \in lost
        PROVE  RequestInv(q)'
    BY <1>3 DEF RequestInv, NameIsFree, HasItsRow, Unanswered, Allowed,
                AnswerIsTrue
  <1>8. ASSUME NEW q \in lost, NEW n \in Names,
               row[n] # Free, row[n].by = q
        PROVE  n = Key(q)'
    BY <1>2, <1>3, <1>8, SameKey DEF DirectoryInv, RowsAreOwn
  <1>9. \A q \in Requests :
            \/ request'[q] = request[q]
            \/ /\ RequestInv(q)'
               /\ \A n \in Names : row[n] # Free /\ row[n].by = q =>
                     request'[q].step \in { "refresh", "done" }
                        /\ n = Key(q)'
    BY <1>3, <1>4, <1>7, <1>8
  <1> QED
    BY <1>5, <1>6, <1>9, TablesKept

-----------------------------------------------------------------------------
(***************************************************************************)
(* The statements of a request.                                            *)
(***************************************************************************)
LEMMA ArriveKeeps ==
  ASSUME DirectoryInv, NEW q \in Requests, Arrive(q)
  PROVE  DirectoryInv'
  <1>1. ASSUME NEW e \in Emails, Register(q, e)
        PROVE  DirectoryInv'
    <2>1. "developer" \in Roles \cup { "none" } /\ e \in Names
          /\ e \notin Environments
      BY DirectoryAssumption DEF Roles, Names
    <2>2. Receive(q, "look", Free, e, "developer")
      BY <1>1 DEF Register
    <2> QED
      BY <2>1, <2>2, ReceiveKeeps
  <1>2. ASSUME NEW u \in Emails, NEW e \in Emails, NEW role \in Asked,
               CreateUser(q, u, e, role)
        PROVE  DirectoryInv'
    <2>1. role \in Roles \cup { "none" } /\ e \in Names
      BY DirectoryAssumption DEF Roles, Names
    <2>2. Receive(q, "guard", u, e, role)
      BY <1>2 DEF CreateUser
    <2> QED
      BY <2>1, <2>2, ReceiveKeeps
  <1>3. ASSUME NEW u \in Emails, NEW s \in Slugs, PostProject(q, u, s)
        PROVE  DirectoryInv'
    <2>1. s \in Names /\ s \notin Environments /\ s \notin Emails
      BY DirectoryAssumption DEF Names
    <2>2. Receive(q, "look", u, s, "none")
      BY <1>3 DEF PostProject
    <2> QED
      BY <2>1, <2>2, ReceiveKeeps
  <1>4. ASSUME NEW u \in Emails, NEW n \in Environments,
               PostEnvironment(q, u, n)
        PROVE  DirectoryInv'
    <2>1. n \in Names
      BY DEF Names
    <2>2. Receive(q, "guard", u, n, "none")
      BY <1>4 DEF PostEnvironment
    <2> QED
      BY <2>1, <2>2, ReceiveKeeps
  <1> QED
    BY <1>1, <1>2, <1>3, <1>4 DEF Arrive

LEMMA GuardKeeps ==
  ASSUME DirectoryInv, NEW q \in Requests, Guard(q)
  PROVE  DirectoryInv'
  <1> DEFINE u == request[q].actor
             n == request[q].name
  <1>1. q \in InFlight /\ request[q].step = "guard" /\ TypeOK
    BY DEF Guard, InFlight, DirectoryInv
  <1>2. ASSUME NEW status \in { 403, 404 }, Reply(q, status)
        PROVE  DirectoryInv'
    BY <1>1, <1>2, ReplyKeeps
  <1>3. ASSUME n \in Emails, IsAdmin(u), Advance(q, "look")
        PROVE  DirectoryInv'
    <2>1. SameRequest(q) /\ row' = row
      BY <1>1, <1>3, GoRequest DEF Advance, tables
    <2>2. n \notin Environments
      BY <1>3, DirectoryAssumption
    <2>3. Allowed(q)'
      BY <1>3, <2>1, <2>2 DEF Allowed, SameRequest, IsAdmin
    <2> QED
      BY <1>1, <1>3, <2>3, AdvanceKeeps
  <1>4. ASSUME n \in Environments, row[n[1]] # Free, Manages(u, n[1]),
               Advance(q, "look")
        PROVE  DirectoryInv'
    <2>1. SameRequest(q) /\ row' = row
      BY <1>1, <1>4, GoRequest DEF Advance, tables
    <2>2. n \notin Emails
      BY <1>4, DirectoryAssumption
    <2>3. Allowed(q)'
      BY <1>4, <2>1, <2>2 DEF Allowed, SameRequest, IsAdmin, Manages
    <2> QED
      BY <1>1, <1>4, <2>3, AdvanceKeeps
  <1> QED
    BY <1>2, <1>3, <1>4 DEF Guard

(***************************************************************************)
(* A name that is taken is another's.                                      *)
(***************************************************************************)
LEMMA TakenByOther ==
  ASSUME DirectoryInv, NEW q \in Requests,
         request[q].step \in { "look", "insert" }, row[Key(q)] # Free
  PROVE  Holder(Key(q)) \notin { Free, q }
  <1>1. TypeOK /\ Key(q) \in Names
    BY KeyType DEF DirectoryInv
  <1> QED
    BY <1>1, RowType, NoRowYet

LEMMA LookUpKeeps ==
  ASSUME DirectoryInv, NEW q \in Requests, LookUp(q)
  PROVE  DirectoryInv'
  <1>1. q \in InFlight /\ request[q].step = "look"
    BY DEF LookUp, InFlight
  <1>2. CASE Taken(q)
    BY <1>1, <1>2, TakenByOther, ReplyKeeps DEF LookUp, Taken
  <1>3. CASE ~Taken(q)
    BY <1>1, <1>3, AdvanceKeeps DEF LookUp
  <1> QED
    BY <1>2, <1>3

LEMMA InsertKeeps ==
  ASSUME DirectoryInv, NEW q \in Requests, Insert(q)
  PROVE  DirectoryInv'
  <1>1. q \in InFlight /\ request[q].step = "insert" /\ ~MustWait(q)
    BY DEF Insert, InFlight
  <1>2. CASE row[Key(q)] # Free
    BY <1>1, <1>2, TakenByOther, ReplyKeeps DEF Insert, Taken
  <1>3. CASE row[Key(q)] = Free
    BY <1>1, <1>3, AdvanceKeeps DEF Insert, Taken
  <1> QED
    BY <1>2, <1>3

LEMMA RefreshOrAbortKeeps ==
  ASSUME DirectoryInv, NEW q \in Requests, Refresh(q) \/ Abort(q)
  PROVE  DirectoryInv'
  <1>1. CASE Refresh(q)
    <2>1. q \in InFlight /\ row[Key(q)] = OwnRow(q) /\ Reply(q, 201)
      BY <1>1 DEF Refresh, InFlight, DirectoryInv, RequestInv, HasItsRow
    <2> QED
      BY <2>1, ReplyKeeps
  <1>2. CASE Abort(q)
    BY <1>2, ReplyKeeps DEF Abort
  <1> QED
    BY <1>1, <1>2

(***************************************************************************)
(* The commit: what is true of the new row, of the history, and of the     *)
(* others.                                                                 *)
(***************************************************************************)
LEMMA CommitRow ==
  ASSUME DirectoryInv, NEW q \in Requests, Commit(q)
  PROVE  /\ request[q] \in Request /\ request[q].step = "commit"
         /\ Key(q) \in Names /\ row[Key(q)] = Free
         /\ OwnRow(q) \in Row /\ OwnRow(q) # Free
         /\ row' \in [Names -> Row \cup { Free }]
         /\ row'[Key(q)] = OwnRow(q)
         /\ \A n \in Names \ { Key(q) } : row'[n] = row[n]
         /\ RowsStay
  <1>1. TypeOK /\ RequestInv(q) /\ request[q].step = "commit"
        /\ row' = [row EXCEPT ![Key(q)] = OwnRow(q)]
    BY DEF DirectoryInv, Commit, OwnRow
  <1>2. request[q] \in Request /\ Key(q) \in Names /\ row[Key(q)] = Free
    BY <1>1, RequestType, KeyType DEF RequestInv, NameIsFree
  <1>3. OwnRow(q) \in Row /\ OwnRow(q) # Free
    BY <1>2, DirectoryAssumption DEF OwnRow, Row, Request
  <1>4. /\ row'[Key(q)] = OwnRow(q)
        /\ \A n \in Names \ { Key(q) } : row'[n] = row[n]
        /\ row' \in [Names -> Row \cup { Free }]
    BY <1>1, <1>2, <1>3 DEF TypeOK
  <1> QED
    BY <1>1, <1>2, <1>3, <1>4 DEF RowsStay

LEMMA HistoryGrows ==
  ASSUME TypeOK, HistoryExact, NEW n \in Slugs \cup Environments,
         row[n] = Free, row'[n] # Free,
         \A m \in Names \ {n} : row'[m] = row[m],
         n \in Environments => n[1] \in Slugs /\ row[n[1]] # Free,
         history' = Append(history, n)
  PROVE  HistoryExact' /\ history' \in Seq(Slugs \cup Environments)
  <1> DEFINE k == Len(history)
  <1>1. history \in Seq(Slugs \cup Environments) /\ k \in Nat
        /\ DOMAIN history = 1..k
    BY DEF TypeOK
  <1>2. /\ IsInjective(history)
        /\ ToSet(history) = { m \in Slugs \cup Environments : row[m] # Free }
        /\ \A i \in DOMAIN history : history[i] \in Environments =>
              \E j \in 1..(i - 1) : history[j] = history[i][1]
    BY DEF HistoryExact
  <1>3. /\ history' \in Seq(Slugs \cup Environments)
        /\ DOMAIN history' = 1..(k + 1)
        /\ \A i \in 1..k : history'[i] = history[i]
        /\ history'[k + 1] = n
    BY <1>1, AppendProperties
  <1> HIDE DEF k
  <1>4. n \notin ToSet(history)
    BY <1>2
  <1>5. \A i \in 1..k : history[i] # n
    BY <1>1, <1>4 DEF ToSet
  <1>6. IsInjective(history')
    BY <1>1, <1>2, <1>3, <1>5 DEF IsInjective
  <1>7. ToSet(history') = ToSet(history) \cup {n}
    BY <1>1, <1>3 DEF ToSet
  <1>8. ToSet(history') = { m \in Slugs \cup Environments : row'[m] # Free }
    BY <1>2, <1>7 DEF Names
  <1>9. ASSUME NEW i \in 1..(k + 1), history'[i] \in Environments
        PROVE  \E j \in 1..(i - 1) : history'[j] = history'[i][1]
    <2>1. CASE i \in 1..k
      <3>1. PICK j \in 1..(i - 1) : history[j] = history[i][1]
        BY <1>1, <1>2, <1>3, <1>9, <2>1
      <3>2. j \in 1..k
        BY <1>1, <2>1
      <3> QED
        BY <1>3, <2>1, <3>1, <3>2
    <2>2. CASE i = k + 1
      <3>1. n[1] \in ToSet(history)
        BY <1>2, <1>3, <1>9, <2>2
      <3>2. PICK j \in 1..k : history[j] = n[1]
        BY <1>1, <3>1 DEF ToSet
      <3>3. j \in 1..(i - 1)
        BY <1>1, <2>2
      <3> QED
        BY <1>3, <2>2, <3>2, <3>3
    <2> QED
      BY <1>1, <2>1, <2>2
  <1>10. HistoryExact'
    BY <1>3, <1>6, <1>8, <1>9 DEF HistoryExact
  <1> QED
    BY <1>3, <1>10

LEMMA GrantsKept ==
  ASSUME TypeOK, AuthorityIsGranted, RowsStay, NEW k \in Names,
         \A n \in Names \ {k} : row'[n] = row[n],
         k # Root => /\ k \in Emails /\ row'[k].role # "developer" =>
                          IsAdmin(row'[k].owner)
                     /\ k \in Environments =>
                          /\ row[k[1]] # Free
                          /\ Manages(row'[k].owner, k[1]),
         k # Root => row'[k].owner \in Emails \cup { Free }
  PROVE  AuthorityIsGranted'
  <1>1. ASSUME NEW u \in Emails \cup { Free }, IsAdmin(u)
        PROVE  IsAdmin(u)'
    BY <1>1 DEF IsAdmin, RowsStay, Names
  <1>2. ASSUME NEW u \in Emails \cup { Free }, NEW n \in Environments,
               row[n[1]] # Free, Manages(u, n[1])
        PROVE  row'[n[1]] # Free /\ Manages(u, n[1])'
    <2>1. n[1] \in Names
      BY DEF Environments, Names
    <2>2. row'[n[1]] = row[n[1]]
      BY <1>2, <2>1 DEF RowsStay
    <2> QED
      BY <1>1, <1>2, <2>2 DEF Manages
  <1>3. ASSUME NEW n \in Names \ { Root }, row'[n] # Free,
               NEW u, u = row'[n].owner
        PROVE  /\ n \in Emails /\ row'[n].role # "developer" => IsAdmin(u)'
               /\ n \in Environments =>
                     row'[n[1]] # Free /\ Manages(u, n[1])'
    <2>1. CASE n = k
      BY <1>1, <1>2, <1>3, <2>1
    <2>2. CASE n # k
      <3>1. row[n] # Free /\ row[n].owner = u /\ row'[n] = row[n]
        BY <1>3, <2>2
      <3>2. u \in Emails \cup { Free }
        BY <3>1, RowType DEF Row
      <3>3. /\ n \in Emails /\ row[n].role # "developer" => IsAdmin(u)
            /\ n \in Environments => row[n[1]] # Free /\ Manages(u, n[1])
        BY <3>1 DEF AuthorityIsGranted
      <3>4. n \in Emails /\ row'[n].role # "developer" => IsAdmin(u)'
        BY <1>1, <3>1, <3>2, <3>3
      <3>5. n \in Environments => row'[n[1]] # Free /\ Manages(u, n[1])'
        BY <1>2, <3>2, <3>3
      <3> QED
        BY <3>4, <3>5
    <2> QED
      BY <2>1, <2>2
  <1> QED
    BY <1>3 DEF AuthorityIsGranted, IsAdmin, Manages

LEMMA CommitKeeps ==
  ASSUME DirectoryInv, NEW q \in Requests, Commit(q), Key(q) # Root
  PROVE  DirectoryInv'
  <1>0. PICK k : k = Key(q)
    OBVIOUS
  <1>1. /\ TypeOK /\ RequestInv(q) /\ OneClaims /\ HistoryExact
        /\ AuthorityIsGranted /\ Go(q, "refresh")
        /\ history' = Recorded(k)
    BY <1>0 DEF DirectoryInv, Commit
  <1>2. /\ request[q] \in Request /\ request[q].step = "commit"
        /\ k \in Names /\ row[k] = Free
        /\ row' \in [Names -> Row \cup { Free }]
        /\ row'[k] = OwnRow(q) /\ OwnRow(q) \in Row /\ OwnRow(q) # Free
        /\ \A n \in Names \ {k} : row'[n] = row[n]
        /\ RowsStay
    BY <1>0, CommitRow
  <1>3. /\ request' \in [Requests -> Request \cup { New }]
        /\ \A o \in Requests \ {q} : request'[o] = request[o]
        /\ SameRequest(q)
        /\ request'[q].step = "refresh"
        /\ request'[q].status = request[q].status
    BY <1>1, <1>2, GoRequest
  <1>4. /\ Key(q)' = k /\ OwnRow(q)' = OwnRow(q)
        /\ \A o \in Requests \ {q} : Key(o)' = Key(o)
    BY <1>0, <1>3, SameKey DEF SameRequest
  <1>5. /\ k \in Emails <=> request[q].name \in Emails
        /\ k \in Emails => Lower[k] = k
        /\ k \notin Emails => k = request[q].name
    BY <1>0, <1>1, <1>2, KeyType
  <1>6. /\ request[q].name \in Emails /\ request[q].role # "developer" =>
              IsAdmin(request[q].actor)
        /\ request[q].name \in Environments =>
              /\ row[request[q].name[1]] # Free
              /\ Manages(request[q].actor, request[q].name[1])
    BY <1>1, <1>2 DEF RequestInv, Allowed
  <1>7. HistoryExact' /\ history' \in Seq(Slugs \cup Environments)
    <2>1. CASE k \in Emails
      <3>1. history' = history
        BY <1>1, <2>1 DEF Recorded
      <3>2. k \notin Slugs \cup Environments
        BY <2>1, DirectoryAssumption
      <3>3. { m \in Slugs \cup Environments : row'[m] # Free } =
               { m \in Slugs \cup Environments : row[m] # Free }
        BY <1>2, <3>2 DEF Names
      <3> QED
        BY <1>1, <3>1, <3>3 DEF HistoryExact, TypeOK
    <2>2. CASE k \notin Emails
      <3>1. k \in Slugs \cup Environments /\ history' = Append(history, k)
        BY <1>1, <1>2, <2>2 DEF Recorded, Names
      <3>2. k \in Environments => k[1] \in Slugs /\ row[k[1]] # Free
        BY <1>5, <1>6, <2>2 DEF Environments
      <3> QED
        BY <1>1, <1>2, <3>1, <3>2, HistoryGrows
    <2> QED
      BY <2>1, <2>2
  <1>8. TypeOK'
    BY <1>1, <1>2, <1>3, <1>5, <1>7 DEF TypeOK, Names
  <1>9. RowsAreOwn'
    <2> SUFFICES ASSUME NEW n \in Names, NEW o \in Requests,
                        row'[n] # Free, row'[n].by = o
                 PROVE  /\ request'[o].step \in { "refresh", "done" }
                        /\ n = Key(o)'
      BY DEF RowsAreOwn
    <2>1. CASE n = k
      BY <1>2, <1>3, <1>4, <2>1 DEF OwnRow
    <2>2. CASE n # k
      <3>1. row[n] # Free /\ row[n].by = o
        BY <1>2, <2>2
      <3>2. request[o].step \in { "refresh", "done" } /\ n = Key(o)
        BY <3>1 DEF DirectoryInv, RowsAreOwn
      <3> QED
        BY <1>2, <1>3, <1>4, <3>2
    <2> QED
      BY <2>1, <2>2
  <1>10. OneClaims'
    BY <1>1, <1>3, NoNewClaim
  <1>11. ASSUME NEW o \in Requests \ {q}
         PROVE  RequestInv(o)'
    <2>1. ASSUME request[o].step = "commit"
          PROVE  row'[Key(o)] = Free
      <3>1. Key(o) # k
        BY <1>0, <1>1, <1>2, <2>1 DEF OneClaims
      <3>2. Key(o) \in Names /\ row[Key(o)] = Free
        BY <1>1, <2>1, KeyType DEF DirectoryInv, RequestInv, NameIsFree
      <3> QED
        BY <1>2, <3>1, <3>2
    <2> QED
      BY <1>1, <1>2, <1>3, <2>1, RequestKept DEF DirectoryInv
  <1>12. RequestInv(q)'
    BY <1>1, <1>2, <1>3, <1>4
       DEF RequestInv, NameIsFree, HasItsRow, Unanswered, Allowed,
           AnswerIsTrue
  <1>13. AuthorityIsGranted'
    <2>1. row'[k].owner = request[q].actor /\ row'[k].role = request[q].role
          /\ row'[k].owner \in Emails \cup { Free }
      BY <1>2 DEF OwnRow, Request
    <2>2. k \in Environments => k \notin Emails
      BY DirectoryAssumption
    <2> QED
      BY <1>1, <1>2, <1>5, <1>6, <2>1, <2>2, GrantsKept
  <1> QED
    BY <1>7, <1>8, <1>9, <1>10, <1>11, <1>12, <1>13 DEF DirectoryInv

(***************************************************************************)
(* The bootstrap makes its account when no request has arrived.            *)
(***************************************************************************)
LEMMA BootstrapKeeps ==
  ASSUME DirectoryInv, RootIsAdmin, row[Root] = Free,
         row' = [row EXCEPT ![Root] = Admin],
         UNCHANGED << history, request >>
  PROVE  DirectoryInv' /\ RowsStay
  <1>1. TypeOK /\ Root \in Names /\ Root \in Emails /\ Lower[Root] = Root
    BY DirectoryAssumption DEF DirectoryInv, Names
  <1>2. /\ row'[Root] = Admin /\ Admin # Free /\ Admin \in Row
        /\ Admin.by = Root
        /\ \A n \in Names \ { Root } : row'[n] = row[n]
        /\ row' \in [Names -> Row \cup { Free }]
    BY <1>1, AdminIsRow DEF TypeOK
  <1>3. \A q \in Requests : request[q].step = "new"
    BY <1>1, <1>2, RequestType DEF RootIsAdmin
  <1>4. RowsStay
    BY <1>2 DEF RowsStay
  <1>5. TypeOK'
    BY <1>1, <1>2 DEF TypeOK, Names
  <1>6. RowsAreOwn'
    BY <1>2, <1>3, DirectoryAssumption DEF DirectoryInv, RowsAreOwn
  <1>7. OneClaims'
    BY <1>3 DEF OneClaims
  <1>8. \A q \in Requests : RequestInv(q)'
    BY <1>3 DEF RequestInv, NameIsFree, HasItsRow, Unanswered, Allowed,
                AnswerIsTrue
  <1>9. HistoryExact'
    <2>1. Root \notin Slugs \cup Environments
      BY <1>1, DirectoryAssumption
    <2>2. { m \in Slugs \cup Environments : row'[m] # Free } =
             { m \in Slugs \cup Environments : row[m] # Free }
      BY <1>2, <2>1 DEF Names
    <2> QED
      BY <2>2 DEF DirectoryInv, HistoryExact
  <1>10. AuthorityIsGranted'
    BY <1>1, <1>2, <1>4, GrantsKept DEF DirectoryInv
  <1> QED
    BY <1>4, <1>5, <1>6, <1>7, <1>8, <1>9, <1>10 DEF DirectoryInv

-----------------------------------------------------------------------------
(***************************************************************************)
(* The containers.  What the bootstrap sees of the account.                *)
(***************************************************************************)
AdminRole == IF row[Root] = Free THEN "none" ELSE row[Root].role

LEMMA AdminSeen ==
  ASSUME RootIsAdmin
  PROVE  /\ AdminRole = "none" <=> row[Root] = Free
         /\ AdminRole = "admin" <=> row[Root] = Admin
  <1>1. Admin.role = "admin" /\ Admin # Free
    BY AdminIsRow DEF Admin, Given
  <1> QED
    BY <1>1 DEF RootIsAdmin, AdminRole

(***************************************************************************)
(* A step of one container.                                                *)
(***************************************************************************)
LEMMA ContainerStep ==
  ASSUME LaunchInv, NEW c \in Containers, NEW to \in Launch!Steps,
         step' = [step EXCEPT ![c] = to],
         UNCHANGED << installers, servers >>,
         schema' \in BOOLEAN, schema => schema',
         row'[Root] \in { Free, Admin },
         row[Root] = Admin => row'[Root] = Admin,
         row'[Root] # row[Root] => step[c] = "inserted" /\ to # "inserted",
         to \in { "look", "insert", "inserted", "completed", "serving" } =>
            schema',
         to \in { "completed", "serving" } => row'[Root] = Admin,
         to = "inserted" => /\ row'[Root] = Free
                            /\ \A o \in Containers : step[o] # "inserted",
         \A q \in Requests : request'[q] # New => request[q] # New
  PROVE  LaunchInv'
  <1>1. /\ step \in [Containers -> Launch!Steps]
        /\ step' \in [Containers -> Launch!Steps]
        /\ step'[c] = to
        /\ \A o \in Containers \ {c} : step'[o] = step[o]
    BY DEF LaunchInv, DeploymentOK
  <1>2. DeploymentOK'
    BY <1>1 DEF LaunchInv, DeploymentOK
  <1>3. HasMigrated'
    BY <1>1 DEF LaunchInv, HasMigrated
  <1>4. HasInstalled'
    BY <1>1 DEF LaunchInv, HasInstalled
  <1>5. OneInserts'
    <2>1. Admin # Free
      BY AdminIsRow
    <2>2. ASSUME NEW o \in Containers, step'[o] = "inserted"
          PROVE  row'[Root] = Free
      BY <1>1, <2>2 DEF LaunchInv, OneInserts
    <2>3. ASSUME NEW o \in Containers, NEW i \in Containers,
                 step'[o] = "inserted", step'[i] = "inserted"
          PROVE  o = i
      BY <1>1, <2>3 DEF LaunchInv, OneInserts
    <2> QED
      BY <2>2, <2>3 DEF OneInserts
  <1>6. RootIsAdmin'
    BY DEF LaunchInv, RootIsAdmin
  <1> QED
    BY <1>2, <1>3, <1>4, <1>5, <1>6 DEF LaunchInv

(***************************************************************************)
(* The row of the bootstrap admin comes with CommitAdmin alone.            *)
(***************************************************************************)
LEMMA RunRow ==
  ASSUME ServiceInv, NEW c \in Containers, Run(c)
  PROVE  /\ UNCHANGED << history, request >>
         /\ \/ row' = row
            \/ row[Root] = Free /\ row' = [row EXCEPT ![Root] = Admin]
         /\ row'[Root] \in { Free, Admin }
         /\ row[Root] = Admin => row'[Root] = Admin
         /\ AdminRole' = AdminRole => row'[Root] = row[Root]
         /\ AdminRole' = "admin" => row'[Root] = Admin
  <1>1. /\ row' \in { row, [row EXCEPT ![Root] = Admin] }
        /\ UNCHANGED << history, request >>
        /\ RootIsAdmin /\ Root \in Names
        /\ row \in [Names -> Row \cup { Free }]
    BY DirectoryAssumption
       DEF Run, ServiceInv, LaunchInv, DirectoryInv, TypeOK, Names
  <1>2. Admin # Free /\ Admin.role = "admin"
    BY AdminIsRow DEF Admin, Given
  <1>3. row[Root] = Admin => [row EXCEPT ![Root] = Admin] = row
    BY <1>1
  <1>4. [row EXCEPT ![Root] = Admin][Root] = Admin
    BY <1>1
  <1>5. row[Root] \in { Free, Admin }
    BY <1>1 DEF RootIsAdmin
  <1>6. \/ row' = row
        \/ row[Root] = Free /\ row' = [row EXCEPT ![Root] = Admin]
    BY <1>1, <1>3, <1>5
  <1>7. row'[Root] \in { Free, Admin }
    BY <1>1, <1>4, <1>5
  <1> QED
    BY <1>1, <1>2, <1>4, <1>5, <1>6, <1>7 DEF AdminRole

LEMMA RunLaunches ==
  ASSUME ServiceInv, NEW c \in Containers, Run(c)
  PROVE  LaunchInv'
  <1>1. LaunchInv /\ Launch!Run(c)
    BY DEF ServiceInv, Run
  <1>2. /\ DeploymentOK /\ HasMigrated /\ HasInstalled /\ OneInserts
        /\ RootIsAdmin /\ schema \in BOOLEAN
    BY <1>1 DEF LaunchInv, DeploymentOK
  <1>3. /\ row'[Root] \in { Free, Admin } /\ UNCHANGED request
        /\ row[Root] = Admin => row'[Root] = Admin
        /\ AdminRole' = AdminRole => row'[Root] = row[Root]
        /\ AdminRole' = "admin" => row'[Root] = Admin
    BY RunRow
  <1>4. /\ AdminRole = "none" <=> row[Root] = Free
        /\ row[Root] \in { Free, Admin }
    BY <1>2, AdminSeen DEF RootIsAdmin
  <1>5. CASE Launch!Start(c)
    <2> DEFINE to == IF c \in installers THEN "version" ELSE "serving"
    <2>1. /\ step' = [step EXCEPT ![c] = to]
          /\ UNCHANGED << installers, servers, schema >>
          /\ AdminRole' = AdminRole
      BY <1>5 DEF Launch!Start, Launch!Go, Launch!deployment, AdminRole
    <2>2. c \notin installers => schema /\ row[Root] = Admin
      <3> SUFFICES ASSUME c \notin installers
                   PROVE  schema /\ row[Root] = Admin
        OBVIOUS
      <3>1. PICK i \in installers : TRUE
        BY <1>2 DEF DeploymentOK
      <3>2. i \in Containers /\ step[i] = "completed"
        BY <1>2, <1>5, <3>1
           DEF DeploymentOK, Launch!Start, Launch!MayStart
      <3> QED
        BY <1>2, <3>2 DEF HasMigrated, HasInstalled
    <2>3. to \in Launch!Steps
      BY DEF Launch!Steps
    <2> QED
      BY <1>1, <1>2, <1>3, <2>1, <2>2, <2>3, ContainerStep
  <1>6. CASE Launch!ReadVersion(c)
    <2> DEFINE to == IF schema THEN "look" ELSE "migrate"
    <2>1. /\ step' = [step EXCEPT ![c] = to]
          /\ UNCHANGED << installers, servers, schema >>
          /\ AdminRole' = AdminRole
      BY <1>6 DEF Launch!ReadVersion, Launch!Upgraded, Launch!Go,
                  Launch!deployment, AdminRole
    <2>2. to \in Launch!Steps
      BY DEF Launch!Steps
    <2> QED
      BY <1>1, <1>2, <1>3, <2>1, <2>2, ContainerStep
  <1>7. CASE Launch!Migrate(c)
    <2> DEFINE to == IF schema THEN "table_exists" ELSE "migrated"
    <2>1. /\ step' = [step EXCEPT ![c] = to]
          /\ UNCHANGED << installers, servers, schema >>
          /\ AdminRole' = AdminRole
      BY <1>7 DEF Launch!Migrate, Launch!Go, Launch!deployment, AdminRole
    <2>2. to \in Launch!Steps
      BY DEF Launch!Steps
    <2> QED
      BY <1>1, <1>2, <1>3, <2>1, <2>2, ContainerStep
  <1>8. CASE Launch!CommitSchema(c)
    <2>1. /\ step' = [step EXCEPT ![c] = "look"]
          /\ UNCHANGED << installers, servers >> /\ schema' = TRUE
          /\ AdminRole' = AdminRole
      BY <1>8 DEF Launch!CommitSchema, Launch!Upgraded, Launch!Go,
                  Launch!deployment, AdminRole
    <2>2. "look" \in Launch!Steps
      BY DEF Launch!Steps
    <2> QED
      BY <1>1, <1>2, <1>3, <2>1, <2>2, ContainerStep
  <1>9. CASE Launch!LookForAdmin(c)
    <2> DEFINE to == IF AdminRole # "none"
                     THEN IF c \in servers THEN "serving" ELSE "completed"
                     ELSE "insert"
    <2>1. /\ step' = [step EXCEPT ![c] = to] /\ step[c] = "look"
          /\ UNCHANGED << installers, servers, schema >>
          /\ AdminRole' = AdminRole
      BY <1>9 DEF Launch!LookForAdmin, Launch!Installed, Launch!Go,
                  Launch!deployment, AdminRole
    <2>2. to \in Launch!Steps
      BY DEF Launch!Steps
    <2>3. schema /\ (to \in { "completed", "serving" } => row[Root] = Admin)
      BY <1>2, <1>4, <2>1 DEF HasMigrated
    <2> QED
      BY <1>1, <1>2, <1>3, <2>1, <2>2, <2>3, ContainerStep
  <1>10. CASE Launch!InsertAdmin(c)
    <2> DEFINE to == IF AdminRole # "none" THEN "email_exists"
                     ELSE "inserted"
    <2>1. /\ step' = [step EXCEPT ![c] = to] /\ step[c] = "insert"
          /\ UNCHANGED << installers, servers, schema >>
          /\ AdminRole' = AdminRole
          /\ \A o \in Containers : step[o] # "inserted"
      BY <1>10 DEF Launch!InsertAdmin, Launch!Go, Launch!deployment,
                   AdminRole
    <2>2. to \in Launch!Steps
      BY DEF Launch!Steps
    <2>3. schema /\ (to = "inserted" => row[Root] = Free)
      BY <1>2, <1>4, <2>1 DEF HasMigrated
    <2> QED
      BY <1>1, <1>2, <1>3, <2>1, <2>2, <2>3, ContainerStep
  <1>11. CASE Launch!CommitAdmin(c)
    <2> DEFINE to == IF c \in servers THEN "serving" ELSE "completed"
    <2>1. /\ step' = [step EXCEPT ![c] = to] /\ step[c] = "inserted"
          /\ UNCHANGED << installers, servers, schema >>
          /\ AdminRole' = "admin"
      BY <1>11 DEF Launch!CommitAdmin, Launch!Installed, Launch!Go,
                   Launch!deployment, AdminRole
    <2>2. to \in Launch!Steps
      BY DEF Launch!Steps
    <2>3. schema
      BY <1>2, <2>1 DEF HasMigrated
    <2> QED
      BY <1>1, <1>2, <1>3, <2>1, <2>2, <2>3, ContainerStep
  <1> QED
    BY <1>1, <1>5, <1>6, <1>7, <1>8, <1>9, <1>10, <1>11 DEF Launch!Run

LEMMA RunKeeps ==
  ASSUME ServiceInv, NEW c \in Containers, Run(c)
  PROVE  ServiceInv'
  <1>1. DirectoryInv /\ RootIsAdmin
    BY DEF ServiceInv, LaunchInv
  <1>2. /\ UNCHANGED << history, request >>
        /\ \/ row' = row
           \/ row[Root] = Free /\ row' = [row EXCEPT ![Root] = Admin]
    BY RunRow
  <1>3. CASE row' = row
    <2>1. UNCHANGED tables /\ request' = request
      BY <1>2, <1>3 DEF tables
    <2>2. Lost({}) /\ {} \in SUBSET InFlight
      BY <1>1, <2>1 DEF Lost, DirectoryInv, TypeOK
    <2> QED
      BY <1>1, <2>1, <2>2, LostKeeps, RunLaunches DEF ServiceInv
  <1>4. CASE row[Root] = Free /\ row' = [row EXCEPT ![Root] = Admin]
    BY <1>1, <1>2, <1>4, BootstrapKeeps, RunLaunches DEF ServiceInv
  <1> QED
    BY <1>2, <1>3, <1>4

LEMMA CrashKeeps ==
  ASSUME ServiceInv, NEW c \in Containers, Crash(c)
  PROVE  ServiceInv'
  <1>1. DirectoryInv /\ LaunchInv /\ UNCHANGED tables
    BY DEF ServiceInv, Crash
  <1>2. PICK lost \in SUBSET InFlight : Lost(lost)
    BY DEF Crash
  <1>3. DirectoryInv'
    BY <1>1, <1>2, LostKeeps
  <1>4. /\ step' = [step EXCEPT ![c] = "dead"]
        /\ UNCHANGED << installers, servers, schema >>
        /\ row' = row
    BY <1>1 DEF Crash, Launch!Crash, Launch!Go, Launch!deployment, tables
  <1>5. \A q \in Requests : request'[q] # New => request[q] # New
    <2>1. TypeOK
      BY <1>1 DEF DirectoryInv
    <2>2. \A q \in lost : q \in Requests /\ request[q].step # "new"
      BY DEF InFlight
    <2>3. \A q \in Requests \ lost : request'[q] = request[q]
      BY <1>2 DEF Lost
    <2> QED
      BY <2>1, <2>2, <2>3, RequestType
  <1>6. "dead" \in Launch!Steps
    BY DEF Launch!Steps
  <1>7. schema \in BOOLEAN /\ row[Root] \in { Free, Admin }
    BY <1>1 DEF LaunchInv, DeploymentOK, RootIsAdmin
  <1>8. LaunchInv'
    BY <1>1, <1>4, <1>5, <1>6, <1>7, ContainerStep
  <1> QED
    BY <1>3, <1>8 DEF ServiceInv

LEMMA RestartKeeps ==
  ASSUME ServiceInv, NEW c \in Containers, Restart(c)
  PROVE  ServiceInv'
  <1>1. /\ DirectoryInv /\ LaunchInv /\ UNCHANGED << tables, request >>
    BY DEF ServiceInv, Restart
  <1>2. Lost({}) /\ {} \in SUBSET InFlight
    BY <1>1 DEF Lost, DirectoryInv, TypeOK
  <1>3. DirectoryInv'
    BY <1>1, <1>2, LostKeeps
  <1>4. /\ step' = [step EXCEPT ![c] = "created"]
        /\ UNCHANGED << installers, servers, schema >>
        /\ row' = row
    BY <1>1 DEF Restart, Launch!Restart, Launch!Go, Launch!deployment,
                tables
  <1>5. "created" \in Launch!Steps
    BY DEF Launch!Steps
  <1>6. schema \in BOOLEAN /\ row[Root] \in { Free, Admin }
    BY <1>1 DEF LaunchInv, DeploymentOK, RootIsAdmin
  <1>7. LaunchInv'
    BY <1>1, <1>4, <1>5, <1>6, ContainerStep
  <1> QED
    BY <1>3, <1>7 DEF ServiceInv

(***************************************************************************)
(* A request arrives where a container serves, so after a bootstrap; and   *)
(* none takes the name of the bootstrap admin, who has it.                 *)
(***************************************************************************)
LEMMA ServedAfterBootstrap ==
  ASSUME LaunchInv, Serving # {}
  PROVE  schema /\ row[Root] = Admin
  <1>1. PICK c \in servers : step[c] = "serving"
    BY DEF Serving
  <1> QED
    BY <1>1 DEF LaunchInv, DeploymentOK, HasMigrated, HasInstalled

LEMMA ActiveAfterBootstrap ==
  ASSUME ServiceInv, NEW q \in Requests, Handle(q)
  PROVE  /\ row[Root] = Admin
         /\ Commit(q) => Key(q) # Root
         /\ row' = row \/ Commit(q)
         /\ \A o \in Requests \ {q} : request'[o] = request[o]
  <1>1. /\ DirectoryInv /\ LaunchInv /\ RootIsAdmin /\ TypeOK
    BY DEF ServiceInv, LaunchInv, DirectoryInv
  <1>2. row[Root] = Admin
    <2>1. CASE Serving # {}
      BY <1>1, <2>1, ServedAfterBootstrap
    <2>2. CASE Serve(q) \/ Abort(q)
      <3>1. request[q].step # "new"
        BY <2>2 DEF Serve, Guard, LookUp, Insert, Commit, Refresh, Abort,
                    InFlight
      <3> QED
        BY <1>1, <3>1, RequestType DEF RootIsAdmin
    <2> QED
      BY <2>1, <2>2 DEF Handle
  <1>3. ASSUME Commit(q)
        PROVE  Key(q) # Root
    <2>1. row[Key(q)] = Free
      BY <1>1, <1>3, CommitRow
    <2> QED
      BY <1>2, <2>1, AdminIsRow
  <1>4. row' = row \/ Commit(q)
    BY DEF Handle, Arrive, Register, CreateUser, PostProject,
           PostEnvironment, Receive, Serve, Guard, LookUp, Insert, Refresh,
           Abort, Advance, Reply, tables
  <1>5. PICK new : request' = [request EXCEPT ![q] = new]
    <2>1. ASSUME NEW to, Go(q, to)
          PROVE  \E new : request' = [request EXCEPT ![q] = new]
      BY <2>1 DEF Go
    <2>2. ASSUME NEW status, Reply(q, status)
          PROVE  \E new : request' = [request EXCEPT ![q] = new]
      BY <2>2 DEF Reply
    <2>3. ASSUME NEW to, NEW actor, NEW name, NEW role,
                 Receive(q, to, actor, name, role)
          PROVE  \E new : request' = [request EXCEPT ![q] = new]
      BY <2>3 DEF Receive
    <2>4. CASE Arrive(q)
      BY <2>3, <2>4 DEF Arrive, Register, CreateUser, PostProject,
                        PostEnvironment
    <2>5. CASE Serve(q) \/ Abort(q)
      BY <2>1, <2>2, <2>5 DEF Serve, Guard, LookUp, Insert, Commit, Refresh,
                              Abort, Advance
    <2> QED
      BY <2>4, <2>5 DEF Handle
  <1>6. \A o \in Requests \ {q} : request'[o] = request[o]
    BY <1>1, <1>5 DEF TypeOK
  <1> QED
    BY <1>2, <1>3, <1>4, <1>6

LEMMA HandleKeeps ==
  ASSUME ServiceInv, NEW q \in Requests, Handle(q)
  PROVE  ServiceInv'
  <1>1. DirectoryInv /\ LaunchInv /\ RootIsAdmin
    BY DEF ServiceInv, LaunchInv
  <1>2. /\ row[Root] = Admin
        /\ Commit(q) => Key(q) # Root
        /\ row' = row \/ Commit(q)
        /\ \A o \in Requests \ {q} : request'[o] = request[o]
    BY ActiveAfterBootstrap
  <1>3. DirectoryInv'
    <2>1. CASE Arrive(q)
      BY <1>1, <2>1, ArriveKeeps
    <2>2. CASE Guard(q)
      BY <1>1, <2>2, GuardKeeps
    <2>3. CASE LookUp(q)
      BY <1>1, <2>3, LookUpKeeps
    <2>4. CASE Insert(q)
      BY <1>1, <2>4, InsertKeeps
    <2>5. CASE Commit(q)
      BY <1>1, <1>2, <2>5, CommitKeeps
    <2>6. CASE Refresh(q) \/ Abort(q)
      BY <1>1, <2>6, RefreshOrAbortKeeps
    <2> QED
      BY <2>1, <2>2, <2>3, <2>4, <2>5, <2>6 DEF Handle, Serve
  <1>4. row'[Root] = Admin
    <2>1. Root \in Names
      BY DirectoryAssumption DEF Names
    <2>2. CASE Commit(q)
      BY <1>1, <1>2, <2>1, <2>2, CommitRow
    <2> QED
      BY <1>2, <2>2
  <1>5. UNCHANGED << installers, servers, schema, step >>
    BY DEF Handle
  <1>6. LaunchInv'
    <2>1. DeploymentOK' /\ HasMigrated' /\ HasInstalled' /\ RootIsAdmin'
      BY <1>1, <1>4, <1>5
         DEF LaunchInv, DeploymentOK, HasMigrated, HasInstalled,
             RootIsAdmin
    <2>2. OneInserts'
      BY <1>1, <1>2, <1>5, AdminIsRow DEF LaunchInv, OneInserts
    <2> QED
      BY <2>1, <2>2 DEF LaunchInv
  <1> QED
    BY <1>3, <1>6 DEF ServiceInv

-----------------------------------------------------------------------------
(***************************************************************************)
(* The database before the service has ever run, or from an earlier one.   *)
(***************************************************************************)
LEMMA DatabaseAtFirst ==
  ASSUME DatabaseInit
  PROVE  /\ DirectoryInv
         /\ row[Root] \in { Free, Admin }
         /\ \A n \in Names : Holder(n) \in { Free, Root }
         /\ \A q \in Requests : request[q] = New
  <1>1. request = [ q \in Requests |-> New ]
    BY DEF DatabaseInit
  <1>2. \A q \in Requests : request[q] = New /\ request[q].step = "new"
    BY <1>1 DEF New
  <1>3. Root \in Names /\ Root \notin Slugs \cup Environments
    BY DirectoryAssumption DEF Names
  <1>4. \A q \in Requests : RequestInv(q)
    BY <1>2 DEF RequestInv, NameIsFree, HasItsRow, Unanswered, Allowed,
                AnswerIsTrue
  <1>5. OneClaims
    BY <1>2 DEF OneClaims
  <1>6. CASE row = [ n \in Names |-> Free ] /\ history = << >>
    <2>1. \A n \in Names : row[n] = Free
      BY <1>6
    <2>2. TypeOK
      BY <1>1, <1>6, <2>1 DEF TypeOK, Names
    <2>3. RowsAreOwn /\ AuthorityIsGranted
      BY <2>1 DEF RowsAreOwn, AuthorityIsGranted
    <2>4. HistoryExact
      <3>1. DOMAIN history = {} /\ ToSet(history) = {}
        BY <1>6 DEF ToSet
      <3>2. IsInjective(history)
        BY <3>1 DEF IsInjective
      <3> QED
        BY <2>1, <3>1, <3>2 DEF HistoryExact, Names
    <2> QED
      BY <1>2, <1>3, <1>4, <1>5, <2>1, <2>2, <2>3, <2>4
         DEF DirectoryInv, Holder
  <1>7. ASSUME NEW s \in Slugs, InUse(s)
        PROVE  /\ DirectoryInv
               /\ row[Root] \in { Free, Admin }
               /\ \A n \in Names : Holder(n) \in { Free, Root }
    <2> DEFINE first == Given(Root, "none")
    <2>1. /\ s \in Names /\ s # Root /\ s \notin Emails
          /\ s \notin Environments
      BY DirectoryAssumption DEF Names
    <2>2. /\ first \in Row /\ first # Free /\ first.by = Root
          /\ first.owner = Root
      <3>1. first = [ by |-> Root, owner |-> Root, role |-> "none" ]
        BY DEF Given
      <3>2. first \in Row
        BY <3>1, DirectoryAssumption DEF Row
      <3> QED
        BY <3>1, <3>2, DirectoryAssumption
    <2> HIDE DEF first
    <2>3. row = [ n \in Names |->
             CASE n = Root -> Admin [] n = s -> first [] OTHER -> Free ]
      BY <1>7 DEF InUse, first
    <2>4. /\ row[Root] = Admin /\ row[s] = first
          /\ \A n \in Names \ { Root, s } : row[n] = Free
          /\ row \in [Names -> Row \cup { Free }]
      <3>1. row[Root] = Admin
        BY <1>3, <2>3
      <3>2. row[s] = first
        BY <2>1, <2>3
      <3>3. \A n \in Names \ { Root, s } : row[n] = Free
        BY <2>3
      <3>4. \A n \in Names : row[n] \in Row \cup { Free }
        BY <2>2, <3>1, <3>2, <3>3, AdminIsRow
      <3>5. row \in [Names -> Row \cup { Free }]
        BY <2>3, <3>4
      <3> QED
        BY <3>1, <3>2, <3>3, <3>5
    <2>5. history = << s >> /\ history \in Seq(Slugs \cup Environments)
          /\ DOMAIN history = { 1 } /\ history[1] = s
      BY <1>7 DEF InUse
    <2>6. TypeOK
      BY <1>1, <2>1, <2>4, <2>5, DirectoryAssumption DEF TypeOK, Names
    <2>7. \A n \in Names : row[n] # Free => row[n].by = Root
      BY <2>2, <2>4, AdminIsRow
    <2>8. RowsAreOwn
      BY <2>7, DirectoryAssumption DEF RowsAreOwn
    <2>9. HistoryExact
      <3>1. ToSet(history) = { s }
        BY <2>5 DEF ToSet
      <3>2. { n \in Slugs \cup Environments : row[n] # Free } = { s }
        BY <1>3, <2>1, <2>2, <2>4 DEF Names
      <3>3. IsInjective(history)
        BY <2>5 DEF IsInjective
      <3> QED
        BY <2>1, <2>5, <3>1, <3>2, <3>3 DEF HistoryExact
    <2>10. AuthorityIsGranted
      BY <2>1, <2>4 DEF AuthorityIsGranted
    <2>11. \A n \in Names : Holder(n) \in { Free, Root }
      BY <2>7 DEF Holder
    <2> QED
      BY <1>4, <1>5, <2>4, <2>6, <2>8, <2>9, <2>10, <2>11
         DEF DirectoryInv
  <1> QED
    BY <1>2, <1>6, <1>7 DEF DatabaseInit

LEMMA LaunchAtFirst ==
  ASSUME Init
  PROVE  LaunchInv
  <1>1. /\ \E d \in Deployments : installers = d[1] /\ servers = d[2]
        /\ schema \in BOOLEAN
        /\ AdminRole = (IF schema THEN "admin" ELSE "none")
        /\ step = [ c \in Containers |-> "created" ]
    BY DEF Init, Launch!Init, AdminRole
  <1>2. /\ row[Root] \in { Free, Admin }
        /\ \A q \in Requests : request[q] = New
    BY DatabaseAtFirst DEF Init
  <1>3. DeploymentOK
    BY <1>1, ServiceAssumption DEF DeploymentOK, Launch!Steps
  <1>4. HasMigrated /\ HasInstalled /\ OneInserts
    BY <1>1 DEF HasMigrated, HasInstalled, OneInserts
  <1> QED
    BY <1>2, <1>3, <1>4 DEF LaunchInv, RootIsAdmin

(***************************************************************************)
(* The invariant of the service: what the directory promises, and that no  *)
(* request is served before the account of the bootstrap is there.         *)
(***************************************************************************)
THEOREM ServiceInvariant == Spec => []ServiceInv
  <1>1. Init => ServiceInv
    BY DatabaseAtFirst, LaunchAtFirst DEF Init, ServiceInv
  <1>2. ServiceInv /\ [Next]_vars => ServiceInv'
    <2> SUFFICES ASSUME ServiceInv, [Next]_vars
                 PROVE  ServiceInv'
      OBVIOUS
    <2>1. ASSUME NEW c \in Containers, Run(c) \/ Crash(c) \/ Restart(c)
          PROVE  ServiceInv'
      BY <2>1, RunKeeps, CrashKeeps, RestartKeeps
    <2>2. ASSUME NEW q \in Requests, Handle(q)
          PROVE  ServiceInv'
      BY <2>2, HandleKeeps
    <2>3. CASE UNCHANGED vars
      <3>1. DirectoryInv /\ LaunchInv /\ UNCHANGED << tables, request >>
            /\ UNCHANGED << installers, servers, schema, step >>
        BY <2>3 DEF ServiceInv, vars
      <3>2. Lost({}) /\ {} \in SUBSET InFlight
        BY <3>1 DEF Lost, DirectoryInv, TypeOK
      <3>3. LaunchInv'
        BY <3>1 DEF LaunchInv, DeploymentOK, HasMigrated, HasInstalled,
                    OneInserts, RootIsAdmin, tables
      <3> QED
        BY <3>1, <3>2, <3>3, LostKeeps DEF ServiceInv
    <2> QED
      BY <2>1, <2>2, <2>3 DEF Next
  <1> QED
    BY <1>1, <1>2, PTL DEF Spec

-----------------------------------------------------------------------------
(***************************************************************************)
(* Tables and requests keep their types, and no account is stored under an *)
(* address with capitals, whatever the requests and the containers do.     *)
(* (get_by_email and create of user_repository, register, bootstrap_admin.)*)
(***************************************************************************)
THEOREM TypeCorrect == Spec => []TypeOK
  <1>1. ServiceInv => TypeOK
    BY DEF ServiceInv, DirectoryInv
  <1> QED
    BY <1>1, ServiceInvariant, PTL

(***************************************************************************)
(* The answers agree with the database for any number of concurrent        *)
(* requests: one 201 for a name, to the request that has the row, and 409  *)
(* or 500 only when another has it.                                        *)
(***************************************************************************)
THEOREM AnswersTrue == Spec => []AnswersAreTrue
  <1>1. ServiceInv => AnswersAreTrue
    BY DEF ServiceInv, DirectoryInv, RequestInv, AnswerIsTrue,
           AnswersAreTrue, Done, OwnRow
  <1> QED
    BY <1>1, ServiceInvariant, PTL

(***************************************************************************)
(* Each project and each environment has one event of creation, that of    *)
(* the project before those of its environments.                           *)
(***************************************************************************)
THEOREM HistoryIsExact == Spec => []HistoryExact
  <1>1. ServiceInv => HistoryExact
    BY DEF ServiceInv, DirectoryInv
  <1> QED
    BY <1>1, ServiceInvariant, PTL

(***************************************************************************)
(* Whoever is more than a developer has the role from an admin, and every  *)
(* environment was made by the owner of its project or an admin.           *)
(***************************************************************************)
THEOREM AuthorityGranted == Spec => []AuthorityIsGranted
  <1>1. ServiceInv => AuthorityIsGranted
    BY DEF ServiceInv, DirectoryInv
  <1> QED
    BY <1>1, ServiceInvariant, PTL

(***************************************************************************)
(* A container that serves has the tables and the bootstrap admin, however *)
(* many start, crash and start again, in either deployment.                *)
(***************************************************************************)
THEOREM ReadyToServe == Spec => []ServingIsReady
  <1>1. ServiceInv => ServingIsReady
    BY ServedAfterBootstrap DEF ServiceInv, ServingIsReady
  <1> QED
    BY <1>1, ServiceInvariant, PTL

-----------------------------------------------------------------------------
(***************************************************************************)
(* The refinement of UniqueNames.  A claim is won at the commit and lost   *)
(* at the answer 409 or 500; no other statement of a request is seen.      *)
(***************************************************************************)
Seen ==
    << [ n \in Names |-> Holder(n) ], [ q \in Requests |-> Verdict(q) ] >>

SameVerdict(q) == Verdict(q)' = Verdict(q)

LEMMA NothingSeen ==
  ASSUME row' = row, \A q \in Requests : SameVerdict(q)
  PROVE  UNCHANGED Seen
  <1>1. \A n \in Names : Holder(n)' = Holder(n)
    BY DEF Holder
  <1> QED
    BY <1>1 DEF Seen, SameVerdict

(***************************************************************************)
(* The verdict of a request that a step leaves alone, and of one whose     *)
(* step is not an answer of 409 or 500.                                    *)
(***************************************************************************)
LEMMA VerdictOfOther ==
  ASSUME NEW q \in Requests, request'[q] = request[q],
         Holder(Key(q))' = q <=> Holder(Key(q)) = q
  PROVE  SameVerdict(q)
  BY DEF SameVerdict, Verdict

LEMMA VerdictOfOwn ==
  ASSUME TypeOK, NEW q \in Requests, row' = row, SameRequest(q),
         request[q].step # "new", request'[q].step # "new",
         request'[q].status \in { 409, 500 } <=>
            request[q].status \in { 409, 500 }
  PROVE  SameVerdict(q)
  <1>1. request[q] # New /\ request'[q] # New
    BY DEF New
  <1>2. Holder(Key(q))' = Holder(Key(q))
    BY SameKey DEF Holder
  <1> QED
    BY <1>1, <1>2 DEF SameVerdict, Verdict

LEMMA OthersSeen ==
  ASSUME NEW q \in Requests, row' = row,
         \A o \in Requests \ {q} : request'[o] = request[o]
  PROVE  \A o \in Requests \ {q} : SameVerdict(o)
  <1> SUFFICES ASSUME NEW o \in Requests \ {q}
               PROVE  SameVerdict(o)
    OBVIOUS
  <1>1. Holder(Key(o))' = Holder(Key(o))
    BY SameKey DEF SameRequest, Holder
  <1> QED
    BY <1>1, VerdictOfOther

LEMMA ArrivalUnseen ==
  ASSUME DirectoryInv, NEW q \in Requests, Arrive(q)
  PROVE  UNCHANGED Seen
  <1>1. PICK name, to, actor, role :
             name \in Names /\ Receive(q, to, actor, name, role)
    <2>1. Emails \subseteq Names /\ Slugs \subseteq Names
          /\ Environments \subseteq Names
      BY DEF Names
    <2> QED
      BY <2>1 DEF Arrive, Register, CreateUser, PostProject,
                  PostEnvironment
  <1> DEFINE new == [ step |-> to, actor |-> actor, name |-> name,
                      role |-> role, status |-> 0 ]
  <1>2. /\ request' = [request EXCEPT ![q] = new] /\ row' = row
        /\ request[q].step = "new" /\ TypeOK
    BY <1>1 DEF Receive, tables, DirectoryInv
  <1>3. new.name = name /\ new.status \notin { 409, 500 }
    OBVIOUS
  <1> HIDE DEF new
  <1>4. /\ request'[q] = new /\ request[q] = New
        /\ \A o \in Requests \ {q} : request'[o] = request[o]
    BY <1>2, RequestType DEF TypeOK
  <1>5. Verdict(q) = "open"
    BY <1>4 DEF Verdict
  <1>6. Verdict(q)' = "open"
    <2>1. CASE request'[q] = New
      BY <2>1 DEF Verdict
    <2>2. CASE request'[q] # New
      <3>1. Holder(Key(q))' # q
        <4>1. \A n : Holder(n)' = Holder(n)
          BY <1>2 DEF Holder
        <4>2. \A n \in Names : Holder(n) # q
          BY <1>2, NoRowYet
        <4>3. Key(q)' \in Names
          BY <1>1, <1>3, <1>4, DirectoryAssumption DEF Key, Names
        <4> QED
          BY <4>1, <4>2, <4>3
      <3> QED
        BY <1>3, <1>4, <2>2, <3>1 DEF Verdict
    <2> QED
      BY <2>1, <2>2
  <1> QED
    BY <1>2, <1>4, <1>5, <1>6, OthersSeen, NothingSeen DEF SameVerdict

LEMMA AdvanceUnseen ==
  ASSUME DirectoryInv, NEW q \in Requests, request[q].step # "new",
         NEW to \in { "look", "insert", "commit" }, Advance(q, to)
  PROVE  UNCHANGED Seen
  <1>1. TypeOK /\ Go(q, to) /\ row' = row
    BY DEF DirectoryInv, Advance, tables
  <1>2. /\ \A o \in Requests \ {q} : request'[o] = request[o]
        /\ SameRequest(q)
        /\ request'[q].step # "new"
        /\ request'[q].status = request[q].status
    BY <1>1, GoRequest
  <1> QED
    BY <1>1, <1>2, VerdictOfOwn, OthersSeen, NothingSeen

(***************************************************************************)
(* One verdict is given, by an answer or a commit.                         *)
(***************************************************************************)
LEMMA VerdictGiven ==
  ASSUME NEW q \in Requests, NEW v, Verdict(q)' = v,
         \A o \in Requests \ {q} : Verdict(o)' = Verdict(o)
  PROVE  [ o \in Requests |-> Verdict(o) ]' =
            [[ o \in Requests |-> Verdict(o) ] EXCEPT ![q] = v]
  OBVIOUS

LEMMA ReplySeen ==
  ASSUME DirectoryInv, NEW q \in Requests, q \in InFlight,
         NEW status \in { 0, 201, 403, 404, 409, 500 }, Reply(q, status),
         status \in { 409, 500 } =>
            /\ request[q].step \in { "look", "insert" }
            /\ row[Key(q)] # Free
  PROVE  Claims!Next \/ UNCHANGED Seen
  <1>0. PICK k : k = Key(q)
    OBVIOUS
  <1>1. /\ TypeOK /\ q \in Requests
        /\ request[q].step \notin { "new", "done" }
        /\ request[q].status = 0
    BY DEF DirectoryInv, RequestInv, Unanswered, InFlight
  <1>2. /\ \A o \in Requests \ {q} : request'[o] = request[o]
        /\ SameRequest(q)
        /\ request'[q].step = "done"
        /\ request'[q].status = status
        /\ row' = row
    BY <1>1, ReplyRequest DEF tables
  <1>3. CASE status \notin { 409, 500 }
    BY <1>1, <1>2, <1>3, VerdictOfOwn, OthersSeen, NothingSeen
  <1>4. CASE status \in { 409, 500 }
    <2>1. Holder(k) \notin { Free, q } /\ k \in Names
      BY <1>0, <1>1, <1>4, TakenByOther, KeyType
    <2>2. Verdict(q) = "open"
      BY <1>0, <1>1, <2>1 DEF Verdict
    <2>3. Verdict(q)' = "lost"
      <3>1. Key(q)' = k /\ Holder(k)' = Holder(k)
        BY <1>0, <1>1, <1>2, SameKey DEF Holder
      <3>2. request'[q] # New
        BY <1>2 DEF New
      <3> QED
        BY <1>2, <1>4, <2>1, <3>1, <3>2 DEF Verdict
    <2>4. \A o \in Requests \ {q} : Verdict(o)' = Verdict(o)
      BY <1>1, <1>2, OthersSeen DEF SameVerdict
    <2>5. [ n \in Names |-> Holder(n) ]' = [ n \in Names |-> Holder(n) ]
      BY <1>2 DEF Holder
    <2>6. [ o \in Requests |-> Verdict(o) ]' =
             [[ o \in Requests |-> Verdict(o) ] EXCEPT ![q] = "lost"]
      BY <2>3, <2>4, VerdictGiven
    <2>7. Claims!Lose(q, k)
      BY <1>1, <2>1, <2>2, <2>5, <2>6 DEF Claims!Lose
    <2> QED
      BY <1>1, <2>1, <2>7 DEF Claims!Next
  <1> QED
    BY <1>3, <1>4

LEMMA CommitWins ==
  ASSUME DirectoryInv, NEW q \in Requests, Commit(q)
  PROVE  Claims!Next
  <1>0. PICK k : k = Key(q)
    OBVIOUS
  <1>1. /\ TypeOK /\ Go(q, "refresh") /\ request[q].status = 0
        /\ request[q].step = "commit"
    BY DEF DirectoryInv, RequestInv, Unanswered, Commit
  <1>2. /\ k \in Names /\ row[k] = Free
        /\ row'[k] = OwnRow(q) /\ OwnRow(q) # Free
        /\ \A n \in Names \ {k} : row'[n] = row[n]
    BY <1>0, CommitRow
  <1>3. /\ \A o \in Requests \ {q} : request'[o] = request[o]
        /\ SameRequest(q)
        /\ request'[q].step = "refresh"
    BY <1>1, GoRequest
  <1>4. /\ Holder(k) = Free /\ Holder(k)' = q
        /\ \A n \in Names \ {k} : Holder(n)' = Holder(n)
        /\ q # Free
    BY <1>2, DirectoryAssumption DEF Holder, OwnRow
  <1>5. Verdict(q) = "open"
    BY <1>0, <1>1, <1>4 DEF Verdict
  <1>6. Verdict(q)' = "won"
    <2>1. Key(q)' = k
      BY <1>0, <1>3, SameKey
    <2>2. request'[q] # New
      BY <1>3 DEF New
    <2> QED
      BY <1>4, <2>1, <2>2 DEF Verdict
  <1>7. ASSUME NEW o \in Requests \ {q}
        PROVE  Verdict(o)' = Verdict(o)
    <2>1. CASE request[o] = New
      BY <1>3, <1>7, <2>1 DEF Verdict
    <2>2. CASE request[o] # New
      <3>0. PICK i : i = Key(o)
        OBVIOUS
      <3>1. i \in Names /\ Key(o)' = i
        BY <1>1, <1>3, <2>2, <3>0, RequestType, KeyType, SameKey
           DEF SameRequest
      <3>2. Holder(i)' = o <=> Holder(i) = o
        BY <1>4, <3>1, DirectoryAssumption
      <3> QED
        BY <1>3, <3>0, <3>1, <3>2, VerdictOfOther DEF SameVerdict
    <2> QED
      BY <2>1, <2>2
  <1>8. [ n \in Names |-> Holder(n) ]' =
           [[ n \in Names |-> Holder(n) ] EXCEPT ![k] = q]
    BY <1>2, <1>4
  <1>9. [ o \in Requests |-> Verdict(o) ]' =
           [[ o \in Requests |-> Verdict(o) ] EXCEPT ![q] = "won"]
    BY <1>6, <1>7, VerdictGiven
  <1>10. Claims!Win(q, k)
    BY <1>2, <1>4, <1>5, <1>8, <1>9 DEF Claims!Win
  <1> QED
    BY <1>2, <1>10 DEF Claims!Next

LEMMA HandleIsClaim ==
  ASSUME DirectoryInv, NEW q \in Requests, Handle(q)
  PROVE  Claims!Next \/ UNCHANGED Seen
  <1>1. CASE Arrive(q)
    BY <1>1, ArrivalUnseen
  <1>2. CASE Guard(q)
    <2>1. q \in InFlight /\ request[q].step = "guard"
      BY <1>2 DEF Guard, InFlight
    <2>2. Advance(q, "look") \/ Reply(q, 403) \/ Reply(q, 404)
      BY <1>2 DEF Guard
    <2> QED
      BY <2>1, <2>2, AdvanceUnseen, ReplySeen
  <1>3. CASE LookUp(q)
    <2>1. q \in InFlight /\ request[q].step = "look"
      BY <1>3 DEF LookUp, InFlight
    <2>2. \/ Advance(q, "insert")
          \/ Reply(q, 409) /\ row[Key(q)] # Free
      BY <1>3 DEF LookUp, Taken
    <2> QED
      BY <2>1, <2>2, AdvanceUnseen, ReplySeen
  <1>4. CASE Insert(q)
    <2>1. q \in InFlight /\ request[q].step = "insert"
      BY <1>4 DEF Insert, InFlight
    <2>2. \/ Advance(q, "commit")
          \/ Reply(q, 500) /\ row[Key(q)] # Free
      BY <1>4 DEF Insert, Taken
    <2> QED
      BY <2>1, <2>2, AdvanceUnseen, ReplySeen
  <1>5. CASE Commit(q)
    BY <1>5, CommitWins
  <1>6. CASE Refresh(q)
    <2>1. q \in InFlight /\ Reply(q, 201)
      BY <1>6 DEF Refresh, InFlight
    <2> QED
      BY <2>1, ReplySeen
  <1>7. CASE Abort(q)
    BY <1>7, ReplySeen DEF Abort
  <1> QED
    BY <1>1, <1>2, <1>3, <1>4, <1>5, <1>6, <1>7 DEF Handle, Serve

LEMMA CrashUnseen ==
  ASSUME DirectoryInv, NEW lost \in SUBSET InFlight, Lost(lost),
         UNCHANGED tables
  PROVE  UNCHANGED Seen
  <1>1. TypeOK /\ row' = row
    BY DEF DirectoryInv, tables
  <1>2. ASSUME NEW q \in lost
        PROVE  SameVerdict(q)
    <2> DEFINE old == request[q]
               ended == [old EXCEPT !.step = "done"]
    <2>1. /\ q \in Requests /\ request[q].step # "new" /\ old \in Request
          /\ request'[q] = ended
      BY <1>1, RequestType DEF Lost, InFlight
    <2> HIDE DEF old
    <2>2. /\ ended.step = "done" /\ ended.status = old.status
          /\ ended.name = old.name /\ ended.actor = old.actor
          /\ ended.role = old.role
      BY <2>1 DEF Request
    <2> HIDE DEF ended
    <2> QED
      BY <1>1, <2>1, <2>2, VerdictOfOwn DEF SameRequest, old
  <1>3. ASSUME NEW q \in Requests \ lost
        PROVE  SameVerdict(q)
    <2>1. request'[q] = request[q]
      BY DEF Lost
    <2>2. Holder(Key(q))' = Holder(Key(q))
      BY <1>1, <2>1, SameKey DEF SameRequest, Holder
    <2> QED
      BY <2>1, <2>2, VerdictOfOther
  <1> QED
    BY <1>1, <1>2, <1>3, NothingSeen

LEMMA ContainerInstalls ==
  ASSUME ServiceInv, NEW c \in Containers, Run(c)
  PROVE  Claims!Next \/ UNCHANGED Seen
  <1>1. /\ DirectoryInv /\ TypeOK /\ RootIsAdmin /\ Root \in Names
    BY DirectoryAssumption
       DEF ServiceInv, LaunchInv, DirectoryInv, Names
  <1>2. /\ UNCHANGED << history, request >>
        /\ \/ row' = row
           \/ row[Root] = Free /\ row' = [row EXCEPT ![Root] = Admin]
    BY RunRow
  <1>3. CASE row' = row
    BY <1>2, <1>3 DEF Seen, Holder, Verdict, Key
  <1>4. CASE row[Root] = Free /\ row' = [row EXCEPT ![Root] = Admin]
    <2>1. \A q \in Requests : request[q] = New
      BY <1>1, <1>4, AdminIsRow DEF RootIsAdmin
    <2>2. /\ row'[Root] = Admin
          /\ \A n \in Names \ { Root } : row'[n] = row[n]
      BY <1>1, <1>4 DEF TypeOK
    <2>3. /\ Holder(Root) = Free /\ Holder(Root)' = Root
          /\ \A n \in Names \ { Root } : Holder(n)' = Holder(n)
      BY <1>4, <2>2, AdminIsRow DEF Holder
    <2>4. [ n \in Names |-> Holder(n) ]' =
             [[ n \in Names |-> Holder(n) ] EXCEPT ![Root] = Root]
      BY <1>1, <2>3
    <2>5. [ q \in Requests |-> Verdict(q) ]' =
             [ q \in Requests |-> Verdict(q) ]
      BY <1>2, <2>1 DEF Verdict
    <2>6. Claims!Install(Root)
      BY <1>1, <2>3, <2>4, <2>5 DEF Claims!Install
    <2> QED
      BY <1>1, <2>6 DEF Claims!Next
  <1> QED
    BY <1>2, <1>3, <1>4

(***************************************************************************)
(* The look-up, the insert that waits and the commit are as one claim of a *)
(* unique name, and the bootstrap is one installation, while containers    *)
(* die with any of their requests under way.                               *)
(***************************************************************************)
THEOREM ClaimsRefinement == Spec => ImplementsClaims
  <1>1. Init => Claims!Init
    <2> SUFFICES ASSUME Init
                 PROVE  Claims!Init
      OBVIOUS
    <2>1. /\ \A n \in Names : Holder(n) \in { Free, Root }
          /\ \A q \in Requests : Verdict(q) = "open"
      BY DatabaseAtFirst DEF Init, Verdict
    <2> QED
      BY <2>1 DEF Claims!Init
  <1>2. ServiceInv /\ [Next]_vars => [Claims!Next]_Seen
    <2> SUFFICES ASSUME ServiceInv, [Next]_vars
                 PROVE  Claims!Next \/ UNCHANGED Seen
      OBVIOUS
    <2>1. DirectoryInv
      BY DEF ServiceInv
    <2>2. ASSUME NEW c \in Containers, Run(c)
          PROVE  Claims!Next \/ UNCHANGED Seen
      BY <2>2, ContainerInstalls
    <2>3. ASSUME NEW c \in Containers, Crash(c)
          PROVE  UNCHANGED Seen
      BY <2>1, <2>3, CrashUnseen DEF Crash
    <2>4. ASSUME NEW c \in Containers, Restart(c)
          PROVE  UNCHANGED Seen
      BY <2>4 DEF Restart, tables, Seen, Holder, Verdict, Key
    <2>5. ASSUME NEW q \in Requests, Handle(q)
          PROVE  Claims!Next \/ UNCHANGED Seen
      BY <2>1, <2>5, HandleIsClaim
    <2>6. CASE UNCHANGED vars
      BY <2>6 DEF vars, tables, Seen, Holder, Verdict, Key
    <2> QED
      BY <2>2, <2>3, <2>4, <2>5, <2>6 DEF Next
  <1>3. ServiceInv /\ [Next]_vars =>
          [Claims!Next]_<< [ n \in Names |-> Holder(n) ],
                           [ q \in Requests |-> Verdict(q) ] >>
    BY <1>2 DEF Seen
  <1> QED
    BY <1>1, <1>3, ServiceInvariant, PTL
       DEF Spec, ImplementsClaims, Claims!Spec
=============================================================================
