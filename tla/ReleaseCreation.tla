-------------------------- MODULE ReleaseCreation --------------------------
(***************************************************************************)
(* POST /releases in one project: create_release looks for a release with  *)
(* the Idempotency-Key, checks the project and the environment, looks for  *)
(* a release of the same version, and inserts.  Requests run concurrently  *)
(* and each query sees what is committed when it runs (READ COMMITTED); an *)
(* insert enters the indexes of the two unique constraints one after the   *)
(* other, waits in each for an uncommitted entry that is equal to its own, *)
(* and holds those it has made while it waits.  What the queries have      *)
(* missed the constraints stop: IntegrityError, which no handler of        *)
(* app/main.py turns into an answer other than 500.                        *)
(***************************************************************************)
EXTENDS Naturals, Sequences

CONSTANTS
    Users,          \* the users that send requests
    Managers,       \* those who own the project or are admins
    Keys,           \* the Idempotency-Keys that are not empty
    EmptyKey,       \* the header with an empty value: falsy, but not NULL
    NoKey,          \* no header: NULL
    Targets,        \* (environment, version) pairs
    KnownTargets,   \* those whose environment belongs to the project
    Asked,          \* who asks for what: pairs of a user and a target
    Requests        \* the requests the API receives, each of them once

ASSUME CreationAssumption ==
    /\ Managers \subseteq Users
    /\ KnownTargets \subseteq Targets
    /\ Asked \subseteq Users \X Targets
    /\ EmptyKey \notin Keys
    /\ NoKey \notin Keys \cup { EmptyKey }

VARIABLES
    table,          \* the committed rows of table releases, in commit order;
                    \* the id of a release is its place
    events,         \* the ids of the releases whose creation is in
                    \* audit_events and outbox_events
    request         \* what each request asks, how far it is, its answer

database == << table, events >>

vars == << table, events, request >>

-----------------------------------------------------------------------------

Headers == Keys \cup { EmptyKey, NoKey }

ReleaseRow == [ key : Headers, target : Targets, created_by : Users ]

Ids == DOMAIN table

(***************************************************************************)
(* The release committed with key k, 0 when there is none.                 *)
(***************************************************************************)
WithKey(k) ==
    IF \E i \in Ids : table[i].key = k
    THEN CHOOSE i \in Ids : table[i].key = k
    ELSE 0

(***************************************************************************)
(* step is the statement the request is about to run.  original, which the *)
(* program does not keep, is the release that had the key when the request *)
(* arrived, and rows, which it does not keep either, the number of rows    *)
(* then.  holds are the unique indexes that have an uncommitted entry of   *)
(* it.  A request that is done without an answer has status 0.             *)
(***************************************************************************)
Indexes == { "version", "key" }

Request ==
    [ step : { "key", "project", "version", "insert", "commit", "done" },
      user : Users, key : Headers, target : Targets, original : Nat,
      rows : Nat, holds : SUBSET Indexes,
      status : { 0, 200, 201, 403, 404, 409, 500 }, release : Nat ]

New == [ step |-> "new" ]

Go(q, step) ==
    /\ request' = [request EXCEPT ![q].step = step]
    /\ UNCHANGED database

(***************************************************************************)
(* However the handler ends, get_session closes the session, and what it   *)
(* has not committed is rolled back.                                       *)
(***************************************************************************)
Reply(q, status, release) ==
    request' = [request EXCEPT ![q] =
        [request[q] EXCEPT !.step = "done", !.holds = {},
                           !.status = status, !.release = release]]

RefuseRecorded(q, status) ==       \* fault: the event committed on its own
    /\ Reply(q, status, 0)
    /\ events' = Append(events, Len(table) + 1)
    /\ UNCHANGED table

RefuseUnclosed(q, status) ==       \* fault: the session is left open
    /\ request' = [request EXCEPT ![q] =
          [request[q] EXCEPT !.step = "done", !.status = status]]
    /\ UNCHANGED database

Refuse(q, status) == Reply(q, status, 0) /\ UNCHANGED database

-----------------------------------------------------------------------------

Receive(q, u, k, t) ==
    /\ request[q].step = "new"
    /\ request' = [request EXCEPT ![q] =
          [ step |-> "key", user |-> u, key |-> k, target |-> t,
            original |-> WithKey(k), rows |-> Len(table), holds |-> {},
            status |-> 0, release |-> 0 ]]
    /\ UNCHANGED database

(***************************************************************************)
(* "if idempotency_key": an empty one is not looked up.  A release that is *)
(* found is the answer, whoever asks and for whatever version.             *)
(***************************************************************************)
FoundForVersion(q) ==              \* fault: replays only the same version
    IF \E i \in Ids : /\ table[i].key = request[q].key
                      /\ table[i].target = request[q].target
    THEN WithKey(request[q].key) ELSE 0

Found(q) == WithKey(request[q].key)

FindByKey(q) ==
    /\ request[q].step = "key"
    /\ IF request[q].key \in Keys /\ Found(q) # 0
       THEN Reply(q, 200, Found(q)) /\ UNCHANGED database
       ELSE Go(q, "project")

CheckProject(q) ==
    /\ request[q].step = "project"
    /\ IF request[q].user \notin Managers THEN Refuse(q, 403)
       ELSE IF request[q].target \notin KnownTargets THEN Refuse(q, 404)
       ELSE Go(q, "version")

NoFindDuplicate(q) ==              \* fault: left to the constraint
    request[q].step = "version" /\ Go(q, "insert")

FindDuplicate(q) ==
    /\ request[q].step = "version"
    /\ IF \E i \in Ids : table[i].target = request[q].target
       THEN Refuse(q, 409)
       ELSE Go(q, "insert")

(***************************************************************************)
(* The unique constraints: (project, environment, version), and (project,  *)
(* idempotency_key), where NULLs are distinct.                             *)
(***************************************************************************)
OnlyVersionUnique(u, a, b) ==      \* fault: no constraint on the key
    u = "version" /\ a.target = b.target

OnlyKeyUnique(u, a, b) ==          \* fault: no constraint on the version
    u = "key" /\ a.key = b.key /\ a.key # NoKey

Clash(u, a, b) ==
    \/ u = "version" /\ a.target = b.target
    \/ u = "key" /\ a.key = b.key /\ a.key # NoKey

Conflict(a, b) == \E u \in Indexes : Clash(u, a, b)

(***************************************************************************)
(* The index that the insert of q enters next.  The order is that in which *)
(* the migration has made them, for every insert.                          *)
(***************************************************************************)
AnyIndex(q, u) ==                  \* fault: key and version inserted by two
    u \notin request[q].holds      \* statements that are gathered

NextIndex(q, u) ==
    u = IF "version" \in request[q].holds THEN "key" ELSE "version"

(***************************************************************************)
(* o has an entry in index u, and has not ended, that is equal to that of  *)
(* q.  It may be waiting in the other index.                               *)
(***************************************************************************)
Blocks(o, u, q) ==
    /\ o # q /\ request[o] # New
    /\ u \in request[o].holds
    /\ Clash(u, request[q], request[o])

WaitsFor(q, o) ==
    /\ request[q].step = "insert"
    /\ \E u \in Indexes : NextIndex(q, u) /\ Blocks(o, u, q)

Insert(q, u) ==
    /\ request[q].step = "insert"
    /\ NextIndex(q, u)
    /\ \A o \in Requests : ~Blocks(o, u, q)
    /\ IF \E i \in Ids : Clash(u, request[q], table[i])
       THEN Refuse(q, 500)
       ELSE /\ request' = [request EXCEPT ![q] =
                  [request[q] EXCEPT
                      !.holds = @ \cup {u},
                      !.step = IF request[q].holds \cup {u} = Indexes
                               THEN "commit" ELSE "insert"]]
            /\ UNCHANGED database

(***************************************************************************)
(* record_domain_event and the commit of _commit_and_reload.               *)
(***************************************************************************)
Commit(q) ==
    /\ request[q].step = "commit"
    /\ table' = Append(table, [ key |-> request[q].key,
                                target |-> request[q].target,
                                created_by |-> request[q].user ])
    /\ events' = Append(events, Len(table'))
    /\ Reply(q, 201, Len(table'))

(***************************************************************************)
(* The client goes away or the process dies before the commit; an answer   *)
(* that is lost after it is an answer here.                                *)
(***************************************************************************)
Abort(q) ==
    /\ request[q].step \notin { "new", "done" }
    /\ Reply(q, 0, 0)
    /\ UNCHANGED database

-----------------------------------------------------------------------------

Init ==
    /\ table = << >>
    /\ events = << >>
    /\ request = [ q \in Requests |-> New ]

Serve(q) ==
    \/ FindByKey(q)
    \/ CheckProject(q)
    \/ FindDuplicate(q)
    \/ \E u \in Indexes : Insert(q, u)
    \/ Commit(q)

Next ==
    \E q \in Requests :
        \/ \E a \in Asked, k \in Headers : Receive(q, a[1], k, a[2])
        \/ Serve(q)
        \/ Abort(q)

Spec == Init /\ [][Next]_vars

(***************************************************************************)
(* A request that is served runs to its end.                               *)
(***************************************************************************)
FairSpec == Spec /\ \A q \in Requests : WF_vars(Serve(q))

-----------------------------------------------------------------------------
(***************************************************************************)
(* Properties.                                                             *)
(***************************************************************************)

(***************************************************************************)
(* The rows, the requests and the answers have their types.                *)
(***************************************************************************)
TypeOK ==
    /\ table \in Seq(ReleaseRow)
    /\ events \in Seq(Ids)
    /\ request \in [Requests -> Request \cup { New }]

Answered(status) ==
    { q \in Requests : request[q].step = "done" /\ request[q].status = status }

(***************************************************************************)
(* All the requests with one key that succeed, whenever they ran and       *)
(* whatever they asked for, are told of one and the same release.          *)
(* (create_release; the unique constraint on the key.)                     *)
(***************************************************************************)
KeyNamesOneRelease ==
    \A q, o \in Answered(200) \cup Answered(201) :
        request[q].key = request[o].key /\ request[q].key \in Keys
            => request[q].release = request[o].release

(***************************************************************************)
(* A request that arrives after the release of its key has been committed  *)
(* is answered with that release and nothing else, whatever else runs.     *)
(***************************************************************************)
LateRetryIsReplayed ==
    \A q \in UNION { Answered(s) : s \in { 200, 201, 403, 404, 409, 500 } } :
        request[q].key \in Keys /\ request[q].original # 0 =>
            /\ request[q].status = 200
            /\ request[q].release = request[q].original

(***************************************************************************)
(* The answers agree with the database: 201 names a release that is as it  *)
(* was asked for, in an environment of the project, that a manager has     *)
(* created, that no other 201 names and that is in the history; 409 is     *)
(* given only when the version exists; and no two releases are of the same *)
(* version, so that one of two requests that race for it has not got 201.  *)
(***************************************************************************)
AnswersAreTrue ==
    /\ \A q \in Answered(201) :
          /\ request[q].release \in Ids
          /\ table[request[q].release] =
                [ key |-> request[q].key, target |-> request[q].target,
                  created_by |-> request[q].user ]
          /\ request[q].user \in Managers
          /\ request[q].target \in KnownTargets
          /\ events[request[q].release] = request[q].release
          /\ \A o \in Answered(201) \ {q} :
                request[o].release # request[q].release
    /\ \A q \in Answered(409) :
          \E i \in Ids : table[i].target = request[q].target
    /\ \A i, j \in Ids : table[i].target = table[j].target => i = j

(***************************************************************************)
(* A request fails on a unique constraint (500, and not 409) only for a    *)
(* row that was not there when it arrived, with one exception: an empty    *)
(* Idempotency-Key is not looked up (releases.py:63) and yet stored, so    *)
(* that the second release that is asked for with it always fails.         *)
(***************************************************************************)
FailsOnlyInRaces ==
    \A q \in Answered(500) : \E i \in Ids :
        /\ Conflict(request[q], table[i])
        /\ \/ i > request[q].rows
           \/ request[q].key = EmptyKey /\ table[i].key = EmptyKey

(***************************************************************************)
(* Inserts do not wait for one another in a circle, though each holds an   *)
(* entry of one index while it waits in the other: in every set of them    *)
(* one waits for none of the set.  So PostgreSQL has no deadlock to break, *)
(* which create_release would answer with 500 and no conflicting row.      *)
(***************************************************************************)
NoDeadlock ==
    \A S \in (SUBSET Requests) \ {{}} :
        \E q \in S : \A o \in S : ~WaitsFor(q, o)

(***************************************************************************)
(* Every request that arrives comes to an end (there are only so many),    *)
(* whatever has failed while it waited: what an insert that fails in the   *)
(* second index has entered in the first keeps nobody waiting.             *)
(***************************************************************************)
RequestsEnd ==
    <>[](\A q \in Requests : request[q].step \in { "new", "done" })

(***************************************************************************)
(* README.md:57: "repeated `Idempotency-Key` requests return the original  *)
(* release".  The code does not keep this promise when the request is      *)
(* repeated while the original runs: the copy is answered 409, or 500.     *)
(***************************************************************************)
RepeatReturnsOriginal ==
    \A q \in Answered(201), o \in Answered(409) \cup Answered(500) :
        ~ /\ request[q].key \in Keys
          /\ request[o].key = request[q].key
          /\ request[o].user = request[q].user
          /\ request[o].target = request[q].target
=============================================================================
