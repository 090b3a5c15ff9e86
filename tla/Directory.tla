----------------------------- MODULE Directory -----------------------------
(***************************************************************************)
(* Users, projects and environments: POST /auth/register, /auth/users,     *)
(* /projects and /projects/{id}/environments.  Each handler looks for the  *)
(* unique name, inserts a row when it has found none, and commits; the     *)
(* rows of projects and environments go with a domain event.  Requests     *)
(* run concurrently and a query sees what is committed when it runs; an    *)
(* insert waits for an uncommitted one of the same name, and one of a name *)
(* that has been committed since the look-up is an IntegrityError, which   *)
(* is answered 500.  Service runs the requests in the containers that      *)
(* serve.                                                                  *)
(***************************************************************************)
EXTENDS Naturals, Sequences, SequencesExt

CONSTANTS
    Emails,         \* email addresses as clients write them
    Lower,          \* [Emails -> Emails], str.lower()
    Root,           \* the address of the bootstrap admin
    Slugs,          \* the slugs of projects
    Labels,         \* names of environments, unique within a project
    Asked,          \* the roles that admins give when they create users
    Requests,       \* the requests the API receives, each of them once
    Free            \* no row

Environments == Slugs \X Labels

Names == Emails \cup Slugs \cup Environments

Roles == { "developer", "reviewer", "admin" }

(***************************************************************************)
(* by is the request that has made the row, Root for that of the bootstrap *)
(* admin; owner is the user that sent it, Free for a user that registers.  *)
(***************************************************************************)
Row ==
    [ by : Requests \cup { Root }, owner : Emails \cup { Free },
      role : Roles \cup { "none" } ]

ASSUME DirectoryAssumption ==
    /\ Lower \in [Emails -> Emails]
    /\ \A e \in Emails : Lower[Lower[e]] = Lower[e]
    /\ Root \in Emails /\ Lower[Root] = Root
    /\ Emails \cap Slugs = {}
    /\ (Emails \cup Slugs) \cap Environments = {}
    /\ Root \notin Requests
    /\ Asked \subseteq { "developer", "reviewer", "admin" }
    /\ Free \notin Names \cup Requests \cup Row

VARIABLES
    row,        \* the committed row of each name in users, projects or
                \* environments, or Free
    history,    \* the names in audit_events, and in outbox_events, in order
    request     \* what each request asks, how far it is, its answer

tables == << row, history >>

-----------------------------------------------------------------------------

(***************************************************************************)
(* step is the statement the request is about to run.  A request that is   *)
(* done and has got no answer has status 0.                                *)
(***************************************************************************)
Request ==
    [ step : { "guard", "look", "insert", "commit", "refresh", "done" },
      actor : Emails \cup { Free }, name : Names,
      role : Roles \cup { "none" },
      status : { 0, 201, 403, 404, 409, 500 } ]

New == [ step |-> "new" ]

(***************************************************************************)
(* The value of the unique columns: emails are stored in lower case.       *)
(***************************************************************************)
AsWritten(q) == request[q].name    \* fault: the email is stored as written

Key(q) ==
    IF request[q].name \in Emails THEN Lower[request[q].name]
    ELSE request[q].name

IsAdmin(u) == u # Free /\ row[u] # Free /\ row[u].role = "admin"

Go(q, step) == request' = [request EXCEPT ![q].step = step]

Advance(q, step) == Go(q, step) /\ UNCHANGED tables

Reply(q, status) ==
    /\ request' = [request EXCEPT ![q] =
          [request[q] EXCEPT !.step = "done", !.status = status]]
    /\ UNCHANGED tables

-----------------------------------------------------------------------------
(***************************************************************************)
(* The request arrives; the user of its token is one that has a row.       *)
(***************************************************************************)
Receive(q, step, actor, name, role) ==
    /\ request[q].step = "new"
    /\ actor # Free => row[actor] # Free
    /\ request' = [request EXCEPT ![q] =
          [ step |-> step, actor |-> actor, name |-> name, role |-> role,
            status |-> 0 ]]
    /\ UNCHANGED tables

ChosenRole(q, e) ==                \* fault: the client chooses the role
    \E role \in Roles : Receive(q, "look", Free, e, role)

Register(q, e) == Receive(q, "look", Free, e, "developer")

CreateUser(q, u, e, role) == Receive(q, "guard", u, e, role)

PostProject(q, u, s) == Receive(q, "look", u, s, "none")

PostEnvironment(q, u, n) == Receive(q, "guard", u, n, "none")

(***************************************************************************)
(* require_roles(ADMIN) of create_user; get_project and                    *)
(* require_project_manager of post_environment.                            *)
(***************************************************************************)
Manages(u, s) == row[s].owner = u \/ IsAdmin(u)

Guard(q) ==
    LET u == request[q].actor
        n == request[q].name
    IN  /\ request[q].step = "guard"
        /\ \/ /\ n \in Emails
              /\ IF IsAdmin(u) THEN Advance(q, "look") ELSE Reply(q, 403)
           \/ /\ n \in Environments
              /\ IF row[n[1]] = Free THEN Reply(q, 404)
                 ELSE IF ~Manages(u, n[1]) THEN Reply(q, 403)
                 ELSE Advance(q, "look")

Taken(q) == row[Key(q)] # Free

LookUp(q) ==
    /\ request[q].step = "look"
    /\ IF Taken(q) THEN Reply(q, 409)
       ELSE Advance(q, "insert")

(***************************************************************************)
(* The flush: unique (email), unique (slug), unique (project_id, name).    *)
(***************************************************************************)
NeverWaits(q) == FALSE             \* fault: no unique constraint to wait for

MustWait(q) ==
    \E o \in Requests \ {q} :
        request[o].step = "commit" /\ Key(o) = Key(q)

InsertOrIgnore(q) ==               \* fault: ON CONFLICT DO NOTHING
    /\ request[q].step = "insert"
    /\ ~MustWait(q)
    /\ Advance(q, IF Taken(q) THEN "refresh" ELSE "commit")

Insert(q) ==
    /\ request[q].step = "insert"
    /\ ~MustWait(q)
    /\ IF Taken(q) THEN Reply(q, 500)
       ELSE Advance(q, "commit")

(***************************************************************************)
(* record_domain_event, for projects and environments, and the commit.     *)
(***************************************************************************)
ProjectsRecorded(n) ==             \* fault: no event for environments
    IF n \in Slugs THEN Append(history, n) ELSE history

Recorded(n) ==
    IF n \in Emails THEN history ELSE Append(history, n)

Commit(q) ==
    /\ request[q].step = "commit"
    /\ row' = [row EXCEPT ![Key(q)] =
          [ by |-> q, owner |-> request[q].actor,
            role |-> request[q].role ]]
    /\ history' = Recorded(Key(q))
    /\ Go(q, "refresh")

Refresh(q) == request[q].step = "refresh" /\ Reply(q, 201)

(***************************************************************************)
(* The client goes away, the process dies, the refresh after the commit    *)
(* gets no connection: whatever the step, there is no answer.              *)
(***************************************************************************)
InFlight == { q \in Requests : request[q].step \notin { "new", "done" } }

Abort(q) == q \in InFlight /\ Reply(q, 0)

-----------------------------------------------------------------------------

(***************************************************************************)
(* A new database, or one with the bootstrap admin and a project of hers.  *)
(***************************************************************************)
Given(owner, role) == [ by |-> Root, owner |-> owner, role |-> role ]

Admin == Given(Free, "admin")

InUse(s) ==
    /\ row = [ n \in Names |->
          CASE n = Root -> Admin
            [] n = s -> Given(Root, "none")
            [] OTHER -> Free ]
    /\ history = << s >>

DatabaseInit ==
    /\ \/ row = [ n \in Names |-> Free ] /\ history = << >>
       \/ \E s \in Slugs : InUse(s)
    /\ request = [ q \in Requests |-> New ]

Arrive(q) ==
    \/ \E e \in Emails : Register(q, e)
    \/ \E u, e \in Emails, role \in Asked : CreateUser(q, u, e, role)
    \/ \E u \in Emails, s \in Slugs : PostProject(q, u, s)
    \/ \E u \in Emails, n \in Environments : PostEnvironment(q, u, n)

Serve(q) ==
    \/ Guard(q) \/ LookUp(q) \/ Insert(q) \/ Commit(q) \/ Refresh(q)

-----------------------------------------------------------------------------
(***************************************************************************)
(* Properties.                                                             *)
(***************************************************************************)

(***************************************************************************)
(* The tables and the requests have their types; users are stored under    *)
(* the lower-case form of their address.                                   *)
(***************************************************************************)
TypeOK ==
    /\ row \in [Names -> Row \cup { Free }]
    /\ \A e \in Emails : row[e] # Free => Lower[e] = e
    /\ history \in Seq(Slugs \cup Environments)
    /\ request \in [Requests -> Request \cup { New }]

Done(status) ==
    { q \in Requests : request[q].step = "done" /\ request[q].status = status }

Holder(n) == IF row[n] = Free THEN Free ELSE row[n].by

(***************************************************************************)
(* The answers agree with the database, however the requests interleave:   *)
(* 201 is given to the request whose row it is, with the owner and the     *)
(* role it asked for, so to one request for a name; 409 and 500 only when  *)
(* another request has the name.  (create_project, create_environment,     *)
(* register, create_user.)                                                 *)
(***************************************************************************)
AnswersAreTrue ==
    /\ \A q \in Done(201) :
          row[Key(q)] = [ by |-> q, owner |-> request[q].actor,
                          role |-> request[q].role ]
    /\ \A q \in Done(409) \cup Done(500) :
          Holder(Key(q)) \notin { Free, q }

(***************************************************************************)
(* Every project and every environment is in the history once, and nothing *)
(* else is; the history of a project begins with its creation.             *)
(* (record_domain_event in the transaction of the insert.)                 *)
(***************************************************************************)
HistoryExact ==
    /\ IsInjective(history)
    /\ ToSet(history) = { n \in Slugs \cup Environments : row[n] # Free }
    /\ \A i \in DOMAIN history : history[i] \in Environments =>
          \E j \in 1..(i - 1) : history[j] = history[i][1]

(***************************************************************************)
(* Authority comes from the bootstrap admin: whoever is more than a        *)
(* developer has been given the role by an admin, and an environment has   *)
(* been made by the owner of its project or an admin.                      *)
(***************************************************************************)
AuthorityIsGranted ==
    \A n \in Names \ { Root } : row[n] # Free =>
        /\ n \in Emails /\ row[n].role # "developer" => IsAdmin(row[n].owner)
        /\ n \in Environments =>
              row[n[1]] # Free /\ Manages(row[n].owner, n[1])

(***************************************************************************)
(* Look-up and insert together are as one atomic claim: UniqueNames.       *)
(***************************************************************************)

Verdict(q) ==
    IF request[q] = New THEN "open"
    ELSE IF Holder(Key(q)) = q THEN "won"
    ELSE IF request[q].status \in { 409, 500 } THEN "lost"
    ELSE "open"

Claims == INSTANCE UniqueNames WITH
    Claimants <- Requests,
    Nobody <- Free,
    Installer <- Root,
    holder <- [ n \in Names |-> Holder(n) ],
    verdict <- [ q \in Requests |-> Verdict(q) ]

ImplementsClaims == Claims!Spec
=============================================================================
