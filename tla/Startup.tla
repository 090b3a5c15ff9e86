------------------------------ MODULE Startup ------------------------------
(***************************************************************************)
(* How the containers of the service start on one database.  Those of      *)
(* installers migrate the schema (alembic upgrade head) and make the       *)
(* bootstrap admin (app.cli bootstrap-admin), those of servers run the     *)
(* service.  Each container of the image is both: its entrypoint installs  *)
(* before it runs the command.  In docker-compose.yml the service migrate  *)
(* installs, and the others wait until it has completed.  A migration is   *)
(* one transaction; two at a time meet in the names of the tables they     *)
(* create, two bootstraps in the unique email.                             *)
(***************************************************************************)
EXTENDS Naturals

CONSTANTS
    Containers,
    Deployments,    \* pairs: those that install, those that serve
    MaxCrashes      \* bound: so many containers die

VARIABLES
    installers,     \* the deployment: which containers install, and
    servers,        \* which serve; nothing changes these two
    schema,     \* whether the tables are there
    admin,      \* the role of the account with the bootstrap email, or none
    step,       \* the statement each container is about to run
    crashes

deployment == << installers, servers >>

Steps ==
    { "created", "version", "migrate", "migrated", "look", "insert",
      "inserted", "completed", "serving", "table_exists", "email_exists",
      "dead" }

Go(c, to) == step' = [step EXCEPT ![c] = to] /\ UNCHANGED deployment

(***************************************************************************)
(* The commands of a container in their order.  One that has installed is  *)
(* migrate and ends, or runs the API: exec "$@".                           *)
(***************************************************************************)
Installed(c) == Go(c, IF c \in servers THEN "serving" ELSE "completed")

ServedUpgraded(c) == Installed(c)  \* fault: no bootstrap in the entrypoint

Upgraded(c) == Go(c, "look")

-----------------------------------------------------------------------------

MayStart(c) ==
    c \in installers \/ \A i \in installers : step[i] = "completed"

Start(c) ==
    /\ step[c] = "created"
    /\ MayStart(c)
    /\ Go(c, IF c \in installers THEN "version" ELSE "serving")
    /\ UNCHANGED << schema, admin, crashes >>

(***************************************************************************)
(* alembic upgrade head: read the version of the schema; create the        *)
(* tables, which waits for a migration that has and is not committed, and  *)
(* fails when it commits; commit.                                          *)
(***************************************************************************)
ReadVersion(c) ==
    /\ step[c] = "version"
    /\ IF schema THEN Upgraded(c) ELSE Go(c, "migrate")
    /\ UNCHANGED << schema, admin, crashes >>

TablesLocked(c) == \E o \in Containers : step[o] = "migrated"

Migrate(c) ==
    /\ step[c] = "migrate"
    /\ ~TablesLocked(c)
    /\ Go(c, IF schema THEN "table_exists" ELSE "migrated")
    /\ UNCHANGED << schema, admin, crashes >>

CommitSchema(c) ==
    /\ step[c] = "migrated"
    /\ schema' = TRUE
    /\ Upgraded(c)
    /\ UNCHANGED << admin, crashes >>

(***************************************************************************)
(* bootstrap_admin: nothing to do when the account exists, whatever its    *)
(* role; otherwise insert it and commit.                                   *)
(***************************************************************************)
FailIfThere(c) ==                  \* fault: an account that exists is an error
    /\ step[c] = "look"
    /\ Go(c, IF admin # "none" THEN "email_exists" ELSE "insert")
    /\ UNCHANGED << schema, admin, crashes >>

LookForAdmin(c) ==
    /\ step[c] = "look"
    /\ IF admin # "none" THEN Installed(c) ELSE Go(c, "insert")
    /\ UNCHANGED << schema, admin, crashes >>

InsertAdmin(c) ==
    /\ step[c] = "insert"
    /\ \A o \in Containers : step[o] # "inserted"
    /\ Go(c, IF admin # "none" THEN "email_exists" ELSE "inserted")
    /\ UNCHANGED << schema, admin, crashes >>

CommitAdmin(c) ==
    /\ step[c] = "inserted"
    /\ admin' = "admin"
    /\ Installed(c)
    /\ UNCHANGED << schema, crashes >>

(***************************************************************************)
(* A container dies, its transaction with it.  One that has failed, or has *)
(* completed before, is started again by whoever looks after it.           *)
(***************************************************************************)
Crash(c) ==
    /\ step[c] \notin { "created", "completed", "table_exists",
                         "email_exists", "dead" }
    /\ crashes < MaxCrashes
    /\ crashes' = crashes + 1
    /\ Go(c, "dead")
    /\ UNCHANGED << schema, admin >>

Restart(c) ==
    /\ step[c] \in { "completed", "table_exists", "email_exists", "dead" }
    /\ Go(c, "created")
    /\ UNCHANGED << schema, admin, crashes >>

-----------------------------------------------------------------------------

Init ==
    /\ \E d \in Deployments : installers = d[1] /\ servers = d[2]
    /\ schema \in BOOLEAN
    /\ admin = (IF schema THEN "admin" ELSE "none")
    /\ step = [ c \in Containers |-> "created" ]
    /\ crashes = 0

Run(c) ==
    \/ Start(c) \/ ReadVersion(c) \/ Migrate(c) \/ CommitSchema(c)
    \/ LookForAdmin(c) \/ InsertAdmin(c) \/ CommitAdmin(c)
=============================================================================
