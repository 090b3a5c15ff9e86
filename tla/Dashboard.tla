----------------------------- MODULE Dashboard -----------------------------
(***************************************************************************)
(* One page of the dashboard, app/static/app.js, and the service it talks  *)
(* to.  The handlers of the page are asynchronous: between a request and   *)
(* its answer the user goes on clicking and other handlers run, answers    *)
(* come in any order or not at all, the token may expire, and the releases *)
(* are moved by other users and by the scheduler (ReleaseLifecycle).       *)
(***************************************************************************)
CONSTANTS
    Users, RoleOf,          \* RoleOf[u], the role of a user
    Projects, First,        \* First: the one GET /projects lists first
    Releases, ProjectOf,    \* ProjectOf[r], the project of a release
    Creator,                \* Creator[r], the user that creates it
    NeedsApproval,          \* NeedsApproval[r], of its environment
    Fetches,                \* bound: so many requests are in flight at once
    Settings,               \* bound: how the page is used
    None

(***************************************************************************)
(* A setting: who uses the page, which projects they select, which         *)
(* releases there are at the start, how many requests they have in flight; *)
(* whether they wait until none is; whether all requests are answered and  *)
(* no token expires.                                                       *)
(***************************************************************************)
Setting ==
    [ users : SUBSET Users, projects : SUBSET Projects,
      existing : SUBSET Releases, fetches : SUBSET Fetches,
      patient : BOOLEAN, reliable : BOOLEAN ]

ASSUME DashboardAssumption ==
    /\ None \notin Users \cup Projects
    /\ First \in Projects
    /\ RoleOf \in [Users -> { "developer", "reviewer", "admin" }]
    /\ Settings \subseteq Setting

VARIABLES
    setting,    \* one of Settings, for good
    status,     \* the committed status of each release
    stored,     \* the releases there are
    page,       \* the variable state, and what is rendered
    fetch       \* the requests in flight

server == << status, stored >>

moving == << server, page, fetch >>

vars == << setting, moving >>

Lifecycle == INSTANCE ReleaseLifecycle

-----------------------------------------------------------------------------
(***************************************************************************)
(* The endpoints /releases/{id}/{action} and the guards of the service     *)
(* functions behind them.                                                  *)
(***************************************************************************)
Actions ==
    { "submit", "approve", "reject", "schedule", "deploy", "complete",
      "fail", "rollback", "cancel" }

Do(a, r) ==
    \/ a = "submit" /\ Lifecycle!Submit(r)
    \/ a = "approve" /\ Lifecycle!Approve(r)
    \/ a = "reject" /\ Lifecycle!Reject(r)
    \/ a = "schedule" /\ Lifecycle!Schedule(r)
    \/ a = "deploy" /\ Lifecycle!DeployNow(r)
    \/ a = "complete" /\ Lifecycle!Complete(r)
    \/ a = "fail" /\ Lifecycle!Fail(r)
    \/ a = "rollback" /\ Lifecycle!Rollback(r)
    \/ a = "cancel" /\ Lifecycle!Cancel(r)

Reviews == { "approve", "reject" }

ByCreator == { "submit", "schedule", "cancel" }

MayByRole(a, u) ==
    \/ RoleOf[u] = "admin"
    \/ a \in ByCreator
    \/ a \in Reviews /\ RoleOf[u] = "reviewer"

MayByOwner(a, r, u) ==
    \/ RoleOf[u] = "admin"
    \/ a \in Reviews /\ Creator[r] # u
    \/ a \in ByCreator /\ Creator[r] = u

(***************************************************************************)
(* The answers to action a of user u: the creator is asked for before the  *)
(* status, the reviewer after it.  The time of a schedule may be past, and *)
(* that of a scheduled deployment may not have come.                       *)
(***************************************************************************)
MayBeEarly(a, r) ==
    a = "schedule" \/ (a = "deploy" /\ status[r] = "scheduled")

Verdicts(a, r, u) ==
    IF ~MayByRole(a, u) THEN { "role" }
    ELSE IF a \in ByCreator /\ ~MayByOwner(a, r, u) THEN { "owner" }
    ELSE IF status[r] \notin Lifecycle!Expected(a) THEN { "status" }
    ELSE IF ~MayByOwner(a, r, u) THEN { "owner" }
    ELSE { "ok" } \cup (IF MayBeEarly(a, r) THEN { "early" } ELSE {})

-----------------------------------------------------------------------------
(***************************************************************************)
(* The page.                                                               *)
(***************************************************************************)

(***************************************************************************)
(* The buttons of a release that is shown with status s to user u.         *)
(***************************************************************************)
ActionMap(s) ==
    CASE s \in { "draft", "rejected" } -> { "submit", "cancel" }
      [] s = "pending_approval" -> { "approve", "reject", "cancel" }
      [] s = "approved" -> { "schedule", "deploy", "cancel" }
      [] s = "scheduled" -> { "deploy", "cancel" }
      [] s = "deploying" -> { "complete", "fail" }
      [] s = "deployed" -> { "rollback" }
      [] OTHER -> {}

Unfiltered(s, u) == ActionMap(s)   \* fault: the roles are left to the service

DevelopersSubmit(s, u) ==          \* fault: developers can submit only
    IF RoleOf[u] = "developer" THEN ActionMap(s) \cap { "submit" }
    ELSE ActionMap(s)

AllowedActions(s, u) ==
    CASE RoleOf[u] = "developer" -> ActionMap(s) \cap ByCreator
      [] RoleOf[u] = "reviewer" -> ActionMap(s) \cap Reviews
      [] OTHER -> ActionMap(s)

(***************************************************************************)
(* token and user are those of the variable state; open, whether the page  *)
(* shows the application and not the login form; project, the selected     *)
(* one; envs, the project whose environments are in the form; cards, the   *)
(* releases rendered, of which project and for whom; audit, the project    *)
(* whose audit events are.                                                 *)
(***************************************************************************)
NoCards == [ of |-> None, user |-> None, list |-> << >> ]

BlankPage ==
    [ token |-> None, user |-> None, open |-> FALSE, project |-> None,
      envs |-> None, cards |-> NoCards, audit |-> None ]

(***************************************************************************)
(* A request in flight: the handler it belongs to by its kind, the user of *)
(* its token, what it is of, the button clicked; and the answer, with what *)
(* the service had when it answered.                                       *)
(***************************************************************************)
Idle == [ kind |-> "idle" ]

Request(kind, by, of) ==
    [ kind |-> kind, by |-> by, of |-> of, action |-> None,
      saw |-> None, shownTo |-> None, answer |-> "none", got |-> None ]

Quiet == \A f \in Fetches : fetch[f] = Idle

CanSend(f) ==
    f \in setting.fetches /\ fetch[f] = Idle /\ (setting.patient => Quiet)

Send(f, request) ==
    /\ fetch' = [fetch EXCEPT ![f] = request]
    /\ UNCHANGED server

-----------------------------------------------------------------------------
(***************************************************************************)
(* The user.                                                               *)
(***************************************************************************)
Login(f, u) ==
    /\ ~page.open /\ CanSend(f)
    /\ Send(f, Request("token", None, u))
    /\ UNCHANGED page

LoggedOut == [page EXCEPT !.token = None, !.user = None, !.open = FALSE]

Logout ==
    /\ page.open
    /\ setting.patient => Quiet
    /\ page' = LoggedOut
    /\ UNCHANGED << server, fetch >>

SelectOnly(f, p) ==                \* fault: the project is not refreshed
    /\ page.open /\ page.project # None /\ CanSend(f)
    /\ page' = [page EXCEPT !.project = p]
    /\ UNCHANGED << server, fetch >>

SelectProject(f, p) ==
    /\ page.open /\ page.project # None /\ CanSend(f)
    /\ page' = [page EXCEPT !.project = p]
    /\ Send(f, Request("lists", page.token, p))

RefreshProject(f) ==
    /\ page.open /\ page.project # None /\ CanSend(f)
    /\ Send(f, Request("lists", page.token, page.project))
    /\ UNCHANGED page

Transition(f, r, a) ==
    /\ page.open /\ CanSend(f)
    /\ r \in DOMAIN page.cards.list
    /\ a \in AllowedActions(page.cards.list[r], page.cards.user)
    /\ Send(f, [Request("action", page.token, r) EXCEPT
                   !.action = a, !.saw = page.cards.list[r],
                   !.shownTo = page.cards.user])
    /\ UNCHANGED page

ReleaseForm(f) ==
    /\ page.open /\ page.project # None /\ CanSend(f)
    /\ Send(f, Request("form", page.token, page.project))
    /\ UNCHANGED page

-----------------------------------------------------------------------------
(***************************************************************************)
(* The service answers.                                                    *)
(***************************************************************************)
Reply(f, answer, got) ==
    fetch' = [fetch EXCEPT ![f] =
        [fetch[f] EXCEPT !.answer = answer, !.got = got]]

ReleasesOf(p) ==
    [ r \in { x \in stored : ProjectOf[x] = p } |-> status[r] ]

HandleAction(f, verdict) ==
    /\ verdict \in Verdicts(fetch[f].action, fetch[f].of, fetch[f].by)
    /\ IF verdict = "ok" THEN Do(fetch[f].action, fetch[f].of)
       ELSE UNCHANGED status
    /\ Reply(f, verdict, status[fetch[f].of])
    /\ UNCHANGED stored

HandleForm(f, r) ==
    /\ r \in Releases \ stored
    /\ ProjectOf[r] = fetch[f].of /\ Creator[r] = fetch[f].by
    /\ stored' = stored \cup { r }
    /\ Reply(f, "ok", None)
    /\ UNCHANGED status

HandleQuery(f) ==
    /\ Reply(f, "ok", IF fetch[f].kind = "lists" THEN ReleasesOf(fetch[f].of)
                      ELSE None)
    /\ UNCHANGED server

Unauthorized(f) ==
    /\ Reply(f, "unauthorized", None)
    /\ UNCHANGED server

Serve(f) ==
    /\ fetch[f] # Idle /\ fetch[f].answer = "none"
    /\ IF fetch[f].by = None /\ fetch[f].kind # "token" THEN Unauthorized(f)
       ELSE \/ /\ fetch[f].kind = "action"
               /\ \E verdict \in { "ok", "role", "status", "owner", "early" } :
                     HandleAction(f, verdict)
            \/ fetch[f].kind = "form" /\ \E r \in Releases : HandleForm(f, r)
            \/ /\ fetch[f].kind \notin { "action", "form" }
               /\ HandleQuery(f)
    /\ UNCHANGED page

(***************************************************************************)
(* A wrong password or an expired token; no answer, or a form refused.     *)
(***************************************************************************)
Expire(f) ==
    /\ ~setting.reliable
    /\ fetch[f] # Idle /\ fetch[f].answer = "none"
    /\ Unauthorized(f)
    /\ UNCHANGED page

Break(f) ==
    /\ fetch[f] # Idle
    /\ ~setting.reliable \/ (fetch[f].kind = "form" /\ fetch[f].answer = "none")
    /\ Reply(f, "failed", None)
    /\ UNCHANGED << server, page >>

(***************************************************************************)
(* Other users and the scheduler.                                          *)
(***************************************************************************)
Elsewhere ==
    /\ Lifecycle!Next
    /\ \A r \in Releases \ stored : status'[r] = status[r]
    /\ UNCHANGED << stored, page, fetch >>

-----------------------------------------------------------------------------
(***************************************************************************)
(* The handlers go on with the answer.                                     *)
(***************************************************************************)
Answered(f, kind) == fetch[f].kind = kind /\ fetch[f].answer = "ok"

Then(f, kind, of) == Send(f, Request(kind, page'.token, of))

End(f) == Send(f, Idle)

OnToken(f) ==
    /\ Answered(f, "token")
    /\ page' = [page EXCEPT !.token = fetch[f].of]
    /\ Then(f, "me", None)

OnMe(f) ==
    /\ Answered(f, "me")
    /\ page' = [page EXCEPT !.user = fetch[f].by, !.open = TRUE]
    /\ Then(f, "projects", None)

(***************************************************************************)
(* loadProjects selects a project only when none is selected.              *)
(***************************************************************************)
OnProjects(f) ==
    /\ Answered(f, "projects")
    /\ IF page.project = None
       THEN /\ page' = [page EXCEPT !.project = First]
            /\ Then(f, "lists", First)
       ELSE UNCHANGED page /\ End(f)

(***************************************************************************)
(* renderReleases reads the role of the user for every release: it throws  *)
(* when there are some and nobody is logged in, and the cards stay.  The   *)
(* audit is that of the project that is selected by now.                   *)
(***************************************************************************)
Throws(f) == page.user = None /\ fetch[f].got # << >>

OnLists(f) ==
    /\ Answered(f, "lists")
    /\ page' = [page EXCEPT
          !.envs = fetch[f].of,
          !.cards = IF Throws(f) THEN @
                    ELSE [ of |-> fetch[f].of, user |-> page.user,
                           list |-> fetch[f].got ]]
    /\ IF Throws(f) THEN End(f) ELSE Then(f, "audit", page.project)

OnAudit(f) ==
    /\ Answered(f, "audit")
    /\ page' = [page EXCEPT !.audit = fetch[f].of]
    /\ End(f)

OnAction(f) ==
    /\ Answered(f, "action")
    /\ UNCHANGED page
    /\ Then(f, "lists", page.project)

(***************************************************************************)
(* event.currentTarget is null after an await: reset() throws, and what    *)
(* comes after it, the refresh among it, does not run.                     *)
(***************************************************************************)
OnForm(f) ==
    /\ Answered(f, "form")
    /\ UNCHANGED page
    /\ End(f)

(***************************************************************************)
(* api: logout on 401; every answer that is not ok ends the handler.       *)
(***************************************************************************)
OnlyToast(f) == page               \* fault: 401 is an error like others

AfterError(f) ==
    IF fetch[f].answer = "unauthorized" THEN LoggedOut ELSE page

OnError(f) ==
    /\ fetch[f] # Idle /\ fetch[f].answer \notin { "none", "ok" }
    /\ page' = AfterError(f)
    /\ End(f)

-----------------------------------------------------------------------------
(***************************************************************************)
(* initialize: the token is that of an earlier visit, if one is stored.    *)
(***************************************************************************)
Remembered(f, u) ==
    /\ page = [BlankPage EXCEPT !.token = u]
    /\ fetch = [ g \in Fetches |->
                    IF g = f THEN Request("me", u, None) ELSE Idle ]

Init ==
    /\ Lifecycle!Init
    /\ setting \in Settings
    /\ stored = setting.existing
    /\ \/ page = BlankPage /\ fetch = [ f \in Fetches |-> Idle ]
       \/ \E u \in setting.users, f \in setting.fetches : Remembered(f, u)

Click(f) ==
    \/ \E u \in setting.users : Login(f, u)
    \/ \E p \in setting.projects : SelectProject(f, p)
    \/ RefreshProject(f)
    \/ \E r \in Releases, a \in Actions : Transition(f, r, a)
    \/ ReleaseForm(f)

Continue(f) ==
    \/ OnToken(f) \/ OnMe(f) \/ OnProjects(f) \/ OnLists(f) \/ OnAudit(f)
    \/ OnAction(f) \/ OnForm(f) \/ OnError(f)

Next ==
    /\ \/ \E f \in Fetches :
             Click(f) \/ Serve(f) \/ Expire(f) \/ Break(f) \/ Continue(f)
       \/ Logout
       \/ Elsewhere
    /\ UNCHANGED setting

Spec == Init /\ [][Next]_vars

(***************************************************************************)
(* The service answers and the browser runs the handlers.  Nobody has to   *)
(* click.                                                                  *)
(***************************************************************************)
FairSpec ==
    Spec /\ \A f \in Fetches : WF_moving(Serve(f)) /\ WF_moving(Continue(f))

-----------------------------------------------------------------------------
(***************************************************************************)
(* Properties.                                                             *)
(***************************************************************************)

(***************************************************************************)
(* The buttons agree with the service: a click is refused for the status   *)
(* only when the release has moved since it was rendered, and for the role *)
(* only when another user has logged in since.  (actionMap and             *)
(* allowedActions; _ensure_status and _require_role.)                      *)
(***************************************************************************)
RefusedOnlyWhenStale ==
    \A f \in Fetches : fetch[f].kind = "action" =>
        /\ fetch[f].answer = "status" => fetch[f].got # fetch[f].saw
        /\ fetch[f].answer = "role" => fetch[f].by # fetch[f].shownTo

(***************************************************************************)
(* A developer or an admin who sees the current status is offered all that *)
(* the service would let them do.  (A reviewer is not offered what the     *)
(* service allows the creator of a release.)                               *)
(***************************************************************************)
NothingWithheld ==
    \A r \in DOMAIN page.cards.list :
        LET u == page.cards.user
        IN  page.cards.list[r] = status[r] /\ RoleOf[u] # "reviewer" =>
              { a \in Actions : "ok" \in Verdicts(a, r, u) } \subseteq
                  AllowedActions(status[r], u)

(***************************************************************************)
(* A user who waits for every answer, and gets them, sees the environments,*)
(* the releases and the audit of the project that is selected.             *)
(***************************************************************************)
PageIsOfSelected ==
    setting.patient /\ setting.reliable /\ Quiet /\ page.open =>
        { page.envs, page.cards.of, page.audit } = { page.project }

(***************************************************************************)
(* A page without a token, also one that a late 401 of an earlier login    *)
(* has logged out while the new login went on, does not stay open.         *)
(***************************************************************************)
SignedOutIsHidden ==
    setting.reliable /\ page.token = None ~> ~page.open \/ page.token # None
=============================================================================
