-------------------------- MODULE Dashboard_proofs --------------------------
(***************************************************************************)
(* What the page shows and offers, for any users, projects and releases,   *)
(* any number of requests in flight, and any setting.                      *)
(***************************************************************************)
EXTENDS Dashboard, TLAPS

(***************************************************************************)
(* The types of what is rendered and of what is in flight.                 *)
(***************************************************************************)
Statuses == Lifecycle!Statuses

Lists == (UNION { [S -> Statuses] : S \in SUBSET Releases }) \cup { << >> }

Cards ==
    [ of : Projects \cup { None }, user : Users \cup { None },
      list : Lists ]

Page ==
    [ token : Users \cup { None }, user : Users \cup { None },
      open : BOOLEAN, project : Projects \cup { None },
      envs : Projects \cup { None }, cards : Cards,
      audit : Projects \cup { None } ]

Kinds == { "token", "me", "projects", "lists", "audit", "action", "form" }

Answers ==
    { "none", "ok", "role", "status", "owner", "early", "failed",
      "unauthorized" }

Fetch ==
    [ kind : Kinds, by : Users \cup { None },
      of : Users \cup Projects \cup Releases \cup { None },
      action : Actions \cup { None }, saw : Statuses \cup { None },
      shownTo : Users \cup { None }, answer : Answers,
      got : Statuses \cup Lists \cup { None } ]

(***************************************************************************)
(* What a request is of depends on its handler, and its answer is a list   *)
(* for the lists.                                                          *)
(***************************************************************************)
IsOfItsKind(x) ==
    /\ x.kind = "token" => x.of \in Users
    /\ x.kind \in { "lists", "audit" } => x.of \in Projects \cup { None }
    /\ x.kind = "action" => x.of \in Releases /\ x.action \in Actions
    /\ x.kind = "lists" /\ x.answer = "ok" => x.got \in Lists

(***************************************************************************)
(* A click was on a button of the card; the service has refused it for the *)
(* status, or for the role, because the status and the role that it found  *)
(* do not allow the action.                                                *)
(***************************************************************************)
ClickIsJudged(x) ==
    x.kind = "action" =>
        /\ x.shownTo \in Users
        /\ x.action \in AllowedActions(x.saw, x.shownTo)
        /\ x.answer = "status" => x.got \notin Lifecycle!Expected(x.action)
        /\ x.answer = "role" => ~MayByRole(x.action, x.by)

FetchOK(x) == x # Idle => IsOfItsKind(x) /\ ClickIsJudged(x)

TypeInv ==
    /\ setting \in Settings
    /\ stored \subseteq Releases
    /\ status \in [Releases -> Statuses]
    /\ page \in Page
    /\ fetch \in [Fetches -> Fetch \cup { Idle }]

(***************************************************************************)
(* Releases are rendered for somebody.                                     *)
(***************************************************************************)
CardsAreForUser == page.cards.user = None => page.cards.list = << >>

ButtonsInv ==
    /\ TypeInv
    /\ CardsAreForUser
    /\ \A f \in Fetches : FetchOK(fetch[f])

(***************************************************************************)
(* The page of a user who waits for every answer and gets them.            *)
(***************************************************************************)
Patient == setting.patient /\ setting.reliable

OneInFlight ==
    \A f, g \in Fetches : fetch[f] # Idle /\ fetch[g] # Idle => f = g

OpenIsSignedIn == page.open => page.token # None /\ page.user # None

Settled ==
    /\ page.envs = page.project
    /\ page.cards.of = page.project
    /\ page.audit = page.project

(***************************************************************************)
(* The handler that is under way: how much it has rendered, and that       *)
(* nothing ends it before it has rendered the rest.                        *)
(***************************************************************************)
UnderWay(x) ==
    /\ x.answer # "unauthorized"
    /\ x.kind # "token" => x.by # None /\ page.token # None
    /\ x.kind \notin { "token", "me" } => page.open
    /\ x.kind \in { "lists", "audit" } => x.of = page.project
    /\ x.kind = "audit" =>
          page.envs = page.project /\ page.cards.of = page.project
    /\ x.kind \notin { "lists", "audit" } => Settled
    /\ x.kind \notin { "action", "form" } => x.answer \in { "none", "ok" }

PatientInv ==
    Patient =>
        /\ OneInFlight
        /\ OpenIsSignedIn
        /\ Quiet => Settled
        /\ \A f \in Fetches : fetch[f] # Idle => UnderWay(fetch[f])

PageInv == ButtonsInv /\ PatientInv

-----------------------------------------------------------------------------
(***************************************************************************)
(* The buttons against the guards, action by action.                       *)
(***************************************************************************)
LEMMA ButtonsAreExpected ==
  ASSUME NEW s, NEW a
  PROVE  /\ a \in ActionMap(s) => a \in Actions /\ s \in Lifecycle!Expected(a)
         /\ a \in Actions /\ s \in Lifecycle!Expected(a) =>
               a \in ActionMap(s)
  BY DEF ActionMap, Actions, Lifecycle!Expected

LEMMA ButtonsAreOfRole ==
  ASSUME NEW s, NEW a, NEW u \in Users, a \in AllowedActions(s, u)
  PROVE  MayByRole(a, u) /\ a \in Actions /\ s \in Lifecycle!Expected(a)
  <1>1. RoleOf[u] \in { "developer", "reviewer", "admin" }
    BY DashboardAssumption
  <1> QED
    BY <1>1, ButtonsAreExpected
       DEF AllowedActions, MayByRole, ByCreator, Reviews

(***************************************************************************)
(* What the service may answer.                                            *)
(***************************************************************************)
LEMMA VerdictsMean ==
  ASSUME NEW a, NEW r, NEW u
  PROVE  /\ "role" \in Verdicts(a, r, u) => ~MayByRole(a, u)
         /\ "status" \in Verdicts(a, r, u) =>
               status[r] \notin Lifecycle!Expected(a)
         /\ "ok" \in Verdicts(a, r, u) =>
               MayByRole(a, u) /\ status[r] \in Lifecycle!Expected(a)
  BY DEF Verdicts

(***************************************************************************)
(* The fields of a request, and of one that is answered.                   *)
(***************************************************************************)
LEMMA NewRequest ==
  ASSUME NEW kind \in Kinds, NEW by \in Users \cup { None },
         NEW of \in Users \cup Projects \cup Releases \cup { None }
  PROVE  /\ Request(kind, by, of) \in Fetch
         /\ Request(kind, by, of).kind = kind
         /\ Request(kind, by, of).by = by
         /\ Request(kind, by, of).of = of
         /\ Request(kind, by, of).answer = "none"
  BY DEF Request, Fetch, Answers

LEMMA NotIdle ==
  ASSUME NEW x
  PROVE  /\ x \in Fetch => x # Idle /\ x.kind \in Kinds
         /\ x = Idle => x.kind = "idle" /\ x.kind \notin Kinds
  BY DEF Fetch, Idle, Kinds

(***************************************************************************)
(* One entry of fetch is written, with something that is right.            *)
(***************************************************************************)
LEMMA FetchSet ==
  ASSUME ButtonsInv, NEW f \in Fetches, NEW x \in Fetch \cup { Idle },
         FetchOK(x), fetch' = [fetch EXCEPT ![f] = x]
  PROVE  /\ fetch' \in [Fetches -> Fetch \cup { Idle }]
         /\ fetch'[f] = x
         /\ \A g \in Fetches \ {f} : fetch'[g] = fetch[g]
         /\ \A g \in Fetches : FetchOK(fetch'[g])
  BY DEF ButtonsInv, TypeInv

(***************************************************************************)
(* A step of one handler, of the service for it, or of neither.            *)
(***************************************************************************)
LEMMA HandlerStep ==
  ASSUME ButtonsInv, NEW f \in Fetches, NEW x \in Fetch \cup { Idle },
         FetchOK(x), fetch' = [fetch EXCEPT ![f] = x],
         setting' = setting, stored' \subseteq Releases,
         status' \in [Releases -> Statuses], page' \in Page,
         page'.cards = page.cards \/ CardsAreForUser'
  PROVE  ButtonsInv'
  <1>1. /\ fetch' \in [Fetches -> Fetch \cup { Idle }]
        /\ \A g \in Fetches : FetchOK(fetch'[g])
    BY FetchSet
  <1>2. TypeInv'
    BY <1>1 DEF ButtonsInv, TypeInv
  <1>3. CardsAreForUser'
    BY DEF ButtonsInv, CardsAreForUser
  <1> QED
    BY <1>1, <1>2, <1>3 DEF ButtonsInv

(***************************************************************************)
(* The service is left alone, and the handler sends its next request or    *)
(* ends.                                                                   *)
(***************************************************************************)
LEMMA SendKeeps ==
  ASSUME ButtonsInv, NEW f \in Fetches, NEW x \in Fetch \cup { Idle },
         FetchOK(x), Send(f, x), UNCHANGED setting, page' \in Page,
         page'.cards = page.cards \/ CardsAreForUser'
  PROVE  ButtonsInv'
  <1>1. /\ fetch' = [fetch EXCEPT ![f] = x]
        /\ stored' = stored /\ status' = status
    BY DEF Send, server
  <1>2. stored \subseteq Releases /\ status \in [Releases -> Statuses]
    BY DEF ButtonsInv, TypeInv
  <1> QED
    BY <1>1, <1>2, HandlerStep

LEMMA SimpleRequest ==
  ASSUME NEW kind \in Kinds \ { "action" }, NEW by \in Users \cup { None },
         NEW of \in Users \cup Projects \cup { None },
         kind = "token" => of \in Users,
         kind \in { "lists", "audit" } => of \in Projects \cup { None }
  PROVE  /\ Request(kind, by, of) \in Fetch
         /\ FetchOK(Request(kind, by, of))
  BY NewRequest DEF FetchOK, IsOfItsKind, ClickIsJudged

LEMMA IdleIsRight == FetchOK(Idle)
  BY DEF FetchOK

LEMMA PageType ==
  ASSUME ButtonsInv
  PROVE  /\ page \in Page /\ page.cards \in Cards
         /\ page.token \in Users \cup { None }
         /\ page.user \in Users \cup { None }
         /\ page.project \in Projects \cup { None }
         /\ page.cards.user \in Users \cup { None }
         /\ setting \in Setting
  BY DashboardAssumption DEF ButtonsInv, TypeInv, Page, Cards

LEMMA FetchType ==
  ASSUME ButtonsInv, NEW f \in Fetches, fetch[f] # Idle
  PROVE  /\ fetch[f] \in Fetch /\ IsOfItsKind(fetch[f])
         /\ ClickIsJudged(fetch[f])
         /\ fetch[f].by \in Users \cup { None }
  BY DEF ButtonsInv, TypeInv, FetchOK, Fetch

-----------------------------------------------------------------------------
(***************************************************************************)
(* The user.                                                               *)
(***************************************************************************)
LEMMA TransitionSends ==
  ASSUME ButtonsInv, NEW f \in Fetches, NEW r \in Releases,
         NEW a \in Actions, Transition(f, r, a)
  PROVE  \E x \in Fetch :
            /\ FetchOK(x) /\ Send(f, x)
            /\ x.kind = "action" /\ x.by = page.token /\ x.answer = "none"
  <1> DEFINE old == Request("action", page.token, r)
             x == [old EXCEPT !.action = a, !.saw = page.cards.list[r],
                              !.shownTo = page.cards.user]
  <1>1. /\ Send(f, x) /\ r \in DOMAIN page.cards.list
        /\ a \in AllowedActions(page.cards.list[r], page.cards.user)
    BY DEF Transition
  <1>2. /\ old \in Fetch /\ old.kind = "action" /\ old.of = r
        /\ old.by = page.token /\ old.answer = "none"
    BY PageType, NewRequest DEF Kinds
  <1> HIDE DEF old
  <1>3. page.cards.user \in Users
    <2>1. page.cards.list # << >>
      BY <1>1
    <2> QED
      BY <2>1, PageType DEF ButtonsInv, CardsAreForUser
  <1>4. page.cards.list[r] \in Statuses
    <2>1. page.cards.list \in Lists /\ page.cards.list # << >>
      BY <1>1, PageType DEF Cards
    <2>2. PICK S \in SUBSET Releases : page.cards.list \in [S -> Statuses]
      BY <2>1 DEF Lists
    <2> QED
      BY <1>1, <2>2
  <1>5. /\ x \in Fetch /\ x.kind = "action" /\ x.of = r /\ x.action = a
        /\ x.saw = page.cards.list[r] /\ x.shownTo = page.cards.user
        /\ x.by = page.token /\ x.answer = "none"
    BY <1>2, <1>3, <1>4 DEF Fetch
  <1> HIDE DEF x
  <1>6. FetchOK(x)
    BY <1>1, <1>3, <1>5 DEF FetchOK, IsOfItsKind, ClickIsJudged
  <1> QED
    BY <1>1, <1>5, <1>6

(***************************************************************************)
(* What a click sends, and what it changes of the page.                    *)
(***************************************************************************)
LEMMA ClickSends ==
  ASSUME ButtonsInv, NEW f \in Fetches, Click(f)
  PROVE  /\ CanSend(f)
         /\ \E x \in Fetch, p \in Projects \cup { None } :
               /\ FetchOK(x) /\ Send(f, x) /\ x.answer = "none"
               /\ page' = [page EXCEPT !.project = p]
               /\ p # page.project => x.kind = "lists"
               /\ x.kind # "token" => page.open /\ x.by = page.token
               /\ x.kind \in { "token", "lists", "form", "action" }
               /\ x.kind = "lists" => x.of = p
  <1> DEFINE Sends(x, p) ==
               /\ FetchOK(x) /\ Send(f, x) /\ x.answer = "none"
               /\ page' = [page EXCEPT !.project = p]
               /\ p # page.project => x.kind = "lists"
               /\ x.kind # "token" => page.open /\ x.by = page.token
               /\ x.kind \in { "token", "lists", "form", "action" }
               /\ x.kind = "lists" => x.of = p
  <1>1. /\ page.token \in Users \cup { None }
        /\ page.project \in Projects \cup { None }
        /\ setting.users \subseteq Users
        /\ setting.projects \subseteq Projects
        /\ page = [page EXCEPT !.project = page.project]
    BY PageType DEF Setting, Page
  <1>2. ASSUME NEW u \in setting.users, Login(f, u)
        PROVE  \E x \in Fetch, p \in Projects \cup { None } : Sends(x, p)
    <2> DEFINE x == Request("token", None, u)
    <2>0. u \in Users /\ "token" \in Kinds \ { "action" }
      BY <1>1 DEF Kinds
    <2>1. /\ x \in Fetch /\ FetchOK(x) /\ x.kind = "token"
          /\ x.answer = "none"
      BY <2>0, NewRequest, SimpleRequest
    <2>2. Send(f, x) /\ page' = page
      BY <1>2 DEF Login
    <2> HIDE DEF x
    <2> QED
      BY <1>1, <2>1, <2>2
  <1>3. ASSUME NEW p \in Projects \cup { None }, page.open,
               Send(f, Request("lists", page.token, p)),
               page' = [page EXCEPT !.project = p]
        PROVE  \E x \in Fetch, i \in Projects \cup { None } : Sends(x, i)
    <2> DEFINE x == Request("lists", page.token, p)
    <2>1. /\ x \in Fetch /\ FetchOK(x) /\ x.kind = "lists" /\ x.of = p
          /\ x.by = page.token /\ x.answer = "none"
      BY <1>1, NewRequest, SimpleRequest DEF Kinds
    <2>2. Send(f, x)
      BY <1>3
    <2> HIDE DEF x
    <2>3. Sends(x, p)
      BY <1>3, <2>1, <2>2
    <2> QED
      BY <2>1, <2>3
  <1>4. ASSUME NEW p \in setting.projects, SelectProject(f, p)
        PROVE  \E x \in Fetch, i \in Projects \cup { None } : Sends(x, i)
    BY <1>1, <1>3, <1>4 DEF SelectProject
  <1>5. ASSUME RefreshProject(f)
        PROVE  \E x \in Fetch, p \in Projects \cup { None } : Sends(x, p)
    BY <1>1, <1>3, <1>5 DEF RefreshProject
  <1>6. ASSUME NEW r \in Releases, NEW a \in Actions, Transition(f, r, a)
        PROVE  \E x \in Fetch, p \in Projects \cup { None } : Sends(x, p)
    <2>1. PICK x \in Fetch :
             /\ FetchOK(x) /\ Send(f, x)
             /\ x.kind = "action" /\ x.by = page.token /\ x.answer = "none"
      BY <1>6, TransitionSends
    <2>2. page' = page /\ page.open
      BY <1>6 DEF Transition
    <2> QED
      BY <1>1, <2>1, <2>2
  <1>7. ASSUME ReleaseForm(f)
        PROVE  \E x \in Fetch, p \in Projects \cup { None } : Sends(x, p)
    <2> DEFINE x == Request("form", page.token, page.project)
    <2>1. /\ x \in Fetch /\ FetchOK(x) /\ x.kind = "form"
          /\ x.by = page.token /\ x.answer = "none"
      BY <1>1, NewRequest, SimpleRequest DEF Kinds
    <2>2. Send(f, x) /\ page' = page /\ page.open
      BY <1>7 DEF ReleaseForm
    <2> HIDE DEF x
    <2> QED
      BY <1>1, <2>1, <2>2
  <1>8. CanSend(f)
    BY DEF Click, Login, SelectProject, RefreshProject, Transition,
           ReleaseForm
  <1>9. \E x \in Fetch, p \in Projects \cup { None } : Sends(x, p)
    BY <1>2, <1>4, <1>5, <1>6, <1>7 DEF Click
  <1> QED
    BY <1>8, <1>9

LEMMA ClickKeeps ==
  ASSUME ButtonsInv, NEW f \in Fetches, Click(f), UNCHANGED setting
  PROVE  ButtonsInv'
  <1>1. PICK x \in Fetch, p \in Projects \cup { None } :
           /\ FetchOK(x) /\ Send(f, x)
           /\ page' = [page EXCEPT !.project = p]
    BY ClickSends
  <1>2. page' \in Page /\ page'.cards = page.cards
    BY <1>1, PageType DEF Page
  <1> QED
    BY <1>1, <1>2, SendKeeps

-----------------------------------------------------------------------------
(***************************************************************************)
(* The service, or nobody, answers.                                        *)
(***************************************************************************)
LEMMA AnswerSets ==
  ASSUME ButtonsInv, NEW f \in Fetches, fetch[f] # Idle,
         NEW answer \in Answers,
         NEW got \in Statuses \cup Lists \cup { None },
         Reply(f, answer, got)
  PROVE  \E x \in Fetch :
            /\ fetch' = [fetch EXCEPT ![f] = x]
            /\ x.answer = answer /\ x.got = got
            /\ x.kind = fetch[f].kind /\ x.by = fetch[f].by
            /\ x.of = fetch[f].of /\ x.action = fetch[f].action
            /\ x.saw = fetch[f].saw /\ x.shownTo = fetch[f].shownTo
  <1>1. PICK old \in Fetch : old = fetch[f]
    BY FetchType
  <1>2. PICK x : x = [old EXCEPT !.answer = answer, !.got = got]
    OBVIOUS
  <1>3. /\ x \in Fetch /\ x.answer = answer /\ x.got = got
        /\ x.kind = old.kind /\ x.by = old.by /\ x.of = old.of
        /\ x.action = old.action /\ x.saw = old.saw
        /\ x.shownTo = old.shownTo
    BY <1>2 DEF Fetch
  <1>4. fetch' = [fetch EXCEPT ![f] = x]
    BY <1>1, <1>2 DEF Reply
  <1> QED
    BY <1>1, <1>3, <1>4

LEMMA AnswerKeeps ==
  ASSUME ButtonsInv, NEW f \in Fetches, fetch[f] # Idle,
         NEW answer \in Answers,
         NEW got \in Statuses \cup Lists \cup { None },
         Reply(f, answer, got), UNCHANGED << setting, page >>,
         stored' \subseteq Releases, status' \in [Releases -> Statuses],
         fetch[f].kind = "lists" /\ answer = "ok" => got \in Lists,
         fetch[f].kind = "action" /\ answer = "status" =>
            got \notin Lifecycle!Expected(fetch[f].action),
         fetch[f].kind = "action" /\ answer = "role" =>
            ~MayByRole(fetch[f].action, fetch[f].by)
  PROVE  ButtonsInv'
  <1>1. PICK x \in Fetch :
            /\ fetch' = [fetch EXCEPT ![f] = x]
            /\ x.answer = answer /\ x.got = got
            /\ x.kind = fetch[f].kind /\ x.by = fetch[f].by
            /\ x.of = fetch[f].of /\ x.action = fetch[f].action
            /\ x.saw = fetch[f].saw /\ x.shownTo = fetch[f].shownTo
    BY AnswerSets
  <1>2. IsOfItsKind(x) /\ ClickIsJudged(x)
    BY <1>1, FetchType DEF IsOfItsKind, ClickIsJudged
  <1>3. FetchOK(x) /\ page' \in Page
    BY <1>2, PageType DEF FetchOK
  <1> QED
    BY <1>1, <1>3, HandlerStep

(***************************************************************************)
(* An action moves one release, along an edge of the lifecycle.            *)
(***************************************************************************)
LEMMA MoveType ==
  ASSUME status \in [Releases -> Statuses], NEW r, NEW a,
         NEW to \in Statuses, Lifecycle!Move(r, a, to)
  PROVE  status' \in [Releases -> Statuses]
  BY DEF Lifecycle!Move

LEMMA LifecycleTypes ==
  ASSUME status \in [Releases -> Statuses]
  PROVE  /\ \A a, r : Do(a, r) => status' \in [Releases -> Statuses]
         /\ Lifecycle!Next => status' \in [Releases -> Statuses]
  <1>1. /\ { "draft", "pending_approval", "approved", "rejected",
             "scheduled", "deploying", "deployed", "failed", "rolled_back",
             "cancelled" } \subseteq Statuses
    BY DEF Statuses, Lifecycle!Statuses
  <1>2. ASSUME NEW r, Lifecycle!Submit(r)
        PROVE  status' \in [Releases -> Statuses]
    BY <1>1, <1>2, MoveType DEF Lifecycle!Submit
  <1>3. ASSUME NEW r, \/ Lifecycle!Approve(r) \/ Lifecycle!Reject(r)
                     \/ Lifecycle!Schedule(r) \/ Lifecycle!DeployNow(r)
                     \/ Lifecycle!Complete(r) \/ Lifecycle!Fail(r)
                     \/ Lifecycle!Rollback(r) \/ Lifecycle!Cancel(r)
        PROVE  status' \in [Releases -> Statuses]
    BY <1>1, <1>3, MoveType
       DEF Lifecycle!Approve, Lifecycle!Reject, Lifecycle!Schedule,
           Lifecycle!DeployNow, Lifecycle!Complete, Lifecycle!Fail,
           Lifecycle!Rollback, Lifecycle!Cancel
  <1>4. ASSUME NEW batch, Lifecycle!Activate(batch)
        PROVE  status' \in [Releases -> Statuses]
    BY <1>1, <1>4 DEF Lifecycle!Activate
  <1> QED
    BY <1>2, <1>3, <1>4 DEF Do, Lifecycle!Next

LEMMA ListType ==
  ASSUME ButtonsInv, NEW p
  PROVE  ReleasesOf(p) \in Lists
  <1> DEFINE S == { x \in stored : ProjectOf[x] = p }
  <1>1. S \in SUBSET Releases /\ status \in [Releases -> Statuses]
    BY DEF ButtonsInv, TypeInv
  <1>2. ReleasesOf(p) \in [S -> Statuses]
    BY <1>1 DEF ReleasesOf
  <1> QED
    BY <1>1, <1>2 DEF Lists

LEMMA HandleActionKeeps ==
  ASSUME ButtonsInv, NEW f \in Fetches, fetch[f] # Idle,
         fetch[f].kind = "action",
         NEW verdict \in { "ok", "role", "status", "owner", "early" },
         HandleAction(f, verdict), UNCHANGED << setting, page >>
  PROVE  ButtonsInv'
  <1>1. PICK s : s = status[fetch[f].of]
    OBVIOUS
  <1>2. /\ fetch[f].of \in Releases /\ status \in [Releases -> Statuses]
        /\ stored \subseteq Releases
    BY FetchType DEF IsOfItsKind, ButtonsInv, TypeInv
  <1>3. /\ verdict \in Verdicts(fetch[f].action, fetch[f].of, fetch[f].by)
        /\ Reply(f, verdict, s) /\ stored' = stored
        /\ Do(fetch[f].action, fetch[f].of) \/ status' = status
    BY <1>1 DEF HandleAction
  <1>4. status' \in [Releases -> Statuses]
    BY <1>2, <1>3, LifecycleTypes
  <1>5. s \in Statuses /\ verdict \in Answers
    BY <1>1, <1>2 DEF Answers
  <1>6. /\ verdict = "status" =>
              s \notin Lifecycle!Expected(fetch[f].action)
        /\ verdict = "role" => ~MayByRole(fetch[f].action, fetch[f].by)
    BY <1>1, <1>3, VerdictsMean
  <1> QED
    BY <1>2, <1>3, <1>4, <1>5, <1>6, AnswerKeeps

(***************************************************************************)
(* An answer that says nothing of an action and brings no list.            *)
(***************************************************************************)
LEMMA PlainAnswerKeeps ==
  ASSUME ButtonsInv, NEW f \in Fetches, fetch[f] # Idle,
         NEW answer \in { "ok", "failed", "unauthorized" },
         Reply(f, answer, None), UNCHANGED << setting, page, status >>,
         stored' \subseteq Releases,
         ~(fetch[f].kind = "lists" /\ answer = "ok")
  PROVE  ButtonsInv'
  <1>1. answer \in Answers /\ status' \in [Releases -> Statuses]
    BY DEF Answers, ButtonsInv, TypeInv
  <1> QED
    BY <1>1, AnswerKeeps

LEMMA ServeKeeps ==
  ASSUME ButtonsInv, NEW f \in Fetches, Serve(f), UNCHANGED setting
  PROVE  ButtonsInv'
  <1>1. fetch[f] # Idle /\ page' = page /\ stored \subseteq Releases
        /\ status \in [Releases -> Statuses]
    BY DEF Serve, ButtonsInv, TypeInv
  <1>2. CASE Unauthorized(f)
    BY <1>1, <1>2, PlainAnswerKeeps DEF Unauthorized, server
  <1>3. ASSUME fetch[f].kind = "action",
               NEW verdict \in { "ok", "role", "status", "owner", "early" },
               HandleAction(f, verdict)
        PROVE  ButtonsInv'
    BY <1>1, <1>3, HandleActionKeeps
  <1>4. ASSUME fetch[f].kind = "form", NEW r \in Releases, HandleForm(f, r)
        PROVE  ButtonsInv'
    <2>1. /\ stored' \subseteq Releases /\ status' = status
          /\ Reply(f, "ok", None)
      BY <1>1, <1>4 DEF HandleForm
    <2> QED
      BY <1>1, <1>4, <2>1, PlainAnswerKeeps
  <1>5. CASE fetch[f].kind \notin { "action", "form" } /\ HandleQuery(f)
    <2>1. CASE fetch[f].kind = "lists"
      <3>1. PICK l : l = ReleasesOf(fetch[f].of)
        OBVIOUS
      <3>2. /\ Reply(f, "ok", l) /\ l \in Lists /\ UNCHANGED server
            /\ "ok" \in Answers
        BY <1>5, <2>1, <3>1, ListType DEF HandleQuery, Answers
      <3> QED
        BY <1>1, <2>1, <3>2, AnswerKeeps DEF server
    <2>2. CASE fetch[f].kind # "lists"
      BY <1>1, <1>5, <2>2, PlainAnswerKeeps DEF HandleQuery, server
    <2> QED
      BY <2>1, <2>2
  <1> QED
    BY <1>2, <1>3, <1>4, <1>5 DEF Serve

LEMMA NoAnswerKeeps ==
  ASSUME ButtonsInv, NEW f \in Fetches, Expire(f) \/ Break(f),
         UNCHANGED setting
  PROVE  ButtonsInv'
  <1>1. /\ fetch[f] # Idle /\ UNCHANGED << server, page >>
        /\ Reply(f, "unauthorized", None) \/ Reply(f, "failed", None)
    BY DEF Expire, Break, Unauthorized
  <1>2. stored' \subseteq Releases /\ status' = status
    BY <1>1 DEF server, ButtonsInv, TypeInv
  <1> QED
    BY <1>1, <1>2, PlainAnswerKeeps

LEMMA ElsewhereKeeps ==
  ASSUME ButtonsInv, Elsewhere, UNCHANGED setting
  PROVE  ButtonsInv'
  <1>1. /\ Lifecycle!Next /\ UNCHANGED << stored, page, fetch >>
        /\ status \in [Releases -> Statuses]
    BY DEF Elsewhere, ButtonsInv, TypeInv
  <1>2. status' \in [Releases -> Statuses]
    BY <1>1, LifecycleTypes
  <1> QED
    BY <1>1, <1>2 DEF ButtonsInv, TypeInv, CardsAreForUser

-----------------------------------------------------------------------------
(***************************************************************************)
(* The handlers of the page go on: what each renders, and what it sends    *)
(* next.                                                                   *)
(***************************************************************************)
Sends(f, kind, of) ==
    \E x \in Fetch :
        /\ FetchOK(x) /\ Send(f, x)
        /\ x.kind = kind /\ x.of = of /\ x.answer = "none"
        /\ x.by = page'.token

LEMMA ThenSends ==
  ASSUME NEW f \in Fetches,
         NEW kind \in { "me", "projects", "lists", "audit" },
         NEW of \in Projects \cup { None }, Then(f, kind, of), page' \in Page
  PROVE  Sends(f, kind, of)
  <1>1. PICK t \in Users \cup { None } : t = page'.token
    BY DEF Page
  <1>2. Send(f, Request(kind, t, of))
    BY <1>1 DEF Then
  <1>3. /\ Request(kind, t, of) \in Fetch
        /\ FetchOK(Request(kind, t, of))
        /\ Request(kind, t, of).kind = kind
        /\ Request(kind, t, of).by = t
        /\ Request(kind, t, of).of = of
        /\ Request(kind, t, of).answer = "none"
    BY <1>1, NewRequest, SimpleRequest DEF Kinds
  <1> QED
    BY <1>1, <1>2, <1>3 DEF Sends

LEMMA OnTokenSends ==
  ASSUME ButtonsInv, NEW f \in Fetches, OnToken(f)
  PROVE  /\ page' = [page EXCEPT !.token = fetch[f].of]
         /\ fetch[f].of \in Users /\ page' \in Page
         /\ Sends(f, "me", None)
  <1>1. /\ fetch[f].kind = "token" /\ Then(f, "me", None)
        /\ page' = [page EXCEPT !.token = fetch[f].of]
    BY DEF OnToken, Answered
  <1>2. fetch[f].of \in Users
    BY <1>1, NotIdle, FetchType DEF IsOfItsKind, Kinds
  <1>3. page' \in Page
    BY <1>1, <1>2, PageType DEF Page
  <1> QED
    BY <1>1, <1>2, <1>3, ThenSends

LEMMA OnMeSends ==
  ASSUME ButtonsInv, NEW f \in Fetches, OnMe(f)
  PROVE  /\ page' = [page EXCEPT !.user = fetch[f].by, !.open = TRUE]
         /\ page' \in Page
         /\ Sends(f, "projects", None)
  <1>1. /\ fetch[f].kind = "me" /\ Then(f, "projects", None)
        /\ page' = [page EXCEPT !.user = fetch[f].by, !.open = TRUE]
    BY DEF OnMe, Answered
  <1>2. fetch[f].by \in Users \cup { None }
    BY <1>1, NotIdle, FetchType DEF Kinds
  <1>3. page' \in Page
    BY <1>1, <1>2, PageType DEF Page
  <1> QED
    BY <1>1, <1>3, ThenSends

LEMMA OnProjectsSends ==
  ASSUME ButtonsInv, NEW f \in Fetches, OnProjects(f)
  PROVE  \/ /\ page' = [page EXCEPT !.project = First]
            /\ page' \in Page
            /\ Sends(f, "lists", First)
         \/ page' = page /\ End(f) /\ page.project # None
  <1>1. CASE page.project = None
    <2>1. /\ page' = [page EXCEPT !.project = First]
          /\ Then(f, "lists", First)
      BY <1>1 DEF OnProjects
    <2>2. First \in Projects \cup { None }
      BY DashboardAssumption
    <2>3. page' \in Page
      BY <2>1, <2>2, PageType DEF Page
    <2> QED
      BY <2>1, <2>2, <2>3, ThenSends
  <1>2. CASE page.project # None
    BY <1>2 DEF OnProjects
  <1> QED
    BY <1>1, <1>2

LEMMA OnListsSends ==
  ASSUME ButtonsInv, NEW f \in Fetches, OnLists(f)
  PROVE  /\ page' \in Page
         /\ page'.token = page.token /\ page'.user = page.user
         /\ page'.open = page.open /\ page'.project = page.project
         /\ page'.envs = fetch[f].of
         /\ page'.cards = page.cards \/ CardsAreForUser'
         /\ page.user # None => /\ page'.cards.of = fetch[f].of
                               /\ Sends(f, "audit", page.project)
         /\ Sends(f, "audit", page.project) \/ End(f)
  <1> DEFINE shown == [ of |-> fetch[f].of, user |-> page.user,
                        list |-> fetch[f].got ]
  <1>1. PICK cards : cards = IF Throws(f) THEN page.cards ELSE shown
    OBVIOUS
  <1>2. /\ fetch[f].kind = "lists" /\ fetch[f].answer = "ok"
        /\ page' = [page EXCEPT !.envs = fetch[f].of, !.cards = cards]
    BY <1>1 DEF OnLists, Answered
  <1>3. /\ fetch[f].of \in Projects \cup { None }
        /\ fetch[f].got \in Lists
    BY <1>2, NotIdle, FetchType DEF IsOfItsKind, Kinds
  <1>4. shown \in Cards
    BY <1>3, PageType DEF Cards
  <1>5. cards \in Cards
    BY <1>1, <1>4, PageType
  <1>6. /\ page' \in Page
        /\ page'.token = page.token /\ page'.user = page.user
        /\ page'.open = page.open /\ page'.project = page.project
        /\ page'.envs = fetch[f].of /\ page'.cards = cards
    BY <1>2, <1>3, <1>5, PageType DEF Page
  <1>7. ~Throws(f) => CardsAreForUser'
    <2>1. shown.user = page.user /\ shown.list = fetch[f].got
      OBVIOUS
    <2> HIDE DEF shown
    <2> QED
      BY <1>1, <1>6, <2>1 DEF Throws, CardsAreForUser
  <1>8. ~Throws(f) => Sends(f, "audit", page.project)
    <2>1. ~Throws(f) => Then(f, "audit", page.project)
      BY DEF OnLists
    <2> QED
      BY <1>6, <2>1, PageType, ThenSends
  <1>9. Throws(f) => End(f) /\ page.user = None /\ cards = page.cards
    BY <1>1 DEF OnLists, Throws
  <1>10. ~Throws(f) => cards.of = fetch[f].of
    BY <1>1
  <1> QED
    BY <1>6, <1>7, <1>8, <1>9, <1>10

LEMMA OnAuditSends ==
  ASSUME ButtonsInv, NEW f \in Fetches, OnAudit(f)
  PROVE  /\ page' = [page EXCEPT !.audit = fetch[f].of]
         /\ page' \in Page
         /\ End(f)
  <1>1. /\ fetch[f].kind = "audit" /\ End(f)
        /\ page' = [page EXCEPT !.audit = fetch[f].of]
    BY DEF OnAudit, Answered
  <1>2. fetch[f].of \in Projects \cup { None }
    BY <1>1, NotIdle, FetchType DEF IsOfItsKind, Kinds
  <1> QED
    BY <1>1, <1>2, PageType DEF Page

LEMMA OnActionSends ==
  ASSUME ButtonsInv, NEW f \in Fetches, OnAction(f)
  PROVE  page' = page /\ Sends(f, "lists", page.project)
  BY PageType, ThenSends DEF OnAction

LEMMA OnErrorSends ==
  ASSUME ButtonsInv, NEW f \in Fetches, OnError(f)
  PROVE  /\ page' = page \/ page' = LoggedOut
         /\ fetch[f].answer # "unauthorized" => page' = page
         /\ page' \in Page /\ page'.cards = page.cards
         /\ End(f)
  <1>1. /\ page' = page \/ page' = LoggedOut
        /\ fetch[f].answer # "unauthorized" => page' = page
        /\ End(f)
    BY DEF OnError, AfterError
  <1>2. LoggedOut \in Page /\ LoggedOut.cards = page.cards
    BY PageType DEF LoggedOut, Page
  <1> QED
    BY <1>1, <1>2, PageType

LEMMA SendsKeeps ==
  ASSUME ButtonsInv, NEW f \in Fetches, UNCHANGED setting, page' \in Page,
         page'.cards = page.cards \/ CardsAreForUser',
         (\E kind, of : Sends(f, kind, of)) \/ End(f)
  PROVE  ButtonsInv'
  BY SendKeeps, IdleIsRight DEF Sends, End

LEMMA ContinueKeeps ==
  ASSUME ButtonsInv, NEW f \in Fetches, Continue(f), UNCHANGED setting
  PROVE  ButtonsInv'
  <1>1. CASE OnToken(f)
    <2>1. page' \in Page /\ page'.cards = page.cards
      BY <1>1, OnTokenSends, PageType DEF Page
    <2> QED
      BY <1>1, <2>1, OnTokenSends, SendsKeeps
  <1>2. CASE OnMe(f)
    <2>1. page' \in Page /\ page'.cards = page.cards
      BY <1>2, OnMeSends, PageType DEF Page
    <2> QED
      BY <1>2, <2>1, OnMeSends, SendsKeeps
  <1>3. CASE OnProjects(f)
    <2>1. page' \in Page /\ page'.cards = page.cards
      BY <1>3, OnProjectsSends, PageType DEF Page
    <2> QED
      BY <1>3, <2>1, OnProjectsSends, SendsKeeps
  <1>4. CASE OnLists(f)
    BY <1>4, OnListsSends, SendsKeeps
  <1>5. CASE OnAudit(f)
    <2>1. page' \in Page /\ page'.cards = page.cards
      BY <1>5, OnAuditSends, PageType DEF Page
    <2> QED
      BY <1>5, <2>1, OnAuditSends, SendsKeeps
  <1>6. CASE OnAction(f)
    BY <1>6, OnActionSends, PageType, SendsKeeps
  <1>7. CASE OnForm(f)
    BY <1>7, PageType, SendsKeeps DEF OnForm
  <1>8. CASE OnError(f)
    BY <1>8, OnErrorSends, SendsKeeps
  <1> QED
    BY <1>1, <1>2, <1>3, <1>4, <1>5, <1>6, <1>7, <1>8 DEF Continue

LEMMA LogoutKeeps ==
  ASSUME ButtonsInv, Logout, UNCHANGED setting
  PROVE  ButtonsInv'
  <1>1. page' \in Page /\ page'.cards = page.cards
    BY PageType DEF Logout, LoggedOut, Page
  <1> QED
    BY <1>1 DEF Logout, ButtonsInv, TypeInv, CardsAreForUser, server

-----------------------------------------------------------------------------
(***************************************************************************)
(* The patient user.  One handler is under way, or none.                   *)
(***************************************************************************)
LEMMA OthersIdle ==
  ASSUME PatientInv, Patient, NEW f \in Fetches, fetch[f] # Idle
  PROVE  /\ \A g \in Fetches \ {f} : fetch[g] = Idle
         /\ UnderWay(fetch[f]) /\ OpenIsSignedIn
  BY DEF PatientInv, OneInFlight

LEMMA PatientStep ==
  ASSUME ButtonsInv, Patient, UNCHANGED setting, NEW f \in Fetches,
         \A g \in Fetches \ {f} : fetch[g] = Idle,
         NEW x, fetch' = [fetch EXCEPT ![f] = x],
         OpenIsSignedIn',
         x = Idle => Settled',
         x # Idle => UnderWay(x)'
  PROVE  PatientInv'
  <1>1. /\ fetch'[f] = x
        /\ \A g \in Fetches \ {f} : fetch'[g] = Idle
    BY DEF ButtonsInv, TypeInv
  <1>2. OneInFlight'
    BY <1>1 DEF OneInFlight
  <1>3. Quiet' => Settled'
    BY <1>1 DEF Quiet
  <1>4. ASSUME NEW g \in Fetches, fetch'[g] # Idle
        PROVE  UnderWay(fetch[g])'
    <2>1. g = f
      BY <1>1, <1>4
    <2> QED
      BY <1>1, <1>4, <2>1 DEF UnderWay, Settled
  <1> QED
    BY <1>2, <1>3, <1>4 DEF PatientInv

LEMMA PatientClick ==
  ASSUME PageInv, Patient, UNCHANGED setting, NEW f \in Fetches, Click(f)
  PROVE  PatientInv'
  <1>1. CanSend(f) /\ ButtonsInv
    BY ClickSends DEF PageInv
  <1>2. /\ \A g \in Fetches \ {f} : fetch[g] = Idle
        /\ Settled /\ OpenIsSignedIn
    BY <1>1 DEF CanSend, Quiet, Patient, PageInv, PatientInv
  <1>3. PICK x \in Fetch, p \in Projects \cup { None } :
           /\ Send(f, x) /\ x.answer = "none"
           /\ page' = [page EXCEPT !.project = p]
           /\ p # page.project => x.kind = "lists"
           /\ x.kind # "token" => page.open /\ x.by = page.token
           /\ x.kind \in { "token", "lists", "form", "action" }
           /\ x.kind = "lists" => x.of = p
    BY <1>1, ClickSends
  <1>4. /\ page'.project = p /\ page'.open = page.open
        /\ page'.token = page.token /\ page'.user = page.user
        /\ page'.envs = page.envs /\ page'.cards = page.cards
        /\ page'.audit = page.audit
    BY <1>1, <1>3, PageType DEF Page
  <1>5. x.kind # "lists" => Settled'
    BY <1>2, <1>3, <1>4 DEF Settled
  <1>6. OpenIsSignedIn' /\ UnderWay(x)'
    BY <1>2, <1>3, <1>4, <1>5 DEF OpenIsSignedIn, UnderWay
  <1>7. fetch' = [fetch EXCEPT ![f] = x] /\ x # Idle
    BY <1>3, NotIdle DEF Send
  <1> QED
    BY <1>1, <1>2, <1>6, <1>7, PatientStep

LEMMA PatientAnswer ==
  ASSUME PageInv, Patient, UNCHANGED << setting, page >>,
         NEW f \in Fetches, fetch[f] # Idle,
         NEW answer \in Answers \ { "unauthorized" },
         NEW got \in Statuses \cup Lists \cup { None },
         Reply(f, answer, got),
         fetch[f].kind \notin { "action", "form" } =>
            answer \in { "none", "ok" }
  PROVE  PatientInv'
  <1>1. ButtonsInv /\ PatientInv
    BY DEF PageInv
  <1>2. PICK x \in Fetch :
            /\ fetch' = [fetch EXCEPT ![f] = x]
            /\ x.answer = answer
            /\ x.kind = fetch[f].kind /\ x.by = fetch[f].by
            /\ x.of = fetch[f].of
    BY <1>1, AnswerSets
  <1>3. /\ \A g \in Fetches \ {f} : fetch[g] = Idle
        /\ UnderWay(fetch[f]) /\ OpenIsSignedIn
    BY <1>1, OthersIdle
  <1>4. OpenIsSignedIn' /\ UnderWay(x)'
    BY <1>2, <1>3 DEF OpenIsSignedIn, UnderWay, Settled
  <1> QED
    BY <1>1, <1>2, <1>3, <1>4, NotIdle, PatientStep

LEMMA PatientServe ==
  ASSUME PageInv, Patient, UNCHANGED setting, NEW f \in Fetches, Serve(f)
  PROVE  PatientInv'
  <1>1. fetch[f] # Idle /\ page' = page /\ ButtonsInv /\ PatientInv
    BY DEF Serve, PageInv
  <1>2. UnderWay(fetch[f])
    BY <1>1, OthersIdle
  <1>3. fetch[f].by # None \/ fetch[f].kind = "token"
    BY <1>2 DEF UnderWay
  <1>4. ASSUME NEW verdict \in { "ok", "role", "status", "owner", "early" },
               fetch[f].kind = "action", HandleAction(f, verdict)
        PROVE  PatientInv'
    <2>1. PICK s : s = status[fetch[f].of]
      OBVIOUS
    <2>2. s \in Statuses
      BY <1>1, <1>4, <2>1, FetchType DEF IsOfItsKind, ButtonsInv, TypeInv
    <2>3. Reply(f, verdict, s) /\ verdict \in Answers \ { "unauthorized" }
      BY <1>4, <2>1 DEF HandleAction, Answers
    <2> QED
      BY <1>1, <1>4, <2>2, <2>3, PatientAnswer
  <1>5. "ok" \in Answers \ { "unauthorized" }
    BY DEF Answers
  <1>6. ASSUME NEW r \in Releases, HandleForm(f, r)
        PROVE  PatientInv'
    BY <1>1, <1>5, <1>6, PatientAnswer DEF HandleForm
  <1>7. CASE HandleQuery(f)
    <2>1. PICK got : got = IF fetch[f].kind = "lists"
                           THEN ReleasesOf(fetch[f].of) ELSE None
      OBVIOUS
    <2>2. got \in Lists \cup { None } /\ Reply(f, "ok", got)
      BY <1>1, <1>7, <2>1, ListType DEF HandleQuery
    <2> QED
      BY <1>1, <1>5, <2>2, PatientAnswer
  <1> QED
    BY <1>3, <1>4, <1>6, <1>7 DEF Serve

LEMMA PatientNoAnswer ==
  ASSUME PageInv, Patient, UNCHANGED setting, NEW f \in Fetches,
         Expire(f) \/ Break(f)
  PROVE  PatientInv'
  <1>1. /\ fetch[f] # Idle /\ fetch[f].kind = "form" /\ page' = page
        /\ Reply(f, "failed", None)
    BY DEF Patient, Expire, Break
  <1>2. "failed" \in Answers \ { "unauthorized" }
    BY DEF Answers
  <1> QED
    BY <1>1, <1>2, PatientAnswer

(***************************************************************************)
(* The handler that is under way goes on: it sends a request with which it *)
(* is under way again, or ends with the page settled.                      *)
(***************************************************************************)
LEMMA PatientSends ==
  ASSUME PageInv, Patient, UNCHANGED setting, NEW f \in Fetches,
         fetch[f] # Idle, NEW kind \in Kinds, NEW of, Sends(f, kind, of),
         OpenIsSignedIn',
         \A x : /\ x.kind = kind /\ x.of = of /\ x.answer = "none"
               /\ x.by = page'.token
               => UnderWay(x)'
  PROVE  PatientInv'
  <1>1. ButtonsInv /\ \A g \in Fetches \ {f} : fetch[g] = Idle
    BY OthersIdle DEF PageInv
  <1>2. PICK x \in Fetch :
            /\ fetch' = [fetch EXCEPT ![f] = x]
            /\ x.kind = kind /\ x.of = of /\ x.answer = "none"
            /\ x.by = page'.token
    BY DEF Sends, Send
  <1>3. UnderWay(x)' /\ x # Idle
    BY <1>2, NotIdle
  <1> QED
    BY <1>1, <1>2, <1>3, PatientStep

LEMMA PatientEnd ==
  ASSUME PageInv, Patient, UNCHANGED setting, NEW f \in Fetches,
         fetch[f] # Idle, End(f), OpenIsSignedIn', Settled'
  PROVE  PatientInv'
  <1>1. ButtonsInv /\ \A g \in Fetches \ {f} : fetch[g] = Idle
    BY OthersIdle DEF PageInv
  <1>2. fetch' = [fetch EXCEPT ![f] = Idle]
    BY DEF End, Send
  <1> QED
    BY <1>1, <1>2, PatientStep

LEMMA PatientContinue ==
  ASSUME PageInv, Patient, UNCHANGED setting, NEW f \in Fetches, Continue(f)
  PROVE  PatientInv'
  <1>1. fetch[f].kind \in Kinds \/ fetch[f] # Idle
    BY DEF Continue, OnToken, OnMe, OnProjects, OnLists, OnAudit, OnAction,
           OnForm, OnError, Answered, Kinds
  <1>2. fetch[f] # Idle /\ ButtonsInv /\ page \in Page
    BY <1>1, NotIdle, PageType DEF PageInv
  <1>3. UnderWay(fetch[f]) /\ OpenIsSignedIn
    BY <1>2, OthersIdle DEF PageInv
  <1>4. { "me", "projects", "lists", "audit" } \subseteq Kinds
    BY DEF Kinds
  <1>5. CASE OnToken(f)
    <2>1. /\ page' = [page EXCEPT !.token = fetch[f].of]
          /\ fetch[f].of \in Users /\ Sends(f, "me", None)
          /\ fetch[f].kind = "token"
      BY <1>2, <1>5, OnTokenSends DEF OnToken, Answered
    <2>2. /\ page'.token = fetch[f].of /\ page'.token # None
          /\ page'.user = page.user /\ page'.open = page.open
          /\ page'.project = page.project /\ page'.envs = page.envs
          /\ page'.cards = page.cards /\ page'.audit = page.audit
      BY <1>2, <2>1, DashboardAssumption DEF Page
    <2>3. OpenIsSignedIn' /\ Settled'
      BY <1>3, <2>1, <2>2 DEF OpenIsSignedIn, UnderWay, Settled
    <2>4. \A x : /\ x.kind = "me" /\ x.of = None /\ x.answer = "none"
                /\ x.by = page'.token
                => UnderWay(x)'
      BY <2>2, <2>3 DEF UnderWay
    <2> QED
      BY <1>2, <1>4, <2>1, <2>3, <2>4, PatientSends
  <1>6. CASE OnMe(f)
    <2>1. /\ page' = [page EXCEPT !.user = fetch[f].by, !.open = TRUE]
          /\ Sends(f, "projects", None) /\ fetch[f].kind = "me"
      BY <1>2, <1>6, OnMeSends DEF OnMe, Answered
    <2>2. /\ page'.user = fetch[f].by /\ page'.open
          /\ page'.token = page.token
          /\ page'.project = page.project /\ page'.envs = page.envs
          /\ page'.cards = page.cards /\ page'.audit = page.audit
      BY <1>2, <2>1 DEF Page
    <2>3. OpenIsSignedIn' /\ Settled' /\ page'.token # None
      BY <1>3, <2>1, <2>2 DEF OpenIsSignedIn, UnderWay, Settled
    <2>4. \A x : /\ x.kind = "projects" /\ x.of = None
                /\ x.answer = "none" /\ x.by = page'.token
                => UnderWay(x)'
      BY <2>2, <2>3 DEF UnderWay
    <2> QED
      BY <1>2, <1>4, <2>1, <2>3, <2>4, PatientSends
  <1>7. CASE OnProjects(f)
    <2>1. fetch[f].kind = "projects"
      BY <1>7 DEF OnProjects, Answered
    <2>2. page.open /\ page.token # None /\ page.user # None /\ Settled
      BY <1>3, <2>1 DEF UnderWay, OpenIsSignedIn
    <2>3. ASSUME page' = [page EXCEPT !.project = First],
                 Sends(f, "lists", First)
          PROVE  PatientInv'
      <3>1. /\ page'.project = First /\ page'.open = page.open
            /\ page'.token = page.token /\ page'.user = page.user
        BY <1>2, <2>3 DEF Page
      <3>2. OpenIsSignedIn'
        BY <2>2, <3>1 DEF OpenIsSignedIn
      <3>3. \A x : /\ x.kind = "lists" /\ x.of = First
                  /\ x.answer = "none" /\ x.by = page'.token
                  => UnderWay(x)'
        BY <2>2, <3>1 DEF UnderWay
      <3> QED
        BY <1>2, <1>4, <2>3, <3>2, <3>3, PatientSends
    <2>4. ASSUME page' = page, End(f)
          PROVE  PatientInv'
      BY <1>2, <1>3, <2>2, <2>4, PatientEnd DEF Settled, OpenIsSignedIn
    <2> QED
      BY <1>2, <1>7, <2>3, <2>4, OnProjectsSends
  <1>8. CASE OnLists(f)
    <2>1. fetch[f].kind = "lists"
      BY <1>8 DEF OnLists, Answered
    <2>2. /\ page.open /\ page.token # None /\ page.user # None
          /\ fetch[f].of = page.project
      BY <1>3, <2>1 DEF UnderWay, OpenIsSignedIn
    <2>3. PICK p : p = page.project
      OBVIOUS
    <2>4. /\ page'.token = page.token /\ page'.user = page.user
          /\ page'.open = page.open /\ page'.project = p
          /\ page'.envs = p /\ page'.cards.of = p
          /\ Sends(f, "audit", p)
      BY <1>2, <1>8, <2>2, <2>3, OnListsSends
    <2>5. OpenIsSignedIn'
      BY <2>2, <2>4 DEF OpenIsSignedIn
    <2>6. \A x : /\ x.kind = "audit" /\ x.of = p /\ x.answer = "none"
                /\ x.by = page'.token
                => UnderWay(x)'
      BY <2>2, <2>4 DEF UnderWay
    <2> QED
      BY <1>2, <1>4, <2>4, <2>5, <2>6, PatientSends
  <1>9. CASE OnAudit(f)
    <2>1. /\ page' = [page EXCEPT !.audit = fetch[f].of] /\ End(f)
          /\ fetch[f].kind = "audit"
      BY <1>2, <1>9, OnAuditSends DEF OnAudit, Answered
    <2>2. /\ page'.audit = fetch[f].of
          /\ page'.token = page.token /\ page'.user = page.user
          /\ page'.open = page.open /\ page'.project = page.project
          /\ page'.envs = page.envs /\ page'.cards = page.cards
      BY <1>2, <2>1 DEF Page
    <2>3. OpenIsSignedIn' /\ Settled'
      BY <1>3, <2>1, <2>2 DEF OpenIsSignedIn, UnderWay, Settled
    <2> QED
      BY <1>2, <2>1, <2>3, PatientEnd
  <1>10. CASE OnAction(f)
    <2>1. fetch[f].kind = "action"
      BY <1>10 DEF OnAction, Answered
    <2>2. page.open /\ page.token # None
      BY <1>3, <2>1 DEF UnderWay
    <2>3. PICK p : p = page.project
      OBVIOUS
    <2>4. page' = page /\ Sends(f, "lists", p)
      BY <1>2, <1>10, <2>3, OnActionSends
    <2>5. OpenIsSignedIn'
      BY <1>3, <2>4 DEF OpenIsSignedIn
    <2>6. \A x : /\ x.kind = "lists" /\ x.of = p /\ x.answer = "none"
                /\ x.by = page'.token
                => UnderWay(x)'
      BY <2>2, <2>3, <2>4 DEF UnderWay
    <2> QED
      BY <1>2, <1>4, <2>4, <2>5, <2>6, PatientSends
  <1>11. CASE OnForm(f) \/ OnError(f)
    <2>1. fetch[f].kind \notin { "lists", "audit" }
      BY <1>3, <1>11 DEF OnForm, OnError, Answered, UnderWay
    <2>2. page' = page /\ End(f)
      BY <1>2, <1>3, <1>11, OnErrorSends DEF OnForm, UnderWay
    <2> QED
      BY <1>2, <1>3, <2>1, <2>2, PatientEnd
         DEF UnderWay, Settled, OpenIsSignedIn
  <1> QED
    BY <1>5, <1>6, <1>7, <1>8, <1>9, <1>10, <1>11 DEF Continue

LEMMA PatientLogout ==
  ASSUME PageInv, Patient, UNCHANGED setting, Logout
  PROVE  PatientInv'
  <1>1. page \in Page /\ Quiet /\ Settled /\ fetch' = fetch
    BY PageType DEF Logout, Patient, PageInv, PatientInv
  <1>2. /\ page'.open = FALSE /\ page'.project = page.project
        /\ page'.envs = page.envs /\ page'.cards = page.cards
        /\ page'.audit = page.audit
    BY <1>1 DEF Logout, LoggedOut, Page
  <1>3. OpenIsSignedIn' /\ Settled'
    BY <1>1, <1>2 DEF OpenIsSignedIn, Settled
  <1> QED
    BY <1>1, <1>3 DEF Quiet, PatientInv, OneInFlight

-----------------------------------------------------------------------------
(***************************************************************************)
(* The page when it is opened, without a token or with one of an earlier   *)
(* visit, which the request for the user is on its way with.               *)
(***************************************************************************)
LEMMA PageStart ==
  ASSUME Init
  PROVE  PageInv
  <1>1. /\ setting \in Settings /\ setting \in Setting
        /\ stored \subseteq Releases
        /\ status = [ r \in Releases |-> "draft" ]
    BY DashboardAssumption DEF Init, Setting, Lifecycle!Init
  <1>2. BlankPage \in Page
    <2>1. NoCards \in Cards
      BY DEF NoCards, Cards, Lists
    <2> QED
      BY <2>1 DEF BlankPage, Page
  <1>3. /\ NoCards.of = None /\ NoCards.list = << >>
        /\ BlankPage.project = None /\ BlankPage.envs = None
        /\ BlankPage.audit = None /\ BlankPage.cards = NoCards
        /\ BlankPage.open = FALSE
    BY DEF BlankPage, NoCards
  <1>4. ASSUME page \in Page, page.project = None, page.envs = None,
               page.audit = None, page.cards = NoCards, page.open = FALSE,
               fetch \in [Fetches -> Fetch \cup { Idle }],
               \A f \in Fetches : FetchOK(fetch[f]),
               OneInFlight,
               \A f \in Fetches : fetch[f] # Idle => UnderWay(fetch[f])
        PROVE  PageInv
    <2>1. TypeInv
      BY <1>1, <1>4 DEF TypeInv, Statuses, Lifecycle!Statuses
    <2>2. ButtonsInv
      BY <1>3, <1>4, <2>1 DEF ButtonsInv, CardsAreForUser
    <2>3. Settled /\ OpenIsSignedIn
      BY <1>3, <1>4 DEF Settled, OpenIsSignedIn
    <2> QED
      BY <1>4, <2>2, <2>3 DEF PageInv, PatientInv
  <1>5. CASE page = BlankPage /\ fetch = [ f \in Fetches |-> Idle ]
    <2>1. /\ \A f \in Fetches : fetch[f] = Idle
          /\ fetch \in [Fetches -> Fetch \cup { Idle }]
      BY <1>5
    <2>2. OneInFlight /\ \A f \in Fetches : FetchOK(fetch[f])
      BY <2>1 DEF OneInFlight, FetchOK
    <2> QED
      BY <1>2, <1>3, <1>4, <1>5, <2>1, <2>2
  <1>6. ASSUME NEW u \in setting.users, NEW f \in setting.fetches,
               Remembered(f, u)
        PROVE  PageInv
    <2> DEFINE x == Request("me", u, None)
    <2>1. u \in Users /\ f \in Fetches
      BY <1>1, <1>6 DEF Setting
    <2>2. x \in Fetch /\ FetchOK(x)
      BY <2>1, SimpleRequest DEF Kinds
    <2>3. x.kind = "me" /\ x.by = u /\ x.answer = "none"
      BY DEF Request
    <2>4. page = [BlankPage EXCEPT !.token = u]
          /\ fetch = [ g \in Fetches |-> IF g = f THEN x ELSE Idle ]
      BY <1>6 DEF Remembered
    <2> HIDE DEF x
    <2>5. /\ fetch \in [Fetches -> Fetch \cup { Idle }]
          /\ \A g \in Fetches : g # f => fetch[g] = Idle
          /\ fetch[f] = x
      BY <2>1, <2>2, <2>4
    <2>6. OneInFlight /\ \A g \in Fetches : FetchOK(fetch[g])
      BY <2>2, <2>5, IdleIsRight DEF OneInFlight
    <2>7. /\ page \in Page /\ page.token = u
          /\ page.project = None /\ page.envs = None
          /\ page.audit = None /\ page.cards = NoCards
          /\ page.open = FALSE
      BY <1>2, <2>1, <2>4 DEF BlankPage, Page
    <2>8. u # None
      BY <2>1, DashboardAssumption
    <2>9. UnderWay(x)
      BY <1>3, <2>3, <2>7, <2>8 DEF UnderWay, Settled
    <2> QED
      BY <1>4, <2>5, <2>6, <2>7, <2>9
  <1> QED
    BY <1>5, <1>6 DEF Init

(***************************************************************************)
(* The invariant of the page, with the releases moving behind it.          *)
(***************************************************************************)
THEOREM PageInvariant == Spec => []PageInv
  <1>1. Init => PageInv
    BY PageStart
  <1>2. PageInv /\ [Next]_vars => PageInv'
    <2> SUFFICES ASSUME PageInv, [Next]_vars
                 PROVE  PageInv'
      OBVIOUS
    <2>1. ButtonsInv /\ PatientInv /\ UNCHANGED setting
      BY DEF PageInv, Next, vars
    <2>2. Patient' => Patient
      BY <2>1 DEF Patient
    <2>3. ButtonsInv'
      <3>1. ASSUME NEW f \in Fetches,
                   Click(f) \/ Serve(f) \/ Expire(f) \/ Break(f)
                      \/ Continue(f)
            PROVE  ButtonsInv'
        BY <2>1, <3>1, ClickKeeps, ServeKeeps, NoAnswerKeeps, ContinueKeeps
      <3>2. CASE Logout \/ Elsewhere
        BY <2>1, <3>2, LogoutKeeps, ElsewhereKeeps
      <3>3. CASE UNCHANGED vars
        BY <2>1, <3>3
           DEF vars, moving, server, ButtonsInv, TypeInv, CardsAreForUser
      <3> QED
        BY <3>1, <3>2, <3>3 DEF Next
    <2>4. PatientInv'
      <3> SUFFICES ASSUME Patient
                   PROVE  PatientInv'
        BY <2>2 DEF PatientInv
      <3>1. ASSUME NEW f \in Fetches,
                   Click(f) \/ Serve(f) \/ Expire(f) \/ Break(f)
                      \/ Continue(f)
            PROVE  PatientInv'
        BY <2>1, <3>1, PatientClick, PatientServe, PatientNoAnswer,
           PatientContinue
      <3>2. CASE Logout
        BY <2>1, <3>2, PatientLogout
      <3>3. CASE Elsewhere \/ UNCHANGED vars
        <4>1. page' = page /\ fetch' = fetch
          BY <3>3 DEF Elsewhere, vars, moving
        <4> QED
          BY <2>1, <4>1
             DEF PatientInv, Patient, OneInFlight, OpenIsSignedIn, Quiet,
                 Settled, UnderWay
      <3> QED
        BY <3>1, <3>2, <3>3 DEF Next
    <2> QED
      BY <2>3, <2>4 DEF PageInv
  <1> QED
    BY <1>1, <1>2, PTL DEF Spec

(***************************************************************************)
(* A click on a button of the page is refused for the status only when the *)
(* release has moved since, and for the role only when another user has    *)
(* logged in since, whoever uses the service and however many requests are *)
(* in flight.                                                              *)
(***************************************************************************)
THEOREM RefusalsAreOfStaleCards == Spec => []RefusedOnlyWhenStale
  <1>1. PageInv => RefusedOnlyWhenStale
    <2> SUFFICES ASSUME PageInv, NEW f \in Fetches,
                        fetch[f].kind = "action"
                 PROVE  /\ fetch[f].answer = "status" =>
                              fetch[f].got # fetch[f].saw
                        /\ fetch[f].answer = "role" =>
                              fetch[f].by # fetch[f].shownTo
      BY DEF RefusedOnlyWhenStale
    <2>1. fetch[f] # Idle /\ ButtonsInv
      BY NotIdle DEF PageInv, Kinds
    <2>2. ClickIsJudged(fetch[f])
      BY <2>1, FetchType
    <2> QED
      BY <2>2, ButtonsAreOfRole DEF ClickIsJudged
  <1> QED
    BY <1>1, PageInvariant, PTL

(***************************************************************************)
(* Whoever is no reviewer and sees the current status is offered whatever  *)
(* the service would let them do.                                          *)
(***************************************************************************)
THEOREM AllIsOffered == Spec => []NothingWithheld
  <1>1. NothingWithheld
    <2> SUFFICES ASSUME NEW s, NEW u, RoleOf[u] # "reviewer",
                        NEW r, status[r] = s, NEW a \in Actions,
                        "ok" \in Verdicts(a, r, u)
                 PROVE  a \in AllowedActions(s, u)
      BY DEF NothingWithheld
    <2>1. MayByRole(a, u) /\ a \in ActionMap(s)
      BY VerdictsMean, ButtonsAreExpected
    <2> QED
      BY <2>1 DEF MayByRole, AllowedActions, Reviews
  <1> QED
    BY <1>1, PTL

(***************************************************************************)
(* The environments, the cards and the audit are those of the project that *)
(* is selected, for a user who waits for all answers and gets them.        *)
(***************************************************************************)
THEOREM PageAgrees == Spec => []PageIsOfSelected
  <1>1. PageInv => PageIsOfSelected
    BY DEF PageInv, PatientInv, Patient, Settled, PageIsOfSelected
  <1> QED
    BY <1>1, PageInvariant, PTL
=============================================================================
