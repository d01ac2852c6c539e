---------------------------- MODULE ClientPages ----------------------------
(***************************************************************************)
(* The forms of the web client outside the open project, the answers to     *)
(* their calls, and the browser: sessions begin and end, addresses are      *)
(* followed, gone back to and typed, while calls of pages that were left    *)
(* are still under way.                                                     *)
(***************************************************************************)
EXTENDS ClientRoutes

ASSUME PagesAssumption ==
  /\ None \notin Accounts \cup Workspaces \cup Projects \cup Invites \cup Keys
  /\ Grants \subseteq Roles /\ MaxForms \in Nat /\ MaxTurns \in Nat

\* The tables at first, and addresses of pages.
ASSUME StartAssumption ==
  /\ Start = [accounts |-> Start.accounts, level |-> Start.level, home |-> Start.home,
              invites |-> Start.invites, keys |-> Start.keys]
  /\ Start.accounts \subseteq Accounts /\ DOMAIN Start.level \subseteq Start.accounts \X Workspaces
  /\ Start.level \in [DOMAIN Start.level -> Roles]
  /\ Start.home \in [DOMAIN Start.home -> Workspaces]
  /\ Start.invites \in [DOMAIN Start.invites -> Workspaces]
  /\ Start.keys \in [DOMAIN Start.keys -> Accounts]
  /\ \A to \in Tabs \cup Links \cup Typed : to.at \in Inside \cup Public

\* An address typed may be one of a workspace that the account does not have.
NotOwn(to) ==
  IF to.at \in Within /\ <<cookie, to.ws>> \notin DOMAIN db.level THEN {"typed"} ELSE {}

Init ==
  /\ db = Start /\ cookie = First
  /\ store = NoTab
  /\ \E to \in Tabs :
       LET pg == Address(to.at, to.ws, to.arg)
       IN  /\ page = MountedAs(pg, 1)
           /\ calls = [k \in DOMAIN Opens(pg) |->
                         [op |-> Opens(pg)[k], as |-> cookie, ws |-> to.ws, arg |-> to.arg,
                          by |-> 1, here |-> TRUE, state |-> "sent", turn |-> 0,
                          answer |-> None]]
           /\ why = NotOwn(to)
  /\ left = [forms |-> MaxForms, turns |-> MaxTurns]

Spend(what) == left[what] > 0 /\ left' = [left EXCEPT ![what] = @ - 1]

Logged == page.at \in Inside /\ page.loaded
MyLevel == store.app.level[page.ws]

\* Calls that show, or change, the account as it was before.
Unsettled(rest) ==
  \E j \in rest : \/ calls[j].op \in {"app", "getApp"}
                  \/ calls[j].state = "sent" /\ calls[j].op \notin Loads

----------------------------------------------------------------------------
(* Getting about                                                           *)

\* Links and the history of the browser.  The history also leads from one workspace
\* or project straight to another one, whose page is the same component; and, until
\* the account is loaded, to those of the account before.
Follow(to) ==
  /\ Spend("turns") /\ page.at # "blank"
  /\ to.at \in Within => to.ws \in DOMAIN store.app.level
  /\ to.at = "project" => to.arg \in store.projects
  /\ why' = why \cup (IF Logged THEN {} ELSE NotOwn(to))
                \cup (IF /\ to.at \in Within /\ page.wsp # 0
                         /\ \/ to.ws # page.ws
                            \/ to.at = "project" /\ page.at = "project" /\ to.arg # page.arg
                      THEN {"jump"} ELSE {})
  /\ UNCHANGED <<cookie, db>>
  /\ Proceed(store, Going(page, to.at, to.ws, to.arg), DOMAIN calls, <<>>)

\* After a full load nothing is out of date, but for what calls under way still change.
Stale(rest) == IF Orphans(rest) = {} THEN {} ELSE {"reload"}

\* Typed, or reloaded.
TypeAddress(to) ==
  /\ Spend("turns")
  /\ why' = Stale(DOMAIN calls) \cup NotOwn(to)
  /\ UNCHANGED <<cookie, db>>
  /\ Reload(to.at, to.ws, to.arg, DOMAIN calls)

----------------------------------------------------------------------------
(* The forms.  None of them changes the store before it is answered         *)

Ask(op, w, x) ==
  /\ Spend("forms")
  /\ UNCHANGED <<cookie, db, why>>
  /\ Proceed(store, page, DOMAIN calls, <<Call(op, w, x, page.inner)>>)

LogIn(a)          == page.at = "login"  /\ Ask("login", None, a)
SignUp(a, w)      == page.at = "signup" /\ Ask("signup", w, a)
SendReset         == page.at = "reset"       /\ Ask("sendReset", None, None)
SetPassword       == page.at = "newPassword" /\ Ask("setPassword", None, None)
SendContact       == page.at = "contact"     /\ Ask("contact", None, None)
AcceptInvite      == page.at = "invite" /\ page.shown /\ Ask("acceptInvite", None, page.arg)

ResendEmail       == page.at = "account" /\ Logged /\ Ask("resendEmail", None, None)
ChangeEmail       == page.at = "account" /\ Logged /\ Ask("changeEmail", None, None)
ChangeName        == page.at = "account" /\ Logged /\ Ask("changeName", None, None)
DeleteAccount     == page.at = "account" /\ Logged /\ Ask("deleteAccount", None, None)
OnCreate(y)       == page.at = "account" /\ Logged /\ Ask("createKey", None, y)
OnRevoke(y)       == page.at = "account" /\ y \in page.keys /\ Ask("revokeKey", None, y)

CreateWorkspace(w) == page.at = "workspaces" /\ Logged /\ Ask("createWorkspace", w, None)

CreateProject(p) ==
  /\ page.at = "workspace" /\ page.ready
  /\ IsEditor(MyLevel) /\ ~SubIsInactive(Status[page.ws])
  /\ Ask("createProject", page.ws, p)

\* The member and the invite are those of the lists as they are on the page.
OnSettings == page.at = "settings" /\ page.inner # 0

ChangeRole(m, l) ==
  /\ OnSettings /\ IsAdmin(MyLevel) /\ ~SubIsInactive(Status[page.ws])
  /\ m \in page.members /\ m[1] # store.app.account
  /\ Ask("level", page.ws, <<m[1], l>>)

DeleteMember(m) ==
  /\ OnSettings /\ IsAdmin(MyLevel)
  /\ m \in page.members /\ m[1] # store.app.account
  /\ Ask("removeMember", page.ws, m[1])

Leave == OnSettings /\ MyLevel # "OWNER" /\ Ask("leave", page.ws, None)

DeleteWorkspace == OnSettings /\ MyLevel = "OWNER" /\ Ask("deleteWorkspace", page.ws, None)

ChangeInformation == OnSettings /\ MyLevel = "OWNER" /\ Ask("info", page.ws, None)

CreateInvite(i) ==
  /\ OnSettings /\ IsAdmin(MyLevel) /\ ~SubIsInactive(Status[page.ws])
  /\ Ask("invite", page.ws, i)

DeleteInvite(i) ==
  OnSettings /\ IsAdmin(MyLevel) /\ i \in page.invites /\ Ask("cancelInvite", page.ws, i)

ResendInvite(i) ==
  /\ OnSettings /\ IsAdmin(MyLevel) /\ ~SubIsInactive(Status[page.ws])
  /\ i \in page.invites /\ Ask("resend", page.ws, i)

\* A new plan is paid at the payment provider, an old one changed by the server;
\* both for at least as many editors as the list on the page has.
NbrOfEditors == Cardinality({m \in page.members : IsEditor(m[2])})

ChangePlan ==
  /\ page.at = "subscription" /\ page.shown /\ MyLevel = "OWNER"
  /\ Ask(IF MustCreateNewSub(Status[page.ws]) THEN "checkout" ELSE "changePlan", page.ws, NbrOfEditors)

----------------------------------------------------------------------------
(* The network and the others                                              *)

Turns  == {0} \cup {calls[k].turn : k \in DOMAIN calls}
Latest == 1 + CHOOSE t \in Turns : \A u \in Turns : u <= t

\* A call is served or, within the bound, refused for a reason of its own.
Serve(k) ==
  /\ calls[k].state = "sent"
  /\ \E ok \in {Allowed(calls[k])} \cup (IF left.turns > 0 THEN {FALSE} ELSE {}) :
       /\ db' = IF ok THEN Effect(calls[k]) ELSE db
       /\ calls' = IF calls[k].here
                   THEN [calls EXCEPT ![k].state = IF ok THEN "ok" ELSE "refused",
                                      ![k].turn = IF calls[k].op \in Loads THEN Latest ELSE 0,
                                      ![k].answer = IF ok THEN AnswerTo(calls[k]) ELSE None]
                   ELSE Restrict(calls, DOMAIN calls \ {k})
       /\ left' = IF ok = Allowed(calls[k]) THEN left ELSE [left EXCEPT !.turns = @ - 1]
  /\ UNCHANGED <<cookie, store, page, why>>

\* A call of a document that is gone may not have left it.
Forget(k) ==
  /\ ~calls[k].here
  /\ calls' = Restrict(calls, DOMAIN calls \ {k})
  /\ UNCHANGED <<cookie, db, store, page, why, left>>

\* Another member takes the account out of a workspace.
RemovedElsewhere(w) ==
  /\ left.turns > 0 /\ <<cookie, w>> \in DOMAIN db.level
  /\ db' = [db EXCEPT !.level = Drop(@, {<<cookie, w>>})]
  /\ why' = why \cup {"elsewhere"}
  /\ left' = [left EXCEPT !.turns = @ - 1]
  /\ UNCHANGED <<cookie, store, page, calls>>

----------------------------------------------------------------------------
(* The answers                                                             *)

Answered(k, ops) == calls[k].op \in ops /\ calls[k].here /\ calls[k].state # "sent"
Ok(k) == calls[k].state = "ok"

\* Answer k leaves the store st and leads to pg, asking what is in asked.
Handled(k, st, pg, asked) ==
  /\ Proceed(st, pg, DOMAIN calls \ {k}, asked)
  /\ UNCHANGED <<db, left>>

Quietly == cookie' = cookie

\* An answer older than another one for the same that is still to come, or a refused
\* one, or one for a page that was left: the page may be out of date.
Amiss(k) ==
  {r \in {"overtaken", "refused", "late"} :
     CASE r = "overtaken" -> \E j \in DOMAIN calls \ {k} :
                               /\ calls[j].op = calls[k].op \/ {"app", "getApp"} = {calls[j].op, calls[k].op}
                               /\ calls[j].turn # 0 /\ calls[j].turn < calls[k].turn
       [] r = "refused"   -> ~Ok(k)
       [] r = "late"      -> calls[k].by \notin {page.index, page.wsp, page.inner}}

\* The answer comes to a document that shows another account than it was asked as.
Crossed(k) == IF calls[k].as # cookie THEN {"crossed"} ELSE {}

\* IndexPage; a refused one leads to the login, wherever the user is.
AppAnswered(k) ==
  /\ Answered(k, {"app"}) /\ Quietly
  /\ why' = why \cup Amiss(k) \cup Crossed(k)
  /\ IF Ok(k)
     THEN Handled(k, LoadApplication(store, calls[k].answer),
                  IF page.index = calls[k].by THEN [page EXCEPT !.loaded = TRUE] ELSE page, <<>>)
     ELSE Handled(k, store, Address("login", None, None), <<>>)

\* getApp, after a workspace was made.
GetAppAnswered(k) ==
  /\ Answered(k, {"getApp"}) /\ Quietly
  /\ why' = why \cup (Amiss(k) \ {"late"}) \cup Crossed(k)
  /\ Handled(k, IF Ok(k) THEN LoadApplication(store, calls[k].answer) ELSE store, page, <<>>)

\* Bug: a list without projects leaves the page waiting.
AwaitsProjects(k) ==
  /\ Answered(k, {"projects"}) /\ Quietly
  /\ why' = why \cup Amiss(k)
  /\ Handled(k, IF Ok(k) THEN [store EXCEPT !.projects = calls[k].answer] ELSE store,
             IF Ok(k) /\ calls[k].answer # {} /\ page.wsp = calls[k].by
             THEN [page EXCEPT !.ready = TRUE] ELSE page, <<>>)

\* WorkspacePage.
ProjectsAnswered(k) ==
  /\ Answered(k, {"projects"}) /\ Quietly
  /\ why' = why \cup Amiss(k)
  /\ Handled(k, IF Ok(k) THEN [store EXCEPT !.projects = calls[k].answer] ELSE store,
             IF Ok(k) /\ page.wsp = calls[k].by THEN [page EXCEPT !.ready = TRUE] ELSE page, <<>>)

\* ProjectPage: the cards are those of that project now.
ProjectAnswered(k) ==
  /\ Answered(k, {"project"}) /\ Quietly
  /\ why' = why \cup Amiss(k)
  /\ Handled(k, IF Ok(k) THEN [store EXCEPT !.cards = calls[k].answer] ELSE store,
             IF Ok(k) /\ page.inner = calls[k].by THEN [page EXCEPT !.shown = TRUE] ELSE page, <<>>)

\* ExternalLinkPage: the shared project is the only one then.
LinkAnswered(k) ==
  LET p == calls[k].answer
  IN  /\ Answered(k, {"link"}) /\ Quietly
      /\ why' = why \cup Amiss(k)
      /\ Handled(k, IF Ok(k) THEN [store EXCEPT !.projects = {p}, !.cards = p] ELSE store,
                 IF page.inner = calls[k].by THEN [page EXCEPT !.shown = Ok(k)] ELSE page, <<>>)

\* The lists of the settings, of the subscription page and of the API keys.
Listed(k, pg) ==
  CASE calls[k].op = "members" -> [pg EXCEPT !.members = calls[k].answer, !.shown = TRUE]
    [] calls[k].op = "invites" -> [pg EXCEPT !.invites = calls[k].answer]
    [] calls[k].op = "keys"    -> [pg EXCEPT !.keys = calls[k].answer]

ListAnswered(k) ==
  /\ Answered(k, {"members", "invites", "keys"}) /\ Quietly
  /\ why' = why \cup (Amiss(k) \ {"late"})
  /\ Handled(k, store, IF Ok(k) /\ page.inner = calls[k].by THEN Listed(k, page) ELSE page, <<>>)

\* Bug: the list of the neighbouring handler is loaded.
ReloadsMembers == [level |-> "members", removeMember |-> "members", invite |-> "invites",
                   cancelInvite |-> "members", resend |-> "invites"]

\* Changes of members and invites: the list is loaded again.
Reloads == [level |-> "members", removeMember |-> "members", invite |-> "invites",
            cancelInvite |-> "invites", resend |-> "invites"]

SettingAnswered(k) ==
  LET c == calls[k]
  IN  /\ Answered(k, DOMAIN Reloads) /\ Quietly /\ why' = why \cup (Amiss(k) \cap {"late"})
      /\ Handled(k, store, page,
                 IF Ok(k) THEN <<Call(Reloads[c.op], IF page.inner = c.by THEN page.ws ELSE c.ws,
                                      None, c.by)>> ELSE <<>>)

\* The new key is shown, once, and the list loaded again.
KeyAnswered(k) ==
  LET c == calls[k]
  IN  /\ Answered(k, {"createKey", "revokeKey"}) /\ Quietly /\ why' = why \cup (Amiss(k) \cap {"late"})
      /\ Handled(k, store,
                 IF Ok(k) /\ c.op = "createKey" /\ page.inner = c.by
                 THEN [page EXCEPT !.key = c.answer] ELSE page,
                 IF Ok(k) THEN <<Call("keys", None, None, c.by)>> ELSE <<>>)

\* Bug: only the address changes, or only the account is loaded again.
PushesHome(k) ==
  /\ Answered(k, {"leave", "deleteWorkspace", "deleteAccount"}) /\ Quietly /\ why' = why
  /\ Handled(k, store, IF Ok(k) THEN Going(page, "index", None, None) ELSE page, <<>>)

FetchesAgain(k) ==
  /\ Answered(k, {"leave", "deleteWorkspace", "deleteAccount"}) /\ Quietly /\ why' = why
  /\ Handled(k, store, page, IF Ok(k) THEN <<Call("getApp", None, None, 0)>> ELSE <<>>)

\* The whole document is loaded again.
DepartureAnswered(k) ==
  /\ Answered(k, {"leave", "deleteWorkspace", "deleteAccount"})
  /\ IF Ok(k) THEN /\ why' = Stale(DOMAIN calls \ {k}) /\ UNCHANGED <<cookie, db, left>>
                   /\ Reload("index", None, None, DOMAIN calls \ {k})
              ELSE Quietly /\ why' = why /\ Handled(k, store, page, <<>>)

\* Bug: the new project is not dispatched.
ForgetsProject(k) ==
  /\ Answered(k, {"createProject"}) /\ Quietly /\ why' = why
  /\ Handled(k, store, page, <<>>)

\* The project joins the list, whichever workspace's it is by now, unless a list asked
\* for earlier comes and takes it out again.
ProjectCreated(k) ==
  /\ Answered(k, {"createProject"}) /\ Quietly
  /\ why' = why \cup (IF calls[k].ws # page.ws THEN {"late"} ELSE {})
                \cup (IF \E j \in DOMAIN calls : calls[j].op = "projects" THEN {"overtaken"} ELSE {})
  /\ Handled(k, IF Ok(k) THEN [store EXCEPT !.projects = @ \cup {calls[k].answer}] ELSE store,
             page, <<>>)

WorkspaceCreated(k) ==
  /\ Answered(k, {"createWorkspace"}) /\ Quietly /\ why' = why
  /\ Handled(k, store, page,
             IF Ok(k) THEN <<Call("getApp", None, None, 0)>> ELSE <<>>)

\* The cookie is the browser's: it changes whatever page the answer finds, and whatever
\* of the session before is still under way.
SessionAnswered(k) ==
  /\ Answered(k, {"login", "signup"})
  /\ cookie' = IF Ok(k) THEN calls[k].answer ELSE cookie
  /\ why' = IF Ok(k) /\ (page.index # 0 \/ Unsettled(DOMAIN calls \ {k}))
            THEN why \cup {"crossed"} ELSE why
  /\ Handled(k, store, IF Ok(k) THEN Going(page, "index", None, None) ELSE page, <<>>)

LogOutAnswered(k) ==
  /\ Answered(k, {"logout"})
  /\ cookie' = IF Ok(k) THEN None ELSE cookie
  /\ why' = why
  /\ Handled(k, IF Ok(k) THEN ResetApplication(store) ELSE store,
             IF Ok(k) THEN Going(page, "index", None, None) ELSE page, <<>>)

\* Forms that only say how they went.
Said == {"verify", "sendReset", "setPassword", "contact", "acceptInvite", "changeEmail",
         "changeName", "resendEmail", "info"}

\* Another member may come in by an invite, or the account to another workspace, while
\* other pages are loaded.
Says(k) ==
  /\ Answered(k, Said) /\ Quietly
  /\ why' = IF /\ calls[k].op = "acceptInvite" /\ Ok(k)
               /\ page.inner # calls[k].by \/ Unsettled(DOMAIN calls \ {k})
            THEN why \cup {"elsewhere"} ELSE why
  /\ Handled(k, store,
             IF page.inner = calls[k].by THEN [page EXCEPT !.said = calls[k].state] ELSE page, <<>>)

InviteAnswered(k) ==
  /\ Answered(k, {"getInvite"}) /\ Quietly /\ why' = why
  /\ Handled(k, store,
             IF page.inner = calls[k].by THEN [page EXCEPT !.shown = Ok(k)] ELSE page, <<>>)

\* Off to the payment provider, and back at one of two addresses.
CheckoutAnswered(k) ==
  /\ Answered(k, {"checkout"}) /\ UNCHANGED <<cookie, db, left>>
  /\ IF Ok(k) THEN /\ why' = Stale(DOMAIN calls \ {k})
                   /\ \E at \in {"success", "cancel"} : Reload(at, None, None, DOMAIN calls \ {k})
              ELSE /\ UNCHANGED why
                   /\ Proceed(store, Address("cancel", None, None), DOMAIN calls \ {k}, <<>>)

PlanAnswered(k) ==
  /\ Answered(k, {"changePlan"}) /\ Quietly /\ why' = why
  /\ Handled(k, store, Address(IF Ok(k) THEN "success" ELSE "cancel", None, None), <<>>)

----------------------------------------------------------------------------

\* Ids are new: no call under way has them.
Unused(ids, op) == ids \ {calls[k].arg : k \in {j \in DOMAIN calls : calls[j].op = op}}

FormSent ==
  \/ \E a \in Accounts : LogIn(a) \/ \E w \in Workspaces : SignUp(a, w)
  \/ SendReset \/ SetPassword \/ SendContact \/ AcceptInvite
  \/ ResendEmail \/ ChangeEmail \/ ChangeName \/ DeleteAccount
  \/ \E y \in Unused(Keys \ DOMAIN db.keys, "createKey") : OnCreate(y)
  \/ \E y \in page.keys : OnRevoke(y)
  \/ \E w \in Workspaces : CreateWorkspace(w)
  \/ \E p \in Unused(Projects \ DOMAIN db.home, "createProject") : CreateProject(p)
  \/ \E m \in page.members : DeleteMember(m) \/ \E l \in Grants : ChangeRole(m, l)
  \/ Leave \/ DeleteWorkspace \/ ChangeInformation
  \/ \E i \in Unused(Invites \ DOMAIN db.invites, "invite") : CreateInvite(i)
  \/ \E i \in page.invites : DeleteInvite(i) \/ ResendInvite(i)
  \/ ChangePlan

Moved == \/ \E to \in Links : Follow(to)
         \/ \E to \in Typed : TypeAddress(to)

AnswerArrives(k) ==
  \/ AppAnswered(k) \/ GetAppAnswered(k) \/ ProjectsAnswered(k) \/ ProjectAnswered(k)
  \/ LinkAnswered(k) \/ ListAnswered(k) \/ SettingAnswered(k)
  \/ KeyAnswered(k) \/ DepartureAnswered(k) \/ ProjectCreated(k) \/ WorkspaceCreated(k)
  \/ SessionAnswered(k) \/ LogOutAnswered(k) \/ Says(k) \/ InviteAnswered(k)
  \/ CheckoutAnswered(k) \/ PlanAnswered(k)

Network == \E k \in DOMAIN calls : Serve(k) \/ Forget(k) \/ AnswerArrives(k)

Next ==
  \/ FormSent \/ Moved \/ Network
  \/ \E w \in Workspaces : RemovedElsewhere(w)

Spec == Init /\ [][Next]_vars

----------------------------------------------------------------------------
(* Properties                                                              *)

Quiet == \A k \in DOMAIN calls : ~calls[k].here

\* The pages show the account that the server takes the user for, and its workspaces and
\* roles, although logins, departures and the loading of the account are calls of their
\* own: unless a session changed under a document that shows another account already.
SessionIsShown ==
  Quiet /\ page.loaded /\ why \cap {"crossed", "elsewhere", "refused", "overtaken", "reload"} = {}
    => /\ cookie \in db.accounts
       /\ store.app = [account |-> cookie, level |-> LevelsOf(cookie)]

\* A workspace shows its own projects, all of them, and a project its own cards.
ShowsItsOwn ==
  Quiet /\ why = {} /\ page.ready
    => /\ store.projects = ProjectsOf(page.ws)
       /\ page.at = "project" /\ page.shown => store.cards = page.arg

\* When all is answered, the lists of the settings and of the API keys are the server's,
\* in whatever order changes and reloads of the lists passed each other on the way.
ListsAgree ==
  Quiet /\ why = {}
    => /\ OnSettings /\ IsAdmin(MyLevel) =>
            page.members = MembersOf(page.ws) /\ page.invites = InvitesOf(page.ws)
       /\ page.at = "account" /\ page.inner # 0 => page.keys = KeysOf(store.app.account)

\* The client does not fail to render for a workspace that the account it shows does
\* not have, unless such an address was typed or what it has changed elsewhere.
NeverBlank == Quiet /\ page.at = "blank" => why \cap {"typed", "reload", "elsewhere", "crossed", "overtaken"} # {}

Waits ==
  \/ page.at \in Inside /\ ~page.loaded
  \/ page.at \in Within /\ ~page.ready
  \/ page.at \in {"project", "subscription"} /\ ~page.shown

\* No page waits for ever: when nothing is under way any more it has all that it was
\* mounted for, in whatever order answers, links and sessions came, unless the server
\* refused it something.
NeverStuck == Quiet /\ Waits => "refused" \in why

=============================================================================
