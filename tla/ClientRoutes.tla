---------------------------- MODULE ClientRoutes ----------------------------
(***************************************************************************)
(* The web client around the open project: its addresses, the pages mounted *)
(* for them, the calls a page makes when it is mounted, and what the server *)
(* keeps of accounts, workspaces and projects.  A page waits for the calls  *)
(* it is mounted with: IndexPage for the account, then WorkspacePage for     *)
(* the projects, then the page within.  What an answer may still change      *)
(* once its page was left is decided by the number of the page it is for.    *)
(***************************************************************************)
EXTENDS Naturals, Sequences, FiniteSets, Functions, FiniteSetsExt

CONSTANTS
  Accounts, Workspaces, Projects, Invites, Keys, None,
  Start, First,       \* the server's tables and the browser's account at first
  Invitee,            \* invite -> the account it is for
  Grants,             \* the roles given
  Status,             \* workspace -> status of its subscription
  Tabs, Links, Typed, \* addresses: at which the browser is opened, linked, and typed
  MaxForms, MaxTurns  \* bounds: forms sent, and addresses gone to and refusals

VARIABLES
  cookie,    \* the account of the session cookie, or None
  db,        \* accounts, levels, homes of projects, invites and keys
  store,     \* the account loaded, the projects, and whose cards there are
  page,      \* what is mounted
  calls,     \* calls under way: number -> call
  why,       \* what excuses that a page is out of date
  left

vars == <<cookie, db, store, page, calls, why, left>>

\* The roles, from below, and what the client lets them do.
Level == [NONE |-> 0, VIEWER |-> 1, EDITOR |-> 2, ADMIN |-> 3, OWNER |-> 4]
Roles == DOMAIN Level \ {"NONE"}

IsEditor(l) == l \in {"EDITOR", "ADMIN", "OWNER"}
IsAdmin(l)  == l \in {"ADMIN", "OWNER"}

\* "expired" stands for a trial whose date is over.
SubIsInactive(s)    == s \notin {"active", "trialing"}
MustCreateNewSub(s) == s \in {"incomplete_expired", "incomplete", "trialing", "expired", "canceled"}

----------------------------------------------------------------------------
(* The store                                                               *)

NoApp == [account |-> None, level |-> [w \in {} |-> "NONE"]]
NoTab == [app |-> NoApp, projects |-> {}, cards |-> None]

LoadApplication(s, app) == [s EXCEPT !.app = app]
ResetApplication(s)     == [s EXCEPT !.app = NoApp]

----------------------------------------------------------------------------
(* The server: who may call what, what it changes and what it answers       *)

Anyone    == {"login", "signup", "logout", "verify", "sendReset", "setPassword", "contact",
              "getInvite", "acceptInvite", "link"}
LoggedIn  == {"app", "getApp", "keys", "createKey", "revokeKey", "createWorkspace",
              "deleteAccount", "changeEmail", "changeName", "resendEmail"}

\* The least role a call within a workspace takes.
Takes == [projects |-> "VIEWER", project |-> "VIEWER", leave |-> "VIEWER",
          createProject |-> "EDITOR",
          members |-> "ADMIN", invites |-> "ADMIN", level |-> "ADMIN",
          removeMember |-> "ADMIN", invite |-> "ADMIN", cancelInvite |-> "ADMIN",
          resend |-> "ADMIN",
          info |-> "OWNER", deleteWorkspace |-> "OWNER", checkout |-> "OWNER",
          changePlan |-> "OWNER"]
ForPayers == {"createProject", "level", "invite", "resend"}

Used == {m[2] : m \in DOMAIN db.level}

\* What the call needs besides its role.
Fits(c) ==
  CASE c.op = "login"                         -> c.arg \in db.accounts
    [] c.op = "signup"                        -> c.arg \notin db.accounts /\ c.ws \notin Used
    [] c.op = "createWorkspace"               -> c.ws \notin Used
    [] c.op = "acceptInvite"                  ->
         /\ c.arg \in DOMAIN db.invites /\ Invitee[c.arg] \in db.accounts
         /\ <<Invitee[c.arg], db.invites[c.arg]>> \notin DOMAIN db.level
    [] c.op \in {"getInvite", "cancelInvite", "resend"} -> c.arg \in DOMAIN db.invites
    [] c.op = "link"                          ->
         c.arg \in DOMAIN db.home /\ ~SubIsInactive(Status[db.home[c.arg]])
    [] c.op = "level"                         -> <<c.arg[1], c.ws>> \in DOMAIN db.level
    [] c.op = "removeMember"                  -> <<c.arg, c.ws>> \in DOMAIN db.level
    [] OTHER                                  -> TRUE

Allowed(c) ==
  /\ \/ c.op \in Anyone
     \/ c.op \in LoggedIn /\ c.as \in db.accounts
     \/ /\ c.op \in DOMAIN Takes
        /\ <<c.as, c.ws>> \in DOMAIN db.level
        /\ Level[Takes[c.op]] <= Level[db.level[<<c.as, c.ws>>]]
        /\ c.op \in ForPayers => ~SubIsInactive(Status[c.ws])
  /\ Fits(c)

With(f, x, y)  == [z \in DOMAIN f \cup {x} |-> IF z = x THEN y ELSE f[z]]
Drop(f, gone)  == Restrict(f, DOMAIN f \ gone)

LevelsOf(a)   == [w \in {v \in Workspaces : <<a, v>> \in DOMAIN db.level} |-> db.level[<<a, w>>]]
ProjectsOf(w) == {p \in DOMAIN db.home : db.home[p] = w}
MembersOf(w)  == {<<m[1], db.level[m]>> : m \in {n \in DOMAIN db.level : n[2] = w}}
InvitesOf(w)  == {i \in DOMAIN db.invites : db.invites[i] = w}
KeysOf(a)     == {y \in DOMAIN db.keys : db.keys[y] = a}

\* (The finer rules, as of who may change an owner, are the subject of Membership:
\* here a call may be refused whatever it says.)
Effect(c) ==
  CASE c.op = "signup" ->
         [db EXCEPT !.accounts = @ \cup {c.arg}, !.level = With(@, <<c.arg, c.ws>>, "OWNER")]
    [] c.op = "createWorkspace" ->
         [db EXCEPT !.level = With(@, <<c.as, c.ws>>, "OWNER")]
    [] c.op = "acceptInvite" ->
         [db EXCEPT !.level = With(@, <<Invitee[c.arg], db.invites[c.arg]>>, "VIEWER"),
                    !.invites = Drop(@, {c.arg})]
    [] c.op = "createProject" -> [db EXCEPT !.home = With(@, c.arg, c.ws)]
    [] c.op = "level"         -> [db EXCEPT !.level[<<c.arg[1], c.ws>>] = c.arg[2]]
    [] c.op = "removeMember"  -> [db EXCEPT !.level = Drop(@, {<<c.arg, c.ws>>})]
    [] c.op = "leave"         -> [db EXCEPT !.level = Drop(@, {<<c.as, c.ws>>})]
    [] c.op = "deleteWorkspace" ->
         [db EXCEPT !.level = Drop(@, {m \in DOMAIN db.level : m[2] = c.ws}),
                    !.home = Drop(@, ProjectsOf(c.ws)),
                    !.invites = Drop(@, InvitesOf(c.ws))]
    [] c.op = "deleteAccount" ->
         [db EXCEPT !.accounts = @ \ {c.as},
                    !.level = Drop(@, {m \in DOMAIN db.level : m[1] = c.as}),
                    !.keys = Drop(@, KeysOf(c.as))]
    [] c.op = "invite" ->
         [db EXCEPT !.invites = With(@, c.arg, c.ws)]
    [] c.op = "cancelInvite"  -> [db EXCEPT !.invites = Drop(@, {c.arg})]
    [] c.op = "createKey"     -> [db EXCEPT !.keys = With(@, c.arg, c.as)]
    [] c.op = "revokeKey"     -> [db EXCEPT !.keys = Drop(@, {c.arg})]
    [] OTHER                  -> db

AnswerTo(c) ==
  CASE c.op \in {"app", "getApp"} -> [account |-> c.as, level |-> LevelsOf(c.as)]
    [] c.op = "projects"          -> ProjectsOf(c.ws)
    [] c.op = "members"           -> MembersOf(c.ws)
    [] c.op = "invites"           -> InvitesOf(c.ws)
    [] c.op = "keys"              -> KeysOf(c.as)
    [] OTHER                      -> c.arg

----------------------------------------------------------------------------
(* Addresses and pages                                                     *)

Within == {"workspace", "settings", "subscription", "project"}   \* of a workspace
Inside == Within \cup {"index", "workspaces", "account"}         \* of IndexPage
Public == {"login", "signup", "logout", "reset", "newPassword", "verify", "invite", "contact",
           "success", "cancel", "link"}

\* A page with nothing mounted yet for that address.  index, wsp and inner are the
\* numbers of IndexPage, of WorkspacePage and of the page within.
Address(at, w, x) ==
  [at |-> at, ws |-> w, arg |-> x, index |-> 0, loaded |-> FALSE, wsp |-> 0, ready |-> FALSE,
   inner |-> 0, shown |-> FALSE, members |-> {}, invites |-> {}, keys |-> {}, key |-> None,
   said |-> ""]

\* Following a link or the history: what the new address has in common with the
\* old one stays mounted, and is not told.
Going(pg, at, w, x) ==
  LET new == Address(at, w, x)
  IN  IF at \notin Inside \/ pg.index = 0 THEN new
      ELSE IF at = pg.at THEN [pg EXCEPT !.ws = w, !.arg = x]
      ELSE IF at \in Within /\ pg.wsp # 0
           THEN [new EXCEPT !.index = pg.index, !.loaded = pg.loaded,
                            !.wsp = pg.wsp, !.ready = pg.ready]
           ELSE [new EXCEPT !.index = pg.index, !.loaded = pg.loaded]

\* Redirects, and a page that has no workspace to show: it fails to render, and
\* nothing of the client is left.
Led(pg, st) ==
  LET wss == DOMAIN st.app.level
  IN  IF pg.at \notin Inside \/ ~pg.loaded THEN pg
      ELSE IF st.app.account = None THEN Address("login", None, None)
      ELSE IF pg.at = "index"
           THEN IF Cardinality(wss) = 1 THEN Going(pg, "workspace", CHOOSE w \in wss : TRUE, None)
                                        ELSE Going(pg, "workspaces", None, None)
      ELSE IF pg.at \in Within /\ pg.ws \notin wss THEN Address("blank", None, None)
      ELSE IF pg.at = "project" /\ pg.ready /\ pg.inner = 0 /\ pg.arg \notin st.projects
           THEN Going(pg, "workspace", pg.ws, None)
      ELSE pg

\* What is mounted next, and the calls it makes.
Mounts(pg) ==
  CASE pg.at \in Public /\ pg.inner = 0             -> "inner"
    [] pg.at \in Inside /\ pg.index = 0             -> "index"
    [] pg.at \in Within /\ pg.loaded /\ pg.wsp = 0  -> "wsp"
    [] \/ pg.at \in Within /\ pg.loaded /\ pg.wsp # 0 /\ pg.ready /\ pg.inner = 0
       \/ pg.at \in {"workspaces", "account"} /\ pg.loaded /\ pg.inner = 0 -> "inner"
    [] OTHER                                        -> "none"

OnMount == [logout |-> <<"logout">>, verify |-> <<"verify">>, invite |-> <<"getInvite">>,
            link |-> <<"link">>, account |-> <<"keys">>, settings |-> <<"members", "invites">>,
            subscription |-> <<"members">>, project |-> <<"project">>]

Opens(pg) ==
  CASE Mounts(pg) = "index" -> <<"app">>
    [] Mounts(pg) = "wsp"   -> <<"projects">>
    [] Mounts(pg) = "inner" /\ pg.at \in DOMAIN OnMount -> OnMount[pg.at]
    [] OTHER                -> <<>>

MountedAs(pg, n) ==
  CASE Mounts(pg) = "index" -> [pg EXCEPT !.index = n]
    [] Mounts(pg) = "wsp"   -> [pg EXCEPT !.wsp = n]
    [] Mounts(pg) = "inner" -> [pg EXCEPT !.inner = n]
    [] OTHER                -> pg

\* A call made by page number by, as the account of the cookie.
Call(op, w, x, by) ==
  [op |-> op, as |-> cookie', ws |-> w, arg |-> x, by |-> by, here |-> TRUE,
   state |-> "sent", turn |-> 0, answer |-> None]

\* Numbers in use; calls and pages get new ones.
Sent ==
  Max({0, page.index, page.wsp, page.inner} \cup DOMAIN calls \cup {calls[k].by : k \in DOMAIN calls})

\* The rest of a step that leaves the store st, leads to pg, keeps the calls in rest
\* and makes the calls in asked.
Proceed(st, pg, rest, asked) ==
  LET to   == Led(pg, st)
      n    == Sent + Len(asked) + 1
      new  == asked \o [i \in 1 .. Len(Opens(to)) |-> Call(Opens(to)[i], to.ws, to.arg, n)]
  IN  /\ store' = st
      /\ page' = MountedAs(to, n)
      /\ calls' = [k \in rest \cup {Sent + i : i \in DOMAIN new} |->
                     IF k \in rest THEN calls[k] ELSE new[k - Sent]]

\* Calls that change nothing.
Loads == {"app", "getApp", "projects", "project", "link", "members", "invites", "keys", "getInvite"}

\* Calls of a document that is gone: what they change is changed, but their answers go
\* nowhere.
Orphans(rest) == {k \in rest : calls[k].state = "sent" /\ calls[k].op \notin Loads}

\* A full load of an address: nothing of the old document is left.
Reload(at, w, x, rest) ==
  LET to   == Address(at, w, x)
      n    == Sent + 1
      kept == Orphans(rest)
  IN  /\ store' = NoTab
      /\ page' = MountedAs(to, n)
      /\ calls' = [k \in kept \cup {Sent + i : i \in DOMAIN Opens(to)} |->
                     IF k \in kept THEN [calls[k] EXCEPT !.here = FALSE]
                                    ELSE Call(Opens(to)[k - Sent], w, x, n)]

=============================================================================
