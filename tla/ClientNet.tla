----------------------------- MODULE ClientNet -----------------------------
(***************************************************************************)
(* One open project of the web client and its calls.  A form changes the    *)
(* store first (an optimistic update) and then calls the server; the calls  *)
(* under way are served, and their answers applied, in any order.  Calls    *)
(* are lost or refused, the page is left and opened again with answers      *)
(* still to come, and other members delete what this one works on.          *)
(***************************************************************************)
EXTENDS ClientApi

CONSTANTS
  Start,                 \* the rows of the project when the page is opened
  Modes,                 \* who looks at it: "editor", "viewer" or "demo"
  MaxEdits, MaxLoads, MaxFaults    \* bounds

ASSUME NetAssumption ==
  /\ DOMAIN Start \subseteq Ids /\ \A x \in DOMAIN Start : Start[x] \in Row
  /\ \A x \in DOMAIN Start \cap Ranked : HasRoom(Start[x].rank)
  /\ Whole(Start)
  /\ Modes \subseteq {"editor", "viewer", "demo"}
  /\ MaxEdits \in Nat /\ MaxLoads \in Nat /\ MaxFaults \in Nat

VARIABLES
  store,    \* the client's slices
  rows,     \* the server's tables
  calls,    \* calls under way: number -> call
  page,     \* "board", "loading" or "projects"
  mount,    \* number of the call the page waits for when it is loading
  mode,
  fresh,    \* ids no one has made yet
  gone,     \* rows another member deleted
  why,      \* reasons for which store and rows may differ from now on
  left      \* what is left of the bounds

vars == <<store, rows, calls, page, mount, mode, fresh, gone, why, left>>

Init ==
  /\ store = Start /\ rows = Start
  /\ calls = [n \in {} |-> {}]
  /\ page = "board" /\ mount = 0 /\ mode \in Modes
  /\ fresh = Ids \ DOMAIN Start
  /\ gone = {} /\ why = {}
  /\ left = [edits |-> MaxEdits, loads |-> MaxLoads, faults |-> MaxFaults]

Calls == {calls[n] : n \in DOMAIN calls}

\* The number of the next call.
Number == MaxEdits + MaxLoads - left.edits - left.loads

SentCall(c) == [req |-> c, state |-> "sent", turn |-> 0, answer |-> NoRows]

WithCall(c) ==
  [n \in DOMAIN calls \cup {Number} |-> IF n = Number THEN SentCall(c) ELSE calls[n]]

WithoutCall(k) == [n \in DOMAIN calls \ {k} |-> calls[n]]

----------------------------------------------------------------------------
(* What excuses a difference between store and rows                        *)

\* Calls whose answer is not put into the store: a move's and a persona's are
\* dropped, the one to closing a workflow goes to the features.
Blind(c) == \/ c.op = "move"
            \/ c.op = "close" /\ c.id \in Workflows
            \/ c.op = "rename" /\ c.id \in Personas

\* The deletion of a row overtakes its creation, an edit of a row runs beside
\* a blind call for it, or a move beside any other call.
Troubles(c) ==
  LET others == {o.req : o \in Calls}
      same   == {o \in others : IdsOf(o) \cap IdsOf(c) # {}}
  IN  {t \in {"hasty", "blind", "moved"} :
         CASE t = "hasty" -> c.op = "delete" /\ \E o \in same : o.op = "create"
           [] t = "blind" -> c.op # "delete" /\ \E o \in same : Blind(o) \/ Blind(c)
           [] t = "moved" -> \E o \in others : "move" \in {o.op, c.op}}

\* An older answer about the same row is still to come.
Reversed(k) ==
  \E n \in DOMAIN calls \ {k} :
    /\ calls[n].req.id = calls[k].req.id
    /\ calls[n].state # "sent" /\ calls[n].turn < calls[k].turn

\* What goes amiss with the project's own row is not put right by opening it.
Amiss(k, reasons) ==
  why \cup reasons \cup
    {r \in {"project"} : /\ reasons # {}
                         /\ calls[k].req.id \in Projects /\ calls[k].req.op # "get"}

----------------------------------------------------------------------------
(* The page                                                                *)

CanEdit == page = "board" /\ left.edits > 0 /\ mode # "viewer"

\* A form: its actions leave the store s; then the call, but for a demo.  A
\* page whose project is gone from the store is left.
Submit(s, c) ==
  /\ CanEdit
  /\ store' = s
  /\ page' = IF DOMAIN s \cap Projects = {} THEN "projects" ELSE "board"
  /\ calls' = IF mode = "demo" THEN calls ELSE WithCall(c)
  /\ why' = IF mode = "demo" THEN why ELSE why \cup Troubles(c)
  /\ fresh' = IF c.op = "create" THEN fresh \ IdsOf(c) ELSE fresh
  /\ left' = [left EXCEPT !.edits = @ - 1]
  /\ UNCHANGED <<rows, mount, mode, gone>>

\* Back to the list of projects and to the project again: ProjectPage mounts.
\* What was amiss with nothing under way is put right by the load.
OpenProject(p) ==
  /\ p \in DOMAIN store /\ mode # "demo" /\ left.loads > 0
  /\ page' = "loading" /\ mount' = Number
  /\ calls' = WithCall(Get(p))
  /\ why' = IF Calls = {} THEN why \cap {"project"} ELSE why \cup {"reload"}
  /\ left' = [left EXCEPT !.loads = @ - 1]
  /\ UNCHANGED <<store, rows, mode, fresh, gone>>

----------------------------------------------------------------------------
(* The network and the server                                              *)

\* Calls are numbered in the order they are served, as far as it still matters.
Turns  == {0} \cup {c.turn : c \in Calls}
Latest == 1 + CHOOSE t \in Turns : \A u \in Turns : u <= t

Serve(k) ==
  /\ calls[k].state = "sent"
  /\ LET r == Served(rows, calls[k].req)
     IN  /\ rows' = r.rows
         /\ calls' = [calls EXCEPT ![k].state = IF r.ok THEN "ok" ELSE "refused",
                                   ![k].turn = Latest, ![k].answer = r.answer]
  /\ UNCHANGED <<store, page, mount, mode, fresh, gone, why, left>>

\* An answer with an error, although nothing is wrong with the call.
Refuse(k) ==
  /\ calls[k].state = "sent" /\ left.faults > 0
  /\ calls' = [calls EXCEPT ![k].state = "refused", ![k].turn = Latest]
  /\ left' = [left EXCEPT !.faults = @ - 1]
  /\ UNCHANGED <<store, rows, page, mount, mode, fresh, gone, why>>

\* The connection breaks before or after the call was served: fetch rejects, and
\* no handler runs.
Lose(k) ==
  /\ left.faults > 0
  /\ calls' = WithoutCall(k)
  /\ why' = Amiss(k, {"lost"})
  /\ left' = [left EXCEPT !.faults = @ - 1]
  /\ UNCHANGED <<store, rows, page, mount, mode, fresh, gone>>

DeletedElsewhere(x) ==
  /\ left.faults > 0 /\ x \in DOMAIN rows \ Projects
  /\ rows' = Deleted(rows, x)
  /\ gone' = gone \cup {x}
  /\ why' = why \cup {"elsewhere"}
  /\ left' = [left EXCEPT !.faults = @ - 1]
  /\ UNCHANGED <<store, calls, page, mount, mode, fresh>>

----------------------------------------------------------------------------
(* The answers                                                             *)

Answered(k, ops) == calls[k].req.op \in ops /\ calls[k].state # "sent"

\* The handler of an answer: the store it leaves, and whether it alerts.
Handled(k, s, alert) ==
  /\ store' = s
  /\ calls' = WithoutCall(k)
  /\ why' = Amiss(k, (IF alert THEN {"alert"} ELSE {})
                       \cup (IF Reversed(k) THEN {"reversed"} ELSE {}))
  /\ UNCHANGED <<rows, page, mount, mode, fresh, gone, left>>

\* Bug: a refused card stays.
CardKept(k) ==
  LET x == calls[k].req.id
  IN  /\ Answered(k, {"create"}) /\ x \in Ranked
      /\ IF calls[k].state = "ok"
         THEN Handled(k, Dispatched(store, Act("update", x, calls[k].answer[x])), FALSE)
         ELSE Handled(k, store, FALSE)

\* A new card becomes the server's row, or goes if the call was refused.
CardAnswered(k) ==
  LET x == calls[k].req.id
  IN  /\ Answered(k, {"create"}) /\ x \in Ranked
      /\ IF calls[k].state = "ok"
         THEN Handled(k, Dispatched(store, Act("update", x, calls[k].answer[x])), FALSE)
         ELSE Handled(k, Dispatched(store, Act("delete", x, Blank)), FALSE)

\* A comment becomes the server's row; a refused one stays.
CommentAnswered(k) ==
  LET x == calls[k].req.id
  IN  /\ Answered(k, {"create"}) /\ x \in Comments
      /\ IF calls[k].state = "ok"
         THEN Handled(k, Dispatched(store, Act("update", x, calls[k].answer[x])), FALSE)
         ELSE Handled(k, store, TRUE)

\* Their answers are not looked at beyond the status.
PersonaAnswered(k) ==
  /\ Answered(k, {"create"}) /\ calls[k].req.id \in Personas
  /\ Handled(k, store, calls[k].state = "refused")

WorkflowPersonaAnswered(k) ==
  /\ Answered(k, {"create"}) /\ calls[k].req.id \in WorkflowPersonas
  /\ Handled(k, store, calls[k].state = "refused")

PersonaEditAnswered(k) ==
  /\ Answered(k, {"rename"}) /\ calls[k].req.id \in Personas
  /\ Handled(k, store, calls[k].state = "refused")

\* The whole row of the answer replaces the one in the store, if it is there.
\* The answer to closing a workflow is dispatched as the update of a feature.
EditAnswered(k) ==
  LET c == calls[k].req
      a == Act("update", c.id, calls[k].answer[c.id])
  IN  /\ Answered(k, Edits) /\ c.id \notin Personas
      /\ IF calls[k].state = "refused" THEN Handled(k, store, TRUE)
         ELSE IF c.op = "close" /\ c.id \in Workflows
              THEN Handled(k, FeaturesReducer(store, a), FALSE)
              ELSE Handled(k, Dispatched(store, a), FALSE)

\* The action of the answer is made and never dispatched.
MoveAnswered(k) ==
  /\ Answered(k, {"move"})
  /\ Handled(k, store, calls[k].state = "refused")

\* A refused deletion is not undone.
DeleteAnswered(k) ==
  LET x == calls[k].req.id
  IN  /\ Answered(k, {"delete"})
      /\ IF x \in Comments /\ calls[k].state = "ok"
         THEN Handled(k, Dispatched(store, Act("delete", x, Blank)), FALSE)
         ELSE Handled(k, store, calls[k].state = "refused")

\* All slices but the projects are replaced.  A page that was left no longer
\* shows itself; the page of a refused load stays as it is.
LoadAnswered(k) ==
  /\ Answered(k, {"get"})
  /\ IF calls[k].state = "ok"
     THEN /\ store' = Dispatched(store, Act("load", Tables \ {Projects}, calls[k].answer))
          /\ page' = IF page = "loading" /\ mount = k THEN "board" ELSE page
     ELSE UNCHANGED <<store, page>>
  /\ calls' = WithoutCall(k)
  /\ UNCHANGED <<rows, mount, mode, fresh, gone, why, left>>

=============================================================================
