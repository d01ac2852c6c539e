----------------------------- MODULE ClientApi -----------------------------
(***************************************************************************)
(* The calls of the web client (api/index.ts, section by section) and what  *)
(* the server does with each, as one request: the interleaving of requests  *)
(* within the server is the subject of Board.  No variables.                *)
(***************************************************************************)
EXTENDS ClientStore

\* What an edit writes.  A comment's post and a persona's form are its title.
FieldOf == [rename   |-> "title",  describe |-> "description",
            color    |-> "color",  annotate |-> "annotations",
            estimate |-> "estimate", close  |-> "status", open |-> "status"]
Edits   == DOMAIN FieldOf

ProjectCalls         == {"get", "rename", "describe", "delete"}
MilestoneCalls       == {"create", "move", "delete", "rename", "describe",
                         "color", "annotate", "close", "open"}
WorkflowCalls        == MilestoneCalls
SubWorkflowCalls     == MilestoneCalls
FeatureCalls         == MilestoneCalls \cup {"estimate"}
CommentCalls         == {"create", "rename", "delete"}
PersonaCalls         == {"create", "rename", "delete"}
WorkflowPersonaCalls == {"create", "delete"}

CallsOn(x) ==
  CASE x \in Projects         -> ProjectCalls
    [] x \in Milestones       -> MilestoneCalls
    [] x \in Workflows        -> WorkflowCalls
    [] x \in SubWorkflows     -> SubWorkflowCalls
    [] x \in Features         -> FeatureCalls
    [] x \in Comments         -> CommentCalls
    [] x \in Personas         -> PersonaCalls
    [] x \in WorkflowPersonas -> WorkflowPersonaCalls

Ops == {"get", "create", "move", "delete"} \cup Edits

\* One call: text is what a form holds, index where a card was dropped, and to
\* <<id, workflow>> of the row that attaches a new persona to a workflow.
Request(op, x, place, index, text, to) ==
  [op |-> op, id |-> x, place |-> place, index |-> index, text |-> text, to |-> to]

Get(p)               == Request("get", p, <<>>, 0, Blank, <<>>)
Create(x, place, t)  == Request("create", x, place, 0, t, <<>>)
Edit(op, x, t)       == Request(op, x, <<>>, 0, t, <<>>)
Move(x, place, i)    == Request("move", x, place, i, Blank, <<>>)
Delete(x)            == Request("delete", x, <<>>, 0, Blank, <<>>)

IdsOf(c) == {c.id} \cup (IF c.to = <<>> THEN {} ELSE {c.to[1]})

Edited(row, op, t) == [row EXCEPT !.data[FieldOf[op]] = t]

----------------------------------------------------------------------------
(* The server: whether it answers with an error, its rows and its answer   *)

NoRows == [y \in {} |-> {}]
Only(r, X) == [y \in DOMAIN r \cap X |-> r[y]]

Reply(r, c)   == [ok |-> TRUE, rows |-> r, answer |-> Only(r, {c.id})]
Refusal(r)    == [ok |-> FALSE, rows |-> r, answer |-> NoRows]

\* ON DELETE CASCADE: with a row go all those whose parents it leaves out.
Deleted(r, x) == View(Without(r, {x}))

\* A project that is gone is answered without cards, and not refused.
ServeGet(r, c) == [Reply(r, c) EXCEPT !.answer = r]

ServeCreate(r, c) ==
  LET row  == Fresh(c.place, c.text)
      fits == /\ RowsOf(c.place) \subseteq DOMAIN r
              /\ c.id \in WorkflowPersonas => InPlace(r, c.id, c.place) = {}
  IN  IF fits THEN Reply(Created(r, c.id, row), c) ELSE Refusal(r)

\* A persona made for a workflow that is gone is stored and the call refused.
ServeCreatePersona(r, c) ==
  LET first == ServeCreate(r, c)
      tie   == Create(c.to[1], <<c.to[2], c.id>>, Blank)
  IN  IF c.to = <<>> \/ ~first.ok THEN first ELSE ServeCreate(first.rows, tie)

ServeEdit(r, c) ==
  IF c.id \in DOMAIN r
  THEN Reply(Updated(r, c.id, Edited(r[c.id], c.op, c.text)), c)
  ELSE Refusal(r)

\* A card or a target that is gone, or an index behind the list: an error.
ServeMove(r, c) ==
  LET L    == InPlace(r, c.id, c.place) \ {c.id}
      fits == /\ c.id \in DOMAIN r
              /\ RowsOf(c.place) \subseteq DOMAIN r
              /\ L # {} => c.index <= Cardinality(L)
  IN  IF fits THEN Reply(MovedTo(r, c.id, c.place, c.index), c) ELSE Refusal(r)

\* Deleting what is gone is answered like a deletion, except for a comment.
ServeDelete(r, c) ==
  IF c.id \in Comments \ DOMAIN r THEN Refusal(r)
  ELSE [Reply(r, c) EXCEPT !.rows = Deleted(r, c.id), !.answer = NoRows]

Served(r, c) ==
  CASE c.op = "get"                            -> ServeGet(r, c)
    [] c.op = "create" /\ c.id \in Personas    -> ServeCreatePersona(r, c)
    [] c.op = "create" /\ c.id \notin Personas -> ServeCreate(r, c)
    [] c.op \in Edits                          -> ServeEdit(r, c)
    [] c.op = "move"                           -> ServeMove(r, c)
    [] c.op = "delete"                         -> ServeDelete(r, c)

=============================================================================
