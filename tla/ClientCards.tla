---------------------------- MODULE ClientCards ----------------------------
(***************************************************************************)
(* The forms of the story map's cards: made from the board, dragged on it,  *)
(* and edited, closed or deleted in the details of a card.                  *)
(***************************************************************************)
EXTENDS ClientNet

CONSTANT Forms     \* the kinds of forms a run fills in

On(slice) == slice \cap Shown(store)

\* The details pane is open for a card that is there, and it is not closed.
Open(x) == x \in Shown(store) /\ store[x].data["status"] # "CLOSED"

----------------------------------------------------------------------------
(* CreateCardModal: the card is put in at the end of its list              *)

CreateCard(x, place, t) ==
  /\ "create" \in Forms /\ x \in fresh
  /\ Submit(Dispatched(store, Act("create", x, Fresh(place, t))), Create(x, place, t))

CreateWorkflow(x, p, t) ==
  /\ x \in Workflows /\ p \in On(Projects)
  /\ CreateCard(x, <<p>>, t)

\* An empty board offers a workflow only.
CreateMilestone(x, p, t) ==
  /\ x \in Milestones /\ p \in On(Projects)
  /\ On(Workflows \cup Milestones) # {}
  /\ CreateCard(x, <<p>>, t)

CreateSubWorkflow(x, w, t) ==
  /\ x \in SubWorkflows /\ w \in On(Workflows)
  /\ CreateCard(x, <<w>>, t)

\* The cells of the board: a milestone across a subworkflow.
Cells == On(Milestones) \X On(SubWorkflows)

CreateFeature(x, cell, t) ==
  /\ x \in Features /\ cell \in Cells
  /\ CreateCard(x, cell, t)

----------------------------------------------------------------------------
(* onDragEnd: the card is dropped at an index of the list without it       *)

Drop(x, place, i) ==
  /\ "move" \in Forms
  /\ i \in 0 .. Cardinality(InPlace(store, x, place) \ {x})
  /\ Submit(Dispatched(store, Act("move", x, [place |-> place, index |-> i])),
            Move(x, place, i))

MoveFeature(x, cell, i) == x \in On(Features) /\ cell \in Cells /\ Drop(x, cell, i)

MoveMilestone(x, i) == x \in On(Milestones) /\ Drop(x, store[x].place, i)

MoveWorkflow(x, i) == x \in On(Workflows) /\ Drop(x, store[x].place, i)

MoveSubWorkflow(x, w, i) ==
  x \in On(SubWorkflows) /\ w \in On(Workflows) /\ Drop(x, <<w>>, i)

----------------------------------------------------------------------------
(* The details of a card                                                   *)

\* The row with the new value replaces the one in the store.
EditRow(x, op, t) ==
  /\ "edit" \in Forms /\ op \in CallsOn(x)
  /\ store[x].data[FieldOf[op]] # t
  /\ Submit(Dispatched(store, Act("update", x, Edited(store[x], op, t))), Edit(op, x, t))

RenameCard(x, t) == x \in Ranked \cup Projects /\ Open(x) /\ EditRow(x, "rename", t)

DescribeCard(x, t) == x \in Ranked \cup Projects /\ Open(x) /\ EditRow(x, "describe", t)

HandleChangeColor(x, t) == x \in Ranked /\ Open(x) /\ EditRow(x, "color", t)

UpdateAnnotations(x, t) == x \in Ranked /\ Open(x) /\ EditRow(x, "annotate", t)

\* Bug: an empty field is passed on as it is.
ChangeEstimateUnset(x, t) ==
  x \in Features /\ Open(x) /\ EditRow(x, "estimate", "undefined")

\* An empty field is zero.
ChangeEstimate(x, t) == x \in Features /\ Open(x) /\ EditRow(x, "estimate", t)

HandleClose(x) == x \in Ranked /\ Open(x) /\ EditRow(x, "close", "CLOSED")

HandleOpen(x) == x \in On(Ranked) /\ ~Open(x) /\ EditRow(x, "open", "OPEN")

\* With a milestone or a subworkflow its features are taken out of the store, with
\* a workflow those of its subworkflows, which themselves are left in it.
Emptied(s, x) == {x} \cup {y \in DOMAIN s \cap SubWorkflows : s[y].place = <<x>>}

HandleDelete(x) ==
  LET s == Dispatched(store, Act("delete", x, Blank))
  IN  /\ "delete" \in Forms
      /\ x \in On(Ranked \cup Projects)
      /\ Submit(Dispatched(s, Act("deleteBy", Emptied(s, x), Blank)), Delete(x))

=============================================================================
