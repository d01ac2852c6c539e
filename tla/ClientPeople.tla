---------------------------- MODULE ClientPeople ----------------------------
(***************************************************************************)
(* The forms beside the cards: comments on features, the personas of a      *)
(* project and the tags that attach them to its workflows.                  *)
(***************************************************************************)
EXTENDS ClientCards

----------------------------------------------------------------------------
(* EntityDetailsComments                                                   *)

\* Closed features can be discussed, too.
PostComment(x, f, t) ==
  /\ "comment" \in Forms
  /\ x \in Comments \cap fresh /\ f \in On(Features)
  /\ Submit(Dispatched(store, Act("create", x, Fresh(<<f>>, t))), Create(x, <<f>>, t))

\* The menu of a comment of one's own; all comments here are.
EditComment(x, t) ==
  /\ "comment" \in Forms
  /\ x \in On(Comments) /\ store[x].data["title"] # t
  /\ Submit(Dispatched(store, Act("update", x, Edited(store[x], "rename", t))),
            Edit("rename", x, t))

DeleteComment(x) ==
  /\ "comment" \in Forms
  /\ x \in On(Comments)
  /\ Submit(Dispatched(store, Act("delete", x, Blank)), Delete(x))

----------------------------------------------------------------------------
(* Personas                                                                *)

\* From the list of personas.
CreatePersona(x, p, t) ==
  /\ "persona" \in Forms
  /\ x \in Personas \cap fresh /\ p \in On(Projects)
  /\ Submit(Dispatched(store, Act("create", x, Fresh(<<p>>, t))), Create(x, <<p>>, t))

\* From the menu of a workflow: the persona and the row that attaches it.
CreatePersonaFor(x, p, w, tag, t) ==
  LET made == Dispatched(store, Act("create", x, Fresh(<<p>>, t)))
  IN  /\ "persona" \in Forms
      /\ x \in Personas \cap fresh /\ tag \in WorkflowPersonas \cap fresh
      /\ p \in On(Projects) /\ w \in On(Workflows)
      /\ Submit(Dispatched(made, Act("create", tag, Fresh(<<w, x>>, Blank))),
                Request("create", x, <<p>>, 0, t, <<tag, w>>))

EditPersona(x, t) ==
  /\ "persona" \in Forms
  /\ x \in On(Personas) /\ store[x].data["title"] # t
  /\ Submit(Dispatched(store, Act("update", x, Edited(store[x], "rename", t))),
            Edit("rename", x, t))

\* The rows that attach it stay in the store, without a persona to show.
HandleDeletePersona(x) ==
  /\ "persona" \in Forms
  /\ x \in On(Personas)
  /\ Submit(Dispatched(store, Act("delete", x, Blank)), Delete(x))

----------------------------------------------------------------------------
(* The personas of a workflow, on the board                                *)

\* The menu lists the personas that are not attached to the workflow.
Unattached(w) ==
  On(Personas) \ {store[y].place[2] :
                    y \in {z \in DOMAIN store \cap WorkflowPersonas : store[z].place[1] = w}}

HandleCreateWorkflowPersona(x, w, a) ==
  /\ "persona" \in Forms
  /\ x \in WorkflowPersonas \cap fresh
  /\ w \in On(Workflows) /\ a \in Unattached(w)
  /\ Submit(Dispatched(store, Act("create", x, Fresh(<<w, a>>, Blank))),
            Create(x, <<w, a>>, Blank))

HandleDeleteWorkflowPersona(x) ==
  /\ "persona" \in Forms
  /\ x \in On(WorkflowPersonas)
  /\ Submit(Dispatched(store, Act("delete", x, Blank)), Delete(x))

=============================================================================
