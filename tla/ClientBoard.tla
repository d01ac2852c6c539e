---------------------------- MODULE ClientBoard ----------------------------
(***************************************************************************)
(* The open project, complete: every form, the network and the answers.     *)
(***************************************************************************)
EXTENDS ClientPeople

CardMade ==
  \E t \in Texts :
    \/ \E x \in fresh \cap Workflows, p \in Projects : CreateWorkflow(x, p, t)
    \/ \E x \in fresh \cap Milestones, p \in Projects : CreateMilestone(x, p, t)
    \/ \E x \in fresh \cap SubWorkflows, w \in Workflows : CreateSubWorkflow(x, w, t)
    \/ \E x \in fresh \cap Features, cell \in Cells : CreateFeature(x, cell, t)

CardMoved ==
  \/ \E x \in On(Features), cell \in Cells, i \in 0 .. Cardinality(Features) :
       MoveFeature(x, cell, i)
  \/ \E x \in On(Milestones), i \in 0 .. Cardinality(Milestones) : MoveMilestone(x, i)
  \/ \E x \in On(Workflows), i \in 0 .. Cardinality(Workflows) : MoveWorkflow(x, i)
  \/ \E x \in On(SubWorkflows), w \in Workflows, i \in 0 .. Cardinality(SubWorkflows) :
       MoveSubWorkflow(x, w, i)

CardEdited ==
  \E x \in On(Ranked \cup Projects) :
    \/ \E t \in Texts :
         \/ RenameCard(x, t) \/ DescribeCard(x, t) \/ HandleChangeColor(x, t)
         \/ UpdateAnnotations(x, t) \/ ChangeEstimate(x, t)
    \/ HandleClose(x) \/ HandleOpen(x) \/ HandleDelete(x)

Discussed ==
  \/ \E x \in fresh \cap Comments, f \in Features, t \in Texts : PostComment(x, f, t)
  \/ \E x \in On(Comments) : DeleteComment(x) \/ \E t \in Texts : EditComment(x, t)

PersonaMade ==
  \E x \in fresh \cap Personas, p \in Projects, t \in Texts :
    \/ CreatePersona(x, p, t)
    \/ \E w \in Workflows, tag \in fresh \cap WorkflowPersonas :
         CreatePersonaFor(x, p, w, tag, t)

PersonaChanged ==
  \/ \E x \in On(Personas) : HandleDeletePersona(x) \/ \E t \in Texts : EditPersona(x, t)
  \/ \E x \in fresh \cap WorkflowPersonas, w \in Workflows, a \in Personas :
       HandleCreateWorkflowPersona(x, w, a)
  \/ \E x \in On(WorkflowPersonas) : HandleDeleteWorkflowPersona(x)

FormFilled ==
  CanEdit /\ (CardMade \/ CardMoved \/ CardEdited \/ Discussed \/ PersonaMade \/ PersonaChanged)

AnswerArrives(k) ==
  \/ CardAnswered(k) \/ CommentAnswered(k) \/ PersonaAnswered(k)
  \/ WorkflowPersonaAnswered(k) \/ EditAnswered(k) \/ PersonaEditAnswered(k)
  \/ MoveAnswered(k) \/ DeleteAnswered(k) \/ LoadAnswered(k)

Next ==
  \/ FormFilled
  \/ \E p \in Projects : OpenProject(p)
  \/ \E k \in DOMAIN calls : Serve(k) \/ Refuse(k) \/ Lose(k)
  \/ \E k \in DOMAIN calls : AnswerArrives(k)
  \/ \E x \in Ids : DeletedElsewhere(x)

Spec == Init /\ [][Next]_vars

----------------------------------------------------------------------------
(* Properties                                                              *)

RequestType ==
  [op : Ops, id : Ids, place : Seq(Ids), index : Nat, text : Values,
   to : {<<>>} \cup (Ids \X Ids)]

\* Types of the two stores, the calls between them and their answers.
TypeOK ==
  /\ DOMAIN store \subseteq Ids /\ \A x \in DOMAIN store : store[x] \in Row
  /\ DOMAIN rows \subseteq Ids /\ \A x \in DOMAIN rows : rows[x] \in Row
  /\ DOMAIN calls \subseteq Nat
  /\ \A k \in DOMAIN calls :
       /\ calls[k].req \in RequestType
       /\ calls[k].state \in {"sent", "ok", "refused"}
       /\ calls[k].turn \in Nat
       /\ \A x \in DOMAIN calls[k].answer : x \in Ids /\ calls[k].answer[x] \in Row
  /\ page \in {"board", "loading", "projects"} /\ mount \in Nat /\ mode \in Modes
  /\ fresh \subseteq Ids /\ gone \subseteq Ids
  /\ why \subseteq {"hasty", "blind", "moved", "reload", "lost", "elsewhere", "alert", "reversed",
                     "project"}
  /\ left \in [edits : 0 .. MaxEdits, loads : 0 .. MaxLoads, faults : 0 .. MaxFaults]

Quiet == DOMAIN calls = {} /\ page # "loading" /\ mode = "editor"

\* Once nothing is under way, the page shows the cards the server has, whatever
\* was created, edited, closed and deleted side by side and answered in whatever
\* order, and whatever other members deleted meanwhile.  (Unless the user was
\* alerted, a call was lost, the page was reopened beside a call, a row was deleted
\* before its creation arrived, or an answer was overtaken that is not used.)
BoardsAgree ==
  Quiet /\ why \subseteq {"moved", "reversed", "elsewhere", "project"}
    => Shown(Without(store, gone)) = Shown(rows)

\* Without reordered answers, moves beside other calls and deletions by others the
\* page also agrees in every field of every card, its place and rank included.
RowsAgree == Quiet /\ why = {} => View(store) = View(rows)

\* Between any two cards of the page a card can be dropped: no rank of the store
\* ever leaves no word below it or none above it, with optimistic ranks beside the
\* server's, equal ones and lists out of step among them.
RoomOnThePage == \A x \in DOMAIN store \cap Ranked : HasRoom(store[x].rank)

\* An answer never brings a card back: a row enters the store by a form or by
\* loading the project.
OnlyLoadsRevive ==
  [][ DOMAIN store' \subseteq DOMAIN store
      \/ left'.edits < left.edits
      \/ \E k \in DOMAIN calls \ DOMAIN calls' : calls[k].req.op = "get" ]_vars

=============================================================================
