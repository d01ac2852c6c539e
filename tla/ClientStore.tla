---------------------------- MODULE ClientStore ----------------------------
(***************************************************************************)
(* The web client's store: one slice per table, each with a reducer.  A     *)
(* store is a function from the ids it holds to their rows; a slice is the  *)
(* part of it with the ids of one table.  No variables: ClientNet keeps the *)
(* store of a page, and the server's tables beside it in the same form.     *)
(***************************************************************************)
EXTENDS Lexorank, FiniteSets

CONSTANTS
  Projects, Milestones, Workflows, SubWorkflows, Features,  \* ids of rows
  Comments, Personas, WorkflowPersonas,
  Texts                                   \* what is typed into a form

Ranked == Milestones \cup Workflows \cup SubWorkflows \cup Features
Tables == {Projects, Milestones, Workflows, SubWorkflows, Features,
           Comments, Personas, WorkflowPersonas}
Ids    == UNION Tables

\* An id is one of one table only.
ASSUME SlicesAssumption ==
  LET T == <<Projects, Milestones, Workflows, SubWorkflows, Features,
             Comments, Personas, WorkflowPersonas>>
  IN  \A i, j \in DOMAIN T : i # j => T[i] \cap T[j] = {}

\* The fields of a row; a comment's post and a persona's form are one text.
Fields == {"title", "description", "color", "annotations", "estimate", "status"}
Blank  == ""
Values == Texts \cup {Blank, "OPEN", "CLOSED"}

Row == [place : Seq(Ids), rank : Word, data : [Fields -> Values]]

\* A row whose forms say t: what a create makes of its form.
Fresh(place, t) ==
  [place |-> place, rank |-> <<>>,
   data  |-> [f \in Fields |-> IF f = "title" THEN t
                               ELSE IF f = "status" THEN "OPEN" ELSE Blank]]

SameSlice(x, y) == \E T \in Tables : x \in T /\ y \in T

\* The rows a place names: the parents of what lies there.
RowsOf(place) == {place[k] : k \in DOMAIN place}

Parents(s, x) == RowsOf(s[x].place)

\* The foreign keys: what the parents of x can be.
Above(x) ==
  {q \in Ids : \/ x \in Milestones \cup Workflows \cup Personas /\ q \in Projects
               \/ x \in SubWorkflows     /\ q \in Workflows
               \/ x \in WorkflowPersonas /\ q \in Workflows \cup Personas
               \/ x \in Features         /\ q \in Milestones \cup SubWorkflows
               \/ x \in Comments         /\ q \in Features}

\* Rows that have their parents, as the foreign keys want it.
Whole(s) == \A x \in DOMAIN s : Parents(s, x) \subseteq DOMAIN s \cap Above(x)

\* filterFeaturesOnMilestoneAndSubWorkflow and its kin: x's slice in one place.
InPlace(s, x, place) == {y \in DOMAIN s : SameSlice(x, y) /\ s[y].place = place}

Below(s, L, r) == {z \in L : Less(s[z].rank, r)}
UpTo(s, L, r)  == {z \in L : ~Less(r, s[z].rank)}

\* sortFeatures(...)[i - 1].rank: the i-th rank from below, none beyond the ends.
RankAt(s, L, i) ==
  LET at == {y \in L : /\ Cardinality(Below(s, L, s[y].rank)) < i
                       /\ i <= Cardinality(UpTo(s, L, s[y].rank))}
  IN  IF at = {} THEN <<>> ELSE s[CHOOSE y \in at : TRUE].rank

----------------------------------------------------------------------------
(* Actions, and what a reducer does with each                              *)

\* CREATE_X: appended, in a ranked slice behind the last of its list.
Created(s, x, row) ==
  LET L == InPlace(s, x, row.place)
      r == IF x \in Ranked THEN Rank(RankAt(s, L, Cardinality(L)), <<>>).rank
                           ELSE <<>>
  IN  [y \in DOMAIN s \cup {x} |-> IF y = x THEN [row EXCEPT !.rank = r] ELSE s[y]]

\* Bug: the row is put in if it is not there.
Upserted(s, x, row) == [y \in DOMAIN s \cup {x} |-> IF y = x THEN row ELSE s[y]]

\* UPDATE_X: the row of that id is replaced; where there is none, nothing is.
Updated(s, x, row) == [y \in DOMAIN s |-> IF y = x THEN row ELSE s[y]]

\* DELETE_X, and DELETE_FEATURES_BY_X.
Without(s, X) == [y \in DOMAIN s \ X |-> s[y]]

\* MOVE_X: ranked between the neighbours at that index, without itself.
MovedTo(s, x, place, i) ==
  LET L == InPlace(s, x, place) \ {x}
      r == Rank(RankAt(s, L, i), RankAt(s, L, i + 1)).rank
  IN  Updated(s, x, [s[x] EXCEPT !.place = place, !.rank = r])

\* Bug: with itself.
MovedAmongItself(s, x, place, i) ==
  LET L == InPlace(s, x, place)
      r == Rank(RankAt(s, L, i), RankAt(s, L, i + 1)).rank
  IN  Updated(s, x, [s[x] EXCEPT !.place = place, !.rank = r])

\* LOAD_X: a slice, or several, are replaced.
Loaded(s, slice, new) ==
  [y \in (DOMAIN s \ slice) \cup (DOMAIN new \cap slice) |->
     IF y \in slice THEN new[y] ELSE s[y]]

\* The id of a load is the set of the slices it replaces.
Act(type, id, row) == [type |-> type, id |-> id, row |-> row]

\* What every reducer shares, beside the load.  An action for another slice falls
\* through.
Reduced(slice, s, a) ==
  CASE a.type = "create" /\ a.id \in slice -> Created(s, a.id, a.row)
    [] a.type = "update" /\ a.id \in slice -> Updated(s, a.id, a.row)
    [] a.type = "delete" /\ a.id \in slice -> Without(s, {a.id})
    [] OTHER -> s

----------------------------------------------------------------------------
(* The reducers                                                            *)

ProjectsReducer(s, a)         == Reduced(Projects, s, a)
FeatureCommentsReducer(s, a)  == Reduced(Comments, s, a)
PersonasReducer(s, a)         == Reduced(Personas, s, a)
WorkflowPersonasReducer(s, a) == Reduced(WorkflowPersonas, s, a)

\* The ranked slices move their cards as well: a.row is [place, index] then.
MilestonesReducer(s, a) ==
  IF a.type = "move" /\ a.id \in Milestones
  THEN MovedTo(s, a.id, s[a.id].place, a.row.index)
  ELSE Reduced(Milestones, s, a)

WorkflowsReducer(s, a) ==
  IF a.type = "move" /\ a.id \in Workflows
  THEN MovedTo(s, a.id, s[a.id].place, a.row.index)
  ELSE Reduced(Workflows, s, a)

SubWorkflowsReducer(s, a) ==
  IF a.type = "move" /\ a.id \in SubWorkflows
  THEN MovedTo(s, a.id, a.row.place, a.row.index)
  ELSE Reduced(SubWorkflows, s, a)

\* Bug: the card is still in the list in which its place is looked up.
FeaturesReducerAmongItself(s, a) ==
  CASE a.type = "move" /\ a.id \in Features ->
         MovedAmongItself(s, a.id, a.row.place, a.row.index)
    [] a.type = "deleteBy" ->
         Without(s, {f \in DOMAIN s \cap Features : Parents(s, f) \cap a.id # {}})
    [] OTHER -> Reduced(Features, s, a)

\* A deletion takes the features of the deleted cards a.id out as well.
FeaturesReducer(s, a) ==
  CASE a.type = "move" /\ a.id \in Features ->
         MovedTo(s, a.id, a.row.place, a.row.index)
    [] a.type = "deleteBy" ->
         Without(s, {f \in DOMAIN s \cap Features : Parents(s, f) \cap a.id # {}})
    [] OTHER -> Reduced(Features, s, a)

\* combineReducers: every action goes to every reducer.  A load is for the slices in
\* a.id, any other action for one.
Dispatched(s, a) ==
  IF a.type = "load" THEN Loaded(s, UNION a.id, a.row)
  ELSE IF a.type = "deleteBy" THEN FeaturesReducer(s, a)
  ELSE
  CASE a.id \in Features         -> FeaturesReducer(s, a)
    [] a.id \in Projects         -> ProjectsReducer(s, a)
    [] a.id \in Milestones       -> MilestonesReducer(s, a)
    [] a.id \in Workflows        -> WorkflowsReducer(s, a)
    [] a.id \in SubWorkflows     -> SubWorkflowsReducer(s, a)
    [] a.id \in Comments         -> FeatureCommentsReducer(s, a)
    [] a.id \in Personas         -> PersonasReducer(s, a)
    [] a.id \in WorkflowPersonas -> WorkflowPersonasReducer(s, a)
    [] OTHER -> s

----------------------------------------------------------------------------
(* Selectors                                                               *)

Held(s, X)    == {x \in X : Parents(s, x) \subseteq X}

\* What the pages show: a row whose parents, up to the project, are there.
\* The store may hold others, such as the subworkflows of a deleted workflow.
Shown(s) == Held(s, Held(s, Held(s, Held(s, DOMAIN s))))

\* The rows of the store that are shown.
View(s) == [x \in Shown(s) |-> s[x]]

=============================================================================
