------------------------------- MODULE Board -------------------------------
(***************************************************************************)
(* The board: projects hold milestones and workflows, workflows hold        *)
(* subworkflows, and a feature lies in the cell of a milestone and a        *)
(* subworkflow.  The rows of one parent (or cell) are ordered by rank.      *)
(* Each client runs one request at a time, in a READ COMMITTED transaction  *)
(* whose statements are the steps below; its writes, which other            *)
(* transactions cannot see or overtake, are one step with the commit.       *)
(***************************************************************************)
EXTENDS Lexorank, FiniteSets

CONSTANTS
  Projects, Milestones, Workflows, SubWorkflows, Features,  \* ids of rows
  Titles,      \* what an edit writes: title, description, colour, status ...
  Clients,     \* requests that can be open at the same time
  Start,       \* the rows there are at first
  MaxRequests  \* bound on the requests of a behaviour

Tables == {Projects, Milestones, Workflows, SubWorkflows, Features}
Ids    == UNION Tables

\* Where a row may lie: the ids its foreign keys name.
Places(x) ==
  CASE x \in Projects                 -> {<<>>}
    [] x \in Milestones \cup Workflows -> {<<p>> : p \in Projects}
    [] x \in SubWorkflows             -> {<<w>> : w \in Workflows}
    [] x \in Features                 -> Milestones \X SubWorkflows

\* Projects have no rank.
Row(x) == [place : Places(x), rank : IF x \in Projects THEN {<<>>} ELSE Word,
           title : Titles]

ASSUME TablesAssumption ==
  /\ Projects \cap (Milestones \cup Workflows \cup SubWorkflows \cup Features) = {}
  /\ Milestones \cap (Workflows \cup SubWorkflows \cup Features) = {}
  /\ Workflows \cap (SubWorkflows \cup Features) = {}
  /\ SubWorkflows \cap Features = {}
  /\ IsFiniteSet(Features)

VARIABLES
  rows,     \* the committed rows: a function from the ids that exist
  tx,       \* the request of each client and what it has read
  begun     \* requests so far

vars == <<rows, tx, begun>>

AnyRow == [place : Seq(Ids), rank : Word, title : Titles]
Upsert == {w \in [id : Ids, row : AnyRow] : w.row \in Row(w.id)}
Tx == [stage  : {"idle", "find", "chain", "store"},
       op     : {"none", "create", "edit", "move", "reorder"},
       stores : Seq(Upsert),
       last   : Word,
       under  : SUBSET Ids]

Write(x, place, rank, title) ==
  [id |-> x, row |-> [place |-> place, rank |-> rank, title |-> title]]

Request(op, stage, stores, last) ==
  [stage |-> stage, op |-> op, stores |-> stores, last |-> last, under |-> {}]

NoTx == Request("none", "idle", <<>>, <<>>)

\* The request has the rank of its one row, behind the rows of S.
Ranked(t, place, S, rank) ==
  LET w == t.stores[1]
  IN  [t EXCEPT !.stage = "store", !.under = S,
                !.stores = <<Write(w.id, place, rank, w.row.title)>>]

Init ==
  /\ rows = Start
  /\ tx = [c \in Clients |-> NoTx]
  /\ begun = 0

----------------------------------------------------------------------------
(* Statements                                                              *)

SameTable(x, y) == \E T \in Tables : x \in T /\ y \in T

Siblings(x, place) ==
  {y \in DOMAIN rows : SameTable(x, y) /\ rows[y].place = place}

Lower(y, z) == Less(rows[y].rank, rows[z].rank)

\* The rank of the first (last) row of a set, and none if there is no row.
FirstOf(S) == IF S = {} THEN {<<>>}
              ELSE {rows[y].rank : y \in {u \in S : \A z \in S : ~Lower(z, u)}}
LastOf(S)  == IF S = {} THEN {<<>>}
              ELSE {rows[y].rank : y \in {u \in S : \A z \in S : ~Lower(u, z)}}

\* The rows before some index of those ordered by rank.
Cuts(S) == {L \in SUBSET S : \A y \in L, z \in S \ L : Lower(y, z)}

\* The rows after the first k upserts of c's request: a whole row is written,
\* and inserted if it is not there.
After(c, k) ==
  LET w == tx[c].stores
      written == {w[j].id : j \in 1 .. k}
  IN  [y \in DOMAIN rows \cup written |->
         IF y \in written THEN w[CHOOSE j \in 1 .. k : w[j].id = y].row
                          ELSE rows[y]]

\* The unique keys (parent, rank) and the foreign keys.
RanksUnique(b) ==
  \A y, z \in DOMAIN b \ Projects :
    y # z /\ b[y].place = b[z].place /\ SameTable(y, z) => b[y].rank # b[z].rank
ParentsExist(b) ==
  \A y \in DOMAIN b : \A k \in DOMAIN b[y].place : b[y].place[k] \in DOMAIN b

\* Bug: no foreign keys.
AcceptedAlone(c) == \A k \in DOMAIN tx[c].stores : RanksUnique(After(c, k))

Accepted(c) ==
  \A k \in DOMAIN tx[c].stores :
    RanksUnique(After(c, k)) /\ ParentsExist(After(c, k))

\* ON DELETE CASCADE, from a project down to features.
With(S) == S \cup {y \in DOMAIN rows : \E k \in DOMAIN rows[y].place :
                                         rows[y].place[k] \in S}
Cascade(x) == With(With(With({x})))

\* The board there is at first is one that requests can have made.
ASSUME BoundAssumption == MaxRequests \in Nat
ASSUME StartAssumption ==
  /\ DOMAIN Start \subseteq Ids
  /\ \A x \in DOMAIN Start :
       Start[x] \in Row(x) /\ (x \in Projects \/ HasRoom(Start[x].rank))
  /\ Start = [x \in DOMAIN Start |-> Start[x]]
  /\ RanksUnique(Start) /\ ParentsExist(Start)

----------------------------------------------------------------------------
(* Requests                                                                *)

Open(c, t) ==
  /\ tx[c].stage = "idle" /\ begun < MaxRequests
  /\ tx' = [tx EXCEPT ![c] = t]
  /\ begun' = begun + 1
  /\ UNCHANGED rows

\* Create...WithID: GetX finds no row of that id.
Create(c, x, place) ==
  /\ x \notin DOMAIN rows
  /\ \E t \in Titles :
       Open(c, Request("create", IF x \in Projects THEN "store" ELSE "find",
                       <<Write(x, place, <<>>, t)>>, <<>>))

CreateProject(c)   == \E p \in Projects : Create(c, p, <<>>)
CreateMilestone(c) == \E m \in Milestones, p \in Projects : Create(c, m, <<p>>)
CreateWorkflow(c)  == \E w \in Workflows, p \in Projects : Create(c, w, <<p>>)
CreateSubWorkflow(c) ==
  \E s \in SubWorkflows, w \in Workflows : Create(c, s, <<w>>)
CreateFeature(c) ==
  \E f \in Features, m \in Milestones, s \in SubWorkflows : Create(c, f, <<m, s>>)

\* The new row goes behind the last of the rows it will lie among.
FindLast(c) ==
  /\ tx[c].stage = "find" /\ tx[c].op = "create"
  /\ LET w == tx[c].stores[1]
         S == Siblings(w.id, w.row.place)
     IN  \E p \in LastOf(S) :
           tx' = [tx EXCEPT ![c] = Ranked(@, w.row.place, S, Rank(p, <<>>).rank)]
  /\ UNCHANGED <<rows, begun>>

\* Rename, describe, colour, open, close, annotate, estimate: the row is read,
\* one field of it is changed, and all of it will be written.
Edit(c, x) ==
  /\ x \in DOMAIN rows
  /\ \E t \in Titles :
       Open(c, Request("edit", "store",
                       <<Write(x, rows[x].place, rows[x].rank, t)>>, <<>>))

EditProject(c)     == \E x \in Projects     : Edit(c, x)
EditMilestone(c)   == \E x \in Milestones   : Edit(c, x)
EditWorkflow(c)    == \E x \in Workflows    : Edit(c, x)
EditSubWorkflow(c) == \E x \in SubWorkflows : Edit(c, x)
EditFeature(c)     == \E x \in Features     : Edit(c, x)

\* The row to move is read first.
Move(c) ==
  \E x \in DOMAIN rows \ Projects :
    Open(c, Request("move", "find", <<[id |-> x, row |-> rows[x]]>>, <<>>))

\* Bug: the row before the index is not looked up.
MoveUnderNext(c, places) ==
  /\ tx[c].stage = "find" /\ tx[c].op = "move"
  /\ LET w == tx[c].stores[1]
     IN  \E place \in places :
         LET S == Siblings(w.id, place) \ {w.id}
         IN  \E L \in Cuts(S) : \E n \in FirstOf(S \ L) :
               tx' = [tx EXCEPT ![c] = Ranked(@, place, L, Rank(<<>>, n).rank)]
  /\ UNCHANGED <<rows, begun>>

\* Bug: the index is counted from one.
MoveOneLater(c, places) ==
  /\ tx[c].stage = "find" /\ tx[c].op = "move"
  /\ LET w == tx[c].stores[1]
     IN  \E place \in places :
         LET S == Siblings(w.id, place) \ {w.id}
         IN  \E L, K \in Cuts(S) : \E p \in LastOf(K), n \in FirstOf(S \ K) :
               /\ L \subseteq K /\ Cardinality(K \ L) = IF L = S THEN 0 ELSE 1
               /\ tx' = [tx EXCEPT ![c] = Ranked(@, place, L, Rank(p, n).rank)]
  /\ UNCHANGED <<rows, begun>>

\* Then the rows it will lie among, without itself.  The index is a cut of them.
MoveTo(c, places) ==
  /\ tx[c].stage = "find" /\ tx[c].op = "move"
  /\ LET w == tx[c].stores[1]
     IN  \E place \in places :
         LET S == Siblings(w.id, place) \ {w.id}
         IN  \E L \in Cuts(S) : \E p \in LastOf(L), n \in FirstOf(S \ L) :
               tx' = [tx EXCEPT ![c] = Ranked(@, place, L, Rank(p, n).rank)]
  /\ UNCHANGED <<rows, begun>>

\* An index behind the end of a list that is not empty: mmf[index-1] panics.
MovePastEnd(c, places) ==
  /\ tx[c].stage = "find" /\ tx[c].op = "move"
  /\ LET w == tx[c].stores[1]
     IN  \E place \in places : Siblings(w.id, place) \ {w.id} # {}
  /\ tx' = [tx EXCEPT ![c] = NoTx]
  /\ UNCHANGED <<rows, begun>>

Moved(c) == tx[c].stores[1]

MoveMilestone(c)   == /\ tx[c].stage = "find" /\ Moved(c).id \in Milestones
                      /\ MoveTo(c, {Moved(c).row.place})
MoveWorkflow(c)    == /\ tx[c].stage = "find" /\ Moved(c).id \in Workflows
                      /\ MoveTo(c, {Moved(c).row.place})
\* Bug: the workflow it is moved to is not filled in.
MoveSubWorkflowNowhere(c) ==
  /\ tx[c].stage = "find" /\ Moved(c).id \in SubWorkflows
  /\ MoveTo(c, {<<>>})

MoveSubWorkflow(c) == /\ tx[c].stage = "find" /\ Moved(c).id \in SubWorkflows
                      /\ MoveTo(c, Places(Moved(c).id))
MoveFeature(c)     == /\ tx[c].stage = "find" /\ Moved(c).id \in Features
                      /\ MoveTo(c, Places(Moved(c).id))
MoveTooFar(c) ==
  /\ tx[c].stage = "find"
  /\ MovePastEnd(c, IF Moved(c).id \in SubWorkflows \cup Features
                    THEN Places(Moved(c).id) ELSE {Moved(c).row.place})

\* ReorderFeatures reads the cell; any other list of ids is refused at once.
Reorder(c) ==
  \E m \in Milestones, s \in SubWorkflows :
    LET cell == {f \in DOMAIN rows \cap Features : rows[f].place = <<m, s>>}
    IN  /\ cell # {}
        /\ \E order \in [1 .. Cardinality(cell) -> cell], p \in LastOf(cell) :
             /\ \A f \in cell : \E k \in DOMAIN order : order[k] = f
             /\ Open(c, Request("reorder", "chain",
                     [k \in DOMAIN order |->
                        Write(order[k], <<m, s>>, <<>>, rows[order[k]].title)], p))

\* The k-th row has its rank.
Chained(t, k, rank) ==
  LET w == t.stores[k]
  IN  [t EXCEPT !.stage = IF k = Len(t.stores) THEN "store" ELSE "chain",
                !.stores[k] = Write(w.id, w.row.place, rank, w.row.title)]

\* Bug: each rank below the one before.
AllocateBelow(c) ==
  /\ tx[c].stage = "chain"
  /\ \E k \in DOMAIN tx[c].stores :
       /\ \A j \in DOMAIN tx[c].stores : tx[c].stores[j].row.rank = <<>> <=> j >= k
       /\ LET prev == IF k = 1 THEN tx[c].last ELSE tx[c].stores[k-1].row.rank
          IN  tx' = [tx EXCEPT ![c] = Chained(@, k, Rank(<<>>, prev).rank)]
  /\ UNCHANGED <<rows, begun>>

\* One turn of its loop: each rank above the one before, the first above all
\* ranks of the cell.
Allocate(c) ==
  /\ tx[c].stage = "chain"
  /\ \E k \in DOMAIN tx[c].stores :
       /\ \A j \in DOMAIN tx[c].stores : tx[c].stores[j].row.rank = <<>> <=> j >= k
       /\ LET prev == IF k = 1 THEN tx[c].last ELSE tx[c].stores[k-1].row.rank
              new  == Rank(prev, <<>>)
          IN  /\ new.ok
              /\ tx' = [tx EXCEPT ![c] = Chained(@, k, new.rank)]
  /\ UNCHANGED <<rows, begun>>

\* The upserts and the commit.
Store(c) ==
  /\ tx[c].stage = "store" /\ Accepted(c)
  /\ rows' = After(c, Len(tx[c].stores))
  /\ tx' = [tx EXCEPT ![c] = NoTx]
  /\ UNCHANGED begun

\* MustExec panics where a key is violated, and the transaction rolls back.
StorePanics(c) ==
  /\ tx[c].stage = "store" /\ ~Accepted(c)
  /\ tx' = [tx EXCEPT ![c] = NoTx]
  /\ UNCHANGED <<rows, begun>>

\* The request fails at any other point: the process, the connection, a lock.
Abort(c) ==
  /\ tx[c].stage # "idle"
  /\ tx' = [tx EXCEPT ![c] = NoTx]
  /\ UNCHANGED <<rows, begun>>

Delete(c, x) ==
  /\ tx[c].stage = "idle" /\ begun < MaxRequests
  /\ x \in DOMAIN rows
  /\ rows' = [y \in DOMAIN rows \ Cascade(x) |-> rows[y]]
  /\ begun' = begun + 1
  /\ UNCHANGED tx

DeleteProject(c)     == \E x \in Projects     : Delete(c, x)
DeleteMilestone(c)   == \E x \in Milestones   : Delete(c, x)
DeleteWorkflow(c)    == \E x \in Workflows    : Delete(c, x)
DeleteSubWorkflow(c) == \E x \in SubWorkflows : Delete(c, x)
DeleteFeature(c)     == \E x \in Features     : Delete(c, x)

Next ==
  \E c \in Clients :
    \/ CreateProject(c) \/ CreateMilestone(c) \/ CreateWorkflow(c)
    \/ CreateSubWorkflow(c) \/ CreateFeature(c) \/ FindLast(c)
    \/ EditProject(c) \/ EditMilestone(c) \/ EditWorkflow(c)
    \/ EditSubWorkflow(c) \/ EditFeature(c)
    \/ Move(c) \/ MoveMilestone(c) \/ MoveWorkflow(c)
    \/ MoveSubWorkflow(c) \/ MoveFeature(c) \/ MoveTooFar(c)
    \/ Reorder(c) \/ Allocate(c)
    \/ Store(c) \/ StorePanics(c) \/ Abort(c)
    \/ DeleteProject(c) \/ DeleteMilestone(c) \/ DeleteWorkflow(c)
    \/ DeleteSubWorkflow(c) \/ DeleteFeature(c)

Spec == Init /\ [][Next]_vars

----------------------------------------------------------------------------
(* Properties                                                              *)

TypeOK ==
  /\ DOMAIN rows \subseteq Ids
  /\ \A x \in DOMAIN rows : rows[x] \in Row(x)
  /\ tx \in [Clients -> Tx]
  /\ begun \in 0 .. MaxRequests

\* Every rank has room above and below it, and a request that is about to write
\* has a rank for every row that needs one.
TxHasRoom(t) ==
  /\ t.last = <<>> \/ HasRoom(t.last)
  /\ t.stage = "find" => Len(t.stores) = 1
  /\ \A k \in DOMAIN t.stores :
       LET w == t.stores[k]
       IN  /\ w.row.rank = <<>> \/ HasRoom(w.row.rank)
           /\ t.stage = "store" => w.id \in Projects \/ w.row.rank # <<>>
           /\ t.stage \in {"find", "chain"} => w.id \notin Projects

RanksHaveRoom ==
  /\ \A x \in DOMAIN rows \ Projects : HasRoom(rows[x].rank)
  /\ \A c \in Clients : TxHasRoom(tx[c])

\* The ranks that are in use, or about to be.
HeldRanks(t) == {t.last} \cup {t.stores[k].row.rank : k \in DOMAIN t.stores}
RanksInUse ==
  {rows[y].rank : y \in DOMAIN rows \ Projects}
    \cup UNION {HeldRanks(tx[c]) : c \in Clients}

\* Before, behind and between any ranks in use there is room for one more, so
\* that create and move may ignore Rank's second result as they do, and a
\* reorder is never refused for want of a rank.
RoomForEveryMove ==
  \A r, s \in RanksInUse \cup {<<>>} :
    r = <<>> \/ s = <<>> \/ Less(r, s) => Rank(r, s).ok

\* The stored row lies behind exactly the rows it was meant to follow.
Landed(c) ==
  LET w == tx[c].stores[1]
  IN  {y \in DOMAIN rows' \ {w.id} :
         /\ SameTable(y, w.id) /\ rows'[y].place = w.row.place
         /\ Less(rows'[y].rank, w.row.rank)} = tx[c].under

Others(c) ==
  LET w == tx[c].stores[1] IN Siblings(w.id, w.row.place) \ {w.id}

\* A created row is the last of its list, and a move to either end of a list
\* reaches it (with one client at a time).
EndsAreReached ==
  [][\A c \in Clients :
       tx[c].op \in {"create", "move"} /\ Store(c) /\ tx[c].under \in {{}, Others(c)}
         => Moved(c).id \in Projects \/ Landed(c)]_vars

\* A moved row has the rows before its index before it, and no others.
MoveLandsAtIndex == [][\A c \in Clients : Store(c) /\ tx[c].op = "move" => Landed(c)]_vars

\* After a reorder its features are in one cell and in the order asked for,
\* whatever happened to them since it read the cell.
ReorderIsExact ==
  [][\A c \in Clients :
       tx[c].op = "reorder" /\ Store(c) =>
         \A j, k \in DOMAIN tx[c].stores : j < k =>
           LET f == tx[c].stores[j].id
               g == tx[c].stores[k].id
           IN  /\ rows'[f].place = rows'[g].place
               /\ Less(rows'[f].rank, rows'[g].rank)]_vars

\* A card has the milestone and the subworkflow it lies in, and its list has
\* one card per rank, whatever was deleted while a request held old rows.
BoardIsWhole == RanksUnique(rows) /\ ParentsExist(rows)

============================================================================
