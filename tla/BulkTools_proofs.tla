--------------------------- MODULE BulkTools_proofs ---------------------------
(***************************************************************************)
(* Theorems about Board, for any number of rows, titles, clients and        *)
(* requests and any first board; and about the board with the bulk tools    *)
(* beside it, for any number of agents and items too.                       *)
(***************************************************************************)
EXTENDS BulkTools, Lexorank_proofs, FiniteSetTheorems

\* What every step keeps.
Inv == TypeOK /\ RanksHaveRoom

-------------------------------------------------------------------------------
(* Types                                                                   *)

LEMMA EmptyWord == <<>> \in Word
BY DEF Word

LEMMA TablesOfIds ==
  /\ Projects \subseteq Ids /\ Milestones \subseteq Ids /\ Workflows \subseteq Ids
  /\ SubWorkflows \subseteq Ids /\ Features \subseteq Ids
  /\ \A x \in Ids : \/ x \in Projects \/ x \in Milestones \/ x \in Workflows
                    \/ x \in SubWorkflows \/ x \in Features
BY DEF Ids, Tables

LEMMA PlacesOf ==
  ASSUME NEW x \in Ids
  PROVE  /\ x \in Projects => Places(x) = {<<>>}
         /\ x \in Milestones \cup Workflows => Places(x) = {<<p>> : p \in Projects}
         /\ x \in SubWorkflows => Places(x) = {<<w>> : w \in Workflows}
         /\ x \in Features => Places(x) = Milestones \X SubWorkflows
BY TablesAssumption DEF Places

LEMMA PlacesType ==
  ASSUME NEW x \in Ids, NEW place \in Places(x)
  PROVE  place \in Seq(Ids)
<1>1. place = <<>> \/ (\E p \in Ids : place = <<p>>)
         \/ (\E p, q \in Ids : place = <<p, q>>)
  BY PlacesOf, TablesOfIds
<1>2. CASE place = <<>>
  BY <1>2
<1>3. CASE \E p \in Ids : place = <<p>>
  BY <1>3
<1>4. CASE \E p, q \in Ids : place = <<p, q>>
  BY <1>4
<1> QED BY <1>1, <1>2, <1>3, <1>4

LEMMA UpsertType ==
  ASSUME NEW x \in Ids, NEW row \in Row(x)
  PROVE  [id |-> x, row |-> row] \in Upsert
BY PlacesType, EmptyWord DEF Upsert, AnyRow, Row

LEMMA WriteType ==
  ASSUME NEW x \in Ids, NEW place \in Places(x), NEW rank \in Word,
         NEW title \in Titles, x \in Projects => rank = <<>>
  PROVE  Write(x, place, rank, title) \in Upsert
BY UpsertType DEF Write, Row

LEMMA NoTxFits == NoTx \in Tx /\ TxHasRoom(NoTx)
BY EmptyWord DEF NoTx, Request, Tx, TxHasRoom

LEMMA OneRequest ==
  ASSUME NEW op \in {"none", "create", "edit", "move", "reorder"},
         NEW stage \in {"idle", "find", "chain", "store"},
         NEW w \in Upsert,
         w.row.rank = <<>> \/ HasRoom(w.row.rank),
         stage = "store" => w.id \in Projects \/ w.row.rank # <<>>,
         stage \in {"find", "chain"} => w.id \notin Projects
  PROVE  Request(op, stage, <<w>>, <<>>) \in Tx
           /\ TxHasRoom(Request(op, stage, <<w>>, <<>>))
BY EmptyWord DEF Request, Tx, TxHasRoom

\* A step of one request.
LEMMA OneTx ==
  ASSUME Inv, NEW c \in Clients, NEW t \in Tx, TxHasRoom(t),
         tx' = [tx EXCEPT ![c] = t], rows' = rows, begun' \in 0 .. MaxRequests
  PROVE  Inv'
<1>1. tx' \in [Clients -> Tx]
  BY DEF Inv, TypeOK
<1>2. \A d \in Clients : tx'[d] = IF d = c THEN t ELSE tx[d]
  BY DEF Inv, TypeOK
<1>3. \A d \in Clients : TxHasRoom(tx'[d])
  BY <1>2 DEF Inv, RanksHaveRoom
<1>4. TypeOK'
  BY <1>1 DEF Inv, TypeOK
<1>5. RanksHaveRoom'
  BY <1>3 DEF Inv, RanksHaveRoom, TxHasRoom
<1> QED BY <1>4, <1>5 DEF Inv

LEMMA Opens ==
  ASSUME Inv, NEW c \in Clients, NEW t \in Tx, TxHasRoom(t), Open(c, t)
  PROVE  Inv'
<1>1. begun' \in 0 .. MaxRequests
  BY BoundAssumption DEF Open, Inv, TypeOK
<1> QED BY <1>1, OneTx DEF Open

\* A rank found among rows has room, and so has the one made from it.
LEMMA RowRank ==
  ASSUME Inv, NEW S, S \subseteq DOMAIN rows \ Projects,
         NEW p \in LastOf(S) \cup FirstOf(S)
  PROVE  /\ p \in Word /\ (p = <<>> \/ HasRoom(p))
         /\ p # <<>> => \E y \in S : p = rows[y].rank
<1>1. p = <<>> \/ \E y \in S : p = rows[y].rank
  BY DEF LastOf, FirstOf
<1>2. \A y \in S : rows[y].rank \in Word /\ HasRoom(rows[y].rank)
  BY DEF Inv, TypeOK, RanksHaveRoom, Row
<1> QED BY <1>1, <1>2, EmptyWord

LEMMA NewRank ==
  ASSUME NEW p \in Word, NEW n \in Word, p = <<>> \/ HasRoom(p),
         n = <<>> \/ HasRoom(n), p = <<>> \/ n = <<>> \/ Less(p, n)
  PROVE  /\ Rank(p, n).ok /\ Rank(p, n).rank \in Word /\ Rank(p, n).rank # <<>>
         /\ HasRoom(Rank(p, n).rank)
BY RankHasRoom DEF HasRoom

LEMMA SiblingsType ==
  ASSUME TypeOK, NEW x \in Ids, NEW place, x \notin Projects
  PROVE  /\ Siblings(x, place) \subseteq DOMAIN rows \ Projects
         /\ Siblings(x, place) \subseteq Ids
<1>1. ASSUME NEW y \in Siblings(x, place) PROVE y \notin Projects
  <2>1. PICK T \in Tables : x \in T /\ y \in T
    BY DEF Siblings, SameTable
  <2> QED BY <2>1, TablesAssumption DEF Tables
<1> QED BY <1>1 DEF Siblings, TypeOK

-------------------------------------------------------------------------------
(* The steps of a request                                                  *)

LEMMA Creates ==
  ASSUME Inv, NEW c \in Clients, NEW x \in Ids, NEW place \in Places(x),
         Create(c, x, place)
  PROVE  Inv'
<1> DEFINE stage == IF x \in Projects THEN "store" ELSE "find"
<1>1. PICK t \in Titles :
        Open(c, Request("create", stage, <<Write(x, place, <<>>, t)>>, <<>>))
  BY DEF Create
<1>2. Write(x, place, <<>>, t) \in Upsert
  BY EmptyWord, WriteType
<1>3. Write(x, place, <<>>, t).id = x /\ Write(x, place, <<>>, t).row.rank = <<>>
  BY DEF Write
<1>4. /\ Request("create", stage, <<Write(x, place, <<>>, t)>>, <<>>) \in Tx
      /\ TxHasRoom(Request("create", stage, <<Write(x, place, <<>>, t)>>, <<>>))
  BY <1>2, <1>3, OneRequest
<1> QED BY <1>1, <1>4, Opens

LEMMA Edits ==
  ASSUME Inv, NEW c \in Clients, NEW x \in Ids, Edit(c, x)
  PROVE  Inv'
<1> DEFINE w(t) == Write(x, rows[x].place, rows[x].rank, t)
<1>1. PICK t \in Titles : Open(c, Request("edit", "store", <<w(t)>>, <<>>))
  BY DEF Edit
<1>2. rows[x] \in Row(x) /\ (x \in Projects \/ HasRoom(rows[x].rank))
  BY DEF Edit, Inv, TypeOK, RanksHaveRoom
<1>3. /\ rows[x].rank \in Word
      /\ x \in Projects => rows[x].rank = <<>>
      /\ rows[x].place \in Places(x)
  BY <1>2, EmptyWord DEF Row
<1>4. w(t) \in Upsert
  BY <1>3, WriteType
<1>5. w(t).id = x /\ w(t).row.rank = rows[x].rank
  BY DEF Write
<1> HIDE DEF w
<1>6. /\ w(t).row.rank = <<>> \/ HasRoom(w(t).row.rank)
      /\ w(t).id \in Projects \/ w(t).row.rank # <<>>
  BY <1>2, <1>3, <1>5 DEF HasRoom
<1>7. /\ Request("edit", "store", <<w(t)>>, <<>>) \in Tx
      /\ TxHasRoom(Request("edit", "store", <<w(t)>>, <<>>))
  BY <1>4, <1>6, OneRequest
<1> QED BY <1>1, <1>7, Opens

LEMMA Moves ==
  ASSUME Inv, NEW c \in Clients, Move(c)
  PROVE  Inv'
<1>1. PICK x \in DOMAIN rows \ Projects :
        Open(c, Request("move", "find", <<[id |-> x, row |-> rows[x]]>>, <<>>))
  BY DEF Move
<1> DEFINE w == [id |-> x, row |-> rows[x]]
<1>2. w \in Upsert
  BY UpsertType DEF Inv, TypeOK
<1>3. w.id \notin Projects /\ HasRoom(w.row.rank)
  BY DEF Inv, RanksHaveRoom
<1> HIDE DEF w
<1>4. /\ Request("move", "find", <<w>>, <<>>) \in Tx
      /\ TxHasRoom(Request("move", "find", <<w>>, <<>>))
  BY <1>2, <1>3, OneRequest
<1> QED BY <1>1, <1>4, Opens DEF w

LEMMA OnlyElement ==
  ASSUME NEW T, NEW s \in Seq(T), Len(s) = 1
  PROVE  s[1] \in T /\ 1 \in DOMAIN s
<1>1. DOMAIN s = 1 .. 1
  OBVIOUS
<1>2. 1 \in DOMAIN s
  BY <1>1
<1> QED BY <1>2

\* A request that looks for a rank holds one row, which is not a project.
LEMMA Finding ==
  ASSUME Inv, NEW c \in Clients, tx[c].stage = "find"
  PROVE  /\ tx[c] \in Tx /\ Len(tx[c].stores) = 1 /\ TxHasRoom(tx[c])
         /\ LET w == tx[c].stores[1]
            IN  /\ w \in Upsert /\ w.id \in Ids \ Projects
                /\ w.row.place \in Places(w.id) /\ w.row.title \in Titles
<1>1. tx[c] \in Tx /\ TxHasRoom(tx[c])
  BY DEF Inv, TypeOK, RanksHaveRoom
<1>2. Len(tx[c].stores) = 1 /\ tx[c].stores \in Seq(Upsert)
  BY <1>1 DEF Tx, TxHasRoom
<1>3. tx[c].stores[1] \in Upsert /\ 1 \in DOMAIN tx[c].stores
  BY <1>2, OnlyElement
<1>4. tx[c].stores[1].id \notin Projects
  BY <1>1, <1>3 DEF TxHasRoom
<1> QED BY <1>1, <1>2, <1>3, <1>4 DEF Upsert, Row

\* It gets a rank that has room.
LEMMA Ranks ==
  ASSUME Inv, NEW c \in Clients, tx[c].stage = "find",
         NEW place \in Places(tx[c].stores[1].id), NEW S \in SUBSET Ids,
         NEW rank \in Word, HasRoom(rank), rank # <<>>,
         tx' = [tx EXCEPT ![c] = Ranked(@, place, S, rank)],
         UNCHANGED <<rows, begun>>
  PROVE  Inv'
<1> DEFINE w == Write(tx[c].stores[1].id, place, rank, tx[c].stores[1].row.title)
           t == [tx[c] EXCEPT !.stage = "store", !.under = S, !.stores = <<w>>]
<1>1. w \in Upsert
  BY Finding, WriteType
<1>2. w.row.rank = rank
  BY DEF Write
<1> HIDE DEF w
<1>3. t \in Tx
  <2>1. <<w>> \in Seq(Upsert)
    BY <1>1
  <2> QED BY <2>1, Finding DEF Tx
<1>4. tx[c] \in Tx /\ TxHasRoom(tx[c])
  BY Finding
<1>5. t.last = tx[c].last /\ t.stage = "store" /\ t.stores = <<w>>
  BY <1>4 DEF Tx
<1>6. TxHasRoom(t)
  BY <1>2, <1>4, <1>5 DEF TxHasRoom
<1>7. tx' = [tx EXCEPT ![c] = t]
  BY DEF Ranked, w, Inv, TypeOK
<1>8. begun' \in 0 .. MaxRequests /\ rows' = rows
  BY DEF Inv, TypeOK
<1> QED BY <1>3, <1>6, <1>7, <1>8, OneTx

LEMMA FindsLast ==
  ASSUME Inv, NEW c \in Clients, FindLast(c)
  PROVE  Inv'
<1> DEFINE w == tx[c].stores[1]
           S == Siblings(w.id, w.row.place)
<1>1. tx[c].stage = "find" /\ UNCHANGED <<rows, begun>>
  BY DEF FindLast
<1>2. PICK p \in LastOf(S) :
        tx' = [tx EXCEPT ![c] = Ranked(@, w.row.place, S, Rank(p, <<>>).rank)]
  BY DEF FindLast
<1>3. S \subseteq DOMAIN rows \ Projects /\ S \subseteq Ids
  BY <1>1, Finding, SiblingsType DEF Inv
<1>4. p \in Word /\ (p = <<>> \/ HasRoom(p))
  BY <1>3, RowRank
<1>5. /\ Rank(p, <<>>).rank \in Word /\ HasRoom(Rank(p, <<>>).rank)
      /\ Rank(p, <<>>).rank # <<>>
  BY <1>4, EmptyWord, NewRank
<1> QED BY <1>1, <1>2, <1>3, <1>5, Finding, Ranks

LEMMA MovesTo ==
  ASSUME Inv, NEW c \in Clients, NEW places, MoveTo(c, places),
         places \subseteq Places(tx[c].stores[1].id)
  PROVE  Inv'
<1> DEFINE w == tx[c].stores[1]
           S(place) == Siblings(w.id, place) \ {w.id}
<1>1. tx[c].stage = "find" /\ UNCHANGED <<rows, begun>>
  BY DEF MoveTo
<1>2. PICK place \in places : \E L \in Cuts(S(place)) :
        \E p \in LastOf(L), n \in FirstOf(S(place) \ L) :
          tx' = [tx EXCEPT ![c] = Ranked(@, place, L, Rank(p, n).rank)]
  BY DEF MoveTo
<1>3. PICK L \in Cuts(S(place)) : \E p \in LastOf(L), n \in FirstOf(S(place) \ L) :
          tx' = [tx EXCEPT ![c] = Ranked(@, place, L, Rank(p, n).rank)]
  BY <1>2
<1>4. PICK p \in LastOf(L), n \in FirstOf(S(place) \ L) :
          tx' = [tx EXCEPT ![c] = Ranked(@, place, L, Rank(p, n).rank)]
  BY <1>3
<1>5. S(place) \subseteq DOMAIN rows \ Projects /\ S(place) \subseteq Ids
  BY <1>1, Finding, SiblingsType DEF Inv
<1> HIDE DEF S
<1>6. L \subseteq S(place) /\ \A y \in L, z \in S(place) \ L : Lower(y, z)
  BY DEF Cuts
<1>7. /\ p \in Word /\ (p = <<>> \/ HasRoom(p))
      /\ p # <<>> => \E y \in L : p = rows[y].rank
  BY <1>5, <1>6, RowRank
<1>8. /\ n \in Word /\ (n = <<>> \/ HasRoom(n))
      /\ n # <<>> => \E z \in S(place) \ L : n = rows[z].rank
  <2>1. S(place) \ L \subseteq DOMAIN rows \ Projects
    BY <1>5
  <2> QED BY <2>1, RowRank
<1>9. p = <<>> \/ n = <<>> \/ Less(p, n)
  BY <1>6, <1>7, <1>8 DEF Lower
<1>10. /\ Rank(p, n).rank \in Word /\ HasRoom(Rank(p, n).rank)
       /\ Rank(p, n).rank # <<>>
  BY <1>7, <1>8, <1>9, NewRank
<1>11. L \in SUBSET Ids
  BY <1>5, <1>6
<1> QED BY <1>1, <1>4, <1>10, <1>11, Ranks

\* Every move is a move within the places that its row may have.
MoveStep(c) ==
  MoveMilestone(c) \/ MoveWorkflow(c) \/ MoveSubWorkflow(c) \/ MoveFeature(c)

LEMMA MovesWithin ==
  ASSUME Inv, NEW c \in Clients, MoveStep(c)
  PROVE  Inv'
<1>1. tx[c].stage = "find"
  BY DEF MoveStep, MoveMilestone, MoveWorkflow, MoveSubWorkflow, MoveFeature
<1>2. Moved(c).row.place \in Places(Moved(c).id)
  BY <1>1, Finding DEF Moved
<1>3. \E places \in SUBSET Places(Moved(c).id) : MoveTo(c, places)
  BY <1>2 DEF MoveStep, MoveMilestone, MoveWorkflow, MoveSubWorkflow, MoveFeature
<1> QED BY <1>3, MovesTo DEF Moved

LEMMA Reorders ==
  ASSUME Inv, NEW c \in Clients, Reorder(c)
  PROVE  Inv'
<1>1. PICK m \in Milestones, s \in SubWorkflows :
        LET cell == {f \in DOMAIN rows \cap Features : rows[f].place = <<m, s>>}
        IN  \E order \in [1 .. Cardinality(cell) -> cell], p \in LastOf(cell) :
              Open(c, Request("reorder", "chain",
                   [k \in DOMAIN order |->
                      Write(order[k], <<m, s>>, <<>>, rows[order[k]].title)], p))
  BY DEF Reorder
<1> DEFINE cell == {f \in DOMAIN rows \cap Features : rows[f].place = <<m, s>>}
           n == Cardinality(cell)
<1>2. PICK order \in [1 .. n -> cell], p \in LastOf(cell) :
        Open(c, Request("reorder", "chain",
             [k \in DOMAIN order |->
                Write(order[k], <<m, s>>, <<>>, rows[order[k]].title)], p))
  BY <1>1
<1> DEFINE stores == [k \in DOMAIN order |->
                        Write(order[k], <<m, s>>, <<>>, rows[order[k]].title)]
           t == Request("reorder", "chain", stores, p)
<1>3. ASSUME NEW k \in 1 .. n
      PROVE  /\ stores[k] \in Upsert /\ stores[k].row.rank = <<>>
             /\ stores[k].id \notin Projects
  <2>1. order[k] \in DOMAIN rows \cap Features /\ rows[order[k]].place = <<m, s>>
    BY <1>3
  <2>2. order[k] \in Ids /\ rows[order[k]] \in Row(order[k])
    BY <2>1 DEF Inv, TypeOK
  <2>3. <<m, s>> \in Places(order[k]) /\ rows[order[k]].title \in Titles
    BY <2>1, <2>2 DEF Row
  <2>4. stores[k] = Write(order[k], <<m, s>>, <<>>, rows[order[k]].title)
    BY <1>3
  <2>5. stores[k] \in Upsert
    BY <2>2, <2>3, <2>4, EmptyWord, WriteType
  <2>6. stores[k].row.rank = <<>> /\ stores[k].id = order[k]
    BY <2>4 DEF Write
  <2> QED BY <2>1, <2>5, <2>6, TablesAssumption
<1>4. n \in Nat /\ cell \subseteq DOMAIN rows \ Projects
  <2>1. IsFiniteSet(cell)
    BY TablesAssumption, FS_Subset
  <2>2. n \in Nat
    BY <2>1, FS_CardinalityType
  <2> QED BY <2>2, TablesAssumption
<1>5. p \in Word /\ (p = <<>> \/ HasRoom(p))
  BY <1>4, RowRank
<1>6. DOMAIN stores = 1 .. n
  OBVIOUS
<1> HIDE DEF stores, n, cell
<1>7. stores = [k \in 1 .. n |-> stores[k]]
  BY <1>6 DEF stores
<1>8. stores \in Seq(Upsert)
  BY <1>3, <1>4, <1>7
<1>9. t \in Tx
  BY <1>5, <1>8 DEF Tx, Request
<1>10. TxHasRoom(t)
  BY <1>3, <1>5, <1>6 DEF TxHasRoom, Request
<1>11. Open(c, t)
  BY <1>2 DEF stores
<1> QED BY <1>9, <1>10, <1>11, Opens

\* One turn of the loop of a reorder.
LEMMA Allocates ==
  ASSUME Inv, NEW c \in Clients, Allocate(c)
  PROVE  Inv'
<1> DEFINE prev(k) == IF k = 1 THEN tx[c].last ELSE tx[c].stores[k-1].row.rank
<1>1. PICK k \in DOMAIN tx[c].stores :
        /\ \A j \in DOMAIN tx[c].stores : tx[c].stores[j].row.rank = <<>> <=> j >= k
        /\ tx' = [tx EXCEPT ![c] = Chained(@, k, Rank(prev(k), <<>>).rank)]
  BY DEF Allocate
<1>2. tx[c].stage = "chain" /\ UNCHANGED <<rows, begun>>
  BY DEF Allocate
<1>3. tx[c] \in Tx /\ TxHasRoom(tx[c])
  BY DEF Inv, TypeOK, RanksHaveRoom
<1>4. tx[c].stores \in Seq(Upsert)
  BY <1>3 DEF Tx
<1>5. \A j \in DOMAIN tx[c].stores :
        /\ tx[c].stores[j] \in Upsert /\ tx[c].stores[j].row.rank \in Word
        /\ tx[c].stores[j].row.rank = <<>> \/ HasRoom(tx[c].stores[j].row.rank)
        /\ tx[c].stores[j].id \in Ids \ Projects
  <2>1. ASSUME NEW j \in DOMAIN tx[c].stores PROVE tx[c].stores[j] \in Upsert
    BY <1>4
  <2> QED BY <1>2, <1>3, <2>1 DEF TxHasRoom, Upsert, AnyRow
<1>6. prev(k) \in Word /\ (prev(k) = <<>> \/ HasRoom(prev(k)))
  <2>1. CASE k = 1
    BY <1>3, <2>1 DEF Tx, TxHasRoom
  <2>2. CASE k # 1
    <3>1. k - 1 \in DOMAIN tx[c].stores
      BY <1>4, <2>2
    <3> QED BY <1>5, <2>2, <3>1
  <2> QED BY <2>1, <2>2
<1> DEFINE rank == Rank(prev(k), <<>>).rank
           w == Write(tx[c].stores[k].id, tx[c].stores[k].row.place, rank,
                      tx[c].stores[k].row.title)
           stage == IF k = Len(tx[c].stores) THEN "store" ELSE "chain"
           stores == [tx[c].stores EXCEPT ![k] = w]
           t == [tx[c] EXCEPT !.stage = stage, !.stores = stores]
<1>7. rank \in Word /\ HasRoom(rank) /\ rank # <<>>
  BY <1>6, EmptyWord, NewRank
<1>8. w \in Upsert /\ w.row.rank = rank /\ w.id = tx[c].stores[k].id
  <2>1. /\ tx[c].stores[k].row.place \in Places(tx[c].stores[k].id)
        /\ tx[c].stores[k].row.title \in Titles
    BY <1>5 DEF Upsert, Row
  <2> HIDE DEF rank
  <2>2. w \in Upsert
    BY <1>5, <1>7, <2>1, WriteType
  <2> QED BY <2>2 DEF Write
<1> HIDE DEF w, rank, prev
<1>9. /\ stores \in Seq(Upsert) /\ DOMAIN stores = DOMAIN tx[c].stores
      /\ \A j \in DOMAIN stores : stores[j] = IF j = k THEN w ELSE tx[c].stores[j]
  BY <1>4, <1>8
<1> HIDE DEF stores
<1>10. t \in Tx /\ t.stores = stores /\ t.stage = stage /\ t.last = tx[c].last
  BY <1>3, <1>9 DEF Tx
<1>11. stage = "store" => \A j \in DOMAIN stores : j < k \/ j = k
  <2>1. DOMAIN tx[c].stores = 1 .. Len(tx[c].stores) /\ Len(tx[c].stores) \in Nat
    BY <1>4
  <2> QED BY <1>9, <2>1
<1>12. ASSUME NEW j \in DOMAIN stores
       PROVE  /\ stores[j].row.rank = <<>> \/ HasRoom(stores[j].row.rank)
              /\ stage = "store" => stores[j].row.rank # <<>>
              /\ stores[j].id \notin Projects
  <2>1. CASE j = k
    BY <1>5, <1>7, <1>8, <1>9, <2>1
  <2>2. CASE j # k
    <3>1. j \in DOMAIN tx[c].stores /\ stores[j] = tx[c].stores[j]
      BY <1>9, <2>2
    <3>2. j \in Nat /\ k \in Nat
      BY <1>4, <3>1
    <3>3. stage = "store" => ~ (j >= k)
      BY <1>11, <2>2, <3>2
    <3> QED BY <1>1, <1>5, <3>1, <3>3
  <2> QED BY <2>1, <2>2
<1>13. TxHasRoom(t)
  <2> HIDE DEF t, stage
  <2>1. stage \in {"store", "chain"}
    BY DEF stage
  <2> QED BY <1>3, <1>10, <1>12, <2>1 DEF TxHasRoom
<1>14. tx' = [tx EXCEPT ![c] = t]
  BY <1>1, <1>3 DEF Chained, w, rank, stores, Inv, TypeOK
<1>15. begun' \in 0 .. MaxRequests /\ rows' = rows
  BY <1>2 DEF Inv, TypeOK
<1> QED BY <1>10, <1>13, <1>14, <1>15, OneTx

\* The request is over and has written nothing.
LEMMA Ends ==
  ASSUME Inv, NEW c \in Clients,
         StorePanics(c) \/ Abort(c) \/ MoveTooFar(c)
  PROVE  Inv'
<1>1. tx' = [tx EXCEPT ![c] = NoTx] /\ UNCHANGED <<rows, begun>>
  BY DEF StorePanics, Abort, MoveTooFar, MovePastEnd
<1>2. begun' \in 0 .. MaxRequests /\ rows' = rows
  BY <1>1 DEF Inv, TypeOK
<1> QED BY <1>1, <1>2, NoTxFits, OneTx

-------------------------------------------------------------------------------
(* The steps that change rows                                              *)

\* Rows of their types, and ranks with room.
RowsFit(b) ==
  /\ DOMAIN b \subseteq Ids
  /\ \A x \in DOMAIN b : b[x] \in Row(x) /\ (x \in Projects \/ HasRoom(b[x].rank))

LEMMA AfterFits ==
  ASSUME Inv, NEW c \in Clients, tx[c].stage = "store",
         NEW k \in 0 .. Len(tx[c].stores)
  PROVE  RowsFit(After(c, k))
<1> DEFINE w == tx[c].stores
           written == {w[j].id : j \in 1 .. k}
<1>1. w \in Seq(Upsert) /\ TxHasRoom(tx[c])
  BY DEF Inv, TypeOK, RanksHaveRoom, Tx
<1>2. ASSUME NEW j \in 1 .. k
      PROVE  /\ w[j].id \in Ids /\ w[j].row \in Row(w[j].id)
             /\ w[j].id \in Projects \/ HasRoom(w[j].row.rank)
  <2>1. j \in DOMAIN w /\ w[j] \in Upsert
    BY <1>1
  <2> QED BY <1>1, <2>1 DEF Upsert, TxHasRoom
<1>3. ASSUME NEW y \in DOMAIN rows \cup written
      PROVE  /\ y \in Ids /\ After(c, k)[y] \in Row(y)
             /\ y \in Projects \/ HasRoom(After(c, k)[y].rank)
  <2>1. CASE y \in written
    <3> DEFINE i == CHOOSE j \in 1 .. k : w[j].id = y
    <3>1. i \in 1 .. k /\ w[i].id = y
      BY <2>1
    <3>2. After(c, k)[y] = w[i].row
      BY <2>1 DEF After
    <3> HIDE DEF i
    <3> QED BY <1>2, <3>1, <3>2
  <2>2. CASE y \notin written
    <3>1. y \in DOMAIN rows /\ After(c, k)[y] = rows[y]
      BY <2>2 DEF After
    <3> QED BY <3>1 DEF Inv, TypeOK, RanksHaveRoom
  <2> QED BY <2>1, <2>2
<1>4. DOMAIN After(c, k) = DOMAIN rows \cup written
  BY DEF After
<1> QED BY <1>3, <1>4 DEF RowsFit

LEMMA RowsChange ==
  ASSUME Inv, RowsFit(rows'), tx' = tx \/ \E c \in Clients : tx' = [tx EXCEPT ![c] = NoTx],
         begun' \in 0 .. MaxRequests
  PROVE  Inv'
<1>1. tx' \in [Clients -> Tx]
  BY NoTxFits DEF Inv, TypeOK
<1>2. \A d \in Clients : tx'[d] = tx[d] \/ tx'[d] = NoTx
  BY DEF Inv, TypeOK
<1>3. \A d \in Clients : TxHasRoom(tx'[d])
  BY <1>2, NoTxFits DEF Inv, RanksHaveRoom
<1>4. TypeOK'
  BY <1>1 DEF TypeOK, RowsFit
<1>5. RanksHaveRoom'
  BY <1>3 DEF RanksHaveRoom, RowsFit, TxHasRoom
<1> QED BY <1>4, <1>5 DEF Inv

LEMMA Stores ==
  ASSUME Inv, NEW c \in Clients, Store(c)
  PROVE  Inv'
<1>1. tx[c].stores \in Seq(Upsert)
  BY DEF Inv, TypeOK, Tx
<1>2. Len(tx[c].stores) \in 0 .. Len(tx[c].stores)
  BY <1>1
<1>3. RowsFit(rows')
  BY <1>2, AfterFits DEF Store
<1>4. begun' \in 0 .. MaxRequests
  BY DEF Store, Inv, TypeOK
<1> QED BY <1>3, <1>4, RowsChange DEF Store

LEMMA Deletes ==
  ASSUME Inv, NEW c \in Clients, NEW x \in Ids, Delete(c, x)
  PROVE  Inv'
<1>1. RowsFit(rows')
  BY DEF Delete, RowsFit, Inv, TypeOK, RanksHaveRoom
<1>2. begun' \in 0 .. MaxRequests
  BY BoundAssumption DEF Delete, Inv, TypeOK
<1> QED BY <1>1, <1>2, RowsChange DEF Delete

-------------------------------------------------------------------------------
(* The invariant                                                           *)

LEMMA InitInv == Init => Inv
<1> SUFFICES ASSUME Init PROVE Inv
  OBVIOUS
<1>1. TypeOK
  BY NoTxFits, StartAssumption, BoundAssumption DEF Init, TypeOK
<1>2. RanksHaveRoom
  BY NoTxFits, StartAssumption DEF Init, RanksHaveRoom
<1> QED BY <1>1, <1>2 DEF Inv

LEMMA NextInv == Inv /\ [Next]_vars => Inv'
<1> SUFFICES ASSUME Inv, [Next]_vars PROVE Inv'
  OBVIOUS
<1>1. CASE UNCHANGED vars
  BY <1>1 DEF vars, Inv, TypeOK, RanksHaveRoom, TxHasRoom
<1>2. CASE Next
  <2>1. PICK c \in Clients :
          \/ CreateProject(c) \/ CreateMilestone(c) \/ CreateWorkflow(c)
          \/ CreateSubWorkflow(c) \/ CreateFeature(c) \/ FindLast(c)
          \/ EditProject(c) \/ EditMilestone(c) \/ EditWorkflow(c)
          \/ EditSubWorkflow(c) \/ EditFeature(c)
          \/ Move(c) \/ MoveStep(c) \/ MoveTooFar(c)
          \/ Reorder(c) \/ Allocate(c)
          \/ Store(c) \/ StorePanics(c) \/ Abort(c)
          \/ DeleteProject(c) \/ DeleteMilestone(c) \/ DeleteWorkflow(c)
          \/ DeleteSubWorkflow(c) \/ DeleteFeature(c)
    BY <1>2 DEF Next, MoveStep
  <2>2. CASE \/ CreateProject(c) \/ CreateMilestone(c) \/ CreateWorkflow(c)
             \/ CreateSubWorkflow(c) \/ CreateFeature(c)
    <3>1. PICK x \in Ids : \E place \in Places(x) : Create(c, x, place)
      BY <2>2, PlacesOf, TablesOfIds DEF CreateProject, CreateMilestone,
         CreateWorkflow, CreateSubWorkflow, CreateFeature
    <3> QED BY <3>1, Creates
  <2>3. CASE \/ EditProject(c) \/ EditMilestone(c) \/ EditWorkflow(c)
             \/ EditSubWorkflow(c) \/ EditFeature(c)
    <3>1. PICK x \in Ids : Edit(c, x)
      BY <2>3, TablesOfIds DEF EditProject, EditMilestone, EditWorkflow,
         EditSubWorkflow, EditFeature
    <3> QED BY <3>1, Edits
  <2>4. CASE \/ DeleteProject(c) \/ DeleteMilestone(c) \/ DeleteWorkflow(c)
             \/ DeleteSubWorkflow(c) \/ DeleteFeature(c)
    <3>1. PICK x \in Ids : Delete(c, x)
      BY <2>4, TablesOfIds DEF DeleteProject, DeleteMilestone, DeleteWorkflow,
         DeleteSubWorkflow, DeleteFeature
    <3> QED BY <3>1, Deletes
  <2>5. CASE FindLast(c)
    BY <2>5, FindsLast
  <2>6. CASE Move(c)
    BY <2>6, Moves
  <2>7. CASE MoveStep(c)
    BY <2>7, MovesWithin
  <2>8. CASE Reorder(c)
    BY <2>8, Reorders
  <2>9. CASE Allocate(c)
    BY <2>9, Allocates
  <2>10. CASE Store(c)
    BY <2>10, Stores
  <2>11. CASE StorePanics(c) \/ Abort(c) \/ MoveTooFar(c)
    BY <2>11, Ends
  <2> QED BY <2>1, <2>2, <2>3, <2>4, <2>5, <2>6, <2>7, <2>8, <2>9, <2>10, <2>11
<1> QED BY <1>1, <1>2

\* Rows and requests have their types: a row lies where the foreign keys of its
\* table allow, and every rank is a word of the alphabet.
THEOREM TypeCorrect == Spec => []TypeOK
<1>1. Spec => []Inv
  BY InitInv, NextInv, PTL DEF Spec
<1>2. Inv => TypeOK
  BY DEF Inv
<1> QED BY <1>1, <1>2, PTL

\* No rank starts with the greatest letter or ends in the least, and no request
\* writes a row without a rank.
THEOREM RanksKeepRoom == Spec => []RanksHaveRoom
<1>1. Spec => []Inv
  BY InitInv, NextInv, PTL DEF Spec
<1>2. Inv => RanksHaveRoom
  BY DEF Inv
<1> QED BY <1>1, <1>2, PTL

LEMMA RoomForRanks == Inv => RoomForEveryMove
<1> SUFFICES ASSUME Inv, NEW r \in RanksInUse \cup {<<>>},
                    NEW s \in RanksInUse \cup {<<>>},
                    r = <<>> \/ s = <<>> \/ Less(r, s)
             PROVE  Rank(r, s).ok
  BY DEF RoomForEveryMove
<1>1. \A q \in RanksInUse : q \in Word /\ (q = <<>> \/ HasRoom(q))
  <2>1. \A y \in DOMAIN rows \ Projects :
          rows[y].rank \in Word /\ HasRoom(rows[y].rank)
    BY DEF Inv, TypeOK, RanksHaveRoom, Row
  <2>2. ASSUME NEW c \in Clients, NEW q \in HeldRanks(tx[c])
        PROVE  q \in Word /\ (q = <<>> \/ HasRoom(q))
    <3>1. /\ tx[c].stores \in Seq(Upsert) /\ TxHasRoom(tx[c])
          /\ tx[c].last \in Word
      BY DEF Inv, TypeOK, RanksHaveRoom, Tx
    <3>2. CASE q = tx[c].last
      BY <3>1, <3>2 DEF TxHasRoom
    <3>3. CASE \E k \in DOMAIN tx[c].stores : q = tx[c].stores[k].row.rank
      <4>1. PICK k \in DOMAIN tx[c].stores : q = tx[c].stores[k].row.rank
        BY <3>3
      <4>2. tx[c].stores[k] \in Upsert
        BY <3>1
      <4> QED BY <3>1, <4>1, <4>2 DEF Upsert, AnyRow, TxHasRoom
    <3> QED BY <3>2, <3>3 DEF HeldRanks
  <2> QED BY <2>1, <2>2 DEF RanksInUse
<1> QED BY <1>1, EmptyWord, NewRank

\* There is always a rank before, behind and between the ranks in use: the
\* callers of Rank may ignore whether it found one.
THEOREM AlwaysRoom == Spec => []RoomForEveryMove
<1>1. Spec => []Inv
  BY InitInv, NextInv, PTL DEF Spec
<1> QED BY <1>1, RoomForRanks, PTL

-------------------------------------------------------------------------------
(* The keys                                                                *)

LEMMA StoreKeepsWhole ==
  ASSUME Inv, BoardIsWhole, NEW c \in Clients, Store(c)
  PROVE  BoardIsWhole'
<1> DEFINE n == Len(tx[c].stores)
<1>1. tx[c].stores \in Seq(Upsert) /\ rows' = After(c, n)
  BY DEF Inv, TypeOK, Tx, Store
<1>2. CASE n \in DOMAIN tx[c].stores
  BY <1>1, <1>2 DEF Store, Accepted, BoardIsWhole
<1>3. CASE n \notin DOMAIN tx[c].stores
  <2>1. 1 .. n = {}
    BY <1>1, <1>3
  <2>2. DOMAIN rows' = DOMAIN rows /\ \A y \in DOMAIN rows : rows'[y] = rows[y]
    <3> HIDE DEF n
    <3> QED BY <1>1, <2>1 DEF After
  <2>3. RanksUnique(rows')
    BY <2>2 DEF BoardIsWhole, RanksUnique
  <2>4. ParentsExist(rows')
    BY <2>2 DEF BoardIsWhole, ParentsExist
  <2> QED BY <2>3, <2>4 DEF BoardIsWhole
<1> QED BY <1>2, <1>3

\* y lies in x.
In(y, x) == \E k \in DOMAIN rows[y].place : rows[y].place[k] = x

\* What lies in a project is no project, what lies in a milestone or workflow is
\* a subworkflow or a feature, and so on: the tables are four levels deep.
LEMMA Levels ==
  ASSUME TypeOK, NEW x \in DOMAIN rows, NEW y \in DOMAIN rows, In(y, x)
  PROVE  /\ y \notin Projects
         /\ x \notin Projects => y \in SubWorkflows \cup Features
         /\ x \in SubWorkflows => y \in Features
         /\ x \notin Features
<1>1. y \in Ids /\ rows[y].place \in Places(y)
  BY DEF TypeOK, Row
<1>2. CASE y \in Projects
  BY <1>1, <1>2, PlacesOf DEF In
<1>3. CASE y \in Milestones \cup Workflows
  <2>1. x \in Projects
    BY <1>1, <1>3, PlacesOf DEF In
  <2> QED BY <1>3, <2>1, TablesAssumption
<1>4. CASE y \in SubWorkflows
  <2>1. x \in Workflows
    BY <1>1, <1>4, PlacesOf DEF In
  <2> QED BY <1>4, <2>1, TablesAssumption
<1>5. CASE y \in Features
  <2>1. x \in Milestones \/ x \in SubWorkflows
    BY <1>1, <1>5, PlacesOf DEF In
  <2> QED BY <1>5, <2>1, TablesAssumption
<1> QED BY <1>1, <1>2, <1>3, <1>4, <1>5, TablesOfIds

LEMMA Withs ==
  ASSUME NEW S, S \subseteq DOMAIN rows
  PROVE  /\ S \subseteq With(S) /\ With(S) \subseteq DOMAIN rows
         /\ \A y \in With(S) \ S : \E z \in S : In(y, z)
         /\ \A y \in DOMAIN rows, z \in S : In(y, z) => y \in With(S)
BY DEF With, In

\* So three levels of cascading reach everything below a row.
LEMMA CascadeIsClosed ==
  ASSUME TypeOK, NEW x \in DOMAIN rows, NEW y \in DOMAIN rows, NEW z \in Cascade(x),
         In(y, z)
  PROVE  y \in Cascade(x)
<1> DEFINE A == {x}
           B == With(A)
           C == With(B)
           D == With(C)
<1>1. /\ A \subseteq B /\ B \subseteq DOMAIN rows
      /\ \A u \in B \ A : \E v \in A : In(u, v)
  BY Withs
<1> HIDE DEF B
<1>2. /\ B \subseteq C /\ C \subseteq DOMAIN rows
      /\ \A u \in C \ B : \E v \in B : In(u, v)
      /\ \A u \in DOMAIN rows, v \in A : In(u, v) => u \in B
  BY <1>1, Withs DEF B
<1> HIDE DEF C
<1>3. /\ C \subseteq D /\ D \subseteq DOMAIN rows
      /\ \A u \in D \ C : \E v \in C : In(u, v)
      /\ \A u \in DOMAIN rows, v \in C : In(u, v) => u \in D
      /\ \A u \in DOMAIN rows, v \in B : In(u, v) => u \in C
  BY <1>1, <1>2, Withs DEF C
<1> HIDE DEF A, D
<1>4. Cascade(x) = D
  BY DEF Cascade, A, B, C, D
<1>5. CASE z \in C
  BY <1>3, <1>4, <1>5
<1>6. CASE z \notin C
  <2>1. PICK v \in C : In(z, v)
    BY <1>3, <1>4, <1>6
  <2>2. v \in C \ B
    BY <1>3, <1>4, <1>6, <2>1
  <2>3. PICK u \in B : In(v, u)
    BY <1>2, <2>2
  <2>4. u \in B \ A
    BY <1>2, <2>2, <2>3
  <2>5. PICK t \in A : In(u, t)
    BY <1>1, <2>4
  <2>6. u \notin Projects
    BY <1>1, <2>4, <2>5, Levels
  <2>7. v \in SubWorkflows \cup Features
    BY <1>1, <1>2, <2>2, <2>3, <2>6, Levels
  <2>8. v \in SubWorkflows
    BY <1>2, <1>3, <1>4, <2>1, <2>7, Levels
  <2>9. z \in Features
    BY <1>2, <1>3, <1>4, <2>1, <2>8, Levels
  <2> QED BY <1>3, <1>4, <2>9, Levels
<1> QED BY <1>5, <1>6

LEMMA DeleteKeepsWhole ==
  ASSUME Inv, BoardIsWhole, NEW c \in Clients, NEW x \in Ids, Delete(c, x)
  PROVE  BoardIsWhole'
<1>1. /\ x \in DOMAIN rows
      /\ DOMAIN rows' = DOMAIN rows \ Cascade(x)
      /\ \A y \in DOMAIN rows' : rows'[y] = rows[y]
  BY DEF Delete
<1>2. RanksUnique(rows')
  BY <1>1 DEF BoardIsWhole, RanksUnique
<1>3. ASSUME NEW y \in DOMAIN rows', NEW k \in DOMAIN rows'[y].place
      PROVE  rows'[y].place[k] \in DOMAIN rows'
  <2>1. y \in DOMAIN rows /\ rows'[y] = rows[y] /\ y \notin Cascade(x)
    BY <1>1
  <2>2. rows[y].place[k] \in DOMAIN rows
    BY <2>1 DEF BoardIsWhole, ParentsExist
  <2>3. In(y, rows[y].place[k])
    BY <2>1 DEF In
  <2>4. rows[y].place[k] \notin Cascade(x)
    BY <1>1, <2>1, <2>3, CascadeIsClosed DEF Inv
  <2> QED BY <1>1, <2>1, <2>2, <2>4
<1>4. ParentsExist(rows')
  BY <1>3 DEF ParentsExist
<1> QED BY <1>2, <1>4 DEF BoardIsWhole

\* All other steps leave the rows alone.
LEMMA RowsSteps ==
  ASSUME [Next]_vars
  PROVE  \/ rows' = rows
         \/ \E c \in Clients : Store(c) \/ \E x \in Ids : Delete(c, x)
<1>1. CASE UNCHANGED vars
  BY <1>1 DEF vars
<1>2. CASE Next
  <2>1. PICK c \in Clients :
          \/ CreateProject(c) \/ CreateMilestone(c) \/ CreateWorkflow(c)
          \/ CreateSubWorkflow(c) \/ CreateFeature(c) \/ FindLast(c)
          \/ EditProject(c) \/ EditMilestone(c) \/ EditWorkflow(c)
          \/ EditSubWorkflow(c) \/ EditFeature(c)
          \/ Move(c) \/ MoveStep(c) \/ MoveTooFar(c)
          \/ Reorder(c) \/ Allocate(c)
          \/ Store(c) \/ StorePanics(c) \/ Abort(c)
          \/ DeleteProject(c) \/ DeleteMilestone(c) \/ DeleteWorkflow(c)
          \/ DeleteSubWorkflow(c) \/ DeleteFeature(c)
    BY <1>2 DEF Next, MoveStep
  <2>2. CASE \/ CreateProject(c) \/ CreateMilestone(c) \/ CreateWorkflow(c)
             \/ CreateSubWorkflow(c) \/ CreateFeature(c)
    BY <2>2 DEF CreateProject, CreateMilestone, CreateWorkflow,
       CreateSubWorkflow, CreateFeature, Create, Open
  <2>3. CASE \/ EditProject(c) \/ EditMilestone(c) \/ EditWorkflow(c)
             \/ EditSubWorkflow(c) \/ EditFeature(c)
    BY <2>3 DEF EditProject, EditMilestone, EditWorkflow, EditSubWorkflow,
       EditFeature, Edit, Open
  <2>4. CASE Move(c) \/ Reorder(c)
    BY <2>4 DEF Move, Reorder, Open
  <2>5. CASE FindLast(c) \/ MoveStep(c) \/ MoveTooFar(c) \/ Allocate(c)
    BY <2>5 DEF FindLast, MoveStep, MoveMilestone, MoveWorkflow, MoveSubWorkflow,
       MoveFeature, MoveTo, MoveTooFar, MovePastEnd, Allocate
  <2>6. CASE StorePanics(c) \/ Abort(c)
    BY <2>6 DEF StorePanics, Abort
  <2>7. CASE \/ DeleteProject(c) \/ DeleteMilestone(c) \/ DeleteWorkflow(c)
             \/ DeleteSubWorkflow(c) \/ DeleteFeature(c)
    BY <2>7, TablesOfIds DEF DeleteProject, DeleteMilestone, DeleteWorkflow,
       DeleteSubWorkflow, DeleteFeature
  <2> QED BY <2>1, <2>2, <2>3, <2>4, <2>5, <2>6, <2>7
<1> QED BY <1>1, <1>2

LEMMA StaysWhole == Inv /\ BoardIsWhole /\ [Next]_vars => BoardIsWhole'
<1> SUFFICES ASSUME Inv, BoardIsWhole, [Next]_vars PROVE BoardIsWhole'
  OBVIOUS
<1>1. CASE rows' = rows
  BY <1>1 DEF BoardIsWhole, RanksUnique, ParentsExist
<1>2. CASE \E c \in Clients : Store(c)
  BY <1>2, StoreKeepsWhole
<1>3. CASE \E c \in Clients, x \in Ids : Delete(c, x)
  BY <1>3, DeleteKeepsWhole
<1> QED BY <1>1, <1>2, <1>3, RowsSteps

\* Every card lies in a milestone and a subworkflow that exist, every list has
\* one row per rank: deletes take all that lies below with them, and a request
\* that comes too late is rolled back.
THEOREM BoardStaysWhole == Spec => []BoardIsWhole
<1>1. Init => Inv /\ BoardIsWhole
  BY InitInv, StartAssumption DEF Init, BoardIsWhole
<1> QED BY <1>1, StaysWhole, NextInv, PTL DEF Spec

-------------------------------------------------------------------------------
(* Reorders                                                                *)

LEMMA LessIsTransitive ==
  ASSUME NEW u \in Word, NEW v \in Word, NEW w \in Word, Less(u, v), Less(v, w)
  PROVE  Less(u, w)
<1>1. PICK i \in 1 .. Len(v) :
        /\ \A j \in 1 .. i-1 : j <= Len(u) /\ u[j] = v[j]
        /\ i <= Len(u) => u[i] < v[i]
  BY DEF Less
<1>2. PICK k \in 1 .. Len(w) :
        /\ \A j \in 1 .. k-1 : j <= Len(v) /\ v[j] = w[j]
        /\ k <= Len(v) => v[k] < w[k]
  BY DEF Less
<1>3. /\ Len(u) \in Nat /\ Len(v) \in Nat /\ Len(w) \in Nat
      /\ \A j \in 1 .. Len(u) : u[j] \in Nat
      /\ \A j \in 1 .. Len(v) : v[j] \in Nat
      /\ \A j \in 1 .. Len(w) : w[j] \in Nat
  <2>1. Letter \subseteq Nat
    BY TopAssumption DEF Letter
  <2>2. ASSUME NEW x \in Word
        PROVE  Len(x) \in Nat /\ \A j \in 1 .. Len(x) : x[j] \in Letter
    BY DEF Word
  <2> QED BY <2>1, <2>2
<1>4. CASE i < k
  <2>1. i \in 1 .. Len(w) /\ i \in 1 .. k-1
    BY <1>2, <1>3, <1>4
  <2>2. \A j \in 1 .. i-1 : j <= Len(u) /\ u[j] = w[j]
    BY <1>1, <1>2, <1>3, <1>4
  <2>3. i <= Len(u) => u[i] < w[i]
    BY <1>1, <1>2, <2>1
  <2> QED BY <2>1, <2>2, <2>3 DEF Less
<1>5. CASE i = k
  <2>1. \A j \in 1 .. k-1 : j <= Len(u) /\ u[j] = w[j]
    BY <1>1, <1>2, <1>3, <1>5
  <2>2. k <= Len(u) => u[k] < w[k]
    <3>1. k \in 1 .. Len(v) /\ v[k] < w[k]
      BY <1>1, <1>2, <1>3, <1>5
    <3>2. ASSUME k <= Len(u) PROVE u[k] < w[k]
      <4>1. u[k] < v[k] /\ k \in 1 .. Len(u)
        BY <1>1, <1>3, <1>5, <3>2
      <4> QED BY <1>3, <3>1, <4>1
    <3> QED BY <3>2
  <2> QED BY <2>1, <2>2 DEF Less
<1>6. CASE k < i
  <2>1. k \in 1 .. Len(v) /\ k \in 1 .. i-1
    BY <1>1, <1>2, <1>3, <1>6
  <2>2. \A j \in 1 .. k-1 : j <= Len(u) /\ u[j] = w[j]
    BY <1>1, <1>2, <1>3, <1>6
  <2>3. k <= Len(u) => u[k] < w[k]
    BY <1>1, <1>2, <1>3, <2>1
  <2> QED BY <2>2, <2>3 DEF Less
<1> QED BY <1>1, <1>2, <1>3, <1>4, <1>5, <1>6

\* The rows of a reorder are different features of one cell, and the ranks it has
\* given them, to the first ones, grow.
ChainFits(t) ==
  t.op = "reorder" =>
    \A j, k \in DOMAIN t.stores :
      LET v == t.stores[j]
          w == t.stores[k]
      IN  /\ v.id \in Features /\ v.row.place = w.row.place
          /\ j # k => v.id # w.id
          /\ j < k /\ w.row.rank # <<>> => Less(v.row.rank, w.row.rank)

ChainsFit == \A c \in Clients : ChainFits(tx[c])

\* An order in which every row of a finite cell has its turn has none twice.
LEMMA OrderIsInjective ==
  ASSUME NEW cell, IsFiniteSet(cell), NEW order \in [1 .. Cardinality(cell) -> cell],
         \A f \in cell : \E k \in DOMAIN order : order[k] = f
  PROVE  \A j, k \in DOMAIN order : order[j] = order[k] => j = k
<1> DEFINE n == Cardinality(cell)
<1>1. n \in Nat
  BY FS_CardinalityType
<1>2. IsFiniteSet(1 .. n) /\ Cardinality(1 .. n) = n
  BY <1>1, FS_Interval
<1>3. order \in Surjection(1 .. n, cell)
  BY DEF Surjection
<1>4. order \in Injection(1 .. n, cell)
  BY <1>2, <1>3, FS_SurjSameCardinalityImpliesInj
<1> QED BY <1>4 DEF Injection, IsInjective

LEMMA ReorderChains ==
  ASSUME Inv, ChainsFit, NEW c \in Clients, Reorder(c)
  PROVE  ChainsFit'
<1>1. PICK m \in Milestones, s \in SubWorkflows :
        LET cell == {f \in DOMAIN rows \cap Features : rows[f].place = <<m, s>>}
        IN  \E order \in [1 .. Cardinality(cell) -> cell], p \in LastOf(cell) :
              /\ \A f \in cell : \E k \in DOMAIN order : order[k] = f
              /\ Open(c, Request("reorder", "chain",
                   [k \in DOMAIN order |->
                      Write(order[k], <<m, s>>, <<>>, rows[order[k]].title)], p))
  BY DEF Reorder
<1> DEFINE cell == {f \in DOMAIN rows \cap Features : rows[f].place = <<m, s>>}
<1>2. PICK order \in [1 .. Cardinality(cell) -> cell], p \in LastOf(cell) :
        /\ \A f \in cell : \E k \in DOMAIN order : order[k] = f
        /\ Open(c, Request("reorder", "chain",
             [k \in DOMAIN order |->
                Write(order[k], <<m, s>>, <<>>, rows[order[k]].title)], p))
  BY <1>1
<1> DEFINE stores == [k \in DOMAIN order |->
                        Write(order[k], <<m, s>>, <<>>, rows[order[k]].title)]
           t == Request("reorder", "chain", stores, p)
<1>3. IsFiniteSet(cell)
  BY TablesAssumption, FS_Subset
<1>4. \A j, k \in DOMAIN order : order[j] = order[k] => j = k
  <2> HIDE DEF cell
  <2> QED BY <1>2, <1>3, OrderIsInjective
<1>5. \A k \in DOMAIN order : order[k] \in Features
  OBVIOUS
<1>6. ChainFits(t)
  <2>1. t.stores = stores
    BY DEF Request
  <2>2. \A k \in DOMAIN stores :
          /\ stores[k].id = order[k] /\ stores[k].row.place = <<m, s>>
          /\ stores[k].row.rank = <<>>
    BY DEF Write
  <2>3. DOMAIN stores = DOMAIN order
    OBVIOUS
  <2> HIDE DEF t, stores
  <2> QED BY <1>4, <1>5, <2>1, <2>2, <2>3 DEF ChainFits
<1>7. tx' = [tx EXCEPT ![c] = t]
  BY <1>2 DEF Open
<1> HIDE DEF t
<1> QED BY <1>6, <1>7 DEF ChainsFit, Inv, TypeOK

LEMMA AllocateChains ==
  ASSUME Inv, ChainsFit, NEW c \in Clients, Allocate(c)
  PROVE  ChainsFit'
<1> DEFINE prev(k) == IF k = 1 THEN tx[c].last ELSE tx[c].stores[k-1].row.rank
           old == tx[c].stores
<1>1. PICK k \in DOMAIN old :
        /\ \A j \in DOMAIN old : old[j].row.rank = <<>> <=> j >= k
        /\ tx' = [tx EXCEPT ![c] = Chained(@, k, Rank(prev(k), <<>>).rank)]
  BY DEF Allocate
<1>2. tx[c] \in Tx /\ TxHasRoom(tx[c]) /\ ChainFits(tx[c]) /\ old \in Seq(Upsert)
  BY DEF Inv, TypeOK, RanksHaveRoom, Tx, ChainsFit
<1> DEFINE rank == Rank(prev(k), <<>>).rank
           w == Write(old[k].id, old[k].row.place, rank, old[k].row.title)
           new == [old EXCEPT ![k] = w]
           t == Chained(tx[c], k, rank)
<1>3. \A j \in DOMAIN old :
        /\ j \in Nat /\ old[j].row.rank \in Word
        /\ old[j].row.rank = <<>> \/ HasRoom(old[j].row.rank)
  <2>1. ASSUME NEW j \in DOMAIN old PROVE old[j] \in Upsert /\ j \in Nat
    BY <1>2
  <2> QED BY <1>2, <2>1 DEF TxHasRoom, Upsert, AnyRow
<1>4. t.op = tx[c].op /\ t.stores = new
  BY <1>2 DEF Chained, Tx
<1>5. /\ DOMAIN new = DOMAIN old
      /\ new[k].id = old[k].id /\ new[k].row.place = old[k].row.place
      /\ new[k].row.rank = rank
      /\ \A j \in DOMAIN old : j # k => new[j] = old[j]
  BY DEF Write
<1>6. ASSUME tx[c].op = "reorder", NEW j \in DOMAIN old, j < k
      PROVE  Less(old[j].row.rank, rank)
  <2>1. k - 1 \in DOMAIN old /\ k # 1 /\ j <= k - 1
    BY <1>2, <1>6
  <2> DEFINE p == old[k-1].row.rank
  <2>2. prev(k) = p
    BY <2>1
  <2>3. old[j].row.rank # <<>> /\ p # <<>>
    BY <1>1, <1>3, <1>6, <2>1
  <2>4. Less(p, rank)
    BY <1>3, <2>1, <2>2, <2>3, AppendsAbove
  <2>5. rank \in Word
    BY <1>3, <2>1, <2>2, EmptyWord, NewRank
  <2>6. CASE j = k - 1
    BY <2>4, <2>6
  <2>7. CASE j # k - 1
    <3>1. j < k - 1
      BY <1>3, <2>1, <2>7
    <3>2. Less(old[j].row.rank, p)
      BY <1>2, <1>6, <2>1, <2>3, <3>1 DEF ChainFits
    <3> HIDE DEF rank
    <3> QED BY <1>3, <2>1, <2>4, <2>5, <3>2, LessIsTransitive
  <2> QED BY <2>6, <2>7
<1> HIDE DEF rank, prev
<1>7. ChainFits(t)
  <2> HIDE DEF t, new, w
  <2> SUFFICES ASSUME tx[c].op = "reorder", NEW i \in DOMAIN old, NEW j \in DOMAIN old
               PROVE  /\ new[i].id \in Features /\ new[i].row.place = new[j].row.place
                      /\ i # j => new[i].id # new[j].id
                      /\ i < j /\ new[j].row.rank # <<>> =>
                           Less(new[i].row.rank, new[j].row.rank)
    BY <1>4, <1>5 DEF ChainFits
  <2>1. /\ old[i].id \in Features /\ old[i].row.place = old[j].row.place
        /\ i # j => old[i].id # old[j].id
        /\ i < j /\ old[j].row.rank # <<>> => Less(old[i].row.rank, old[j].row.rank)
    BY <1>2 DEF ChainFits
  <2>2. new[i].id = old[i].id /\ new[i].row.place = old[i].row.place
    BY <1>5
  <2>3. new[j].id = old[j].id /\ new[j].row.place = old[j].row.place
    BY <1>5
  <2>4. ASSUME i < j, new[j].row.rank # <<>>
        PROVE  Less(new[i].row.rank, new[j].row.rank)
    <3>1. CASE j = k
      <4>1. i # k
        BY <1>3, <2>4, <3>1
      <4> QED BY <1>5, <1>6, <2>4, <3>1, <4>1
    <3>2. CASE j # k
      <4>1. new[j] = old[j] /\ ~(j >= k)
        BY <1>1, <1>5, <2>4, <3>2
      <4>2. i # k
        BY <1>3, <2>4, <4>1
      <4> QED BY <1>5, <2>1, <2>4, <4>1, <4>2
    <3> QED BY <3>1, <3>2
  <2> QED BY <2>1, <2>2, <2>3, <2>4
<1>8. tx' = [tx EXCEPT ![c] = t]
  BY <1>1 DEF rank
<1> HIDE DEF t
<1> QED BY <1>7, <1>8 DEF ChainsFit, Inv, TypeOK

\* All other steps open or close a request, or find the rank of one row.
LEMMA OtherChains ==
  ASSUME Inv, ChainsFit, NEW c \in Clients, NEW t,
         tx' = [tx EXCEPT ![c] = t], t.op # "reorder"
  PROVE  ChainsFit'
BY DEF ChainsFit, ChainFits, Inv, TypeOK

LEMMA OpenChains ==
  ASSUME Inv, ChainsFit, NEW c \in Clients,
         NEW op, op # "reorder", NEW stage, NEW stores, NEW last,
         Open(c, Request(op, stage, stores, last))
  PROVE  ChainsFit'
<1> DEFINE t == Request(op, stage, stores, last)
<1>1. t.op # "reorder"
  BY DEF Request
<1>2. tx' = [tx EXCEPT ![c] = t]
  BY DEF Open
<1> HIDE DEF t
<1> QED BY <1>1, <1>2, OtherChains

LEMMA RankedChains ==
  ASSUME Inv, ChainsFit, NEW c \in Clients, tx[c].op # "reorder",
         NEW place, NEW S, NEW rank, tx' = [tx EXCEPT ![c] = Ranked(@, place, S, rank)]
  PROVE  ChainsFit'
<1> DEFINE t == Ranked(tx[c], place, S, rank)
<1>1. tx[c] \in Tx
  BY DEF Inv, TypeOK
<1>2. t.op # "reorder"
  BY <1>1 DEF Ranked, Tx
<1>3. tx' = [tx EXCEPT ![c] = t]
  OBVIOUS
<1> HIDE DEF t
<1> QED BY <1>2, <1>3, OtherChains

LEMMA ClosedChains ==
  ASSUME Inv, ChainsFit, NEW c \in Clients, tx' = [tx EXCEPT ![c] = NoTx]
  PROVE  ChainsFit'
<1>1. NoTx.op # "reorder"
  BY DEF NoTx, Request
<1> QED BY <1>1, OtherChains

LEMMA CreateChains ==
  ASSUME Inv, ChainsFit, NEW c \in Clients, NEW x, NEW place, Create(c, x, place)
  PROVE  ChainsFit'
<1>1. PICK t \in Titles :
        Open(c, Request("create", IF x \in Projects THEN "store" ELSE "find",
                        <<Write(x, place, <<>>, t)>>, <<>>))
  BY DEF Create
<1> QED BY <1>1, OpenChains

LEMMA EditChains ==
  ASSUME Inv, ChainsFit, NEW c \in Clients, NEW x, Edit(c, x)
  PROVE  ChainsFit'
<1>1. PICK t \in Titles :
        Open(c, Request("edit", "store",
                        <<Write(x, rows[x].place, rows[x].rank, t)>>, <<>>))
  BY DEF Edit
<1> QED BY <1>1, OpenChains

LEMMA FindChains ==
  ASSUME Inv, ChainsFit, NEW c \in Clients, FindLast(c)
  PROVE  ChainsFit'
<1> DEFINE w == tx[c].stores[1]
           S == Siblings(w.id, w.row.place)
<1>1. PICK p \in LastOf(S) :
        tx' = [tx EXCEPT ![c] = Ranked(@, w.row.place, S, Rank(p, <<>>).rank)]
  BY DEF FindLast
<1>2. tx[c].op # "reorder"
  BY DEF FindLast
<1> QED BY <1>1, <1>2, RankedChains

LEMMA MoveChains ==
  ASSUME Inv, ChainsFit, NEW c \in Clients, NEW places, MoveTo(c, places)
  PROVE  ChainsFit'
<1>1. PICK place \in places :
        LET S == Siblings(tx[c].stores[1].id, place) \ {tx[c].stores[1].id}
        IN  \E L \in Cuts(S) : \E p \in LastOf(L), n \in FirstOf(S \ L) :
              tx' = [tx EXCEPT ![c] = Ranked(@, place, L, Rank(p, n).rank)]
  BY DEF MoveTo
<1> DEFINE S == Siblings(tx[c].stores[1].id, place) \ {tx[c].stores[1].id}
<1>2. PICK L \in Cuts(S) : \E p \in LastOf(L), n \in FirstOf(S \ L) :
        tx' = [tx EXCEPT ![c] = Ranked(@, place, L, Rank(p, n).rank)]
  BY <1>1
<1>3. PICK p \in LastOf(L), n \in FirstOf(S \ L) :
        tx' = [tx EXCEPT ![c] = Ranked(@, place, L, Rank(p, n).rank)]
  BY <1>2
<1>4. tx[c].op # "reorder"
  BY DEF MoveTo
<1> QED BY <1>3, <1>4, RankedChains

LEMMA NextChains == Inv /\ ChainsFit /\ [Next]_vars => ChainsFit'
<1> SUFFICES ASSUME Inv, ChainsFit, [Next]_vars PROVE ChainsFit'
  OBVIOUS
<1>1. CASE tx' = tx
  BY <1>1 DEF ChainsFit
<1>2. CASE Next
  <2>1. PICK c \in Clients :
          \/ CreateProject(c) \/ CreateMilestone(c) \/ CreateWorkflow(c)
          \/ CreateSubWorkflow(c) \/ CreateFeature(c) \/ FindLast(c)
          \/ EditProject(c) \/ EditMilestone(c) \/ EditWorkflow(c)
          \/ EditSubWorkflow(c) \/ EditFeature(c)
          \/ Move(c) \/ MoveMilestone(c) \/ MoveWorkflow(c)
          \/ MoveSubWorkflow(c) \/ MoveFeature(c) \/ MoveTooFar(c)
          \/ Reorder(c) \/ Allocate(c)
          \/ Store(c) \/ StorePanics(c) \/ Abort(c)
          \/ DeleteProject(c) \/ DeleteMilestone(c) \/ DeleteWorkflow(c)
          \/ DeleteSubWorkflow(c) \/ DeleteFeature(c)
    BY <1>2 DEF Next
  <2>2. CASE \/ CreateProject(c) \/ CreateMilestone(c) \/ CreateWorkflow(c)
             \/ CreateSubWorkflow(c) \/ CreateFeature(c)
    BY <2>2, CreateChains DEF CreateProject, CreateMilestone, CreateWorkflow,
       CreateSubWorkflow, CreateFeature
  <2>3. CASE \/ EditProject(c) \/ EditMilestone(c) \/ EditWorkflow(c)
             \/ EditSubWorkflow(c) \/ EditFeature(c)
    BY <2>3, EditChains DEF EditProject, EditMilestone, EditWorkflow, EditSubWorkflow,
       EditFeature
  <2>4. CASE FindLast(c)
    BY <2>4, FindChains
  <2>5. CASE Move(c)
    <3>1. PICK x \in DOMAIN rows \ Projects :
            Open(c, Request("move", "find", <<[id |-> x, row |-> rows[x]]>>, <<>>))
      BY <2>5 DEF Move
    <3> QED BY <3>1, OpenChains
  <2>6. CASE MoveMilestone(c) \/ MoveWorkflow(c) \/ MoveSubWorkflow(c) \/ MoveFeature(c)
    BY <2>6, MoveChains DEF MoveMilestone, MoveWorkflow, MoveSubWorkflow, MoveFeature
  <2>7. CASE Reorder(c)
    BY <2>7, ReorderChains
  <2>8. CASE Allocate(c)
    BY <2>8, AllocateChains
  <2>9. CASE MoveTooFar(c) \/ Store(c) \/ StorePanics(c) \/ Abort(c)
    <3>1. tx' = [tx EXCEPT ![c] = NoTx]
      BY <2>9, Zenon DEF MoveTooFar, MovePastEnd, Store, StorePanics, Abort
    <3> QED BY <3>1, ClosedChains
  <2>10. CASE \/ DeleteProject(c) \/ DeleteMilestone(c) \/ DeleteWorkflow(c)
              \/ DeleteSubWorkflow(c) \/ DeleteFeature(c)
    <3>1. tx' = tx
      BY <2>10 DEF DeleteProject, DeleteMilestone, DeleteWorkflow,
         DeleteSubWorkflow, DeleteFeature, Delete
    <3> QED BY <1>1, <3>1
  <2> QED BY <2>1, <2>2, <2>3, <2>4, <2>5, <2>6, <2>7, <2>8, <2>9, <2>10
<1> QED BY <1>1, <1>2 DEF vars

LEMMA StoresChain ==
  ASSUME Inv, ChainsFit, NEW c \in Clients, Store(c), tx[c].op = "reorder",
         NEW j \in DOMAIN tx[c].stores, NEW k \in DOMAIN tx[c].stores, j < k
  PROVE  LET f == tx[c].stores[j].id
             g == tx[c].stores[k].id
         IN  /\ rows'[f].place = rows'[g].place
             /\ Less(rows'[f].rank, rows'[g].rank)
<1> DEFINE w == tx[c].stores
           n == Len(w)
<1>1. /\ w \in Seq(Upsert) /\ TxHasRoom(tx[c]) /\ tx[c].stage = "store" /\ ChainFits(tx[c])
      /\ rows' = After(c, n)
  BY DEF Inv, TypeOK, RanksHaveRoom, Tx, ChainsFit, Store
<1>2. ASSUME NEW i \in DOMAIN w PROVE rows'[w[i].id] = w[i].row
  <2> DEFINE l == CHOOSE l \in 1 .. n : w[l].id = w[i].id
  <2>1. DOMAIN w = 1 .. n
    BY <1>1
  <2>2. l \in 1 .. n /\ w[l].id = w[i].id
    BY <2>1
  <2>3. rows'[w[i].id] = w[l].row
    BY <1>1, <2>1 DEF After
  <2> HIDE DEF l
  <2>4. l = i
    BY <1>1, <2>1, <2>2 DEF ChainFits
  <2> QED BY <2>3, <2>4
<1>3. w[k].row.rank # <<>>
  <2>1. w[k].id \notin Projects
    BY <1>1, TablesAssumption DEF ChainFits
  <2> QED BY <1>1, <2>1 DEF TxHasRoom
<1>4. w[j].row.place = w[k].row.place /\ Less(w[j].row.rank, w[k].row.rank)
  BY <1>1, <1>3 DEF ChainFits
<1> QED BY <1>2, <1>4

\* A committed reorder has its cards in one cell and in the order asked for, with
\* cells of any size, whatever was stored while it ranked them.
THEOREM ReordersAreExact == Spec => ReorderIsExact
<1>1. Init => Inv /\ ChainsFit
  BY InitInv DEF Init, ChainsFit, ChainFits, NoTx, Request
<1>2. Inv /\ ChainsFit /\ [Next]_vars =>
        [\A c \in Clients :
           tx[c].op = "reorder" /\ Store(c) =>
             \A j, k \in DOMAIN tx[c].stores : j < k =>
               LET f == tx[c].stores[j].id
                   g == tx[c].stores[k].id
               IN  /\ rows'[f].place = rows'[g].place
                   /\ Less(rows'[f].rank, rows'[g].rank)]_vars
  BY StoresChain
<1> QED BY <1>1, <1>2, NextInv, NextChains, PTL DEF Spec, ReorderIsExact

-------------------------------------------------------------------------------
(* The ends of a list                                                      *)

\* Two ranks of which neither is below the other are one: they part at their
\* first difference, or have none.
LEMMA LessIsTotal ==
  ASSUME NEW u \in Word, NEW v \in Word, ~Less(u, v), ~Less(v, u)
  PROVE  u = v
<1>1. Len(u) \in Nat /\ Len(v) \in Nat /\ DOMAIN u = 1 .. Len(u) /\ DOMAIN v = 1 .. Len(v)
  BY DEF Word
<1>2. \A j \in 1 .. Len(u) : u[j] \in Nat
  BY TopAssumption DEF Word, Letter
<1>3. \A j \in 1 .. Len(v) : v[j] \in Nat
  BY TopAssumption DEF Word, Letter
<1> DEFINE T == {k \in Nat : k > 0 /\ (k <= Len(u) /\ k <= Len(v) => u[k] # v[k])}
<1>4. Len(u) + 1 \in T
  BY <1>1
<1>5. PICK k \in T : \A j \in T : k <= j
  BY <1>4, Least
<1>6. ASSUME NEW j \in 1 .. k-1
      PROVE  j <= Len(u) /\ j <= Len(v) /\ u[j] = v[j]
  <2>1. j \in Nat /\ j > 0 /\ ~ (k <= j)
    BY <1>5
  <2>2. j \notin T
    BY <1>5, <2>1
  <2> QED BY <2>1, <2>2
<1>7. k \in Nat /\ k > 0 /\ (k <= Len(u) /\ k <= Len(v) => u[k] # v[k])
  BY <1>5
<1> HIDE DEF T
<1>8. CASE k <= Len(v)
  <2>1. k \in 1 .. Len(v)
    BY <1>1, <1>7, <1>8
  <2>2. k <= Len(u) /\ ~ (u[k] < v[k])
    BY <1>6, <2>1 DEF Less
  <2>3. k \in 1 .. Len(u)
    BY <1>1, <1>7, <2>2
  <2>4. ~ (v[k] < u[k])
    BY <1>6, <2>3, <1>8 DEF Less
  <2> QED BY <1>2, <1>3, <1>7, <1>8, <2>1, <2>2, <2>3, <2>4
<1>9. CASE k <= Len(u) /\ ~ (k <= Len(v))
  <2>1. k \in 1 .. Len(u)
    BY <1>1, <1>7, <1>9
  <2> QED BY <1>6, <1>9, <2>1 DEF Less
<1>10. CASE ~ (k <= Len(u)) /\ ~ (k <= Len(v))
  <2>1. Len(u) = k - 1 /\ Len(v) = k - 1
    <3>1. \A j \in 1 .. k-1 : j <= Len(u) /\ j <= Len(v)
      BY <1>6
    <3>2. k - 1 = 0 \/ k - 1 \in 1 .. k-1
      BY <1>7
    <3> QED BY <1>1, <1>7, <1>10, <3>1, <3>2
  <2>2. \A j \in 1 .. Len(u) : u[j] = v[j]
    BY <1>6, <2>1
  <2> QED BY <1>1, <2>1, <2>2 DEF Word
<1> QED BY <1>8, <1>9, <1>10

\* Behind the last of some rows there is a rank above all of theirs.
LEMMA LastIsAbove ==
  ASSUME Inv, NEW S, S \subseteq DOMAIN rows \ Projects, NEW p \in LastOf(S),
         NEW y \in S
  PROVE  Less(rows[y].rank, Rank(p, <<>>).rank)
<1>1. PICK z \in S : p = rows[z].rank /\ \A u \in S : ~Lower(z, u)
  BY DEF LastOf
<1>2. /\ p \in Word /\ HasRoom(p) /\ rows[y].rank \in Word
      /\ ~Less(p, rows[y].rank)
  BY <1>1 DEF Inv, TypeOK, RanksHaveRoom, Row, Lower
<1>3. Less(p, Rank(p, <<>>).rank) /\ Rank(p, <<>>).rank \in Word
  BY <1>2, AppendsAbove, NewRank, EmptyWord
<1>4. CASE Less(rows[y].rank, p)
  BY <1>2, <1>3, <1>4, LessIsTransitive
<1>5. CASE ~Less(rows[y].rank, p)
  BY <1>2, <1>3, <1>5, LessIsTotal
<1> QED BY <1>4, <1>5

\* Before the first of some rows there is a rank that none of theirs is below.
LEMMA FirstIsBelow ==
  ASSUME Inv, NEW S, S \subseteq DOMAIN rows \ Projects, NEW n \in FirstOf(S),
         NEW y \in S
  PROVE  ~Less(rows[y].rank, Rank(<<>>, n).rank)
<1>1. PICK z \in S : n = rows[z].rank /\ \A u \in S : ~Lower(u, z)
  BY DEF FirstOf
<1>2. /\ n \in Word /\ HasRoom(n) /\ rows[y].rank \in Word
      /\ ~Less(rows[y].rank, n)
  BY <1>1 DEF Inv, TypeOK, RanksHaveRoom, Row, Lower
<1>3. n # <<>>
  BY <1>2 DEF HasRoom
<1>4. Less(Rank(<<>>, n).rank, n) /\ Rank(<<>>, n).rank \in Word
  BY <1>2, <1>3, RankHasRoom, EmptyWord
<1> QED BY <1>2, <1>4, LessIsTransitive

\* A request that runs alone finds the rows it stores among as it left them: it
\* has a rank behind all of them if all are before its index, and before all of
\* them if none is.
Aimed(b, t) ==
  LET w == t.stores[1]
      S == {y \in DOMAIN b \ {w.id} : SameTable(w.id, y) /\ b[y].place = w.row.place}
  IN  /\ t.stage = "chain" => t.op = "reorder"
      /\ t.op \in {"create", "move"} /\ w.id \notin Projects =>
           /\ t.stage \in {"find", "store"} /\ t.op = "create" => w.id \notin DOMAIN b
           /\ t.stage = "store" =>
                /\ Len(t.stores) = 1
                /\ t.under \subseteq S
                /\ t.under = {} => \A y \in S : ~Less(b[y].rank, w.row.rank)
                /\ t.under = S  => \A y \in S : Less(b[y].rank, w.row.rank)
Aims == \A c \in Clients : Aimed(rows, tx[c])

\* A step that gives the only client another request and no other rows.
LEMMA AimsAgain ==
  ASSUME Inv, NEW d, Clients = {d}, NEW t, tx' = [tx EXCEPT ![d] = t], Aimed(rows', t)
  PROVE  Aims'
<1>1. tx'[d] = t
  BY DEF Inv, TypeOK
<1> QED BY <1>1 DEF Aims

LEMMA OpenAims ==
  ASSUME Inv, NEW d, Clients = {d}, NEW op, NEW stage, NEW stores, NEW last,
         Open(d, Request(op, stage, stores, last)),
         stage = "chain" => op = "reorder",
         op \in {"create", "move"} => stage # "store" \/ stores[1].id \in Projects,
         op = "create" => stores[1].id \notin DOMAIN rows
  PROVE  Aims'
<1> DEFINE t == Request(op, stage, stores, last)
<1>1. t.op = op /\ t.stage = stage /\ t.stores = stores
  BY DEF Request
<1>2. tx' = [tx EXCEPT ![d] = t] /\ rows' = rows
  BY DEF Open
<1> HIDE DEF t
<1>3. Aimed(rows', t)
  BY <1>1, <1>2 DEF Aimed
<1> QED BY <1>2, <1>3, AimsAgain

LEMMA CreateAims ==
  ASSUME Inv, NEW d, Clients = {d}, NEW x, NEW place, Create(d, x, place)
  PROVE  Aims'
<1> DEFINE stage == IF x \in Projects THEN "store" ELSE "find"
<1>1. PICK t \in Titles :
        Open(d, Request("create", stage, <<Write(x, place, <<>>, t)>>, <<>>))
  BY DEF Create
<1> DEFINE stores == <<Write(x, place, <<>>, t)>>
<1>2. stores[1].id = x /\ x \notin DOMAIN rows
  BY DEF Write, Create
<1>3. stage # "chain" /\ (stage # "store" \/ x \in Projects)
  OBVIOUS
<1> HIDE DEF stores, stage
<1>4. Open(d, Request("create", stage, stores, <<>>))
  BY <1>1 DEF stores
<1> QED BY <1>2, <1>3, <1>4, OpenAims

LEMMA EditAims ==
  ASSUME Inv, NEW d, Clients = {d}, NEW x, Edit(d, x)
  PROVE  Aims'
<1>1. PICK t \in Titles :
        Open(d, Request("edit", "store",
                        <<Write(x, rows[x].place, rows[x].rank, t)>>, <<>>))
  BY DEF Edit
<1> QED BY <1>1, OpenAims

LEMMA MoveAims ==
  ASSUME Inv, NEW d, Clients = {d}, Move(d)
  PROVE  Aims'
<1>1. PICK x \in DOMAIN rows \ Projects :
        Open(d, Request("move", "find", <<[id |-> x, row |-> rows[x]]>>, <<>>))
  BY DEF Move
<1> QED BY <1>1, OpenAims

LEMMA ReorderAims ==
  ASSUME Inv, NEW d, Clients = {d}, Reorder(d)
  PROVE  Aims'
<1>1. PICK m \in Milestones, s \in SubWorkflows :
        LET cell == {f \in DOMAIN rows \cap Features : rows[f].place = <<m, s>>}
        IN  \E order \in [1 .. Cardinality(cell) -> cell], p \in LastOf(cell) :
              Open(d, Request("reorder", "chain",
                   [k \in DOMAIN order |->
                      Write(order[k], <<m, s>>, <<>>, rows[order[k]].title)], p))
  BY DEF Reorder
<1> DEFINE cell == {f \in DOMAIN rows \cap Features : rows[f].place = <<m, s>>}
<1>2. PICK order \in [1 .. Cardinality(cell) -> cell], p \in LastOf(cell) :
        Open(d, Request("reorder", "chain",
             [k \in DOMAIN order |->
                Write(order[k], <<m, s>>, <<>>, rows[order[k]].title)], p))
  BY <1>1
<1> QED BY <1>2, OpenAims

\* The request has its rank, behind the rows of L.
LEMMA RankedAims ==
  ASSUME Inv, Aims, NEW d, Clients = {d}, tx[d].stage = "find",
         tx[d].op \in {"create", "move"},
         NEW place, NEW L, NEW rank,
         tx' = [tx EXCEPT ![d] = Ranked(@, place, L, rank)], rows' = rows,
         LET S == Siblings(tx[d].stores[1].id, place) \ {tx[d].stores[1].id}
         IN  /\ L \subseteq S
             /\ L = {} => \A y \in S : ~Less(rows[y].rank, rank)
             /\ L = S  => \A y \in S : Less(rows[y].rank, rank)
  PROVE  Aims'
<1> DEFINE w == tx[d].stores[1]
           v == Write(w.id, place, rank, w.row.title)
           t == [tx[d] EXCEPT !.stage = "store", !.under = L, !.stores = <<v>>]
           S == Siblings(w.id, place) \ {w.id}
<1>1. tx[d] \in Tx /\ w.id \notin Projects
  BY Finding
<1>2. /\ t.stage = "store" /\ t.under = L /\ t.stores = <<v>> /\ t.op = tx[d].op
      /\ Len(t.stores) = 1 /\ t.stores[1] = v
  BY <1>1 DEF Tx
<1>3. v.id = w.id /\ v.row.place = place /\ v.row.rank = rank
  BY DEF Write
<1>4. tx' = [tx EXCEPT ![d] = t]
  BY DEF Ranked, Inv, TypeOK
<1>5. S = {y \in DOMAIN rows \ {v.id} : SameTable(v.id, y) /\ rows[y].place = v.row.place}
  BY <1>3 DEF Siblings
<1>6. tx[d].op = "create" => w.id \notin DOMAIN rows
  BY <1>1 DEF Aims, Aimed
<1> HIDE DEF t, v, w
<1>7. Aimed(rows, t)
  BY <1>2, <1>3, <1>5, <1>6 DEF Aimed, w
<1> QED BY <1>4, <1>7, AimsAgain

\* A new row goes behind all rows of its list.
LEMMA FindAims ==
  ASSUME Inv, Aims, NEW d, Clients = {d}, FindLast(d)
  PROVE  Aims'
<1> DEFINE w == tx[d].stores[1]
           S == Siblings(w.id, w.row.place)
<1>1. tx[d].stage = "find" /\ tx[d].op = "create" /\ rows' = rows
  BY DEF FindLast
<1>2. PICK p \in LastOf(S) :
        tx' = [tx EXCEPT ![d] = Ranked(@, w.row.place, S, Rank(p, <<>>).rank)]
  BY DEF FindLast
<1>3. w.id \notin DOMAIN rows /\ w.id \in Ids \ Projects
  BY <1>1, Finding DEF Aims, Aimed
<1>4. S \ {w.id} = S /\ S \subseteq DOMAIN rows \ Projects
  BY <1>3, SiblingsType DEF Siblings, Inv
<1>5. \A y \in S : Less(rows[y].rank, Rank(p, <<>>).rank)
  BY <1>4, LastIsAbove
<1> DEFINE rank == Rank(p, <<>>).rank
           place == w.row.place
<1>6. S = {} => \A y \in S : ~Less(rows[y].rank, rank)
  OBVIOUS
<1>7. S = Siblings(w.id, place)
  OBVIOUS
<1> HIDE DEF rank, S, place
<1>8. tx' = [tx EXCEPT ![d] = Ranked(@, place, S, rank)]
  BY <1>2 DEF rank, place
<1>9. \A y \in S : Less(rows[y].rank, rank)
  BY <1>5 DEF rank
<1> QED BY <1>1, <1>4, <1>6, <1>7, <1>8, <1>9, RankedAims

\* A moved row goes before or behind all rows of a list if it goes to its end.
LEMMA MoveToAims ==
  ASSUME Inv, Aims, NEW d, Clients = {d}, NEW places, MoveTo(d, places)
  PROVE  Aims'
<1> DEFINE w == tx[d].stores[1]
<1>1. tx[d].stage = "find" /\ tx[d].op = "move" /\ rows' = rows
  BY DEF MoveTo
<1>2. PICK place \in places :
        LET S == Siblings(w.id, place) \ {w.id}
        IN  \E L \in Cuts(S) : \E p \in LastOf(L), n \in FirstOf(S \ L) :
              tx' = [tx EXCEPT ![d] = Ranked(@, place, L, Rank(p, n).rank)]
  BY DEF MoveTo
<1> DEFINE S == Siblings(w.id, place) \ {w.id}
<1>3. PICK L \in Cuts(S) : \E p \in LastOf(L), n \in FirstOf(S \ L) :
        tx' = [tx EXCEPT ![d] = Ranked(@, place, L, Rank(p, n).rank)]
  BY <1>2
<1>4. PICK p \in LastOf(L), n \in FirstOf(S \ L) :
        tx' = [tx EXCEPT ![d] = Ranked(@, place, L, Rank(p, n).rank)]
  BY <1>3
<1>5. S \subseteq DOMAIN rows \ Projects
  BY <1>1, Finding, SiblingsType DEF Inv
<1>6. L \subseteq S
  BY DEF Cuts
<1> DEFINE rank == Rank(p, n).rank
<1>7. ASSUME L = {}, NEW y \in S PROVE ~Less(rows[y].rank, rank)
  <2>1. p = <<>> /\ n \in FirstOf(S)
    BY <1>7 DEF LastOf
  <2> QED BY <1>5, <2>1, FirstIsBelow
<1>8. ASSUME L = S, NEW y \in S PROVE Less(rows[y].rank, rank)
  <2>1. n = <<>> /\ p \in LastOf(S)
    BY <1>8 DEF FirstOf
  <2> QED BY <1>5, <2>1, LastIsAbove
<1>9. S = Siblings(w.id, place) \ {w.id}
  OBVIOUS
<1> HIDE DEF rank, S
<1>10. tx' = [tx EXCEPT ![d] = Ranked(@, place, L, rank)]
  BY <1>4 DEF rank
<1> QED BY <1>1, <1>6, <1>7, <1>8, <1>9, <1>10, RankedAims

\* No request is left, or one that only reorders.
LEMMA OtherAims ==
  ASSUME Inv, Aims, NEW d, Clients = {d},
         \/ tx' = [tx EXCEPT ![d] = NoTx]
         \/ tx' = tx /\ tx[d].stage = "idle"
         \/ Allocate(d)
  PROVE  Aims'
<1>1. CASE tx' = [tx EXCEPT ![d] = NoTx]
  <2>1. Aimed(rows', NoTx)
    BY DEF Aimed, NoTx, Request
  <2> QED BY <1>1, <2>1, AimsAgain
<1>2. CASE tx' = tx /\ tx[d].stage = "idle"
  BY <1>2 DEF Aims, Aimed
<1>3. CASE Allocate(d)
  <2> DEFINE prev(k) == IF k = 1 THEN tx[d].last ELSE tx[d].stores[k-1].row.rank
  <2>1. PICK k \in DOMAIN tx[d].stores :
          tx' = [tx EXCEPT ![d] = Chained(@, k, Rank(prev(k), <<>>).rank)]
    BY <1>3 DEF Allocate
  <2> DEFINE t == Chained(tx[d], k, Rank(prev(k), <<>>).rank)
  <2>2. tx[d] \in Tx /\ tx[d].op = "reorder"
    BY <1>3 DEF Allocate, Aims, Aimed, Inv, TypeOK
  <2>3. t.op = "reorder"
    BY <2>2 DEF Chained, Tx
  <2>4. tx' = [tx EXCEPT ![d] = t]
    BY <2>1 DEF Inv, TypeOK
  <2> HIDE DEF t
  <2>5. Aimed(rows', t)
    BY <2>3 DEF Aimed
  <2> QED BY <2>4, <2>5, AimsAgain
<1> QED BY <1>1, <1>2, <1>3

LEMMA NextAims ==
  ASSUME Inv, Aims, NEW d, Clients = {d}, [Next]_vars
  PROVE  Aims'
<1>1. CASE UNCHANGED vars
  BY <1>1 DEF vars, Aims
<1>2. CASE Next
  <2>1. \/ CreateProject(d) \/ CreateMilestone(d) \/ CreateWorkflow(d)
        \/ CreateSubWorkflow(d) \/ CreateFeature(d) \/ FindLast(d)
        \/ EditProject(d) \/ EditMilestone(d) \/ EditWorkflow(d)
        \/ EditSubWorkflow(d) \/ EditFeature(d)
        \/ Move(d) \/ MoveStep(d) \/ MoveTooFar(d)
        \/ Reorder(d) \/ Allocate(d)
        \/ Store(d) \/ StorePanics(d) \/ Abort(d)
        \/ DeleteProject(d) \/ DeleteMilestone(d) \/ DeleteWorkflow(d)
        \/ DeleteSubWorkflow(d) \/ DeleteFeature(d)
    BY <1>2 DEF Next, MoveStep
  <2>2. CASE \/ CreateProject(d) \/ CreateMilestone(d) \/ CreateWorkflow(d)
             \/ CreateSubWorkflow(d) \/ CreateFeature(d)
    <3>1. PICK x, place : Create(d, x, place)
      BY <2>2 DEF CreateProject, CreateMilestone, CreateWorkflow,
         CreateSubWorkflow, CreateFeature
    <3> QED BY <3>1, CreateAims
  <2>3. CASE \/ EditProject(d) \/ EditMilestone(d) \/ EditWorkflow(d)
             \/ EditSubWorkflow(d) \/ EditFeature(d)
    <3>1. PICK x : Edit(d, x)
      BY <2>3 DEF EditProject, EditMilestone, EditWorkflow, EditSubWorkflow, EditFeature
    <3> QED BY <3>1, EditAims
  <2>4. CASE \/ DeleteProject(d) \/ DeleteMilestone(d) \/ DeleteWorkflow(d)
             \/ DeleteSubWorkflow(d) \/ DeleteFeature(d)
    <3>1. tx' = tx /\ tx[d].stage = "idle"
      BY <2>4 DEF DeleteProject, DeleteMilestone, DeleteWorkflow, DeleteSubWorkflow,
         DeleteFeature, Delete
    <3> QED BY <3>1, OtherAims
  <2>5. CASE FindLast(d)
    BY <2>5, FindAims
  <2>6. CASE Move(d)
    BY <2>6, MoveAims
  <2>7. CASE MoveStep(d)
    <3>1. PICK places : MoveTo(d, places)
      BY <2>7 DEF MoveStep, MoveMilestone, MoveWorkflow, MoveSubWorkflow, MoveFeature
    <3> QED BY <3>1, MoveToAims
  <2>8. CASE Reorder(d)
    BY <2>8, ReorderAims
  <2>9. CASE Allocate(d)
    BY <2>9, OtherAims
  <2>10. CASE Store(d) \/ StorePanics(d) \/ Abort(d) \/ MoveTooFar(d)
    <3>1. tx' = [tx EXCEPT ![d] = NoTx]
      BY <2>10 DEF Store, StorePanics, Abort, MoveTooFar, MovePastEnd
    <3> QED BY <3>1, OtherAims
  <2> QED BY <2>1, <2>2, <2>3, <2>4, <2>5, <2>6, <2>7, <2>8, <2>9, <2>10
<1> QED BY <1>1, <1>2

\* The row lands where it aimed.
LEMMA StoreLands ==
  ASSUME Inv, Aims, NEW c \in Clients, Store(c), tx[c].op \in {"create", "move"},
         tx[c].under \in {{}, Others(c)}, Moved(c).id \notin Projects
  PROVE  Landed(c)
<1> DEFINE w == tx[c].stores[1]
           S == {y \in DOMAIN rows \ {w.id} :
                   SameTable(w.id, y) /\ rows[y].place = w.row.place}
<1>1. /\ Len(tx[c].stores) = 1 /\ tx[c].under \subseteq S
      /\ tx[c].under = {} => \A y \in S : ~Less(rows[y].rank, w.row.rank)
      /\ tx[c].under = S  => \A y \in S : Less(rows[y].rank, w.row.rank)
  BY DEF Aims, Aimed, Store, Moved
<1>2. Others(c) = S
  BY DEF Others, Siblings
<1>3. rows' = After(c, 1)
  BY <1>1 DEF Store
<1>4. {tx[c].stores[j].id : j \in 1 .. 1} = {w.id}
  OBVIOUS
<1>5. /\ DOMAIN rows' = DOMAIN rows \cup {w.id}
      /\ \A y \in DOMAIN rows' \ {w.id} : rows'[y] = rows[y]
  BY <1>3, <1>4 DEF After
<1> DEFINE R == {y \in DOMAIN rows' \ {w.id} :
                   /\ SameTable(y, w.id) /\ rows'[y].place = w.row.place
                   /\ Less(rows'[y].rank, w.row.rank)}
<1>6. R = {y \in S : Less(rows[y].rank, w.row.rank)}
  BY <1>5 DEF SameTable
<1>7. Landed(c) <=> R = tx[c].under
  BY DEF Landed
<1> HIDE DEF R, S
<1>8. R = tx[c].under
  BY <1>1, <1>2, <1>6
<1> QED BY <1>7, <1>8

\* While requests run one after another, a created row is the last of its list
\* and a row moved to an end of a list reaches it, whatever ranks lexorank.Rank
\* has left there: two clients can take one rank and the rows of one between.
THEOREM AloneReachesEnds ==
  ASSUME NEW d, Clients = {d}
  PROVE  Spec => EndsAreReached
<1>1. Init => Inv /\ Aims
  BY InitInv DEF Init, Aims, Aimed, NoTx, Request
<1>2. Inv /\ Aims /\ [Next]_vars => Aims'
  BY NextAims
<1>3. Inv /\ Aims /\ [Next]_vars =>
        [\A c \in Clients :
           tx[c].op \in {"create", "move"} /\ Store(c) /\ tx[c].under \in {{}, Others(c)}
             => Moved(c).id \in Projects \/ Landed(c)]_vars
  BY StoreLands
<1> QED BY <1>1, <1>2, <1>3, NextInv, PTL DEF Spec, EndsAreReached

-------------------------------------------------------------------------------
(* What a call has written                                                 *)

\* A row that has room above and below it.
Roomy(y) == {r \in Row(y) : y \in Projects \/ HasRoom(r.rank)}

\* What a statement can write of a row: the row, or nothing where it deletes it.
Written(y) == {<<>>} \cup {<<r>> : r \in Roomy(y)}

Writes == {p \in UNION {[D -> Seq(AnyRow)] : D \in SUBSET Ids} :
             \A y \in DOMAIN p : p[y] \in Written(y)}

AnyWant == [op : {"create", "edit", "move", "delete"}, id : Ids \ Projects,
            place : Seq(Ids), title : Titles]

WantFits(w) == w.op \in {"create", "move"} => w.place \in Places(w.id)

Calls == [stage : {"none", "next", "find", "write", "failed"},
          tool : {"none", "create", "patch", "delete"},
          table : SUBSET (Ids \ Projects), left : Nat, wants : Seq(AnyWant),
          up : Seq(AnyRow), item : Writes, kept : Writes,
          results : Seq([id : Ids, ok : BOOLEAN, hit : BOOLEAN, row : Seq(AnyRow)])]

CallFits(b) ==
  /\ b.stage \in {"find", "write", "failed"} => b.wants # <<>>
  /\ \A k \in DOMAIN b.wants : WantFits(b.wants[k])
  /\ b.stage = "write" => b.up \in Written(b.wants[1].id)
  /\ b.stage # "none" => b.table \in Tables /\ b.tool # "none"

\* What every step keeps.
BulkInv ==
  /\ Inv
  /\ bulk \in [Clients -> Calls]
  /\ \A c \in Clients : CallFits(bulk[c])

LEMMA RowsAreAny == ASSUME NEW y \in Ids PROVE Row(y) \subseteq AnyRow
BY PlacesType, EmptyWord DEF Row, AnyRow

LEMMA NoWrites == <<>> \in Writes
<1>1. <<>> \in [{} -> Seq(AnyRow)]
  OBVIOUS
<1>2. {} \in SUBSET Ids
  OBVIOUS
<1> QED BY <1>1, <1>2 DEF Writes

LEMMA WritesType ==
  ASSUME NEW p \in Writes
  PROVE  /\ DOMAIN p \subseteq Ids
         /\ \A y \in DOMAIN p : p[y] \in Written(y) /\ p[y] \in Seq(AnyRow)
         /\ p = [y \in DOMAIN p |-> p[y]]
BY DEF Writes

LEMMA AreWrites ==
  ASSUME NEW p, p = [y \in DOMAIN p |-> p[y]], DOMAIN p \subseteq Ids,
         \A y \in DOMAIN p : p[y] \in Written(y)
  PROVE  p \in Writes
<1>1. ASSUME NEW y \in DOMAIN p PROVE p[y] \in Seq(AnyRow)
  <2>1. CASE p[y] = <<>>
    BY <2>1
  <2>2. CASE \E r \in Roomy(y) : p[y] = <<r>>
    BY <2>2, RowsAreAny DEF Roomy
  <2> QED BY <2>1, <2>2 DEF Written
<1>2. p \in [DOMAIN p -> Seq(AnyRow)]
  BY <1>1
<1> QED BY <1>2 DEF Writes

LEMMA OverFits ==
  ASSUME NEW p \in Writes, NEW q \in Writes
  PROVE  Over(p, q) \in Writes
<1> DEFINE o == Over(p, q)
<1>1. o = [y \in DOMAIN o |-> o[y]] /\ DOMAIN o = DOMAIN p \cup DOMAIN q
  BY DEF Over
<1>2. \A y \in DOMAIN o : o[y] \in Written(y)
  BY WritesType DEF Over
<1>3. DOMAIN o \subseteq Ids
  BY <1>1, WritesType
<1> HIDE DEF o
<1>4. o \in Writes
  BY <1>1, <1>2, <1>3, AreWrites
<1> QED BY <1>4 DEF o

LEMMA UnderFits ==
  ASSUME NEW p \in Writes, NEW b, RowsFit(b)
  PROVE  RowsFit(Under(p, b))
<1>1. DOMAIN Under(p, b) = (DOMAIN p \cup DOMAIN b) \ {z \in DOMAIN p : p[z] = <<>>}
  BY DEF Under
<1>2. ASSUME NEW y \in DOMAIN Under(p, b)
      PROVE  /\ y \in Ids /\ Under(p, b)[y] \in Row(y)
             /\ y \in Projects \/ HasRoom(Under(p, b)[y].rank)
  <2>1. CASE y \in DOMAIN p
    <3>1. PICK r \in Roomy(y) : p[y] = <<r>>
      BY <1>1, <2>1, WritesType DEF Written
    <3>2. Under(p, b)[y] = r
      BY <1>1, <2>1, <3>1 DEF Under
    <3> QED BY <2>1, <3>1, <3>2, WritesType DEF Roomy
  <2>2. CASE y \notin DOMAIN p
    BY <1>1, <2>2 DEF Under, RowsFit
  <2> QED BY <2>1, <2>2
<1> QED BY <1>2 DEF RowsFit

LEMMA RowsDoFit == Inv => RowsFit(rows)
BY DEF Inv, TypeOK, RanksHaveRoom, RowsFit

LEMMA CallType ==
  ASSUME BulkInv, NEW c \in Clients
  PROVE  /\ bulk[c] \in Calls /\ CallFits(bulk[c])
         /\ bulk[c].item \in Writes /\ bulk[c].kept \in Writes
         /\ Pending(c) \in Writes /\ RowsFit(View(c))
<1>1. bulk[c] \in Calls /\ CallFits(bulk[c])
  BY DEF BulkInv
<1>2. bulk[c].item \in Writes /\ bulk[c].kept \in Writes
  BY <1>1 DEF Calls
<1>3. Pending(c) \in Writes
  BY <1>2, OverFits DEF Pending
<1> QED BY <1>1, <1>2, <1>3, RowsDoFit, UnderFits DEF View, BulkInv

\* A step of one call.
LEMMA OneCall ==
  ASSUME BulkInv, NEW c \in Clients, NEW b \in Calls, CallFits(b),
         bulk' = [bulk EXCEPT ![c] = b], Inv'
  PROVE  BulkInv'
BY DEF BulkInv

LEMMA BoardStays ==
  ASSUME Inv, UNCHANGED <<rows, tx>>, begun' \in 0 .. MaxRequests
  PROVE  Inv'
<1>1. RowsFit(rows')
  BY RowsDoFit DEF RowsFit
<1> QED BY <1>1, RowsChange

LEMMA EmptyCallFits == NoCall \in Calls /\ CallFits(NoCall)
BY NoWrites DEF NoCall, Call, Calls, CallFits

-------------------------------------------------------------------------------
(* The items                                                               *)

LEMMA SamePlaces ==
  ASSUME NEW T \in Tables, NEW x \in T, NEW y \in T
  PROVE  Places(x) = Places(y)
BY TablesOfIds, PlacesOf DEF Tables

LEMMA NoProjects ==
  ASSUME NEW T \in Tables \ {Projects}
  PROVE  T \in SUBSET (Ids \ Projects)
BY TablesAssumption, TablesOfIds DEF Tables

LEMMA Begins ==
  ASSUME BulkInv, NEW c \in Clients, Begin(c)
  PROVE  BulkInv'
<1>1. PICK n \in 1 .. MaxItems, table \in Tables \ {Projects},
           tool \in {"create", "patch", "delete"} :
        /\ bulk' = [bulk EXCEPT ![c] = Call("next", tool, table, n)]
        /\ begun + n <= MaxRequests /\ begun' = begun + n
  BY DEF Begin
<1>2. Call("next", tool, table, n) \in Calls /\ CallFits(Call("next", tool, table, n))
  BY <1>1, NoWrites, NoProjects DEF Call, Calls, CallFits
<1>3. begun' \in 0 .. MaxRequests
  BY <1>1, AgentsAssumption, BoundAssumption DEF BulkInv, Inv, TypeOK
<1>4. Inv'
  BY <1>3, BoardStays DEF BulkInv, Begin
<1> QED BY <1>1, <1>2, <1>4, OneCall

LEMMA Unchanged ==
  ASSUME BulkInv, UNCHANGED <<rows, tx, begun>>
  PROVE  Inv'
BY BoardStays DEF BulkInv, Inv, TypeOK

LEMMA WantType ==
  ASSUME NEW op \in {"create", "edit", "move", "delete"}, NEW x \in Ids \ Projects,
         NEW place, NEW t \in Titles,
         place = <<>> \/ place \in Places(x),
         op \in {"create", "move"} => place \in Places(x)
  PROVE  Want(op, x, place, t) \in AnyWant /\ WantFits(Want(op, x, place, t))
<1>1. place \in Seq(Ids)
  <2>1. CASE place = <<>>
    BY <2>1
  <2> QED BY <2>1, PlacesType
<1> QED BY <1>1 DEF Want, AnyWant, WantFits

AreWants(wants) ==
  wants \in Seq(AnyWant) /\ wants # <<>> /\ \A k \in DOMAIN wants : WantFits(wants[k])

LEMMA OneWant ==
  ASSUME NEW w \in AnyWant, WantFits(w) PROVE AreWants(<<w>>)
BY DEF AreWants

LEMMA TwoWants ==
  ASSUME NEW v \in AnyWant, WantFits(v), NEW w \in AnyWant, WantFits(w)
  PROVE  AreWants(<<v, w>>)
<1>1. \A k \in DOMAIN <<v, w>> : k = 1 \/ k = 2
  OBVIOUS
<1> QED BY <1>1 DEF AreWants

LEMMA NextItems ==
  ASSUME BulkInv, NEW c \in Clients, NextItem(c)
  PROVE  BulkInv'
<1> DEFINE T == bulk[c].table
<1>1. /\ bulk[c] \in Calls /\ CallFits(bulk[c]) /\ RowsFit(View(c))
      /\ T \in Tables /\ T \subseteq Ids \ Projects
      /\ bulk[c].tool \in {"create", "patch", "delete"}
  BY CallType DEF NextItem, Calls, CallFits
<1>2. PICK wants \in NewRow(c) \cup Patches(c) \cup Deletion(c) :
        bulk' = [bulk EXCEPT ![c].stage = "find", ![c].left = @ - 1, ![c].wants = wants]
  BY <1>1 DEF NextItem, Calls
<1>3. AreWants(wants)
  <2>1. CASE wants \in NewRow(c)
    <3>1. PICK x \in T, y \in T, t \in Titles :
            \E place \in Places(y) : wants = <<Want("create", x, place, t)>>
      BY <2>1 DEF NewRow
    <3>2. PICK place \in Places(x) : wants = <<Want("create", x, place, t)>>
      BY <1>1, <3>1, SamePlaces
    <3> QED BY <1>1, <3>2, WantType, OneWant
  <2>2. CASE wants \in Patches(c)
    <3> DEFINE edit(x, t) == Want("edit", x, <<>>, t)
               move(x, place) == Want("move", x, place, View(c)[x].title)
    <3>1. PICK x \in DOMAIN View(c) \cap T :
            \/ \E t \in Titles : wants = <<edit(x, t)>>
            \/ \E place \in Places(x) : wants = <<move(x, place)>>
            \/ \E t \in Titles, place \in Places(x) : wants = <<edit(x, t), move(x, place)>>
      BY <2>2 DEF Patches
    <3>2. View(c)[x].title \in Titles /\ x \in Ids \ Projects
      BY <1>1, <3>1 DEF RowsFit, Row
    <3>3. \A t \in Titles : edit(x, t) \in AnyWant /\ WantFits(edit(x, t))
      BY <3>2, WantType
    <3>4. \A place \in Places(x) : move(x, place) \in AnyWant /\ WantFits(move(x, place))
      BY <3>2, WantType
    <3> HIDE DEF edit, move
    <3> QED BY <3>1, <3>3, <3>4, OneWant, TwoWants
  <2>3. CASE wants \in Deletion(c)
    <3>1. PICK x \in T : wants = <<Want("delete", x, <<>>, CHOOSE t \in Titles : TRUE)>>
      BY <2>3 DEF Deletion
    <3>2. (CHOOSE t \in Titles : TRUE) \in Titles
      BY AgentsAssumption
    <3> QED BY <1>1, <3>1, <3>2, WantType, OneWant
  <2> QED BY <1>2, <2>1, <2>2, <2>3
<1> DEFINE b == [bulk[c] EXCEPT !.stage = "find", !.left = @ - 1, !.wants = wants]
<1>4. b \in Calls
  <2>1. bulk[c].left - 1 \in Nat /\ wants \in Seq(AnyWant)
    BY <1>1, <1>3 DEF Calls, AreWants, NextItem
  <2> QED BY <1>1, <2>1 DEF Calls
<1>5. CallFits(b)
  BY <1>1, <1>3 DEF Calls, CallFits, AreWants
<1>6. bulk' = [bulk EXCEPT ![c] = b]
  BY <1>2 DEF BulkInv
<1> HIDE DEF b
<1> QED BY <1>4, <1>5, <1>6, OneCall, Unchanged DEF NextItem

-------------------------------------------------------------------------------
(* The statements of an item                                               *)

LEMMA WrittenType == ASSUME NEW y \in Ids, NEW u \in Written(y) PROVE u \in Seq(AnyRow)
<1>1. CASE u = <<>>
  BY <1>1
<1>2. CASE \E r \in Roomy(y) : u = <<r>>
  BY <1>2, RowsAreAny DEF Roomy
<1> QED BY <1>1, <1>2 DEF Written

LEMMA Doings ==
  ASSUME BulkInv, NEW c \in Clients, bulk[c].stage \in {"find", "write", "failed"}
  PROVE  /\ bulk[c].wants \in Seq(AnyWant) /\ 1 \in DOMAIN bulk[c].wants
         /\ Doing(c) = bulk[c].wants[1] /\ Doing(c) \in AnyWant /\ WantFits(Doing(c))
         /\ Doing(c).id \in Ids \ Projects /\ Doing(c).title \in Titles
<1>1. bulk[c].wants \in Seq(AnyWant) /\ bulk[c].wants # <<>>
  BY CallType DEF Calls, CallFits
<1>2. 1 \in DOMAIN bulk[c].wants
  BY <1>1
<1>3. bulk[c].wants[1] \in AnyWant /\ WantFits(bulk[c].wants[1])
  BY <1>1, <1>2, CallType DEF CallFits
<1> QED BY <1>1, <1>2, <1>3 DEF Doing, AnyWant

LEMMA PlansFit ==
  ASSUME BulkInv, NEW c \in Clients, bulk[c].stage = "find",
         NEW up \in Written(Doing(c).id), Plans(c, up)
  PROVE  BulkInv'
<1> DEFINE b == [bulk[c] EXCEPT !.stage = "write", !.up = up]
<1>1. /\ bulk[c] \in Calls /\ CallFits(bulk[c]) /\ up \in Seq(AnyRow)
      /\ Doing(c) = bulk[c].wants[1]
  BY CallType, Doings, WrittenType
<1>2. b \in Calls
  BY <1>1 DEF Calls
<1>3. CallFits(b)
  BY <1>1 DEF Calls, CallFits
<1>4. bulk' = [bulk EXCEPT ![c] = b]
  BY DEF BulkInv, Plans
<1> HIDE DEF b
<1> QED BY <1>2, <1>3, <1>4, OneCall, Unchanged DEF Plans

LEMMA SeenSiblings ==
  ASSUME NEW c, NEW x \in Ids \ Projects, NEW place
  PROVE  Seen(c)!Siblings(x, place) \subseteq DOMAIN View(c) \ Projects
<1>1. Seen(c)!Siblings(x, place) \subseteq
        {y \in DOMAIN View(c) : \E T \in Tables : x \in T /\ y \in T}
  BY DEF Seen!Siblings, Seen!SameTable, Seen!Tables, Tables
<1>2. \A T \in Tables : x \in T => T \cap Projects = {}
  BY TablesAssumption DEF Tables
<1> QED BY <1>1, <1>2

\* A rank found among the rows that a call sees has room.
LEMMA SeenRank ==
  ASSUME BulkInv, NEW c \in Clients, NEW S, S \subseteq DOMAIN View(c) \ Projects,
         NEW p \in Seen(c)!LastOf(S) \cup Seen(c)!FirstOf(S)
  PROVE  /\ p \in Word /\ (p = <<>> \/ HasRoom(p))
         /\ p # <<>> => \E y \in S : p = View(c)[y].rank
<1>1. p = <<>> \/ \E y \in S : p = View(c)[y].rank
  BY DEF Seen!LastOf, Seen!FirstOf
<1>2. RowsFit(View(c))
  BY CallType
<1>3. \A y \in S : View(c)[y].rank \in Word /\ HasRoom(View(c)[y].rank)
  BY <1>2 DEF RowsFit, Row
<1> QED BY <1>1, <1>3, EmptyWord

LEMMA RowWritten ==
  ASSUME NEW x \in Ids \ Projects, NEW place \in Places(x), NEW rank \in Word,
         HasRoom(rank), NEW title \in Titles
  PROVE  <<[place |-> place, rank |-> rank, title |-> title]>> \in Written(x)
BY DEF Written, Roomy, Row

LEMMA WantsCreated ==
  ASSUME BulkInv, NEW c \in Clients, CreateWant(c)
  PROVE  BulkInv'
<1> DEFINE w == Doing(c)
           S == Seen(c)!Siblings(w.id, w.place)
           row(p) == [place |-> w.place, rank |-> Rank(p, <<>>).rank, title |-> w.title]
<1>1. /\ bulk[c].stage = "find" /\ w.place \in Places(w.id)
      /\ w.id \in Ids \ Projects /\ w.title \in Titles
  BY Doings DEF CreateWant, Wants, WantFits
<1>2. PICK p \in Seen(c)!LastOf(S) : Plans(c, <<row(p)>>)
  BY DEF CreateWant
<1>3. p \in Word /\ (p = <<>> \/ HasRoom(p))
  BY <1>1, SeenSiblings, SeenRank
<1>4. Rank(p, <<>>).rank \in Word /\ HasRoom(Rank(p, <<>>).rank)
  BY <1>3, EmptyWord, NewRank
<1>5. <<row(p)>> \in Written(w.id)
  BY <1>1, <1>4, RowWritten
<1> HIDE DEF row
<1> QED BY <1>1, <1>2, <1>5, PlansFit

LEMMA WantsEdited ==
  ASSUME BulkInv, NEW c \in Clients, EditWant(c)
  PROVE  BulkInv'
<1> DEFINE w == Doing(c)
           row == [View(c)[w.id] EXCEPT !.title = w.title]
<1>1. /\ bulk[c].stage = "find" /\ w.id \in DOMAIN View(c)
      /\ w.title \in Titles /\ Plans(c, <<row>>)
  BY Doings DEF EditWant, Wants
<1>2. View(c)[w.id] \in Row(w.id) /\ (w.id \in Projects \/ HasRoom(View(c)[w.id].rank))
  BY <1>1, CallType DEF RowsFit
<1>3. <<row>> \in Written(w.id)
  BY <1>1, <1>2 DEF Written, Roomy, Row
<1> HIDE DEF row
<1> QED BY <1>1, <1>3, PlansFit

LEMMA WantsMoved ==
  ASSUME BulkInv, NEW c \in Clients, MoveWant(c)
  PROVE  BulkInv'
<1> DEFINE w == Doing(c)
           S == Seen(c)!Siblings(w.id, w.place) \ {w.id}
           row(p, n) == [View(c)[w.id] EXCEPT !.place = w.place, !.rank = Rank(p, n).rank]
<1>1. /\ bulk[c].stage = "find" /\ w.id \in DOMAIN View(c)
      /\ w.place \in Places(w.id) /\ w.id \in Ids \ Projects
  BY Doings DEF MoveWant, Wants, WantFits
<1>2. PICK L \in Seen(c)!Cuts(S) :
        \E p \in Seen(c)!LastOf(L), n \in Seen(c)!FirstOf(S \ L) : Plans(c, <<row(p, n)>>)
  BY DEF MoveWant
<1>3. PICK p \in Seen(c)!LastOf(L), n \in Seen(c)!FirstOf(S \ L) :
        Plans(c, <<row(p, n)>>)
  BY <1>2
<1>4. S \subseteq DOMAIN View(c) \ Projects
  BY <1>1, SeenSiblings
<1> HIDE DEF S
<1>5. L \subseteq S /\ \A y \in L, z \in S \ L : Less(View(c)[y].rank, View(c)[z].rank)
  <2>1. L \in SUBSET S /\ \A y \in L, z \in S \ L : Seen(c)!Lower(y, z)
    BY DEF Seen!Cuts
  <2> QED BY <2>1 DEF Seen!Lower, Seen!Less, Less
<1>6. /\ p \in Word /\ (p = <<>> \/ HasRoom(p))
      /\ p # <<>> => \E y \in L : p = View(c)[y].rank
  BY <1>4, <1>5, SeenRank
<1>7. /\ n \in Word /\ (n = <<>> \/ HasRoom(n))
      /\ n # <<>> => \E z \in S \ L : n = View(c)[z].rank
  <2>1. S \ L \subseteq DOMAIN View(c) \ Projects
    BY <1>4
  <2> QED BY <2>1, SeenRank
<1>8. p = <<>> \/ n = <<>> \/ Less(p, n)
  BY <1>5, <1>6, <1>7
<1>9. Rank(p, n).rank \in Word /\ HasRoom(Rank(p, n).rank)
  BY <1>6, <1>7, <1>8, NewRank
<1>10. View(c)[w.id] \in Row(w.id)
  BY <1>1, CallType DEF RowsFit
<1>11. <<row(p, n)>> \in Written(w.id)
  BY <1>1, <1>9, <1>10 DEF Written, Roomy, Row
<1> HIDE DEF row
<1> QED BY <1>1, <1>3, <1>11, PlansFit

LEMMA WantsDeleted ==
  ASSUME BulkInv, NEW c \in Clients, DeleteWant(c)
  PROVE  BulkInv'
<1>1. <<>> \in Written(Doing(c).id)
  BY DEF Written
<1> QED BY <1>1, PlansFit DEF DeleteWant, Wants

-------------------------------------------------------------------------------
(* The ends of an item and of a call                                       *)

LEMMA StatementFits ==
  ASSUME BulkInv, NEW c \in Clients, bulk[c].stage = "write"
  PROVE  Statement(c) \in Writes
<1> DEFINE p == Statement(c)
<1>1. Doing(c).id \in Ids /\ bulk[c].up \in Written(Doing(c).id)
  BY CallType, Doings DEF CallFits
<1>2. DOMAIN p \subseteq {Doing(c).id} /\ p = [y \in DOMAIN p |-> p[y]]
      /\ \A y \in DOMAIN p : p[y] = bulk[c].up
  BY DEF Statement
<1>3. DOMAIN p \subseteq Ids /\ \A y \in DOMAIN p : p[y] \in Written(y)
  BY <1>1, <1>2
<1> HIDE DEF p
<1>4. p \in Writes
  BY <1>2, <1>3, AreWrites
<1> QED BY <1>4 DEF p

Finished(c, ok, hit, row, kept) == [Done(bulk[c], ok, hit, row) EXCEPT !.kept = kept]

LEMMA ItemEnds ==
  ASSUME BulkInv, NEW c \in Clients, bulk[c].stage \in {"write", "failed"},
         NEW ok \in BOOLEAN, NEW hit \in BOOLEAN, NEW row \in Seq(AnyRow),
         NEW kept \in Writes
  PROVE  /\ Finished(c, ok, hit, row, kept) \in Calls
         /\ CallFits(Finished(c, ok, hit, row, kept))
<1> DEFINE b == bulk[c]
           r == [id |-> b.wants[1].id, ok |-> ok, hit |-> hit, row |-> row]
           f == [b EXCEPT !.stage = "next", !.wants = <<>>, !.up = <<>>,
                          !.item = <<>>, !.results = Append(@, r), !.kept = kept]
<1>1. b \in Calls /\ CallFits(b)
  BY CallType
<1>2. r \in [id : Ids, ok : BOOLEAN, hit : BOOLEAN, row : Seq(AnyRow)]
  BY Doings
<1> HIDE DEF r
<1>3. Append(b.results, r) \in Seq([id : Ids, ok : BOOLEAN, hit : BOOLEAN, row : Seq(AnyRow)])
  BY <1>1, <1>2 DEF Calls
<1>4. f \in Calls
  <2>1. <<>> \in Seq(AnyRow) /\ <<>> \in Seq(AnyWant)
    OBVIOUS
  <2> QED BY <1>1, <1>3, <2>1, NoWrites DEF Calls
<1>5. CallFits(f)
  BY <1>1, <1>3 DEF Calls, CallFits
<1>6. Finished(c, ok, hit, row, kept) = f
  BY DEF Finished, Done, r
<1> QED BY <1>4, <1>5, <1>6

LEMMA WantsWritten ==
  ASSUME BulkInv, NEW c \in Clients, WriteWant(c)
  PROVE  BulkInv'
<1> DEFINE b    == bulk[c]
           item == Over(Statement(c), b.item)
           more == [b EXCEPT !.stage = "find", !.wants = Tail(@), !.up = <<>>, !.item = item]
           hit  == Matches(c)
           done == Finished(c, TRUE, hit, b.up, Over(item, b.kept))
<1>1. b \in Calls /\ CallFits(b) /\ b.stage = "write" /\ b.wants \in Seq(AnyWant)
  BY CallType, Doings DEF WriteWant, Runs
<1>2. item \in Writes /\ Over(item, b.kept) \in Writes
  BY <1>1, CallType, StatementFits, OverFits
<1>0. hit \in BOOLEAN
  BY DEF Matches
<1> HIDE DEF item, hit
<1>3. bulk' = [bulk EXCEPT ![c] = IF Len(b.wants) > 1 THEN more ELSE done]
  BY <1>1 DEF WriteWant, Finished, Done, Calls, item, hit
<1>4. CASE Len(b.wants) > 1
  <2>1. Tail(b.wants) \in Seq(AnyWant) /\ Tail(b.wants) # <<>>
    <3> DEFINE w == b.wants
    <3>1. w \in Seq(AnyWant) /\ Len(w) > 1
      BY <1>1, <1>4
    <3> HIDE DEF w
    <3>2. Tail(w) \in Seq(AnyWant) /\ Len(Tail(w)) = Len(w) - 1
      BY <3>1
    <3> DEFINE u == Tail(w)
    <3> HIDE DEF u
    <3>3. u \in Seq(AnyWant) /\ Len(u) > 0
      BY <3>1, <3>2 DEF u
    <3>4. u # <<>>
      BY <3>3
    <3> QED BY <3>2, <3>4 DEF u, w
  <2>2. \A k \in DOMAIN Tail(b.wants) :
          k + 1 \in DOMAIN b.wants /\ Tail(b.wants)[k] = b.wants[k + 1]
    BY <1>1, <1>4
  <2>3. more \in Calls
    <3>1. <<>> \in Seq(AnyRow)
      OBVIOUS
    <3> QED BY <1>1, <1>2, <2>1, <3>1 DEF Calls
  <2>4. CallFits(more)
    BY <1>1, <2>1, <2>2 DEF Calls, CallFits
  <2> HIDE DEF more
  <2>5. bulk' = [bulk EXCEPT ![c] = more]
    BY <1>3, <1>4
  <2> QED BY <2>3, <2>4, <2>5, OneCall, Unchanged DEF WriteWant
<1>5. CASE ~(Len(b.wants) > 1)
  <2>1. b.up \in Seq(AnyRow)
    BY <1>1 DEF Calls
  <2>2. done \in Calls /\ CallFits(done)
    BY <1>0, <1>1, <1>2, <2>1, ItemEnds
  <2> HIDE DEF done
  <2>3. bulk' = [bulk EXCEPT ![c] = done]
    BY <1>3, <1>5
  <2> QED BY <2>2, <2>3, OneCall, Unchanged DEF WriteWant
<1> QED BY <1>4, <1>5

LEMMA WantsFail ==
  ASSUME BulkInv, NEW c \in Clients, WantRefused(c) \/ WritePanics(c)
  PROVE  BulkInv'
<1> DEFINE b == [bulk[c] EXCEPT !.stage = "failed"]
<1>1. /\ bulk[c] \in Calls /\ CallFits(bulk[c])
      /\ bulk[c].stage \in {"find", "write"} /\ Fails(c)
  BY CallType DEF WantRefused, WritePanics, Runs
<1>2. b \in Calls /\ CallFits(b)
  BY <1>1 DEF Calls, CallFits
<1>3. bulk' = [bulk EXCEPT ![c] = b]
  BY <1>1 DEF Fails, BulkInv
<1> HIDE DEF b
<1> QED BY <1>1, <1>2, <1>3, OneCall, Unchanged DEF Fails

LEMMA ItemsRollBack ==
  ASSUME BulkInv, NEW c \in Clients, RollBackItem(c)
  PROVE  BulkInv'
<1> DEFINE b == Finished(c, FALSE, FALSE, <<>>, bulk[c].kept)
<1>1. b \in Calls /\ CallFits(b)
  <2>1. <<>> \in Seq(AnyRow) /\ bulk[c].stage = "failed" /\ bulk[c].kept \in Writes
    BY CallType DEF RollBackItem
  <2> QED BY <2>1, ItemEnds
<1>2. b = Done(bulk[c], FALSE, FALSE, <<>>)
  BY CallType DEF Finished, Done, Calls
<1> HIDE DEF b
<1> QED BY <1>1, <1>2, OneCall, Unchanged DEF RollBackItem

LEMMA CallsEnd ==
  ASSUME BulkInv, NEW c \in Clients, Commit(c) \/ Cancel(c)
  PROVE  BulkInv'
<1>1. CASE Commit(c)
  <2>1. RowsFit(rows')
    BY <1>1, CallType DEF Commit
  <2>2. Inv'
    BY <1>1, <2>1, RowsChange DEF Commit, BulkInv, Inv, TypeOK
  <2> QED BY <1>1, <2>2, EmptyCallFits, OneCall DEF Commit
<1>2. CASE Cancel(c)
  BY <1>2, EmptyCallFits, OneCall, Unchanged DEF Cancel
<1> QED BY <1>1, <1>2

-------------------------------------------------------------------------------
(* The invariant                                                           *)

LEMMA BulkInitInv == BulkInit => BulkInv
BY InitInv, EmptyCallFits DEF BulkInit, BulkInv

LEMMA BulkNextInv == BulkInv /\ [BulkNext]_bulkVars => BulkInv'
<1> SUFFICES ASSUME BulkInv, [BulkNext]_bulkVars PROVE BulkInv'
  OBVIOUS
<1>1. CASE UNCHANGED bulkVars
  BY <1>1, Unchanged DEF bulkVars, BulkInv
<1>2. CASE Beside
  <2>1. Inv'
    BY <1>2, NextInv DEF Beside, BulkInv
  <2> QED BY <1>2, <2>1 DEF Beside, BulkInv
<1>3. ASSUME NEW c \in Clients,
             \/ Begin(c) \/ NextItem(c)
             \/ CreateWant(c) \/ EditWant(c) \/ MoveWant(c) \/ DeleteWant(c)
             \/ WantRefused(c) \/ WriteWant(c) \/ WritePanics(c) \/ RollBackItem(c)
             \/ Commit(c) \/ Cancel(c)
      PROVE  BulkInv'
  BY <1>3, Begins, NextItems, WantsCreated, WantsEdited, WantsMoved, WantsDeleted,
     WantsFail, WantsWritten, ItemsRollBack, CallsEnd
<1> QED BY <1>1, <1>2, <1>3 DEF BulkNext

\* No rank that a bulk call stores starts with the greatest letter or ends in
\* the least either, however its items and the requests beside it interleave.
THEOREM BulkKeepsRoom == BulkSpec => []RanksHaveRoom
<1>1. BulkSpec => []BulkInv
  BY BulkInitInv, BulkNextInv, PTL DEF BulkSpec
<1>2. BulkInv => RanksHaveRoom
  BY DEF BulkInv, Inv
<1> QED BY <1>1, <1>2, PTL

\* So there is always a rank for the next create, move or reorder, of a bulk call
\* or beside one.
THEOREM BulkLeavesRoom == BulkSpec => []RoomForEveryMove
<1>1. BulkSpec => []BulkInv
  BY BulkInitInv, BulkNextInv, PTL DEF BulkSpec
<1>2. BulkInv => RoomForEveryMove
  BY RoomForRanks DEF BulkInv
<1> QED BY <1>1, <1>2, PTL

-------------------------------------------------------------------------------
(* Reorders beside bulk calls                                              *)

LEMMA BulkChains == BulkInv /\ ChainsFit /\ [BulkNext]_bulkVars => ChainsFit'
<1> SUFFICES ASSUME BulkInv, ChainsFit, [BulkNext]_bulkVars PROVE ChainsFit'
  OBVIOUS
<1>1. CASE tx' = tx
  BY <1>1 DEF ChainsFit
<1>2. CASE Beside
  BY <1>2, NextChains DEF Beside, BulkInv
<1>3. ASSUME NEW c \in Clients,
             \/ Begin(c) \/ NextItem(c)
             \/ CreateWant(c) \/ EditWant(c) \/ MoveWant(c) \/ DeleteWant(c)
             \/ WantRefused(c) \/ WriteWant(c) \/ WritePanics(c) \/ RollBackItem(c)
             \/ Commit(c) \/ Cancel(c)
      PROVE  tx' = tx
  BY <1>3 DEF Begin, NextItem, CreateWant, EditWant, MoveWant, DeleteWant, Plans, Fails,
     WantRefused, WriteWant, WritePanics, RollBackItem, Commit, Cancel
<1> QED BY <1>1, <1>2, <1>3 DEF BulkNext, bulkVars

\* A reorder has its cards in one cell and in the order asked for also where bulk
\* calls commit between its statements.
THEOREM BulkReordersAreExact == BulkSpec => ReorderIsExact
<1>1. BulkInit => BulkInv /\ ChainsFit
  BY BulkInitInv DEF BulkInit, Init, ChainsFit, ChainFits, NoTx, Request
<1>2. BulkInv /\ ChainsFit =>
        [\A c \in Clients :
           tx[c].op = "reorder" /\ Store(c) =>
             \A j, k \in DOMAIN tx[c].stores : j < k =>
               LET f == tx[c].stores[j].id
                   g == tx[c].stores[k].id
               IN  /\ rows'[f].place = rows'[g].place
                   /\ Less(rows'[f].rank, rows'[g].rank)]_vars
  BY StoresChain DEF BulkInv
<1> QED BY <1>1, <1>2, BulkNextInv, BulkChains, PTL DEF BulkSpec, ReorderIsExact

-------------------------------------------------------------------------------
(* The keys, with one agent                                                *)

SameSpot(r, s) == r.place = s.place /\ r.rank = s.rank

\* Only features are deleted, an item edits before it moves, and an edit leaves
\* a row that the call has already written where it is.
ItemFits(b) ==
  /\ \A y \in DOMAIN b.kept : b.kept[y] = <<>> => y \in Features
  /\ \A y \in DOMAIN b.item :
       /\ b.item[y] # <<>>
       /\ y \in DOMAIN b.kept => b.kept[y] # <<>> /\ SameSpot(b.item[y][1], b.kept[y][1])
  /\ b.stage \in {"none", "next"} => b.item = <<>>
  /\ b.stage = "none" => b.kept = <<>>
  /\ b.tool = "delete" => b.table = Features
  /\ b.stage \in {"find", "write", "failed"} =>
       LET w == b.wants[1]
       IN  /\ w.op = "delete" => w.id \in Features
           /\ w.op = "edit" => b.item = <<>>
           /\ Len(b.wants) > 1 => w.op = "edit" /\ Len(b.wants) = 2 /\ b.wants[2].op = "move"
           /\ b.stage = "write" /\ w.op # "delete" => b.up # <<>>
           /\ b.stage = "write" /\ w.op = "edit" /\ w.id \in DOMAIN b.kept =>
                b.kept[w.id] # <<>> /\ SameSpot(b.up[1], b.kept[w.id][1])

\* The board is whole with what a call has written, and without its open item.
CallWhole(c) ==
  /\ ItemFits(bulk[c])
  /\ Fits(Under(bulk[c].kept, rows)) /\ Fits(View(c))

\* What every step keeps.
BulkWhole ==
  /\ BulkInv /\ BoardIsWhole
  /\ \A c \in Clients : CallWhole(c) /\ (c \notin Agents => bulk[c] = NoCall)

LEMMA OverNothing ==
  ASSUME NEW p \in Writes PROVE Over(<<>>, p) = p /\ Over(p, <<>>) = p
BY WritesType DEF Over

LEMMA UnderNothing == Under(<<>>, rows) = [y \in DOMAIN rows |-> rows[y]]
BY DEF Under

LEMMA FitsAlike ==
  ASSUME NEW b, Fits(b) PROVE Fits([y \in DOMAIN b |-> b[y]])
BY DEF Fits, RanksUnique, ParentsExist

LEMMA OverOver ==
  ASSUME NEW p, NEW q, NEW r
  PROVE  Over(Over(p, q), r) = Over(p, Over(q, r))
BY DEF Over

LEMMA UnderOver ==
  ASSUME NEW p, NEW q, NEW b
  PROVE  Under(Over(p, q), b) = Under(p, Under(q, b))
<1> DEFINE l == Under(Over(p, q), b)
           r == Under(p, Under(q, b))
<1>1. DOMAIN l = DOMAIN r
  BY DEF Under, Over
<1>2. \A y \in DOMAIN l : l[y] = r[y]
  BY DEF Under, Over
<1>3. l = [y \in DOMAIN l |-> l[y]] /\ r = [y \in DOMAIN r |-> r[y]]
  BY DEF Under
<1> HIDE DEF l, r
<1>4. l = r
  BY <1>1, <1>2, <1>3
<1> QED BY <1>4 DEF l, r

\* A step of the one call.
LEMMA WholeCall ==
  ASSUME BulkWhole, NEW c \in Clients, bulk[c].stage # "none" \/ c \in Agents,
         NEW b \in Calls, ItemFits(b),
         bulk' = [bulk EXCEPT ![c] = b], rows' = rows,
         Fits(Under(b.kept, rows)), Fits(Under(Over(b.item, b.kept), rows)), BulkInv'
  PROVE  BulkWhole'
<1>1. c \in Agents
  BY DEF BulkWhole, NoCall, Call
<1>2. \A d \in Clients : bulk'[d] = IF d = c THEN b ELSE bulk[d]
  BY DEF BulkWhole, BulkInv
<1>3. CallWhole(c)'
  BY <1>2 DEF CallWhole, View, Pending
<1>4. ASSUME NEW d \in Clients, d # c PROVE CallWhole(d)'
  BY <1>2, <1>4 DEF CallWhole, View, Pending, BulkWhole
<1>5. BoardIsWhole'
  BY DEF BulkWhole, BoardIsWhole
<1> QED BY <1>1, <1>2, <1>3, <1>4, <1>5 DEF BulkWhole

\* ... that leaves alone what the call has written.
LEMMA SameWrites ==
  ASSUME BulkWhole, NEW c \in Clients, bulk[c].stage # "none",
         NEW b \in Calls, ItemFits(b), b.kept = bulk[c].kept, b.item = bulk[c].item,
         bulk' = [bulk EXCEPT ![c] = b], rows' = rows, BulkInv'
  PROVE  BulkWhole'
BY WholeCall DEF BulkWhole, CallWhole, View, Pending

LEMMA WholeType ==
  ASSUME BulkWhole, NEW c \in Clients
  PROVE  /\ bulk[c] \in Calls /\ CallFits(bulk[c]) /\ ItemFits(bulk[c])
         /\ bulk[c].item \in Writes /\ bulk[c].kept \in Writes
         /\ RowsFit(View(c))
         /\ Fits(Under(bulk[c].kept, rows)) /\ Fits(View(c))
BY CallType DEF BulkWhole, CallWhole

LEMMA WholeBegins ==
  ASSUME BulkWhole, NEW c \in Clients, Begin(c), BulkInv'
  PROVE  BulkWhole'
<1>1. PICK n \in 1 .. MaxItems, table \in Tables \ {Projects},
           tool \in {"create", "patch", "delete"} :
        /\ bulk' = [bulk EXCEPT ![c] = Call("next", tool, table, n)]
        /\ tool = "delete" => table = Features
  BY DEF Begin
<1> DEFINE b == Call("next", tool, table, n)
<1>2. b \in Calls
  BY <1>1 DEF BulkInv, BulkWhole
<1>3. ItemFits(b) /\ b.kept = <<>> /\ b.item = <<>>
  BY <1>1 DEF ItemFits, Call
<1>4. Fits(Under(<<>>, rows))
  BY UnderNothing, FitsAlike DEF BulkWhole, BoardIsWhole, Fits
<1>5. Over(<<>>, <<>>) = <<>>
  BY NoWrites, OverNothing
<1> HIDE DEF b
<1> QED BY <1>1, <1>2, <1>3, <1>4, <1>5, WholeCall DEF Begin, b

LEMMA WholeItems ==
  ASSUME BulkWhole, NEW c \in Clients, NextItem(c), BulkInv'
  PROVE  BulkWhole'
<1>1. /\ bulk[c] \in Calls /\ CallFits(bulk[c]) /\ ItemFits(bulk[c])
      /\ bulk[c].stage = "next" /\ bulk[c].tool \in {"create", "patch", "delete"}
  BY WholeType DEF NextItem, Calls, CallFits
<1>2. PICK wants \in CASE bulk[c].tool = "create" -> NewRow(c)
                       [] bulk[c].tool = "patch"  -> Patches(c)
                       [] bulk[c].tool = "delete" -> Deletion(c) :
        bulk' = [bulk EXCEPT ![c].stage = "find", ![c].left = @ - 1, ![c].wants = wants]
  BY DEF NextItem
<1>3. /\ wants[1].op = "delete" => wants[1].id \in Features
      /\ Len(wants) > 1 => wants[1].op = "edit" /\ Len(wants) = 2 /\ wants[2].op = "move"
  <2>1. CASE wants \in NewRow(c)
    BY <2>1 DEF NewRow, Want
  <2>2. CASE wants \in Patches(c)
    <3>1. PICK x \in DOMAIN View(c) \cap bulk[c].table :
            \/ \E t \in Titles : wants = <<Want("edit", x, <<>>, t)>>
            \/ \E place \in Places(x) :
                  wants = <<Want("move", x, place, View(c)[x].title)>>
            \/ \E t \in Titles, place \in Places(x) :
                  wants = <<Want("edit", x, <<>>, t),
                            Want("move", x, place, View(c)[x].title)>>
      BY <2>2 DEF Patches
    <3> QED BY <3>1 DEF Want
  <2>3. CASE wants \in Deletion(c) /\ bulk[c].tool = "delete"
    BY <1>1, <2>3 DEF Deletion, Want, ItemFits
  <2> QED BY <1>1, <1>2, <2>1, <2>2, <2>3
<1> DEFINE b == [bulk[c] EXCEPT !.stage = "find", !.left = @ - 1, !.wants = wants]
<1>4. bulk' = [bulk EXCEPT ![c] = b]
  BY <1>2 DEF BulkInv, BulkWhole
<1>5. b \in Calls
  <2>1. bulk'[c] = b
    BY <1>4 DEF BulkInv, BulkWhole
  <2> QED BY <2>1 DEF BulkInv
<1>6. ItemFits(b)
  BY <1>1, <1>3 DEF ItemFits, Calls
<1>7. b.kept = bulk[c].kept /\ b.item = bulk[c].item
  BY <1>1 DEF Calls
<1> HIDE DEF b
<1> QED BY <1>1, <1>4, <1>5, <1>6, <1>7, SameWrites DEF NextItem

LEMMA WholePlans ==
  ASSUME BulkWhole, NEW c \in Clients, bulk[c].stage = "find", NEW up, Plans(c, up),
         Doing(c).op # "delete" => up # <<>>,
         Doing(c).op = "edit" /\ Doing(c).id \in DOMAIN bulk[c].kept =>
           /\ bulk[c].kept[Doing(c).id] # <<>>
           /\ SameSpot(up[1], bulk[c].kept[Doing(c).id][1]),
         BulkInv'
  PROVE  BulkWhole'
<1> DEFINE b == [bulk[c] EXCEPT !.stage = "write", !.up = up]
<1>1. bulk[c] \in Calls /\ ItemFits(bulk[c])
  BY WholeType
<1>2. bulk' = [bulk EXCEPT ![c] = b]
  BY DEF Plans, BulkInv, BulkWhole
<1>3. b \in Calls
  <2>1. bulk'[c] = b
    BY <1>2 DEF BulkInv, BulkWhole
  <2> QED BY <2>1 DEF BulkInv
<1>4. ItemFits(b)
  BY <1>1 DEF ItemFits, Calls, Doing
<1>5. b.kept = bulk[c].kept /\ b.item = bulk[c].item
  BY <1>1 DEF Calls
<1> HIDE DEF b
<1> QED BY <1>1, <1>2, <1>3, <1>4, <1>5, SameWrites DEF Plans

LEMMA WholeStatements ==
  ASSUME BulkWhole, NEW c \in Clients, BulkInv',
         CreateWant(c) \/ EditWant(c) \/ MoveWant(c) \/ DeleteWant(c)
  PROVE  BulkWhole'
<1>1. CASE CreateWant(c)
  <2>1. PICK up : Plans(c, up) /\ up # <<>>
    BY <1>1 DEF CreateWant
  <2> QED BY <1>1, <2>1, WholePlans DEF CreateWant, Wants
<1>2. CASE MoveWant(c)
  <2>1. PICK r : Plans(c, <<r>>)
    BY <1>2, Zenon DEF MoveWant
  <2>2. <<r>> # <<>>
    OBVIOUS
  <2> QED BY <1>2, <2>1, <2>2, WholePlans DEF MoveWant, Wants
<1>3. CASE DeleteWant(c)
  BY <1>3, WholePlans DEF DeleteWant, Wants
<1>4. CASE EditWant(c)
  <2> DEFINE x == Doing(c).id
             row == [View(c)[x] EXCEPT !.title = Doing(c).title]
  <2>1. /\ bulk[c].stage = "find" /\ Doing(c).op = "edit" /\ x \in DOMAIN View(c)
        /\ Plans(c, <<row>>)
    BY <1>4 DEF EditWant, Wants
  <2>2. View(c)[x] \in Row(x)
    BY <2>1, WholeType DEF RowsFit
  <2>3. SameSpot(row, View(c)[x])
    BY <2>2 DEF SameSpot, Row
  <2>4. ASSUME x \in DOMAIN bulk[c].kept
        PROVE  bulk[c].kept[x] # <<>> /\ View(c)[x] = bulk[c].kept[x][1]
    <3>1. bulk[c].item = <<>>
      BY <2>1, WholeType DEF ItemFits, Doing
    <3>2. Pending(c) = bulk[c].kept
      BY <3>1, WholeType, OverNothing DEF Pending
    <3> QED BY <2>1, <2>4, <3>2 DEF View, Under
  <2> HIDE DEF row
  <2>5. <<row>> # <<>> /\ <<row>>[1] = row
    OBVIOUS
  <2> QED BY <2>1, <2>3, <2>4, <2>5, WholePlans
<1> QED BY <1>1, <1>2, <1>3, <1>4

LEMMA WholeFails ==
  ASSUME BulkWhole, NEW c \in Clients, WantRefused(c) \/ WritePanics(c), BulkInv'
  PROVE  BulkWhole'
<1> DEFINE b == [bulk[c] EXCEPT !.stage = "failed"]
<1>1. /\ bulk[c] \in Calls /\ ItemFits(bulk[c]) /\ Fails(c)
      /\ bulk[c].stage \in {"find", "write"}
  BY WholeType DEF WantRefused, WritePanics, Runs
<1>2. bulk' = [bulk EXCEPT ![c] = b]
  BY <1>1 DEF Fails, BulkInv, BulkWhole
<1>3. b \in Calls
  <2>1. bulk'[c] = b
    BY <1>2 DEF BulkInv, BulkWhole
  <2> QED BY <2>1 DEF BulkInv
<1>4. ItemFits(b)
  BY <1>1 DEF ItemFits, Calls
<1>5. b.kept = bulk[c].kept /\ b.item = bulk[c].item
  BY <1>1 DEF Calls
<1> HIDE DEF b
<1> QED BY <1>1, <1>2, <1>3, <1>4, <1>5, SameWrites DEF Fails

\* Without its open item the board is whole: that is what a roll back leaves.
LEMMA WholeRollBacks ==
  ASSUME BulkWhole, NEW c \in Clients, RollBackItem(c), BulkInv'
  PROVE  BulkWhole'
<1> DEFINE b == Finished(c, FALSE, FALSE, <<>>, bulk[c].kept)
<1>1. bulk[c] \in Calls /\ ItemFits(bulk[c]) /\ Fits(Under(bulk[c].kept, rows))
  BY WholeType
<1>2. b \in Calls
  <2>1. <<>> \in Seq(AnyRow) /\ bulk[c].stage = "failed" /\ bulk[c].kept \in Writes
    BY WholeType DEF RollBackItem
  <2> QED BY <2>1, ItemEnds DEF BulkWhole
<1>3. b = Done(bulk[c], FALSE, FALSE, <<>>)
  BY <1>1 DEF Finished, Done, Calls
<1>4. b.stage = "next" /\ b.kept = bulk[c].kept /\ b.item = <<>> /\ b.tool = bulk[c].tool
      /\ b.table = bulk[c].table
  BY <1>1 DEF Finished, Done, Calls
<1>5. bulk' = [bulk EXCEPT ![c] = b]
  BY <1>3 DEF RollBackItem
<1> HIDE DEF b
<1>6. ItemFits(b)
  BY <1>1, <1>4 DEF ItemFits
<1>7. Over(b.item, b.kept) = b.kept
  BY <1>4, WholeType, OverNothing
<1> QED BY <1>1, <1>2, <1>4, <1>5, <1>6, <1>7, WholeCall DEF RollBackItem

LEMMA WholeWrites ==
  ASSUME BulkWhole, NEW c \in Clients, WriteWant(c), BulkInv'
  PROVE  BulkWhole'
<1> DEFINE b    == bulk[c]
           w    == Doing(c)
           st   == Statement(c)
           item == Over(st, b.item)
           kept == Over(item, b.kept)
           more == [b EXCEPT !.stage = "find", !.wants = Tail(@), !.up = <<>>, !.item = item]
           hit  == Matches(c)
           done == Finished(c, TRUE, hit, b.up, kept)
<1>1. /\ b \in Calls /\ ItemFits(b) /\ b.stage = "write"
      /\ b.item \in Writes /\ b.kept \in Writes
      /\ b.wants \in Seq(AnyWant) /\ 1 \in DOMAIN b.wants /\ w = b.wants[1]
  BY WholeType, Doings DEF WriteWant, Runs, BulkWhole
<1>2. st \in Writes /\ item \in Writes /\ kept \in Writes
  BY <1>1, StatementFits, OverFits DEF BulkWhole
<1>3. DOMAIN st \subseteq {w.id} /\ \A y \in DOMAIN st : st[y] = b.up
  BY DEF Statement
<1>4. Fits(Under(kept, rows))
  <2>1. Fits(Under(st, View(c)))
    <3>1. CASE Matches(c)
      BY <3>1 DEF WriteWant, Violates
    <3>2. CASE ~Matches(c)
      <4>1. DOMAIN st = {}
        BY <3>2 DEF Statement
      <4>2. Under(st, View(c)) = [y \in DOMAIN View(c) |-> View(c)[y]]
        BY <4>1 DEF Under
      <4>3. Fits(View(c))
        BY WholeType
      <4> QED BY <4>2, <4>3, FitsAlike
    <3> QED BY <3>1, <3>2
  <2>2. Under(st, View(c)) = Under(Over(st, Pending(c)), rows)
    BY UnderOver DEF View
  <2>3. Over(st, Pending(c)) = kept
    BY OverOver DEF Pending
  <2> QED BY <2>1, <2>2, <2>3
<1>5. bulk' = [bulk EXCEPT ![c] = IF Len(b.wants) > 1 THEN more ELSE done]
  BY <1>1 DEF WriteWant, Finished, Done, Calls
<1> HIDE DEF st, hit
<1>6. ASSUME Len(b.wants) > 1 PROVE BulkWhole'
  <2>1. /\ w.op = "edit" /\ b.item = <<>> /\ Len(b.wants) = 2 /\ b.wants[2].op = "move"
        /\ b.up # <<>>
        /\ w.id \in DOMAIN b.kept =>
             b.kept[w.id] # <<>> /\ SameSpot(b.up[1], b.kept[w.id][1])
    BY <1>1, <1>6 DEF ItemFits
  <2>2. item = st
    BY <1>2, <2>1, OverNothing
  <2>3. Tail(b.wants)[1] = b.wants[2] /\ ~(Len(Tail(b.wants)) > 1)
    <3>1. Tail(b.wants)[1] = b.wants[2] /\ Len(Tail(b.wants)) = 1
      BY <1>1, <2>1
    <3>2. ~(1 > 1)
      OBVIOUS
    <3> QED BY <3>1, <3>2, Zenon
  <2> HIDE DEF item
  <2>4. /\ more.kept = b.kept /\ more.item = item /\ more.stage = "find"
        /\ more.wants = Tail(b.wants) /\ more.tool = b.tool /\ more.table = b.table
    BY <1>1 DEF Calls
  <2> HIDE DEF more, w
  <2>5. ItemFits(more)
    <3>1. \A y \in DOMAIN item :
            item[y] # <<>>
              /\ (y \in DOMAIN b.kept =>
                    b.kept[y] # <<>> /\ SameSpot(item[y][1], b.kept[y][1]))
      BY <1>3, <2>1, <2>2
    <3>2. more.wants[1].op = "move" /\ ~(Len(more.wants) > 1)
      BY <2>1, <2>3, <2>4
    <3>3. \A y \in DOMAIN more.item :
            more.item[y] # <<>>
              /\ (y \in DOMAIN more.kept =>
                    more.kept[y] # <<>> /\ SameSpot(more.item[y][1], more.kept[y][1]))
      BY <2>4, <3>1
    <3>4. /\ \A y \in DOMAIN more.kept : more.kept[y] = <<>> => y \in Features
          /\ more.tool = "delete" => more.table = Features
      BY <1>1, <2>4 DEF ItemFits
    <3> QED BY <2>4, <3>2, <3>3, <3>4 DEF ItemFits
  <2>6. bulk' = [bulk EXCEPT ![c] = more]
    BY <1>5, <1>6
  <2>7. more \in Calls
    <3>1. bulk'[c] = more
      BY <2>6 DEF BulkInv, BulkWhole
    <3> QED BY <3>1 DEF BulkInv
  <2> QED BY <1>1, <1>4, <2>4, <2>5, <2>6, <2>7, WholeType, WholeCall DEF WriteWant
<1>7. ASSUME ~(Len(b.wants) > 1) PROVE BulkWhole'
  <2>1. \A y \in DOMAIN kept : kept[y] = <<>> => y \in Features
    BY <1>1, <1>3 DEF ItemFits, Over
  <2>2. done.stage = "next" /\ done.kept = kept /\ done.item = <<>>
        /\ done.tool = b.tool /\ done.table = b.table
    <3> HIDE DEF kept
    <3> QED BY <1>1 DEF Finished, Done, Calls
  <2> HIDE DEF kept, done
  <2>3. ItemFits(done)
    BY <1>1, <2>1, <2>2 DEF ItemFits
  <2>4. bulk' = [bulk EXCEPT ![c] = done]
    BY <1>5, <1>7
  <2>5. done \in Calls
    <3>1. bulk'[c] = done
      BY <2>4 DEF BulkInv, BulkWhole
    <3> QED BY <3>1 DEF BulkInv
  <2>6. Over(done.item, done.kept) = kept
    BY <1>2, <2>2, OverNothing
  <2> QED BY <1>1, <1>4, <2>2, <2>3, <2>4, <2>5, <2>6, WholeCall DEF WriteWant
<1> QED BY <1>6, <1>7

LEMMA WholeEnds ==
  ASSUME BulkWhole, NEW a, Agents = {a}, NEW c \in Clients, Commit(c) \/ Cancel(c), BulkInv'
  PROVE  BulkWhole'
<1>1. bulk[c].stage # "none" /\ bulk' = [bulk EXCEPT ![c] = NoCall]
  BY DEF Commit, Cancel
<1>2. \A d \in Clients : bulk'[d] = NoCall
  <2>1. NoCall.stage = "none"
    BY DEF NoCall, Call
  <2>2. c = a /\ \A d \in Clients : d # a => bulk[d] = NoCall
    BY <1>1, <2>1 DEF BulkWhole
  <2> QED BY <1>1, <2>2 DEF BulkWhole, BulkInv
<1>3. Fits(rows')
  <2>1. CASE Commit(c)
    BY <2>1, WholeType DEF Commit
  <2>2. CASE Cancel(c)
    BY <2>2 DEF Cancel, BulkWhole, BoardIsWhole, Fits
  <2> QED BY <2>1, <2>2
<1>4. Fits(Under(<<>>, rows'))
  BY <1>3, FitsAlike DEF Under
<1>5. Over(<<>>, <<>>) = <<>>
  BY NoWrites, OverNothing
<1>6. ASSUME NEW d \in Clients PROVE CallWhole(d)'
  BY <1>2, <1>4, <1>5 DEF CallWhole, ItemFits, NoCall, Call, View, Pending
<1> QED BY <1>2, <1>3, <1>6 DEF BulkWhole, BoardIsWhole, Fits

LEMMA ParentsAreNoFeatures ==
  ASSUME NEW y \in Ids, NEW place \in Places(y), NEW k \in DOMAIN place
  PROVE  place[k] \notin Features
<1>1. CASE y \in Projects
  BY <1>1, PlacesOf
<1>2. CASE y \in Milestones \cup Workflows
  BY <1>2, PlacesOf, TablesAssumption
<1>3. CASE y \in SubWorkflows
  BY <1>3, PlacesOf, TablesAssumption
<1>4. CASE y \in Features
  BY <1>4, PlacesOf, TablesAssumption
<1> QED BY <1>1, <1>2, <1>3, <1>4, TablesOfIds

\* What a request commits beside a call leaves the board whole without the open
\* item of the call as well: of the rows written in it none has changed, so any
\* two rows lie together in the new board, in the new view or in the old one.
LEMMA WithoutItem ==
  ASSUME BulkWhole, NEW c \in Clients, Fits(rows'), RowsFit(rows'),
         ~WaitsFor(c, rows')
  PROVE  Fits(Under(bulk[c].kept, rows')) /\ Fits(Under(Pending(c), rows'))
<1> DEFINE kept == bulk[c].kept
           item == bulk[c].item
           old  == Under(kept, rows)
           new  == Under(kept, rows')
           view == Under(Pending(c), rows')
<1>1. /\ ItemFits(bulk[c]) /\ kept \in Writes /\ Fits(old)
      /\ Fits(view) /\ \A y \in DOMAIN Pending(c) : y \notin Changed(rows')
  BY WholeType DEF WaitsFor
<1>2. /\ DOMAIN Pending(c) = DOMAIN kept \cup DOMAIN item
      /\ \A y \in DOMAIN item : Pending(c)[y] = item[y]
      /\ \A y \in DOMAIN kept \ DOMAIN item : Pending(c)[y] = kept[y]
  BY DEF Pending, Over
<1>3. \A y \in DOMAIN Pending(c) :
        (y \in DOMAIN rows <=> y \in DOMAIN rows') /\ (y \in DOMAIN rows => rows'[y] = rows[y])
  BY <1>1 DEF Changed
<1>4. /\ \A y \in DOMAIN kept : kept[y] = <<>> => y \in Features
      /\ \A y \in DOMAIN item :
           /\ item[y] # <<>>
           /\ y \in DOMAIN kept => kept[y] # <<>> /\ SameSpot(item[y][1], kept[y][1])
  BY <1>1 DEF ItemFits
<1> DEFINE InView(y) == y \in DOMAIN view /\ SameSpot(new[y], view[y])
           InOld(y)  == y \in DOMAIN old /\ new[y] = old[y]
           InRows(y) == y \in DOMAIN rows' /\ new[y] = rows'[y]
<1>5. ASSUME NEW y \in DOMAIN new
      PROVE  /\ y \in DOMAIN kept => InView(y) /\ InOld(y)
             /\ y \notin DOMAIN kept /\ y \notin DOMAIN item => InView(y) /\ InRows(y)
             /\ y \notin DOMAIN kept /\ y \in DOMAIN item => InOld(y) /\ InRows(y)
  <2>1. CASE y \in DOMAIN kept
    <3>1. kept[y] # <<>> /\ new[y] = kept[y][1]
      BY <2>1 DEF Under
    <3>2. InOld(y)
      BY <2>1, <3>1 DEF Under
    <3>3. Pending(c)[y] # <<>> /\ SameSpot(kept[y][1], Pending(c)[y][1])
      BY <1>2, <1>4, <2>1, <3>1 DEF SameSpot
    <3>4. y \in DOMAIN view /\ view[y] = Pending(c)[y][1]
      BY <1>2, <2>1, <3>3 DEF Under
    <3> QED BY <2>1, <3>1, <3>2, <3>3, <3>4
  <2>2. CASE y \notin DOMAIN kept
    <3>1. InRows(y)
      BY <2>2 DEF Under
    <3>2. y \notin DOMAIN item => InView(y)
      BY <1>2, <2>2, <3>1 DEF Under, SameSpot
    <3>3. y \in DOMAIN item => InOld(y)
      BY <1>2, <1>3, <2>2, <3>1 DEF Under
    <3> QED BY <2>2, <3>1, <3>2, <3>3
  <2> QED BY <2>1, <2>2
<1>6. RanksUnique(new)
  <2> SUFFICES ASSUME NEW y \in DOMAIN new \ Projects, NEW z \in DOMAIN new \ Projects,
                      y # z, SameTable(y, z), new[y].place = new[z].place
               PROVE  new[y].rank # new[z].rank
    BY DEF RanksUnique
  <2>1. \/ InView(y) /\ InView(z)
        \/ InOld(y) /\ InOld(z)
        \/ InRows(y) /\ InRows(z)
    <3> HIDE DEF InView, InOld, InRows
    <3> QED BY <1>5
  <2> HIDE DEF new, old, view
  <2> QED BY <1>1, <2>1 DEF Fits, RanksUnique, SameSpot
<1>7. ParentsExist(new)
  <2> SUFFICES ASSUME NEW y \in DOMAIN new, NEW k \in DOMAIN new[y].place
               PROVE  new[y].place[k] \in DOMAIN new
    BY DEF ParentsExist
  <2> DEFINE q == new[y].place[k]
  <2>1. q \notin Features
    <3>1. y \in Ids /\ new[y] \in Row(y)
      BY <1>1, UnderFits DEF RowsFit
    <3>2. new[y].place \in Places(y)
      BY <3>1 DEF Row
    <3> HIDE DEF new
    <3> QED BY <3>1, <3>2, ParentsAreNoFeatures
  <2>2. q \in DOMAIN kept => kept[q] # <<>>
    BY <1>4, <2>1
  <2>3. q \in DOMAIN kept \cup DOMAIN rows'
    <3>1. CASE y \in DOMAIN kept
      <4>1. InView(y) /\ InOld(y)
        BY <1>5, <3>1
      <4>2. q \in DOMAIN view /\ q \in DOMAIN old
        <5> HIDE DEF view, old, new
        <5> QED BY <1>1, <4>1 DEF Fits, ParentsExist, SameSpot
      <4>3. q \in DOMAIN kept \cup DOMAIN rows
        <5> HIDE DEF q
        <5> QED BY <4>2 DEF Under
      <4>4. q \in DOMAIN Pending(c) \cup DOMAIN rows'
        <5> HIDE DEF q
        <5> QED BY <4>2 DEF Under
      <4> HIDE DEF q
      <4> QED BY <1>3, <4>3, <4>4
    <3>2. CASE y \notin DOMAIN kept
      <4>1. InRows(y)
        BY <1>5, <3>2
      <4> HIDE DEF new
      <4> QED BY <4>1 DEF Fits, ParentsExist
    <3> QED BY <3>1, <3>2
  <2> HIDE DEF q
  <2>4. q \in DOMAIN new
    BY <2>2, <2>3 DEF Under
  <2> QED BY <2>4 DEF q
<1> QED BY <1>1, <1>6, <1>7 DEF Fits

LEMMA WholeBeside ==
  ASSUME BulkWhole, Beside, BulkInv'
  PROVE  BulkWhole'
<1>1. BoardIsWhole'
  BY StaysWhole DEF Beside, BulkWhole, BulkInv
<1>2. Fits(rows') /\ RowsFit(rows') /\ bulk' = bulk
  BY <1>1 DEF Beside, BoardIsWhole, Fits, BulkInv, Inv, TypeOK, RanksHaveRoom, RowsFit
<1>3. ASSUME NEW c \in Clients PROVE CallWhole(c)'
  <2>1. ItemFits(bulk[c])
    BY WholeType
  <2>2. Fits(Under(bulk[c].kept, rows')) /\ Fits(Under(Pending(c), rows'))
    <3>1. CASE bulk[c].stage = "none"
      <4>1. bulk[c].kept = <<>> /\ bulk[c].item = <<>>
        BY <2>1, <3>1 DEF ItemFits
      <4>2. Over(<<>>, <<>>) = <<>>
        BY NoWrites, OverNothing
      <4>3. Fits(Under(<<>>, rows'))
        BY <1>2, FitsAlike DEF Under
      <4> QED BY <4>1, <4>2, <4>3 DEF Pending
    <3>2. CASE bulk[c].stage # "none"
      BY <1>2, <3>2, WithoutItem DEF Beside
    <3> QED BY <3>1, <3>2
  <2> QED BY <1>2, <2>1, <2>2 DEF CallWhole, View, Pending
<1> QED BY <1>1, <1>2, <1>3 DEF BulkWhole

LEMMA BulkInitWhole == BulkInit => BulkWhole
<1> SUFFICES ASSUME BulkInit PROVE BulkWhole
  OBVIOUS
<1>1. BulkInv /\ Fits(rows)
  BY BulkInitInv, StartAssumption DEF BulkInit, Init, Fits
<1>2. Fits(Under(<<>>, rows))
  BY <1>1, UnderNothing, FitsAlike
<1>3. Over(<<>>, <<>>) = <<>>
  BY NoWrites, OverNothing
<1>4. ASSUME NEW c \in Clients PROVE CallWhole(c) /\ bulk[c] = NoCall
  BY <1>2, <1>3 DEF BulkInit, CallWhole, ItemFits, NoCall, Call, View, Pending
<1> QED BY <1>1, <1>4 DEF BulkWhole, BoardIsWhole, Fits

LEMMA BulkNextWhole ==
  ASSUME NEW a, Agents = {a}
  PROVE  BulkWhole /\ [BulkNext]_bulkVars => BulkWhole'
<1> SUFFICES ASSUME BulkWhole, [BulkNext]_bulkVars PROVE BulkWhole'
  OBVIOUS
<1>1. BulkInv'
  BY BulkNextInv DEF BulkWhole
<1>2. CASE UNCHANGED bulkVars
  BY <1>1, <1>2 DEF bulkVars, BulkWhole, BoardIsWhole, CallWhole, View, Pending
<1>3. CASE Beside
  BY <1>1, <1>3, WholeBeside
<1>4. ASSUME NEW c \in Clients,
             \/ Begin(c) \/ NextItem(c)
             \/ CreateWant(c) \/ EditWant(c) \/ MoveWant(c) \/ DeleteWant(c)
             \/ WantRefused(c) \/ WriteWant(c) \/ WritePanics(c) \/ RollBackItem(c)
             \/ Commit(c) \/ Cancel(c)
      PROVE  BulkWhole'
  BY <1>1, <1>4, WholeBegins, WholeItems, WholeStatements, WholeFails, WholeWrites,
     WholeRollBacks, WholeEnds
<1> QED BY <1>2, <1>3, <1>4 DEF BulkNext

\* What a bulk call commits lies in parents that exist, with one row per rank,
\* though each key was checked when its statement ran, requests have committed
\* since, and items between have been rolled back (with one agent).
THEOREM BulkKeepsWhole ==
  ASSUME NEW a, Agents = {a}
  PROVE  BulkSpec => []BoardIsWhole
<1>1. BulkSpec => []BulkWhole
  BY BulkInitWhole, BulkNextWhole, PTL DEF BulkSpec
<1>2. BulkWhole => BoardIsWhole
  BY DEF BulkWhole
<1> QED BY <1>1, <1>2, PTL

-------------------------------------------------------------------------------
(* What a call answers                                                     *)

Did(b, x) == {k \in DOMAIN b.results : b.results[k].hit /\ b.results[k].id = x}

LastDid(b, x, k) == k \in Did(b, x) /\ \A j \in Did(b, x) : j <= k

\* An item writes one row, a deletion is an item of one statement, and what the
\* call keeps of a row is the last result of an item that met it.
Honest(b) ==
  /\ b.stage \in {"none", "next"} => b.item = <<>>
  /\ b.stage \in {"find", "write", "failed"} => DOMAIN b.item \subseteq {b.wants[1].id}
  /\ \A k \in DOMAIN b.wants :
       /\ b.wants[k].id = b.wants[1].id
       /\ b.wants[k].op = "delete" => Len(b.wants) = 1 /\ b.item = <<>>
  /\ b.stage = "write" /\ b.up = <<>> => b.wants[1].op = "delete"
  /\ \A k \in DOMAIN b.results : b.results[k].hit => b.results[k].ok
  /\ \A x \in Ids :
       IF Did(b, x) = {} THEN x \notin DOMAIN b.kept
       ELSE x \in DOMAIN b.kept
              /\ \E k \in DOMAIN b.results : LastDid(b, x, k) /\ b.kept[x] = b.results[k].row

BulkHonest == BulkInv /\ \A c \in Clients : Honest(bulk[c])

LEMMA HonestAlike ==
  ASSUME NEW b, NEW d, Honest(b), d.kept = b.kept, d.results = b.results,
         d.item = b.item, d.stage # "none",
         d.stage = "next" => b.stage = "next",
         d.stage = "write" /\ d.up = <<>> => d.wants[1].op = "delete",
         d.wants = b.wants \/ (d.item = <<>> /\ \A k \in DOMAIN d.wants :
                                 /\ d.wants[k].id = d.wants[1].id
                                 /\ d.wants[k].op = "delete" => Len(d.wants) = 1),
         d.stage \in {"find", "write", "failed"} =>
           b.stage \in {"find", "write", "failed"} \/ b.item = <<>>
  PROVE  Honest(d)
<1>1. \A x : Did(d, x) = Did(b, x)
  BY DEF Did
<1>2. \A x, k : LastDid(d, x, k) <=> LastDid(b, x, k)
  BY <1>1 DEF LastDid
<1> QED BY <1>1, <1>2 DEF Honest

LEMMA HonestCall ==
  ASSUME BulkHonest, BulkInv', NEW c \in Clients, NEW b,
         bulk' = [bulk EXCEPT ![c] = b], Honest(b)
  PROVE  BulkHonest'
BY DEF BulkHonest, BulkInv

LEMMA NewCallIsHonest ==
  ASSUME NEW stage \in {"none", "next"}, NEW tool, NEW table, NEW n
  PROVE  Honest(Call(stage, tool, table, n))
BY DEF Honest, Call, Did

\* An item ends with the result r, and keeps what it wrote of its row.
LEMMA HonestEnds ==
  ASSUME NEW b \in Calls, Honest(b), b.stage \in {"write", "failed"}, NEW ok \in BOOLEAN,
         NEW hit \in BOOLEAN, hit => ok, NEW row, NEW kept, NEW d \in Calls,
         d.stage = "next", d.item = <<>>, d.wants = <<>>, d.kept = kept,
         d.results = Append(b.results, [id |-> b.wants[1].id, ok |-> ok, hit |-> hit,
                                        row |-> row]),
         IF hit THEN kept = Over([y \in {b.wants[1].id} |-> row], b.kept) ELSE kept = b.kept
  PROVE  Honest(d)
<1> DEFINE x == b.wants[1].id
           r == [id |-> x, ok |-> ok, hit |-> hit, row |-> row]
           n == Len(b.results) + 1
           res == b.results
<1>1. /\ res \in Seq([id : Ids, ok : BOOLEAN, hit : BOOLEAN, row : Seq(AnyRow)])
      /\ d.results = Append(res, r)
  BY DEF Calls
<1> HIDE DEF res
<1>2. /\ DOMAIN d.results = DOMAIN res \cup {n} /\ d.results[n] = r
      /\ \A k \in DOMAIN res : d.results[k] = res[k] /\ k <= n /\ k # n
      /\ n \in Nat
  BY <1>1 DEF res
<1> HIDE DEF n
<1>3. \A y : Did(d, y) = IF hit /\ y = x THEN Did(b, y) \cup {n} ELSE Did(b, y)
  BY <1>2 DEF Did, res
<1>4. ASSUME NEW y \in Ids
      PROVE  IF Did(d, y) = {} THEN y \notin DOMAIN d.kept
             ELSE y \in DOMAIN d.kept
               /\ \E k \in DOMAIN d.results : LastDid(d, y, k) /\ d.kept[y] = d.results[k].row
  <2>1. CASE hit /\ y = x
    <3>1. LastDid(d, y, n)
      BY <1>2, <1>3, <2>1 DEF LastDid, Did, res
    <3>2. y \in DOMAIN d.kept /\ d.kept[y] = row
      BY <2>1 DEF Over
    <3>3. n \in DOMAIN d.results /\ d.results[n].row = row
      BY <1>2
    <3>4. Did(d, y) # {}
      BY <3>1 DEF LastDid
    <3> HIDE DEF r, x
    <3> QED BY <3>1, <3>2, <3>3, <3>4
  <2>2. CASE ~(hit /\ y = x)
    <3>1. Did(d, y) = Did(b, y)
      BY <1>3, <2>2
    <3>2. (y \in DOMAIN d.kept <=> y \in DOMAIN b.kept)
            /\ (y \in DOMAIN b.kept => d.kept[y] = b.kept[y])
      BY <2>2 DEF Over
    <3>3. \A k : LastDid(d, y, k) <=> LastDid(b, y, k)
      BY <3>1 DEF LastDid
    <3> QED BY <1>2, <3>1, <3>2, <3>3 DEF Honest, res
  <2> QED BY <2>1, <2>2
<1>5. \A k \in DOMAIN d.results : d.results[k].hit => d.results[k].ok
  BY <1>2 DEF Honest, res
<1> QED BY <1>4, <1>5 DEF Honest

LEMMA OneItemsWants ==
  ASSUME BulkInv, NEW c \in Clients, bulk[c].tool \in {"create", "patch", "delete"},
         NEW wants \in CASE bulk[c].tool = "create" -> NewRow(c)
                        [] bulk[c].tool = "patch"  -> Patches(c)
                        [] bulk[c].tool = "delete" -> Deletion(c)
  PROVE  \A k \in DOMAIN wants : /\ wants[k].id = wants[1].id
                                 /\ wants[k].op = "delete" => Len(wants) = 1
<1>1. CASE wants \in NewRow(c)
  BY <1>1 DEF NewRow, Want
<1>2. CASE wants \in Patches(c)
  <2>1. PICK x \in DOMAIN View(c) \cap bulk[c].table :
          \/ \E t \in Titles : wants = <<Want("edit", x, <<>>, t)>>
          \/ \E place \in Places(x) :
                wants = <<Want("move", x, place, View(c)[x].title)>>
          \/ \E t \in Titles, place \in Places(x) :
                wants = <<Want("edit", x, <<>>, t),
                          Want("move", x, place, View(c)[x].title)>>
    BY <1>2 DEF Patches
  <2> QED BY <2>1 DEF Want
<1>3. CASE wants \in Deletion(c)
  BY <1>3 DEF Deletion, Want
<1> QED BY <1>1, <1>2, <1>3

LEMMA HonestPlans ==
  ASSUME BulkHonest, BulkInv', NEW c \in Clients,
         \/ /\ bulk[c].stage = "find"
            /\ \E up : Plans(c, up) /\ (up = <<>> => bulk[c].wants[1].op = "delete")
         \/ bulk[c].stage \in {"find", "write"} /\ Fails(c)
         \/ NextItem(c)
  PROVE  BulkHonest'
<1> DEFINE b == bulk[c]
           d == bulk'[c]
<1>1. b \in Calls /\ CallFits(b) /\ Honest(b) /\ d \in Calls
  BY CallType DEF BulkHonest, BulkInv
<1>2. CASE NextItem(c)
  <2>1. b.stage = "next" /\ b.tool \in {"create", "patch", "delete"}
    BY <1>1, <1>2 DEF NextItem, CallFits, Calls
  <2>2. PICK wants \in CASE bulk[c].tool = "create" -> NewRow(c)
                         [] bulk[c].tool = "patch"  -> Patches(c)
                         [] bulk[c].tool = "delete" -> Deletion(c) :
          bulk' = [bulk EXCEPT ![c].stage = "find", ![c].left = @ - 1, ![c].wants = wants]
    BY <1>2 DEF NextItem
  <2>3. d = [b EXCEPT !.stage = "find", !.left = @ - 1, !.wants = wants]
    BY <2>2 DEF BulkHonest, BulkInv
  <2>4. /\ d.kept = b.kept /\ d.results = b.results /\ d.item = b.item
        /\ d.stage = "find" /\ d.wants = wants
    BY <1>1, <2>3 DEF Calls
  <2>5. \A k \in DOMAIN wants : /\ wants[k].id = wants[1].id
                                /\ wants[k].op = "delete" => Len(wants) = 1
    BY <2>1, <2>2, OneItemsWants DEF BulkHonest
  <2>6. b.item = <<>>
    BY <1>1, <2>1 DEF Honest
  <2>7. Honest(d)
    <3> HIDE DEF b, d
    <3> QED BY <1>1, <2>4, <2>5, <2>6, HonestAlike
  <2>8. bulk' = [bulk EXCEPT ![c] = d]
    BY <2>2 DEF BulkHonest, BulkInv
  <2> QED BY <2>7, <2>8, HonestCall
<1>3. CASE /\ bulk[c].stage = "find"
           /\ \E up : Plans(c, up) /\ (up = <<>> => bulk[c].wants[1].op = "delete")
  <2>1. PICK up : /\ bulk' = [bulk EXCEPT ![c].stage = "write", ![c].up = up]
                  /\ up = <<>> => bulk[c].wants[1].op = "delete"
    BY <1>3 DEF Plans
  <2>2. d = [b EXCEPT !.stage = "write", !.up = up]
    BY <2>1 DEF BulkHonest, BulkInv
  <2>3. /\ d.kept = b.kept /\ d.results = b.results /\ d.item = b.item
        /\ d.stage = "write" /\ d.wants = b.wants /\ d.up = up
    BY <1>1, <2>2 DEF Calls
  <2>4. Honest(d)
    <3> HIDE DEF d
    <3> QED BY <1>1, <1>3, <2>1, <2>3, HonestAlike
  <2>5. bulk' = [bulk EXCEPT ![c] = d]
    BY <2>1 DEF BulkHonest, BulkInv
  <2> QED BY <2>4, <2>5, HonestCall
<1>4. CASE bulk[c].stage \in {"find", "write"} /\ Fails(c)
  <2>1. d = [b EXCEPT !.stage = "failed"] /\ bulk' = [bulk EXCEPT ![c] = d]
    BY <1>4 DEF BulkHonest, BulkInv, Fails
  <2>2. /\ d.kept = b.kept /\ d.results = b.results /\ d.item = b.item
        /\ d.stage = "failed" /\ d.wants = b.wants
    BY <1>1, <2>1 DEF Calls
  <2>3. Honest(d)
    <3> HIDE DEF d
    <3> QED BY <1>1, <1>4, <2>2, HonestAlike
  <2> QED BY <2>1, <2>3, HonestCall
<1> QED BY <1>2, <1>3, <1>4

LEMMA HonestWrites ==
  ASSUME BulkHonest, BulkInv', NEW c \in Clients, WriteWant(c)
  PROVE  BulkHonest'
<1> DEFINE b    == bulk[c]
           x    == b.wants[1].id
           st   == Statement(c)
           item == Over(st, b.item)
           hit  == Matches(c)
           more == [b EXCEPT !.stage = "find", !.wants = Tail(@), !.up = <<>>, !.item = item]
           done == Finished(c, TRUE, hit, b.up, Over(item, b.kept))
           d    == bulk'[c]
<1>1. /\ b \in Calls /\ CallFits(b) /\ Honest(b) /\ b.stage = "write" /\ d \in Calls
      /\ b.wants \in Seq(AnyWant) /\ 1 \in DOMAIN b.wants /\ Doing(c) = b.wants[1]
      /\ b.item \in Writes /\ b.kept \in Writes
  BY CallType, Doings DEF BulkHonest, BulkInv, WriteWant, Runs
<1>2. hit \in BOOLEAN /\ (~hit => b.up = <<>>)
  BY DEF Matches
<1>3. bulk' = [bulk EXCEPT ![c] = IF Len(b.wants) > 1 THEN more ELSE done]
  BY <1>1 DEF WriteWant, Finished, Done, Calls
<1>4. IF hit THEN item = [y \in {x} |-> b.up]
             ELSE item = <<>> /\ ~(Len(b.wants) > 1) /\ b.item = <<>>
  <2>1. DOMAIN b.item \subseteq {x}
    BY <1>1 DEF Honest
  <2>2. CASE hit
    <3>1. st = [y \in {x} |-> b.up]
      BY <1>1, <2>2 DEF Statement
    <3> QED BY <2>1, <2>2, <3>1 DEF Over
  <2>3. CASE ~hit
    <3>1. Len(b.wants) = 1 /\ b.item = <<>>
      BY <1>1, <1>2, <2>3 DEF Honest
    <3>2. DOMAIN st = {}
      BY <2>3 DEF Statement
    <3>3. DOMAIN item = {} /\ item = [y \in DOMAIN item |-> item[y]]
      BY <3>1, <3>2 DEF Over
    <3> QED BY <2>3, <3>1, <3>3
  <2> QED BY <2>2, <2>3
<1> HIDE DEF st, item, hit
<1>5. CASE Len(b.wants) > 1
  <2>0. \A k \in DOMAIN b.wants : b.wants[k].op # "delete"
    BY <1>1, <1>5 DEF Honest
  <2>1. d = more
    BY <1>3, <1>5 DEF BulkHonest, BulkInv
  <2>2. /\ d.kept = b.kept /\ d.results = b.results /\ d.item = item
        /\ d.stage = "find" /\ d.wants = Tail(b.wants)
    BY <1>1, <2>1 DEF Calls
  <2>3. \A k \in DOMAIN d.wants : k + 1 \in DOMAIN b.wants /\ d.wants[k] = b.wants[k + 1]
    BY <1>1, <1>5, <2>2
  <2>4. 1 \in DOMAIN d.wants
    BY <1>1, <1>5, <2>2
  <2>5. d.wants[1].id = x
          /\ \A k \in DOMAIN d.wants : d.wants[k].id = x /\ d.wants[k].op # "delete"
    BY <1>1, <2>0, <2>3, <2>4 DEF Honest
  <2>6. DOMAIN item = {x}
    BY <1>4, <1>5
  <2> HIDE DEF d, b, x
  <2>7. \A y : Did(d, y) = Did(b, y)
    BY <2>2 DEF Did
  <2>8. \A y, k : LastDid(d, y, k) <=> LastDid(b, y, k)
    BY <2>7 DEF LastDid
  <2>9. Honest(d)
    <3>1. \A y \in Ids :
            IF Did(d, y) = {} THEN y \notin DOMAIN d.kept
            ELSE y \in DOMAIN d.kept
                   /\ \E k \in DOMAIN d.results :
                        LastDid(d, y, k) /\ d.kept[y] = d.results[k].row
      BY <1>1, <2>2, <2>7, <2>8 DEF Honest
    <3>2. \A k \in DOMAIN d.results : d.results[k].hit => d.results[k].ok
      BY <1>1, <2>2 DEF Honest
    <3>3. /\ DOMAIN d.item \subseteq {d.wants[1].id} /\ d.stage = "find"
          /\ \A k \in DOMAIN d.wants :
               d.wants[k].id = d.wants[1].id /\ d.wants[k].op # "delete"
      BY <2>2, <2>5, <2>6
    <3> QED BY <3>1, <3>2, <3>3 DEF Honest
  <2>10. bulk' = [bulk EXCEPT ![c] = d]
    BY <1>3, <1>5, <2>1
  <2> QED BY <2>9, <2>10, HonestCall
<1>6. CASE ~(Len(b.wants) > 1)
  <2>1. d = done
    BY <1>3, <1>6 DEF BulkHonest, BulkInv
  <2>2. /\ d.stage = "next" /\ d.item = <<>> /\ d.wants = <<>> /\ d.kept = Over(item, b.kept)
        /\ d.results = Append(b.results, [id |-> x, ok |-> TRUE, hit |-> hit, row |-> b.up])
    BY <1>1, <2>1 DEF Finished, Done, Calls
  <2>3. IF hit THEN d.kept = Over([y \in {x} |-> b.up], b.kept) ELSE d.kept = b.kept
    BY <1>1, <1>2, <1>4, <2>2, OverNothing
  <2>4. Honest(d)
    <3>1. /\ b \in Calls /\ Honest(b) /\ b.stage \in {"write", "failed"}
          /\ d \in Calls /\ hit \in BOOLEAN
          /\ d.stage = "next" /\ d.item = <<>> /\ d.wants = <<>>
      BY <1>1, <1>2, <2>2
    <3>2. d.results = Append(b.results, [id |-> b.wants[1].id, ok |-> TRUE, hit |-> hit,
                                         row |-> b.up])
      BY <2>2
    <3>3. IF hit THEN d.kept = Over([y \in {b.wants[1].id} |-> b.up], b.kept)
                 ELSE d.kept = b.kept
      BY <2>3
    <3> HIDE DEF d, b, more, done
    <3>4. CASE hit
      <4>1. hit = TRUE
        BY <3>1, <3>4
      <4>2. d.results = Append(b.results, [id |-> b.wants[1].id, ok |-> TRUE, hit |-> TRUE,
                                           row |-> b.up])
        BY <3>2, <4>1
      <4> QED BY <3>1, <3>3, <3>4, <4>2, HonestEnds
    <3>5. CASE ~hit
      <4>1. hit = FALSE
        BY <3>1, <3>5
      <4>2. d.results = Append(b.results, [id |-> b.wants[1].id, ok |-> TRUE, hit |-> FALSE,
                                           row |-> b.up])
        BY <3>2, <4>1
      <4> QED BY <3>1, <3>3, <3>5, <4>2, HonestEnds
    <3> QED BY <3>4, <3>5
  <2>5. bulk' = [bulk EXCEPT ![c] = d]
    BY <1>3, <1>6, <2>1
  <2> QED BY <2>4, <2>5, HonestCall
<1> QED BY <1>5, <1>6

LEMMA HonestRollBacks ==
  ASSUME BulkHonest, BulkInv', NEW c \in Clients, RollBackItem(c)
  PROVE  BulkHonest'
<1> DEFINE b == bulk[c]
           d == bulk'[c]
<1>1. /\ b \in Calls /\ CallFits(b) /\ Honest(b) /\ b.stage = "failed" /\ d \in Calls
      /\ d = Done(b, FALSE, FALSE, <<>>) /\ bulk' = [bulk EXCEPT ![c] = d]
  BY CallType DEF BulkHonest, BulkInv, RollBackItem
<1>2. /\ d.stage = "next" /\ d.item = <<>> /\ d.wants = <<>> /\ d.kept = b.kept
      /\ d.results = Append(b.results, [id |-> b.wants[1].id, ok |-> FALSE, hit |-> FALSE,
                                        row |-> <<>>])
  BY <1>1 DEF Done, Calls
<1> HIDE DEF d
<1>3. Honest(d)
  BY <1>1, <1>2, HonestEnds
<1> QED BY <1>1, <1>3, HonestCall

LEMMA HonestNext == BulkHonest /\ [BulkNext]_bulkVars => BulkHonest'
<1> SUFFICES ASSUME BulkHonest, [BulkNext]_bulkVars PROVE BulkHonest'
  OBVIOUS
<1>1. BulkInv'
  BY BulkNextInv DEF BulkHonest
<1>2. CASE UNCHANGED bulk
  BY <1>1, <1>2 DEF BulkHonest
<1>3. ASSUME NEW c \in Clients, Begin(c) \/ Commit(c) \/ Cancel(c)
      PROVE  BulkHonest'
  BY <1>1, <1>3, NewCallIsHonest, HonestCall DEF Begin, Commit, Cancel, NoCall
<1>4. ASSUME NEW c \in Clients,
             NextItem(c) \/ CreateWant(c) \/ EditWant(c) \/ MoveWant(c) \/ DeleteWant(c)
      PROVE  BulkHonest'
  <2>1. CASE NextItem(c)
    BY <1>1, <2>1, HonestPlans
  <2>2. CASE CreateWant(c) \/ EditWant(c) \/ MoveWant(c) \/ DeleteWant(c)
    <3>1. bulk[c].stage = "find"
      BY <2>2 DEF CreateWant, EditWant, MoveWant, DeleteWant, Wants
    <3>2. \E up : Plans(c, up) /\ (up = <<>> => bulk[c].wants[1].op = "delete")
      <4>1. CASE CreateWant(c)
        <5>1. PICK row : Plans(c, <<row>>)
          BY <4>1, Zenon DEF CreateWant
        <5> QED BY <5>1
      <4>2. CASE EditWant(c)
        <5>1. PICK row : Plans(c, <<row>>)
          BY <4>2, Zenon DEF EditWant
        <5> QED BY <5>1
      <4>3. CASE MoveWant(c)
        <5>1. PICK row : Plans(c, <<row>>)
          BY <4>3, Zenon DEF MoveWant
        <5> QED BY <5>1
      <4>4. CASE DeleteWant(c)
        <5>1. Plans(c, <<>>) /\ bulk[c].wants[1].op = "delete"
          BY <4>4, Zenon DEF DeleteWant, Wants, Doing
        <5> QED BY <5>1
      <4> QED BY <2>2, <4>1, <4>2, <4>3, <4>4
    <3> QED BY <1>1, <3>1, <3>2, HonestPlans
  <2> QED BY <1>4, <2>1, <2>2
<1>5. ASSUME NEW c \in Clients, WantRefused(c) \/ WritePanics(c)
      PROVE  BulkHonest'
  BY <1>1, <1>5, HonestPlans DEF WantRefused, WritePanics, Runs
<1>6. ASSUME NEW c \in Clients, WriteWant(c) \/ RollBackItem(c)
      PROVE  BulkHonest'
  BY <1>1, <1>6, HonestWrites, HonestRollBacks
<1> QED BY <1>2, <1>3, <1>4, <1>5, <1>6 DEF BulkNext, Beside, bulkVars

\* What a call commits of a row is what its last item to meet it was answered
\* with, and a row that no item met (that all failed with, or found gone when they
\* came to delete it) stays as others have left it.
THEOREM BulkAnswersHonestly == BulkSpec => BulkIsHonest
<1>1. BulkInit => BulkHonest
  BY BulkInitInv, NewCallIsHonest DEF BulkInit, BulkHonest, NoCall
<1>2. ASSUME BulkHonest, [BulkNext]_bulkVars, NEW c \in Clients, Commit(c), NEW x \in Ids
      PROVE  LET Is == IF x \in DOMAIN rows' THEN <<rows'[x]>> ELSE <<>>
             IN  IF Did(bulk[c], x) = {} THEN x \notin Changed(rows')
                 ELSE \E k \in Did(bulk[c], x) :
                        bulk[c].results[k].ok /\ bulk[c].results[k].row = Is /\ \A j \in Did(bulk[c], x) : j <= k
  <2>1. /\ bulk[c].kept \in Writes /\ Honest(bulk[c]) /\ bulk[c].stage = "next"
        /\ rows' = View(c)
    BY <1>2, CallType DEF BulkHonest, Commit
  <2>2. Pending(c) = bulk[c].kept
    BY <2>1, OverNothing DEF Honest, Pending
  <2>3. CASE Did(bulk[c], x) = {}
    <3>1. x \notin DOMAIN Pending(c)
      BY <2>1, <2>2, <2>3 DEF Honest
    <3> QED BY <2>1, <2>3, <3>1 DEF View, Under, Changed
  <2>4. CASE Did(bulk[c], x) # {}
    <3>1. x \in DOMAIN Pending(c)
      BY <2>1, <2>2, <2>4 DEF Honest
    <3>2. PICK k \in DOMAIN bulk[c].results :
            LastDid(bulk[c], x, k) /\ Pending(c)[x] = bulk[c].results[k].row
      BY <2>1, <2>2, <2>4 DEF Honest
    <3>3. Pending(c)[x] = <<>> \/ \E r : Pending(c)[x] = <<r>>
      BY <2>1, <2>2, <3>1, WritesType DEF Written
    <3>4. Pending(c)[x] = IF x \in DOMAIN rows' THEN <<rows'[x]>> ELSE <<>>
      BY <2>1, <3>1, <3>3 DEF View, Under
    <3>5. bulk[c].results[k].ok
      BY <2>1, <3>2 DEF Honest, LastDid, Did
    <3> QED BY <2>4, <3>2, <3>4, <3>5 DEF LastDid
  <2> QED BY <2>3, <2>4
<1>3. BulkHonest /\ [BulkNext]_bulkVars =>
        [\A c \in Clients : Commit(c) =>
           LET r == bulk[c].results
               Good(x) == {k \in DOMAIN r : r[k].hit /\ r[k].id = x}
               Is(x) == IF x \in DOMAIN rows' THEN <<rows'[x]>> ELSE <<>>
           IN  \A x \in Ids :
                 IF Good(x) = {}
                 THEN x \notin Changed(rows')
                 ELSE \E k \in Good(x) :
                        r[k].ok /\ r[k].row = Is(x) /\ \A j \in Good(x) : j <= k
        ]_bulkVars
  BY <1>2 DEF Did
<1> QED BY <1>1, <1>3, HonestNext, PTL DEF BulkSpec, BulkIsHonest
===============================================================================
