------------------------------- MODULE MCBoard -------------------------------
(***************************************************************************)
(* Instances of Board for TLC.                                             *)
(***************************************************************************)
EXTENDS Board, TLC

CONSTANTS p1, m1, m2, w1, w2, s1, s2, f1, f2, f3, f4, t1, t2, c1, c2

At(place, rank) == [place |-> place, rank |-> rank, title |-> t1]

\* One project with one cell, each made as the first of its list.
OneCell ==
  p1 :> At(<<>>, <<>>) @@ m1 :> At(<<p1>>, <<12>>)
    @@ w1 :> At(<<p1>>, <<12>>) @@ s1 :> At(<<w1>>, <<12>>)

Cell == <<m1, s1>>

TwoCards   == OneCell @@ f1 :> At(Cell, <<12>>) @@ f2 :> At(Cell, <<18>>)
ThreeCards == TwoCards @@ f3 :> At(Cell, <<21>>)

\* What a reorder and three moves can leave (they begin the trace of
\* Board_index.cfg): Rank("xs", "ym") is "xp", which is below "xs".
CloseCards == OneCell @@ f1 :> At(Cell, <<23, 18>>) @@ f3 :> At(Cell, <<24>>)
                @@ f2 :> At(Cell, <<24, 12>>)

TwoCells == CloseCards @@ m2 :> At(<<p1>>, <<18>>)

Cells == Milestones \X SubWorkflows

\* The cards of a cell in the order of their ranks.
Listing(cell) ==
  LET S == {f \in DOMAIN rows \cap Features : rows[f].place = cell}
  IN  [k \in 1 .. Cardinality(S) |->
         CHOOSE f \in S : Cardinality({g \in S : Lower(g, f)}) = k - 1]

\* The request of the one client, once it is known what it asks of the lists.
AskedOf(t) ==
  LET w == t.stores[1]
      cell == w.row.place
  IN  CASE t.op = "create" /\ w.id \in Features ->
             [op |-> "add", card |-> w.id, cell |-> cell]
        [] t.op = "move" /\ t.stage = "store" /\ w.id \in Features ->
             [op |-> "move", card |-> w.id, cell |-> cell,
              index |-> Cardinality(t.under) + 1]
        [] t.op = "reorder" ->
             [op |-> "sort", cell |-> cell,
              order |-> [k \in DOMAIN t.stores |-> t.stores[k].id]]
        [] OTHER -> [op |-> "nothing"]

Lists == INSTANCE OrderedLists
           WITH Cards <- Features,
                list  <- [cell \in Cells |-> Listing(cell)],
                asked <- AskedOf(tx[c1])

\* One request at a time, the cells are lists: a created card is the last of its
\* list, a reorder leaves exactly the order asked for, a moved card lies at its
\* index (or before it, where neighbours leave no rank between them, but never
\* behind a card it was moved in front of, and exactly at either end), and all
\* other cards keep their order and their cells.
ImplementsLists == Lists!Spec

==============================================================================
