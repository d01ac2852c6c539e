---------------------------- MODULE OrderedLists ----------------------------
(***************************************************************************)
(* What the board promises of its cards, one request at a time.  Every cell *)
(* is a list.  A request asks for a card at the end of a list, for a card   *)
(* at an index, or for an order, and then the lists are what was asked for, *)
(* or as they were: nothing else about them ever changes, but for cards     *)
(* that are removed.                                                        *)
(***************************************************************************)
EXTENDS SequencesExt, FiniteSets

CONSTANTS Cards, Cells

VARIABLES
  list,       \* the cards of each cell, in order
  asked       \* the request that is about to take effect

vars == <<list, asked>>

Nothing == [op |-> "nothing"]
Adding  == [op : {"add"}, card : Cards, cell : Cells]
Moving  == [op : {"move"}, card : Cards, cell : Cells, index : 1 .. Cardinality(Cards)]
Sorting == [op : {"sort"}, cell : Cells, order : Seq(Cards)]

Without(cell, S) == SelectSeq(list[cell], LAMBDA card : card \notin S)

Listed == UNION {ToSet(list[cell]) : cell \in Cells}

Init ==
  /\ list \in [Cells -> Seq(Cards)]
  /\ \A cell \in Cells : IsInjective(list[cell])
  /\ asked = Nothing

Ask ==
  /\ asked = Nothing
  /\ asked' \in Adding \cup Moving \cup Sorting
  /\ UNCHANGED list

Answer == asked # Nothing /\ asked' = Nothing

AddLast ==
  /\ asked.op = "add" /\ Answer
  /\ asked.card \notin Listed
  /\ list' = [list EXCEPT ![asked.cell] = Append(@, asked.card)]

\* The card leaves its list and lies at its index in the new one, or before it
\* where two neighbours leave no rank between them; first and last are exact.
Move ==
  /\ asked.op = "move" /\ Answer
  /\ asked.card \in Listed
  /\ LET rest == Without(asked.cell, {asked.card})
     IN  \E i \in 1 .. asked.index :
           /\ asked.index = Len(rest) + 1 => i = asked.index
           /\ list' = [cell \in Cells |->
                         IF cell = asked.cell
                         THEN InsertAt(rest, i, asked.card)
                         ELSE Without(cell, {asked.card})]

Sort ==
  /\ asked.op = "sort" /\ Answer
  /\ IsInjective(asked.order) /\ ToSet(asked.order) = ToSet(list[asked.cell])
  /\ list' = [list EXCEPT ![asked.cell] = asked.order]

\* The request fails and changes nothing.
Fail == Answer /\ UNCHANGED list

\* One card, or all of some cells: a milestone's, a subworkflow's, a project's.
Discard ==
  /\ asked = Nothing /\ list' # list
  /\ \/ \E card \in Cards : list' = [cell \in Cells |-> Without(cell, {card})]
     \/ \E K \in SUBSET Cells :
          list' = [cell \in Cells |-> IF cell \in K THEN <<>> ELSE list[cell]]
  /\ UNCHANGED asked

Next == Ask \/ AddLast \/ Move \/ Sort \/ Fail \/ Discard

Spec == Init /\ [][Next]_vars

=============================================================================
