----------------------------- MODULE MCPlaneSync -----------------------------
(***************************************************************************)
(* Instances of PlaneSync for TLC.  Each budget names how often a kind of  *)
(* fault or member action may happen; the configurations pick one.         *)
(***************************************************************************)
EXTENDS PlaneSync, TLC

NoFaults == [k \in Kinds |-> 0]

\* One link, one fault of each kind, one comment deleted, the card deleted.
SerialBudget == [NoFaults EXCEPT !["link"] = 1, !["lost"] = 1,
                 !["refused"] = 1, !["crash"] = 1, !["delete"] = 1,
                 !["drop"] = 1]

\* One link, requests Plane refuses, a comment deleted; no answer is lost.
CleanBudget == [NoFaults EXCEPT !["link"] = 1, !["refused"] = 2,
                !["delete"] = 2]

\* Three link operations (made, removed, made again or retargeted), and the
\* card deleted with its comments.
RelinkBudget == [NoFaults EXCEPT !["link"] = 3, !["drop"] = 1]

Symmetry == Permutations(Syncers) \cup Permutations(Locals)
            \cup Permutations(Cards) \cup Permutations(Items)

=============================================================================
