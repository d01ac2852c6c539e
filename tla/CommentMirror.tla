---------------------------- MODULE CommentMirror ----------------------------
(***************************************************************************)
(* What the comment sync promises of one card and one Plane work item, with *)
(* no syncer, table or request in sight: what is written on one side is     *)
(* copied to the other at most once, and a copy is never made again, not    *)
(* even of a comment that was deleted.  The sync design document says it in *)
(* one line: exactly one copy on each side.                                 *)
(***************************************************************************)
EXTENDS Naturals

CONSTANTS Locals, Remotes

Texts == Locals \cup Remotes

VARIABLES
  written,    \* the texts somebody wrote
  imported,   \* the texts of Plane that reached the card
  card,       \* number of copies of each text on the card
  item        \* number of copies of each text in the work item

vars == <<written, imported, card, item>>

Init == /\ written = {} /\ imported = {}
        /\ card = [m \in Texts |-> 0]
        /\ item = [m \in Texts |-> 0]

WriteOnCard(m) == /\ m \notin written
                  /\ written' = written \cup {m}
                  /\ card' = [card EXCEPT ![m] = 1]
                  /\ UNCHANGED <<imported, item>>

WriteInItem(m) == /\ m \notin written
                  /\ written' = written \cup {m}
                  /\ item' = [item EXCEPT ![m] = 1]
                  /\ UNCHANGED <<imported, card>>

\* A comment read before it was deleted may still be copied.
CopyToItem(m) == /\ m \in written
                 /\ item[m] = 0
                 /\ item' = [item EXCEPT ![m] = 1]
                 /\ UNCHANGED <<written, imported, card>>

\* One commit makes all copies of a run visible at once.
CopyToCard(ms) == /\ \A m \in ms : item[m] = 1 /\ m \notin imported
                  /\ imported' = imported \cup ms
                  /\ card' = [m \in Texts |-> IF m \in ms THEN 1 ELSE card[m]]
                  /\ UNCHANGED <<written, item>>

Delete(m) == /\ card' = [card EXCEPT ![m] = 0]
             /\ UNCHANGED <<written, imported, item>>

Next == \/ \E m \in Locals : WriteOnCard(m) \/ CopyToItem(m)
        \/ \E m \in Remotes : WriteInItem(m)
        \/ \E ms \in SUBSET Remotes : CopyToCard(ms)
        \/ \E m \in Texts : Delete(m)

Spec == Init /\ [][Next]_vars

=============================================================================
