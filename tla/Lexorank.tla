------------------------------ MODULE Lexorank ------------------------------
(***************************************************************************)
(* The rank strings that order milestones, workflows, subworkflows and     *)
(* features.  A letter is its index in the alphabet, a rank is a sequence  *)
(* of letters, and ranks are compared as Go and Postgres compare them, from *)
(* the left.  The server (lexorank.Rank) and the web client (core/lexorank) *)
(* compute new ranks with the same algorithm.                              *)
(***************************************************************************)
EXTENDS Naturals, Sequences

CONSTANT Top    \* index of maxChar; minChar is 0 ('a'..'z': Top = 25)

\* With two letters no letter lies between them and the loop has no end.
ASSUME TopAssumption == Top \in Nat /\ Top >= 2

Letter == 0 .. Top
Word   == Seq(Letter)

Less(v, w) ==
  \E k \in 1 .. Len(w) :
    /\ \A j \in 1 .. k-1 : j <= Len(v) /\ v[j] = w[j]
    /\ k <= Len(v) => v[k] < w[k]

Mid(p, n) == (p + n) \div 2

\* getChar: beyond its end prev reads as minChar and next as maxChar.
Letter1(prev, i) == IF i <= Len(prev) THEN prev[i] ELSE 0
Letter2(next, i) == IF i <= Len(next) THEN next[i] ELSE Top

OrFirst(prev) == IF prev = <<>> THEN <<0>> ELSE prev
OrLast(next)  == IF next = <<>> THEN <<Top>> ELSE next

\* Bug: the middle may be prev's letter.
SplitsAtPrev(prev, next, i) ==
  Mid(Letter1(prev, i), Letter2(next, i)) # Letter2(next, i)

\* The first letters of prev and next with a letter strictly between them (or,
\* where prev is the larger one, with a middle that is neither) end the rank.
Splits(prev, next, i) ==
  Mid(Letter1(prev, i), Letter2(next, i))
    \notin {Letter1(prev, i), Letter2(next, i)}

SplitAt(prev, next) ==
  CHOOSE i \in 1 .. Len(prev) + Len(next) + 1 :
    /\ Splits(prev, next, i)
    /\ \A j \in 1 .. i-1 : ~Splits(prev, next, j)

\* What the loop has in rank once it has split at i.
Upto(prev, next, i) ==
  [j \in 1 .. i |-> IF j = i THEN Mid(Letter1(prev, i), Letter2(next, i))
                             ELSE Letter1(prev, j)]

\* The first word that splits, or prev and FALSE if it is not below next.
Rank(prev, next) ==
  LET p == OrFirst(prev)
      n == OrLast(next)
      r == Upto(p, n, SplitAt(p, n))
  IN  IF Less(r, n) THEN [rank |-> r, ok |-> TRUE]
                    ELSE [rank |-> p, ok |-> FALSE]

\* A word with one above it (it is below maxChar) and one below it (it does not
\* end in minChar).
HasRoom(r) == r # <<>> /\ r[1] < Top /\ r[Len(r)] > 0

=============================================================================
