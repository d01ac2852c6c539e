---------------------------- MODULE LexorankLoop ----------------------------
(***************************************************************************)
(* lexorank.Rank as the code runs it: one action per turn of its loop.  The *)
(* other modules use the operator Rank in its place; LoopComputesRank says  *)
(* that the two agree.                                                      *)
(***************************************************************************)
EXTENDS Lexorank

CONSTANT Inputs     \* the words Rank is called with

ASSUME InputsAssumption == Inputs \subseteq Word

VARIABLES prev, next, rank, i, pc, answer

vars == <<prev, next, rank, i, pc, answer>>

NoAnswer == [rank |-> <<>>, ok |-> FALSE]

Init ==
  /\ prev = <<>> /\ next = <<>> /\ rank = <<>> /\ i = 1
  /\ pc = "idle" /\ answer = NoAnswer

Call(p, n) ==
  /\ pc = "idle"
  /\ prev' = OrFirst(p) /\ next' = OrLast(n)
  /\ rank' = <<>> /\ i' = 1
  /\ pc' = "loop" /\ answer' = NoAnswer

P == Letter1(prev, i)
N == Letter2(next, i)

\* Bug: the letter of next is kept.
KeepNext == /\ rank' = Append(rank, N)
            /\ i' = i + 1
            /\ UNCHANGED <<prev, next, pc, answer>>

Keep == /\ rank' = Append(rank, P)
        /\ i' = i + 1
        /\ UNCHANGED <<prev, next, pc, answer>>

Same     == pc = "loop" /\ P = N /\ Keep
Adjacent == pc = "loop" /\ P # N /\ Mid(P, N) \in {P, N} /\ Keep

Split ==
  /\ pc = "loop" /\ P # N /\ Mid(P, N) \notin {P, N}
  /\ rank' = Append(rank, Mid(P, N))
  /\ pc' = "compare"
  /\ UNCHANGED <<prev, next, i, answer>>

Return ==
  /\ pc = "compare"
  /\ answer' = IF ~Less(rank, next) THEN [rank |-> prev, ok |-> FALSE]
                                    ELSE [rank |-> rank, ok |-> TRUE]
  /\ pc' = "answered"
  /\ UNCHANGED <<prev, next, rank, i>>

Next == \/ \E p, n \in Inputs : Call(p, n)
        \/ Same \/ Adjacent \/ Split \/ Return

Spec == Init /\ [][Next]_vars

TypeOK ==
  /\ prev \in Word /\ next \in Word /\ rank \in Word
  /\ i \in Nat \ {0}
  /\ pc \in {"idle", "loop", "compare", "answered"}
  /\ answer \in [rank : Word, ok : BOOLEAN]

\* The loop's answer is the operator's, for every pair of words: the turns that
\* copy a letter lead to the split that Rank names.
LoopComputesRank == pc = "answered" => answer = Rank(prev, next)

=============================================================================
