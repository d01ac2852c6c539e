------------------------ MODULE LexorankLoop_proofs ------------------------
(***************************************************************************)
(* The loop of lexorank.Rank computes Rank, for words of any length: what it *)
(* has kept are the letters of prev, and it ends at the first split.        *)
(***************************************************************************)
EXTENDS LexorankLoop, Lexorank_proofs

\* No letter before i splits.
Unsplit == \A j \in 1 .. i-1 : ~Splits(prev, next, j)

\* What the turns of the loop keep true.
LoopInv ==
  /\ pc # "idle" => prev # <<>> /\ next # <<>>
  /\ pc = "loop" =>
       Unsplit /\ Len(rank) = i - 1 /\ \A j \in 1 .. i-1 : rank[j] = Letter1(prev, j)
  /\ pc = "compare" => Unsplit /\ Splits(prev, next, i) /\ rank = Upto(prev, next, i)

IInv == TypeOK /\ LoopInv /\ LoopComputesRank

\* The first letter that splits is the one of SplitAt.
LEMMA FirstSplit ==
  ASSUME NEW p \in Word, NEW n \in Word, NEW k \in Nat \ {0}, Splits(p, n, k),
         \A j \in 1 .. k-1 : ~Splits(p, n, j)
  PROVE  SplitAt(p, n) = k
<1> DEFINE s == SplitAt(p, n)
<1>1. s \in Nat \ {0} /\ Splits(p, n, s) /\ \A j \in 1 .. s-1 : ~Splits(p, n, j)
  BY SplitIsFirst
<1> HIDE DEF s
<1>2. ~ (s < k)
  BY <1>1
<1>3. ~ (k < s)
  BY <1>1
<1>4. s = k
  BY <1>1, <1>2, <1>3
<1> QED BY <1>4 DEF s

\* A turn that keeps prev's letter has met no split.
LEMMA KeepStep ==
  ASSUME IInv, pc = "loop", ~Splits(prev, next, i), Keep
  PROVE  IInv'
<1>1. /\ i \in Nat \ {0} /\ rank \in Word /\ prev \in Word /\ next \in Word
      /\ P \in Letter
  BY LettersType DEF IInv, TypeOK, P
<1>2. rank' = Append(rank, P) /\ i' = i + 1
      /\ prev' = prev /\ next' = next /\ pc' = pc /\ answer' = answer
  BY DEF Keep
<1>3. rank' \in Word /\ Len(rank') = i /\ rank'[i] = Letter1(prev, i)
      /\ \A j \in 1 .. i-1 : rank'[j] = Letter1(prev, j)
  BY <1>1, <1>2 DEF IInv, LoopInv, Word, P
<1>4. \A j \in 1 .. i : rank'[j] = Letter1(prev, j) /\ ~Splits(prev, next, j)
  BY <1>1, <1>3 DEF IInv, LoopInv, Unsplit
<1>5. i' - 1 = i /\ i' \in Nat \ {0}
  BY <1>1, <1>2
<1>6. TypeOK'
  BY <1>1, <1>2, <1>3, <1>5 DEF IInv, TypeOK
<1>7. LoopInv'
  BY <1>2, <1>3, <1>4, <1>5 DEF IInv, LoopInv, Unsplit
<1> QED BY <1>2, <1>6, <1>7 DEF IInv, LoopComputesRank

LEMMA LoopInit ==
  Init => IInv
BY DEF Init, IInv, TypeOK, LoopInv, LoopComputesRank, NoAnswer, Word

LEMMA LoopStep ==
  IInv /\ [Next]_vars => IInv'
<1> SUFFICES ASSUME IInv, [Next]_vars PROVE IInv'
  OBVIOUS
<1>1. ASSUME NEW p \in Inputs, NEW n \in Inputs, Call(p, n) PROVE IInv'
  <2>1. p \in Word /\ n \in Word /\ 0 \in Letter /\ Top \in Letter
    BY InputsAssumption, TopAssumption DEF Letter
  <2>2. OrFirst(p) \in Word /\ OrFirst(p) # <<>> /\ OrLast(n) \in Word /\ OrLast(n) # <<>>
    BY <2>1 DEF OrFirst, OrLast, Word
  <2> QED BY <1>1, <2>2
            DEF Call, IInv, TypeOK, LoopInv, Unsplit, LoopComputesRank, NoAnswer, Word
<1>2. CASE Same
  <2>1. ~Splits(prev, next, i)
    BY <1>2, NoSplit DEF Same, P, N, IInv, TypeOK
  <2> QED BY <1>2, <2>1, KeepStep DEF Same
<1>3. CASE Adjacent
  <2>1. ~Splits(prev, next, i)
    BY <1>3 DEF Adjacent, P, N, Splits
  <2> QED BY <1>3, <2>1, KeepStep DEF Adjacent
<1>4. CASE Split
  <2>1. /\ i \in Nat \ {0} /\ rank \in Word /\ prev \in Word /\ next \in Word
        /\ pc = "loop" /\ pc' = "compare" /\ rank' = Append(rank, Mid(P, N))
        /\ prev' = prev /\ next' = next /\ i' = i /\ answer' = answer
    BY <1>4 DEF IInv, TypeOK, Split
  <2>2. Splits(prev, next, i)
    BY <1>4 DEF Split, Splits, P, N
  <2>3. Mid(P, N) \in Letter
    BY <1>4, <2>1, LettersType, MidLetter DEF Split, P, N
  <2>4. rank' \in Word /\ Len(rank') = i /\ rank'[i] = Mid(P, N)
        /\ \A j \in 1 .. i-1 : rank'[j] = Letter1(prev, j)
    BY <2>1, <2>3 DEF IInv, LoopInv, Word
  <2>5. /\ Upto(prev, next, i) \in Word /\ Len(Upto(prev, next, i)) = i
        /\ \A j \in 1 .. i : rank'[j] = Upto(prev, next, i)[j]
    BY <2>1, <2>2, <2>4, UptoType DEF P, N
  <2>6. rank' = Upto(prev, next, i)
    BY <2>1, <2>4, <2>5 DEF Word
  <2> QED BY <2>1, <2>2, <2>4, <2>6
            DEF IInv, TypeOK, LoopInv, Unsplit, LoopComputesRank
<1>5. CASE Return
  <2>1. SplitAt(prev, next) = i /\ rank = Upto(prev, next, i)
    BY <1>5, FirstSplit DEF Return, IInv, TypeOK, LoopInv, Unsplit
  <2>2. OrFirst(prev) = prev /\ OrLast(next) = next
    BY <1>5 DEF Return, IInv, LoopInv, OrFirst, OrLast
  <2>3. answer' = Rank(prev, next)
    BY <1>5, <2>1, <2>2 DEF Return, Rank
  <2>4. TypeOK' /\ LoopInv'
    BY <1>5 DEF Return, IInv, TypeOK, LoopInv
  <2>5. LoopComputesRank'
    BY <1>5, <2>3 DEF Return, LoopComputesRank
  <2> QED BY <2>4, <2>5 DEF IInv
<1>6. CASE UNCHANGED vars
  BY <1>6 DEF vars, IInv, TypeOK, LoopInv, Unsplit, LoopComputesRank
<1> QED BY <1>1, <1>2, <1>3, <1>4, <1>5, <1>6 DEF Next

\* Whenever the loop ends, its answer is the operator's, so that what
\* Lexorank_proofs says of Rank is true of the code's loop.
THEOREM LoopIsRank ==
  Spec => []LoopComputesRank
<1>1. IInv => LoopComputesRank
  BY DEF IInv
<1> QED BY LoopInit, LoopStep, <1>1, PTL DEF Spec

\* The words of the loop stay words, whatever it is called with.
THEOREM LoopTypeCorrect ==
  Spec => []TypeOK
<1>1. IInv => TypeOK
  BY DEF IInv
<1> QED BY LoopInit, LoopStep, <1>1, PTL DEF Spec

============================================================================
