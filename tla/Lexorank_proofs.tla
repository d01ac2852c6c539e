--------------------------- MODULE Lexorank_proofs ---------------------------
(***************************************************************************)
(* What Rank promises, over every alphabet and for words of any length.    *)
(***************************************************************************)
EXTENDS Lexorank, WellFoundedInduction, TLAPS

\* A set of numbers has a least one.
LEMMA Least ==
  ASSUME NEW T, T \subseteq Nat, T # {}
  PROVE  \E k \in T : \A j \in T : k <= j
<1> DEFINE R == {ss \in Nat \X Nat : ss[1] < ss[2]}
<1>1. IsWellFoundedOn(R, Nat)
  BY NatLessThanWellFounded DEF OpToRel
<1>2. PICK k \in T : \A j \in T : ~ (<<j, k>> \in R)
  BY <1>1, WFMin
<1>3. ASSUME NEW j \in T PROVE k <= j
  <2>1. j \in Nat /\ k \in Nat /\ <<j, k>> \notin R
    BY <1>2
  <2>2. ~ (j < k)
    BY <2>1
  <2> QED BY <2>1, <2>2
<1> QED BY <1>3

------------------------------------------------------------------------------
(* One letter                                                              *)

LEMMA MidHalves ==
  ASSUME NEW p \in Nat, NEW n \in Nat
  PROVE  /\ Mid(p, n) \in Nat
         /\ 2 * Mid(p, n) <= p + n /\ p + n < 2 * Mid(p, n) + 2
BY SMT DEF Mid

\* Between the first and the last letter, and a middle that is neither bound.
LEMMA MidLetter ==
  ASSUME NEW p \in Letter, NEW n \in Letter, Mid(p, n) \notin {p, n}
  PROVE  /\ Mid(p, n) \in Letter /\ Mid(p, n) > 0 /\ Mid(p, n) < Top
         /\ p <= n => p < Mid(p, n) /\ Mid(p, n) < n
<1>1. p \in Nat /\ n \in Nat /\ p <= Top /\ n <= Top /\ Top \in Nat
  BY TopAssumption DEF Letter
<1>2. /\ Mid(p, n) \in Nat
      /\ 2 * Mid(p, n) <= p + n /\ p + n < 2 * Mid(p, n) + 2
  BY <1>1, MidHalves
<1>3. Mid(p, n) # p /\ Mid(p, n) # n
  OBVIOUS
<1> QED BY <1>1, <1>2, <1>3 DEF Letter

LEMMA MidOfSame ==
  ASSUME NEW p \in Letter
  PROVE  Mid(p, p) = p
<1>1. p \in Nat
  BY TopAssumption DEF Letter
<1>2. /\ Mid(p, p) \in Nat
      /\ 2 * Mid(p, p) <= p + p /\ p + p < 2 * Mid(p, p) + 2
  BY <1>1, MidHalves
<1> QED BY <1>1, <1>2

LEMMA LettersType ==
  ASSUME NEW p \in Word, NEW n \in Word, NEW i \in Nat \ {0}
  PROVE  Letter1(p, i) \in Letter /\ Letter2(n, i) \in Letter
BY TopAssumption DEF Letter1, Letter2, Letter, Word

------------------------------------------------------------------------------
(* The split                                                               *)

\* Behind both words the letters are minChar and maxChar, which split.
LEMMA SplitExists ==
  ASSUME NEW p \in Word, NEW n \in Word
  PROVE  Splits(p, n, Len(p) + Len(n) + 1)
<1>1. Len(p) \in Nat /\ Len(n) \in Nat
  BY DEF Word
<1>2. /\ Letter1(p, Len(p) + Len(n) + 1) = 0
      /\ Letter2(n, Len(p) + Len(n) + 1) = Top
  BY <1>1 DEF Letter1, Letter2
<1>3. Mid(0, Top) \notin {0, Top}
  BY MidHalves, TopAssumption
<1> QED BY <1>2, <1>3 DEF Splits

LEMMA SplitIsFirst ==
  ASSUME NEW p \in Word, NEW n \in Word
  PROVE  LET s == SplitAt(p, n)
         IN  /\ s \in Nat \ {0}
             /\ Splits(p, n, s)
             /\ \A j \in 1 .. s-1 : ~Splits(p, n, j)
<1> DEFINE M == Len(p) + Len(n) + 1
           T == {i \in 1 .. M : Splits(p, n, i)}
<1>1. M \in Nat /\ M >= 1
  BY DEF Word
<1>2. M \in T
  BY <1>1, SplitExists
<1> HIDE DEF T
<1>3. T \subseteq Nat /\ T # {}
  BY <1>1, <1>2 DEF T
<1>4. PICK k \in T : \A j \in T : k <= j
  BY <1>3, Least
<1>5. ASSUME NEW j \in 1 .. k-1 PROVE ~Splits(p, n, j)
  <2>1. k \in 1 .. M /\ j \in 1 .. M /\ ~ (k <= j)
    BY <1>1, <1>4 DEF T
  <2> QED BY <1>4, <2>1 DEF T
<1>6. \E i \in 1 .. M : Splits(p, n, i) /\ \A j \in 1 .. i-1 : ~Splits(p, n, j)
  BY <1>4, <1>5 DEF T
<1>7. SplitAt(p, n) \in 1 .. M /\ Splits(p, n, SplitAt(p, n))
        /\ \A j \in 1 .. SplitAt(p, n) - 1 : ~Splits(p, n, j)
  BY <1>6 DEF SplitAt
<1> QED BY <1>1, <1>7

LEMMA UptoType ==
  ASSUME NEW p \in Word, NEW n \in Word, NEW s \in Nat \ {0}, Splits(p, n, s)
  PROVE  LET r == Upto(p, n, s)
         IN  /\ r \in Word /\ Len(r) = s
             /\ \A j \in 1 .. s-1 : r[j] = Letter1(p, j)
             /\ r[s] = Mid(Letter1(p, s), Letter2(n, s))
<1> DEFINE r == Upto(p, n, s)
<1>1. \A j \in 1 .. s : r[j] \in Letter
  BY LettersType, MidLetter DEF Upto, Splits
<1>2. r \in [1 .. s -> Letter]
  BY <1>1 DEF Upto
<1>3. r \in Word /\ Len(r) = s
  BY <1>2 DEF Word
<1> QED BY <1>3 DEF Upto

\* The new word has room above and below it.
LEMMA SplitHasRoom ==
  ASSUME NEW p \in Word, NEW n \in Word, p # <<>>, p[1] < Top,
         NEW s \in Nat \ {0}, Splits(p, n, s)
  PROVE  HasRoom(Upto(p, n, s))
<1> DEFINE r == Upto(p, n, s)
<1>1. /\ r \in Word /\ Len(r) = s
      /\ \A j \in 1 .. s-1 : r[j] = Letter1(p, j)
      /\ r[s] = Mid(Letter1(p, s), Letter2(n, s))
  BY UptoType
<1>2. r[s] > 0 /\ r[s] < Top
  BY <1>1, LettersType, MidLetter DEF Splits
<1>3. s > 1 => r[1] < Top
  BY <1>1, Len(p) >= 1 DEF Letter1, Word
<1>4. r # <<>>
  BY <1>1
<1>5. r[1] < Top /\ r[Len(r)] > 0
  BY <1>1, <1>2, <1>3
<1> QED BY <1>4, <1>5 DEF HasRoom

\* Letters that are equal, or minChar next to nothing, do not split.
LEMMA NoSplit ==
  ASSUME NEW p \in Word, NEW n \in Word, NEW j \in Nat \ {0},
         Letter1(p, j) = Letter2(n, j)
  PROVE  ~Splits(p, n, j)
BY LettersType, MidOfSame DEF Splits

\* What the loop has found stays below next if prev is below it, and next does
\* not end in minChar.
LEMMA SplitFits ==
  ASSUME NEW p \in Word, NEW n \in Word, n # <<>>, n[Len(n)] > 0, Less(p, n),
         NEW s \in Nat \ {0}, Splits(p, n, s),
         \A j \in 1 .. s-1 : ~Splits(p, n, j)
  PROVE  Less(Upto(p, n, s), n)
<1> DEFINE r == Upto(p, n, s)
<1>1. PICK k \in 1 .. Len(n) :
        /\ \A j \in 1 .. k-1 : j <= Len(p) /\ p[j] = n[j]
        /\ k <= Len(p) => p[k] < n[k]
  BY DEF Less
<1>2. /\ r \in Word /\ Len(r) = s
      /\ \A j \in 1 .. s-1 : r[j] = Letter1(p, j)
      /\ r[s] = Mid(Letter1(p, s), Letter2(n, s))
  BY UptoType
<1>3. Len(n) \in Nat /\ Len(p) \in Nat /\ Len(n) >= 1
  BY DEF Word
<1>4. \A j \in 1 .. k-1 : Letter1(p, j) = n[j] /\ Letter2(n, j) = n[j]
  BY <1>1, <1>3 DEF Letter1, Letter2
<1>5. s >= k
  BY <1>4, NoSplit, <1>3
<1>6. \A j \in 1 .. Len(n) : n[j] \in Letter /\ Letter2(n, j) = n[j]
  BY <1>3 DEF Word, Letter2
<1>7. /\ Mid(Letter1(p, s), Letter2(n, s)) \in Letter
      /\ Letter1(p, s) <= Letter2(n, s) => r[s] < Letter2(n, s)
  BY <1>2, LettersType, MidLetter DEF Splits
<1> HIDE DEF r
\* It is enough to find the letter of n that is above r's.
<1>8. ASSUME NEW m \in 1 .. Len(n), m >= k, m <= s, r[m] < n[m],
             \A j \in k .. m-1 : r[j] = n[j]
      PROVE  Less(r, n)
  <2>1. \A j \in 1 .. m-1 : j <= Len(r) /\ r[j] = n[j]
    BY <1>2, <1>3, <1>4, <1>8
  <2> QED BY <1>8, <2>1 DEF Less
<1>9. ASSUME k <= Len(p) PROVE Less(r, n)
  <2>1. Letter1(p, k) = p[k] /\ Letter2(n, k) = n[k] /\ p[k] < n[k]
    BY <1>1, <1>3, <1>6, <1>9 DEF Letter1
  <2>2. p[k] \in Letter /\ n[k] \in Letter
    BY <1>6, <1>9, <1>3 DEF Word
  <2>3. r[k] < n[k]
    <3>1. CASE s = k
      BY <1>7, <2>1, <2>2, <3>1, TopAssumption DEF Letter
    <3>2. CASE s > k
      BY <1>2, <2>1, <3>2
    <3> QED BY <1>5, <3>1, <3>2, <1>3
  <2> QED BY <1>8, <2>3, <1>5, <1>3
<1>10. ASSUME k > Len(p) PROVE Less(r, n)
  \* p is used up: the first letter of n from here that is not minChar.
  <2> DEFINE T == {m \in k .. Len(n) : n[m] > 0}
  <2>1. T \subseteq Nat /\ Len(n) \in T
    BY <1>3
  <2>2. PICK m \in T : \A j \in T : m <= j
    BY <2>1, Least
  <2>3. m \in k .. Len(n) /\ n[m] > 0 /\ m \in Nat
    BY <2>2
  <2>4. \A j \in k .. m-1 : n[j] = 0
    BY <2>2, <1>6, <1>3, TopAssumption DEF Letter
  <2>5. \A j \in Nat : j >= k => Letter1(p, j) = 0
    BY <1>10, <1>3 DEF Letter1
  <2>6. s >= m
    <3> SUFFICES ASSUME s < m PROVE FALSE
      BY <2>3
    <3>1. Letter1(p, s) = 0 /\ Letter2(n, s) = 0
      BY <2>3, <2>4, <2>5, <1>5, <1>6, <1>3
    <3> QED BY <3>1, NoSplit
  <2>7. \A j \in k .. m-1 : r[j] = n[j]
    BY <1>2, <1>3, <2>3, <2>4, <2>5, <2>6
  <2>8. r[m] < n[m]
    <3>1. CASE s = m
      BY <1>6, <1>7, <2>3, <2>5, <3>1, TopAssumption DEF Letter
    <3>2. CASE s > m
      BY <1>2, <2>3, <2>5, <3>2
    <3> QED BY <2>3, <2>6, <3>1, <3>2
  <2> QED BY <1>8, <2>3, <2>6, <2>7, <2>8, <1>3
<1>11. Less(r, n)
  BY <1>9, <1>10, <1>3
<1> QED BY <1>11 DEF r

------------------------------------------------------------------------------
(* Rank                                                                    *)

\* The bounds the loop runs between.
LEMMA Bounds ==
  ASSUME NEW p \in Word, NEW n \in Word,
         p = <<>> \/ HasRoom(p), n = <<>> \/ HasRoom(n),
         p = <<>> \/ n = <<>> \/ Less(p, n)
  PROVE  /\ OrFirst(p) \in Word /\ OrFirst(p) # <<>> /\ OrFirst(p)[1] < Top
         /\ OrLast(n) \in Word /\ OrLast(n) # <<>>
         /\ OrLast(n)[Len(OrLast(n))] > 0
         /\ Less(OrFirst(p), OrLast(n))
<1>1. <<0>> \in Word /\ <<Top>> \in Word
  BY TopAssumption DEF Word, Letter
<1>2. OrFirst(p) \in Word /\ OrFirst(p) # <<>> /\ OrFirst(p)[1] < Top
  BY <1>1, TopAssumption DEF OrFirst, HasRoom
<1>3. OrLast(n) \in Word /\ OrLast(n) # <<>> /\ OrLast(n)[Len(OrLast(n))] > 0
  BY <1>1, TopAssumption DEF OrLast, HasRoom
<1>4. CASE n = <<>>
  <2>1. OrLast(n) = <<Top>>
    BY <1>4 DEF OrLast
  <2>2. Less(OrFirst(p), <<Top>>)
    BY <1>2, TopAssumption DEF Less, Word, Letter
  <2> QED BY <1>2, <1>3, <2>1, <2>2
<1>5. CASE p = <<>> /\ n # <<>>
  <2>1. OrFirst(p) = <<0>> /\ OrLast(n) = n
    BY <1>5 DEF OrFirst, OrLast
  <2>2. Len(n) \in Nat /\ Len(n) >= 1 /\ \A j \in 1 .. Len(n) : n[j] \in Letter
    BY <1>5 DEF Word
  <2>3. Less(<<0>>, n)
    <3>1. CASE n[1] > 0
      BY <2>2, <3>1 DEF Less
    <3>2. CASE n[1] = 0
      <4>1. n[Len(n)] > 0
        BY <1>3, <2>1
      <4>2. Len(n) >= 2
        BY <2>2, <3>2, <4>1
      <4>3. 2 \in 1 .. Len(n)
        BY <2>2, <4>2
      <4> QED BY <3>2, <4>3 DEF Less
    <3> QED BY <2>2, <3>1, <3>2, TopAssumption DEF Letter
  <2> QED BY <1>2, <1>3, <2>1, <2>3
<1>6. CASE p # <<>> /\ n # <<>>
  BY <1>2, <1>3, <1>6 DEF OrFirst, OrLast
<1> QED BY <1>4, <1>5, <1>6

\* Rank always finds a rank with room around it: the callers may ignore its
\* second result, as create and move do.
THEOREM RankHasRoom ==
  ASSUME NEW p \in Word, NEW n \in Word,
         p = <<>> \/ HasRoom(p), n = <<>> \/ HasRoom(n),
         p = <<>> \/ n = <<>> \/ Less(p, n)
  PROVE  /\ Rank(p, n).ok
         /\ Rank(p, n).rank \in Word /\ HasRoom(Rank(p, n).rank)
         /\ n # <<>> => Less(Rank(p, n).rank, n)
<1> DEFINE P == OrFirst(p)
           N == OrLast(n)
           r == Upto(P, N, SplitAt(P, N))
<1>1. /\ P \in Word /\ P # <<>> /\ P[1] < Top
      /\ N \in Word /\ N # <<>> /\ N[Len(N)] > 0
      /\ Less(P, N)
  BY Bounds
<1> HIDE DEF P, N
<1>2. /\ SplitAt(P, N) \in Nat \ {0}
      /\ Splits(P, N, SplitAt(P, N))
      /\ \A j \in 1 .. SplitAt(P, N) - 1 : ~Splits(P, N, j)
  BY <1>1, SplitIsFirst
<1>3. Less(r, N) /\ HasRoom(r) /\ r \in Word
  BY <1>1, <1>2, SplitFits, SplitHasRoom, UptoType
<1>4. Rank(p, n) = [rank |-> r, ok |-> TRUE]
  BY <1>3 DEF Rank, P, N
<1>5. n # <<>> => N = n
  BY DEF N, OrLast
<1> QED BY <1>3, <1>4, <1>5

\* A rank made behind another one, with nothing after it, is above it.
THEOREM AppendsAbove ==
  ASSUME NEW p \in Word, HasRoom(p)
  PROVE  Less(p, Rank(p, <<>>).rank)
<1> DEFINE N == <<Top>>
           s == SplitAt(p, N)
           r == Upto(p, N, s)
<1>1. N \in Word /\ <<>> \in Word /\ p # <<>>
  BY TopAssumption DEF Word, Letter, HasRoom
<1>2. OrFirst(p) = p /\ OrLast(<<>>) = N
  BY <1>1 DEF OrFirst, OrLast
<1>3. Rank(p, <<>>).ok
  BY <1>1, RankHasRoom
<1>4. Rank(p, <<>>).rank = r
  BY <1>2, <1>3 DEF Rank
<1>5. s \in Nat \ {0} /\ Splits(p, N, s)
  BY <1>1, SplitIsFirst
<1>6. /\ r \in Word /\ Len(r) = s
      /\ \A j \in 1 .. s-1 : r[j] = Letter1(p, j)
      /\ r[s] = Mid(Letter1(p, s), Letter2(N, s))
  BY <1>1, <1>5, UptoType
<1>7. Letter2(N, s) = Top
  BY <1>5 DEF Letter2
<1>8. Len(p) \in Nat
  BY DEF Word
<1> HIDE DEF r, s, N
<1>9. CASE s <= Len(p)
  <2>1. Letter1(p, s) = p[s]
    BY <1>5, <1>9 DEF Letter1
  <2>2. p[s] \in Letter /\ p[s] <= Top /\ Top \in Letter
    BY <1>5, <1>8, <1>9, TopAssumption DEF Word, Letter
  <2>3. p[s] < r[s]
    BY <1>5, <1>6, <1>7, <2>1, <2>2, MidLetter DEF Splits
  <2>4. \A j \in 1 .. s-1 : j <= Len(p) /\ p[j] = r[j]
    BY <1>5, <1>6, <1>8, <1>9 DEF Letter1
  <2>5. Less(p, r)
    BY <1>5, <1>6, <2>3, <2>4 DEF Less
  <2> QED BY <1>4, <2>5
<1>10. CASE s > Len(p)
  <2>1. \A j \in 1 .. Len(p) : r[j] = p[j]
    BY <1>5, <1>6, <1>8, <1>10 DEF Letter1
  <2>2. Len(p) + 1 \in 1 .. Len(r)
    BY <1>5, <1>6, <1>8, <1>10
  <2>3. \A j \in 1 .. (Len(p) + 1) - 1 : j <= Len(p) /\ p[j] = r[j]
    BY <1>8, <2>1
  <2>4. ~ (Len(p) + 1 <= Len(p))
    BY <1>8
  <2>5. Less(p, r)
    BY <2>2, <2>3, <2>4 DEF Less
  <2> QED BY <1>4, <2>5
<1> QED BY <1>5, <1>8, <1>9, <1>10
==============================================================================
