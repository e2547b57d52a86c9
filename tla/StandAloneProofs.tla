-------------------------- MODULE StandAloneProofs --------------------------
(***************************************************************************)
(* What is proved of the parts that run alone: Split never loses, repeats  *)
(* or reorders a word and cuts only phrases that exceed the limit; the job *)
(* list agrees with the table behind every page it may show; no two        *)
(* attempts at a fragment are made with one seed; the stack of sections of *)
(* the book reader is that of the document.                                *)
(***************************************************************************)
EXTENDS MCStandAlone, FiniteSetTheorems, TLAPS

-----------------------------------------------------------------------------
(* Segmenter: words by their rank.                                         *)

\* What division by the word limit does.
LEMMA Division ==
    ASSUME NEW a \in Nat
    PROVE  /\ a \div MaxWords \in Nat
           /\ MaxWords * (a \div MaxWords) <= a
           /\ a < MaxWords * (a \div MaxWords) + MaxWords
BY BoundsAssumption

LEMMA DivisionUnique ==
    ASSUME NEW a \in Nat, NEW k \in Nat,
           MaxWords * k <= a, a < MaxWords * k + MaxWords
    PROVE  a \div MaxWords = k
BY BoundsAssumption

LEMMA DivisionMonotone ==
    ASSUME NEW a \in Nat, NEW b \in Nat, a <= b
    PROVE  a \div MaxWords <= b \div MaxWords
BY BoundsAssumption

LEMMA RankType ==
    ASSUME NEW words \in SUBSET Nat, IsFiniteSet(words), NEW p \in words
    PROVE  /\ Split!RankIn(p, words) \in Nat
           /\ Split!RankIn(p, words) < Cardinality(words)
           /\ Cardinality(words) \in Nat
<1> DEFINE B == {q \in words : q < p}
<1>1. IsFiniteSet(B) /\ B \in SUBSET words /\ p \notin B
  BY FS_Subset
<1>2. /\ Cardinality(B) <= Cardinality(words)
      /\ Cardinality(words) = Cardinality(B) => words = B
      /\ Cardinality(B) \in Nat /\ Cardinality(words) \in Nat
  BY <1>1, FS_Subset, FS_CardinalityType
<1>3. Cardinality(B) < Cardinality(words)
  BY <1>1, <1>2
<1>4. Split!RankIn(p, words) = Cardinality(B)
  BY DEF Split!RankIn, Split!Cardinality, Cardinality
<1> QED
  BY <1>2, <1>3, <1>4

\* The rank grows with the word.
LEMMA RankGrows ==
    ASSUME NEW words \in SUBSET Nat, IsFiniteSet(words),
           NEW p \in words, NEW q \in words, p < q
    PROVE  Split!RankIn(p, words) < Split!RankIn(q, words)
<1>1. PICK A : A = {x \in words : x < p}
  OBVIOUS
<1>2. PICK B : B = {x \in words : x < q}
  OBVIOUS
<1>3. B \in SUBSET words /\ p \in B /\ p \notin A
  BY <1>1, <1>2
<1>4. A \in SUBSET B
  <2> SUFFICES ASSUME NEW x \in words, x < p
               PROVE  x < q
    BY <1>1, <1>2
  <2>1. x \in Nat /\ p \in Nat /\ q \in Nat
    OBVIOUS
  <2> QED
    BY <2>1
<1>5. IsFiniteSet(B)
  BY <1>3, FS_Subset
<1>6. /\ Cardinality(A) <= Cardinality(B)
      /\ Cardinality(B) = Cardinality(A) => B = A
      /\ Cardinality(A) \in Nat /\ Cardinality(B) \in Nat
  BY <1>4, <1>5, FS_Subset, FS_CardinalityType
<1>7. Cardinality(A) < Cardinality(B)
  BY <1>3, <1>6
<1>8. /\ Split!RankIn(p, words) = Cardinality(A)
      /\ Split!RankIn(q, words) = Cardinality(B)
  BY <1>1, <1>2 DEF Split!RankIn, Split!Cardinality, Cardinality
<1> QED
  BY <1>7, <1>8

\* The words of a finite set have the ranks from 0, each of them one.
LEMMA EveryRankIsTaken ==
    ASSUME NEW words \in SUBSET Nat, IsFiniteSet(words),
           NEW k \in Nat, k < Cardinality(words)
    PROVE  \E p \in words : Split!RankIn(p, words) = k
<1>1. PICK c : c = Cardinality(words) /\ c \in Nat /\ c > k
  BY FS_CardinalityType
<1>2. PICK f : f = [p \in words |-> Split!RankIn(p, words)]
  OBVIOUS
<1>3. IsFiniteSet(0 .. c - 1) /\ Cardinality(0 .. c - 1) = c
  <2>1. 0 \in Int /\ c - 1 \in Int /\ ~(0 > c - 1) /\ c - 1 - 0 + 1 = c
    BY <1>1
  <2> QED
    BY <2>1, FS_Interval
<1>4. \A p \in words : f[p] \in 0 .. c - 1
  BY <1>1, <1>2, RankType
<1>5. \A p, q \in words : p # q => f[p] # f[q]
  <2> SUFFICES ASSUME NEW p \in words, NEW q \in words, p # q
               PROVE  f[p] # f[q]
    OBVIOUS
  <2>1. /\ p < q => f[p] < f[q]
        /\ q < p => f[q] < f[p]
    BY <1>2, RankGrows
  <2>2. p < q \/ q < p
    OBVIOUS
  <2>3. f[p] \in Nat /\ f[q] \in Nat
    BY <1>4
  <2> QED
    BY <2>1, <2>2, <2>3
<1>6. f \in Injection(words, 0 .. c - 1)
  BY <1>2, <1>4, <1>5 DEF Injection, IsInjective
<1>7. f \in Surjection(words, 0 .. c - 1)
  BY <1>1, <1>3, <1>6, FS_Injection
<1>8. \E p \in words : f[p] = k
  BY <1>1, <1>7 DEF Surjection
<1> QED
  BY <1>2, <1>8

\* A set of words that is not empty has a first one.
LEMMA FirstExists ==
    ASSUME NEW words \in SUBSET Nat, IsFiniteSet(words), words # {}
    PROVE  \E p \in words : \A q \in words : p <= q
<1>1. Cardinality(words) \in Nat /\ Cardinality(words) # 0
  BY FS_CardinalityType, FS_EmptySet
<1>2. PICK p \in words : Split!RankIn(p, words) = 0
  BY <1>1, EveryRankIsTaken
<1>3. PICK B : B = {q \in words : q < p}
  OBVIOUS
<1>4. Cardinality(B) = 0
  BY <1>2, <1>3 DEF Split!RankIn, Split!Cardinality, Cardinality
<1>5. IsFiniteSet(B)
  BY <1>3, FS_Subset
<1>6. B = {}
  BY <1>4, <1>5, FS_EmptySet
<1> QED
  BY <1>3, <1>6


\* All of S comes before all of T.
Before(S, T) == \A p \in S, q \in T : p < q

\* What SplitByWordLimit makes of a phrase: parts in order, none empty or
\* longer than the limit, that are together the phrase; and a phrase within
\* the limit stays one part.
IsSplit(P, words) ==
    /\ P \in Seq(SUBSET words)
    /\ \A n \in DOMAIN P :
          /\ P[n] # {} /\ IsFiniteSet(P[n])
          /\ Cardinality(P[n]) <= MaxWords
          /\ Cardinality(words) <= MaxWords => P[n] = words
    /\ \A p \in words : \E n \in DOMAIN P : p \in P[n]
    /\ \A m, n \in DOMAIN P : m < n => Before(P[m], P[n])

\* The k-th part holds the words whose ranks fall into it, no more than the
\* limit.
LEMMA PartOfPhrase ==
    ASSUME NEW words \in SUBSET Nat, IsFiniteSet(words), NEW k \in Nat,
           NEW S, S = {p \in words : Split!RankIn(p, words) \div MaxWords = k}
    PROVE  IsFiniteSet(S) /\ Cardinality(S) <= MaxWords
<1>1. PICK M : M = MaxWords /\ M \in Nat /\ M > 0
  BY BoundsAssumption
<1>0. PICK a : a = M * k /\ a \in Int
  BY <1>1
<1>2. PICK T : T = a .. a + M - 1
  OBVIOUS
<1>3. IsFiniteSet(T) /\ Cardinality(T) = M
  <2>1. /\ a + M - 1 \in Int /\ ~(a > a + M - 1)
        /\ (a + M - 1) - a + 1 = M
    BY <1>1, <1>0
  <2> QED
    BY <1>2, <1>0, <2>1, FS_Interval
<1>4. PICK f : f = [p \in S |-> Split!RankIn(p, words)]
  OBVIOUS
<1>5. \A p \in S : f[p] \in T
  <2> SUFFICES ASSUME NEW p \in S
               PROVE  f[p] \in T
    OBVIOUS
  <2>1. PICK r : r = Split!RankIn(p, words) /\ r \in Nat
    BY RankType
  <2>2. r \div MaxWords = k
    BY <2>1
  <2>3. MaxWords * k <= r /\ r < MaxWords * k + MaxWords
    BY <2>1, <2>2, Division
  <2>4. a <= r /\ r <= a + M - 1
    BY <1>1, <1>0, <2>1, <2>3
  <2> QED
    BY <1>2, <1>4, <1>0, <2>1, <2>4
<1>6. \A p, q \in S : p # q => f[p] # f[q]
  <2> SUFFICES ASSUME NEW p \in S, NEW q \in S, p # q
               PROVE  f[p] # f[q]
    OBVIOUS
  <2>1. /\ p < q => f[p] < f[q]
        /\ q < p => f[q] < f[p]
    BY <1>4, RankGrows
  <2>2. (p < q \/ q < p) /\ f[p] \in Nat /\ f[q] \in Nat
    BY <1>4, RankType
  <2> QED
    BY <2>1, <2>2
<1>7. f \in [S -> T]
  BY <1>4, <1>5
<1>8. f \in Injection(S, T)
  <2>1. DOMAIN f = S
    BY <1>4
  <2>2. IsInjective(f)
    BY <1>6, <2>1 DEF IsInjective
  <2> QED
    BY <1>7, <2>2 DEF Injection
<1> QED
  BY <1>1, <1>3, <1>8, FS_Injection

\* SplitByWordLimit cuts a phrase into parts as IsSplit says.
LEMMA SplitIsRight ==
    ASSUME NEW words \in SUBSET Nat, IsFiniteSet(words)
    PROVE  IsSplit(Split!SplitByWordLimit(words), words)
<1>1. PICK P : P = Split!SplitByWordLimit(words)
  OBVIOUS
<1>2. PICK c : c = Cardinality(words) /\ c \in Nat
  BY FS_CardinalityType
<1>3. PICK r : r = [p \in words |-> Split!RankIn(p, words)]
  OBVIOUS
<1>4. \A p \in words : r[p] \in Nat /\ r[p] < c
  BY <1>2, <1>3, RankType
<1>5. PICK d : d = [a \in Nat |-> a \div MaxWords]
  OBVIOUS
<1>6. PICK L : L = d[c + MaxWords - 1]
  OBVIOUS
<1>7. c + MaxWords - 1 \in Nat /\ MaxWords \in Nat /\ MaxWords > 0
  BY <1>2, BoundsAssumption
<1>8. /\ \A a \in Nat : d[a] \in Nat
      /\ \A a, b \in Nat : a <= b => d[a] <= d[b]
  BY <1>5, Division, DivisionMonotone
<1>9. L \in Nat
  BY <1>6, <1>7, <1>8
<1>10. P = [n \in 1 .. L |-> {p \in words : d[r[p]] = n - 1}]
  <2>1. \A n \in Nat : {p \in words : Split!RankIn(p, words) \div MaxWords = n - 1}
                       = {p \in words : d[r[p]] = n - 1}
    BY <1>3, <1>4, <1>5
  <2>2. L = (c + MaxWords - 1) \div MaxWords
    BY <1>5, <1>6, <1>7
  <2>3. \A n \in 1 .. L : n \in Nat
    BY <1>9
  <2> QED
    BY <1>1, <1>2, <2>1, <2>2, <2>3
    DEF Split!SplitByWordLimit, Split!Cardinality, Cardinality
<1>11. /\ DOMAIN P = 1 .. L
       /\ \A n \in 1 .. L : \A p : p \in P[n] <=> p \in words /\ d[r[p]] = n - 1
  BY <1>10
<1>12. P \in Seq(SUBSET words)
  <2>1. \A n \in 1 .. L : P[n] \in SUBSET words
    BY <1>11
  <2> QED
    BY <1>9, <1>10, <2>1
<1>13. \A p \in words : d[r[p]] \in Nat /\ d[r[p]] + 1 <= L
  <2> SUFFICES ASSUME NEW p \in words
               PROVE  d[r[p]] + 1 <= L
    BY <1>4, <1>8
  <2>1. PICK a : a = r[p] /\ a \in Nat /\ a + 1 <= c
    BY <1>2, <1>4
  <2>2. PICK k : k = d[a] /\ k \in Nat /\ MaxWords * k <= a
    BY <1>5, <1>8, <2>1, Division
  <2>3. PICK m : m = MaxWords * k /\ m \in Nat
    BY <1>7, <2>2
  <2>4. MaxWords * (k + 1) = m + MaxWords
    BY <1>7, <2>2, <2>3
  <2>5. PICK b : b = m + MaxWords /\ b \in Nat /\ b <= c + MaxWords - 1
    BY <1>2, <1>7, <2>1, <2>2, <2>3
  <2>6. b \div MaxWords = k + 1
    BY <1>7, <2>2, <2>4, <2>5, DivisionUnique
  <2>7. d[b] <= L
    BY <1>6, <1>7, <1>8, <2>5
  <2> QED
    BY <1>5, <2>1, <2>2, <2>5, <2>6, <2>7
<1>14. \A p \in words : \E n \in DOMAIN P : p \in P[n]
  <2> SUFFICES ASSUME NEW p \in words
               PROVE  \E n \in 1 .. L : p \in P[n]
    BY <1>11
  <2>1. PICK k : k = d[r[p]] /\ k \in Nat /\ k + 1 <= L
    BY <1>13
  <2>2. k + 1 \in 1 .. L /\ k + 1 - 1 = k
    BY <1>9, <2>1
  <2> QED
    BY <1>11, <2>1, <2>2
<1>15. \A m, n \in DOMAIN P : m < n => Before(P[m], P[n])
  <2> SUFFICES ASSUME NEW m \in 1 .. L, NEW n \in 1 .. L, m < n,
                      NEW p \in P[m], NEW q \in P[n], ~(p < q)
               PROVE  FALSE
    BY <1>11 DEF Before
  <2>1. /\ p \in words /\ q \in words /\ d[r[p]] = m - 1 /\ d[r[q]] = n - 1
        /\ p \in Nat /\ q \in Nat
    BY <1>11
  <2>2. p # q
    BY <2>1
  <2>3. q < p
    BY <2>1, <2>2
  <2>4. r[q] < r[p] /\ r[q] \in Nat /\ r[p] \in Nat
    BY <1>3, <1>4, <2>1, <2>3, RankGrows
  <2>5. d[r[q]] <= d[r[p]]
    BY <1>8, <2>4
  <2> QED
    BY <2>1, <2>5
<1>16. ASSUME NEW n \in 1 .. L
       PROVE  /\ P[n] # {} /\ IsFiniteSet(P[n])
              /\ Cardinality(P[n]) <= MaxWords
  <2>1. PICK k : k = n - 1 /\ k \in Nat /\ k + 1 <= L
    BY <1>9
  <2>2. P[n] = {p \in words : Split!RankIn(p, words) \div MaxWords = k}
    BY <1>3, <1>4, <1>5, <1>11, <2>1
  <2>3. IsFiniteSet(P[n]) /\ Cardinality(P[n]) <= MaxWords
    BY <2>1, <2>2, PartOfPhrase
  <2>4. PICK a : a = MaxWords * k /\ a \in Nat
    BY <1>7, <2>1
  <2>5. a < c
    <3>1. PICK e : e = c + MaxWords - 1 /\ e \in Nat /\ e \div MaxWords = L
      BY <1>5, <1>6, <1>7
    <3>2. MaxWords * L <= e
      BY <3>1, Division
    <3>3. MaxWords * (k + 1) <= MaxWords * L
      BY <1>7, <1>9, <2>1
    <3>4. MaxWords * (k + 1) = a + MaxWords
      BY <1>7, <2>1, <2>4
    <3>5. PICK x : x = MaxWords * L /\ x \in Nat
      BY <1>7, <1>9
    <3> QED
      BY <1>2, <1>7, <2>4, <3>1, <3>2, <3>3, <3>4, <3>5
  <2>6. PICK p \in words : r[p] = a
    BY <1>2, <1>3, <2>4, <2>5, EveryRankIsTaken
  <2>7. a \div MaxWords = k
    BY <1>7, <2>1, <2>4, DivisionUnique
  <2>8. p \in P[n]
    BY <1>5, <1>11, <2>1, <2>4, <2>6, <2>7
  <2> QED
    BY <2>3, <2>8
<1>17. ASSUME NEW n \in 1 .. L, c <= MaxWords
       PROVE  P[n] = words
  <2>1. \A p \in words : d[r[p]] = 0
    <3> SUFFICES ASSUME NEW p \in words
                 PROVE  d[r[p]] = 0
      OBVIOUS
    <3>1. PICK a : a = r[p] /\ a \in Nat /\ a < MaxWords
      BY <1>2, <1>4, <1>7, <1>17
    <3>2. MaxWords * 0 = 0 /\ 0 \in Nat
      BY <1>7
    <3>3. a \div MaxWords = 0
      BY <1>7, <3>1, <3>2, DivisionUnique
    <3> QED
      BY <1>5, <3>1, <3>3
  <2>2. PICK p : p \in P[n]
    BY <1>16
  <2>3. n - 1 = 0
    BY <1>11, <2>1, <2>2
  <2> QED
    BY <1>11, <2>1, <2>3
<1> QED
  BY <1>1, <1>2, <1>11, <1>12, <1>14, <1>15, <1>16, <1>17 DEF IsSplit

\* A set of words that is not empty has a first one.
LEMMA MinIsFirst ==
    ASSUME NEW S \in SUBSET Nat, IsFiniteSet(S), S # {}
    PROVE  Split!Min(S) \in S /\ \A q \in S : Split!Min(S) <= q
BY FirstExists DEF Split!Min

\* A set of words that is not empty has a last one.
LEMMA MaxIsLast ==
    ASSUME NEW S \in SUBSET Nat, IsFiniteSet(S), S # {}
    PROVE  Split!Max(S) \in S /\ \A q \in S : Split!Max(S) >= q
<1>1. PICK c : c = Cardinality(S) /\ c \in Nat /\ c # 0
  BY FS_CardinalityType, FS_EmptySet
<1>2. c - 1 \in Nat /\ c - 1 < c
  BY <1>1
<1>3. PICK p \in S : Split!RankIn(p, S) = c - 1
  BY <1>1, <1>2, EveryRankIsTaken
<1>4. \A q \in S : p >= q
  <2> SUFFICES ASSUME NEW q \in S, ~(p >= q)
               PROVE  FALSE
    OBVIOUS
  <2>1. p < q
    OBVIOUS
  <2>2. Split!RankIn(p, S) < Split!RankIn(q, S)
    BY <2>1, RankGrows
  <2>3. Split!RankIn(q, S) < c /\ Split!RankIn(q, S) \in Nat
    BY <1>1, RankType
  <2> QED
    BY <1>1, <1>3, <2>2, <2>3
<1> QED
  BY <1>4 DEF Split!Max

-----------------------------------------------------------------------------
(* Segmenter: the scan of a piece.                                         *)

TextFits ==
    /\ Len(chapterText) \in Nat
    /\ DOMAIN chapterText = 1 .. Len(chapterText)
    /\ Split!Normal(chapterText)

\* The piece is one: ends of pieces are around it and not in it.
IsPiece(p) ==
    /\ p # <<>>
    /\ p.from \in 1 .. Len(chapterText) + 1
    /\ p.to \in p.from - 1 .. Len(chapterText)
    /\ p.from = 1 \/ Split!EndOfPiece(chapterText[p.from - 1])
    /\ p.to = Len(chapterText) \/ Split!EndOfPiece(chapterText[p.to + 1])
    /\ \A i \in p.from .. p.to : ~Split!EndOfPiece(chapterText[i])

\* The smallest number of an interval that P holds of, P given by its set.
LEMMA FirstInInterval ==
    ASSUME NEW a \in Nat, NEW b \in Nat, NEW S, S \subseteq a .. b, S # {}
    PROVE  /\ Split!Min(S) \in S /\ Split!Min(S) \in a .. b
           /\ \A j \in a .. Split!Min(S) - 1 : j \notin S
<1>1. S \in SUBSET Nat /\ \A j \in S : j <= b
  OBVIOUS
<1>2. IsFiniteSet(S)
  BY <1>1, FS_BoundedSetOfNaturals
<1>3. Split!Min(S) \in S /\ \A q \in S : Split!Min(S) <= q
  BY <1>1, <1>2, MinIsFirst
<1>4. PICK m : m = Split!Min(S) /\ m \in S /\ \A q \in S : m <= q
  BY <1>3
<1>5. m \in Nat /\ m \in a .. b
  BY <1>4
<1>6. ASSUME NEW j \in a .. m - 1, j \in S
      PROVE  FALSE
  <2>1. m <= j /\ j \in Nat /\ j <= m - 1
    BY <1>4, <1>5, <1>6
  <2> QED
    BY <1>5, <2>1
<1> QED
  BY <1>4, <1>5, <1>6

\* What PieceFrom makes of a start behind an end of a piece is a piece.
LEMMA PieceFromIs ==
    ASSUME TextFits, NEW i \in 1 .. Len(chapterText) + 1,
           i = 1 \/ Split!EndOfPiece(chapterText[i - 1])
    PROVE  IsPiece(Split!PieceFrom(i)) /\ Split!PieceFrom(i).from = i
<1>1. PICK N : N = Len(chapterText) /\ N \in Nat /\ i \in 1 .. N + 1 /\ i \in Nat
  BY DEF TextFits
<1>2. PICK S : S = {j \in i .. N + 1 :
                       j > N \/ Split!EndOfPiece(chapterText[j])}
  OBVIOUS
<1>3. N + 1 \in S /\ S \subseteq i .. N + 1
  BY <1>1, <1>2
<1>4. PICK e : e = Split!Min(S)
  OBVIOUS
<1>5. /\ e \in S /\ e \in i .. N + 1
      /\ \A j \in i .. e - 1 : j \notin S
  <2>1. N + 1 \in Nat /\ S # {}
    BY <1>1, <1>3
  <2> QED
    BY <1>1, <1>3, <1>4, <2>1, FirstInInterval
<1>6. Split!PieceFrom(i) = [from |-> i, to |-> e - 1]
  BY <1>1, <1>2, <1>4 DEF Split!PieceFrom
<1>7. PICK p : p = Split!PieceFrom(i)
  OBVIOUS
<1>8. p.from = i /\ p.to = e - 1 /\ p # <<>>
  BY <1>6, <1>7
<1>9. p.to = N \/ Split!EndOfPiece(chapterText[p.to + 1])
  BY <1>1, <1>2, <1>5, <1>8
<1>10. \A k \in p.from .. p.to : ~Split!EndOfPiece(chapterText[k])
  BY <1>1, <1>2, <1>5, <1>8
<1>11. p.from \in 1 .. N + 1 /\ p.to \in p.from - 1 .. N
  BY <1>1, <1>5, <1>8
<1> QED
  BY <1>1, <1>7, <1>8, <1>9, <1>10, <1>11 DEF IsPiece

\* Past a row of sentence ends and the row of closing runes after it.
LEMMA AfterRow ==
    ASSUME TextFits, piece # <<>>, IsPiece(piece),
           NEW i \in piece.from .. piece.to,
           NEW e, e = Split!AfterEnds(i),
           NEW c, c = Split!AfterClosing(i)
    PROVE  /\ e \in i + 1 .. piece.to + 1 /\ c \in e .. piece.to + 1
           /\ \A j \in i + 1 .. e - 1 : Split!IsSentenceEnd(chapterText[j])
           /\ \A j \in e .. c - 1 : Split!IsClosingRune(chapterText[j])
           /\ e > piece.to \/ ~Split!IsSentenceEnd(chapterText[e])
           /\ c > piece.to \/ ~Split!IsClosingRune(chapterText[c])
<1>1. PICK a, b : /\ a = piece.from /\ b = piece.to /\ a \in Nat /\ b \in Nat
                  /\ i \in Nat /\ i <= b
  BY DEF IsPiece, TextFits
<1>2. PICK S : S = {j \in i + 1 .. b + 1 :
                       j > b \/ ~Split!IsSentenceEnd(chapterText[j])}
  OBVIOUS
<1>3. /\ e \in S /\ e \in i + 1 .. b + 1
      /\ \A j \in i + 1 .. e - 1 : j \notin S
  <2>1. b + 1 \in S /\ S \subseteq i + 1 .. b + 1 /\ i + 1 \in Nat /\ b + 1 \in Nat
    BY <1>1, <1>2
  <2>2. e = Split!Min(S)
    BY <1>1, <1>2 DEF Split!AfterEnds
  <2> QED
    BY <2>1, <2>2, FirstInInterval
<1>4. PICK T : T = {j \in e .. b + 1 :
                       j > b \/ ~Split!IsClosingRune(chapterText[j])}
  OBVIOUS
<1>5. /\ c \in T /\ c \in e .. b + 1
      /\ \A j \in e .. c - 1 : j \notin T
  <2>1. b + 1 \in T /\ T \subseteq e .. b + 1 /\ e \in Nat /\ b + 1 \in Nat
    BY <1>1, <1>3, <1>4
  <2>2. c = Split!Min(T)
    BY <1>1, <1>4 DEF Split!AfterClosing
  <2> QED
    BY <2>1, <2>2, FirstInInterval
<1>6. \A j \in i + 1 .. e - 1 : Split!IsSentenceEnd(chapterText[j])
  BY <1>1, <1>2, <1>3
<1>7. \A j \in e .. c - 1 : Split!IsClosingRune(chapterText[j])
  BY <1>1, <1>3, <1>4, <1>5
<1>8. e > b \/ ~Split!IsSentenceEnd(chapterText[e])
  BY <1>2, <1>3
<1>9. c > b \/ ~Split!IsClosingRune(chapterText[c])
  BY <1>4, <1>5
<1> QED
  BY <1>1, <1>3, <1>5, <1>6, <1>7, <1>8, <1>9

\* Where splitLine is in its piece: the phrase that began at phraseStart has
\* not ended before index.
ScanFits ==
    /\ phraseStart \in piece.from .. index
    /\ index \in piece.from .. piece.to + 2
    /\ index = piece.to + 2 => phraseStart = index
    /\ phraseStart <= piece.to =>
          /\ ~Split!Gap(chapterText[phraseStart])
          /\ phraseStart = 1 \/ Split!Gap(chapterText[phraseStart - 1])
          /\ Split!StartsPhrase(phraseStart)
    /\ \A j \in phraseStart .. index - 1 : ~Split!EndsPhrase(j)

\* The phrase that began at phraseStart is cut after place e.
CutsAfter(e) ==
    /\ phraseStart <= piece.to
    /\ \/ index > piece.to /\ e = piece.to
       \/ /\ index <= piece.to /\ Split!EndsPhrase(index)
          /\ e = Split!AfterClosing(index) - 1

\* The numbers of a scan, in their order.
LEMMA ScanNumbers ==
    ASSUME TextFits, IsPiece(piece), ScanFits
    PROVE  /\ piece.from \in Nat /\ piece.to \in Nat /\ Len(chapterText) \in Nat
           /\ phraseStart \in Nat /\ index \in Nat
           /\ 1 <= piece.from /\ piece.from <= phraseStart
           /\ piece.from <= piece.to + 1 /\ piece.to <= Len(chapterText)
           /\ phraseStart <= index /\ index <= piece.to + 2
<1>1. PICK N : N = Len(chapterText) /\ N \in Nat
  BY DEF TextFits
<1>2. piece.from \in Nat /\ 1 <= piece.from
  BY <1>1 DEF IsPiece
<1>3. piece.to \in Nat /\ piece.from <= piece.to + 1 /\ piece.to <= N
  BY <1>1, <1>2 DEF IsPiece
<1>4. index \in Nat /\ index <= piece.to + 2
  BY <1>2, <1>3 DEF ScanFits
<1>5. /\ phraseStart \in Nat /\ piece.from <= phraseStart
      /\ phraseStart <= index
  BY <1>2, <1>4 DEF ScanFits
<1> QED
  BY <1>1, <1>2, <1>3, <1>4, <1>5

\* A phrase that ended is followed by the first word of another.
LEMMA NextPhraseStarts ==
    ASSUME TextFits, piece # <<>>, IsPiece(piece),
           NEW i \in piece.from .. piece.to, Split!EndsPhrase(i),
           NEW c, c = Split!AfterClosing(i), c + 1 <= piece.to
    PROVE  /\ ~Split!Gap(chapterText[c + 1]) /\ Split!Gap(chapterText[c])
           /\ Split!StartsPhrase(c + 1)
<1>1. PICK a, b, N : /\ a = piece.from /\ b = piece.to /\ N = Len(chapterText)
                     /\ a \in Nat /\ b \in Nat /\ N \in Nat
                     /\ i \in Nat /\ a <= i /\ i <= b /\ b <= N /\ 1 <= a
  BY DEF IsPiece, TextFits
<1>2. PICK e : e = Split!AfterEnds(i)
  OBVIOUS
<1>3. /\ e \in i + 1 .. b + 1 /\ c \in e .. b + 1
      /\ \A j \in i + 1 .. e - 1 : Split!IsSentenceEnd(chapterText[j])
      /\ \A j \in e .. c - 1 : Split!IsClosingRune(chapterText[j])
  BY <1>1, <1>2, AfterRow
<1>4. c \in Nat /\ e \in Nat /\ i < e /\ e <= c /\ c + 1 <= b
  BY <1>1, <1>3
<1>5. chapterText[c] = "space" /\ Split!IsSentenceEnd(chapterText[i])
  BY <1>1, <1>4 DEF Split!EndsPhrase
<1>6. ~Split!Gap(chapterText[c + 1]) /\ Split!Gap(chapterText[c])
  BY <1>1, <1>4, <1>5 DEF TextFits, Split!Normal, Split!Gap
<1>7. PICK q, m : q = c - 1 /\ m = e - 1 /\ q \in Nat /\ m \in Nat
  BY <1>1, <1>4
<1>8. /\ i \in 1 .. q /\ m \in 1 .. q /\ i <= m
      /\ \A p \in i .. m : Split!IsSentenceEnd(chapterText[p])
      /\ \A p \in m + 1 .. q : Split!IsClosingRune(chapterText[p])
      /\ Split!Gap(chapterText[q + 1])
  <2>1. i \in 1 .. q /\ m \in 1 .. q /\ i <= m /\ q + 1 = c /\ m + 1 = e
    <3>1. q + 1 = c /\ m + 1 = e
      BY <1>4, <1>7
    <3>2. 1 <= i /\ i <= m /\ m <= q
      BY <1>1, <1>4, <1>7
    <3> QED
      BY <1>1, <1>7, <3>1, <3>2
  <2>2. \A p \in i .. m : p = i \/ p \in i + 1 .. e - 1
    BY <1>1, <1>4, <1>7
  <2>3. \A p \in m + 1 .. q : p \in e .. c - 1
    BY <1>4, <1>7
  <2>4. \A p \in i .. m : Split!IsSentenceEnd(chapterText[p])
    BY <1>3, <1>5, <2>2
  <2>5. \A p \in m + 1 .. q : Split!IsClosingRune(chapterText[p])
    BY <1>3, <2>3
  <2> QED
    BY <1>6, <2>1, <2>4, <2>5
<1>9. Split!PhraseEndsAt(q)
  BY <1>8 DEF Split!PhraseEndsAt
<1>10. PICK d : d = c + 1 /\ d - 2 = q
  BY <1>4, <1>7
<1>11. Split!StartsPhrase(d)
  BY <1>9, <1>10 DEF Split!StartsPhrase
<1> QED
  BY <1>6, <1>10, <1>11

\* Of the words of a phrase that is cut, only the first starts one.
LEMMA OnlyFirstStarts ==
    ASSUME TextFits, piece # <<>>, IsPiece(piece), ScanFits,
           NEW e, CutsAfter(e),
           NEW p \in phraseStart + 1 .. e,
           Split!Gap(chapterText[p - 1]), Split!StartsPhrase(p)
    PROVE  FALSE
<1>1. PICK a, b, N, s, x :
         /\ a = piece.from /\ b = piece.to /\ N = Len(chapterText)
         /\ s = phraseStart /\ x = index
         /\ a \in Nat /\ b \in Nat /\ N \in Nat /\ s \in Nat /\ x \in Nat
         /\ 1 <= a /\ a <= s /\ s <= x /\ s <= b /\ b <= N
  <2>1. phraseStart <= piece.to
    BY DEF CutsAfter
  <2> QED
    BY <2>1, ScanNumbers
<1>2. /\ \A i \in a .. b : ~Split!EndOfPiece(chapterText[i])
      /\ ~Split!Gap(chapterText[s])
      /\ s = 1 \/ Split!Gap(chapterText[s - 1])
      /\ \A j \in s .. x - 1 : ~Split!EndsPhrase(j)
  BY <1>1 DEF IsPiece, ScanFits
<1>3. e \in Nat /\ e <= b
  <2>1. CASE index > piece.to
    BY <1>1, <2>1 DEF CutsAfter
  <2>2. CASE index <= piece.to
    <3>1. index \in piece.from .. piece.to /\ e = Split!AfterClosing(index) - 1
      BY <1>1, <2>2 DEF CutsAfter
    <3>2. Split!AfterClosing(index) \in index + 1 .. piece.to + 1
      <4>1. /\ Split!AfterEnds(index) \in index + 1 .. piece.to + 1
            /\ Split!AfterClosing(index) \in Split!AfterEnds(index) .. piece.to + 1
        BY <3>1, AfterRow
      <4> QED
        BY <1>1, <4>1
    <3>3. PICK y, d : /\ y = Split!AfterClosing(index) /\ d = y - 1 /\ d = e
                      /\ y \in x + 1 .. b + 1
      BY <1>1, <3>1, <3>2
    <3> QED
      BY <1>1, <3>3
  <2> QED
    BY <1>1, <2>1, <2>2
<1>4. PICK q : q = p - 2 /\ q \in Int /\ p = q + 2 /\ p \in Nat /\ s < p /\ p <= e
  BY <1>1, <1>3
<1>5. q + 1 = p - 1 /\ q + 1 >= s /\ q + 1 <= b
  BY <1>1, <1>3, <1>4
<1>6. chapterText[q + 1] = "space" /\ q + 1 # s /\ q >= s
  <2>1. Split!Gap(chapterText[q + 1]) /\ ~Split!EndOfPiece(chapterText[q + 1])
    BY <1>1, <1>2, <1>4, <1>5
  <2>2. q + 1 # s
    BY <1>2, <2>1
  <2>3. q >= s
    BY <1>1, <1>4, <1>5, <2>2
  <2> QED
    BY <2>1, <2>2, <2>3 DEF Split!Gap, Split!EndOfPiece
<1>7. Split!PhraseEndsAt(q)
  <2>1. p # 1 /\ p - 1 = q + 1 /\ p - 2 = q
    BY <1>1, <1>4
  <2>2. ~Split!EndOfPiece(chapterText[q + 1])
    BY <1>6 DEF Split!EndOfPiece
  <2> QED
    BY <2>1, <2>2 DEF Split!StartsPhrase
<1>8. PICK i \in 1 .. q, m \in 1 .. q :
         /\ i <= m
         /\ \A k \in i .. m : Split!IsSentenceEnd(chapterText[k])
         /\ \A k \in m + 1 .. q : Split!IsClosingRune(chapterText[k])
  BY <1>7 DEF Split!PhraseEndsAt
<1>9. m \in Nat /\ i \in Nat /\ q \in Nat /\ m <= q /\ q < b
  BY <1>1, <1>4, <1>5, <1>8
<1>10. m >= s
  <2> SUFFICES ASSUME m < s
               PROVE  FALSE
    BY <1>1, <1>9
  <2>1. s # 1 /\ Split!Gap(chapterText[s - 1]) /\ s - 1 \in Nat /\ m <= s - 1
    BY <1>1, <1>2, <1>8, <1>9
  <2>2. s - 1 = m \/ s - 1 \in m + 1 .. q
    BY <1>1, <1>6, <1>9, <2>1
  <2>3. \/ Split!IsSentenceEnd(chapterText[s - 1])
        \/ Split!IsClosingRune(chapterText[s - 1])
    BY <1>8, <1>9, <2>2
  <2> QED
    BY <2>1, <2>3 DEF Split!IsSentenceEnd, Split!IsClosingRune, Split!Gap
<1>11. /\ Split!IsSentenceEnd(chapterText[m])
       /\ \A k \in m + 1 .. q + 1 : \/ Split!IsClosingRune(chapterText[k])
                                    \/ k = q + 1
       /\ \A k \in m + 1 .. q + 1 : /\ ~Split!IsSentenceEnd(chapterText[k])
                                    /\ chapterText[k] # "digit"
  <2>1. Split!IsSentenceEnd(chapterText[m])
    BY <1>8, <1>9
  <2>2. \A k \in m + 1 .. q + 1 : k = q + 1 \/ k \in m + 1 .. q
    BY <1>9
  <2>3. \A k \in m + 1 .. q + 1 : \/ Split!IsClosingRune(chapterText[k])
                                  \/ k = q + 1
    BY <1>8, <2>2
  <2> QED
    BY <1>6, <2>1, <2>3 DEF Split!IsSentenceEnd, Split!IsClosingRune
<1>12. CASE m < x
  <2>1. m \in piece.from .. piece.to
    BY <1>1, <1>9, <1>10
  <2>2. PICK f, c : f = Split!AfterEnds(m) /\ c = Split!AfterClosing(m)
    OBVIOUS
  <2>3. /\ f \in m + 1 .. b + 1 /\ c \in f .. b + 1
        /\ \A j \in m + 1 .. f - 1 : Split!IsSentenceEnd(chapterText[j])
        /\ \A j \in f .. c - 1 : Split!IsClosingRune(chapterText[j])
        /\ c > b \/ ~Split!IsClosingRune(chapterText[c])
    BY <1>1, <2>1, <2>2, AfterRow
  <2>4. f = m + 1
    <3>1. f > m + 1 => m + 1 \in m + 1 .. f - 1
      BY <1>9, <2>3
    <3>2. m + 1 \in m + 1 .. q + 1
      BY <1>9
    <3> QED
      BY <1>9, <1>11, <2>3, <3>1, <3>2
  <2>5. c = q + 1
    <3>1. c \in Nat /\ c >= m + 1
      BY <1>9, <2>3, <2>4
    <3>2. ~(c > q + 1)
      <4> SUFFICES ASSUME c > q + 1
                   PROVE  FALSE
        OBVIOUS
      <4>1. q + 1 \in f .. c - 1
        BY <1>9, <2>4, <3>1
      <4> QED
        BY <1>6, <2>3, <4>1 DEF Split!IsClosingRune
    <3>3. ~(c < q + 1)
      <4> SUFFICES ASSUME c < q + 1
                   PROVE  FALSE
        OBVIOUS
      <4>1. c \in m + 1 .. q + 1 /\ c # q + 1 /\ c <= b
        BY <1>1, <1>9, <3>1
      <4> QED
        BY <1>1, <1>9, <1>11, <2>3, <3>1, <4>1
    <3> QED
      BY <1>9, <3>1, <3>2, <3>3
  <2>6. ~Split!IsDecimalPoint(m)
    BY <1>9, <1>11 DEF Split!IsDecimalPoint
  <2>7. Split!EndsPhrase(m)
    BY <1>6, <1>11, <2>2, <2>5, <2>6 DEF Split!EndsPhrase
  <2>8. m \in s .. x - 1
    BY <1>1, <1>9, <1>10, <1>12
  <2> QED
    BY <1>2, <2>7, <2>8
<1>13. CASE m >= x
  <2>1. index <= piece.to /\ e = Split!AfterClosing(index) - 1
    BY <1>1, <1>9, <1>13 DEF CutsAfter
  <2>2. PICK f, c : f = Split!AfterEnds(x) /\ c = Split!AfterClosing(x)
    OBVIOUS
  <2>3. /\ f \in x + 1 .. b + 1 /\ c \in f .. b + 1
        /\ \A j \in x + 1 .. f - 1 : Split!IsSentenceEnd(chapterText[j])
        /\ \A j \in f .. c - 1 : Split!IsClosingRune(chapterText[j])
    <3>1. x \in piece.from .. piece.to
      BY <1>1, <2>1
    <3> QED
      BY <1>1, <2>2, <3>1, AfterRow
  <2>4. f \in Nat /\ c \in Nat /\ c = e + 1
    <3>1. f \in Nat /\ c \in Nat
      BY <1>1, <2>3
    <3>2. c = Split!AfterClosing(index)
      BY <1>1, <2>2
    <3> QED
      BY <1>3, <2>1, <3>1, <3>2
  <2>5. q + 1 \in x + 1 .. f - 1 \/ q + 1 \in f .. c - 1
    BY <1>1, <1>3, <1>4, <1>9, <1>13, <2>3, <2>4
  <2>6. \/ Split!IsSentenceEnd(chapterText[q + 1])
        \/ Split!IsClosingRune(chapterText[q + 1])
    BY <2>3, <2>5
  <2> QED
    BY <1>6, <2>6 DEF Split!IsSentenceEnd, Split!IsClosingRune
<1> QED
  BY <1>1, <1>9, <1>12, <1>13

\* The words of the text.
Word == Split!WordsIn(1, Len(chapterText))

\* The words of an interval are those places of it where a word begins.
LEMMA WordsAre ==
    ASSUME TextFits, NEW i \in 1 .. Len(chapterText) + 1,
           NEW j \in 0 .. Len(chapterText)
    PROVE  /\ Word \in SUBSET Nat /\ IsFiniteSet(Word)
           /\ \A p \in Word : 1 <= p /\ p <= Len(chapterText)
           /\ \A p : p \in Split!WordsIn(i, j) <=> p \in Word /\ i <= p /\ p <= j
           /\ Split!WordsIn(i, j) \in SUBSET Nat
           /\ IsFiniteSet(Split!WordsIn(i, j))
<1>1. PICK N : N = Len(chapterText) /\ N \in Nat /\ i \in 1 .. N + 1 /\ j \in 0 .. N
  BY DEF TextFits
<1>2. \A p : p \in Word <=> /\ p \in 1 .. N
                            /\ ~Split!Gap(chapterText[p])
                            /\ p = 1 \/ Split!Gap(chapterText[p - 1])
  BY <1>1 DEF Word, Split!WordsIn
<1>3. \A p : p \in Split!WordsIn(i, j) <=>
         /\ p \in i .. j
         /\ ~Split!Gap(chapterText[p])
         /\ p = 1 \/ Split!Gap(chapterText[p - 1])
  BY DEF Split!WordsIn
<1>4. \A p : p \in i .. j <=> p \in 1 .. N /\ i <= p /\ p <= j
  BY <1>1
<1>5. \A p : p \in Split!WordsIn(i, j) <=> p \in Word /\ i <= p /\ p <= j
  BY <1>2, <1>3, <1>4
<1>6. Word \in SUBSET (1 .. N) /\ Split!WordsIn(i, j) \in SUBSET (1 .. N)
  BY <1>2, <1>5
<1>7. IsFiniteSet(1 .. N)
  BY <1>1, FS_Interval
<1>8. IsFiniteSet(Word) /\ IsFiniteSet(Split!WordsIn(i, j))
  BY <1>6, <1>7, FS_Subset
<1>9. \A p \in 1 .. N : p \in Nat /\ 1 <= p /\ p <= N
  BY <1>1
<1> QED
  BY <1>1, <1>5, <1>6, <1>8, <1>9

\* The words of a phrase that is cut: the first starts it, and each of them
\* has all of them in its phrase.
LEMMA PhraseHolds ==
    ASSUME TextFits, piece # <<>>, IsPiece(piece), ScanFits,
           NEW e, CutsAfter(e),
           NEW words, words = Split!WordsIn(phraseStart, e)
    PROVE  /\ e \in phraseStart .. piece.to
           /\ words \in SUBSET Nat /\ IsFiniteSet(words)
           /\ \A p : p \in words <=> p \in Word /\ phraseStart <= p /\ p <= e
           /\ phraseStart \in words /\ Split!StartsPhrase(phraseStart)
           /\ \A p \in words : /\ IsFiniteSet(Split!PhraseOf(p))
                               /\ words \in SUBSET Split!PhraseOf(p)
<1>1. PICK a, b, N, s, x :
         /\ a = piece.from /\ b = piece.to /\ N = Len(chapterText)
         /\ s = phraseStart /\ x = index
         /\ a \in Nat /\ b \in Nat /\ N \in Nat /\ s \in Nat /\ x \in Nat
         /\ 1 <= a /\ a <= s /\ s <= x /\ s <= b /\ b <= N
  <2>1. phraseStart <= piece.to
    BY DEF CutsAfter
  <2> QED
    BY <2>1, ScanNumbers
<1>2. e \in s .. b
  <2>1. CASE index > piece.to
    BY <1>1, <2>1 DEF CutsAfter
  <2>2. CASE index <= piece.to
    <3>1. index \in piece.from .. piece.to /\ e = Split!AfterClosing(index) - 1
      BY <1>1, <2>2 DEF CutsAfter
    <3>2. /\ Split!AfterEnds(index) \in index + 1 .. piece.to + 1
          /\ Split!AfterClosing(index) \in Split!AfterEnds(index) .. piece.to + 1
      BY <1>1, <3>1, AfterRow
    <3> QED
      BY <1>1, <3>1, <3>2
  <2> QED
    BY <1>1, <2>1, <2>2
<1>3. e \in Nat /\ s <= e /\ e <= b
  BY <1>1, <1>2
<1>4. /\ words \in SUBSET Nat /\ IsFiniteSet(words)
      /\ \A p : p \in words <=> p \in Word /\ s <= p /\ p <= e
      /\ Word \in SUBSET Nat /\ IsFiniteSet(Word)
  <2>1. phraseStart \in 1 .. Len(chapterText) + 1 /\ e \in 0 .. Len(chapterText)
    BY <1>1, <1>3
  <2> QED
    BY <1>1, <2>1, WordsAre
<1>5. s \in words /\ Split!StartsPhrase(s)
  <2>1. /\ ~Split!Gap(chapterText[s])
        /\ s = 1 \/ Split!Gap(chapterText[s - 1])
        /\ Split!StartsPhrase(s)
    BY <1>1 DEF ScanFits
  <2>2. s \in s .. e
    BY <1>1, <1>3
  <2>3. s \in words
    BY <1>1, <2>1, <2>2 DEF Split!WordsIn
  <2> QED
    BY <2>1, <2>3
<1>6. ASSUME NEW p \in words, p # s
      PROVE  ~Split!StartsPhrase(p)
  <2>1. p \in Nat /\ s <= p /\ p <= e
    BY <1>4
  <2>2. p \in phraseStart + 1 .. e /\ p # 1
    BY <1>1, <1>3, <1>6, <2>1
  <2>3. Split!Gap(chapterText[p - 1])
    BY <2>2 DEF Split!WordsIn
  <2> QED
    BY <2>2, <2>3, OnlyFirstStarts
<1>7. ASSUME NEW p \in words
      PROVE  /\ IsFiniteSet(Split!PhraseOf(p))
             /\ words \in SUBSET Split!PhraseOf(p)
  <2>1. p \in Word /\ p \in Nat /\ s <= p /\ p <= e
    BY <1>4
  <2>2. PICK F : F = {q \in Word : q <= p /\ Split!StartsPhrase(q)}
    OBVIOUS
  <2>3. PICK first : first = Split!Max(F)
    OBVIOUS
  <2>4. s \in F /\ F \in SUBSET Word /\ F \in SUBSET Nat
    BY <1>4, <1>5, <2>1, <2>2
  <2>5. IsFiniteSet(F)
    BY <1>4, <2>4, FS_Subset
  <2>6. first \in F /\ \A q \in F : first >= q
    BY <2>3, <2>4, <2>5, MaxIsLast
  <2>7. first = s
    <3>1. first \in Word /\ first \in Nat /\ first <= p /\ first >= s
          /\ Split!StartsPhrase(first)
      BY <1>4, <2>2, <2>4, <2>6
    <3>2. first \in words
      BY <1>3, <1>4, <2>1, <3>1
    <3> QED
      BY <1>6, <3>1, <3>2
  <2>8. \A q : q \in Split!PhraseOf(p) <=>
           /\ q \in Word /\ q >= s
           /\ \A u \in Word : u > s /\ u <= q => ~Split!StartsPhrase(u)
    BY <2>2, <2>3, <2>7 DEF Split!PhraseOf, Split!Words, Word
  <2>9. IsFiniteSet(Split!PhraseOf(p))
    <3>1. Split!PhraseOf(p) \in SUBSET Word
      BY <2>8
    <3> QED
      BY <1>4, <3>1, FS_Subset
  <2>10. ASSUME NEW q \in words
         PROVE  q \in Split!PhraseOf(p)
    <3>1. q \in Word /\ q \in Nat /\ q >= s /\ q <= e
      BY <1>1, <1>4
    <3>2. ASSUME NEW u \in Word, u > s, u <= q
          PROVE  ~Split!StartsPhrase(u)
      <4>1. u \in Nat /\ u # s /\ s <= u /\ u <= e
        BY <1>1, <1>3, <1>4, <3>1, <3>2
      <4>2. u \in words
        BY <1>4, <4>1
      <4> QED
        BY <1>6, <4>1, <4>2
    <3> QED
      BY <2>8, <3>1, <3>2
  <2> QED
    BY <2>9, <2>10
<1> QED
  BY <1>1, <1>2, <1>4, <1>5, <1>7

-----------------------------------------------------------------------------
(* Segmenter: parts are packed into segments.                              *)

\* The word p starts a phrase, or is of one that exceeds the limit.
StartsWhole(p) ==
    Split!StartsPhrase(p) \/ Cardinality(Split!PhraseOf(p)) > MaxWords

\* A set of words starts with such a word.
FirstIsWhole(S) == \A p \in S : (\A q \in S : p <= q) => StartsWhole(p)

\* A part or a segment: words, some of them, as many as the limit allows.
IsUnit(S) ==
    /\ S \in SUBSET Nat /\ S # {} /\ IsFiniteSet(S)
    /\ Cardinality(S) <= MaxWords /\ FirstIsWhole(S)

\* What is packed and what is still to be packed are the words of T.
Holds(T) ==
    /\ current \subseteq T
    /\ \A n \in DOMAIN segments : segments[n] \subseteq T
    /\ \A n \in DOMAIN parts : parts[n] \subseteq T
    /\ \A p \in T : \/ p \in current
                    \/ \E n \in DOMAIN segments : p \in segments[n]
                    \/ \E n \in DOMAIN parts : p \in parts[n]

InOrder ==
    /\ \A m, n \in DOMAIN segments : m < n => Before(segments[m], segments[n])
    /\ \A m \in DOMAIN segments :
          /\ Before(segments[m], current)
          /\ \A n \in DOMAIN parts : Before(segments[m], parts[n])
    /\ \A n \in DOMAIN parts : Before(current, parts[n])
    /\ \A m, n \in DOMAIN parts : m < n => Before(parts[m], parts[n])

Units ==
    /\ segments \in Seq(SUBSET Nat) /\ parts \in Seq(SUBSET Nat)
    /\ current # {} => IsUnit(current)
    /\ \A n \in DOMAIN segments : IsUnit(segments[n])
    /\ \A n \in DOMAIN parts : IsUnit(parts[n])

Packed(T) == Holds(T) /\ InOrder /\ Units

\* What a unit is depends on the text alone, which never changes.
LEMMA UnitsStay ==
    ASSUME chapterText' = chapterText
    PROVE  /\ \A p : StartsWhole(p)' = StartsWhole(p)
           /\ \A S : IsUnit(S)' = IsUnit(S)
<1>1. \A p : StartsWhole(p)' = StartsWhole(p)
  BY DEF StartsWhole, Split!StartsPhrase, Split!PhraseOf, Split!PhraseEndsAt,
         Split!Words, Split!WordsIn
<1>2. \A S : FirstIsWhole(S)' = FirstIsWhole(S)
  BY <1>1 DEF FirstIsWhole
<1> QED
  BY <1>1, <1>2 DEF IsUnit

\* currentPhrases becomes a segment.
LEMMA FlushPacks ==
    ASSUME NEW T, Packed(T), segments' = Split!Flushed, current' = {},
           parts' = parts, chapterText' = chapterText
    PROVE  Packed(T)'
<1>1. CASE current = {}
  <2>1. UNCHANGED <<segments, current, parts>>
    BY <1>1 DEF Split!Flushed
  <2>2. Holds(T)' /\ InOrder'
    BY <2>1 DEF Packed, Holds, InOrder
  <2>3. Units'
    BY <1>1, <2>1, UnitsStay DEF Packed, Units
  <2> QED
    BY <2>2, <2>3 DEF Packed
<1>2. CASE current # {}
  <2>1. PICK L : L = Len(segments) /\ L \in Nat /\ DOMAIN segments = 1 .. L
    BY DEF Packed, Units
  <2>2. segments' = Append(segments, current)
    BY <1>2 DEF Split!Flushed
  <2>3. /\ segments' \in Seq(SUBSET Nat)
        /\ DOMAIN segments' = 1 .. L + 1
        /\ \A n \in 1 .. L : segments'[n] = segments[n]
        /\ segments'[L + 1] = current
    BY <1>2, <2>1, <2>2 DEF Packed, Units, IsUnit
  <2>4. \A n \in DOMAIN segments' :
           \/ n \in DOMAIN segments /\ segments'[n] = segments[n]
           \/ n = L + 1 /\ segments'[n] = current
    BY <2>1, <2>3
  <2>5. Holds(T)'
    <3>1. \A n \in DOMAIN segments : n \in DOMAIN segments'
      BY <2>1, <2>3
    <3>2. L + 1 \in DOMAIN segments'
      BY <2>1, <2>3
    <3> QED
      BY <2>1, <2>3, <2>4, <3>1, <3>2 DEF Packed, Holds
  <2>6. InOrder'
    <3>1. ASSUME NEW m \in DOMAIN segments', NEW n \in DOMAIN segments', m < n
          PROVE  Before(segments'[m], segments'[n])
      <4>1. m \in DOMAIN segments /\ segments'[m] = segments[m]
        BY <2>1, <2>3, <2>4, <3>1
      <4>2. CASE n \in DOMAIN segments /\ segments'[n] = segments[n]
        BY <3>1, <4>1, <4>2 DEF Packed, InOrder
      <4>3. CASE segments'[n] = current
        BY <4>1, <4>3 DEF Packed, InOrder
      <4> QED
        BY <2>4, <4>2, <4>3
    <3>2. \A m \in DOMAIN segments' :
             /\ Before(segments'[m], current')
             /\ \A n \in DOMAIN parts' : Before(segments'[m], parts'[n])
      BY <2>4 DEF Packed, InOrder, Before
    <3>3. \A n \in DOMAIN parts' : Before(current', parts'[n])
      BY DEF Before
    <3>4. \A m, n \in DOMAIN parts' : m < n => Before(parts'[m], parts'[n])
      BY DEF Packed, InOrder
    <3>5. \A S, R : Before(S, R)' = Before(S, R)
      BY DEF Before
    <3> QED
      BY <3>1, <3>2, <3>3, <3>4, <3>5 DEF InOrder
  <2>7. Units'
    <3>1. IsUnit(current)
      BY <1>2 DEF Packed, Units
    <3>2. \A n \in DOMAIN segments' : IsUnit(segments'[n])
      BY <2>4, <3>1 DEF Packed, Units
    <3> QED
      BY <2>3, <3>2, UnitsStay DEF Packed, Units
  <2> QED
    BY <2>5, <2>6, <2>7 DEF Packed
<1> QED
  BY <1>1, <1>2

\* A phrase after all words of T is cut into parts.
LEMMA CutPacks ==
    ASSUME NEW T, Packed(T), parts = <<>>, UNCHANGED <<current, segments>>,
           chapterText' = chapterText,
           NEW words \in SUBSET Nat, IsSplit(parts', words),
           Before(T, words),
           \A n \in DOMAIN parts' : FirstIsWhole(parts'[n]),
           NEW R, R = T \cup words
    PROVE  Packed(R)'
<1>1. /\ parts' \in Seq(SUBSET Nat)
      /\ \A n \in DOMAIN parts' : parts'[n] \subseteq words
  <2>1. parts' \in Seq(SUBSET words)
    BY DEF IsSplit
  <2>2. PICK K : K = Len(parts') /\ K \in Nat /\ DOMAIN parts' = 1 .. K
                 /\ parts' = [n \in 1 .. K |-> parts'[n]]
    BY <2>1
  <2>3. \A n \in DOMAIN parts' : parts'[n] \in SUBSET words
    BY <2>1
  <2>4. \A n \in DOMAIN parts' : parts'[n] \subseteq words
    BY <2>3
  <2>5. \A n \in DOMAIN parts' : parts'[n] \in SUBSET Nat
    BY <2>4
  <2> QED
    BY <2>2, <2>4, <2>5
<1>2. Holds(R)'
  <2>1. \A p \in T : p \in current \/ \E n \in DOMAIN segments : p \in segments[n]
    BY DEF Packed, Holds
  <2>2. \A p \in words : \E n \in DOMAIN parts' : p \in parts'[n]
    BY DEF IsSplit
  <2>3. /\ current \subseteq R
        /\ \A n \in DOMAIN segments : segments[n] \subseteq R
        /\ \A n \in DOMAIN parts' : parts'[n] \subseteq R
    BY <1>1 DEF Packed, Holds
  <2>4. \A p \in R : \/ p \in current
                     \/ \E n \in DOMAIN segments : p \in segments[n]
                     \/ \E n \in DOMAIN parts' : p \in parts'[n]
    BY <2>1, <2>2
  <2> QED
    BY <2>3, <2>4 DEF Holds
<1>3. InOrder'
  <2>1. \A m \in DOMAIN segments, n \in DOMAIN parts' :
           Before(segments[m], parts'[n])
    BY <1>1 DEF Packed, Holds, Before
  <2>2. \A n \in DOMAIN parts' : Before(current, parts'[n])
    BY <1>1 DEF Packed, Holds, Before
  <2>3. \A m, n \in DOMAIN parts' : m < n => Before(parts'[m], parts'[n])
    BY DEF IsSplit
  <2>4. \A S, U : Before(S, U)' = Before(S, U)
    BY DEF Before
  <2> QED
    BY <2>1, <2>2, <2>3, <2>4 DEF Packed, InOrder
<1>4. Units'
  <2>1. \A n \in DOMAIN parts' : IsUnit(parts'[n])
    BY <1>1 DEF IsSplit, IsUnit
  <2> QED
    BY <1>1, <2>1, UnitsStay DEF Packed, Units
<1> QED
  BY <1>2, <1>3, <1>4 DEF Packed

\* A part appended to the current segment, within the limit, makes a unit.
LEMMA UnionIsUnit ==
    ASSUME NEW S, NEW U, IsUnit(S), IsUnit(U), Before(S, U),
           Cardinality(S) + Cardinality(U) <= MaxWords
    PROVE  IsUnit(S \cup U)
<1>1. /\ S \in SUBSET Nat /\ S # {} /\ IsFiniteSet(S)
      /\ U \in SUBSET Nat /\ IsFiniteSet(U)
  BY DEF IsUnit
<1>2. PICK i : i = Cardinality(S \cap U)
  OBVIOUS
<1>3. S \cap U \in SUBSET S
  OBVIOUS
<1>4. i \in Nat
  BY <1>1, <1>2, <1>3, FS_Subset, FS_CardinalityType
<1>5. /\ IsFiniteSet(S \cup U)
      /\ Cardinality(S \cup U) = Cardinality(S) + Cardinality(U) - i
  BY <1>1, <1>2, FS_Union
<1>6. Cardinality(S \cup U) <= MaxWords
  <2>1. PICK c, d : c = Cardinality(S) /\ d = Cardinality(U) /\ c \in Nat /\ d \in Nat
    BY <1>1, FS_CardinalityType
  <2>2. MaxWords \in Nat
    BY BoundsAssumption
  <2> QED
    BY <1>4, <1>5, <2>1, <2>2
<1>7. FirstIsWhole(S \cup U)
  <2> SUFFICES ASSUME NEW p \in S \cup U, \A q \in S \cup U : p <= q
               PROVE  StartsWhole(p)
    BY DEF FirstIsWhole
  <2>1. p \in S
    <3>1. PICK q : q \in S /\ q \in Nat /\ p <= q /\ p \in Nat
      BY <1>1
    <3>2. ~(q < p)
      BY <3>1
    <3> QED
      BY <3>1, <3>2 DEF Before
  <2> QED
    BY <2>1 DEF IsUnit, FirstIsWhole
<1> QED
  BY <1>1, <1>5, <1>6, <1>7 DEF IsUnit

\* The loop of Split takes the next part.
LEMMA PartPacks ==
    ASSUME NEW T, Packed(T), Split!Pack
    PROVE  Packed(T)'
<1>1. PICK head, K : /\ head = Head(parts) /\ K = Len(parts)
                     /\ parts # <<>> /\ K \in Nat /\ K # 0
                     /\ DOMAIN parts = 1 .. K /\ head = parts[1]
  <2>1. parts \in Seq(SUBSET Nat) /\ parts # <<>>
    BY DEF Packed, Units, Split!Pack
  <2> QED
    BY <2>1
<1>2. /\ parts' = Tail(parts) /\ chapterText' = chapterText
      /\ parts' \in Seq(SUBSET Nat)
      /\ DOMAIN parts' = 1 .. K - 1
      /\ \A n \in 1 .. K - 1 : parts'[n] = parts[n + 1]
  BY <1>1 DEF Packed, Units, Split!Pack
<1>3. /\ 1 \in DOMAIN parts
      /\ \A n \in DOMAIN parts' : /\ n + 1 \in DOMAIN parts /\ 1 < n + 1
                                  /\ parts'[n] = parts[n + 1]
      /\ \A m, n \in DOMAIN parts' : m < n => m + 1 < n + 1
      /\ \A n \in DOMAIN parts : n # 1 => /\ n - 1 \in DOMAIN parts'
                                          /\ parts'[n - 1] = parts[n]
  <2>1. 1 \in DOMAIN parts
    BY <1>1
  <2>2. \A n \in DOMAIN parts' : /\ n + 1 \in DOMAIN parts /\ 1 < n + 1
                                 /\ parts'[n] = parts[n + 1]
    BY <1>1, <1>2
  <2>3. \A m, n \in DOMAIN parts' : m < n => m + 1 < n + 1
    BY <1>1, <1>2
  <2>4. ASSUME NEW n \in DOMAIN parts, n # 1
        PROVE  n - 1 \in DOMAIN parts' /\ parts'[n - 1] = parts[n]
    <3>1. n - 1 \in 1 .. K - 1 /\ n - 1 + 1 = n
      BY <1>1, <2>4
    <3> QED
      BY <1>2, <3>1
  <2> QED
    BY <2>1, <2>2, <2>3, <2>4
<1>4. /\ IsUnit(head) /\ head \subseteq T
      /\ \A n \in DOMAIN parts' : Before(head, parts'[n])
      /\ \A m, n \in DOMAIN parts' : m < n => Before(parts'[m], parts'[n])
      /\ \A n \in DOMAIN parts' : IsUnit(parts'[n]) /\ parts'[n] \subseteq T
      /\ \A n \in DOMAIN parts' : Before(current, parts'[n])
      /\ \A m \in DOMAIN segments, n \in DOMAIN parts' :
            Before(segments[m], parts'[n])
      /\ \A m \in DOMAIN segments : Before(segments[m], head)
      /\ Before(current, head)
  BY <1>1, <1>3 DEF Packed, Units, Holds, InOrder
<1>5. \A S, U : Before(S, U)' = Before(S, U)
  BY DEF Before
<1>6. \A p : (\E n \in DOMAIN parts : p \in parts[n]) =>
                p \in head \/ \E n \in DOMAIN parts' : p \in parts'[n]
  BY <1>1, <1>3
<1>7. CASE current # {} /\ Cardinality(current) + Cardinality(head) > MaxWords
  <2>1. segments' = Append(segments, current) /\ current' = head
    <3>1. Split!Cardinality(current) + Split!Cardinality(head) > MaxWords
      BY <1>7 DEF Split!Cardinality, Cardinality
    <3> QED
      BY <1>1, <1>7, <3>1 DEF Split!Pack, Split!Flushed
  <2>2. PICK L : L = Len(segments) /\ L \in Nat /\ DOMAIN segments = 1 .. L
    BY DEF Packed, Units
  <2>3. IsUnit(current) /\ current \in SUBSET Nat
    BY <1>7 DEF Packed, Units, IsUnit
  <2>4. /\ segments' \in Seq(SUBSET Nat)
        /\ DOMAIN segments' = 1 .. L + 1
        /\ \A n \in 1 .. L : segments'[n] = segments[n]
        /\ segments'[L + 1] = current
    BY <2>1, <2>2, <2>3 DEF Packed, Units
  <2>5. \A n \in DOMAIN segments' :
           \/ n \in DOMAIN segments /\ segments'[n] = segments[n]
           \/ n = L + 1 /\ segments'[n] = current
    BY <2>2, <2>4
  <2>6. Holds(T)'
    <3>1. \A n \in DOMAIN segments : n \in DOMAIN segments' /\ segments'[n] = segments[n]
      BY <2>2, <2>4
    <3>2. L + 1 \in DOMAIN segments' /\ segments'[L + 1] = current
      BY <2>2, <2>4
    <3>3. \A p \in T : \/ p \in current'
                       \/ \E n \in DOMAIN segments' : p \in segments'[n]
                       \/ \E n \in DOMAIN parts' : p \in parts'[n]
      BY <1>6, <2>1, <3>1, <3>2 DEF Packed, Holds
    <3>4. \A n \in DOMAIN segments' : segments'[n] \subseteq T
      BY <2>5 DEF Packed, Holds
    <3> QED
      BY <1>4, <2>1, <3>3, <3>4 DEF Holds
  <2>7. InOrder'
    <3>1. ASSUME NEW m \in DOMAIN segments', NEW n \in DOMAIN segments', m < n
          PROVE  Before(segments'[m], segments'[n])
      <4>1. m \in DOMAIN segments /\ segments'[m] = segments[m]
        BY <2>2, <2>4, <2>5, <3>1
      <4>2. CASE n \in DOMAIN segments /\ segments'[n] = segments[n]
        BY <3>1, <4>1, <4>2 DEF Packed, InOrder
      <4>3. CASE segments'[n] = current
        BY <4>1, <4>3 DEF Packed, InOrder
      <4> QED
        BY <2>5, <4>2, <4>3
    <3>2. \A m \in DOMAIN segments' :
             /\ Before(segments'[m], head)
             /\ \A n \in DOMAIN parts' : Before(segments'[m], parts'[n])
      BY <1>4, <2>5
    <3> QED
      BY <1>4, <1>5, <2>1, <3>1, <3>2 DEF InOrder
  <2>8. Units'
    <3>1. \A n \in DOMAIN segments' : IsUnit(segments'[n])
      BY <2>3, <2>5 DEF Packed, Units
    <3> QED
      BY <1>2, <1>4, <2>1, <2>4, <3>1, UnitsStay DEF Units
  <2> QED
    BY <2>6, <2>7, <2>8 DEF Packed
<1>8. CASE ~(current # {} /\ Cardinality(current) + Cardinality(head) > MaxWords)
  <2>1. segments' = segments /\ current' = current \cup head
    <3>1. ~(current # {} /\ Split!Cardinality(current) + Split!Cardinality(head)
                              > MaxWords)
      BY <1>8 DEF Split!Cardinality, Cardinality
    <3> QED
      BY <1>1, <3>1 DEF Split!Pack
  <2>2. IsUnit(current')
    <3>1. CASE current = {}
      BY <1>4, <2>1, <3>1
    <3>2. CASE current # {}
      <4>1. IsUnit(current)
        BY <3>2 DEF Packed, Units
      <4>2. Cardinality(current) \in Nat /\ Cardinality(head) \in Nat
        BY <1>4, <4>1, FS_CardinalityType DEF IsUnit
      <4>3. Cardinality(current) + Cardinality(head) <= MaxWords
        BY <1>8, <3>2, <4>2, BoundsAssumption
      <4> QED
        BY <1>4, <2>1, <4>1, <4>3, UnionIsUnit
    <3> QED
      BY <3>1, <3>2
  <2>3. Holds(T)'
    BY <1>4, <1>6, <2>1 DEF Packed, Holds
  <2>4. InOrder'
    <3>1. \A n \in DOMAIN parts' : Before(current', parts'[n])
      BY <1>4, <2>1 DEF Before
    <3>2. \A m \in DOMAIN segments : Before(segments[m], current')
      BY <1>4, <2>1 DEF Before, Packed, InOrder
    <3>3. \A m, n \in DOMAIN segments : m < n => Before(segments[m], segments[n])
      BY DEF Packed, InOrder
    <3> QED
      BY <1>4, <1>5, <2>1, <3>1, <3>2, <3>3 DEF InOrder
  <2>5. Units'
    BY <1>2, <1>4, <2>1, <2>2, UnitsStay DEF Packed, Units
  <2> QED
    BY <2>3, <2>4, <2>5 DEF Packed
<1> QED
  BY <1>7, <1>8

-----------------------------------------------------------------------------
(* Segmenter: its invariant and its steps.                                 *)

NoBreak(i, j) == \A k \in i .. j : chapterText[k] # "break"

\* A segment lies between two scene breaks,
SegmentsInScene ==
    \A n \in DOMAIN segments : \A p, q \in segments[n] :
        p < q => NoBreak(p, q)

\* and what is not yet one lies after the last, up to the end of the piece.
SceneIsOpen ==
    /\ \A p \in current : NoBreak(p, piece.to)
    /\ \A n \in DOMAIN parts : \A p \in parts[n] : NoBreak(p, piece.to)

\* The words of the phrases that were cut.
Taken == {p \in Word : p < phraseStart}

\* Before a piece is read to its end the words behind phraseStart are packed; at
\* the end all are.
SplitInv ==
    /\ TextFits
    /\ SegmentsInScene
    /\ IF piece = <<>>
       THEN current = {} /\ parts = <<>> /\ Packed(Word)
       ELSE IsPiece(piece) /\ ScanFits /\ Packed(Taken) /\ SceneIsOpen

LEMMA TextStays ==
    ASSUME chapterText' = chapterText
    PROVE  /\ TextFits' = TextFits /\ Word' = Word
           /\ \A p : IsPiece(p)' = IsPiece(p)
           /\ \A p : Split!StartsPhrase(p)' = Split!StartsPhrase(p)
           /\ \A i, j : NoBreak(i, j)' = NoBreak(i, j)
<1>1. TextFits' = TextFits /\ Word' = Word
  BY DEF TextFits, Word, Split!WordsIn, Split!Normal
<1>2. \A p : IsPiece(p)' = IsPiece(p)
  BY DEF IsPiece
<1>3. \A p : Split!StartsPhrase(p)' = Split!StartsPhrase(p)
  BY DEF Split!StartsPhrase, Split!PhraseEndsAt
<1>4. \A i, j : NoBreak(i, j)' = NoBreak(i, j)
  BY DEF NoBreak
<1> QED
  BY <1>1, <1>2, <1>3, <1>4

\* Words behind the phrase start are in their piece or before it.
LEMMA TakenBefore ==
    ASSUME TextFits, piece # <<>>, IsPiece(piece), ScanFits, NEW p \in Word
    PROVE  /\ p \in Nat /\ 1 <= p /\ p <= Len(chapterText)
           /\ p # piece.to + 1
           /\ p < phraseStart /\ phraseStart > piece.to => p <= piece.to
<1>1. p \in Nat /\ 1 <= p /\ p <= Len(chapterText)
  <2>1. 1 \in 1 .. Len(chapterText) + 1 /\ 0 \in 0 .. Len(chapterText)
    BY DEF TextFits
  <2> QED
    BY <2>1, WordsAre
<1>2. p # piece.to + 1
  <2> SUFFICES ASSUME p = piece.to + 1
               PROVE  FALSE
    OBVIOUS
  <2>1. piece.to # Len(chapterText)
    BY <1>1 DEF TextFits
  <2>2. Split!EndOfPiece(chapterText[p])
    BY <2>1 DEF IsPiece
  <2>3. ~Split!Gap(chapterText[p])
    BY DEF Word, Split!WordsIn
  <2> QED
    BY <2>2, <2>3 DEF Split!EndOfPiece, Split!Gap
<1>3. p < phraseStart /\ phraseStart > piece.to => p <= piece.to
  <2>1. PICK b, s, x :
           /\ b = piece.to /\ s = phraseStart /\ x = index
           /\ b \in Nat /\ s \in Nat /\ x \in Nat /\ s <= x /\ x <= b + 2
    BY ScanNumbers
  <2> QED
    BY <1>1, <1>2, <2>1
<1> QED
  BY <1>1, <1>2, <1>3

\* The parts of a phrase that is cut begin as they should.
LEMMA PartsAreWhole ==
    ASSUME TextFits, piece # <<>>, IsPiece(piece), ScanFits,
           NEW e, CutsAfter(e),
           NEW words, words = Split!WordsIn(phraseStart, e),
           NEW P, IsSplit(P, words), NEW n \in DOMAIN P
    PROVE  FirstIsWhole(P[n])
<1> SUFFICES ASSUME NEW p \in P[n], \A q \in P[n] : p <= q
             PROVE  StartsWhole(p)
  BY DEF FirstIsWhole
<1>1. /\ words \in SUBSET Nat /\ IsFiniteSet(words)
      /\ \A q : q \in words <=> q \in Word /\ phraseStart <= q /\ q <= e
      /\ phraseStart \in words /\ Split!StartsPhrase(phraseStart)
      /\ \A q \in words : /\ IsFiniteSet(Split!PhraseOf(q))
                          /\ words \in SUBSET Split!PhraseOf(q)
  BY PhraseHolds
<1>2. p \in words
  BY DEF IsSplit
<1>3. CASE Cardinality(words) <= MaxWords
  <2>1. P[n] = words
    BY <1>3 DEF IsSplit
  <2>2. p <= phraseStart /\ phraseStart <= p /\ p \in Nat /\ phraseStart \in Nat
    BY <1>1, <1>2, <2>1
  <2>3. p = phraseStart
    BY <2>2
  <2> QED
    BY <1>1, <2>3 DEF StartsWhole
<1>4. CASE ~(Cardinality(words) <= MaxWords)
  <2>1. PICK c, d : /\ c = Cardinality(words) /\ d = Cardinality(Split!PhraseOf(p))
                    /\ c \in Nat /\ d \in Nat /\ c <= d
    BY <1>1, <1>2, FS_Subset, FS_CardinalityType
  <2>2. d > MaxWords
    <3>1. MaxWords \in Nat
      BY BoundsAssumption
    <3> QED
      BY <1>4, <2>1, <3>1
  <2> QED
    BY <2>1, <2>2 DEF StartsWhole
<1> QED
  BY <1>3, <1>4

\* A phrase is cut into parts.
LEMMA CutStep ==
    ASSUME SplitInv, piece # <<>>, parts = <<>>, NEW e, CutsAfter(e),
           parts' = Split!SplitByWordLimit(Split!WordsIn(phraseStart, e)),
           UNCHANGED <<chapterText, piece, current, segments>>,
           \A p \in Word : p < phraseStart' <=> p < phraseStart \/ p <= e
    PROVE  Packed(Taken)' /\ SceneIsOpen' /\ SegmentsInScene'
<1>1. TextFits /\ IsPiece(piece) /\ ScanFits /\ Packed(Taken) /\ SceneIsOpen
  BY DEF SplitInv
<1>2. PICK words : words = Split!WordsIn(phraseStart, e)
  OBVIOUS
<1>3. /\ e \in phraseStart .. piece.to
      /\ words \in SUBSET Nat /\ IsFiniteSet(words)
      /\ \A p : p \in words <=> p \in Word /\ phraseStart <= p /\ p <= e
  BY <1>1, <1>2, PhraseHolds
<1>4. IsSplit(parts', words)
  BY <1>2, <1>3, SplitIsRight
<1>5. \A n \in DOMAIN parts' : FirstIsWhole(parts'[n])
  BY <1>1, <1>2, <1>4, PartsAreWhole
<1>6. \A p \in Word : p \in Nat /\ phraseStart \in Nat /\ e \in Nat
  BY <1>1, <1>3, TakenBefore DEF ScanFits, IsPiece, TextFits
<1>7. PICK T : T = Taken
  OBVIOUS
<1>8. Before(T, words)
  BY <1>3, <1>6, <1>7 DEF Taken, Before
<1>9. PICK R : R = T \cup words
  OBVIOUS
<1>10. Packed(R)'
  BY <1>1, <1>3, <1>4, <1>5, <1>7, <1>8, <1>9, CutPacks
<1>11. R = Taken'
  <2>1. Word' = Word
    BY TextStays
  <2>2. \A p \in Word : p < phraseStart' <=> p \in R
    BY <1>3, <1>6, <1>7, <1>9 DEF Taken
  <2>3. \A p \in R : p \in Word
    BY <1>3, <1>7, <1>9 DEF Taken
  <2> QED
    BY <2>1, <2>2, <2>3 DEF Taken
<1>12. SceneIsOpen'
  <2>1. \A p \in words : NoBreak(p, piece.to)
    <3> SUFFICES ASSUME NEW p \in words, NEW k \in p .. piece.to
                 PROVE  chapterText[k] # "break"
      BY DEF NoBreak
    <3>1. PICK a, b, s : /\ a = piece.from /\ b = piece.to /\ s = phraseStart
                         /\ a \in Nat /\ b \in Nat /\ s \in Nat /\ a <= s
      BY <1>1 DEF IsPiece, TextFits, ScanFits
    <3>2. k \in a .. b
      BY <1>3, <3>1
    <3> QED
      BY <1>1, <3>1, <3>2 DEF IsPiece, Split!EndOfPiece
  <2>2. \A n \in DOMAIN parts' : \A p \in parts'[n] : NoBreak(p, piece.to)
    BY <1>4, <2>1 DEF IsSplit
  <2>3. \A p : NoBreak(p, piece.to)' = NoBreak(p, piece.to)
    BY DEF NoBreak
  <2> QED
    BY <1>1, <2>2, <2>3 DEF SceneIsOpen
<1>13. SegmentsInScene'
  BY TextStays DEF SplitInv, SegmentsInScene
<1>14. Packed(Taken)'
  BY <1>10, <1>11
<1> QED
  BY <1>12, <1>13, <1>14

\* A rune is scanned: the phrase goes on, or ends and is cut.
LEMMA ScanRuneStep ==
    ASSUME SplitInv, Split!ScanRune
    PROVE  SplitInv'
<1>1. /\ piece # <<>> /\ parts = <<>> /\ index <= piece.to
      /\ UNCHANGED <<chapterText, piece, current, segments>>
  BY DEF Split!ScanRune, Split!Scanning
<1>2. /\ TextFits /\ IsPiece(piece) /\ ScanFits /\ Packed(Taken) /\ SceneIsOpen
      /\ SegmentsInScene
  BY <1>1 DEF SplitInv
<1>3. TextFits' /\ IsPiece(piece)'
  BY <1>1, <1>2, TextStays
<1>4. PICK a, b, N, s, x :
         /\ a = piece.from /\ b = piece.to /\ N = Len(chapterText)
         /\ s = phraseStart /\ x = index
         /\ a \in Nat /\ b \in Nat /\ N \in Nat /\ s \in Nat /\ x \in Nat
         /\ 1 <= a /\ a <= s /\ a <= b + 1 /\ b <= N /\ s <= x /\ x <= b
         /\ x \in a .. b
  BY <1>1, <1>2, ScanNumbers
<1>5. \A j : Split!EndsPhrase(j)' = Split!EndsPhrase(j)
  BY <1>1 DEF Split!EndsPhrase, Split!IsDecimalPoint, Split!AfterClosing,
              Split!AfterEnds
<1>6. CASE Split!EndsPhrase(index)
  <2>1. PICK c : c = Split!AfterClosing(index)
    OBVIOUS
  <2>2. /\ parts' = Split!SplitByWordLimit(Split!WordsIn(phraseStart, c - 1))
        /\ phraseStart' = c + 1 /\ index' = c + 1
    BY <1>6, <2>1 DEF Split!ScanRune
  <2>3. c \in x + 1 .. b + 1 /\ c \in Nat
    <3>1. /\ Split!AfterEnds(index) \in index + 1 .. piece.to + 1
          /\ c \in Split!AfterEnds(index) .. piece.to + 1
      BY <1>1, <1>2, <1>4, <2>1, AfterRow
    <3> QED
      BY <1>4, <3>1
  <2>4. CutsAfter(c - 1)
    BY <1>1, <1>4, <1>6, <2>1 DEF CutsAfter
  <2>5. \A p \in Word : p # c
    <3> SUFFICES ASSUME c \in Word
                 PROVE  FALSE
      OBVIOUS
    <3>1. c # b + 1
      BY <1>1, <1>2, <1>4, TakenBefore
    <3>2. chapterText[c] = "space"
      BY <1>4, <1>6, <2>1, <2>3, <3>1 DEF Split!EndsPhrase
    <3>3. ~Split!Gap(chapterText[c])
      BY DEF Word, Split!WordsIn
    <3> QED
      BY <3>2, <3>3 DEF Split!Gap
  <2>6. \A p \in Word : p < phraseStart' <=> p < phraseStart \/ p <= c - 1
    <3> SUFFICES ASSUME NEW p \in Word
                 PROVE  p < c + 1 <=> p < s \/ p <= c - 1
      BY <1>4, <2>2
    <3>1. p \in Nat /\ p # c
      BY <1>1, <1>2, <2>5, TakenBefore
    <3> QED
      BY <1>4, <2>3, <3>1
  <2>7. Packed(Taken)' /\ SceneIsOpen' /\ SegmentsInScene'
    BY <1>1, <2>2, <2>4, <2>6, CutStep
  <2>8. ScanFits'
    <3>1. /\ phraseStart' \in piece'.from .. index'
          /\ index' \in piece'.from .. piece'.to + 2
          /\ index' = piece'.to + 2 => phraseStart' = index'
      <4>1. /\ piece' = piece /\ phraseStart' = c + 1 /\ index' = c + 1
        BY <1>1, <2>2
      <4>2. a <= c + 1 /\ c + 1 <= b + 2
        BY <1>4, <2>3
      <4>3. c + 1 \in a .. b + 2 /\ c + 1 \in a .. c + 1
        BY <1>4, <2>3, <4>2
      <4> QED
        BY <1>4, <4>1, <4>3
    <3>2. \A j : j \notin phraseStart' .. index' - 1
      BY <2>2, <2>3
    <3>3. PICK d : d = c + 1 /\ phraseStart' = d /\ d - 1 = c
      BY <2>2, <2>3
    <3>4. \A p : Split!StartsPhrase(p)' = Split!StartsPhrase(p)
      BY <1>1, TextStays
    <3>5. d <= piece.to =>
             /\ ~Split!Gap(chapterText[c + 1]) /\ Split!Gap(chapterText[c])
             /\ Split!StartsPhrase(c + 1)
      BY <1>1, <1>2, <1>4, <1>6, <2>1, <3>3, NextPhraseStarts
    <3>6. d <= piece.to =>
             /\ ~Split!Gap(chapterText[d]) /\ Split!Gap(chapterText[d - 1])
             /\ Split!StartsPhrase(d)'
      <4>1. Split!StartsPhrase(c + 1) => Split!StartsPhrase(d)
        BY <3>3
      <4> QED
        BY <3>3, <3>4, <3>5, <4>1
    <3>7. d <= piece.to => Split!StartsPhrase(phraseStart)'
      BY <3>3, <3>6
    <3>8. \A j \in phraseStart' .. index' - 1 : ~Split!EndsPhrase(j)'
      BY <3>2
    <3> QED
      BY <1>1, <3>1, <3>3, <3>6, <3>7, <3>8 DEF ScanFits
  <2> QED
    BY <1>1, <1>3, <2>7, <2>8 DEF SplitInv
<1>7. CASE ~Split!EndsPhrase(index)
  <2>1. index' = index + 1 /\ UNCHANGED <<parts, phraseStart>>
    BY <1>7 DEF Split!ScanRune
  <2>2. ScanFits'
    <3>1. /\ phraseStart' \in piece'.from .. index'
          /\ index' \in piece'.from .. piece'.to + 2
          /\ index' = piece'.to + 2 => phraseStart' = index'
      BY <1>1, <1>4, <2>1
    <3>2. \A j \in phraseStart' .. index' - 1 :
             j = index \/ j \in phraseStart .. index - 1
      BY <1>4, <2>1
    <3>3. \A j \in phraseStart' .. index' - 1 : ~Split!EndsPhrase(j)'
      BY <1>2, <1>5, <1>7, <3>2 DEF ScanFits
    <3>4. \A p : Split!StartsPhrase(p)' = Split!StartsPhrase(p)
      BY <1>1, TextStays
    <3> QED
      BY <1>1, <1>2, <2>1, <3>1, <3>3, <3>4 DEF ScanFits
  <2>3. Taken' = Taken
    BY <1>1, <2>1, TextStays DEF Taken
  <2>4. UNCHANGED <<chapterText, piece, current, segments, parts>>
    BY <1>1, <2>1
  <2>5. PICK T : T = Taken
    OBVIOUS
  <2>6. Packed(T)'
    <3>1. Holds(T)' /\ InOrder'
      BY <1>2, <2>4, <2>5 DEF Packed, Holds, InOrder, Before
    <3>2. Units'
      BY <1>2, <2>4, UnitsStay DEF Packed, Units
    <3> QED
      BY <3>1, <3>2 DEF Packed
  <2>7. Packed(Taken)'
    BY <2>3, <2>5, <2>6
  <2>8. SceneIsOpen' /\ SegmentsInScene'
    BY <1>2, <2>4, TextStays DEF SceneIsOpen, SegmentsInScene
  <2> QED
    BY <1>1, <1>3, <2>2, <2>7, <2>8 DEF SplitInv
<1> QED
  BY <1>6, <1>7

\* What becomes a segment, or stays one, lies in its scene.
LEMMA FlushedInScene ==
    ASSUME SplitInv, piece # <<>>, chapterText' = chapterText,
           \/ segments' = segments
           \/ segments' = Split!Flushed /\ phraseStart > piece.to
           \/ segments' = Split!Flushed /\ parts # <<>>
    PROVE  SegmentsInScene'
<1>1. /\ TextFits /\ IsPiece(piece) /\ ScanFits /\ Packed(Taken) /\ SceneIsOpen
      /\ SegmentsInScene
  BY DEF SplitInv
<1>2. \A i, j : NoBreak(i, j)' = NoBreak(i, j)
  BY TextStays
<1>3. CASE segments' = segments
  BY <1>1, <1>2, <1>3 DEF SegmentsInScene
<1>4. CASE segments' = Split!Flushed /\ segments' # segments
  <2>1. segments' = Append(segments, current)
    BY <1>4 DEF Split!Flushed
  <2>2. PICK L : L = Len(segments) /\ L \in Nat /\ DOMAIN segments = 1 .. L
                 /\ segments \in Seq(SUBSET Nat)
    BY <1>1 DEF Packed, Units
  <2>3. \A n \in DOMAIN segments' :
           \/ n \in DOMAIN segments /\ segments'[n] = segments[n]
           \/ segments'[n] = current
    BY <2>1, <2>2
  <2>4. ASSUME NEW p \in current, NEW q \in current, p < q
        PROVE  NoBreak(p, q)
    <3>1. PICK b, s : b = piece.to /\ s = phraseStart /\ b \in Nat /\ s \in Nat
      BY <1>1, ScanNumbers
    <3>2. /\ p \in Word /\ q \in Word /\ p \in Nat /\ q \in Nat /\ q < s
          /\ q # b + 1
      <4>1. p \in Taken /\ q \in Taken
        BY <1>1 DEF Packed, Holds
      <4> QED
        BY <1>1, <3>1, <4>1, TakenBefore DEF Taken
    <3>3. s <= b + 2
      BY <1>1, <3>1, ScanNumbers
    <3>4. q <= b
      BY <3>1, <3>2, <3>3
    <3>5. NoBreak(p, b)
      BY <1>1, <3>1 DEF SceneIsOpen
    <3>6. \A k \in p .. q : k \in p .. b
      BY <3>1, <3>2, <3>4
    <3> QED
      BY <3>5, <3>6 DEF NoBreak
  <2> QED
    BY <1>1, <1>2, <2>3, <2>4 DEF SegmentsInScene
<1> QED
  BY <1>3, <1>4

\* A part joins the current segment, or begins the next one.
LEMMA PackStep ==
    ASSUME SplitInv, Split!Pack
    PROVE  SplitInv'
<1>1. /\ parts # <<>> /\ piece # <<>>
      /\ UNCHANGED <<chapterText, piece, phraseStart, index>>
  BY DEF SplitInv, Split!Pack
<1>2. /\ TextFits /\ IsPiece(piece) /\ ScanFits /\ Packed(Taken) /\ SceneIsOpen
      /\ SegmentsInScene
  BY <1>1 DEF SplitInv
<1>3. TextFits' /\ IsPiece(piece)'
  BY <1>1, <1>2, TextStays
<1>4. ScanFits'
  <2>1. \A j : Split!EndsPhrase(j)' = Split!EndsPhrase(j)
    BY <1>1 DEF Split!EndsPhrase, Split!IsDecimalPoint, Split!AfterClosing,
                Split!AfterEnds
  <2>2. \A p : Split!StartsPhrase(p)' = Split!StartsPhrase(p)
    BY <1>1, TextStays
  <2> QED
    BY <1>1, <1>2, <2>1, <2>2 DEF ScanFits
<1>5. PICK T : T = Taken
  OBVIOUS
<1>6. Packed(T)'
  BY <1>2, <1>5, PartPacks
<1>7. Taken' = T
  BY <1>1, <1>5, TextStays DEF Taken
<1>8. segments' = segments \/ segments' = Split!Flushed
  BY DEF Split!Pack
<1>9. SegmentsInScene'
  BY <1>1, <1>8, FlushedInScene
<1>10. SceneIsOpen'
  <2>1. PICK b : b = piece.to
    OBVIOUS
  <2>2. PICK K : /\ K = Len(parts) /\ K \in Nat /\ K # 0
                 /\ DOMAIN parts = 1 .. K /\ Head(parts) = parts[1]
                 /\ parts \in Seq(SUBSET Nat)
    BY <1>1, <1>2 DEF Packed, Units
  <2>3. parts' = Tail(parts) /\ current' \subseteq current \cup Head(parts)
    BY DEF Split!Pack
  <2>4. \A n \in DOMAIN parts' : n + 1 \in DOMAIN parts /\ parts'[n] = parts[n + 1]
    BY <2>2, <2>3
  <2>5. \A p \in Head(parts) : NoBreak(p, b)
    BY <1>2, <2>1, <2>2 DEF SceneIsOpen
  <2>6. \A p \in current' : NoBreak(p, b)
    BY <1>2, <2>1, <2>3, <2>5 DEF SceneIsOpen
  <2>7. \A n \in DOMAIN parts' : \A p \in parts'[n] : NoBreak(p, b)
    BY <1>2, <2>1, <2>4 DEF SceneIsOpen
  <2>8. \A p : NoBreak(p, b)' = NoBreak(p, b)
    BY <1>1, TextStays
  <2>9. piece'.to = b
    BY <1>1, <2>1
  <2> QED
    BY <2>6, <2>7, <2>8, <2>9 DEF SceneIsOpen, NoBreak
<1>11. Packed(Taken)'
  BY <1>6, <1>7
<1> QED
  BY <1>1, <1>3, <1>4, <1>9, <1>10, <1>11 DEF SplitInv

\* The tail of the piece is cut.
LEMMA TailStep ==
    ASSUME SplitInv, Split!EndPiece, phraseStart <= piece.to
    PROVE  SplitInv'
<1>1. /\ piece # <<>> /\ parts = <<>> /\ index > piece.to
      /\ UNCHANGED <<chapterText, piece, index, current, segments>>
      /\ parts' = Split!SplitByWordLimit(Split!WordsIn(phraseStart, piece.to))
      /\ phraseStart' = piece.to + 1
  BY DEF Split!EndPiece, Split!Scanning
<1>2. /\ TextFits /\ IsPiece(piece) /\ ScanFits /\ Packed(Taken) /\ SceneIsOpen
  BY <1>1 DEF SplitInv
<1>3. TextFits' /\ IsPiece(piece)'
  BY <1>1, <1>2, TextStays
<1>4. PICK a, b, s, x :
         /\ a = piece.from /\ b = piece.to /\ s = phraseStart /\ x = index
         /\ a \in Nat /\ b \in Nat /\ s \in Nat /\ x \in Nat
         /\ a <= s /\ a <= b + 1 /\ s <= x /\ x <= b + 2 /\ s <= b /\ x > b
  BY <1>1, <1>2, ScanNumbers
<1>5. x = b + 1
  BY <1>2, <1>4 DEF ScanFits
<1>6. ScanFits'
  <2>1. /\ phraseStart' \in piece'.from .. index'
        /\ index' \in piece'.from .. piece'.to + 2
        /\ index' # piece'.to + 2 /\ ~(phraseStart' <= piece'.to)
    BY <1>1, <1>4, <1>5
  <2>2. \A j : j \notin phraseStart' .. index' - 1
    BY <1>1, <1>4, <1>5
  <2> QED
    BY <2>1, <2>2 DEF ScanFits
<1>7. \A p \in Word : p < phraseStart' <=> p < phraseStart \/ p <= piece.to
  <2> SUFFICES ASSUME NEW p \in Word
               PROVE  p < b + 1 <=> p < s \/ p <= b
    BY <1>1, <1>4
  <2>1. p \in Nat
    BY <1>1, <1>2, TakenBefore
  <2> QED
    BY <1>4, <2>1
<1>8. CutsAfter(piece.to)
  BY <1>1 DEF CutsAfter
<1>9. Packed(Taken)' /\ SceneIsOpen' /\ SegmentsInScene'
  BY <1>1, <1>7, <1>8, CutStep
<1> QED
  BY <1>1, <1>3, <1>6, <1>9 DEF SplitInv

\* What a piece that begins at i begins with.
LEMMA PieceStarts ==
    ASSUME TextFits, NEW p, IsPiece(p), p.from <= p.to
    PROVE  /\ ~Split!Gap(chapterText[p.from])
           /\ p.from = 1 \/ Split!Gap(chapterText[p.from - 1])
           /\ Split!StartsPhrase(p.from)
<1>1. PICK a, N : /\ a = p.from /\ N = Len(chapterText) /\ a \in Nat /\ N \in Nat
                  /\ a \in 1 .. N /\ a \in a .. p.to
  BY DEF TextFits, IsPiece
<1>2. a = 1 \/ Split!EndOfPiece(chapterText[a - 1])
  BY <1>1 DEF IsPiece
<1>3. ~Split!EndOfPiece(chapterText[a])
  BY <1>1 DEF IsPiece
<1>4. chapterText[a] # "space"
  <2> SUFFICES ASSUME chapterText[a] = "space"
               PROVE  FALSE
    OBVIOUS
  <2>1. a > 1 /\ ~Split!Gap(chapterText[a - 1])
    BY <1>1 DEF TextFits, Split!Normal
  <2> QED
    BY <1>1, <1>2, <2>1 DEF Split!Gap, Split!EndOfPiece
<1>5. Split!StartsPhrase(a)
  BY <1>2 DEF Split!StartsPhrase
<1> QED
  BY <1>1, <1>2, <1>3, <1>4, <1>5 DEF Split!Gap, Split!EndOfPiece

LEMMA SamePacking ==
    ASSUME NEW T, Packed(T), UNCHANGED <<chapterText, parts, current, segments>>
    PROVE  Packed(T)'
<1>1. Holds(T)' /\ InOrder'
  BY DEF Packed, Holds, InOrder, Before
<1>2. Units'
  BY UnitsStay DEF Packed, Units
<1> QED
  BY <1>1, <1>2 DEF Packed

\* The next piece is scanned, or the text is at its end.
LEMMA NextPieceStep ==
    ASSUME SplitInv, Split!EndPiece, ~(phraseStart <= piece.to)
    PROVE  SplitInv'
<1>1. /\ piece # <<>> /\ parts = <<>> /\ index > piece.to
      /\ UNCHANGED <<chapterText, parts>>
      /\ IF piece.to + 1 <= Len(chapterText)
         THEN /\ piece' = Split!PieceFrom(piece.to + 2)
              /\ phraseStart' = piece.to + 2 /\ index' = piece.to + 2
         ELSE piece' = <<>> /\ UNCHANGED <<phraseStart, index>>
      /\ IF \/ piece.to + 1 > Len(chapterText)
            \/ chapterText[piece.to + 1] = "break"
         THEN segments' = Split!Flushed /\ current' = {}
         ELSE UNCHANGED <<segments, current>>
  BY DEF Split!EndPiece, Split!Scanning
<1>2. /\ TextFits /\ IsPiece(piece) /\ ScanFits /\ Packed(Taken) /\ SceneIsOpen
  BY <1>1 DEF SplitInv
<1>3. PICK a, b, N, s, x :
         /\ a = piece.from /\ b = piece.to /\ N = Len(chapterText)
         /\ s = phraseStart /\ x = index
         /\ a \in Nat /\ b \in Nat /\ N \in Nat /\ s \in Nat /\ x \in Nat
         /\ a <= s /\ a <= b + 1 /\ s <= x /\ x <= b + 2 /\ s > b /\ b <= N
  BY <1>1, <1>2, ScanNumbers
<1>4. TextFits' /\ Word' = Word
  BY <1>1, <1>2, TextStays
<1>5. \A p \in Word : p \in Nat /\ p <= N /\ p # b + 1
  BY <1>1, <1>2, <1>3, TakenBefore
<1>6. PICK T : T = Taken
  OBVIOUS
<1>7. Packed(T)'
  <2>1. CASE segments' = Split!Flushed /\ current' = {}
    BY <1>1, <1>2, <1>6, <2>1, FlushPacks
  <2>2. CASE UNCHANGED <<segments, current>>
    BY <1>1, <1>2, <1>6, <2>2, SamePacking
  <2> QED
    BY <1>1, <2>1, <2>2
<1>8. SegmentsInScene'
  BY <1>1, <1>3, FlushedInScene
<1>9. CASE piece.to + 1 <= Len(chapterText)
  <2>1. b + 1 <= N /\ b + 2 \in 1 .. N + 1 /\ b # N
    BY <1>3, <1>9
  <2>2. Split!EndOfPiece(chapterText[b + 1])
    BY <1>2, <1>3, <2>1 DEF IsPiece
  <2>3. PICK c : c = b + 2 /\ c \in Nat /\ c - 1 = b + 1
    BY <1>3
  <2>4. /\ piece' = Split!PieceFrom(c) /\ phraseStart' = c /\ index' = c
    BY <1>1, <1>3, <1>9, <2>3
  <2>5. PICK p : p = piece'
    OBVIOUS
  <2>6. IsPiece(p) /\ p.from = c
    BY <1>2, <1>3, <2>1, <2>2, <2>3, <2>4, <2>5, PieceFromIs
  <2>7. piece' # <<>> /\ IsPiece(piece)'
    <3>1. IsPiece(p)' /\ p # <<>>
      BY <1>1, <2>6, TextStays DEF IsPiece
    <3> QED
      BY <2>5, <3>1 DEF IsPiece
  <2>8. ScanFits'
    <3>1. p.to \in Int /\ c <= p.to + 1 /\ p.to <= N
      BY <1>3, <2>3, <2>6 DEF IsPiece
    <3>2. /\ phraseStart' \in piece'.from .. index'
          /\ index' \in piece'.from .. piece'.to + 2
          /\ index' # piece'.to + 2
      BY <2>3, <2>4, <2>5, <2>6, <3>1
    <3>3. \A j : j \notin phraseStart' .. index' - 1
      BY <2>3, <2>4
    <3>4. c <= p.to =>
             /\ ~Split!Gap(chapterText[c])
             /\ c = 1 \/ Split!Gap(chapterText[c - 1])
             /\ Split!StartsPhrase(c)
      BY <1>2, <2>6, PieceStarts
    <3>5. Split!StartsPhrase(c)' = Split!StartsPhrase(c)
      BY <1>1, TextStays
    <3>6. c <= p.to => Split!StartsPhrase(phraseStart)'
      BY <2>4, <3>4, <3>5
    <3> QED
      BY <1>1, <2>4, <2>5, <3>2, <3>3, <3>4, <3>6 DEF ScanFits
  <2>9. Taken' = T
    <3>1. ASSUME NEW q \in Word
          PROVE  q < c <=> q < s
      <4>1. q \in Nat /\ q # b + 1
        BY <1>5
      <4>2. q < s => q < c
        BY <1>3, <2>3, <4>1
      <4>3. q < c => q <= b
        BY <1>3, <2>3, <4>1
      <4> QED
        BY <1>3, <4>1, <4>2, <4>3
    <3> QED
      BY <1>3, <1>4, <1>6, <2>4, <3>1 DEF Taken
  <2>10. SceneIsOpen'
    <3>1. \A n : n \notin DOMAIN parts'
      BY <1>1
    <3>2. CASE current' = {}
      BY <3>1, <3>2 DEF SceneIsOpen
    <3>3. CASE current' # {}
      <4>1. current' = current /\ chapterText[b + 1] # "break"
        BY <1>1, <1>3, <3>3
      <4>2. ASSUME NEW q \in current
            PROVE  NoBreak(q, p.to)
        <5>1. q \in Nat /\ NoBreak(q, b)
          <6>1. q \in Word
            BY <1>2 DEF Packed, Holds, Taken
          <6> QED
            BY <1>2, <1>3, <1>5, <6>1 DEF SceneIsOpen
        <5>2. p.to \in Int
          BY <1>3, <2>3, <2>6 DEF IsPiece
        <5>3. ASSUME NEW k \in q .. p.to, k \notin q .. b, k # b + 1
              PROVE  k \in c .. p.to
          <6>1. k \in Int /\ q <= k /\ k <= p.to
            BY <5>1, <5>2
          <6>2. k > b + 1
            BY <1>3, <5>1, <5>3, <6>1
          <6> QED
            BY <1>3, <2>3, <5>2, <6>1, <6>2
        <5>4. \A k \in c .. p.to : ~Split!EndOfPiece(chapterText[k])
          BY <2>6 DEF IsPiece
        <5> QED
          BY <4>1, <5>1, <5>3, <5>4 DEF NoBreak, Split!EndOfPiece
      <4>3. \A q \in current' : NoBreak(q, p.to)'
        BY <1>1, <4>1, <4>2, TextStays
      <4>4. \A q \in current' : NoBreak(q, piece.to)'
        BY <2>5, <4>3 DEF NoBreak
      <4> QED
        BY <3>1, <4>4 DEF SceneIsOpen
    <3> QED
      BY <3>2, <3>3
  <2>11. Packed(Taken)'
    BY <1>7, <2>9
  <2> QED
    BY <1>4, <1>8, <2>7, <2>8, <2>10, <2>11 DEF SplitInv
<1>10. CASE ~(piece.to + 1 <= Len(chapterText))
  <2>1. b = N /\ piece.to + 1 > Len(chapterText)
    BY <1>3, <1>10
  <2>2. piece' = <<>> /\ current' = {} /\ parts' = <<>>
    BY <1>1, <1>10, <2>1
  <2>3. Word' = T
    <3>1. \A q \in Word : q < s
      BY <1>3, <1>5, <2>1
    <3> QED
      BY <1>3, <1>4, <1>6, <3>1 DEF Taken
  <2>4. Packed(Word)'
    BY <1>7, <2>3
  <2> QED
    BY <1>4, <1>8, <2>2, <2>4 DEF SplitInv
<1> QED
  BY <1>9, <1>10

LEMMA SplitInvInit ==
    ASSUME Init
    PROVE  SplitInv
<1>1. /\ chapterText \in Split!SeqOf(SplitRunes, SplitLength)
      /\ Split!Normal(chapterText)
      /\ piece = Split!PieceFrom(1) /\ phraseStart = 1 /\ index = 1
      /\ parts = <<>> /\ current = {} /\ segments = <<>>
  BY DEF Init, Split!Init
<1>2. TextFits
  <2>1. PICK m \in 0 .. SplitLength : chapterText \in [1 .. m -> SplitRunes]
    BY <1>1 DEF Split!SeqOf
  <2>2. m \in Nat /\ chapterText \in Seq(SplitRunes)
    BY <2>1, BoundsAssumption
  <2> QED
    BY <1>1, <2>2 DEF TextFits
<1>3. IsPiece(piece) /\ piece.from = 1 /\ piece # <<>>
  <2>1. 1 \in 1 .. Len(chapterText) + 1
    BY <1>2 DEF TextFits
  <2>2. IsPiece(Split!PieceFrom(1)) /\ Split!PieceFrom(1).from = 1
    BY <1>2, <2>1, PieceFromIs
  <2> QED
    BY <1>1, <2>2 DEF IsPiece
<1>4. ScanFits
  <2>1. PICK b : b = piece.to /\ b \in Nat
    BY <1>2, <1>3 DEF IsPiece, TextFits
  <2>2. 1 <= b => /\ ~Split!Gap(chapterText[1]) /\ Split!StartsPhrase(1)
    BY <1>2, <1>3, <2>1, PieceStarts
  <2>3. /\ 1 \in 1 .. 1 /\ 1 \in 1 .. b + 2 /\ 1 # b + 2
        /\ \A j : j \notin 1 .. 1 - 1
    BY <2>1
  <2> QED
    BY <1>1, <1>3, <2>1, <2>2, <2>3 DEF ScanFits
<1>5. Taken = {}
  <2>1. 1 \in 1 .. Len(chapterText) + 1 /\ 0 \in 0 .. Len(chapterText)
    BY <1>2 DEF TextFits
  <2>2. \A p \in Word : 1 <= p /\ p \in Nat
    BY <1>2, <2>1, WordsAre
  <2> QED
    BY <1>1, <2>2 DEF Taken
<1>6. Packed(Taken)
  <2>1. DOMAIN segments = {} /\ DOMAIN parts = {}
    BY <1>1
  <2>2. segments \in Seq(SUBSET Nat) /\ parts \in Seq(SUBSET Nat)
    BY <1>1
  <2> QED
    BY <1>1, <1>5, <2>1, <2>2 DEF Packed, Holds, InOrder, Units, Before
<1>7. SegmentsInScene /\ SceneIsOpen
  BY <1>1 DEF SegmentsInScene, SceneIsOpen
<1> QED
  BY <1>2, <1>3, <1>4, <1>6, <1>7 DEF SplitInv

LEMMA SplitInvElse ==
    ASSUME SplitInv, UNCHANGED splitVars
    PROVE  SplitInv'
<1>1. UNCHANGED <<chapterText, piece, phraseStart, index, parts, current, segments>>
  BY DEF splitVars
<1>2. /\ TextFits' = TextFits /\ Word' = Word /\ Taken' = Taken
      /\ SegmentsInScene' = SegmentsInScene
  BY <1>1, TextStays DEF Taken, SegmentsInScene
<1>3. CASE piece = <<>>
  <2>1. PICK T : T = Word
    OBVIOUS
  <2>2. Packed(T)'
    BY <1>1, <1>3, <2>1, SamePacking DEF SplitInv
  <2>3. Packed(Word)'
    BY <1>2, <2>1, <2>2
  <2> QED
    BY <1>1, <1>2, <1>3, <2>3 DEF SplitInv
<1>4. CASE piece # <<>>
  <2>1. PICK T : T = Taken
    OBVIOUS
  <2>2. Packed(T)'
    BY <1>1, <1>4, <2>1, SamePacking DEF SplitInv
  <2>3. Packed(Taken)'
    BY <1>2, <2>1, <2>2
  <2>4. IsPiece(piece)'
    BY <1>1, <1>4 DEF SplitInv, IsPiece
  <2>5. ScanFits'
    <3>1. \A j : Split!EndsPhrase(j)' = Split!EndsPhrase(j)
      BY <1>1 DEF Split!EndsPhrase, Split!IsDecimalPoint, Split!AfterClosing,
                  Split!AfterEnds
    <3>2. \A p : Split!StartsPhrase(p)' = Split!StartsPhrase(p)
      BY <1>1, TextStays
    <3> QED
      BY <1>1, <1>4, <3>1, <3>2 DEF SplitInv, ScanFits
  <2>6. SceneIsOpen'
    BY <1>1, <1>4 DEF SplitInv, SceneIsOpen, NoBreak
  <2> QED
    BY <1>1, <1>2, <1>4, <2>3, <2>4, <2>5, <2>6 DEF SplitInv
<1> QED
  BY <1>3, <1>4

LEMMA SplitInvStep ==
    ASSUME SplitInv, [Next]_vars
    PROVE  SplitInv'
<1>1. UNCHANGED splitVars \/ Split!Next
  BY DEF Next, But, vars
<1>2. CASE UNCHANGED splitVars
  BY <1>2, SplitInvElse
<1>3. CASE Split!Next
  <2>1. CASE Split!ScanRune
    BY <2>1, ScanRuneStep
  <2>2. CASE Split!EndPiece
    BY <2>2, TailStep, NextPieceStep
  <2>3. CASE Split!Pack
    BY <2>3, PackStep
  <2>4. CASE Split!Done
    <3>1. UNCHANGED splitVars
      BY <2>4 DEF Split!Done, Split!vars, splitVars
    <3> QED
      BY <3>1, SplitInvElse
  <2> QED
    BY <1>3, <2>1, <2>2, <2>3, <2>4 DEF Split!Next
<1> QED
  BY <1>1, <1>2, <1>3

\* What the invariant says of the segments.
LEMMA SplitIsSafe ==
    ASSUME SplitInv
    PROVE  SegmentsAreRight
<1>1. /\ \A n \in DOMAIN segments : IsUnit(segments[n])
      /\ \A m, n \in DOMAIN segments : m < n => Before(segments[m], segments[n])
  BY DEF SplitInv, Packed, Units, InOrder
<1>2. Split!NoWordLost
  <2> SUFFICES ASSUME piece = <<>>
               PROVE  /\ UNION Split!ToSet(segments) = Split!Words
                      /\ \A m, n \in DOMAIN segments : m < n =>
                            \A p \in segments[m], q \in segments[n] : p < q
    BY DEF Split!NoWordLost, Split!Finished
  <2>1. /\ \A n \in DOMAIN segments : segments[n] \subseteq Word
        /\ \A p \in Word : \E n \in DOMAIN segments : p \in segments[n]
    BY DEF SplitInv, Packed, Holds
  <2>2. UNION Split!ToSet(segments) = Word
    BY <2>1 DEF Split!ToSet
  <2>3. Word = Split!Words
    BY DEF Word, Split!Words
  <2> QED
    BY <1>1, <2>2, <2>3 DEF Before
<1>3. Split!WithinLimit
  <2> SUFFICES ASSUME NEW n \in DOMAIN segments
               PROVE  Cardinality(segments[n]) \in 1 .. MaxWords
    BY DEF Split!WithinLimit, Split!Cardinality, Cardinality
  <2>1. PICK c : c = Cardinality(segments[n]) /\ c \in Nat /\ c # 0 /\ c <= MaxWords
    BY <1>1, FS_CardinalityType, FS_EmptySet DEF IsUnit
  <2> QED
    BY <2>1, BoundsAssumption
<1>4. Split!SceneBreakSeparates
  BY DEF SplitInv, SegmentsInScene, NoBreak, Split!SceneBreakSeparates
<1>5. Split!SentencesStayWhole
  <2> SUFFICES ASSUME NEW n \in DOMAIN segments,
                      NEW first, first = Split!Min(segments[n])
               PROVE  \/ Split!StartsPhrase(first)
                      \/ Cardinality(Split!PhraseOf(first)) > MaxWords
    BY DEF Split!SentencesStayWhole, Split!Cardinality, Cardinality
  <2>1. first \in segments[n] /\ \A q \in segments[n] : first <= q
    BY <1>1, MinIsFirst DEF IsUnit
  <2> QED
    BY <1>1, <2>1 DEF IsUnit, FirstIsWhole, StartsWhole
<1> QED
  BY <1>2, <1>3, <1>4, <1>5 DEF SegmentsAreRight, Split!SegmentsAreRight

\* Segmenter.Split, of every text and with every word limit, returns the words
\* of the text in their order, in segments that are neither empty nor too
\* long, go across no scene break and begin within a phrase only when that
\* phrase alone exceeds the limit.
THEOREM SegmentsAlwaysRight == Spec => []SegmentsAreRight
<1>1. Init => SplitInv
  BY SplitInvInit
<1>2. SplitInv /\ [Next]_vars => SplitInv'
  BY SplitInvStep
<1>3. SplitInv => SegmentsAreRight
  BY SplitIsSafe
<1> QED
  BY <1>1, <1>2, <1>3, PTL DEF Spec

-----------------------------------------------------------------------------
(* JobListing.                                                             *)

\* The rows of a page that starts at offset o, of n in all.
RowsOf(o, n) == IF o >= n THEN 0 ELSE IF o + Limit <= n THEN Limit ELSE n - o

\* What a request carries once each of its statements has run.
IsRequest(r) ==
    /\ r.pc \in {"sent", "counted", "answered"}
    /\ r = [pc |-> r.pc, filter |-> r.filter, offset |-> r.offset,
            chain |-> r.chain, snapshot |-> r.snapshot, total |-> r.total,
            rows |-> r.rows]
    /\ r.offset \in Nat /\ r.chain \in Nat
    /\ r.pc = "counted" =>
          r.total = Cardinality(Listing!Listed(r.snapshot, r.filter))
    /\ r.pc = "answered" =>
          r.total \in Nat /\ Len(r.rows) = RowsOf(r.offset, r.total)

\* What the page, the request under way and the timers agree on.
ListInv ==
    /\ offset \in Nat /\ total \in Nat /\ token \in Nat
    /\ \A t \in timers : t \in Nat /\ t <= token
    /\ shown.offset \in Nat /\ shown.total \in Nat
    /\ Len(shown.rows) = RowsOf(shown.offset, shown.total)
    /\ request # Listing!NoRequest =>
          IsRequest(request) /\ request.chain <= token
    /\ Listing!CurrentChainLives

\* The jobs a filter lists can be counted.
LEMMA ListedIsFinite ==
    ASSUME NEW rows, NEW f
    PROVE  Cardinality(Listing!Listed(rows, f)) \in Nat
<1>1. Listing!Listed(rows, f) \in SUBSET (1 .. Jobs)
  BY DEF Listing!Listed, Listing!Job
<1>2. IsFiniteSet(1 .. Jobs)
  BY BoundsAssumption, FS_Interval
<1> QED
  BY <1>1, <1>2, FS_Subset, FS_CardinalityType

\* A page is as long as the number of rows says.
LEMMA PageLength ==
    ASSUME NEW rows, NEW f, NEW o \in Nat,
           NEW n, n = Cardinality(Listing!Listed(rows, f))
    PROVE  Len(Listing!PageOf(rows, f, o, Limit)) = RowsOf(o, n)
<1>1. n \in Nat /\ Limit \in Nat /\ Limit > 0
  BY ListedIsFinite, BoundsAssumption
<1>2. PICK last : last = IF o + Limit <= n THEN o + Limit ELSE n
  OBVIOUS
<1>3. PICK F : F = [k \in 1 .. last - o |->
                     CHOOSE j \in Listing!Listed(rows, f) :
                        Cardinality({i \in Listing!Listed(rows, f) : i > j})
                          = o + k - 1]
  OBVIOUS
<1>4. Listing!PageOf(rows, f, o, Limit) = F
  BY <1>2, <1>3 DEF Listing!PageOf, Listing!Cardinality, Cardinality
<1>5. PICK m : m = RowsOf(o, n) /\ m \in Nat /\ 1 .. last - o = 1 .. m
  <2>1. CASE o >= n
    <3>1. RowsOf(o, n) = 0 /\ last <= o /\ last \in Nat
      BY <1>1, <1>2, <2>1 DEF RowsOf
    <3>2. 1 .. last - o = 1 .. 0
      BY <3>1
    <3> QED
      BY <3>1, <3>2
  <2>2. CASE o < n
    BY <1>1, <1>2, <2>2 DEF RowsOf
  <2> QED
    BY <1>1, <2>1, <2>2
<1>6. F \in [1 .. m -> {F[k] : k \in 1 .. m}]
  BY <1>3, <1>5
<1>7. DOMAIN F = 1 .. m /\ F \in Seq({F[k] : k \in 1 .. m})
  BY <1>5, <1>6
<1> QED
  BY <1>4, <1>5, <1>7

LEMMA NoRequestIsNone ==
    ASSUME NEW r, r.pc \in {"sent", "counted", "answered"}
    PROVE  r # Listing!NoRequest
BY DEF Listing!NoRequest

LEMMA SentIsRequest ==
    ASSUME NEW f, NEW o \in Nat, NEW t \in Nat,
           NEW r, r = Listing!Sent(f, o, t)
    PROVE  /\ IsRequest(r) /\ r.chain = t
           /\ r # Listing!NoRequest
BY DEF Listing!Sent, IsRequest, Listing!NoRequest

\* A click begins a chain, whose token no timer and no request has.
LEMMA MonitorStarts ==
    ASSUME ListInv, Listing!StartJobsMonitor, offset' \in Nat,
           UNCHANGED <<total, shown>>
    PROVE  ListInv'
<1>1. token \in Nat /\ token' = token + 1 /\ token' \in Nat
  BY DEF ListInv, Listing!StartJobsMonitor
<1>2. \A t \in timers : t \in Nat /\ t <= token' /\ t # token'
  BY <1>1 DEF ListInv
<1>3. /\ shown'.offset \in Nat /\ shown'.total \in Nat /\ total' \in Nat
      /\ (Len(shown.rows) = RowsOf(shown.offset, shown.total))'
  BY DEF ListInv, RowsOf
<1>4. CASE request = Listing!NoRequest
  <2>1. request' = Listing!Sent(filter', offset', token') /\ timers' = timers
    BY <1>4 DEF Listing!StartJobsMonitor
  <2>2. PICK r : r = request'
    OBVIOUS
  <2>3. IsRequest(r) /\ r.chain = token' /\ r # Listing!NoRequest
    BY <1>1, <2>1, <2>2, SentIsRequest
  <2>4. Listing!CurrentChainLives'
    BY <1>2, <2>1, <2>2, <2>3 DEF Listing!CurrentChainLives, Listing!NoRequest
  <2>5. IsRequest(request)' /\ request'.chain <= token'
    BY <1>1, <2>2, <2>3 DEF IsRequest, RowsOf, Listing!Listed, Listing!Job,
                            Listing!StatusesOf
  <2> QED
    BY <1>1, <1>2, <1>3, <2>1, <2>4, <2>5 DEF ListInv
<1>5. CASE request # Listing!NoRequest
  <2>1. request' = request /\ timers' = timers \cup {token'}
    BY <1>5 DEF Listing!StartJobsMonitor
  <2>2. IsRequest(request) /\ request.chain <= token
    BY <1>5 DEF ListInv
  <2>3. request.chain \in Nat /\ request.chain <= token'
        /\ request.chain # token'
    BY <1>1, <2>2 DEF IsRequest
  <2>4. Listing!CurrentChainLives'
    BY <2>1, <2>3 DEF Listing!CurrentChainLives
  <2>5. IsRequest(request)' /\ request'.chain <= token'
    BY <2>1, <2>2, <2>3 DEF IsRequest, RowsOf, Listing!Listed, Listing!Job,
                            Listing!StatusesOf
  <2>6. \A t \in timers' : t \in Nat /\ t <= token'
    BY <1>1, <1>2, <2>1
  <2> QED
    BY <1>1, <1>3, <2>4, <2>5, <2>6 DEF ListInv
<1> QED
  BY <1>4, <1>5

LEMMA ListInvInit ==
    ASSUME Init
    PROVE  ListInv
<1>1. /\ offset = 0 /\ total = 0 /\ token = 1 /\ timers = {}
      /\ request = Listing!Sent("active", 0, 1)
      /\ shown = [filter |-> "active", offset |-> 0, total |-> 0, rows |-> <<>>]
  BY DEF Init, Listing!Init
<1>2. IsRequest(request) /\ request.chain = 1 /\ request # Listing!NoRequest
  BY <1>1, SentIsRequest
<1>3. Len(shown.rows) = RowsOf(shown.offset, shown.total)
  BY <1>1 DEF RowsOf
<1>4. Listing!CurrentChainLives
  BY <1>1, <1>2 DEF Listing!CurrentChainLives
<1> QED
  BY <1>1, <1>2, <1>3, <1>4 DEF ListInv

\* A request that goes on is of the chain it was of.
LEMMA SameChain ==
    ASSUME ListInv, request # Listing!NoRequest,
           UNCHANGED <<offset, total, token, timers, shown>>,
           NEW r, r = request', IsRequest(r), r # Listing!NoRequest,
           r.chain = request.chain
    PROVE  ListInv'
<1>1. IsRequest(request)' /\ request'.chain <= token'
  BY DEF ListInv, IsRequest, RowsOf, Listing!Listed, Listing!Job,
         Listing!StatusesOf
<1>2. Listing!CurrentChainLives'
  BY DEF ListInv, Listing!CurrentChainLives, Listing!NoRequest
<1> QED
  BY <1>1, <1>2 DEF ListInv, RowsOf

\* The count of the snapshot is the total its rows will be shown with.
LEMMA CountJobsStep ==
    ASSUME ListInv, Listing!CountJobs
    PROVE  ListInv'
<1>1. /\ request.pc = "sent"
      /\ request' = [request EXCEPT
            !.pc = "counted", !.snapshot = table,
            !.total = Listing!Cardinality(Listing!Listed(table, request.filter))]
      /\ UNCHANGED <<offset, total, token, timers, shown>>
  BY DEF Listing!CountJobs, Listing!uiVars
<1>2. IsRequest(request) /\ request # Listing!NoRequest
  BY <1>1, NoRequestIsNone DEF ListInv
<1>3. PICK n : n = Cardinality(Listing!Listed(table, request.filter))
  OBVIOUS
<1>4. request' = [request EXCEPT !.pc = "counted", !.snapshot = table,
                                 !.total = n]
  BY <1>1, <1>3 DEF Listing!Cardinality, Cardinality
<1>5. PICK r : r = request'
  OBVIOUS
<1>6. /\ r.pc = "counted" /\ r.snapshot = table /\ r.total = n
      /\ r.filter = request.filter /\ r.offset = request.offset
      /\ r.chain = request.chain /\ r.rows = request.rows
      /\ r = [pc |-> r.pc, filter |-> r.filter, offset |-> r.offset,
              chain |-> r.chain, snapshot |-> r.snapshot, total |-> r.total,
              rows |-> r.rows]
  BY <1>2, <1>4, <1>5 DEF IsRequest
<1>7. IsRequest(r) /\ r # Listing!NoRequest
  BY <1>2, <1>3, <1>6, NoRequestIsNone DEF IsRequest
<1> QED
  BY <1>1, <1>2, <1>5, <1>6, <1>7, SameChain

\* The rows are read from the snapshot that was counted.
LEMMA ListRowsStep ==
    ASSUME ListInv, Listing!ListRows
    PROVE  ListInv'
<1>1. /\ request.pc = "counted"
      /\ request' = [request EXCEPT
            !.pc = "answered", !.snapshot = <<>>,
            !.rows = Listing!PageOf(request.snapshot, request.filter,
                                    request.offset, Limit)]
      /\ UNCHANGED <<offset, total, token, timers, shown>>
  BY DEF Listing!ListRows, Listing!uiVars
<1>2. IsRequest(request) /\ request # Listing!NoRequest
  BY <1>1, NoRequestIsNone DEF ListInv
<1>3. PICK page : page = Listing!PageOf(request.snapshot, request.filter,
                                        request.offset, Limit)
  OBVIOUS
<1>4. Len(page) = RowsOf(request.offset, request.total) /\ request.total \in Nat
  BY <1>1, <1>2, <1>3, PageLength, ListedIsFinite DEF IsRequest
<1>5. PICK r : r = request'
  OBVIOUS
<1>6. /\ r.pc = "answered" /\ r.total = request.total /\ r.rows = page
      /\ r.filter = request.filter /\ r.offset = request.offset
      /\ r.chain = request.chain
      /\ r = [pc |-> r.pc, filter |-> r.filter, offset |-> r.offset,
              chain |-> r.chain, snapshot |-> r.snapshot, total |-> r.total,
              rows |-> r.rows]
  BY <1>1, <1>2, <1>3, <1>5 DEF IsRequest
<1>7. IsRequest(r) /\ r # Listing!NoRequest
  BY <1>2, <1>4, <1>6, NoRequestIsNone DEF IsRequest
<1> QED
  BY <1>1, <1>2, <1>5, <1>6, <1>7, SameChain

\* An answer or an error ends the request and gives the chain its timer.
LEMMA EndStep ==
    ASSUME ListInv, request # Listing!NoRequest, Listing!Ended,
           UNCHANGED token, offset' \in Nat, total' \in Nat,
           \/ shown' = shown
           \/ /\ shown'.offset \in Nat /\ shown'.total \in Nat
              /\ Len(shown'.rows) = RowsOf(shown'.offset, shown'.total)
    PROVE  ListInv'
<1>1. request' = Listing!NoRequest
      /\ timers' = timers \cup ({request.chain} \cap {token})
  BY DEF Listing!Ended
<1>2. (\A t \in timers' : t \in Nat /\ t <= token) /\ token \in timers'
  BY <1>1 DEF ListInv, Listing!CurrentChainLives
<1>3. Listing!CurrentChainLives'
  BY <1>1, <1>2 DEF Listing!CurrentChainLives, Listing!NoRequest
<1>4. Len(shown'.rows) = RowsOf(shown'.offset, shown'.total)
      /\ shown'.offset \in Nat /\ shown'.total \in Nat
  BY DEF ListInv
<1>5. request' = (Listing!NoRequest)' /\ token' \in Nat
  BY <1>1 DEF Listing!NoRequest, ListInv
<1> QED
  BY <1>2, <1>3, <1>4, <1>5 DEF ListInv, RowsOf

\* An answer is shown, or dropped when the page it is for is not asked for.
LEMMA AnswerStep ==
    ASSUME ListInv, Listing!Answer
    PROVE  ListInv'
<1>1. /\ request.pc = "answered" /\ Listing!Ended /\ UNCHANGED token
      /\ \/ UNCHANGED <<offset, total, shown>>
         \/ /\ total' = request.total /\ UNCHANGED shown /\ request.total > 0
            /\ offset' = Listing!LastPage(request.total)
         \/ /\ total' = request.total /\ shown' = Listing!Shown
            /\ UNCHANGED offset
  BY DEF Listing!Answer
<1>2. IsRequest(request) /\ request # Listing!NoRequest
  BY <1>1, NoRequestIsNone DEF ListInv
<1>3. /\ request.total \in Nat /\ request.offset \in Nat
      /\ Len(request.rows) = RowsOf(request.offset, request.total)
  BY <1>1, <1>2 DEF IsRequest
<1>4. request.total > 0 => Listing!LastPage(request.total) \in Nat
  <2> SUFFICES ASSUME request.total > 0
               PROVE  Listing!LastPage(request.total) \in Nat
    OBVIOUS
  <2>1. PICK m : m = request.total - 1 /\ m \in Nat
    BY <1>3
  <2>2. Limit \in Nat /\ Limit > 0
    BY BoundsAssumption
  <2>3. PICK d : d = m \div Limit /\ d \in Nat
    BY <2>1, <2>2
  <2> QED
    BY <2>1, <2>2, <2>3 DEF Listing!LastPage
<1>5. CASE UNCHANGED <<offset, total, shown>>
  BY <1>1, <1>2, <1>5, EndStep DEF ListInv
<1>6. CASE /\ total' = request.total /\ UNCHANGED shown /\ request.total > 0
           /\ offset' = Listing!LastPage(request.total)
  BY <1>1, <1>2, <1>3, <1>4, <1>6, EndStep
<1>7. CASE /\ total' = request.total /\ shown' = Listing!Shown
           /\ UNCHANGED offset
  <2>1. /\ shown'.offset = request.offset /\ shown'.total = request.total
        /\ shown'.rows = request.rows
    BY <1>7 DEF Listing!Shown
  <2>2. offset' \in Nat /\ total' \in Nat
    BY <1>3, <1>7 DEF ListInv
  <2> QED
    BY <1>1, <1>2, <1>3, <2>1, <2>2, EndStep
<1> QED
  BY <1>1, <1>5, <1>6, <1>7

\* A timer of the current chain polls; that of another one ends it.
LEMMA PollStep ==
    ASSUME ListInv, NEW t \in timers, Listing!Poll(t)
    PROVE  ListInv'
<1>1. /\ timers' = timers \ {t} /\ UNCHANGED <<offset, total, token, shown>>
      /\ IF t = token
         THEN /\ request = Listing!NoRequest
              /\ request' = Listing!Sent(filter, offset, t)
         ELSE UNCHANGED request
  BY DEF Listing!Poll
<1>2. /\ offset \in Nat /\ t \in Nat
      /\ \A i \in timers' : i \in Nat /\ i <= token'
  BY <1>1 DEF ListInv
<1>3. CASE t = token
  <2>1. PICK r : r = request'
    OBVIOUS
  <2>2. IsRequest(r) /\ r.chain = t /\ r # Listing!NoRequest
    BY <1>1, <1>2, <1>3, <2>1, SentIsRequest
  <2>3. Listing!CurrentChainLives'
    BY <1>1, <1>3, <2>1, <2>2 DEF Listing!CurrentChainLives, Listing!NoRequest
  <2>4. IsRequest(request)' /\ request'.chain <= token'
    BY <1>1, <1>2, <1>3, <2>1, <2>2 DEF IsRequest, RowsOf, Listing!Listed,
                                       Listing!Job, Listing!StatusesOf
  <2> QED
    BY <1>1, <1>2, <2>3, <2>4 DEF ListInv, RowsOf
<1>4. CASE t # token
  <2>1. Listing!CurrentChainLives'
    BY <1>1, <1>4 DEF ListInv, Listing!CurrentChainLives, Listing!NoRequest
  <2>2. request' # (Listing!NoRequest)' =>
           IsRequest(request)' /\ request'.chain <= token'
    BY <1>1, <1>4 DEF ListInv, IsRequest, RowsOf, Listing!NoRequest,
                      Listing!Listed, Listing!Job, Listing!StatusesOf
  <2> QED
    BY <1>1, <1>2, <2>1, <2>2 DEF ListInv, RowsOf
<1> QED
  BY <1>3, <1>4

LEMMA SameList ==
    ASSUME ListInv, UNCHANGED <<offset, total, token, timers, request, shown>>
    PROVE  ListInv'
BY DEF ListInv, IsRequest, RowsOf, Listing!CurrentChainLives,
       Listing!NoRequest, Listing!Listed, Listing!Job, Listing!StatusesOf

LEMMA ListInvStep ==
    ASSUME ListInv, [Next]_vars
    PROVE  ListInv'
<1>1. UNCHANGED listingVars \/ Listing!Next
  BY DEF Next, But, vars
<1>2. CASE UNCHANGED listingVars
  BY <1>2, SameList DEF listingVars
<1>3. ASSUME NEW t \in timers, Listing!Poll(t)
      PROVE  ListInv'
  BY <1>3, PollStep
<1>4. CASE Listing!CountJobs
  BY <1>4, CountJobsStep
<1>5. CASE Listing!ListRows
  BY <1>5, ListRowsStep
<1>6. CASE Listing!Answer
  BY <1>6, AnswerStep
<1>7. CASE Listing!Commit
  BY <1>7, SameList DEF Listing!Commit, Listing!uiVars
<1>8. CASE Listing!AnswerFails
  <2>1. /\ request # Listing!NoRequest /\ Listing!Ended
        /\ UNCHANGED <<offset, total, token, shown>>
    BY <1>8 DEF Listing!AnswerFails
  <2> QED
    BY <2>1, EndStep DEF ListInv
<1>9. CASE Listing!SelectFilter
  <2>1. offset' = 0 /\ Listing!StartJobsMonitor /\ UNCHANGED <<total, shown>>
    BY <1>9 DEF Listing!SelectFilter
  <2> QED
    BY <2>1, MonitorStarts
<1>10. CASE Listing!PreviousPage
  <2>1. /\ offset' = (IF offset > Limit THEN offset - Limit ELSE 0)
        /\ Listing!StartJobsMonitor /\ UNCHANGED <<total, shown>>
    BY <1>10 DEF Listing!PreviousPage
  <2>2. Limit \in Nat /\ offset \in Nat
    BY BoundsAssumption DEF ListInv
  <2>3. offset' \in Nat
    BY <2>1, <2>2
  <2> QED
    BY <2>1, <2>3, MonitorStarts
<1>11. CASE Listing!NextPage
  <2>1. /\ offset' = offset + Limit
        /\ Listing!StartJobsMonitor /\ UNCHANGED <<total, shown>>
    BY <1>11 DEF Listing!NextPage
  <2>2. Limit \in Nat /\ offset \in Nat
    BY BoundsAssumption DEF ListInv
  <2>3. offset' \in Nat
    BY <2>1, <2>2
  <2> QED
    BY <2>1, <2>3, MonitorStarts
<1>12. CASE Listing!Refresh
  <2>1. Listing!StartJobsMonitor /\ UNCHANGED <<offset, total, shown>>
    BY <1>12 DEF Listing!Refresh
  <2> QED
    BY <2>1, MonitorStarts DEF ListInv
<1> QED
  BY <1>1, <1>2, <1>3, <1>4, <1>5, <1>6, <1>7, <1>8, <1>9, <1>10, <1>11, <1>12
  DEF Listing!Next, Listing!System

\* However its filter and its pages are clicked, the page of jobs is polled on:
\* its current chain has a timer or a request, and not both; and the rows it
\* shows are as many as its total says, whatever commits between the two
\* statements of a request.
THEOREM ListAlwaysConsistent == Spec => []ListIsConsistent
<1>1. Init => ListInv
  BY ListInvInit
<1>2. ListInv /\ [Next]_vars => ListInv'
  BY ListInvStep
<1>3. ListInv => ListIsConsistent
  <2>1. ListInv => Listing!PageMatchesTotal
    BY DEF ListInv, RowsOf, Listing!PageMatchesTotal
  <2> QED
    BY <2>1 DEF ListInv, ListIsConsistent, Listing!ListIsConsistent
<1> QED
  BY <1>1, <1>2, <1>3, PTL DEF Spec

\* The list is replaced by what was asked for with the filter and the page
\* that are selected, never by an answer that comes after another choice.
THEOREM OnlyAskedAlwaysShown == Spec => Listing!OnlyAskedIsShown
<1>1. [Next]_vars => [Listing!ShowsOnlyAsked]_(Listing!vars)
  <2> SUFFICES ASSUME [Next]_vars, shown' # shown
               PROVE  shown'.filter = filter /\ shown'.offset = offset
    BY DEF Listing!ShowsOnlyAsked
  <2>1. Listing!Next
    BY DEF Next, But, vars, listingVars
  <2>2. Listing!Answer
    BY <2>1 DEF Listing!Next, Listing!System, Listing!Poll, Listing!CountJobs,
                Listing!ListRows, Listing!Commit, Listing!AnswerFails,
                Listing!SelectFilter, Listing!PreviousPage, Listing!NextPage,
                Listing!Refresh
  <2>3. shown' = Listing!Shown /\ Listing!Asked
    BY <2>2 DEF Listing!Answer
  <2> QED
    BY <2>3 DEF Listing!Shown, Listing!Asked
<1> QED
  BY <1>1, PTL DEF Spec, Listing!OnlyAskedIsShown

\* However many chains still have a timer or a request, only the one begun last
\* sends another request.
THEOREM OneChainAlwaysPolls == Spec => Listing!OneChainPolls
<1>1. [Next]_vars => [Listing!PollsInCurrentChain]_(Listing!vars)
  <2> SUFFICES ASSUME [Next]_vars,
                      request = Listing!NoRequest, request' # Listing!NoRequest
               PROVE  request'.chain = token'
    BY DEF Listing!PollsInCurrentChain
  <2>1. Listing!Next
    BY DEF Next, But, vars, listingVars
  <2>2. ~Listing!CountJobs /\ ~Listing!ListRows /\ ~Listing!Answer
    BY NoRequestIsNone
    DEF Listing!CountJobs, Listing!ListRows, Listing!Answer
  <2>3. ~Listing!Commit /\ ~Listing!AnswerFails
    BY DEF Listing!Commit, Listing!AnswerFails
  <2>4. CASE Listing!StartJobsMonitor
    BY <2>4 DEF Listing!StartJobsMonitor, Listing!Sent
  <2>5. ASSUME NEW t \in timers, Listing!Poll(t)
        PROVE  request'.chain = token'
    BY <2>5 DEF Listing!Poll, Listing!Sent
  <2> QED
    BY <2>1, <2>2, <2>3, <2>4, <2>5
    DEF Listing!Next, Listing!System, Listing!SelectFilter,
        Listing!PreviousPage, Listing!NextPage, Listing!Refresh
<1> QED
  BY <1>1, PTL DEF Spec, Listing!OneChainPolls

-----------------------------------------------------------------------------
(* WorkerSeeds.                                                            *)

\* The seeds of the attempts of this series that ended are in usedSeeds.
SeedsInv ==
    /\ tried \in Seq(Seeds!Seed)
    /\ at # "done" => \A n \in DOMAIN tried :
          tried[n] \in used \/ (at = "attempt" /\ tried[n] = seed)
    /\ at \in {"search", "attempt"} => seed \in Seeds!Seed
    /\ Seeds!SeedsDiffer

LEMMA SeedsInvStep ==
    ASSUME SeedsInv, [Next]_vars
    PROVE  SeedsInv'
<1>1. UNCHANGED seedsVars \/ Seeds!Next
  BY DEF Next, But, vars
<1>2. PICK S : S = Seeds!Seed /\ Seeds!Seed' = S
  BY DEF Seeds!Seed
<1>3. tried \in Seq(S) /\ (at \in {"search", "attempt"} => seed \in S)
  BY <1>2 DEF SeedsInv
<1>4. CASE UNCHANGED seedsVars
  BY <1>2, <1>4 DEF SeedsInv, seedsVars, Seeds!SeedsDiffer
<1>5. CASE Seeds!Draw
  <2>1. /\ at = "draw" /\ UNCHANGED <<used, tried>>
        /\ (seed' \in S /\ at' = "search") \/ at' = "done"
    BY <1>2, <1>5 DEF Seeds!Draw
  <2> QED
    BY <1>2, <2>1 DEF SeedsInv, Seeds!SeedsDiffer
<1>6. CASE Seeds!Search /\ seed \in used
  <2>1. /\ at = "search" /\ at' = "search" /\ UNCHANGED <<used, tried>>
        /\ seed' = (seed + 1) % 2 ^ Bits
    BY <1>6 DEF Seeds!Search
  <2>2. seed' \in S
    <3>1. PICK w : w = 2 ^ Bits
      OBVIOUS
    <3>2. S = 0 .. w - 1
      BY <1>2, <3>1 DEF Seeds!Seed
    <3>5. seed \in 0 .. w - 1
      BY <1>3, <2>1, <3>2
    <3>6. Bits \in Nat
      BY BoundsAssumption
    <3>7. w \in Int
      BY <3>1, <3>6
    <3>3. w \in Int /\ seed \in Int /\ w > 0
      BY <3>5, <3>7
    <3>4. (seed + 1) % w \in 0 .. w - 1
      BY <3>3
    <3> QED
      BY <2>1, <3>1, <3>2, <3>4
  <2> QED
    BY <1>2, <2>1, <2>2 DEF SeedsInv, Seeds!SeedsDiffer
<1>7. CASE Seeds!Search /\ seed \notin used
  <2>1. /\ at = "search" /\ at' = "attempt" /\ tried' = Append(tried, seed)
        /\ UNCHANGED <<used, seed>>
    BY <1>7 DEF Seeds!Search
  <2>2. PICK L : L = Len(tried) /\ L \in Nat /\ DOMAIN tried = 1 .. L
    BY <1>3
  <2>3. /\ tried' \in Seq(S) /\ DOMAIN tried' = 1 .. L + 1
        /\ \A n \in 1 .. L : tried'[n] = tried[n]
        /\ tried'[L + 1] = seed
    BY <1>3, <2>1, <2>2
  <2>4. \A n \in DOMAIN tried' : \/ n \in DOMAIN tried /\ tried'[n] = tried[n]
                                 \/ n = L + 1 /\ tried'[n] = seed
    BY <2>2, <2>3
  <2>5. \A n \in DOMAIN tried : tried[n] \in used /\ tried[n] # seed
    BY <1>7, <2>1 DEF SeedsInv
  <2>6. Seeds!SeedsDiffer'
    <3>1. \A m, n \in DOMAIN tried : m # n => tried[m] # tried[n]
      BY DEF SeedsInv, Seeds!SeedsDiffer
    <3>2. \A m, n \in DOMAIN tried' : m # n => tried'[m] # tried'[n]
      BY <2>4, <2>5, <3>1
    <3> QED
      BY <3>2 DEF Seeds!SeedsDiffer
  <2>7. \A n \in DOMAIN tried' : tried'[n] \in used \/ tried'[n] = seed
    BY <2>4, <2>5
  <2> QED
    BY <1>2, <1>3, <2>1, <2>3, <2>6, <2>7 DEF SeedsInv
<1>8. CASE Seeds!Retry
  <2>1. /\ at = "attempt" /\ at' = "draw" /\ used' = used \cup {seed}
        /\ UNCHANGED <<seed, tried>>
    BY <1>8 DEF Seeds!Retry
  <2> QED
    BY <1>2, <2>1 DEF SeedsInv, Seeds!SeedsDiffer
<1>9. CASE Seeds!End
  <2>1. at' = "done" /\ UNCHANGED tried
    BY <1>9 DEF Seeds!End
  <2> QED
    BY <1>2, <2>1 DEF SeedsInv, Seeds!SeedsDiffer
<1>10. CASE Seeds!ProcessFragment
  <2>1. at' = "draw" /\ tried' = <<>> /\ DOMAIN tried' = {}
    BY <1>10 DEF Seeds!ProcessFragment
  <2> QED
    BY <2>1 DEF SeedsInv, Seeds!SeedsDiffer
<1> QED
  BY <1>1, <1>4, <1>5, <1>6, <1>7, <1>8, <1>9, <1>10 DEF Seeds!Next

\* No two attempts of one series, the first and its automatic retries, are made
\* with one seed, whatever is drawn, wherever the search for a free one wraps
\* around, and however many series a fragment had before.
THEOREM SeedsAlwaysDiffer == Spec => []Seeds!SeedsDiffer
<1>1. Init => SeedsInv
  <2> SUFFICES ASSUME Init
               PROVE  SeedsInv
    OBVIOUS
  <2>1. tried = <<>> /\ at = "draw"
    BY DEF Init, Seeds!Init
  <2> QED
    BY <2>1 DEF SeedsInv, Seeds!SeedsDiffer
<1>2. SeedsInv /\ [Next]_vars => SeedsInv'
  BY SeedsInvStep
<1>3. SeedsInv => Seeds!SeedsDiffer
  BY DEF SeedsInv
<1> QED
  BY <1>1, <1>2, <1>3, PTL DEF Spec

-----------------------------------------------------------------------------
(* BookReader: the stack of sections.                                      *)

OpenName == Reader!Element \cup {"root"}
OpenSection == [depth : Nat, node : Nat]

\* The first body is the second element while it is open, and sections count
\* only inside it.
ReaderInv ==
    /\ elements \in Seq(OpenName) /\ elements # <<>>
    /\ sections \in Seq(OpenSection) /\ nodes \in Nat
    /\ activeDepth \in {0, 2}
    /\ activeDepth = 0 => sections = <<>>
    /\ activeDepth = 2 => Len(elements) >= 2 /\ elements[2] = "body"
    /\ Reader!SectionsAreOpen

\* The lengths of both stacks, and what the invariant says in terms of them.
LEMMA ReaderNumbers ==
    ASSUME ReaderInv
    PROVE  \E d, k \in Nat :
              /\ d = Len(elements) /\ d = Reader!Depth /\ d >= 1
              /\ k = Len(sections)
              /\ DOMAIN elements = 1 .. d /\ DOMAIN sections = 1 .. k
              /\ Reader!Last(elements) = elements[d]
              /\ Reader!Last(sections) = sections[k]
              /\ k > 0 => sections[k].depth = k + 2 /\ k + 2 <= d
                          /\ elements[k + 2] = "section"
              /\ \A n \in 1 .. k : sections[n].depth = n + 2 /\ n + 2 <= d
                                   /\ elements[n + 2] = "section"
              /\ activeDepth = 2 /\ d >= k + 3 => elements[k + 3] # "section"
              /\ sections = <<>> <=> k = 0
<1>1. /\ elements \in Seq(OpenName) /\ elements # <<>>
      /\ sections \in Seq(OpenSection)
  BY DEF ReaderInv
<1>2. PICK d, k : d = Len(elements) /\ k = Len(sections)
  OBVIOUS
<1>3. /\ d \in Nat /\ k \in Nat /\ d >= 1
      /\ DOMAIN elements = 1 .. d /\ DOMAIN sections = 1 .. k
      /\ sections = <<>> <=> k = 0
  BY <1>1, <1>2
<1>4. /\ \A n \in 1 .. k : sections[n].depth = n + 2 /\ n + 2 <= d
                           /\ elements[n + 2] = "section"
      /\ activeDepth = 2 /\ d >= k + 3 => elements[k + 3] # "section"
  BY <1>2, <1>3 DEF ReaderInv, Reader!SectionsAreOpen, Reader!Depth
<1>5. k > 0 => k \in 1 .. k
  BY <1>3
<1>6. /\ d = Reader!Depth
      /\ Reader!Last(elements) = elements[d]
      /\ Reader!Last(sections) = sections[k]
  BY <1>2 DEF Reader!Depth, Reader!Last
<1> QED
  BY <1>2, <1>3, <1>4, <1>5, <1>6

\* An element begins; only a section at the next depth is pushed.
LEMMA ReaderStarts ==
    ASSUME ReaderInv, NEW name \in Reader!Element, Reader!Start(name)
    PROVE  ReaderInv'
<1>1. PICK d, k \in Nat :
         /\ d = Len(elements) /\ d = Reader!Depth /\ d >= 1
         /\ k = Len(sections)
         /\ DOMAIN elements = 1 .. d /\ DOMAIN sections = 1 .. k
         /\ Reader!Last(elements) = elements[d]
         /\ Reader!Last(sections) = sections[k]
         /\ k > 0 => sections[k].depth = k + 2 /\ k + 2 <= d
                     /\ elements[k + 2] = "section"
         /\ \A n \in 1 .. k : sections[n].depth = n + 2 /\ n + 2 <= d
                              /\ elements[n + 2] = "section"
         /\ activeDepth = 2 /\ d >= k + 3 => elements[k + 3] # "section"
         /\ sections = <<>> <=> k = 0
  BY ReaderNumbers
<1>2. /\ elements \in Seq(OpenName) /\ sections \in Seq(OpenSection)
      /\ nodes \in Nat /\ activeDepth \in {0, 2}
      /\ activeDepth = 0 => sections = <<>>
      /\ activeDepth = 2 => d >= 2 /\ elements[2] = "body"
  BY <1>1 DEF ReaderInv
<1>3. /\ elements' = Append(elements, name) /\ name \in OpenName
  <2>1. elements' = Append(elements, name)
    BY DEF Reader!Start
  <2> QED
    BY <2>1 DEF OpenName
<1>4. /\ elements' \in Seq(OpenName) /\ elements' # <<>> /\ Len(elements') = d + 1
      /\ \A i \in 1 .. d : elements'[i] = elements[i]
      /\ elements'[d + 1] = name
  BY <1>1, <1>2, <1>3
<1>5. /\ Len(elements') >= 2
      /\ activeDepth = 2 => elements'[2] = "body"
      /\ \A n \in 1 .. k : n + 2 <= d + 1 /\ elements'[n + 2] = "section"
  <2>1. Len(elements') >= 2
    BY <1>1, <1>4
  <2>2. activeDepth = 2 => 2 \in 1 .. d
    BY <1>2
  <2>3. \A n \in 1 .. k : n + 2 \in 1 .. d /\ n + 2 <= d + 1
    BY <1>1
  <2> QED
    BY <1>1, <1>2, <1>4, <2>1, <2>2, <2>3
<1>6. CASE name = "body" /\ d + 1 = 2
  <2>1. activeDepth = 0 /\ sections = <<>>
    BY <1>1, <1>2, <1>6
  <2>2. /\ UNCHANGED <<sections, nodes>>
        /\ activeDepth' = activeDepth \/ activeDepth' = 2
    BY <1>1, <1>6 DEF Reader!Start, Reader!StartBody
  <2>3. elements'[2] = "body" /\ k = 0 /\ Len(elements') = 2
    BY <1>1, <1>4, <1>6, <2>1
  <2>4. Reader!SectionsAreOpen'
    <3>1. /\ sections' = <<>> /\ Len(sections') = 0 /\ Len(elements') = 2
          /\ DOMAIN sections' = {}
      BY <2>1, <2>2, <2>3
    <3> QED
      BY <3>1 DEF Reader!SectionsAreOpen, Reader!Depth
  <2> QED
    BY <1>2, <1>4, <1>5, <2>1, <2>2, <2>3, <2>4 DEF ReaderInv
<1>7. CASE ~(name = "body" /\ d + 1 = 2) /\ activeDepth = 0
  <2>1. UNCHANGED <<sections, nodes, activeDepth>>
    BY <1>1, <1>7 DEF Reader!Start, Reader!bodyVars
  <2>2. Reader!SectionsAreOpen'
    <3>1. sections' = <<>> /\ activeDepth' = 0 /\ DOMAIN sections' = {}
      BY <1>2, <1>7, <2>1
    <3> QED
      BY <3>1 DEF Reader!SectionsAreOpen
  <2> QED
    BY <1>2, <1>4, <1>7, <2>1, <2>2 DEF ReaderInv
<1>8. CASE /\ ~(name = "body" /\ d + 1 = 2) /\ activeDepth = 2
           /\ name = "section" /\ Reader!IsDirectSection(elements[d], d + 1)
  <2>1. Reader!StartSection(d + 1)
    BY <1>1, <1>8 DEF Reader!Start
  <2>2. PICK s : s = [depth |-> d + 1, node |-> nodes + 1]
    OBVIOUS
  <2>3. s \in OpenSection /\ s.depth = d + 1
    <3>1. d + 1 \in Nat /\ nodes + 1 \in Nat
      BY <1>2
    <3> QED
      BY <2>2, <3>1 DEF OpenSection
  <2>4. /\ sections' = Append(sections, s) /\ nodes' = nodes + 1
        /\ UNCHANGED activeDepth
    BY <2>1, <2>2 DEF Reader!StartSection
  <2>5. d = k + 2
    <3>1. CASE elements[d] = "body" /\ d + 1 = activeDepth + 1
      <4>1. d = 2
        BY <1>8, <3>1
      <4>2. k = 0
        BY <1>1, <4>1
      <4> QED
        BY <4>1, <4>2
    <3>2. CASE sections # <<>> /\ sections[k].depth = d
      BY <1>1, <3>2
    <3>3. d + 1 - 1 = d
      OBVIOUS
    <3> QED
      BY <1>1, <1>8, <3>1, <3>2, <3>3
      DEF Reader!IsDirectSection, Reader!IsCurrentSectionParent
  <2>6. /\ sections' \in Seq(OpenSection) /\ Len(sections') = k + 1
        /\ \A n \in 1 .. k : sections'[n] = sections[n]
        /\ sections'[k + 1] = s /\ DOMAIN sections' = 1 .. k + 1
    BY <1>1, <1>2, <2>3, <2>4
  <2>7. Reader!SectionsAreOpen'
    <3>1. ASSUME NEW n \in 1 .. k + 1
          PROVE  sections'[n].depth = n + 2 /\ n + 2 <= d + 1
                 /\ elements'[n + 2] = "section"
      <4>1. CASE n \in 1 .. k
        BY <1>1, <1>5, <2>6, <4>1
      <4>2. CASE n = k + 1
        BY <1>4, <1>8, <2>3, <2>5, <2>6, <4>2
      <4> QED
        BY <4>1, <4>2
    <3>2. ~(d + 1 >= k + 1 + 3)
      BY <2>5
    <3> QED
      BY <1>4, <2>6, <3>1, <3>2 DEF Reader!SectionsAreOpen, Reader!Depth
  <2>8. nodes' \in Nat /\ activeDepth' = 2
    BY <1>2, <1>8, <2>4
  <2> QED
    BY <1>2, <1>4, <1>5, <1>8, <2>6, <2>7, <2>8 DEF ReaderInv
<1>9. CASE /\ ~(name = "body" /\ d + 1 = 2) /\ activeDepth = 2
           /\ ~(name = "section" /\ Reader!IsDirectSection(elements[d], d + 1))
  <2>1. UNCHANGED <<sections, nodes, activeDepth>>
    BY <1>1, <1>9 DEF Reader!Start, Reader!StartBlock
  <2>2. ASSUME d + 1 >= k + 3
        PROVE  elements'[k + 3] # "section"
    <3>1. CASE d >= k + 3
      BY <1>1, <1>4, <1>9, <3>1
    <3>2. CASE d = k + 2
      <4>1. Reader!IsDirectSection(elements[d], d + 1)
        <5>1. CASE k = 0
          BY <1>2, <1>9, <3>2, <5>1 DEF Reader!IsDirectSection
        <5>2. CASE k # 0
          <6>1. elements[d] = "section" /\ sections # <<>> /\ sections[k].depth = d + 1 - 1
            BY <1>1, <3>2, <5>2
          <6> QED
            BY <1>1, <6>1
            DEF Reader!IsDirectSection, Reader!IsCurrentSectionParent
        <5> QED
          BY <5>1, <5>2
      <4>2. k + 3 = d + 1
        BY <3>2
      <4> QED
        BY <1>4, <1>9, <4>1, <4>2
    <3> QED
      BY <2>2, <3>1, <3>2
  <2>3. Reader!SectionsAreOpen'
    BY <1>1, <1>4, <1>5, <2>1, <2>2 DEF Reader!SectionsAreOpen, Reader!Depth
  <2> QED
    BY <1>2, <1>4, <1>5, <1>9, <2>1, <2>3 DEF ReaderInv
<1> QED
  BY <1>2, <1>6, <1>7, <1>8, <1>9

\* The innermost element ends; the section that ends with it is the last.
LEMMA ReaderEnds ==
    ASSUME ReaderInv, Reader!End
    PROVE  ReaderInv'
<1>1. PICK d, k \in Nat :
         /\ d = Len(elements) /\ d = Reader!Depth /\ d >= 1
         /\ k = Len(sections)
         /\ DOMAIN elements = 1 .. d /\ DOMAIN sections = 1 .. k
         /\ Reader!Last(elements) = elements[d]
         /\ Reader!Last(sections) = sections[k]
         /\ k > 0 => sections[k].depth = k + 2 /\ k + 2 <= d
                     /\ elements[k + 2] = "section"
         /\ \A n \in 1 .. k : sections[n].depth = n + 2 /\ n + 2 <= d
                              /\ elements[n + 2] = "section"
         /\ activeDepth = 2 /\ d >= k + 3 => elements[k + 3] # "section"
         /\ sections = <<>> <=> k = 0
  BY ReaderNumbers
<1>2. /\ elements \in Seq(OpenName) /\ sections \in Seq(OpenSection)
      /\ nodes \in Nat /\ activeDepth \in {0, 2}
      /\ activeDepth = 0 => sections = <<>>
      /\ activeDepth = 2 => d >= 2 /\ elements[2] = "body"
  BY <1>1 DEF ReaderInv
<1>3. /\ d > 1 /\ elements' = SubSeq(elements, 1, d - 1) /\ nodes' = nodes
      /\ activeDepth' = IF activeDepth = d THEN 0 ELSE activeDepth
      /\ sections' = IF activeDepth = d THEN <<>>
                     ELSE IF sections # <<>> /\ sections[k].depth = d
                     THEN SubSeq(sections, 1, k - 1) ELSE sections
  BY <1>1 DEF Reader!End, Reader!Front
<1>4. /\ elements' \in Seq(OpenName) /\ elements' # <<>> /\ Len(elements') = d - 1
      /\ \A i \in 1 .. d - 1 : elements'[i] = elements[i]
  BY <1>1, <1>2, <1>3
<1>5. CASE activeDepth = d
  <2>1. activeDepth' = 0 /\ sections' = <<>> /\ DOMAIN sections' = {}
    BY <1>3, <1>5
  <2>2. Reader!SectionsAreOpen'
    BY <2>1 DEF Reader!SectionsAreOpen
  <2>3. sections' \in Seq(OpenSection)
    BY <2>1
  <2> QED
    BY <1>2, <1>3, <1>4, <2>1, <2>2, <2>3 DEF ReaderInv
<1>6. CASE activeDepth # d /\ sections # <<>> /\ sections[k].depth = d
  <2>1. k > 0 /\ d = k + 2 /\ activeDepth = 2
    BY <1>1, <1>2, <1>6
  <2>2. /\ sections' = SubSeq(sections, 1, k - 1) /\ activeDepth' = activeDepth
    BY <1>3, <1>6
  <2>3. /\ sections' \in Seq(OpenSection) /\ Len(sections') = k - 1
        /\ DOMAIN sections' = 1 .. k - 1
        /\ \A n \in 1 .. k - 1 : sections'[n] = sections[n]
    BY <1>1, <1>2, <2>1, <2>2
  <2>4. Reader!SectionsAreOpen'
    <3>1. ASSUME NEW n \in 1 .. k - 1
          PROVE  sections'[n].depth = n + 2 /\ n + 2 <= d - 1
                 /\ elements'[n + 2] = "section"
      <4>1. n \in 1 .. k /\ n + 2 \in 1 .. d - 1
        BY <1>1, <2>1
      <4> QED
        BY <1>1, <1>4, <2>3, <4>1
    <3>2. ~(d - 1 >= k - 1 + 3)
      BY <2>1
    <3> QED
      BY <1>4, <2>3, <3>1, <3>2 DEF Reader!SectionsAreOpen, Reader!Depth
  <2>5. Len(elements') >= 2 /\ elements'[2] = "body"
    <3>1. 2 \in 1 .. d - 1
      BY <2>1
    <3> QED
      BY <1>2, <1>4, <2>1, <3>1
  <2> QED
    BY <1>2, <1>3, <1>4, <2>1, <2>2, <2>3, <2>4, <2>5 DEF ReaderInv
<1>7. CASE activeDepth # d /\ ~(sections # <<>> /\ sections[k].depth = d)
  <2>1. sections' = sections /\ activeDepth' = activeDepth
    BY <1>3, <1>7
  <2>2. k > 0 => k + 2 <= d - 1
    BY <1>1, <1>7
  <2>3. ASSUME NEW n \in 1 .. k
        PROVE  sections'[n].depth = n + 2 /\ n + 2 <= d - 1
               /\ elements'[n + 2] = "section"
    <3>1. n + 2 \in 1 .. d - 1
      BY <1>1, <2>2
    <3> QED
      BY <1>1, <1>4, <2>1, <3>1
  <2>4. ASSUME activeDepth = 2, d - 1 >= k + 3
        PROVE  elements'[k + 3] # "section"
    <3>1. k + 3 \in 1 .. d - 1 /\ d >= k + 3
      BY <1>1, <2>4
    <3> QED
      BY <1>1, <1>4, <2>4, <3>1
  <2>5. Reader!SectionsAreOpen'
    BY <1>1, <1>4, <2>1, <2>3, <2>4 DEF Reader!SectionsAreOpen, Reader!Depth
  <2>6. activeDepth = 2 => Len(elements') >= 2 /\ elements'[2] = "body"
    <3>1. activeDepth = 2 => 2 \in 1 .. d - 1
      BY <1>1, <1>2, <1>7
    <3> QED
      BY <1>2, <1>4, <3>1
  <2>7. /\ sections' \in Seq(OpenSection) /\ nodes' \in Nat
        /\ activeDepth' \in {0, 2} /\ (activeDepth' = 0 => sections' = <<>>)
    BY <1>2, <1>3, <2>1
  <2> QED
    BY <1>4, <2>1, <2>5, <2>6, <2>7 DEF ReaderInv
<1> QED
  BY <1>5, <1>6, <1>7

LEMMA ReaderInvStep ==
    ASSUME ReaderInv, [Next]_vars
    PROVE  ReaderInv'
<1>1. UNCHANGED readerVars \/ Reader!Next
  BY DEF Next, But, vars
<1>2. CASE UNCHANGED <<elements, sections, nodes, activeDepth>>
  BY <1>2 DEF ReaderInv, Reader!SectionsAreOpen, Reader!Depth
<1>3. CASE Reader!Text \/ Reader!Image
  BY <1>2, <1>3 DEF Reader!Text, Reader!Image
<1> QED
  BY <1>1, <1>2, <1>3, ReaderStarts, ReaderEnds DEF Reader!Next, readerVars

\* The walker's stack holds the sections around the token it reads, one per
\* depth, however sections, blocks and unknown elements are nested: half of
\* BookIsRead, and what makes a text land in the innermost section around it.
THEOREM SectionsAlwaysOpen == Spec => []Reader!SectionsAreOpen
<1>1. Init => ReaderInv
  <2> SUFFICES ASSUME Init
               PROVE  ReaderInv
    OBVIOUS
  <2>1. /\ elements = <<"root">> /\ sections = <<>> /\ nodes = 0
        /\ activeDepth = 0
    BY DEF Init, Reader!Init
  <2>2. elements \in Seq(OpenName) /\ elements # <<>>
    <3>1. "root" \in OpenName
      BY DEF OpenName
    <3> QED
      BY <2>1, <3>1
  <2>3. sections \in Seq(OpenSection) /\ DOMAIN sections = {}
    BY <2>1
  <2> QED
    BY <2>1, <2>2, <2>3 DEF ReaderInv, Reader!SectionsAreOpen
<1>2. ReaderInv /\ [Next]_vars => ReaderInv'
  BY ReaderInvStep
<1>3. ReaderInv => Reader!SectionsAreOpen
  BY DEF ReaderInv
<1> QED
  BY <1>1, <1>2, <1>3, PTL DEF Spec

=============================================================================
