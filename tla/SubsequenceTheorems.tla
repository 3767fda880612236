------------------------- MODULE SubsequenceTheorems -------------------------
(***************************************************************************)
(* Facts about Subsequences: the positions that are kept are numbered from *)
(* the left without a gap, and what is chosen are their elements, in their *)
(* order.  Induction is by least counterexample (Least).                   *)
(***************************************************************************)
EXTENDS Integers, Sequences, Subsequences, FiniteSetTheorems, SequenceTheorems,
        WellFoundedInduction, TLAPS

(* Sets of numbers have a least element.                                   *)
LEMMA Least ==
    ASSUME NEW S \in SUBSET Nat, S # {}
    PROVE  \E i \in S : \A j \in S : i <= j
<1> DEFINE R == OpToRel(<, Nat)
<1>1. IsWellFoundedOn(R, Nat)
  BY NatLessThanWellFounded
<1>2. PICK i \in S : \A j \in S : ~(<<j, i>> \in R)
  <2> HIDE DEF R
  <2>1. QED
    BY <1>1, WFMin
<1>3. \A j \in S : ~(j < i)
  BY <1>2 DEF OpToRel
<1>4. QED
  BY <1>3

LEMMA PositionsFinite ==
    ASSUME NEW len \in Nat, NEW P, \A m \in P : m \in 0 .. len
    PROVE  IsFiniteSet(P)
<1>1. P \in SUBSET (0 .. len)
  OBVIOUS
<1>2. IsFiniteSet(0 .. len)
  BY FS_Interval
<1>3. QED
  BY <1>1, <1>2, FS_Subset

(* The ranks of the positions kept among 0 .. len.                         *)
LEMMA RankBounds ==
    ASSUME NEW len \in Nat, NEW P, \A m \in P : m \in 0 .. len, NEW k \in Nat
    PROVE  /\ Cardinality(P) \in Nat
           /\ Rank(P, k) \in Nat /\ Rank(P, k) <= Cardinality(P)
           /\ k >= len => Rank(P, k) = Cardinality(P)
           /\ k \in P => Rank(P, k) >= 1
<1>1. IsFiniteSet(P)
  BY PositionsFinite
<1>2. Cardinality(P) \in Nat
  BY <1>1, FS_CardinalityType
<1> DEFINE upTo == {m \in P : m <= k}
<1>3. upTo \subseteq P /\ Rank(P, k) = Cardinality(upTo)
  BY DEF Rank
<1>4. IsFiniteSet(upTo) /\ Cardinality(upTo) <= Cardinality(P)
  BY <1>1, <1>3, FS_Subset
<1>5. Cardinality(upTo) \in Nat
  BY <1>4, FS_CardinalityType
<1>6. k >= len => upTo = P
  OBVIOUS
<1>7. k \in P => upTo # {}
  OBVIOUS
<1>8. upTo # {} => Cardinality(upTo) # 0
  BY <1>4, FS_EmptySet
<1> HIDE DEF upTo
<1>9. QED
  BY <1>2, <1>3, <1>4, <1>5, <1>6, <1>7, <1>8

(* One further to the right, the rank is one more if that position is kept. *)
LEMMA RankStep ==
    ASSUME NEW len \in Nat, NEW P, \A m \in P : m \in 0 .. len, NEW k \in Nat
    PROVE  Rank(P, k + 1) = IF k + 1 \in P THEN Rank(P, k) + 1 ELSE Rank(P, k)
<1> DEFINE upTo == {m \in P : m <= k}
           next == {m \in P : m <= k + 1}
<1>1. IsFiniteSet(upTo)
  <2>1. \A m \in upTo : m \in 0 .. len
    OBVIOUS
  <2> HIDE DEF upTo
  <2>2. QED
    BY <2>1, PositionsFinite
<1>2. next = IF k + 1 \in P THEN upTo \cup {k + 1} ELSE upTo
  OBVIOUS
<1>3. k + 1 \notin upTo
  OBVIOUS
<1>4. Rank(P, k) = Cardinality(upTo) /\ Rank(P, k + 1) = Cardinality(next)
  BY DEF Rank
<1> HIDE DEF upTo, next
<1>5. Cardinality(upTo \cup {k + 1}) = Cardinality(upTo) + 1
  BY <1>1, <1>3, FS_AddElement
<1>6. QED
  BY <1>2, <1>4, <1>5

(* Kept positions further to the right have a higher rank.                 *)
LEMMA RankIncreases ==
    ASSUME NEW len \in Nat, NEW P, \A m \in P : m \in 0 .. len, NEW k \in P, NEW l \in P, k < l
    PROVE  Rank(P, k) < Rank(P, l)
<1> DEFINE upToK == {m \in P : m <= k}
           upToL == {m \in P : m <= l}
<1>0. \A m \in P : m \in Nat
  OBVIOUS
<1>1. upToK \subseteq upToL /\ l \in upToL /\ l \notin upToK
  BY <1>0
<1>2. IsFiniteSet(upToL)
  <2>1. \A m \in upToL : m \in 0 .. len
    OBVIOUS
  <2> HIDE DEF upToL
  <2>2. QED
    BY <2>1, PositionsFinite
<1>3. Rank(P, k) = Cardinality(upToK) /\ Rank(P, l) = Cardinality(upToL)
  BY DEF Rank
<1>4. Rank(P, k) \in Nat /\ Rank(P, l) \in Nat
  BY <1>0, RankBounds
<1> HIDE DEF upToK, upToL
<1>5. Cardinality(upToK) <= Cardinality(upToL) /\ Cardinality(upToK) # Cardinality(upToL)
  BY <1>1, <1>2, FS_Subset
<1>6. QED
  BY <1>3, <1>4, <1>5

(* There is an n-th position for every n up to their number.               *)
LEMMA NthIsThere ==
    ASSUME NEW len \in Nat, NEW P, \A m \in P : m \in 0 .. len, NEW n \in 1 .. Cardinality(P)
    PROVE  Nth(P, n) \in P /\ Rank(P, Nth(P, n)) = n
<1> DEFINE far == {k \in Nat : Rank(P, k) >= n}
<1>1. Cardinality(P) \in Nat /\ n <= Cardinality(P)
  BY RankBounds
<1>2. len \in far
  BY <1>1, RankBounds
<1>3. PICK k \in far : \A j \in far : k <= j
  <2> HIDE DEF far
  <2>1. far \in SUBSET Nat
    BY DEF far
  <2>2. QED
    BY <1>2, <2>1, Least
<1>4. k \in P /\ Rank(P, k) = n
  <2>1. CASE k = 0
    <3>0. \A m \in P : m \in Nat
      OBVIOUS
    <3>1. {m \in P : m <= 0} \subseteq {0}
      BY <3>0
    <3>2. Cardinality({0}) = 1 /\ IsFiniteSet({0})
      BY FS_Singleton
    <3>3. Rank(P, 0) <= 1
      BY <3>1, <3>2, FS_Subset DEF Rank
    <3>4. 0 \notin P => Rank(P, 0) = 0
      <4>1. 0 \notin P => {m \in P : m <= 0} = {}
        BY <3>0
      <4>2. QED
        BY <4>1, FS_EmptySet DEF Rank
    <3>5. Rank(P, k) >= n /\ Rank(P, 0) \in Nat /\ n \in Nat /\ n >= 1
      BY <1>1, <1>3, RankBounds
    <3>6. QED
      BY <2>1, <3>3, <3>4, <3>5
  <2>2. CASE k # 0
    <3> DEFINE j == k - 1
    <3>1. j \in Nat /\ j + 1 = k /\ k \in Nat
      BY <1>3, <2>2
    <3>2. ~(Rank(P, j) >= n)
      BY <1>3, <3>1
    <3>3. Rank(P, k) >= n
      BY <1>3
    <3>4. Rank(P, j + 1) = IF j + 1 \in P THEN Rank(P, j) + 1 ELSE Rank(P, j)
      BY <3>1, RankStep
    <3>5. Rank(P, j) \in Nat /\ Rank(P, k) \in Nat
      BY <3>1, RankBounds
    <3> HIDE DEF j
    <3>6. QED
      BY <1>1, <3>1, <3>2, <3>3, <3>4, <3>5
  <2>3. QED
    BY <2>1, <2>2
<1>5. QED
  BY <1>4 DEF Nth

(* A position is the one of its rank.                                      *)
LEMMA NthOfRank ==
    ASSUME NEW len \in Nat, NEW P, \A m \in P : m \in 0 .. len, NEW k \in P
    PROVE  /\ Rank(P, k) \in 1 .. Cardinality(P)
           /\ Nth(P, Rank(P, k)) = k
<1> DEFINE n == Rank(P, k)
           l == Nth(P, n)
<1>1. n \in 1 .. Cardinality(P)
  BY RankBounds
<1>2. l \in P /\ Rank(P, l) = n
  BY <1>1, NthIsThere
<1>3. ~(k < l) /\ ~(l < k)
  <2> HIDE DEF l
  <2>1. k < l => Rank(P, k) < Rank(P, l)
    BY <1>2, RankIncreases
  <2>2. l < k => Rank(P, l) < Rank(P, k)
    BY <1>2, RankIncreases
  <2>3. QED
    BY <1>1, <1>2, <2>1, <2>2
<1>4. l = k
  <2> HIDE DEF l
  <2>1. k \in Nat /\ l \in Nat
    BY <1>2
  <2>2. QED
    BY <1>3, <2>1
<1>5. QED
  BY <1>1, <1>4

(* The n-th and a later one: what is chosen stays in order.                *)
LEMMA NthIncreases ==
    ASSUME NEW len \in Nat, NEW P, \A m \in P : m \in 0 .. len,
           NEW m \in 1 .. Cardinality(P), NEW n \in 1 .. Cardinality(P), m < n
    PROVE  Nth(P, m) < Nth(P, n)
<1> DEFINE k == Nth(P, m)
           l == Nth(P, n)
<1>1. k \in P /\ l \in P /\ Rank(P, k) = m /\ Rank(P, l) = n
  BY NthIsThere
<1> HIDE DEF k, l
<1>2. l < k => Rank(P, l) < Rank(P, k)
  BY <1>1, RankIncreases
<1>3. k # l
  BY <1>1
<1>4. Cardinality(P) \in Nat
  BY RankBounds
<1>5. k < l
  BY <1>1, <1>2, <1>3, <1>4
<1>6. QED
  BY <1>5 DEF k, l

(* What is chosen from a sequence is a sequence of the elements at the     *)
(* positions, all of them.                                                 *)
LEMMA ChosenProperties ==
    ASSUME NEW S, NEW seq \in Seq(S), NEW P \in SUBSET DOMAIN seq
    PROVE  /\ Chosen(seq, P) \in Seq(S)
           /\ Len(Chosen(seq, P)) = Cardinality(P)
           /\ \A n \in 1 .. Cardinality(P) :
                  Nth(P, n) \in P /\ Chosen(seq, P)[n] = seq[Nth(P, n)]
           /\ \A k \in P : \E n \in 1 .. Cardinality(P) : Chosen(seq, P)[n] = seq[k]
<1> DEFINE len == Len(seq)
           card == Cardinality(P)
<1>1. len \in Nat /\ DOMAIN seq = 1 .. len /\ \A m \in P : m \in 0 .. len
  BY LenProperties
<1>2. card \in Nat
  BY <1>1, RankBounds
<1>3. \A n \in 1 .. card : Nth(P, n) \in P
  BY <1>1, NthIsThere
<1>4. Chosen(seq, P) = [n \in 1 .. card |-> seq[Nth(P, n)]]
  BY DEF Chosen
<1>5. \A n \in 1 .. card : seq[Nth(P, n)] \in S
  BY <1>3, ElementOfSeq, <1>1
<1>6. \A k \in P : Rank(P, k) \in 1 .. card /\ Nth(P, Rank(P, k)) = k
  BY <1>1, NthOfRank
<1> HIDE DEF card, len
<1>7. Chosen(seq, P) \in Seq(S) /\ Len(Chosen(seq, P)) = card
  BY <1>2, <1>4, <1>5, IsASeq
<1>8. QED
  BY <1>3, <1>4, <1>6, <1>7 DEF card
=============================================================================
