----------------------------- MODULE ProofLemmas -----------------------------
(***************************************************************************)
(* What the proofs of several modules need of natural numbers, finite sets *)
(* and sequences and the library does not state: extreme elements, the     *)
(* rank of an element, a set that gains or loses one, and a sequence from  *)
(* which one position is removed.                                          *)
(***************************************************************************)
EXTENDS Integers, Sequences, FiniteSets, TLAPS,
        WellFoundedInduction, FiniteSetTheorems, SequenceTheorems

LEMMA LeastElement ==
    ASSUME NEW T \in SUBSET Nat, T # {}
    PROVE  \E x \in T : \A y \in T : x <= y
  <1>1. IsWellFoundedOn(OpToRel(<, Nat), Nat)
    BY NatLessThanWellFounded
  <1>2. PICK x \in T : \A y \in T : ~ (<<y, x>> \in OpToRel(<, Nat))
    BY <1>1, WFMin
  <1>3. \A y \in T : y \in Nat /\ ~ (y < x)
    BY <1>2 DEF OpToRel
  <1>4. x \in Nat
    OBVIOUS
  <1> QED  BY <1>3, <1>4

LEMMA SetInduction ==
    ASSUME NEW T \in SUBSET Nat, 0 \in T, \A n \in T : n + 1 \in T
    PROVE  T = Nat
  <1> SUFFICES ASSUME T # Nat PROVE FALSE
    OBVIOUS
  <1>1. PICK x \in Nat \ T : \A y \in Nat \ T : x <= y
    BY LeastElement
  <1>2. x - 1 \in Nat /\ (x - 1) + 1 = x /\ ~ (x <= x - 1)
    BY <1>1
  <1>3. x - 1 \in T
    BY <1>1, <1>2
  <1> QED  BY <1>1, <1>2, <1>3

LEMMA GreatestElement ==
    ASSUME NEW n \in Nat, NEW T \in SUBSET (0..n), T # {}
    PROVE  \E x \in T : \A y \in T : y <= x
  <1> DEFINE U == {k \in 0..n : n - k \in T}
  <1>1. PICK t \in T : TRUE
    OBVIOUS
  <1>2. n - (n - t) = t /\ n - t \in 0..n
    OBVIOUS
  <1>3. U \in SUBSET Nat /\ U # {}
    BY <1>1, <1>2
  <1>4. PICK k \in U : \A l \in U : k <= l
    BY <1>3, LeastElement
  <1>5. ASSUME NEW y \in T PROVE y <= n - k
    <2>1. n - y \in 0..n /\ n - (n - y) = y
      OBVIOUS
    <2>2. n - y \in U
      BY <2>1
    <2>3. k <= n - y
      BY <1>4, <2>2
    <2> QED  BY <2>1, <2>3
  <1> QED  BY <1>5

-----------------------------------------------------------------------------
(* The rank of an element of a finite set of naturals, from below and from  *)
(* above, tells it from the others.                                         *)

Below(ids, x) == {y \in ids : y < x}
Above(ids, x) == {y \in ids : y > x}

LEMMA Ranks ==
    ASSUME NEW ids \in SUBSET Nat, IsFiniteSet(ids), NEW x \in ids
    PROVE  /\ IsFiniteSet(Below(ids, x)) /\ IsFiniteSet(Above(ids, x))
           /\ Cardinality(Below(ids, x)) \in 0..(Cardinality(ids) - 1)
           /\ Cardinality(Above(ids, x)) \in 0..(Cardinality(ids) - 1)
  <1>1. IsFiniteSet(ids \ {x}) /\ Cardinality(ids \ {x}) = Cardinality(ids) - 1
    BY FS_RemoveElement
  <1>2. Below(ids, x) \in SUBSET (ids \ {x}) /\ Above(ids, x) \in SUBSET (ids \ {x})
    BY DEF Below, Above
  <1>3. Cardinality(ids) \in Nat
    BY FS_CardinalityType
  <1>4. /\ IsFiniteSet(Below(ids, x)) /\ Cardinality(Below(ids, x)) <= Cardinality(ids) - 1
        /\ IsFiniteSet(Above(ids, x)) /\ Cardinality(Above(ids, x)) <= Cardinality(ids) - 1
    BY <1>1, <1>2, FS_Subset
  <1>5. Cardinality(Below(ids, x)) \in Nat /\ Cardinality(Above(ids, x)) \in Nat
    BY <1>4, FS_CardinalityType
  <1> QED  BY <1>3, <1>4, <1>5

LEMMA RankGrows ==
    ASSUME NEW ids \in SUBSET Nat, IsFiniteSet(ids), NEW x \in ids, NEW y \in ids, x < y
    PROVE  /\ Cardinality(Below(ids, x)) < Cardinality(Below(ids, y))
           /\ Cardinality(Above(ids, y)) < Cardinality(Above(ids, x))
  <1>1. /\ Below(ids, x) \in SUBSET (Below(ids, y) \ {x}) /\ x \in Below(ids, y)
        /\ Above(ids, y) \in SUBSET (Above(ids, x) \ {y}) /\ y \in Above(ids, x)
    <2>1. \A z \in ids : z \in Nat /\ ~ (z < z) /\ (z < x => z < y) /\ (z > y => z > x)
      OBVIOUS
    <2> QED  BY <2>1 DEF Below, Above
  <1>2. /\ IsFiniteSet(Below(ids, x)) /\ IsFiniteSet(Above(ids, x))
        /\ IsFiniteSet(Below(ids, y)) /\ IsFiniteSet(Above(ids, y))
    BY Ranks
  <1>3. /\ IsFiniteSet(Below(ids, y) \ {x})
        /\ Cardinality(Below(ids, y) \ {x}) = Cardinality(Below(ids, y)) - 1
    BY <1>1, <1>2, FS_RemoveElement
  <1>4. /\ IsFiniteSet(Above(ids, x) \ {y})
        /\ Cardinality(Above(ids, x) \ {y}) = Cardinality(Above(ids, x)) - 1
    BY <1>1, <1>2, FS_RemoveElement
  <1>5. /\ Cardinality(Below(ids, x)) <= Cardinality(Below(ids, y)) - 1
        /\ Cardinality(Above(ids, y)) <= Cardinality(Above(ids, x)) - 1
    BY <1>1, <1>3, <1>4, FS_Subset
  <1>6. /\ Cardinality(Below(ids, x)) \in Nat /\ Cardinality(Below(ids, y)) \in Nat
        /\ Cardinality(Above(ids, x)) \in Nat /\ Cardinality(Above(ids, y)) \in Nat
    BY <1>2, FS_CardinalityType
  <1> QED  BY <1>5, <1>6

(* Every rank is that of one element.                                       *)
LEMMA RankReached ==
    ASSUME NEW ids \in SUBSET Nat, IsFiniteSet(ids), NEW n \in 1..Cardinality(ids)
    PROVE  \E x \in ids : Cardinality(Below(ids, x)) = n - 1
  <1> DEFINE T == 0..(Cardinality(ids) - 1)
             rank == [x \in ids |-> Cardinality(Below(ids, x))]
  <1>1. Cardinality(ids) \in Nat
    BY FS_CardinalityType
  <1>2. IsFiniteSet(T) /\ Cardinality(T) = Cardinality(ids)
    <2>1. 0 \in Int /\ Cardinality(ids) - 1 \in Int
      BY <1>1
    <2>2. /\ IsFiniteSet(0..(Cardinality(ids) - 1))
          /\ Cardinality(0..(Cardinality(ids) - 1)) =
                IF 0 > Cardinality(ids) - 1 THEN 0 ELSE Cardinality(ids) - 1 - 0 + 1
      BY <2>1, FS_Interval
    <2> QED  BY <1>1, <2>2
  <1>3. rank \in [ids -> T]
    BY Ranks
  <1>4. ASSUME NEW a \in ids, NEW b \in ids, rank[a] = rank[b] PROVE a = b
    <2>1. a \in Nat /\ b \in Nat /\ rank[a] \in Int /\ rank[b] \in Int
      BY <1>1, <1>3
    <2>2. ~ (a < b) /\ ~ (b < a)
      BY <1>4, <2>1, RankGrows
    <2> QED  BY <2>1, <2>2
  <1>5. rank \in Injection(ids, T)
    BY <1>3, <1>4 DEF Injection, IsInjective
  <1> HIDE DEF rank, T
  <1>6. rank \in Surjection(ids, T)
    BY <1>2, <1>5, FS_Injection
  <1>7. n - 1 \in T
    BY <1>1 DEF T
  <1>8. PICK x \in ids : rank[x] = n - 1
    BY <1>6, <1>7 DEF Surjection
  <1> QED  BY <1>8 DEF rank

LEMMA FiniteGreatest ==
    ASSUME NEW T \in SUBSET Nat, IsFiniteSet(T), T # {}
    PROVE  \E x \in T : \A y \in T : y <= x
  <1>1. Cardinality(T) \in Nat /\ Cardinality(T) # 0
    BY FS_CardinalityType, FS_EmptySet
  <1>2. Cardinality(T) \in 1..Cardinality(T)
    BY <1>1
  <1>3. PICK x \in T : Cardinality(Below(T, x)) = Cardinality(T) - 1
    BY <1>2, RankReached
  <1>4. ASSUME NEW y \in T, x < y PROVE FALSE
    <2>1. Cardinality(Below(T, x)) < Cardinality(Below(T, y))
      BY <1>4, RankGrows
    <2>2. Cardinality(Below(T, y)) \in 0..(Cardinality(T) - 1)
      BY Ranks
    <2> QED  BY <1>1, <1>3, <2>1, <2>2
  <1> QED  BY <1>4

(* At most n elements have fewer than n above them.                         *)
LEMMA FewAbove ==
    ASSUME NEW ids \in SUBSET Nat, IsFiniteSet(ids), NEW n \in Nat
    PROVE  LET top == {x \in ids : Cardinality({y \in ids : y > x}) < n}
           IN  IsFiniteSet(top) /\ Cardinality(top) <= n
  <1> DEFINE top  == {x \in ids : Cardinality({y \in ids : y > x}) < n}
             T    == 0..(n - 1)
             rank == [x \in top |-> Cardinality(Above(ids, x))]
  <1>1. IsFiniteSet(T) /\ Cardinality(T) = n
    BY FS_Interval
  <1>2. ASSUME NEW x \in top PROVE Cardinality(Above(ids, x)) \in T
    <2>1. x \in ids /\ Cardinality(Above(ids, x)) < n
      BY DEF Above
    <2>2. Cardinality(Above(ids, x)) \in 0..(Cardinality(ids) - 1) /\ Cardinality(ids) \in Nat
      BY <2>1, Ranks, FS_CardinalityType
    <2> QED  BY <2>1, <2>2
  <1>3. rank \in [top -> T]
    BY <1>2
  <1>4. ASSUME NEW a \in top, NEW b \in top, rank[a] = rank[b] PROVE a = b
    <2>1. a \in Nat /\ b \in Nat /\ rank[a] \in Int /\ rank[b] \in Int
      BY <1>2, <1>3
    <2>2. ~ (a < b) /\ ~ (b < a)
      BY <1>4, <2>1, RankGrows
    <2> QED  BY <2>1, <2>2
  <1>5. rank \in Injection(top, T)
    BY <1>3, <1>4 DEF Injection, IsInjective
  <1> HIDE DEF rank, T, top
  <1>6. IsFiniteSet(top) /\ Cardinality(top) <= n
    BY <1>1, <1>5, FS_Injection
  <1> QED  BY <1>6 DEF top

-----------------------------------------------------------------------------
(* Positions of a sequence whose elements are in a set.                     *)

Where(s, T) == {i \in 1..Len(s) : s[i] \in T}

LEMMA WhereFinite ==
    ASSUME NEW S, NEW s \in Seq(S), NEW T
    PROVE  /\ IsFiniteSet(Where(s, T)) /\ Cardinality(Where(s, T)) \in Nat
           /\ Cardinality(Where(s, T)) <= Len(s)
  <1>1. Len(s) \in Nat
    BY LenProperties
  <1>2. IsFiniteSet(1..Len(s)) /\ Cardinality(1..Len(s)) = Len(s)
    BY <1>1, FS_Interval
  <1>3. Where(s, T) \in SUBSET (1..Len(s))
    BY DEF Where
  <1> QED  BY <1>2, <1>3, FS_Subset, FS_CardinalityType

LEMMA WhereAppend ==
    ASSUME NEW S, NEW s \in Seq(S), NEW e \in S, NEW T
    PROVE  /\ Where(Append(s, e), T) =
                Where(s, T) \cup (IF e \in T THEN {Len(s) + 1} ELSE {})
           /\ Cardinality(Where(Append(s, e), T)) =
                Cardinality(Where(s, T)) + (IF e \in T THEN 1 ELSE 0)
  <1>1. Len(s) \in Nat
    BY LenProperties
  <1>2. /\ Len(Append(s, e)) = Len(s) + 1
        /\ \A i \in 1..Len(s) : Append(s, e)[i] = s[i]
        /\ Append(s, e)[Len(s) + 1] = e
    BY AppendProperties
  <1>3. Where(Append(s, e), T) = Where(s, T) \cup (IF e \in T THEN {Len(s) + 1} ELSE {})
    BY <1>1, <1>2 DEF Where
  <1>4. Len(s) + 1 \notin Where(s, T)
    BY <1>1 DEF Where
  <1>5. IsFiniteSet(Where(s, T)) /\ Cardinality(Where(s, T)) \in Nat
    BY WhereFinite
  <1>6. CASE e \in T
    BY <1>3, <1>4, <1>5, <1>6, FS_AddElement
  <1>7. CASE e \notin T
    BY <1>3, <1>5, <1>7
  <1> QED  BY <1>3, <1>6, <1>7

-----------------------------------------------------------------------------
(* A sequence without its p-th element.                                     *)

LEMMA RemovedAt ==
    ASSUME NEW S, NEW s \in Seq(S), NEW p \in 1..Len(s)
    PROVE  LET r == SubSeq(s, 1, p - 1) \o SubSeq(s, p + 1, Len(s))
           IN  /\ r \in Seq(S) /\ Len(r) = Len(s) - 1
               /\ \A i \in 1..(Len(s) - 1) : r[i] = IF i < p THEN s[i] ELSE s[i + 1]
  <1> DEFINE front == SubSeq(s, 1, p - 1)
             back  == SubSeq(s, p + 1, Len(s))
             r     == front \o back
  <1>1. Len(s) \in Nat /\ \A i \in 1..Len(s) : s[i] \in S
    BY LenProperties, ElementOfSeq
  <1>2. /\ front \in Seq(S) /\ Len(front) = p - 1
        /\ \A i \in 1..(p - 1) : front[i] = s[i]
    <2>1. 1 \in Int /\ p - 1 \in Int /\ \A i \in 1..(p - 1) : s[i] \in S
      BY <1>1
    <2>2. /\ SubSeq(s, 1, p - 1) \in Seq(S)
          /\ Len(SubSeq(s, 1, p - 1)) = IF 1 <= p - 1 THEN (p - 1) - 1 + 1 ELSE 0
          /\ \A i \in 1..((p - 1) - 1 + 1) : SubSeq(s, 1, p - 1)[i] = s[1 + i - 1]
      BY <2>1, SubSeqProperties
    <2> QED  BY <1>1, <2>2
  <1>3. /\ back \in Seq(S) /\ Len(back) = Len(s) - p
        /\ \A i \in 1..(Len(s) - p) : back[i] = s[p + i]
    <2>1. p + 1 \in Int /\ Len(s) \in Int /\ \A i \in (p + 1)..Len(s) : s[i] \in S
      BY <1>1
    <2>2. /\ SubSeq(s, p + 1, Len(s)) \in Seq(S)
          /\ Len(SubSeq(s, p + 1, Len(s))) = IF p + 1 <= Len(s) THEN Len(s) - (p + 1) + 1 ELSE 0
          /\ \A i \in 1..(Len(s) - (p + 1) + 1) : SubSeq(s, p + 1, Len(s))[i] = s[(p + 1) + i - 1]
      BY <2>1, SubSeqProperties
    <2> QED  BY <1>1, <2>2
  <1> HIDE DEF front, back
  <1>4. /\ r \in Seq(S) /\ Len(r) = Len(front) + Len(back)
        /\ \A i \in 1..(Len(front) + Len(back)) :
              r[i] = IF i <= Len(front) THEN front[i] ELSE back[i - Len(front)]
    BY <1>2, <1>3, ConcatProperties
  <1>5. Len(front) + Len(back) = Len(s) - 1
    BY <1>1, <1>2, <1>3
  <1>6. ASSUME NEW i \in 1..(Len(s) - 1) PROVE r[i] = IF i < p THEN s[i] ELSE s[i + 1]
    <2>1. CASE i < p
      <3>1. i <= Len(front) /\ i \in 1..(p - 1)
        BY <1>1, <1>2, <2>1
      <3> QED  BY <1>2, <1>4, <1>5, <2>1, <3>1
    <2>2. CASE ~ (i < p)
      <3>1. ~ (i <= Len(front)) /\ i - (p - 1) \in 1..(Len(s) - p) /\ p + (i - (p - 1)) = i + 1
        BY <1>1, <1>2, <2>2
      <3>2. r[i] = back[i - (p - 1)]
        BY <1>2, <1>4, <1>5, <3>1
      <3>3. back[i - (p - 1)] = s[p + (i - (p - 1))]
        BY <1>3, <3>1
      <3> QED  BY <2>2, <3>1, <3>2, <3>3
    <2> QED  BY <2>1, <2>2
  <1>7. Len(r) = Len(s) - 1 /\ r \in Seq(S)
    BY <1>4, <1>5
  <1> QED  BY <1>6, <1>7 DEF front, back
=============================================================================
