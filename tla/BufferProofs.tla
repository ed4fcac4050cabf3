---------------------------- MODULE BufferProofs ----------------------------
(***************************************************************************)
(* Theorems about both stores of the buffer, for every set of identifiers, *)
(* every limit of the keys and every number of entries: the indexes are    *)
(* exact, and the stores are sequences scanned from the front.             *)
(***************************************************************************)
EXTENDS Buffers, ProofLemmas

-----------------------------------------------------------------------------
(* Positions of a sequence in order                                         *)

UpTo(P, i) == {j \in P : j <= i}

(* A function that goes through a set of positions in order is Nth.         *)
LEMMA Enumerates ==
    ASSUME NEW P \in SUBSET Nat, NEW m \in Nat, NEW f \in [1..m -> P],
           \A i, j \in 1..m : i < j => f[i] < f[j],
           \A p \in P : \E i \in 1..m : f[i] = p
    PROVE  /\ IsFiniteSet(P) /\ Cardinality(P) = m
           /\ \A n \in 1..m : Nth(P, n) = f[n]
  <1>1. \A i, j \in 1..m : f[i] <= f[j] <=> i <= j
    <2> SUFFICES ASSUME NEW i \in 1..m, NEW j \in 1..m
                 PROVE  f[i] <= f[j] <=> i <= j
      OBVIOUS
    <2>1. f[i] \in Nat /\ f[j] \in Nat
      OBVIOUS
    <2>2. CASE i < j
      BY <2>1, <2>2
    <2>3. CASE j < i
      BY <2>1, <2>3
    <2>4. CASE i = j
      BY <2>1, <2>4
    <2> QED  BY <2>2, <2>3, <2>4
  <1>2. \A n \in 0..m : f \in [1..m -> P] /\ [i \in 1..n |-> f[i]] \in Bijection(1..n, {f[i] : i \in 1..n})
    <2> TAKE n \in 0..m
    <2> DEFINE g == [i \in 1..n |-> f[i]]
               T == {f[i] : i \in 1..n}
    <2>1. g \in [1..n -> T]
      OBVIOUS
    <2>2. \A i, j \in 1..n : g[i] = g[j] => i = j
      <3> TAKE i, j \in 1..n
      <3>1. i \in 1..m /\ j \in 1..m
        OBVIOUS
      <3>2. f[i] \in Nat /\ f[j] \in Nat
        BY <3>1
      <3>3. g[i] = f[i] /\ g[j] = f[j]
        OBVIOUS
      <3> QED  BY <1>1, <3>1, <3>2, <3>3
    <2>3. \A t \in T : \E i \in 1..n : g[i] = t
      OBVIOUS
    <2> QED  BY <2>1, <2>2, <2>3 DEF Bijection, Injection, Surjection, IsInjective
  <1>3. \A n \in 0..m : IsFiniteSet({f[i] : i \in 1..n}) /\ Cardinality({f[i] : i \in 1..n}) = n
    <2> TAKE n \in 0..m
    <2>1. ExistsBijection(1..n, {f[i] : i \in 1..n})
      BY <1>2 DEF ExistsBijection
    <2>2. IsFiniteSet(1..n) /\ Cardinality(1..n) = n
      BY FS_Interval
    <2> QED  BY <2>1, <2>2, FS_Bijection
  <1>4. P = {f[i] : i \in 1..m}
    OBVIOUS
  <1>5. \A n \in 1..m : Cardinality({j \in P : j <= f[n]}) = n
    <2> TAKE n \in 1..m
    <2>1. {j \in P : j <= f[n]} = {f[i] : i \in 1..n}
      <3>1. ASSUME NEW j \in P, j <= f[n] PROVE j \in {f[i] : i \in 1..n}
        <4>1. PICK i \in 1..m : f[i] = j
          OBVIOUS
        <4>2. i <= n
          BY <1>1, <3>1, <4>1
        <4> QED  BY <4>1, <4>2
      <3>2. ASSUME NEW i \in 1..n PROVE f[i] \in P /\ f[i] <= f[n]
        <4>1. i \in 1..m
          OBVIOUS
        <4> QED  BY <1>1, <4>1
      <3> QED  BY <3>1, <3>2
    <2>2. n \in 0..m
      OBVIOUS
    <2>3. Cardinality({f[i] : i \in 1..n}) = n
      BY <1>3, <2>2
    <2> QED  BY <2>1, <2>3
  <1>6. ASSUME NEW n \in 1..m PROVE Nth(P, n) = f[n]
    <2>1. \A i \in P : Cardinality({j \in P : j <= i}) = n => i = f[n]
      <3> TAKE i \in P
      <3>1. PICK k \in 1..m : f[k] = i
        OBVIOUS
      <3> QED  BY <1>5, <3>1
    <2>2. f[n] \in P /\ Cardinality({j \in P : j <= f[n]}) = n
      BY <1>5
    <2> QED  BY <2>1, <2>2 DEF Nth
  <1>7. m \in 0..m
    OBVIOUS
  <1> QED  BY <1>3, <1>4, <1>6, <1>7

(* Nth goes through every finite set of positions in order.                 *)
LEMMA NthProperties ==
    ASSUME NEW P \in SUBSET Nat, IsFiniteSet(P)
    PROVE  /\ Cardinality(P) \in Nat
           /\ \A n \in 1..Cardinality(P) : Nth(P, n) \in P
           /\ \A i, j \in 1..Cardinality(P) : i < j => Nth(P, i) < Nth(P, j)
           /\ \A p \in P : \E n \in 1..Cardinality(P) : Nth(P, n) = p
  <1> DEFINE m == Cardinality(P)
             f == [n \in 1..m |-> CHOOSE x \in P : Cardinality(Below(P, x)) = n - 1]
  <1>1. m \in Nat
    BY FS_CardinalityType
  <1>2. \A n \in 1..m : f[n] \in P /\ Cardinality(Below(P, f[n])) = n - 1
    <2> TAKE n \in 1..m
    <2>1. \E x \in P : Cardinality(Below(P, x)) = n - 1
      BY RankReached
    <2>2. f[n] = CHOOSE x \in P : Cardinality(Below(P, x)) = n - 1
      OBVIOUS
    <2> HIDE DEF f
    <2> QED  BY <2>1, <2>2
  <1> HIDE DEF f
  <1>3. f \in [1..m -> P]
    BY <1>2 DEF f
  <1>4. \A i, j \in 1..m : i < j => f[i] < f[j]
    <2> SUFFICES ASSUME NEW i \in 1..m, NEW j \in 1..m, i < j, ~ (f[i] < f[j])
                 PROVE  FALSE
      OBVIOUS
    <2>1. f[i] \in P /\ f[j] \in P /\ f[i] \in Nat /\ f[j] \in Nat
      BY <1>2
    <2>2. Cardinality(Below(P, f[i])) = i - 1 /\ Cardinality(Below(P, f[j])) = j - 1
      BY <1>2
    <2>3. CASE f[i] = f[j]
      BY <1>1, <2>2, <2>3
    <2>4. CASE f[j] < f[i]
      <3>1. Cardinality(Below(P, f[j])) < Cardinality(Below(P, f[i]))
        BY <2>1, <2>4, RankGrows
      <3> QED  BY <1>1, <2>2, <3>1
    <2> QED  BY <2>1, <2>3, <2>4
  <1>5. \A p \in P : \E i \in 1..m : f[i] = p
    <2> TAKE p \in P
    <2>1. Cardinality(Below(P, p)) \in 0..(m - 1)
      BY Ranks
    <2> DEFINE i == Cardinality(Below(P, p)) + 1
    <2>2. i \in 1..m /\ i - 1 = Cardinality(Below(P, p))
      BY <1>1, <2>1
    <2>3. f[i] \in P /\ Cardinality(Below(P, f[i])) = Cardinality(Below(P, p))
      BY <1>2, <2>2
    <2>4. f[i] = p
      <3>1. /\ f[i] \in P /\ f[i] \in Nat /\ p \in Nat
            /\ Cardinality(Below(P, p)) \in Int
        <4>1. f[i] \in P
          BY <2>3
        <4>2. Cardinality(Below(P, p)) \in Int
          BY <1>1, <2>1
        <4> HIDE DEF i, m
        <4> QED  BY <4>1, <4>2
      <3>2. ~ (f[i] < p) /\ ~ (p < f[i])
        BY <2>3, <3>1, RankGrows
      <3> QED  BY <3>1, <3>2
    <2> QED  BY <2>2, <2>4
  <1>6. \A n \in 1..m : Nth(P, n) = f[n]
    BY <1>1, <1>3, <1>4, <1>5, Enumerates
  <1> QED  BY <1>1, <1>2, <1>4, <1>5, <1>6

-----------------------------------------------------------------------------
(* Deques and their indexes                                                 *)

LEMMA MinIs ==
    ASSUME NEW A \in SUBSET Nat, NEW x \in A, \A y \in A : x <= y
    PROVE  Min(A) = x
  <1>1. ASSUME NEW z \in A, \A y \in A : z <= y PROVE z = x
    <2>1. z <= x /\ x <= z /\ x \in Nat /\ z \in Nat
      BY <1>1
    <2> QED  BY <2>1
  <1> QED  BY <1>1 DEF Min

LEMMA MinLeast ==
    ASSUME NEW A \in SUBSET Nat, A # {}
    PROVE  Min(A) \in A /\ Min(A) \in Nat /\ \A y \in A : Min(A) <= y
  <1>1. \E x \in A : \A y \in A : x <= y
    BY LeastElement
  <1>2. Min(A) \in A /\ \A y \in A : Min(A) <= y
    BY <1>1 DEF Min
  <1> QED  BY <1>2

LEMMA Slots ==
    ASSUME NEW T, NEW s \in Seq(T)
    PROVE  /\ Len(s) \in Nat
           /\ Occupied(s) \in SUBSET (1..Len(s)) /\ Occupied(s) \in SUBSET Nat
           /\ IsFiniteSet(Occupied(s)) /\ Cardinality(Occupied(s)) \in Nat
           /\ Cardinality(Occupied(s)) <= Len(s)
  <1>1. Len(s) \in Nat
    BY LenProperties
  <1>2. IsFiniteSet(1..Len(s)) /\ Cardinality(1..Len(s)) = Len(s)
    BY <1>1, FS_Interval
  <1>3. Occupied(s) \in SUBSET (1..Len(s))
    BY DEF Occupied
  <1>4. Occupied(s) \in SUBSET Nat
    BY <1>1, <1>3
  <1>5. IsFiniteSet(Occupied(s)) /\ Cardinality(Occupied(s)) <= Len(s)
    BY <1>2, <1>3, FS_Subset
  <1> QED  BY <1>1, <1>3, <1>4, <1>5, FS_CardinalityType

LEMMA Occurrences ==
    ASSUME NEW T, NEW s \in Seq(T), NEW id
    PROVE  /\ At(s, id) \in SUBSET Occupied(s) /\ At(s, id) \in SUBSET Nat
           /\ IsFiniteSet(At(s, id)) /\ Cardinality(At(s, id)) \in Nat
           /\ At(s, id) = {} <=> Cardinality(At(s, id)) = 0
  <1>1. At(s, id) \in SUBSET Occupied(s)
    BY DEF At
  <1>2. IsFiniteSet(At(s, id)) /\ At(s, id) \in SUBSET Nat
    BY <1>1, Slots, FS_Subset
  <1> QED  BY <1>1, <1>2, FS_CardinalityType, FS_EmptySet

IdsOf(s) == {s[i].id : i \in Occupied(s)}

LEMMA IdOccurs ==
    ASSUME NEW s, NEW id
    PROVE  id \in IdsOf(s) <=> At(s, id) # {}
  BY DEF IdsOf, At

(* What an exact index says of an identifier.                               *)
LEMMA IndexSays ==
    ASSUME NEW T, NEW s \in Seq(T), NEW b \in Nat
    PROVE  /\ DOMAIN IndexOf(s, b) = IdsOf(s)
           /\ \A id \in IdsOf(s) :
                 /\ Min(At(s, id)) \in At(s, id) /\ Min(At(s, id)) \in 1..Len(s)
                 /\ \A y \in At(s, id) : Min(At(s, id)) <= y
                 /\ IndexOf(s, b)[id].first = b + Min(At(s, id)) - 1
                 /\ IndexOf(s, b)[id].count = Cardinality(At(s, id))
                 /\ IndexOf(s, b)[id] \in [first : Nat, count : Nat \ {0}]
  <1>1. DOMAIN IndexOf(s, b) = IdsOf(s)
    BY DEF IndexOf, IdsOf
  <1>2. ASSUME NEW id \in IdsOf(s)
        PROVE  IndexOf(s, b)[id] = [first |-> b + Min(At(s, id)) - 1, count |-> Cardinality(At(s, id))]
    BY DEF IndexOf, IdsOf
  <1>3. ASSUME NEW id \in IdsOf(s)
        PROVE  /\ Min(At(s, id)) \in At(s, id) /\ Min(At(s, id)) \in 1..Len(s)
               /\ \A y \in At(s, id) : Min(At(s, id)) <= y
               /\ b + Min(At(s, id)) - 1 \in Nat /\ Cardinality(At(s, id)) \in Nat \ {0}
    <2>1. At(s, id) # {}
      BY IdOccurs
    <2>2. At(s, id) \in SUBSET Nat /\ Cardinality(At(s, id)) \in Nat \ {0}
      BY <2>1, Occurrences
    <2>3. Min(At(s, id)) \in At(s, id) /\ \A y \in At(s, id) : Min(At(s, id)) <= y
      BY <2>1, <2>2, MinLeast
    <2>4. Min(At(s, id)) \in 1..Len(s)
      BY <2>3, Occurrences, Slots
    <2>5. b + Min(At(s, id)) - 1 \in Nat
      BY <2>4
    <2> QED  BY <2>2, <2>3, <2>4, <2>5
  <1>4. ASSUME NEW id \in IdsOf(s)
        PROVE  /\ IndexOf(s, b)[id].first = b + Min(At(s, id)) - 1
               /\ IndexOf(s, b)[id].count = Cardinality(At(s, id))
               /\ IndexOf(s, b)[id] \in [first : Nat, count : Nat \ {0}]
    <2> DEFINE f == b + Min(At(s, id)) - 1
               c == Cardinality(At(s, id))
    <2>1. IndexOf(s, b)[id] = [first |-> f, count |-> c]
      BY <1>2
    <2>2. f \in Nat /\ c \in Nat \ {0}
      BY <1>3
    <2> HIDE DEF f, c
    <2>3. /\ IndexOf(s, b)[id].first = f /\ IndexOf(s, b)[id].count = c
          /\ IndexOf(s, b)[id] \in [first : Nat, count : Nat \ {0}]
      BY <2>1, <2>2
    <2> QED  BY <2>3 DEF f, c
  <1> QED  BY <1>1, <1>3, <1>4

(* A function that says this of every identifier is the index.              *)
LEMMA IndexIs ==
    ASSUME NEW s, NEW b, NEW I, I = [id \in DOMAIN I |-> I[id]], DOMAIN I = IdsOf(s),
           \A id \in IdsOf(s) :
              I[id] = [first |-> b + Min(At(s, id)) - 1, count |-> Cardinality(At(s, id))]
    PROVE  I = IndexOf(s, b)
  BY DEF IndexOf, IdsOf

(* Only which slots are occupied, and by which identifiers, matters.        *)
LEMMA IndexUntouched ==
    ASSUME NEW s, NEW r, NEW b, Occupied(r) = Occupied(s),
           \A i \in Occupied(s) : r[i].id = s[i].id
    PROVE  /\ IndexOf(r, b) = IndexOf(s, b)
           /\ \A id : At(r, id) = At(s, id)
  <1>1. IdsOf(r) = IdsOf(s) /\ \A id : At(r, id) = At(s, id)
    BY DEF IdsOf, At
  <1> QED  BY <1>1 DEF IndexOf, IdsOf

-----------------------------------------------------------------------------
(* What each change of a deque does to its index                            *)

LEMMA Pushed ==
    ASSUME NEW T, NEW s \in Seq(T), NEW e \in T, e # None
    PROVE  /\ Append(s, e) \in Seq(T) /\ Len(Append(s, e)) = Len(s) + 1
           /\ \A i \in 1..Len(s) : Append(s, e)[i] = s[i]
           /\ Append(s, e)[Len(s) + 1] = e
           /\ Occupied(Append(s, e)) = Occupied(s) \cup {Len(s) + 1}
           /\ Len(s) + 1 \notin Occupied(s)
           /\ Cardinality(Occupied(Append(s, e))) = Cardinality(Occupied(s)) + 1
           /\ \A id : At(Append(s, e), id) =
                         At(s, id) \cup (IF e.id = id THEN {Len(s) + 1} ELSE {})
  <1> DEFINE r == Append(s, e)
  <1>1. /\ r \in Seq(T) /\ Len(r) = Len(s) + 1 /\ Len(s) \in Nat
        /\ \A i \in 1..Len(s) : r[i] = s[i]
        /\ r[Len(s) + 1] = e
    BY AppendProperties, LenProperties
  <1> HIDE DEF r
  <1>2. Len(s) + 1 \notin Occupied(s) /\ Occupied(s) \in SUBSET (1..Len(s))
    BY <1>1 DEF Occupied
  <1>3. Occupied(r) = Occupied(s) \cup {Len(s) + 1}
    BY <1>1 DEF Occupied
  <1>4. Cardinality(Occupied(r)) = Cardinality(Occupied(s)) + 1
    BY <1>2, <1>3, Slots, FS_AddElement
  <1>5. ASSUME NEW id
        PROVE  At(r, id) = At(s, id) \cup (IF e.id = id THEN {Len(s) + 1} ELSE {})
    <2>1. \A i \in Occupied(s) : r[i] = s[i]
      BY <1>1, <1>2
    <2> QED  BY <1>1, <1>3, <2>1 DEF At
  <1> QED  BY <1>1, <1>2, <1>3, <1>4, <1>5 DEF r

Added(I, id, key) == IF id \in DOMAIN I THEN [I EXCEPT ![id].count = @ + 1]
                     ELSE With(I, id, FirstAt(key))

LEMMA IndexPushed ==
    ASSUME NEW T, NEW s \in Seq(T), NEW b \in Nat, NEW e \in T, e # None
    PROVE  IndexOf(Append(s, e), b) = Added(IndexOf(s, b), e.id, b + Len(s))
  <1> DEFINE r == Append(s, e)
             I == IndexOf(s, b)
             x == e.id
             J == IF x \in DOMAIN I THEN [I EXCEPT ![x].count = @ + 1]
                  ELSE With(I, x, FirstAt(b + Len(s)))
  <1>1. /\ \A id : At(r, id) = At(s, id) \cup (IF x = id THEN {Len(s) + 1} ELSE {})
        /\ Len(s) + 1 \notin Occupied(s) /\ r \in Seq(T)
        /\ Len(s) \in Nat
    BY Pushed, LenProperties
  <1>2. /\ DOMAIN I = IdsOf(s)
        /\ \A id \in IdsOf(s) : I[id] = [first |-> b + Min(At(s, id)) - 1, count |-> Cardinality(At(s, id))]
    BY DEF IndexOf, IdsOf
  <1>3. I = [id \in DOMAIN I |-> I[id]]
    BY DEF IndexOf
  <1>4. IdsOf(r) = IdsOf(s) \cup {x}
    <2>1. \A id : At(r, id) # {} <=> At(s, id) # {} \/ id = x
      BY <1>1
    <2>2. \A id : id \in IdsOf(r) <=> id \in IdsOf(s) \/ id = x
      BY <2>1, IdOccurs
    <2> QED  BY <2>2
  <1>5. DOMAIN J = IdsOf(r) /\ J = [id \in DOMAIN J |-> J[id]]
    <2> HIDE DEF I
    <2>1. CASE x \in DOMAIN I
      BY <1>2, <1>3, <1>4, <2>1
    <2>2. CASE x \notin DOMAIN I
      BY <1>2, <1>3, <1>4, <2>2 DEF With
    <2> QED  BY <2>1, <2>2
  <1>6. ASSUME NEW id \in IdsOf(r)
        PROVE  J[id] = [first |-> b + Min(At(r, id)) - 1, count |-> Cardinality(At(r, id))]
    <2>1. CASE id # x
      <3>1. At(r, id) = At(s, id) /\ id \in IdsOf(s)
        BY <1>1, <1>4, <2>1
      <3>2. J[id] = I[id]
        BY <1>2, <2>1, <3>1 DEF With
      <3> QED  BY <1>2, <3>1, <3>2
    <2>2. CASE id = x /\ x \in IdsOf(s)
      <3>1. At(r, x) = At(s, x) \cup {Len(s) + 1} /\ Len(s) + 1 \notin At(s, x)
        BY <1>1, Occurrences
      <3>2. Cardinality(At(r, x)) = Cardinality(At(s, x)) + 1
        <4>1. IsFiniteSet(At(s, x))
          BY Occurrences
        <4> HIDE DEF r, x
        <4> QED  BY <3>1, <4>1, FS_AddElement
      <3>3. Min(At(s, x)) \in At(s, x) /\ Min(At(s, x)) \in 1..Len(s) /\ \A y \in At(s, x) : Min(At(s, x)) <= y
        BY <2>2, IndexSays
      <3>4. Min(At(r, x)) = Min(At(s, x))
        <4>1. At(r, x) \in SUBSET Nat
          BY <1>1, Occurrences
        <4>2. Min(At(s, x)) \in At(r, x) /\ \A y \in At(r, x) : Min(At(s, x)) <= y
          BY <1>1, <3>1, <3>3
        <4> QED  BY <4>1, <4>2, MinIs
      <3>5. J[x] = [I[x] EXCEPT !.count = @ + 1]
        BY <1>2, <2>2
      <3>6. I[x] = [first |-> b + Min(At(s, x)) - 1, count |-> Cardinality(At(s, x))]
        BY <1>2, <2>2
      <3> HIDE DEF I, J, r, x
      <3>7. J[x] = [first |-> b + Min(At(s, x)) - 1, count |-> Cardinality(At(s, x)) + 1]
        BY <3>5, <3>6
      <3> QED  BY <2>2, <3>2, <3>4, <3>7
    <2>3. CASE id = x /\ x \notin IdsOf(s)
      <3>1. At(s, x) = {}
        BY <2>3, IdOccurs
      <3>2. At(r, x) = {Len(s) + 1}
        BY <1>1, <3>1
      <3>3. Cardinality(At(r, x)) = 1
        BY <3>2, FS_Singleton
      <3>4. Min(At(r, x)) = Len(s) + 1
        BY <1>1, <3>2, MinIs
      <3>5. J[x] = [first |-> b + Len(s), count |-> 1]
        BY <1>2, <2>3 DEF With, FirstAt
      <3>6. b + (Len(s) + 1) - 1 = b + Len(s)
        BY <1>1
      <3> HIDE DEF I, J, r, x
      <3> QED  BY <2>3, <3>3, <3>4, <3>5, <3>6
    <2> QED  BY <1>4, <2>1, <2>2, <2>3
  <1> HIDE DEF I, J, r
  <1>7. J = IndexOf(r, b)
    BY <1>5, <1>6, IndexIs
  <1> QED  BY <1>7 DEF I, J, r, Added

(* A slot becomes vacant.                                                   *)
LEMMA Vacated ==
    ASSUME NEW T, None \in T, NEW s \in Seq(T), NEW i \in Occupied(s)
    PROVE  LET r == [s EXCEPT ![i] = None]
           IN  /\ r \in Seq(T) /\ Len(r) = Len(s) /\ i \in 1..Len(s)
               /\ \A j \in 1..Len(s) : r[j] = IF j = i THEN None ELSE s[j]
               /\ Occupied(r) = Occupied(s) \ {i}
               /\ Cardinality(Occupied(r)) = Cardinality(Occupied(s)) - 1
               /\ \A id : At(r, id) = At(s, id) \ {i}
  <1> DEFINE r == [s EXCEPT ![i] = None]
  <1>1. i \in 1..Len(s) /\ s[i] # None
    BY DEF Occupied
  <1>2. r \in Seq(T) /\ Len(r) = Len(s) /\ \A j \in 1..Len(s) : r[j] = IF j = i THEN None ELSE s[j]
    BY <1>1, ExceptSeq
  <1> HIDE DEF r
  <1>3. Occupied(r) = Occupied(s) \ {i}
    BY <1>1, <1>2 DEF Occupied
  <1>4. Cardinality(Occupied(r)) = Cardinality(Occupied(s)) - 1
    <2>1. IsFiniteSet(Occupied(s))
      BY Slots
    <2> QED  BY <1>3, <2>1, FS_RemoveElement
  <1>5. ASSUME NEW id PROVE At(r, id) = At(s, id) \ {i}
    <2>1. \A j \in Occupied(s) \ {i} : r[j] = s[j]
      BY <1>1, <1>2 DEF Occupied
    <2> QED  BY <1>3, <2>1 DEF At
  <1> QED  BY <1>1, <1>2, <1>3, <1>4, <1>5 DEF r

Vacate(s, i) == [s EXCEPT ![i] = None]
VacatedIndex(I, id, key, next) ==
    IF I[id].count = 1 THEN Without(I, id)
    ELSE [I EXCEPT ![id] = [count |-> I[id].count - 1,
                            first |-> IF I[id].first = key THEN next ELSE I[id].first]]

LEMMA IndexVacated ==
    ASSUME NEW T, None \in T, NEW s \in Seq(T), NEW b \in Nat, NEW i \in Occupied(s)
    PROVE  /\ s[i].id \in DOMAIN IndexOf(s, b)
           /\ IndexOf(Vacate(s, i), b) =
                 VacatedIndex(IndexOf(s, b), s[i].id, b + i - 1, b + Min(At(Vacate(s, i), s[i].id)) - 1)
  <1> DEFINE r == Vacate(s, i)
             I == IndexOf(s, b)
             x == s[i].id
             key == b + i - 1
             first == IF I[x].first = key THEN b + Min(At(r, x)) - 1 ELSE I[x].first
             J == IF I[x].count = 1 THEN Without(I, x)
                  ELSE [I EXCEPT ![x] = [count |-> I[x].count - 1, first |-> first]]
  <1>1. /\ r \in Seq(T) /\ Len(r) = Len(s) /\ i \in 1..Len(s)
        /\ \A id : At(r, id) = At(s, id) \ {i}
    BY Vacated DEF Vacate
  <1>2. /\ DOMAIN I = IdsOf(s)
        /\ \A id \in IdsOf(s) : I[id] = [first |-> b + Min(At(s, id)) - 1, count |-> Cardinality(At(s, id))]
    BY DEF IndexOf, IdsOf
  <1>3. I = [id \in DOMAIN I |-> I[id]]
    BY DEF IndexOf
  <1>4. i \in At(s, x) /\ x \in IdsOf(s) /\ \A id : id # x => i \notin At(s, id)
    BY DEF At, IdsOf
  <1> HIDE DEF I, x, r
  <1>5. Cardinality(At(r, x)) = Cardinality(At(s, x)) - 1 /\ Cardinality(At(s, x)) \in Nat
    <2>1. IsFiniteSet(At(s, x)) /\ Cardinality(At(s, x)) \in Nat
      BY Occurrences
    <2> QED  BY <1>1, <1>4, <2>1, FS_RemoveElement
  <1>6. At(r, x) = {} <=> Cardinality(At(s, x)) = 1
    BY <1>1, <1>5, Occurrences
  <1>7. I[x].count = Cardinality(At(s, x)) /\ I[x].first = b + Min(At(s, x)) - 1
    BY <1>2, <1>4
  <1>8. IdsOf(r) = IF I[x].count = 1 THEN IdsOf(s) \ {x} ELSE IdsOf(s)
    <2>1. \A id : id # x => (At(r, id) # {} <=> At(s, id) # {})
      BY <1>1, <1>4
    <2>2. \A id : id # x => (id \in IdsOf(r) <=> id \in IdsOf(s))
      BY <2>1, IdOccurs
    <2>3. x \in IdsOf(r) <=> I[x].count # 1
      BY <1>6, <1>7, IdOccurs
    <2>4. CASE I[x].count = 1
      BY <2>2, <2>3, <2>4
    <2>5. CASE I[x].count # 1
      <3>1. \A id : id \in IdsOf(r) <=> id \in IdsOf(s)
        BY <1>4, <2>2, <2>3, <2>5
      <3>2. IdsOf(r) = IdsOf(s)
        BY <3>1, Zenon
      <3> QED  BY <2>5, <3>2
    <2> QED  BY <2>4, <2>5
  <1>9. DOMAIN J = IdsOf(r) /\ J = [id \in DOMAIN J |-> J[id]]
    <2>1. CASE I[x].count = 1
      BY <1>2, <1>3, <1>8, <2>1 DEF Without
    <2>2. CASE I[x].count # 1
      <3> HIDE DEF first
      <3> QED  BY <1>2, <1>3, <1>8, <2>2
    <2> QED  BY <2>1, <2>2
  <1>10. ASSUME NEW id \in IdsOf(r)
         PROVE  J[id] = [first |-> b + Min(At(r, id)) - 1, count |-> Cardinality(At(r, id))]
    <2>1. CASE id # x
      <3>1. At(r, id) = At(s, id) /\ id \in IdsOf(s)
        BY <1>1, <1>4, <1>8, <2>1
      <3>2. J[id] = I[id]
        <4> HIDE DEF first
        <4> QED  BY <1>2, <2>1, <3>1 DEF Without
      <3> QED  BY <1>2, <3>1, <3>2
    <2>2. CASE id = x
      <3>1. I[x].count # 1
        BY <1>8, <2>2
      <3>2. J[x] = [count |-> I[x].count - 1, first |-> first]
        <4> HIDE DEF first
        <4> QED  BY <1>2, <1>4, <3>1
      <3>3. first = b + Min(At(r, x)) - 1
        <4>1. CASE I[x].first = key
          BY <4>1
        <4>2. CASE I[x].first # key
          <5>1. Min(At(s, x)) \in At(s, x) /\ Min(At(s, x)) \in 1..Len(s) /\ \A y \in At(s, x) : Min(At(s, x)) <= y
            BY <1>4, IndexSays
          <5>2. Min(At(s, x)) # i
            BY <1>7, <4>2
          <5>3. At(r, x) \in SUBSET Nat
            BY <1>1, Occurrences
          <5>4. Min(At(r, x)) = Min(At(s, x))
            BY <1>1, <5>1, <5>2, <5>3, MinIs
          <5> QED  BY <1>7, <4>2, <5>4
        <4> QED  BY <4>1, <4>2
      <3> HIDE DEF first, J
      <3> QED  BY <1>5, <1>7, <2>2, <3>2, <3>3
    <2> QED  BY <2>1, <2>2
  <1> HIDE DEF J
  <1>11. J = IndexOf(r, b)
    BY <1>9, <1>10, IndexIs
  <1>12. x \in DOMAIN I
    BY <1>2, <1>4
  <1> QED  BY <1>11, <1>12 DEF I, J, r, x, VacatedIndex

(* Vacant slots leave at the front, and the base moves on with them.        *)
LEMMA Dropped ==
    ASSUME NEW T, NEW s \in Seq(T), NEW g \in 0..Len(s), \A i \in Occupied(s) : i > g
    PROVE  LET r == SubSeq(s, g + 1, Len(s))
           IN  /\ r \in Seq(T) /\ Len(r) = Len(s) - g
               /\ \A i \in 1..Len(r) : r[i] = s[i + g]
               /\ \A i \in Nat : i \in Occupied(r) <=> i + g \in Occupied(s)
               /\ Occupied(r) = {i - g : i \in Occupied(s)}
               /\ Cardinality(Occupied(r)) = Cardinality(Occupied(s))
               /\ \A id : At(r, id) = {i - g : i \in At(s, id)}
               /\ \A id : Cardinality(At(r, id)) = Cardinality(At(s, id))
  <1> DEFINE r == SubSeq(s, g + 1, Len(s))
  <1>1. Len(s) \in Nat /\ \A i \in 1..Len(s) : s[i] \in T
    BY LenProperties, ElementOfSeq
  <1>2. r \in Seq(T) /\ Len(r) = Len(s) - g /\ \A i \in 1..(Len(s) - g) : r[i] = s[i + g]
    <2>1. g + 1 \in Int /\ Len(s) \in Int /\ \A i \in (g + 1)..Len(s) : s[i] \in T
      BY <1>1
    <2>2. /\ SubSeq(s, g + 1, Len(s)) \in Seq(T)
          /\ Len(SubSeq(s, g + 1, Len(s))) = IF g + 1 <= Len(s) THEN Len(s) - (g + 1) + 1 ELSE 0
          /\ \A i \in 1..(Len(s) - (g + 1) + 1) : SubSeq(s, g + 1, Len(s))[i] = s[(g + 1) + i - 1]
      BY <2>1, SubSeqProperties
    <2>3. Len(r) = Len(s) - g
      BY <1>1, <2>2
    <2>4. ASSUME NEW i \in 1..(Len(s) - g) PROVE r[i] = s[i + g]
      <3>1. i \in 1..(Len(s) - (g + 1) + 1) /\ (g + 1) + i - 1 = i + g
        BY <1>1
      <3> QED  BY <2>2, <3>1
    <2> QED  BY <2>2, <2>3, <2>4
  <1> HIDE DEF r
  <1>3. ASSUME NEW i \in Nat PROVE i \in Occupied(r) <=> i + g \in Occupied(s)
    <2>1. ASSUME i \in Occupied(r) PROVE i + g \in Occupied(s)
      BY <1>1, <1>2, <2>1 DEF Occupied
    <2>2. ASSUME i + g \in Occupied(s) PROVE i \in Occupied(r)
      <3>1. i + g \in 1..Len(s) /\ i + g > g /\ s[i + g] # None
        BY <2>2 DEF Occupied
      <3>2. i \in 1..(Len(s) - g)
        BY <1>1, <3>1
      <3> QED  BY <1>2, <3>1, <3>2 DEF Occupied
    <2> QED  BY <2>1, <2>2
  <1>4. /\ Occupied(s) \in SUBSET Nat /\ Occupied(r) \in SUBSET Nat
        /\ IsFiniteSet(Occupied(s))
    BY <1>2, Slots
  <1>5. ASSUME NEW i \in Occupied(s) PROVE i - g \in Nat /\ (i - g) + g = i /\ i \in 1..Len(s)
    <2>1. i \in Nat /\ i > g /\ g \in Nat
      BY <1>4
    <2>2. i \in 1..Len(s)
      BY DEF Occupied
    <2> QED  BY <2>1, <2>2
  <1>6. Occupied(r) = {i - g : i \in Occupied(s)}
    <2>1. ASSUME NEW j \in Occupied(r) PROVE j \in {i - g : i \in Occupied(s)}
      <3>1. j \in Nat /\ g \in Nat
        BY <1>1, <1>4
      <3>2. j + g \in Occupied(s) /\ (j + g) - g = j
        BY <1>3, <3>1
      <3> QED  BY <3>2
    <2>2. ASSUME NEW i \in Occupied(s) PROVE i - g \in Occupied(r)
      BY <1>3, <1>5
    <2> QED  BY <2>1, <2>2
  <1>7. ASSUME NEW S, S \in SUBSET Occupied(s)
        PROVE  Cardinality({i - g : i \in S}) = Cardinality(S)
    <2> DEFINE f == [i \in S |-> i - g]
    <2>1. f \in Bijection(S, {i - g : i \in S})
      <3>1. f \in [S -> {i - g : i \in S}]
        OBVIOUS
      <3>2. \A i, j \in S : f[i] = f[j] => i = j
        <4> TAKE i, j \in S
        <4>1. i \in Nat /\ j \in Nat /\ g \in Nat
          BY <1>4, <1>7
        <4> QED  BY <4>1
      <3>3. \A t \in {i - g : i \in S} : \E i \in S : f[i] = t
        OBVIOUS
      <3> QED  BY <3>1, <3>2, <3>3 DEF Bijection, Injection, Surjection, IsInjective
    <2>2. IsFiniteSet(S)
      BY <1>4, <1>7, FS_Subset
    <2>3. ExistsBijection(S, {i - g : i \in S})
      BY <2>1 DEF ExistsBijection
    <2> QED  BY <2>2, <2>3, FS_Bijection
  <1>8. ASSUME NEW id PROVE At(r, id) = {i - g : i \in At(s, id)}
    <2>1. ASSUME NEW i \in Occupied(s) PROVE r[i - g] = s[i]
      <3>1. i - g \in 1..(Len(s) - g) /\ (i - g) + g = i
        BY <1>1, <1>5
      <3> QED  BY <1>2, <3>1
    <2> QED  BY <1>6, <2>1 DEF At
  <1>9. \A id : Cardinality(At(r, id)) = Cardinality(At(s, id))
    BY <1>7, <1>8, Occurrences
  <1>10. Cardinality(Occupied(r)) = Cardinality(Occupied(s))
    BY <1>6, <1>7
  <1>11. \A i \in 1..Len(r) : r[i] = s[i + g]
    BY <1>2
  <1> QED  BY <1>2, <1>3, <1>6, <1>8, <1>9, <1>10, <1>11 DEF r

LEMMA IndexDropped ==
    ASSUME NEW T, NEW s \in Seq(T), NEW g \in 0..Len(s), \A i \in Occupied(s) : i > g,
           NEW b \in Nat
    PROVE  IndexOf(SubSeq(s, g + 1, Len(s)), b + g) = IndexOf(s, b)
  <1> DEFINE r == SubSeq(s, g + 1, Len(s))
             I == IndexOf(s, b)
  <1>1. /\ r \in Seq(T)
        /\ \A id : At(r, id) = {i - g : i \in At(s, id)}
        /\ \A id : Cardinality(At(r, id)) = Cardinality(At(s, id))
    BY Dropped
  <1>2. /\ DOMAIN I = IdsOf(s)
        /\ \A id \in IdsOf(s) : I[id] = [first |-> b + Min(At(s, id)) - 1, count |-> Cardinality(At(s, id))]
    BY DEF IndexOf, IdsOf
  <1>3. I = [id \in DOMAIN I |-> I[id]]
    BY DEF IndexOf
  <1> HIDE DEF r, I
  <1>4. IdsOf(r) = IdsOf(s)
    <2>1. ASSUME NEW id PROVE At(r, id) # {} <=> At(s, id) # {}
      <3>1. At(r, id) = {i - g : i \in At(s, id)}
        BY <1>1
      <3> QED  BY <3>1
    <2>2. \A id : id \in IdsOf(r) <=> id \in IdsOf(s)
      BY <2>1, IdOccurs
    <2> QED  BY <2>2, Zenon
  <1>5. ASSUME NEW id \in IdsOf(r)
        PROVE  I[id] = [first |-> (b + g) + Min(At(r, id)) - 1, count |-> Cardinality(At(r, id))]
    <2> DEFINE x == Min(At(s, id))
    <2>1. x \in At(s, id) /\ \A y \in At(s, id) : x <= y
      BY <1>4, IndexSays
    <2>2. x \in Nat /\ g \in Nat /\ \A y \in At(s, id) : y \in Nat
      BY <2>1, Occurrences
    <2>3. At(r, id) \in SUBSET Nat
      BY <1>1, Occurrences
    <2>4. x - g \in At(r, id) /\ \A z \in At(r, id) : x - g <= z
      <3> HIDE DEF x
      <3>1. x - g \in At(r, id)
        BY <1>1, <2>1
      <3>2. ASSUME NEW z \in At(r, id) PROVE x - g <= z
        <4>1. PICK y \in At(s, id) : z = y - g
          BY <1>1
        <4>2. x <= y /\ y \in Nat
          BY <2>1, <2>2
        <4> QED  BY <2>2, <4>1, <4>2
      <3> QED  BY <3>1, <3>2
    <2>5. Min(At(r, id)) = x - g
      BY <2>3, <2>4, MinIs
    <2>6. (b + g) + (x - g) - 1 = b + x - 1
      BY <2>2
    <2>7. I[id] = [first |-> b + x - 1, count |-> Cardinality(At(s, id))]
      BY <1>2, <1>4
    <2> HIDE DEF x
    <2> QED  BY <1>1, <2>5, <2>6, <2>7
  <1>6. I = IndexOf(r, b + g)
    <2>1. DOMAIN I = IdsOf(r)
      BY <1>2, <1>4
    <2> QED  BY <1>3, <1>5, <2>1, IndexIs
  <1> QED  BY <1>6 DEF r, I

-----------------------------------------------------------------------------
(* What is picked from a sequence                                           *)

LEMMA Picked ==
    ASSUME NEW T, NEW s \in Seq(T), NEW P \in SUBSET (1..Len(s))
    PROVE  /\ IsFiniteSet(P) /\ P \in SUBSET Nat
           /\ Pick(s, P) \in Seq(T) /\ Len(Pick(s, P)) = Cardinality(P)
           /\ Cardinality(P) \in Nat
           /\ \A n \in 1..Cardinality(P) :
                 Nth(P, n) \in P /\ Nth(P, n) \in 1..Len(s) /\ Pick(s, P)[n] = s[Nth(P, n)]
  <1>1. Len(s) \in Nat /\ \A i \in 1..Len(s) : s[i] \in T
    BY LenProperties, ElementOfSeq
  <1>2. IsFiniteSet(P) /\ P \in SUBSET Nat
    <2>1. IsFiniteSet(1..Len(s))
      BY <1>1, FS_Interval
    <2>2. IsFiniteSet(P)
      BY <2>1, FS_Subset
    <2>3. P \in SUBSET Nat
      BY <1>1
    <2> QED  BY <2>2, <2>3
  <1>3. Cardinality(P) \in Nat /\ \A n \in 1..Cardinality(P) : Nth(P, n) \in P
    BY <1>2, NthProperties
  <1>4. \A n \in 1..Cardinality(P) : Pick(s, P)[n] = s[Nth(P, n)] /\ Pick(s, P)[n] \in T
    BY <1>1, <1>3 DEF Pick
  <1>5. Pick(s, P) \in Seq(T) /\ Len(Pick(s, P)) = Cardinality(P)
    <2>1. Pick(s, P) = [n \in 1..Cardinality(P) |-> s[Nth(P, n)]]
      BY DEF Pick
    <2>2. Pick(s, P) \in [1..Cardinality(P) -> T]
      BY <1>4, <2>1
    <2>3. Pick(s, P) \in Seq(T)
      BY <1>3, <2>2, SeqDef
    <2>4. DOMAIN Pick(s, P) = 1..Cardinality(P) /\ DOMAIN Pick(s, P) = 1..Len(Pick(s, P))
      BY <2>1, <2>3, LenProperties
    <2>5. Len(Pick(s, P)) \in Nat
      BY <2>3, LenProperties
    <2> QED  BY <1>3, <2>3, <2>4, <2>5
  <1> QED  BY <1>1, <1>2, <1>3, <1>4, <1>5

LEMMA PickAll ==
    ASSUME NEW T, NEW s \in Seq(T), NEW P \in SUBSET (1..Len(s)), Cardinality(P) = Len(s)
    PROVE  P = 1..Len(s) /\ Pick(s, P) = s /\ \A n \in 1..Len(s) : Nth(P, n) = n
  <1>1. Len(s) \in Nat /\ s = [i \in 1..Len(s) |-> s[i]]
    BY LenProperties
  <1>2. IsFiniteSet(1..Len(s)) /\ Cardinality(1..Len(s)) = Len(s)
    BY <1>1, FS_Interval
  <1>3. P = 1..Len(s)
    BY <1>2, FS_Subset
  <1> DEFINE f == [n \in 1..Len(s) |-> n]
  <1>4. /\ P \in SUBSET Nat /\ f \in [1..Len(s) -> P]
        /\ \A i, j \in 1..Len(s) : i < j => f[i] < f[j]
        /\ \A p \in P : \E i \in 1..Len(s) : f[i] = p
    BY <1>1, <1>3
  <1> HIDE DEF f
  <1>5. \A n \in 1..Len(s) : Nth(P, n) = f[n]
    BY <1>1, <1>4, Enumerates
  <1>6. Pick(s, P) = [n \in 1..Len(s) |-> s[f[n]]]
    BY <1>5 DEF Pick
  <1> QED  BY <1>1, <1>3, <1>5, <1>6 DEF f

-----------------------------------------------------------------------------
(* The fields of the scope buffer, exact over entries of a set E            *)

ClosedIn(s) == {k \in Occupied(s) : ~s[k].open}

Exact(s, E) ==
    /\ s = [entries |-> s.entries, byId |-> s.byId, exited |-> s.exited,
            base |-> s.base, len |-> s.len]
    /\ s.entries \in Seq(E \cup {None}) /\ s.base \in Nat
    /\ s.byId = IndexOf(s.entries, s.base)
    /\ s.exited = {s.base + i - 1 : i \in ClosedIn(s.entries)}
    /\ s.len = Cardinality(Occupied(s.entries))

Changed(s, e, x, n, I) == [s EXCEPT !.entries = e, !.exited = x, !.len = n, !.byId = I]

LEMMA FieldsChanged ==
    ASSUME NEW s, NEW e, NEW I, NEW x, NEW b, NEW n, NEW f, NEW J, NEW y, NEW m,
           s = [entries |-> e, byId |-> I, exited |-> x, base |-> b, len |-> n]
    PROVE  Changed(s, f, y, m, J) =
              [entries |-> f, byId |-> J, exited |-> y, base |-> b, len |-> m]
  <1> DEFINE s1 == [s EXCEPT !.entries = f]
             s2 == [s1 EXCEPT !.exited = y]
             s3 == [s2 EXCEPT !.len = m]
             s4 == [s3 EXCEPT !.byId = J]
  <1>1. s1 = [entries |-> f, byId |-> I, exited |-> x, base |-> b, len |-> n]
    OBVIOUS
  <1>2. s2 = [entries |-> f, byId |-> I, exited |-> y, base |-> b, len |-> n]
    <2> HIDE DEF s1
    <2> QED  BY <1>1
  <1>3. s3 = [entries |-> f, byId |-> I, exited |-> y, base |-> b, len |-> m]
    <2> HIDE DEF s2
    <2> QED  BY <1>2
  <1>4. s4 = [entries |-> f, byId |-> J, exited |-> y, base |-> b, len |-> m]
    <2> HIDE DEF s3
    <2> QED  BY <1>3
  <1> QED  BY <1>4 DEF Changed

LEMMA ExactIs ==
    ASSUME NEW E, NEW e \in Seq(E \cup {None}), NEW I, NEW x, NEW b \in Nat, NEW n,
           I = IndexOf(e, b), x = {b + i - 1 : i \in ClosedIn(e)}, n = Cardinality(Occupied(e))
    PROVE  Exact([entries |-> e, byId |-> I, exited |-> x, base |-> b, len |-> n], E)
  <1> DEFINE s == [entries |-> e, byId |-> I, exited |-> x, base |-> b, len |-> n]
  <1>1. s.entries = e /\ s.byId = I /\ s.exited = x /\ s.base = b /\ s.len = n
    OBVIOUS
  <1>2. s = [entries |-> s.entries, byId |-> s.byId, exited |-> s.exited, base |-> s.base, len |-> s.len]
    BY <1>1
  <1> HIDE DEF s
  <1>3. Exact(s, E)
    BY <1>1, <1>2 DEF Exact
  <1> QED  BY <1>3 DEF s

(* Closed slots and their keys.                                             *)
LEMMA ClosedKeys ==
    ASSUME NEW E, NEW s, Exact(s, E)
    PROVE  /\ ClosedIn(s.entries) \in SUBSET Occupied(s.entries)
           /\ ClosedIn(s.entries) \in SUBSET (1..Len(s.entries))
           /\ s.exited \in SUBSET Nat /\ IsFiniteSet(s.exited) /\ Cardinality(s.exited) \in Nat
           /\ \A x \in s.exited : x - s.base + 1 \in ClosedIn(s.entries)
           /\ \A i \in 1..Len(s.entries) : i \in ClosedIn(s.entries) <=> s.base + i - 1 \in s.exited
  <1> DEFINE e == s.entries
             b == s.base
  <1>1. e \in Seq(E \cup {None}) /\ b \in Nat /\ s.exited = {b + i - 1 : i \in ClosedIn(e)}
    BY DEF Exact
  <1> HIDE DEF e, b
  <1>2. Len(e) \in Nat /\ Occupied(e) \in SUBSET (1..Len(e)) /\ IsFiniteSet(Occupied(e))
    BY <1>1, Slots
  <1>3. ClosedIn(e) \in SUBSET Occupied(e) /\ ClosedIn(e) \in SUBSET (1..Len(e))
    BY <1>2 DEF ClosedIn
  <1>4. IsFiniteSet(ClosedIn(e))
    BY <1>2, <1>3, FS_Subset
  <1>5. IsFiniteSet(s.exited)
    <2> DEFINE f == [i \in ClosedIn(e) |-> b + i - 1]
    <2>1. f \in Surjection(ClosedIn(e), s.exited)
      <3>1. f \in [ClosedIn(e) -> s.exited]
        BY <1>1
      <3>2. \A x \in s.exited : \E i \in ClosedIn(e) : f[i] = x
        BY <1>1
      <3> QED  BY <3>1, <3>2 DEF Surjection
    <2> QED  BY <1>4, <2>1, FS_Surjection
  <1>6. s.exited \in SUBSET Nat
    BY <1>1, <1>2, <1>3
  <1>7. ASSUME NEW x \in s.exited PROVE x - b + 1 \in ClosedIn(e)
    <2>1. PICK i \in ClosedIn(e) : x = b + i - 1
      BY <1>1
    <2>2. i \in Nat
      BY <1>2, <1>3
    <2>3. x - b + 1 = i
      BY <1>1, <2>1, <2>2
    <2> QED  BY <2>3
  <1>8. ASSUME NEW i \in 1..Len(e) PROVE i \in ClosedIn(e) <=> b + i - 1 \in s.exited
    <2>1. i \in ClosedIn(e) => b + i - 1 \in s.exited
      BY <1>1
    <2>2. ASSUME b + i - 1 \in s.exited PROVE i \in ClosedIn(e)
      <3>1. (b + i - 1) - b + 1 = i
        BY <1>1, <1>2
      <3> QED  BY <1>7, <2>2, <3>1
    <2> QED  BY <2>1, <2>2
  <1>9. Cardinality(s.exited) \in Nat
    BY <1>5, FS_CardinalityType
  <1> QED  BY <1>3, <1>5, <1>6, <1>7, <1>8, <1>9 DEF e, b

(* One turn of trim's loop takes the closed scope with the least key.       *)
LEMMA EvictExact ==
    ASSUME NEW E, NEW s, Exact(s, E), s.exited # {}
    PROVE  LET r   == Evict(s)
               key == Min(s.exited)
               i   == key - s.base + 1
           IN  /\ Exact(r, E) /\ r.base = s.base /\ Len(r.entries) = Len(s.entries)
               /\ key \in s.exited /\ (\A y \in s.exited : key <= y) /\ r.exited = s.exited \ {key}
               /\ i \in ClosedIn(s.entries)
               /\ \A j \in 1..Len(s.entries) : r.entries[j] = IF j = i THEN None ELSE s.entries[j]
  <1> DEFINE e   == s.entries
             b   == s.base
             I   == IndexOf(e, b)
             key == Min(s.exited)
             i   == key - b + 1
             id  == e[i].id
             left == Vacate(e, i)
             J   == VacatedIndex(I, id, key, b + Min(At(left, id)) - 1)
  <1>1. key \in s.exited /\ key \in Nat /\ \A y \in s.exited : key <= y
    <2>1. s.exited \in SUBSET Nat
      BY ClosedKeys
    <2> QED  BY <2>1, MinLeast
  <1>2. /\ i \in ClosedIn(e) /\ ClosedIn(e) \in SUBSET Occupied(e)
        /\ ClosedIn(e) \in SUBSET (1..Len(e)) /\ i \in Occupied(e)
    BY <1>1, ClosedKeys
  <1>3. /\ s = [entries |-> e, byId |-> I, exited |-> s.exited, base |-> b, len |-> Cardinality(Occupied(e))]
        /\ e \in Seq(E \cup {None}) /\ b \in Nat
        /\ s.exited = {b + j - 1 : j \in ClosedIn(e)}
    BY DEF Exact
  <1>4. None \in E \cup {None}
    OBVIOUS
  <1>5. /\ left \in Seq(E \cup {None}) /\ Len(left) = Len(e)
        /\ \A j \in 1..Len(e) : left[j] = IF j = i THEN None ELSE e[j]
        /\ Occupied(left) = Occupied(e) \ {i}
        /\ Cardinality(Occupied(left)) = Cardinality(Occupied(e)) - 1
    <2> HIDE DEF e, i
    <2> QED  BY <1>2, <1>3, <1>4, Vacated DEF Vacate
  <1>6. b + i - 1 = key
    BY <1>1, <1>3
  <1>7. IndexOf(left, b) = J
    <2> HIDE DEF e, b, key, i
    <2> QED  BY <1>2, <1>3, <1>4, <1>6, IndexVacated
  <1>8. Evict(s) = [entries |-> left, byId |-> J, exited |-> s.exited \ {key}, base |-> b,
                    len |-> Cardinality(Occupied(e)) - 1]
    <2> DEFINE x == s.exited
               y == x \ {key}
               n == Cardinality(Occupied(e))
               m == n - 1
    <2>1. s.byId = I /\ s.len = n
      BY DEF Exact
    <2>2. Evict(s) = Changed(s, left, y, m, J)
      BY <2>1 DEF Evict, Key, Changed, VacatedIndex, Vacate
    <2>3. s = [entries |-> e, byId |-> I, exited |-> x, base |-> b, len |-> n]
      BY <1>3
    <2> HIDE DEF e, b, J, left, I, x, n, m, y
    <2>4. Changed(s, left, y, m, J) =
             [entries |-> left, byId |-> J, exited |-> y, base |-> b, len |-> m]
      BY <2>3, FieldsChanged
    <2> QED  BY <2>2, <2>4 DEF x, n, m, y
  <1>9. ClosedIn(left) = ClosedIn(e) \ {i}
    <2>1. \A j \in Occupied(e) \ {i} : left[j] = e[j]
      <3> HIDE DEF left, i, e
      <3> QED  BY <1>5 DEF Occupied
    <2> HIDE DEF left, i, e
    <2> QED  BY <1>5, <2>1 DEF ClosedIn
  <1> HIDE DEF e, b, key, i, left, I, J
  <1>10. s.exited \ {key} = {b + j - 1 : j \in ClosedIn(left)}
    <2>1. \A j \in ClosedIn(e) : j \in Nat
      BY <1>2, <1>3, Slots
    <2>2. \A j \in ClosedIn(e) : b + j - 1 = key <=> j = i
      BY <1>2, <1>3, <1>6, <2>1
    <2>3. ASSUME NEW x \in s.exited \ {key} PROVE x \in {b + j - 1 : j \in ClosedIn(left)}
      <3>1. PICK j \in ClosedIn(e) : x = b + j - 1
        BY <1>3
      <3> QED  BY <1>9, <2>2, <3>1
    <2>4. ASSUME NEW j \in ClosedIn(left) PROVE b + j - 1 \in s.exited \ {key}
      BY <1>3, <1>9, <2>2
    <2> QED  BY <2>3, <2>4
  <1>11. Exact(Evict(s), E)
    <2> DEFINE x == s.exited \ {key}
               n == Cardinality(Occupied(e)) - 1
    <2>1. left \in Seq(E \cup {None}) /\ b \in Nat
      BY <1>3, <1>5
    <2>2. J = IndexOf(left, b) /\ x = {b + j - 1 : j \in ClosedIn(left)} /\ n = Cardinality(Occupied(left))
      BY <1>5, <1>7, <1>10
    <2> HIDE DEF x, n
    <2>3. Exact([entries |-> left, byId |-> J, exited |-> x, base |-> b, len |-> n], E)
      BY <2>1, <2>2, ExactIs
    <2> QED  BY <1>8, <2>3 DEF x, n
  <1>12. /\ Evict(s).base = b /\ Len(Evict(s).entries) = Len(e)
         /\ Evict(s).exited = s.exited \ {key}
         /\ \A j \in 1..Len(e) : Evict(s).entries[j] = IF j = i THEN None ELSE e[j]
    BY <1>5, <1>8
  <1> QED  BY <1>1, <1>2, <1>11, <1>12 DEF e, b, key, i

(* The turns of the loop, as EvictTimes sees them.                          *)
EvictTurns(s, n, turn) == turn = [k \in 0..n |-> IF k = 0 THEN s ELSE Evict(turn[k - 1])]

LEMMA EvictTurnsExist ==
    ASSUME NEW s, NEW n \in Nat
    PROVE  \E turn : EvictTurns(s, n, turn) /\ EvictTimes(s, n) = turn[n]
  <1> DEFINE T == {k \in Nat : \E turn : EvictTurns(s, k, turn)}
  <1>1. 0 \in T
    <2> DEFINE f == [k \in 0..0 |-> s]
    <2>1. EvictTurns(s, 0, f)
      BY DEF EvictTurns
    <2> QED  BY <2>1
  <1>2. ASSUME NEW k \in T PROVE k + 1 \in T
    <2>1. PICK turn : EvictTurns(s, k, turn)
      OBVIOUS
    <2> DEFINE f == [j \in 0..(k + 1) |-> IF j <= k THEN turn[j] ELSE Evict(turn[k])]
    <2>2. k \in Nat /\ turn[0] = s /\ \A j \in 1..k : turn[j] = Evict(turn[j - 1])
      BY <2>1 DEF EvictTurns
    <2>3. ASSUME NEW j \in 0..(k + 1) PROVE f[j] = IF j = 0 THEN s ELSE Evict(f[j - 1])
      <3>1. CASE j = 0
        BY <2>2, <3>1
      <3>2. CASE j \in 1..k
        <4>1. f[j] = turn[j] /\ f[j - 1] = turn[j - 1]
          BY <2>2, <3>2
        <4> QED  BY <2>2, <3>2, <4>1
      <3>3. CASE j = k + 1
        <4>1. j \in 0..(k + 1) /\ ~ (j <= k) /\ j - 1 = k /\ k \in 0..(k + 1) /\ k <= k /\ j # 0
          BY <2>2, <3>3
        <4>2. f[j] = Evict(turn[k]) /\ f[j - 1] = turn[k]
          BY <4>1
        <4> QED  BY <4>1, <4>2
      <3> QED  BY <2>2, <3>1, <3>2, <3>3
    <2>4. f = [j \in 0..(k + 1) |-> f[j]]
      OBVIOUS
    <2> HIDE DEF f
    <2>5. EvictTurns(s, k + 1, f)
      BY <2>3, <2>4 DEF EvictTurns
    <2> QED  BY <2>2, <2>5
  <1>3. n \in T
    <2> HIDE DEF T
    <2>1. T \in SUBSET Nat
      BY DEF T
    <2> QED  BY <1>1, <1>2, <2>1, SetInduction
  <1>4. PICK g : EvictTurns(s, n, g)
    BY <1>3
  <1> DEFINE turn == CHOOSE f : f = [k \in 0..n |-> IF k = 0 THEN s ELSE Evict(f[k - 1])]
  <1>5. turn = [k \in 0..n |-> IF k = 0 THEN s ELSE Evict(turn[k - 1])]
    BY <1>4 DEF EvictTurns
  <1>6. EvictTimes(s, n) = turn[n]
    BY DEF EvictTimes
  <1> QED  BY <1>5, <1>6 DEF EvictTurns

(* After n turns: the n closed scopes with the least keys have left, and    *)
(* nothing else has changed.                                                *)
Evicted(s, r, n, E) ==
    /\ Exact(r, E) /\ r.base = s.base /\ Len(r.entries) = Len(s.entries)
    /\ \A i \in 1..Len(s.entries) : r.entries[i] \in {s.entries[i], None}
    /\ \A i \in Occupied(s.entries) \ ClosedIn(s.entries) : r.entries[i] = s.entries[i]
    /\ r.exited \in SUBSET s.exited /\ Cardinality(r.exited) = Cardinality(s.exited) - n
    /\ \A x \in s.exited \ r.exited, y \in r.exited : x < y

LEMMA EvictOnce ==
    ASSUME NEW E, NEW s, Exact(s, E), NEW n \in Nat, n < Cardinality(s.exited),
           NEW q, Evicted(s, q, n, E)
    PROVE  Evicted(s, Evict(q), n + 1, E)
  <1> DEFINE r   == Evict(q)
             key == Min(q.exited)
             i   == key - q.base + 1
  <1>1. /\ s.exited \in SUBSET Nat /\ IsFiniteSet(s.exited) /\ Cardinality(s.exited) \in Nat
        /\ Len(s.entries) \in Nat
    <2>1. s.entries \in Seq(E \cup {None})
      BY DEF Exact
    <2> QED  BY <2>1, ClosedKeys, LenProperties
  <1>2. Exact(q, E) /\ q.exited \in SUBSET s.exited /\ Cardinality(q.exited) = Cardinality(s.exited) - n
    BY DEF Evicted
  <1>3. IsFiniteSet(q.exited) /\ q.exited # {}
    <2>1. IsFiniteSet(q.exited)
      BY <1>1, <1>2, FS_Subset
    <2>2. Cardinality(q.exited) # 0
      BY <1>1, <1>2
    <2> QED  BY <2>1, <2>2, FS_EmptySet
  <1>4. /\ Exact(r, E) /\ r.base = q.base /\ Len(r.entries) = Len(q.entries)
        /\ key \in q.exited /\ (\A y \in q.exited : key <= y) /\ r.exited = q.exited \ {key}
        /\ i \in ClosedIn(q.entries)
        /\ \A j \in 1..Len(q.entries) : r.entries[j] = IF j = i THEN None ELSE q.entries[j]
    BY <1>2, <1>3, EvictExact
  <1> HIDE DEF r, key, i
  <1>5. /\ q.base = s.base /\ Len(q.entries) = Len(s.entries)
        /\ \A j \in 1..Len(s.entries) : q.entries[j] \in {s.entries[j], None}
        /\ \A j \in Occupied(s.entries) \ ClosedIn(s.entries) : q.entries[j] = s.entries[j]
        /\ \A x \in s.exited \ q.exited, y \in q.exited : x < y
    BY DEF Evicted
  <1>6. \A j \in 1..Len(s.entries) : r.entries[j] \in {s.entries[j], None}
    BY <1>4, <1>5
  <1>7. ASSUME NEW j \in Occupied(s.entries) \ ClosedIn(s.entries)
        PROVE  r.entries[j] = s.entries[j]
    <2>1. j \in 1..Len(s.entries) /\ q.entries[j] = s.entries[j] /\ s.entries[j].open
      BY <1>5 DEF Occupied, ClosedIn
    <2>2. j # i
      BY <1>4, <2>1 DEF ClosedIn
    <2> QED  BY <1>4, <1>5, <2>1, <2>2
  <1>8. Cardinality(r.exited) = Cardinality(s.exited) - (n + 1)
    <2>1. Cardinality(q.exited \ {key}) = Cardinality(q.exited) - 1
      BY <1>3, <1>4, FS_RemoveElement
    <2> QED  BY <1>1, <1>2, <1>4, <2>1
  <1>9. r.exited \in SUBSET s.exited
    BY <1>2, <1>4
  <1>10. ASSUME NEW x \in s.exited \ r.exited, NEW y \in r.exited PROVE x < y
    <2>1. y \in q.exited /\ y # key /\ key <= y /\ y \in Nat /\ key \in Nat
      BY <1>1, <1>2, <1>4
    <2>2. CASE x = key
      BY <2>1, <2>2
    <2>3. CASE x # key
      <3>1. x \in s.exited \ q.exited
        BY <1>4, <2>3
      <3> QED  BY <1>5, <2>1, <3>1
    <2> QED  BY <2>2, <2>3
  <1>11. Exact(r, E) /\ r.base = s.base /\ Len(r.entries) = Len(s.entries)
    BY <1>4, <1>5
  <1>12. Evicted(s, r, n + 1, E)
    BY <1>6, <1>7, <1>8, <1>9, <1>10, <1>11 DEF Evicted
  <1> QED  BY <1>12 DEF r

LEMMA EvictTimesEvicted ==
    ASSUME NEW E, NEW s, Exact(s, E), NEW n \in 0..Cardinality(s.exited)
    PROVE  Evicted(s, EvictTimes(s, n), n, E)
  <1>1. Cardinality(s.exited) \in Nat /\ n \in Nat
    BY ClosedKeys
  <1>2. PICK turn : EvictTurns(s, n, turn) /\ EvictTimes(s, n) = turn[n]
    BY <1>1, EvictTurnsExist
  <1>3. turn[0] = s /\ \A k \in 1..n : turn[k] = Evict(turn[k - 1])
    BY <1>1, <1>2 DEF EvictTurns
  <1> DEFINE T == {k \in Nat : k <= n => Evicted(s, turn[k], k, E)}
  <1>4. 0 \in T
    <2>1. s.exited \in SUBSET s.exited /\ Cardinality(s.exited) = Cardinality(s.exited) - 0
      BY <1>1
    <2>2. Evicted(s, s, 0, E)
      BY <2>1 DEF Evicted
    <2> QED  BY <1>3, <2>2
  <1>5. ASSUME NEW k \in T PROVE k + 1 \in T
    <2> SUFFICES ASSUME k + 1 <= n PROVE Evicted(s, turn[k + 1], k + 1, E)
      OBVIOUS
    <2>1. k \in Nat /\ k <= n /\ k < Cardinality(s.exited) /\ k + 1 \in 1..n /\ (k + 1) - 1 = k
      BY <1>1
    <2>2. Evicted(s, turn[k], k, E)
      BY <2>1
    <2>3. turn[k + 1] = Evict(turn[k])
      BY <1>3, <2>1
    <2> HIDE DEF T
    <2> QED  BY <2>1, <2>2, <2>3, EvictOnce
  <1>6. n \in T
    <2> HIDE DEF T
    <2>1. T \in SUBSET Nat
      BY DEF T
    <2> QED  BY <1>1, <1>4, <1>5, <2>1, SetInduction
  <1>7. n <= n
    BY <1>1
  <1> QED  BY <1>2, <1>6, <1>7

-----------------------------------------------------------------------------
(* Vacant slots leave, and the sequence the buffer stands for stays         *)

Contents(s) == Pick(s, Occupied(s))

LEMMA ContentsSeq ==
    ASSUME NEW E, None \notin E, NEW s \in Seq(E \cup {None})
    PROVE  /\ Contents(s) \in Seq(E) /\ Len(Contents(s)) = Cardinality(Occupied(s))
           /\ Cardinality(Occupied(s)) \in Nat
           /\ \A n \in 1..Cardinality(Occupied(s)) :
                 /\ Nth(Occupied(s), n) \in Occupied(s) /\ Nth(Occupied(s), n) \in 1..Len(s)
                 /\ Contents(s)[n] = s[Nth(Occupied(s), n)]
           /\ \A i, j \in 1..Cardinality(Occupied(s)) :
                 i < j => Nth(Occupied(s), i) < Nth(Occupied(s), j)
           /\ \A p \in Occupied(s) : \E n \in 1..Cardinality(Occupied(s)) : Nth(Occupied(s), n) = p
  <1> DEFINE P == Occupied(s)
             c == Pick(s, P)
             m == Cardinality(P)
  <1>1. P \in SUBSET (1..Len(s)) /\ P \in SUBSET Nat /\ IsFiniteSet(P) /\ m \in Nat
    BY Slots
  <1>2. c \in Seq(E \cup {None}) /\ Len(c) = m /\ \A n \in 1..m : Nth(P, n) \in P /\ Nth(P, n) \in 1..Len(s) /\ c[n] = s[Nth(P, n)]
    BY <1>1, Picked
  <1>3. /\ \A i, j \in 1..m : i < j => Nth(P, i) < Nth(P, j)
        /\ \A p \in P : \E n \in 1..m : Nth(P, n) = p
    BY <1>1, NthProperties
  <1>4. \A n \in 1..m : c[n] \in E
    <2> TAKE n \in 1..m
    <2>1. Nth(P, n) \in P /\ c[n] = s[Nth(P, n)] /\ Nth(P, n) \in 1..Len(s)
      BY <1>2
    <2>2. s[Nth(P, n)] # None
      BY <2>1 DEF Occupied
    <2>3. c[n] \in E \cup {None}
      <3> HIDE DEF c, m
      <3> QED  BY <1>2, ElementOfSeq
    <2> QED  BY <2>1, <2>2, <2>3
  <1>5. c \in Seq(E)
    <2> HIDE DEF c, m
    <2>1. c = [n \in 1..m |-> c[n]]
      BY <1>2, LenProperties
    <2>2. c \in [1..m -> E]
      BY <1>4, <2>1
    <2> QED  BY <1>1, <2>2, SeqDef
  <1> QED  BY <1>1, <1>2, <1>3, <1>5 DEF Contents

(* Two deques have the same contents if an increasing function takes the    *)
(* occupied slots of one to those of the other and their entries agree.     *)
LEMMA ContentsDropped ==
    ASSUME NEW E, None \notin E, NEW s \in Seq(E \cup {None}),
           NEW g \in 0..Len(s), \A i \in Occupied(s) : i > g
    PROVE  Contents(SubSeq(s, g + 1, Len(s))) = Contents(s)
  <1> DEFINE r == SubSeq(s, g + 1, Len(s))
             P == Occupied(s)
             m == Cardinality(P)
             f == [n \in 1..m |-> Nth(P, n) - g]
  <1>1. /\ r \in Seq(E \cup {None}) /\ Occupied(r) = {i - g : i \in P}
        /\ Len(r) = Len(s) - g /\ \A i \in 1..Len(r) : r[i] = s[i + g]
    BY Dropped
  <1>2. /\ m \in Nat
        /\ \A n \in 1..m : Nth(P, n) \in P /\ Nth(P, n) \in 1..Len(s) /\ Contents(s)[n] = s[Nth(P, n)]
        /\ \A i, j \in 1..m : i < j => Nth(P, i) < Nth(P, j)
        /\ \A p \in P : \E n \in 1..m : Nth(P, n) = p
        /\ Contents(s) \in Seq(E) /\ Len(Contents(s)) = m
    BY ContentsSeq
  <1>3. Occupied(r) \in SUBSET Nat /\ Occupied(r) \in SUBSET (1..Len(r)) /\ Len(s) \in Nat
    BY <1>1, Slots
  <1> HIDE DEF r, P, m
  <1>4. f \in [1..m -> Occupied(r)]
    BY <1>1, <1>2
  <1>5. \A i, j \in 1..m : i < j => f[i] < f[j]
    <2> TAKE i, j \in 1..m
    <2>1. Nth(P, i) \in Nat /\ Nth(P, j) \in Nat /\ g \in Nat
      BY <1>2, <1>3
    <2> QED  BY <1>2, <2>1
  <1>6. \A p \in Occupied(r) : \E n \in 1..m : f[n] = p
    BY <1>1, <1>2
  <1>7. ASSUME NEW n \in 1..m PROVE r[f[n]] = Contents(s)[n]
    <2>1. f[n] \in 1..Len(r) /\ Nth(P, n) \in Nat /\ f[n] = Nth(P, n) - g
      <3>1. f[n] = Nth(P, n) - g
        OBVIOUS
      <3>2. Nth(P, n) \in Nat
        BY <1>2, <1>3
      <3> HIDE DEF f
      <3>3. f[n] \in 1..Len(r)
        BY <1>3, <1>4
      <3> QED  BY <3>1, <3>2, <3>3
    <2>2. f[n] + g = Nth(P, n)
      BY <1>3, <2>1
    <2>3. r[f[n]] = s[f[n] + g]
      BY <1>1, <2>1
    <2> QED  BY <1>2, <2>2, <2>3
  <1> HIDE DEF f
  <1>8. Contents(r) = [n \in 1..m |-> r[f[n]]]
    <2>1. m \in Nat /\ Occupied(r) \in SUBSET Nat
      BY <1>2, <1>3
    <2>2. Cardinality(Occupied(r)) = m /\ \A n \in 1..m : Nth(Occupied(r), n) = f[n]
      BY <1>4, <1>5, <1>6, <2>1, Enumerates
    <2> QED  BY <2>2 DEF Contents, Pick
  <1>9. Contents(s) = [n \in 1..m |-> Contents(s)[n]]
    BY <1>2, LenProperties
  <1>10. Contents(r) = Contents(s)
    BY <1>7, <1>8, <1>9
  <1> QED  BY <1>10 DEF r

LEMMA PopVacantExact ==
    ASSUME NEW E, None \notin E, NEW s, Exact(s, E)
    PROVE  LET r == PopVacant(s)
           IN  /\ Exact(r, E) /\ Contents(r.entries) = Contents(s.entries)
               /\ r.len = s.len /\ r.exited = s.exited
               /\ r.base + Len(r.entries) = s.base + Len(s.entries)
               /\ Len(r.entries) <= Len(s.entries)
  <1> DEFINE e == s.entries
             b == s.base
             g == IF Occupied(e) = {} THEN Len(e) ELSE Min(Occupied(e)) - 1
             f == SubSeq(e, g + 1, Len(e))
             x == s.exited
             n == Cardinality(Occupied(e))
             I == IndexOf(e, b)
  <1>1. /\ s = [entries |-> e, byId |-> I, exited |-> x, base |-> b, len |-> n]
        /\ e \in Seq(E \cup {None}) /\ b \in Nat
        /\ x = {b + j - 1 : j \in ClosedIn(e)}
    BY DEF Exact
  <1>2. Len(e) \in Nat /\ Occupied(e) \in SUBSET (1..Len(e)) /\ Occupied(e) \in SUBSET Nat
    BY <1>1, Slots
  <1>3. g \in 0..Len(e) /\ \A i \in Occupied(e) : i > g
    <2> HIDE DEF e
    <2>1. CASE Occupied(e) = {}
      BY <1>2, <2>1
    <2>2. CASE Occupied(e) # {}
      <3>1. Min(Occupied(e)) \in Occupied(e) /\ \A y \in Occupied(e) : Min(Occupied(e)) <= y
        BY <1>2, <2>2, MinLeast
      <3>2. Min(Occupied(e)) \in 1..Len(e) /\ g = Min(Occupied(e)) - 1
        BY <1>2, <2>2, <3>1
      <3> QED  BY <1>2, <3>1, <3>2
    <2> QED  BY <2>1, <2>2
  <1>4. PopVacant(s) = [entries |-> f, byId |-> I, exited |-> x, base |-> b + g, len |-> n]
    <2> DEFINE s1 == [s EXCEPT !.entries = f]
               c == b + g
    <2>1. PopVacant(s) = [s1 EXCEPT !.base = c]
      BY DEF PopVacant
    <2>2. s = [entries |-> e, byId |-> I, exited |-> x, base |-> b, len |-> n]
      BY <1>1
    <2> HIDE DEF e, b, f, x, n, I, c
    <2>4. s1 = [entries |-> f, byId |-> I, exited |-> x, base |-> b, len |-> n]
      BY <2>2
    <2> HIDE DEF s1
    <2>3. [s1 EXCEPT !.base = c] = [entries |-> f, byId |-> I, exited |-> x, base |-> c, len |-> n]
      BY <2>4
    <2> QED  BY <2>1, <2>3 DEF c
  <1> HIDE DEF e, b, g, x, n, I
  <1>5. /\ f \in Seq(E \cup {None}) /\ Len(f) = Len(e) - g
        /\ \A i \in 1..Len(f) : f[i] = e[i + g]
        /\ \A i \in Nat : i \in Occupied(f) <=> i + g \in Occupied(e)
        /\ Occupied(f) = {i - g : i \in Occupied(e)}
        /\ Cardinality(Occupied(f)) = Cardinality(Occupied(e))
    BY <1>1, <1>3, Dropped
  <1>6. IndexOf(f, b + g) = I
    BY <1>1, <1>3, IndexDropped DEF I
  <1>7. Contents(f) = Contents(e)
    BY <1>1, <1>3, ContentsDropped
  <1> HIDE DEF f
  <1>8. x = {(b + g) + j - 1 : j \in ClosedIn(f)}
    <2>1. ASSUME NEW i \in Occupied(e)
          PROVE  i - g \in Occupied(f) /\ f[i - g] = e[i] /\ (b + g) + (i - g) - 1 = b + i - 1
      <3>1. i \in 1..Len(e) /\ i > g /\ g \in Nat
        BY <1>2, <1>3
      <3>2. i - g \in 1..Len(f) /\ (i - g) + g = i
        BY <1>2, <1>5, <3>1
      <3> QED  BY <1>1, <1>5, <3>1, <3>2
    <2>2. ClosedIn(f) = {i - g : i \in ClosedIn(e)}
      BY <1>5, <2>1 DEF ClosedIn
    <2>3. \A i \in ClosedIn(e) : i \in Occupied(e)
      BY DEF ClosedIn
    <2> QED  BY <1>1, <2>1, <2>2, <2>3
  <1>9. Exact(PopVacant(s), E)
    <2> DEFINE c == b + g
    <2>1. c \in Nat /\ f \in Seq(E \cup {None})
      BY <1>1, <1>2, <1>3, <1>5
    <2>2. n = Cardinality(Occupied(f))
      BY <1>5 DEF n
    <2>3. I = IndexOf(f, c) /\ x = {c + j - 1 : j \in ClosedIn(f)}
      BY <1>6, <1>8
    <2> HIDE DEF c
    <2>4. Exact([entries |-> f, byId |-> I, exited |-> x, base |-> c, len |-> n], E)
      BY <2>1, <2>2, <2>3, ExactIs
    <2> QED  BY <1>4, <2>4 DEF c
  <1>10. /\ PopVacant(s).entries = f /\ PopVacant(s).base = b + g
         /\ PopVacant(s).len = n /\ PopVacant(s).exited = x
    BY <1>4
  <1>11. (b + g) + Len(f) = b + Len(e) /\ Len(f) <= Len(e)
    BY <1>1, <1>2, <1>3, <1>5
  <1>12. s.len = n /\ s.exited = x /\ s.base = b /\ s.entries = e
    BY <1>1 DEF e, b
  <1> QED  BY <1>7, <1>9, <1>10, <1>11, <1>12

(* A deque without vacant slots is its own contents.                        *)
LEMMA FullDeque ==
    ASSUME NEW E, None \notin E, NEW s \in Seq(E)
    PROVE  /\ s \in Seq(E \cup {None}) /\ Len(s) \in Nat
           /\ Occupied(s) = 1..Len(s) /\ Cardinality(Occupied(s)) = Len(s)
           /\ Contents(s) = s /\ \A n \in 1..Len(s) : Nth(Occupied(s), n) = n
  <1>1. s \in Seq(E \cup {None})
    BY SeqMonotonic
  <1>2. Len(s) \in Nat /\ \A i \in 1..Len(s) : s[i] \in E
    BY LenProperties, ElementOfSeq
  <1>3. Occupied(s) = 1..Len(s)
    BY <1>2 DEF Occupied
  <1>4. Cardinality(Occupied(s)) = Len(s)
    <2> DEFINE n == Len(s)
    <2>1. n \in Nat
      BY <1>2
    <2> HIDE DEF n
    <2>2. Cardinality(1..n) = n
      BY <2>1, FS_Interval
    <2> QED  BY <1>3, <2>2 DEF n
  <1>5. Occupied(s) \in SUBSET (1..Len(s))
    BY <1>3
  <1>6. Pick(s, Occupied(s)) = s /\ \A n \in 1..Len(s) : Nth(Occupied(s), n) = n
    BY <1>4, <1>5, PickAll
  <1> QED  BY <1>1, <1>2, <1>3, <1>4, <1>6 DEF Contents

LEMMA CompactExact ==
    ASSUME NEW E, None \notin E, NEW s, Exact(s, E)
    PROVE  LET r == Compact(s)
           IN  /\ Exact(r, E) /\ r.entries = Contents(s.entries)
               /\ Contents(r.entries) = Contents(s.entries)
               /\ r.base = 0 /\ r.len = s.len /\ Len(r.entries) = s.len
               /\ s.len \in Nat /\ s.len <= Len(s.entries)
  <1> DEFINE c == Contents(s.entries)
             I == IndexOf(c, 0)
             x == {i - 1 : i \in {k \in 1..Len(c) : ~c[k].open}}
             n == s.len
  <1>1. s.entries \in Seq(E \cup {None}) /\ n = Cardinality(Occupied(s.entries))
    BY DEF Exact
  <1>2. c \in Seq(E) /\ Len(c) = n /\ n \in Nat /\ n <= Len(s.entries)
    <2> HIDE DEF n, c
    <2> QED  BY <1>1, ContentsSeq, Slots DEF c
  <1>3. Compact(s) = [entries |-> c, byId |-> I, exited |-> x, base |-> 0, len |-> n]
    BY DEF Compact, Contents
  <1> HIDE DEF c, I, n
  <1>4. /\ c \in Seq(E \cup {None}) /\ Occupied(c) = 1..Len(c)
        /\ Cardinality(Occupied(c)) = Len(c) /\ Contents(c) = c
    BY <1>2, FullDeque
  <1>5. x = {0 + i - 1 : i \in ClosedIn(c)}
    <2>1. \A i \in 1..Len(c) : 0 + i - 1 = i - 1
      BY <1>2
    <2> QED  BY <1>4, <2>1 DEF ClosedIn
  <1> HIDE DEF x
  <1>6. Exact(Compact(s), E)
    <2>1. Exact([entries |-> c, byId |-> I, exited |-> x, base |-> 0, len |-> n], E)
      <3>1. c \in Seq(E \cup {None}) /\ 0 \in Nat /\ I = IndexOf(c, 0) /\ n = Cardinality(Occupied(c))
        BY <1>2, <1>4 DEF I
      <3> QED  BY <1>5, <3>1, ExactIs
    <2> QED  BY <1>3, <2>1
  <1>7. /\ Compact(s).entries = c /\ Compact(s).base = 0 /\ Compact(s).len = n
    BY <1>3
  <1> QED  BY <1>2, <1>4, <1>6, <1>7 DEF c, n

LEMMA SettleExact ==
    ASSUME NEW E, None \notin E, NEW s, Exact(s, E)
    PROVE  LET r == Settle(s)
           IN  /\ Exact(r, E) /\ Contents(r.entries) = Contents(s.entries)
               /\ Len(r.entries) - r.len <= IF r.len > CompactAbove THEN r.len ELSE CompactAbove
               /\ r.base + Len(r.entries) <= s.base + Len(s.entries)
  <1>1. /\ s.entries \in Seq(E \cup {None}) /\ Len(s.entries) \in Nat /\ s.base \in Nat
        /\ s.len \in Nat /\ s.len <= Len(s.entries) /\ s.len = Cardinality(Occupied(s.entries))
    <2>1. s.entries \in Seq(E \cup {None}) /\ s.base \in Nat /\ s.len = Cardinality(Occupied(s.entries))
      BY DEF Exact
    <2> QED  BY <2>1, Slots
  <1>2. CASE s.entries = <<>>
    <2> DEFINE n == s.len
    <2>1. Occupied(<<>>) = {} /\ Len(<<>>) = 0
      BY EmptySeq DEF Occupied
    <2>2. ClosedIn(<<>>) = {}
      BY <2>1 DEF ClosedIn
    <2>3. s = [entries |-> <<>>, byId |-> s.byId, exited |-> s.exited, base |-> s.base, len |-> n]
      BY <1>2 DEF Exact
    <2>4. s.byId = IndexOf(<<>>, 0)
      <3>1. s.byId = IndexOf(<<>>, s.base)
        BY <1>2 DEF Exact
      <3> QED  BY <2>1, <3>1 DEF IndexOf
    <2>5. s.exited = {0 + i - 1 : i \in ClosedIn(<<>>)}
      <3>1. s.exited = {s.base + i - 1 : i \in ClosedIn(<<>>)}
        BY <1>2 DEF Exact
      <3> QED  BY <2>2, <3>1
    <2>6. n = Cardinality(Occupied(<<>>)) /\ n = 0
      BY <1>1, <1>2, <2>1, FS_EmptySet
    <2>7. Settle(s) = [entries |-> <<>>, byId |-> s.byId, exited |-> s.exited, base |-> 0, len |-> n]
      <3> DEFINE I == s.byId
                 x == s.exited
                 b == s.base
      <3>1. Settle(s) = [s EXCEPT !.base = 0]
        BY <1>2 DEF Settle
      <3>2. s = [entries |-> <<>>, byId |-> I, exited |-> x, base |-> b, len |-> n]
        BY <2>3
      <3> HIDE DEF I, x, b, n
      <3>3. [s EXCEPT !.base = 0] = [entries |-> <<>>, byId |-> I, exited |-> x, base |-> 0, len |-> n]
        BY <3>2
      <3> QED  BY <3>1, <3>3 DEF I, x
    <2>8. <<>> \in Seq(E \cup {None}) /\ 0 \in Nat
      BY <1>1, <1>2
    <2>9. Exact(Settle(s), E)
      <3> DEFINE I == s.byId
                 x == s.exited
      <3>1. I = IndexOf(<<>>, 0) /\ x = {0 + i - 1 : i \in ClosedIn(<<>>)} /\ n = Cardinality(Occupied(<<>>))
        BY <2>4, <2>5, <2>6
      <3> HIDE DEF I, x, n
      <3>2. Exact([entries |-> <<>>, byId |-> I, exited |-> x, base |-> 0, len |-> n], E)
        BY <2>8, <3>1, ExactIs
      <3> QED  BY <2>7, <3>2 DEF I, x
    <2>10. Settle(s).entries = <<>> /\ Settle(s).base = 0 /\ Settle(s).len = 0
      BY <2>6, <2>7
    <2> QED  BY <1>1, <1>2, <2>1, <2>9, <2>10, ScopeBufferAssumption
  <1>3. CASE s.entries # <<>> /\ Len(s.entries) > CompactAbove /\ Len(s.entries) - s.len > s.len
    <2>1. Settle(s) = Compact(s)
      BY <1>3 DEF Settle
    <2>2. /\ Exact(Compact(s), E) /\ Contents(Compact(s).entries) = Contents(s.entries)
          /\ Compact(s).base = 0 /\ Compact(s).len = s.len /\ Len(Compact(s).entries) = s.len
      BY CompactExact
    <2> DEFINE n == s.len
               l == Len(s.entries)
    <2>3. n \in Nat /\ l \in Nat /\ n <= l /\ CompactAbove \in Nat
      BY <1>1, ScopeBufferAssumption
    <2>4. n - n <= (IF n > CompactAbove THEN n ELSE CompactAbove) /\ 0 + n <= s.base + l
      <3>1. s.base \in Nat
        BY <1>1
      <3> HIDE DEF n, l
      <3> QED  BY <2>3, <3>1
    <2> QED  BY <2>1, <2>2, <2>4
  <1>4. CASE s.entries # <<>> /\ ~ (Len(s.entries) > CompactAbove /\ Len(s.entries) - s.len > s.len)
    <2>1. Settle(s) = s
      BY <1>4 DEF Settle
    <2> QED  BY <1>1, <1>4, <2>1, ScopeBufferAssumption
  <1> QED  BY <1>2, <1>3, <1>4

-----------------------------------------------------------------------------
(* Evicting by least key is trimming the contents                           *)

Over(s, max) == IF Cardinality(s.exited) - max > 0 THEN Cardinality(s.exited) - max ELSE 0

(* A closed scope stays if fewer than max closed ones have a greater key.   *)
LEMMA StaysIfFewAbove ==
    ASSUME NEW E, NEW s, Exact(s, E), NEW max \in Nat,
           NEW r, Evicted(s, r, Over(s, max), E), NEW x \in s.exited
    PROVE  x \in r.exited <=> ~ (Cardinality(Above(s.exited, x)) >= max)
  <1>1. s.exited \in SUBSET Nat /\ IsFiniteSet(s.exited) /\ Cardinality(s.exited) \in Nat
    BY ClosedKeys
  <1> DEFINE n == Over(s, max)
  <1>2. /\ r.exited \in SUBSET s.exited /\ Cardinality(r.exited) = Cardinality(s.exited) - n
        /\ \A a \in s.exited \ r.exited, b \in r.exited : a < b
    BY DEF Evicted
  <1>3. IsFiniteSet(r.exited) /\ Cardinality(r.exited) \in Nat
    <2>1. IsFiniteSet(r.exited)
      BY <1>1, <1>2, FS_Subset
    <2> QED  BY <2>1, FS_CardinalityType
  <1>4. Cardinality(r.exited) <= max
    BY <1>1, <1>2 DEF Over
  <1>5. IsFiniteSet(Above(s.exited, x)) /\ Cardinality(Above(s.exited, x)) \in Nat
    <2>1. IsFiniteSet(Above(s.exited, x))
      BY <1>1, Ranks
    <2> QED  BY <2>1, FS_CardinalityType
  <1>6. ASSUME x \in r.exited PROVE Cardinality(Above(s.exited, x)) < max
    <2>1. Above(s.exited, x) \in SUBSET (r.exited \ {x})
      <3> SUFFICES ASSUME NEW y \in s.exited, y > x PROVE y \in r.exited /\ y # x
        BY DEF Above
      <3>1. y \in Nat /\ x \in Nat
        BY <1>1
      <3>2. ~ (y < x)
        BY <3>1
      <3> QED  BY <1>2, <1>6, <3>1, <3>2
    <2>2. IsFiniteSet(r.exited \ {x}) /\ Cardinality(r.exited \ {x}) = Cardinality(r.exited) - 1
      BY <1>3, <1>6, FS_RemoveElement
    <2>3. Cardinality(Above(s.exited, x)) <= Cardinality(r.exited) - 1
      BY <2>1, <2>2, FS_Subset
    <2> QED  BY <1>3, <1>4, <1>5, <2>3
  <1>7. ASSUME x \notin r.exited PROVE Cardinality(Above(s.exited, x)) >= max
    <2>1. Cardinality(r.exited) # Cardinality(s.exited)
      BY <1>1, <1>2, <1>7, FS_Subset
    <2>2. Cardinality(r.exited) = max
      BY <1>1, <1>2, <2>1 DEF Over
    <2>3. r.exited \in SUBSET Above(s.exited, x)
      <3> SUFFICES ASSUME NEW y \in r.exited PROVE y \in s.exited /\ y > x
        BY DEF Above
      <3>1. y \in s.exited /\ x < y /\ x \in Nat /\ y \in Nat
        BY <1>1, <1>2, <1>7
      <3> QED  BY <3>1
    <2>4. Cardinality(r.exited) <= Cardinality(Above(s.exited, x))
      BY <1>5, <2>3, FS_Subset
    <2> QED  BY <1>5, <2>2, <2>4
  <1> QED  BY <1>5, <1>6, <1>7

ClosedAt(c)  == {k \in 1..Len(c) : ~c[k].open}
Gone(c, max) == {k \in ClosedAt(c) : Cardinality({j \in ClosedAt(c) : j > k}) >= max}

(* The keys of closed scopes are in the order of their positions.           *)
LEMMA ClosedInOrder ==
    ASSUME NEW E, None \notin E, NEW s, Exact(s, E),
           NEW k \in 1..Cardinality(Occupied(s.entries))
    PROVE  LET c   == Contents(s.entries)
               key == s.base + Nth(Occupied(s.entries), k) - 1
           IN  /\ k \in ClosedAt(c) <=> key \in s.exited
               /\ k \in ClosedAt(c) => Cardinality({j \in ClosedAt(c) : j > k}) = Cardinality(Above(s.exited, key))
  <1> DEFINE e == s.entries
             c == Contents(e)
             P == Occupied(e)
             m == Cardinality(P)
             key == [j \in 1..m |-> s.base + Nth(P, j) - 1]
             L == {j \in ClosedAt(c) : j > k}
             U == Above(s.exited, key[k])
  <1>1. e \in Seq(E \cup {None}) /\ s.base \in Nat /\ Len(e) \in Nat
    BY LenProperties DEF Exact
  <1>2. /\ m \in Nat /\ Len(c) = m
        /\ \A j \in 1..m : Nth(P, j) \in P /\ Nth(P, j) \in 1..Len(e) /\ c[j] = e[Nth(P, j)]
        /\ \A i, j \in 1..m : i < j => Nth(P, i) < Nth(P, j)
        /\ \A p \in P : \E j \in 1..m : Nth(P, j) = p
    BY <1>1, ContentsSeq
  <1>3. /\ ClosedIn(e) \in SUBSET P
        /\ s.exited \in SUBSET Nat /\ IsFiniteSet(s.exited)
        /\ \A x \in s.exited : x - s.base + 1 \in ClosedIn(e)
        /\ \A i \in 1..Len(e) : i \in ClosedIn(e) <=> s.base + i - 1 \in s.exited
    BY ClosedKeys
  <1> HIDE DEF P, m, e, c
  <1>4. ASSUME NEW j \in 1..m PROVE j \in ClosedAt(c) <=> key[j] \in s.exited
    <2>1. Nth(P, j) \in P /\ Nth(P, j) \in 1..Len(e) /\ c[j] = e[Nth(P, j)]
      BY <1>2
    <2>2. j \in ClosedAt(c) <=> Nth(P, j) \in ClosedIn(e)
      BY <1>2, <2>1 DEF ClosedAt, ClosedIn, P
    <2>3. Nth(P, j) \in ClosedIn(e) <=> key[j] \in s.exited
      BY <1>3, <2>1
    <2> QED  BY <2>2, <2>3
  <1>5. ASSUME NEW i \in 1..m, NEW j \in 1..m
        PROVE  (i < j <=> key[i] < key[j]) /\ key[i] \in Int
    <2>1. key[i] = s.base + Nth(P, i) - 1 /\ key[j] = s.base + Nth(P, j) - 1
      OBVIOUS
    <2>2. Nth(P, i) \in Nat /\ Nth(P, j) \in Nat
      BY <1>1, <1>2
    <2>3. i < j => Nth(P, i) < Nth(P, j)
      BY <1>2
    <2>4. j < i => Nth(P, j) < Nth(P, i)
      BY <1>2
    <2>5. i = j => Nth(P, i) = Nth(P, j)
      OBVIOUS
    <2>6. i \in Nat /\ j \in Nat
      OBVIOUS
    <2> HIDE DEF key
    <2> QED  BY <1>1, <2>1, <2>2, <2>3, <2>4, <2>5, <2>6
  <1>6. ASSUME NEW x \in s.exited PROVE \E j \in 1..m : key[j] = x
    <2>1. x \in Nat /\ x - s.base + 1 \in P
      BY <1>3
    <2>2. PICK j \in 1..m : Nth(P, j) = x - s.base + 1
      BY <1>2, <2>1
    <2>3. key[j] = s.base + (x - s.base + 1) - 1
      BY <2>2
    <2> QED  BY <1>1, <2>1, <2>3
  <1>7. ClosedAt(c) \in SUBSET (1..m)
    BY <1>2 DEF ClosedAt
  <1> HIDE DEF key
  <1>8. Cardinality(L) = Cardinality(U)
    <2> DEFINE f == [j \in L |-> key[j]]
    <2>1. \A j \in L : key[j] \in U
      <3> TAKE j \in L
      <3>1. j \in 1..m /\ j \in ClosedAt(c) /\ j > k /\ k \in 1..m
        BY <1>7 DEF P, m, e
      <3>2. key[j] \in s.exited /\ key[k] < key[j] /\ key[k] \in Int /\ key[j] \in Int
        <4>1. k < j
          BY <3>1
        <4> QED  BY <1>4, <1>5, <3>1, <4>1
      <3> QED  BY <3>2 DEF Above
    <2>2. \A i, j \in L : f[i] = f[j] => i = j
      <3> TAKE i, j \in L
      <3>1. i \in 1..m /\ j \in 1..m /\ f[i] = key[i] /\ f[j] = key[j]
        BY <1>7
      <3>2. (i < j <=> key[i] < key[j]) /\ (j < i <=> key[j] < key[i]) /\ key[i] \in Int
        BY <1>5, <3>1
      <3> HIDE DEF f
      <3> QED  BY <3>1, <3>2
    <2>3. \A x \in U : \E j \in L : f[j] = x
      <3> TAKE x \in U
      <3>1. x \in s.exited /\ x > key[k] /\ x \in Nat
        BY <1>3 DEF Above
      <3>2. PICK j \in 1..m : key[j] = x
        BY <1>6, <3>1
      <3>3. j \in ClosedAt(c) /\ k \in 1..m
        BY <1>4, <3>1, <3>2 DEF P, m, e
      <3>4. key[k] < key[j] /\ key[k] \in Int
        BY <1>5, <3>1, <3>2, <3>3
      <3>5. k < j
        BY <1>5, <3>3, <3>4
      <3>6. j \in L
        BY <3>3, <3>5
      <3> QED  BY <3>2, <3>6
    <2>4. f \in Bijection(L, U)
      <3>1. f \in [L -> U]
        BY <2>1
      <3> HIDE DEF f
      <3> QED  BY <2>2, <2>3, <3>1 DEF Bijection, Injection, Surjection, IsInjective
    <2>5. ExistsBijection(L, U)
      BY <2>4 DEF ExistsBijection
    <2>6. IsFiniteSet(L)
      <3>1. IsFiniteSet(1..m)
        BY <1>2, FS_Interval
      <3>2. L \in SUBSET (1..m)
        BY <1>7
      <3> QED  BY <3>1, <3>2, FS_Subset
    <2> QED  BY <2>5, <2>6, FS_Bijection
  <1>9. k \in ClosedAt(c) <=> key[k] \in s.exited
    BY <1>4 DEF P, m, e
  <1>10. key[k] = s.base + Nth(Occupied(s.entries), k) - 1
    BY DEF key, P, m, e
  <1> QED  BY <1>8, <1>9, <1>10 DEF c, e

LEMMA EvictedContents ==
    ASSUME NEW E, None \notin E, NEW s, Exact(s, E), NEW max \in Nat,
           NEW r, Evicted(s, r, Over(s, max), E)
    PROVE  LET c == Contents(s.entries)
           IN  Contents(r.entries) = Pick(c, (1..Len(c)) \ Gone(c, max))
  <1> DEFINE e == s.entries
             d == r.entries
             c == Contents(e)
             P == Occupied(e)
             m == Cardinality(P)
             Q == (1..m) \ Gone(c, max)
             l == Cardinality(Q)
             f == [i \in 1..l |-> Nth(P, Nth(Q, i))]
  <1>1. /\ e \in Seq(E \cup {None}) /\ d \in Seq(E \cup {None}) /\ Len(d) = Len(e) /\ r.base = s.base
        /\ \A i \in 1..Len(e) : d[i] \in {e[i], None}
        /\ \A i \in P \ ClosedIn(e) : d[i] = e[i]
        /\ s.base \in Nat /\ Exact(r, E)
    BY DEF Exact, Evicted
  <1>2. /\ m \in Nat /\ Len(c) = m /\ c \in Seq(E)
        /\ \A j \in 1..m : Nth(P, j) \in P /\ Nth(P, j) \in 1..Len(e) /\ c[j] = e[Nth(P, j)]
        /\ \A i, j \in 1..m : i < j => Nth(P, i) < Nth(P, j)
        /\ \A p \in P : \E j \in 1..m : Nth(P, j) = p
    BY <1>1, ContentsSeq
  <1>3. ASSUME NEW k \in 1..m PROVE Nth(P, k) \in Occupied(d) <=> k \in Q
    <2> DEFINE p == Nth(P, k)
               key == s.base + p - 1
    <2>1. p \in P /\ p \in 1..Len(e) /\ d[p] \in {e[p], None} /\ e[p] # None
      BY <1>1, <1>2 DEF Occupied
    <2>2. /\ k \in ClosedAt(c) <=> key \in s.exited
          /\ k \in ClosedAt(c) => Cardinality({j \in ClosedAt(c) : j > k}) = Cardinality(Above(s.exited, key))
      BY ClosedInOrder
    <2>3. /\ p \in ClosedIn(e) <=> key \in s.exited
          /\ p \in ClosedIn(d) <=> key \in r.exited
      <3> HIDE DEF e, d, p
      <3>1. p \in 1..Len(e) /\ p \in 1..Len(d)
        BY <1>1, <2>1
      <3>2. p \in ClosedIn(e) <=> key \in s.exited
        BY <3>1, ClosedKeys DEF e
      <3>3. p \in ClosedIn(d) <=> r.base + p - 1 \in r.exited
        BY <1>1, <3>1, ClosedKeys DEF d
      <3> QED  BY <1>1, <3>2, <3>3
    <2> HIDE DEF e, d, c, P, m, p, key
    <2>4. CASE key \in s.exited
      <3>1. key \in r.exited <=> ~ (Cardinality(Above(s.exited, key)) >= max)
        BY <2>4, StaysIfFewAbove
      <3>2. k \in Gone(c, max) <=> key \notin r.exited
        BY <2>2, <2>4, <3>1 DEF Gone
      <3>3. p \in Occupied(d) <=> p \in ClosedIn(d)
        <4>1. p \in ClosedIn(e) /\ ~ e[p].open
          BY <2>3, <2>4 DEF ClosedIn
        <4> QED  BY <1>1, <2>1, <4>1 DEF ClosedIn, Occupied
      <3> QED  BY <2>3, <3>2, <3>3 DEF p
    <2>5. CASE key \notin s.exited
      <3>1. k \notin Gone(c, max)
        BY <2>2, <2>5 DEF Gone
      <3>2. p \in Occupied(d)
        <4>1. p \in P \ ClosedIn(e)
          BY <2>1, <2>3, <2>5
        <4>2. d[p] = e[p]
          BY <1>1, <4>1
        <4> QED  BY <1>1, <2>1, <4>2 DEF Occupied
      <3> QED  BY <3>1, <3>2 DEF p
    <2> QED  BY <2>4, <2>5
  <1>4. Occupied(d) \in SUBSET P /\ Occupied(d) \in SUBSET Nat
    <2>1. Occupied(d) \in SUBSET Nat
      BY <1>1, Slots
    <2>2. \A i \in Occupied(d) : i \in 1..Len(e) /\ e[i] # None
      <3> HIDE DEF e, d
      <3> QED  BY <1>1 DEF Occupied
    <2> QED  BY <2>1, <2>2 DEF Occupied
  <1>5. /\ Q \in SUBSET (1..m) /\ Q \in SUBSET Nat /\ IsFiniteSet(Q) /\ l \in Nat
        /\ \A i \in 1..l : Nth(Q, i) \in Q
        /\ \A i, j \in 1..l : i < j => Nth(Q, i) < Nth(Q, j)
        /\ \A q \in Q : \E i \in 1..l : Nth(Q, i) = q
    <2>1. IsFiniteSet(1..m)
      BY <1>2, FS_Interval
    <2>2. Q \in SUBSET (1..m) /\ Q \in SUBSET Nat
      BY <1>2
    <2>3. IsFiniteSet(Q)
      BY <2>1, <2>2, FS_Subset
    <2> HIDE DEF Q
    <2> QED  BY <2>2, <2>3, NthProperties
  <1> HIDE DEF e, d, c, P, m, Q, l
  <1>6. f \in [1..l -> Occupied(d)]
    <2>1. \A i \in 1..l : Nth(P, Nth(Q, i)) \in Occupied(d)
      BY <1>3, <1>5
    <2> QED  BY <2>1
  <1>7. \A i, j \in 1..l : i < j => f[i] < f[j]
    <2> TAKE i, j \in 1..l
    <2> HAVE i < j
    <2>1. Nth(Q, i) \in 1..m /\ Nth(Q, j) \in 1..m /\ Nth(Q, i) < Nth(Q, j)
      BY <1>5
    <2> QED  BY <1>2, <2>1
  <1>8. \A p \in Occupied(d) : \E i \in 1..l : f[i] = p
    <2> TAKE p \in Occupied(d)
    <2>1. PICK k \in 1..m : Nth(P, k) = p
      BY <1>2, <1>4
    <2>2. k \in Q
      BY <1>3, <2>1
    <2>3. PICK i \in 1..l : Nth(Q, i) = k
      BY <1>5, <2>2
    <2> QED  BY <2>1, <2>3
  <1>9. ASSUME NEW i \in 1..l PROVE d[f[i]] = c[Nth(Q, i)]
    <2>1. f[i] \in Occupied(d) /\ f[i] = Nth(P, Nth(Q, i)) /\ Nth(Q, i) \in 1..m
      BY <1>5, <1>6
    <2>2. d[f[i]] # None /\ f[i] \in 1..Len(e)
      <3> HIDE DEF f
      <3> QED  BY <1>1, <2>1 DEF Occupied
    <2>3. d[f[i]] = e[f[i]]
      <3> HIDE DEF f
      <3> QED  BY <1>1, <2>2
    <2> QED  BY <1>2, <2>1, <2>3
  <1> HIDE DEF f
  <1>10. Contents(d) = [i \in 1..l |-> d[f[i]]]
    <2>1. l \in Nat /\ Occupied(d) \in SUBSET Nat
      BY <1>4, <1>5
    <2>2. Cardinality(Occupied(d)) = l /\ \A i \in 1..l : Nth(Occupied(d), i) = f[i]
      BY <1>6, <1>7, <1>8, <2>1, Enumerates
    <2> QED  BY <2>2 DEF Contents, Pick
  <1>11. Pick(c, Q) = [i \in 1..l |-> c[Nth(Q, i)]]
    BY DEF Pick, l
  <1>12. Contents(d) = Pick(c, Q)
    BY <1>9, <1>10, <1>11
  <1> QED  BY <1>2, <1>12 DEF c, d, e, Q

(* The whole of trim.                                                       *)
Trimmed(s, max) ==
    LET over == Cardinality(s.exited) - max
    IN  Settle(PopVacant(IF over > 0 THEN EvictTimes(s, over) ELSE s))

LEMMA TrimmedExact ==
    ASSUME NEW E, None \notin E, NEW s, Exact(s, E), NEW max \in Nat
    PROVE  LET r == Trimmed(s, max)
               c == Contents(s.entries)
           IN  /\ Exact(r, E)
               /\ Contents(r.entries) = Pick(c, (1..Len(c)) \ Gone(c, max))
               /\ Len(r.entries) - r.len <= IF r.len > CompactAbove THEN r.len ELSE CompactAbove
               /\ r.base + Len(r.entries) <= s.base + Len(s.entries)
  <1> DEFINE over == Cardinality(s.exited) - max
             n == IF over > 0 THEN over ELSE 0
             q == IF over > 0 THEN EvictTimes(s, over) ELSE s
             p == PopVacant(q)
             r == Settle(p)
             c == Contents(s.entries)
  <1>1. Cardinality(s.exited) \in Nat
    BY ClosedKeys
  <1>2. n \in 0..Cardinality(s.exited) /\ n \in Nat
    BY <1>1
  <1>3. Evicted(s, q, n, E)
    <2>1. CASE over > 0
      BY <1>2, <2>1, EvictTimesEvicted
    <2>2. CASE ~ (over > 0)
      <3>1. Cardinality(s.exited) = Cardinality(s.exited) - 0
        BY <1>1
      <3>2. Evicted(s, s, 0, E)
        BY <3>1 DEF Evicted
      <3> QED  BY <2>2, <3>2
    <2> QED  BY <2>1, <2>2
  <1>4. Exact(q, E) /\ q.base = s.base /\ Len(q.entries) = Len(s.entries)
    BY <1>3 DEF Evicted
  <1>5. Contents(q.entries) = Pick(c, (1..Len(c)) \ Gone(c, max))
    <2>1. n = Over(s, max)
      BY DEF Over
    <2> HIDE DEF n, q
    <2> QED  BY <1>2, <1>3, <2>1, EvictedContents
  <1> HIDE DEF q
  <1>6. /\ Exact(p, E) /\ Contents(p.entries) = Contents(q.entries)
        /\ p.base + Len(p.entries) = q.base + Len(q.entries)
    BY <1>4, PopVacantExact
  <1> HIDE DEF p
  <1>7. /\ Exact(r, E) /\ Contents(r.entries) = Contents(p.entries)
        /\ Len(r.entries) - r.len <= IF r.len > CompactAbove THEN r.len ELSE CompactAbove
        /\ r.base + Len(r.entries) <= p.base + Len(p.entries)
    BY <1>6, SettleExact
  <1>8. Trimmed(s, max) = r
    BY DEF Trimmed, p, q
  <1> HIDE DEF r, c
  <1>9. r.base + Len(r.entries) <= s.base + Len(s.entries)
    BY <1>4, <1>6, <1>7
  <1> QED  BY <1>5, <1>6, <1>7, <1>8, <1>9 DEF c

-----------------------------------------------------------------------------
(* Pushing, replacing and looking up                                        *)

LEMMA ContentsPushed ==
    ASSUME NEW E, None \notin E, NEW s \in Seq(E \cup {None}), NEW e \in E
    PROVE  Contents(Append(s, e)) = Append(Contents(s), e)
  <1> DEFINE r == Append(s, e)
             P == Occupied(s)
             m == Cardinality(P)
             c == Contents(s)
             f == [n \in 1..(m + 1) |-> IF n <= m THEN Nth(P, n) ELSE Len(s) + 1]
  <1>1. /\ r \in Seq(E \cup {None}) /\ Len(r) = Len(s) + 1
        /\ \A i \in 1..Len(s) : r[i] = s[i]
        /\ r[Len(s) + 1] = e /\ Occupied(r) = P \cup {Len(s) + 1}
    <2>1. e \in E \cup {None} /\ e # None
      OBVIOUS
    <2> QED  BY <2>1, Pushed
  <1>2. /\ c \in Seq(E) /\ Len(c) = m /\ m \in Nat
        /\ \A n \in 1..m : Nth(P, n) \in P /\ Nth(P, n) \in 1..Len(s) /\ c[n] = s[Nth(P, n)]
        /\ \A i, j \in 1..m : i < j => Nth(P, i) < Nth(P, j)
        /\ \A p \in P : \E n \in 1..m : Nth(P, n) = p
    BY ContentsSeq
  <1>3. Occupied(r) \in SUBSET Nat /\ Len(s) \in Nat
    BY <1>1, Slots, LenProperties
  <1> HIDE DEF r, P, m, c
  <1>4. /\ \A n \in 1..m : f[n] = Nth(P, n)
        /\ f[m + 1] = Len(s) + 1
    BY <1>2
  <1>5. f \in [1..(m + 1) -> Occupied(r)]
    BY <1>1, <1>2
  <1> HIDE DEF f
  <1>6. \A i, j \in 1..(m + 1) : i < j => f[i] < f[j]
    <2> TAKE i, j \in 1..(m + 1)
    <2> HAVE i < j
    <2>1. i \in 1..m /\ f[i] = Nth(P, i) /\ Nth(P, i) \in 1..Len(s)
      BY <1>2, <1>4
    <2>2. CASE j \in 1..m
      BY <1>2, <1>4, <2>1, <2>2
    <2>3. CASE j = m + 1
      BY <1>3, <1>4, <2>1, <2>3
    <2> QED  BY <1>2, <2>2, <2>3
  <1>7. \A p \in Occupied(r) : \E n \in 1..(m + 1) : f[n] = p
    <2> TAKE p \in Occupied(r)
    <2>1. CASE p \in P
      <3>1. PICK n \in 1..m : Nth(P, n) = p
        BY <1>2, <2>1
      <3>2. n \in 1..(m + 1)
        BY <1>2
      <3> QED  BY <1>4, <3>1, <3>2
    <2>2. CASE p = Len(s) + 1
      <3>1. m + 1 \in 1..(m + 1)
        BY <1>2
      <3> QED  BY <1>4, <2>2, <3>1
    <2> QED  BY <1>1, <2>1, <2>2
  <1>8. Cardinality(Occupied(r)) = m + 1 /\ \A n \in 1..(m + 1) : Nth(Occupied(r), n) = f[n]
    <2> DEFINE l == m + 1
    <2>1. l \in Nat
      BY <1>2
    <2>2. f \in [1..l -> Occupied(r)] /\ (\A i, j \in 1..l : i < j => f[i] < f[j]) /\ \A p \in Occupied(r) : \E n \in 1..l : f[n] = p
      BY <1>5, <1>6, <1>7
    <2> HIDE DEF l
    <2>3. Cardinality(Occupied(r)) = l /\ \A n \in 1..l : Nth(Occupied(r), n) = f[n]
      BY <1>3, <2>1, <2>2, Enumerates
    <2> QED  BY <2>3 DEF l
  <1>9. Contents(r) = [n \in 1..(m + 1) |-> r[f[n]]]
    BY <1>8 DEF Contents, Pick
  <1>10. ASSUME NEW n \in 1..(m + 1) PROVE r[f[n]] = Append(c, e)[n]
    <2>1. CASE n \in 1..m
      <3>1. f[n] \in 1..Len(s) /\ f[n] = Nth(P, n)
        BY <1>2, <1>4, <2>1
      <3>2. Append(c, e)[n] = c[n]
        BY <1>2, <2>1, AppendProperties
      <3> QED  BY <1>1, <1>2, <2>1, <3>1, <3>2
    <2>2. CASE n = m + 1
      BY <1>1, <1>2, <1>4, <2>2, AppendProperties
    <2> QED  BY <1>2, <2>1, <2>2
  <1>11. Append(c, e) = [n \in 1..(m + 1) |-> Append(c, e)[n]]
    <2>1. Append(c, e) \in Seq(E) /\ Len(Append(c, e)) = m + 1
      BY <1>2, AppendProperties
    <2> HIDE DEF c
    <2> QED  BY <2>1, LenProperties
  <1>12. Contents(r) = Append(c, e)
    BY <1>9, <1>10, <1>11
  <1> QED  BY <1>12 DEF r, c

PushTo(s, e) ==
    LET key == s.base + Len(s.entries)
    IN  [entries |-> Append(s.entries, e),
         byId    |-> Added(s.byId, e.id, key),
         exited  |-> IF e.open THEN s.exited ELSE s.exited \cup {key},
         base    |-> s.base,
         len     |-> s.len + 1]

LEMMA PushExact ==
    ASSUME NEW E, None \notin E, NEW s, Exact(s, E), NEW e \in E
    PROVE  LET r == PushTo(s, e) IN
           /\ Exact(r, E) /\ Contents(r.entries) = Append(Contents(s.entries), e)
           /\ Len(r.entries) = Len(s.entries) + 1 /\ r.len = s.len + 1 /\ r.base = s.base
  <1> DEFINE r == PushTo(s, e)
             f == s.entries
             b == s.base
             key == b + Len(f)
             g == Append(f, e)
             I == IndexOf(g, b)
             x == IF e.open THEN s.exited ELSE s.exited \cup {key}
             n == s.len + 1
  <1>1. /\ f \in Seq(E \cup {None}) /\ b \in Nat /\ s.byId = IndexOf(f, b)
        /\ s.exited = {b + i - 1 : i \in ClosedIn(f)} /\ s.len = Cardinality(Occupied(f))
    BY DEF Exact
  <1>2. e \in E \cup {None} /\ e # None
    OBVIOUS
  <1> HIDE DEF f, b
  <1>3. /\ g \in Seq(E \cup {None}) /\ Len(g) = Len(f) + 1
        /\ \A i \in 1..Len(f) : g[i] = f[i]
        /\ g[Len(f) + 1] = e /\ Occupied(g) = Occupied(f) \cup {Len(f) + 1}
        /\ Len(f) + 1 \notin Occupied(f)
        /\ Cardinality(Occupied(g)) = Cardinality(Occupied(f)) + 1
    BY <1>1, <1>2, Pushed
  <1>4. I = Added(s.byId, e.id, key)
    <2>1. key = b + Len(f)
      BY DEF b, f
    <2> QED  BY <1>1, <1>2, <2>1, IndexPushed
  <1>5. Len(f) \in Nat /\ Occupied(f) \in SUBSET (1..Len(f)) /\ key = b + Len(f)
    BY <1>1, Slots DEF b, f
  <1>6. x = {b + i - 1 : i \in ClosedIn(g)}
    <2>1. \A i \in Occupied(f) : g[i] = f[i]
      BY <1>3, <1>5
    <2>2. b + (Len(f) + 1) - 1 = key
      BY <1>1, <1>5
    <2>3. CASE e.open
      <3>1. ClosedIn(g) = ClosedIn(f)
        BY <1>3, <2>1, <2>3 DEF ClosedIn
      <3> QED  BY <1>1, <2>3, <3>1
    <2>4. CASE ~ e.open
      <3>1. ClosedIn(g) = ClosedIn(f) \cup {Len(f) + 1}
        BY <1>3, <2>1, <2>4 DEF ClosedIn
      <3> QED  BY <1>1, <2>2, <2>4, <3>1
    <2> QED  BY <2>3, <2>4
  <1>7. n = Cardinality(Occupied(g))
    BY <1>1, <1>3
  <1>8. r = [entries |-> g, byId |-> I, exited |-> x, base |-> b, len |-> n]
    BY <1>4 DEF f, b, PushTo
  <1> HIDE DEF g, I, x, n, r
  <1>9. Exact(r, E)
    <2>1. Exact([entries |-> g, byId |-> I, exited |-> x, base |-> b, len |-> n], E)
      BY <1>1, <1>3, <1>6, <1>7, ExactIs DEF I
    <2> QED  BY <1>8, <2>1
  <1>10. Contents(g) = Append(Contents(f), e)
    BY <1>1, ContentsPushed DEF g
  <1>11. r.entries = g /\ r.len = n /\ r.base = b
    BY <1>8
  <1> QED  BY <1>3, <1>9, <1>10, <1>11 DEF f, b, n, r

(* An entry gives way to another with the same identifier.                  *)
Put(s, i, e) == [s EXCEPT ![i] = e]

LEMMA Replaced ==
    ASSUME NEW E, None \notin E, NEW s \in Seq(E \cup {None}),
           NEW k \in 1..Cardinality(Occupied(s)),
           NEW e \in E, e.id = s[Nth(Occupied(s), k)].id, NEW b
    PROVE  /\ Put(s, Nth(Occupied(s), k), e) \in Seq(E \cup {None})
           /\ Len(Put(s, Nth(Occupied(s), k), e)) = Len(s)
           /\ Occupied(Put(s, Nth(Occupied(s), k), e)) = Occupied(s)
           /\ IndexOf(Put(s, Nth(Occupied(s), k), e), b) = IndexOf(s, b)
           /\ e.open => ClosedIn(Put(s, Nth(Occupied(s), k), e)) = ClosedIn(s) \ {Nth(Occupied(s), k)}
           /\ ~ e.open => ClosedIn(Put(s, Nth(Occupied(s), k), e))
                             = ClosedIn(s) \cup {Nth(Occupied(s), k)}
           /\ Contents(Put(s, Nth(Occupied(s), k), e)) = Put(Contents(s), k, e)
  <1> DEFINE i == Nth(Occupied(s), k)
             r == Put(s, Nth(Occupied(s), k), e)
  <1> DEFINE P == Occupied(s)
             m == Cardinality(P)
             c == Contents(s)
  <1>1. /\ c \in Seq(E) /\ Len(c) = m /\ m \in Nat
        /\ \A n \in 1..m : Nth(P, n) \in P /\ Nth(P, n) \in 1..Len(s) /\ c[n] = s[Nth(P, n)]
        /\ \A n, j \in 1..m : n < j => Nth(P, n) < Nth(P, j)
    BY ContentsSeq
  <1>2. i \in P /\ i \in 1..Len(s) /\ s[i] # None
    BY <1>1 DEF Occupied
  <1>3. e \in E \cup {None} /\ e # None
    OBVIOUS
  <1>4. /\ r \in Seq(E \cup {None}) /\ Len(r) = Len(s)
        /\ \A j \in 1..Len(s) : r[j] = IF j = i THEN e ELSE s[j]
    <2>1. /\ [s EXCEPT ![i] = e] \in Seq(E \cup {None}) /\ Len([s EXCEPT ![i] = e]) = Len(s)
          /\ \A j \in 1..Len(s) : [s EXCEPT ![i] = e][j] = IF j = i THEN e ELSE s[j]
      <3> HIDE DEF P
      <3> QED  BY <1>2, <1>3, ExceptSeq
    <2> QED  BY <2>1 DEF Put
  <1> DEFINE q == r
  <1>5. /\ q \in Seq(E \cup {None}) /\ Len(q) = Len(s)
        /\ \A j \in 1..Len(s) : q[j] = IF j = i THEN e ELSE s[j]
    BY <1>4
  <1> HIDE DEF q, P, m, c
  <1>6. Occupied(q) = P
    BY <1>2, <1>3, <1>5 DEF Occupied, P
  <1>7. IndexOf(q, b) = IndexOf(s, b)
    <2>1. \A j \in Occupied(s) : q[j].id = s[j].id
      BY <1>2, <1>5 DEF Occupied
    <2> QED  BY <1>6, <2>1, IndexUntouched DEF P
  <1>8. ClosedIn(q) = (ClosedIn(s) \ {i}) \cup (IF e.open THEN {} ELSE {i})
    <2>1. \A j \in P : j \in 1..Len(s)
      BY DEF P, Occupied
    <2> QED  BY <1>2, <1>5, <1>6, <2>1 DEF ClosedIn, P
  <1>9. Contents(q) = [n \in 1..m |-> q[Nth(P, n)]]
    BY <1>6 DEF Contents, Pick, m
  <1>10. ASSUME NEW n \in 1..m PROVE q[Nth(P, n)] = IF n = k THEN e ELSE c[n]
    <2>1. Nth(P, n) \in 1..Len(s) /\ c[n] = s[Nth(P, n)]
      BY <1>1
    <2>2. i = Nth(P, k) /\ k \in 1..m
      BY DEF P, m
    <2>3. Nth(P, n) = i <=> n = k
      <3>1. n < k => Nth(P, n) < i
        BY <1>1, <2>2
      <3>2. k < n => i < Nth(P, n)
        BY <1>1, <2>2
      <3>3. n \in Nat /\ k \in Nat /\ i \in Nat /\ Nth(P, n) \in Nat
        BY <1>1, <1>2, <2>1, <2>2, LenProperties
      <3> QED  BY <2>2, <3>1, <3>2, <3>3
    <2> QED  BY <1>5, <2>1, <2>3
  <1>11. [c EXCEPT ![k] = e] = [n \in 1..m |-> IF n = k THEN e ELSE c[n]]
    <2>1. c = [n \in 1..m |-> c[n]]
      BY <1>1, LenProperties
    <2>2. DOMAIN c = 1..m
      BY <2>1
    <2> QED  BY <2>2
  <1>12. Contents(q) = Put(c, k, e)
    BY <1>9, <1>10, <1>11 DEF Put
  <1>13. (e.open => ClosedIn(q) = ClosedIn(s) \ {i})
         /\ (~ e.open => ClosedIn(q) = ClosedIn(s) \cup {i})
    BY <1>8
  <1> QED  BY <1>5, <1>6, <1>7, <1>12, <1>13 DEF q, P, c

(* A scan finds what the index finds.                                       *)
Scan(c, id) == {i \in 1..Len(c) : c[i].id = id}

LEMMA ScanFinds ==
    ASSUME NEW E, None \notin E, NEW s \in Seq(E \cup {None}), NEW id
    PROVE  /\ Scan(Contents(s), id) = {} <=> At(s, id) = {}
           /\ At(s, id) # {} =>
                 /\ Min(Scan(Contents(s), id)) \in 1..Cardinality(Occupied(s))
                 /\ Min(Scan(Contents(s), id)) \in 1..Len(Contents(s))
                 /\ Nth(Occupied(s), Min(Scan(Contents(s), id))) = Min(At(s, id))
                 /\ Contents(s)[Min(Scan(Contents(s), id))] = s[Min(At(s, id))]
                 /\ s[Min(At(s, id))] \in E /\ s[Min(At(s, id))].id = id
                 /\ Min(At(s, id)) \in 1..Len(s)
  <1> DEFINE P == Occupied(s)
             m == Cardinality(P)
             c == Contents(s)
             S == Scan(c, id)
             A == At(s, id)
  <1>1. /\ c \in Seq(E) /\ Len(c) = m /\ m \in Nat
        /\ \A n \in 1..m : Nth(P, n) \in P /\ Nth(P, n) \in 1..Len(s) /\ c[n] = s[Nth(P, n)]
        /\ \A n, j \in 1..m : n < j => Nth(P, n) < Nth(P, j)
        /\ \A p \in P : \E n \in 1..m : Nth(P, n) = p
    BY ContentsSeq
  <1>2. A \in SUBSET P /\ A \in SUBSET Nat /\ \A p \in P : p \in A <=> s[p].id = id
    BY Occurrences DEF At
  <1>3. S \in SUBSET (1..m) /\ S \in SUBSET Nat
    <2> HIDE DEF c, m
    <2> QED  BY <1>1 DEF Scan
  <1>4. ASSUME NEW n \in 1..m PROVE n \in S <=> Nth(P, n) \in A
    <2>1. c[n] = s[Nth(P, n)] /\ Nth(P, n) \in P
      BY <1>1
    <2>2. n \in S <=> c[n].id = id
      <3> HIDE DEF c, m
      <3> QED  BY <1>1 DEF Scan
    <2> HIDE DEF A, S, P, m, c
    <2> QED  BY <1>2, <2>1, <2>2
  <1> HIDE DEF P, m, c, S, A
  <1>5. S = {} <=> A = {}
    <2>1. ASSUME S # {} PROVE A # {}
      BY <1>3, <1>4, <2>1
    <2>2. ASSUME A # {} PROVE S # {}
      <3>1. PICK p \in A : TRUE
        BY <2>2
      <3>2. PICK n \in 1..m : Nth(P, n) = p
        BY <1>1, <1>2
      <3>3. n \in S
        BY <1>4, <3>2
      <3> QED  BY <3>3
    <2> QED  BY <2>1, <2>2
  <1>6. ASSUME A # {}
        PROVE  /\ Min(S) \in 1..m /\ Nth(P, Min(S)) = Min(A)
               /\ c[Min(S)] = s[Min(A)] /\ s[Min(A)] \in E /\ s[Min(A)].id = id
               /\ Min(A) \in 1..Len(s)
    <2>1. Min(S) \in S /\ \A y \in S : Min(S) <= y
      BY <1>3, <1>5, <1>6, MinLeast
    <2>2. Min(S) \in 1..m /\ Nth(P, Min(S)) \in A
      BY <1>3, <1>4, <2>1
    <2>3. ASSUME NEW y \in A PROVE Nth(P, Min(S)) <= y
      <3>1. PICK n \in 1..m : Nth(P, n) = y
        BY <1>1, <1>2
      <3>2. n \in S
        BY <1>4, <3>1
      <3>3. Min(S) <= n
        BY <2>1, <3>2
      <3>4. Nth(P, Min(S)) \in Nat /\ Nth(P, n) \in Nat
        BY <1>2, <2>2, <3>1
      <3>5. CASE Min(S) = n
        BY <3>1, <3>4, <3>5
      <3>6. CASE Min(S) < n
        <4>1. Nth(P, Min(S)) < Nth(P, n)
          BY <1>1, <2>2, <3>6
        <4> QED  BY <3>1, <3>4, <4>1
      <3> QED  BY <1>1, <2>2, <3>3, <3>5, <3>6
    <2>4. Min(A) = Nth(P, Min(S))
      BY <1>2, <2>2, <2>3, MinIs
    <2>5. c[Min(S)] = s[Min(A)] /\ Min(A) \in 1..Len(s) /\ s[Min(A)].id = id
      BY <1>1, <1>2, <2>2, <2>4
    <2>6. c[Min(S)] \in E
      BY <1>1, <2>2, ElementOfSeq
    <2> QED  BY <2>2, <2>4, <2>5, <2>6
  <1> QED  BY <1>1, <1>5, <1>6 DEF P, m, c, S, A

-----------------------------------------------------------------------------
(* The inductive invariant of the scope buffer                              *)

EntryUpTo(p) == [id : Ids, tag : 0..(p - 1), open : BOOLEAN, messages : SUBSET Outcomes]

ScopesInv ==
    /\ Exact(Scopes, EntryUpTo(pushes))
    /\ VacantBounded
    /\ pushes \in 0..MaxPushes /\ found \in Answers \cup {None}

LEMMA EntriesUpTo ==
    ASSUME NEW p \in 0..MaxPushes
    PROVE  /\ EntryUpTo(p) \subseteq Entry /\ None \notin EntryUpTo(p)
           /\ EntryUpTo(p) \subseteq EntryUpTo(p + 1)
           /\ \A e \in EntryUpTo(p) : e.tag < p /\ e.id \in Ids /\ e.open \in BOOLEAN
  <1>1. MaxPushes \in Nat /\ p \in Nat /\ p <= MaxPushes
    BY KeyedIndexAssumption
  <1>2. 0..(p - 1) \subseteq 0..(MaxPushes - 1) /\ 0..(p - 1) \subseteq 0..((p + 1) - 1)
    BY <1>1
  <1>3. EntryUpTo(p) \subseteq Entry
    BY <1>2 DEF EntryUpTo, Entry
  <1>4. EntryUpTo(p) \subseteq EntryUpTo(p + 1)
    BY <1>2 DEF EntryUpTo
  <1>5. \A e \in EntryUpTo(p) : e.tag < p /\ e.id \in Ids /\ e.open \in BOOLEAN
    BY <1>1 DEF EntryUpTo
  <1> QED  BY <1>3, <1>4, <1>5, ScopeEntryAssumption

LEMMA ExactWidens ==
    ASSUME NEW E, NEW F, E \subseteq F, NEW s, Exact(s, E)
    PROVE  Exact(s, F)
  <1>1. s.entries \in Seq(E \cup {None}) /\ E \cup {None} \subseteq F \cup {None}
    BY DEF Exact
  <1>2. s.entries \in Seq(F \cup {None})
    BY <1>1, SeqMonotonic
  <1> QED  BY <1>2 DEF Exact

(* The invariant in terms of the variables.                                 *)
LEMMA ScopesFacts ==
    ASSUME ScopesInv
    PROVE  LET E == EntryUpTo(pushes)
           IN  /\ None \notin E /\ E \subseteq Entry /\ entries \in Seq(E \cup {None})
               /\ Len(entries) \in Nat /\ base \in Nat /\ pushes \in Nat /\ pushes \in 0..MaxPushes
               /\ byId = IndexOf(entries, base)
               /\ exited = {base + i - 1 : i \in ClosedIn(entries)}
               /\ len = Cardinality(Occupied(entries)) /\ len \in Nat /\ len <= Len(entries)
               /\ Exact(Scopes, E) /\ VacantBounded /\ found \in Answers \cup {None}
               /\ KeyLimit \in Nat /\ MaxLive \in Nat /\ KeyLimit > MaxLive /\ MaxPushes \in Nat
  <1>1. pushes \in 0..MaxPushes /\ VacantBounded /\ found \in Answers \cup {None} /\ Exact(Scopes, EntryUpTo(pushes))
    BY DEF ScopesInv
  <1>2. /\ Scopes.entries = entries /\ Scopes.byId = byId /\ Scopes.exited = exited
        /\ Scopes.base = base /\ Scopes.len = len
    BY DEF Scopes
  <1>3. /\ entries \in Seq(EntryUpTo(pushes) \cup {None}) /\ base \in Nat
        /\ byId = IndexOf(entries, base)
        /\ exited = {base + i - 1 : i \in ClosedIn(entries)}
        /\ len = Cardinality(Occupied(entries))
    BY <1>1, <1>2 DEF Exact
  <1>4. Len(entries) \in Nat /\ len \in Nat /\ len <= Len(entries)
    BY <1>3, Slots
  <1>5. None \notin EntryUpTo(pushes) /\ EntryUpTo(pushes) \subseteq Entry /\ pushes \in Nat
    BY <1>1, EntriesUpTo
  <1> QED  BY <1>1, <1>3, <1>4, <1>5, KeyedIndexAssumption

LEMMA BecomesScopes ==
    ASSUME NEW E, NEW s, Exact(s, E), Become(s)
    PROVE  Scopes' = s
  <1>1. s = [entries |-> s.entries, byId |-> s.byId, exited |-> s.exited, base |-> s.base, len |-> s.len]
    BY DEF Exact
  <1>2. /\ entries' = s.entries /\ byId' = s.byId /\ exited' = s.exited
        /\ base' = s.base /\ len' = s.len
    BY DEF Become
  <1> QED  BY <1>1, <1>2 DEF Scopes

(* What the invariant says of the properties.                               *)
LEMMA ScopesInvImplies ==
    ASSUME ScopesInv
    PROVE  TypeOK /\ IndexExact /\ VacantBounded
  <1> DEFINE E == EntryUpTo(pushes)
  <1>1. /\ None \notin E /\ E \subseteq Entry /\ entries \in Seq(E \cup {None})
        /\ base \in Nat /\ byId = IndexOf(entries, base)
        /\ exited = {base + i - 1 : i \in ClosedIn(entries)}
        /\ len = Cardinality(Occupied(entries)) /\ len \in Nat
        /\ pushes \in 0..MaxPushes /\ found \in Answers \cup {None} /\ VacantBounded
    BY ScopesFacts
  <1> HIDE DEF E
  <1>2. DOMAIN byId \subseteq Ids /\ \A id \in DOMAIN byId : byId[id] \in [first : Nat, count : Nat \ {0}]
    <2>1. /\ DOMAIN IndexOf(entries, base) = IdsOf(entries)
          /\ \A id \in IdsOf(entries) : IndexOf(entries, base)[id] \in [first : Nat, count : Nat \ {0}]
      BY <1>1, IndexSays
    <2>2. ASSUME NEW i \in Occupied(entries) PROVE entries[i].id \in Ids
      <3>1. i \in 1..Len(entries) /\ entries[i] # None
        BY DEF Occupied
      <3>2. entries[i] \in E \cup {None}
        BY <1>1, <3>1, ElementOfSeq
      <3>3. entries[i] \in Entry
        BY <1>1, <3>1, <3>2
      <3> QED  BY <3>3 DEF Entry
    <2> QED  BY <1>1, <2>1, <2>2 DEF IdsOf
  <1>3. entries \in Seq(Entry \cup {None})
    <2>1. E \cup {None} \subseteq Entry \cup {None}
      BY <1>1
    <2> QED  BY <1>1, <2>1, SeqMonotonic
  <1>4. exited \subseteq Nat
    <2>1. \A i \in ClosedIn(entries) : i \in Nat /\ i >= 1
      BY <1>1, Slots DEF ClosedIn
    <2> QED  BY <1>1, <2>1
  <1>5. TypeOK
    BY <1>1, <1>2, <1>3, <1>4 DEF TypeOK
  <1>6. IndexExact
    BY <1>1 DEF IndexExact, ClosedIn
  <1> QED  BY <1>1, <1>5, <1>6

-----------------------------------------------------------------------------
(* Each operation keeps the invariant and is one of the abstract sequence   *)

LEMMA VectorIs ==
    /\ Vector!vars = <<Contents(entries), found>>
    /\ \A id : Vector!Positions(id) = Scan(Contents(entries), id)
    /\ \A id : Vector!First(id) = Min(Scan(Contents(entries), id))
    /\ Vector!Closed = ClosedAt(Contents(entries))
    /\ \A s, P : Vector!Pick(s, P) = Pick(s, P)
    /\ \A q, x, e : Vector!Answer(q, x, e) = Answer(q, x, e)
  <1>1. Vector!vars = <<Contents(entries), found>>
    BY DEF Vector!vars, Contents
  <1>2. \A id : Vector!Positions(id) = Scan(Contents(entries), id)
    BY DEF Vector!Positions, Contents, Scan
  <1>3. \A id : Vector!First(id) = Min(Scan(Contents(entries), id))
    BY <1>2 DEF Vector!First, Min
  <1>4. Vector!Closed = ClosedAt(Contents(entries))
    BY DEF Vector!Closed, Contents, ClosedAt
  <1>5. \A s, P : Vector!Pick(s, P) = Pick(s, P)
    <2>1. \A P : Vector!Cardinality(P) = Cardinality(P)
      BY DEF Vector!Cardinality, Cardinality
    <2>2. \A P, n : Vector!Nth(P, n) = Nth(P, n)
      <3> TAKE P, n
      <3>1. \A i \in P : Vector!Cardinality({j \in P : j <= i}) = Cardinality({j \in P : j <= i})
        BY <2>1
      <3> QED  BY <3>1 DEF Vector!Nth, Nth
    <2>3. \A s, P : Vector!Pick(s, P) = [n \in 1..Cardinality(P) |-> s[Nth(P, n)]]
      BY <2>1, <2>2 DEF Vector!Pick
    <2> QED  BY <2>3 DEF Pick
  <1>6. \A q, x, e : Vector!Answer(q, x, e) = Answer(q, x, e)
    BY DEF Vector!Answer, Answer
  <1> QED  BY <1>1, <1>2, <1>3, <1>4, <1>5, <1>6

LEMMA PushStep ==
    ASSUME ScopesInv, NEW id \in Ids, NEW open \in BOOLEAN, Push(id, open)
    PROVE  ScopesInv' /\ Vector!Next
  <1> DEFINE E   == EntryUpTo(pushes + 1)
             s   == IF base + Len(entries) >= KeyLimit THEN Compact(Scopes) ELSE Scopes
             key == s.base + Len(s.entries)
             e   == [id |-> id, tag |-> pushes, open |-> open, messages |-> {}]
             r   == PushTo(s, e)
  <1>1. /\ pushes \in Nat /\ pushes < MaxPushes /\ len < MaxLive /\ pushes' = pushes + 1 /\ found' = found
        /\ pushes + 1 \in 0..MaxPushes /\ MaxPushes \in Nat
    BY ScopesFacts DEF Push
  <1>2. Become(r)
    <2>1. Become([entries |-> Append(s.entries, e),
                  byId    |-> IF id \in DOMAIN s.byId THEN [s.byId EXCEPT ![id].count = @ + 1]
                              ELSE With(s.byId, id, FirstAt(key)),
                  exited  |-> IF open THEN s.exited ELSE s.exited \cup {key},
                  base    |-> s.base,
                  len     |-> s.len + 1])
      BY DEF Push
    <2>2. e.id = id /\ e.open = open
      OBVIOUS
    <2> HIDE DEF s, e
    <2> QED  BY <2>1, <2>2 DEF Added, PushTo
  <1>3. None \notin E /\ e \in E
    <2>1. None \notin E
      BY <1>1, EntriesUpTo
    <2>2. pushes \in 0..((pushes + 1) - 1)
      BY <1>1
    <2> QED  BY <2>1, <2>2 DEF EntryUpTo
  <1>4. Exact(Scopes, E)
    <2>1. EntryUpTo(pushes) \subseteq E /\ Exact(Scopes, EntryUpTo(pushes))
      BY EntriesUpTo DEF ScopesInv
    <2> HIDE DEF E
    <2> QED  BY <2>1, ExactWidens
  <1> HIDE DEF E
  <1>5. /\ Exact(s, E) /\ Contents(s.entries) = Contents(entries) /\ s.len = len
        /\ s.base + Len(s.entries) < KeyLimit /\ s.base \in Nat /\ Len(s.entries) \in Nat
        /\ Len(s.entries) - s.len <= IF s.len > CompactAbove THEN s.len ELSE CompactAbove
    <2>1. Scopes.entries = entries /\ Scopes.len = len /\ Scopes.base = base
      BY DEF Scopes
    <2>2. /\ len \in Nat /\ KeyLimit \in Nat /\ MaxLive \in Nat /\ KeyLimit > MaxLive
          /\ base \in Nat /\ Len(entries) \in Nat /\ CompactAbove \in Nat
      BY ScopesFacts, ScopeBufferAssumption
    <2>3. CASE base + Len(entries) >= KeyLimit
      <3>1. s = Compact(Scopes)
        BY <2>3
      <3>2. /\ Exact(Compact(Scopes), E) /\ Contents(Compact(Scopes).entries) = Contents(entries)
            /\ Compact(Scopes).base = 0 /\ Compact(Scopes).len = len /\ Len(Compact(Scopes).entries) = len
        BY <1>3, <1>4, <2>1, CompactExact
      <3>3. 0 + len < KeyLimit /\ len - len <= IF len > CompactAbove THEN len ELSE CompactAbove
        BY <1>1, <2>2
      <3> HIDE DEF s
      <3> QED  BY <2>2, <3>1, <3>2, <3>3
    <2>4. CASE ~ (base + Len(entries) >= KeyLimit)
      <3>1. s = Scopes
        BY <2>4
      <3>2. base + Len(entries) < KeyLimit
        BY <2>2, <2>4
      <3>3. Len(entries) - len <= IF len > CompactAbove THEN len ELSE CompactAbove
        BY DEF ScopesInv, VacantBounded
      <3> HIDE DEF s
      <3> QED  BY <1>4, <2>1, <2>2, <3>1, <3>2, <3>3
    <2> QED  BY <2>3, <2>4
  <1> HIDE DEF s
  <1>6. /\ Exact(r, E) /\ Contents(r.entries) = Append(Contents(s.entries), e)
        /\ Len(r.entries) = Len(s.entries) + 1 /\ r.len = s.len + 1 /\ r.base = s.base
    <2> HIDE DEF e
    <2> QED  BY <1>3, <1>5, PushExact
  <1>7. /\ entries' = r.entries /\ base' = r.base /\ len' = r.len
    BY <1>2 DEF Become
  <1>8. Scopes' = r
    <2> HIDE DEF r
    <2> QED  BY <1>2, <1>6, BecomesScopes
  <1> HIDE DEF r
  <1>9. ScopesInv'
    <2>1. Exact(Scopes, EntryUpTo(pushes))'
      <3>1. Exact(Scopes', E)
        BY <1>6, <1>8
      <3> QED  BY <1>1, <3>1 DEF E
    <2>2. VacantBounded'
      <3>1. /\ Len(entries') = Len(s.entries) + 1 /\ len' = s.len + 1 /\ base' = s.base
        BY <1>6, <1>7
      <3>2. s.len \in Nat /\ CompactAbove \in Nat /\ KeyLimit \in Nat
        BY <1>5, ScopesFacts, ScopeBufferAssumption
      <3>3. Len(entries') - len' = Len(s.entries) - s.len
        BY <1>5, <3>1, <3>2
      <3>4. Len(entries') - len' <= IF len' > CompactAbove THEN len' ELSE CompactAbove
        BY <1>5, <3>1, <3>2, <3>3
      <3>5. base' + Len(entries') <= KeyLimit
        BY <1>5, <3>1, <3>2
      <3> QED  BY <3>4, <3>5 DEF VacantBounded
    <2>3. pushes' \in 0..MaxPushes /\ found' \in Answers \cup {None}
      BY <1>1, ScopesFacts
    <2> QED  BY <2>1, <2>2, <2>3 DEF ScopesInv
  <1>10. Vector!Push(e)
    <2>1. Contents(entries)' = Append(Contents(entries), e)
      BY <1>5, <1>6, <1>7 DEF Contents
    <2>2. e.tag \notin Vector!InUse
      <3>1. /\ None \notin EntryUpTo(pushes) /\ entries \in Seq(EntryUpTo(pushes) \cup {None})
            /\ pushes \in 0..MaxPushes
        BY ScopesFacts
      <3>2. Contents(entries) \in Seq(EntryUpTo(pushes))
        BY <3>1, ContentsSeq
      <3>3. \A i \in 1..Len(Contents(entries)) : Contents(entries)[i] \in EntryUpTo(pushes)
        BY <3>2, ElementOfSeq
      <3>4. \A x \in EntryUpTo(pushes) : x.tag # pushes
        BY <1>1, <3>1 DEF EntryUpTo
      <3>5. Vector!InUse = {Contents(entries)[i].tag : i \in 1..Len(Contents(entries))}
        BY DEF Vector!InUse, Contents
      <3> QED  BY <3>3, <3>4, <3>5
    <2> HIDE DEF e
    <2> QED  BY <1>1, <2>1, <2>2 DEF Vector!Push, Contents
  <1>11. pushes \in 0..(MaxPushes - 1)
    BY <1>1
  <1> QED  BY <1>9, <1>10, <1>11 DEF Vector!Next

(* The index gives the first occurrence.                                    *)
LEMMA IndexedIs ==
    ASSUME ScopesInv, NEW id
    PROVE  LET i == Min(At(entries, id))
           IN  /\ At(entries, id) = {} => Indexed(id) = None
               /\ At(entries, id) # {} =>
                     /\ Indexed(id) = entries[i] /\ Slot(id) = i /\ byId[id].first = base + i - 1
                     /\ i \in 1..Len(entries) /\ entries[i] \in EntryUpTo(pushes)
                     /\ entries[i] # None /\ entries[i].id = id
               /\ Indexed(id) \in Entry \cup {None}
  <1> DEFINE i == Min(At(entries, id))
             E == EntryUpTo(pushes)
  <1>1. /\ None \notin E /\ E \subseteq Entry /\ entries \in Seq(E \cup {None})
        /\ Len(entries) \in Nat /\ base \in Nat /\ byId = IndexOf(entries, base)
    BY ScopesFacts
  <1>2. DOMAIN byId = IdsOf(entries) /\ (id \in IdsOf(entries) <=> At(entries, id) # {})
    BY <1>1, IndexSays, IdOccurs
  <1>3. CASE At(entries, id) = {}
    <2>1. Indexed(id) = None
      BY <1>2, <1>3 DEF Indexed
    <2> QED  BY <1>3, <2>1
  <1>4. CASE At(entries, id) # {}
    <2>1. i \in 1..Len(entries) /\ entries[i] \in E /\ entries[i].id = id
      <3> HIDE DEF E
      <3> QED  BY <1>1, <1>4, ScanFinds
    <2>2. id \in IdsOf(entries) /\ byId[id].first = base + i - 1
      BY <1>1, <1>2, <1>4, IndexSays
    <2> HIDE DEF i, E
    <2>3. Slot(id) = i
      BY <1>1, <2>1, <2>2 DEF Slot
    <2>4. byId[id].first >= base
      BY <1>1, <2>1, <2>2
    <2>5. Indexed(id) = entries[i]
      BY <1>1, <1>2, <2>1, <2>2, <2>3, <2>4 DEF Indexed
    <2> QED  BY <1>1, <1>4, <2>1, <2>2, <2>3, <2>5 DEF i, E
  <1> QED  BY <1>3, <1>4

LEMMA QueryKeeps ==
    ASSUME ScopesInv, UNCHANGED <<entries, byId, exited, base, len, pushes>>,
           found' \in Answers \cup {None}
    PROVE  ScopesInv' /\ Contents(entries)' = Contents(entries)
  <1>1. Scopes' = Scopes /\ pushes' = pushes
    BY DEF Scopes
  <1>2. Exact(Scopes, EntryUpTo(pushes))'
    BY <1>1 DEF ScopesInv
  <1>3. VacantBounded'
    BY DEF ScopesInv, VacantBounded
  <1>4. Contents(entries)' = Contents(entries)
    BY DEF Contents
  <1> QED  BY <1>2, <1>3, <1>4 DEF ScopesInv

LEMMA GetStep ==
    ASSUME ScopesInv, NEW id \in Ids, Get(id)
    PROVE  ScopesInv' /\ Vector!Next
  <1> DEFINE E == EntryUpTo(pushes)
             c == Contents(entries)
  <1>1. /\ found' = Answer("id", id, Indexed(id))
        /\ UNCHANGED <<entries, byId, exited, base, len, pushes>>
    BY DEF Get
  <1>2. found' \in Answers
    BY <1>1, IndexedIs DEF Answer, Answers
  <1>3. None \notin E /\ entries \in Seq(E \cup {None})
    BY ScopesFacts
  <1>4. Indexed(id) = IF Scan(c, id) = {} THEN None ELSE c[Min(Scan(c, id))]
    <2>1. CASE At(entries, id) = {}
      BY <1>3, <2>1, IndexedIs, ScanFinds
    <2>2. CASE At(entries, id) # {}
      <3>1. Indexed(id) = entries[Min(At(entries, id))]
        BY <2>2, IndexedIs
      <3>2. Scan(c, id) # {} /\ c[Min(Scan(c, id))] = entries[Min(At(entries, id))]
        <4> HIDE DEF E
        <4> QED  BY <1>3, <2>2, ScanFinds
      <3> QED  BY <3>1, <3>2
    <2> QED  BY <2>1, <2>2
  <1>5. ScopesInv' /\ Contents(entries)' = c
    BY <1>1, <1>2, QueryKeeps
  <1>6. Vector!Get(id)
    <2>1. Vector!Get(id) <=>
             /\ found' = Answer("id", id, IF Scan(c, id) = {} THEN None ELSE c[Min(Scan(c, id))])
             /\ Contents(entries)' = c
      BY VectorIs DEF Vector!Get, Contents
    <2> QED  BY <1>1, <1>4, <1>5, <2>1
  <1> QED  BY <1>5, <1>6 DEF Vector!Next

LEMMA GetAtStep ==
    ASSUME ScopesInv, NEW n \in 0..MaxPushes, GetAt(n)
    PROVE  ScopesInv' /\ Vector!Next
  <1> DEFINE E == EntryUpTo(pushes)
             c == Contents(entries)
             P == Occupied(entries)
             m == Cardinality(P)
             e == IF n \in 1..Len(c) THEN c[n] ELSE None
  <1>1. /\ None \notin E /\ E \subseteq Entry /\ entries \in Seq(E \cup {None})
        /\ Len(entries) \in Nat /\ len = m
    BY ScopesFacts
  <1>2. /\ c \in Seq(E) /\ Len(c) = m /\ m \in Nat
        /\ \A k \in 1..m : c[k] = entries[Nth(P, k)]
    <2> HIDE DEF E
    <2> QED  BY <1>1, ContentsSeq
  <1>3. found' = Answer("position", n, e)
    <2>1. CASE len = Len(entries)
      <3>1. Pick(entries, P) = entries
        <4>1. P \in SUBSET (1..Len(entries))
          BY DEF Occupied
        <4> HIDE DEF E, P
        <4> QED  BY <1>1, <2>1, <4>1, PickAll
      <3>2. c = entries
        BY <3>1 DEF Contents
      <3> QED  BY <2>1, <3>2 DEF GetAt
    <2>2. CASE len # Len(entries)
      <3>1. found' = Answer("position", n, IF n \in 1..m THEN entries[Nth(P, n)] ELSE None)
        BY <2>2 DEF GetAt
      <3> QED  BY <1>2, <3>1
    <2> QED  BY <2>1, <2>2
  <1>4. e \in Entry \cup {None}
    <2>1. ASSUME n \in 1..Len(c) PROVE c[n] \in E
      <3> HIDE DEF c, E
      <3> QED  BY <1>2, <2>1, ElementOfSeq
    <2> QED  BY <1>1, <2>1
  <1>5. found' \in Answers
    <2> HIDE DEF e
    <2> QED  BY <1>3, <1>4 DEF Answer, Answers
  <1>6. ScopesInv' /\ Contents(entries)' = c
    BY <1>5, QueryKeeps DEF GetAt
  <1>7. Vector!GetAt(n)
    <2>1. Vector!GetAt(n) <=> found' = Answer("position", n, e) /\ Contents(entries)' = c
      BY VectorIs DEF Vector!GetAt, Contents
    <2> QED  BY <1>3, <1>6, <2>1
  <1> QED  BY <1>6, <1>7 DEF Vector!Next

(* What Finalize and SetMessages share: the entry found gives way to e.     *)
LEMMA FoundReplaced ==
    ASSUME ScopesInv, NEW id, At(entries, id) # {},
           NEW e \in EntryUpTo(pushes), e.id = id,
           entries' = [entries EXCEPT ![Min(At(entries, id))] = e],
           UNCHANGED <<byId, base, len, pushes>>, found' \in Answers \cup {None},
           exited' = IF ~e.open THEN exited \cup {base + Min(At(entries, id)) - 1} ELSE exited,
           e.open => entries[Min(At(entries, id))].open
    PROVE  /\ ScopesInv'
           /\ Contents(entries)' = [Contents(entries) EXCEPT ![Min(Scan(Contents(entries), id))] = e]
           /\ Scan(Contents(entries), id) # {}
           /\ Min(Scan(Contents(entries), id)) \in DOMAIN Contents(entries)
           /\ Contents(entries)[Min(Scan(Contents(entries), id))] = entries[Min(At(entries, id))]
  <1> DEFINE E == EntryUpTo(pushes)
             i == Min(At(entries, id))
             c == Contents(entries)
             k == Min(Scan(c, id))
             d == Put(entries, i, e)
             x == exited'
  <1>1. /\ None \notin E /\ entries \in Seq(E \cup {None}) /\ Len(entries) \in Nat /\ base \in Nat
        /\ byId = IndexOf(entries, base) /\ exited = {base + j - 1 : j \in ClosedIn(entries)}
        /\ len = Cardinality(Occupied(entries))
    BY ScopesFacts
  <1>2. /\ Scan(c, id) # {} /\ k \in 1..Cardinality(Occupied(entries)) /\ k \in 1..Len(c)
        /\ Nth(Occupied(entries), k) = i /\ c[k] = entries[i]
        /\ entries[i].id = id /\ i \in 1..Len(entries) /\ entries[i] \in E
    <2> HIDE DEF E
    <2> QED  BY <1>1, ScanFinds
  <1> HIDE DEF E, i, k, c
  <1>3. /\ d \in Seq(E \cup {None}) /\ Len(d) = Len(entries)
        /\ Occupied(d) = Occupied(entries) /\ IndexOf(d, base) = IndexOf(entries, base)
        /\ e.open => ClosedIn(d) = ClosedIn(entries) \ {i}
        /\ ~ e.open => ClosedIn(d) = ClosedIn(entries) \cup {i}
        /\ Contents(d) = Put(c, k, e)
    <2>1. e \in E /\ e.id = entries[Nth(Occupied(entries), k)].id
      BY <1>2 DEF E, i
    <2>2. d = Put(entries, Nth(Occupied(entries), k), e)
      BY <1>2 DEF d
    <2> HIDE DEF d
    <2> DEFINE r == Put(entries, Nth(Occupied(entries), k), e)
    <2>3. /\ r \in Seq(E \cup {None}) /\ Len(r) = Len(entries)
          /\ Occupied(r) = Occupied(entries) /\ IndexOf(r, base) = IndexOf(entries, base)
          /\ e.open => ClosedIn(r) = ClosedIn(entries) \ {Nth(Occupied(entries), k)}
          /\ ~ e.open => ClosedIn(r) = ClosedIn(entries) \cup {Nth(Occupied(entries), k)}
          /\ Contents(r) = Put(c, k, e)
      BY <1>1, <1>2, <2>1, Replaced DEF c
    <2> HIDE DEF r
    <2> QED  BY <1>2, <2>2, <2>3 DEF r
  <1>4. entries' = d
    BY DEF d, Put, i
  <1> HIDE DEF d, x
  <1>5. x = {base + j - 1 : j \in ClosedIn(d)}
    <2>1. CASE ~ e.open
      <3>1. x = exited \cup {base + i - 1}
        BY <2>1 DEF x, i
      <3>2. ClosedIn(d) = ClosedIn(entries) \cup {i}
        BY <1>3, <2>1
      <3> QED  BY <1>1, <3>1, <3>2
    <2>2. CASE e.open
      <3>1. x = exited /\ i \notin ClosedIn(entries)
        BY <2>2 DEF x, i, ClosedIn
      <3>2. ClosedIn(d) = ClosedIn(entries)
        BY <1>3, <2>2, <3>1
      <3> QED  BY <1>1, <3>1, <3>2
    <2> QED  BY <2>1, <2>2
  <1>6. Exact(Scopes, EntryUpTo(pushes))'
    <2> DEFINE I == byId
               n == len
    <2>1. Scopes' = [entries |-> d, byId |-> I, exited |-> x, base |-> base, len |-> n]
      BY <1>4 DEF Scopes, x
    <2>2. I = IndexOf(d, base) /\ n = Cardinality(Occupied(d))
      BY <1>1, <1>3
    <2> HIDE DEF I, n
    <2>3. Exact([entries |-> d, byId |-> I, exited |-> x, base |-> base, len |-> n], E)
      BY <1>1, <1>3, <1>5, <2>2, ExactIs
    <2> QED  BY <2>1, <2>3 DEF E
  <1>7. VacantBounded'
    <2>1. Len(entries') = Len(entries)
      BY <1>3, <1>4
    <2> QED  BY <2>1 DEF ScopesInv, VacantBounded
  <1>8. ScopesInv'
    BY <1>6, <1>7 DEF ScopesInv
  <1>9. Contents(entries)' = [c EXCEPT ![k] = e]
    BY <1>3, <1>4 DEF Contents, Put
  <1>10. k \in DOMAIN c
    <2>1. c \in Seq(E)
      BY <1>1, ContentsSeq DEF c
    <2> QED  BY <1>2, <2>1, LenProperties
  <1> QED  BY <1>2, <1>8, <1>9, <1>10 DEF c, k, i

LEMMA FinalizeStep ==
    ASSUME ScopesInv, NEW id \in Ids, Finalize(id)
    PROVE  ScopesInv' /\ Vector!Next
  <1> DEFINE i == Min(At(entries, id))
             c == Contents(entries)
             k == Min(Scan(c, id))
             e == [entries[i] EXCEPT !.open = FALSE]
             E == EntryUpTo(pushes)
  <1>1. None \notin E /\ E \subseteq Entry /\ entries \in Seq(E \cup {None})
    BY ScopesFacts
  <1>2. CASE At(entries, id) # {} /\ entries[i].open
    <2>1. /\ Indexed(id) = entries[i] /\ Slot(id) = i /\ byId[id].first = base + i - 1
          /\ i \in 1..Len(entries) /\ entries[i] \in E /\ entries[i] # None /\ entries[i].id = id
      BY <1>2, IndexedIs
    <2>2. /\ entries' = [entries EXCEPT ![Slot(id)].open = FALSE]
          /\ found' = Answer("close", id, [Indexed(id) EXCEPT !.open = FALSE])
          /\ exited' = exited \cup {byId[id].first}
          /\ UNCHANGED <<byId, base, len, pushes>>
      BY <1>2, <2>1 DEF Finalize
    <2> HIDE DEF i
    <2>3. e \in E /\ e.id = id /\ ~ e.open
      <3>1. e \in E
        BY <2>1 DEF EntryUpTo
      <3>2. e.id = id /\ ~ e.open
        BY <2>1 DEF EntryUpTo
      <3> QED  BY <3>1, <3>2
    <2>4. entries' = [entries EXCEPT ![i] = e] /\ found' = Answer("close", id, e)
      BY <2>1, <2>2
    <2> HIDE DEF e
    <2>5. found' \in Answers \cup {None}
      BY <1>1, <2>3, <2>4 DEF Answer, Answers
    <2>6. exited' = IF ~e.open THEN exited \cup {base + i - 1} ELSE exited
      BY <2>1, <2>2, <2>3
    <2>7. /\ ScopesInv' /\ Contents(entries)' = [c EXCEPT ![k] = e]
          /\ Scan(c, id) # {} /\ k \in DOMAIN c /\ c[k] = entries[i]
      BY <1>2, <2>2, <2>3, <2>4, <2>5, <2>6, FoundReplaced DEF i, E
    <2> HIDE DEF c, k
    <2>8. c[k].open /\ [c EXCEPT ![k].open = FALSE] = [c EXCEPT ![k] = e] /\ [c EXCEPT ![k] = e][k] = e
      BY <1>2, <2>7 DEF e
    <2>9. Vector!Close(id) <=>
             IF Scan(c, id) # {} /\ c[k].open
             THEN /\ Contents(entries)' = [c EXCEPT ![k].open = FALSE]
                  /\ found' = Answer("close", id, Contents(entries)'[k])
             ELSE found' = Answer("close", id, None) /\ Contents(entries)' = c
      BY VectorIs DEF Vector!Close, Contents, c, k
    <2>10. Vector!Close(id)
      BY <2>4, <2>7, <2>8, <2>9
    <2> QED  BY <2>7, <2>10 DEF Vector!Next
  <1>3. CASE ~ (At(entries, id) # {} /\ entries[i].open)
    <2>1. ~ (Indexed(id) # None /\ Indexed(id).open)
      BY <1>3, IndexedIs
    <2>2. found' = Answer("close", id, None) /\ UNCHANGED <<entries, byId, exited, base, len, pushes>>
      BY <2>1 DEF Finalize
    <2>3. found' \in Answers
      BY <2>2 DEF Answer, Answers
    <2>4. ScopesInv' /\ Contents(entries)' = c
      BY <2>2, <2>3, QueryKeeps
    <2>5. ~ (Scan(c, id) # {} /\ c[k].open)
      <3> HIDE DEF E
      <3> QED  BY <1>1, <1>3, ScanFinds
    <2>6. Vector!Close(id) <=>
             IF Scan(c, id) # {} /\ c[k].open
             THEN /\ Contents(entries)' = [c EXCEPT ![k].open = FALSE]
                  /\ found' = Answer("close", id, Contents(entries)'[k])
             ELSE found' = Answer("close", id, None) /\ Contents(entries)' = c
      BY VectorIs DEF Vector!Close, Contents
    <2> HIDE DEF c, k
    <2>7. Vector!Close(id)
      BY <2>2, <2>4, <2>5, <2>6
    <2> QED  BY <2>4, <2>7 DEF Vector!Next
  <1> QED  BY <1>2, <1>3

LEMMA SetMessagesStep ==
    ASSUME ScopesInv, NEW id \in Ids, NEW outcomes \in SUBSET Outcomes, SetMessages(id, outcomes)
    PROVE  ScopesInv' /\ Vector!Next
  <1> DEFINE i == Min(At(entries, id))
             c == Contents(entries)
             k == Min(Scan(c, id))
             e == [entries[i] EXCEPT !.messages = @ \cup outcomes]
             E == EntryUpTo(pushes)
  <1>1. /\ None \notin E /\ E \subseteq Entry /\ entries \in Seq(E \cup {None})
        /\ exited = {base + j - 1 : j \in ClosedIn(entries)} /\ base \in Nat
        /\ found \in Answers \cup {None}
    BY ScopesFacts
  <1>2. UNCHANGED <<byId, exited, base, len, pushes, found>>
    BY DEF SetMessages
  <1>3. Vector!SetMessages(id, outcomes) <=>
           /\ Contents(entries)' = IF Scan(c, id) = {} THEN c
                                   ELSE [c EXCEPT ![k].messages = @ \cup outcomes]
           /\ found' = found
    BY VectorIs DEF Vector!SetMessages, Contents
  <1>4. CASE At(entries, id) # {}
    <2>1. /\ Indexed(id) = entries[i] /\ Slot(id) = i /\ byId[id].first = base + i - 1
          /\ i \in 1..Len(entries) /\ entries[i] \in E /\ entries[i] # None /\ entries[i].id = id
      BY <1>4, IndexedIs
    <2>2. entries' = [entries EXCEPT ![Slot(id)].messages = @ \cup outcomes]
      BY <2>1 DEF SetMessages
    <2> HIDE DEF i
    <2>3. e \in E /\ e.id = id /\ e.open = entries[i].open /\ entries' = [entries EXCEPT ![i] = e]
      <3>1. e \in E
        BY <2>1 DEF EntryUpTo
      <3>2. e.id = id /\ e.open = entries[i].open
        BY <2>1 DEF EntryUpTo
      <3>3. entries' = [entries EXCEPT ![i] = e]
        BY <2>1, <2>2
      <3> QED  BY <3>1, <3>2, <3>3
    <2> HIDE DEF e
    <2>4. exited' = IF ~e.open THEN exited \cup {base + i - 1} ELSE exited
      <3>1. CASE ~ e.open
        <4>1. i \in ClosedIn(entries)
          BY <2>1, <2>3, <3>1 DEF ClosedIn, Occupied
        <4>2. base + i - 1 \in exited
          BY <1>1, <4>1
        <4> QED  BY <1>2, <3>1, <4>2
      <3>2. CASE e.open
        BY <1>2, <3>2
      <3> QED  BY <3>1, <3>2
    <2>5. /\ ScopesInv' /\ Contents(entries)' = [c EXCEPT ![k] = e]
          /\ Scan(c, id) # {} /\ k \in DOMAIN c /\ c[k] = entries[i]
      BY <1>1, <1>2, <1>4, <2>3, <2>4, FoundReplaced DEF i, E
    <2> HIDE DEF c, k
    <2>6. [c EXCEPT ![k].messages = @ \cup outcomes] = [c EXCEPT ![k] = e]
      BY <2>5 DEF e
    <2>7. Vector!SetMessages(id, outcomes)
      BY <1>2, <1>3, <2>5, <2>6
    <2> QED  BY <2>5, <2>7 DEF Vector!Next
  <1>5. CASE At(entries, id) = {}
    <2>1. UNCHANGED <<entries, byId, exited, base, len, pushes>> /\ found' \in Answers \cup {None}
      BY <1>1, <1>2, <1>5, IndexedIs DEF SetMessages
    <2>2. ScopesInv' /\ Contents(entries)' = c
      BY <2>1, QueryKeeps
    <2>3. Scan(c, id) = {}
      <3> HIDE DEF E
      <3> QED  BY <1>1, <1>5, ScanFinds
    <2> HIDE DEF c, k
    <2>4. Vector!SetMessages(id, outcomes)
      BY <1>2, <1>3, <2>2, <2>3
    <2> QED  BY <2>2, <2>4 DEF Vector!Next
  <1> QED  BY <1>4, <1>5

LEMMA TrimStep ==
    ASSUME ScopesInv, NEW max \in 0..MaxPushes, Trim(max)
    PROVE  ScopesInv' /\ Vector!Next
  <1> DEFINE E == EntryUpTo(pushes)
             c == Contents(entries)
             s == Scopes
             r == Trimmed(s, max)
  <1>1. /\ None \notin E /\ Exact(s, E) /\ max \in Nat /\ VacantBounded /\ s.entries = entries
        /\ s.base = base /\ Len(entries) \in Nat /\ base \in Nat /\ KeyLimit \in Nat
        /\ pushes \in 0..MaxPushes /\ found \in Answers \cup {None}
    BY ScopesFacts DEF Scopes
  <1>2. Become(r) /\ pushes' = pushes /\ found' = found
    <2>1. s.exited = exited
      BY DEF Scopes
    <2> HIDE DEF s
    <2>2. r = LET over == Cardinality(exited) - max
              IN  Settle(PopVacant(IF over > 0 THEN EvictTimes(s, over) ELSE s))
      BY <2>1 DEF Trimmed
    <2> HIDE DEF r
    <2> QED  BY <2>2 DEF Trim, s
  <1> HIDE DEF s, r, E
  <1>3. /\ Exact(r, E)
        /\ Contents(r.entries) = Pick(c, (1..Len(c)) \ Gone(c, max))
        /\ Len(r.entries) - r.len <= IF r.len > CompactAbove THEN r.len ELSE CompactAbove
        /\ r.base + Len(r.entries) <= base + Len(entries)
    <2>1. LET c1 == Contents(s.entries)
          IN  /\ Exact(r, E)
              /\ Contents(r.entries) = Pick(c1, (1..Len(c1)) \ Gone(c1, max))
              /\ Len(r.entries) - r.len <= IF r.len > CompactAbove THEN r.len ELSE CompactAbove
              /\ r.base + Len(r.entries) <= s.base + Len(s.entries)
      BY <1>1, TrimmedExact DEF r
    <2> QED  BY <1>1, <2>1
  <1>4. Scopes' = r /\ entries' = r.entries /\ len' = r.len /\ base' = r.base
    <2>1. Scopes' = r
      BY <1>2, <1>3, BecomesScopes
    <2> QED  BY <1>2, <2>1 DEF Become
  <1>5. Exact(Scopes, EntryUpTo(pushes))'
    BY <1>2, <1>3, <1>4 DEF E
  <1>6. VacantBounded'
    <2>1. base + Len(entries) <= KeyLimit
      BY <1>1 DEF VacantBounded
    <2>2. r.base \in Nat /\ Len(r.entries) \in Nat
      BY <1>3, LenProperties DEF Exact
    <2>3. r.base + Len(r.entries) <= KeyLimit
      BY <1>1, <1>3, <2>1, <2>2
    <2> QED  BY <1>3, <1>4, <2>3 DEF VacantBounded
  <1>7. ScopesInv'
    <2>1. found' \in (Answers \cup {None})' /\ pushes' \in (0..MaxPushes)'
      BY <1>1, <1>2 DEF Answers, Entry
    <2> QED  BY <1>5, <1>6, <2>1 DEF ScopesInv
  <1>8. Vector!Trim(max)
    <2>1. {k \in Vector!Closed : Vector!Cardinality({j \in Vector!Closed : j > k}) >= max} = Gone(c, max)
      <3>1. Vector!Closed = ClosedAt(c)
        BY VectorIs
      <3>2. \A S : Vector!Cardinality(S) = Cardinality(S)
        BY DEF Vector!Cardinality, Cardinality
      <3> QED  BY <3>1, <3>2 DEF Gone
    <2>2. Pick(entries, Occupied(entries)) = c
      BY DEF Contents
    <2>3. Pick(entries, Occupied(entries))' = Pick(c, (1..Len(c)) \ Gone(c, max))
      BY <1>3, <1>4 DEF Contents
    <2>4. \A P : Vector!Pick(c, P) = Pick(c, P)
      BY VectorIs
    <2> HIDE DEF c
    <2>5. Vector!Trim(max) <=>
             /\ Pick(entries, Occupied(entries))' = Pick(c, (1..Len(c)) \ Gone(c, max))
             /\ found' = found
      BY <2>1, <2>2, <2>4 DEF Vector!Trim
    <2> QED  BY <1>2, <2>3, <2>5
  <1>9. max \in 0..MaxPushes
    OBVIOUS
  <1> QED  BY <1>7, <1>8, <1>9 DEF Vector!Next

(* Nothing is stored.                                                       *)
LEMMA EmptyIndex ==
    /\ Occupied(<<>>) = {} /\ ClosedIn(<<>>) = {} /\ Len(<<>>) = 0
    /\ \A b : IndexOf(<<>>, b) = <<>>
  <1>1. Occupied(<<>>) = {} /\ ClosedIn(<<>>) = {} /\ Len(<<>>) = 0
    BY DEF Occupied, ClosedIn
  <1>2. ASSUME NEW b PROVE IndexOf(<<>>, b) = <<>>
    <2>1. {<<>>[i].id : i \in Occupied(<<>>)} = {}
      BY <1>1
    <2>2. DOMAIN IndexOf(<<>>, b) = {}
      BY <2>1 DEF IndexOf
    <2>3. IndexOf(<<>>, b) = [x \in {} |-> IndexOf(<<>>, b)[x]]
      BY <2>1 DEF IndexOf
    <2> QED  BY <2>3
  <1> QED  BY <1>1, <1>2

LEMMA ExactEmpty ==
    ASSUME NEW E
    PROVE  /\ Exact([entries |-> <<>>, byId |-> <<>>, exited |-> {}, base |-> 0, len |-> 0], E)
           /\ Contents(<<>>) = <<>> /\ Len(<<>>) = 0
  <1>1. Cardinality({}) = 0
    BY FS_EmptySet
  <1>2. Contents(<<>>) = <<>>
    <2>1. Occupied(<<>>) = {}
      BY EmptyIndex
    <2> QED  BY <1>1, <2>1 DEF Contents, Pick
  <1>3. {0 + i - 1 : i \in ClosedIn(<<>>)} = {}
    BY EmptyIndex
  <1>4. <<>> \in Seq(E \cup {None})
    OBVIOUS
  <1> QED  BY <1>1, <1>2, <1>3, <1>4, EmptyIndex, ExactIs

LEMMA ClearStep ==
    ASSUME ScopesInv, Clear
    PROVE  ScopesInv' /\ Vector!Next
  <1> DEFINE s == [entries |-> <<>>, byId |-> <<>>, exited |-> {}, base |-> 0, len |-> 0]
  <1>1. Become(s) /\ pushes' = pushes /\ found' = found
    BY DEF Clear
  <1>2. Exact(s, EntryUpTo(pushes)) /\ Contents(<<>>) = <<>> /\ Len(<<>>) = 0
    BY ExactEmpty
  <1>3. entries' = <<>> /\ base' = 0 /\ len' = 0
    BY <1>1 DEF Become
  <1> HIDE DEF s
  <1>4. Scopes' = s
    BY <1>1, <1>2, BecomesScopes
  <1>5. Exact(Scopes, EntryUpTo(pushes))'
    BY <1>1, <1>2, <1>4
  <1>6. VacantBounded'
    BY <1>2, <1>3, KeyedIndexAssumption, ScopeBufferAssumption DEF VacantBounded
  <1>7. found' \in (Answers \cup {None})' /\ pushes' \in (0..MaxPushes)'
    BY <1>1, ScopesFacts DEF Answers, Entry
  <1>8. Vector!Clear
    BY <1>1, <1>2, <1>3 DEF Vector!Clear, Contents
  <1> QED  BY <1>5, <1>6, <1>7, <1>8 DEF ScopesInv, Vector!Next

LEMMA ScopesBegin ==
    ASSUME Init
    PROVE  ScopesInv /\ Vector!Init
  <1>1. Scopes = [entries |-> <<>>, byId |-> <<>>, exited |-> {}, base |-> 0, len |-> 0]
    BY DEF Init, Scopes
  <1>2. Exact(Scopes, EntryUpTo(pushes)) /\ Contents(<<>>) = <<>> /\ Len(<<>>) = 0
    BY <1>1, ExactEmpty
  <1>3. VacantBounded
    BY <1>2, KeyedIndexAssumption, ScopeBufferAssumption DEF VacantBounded, Init
  <1>4. pushes \in 0..MaxPushes /\ found \in Answers \cup {None}
    BY KeyedIndexAssumption DEF Init
  <1>5. Vector!Init
    BY <1>2 DEF Vector!Init, Contents, Init
  <1> QED  BY <1>2, <1>3, <1>4, <1>5 DEF ScopesInv

LEMMA ScopesStutter ==
    ASSUME ScopesInv, UNCHANGED vars
    PROVE  ScopesInv' /\ UNCHANGED Vector!vars
  <1>1. UNCHANGED <<entries, byId, exited, base, len, pushes, found>>
    BY DEF vars
  <1>2. Scopes' = Scopes
    BY <1>1 DEF Scopes
  <1>3. Exact(Scopes, EntryUpTo(pushes))'
    BY <1>1, <1>2 DEF ScopesInv
  <1>4. VacantBounded'
    BY <1>1 DEF ScopesInv, VacantBounded
  <1>5. found' \in (Answers \cup {None})' /\ pushes' \in (0..MaxPushes)'
    BY <1>1, ScopesFacts DEF Answers, Entry
  <1>6. UNCHANGED Vector!vars
    BY <1>1, VectorIs DEF Contents, Vector!vars
  <1> QED  BY <1>3, <1>4, <1>5, <1>6 DEF ScopesInv

LEMMA ScopesStep ==
    ASSUME ScopesInv, [Next]_vars
    PROVE  ScopesInv' /\ [Vector!Next]_Vector!vars
  <1>1. ASSUME NEW id \in Ids, NEW open \in BOOLEAN, Push(id, open)
        PROVE  ScopesInv' /\ Vector!Next
    BY <1>1, PushStep
  <1>2. ASSUME NEW id \in Ids, Get(id) PROVE ScopesInv' /\ Vector!Next
    BY <1>2, GetStep
  <1>3. ASSUME NEW id \in Ids, Finalize(id) PROVE ScopesInv' /\ Vector!Next
    BY <1>3, FinalizeStep
  <1>4. ASSUME NEW id \in Ids, NEW o \in SUBSET Outcomes, SetMessages(id, o)
        PROVE  ScopesInv' /\ Vector!Next
    BY <1>4, SetMessagesStep
  <1>5. ASSUME NEW n \in 0..MaxPushes, GetAt(n) PROVE ScopesInv' /\ Vector!Next
    BY <1>5, GetAtStep
  <1>6. ASSUME NEW n \in 0..MaxPushes, Trim(n) PROVE ScopesInv' /\ Vector!Next
    BY <1>6, TrimStep
  <1>7. CASE Clear
    BY <1>7, ClearStep
  <1>8. CASE UNCHANGED vars
    BY <1>8, ScopesStutter
  <1> QED  BY <1>1, <1>2, <1>3, <1>4, <1>5, <1>6, <1>7, <1>8 DEF Next

-----------------------------------------------------------------------------
(* The records: a deque with no vacant slot                                 *)

(* The index after the front was popped; first is where its identifier is   *)
(* found then.                                                              *)
Popped(I, id, first) ==
    IF I = None THEN None
    ELSE IF I[id].count = 1 THEN Without(I, id)
    ELSE [I EXCEPT ![id] = [count |-> I[id].count - 1, first |-> first]]

LEMMA IndexPopped ==
    ASSUME NEW E, None \notin E, NEW t \in Seq(E), t # <<>>, NEW b \in Nat,
           NEW I, I # None => I = IndexOf(t, b)
    PROVE  LET J == Popped(I, t[1].id, b + 1 + Min(At(Tail(t), t[1].id)) - 1)
           IN  J # None => J = IndexOf(Tail(t), b + 1)
  <1> DEFINE x == t[1].id
             T == E \cup {None}
             u == Vacate(t, 1)
             l == Tail(t)
             first == b + 1 + Min(At(l, x)) - 1
             next == b + Min(At(u, x)) - 1
             K == IndexOf(t, b)
  <1>1. /\ t \in Seq(T) /\ Len(t) \in Nat /\ Len(t) # 0 /\ Occupied(t) = 1..Len(t)
        /\ None \in T
    BY FullDeque, EmptySeq
  <1>2. 1 \in Occupied(t)
    BY <1>1
  <1>3. /\ u \in Seq(T) /\ Len(u) = Len(t)
        /\ \A j \in 1..Len(t) : u[j] = IF j = 1 THEN None ELSE t[j]
        /\ Occupied(u) = Occupied(t) \ {1}
    <2> HIDE DEF T
    <2> QED  BY <1>1, <1>2, Vacated DEF Vacate
  <1>4. x \in DOMAIN K /\ IndexOf(u, b) = VacatedIndex(K, x, b + 1 - 1, next)
    <2> HIDE DEF T
    <2> QED  BY <1>1, <1>2, IndexVacated
  <1>5. l = SubSeq(u, 2, Len(u)) /\ l \in Seq(T)
    <2>1. /\ l \in Seq(E) /\ Len(l) = Len(t) - 1 /\ \A i \in 1..Len(l) : l[i] = t[i + 1]
      BY HeadTailProperties
    <2>2. l \in Seq(T)
      BY <2>1, SeqMonotonic
    <2> DEFINE r == SubSeq(u, 1 + 1, Len(u))
    <2>3. r \in Seq(T) /\ Len(r) = Len(u) - 1 /\ \A i \in 1..Len(r) : r[i] = u[i + 1]
      <3>1. 1 \in 0..Len(u) /\ \A i \in Occupied(u) : i > 1
        BY <1>1, <1>3
      <3> HIDE DEF u, T
      <3> QED  BY <1>3, <3>1, Dropped
    <2> HIDE DEF l, r, u, T
    <2>4. \A i \in 1..Len(l) : i + 1 \in 1..Len(t) /\ i + 1 # 1
      BY <1>1, <2>1
    <2>5. Len(l) = Len(r) /\ \A i \in 1..Len(l) : l[i] = r[i]
      BY <1>3, <2>1, <2>3, <2>4
    <2>6. l = r
      BY <2>2, <2>3, <2>5, SeqEqual
    <2> QED  BY <2>2, <2>6 DEF r
  <1>6. IndexOf(l, b + 1) = IndexOf(u, b)
    <2>1. 1 \in 0..Len(u) /\ \A i \in Occupied(u) : i > 1
      BY <1>1, <1>3
    <2>2. IndexOf(SubSeq(u, 1 + 1, Len(u)), b + 1) = IndexOf(u, b)
      <3> HIDE DEF u, T
      <3> QED  BY <1>3, <2>1, IndexDropped
    <2>3. 1 + 1 = 2
      OBVIOUS
    <2>4. l = SubSeq(u, 1 + 1, Len(u))
      BY <1>5, <2>3, Zenon
    <2> HIDE DEF u, l
    <2> QED  BY <2>2, <2>4, Zenon
  <1>7. K[x].first = b + 1 - 1
    <2>1. x \in IdsOf(t) /\ 1 \in At(t, x)
      BY <1>2 DEF IdsOf, At
    <2>2. /\ Min(At(t, x)) \in At(t, x) /\ K[x].first = b + Min(At(t, x)) - 1
          /\ \A y \in At(t, x) : Min(At(t, x)) <= y
      BY <2>1, IndexSays
    <2>3. At(t, x) \in SUBSET (1..Len(t))
      BY <1>1, Occurrences
    <2>4. Min(At(t, x)) = 1
      BY <1>1, <2>1, <2>2, <2>3
    <2> QED  BY <2>2, <2>4
  <1>8. IndexOf(u, b) = IF K[x].count = 1 THEN Without(K, x)
                        ELSE [K EXCEPT ![x] = [count |-> K[x].count - 1, first |-> next]]
    BY <1>4, <1>7 DEF VacatedIndex
  <1> HIDE DEF K, l, u, x, T, next, first
  <1>9. ASSUME K[x].count # 1 PROVE next = first
    <2>1. x \in DOMAIN IndexOf(u, b)
      BY <1>4, <1>8, <1>9
    <2>2. x \in IdsOf(u) /\ IndexOf(u, b)[x].first = next
      BY <1>3, <2>1, IndexSays DEF next
    <2>3. x \in IdsOf(l) /\ IndexOf(l, b + 1)[x].first = first
      <3> DEFINE c == b + 1
      <3>1. c \in Nat /\ l \in Seq(T) /\ x \in DOMAIN IndexOf(l, c)
        BY <1>5, <1>6, <2>1
      <3> HIDE DEF c
      <3>2. x \in IdsOf(l) /\ IndexOf(l, c)[x].first = c + Min(At(l, x)) - 1
        BY <3>1, IndexSays
      <3> QED  BY <3>2 DEF c, first
    <2> QED  BY <1>6, <2>2, <2>3
  <1>10. CASE I # None
    <2>1. Popped(I, x, first) = IF K[x].count = 1 THEN Without(K, x)
                        ELSE [K EXCEPT ![x] = [count |-> K[x].count - 1, first |-> first]]
      BY <1>10 DEF Popped, K
    <2>2. Popped(I, x, first) = IndexOf(u, b)
      BY <1>8, <1>9, <2>1
    <2> QED  BY <1>6, <2>2 DEF x, l, first
  <1>11. CASE I = None
    BY <1>11 DEF Popped
  <1> QED  BY <1>10, <1>11

(* After n turns of the loop: the first n records have left, and the index, *)
(* if there is one, says so.                                                *)
PopTurns(s, n, turn) == turn = [k \in 0..n |-> IF k = 0 THEN s ELSE PopFront(turn[k - 1])]

Front(s, n, r, E) ==
    /\ r.entries \in Seq(E) /\ Len(r.entries) = Len(s.entries) - n
    /\ \A i \in 1..(Len(s.entries) - n) : r.entries[i] = s.entries[i + n]
    /\ r.base = s.base + n
    /\ r.byId # None => r.byId = IndexOf(r.entries, r.base)

LEMMA PopOnce ==
    ASSUME NEW E, None \notin E, NEW s, s.entries \in Seq(E), s.base \in Nat,
           NEW n \in Nat, n < Len(s.entries), NEW r, Front(s, n, r, E)
    PROVE  Front(s, n + 1, PopFront(r), E)
  <1> DEFINE t == r.entries
             q == PopFront(r)
             J == Popped(r.byId, t[1].id, r.base + 1 + Min(At(Tail(t), t[1].id)) - 1)
  <1>1. /\ t \in Seq(E) /\ Len(t) = Len(s.entries) - n
        /\ \A i \in 1..(Len(s.entries) - n) : t[i] = s.entries[i + n]
        /\ r.base = s.base + n /\ r.base \in Nat
        /\ r.byId # None => r.byId = IndexOf(t, r.base)
    BY DEF Front
  <1>2. Len(s.entries) \in Nat /\ Len(t) \in Nat /\ Len(t) # 0 /\ t # <<>>
    BY <1>1, LenProperties
  <1>3. q.entries = Tail(t) /\ q.base = r.base + 1 /\ q.byId = J
    BY DEF PopFront, Popped
  <1>4. J # None => J = IndexOf(Tail(t), r.base + 1)
    <2> DEFINE I == r.byId
               b == r.base
    <2>1. b \in Nat /\ t \in Seq(E) /\ t # <<>> /\ (I # None => I = IndexOf(t, b))
      BY <1>1, <1>2
    <2> HIDE DEF t, I, b
    <2>2. LET K == Popped(I, t[1].id, b + 1 + Min(At(Tail(t), t[1].id)) - 1)
          IN  K # None => K = IndexOf(Tail(t), b + 1)
      BY <2>1, IndexPopped
    <2> QED  BY <2>2 DEF I, b
  <1>5. Tail(t) \in Seq(E) /\ Len(Tail(t)) = Len(t) - 1 /\ \A i \in 1..Len(Tail(t)) : Tail(t)[i] = t[i + 1]
    BY <1>1, <1>2, HeadTailProperties
  <1> HIDE DEF t, q, J
  <1>6. ASSUME NEW i \in 1..(Len(s.entries) - (n + 1)) PROVE Tail(t)[i] = s.entries[i + (n + 1)]
    <2>1. i \in 1..Len(Tail(t)) /\ i + 1 \in 1..(Len(s.entries) - n) /\ (i + 1) + n = i + (n + 1)
      BY <1>1, <1>2, <1>5
    <2> QED  BY <1>1, <1>5, <2>1
  <1>7. Len(Tail(t)) = Len(s.entries) - (n + 1) /\ r.base + 1 = s.base + (n + 1)
    BY <1>1, <1>2, <1>5
  <1> QED  BY <1>3, <1>4, <1>5, <1>6, <1>7 DEF Front, q

LEMMA PopTurnsExist ==
    ASSUME NEW s, NEW n \in Nat
    PROVE  \E turn : PopTurns(s, n, turn) /\ PopTimes(s, n) = turn[n]
  <1> DEFINE T == {k \in Nat : \E turn : PopTurns(s, k, turn)}
  <1>1. 0 \in T
    <2> DEFINE f == [k \in 0..0 |-> s]
    <2>1. PopTurns(s, 0, f)
      BY DEF PopTurns
    <2> QED  BY <2>1
  <1>2. ASSUME NEW k \in T PROVE k + 1 \in T
    <2>1. PICK turn : PopTurns(s, k, turn)
      OBVIOUS
    <2> DEFINE f == [j \in 0..(k + 1) |-> IF j <= k THEN turn[j] ELSE PopFront(turn[k])]
    <2>2. k \in Nat /\ turn[0] = s /\ \A j \in 1..k : turn[j] = PopFront(turn[j - 1])
      BY <2>1 DEF PopTurns
    <2>3. ASSUME NEW j \in 0..(k + 1) PROVE f[j] = IF j = 0 THEN s ELSE PopFront(f[j - 1])
      <3>1. CASE j = 0
        BY <2>2, <3>1
      <3>2. CASE j \in 1..k
        <4>1. f[j] = turn[j] /\ f[j - 1] = turn[j - 1]
          BY <2>2, <3>2
        <4> QED  BY <2>2, <3>2, <4>1
      <3>3. CASE j = k + 1
        <4>1. j \in 0..(k + 1) /\ ~ (j <= k) /\ j - 1 = k /\ k \in 0..(k + 1) /\ k <= k /\ j # 0
          BY <2>2, <3>3
        <4>2. f[j] = PopFront(turn[k]) /\ f[j - 1] = turn[k]
          BY <4>1
        <4> QED  BY <4>1, <4>2
      <3> QED  BY <2>2, <3>1, <3>2, <3>3
    <2>4. f = [j \in 0..(k + 1) |-> f[j]]
      OBVIOUS
    <2> HIDE DEF f
    <2>5. PopTurns(s, k + 1, f)
      BY <2>3, <2>4 DEF PopTurns
    <2> QED  BY <2>2, <2>5
  <1>3. n \in T
    <2> HIDE DEF T
    <2>1. T \in SUBSET Nat
      BY DEF T
    <2> QED  BY <1>1, <1>2, <2>1, SetInduction
  <1>4. PICK g : PopTurns(s, n, g)
    BY <1>3
  <1> DEFINE turn == CHOOSE f : f = [k \in 0..n |-> IF k = 0 THEN s ELSE PopFront(f[k - 1])]
  <1>5. turn = [k \in 0..n |-> IF k = 0 THEN s ELSE PopFront(turn[k - 1])]
    BY <1>4 DEF PopTurns
  <1>6. PopTimes(s, n) = turn[n]
    BY DEF PopTimes
  <1> QED  BY <1>5, <1>6 DEF PopTurns

LEMMA PopTimesFront ==
    ASSUME NEW E, None \notin E, NEW s, s.entries \in Seq(E), s.base \in Nat,
           s.byId # None => s.byId = IndexOf(s.entries, s.base),
           NEW n \in Nat, n <= Len(s.entries)
    PROVE  Front(s, n, PopTimes(s, n), E)
  <1>1. PICK turn : PopTurns(s, n, turn) /\ PopTimes(s, n) = turn[n]
    BY PopTurnsExist
  <1>2. turn[0] = s /\ \A k \in 0..n : k + 1 <= n => turn[k + 1] = PopFront(turn[k])
    BY <1>1 DEF PopTurns
  <1> DEFINE T == {k \in Nat : k <= n => Front(s, k, turn[k], E)}
  <1>3. 0 \in T
    <2>1. Len(s.entries) \in Nat
      BY LenProperties
    <2> QED  BY <1>2, <2>1 DEF Front
  <1>4. ASSUME NEW k \in T PROVE k + 1 \in T
    <2>1. CASE k + 1 <= n
      <3>1. k \in Nat /\ k <= n /\ k < Len(s.entries) /\ Len(s.entries) \in Nat
        BY <2>1, LenProperties
      <3>2. Front(s, k, turn[k], E)
        BY <3>1
      <3>3. Front(s, k + 1, PopFront(turn[k]), E)
        <4> HIDE DEF T
        <4> QED  BY <3>1, <3>2, PopOnce
      <3> QED  BY <1>2, <2>1, <3>1, <3>3
    <2> QED  BY <2>1
  <1>5. n \in T
    <2> HIDE DEF T
    <2>1. T \in SUBSET Nat
      BY DEF T
    <2> QED  BY <1>3, <1>4, <2>1, SetInduction
  <1> QED  BY <1>1, <1>5

-----------------------------------------------------------------------------
(* The invariant of the records                                             *)

RecordUpTo(p) == [id : Ids, tag : 0..(p - 1), open : {FALSE}, messages : {{}}]

RecordsInv ==
    /\ records \in Seq(RecordUpTo(recordPushes))
    /\ RecordIndexExact
    /\ recordBase \in Nat /\ recordPushes \in 0..MaxPushes
    /\ recordFound \in RecordAnswers \cup {None} /\ waiting \in [Threads -> Ids \cup {None}]

LEMMA RecordsUpTo ==
    ASSUME NEW p \in 0..MaxPushes
    PROVE  /\ RecordUpTo(p) \subseteq RecordEntry /\ None \notin RecordUpTo(p)
           /\ RecordUpTo(p) \subseteq RecordUpTo(p + 1)
           /\ \A e \in RecordUpTo(p) : e.tag < p /\ e.id \in Ids /\ ~ e.open
           /\ p \in Nat /\ MaxPushes \in Nat
  <1>1. MaxPushes \in Nat /\ p \in Nat /\ p <= MaxPushes
    BY KeyedIndexAssumption
  <1>2. 0..(p - 1) \subseteq 0..(MaxPushes - 1) /\ 0..(p - 1) \subseteq 0..((p + 1) - 1)
    BY <1>1
  <1>3. RecordUpTo(p) \subseteq RecordEntry
    BY <1>2 DEF RecordUpTo, RecordEntry
  <1>4. RecordUpTo(p) \subseteq RecordUpTo(p + 1)
    BY <1>2 DEF RecordUpTo
  <1>5. ASSUME NEW e \in RecordUpTo(p) PROVE e.tag < p /\ e.id \in Ids /\ ~ e.open
    <2>1. e.tag < p /\ e.id \in Ids
      BY <1>1 DEF RecordUpTo
    <2>2. e.open \in {FALSE}
      BY Zenon DEF RecordUpTo
    <2>3. ~ e.open
      BY <2>2, Zenon
    <2> QED  BY <2>1, <2>3
  <1> QED  BY <1>1, <1>3, <1>4, <1>5, RecordNoneAssumption

LEMMA RecordsFacts ==
    ASSUME RecordsInv
    PROVE  LET E == RecordUpTo(recordPushes)
           IN  /\ None \notin E /\ E \subseteq RecordEntry /\ records \in Seq(E)
               /\ Len(records) \in Nat /\ recordBase \in Nat
               /\ recordPushes \in Nat /\ recordPushes \in 0..MaxPushes /\ MaxPushes \in Nat
               /\ recordById # None => recordById = IndexOf(records, recordBase)
               /\ recordFound \in RecordAnswers \cup {None}
               /\ waiting \in [Threads -> Ids \cup {None}]
               /\ \A i \in 1..Len(records) : records[i] \in E
  <1>1. recordPushes \in 0..MaxPushes /\ records \in Seq(RecordUpTo(recordPushes))
    BY DEF RecordsInv
  <1>2. Len(records) \in Nat /\ \A i \in 1..Len(records) : records[i] \in RecordUpTo(recordPushes)
    BY <1>1, LenProperties, ElementOfSeq
  <1> QED  BY <1>1, <1>2, RecordsUpTo DEF RecordsInv, RecordIndexExact

LEMMA RecordsInvImplies ==
    ASSUME RecordsInv
    PROVE  RecordTypeOK /\ RecordIndexExact
  <1> DEFINE E == RecordUpTo(recordPushes)
  <1>1. /\ None \notin E /\ E \subseteq RecordEntry /\ records \in Seq(E)
        /\ recordBase \in Nat /\ recordPushes \in 0..MaxPushes
        /\ recordById # None => recordById = IndexOf(records, recordBase)
        /\ recordFound \in RecordAnswers \cup {None} /\ waiting \in [Threads -> Ids \cup {None}]
        /\ \A i \in 1..Len(records) : records[i] \in E
    BY RecordsFacts
  <1> HIDE DEF E
  <1>2. records \in Seq(RecordEntry)
    BY <1>1, SeqMonotonic
  <1>3. ASSUME recordById # None
        PROVE  /\ DOMAIN recordById \subseteq Ids
               /\ \A id \in DOMAIN recordById : recordById[id] \in [first : Nat, count : Nat \ {0}]
    <2>1. /\ DOMAIN IndexOf(records, recordBase) = IdsOf(records)
          /\ \A id \in IdsOf(records) : IndexOf(records, recordBase)[id] \in [first : Nat, count : Nat \ {0}]
      BY <1>1, IndexSays
    <2>2. ASSUME NEW i \in Occupied(records) PROVE records[i].id \in Ids
      <3>1. records[i] \in RecordEntry
        BY <1>1 DEF Occupied
      <3> QED  BY <3>1 DEF RecordEntry
    <2> QED  BY <1>1, <1>3, <2>1, <2>2 DEF IdsOf
  <1>4. RecordTypeOK
    BY <1>1, <1>2, <1>3 DEF RecordTypeOK
  <1> QED  BY <1>4 DEF RecordsInv

(* A lookup through the index finds what a scan finds.                      *)
LEMMA IndexedRecordIs ==
    ASSUME RecordsInv, NEW id, NEW I, I = IndexOf(records, recordBase)
    PROVE  IndexedRecord(I, id) = IF Scan(records, id) = {} THEN None
                                  ELSE records[Min(Scan(records, id))]
  <1> DEFINE E == RecordUpTo(recordPushes)
             x == Min(At(records, id))
  <1>1. /\ None \notin E /\ records \in Seq(E) /\ recordBase \in Nat /\ Len(records) \in Nat
    BY RecordsFacts
  <1> HIDE DEF E
  <1>2. At(records, id) = Scan(records, id)
    <2>1. Occupied(records) = 1..Len(records)
      BY <1>1, FullDeque
    <2> QED  BY <2>1 DEF At, Scan
  <1>3. DOMAIN I = IdsOf(records) /\ (id \in DOMAIN I <=> At(records, id) # {})
    BY <1>1, IndexSays, IdOccurs
  <1>4. ASSUME id \in DOMAIN I PROVE I[id].first - recordBase + 1 = x
    <2>1. I[id].first = recordBase + x - 1 /\ x \in 1..Len(records)
      BY <1>1, <1>3, <1>4, IndexSays
    <2> HIDE DEF x
    <2> QED  BY <1>1, <2>1
  <1> QED  BY <1>2, <1>3, <1>4 DEF IndexedRecord

LEMMA RecordVectorIs ==
    /\ RecordVector!vars = <<records, recordFound>>
    /\ \A id : RecordVector!Positions(id) = Scan(records, id)
    /\ \A id : RecordVector!First(id) = Min(Scan(records, id))
    /\ RecordVector!Closed = ClosedAt(records)
    /\ \A s, P : RecordVector!Pick(s, P) = Pick(s, P)
    /\ \A q, x, e : RecordVector!Answer(q, x, e) = Answer(q, x, e)
    /\ \A S : RecordVector!Cardinality(S) = Cardinality(S)
  <1>1. RecordVector!vars = <<records, recordFound>>
    BY DEF RecordVector!vars
  <1>2. \A id : RecordVector!Positions(id) = Scan(records, id)
    BY DEF RecordVector!Positions, Scan
  <1>3. \A id : RecordVector!First(id) = Min(Scan(records, id))
    BY <1>2 DEF RecordVector!First, Min
  <1>4. RecordVector!Closed = ClosedAt(records)
    BY DEF RecordVector!Closed, ClosedAt
  <1>5. \A P : RecordVector!Cardinality(P) = Cardinality(P)
    BY DEF RecordVector!Cardinality, Cardinality
  <1>6. \A s, P : RecordVector!Pick(s, P) = Pick(s, P)
    <2>1. \A P, n : RecordVector!Nth(P, n) = Nth(P, n)
      <3> TAKE P, n
      <3>1. \A i \in P : RecordVector!Cardinality({j \in P : j <= i}) = Cardinality({j \in P : j <= i})
        BY <1>5
      <3> QED  BY <3>1 DEF RecordVector!Nth, Nth
    <2>2. \A s, P : RecordVector!Pick(s, P) = [n \in 1..Cardinality(P) |-> s[Nth(P, n)]]
      BY <1>5, <2>1 DEF RecordVector!Pick
    <2> QED  BY <2>2 DEF Pick
  <1>7. \A q, x, e : RecordVector!Answer(q, x, e) = Answer(q, x, e)
    BY DEF RecordVector!Answer, Answer
  <1> QED  BY <1>1, <1>2, <1>3, <1>4, <1>5, <1>6, <1>7

-----------------------------------------------------------------------------
(* Each operation on records keeps their invariant and is one, or none, of  *)
(* the abstract sequence                                                    *)

(* A query changes neither the records nor what is known of them.           *)
LEMMA RecordQueryKeeps ==
    ASSUME RecordsInv, UNCHANGED <<records, recordBase, recordPushes>>,
           RecordIndexExact', recordFound' \in RecordAnswers \cup {None},
           waiting' \in [Threads -> Ids \cup {None}]
    PROVE  RecordsInv'
  <1>1. /\ records' \in Seq(RecordUpTo(recordPushes))' /\ recordBase' \in Nat
        /\ recordPushes' \in (0..MaxPushes)'
    BY RecordsFacts
  <1>2. recordFound' \in (RecordAnswers \cup {None})' /\ waiting' \in ([Threads -> Ids \cup {None}])'
    BY DEF RecordAnswers, RecordEntry
  <1> QED  BY <1>1, <1>2 DEF RecordsInv

LEMMA PushRecordStep ==
    ASSUME RecordsInv, NEW id \in Ids, PushRecord(id)
    PROVE  RecordsInv' /\ RecordVector!Next
  <1> DEFINE E == RecordUpTo(recordPushes + 1)
             e == [id |-> id, tag |-> recordPushes, open |-> FALSE, messages |-> {}]
             restart == recordBase + Len(records) >= KeyLimit
             from == IF restart THEN 0 ELSE recordBase
             I == IF restart /\ recordById # None THEN IndexOf(records, 0) ELSE recordById
             key == from + Len(records)
  <1>1. /\ None \notin RecordUpTo(recordPushes) /\ records \in Seq(RecordUpTo(recordPushes))
        /\ Len(records) \in Nat /\ recordBase \in Nat /\ recordPushes \in Nat
        /\ recordPushes \in 0..MaxPushes /\ MaxPushes \in Nat
        /\ recordById # None => recordById = IndexOf(records, recordBase)
        /\ recordFound \in RecordAnswers \cup {None} /\ waiting \in [Threads -> Ids \cup {None}]
        /\ \A i \in 1..Len(records) : records[i] \in RecordUpTo(recordPushes)
    BY RecordsFacts
  <1>2. /\ recordPushes < MaxPushes /\ recordPushes' = recordPushes + 1
        /\ recordBase' = from /\ records' = Append(records, e)
        /\ recordById' = IF I = None THEN None
                         ELSE IF id \in DOMAIN I THEN [I EXCEPT ![id].count = @ + 1]
                         ELSE With(I, id, FirstAt(key))
        /\ recordFound' = recordFound /\ waiting' = waiting
    BY DEF PushRecord
  <1>3. recordPushes + 1 \in 0..MaxPushes /\ RecordUpTo(recordPushes) \subseteq E /\ None \notin E
    BY <1>1, <1>2, RecordsUpTo
  <1>4. e \in E /\ e # None
    <2>1. recordPushes \in 0..((recordPushes + 1) - 1)
      BY <1>1
    <2>2. e \in E
      BY <2>1 DEF RecordUpTo
    <2> QED  BY <1>3, <2>2
  <1>5. records \in Seq(E)
    BY <1>1, <1>3, SeqMonotonic
  <1>6. from \in Nat /\ (I # None => I = IndexOf(records, from))
    BY <1>1
  <1>7. e.id = id /\ e.tag = recordPushes
    OBVIOUS
  <1>8. recordById' = IF I = None THEN None ELSE Added(I, e.id, key)
    BY <1>2, <1>7 DEF Added
  <1> HIDE DEF E, e, I, from, restart
  <1>9. IndexOf(Append(records, e), from) = Added(IndexOf(records, from), e.id, from + Len(records))
    BY <1>4, <1>5, <1>6, IndexPushed
  <1>10. recordById' # None => recordById' = IndexOf(Append(records, e), from)
    BY <1>6, <1>8, <1>9
  <1>11. Append(records, e) \in Seq(E)
    BY <1>4, <1>5, AppendProperties
  <1>12. RecordsInv'
    <2>1. records' \in Seq(RecordUpTo(recordPushes))'
      BY <1>2, <1>11 DEF E
    <2>2. RecordIndexExact'
      BY <1>2, <1>10 DEF RecordIndexExact
    <2>3. recordBase' \in Nat /\ recordPushes' \in (0..MaxPushes)'
      BY <1>2, <1>3, <1>6
    <2>4. recordFound' \in (RecordAnswers \cup {None})' /\ waiting' \in ([Threads -> Ids \cup {None}])'
      BY <1>1, <1>2 DEF RecordAnswers, RecordEntry
    <2> QED  BY <2>1, <2>2, <2>3, <2>4 DEF RecordsInv
  <1>13. RecordVector!Push(e)
    <2>1. ASSUME NEW i \in 1..Len(records) PROVE records[i].tag # e.tag
      <3>1. records[i].tag < recordPushes
        BY <1>1, RecordsUpTo
      <3>2. records[i].tag # recordPushes
        <4>1. records[i] \in RecordUpTo(recordPushes)
          BY <1>1
        <4>2. records[i].tag \in 0..(recordPushes - 1)
          BY <4>1 DEF RecordUpTo
        <4> QED  BY <1>1, <4>2
      <3> QED  BY <1>7, <3>2
    <2>2. e.tag \notin RecordVector!InUse
      BY <2>1 DEF RecordVector!InUse
    <2> QED  BY <1>2, <2>2 DEF RecordVector!Push
  <1>14. recordPushes \in 0..(MaxPushes - 1)
    BY <1>1, <1>2
  <1>15. \E x \in Ids, open \in BOOLEAN, tag \in 0..(MaxPushes - 1) :
            RecordVector!Push([id |-> x, tag |-> tag, open |-> open, messages |-> {}])
    BY <1>13, <1>14 DEF e
  <1> QED  BY <1>12, <1>15 DEF RecordVector!Next

LEMMA AnswerTyped ==
    ASSUME RecordsInv, NEW id \in Ids
    PROVE  LET e == IF Scan(records, id) = {} THEN None ELSE records[Min(Scan(records, id))]
           IN  Answer("id", id, e) \in RecordAnswers
  <1> DEFINE e == IF Scan(records, id) = {} THEN None ELSE records[Min(Scan(records, id))]
  <1>1. /\ \A i \in 1..Len(records) : records[i] \in RecordUpTo(recordPushes)
        /\ RecordUpTo(recordPushes) \subseteq RecordEntry /\ Len(records) \in Nat
    BY RecordsFacts
  <1>2. Scan(records, id) \in SUBSET (1..Len(records)) /\ Scan(records, id) \in SUBSET Nat
    BY <1>1 DEF Scan
  <1>3. e \in RecordEntry \cup {None}
    <2>1. CASE Scan(records, id) # {}
      <3>1. Min(Scan(records, id)) \in 1..Len(records)
        BY <1>2, <2>1, MinLeast
      <3> QED  BY <1>1, <2>1, <3>1
    <2> QED  BY <2>1
  <1> HIDE DEF e
  <1>4. Answer("id", id, e) \in RecordAnswers
    BY <1>3 DEF Answer, RecordAnswers
  <1> QED  BY <1>4 DEF e

LEMMA QueryRecordStep ==
    ASSUME RecordsInv, NEW t \in Threads, NEW id \in Ids, QueryRecord(t, id)
    PROVE  RecordsInv' /\ [RecordVector!Next]_RecordVector!vars
  <1> DEFINE e == IF Scan(records, id) = {} THEN None ELSE records[Min(Scan(records, id))]
  <1>1. /\ recordById # None => recordById = IndexOf(records, recordBase)
        /\ recordFound \in RecordAnswers \cup {None} /\ waiting \in [Threads -> Ids \cup {None}]
    BY RecordsFacts
  <1>2. UNCHANGED <<records, recordById, recordBase, recordPushes>> /\ RecordIndexExact'
    BY <1>1 DEF QueryRecord, RecordIndexExact
  <1>3. CASE recordById # None
    <2>1. recordFound' = Answer("id", id, IndexedRecord(recordById, id)) /\ waiting' = waiting
      BY <1>3 DEF QueryRecord
    <2>2. IndexedRecord(recordById, id) = e
      BY <1>1, <1>3, IndexedRecordIs
    <2>3. Answer("id", id, e) \in RecordAnswers
      BY AnswerTyped
    <2>4. RecordVector!Get(id) <=> recordFound' = Answer("id", id, e) /\ records' = records
      BY RecordVectorIs DEF RecordVector!Get
    <2> HIDE DEF e
    <2>5. RecordsInv'
      BY <1>1, <1>2, <2>1, <2>2, <2>3, RecordQueryKeeps
    <2>6. RecordVector!Get(id)
      BY <1>2, <2>1, <2>2, <2>4
    <2> QED  BY <2>5, <2>6 DEF RecordVector!Next
  <1>4. CASE recordById = None
    <2>1. recordFound' = recordFound /\ waiting' = [waiting EXCEPT ![t] = id]
      BY <1>4 DEF QueryRecord
    <2>2. waiting' \in [Threads -> Ids \cup {None}]
      BY <1>1, <2>1
    <2>3. RecordsInv'
      BY <1>1, <1>2, <2>1, <2>2, RecordQueryKeeps
    <2>4. UNCHANGED RecordVector!vars
      BY <1>2, <2>1 DEF RecordVector!vars
    <2> QED  BY <2>3, <2>4
  <1> QED  BY <1>3, <1>4

LEMMA QueryAgainStep ==
    ASSUME RecordsInv, NEW t \in Threads, QueryAgain(t)
    PROVE  RecordsInv' /\ RecordVector!Next
  <1> DEFINE id == waiting[t]
             e == IF Scan(records, id) = {} THEN None ELSE records[Min(Scan(records, id))]
             I == IF recordById = None THEN IndexOf(records, recordBase) ELSE recordById
  <1>1. /\ recordById # None => recordById = IndexOf(records, recordBase)
        /\ waiting \in [Threads -> Ids \cup {None}]
    BY RecordsFacts
  <1>2. /\ UNCHANGED <<records, recordBase, recordPushes>> /\ recordById' = I
        /\ recordFound' = Answer("id", id, IndexedRecord(recordById', id))
        /\ waiting' = [waiting EXCEPT ![t] = None] /\ id # None
    BY DEF QueryAgain
  <1>3. id \in Ids
    BY <1>1, <1>2
  <1>4. I = IndexOf(records, recordBase)
    BY <1>1
  <1>5. RecordIndexExact'
    BY <1>2, <1>4 DEF RecordIndexExact
  <1> HIDE DEF id
  <1>6. IndexedRecord(recordById', id) = e
    <2> HIDE DEF I
    <2>1. IndexedRecord(I, id) = e
      BY <1>4, IndexedRecordIs
    <2>2. IndexedRecord(recordById', id) = IndexedRecord(I, id)
      BY <1>2
    <2> QED  BY <2>1, <2>2
  <1>7. Answer("id", id, e) \in RecordAnswers
    BY <1>3, AnswerTyped
  <1>8. RecordVector!Get(id) <=> recordFound' = Answer("id", id, e) /\ records' = records
    BY RecordVectorIs DEF RecordVector!Get
  <1> HIDE DEF e, I
  <1>9. waiting' \in [Threads -> Ids \cup {None}]
    BY <1>1, <1>2
  <1>10. RecordsInv'
    BY <1>2, <1>5, <1>6, <1>7, <1>9, RecordQueryKeeps
  <1>11. RecordVector!Get(id)
    BY <1>2, <1>6, <1>8
  <1> QED  BY <1>3, <1>10, <1>11 DEF RecordVector!Next

LEMMA GetRecordStep ==
    ASSUME RecordsInv, NEW n \in 0..MaxPushes, GetRecord(n)
    PROVE  RecordsInv' /\ RecordVector!Next
  <1> DEFINE e == IF n \in 1..Len(records) THEN records[n] ELSE None
  <1>1. /\ \A i \in 1..Len(records) : records[i] \in RecordUpTo(recordPushes)
        /\ RecordUpTo(recordPushes) \subseteq RecordEntry
        /\ waiting \in [Threads -> Ids \cup {None}]
    BY RecordsFacts
  <1>2. recordFound' = Answer("position", n, e) /\ UNCHANGED <<records, recordById, recordBase, recordPushes, waiting>>
    BY DEF GetRecord
  <1>3. e \in RecordEntry \cup {None}
    BY <1>1
  <1>4. RecordVector!GetAt(n) <=> recordFound' = Answer("position", n, e) /\ records' = records
    BY RecordVectorIs DEF RecordVector!GetAt
  <1> HIDE DEF e
  <1>5. recordFound' \in RecordAnswers
    BY <1>2, <1>3 DEF Answer, RecordAnswers
  <1>6. RecordIndexExact'
    BY <1>2 DEF RecordsInv, RecordIndexExact
  <1>7. RecordsInv'
    BY <1>1, <1>2, <1>5, <1>6, RecordQueryKeeps
  <1>8. RecordVector!GetAt(n)
    BY <1>2, <1>4
  <1> QED  BY <1>7, <1>8 DEF RecordVector!Next

LEMMA LastPositions ==
    ASSUME NEW n \in Nat, NEW a \in 0..n
    PROVE  /\ Cardinality((a + 1)..n) = n - a
           /\ \A k \in 1..(n - a) : Nth((a + 1)..n, k) = k + a
  <1> DEFINE l == n - a
             P == (a + 1)..n
             f == [i \in 1..l |-> i + a]
  <1>1. P \in SUBSET Nat /\ l \in Nat
    OBVIOUS
  <1>2. f \in [1..l -> P]
    OBVIOUS
  <1>3. \A i, j \in 1..l : i < j => f[i] < f[j]
    OBVIOUS
  <1>4. \A p \in P : \E i \in 1..l : f[i] = p
    <2> TAKE p \in P
    <2>1. p - a \in 1..l /\ (p - a) + a = p
      OBVIOUS
    <2> QED  BY <2>1
  <1>5. \A k \in 1..l : f[k] = k + a
    OBVIOUS
  <1> HIDE DEF f, P, l
  <1>6. Cardinality(P) = l /\ \A k \in 1..l : Nth(P, k) = f[k]
    BY <1>1, <1>2, <1>3, <1>4, Enumerates
  <1>7. Cardinality(P) = l /\ \A k \in 1..l : Nth(P, k) = k + a
    BY <1>5, <1>6
  <1> QED  BY <1>7 DEF P, l

(* What trimming leaves of a sequence all of whose entries are closed.      *)
Beyond(c, max) == IF Len(c) > max THEN Len(c) - max ELSE 0

LEMMA LastOnes ==
    ASSUME NEW E, NEW c \in Seq(E), \A i \in 1..Len(c) : ~ c[i].open, NEW max \in Nat,
           NEW d \in Seq(E), Len(d) = Len(c) - Beyond(c, max),
           \A i \in 1..(Len(c) - Beyond(c, max)) : d[i] = c[i + Beyond(c, max)]
    PROVE  d = Pick(c, (1..Len(c)) \ Gone(c, max))
  <1> DEFINE n == Len(c)
             over == Beyond(c, max)
             l == n - over
             P == (over + 1)..n
  <1>1. n \in Nat /\ over \in Nat /\ over <= n /\ l \in Nat
        /\ over = IF n > max THEN n - max ELSE 0
    BY LenProperties DEF Beyond
  <1>2. ClosedAt(c) = 1..n
    BY DEF ClosedAt
  <1>3. ASSUME NEW k \in 1..n PROVE k \in Gone(c, max) <=> k <= over
    <2> HIDE DEF n, over
    <2>1. {j \in 1..n : j > k} = (k + 1)..n
      BY <1>1
    <2>2. Cardinality((k + 1)..n) = n - k
      <3>1. k + 1 \in Int /\ n \in Int /\ (k + 1 > n => n - k = 0) /\ n - (k + 1) + 1 = n - k
        BY <1>1
      <3>2. Cardinality((k + 1)..n) = IF k + 1 > n THEN 0 ELSE n - (k + 1) + 1
        BY <3>1, FS_Interval
      <3> QED  BY <3>1, <3>2
    <2>3. k \in Gone(c, max) <=> n - k >= max
      BY <1>2, <2>1, <2>2 DEF Gone
    <2>4. n - k >= max <=> k <= over
      BY <1>1
    <2> QED  BY <2>3, <2>4
  <1>4. (1..n) \ Gone(c, max) = P
    <2> HIDE DEF n, over
    <2>1. Gone(c, max) \subseteq 1..n
      BY <1>2 DEF Gone
    <2> QED  BY <1>1, <1>3, <2>1
  <1> HIDE DEF n, over
  <1>5. Cardinality(P) = l /\ \A k \in 1..l : Nth(P, k) = k + over
    <2>1. n \in Nat /\ over \in 0..n
      BY <1>1
    <2> QED  BY <2>1, LastPositions
  <1> HIDE DEF P, l
  <1>6. Pick(c, P) = [k \in 1..l |-> c[k + over]]
    BY <1>5 DEF Pick
  <1>7. d = [k \in 1..l |-> d[k]]
    BY LenProperties DEF l, n, over
  <1>8. \A k \in 1..l : d[k] = c[k + over]
    BY DEF l, n, over
  <1>9. d = Pick(c, P)
    BY <1>6, <1>7, <1>8
  <1> QED  BY <1>4, <1>9 DEF n, over

LEMMA TrimRecordsStep ==
    ASSUME RecordsInv, NEW max \in 0..MaxPushes, TrimRecords(max)
    PROVE  RecordsInv' /\ RecordVector!Next
  <1> DEFINE E == RecordUpTo(recordPushes)
             over == IF Len(records) > max THEN Len(records) - max ELSE 0
             s == [entries |-> records, byId |-> recordById, base |-> recordBase]
             r == PopTimes(s, over)
  <1>1. /\ None \notin E /\ records \in Seq(E) /\ Len(records) \in Nat /\ recordBase \in Nat
        /\ recordPushes \in 0..MaxPushes /\ max \in Nat
        /\ recordById # None => recordById = IndexOf(records, recordBase)
        /\ recordFound \in RecordAnswers \cup {None} /\ waiting \in [Threads -> Ids \cup {None}]
        /\ \A i \in 1..Len(records) : ~ records[i].open
    BY RecordsFacts, RecordsUpTo
  <1>2. /\ records' = r.entries /\ recordById' = r.byId
        /\ recordBase' = (IF records' = <<>> THEN 0 ELSE r.base)
        /\ recordPushes' = recordPushes /\ recordFound' = recordFound /\ waiting' = waiting
    BY DEF TrimRecords
  <1>3. over \in Nat /\ over <= Len(records)
    BY <1>1
  <1>4. s.entries = records /\ s.byId = recordById /\ s.base = recordBase
    OBVIOUS
  <1> HIDE DEF E, s, over
  <1>5. Front(s, over, r, E)
    BY <1>1, <1>3, <1>4, PopTimesFront
  <1> HIDE DEF r
  <1>6. /\ r.entries \in Seq(E) /\ Len(r.entries) = Len(records) - over
        /\ \A i \in 1..(Len(records) - over) : r.entries[i] = records[i + over]
        /\ r.base = recordBase + over
        /\ r.byId # None => r.byId = IndexOf(r.entries, r.base)
    BY <1>4, <1>5 DEF Front
  <1>7. RecordIndexExact'
    <2>1. CASE records' = <<>>
      <3>1. \A b : IndexOf(<<>>, b) = <<>>
        BY EmptyIndex
      <3> QED  BY <1>2, <1>6, <2>1, <3>1 DEF RecordIndexExact
    <2>2. CASE records' # <<>>
      BY <1>2, <1>6, <2>2 DEF RecordIndexExact
    <2> QED  BY <2>1, <2>2
  <1>8. RecordsInv'
    <2>1. records' \in Seq(RecordUpTo(recordPushes))'
      BY <1>2, <1>6 DEF E
    <2>2. recordBase' \in Nat /\ recordPushes' \in (0..MaxPushes)'
      BY <1>1, <1>2, <1>3, <1>6
    <2>3. recordFound' \in (RecordAnswers \cup {None})' /\ waiting' \in ([Threads -> Ids \cup {None}])'
      BY <1>1, <1>2 DEF RecordAnswers, RecordEntry
    <2> QED  BY <1>7, <2>1, <2>2, <2>3 DEF RecordsInv
  <1>9. r.entries = Pick(records, (1..Len(records)) \ Gone(records, max))
    <2>1. over = Beyond(records, max)
      BY DEF over, Beyond
    <2>2. /\ Len(r.entries) = Len(records) - Beyond(records, max)
          /\ \A i \in 1..(Len(records) - Beyond(records, max)) :
                r.entries[i] = records[i + Beyond(records, max)]
      BY <1>6, <2>1
    <2> QED  BY <1>1, <1>6, <2>2, LastOnes
  <1>10. RecordVector!Trim(max)
    <2>1. {k \in RecordVector!Closed :
             RecordVector!Cardinality({j \in RecordVector!Closed : j > k}) >= max} = Gone(records, max)
      BY RecordVectorIs DEF Gone
    <2>2. \A P : RecordVector!Pick(records, P) = Pick(records, P)
      BY RecordVectorIs
    <2>3. RecordVector!Trim(max) <=>
             /\ records' = Pick(records, (1..Len(records)) \ Gone(records, max))
             /\ recordFound' = recordFound
      BY <2>1, <2>2 DEF RecordVector!Trim
    <2> QED  BY <1>2, <1>9, <2>3
  <1> QED  BY <1>8, <1>10 DEF RecordVector!Next

LEMMA ClearRecordsStep ==
    ASSUME RecordsInv, ClearRecords
    PROVE  RecordsInv' /\ RecordVector!Next
  <1>1. /\ records' = <<>> /\ recordBase' = 0
        /\ recordById' = (IF recordById = None THEN None ELSE <<>>)
        /\ recordPushes' = recordPushes /\ recordFound' = recordFound /\ waiting' = waiting
    BY DEF ClearRecords
  <1>2. RecordIndexExact'
    <2>1. IndexOf(<<>>, 0) = <<>>
      BY EmptyIndex
    <2> QED  BY <1>1, <2>1 DEF RecordIndexExact
  <1>3. recordPushes' \in (0..MaxPushes)' /\ recordBase' \in Nat /\ records' \in Seq(RecordUpTo(recordPushes))'
    BY <1>1, RecordsFacts
  <1>4. recordFound' \in (RecordAnswers \cup {None})' /\ waiting' \in ([Threads -> Ids \cup {None}])'
    BY <1>1, RecordsFacts DEF RecordAnswers, RecordEntry
  <1>5. RecordVector!Clear
    BY <1>1 DEF RecordVector!Clear
  <1> QED  BY <1>2, <1>3, <1>4, <1>5 DEF RecordsInv, RecordVector!Next

LEMMA RecordsBegin ==
    ASSUME RecordInit
    PROVE  RecordsInv /\ RecordVector!Init
  <1>1. records \in Seq(RecordUpTo(recordPushes)) /\ RecordIndexExact /\ recordBase \in Nat
    BY DEF RecordInit, RecordIndexExact
  <1>2. recordPushes \in 0..MaxPushes
    BY KeyedIndexAssumption DEF RecordInit
  <1>3. recordFound \in RecordAnswers \cup {None} /\ waiting \in [Threads -> Ids \cup {None}]
    BY DEF RecordInit
  <1>4. RecordVector!Init
    BY DEF RecordInit, RecordVector!Init
  <1> QED  BY <1>1, <1>2, <1>3, <1>4 DEF RecordsInv

LEMMA RecordsStutter ==
    ASSUME RecordsInv, UNCHANGED recordVars
    PROVE  RecordsInv' /\ UNCHANGED RecordVector!vars
  <1>1. UNCHANGED <<records, recordById, recordBase, recordPushes, recordFound, waiting>>
    BY DEF recordVars
  <1>2. RecordIndexExact' /\ recordFound' \in RecordAnswers \cup {None} /\ waiting' \in [Threads -> Ids \cup {None}]
    BY <1>1, RecordsFacts DEF RecordIndexExact
  <1>3. RecordsInv'
    BY <1>1, <1>2, RecordQueryKeeps
  <1> QED  BY <1>1, <1>3 DEF RecordVector!vars

LEMMA RecordsStep ==
    ASSUME RecordsInv, [RecordNext]_recordVars
    PROVE  RecordsInv' /\ [RecordVector!Next]_RecordVector!vars
  <1>1. ASSUME NEW id \in Ids, PushRecord(id) PROVE RecordsInv' /\ RecordVector!Next
    BY <1>1, PushRecordStep
  <1>2. ASSUME NEW t \in Threads, NEW id \in Ids, QueryRecord(t, id)
        PROVE  RecordsInv' /\ [RecordVector!Next]_RecordVector!vars
    BY <1>2, QueryRecordStep
  <1>3. ASSUME NEW t \in Threads, QueryAgain(t) PROVE RecordsInv' /\ RecordVector!Next
    BY <1>3, QueryAgainStep
  <1>4. ASSUME NEW n \in 0..MaxPushes, GetRecord(n) PROVE RecordsInv' /\ RecordVector!Next
    BY <1>4, GetRecordStep
  <1>5. ASSUME NEW n \in 0..MaxPushes, TrimRecords(n) PROVE RecordsInv' /\ RecordVector!Next
    BY <1>5, TrimRecordsStep
  <1>6. CASE ClearRecords
    BY <1>6, ClearRecordsStep
  <1>7. CASE UNCHANGED recordVars
    BY <1>7, RecordsStutter
  <1> QED  BY <1>1, <1>2, <1>3, <1>4, <1>5, <1>6, <1>7 DEF RecordNext

-----------------------------------------------------------------------------
(* Both stores                                                              *)

LEMMA BuffersInvInductive ==
    ASSUME ScopesInv, RecordsInv, [BufferNext]_<<vars, recordVars, store>>
    PROVE  /\ ScopesInv' /\ [Vector!Next]_Vector!vars
           /\ RecordsInv' /\ [RecordVector!Next]_RecordVector!vars
  <1>1. [Next]_vars /\ [RecordNext]_recordVars
    BY DEF BufferNext
  <1> QED  BY <1>1, ScopesStep, RecordsStep

(* Both stores of journal/buffer.rs: whatever is pushed, closed, trimmed,   *)
(* cleared and asked for, however often identifiers repeat and keys restart,*)
(* and however queries race, the indexes say what a scan of the deques      *)
(* would, and vacant slots stay bounded.                                    *)
THEOREM BuffersStayExact == BufferSpec => []BuffersExact
  <1>1. BufferInit => ScopesInv /\ RecordsInv
    BY ScopesBegin, RecordsBegin DEF BufferInit
  <1>2. ScopesInv /\ RecordsInv /\ [BufferNext]_<<vars, recordVars, store>> => (ScopesInv /\ RecordsInv)'
    BY BuffersInvInductive
  <1>3. ScopesInv /\ RecordsInv => BuffersExact
    BY ScopesInvImplies, RecordsInvImplies DEF BuffersExact
  <1> QED  BY <1>1, <1>2, <1>3, PTL DEF BufferSpec

(* JournalBuffer's scopes are a sequence in insertion order: lookups by     *)
(* identifier and position, closing, and trimming, which takes the oldest   *)
(* closed scopes, agree with a scan from the front.                         *)
THEOREM ScopesAreASequence == BufferSpec => RefinesVector
  <1>1. BufferInit => ScopesInv /\ RecordsInv /\ Vector!Init
    BY ScopesBegin, RecordsBegin DEF BufferInit
  <1>2. ScopesInv /\ RecordsInv /\ [BufferNext]_<<vars, recordVars, store>>
           => (ScopesInv /\ RecordsInv)' /\ [Vector!Next]_Vector!vars
    BY BuffersInvInductive
  <1> QED  BY <1>1, <1>2, PTL DEF BufferSpec, RefinesVector, Vector!Spec

(* Its records are one as well: a query that found no index under the read  *)
(* lock takes effect under the write lock.                                  *)
THEOREM RecordsAreASequence == BufferSpec => RecordsRefineVector
  <1>1. BufferInit => ScopesInv /\ RecordsInv /\ RecordVector!Init
    BY ScopesBegin, RecordsBegin DEF BufferInit
  <1>2. ScopesInv /\ RecordsInv /\ [BufferNext]_<<vars, recordVars, store>>
           => (ScopesInv /\ RecordsInv)' /\ [RecordVector!Next]_RecordVector!vars
    BY BuffersInvInductive
  <1> QED  BY <1>1, <1>2, PTL DEF BufferSpec, RecordsRefineVector, RecordVector!Spec
=============================================================================
