---------------------------- MODULE SequenceLemmas ----------------------------
(***************************************************************************)
(* Facts about the sequences the components are built from:                *)
(* workorder_list, the comma-separated values of the store, the pages of a *)
(* lookup, and the transactions and events of a chain.                     *)
(***************************************************************************)
EXTENDS Integers, FiniteSets, SequencesExt, SequenceTheorems, FiniteSetTheorems,
        FunctionTheorems, WellFoundedInduction, TLAPS

(***************************************************************************)
(* A non-empty set of naturals has a least element: the first key of a     *)
(* lookup, and the index csv_search_delete and list.remove act on.         *)
(***************************************************************************)
LEMMA LeastNatural ==
    ASSUME NEW T \in SUBSET Nat, T # {}
    PROVE  \E x \in T : \A y \in T : x <= y
<1>1. \E x \in T : \A y \in T : ~ (<<y, x>> \in OpToRel(<, Nat))
    BY NatLessThanWellFounded, WFMin
<1>2. PICK x \in T : \A y \in T : ~ (<<y, x>> \in OpToRel(<, Nat))
    BY <1>1
<1>3. ASSUME NEW y \in T PROVE x <= y
    <2>1. ~ (y < x)
        BY <1>2, <1>3 DEF OpToRel
    <2> QED BY <2>1
<1> QED BY <1>2, <1>3

(***************************************************************************)
(* Induction upwards and downwards over an interval, with the induction    *)
(* hypothesis as a set, and the existence of a recursive function over a   *)
(* set of indices with a bounded rank: the text functions of the store and *)
(* the calls that build a work order are defined by recursion.             *)
(***************************************************************************)
LEMMA InductionUp ==
    ASSUME NEW m \in Nat, NEW n \in Nat, NEW T,
           \A i \in m..n : m..(i - 1) \subseteq T => i \in T
    PROVE  m..n \subseteq T
<1> SUFFICES ASSUME ~(m..n \subseteq T) PROVE FALSE
    OBVIOUS
<1> DEFINE U == {i \in m..n : i \notin T}
<1>1. U \in SUBSET Nat /\ U # {}
    OBVIOUS
<1>2. PICK x \in U : \A y \in U : x <= y
    BY <1>1, LeastNatural
<1>3. m..(x - 1) \subseteq T
    BY <1>2
<1> QED BY <1>2, <1>3

LEMMA InductionDown ==
    ASSUME NEW m \in Nat, NEW n \in Nat, NEW T,
           \A i \in m..n : (i + 1)..n \subseteq T => i \in T
    PROVE  m..n \subseteq T
<1> SUFFICES ASSUME ~(m..n \subseteq T) PROVE FALSE
    OBVIOUS
<1> DEFINE U == {k \in 0..n : n - k >= m /\ n - k \notin T}
<1>1. U \in SUBSET Nat /\ U # {}
    <2>1. PICK i \in m..n : i \notin T
        OBVIOUS
    <2>2. n - i \in 0..n /\ n - (n - i) = i /\ i >= m
        OBVIOUS
    <2>3. n - i \in U
        BY <2>1, <2>2
    <2>4. U \subseteq 0..n
        OBVIOUS
    <2> HIDE DEF U
    <2> QED BY <2>3, <2>4
<1>2. PICK x \in U : \A y \in U : x <= y
    BY <1>1, LeastNatural
<1>3. ASSUME NEW i \in (n - x + 1)..n PROVE i \in T
    <2>1. n - i \in 0..n /\ n - (n - i) = i /\ n - i < x /\ i >= m
        BY <1>2
    <2> QED BY <1>2, <2>1
<1> QED BY <1>2, <1>3

\* The value at an index depends on the values at indices of smaller rank.
IsRecursion(S, V, n, r, G) ==
    /\ V # {} /\ n \in Nat /\ r \in [S -> 0..n] /\ G \in [S \X [S -> V] -> V]
    /\ \A i \in S, f \in [S -> V], g \in [S -> V] :
           (\A j \in S : r[j] < r[i] => f[j] = g[j]) => G[<<i, f>>] = G[<<i, g>>]

LEMMA RecursiveFunction ==
    ASSUME NEW S, NEW V, NEW n, NEW r, NEW G, IsRecursion(S, V, n, r, G)
    PROVE  \E f \in [S -> V] : \A i \in S : f[i] = G[<<i, f>>]
<1> USE DEF IsRecursion
<1> DEFINE Good(m) == \E f \in [S -> V] : \A i \in S : r[i] < m => f[i] = G[<<i, f>>]
           T == {m \in 0..(n + 1) : Good(m)}
<1>1. Good(0)
    <2>1. PICK v \in V : TRUE
        OBVIOUS
    <2>2. [i \in S |-> v] \in [S -> V] /\ \A i \in S : ~(r[i] < 0)
        OBVIOUS
    <2> QED BY <2>2
<1>2. ASSUME NEW m \in 0..n, Good(m) PROVE Good(m + 1)
    <2>1. PICK f \in [S -> V] : \A i \in S : r[i] < m => f[i] = G[<<i, f>>]
        BY <1>2
    <2> DEFINE g == [i \in S |-> IF r[i] = m THEN G[<<i, f>>] ELSE f[i]]
    <2>2. g \in [S -> V]
        OBVIOUS
    <2>3. ASSUME NEW i \in S, r[i] < m + 1 PROVE g[i] = G[<<i, g>>]
        <3>1. \A j \in S : r[j] < r[i] => f[j] = g[j]
            BY <2>3
        <3>2. G[<<i, f>>] = G[<<i, g>>]
            BY <2>2, <3>1
        <3>3. r[i] \in Nat
            OBVIOUS
        <3>4. n \in Nat
            OBVIOUS
        <3>5. r[i] < m \/ r[i] = m
            BY ONLY <2>3, <3>3, <3>4, m \in 0..n
        <3> QED BY <2>1, <3>2, <3>5
    <2> QED BY <2>2, <2>3
<1> HIDE DEF Good
<1>3. ASSUME NEW i \in 0..(n + 1), 0..(i - 1) \subseteq T PROVE i \in T
    <2>1. CASE i = 0
        BY <1>1, <2>1
    <2>2. CASE i # 0
        <3>1. i - 1 \in 0..(i - 1) /\ i - 1 \in 0..n /\ (i - 1) + 1 = i
            BY <2>2
        <3> QED BY <1>2, <1>3, <3>1
    <2> QED BY <2>1, <2>2
<1>4. 0..(n + 1) \subseteq T
    <2>1. 0 \in Nat /\ n + 1 \in Nat
        OBVIOUS
    <2> HIDE DEF T
    <2> QED BY <1>3, <2>1, InductionUp
<1>5. Good(n + 1)
    BY <1>4
<1> QED BY <1>5 DEF Good

(***************************************************************************)
(* What removing the element at a position leaves.                         *)
(***************************************************************************)
LEMMA RemoveAtProperties ==
    ASSUME NEW S, NEW s \in Seq(S), NEW k \in 1..Len(s)
    PROVE  /\ RemoveAt(s, k) \in Seq(S)
           /\ Len(RemoveAt(s, k)) = Len(s) - 1
           /\ ToSet(s) \ {s[k]} \subseteq ToSet(RemoveAt(s, k))
           /\ ToSet(RemoveAt(s, k)) \subseteq ToSet(s)
           /\ IsInjective(s) => IsInjective(RemoveAt(s, k)) /\ s[k] \notin ToSet(RemoveAt(s, k))
<1> DEFINE a == SubSeq(s, 1, k - 1)
           b == SubSeq(s, k + 1, Len(s))
<1>0. Len(s) \in Nat /\ DOMAIN s = 1..Len(s) /\ \A j \in 1..Len(s) : s[j] \in S
    BY LenProperties
<1>1. /\ a \in Seq(S) /\ Len(a) = k - 1
      /\ \A j \in 1..(k - 1) : a[j] = s[j]
    <2>1. \A j \in 1..(k - 1) : s[j] \in S
        BY <1>0
    <2>2. k - 1 \in Int
        OBVIOUS
    <2>3. /\ a \in Seq(S)
          /\ Len(a) = IF 1 <= k - 1 THEN (k - 1) - 1 + 1 ELSE 0
          /\ \A j \in 1..((k - 1) - 1 + 1) : a[j] = s[1 + j - 1]
        BY <2>1, <2>2, SubSeqProperties
    <2> HIDE DEF a
    <2> QED BY <2>3
<1>2. /\ b \in Seq(S) /\ Len(b) = Len(s) - k
      /\ \A j \in 1..(Len(s) - k) : b[j] = s[k + j]
    <2>1. \A j \in (k + 1)..Len(s) : s[j] \in S
        BY <1>0
    <2>2. /\ b \in Seq(S)
          /\ Len(b) = IF k + 1 <= Len(s) THEN Len(s) - (k + 1) + 1 ELSE 0
          /\ \A j \in 1..(Len(s) - (k + 1) + 1) : b[j] = s[(k + 1) + j - 1]
        BY <2>1, <1>0, SubSeqProperties
    <2> HIDE DEF b
    <2>3. Len(b) = Len(s) - k
        <3>1. Len(s) \in Nat
            BY <1>0
        <3>2. Len(b) = IF k + 1 <= Len(s) THEN Len(s) - (k + 1) + 1 ELSE 0
            BY <2>2
        <3> QED BY ONLY <3>1, <3>2, k \in 1..Len(s)
    <2>4. ASSUME NEW j \in 1..(Len(s) - k) PROVE b[j] = s[k + j]
        <3>1. j \in 1..(Len(s) - (k + 1) + 1) /\ (k + 1) + j - 1 = k + j
            BY <1>0
        <3> QED BY <3>1, <2>2
    <2> QED BY <2>2, <2>3, <2>4
<1>3. RemoveAt(s, k) = a \o b
    BY DEF RemoveAt
<1> HIDE DEF a, b
<1>4. /\ a \o b \in Seq(S)
      /\ Len(a \o b) = Len(s) - 1
      /\ DOMAIN (a \o b) = 1..(Len(s) - 1)
      /\ \A j \in 1..(Len(s) - 1) :
             (a \o b)[j] = IF j <= k - 1 THEN s[j] ELSE s[j + 1]
    <2>1. /\ a \o b \in Seq(S)
          /\ Len(a \o b) = Len(a) + Len(b)
          /\ \A j \in 1..Len(a) + Len(b) :
                 (a \o b)[j] = IF j <= Len(a) THEN a[j] ELSE b[j - Len(a)]
        BY <1>1, <1>2, ConcatProperties
    <2>2. Len(a \o b) = Len(s) - 1
        BY <2>1, <1>0, <1>1, <1>2
    <2>3. DOMAIN (a \o b) = 1..(Len(s) - 1)
        BY <2>1, <2>2, LenProperties
    <2>4. ASSUME NEW j \in 1..(Len(s) - 1)
          PROVE  (a \o b)[j] = IF j <= k - 1 THEN s[j] ELSE s[j + 1]
        <3>1. CASE j <= k - 1
            BY <3>1, <2>1, <1>0, <1>1, <1>2
        <3>2. CASE ~(j <= k - 1)
            <4>1. (a \o b)[j] = b[j - (k - 1)]
                BY <3>2, <2>1, <1>0, <1>1, <1>2
            <4>2. j - (k - 1) \in 1..(Len(s) - k)
                BY <3>2, <1>0
            <4>3. b[j - (k - 1)] = s[k + (j - (k - 1))]
                BY <4>2, <1>2
            <4>4. k + (j - (k - 1)) = j + 1
                BY <1>0
            <4> QED BY <3>2, <4>1, <4>3, <4>4
        <3> QED BY <3>1, <3>2
    <2> QED BY <2>1, <2>2, <2>3, <2>4
<1>5. ASSUME NEW x \in ToSet(s) \ {s[k]}
      PROVE  x \in ToSet(a \o b)
    <2>1. PICK j \in 1..Len(s) : s[j] = x
        BY <1>0 DEF ToSet
    <2>2. CASE j < k
        <3>1. j \in 1..(Len(s) - 1) /\ j <= k - 1
            BY <2>2, <1>0
        <3>2. (a \o b)[j] = x
            BY <3>1, <2>1, <1>4
        <3> QED BY <3>1, <3>2, <1>4 DEF ToSet
    <2>3. CASE j > k
        <3>1. j - 1 \in 1..(Len(s) - 1) /\ ~(j - 1 <= k - 1) /\ (j - 1) + 1 = j
            BY <2>3, <1>0
        <3>2. (a \o b)[j - 1] = x
            BY <3>1, <2>1, <1>4
        <3> QED BY <3>1, <3>2, <1>4 DEF ToSet
    <2> QED BY <2>1, <2>2, <2>3, <1>0
<1>6. ASSUME NEW x \in ToSet(a \o b)
      PROVE  x \in ToSet(s)
    <2>1. PICK j \in 1..(Len(s) - 1) : (a \o b)[j] = x
        BY <1>4 DEF ToSet
    <2>2. x = s[j] \/ x = s[j + 1]
        BY <2>1, <1>4
    <2> QED BY <2>1, <2>2, <1>0 DEF ToSet
<1>7. ASSUME IsInjective(s)
      PROVE  IsInjective(a \o b) /\ s[k] \notin ToSet(a \o b)
    <2>1. \A i, j \in 1..Len(s) : s[i] = s[j] => i = j
        BY <1>0, <1>7 DEF IsInjective
    <2>2. ASSUME NEW i \in 1..(Len(s) - 1), NEW j \in 1..(Len(s) - 1), (a \o b)[i] = (a \o b)[j]
          PROVE  i = j
        <3>1. /\ i \in 1..Len(s) /\ i + 1 \in 1..Len(s) /\ j \in 1..Len(s) /\ j + 1 \in 1..Len(s)
              /\ i \in Nat /\ j \in Nat /\ k \in Nat
            BY <1>0
        <3>2. (IF i <= k - 1 THEN s[i] ELSE s[i + 1]) = (IF j <= k - 1 THEN s[j] ELSE s[j + 1])
            BY <1>4, <2>2
        <3>3. (IF i <= k - 1 THEN i ELSE i + 1) = (IF j <= k - 1 THEN j ELSE j + 1)
            BY <2>1, <3>1, <3>2
        <3> QED BY <3>1, <3>3
    <2>3. ASSUME NEW i \in 1..(Len(s) - 1) PROVE (a \o b)[i] # s[k]
        <3>1. i \in 1..Len(s) /\ i + 1 \in 1..Len(s) /\ (i <= k - 1 => i # k) /\ (~(i <= k - 1) => i + 1 # k)
            BY <1>0
        <3> QED BY <1>4, <2>1, <3>1
    <2> QED BY <1>4, <2>2, <2>3 DEF IsInjective, ToSet
<1> QED BY <1>3, <1>4, <1>5, <1>6, <1>7

(***************************************************************************)
(* list.remove and csv_search_delete: of a member, one occurrence leaves   *)
(* and every other element stays; of anything else, nothing changes.       *)
(***************************************************************************)
LEMMA RemoveFirstProperties ==
    ASSUME NEW S, NEW s \in Seq(S), NEW e
    PROVE  /\ RemoveFirst(s, e) \in Seq(S)
           /\ e \in ToSet(s) => Len(RemoveFirst(s, e)) = Len(s) - 1
           /\ ToSet(s) \ {e} \subseteq ToSet(RemoveFirst(s, e))
           /\ ToSet(RemoveFirst(s, e)) \subseteq ToSet(s)
           /\ IsInjective(s) => IsInjective(RemoveFirst(s, e)) /\ e \notin ToSet(RemoveFirst(s, e))
<1> DEFINE T == {i \in 1..Len(s) : s[i] = e}
<1>0. Len(s) \in Nat /\ DOMAIN s = 1..Len(s)
    BY LenProperties
<1>1. CASE T = {}
    <2>1. RemoveFirst(s, e) = s
        BY <1>1 DEF RemoveFirst
    <2>2. e \notin ToSet(s)
        BY <1>0, <1>1 DEF ToSet
    <2> QED BY <2>1, <2>2
<1>2. CASE T # {}
    <2>1. RemoveFirst(s, e) = RemoveAt(s, Min(T))
        BY <1>2 DEF RemoveFirst, SelectInSeq
    <2>2. Min(T) \in T
        <3>1. T \in SUBSET Nat
            BY <1>0
        <3>2. \E x \in T : \A y \in T : x <= y
            BY <3>1, <1>2, LeastNatural
        <3> QED BY <3>2 DEF Min
    <2>3. Min(T) \in 1..Len(s) /\ s[Min(T)] = e
        BY <2>2
    <2> DEFINE k == Min(T)
    <2>4. k \in 1..Len(s) /\ s[k] = e /\ RemoveFirst(s, e) = RemoveAt(s, k)
        BY <2>1, <2>3
    <2> HIDE DEF k
    <2>5. /\ RemoveAt(s, k) \in Seq(S)
          /\ Len(RemoveAt(s, k)) = Len(s) - 1
          /\ ToSet(s) \ {s[k]} \subseteq ToSet(RemoveAt(s, k))
          /\ ToSet(RemoveAt(s, k)) \subseteq ToSet(s)
          /\ IsInjective(s) => IsInjective(RemoveAt(s, k)) /\ s[k] \notin ToSet(RemoveAt(s, k))
        BY <2>4, RemoveAtProperties
    <2> QED BY <2>4, <2>5
<1> QED BY <1>1, <1>2

(***************************************************************************)
(* The elements of a sequence are finitely many, no more than its length.  *)
(***************************************************************************)
LEMMA ToSetBound ==
    ASSUME NEW S, NEW s \in Seq(S)
    PROVE  /\ IsFiniteSet(ToSet(s))
           /\ Cardinality(ToSet(s)) <= Len(s)
           /\ ToSet(s) \subseteq S
<1>1. Len(s) \in Nat /\ DOMAIN s = 1..Len(s) /\ s \in [1..Len(s) -> S]
    BY LenProperties
<1>2. IsFiniteSet(1..Len(s)) /\ Cardinality(1..Len(s)) = Len(s)
    BY <1>1, FS_Interval
<1>3. s \in Surjection(1..Len(s), ToSet(s))
    BY <1>1 DEF Surjection, ToSet
<1>4. IsFiniteSet(ToSet(s)) /\ Cardinality(ToSet(s)) <= Cardinality(1..Len(s))
    BY <1>2, <1>3, FS_Surjection
<1>5. ToSet(s) \subseteq S
    BY <1>1 DEF ToSet
<1> QED BY <1>2, <1>4, <1>5

(***************************************************************************)
(* Appending an id adds it to the elements.                                *)
(***************************************************************************)
LEMMA AppendToSet ==
    ASSUME NEW S, NEW s \in Seq(S), NEW e \in S
    PROVE  /\ Append(s, e) \in Seq(S)
           /\ Len(Append(s, e)) = Len(s) + 1
           /\ ToSet(Append(s, e)) = ToSet(s) \cup {e}
<1>1. /\ Append(s, e) \in Seq(S)
      /\ Len(Append(s, e)) = Len(s) + 1
      /\ \A i \in 1..Len(s) : Append(s, e)[i] = s[i]
      /\ Append(s, e)[Len(s) + 1] = e
    BY AppendProperties
<1>2. /\ Len(s) \in Nat /\ DOMAIN s = 1..Len(s)
      /\ DOMAIN Append(s, e) = 1..(Len(s) + 1)
    BY <1>1, LenProperties
<1>3. ToSet(Append(s, e)) = {Append(s, e)[i] : i \in 1..(Len(s) + 1)}
    BY <1>2 DEF ToSet
<1>4. ToSet(s) = {s[i] : i \in 1..Len(s)}
    BY <1>2 DEF ToSet
<1>5. 1..(Len(s) + 1) = 1..Len(s) \cup {Len(s) + 1}
    BY <1>2
<1> QED BY <1>1, <1>2, <1>3, <1>4, <1>5

(***************************************************************************)
(* A set that fits into a sequence and one further element is no larger    *)
(* than the two together.                                                  *)
(***************************************************************************)
LEMMA CoveredBound ==
    ASSUME NEW S, NEW s \in Seq(S), NEW e, NEW T, T \subseteq ToSet(s) \cup {e}
    PROVE  IsFiniteSet(T) /\ Cardinality(T) <= Len(s) + 1
<1>1. IsFiniteSet(ToSet(s)) /\ Cardinality(ToSet(s)) <= Len(s) /\ Len(s) \in Nat
    BY ToSetBound, LenProperties
<1>2. /\ IsFiniteSet(ToSet(s) \cup {e})
      /\ Cardinality(ToSet(s) \cup {e}) <= Cardinality(ToSet(s)) + 1
      /\ Cardinality(ToSet(s)) \in Nat
    <2>1. /\ IsFiniteSet(ToSet(s) \cup {e})
          /\ Cardinality(ToSet(s) \cup {e}) =
                 IF e \in ToSet(s) THEN Cardinality(ToSet(s)) ELSE Cardinality(ToSet(s)) + 1
        BY <1>1, FS_AddElement
    <2>2. Cardinality(ToSet(s)) \in Nat
        BY <1>1, FS_CardinalityType
    <2> QED BY <2>1, <2>2
<1>3. IsFiniteSet(T) /\ Cardinality(T) <= Cardinality(ToSet(s) \cup {e})
    BY <1>2, FS_Subset
<1>4. Cardinality(T) \in Nat /\ Cardinality(ToSet(s) \cup {e}) \in Nat
    BY <1>2, <1>3, FS_CardinalityType
<1> QED BY <1>1, <1>2, <1>3, <1>4

(***************************************************************************)
(* Appending something new keeps a sequence free of duplicates.            *)
(***************************************************************************)
LEMMA AppendDistinct ==
    ASSUME NEW S, NEW s \in Seq(S), NEW e \in S, IsInjective(s), e \notin ToSet(s)
    PROVE  IsInjective(Append(s, e))
<1>1. /\ Len(s) \in Nat /\ DOMAIN s = 1..Len(s)
      /\ DOMAIN Append(s, e) = 1..(Len(s) + 1)
      /\ \A i \in 1..Len(s) : Append(s, e)[i] = s[i]
      /\ Append(s, e)[Len(s) + 1] = e
    BY LenProperties, AppendProperties
<1>2. \A i \in 1..Len(s) : s[i] # e
    BY <1>1 DEF ToSet
<1>3. \A i, j \in 1..Len(s) : s[i] = s[j] => i = j
    BY <1>1 DEF IsInjective
<1>4. \A i \in 1..(Len(s) + 1) : i \in 1..Len(s) \/ i = Len(s) + 1
    BY <1>1
<1>5. ASSUME NEW i \in 1..(Len(s) + 1), NEW j \in 1..(Len(s) + 1),
             Append(s, e)[i] = Append(s, e)[j]
      PROVE  i = j
    BY <1>1, <1>2, <1>3, <1>4, <1>5
<1> QED BY <1>1, <1>5 DEF IsInjective

(***************************************************************************)
(* csv_pop: the head leaves, and a sequence free of duplicates stays so    *)
(* and no longer holds it.                                                 *)
(***************************************************************************)
LEMMA PopProperties ==
    ASSUME NEW S, NEW s \in Seq(S), s # <<>>
    PROVE  /\ Head(s) \in S /\ Head(s) \in ToSet(s) /\ Tail(s) \in Seq(S)
           /\ ToSet(s) = ToSet(Tail(s)) \cup {Head(s)}
           /\ IsInjective(s) => IsInjective(Tail(s)) /\ Head(s) \notin ToSet(Tail(s))
<1>1. /\ Len(s) \in Nat \ {0} /\ DOMAIN s = 1..Len(s)
      /\ Head(s) = s[1] /\ Head(s) \in S
      /\ Tail(s) \in Seq(S) /\ DOMAIN Tail(s) = 1..(Len(s) - 1)
      /\ \A i \in 1..(Len(s) - 1) : Tail(s)[i] = s[i + 1]
    <2>1. /\ Head(s) \in S /\ Tail(s) \in Seq(S) /\ Len(Tail(s)) = Len(s) - 1
          /\ \A i \in 1..Len(Tail(s)) : Tail(s)[i] = s[i + 1]
        BY HeadTailProperties
    <2>2. Len(s) \in Nat /\ DOMAIN s = 1..Len(s) /\ DOMAIN Tail(s) = 1..Len(Tail(s))
        BY <2>1, LenProperties
    <2>3. Len(s) # 0
        BY EmptySeq
    <2>4. Head(s) = s[1]
        OBVIOUS
    <2> QED BY <2>1, <2>2, <2>3, <2>4
<1>2. 1 \in DOMAIN s /\ Head(s) \in ToSet(s)
    BY <1>1 DEF ToSet
<1>3. ASSUME NEW x \in ToSet(s), x # Head(s) PROVE x \in ToSet(Tail(s))
    <2>1. PICK i \in 1..Len(s) : s[i] = x
        BY <1>1 DEF ToSet
    <2>2. i - 1 \in 1..(Len(s) - 1) /\ (i - 1) + 1 = i
        BY <1>1, <1>3, <2>1
    <2> QED BY <1>1, <2>1, <2>2 DEF ToSet
<1>4. ASSUME NEW x \in ToSet(Tail(s)) PROVE x \in ToSet(s)
    <2>1. PICK i \in 1..(Len(s) - 1) : s[i + 1] = x
        BY <1>1 DEF ToSet
    <2>2. i + 1 \in 1..Len(s)
        BY <1>1
    <2> QED BY <1>1, <2>1, <2>2 DEF ToSet
<1>5. ASSUME IsInjective(s) PROVE IsInjective(Tail(s)) /\ Head(s) \notin ToSet(Tail(s))
    <2>1. \A i, j \in 1..Len(s) : s[i] = s[j] => i = j
        BY <1>1, <1>5 DEF IsInjective
    <2>2. \A i \in 1..(Len(s) - 1) : i + 1 \in 1..Len(s) /\ i + 1 # 1
        BY <1>1
    <2>3. ASSUME NEW i \in 1..(Len(s) - 1), NEW j \in 1..(Len(s) - 1), Tail(s)[i] = Tail(s)[j]
          PROVE  i = j
        <3>1. i + 1 = j + 1
            BY <1>1, <2>1, <2>2, <2>3
        <3> QED BY <3>1
    <2>4. \A i \in 1..(Len(s) - 1) : Tail(s)[i] # Head(s)
        BY <1>1, <2>1, <2>2
    <2> QED BY <1>1, <2>3, <2>4 DEF IsInjective, ToSet
<1> QED BY <1>1, <1>2, <1>3, <1>4, <1>5


(***************************************************************************)
(* A sequence without repetitions has as many elements as its length.      *)
(***************************************************************************)
LEMMA DistinctLength ==
    ASSUME NEW S, NEW s \in Seq(S), IsInjective(s)
    PROVE  IsFiniteSet(ToSet(s)) /\ Cardinality(ToSet(s)) = Len(s)
<1>1. Len(s) \in Nat /\ DOMAIN s = 1..Len(s) /\ s \in [1..Len(s) -> S]
    BY LenProperties, SeqDef
<1>2. s \in Bijection(1..Len(s), ToSet(s))
    BY <1>1 DEF Bijection, Injection, Surjection, IsInjective, ToSet
<1>3. ExistsBijection(1..Len(s), ToSet(s))
    BY <1>2 DEF ExistsBijection
<1>4. Cardinality(ToSet(s)) = Len(s)
    BY <1>1, <1>3, FS_CountingElements
<1> QED BY <1>4, ToSetBound

(***************************************************************************)
(* A set divided among finitely many owners, none of which has more than n *)
(* elements.                                                               *)
(***************************************************************************)
LEMMA SharesBound ==
    ASSUME NEW T, NEW L, IsFiniteSet(L), NEW owner \in [T -> L], NEW n \in Nat,
           \A l \in L : /\ IsFiniteSet({x \in T : owner[x] = l})
                        /\ Cardinality({x \in T : owner[x] = l}) <= n
    PROVE  IsFiniteSet(T) /\ Cardinality(T) <= n * Cardinality(L)
<1> DEFINE share(l) == {x \in T : owner[x] = l}
           rank == [l \in L |-> CHOOSE g \in [share(l) -> 1..n] :
                                    \A x, y \in share(l) : g[x] = g[y] => x = y]
           f == [x \in T |-> <<owner[x], rank[owner[x]][x]>>]
<1>1. ASSUME NEW l \in L
      PROVE  \E g \in [share(l) -> 1..n] : \A x, y \in share(l) : g[x] = g[y] => x = y
    <2>1. PICK c \in Nat : c = Cardinality(share(l)) /\ c <= n
        BY FS_CardinalityType
    <2>2. PICK b \in Bijection(1..c, share(l)) : TRUE
        BY <2>1, FS_CardinalityType DEF ExistsBijection
    <2>3. \A x \in share(l) : \E k \in 1..c : b[k] = x
        BY <2>2 DEF Bijection, Surjection
    <2> DEFINE g == [x \in share(l) |-> CHOOSE k \in 1..c : b[k] = x]
    <2>4. \A x \in share(l) : g[x] \in 1..c /\ b[g[x]] = x
        BY <2>3
    <2>5. g \in [share(l) -> 1..n]
        BY <2>1, <2>4
    <2> HIDE DEF g
    <2> QED BY <2>4, <2>5
<1>2. ASSUME NEW l \in L
      PROVE  rank[l] \in [share(l) -> 1..n] /\ \A x, y \in share(l) : rank[l][x] = rank[l][y] => x = y
    BY <1>1
<1> HIDE DEF rank
<1>3. f \in [T -> L \X (1..n)]
    <2>1. ASSUME NEW x \in T PROVE owner[x] \in L /\ rank[owner[x]][x] \in 1..n
        <3>1. owner[x] \in L /\ x \in share(owner[x])
            OBVIOUS
        <3> QED BY <1>2, <3>1
    <2> QED BY <2>1
<1>4. ASSUME NEW x \in T, NEW y \in T, f[x] = f[y] PROVE x = y
    BY <1>2, <1>4
<1>5. f \in Injection(T, L \X (1..n))
    BY <1>3, <1>4 DEF Injection, IsInjective
<1> HIDE DEF f
<1>6. IsFiniteSet(1..n) /\ Cardinality(1..n) = n
    BY FS_Interval
<1>7. IsFiniteSet(L \X (1..n)) /\ Cardinality(L \X (1..n)) = Cardinality(L) * n
    BY <1>6, FS_Product
<1>8. IsFiniteSet(T) /\ Cardinality(T) <= Cardinality(L) * n
    BY <1>5, <1>7, FS_Injection
<1> QED BY <1>8, FS_CardinalityType


(***************************************************************************)
(* Sequences of naturals in ascending order                                *)
(***************************************************************************)

Ascending(s) == \A i, j \in DOMAIN s : i < j => s[i] < s[j]

Below(S, T) == \A x \in S, y \in T : x < y

(***************************************************************************)
(* A finite set of naturals has an enumeration in ascending order: the one *)
(* that puts each element at the place given by the number of elements     *)
(* that are not greater.                                                   *)
(***************************************************************************)
LEMMA SortedEnumeration ==
    ASSUME NEW S \in SUBSET Nat, IsFiniteSet(S)
    PROVE  \E s \in SetToSeqs(S) : Ascending(s) /\ s \in Seq(S) /\ ToSet(s) = S
<1> DEFINE n == Cardinality(S)
           upto(x) == {y \in S : y <= x}
           rank == [x \in S |-> Cardinality(upto(x))]
<1>1. n \in Nat
    BY FS_CardinalityType
<1>2. ASSUME NEW x \in S
      PROVE  /\ IsFiniteSet(upto(x)) /\ rank[x] \in 1..n
    <2>1. upto(x) \in SUBSET S /\ x \in upto(x)
        OBVIOUS
    <2>2. IsFiniteSet(upto(x)) /\ Cardinality(upto(x)) <= n
        BY <2>1, FS_Subset
    <2>3. Cardinality(upto(x)) \in Nat /\ Cardinality(upto(x)) # 0
        BY <2>1, <2>2, FS_CardinalityType, FS_EmptySet
    <2> QED BY <1>1, <2>2, <2>3
<1>3. ASSUME NEW x \in S, NEW y \in S, x < y
      PROVE  rank[x] < rank[y]
    <2>1. upto(x) \in SUBSET upto(y) /\ y \in upto(y) /\ y \notin upto(x)
        <3>1. x \in Nat /\ y \in Nat /\ \A z \in S : z \in Nat
            OBVIOUS
        <3>2. \A z \in S : z <= x => z <= y
            BY <1>3, <3>1
        <3>3. ~ (y <= x) /\ y <= y
            BY <1>3, <3>1
        <3> QED BY <3>2, <3>3
    <2>2. /\ Cardinality(upto(x)) <= Cardinality(upto(y))
          /\ Cardinality(upto(y)) # Cardinality(upto(x))
        BY <1>2, <2>1, FS_Subset
    <2>3. rank[x] <= rank[y] /\ rank[x] # rank[y]
        BY <2>2
    <2> QED BY <1>2, <2>3
<1>4. rank \in Injection(S, 1..n)
    <2>1. rank \in [S -> 1..n]
        BY <1>2
    <2>2. ASSUME NEW x \in S, NEW y \in S, rank[x] = rank[y] PROVE x = y
        <3>1. x \in Nat /\ y \in Nat /\ rank[x] \in Nat /\ rank[y] \in Nat
            BY <1>1, <1>2
        <3> HIDE DEF rank
        <3>2. ~ (x < y) /\ ~ (y < x)
            BY <1>3, <2>2, <3>1
        <3> QED BY <3>1, <3>2
    <2> HIDE DEF rank, n
    <2> QED BY <2>1, <2>2 DEF Injection, IsInjective
<1>5. IsFiniteSet(1..n) /\ Cardinality(1..n) = n
    BY <1>1, FS_Interval
<1> HIDE DEF rank
<1>6. rank \in Surjection(S, 1..n)
    BY <1>4, <1>5, FS_Injection
<1>7. PICK s \in [1..n -> S] : \A i \in 1..n : rank[s[i]] = i
    <2>1. \A i \in 1..n : \E x \in S : rank[x] = i
        BY <1>6 DEF Surjection
    <2> DEFINE g == [i \in 1..n |-> CHOOSE x \in S : rank[x] = i]
    <2>2. \A i \in 1..n : g[i] \in S /\ rank[g[i]] = i
        BY <2>1
    <2>3. g \in [1..n -> S]
        BY <2>2
    <2> HIDE DEF g
    <2> QED BY <2>2, <2>3
<1>8. \A i, j \in 1..n : i # j => s[i] # s[j]
    BY <1>7
<1>9. ASSUME NEW i \in 1..n, NEW j \in 1..n, i < j PROVE s[i] < s[j]
    <2>1. s[i] \in S /\ s[j] \in S /\ s[i] \in Nat /\ s[j] \in Nat
        BY <1>7
    <2>2. rank[s[i]] = i /\ rank[s[j]] = j /\ i \in Nat /\ j \in Nat
        BY <1>1, <1>7
    <2>3. s[i] # s[j] /\ ~ (s[j] < s[i])
        BY <1>3, <1>9, <2>1, <2>2
    <2> QED BY <2>1, <2>3
<1>10. ASSUME NEW x \in S PROVE \E i \in 1..n : s[i] = x
    <2>1. rank[x] \in 1..n
        BY <1>4 DEF Injection
    <2>2. s[rank[x]] \in S /\ rank[s[rank[x]]] = rank[x]
        BY <1>7, <2>1
    <2> QED BY <1>4, <2>1, <2>2 DEF Injection, IsInjective
<1>11. DOMAIN s = 1..n
    BY <1>7
<1>12. s \in SetToSeqs(S)
    BY <1>7, <1>8 DEF SetToSeqs
<1>13. s \in Seq(S)
    BY <1>1, <1>7, SeqDef
<1>14. ToSet(s) = S
    <2>1. \A i \in 1..n : s[i] \in S
        BY <1>7
    <2>2. ToSet(s) = {s[i] : i \in 1..n}
        BY <1>11 DEF ToSet
    <2> HIDE DEF n
    <2> QED BY <1>10, <2>1, <2>2
<1> QED BY <1>9, <1>11, <1>12, <1>13, <1>14 DEF Ascending

(***************************************************************************)
(* SetToSeq enumerates a finite set.                                       *)
(***************************************************************************)
LEMMA EnumerationProperties ==
    ASSUME NEW S, IsFiniteSet(S)
    PROVE  SetToSeq(S) \in Seq(S) /\ ToSet(SetToSeq(S)) = S
<1> DEFINE n == Cardinality(S)
<1>1. n \in Nat /\ \E f \in Bijection(1..n, S) : TRUE
    BY FS_CardinalityType DEF ExistsBijection
<1>2. \E f \in [1..n -> S] : IsInjective(f)
    BY <1>1 DEF Bijection, Injection
<1>3. SetToSeq(S) \in [1..n -> S] /\ IsInjective(SetToSeq(S))
    BY <1>2 DEF SetToSeq
<1> DEFINE s == SetToSeq(S)
<1>4. s \in Injection(1..n, S) /\ Cardinality(1..n) = n
    BY <1>1, <1>3, FS_Interval DEF Injection
<1> HIDE DEF s
<1>5. s \in Surjection(1..n, S)
    BY <1>4, FS_Injection
<1>6. s \in Seq(S)
    BY <1>1, <1>4, SeqDef DEF Injection
<1>7. ToSet(s) = S
    BY <1>5 DEF ToSet, Surjection
<1> QED BY <1>6, <1>7 DEF s


(***************************************************************************)
(* The empty sequence is ascending, and so is the rest of an ascending     *)
(* sequence, all of it above the head.                                     *)
(***************************************************************************)
LEMMA AscendingTail ==
    ASSUME NEW s \in Seq(Nat), s # <<>>, Ascending(s)
    PROVE  Ascending(Tail(s)) /\ \A x \in ToSet(Tail(s)) : Head(s) < x
<1>1. /\ Len(s) \in Nat \ {0} /\ DOMAIN s = 1..Len(s) /\ Head(s) = s[1]
      /\ DOMAIN Tail(s) = 1..(Len(s) - 1)
      /\ \A i \in 1..(Len(s) - 1) : Tail(s)[i] = s[i + 1]
    <2>1. Len(s) \in Nat /\ DOMAIN s = 1..Len(s) /\ Len(s) # 0
        BY LenProperties, EmptySeq
    <2>2. Head(s) = s[1] /\ Tail(s) \in Seq(Nat) /\ Len(Tail(s)) = Len(s) - 1
          /\ \A i \in 1..Len(Tail(s)) : Tail(s)[i] = s[i + 1]
        BY HeadTailProperties
    <2>3. DOMAIN Tail(s) = 1..Len(Tail(s))
        BY <2>2, LenProperties
    <2> QED BY <2>1, <2>2, <2>3
<1>2. ASSUME NEW i \in 1..(Len(s) - 1), NEW j \in 1..(Len(s) - 1), i < j
      PROVE  Tail(s)[i] < Tail(s)[j]
    BY <1>1, <1>2 DEF Ascending
<1>3. ASSUME NEW i \in 1..(Len(s) - 1) PROVE Head(s) < Tail(s)[i]
    BY <1>1 DEF Ascending
<1> QED BY <1>1, <1>2, <1>3 DEF Ascending, ToSet

(***************************************************************************)
(* An element above all others may be appended.                            *)
(***************************************************************************)
LEMMA AscendingAppend ==
    ASSUME NEW s \in Seq(Nat), NEW e \in Nat, Ascending(s), \A x \in ToSet(s) : x < e
    PROVE  Ascending(Append(s, e))
<1>1. /\ Len(s) \in Nat /\ DOMAIN s = 1..Len(s)
      /\ DOMAIN Append(s, e) = 1..(Len(s) + 1)
      /\ \A i \in 1..Len(s) : Append(s, e)[i] = s[i]
      /\ Append(s, e)[Len(s) + 1] = e
    BY LenProperties, AppendProperties
<1>2. \A i \in 1..Len(s) : s[i] < e
    BY <1>1 DEF ToSet
<1> QED BY <1>1, <1>2 DEF Ascending

(***************************************************************************)
(* One ascending sequence after another, all of it above the first.        *)
(***************************************************************************)
LEMMA AscendingConcat ==
    ASSUME NEW S \in SUBSET Nat, NEW s \in Seq(S), NEW t \in Seq(S), Ascending(s), Ascending(t),
           Below(ToSet(s), ToSet(t))
    PROVE  /\ s \o t \in Seq(S) /\ ToSet(s \o t) = ToSet(s) \cup ToSet(t)
           /\ Ascending(s \o t)
<1> DEFINE u == s \o t
<1>1. /\ Len(s) \in Nat /\ DOMAIN s = 1..Len(s)
      /\ Len(t) \in Nat /\ DOMAIN t = 1..Len(t)
      /\ u \in Seq(S) /\ Len(u) = Len(s) + Len(t) /\ DOMAIN u = 1..(Len(s) + Len(t))
      /\ \A i \in 1..(Len(s) + Len(t)) : u[i] = IF i <= Len(s) THEN s[i] ELSE t[i - Len(s)]
    BY LenProperties, ConcatProperties
<1>2. /\ \A i \in 1..Len(s) : u[i] = s[i]
      /\ \A i \in 1..Len(t) : u[Len(s) + i] = t[i]
      /\ \A i \in 1..(Len(s) + Len(t)) : i \in 1..Len(s) \/ i - Len(s) \in 1..Len(t)
    BY <1>1
<1> HIDE DEF u
<1>3. ToSet(u) = ToSet(s) \cup ToSet(t)
    <2>1. ASSUME NEW i \in 1..(Len(s) + Len(t)) PROVE u[i] \in ToSet(s) \cup ToSet(t)
        <3>1. CASE i \in 1..Len(s)
            BY <1>1, <1>2, <3>1 DEF ToSet
        <3>2. CASE i - Len(s) \in 1..Len(t)
            <4>1. u[i] = t[i - Len(s)]
                BY <1>1, <3>2
            <4> QED BY <1>1, <3>2, <4>1 DEF ToSet
        <3> QED BY <1>2, <3>1, <3>2
    <2>2. ToSet(s) \subseteq ToSet(u)
        BY <1>1, <1>2 DEF ToSet
    <2>3. \A i \in 1..Len(t) : Len(s) + i \in 1..(Len(s) + Len(t))
        BY <1>1
    <2>4. ASSUME NEW i \in 1..Len(t) PROVE t[i] \in ToSet(u)
        <3>1. u[Len(s) + i] = t[i] /\ Len(s) + i \in DOMAIN u
            BY <1>1, <1>2, <2>3
        <3> QED BY <3>1 DEF ToSet
    <2>5. ToSet(u) \subseteq ToSet(s) \cup ToSet(t)
        BY <1>1, <2>1 DEF ToSet
    <2>6. ToSet(t) \subseteq ToSet(u)
        BY <1>1, <2>4 DEF ToSet
    <2> QED BY <2>2, <2>5, <2>6
<1>4. ASSUME NEW i \in 1..(Len(s) + Len(t)), NEW j \in 1..(Len(s) + Len(t)), i < j
      PROVE  u[i] < u[j]
    <2>1. CASE i \in 1..Len(s) /\ j \in 1..Len(s)
        BY <1>1, <1>2, <1>4, <2>1 DEF Ascending
    <2>2. CASE i \in 1..Len(s) /\ j \notin 1..Len(s)
        <3>1. j - Len(s) \in 1..Len(t) /\ u[j] = t[j - Len(s)]
            BY <1>1, <2>2
        <3>2. u[i] \in ToSet(s) /\ u[j] \in ToSet(t)
            BY <1>1, <1>2, <2>2, <3>1 DEF ToSet
        <3> QED BY <3>2 DEF Below
    <2>3. CASE i \notin 1..Len(s)
        <3>1. i - Len(s) \in 1..Len(t) /\ j - Len(s) \in 1..Len(t) /\ i - Len(s) < j - Len(s)
            BY <1>1, <1>4, <2>3
        <3>2. u[i] = t[i - Len(s)] /\ u[j] = t[j - Len(s)]
            BY <1>1, <1>4, <2>3
        <3> QED BY <1>1, <3>1, <3>2 DEF Ascending
    <2> QED BY <2>1, <2>2, <2>3
<1> QED BY <1>1, <1>3, <1>4 DEF Ascending, u

(***************************************************************************)
(* The last element of an ascending sequence is its greatest.              *)
(***************************************************************************)
LEMMA AscendingLast ==
    ASSUME NEW S \in SUBSET Nat, NEW s \in Seq(S), s # <<>>, Ascending(s)
    PROVE  Last(s) \in ToSet(s) /\ Last(s) \in S /\ \A x \in ToSet(s) : x <= Last(s)
<1>1. /\ Len(s) \in Nat \ {0} /\ DOMAIN s = 1..Len(s) /\ Last(s) = s[Len(s)]
      /\ \A i \in 1..Len(s) : s[i] \in S
    BY LenProperties, EmptySeq, ElementOfSeq DEF Last
<1>2. \A i \in 1..Len(s) : s[i] <= s[Len(s)]
    <2> SUFFICES ASSUME NEW i \in 1..Len(s) PROVE s[i] <= s[Len(s)]
        OBVIOUS
    <2> Len(s) \in Nat \ {0} /\ Len(s) \in 1..Len(s)
        BY <1>1
    <2>1. s[i] \in Nat /\ s[Len(s)] \in Nat
        BY <1>1
    <2>2. i < Len(s) => s[i] < s[Len(s)]
        BY <1>1 DEF Ascending
    <2>3. i = Len(s) \/ i < Len(s)
        OBVIOUS
    <2> QED BY <2>1, <2>2, <2>3
<1> QED BY <1>1, <1>2 DEF ToSet


(***************************************************************************)
(* The places of a sequence after an element is appended.                  *)
(***************************************************************************)
LEMMA AppendAt ==
    ASSUME NEW S, NEW s \in Seq(S), NEW e \in S
    PROVE  /\ Append(s, e) \in Seq(S) /\ DOMAIN Append(s, e) = DOMAIN s \cup {Len(s) + 1}
           /\ Len(s) + 1 \notin DOMAIN s /\ Append(s, e)[Len(s) + 1] = e
           /\ \A i \in DOMAIN s : i \in Nat /\ i < Len(s) + 1 /\ Append(s, e)[i] = s[i]
<1>1. /\ Len(s) \in Nat /\ DOMAIN s = 1..Len(s)
      /\ Append(s, e) \in Seq(S) /\ DOMAIN Append(s, e) = 1..(Len(s) + 1)
      /\ \A i \in 1..Len(s) : Append(s, e)[i] = s[i]
      /\ Append(s, e)[Len(s) + 1] = e
    BY LenProperties, AppendProperties
<1>2. 1..(Len(s) + 1) = 1..Len(s) \cup {Len(s) + 1} /\ Len(s) + 1 \notin 1..Len(s)
    BY <1>1
<1>3. \A i \in 1..Len(s) : i \in Nat /\ i < Len(s) + 1
    BY <1>1
<1> QED BY <1>1, <1>2, <1>3

(***************************************************************************)
(* The places of a sequence after its head is taken.                       *)
(***************************************************************************)
LEMMA TailAt ==
    ASSUME NEW S, NEW s \in Seq(S), s # <<>>
    PROVE  /\ Tail(s) \in Seq(S) /\ Head(s) \in S /\ 1 \in DOMAIN s /\ s[1] = Head(s)
           /\ \A i \in DOMAIN Tail(s) : /\ i \in Nat /\ i + 1 \in DOMAIN s /\ i + 1 > 1
                                        /\ Tail(s)[i] = s[i + 1]
           /\ \A i \in DOMAIN s : i \in Nat /\ (i = 1 \/ i - 1 \in DOMAIN Tail(s))
<1>1. /\ Len(s) \in Nat \ {0} /\ DOMAIN s = 1..Len(s) /\ Head(s) = s[1] /\ Head(s) \in S
      /\ Tail(s) \in Seq(S) /\ DOMAIN Tail(s) = 1..(Len(s) - 1)
      /\ \A i \in 1..(Len(s) - 1) : Tail(s)[i] = s[i + 1]
    <2>1. Len(s) \in Nat /\ DOMAIN s = 1..Len(s) /\ Len(s) # 0
        BY LenProperties, EmptySeq
    <2>2. /\ Head(s) = s[1] /\ Head(s) \in S /\ Tail(s) \in Seq(S)
          /\ Len(Tail(s)) = Len(s) - 1
          /\ \A i \in 1..Len(Tail(s)) : Tail(s)[i] = s[i + 1]
        BY HeadTailProperties
    <2>3. DOMAIN Tail(s) = 1..Len(Tail(s))
        BY <2>2, LenProperties
    <2> QED BY <2>1, <2>2, <2>3
<1>2. \A i \in 1..(Len(s) - 1) : i \in Nat /\ i + 1 \in 1..Len(s) /\ i + 1 > 1
    BY <1>1
<1>3. \A i \in 1..Len(s) : i \in Nat /\ (i = 1 \/ i - 1 \in 1..(Len(s) - 1))
    BY <1>1
<1> QED BY <1>1, <1>2, <1>3
=============================================================================
