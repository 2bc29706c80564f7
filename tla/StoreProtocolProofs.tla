------------------------- MODULE StoreProtocolProofs -------------------------
(***************************************************************************)
(* The store as it is built implements the interface of CsvStore, for any  *)
(* clients, keys, values and lists, when the elements of the lists are all *)
(* of one length.  The proof goes from the text functions over the byte    *)
(* strings and the wire to the steps of the protocol, and on to the        *)
(* elements, each of which is in one place at a time.                      *)
(***************************************************************************)
EXTENDS StoreProtocol, SequenceLemmas

(***************************************************************************)
(* Sequences: induction along a sequence, and a function defined from the  *)
(* end of a sequence to its start.                                         *)
(***************************************************************************)
LEMMA ListInduction ==
    ASSUME NEW C, NEW T, <<>> \in T,
           \A c \in C, t \in Seq(C) : t \in T => <<c>> \o t \in T
    PROVE  Seq(C) \subseteq T
<1> SUFFICES ASSUME NEW s \in Seq(C) PROVE s \in T
    OBVIOUS
<1> DEFINE U == {k \in Nat : \A t \in Seq(C) : Len(t) = k => t \in T}
<1>1. ASSUME NEW k \in 0..Len(s), 0..(k - 1) \subseteq U PROVE k \in U
    <2> SUFFICES ASSUME NEW t \in Seq(C), Len(t) = k PROVE t \in T
        OBVIOUS
    <2>1. CASE k = 0
        BY <2>1
    <2>2. CASE k # 0
        <3>1. t # <<>> /\ Head(t) \in C /\ Tail(t) \in Seq(C) /\ Len(Tail(t)) = k - 1
            BY <2>2
        <3>2. k - 1 \in 0..(k - 1)
            BY <2>2
        <3>3. Tail(t) \in T
            BY <1>1, <3>1, <3>2
        <3>4. t = <<Head(t)>> \o Tail(t)
            BY <3>1
        <3> QED BY <3>1, <3>3, <3>4
    <2> QED BY <2>1, <2>2
<1>2. 0 \in Nat /\ Len(s) \in Nat
    OBVIOUS
<1>3. 0..Len(s) \subseteq U
    <2> HIDE DEF U
    <2> QED BY <1>1, <1>2, InductionUp
<1>4. Len(s) \in U
    BY <1>2, <1>3
<1> QED BY <1>4

\* The value at an index depends on the values behind it.
FromTheEnd(n, V, G) ==
    /\ n \in Nat /\ V # {} /\ G \in [(1..n + 1) \X [1..n + 1 -> V] -> V]
    /\ \A i \in 1..n + 1, f \in [1..n + 1 -> V], g \in [1..n + 1 -> V] :
           (\A j \in 1..n + 1 : i < j => f[j] = g[j]) => G[<<i, f>>] = G[<<i, g>>]

IsFixpoint(f, n, V, G) ==
    f \in [1..n + 1 -> V] /\ \A i \in 1..n + 1 : f[i] = G[<<i, f>>]

LEMMA EndRecursion ==
    ASSUME NEW n, NEW V, NEW G, FromTheEnd(n, V, G)
    PROVE  \E f : IsFixpoint(f, n, V, G)
<1> DEFINE S == 1..n + 1
           r == [i \in S |-> n + 1 - i]
<1>1. n \in Nat /\ V # {} /\ G \in [S \X [S -> V] -> V]
    BY DEF FromTheEnd
<1>2. r \in [S -> 0..n]
    BY <1>1
<1>3. ASSUME NEW i \in S, NEW f \in [S -> V], NEW g \in [S -> V],
             \A j \in S : r[j] < r[i] => f[j] = g[j]
      PROVE  G[<<i, f>>] = G[<<i, g>>]
    <2>1. ASSUME NEW j \in S, i < j PROVE f[j] = g[j]
        <3>1. r[j] < r[i]
            BY <1>1, <2>1
        <3> QED BY <1>3, <3>1
    <2> QED BY <1>3, <2>1 DEF FromTheEnd
<1>4. IsRecursion(S, V, n, r, G)
    <2> HIDE DEF S, r
    <2> QED BY ONLY <1>1, <1>2, <1>3 DEF IsRecursion
<1>5. \E f \in [S -> V] : \A i \in S : f[i] = G[<<i, f>>]
    <2> HIDE DEF S, r
    <2> QED BY ONLY <1>4, RecursiveFunction
<1> QED BY <1>5 DEF IsFixpoint

(***************************************************************************)
(* The first character of a text and the rest.                             *)
(***************************************************************************)
LEMMA ConsAt ==
    ASSUME NEW C, NEW c \in C, NEW t \in Seq(C)
    PROVE  /\ <<c>> \o t \in Seq(C) /\ Len(<<c>> \o t) = Len(t) + 1
           /\ (<<c>> \o t)[1] = c
           /\ \A i \in 1..Len(t) : (<<c>> \o t)[i + 1] = t[i]
           /\ Head(<<c>> \o t) = c /\ Tail(<<c>> \o t) = t
<1>1. <<c>> \in Seq(C) /\ Len(<<c>>) = 1 /\ <<c>>[1] = c
    OBVIOUS
<1>2. /\ <<c>> \o t \in Seq(C) /\ Len(<<c>> \o t) = Len(t) + 1
      /\ \A i \in 1..Len(t) + 1 :
             (<<c>> \o t)[i] = IF i <= 1 THEN <<c>>[i] ELSE t[i - 1]
    BY <1>1, ConcatProperties
<1>3. (<<c>> \o t)[1] = c /\ \A i \in 1..Len(t) : (<<c>> \o t)[i + 1] = t[i]
    <2>1. 1 \in 1..Len(t) + 1
        OBVIOUS
    <2>2. ASSUME NEW i \in 1..Len(t) PROVE (<<c>> \o t)[i + 1] = t[i]
        <3>1. i + 1 \in 1..Len(t) + 1 /\ ~(i + 1 <= 1) /\ (i + 1) - 1 = i
            OBVIOUS
        <3> QED BY <1>2, <3>1
    <2> QED BY <1>1, <1>2, <2>1, <2>2
<1> DEFINE w == <<c>> \o t
<1>4. w # <<>> /\ Head(w) = w[1] /\ Tail(w) \in Seq(C) /\ Len(Tail(w)) = Len(t)
      /\ \A i \in 1..Len(t) : Tail(w)[i] = w[i + 1]
    <2> HIDE DEF w
    <2>1. w \in Seq(C) /\ Len(w) = Len(t) + 1
        BY <1>2 DEF w
    <2>2. w # <<>>
        BY <2>1
    <2> QED BY <2>1, <2>2, HeadTailProperties
<1>5. Tail(w) = t
    <2> HIDE DEF w
    <2> QED BY <1>3, <1>4, SeqEqual DEF w
<1> QED BY <1>2, <1>3, <1>4, <1>5

(***************************************************************************)
(* Python's split, character by character: what one character makes of the *)
(* fields behind it, and the function from positions to fields.            *)
(***************************************************************************)
SplitStep(ch, sep, rest) ==
    IF ch = sep THEN << <<>> >> \o rest ELSE << <<ch>> \o Head(rest) >> \o Tail(rest)

Fields(C) == Seq(Seq(C)) \ {<<>>}

IsSplit(b, C, s, sep) ==
    /\ b \in [1..Len(s) + 1 -> Fields(C)]
    /\ Split(s, sep) = b[1]
    /\ b[Len(s) + 1] = << <<>> >>
    /\ \A i \in 1..Len(s) : b[i] = SplitStep(s[i], sep, b[i + 1])

LEMMA SplitStepType ==
    ASSUME NEW C, NEW ch \in C, NEW sep, NEW rest \in Fields(C)
    PROVE  SplitStep(ch, sep, rest) \in Fields(C)
<1>1. /\ rest \in Seq(Seq(C)) /\ rest # <<>>
      /\ Head(rest) \in Seq(C) /\ Tail(rest) \in Seq(Seq(C)) /\ <<>> \in Seq(C)
    BY DEF Fields
<1>2. <<ch>> \o Head(rest) \in Seq(C)
    BY <1>1
<1>3. ASSUME NEW x \in Seq(C), NEW w \in Seq(Seq(C)) PROVE <<x>> \o w \in Fields(C)
    <2>1. <<x>> \o w \in Seq(Seq(C)) /\ Len(<<x>> \o w) = Len(w) + 1
        BY ConsAt
    <2> QED BY <2>1 DEF Fields
<1> QED BY <1>1, <1>2, <1>3 DEF SplitStep

LEMMA SplitFunction ==
    ASSUME NEW C, NEW s \in Seq(C), NEW sep
    PROVE  \E b : IsSplit(b, C, s, sep)
<1> DEFINE n == Len(s)
           S == 1..n + 1
           V == Fields(C)
           Fix(f) == f = [i \in S |->
                              IF i > n THEN << <<>> >>
                              ELSE LET rest == f[i + 1]
                                   IN IF s[i] = sep THEN << <<>> >> \o rest
                                      ELSE << <<s[i]>> \o Head(rest) >> \o Tail(rest)]
           G == [p \in S \X [S -> V] |->
                     IF p[1] > n THEN << <<>> >> ELSE SplitStep(s[p[1]], sep, p[2][p[1] + 1])]
<1>1. n \in Nat /\ << <<>> >> \in V
    BY DEF Fields
<1>2. FromTheEnd(n, V, G)
    <2>1. ASSUME NEW i \in S, NEW f \in [S -> V]
          PROVE  (IF i > n THEN << <<>> >> ELSE SplitStep(s[i], sep, f[i + 1])) \in V
        <3>1. i > n \/ (s[i] \in C /\ i + 1 \in S)
            BY <1>1
        <3> QED BY <1>1, <2>1, <3>1, SplitStepType
    <2>2. G \in [S \X [S -> V] -> V]
        BY <2>1
    <2>3. ASSUME NEW i \in S, NEW f \in [S -> V], NEW g \in [S -> V],
                 \A j \in S : i < j => f[j] = g[j]
          PROVE  G[<<i, f>>] = G[<<i, g>>]
        <3>1. i > n \/ f[i + 1] = g[i + 1]
            <4>1. i > n \/ (i + 1 \in S /\ i < i + 1)
                BY <1>1
            <4> QED BY <2>3, <4>1
        <3>2. /\ G[<<i, f>>] = IF i > n THEN << <<>> >> ELSE SplitStep(s[i], sep, f[i + 1])
              /\ G[<<i, g>>] = IF i > n THEN << <<>> >> ELSE SplitStep(s[i], sep, g[i + 1])
            OBVIOUS
        <3> QED BY <3>1, <3>2
    <2>4. V # {}
        BY <1>1
    <2> HIDE DEF G, V, n
    <2> QED BY <1>1, <2>2, <2>3, <2>4 DEF FromTheEnd
<1>3. \E f : Fix(f)
    <2>0. PICK f : IsFixpoint(f, n, V, G)
        <3> HIDE DEF G, V, n
        <3> QED BY <1>2, EndRecursion
    <2>1. f \in [S -> V] /\ \A i \in S : f[i] = G[<<i, f>>]
        <3> HIDE DEF G, V, n
        <3> QED BY <2>0 DEF IsFixpoint
    <2>2. \A i \in S : f[i] = IF i > n THEN << <<>> >> ELSE SplitStep(s[i], sep, f[i + 1])
        BY <2>1
    <2>3. f = [i \in S |-> f[i]]
        BY <2>1
    <2>4. Fix(f)
        BY <2>2, <2>3 DEF SplitStep
    <2> QED BY <2>4
<1> DEFINE b == CHOOSE f : Fix(f)
<1>4. Fix(b)
    BY <1>3
<1>5. Split(s, sep) = b[1]
    BY DEF Split
<1> HIDE DEF b
<1>6. \A i \in S : b[i] = IF i > n THEN << <<>> >> ELSE SplitStep(s[i], sep, b[i + 1])
    BY <1>4 DEF SplitStep
<1>7. b \in [S -> V]
    <2> DEFINE T == {i \in S : b[i] \in V}
    <2>1. ASSUME NEW i \in S, (i + 1)..(n + 1) \subseteq T PROVE i \in T
        <3>1. i > n \/ (s[i] \in C /\ i + 1 \in (i + 1)..(n + 1))
            BY <1>1
        <3> QED BY <1>1, <1>6, <2>1, <3>1, SplitStepType
    <2>2. 1 \in Nat /\ n + 1 \in Nat
        BY <1>1
    <2>3. S \subseteq T
        <3> HIDE DEF T, n
        <3> QED BY <2>1, <2>2, InductionDown
    <2>4. b = [i \in S |-> b[i]]
        BY <1>4
    <2> QED BY <2>3, <2>4
<1>8. IsSplit(b, C, s, sep)
    <2>1. n + 1 \in S /\ n + 1 > n /\ \A i \in 1..n : i \in S /\ ~(i > n)
        BY <1>1
    <2> QED BY <1>5, <1>6, <1>7, <2>1 DEF IsSplit
<1> QED BY <1>8

(***************************************************************************)
(* Split along the text: the empty text, and a character before a text.    *)
(***************************************************************************)
LEMMA SplitEmpty ==
    ASSUME NEW sep
    PROVE  Split(<<>>, sep) = << <<>> >>
<1>1. <<>> \in Seq({}) /\ Len(<<>>) = 0
    OBVIOUS
<1>2. PICK b : IsSplit(b, {}, <<>>, sep)
    BY <1>1, SplitFunction
<1> QED BY <1>1, <1>2 DEF IsSplit

LEMMA SplitCons ==
    ASSUME NEW C, NEW c \in C, NEW t \in Seq(C), NEW sep
    PROVE  /\ Split(t, sep) \in Fields(C)
           /\ Split(<<c>> \o t, sep) = SplitStep(c, sep, Split(t, sep))
<1> DEFINE s == <<c>> \o t
           n == Len(t)
<1>1. /\ s \in Seq(C) /\ Len(s) = n + 1 /\ s[1] = c /\ n \in Nat
      /\ \A i \in 1..n : s[i + 1] = t[i]
    BY ConsAt
<1> HIDE DEF s
<1>2. PICK b : IsSplit(b, C, t, sep)
    BY SplitFunction
<1>3. PICK d : IsSplit(d, C, s, sep)
    BY <1>1, SplitFunction
<1>4. /\ b[n + 1] = << <<>> >> /\ d[n + 2] = << <<>> >>
      /\ \A i \in 1..n : b[i] = SplitStep(t[i], sep, b[i + 1])
      /\ \A i \in 1..n + 1 : d[i] = SplitStep(s[i], sep, d[i + 1])
      /\ Split(t, sep) = b[1] /\ Split(s, sep) = d[1] /\ b[1] \in Fields(C)
    <2>1. (n + 1) + 1 = n + 2 /\ 1 \in 1..n + 1
        BY <1>1
    <2> QED BY <1>1, <1>2, <1>3, <2>1 DEF IsSplit
<1> DEFINE T == {i \in 1..n + 1 : d[i + 1] = b[i]}
<1> HIDE DEF n
<1>5. ASSUME NEW i \in 1..n + 1, (i + 1)..(n + 1) \subseteq T PROVE i \in T
    <2>1. CASE i = n + 1
        <3>1. i + 1 = n + 2
            BY <1>1, <2>1
        <3> QED BY <1>4, <2>1, <3>1
    <2>2. CASE i # n + 1
        <3>1. i \in 1..n /\ i + 1 \in (i + 1)..(n + 1) /\ i + 1 \in 1..n + 1
            BY <1>1, <2>2
        <3>2. d[(i + 1) + 1] = b[i + 1] /\ s[i + 1] = t[i]
            BY <1>1, <1>5, <3>1
        <3> QED BY <1>4, <3>1, <3>2
    <2> QED BY <2>1, <2>2
<1>6. 1 \in Nat /\ n + 1 \in Nat /\ 1 \in 1..n + 1
    BY <1>1
<1>7. 1 \in T
    <2> HIDE DEF T
    <2> QED BY <1>5, <1>6, InductionDown
<1>8. d[1] = SplitStep(c, sep, b[1])
    BY <1>1, <1>4, <1>6, <1>7
<1> QED BY <1>4, <1>8 DEF s

(***************************************************************************)
(* The same for a function each of whose values depends on the next.       *)
(***************************************************************************)
IsStepwise(f, n, V, base, F) ==
    /\ f \in [1..n + 1 -> V]
    /\ f[n + 1] = base
    /\ \A i \in 1..n : f[i] = F[<<i, f[i + 1]>>]

LEMMA StepRecursion ==
    ASSUME NEW n \in Nat, NEW V, NEW base \in V, NEW F \in [(1..n) \X V -> V]
    PROVE  \E f : IsStepwise(f, n, V, base, F)
<1> DEFINE S == 1..n + 1
           G == [p \in S \X [S -> V] |->
                     IF p[1] = n + 1 THEN base ELSE F[<<p[1], p[2][p[1] + 1]>>]]
<1>1. ASSUME NEW i \in S, NEW f \in [S -> V]
      PROVE  (IF i = n + 1 THEN base ELSE F[<<i, f[i + 1]>>]) \in V
    <2>1. i = n + 1 \/ (i \in 1..n /\ i + 1 \in S)
        OBVIOUS
    <2>2. i # n + 1 => <<i, f[i + 1]>> \in (1..n) \X V
        BY <2>1
    <2> QED BY <2>2
<1>2. G \in [S \X [S -> V] -> V]
    BY <1>1
<1>3. ASSUME NEW i \in S, NEW f \in [S -> V], NEW g \in [S -> V],
             \A j \in S : i < j => f[j] = g[j]
      PROVE  G[<<i, f>>] = G[<<i, g>>]
    <2>1. i = n + 1 \/ f[i + 1] = g[i + 1]
        <3>1. i = n + 1 \/ (i + 1 \in S /\ i < i + 1)
            OBVIOUS
        <3> QED BY <1>3, <3>1
    <2>2. /\ G[<<i, f>>] = IF i = n + 1 THEN base ELSE F[<<i, f[i + 1]>>]
          /\ G[<<i, g>>] = IF i = n + 1 THEN base ELSE F[<<i, g[i + 1]>>]
        OBVIOUS
    <2> QED BY <2>1, <2>2
<1>4. FromTheEnd(n, V, G)
    <2> HIDE DEF G
    <2> QED BY <1>2, <1>3 DEF FromTheEnd
<1>A. PICK f : IsFixpoint(f, n, V, G)
    <2> HIDE DEF G
    <2> QED BY <1>4, EndRecursion
<1>5. f \in [S -> V] /\ \A i \in S : f[i] = G[<<i, f>>]
    <2> HIDE DEF G
    <2> QED BY <1>A DEF IsFixpoint
<1>6. \A i \in S : f[i] = IF i = n + 1 THEN base ELSE F[<<i, f[i + 1]>>]
    BY <1>5
<1>7. n + 1 \in S /\ \A i \in 1..n : i \in S /\ i # n + 1
    OBVIOUS
<1> QED BY ZenonT(40), <1>5, <1>6, <1>7 DEF IsStepwise

LEMMA StepTyped ==
    ASSUME NEW n \in Nat, NEW V, NEW base \in V, NEW F \in [(1..n) \X V -> V], NEW f,
           f = [i \in 1..n + 1 |-> f[i]], f[n + 1] = base,
           \A i \in 1..n : f[i + 1] \in V => f[i] = F[<<i, f[i + 1]>>]
    PROVE  IsStepwise(f, n, V, base, F)
<1> DEFINE T == {i \in 1..n + 1 : f[i] \in V}
<1>1. ASSUME NEW i \in 1..n + 1, (i + 1)..(n + 1) \subseteq T PROVE i \in T
    <2>1. i = n + 1 \/ (i \in 1..n /\ i + 1 \in (i + 1)..(n + 1))
        OBVIOUS
    <2>2. i = n + 1 \/ (i \in 1..n /\ f[i + 1] \in V)
        BY <1>1, <2>1
    <2>3. i \in 1..n => <<i, f[i + 1]>> \in (1..n) \X V
        BY <2>1, <2>2
    <2> QED BY <2>1, <2>2, <2>3
<1>2. 1 \in Nat /\ n + 1 \in Nat
    OBVIOUS
<1>3. 1..n + 1 \subseteq T
    <2> HIDE DEF T
    <2> QED BY <1>1, <1>2, InductionDown
<1>4. f \in [1..n + 1 -> V]
    BY <1>3
<1>5. \A i \in 1..n : f[i + 1] \in V
    BY <1>4
<1> QED BY <1>4, <1>5 DEF IsStepwise

(***************************************************************************)
(* The characters the protocol writes itself.                              *)
(***************************************************************************)
LEMMA Literals ==
    /\ ProtocolChars \subseteq Chars
    /\ "\n" \in Chars /\ "\\" \in Chars /\ "n" \in Chars /\ Comma \in Chars
    /\ "\n" # "\\" /\ "\\" # "n" /\ "\n" # "n"
<1>1. "\n" # "\\" /\ "\\" # "n" /\ "\n" # "n"
    OBVIOUS
<1> QED BY <1>1, ProtocolAssumption DEF ProtocolChars

(***************************************************************************)
(* unicode_escape, along the text.                                         *)
(***************************************************************************)
LEMMA EscapeCharType ==
    ASSUME NEW ch \in Chars
    PROVE  EscapeChar(ch) \in Seq(Chars) /\ Len(EscapeChar(ch)) \in {1, 2}
<1>1. ASSUME NEW a \in Chars, NEW b \in Chars
      PROVE  /\ <<a>> \in Seq(Chars) /\ <<a, b>> \in Seq(Chars)
             /\ Len(<<a>>) = 1 /\ Len(<<a, b>>) = 2
    OBVIOUS
<1>2. CASE ch = "\n"
    BY <1>1, <1>2, Literals DEF EscapeChar
<1>3. CASE ch = "\\"
    BY <1>1, <1>3, Literals DEF EscapeChar
<1>4. CASE ch # "\n" /\ ch # "\\"
    BY <1>1, <1>4 DEF EscapeChar
<1> QED BY <1>2, <1>3, <1>4

IsEscape(b, s) ==
    /\ b \in [1..Len(s) + 1 -> Seq(Chars)]
    /\ Escape(s) = b[1] /\ b[Len(s) + 1] = <<>>
    /\ \A i \in 1..Len(s) : b[i] = EscapeChar(s[i]) \o b[i + 1]

LEMMA EscapeFunction ==
    ASSUME NEW s \in Seq(Chars)
    PROVE  \E b : IsEscape(b, s)
<1> DEFINE n == Len(s)
           V == Seq(Chars)
           Fix(f) == f = [i \in 1 .. n + 1 |->
                              IF i > n THEN <<>> ELSE EscapeChar(s[i]) \o f[i + 1]]
           F == [p \in (1..n) \X V |-> EscapeChar(s[p[1]]) \o p[2]]
<1>1. n \in Nat /\ <<>> \in V /\ \A i \in 1..n : s[i] \in Chars
    OBVIOUS
<1>2. F \in [(1..n) \X V -> V]
    <2>1. ASSUME NEW i \in 1..n, NEW v \in V PROVE EscapeChar(s[i]) \o v \in V
        <3>1. EscapeChar(s[i]) \in Seq(Chars)
            BY <1>1, EscapeCharType
        <3> QED BY <3>1, ConcatProperties
    <2> QED BY <2>1
<1>3. PICK f : IsStepwise(f, n, V, <<>>, F)
    <2> HIDE DEF F, n, V
    <2> QED BY <1>1, <1>2, StepRecursion
<1>4. Fix(f)
    <2>1. /\ f = [i \in 1..n + 1 |-> f[i]] /\ f[n + 1] = <<>>
          /\ \A i \in 1..n : f[i + 1] \in V /\ f[i] = F[<<i, f[i + 1]>>]
        <3> HIDE DEF F, n, V
        <3>1. \A i \in 1..n : i + 1 \in 1..n + 1
            BY <1>1
        <3> QED BY <1>3, <3>1 DEF IsStepwise
    <2>2. \A i \in 1..n : f[i] = EscapeChar(s[i]) \o f[i + 1]
        BY <2>1
    <2>3. \A i \in 1..n + 1 : f[i] = IF i > n THEN <<>> ELSE EscapeChar(s[i]) \o f[i + 1]
        <3>1. \A i \in 1..n + 1 : IF i > n THEN i = n + 1 ELSE i \in 1..n
            BY <1>1
        <3> QED BY <2>1, <2>2, <3>1
    <2> QED BY <2>1, <2>3
<1> DEFINE b == CHOOSE g : Fix(g)
<1>5. Fix(b)
    BY <1>4
<1>6. Escape(s) = b[1]
    BY DEF Escape
<1> HIDE DEF b
<1>7. b[n + 1] = <<>> /\ \A i \in 1..n : b[i] = EscapeChar(s[i]) \o b[i + 1]
    <2>1. n + 1 \in 1..n + 1 /\ n + 1 > n /\ \A i \in 1..n : i \in 1..n + 1 /\ ~(i > n)
        BY <1>1
    <2> QED BY <1>5, <2>1
<1>8. IsStepwise(b, n, V, <<>>, F)
    <2>1. \A i \in 1..n : b[i + 1] \in V => b[i] = F[<<i, b[i + 1]>>]
        BY <1>7
    <2>2. b = [i \in 1..n + 1 |-> b[i]]
        BY <1>5
    <2> HIDE DEF F, n, V
    <2> QED BY <1>1, <1>2, <1>7, <2>1, <2>2, StepTyped
<1> QED BY <1>6, <1>7, <1>8 DEF IsStepwise, IsEscape

LEMMA EscapeEmpty ==
    Escape(<<>>) = <<>>
<1>1. <<>> \in Seq(Chars) /\ Len(<<>>) = 0
    OBVIOUS
<1>2. PICK b : IsEscape(b, <<>>)
    BY <1>1, EscapeFunction
<1> QED BY <1>1, <1>2 DEF IsEscape

LEMMA EscapeCons ==
    ASSUME NEW c \in Chars, NEW t \in Seq(Chars)
    PROVE  Escape(t) \in Seq(Chars) /\ Escape(<<c>> \o t) = EscapeChar(c) \o Escape(t)
<1> DEFINE s == <<c>> \o t
           n == Len(t)
<1>1. /\ s \in Seq(Chars) /\ Len(s) = n + 1 /\ s[1] = c /\ n \in Nat
      /\ \A i \in 1..n : s[i + 1] = t[i]
    BY ConsAt
<1> HIDE DEF s
<1>2. PICK b : IsEscape(b, t)
    BY EscapeFunction
<1>3. PICK d : IsEscape(d, s)
    BY <1>1, EscapeFunction
<1>4. /\ b[n + 1] = <<>> /\ d[n + 2] = <<>>
      /\ \A i \in 1..n : b[i] = EscapeChar(t[i]) \o b[i + 1]
      /\ \A i \in 1..n + 1 : d[i] = EscapeChar(s[i]) \o d[i + 1]
      /\ Escape(t) = b[1] /\ Escape(s) = d[1] /\ b[1] \in Seq(Chars)
    <2>1. (n + 1) + 1 = n + 2 /\ 1 \in 1..n + 1
        BY <1>1
    <2> QED BY <1>1, <1>2, <1>3, <2>1 DEF IsEscape
<1> DEFINE T == {i \in 1..n + 1 : d[i + 1] = b[i]}
<1> HIDE DEF n
<1>5. ASSUME NEW i \in 1..n + 1, (i + 1)..(n + 1) \subseteq T PROVE i \in T
    <2>1. CASE i = n + 1
        <3>1. i + 1 = n + 2
            BY <1>1, <2>1
        <3> QED BY <1>4, <2>1, <3>1
    <2>2. CASE i # n + 1
        <3>1. i \in 1..n /\ i + 1 \in (i + 1)..(n + 1) /\ i + 1 \in 1..n + 1
            BY <1>1, <2>2
        <3>2. d[(i + 1) + 1] = b[i + 1] /\ s[i + 1] = t[i]
            BY <1>1, <1>5, <3>1
        <3> QED BY <1>4, <3>1, <3>2
    <2> QED BY <2>1, <2>2
<1>6. 1 \in Nat /\ n + 1 \in Nat /\ 1 \in 1..n + 1
    BY <1>1
<1>7. 1 \in T
    <2> HIDE DEF T
    <2> QED BY <1>5, <1>6, InductionDown
<1>8. d[1] = EscapeChar(c) \o b[1]
    BY <1>1, <1>4, <1>6, <1>7
<1> QED BY <1>4, <1>8 DEF s

(***************************************************************************)
(* unescape, along the text.                                               *)
(***************************************************************************)
Unescaped(ch) == IF ch = "n" THEN "\n" ELSE ch

UnescapeStep(s, i, b) ==
    IF i > Len(s) THEN <<>>
    ELSE IF i < Len(s) /\ s[i] = "\\" THEN <<Unescaped(s[i + 1])>> \o b[i + 2]
    ELSE <<s[i]>> \o b[i + 1]

IsUnescape(b, s) ==
    /\ b \in [1..Len(s) + 1 -> Seq(Chars)]
    /\ Unescape(s) = b[1]
    /\ \A i \in 1..Len(s) + 1 : b[i] = UnescapeStep(s, i, b)

LEMMA UnescapeStepType ==
    ASSUME NEW s \in Seq(Chars), NEW i \in 1..Len(s) + 1, NEW b,
           \A j \in (i + 1)..(Len(s) + 1) : b[j] \in Seq(Chars)
    PROVE  UnescapeStep(s, i, b) \in Seq(Chars)
<1>1. ASSUME NEW c \in Chars, NEW t \in Seq(Chars) PROVE <<c>> \o t \in Seq(Chars)
    BY ConsAt
<1>2. Len(s) \in Nat /\ \A j \in 1..Len(s) : s[j] \in Chars /\ Unescaped(s[j]) \in Chars
    <2>1. \A c \in Chars : Unescaped(c) \in Chars
        BY Literals DEF Unescaped
    <2>2. Len(s) \in Nat /\ \A j \in 1..Len(s) : s[j] \in Chars
        OBVIOUS
    <2> QED BY <2>1, <2>2
<1>3. CASE i > Len(s)
    BY <1>3 DEF UnescapeStep
<1>4. CASE ~(i > Len(s)) /\ i < Len(s) /\ s[i] = "\\"
    <2>1. i + 1 \in 1..Len(s) /\ i + 2 \in (i + 1)..(Len(s) + 1)
        BY <1>2, <1>4
    <2>2. UnescapeStep(s, i, b) = <<Unescaped(s[i + 1])>> \o b[i + 2]
        BY <1>4 DEF UnescapeStep
    <2> QED BY <1>1, <1>2, <2>1, <2>2
<1>5. CASE ~(i > Len(s)) /\ ~(i < Len(s) /\ s[i] = "\\")
    <2>1. i \in 1..Len(s) /\ i + 1 \in (i + 1)..(Len(s) + 1)
        BY <1>2, <1>5
    <2>2. UnescapeStep(s, i, b) = <<s[i]>> \o b[i + 1]
        BY <1>5 DEF UnescapeStep
    <2> QED BY <1>1, <1>2, <2>1, <2>2
<1> QED BY <1>3, <1>4, <1>5

LEMMA UnescapeFunction ==
    ASSUME NEW s \in Seq(Chars)
    PROVE  \E b : IsUnescape(b, s)
<1> DEFINE n == Len(s)
           S == 1..n + 1
           V == Seq(Chars)
           Fix(f) == f = [i \in S |->
                              CASE i > n -> <<>>
                                [] i < n /\ s[i] = "\\" ->
                                      <<IF s[i + 1] = "n" THEN "\n" ELSE s[i + 1]>> \o f[i + 2]
                                [] OTHER -> <<s[i]>> \o f[i + 1]]
           G == [p \in S \X [S -> V] |-> UnescapeStep(s, p[1], p[2])]
<1>1. n \in Nat /\ <<>> \in V
    OBVIOUS
<1>2. FromTheEnd(n, V, G)
    <2>1. ASSUME NEW i \in S, NEW f \in [S -> V] PROVE UnescapeStep(s, i, f) \in V
        <3>1. \A j \in (i + 1)..(n + 1) : f[j] \in V
            BY <1>1
        <3> QED BY <3>1, UnescapeStepType
    <2>2. G \in [S \X [S -> V] -> V]
        BY <2>1
    <2>3. ASSUME NEW i \in S, NEW f \in [S -> V], NEW g \in [S -> V],
                 \A j \in S : i < j => f[j] = g[j]
          PROVE  G[<<i, f>>] = G[<<i, g>>]
        <3>1. i > n \/ (f[i + 1] = g[i + 1] /\ (i < n => f[i + 2] = g[i + 2]))
            <4>1. i > n \/ (i + 1 \in S /\ i < i + 1)
                BY <1>1
            <4>2. i < n => i + 2 \in S /\ i < i + 2
                BY <1>1
            <4> QED BY <2>3, <4>1, <4>2
        <3>2. UnescapeStep(s, i, f) = UnescapeStep(s, i, g)
            BY <3>1 DEF UnescapeStep
        <3>3. G[<<i, f>>] = UnescapeStep(s, i, f) /\ G[<<i, g>>] = UnescapeStep(s, i, g)
            OBVIOUS
        <3> QED BY <3>2, <3>3
    <2>4. V # {}
        BY <1>1
    <2> HIDE DEF G, V, n
    <2> QED BY <1>1, <2>2, <2>3, <2>4 DEF FromTheEnd
<1>S. ASSUME NEW f, NEW i \in S
      PROVE  UnescapeStep(s, i, f) =
                 CASE i > n -> <<>>
                   [] i < n /\ s[i] = "\\" ->
                         <<IF s[i + 1] = "n" THEN "\n" ELSE s[i + 1]>> \o f[i + 2]
                   [] OTHER -> <<s[i]>> \o f[i + 1]
    <2>1. i > n => ~(i < n)
        BY <1>1
    <2> QED BY <2>1 DEF UnescapeStep, Unescaped
<1>3. \E f : Fix(f)
    <2>0. PICK f : IsFixpoint(f, n, V, G)
        <3> HIDE DEF G, V, n
        <3> QED BY <1>2, EndRecursion
    <2>1. f \in [S -> V] /\ \A i \in S : f[i] = G[<<i, f>>]
        <3> HIDE DEF G, V, n
        <3> QED BY <2>0 DEF IsFixpoint
    <2>2. \A i \in S : f[i] = UnescapeStep(s, i, f)
        BY <2>1
    <2>3. f = [i \in S |-> f[i]]
        BY <2>1
    <2>4. Fix(f)
        <3> HIDE DEF V, n
        <3> QED BY <1>S, <2>2, <2>3
    <2> QED BY <2>4
<1> DEFINE b == CHOOSE f : Fix(f)
<1>4. Fix(b)
    BY <1>3
<1>5. Unescape(s) = b[1]
    BY DEF Unescape
<1> HIDE DEF b
<1>6. b = [i \in S |-> b[i]] /\ \A i \in S : b[i] = UnescapeStep(s, i, b)
    <2> HIDE DEF n, V
    <2> QED BY <1>4, <1>S
<1>7. b \in [S -> V]
    <2> DEFINE T == {i \in S : b[i] \in V}
    <2>1. ASSUME NEW i \in S, (i + 1)..(n + 1) \subseteq T PROVE i \in T
        <3>1. \A j \in (i + 1)..(n + 1) : b[j] \in V
            BY <2>1
        <3> QED BY <1>6, <2>1, <3>1, UnescapeStepType
    <2>2. 1 \in Nat /\ n + 1 \in Nat
        BY <1>1
    <2>3. S \subseteq T
        <3> HIDE DEF T, n
        <3> QED BY <2>1, <2>2, InductionDown
    <2> QED BY <1>6, <2>3
<1> QED BY <1>5, <1>6, <1>7 DEF IsUnescape

(***************************************************************************)
(* Unescaping what stands behind a prefix.                                 *)
(***************************************************************************)
LEMMA UnescapeBehind ==
    ASSUME NEW a \in Seq(Chars), NEW u \in Seq(Chars)
    PROVE  \E d : IsUnescape(d, a \o u) /\ d[Len(a) + 1] = Unescape(u)
<1> DEFINE s == a \o u
           n == Len(u)
           p == Len(a)
<1>1. /\ s \in Seq(Chars) /\ Len(s) = p + n /\ n \in Nat /\ p \in Nat
      /\ \A i \in 1..n : s[p + i] = u[i]
    <2>1. /\ s \in Seq(Chars) /\ Len(s) = p + n /\ n \in Nat /\ p \in Nat
          /\ \A i \in 1..p + n : s[i] = IF i <= p THEN a[i] ELSE u[i - p]
        BY ConcatProperties
    <2> HIDE DEF s, n, p
    <2>2. ASSUME NEW i \in 1..n PROVE s[p + i] = u[i]
        <3>1. p + i \in 1..p + n /\ ~(p + i <= p) /\ (p + i) - p = i
            BY <2>1
        <3> QED BY <2>1, <3>1
    <2> QED BY <2>1, <2>2
<1> HIDE DEF s
<1>2. PICK b : IsUnescape(b, u)
    BY UnescapeFunction
<1>3. PICK d : IsUnescape(d, s)
    BY <1>1, UnescapeFunction
<1>4. /\ \A i \in 1..n + 1 : b[i] = UnescapeStep(u, i, b)
      /\ \A i \in 1..(p + n) + 1 : d[i] = UnescapeStep(s, i, d)
    BY <1>1, <1>2, <1>3 DEF IsUnescape
<1> DEFINE T == {i \in 1..n + 1 : d[p + i] = b[i]}
<1>5. ASSUME NEW i \in 1..n + 1, (i + 1)..(n + 1) \subseteq T PROVE i \in T
    <2>1. p + i \in 1..(p + n) + 1 /\ (p + i > p + n <=> i > n) /\ (p + i < p + n <=> i < n)
        BY <1>1
    <2>2. i > n \/ (/\ s[p + i] = u[i] /\ d[(p + i) + 1] = b[i + 1]
                    /\ i < n => s[(p + i) + 1] = u[i + 1] /\ d[(p + i) + 2] = b[i + 2])
        <3>1. i > n \/ (i \in 1..n /\ i + 1 \in (i + 1)..(n + 1) /\ (p + i) + 1 = p + (i + 1))
            BY <1>1
        <3>2. i < n => /\ i + 1 \in 1..n /\ i + 2 \in (i + 1)..(n + 1)
                       /\ (p + i) + 2 = p + (i + 2)
            BY <1>1
        <3> HIDE DEF n, p
        <3> QED BY <1>1, <1>5, <3>1, <3>2
    <2>3. UnescapeStep(s, p + i, d) = UnescapeStep(u, i, b)
        BY <1>1, <2>1, <2>2 DEF UnescapeStep
    <2> QED BY <1>4, <2>1, <2>3
<1>6. 1 \in Nat /\ n + 1 \in Nat /\ 1 \in 1..n + 1
    BY <1>1
<1>7. 1 \in T
    <2> HIDE DEF T, n
    <2> QED BY <1>5, <1>6, InductionDown
<1>8. d[p + 1] = Unescape(u)
    BY <1>2, <1>7 DEF IsUnescape
<1> QED BY <1>3, <1>8 DEF s

LEMMA UnescapeEmpty ==
    Unescape(<<>>) = <<>>
<1>1. <<>> \in Seq(Chars) /\ Len(<<>>) = 0
    OBVIOUS
<1>2. PICK b : IsUnescape(b, <<>>)
    BY <1>1, UnescapeFunction
<1>3. b[1] = UnescapeStep(<<>>, 1, b) /\ Unescape(<<>>) = b[1]
    BY <1>1, <1>2 DEF IsUnescape
<1> QED BY <1>1, <1>3 DEF UnescapeStep

LEMMA UnescapePlain ==
    ASSUME NEW c \in Chars, c # "\\", NEW u \in Seq(Chars)
    PROVE  Unescape(<<c>> \o u) = <<c>> \o Unescape(u)
<1> DEFINE s == <<c>> \o u
<1>1. s \in Seq(Chars) /\ Len(s) = Len(u) + 1 /\ Len(u) \in Nat /\ s[1] = c
    BY ConsAt
<1>2. <<c>> \in Seq(Chars) /\ Len(<<c>>) = 1
    OBVIOUS
<1> HIDE DEF s
<1>3. PICK d : IsUnescape(d, s) /\ d[1 + 1] = Unescape(u)
    BY <1>2, UnescapeBehind DEF s
<1>4. Unescape(s) = UnescapeStep(s, 1, d)
    <2>1. 1 \in 1..Len(s) + 1
        BY <1>1
    <2> QED BY <1>3, <2>1 DEF IsUnescape
<1>5. ~(1 > Len(s)) /\ ~(1 < Len(s) /\ s[1] = "\\")
    BY <1>1
<1> QED BY <1>1, <1>3, <1>4, <1>5 DEF UnescapeStep, s

LEMMA PairAt ==
    ASSUME NEW C, NEW x \in C, NEW y \in C
    PROVE  /\ <<x, y>> \in Seq(C) /\ Len(<<x, y>>) = 2
           /\ <<x, y>>[1] = x /\ <<x, y>>[2] = y
OBVIOUS

LEMMA UnescapePair ==
    ASSUME NEW c \in Chars, NEW u \in Seq(Chars)
    PROVE  Unescape(<<"\\", c>> \o u) = <<Unescaped(c)>> \o Unescape(u)
<1> DEFINE a == <<"\\", c>>
           s == a \o u
<1>1. a \in Seq(Chars) /\ Len(a) = 2 /\ a[1] = "\\" /\ a[2] = c /\ Len(u) \in Nat
    <2>1. \A x \in Chars : /\ <<x, c>> \in Seq(Chars) /\ Len(<<x, c>>) = 2
                           /\ <<x, c>>[1] = x /\ <<x, c>>[2] = c
        BY PairAt
    <2>2. /\ <<"\\", c>> \in Seq(Chars) /\ Len(<<"\\", c>>) = 2
          /\ <<"\\", c>>[1] = "\\" /\ <<"\\", c>>[2] = c
        BY <2>1, Literals, Zenon
    <2>3. Len(u) \in Nat
        OBVIOUS
    <2> QED BY <2>2, <2>3, Zenon
<1>2. /\ s \in Seq(Chars) /\ Len(s) = 2 + Len(u)
      /\ \A i \in 1..2 + Len(u) : s[i] = IF i <= 2 THEN a[i] ELSE u[i - 2]
    <2> HIDE DEF a
    <2>1. /\ s \in Seq(Chars) /\ Len(s) = Len(a) + Len(u)
          /\ \A i \in 1..Len(a) + Len(u) : s[i] = IF i <= Len(a) THEN a[i] ELSE u[i - Len(a)]
        BY <1>1, ConcatProperties
    <2> HIDE DEF s
    <2> QED BY <1>1, <2>1
<1> HIDE DEF s, a
<1>3. s[1] = "\\" /\ s[2] = c
    <2>1. 1 \in 1..2 + Len(u) /\ 2 \in 1..2 + Len(u)
        BY <1>1
    <2> QED BY <1>1, <1>2, <2>1
<1>4. PICK d : IsUnescape(d, s) /\ d[2 + 1] = Unescape(u)
    BY <1>1, UnescapeBehind DEF s
<1>5. Unescape(s) = UnescapeStep(s, 1, d)
    <2>1. 1 \in 1..Len(s) + 1
        BY <1>1, <1>2
    <2> QED BY <1>4, <2>1 DEF IsUnescape
<1>6. ~(1 > Len(s)) /\ 1 < Len(s) /\ 1 + 1 = 2 /\ 1 + 2 = 2 + 1
    BY <1>1, <1>2
<1>7. Unescape(s) = <<Unescaped(s[2])>> \o d[2 + 1]
    BY <1>3, <1>5, <1>6 DEF UnescapeStep
<1> QED BY <1>3, <1>4, <1>7 DEF s, a

(***************************************************************************)
(* What is escaped has no newline, and unescaping it gives the text again. *)
(***************************************************************************)
LEMMA EscapeRoundTrip ==
    ASSUME NEW s \in Seq(Chars)
    PROVE  /\ Escape(s) \in Seq(Chars)
           /\ \A i \in 1..Len(Escape(s)) : Escape(s)[i] # "\n"
           /\ Unescape(Escape(s)) = s
<1> DEFINE Clean(w) == \A i \in 1..Len(w) : w[i] # "\n"
           T == {t \in Seq(Chars) : /\ Escape(t) \in Seq(Chars) /\ Clean(Escape(t))
                                    /\ Unescape(Escape(t)) = t}
<1>1. <<>> \in T
    <2>1. <<>> \in Seq(Chars) /\ Clean(<<>>)
        OBVIOUS
    <2> HIDE DEF Clean
    <2> QED BY <2>1, EscapeEmpty, UnescapeEmpty
<1>2. ASSUME NEW c \in Chars, NEW t \in Seq(Chars), t \in T PROVE <<c>> \o t \in T
    <2> DEFINE e == EscapeChar(c)
               w == Escape(t)
    <2>1. w \in Seq(Chars) /\ Clean(w) /\ Unescape(w) = t
        BY <1>2
    <2>2. <<c>> \o t \in Seq(Chars) /\ Escape(<<c>> \o t) = e \o w
        BY EscapeCons, ConsAt
    <2>3. e \in Seq(Chars) /\ Len(e) \in Nat
        BY EscapeCharType
    <2>A. ASSUME NEW x \in Chars, NEW y \in Chars, x # "\n", y # "\n" PROVE Clean(<<x, y>>)
        <3>1. \A i \in 1..2 : i = 1 \/ i = 2
            OBVIOUS
        <3> QED BY <2>A, <3>1, PairAt
    <2>4. Clean(e) /\ Unescape(e \o w) = <<c>> \o t
        <3> HIDE DEF w
        <3>1. CASE c = "\n"
            <4>1. e = <<"\\", "n">> /\ Unescaped("n") = c
                BY <3>1 DEF EscapeChar, Unescaped
            <4>2. Clean(<<"\\", "n">>)
                BY <2>A, Literals
            <4>3. Unescape(<<"\\", "n">> \o w) = <<Unescaped("n")>> \o Unescape(w)
                BY <2>1, UnescapePair, Literals
            <4> QED BY <2>1, <4>1, <4>2, <4>3
        <3>2. CASE c = "\\"
            <4>1. e = <<"\\", "\\">> /\ Unescaped("\\") = c
                BY <3>2, Literals DEF EscapeChar, Unescaped
            <4>2. Clean(<<"\\", "\\">>)
                BY <2>A, Literals
            <4>3. Unescape(<<"\\", "\\">> \o w) = <<Unescaped("\\")>> \o Unescape(w)
                BY <2>1, UnescapePair, Literals
            <4> QED BY <2>1, <4>1, <4>2, <4>3
        <3>3. CASE c # "\n" /\ c # "\\"
            <4>1. e = <<c>>
                BY <3>3 DEF EscapeChar
            <4>2. Clean(<<c>>)
                BY <3>3
            <4>3. Unescape(<<c>> \o w) = <<c>> \o Unescape(w)
                BY <2>1, <3>3, UnescapePlain
            <4> QED BY <2>1, <4>1, <4>2, <4>3
        <3> QED BY <3>1, <3>2, <3>3
    <2> HIDE DEF e, w
    <2>5. e \o w \in Seq(Chars) /\ Clean(e \o w)
        <3>1. /\ e \o w \in Seq(Chars) /\ Len(e \o w) = Len(e) + Len(w) /\ Len(w) \in Nat
              /\ \A i \in 1..Len(e) + Len(w) :
                     (e \o w)[i] = IF i <= Len(e) THEN e[i] ELSE w[i - Len(e)]
            BY <2>1, <2>3, ConcatProperties
        <3>2. ASSUME NEW i \in 1..Len(e) + Len(w) PROVE (e \o w)[i] # "\n"
            <4>1. CASE i <= Len(e)
                BY <2>3, <2>4, <3>1, <4>1
            <4>2. CASE ~(i <= Len(e))
                <5>1. i - Len(e) \in 1..Len(w)
                    BY <2>3, <3>1, <4>2
                <5> QED BY <2>1, <3>1, <4>2, <5>1
            <4> QED BY <4>1, <4>2
        <3> QED BY <3>1, <3>2
    <2> QED BY <2>2, <2>4, <2>5
<1>3. Seq(Chars) \subseteq T
    <2> HIDE DEF T
    <2> QED BY <1>1, <1>2, ListInduction
<1> QED BY <1>3

(***************************************************************************)
(* Join, along the fields.                                                 *)
(***************************************************************************)
IsJoin(b, C, fields, sep) ==
    /\ b \in [1..Len(fields) -> Seq(C)]
    /\ Join(fields, sep) = b[1] /\ b[Len(fields)] = fields[Len(fields)]
    /\ \A i \in 1..Len(fields) - 1 : b[i] = fields[i] \o (<<sep>> \o b[i + 1])

LEMMA JoinFunction ==
    ASSUME NEW C, NEW sep \in C, NEW fields \in Fields(C)
    PROVE  \E b : IsJoin(b, C, fields, sep)
<1> DEFINE L == Len(fields)
           n == L - 1
           V == Seq(C)
           Fix(f) == f = [i \in 1 .. L |->
                              IF i = L THEN fields[i] ELSE fields[i] \o <<sep>> \o f[i + 1]]
           F == [p \in (1..n) \X V |-> fields[p[1]] \o (<<sep>> \o p[2])]
<1>1. /\ fields \in Seq(Seq(C)) /\ L \in Nat \ {0} /\ n \in Nat /\ n + 1 = L
      /\ fields[L] \in V /\ \A i \in 1..n : fields[i] \in V
    <2>1. fields \in Seq(Seq(C)) /\ fields # <<>>
        BY DEF Fields
    <2>2. L \in Nat \ {0}
        BY <2>1
    <2>3. L \in 1..L /\ n \in Nat /\ n + 1 = L /\ \A i \in 1..n : i \in 1..L
        BY <2>2
    <2> QED BY <2>1, <2>2, <2>3
<1>A. ASSUME NEW i \in 1..n, NEW v \in V
      PROVE  /\ fields[i] \o (<<sep>> \o v) \in V
             /\ fields[i] \o <<sep>> \o v = fields[i] \o (<<sep>> \o v)
    <2> DEFINE x == fields[i]
    <2>1. x \in Seq(C) /\ <<sep>> \in Seq(C) /\ <<sep>> \o v \in Seq(C) /\ v \in Seq(C)
        BY <1>1
    <2> HIDE DEF x
    <2>2. x \o (<<sep>> \o v) \in Seq(C)
        BY <2>1
    <2>3. x \o <<sep>> \o v = x \o (<<sep>> \o v)
        BY <2>1, ConcatAssociative, SMTT(30)
    <2> QED BY <2>2, <2>3 DEF x
<1>2. F \in [(1..n) \X V -> V]
    <2> HIDE DEF n, V
    <2> QED BY <1>A
<1>3. PICK f : IsStepwise(f, n, V, fields[L], F)
    <2> HIDE DEF F, n, V, L
    <2> QED BY <1>1, <1>2, StepRecursion
<1>4. Fix(f)
    <2>1. /\ f = [i \in 1..L |-> f[i]] /\ f[L] = fields[L]
          /\ \A i \in 1..n : f[i + 1] \in V /\ f[i] = F[<<i, f[i + 1]>>]
        <3> HIDE DEF F, n, V, L
        <3>1. \A i \in 1..n : i + 1 \in 1..n + 1
            BY <1>1
        <3> QED BY <1>1, <1>3, <3>1 DEF IsStepwise
    <2>2. \A i \in 1..n : f[i] = fields[i] \o (<<sep>> \o f[i + 1])
        <3> HIDE DEF n, V, L
        <3> QED BY <2>1
    <2>3. \A i \in 1..n : f[i] = fields[i] \o <<sep>> \o f[i + 1]
        BY <1>A, <2>1, <2>2
    <2>4. \A i \in 1..L : f[i] = IF i = L THEN fields[i] ELSE fields[i] \o <<sep>> \o f[i + 1]
        <3> HIDE DEF n, L
        <3>1. \A i \in 1..L : i = L \/ i \in 1..n
            BY <1>1
        <3> QED BY <2>1, <2>3, <3>1
    <2> QED BY <2>1, <2>4
<1> DEFINE b == CHOOSE g : Fix(g)
<1>5. Fix(b)
    BY <1>4
<1>6. Join(fields, sep) = b[1]
    BY DEF Join
<1> HIDE DEF b
<1>7. /\ b[L] = fields[L]
      /\ \A i \in 1..n : b[i] = fields[i] \o <<sep>> \o b[i + 1]
    <2> HIDE DEF n, L
    <2>1. L \in 1..L /\ \A i \in 1..n : i \in 1..L /\ i # L
        BY <1>1
    <2> QED BY <1>5, <2>1
<1>8. IsStepwise(b, n, V, fields[L], F)
    <2>1. \A i \in 1..n : b[i + 1] \in V => b[i] = F[<<i, b[i + 1]>>]
        <3> SUFFICES ASSUME NEW i \in 1..n, b[i + 1] \in V PROVE b[i] = F[<<i, b[i + 1]>>]
            OBVIOUS
        <3>1. b[i] = fields[i] \o (<<sep>> \o b[i + 1])
            BY <1>7, <1>A
        <3> HIDE DEF n, V, L
        <3> QED BY <3>1
    <2>2. b = [i \in 1..n + 1 |-> b[i]] /\ b[n + 1] = fields[L]
        BY <1>1, <1>5, <1>7
    <2> HIDE DEF F, n, V, L
    <2> QED BY <1>1, <1>2, <2>1, <2>2, StepTyped
<1>9. b \in [1..L -> V] /\ \A i \in 1..n : b[i] = fields[i] \o (<<sep>> \o b[i + 1])
    <2>1. b \in [1..L -> V] /\ \A i \in 1..n : b[i + 1] \in V
        <3>1. \A i \in 1..n : i + 1 \in 1..L
            BY <1>1
        <3> HIDE DEF n, V, L, F
        <3> QED BY <1>1, <1>8, <3>1 DEF IsStepwise
    <2> QED BY <1>7, <1>A, <2>1
<1> QED BY <1>6, <1>7, <1>9 DEF IsJoin

LEMMA JoinOne ==
    ASSUME NEW C, NEW sep \in C, NEW x \in Seq(C)
    PROVE  Join(<<x>>, sep) = x
<1>1. <<x>> \in Fields(C) /\ Len(<<x>>) = 1 /\ <<x>>[1] = x
    BY DEF Fields
<1>2. PICK b : IsJoin(b, C, <<x>>, sep)
    BY <1>1, JoinFunction
<1> QED BY <1>1, <1>2 DEF IsJoin

LEMMA JoinCons ==
    ASSUME NEW C, NEW sep \in C, NEW x \in Seq(C), NEW w \in Fields(C)
    PROVE  /\ Join(w, sep) \in Seq(C)
           /\ Join(<<x>> \o w, sep) = x \o (<<sep>> \o Join(w, sep))
<1> DEFINE s == <<x>> \o w
           n == Len(w)
<1>1. /\ s \in Fields(C) /\ Len(s) = n + 1 /\ s[1] = x /\ n \in Nat \ {0}
      /\ \A i \in 1..n : s[i + 1] = w[i]
    <2>1. w \in Seq(Seq(C)) /\ n \in Nat \ {0}
        BY DEF Fields
    <2>2. /\ s \in Seq(Seq(C)) /\ Len(s) = n + 1 /\ s[1] = x
          /\ \A i \in 1..n : s[i + 1] = w[i]
        BY <2>1, ConsAt
    <2> HIDE DEF s, n
    <2>3. s # <<>>
        BY <2>1, <2>2
    <2> QED BY <2>1, <2>2, <2>3 DEF Fields
<1> HIDE DEF s
<1>2. PICK b : IsJoin(b, C, w, sep)
    BY JoinFunction
<1>3. PICK d : IsJoin(d, C, s, sep)
    BY <1>1, JoinFunction
<1>4. /\ b[n] = w[n] /\ d[n + 1] = s[n + 1]
      /\ \A i \in 1..n - 1 : b[i] = w[i] \o (<<sep>> \o b[i + 1])
      /\ \A i \in 1..n : d[i] = s[i] \o (<<sep>> \o d[i + 1])
      /\ Join(w, sep) = b[1] /\ Join(s, sep) = d[1] /\ b[1] \in Seq(C)
    <2>1. (n + 1) - 1 = n /\ 1 \in 1..n
        BY <1>1
    <2> QED BY <1>1, <1>2, <1>3, <2>1 DEF IsJoin
<1> DEFINE T == {i \in 1..n : d[i + 1] = b[i]}
<1> HIDE DEF n
<1>5. ASSUME NEW i \in 1..n, (i + 1)..n \subseteq T PROVE i \in T
    <2>1. CASE i = n
        BY <1>1, <1>4, <2>1
    <2>2. CASE i # n
        <3>1. i \in 1..n - 1 /\ i + 1 \in (i + 1)..n /\ i + 1 \in 1..n
            BY <1>1, <2>2
        <3>2. d[(i + 1) + 1] = b[i + 1] /\ s[i + 1] = w[i]
            BY <1>1, <1>5, <3>1
        <3> QED BY <1>4, <3>1, <3>2
    <2> QED BY <2>1, <2>2
<1>6. 1 \in Nat /\ n \in Nat /\ 1 \in 1..n
    BY <1>1
<1>7. 1 \in T
    <2> HIDE DEF T
    <2> QED BY <1>5, <1>6, InductionDown
<1>8. d[1] = x \o (<<sep>> \o b[1])
    BY <1>1, <1>4, <1>6, <1>7
<1> QED BY <1>4, <1>8 DEF s

(***************************************************************************)
(* Splitting at the separators gives back the fields that were joined.     *)
(***************************************************************************)
Free(w, sep) == \A i \in 1..Len(w) : w[i] # sep

LEMMA FreeCons ==
    ASSUME NEW C, NEW c \in C, NEW x \in Seq(C), NEW sep, Free(<<c>> \o x, sep)
    PROVE  c # sep /\ Free(x, sep)
<1>1. /\ Len(<<c>> \o x) = Len(x) + 1 /\ (<<c>> \o x)[1] = c /\ Len(x) \in Nat
      /\ \A i \in 1..Len(x) : (<<c>> \o x)[i + 1] = x[i]
    BY ConsAt
<1>2. 1 \in 1..Len(x) + 1 /\ \A i \in 1..Len(x) : i + 1 \in 1..Len(x) + 1
    BY <1>1
<1> QED BY <1>1, <1>2 DEF Free

LEMMA SplitOne ==
    ASSUME NEW C, NEW x \in Seq(C), NEW sep, Free(x, sep)
    PROVE  Split(x, sep) = <<x>>
<1> DEFINE T == {t \in Seq(C) : Free(t, sep) => Split(t, sep) = <<t>>}
<1>1. <<>> \in T
    BY SplitEmpty
<1>2. ASSUME NEW c \in C, NEW t \in Seq(C), t \in T PROVE <<c>> \o t \in T
    <2>1. <<c>> \o t \in Seq(C)
        BY ConsAt
    <2>2. ASSUME Free(<<c>> \o t, sep) PROVE Split(<<c>> \o t, sep) = <<<<c>> \o t>>
        <3>1. c # sep /\ Free(t, sep)
            BY <2>2, FreeCons
        <3>2. Split(<<c>> \o t, sep) = SplitStep(c, sep, <<t>>)
            BY <1>2, <3>1, SplitCons
        <3>3. /\ <<>> \in Seq(Seq(C)) /\ <<t>> \o <<>> = <<t>>
              /\ <<<<c>> \o t>> \o <<>> = <<<<c>> \o t>>
            <4>1. \A z \in Seq(C) : <<z>> \in Seq(Seq(C))
                OBVIOUS
            <4> QED BY <2>1, <4>1, ConcatEmptySeq
        <3>4. SplitStep(c, sep, <<t>> \o <<>>) = <<<<c>> \o t>> \o <<>>
            <4> DEFINE r == <<>>
            <4>1. r \in Seq(Seq(C))
                BY <3>3
            <4> HIDE DEF r
            <4>2. SplitStep(c, sep, <<t>> \o r) = <<<<c>> \o t>> \o r
                <5>1. Head(<<t>> \o r) = t /\ Tail(<<t>> \o r) = r
                    BY <4>1, ConsAt
                <5> QED BY <3>1, <5>1 DEF SplitStep
            <4> QED BY <4>2 DEF r
        <3> QED BY <3>2, <3>3, <3>4
    <2> QED BY <2>1, <2>2
<1>3. Seq(C) \subseteq T
    <2> HIDE DEF T
    <2> QED BY <1>1, <1>2, ListInduction
<1> QED BY <1>3

LEMMA SplitFirst ==
    ASSUME NEW C, NEW x \in Seq(C), NEW sep \in C, Free(x, sep), NEW u \in Seq(C)
    PROVE  Split(x \o (<<sep>> \o u), sep) = <<x>> \o Split(u, sep)
<1> DEFINE v == <<sep>> \o u
           r == Split(u, sep)
           T == {t \in Seq(C) : Free(t, sep) => Split(t \o v, sep) = <<t>> \o r}
<1>0. v \in Seq(C) /\ r \in Seq(Seq(C))
    BY ConsAt, SplitCons DEF Fields
<1>1. <<>> \in T
    <2>1. <<>> \o v = v
        BY <1>0, ConcatEmptySeq
    <2>2. Split(v, sep) = << <<>> >> \o r
        BY SplitCons DEF SplitStep
    <2> HIDE DEF v, r
    <2> QED BY <2>1, <2>2
<1>2. ASSUME NEW c \in C, NEW t \in Seq(C), t \in T PROVE <<c>> \o t \in T
    <2>1. <<c>> \o t \in Seq(C) /\ <<c>> \in Seq(C) /\ t \o v \in Seq(C)
        BY <1>0, ConsAt
    <2>2. ASSUME Free(<<c>> \o t, sep) PROVE Split((<<c>> \o t) \o v, sep) = <<<<c>> \o t>> \o r
        <3>1. c # sep /\ Free(t, sep)
            BY <2>2, FreeCons
        <3>2. (<<c>> \o t) \o v = <<c>> \o (t \o v)
            BY <1>0, <2>1, ConcatAssociative, SMTT(30)
        <3> HIDE DEF v, r
        <3> DEFINE tv == t \o v
        <3>3. tv \in Seq(C) /\ Split(tv, sep) = <<t>> \o r
            BY <1>2, <2>1, <3>1
        <3> HIDE DEF tv
        <3> HIDE DEF T
        <3>4. Split(<<c>> \o tv, sep) = SplitStep(c, sep, Split(tv, sep))
            <4>1. tv \in Seq(C)
                BY <3>3
            <4> QED BY <4>1, SplitCons, ZenonT(40)
        <3>5. SplitStep(c, sep, <<t>> \o r) = <<<<c>> \o t>> \o r
            <4>1. c # sep /\ r \in Seq(Seq(C))
                BY <1>0, <3>1
            <4>2. Head(<<t>> \o r) = t /\ Tail(<<t>> \o r) = r
                BY <4>1, ConsAt
            <4> QED BY <4>1, <4>2 DEF SplitStep
        <3> QED BY <3>2, <3>3, <3>4, <3>5 DEF tv
    <2> QED BY <2>1, <2>2
<1>3. Seq(C) \subseteq T
    <2> HIDE DEF T
    <2> QED BY <1>1, <1>2, ListInduction
<1> QED BY <1>3

\* Fields that can be joined with the separator.
Joinable(w, C, sep) == w \in Fields(C) /\ \A i \in 1..Len(w) : Free(w[i], sep)

LEMMA JoinableCons ==
    ASSUME NEW C, NEW sep, NEW x \in Seq(C), NEW w \in Seq(Seq(C)),
           Joinable(<<x>> \o w, C, sep)
    PROVE  Free(x, sep) /\ (w # <<>> => Joinable(w, C, sep))
<1>1. /\ Len(<<x>> \o w) = Len(w) + 1 /\ (<<x>> \o w)[1] = x /\ Len(w) \in Nat
      /\ \A i \in 1..Len(w) : (<<x>> \o w)[i + 1] = w[i]
    BY ConsAt
<1>2. 1 \in 1..Len(w) + 1 /\ \A i \in 1..Len(w) : i + 1 \in 1..Len(w) + 1
    BY <1>1
<1> QED BY <1>1, <1>2 DEF Joinable, Fields

LEMMA SplitJoin ==
    ASSUME NEW C, NEW sep \in C, NEW w, Joinable(w, C, sep)
    PROVE  Join(w, sep) \in Seq(C) /\ Split(Join(w, sep), sep) = w
<1> DEFINE Good(t) == Join(t, sep) \in Seq(C) /\ Split(Join(t, sep), sep) = t
           T == {t \in Seq(Seq(C)) : Joinable(t, C, sep) => Good(t)}
<1>1. <<>> \in T
    BY DEF Joinable, Fields
<1>2. ASSUME NEW x \in Seq(C), NEW t \in Seq(Seq(C)), t \in T PROVE <<x>> \o t \in T
    <2>1. <<x>> \o t \in Seq(Seq(C))
        BY ConsAt
    <2>2. ASSUME Joinable(<<x>> \o t, C, sep) PROVE Good(<<x>> \o t)
        <3>1. Free(x, sep) /\ (t # <<>> => Joinable(t, C, sep))
            BY <2>2, JoinableCons
        <3>2. CASE t = <<>>
            <4>1. <<x>> \o t = <<x>>
                BY <3>2, ConcatEmptySeq, <<x>> \in Seq(Seq(C))
            <4> QED BY <3>1, <4>1, JoinOne, SplitOne
        <3>3. CASE t # <<>>
            <4>1. Good(t) /\ t \in Fields(C)
                BY <1>2, <3>1, <3>3 DEF Fields
            <4>2. Join(<<x>> \o t, sep) = x \o (<<sep>> \o Join(t, sep))
                BY <4>1, JoinCons
            <4>3. x \o (<<sep>> \o Join(t, sep)) \in Seq(C)
                BY <4>1, ConsAt, ConcatProperties
            <4>4. Split(x \o (<<sep>> \o Join(t, sep)), sep) = <<x>> \o t
                <5> DEFINE u == Join(t, sep)
                <5>1. u \in Seq(C) /\ Split(u, sep) = t
                    BY <4>1
                <5> HIDE DEF u
                <5>2. Split(x \o (<<sep>> \o u), sep) = <<x>> \o Split(u, sep)
                    BY <3>1, <5>1, SplitFirst
                <5> QED BY <5>1, <5>2 DEF u
            <4> QED BY <4>2, <4>3, <4>4
        <3> QED BY <3>2, <3>3
    <2> QED BY <2>1, <2>2
<1>3. Seq(Seq(C)) \subseteq T
    <2> HIDE DEF T
    <2> QED BY <1>1, <1>2, ListInduction
<1> QED BY <1>3 DEF Joinable, Fields

(***************************************************************************)
(* The wire: the other side reads the fields that were written.            *)
(***************************************************************************)
LEMMA SentIsRead ==
    ASSUME NEW fields \in Fields(Chars)
    PROVE  Sent(fields) = fields
<1> DEFINE e == [i \in DOMAIN fields |-> Escape(fields[i])]
           L == Len(fields)
           nl == "\n"
<1>1. /\ L \in Nat \ {0} /\ DOMAIN fields = 1..L /\ \A i \in 1..L : fields[i] \in Seq(Chars)
      /\ fields = [i \in 1..L |-> fields[i]]
    <2>1. fields \in Seq(Seq(Chars)) /\ fields # <<>>
        BY DEF Fields
    <2> QED BY <2>1
<1>2. nl \in Chars
    BY Literals, Zenon
<1>3. \A i \in 1..L : /\ Escape(fields[i]) \in Seq(Chars) /\ Free(Escape(fields[i]), nl)
                      /\ Unescape(Escape(fields[i])) = fields[i]
    BY <1>1, EscapeRoundTrip DEF Free
<1> HIDE DEF L
<1>4. e \in [1..L -> Seq(Chars)] /\ \A i \in 1..L : e[i] = Escape(fields[i])
    BY <1>1, <1>3
<1>5. e \in Seq(Seq(Chars)) /\ Len(e) = L /\ DOMAIN e = 1..L /\ e # <<>>
    <2> HIDE DEF e
    <2>1. e \in Seq(Seq(Chars)) /\ Len(e) = L /\ DOMAIN e = 1..L
        BY <1>1, <1>4
    <2>2. e # <<>>
        BY <1>1, <2>1
    <2> QED BY <2>1, <2>2
<1>6. Joinable(e, Chars, nl)
    <2> HIDE DEF e, nl
    <2> QED BY <1>3, <1>4, <1>5 DEF Joinable, Fields
<1>7. Split(Join(e, nl), nl) = e
    <2> HIDE DEF e, nl
    <2> QED BY <1>2, <1>6, SplitJoin
<1>8. Sent(fields) = [i \in DOMAIN e |-> Unescape(e[i])]
    <2>1. Sent(fields) = LET args == Split(Join(e, nl), nl)
                         IN [i \in DOMAIN args |-> Unescape(args[i])]
        BY DEF Sent, Decode, Encode
    <2> HIDE DEF e, nl
    <2> QED BY <1>7, <2>1
<1>9. [i \in DOMAIN e |-> Unescape(e[i])] = [i \in 1..L |-> fields[i]]
    <2> HIDE DEF e, nl
    <2> QED BY <1>3, <1>4, <1>5
<1> QED BY <1>1, <1>8, <1>9

(***************************************************************************)
(* Cutting a text that is put together from three pieces.                  *)
(***************************************************************************)
LEMMA SubSeqAt ==
    ASSUME NEW C, NEW w \in Seq(C), NEW o \in Nat \ {0}, NEW q \in Nat, q <= Len(w)
    PROVE  /\ SubSeq(w, o, q) \in Seq(C)
           /\ Len(SubSeq(w, o, q)) = IF o <= q THEN q - o + 1 ELSE 0
           /\ \A i \in 1..q - o + 1 : SubSeq(w, o, q)[i] = w[o + i - 1]
OBVIOUS

LEMMA Pieces ==
    ASSUME NEW C, NEW a \in Seq(C), NEW b \in Seq(C), NEW c \in Seq(C),
           NEW w, w = a \o (b \o c)
    PROVE  /\ w \in Seq(C) /\ Len(w) = Len(a) + (Len(b) + Len(c))
           /\ SubSeq(w, 1, Len(a)) = a
           /\ SubSeq(w, Len(a) + 1, Len(a) + Len(b)) = b
           /\ SubSeq(w, (Len(a) + Len(b)) + 1, Len(w)) = c
<1> DEFINE k == Len(a)
           m == Len(b)
           n == Len(c)
           d == b \o c
<1>1. /\ k \in Nat /\ m \in Nat /\ n \in Nat /\ d \in Seq(C) /\ Len(d) = m + n
      /\ \A i \in 1..m + n : d[i] = IF i <= m THEN b[i] ELSE c[i - m]
    BY ConcatProperties
<1> HIDE DEF d
<1>2. /\ w \in Seq(C) /\ Len(w) = k + (m + n)
      /\ \A i \in 1..k + (m + n) : w[i] = IF i <= k THEN a[i] ELSE d[i - k]
    <2>0. d \in Seq(C)
        BY <1>1
    <2>1. /\ a \o d \in Seq(C) /\ Len(a \o d) = k + Len(d)
          /\ \A i \in 1..k + Len(d) : (a \o d)[i] = IF i <= k THEN a[i] ELSE d[i - k]
        BY <2>0, ConcatProperties
    <2> QED BY <1>1, <2>1 DEF d
<1> HIDE DEF k, m, n
<1>3. /\ \A i \in 1..k : w[i] = a[i]
      /\ \A i \in 1..m : w[k + i] = b[i]
      /\ \A i \in 1..n : w[(k + m) + i] = c[i]
    <2>1. \A i \in 1..k : i \in 1..k + (m + n) /\ i <= k
        BY <1>1
    <2>2. \A i \in 1..m : /\ k + i \in 1..k + (m + n) /\ ~(k + i <= k) /\ (k + i) - k = i
                          /\ i \in 1..m + n /\ i <= m
        BY <1>1
    <2>3. \A i \in 1..n : /\ (k + m) + i \in 1..k + (m + n) /\ ~((k + m) + i <= k)
                          /\ ((k + m) + i) - k = m + i
                          /\ m + i \in 1..m + n /\ ~(m + i <= m) /\ (m + i) - m = i
        BY <1>1
    <2>4. \A i \in 1..k : w[i] = a[i]
        BY <1>2, <2>1
    <2>5. ASSUME NEW i \in 1..m PROVE w[k + i] = b[i]
        <3>1. w[k + i] = d[i]
            BY <1>2, <2>2
        <3>2. d[i] = b[i]
            BY <1>1, <2>2
        <3> QED BY <3>1, <3>2
    <2>6. ASSUME NEW i \in 1..n PROVE w[(k + m) + i] = c[i]
        <3>1. w[(k + m) + i] = d[m + i]
            BY <1>2, <2>3
        <3>2. d[m + i] = c[i]
            BY <1>1, <2>3
        <3> QED BY <3>1, <3>2
    <2> QED BY <2>4, <2>5, <2>6
<1>4. ASSUME NEW p \in Nat, NEW u \in Seq(C), NEW q \in Nat, p + Len(u) = q, q <= Len(w),
             \A i \in 1..Len(u) : w[p + i] = u[i]
      PROVE  SubSeq(w, p + 1, q) = u
    <2> DEFINE l == Len(u)
               x == SubSeq(w, p + 1, q)
    <2>1. l \in Nat
        BY LenProperties
    <2>2. /\ x \in Seq(C) /\ Len(x) = IF p + 1 <= q THEN q - (p + 1) + 1 ELSE 0
          /\ \A i \in 1..q - (p + 1) + 1 : x[i] = w[(p + 1) + i - 1]
        <3> DEFINE o == p + 1
        <3>1. o \in Nat \ {0} /\ q <= Len(w) /\ w \in Seq(C)
            BY <1>2, <1>4
        <3> HIDE DEF o
        <3>2. /\ SubSeq(w, o, q) \in Seq(C) /\ Len(SubSeq(w, o, q)) = IF o <= q THEN q - o + 1 ELSE 0
              /\ \A i \in 1..q - o + 1 : SubSeq(w, o, q)[i] = w[o + i - 1]
            BY <3>1, SubSeqAt, SMTT(30)
        <3> QED BY <3>2 DEF o
    <2> HIDE DEF x, l
    <2>3. Len(x) = l /\ \A i \in 1..l : i \in 1..q - (p + 1) + 1 /\ (p + 1) + i - 1 = p + i
        BY <1>4, <2>1, <2>2 DEF l
    <2>4. \A i \in 1..l : x[i] = u[i]
        BY <1>4, <2>2, <2>3 DEF l
    <2> QED BY <2>2, <2>3, <2>4, SeqEqual DEF l, x
<1>5. SubSeq(w, 1, k) = a
    <2>1. SubSeq(w, 0 + 1, k) = a
        <3>1. 0 + Len(a) = k /\ k <= Len(w) /\ \A i \in 1..Len(a) : w[0 + i] = a[i]
            <4>1. \A i \in 1..k : 0 + i = i
                BY <1>1
            <4> QED BY <1>1, <1>2, <1>3, <4>1 DEF k
        <3>2. 0 \in Nat /\ k \in Nat
            BY <1>1
        <3> QED BY <1>4, <3>1, <3>2
    <2>2. 0 + 1 = 1
        OBVIOUS
    <2> QED BY <2>1, <2>2
<1>6. SubSeq(w, k + 1, k + m) = b
    <2>1. k + Len(b) = k + m /\ k + m <= Len(w) /\ k + m \in Nat
        BY <1>1, <1>2 DEF m
    <2>2. \A i \in 1..Len(b) : w[k + i] = b[i]
        BY <1>3 DEF m
    <2> QED BY <1>1, <1>4, <2>1, <2>2
<1>7. SubSeq(w, (k + m) + 1, Len(w)) = c
    <2>1. (k + m) + Len(c) = Len(w) /\ Len(w) <= Len(w) /\ Len(w) \in Nat /\ k + m \in Nat
        BY <1>1, <1>2 DEF n
    <2>2. \A i \in 1..Len(c) : w[(k + m) + i] = c[i]
        BY <1>3 DEF n
    <2> QED BY <1>4, <2>1, <2>2
<1> QED BY <1>2, <1>5, <1>6, <1>7 DEF k, m, n

(***************************************************************************)
(* Joining two lists of fields.                                            *)
(***************************************************************************)
LEMMA JoinTyped ==
    ASSUME NEW C, NEW sep \in C, NEW w \in Fields(C)
    PROVE  Join(w, sep) \in Seq(C)
<1>1. <<>> \in Seq(C)
    OBVIOUS
<1> QED BY <1>1, JoinCons

LEMMA JoinConcat ==
    ASSUME NEW C, NEW sep \in C, NEW a \in Fields(C), NEW w \in Fields(C)
    PROVE  /\ a \o w \in Fields(C)
           /\ Join(a \o w, sep) = Join(a, sep) \o (<<sep>> \o Join(w, sep))
<1> DEFINE jw == Join(w, sep)
           v == <<sep>> \o jw
           T == {t \in Seq(Seq(C)) : t # <<>> => Join(t \o w, sep) = Join(t, sep) \o v}
<1>1. jw \in Seq(C) /\ v \in Seq(C) /\ w \in Seq(Seq(C)) /\ w # <<>> /\ a \in Seq(Seq(C)) /\ a # <<>>
    <2>1. jw \in Seq(C)
        BY JoinTyped
    <2> HIDE DEF jw
    <2> QED BY <2>1, ConsAt DEF Fields
<1>A. ASSUME NEW t \in Seq(Seq(C)) PROVE t \o w \in Fields(C)
    <2>1. t \o w \in Seq(Seq(C)) /\ Len(t \o w) = Len(t) + Len(w)
        BY <1>1, ConcatProperties
    <2>2. Len(w) # 0 /\ Len(w) \in Nat /\ Len(t) \in Nat
        BY <1>1
    <2>3. t \o w # <<>>
        BY <2>1, <2>2
    <2> QED BY <2>1, <2>3 DEF Fields
<1> HIDE DEF v, jw
<1>2. ASSUME NEW x \in Seq(C), NEW t \in Seq(Seq(C)), t \in T PROVE <<x>> \o t \in T
    <2>1. <<x>> \o t \in Seq(Seq(C)) /\ <<x>> \in Seq(Seq(C))
        BY ConsAt
    <2>2. (<<x>> \o t) \o w = <<x>> \o (t \o w)
        <3>1. w \in Seq(Seq(C)) /\ <<x>> \in Seq(Seq(C))
            BY <1>1, <2>1
        <3> HIDE DEF T
        <3> QED BY <3>1, ConcatAssociative, SMTT(30)
    <2> DEFINE tw == t \o w
    <2>3. tw \in Fields(C)
        BY <1>A
    <2>4. CASE t = <<>>
        <3>1. <<x>> \o t = <<x>>
            BY <2>1, <2>4, ConcatEmptySeq
        <3>2. Join(<<x>> \o w, sep) = x \o v
            BY JoinCons DEF v, jw
        <3>3. Join(<<x>>, sep) = x
            BY JoinOne
        <3> QED BY <2>1, <3>1, <3>2, <3>3
    <2>5. CASE t # <<>>
        <3> DEFINE jt == Join(t, sep)
        <3>1. t \in Fields(C) /\ Join(tw, sep) = jt \o v
            BY <1>2, <2>5 DEF Fields
        <3> HIDE DEF tw
        <3>2. Join(<<x>> \o tw, sep) = x \o (<<sep>> \o Join(tw, sep))
            BY <2>3, JoinCons
        <3>3. Join(<<x>> \o t, sep) = x \o (<<sep>> \o jt) /\ jt \in Seq(C)
            BY <3>1, JoinCons
        <3> HIDE DEF jt
        <3>4. <<sep>> \in Seq(C) /\ <<sep>> \o jt \in Seq(C)
            BY <3>3, ConsAt
        <3>5. <<sep>> \o (jt \o v) = (<<sep>> \o jt) \o v
            <4>1. v \in Seq(C) /\ jt \in Seq(C) /\ <<sep>> \in Seq(C)
                BY <1>1, <3>3, <3>4
            <4> HIDE DEF T
            <4> QED BY <4>1, ConcatAssociative, SMTT(30)
        <3>6. x \o ((<<sep>> \o jt) \o v) = (x \o (<<sep>> \o jt)) \o v
            <4> DEFINE y == <<sep>> \o jt
            <4>1. y \in Seq(C) /\ v \in Seq(C)
                BY <1>1, <3>4
            <4> HIDE DEF y, T
            <4>2. x \o (y \o v) = (x \o y) \o v
                BY <4>1, ConcatAssociative, SMTT(30)
            <4> QED BY <4>2 DEF y
        <3>7. Join((<<x>> \o t) \o w, sep) = Join(<<x>> \o t, sep) \o v
            BY <2>2, <3>1, <3>2, <3>3, <3>5, <3>6 DEF tw
        <3> QED BY <2>1, <3>7
    <2> QED BY <2>4, <2>5
<1>3. <<>> \in T
    OBVIOUS
<1>4. Seq(Seq(C)) \subseteq T
    <2> HIDE DEF T
    <2> QED BY <1>2, <1>3, ListInduction
<1>5. Join(a \o w, sep) = Join(a, sep) \o v
    BY <1>1, <1>4
<1> QED BY <1>1, <1>5, <1>A DEF v, jw

(***************************************************************************)
(* Byte strings: the text of a list, and the list of a text.               *)
(***************************************************************************)
Names == Elements \cup Keys

Text(l) == IF l = <<>> THEN <<>> ELSE Join(l, Comma)

LEMMA NameProperties ==
    ASSUME NEW e \in Names
    PROVE  e \in Seq(Chars) /\ e # <<>> /\ Len(e) \in Nat \ {0} /\ Free(e, Comma)
<1>1. e \in Seq(Chars) /\ e # <<>> /\ Comma \notin Range(e)
    BY ProtocolAssumption DEF Names
<1>2. Len(e) \in Nat \ {0} /\ DOMAIN e = 1..Len(e)
    BY <1>1
<1> QED BY <1>1, <1>2 DEF Free, Range

LEMMA NamesJoinable ==
    ASSUME NEW l \in Seq(Names), l # <<>>
    PROVE  Joinable(l, Chars, Comma) /\ l \in Fields(Chars) /\ Text(l) = Join(l, Comma)
<1>1. \A i \in 1..Len(l) : l[i] \in Names
    OBVIOUS
<1>2. \A i \in 1..Len(l) : l[i] \in Seq(Chars) /\ Free(l[i], Comma)
    BY <1>1, NameProperties
<1>3. l \in Seq(Seq(Chars))
    BY <1>2
<1> QED BY <1>2, <1>3 DEF Joinable, Fields, Text

LEMMA ListOfText ==
    ASSUME NEW l \in Seq(Names)
    PROVE  Text(l) \in Seq(Chars) /\ List(Text(l)) = l /\ (Text(l) = <<>> <=> l = <<>>)
<1>1. CASE l = <<>>
    BY <1>1 DEF Text, List
<1>2. CASE l # <<>>
    <2> DEFINE sep == Comma
    <2>1. Joinable(l, Chars, sep) /\ Text(l) = Join(l, sep) /\ sep \in Chars
        BY <1>2, NamesJoinable, Literals, Zenon
    <2>2. Text(l) \in Seq(Chars) /\ Split(Text(l), sep) = l
        <3> HIDE DEF sep
        <3> QED BY <2>1, SplitJoin
    <2>3. Text(l) # <<>>
        <3> SUFFICES ASSUME Text(l) = <<>> PROVE FALSE
            OBVIOUS
        <3>1. l = << <<>> >>
            BY <2>2, SplitEmpty
        <3>2. l[1] \in Names /\ l[1] = <<>>
            BY <3>1
        <3> QED BY <3>2, NameProperties
    <2> QED BY <1>2, <2>2, <2>3 DEF List
<1> QED BY <1>1, <1>2

LEMMA TextSplit ==
    ASSUME NEW l \in Seq(Names), l # <<>>
    PROVE  Split(Text(l), Comma) = l
<1>1. List(Text(l)) = l /\ Text(l) # <<>>
    BY ListOfText
<1> QED BY <1>1 DEF List

LEMMA TextOne ==
    ASSUME NEW e \in Names
    PROVE  Text(<<e>>) = e
<1>1. e \in Seq(Chars) /\ <<e>> # <<>> /\ Comma \in Chars
    BY NameProperties, Literals
<1> QED BY <1>1, JoinOne DEF Text

LEMMA TextConcat ==
    ASSUME NEW a \in Seq(Names), NEW b \in Seq(Names), a # <<>>, b # <<>>
    PROVE  Text(a \o b) = Text(a) \o (<<Comma>> \o Text(b))
<1> DEFINE sep == Comma
<1>1. /\ a \in Fields(Chars) /\ Text(a) = Join(a, sep)
      /\ b \in Fields(Chars) /\ Text(b) = Join(b, sep) /\ sep \in Chars
    BY NamesJoinable, Literals, Zenon
<1>2. a \o b \in Fields(Chars) /\ Join(a \o b, sep) = Join(a, sep) \o (<<sep>> \o Join(b, sep))
    <2> HIDE DEF sep
    <2> QED BY <1>1, JoinConcat
<1>3. a \o b # <<>>
    BY <1>2 DEF Fields
<1> QED BY <1>1, <1>2, <1>3, Zenon DEF Text

(***************************************************************************)
(* csv_append and csv_prepend.                                             *)
(***************************************************************************)
LEMMA CommaType ==
    <<Comma>> \in Seq(Chars) /\ Len(<<Comma>>) = 1
<1>1. \A x \in Chars : <<x>> \in Seq(Chars) /\ Len(<<x>>) = 1
    OBVIOUS
<1> QED BY <1>1, Literals, Zenon

LEMMA CsvExtendAppends ==
    ASSUME NEW l \in Seq(Names), NEW e \in Names
    PROVE  CsvExtend(Text(l), e, FALSE) = Text(Append(l, e))
<1>1. <<e>> \in Seq(Names) /\ <<e>> # <<>> /\ Append(l, e) = l \o <<e>>
    BY AppendIsConcat
<1>2. CASE l = <<>>
    <2>1. Text(l) = <<>> /\ l \o <<e>> = <<e>>
        BY <1>1, <1>2, ListOfText, ConcatEmptySeq
    <2> QED BY <1>1, <2>1, TextOne DEF CsvExtend
<1>3. CASE l # <<>>
    <2>1. Text(l \o <<e>>) = Text(l) \o (<<Comma>> \o Text(<<e>>))
        BY <1>1, <1>3, TextConcat
    <2>2. Text(<<e>>) = e /\ e \in Seq(Chars) /\ Text(l) \in Seq(Chars) /\ Text(l) # <<>>
        BY <1>3, TextOne, NameProperties, ListOfText
    <2>3. Text(l) \o (<<Comma>> \o e) = (Text(l) \o <<Comma>>) \o e
        <3> DEFINE t == Text(l)
                   s == <<Comma>>
        <3>1. t \in Seq(Chars) /\ s \in Seq(Chars) /\ e \in Seq(Chars)
            BY <2>2, CommaType
        <3> HIDE DEF t, s
        <3>2. t \o (s \o e) = (t \o s) \o e
            BY <3>1, ConcatAssociative, SMTT(30)
        <3> QED BY <3>2 DEF t, s
    <2>4. CsvExtend(Text(l), e, FALSE) = (Text(l) \o <<Comma>>) \o e
        BY <2>2 DEF CsvExtend
    <2> QED BY <1>1, <2>1, <2>2, <2>3, <2>4
<1> QED BY <1>2, <1>3

LEMMA CsvExtendPrepends ==
    ASSUME NEW l \in Seq(Names), NEW e \in Names
    PROVE  CsvExtend(Text(l), e, TRUE) = Text(<<e>> \o l)
<1>1. <<e>> \in Seq(Names) /\ <<e>> # <<>>
    OBVIOUS
<1>2. CASE l = <<>>
    <2>1. Text(l) = <<>> /\ <<e>> \o l = <<e>>
        BY <1>1, <1>2, ListOfText, ConcatEmptySeq
    <2> QED BY <2>1, TextOne DEF CsvExtend
<1>3. CASE l # <<>>
    <2>1. Text(<<e>> \o l) = Text(<<e>>) \o (<<Comma>> \o Text(l))
        BY <1>1, <1>3, TextConcat
    <2>2. Text(<<e>>) = e /\ e \in Seq(Chars) /\ Text(l) \in Seq(Chars) /\ Text(l) # <<>>
        BY <1>3, TextOne, NameProperties, ListOfText
    <2>3. e \o (<<Comma>> \o Text(l)) = (e \o <<Comma>>) \o Text(l)
        <3> DEFINE t == Text(l)
                   s == <<Comma>>
        <3>1. t \in Seq(Chars) /\ s \in Seq(Chars) /\ e \in Seq(Chars)
            BY <2>2, CommaType
        <3> HIDE DEF t, s
        <3>2. e \o (s \o t) = (e \o s) \o t
            BY <3>1, ConcatAssociative, SMTT(30)
        <3> QED BY <3>2 DEF t, s
    <2>4. CsvExtend(Text(l), e, TRUE) = (e \o <<Comma>>) \o Text(l)
        BY <2>2 DEF CsvExtend
    <2> QED BY <2>1, <2>2, <2>3, <2>4
<1> QED BY <1>2, <1>3

(***************************************************************************)
(* csv_pop.                                                                *)
(***************************************************************************)
LEMMA CsvPopTakesHead ==
    ASSUME NEW l \in Seq(Names), l # <<>>
    PROVE  FirstValue(Text(l)) = Head(l) /\ CsvPop(Text(l)) = Text(Tail(l))
<1> DEFINE h == Head(l)
           t == Tail(l)
           v == Text(l)
<1>1. h \in Names /\ t \in Seq(Names) /\ l = <<h>> \o t
    OBVIOUS
<1>2. FirstValue(v) = h
    BY TextSplit DEF FirstValue
<1>3. h \in Seq(Chars) /\ Len(h) \in Nat
    BY <1>1, NameProperties
<1> HIDE DEF h, t, v
<1>4. CsvPop(v) = SubSeq(v, Len(h) + 2, Len(v))
    BY <1>2 DEF CsvPop
<1>5. CASE t = <<>>
    <2>1. l = <<h>>
        <3>1. <<h>> \in Seq(Names)
            BY <1>1
        <3> QED BY <1>1, <1>5, <3>1, ConcatEmptySeq
    <2>2. v = h
        BY <1>1, <2>1, TextOne DEF v
    <2>3. Len(h) + 2 \in Int /\ Len(h) \in Int /\ Len(h) < Len(h) + 2
        BY <1>3
    <2>4. SubSeq(v, Len(h) + 2, Len(v)) = <<>>
        BY <2>2, <2>3, SubSeqEmpty
    <2> QED BY <1>2, <1>4, <1>5, <2>4 DEF Text, h, t, v
<1>6. CASE t # <<>>
    <2>1. v = h \o (<<Comma>> \o Text(t))
        <3>1. <<h>> \in Seq(Names) /\ <<h>> # <<>> /\ Text(<<h>>) = h
            BY <1>1, TextOne
        <3>2. Text(<<h>> \o t) = Text(<<h>>) \o (<<Comma>> \o Text(t))
            BY <1>1, <1>6, <3>1, TextConcat
        <3> QED BY <1>1, <3>1, <3>2 DEF v
    <2>2. Text(t) \in Seq(Chars) /\ <<Comma>> \in Seq(Chars) /\ Len(<<Comma>>) = 1
        BY <1>1, ListOfText, CommaType
    <2>3. SubSeq(v, (Len(h) + Len(<<Comma>>)) + 1, Len(v)) = Text(t)
        <3> DEFINE s == <<Comma>>
                   u == Text(t)
        <3>1. h \in Seq(Chars) /\ s \in Seq(Chars) /\ u \in Seq(Chars) /\ v = h \o (s \o u)
            BY <1>3, <2>1, <2>2
        <3> HIDE DEF s, u
        <3>2. SubSeq(v, (Len(h) + Len(s)) + 1, Len(v)) = u
            BY <3>1, Pieces
        <3> QED BY <3>2 DEF s, u
    <2>4. (Len(h) + Len(<<Comma>>)) + 1 = Len(h) + 2
        BY <1>3, <2>2
    <2> QED BY <1>2, <1>4, <2>3, <2>4 DEF h, t, v
<1> QED BY <1>5, <1>6

(***************************************************************************)
(* csv_search_delete: the text before and behind an element.               *)
(***************************************************************************)
Before(a) == IF a = <<>> THEN <<>> ELSE Text(a) \o <<Comma>>
Behind(b) == IF b = <<>> THEN <<>> ELSE <<Comma>> \o Text(b)

LEMMA TextBetween ==
    ASSUME NEW a \in Seq(Names), NEW b \in Seq(Names), b # <<>>
    PROVE  Before(a) \in Seq(Chars) /\ Text(a \o b) = Before(a) \o Text(b)
<1> DEFINE s == <<Comma>>
           ta == Text(a)
           tb == Text(b)
<1>1. ta \in Seq(Chars) /\ tb \in Seq(Chars) /\ s \in Seq(Chars) /\ <<>> \in Seq(Chars)
    BY ListOfText, CommaType
<1>2. CASE a = <<>>
    <2>1. a \o b = b /\ Before(a) = <<>>
        BY <1>2, ConcatEmptySeq DEF Before
    <2> HIDE DEF tb
    <2>2. <<>> \o tb = tb
        BY <1>1, ConcatEmptySeq
    <2> QED BY <1>1, <2>1, <2>2 DEF tb
<1>3. CASE a # <<>>
    <2>1. Text(a \o b) = ta \o (s \o tb) /\ Before(a) = ta \o s
        BY <1>3, TextConcat DEF Before
    <2> HIDE DEF ta, tb, s
    <2>2. (ta \o s) \o tb = ta \o (s \o tb)
        <3>1. ta \in Seq(Chars) /\ s \in Seq(Chars) /\ tb \in Seq(Chars)
            BY ONLY <1>1
        <3> QED BY ONLY <3>1, ConcatAssociative, SMTT(30)
    <2>3. ta \o s \in Seq(Chars)
        BY ONLY <1>1, ConcatProperties
    <2> QED BY <2>1, <2>2, <2>3 DEF tb
<1> QED BY <1>2, <1>3

LEMMA TextAround ==
    ASSUME NEW x \in Names, NEW b \in Seq(Names)
    PROVE  Behind(b) \in Seq(Chars) /\ Text(<<x>> \o b) = x \o Behind(b)
<1>1. <<x>> \in Seq(Names) /\ <<x>> # <<>> /\ Text(<<x>>) = x /\ x \in Seq(Chars)
    BY TextOne, NameProperties
<1>2. CASE b = <<>>
    <2>1. <<x>> \o b = <<x>> /\ Behind(b) = <<>> /\ x \o <<>> = x
        BY <1>1, <1>2, ConcatEmptySeq DEF Behind
    <2>2. <<>> \in Seq(Chars)
        OBVIOUS
    <2> QED BY <1>1, <2>1, <2>2
<1>3. CASE b # <<>>
    <2>1. Text(<<x>> \o b) = x \o (<<Comma>> \o Text(b)) /\ Behind(b) = <<Comma>> \o Text(b)
        BY <1>1, <1>3, TextConcat DEF Behind
    <2>2. Text(b) \in Seq(Chars) /\ Comma \in Chars
        BY ListOfText, Literals
    <2> DEFINE tb == Text(b)
    <2>3. <<Comma>> \o tb \in Seq(Chars)
        <3> HIDE DEF tb
        <3> QED BY <2>2, ConsAt DEF tb
    <2> QED BY <2>1, <2>3
<1> QED BY <1>2, <1>3

\* An element stands in a text at a place.
StandsAt(v, i, a, x, b) ==
    /\ a \in Seq(Names) /\ x \in Names /\ b \in Seq(Names)
    /\ v = Text(a \o (<<x>> \o b)) /\ i = Len(Before(a)) + 1

LEMMA ErasedAround ==
    ASSUME NEW v, NEW i, NEW a, NEW x, NEW b, StandsAt(v, i, a, x, b), NEW e, Len(e) = Len(x)
    PROVE  /\ i + Len(e) - 1 <= Len(v) /\ SubSeq(v, i, i + Len(e) - 1) = x
           /\ EraseAt(v, e, i) = Text(a \o b)
<1>0. /\ a \in Seq(Names) /\ x \in Names /\ b \in Seq(Names)
      /\ v = Text(a \o (<<x>> \o b)) /\ i = Len(Before(a)) + 1
    BY DEF StandsAt
<1> DEFINE n == Len(x)
           p == Before(a)
           k == Len(p)
           s == <<Comma>>
           tb == Text(b)
           ta == Text(a)
           bb == Behind(b)
<1>1. x \in Seq(Chars) /\ s \in Seq(Chars) /\ ta \in Seq(Chars) /\ tb \in Seq(Chars)
    BY <1>0, NameProperties, CommaType, ListOfText
<1>N. n \in Nat \ {0} /\ Len(s) = 1
    BY <1>0, NameProperties, CommaType
<1>2. bb \in Seq(Chars) /\ Text(<<x>> \o b) = x \o bb
    BY <1>0, TextAround
<1>3. p \in Seq(Chars) /\ v = p \o (x \o bb)
    <2> DEFINE w == <<x>> \o b
    <2>1. w \in Seq(Names) /\ w # <<>>
        <3>1. w \in Seq(Names) /\ Len(w) = Len(b) + 1 /\ Len(b) \in Nat
            BY <1>0, ConsAt
        <3> QED BY <3>1
    <2> HIDE DEF w
    <2>2. Before(a) \in Seq(Chars) /\ Text(a \o w) = Before(a) \o Text(w)
        BY <1>0, <2>1, TextBetween
    <2> QED BY <1>0, <1>2, <2>2 DEF w
<1> HIDE DEF n, p, k, s, tb, ta, bb
<1>4. k \in Nat /\ Len(bb) \in Nat
    BY <1>2, <1>3 DEF k
<1>5. i = k + 1 /\ i + Len(e) - 1 = k + n /\ Len(e) = n
    BY <1>0, <1>N, <1>4 DEF k, n, p
<1>6. v \in Seq(Chars) /\ Len(v) = k + (n + Len(bb)) /\ SubSeq(v, k + 1, k + n) = x
    BY ONLY <1>1, <1>2, <1>3, Pieces DEF k, n
<1>7. i + Len(e) - 1 <= Len(v) /\ SubSeq(v, i, i + Len(e) - 1) = x
    BY ONLY <1>N, <1>4, <1>5, <1>6
<1>8. CASE b # <<>>
    <2>1. bb = s \o tb /\ Len(bb) = 1 + Len(tb) /\ Len(tb) \in Nat
        <3>1. bb = s \o tb
            BY <1>8 DEF bb, Behind, s, tb
        <3>2. Len(s \o tb) = Len(s) + Len(tb) /\ Len(tb) \in Nat
            BY ONLY <1>1, ConcatProperties, LenProperties
        <3> QED BY ONLY <1>N, <3>1, <3>2
    <2>2. x \o (s \o tb) = (x \o s) \o tb /\ x \o s \in Seq(Chars) /\ Len(x \o s) = n + 1
        <3>1. (x \o s) \o tb = x \o (s \o tb)
            <4>1. x \in Seq(Chars) /\ s \in Seq(Chars) /\ tb \in Seq(Chars)
                BY ONLY <1>1
            <4> QED BY ONLY <4>1, ConcatAssociative, SMTT(30)
        <3>2. x \o s \in Seq(Chars) /\ Len(x \o s) = n + Len(s)
            BY ONLY <1>1, ConcatProperties DEF n
        <3> QED BY ONLY <1>N, <3>1, <3>2
    <2> DEFINE y == x \o s
    <2>3. y \in Seq(Chars) /\ Len(y) = n + 1 /\ v = p \o (y \o tb)
        BY <1>3, <2>1, <2>2
    <2> HIDE DEF y
    <2>4. SubSeq(v, 1, k) = p /\ SubSeq(v, (k + (n + 1)) + 1, Len(v)) = tb
        <3>1. SubSeq(v, 1, k) = p /\ SubSeq(v, (k + Len(y)) + 1, Len(v)) = tb
            <4>1. p \in Seq(Chars) /\ y \in Seq(Chars) /\ tb \in Seq(Chars)
                BY ONLY <1>1, <1>3, <2>3
            <4>2. v = p \o (y \o tb)
                BY ONLY <2>3
            <4> QED BY ONLY <4>1, <4>2, Pieces DEF k
        <3> QED BY ONLY <2>3, <3>1
    <2>5. i - 1 = k /\ (i + Len(e)) + 1 = (k + (n + 1)) + 1
        BY ONLY <1>N, <1>4, <1>5
    <2>6. i + Len(e) - 1 < Len(v)
        <3>1. k + n < k + (n + Len(bb))
            BY ONLY <1>N, <1>4, <2>1
        <3> QED BY ONLY <1>5, <1>6, <3>1
    <2>7. EraseAt(v, e, i) = Cut(v, i, i + Len(e))
        BY <2>6 DEF EraseAt
    <2>8. Cut(v, i, i + Len(e)) = p \o tb
        BY <2>4, <2>5 DEF Cut
    <2>9. Text(a \o b) = p \o tb
        BY <1>0, <1>8, TextBetween DEF p, tb
    <2> QED BY <1>7, <2>7, <2>8, <2>9
<1>9. CASE b = <<>>
    <2>1. bb = <<>> /\ Len(bb) = 0 /\ a \o b = a
        BY <1>0, <1>9, ConcatEmptySeq DEF bb, Behind
    <2>2. i + Len(e) - 1 = Len(v) /\ ~(i + Len(e) - 1 < Len(v))
        <3>1. k + n = k + (n + Len(bb)) /\ ~(k + n < k + n)
            BY ONLY <1>N, <1>4, <2>1
        <3> QED BY ONLY <1>5, <1>6, <3>1
    <2>3. x \o bb = x
        BY <1>1, <2>1, ConcatEmptySeq
    <2>4. CASE a = <<>>
        <3>1. k = 0 /\ Text(a \o b) = <<>>
            BY <2>1, <2>4 DEF k, p, Before, Text
        <3>2. ~(Len(e) < Len(v))
            BY <1>N, <1>5, <1>6, <2>1, <3>1
        <3>3. EraseAt(v, e, i) = <<>>
            BY <2>2, <3>2 DEF EraseAt
        <3> QED BY <1>7, <3>1, <3>3
    <2>5. CASE a # <<>>
        <3>1. p = ta \o s
            BY <2>5 DEF p, Before, ta, s
        <3>2. k = Len(ta) + 1 /\ Len(ta) \in Nat
            <4>1. Len(ta \o s) = Len(ta) + Len(s) /\ Len(ta) \in Nat
                BY ONLY <1>1, ConcatProperties, LenProperties
            <4> QED BY ONLY <1>N, <3>1, <4>1 DEF k
        <3>3. v = ta \o (s \o x)
            <4>1. v = (ta \o s) \o x
                BY <1>3, <2>3, <3>1
            <4>2. (ta \o s) \o x = ta \o (s \o x)
                <5>1. ta \in Seq(Chars) /\ s \in Seq(Chars) /\ x \in Seq(Chars)
                    BY ONLY <1>1
                <5> QED BY ONLY <5>1, ConcatAssociative, SMTT(30)
            <4> QED BY ONLY <4>1, <4>2
        <3>4. SubSeq(v, 1, Len(ta)) = ta
            BY ONLY <1>1, <3>3, Pieces
        <3>5. Len(e) < Len(v) /\ (i - 1) - 1 = Len(ta) /\ Len(v) \in Nat
            BY ONLY <1>N, <1>4, <1>5, <1>6, <2>1, <3>2
        <3>6. EraseAt(v, e, i) = Cut(v, i - 1, Len(v))
            BY <2>2, <3>5 DEF EraseAt
        <3>7. SubSeq(v, Len(v) + 1, Len(v)) = <<>>
            <4> DEFINE m == Len(v)
            <4>1. m \in Int /\ m + 1 \in Int /\ m < m + 1
                BY <3>5
            <4> HIDE DEF m
            <4>2. SubSeq(v, m + 1, m) = <<>>
                BY <4>1, SubSeqEmpty
            <4> QED BY <4>2 DEF m
        <3>8. Cut(v, i - 1, Len(v)) = ta \o <<>>
            BY <3>4, <3>5, <3>7 DEF Cut
        <3>9. ta \o <<>> = ta
            BY <1>1, ConcatEmptySeq
        <3> QED BY <1>7, <2>1, <3>6, <3>8, <3>9 DEF ta
    <2> QED BY <2>4, <2>5
<1> QED BY <1>8, <1>9

(***************************************************************************)
(* Multiples of a stride.                                                  *)
(***************************************************************************)
LEMMA Multiples ==
    ASSUME NEW m \in Nat, NEW N \in Nat
    PROVE  (m + 1) * N = m * N + N /\ 1 * N = N /\ 0 * N = 0 /\ m * N \in Nat
OBVIOUS

LEMMA MultiplesOrder ==
    ASSUME NEW k \in Nat, NEW q \in Nat, NEW N \in Nat \ {0}
    PROVE  k <= q <=> k * N <= q * N
<1>1. k <= q => k * N <= q * N
    OBVIOUS
<1>2. k * N <= q * N => k <= q
    OBVIOUS
<1> QED BY <1>1, <1>2

LEMMA NoRemainder ==
    ASSUME NEW i \in Nat, NEW N \in Nat \ {0}, i % N = 0
    PROVE  i \div N \in Nat /\ i = (i \div N) * N
OBVIOUS

LEMMA MultipleRemainder ==
    ASSUME NEW q \in Nat, NEW N \in Nat \ {0}
    PROVE  (q * N) % N = 0
<1> DEFINE x == q * N
           d == x \div N
           r == x % N
<1>1. x \in Nat /\ d \in Nat /\ r \in 0..N - 1 /\ x = N * d + r
    OBVIOUS
<1>2. (q - d) * N = r
    BY <1>1
<1>3. CASE q - d >= 1
    BY <1>1, <1>2, <1>3
<1>4. CASE q - d <= 0 - 1
    BY <1>1, <1>2, <1>4
<1>5. CASE q - d = 0
    BY <1>1, <1>2, <1>5
<1> QED BY <1>1, <1>3, <1>4, <1>5

(***************************************************************************)
(* csv_search_delete when all elements have one length: its strides are    *)
(* the places of the elements.                                             *)
(***************************************************************************)
OneLength(n) == n \in Nat /\ \A e \in Elements : Len(e) = n

LEMMA ListsOfNames ==
    Elements \subseteq Names /\ Seq(Elements) \subseteq Seq(Names)
<1>1. Elements \subseteq Names
    BY DEF Names
<1> QED BY <1>1

LEMMA TextLength ==
    ASSUME NEW n, OneLength(n), NEW l \in Seq(Elements), l # <<>>
    PROVE  Len(Text(l)) + 1 = Len(l) * (n + 1) /\ Len(Text(l)) \in Nat
<1> DEFINE N == n + 1
           Good(t) == Len(Text(t)) \in Nat /\ Len(Text(t)) + 1 = Len(t) * N
           T == {t \in Seq(Elements) : t # <<>> => Good(t)}
<1>1. N \in Nat /\ n \in Nat
    BY DEF OneLength
<1> HIDE DEF N
<1>2. ASSUME NEW x \in Elements, NEW t \in Seq(Elements), t \in T PROVE <<x>> \o t \in T
    <2>1. <<x>> \o t \in Seq(Elements) /\ Len(<<x>> \o t) = Len(t) + 1 /\ Len(t) \in Nat
        BY ONLY x \in Elements, t \in Seq(Elements), ConsAt, LenProperties
    <2>2. x \in Names /\ t \in Seq(Names) /\ Len(x) = n
        BY ListsOfNames DEF OneLength
    <2>3. /\ Behind(t) \in Seq(Chars) /\ Text(<<x>> \o t) = x \o Behind(t) /\ x \in Seq(Chars)
        BY ONLY <2>2, TextAround, NameProperties
    <2>4. Len(Text(<<x>> \o t)) = n + Len(Behind(t))
        <3> DEFINE b == Behind(t)
        <3>1. b \in Seq(Chars) /\ x \in Seq(Chars)
            BY <2>3
        <3> HIDE DEF b
        <3>2. Len(x \o b) = Len(x) + Len(b)
            BY ONLY <3>1, ConcatProperties
        <3> QED BY ONLY <2>2, <2>3, <3>2 DEF b
    <2>5. Good(<<x>> \o t)
        <3>1. CASE t = <<>>
            <4>1. Len(Behind(t)) = 0 /\ Len(t) = 0
                BY <3>1 DEF Behind
            <4>2. 1 * N = N
                BY <1>1, Multiples
            <4>3. Len(Text(<<x>> \o t)) = n /\ Len(<<x>> \o t) = 1
                BY ONLY <1>1, <2>1, <2>4, <4>1
            <4> QED BY ONLY <1>1, <4>2, <4>3 DEF N
        <3>2. CASE t # <<>>
            <4>1. Good(t)
                BY <1>2, <3>2
            <4>2. Len(Behind(t)) = 1 + Len(Text(t))
                <5> DEFINE s == <<Comma>>
                           u == Text(t)
                <5>1. s \in Seq(Chars) /\ Len(s) = 1 /\ u \in Seq(Chars)
                    BY <2>2, CommaType, ListOfText
                <5>2. Behind(t) = s \o u
                    BY <3>2 DEF Behind
                <5> HIDE DEF s, u
                <5>3. Len(s \o u) = Len(s) + Len(u)
                    BY ONLY <5>1, ConcatProperties
                <5> QED BY ONLY <5>1, <5>2, <5>3 DEF u
            <4>3. (Len(t) + 1) * N = Len(t) * N + N
                BY <1>1, <2>1, Multiples
            <4> DEFINE y == Len(t) * N
                       z == Len(Text(t))
            <4>4. z \in Nat /\ z + 1 = y
                BY <4>1
            <4>5. Len(Text(<<x>> \o t)) = n + (1 + z)
                BY ONLY <2>4, <4>2
            <4>6. Len(<<x>> \o t) * N = y + N
                BY ONLY <2>1, <4>3
            <4> HIDE DEF y, z
            <4>7. n + (1 + z) \in Nat /\ (n + (1 + z)) + 1 = y + N
                BY ONLY <1>1, <4>4 DEF N
            <4> QED BY ONLY <4>5, <4>6, <4>7
        <3> QED BY <3>1, <3>2
    <2> HIDE DEF Good
    <2> QED BY <2>1, <2>5
<1>3. <<>> \in T
    OBVIOUS
<1>4. Seq(Elements) \subseteq T
    <2> HIDE DEF T
    <2> QED BY <1>2, <1>3, ListInduction
<1> QED BY <1>4 DEF N

LEMMA BeforeLength ==
    ASSUME NEW n, OneLength(n), NEW a \in Seq(Elements)
    PROVE  Len(Before(a)) = Len(a) * (n + 1)
<1>1. n + 1 \in Nat
    BY DEF OneLength
<1>2. CASE a = <<>>
    <2>1. Len(a) = 0 /\ Len(Before(a)) = 0
        BY <1>2 DEF Before
    <2>2. 0 * (n + 1) = 0
        BY <1>1, Multiples
    <2> QED BY <2>1, <2>2
<1>3. CASE a # <<>>
    <2> DEFINE s == <<Comma>>
               u == Text(a)
    <2>1. s \in Seq(Chars) /\ Len(s) = 1 /\ u \in Seq(Chars) /\ Before(a) = u \o s
        <3>1. a \in Seq(Names)
            BY ListsOfNames
        <3> QED BY <1>3, <3>1, CommaType, ListOfText DEF Before
    <2>2. Len(u) + 1 = Len(a) * (n + 1)
        BY <1>3, TextLength
    <2> HIDE DEF s, u
    <2>3. Len(u \o s) = Len(u) + Len(s)
        BY ONLY <2>1, ConcatProperties
    <2> QED BY ONLY <2>1, <2>2, <2>3
<1> QED BY <1>2, <1>3

IsAround(a, b, S, l, j) ==
    /\ a \in Seq(S) /\ b \in Seq(S) /\ Len(a) = j - 1
    /\ l = a \o (<<l[j]>> \o b) /\ RemoveAt(l, j) = a \o b

LEMMA ListAround ==
    ASSUME NEW S, NEW l \in Seq(S), NEW j \in 1..Len(l)
    PROVE  \E a, b : IsAround(a, b, S, l, j)
<1> DEFINE n == Len(l)
           a == SubSeq(l, 1, j - 1)
           b == SubSeq(l, j + 1, n)
<1>1. n \in Nat /\ j \in 1..n
    OBVIOUS
<1>2. a \in Seq(S) /\ Len(a) = j - 1
    <2>1. j - 1 \in Nat /\ j - 1 <= n /\ 1 \in Nat \ {0}
        BY <1>1
    <2> DEFINE m == j - 1
    <2> HIDE DEF m
    <2>2. m \in Nat /\ m <= Len(l)
        BY <2>1 DEF m
    <2>3. SubSeq(l, 1, m) \in Seq(S) /\ Len(SubSeq(l, 1, m)) = IF 1 <= m THEN m - 1 + 1 ELSE 0
        BY <2>1, <2>2, SubSeqAt
    <2>4. Len(SubSeq(l, 1, m)) = m
        BY <2>2, <2>3
    <2> QED BY <2>3, <2>4 DEF m
<1>3. b \in Seq(S)
    <2> DEFINE m == j + 1
    <2>1. m \in Nat \ {0} /\ n \in Nat /\ n <= Len(l)
        BY <1>1
    <2> HIDE DEF m
    <2>2. SubSeq(l, m, Len(l)) \in Seq(S)
        BY <2>1, SubSeqAt
    <2> QED BY <2>2 DEF m
<1>4. SubSeq(l, j, n) = <<l[j]>> \o b
    <2>1. n \in j..Len(l) /\ j \in 1..Len(l)
        BY <1>1
    <2> QED BY <2>1, SubSeqRecursiveFirst
<1>5. a \o SubSeq(l, j, n) = SubSeq(l, 1, n)
    <2> DEFINE m == j - 1
    <2>1. 1 \in 1..Len(l) + 1 /\ m \in 1 - 1..Len(l) /\ n \in m..Len(l) /\ m + 1 = j
        BY <1>1
    <2> HIDE DEF m
    <2>2. SubSeq(l, 1, m) \o SubSeq(l, m + 1, Len(l)) = SubSeq(l, 1, Len(l))
        BY <2>1, ConcatAdjacentSubSeq
    <2> QED BY <2>1, <2>2 DEF m
<1>6. SubSeq(l, 1, n) = l
    BY SubSeqFull
<1>7. RemoveAt(l, j) = a \o b
    BY DEF RemoveAt
<1> HIDE DEF a, b
<1>8. l = a \o (<<l[j]>> \o b)
    BY ONLY <1>4, <1>5, <1>6, Zenon
<1>9. IsAround(a, b, S, l, j)
    BY ONLY <1>2, <1>3, <1>7, <1>8 DEF IsAround
<1> QED BY <1>9

LEMMA FirstRemoved ==
    ASSUME NEW S, NEW l \in Seq(S), NEW e, NEW j \in 1..Len(l), l[j] = e,
           \A k \in 1..Len(l) : l[k] = e => j <= k
    PROVE  RemoveFirst(l, e) = RemoveAt(l, j)
<1> DEFINE T == {i \in 1..Len(l) : l[i] = e}
<1>1. j \in T /\ \A k \in T : j <= k
    OBVIOUS
<1>2. T \subseteq Int /\ Min(T) = j
    <2>1. T \subseteq Int
        OBVIOUS
    <2>2. Min(T) \in T /\ \A k \in T : Min(T) <= k
        <3> HIDE DEF T
        <3> QED BY <1>1 DEF Min
    <2>3. Min(T) <= j /\ j <= Min(T) /\ Min(T) \in Int /\ j \in Int
        BY <1>1, <2>1, <2>2
    <2> HIDE DEF T
    <2> QED BY <2>1, <2>3
<1>3. RemoveFirst(l, e) = RemoveAt(l, Min(T))
    BY <1>1 DEF RemoveFirst, SelectInSeq
<1> QED BY <1>2, <1>3

\* Where the j-th element of a list starts in its text.
Place(j, n) == (j - 1) * (n + 1) + 1

LEMMA PlaceOfElement ==
    ASSUME NEW n, OneLength(n), NEW l \in Seq(Elements), NEW j \in 1..Len(l), NEW e \in Elements
    PROVE  /\ Place(j, n) \in Strides(Text(l), e)
           /\ MatchAt(Text(l), e, Place(j, n)) <=> l[j] = e
           /\ ~OverrunAt(Text(l), e, Place(j, n))
           /\ EraseAt(Text(l), e, Place(j, n)) = Text(RemoveAt(l, j))
<1> DEFINE x == l[j]
           v == Text(l)
           i == Place(j, n)
<1>1. x \in Elements /\ Len(x) = n /\ Len(e) = n /\ n \in Nat \ {0} /\ e \in Names /\ x \in Names
    <2>1. x \in Elements
        OBVIOUS
    <2>2. e \in Names /\ x \in Names
        BY <2>1, ListsOfNames
    <2>3. Len(x) = n /\ Len(e) = n
        BY <2>1 DEF OneLength
    <2>4. Len(e) \in Nat \ {0}
        BY <2>2, NameProperties
    <2> QED BY <2>1, <2>2, <2>3, <2>4
<1>A. PICK a, b : IsAround(a, b, Elements, l, j)
    BY ListAround
<1>2. /\ a \in Seq(Elements) /\ b \in Seq(Elements)
      /\ Len(a) = j - 1 /\ l = a \o (<<x>> \o b) /\ RemoveAt(l, j) = a \o b
    BY <1>A DEF IsAround
<1>3. a \in Seq(Names) /\ b \in Seq(Names) /\ l \in Seq(Names)
    BY <1>2, ListsOfNames
<1>4. i = Len(Before(a)) + 1
    <2>1. Len(Before(a)) = Len(a) * (n + 1)
        BY <1>2, BeforeLength
    <2> QED BY <1>2, <2>1 DEF Place
<1> HIDE DEF x, v, i
<1>5. v = Text(a \o (<<x>> \o b)) /\ Len(e) = Len(x)
    BY <1>1, <1>2 DEF v
<1>6. /\ i + Len(e) - 1 <= Len(v) /\ SubSeq(v, i, i + Len(e) - 1) = x
      /\ EraseAt(v, e, i) = Text(a \o b)
    <2>1. a \in Seq(Names) /\ x \in Names /\ b \in Seq(Names)
        BY <1>1, <1>3
    <2>2. StandsAt(v, i, a, x, b)
        BY ONLY <1>4, <1>5, <2>1 DEF StandsAt
    <2> QED BY ONLY <1>5, <2>2, ErasedAround
<1>7. v \in Seq(Chars) /\ Len(v) \in Nat
    BY <1>3, ListOfText DEF v
<1>8. i \in Nat \ {0} /\ (i - 1) = (j - 1) * (n + 1) /\ n + 1 \in Nat \ {0} /\ j - 1 \in Nat
    <2>1. n + 1 \in Nat \ {0} /\ j - 1 \in Nat
        BY <1>1
    <2>2. (j - 1) * (n + 1) \in Nat
        BY ONLY <2>1, Multiples
    <2> QED BY ONLY <2>1, <2>2 DEF i, Place
<1>9. i \in Strides(v, e)
    <2>1. ((j - 1) * (n + 1)) % (n + 1) = 0
        BY ONLY <1>8, MultipleRemainder
    <2>2. i \in 1..Len(v)
        <3> DEFINE m == Len(v)
        <3>1. i + n - 1 <= m /\ m \in Nat
            BY ONLY <1>1, <1>6, <1>7
        <3> HIDE DEF m
        <3>2. i \in 1..m
            BY ONLY <1>1, <1>8, <3>1
        <3> QED BY <3>2 DEF m
    <2>3. DOMAIN v = 1..Len(v)
        BY <1>7
    <2> QED BY <1>1, <1>8, <2>1, <2>2, <2>3 DEF Strides
<1>10. MatchAt(v, e, i) <=> x = e
    BY ONLY <1>6 DEF MatchAt
<1>11. ~OverrunAt(v, e, i)
    <2> DEFINE m == Len(v)
               k == i + Len(e) - 1
    <2>1. k <= m /\ k \in Int /\ m \in Int
        BY <1>1, <1>6, <1>7, <1>8
    <2> HIDE DEF m, k
    <2>2. ~(k > m)
        BY <2>1
    <2> QED BY ONLY <2>2 DEF OverrunAt, m, k
<1> QED BY ONLY <1>2, <1>6, <1>9, <1>10, <1>11 DEF x, v, i

LEMMA StrideIsPlace ==
    ASSUME NEW n, OneLength(n), NEW l \in Seq(Elements), l # <<>>, NEW e \in Elements,
           NEW i \in Strides(Text(l), e)
    PROVE  \E j \in 1..Len(l) : i = Place(j, n)
<1> DEFINE v == Text(l)
           N == n + 1
           q == (i - 1) \div N
           k == Len(l)
<1>1. N \in Nat \ {0} /\ Len(e) + 1 = N /\ k \in Nat
    BY DEF OneLength
<1>2. Len(v) + 1 = k * N /\ Len(v) \in Nat
    BY TextLength
<1>3. v \in Seq(Chars)
    BY ListsOfNames, ListOfText
<1>4. i \in 1..Len(v) /\ (i - 1) % N = 0
    BY <1>1, <1>3 DEF Strides
<1> HIDE DEF N, v, k
<1>5. i - 1 \in Nat /\ q \in Nat /\ i - 1 = q * N
    <2> DEFINE m == i - 1
    <2>1. m \in Nat /\ m % N = 0
        BY <1>2, <1>4
    <2> HIDE DEF m
    <2>2. m \div N \in Nat /\ m = (m \div N) * N
        BY <1>1, <2>1, NoRemainder
    <2> QED BY <2>1, <2>2 DEF m
<1> HIDE DEF q
<1>6. q < k
    <2> SUFFICES ASSUME k <= q PROVE FALSE
        BY <1>1, <1>5
    <2>1. k * N <= q * N
        BY <1>1, <1>5, MultiplesOrder
    <2> DEFINE y == k * N
               z == q * N
    <2>2. y <= z /\ i - 1 = z /\ Len(v) + 1 = y
        BY <1>2, <1>5, <2>1
    <2> HIDE DEF y, z
    <2> QED BY <1>2, <1>4, <2>2
<1>7. q + 1 \in 1..k /\ (q + 1) - 1 = q
    BY <1>1, <1>5, <1>6
<1>8. i = q * N + 1
    BY <1>2, <1>4, <1>5
<1>9. i = Place(q + 1, n)
    BY <1>7, <1>8 DEF Place, N
<1> QED BY <1>7, <1>9 DEF k

LEMMA PlacesOrder ==
    ASSUME NEW n \in Nat, NEW j \in Nat \ {0}, NEW k \in Nat \ {0}, j <= k
    PROVE  Place(j, n) <= Place(k, n) /\ Place(j, n) \in Nat /\ Place(k, n) \in Nat
<1> DEFINE N == n + 1
           y == (j - 1) * N
           z == (k - 1) * N
<1>1. j - 1 \in Nat /\ k - 1 \in Nat /\ j - 1 <= k - 1 /\ N \in Nat \ {0}
    OBVIOUS
<1> HIDE DEF N
<1>2. y \in Nat /\ z \in Nat
    BY <1>1, Multiples
<1>3. y <= z
    <2> DEFINE p == j - 1
               q == k - 1
    <2>1. p \in Nat /\ q \in Nat /\ p <= q
        BY <1>1
    <2> HIDE DEF p, q
    <2>2. p * N <= q * N
        BY <1>1, <2>1, MultiplesOrder
    <2> QED BY <2>2 DEF p, q
<1>4. Place(j, n) = y + 1 /\ Place(k, n) = z + 1
    BY DEF Place, N
<1> HIDE DEF y, z
<1> QED BY <1>2, <1>3, <1>4

Searched(l, e) == [left |-> Text(RemoveFirst(l, e)), found |-> e \in Range(l)]

LEMMA SearchDeleteFinds ==
    ASSUME NEW n, OneLength(n), NEW l \in Seq(Elements), NEW e \in Elements
    PROVE  CsvSearchDelete(Text(l), e) = {Searched(l, e)}
<1> DEFINE v == Text(l)
           S == Strides(v, e)
           hits == {i \in S : MatchAt(v, e, i)}
           overruns == {i \in S : OverrunAt(v, e, i)}
           first == CHOOSE i \in hits : \A j \in hits : i <= j
<1>0. n \in Nat
    BY DEF OneLength
<1>1. Len(l) \in Nat /\ DOMAIN l = 1..Len(l)
    OBVIOUS
<1>2. CsvSearchDelete(v, e) =
          IF hits # {} THEN {[left |-> EraseAt(v, e, first), found |-> TRUE]}
          ELSE {[left |-> v, found |-> FALSE]}
               \cup {[left |-> EraseOverrun(v, e, i), found |-> TRUE] : i \in overruns}
    BY DEF CsvSearchDelete
<1> HIDE DEF v, S
<1>3. ASSUME NEW i \in S PROVE \E j \in 1..Len(l) : i = Place(j, n)
    <2>1. CASE l # <<>>
        BY <2>1, StrideIsPlace DEF S, v
    <2>2. CASE l = <<>>
        <3>1. S = {}
            BY <2>2 DEF S, v, Strides, Text
        <3> QED BY <3>1
    <2> QED BY <2>1, <2>2
<1>4. ASSUME NEW j \in 1..Len(l)
      PROVE  /\ Place(j, n) \in S /\ (MatchAt(v, e, Place(j, n)) <=> l[j] = e)
             /\ ~OverrunAt(v, e, Place(j, n))
             /\ EraseAt(v, e, Place(j, n)) = Text(RemoveAt(l, j))
    BY PlaceOfElement DEF S, v
<1>5. overruns = {}
    BY <1>3, <1>4
<1>6. CASE \E j \in 1..Len(l) : l[j] = e
    <2> DEFINE T == {j \in 1..Len(l) : l[j] = e}
    <2>1. PICK j \in T : \A k \in T : j <= k
        <3>1. T \in SUBSET Nat /\ T # {}
            BY <1>1, <1>6
        <3> HIDE DEF T
        <3> QED BY <3>1, LeastNatural
    <2>2. j \in 1..Len(l) /\ l[j] = e /\ \A k \in 1..Len(l) : l[k] = e => j <= k
        BY <2>1
    <2> DEFINE p == Place(j, n)
    <2>3. p \in hits
        BY <1>4, <2>2
    <2>4. ASSUME NEW h \in hits PROVE p <= h /\ h \in Nat /\ p \in Nat
        <3>1. PICK k \in 1..Len(l) : h = Place(k, n)
            BY <1>3
        <3>2. l[k] = e
            BY <1>4, <3>1
        <3>3. j \in Nat \ {0} /\ k \in Nat \ {0} /\ j <= k
            BY <1>1, <2>2, <3>2
        <3> QED BY <1>0, <3>1, <3>3, PlacesOrder
    <2> HIDE DEF hits, p
    <2>5. first = p
        <3>1. first \in hits /\ \A i \in hits : first <= i
            BY <2>3, <2>4
        <3> HIDE DEF first
        <3>2. first <= p /\ p <= first /\ first \in Nat /\ p \in Nat
            BY <2>3, <2>4, <3>1
        <3> QED BY <3>2
    <2>6. RemoveFirst(l, e) = RemoveAt(l, j)
        BY <2>2, FirstRemoved
    <2>7. EraseAt(v, e, first) = Text(RemoveFirst(l, e))
        BY <1>4, <2>2, <2>5, <2>6 DEF p
    <2>8. hits # {} /\ (e \in Range(l)) = TRUE
        BY <1>1, <1>6, <2>3 DEF Range
    <2> HIDE DEF first
    <2>9. CsvSearchDelete(v, e) = {[left |-> Text(RemoveFirst(l, e)), found |-> TRUE]}
        BY <1>2, <2>7, <2>8
    <2> QED BY <2>8, <2>9 DEF Searched, v
<1>7. CASE ~ \E j \in 1..Len(l) : l[j] = e
    <2>1. hits = {}
        BY <1>3, <1>4, <1>7
    <2>2. RemoveFirst(l, e) = l
        BY <1>7 DEF RemoveFirst
    <2>3. (e \in Range(l)) = FALSE
        BY <1>1, <1>7 DEF Range
    <2> HIDE DEF hits, overruns, first
    <2>4. CsvSearchDelete(v, e) = {[left |-> v, found |-> FALSE]}
        BY <1>2, <1>5, <2>1
    <2> QED BY <2>2, <2>3, <2>4 DEF Searched, v
<1> QED BY <1>6, <1>7

(***************************************************************************)
(* The words of the protocol: commands, tables and the kinds of answers.   *)
(***************************************************************************)
Words == {"L", "G", "R", "S", "CA", "CP", "CR", "CM", "CD", "c", "p", "v", "l", "t", "f", "n"}

LEMMA WordsOnWire ==
    ASSUME NEW w \in Words
    PROVE  w \in Chars /\ <<w>> \in Seq(Chars) /\ <<w>>[1] = w
<1>1. Words \subseteq ProtocolChars
    BY Zenon DEF Words, ProtocolChars
<1>2. w \in Chars
    BY <1>1, Literals, Zenon
<1> QED BY <1>2

LEMMA DifferentWords ==
    ASSUME NEW w, NEW z, w # z
    PROVE  <<w>> # <<z>>
<1>1. <<w>>[1] = w /\ <<z>>[1] = z
    OBVIOUS
<1> QED BY <1>1

LEMMA MessageType ==
    ASSUME NEW a \in Seq(Chars), NEW b \in Seq(Chars), NEW c \in Seq(Chars)
    PROVE  <<a>> \in Fields(Chars) /\ <<a, b>> \in Fields(Chars) /\ <<a, b, c>> \in Fields(Chars)
<1>1. /\ <<a>> \in Seq(Seq(Chars)) /\ <<a, b>> \in Seq(Seq(Chars))
      /\ <<a, b, c>> \in Seq(Seq(Chars))
    OBVIOUS
<1>2. <<a>> # <<>> /\ <<a, b>> # <<>> /\ <<a, b, c>> # <<>>
    OBVIOUS
<1> QED BY <1>1, <1>2 DEF Fields

LEMMA FoundRead ==
    ASSUME NEW v \in Seq(Chars)
    PROVE  Found(v) \in Fields(Chars) /\ GetResult(Found(v)) = IF v = <<>> THEN None ELSE v
<1>1. "n" \in Words /\ "v" \in Words /\ "n" # "v"
    BY DEF Words
<1>2. <<"n">> \in Seq(Chars) /\ <<"v">> \in Seq(Chars)
    BY <1>1, WordsOnWire
<1> DEFINE n == <<"n">>
           t == <<"v">>
<1>3. n \in Seq(Chars) /\ t \in Seq(Chars)
    BY <1>2
<1>4. Found(v) = IF v = <<>> THEN <<n>> ELSE <<t, v>>
    BY DEF Found
<1>5. \A args : GetResult(args) = IF Len(args) = 2 /\ args[1] = t THEN args[2] ELSE None
    BY DEF GetResult
<1> HIDE DEF n, t
<1>6. <<n>> \in Fields(Chars) /\ <<t, v>> \in Fields(Chars)
    BY <1>3, MessageType
<1>7. Len(<<n>>) = 1 /\ Len(<<t, v>>) = 2 /\ <<t, v>>[1] = t /\ <<t, v>>[2] = v
    BY <1>3
<1> QED BY <1>4, <1>5, <1>6, <1>7

LEMMA FlagRead ==
    ASSUME NEW b \in BOOLEAN
    PROVE  Flag(b) \in Fields(Chars) /\ SetResult(Flag(b)) = b
<1>1. "t" \in Words /\ "f" \in Words /\ "t" # "f"
    BY DEF Words
<1> DEFINE t == <<"t">>
           f == <<"f">>
<1>2. t \in Seq(Chars) /\ f \in Seq(Chars) /\ <<t>> # <<f>>
    <2>1. t \in Seq(Chars) /\ f \in Seq(Chars)
        BY <1>1, WordsOnWire
    <2>2. t # f
        BY <1>1, DifferentWords
    <2> HIDE DEF t, f
    <2> QED BY <2>1, <2>2, DifferentWords
<1>3. Flag(b) = IF b THEN <<t>> ELSE <<f>>
    BY DEF Flag
<1>4. SetResult(<<t>>) = TRUE /\ SetResult(<<f>>) = FALSE
    BY <1>2 DEF SetResult
<1> HIDE DEF t, f
<1>5. <<t>> \in Fields(Chars) /\ <<f>> \in Fields(Chars)
    BY <1>2, MessageType
<1>6. CASE b = TRUE
    BY <1>3, <1>4, <1>5, <1>6
<1>7. CASE b = FALSE
    BY <1>3, <1>4, <1>5, <1>7
<1> QED BY <1>6, <1>7

\* The answer to a lookup that finds some keys.
LEMMA KeysRead ==
    ASSUME NEW there \in SUBSET Keys, IsFiniteSet(there), there # {}
    PROVE  LET answer == << <<"l">>, Join(InOrder(there), Comma)>>
           IN answer \in Fields(Chars) /\ LookupResult(answer) = there
<1> DEFINE s == InOrder(there)
           j == Join(s, Comma)
           w == <<"l">>
<1>1. s \in Seq(there) /\ ToSet(s) = there
    BY EnumerationProperties DEF InOrder
<1>2. s \in Seq(Names) /\ s # <<>>
    <2>1. there \subseteq Names
        BY DEF Names
    <2> HIDE DEF s
    <2>2. s \in Seq(Names)
        BY <1>1, <2>1
    <2>3. s # <<>>
        BY <1>1 DEF ToSet
    <2> QED BY <2>2, <2>3
<1> HIDE DEF s
<1>3. j = Text(s) /\ j \in Seq(Chars) /\ Split(j, Comma) = s
    BY <1>2, ListOfText, TextSplit, NamesJoinable
<1>4. w \in Seq(Chars)
    BY WordsOnWire DEF Words
<1>5. \A args : LookupResult(args) =
                    IF Len(args) = 2 /\ args[1] = w THEN Range(Split(args[2], Comma)) ELSE {}
    BY DEF LookupResult
<1> HIDE DEF j, w
<1>6. <<w, j>> \in Fields(Chars)
    BY <1>3, <1>4, MessageType
<1>7. Len(<<w, j>>) = 2 /\ <<w, j>>[1] = w /\ <<w, j>>[2] = j
    BY <1>3, <1>4
<1>8. Range(s) = there
    BY <1>1 DEF Range, ToSet
<1>9. LookupResult(<<w, j>>) = there
    BY <1>3, <1>5, <1>7, <1>8
<1> QED BY <1>6, <1>9 DEF j, w, s

(***************************************************************************)
(* What the byte strings stand for.                                        *)
(***************************************************************************)
\* Every list is in the database as its text, and finitely many keys are there.
Rep(b) ==
    /\ b \in [Keys -> Seq(Chars)]
    /\ \A k \in CsvKeys : List(b[k]) \in Seq(Elements) /\ b[k] = Text(List(b[k]))
    /\ IsFiniteSet({k \in Keys : b[k] # <<>>})

TableOf(b) == [k \in Keys |-> IF k \in CsvKeys THEN List(b[k]) ELSE b[k]]

\* The byte string w stands for m under the key k.
StandsFor(k, w, m) ==
    k \in Keys /\ w \in Seq(Chars) /\ IF k \in CsvKeys THEN m \in Seq(Elements) /\ w = Text(m) ELSE m = w

LEMMA TableUpdate ==
    ASSUME NEW b, Rep(b), NEW k, NEW w, NEW m, StandsFor(k, w, m)
    PROVE  /\ Rep([b EXCEPT ![k] = w])
           /\ TableOf([b EXCEPT ![k] = w]) = [TableOf(b) EXCEPT ![k] = m]
<1> DEFINE d == [b EXCEPT ![k] = w]
<1>1. b \in [Keys -> Seq(Chars)] /\ k \in Keys /\ w \in Seq(Chars)
    BY DEF Rep, StandsFor
<1>2. d \in [Keys -> Seq(Chars)] /\ d[k] = w /\ \A x \in Keys : x # k => d[x] = b[x]
    BY <1>1
<1>3. k \in CsvKeys => m \in Seq(Elements) /\ w = Text(m) /\ List(w) = m
    <2> SUFFICES ASSUME k \in CsvKeys PROVE m \in Seq(Elements) /\ w = Text(m) /\ List(w) = m
        OBVIOUS
    <2>1. m \in Seq(Elements) /\ w = Text(m)
        BY DEF StandsFor
    <2>2. m \in Seq(Names)
        BY <2>1, ListsOfNames
    <2> QED BY <2>1, <2>2, ListOfText
<1> HIDE DEF d
<1>4. \A x \in CsvKeys : List(d[x]) \in Seq(Elements) /\ d[x] = Text(List(d[x]))
    <2> SUFFICES ASSUME NEW x \in CsvKeys
                 PROVE  List(d[x]) \in Seq(Elements) /\ d[x] = Text(List(d[x]))
        OBVIOUS
    <2>1. CASE x = k
        BY <1>2, <1>3, <2>1
    <2>2. CASE x # k
        BY <1>2, <2>2 DEF Rep, Keys
    <2> QED BY <2>1, <2>2
<1>5. IsFiniteSet({x \in Keys : d[x] # <<>>})
    <2> DEFINE F == {x \in Keys : b[x] # <<>>}
               G == {x \in Keys : d[x] # <<>>}
    <2>1. IsFiniteSet(F)
        BY DEF Rep
    <2>2. G \subseteq F \cup {k}
        BY <1>2
    <2> HIDE DEF F, G
    <2>3. IsFiniteSet(F \cup {k})
        BY <2>1, FS_AddElement
    <2>4. IsFiniteSet(G)
        BY <2>2, <2>3, FS_Subset
    <2> QED BY <2>4 DEF G
<1>6. Rep(d)
    BY <1>2, <1>4, <1>5 DEF Rep
<1>7. TableOf(d) = [TableOf(b) EXCEPT ![k] = m]
    <2>1. ASSUME NEW x \in Keys
          PROVE  (IF x \in CsvKeys THEN List(d[x]) ELSE d[x]) =
                     IF x = k THEN m ELSE IF x \in CsvKeys THEN List(b[x]) ELSE b[x]
        <3>1. CASE x = k
            BY <1>2, <1>3, <3>1 DEF StandsFor
        <3>2. CASE x # k
            BY <1>2, <3>2
        <3> QED BY <3>1, <3>2
    <2>2. TableOf(d) = [x \in Keys |-> IF x = k THEN m ELSE TableOf(b)[x]]
        BY <2>1 DEF TableOf
    <2>3. [TableOf(b) EXCEPT ![k] = m] = [x \in Keys |-> IF x = k THEN m ELSE TableOf(b)[x]]
        BY DEF TableOf
    <2> QED BY <2>2, <2>3
<1> QED BY <1>6, <1>7 DEF d

(***************************************************************************)
(* Requests as the server reads them.                                      *)
(***************************************************************************)
Args(q) ==
    IF q.op \in {"lookup", "get", "remove", "set"} THEN PlainRequest(q) ELSE CsvRequest(q)

ListCall(q) ==
    /\ q.op \in {"append", "prepend", "match_pop", "search_delete"}
    /\ q.key \in CsvKeys /\ q.val \in Elements

PopCall(q) == q.op = "pop" /\ q.key \in CsvKeys
KeyCall(q) == q.op \in {"get", "remove"} /\ q.key \in Keys
SetCall(q) == q.op = "set" /\ q.key \in PlainKeys /\ q.val \in Values
LookupCall(q) == q.op = "lookup" /\ q.keys \in {CsvKeys, PlainKeys}

LEMMA RequestKinds ==
    ASSUME NEW q \in Interface!Requests
    PROVE  ListCall(q) \/ PopCall(q) \/ KeyCall(q) \/ SetCall(q) \/ LookupCall(q)
BY DEF Interface!Requests, Interface!Keys, Keys, ListCall, PopCall, KeyCall, SetCall, LookupCall

LEMMA RequestRead ==
    ASSUME NEW q \in Interface!Requests
    PROVE  Request(q) = Args(q)
<1>1. Args(q) \in Fields(Chars)
    <2>1. ASSUME NEW w \in Words, NEW a \in Seq(Chars), NEW b \in Seq(Chars)
          PROVE  << <<w>>, a>> \in Fields(Chars) /\ << <<w>>, a, b>> \in Fields(Chars)
        <3> DEFINE x == <<w>>
        <3>1. x \in Seq(Chars)
            BY WordsOnWire
        <3> HIDE DEF x
        <3>2. <<x, a>> \in Fields(Chars) /\ <<x, a, b>> \in Fields(Chars)
            BY <3>1, MessageType
        <3> QED BY <3>2 DEF x
    <2>2. /\ \A w \in {"L", "G", "R", "S", "CA", "CP", "CR", "CM", "CD", "c", "p"} : w \in Words
          /\ Elements \cup Keys \cup Values \subseteq Seq(Chars) /\ CsvKeys \cup PlainKeys = Keys
        BY ProtocolAssumption DEF Words, Keys
    <2>3. CASE ListCall(q)
        <3>1. q.key \in Seq(Chars) /\ q.val \in Seq(Chars)
            BY <2>2, <2>3 DEF ListCall
        <3> HIDE DEF Words
        <3>2. Args(q) \in {<< <<w>>, q.key, q.val>> : w \in {"CA", "CP", "CM", "CD"}}
            BY <2>3 DEF ListCall, Args, CsvRequest
        <3> QED BY ZenonT(40), <2>1, <2>2, <3>1, <3>2
    <2>4. CASE PopCall(q)
        <3>1. q.key \in Seq(Chars)
            BY <2>2, <2>4 DEF PopCall
        <3>2. Args(q) = << <<"CR">>, q.key>>
            BY <2>4 DEF PopCall, Args, CsvRequest
        <3> QED BY <2>1, <2>2, <3>1, <3>2
    <2>5. CASE KeyCall(q)
        <3>1. q.key \in Seq(Chars)
            BY <2>2, <2>5 DEF KeyCall
        <3>2. Args(q) \in {<< <<w>>, q.key>> : w \in {"G", "R"}}
            BY <2>5 DEF KeyCall, Args, PlainRequest
        <3> QED BY <2>1, <2>2, <3>1, <3>2
    <2>6. CASE SetCall(q)
        <3>1. q.key \in Seq(Chars) /\ q.val \in Seq(Chars)
            BY <2>2, <2>6 DEF SetCall
        <3>2. Args(q) = << <<"S">>, q.key, q.val>>
            BY <2>6 DEF SetCall, Args, PlainRequest
        <3> QED BY <2>1, <2>2, <3>1, <3>2
    <2>7. CASE LookupCall(q)
        <3>1. TableName(q.keys) \in Seq(Chars)
            BY <2>2, WordsOnWire DEF TableName
        <3>2. Args(q) = << <<"L">>, TableName(q.keys)>>
            BY <2>7 DEF LookupCall, Args, PlainRequest
        <3> QED BY <2>1, <2>2, <3>1, <3>2
    <2> QED BY <2>3, <2>4, <2>5, <2>6, <2>7, RequestKinds
<1> QED BY <1>1, SentIsRead DEF Request, Args

(***************************************************************************)
(* What one request does on the server.                                    *)
(***************************************************************************)
\* The request leaves w under its key and answers with the fields ans.
Ran(q, w, ans) ==
    Run(Request(q)) = {[bytes |-> [bytes EXCEPT ![q.key] = w], answer |-> ans]}

RunKey(cmd, k, args) ==
    IF cmd \in {"G", "S", "R"} THEN RunPlain(cmd, bytes[k], args) ELSE RunCsv(cmd, bytes[k], args)

LEMMA RunOne ==
    ASSUME NEW q \in Interface!Requests, NEW cmd, cmd # "L", NEW w, NEW ans,
           Args(q)[1] = <<cmd>>, Args(q)[2] = q.key,
           RunKey(cmd, q.key, Args(q)) = Left(w, ans)
    PROVE  Ran(q, w, ans)
<1> DEFINE args == Args(q)
<1>1. Request(q) = args
    BY RequestRead
<1> HIDE DEF args
<1>2. args[1] = <<cmd>> /\ args[1][1] = cmd /\ args[2] = q.key /\ args[1] # <<"L">>
    <2>1. args[1] = <<cmd>> /\ args[2] = q.key
        BY DEF args
    <2>2. <<cmd>>[1] = cmd
        OBVIOUS
    <2>3. <<cmd>> # <<"L">>
        BY DifferentWords
    <2> QED BY <2>1, <2>2, <2>3
<1>3. Process(args) = {[left |-> w, answer |-> ans]}
    BY <1>2 DEF Process, RunKey, Left, args
<1>4. Run(args) = {[bytes |-> [bytes EXCEPT ![args[2]] = r.left], answer |-> r.answer] :
                       r \in Process(args)}
    BY <1>2 DEF Run
<1>5. Run(args) = {[bytes |-> [bytes EXCEPT ![q.key] = w], answer |-> ans]}
    <2>1. [left |-> w, answer |-> ans].left = w /\ [left |-> w, answer |-> ans].answer = ans
        OBVIOUS
    <2> QED BY <1>2, <1>3, <1>4, <2>1
<1> QED BY <1>1, <1>5 DEF Ran

LEMMA MessageAt ==
    ASSUME NEW a, NEW b, NEW c
    PROVE  /\ <<a, b>>[1] = a /\ <<a, b>>[2] = b
           /\ <<a, b, c>>[1] = a /\ <<a, b, c>>[2] = b /\ <<a, b, c>>[3] = c
OBVIOUS

LEMMA AppendRan ==
    ASSUME NEW q \in Interface!Requests, ListCall(q), q.op \in {"append", "prepend"}
    PROVE  Ran(q, CsvExtend(bytes[q.key], q.val, q.op = "prepend"), Flag(TRUE))
<1>1. CASE q.op = "append"
    <2>1. Args(q) = << <<"CA">>, q.key, q.val>>
        BY <1>1 DEF Args, CsvRequest
    <2>2. Args(q)[1] = <<"CA">> /\ Args(q)[2] = q.key /\ Args(q)[3] = q.val
        BY <2>1, MessageAt
    <2>3. (q.op = "prepend") = FALSE
        BY <1>1
    <2>4. RunKey("CA", q.key, Args(q)) = Left(CsvExtend(bytes[q.key], q.val, FALSE), Flag(TRUE))
        BY <2>2 DEF RunKey, RunCsv
    <2> QED BY <2>2, <2>3, <2>4, RunOne
<1>2. CASE q.op = "prepend"
    <2>1. Args(q) = << <<"CP">>, q.key, q.val>>
        BY <1>2 DEF Args, CsvRequest
    <2>2. Args(q)[1] = <<"CP">> /\ Args(q)[2] = q.key /\ Args(q)[3] = q.val
        BY <2>1, MessageAt
    <2>3. (q.op = "prepend") = TRUE
        BY <1>2
    <2>4. RunKey("CP", q.key, Args(q)) = Left(CsvExtend(bytes[q.key], q.val, TRUE), Flag(TRUE))
        BY <2>2 DEF RunKey, RunCsv
    <2> QED BY <2>2, <2>3, <2>4, RunOne
<1> QED BY <1>1, <1>2

LEMMA PopRan ==
    ASSUME NEW q \in Interface!Requests, PopCall(q)
    PROVE  LET v == bytes[q.key]
           IN Ran(q, IF v = <<>> THEN v ELSE CsvPop(v), Found(FirstValue(v)))
<1>1. Args(q) = << <<"CR">>, q.key>>
    BY DEF Args, CsvRequest, PopCall
<1>2. Args(q)[1] = <<"CR">> /\ Args(q)[2] = q.key
    BY <1>1, MessageAt
<1> DEFINE v == bytes[q.key]
           w == IF v = <<>> THEN v ELSE CsvPop(v)
<1>3. RunKey("CR", q.key, Args(q)) = Left(w, Found(FirstValue(v)))
    BY <1>2 DEF RunKey, RunCsv
<1> HIDE DEF w
<1>4. Ran(q, w, Found(FirstValue(v)))
    BY <1>2, <1>3, RunOne
<1> QED BY <1>4 DEF w

LEMMA MatchPopRan ==
    ASSUME NEW q \in Interface!Requests, q.op = "match_pop"
    PROVE  LET v == bytes[q.key]
           IN IF v = <<>> \/ FirstValue(v) # q.val THEN Ran(q, v, Found(<<>>))
              ELSE Ran(q, CsvPop(v), Found(q.val))
<1>1. Args(q) = << <<"CM">>, q.key, q.val>>
    BY DEF Args, CsvRequest
<1>2. Args(q)[1] = <<"CM">> /\ Args(q)[2] = q.key /\ Args(q)[3] = q.val
    BY <1>1, MessageAt
<1> DEFINE v == bytes[q.key]
<1>3. RunKey("CM", q.key, Args(q)) =
          IF v = <<>> \/ FirstValue(v) # q.val THEN Left(v, Found(<<>>))
          ELSE Left(CsvPop(v), Found(q.val))
    BY <1>2 DEF RunKey, RunCsv
<1> HIDE DEF v
<1>4. CASE v = <<>> \/ FirstValue(v) # q.val
    <2>1. RunKey("CM", q.key, Args(q)) = Left(v, Found(<<>>))
        BY <1>3, <1>4
    <2>2. Ran(q, v, Found(<<>>))
        BY <1>2, <2>1, RunOne
    <2> QED BY <1>4, <2>2 DEF v
<1>5. CASE ~(v = <<>> \/ FirstValue(v) # q.val)
    <2>1. RunKey("CM", q.key, Args(q)) = Left(CsvPop(v), Found(q.val))
        BY <1>3, <1>5
    <2>2. Ran(q, CsvPop(v), Found(q.val))
        BY <1>2, <2>1, RunOne
    <2> QED BY <1>5, <2>2 DEF v
<1> QED BY <1>4, <1>5

LEMMA SearchDeleteRan ==
    ASSUME NEW q \in Interface!Requests, q.op = "search_delete", NEW w, NEW found,
           CsvSearchDelete(bytes[q.key], q.val) = {[left |-> w, found |-> found]}
    PROVE  Ran(q, w, Flag(found))
<1>1. Args(q) = << <<"CD">>, q.key, q.val>>
    BY DEF Args, CsvRequest
<1>2. Args(q)[1] = <<"CD">> /\ Args(q)[2] = q.key /\ Args(q)[3] = q.val
    BY <1>1, MessageAt
<1>3. RunKey("CD", q.key, Args(q)) =
          {[left |-> r.left, answer |-> Flag(r.found)] : r \in CsvSearchDelete(bytes[q.key], q.val)}
    BY <1>2 DEF RunKey, RunCsv
<1>4. [left |-> w, found |-> found].left = w /\ [left |-> w, found |-> found].found = found
    OBVIOUS
<1>5. RunKey("CD", q.key, Args(q)) = Left(w, Flag(found))
    BY <1>3, <1>4 DEF Left
<1> QED BY <1>2, <1>5, RunOne

LEMMA KeyRan ==
    ASSUME NEW q \in Interface!Requests
    PROVE  /\ q.op = "get" => Ran(q, bytes[q.key], Found(bytes[q.key]))
           /\ q.op = "remove" => Ran(q, <<>>, Flag(bytes[q.key] # <<>>))
           /\ q.op = "set" => Ran(q, q.val, Flag(TRUE))
<1>1. ASSUME q.op = "get" PROVE Ran(q, bytes[q.key], Found(bytes[q.key]))
    <2>1. Args(q) = << <<"G">>, q.key>>
        BY <1>1 DEF Args, PlainRequest
    <2>2. Args(q)[1] = <<"G">> /\ Args(q)[2] = q.key
        BY <2>1, MessageAt
    <2>3. RunKey("G", q.key, Args(q)) = Left(bytes[q.key], Found(bytes[q.key]))
        BY <2>2 DEF RunKey, RunPlain
    <2> QED BY <2>2, <2>3, RunOne
<1>2. ASSUME q.op = "remove" PROVE Ran(q, <<>>, Flag(bytes[q.key] # <<>>))
    <2>1. Args(q) = << <<"R">>, q.key>>
        BY <1>2 DEF Args, PlainRequest
    <2>2. Args(q)[1] = <<"R">> /\ Args(q)[2] = q.key
        BY <2>1, MessageAt
    <2>3. RunKey("R", q.key, Args(q)) = Left(<<>>, Flag(bytes[q.key] # <<>>))
        BY <2>2 DEF RunKey, RunPlain
    <2> QED BY <2>2, <2>3, RunOne
<1>3. ASSUME q.op = "set" PROVE Ran(q, q.val, Flag(TRUE))
    <2>1. Args(q) = << <<"S">>, q.key, q.val>>
        BY <1>3 DEF Args, PlainRequest
    <2>2. Args(q)[1] = <<"S">> /\ Args(q)[2] = q.key /\ Args(q)[3] = q.val
        BY <2>1, MessageAt
    <2>3. RunKey("S", q.key, Args(q)) = Left(q.val, Flag(TRUE))
        BY <2>2 DEF RunKey, RunPlain
    <2> QED BY <2>2, <2>3, RunOne
<1> QED BY <1>1, <1>2, <1>3

LEMMA LookupRan ==
    ASSUME NEW q \in Interface!Requests, LookupCall(q)
    PROVE  Run(Request(q)) = {[bytes |-> bytes, answer |-> Lookup(q.keys)]}
<1>1. Args(q) = << <<"L">>, TableName(q.keys)>>
    BY DEF Args, PlainRequest, LookupCall
<1>2. Args(q)[1] = <<"L">> /\ Args(q)[2] = TableName(q.keys)
    BY <1>1, MessageAt
<1>3. (IF Args(q)[2] = <<"c">> THEN CsvKeys ELSE PlainKeys) = q.keys
    <2>1. <<"c">> # <<"p">>
        BY DifferentWords
    <2> QED BY <1>2, <2>1 DEF TableName, LookupCall
<1>4. Request(q) = Args(q)
    BY RequestRead
<1> QED BY <1>2, <1>3, <1>4 DEF Run

(***************************************************************************)
(* What one request does to the lists the byte strings stand for.          *)
(***************************************************************************)
Applied(q) ==
    IF q.op = "lookup" THEN AbstractTable
    ELSE [AbstractTable EXCEPT ![q.key] = Interface!Effect(q, AbstractTable[q.key])]

Answered(q, ans) == AbstractResult(q, Result(q, ans))

Served(q, r) ==
    /\ Rep(r.bytes) /\ TableOf(r.bytes) = Applied(q)
    /\ r.answer \in Fields(Chars) /\ Answered(q, r.answer) = Interface!Outcome(q)

LEMMA TableOfBytes ==
    /\ AbstractTable = TableOf(bytes)
    /\ \A k \in CsvKeys : AbstractTable[k] = List(bytes[k])
    /\ \A k \in PlainKeys : AbstractTable[k] = bytes[k]
<1>1. \A k \in PlainKeys : k \notin CsvKeys
    BY ProtocolAssumption
<1> QED BY <1>1 DEF AbstractTable, TableOf, Keys

LEMMA ListUnder ==
    ASSUME Rep(bytes), NEW k \in CsvKeys
    PROVE  /\ AbstractTable[k] \in Seq(Elements) /\ AbstractTable[k] \in Seq(Names)
           /\ bytes[k] = Text(AbstractTable[k]) /\ k \in Keys /\ bytes[k] \in Seq(Chars)
           /\ (bytes[k] = <<>> <=> AbstractTable[k] = <<>>)
<1>1. AbstractTable[k] = List(bytes[k])
    BY TableOfBytes
<1>2. AbstractTable[k] \in Seq(Elements) /\ bytes[k] = Text(AbstractTable[k]) /\ k \in Keys
    BY <1>1 DEF Rep, Keys
<1>3. AbstractTable[k] \in Seq(Names)
    BY <1>2, ListsOfNames
<1>4. bytes[k] \in Seq(Chars) /\ (bytes[k] = <<>> <=> AbstractTable[k] = <<>>)
    BY <1>2, <1>3, ListOfText
<1> QED BY <1>2, <1>3, <1>4

LEMMA ServedBy ==
    ASSUME Rep(bytes), NEW q, q.op # "lookup", NEW w, NEW ans, Ran(q, w, ans),
           StandsFor(q.key, w, Interface!Effect(q, AbstractTable[q.key])),
           ans \in Fields(Chars), Answered(q, ans) = Interface!Outcome(q),
           NEW r \in Run(Request(q))
    PROVE  Served(q, r)
<1> DEFINE m == Interface!Effect(q, AbstractTable[q.key])
           k == q.key
<1>1. r = [bytes |-> [bytes EXCEPT ![k] = w], answer |-> ans]
    BY DEF Ran
<1>2. r.bytes = [bytes EXCEPT ![k] = w] /\ r.answer = ans
    BY <1>1
<1> HIDE DEF m, k
<1>3. Rep(bytes) /\ StandsFor(k, w, m)
    BY DEF k, m
<1>4. Rep([bytes EXCEPT ![k] = w]) /\ TableOf([bytes EXCEPT ![k] = w]) = [TableOf(bytes) EXCEPT ![k] = m]
    BY ONLY <1>3, TableUpdate
<1>5. Applied(q) = [TableOf(bytes) EXCEPT ![k] = m]
    BY TableOfBytes DEF Applied, k, m
<1> QED BY <1>2, <1>4, <1>5 DEF Served

LEMMA ListStandsFor ==
    ASSUME NEW k \in CsvKeys, NEW m \in Seq(Elements)
    PROVE  StandsFor(k, Text(m), m)
<1>1. m \in Seq(Names) /\ k \in Keys
    BY ListsOfNames DEF Keys
<1>2. Text(m) \in Seq(Chars)
    BY <1>1, ListOfText
<1> QED BY <1>1, <1>2 DEF StandsFor

LEMMA AppendServed ==
    ASSUME Rep(bytes), NEW q \in Interface!Requests, ListCall(q), q.op \in {"append", "prepend"},
           NEW r \in Run(Request(q))
    PROVE  Served(q, r)
<1> DEFINE k == q.key
           e == q.val
           l == AbstractTable[k]
           w == CsvExtend(bytes[k], e, q.op = "prepend")
           m == Interface!Effect(q, l)
<1>1. k \in CsvKeys /\ e \in Elements /\ e \in Names
    BY ListsOfNames DEF ListCall
<1>2. l \in Seq(Elements) /\ l \in Seq(Names) /\ bytes[k] = Text(l)
    BY <1>1, ListUnder
<1>3. m \in Seq(Elements) /\ w = Text(m)
    <2>1. CASE q.op = "append"
        <3>1. m = Append(l, e)
            BY <2>1 DEF Interface!Effect
        <3>2. w = CsvExtend(bytes[k], e, FALSE)
            <4>1. (q.op = "prepend") = FALSE
                BY <2>1
            <4> QED BY <4>1
        <3> HIDE DEF m, w, l, e, k
        <3>3. CsvExtend(Text(l), e, FALSE) = Text(Append(l, e))
            BY <1>1, <1>2, CsvExtendAppends
        <3>4. Append(l, e) \in Seq(Elements)
            BY ONLY <1>1, <1>2, AppendProperties
        <3> QED BY ONLY <1>2, <3>1, <3>2, <3>3, <3>4
    <2>2. CASE q.op = "prepend"
        <3>1. m = <<e>> \o l
            BY <2>2 DEF Interface!Effect
        <3>2. w = CsvExtend(bytes[k], e, TRUE)
            <4>1. (q.op = "prepend") = TRUE
                BY <2>2
            <4> QED BY <4>1
        <3> HIDE DEF m, w, l, e, k
        <3>3. CsvExtend(Text(l), e, TRUE) = Text(<<e>> \o l)
            BY <1>1, <1>2, CsvExtendPrepends
        <3>4. <<e>> \o l \in Seq(Elements)
            BY <1>1, <1>2, ConsAt
        <3> QED BY <1>2, <3>1, <3>2, <3>3, <3>4
    <2> QED BY <2>1, <2>2
<1>4. Ran(q, w, Flag(TRUE))
    BY AppendRan
<1>5. Flag(TRUE) \in Fields(Chars) /\ SetResult(Flag(TRUE)) = TRUE
    BY FlagRead
<1>6. Answered(q, Flag(TRUE)) = TRUE
    BY <1>5 DEF Answered, AbstractResult, Result
<1>7. Interface!Outcome(q) = TRUE
    <2>1. /\ q.op # "lookup" /\ q.op \in {"append", "prepend", "set"}
          /\ q.op \notin {"pop", "match_pop", "search_delete", "remove", "get"}
        OBVIOUS
    <2> QED BY <2>1, Zenon DEF Interface!Outcome
<1>8. StandsFor(k, w, m)
    <2> HIDE DEF m, w, k
    <2> QED BY <1>1, <1>3, ListStandsFor
<1>9. q.op # "lookup"
    OBVIOUS
<1> HIDE DEF w
<1> QED BY <1>4, <1>5, <1>6, <1>7, <1>8, <1>9, ServedBy

LEMMA PopServed ==
    ASSUME Rep(bytes), NEW q \in Interface!Requests, PopCall(q), NEW r \in Run(Request(q))
    PROVE  Served(q, r)
<1> DEFINE k == q.key
           l == AbstractTable[k]
           v == bytes[k]
           w == IF v = <<>> THEN v ELSE CsvPop(v)
           m == Interface!Effect(q, l)
           ans == Found(FirstValue(v))
<1>1. k \in CsvKeys /\ q.op = "pop" /\ q.op # "lookup"
    BY DEF PopCall
<1>2. /\ l \in Seq(Elements) /\ l \in Seq(Names) /\ v = Text(l) /\ (v = <<>> <=> l = <<>>)
      /\ v \in Seq(Chars)
    BY <1>1, ListUnder
<1>3. m = IF l = <<>> THEN l ELSE Tail(l)
    BY <1>1 DEF Interface!Effect
<1>4. Interface!Outcome(q) = IF l = <<>> THEN None ELSE Head(l)
    BY <1>1 DEF Interface!Outcome
<1>5. Answered(q, ans) = GetResult(ans)
    BY <1>1 DEF Answered, AbstractResult, Result
<1>6. Ran(q, w, ans)
    BY PopRan
<1>7. m \in Seq(Elements) /\ w = Text(m) /\ ans \in Fields(Chars) /\ GetResult(ans) = Interface!Outcome(q)
    <2> HIDE DEF m, k, l
    <2>1. CASE l = <<>>
        <3>1. w = v /\ m = l
            BY <1>2, <1>3, <2>1
        <3>2. FirstValue(v) = <<>>
            <4>1. v = <<>>
                BY <1>2, <2>1
            <4>2. FirstValue(<<>>) = Head(<< <<>> >>)
                BY SplitEmpty DEF FirstValue
            <4> QED BY <4>1, <4>2
        <3>3. Found(<<>>) \in Fields(Chars) /\ GetResult(Found(<<>>)) = None
            <4>1. <<>> \in Seq(Chars)
                OBVIOUS
            <4> QED BY <4>1, FoundRead
        <3> QED BY <1>2, <1>4, <2>1, <3>1, <3>2, <3>3
    <2>2. CASE l # <<>>
        <3>1. FirstValue(v) = Head(l) /\ CsvPop(v) = Text(Tail(l))
            BY <1>2, <2>2, CsvPopTakesHead
        <3>2. Head(l) \in Elements /\ Tail(l) \in Seq(Elements)
            BY <1>2, <2>2
        <3> DEFINE h == Head(l)
        <3>3. h \in Names
            BY <3>2, ListsOfNames
        <3> HIDE DEF h
        <3>4. h \in Seq(Chars) /\ h # <<>>
            BY <3>3, NameProperties
        <3>5. Found(h) \in Fields(Chars) /\ GetResult(Found(h)) = h
            BY <3>4, FoundRead
        <3>6. w = Text(Tail(l)) /\ m = Tail(l)
            BY <1>2, <1>3, <2>2, <3>1
        <3>7. ans = Found(h)
            BY <3>1 DEF h
        <3> QED BY <1>4, <2>2, <3>2, <3>5, <3>6, <3>7 DEF h
    <2> QED BY <2>1, <2>2
<1>8. StandsFor(k, w, m)
    <2> HIDE DEF m, w, k
    <2> QED BY <1>1, <1>7, ListStandsFor
<1> HIDE DEF w, ans
<1> QED BY <1>1, <1>5, <1>6, <1>7, <1>8, ServedBy

LEMMA MatchPopServed ==
    ASSUME Rep(bytes), NEW q \in Interface!Requests, ListCall(q), q.op = "match_pop",
           NEW r \in Run(Request(q))
    PROVE  Served(q, r)
<1> DEFINE k == q.key
           e == q.val
           l == AbstractTable[k]
           v == bytes[k]
           m == Interface!Effect(q, l)
           match == l # <<>> /\ Head(l) = e
<1>1. k \in CsvKeys /\ e \in Elements /\ e \in Names /\ q.op # "lookup"
    BY ListsOfNames DEF ListCall
<1>2. /\ l \in Seq(Elements) /\ l \in Seq(Names) /\ v = Text(l) /\ (v = <<>> <=> l = <<>>)
    BY <1>1, ListUnder
<1>3. m = IF match THEN Tail(l) ELSE l
    BY DEF Interface!Effect
<1>4. Interface!Outcome(q) = IF match THEN e ELSE None
    BY DEF Interface!Outcome
<1>5. \A ans : Answered(q, ans) = GetResult(ans)
    BY DEF Answered, AbstractResult, Result
<1>6. IF v = <<>> \/ FirstValue(v) # e THEN Ran(q, v, Found(<<>>)) ELSE Ran(q, CsvPop(v), Found(e))
    BY MatchPopRan
<1>7. l # <<>> => FirstValue(v) = Head(l) /\ CsvPop(v) = Text(Tail(l))
    <2> HIDE DEF l, v
    <2> QED BY <1>2, CsvPopTakesHead
<1> HIDE DEF l, v, m
<1>8. CASE match
    <2>1. Ran(q, CsvPop(v), Found(e)) /\ CsvPop(v) = Text(Tail(l)) /\ m = Tail(l)
        BY <1>2, <1>3, <1>6, <1>7, <1>8
    <2>2. Tail(l) \in Seq(Elements)
        BY <1>2, <1>8
    <2>3. Found(e) \in Fields(Chars) /\ GetResult(Found(e)) = e
        <3>1. e \in Seq(Chars) /\ e # <<>>
            BY <1>1, NameProperties
        <3> QED BY <3>1, FoundRead
    <2>4. StandsFor(k, CsvPop(v), m)
        <3> HIDE DEF k
        <3> QED BY <1>1, <2>1, <2>2, ListStandsFor
    <2>5. Answered(q, Found(e)) = Interface!Outcome(q)
        BY <1>4, <1>5, <1>8, <2>3
    <2> QED BY <1>1, <2>1, <2>3, <2>4, <2>5, ServedBy DEF l, m
<1>9. CASE ~match
    <2>1. Ran(q, v, Found(<<>>)) /\ m = l
        BY <1>2, <1>3, <1>6, <1>7, <1>9
    <2>2. Found(<<>>) \in Fields(Chars) /\ GetResult(Found(<<>>)) = None
        <3>1. <<>> \in Seq(Chars)
            OBVIOUS
        <3> QED BY <3>1, FoundRead
    <2>3. StandsFor(k, v, m)
        <3> HIDE DEF k
        <3> QED BY <1>1, <1>2, <2>1, ListStandsFor
    <2>4. Answered(q, Found(<<>>)) = Interface!Outcome(q)
        BY <1>4, <1>5, <1>9, <2>2
    <2> QED BY <1>1, <2>1, <2>2, <2>3, <2>4, ServedBy DEF l, m
<1> QED BY <1>8, <1>9

\* The interface and the store remove the first occurrence alike.
LEMMA InterfaceRemoveFirst ==
    ASSUME NEW l, NEW e
    PROVE  Interface!RemoveFirst(l, e) = RemoveFirst(l, e) /\ Interface!Range(l) = Range(l)
<1>1. Interface!RemoveFirst(l, e) = RemoveFirst(l, e)
    BY DEF Interface!RemoveFirst, RemoveFirst, Interface!RemoveAt, RemoveAt,
           Interface!SelectInSeq, SelectInSeq, Interface!Min, Min
<1>2. Interface!Range(l) = Range(l)
    BY DEF Interface!Range, Range
<1> QED BY <1>1, <1>2

LEMMA SearchDeleteServed ==
    ASSUME NEW n, OneLength(n), Rep(bytes), NEW q \in Interface!Requests, ListCall(q),
           q.op = "search_delete", NEW r \in Run(Request(q))
    PROVE  Served(q, r)
<1> DEFINE k == q.key
           e == q.val
           l == AbstractTable[k]
           w == Text(RemoveFirst(l, e))
           found == e \in Range(l)
           m == Interface!Effect(q, l)
<1>1. k \in CsvKeys /\ e \in Elements /\ q.op # "lookup"
    BY DEF ListCall
<1>2. l \in Seq(Elements) /\ bytes[k] = Text(l)
    BY <1>1, ListUnder
<1>3. m = RemoveFirst(l, e)
    <2>1. m = Interface!RemoveFirst(l, e)
        BY DEF Interface!Effect
    <2> QED BY <2>1, InterfaceRemoveFirst
<1>4. Interface!Outcome(q) = found
    <2>1. /\ q.op # "lookup" /\ q.op = "search_delete"
          /\ q.op \notin {"append", "prepend", "set", "pop", "match_pop", "remove", "get"}
        OBVIOUS
    <2>2. Interface!Outcome(q) = (e \in Interface!Range(l))
        BY <2>1, Zenon DEF Interface!Outcome
    <2> HIDE DEF l
    <2> QED BY <2>2, InterfaceRemoveFirst
<1> HIDE DEF l, e, k, m
<1>5. CsvSearchDelete(bytes[k], e) = {[left |-> w, found |-> found]}
    <2>1. CsvSearchDelete(Text(l), e) = {Searched(l, e)}
        BY <1>1, <1>2, SearchDeleteFinds
    <2> QED BY <1>2, <2>1 DEF Searched
<1> HIDE DEF w, found
<1>6. Ran(q, w, Flag(found))
    BY <1>5, SearchDeleteRan DEF k, e
<1>7. found \in BOOLEAN
    BY DEF found
<1>8. Flag(found) \in Fields(Chars) /\ SetResult(Flag(found)) = found
    BY <1>7, FlagRead
<1>9. Answered(q, Flag(found)) = SetResult(Flag(found))
    BY DEF Answered, AbstractResult, Result
<1>10. StandsFor(k, w, m)
    <2>1. RemoveFirst(l, e) \in Seq(Elements)
        BY <1>2, RemoveFirstProperties
    <2> QED BY <1>1, <1>3, <2>1, ListStandsFor DEF w
<1>11. Answered(q, Flag(found)) = Interface!Outcome(q)
    BY <1>4, <1>8, <1>9
<1> QED BY <1>1, <1>6, <1>8, <1>10, <1>11, ServedBy DEF k, l, m

LEMMA GetServed ==
    ASSUME Rep(bytes), NEW q \in Interface!Requests, KeyCall(q), q.op = "get",
           NEW r \in Run(Request(q))
    PROVE  Served(q, r)
<1> DEFINE k == q.key
           l == AbstractTable[k]
           v == bytes[k]
           m == Interface!Effect(q, l)
<1>1. k \in Keys /\ v \in Seq(Chars) /\ q.op # "lookup"
    BY DEF KeyCall, Rep
<1>2. /\ k \in CsvKeys => l = List(v) /\ l \in Seq(Elements) /\ v = Text(l) /\ (v = <<>> <=> l = <<>>)
      /\ k \notin CsvKeys => l = v
    BY <1>1, ListUnder, TableOfBytes DEF Keys
<1>3. m = l
    BY DEF Interface!Effect
<1>4. Interface!Outcome(q) = IF l = <<>> THEN None ELSE l
    BY DEF Interface!Outcome, Interface!Missing
<1>5. Ran(q, v, Found(v))
    BY KeyRan
<1>6. Found(v) \in Fields(Chars) /\ GetResult(Found(v)) = IF v = <<>> THEN None ELSE v
    BY <1>1, FoundRead
<1>7. None \notin Seq(Chars)
    BY ProtocolAssumption
<1>8. Answered(q, Found(v)) = LET x == GetResult(Found(v))
                              IN IF k \in CsvKeys /\ x # None THEN List(x) ELSE x
    BY DEF Answered, AbstractResult, Result
<1> HIDE DEF l, v, k, m
<1>9. Answered(q, Found(v)) = Interface!Outcome(q)
    BY <1>1, <1>2, <1>4, <1>6, <1>7, <1>8
<1>10. StandsFor(k, v, m)
    BY <1>1, <1>2, <1>3 DEF StandsFor
<1> QED BY <1>1, <1>5, <1>6, <1>9, <1>10, ServedBy DEF k, l, m

LEMMA RemoveServed ==
    ASSUME Rep(bytes), NEW q \in Interface!Requests, KeyCall(q), q.op = "remove",
           NEW r \in Run(Request(q))
    PROVE  Served(q, r)
<1> DEFINE k == q.key
           l == AbstractTable[k]
           v == bytes[k]
           m == Interface!Effect(q, l)
           there == v # <<>>
<1>1. k \in Keys /\ q.op # "lookup"
    BY DEF KeyCall
<1>2. (v = <<>>) <=> (l = <<>>)
    BY <1>1, ListUnder, TableOfBytes DEF Keys
<1>3. m = <<>>
    BY DEF Interface!Effect, Interface!Missing
<1>4. Interface!Outcome(q) = (l # <<>>)
    <2>1. /\ q.op # "lookup" /\ q.op = "remove"
          /\ q.op \notin {"append", "prepend", "set", "pop", "match_pop", "search_delete", "get"}
        OBVIOUS
    <2> QED BY <2>1, Zenon DEF Interface!Outcome, Interface!Missing
<1>5. Ran(q, <<>>, Flag(there))
    BY KeyRan
<1> HIDE DEF l, v, k, m
<1>6. there \in BOOLEAN /\ there = (l # <<>>)
    BY <1>2
<1> HIDE DEF there
<1>7. Flag(there) \in Fields(Chars) /\ SetResult(Flag(there)) = there
    BY <1>6, FlagRead
<1>8. Answered(q, Flag(there)) = SetResult(Flag(there))
    BY DEF Answered, AbstractResult, Result
<1>9. StandsFor(k, <<>>, m)
    <2>1. <<>> \in Seq(Chars) /\ <<>> \in Seq(Elements) /\ Text(<<>>) = <<>>
        BY DEF Text
    <2> QED BY <1>1, <1>3, <2>1 DEF StandsFor
<1>10. Answered(q, Flag(there)) = Interface!Outcome(q)
    BY <1>4, <1>6, <1>7, <1>8
<1> QED BY <1>1, <1>5, <1>7, <1>9, <1>10, ServedBy DEF k, l, m

LEMMA SetServed ==
    ASSUME Rep(bytes), NEW q \in Interface!Requests, SetCall(q), NEW r \in Run(Request(q))
    PROVE  Served(q, r)
<1> DEFINE k == q.key
           l == AbstractTable[k]
           m == Interface!Effect(q, l)
<1>1. q.op = "set" /\ k \in Keys /\ k \notin CsvKeys /\ q.val \in Seq(Chars) /\ q.op # "lookup"
    BY ProtocolAssumption DEF SetCall, Keys
<1>2. m = q.val
    BY <1>1 DEF Interface!Effect
<1>3. Interface!Outcome(q) = TRUE
    <2>1. /\ q.op # "lookup" /\ q.op \in {"append", "prepend", "set"}
          /\ q.op \notin {"pop", "match_pop", "search_delete", "remove", "get"}
        BY <1>1
    <2> QED BY <2>1, Zenon DEF Interface!Outcome
<1>4. Ran(q, q.val, Flag(TRUE))
    BY <1>1, KeyRan
<1>5. Flag(TRUE) \in Fields(Chars) /\ SetResult(Flag(TRUE)) = TRUE
    BY FlagRead
<1>6. Answered(q, Flag(TRUE)) = TRUE
    BY <1>1, <1>5 DEF Answered, AbstractResult, Result
<1> HIDE DEF m
<1>7. StandsFor(k, q.val, m)
    BY <1>1, <1>2 DEF StandsFor
<1> QED BY <1>1, <1>3, <1>4, <1>5, <1>6, <1>7, ServedBy DEF m

LEMMA LookupServed ==
    ASSUME Rep(bytes), NEW q \in Interface!Requests, LookupCall(q), NEW r \in Run(Request(q))
    PROVE  Served(q, r)
<1> DEFINE there == {k \in q.keys : bytes[k] # <<>>}
           ans == Lookup(q.keys)
<1>1. q.op = "lookup" /\ q.keys \subseteq Keys
    BY DEF LookupCall, Keys
<1>2. r.bytes = bytes /\ r.answer = ans
    <2>1. r = [bytes |-> bytes, answer |-> ans]
        BY LookupRan
    <2> QED BY <2>1
<1>3. Interface!Outcome(q) = there
    <2>1. \A k \in Keys : AbstractTable[k] # <<>> <=> bytes[k] # <<>>
        BY ListUnder, TableOfBytes DEF Keys
    <2>2. Interface!Outcome(q) = {k \in q.keys : AbstractTable[k] # <<>>}
        BY <1>1 DEF Interface!Outcome, Interface!Present, Interface!Missing
    <2> QED BY <1>1, <2>1, <2>2
<1>4. Answered(q, ans) = LookupResult(ans)
    BY <1>1 DEF Answered, AbstractResult, Result
<1>5. there \in SUBSET Keys /\ IsFiniteSet(there)
    <2>1. there \subseteq {k \in Keys : bytes[k] # <<>>}
        BY <1>1
    <2> QED BY <2>1, FS_Subset DEF Rep
<1>6. ans = IF there = {} THEN << <<"n">> >> ELSE << <<"l">>, Join(InOrder(there), Comma)>>
    BY DEF Lookup
<1>7. ans \in Fields(Chars) /\ LookupResult(ans) = there
    <2> HIDE DEF there, ans
    <2>1. CASE there = {}
        <3> DEFINE w == <<"n">>
        <3>1. w \in Seq(Chars)
            BY WordsOnWire DEF Words
        <3>2. ans = <<w>>
            BY <1>6, <2>1
        <3> HIDE DEF w
        <3>3. <<w>> \in Fields(Chars) /\ Len(<<w>>) = 1
            BY <3>1, MessageType
        <3>4. LookupResult(ans) = {}
            BY <3>2, <3>3 DEF LookupResult
        <3> QED BY <2>1, <3>2, <3>3, <3>4
    <2>2. CASE there # {}
        <3>1. ans = << <<"l">>, Join(InOrder(there), Comma)>>
            BY <1>6, <2>2
        <3> QED BY <1>5, <2>2, <3>1, KeysRead
    <2> QED BY <2>1, <2>2
<1>8. Applied(q) = TableOf(bytes)
    BY <1>1, TableOfBytes DEF Applied
<1> HIDE DEF ans, there
<1> QED BY <1>2, <1>3, <1>4, <1>7, <1>8 DEF Served

LEMMA RequestServed ==
    ASSUME NEW n, OneLength(n), Rep(bytes), NEW q \in Interface!Requests, NEW r \in Run(Request(q))
    PROVE  Served(q, r)
<1>1. CASE ListCall(q)
    <2>1. q.op \in {"append", "prepend"} \/ q.op = "match_pop" \/ q.op = "search_delete"
        BY <1>1 DEF ListCall
    <2> QED BY <1>1, <2>1, AppendServed, MatchPopServed, SearchDeleteServed
<1>2. CASE KeyCall(q)
    <2>1. q.op = "get" \/ q.op = "remove"
        BY <1>2 DEF KeyCall
    <2> QED BY <1>2, <2>1, GetServed, RemoveServed
<1> QED BY <1>1, <1>2, PopServed, SetServed, LookupServed, RequestKinds

(***************************************************************************)
(* The steps of the protocol as steps of the interface.                    *)
(***************************************************************************)
AbstractCall(x) ==
    CASE x.st = "idle" -> Closed
      [] x.st = "sent" -> [st |-> "called", q |-> x.q, n |-> x.n]
      [] x.st = "answered" -> [st |-> "done", q |-> x.q, result |-> Answered(x.q, x.args)]

InSending(q, i) == [st |-> "sent", q |-> q, args |-> Request(q), n |-> i]
InAnswer(q, args) == [st |-> "answered", q |-> q, args |-> args]

\* A connection is closed, carries a request of the interface, or its answer.
ConnOk(x) ==
    \/ x = Closed
    \/ \E q \in Interface!Requests : x = InSending(q, x.n)
    \/ \E q \in Interface!Requests : x = InAnswer(q, x.args)

\* The invariant: byte strings stand for lists, and what is on the wire and in
\* the backlog are requests of the interface.
WireInv ==
    /\ Rep(bytes)
    /\ DOMAIN conn = Clients /\ conn = [c \in Clients |-> conn[c]]
    /\ \A c \in Clients : ConnOk(conn[c])
    /\ \A o \in orphans : o[2] \in Interface!Requests

LEMMA AbstractCallIs ==
    /\ AbstractCall(Closed) = Closed /\ Closed.st = "idle"
    /\ \A q, i : AbstractCall(InSending(q, i)) = [st |-> "called", q |-> q, n |-> i]
    /\ \A q, args : AbstractCall(InAnswer(q, args)) =
                       [st |-> "done", q |-> q, result |-> Answered(q, args)]
<1>1. AbstractCall(Closed) = Closed /\ Closed.st = "idle"
    BY DEF AbstractCall, Closed
<1>2. ASSUME NEW q, NEW i
      PROVE  AbstractCall(InSending(q, i)) = [st |-> "called", q |-> q, n |-> i]
    <2> DEFINE x == InSending(q, i)
    <2>1. x.st = "sent" /\ x.q = q /\ x.n = i
        BY DEF InSending
    <2> HIDE DEF x
    <2>2. AbstractCall(x) = [st |-> "called", q |-> x.q, n |-> x.n]
        BY <2>1 DEF AbstractCall
    <2> QED BY <2>1, <2>2 DEF x
<1>3. ASSUME NEW q, NEW args
      PROVE  AbstractCall(InAnswer(q, args)) =
                 [st |-> "done", q |-> q, result |-> Answered(q, args)]
    <2> DEFINE x == InAnswer(q, args)
    <2>1. x.st = "answered" /\ x.q = q /\ x.args = args
        BY DEF InAnswer
    <2> HIDE DEF x
    <2>2. AbstractCall(x) = [st |-> "done", q |-> x.q, result |-> Answered(x.q, x.args)]
        BY <2>1 DEF AbstractCall
    <2> QED BY <2>1, <2>2 DEF x
<1> QED BY <1>1, <1>2, <1>3

LEMMA AbstractCallsIs ==
    /\ AbstractCalls = [c \in Clients |-> AbstractCall(conn[c])]
    /\ AbstractCalls' = [c \in Clients |-> AbstractCall(conn'[c])]
BY DEF AbstractCalls, AbstractCall, Answered

LEMMA CallsUpdate ==
    ASSUME WireInv, NEW c \in Clients, NEW x, conn' = [conn EXCEPT ![c] = x]
    PROVE  AbstractCalls' = [AbstractCalls EXCEPT ![c] = AbstractCall(x)]
<1>1. \A d \in Clients : conn'[d] = IF d = c THEN x ELSE conn[d]
    BY DEF WireInv
<1> QED BY <1>1, AbstractCallsIs

LEMMA WireUpdate ==
    ASSUME WireInv, NEW c \in Clients, NEW x, conn' = [conn EXCEPT ![c] = x], ConnOk(x)
    PROVE  /\ DOMAIN conn' = Clients /\ conn' = [d \in Clients |-> conn'[d]]
           /\ \A d \in Clients : ConnOk(conn'[d])
<1>1. \A d \in Clients : conn'[d] = IF d = c THEN x ELSE conn[d]
    BY DEF WireInv
<1>2. DOMAIN conn' = Clients /\ conn' = [d \in Clients |-> conn'[d]]
    BY DEF WireInv
<1> QED BY <1>1, <1>2 DEF WireInv

LEMMA ConnKinds ==
    ASSUME WireInv, NEW c \in Clients
    PROVE  /\ conn[c].st = "sent" =>
                 conn[c].q \in Interface!Requests /\ conn[c] = InSending(conn[c].q, conn[c].n)
           /\ conn[c].st = "answered" =>
                 conn[c].q \in Interface!Requests /\ conn[c] = InAnswer(conn[c].q, conn[c].args)
           /\ conn[c].st = "idle" <=> conn[c] = Closed
           /\ conn[c].st \in {"idle", "sent", "answered"}
           /\ ConnOk(conn[c])
<1>1. ConnOk(conn[c])
    BY DEF WireInv
<1>2. CASE conn[c] = Closed
    BY <1>1, <1>2 DEF Closed
<1>3. CASE \E q \in Interface!Requests : conn[c] = InSending(q, conn[c].n)
    <2> PICK q \in Interface!Requests : conn[c] = InSending(q, conn[c].n)
        BY <1>3
    <2>1. conn[c].st = "sent" /\ conn[c].q = q
        BY DEF InSending
    <2> QED BY <1>1, <2>1 DEF Closed
<1>4. CASE \E q \in Interface!Requests : conn[c] = InAnswer(q, conn[c].args)
    <2> PICK q \in Interface!Requests : conn[c] = InAnswer(q, conn[c].args)
        BY <1>4
    <2>1. conn[c].st = "answered" /\ conn[c].q = q
        BY DEF InAnswer
    <2> QED BY <1>1, <2>1 DEF Closed
<1> QED BY <1>1, <1>2, <1>3, <1>4 DEF ConnOk

LEMMA CallsAreRequests == Calls \subseteq Interface!Requests
BY DEF Calls, Interface!Requests, Interface!Keys, Keys

\* The database the server opens, and the lists of the interface at its start.
LEMMA OpensAsInterface ==
    ASSUME ProtoInit
    PROVE  WireInv /\ Interface!Init
<1>1. PICK l \in Stored, k \in CsvKeys :
         bytes = [x \in Keys |-> IF x = k /\ l # <<>> THEN Join(l, Comma) ELSE <<>>]
    BY DEF ProtoInit
<1>2. l \in Seq(Elements) /\ l \in Seq(Names) /\ \A x \in PlainKeys : x \notin CsvKeys
    BY ProtocolAssumption, ListsOfNames
<1>3. bytes = [x \in Keys |-> IF x = k THEN Text(l) ELSE <<>>]
    BY <1>1 DEF Text
<1>4. Text(l) \in Seq(Chars) /\ List(Text(l)) = l /\ <<>> \in Seq(Chars) /\ <<>> \in Seq(Elements)
    BY <1>2, ListOfText
<1>5. List(<<>>) = <<>> /\ Text(<<>>) = <<>> /\ k \in Keys
    BY DEF List, Text, Keys
<1> DEFINE t == Text(l)
<1> HIDE DEF t
<1>6. bytes = [x \in Keys |-> IF x = k THEN t ELSE <<>>]
    BY <1>3 DEF t
<1>7. t \in Seq(Chars) /\ List(t) = l /\ t = Text(l)
    BY <1>4 DEF t
<1>8. Rep(bytes)
    <2>1. bytes \in [Keys -> Seq(Chars)]
        BY <1>4, <1>6, <1>7
    <2>2. ASSUME NEW x \in CsvKeys
          PROVE  List(bytes[x]) \in Seq(Elements) /\ bytes[x] = Text(List(bytes[x]))
        <3>1. bytes[x] = t \/ bytes[x] = <<>>
            BY <1>6 DEF Keys
        <3>2. CASE bytes[x] = t
            BY <1>2, <1>7, <3>2
        <3>3. CASE bytes[x] = <<>>
            BY <1>4, <1>5, <3>3
        <3> QED BY <3>1, <3>2, <3>3
    <2>3. IsFiniteSet({x \in Keys : bytes[x] # <<>>})
        <3>1. {x \in Keys : bytes[x] # <<>>} \subseteq {k}
            BY <1>6
        <3> QED BY <3>1, FS_Singleton, FS_Subset
    <2> QED BY <2>1, <2>2, <2>3 DEF Rep
<1>9. conn = [c \in Clients |-> Closed] /\ orphans = {} /\ ncalls = 0
    BY DEF ProtoInit
<1>10. WireInv
    BY <1>8, <1>9 DEF WireInv, ConnOk
<1>11. AbstractTable \in [Interface!Keys -> Stored \cup {Interface!Missing}]
    <2>1. ASSUME NEW x \in Keys
          PROVE  (IF x \in CsvKeys THEN List(bytes[x]) ELSE bytes[x]) \in Stored \cup {<<>>}
        <3>1. x # k => bytes[x] = <<>>
            BY <1>6
        <3>2. CASE x = k
            BY <1>6, <1>7, <3>2
        <3>3. CASE x # k
            BY <1>5, <3>1, <3>3
        <3> QED BY <3>2, <3>3
    <2> QED BY <2>1 DEF AbstractTable, Keys, Interface!Keys, Interface!Missing
<1>12. \A x \in PlainKeys : AbstractTable[x] = Interface!Missing
    <2> SUFFICES ASSUME NEW x \in PlainKeys PROVE AbstractTable[x] = <<>>
        BY DEF Interface!Missing
    <2>1. x # k /\ x \in Keys
        BY <1>2 DEF Keys
    <2> QED BY <1>6, <2>1, TableOfBytes
<1>13. AbstractCalls = [c \in Clients |-> [st |-> "idle"]]
    <2>1. AbstractCall(Closed) = [st |-> "idle"]
        BY AbstractCallIs DEF Closed
    <2> QED BY <1>9, <2>1, AbstractCallsIs
<1> QED BY <1>9, <1>10, <1>11, <1>12, <1>13 DEF Interface!Init

LEMMA PostCalls ==
    ASSUME WireInv, NEW c \in Clients, Post(c)
    PROVE  WireInv' /\ Interface!Call(c)
<1>1. PICK q \in Calls : conn' = [conn EXCEPT ![c] = InSending(q, ncalls')]
    BY DEF Post, InSending
<1>2. q \in Interface!Requests
    BY CallsAreRequests
<1>3. bytes' = bytes /\ orphans' = orphans /\ conn[c] = Closed /\ ncalls' = ncalls + 1
    BY DEF Post
<1> DEFINE x == InSending(q, ncalls')
<1>4. ConnOk(x)
    <2>1. x.n = ncalls'
        BY DEF InSending
    <2> HIDE DEF x
    <2>2. x = InSending(q, x.n)
        BY <2>1 DEF x
    <2> QED BY <1>2, <2>2 DEF ConnOk
<1> HIDE DEF x
<1>5. WireInv'
    <2>1. /\ DOMAIN conn' = Clients /\ conn' = [d \in Clients |-> conn'[d]]
          /\ \A d \in Clients : ConnOk(conn'[d])
        BY <1>1, <1>4, WireUpdate DEF x
    <2> QED BY <1>3, <2>1 DEF WireInv
<1>6. AbstractCalls' = [AbstractCalls EXCEPT ![c] = [st |-> "called", q |-> q, n |-> ncalls']]
    <2>1. AbstractCalls' = [AbstractCalls EXCEPT ![c] = AbstractCall(x)]
        BY <1>1, CallsUpdate DEF x
    <2> QED BY <2>1, AbstractCallIs DEF x
<1>7. AbstractCalls[c].st = "idle"
    BY <1>3, AbstractCallsIs, AbstractCallIs
<1>8. AbstractTable' = AbstractTable
    BY <1>3 DEF AbstractTable
<1> QED BY <1>2, <1>3, <1>5, <1>6, <1>7, <1>8 DEF Interface!Call

LEMMA ServeApplies ==
    ASSUME NEW n, OneLength(n), WireInv, NEW c \in Clients, Serve(c)
    PROVE  WireInv' /\ Interface!Apply(c)
<1> DEFINE q == conn[c].q
<1>1. conn[c].st = "sent" /\ q \in Interface!Requests /\ conn[c] = InSending(q, conn[c].n)
    BY ConnKinds DEF Serve
<1>2. conn[c].args = Request(q)
    BY <1>1 DEF InSending
<1>3. PICK r \in Run(conn[c].args) :
         /\ bytes' = r.bytes
         /\ conn' = [conn EXCEPT ![c] = InAnswer(q, Sent(r.answer))]
    BY DEF Serve, InAnswer
<1> DEFINE x == InAnswer(q, r.answer)
<1> HIDE DEF q
<1>4. Rep(bytes)
    BY DEF WireInv
<1>5. Served(q, r)
    BY <1>1, <1>2, <1>4, RequestServed
<1>6. Sent(r.answer) = r.answer
    BY <1>5, SentIsRead DEF Served
<1> HIDE DEF x
<1>8. conn' = [conn EXCEPT ![c] = x]
    BY <1>3, <1>6 DEF x
<1>9. ConnOk(x)
    <2>1. x.args = r.answer
        BY DEF x, InAnswer
    <2> QED BY <1>1, <2>1 DEF ConnOk, x
<1>10. WireInv'
    <2>1. /\ DOMAIN conn' = Clients /\ conn' = [d \in Clients |-> conn'[d]]
          /\ \A d \in Clients : ConnOk(conn'[d])
        BY <1>8, <1>9, WireUpdate
    <2>2. Rep(bytes') /\ orphans' = orphans
        BY <1>3, <1>5 DEF Served, Serve
    <2> QED BY <2>1, <2>2 DEF WireInv
<1>11. AbstractCalls[c] = [st |-> "called", q |-> q, n |-> conn[c].n]
    <2>1. AbstractCalls[c] = AbstractCall(InSending(q, conn[c].n))
        BY <1>1, AbstractCallsIs
    <2> QED BY <2>1, AbstractCallIs
<1>12. AbstractCalls' = [AbstractCalls EXCEPT ![c] =
                           [st |-> "done", q |-> q, result |-> Interface!Outcome(q)]]
    <2>1. AbstractCalls' = [AbstractCalls EXCEPT ![c] = AbstractCall(x)]
        BY <1>8, CallsUpdate
    <2>2. AbstractCall(x) = [st |-> "done", q |-> q, result |-> Answered(q, r.answer)]
        BY AbstractCallIs DEF x
    <2>3. Answered(q, r.answer) = Interface!Outcome(q)
        BY <1>5 DEF Served
    <2> QED BY <2>1, <2>2, <2>3
<1>13. AbstractTable' = Applied(q)
    <2>1. TableOf(r.bytes) = Applied(q)
        BY <1>5 DEF Served
    <2>2. AbstractTable' = TableOf(bytes')
        BY DEF AbstractTable, TableOf
    <2> QED BY <1>3, <2>1, <2>2
<1>14. AbstractCalls[c].st = "called" /\ AbstractCalls[c].q = q
    BY <1>11
<1>15. Interface!Take(AbstractCalls[c].q)
    BY <1>13, <1>14 DEF Interface!Take, Applied
<1>16. orphans' = orphans /\ ncalls' = ncalls
    BY DEF Serve
<1> QED BY <1>10, <1>12, <1>14, <1>15, <1>16 DEF Interface!Apply

LEMMA OrphanAppliedLate ==
    ASSUME NEW n, OneLength(n), WireInv, NEW o \in orphans, ServeOrphan(o)
    PROVE  WireInv' /\ Interface!ApplyLate(o)
<1> DEFINE q == o[2]
<1>1. q \in Interface!Requests /\ Rep(bytes)
    BY DEF WireInv
<1>2. PICK r \in Run(Request(q)) : bytes' = r.bytes
    BY DEF ServeOrphan
<1>3. Served(q, r)
    BY <1>1, RequestServed
<1>4. conn' = conn /\ orphans' = orphans \ {o} /\ ncalls' = ncalls
    BY DEF ServeOrphan
<1>5. WireInv'
    <2>1. Rep(bytes')
        BY <1>2, <1>3 DEF Served
    <2> QED BY <1>4, <2>1 DEF WireInv
<1>6. AbstractTable' = Applied(q)
    <2>1. TableOf(r.bytes) = Applied(q)
        BY <1>3 DEF Served
    <2>2. AbstractTable' = TableOf(bytes')
        BY DEF AbstractTable, TableOf
    <2> QED BY <1>2, <2>1, <2>2
<1>7. Interface!Take(o[2])
    BY <1>6 DEF Interface!Take, Applied
<1>8. AbstractCalls' = AbstractCalls
    BY <1>4, AbstractCallsIs
<1> QED BY <1>4, <1>5, <1>7, <1>8 DEF Interface!ApplyLate

\* The connection closes, and nothing else of the store changes.
LEMMA ConnCloses ==
    ASSUME WireInv, NEW c \in Clients, bytes' = bytes, conn' = [conn EXCEPT ![c] = Closed],
           \A o \in orphans' : o[2] \in Interface!Requests
    PROVE  /\ WireInv' /\ AbstractTable' = AbstractTable
           /\ AbstractCalls' = [AbstractCalls EXCEPT ![c] = [st |-> "idle"]]
<1>1. AbstractTable' = AbstractTable
    BY DEF AbstractTable
<1>2. AbstractCalls' = [AbstractCalls EXCEPT ![c] = [st |-> "idle"]]
    <2>1. AbstractCalls' = [AbstractCalls EXCEPT ![c] = AbstractCall(Closed)]
        BY CallsUpdate
    <2>2. AbstractCall(Closed) = [st |-> "idle"]
        BY AbstractCallIs DEF Closed
    <2> QED BY <2>1, <2>2
<1>3. WireInv'
    <2>1. ConnOk(Closed)
        BY DEF ConnOk
    <2>2. /\ DOMAIN conn' = Clients /\ conn' = [d \in Clients |-> conn'[d]]
          /\ \A d \in Clients : ConnOk(conn'[d])
        BY <2>1, WireUpdate
    <2> QED BY <2>2 DEF WireInv
<1> QED BY <1>1, <1>2, <1>3

LEMMA ReceiveReturns ==
    ASSUME WireInv, NEW c \in Clients, Receive(c)
    PROVE  WireInv' /\ Interface!Return(c)
<1>1. /\ bytes' = bytes /\ conn' = [conn EXCEPT ![c] = Closed] /\ orphans' = orphans
      /\ conn[c].st = "answered" /\ ncalls' = ncalls
    BY DEF Receive
<1>2. \A o \in orphans' : o[2] \in Interface!Requests
    BY <1>1 DEF WireInv
<1>3. /\ WireInv' /\ AbstractTable' = AbstractTable
      /\ AbstractCalls' = [AbstractCalls EXCEPT ![c] = [st |-> "idle"]]
    BY <1>1, <1>2, ConnCloses
<1>4. AbstractCalls[c].st = "done"
    <2>1. conn[c] = InAnswer(conn[c].q, conn[c].args)
        BY <1>1, ConnKinds
    <2>2. AbstractCalls[c] = AbstractCall(InAnswer(conn[c].q, conn[c].args))
        BY <2>1, AbstractCallsIs
    <2> QED BY <2>2, AbstractCallIs
<1> QED BY <1>1, <1>3, <1>4 DEF Interface!Return

LEMMA GivingUpRaises ==
    ASSUME WireInv, NEW c \in Clients, Timeout(c) \/ Break(c)
    PROVE  WireInv' /\ Interface!Raise(c)
<1>1. /\ bytes' = bytes /\ conn' = [conn EXCEPT ![c] = Closed] /\ conn[c].st # "idle"
      /\ ncalls' = ncalls
      /\ \/ orphans' = orphans
         \/ conn[c].st = "sent" /\ orphans' = orphans \cup {<<c, conn[c].q, conn[c].n>>}
    <2>1. Break(c) => bytes' = bytes /\ conn' = [conn EXCEPT ![c] = Closed]
                        /\ conn[c].st # "idle" /\ orphans' = orphans /\ ncalls' = ncalls
        BY DEF Break
    <2> QED BY <2>1 DEF Timeout
<1>2. conn[c].st = "sent" =>
         AbstractCalls[c] = [st |-> "called", q |-> conn[c].q, n |-> conn[c].n]
    <2> SUFFICES ASSUME conn[c].st = "sent"
                 PROVE  AbstractCalls[c] = [st |-> "called", q |-> conn[c].q, n |-> conn[c].n]
        OBVIOUS
    <2>1. AbstractCalls[c] = AbstractCall(InSending(conn[c].q, conn[c].n))
        BY ConnKinds, AbstractCallsIs
    <2> QED BY <2>1, AbstractCallIs
<1>3. AbstractCalls[c].st # "idle"
    <2>1. CASE conn[c].st = "sent"
        BY <1>2, <2>1
    <2>2. CASE conn[c].st = "answered"
        <3>1. conn[c] = InAnswer(conn[c].q, conn[c].args)
            BY <2>2, ConnKinds
        <3>2. AbstractCalls[c] = AbstractCall(InAnswer(conn[c].q, conn[c].args))
            BY <3>1, AbstractCallsIs
        <3> QED BY <3>2, AbstractCallIs
    <2> QED BY <1>1, <2>1, <2>2, ConnKinds
<1>4. \A o \in orphans' : o[2] \in Interface!Requests
    <2>1. conn[c].st = "sent" => conn[c].q \in Interface!Requests
        BY ConnKinds
    <2>2. <<c, conn[c].q, conn[c].n>>[2] = conn[c].q
        OBVIOUS
    <2> QED BY <1>1, <2>1, <2>2 DEF WireInv
<1>5. /\ WireInv' /\ AbstractTable' = AbstractTable
      /\ AbstractCalls' = [AbstractCalls EXCEPT ![c] = [st |-> "idle"]]
    BY <1>1, <1>4, ConnCloses
<1>6. orphans' \in {orphans} \cup IF AbstractCalls[c].st = "called"
                                  THEN {orphans \cup {<<c, AbstractCalls[c].q, AbstractCalls[c].n>>}} ELSE {}
    BY <1>1, <1>2
<1> QED BY <1>1, <1>3, <1>5, <1>6 DEF Interface!Raise

LEMMA ProtocolStep ==
    ASSUME NEW n, OneLength(n), WireInv, [ProtoNext]_protoVars
    PROVE  WireInv' /\ [Interface!Next]_Interface!vars
<1>1. CASE UNCHANGED protoVars
    <2>1. bytes' = bytes /\ conn' = conn /\ orphans' = orphans /\ ncalls' = ncalls
        BY <1>1 DEF protoVars
    <2>2. WireInv'
        BY <2>1 DEF WireInv
    <2>3. AbstractTable' = AbstractTable /\ AbstractCalls' = AbstractCalls
        BY <2>1, AbstractCallsIs DEF AbstractTable
    <2> QED BY <2>1, <2>2, <2>3 DEF Interface!vars
<1>2. ASSUME NEW c \in Clients, Post(c) \/ Break(c) \/ Serve(c) \/ Receive(c) \/ Timeout(c)
      PROVE  WireInv' /\ Interface!Next
    <2>1. WireInv' /\ (Interface!Call(c) \/ Interface!Apply(c) \/ Interface!Return(c)
                          \/ Interface!Raise(c))
        BY <1>2, PostCalls, ServeApplies, ReceiveReturns, GivingUpRaises
    <2> QED BY <2>1 DEF Interface!Next
<1>3. ASSUME NEW o \in orphans, ServeOrphan(o)
      PROVE  WireInv' /\ Interface!Next
    <2>1. WireInv' /\ Interface!ApplyLate(o)
        BY <1>3, OrphanAppliedLate
    <2> QED BY <2>1 DEF Interface!Next
<1> QED BY <1>1, <1>2, <1>3 DEF ProtoNext

\* The proxy, the text on the wire, the server and the comma-separated byte
\* strings of LMDB implement the key-value interface (ImplementsInterface) for any
\* number of clients, keys and calls, as long as the elements of the lists have one
\* length, as the ids the SDK makes have; the strides of csv_search_delete need it.
THEOREM StoreImplementsInterface ==
    ASSUME NEW n, OneLength(n)
    PROVE  ProtoSpec => ImplementsInterface
<1>1. ProtoInit => WireInv /\ Interface!Init
    BY OpensAsInterface
<1>2. WireInv /\ [ProtoNext]_protoVars => WireInv' /\ [Interface!Next]_Interface!vars
    BY ProtocolStep
<1> QED BY <1>1, <1>2, PTL DEF ProtoSpec, ImplementsInterface, Interface!Spec

(***************************************************************************)
(* Every element is in one place: in one list, in a request that puts it   *)
(* there, in the answer to a pop, or with the client that popped it.       *)
(***************************************************************************)
Pushes(q) == q.op \in {"append", "prepend"}
Pops(q) == q.op \in {"pop", "match_pop"}

HeldList(t, p, e) == \E k \in CsvKeys : p = <<"list", k>> /\ e \in Range(t[k])

\* The element a connection carries to a list, and the one it carries to its client.
SentAt(y, e) == y.st = "sent" /\ Pushes(y.q) /\ e = y.q.val
AnswerAt(y, e) == y.st = "answered" /\ Pops(y.q) /\ e = Result(y.q, y.args) /\ e # None

HeldSent(cn, p, e) == \E c \in Clients : p = <<"sent", c>> /\ SentAt(cn[c], e)
HeldAnswer(cn, p, e) == \E c \in Clients : p = <<"answer", c>> /\ AnswerAt(cn[c], e)

HeldLate(os, p, e) == \E o \in os : p = <<"late", o>> /\ Pushes(o[2]) /\ e = o[2].val

\* A client that got e holds it; should d say twice, there are two places.
HeldOut(d, p, e) == e \in Elements /\ \E i \in 1..d[e] : p = <<"out", i>>

\* In the state s the place p holds the element e.
Held(s, p, e) ==
    \/ HeldList(s.table, p, e) \/ HeldSent(s.conn, p, e) \/ HeldAnswer(s.conn, p, e)
    \/ HeldLate(s.late, p, e) \/ HeldOut(s.out, p, e)

State(t, cn, os, d) == [table |-> t, conn |-> cn, late |-> os, out |-> d]

\* No list has an element twice; no element is in two places; all of them were used.
Distinct(t) == \A k \in CsvKeys : IsInjective(t[k])
OnePlace(s) == \A p, r, e : Held(s, p, e) /\ Held(s, r, e) => p = r
AllUsed(s, u) == \A p, e : Held(s, p, e) => e \in u

\* Nothing is returned but elements.
Counts(d) == d \in [Elements -> Nat]

Once(s, u) ==
    Distinct(s.table) /\ OnePlace(s) /\ AllUsed(s, u) /\ u \subseteq Elements /\ Counts(s.out)

\* The element x, unused until now or held elsewhere before, is now in the place new.
MovesTo(s, w, u, x, new) ==
    /\ \A p, e : Held(w, p, e) => Held(s, p, e) \/ (p = new /\ e = x)
    /\ x \notin u \/ \E old : Held(s, old, x) /\ ~Held(w, old, x)

LEMMA StateFields ==
    ASSUME NEW t, NEW cn, NEW os, NEW d
    PROVE  /\ State(t, cn, os, d).table = t /\ State(t, cn, os, d).conn = cn
           /\ State(t, cn, os, d).late = os /\ State(t, cn, os, d).out = d
BY DEF State

LEMMA NothingAdded ==
    ASSUME NEW s, NEW w, NEW u, NEW v, Once(s, u), u \subseteq v,
           \A p, e : Held(w, p, e) => Held(s, p, e),
           Distinct(w.table), Counts(w.out), v \subseteq Elements
    PROVE  Once(w, v)
<1>1. OnePlace(w)
    BY DEF Once, OnePlace
<1>2. AllUsed(w, v)
    BY DEF Once, AllUsed
<1> QED BY <1>1, <1>2 DEF Once

LEMMA OneMoves ==
    ASSUME NEW s, NEW w, NEW u, NEW v, Once(s, u), u \subseteq v,
           NEW x \in v, NEW new, MovesTo(s, w, u, x, new),
           Distinct(w.table), Counts(w.out), v \subseteq Elements
    PROVE  Once(w, v)
<1>1. ASSUME NEW p, Held(w, p, x) PROVE p = new
    <2> SUFFICES ASSUME p # new PROVE FALSE
        OBVIOUS
    <2>1. Held(s, p, x)
        BY <1>1 DEF MovesTo
    <2>2. x \in u
        BY <2>1 DEF Once, AllUsed
    <2>3. PICK old : Held(s, old, x) /\ ~Held(w, old, x)
        BY <2>2 DEF MovesTo
    <2>4. p = old
        BY <2>1, <2>3 DEF Once, OnePlace
    <2> QED BY <1>1, <2>3, <2>4
<1>2. OnePlace(w)
    <2> SUFFICES ASSUME NEW p, NEW r, NEW e, Held(w, p, e), Held(w, r, e) PROVE p = r
        BY DEF OnePlace
    <2>1. CASE e = x
        BY <1>1, <2>1
    <2>2. CASE e # x
        <3>1. Held(s, p, e) /\ Held(s, r, e)
            BY <2>2 DEF MovesTo
        <3> QED BY <3>1 DEF Once, OnePlace
    <2> QED BY <2>1, <2>2
<1>3. AllUsed(w, v)
    BY DEF Once, AllUsed, MovesTo
<1> QED BY <1>2, <1>3 DEF Once

LEMMA RangeIsToSet ==
    ASSUME NEW l
    PROVE  Range(l) = ToSet(l)
BY DEF Range, ToSet

\* What the operations make of a list without repetitions.
LEMMA PushedList ==
    ASSUME NEW l \in Seq(Elements), NEW e \in Elements, IsInjective(l), e \notin Range(l)
    PROVE  /\ IsInjective(Append(l, e)) /\ Range(Append(l, e)) = Range(l) \cup {e}
           /\ IsInjective(<<e>> \o l) /\ Range(<<e>> \o l) = Range(l) \cup {e}
<1>1. IsInjective(Append(l, e)) /\ Range(Append(l, e)) = Range(l) \cup {e}
    <2>1. e \notin ToSet(l)
        BY RangeIsToSet
    <2>2. ToSet(Append(l, e)) = ToSet(l) \cup {e} /\ IsInjective(Append(l, e))
        BY <2>1, AppendToSet, AppendDistinct
    <2> QED BY <2>2, RangeIsToSet
<1> DEFINE m == <<e>> \o l
<1>2. /\ m \in Seq(Elements) /\ Len(m) = Len(l) + 1 /\ m[1] = e
      /\ \A i \in 1..Len(l) : m[i + 1] = l[i]
    BY ConsAt
<1>3. Len(l) \in Nat /\ DOMAIN l = 1..Len(l)
    OBVIOUS
<1> HIDE DEF m
<1>4. DOMAIN m = 1..Len(l) + 1
    BY <1>2
<1>5. ASSUME NEW i \in DOMAIN m, i # 1 PROVE i - 1 \in DOMAIN l /\ m[i] = l[i - 1]
    <2>1. i - 1 \in 1..Len(l) /\ (i - 1) + 1 = i
        BY <1>3, <1>4, <1>5
    <2> QED BY <1>2, <1>3, <2>1
<1>6. IsInjective(m)
    <2> SUFFICES ASSUME NEW i \in DOMAIN m, NEW j \in DOMAIN m, m[i] = m[j] PROVE i = j
        BY DEF IsInjective
    <2>1. CASE i = 1 /\ j = 1
        BY <2>1
    <2>2. CASE i = 1 /\ j # 1
        BY <1>2, <1>5, <2>2 DEF Range
    <2>3. CASE i # 1 /\ j = 1
        BY <1>2, <1>5, <2>3 DEF Range
    <2>4. CASE i # 1 /\ j # 1
        <3>1. i - 1 \in DOMAIN l /\ j - 1 \in DOMAIN l /\ l[i - 1] = l[j - 1]
            BY <1>5, <2>4
        <3>2. i - 1 = j - 1 /\ i \in Nat /\ j \in Nat
            BY <1>3, <1>4, <3>1 DEF IsInjective
        <3> QED BY <3>2
    <2> QED BY <2>1, <2>2, <2>3, <2>4
<1>7. Range(m) = Range(l) \cup {e}
    <2>1. ASSUME NEW x \in Range(m) PROVE x \in Range(l) \cup {e}
        BY <1>2, <1>5 DEF Range
    <2>2. e \in Range(m)
        <3>1. 1 \in DOMAIN m
            BY <1>3, <1>4
        <3> QED BY <1>2, <3>1 DEF Range
    <2>3. ASSUME NEW x \in Range(l) PROVE x \in Range(m)
        <3>1. PICK i \in DOMAIN l : x = l[i]
            BY DEF Range
        <3>2. i + 1 \in DOMAIN m /\ m[i + 1] = x
            BY <1>2, <1>3, <1>4, <3>1
        <3> QED BY <3>2 DEF Range
    <2> QED BY <2>1, <2>2, <2>3
<1> QED BY <1>1, <1>6, <1>7 DEF m

LEMMA PoppedList ==
    ASSUME NEW l \in Seq(Elements), IsInjective(l), l # <<>>
    PROVE  /\ IsInjective(Tail(l)) /\ Range(Tail(l)) \subseteq Range(l)
           /\ Head(l) \in Range(l) /\ Head(l) \notin Range(Tail(l))
BY PopProperties, RangeIsToSet

LEMMA ReducedList ==
    ASSUME NEW l \in Seq(Elements), IsInjective(l), NEW e
    PROVE  IsInjective(RemoveFirst(l, e)) /\ Range(RemoveFirst(l, e)) \subseteq Range(l)
BY RemoveFirstProperties, RangeIsToSet

LEMMA EmptyList == IsInjective(<<>>) /\ Range(<<>>) = {}
BY DEF IsInjective, Range

LEMMA AppliedAt ==
    ASSUME NEW q, NEW k \in CsvKeys
    PROVE  /\ q.op = "lookup" \/ q.key # k => Applied(q)[k] = AbstractTable[k]
           /\ q.op # "lookup" /\ q.key = k => Applied(q)[k] = Interface!Effect(q, AbstractTable[k])
<1>1. k \in Keys /\ AbstractTable = [x \in Keys |-> AbstractTable[x]]
    BY DEF AbstractTable, Keys
<1> QED BY <1>1 DEF Applied

LEMMA ListsAfter ==
    ASSUME Rep(bytes), Distinct(AbstractTable), NEW q \in Interface!Requests, NEW k \in CsvKeys
    PROVE  /\ ~Pushes(q) => /\ IsInjective(Applied(q)[k])
                            /\ Range(Applied(q)[k]) \subseteq Range(AbstractTable[k])
           /\ Pushes(q) /\ q.key # k => Applied(q)[k] = AbstractTable[k]
           /\ Pushes(q) /\ q.key = k /\ q.val \notin Range(AbstractTable[k]) =>
                 /\ IsInjective(Applied(q)[k])
                 /\ Range(Applied(q)[k]) = Range(AbstractTable[k]) \cup {q.val}
<1> DEFINE l == AbstractTable[k]
           m == Interface!Effect(q, l)
<1>1. l \in Seq(Elements) /\ IsInjective(l)
    BY ListUnder DEF Distinct
<1>2. CASE q.op = "lookup" \/ q.key # k
    <2>1. Applied(q)[k] = l
        BY <1>2, AppliedAt
    <2>2. Pushes(q) => q.key # k
        BY <1>2 DEF Pushes
    <2> QED BY <1>1, <2>1, <2>2
<1>3. CASE q.op # "lookup" /\ q.key = k
    <2> HIDE DEF l
    <2>1. Applied(q)[k] = m
        BY <1>3, AppliedAt DEF l
    <2>2. CASE q.op = "append" /\ q.val \in Elements
        <3>1. m = Append(l, q.val) /\ Pushes(q)
            BY <2>2 DEF Interface!Effect, Pushes
        <3> HIDE DEF m
        <3>2. q.val \notin Range(l) => IsInjective(m) /\ Range(m) = Range(l) \cup {q.val}
            BY <1>1, <2>2, <3>1, PushedList
        <3> QED BY <1>3, <2>1, <3>1, <3>2 DEF l
    <2>3. CASE q.op = "prepend" /\ q.val \in Elements
        <3>1. m = <<q.val>> \o l /\ Pushes(q)
            BY <2>3 DEF Interface!Effect, Pushes
        <3> HIDE DEF m
        <3>2. q.val \notin Range(l) => IsInjective(m) /\ Range(m) = Range(l) \cup {q.val}
            BY <1>1, <2>3, <3>1, PushedList
        <3> QED BY <1>3, <2>1, <3>1, <3>2 DEF l
    <2>4. CASE ~Pushes(q)
        <3>1. m = l \/ m = <<>> \/ (l # <<>> /\ m = Tail(l)) \/ \E e : m = RemoveFirst(l, e)
            <4>1. CASE q.op = "pop"
                BY <4>1 DEF Interface!Effect
            <4>2. CASE q.op = "match_pop"
                BY <4>2 DEF Interface!Effect
            <4>3. CASE q.op = "search_delete"
                <5>1. m = Interface!RemoveFirst(l, q.val)
                    BY <4>3 DEF Interface!Effect
                <5> HIDE DEF m
                <5> QED BY <5>1, InterfaceRemoveFirst
            <4>4. CASE q.op = "remove"
                BY <4>4 DEF Interface!Effect, Interface!Missing
            <4>5. CASE q.op = "get"
                BY <4>5 DEF Interface!Effect
            <4>6. q.op # "set"
                <5>1. q.op = "set" => q.key \in PlainKeys
                    BY RequestKinds DEF ListCall, PopCall, KeyCall, SetCall, LookupCall
                <5> QED BY <1>3, <5>1, ProtocolAssumption
            <4> HIDE DEF m
            <4>7. q.op \in {"pop", "match_pop", "search_delete", "remove", "get", "set"}
                BY <1>3, <2>4, RequestKinds DEF Pushes, ListCall, PopCall, KeyCall, SetCall, LookupCall
            <4> QED BY <4>1, <4>2, <4>3, <4>4, <4>5, <4>6, <4>7
        <3> HIDE DEF m
        <3>2. IsInjective(m) /\ Range(m) \subseteq Range(l)
            <4>1. CASE m = l
                BY <1>1, <4>1
            <4>2. CASE m = <<>>
                BY <4>2, EmptyList
            <4>3. CASE l # <<>> /\ m = Tail(l)
                BY <1>1, <4>3, PoppedList
            <4>4. CASE \E e : m = RemoveFirst(l, e)
                BY <1>1, <4>4, ReducedList
            <4> QED BY <3>1, <4>1, <4>2, <4>3, <4>4
        <3> QED BY <2>1, <2>4, <3>2 DEF l
    <2>5. Pushes(q) => q.op \in {"append", "prepend"} /\ q.val \in Elements
        BY RequestKinds DEF Pushes, ListCall, PopCall, KeyCall, SetCall, LookupCall
    <2> QED BY <2>2, <2>3, <2>4, <2>5
<1> QED BY <1>2, <1>3

LEMMA PushKey ==
    ASSUME NEW q \in Interface!Requests, Pushes(q)
    PROVE  q.key \in CsvKeys /\ q.val \in Elements /\ ~Pops(q)
BY RequestKinds DEF Pushes, Pops, ListCall, PopCall, KeyCall, SetCall, LookupCall

LEMMA NothingPut ==
    ASSUME Rep(bytes), Distinct(AbstractTable), NEW q \in Interface!Requests, ~Pushes(q)
    PROVE  /\ Distinct(Applied(q))
           /\ \A p, e : HeldList(Applied(q), p, e) => HeldList(AbstractTable, p, e)
<1>1. \A k \in CsvKeys : /\ IsInjective(Applied(q)[k])
                         /\ Range(Applied(q)[k]) \subseteq Range(AbstractTable[k])
    BY ListsAfter
<1> QED BY <1>1 DEF Distinct, HeldList

LEMMA OnePut ==
    ASSUME Rep(bytes), Distinct(AbstractTable), NEW q \in Interface!Requests, Pushes(q),
           q.val \notin Range(AbstractTable[q.key])
    PROVE  /\ Distinct(Applied(q))
           /\ \A p, e : HeldList(Applied(q), p, e) =>
                 HeldList(AbstractTable, p, e) \/ (p = <<"list", q.key>> /\ e = q.val)
<1>1. \A k \in CsvKeys :
         /\ q.key # k => Applied(q)[k] = AbstractTable[k]
         /\ q.key = k => /\ IsInjective(Applied(q)[k])
                         /\ Range(Applied(q)[k]) = Range(AbstractTable[k]) \cup {q.val}
    BY ListsAfter
<1> QED BY <1>1 DEF Distinct, HeldList

LEMMA PopTakes ==
    ASSUME Rep(bytes), Distinct(AbstractTable), NEW q \in Interface!Requests, Pops(q),
           Interface!Outcome(q) # None
    PROVE  /\ HeldList(AbstractTable, <<"list", q.key>>, Interface!Outcome(q))
           /\ ~HeldList(Applied(q), <<"list", q.key>>, Interface!Outcome(q))
<1> DEFINE k == q.key
           l == AbstractTable[k]
           x == Interface!Outcome(q)
           m == Interface!Effect(q, l)
<1>1. k \in CsvKeys
    BY RequestKinds DEF Pops, ListCall, PopCall, KeyCall, SetCall, LookupCall
<1>2. l \in Seq(Elements) /\ IsInjective(l)
    BY <1>1, ListUnder DEF Distinct
<1>3. l # <<>> /\ x = Head(l) /\ m = Tail(l)
    <2>1. CASE q.op = "pop"
        <3>1. q.op # "lookup" /\ q.op \notin {"append", "prepend", "set", "match_pop", "search_delete", "remove", "get"}
            BY <2>1
        <3>2. x = IF l = <<>> THEN None ELSE Head(l)
            BY <2>1, <3>1, Zenon DEF Interface!Outcome
        <3>3. m = IF l = <<>> THEN l ELSE Tail(l)
            BY <2>1 DEF Interface!Effect
        <3> HIDE DEF x, m, l
        <3> QED BY <3>2, <3>3 DEF x
    <2>2. CASE q.op = "match_pop"
        <3>1. q.op # "lookup" /\ q.op \notin {"append", "prepend", "set", "pop", "search_delete", "remove", "get"}
            BY <2>2
        <3>2. x = IF l # <<>> /\ Head(l) = q.val THEN q.val ELSE None
            BY <2>2, <3>1, Zenon DEF Interface!Outcome
        <3>3. m = IF l # <<>> /\ Head(l) = q.val THEN Tail(l) ELSE l
            BY <2>2 DEF Interface!Effect
        <3> HIDE DEF x, m, l
        <3> QED BY <3>2, <3>3 DEF x
    <2> QED BY <2>1, <2>2 DEF Pops
<1>4. Applied(q)[k] = m
    <2>1. q.op # "lookup"
        BY DEF Pops
    <2> QED BY <1>1, <2>1, AppliedAt
<1> HIDE DEF x, m, l, k
<1>5. Head(l) \in Range(l) /\ Head(l) \notin Range(Tail(l))
    BY <1>2, <1>3, PoppedList
<1>6. x \in Range(AbstractTable[k]) /\ x \notin Range(Applied(q)[k])
    BY <1>3, <1>4, <1>5 DEF l
<1>7. \A j : <<"list", k>> = <<"list", j>> => j = k
    OBVIOUS
<1>8. HeldList(AbstractTable, <<"list", k>>, x) /\ ~HeldList(Applied(q), <<"list", k>>, x)
    BY <1>1, <1>6, <1>7 DEF HeldList
<1> QED BY <1>8 DEF k, x

\* What a connection holds after it has changed to y.
LEMMA ConnHeld ==
    ASSUME NEW cn, DOMAIN cn = Clients, NEW c \in Clients, NEW y, NEW p, NEW e
    PROVE  /\ HeldSent([cn EXCEPT ![c] = y], p, e) =>
                 IF p = <<"sent", c>> THEN SentAt(y, e) ELSE HeldSent(cn, p, e)
           /\ HeldAnswer([cn EXCEPT ![c] = y], p, e) =>
                 IF p = <<"answer", c>> THEN AnswerAt(y, e) ELSE HeldAnswer(cn, p, e)
<1> DEFINE dn == [cn EXCEPT ![c] = y]
<1>1. dn[c] = y /\ \A d \in Clients : d # c => dn[d] = cn[d]
    OBVIOUS
<1> HIDE DEF dn
<1>2. ASSUME HeldSent(dn, p, e)
      PROVE  IF p = <<"sent", c>> THEN SentAt(y, e) ELSE HeldSent(cn, p, e)
    <2>1. PICK d \in Clients : p = <<"sent", d>> /\ SentAt(dn[d], e)
        BY <1>2 DEF HeldSent
    <2>2. CASE d = c
        BY <1>1, <2>1, <2>2
    <2>3. CASE d # c
        BY <1>1, <2>1, <2>3 DEF HeldSent
    <2> QED BY <2>2, <2>3
<1>3. ASSUME HeldAnswer(dn, p, e)
      PROVE  IF p = <<"answer", c>> THEN AnswerAt(y, e) ELSE HeldAnswer(cn, p, e)
    <2>1. PICK d \in Clients : p = <<"answer", d>> /\ AnswerAt(dn[d], e)
        BY <1>3 DEF HeldAnswer
    <2>2. CASE d = c
        BY <1>1, <2>1, <2>2
    <2>3. CASE d # c
        BY <1>1, <2>1, <2>3 DEF HeldAnswer
    <2> QED BY <2>2, <2>3
<1> QED BY <1>2, <1>3 DEF dn

LEMMA HeldIs ==
    ASSUME NEW t, NEW cn, NEW os, NEW d, NEW p, NEW e
    PROVE  Held(State(t, cn, os, d), p, e) <=>
              \/ HeldList(t, p, e) \/ HeldSent(cn, p, e) \/ HeldAnswer(cn, p, e)
              \/ HeldLate(os, p, e) \/ HeldOut(d, p, e)
BY StateFields DEF Held

OnceInv == Once(State(AbstractTable, conn, orphans, delivered), used)

LEMMA OnceInvParts ==
    ASSUME OnceInv
    PROVE  Distinct(AbstractTable) /\ Counts(delivered) /\ used \subseteq Elements
BY StateFields DEF OnceInv, Once

\* A place of another kind holds something else.
LEMMA NotElsewhere ==
    ASSUME OnceInv, NEW p, NEW e, NEW k \in CsvKeys, p # <<"list", k>>,
           HeldSent(conn, p, e) \/ HeldLate(orphans, p, e)
    PROVE  e \notin Range(AbstractTable[k]) /\ e \in used
<1> DEFINE s == State(AbstractTable, conn, orphans, delivered)
<1>1. Held(s, p, e)
    BY HeldIs
<1>2. e \in Range(AbstractTable[k]) => Held(s, <<"list", k>>, e)
    BY HeldIs DEF HeldList
<1> HIDE DEF s
<1>3. OnePlace(s) /\ AllUsed(s, used)
    BY DEF OnceInv, Once, s
<1> QED BY <1>1, <1>2, <1>3 DEF OnePlace, AllUsed

LEMMA OnceAtStart ==
    ASSUME ProtoInit
    PROVE  OnceInv
<1> DEFINE s == State(AbstractTable, conn, orphans, delivered)
<1>1. PICK l \in Stored, k \in CsvKeys :
         /\ bytes = [x \in Keys |-> IF x = k /\ l # <<>> THEN Join(l, Comma) ELSE <<>>]
         /\ used = Range(l)
    BY DEF ProtoInit
<1>2. l \in Seq(Elements) /\ IsInjective(l) /\ List(Text(l)) = l
    BY ProtocolAssumption, ListsOfNames, ListOfText
<1>3. \A x \in CsvKeys : AbstractTable[x] = IF x = k THEN l ELSE <<>>
    <2> SUFFICES ASSUME NEW x \in CsvKeys PROVE AbstractTable[x] = IF x = k THEN l ELSE <<>>
        OBVIOUS
    <2>1. x \in Keys /\ AbstractTable[x] = List(bytes[x]) /\ List(<<>>) = <<>>
        BY TableOfBytes DEF Keys, List
    <2>2. bytes[x] = IF x = k THEN Text(l) ELSE <<>>
        BY <1>1, <2>1 DEF Text
    <2> QED BY <1>2, <2>1, <2>2
<1>4. Distinct(AbstractTable)
    BY <1>2, <1>3, EmptyList DEF Distinct
<1>5. conn = [c \in Clients |-> Closed] /\ orphans = {} /\ delivered = [e \in Elements |-> 0]
    BY DEF ProtoInit
<1>6. ASSUME NEW p, NEW e, Held(s, p, e) PROVE p = <<"list", k>> /\ e \in Range(l)
    <2>1. ~HeldSent(conn, p, e) /\ ~HeldAnswer(conn, p, e)
        BY <1>5 DEF HeldSent, HeldAnswer, SentAt, AnswerAt, Closed
    <2>2. ~HeldLate(orphans, p, e) /\ ~HeldOut(delivered, p, e)
        BY <1>5 DEF HeldLate, HeldOut
    <2>3. HeldList(AbstractTable, p, e)
        BY <1>6, <2>1, <2>2, HeldIs
    <2>4. PICK x \in CsvKeys : p = <<"list", x>> /\ e \in Range(AbstractTable[x])
        BY <2>3 DEF HeldList
    <2> QED BY <1>3, <2>4, EmptyList
<1>7. s.table = AbstractTable /\ s.out = delivered
    BY StateFields
<1> HIDE DEF s
<1>8. OnePlace(s) /\ AllUsed(s, used)
    BY <1>1, <1>6 DEF OnePlace, AllUsed
<1>9. Counts(delivered) /\ used \subseteq Elements
    <2>1. Range(l) \subseteq Elements
        BY <1>2 DEF Range
    <2> QED BY <1>1, <1>5, <2>1 DEF Counts
<1>10. Once(s, used)
    BY <1>4, <1>7, <1>8, <1>9 DEF Once
<1> QED BY <1>10 DEF OnceInv, s

\* Both lemmas on places, on the states before and after a step.
LEMMA StepAddsNothing ==
    ASSUME OnceInv, used' = used, delivered' = delivered, Distinct(AbstractTable'),
           \A p, e : Held(State(AbstractTable', conn', orphans', delivered'), p, e) =>
                         Held(State(AbstractTable, conn, orphans, delivered), p, e)
    PROVE  OnceInv'
<1> DEFINE s == State(AbstractTable, conn, orphans, delivered)
           w == State(AbstractTable', conn', orphans', delivered')
<1>1. w.table = AbstractTable' /\ w.out = delivered'
    BY StateFields
<1>2. Counts(delivered') /\ used' \subseteq Elements /\ used \subseteq used'
    BY OnceInvParts
<1>3. \A p, e : Held(w, p, e) => Held(s, p, e)
    OBVIOUS
<1>4. Once(s, used)
    BY DEF OnceInv
<1> HIDE DEF s, w
<1>5. Once(w, used')
    BY <1>1, <1>2, <1>3, <1>4, NothingAdded
<1> QED BY <1>5 DEF OnceInv, w

LEMMA StepMovesOne ==
    ASSUME OnceInv, used \subseteq used', Distinct(AbstractTable'), Counts(delivered'),
           used' \subseteq Elements,
           NEW x \in used', NEW new,
           MovesTo(State(AbstractTable, conn, orphans, delivered),
                   State(AbstractTable', conn', orphans', delivered'), used, x, new)
    PROVE  OnceInv'
<1> DEFINE s == State(AbstractTable, conn, orphans, delivered)
           w == State(AbstractTable', conn', orphans', delivered')
<1>1. w.table = AbstractTable' /\ w.out = delivered'
    BY StateFields
<1>2. MovesTo(s, w, used, x, new) /\ Once(s, used)
    BY DEF OnceInv
<1> HIDE DEF s, w
<1>3. Once(w, used')
    BY <1>1, <1>2, OneMoves
<1> QED BY <1>3 DEF OnceInv, w

\* A closed connection holds nothing.
LEMMA ClosedHolds ==
    ASSUME WireInv, NEW c \in Clients, conn' = [conn EXCEPT ![c] = Closed], NEW p, NEW e
    PROVE  /\ HeldSent(conn', p, e) => HeldSent(conn, p, e) /\ p # <<"sent", c>>
           /\ HeldAnswer(conn', p, e) => HeldAnswer(conn, p, e) /\ p # <<"answer", c>>
<1>1. DOMAIN conn = Clients
    BY DEF WireInv
<1>2. ~SentAt(Closed, e) /\ ~AnswerAt(Closed, e)
    BY DEF Closed, SentAt, AnswerAt
<1> QED BY <1>1, <1>2, ConnHeld

LEMMA PostKeepsOnce ==
    ASSUME WireInv, OnceInv, NEW c \in Clients, Post(c)
    PROVE  OnceInv'
<1>1. PICK q \in Calls :
         /\ conn' = [conn EXCEPT ![c] = InSending(q, ncalls')]
         /\ used' = IF Pushes(q) THEN used \cup {q.val} ELSE used
         /\ delivered' = IF Pushes(q) /\ q.val \in used
                         THEN [delivered EXCEPT ![q.val] = @ - 1] ELSE delivered
    BY DEF Post, InSending, Pushes
<1>2. bytes' = bytes /\ orphans' = orphans /\ AbstractTable' = AbstractTable
    BY DEF Post, AbstractTable
<1>3. Pushes(q) => q.val \in Elements /\ (q.val \notin used \/ delivered[q.val] > 0)
    BY DEF Calls, Pushes
<1> DEFINE y == InSending(q, ncalls')
           s == State(AbstractTable, conn, orphans, delivered)
           w == State(AbstractTable', conn', orphans', delivered')
<1>4. y.st = "sent" /\ y.q = q
    BY DEF InSending
<1> HIDE DEF y
<1>5. /\ Distinct(AbstractTable') /\ Counts(delivered) /\ used \subseteq used'
      /\ used' \subseteq Elements
    BY <1>1, <1>2, <1>3, OnceInvParts
<1>6. ASSUME NEW p, NEW e, Held(w, p, e),
             HeldOut(delivered', p, e) => HeldOut(delivered, p, e)
      PROVE  Held(s, p, e) \/ (Pushes(q) /\ p = <<"sent", c>> /\ e = q.val)
    <2>1. DOMAIN conn = Clients /\ conn' = [conn EXCEPT ![c] = y]
        BY <1>1 DEF WireInv, y
    <2>2. HeldSent(conn', p, e) =>
             HeldSent(conn, p, e) \/ (Pushes(q) /\ p = <<"sent", c>> /\ e = q.val)
        BY <1>4, <2>1, ConnHeld DEF SentAt
    <2>3. HeldAnswer(conn', p, e) => HeldAnswer(conn, p, e)
        BY <1>4, <2>1, ConnHeld DEF AnswerAt
    <2> QED BY <1>2, <1>6, <2>2, <2>3, HeldIs
<1>7. CASE Pushes(q) /\ q.val \in used
    <2> DEFINE v == q.val
               old == <<"out", delivered[v]>>
               new == <<"sent", c>>
    <2>1. v \in Elements /\ delivered[v] \in Nat \ {0}
        BY <1>3, <1>5, <1>7 DEF Counts
    <2>2. delivered' = [delivered EXCEPT ![v] = delivered[v] - 1]
        BY <1>1, <1>7
    <2>3. Counts(delivered')
        BY <1>5, <2>1, <2>2 DEF Counts
    <2> HIDE DEF v
    <2>4. /\ delivered'[v] = delivered[v] - 1
          /\ \A e \in Elements : e # v => delivered'[e] = delivered[e]
        BY <1>5, <2>1, <2>2 DEF Counts
    <2>5. ASSUME NEW p, NEW e, HeldOut(delivered', p, e) PROVE HeldOut(delivered, p, e)
        <3>1. PICK i \in 1..delivered'[e] : p = <<"out", i>>
            BY <2>5 DEF HeldOut
        <3>2. e \in Elements
            BY <2>5 DEF HeldOut
        <3>3. i \in 1..delivered[e]
            BY <1>5, <2>1, <2>4, <3>2 DEF Counts
        <3> QED BY <3>1, <3>2, <3>3 DEF HeldOut
    <2>6. HeldOut(delivered, old, v)
        <3>1. delivered[v] \in 1..delivered[v]
            BY <2>1
        <3> QED BY <2>1, <3>1 DEF HeldOut
    <2>7. ~HeldOut(delivered', old, v)
        <3> SUFFICES ASSUME NEW i \in 1..delivered'[v], old = <<"out", i>> PROVE FALSE
            BY DEF HeldOut
        <3>1. i = delivered[v]
            OBVIOUS
        <3> QED BY <2>1, <2>4, <3>1
    <2>8. Held(s, old, v)
        BY <2>6, HeldIs
    <2>9. ~Held(w, old, v)
        <3>1. ~HeldList(AbstractTable', old, v) /\ ~HeldSent(conn', old, v)
            BY DEF HeldList, HeldSent
        <3>2. ~HeldLate(orphans', old, v) /\ ~HeldAnswer(conn', old, v)
            BY DEF HeldLate, HeldAnswer
        <3> QED BY <2>7, <3>1, <3>2, HeldIs
    <2>10. v \in used'
        BY <1>1, <1>7 DEF v
    <2>11. ASSUME NEW p, NEW e, Held(w, p, e) PROVE Held(s, p, e) \/ (p = new /\ e = v)
        BY <1>6, <2>5, <2>11 DEF v
    <2> HIDE DEF old, new, s, w
    <2>12. MovesTo(s, w, used, v, new)
        BY <2>8, <2>9, <2>11 DEF MovesTo
    <2> QED BY <1>5, <2>3, <2>10, <2>12, StepMovesOne DEF s, w
<1>8. CASE Pushes(q) /\ q.val \notin used
    <2>1. delivered' = delivered
        BY <1>1, <1>8
    <2>2. MovesTo(s, w, used, q.val, <<"sent", c>>)
        BY <1>6, <1>8, <2>1 DEF MovesTo
    <2>3. q.val \in used'
        BY <1>1, <1>8
    <2> QED BY <1>5, <2>1, <2>2, <2>3, StepMovesOne
<1>9. CASE ~Pushes(q)
    <2>1. delivered' = delivered /\ used' = used
        BY <1>1, <1>9
    <2>2. \A p, e : Held(w, p, e) => Held(s, p, e)
        BY <1>6, <1>9, <2>1
    <2> QED BY <1>5, <2>1, <2>2, StepAddsNothing
<1> QED BY <1>7, <1>8, <1>9

\* What serving a request does, on the lists.
LEMMA ServeDoes ==
    ASSUME NEW n, OneLength(n), WireInv, NEW c \in Clients, Serve(c)
    PROVE  /\ conn[c].st = "sent" /\ conn[c].q \in Interface!Requests
           /\ AbstractTable' = Applied(conn[c].q)
           /\ orphans' = orphans /\ used' = used /\ delivered' = delivered
           /\ \E a : /\ conn' = [conn EXCEPT ![c] = InAnswer(conn[c].q, a)]
                     /\ Answered(conn[c].q, a) = Interface!Outcome(conn[c].q)
<1> DEFINE q == conn[c].q
<1>1. conn[c].st = "sent" /\ q \in Interface!Requests /\ conn[c] = InSending(q, conn[c].n)
    BY ConnKinds DEF Serve
<1>2. PICK r : conn' = [conn EXCEPT ![c] = InAnswer(q, Sent(r.answer))]
    BY DEF Serve, InAnswer
<1> DEFINE a == Sent(r.answer)
<1>3. Interface!Apply(c)
    BY ServeApplies
<1> HIDE DEF a, q
<1>4. AbstractCalls[c] = [st |-> "called", q |-> q, n |-> conn[c].n]
    <2>1. AbstractCalls[c] = AbstractCall(InSending(q, conn[c].n))
        BY <1>1, AbstractCallsIs
    <2> QED BY <2>1, AbstractCallIs
<1>5. AbstractCalls[c].q = q
    BY <1>4
<1>6. AbstractTable' = Applied(q)
    BY <1>3, <1>5 DEF Interface!Apply, Interface!Take, Applied
<1>7. Answered(q, a) = Interface!Outcome(q)
    <2>1. AbstractCalls'[c] = [st |-> "done", q |-> q, result |-> Interface!Outcome(q)]
        BY <1>3, <1>5, AbstractCallsIs DEF Interface!Apply
    <2>2. conn'[c] = InAnswer(q, a)
        BY <1>2 DEF WireInv, a
    <2>3. AbstractCalls'[c] = [st |-> "done", q |-> q, result |-> Answered(q, a)]
        BY <2>2, AbstractCallsIs, AbstractCallIs
    <2> QED BY <2>1, <2>3
<1>8. conn' = [conn EXCEPT ![c] = InAnswer(q, a)]
    BY <1>2 DEF a
<1>9. orphans' = orphans /\ used' = used /\ delivered' = delivered
    BY DEF Serve
<1> QED BY <1>1, <1>6, <1>7, <1>8, <1>9 DEF q

LEMMA ServeKeepsOnce ==
    ASSUME NEW n, OneLength(n), WireInv, OnceInv, NEW c \in Clients, Serve(c)
    PROVE  OnceInv'
<1> DEFINE q == conn[c].q
           s == State(AbstractTable, conn, orphans, delivered)
           w == State(AbstractTable', conn', orphans', delivered')
<1>1. /\ conn[c].st = "sent" /\ q \in Interface!Requests /\ AbstractTable' = Applied(q)
      /\ orphans' = orphans /\ used' = used /\ delivered' = delivered
    BY ServeDoes
<1>2. PICK a : /\ conn' = [conn EXCEPT ![c] = InAnswer(q, a)]
               /\ Answered(q, a) = Interface!Outcome(q)
    BY ServeDoes
<1>3. /\ Rep(bytes) /\ DOMAIN conn = Clients /\ Distinct(AbstractTable) /\ Counts(delivered)
      /\ used \subseteq Elements
    BY OnceInvParts DEF WireInv
<1> DEFINE x == Interface!Outcome(q)
           y == InAnswer(q, a)
<1>4. ASSUME NEW p, NEW e
      PROVE  /\ HeldSent(conn', p, e) => HeldSent(conn, p, e) /\ p # <<"sent", c>>
             /\ HeldAnswer(conn', p, e) =>
                   HeldAnswer(conn, p, e) \/ (Pops(q) /\ p = <<"answer", c>> /\ e = x /\ x # None)
    <2>1. ~SentAt(y, e)
        BY DEF SentAt, InAnswer
    <2>2. AnswerAt(y, e) => Pops(q) /\ e = Result(q, a) /\ e # None
        BY DEF AnswerAt, InAnswer
    <2>3. Pops(q) => Answered(q, a) = Result(q, a)
        BY DEF Pops, Answered, AbstractResult
    <2> HIDE DEF y, x, q
    <2>4. conn' = [conn EXCEPT ![c] = y]
        BY <1>2 DEF y
    <2>5. HeldSent(conn', p, e) => HeldSent(conn, p, e) /\ p # <<"sent", c>>
        BY <1>3, <2>1, <2>4, ConnHeld
    <2>6. HeldAnswer(conn', p, e) => HeldAnswer(conn, p, e) \/ (p = <<"answer", c>> /\ AnswerAt(y, e))
        BY <1>3, <2>4, ConnHeld
    <2> QED BY <1>2, <2>2, <2>3, <2>5, <2>6 DEF x
<1>5. ASSUME NEW p, NEW e PROVE HeldAnswer(conn, p, e) => p # <<"answer", c>>
    BY <1>1 DEF HeldAnswer, AnswerAt
<1>6. CASE Pushes(q)
    <2> DEFINE v == q.val
               old == <<"sent", c>>
               new == <<"list", q.key>>
    <2>1. q.key \in CsvKeys /\ ~Pops(q)
        BY <1>1, <1>6, PushKey
    <2>2. HeldSent(conn, old, v)
        BY <1>1, <1>6 DEF HeldSent, SentAt
    <2>3. v \notin Range(AbstractTable[q.key]) /\ v \in used
        BY <2>1, <2>2, NotElsewhere
    <2>4. /\ Distinct(AbstractTable')
          /\ \A p, e : HeldList(AbstractTable', p, e) =>
                HeldList(AbstractTable, p, e) \/ (p = new /\ e = v)
        BY <1>1, <1>3, <1>6, <2>3, OnePut
    <2>5. ASSUME NEW p, NEW e, Held(w, p, e) PROVE Held(s, p, e) \/ (p = new /\ e = v)
        BY <1>1, <1>4, <2>1, <2>4, <2>5, HeldIs
    <2>6. Held(s, old, v)
        BY <2>2, HeldIs
    <2>7. ~Held(w, old, v)
        <3>1. ~HeldList(AbstractTable', old, v) /\ ~HeldAnswer(conn', old, v)
            BY DEF HeldList, HeldAnswer
        <3>2. ~HeldLate(orphans', old, v) /\ ~HeldOut(delivered', old, v)
            BY DEF HeldLate, HeldOut
        <3> QED BY <1>4, <3>1, <3>2, HeldIs
    <2> HIDE DEF v, old, new, q
    <2>8. MovesTo(s, w, used, v, new)
        BY <2>5, <2>6, <2>7 DEF MovesTo
    <2> QED BY <1>1, <1>3, <2>3, <2>4, <2>8, StepMovesOne
<1>7. CASE Pops(q) /\ x # None
    <2> DEFINE old == <<"list", q.key>>
               new == <<"answer", c>>
    <2>1. ~Pushes(q)
        BY <1>7 DEF Pops, Pushes
    <2>2. HeldList(AbstractTable, old, x) /\ ~HeldList(AbstractTable', old, x)
        BY <1>1, <1>3, <1>7, PopTakes
    <2>3. /\ Distinct(AbstractTable')
          /\ \A p, e : HeldList(AbstractTable', p, e) => HeldList(AbstractTable, p, e)
        BY <1>1, <1>3, <2>1, NothingPut
    <2> HIDE DEF q, x
    <2>4. ASSUME NEW p, NEW e, Held(w, p, e) PROVE Held(s, p, e) \/ (p = new /\ e = x)
        BY <1>1, <1>4, <2>3, <2>4, HeldIs
    <2>5. Held(s, old, x)
        BY <2>2, HeldIs
    <2>6. ~Held(w, old, x)
        <3>1. ~HeldSent(conn', old, x) /\ ~HeldAnswer(conn', old, x)
            BY DEF HeldSent, HeldAnswer
        <3>2. ~HeldLate(orphans', old, x) /\ ~HeldOut(delivered', old, x)
            BY DEF HeldLate, HeldOut
        <3> QED BY <2>2, <3>1, <3>2, HeldIs
    <2>7. x \in used
        <3>1. AllUsed(s, used)
            BY DEF OnceInv, Once
        <3> QED BY <2>5, <3>1 DEF AllUsed
    <2> HIDE DEF old, new
    <2>8. MovesTo(s, w, used, x, new)
        BY <2>4, <2>5, <2>6 DEF MovesTo
    <2> QED BY <1>1, <1>3, <2>3, <2>7, <2>8, StepMovesOne
<1>8. CASE ~Pushes(q) /\ ~(Pops(q) /\ x # None)
    <2>1. /\ Distinct(AbstractTable')
          /\ \A p, e : HeldList(AbstractTable', p, e) => HeldList(AbstractTable, p, e)
        BY <1>1, <1>3, <1>8, NothingPut
    <2> HIDE DEF q, x
    <2>2. \A p, e : Held(w, p, e) => Held(s, p, e)
        BY <1>1, <1>4, <1>8, <2>1, HeldIs
    <2> QED BY <1>1, <2>1, <2>2, StepAddsNothing
<1> QED BY <1>6, <1>7, <1>8

LEMMA OrphanKeepsOnce ==
    ASSUME NEW n, OneLength(n), WireInv, OnceInv, NEW o \in orphans, ServeOrphan(o)
    PROVE  OnceInv'
<1> DEFINE q == o[2]
           s == State(AbstractTable, conn, orphans, delivered)
           w == State(AbstractTable', conn', orphans', delivered')
<1>1. q \in Interface!Requests /\ Rep(bytes)
    BY DEF WireInv
<1>2. AbstractTable' = Applied(q)
    <2>1. Interface!ApplyLate(o)
        BY OrphanAppliedLate
    <2> QED BY <2>1 DEF Interface!ApplyLate, Interface!Take, Applied
<1>3. /\ conn' = conn /\ orphans' = orphans \ {o} /\ used' = used /\ delivered' = delivered
      /\ Distinct(AbstractTable) /\ Counts(delivered)
      /\ used \subseteq Elements
    BY OnceInvParts DEF ServeOrphan
<1>4. ASSUME NEW p, NEW e, HeldLate(orphans', p, e)
      PROVE  HeldLate(orphans, p, e) /\ p # <<"late", o>>
    BY <1>3, <1>4 DEF HeldLate
<1>5. CASE Pushes(q)
    <2> DEFINE v == q.val
               old == <<"late", o>>
               new == <<"list", q.key>>
    <2>1. q.key \in CsvKeys
        BY <1>1, <1>5, PushKey
    <2>2. HeldLate(orphans, old, v)
        BY <1>5 DEF HeldLate
    <2>3. v \notin Range(AbstractTable[q.key]) /\ v \in used
        BY <2>1, <2>2, NotElsewhere
    <2>4. /\ Distinct(AbstractTable')
          /\ \A p, e : HeldList(AbstractTable', p, e) =>
                HeldList(AbstractTable, p, e) \/ (p = new /\ e = v)
        BY <1>1, <1>2, <1>3, <1>5, <2>3, OnePut
    <2>5. ASSUME NEW p, NEW e, Held(w, p, e) PROVE Held(s, p, e) \/ (p = new /\ e = v)
        BY <1>3, <1>4, <2>4, <2>5, HeldIs
    <2>6. Held(s, old, v)
        BY <2>2, HeldIs
    <2>7. ~Held(w, old, v)
        <3>1. ~HeldList(AbstractTable', old, v) /\ ~HeldAnswer(conn', old, v)
            BY DEF HeldList, HeldAnswer
        <3>2. ~HeldSent(conn', old, v) /\ ~HeldOut(delivered', old, v)
            BY DEF HeldSent, HeldOut
        <3> QED BY <1>4, <3>1, <3>2, HeldIs
    <2> HIDE DEF v, old, new, q
    <2>8. MovesTo(s, w, used, v, new)
        BY <2>5, <2>6, <2>7 DEF MovesTo
    <2> QED BY <1>3, <2>3, <2>4, <2>8, StepMovesOne
<1>6. CASE ~Pushes(q)
    <2>1. /\ Distinct(AbstractTable')
          /\ \A p, e : HeldList(AbstractTable', p, e) => HeldList(AbstractTable, p, e)
        BY <1>1, <1>2, <1>3, <1>6, NothingPut
    <2>2. \A p, e : Held(w, p, e) => Held(s, p, e)
        BY <1>3, <1>4, <2>1, HeldIs
    <2> QED BY <1>3, <2>1, <2>2, StepAddsNothing
<1> QED BY <1>5, <1>6

LEMMA ReceiveKeepsOnce ==
    ASSUME WireInv, OnceInv, NEW c \in Clients, Receive(c)
    PROVE  OnceInv'
<1> DEFINE q == conn[c].q
           x == Result(q, conn[c].args)
           s == State(AbstractTable, conn, orphans, delivered)
           w == State(AbstractTable', conn', orphans', delivered')
<1>1. /\ conn[c].st = "answered" /\ bytes' = bytes /\ conn' = [conn EXCEPT ![c] = Closed]
      /\ orphans' = orphans /\ used' = used
      /\ delivered' = IF Pops(q) /\ x # None THEN [delivered EXCEPT ![x] = @ + 1] ELSE delivered
    BY DEF Receive, Pops
<1>2. /\ AbstractTable' = AbstractTable /\ Distinct(AbstractTable) /\ Counts(delivered)
      /\ used \subseteq Elements
    BY <1>1, OnceInvParts DEF AbstractTable
<1>3. ASSUME NEW p, NEW e
      PROVE  /\ HeldSent(conn', p, e) => HeldSent(conn, p, e) /\ p # <<"sent", c>>
             /\ HeldAnswer(conn', p, e) => HeldAnswer(conn, p, e) /\ p # <<"answer", c>>
    BY <1>1, ClosedHolds
<1>4. CASE Pops(q) /\ x # None
    <2> DEFINE old == <<"answer", c>>
               new == <<"out", delivered[x] + 1>>
    <2>1. HeldAnswer(conn, old, x)
        BY <1>1, <1>4 DEF HeldAnswer, AnswerAt
    <2>2. Held(s, old, x)
        BY <2>1, HeldIs
    <2>3. x \in used
        <3>1. AllUsed(s, used)
            BY DEF OnceInv, Once
        <3> QED BY <2>2, <3>1 DEF AllUsed
    <2> HIDE DEF x, q
    <2>4. x \in Elements /\ delivered' = [delivered EXCEPT ![x] = delivered[x] + 1]
        BY <1>1, <1>2, <1>4, <2>3
    <2>5. /\ Counts(delivered') /\ delivered'[x] = delivered[x] + 1 /\ delivered[x] \in Nat
          /\ \A e \in Elements : e # x => delivered'[e] = delivered[e]
        BY <1>2, <2>4 DEF Counts
    <2>5a. ASSUME NEW p, NEW e, HeldOut(delivered', p, e)
          PROVE  HeldOut(delivered, p, e) \/ (p = new /\ e = x)
        <3>1. PICK i \in 1..delivered'[e] : p = <<"out", i>>
            BY <2>5a DEF HeldOut
        <3>2. e \in Elements
            BY <2>5a DEF HeldOut
        <3>3. i \in 1..delivered[e] \/ (e = x /\ i = delivered[x] + 1)
            BY <2>5, <3>2
        <3> QED BY <3>1, <3>2, <3>3 DEF HeldOut
    <2> HIDE DEF new
    <2>6. ASSUME NEW p, NEW e, Held(w, p, e) PROVE Held(s, p, e) \/ (p = new /\ e = x)
        <3>1. AbstractTable' = AbstractTable /\ orphans' = orphans
            BY <1>1, <1>2
        <3>2. \/ HeldList(AbstractTable', p, e) \/ HeldSent(conn', p, e) \/ HeldAnswer(conn', p, e)
              \/ HeldLate(orphans', p, e) \/ HeldOut(delivered', p, e)
            BY <2>6, HeldIs
        <3> HIDE DEF s, w
        <3>3. \/ HeldList(AbstractTable, p, e) \/ HeldSent(conn, p, e) \/ HeldAnswer(conn, p, e)
              \/ HeldLate(orphans, p, e) \/ HeldOut(delivered, p, e) \/ (p = new /\ e = x)
            BY <1>3, <2>5a, <3>1, <3>2
        <3> QED BY <3>3, HeldIs DEF s
    <2>7. ~Held(w, old, x)
        <3>1. ~HeldList(AbstractTable', old, x) /\ ~HeldSent(conn', old, x)
            BY DEF HeldList, HeldSent
        <3>2. ~HeldLate(orphans', old, x) /\ ~HeldOut(delivered', old, x)
            BY DEF HeldLate, HeldOut
        <3> QED BY <1>3, <3>1, <3>2, HeldIs
    <2> HIDE DEF old
    <2>8. MovesTo(s, w, used, x, new)
        BY <2>2, <2>6, <2>7 DEF MovesTo
    <2> QED BY <1>1, <1>2, <2>3, <2>5, <2>8, StepMovesOne
<1>5. CASE ~(Pops(q) /\ x # None)
    <2>1. delivered' = delivered
        BY <1>1, <1>5
    <2> HIDE DEF q, x
    <2>2. \A p, e : Held(w, p, e) => Held(s, p, e)
        BY <1>1, <1>2, <1>3, <2>1, HeldIs
    <2> QED BY <1>1, <1>2, <2>1, <2>2, StepAddsNothing
<1> QED BY <1>4, <1>5

LEMMA GivingUpKeepsOnce ==
    ASSUME WireInv, OnceInv, NEW c \in Clients, Timeout(c) \/ Break(c)
    PROVE  OnceInv'
<1> DEFINE q == conn[c].q
           late == <<c, q, conn[c].n>>
           s == State(AbstractTable, conn, orphans, delivered)
           w == State(AbstractTable', conn', orphans', delivered')
<1>1. /\ bytes' = bytes /\ conn' = [conn EXCEPT ![c] = Closed]
      /\ used' = used /\ delivered' = delivered
      /\ orphans' = orphans \/ (conn[c].st = "sent" /\ orphans' = orphans \cup {late})
    <2>1. Break(c) => /\ bytes' = bytes /\ conn' = [conn EXCEPT ![c] = Closed]
                      /\ used' = used /\ delivered' = delivered /\ orphans' = orphans
        BY DEF Break
    <2> QED BY <2>1 DEF Timeout
<1>2. /\ AbstractTable' = AbstractTable /\ Distinct(AbstractTable) /\ Counts(delivered)
      /\ used \subseteq Elements
    BY <1>1, OnceInvParts DEF AbstractTable
<1>3. ASSUME NEW p, NEW e
      PROVE  /\ HeldSent(conn', p, e) => HeldSent(conn, p, e) /\ p # <<"sent", c>>
             /\ HeldAnswer(conn', p, e) => HeldAnswer(conn, p, e) /\ p # <<"answer", c>>
    BY <1>1, ClosedHolds
<1>4. late[2] = q
    OBVIOUS
<1> HIDE DEF late
<1>5. ASSUME NEW p, NEW e, HeldLate(orphans', p, e)
      PROVE  \/ HeldLate(orphans, p, e)
             \/ conn[c].st = "sent" /\ Pushes(q) /\ p = <<"late", late>> /\ e = q.val
    <2> HIDE DEF q
    <2> QED BY <1>1, <1>4, <1>5 DEF HeldLate
<1>6. CASE conn[c].st = "sent" /\ Pushes(q)
    <2> DEFINE v == q.val
               old == <<"sent", c>>
               new == <<"late", late>>
    <2>1. HeldSent(conn, old, v)
        BY <1>6 DEF HeldSent, SentAt
    <2>2. Held(s, old, v)
        BY <2>1, HeldIs
    <2>3. v \in used
        <3>1. AllUsed(s, used)
            BY DEF OnceInv, Once
        <3> QED BY <2>2, <3>1 DEF AllUsed
    <2> HIDE DEF v, q
    <2>4. ASSUME NEW p, NEW e, Held(w, p, e) PROVE Held(s, p, e) \/ (p = new /\ e = v)
        <3>1. HeldLate(orphans', p, e) => HeldLate(orphans, p, e) \/ (p = new /\ e = v)
            BY <1>5 DEF v
        <3> QED BY <1>1, <1>2, <1>3, <2>4, <3>1, HeldIs
    <2>5. ~Held(w, old, v)
        <3>1. ~HeldList(AbstractTable', old, v) /\ ~HeldAnswer(conn', old, v)
            BY DEF HeldList, HeldAnswer
        <3>2. ~HeldLate(orphans', old, v) /\ ~HeldOut(delivered', old, v)
            BY DEF HeldLate, HeldOut
        <3> QED BY <1>3, <3>1, <3>2, HeldIs
    <2> HIDE DEF old, new
    <2>6. MovesTo(s, w, used, v, new)
        BY <2>2, <2>4, <2>5 DEF MovesTo
    <2> QED BY <1>1, <1>2, <2>3, <2>6, StepMovesOne
<1>7. CASE ~(conn[c].st = "sent" /\ Pushes(q))
    <2>1. \A p, e : HeldLate(orphans', p, e) => HeldLate(orphans, p, e)
        BY <1>5, <1>7
    <2>2. \A p, e : Held(w, p, e) => Held(s, p, e)
        BY <1>1, <1>2, <1>3, <2>1, HeldIs
    <2> QED BY <1>1, <1>2, <2>2, StepAddsNothing
<1> QED BY <1>6, <1>7

LEMMA StepKeepsOnce ==
    ASSUME NEW n, OneLength(n), WireInv, OnceInv, [ProtoNext]_protoVars
    PROVE  OnceInv'
<1>1. CASE UNCHANGED protoVars
    BY <1>1 DEF protoVars, OnceInv, AbstractTable
<1>2. ASSUME NEW c \in Clients, Post(c) \/ Break(c) \/ Serve(c) \/ Receive(c) \/ Timeout(c)
      PROVE  OnceInv'
    BY <1>2, PostKeepsOnce, ServeKeepsOnce, ReceiveKeepsOnce, GivingUpKeepsOnce
<1>3. ASSUME NEW o \in orphans, ServeOrphan(o) PROVE OnceInv'
    BY <1>3, OrphanKeepsOnce
<1> QED BY <1>1, <1>2, <1>3 DEF ProtoNext

LEMMA OnceIsPoppedOnce ==
    ASSUME OnceInv
    PROVE  PoppedOnce
<1> DEFINE s == State(AbstractTable, conn, orphans, delivered)
<1>1. OnePlace(s) /\ Counts(delivered)
    BY OnceInvParts DEF OnceInv, Once
<1>2. ASSUME NEW e \in Elements, NEW i \in 1..delivered[e] PROVE Held(s, <<"out", i>>, e)
    <2>1. HeldOut(delivered, <<"out", i>>, e)
        BY DEF HeldOut
    <2> QED BY <2>1, HeldIs
<1>3. ASSUME NEW k \in CsvKeys, NEW e \in Range(List(bytes[k])) PROVE Held(s, <<"list", k>>, e)
    <2>1. HeldList(AbstractTable, <<"list", k>>, e)
        BY TableOfBytes DEF HeldList
    <2> QED BY <2>1, HeldIs
<1> HIDE DEF s
<1>4. ASSUME NEW e \in Elements, ~(delivered[e] <= 1) PROVE FALSE
    <2>1. 1 \in 1..delivered[e] /\ 2 \in 1..delivered[e]
        BY <1>1, <1>4 DEF Counts
    <2>2. Held(s, <<"out", 1>>, e) /\ Held(s, <<"out", 2>>, e)
        BY <1>2, <2>1
    <2>3. <<"out", 1>> = <<"out", 2>>
        BY <1>1, <2>2, Zenon DEF OnePlace
    <2> QED BY <2>3
<1>5. ASSUME NEW e \in Elements, delivered[e] > 0, NEW k \in CsvKeys, e \in Range(List(bytes[k]))
      PROVE  FALSE
    <2>1. 1 \in 1..delivered[e]
        BY <1>1, <1>5 DEF Counts
    <2>2. <<"out", 1>> = <<"list", k>>
        BY <1>1, <1>2, <1>3, <1>5, <2>1 DEF OnePlace
    <2> QED BY <2>2
<1> QED BY <1>4, <1>5 DEF PoppedOnce

\* An element that is put into a list is returned by at most one csv_pop or
\* csv_match_pop before a client puts it into one again, and is in no list in
\* between, for any number of clients and calls that time out, are repeated, or
\* are served after their client has given up.
THEOREM PoppedAtMostOnce ==
    ASSUME NEW n, OneLength(n)
    PROVE  ProtoSpec => []PoppedOnce
<1>1. ProtoInit => WireInv /\ OnceInv
    BY OpensAsInterface, OnceAtStart
<1>2. WireInv /\ OnceInv /\ [ProtoNext]_protoVars => WireInv' /\ OnceInv'
    BY ProtocolStep, StepKeepsOnce
<1>3. OnceInv => PoppedOnce
    BY OnceIsPoppedOnce
<1> QED BY <1>1, <1>2, <1>3, PTL DEF ProtoSpec
=============================================================================
