----------------------------- MODULE GatewayProofs -----------------------------
(***************************************************************************)
(* Proofs about Gateway, for any number of nodes, whatever they declare    *)
(* and whatever is asked for.                                              *)
(***************************************************************************)
EXTENDS Gateway, SequenceTheorems, WellFoundedInduction, TLAPS

(***************************************************************************)
(* Induction, as facts about sets of natural numbers                       *)
(***************************************************************************)
Less == OpToRel(<, Nat)

\* A set of natural numbers has a least element.
LEMMA LeastNat ==
  ASSUME NEW T \in SUBSET Nat, T # {}
  PROVE  \E m \in T : \A k \in T : m <= k
<1>1. IsWellFoundedOn(Less, Nat)
  BY NatLessThanWellFounded DEF Less
<1>2. PICK m \in T : \A k \in T : <<k, m>> \notin Less
  BY <1>1, WFMin
<1>3. \A k \in T : ~(k < m)
  BY <1>2 DEF Less, OpToRel
<1> QED
  BY <1>2, <1>3

\* A set that has 0 and the successor of each of its elements has them all.
LEMMA AllNat ==
  ASSUME NEW T \in SUBSET Nat, 0 \in T, \A n \in Nat : n \in T => n + 1 \in T
  PROVE  T = Nat
<1> SUFFICES ASSUME T # Nat
             PROVE FALSE
  OBVIOUS
<1>1. PICK m \in Nat \ T : \A k \in Nat \ T : m <= k
  BY LeastNat
<1>2. m # 0 /\ m - 1 \in Nat
  BY <1>1
<1>3. m - 1 \in T
  BY <1>1, <1>2
<1>4. m - 1 + 1 \in T
  BY <1>2, <1>3
<1> QED
  BY <1>1, <1>4

\* A bounded set of natural numbers has a greatest element.
LEMMA GreatestNat ==
  ASSUME NEW b \in Nat, NEW T \in SUBSET (0..b), T # {}
  PROVE  \E m \in T : \A k \in T : k <= m
<1> DEFINE U == {b - k : k \in T}
<1>1. U \in SUBSET Nat /\ U # {}
  <2>1. \A k \in T : k \in Int /\ 0 <= k /\ k <= b
    OBVIOUS
  <2>2. \A k \in T : b - k \in Nat
    BY <2>1
  <2>3. \A u \in U : u \in Nat
    BY <2>2
  <2>4. \E k \in T : b - k \in U
    OBVIOUS
  <2> QED
    BY <2>3, <2>4
<1> HIDE DEF U
<1>2. PICK u \in U : \A w \in U : u <= w
  BY <1>1, LeastNat
<1>3. PICK m \in T : u = b - m
  BY <1>2 DEF U
<1>4. ASSUME NEW k \in T PROVE k <= m
  <2>1. b - k \in U
    BY DEF U
  <2>2. b - m <= b - k
    BY <1>2, <1>3, <2>1
  <2>3. k \in Nat /\ m \in Nat
    OBVIOUS
  <2> QED
    BY <2>2, <2>3
<1> QED
  BY <1>4

\* The first element of a set of positions is one of them.
LEMMA MinFacts ==
  ASSUME NEW S \in SUBSET Nat, S # {}
  PROVE  Min(S) \in S /\ \A i \in S : Min(S) <= i
<1>1. PICK m \in S : \A i \in S : m <= i
  BY LeastNat
<1> QED
  BY <1>1 DEF Min

(***************************************************************************)
(* Prefixes                                                                *)
(***************************************************************************)
\* A prefix agrees with the sequence as far as it goes.
LEMMA PrefixFacts ==
  ASSUME NEW S, NEW s \in Seq(S), NEW t \in Seq(S)
  PROVE  IsPrefix(s, t) <=> Len(s) <= Len(t) /\ \A i \in 1..Len(s) : s[i] = t[i]
<1>1. CASE Len(s) <= Len(t)
  <2>1. SubSeq(s, 1, Len(s)) = s
    BY SubSeqFull
  <2>2. /\ SubSeq(t, 1, Len(s)) \in Seq(S)
        /\ Len(SubSeq(t, 1, Len(s))) = Len(s)
        /\ \A i \in 1..Len(s) : SubSeq(t, 1, Len(s))[i] = t[i]
    BY <1>1, SubSeqProperties
  <2>3. s = SubSeq(t, 1, Len(s)) <=> \A i \in 1..Len(s) : s[i] = t[i]
    BY <2>2, SeqEqual
  <2> QED
    BY <1>1, <2>1, <2>3 DEF IsPrefix
<1>2. CASE ~(Len(s) <= Len(t))
  BY <1>2 DEF IsPrefix
<1> QED
  BY <1>1, <1>2

\* Of two prefixes of a sequence the shorter one is a prefix of the longer one.
LEMMA PrefixesAgree ==
  ASSUME NEW S, NEW r \in Seq(S), NEW s \in Seq(S), NEW t \in Seq(S),
         IsPrefix(r, t), IsPrefix(s, t), Len(r) <= Len(s)
  PROVE  IsPrefix(r, s)
<1>1. \A i \in 1..Len(r) : r[i] = t[i]
  BY PrefixFacts
<1>2. \A i \in 1..Len(s) : s[i] = t[i]
  BY PrefixFacts
<1>3. Len(r) \in Nat /\ Len(s) \in Nat
  BY LenProperties
<1>4. \A i \in 1..Len(r) : i \in 1..Len(s) /\ r[i] = s[i]
  BY <1>1, <1>2, <1>3
<1> QED
  BY <1>4, PrefixFacts

(***************************************************************************)
(* The routing table                                                       *)
(***************************************************************************)
\* Each node has one place in routing.yaml.
LEMMA OrderFacts ==
  /\ Len(Order) \in Nat \ {0} /\ DOMAIN Order = 1..Len(Order)
  /\ \A i \in 1..Len(Order) : Order[i] \in Node /\ Position(Order[i]) = i
  /\ \A n \in Node : Position(n) \in 1..Len(Order) /\ Order[Position(n)] = n
<1>1. Len(Order) \in Nat \ {0} /\ DOMAIN Order = 1..Len(Order)
  BY OrderAssumption, EmptySeq, LenProperties
<1>2. \A i \in 1..Len(Order) : Order[i] \in Node
  BY <1>1 DEF Node, ToSet
<1>3. \A i \in 1..Len(Order) : Position(Order[i]) = i
  BY <1>1, OrderAssumption DEF IsInjective, Position
<1>4. \A n \in Node : Position(n) \in 1..Len(Order) /\ Order[Position(n)] = n
  BY <1>1, <1>3 DEF Node, ToSet
<1> QED
  BY <1>1, <1>2, <1>3, <1>4

\* The loop of the constructor for one key: what it has after i nodes.
LEMMA ReplicasLoop ==
  ASSUME NEW c, NEW k
  PROVE  \E f :
           /\ Replicas(c, k) = f[Len(Order)]
           /\ f[0] = <<>>
           /\ \A i \in 1..Len(Order) :
                f[i] = IF k \in ToSet(c[Order[i]]) THEN Append(f[i - 1], Order[i]) ELSE f[i - 1]
<1> DEFINE Loop(g, n) ==
             g = [i \in 0..n |->
                    IF i = 0 THEN <<>>
                    ELSE IF k \in ToSet(c[Order[i]]) THEN Append(g[i - 1], Order[i])
                    ELSE g[i - 1]]
           T == {n \in Nat : \E g : Loop(g, n)}
<1>1. 0 \in T
  <2>1. Loop([i \in 0..0 |-> <<>>], 0)
    OBVIOUS
  <2> QED
    BY <2>1
<1>2. ASSUME NEW n \in Nat, n \in T PROVE n + 1 \in T
  <2>1. PICK g : Loop(g, n)
    BY <1>2
  <2> DEFINE last == IF k \in ToSet(c[Order[n + 1]]) THEN Append(g[n], Order[n + 1]) ELSE g[n]
             h == [i \in 0..(n + 1) |-> IF i = n + 1 THEN last ELSE g[i]]
  <2>2. \A i \in 0..(n + 1) :
          h[i] = IF i = 0 THEN <<>>
                 ELSE IF k \in ToSet(c[Order[i]]) THEN Append(h[i - 1], Order[i])
                 ELSE h[i - 1]
    <3> SUFFICES ASSUME NEW i \in 0..(n + 1)
                 PROVE  h[i] = IF i = 0 THEN <<>>
                               ELSE IF k \in ToSet(c[Order[i]]) THEN Append(h[i - 1], Order[i])
                               ELSE h[i - 1]
      OBVIOUS
    <3>1. CASE i = n + 1
      <4>1. h[i] = last /\ h[i - 1] = g[n] /\ i # 0
        BY <3>1
      <4> QED
        BY <3>1, <4>1
    <3>2. CASE i = 0
      BY <2>1, <3>2
    <3>3. CASE i \in 1..n
      <4>1. h[i] = g[i] /\ h[i - 1] = g[i - 1] /\ i # 0
        BY <3>3
      <4>2. g[i] = IF k \in ToSet(c[Order[i]]) THEN Append(g[i - 1], Order[i]) ELSE g[i - 1]
        <5>1. i \in 0..n /\ i # 0
          BY <3>3
        <5> HIDE DEF h
        <5> QED
          BY <2>1, <5>1
      <4> HIDE DEF h
      <4> QED
        BY <4>1, <4>2
    <3> QED
      BY <3>1, <3>2, <3>3
  <2>3. DOMAIN h = 0..(n + 1) /\ h = [i \in 0..(n + 1) |-> h[i]]
    OBVIOUS
  <2> HIDE DEF h
  <2>4. Loop(h, n + 1)
    BY <2>2, <2>3
  <2> QED
    BY <2>4
<1>3. Len(Order) \in T
  <2>1. T \in SUBSET Nat
    OBVIOUS
  <2> HIDE DEF T
  <2> QED
    BY <1>1, <1>2, <2>1, AllNat, OrderFacts
<1> DEFINE f == CHOOSE g : Loop(g, Len(Order))
<1>4. Loop(f, Len(Order))
  BY <1>3
<1>5. Replicas(c, k) = f[Len(Order)]
  BY DEF Replicas
<1> HIDE DEF f
<1>6. f[0] = <<>>
  BY <1>4, OrderFacts
<1>7. \A i \in 1..Len(Order) :
        f[i] = IF k \in ToSet(c[Order[i]]) THEN Append(f[i - 1], Order[i]) ELSE f[i - 1]
  <2> SUFFICES ASSUME NEW i \in 1..Len(Order)
               PROVE  f[i] = IF k \in ToSet(c[Order[i]]) THEN Append(f[i - 1], Order[i])
                             ELSE f[i - 1]
    OBVIOUS
  <2>1. i \in 0..Len(Order) /\ i # 0
    BY OrderFacts
  <2> QED
    BY <1>4, <2>1
<1> QED
  BY <1>5, <1>6, <1>7

\* The replicas of a key are the nodes that declare it, in the order of
\* routing.yaml, each of them once.
LEMMA ReplicasFacts ==
  ASSUME NEW c, NEW k
  PROVE  LET found == Replicas(c, k) IN
         /\ found \in Seq(Node)
         /\ ToSet(found) = {n \in Node : k \in ToSet(c[n])}
         /\ \A i, j \in 1..Len(found) : i < j => Position(found[i]) < Position(found[j])
<1>1. PICK f :
        /\ Replicas(c, k) = f[Len(Order)]
        /\ f[0] = <<>>
        /\ \A i \in 1..Len(Order) :
             f[i] = IF k \in ToSet(c[Order[i]]) THEN Append(f[i - 1], Order[i]) ELSE f[i - 1]
  BY ReplicasLoop
<1> DEFINE Inv(m) ==
             /\ f[m] \in Seq(Node)
             /\ \A i \in 1..Len(f[m]) : Position(f[m][i]) <= m /\ k \in ToSet(c[f[m][i]])
             /\ \A i, j \in 1..Len(f[m]) : i < j => Position(f[m][i]) < Position(f[m][j])
             /\ \A n \in Node : Position(n) <= m /\ k \in ToSet(c[n]) =>
                  \E i \in 1..Len(f[m]) : f[m][i] = n
           T == {m \in Nat : m <= Len(Order) => Inv(m)}
<1>2. 0 \in T
  <2>1. f[0] \in Seq(Node) /\ Len(f[0]) = 0
    BY <1>1, EmptySeq
  <2>2. \A n \in Node : ~(Position(n) <= 0)
    BY OrderFacts
  <2>3. Inv(0)
    BY <2>1, <2>2
  <2> HIDE DEF Inv
  <2> QED
    BY <2>3
<1>3. ASSUME NEW m \in Nat, m \in T PROVE m + 1 \in T
  <2> HIDE DEF Inv
  <2> SUFFICES ASSUME m + 1 <= Len(Order) PROVE Inv(m + 1)
    BY m + 1 \in Nat
  <2>1. m <= Len(Order) /\ m + 1 \in 1..Len(Order)
    BY OrderFacts
  <2>2. Inv(m)
    BY <1>3, <2>1
  <2> USE DEF Inv
  <2> DEFINE next == Order[m + 1]
  <2>3. next \in Node /\ Position(next) = m + 1
    BY <2>1, OrderFacts
  <2>4. f[m + 1] = IF k \in ToSet(c[next]) THEN Append(f[m], next) ELSE f[m]
    <3>1. (m + 1) - 1 = m
      OBVIOUS
    <3> QED
      BY <1>1, <2>1, <3>1
  <2>5. \A n \in Node : Position(n) \in Nat /\ (Position(n) <= m + 1 => Position(n) <= m \/ n = next)
    BY OrderFacts
  <2>6. CASE k \notin ToSet(c[next])
    <3>1. f[m + 1] = f[m]
      BY <2>4, <2>6
    <3>2. \A i \in 1..Len(f[m]) : f[m][i] \in Node /\ Position(f[m][i]) \in Nat
      BY <2>2, <2>5, ElementOfSeq
    <3> HIDE DEF next
    <3>3. ASSUME NEW i \in 1..Len(f[m]) PROVE Position(f[m][i]) <= m + 1
      <4> DEFINE place == Position(f[m][i])
      <4>1. place <= m /\ place \in Nat
        BY <2>2, <3>2
      <4> HIDE DEF place
      <4>2. place <= m + 1
        BY <4>1
      <4> QED
        BY <4>2 DEF place
    <3>4. \A n \in Node : Position(n) <= m + 1 /\ k \in ToSet(c[n]) => \E i \in 1..Len(f[m]) : f[m][i] = n
      BY <2>2, <2>5, <2>6
    <3> QED
      BY <2>2, <3>1, <3>3, <3>4
  <2>7. CASE k \in ToSet(c[next])
    <3> DEFINE new == f[m + 1]
    <3>1. new = Append(f[m], next)
      BY <2>4, <2>7
    <3>2. /\ Len(f[m]) \in Nat /\ Len(new) = Len(f[m]) + 1 /\ new \in Seq(Node)
          /\ \A i \in 1..Len(f[m]) : new[i] = f[m][i]
          /\ new[Len(f[m]) + 1] = next
      BY <2>2, <2>3, <3>1, AppendProperties, LenProperties
    <3>3. \A i \in 1..Len(f[m]) : f[m][i] \in Node /\ Position(f[m][i]) \in Nat
      BY <2>2, <2>5, ElementOfSeq
    <3> HIDE DEF next, new
    <3>4. \A i \in 1..Len(new) : i \in 1..Len(f[m]) \/ i = Len(f[m]) + 1
      BY <3>2
    <3>5. \A i \in 1..Len(new) : Position(new[i]) <= m + 1 /\ k \in ToSet(c[new[i]])
      <4> SUFFICES ASSUME NEW i \in 1..Len(new)
                   PROVE  Position(new[i]) <= m + 1 /\ k \in ToSet(c[new[i]])
        OBVIOUS
      <4>1. CASE i \in 1..Len(f[m])
        <5> DEFINE place == Position(f[m][i])
        <5>1. new[i] = f[m][i] /\ k \in ToSet(c[f[m][i]]) /\ place <= m /\ place \in Nat
          BY <2>2, <3>2, <3>3, <4>1
        <5> HIDE DEF place
        <5>2. place <= m + 1
          BY <5>1
        <5> QED
          BY <5>1, <5>2 DEF place
      <4>2. CASE i = Len(f[m]) + 1
        BY <2>3, <2>7, <3>2, <4>2
      <4> QED
        BY <3>4, <4>1, <4>2
    <3>6. \A i, j \in 1..Len(new) : i < j => Position(new[i]) < Position(new[j])
      <4> SUFFICES ASSUME NEW i \in 1..Len(new), NEW j \in 1..Len(new), i < j
                   PROVE  Position(new[i]) < Position(new[j])
        OBVIOUS
      <4>1. i \in 1..Len(f[m])
        BY <3>2
      <4>2. new[i] = f[m][i] /\ Position(f[m][i]) <= m /\ Position(f[m][i]) \in Nat
        BY <2>2, <3>2, <3>3, <4>1
      <4>3. CASE j \in 1..Len(f[m])
        BY <2>2, <3>2, <4>1, <4>3
      <4>4. CASE j = Len(f[m]) + 1
        BY <2>3, <3>2, <4>2, <4>4
      <4> QED
        BY <3>4, <4>3, <4>4
    <3>7. ASSUME NEW n \in Node, Position(n) <= m + 1, k \in ToSet(c[n])
          PROVE  \E i \in 1..Len(new) : new[i] = n
      <4>1. CASE n = next
        <5>1. Len(f[m]) + 1 \in 1..Len(new)
          BY <3>2
        <5> QED
          BY <3>2, <4>1, <5>1
      <4>2. CASE Position(n) <= m
        <5>1. PICK i \in 1..Len(f[m]) : f[m][i] = n
          BY <2>2, <3>7, <4>2
        <5>2. i \in 1..Len(new) /\ new[i] = n
          BY <3>2, <5>1
        <5> QED
          BY <5>2
      <4> QED
        BY <2>5, <3>7, <4>1, <4>2
    <3> QED
      BY <3>2, <3>5, <3>6, <3>7 DEF new
  <2> QED
    BY <2>6, <2>7
<1>4. Inv(Len(Order))
  <2>1. T \in SUBSET Nat
    OBVIOUS
  <2> HIDE DEF T
  <2>2. T = Nat
    BY <1>2, <1>3, <2>1, AllNat
  <2> USE DEF T
  <2> HIDE DEF Inv
  <2> QED
    BY <2>2, OrderFacts
<1> DEFINE found == Replicas(c, k)
<1>5. /\ found \in Seq(Node)
      /\ \A i \in 1..Len(found) : k \in ToSet(c[found[i]])
      /\ \A i, j \in 1..Len(found) : i < j => Position(found[i]) < Position(found[j])
      /\ \A n \in Node : k \in ToSet(c[n]) => \E i \in 1..Len(found) : found[i] = n
  BY <1>1, <1>4, OrderFacts
<1> HIDE DEF found
<1>6. ToSet(found) = {n \in Node : k \in ToSet(c[n])}
  <2>1. DOMAIN found = 1..Len(found) /\ \A i \in 1..Len(found) : found[i] \in Node
    BY <1>5, LenProperties, ElementOfSeq
  <2> QED
    BY <1>5, <2>1 DEF ToSet
<1> QED
  BY <1>5, <1>6 DEF found

\* What a declared key is made of, and that every node declares one.
LEMMA KeyFacts ==
  ASSUME NEW c \in Configs
  PROVE  /\ \A k \in DeclaredKeys(c) : k \in DbType \X Seq(Part) /\ k = <<k[1], k[2]>>
         /\ \A n \in Node : /\ DOMAIN c[n] = 1..Len(c[n]) /\ Len(c[n]) \in Nat \ {0}
                            /\ \A i \in DOMAIN c[n] : c[n][i] \in ToSet(c[n])
                            /\ ToSet(c[n]) \subseteq DeclaredKeys(c)
<1>1. \A n \in Node : c[n] \in Seq(DbType \X Seq(Part)) /\ c[n] # <<>>
  BY ConfigAssumption
<1>2. \A n \in Node : DOMAIN c[n] = 1..Len(c[n]) /\ Len(c[n]) \in Nat \ {0}
  BY <1>1, LenProperties, EmptySeq
<1>3. \A n \in Node : \A i \in DOMAIN c[n] : c[n][i] \in DbType \X Seq(Part)
  BY <1>1, <1>2, ElementOfSeq
<1>4. \A k \in DeclaredKeys(c) : k \in DbType \X Seq(Part)
  BY <1>3 DEF DeclaredKeys, ToSet
<1>5. \A n \in Node : /\ \A i \in DOMAIN c[n] : c[n][i] \in ToSet(c[n])
                      /\ ToSet(c[n]) \subseteq DeclaredKeys(c)
  BY DEF ToSet, DeclaredKeys
<1> QED
  BY <1>2, <1>4, <1>5

\* The first key of a declared type is a declared key of that type.
LEMMA FirstOfFacts ==
  ASSUME NEW c \in Configs, NEW type, \E k \in DeclaredKeys(c) : k[1] = type
  PROVE  FirstOf(c, type) \in DeclaredKeys(c) /\ FirstOf(c, type)[1] = type
<1> DEFINE S == {i \in DOMAIN Order : OfType(c, Order[i], type) # {}}
           n == Order[Min(S)]
           O == OfType(c, n, type)
<1>1. S \in SUBSET Nat /\ S # {}
  <2>1. PICK k \in DeclaredKeys(c) : k[1] = type
    OBVIOUS
  <2>2. PICK m \in Node : k \in ToSet(c[m])
    BY <2>1 DEF DeclaredKeys
  <2>3. PICK j \in DOMAIN c[m] : c[m][j] = k
    BY <2>2 DEF ToSet
  <2>4. j \in OfType(c, m, type)
    BY <2>1, <2>3 DEF OfType
  <2>5. Position(m) \in S
    BY <2>2, <2>4, OrderFacts
  <2>6. \A i \in S : i \in Nat
    BY OrderFacts
  <2> HIDE DEF S
  <2> QED
    BY <2>5, <2>6
<1>2. Min(S) \in S
  BY <1>1, MinFacts
<1>3. n \in Node /\ O # {}
  BY <1>2, OrderFacts
<1>4. FirstOf(c, type) = c[n][Min(O)]
  BY DEF FirstOf
<1> HIDE DEF S, n
<1>5. O \in SUBSET Nat
  BY <1>3, KeyFacts DEF OfType
<1>6. Min(O) \in O
  BY <1>3, <1>5, MinFacts
<1>7. Min(O) \in DOMAIN c[n] /\ c[n][Min(O)][1] = type
  BY <1>6 DEF OfType
<1> QED
  BY <1>3, <1>4, <1>7, KeyFacts

\* Whatever is looked up, the answer is nothing or the replicas of a key.
LEMMA LookupIsReplicas ==
  ASSUME NEW c, NEW q
  PROVE  Lookup(c, q) = <<>> \/ \E k : Lookup(c, q) = Replicas(c, k)
<1> DEFINE prefixes == {k \in DeclaredKeys(c) : IsVersionPrefix(k, q)}
<1>1. CASE q \in DeclaredKeys(c)
  BY <1>1 DEF Lookup
<1>2. CASE q \notin DeclaredKeys(c) /\ prefixes # {}
  BY <1>2 DEF Lookup
<1>3. CASE q \notin DeclaredKeys(c) /\ prefixes = {}
  BY <1>3 DEF Lookup
<1> QED
  BY <1>1, <1>2, <1>3

\* What lookup() returns is a sequence of nodes in the order of routing.yaml,
\* none of them twice.
LEMMA LookupFacts ==
  ASSUME NEW c, NEW q
  PROVE  LET found == Lookup(c, q) IN
         /\ found \in Seq(Node)
         /\ \A i, j \in 1..Len(found) : i < j => Position(found[i]) < Position(found[j])
         /\ \A i, j \in 1..Len(found) : found[i] = found[j] => i = j
<1> DEFINE found == Lookup(c, q)
<1>1. /\ found \in Seq(Node)
      /\ \A i, j \in 1..Len(found) : i < j => Position(found[i]) < Position(found[j])
  <2>1. CASE found = <<>>
    BY <2>1, EmptySeq
  <2>2. CASE \E k : found = Replicas(c, k)
    BY <2>2, ReplicasFacts
  <2> QED
    BY <2>1, <2>2, LookupIsReplicas
<1> HIDE DEF found
<1>2. ASSUME NEW i \in 1..Len(found), NEW j \in 1..Len(found), found[i] = found[j]
      PROVE  i = j
  <2>1. Position(found[i]) \in Nat
    BY <1>1, OrderFacts, ElementOfSeq
  <2>2. ~(i < j) /\ ~(j < i)
    BY <1>1, <1>2, <2>1
  <2>3. i \in Int /\ j \in Int
    BY <1>1, LenProperties
  <2> QED
    BY <2>2, <2>3
<1> QED
  BY <1>1, <1>2 DEF found

\* A declared key is looked up to the nodes that declare it.
LEMMA LookupDeclared ==
  ASSUME NEW c, NEW q \in DeclaredKeys(c)
  PROVE  ToSet(Lookup(c, q)) = {n \in Node : q \in ToSet(c[n])}
BY ReplicasFacts DEF Lookup

\* The three tiers of lookup(), for every table and every key.
LEMMA LookupSpecific ==
  ASSUME NEW c \in Configs, NEW q \in DbType \X Seq(Part)
  PROVE  LET found == Lookup(c, q)
             above == {k \in DeclaredKeys(c) : k[1] = q[1] /\ IsPrefix(k[2], q[2])}
         IN /\ above # {} => \E k \in above :
                 /\ \A l \in above : IsPrefix(l[2], k[2])
                 /\ ToSet(found) = {n \in Node : k \in ToSet(c[n])}
            /\ \A n \in ToSet(found) : \E k \in ToSet(c[n]) : k[1] = q[1]
            /\ found = <<>> => \A k \in DeclaredKeys(c) : k[1] # q[1]
<1> DEFINE found == Lookup(c, q)
           above == {k \in DeclaredKeys(c) : k[1] = q[1] /\ IsPrefix(k[2], q[2])}
           prefixes == {k \in DeclaredKeys(c) : IsVersionPrefix(k, q)}
           Nodes(k) == {n \in Node : k \in ToSet(c[n])}
           Longest(k) == \A l \in above : IsPrefix(l[2], k[2])
<1>1. q[1] \in DbType /\ q[2] \in Seq(Part) /\ q = <<q[1], q[2]>>
  OBVIOUS
<1>2. \A k \in DeclaredKeys(c) : k[2] \in Seq(Part) /\ k = <<k[1], k[2]>>
  BY KeyFacts
\* A declared key is declared by a node.
<1>3. \A k \in DeclaredKeys(c) : Nodes(k) # {}
  BY DEF DeclaredKeys
<1>4. ASSUME NEW k \in DeclaredKeys(c), k[1] = q[1], found = Replicas(c, k)
      PROVE  /\ ToSet(found) = Nodes(k)
             /\ \A n \in ToSet(found) : \E l \in ToSet(c[n]) : l[1] = q[1]
             /\ found # <<>>
  <2>1. ToSet(found) = Nodes(k)
    BY <1>4, ReplicasFacts
  <2>2. ToSet(<<>>) = {}
    BY DEF ToSet
  <2> HIDE DEF found
  <2> QED
    BY <1>3, <1>4, <2>1, <2>2
<1>5. CASE q \in DeclaredKeys(c)
  <2>1. found = Replicas(c, q)
    BY <1>5 DEF Lookup
  <2>2. \A l \in above : IsPrefix(l[2], q[2])
    OBVIOUS
  <2>3. q \in above
    BY <1>1, <1>5, PrefixFacts, LenProperties
  <2> HIDE DEF found, above
  <2> QED
    BY <1>4, <1>5, <2>1, <2>2, <2>3 DEF found, above
<1>6. CASE q \notin DeclaredKeys(c) /\ prefixes # {}
  <2> DEFINE k == CHOOSE m \in prefixes : \A l \in prefixes : Len(m[2]) >= Len(l[2])
  <2>1. above = prefixes
    <3>1. ASSUME NEW l \in DeclaredKeys(c), l[1] = q[1] PROVE l[2] # q[2]
      BY <1>1, <1>2, <1>6, <3>1
    <3> QED
      BY <3>1 DEF IsVersionPrefix, IsStrictPrefix
  <2>2. k \in prefixes /\ \A l \in prefixes : Len(k[2]) >= Len(l[2])
    <3> DEFINE lengths == {Len(l[2]) : l \in prefixes}
    <3>1. \A l \in prefixes : Len(l[2]) \in 0..Len(q[2])
      BY <1>1, <1>2, LenProperties DEF IsVersionPrefix, IsStrictPrefix, IsPrefix
    <3>2. lengths \in SUBSET (0..Len(q[2])) /\ lengths # {} /\ Len(q[2]) \in Nat
      <4>1. Len(q[2]) \in Nat
        BY <1>1, LenProperties
      <4>2. \A m \in lengths : m \in 0..Len(q[2])
        BY <3>1
      <4>3. \E l \in prefixes : Len(l[2]) \in lengths
        BY <1>6
      <4> HIDE DEF lengths, prefixes
      <4> QED
        BY <4>1, <4>2, <4>3
    <3> HIDE DEF lengths
    <3>3. PICK m \in lengths : \A n \in lengths : n <= m
      BY <3>2, GreatestNat
    <3>4. \E l \in prefixes : m = Len(l[2])
      BY DEF lengths
    <3>5. PICK l \in prefixes : m = Len(l[2])
      BY <3>4
    <3>6. ASSUME NEW o \in prefixes PROVE Len(l[2]) >= Len(o[2])
      <4>1. Len(o[2]) \in lengths
        BY DEF lengths
      <4> HIDE DEF prefixes
      <4>2. Len(o[2]) <= m
        BY <3>3, <4>1
      <4>3. Len(o[2]) \in Int /\ m \in Int
        BY <3>2, <4>1
      <4> QED
        BY <3>5, <4>2, <4>3
    <3> HIDE DEF prefixes
    <3> QED
      BY <3>6
  <2>3. found = Replicas(c, k)
    BY <1>6 DEF Lookup
  <2> HIDE DEF k
  <2>4. k \in DeclaredKeys(c) /\ k[1] = q[1] /\ k \in above
    BY <2>1, <2>2 DEF IsVersionPrefix
  <2>5. ASSUME NEW l \in above PROVE IsPrefix(l[2], k[2])
    <3>1. IsPrefix(l[2], q[2]) /\ IsPrefix(k[2], q[2])
      BY <2>4
    <3>2. l[2] \in Seq(Part) /\ k[2] \in Seq(Part)
      BY <1>2, <2>4
    <3>3. Len(l[2]) <= Len(k[2])
      <4>1. Len(k[2]) >= Len(l[2])
        BY <2>1, <2>2
      <4> QED
        BY <3>2, <4>1, LenProperties
    <3> QED
      BY <1>1, <3>1, <3>2, <3>3, PrefixesAgree
  <2> HIDE DEF found, above
  <2> QED
    BY <1>4, <2>3, <2>4, <2>5 DEF found, above
<1>7. CASE q \notin DeclaredKeys(c) /\ prefixes = {} /\ \E k \in DeclaredKeys(c) : k[1] = q[1]
  <2>1. above = {}
    <3>1. ASSUME NEW l \in DeclaredKeys(c), l[1] = q[1] PROVE l[2] # q[2]
      BY <1>1, <1>2, <1>7, <3>1
    <3> QED
      BY <1>7, <3>1 DEF IsVersionPrefix, IsStrictPrefix
  <2>2. found = Replicas(c, FirstOf(c, q[1]))
    BY <1>7 DEF Lookup
  <2>3. FirstOf(c, q[1]) \in DeclaredKeys(c) /\ FirstOf(c, q[1])[1] = q[1]
    BY <1>7, FirstOfFacts
  <2> HIDE DEF found, above
  <2> QED
    BY <1>4, <2>1, <2>2, <2>3 DEF found, above
<1>8. CASE q \notin DeclaredKeys(c) /\ prefixes = {} /\ \A k \in DeclaredKeys(c) : k[1] # q[1]
  <2>1. above = {}
    BY <1>8
  <2>2. found = <<>>
    BY <1>8 DEF Lookup
  <2>3. ToSet(<<>>) = {}
    BY DEF ToSet
  <2> HIDE DEF found, above
  <2> QED
    BY <1>8, <2>1, <2>2, <2>3 DEF found, above
<1> QED
  BY <1>5, <1>6, <1>7, <1>8

(***************************************************************************)
(* What the properties rest on                                             *)
(***************************************************************************)
\* Each phase belongs to some of the handlers, and a request starts from nothing.
Phases ==
  /\ routes \in Seq(Node) /\ ring \in Seq(Node)
  /\ phase \in {"forward", "sent"} => kind \in Forwarded \cup {"messages"}
  /\ phase = "search" => kind = "messages"
  /\ phase = "scatter" => kind \in Scattered
  /\ phase = "new" => /\ failed = {} /\ listed = {}
                      /\ \A n \in Node : executed[n] = 0 /\ replies[n] = "none"

\* The replicas that forward() is given.
Plan ==
  LET found == Lookup(config, key)
  IN  IF kind = "sse" /\ found # <<>> THEN <<found[1]>> ELSE found

\* forward() has dealt with the first m of them: all have failed, but for the
\* one that has the request.
DealtWith(m) ==
  /\ Len(routes) = Len(Plan) - m
  /\ \A i \in 1..Len(routes) : routes[i] = Plan[m + i]
  /\ phase = "forward" => \A j \in 1..m : Plan[j] \in failed
  /\ phase = "sent" => m # 0 /\ at = Plan[m] /\ \A j \in 1..(m - 1) : Plan[j] \in failed

Forwarding == kind \in Forwarded /\ phase \in {"forward", "sent"}

Trying == Forwarding => \E m \in 0..Len(Plan) : DealtWith(m)

\* Who is still to be tried has not seen the request.
Untried == Forwarding => \A i \in 1..Len(routes) : executed[routes[i]] = 0

\* A node that does not know the session does not execute the message.
Ignored == kind = "messages" => \A n \in Node \ knows : executed[n] = 0

\* A node that the search of /messages has behind it: unreachable, or hidden.
Missed(n) == n \in failed \/ Hidden(n)

Increasing(s) == \A i, j \in 1..Len(s) : i < j => Position(s[i]) < Position(s[j])

\* The search is at node n: it asks the replicas of the key that n declares first,
\* in their order, and n itself is missed, still to be asked or being asked.
SearchFor(n) ==
  /\ \A m \in knows \ (ToSet(ring) \cup {n}) : Missed(m)
  /\ n \in knows => Missed(n) \/ n \in ToSet(routes) \/ n = at
  /\ Increasing(routes)
  /\ \A i \in 1..Len(routes) : config[n][1] \in ToSet(config[routes[i]])
  /\ phase = "sent" => /\ config[n][1] \in ToSet(config[at])
                       /\ n \in ToSet(routes) => Position(at) < Position(n)

Searched ==
  kind = "messages" =>
    /\ phase = "search" => \A n \in knows \ ToSet(ring) : Missed(n)
    /\ phase \in {"forward", "sent"} => \E n \in Node : SearchFor(n)

\* The merged list has the types of the nodes that answered so far, and of each type
\* what one of them declares.
Merged ==
  kind = "databases" =>
    /\ TypesOf(listed) = UNION {TypesOf(ToSet(config[n])) : n \in Answered}
    /\ \A k \in listed : \E n \in Answered :
         VersionsOf(listed, k[1]) = VersionsOf(ToSet(config[n]), k[1])

\* The inductive invariant.
GatewayInv ==
  /\ TypeOK /\ Phases /\ Trying /\ Untried /\ Ignored /\ Searched /\ Merged
  /\ FailoverInOrder /\ ExecutedOnce /\ NoAnswerMeansAll /\ ScatterCovers

(***************************************************************************)
(* The steps                                                               *)
(***************************************************************************)
\* What a request may look up: what the client asks for, or a declared key.
Asked == (DbType \X Version) \cup DeclaredKeys(config)

\* The versions of a type that nobody declares.
NoneDeclared ==
  /\ Arrive("versions", NoKey)
  /\ Answer("no node", NoNode)
  /\ UNCHANGED <<routes, ring, knows>>

\* The steps of Next, with one for all the handlers that look up and forward.
GatewayNext ==
  \/ \E k \in Kind : Refuse(k)
  \/ Initialize
  \/ \E k \in Forwarded, q \in Asked : ForwardTo(k, q)
  \/ NoneDeclared
  \/ Message
  \/ \E k \in Scattered : Scatter(k)
  \/ Send \/ CannotConnect \/ NodeAnswers \/ SessionUnknown \/ GiveUp \/ Exhausted
  \/ Search \/ NotFound
  \/ \E n \in Node : ScatterReply(n)
  \/ \E n \in Node : ScatterFails(n)
  \/ ScatterEnds
  \/ UNCHANGED vars

\* Every step is one of those: the handlers that choose a key choose a declared one.
LEMMA NextCases ==
  ASSUME TypeOK, [Next]_vars
  PROVE  GatewayNext
<1>0. config \in Configs
  BY DEF TypeOK
<1>1. ASSUME NEW k \in Routed, NEW t \in DbType, NEW v \in Version, Route(k, t, v)
      PROVE  GatewayNext
  BY <1>1 DEF Route, GatewayNext, Forwarded, Asked
<1>2. ASSUME NEW t \in DbType, GetVersions(t)
      PROVE  GatewayNext
  <2>1. CASE \E k \in DeclaredKeys(config) : k[1] = t
    <3>1. ForwardTo("versions", FirstOf(config, t))
      BY <1>2, <2>1 DEF GetVersions
    <3>2. FirstOf(config, t) \in Asked
      BY <1>0, <2>1, FirstOfFacts DEF Asked
    <3> QED
      BY <3>1, <3>2 DEF GatewayNext, Forwarded
  <2>2. CASE ~ \E k \in DeclaredKeys(config) : k[1] = t
    BY <1>2, <2>2 DEF GetVersions, GatewayNext, NoneDeclared
  <2> QED
    BY <2>1, <2>2
<1>3. CASE Default
  <2>1. Order[1] \in Node /\ 1 \in DOMAIN config[Order[1]]
    BY <1>0, OrderFacts, KeyFacts
  <2>2. config[Order[1]][1] \in Asked
    BY <1>0, <2>1, KeyFacts DEF Asked
  <2> QED
    BY <1>3, <2>2 DEF Default, GatewayNext, Forwarded
<1>4. CASE Initialize \/ Message \/ (\E k \in Kind : Refuse(k)) \/ \E k \in Scattered : Scatter(k)
  BY <1>4 DEF GatewayNext
<1>5. CASE Step
  BY <1>5 DEF Step, GatewayNext
<1>6. CASE Idle \/ UNCHANGED vars
  BY <1>6 DEF Idle, GatewayNext
<1> QED
  BY <1>1, <1>2, <1>3, <1>4, <1>5, <1>6 DEF Next, Arrival

\* The head of the replicas, what is left of them, and the nodes in it.
LEMMA RoutesFacts ==
  ASSUME NEW s \in Seq(Node)
  PROVE  /\ Len(s) \in Nat /\ DOMAIN s = 1..Len(s)
         /\ ToSet(s) \subseteq Node
         /\ s # <<>> => /\ Len(s) # 0 /\ Head(s) = s[1] /\ Head(s) \in Node
                        /\ Tail(s) \in Seq(Node) /\ Len(Tail(s)) = Len(s) - 1
                        /\ \A i \in 1..Len(Tail(s)) : Tail(s)[i] = s[i + 1]
                        /\ ToSet(s) = {Head(s)} \cup ToSet(Tail(s))
<1>1. Len(s) \in Nat /\ DOMAIN s = 1..Len(s) /\ ToSet(s) \subseteq Node
  BY LenProperties, ElementOfSeq DEF ToSet
<1>2. ASSUME s # <<>>
      PROVE  /\ Len(s) # 0 /\ Head(s) = s[1] /\ Head(s) \in Node
             /\ Tail(s) \in Seq(Node) /\ Len(Tail(s)) = Len(s) - 1
             /\ \A i \in 1..Len(Tail(s)) : Tail(s)[i] = s[i + 1]
  BY <1>2, HeadTailProperties, EmptySeq
<1>3. ASSUME s # <<>>
      PROVE  ToSet(s) = {Head(s)} \cup ToSet(Tail(s))
  <2>1. DOMAIN Tail(s) = 1..Len(Tail(s))
    BY <1>2, <1>3, LenProperties
  <2>2. \A i \in 1..Len(s) : s[i] \in {Head(s)} \cup ToSet(Tail(s))
    <3> SUFFICES ASSUME NEW i \in 1..Len(s), i # 1
                 PROVE  s[i] \in ToSet(Tail(s))
      BY <1>2, <1>3
    <3>1. i - 1 \in 1..Len(Tail(s)) /\ (i - 1) + 1 = i
      BY <1>1, <1>2, <1>3
    <3>2. Tail(s)[i - 1] = s[i]
      BY <1>2, <1>3, <3>1
    <3> QED
      BY <2>1, <3>1, <3>2 DEF ToSet
  <2>3. \A i \in 1..Len(Tail(s)) : Tail(s)[i] \in ToSet(s)
    <3> SUFFICES ASSUME NEW i \in 1..Len(Tail(s))
                 PROVE  Tail(s)[i] \in ToSet(s)
      OBVIOUS
    <3>1. i + 1 \in 1..Len(s) /\ Tail(s)[i] = s[i + 1]
      BY <1>1, <1>2, <1>3
    <3> QED
      BY <1>1, <3>1 DEF ToSet
  <2>4. Head(s) \in ToSet(s)
    <3>1. 1 \in 1..Len(s)
      BY <1>1, <1>2, <1>3
    <3> QED
      BY <1>1, <1>2, <1>3, <3>1 DEF ToSet
  <2>5. ToSet(s) \subseteq {Head(s)} \cup ToSet(Tail(s))
    BY <1>1, <2>2 DEF ToSet
  <2>6. ToSet(Tail(s)) \subseteq ToSet(s)
    BY <2>1, <2>3 DEF ToSet
  <2> QED
    BY <2>4, <2>5, <2>6
<1> QED
  BY <1>1, <1>2, <1>3

\* The sequence with no element.
LEMMA NoRoutes == <<>> \in Seq(Node) /\ Len(<<>>) = 0 /\ ToSet(<<>>) = {}
BY EmptySeq DEF ToSet

\* Each phase keeps to its handlers.
LEMMA PhasesStep ==
  ASSUME GatewayInv, GatewayNext
  PROVE  Phases'
<1>0. /\ TypeOK /\ Phases /\ <<>> \in Seq(Node)
      /\ Order \in Seq(Node)
      /\ \A q : Lookup(config, q) \in Seq(Node)
      /\ routes # <<>> => Tail(routes) \in Seq(Node)
      /\ ring # <<>> => Tail(ring) \in Seq(Node)
  BY NoRoutes, OrderAssumption, LookupFacts, RoutesFacts DEF GatewayInv, Phases
<1> USE DEF TypeOK, Phases, Kind, Forwarded, Routed, Scattered, Statuses, NoAnswer
<1>1. CASE \E k \in Kind : Refuse(k)
  BY <1>0, <1>1 DEF Refuse, Arrive, Answer
<1>2. CASE Initialize
  BY <1>0, <1>2 DEF Initialize, Arrive, Answer
<1>3. ASSUME NEW k \in Forwarded, NEW q \in Asked, ForwardTo(k, q)
      PROVE  Phases'
  <2>1. \A n : n \in Node => <<n>> \in Seq(Node)
    OBVIOUS
  <2>2. routes' \in Seq(Node)
    <3>1. CASE k = "sse" /\ Lookup(config, q) # <<>>
      <4>1. Lookup(config, q)[1] \in Node
        BY <1>0, <3>1, RoutesFacts
      <4> QED
        BY <1>3, <2>1, <3>1, <4>1 DEF ForwardTo
    <3>2. CASE ~(k = "sse" /\ Lookup(config, q) # <<>>)
      BY <1>0, <1>3, <3>2 DEF ForwardTo
    <3> QED
      BY <3>1, <3>2
  <2> QED
    BY <1>0, <1>3, <2>2 DEF ForwardTo, Arrive, Answer
<1>4. CASE NoneDeclared
  BY <1>0, <1>4 DEF NoneDeclared, Arrive, Answer
<1>5. CASE Message
  BY <1>0, <1>5 DEF Message, Arrive
<1>6. CASE \E k \in Scattered : Scatter(k)
  BY <1>0, <1>6 DEF Scatter, Arrive
<1>7. CASE Send
  BY <1>0, <1>7 DEF Send
<1>8. CASE CannotConnect
  BY <1>0, <1>8 DEF CannotConnect
<1>9. CASE NodeAnswers
  BY <1>0, <1>9 DEF NodeAnswers, Answer
<1>10. CASE GiveUp
  BY <1>0, <1>10 DEF GiveUp
<1>11. CASE Exhausted
  BY <1>0, <1>11 DEF Exhausted, Answer
<1>12. CASE Search
  BY <1>0, <1>12 DEF Search
<1>13. CASE NotFound
  BY <1>0, <1>13 DEF NotFound, Answer
<1>14. CASE \E n \in Node : ScatterReply(n)
  BY <1>0, <1>14 DEF ScatterReply
<1>15. CASE \E n \in Node : ScatterFails(n)
  BY <1>0, <1>15 DEF ScatterFails
<1>16. CASE ScatterEnds
  BY <1>0, <1>16 DEF ScatterEnds, Answer
<1>17. CASE UNCHANGED vars
  BY <1>0, <1>17 DEF vars
<1>18. CASE SessionUnknown
  BY <1>0, <1>18 DEF SessionUnknown
<1> QED
  BY <1>1, <1>2, <1>3, <1>4, <1>5, <1>6, <1>7, <1>8, <1>9, <1>10, <1>11, <1>12, <1>13, <1>14,
     <1>15, <1>16, <1>17, <1>18
     DEF GatewayNext

\* One more execution on a node.
LEMMA Counted ==
  ASSUME NEW f \in [Node -> Nat], NEW n \in Node
  PROVE  /\ [f EXCEPT ![n] = f[n] + 1] \in [Node -> Nat]
         /\ [f EXCEPT ![n] = f[n] + 1][n] = f[n] + 1
         /\ \A m \in Node \ {n} : [f EXCEPT ![n] = f[n] + 1][m] = f[m]
OBVIOUS

\* The replicas that forward() is given: those that lookup() found, the primary
\* alone for a stream.
LEMMA PlanFacts ==
  LET found == Lookup(config, key) IN
  /\ Plan \in Seq(Node) /\ Len(Plan) \in Nat /\ DOMAIN Plan = 1..Len(Plan)
  /\ \A i \in 1..Len(Plan) : i \in DOMAIN found /\ Plan[i] = found[i] /\ Plan[i] \in Node
  /\ \A i, j \in 1..Len(Plan) : Plan[i] = Plan[j] => i = j
  /\ kind = "sse" => Len(Plan) <= 1
  /\ kind # "sse" => Plan = found
<1> DEFINE found == Lookup(config, key)
<1>1. /\ found \in Seq(Node) /\ Len(found) \in Nat /\ DOMAIN found = 1..Len(found)
      /\ \A i, j \in 1..Len(found) : found[i] = found[j] => i = j
      /\ \A i \in 1..Len(found) : found[i] \in Node
      /\ found # <<>> => Len(found) # 0
  BY LookupFacts, RoutesFacts, ElementOfSeq
<1>2. CASE kind = "sse" /\ found # <<>>
  <2>1. Plan = <<found[1]>>
    BY <1>2 DEF Plan
  <2>2. found[1] \in Node /\ 1 \in DOMAIN found
    BY <1>1, <1>2
  <2> HIDE DEF found
  <2>3. Plan \in Seq(Node) /\ Len(Plan) = 1 /\ Plan[1] = found[1] /\ DOMAIN Plan = 1..1
    BY <2>1, <2>2
  <2>4. \A i \in 1..1 : i = 1
    OBVIOUS
  <2> QED
    BY <1>2, <2>2, <2>3, <2>4 DEF found
<1>3. CASE ~(kind = "sse" /\ found # <<>>)
  <2>1. Plan = found
    BY <1>3 DEF Plan
  <2>2. kind = "sse" => Len(found) = 0
    BY <1>3, EmptySeq
  <2> HIDE DEF found
  <2> QED
    BY <1>1, <2>1, <2>2 DEF found
<1> QED
  BY <1>2, <1>3

\* Types.
LEMMA TypeStep ==
  ASSUME GatewayInv, GatewayNext
  PROVE  TypeOK'
<1>0. /\ TypeOK /\ Phases /\ NoNode \notin Node
      /\ ToSet(<<>>) = {} /\ ToSet(Order) = Node /\ <<>> \in Seq(Node)
      /\ \A q : ToSet(Lookup(config, q)) \subseteq Node
      /\ routes # <<>> => Head(routes) \in Node /\ ToSet(Tail(routes)) \subseteq Node
      /\ ring # <<>> => Head(ring) \in Node /\ ToSet(Tail(ring)) \subseteq Node
  BY NoRoutes, OrderAssumption, LookupFacts, RoutesFacts DEF GatewayInv, Phases, Node
<1> USE DEF TypeOK, Kind, Forwarded, Routed, Scattered, Statuses, NoAnswer
<1>1. CASE \E k \in Kind : Refuse(k)
  <2>1. PICK k \in Kind : Arrive(k, NoKey) /\ Answer("unauthorized", NoNode)
                     /\ UNCHANGED <<routes, ring, knows>>
    BY <1>1 DEF Refuse
  <2> QED
    BY <1>0, <2>1 DEF Arrive, Answer
<1>2. CASE Initialize
  BY <1>0, <1>2 DEF Initialize, Arrive, Answer
<1>3. ASSUME NEW k \in Forwarded, NEW q \in Asked, ForwardTo(k, q)
      PROVE  TypeOK'
  <2>1. q \in Asked
    OBVIOUS
  <2>2. ToSet(routes') \subseteq Node
    <3>1. CASE k = "sse" /\ Lookup(config, q) # <<>>
      <4>1. Lookup(config, q)[1] \in Node
        BY LookupFacts, RoutesFacts, <3>1
      <4>2. routes' = <<Lookup(config, q)[1]>>
        BY <1>3, <3>1 DEF ForwardTo
      <4>3. <<Lookup(config, q)[1]>> \in Seq(Node)
        BY <4>1
      <4> QED
        BY <4>2, <4>3, RoutesFacts
    <3>2. CASE ~(k = "sse" /\ Lookup(config, q) # <<>>)
      BY <1>0, <1>3, <3>2 DEF ForwardTo
    <3> QED
      BY <3>1, <3>2
  <2>3. ToSet(routes') \subseteq Node /\ key' = q /\ config' = config
    BY <1>3, <2>2 DEF ForwardTo, Arrive
  <2> QED
    <3>1. CASE Lookup(config, q) = <<>>
      <4>1. Answer("no node", NoNode)
        BY <1>3, <3>1 DEF ForwardTo
      <4> QED
        BY <1>0, <1>3, <2>1, <2>3, <4>1 DEF ForwardTo, Arrive, Answer, Asked
    <3>2. CASE Lookup(config, q) # <<>>
      <4>1. phase' = "forward" /\ answer' = answer /\ ring' = ring
        BY <1>3, <3>2 DEF ForwardTo
      <4> QED
        BY <1>0, <1>3, <2>1, <2>3, <4>1 DEF ForwardTo, Arrive, Asked
    <3> QED
      BY <3>1, <3>2
<1>4. CASE NoneDeclared
  BY <1>0, <1>4 DEF NoneDeclared, Arrive, Answer
<1>5. CASE Message
  BY <1>0, <1>5 DEF Message, Arrive
<1>6. CASE \E k \in Scattered : Scatter(k)
  BY <1>0, <1>6 DEF Scatter, Arrive
<1>7. CASE Send
  <2>1. executed' \in [Node -> Nat]
    <3>1. executed' \in {executed, [executed EXCEPT ![Head(routes)] = executed[Head(routes)] + 1]}
      BY <1>0, <1>7 DEF Send
    <3>2. Head(routes) \in Node
      BY <1>0, <1>7 DEF Send
    <3>3. executed \in [Node -> Nat]
      BY <1>0
    <3> QED
      BY <3>1, <3>2, <3>3, Counted
  <2> QED
    BY <1>0, <1>7, <2>1 DEF Send
<1>8. CASE CannotConnect
  BY <1>0, <1>8 DEF CannotConnect
<1>9. CASE NodeAnswers
  BY <1>0, <1>9 DEF NodeAnswers, Answer
<1>10. CASE GiveUp
  BY <1>0, <1>10 DEF GiveUp
<1>11. CASE Exhausted
  <2>1. CASE kind = "messages"
    BY <1>0, <1>11, <2>1 DEF Exhausted
  <2>2. CASE kind # "messages"
    <3>1. Answer("unreachable", NoNode)
      BY <1>11, <2>2 DEF Exhausted
    <3> QED
      BY <1>0, <1>11, <3>1 DEF Exhausted, Answer
  <2> QED
    BY <2>1, <2>2
<1>12. CASE Search
  BY <1>0, <1>12 DEF Search
<1>13. CASE NotFound
  BY <1>0, <1>13 DEF NotFound, Answer
<1>14. CASE \E n \in Node : ScatterReply(n)
  <2>1. PICK n \in Node : ScatterReply(n)
    BY <1>14
  <2>2. replies' \in [Node -> {"none", "ok", "error"}]
    BY <1>0, <2>1 DEF ScatterReply
  <2>3. listed' \subseteq DeclaredKeys(config)
    BY <1>0, <2>1, KeyFacts DEF ScatterReply
  <2> QED
    BY <1>0, <2>1, <2>2, <2>3 DEF ScatterReply
<1>15. CASE \E n \in Node : ScatterFails(n)
  BY <1>0, <1>15 DEF ScatterFails
<1>16. CASE ScatterEnds
  BY <1>0, <1>16 DEF ScatterEnds, Answer
<1>17. CASE UNCHANGED vars
  BY <1>0, <1>17, ZenonT(40) DEF vars
<1>18. CASE SessionUnknown
  BY <1>0, <1>18 DEF SessionUnknown
<1> QED
  BY <1>1, <1>2, <1>3, <1>4, <1>5, <1>6, <1>7, <1>8, <1>9, <1>10, <1>11, <1>12, <1>13, <1>14,
     <1>15, <1>16, <1>17, <1>18
     DEF GatewayNext

\* What Plan says does not change while a request is being forwarded.
LEMMA PlanKept ==
  ASSUME UNCHANGED <<config, kind, key>>
  PROVE  Plan' = Plan
BY DEF Plan

\* DealtWith, one replica further: its request failed or is under way.
LEMMA OneFurther ==
  ASSUME Phases, NEW m \in 0..Len(Plan), DealtWith(m), routes # <<>>
  PROVE  /\ m + 1 \in 1..Len(Plan) /\ Plan[m + 1] = Head(routes) /\ Head(routes) \in Node
         /\ Tail(routes) \in Seq(Node) /\ Len(Tail(routes)) = Len(Plan) - (m + 1)
         /\ \A i \in 1..Len(Tail(routes)) : Tail(routes)[i] = Plan[(m + 1) + i]
<1>1. /\ routes \in Seq(Node) /\ Len(routes) \in Nat /\ Len(routes) # 0
      /\ Head(routes) = routes[1] /\ Head(routes) \in Node
      /\ Tail(routes) \in Seq(Node) /\ Len(Tail(routes)) = Len(routes) - 1
      /\ \A i \in 1..Len(Tail(routes)) : Tail(routes)[i] = routes[i + 1]
  BY RoutesFacts DEF Phases
<1>2. Len(Plan) \in Nat
  BY PlanFacts
<1>3. Len(routes) = Len(Plan) - m /\ \A i \in 1..Len(routes) : routes[i] = Plan[m + i]
  BY DEF DealtWith
<1>4. m + 1 \in 1..Len(Plan) /\ Len(Tail(routes)) = Len(Plan) - (m + 1)
  BY <1>1, <1>2, <1>3
<1>5. Plan[m + 1] = Head(routes)
  <2>1. 1 \in 1..Len(routes)
    BY <1>1
  <2> QED
    BY <1>1, <1>3, <2>1
<1>6. ASSUME NEW i \in 1..Len(Tail(routes))
      PROVE  Tail(routes)[i] = Plan[(m + 1) + i]
  <2>1. i + 1 \in 1..Len(routes) /\ m + (i + 1) = (m + 1) + i
    BY <1>1, <1>2
  <2> QED
    BY <1>1, <1>3, <2>1
<1> QED
  BY <1>1, <1>4, <1>5, <1>6

\* forward() tries the replicas one by one.
LEMMA TryingStep ==
  ASSUME GatewayInv, GatewayNext
  PROVE  Trying'
<1>0. /\ TypeOK /\ Phases /\ Trying
  BY DEF GatewayInv
<1> USE DEF Trying, Forwarding
<1>1. CASE \E k \in Kind : Refuse(k)
  BY <1>1 DEF Refuse, Answer
<1>2. CASE Initialize
  BY <1>2 DEF Initialize, Answer
<1>3. ASSUME NEW k \in Forwarded, NEW q \in Asked, ForwardTo(k, q)
      PROVE  Trying'
  <2>1. CASE Lookup(config, q) = <<>>
    BY <1>3, <2>1 DEF ForwardTo, Answer
  <2>2. CASE Lookup(config, q) # <<>>
    <3>1. routes' = Plan' /\ phase' = "forward"
      BY <1>3, <2>2 DEF ForwardTo, Arrive, Plan
    <3>2. Len(Plan') \in Nat
      BY <3>1, PhasesStep, LenProperties DEF Phases
    <3>3. DealtWith(0)'
      BY <3>1, <3>2 DEF DealtWith
    <3> QED
      BY <3>2, <3>3
  <2> QED
    BY <2>1, <2>2
<1>4. CASE NoneDeclared
  BY <1>4 DEF NoneDeclared, Answer
<1>5. CASE Message
  BY <1>5 DEF Message
<1>6. CASE \E k \in Scattered : Scatter(k)
  BY <1>6 DEF Scatter
<1>7. CASE Send
  <2> SUFFICES ASSUME Forwarding
               PROVE  \E m \in 0..Len(Plan') : DealtWith(m)'
    BY <1>7 DEF Send
  <2>1. PICK m \in 0..Len(Plan) : DealtWith(m)
    BY <1>0
  <2>2. /\ m + 1 \in 1..Len(Plan) /\ Plan[m + 1] = Head(routes)
        /\ Len(Tail(routes)) = Len(Plan) - (m + 1)
        /\ \A i \in 1..Len(Tail(routes)) : Tail(routes)[i] = Plan[(m + 1) + i]
        /\ Len(Plan) \in Nat
    BY <1>0, <1>7, <2>1, OneFurther, PlanFacts DEF Send
  <2>3. \A j \in 1..m : Plan[j] \in failed
    BY <1>7, <2>1 DEF Send, DealtWith
  <2>4. /\ Plan' = Plan /\ routes' = Tail(routes) /\ at' = Head(routes)
        /\ phase' = "sent" /\ failed' = failed
    BY <1>7, PlanKept DEF Send
  <2>5. DealtWith(m + 1)'
    <3>1. (m + 1) - 1 = m /\ m + 1 # 0
      BY <2>2
    <3> QED
      BY <2>2, <2>3, <2>4, <3>1 DEF DealtWith
  <2>6. m + 1 \in 0..Len(Plan')
    BY <2>2, <2>4
  <2> QED
    BY <2>5, <2>6
<1>8. CASE CannotConnect
  <2> SUFFICES ASSUME Forwarding
               PROVE  \E m \in 0..Len(Plan') : DealtWith(m)'
    BY <1>8 DEF CannotConnect
  <2>1. PICK m \in 0..Len(Plan) : DealtWith(m)
    BY <1>0
  <2>2. /\ m + 1 \in 1..Len(Plan) /\ Plan[m + 1] = Head(routes)
        /\ Len(Tail(routes)) = Len(Plan) - (m + 1)
        /\ \A i \in 1..Len(Tail(routes)) : Tail(routes)[i] = Plan[(m + 1) + i]
        /\ Len(Plan) \in Nat
    BY <1>0, <1>8, <2>1, OneFurther, PlanFacts DEF CannotConnect
  <2>3. \A j \in 1..m : Plan[j] \in failed
    BY <1>8, <2>1 DEF CannotConnect, DealtWith
  <2>4. /\ Plan' = Plan /\ routes' = Tail(routes)
        /\ phase' = "forward" /\ failed' = failed \cup {Head(routes)}
    BY <1>8, PlanKept DEF CannotConnect
  <2>5. DealtWith(m + 1)'
    <3>1. \A j \in 1..(m + 1) : j \in 1..m \/ j = m + 1
      BY <2>2
    <3>2. \A j \in 1..(m + 1) : Plan[j] \in failed'
      BY <2>2, <2>3, <2>4, <3>1
    <3> QED
      BY <2>2, <2>4, <3>2 DEF DealtWith
  <2>6. m + 1 \in 0..Len(Plan')
    BY <2>2, <2>4
  <2> QED
    BY <2>5, <2>6
<1>9. CASE NodeAnswers
  BY <1>9 DEF NodeAnswers, Answer
<1>10. CASE GiveUp
  <2> SUFFICES ASSUME Forwarding
               PROVE  \E m \in 0..Len(Plan') : DealtWith(m)'
    BY <1>10 DEF GiveUp
  <2>1. PICK m \in 0..Len(Plan) : DealtWith(m)
    BY <1>0
  <2>2. m # 0 /\ at = Plan[m] /\ \A j \in 1..(m - 1) : Plan[j] \in failed
    BY <1>10, <2>1 DEF GiveUp, DealtWith
  <2>3. /\ Plan' = Plan /\ routes' = routes
        /\ phase' = "forward" /\ failed' = failed \cup {at}
    BY <1>10, PlanKept DEF GiveUp
  <2>4. \A j \in 1..m : Plan[j] \in failed'
    <3>1. \A j \in 1..m : j \in 1..(m - 1) \/ j = m
      BY PlanFacts
    <3> QED
      BY <2>2, <2>3, <3>1
  <2>5. DealtWith(m)'
    BY <2>1, <2>3, <2>4 DEF DealtWith
  <2> QED
    BY <2>3, <2>5
<1>11. CASE Exhausted
  <2>1. phase' \in {"search", "answered"}
    BY <1>11 DEF Exhausted, Answer
  <2> QED
    BY <2>1
<1>12. CASE Search
  <2>1. kind' = "messages"
    BY <1>0, <1>12 DEF Search, Phases
  <2> QED
    BY <2>1 DEF Forwarded, Routed
<1>13. CASE NotFound
  BY <1>13 DEF NotFound, Answer
<1>14. CASE \E n \in Node : ScatterReply(n)
  BY <1>14 DEF ScatterReply
<1>15. CASE \E n \in Node : ScatterFails(n)
  BY <1>15 DEF ScatterFails
<1>16. CASE ScatterEnds
  BY <1>16 DEF ScatterEnds, Answer
<1>17. CASE UNCHANGED vars
  <2> SUFFICES ASSUME Forwarding
               PROVE  \E m \in 0..Len(Plan') : DealtWith(m)'
    BY <1>17 DEF vars
  <2>1. PICK m \in 0..Len(Plan) : DealtWith(m)
    BY <1>0
  <2>2. Plan' = Plan
    BY <1>17, PlanKept DEF vars
  <2>3. DealtWith(m)'
    BY <1>17, <2>1, <2>2 DEF vars, DealtWith
  <2> QED
    BY <2>2, <2>3
<1>18. CASE SessionUnknown
  BY <1>18 DEF SessionUnknown
<1> QED
  BY <1>1, <1>2, <1>3, <1>4, <1>5, <1>6, <1>7, <1>8, <1>9, <1>10, <1>11, <1>12, <1>13, <1>14,
     <1>15, <1>16, <1>17, <1>18
     DEF GatewayNext

\* The replicas after the first one that is left are other nodes.
LEMMA OtherNodes ==
  ASSUME Phases, NEW m \in 0..Len(Plan), DealtWith(m), routes # <<>>
  PROVE  \A i \in 1..Len(Tail(routes)) : Tail(routes)[i] # Head(routes)
<1> SUFFICES ASSUME NEW i \in 1..Len(Tail(routes))
             PROVE  Tail(routes)[i] # Head(routes)
  OBVIOUS
<1>1. /\ m + 1 \in 1..Len(Plan) /\ Plan[m + 1] = Head(routes) /\ Len(Plan) \in Nat
      /\ Len(Tail(routes)) = Len(Plan) - (m + 1) /\ Tail(routes)[i] = Plan[(m + 1) + i]
  BY OneFurther, PlanFacts
<1>2. (m + 1) + i \in 1..Len(Plan) /\ (m + 1) + i # m + 1
  BY <1>1
<1> QED
  BY <1>1, <1>2, PlanFacts

\* A replica that is still to be tried has not seen the request.
LEMMA UntriedStep ==
  ASSUME GatewayInv, GatewayNext
  PROVE  Untried'
<1>0. /\ TypeOK /\ Phases /\ Trying /\ Untried
  BY DEF GatewayInv
<1> USE DEF Untried, Forwarding
<1>1. CASE \E k \in Kind : Refuse(k)
  BY <1>1 DEF Refuse, Answer
<1>2. CASE Initialize
  BY <1>2 DEF Initialize, Answer
<1>3. ASSUME NEW k \in Forwarded, NEW q \in Asked, ForwardTo(k, q)
      PROVE  Untried'
  <2>1. routes' \in Seq(Node)
    BY PhasesStep DEF Phases
  <2>2. \A i \in 1..Len(routes') : routes'[i] \in Node
    BY <2>1, ElementOfSeq
  <2>3. \A n \in Node : executed'[n] = 0
    BY <1>0, <1>3 DEF ForwardTo, Arrive, Phases
  <2> QED
    BY <2>2, <2>3
<1>4. CASE NoneDeclared
  BY <1>4 DEF NoneDeclared, Answer
<1>5. CASE Message
  BY <1>5 DEF Message
<1>6. CASE \E k \in Scattered : Scatter(k)
  BY <1>6 DEF Scatter
<1>7. CASE Send
  <2> SUFFICES ASSUME Forwarding, NEW i \in 1..Len(Tail(routes))
               PROVE  executed'[Tail(routes)[i]] = 0
    BY <1>7 DEF Send
  <2>1. PICK m \in 0..Len(Plan) : DealtWith(m)
    BY <1>0 DEF Trying
  <2>2. Tail(routes)[i] # Head(routes)
    BY <1>0, <1>7, <2>1, OtherNodes DEF Send
  <2>3. executed[Tail(routes)[i]] = 0 /\ Head(routes) \in Node /\ Tail(routes)[i] \in Node
    <3>1. /\ Tail(routes)[i] = routes[i + 1] /\ i + 1 \in 1..Len(routes) /\ Head(routes) \in Node
          /\ routes[i + 1] \in Node
      BY <1>0, <1>7, RoutesFacts, ElementOfSeq DEF Send, Phases
    <3> QED
      BY <1>0, <3>1
  <2>4. executed' \in {executed, [executed EXCEPT ![Head(routes)] = executed[Head(routes)] + 1]}
    BY <1>7 DEF Send
  <2>5. executed \in [Node -> Nat]
    BY <1>0 DEF TypeOK
  <2> QED
    BY <2>2, <2>3, <2>4, <2>5, Counted
<1>8. CASE CannotConnect
  <2> SUFFICES ASSUME Forwarding, NEW i \in 1..Len(Tail(routes))
               PROVE  executed[Tail(routes)[i]] = 0
    BY <1>8 DEF CannotConnect
  <2>1. Tail(routes)[i] = routes[i + 1] /\ i + 1 \in 1..Len(routes)
    BY <1>0, <1>8, RoutesFacts DEF CannotConnect, Phases
  <2> QED
    BY <1>0, <2>1
<1>9. CASE NodeAnswers
  BY <1>9 DEF NodeAnswers, Answer
<1>10. CASE GiveUp
  BY <1>0, <1>10 DEF GiveUp
<1>11. CASE Exhausted
  <2>1. phase' \in {"search", "answered"}
    BY <1>11 DEF Exhausted, Answer
  <2> QED
    BY <2>1
<1>12. CASE Search
  <2>1. kind' = "messages"
    BY <1>0, <1>12 DEF Search, Phases
  <2> QED
    BY <2>1 DEF Forwarded, Routed
<1>13. CASE NotFound
  BY <1>13 DEF NotFound, Answer
<1>14. CASE \E n \in Node : ScatterReply(n)
  BY <1>14 DEF ScatterReply
<1>15. CASE \E n \in Node : ScatterFails(n)
  BY <1>15 DEF ScatterFails
<1>16. CASE ScatterEnds
  BY <1>16 DEF ScatterEnds, Answer
<1>17. CASE UNCHANGED vars
  BY <1>0, <1>17 DEF vars
<1>18. CASE SessionUnknown
  BY <1>18 DEF SessionUnknown
<1> QED
  BY <1>1, <1>2, <1>3, <1>4, <1>5, <1>6, <1>7, <1>8, <1>9, <1>10, <1>11, <1>12, <1>13, <1>14,
     <1>15, <1>16, <1>17, <1>18
     DEF GatewayNext

\* A message is executed only where its session is known.
LEMMA IgnoredStep ==
  ASSUME GatewayInv, GatewayNext
  PROVE  Ignored'
<1>0. /\ TypeOK /\ Phases /\ Ignored /\ executed \in [Node -> Nat]
  BY DEF GatewayInv, TypeOK
<1>a. ASSUME UNCHANGED <<kind, knows, executed>>
      PROVE  Ignored'
  BY <1>0, <1>a DEF Ignored
<1>b. ASSUME phase = "new", UNCHANGED executed
      PROVE  Ignored'
  BY <1>0, <1>b DEF Ignored, Phases
<1>1. CASE \E k \in Kind : Refuse(k)
  BY <1>b, <1>1 DEF Refuse, Arrive
<1>2. CASE Initialize
  BY <1>b, <1>2 DEF Initialize, Arrive
<1>3. ASSUME NEW k \in Forwarded, NEW q \in Asked, ForwardTo(k, q)
      PROVE  Ignored'
  BY <1>b, <1>3 DEF ForwardTo, Arrive
<1>4. CASE NoneDeclared
  BY <1>b, <1>4 DEF NoneDeclared, Arrive
<1>5. CASE Message
  BY <1>b, <1>5 DEF Message, Arrive
<1>6. CASE \E k \in Scattered : Scatter(k)
  BY <1>b, <1>6 DEF Scatter, Arrive
<1>7. CASE Send
  <2> SUFFICES ASSUME kind = "messages", NEW n \in Node \ knows
               PROVE  executed'[n] = 0
    BY <1>7 DEF Send, Ignored
  <2>1. Head(routes) \in Node
    BY <1>0, <1>7, RoutesFacts DEF Send, Phases
  <2>2. executed[n] = 0
    BY <1>0 DEF Ignored
  <2>3. CASE Head(routes) \in knows
    <3>1. executed'[n] = executed[n]
      BY <1>0, <1>7, <2>1, <2>3, Counted DEF Send
    <3> QED
      BY <2>2, <3>1
  <2>4. CASE Head(routes) \notin knows
    <3>1. executed' = executed
      BY <1>7, <2>4 DEF Send, Accepts
    <3> QED
      BY <2>2, <3>1
  <2> QED
    BY <2>3, <2>4
<1>8. CASE CannotConnect
  BY <1>a, <1>8 DEF CannotConnect
<1>9. CASE NodeAnswers
  BY <1>a, <1>9 DEF NodeAnswers
<1>18. CASE SessionUnknown
  BY <1>a, <1>18 DEF SessionUnknown
<1>10. CASE GiveUp
  BY <1>a, <1>10 DEF GiveUp
<1>11. CASE Exhausted
  BY <1>a, <1>11 DEF Exhausted
<1>12. CASE Search
  BY <1>a, <1>12 DEF Search
<1>13. CASE NotFound
  BY <1>a, <1>13 DEF NotFound
<1>14. CASE \E n \in Node : ScatterReply(n)
  BY <1>a, <1>14 DEF ScatterReply
<1>15. CASE \E n \in Node : ScatterFails(n)
  BY <1>a, <1>15 DEF ScatterFails
<1>16. CASE ScatterEnds
  BY <1>a, <1>16 DEF ScatterEnds
<1>17. CASE UNCHANGED vars
  BY <1>a, <1>17 DEF vars
<1> QED
  BY <1>1, <1>2, <1>3, <1>4, <1>5, <1>6, <1>7, <1>8, <1>9, <1>10, <1>11, <1>12, <1>13, <1>14,
     <1>15, <1>16, <1>17, <1>18
     DEF GatewayNext

\* A node stays missed while nodes are found unreachable.
LEMMA MissedKept ==
  ASSUME UNCHANGED <<config, knows>>, failed \subseteq failed'
  PROVE  \A n : Missed(n) => Missed(n)'
BY DEF Missed, Hidden

\* What is left of replicas in their order.
LEMMA TailIncreasing ==
  ASSUME NEW s \in Seq(Node), s # <<>>, Increasing(s)
  PROVE  /\ Increasing(Tail(s))
         /\ \A n \in ToSet(Tail(s)) : Position(Head(s)) < Position(n)
<1>1. /\ Len(s) \in Nat /\ Len(s) # 0 /\ Head(s) = s[1] /\ Len(Tail(s)) = Len(s) - 1
      /\ DOMAIN Tail(s) = 1..Len(Tail(s))
      /\ \A i \in 1..Len(Tail(s)) : Tail(s)[i] = s[i + 1]
  BY RoutesFacts
<1>2. \A i \in 1..Len(Tail(s)) : i + 1 \in 1..Len(s) /\ 1 < i + 1
  BY <1>1
<1>3. Increasing(Tail(s))
  <2> SUFFICES ASSUME NEW i \in 1..Len(Tail(s)), NEW j \in 1..Len(Tail(s)), i < j
               PROVE  Position(Tail(s)[i]) < Position(Tail(s)[j])
    BY DEF Increasing
  <2>1. i + 1 < j + 1
    BY <1>1
  <2> QED
    BY <1>1, <1>2, <2>1 DEF Increasing
<1>4. ASSUME NEW n \in ToSet(Tail(s))
      PROVE  Position(Head(s)) < Position(n)
  <2>1. PICK i \in 1..Len(Tail(s)) : n = s[i + 1]
    BY <1>1 DEF ToSet
  <2>2. 1 \in 1..Len(s)
    BY <1>1
  <2> QED
    BY <1>1, <1>2, <2>1, <2>2 DEF Increasing
<1> QED
  BY <1>3, <1>4

\* The next replica of the node that the search is at is sent the request, or is
\* unreachable.
LEMMA SearchGoesOn ==
  ASSUME Phases, NEW n \in Node, SearchFor(n), routes # <<>>, phase = "forward", at = NoNode,
         NoNode \notin Node,
         routes' = Tail(routes), UNCHANGED <<config, knows, ring>>,
         \/ phase' = "sent" /\ at' = Head(routes) /\ failed' = failed
         \/ phase' = "forward" /\ at' = at /\ failed' = failed \cup {Head(routes)}
  PROVE  SearchFor(n)'
<1>1. /\ routes \in Seq(Node) /\ Head(routes) = routes[1] /\ 1 \in 1..Len(routes)
      /\ Len(routes) \in Nat /\ Len(Tail(routes)) = Len(routes) - 1
      /\ \A i \in 1..Len(Tail(routes)) : Tail(routes)[i] = routes[i + 1] /\ i + 1 \in 1..Len(routes)
      /\ ToSet(routes) = {Head(routes)} \cup ToSet(Tail(routes))
  BY RoutesFacts DEF Phases
<1>2. \A m : Missed(m) => Missed(m)'
  BY MissedKept
<1>3. Increasing(Tail(routes)) /\ \A m \in ToSet(Tail(routes)) : Position(Head(routes)) < Position(m)
  BY <1>1, TailIncreasing DEF SearchFor
<1>4. \A i \in 1..Len(Tail(routes)) : config[n][1] \in ToSet(config[Tail(routes)[i]])
  BY <1>1 DEF SearchFor
<1>5. config[n][1] \in ToSet(config[Head(routes)])
  BY <1>1 DEF SearchFor
<1>6. \A m \in knows \ (ToSet(ring) \cup {n}) : Missed(m)'
  BY <1>2 DEF SearchFor
<1>7. n \in knows => Missed(n)' \/ n \in ToSet(Tail(routes)) \/ n = at'
  BY <1>1, <1>2 DEF SearchFor, Missed
<1>8. phase' = "sent" => at' = Head(routes)
  OBVIOUS
<1>9. Increasing(routes)'
  BY <1>3 DEF Increasing
<1> QED
  BY <1>3, <1>4, <1>5, <1>6, <1>7, <1>8, <1>9 DEF SearchFor

\* A node that knows the session is missed only when it is unreachable or hidden.
LEMMA SearchedStep ==
  ASSUME GatewayInv, GatewayNext
  PROVE  Searched'
<1>0. /\ TypeOK /\ Phases /\ Searched /\ NoNode \notin Node
      /\ phase # "sent" => at = NoNode
      /\ ring # <<>> => ToSet(ring) = {Head(ring)} \cup ToSet(Tail(ring)) /\ Head(ring) \in Node
      /\ ToSet(<<>>) = {} /\ ToSet(Order) = Node
  BY RoutesFacts, NoRoutes, OrderAssumption DEF GatewayInv, Phases, TypeOK, Node
<1>a. ASSUME kind' # "messages" \/ phase' \in {"new", "answered", "scatter"}
      PROVE  Searched'
  BY <1>a DEF Searched
<1>b. ASSUME kind = "messages", phase \in {"forward", "sent"}, at = NoNode \/ at \notin knows \/ at \in failed',
             NEW n \in Node, SearchFor(n), n \notin ToSet(routes) \/ Missed(n)',
             phase' = "search", UNCHANGED <<config, knows, ring>>, failed \subseteq failed'
      PROVE  Searched'
  <2>1. \A m \in knows \ (ToSet(ring) \cup {n}) : Missed(m)'
    BY <1>b, MissedKept DEF SearchFor
  <2>2. n \in knows => Missed(n)'
    BY <1>0, <1>b, MissedKept DEF SearchFor, Missed
  <2> QED
    BY <1>b, <2>1, <2>2 DEF Searched
<1>1. CASE \E k \in Kind : Refuse(k)
  BY <1>a, <1>1 DEF Refuse, Answer
<1>2. CASE Initialize
  BY <1>a, <1>2 DEF Initialize, Answer
<1>3. ASSUME NEW k \in Forwarded, NEW q \in Asked, ForwardTo(k, q)
      PROVE  Searched'
  <2>1. kind' # "messages"
    BY <1>3 DEF ForwardTo, Arrive, Forwarded, Routed
  <2> QED
    BY <1>a, <2>1
<1>4. CASE NoneDeclared
  BY <1>a, <1>4 DEF NoneDeclared, Answer
<1>5. CASE Message
  <2>1. phase' = "search" /\ ToSet(ring)' = Node /\ knows' \subseteq Node
    BY <1>0, <1>5 DEF Message
  <2> QED
    BY <2>1 DEF Searched
<1>6. CASE \E k \in Scattered : Scatter(k)
  BY <1>a, <1>6 DEF Scatter
<1>7. CASE Send
  <2> SUFFICES ASSUME kind = "messages"
               PROVE  Searched'
    BY <1>7 DEF Send, Searched
  <2>1. PICK n \in Node : SearchFor(n)
    BY <1>0, <1>7 DEF Send, Searched
  <2>2. SearchFor(n)'
    BY <1>0, <1>7, <2>1, SearchGoesOn DEF Send
  <2> QED
    BY <1>7, <2>2 DEF Send, Searched
<1>8. CASE CannotConnect
  <2> SUFFICES ASSUME kind = "messages"
               PROVE  Searched'
    BY <1>8 DEF CannotConnect, Searched
  <2>1. PICK n \in Node : SearchFor(n)
    BY <1>0, <1>8 DEF CannotConnect, Searched
  <2>2. SearchFor(n)'
    BY <1>0, <1>8, <2>1, SearchGoesOn DEF CannotConnect
  <2> QED
    BY <1>8, <2>2 DEF CannotConnect, Searched
<1>9. CASE NodeAnswers
  BY <1>a, <1>9 DEF NodeAnswers, Answer
<1>18. CASE SessionUnknown
  <2>1. PICK n \in Node : SearchFor(n)
    BY <1>0, <1>18 DEF SessionUnknown, Searched
  <2>2. n \in ToSet(routes) => Hidden(n)
    <3>1. at \in Node
      BY <1>0, <1>18 DEF SessionUnknown, TypeOK
    <3> QED
      BY <1>18, <2>1, <3>1 DEF SessionUnknown, SearchFor, Hidden
  <2>3. Hidden(n)' = Hidden(n)
    BY <1>18 DEF SessionUnknown, Hidden
  <2> QED
    BY <1>b, <1>18, <2>1, <2>2, <2>3 DEF SessionUnknown, Missed
<1>10. CASE GiveUp
  <2> SUFFICES ASSUME kind = "messages"
               PROVE  Searched'
    BY <1>10 DEF GiveUp, Searched
  <2>1. PICK n \in Node : SearchFor(n)
    BY <1>0, <1>10 DEF GiveUp, Searched
  <2>2. /\ failed' = failed \cup {at} /\ at' = NoNode /\ phase' = "forward"
        /\ UNCHANGED <<config, kind, routes, ring, knows>>
    BY <1>10 DEF GiveUp
  <2>3. \A m : Missed(m) => Missed(m)'
    BY <2>2, MissedKept
  <2>4. n \in knows => Missed(n)' \/ n \in ToSet(routes')
    BY <2>1, <2>2, <2>3 DEF SearchFor, Missed
  <2>5. \A m \in knows' \ (ToSet(ring') \cup {n}) : Missed(m)'
    BY <2>1, <2>2, <2>3 DEF SearchFor
  <2>6. SearchFor(n)'
    BY <2>1, <2>2, <2>4, <2>5 DEF SearchFor, Increasing
  <2> QED
    BY <2>2, <2>6 DEF Searched
<1>11. CASE Exhausted
  <2>1. CASE kind = "messages"
    <3>1. PICK n \in Node : SearchFor(n)
      BY <1>0, <1>11, <2>1 DEF Exhausted, Searched
    <3>2. n \notin ToSet(routes) /\ at = NoNode /\ phase = "forward"
      BY <1>0, <1>11 DEF Exhausted
    <3> QED
      BY <1>b, <1>11, <2>1, <3>1, <3>2 DEF Exhausted
  <2>2. CASE kind # "messages"
    BY <1>a, <1>11, <2>2 DEF Exhausted
  <2> QED
    BY <2>1, <2>2
<1>12. CASE Search
  <2>0. PICK n \in Node : n = Head(ring)
    BY <1>0, <1>12 DEF Search
  <2> DEFINE q == config[n][1]
             found == Lookup(config, q)
  <2>1. config \in Configs /\ kind = "messages"
    BY <1>0, <1>12 DEF Search, TypeOK, Phases
  <2>2. q \in ToSet(config[n]) /\ q \in DeclaredKeys(config)
    BY <2>1, KeyFacts
  <2>3. /\ n \in ToSet(found) /\ found \in Seq(Node) /\ Increasing(found)
        /\ \A m \in ToSet(found) : q \in ToSet(config[m])
    BY <2>1, <2>2, LookupDeclared, LookupFacts DEF Increasing
  <2>4. \A i \in 1..Len(found) : q \in ToSet(config[found[i]])
    <3> HIDE DEF found
    <3>1. \A i \in 1..Len(found) : found[i] \in ToSet(found)
      BY <2>3, RoutesFacts DEF ToSet
    <3> QED
      BY <2>3, <3>1
  <2>5. /\ ToSet(ring) = {n} \cup ToSet(Tail(ring)) /\ phase = "search" /\ ring' = Tail(ring)
        /\ routes' = found /\ phase' = "forward"
        /\ UNCHANGED <<config, kind, knows, at, failed>>
    BY <1>0, <1>12, <2>0 DEF Search
  <2> HIDE DEF found
  <2>6. \A m : Missed(m) => Missed(m)'
    BY <2>5, MissedKept
  <2>7. \A m \in knows' \ (ToSet(ring') \cup {n}) : Missed(m)'
    BY <1>0, <2>1, <2>5, <2>6 DEF Searched
  <2>8. Increasing(routes)'
    BY <2>3, <2>5 DEF Increasing
  <2>9. \A i \in 1..Len(routes') : config'[n][1] \in ToSet(config'[routes'[i]])
    BY <2>4, <2>5
  <2>10. n \in ToSet(routes')
    BY <2>3, <2>5
  <2>11. phase' # "sent"
    BY <2>5
  <2> HIDE DEF q
  <2>12. SearchFor(n)'
    BY <2>7, <2>8, <2>9, <2>10, <2>11 DEF SearchFor
  <2> QED
    BY <2>1, <2>5, <2>12 DEF Searched
<1>13. CASE NotFound
  BY <1>a, <1>13 DEF NotFound, Answer
<1>14. CASE \E n \in Node : ScatterReply(n)
  BY <1>0, <1>a, <1>14 DEF ScatterReply
<1>15. CASE \E n \in Node : ScatterFails(n)
  BY <1>0, <1>a, <1>15 DEF ScatterFails
<1>16. CASE ScatterEnds
  BY <1>a, <1>16 DEF ScatterEnds, Answer
<1>17. CASE UNCHANGED vars
  <2>1. \A m : Missed(m)' = Missed(m)
    BY <1>17 DEF vars, Missed, Hidden
  <2>2. \A n : SearchFor(n)' = SearchFor(n)
    BY <1>17, <2>1 DEF vars, SearchFor, Increasing
  <2> QED
    BY <1>0, <1>17, <2>1, <2>2 DEF vars, Searched
<1> QED
  BY <1>1, <1>2, <1>3, <1>4, <1>5, <1>6, <1>7, <1>8, <1>9, <1>10, <1>11, <1>12, <1>13, <1>14,
     <1>15, <1>16, <1>17, <1>18
     DEF GatewayNext

\* The merged list changes only with an answer.
LEMMA MergedKept ==
  ASSUME Merged, UNCHANGED <<config, kind, listed>>, Answered' = Answered
  PROVE  Merged'
BY DEF Merged, TypesOf, VersionsOf

\* An answer adds the types that the list does not have, with all their versions.
LEMMA MergedStep ==
  ASSUME GatewayInv, GatewayNext
  PROVE  Merged'
<1>0. /\ TypeOK /\ Phases /\ Merged /\ replies \in [Node -> {"none", "ok", "error"}]
  BY DEF GatewayInv, TypeOK
<1>a. ASSUME UNCHANGED <<config, kind, replies, listed>>
      PROVE  Merged'
  BY <1>0, <1>a, MergedKept DEF Answered
<1>b. ASSUME phase = "new", UNCHANGED <<config, replies, listed>>
      PROVE  Merged'
  <2>1. listed' = {} /\ Answered' = {}
    BY <1>0, <1>b DEF Phases, Answered
  <2> QED
    BY <2>1 DEF Merged, TypesOf
<1>1. CASE \E k \in Kind : Refuse(k)
  BY <1>b, <1>1 DEF Refuse, Arrive
<1>2. CASE Initialize
  BY <1>b, <1>2 DEF Initialize, Arrive
<1>3. ASSUME NEW k \in Forwarded, NEW q \in Asked, ForwardTo(k, q)
      PROVE  Merged'
  BY <1>b, <1>3 DEF ForwardTo, Arrive
<1>4. CASE NoneDeclared
  BY <1>b, <1>4 DEF NoneDeclared, Arrive
<1>5. CASE Message
  BY <1>b, <1>5 DEF Message, Arrive
<1>6. CASE \E k \in Scattered : Scatter(k)
  BY <1>b, <1>6 DEF Scatter, Arrive
<1>7. CASE Send
  BY <1>a, <1>7 DEF Send
<1>8. CASE CannotConnect
  BY <1>a, <1>8 DEF CannotConnect
<1>9. CASE NodeAnswers
  BY <1>a, <1>9 DEF NodeAnswers
<1>18. CASE SessionUnknown
  BY <1>a, <1>18 DEF SessionUnknown
<1>10. CASE GiveUp
  BY <1>a, <1>10 DEF GiveUp
<1>11. CASE Exhausted
  BY <1>a, <1>11 DEF Exhausted
<1>12. CASE Search
  BY <1>a, <1>12 DEF Search
<1>13. CASE NotFound
  BY <1>a, <1>13 DEF NotFound
<1>14. CASE \E n \in Node : ScatterReply(n)
  <2> SUFFICES ASSUME kind = "databases"
               PROVE  Merged'
    BY <1>14 DEF ScatterReply, Merged
  <2>1. PICK n \in Node : ScatterReply(n)
    BY <1>14
  <2> DEFINE own == ToSet(config[n])
             new == {k \in own : \A l \in listed : l[1] # k[1]}
             Types(m) == TypesOf(ToSet(config[m]))
  <2>2. listed' = listed \cup new /\ UNCHANGED <<config, kind>>
    BY <2>1 DEF ScatterReply
  <2>3. Answered' = Answered \cup {n}
    BY <1>0, <2>1 DEF ScatterReply, Answered
  <2>4. TypesOf(listed') = TypesOf(listed) \cup TypesOf(own)
    BY <2>2 DEF TypesOf
  <2>5. \A t : t \in UNION {Types(m) : m \in Answered \cup {n}}
                <=> t \in UNION {Types(m) : m \in Answered} \/ t \in Types(n)
    <3> HIDE DEF Types
    <3>1. \A A, t : t \in UNION {Types(m) : m \in A} <=> \E m \in A : t \in Types(m)
      OBVIOUS
    <3> QED
      BY <3>1
  <2>6. ASSUME NEW k \in listed
        PROVE  \E m \in Answered' : VersionsOf(listed', k[1]) = VersionsOf(ToSet(config[m]), k[1])
    <3>1. PICK m \in Answered : VersionsOf(listed, k[1]) = VersionsOf(ToSet(config[m]), k[1])
      BY <1>0 DEF Merged
    <3>2. VersionsOf(listed', k[1]) = VersionsOf(listed, k[1])
      BY <2>2 DEF VersionsOf
    <3> QED
      BY <2>3, <3>1, <3>2
  <2>7. ASSUME NEW k \in new
        PROVE  \E m \in Answered' : VersionsOf(listed', k[1]) = VersionsOf(ToSet(config[m]), k[1])
    <3>1. VersionsOf(listed', k[1]) = VersionsOf(own, k[1])
      BY <2>2 DEF VersionsOf
    <3> QED
      BY <2>3, <3>1
  <2> HIDE DEF own, new
  <2>8. TypesOf(listed') = UNION {Types(m) : m \in Answered'}
    <3>1. TypesOf(listed) = UNION {Types(m) : m \in Answered}
      BY <1>0 DEF Merged
    <3>2. TypesOf(own) = Types(n)
      BY DEF own
    <3> HIDE DEF Types
    <3>3. \A t : t \in TypesOf(listed') <=> t \in UNION {Types(m) : m \in Answered \cup {n}}
      BY <2>4, <2>5, <3>1, <3>2
    <3>4. TypesOf(listed') = UNION {Types(m) : m \in Answered \cup {n}}
      BY <3>3
    <3> QED
      BY <2>3, <3>4
  <2> QED
    BY <2>2, <2>6, <2>7, <2>8 DEF Merged, TypesOf, VersionsOf
<1>15. CASE \E n \in Node : ScatterFails(n)
  <2>1. Answered' = Answered /\ UNCHANGED <<config, kind, listed>>
    BY <1>0, <1>15 DEF ScatterFails, Answered
  <2> QED
    BY <1>0, <2>1, MergedKept
<1>16. CASE ScatterEnds
  BY <1>a, <1>16 DEF ScatterEnds
<1>17. CASE UNCHANGED vars
  BY <1>a, <1>17 DEF vars
<1> QED
  BY <1>1, <1>2, <1>3, <1>4, <1>5, <1>6, <1>7, <1>8, <1>9, <1>10, <1>11, <1>12, <1>13, <1>14,
     <1>15, <1>16, <1>17, <1>18
     DEF GatewayNext

\* Where nobody has the request and nobody has answered it, its place is right.
LEMMA NobodyInPlace ==
  ASSUME at = NoNode, answer.node = NoNode
  PROVE  FailoverInOrder
BY OrderAssumption DEF FailoverInOrder

\* The replicas before the one that has the request have failed.
LEMMA FailoverStep ==
  ASSUME GatewayInv, GatewayNext
  PROVE  FailoverInOrder'
<1>0. /\ TypeOK /\ Phases /\ Trying /\ FailoverInOrder /\ NoNode \notin Node
      /\ phase # "sent" => at = NoNode
      /\ phase # "answered" => answer.node = NoNode /\ answer.status = "none"
  BY OrderAssumption DEF GatewayInv, TypeOK, NoAnswer
<1>a. ASSUME at' = NoNode, answer'.node = NoNode
      PROVE  FailoverInOrder'
  BY <1>a, <1>0 DEF FailoverInOrder
<1>1. CASE \E k \in Kind : Refuse(k)
  BY <1>0, <1>a, <1>1 DEF Refuse, Arrive, Answer
<1>2. CASE Initialize
  BY <1>0, <1>a, <1>2 DEF Initialize, Arrive, Answer
<1>3. ASSUME NEW k \in Forwarded, NEW q \in Asked, ForwardTo(k, q)
      PROVE  FailoverInOrder'
  <2>1. answer'.node = NoNode /\ at' = NoNode
    <3>1. CASE Lookup(config, q) = <<>>
      <4>1. Answer("no node", NoNode) /\ at' = at /\ phase = "new"
        BY <1>3, <3>1 DEF ForwardTo, Arrive
      <4> QED
        BY <1>0, <4>1 DEF Answer
    <3>2. CASE Lookup(config, q) # <<>>
      BY <1>0, <1>3, <3>2 DEF ForwardTo, Arrive
    <3> QED
      BY <3>1, <3>2
  <2> QED
    BY <1>a, <2>1
<1>4. CASE NoneDeclared
  BY <1>0, <1>a, <1>4 DEF NoneDeclared, Arrive, Answer
<1>5. CASE Message
  BY <1>0, <1>a, <1>5 DEF Message, Arrive, Answer
<1>6. CASE \E k \in Scattered : Scatter(k)
  BY <1>0, <1>a, <1>6 DEF Scatter, Arrive, Answer
<1>7. CASE Send
  <2> SUFFICES ASSUME kind \in Forwarded
               PROVE  LET found == Lookup(config, key) IN
                        \E i \in DOMAIN found :
                          /\ found[i] = Head(routes)
                          /\ \A j \in 1..(i - 1) : found[j] \in failed
                          /\ kind = "sse" => i = 1
    <3>1. /\ at' = Head(routes) /\ answer'.node = NoNode
          /\ UNCHANGED <<config, kind, key, failed>>
      BY <1>0, <1>7 DEF Send
    <3> QED
      BY <1>0, <3>1 DEF FailoverInOrder
  <2>1. PICK m \in 0..Len(Plan) : DealtWith(m)
    BY <1>0, <1>7 DEF Send, Trying, Forwarding
  <2>2. m + 1 \in 1..Len(Plan) /\ Plan[m + 1] = Head(routes)
    BY <1>0, <1>7, <2>1, OneFurther DEF Send
  <2>3. \A j \in 1..m : Plan[j] \in failed
    BY <1>7, <2>1 DEF Send, DealtWith
  <2> DEFINE found == Lookup(config, key)
  <2>4. /\ \A i \in 1..Len(Plan) : i \in DOMAIN found /\ Plan[i] = found[i]
        /\ kind = "sse" => Len(Plan) <= 1
        /\ Len(Plan) \in Nat
    BY PlanFacts
  <2> HIDE DEF found
  <2>5. m + 1 \in DOMAIN found /\ found[m + 1] = Head(routes) /\ (kind = "sse" => m + 1 = 1)
    BY <2>2, <2>4
  <2>6. \A j \in 1..((m + 1) - 1) : found[j] \in failed
    <3>1. (m + 1) - 1 = m /\ \A j \in 1..m : j \in 1..Len(Plan)
      BY <2>2, <2>4
    <3> QED
      BY <2>3, <2>4, <3>1
  <2> QED
    BY <2>5, <2>6 DEF found
<1>8. CASE CannotConnect
  BY <1>0, <1>a, <1>8 DEF CannotConnect
<1>9. CASE NodeAnswers
  <2>1. /\ at \in Node /\ at' = NoNode /\ answer'.node = at
        /\ UNCHANGED <<config, kind, key, failed>>
    BY <1>0, <1>9 DEF NodeAnswers, Answer, TypeOK
  <2> QED
    BY <1>0, <2>1 DEF FailoverInOrder
<1>10. CASE GiveUp
  BY <1>0, <1>a, <1>10 DEF GiveUp
<1>11. CASE Exhausted
  <2>1. answer'.node = NoNode /\ at' = NoNode
    <3>1. CASE kind = "messages"
      BY <1>0, <1>11, <3>1 DEF Exhausted
    <3>2. CASE kind # "messages"
      BY <1>0, <1>11, <3>2 DEF Exhausted, Answer
    <3> QED
      BY <3>1, <3>2
  <2> QED
    BY <1>a, <2>1
<1>12. CASE Search
  BY <1>0, <1>a, <1>12 DEF Search
<1>13. CASE NotFound
  BY <1>0, <1>a, <1>13 DEF NotFound, Answer
<1>14. CASE \E n \in Node : ScatterReply(n)
  BY <1>0, <1>a, <1>14 DEF ScatterReply
<1>15. CASE \E n \in Node : ScatterFails(n)
  BY <1>0, <1>a, <1>15 DEF ScatterFails
<1>16. CASE ScatterEnds
  BY <1>0, <1>a, <1>16 DEF ScatterEnds, Answer
<1>17. CASE UNCHANGED vars
  BY <1>0, <1>17 DEF vars, FailoverInOrder
<1>18. CASE SessionUnknown
  BY <1>0, <1>a, <1>18 DEF SessionUnknown
<1> QED
  BY <1>1, <1>2, <1>3, <1>4, <1>5, <1>6, <1>7, <1>8, <1>9, <1>10, <1>11, <1>12, <1>13, <1>14,
     <1>15, <1>16, <1>17, <1>18
     DEF GatewayNext

\* Who executed the request has it, answered it or was given up, and did it once.
LEMMA ExecutedStep ==
  ASSUME GatewayInv, GatewayNext
  PROVE  ExecutedOnce'
<1>0. /\ TypeOK /\ Phases /\ Untried /\ Ignored /\ ExecutedOnce /\ NoNode \notin Node
      /\ executed \in [Node -> Nat]
      /\ phase # "sent" => at = NoNode
      /\ phase # "answered" => answer.node = NoNode
  BY OrderAssumption DEF GatewayInv, TypeOK, NoAnswer
<1>a. ASSUME phase = "new", executed' = executed
      PROVE  ExecutedOnce'
  BY <1>a, <1>0 DEF ExecutedOnce, Phases
<1>1. CASE \E k \in Kind : Refuse(k)
  BY <1>a, <1>1 DEF Refuse, Arrive
<1>2. CASE Initialize
  BY <1>a, <1>2 DEF Initialize, Arrive
<1>3. ASSUME NEW k \in Forwarded, NEW q \in Asked, ForwardTo(k, q)
      PROVE  ExecutedOnce'
  BY <1>a, <1>3 DEF ForwardTo, Arrive
<1>4. CASE NoneDeclared
  BY <1>a, <1>4 DEF NoneDeclared, Arrive
<1>5. CASE Message
  BY <1>a, <1>5 DEF Message, Arrive
<1>6. CASE \E k \in Scattered : Scatter(k)
  BY <1>a, <1>6 DEF Scatter, Arrive
<1>7. CASE Send
  <2>1. /\ at' = Head(routes) /\ Head(routes) \in Node /\ at = NoNode
        /\ answer' = answer /\ answer.node = NoNode /\ failed' = failed /\ kind' = kind
    BY <1>0, <1>7, RoutesFacts DEF Send, Phases
  <2>2. kind # "messages" => executed[Head(routes)] = 0
    <3>1. kind # "messages" => Forwarding
      BY <1>0, <1>7 DEF Send, Phases, Forwarding
    <3>2. Head(routes) = routes[1] /\ 1 \in 1..Len(routes)
      BY <1>0, <1>7, RoutesFacts DEF Send, Phases
    <3> QED
      BY <1>0, <3>1, <3>2 DEF Untried
  <2>3. ASSUME NEW n \in Node, executed'[n] > 0
        PROVE  n \in failed \cup {Head(routes)} /\ (kind # "messages" => executed'[n] = 1)
    <3>1. CASE executed' = executed
      BY <1>0, <2>1, <2>2, <2>3, <3>1 DEF ExecutedOnce
    <3>2. CASE executed' = [executed EXCEPT ![Head(routes)] = executed[Head(routes)] + 1] /\ n = Head(routes)
      BY <1>0, <2>1, <2>2, <3>2, Counted
    <3>3. CASE executed' = [executed EXCEPT ![Head(routes)] = executed[Head(routes)] + 1] /\ n # Head(routes)
      <4>1. executed'[n] = executed[n]
        BY <1>0, <2>1, <3>3, Counted
      <4> QED
        BY <1>0, <2>1, <2>3, <4>1 DEF ExecutedOnce
    <3> QED
      BY <1>7, <3>1, <3>2, <3>3 DEF Send
  <2> QED
    BY <2>1, <2>3 DEF ExecutedOnce
<1>8. CASE CannotConnect
  BY <1>0, <1>8 DEF CannotConnect, ExecutedOnce
<1>9. CASE NodeAnswers
  BY <1>0, <1>9 DEF NodeAnswers, Answer, ExecutedOnce
<1>10. CASE GiveUp
  BY <1>0, <1>10 DEF GiveUp, ExecutedOnce
<1>11. CASE Exhausted
  <2>1. answer'.node = NoNode /\ answer.node = NoNode
    <3>1. CASE kind = "messages"
      BY <1>0, <1>11, <3>1 DEF Exhausted
    <3>2. CASE kind # "messages"
      BY <1>0, <1>11, <3>2 DEF Exhausted, Answer
    <3> QED
      BY <3>1, <3>2
  <2> QED
    BY <1>0, <1>11, <2>1 DEF Exhausted, ExecutedOnce
<1>12. CASE Search
  BY <1>0, <1>12 DEF Search, ExecutedOnce
<1>13. CASE NotFound
  BY <1>0, <1>13 DEF NotFound, Answer, ExecutedOnce
<1>14. CASE \E n \in Node : ScatterReply(n)
  BY <1>0, <1>14 DEF ScatterReply, ExecutedOnce
<1>15. CASE \E n \in Node : ScatterFails(n)
  BY <1>0, <1>15 DEF ScatterFails, ExecutedOnce
<1>16. CASE ScatterEnds
  BY <1>0, <1>16 DEF ScatterEnds, Answer, ExecutedOnce
<1>17. CASE UNCHANGED vars
  BY <1>0, <1>17 DEF vars, ExecutedOnce
<1>18. CASE SessionUnknown
  <2>1. executed[at] = 0 /\ at \in Node
    BY <1>0, <1>18 DEF SessionUnknown, Ignored, TypeOK
  <2> QED
    BY <1>0, <1>18, <2>1 DEF SessionUnknown, ExecutedOnce
<1> QED
  BY <1>1, <1>2, <1>3, <1>4, <1>5, <1>6, <1>7, <1>8, <1>9, <1>10, <1>11, <1>12, <1>13, <1>14,
     <1>15, <1>16, <1>17, <1>18
     DEF GatewayNext

\* Who is told that nobody answers was told so by all.
LEMMA NoAnswerStep ==
  ASSUME GatewayInv, GatewayNext
  PROVE  NoAnswerMeansAll'
<1>0. /\ TypeOK /\ Phases /\ Trying /\ Searched /\ NoAnswerMeansAll
      /\ failed \subseteq Node /\ ToSet(<<>>) = {}
      /\ phase # "answered" => answer.status = "none"
  BY NoRoutes DEF GatewayInv, TypeOK, NoAnswer
<1>a. ASSUME answer'.status \notin {"unreachable", "not found"}
      PROVE  NoAnswerMeansAll'
  BY <1>a DEF NoAnswerMeansAll
<1>1. CASE \E k \in Kind : Refuse(k)
  BY <1>0, <1>a, <1>1 DEF Refuse, Arrive, Answer
<1>2. CASE Initialize
  BY <1>0, <1>a, <1>2 DEF Initialize, Arrive, Answer
<1>3. ASSUME NEW k \in Forwarded, NEW q \in Asked, ForwardTo(k, q)
      PROVE  NoAnswerMeansAll'
  <2>1. answer'.status \in {"none", "no node"}
    <3>1. CASE Lookup(config, q) = <<>>
      <4>1. Answer("no node", NoNode)
        BY <1>3, <3>1 DEF ForwardTo
      <4> QED
        BY <4>1 DEF Answer
    <3>2. CASE Lookup(config, q) # <<>>
      BY <1>0, <1>3, <3>2 DEF ForwardTo, Arrive
    <3> QED
      BY <3>1, <3>2
  <2> QED
    BY <1>a, <2>1
<1>4. CASE NoneDeclared
  BY <1>0, <1>a, <1>4 DEF NoneDeclared, Arrive, Answer
<1>5. CASE Message
  BY <1>0, <1>a, <1>5 DEF Message, Arrive, Answer
<1>6. CASE \E k \in Scattered : Scatter(k)
  BY <1>0, <1>a, <1>6 DEF Scatter, Arrive, Answer
<1>7. CASE Send
  BY <1>0, <1>a, <1>7 DEF Send
<1>8. CASE CannotConnect
  BY <1>0, <1>a, <1>8 DEF CannotConnect
<1>9. CASE NodeAnswers
  BY <1>0, <1>a, <1>9 DEF NodeAnswers, Answer
<1>10. CASE GiveUp
  BY <1>0, <1>a, <1>10 DEF GiveUp
<1>11. CASE Exhausted
  <2>1. CASE kind = "messages"
    BY <1>0, <1>a, <1>11, <2>1 DEF Exhausted
  <2>2. CASE kind # "messages"
    <3>1. answer'.status = "unreachable" /\ UNCHANGED <<config, kind, key, failed>>
      BY <1>11, <2>2 DEF Exhausted, Answer
    <3>2. PICK m \in 0..Len(Plan) : DealtWith(m)
      BY <1>0, <1>11, <2>2 DEF Exhausted, Trying, Forwarding, Phases
    <3>3. m = Len(Plan)
      BY <1>0, <1>11, <3>2, PlanFacts, NoRoutes DEF Exhausted, DealtWith
    <3>4. \A j \in 1..Len(Plan) : Plan[j] \in failed
      BY <1>11, <3>2, <3>3 DEF Exhausted, DealtWith
    <3>5. ToSet(Plan) \subseteq failed
      BY <3>4, PlanFacts DEF ToSet
    <3>6. kind # "sse" => ToSet(Lookup(config, key)) \subseteq failed
      BY <3>5, PlanFacts
    <3> QED
      BY <3>1, <3>6 DEF NoAnswerMeansAll
  <2> QED
    BY <2>1, <2>2
<1>12. CASE Search
  BY <1>0, <1>a, <1>12 DEF Search
<1>13. CASE NotFound
  <2>1. kind = "messages" /\ phase = "search" /\ ring = <<>>
    BY <1>0, <1>13 DEF NotFound, Phases
  <2>2. \A n \in knows : Missed(n)
    BY <1>0, <2>1 DEF Searched
  <2>3. knows = Node => failed = Node
    BY <1>0, <2>2 DEF Missed, Hidden
  <2>4. answer'.status = "not found" /\ UNCHANGED <<config, failed, knows>>
    BY <1>13 DEF NotFound, Answer
  <2> QED
    BY <2>2, <2>3, <2>4 DEF NoAnswerMeansAll, Missed, Hidden
<1>14. CASE \E n \in Node : ScatterReply(n)
  BY <1>0, <1>a, <1>14 DEF ScatterReply
<1>15. CASE \E n \in Node : ScatterFails(n)
  BY <1>0, <1>a, <1>15 DEF ScatterFails
<1>16. CASE ScatterEnds
  BY <1>0, <1>a, <1>16 DEF ScatterEnds, Answer
<1>17. CASE UNCHANGED vars
  BY <1>0, <1>17 DEF vars, NoAnswerMeansAll, Hidden
<1>18. CASE SessionUnknown
  BY <1>0, <1>a, <1>18 DEF SessionUnknown
<1> QED
  BY <1>1, <1>2, <1>3, <1>4, <1>5, <1>6, <1>7, <1>8, <1>9, <1>10, <1>11, <1>12, <1>13, <1>14,
     <1>15, <1>16, <1>17, <1>18
     DEF GatewayNext

\* A broadcast ends with an answer of every node.
LEMMA CoversStep ==
  ASSUME GatewayInv, GatewayNext
  PROVE  ScatterCovers'
<1>0. /\ TypeOK /\ Phases /\ Merged /\ ScatterCovers
  BY DEF GatewayInv
<1>a. ASSUME kind' \notin Scattered \/ phase' # "answered" \/ answer'.status = "unauthorized"
      PROVE  ScatterCovers'
  BY <1>a DEF ScatterCovers
<1>1. CASE \E k \in Kind : Refuse(k)
  BY <1>a, <1>1 DEF Refuse, Answer
<1>2. CASE Initialize
  BY <1>a, <1>2 DEF Initialize, Arrive, Scattered, Forwarded, Routed
<1>3. ASSUME NEW k \in Forwarded, NEW q \in Asked, ForwardTo(k, q)
      PROVE  ScatterCovers'
  BY <1>a, <1>3 DEF ForwardTo, Arrive, Scattered, Forwarded, Routed
<1>4. CASE NoneDeclared
  BY <1>a, <1>4 DEF NoneDeclared, Arrive, Scattered, Forwarded, Routed
<1>5. CASE Message
  BY <1>a, <1>5 DEF Message
<1>6. CASE \E k \in Scattered : Scatter(k)
  BY <1>a, <1>6 DEF Scatter
<1>7. CASE Send
  BY <1>a, <1>7 DEF Send
<1>8. CASE CannotConnect
  BY <1>a, <1>8 DEF CannotConnect
<1>9. CASE NodeAnswers
  <2>1. kind' \notin Scattered
    BY <1>0, <1>9 DEF NodeAnswers, Phases, Forwarded, Routed, Scattered
  <2> QED
    BY <1>a, <2>1
<1>10. CASE GiveUp
  BY <1>a, <1>10 DEF GiveUp
<1>11. CASE Exhausted
  <2>1. kind' \notin Scattered
    BY <1>0, <1>11 DEF Exhausted, Phases, Forwarded, Routed, Scattered
  <2> QED
    BY <1>a, <2>1
<1>12. CASE Search
  BY <1>a, <1>12 DEF Search
<1>13. CASE NotFound
  <2>1. kind' \notin Scattered
    BY <1>0, <1>13 DEF NotFound, Phases, Forwarded, Routed, Scattered
  <2> QED
    BY <1>a, <2>1
<1>14. CASE \E n \in Node : ScatterReply(n)
  BY <1>a, <1>14 DEF ScatterReply
<1>15. CASE \E n \in Node : ScatterFails(n)
  BY <1>a, <1>15 DEF ScatterFails
<1>16. CASE ScatterEnds
  <2>1. /\ \A n \in Node : replies[n] # "none"
        /\ answer'.status = IF kind = "tools/list"
                            THEN IF \E n \in Node : replies[n] = "ok" THEN "tools" ELSE "no tools"
                            ELSE IF \A n \in Node : replies[n] = "ok" THEN "complete"
                            ELSE "partial"
        /\ UNCHANGED <<config, kind, replies, listed>>
    BY <1>16 DEF ScatterEnds, Answer
  <2>2. Answered' = Answered /\ Merged'
    BY <1>0, <2>1, MergedKept DEF Answered
  <2>3. /\ answer'.status = "complete" => Answered = Node
        /\ answer'.status = "partial" => Answered # Node
        /\ answer'.status = "no tools" => Answered = {}
        /\ answer'.status \in {"tools", "no tools"} <=> kind = "tools/list"
    BY <2>1 DEF Answered
  <2> QED
    BY <2>1, <2>2, <2>3 DEF Merged, ScatterCovers
<1>17. CASE UNCHANGED vars
  BY <1>0, <1>17 DEF vars, ScatterCovers, Answered, TypesOf, VersionsOf
<1>18. CASE SessionUnknown
  BY <1>a, <1>18 DEF SessionUnknown
<1> QED
  BY <1>1, <1>2, <1>3, <1>4, <1>5, <1>6, <1>7, <1>8, <1>9, <1>10, <1>11, <1>12, <1>13, <1>14,
     <1>15, <1>16, <1>17, <1>18
     DEF GatewayNext

(***************************************************************************)
(* The theorems                                                            *)
(***************************************************************************)
\* A request that has not arrived satisfies it all.
LEMMA GatewayStarts ==
  ASSUME Init
  PROVE  GatewayInv
<1>1. TypeOK
  BY NoRoutes, OrderAssumption DEF Init, TypeOK, NoAnswer, Statuses
<1>2. Phases /\ Trying /\ Untried /\ Ignored /\ Searched /\ Merged
  BY NoRoutes DEF Init, Phases, Trying, Untried, Ignored, Forwarding, Searched, Merged, Forwarded,
                  Routed
<1>3. FailoverInOrder /\ ExecutedOnce /\ NoAnswerMeansAll /\ ScatterCovers
  BY DEF Init, FailoverInOrder, ExecutedOnce, NoAnswerMeansAll, ScatterCovers, NoAnswer,
         Forwarded, Routed, Scattered
<1> QED
  BY <1>1, <1>2, <1>3 DEF GatewayInv

\* The strengthening is an invariant, whatever the nodes declare and do.
THEOREM GatewayInvariant == Spec => []GatewayInv
<1>1. Init => GatewayInv
  BY GatewayStarts
<1>2. GatewayInv /\ [Next]_vars => GatewayInv'
  <2> SUFFICES ASSUME GatewayInv, [Next]_vars
               PROVE  GatewayInv'
    OBVIOUS
  <2>1. GatewayNext
    BY NextCases DEF GatewayInv
  <2>2. TypeOK' /\ Phases' /\ Trying' /\ Untried' /\ Ignored' /\ Searched' /\ Merged'
    BY <2>1, TypeStep, PhasesStep, TryingStep, UntriedStep, IgnoredStep, SearchedStep, MergedStep
  <2>3. FailoverInOrder' /\ ExecutedOnce' /\ NoAnswerMeansAll' /\ ScatterCovers'
    BY <2>1, FailoverStep, ExecutedStep, NoAnswerStep, CoversStep
  <2> QED
    BY <2>2, <2>3 DEF GatewayInv
<1> QED
  BY <1>1, <1>2, PTL DEF Spec

\* A request keeps to the routes, nodes and statuses of its table.
THEOREM GatewayTypes == Spec => []TypeOK
<1>1. GatewayInv => TypeOK
  BY DEF GatewayInv
<1> QED
  BY <1>1, GatewayInvariant, PTL

\* The three tiers of RouteTable.lookup, for whatever the nodes declare: the
\* replicas are the nodes that declare the most specific version above the one
\* that was asked for, in the order of routing.yaml.
THEOREM LookupIsMostSpecific == Spec => []MostSpecific
<1>1. TypeOK => MostSpecific
  <2> SUFFICES ASSUME TypeOK, kind \in Routed, key # NoKey
               PROVE  LET found == Lookup(config, key)
                          above == {k \in DeclaredKeys(config) :
                                      k[1] = key[1] /\ IsPrefix(k[2], key[2])}
                      IN /\ \A i, j \in DOMAIN found :
                              i < j => Position(found[i]) < Position(found[j])
                         /\ above # {} => \E k \in above :
                              /\ \A l \in above : IsPrefix(l[2], k[2])
                              /\ ToSet(found) = {n \in Node : k \in ToSet(config[n])}
                         /\ \A n \in ToSet(found) : \E k \in ToSet(config[n]) : k[1] = key[1]
                         /\ found = <<>> => \A k \in DeclaredKeys(config) : k[1] # key[1]
    BY DEF MostSpecific
  <2>1. config \in Configs /\ key \in DbType \X Seq(Part)
    BY KeyFacts, VersionAssumption DEF TypeOK
  <2>2. DOMAIN Lookup(config, key) = 1..Len(Lookup(config, key))
    BY LookupFacts, LenProperties
  <2> QED
    BY <2>1, <2>2, LookupFacts, LookupSpecific
<1> QED
  BY <1>1, GatewayTypes, PTL

\* Failover (forward() of proxy.py) goes through the replicas in their order.
THEOREM FailoverOrdered == Spec => []FailoverInOrder
<1>1. GatewayInv => FailoverInOrder
  BY DEF GatewayInv
<1> QED
  BY <1>1, GatewayInvariant, PTL

\* However often nodes hang and are given up, none executes a request twice; another
\* executes it as well only once the one before it was given up.
THEOREM OneExecution == Spec => []ExecutedOnce
<1>1. GatewayInv => ExecutedOnce
  BY DEF GatewayInv
<1> QED
  BY <1>1, GatewayInvariant, PTL

\* "Unreachable" is said after every replica failed, and "session not found" only where
\* each node that knows the session failed or was hidden by a node that answered 404 in
\* its place (the search of /messages in routes.py).
THEOREM AllTried == Spec => []NoAnswerMeansAll
<1>1. GatewayInv => NoAnswerMeansAll
  BY DEF GatewayInv
<1> QED
  BY <1>1, GatewayInvariant, PTL

\* A broadcast (scatter() of proxy.py) waits for every node and tells of each failure,
\* but for tools/list, which tells only of the failure of all; the merged list has each
\* type that came back, with the versions of one node.
THEOREM BroadcastCovers == Spec => []ScatterCovers
<1>1. GatewayInv => ScatterCovers
  BY DEF GatewayInv
<1> QED
  BY <1>1, GatewayInvariant, PTL
================================================================================
