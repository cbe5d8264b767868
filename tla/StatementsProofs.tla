--------------------------- MODULE StatementsProofs ---------------------------
(***************************************************************************)
(* Proofs about the scanner of Statements, for texts of any length over    *)
(* any symbols, closed or not: the instance of TLC compares it with a      *)
(* definition on short texts of closed lexemes.                            *)
(***************************************************************************)
EXTENDS Statements, SequenceTheorems, WellFoundedInduction, TLAPS

(***************************************************************************)
(* Induction, as facts about sets of natural numbers                       *)
(***************************************************************************)
Less == OpToRel(<, Nat)

LEMMA LeastNat ==
  ASSUME NEW T \in SUBSET Nat, T # {}
  PROVE  \E m \in T : \A k \in T : m <= k
<1>1. IsWellFoundedOn(Less, Nat)
  BY NatLessThanWellFounded DEF Less
<1>2. PICK m \in T : \A k \in T : <<k, m>> \notin Less
  BY <1>1, WFMin
<1>3. \A k \in T : ~(k < m)
  BY <1>2 DEF Less, OpToRel
<1> QED
  BY <1>2, <1>3

\* A set that has 0 and the successor of each of its elements has them all.
LEMMA AllNat ==
  ASSUME NEW T \in SUBSET Nat, 0 \in T, \A n \in Nat : n \in T => n + 1 \in T
  PROVE  T = Nat
<1> SUFFICES ASSUME T # Nat
             PROVE FALSE
  OBVIOUS
<1>1. PICK m \in Nat \ T : \A k \in Nat \ T : m <= k
  BY LeastNat
<1>2. m # 0 /\ m - 1 \in Nat
  BY <1>1
<1>3. m - 1 \in T
  BY <1>1, <1>2
<1>4. m - 1 + 1 \in T
  BY <1>2, <1>3
<1> QED
  BY <1>1, <1>4

\* The least and the greatest element of a set of positions.
LEMMA MinFacts ==
  ASSUME NEW T \in SUBSET Nat, T # {}
  PROVE  Min(T) \in T /\ \A i \in T : Min(T) <= i
<1>1. PICK m \in T : \A i \in T : m <= i
  BY LeastNat
<1> QED
  BY <1>1 DEF Min

LEMMA MaxFacts ==
  ASSUME NEW b \in Nat, NEW T \in SUBSET (0..b), T # {}
  PROVE  Max(T) \in T /\ \A i \in T : i <= Max(T)
<1> DEFINE U == {u \in 0..b : \A i \in T : i <= u}
<1>1. U \in SUBSET Nat /\ b \in U
  OBVIOUS
<1>2. PICK m \in U : \A u \in U : m <= u
  BY <1>1, LeastNat
<1>3. m \in T
  <2> SUFFICES ASSUME m \notin T
               PROVE  FALSE
    OBVIOUS
  <2>1. \A i \in T : i \in Nat /\ i <= m /\ i # m
    BY <1>2
  <2>2. m \in Nat /\ m # 0
    <3>1. PICK i \in T : TRUE
      OBVIOUS
    <3> QED
      BY <1>2, <2>1, <3>1
  <2>3. m - 1 \in U
    BY <1>2, <2>1, <2>2
  <2> QED
    BY <1>2, <2>2, <2>3
<1>4. \E x \in T : \A y \in T : x >= y
  BY <1>2, <1>3
<1>5. Max(T) \in T /\ \A y \in T : Max(T) >= y
  BY <1>4 DEF Max
<1> QED
  BY <1>5

LEMMA MaxOfTwo ==
  ASSUME NEW a \in Nat, NEW b \in Nat
  PROVE  Max({a, b}) \in {a, b} /\ a <= Max({a, b})
<1>1. \E x \in {a, b} : \A y \in {a, b} : x >= y
  BY SMT
<1>2. Max({a, b}) \in {a, b} /\ \A y \in {a, b} : Max({a, b}) >= y
  BY <1>1 DEF Max
<1> QED
  BY <1>2

\* FirstFrom finds a position that passes, or none.
LEMMA FirstFacts ==
  ASSUME NEW n \in Nat, NEW i \in Nat, NEW T \in SUBSET (i..n)
  PROVE  LET m == Min(T \cup {n + 1})
         IN  m = n + 1 \/ m \in T
<1>1. T \cup {n + 1} \in SUBSET Nat
  OBVIOUS
<1> QED
  BY <1>1, MinFacts

(***************************************************************************)
(* Where a step of the scanner goes                                        *)
(***************************************************************************)
\* The loop inside a literal, for the rest of the literal after position j.
AfterRest(s, f, j, quote, escapes) ==
  IF j > Len(s) THEN Len(s) + 1
  ELSE IF s[j] = quote
  THEN IF Follows(s, j, {quote}) THEN f[j + 2] ELSE j + 1
  ELSE IF escapes /\ s[j] = "bslash" /\ j < Len(s) THEN f[j + 2]
  ELSE f[j + 1]

LEMMA LiteralLoop ==
  ASSUME NEW S, NEW s \in Seq(S), NEW i \in 1..(Len(s) + 1), NEW quote, NEW escapes
  PROVE  \E after :
           /\ AfterLiteral(s, i, quote, escapes) = after[i]
           /\ \A j \in i..(Len(s) + 2) : after[j] = AfterRest(s, after, j, quote, escapes)
<1> DEFINE n == Len(s)
           Body(f, j) == AfterRest(s, f, j, quote, escapes)
           From(f, lo) == f = [j \in lo..(n + 2) |-> Body(f, j)]
           T == {k \in Nat : k <= n + 2 - i => \E f : From(f, n + 2 - k)}
<1>n. n \in Nat /\ i \in Nat /\ i >= 1 /\ i <= n + 1 /\ Len(s) = n
  BY LenProperties
<1>1. 0 \in T
  <2> DEFINE f == [j \in (n + 2)..(n + 2) |-> n + 1]
  <2>1. \A j \in (n + 2)..(n + 2) : Body(f, j) = n + 1
    BY <1>n DEF AfterRest
  <2>2. From(f, n + 2)
    BY <2>1
  <2>3. n + 2 - 0 = n + 2
    BY <1>n
  <2> QED
    BY <2>2, <2>3
<1>2. ASSUME NEW k \in Nat, k \in T
      PROVE  k + 1 \in T
  <2> SUFFICES ASSUME k + 1 <= n + 2 - i
               PROVE  \E f : From(f, n + 2 - (k + 1))
    <3> HIDE DEF From
    <3>1. k + 1 \in Nat
      OBVIOUS
    <3> QED
      BY <3>1
  <2> DEFINE lo == n + 2 - k
  <2>1. lo \in Nat /\ lo >= 2 /\ lo <= n + 2 /\ k <= n + 2 - i /\ n + 2 - (k + 1) = lo - 1
    BY <1>n
  <2>2. PICK f : From(f, lo)
    BY <1>2, <2>1
  <2> DEFINE g == [j \in (lo - 1)..(n + 2) |-> IF j = lo - 1 THEN Body(f, j) ELSE f[j]]
  <2> HIDE DEF lo
  <2>3. \A j \in (lo - 1)..(n + 2) : j # lo - 1 => j \in lo..(n + 2) /\ g[j] = f[j]
    BY <1>n, <2>1
  <2>4. ASSUME NEW j \in (lo - 1)..(n + 2)
        PROVE  g[j] = Body(g, j)
    <3>1. g[j] = Body(f, j)
      <4>1. CASE j = lo - 1
        BY <4>1
      <4>2. CASE j # lo - 1
        <5>1. j \in lo..(n + 2) /\ g[j] = f[j]
          BY <2>3, <4>2
        <5> HIDE DEF g
        <5>2. f[j] = Body(f, j)
          BY <2>2, <5>1
        <5> QED
          BY <5>1, <5>2
      <4> QED
        BY <4>1, <4>2
    <3>2. CASE j > n
      BY <1>n, <3>1, <3>2 DEF AfterRest
    <3>3. CASE ~(j > n)
      <4>1. /\ j + 1 \in (lo - 1)..(n + 2) /\ j + 1 # lo - 1
            /\ j + 2 \in (lo - 1)..(n + 2) /\ j + 2 # lo - 1
        BY <1>n, <2>1, <3>3
      <4>2. g[j + 1] = f[j + 1] /\ g[j + 2] = f[j + 2]
        BY <2>3, <4>1
      <4> HIDE DEF g
      <4> QED
        BY <3>1, <4>2 DEF AfterRest
    <3> QED
      BY <3>2, <3>3
  <2>5. g = [j \in (lo - 1)..(n + 2) |-> g[j]]
    OBVIOUS
  <2> HIDE DEF g
  <2>6. g = [j \in (lo - 1)..(n + 2) |-> Body(g, j)]
    BY <2>4, <2>5
  <2> QED
    BY <2>1, <2>6
<1>3. T = Nat
  <2>1. T \in SUBSET Nat
    OBVIOUS
  <2> HIDE DEF T
  <2> QED
    BY <1>1, <1>2, <2>1, AllNat
<1>4. \E f : From(f, i)
  <2>1. n + 2 - i \in Nat /\ n + 2 - (n + 2 - i) = i
    BY <1>n
  <2>2. n + 2 - i \in T
    <3> HIDE DEF T
    <3> QED
      BY <1>3, <2>1
  <2>3. \E f : From(f, n + 2 - (n + 2 - i))
    <3> HIDE DEF From
    <3> QED
      BY <2>1, <2>2
  <2> QED
    BY <2>1, <2>3
<1> DEFINE after == CHOOSE f : From(f, i)
<1>5. From(after, i)
  BY <1>4
<1>6. AfterLiteral(s, i, quote, escapes) = after[i]
  BY DEF AfterLiteral, AfterRest
<1> HIDE DEF after
<1>7. \A j \in i..(n + 2) : after[j] = Body(after, j)
  BY <1>5
<1> QED
  BY <1>6, <1>7

\* A literal ends after it began and within the text.
LEMMA LiteralEnds ==
  ASSUME NEW S, NEW s \in Seq(S), NEW i \in 1..(Len(s) + 1), NEW quote, NEW escapes
  PROVE  AfterLiteral(s, i, quote, escapes) \in i..(Len(s) + 1)
<1> DEFINE n == Len(s)
<1>n. n \in Nat /\ i \in Nat /\ i >= 1 /\ i <= n + 1 /\ Len(s) = n
  BY LenProperties
<1>0. PICK after :
        /\ AfterLiteral(s, i, quote, escapes) = after[i]
        /\ \A j \in i..(n + 2) : after[j] = AfterRest(s, after, j, quote, escapes)
  BY LiteralLoop
<1> DEFINE U == {k \in Nat : \A j \in i..(n + 2) :
                   j >= n + 2 - k => after[j] <= n + 1 /\ after[j] \in Int
                                       /\ (j <= n + 1 => j <= after[j])}
<1>1. 0 \in U
  BY <1>n, <1>0 DEF AfterRest
<1>2. ASSUME NEW k \in Nat, k \in U
      PROVE  k + 1 \in U
  <2> SUFFICES ASSUME NEW j \in i..(n + 2), j >= n + 2 - (k + 1)
               PROVE  after[j] <= n + 1 /\ after[j] \in Int /\ (j <= n + 1 => j <= after[j])
    OBVIOUS
  <2>1. CASE j > n
    BY <1>n, <1>0, <2>1 DEF AfterRest
  <2>2. CASE ~(j > n)
    <3>1. /\ j + 1 \in i..(n + 2) /\ j + 1 >= n + 2 - k /\ j + 1 <= n + 1
          /\ j + 2 \in i..(n + 2) /\ j + 2 >= n + 2 - k
      BY <1>n, <2>2
    <3>2. /\ after[j + 1] <= n + 1 /\ after[j + 1] \in Int /\ j + 1 <= after[j + 1]
          /\ after[j + 2] <= n + 1 /\ after[j + 2] \in Int
          /\ (j + 2 <= n + 1 => j + 2 <= after[j + 2])
      BY <1>2, <3>1
    <3>3. j + 2 <= n + 1 \/ j = n
      BY <1>n, <2>2
    <3>4. Follows(s, j, {quote}) => j < n
      BY <1>n DEF Follows
    <3>5. after[j] \in {after[j + 1], j + 1} \/ (j < n /\ after[j] = after[j + 2])
      BY <1>n, <1>0, <2>2, <3>4 DEF AfterRest
    <3> QED
      BY <1>n, <2>2, <3>2, <3>3, <3>5
  <2> QED
    BY <2>1, <2>2
<1>3. U = Nat
  <2>1. U \in SUBSET Nat
    OBVIOUS
  <2> HIDE DEF U
  <2> QED
    BY <1>1, <1>2, <2>1, AllNat
<1>4. n + 2 - i \in U /\ i \in i..(n + 2) /\ i >= n + 2 - (n + 2 - i)
  <2> HIDE DEF U
  <2> QED
    BY <1>n, <1>3
<1>5. after[i] <= n + 1 /\ after[i] \in Int /\ (i <= n + 1 => i <= after[i])
  BY <1>4
<1> QED
  BY <1>n, <1>0, <1>5

ScannerState(S, s) == [i : 1..(Len(s) + 1), cur : Seq(S), out : Seq(Seq(S)), plsql : BOOLEAN]

\* What the scanner may leave out of the text: semicolons, line ends, and
\* whatever comes after a sign that may begin a comment.
Sign == {"-", "#", "/"}
LeftOut(s, p) == s[p] \in {";"} \cup Blank \/ \E j \in 1..p : s[j] \in Sign
AllLeftOut(s, a, b) == \A p \in a..b : LeftOut(s, p)

\* A comment ends after it began and within the text, also one not closed.
LEMMA CommentMoves ==
  ASSUME NEW S, NEW s \in Seq(S), NEW st \in ScannerState(S, s), st.i <= Len(s)
  PROVE  /\ \E n \in (st.i + 1)..(Len(s) + 1) : LineComment(s, st) = Skip(st, n)
         /\ Follows(s, st.i, {"star"}) =>
              \E n \in (st.i + 1)..(Len(s) + 1) : BlockComment(s, st) = Skip(st, n)
<1>1. Len(s) \in Nat /\ st.i \in 1..Len(s)
  BY LenProperties DEF ScannerState
<1>2. \E n \in (st.i + 1)..(Len(s) + 1) : LineComment(s, st) = Skip(st, n)
  <2> DEFINE E == {j \in (st.i + 1)..Len(s) : s[j] = "nl"}
             m == Min(E \cup {Len(s) + 1})
  <2>1. m = Len(s) + 1 \/ m \in E
    <3>1. E \in SUBSET ((st.i + 1)..Len(s)) /\ st.i + 1 \in Nat
      BY <1>1
    <3> HIDE DEF E
    <3> QED
      BY <1>1, <3>1, FirstFacts
  <2>2. LineComment(s, st) = Skip(st, m)
    BY DEF LineComment, FirstFrom
  <2>3. m \in (st.i + 1)..(Len(s) + 1)
    <3> HIDE DEF m
    <3> QED
      BY <1>1, <2>1
  <2> QED
    BY <2>2, <2>3
<1>3. ASSUME Follows(s, st.i, {"star"})
      PROVE  \E n \in (st.i + 1)..(Len(s) + 1) : BlockComment(s, st) = Skip(st, n)
  <2> DEFINE E == {j \in (st.i + 2)..Len(s) : s[j] = "star" /\ Follows(s, j, {"/"})}
             m == Min(E \cup {Len(s) + 1})
             last == Max({st.i + 2, Len(s)})
             n == IF m <= Len(s) THEN m + 2 ELSE last
  <2>1. m = Len(s) + 1 \/ m \in E
    <3>1. E \in SUBSET ((st.i + 2)..Len(s)) /\ st.i + 2 \in Nat
      BY <1>1
    <3> HIDE DEF E
    <3> QED
      BY <1>1, <3>1, FirstFacts
  <2>2. BlockComment(s, st) = Skip(st, n)
    BY DEF BlockComment, FirstFrom
  <2>3. \A j \in E : j \in (st.i + 2)..Len(s) /\ j + 2 <= Len(s) + 1
    BY <1>1 DEF Follows
  <2>4. st.i + 1 <= Len(s)
    BY <1>1, <1>3 DEF Follows
  <2>5. last \in {st.i + 2, Len(s)} /\ st.i + 2 <= last
    BY <1>1, MaxOfTwo
  <2>6. n \in (st.i + 1)..(Len(s) + 1)
    <3> HIDE DEF m, last, E
    <3> QED
      BY <1>1, <2>1, <2>3, <2>4, <2>5
  <2> QED
    BY <2>2, <2>6
<1> QED
  BY <1>2, <1>3

\* So do a text between dollar signs, also one without an end, and backticks.
LEMMA QuoteMoves ==
  ASSUME NEW S, NEW s \in Seq(S), NEW st \in ScannerState(S, s), st.i <= Len(s)
  PROVE  /\ \E n \in (st.i + 1)..(Len(s) + 1) : Dollar(s, st) = Take(s, st, n)
         /\ \E n \in (st.i + 1)..(Len(s) + 1) : Backtick(s, st) = Take(s, st, n)
<1>1. Len(s) \in Nat /\ st.i \in 1..Len(s)
  BY LenProperties DEF ScannerState
<1>2. \E n \in (st.i + 1)..(Len(s) + 1) : Dollar(s, st) = Take(s, st, n)
  <2> DEFINE O == {j \in (st.i + 1)..Len(s) : s[j] = "$"}
             open == Min(O \cup {Len(s) + 1})
             tag == SubSeq(s, st.i, open)
             C == {j \in (open + 1)..Len(s) :
                     j + Len(tag) - 1 <= Len(s) /\ SubSeq(s, j, j + Len(tag) - 1) = tag}
             close == Min(C \cup {Len(s) + 1})
             last == Max({open + 1, Len(s) - Len(tag) + 2})
             n == IF open > Len(s) THEN st.i + 1
                  ELSE IF close <= Len(s) THEN close + Len(tag) ELSE last
  <2>1. open = Len(s) + 1 \/ open \in O
    <3>1. O \in SUBSET ((st.i + 1)..Len(s)) /\ st.i + 1 \in Nat
      BY <1>1
    <3> HIDE DEF O
    <3> QED
      BY <1>1, <3>1, FirstFacts
  <2>2. Dollar(s, st) = Take(s, st, n)
    BY DEF Dollar, FirstFrom
  <2>3. open \in (st.i + 1)..(Len(s) + 1)
    <3> HIDE DEF open
    <3> QED
      BY <1>1, <2>1
  <2> HIDE DEF open
  <2>4. ASSUME open <= Len(s)
        PROVE  Len(tag) = open - st.i + 1
    <3>1. \A j \in st.i..open : s[j] \in S
      BY <1>1, <2>3, <2>4, ElementOfSeq
    <3> QED
      BY <1>1, <2>3, <3>1, SubSeqProperties
  <2>5. ASSUME open <= Len(s)
        PROVE  close = Len(s) + 1 \/ (close \in (open + 1)..Len(s) /\ close + Len(tag) - 1 <= Len(s))
    <3>1. C \in SUBSET ((open + 1)..Len(s)) /\ open + 1 \in Nat
      BY <1>1, <2>3
    <3>2. \A j \in C : j \in (open + 1)..Len(s) /\ j + Len(tag) - 1 <= Len(s)
      OBVIOUS
    <3>3. close = Len(s) + 1 \/ close \in C
      <4> HIDE DEF C
      <4> QED
        BY <1>1, <3>1, FirstFacts
    <3> QED
      BY <3>2, <3>3
  <2>6. ASSUME open <= Len(s)
        PROVE  last \in {open + 1, Len(s) - Len(tag) + 2} /\ open + 1 <= last
    <3> HIDE DEF tag
    <3>1. open + 1 \in Nat /\ Len(s) - Len(tag) + 2 \in Nat
      BY <1>1, <2>3, <2>4, <2>6
    <3> QED
      BY <3>1, MaxOfTwo
  <2> HIDE DEF close, last, tag
  <2>7. n \in (st.i + 1)..(Len(s) + 1)
    <3>1. CASE open > Len(s)
      BY <1>1, <3>1
    <3>2. CASE open <= Len(s)
      <4>1. Len(tag) = open - st.i + 1 /\ Len(tag) \in Nat /\ Len(tag) >= 2
        BY <1>1, <2>3, <2>4, <3>2
      <4>2. close <= Len(s) => close + Len(tag) \in (st.i + 1)..(Len(s) + 1)
        <5> SUFFICES ASSUME close <= Len(s)
                     PROVE  close + Len(tag) \in (st.i + 1)..(Len(s) + 1)
          OBVIOUS
        <5>1. close \in (open + 1)..Len(s) /\ close + Len(tag) - 1 <= Len(s)
          BY <1>1, <2>5, <3>2
        <5>2. /\ close \in Int /\ open \in Int /\ st.i \in Int /\ Len(s) \in Int
              /\ st.i + 1 <= open /\ open + 1 <= close
          BY <1>1, <2>3, <5>1
        <5>3. close + Len(tag) \in Int /\ st.i + 1 <= close + Len(tag)
          BY <4>1, <5>2
        <5>4. close + Len(tag) <= Len(s) + 1
          <6>1. close + Len(tag) - 1 <= Len(s)
            BY <5>1
          <6>2. Len(tag) \in Int
            BY <4>1
          <6> QED
            BY <5>2, <6>1, <6>2
        <5> QED
          BY <5>2, <5>3, <5>4
      <4>3. last \in (st.i + 1)..(Len(s) + 1)
        <5>1. CASE last = open + 1
          BY <1>1, <2>3, <3>2, <5>1
        <5>2. CASE last = Len(s) - Len(tag) + 2
          <6>1. open + 1 <= last
            BY <2>6, <3>2
          <6>2. last \in Int /\ last <= Len(s)
            BY <1>1, <4>1, <5>2
          <6> QED
            BY <1>1, <2>3, <6>1, <6>2
        <5> QED
          BY <2>6, <3>2, <5>1, <5>2
      <4> QED
        BY <1>1, <2>3, <3>2, <4>2, <4>3
    <3> QED
      BY <1>1, <2>3, <3>1, <3>2
  <2> QED
    BY <2>2, <2>7
<1>3. \E n \in (st.i + 1)..(Len(s) + 1) : Backtick(s, st) = Take(s, st, n)
  <2> DEFINE E == {j \in (st.i + 1)..Len(s) : s[j] = "tick"}
             m == Min(E \cup {Len(s) + 1})
             n == Min({m, Len(s)}) + 1
  <2>1. m = Len(s) + 1 \/ m \in E
    <3>1. E \in SUBSET ((st.i + 1)..Len(s)) /\ st.i + 1 \in Nat
      BY <1>1
    <3> HIDE DEF E
    <3> QED
      BY <1>1, <3>1, FirstFacts
  <2>2. Backtick(s, st) = Take(s, st, n)
    BY DEF Backtick, FirstFrom
  <2>3. m \in (st.i + 1)..(Len(s) + 1)
    <3> HIDE DEF m
    <3> QED
      BY <1>1, <2>1
  <2> HIDE DEF m
  <2>4. Min({m, Len(s)}) \in {m, Len(s)} /\ Min({m, Len(s)}) <= Len(s)
    <3>1. {m, Len(s)} \in SUBSET Nat
      BY <1>1, <2>3
    <3> QED
      BY <3>1, MinFacts
  <2>5. n \in (st.i + 1)..(Len(s) + 1)
    BY <1>1, <2>3, <2>4
  <2> QED
    BY <2>2, <2>5
<1> QED
  BY <1>2, <1>3

\* Each step reads at least one symbol and none beyond the text, and what it
\* reads becomes part of the statement, ends it, or may be left out.
Moves(s, st, next, n) ==
  \/ next = Skip(st, n) /\ AllLeftOut(s, st.i, n - 1)
  \/ next = Flush(st, n) /\ AllLeftOut(s, st.i, n - 1)
  \/ next = Take(s, st, n)
  \/ next = [Take(s, st, n) EXCEPT !.plsql = TRUE]
  \/ next = Flush(Take(s, st, n), n)

LEMMA StepMoves ==
  ASSUME NEW S, NEW s \in Seq(S), NEW st \in ScannerState(S, s), st.i <= Len(s)
  PROVE  \E n \in (st.i + 1)..(Len(s) + 1) : Moves(s, st, Step(s, st), n)
<1> DEFINE i == st.i
           ch == s[st.i]
           N == (st.i + 1)..(Len(s) + 1)
<1>1. Len(s) \in Nat /\ i \in 1..Len(s) /\ i + 1 \in N
  BY LenProperties DEF ScannerState
<1>2. ASSUME ch \in Sign, NEW n \in N
      PROVE  AllLeftOut(s, i, n - 1)
  <2> SUFFICES ASSUME NEW p \in i..(n - 1)
               PROVE  \E j \in 1..p : s[j] \in Sign
    BY DEF AllLeftOut, LeftOut
  <2>1. i \in 1..p
    BY <1>1
  <2> QED
    BY <1>2, <2>1
<1>3. CASE (ch = "-" /\ Follows(s, i, {"-"})) \/ ch = "#"
  <2>1. Step(s, st) = LineComment(s, st)
    BY <1>3 DEF Step
  <2>2. PICK n \in N : LineComment(s, st) = Skip(st, n)
    BY <1>1, CommentMoves
  <2> QED
    BY <1>2, <1>3, <2>1, <2>2 DEF Moves, Sign
<1>4. CASE ch = "/" /\ Follows(s, i, {"star"})
  <2>1. Step(s, st) = BlockComment(s, st)
    BY <1>4 DEF Step, Follows
  <2>2. PICK n \in N : BlockComment(s, st) = Skip(st, n)
    BY <1>1, <1>4, CommentMoves
  <2> QED
    BY <1>2, <1>4, <2>1, <2>2 DEF Moves, Sign
<1>5. CASE ch = "$"
  <2>1. Step(s, st) = Dollar(s, st)
    BY <1>5 DEF Step
  <2> QED
    BY <1>1, <2>1, QuoteMoves DEF Moves
<1>6. CASE ch = "tick"
  <2>1. Step(s, st) = Backtick(s, st)
    BY <1>6 DEF Step
  <2> QED
    BY <1>1, <2>1, QuoteMoves DEF Moves
<1>7. CASE ch = "E" /\ Follows(s, i, {"'"})
  <2> DEFINE n == AfterLiteral(s, i + 2, "'", TRUE)
  <2>1. Step(s, st) = Take(s, st, n)
    BY <1>7 DEF Step
  <2>2. i + 2 \in 1..(Len(s) + 1)
    BY <1>1, <1>7 DEF Follows
  <2>3. n \in (i + 2)..(Len(s) + 1)
    BY <2>2, LiteralEnds
  <2>4. n \in N
    <3> HIDE DEF n
    <3> QED
      BY <1>1, <2>3
  <2> QED
    BY <2>1, <2>4 DEF Moves
<1>8. CASE ch \in {"'", "dquote"}
  <2> DEFINE n == AfterLiteral(s, i + 1, ch, FALSE)
  <2>1. Step(s, st) = Take(s, st, n)
    BY <1>8 DEF Step
  <2>2. i + 1 \in 1..(Len(s) + 1)
    BY <1>1
  <2>3. n \in N
    BY <2>2, LiteralEnds
  <2> QED
    BY <2>1, <2>3 DEF Moves
<1>9. CASE ch = ";"
  <2>1. Step(s, st) = Semicolon(s, st)
    BY <1>9 DEF Step
  <2>2. Take(s, st, i + 1).i = i + 1
    BY DEF Take, ScannerState
  <2>3. \/ Semicolon(s, st) = Flush(st, i + 1)
        \/ Semicolon(s, st) = [Take(s, st, i + 1) EXCEPT !.plsql = TRUE]
        \/ Semicolon(s, st) = Flush(Take(s, st, i + 1), i + 1)
    BY <2>2 DEF Semicolon
  <2>4. AllLeftOut(s, i, i + 1 - 1)
    <3>1. \A p \in i..(i + 1 - 1) : p = i
      BY <1>1
    <3>2. LeftOut(s, i)
      BY <1>9 DEF LeftOut
    <3> QED
      BY <3>1, <3>2 DEF AllLeftOut
  <2> QED
    BY <1>1, <2>1, <2>3, <2>4 DEF Moves
<1>10. CASE ch = "/" /\ ~Follows(s, i, {"star"})
  <2>1. \/ Step(s, st) = Flush(st, i + 2) /\ Follows(s, i, {"nl"})
        \/ Step(s, st) = Flush(st, i + 1)
        \/ Step(s, st) = Take(s, st, i + 1)
    <3>1. CASE Follows(s, i, {"nl"})
      <4>1. i # Len(s)
        BY <1>1, <3>1 DEF Follows
      <4> QED
        BY <1>10, <3>1, <4>1 DEF Step
    <3>2. CASE ~Follows(s, i, {"nl"})
      BY <1>10, <3>2 DEF Step
    <3> QED
      BY <3>1, <3>2
  <2>2. Follows(s, i, {"nl"}) => i + 2 \in N
    BY <1>1 DEF Follows
  <2> QED
    BY <1>1, <1>2, <1>10, <2>1, <2>2 DEF Moves, Sign
<1>11. CASE /\ ch \notin {"#", "/", "$", "tick", "'", "dquote", ";"}
            /\ ~(ch = "-" /\ Follows(s, i, {"-"}))
            /\ ~(ch = "E" /\ Follows(s, i, {"'"}))
  <2>1. Step(s, st) = Take(s, st, i + 1)
    BY <1>11 DEF Step
  <2> QED
    BY <1>1, <2>1 DEF Moves
<1> QED
  BY <1>3, <1>4, <1>5, <1>6, <1>7, <1>8, <1>9, <1>10, <1>11

(***************************************************************************)
(* Literals, identifiers and comments as a whole                           *)
(***************************************************************************)
\* The literal whose contents begin at i is closed at j: a quote that is not
\* doubled, after contents in which quotes and, where they escape, backslashes
\* come in pairs with the symbol behind them.  D are the first ones of pairs.
Closes(s, i, j, quote, escapes) ==
  LET special == {quote} \cup (IF escapes THEN {"bslash"} ELSE {})
  IN  /\ s[j] = quote /\ ~Follows(s, j, {quote})
      /\ \E D \in SUBSET (i..(j - 2)) :
           /\ \A d \in D : d + 1 \notin D /\ s[d] \in special /\ (s[d] = quote => s[d + 1] = quote)
           /\ \A k \in i..(j - 1) : s[k] \in special => k \in D \/ k - 1 \in D

\* What lies between the quotes is skipped, whatever it is.
LEMMA LiteralCloses ==
  ASSUME NEW S, NEW s \in Seq(S), NEW i \in 1..Len(s), NEW j \in i..Len(s),
         NEW quote, NEW escapes \in BOOLEAN, quote # "bslash",
         Closes(s, i, j, quote, escapes)
  PROVE  AfterLiteral(s, i, quote, escapes) = j + 1
<1> DEFINE n == Len(s)
           special == {quote} \cup (IF escapes THEN {"bslash"} ELSE {})
<1>n. n \in Nat /\ i \in 1..n /\ j \in i..n /\ i \in 1..(n + 1)
  BY LenProperties
<1>1. PICK after :
        /\ AfterLiteral(s, i, quote, escapes) = after[i]
        /\ \A k \in i..(n + 2) : after[k] = AfterRest(s, after, k, quote, escapes)
  BY <1>n, LiteralLoop
<1>2. s[j] = quote /\ ~Follows(s, j, {quote})
  BY DEF Closes
<1>3. PICK D \in SUBSET (i..(j - 2)) :
        /\ \A d \in D : d + 1 \notin D /\ s[d] \in special /\ (s[d] = quote => s[d + 1] = quote)
        /\ \A k \in i..(j - 1) : s[k] \in special => k \in D \/ k - 1 \in D
  BY DEF Closes
<1> DEFINE T == {m \in Nat : \A k \in i..j : k >= j - m /\ k - 1 \notin D => after[k] = j + 1}
<1>4. 0 \in T
  <2>1. after[j] = j + 1
    BY <1>n, <1>1, <1>2 DEF AfterRest
  <2>2. \A k \in i..j : k >= j - 0 => k = j
    BY <1>n
  <2> QED
    BY <2>1, <2>2
<1>5. ASSUME NEW m \in Nat, m \in T
      PROVE  m + 1 \in T
  <2> SUFFICES ASSUME NEW k \in i..j, k >= j - (m + 1), k - 1 \notin D
               PROVE  after[k] = j + 1
    OBVIOUS
  <2>1. CASE k = j
    BY <1>4, <2>1
  <2>2. CASE k # j
    <3>1. k \in i..(j - 1) /\ k \in i..(n + 2) /\ k < n /\ ~(k > n)
      BY <1>n, <2>2
    <3>2. after[k] = AfterRest(s, after, k, quote, escapes)
      BY <1>1, <3>1
    <3>3. CASE k \in D
      <4>1. k + 2 \in i..j /\ k + 2 >= j - m /\ k + 2 - 1 = k + 1
        BY <1>n, <1>3, <3>1, <3>3
      <4>2. k + 2 - 1 \notin D
        BY <1>3, <3>3, <4>1
      <4>3. after[k + 2] = j + 1
        BY <1>5, <4>1, <4>2
      <4>4. CASE s[k] = quote
        <5>1. Follows(s, k, {quote})
          BY <1>3, <3>1, <3>3, <4>4 DEF Follows
        <5> QED
          BY <3>1, <3>2, <4>3, <4>4, <5>1 DEF AfterRest
      <4>5. CASE s[k] # quote
        <5>1. escapes /\ s[k] = "bslash"
          BY <1>3, <3>3, <4>5
        <5> QED
          BY <3>1, <3>2, <4>3, <4>5, <5>1 DEF AfterRest
      <4> QED
        BY <4>4, <4>5
    <3>4. CASE k \notin D
      <4>1. s[k] # quote /\ ~(escapes /\ s[k] = "bslash")
        BY <1>3, <3>1, <3>4
      <4>2. after[k] = after[k + 1]
        BY <3>1, <3>2, <4>1 DEF AfterRest
      <4>3. k + 1 \in i..j /\ k + 1 >= j - m /\ k + 1 - 1 = k
        BY <1>n, <3>1
      <4> QED
        BY <1>5, <3>4, <4>2, <4>3
    <3> QED
      BY <3>3, <3>4
  <2> QED
    BY <2>1, <2>2
<1>6. T = Nat
  <2>1. T \in SUBSET Nat
    OBVIOUS
  <2> HIDE DEF T
  <2> QED
    BY <1>4, <1>5, <2>1, AllNat
<1>7. i - 1 \notin D
  BY <1>n, <1>3
<1>8. j - i \in T /\ i \in i..j /\ i >= j - (j - i)
  <2> HIDE DEF T
  <2> QED
    BY <1>n, <1>6
<1>9. after[i] = j + 1
  BY <1>7, <1>8
<1> QED
  BY <1>1, <1>9

\* The first of the positions that pass.
LEMMA FirstIs ==
  ASSUME NEW n \in Nat, NEW i \in Nat, NEW T \in SUBSET (i..n),
         NEW m \in T, \A k \in T : m <= k
  PROVE  Min(T \cup {n + 1}) = m
<1>1. T \cup {n + 1} \in SUBSET Nat
  OBVIOUS
<1> DEFINE x == Min(T \cup {n + 1})
<1>2. x \in T \cup {n + 1} /\ \A k \in T \cup {n + 1} : x <= k
  BY <1>1, MinFacts
<1> HIDE DEF x
<1>3. x <= m /\ m \in i..n
  BY <1>2
<1>4. x # n + 1
  BY <1>3
<1>5. x \in T /\ m <= x /\ x \in i..n
  BY <1>2, <1>4
<1>6. x = m
  BY <1>3, <1>5
<1> QED
  BY <1>6 DEF x

(***************************************************************************)
(* Statements as pieces of the text                                        *)
(***************************************************************************)
\* t consists of symbols that the text has between a and b, in their order, and
\* of all of them but what the scanner may leave out.
Piece(s, t, a, b) ==
  \E f \in [1..Len(t) -> a..b] :
    /\ \A k \in 1..Len(t) : t[k] = s[f[k]]
    /\ \A j, k \in 1..Len(t) : j < k => f[j] < f[k]
    /\ \A p \in a..b : LeftOut(s, p) \/ \E k \in 1..Len(t) : f[k] = p

Inked(t) == t # <<>> /\ t[1] \notin Blank /\ t[Len(t)] \notin Blank

LEMMA PieceTakes ==
  ASSUME NEW S, NEW s \in Seq(S), NEW t \in Seq(S), NEW a \in 1..(Len(s) + 1),
         NEW i \in a..(Len(s) + 1), NEW n \in i..(Len(s) + 1), Piece(s, t, a, i - 1)
  PROVE  /\ t \o SubSeq(s, i, n - 1) \in Seq(S)
         /\ Piece(s, t \o SubSeq(s, i, n - 1), a, n - 1)
<1> DEFINE m == Len(t)
           v == SubSeq(s, i, n - 1)
           u == t \o v
<1>1. Len(s) \in Nat /\ m \in Nat /\ i \in Nat /\ n \in Nat /\ a \in Nat /\ 1 <= a /\ a <= i /\ i <= n
  BY LenProperties
<1>2. v \in Seq(S) /\ Len(v) = n - i /\ \A k \in 1..(n - i) : v[k] = s[i + k - 1]
  <2>1. \A j \in i..(n - 1) : s[j] \in S
    BY <1>1, ElementOfSeq
  <2>2. i \in Int /\ n - 1 \in Int
    BY <1>1
  <2> QED
    BY <1>1, <2>1, <2>2, SubSeqProperties
<1>3. /\ u \in Seq(S) /\ Len(u) = m + (n - i)
      /\ \A k \in 1..(m + (n - i)) : u[k] = IF k <= m THEN t[k] ELSE v[k - m]
  <2>1. /\ u \in Seq(S) /\ Len(u) = m + Len(v)
        /\ \A k \in 1..(m + Len(v)) : u[k] = IF k <= m THEN t[k] ELSE v[k - m]
    <3> HIDE DEF v
    <3> QED
      BY <1>2, ConcatProperties
  <2> HIDE DEF u, v
  <2> QED
    BY <1>2, <2>1
<1>4. PICK f \in [1..m -> a..(i - 1)] :
        /\ \A k \in 1..m : t[k] = s[f[k]]
        /\ \A j, k \in 1..m : j < k => f[j] < f[k]
        /\ \A p \in a..(i - 1) : LeftOut(s, p) \/ \E k \in 1..m : f[k] = p
  BY DEF Piece
<1> HIDE DEF m, u, v
<1> DEFINE g == [k \in 1..(m + (n - i)) |-> IF k <= m THEN f[k] ELSE i + (k - m) - 1]
<1>5. \A k \in 1..m : g[k] = f[k] /\ f[k] \in a..(i - 1) /\ k \in 1..(m + (n - i))
  BY <1>1, <1>4
<1>6. \A k \in (m + 1)..(m + (n - i)) : g[k] = i + (k - m) - 1 /\ k \in 1..(m + (n - i))
  BY <1>1
<1>7. \A k \in 1..(m + (n - i)) : k \in 1..m \/ k \in (m + 1)..(m + (n - i))
  BY <1>1
<1>8. g \in [1..Len(u) -> a..(n - 1)]
  <2>1. \A k \in 1..(m + (n - i)) : g[k] \in a..(n - 1)
    <3> HIDE DEF g
    <3> QED
      BY <1>1, <1>5, <1>6, <1>7
  <2>2. g = [k \in 1..(m + (n - i)) |-> g[k]]
    OBVIOUS
  <2> HIDE DEF g
  <2> QED
    BY <1>3, <2>1, <2>2
<1> HIDE DEF g
<1>9. \A k \in 1..Len(u) : u[k] = s[g[k]]
  <2> SUFFICES ASSUME NEW k \in 1..Len(u)
               PROVE  u[k] = s[g[k]]
    OBVIOUS
  <2>1. CASE k \in 1..m
    BY <1>1, <1>3, <1>4, <1>5, <2>1
  <2>2. CASE k \in (m + 1)..(m + (n - i))
    <3>1. u[k] = v[k - m]
      BY <1>1, <1>3, <2>2
    <3>2. k - m \in 1..(n - i) /\ i + (k - m) - 1 = g[k]
      BY <1>1, <1>6, <2>2
    <3> QED
      BY <1>2, <3>1, <3>2
  <2> QED
    BY <1>3, <1>7, <2>1, <2>2
<1>10. \A j, k \in 1..Len(u) : j < k => g[j] < g[k]
  <2> SUFFICES ASSUME NEW j \in 1..Len(u), NEW k \in 1..Len(u), j < k
               PROVE  g[j] < g[k]
    OBVIOUS
  <2>1. j \in Int /\ k \in Int
    OBVIOUS
  <2>2. CASE k \in 1..m
    <3>1. j \in 1..m
      BY <1>1, <2>1, <2>2
    <3> QED
      BY <1>4, <1>5, <2>2, <3>1
  <2>3. CASE j \in 1..m /\ k \in (m + 1)..(m + (n - i))
    BY <1>1, <1>5, <1>6, <2>3
  <2>4. CASE j \in (m + 1)..(m + (n - i)) /\ k \in (m + 1)..(m + (n - i))
    BY <1>1, <1>6, <2>4
  <2> QED
    BY <1>1, <1>3, <1>7, <2>1, <2>2, <2>3, <2>4
<1>11. \A p \in a..(n - 1) : LeftOut(s, p) \/ \E k \in 1..Len(u) : g[k] = p
  <2> SUFFICES ASSUME NEW p \in a..(n - 1), ~LeftOut(s, p)
               PROVE  \E k \in 1..Len(u) : g[k] = p
    OBVIOUS
  <2>1. CASE p \in a..(i - 1)
    <3>1. PICK k \in 1..m : f[k] = p
      BY <1>4, <2>1
    <3> QED
      BY <1>3, <1>5, <3>1
  <2>2. CASE p \in i..(n - 1)
    <3>1. m + (p - i) + 1 \in (m + 1)..(m + (n - i))
      BY <1>1, <2>2
    <3>2. g[m + (p - i) + 1] = p /\ m + (p - i) + 1 \in 1..(m + (n - i))
      BY <1>1, <1>6, <2>2, <3>1
    <3> QED
      BY <1>3, <3>2
  <2> QED
    BY <1>1, <2>1, <2>2
<1>12. Piece(s, u, a, n - 1)
  BY <1>8, <1>9, <1>10, <1>11 DEF Piece
<1> QED
  BY <1>3, <1>12 DEF u, v

LEMMA PieceSkips ==
  ASSUME NEW S, NEW s \in Seq(S), NEW t \in Seq(S), NEW a \in Nat, NEW i \in Nat,
         NEW n \in Nat, i <= n, Piece(s, t, a, i - 1), AllLeftOut(s, i, n - 1)
  PROVE  Piece(s, t, a, n - 1)
<1>1. PICK f \in [1..Len(t) -> a..(i - 1)] :
        /\ \A k \in 1..Len(t) : t[k] = s[f[k]]
        /\ \A j, k \in 1..Len(t) : j < k => f[j] < f[k]
        /\ \A p \in a..(i - 1) : LeftOut(s, p) \/ \E k \in 1..Len(t) : f[k] = p
  BY DEF Piece
<1>2. f \in [1..Len(t) -> a..(n - 1)]
  <2>1. \A x \in a..(i - 1) : x \in a..(n - 1)
    OBVIOUS
  <2> QED
    BY <2>1
<1>3. \A p \in a..(n - 1) : p \in a..(i - 1) \/ p \in i..(n - 1)
  OBVIOUS
<1>4. \A p \in a..(n - 1) : LeftOut(s, p) \/ \E k \in 1..Len(t) : f[k] = p
  BY <1>1, <1>3 DEF AllLeftOut
<1> QED
  BY <1>1, <1>2, <1>4 DEF Piece

\* strip() takes off blanks only, and leaves a statement that begins and ends
\* with something else, or nothing.
LEMMA StripFacts ==
  ASSUME NEW S, NEW s \in Seq(S), NEW t \in Seq(S), NEW a \in Nat, NEW b \in Int,
         Piece(s, t, a, b)
  PROVE  /\ Strip(t) \in Seq(S)
         /\ Piece(s, Strip(t), a, b)
         /\ Strip(t) # <<>> => Inked(Strip(t))
<1> DEFINE m == Len(t)
           ink == {j \in DOMAIN t : t[j] \notin Blank}
<1>1. m \in Nat /\ DOMAIN t = 1..m
  BY LenProperties
<1>2. PICK f \in [1..m -> a..b] :
        /\ \A k \in 1..m : t[k] = s[f[k]]
        /\ \A j, k \in 1..m : j < k => f[j] < f[k]
        /\ \A p \in a..b : LeftOut(s, p) \/ \E k \in 1..m : f[k] = p
  BY DEF Piece
<1>3. \A k \in 1..m : k \notin ink => LeftOut(s, f[k])
  BY <1>1, <1>2 DEF LeftOut
<1>4. CASE ink = {}
  <2>1. Strip(t) = <<>>
    BY <1>4 DEF Strip
  <2>2. <<>> \in Seq(S) /\ Len(<<>>) = 0
    BY EmptySeq
  <2> DEFINE h == [k \in 1..0 |-> a]
  <2>3. h \in [1..0 -> a..b] /\ \A k \in 1..0 : FALSE
    OBVIOUS
  <2>4. \A p \in a..b : LeftOut(s, p)
    BY <1>2, <1>3, <1>4
  <2>5. Piece(s, <<>>, a, b)
    <3> HIDE DEF h
    <3> QED
      BY <2>2, <2>3, <2>4 DEF Piece
  <2> QED
    BY <2>1, <2>2, <2>5
<1>5. CASE ink # {}
  <2> DEFINE lo == Min(ink)
             hi == Max(ink)
             u == SubSeq(t, lo, hi)
  <2>1. ink \in SUBSET Nat /\ ink \in SUBSET (0..m)
    BY <1>1
  <2>2. /\ lo \in ink /\ \A j \in ink : lo <= j
        /\ hi \in ink /\ \A j \in ink : j <= hi
    <3> HIDE DEF ink
    <3> QED
      BY <1>1, <1>5, <2>1, MinFacts, MaxFacts
  <2>3. Strip(t) = u
    BY <1>5 DEF Strip
  <2> HIDE DEF lo, hi
  <2>4. lo \in 1..m /\ hi \in 1..m /\ lo <= hi /\ t[lo] \notin Blank /\ t[hi] \notin Blank
    BY <1>1, <2>2
  <2>5. /\ u \in Seq(S) /\ Len(u) = hi - lo + 1
        /\ \A k \in 1..(hi - lo + 1) : u[k] = t[lo + k - 1]
    <3>1. \A j \in lo..hi : t[j] \in S
      BY <1>1, <2>4, ElementOfSeq
    <3>2. lo \in Int /\ hi \in Int /\ lo <= hi
      BY <1>1, <2>4
    <3> QED
      BY <3>1, <3>2, SubSeqProperties
  <2> HIDE DEF u
  <2>6. Inked(u)
    <3>1. u[1] = t[lo] /\ u[Len(u)] = t[hi] /\ Len(u) # 0
      <4>1. 1 \in 1..(hi - lo + 1) /\ lo + 1 - 1 = lo
            /\ hi - lo + 1 \in 1..(hi - lo + 1) /\ lo + (hi - lo + 1) - 1 = hi
        BY <2>4
      <4> QED
        BY <2>4, <2>5, <4>1
    <3>2. u # <<>>
      BY <3>1, EmptySeq
    <3> QED
      BY <2>4, <3>1, <3>2 DEF Inked
  <2> DEFINE h == [k \in 1..(hi - lo + 1) |-> f[lo + k - 1]]
  <2>7. \A k \in 1..(hi - lo + 1) : lo + k - 1 \in 1..m /\ h[k] = f[lo + k - 1]
    BY <1>1, <2>4
  <2>8. h \in [1..Len(u) -> a..b]
    <3>1. h = [k \in 1..(hi - lo + 1) |-> h[k]]
      OBVIOUS
    <3>2. \A k \in 1..(hi - lo + 1) : h[k] \in a..b
      <4> HIDE DEF h
      <4> QED
        BY <1>2, <2>7
    <3> HIDE DEF h
    <3> QED
      BY <2>5, <3>1, <3>2
  <2> HIDE DEF h
  <2>9. \A k \in 1..Len(u) : u[k] = s[h[k]]
    <3> SUFFICES ASSUME NEW k \in 1..(hi - lo + 1)
                 PROVE  u[k] = s[h[k]]
      BY <2>5
    <3> DEFINE x == lo + k - 1
    <3>1. x \in 1..m /\ h[k] = f[x] /\ u[k] = t[x]
      BY <2>5, <2>7
    <3> HIDE DEF x
    <3> QED
      BY <1>2, <3>1
  <2>10. \A j, k \in 1..Len(u) : j < k => h[j] < h[k]
    <3> SUFFICES ASSUME NEW j \in 1..(hi - lo + 1), NEW k \in 1..(hi - lo + 1), j < k
                 PROVE  h[j] < h[k]
      BY <2>5
    <3>1. lo + j - 1 < lo + k - 1
      BY <2>4
    <3> QED
      BY <1>2, <2>7, <3>1
  <2>11. \A p \in a..b : LeftOut(s, p) \/ \E k \in 1..Len(u) : h[k] = p
    <3> SUFFICES ASSUME NEW p \in a..b, ~LeftOut(s, p)
                 PROVE  \E k \in 1..Len(u) : h[k] = p
      OBVIOUS
    <3>1. PICK j \in 1..m : f[j] = p
      BY <1>2
    <3>2. j \in ink
      BY <1>3, <3>1
    <3>3. lo <= j /\ j <= hi
      BY <2>2, <3>2
    <3>4. j - lo + 1 \in 1..(hi - lo + 1) /\ lo + (j - lo + 1) - 1 = j
      BY <1>1, <2>4, <3>3
    <3> QED
      BY <2>5, <2>7, <3>1, <3>4
  <2>12. Piece(s, u, a, b)
    BY <2>8, <2>9, <2>10, <2>11 DEF Piece
  <2> QED
    BY <2>3, <2>5, <2>6, <2>12
<1> QED
  BY <1>4, <1>5

LEMMA PieceNone ==
  ASSUME NEW s, NEW a \in Int
  PROVE  Piece(s, <<>>, a, a - 1)
<1> DEFINE h == [k \in 1..0 |-> a]
<1>1. h \in [1..0 -> a..(a - 1)] /\ \A k \in 1..0 : FALSE
  OBVIOUS
<1>2. \A p \in a..(a - 1) : FALSE
  OBVIOUS
<1>3. Len(<<>>) = 0
  BY EmptySeq
<1> HIDE DEF h
<1> QED
  BY <1>1, <1>2, <1>3 DEF Piece

(***************************************************************************)
(* The loop of the scanner                                                 *)
(***************************************************************************)
\* g says where in the text each statement ends: statement n lies behind the
\* end of the one before it, and none is empty or has blanks around it.
Cuts(s, out, g) ==
  /\ g \in [0..Len(out) -> 0..Len(s)] /\ g[0] = 0
  /\ \A n \in 1..Len(out) :
       /\ Inked(out[n])
       /\ g[n - 1] <= g[n]
       /\ Piece(s, out[n], g[n - 1] + 1, g[n])

\* The invariant: what was read is in the statements and in the current one.
Reads(S, s, st) ==
  /\ st \in ScannerState(S, s)
  /\ \E g :
       /\ Cuts(s, st.out, g)
       /\ g[Len(st.out)] < st.i
       /\ Piece(s, st.cur, g[Len(st.out)] + 1, st.i - 1)

LEMMA SkipKeeps ==
  ASSUME NEW S, NEW s \in Seq(S), NEW st, Reads(S, s, st), NEW n \in st.i..(Len(s) + 1),
         AllLeftOut(s, st.i, n - 1)
  PROVE  Reads(S, s, Skip(st, n))
<1> DEFINE t == Skip(st, n)
<1>1. PICK g : /\ Cuts(s, st.out, g) /\ g[Len(st.out)] < st.i
               /\ Piece(s, st.cur, g[Len(st.out)] + 1, st.i - 1)
  BY DEF Reads
<1>2. Len(s) \in Nat /\ st \in ScannerState(S, s) /\ st.i \in 1..(Len(s) + 1) /\ st.cur \in Seq(S)
      /\ Len(st.out) \in Nat
  BY LenProperties DEF Reads, ScannerState
<1>3. t \in ScannerState(S, s) /\ t.i = n /\ t.cur = st.cur /\ t.out = st.out
  <2>1. t = [st EXCEPT !.i = n] /\ n \in 1..(Len(s) + 1)
    BY <1>2 DEF Skip
  <2> HIDE DEF t
  <2> QED
    BY <1>2, <2>1 DEF ScannerState
<1>4. g[Len(st.out)] \in Nat /\ g[Len(st.out)] + 1 \in Nat
  <2>1. g \in [0..Len(st.out) -> 0..Len(s)] /\ Len(st.out) \in 0..Len(st.out)
    BY <1>1, <1>2 DEF Cuts
  <2>2. g[Len(st.out)] \in 0..Len(s)
    BY <2>1
  <2> QED
    BY <1>2, <2>2
<1>5. Piece(s, t.cur, g[Len(t.out)] + 1, t.i - 1)
  BY <1>1, <1>2, <1>3, <1>4, PieceSkips
<1>6. g[Len(t.out)] < t.i
  BY <1>1, <1>2, <1>3, <1>4
<1> HIDE DEF t
<1>7. Reads(S, s, t)
  BY <1>1, <1>3, <1>5, <1>6 DEF Reads
<1> QED
  BY <1>7 DEF t

LEMMA TakeKeeps ==
  ASSUME NEW S, NEW s \in Seq(S), NEW st, Reads(S, s, st), NEW n \in st.i..(Len(s) + 1)
  PROVE  Reads(S, s, Take(s, st, n)) /\ Take(s, st, n).i = n
<1> DEFINE t == Take(s, st, n)
<1>1. PICK g : /\ Cuts(s, st.out, g) /\ g[Len(st.out)] < st.i
               /\ Piece(s, st.cur, g[Len(st.out)] + 1, st.i - 1)
  BY DEF Reads
<1>2. Len(s) \in Nat /\ st \in ScannerState(S, s) /\ st.i \in 1..(Len(s) + 1) /\ st.cur \in Seq(S)
      /\ Len(st.out) \in Nat
  BY LenProperties DEF Reads, ScannerState
<1>3. g[Len(st.out)] \in Nat /\ g[Len(st.out)] + 1 \in 1..(Len(s) + 1)
      /\ st.i \in (g[Len(st.out)] + 1)..(Len(s) + 1)
  <2>1. g \in [0..Len(st.out) -> 0..Len(s)] /\ Len(st.out) \in 0..Len(st.out)
    BY <1>1, <1>2 DEF Cuts
  <2>2. g[Len(st.out)] \in 0..Len(s)
    BY <2>1
  <2> QED
    BY <1>1, <1>2, <2>2
<1>4. /\ st.cur \o SubSeq(s, st.i, n - 1) \in Seq(S)
      /\ Piece(s, st.cur \o SubSeq(s, st.i, n - 1), g[Len(st.out)] + 1, n - 1)
  BY <1>1, <1>2, <1>3, PieceTakes
<1>5. t.i = n /\ t.cur = st.cur \o SubSeq(s, st.i, n - 1) /\ t.out = st.out
  BY <1>2 DEF Take, ScannerState
<1>6. t \in ScannerState(S, s)
  <2> DEFINE u == st.cur \o SubSeq(s, st.i, n - 1)
  <2>1. t = [st EXCEPT !.i = n, !.cur = u] /\ u \in Seq(S)
    BY <1>2, <1>4 DEF Take, ScannerState
  <2>2. n \in 1..(Len(s) + 1)
    BY <1>2
  <2> HIDE DEF u, t
  <2> QED
    BY <1>2, <2>1, <2>2 DEF ScannerState
<1> HIDE DEF t
<1>7. g[Len(t.out)] < t.i
  <2>1. g[Len(st.out)] < n
    <3> HIDE DEF t
    <3>1. g[Len(st.out)] < st.i
      BY <1>1
    <3> QED
      BY <1>2, <1>3, <3>1
  <2> QED
    BY <1>5, <2>1
<1>8. Reads(S, s, t)
  BY <1>1, <1>4, <1>5, <1>6, <1>7 DEF Reads
<1> QED
  BY <1>5, <1>8 DEF t

LEMMA FlushKeeps ==
  ASSUME NEW S, NEW s \in Seq(S), NEW st, Reads(S, s, st), NEW n \in st.i..(Len(s) + 1),
         AllLeftOut(s, st.i, n - 1)
  PROVE  Reads(S, s, Flush(st, n)) /\ Flush(st, n).i = n /\ Flush(st, n).cur = <<>>
<1> DEFINE t == Flush(st, n)
           stmt == Strip(st.cur)
           m == Len(st.out)
<1>1. PICK g : Cuts(s, st.out, g) /\ g[m] < st.i /\ Piece(s, st.cur, g[m] + 1, st.i - 1)
  BY DEF Reads
<1>2. /\ Len(s) \in Nat /\ st \in ScannerState(S, s) /\ st.i \in 1..(Len(s) + 1)
      /\ st.cur \in Seq(S) /\ st.out \in Seq(Seq(S)) /\ m \in Nat
      /\ n \in 1..(Len(s) + 1)
  <2>1. Len(s) \in Nat /\ st \in ScannerState(S, s)
    BY LenProperties DEF Reads
  <2>2. st.i \in 1..(Len(s) + 1) /\ st.cur \in Seq(S) /\ st.out \in Seq(Seq(S))
    BY <2>1 DEF ScannerState
  <2>3. m \in Nat
    BY <2>2, LenProperties
  <2> QED
    BY <2>1, <2>2, <2>3
<1>3. g[m] \in Nat /\ g[m] + 1 \in Nat /\ g[m] < n
  <2>1. g[m] \in 0..Len(s)
    <3>1. g \in [0..m -> 0..Len(s)] /\ m \in 0..m
      BY <1>1, <1>2 DEF Cuts
    <3> HIDE DEF m
    <3> QED
      BY <3>1
  <2>2. g[m] < st.i /\ st.i \in Int /\ n \in Int /\ st.i <= n
    BY <1>1, <1>2
  <2> HIDE DEF m
  <2> QED
    BY <1>2, <2>1, <2>2
<1>4. Piece(s, st.cur, g[m] + 1, n - 1)
  BY <1>1, <1>2, <1>3, PieceSkips
<1>5. stmt \in Seq(S) /\ Piece(s, stmt, g[m] + 1, n - 1) /\ (stmt # <<>> => Inked(stmt))
  BY <1>2, <1>3, <1>4, StripFacts
<1>6. <<>> \in Seq(S)
  BY EmptySeq
<1>7. /\ t.i = n /\ t.cur = <<>>
      /\ t.out = IF stmt = <<>> THEN st.out ELSE Append(st.out, stmt)
  BY DEF Flush
<1>a. t.out \in Seq(Seq(S)) => t \in ScannerState(S, s)
  <2>1. \A o \in Seq(Seq(S)) :
          [i |-> n, cur |-> <<>>, out |-> o, plsql |-> FALSE] \in ScannerState(S, s)
    BY <1>2, <1>6 DEF ScannerState
  <2>2. \E o : t = [i |-> n, cur |-> <<>>, out |-> o, plsql |-> FALSE]
    BY DEF Flush
  <2>3. PICK o : t = [i |-> n, cur |-> <<>>, out |-> o, plsql |-> FALSE]
    BY <2>2
  <2>4. t.out = o
    BY <2>3
  <2> HIDE DEF t
  <2> QED
    BY <2>1, <2>3, <2>4
<1> HIDE DEF t, stmt
<1>8. CASE stmt = <<>>
  <2>1. t.out = st.out
    BY <1>7, <1>8
  <2>2. t \in ScannerState(S, s)
    BY <1>2, <1>a, <2>1
  <2>3. Piece(s, t.cur, g[Len(t.out)] + 1, t.i - 1) /\ g[Len(t.out)] < t.i
    BY <1>3, <1>5, <1>7, <1>8, <2>1
  <2>4. Reads(S, s, t)
    BY <1>1, <2>1, <2>2, <2>3 DEF Reads
  <2> QED
    BY <1>7, <2>4 DEF t
<1>9. CASE stmt # <<>>
  <2> DEFINE out == Append(st.out, stmt)
             h == [k \in 0..(m + 1) |-> IF k = m + 1 THEN n - 1 ELSE g[k]]
  <2>1. /\ out \in Seq(Seq(S)) /\ Len(out) = m + 1 /\ out[m + 1] = stmt
        /\ \A k \in 1..m : out[k] = st.out[k]
    BY <1>2, <1>5, AppendProperties
  <2>2. t.out = out
    BY <1>7, <1>9
  <2> HIDE DEF out
  <2>3. t \in ScannerState(S, s)
    BY <1>a, <2>1, <2>2
  <2>4. h[m + 1] = n - 1 /\ \A k \in 0..m : h[k] = g[k]
    BY <1>2
  <2>5. h \in [0..(m + 1) -> 0..Len(s)]
    <3>1. \A k \in 0..m : g[k] \in 0..Len(s)
      BY <1>1, <1>2 DEF Cuts
    <3>2. n - 1 \in 0..Len(s)
      BY <1>2
    <3>3. \A k \in 0..(m + 1) : k # m + 1 => k \in 0..m
      BY <1>2
    <3> QED
      BY <3>1, <3>2, <3>3
  <2> HIDE DEF h
  <2>6. ASSUME NEW k \in 1..(m + 1)
        PROVE  /\ Inked(out[k]) /\ h[k - 1] <= h[k]
               /\ Piece(s, out[k], h[k - 1] + 1, h[k])
    <3>1. CASE k = m + 1
      <4>1. h[k] = n - 1 /\ h[k - 1] = g[m] /\ out[k] = stmt
        <5>1. k - 1 = m /\ m \in 0..m
          BY <1>2, <3>1
        <5> QED
          BY <2>1, <2>4, <3>1, <5>1
      <4>2. g[m] <= n - 1
        BY <1>2, <1>3
      <4> QED
        BY <1>5, <1>9, <4>1, <4>2
    <3>2. CASE k # m + 1
      <4>1. k \in 1..m /\ k \in 0..m /\ k - 1 \in 0..m
        BY <1>2, <3>2
      <4>2. Inked(st.out[k]) /\ g[k - 1] <= g[k] /\ Piece(s, st.out[k], g[k - 1] + 1, g[k])
        BY <1>1, <4>1 DEF Cuts
      <4>3. h[k] = g[k] /\ h[k - 1] = g[k - 1] /\ out[k] = st.out[k]
        BY <2>1, <2>4, <4>1
      <4> QED
        BY <4>2, <4>3
    <3> QED
      BY <3>1, <3>2
  <2>7. h[0] = 0
    <3>1. 0 \in 0..m
      BY <1>2
    <3> QED
      BY <1>1, <2>4, <3>1 DEF Cuts
  <2>8. Cuts(s, t.out, h)
    BY <2>1, <2>2, <2>5, <2>6, <2>7 DEF Cuts
  <2>9. Piece(s, t.cur, h[Len(t.out)] + 1, t.i - 1) /\ h[Len(t.out)] < t.i
    <3>1. Piece(s, <<>>, n, n - 1)
      BY <1>2, PieceNone
    <3>2. h[Len(t.out)] = n - 1 /\ n - 1 + 1 = n /\ n - 1 < n
      BY <1>2, <2>1, <2>2, <2>4, SMTT(30)
    <3>3. t.cur = <<>> /\ t.i = n
      BY <1>7
    <3> QED
      BY <3>1, <3>2, <3>3
  <2>10. Reads(S, s, t)
    BY <2>3, <2>8, <2>9 DEF Reads
  <2> QED
    BY <1>7, <2>10 DEF t
<1> QED
  BY <1>8, <1>9

\* Every step of the loop keeps what was read, and reads on.
LEMMA StepKeeps ==
  ASSUME NEW S, NEW s \in Seq(S), NEW st, Reads(S, s, st), st.i <= Len(s)
  PROVE  Reads(S, s, Step(s, st)) /\ Step(s, st).i \in (st.i + 1)..(Len(s) + 1)
<1> DEFINE t == Step(s, st)
<1>1. st \in ScannerState(S, s) /\ Len(s) \in Nat /\ st.i \in 1..Len(s)
  BY LenProperties DEF Reads, ScannerState
<1>2. PICK n \in (st.i + 1)..(Len(s) + 1) : Moves(s, st, t, n)
  BY <1>1, StepMoves
<1>3. n \in st.i..(Len(s) + 1) /\ n \in n..(Len(s) + 1)
  BY <1>1
<1>4. Reads(S, s, Take(s, st, n)) /\ Take(s, st, n).i = n
  BY <1>3, TakeKeeps
<1>5. Reads(S, s, t) /\ t.i = n
  <2>1. CASE t = Skip(st, n) /\ AllLeftOut(s, st.i, n - 1)
    <3>1. Skip(st, n).i = n
      BY <1>1 DEF Skip, ScannerState
    <3> QED
      BY <1>3, <2>1, <3>1, SkipKeeps
  <2>2. CASE t = Flush(st, n) /\ AllLeftOut(s, st.i, n - 1)
    BY <1>3, <2>2, FlushKeeps
  <2>3. CASE t = Take(s, st, n)
    BY <1>4, <2>3
  <2>4. CASE t = [Take(s, st, n) EXCEPT !.plsql = TRUE]
    <3> DEFINE u == Take(s, st, n)
    <3>1. Reads(S, s, u) /\ u.i = n /\ t = [u EXCEPT !.plsql = TRUE]
      BY <1>4, <2>4
    <3> HIDE DEF u, t
    <3>2. t \in ScannerState(S, s) /\ t.i = u.i /\ t.cur = u.cur /\ t.out = u.out
      BY <3>1 DEF Reads, ScannerState
    <3>3. Reads(S, s, t)
      BY <3>1, <3>2 DEF Reads
    <3> QED
      BY <3>1, <3>2, <3>3
  <2>5. CASE t = Flush(Take(s, st, n), n)
    <3> DEFINE u == Take(s, st, n)
    <3>1. Reads(S, s, u) /\ u.i = n /\ t = Flush(u, n)
      BY <1>4, <2>5
    <3> HIDE DEF u, t
    <3>2. AllLeftOut(s, u.i, n - 1)
      <4>1. \A p \in n..(n - 1) : FALSE
        BY <1>1
      <4> QED
        BY <3>1, <4>1 DEF AllLeftOut
    <3> QED
      BY <1>3, <3>1, <3>2, FlushKeeps
  <2> QED
    BY <1>2, <2>1, <2>2, <2>3, <2>4, <2>5 DEF Moves
<1> QED
  BY <1>5

\* After k steps the loop has read k symbols, or all.
LEMMA LoopReads ==
  ASSUME NEW S, NEW s \in Seq(S)
  PROVE  Reads(S, s, Scanned(s)) /\ Scanned(s).i = Len(s) + 1
<1> DEFINE start == [i |-> 1, cur |-> <<>>, out |-> <<>>, plsql |-> FALSE]
           After(st) == IF st.i > Len(s) THEN st ELSE Step(s, st)
           Body(f, k) == IF k = 0 THEN start ELSE After(f[k - 1])
           Loop(f, n) == f = [k \in 0..n |-> Body(f, k)]
           T == {n \in Nat : \E f : Loop(f, n)}
<1>n. Len(s) \in Nat
  BY LenProperties
<1>1. 0 \in T
  <2>1. Loop([k \in 0..0 |-> start], 0)
    OBVIOUS
  <2> QED
    BY <2>1
<1>2. ASSUME NEW n \in Nat, n \in T
      PROVE  n + 1 \in T
  <2>1. PICK f : Loop(f, n)
    BY <1>2
  <2> DEFINE h == [k \in 0..(n + 1) |-> IF k = n + 1 THEN After(f[n]) ELSE f[k]]
  <2> HIDE DEF start, After
  <2>2. ASSUME NEW k \in 0..(n + 1)
        PROVE  h[k] = Body(h, k)
    <3>1. CASE k = n + 1
      <4>1. h[k] = After(f[n]) /\ h[k - 1] = f[n] /\ k # 0
        BY <3>1
      <4> QED
        BY <3>1, <4>1
    <3>2. CASE k = 0
      BY <2>1, <3>2
    <3>3. CASE k \in 1..n
      <4>1. h[k] = f[k] /\ h[k - 1] = f[k - 1] /\ k # 0 /\ k \in 0..n
        BY <3>3
      <4> HIDE DEF h
      <4> QED
        BY <2>1, <4>1
    <3> QED
      BY <3>1, <3>2, <3>3
  <2>3. h = [k \in 0..(n + 1) |-> h[k]]
    OBVIOUS
  <2> HIDE DEF h
  <2>4. Loop(h, n + 1)
    BY <2>2, <2>3
  <2> QED
    BY <2>4
<1>3. T = Nat
  <2>1. T \in SUBSET Nat
    OBVIOUS
  <2> HIDE DEF T
  <2> QED
    BY <1>1, <1>2, <2>1, AllNat
<1> DEFINE scan == CHOOSE f : Loop(f, Len(s))
<1>4. Loop(scan, Len(s))
  <2>1. Len(s) \in T
    <3> HIDE DEF T
    <3> QED
      BY <1>n, <1>3
  <2>2. \E f : Loop(f, Len(s))
    BY <2>1
  <2> QED
    BY <2>2
<1>5. Scanned(s) = scan[Len(s)]
  BY DEF Scanned
<1> HIDE DEF scan
<1>6. scan[0] = start
  BY <1>n, <1>4
<1>7. \A k \in 1..Len(s) : scan[k] = After(scan[k - 1])
  <2> SUFFICES ASSUME NEW k \in 1..Len(s)
               PROVE  scan[k] = After(scan[k - 1])
    OBVIOUS
  <2>1. k \in 0..Len(s) /\ k # 0
    BY <1>n
  <2> HIDE DEF start, After
  <2> QED
    BY <1>4, <2>1
<1>8. Reads(S, s, start)
  <2>1. <<>> \in Seq(S) /\ <<>> \in Seq(Seq(S)) /\ Len(<<>>) = 0
    BY EmptySeq
  <2>2. start \in ScannerState(S, s)
    BY <1>n, <2>1 DEF ScannerState
  <2> DEFINE g == [k \in 0..0 |-> 0]
  <2>3. g \in [0..0 -> 0..Len(s)] /\ g[0] = 0 /\ \A n \in 1..0 : FALSE
    BY <1>n
  <2>4. \A a \in Int : Piece(s, <<>>, a, a - 1)
    BY PieceNone
  <2> HIDE DEF g
  <2>5. Cuts(s, start.out, g)
    BY <2>1, <2>3 DEF Cuts
  <2>6. g[Len(start.out)] < start.i /\ Piece(s, start.cur, g[Len(start.out)] + 1, start.i - 1)
    <3>1. g[Len(start.out)] = 0 /\ start.i = 1 /\ start.cur = <<>>
      BY <2>1, <2>3
    <3>2. g[Len(start.out)] + 1 \in Int /\ start.i = g[Len(start.out)] + 1
      BY <3>1
    <3> HIDE DEF start
    <3> QED
      BY <2>4, <3>1, <3>2
  <2> HIDE DEF start
  <2> QED
    BY <2>2, <2>5, <2>6 DEF Reads
<1>9. start.i = 1
  OBVIOUS
<1> HIDE DEF start
<1> DEFINE U == {k \in Nat : k <= Len(s) => Reads(S, s, scan[k]) /\ scan[k].i > k}
<1>10. 0 \in U
  BY <1>6, <1>8, <1>9
<1>11. ASSUME NEW k \in Nat, k \in U
       PROVE  k + 1 \in U
  <2> SUFFICES ASSUME k + 1 <= Len(s)
               PROVE  Reads(S, s, scan[k + 1]) /\ scan[k + 1].i > k + 1
    OBVIOUS
  <2> DEFINE st == scan[k]
  <2>1. Reads(S, s, st) /\ st.i > k
    BY <1>n, <1>11
  <2>2. k + 1 \in 1..Len(s) /\ k + 1 - 1 = k
    BY <1>n
  <2>3. scan[k + 1] = After(st)
    BY <1>7, <2>2
  <2>4. st.i \in 1..(Len(s) + 1)
    BY <2>1 DEF Reads, ScannerState
  <2> HIDE DEF st
  <2>5. CASE st.i > Len(s)
    BY <1>n, <2>1, <2>3, <2>4, <2>5
  <2>6. CASE ~(st.i > Len(s))
    <3>1. st.i <= Len(s)
      BY <1>n, <2>4, <2>6
    <3>2. Reads(S, s, Step(s, st)) /\ Step(s, st).i \in (st.i + 1)..(Len(s) + 1)
      BY <2>1, <3>1, StepKeeps
    <3>3. scan[k + 1] = Step(s, st)
      BY <2>3, <2>6
    <3> QED
      BY <1>n, <2>1, <2>4, <3>2, <3>3
  <2> QED
    BY <2>5, <2>6
<1>12. U = Nat
  <2>1. U \in SUBSET Nat
    OBVIOUS
  <2> HIDE DEF U
  <2> QED
    BY <1>10, <1>11, <2>1, AllNat
<1>13. Reads(S, s, scan[Len(s)]) /\ scan[Len(s)].i > Len(s)
  <2>1. Len(s) \in U
    <3> HIDE DEF U
    <3> QED
      BY <1>n, <1>12
  <2> QED
    BY <1>n, <2>1
<1>14. scan[Len(s)].i \in 1..(Len(s) + 1)
  BY <1>13 DEF Reads, ScannerState
<1> QED
  BY <1>n, <1>5, <1>13, <1>14

(***************************************************************************)
(* Theorems                                                                *)
(***************************************************************************)
\* The loop of _split_sql_statements ends for every text, with literals,
\* comments and blocks closed or not, and has then read all of it: each step
\* moves on, and none beyond the end.
THEOREM ScannerEnds ==
  ASSUME NEW S, NEW s \in Seq(S)
  PROVE  /\ \A st \in ScannerState(S, s) : st.i <= Len(s) =>
              Step(s, st).i \in (st.i + 1)..(Len(s) + 1)
         /\ Scanned(s).i = Len(s) + 1
<1>1. ASSUME NEW st \in ScannerState(S, s), st.i <= Len(s)
      PROVE  Step(s, st).i \in (st.i + 1)..(Len(s) + 1)
  <2>1. PICK n \in (st.i + 1)..(Len(s) + 1) : Moves(s, st, Step(s, st), n)
    BY <1>1, StepMoves
  <2>2. /\ Skip(st, n).i = n /\ Take(s, st, n).i = n /\ Flush(st, n).i = n
        /\ [Take(s, st, n) EXCEPT !.plsql = TRUE].i = n
        /\ Flush(Take(s, st, n), n).i = n
    BY DEF Skip, Take, Flush, ScannerState
  <2> QED
    BY <2>1, <2>2 DEF Moves
<1> QED
  BY <1>1, LoopReads

\* What is executed is what was written, for every text: a statement consists of
\* symbols of the text in their order, none of them in two statements, and the
\* statements come in the order of the text.  None is blank.  In front of the
\* first sign that may begin a comment, nothing is lost but semicolons and the
\* ends of lines.
THEOREM StatementsAreTheText ==
  ASSUME NEW S, NEW s \in Seq(S)
  PROVE  LET stmts == SplitStatements(s)
         IN  \E g \in [0..Len(stmts) -> 0..Len(s)] :
               /\ g[0] = 0
               /\ \A n \in 1..Len(stmts) :
                    /\ Inked(stmts[n])
                    /\ g[n - 1] <= g[n]
                    /\ Piece(s, stmts[n], g[n - 1] + 1, g[n])
               /\ AllLeftOut(s, g[Len(stmts)] + 1, Len(s))
<1> DEFINE st == Scanned(s)
           t == Flush(st, Len(s) + 1)
<1>1. Reads(S, s, st) /\ st.i = Len(s) + 1 /\ Len(s) \in Nat
  BY LoopReads, LenProperties
<1>2. AllLeftOut(s, st.i, Len(s) + 1 - 1)
  <2>1. \A p \in (Len(s) + 1)..(Len(s) + 1 - 1) : FALSE
    BY <1>1
  <2> QED
    BY <1>1, <2>1 DEF AllLeftOut
<1>3. Len(s) + 1 \in st.i..(Len(s) + 1)
  BY <1>1
<1> HIDE DEF st
<1>4. Reads(S, s, t) /\ t.i = Len(s) + 1 /\ t.cur = <<>>
  BY <1>1, <1>2, <1>3, FlushKeeps
<1>5. SplitStatements(s) = t.out
  BY DEF SplitStatements, st
<1> HIDE DEF t
<1>6. PICK g : Cuts(s, t.out, g) /\ Piece(s, <<>>, g[Len(t.out)] + 1, Len(s) + 1 - 1)
  BY <1>4 DEF Reads
<1>7. AllLeftOut(s, g[Len(t.out)] + 1, Len(s))
  <2>1. \A p \in (g[Len(t.out)] + 1)..(Len(s) + 1 - 1) : LeftOut(s, p)
    <3>1. Len(<<>>) = 0 /\ \A k \in 1..0 : FALSE
      BY EmptySeq
    <3> QED
      BY <1>6, <3>1 DEF Piece
  <2>2. Len(s) + 1 - 1 = Len(s)
    BY <1>1
  <2> QED
    BY <2>1, <2>2 DEF AllLeftOut
<1> QED
  BY <1>5, <1>6, <1>7 DEF Cuts

(***************************************************************************)
(* Everything that is closed is taken or skipped as a whole                *)
(***************************************************************************)
Symbols(s, symbol) == {k \in DOMAIN s : s[k] = symbol}
CommentEnds(s) == {k \in DOMAIN s : s[k] = "star" /\ Follows(s, k, {"/"})}
Copies(s, tag) ==
  {k \in DOMAIN s : k + Len(tag) - 1 <= Len(s) /\ SubSeq(s, k, k + Len(tag) - 1) = tag}

\* j is the first of the positions T from a on.
First(a, j, T) == j \in T /\ \A k \in a..(j - 1) : k \notin T

\* Whatever symbols are in them, semicolons, quotes, comment signs or keywords of
\* blocks: literals, quoted identifiers and texts between dollar signs become
\* part of the statement as a whole, and comments part of none.  A literal is
\* closed by its first quote that is neither doubled nor escaped, a dollar text
\* by the first copy of its tag, a comment by its first end.
THEOREM ContentsAreOpaque ==
  ASSUME NEW S, NEW s \in Seq(S), NEW st \in ScannerState(S, s), NEW j \in (st.i + 1)..Len(s)
  PROVE  LET i == st.i
             ch == s[st.i]
         IN  /\ ch \in {"'", "dquote"} /\ Closes(s, i + 1, j, ch, FALSE) =>
                  Step(s, st) = Take(s, st, j + 1)
             /\ ch = "E" /\ s[i + 1] = "'" /\ j # i + 1 /\ Closes(s, i + 2, j, "'", TRUE) =>
                  Step(s, st) = Take(s, st, j + 1)
             /\ ch = "tick" /\ First(i + 1, j, Symbols(s, "tick")) =>
                  Step(s, st) = Take(s, st, j + 1)
             /\ \A o \in (i + 1)..(j - 1) :
                  /\ ch = "$" /\ First(i + 1, o, Symbols(s, "$"))
                  /\ First(o + 1, j, Copies(s, SubSeq(s, i, o)))
                  => Step(s, st) = Take(s, st, j + (o - i + 1))
             /\ ch = "#" \/ (ch = "-" /\ s[i + 1] = "-") =>
                  (First(i + 1, j, Symbols(s, "nl")) => Step(s, st) = Skip(st, j))
             /\ ch = "/" /\ s[i + 1] = "star" /\ j # i + 1 /\ First(i + 2, j, CommentEnds(s)) =>
                  Step(s, st) = Skip(st, j + 2)
<1> DEFINE i == st.i
           ch == s[st.i]
<1>1. /\ Len(s) \in Nat /\ i \in 1..Len(s) /\ i < Len(s) /\ i + 1 \in 1..Len(s)
      /\ j \in 1..Len(s) /\ i < j /\ DOMAIN s = 1..Len(s)
  <2>1. Len(s) \in Nat /\ DOMAIN s = 1..Len(s) /\ st.i \in 1..(Len(s) + 1)
    BY LenProperties DEF ScannerState
  <2> QED
    BY <2>1
<1>2. ASSUME ch \in {"'", "dquote"}, Closes(s, i + 1, j, ch, FALSE)
      PROVE  Step(s, st) = Take(s, st, j + 1)
  <2>1. AfterLiteral(s, i + 1, ch, FALSE) = j + 1
    <3>1. j \in (i + 1)..Len(s) /\ ch # "bslash" /\ FALSE \in BOOLEAN
      BY <1>1, <1>2
    <3> HIDE DEF i, ch
    <3> QED
      BY <1>1, <1>2, <3>1, LiteralCloses
  <2> QED
    BY <1>2, <2>1 DEF Step
<1>3. ASSUME ch = "E", s[i + 1] = "'", j # i + 1, Closes(s, i + 2, j, "'", TRUE)
      PROVE  Step(s, st) = Take(s, st, j + 1)
  <2>1. AfterLiteral(s, i + 2, "'", TRUE) = j + 1
    <3>1. j \in (i + 2)..Len(s) /\ i + 2 \in 1..Len(s) /\ "'" # "bslash" /\ TRUE \in BOOLEAN
      BY <1>1, <1>3
    <3> HIDE DEF i, ch
    <3> QED
      BY <1>3, <3>1, LiteralCloses
  <2>2. Follows(s, i, {"'"})
    BY <1>1, <1>3 DEF Follows
  <2> QED
    BY <1>3, <2>1, <2>2 DEF Step
<1>4. ASSUME ch = "tick", First(i + 1, j, Symbols(s, "tick"))
      PROVE  Step(s, st) = Take(s, st, j + 1)
  <2> DEFINE T == {k \in (i + 1)..Len(s) : s[k] = "tick"}
  <2>1. T \in SUBSET ((i + 1)..Len(s)) /\ j \in T /\ \A k \in T : j <= k
    BY <1>1, <1>4 DEF First, Symbols
  <2>2. Min(T \cup {Len(s) + 1}) = j
    <3>1. i + 1 \in Nat
      BY <1>1
    <3> HIDE DEF T
    <3> QED
      BY <1>1, <2>1, <3>1, FirstIs
  <2>3. Min({j, Len(s)}) = j
    <3>1. {j, Len(s)} \in SUBSET Nat
      BY <1>1
    <3>2. Min({j, Len(s)}) \in {j, Len(s)} /\ Min({j, Len(s)}) <= j
      BY <3>1, MinFacts
    <3> QED
      BY <1>1, <3>2
  <2>4. Backtick(s, st) = Take(s, st, j + 1)
    BY <2>2, <2>3 DEF Backtick, FirstFrom
  <2> QED
    BY <1>4, <2>4 DEF Step
<1>5. ASSUME NEW o \in (i + 1)..(j - 1), ch = "$", First(i + 1, o, Symbols(s, "$")),
             First(o + 1, j, Copies(s, SubSeq(s, i, o)))
      PROVE  Step(s, st) = Take(s, st, j + (o - i + 1))
  <2> DEFINE O == {k \in (i + 1)..Len(s) : s[k] = "$"}
             open == Min(O \cup {Len(s) + 1})
             tag == SubSeq(s, st.i, open)
             C == {k \in (open + 1)..Len(s) :
                     k + Len(tag) - 1 <= Len(s) /\ SubSeq(s, k, k + Len(tag) - 1) = tag}
             close == Min(C \cup {Len(s) + 1})
  <2>1. Dollar(s, st) = IF open > Len(s) THEN Take(s, st, st.i + 1)
                        ELSE IF close <= Len(s) THEN Take(s, st, close + Len(tag))
                        ELSE Take(s, st, Max({open + 1, Len(s) - Len(tag) + 2}))
    BY DEF Dollar, FirstFrom
  <2>2. open = o
    <3>1. O \in SUBSET ((i + 1)..Len(s)) /\ o \in O /\ \A k \in O : o <= k
      BY <1>1, <1>5 DEF First, Symbols
    <3>2. i + 1 \in Nat
      BY <1>1
    <3> HIDE DEF O
    <3> QED
      BY <1>1, <3>1, <3>2, FirstIs
  <2> HIDE DEF open
  <2>3. tag = SubSeq(s, i, o)
    BY <2>2
  <2> HIDE DEF tag
  <2>4. Len(tag) = o - i + 1
    <3>1. \A k \in i..o : s[k] \in S
      BY <1>1, ElementOfSeq
    <3> QED
      BY <1>1, <2>3, <3>1, SubSeqProperties
  <2>5. C \in SUBSET ((o + 1)..Len(s)) /\ j \in C /\ \A k \in C : j <= k
    <3>1. j \in Copies(s, tag) /\ \A k \in (o + 1)..(j - 1) : k \notin Copies(s, tag)
      BY <1>5, <2>3 DEF First
    <3>2. \A k \in (o + 1)..Len(s) : k \in DOMAIN s
      BY <1>1
    <3>3. \A k : k \in C <=> k \in (o + 1)..Len(s) /\ k \in Copies(s, tag)
      BY <2>2, <3>2, Zenon DEF Copies
    <3> HIDE DEF C
    <3> QED
      BY <1>1, <3>1, <3>3
  <2>6. close = j
    <3>1. o + 1 \in Nat
      BY <1>1
    <3> HIDE DEF C
    <3> QED
      BY <1>1, <2>5, <3>1, FirstIs
  <2> HIDE DEF close
  <2>7. Dollar(s, st) = Take(s, st, j + Len(tag))
    BY <1>1, <2>1, <2>2, <2>6
  <2> QED
    BY <1>5, <2>4, <2>7 DEF Step
<1>6. ASSUME ch = "#" \/ (ch = "-" /\ s[i + 1] = "-"), First(i + 1, j, Symbols(s, "nl"))
      PROVE  Step(s, st) = Skip(st, j)
  <2> DEFINE T == {k \in (i + 1)..Len(s) : s[k] = "nl"}
  <2>1. T \in SUBSET ((i + 1)..Len(s)) /\ j \in T /\ \A k \in T : j <= k
    BY <1>1, <1>6 DEF First, Symbols
  <2>2. Min(T \cup {Len(s) + 1}) = j
    <3>1. i + 1 \in Nat
      BY <1>1
    <3> HIDE DEF T
    <3> QED
      BY <1>1, <2>1, <3>1, FirstIs
  <2>3. LineComment(s, st) = Skip(st, j)
    BY <2>2 DEF LineComment, FirstFrom
  <2>4. ch = "-" => Follows(s, i, {"-"})
    BY <1>1, <1>6 DEF Follows
  <2> QED
    BY <1>6, <2>3, <2>4 DEF Step
<1>7. ASSUME ch = "/", s[i + 1] = "star", j # i + 1, First(i + 2, j, CommentEnds(s))
      PROVE  Step(s, st) = Skip(st, j + 2)
  <2> DEFINE T == {k \in (i + 2)..Len(s) : s[k] = "star" /\ Follows(s, k, {"/"})}
  <2>1. T \in SUBSET ((i + 2)..Len(s)) /\ j \in T /\ \A k \in T : j <= k
    BY <1>1, <1>7 DEF First, CommentEnds
  <2>2. Min(T \cup {Len(s) + 1}) = j
    <3>1. i + 2 \in Nat
      BY <1>1
    <3> HIDE DEF T
    <3> QED
      BY <1>1, <2>1, <3>1, FirstIs
  <2>3. BlockComment(s, st) = Skip(st, j + 2)
    BY <1>1, <2>2 DEF BlockComment, FirstFrom
  <2>4. Follows(s, i, {"star"})
    BY <1>1, <1>7 DEF Follows
  <2> QED
    BY <1>7, <2>3, <2>4 DEF Step, Follows
<1> QED
  BY <1>2, <1>3, <1>4, <1>5, <1>6, <1>7
=============================================================================
