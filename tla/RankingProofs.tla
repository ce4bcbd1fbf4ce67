--------------------------- MODULE RankingProofs ----------------------------
(***************************************************************************)
(* Theorems about Ranking, for every set of versions, every similarity,    *)
(* every store, every limit and factor of the code and any number of       *)
(* writes by other processes.                                              *)
(***************************************************************************)
EXTENDS Ranking, SequenceTheorems, FiniteSetTheorems, TLAPS

-----------------------------------------------------------------------------
(***************************************************************************)
(* Sets of numbers, enumerations and slices.                               *)
(***************************************************************************)

\* A set of natural numbers has a least one: the induction of the proofs below.
LEMMA LeastOf ==
    ASSUME NEW T \in SUBSET Nat, T # {}
    PROVE  \E m \in T : \A k \in T : m <= k
<1> DEFINE R == OpToRel(<, Nat)
<1>1. \E x \in T : \A y \in T : <<y, x>> \notin R
  BY NatLessThanWellFounded, WFMin
<1>2. R = {ss \in Nat \X Nat : ss[1] < ss[2]}
  BY Zenon DEF OpToRel
<1> HIDE DEF R
<1>3. ASSUME NEW x \in Nat, NEW y \in Nat, y < x PROVE <<y, x>> \in R
  BY <1>2, <1>3
<1>4. PICK x \in T : \A y \in T : <<y, x>> \notin R
  BY <1>1
<1>5. \A k \in T : x <= k
  <2> SUFFICES ASSUME NEW k \in T, ~(x <= k) PROVE FALSE
    OBVIOUS
  <2>1. k \in Nat /\ x \in Nat
    OBVIOUS
  <2>2. k < x
    BY <2>1
  <2> QED BY <1>3, <1>4, <2>1, <2>2
<1> QED BY <1>5

LEMMA MinOfTwo ==
    ASSUME NEW a \in Nat, NEW b \in Nat
    PROVE  Min({a, b}) = IF a <= b THEN a ELSE b
BY DEF Min

LEMMA UpTo ==
    ASSUME NEW n \in Nat
    PROVE  IsFiniteSet(1..n) /\ Cardinality(1..n) = n
<1>1. 1 \in Int /\ n \in Int
  OBVIOUS
<1>2. IsFiniteSet(1..n) /\ Cardinality(1..n) = IF 1 > n THEN 0 ELSE n - 1 + 1
  BY <1>1, FS_Interval
<1> QED BY <1>2

LEMMA Enumeration ==
    ASSUME NEW D, IsFiniteSet(D), NEW f \in SetToSeqs(D)
    PROVE  /\ f \in Seq(D) /\ Len(f) = Cardinality(D)
           /\ \A x \in D : \E i \in 1..Len(f) : f[i] = x
           /\ \A i, j \in 1..Len(f) : i # j => f[i] # f[j]
<1> DEFINE n == Cardinality(D)
<1>1. n \in Nat /\ IsFiniteSet(1..n) /\ Cardinality(1..n) = n
  BY FS_CardinalityType, UpTo
<1>2. f \in [1..n -> D] /\ \A i, j \in 1..n : i # j => f[i] # f[j]
  BY DEF SetToSeqs
<1>3. f \in Injection(1..n, D)
  BY <1>2 DEF Injection, IsInjective
<1>4. f \in Surjection(1..n, D)
  BY <1>1, <1>3, FS_Injection
<1>5. f \in Seq(D) /\ Len(f) = n
  BY <1>1, <1>2
<1> QED BY <1>2, <1>4, <1>5 DEF Surjection

\* A sequence without repetition has as many elements as their set.
LEMMA SizeOfRange ==
    ASSUME NEW S, NEW s \in Seq(S), NEW T,
           \A i, j \in 1..Len(s) : i # j => s[i] # s[j],
           \A x : x \in T <=> \E i \in 1..Len(s) : s[i] = x
    PROVE  IsFiniteSet(T) /\ Cardinality(T) = Len(s)
<1> DEFINE n == Len(s)
<1>1. n \in Nat /\ IsFiniteSet(1..n) /\ Cardinality(1..n) = n
  <2>1. n \in Nat
    BY LenProperties
  <2> QED BY <2>1, UpTo
<1>2. s \in [1..n -> T]
  BY LenProperties
<1>3. s \in Surjection(1..n, T) /\ s \in Injection(1..n, T)
  BY <1>2 DEF Surjection, Injection, IsInjective
<1> QED BY <1>1, <1>3, FS_Surjection

Strict(S, R) == \A x, y \in S : <<x, y>> \in R => <<y, x>> \notin R

InOrder(s, R) == \A i, j \in 1..Len(s) : i < j => <<s[i], s[j]>> \in R

\* The elements of s are among those of t, and before all others of t.
FirstOf(s, t, R) ==
    /\ \A i \in 1..Len(s) : \E j \in 1..Len(t) : s[i] = t[j]
    /\ \A j \in 1..Len(t) : \/ \E i \in 1..Len(s) : s[i] = t[j]
                            \/ \A i \in 1..Len(s) : <<s[i], t[j]>> \in R

\* Of two sequences in one strict order, the one whose elements are the first of the
\* other's is the beginning of it.
LEMMA FirstOnes ==
    ASSUME NEW S, NEW R, NEW s \in Seq(S), NEW t \in Seq(S),
           Strict(S, R), InOrder(s, R), InOrder(t, R), FirstOf(s, t, R)
    PROVE  \A i \in 1..Len(s) : i <= Len(t) /\ s[i] = t[i]
<1> USE DEF Strict, InOrder, FirstOf
<1> SUFFICES ASSUME NEW n \in 1..Len(s), ~(n <= Len(t) /\ s[n] = t[n])
             PROVE  FALSE
  OBVIOUS
<1> DEFINE Bad == {i \in 1..Len(s) : ~(i <= Len(t) /\ s[i] = t[i])}
<1>1. Len(s) \in Nat /\ Len(t) \in Nat
  BY LenProperties
<1>2. PICK i \in Bad : \A k \in Bad : i <= k
  <2>1. Bad \in SUBSET Nat /\ Bad # {}
    BY <1>1
  <2> QED BY <2>1, LeastOf
<1>3. /\ i \in 1..Len(s) /\ ~(i <= Len(t) /\ s[i] = t[i])
      /\ \A k \in 1..Len(s) : k < i => k <= Len(t) /\ s[k] = t[k]
  BY <1>1, <1>2
<1>4. PICK m \in 1..Len(t) : s[i] = t[m]
  BY <1>3
<1>5. \A k \in 1..Len(s) : s[k] \in S
  BY ElementOfSeq
<1>6. \A k \in 1..Len(t) : t[k] \in S
  BY ElementOfSeq
<1>7. i < m
  <2>1. CASE m < i
    <3>1. s[m] = t[m] /\ m \in 1..Len(s)
      BY <1>1, <1>3, <2>1
    <3>2. <<s[m], s[i]>> \in R /\ s[m] = s[i]
      BY <1>3, <1>4, <2>1, <3>1
    <3> QED BY <1>3, <1>5, <3>1, <3>2
  <2> QED BY <1>1, <1>3, <1>4, <2>1
<1>8. i \in 1..Len(t) /\ <<t[i], s[i]>> \in R
  BY <1>1, <1>3, <1>4, <1>7
<1>9. CASE \E l \in 1..Len(s) : s[l] = t[i]
  <2>1. PICK l \in 1..Len(s) : s[l] = t[i]
    BY <1>9
  <2>2. CASE l < i
    <3>1. s[l] = t[l] /\ l \in 1..Len(t)
      BY <1>1, <1>3, <2>2
    <3>2. <<t[l], t[i]>> \in R /\ t[l] = t[i]
      BY <1>8, <2>1, <2>2, <3>1
    <3> QED BY <1>6, <3>1, <3>2
  <2>3. CASE i < l
    <3>1. <<s[i], s[l]>> \in R
      BY <1>3, <2>3
    <3> QED BY <1>3, <1>5, <1>8, <2>1, <3>1
  <2> QED BY <1>1, <1>3, <1>8, <2>1, <2>2, <2>3
<1>10. CASE \A k \in 1..Len(s) : <<s[k], t[i]>> \in R
  BY <1>3, <1>5, <1>6, <1>8, <1>10
<1> QED BY <1>8, <1>9, <1>10

LEMMA PageBounds ==
    ASSUME NEW n \in Nat \ {0}
    PROVE  /\ n * PageSize \in Nat /\ (n - 1) * PageSize \in Nat
           /\ n * PageSize = (n - 1) * PageSize + PageSize
           /\ (n + 1 - 1) * PageSize = n * PageSize
<1>1. PageSize \in Nat \ {0}
  BY RankingAssumption
<1>2. \A p \in Nat : n * p \in Nat /\ (n - 1) * p \in Nat /\ n * p = (n - 1) * p + p
  OBVIOUS
<1>3. n + 1 - 1 = n
  OBVIOUS
<1> QED BY <1>1, <1>2, <1>3

LEMMA SliceFacts ==
    ASSUME NEW S, NEW s \in Seq(S), NEW n \in Nat \ {0}
    PROVE  /\ Slice(s, n) \in Seq(S)
           /\ Len(Slice(s, n)) <= PageSize
           /\ \A i \in 1..Len(Slice(s, n)) :
                 /\ (n - 1) * PageSize + i \in 1..Len(s)
                 /\ (n - 1) * PageSize + i <= n * PageSize
                 /\ Slice(s, n)[i] = s[(n - 1) * PageSize + i]
           /\ Slice(s, n) # <<>> <=> (n - 1) * PageSize < Len(s)
<1> DEFINE a == (n - 1) * PageSize
           b == n * PageSize
           e == Min({b, Len(s)})
<1>1. a \in Nat /\ b \in Nat /\ b = a + PageSize /\ PageSize \in Nat \ {0} /\ Len(s) \in Nat
  BY PageBounds, LenProperties, RankingAssumption
<1>2. e = IF b <= Len(s) THEN b ELSE Len(s)
  BY <1>1, MinOfTwo
<1> HIDE DEF a, b, e
<1>3. \A i \in a + 1..e : i \in 1..Len(s) /\ s[i] \in S
  BY <1>1, <1>2, LenProperties
<1>4. /\ SubSeq(s, a + 1, e) \in Seq(S)
      /\ Len(SubSeq(s, a + 1, e)) = IF a + 1 <= e THEN e - (a + 1) + 1 ELSE 0
      /\ \A i \in 1..e - (a + 1) + 1 : SubSeq(s, a + 1, e)[i] = s[a + 1 + i - 1]
  BY <1>1, <1>2, <1>3, SubSeqProperties
<1>5. Slice(s, n) = SubSeq(s, a + 1, e)
  BY DEF Slice, a, b, e
<1>6. Slice(s, n) # <<>> <=> Len(Slice(s, n)) # 0
  BY <1>4, <1>5, EmptySeq
<1>7. /\ Len(Slice(s, n)) <= PageSize
      /\ \A i \in 1..Len(Slice(s, n)) : a + i \in 1..Len(s) /\ a + i <= b /\ Slice(s, n)[i] = s[a + i]
      /\ Slice(s, n) # <<>> <=> a < Len(s)
  BY <1>1, <1>2, <1>4, <1>5, <1>6
<1> QED BY <1>4, <1>5, <1>7 DEF a, b

\* What a page and the one after it have in common: s is the beginning of t.
LEMMA SlicesAgree ==
    ASSUME NEW S, NEW s \in Seq(S), NEW t \in Seq(S), NEW n \in Nat \ {0},
           \A i \in 1..Len(s) : i <= Len(t) /\ s[i] = t[i],
           \A i, j \in 1..Len(t) : i # j => t[i] # t[j]
    PROVE  /\ ToSet(Slice(s, n)) \cap ToSet(Slice(t, n + 1)) = {}
           /\ n * PageSize < Len(s) => Slice(t, n + 1) # <<>>
           /\ Slice(t, n + 1) # <<>> => n * PageSize < Len(t)
<1> DEFINE a == (n - 1) * PageSize
           b == n * PageSize
<1>1. a \in Nat /\ b \in Nat /\ (n + 1 - 1) * PageSize = b /\ n + 1 \in Nat \ {0}
  BY PageBounds
<1>2. /\ Slice(s, n) \in Seq(S)
      /\ \A i \in 1..Len(Slice(s, n)) :
            a + i \in 1..Len(s) /\ a + i <= b /\ Slice(s, n)[i] = s[a + i]
  BY SliceFacts
<1>3. /\ Slice(t, n + 1) \in Seq(S)
      /\ \A i \in 1..Len(Slice(t, n + 1)) : b + i \in 1..Len(t) /\ Slice(t, n + 1)[i] = t[b + i]
      /\ Slice(t, n + 1) # <<>> <=> b < Len(t)
  <2> DEFINE k == n + 1
  <2>1. k \in Nat \ {0} /\ (k - 1) * PageSize = b
    BY <1>1
  <2> HIDE DEF k, b
  <2>2. /\ Slice(t, k) \in Seq(S)
        /\ \A i \in 1..Len(Slice(t, k)) : b + i \in 1..Len(t) /\ Slice(t, k)[i] = t[b + i]
        /\ Slice(t, k) # <<>> <=> b < Len(t)
    BY <2>1, SliceFacts
  <2> QED BY <2>2 DEF k
<1>4. Len(s) \in Nat /\ Len(t) \in Nat /\ Len(s) <= Len(t)
  <2>1. Len(s) \in Nat /\ Len(t) \in Nat
    BY LenProperties
  <2> QED BY <2>1
<1> HIDE DEF a, b
<1>5. ASSUME NEW x \in ToSet(Slice(s, n)), x \in ToSet(Slice(t, n + 1)) PROVE FALSE
  <2>1. PICK i \in 1..Len(Slice(s, n)) : x = Slice(s, n)[i]
    BY <1>2, LenProperties DEF ToSet
  <2>2. PICK j \in 1..Len(Slice(t, n + 1)) : x = Slice(t, n + 1)[j]
    BY <1>3, <1>5, LenProperties DEF ToSet
  <2>3. a + i \in 1..Len(t) /\ t[a + i] = x /\ b + j \in 1..Len(t) /\ t[b + j] = x
    <3>1. a + i \in 1..Len(s) /\ s[a + i] = x
      BY <1>2, <2>1
    <3>2. b + j \in 1..Len(t) /\ t[b + j] = x
      BY <1>3, <2>2
    <3> QED BY <1>4, <3>1, <3>2
  <2>4. i \in Nat /\ j \in Nat \ {0} /\ a + i <= b
    BY <1>2, <1>3, <2>1, <2>2
  <2> QED BY <1>1, <2>3, <2>4
<1> QED BY <1>1, <1>3, <1>4, <1>5 DEF b

\* The cards that are good enough, when the best come first.
LEMMA GoodEnoughFacts ==
    ASSUME NEW s \in Seq(Cards), BestFirst(s)
    PROVE  /\ GoodEnough(s) \in Seq(Cards)
           /\ Len(GoodEnough(s)) <= Len(s)
           /\ \A i \in 1..Len(GoodEnough(s)) : GoodEnough(s)[i] = s[i]
           /\ \A i \in 1..Len(s) : s[i].score >= MinScore <=> i <= Len(GoodEnough(s))
<1> DEFINE Good == {i \in DOMAIN s : s[i].score >= MinScore}
           Bad == {i \in DOMAIN s : ~(s[i].score >= MinScore)}
<1>1. /\ Len(s) \in Nat /\ DOMAIN s = 1..Len(s)
      /\ MinScore \in Nat /\ \A i \in 1..Len(s) : s[i] \in Cards /\ s[i].score \in Nat
  <2>1. Len(s) \in Nat /\ DOMAIN s = 1..Len(s)
    BY LenProperties
  <2>2. \A i \in 1..Len(s) : s[i] \in Cards
    BY ElementOfSeq
  <2> QED BY <2>1, <2>2, RankingAssumption DEF Cards
<1>2. \E m \in 0..Len(s) : Good = 1..m
  <2>1. CASE Bad = {}
    BY <1>1, <2>1
  <2>2. CASE Bad # {}
    <3>1. Bad \in SUBSET Nat
      BY <1>1
    <3>2. PICK l \in Bad : \A k \in Bad : l <= k
      BY <2>2, <3>1, LeastOf
    <3>3. \A i \in 1..Len(s) : i < l => i \in Good
      BY <1>1, <3>1, <3>2
    <3>4. \A i \in Good : i < l
      BY <1>1, <3>2 DEF BestFirst
    <3>5. Good = 1..(l - 1) /\ l - 1 \in 0..Len(s)
      BY <1>1, <3>2, <3>3, <3>4
    <3> QED BY <3>5
  <2> QED BY <2>1, <2>2
<1>3. PICK m \in 0..Len(s) : Good = 1..m
  BY <1>2
<1>4. Cardinality(Good) = m /\ m \in Nat /\ m <= Len(s)
  <2>1. m \in Nat /\ m <= Len(s)
    BY <1>1
  <2> QED BY <1>3, <2>1, UpTo
<1>5. GoodEnough(s) = SubSeq(s, 1, m)
  BY <1>4 DEF GoodEnough
<1>6. \A i \in 1..m : s[i] \in Cards
  BY <1>1, <1>4
<1>7. /\ SubSeq(s, 1, m) \in Seq(Cards)
      /\ Len(SubSeq(s, 1, m)) = IF 1 <= m THEN m - 1 + 1 ELSE 0
      /\ \A i \in 1..m - 1 + 1 : SubSeq(s, 1, m)[i] = s[1 + i - 1]
  BY <1>4, <1>6, SubSeqProperties
<1>8. Len(SubSeq(s, 1, m)) = m /\ \A i \in 1..m : SubSeq(s, 1, m)[i] = s[i]
  BY <1>4, <1>7
<1>9. \A i \in 1..Len(s) : s[i].score >= MinScore <=> i <= m
  <2>1. \A i \in 1..Len(s) : i \in Good <=> s[i].score >= MinScore
    BY <1>1
  <2> HIDE DEF Good
  <2> QED BY <1>1, <1>3, <1>4, <2>1
<1> QED BY <1>4, <1>5, <1>7, <1>8, <1>9

-----------------------------------------------------------------------------
(***************************************************************************)
(* Cards in order.                                                         *)
(***************************************************************************)

Ahead(c, d) == c.score >= d.score /\ c.v # d.v

Ordered(s) == \A i, j \in 1..Len(s) : i < j => Ahead(s[i], s[j])

Leads(s, t) == \A i \in 1..Len(s), j \in 1..Len(t) : Ahead(s[i], t[j])

LEMMA SetOfSeq ==
    ASSUME NEW S, NEW s \in Seq(S)
    PROVE  /\ ToSet(s) \subseteq S
           /\ \A x : x \in ToSet(s) <=> \E i \in 1..Len(s) : s[i] = x
<1>1. DOMAIN s = 1..Len(s) /\ \A i \in 1..Len(s) : s[i] \in S
  BY LenProperties, ElementOfSeq
<1> QED BY <1>1 DEF ToSet

LEMMA EmptyIsOrdered ==
    /\ <<>> \in Seq(Cards) /\ Len(<<>>) = 0 /\ ToSet(<<>>) = {}
    /\ Ordered(<<>>) /\ \A t : Leads(<<>>, t)
<1>1. <<>> \in Seq(Cards) /\ Len(<<>>) = 0
  BY EmptySeq
<1>2. \A x : x \in ToSet(<<>>) <=> \E i \in 1..Len(<<>>) : <<>>[i] = x
  <2> DEFINE e == <<>>
  <2>1. e \in Seq(Cards)
    BY <1>1
  <2> HIDE DEF e
  <2>2. \A x : x \in ToSet(e) <=> \E i \in 1..Len(e) : e[i] = x
    BY <2>1, SetOfSeq
  <2> QED BY <2>2 DEF e
<1>3. \A x : x \notin ToSet(<<>>)
  <2>1. \A i : i \notin 1..Len(<<>>)
    BY <1>1
  <2> QED BY <1>2, <2>1
<1> QED BY <1>1, <1>3 DEF Ordered, Leads

LEMMA AppendFacts ==
    ASSUME NEW s \in Seq(Cards), NEW c \in Cards
    PROVE  /\ Append(s, c) \in Seq(Cards) /\ Len(Append(s, c)) = Len(s) + 1
           /\ \A i \in 1..Len(s) : Append(s, c)[i] = s[i]
           /\ Append(s, c)[Len(s) + 1] = c
           /\ ToSet(Append(s, c)) = ToSet(s) \cup {c}
<1>1. /\ Append(s, c) \in Seq(Cards) /\ Len(Append(s, c)) = Len(s) + 1 /\ Len(s) \in Nat
      /\ \A i \in 1..Len(s) : Append(s, c)[i] = s[i]
      /\ Append(s, c)[Len(s) + 1] = c
  BY AppendProperties, LenProperties
<1>2. \A x : x \in ToSet(s) <=> \E i \in 1..Len(s) : s[i] = x
  BY SetOfSeq
<1>3. \A x : x \in ToSet(Append(s, c)) <=> \E i \in 1..Len(s) + 1 : Append(s, c)[i] = x
  <2> DEFINE a == Append(s, c)
  <2>1. a \in Seq(Cards) /\ Len(a) = Len(s) + 1
    BY <1>1
  <2> HIDE DEF a
  <2>2. \A x : x \in ToSet(a) <=> \E i \in 1..Len(a) : a[i] = x
    BY <2>1, SetOfSeq
  <2> QED BY <2>1, <2>2 DEF a
<1>4. \A x : x \in ToSet(Append(s, c)) <=> x \in ToSet(s) \/ x = c
  BY <1>1, <1>2, <1>3
<1> QED BY <1>1, <1>4

LEMMA HeadFacts ==
    ASSUME NEW t \in Seq(Cards), t # <<>>
    PROVE  /\ Head(t) \in Cards /\ Tail(t) \in Seq(Cards) /\ Len(t) \in Nat \ {0}
           /\ Head(t) = t[1] /\ Len(Tail(t)) = Len(t) - 1
           /\ \A i \in 1..Len(Tail(t)) : Tail(t)[i] = t[i + 1] /\ i + 1 \in 1..Len(t)
           /\ ToSet(t) = {Head(t)} \cup ToSet(Tail(t))
<1>1. /\ Head(t) \in Cards /\ Tail(t) \in Seq(Cards) /\ Len(Tail(t)) = Len(t) - 1
      /\ \A i \in 1..Len(Tail(t)) : Tail(t)[i] = t[i + 1]
  BY HeadTailProperties
<1>2. Len(t) \in Nat \ {0} /\ Head(t) = t[1]
  BY EmptySeq
<1>3. \A x : x \in ToSet(t) <=> \E i \in 1..Len(t) : t[i] = x
  BY SetOfSeq
<1>4. \A x : x \in ToSet(Tail(t)) <=> \E i \in 1..Len(Tail(t)) : Tail(t)[i] = x
  BY <1>1, SetOfSeq
<1>5. \A i \in 1..Len(Tail(t)) : i + 1 \in 1..Len(t)
  BY <1>1, <1>2
<1>6. ASSUME NEW i \in 1..Len(t), i # 1
      PROVE  i - 1 \in 1..Len(Tail(t)) /\ Tail(t)[i - 1] = t[i]
  <2>1. i - 1 \in 1..Len(Tail(t)) /\ i - 1 + 1 = i
    BY <1>1, <1>2, <1>6
  <2> QED BY <1>1, <2>1
<1>7. \A x : x \in ToSet(t) <=> x = Head(t) \/ x \in ToSet(Tail(t))
  <2>1. ASSUME NEW x, x \in ToSet(t) PROVE x = Head(t) \/ x \in ToSet(Tail(t))
    <3>1. PICK i \in 1..Len(t) : t[i] = x
      BY <1>3, <2>1
    <3>2. CASE i = 1
      BY <1>2, <3>1, <3>2
    <3>3. CASE i # 1
      BY <1>4, <1>6, <3>1, <3>3
    <3> QED BY <3>2, <3>3
  <2>2. Head(t) \in ToSet(t)
    BY <1>2, <1>3
  <2>3. ASSUME NEW x, x \in ToSet(Tail(t)) PROVE x \in ToSet(t)
    BY <1>1, <1>3, <1>4, <1>5, <2>3
  <2> QED BY <2>1, <2>2, <2>3
<1> QED BY <1>1, <1>2, <1>5, <1>7

LEMMA AppendOrdered ==
    ASSUME NEW s \in Seq(Cards), NEW c \in Cards, Ordered(s), \A d \in ToSet(s) : Ahead(d, c)
    PROVE  Ordered(Append(s, c))
<1>1. \A i \in 1..Len(s) : Ahead(s[i], c)
  BY SetOfSeq
<1>2. Len(s) \in Nat
  BY LenProperties
<1> QED BY <1>1, <1>2, AppendFacts DEF Ordered

\* The head of the queue joins the matches, or is dropped.
LEMMA MoveHead ==
    ASSUME NEW s \in Seq(Cards), NEW t \in Seq(Cards), t # <<>>,
           Ordered(s), Ordered(t), Leads(s, t)
    PROVE  /\ Ordered(Tail(t)) /\ Leads(s, Tail(t))
           /\ Ordered(Append(s, Head(t))) /\ Leads(Append(s, Head(t)), Tail(t))
<1>1. Ordered(Tail(t)) /\ Leads(s, Tail(t))
  BY HeadFacts DEF Ordered, Leads
<1>2. \A i \in 1..Len(Tail(t)) : Ahead(Head(t), Tail(t)[i])
  BY HeadFacts DEF Ordered
<1>3. \A d \in ToSet(s) : Ahead(d, Head(t))
  BY HeadFacts, SetOfSeq DEF Leads
<1>4. Head(t) \in Cards
  BY HeadFacts
<1>5. Leads(Append(s, Head(t)), Tail(t))
  <2>1. Len(s) \in Nat
    BY LenProperties
  <2> QED BY <1>1, <1>2, <1>4, <2>1, AppendFacts DEF Leads
<1> QED BY <1>1, <1>3, <1>4, <1>5, AppendOrdered

-----------------------------------------------------------------------------
(***************************************************************************)
(* The inductive invariant.                                                *)
(***************************************************************************)

Full(v) == [v |-> v, score |-> FullScore(v)]

\* What may be found by q, whatever its min_trust
Here(q) == {v \in catalog \cap index : Admits(q.scope, v)}

\* What the search has not lost so far, and of this what min_trust keeps
Sure(q) == steady \cup (IF quiet THEN Here(q) ELSE {})
Kept(q) == {v \in Sure(q) : q.min => v \in trusted}

\* A card drawn from the store, and one that has been checked
Drawn(q, c) == c.v \in met /\ (Fits(q) /\ quiet => c.score = FullScore(c.v))
Matched(q, c) == Drawn(q, c) /\ c.v \in seen /\ Admits(q.scope, c.v)

RowsOK ==
    /\ near \in Near
    /\ catalog \subseteq Version /\ index \subseteq Version /\ met \subseteq Version
    /\ IsFiniteSet(catalog) /\ IsFiniteSet(index) /\ IsFiniteSet(met)
    /\ trusted \subseteq catalog
    /\ changes \in 0..MaxChanges
    /\ quiet \in BOOLEAN

AskedOK(q) ==
    /\ q \in Question
    /\ index \subseteq met /\ catalog \subseteq seen
    /\ steady \subseteq Findable(q)
    /\ quiet => met = index /\ seen = catalog

BodyOK(q, M) ==
    /\ M \subseteq Filtered(q, met)
    /\ Fits(q) => Sure(q) \subseteq M
    /\ Fits(q) /\ quiet => M = Filtered(q, met)

\* Matches come before what is still to be checked, and nothing is lost on the way.
QueueOK(q, queue, matches) ==
    /\ queue \in Seq(Cards) /\ matches \in Seq(Cards)
    /\ Len(matches) <= q.limit
    /\ Ordered(queue) /\ Ordered(matches) /\ Leads(matches, queue)
    /\ \A c \in ToSet(queue) : Drawn(q, c)
    /\ \A c \in ToSet(matches) : Matched(q, c)
    /\ Fits(q) => \A v \in Sure(q) : Full(v) \in ToSet(matches) \cup ToSet(queue)

\* A version that is lost had to give way to as many better ones as were asked for.
MatchesOK(q, matches) ==
    /\ matches \in Seq(Cards)
    /\ Len(matches) <= q.limit
    /\ Ordered(matches)
    /\ \A c \in ToSet(matches) : Matched(q, c)
    /\ Fits(q) => \A v \in Sure(q) :
          \/ Full(v) \in ToSet(matches)
          \/ Len(matches) = q.limit /\ \A c \in ToSet(matches) : c.score >= FullScore(v)

\* The cards are of the first k matches, in their order.
CardsOK(q, matches, k, cards) ==
    /\ cards \in Seq(Cards) /\ Ordered(cards)
    /\ \A c \in ToSet(cards) : /\ \E i \in 1..k : matches[i] = c
                               /\ quiet /\ q.min => c.v \in trusted
    /\ \A i \in 1..k : matches[i].v \in Kept(q) => matches[i] \in ToSet(cards)

AskOK(a) ==
    /\ a.at \in {"idle", "meta", "body", "checking", "cards", "answered"}
    /\ a.at # "idle" => AskedOK(a.q)
    /\ a.at = "body" => BodyOK(a.q, a.meta)
    /\ a.at = "checking" => /\ QueueOK(a.q, a.queue, a.matches)
                            /\ a.queue # <<>> /\ Len(a.matches) < a.q.limit
    /\ a.at = "cards" => /\ MatchesOK(a.q, a.matches)
                         /\ a.next \in 1..Len(a.matches) + 1
                         /\ CardsOK(a.q, a.matches, a.next - 1, a.cards)
    /\ a.at = "answered" => /\ MatchesOK(a.q, a.matches)
                            /\ CardsOK(a.q, a.matches, Len(a.matches), a.cards)

\* The matches and the cards of a search during which nothing has changed
Best(q, matches, cards) ==
    /\ matches \in Seq(Cards) /\ Ordered(matches) /\ Len(matches) <= q.limit
    /\ cards \in Seq(Cards) /\ Ordered(cards)
    /\ Cardinality(Filtered(q, index)) <= Larger(q.limit * StoreFactor, StoreMin) =>
          /\ \A c \in ToSet(matches) : c.v \in Here(q) /\ c.score = FullScore(c.v)
          /\ \A v \in Here(q) :
                \/ Full(v) \in ToSet(matches)
                \/ Len(matches) = q.limit /\ \A c \in ToSet(matches) : c.score >= FullScore(v)
          /\ \A c : c \in ToSet(cards) <=> c \in ToSet(matches) /\ (q.min => c.v \in trusted)

PageOK(p) ==
    /\ p.page \in 0..MaxPage
    /\ p.page # 0 =>
          /\ p.min \in BOOLEAN
          /\ \/ \E all \in Listed(p.min) : p = Page("list", p.page, p.min, all)
             \/ \E matches, cards :
                   /\ Best(PageQuestion(p.page, p.min), matches, cards)
                   /\ p = Page("query", p.page, p.min, GoodEnough(cards))

RankInv ==
    /\ RowsOK /\ AskOK(ask) /\ PageOK(last)
    /\ last.page # 0 /\ ask.at # "idle" => quiet

-----------------------------------------------------------------------------
(***************************************************************************)
(* Questions, stores and scores.                                           *)
(***************************************************************************)

LEMMA QuestionFacts ==
    ASSUME NEW q \in Question
    PROVE  /\ q.page \in 0..MaxPage /\ q.limit \in Nat /\ q.min \in BOOLEAN
           /\ q.scope \in DOMAIN Admitted
           /\ q.page # 0 => q = PageQuestion(q.page, q.min)
<1>1. PageSize \in Nat /\ MaxLimit \in Nat /\ MaxPage \in Nat
  BY RankingAssumption
<1>2. CASE q \in [page : {0}, scope : DOMAIN Admitted, limit : 0..MaxLimit, min : BOOLEAN]
  BY <1>1, <1>2
<1>3. ASSUME NEW n \in 1..MaxPage, NEW min \in BOOLEAN, q = PageQuestion(n, min)
      PROVE  /\ q.page = n /\ q.limit = n * PageSize + 1 /\ q.min = min /\ q.scope = "global"
  BY <1>3 DEF PageQuestion, Needed
<1>4. ASSUME NEW n \in 1..MaxPage PROVE n * PageSize + 1 \in Nat /\ n \in 0..MaxPage /\ n # 0
  <2>1. n \in Nat \ {0}
    BY <1>1
  <2>2. n * PageSize \in Nat
    BY <2>1, PageBounds
  <2> QED BY <1>1, <2>1, <2>2
<1>5. "global" \in DOMAIN Admitted
  BY DEF Admitted
<1>6. ASSUME NEW n \in 1..MaxPage, NEW min \in BOOLEAN, q = PageQuestion(n, min)
      PROVE  /\ q.page \in 0..MaxPage /\ q.limit \in Nat /\ q.min \in BOOLEAN
             /\ q.scope \in DOMAIN Admitted
             /\ q.page # 0 => q = PageQuestion(q.page, q.min)
  BY <1>3, <1>4, <1>5, <1>6
<1> QED BY <1>2, <1>6 DEF Question

LEMMA PoolFacts ==
    ASSUME NEW q \in Question
    PROVE  /\ TopK(q) \in Nat /\ Pool(q) \in Nat
           /\ TopK(q) <= Pool(q)
           /\ TopK(q) = Larger(q.limit * StoreFactor, StoreMin)
<1>1. q.limit \in Nat /\ StoreFactor \in Nat /\ StoreMin \in Nat
      /\ PoolFactor \in Nat \ {0} /\ PoolMin \in Nat
  BY QuestionFacts, RankingAssumption
<1>2. \A m, n \in Nat : m * n \in Nat
  OBVIOUS
<1>3. TopK(q) \in Nat /\ TopK(q) = Larger(q.limit * StoreFactor, StoreMin)
  BY <1>1, <1>2 DEF TopK, Larger
<1>4. \A k \in Nat, f \in Nat \ {0} : k <= k * f /\ k * f \in Nat
  OBVIOUS
<1> HIDE DEF TopK
<1>5. TopK(q) <= TopK(q) * PoolFactor /\ TopK(q) * PoolFactor \in Nat
  BY <1>1, <1>3, <1>4
<1> QED BY <1>1, <1>3, <1>5 DEF Pool, Larger

LEMMA ScoreFacts ==
    ASSUME near \in Near, NEW v \in Version, NEW hits
    PROVE  /\ FullScore(v) \in Nat /\ Score(hits, v) \in Nat
           /\ v \in hits.meta /\ v \in hits.body => Score(hits, v) = FullScore(v)
<1>1. near.meta[v] \in Nat /\ near.body[v] \in Nat /\ MetaWeight \in Nat /\ BodyWeight \in Nat
  BY RankingAssumption
<1>2. \A m, n \in Nat : m * n \in Nat
  OBVIOUS
<1>3. MetaWeight * near.meta[v] \in Nat /\ BodyWeight * near.body[v] \in Nat
  BY <1>1, <1>2
<1> QED BY <1>3 DEF FullScore, Score

LEMMA FilteredFacts ==
    ASSUME NEW q, NEW S, NEW T, S \subseteq T
    PROVE  /\ Filtered(q, T) \subseteq T
           /\ Filtered(q, S) \subseteq Filtered(q, T)
           /\ {v \in S : Admits(q.scope, v)} \subseteq Filtered(q, S)
BY DEF Filtered

\* A channel that may return as much as there is returns all there is.
LEMMA NearestFacts ==
    ASSUME NEW channel, NEW S, IsFiniteSet(S), NEW n \in Nat, NEW H \in Nearest(channel, S, n)
    PROVE  H \subseteq S /\ (Cardinality(S) <= n => H = S)
<1>1. H \subseteq S /\ Cardinality(H) = Min({n, Cardinality(S)})
  BY DEF Nearest
<1>2. Cardinality(S) \in Nat
  BY FS_CardinalityType
<1>3. Cardinality(S) <= n => Cardinality(H) = Cardinality(S)
  BY <1>1, <1>2, MinOfTwo
<1>4. Cardinality(S) <= n => H = S
  BY <1>1, <1>3, FS_Subset
<1> QED BY <1>1, <1>4

\* What fits in the candidates, fits in either channel.
LEMMA FitsFacts ==
    ASSUME RowsOK, NEW q, AskedOK(q)
    PROVE  /\ IsFiniteSet(Filtered(q, index)) /\ IsFiniteSet(Filtered(q, met))
           /\ Fits(q) => Cardinality(Filtered(q, met)) <= TopK(q)
           /\ Fits(q) => Cardinality(Filtered(q, index)) <= Pool(q)
           /\ Sure(q) \subseteq Filtered(q, index)
           /\ Sure(q) \subseteq catalog
           /\ Filtered(q, index) \subseteq Filtered(q, met)
           /\ Filtered(q, met) \subseteq met
<1>1. /\ Filtered(q, met) \subseteq met /\ Filtered(q, index) \subseteq index
      /\ Filtered(q, index) \subseteq Filtered(q, met)
  BY FilteredFacts DEF AskedOK
<1>2. IsFiniteSet(Filtered(q, met))
  BY <1>1, FS_Subset DEF RowsOK
<1>3. /\ IsFiniteSet(Filtered(q, index))
      /\ Cardinality(Filtered(q, index)) <= Cardinality(Filtered(q, met))
  BY <1>1, <1>2, FS_Subset
<1>4. q \in Question
  BY DEF AskedOK
<1>5. Cardinality(Filtered(q, met)) \in Nat
  BY <1>2, FS_CardinalityType
<1>6. Cardinality(Filtered(q, index)) \in Nat
  BY <1>3, FS_CardinalityType
<1>7. Fits(q) => Cardinality(Filtered(q, met)) <= TopK(q)
  BY <1>4, PoolFacts DEF Fits
<1>8. TopK(q) \in Nat /\ Pool(q) \in Nat /\ TopK(q) <= Pool(q)
  BY <1>4, PoolFacts
<1>9. Fits(q) => Cardinality(Filtered(q, index)) <= Pool(q)
  BY <1>3, <1>5, <1>6, <1>7, <1>8
<1>10. {v \in index : Admits(q.scope, v)} \subseteq Filtered(q, index)
  BY FilteredFacts
<1>11. Sure(q) \subseteq {v \in index : Admits(q.scope, v)} /\ Sure(q) \subseteq catalog
  BY DEF Sure, Here, AskedOK, Findable
<1> QED BY <1>1, <1>2, <1>3, <1>7, <1>9, <1>10, <1>11

LEMMA CardType ==
    ASSUME near \in Near, NEW v \in Version
    PROVE  Full(v) \in Cards
BY ScoreFacts DEF Full, Cards

-----------------------------------------------------------------------------
(***************************************************************************)
(* From candidates to cards.                                               *)
(***************************************************************************)

\* The first ones of a set of cards that is listed best first
LEMMA BestOnes ==
    ASSUME NEW D \in SUBSET Cards, IsFiniteSet(D), \A x, y \in D : x # y => x.v # y.v,
           NEW all \in SetToSeqs(D), BestFirst(all),
           NEW e \in Nat, e <= Cardinality(D)
    PROVE  /\ SubSeq(all, 1, e) \in Seq(Cards) /\ Ordered(SubSeq(all, 1, e))
           /\ ToSet(SubSeq(all, 1, e)) \subseteq D
           /\ e = Cardinality(D) => D \subseteq ToSet(SubSeq(all, 1, e))
<1> DEFINE queue == SubSeq(all, 1, e)
<1>1. /\ all \in Seq(D) /\ Len(all) = Cardinality(D) /\ \A x \in D : \E i \in 1..Len(all) : all[i] = x
      /\ \A i, j \in 1..Len(all) : i # j => all[i] # all[j]
  BY Enumeration
<1>2. Len(all) \in Nat /\ DOMAIN all = 1..Len(all)
  BY <1>1, LenProperties
<1>3. \A i \in 1..Len(all) : all[i] \in D
  BY <1>1, ElementOfSeq
<1>4. \A i \in 1..e : i \in 1..Len(all) /\ all[i] \in Cards
  BY <1>1, <1>2, <1>3
<1>5. /\ SubSeq(all, 1, e) \in Seq(Cards)
      /\ Len(SubSeq(all, 1, e)) = IF 1 <= e THEN e - 1 + 1 ELSE 0
      /\ \A i \in 1..e - 1 + 1 : SubSeq(all, 1, e)[i] = all[1 + i - 1]
  BY <1>4, SubSeqProperties
<1>6. queue \in Seq(Cards) /\ Len(queue) = e /\ \A i \in 1..e : queue[i] = all[i]
  BY <1>5
<1> HIDE DEF queue
<1>7. Ordered(queue)
  <2> SUFFICES ASSUME NEW i \in 1..Len(queue), NEW j \in 1..Len(queue), i < j
               PROVE  Ahead(queue[i], queue[j])
    BY DEF Ordered
  <2>1. i \in 1..e /\ j \in 1..e /\ i # j
    BY <1>6
  <2>2. i \in 1..Len(all) /\ j \in 1..Len(all)
    BY <1>4, <2>1
  <2>3. all[i].score >= all[j].score /\ all[i] # all[j]
    BY <1>1, <1>2, <2>1, <2>2 DEF BestFirst
  <2> QED BY <1>3, <1>6, <2>1, <2>2, <2>3 DEF Ahead
<1>8. \A x : x \in ToSet(queue) <=> \E i \in 1..e : all[i] = x
  <2>1. \A x : x \in ToSet(queue) <=> \E i \in 1..Len(queue) : queue[i] = x
    BY <1>6, SetOfSeq
  <2> QED BY <1>6, <2>1
<1>9. ToSet(queue) \subseteq D
  BY <1>3, <1>4, <1>8
<1>10. e = Cardinality(D) => D \subseteq ToSet(queue)
  BY <1>1, <1>8
<1> QED BY <1>6, <1>7, <1>9, <1>10 DEF queue

\* Where the loop over the candidates goes on, or ends
LEMMA CheckingOK ==
    ASSUME NEW q, AskedOK(q), NEW queue, NEW matches, QueueOK(q, queue, matches)
    PROVE  AskOK(Checking(q, queue, matches))
<1>1. q.limit \in Nat
  BY QuestionFacts DEF AskedOK
<1>2. Len(matches) \in Nat /\ matches \in Seq(Cards) /\ Len(matches) <= q.limit
  <2>1. matches \in Seq(Cards)
    BY DEF QueueOK
  <2>2. Len(matches) \in Nat
    BY <2>1, LenProperties
  <2> QED BY <2>1, <2>2 DEF QueueOK
<1>3. CASE queue = <<>> \/ Len(matches) >= q.limit
  <2>1. MatchesOK(q, matches)
    <3> SUFFICES ASSUME Fits(q), NEW v \in Sure(q), Full(v) \notin ToSet(matches)
                 PROVE  Len(matches) = q.limit /\ \A c \in ToSet(matches) : c.score >= FullScore(v)
      BY DEF QueueOK, MatchesOK
    <3>1. Full(v) \in ToSet(queue)
      BY DEF QueueOK
    <3>2. queue # <<>>
      BY <3>1, EmptyIsOrdered
    <3>3. Len(matches) = q.limit
      BY <1>1, <1>2, <1>3, <3>2
    <3>4. queue \in Seq(Cards)
      BY DEF QueueOK
    <3>5. PICK j \in 1..Len(queue) : queue[j] = Full(v)
      BY <3>1, <3>4, SetOfSeq
    <3>6. ASSUME NEW c \in ToSet(matches) PROVE c.score >= FullScore(v)
      <4>1. PICK i \in 1..Len(matches) : matches[i] = c
        BY <1>2, SetOfSeq
      <4>2. Ahead(matches[i], queue[j])
        BY DEF QueueOK, Leads
      <4> QED BY <3>5, <4>1, <4>2 DEF Ahead, Full
    <3> QED BY <3>3, <3>6
  <2>2. CardsOK(q, matches, 0, <<>>)
    BY EmptyIsOrdered DEF CardsOK
  <2>3. 1 \in 1..Len(matches) + 1 /\ 1 - 1 = 0
    BY <1>2
  <2> QED BY <1>3, <2>1, <2>2, <2>3 DEF AskOK, Checking, Making
<1>4. CASE queue # <<>> /\ Len(matches) < q.limit
  BY <1>1, <1>2, <1>4 DEF AskOK, Checking
<1> QED BY <1>1, <1>2, <1>3, <1>4

\* The candidates of both channels, of which the best ones go into the queue
LEMMA RanksOK ==
    ASSUME RowsOK, NEW q, AskedOK(q), NEW M, NEW B,
           M \subseteq Filtered(q, met), B \subseteq Filtered(q, met),
           Fits(q) => Sure(q) \subseteq M \cap B,
           Fits(q) /\ quiet => M = B,
           Ranks(q, [meta |-> M, body |-> B])
    PROVE  AskOK(ask')
<1> DEFINE hits == [meta |-> M, body |-> B]
           P == M \cup B
           D == {Candidate(hits, v) : v \in P}
<1>1. PICK all \in SetToSeqs(D) :
         /\ BestFirst(all)
         /\ ask' = Checking(q, SubSeq(all, 1, Min({TopK(q), Len(all)})), <<>>)
  BY DEF Ranks
<1> DEFINE e == Min({TopK(q), Len(all)})
           queue == SubSeq(all, 1, e)
<1>2. /\ D = {Candidate(hits, v) : v \in P} /\ hits.meta = M /\ hits.body = B
      /\ P = M \cup B /\ queue = SubSeq(all, 1, e)
  OBVIOUS
<1>3. BestFirst(all) /\ ask' = Checking(q, queue, <<>>)
  BY <1>1
<1> HIDE DEF hits, D, queue
<1>4. /\ P \subseteq Filtered(q, met) /\ P \subseteq met /\ P \subseteq Version
      /\ IsFiniteSet(P) /\ (Fits(q) => Cardinality(P) <= TopK(q))
  <2>1. P \subseteq Filtered(q, met) /\ P \subseteq met /\ IsFiniteSet(Filtered(q, met))
    BY FitsFacts
  <2>2. IsFiniteSet(P) /\ Cardinality(P) <= Cardinality(Filtered(q, met))
    BY <2>1, FS_Subset
  <2>3. Cardinality(P) \in Nat
    BY <2>2, FS_CardinalityType
  <2>4. Cardinality(Filtered(q, met)) \in Nat
    BY <2>1, FS_CardinalityType
  <2>5. TopK(q) \in Nat
    BY PoolFacts DEF AskedOK
  <2> HIDE DEF P
  <2>6. Fits(q) => Cardinality(P) <= TopK(q)
    BY <2>2, <2>3, <2>4, <2>5, FitsFacts
  <2> QED BY <2>1, <2>2, <2>6 DEF RowsOK
<1> HIDE DEF P
<1>5. IsFiniteSet(D) /\ Cardinality(D) <= Cardinality(P)
  <2> DEFINE f == [v \in P |-> Candidate(hits, v)]
  <2>1. f \in Surjection(P, D)
    BY <1>2 DEF Surjection
  <2> HIDE DEF f
  <2> QED BY <1>4, <2>1, FS_Surjection
<1>6. D \subseteq Cards
  BY <1>2, <1>4, ScoreFacts DEF Candidate, Cards, RowsOK
<1>7. all \in SetToSeqs(D)
  OBVIOUS
<1>8. \A c \in D : c.v \in met /\ (Fits(q) /\ quiet => c.score = FullScore(c.v))
  <2> SUFFICES ASSUME NEW v \in P
               PROVE  v \in met /\ (Fits(q) /\ quiet => Score(hits, v) = FullScore(v))
    BY <1>2 DEF Candidate
  <2>1. Fits(q) /\ quiet => v \in hits.meta /\ v \in hits.body
    BY <1>2
  <2> QED BY <1>4, <2>1, ScoreFacts DEF RowsOK
<1>9. \A v \in Sure(q) : Fits(q) => Full(v) \in D
  <2> SUFFICES ASSUME NEW v \in Sure(q), Fits(q) PROVE Full(v) \in D
    OBVIOUS
  <2>1. v \in hits.meta /\ v \in hits.body /\ v \in P
    BY <1>2
  <2>2. Score(hits, v) = FullScore(v)
    BY <1>4, <2>1, ScoreFacts DEF RowsOK
  <2> QED BY <1>2, <2>1, <2>2 DEF Full, Candidate
<1>10. \A x, y \in D : x # y => x.v # y.v
  BY <1>2 DEF Candidate
<1>11. /\ Len(all) = Cardinality(D) /\ Len(all) \in Nat
       /\ Cardinality(P) \in Nat /\ TopK(q) \in Nat
  <2>1. Len(all) = Cardinality(D)
    BY <1>5, <1>7, Enumeration
  <2>2. Cardinality(D) \in Nat
    BY <1>5, FS_CardinalityType
  <2>3. Cardinality(P) \in Nat
    BY <1>4, FS_CardinalityType
  <2>4. TopK(q) \in Nat
    BY PoolFacts DEF AskedOK
  <2> QED BY <2>1, <2>2, <2>3, <2>4
<1>12. e \in Nat /\ e <= Cardinality(D) /\ (Fits(q) => e = Cardinality(D))
  <2>1. e = IF TopK(q) <= Len(all) THEN TopK(q) ELSE Len(all)
    BY <1>11, MinOfTwo
  <2> HIDE DEF e
  <2> QED BY <1>4, <1>5, <1>11, <2>1
<1>13. queue = SubSeq(all, 1, e)
  BY <1>2
<1> HIDE DEF e
<1>14. /\ SubSeq(all, 1, e) \in Seq(Cards) /\ Ordered(SubSeq(all, 1, e))
       /\ ToSet(SubSeq(all, 1, e)) \subseteq D
       /\ e = Cardinality(D) => D \subseteq ToSet(SubSeq(all, 1, e))
  BY <1>5, <1>6, <1>7, <1>10, <1>12, <1>3, BestOnes
<1>15. \A c \in ToSet(queue) : Drawn(q, c)
  BY <1>8, <1>13, <1>14 DEF Drawn
<1>16. \A v \in Sure(q) : Fits(q) => Full(v) \in ToSet(queue)
  BY <1>9, <1>12, <1>13, <1>14
<1>17. Len(<<>>) <= q.limit
  <2>1. q.limit \in Nat
    BY QuestionFacts DEF AskedOK
  <2> QED BY <2>1, EmptyIsOrdered
<1>18. QueueOK(q, queue, <<>>)
  BY <1>13, <1>14, <1>15, <1>16, <1>17, EmptyIsOrdered DEF QueueOK
<1> QED BY <1>3, <1>18, CheckingOK

-----------------------------------------------------------------------------
(***************************************************************************)
(* The steps of the search, and those of the other processes.              *)
(***************************************************************************)

\* What the invariant says of a handler depends on no more than world and ghosts.
LEMMA Unmoved ==
    ASSUME UNCHANGED <<world, ghosts>>
    PROVE  (RowsOK => RowsOK') /\ \A a : AskOK(a)' <=> AskOK(a)
<1> USE DEF world, ghosts
<1>1. \A q, S : Filtered(q, S)' = Filtered(q, S)
  BY DEF Filtered
<1>2. \A v : FullScore(v)' = FullScore(v) /\ Full(v)' = Full(v)
  BY DEF FullScore, Full
<1>3. \A q : Fits(q)' <=> Fits(q)
  BY DEF Fits, Filtered
<1>4. \A q : Here(q)' = Here(q) /\ Sure(q)' = Sure(q) /\ Kept(q)' = Kept(q)
  BY DEF Here, Sure, Kept
<1>5. \A q, c : Drawn(q, c)' <=> Drawn(q, c)
  BY <1>2, <1>3 DEF Drawn
<1>6. \A q, c : Matched(q, c)' <=> Matched(q, c)
  BY <1>5 DEF Matched
<1>7. \A q : AskedOK(q)' <=> AskedOK(q)
  BY DEF AskedOK, Findable
<1>8. \A q, M : BodyOK(q, M)' <=> BodyOK(q, M)
  <2>1. \A q : Filtered(q, met)' = Filtered(q, met)
    BY DEF Filtered
  <2> QED BY <1>3, <1>4, <2>1 DEF BodyOK
<1>9. \A q, s, t : QueueOK(q, s, t)' <=> QueueOK(q, s, t)
  BY <1>2, <1>3, <1>4, <1>5, <1>6 DEF QueueOK
<1>10. \A q, s : MatchesOK(q, s)' <=> MatchesOK(q, s)
  BY <1>2, <1>3, <1>4, <1>6 DEF MatchesOK
<1>11. \A q, s, k, t : CardsOK(q, s, k, t)' <=> CardsOK(q, s, k, t)
  BY <1>4 DEF CardsOK
<1>12. \A a : AskOK(a)' <=> AskOK(a)
  BY <1>7, <1>8, <1>9, <1>10, <1>11 DEF AskOK
<1>13. RowsOK => RowsOK'
  BY DEF RowsOK
<1> QED BY <1>12, <1>13

\* Nor does what it says of a page depend on more than world.
LEMMA UnmovedPages ==
    ASSUME UNCHANGED world
    PROVE  \A p : PageOK(p)' <=> PageOK(p)
<1> USE DEF world
<1>1. \A q : Here(q)' = Here(q)
  BY DEF Here
<1>2. \A v : FullScore(v)' = FullScore(v) /\ Full(v)' = Full(v)
  BY DEF FullScore, Full
<1>3. \A q : Filtered(q, index)' = Filtered(q, index)
  BY DEF Filtered
<1>4. \A q, s, t : Best(q, s, t)' <=> Best(q, s, t)
  BY <1>1, <1>2, <1>3 DEF Best
<1>5. \A min : Listed(min)' = Listed(min)
  BY DEF Listed, Current, Standing
<1> QED BY <1>4, <1>5 DEF PageOK

\* A write of another process takes from what the search can be sure of, and ends
\* what it could have said of an unchanged index.
LEMMA Moved ==
    ASSUME RowsOK, RowsOK', NEW a, AskOK(a), Changes, trusted \cap catalog' \subseteq trusted'
    PROVE  AskOK(a)'
<1>1. /\ near' = near /\ backend' = backend /\ quiet' = FALSE
      /\ met \subseteq met' /\ seen \subseteq seen' /\ index' \subseteq met' /\ catalog' \subseteq seen'
      /\ steady' = steady \cap catalog' \cap index'
  BY DEF Changes
<1>2. \A q, S : Filtered(q, S)' = Filtered(q, S)
  BY <1>1 DEF Filtered
<1>3. \A v : FullScore(v)' = FullScore(v) /\ Full(v)' = Full(v)
  BY <1>1 DEF FullScore, Full
<1>4. \A q : AskedOK(q) => AskedOK(q)'
  BY <1>1 DEF AskedOK, Findable
<1>5. ASSUME NEW q, AskedOK(q), Fits(q)' PROVE Fits(q)
  <2> DEFINE F == Filtered(q, met)
             G == Filtered(q, met)'
  <2>1. F \subseteq G /\ G \subseteq met'
    BY <1>1 DEF Filtered
  <2>2. IsFiniteSet(met')
    BY DEF RowsOK
  <2> HIDE DEF F, G
  <2>3. IsFiniteSet(G)
    BY <2>1, <2>2, FS_Subset
  <2>4. IsFiniteSet(F) /\ Cardinality(F) <= Cardinality(G)
    BY <2>1, <2>3, FS_Subset
  <2>5. Cardinality(F) \in Nat
    BY <2>4, FS_CardinalityType
  <2>6. Cardinality(G) \in Nat
    BY <2>3, FS_CardinalityType
  <2>7. Cardinality(G) <= Larger(q.limit * StoreFactor, StoreMin)
    BY <1>5 DEF Fits, G
  <2>8. Larger(q.limit * StoreFactor, StoreMin) \in Nat
    <3>1. q \in Question
      BY <1>5 DEF AskedOK
    <3> QED BY <3>1, PoolFacts
  <2>9. Cardinality(F) <= Larger(q.limit * StoreFactor, StoreMin)
    BY <2>4, <2>5, <2>6, <2>7, <2>8
  <2> QED BY <2>9 DEF Fits, F
<1>6. ASSUME NEW q, AskedOK(q) PROVE Sure(q)' \subseteq Sure(q) /\ Kept(q)' \subseteq Kept(q)
  BY <1>1, <1>6 DEF Sure, Kept, AskedOK, Findable
<1>7. \A q, c : Drawn(q, c) => Drawn(q, c)'
  BY <1>1 DEF Drawn
<1>8. \A q, c : Matched(q, c) => Matched(q, c)'
  BY <1>1, <1>7 DEF Matched
<1>9. ASSUME NEW q, AskedOK(q), NEW M, BodyOK(q, M) PROVE BodyOK(q, M)'
  <2>1. Filtered(q, met) \subseteq Filtered(q, met)'
    BY <1>1 DEF Filtered
  <2> QED BY <1>1, <1>5, <1>6, <1>9, <2>1 DEF BodyOK
<1>10. ASSUME NEW q, AskedOK(q), NEW s, NEW t, QueueOK(q, s, t) PROVE QueueOK(q, s, t)'
  BY <1>3, <1>5, <1>6, <1>7, <1>8, <1>10 DEF QueueOK
<1>11. ASSUME NEW q, AskedOK(q), NEW s, MatchesOK(q, s) PROVE MatchesOK(q, s)'
  BY <1>3, <1>5, <1>6, <1>8, <1>11 DEF MatchesOK
<1>12. ASSUME NEW q, AskedOK(q), NEW s, NEW k, NEW t, CardsOK(q, s, k, t) PROVE CardsOK(q, s, k, t)'
  BY <1>1, <1>6, <1>12 DEF CardsOK
<1> QED BY <1>4, <1>9, <1>10, <1>11, <1>12 DEF AskOK

LEMMA RankInvAtFirst == RankInit => RankInv
<1> SUFFICES ASSUME RankInit PROVE RankInv
  OBVIOUS
<1>1. RowsOK
  <2>1. Published \subseteq Version /\ IsFiniteSet(Published) /\ Verified \subseteq Published
        /\ MaxChanges \in Nat
    BY RankingAssumption
  <2>2. IsFiniteSet({})
    BY FS_EmptySet
  <2> QED BY <2>1, <2>2 DEF RankInit, RowsOK
<1>2. AskOK(ask)
  BY DEF RankInit, AskOK
<1>3. PageOK(last) /\ last.page = 0
  BY RankingAssumption DEF RankInit, PageOK, NoPage
<1> QED BY <1>1, <1>2, <1>3 DEF RankInv, RankInit

LEMMA AsksKeeps ==
    ASSUME RankInv, NEW q \in Question, Asks(q)
    PROVE  RankInv'
<1>1. q.limit \in Nat
  BY QuestionFacts
<1>2. RowsOK'
  BY DEF RankInv, RowsOK, Asks, world
<1>3. AskedOK(q)'
  BY DEF Asks, AskedOK, Findable, world
<1>4. (AskOK(ask))'
  <2>1. CASE q.limit = 0
    <3>1. ask' = Answer(q, <<>>, <<>>)
      BY <2>1 DEF Asks
    <3>2. MatchesOK(q, <<>>)'
      BY <2>1, EmptyIsOrdered DEF MatchesOK
    <3>3. CardsOK(q, <<>>, 0, <<>>)'
      BY EmptyIsOrdered DEF CardsOK
    <3>4. Len(<<>>) = 0
      BY EmptyIsOrdered
    <3> QED BY <1>3, <3>1, <3>2, <3>3, <3>4 DEF AskOK, Answer
  <2>2. CASE q.limit # 0
    <3>1. ask' = [at |-> "meta", q |-> q]
      BY <2>2 DEF Asks
    <3> QED BY <1>3, <3>1 DEF AskOK
  <2> QED BY <2>1, <2>2
<1>5. PageOK(last)'
  <2>1. last' = last \/ last' = NoPage
    BY DEF Asks
  <2>2. \A p : PageOK(p)' <=> PageOK(p)
    BY UnmovedPages DEF Asks
  <2>3. PageOK(NoPage)
    BY RankingAssumption DEF PageOK, NoPage
  <2> QED BY <2>1, <2>2, <2>3 DEF RankInv
<1>6. quiet'
  BY DEF Asks
<1> QED BY <1>2, <1>4, <1>5, <1>6 DEF RankInv

\* A step of the handler that changes nothing but its own state
LEMMA HandlerKeeps ==
    ASSUME RankInv, ask.at # "idle", AskOK(ask'), UNCHANGED <<world, last, ghosts>>
    PROVE  RankInv'
<1>1. UNCHANGED world /\ UNCHANGED ghosts /\ last' = last /\ quiet' = quiet
  BY DEF ghosts
<1>2. RowsOK' /\ (AskOK(ask))'
  BY <1>1, Unmoved DEF RankInv
<1>3. PageOK(last)'
  BY <1>1, UnmovedPages DEF RankInv
<1> QED BY <1>1, <1>2, <1>3 DEF RankInv

LEMMA QueriesMetaKeeps ==
    ASSUME RankInv, QueriesMeta
    PROVE  RankInv'
<1>1. AskedOK(ask.q) /\ RowsOK /\ ask.at # "idle" /\ UNCHANGED <<world, last, ghosts>>
  BY DEF RankInv, AskOK, QueriesMeta
<1> DEFINE q == ask.q
<1>2. PICK H \in Nearest("meta", Filtered(q, index), Pool(q)) :
         ask' = [at |-> "body", q |-> q, meta |-> H]
  BY DEF QueriesMeta
<1> HIDE DEF q
<1>3. AskedOK(q)
  BY <1>1 DEF q
<1>4. IsFiniteSet(Filtered(q, index)) /\ Pool(q) \in Nat
  <2>1. Pool(q) \in Nat
    BY <1>3, PoolFacts DEF AskedOK
  <2> QED BY <1>1, <1>3, <2>1, FitsFacts
<1>5. H \subseteq Filtered(q, index) /\ (Cardinality(Filtered(q, index)) <= Pool(q) => H = Filtered(q, index))
  BY <1>4, NearestFacts
<1>6. BodyOK(q, H)
  <2>1. quiet => index = met
    BY <1>3 DEF AskedOK
  <2> QED BY <1>1, <1>3, <1>5, <2>1, FitsFacts DEF BodyOK
<1>7. AskOK(ask')
  BY <1>2, <1>3, <1>6 DEF AskOK
<1> QED BY <1>1, <1>7, HandlerKeeps

LEMMA QueriesBodyKeeps ==
    ASSUME RankInv, QueriesBody
    PROVE  RankInv'
<1> DEFINE q == ask.q
           M == ask.meta
<1>1. /\ AskedOK(q) /\ BodyOK(q, M) /\ RowsOK
      /\ ask.at # "idle" /\ UNCHANGED <<world, last, ghosts>>
  BY DEF RankInv, AskOK, QueriesBody
<1>2. PICK H \in Nearest("body", Filtered(q, index), Pool(q)) : Ranks(q, [meta |-> M, body |-> H])
  BY DEF QueriesBody
<1> HIDE DEF q, M
<1>3. IsFiniteSet(Filtered(q, index)) /\ Pool(q) \in Nat
  <2>1. Pool(q) \in Nat
    BY <1>1, PoolFacts DEF AskedOK
  <2> QED BY <1>1, <2>1, FitsFacts
<1>4. H \subseteq Filtered(q, index) /\ (Cardinality(Filtered(q, index)) <= Pool(q) => H = Filtered(q, index))
  BY <1>3, NearestFacts
<1>5. /\ M \subseteq Filtered(q, met) /\ H \subseteq Filtered(q, met)
      /\ Fits(q) => Sure(q) \subseteq M \cap H
      /\ Fits(q) /\ quiet => M = H
  <2>1. quiet => index = met
    BY <1>1 DEF AskedOK
  <2> QED BY <1>1, <1>4, <2>1, FitsFacts DEF BodyOK
<1>6. AskOK(ask')
  BY <1>1, <1>2, <1>5, RanksOK
<1> QED BY <1>1, <1>6, HandlerKeeps

LEMMA QueriesBothKeeps ==
    ASSUME RankInv, QueriesBoth
    PROVE  RankInv'
<1> DEFINE q == ask.q
           hits == [meta |-> index, body |-> index]
<1>1. /\ AskedOK(q) /\ RowsOK /\ ask.at # "idle" /\ UNCHANGED <<world, last, ghosts>>
      /\ backend = "pgvector" /\ Ranks(q, hits)
  BY DEF RankInv, AskOK, QueriesBoth
<1> HIDE DEF q
<1>2. Filtered(q, index) = index
  BY <1>1 DEF Filtered
<1>3. index \subseteq Filtered(q, met) /\ (Fits(q) => Sure(q) \subseteq index \cap index)
  BY <1>1, <1>2, FitsFacts
<1>4. AskOK(ask')
  BY <1>1, <1>3, RanksOK DEF hits
<1> QED BY <1>1, <1>4, HandlerKeeps

LEMMA ChecksKeeps ==
    ASSUME RankInv, Checks
    PROVE  RankInv'
<1> DEFINE q == ask.q
           queue == ask.queue
           matches == ask.matches
           c == Head(queue)
           allowed == Allowed(q, c.v)
           more == IF allowed THEN Append(matches, c) ELSE matches
<1>1. /\ RowsOK /\ AskedOK(q) /\ QueueOK(q, queue, matches) /\ queue # <<>>
      /\ Len(matches) < q.limit /\ ask.at # "idle" /\ UNCHANGED <<world, last, ghosts>>
  BY DEF RankInv, AskOK, Checks
<1>2. ask' = Checking(q, Tail(queue), more)
  BY DEF Checks
<1>3. allowed => c.v \in catalog /\ Admits(q.scope, c.v)
  BY DEF Allowed
<1>4. c.v \in catalog /\ Admits(q.scope, c.v) => allowed
  BY DEF Allowed
<1>5. c = Head(queue) /\ (allowed => more = Append(matches, c)) /\ (~allowed => more = matches)
  OBVIOUS
<1> HIDE DEF q, queue, matches, c, allowed, more
<1>6. /\ queue \in Seq(Cards) /\ matches \in Seq(Cards)
      /\ Ordered(queue) /\ Ordered(matches) /\ Leads(matches, queue)
      /\ \A d \in ToSet(queue) : Drawn(q, d)
      /\ \A d \in ToSet(matches) : Matched(q, d)
  BY <1>1 DEF QueueOK
<1>7. /\ c \in Cards /\ Tail(queue) \in Seq(Cards)
      /\ ToSet(queue) = {c} \cup ToSet(Tail(queue))
  BY <1>1, <1>5, <1>6, HeadFacts
<1>8. /\ Ordered(Tail(queue)) /\ Leads(matches, Tail(queue))
      /\ Ordered(Append(matches, c)) /\ Leads(Append(matches, c), Tail(queue))
  BY <1>1, <1>5, <1>6, MoveHead
<1>9. /\ Append(matches, c) \in Seq(Cards) /\ Len(Append(matches, c)) = Len(matches) + 1
      /\ ToSet(Append(matches, c)) = ToSet(matches) \cup {c}
  BY <1>6, <1>7, AppendFacts
<1>10. Len(matches) \in Nat /\ q.limit \in Nat
  <2>1. Len(matches) \in Nat
    BY <1>6, LenProperties
  <2>2. q.limit \in Nat
    BY <1>1, QuestionFacts DEF AskedOK
  <2> QED BY <2>1, <2>2
<1>11. c.v \in met /\ Drawn(q, c)
  BY <1>6, <1>7 DEF Drawn
<1>12. CASE allowed
  <2>1. Matched(q, c)
    BY <1>1, <1>3, <1>11, <1>12 DEF Matched, AskedOK
  <2>2. QueueOK(q, Tail(queue), Append(matches, c))
    BY <1>1, <1>6, <1>7, <1>8, <1>9, <1>10, <2>1 DEF QueueOK
  <2>3. AskOK(ask')
    BY <1>1, <1>2, <1>5, <1>12, <2>2, CheckingOK
  <2> QED BY <1>1, <2>3, HandlerKeeps
<1>13. CASE ~allowed
  <2>1. \A v \in Sure(q) : v # c.v
    BY <1>4, <1>13, <1>1, FitsFacts DEF Sure, Here, AskedOK, Findable
  <2>2. \A v \in Sure(q) : Full(v) # c
    BY <2>1 DEF Full
  <2>3. QueueOK(q, Tail(queue), matches)
    BY <1>1, <1>6, <1>7, <1>8, <1>10, <2>2 DEF QueueOK
  <2>4. AskOK(ask')
    BY <1>1, <1>2, <1>5, <1>13, <2>3, CheckingOK
  <2> QED BY <1>1, <2>4, HandlerKeeps
<1> QED BY <1>12, <1>13

LEMMA MakesCardKeeps ==
    ASSUME RankInv, MakesCard
    PROVE  RankInv'
<1> DEFINE q == ask.q
           matches == ask.matches
           cards == ask.cards
           n == ask.next
           c == matches[n]
           kept == c.v \in catalog /\ (q.min => c.v \in trusted)
           more == IF kept THEN Append(cards, c) ELSE cards
<1>1. /\ RowsOK /\ AskedOK(q) /\ MatchesOK(q, matches) /\ CardsOK(q, matches, n - 1, cards)
      /\ n \in 1..Len(matches) + 1 /\ ask.at # "idle" /\ UNCHANGED <<world, last, ghosts>>
  BY DEF RankInv, AskOK, MakesCard
<1>2. /\ n > Len(matches) => ask' = Answer(q, matches, cards)
      /\ ~(n > Len(matches)) => ask' = Making(q, matches, n + 1, more)
  BY DEF MakesCard
<1>3. /\ c = matches[n] /\ (kept => more = Append(cards, c)) /\ (~kept => more = cards)
      /\ (kept => (q.min => c.v \in trusted))
      /\ (c.v \in catalog /\ (q.min => c.v \in trusted) => kept)
  OBVIOUS
<1> HIDE DEF q, matches, cards, n, c, kept, more
<1>4. matches \in Seq(Cards) /\ Ordered(matches) /\ cards \in Seq(Cards) /\ Ordered(cards)
  BY <1>1 DEF MatchesOK, CardsOK
<1>5. Len(matches) \in Nat
  BY <1>4, LenProperties
<1>6. CASE n > Len(matches)
  <2>1. n - 1 = Len(matches)
    BY <1>1, <1>5, <1>6
  <2>2. AskOK(ask')
    BY <1>1, <1>2, <1>6, <2>1 DEF AskOK, Answer
  <2> QED BY <1>1, <2>2, HandlerKeeps
<1>7. CASE ~(n > Len(matches))
  <2>1. /\ n \in 1..Len(matches) /\ n + 1 \in 1..Len(matches) + 1 /\ n + 1 - 1 = n
        /\ \A i \in 1..n : i = n \/ i \in 1..(n - 1)
        /\ \A i \in 1..(n - 1) : i \in 1..n /\ i \in 1..Len(matches) /\ i < n
    BY <1>1, <1>5, <1>7
  <2>2. c \in Cards
    BY <1>3, <1>4, <2>1, ElementOfSeq
  <2>3. CardsOK(q, matches, n, more)
    <3>1. CASE kept
      <4>1. \A d \in ToSet(cards) : Ahead(d, c)
        <5> SUFFICES ASSUME NEW d \in ToSet(cards) PROVE Ahead(d, c)
          OBVIOUS
        <5>1. PICK i \in 1..(n - 1) : matches[i] = d
          BY <1>1 DEF CardsOK
        <5> QED BY <1>3, <1>4, <2>1, <5>1 DEF Ordered
      <4>2. Ordered(Append(cards, c))
        BY <1>4, <2>2, <4>1, AppendOrdered
      <4>3. Append(cards, c) \in Seq(Cards) /\ ToSet(Append(cards, c)) = ToSet(cards) \cup {c}
        BY <1>4, <2>2, AppendFacts
      <4>4. \A d \in ToSet(Append(cards, c)) : /\ \E i \in 1..n : matches[i] = d
                                               /\ quiet /\ q.min => d.v \in trusted
        BY <1>1, <1>3, <2>1, <3>1, <4>3 DEF CardsOK
      <4>5. \A i \in 1..n : matches[i].v \in Kept(q) => matches[i] \in ToSet(Append(cards, c))
        BY <1>1, <1>3, <2>1, <4>3 DEF CardsOK
      <4> QED BY <1>3, <3>1, <4>2, <4>3, <4>4, <4>5 DEF CardsOK
    <3>2. CASE ~kept
      <4>1. Sure(q) \subseteq catalog
        BY <1>1, FitsFacts
      <4>2. c.v \notin Kept(q)
        BY <1>3, <3>2, <4>1 DEF Kept
      <4> QED BY <1>1, <1>3, <2>1, <3>2, <4>2 DEF CardsOK
    <3> QED BY <3>1, <3>2
  <2>4. AskOK(ask')
    BY <1>1, <1>2, <1>7, <2>1, <2>3 DEF AskOK, Making
  <2> QED BY <1>1, <2>4, HandlerKeeps
<1> QED BY <1>6, <1>7

\* An answer that no write has disturbed
LEMMA QuietAnswer ==
    ASSUME RankInv, ask.at = "answered", quiet
    PROVE  Best(ask.q, ask.matches, ask.cards)
<1> DEFINE q == ask.q
           matches == ask.matches
           cards == ask.cards
<1>1. /\ AskedOK(q) /\ MatchesOK(q, matches) /\ CardsOK(q, matches, Len(matches), cards)
  BY DEF RankInv, AskOK
<1> HIDE DEF q, matches, cards
<1>2. /\ matches \in Seq(Cards) /\ Ordered(matches) /\ Len(matches) <= q.limit
      /\ cards \in Seq(Cards) /\ Ordered(cards)
  BY <1>1 DEF MatchesOK, CardsOK
<1>3. met = index /\ seen = catalog /\ Here(q) \subseteq Sure(q)
  BY <1>1 DEF AskedOK, Sure
<1>4. ASSUME Cardinality(Filtered(q, index)) <= Larger(q.limit * StoreFactor, StoreMin)
      PROVE  /\ \A c \in ToSet(matches) : c.v \in Here(q) /\ c.score = FullScore(c.v)
             /\ \A v \in Here(q) :
                   \/ Full(v) \in ToSet(matches)
                   \/ Len(matches) = q.limit /\ \A c \in ToSet(matches) : c.score >= FullScore(v)
             /\ \A c : c \in ToSet(cards) <=> c \in ToSet(matches) /\ (q.min => c.v \in trusted)
  <2>1. Fits(q)
    BY <1>3, <1>4 DEF Fits
  <2>2. \A c \in ToSet(matches) : c.v \in Here(q) /\ c.score = FullScore(c.v)
    BY <1>1, <1>3, <2>1 DEF MatchesOK, Matched, Drawn, Here
  <2>3. \A c : c \in ToSet(matches) <=> \E i \in 1..Len(matches) : matches[i] = c
    BY <1>2, SetOfSeq
  <2>4. ASSUME NEW c \in ToSet(matches), q.min => c.v \in trusted PROVE c \in ToSet(cards)
    <3>1. c.v \in Kept(q)
      BY <1>3, <2>2, <2>4 DEF Kept
    <3> QED BY <1>1, <2>3, <2>4, <3>1 DEF CardsOK
  <2>5. \A c \in ToSet(cards) : c \in ToSet(matches) /\ (q.min => c.v \in trusted)
    BY <1>1, <2>3 DEF CardsOK
  <2> QED BY <1>1, <1>3, <2>1, <2>2, <2>4, <2>5 DEF MatchesOK
<1>5. Best(q, matches, cards)
  BY <1>2, <1>4 DEF Best
<1> QED BY <1>5 DEF q, matches, cards

LEMMA AnswersKeeps ==
    ASSUME RankInv, ReturnsCards \/ ShowsPage
    PROVE  RankInv'
<1>1. UNCHANGED world /\ ask.at = "answered" /\ ask' = [at |-> "idle"] /\ met' = {} /\ quiet' = TRUE
  BY DEF ReturnsCards, ShowsPage, Answers
<1>2. IsFiniteSet(met') /\ met' \subseteq Version
  BY <1>1, FS_EmptySet
<1>3. RowsOK'
  BY <1>1, <1>2 DEF RankInv, RowsOK, world
<1>4. (AskOK(ask))'
  BY <1>1 DEF AskOK
<1>5. PageOK(NoPage)
  BY RankingAssumption DEF PageOK, NoPage
<1>6. ASSUME quiet, ask.q.page # 0 PROVE PageOK(FoundPage)
  <2> DEFINE n == ask.q.page
             min == ask.q.min
             matches == ask.matches
             cards == ask.cards
             p == FoundPage
  <2>1. ask.q \in Question
    BY <1>1 DEF RankInv, AskOK, AskedOK
  <2>2. n \in 0..MaxPage /\ min \in BOOLEAN /\ ask.q = PageQuestion(n, min)
    BY <1>6, <2>1, QuestionFacts
  <2>3. Best(ask.q, matches, cards)
    BY <1>1, <1>6, QuietAnswer
  <2>4. p = Page("query", n, min, GoodEnough(cards)) /\ p.page = n /\ p.min = min
    BY DEF FoundPage, Page
  <2> HIDE DEF n, min, matches, cards, p
  <2>5. Best(PageQuestion(p.page, p.min), matches, cards) /\ p = Page("query", p.page, p.min, GoodEnough(cards))
    BY <2>2, <2>3, <2>4
  <2>6. PageOK(p)
    BY <2>2, <2>4, <2>5 DEF PageOK
  <2> QED BY <2>6 DEF p
<1>7. PageOK(last)'
  <2>1. \A p : PageOK(p)' <=> PageOK(p)
    BY <1>1, UnmovedPages
  <2>2. last' = last \/ last' = NoPage \/ (quiet /\ ask.q.page # 0 /\ last' = FoundPage)
    BY DEF ReturnsCards, ShowsPage
  <2>3. PageOK(last')
    BY <1>5, <1>6, <2>2 DEF RankInv
  <2> QED BY <2>1, <2>3
<1> QED BY <1>1, <1>3, <1>4, <1>7 DEF RankInv

LEMMA ListsPageKeeps ==
    ASSUME RankInv, NEW n \in 1..MaxPage, NEW min \in BOOLEAN, ListsPage(n, min)
    PROVE  RankInv'
<1>1. UNCHANGED world /\ UNCHANGED ghosts /\ ask' = ask /\ ask.at = "idle"
  BY DEF ListsPage
<1>2. PICK all \in Listed(min) : last' = Page("list", n, min, all)
  BY DEF ListsPage
<1>3. last'.page = n /\ last'.min = min
  BY <1>2 DEF Page
<1>4. n \in 0..MaxPage
  BY RankingAssumption
<1>5. PageOK(last')
  BY <1>2, <1>3, <1>4 DEF PageOK
<1>6. PageOK(last)'
  BY <1>1, <1>5, UnmovedPages
<1>7. RowsOK' /\ (AskOK(ask))'
  BY <1>1, Unmoved DEF RankInv
<1> QED BY <1>1, <1>6, <1>7 DEF RankInv

\* A write keeps the invariant, if it leaves rows and entries in order.
LEMMA ChangesKeep ==
    ASSUME RankInv, Changes, catalog' \subseteq Version, IsFiniteSet(catalog'),
           index' \subseteq Version, IsFiniteSet(index'),
           trusted' \subseteq catalog', trusted \cap catalog' \subseteq trusted'
    PROVE  RankInv'
<1>1. RowsOK'
  <2>1. met' = met \cup index' /\ IsFiniteSet(met) /\ IsFiniteSet(index')
    BY DEF RankInv, RowsOK, Changes
  <2>2. IsFiniteSet(met \cup index')
    BY <2>1, FS_Union
  <2>3. changes' \in 0..MaxChanges
    BY RankingAssumption DEF RankInv, RowsOK, Changes
  <2> QED BY <2>1, <2>2, <2>3 DEF RankInv, RowsOK, Changes
<1>2. AskOK(ask)'
  <2>1. ask' = ask
    BY DEF Changes
  <2>2. AskOK(ask) /\ RowsOK
    BY DEF RankInv
  <2>3. PICK a : a = ask
    OBVIOUS
  <2>4. AskOK(a)'
    BY <1>1, <2>2, <2>3, Moved
  <2> QED BY <2>1, <2>3, <2>4
<1>3. PageOK(last)' /\ last'.page = 0
  BY RankingAssumption DEF Changes, PageOK, NoPage
<1> QED BY <1>1, <1>2, <1>3 DEF RankInv

LEMMA WritesKeep ==
    ASSUME RankInv, NEW v \in Version, Publishes(v) \/ Unindexes(v) \/ Deletes(v) \/ Verifies(v)
    PROVE  RankInv'
<1>1. /\ catalog \subseteq Version /\ index \subseteq Version /\ trusted \subseteq catalog
      /\ IsFiniteSet(catalog) /\ IsFiniteSet(index)
  BY DEF RankInv, RowsOK
<1>2. IsFiniteSet(catalog \cup {v}) /\ IsFiniteSet(index \cup {v})
  BY <1>1, FS_AddElement
<1>3. \A S : S \subseteq index => IsFiniteSet(S)
  BY <1>1, FS_Subset
<1>4. \A S : S \subseteq catalog => IsFiniteSet(S)
  BY <1>1, FS_Subset
<1>5. \A S : S \subseteq index \cup {v} => IsFiniteSet(S)
  BY <1>2, FS_Subset
<1>6. CASE Publishes(v)
  <2>1. /\ catalog' = catalog \cup {v} /\ index' \subseteq index \cup {v} /\ trusted' = trusted /\ Changes
    BY <1>6 DEF Publishes
  <2> QED BY <1>1, <1>2, <1>5, <2>1, ChangesKeep
<1>7. CASE Unindexes(v)
  <2>1. catalog' = catalog /\ index' \subseteq index /\ trusted' = trusted /\ Changes
    BY <1>7 DEF Unindexes
  <2> QED BY <1>1, <1>3, <2>1, ChangesKeep
<1>8. CASE Deletes(v)
  <2>1. PICK gone : /\ catalog' = catalog \ gone /\ trusted' = trusted \ gone
                    /\ index' \subseteq index /\ Changes
    BY <1>8 DEF Deletes
  <2> QED BY <1>1, <1>3, <1>4, <2>1, ChangesKeep
<1>9. CASE Verifies(v)
  <2>1. catalog' = catalog /\ index' = index /\ trusted' = trusted \cup {v} /\ v \in catalog /\ Changes
    BY <1>9 DEF Verifies
  <2> QED BY <1>1, <2>1, ChangesKeep
<1> QED BY <1>6, <1>7, <1>8, <1>9

LEMMA RankInvNext == RankInv /\ [RankNext]_rankVars => RankInv'
<1> SUFFICES ASSUME RankInv, [RankNext]_rankVars PROVE RankInv'
  OBVIOUS
<1>1. ASSUME NEW q \in Question, Asks(q) PROVE RankInv'
  BY <1>1, AsksKeeps
<1>2. CASE QueriesMeta
  BY <1>2, QueriesMetaKeeps
<1>3. CASE QueriesBody
  BY <1>3, QueriesBodyKeeps
<1>4. CASE QueriesBoth
  BY <1>4, QueriesBothKeeps
<1>5. CASE Checks
  BY <1>5, ChecksKeeps
<1>6. CASE MakesCard
  BY <1>6, MakesCardKeeps
<1>7. CASE ReturnsCards \/ ShowsPage
  BY <1>7, AnswersKeeps
<1>8. ASSUME NEW n \in 1..MaxPage, NEW min \in BOOLEAN, ListsPage(n, min) PROVE RankInv'
  BY <1>8, ListsPageKeeps
<1>9. ASSUME NEW v \in Version, Publishes(v) \/ Unindexes(v) \/ Deletes(v) \/ Verifies(v) PROVE RankInv'
  BY <1>9, WritesKeep
<1>10. CASE UNCHANGED rankVars
  <2>1. UNCHANGED world /\ UNCHANGED ghosts /\ ask' = ask /\ last' = last
    BY <1>10 DEF rankVars
  <2>2. RowsOK' /\ (AskOK(ask))'
    BY <2>1, Unmoved DEF RankInv
  <2>3. PageOK(last)'
    BY <2>1, UnmovedPages DEF RankInv
  <2> QED BY <2>1, <2>2, <2>3 DEF RankInv, ghosts
<1> QED BY <1>1, <1>2, <1>3, <1>4, <1>5, <1>6, <1>7, <1>8, <1>9, <1>10 DEF RankNext

\* The inductive invariant of a search: what each stage of it has not lost, and what it
\* may show, while other processes write.
THEOREM RankInvHolds == RankSpec => []RankInv
<1> QED BY RankInvAtFirst, RankInvNext, PTL DEF RankSpec

-----------------------------------------------------------------------------
(***************************************************************************)
(* What a search promises.                                                 *)
(***************************************************************************)

LEMMA CardsOfMatches ==
    ASSUME NEW q, NEW matches \in Seq(Cards), NEW cards, CardsOK(q, matches, Len(matches), cards)
    PROVE  cards \in Seq(Cards) /\ Ordered(cards) /\ ToSet(cards) \subseteq ToSet(matches)
BY SetOfSeq DEF CardsOK

\* Rows, entries and cards are of their types, no row is trusted that is not there,
\* and a page has no more cards than a page holds.
THEOREM RankTypesHold == RankSpec => []RankTypeOK
<1>1. RankInv => RankTypeOK
  <2> SUFFICES ASSUME RankInv PROVE RankTypeOK
    OBVIOUS
  <2>1. ask.at = "cards" => ask.matches \in Seq(Cards) /\ ask.cards \in Seq(Cards) /\ Len(ask.matches) <= ask.q.limit
    BY DEF RankInv, AskOK, MatchesOK, CardsOK
  <2>2. ask.at = "answered" => ask.matches \in Seq(Cards) /\ ask.cards \in Seq(Cards) /\ Len(ask.matches) <= ask.q.limit
    BY DEF RankInv, AskOK, MatchesOK, CardsOK
  <2>3. ASSUME last.page # 0 PROVE Len(last.cards) <= PageSize
    <3>1. last.page \in Nat \ {0}
      BY <2>3, RankingAssumption DEF RankInv, PageOK
    <3>2. CASE \E all \in Listed(last.min) : last = Page("list", last.page, last.min, all)
      <4>1. PICK all \in Listed(last.min) : last = Page("list", last.page, last.min, all)
        BY <3>2
      <4>2. PICK D : IsFiniteSet(D) /\ all \in SetToSeqs(D)
        <5> DEFINE D == {v \in catalog : Current(v) /\ Standing(v) = "global"
                                         /\ (last.min => v \in trusted)}
        <5>1. all \in SetToSeqs(D)
          BY <4>1 DEF Listed
        <5>2. IsFiniteSet(D)
          <6>1. D \subseteq catalog /\ IsFiniteSet(catalog)
            BY DEF RankInv, RowsOK
          <6> HIDE DEF D
          <6> QED BY <6>1, FS_Subset
        <5> HIDE DEF D
        <5> QED BY <5>1, <5>2
      <4>3. all \in Seq(D)
        BY <4>2, Enumeration
      <4>4. Len(Slice(all, last.page)) <= PageSize
        BY <3>1, <4>3, SliceFacts
      <4>5. last.cards = Slice(all, last.page)
        BY <4>1 DEF Page
      <4> QED BY <4>4, <4>5
    <3>3. CASE \E matches, cards :
                  /\ Best(PageQuestion(last.page, last.min), matches, cards)
                  /\ last = Page("query", last.page, last.min, GoodEnough(cards))
      <4>1. PICK matches, cards :
                  /\ Best(PageQuestion(last.page, last.min), matches, cards)
                  /\ last = Page("query", last.page, last.min, GoodEnough(cards))
        BY <3>3
      <4>2. cards \in Seq(Cards) /\ Ordered(cards)
        BY <4>1 DEF Best
      <4>3. BestFirst(cards)
        BY <4>2, LenProperties DEF Ordered, BestFirst, Ahead
      <4>4. GoodEnough(cards) \in Seq(Cards)
        BY <4>2, <4>3, GoodEnoughFacts
      <4>5. Len(Slice(GoodEnough(cards), last.page)) <= PageSize
        BY <3>1, <4>4, SliceFacts
      <4>6. last.cards = Slice(GoodEnough(cards), last.page)
        BY <4>1 DEF Page
      <4> QED BY <4>5, <4>6
    <3> QED BY <2>3, <3>2, <3>3 DEF RankInv, PageOK
  <2> QED BY <2>1, <2>2, <2>3 DEF RankTypeOK, RankInv, RowsOK, AskOK, PageOK
<1> QED BY <1>1, RankInvHolds, PTL

\* Whatever is written between the statements of a search: the answer lists different
\* versions, best first, and each was in the store, had a row and was in scope.
THEOREM AnswersAreReadable == RankSpec => []AnswerIsReadable
<1>1. RankInv => AnswerIsReadable
  <2> SUFFICES ASSUME RankInv, ask.at = "answered"
               PROVE  /\ BestFirst(ask.cards)
                      /\ \A i, j \in DOMAIN ask.cards : i # j => ask.cards[i].v # ask.cards[j].v
                      /\ \A c \in ToSet(ask.cards) : c.v \in met \cap seen /\ Admits(ask.q.scope, c.v)
    BY DEF AnswerIsReadable
  <2> DEFINE q == ask.q
             matches == ask.matches
             cards == ask.cards
  <2>1. MatchesOK(q, matches) /\ CardsOK(q, matches, Len(matches), cards)
    BY DEF RankInv, AskOK
  <2> HIDE DEF q, matches, cards
  <2>2. matches \in Seq(Cards)
    BY <2>1 DEF MatchesOK
  <2>3. cards \in Seq(Cards) /\ Ordered(cards) /\ ToSet(cards) \subseteq ToSet(matches)
    BY <2>1, <2>2, CardsOfMatches
  <2>4. DOMAIN cards = 1..Len(cards) /\ Len(cards) \in Nat
    BY <2>3, LenProperties
  <2>5. BestFirst(cards)
    BY <2>3, <2>4 DEF Ordered, Ahead, BestFirst
  <2>6. \A i, j \in DOMAIN cards : i # j => cards[i].v # cards[j].v
    <3> SUFFICES ASSUME NEW i \in DOMAIN cards, NEW j \in DOMAIN cards, i # j
                 PROVE  cards[i].v # cards[j].v
      OBVIOUS
    <3>1. i < j \/ j < i
      BY <2>4
    <3> QED BY <2>3, <2>4, <3>1 DEF Ordered, Ahead
  <2>7. \A c \in ToSet(cards) : c.v \in met \cap seen /\ Admits(q.scope, c.v)
    BY <2>1, <2>3 DEF MatchesOK, Matched, Drawn
  <2> QED BY <2>5, <2>6, <2>7 DEF q, cards
<1> QED BY <1>1, RankInvHolds, PTL

\* If all the store holds is drawn: a version that could be found throughout a search is
\* in its answer, or as many matches as asked for, none of them worse, have taken its place.
THEOREM NothingBetterMissed == RankSpec => []NothingBetterIsMissed
<1>1. RankInv => NothingBetterIsMissed
  <2> SUFFICES ASSUME RankInv, ask.at = "answered", Fits(ask.q), NEW v \in steady
               PROVE  \/ \E c \in ToSet(ask.cards) : c.v = v
                      \/ /\ Len(ask.matches) = ask.q.limit
                         /\ \A c \in ToSet(ask.matches) : c.score >= FullScore(v)
    BY DEF NothingBetterIsMissed
  <2> DEFINE q == ask.q
             matches == ask.matches
             cards == ask.cards
  <2>1. AskedOK(q) /\ MatchesOK(q, matches) /\ CardsOK(q, matches, Len(matches), cards) /\ Fits(q)
    BY DEF RankInv, AskOK
  <2> HIDE DEF q, matches, cards
  <2>2. matches \in Seq(Cards)
    BY <2>1 DEF MatchesOK
  <2>3. v \in Kept(q)
    BY <2>1 DEF AskedOK, Findable, Sure, Kept
  <2>4. CASE Full(v) \in ToSet(matches)
    <3>1. PICK i \in 1..Len(matches) : matches[i] = Full(v)
      BY <2>2, <2>4, SetOfSeq
    <3>2. matches[i].v = v
      BY <3>1 DEF Full
    <3>3. matches[i] \in ToSet(cards)
      BY <2>1, <2>3, <3>2 DEF CardsOK
    <3> QED BY <3>2, <3>3 DEF cards
  <2>5. CASE Full(v) \notin ToSet(matches)
    <3>1. Len(matches) = q.limit /\ \A c \in ToSet(matches) : c.score >= FullScore(v)
      BY <2>1, <2>3, <2>5 DEF MatchesOK, Kept
    <3> QED BY <3>1 DEF q, matches
  <2> QED BY <2>4, <2>5
<1> QED BY <1>1, RankInvHolds, PTL

-----------------------------------------------------------------------------
(***************************************************************************)
(* Pages.                                                                  *)
(***************************************************************************)

NoTies == \A v, w \in index : v # w => FullScore(v) # FullScore(w)

NamesDiffer == \A s, t \in DOMAIN PlaceOf : s # t => PlaceOf[s] # PlaceOf[t]

\* A sequence of cards in order has each of them once.
LEMMA OrderedOnce ==
    ASSUME NEW s \in Seq(Cards), Ordered(s)
    PROVE  /\ Len(s) \in Nat /\ BestFirst(s)
           /\ \A i, j \in 1..Len(s) : i # j => s[i] # s[j]
           /\ IsFiniteSet(ToSet(s)) /\ Cardinality(ToSet(s)) = Len(s)
<1>1. Len(s) \in Nat /\ DOMAIN s = 1..Len(s)
  BY LenProperties
<1>2. \A i, j \in 1..Len(s) : i # j => s[i] # s[j]
  <2> SUFFICES ASSUME NEW i \in 1..Len(s), NEW j \in 1..Len(s), i # j PROVE s[i] # s[j]
    OBVIOUS
  <2>1. i < j \/ j < i
    BY <1>1
  <2> QED BY <2>1 DEF Ordered, Ahead
<1>3. \A x : x \in ToSet(s) <=> \E i \in 1..Len(s) : s[i] = x
  BY SetOfSeq
<1>4. IsFiniteSet(ToSet(s)) /\ Cardinality(ToSet(s)) = Len(s)
  BY <1>2, <1>3, SizeOfRange
<1>5. BestFirst(s)
  BY <1>1 DEF Ordered, Ahead, BestFirst
<1> QED BY <1>1, <1>2, <1>4, <1>5

\* Of two sequences, the one with all the cards of the other is as long, at least.
LEMMA LongerOne ==
    ASSUME NEW s \in Seq(Cards), Ordered(s), NEW t \in Seq(Cards), Ordered(t),
           ToSet(s) \subseteq ToSet(t)
    PROVE  Len(s) <= Len(t)
<1>1. IsFiniteSet(ToSet(t)) /\ Cardinality(ToSet(t)) = Len(t)
  BY OrderedOnce
<1>2. Cardinality(ToSet(s)) = Len(s)
  BY OrderedOnce
<1>3. Cardinality(ToSet(s)) <= Cardinality(ToSet(t))
  BY <1>1, FS_Subset
<1> QED BY <1>1, <1>2, <1>3

\* The matches and the cards for a page, and those for the one after it
InSuccession(n, min, m1, t1, m2, t2) ==
    /\ Best(PageQuestion(n, min), m1, t1)
    /\ Best(PageQuestion(n + 1, min), m2, t2)
    /\ Cardinality(Filtered(PageQuestion(n, min), index))
          <= Larger(Needed(n) * StoreFactor, StoreMin)

\* Of the same rows, the larger question adds cards behind those of the smaller one.
LEMMA MoreOfTheSame ==
    ASSUME RowsOK, NoTies, NEW n \in Nat \ {0}, NEW min \in BOOLEAN,
           NEW m1, NEW t1, NEW m2, NEW t2, InSuccession(n, min, m1, t1, m2, t2)
    PROVE  /\ m1 \in Seq(Cards) /\ Ordered(m1) /\ t1 \in Seq(Cards) /\ Ordered(t1)
           /\ m2 \in Seq(Cards) /\ Ordered(m2) /\ t2 \in Seq(Cards) /\ Ordered(t2)
           /\ \A i \in 1..Len(t1) : i <= Len(t2) /\ t1[i] = t2[i]
           /\ ~min => ToSet(t1) = ToSet(m1) /\ ToSet(t2) = ToSet(m2)
           /\ Len(m1) < Needed(n) => ToSet(m2) \subseteq ToSet(m1)
<1> DEFINE k1 == Needed(n)
           k2 == Needed(n + 1)
           q1 == PageQuestion(n, min)
           q2 == PageQuestion(n + 1, min)
<1>1. /\ k1 \in Nat /\ k2 \in Nat /\ k1 < k2
      /\ q1.limit = k1 /\ q2.limit = k2 /\ q1.min = min /\ q2.min = min
      /\ q1.scope = "global" /\ q2.scope = "global"
  <2>1. n * PageSize \in Nat /\ (n + 1 - 1) * PageSize = n * PageSize /\ PageSize \in Nat \ {0}
    BY PageBounds, RankingAssumption
  <2> DEFINE l == n + 1
  <2>2. l \in Nat \ {0} /\ l - 1 = n
    OBVIOUS
  <2> HIDE DEF l
  <2>3. l * PageSize \in Nat /\ l * PageSize = n * PageSize + PageSize
    BY <2>2, PageBounds
  <2>4. k2 = l * PageSize + 1 /\ k1 = n * PageSize + 1
    BY DEF Needed, l
  <2>5. k1 \in Nat /\ k2 \in Nat /\ k1 < k2
    BY <2>1, <2>3, <2>4
  <2> QED BY <2>5 DEF PageQuestion
<1>2. Here(q1) = Here(q2) /\ Filtered(q1, index) = Filtered(q2, index)
  BY <1>1 DEF Here, Filtered
<1> HIDE DEF k1, k2, q1, q2
<1>3. Cardinality(Filtered(q1, index)) <= Larger(k1 * StoreFactor, StoreMin)
  BY DEF k1, q1, InSuccession
<1>4. Cardinality(Filtered(q2, index)) <= Larger(k2 * StoreFactor, StoreMin)
  <2>1. Cardinality(Filtered(q1, index)) \in Nat
    <3>1. Filtered(q1, index) \subseteq index /\ IsFiniteSet(index)
      BY FilteredFacts DEF RowsOK
    <3>2. IsFiniteSet(Filtered(q1, index))
      BY <3>1, FS_Subset
    <3> QED BY <3>2, FS_CardinalityType
  <2>2. StoreFactor \in Nat /\ StoreMin \in Nat
    BY RankingAssumption
  <2>3. \A x, y, f \in Nat : x < y => x * f \in Nat /\ y * f \in Nat /\ x * f <= y * f
    <3> SUFFICES ASSUME NEW x \in Nat, NEW y \in Nat, NEW f \in Nat, x < y
                 PROVE  x * f \in Nat /\ y * f \in Nat /\ x * f <= y * f
      OBVIOUS
    <3>1. y - x \in Nat /\ y = x + (y - x)
      OBVIOUS
    <3>2. y * f = x * f + (y - x) * f /\ (y - x) * f \in Nat /\ x * f \in Nat
      BY <3>1
    <3> QED BY <3>2
  <2>4. k1 * StoreFactor \in Nat /\ k2 * StoreFactor \in Nat /\ k1 * StoreFactor <= k2 * StoreFactor
    BY <1>1, <2>2, <2>3
  <2> QED BY <1>2, <1>3, <2>1, <2>2, <2>4 DEF Larger
<1>5. Best(q1, m1, t1) /\ Best(q2, m2, t2)
  BY DEF q1, q2, InSuccession
<1>6. /\ m1 \in Seq(Cards) /\ Ordered(m1) /\ t1 \in Seq(Cards) /\ Ordered(t1) /\ Len(m1) <= k1
      /\ m2 \in Seq(Cards) /\ Ordered(m2) /\ t2 \in Seq(Cards) /\ Ordered(t2) /\ Len(m2) <= k2
  BY <1>1, <1>5 DEF Best
<1> DEFINE H == Here(q1)
<1>7. /\ \A c \in ToSet(m1) : c.v \in H /\ c.score = FullScore(c.v)
      /\ \A v \in H : \/ Full(v) \in ToSet(m1)
                      \/ Len(m1) = k1 /\ \A c \in ToSet(m1) : c.score >= FullScore(v)
      /\ \A c : c \in ToSet(t1) <=> c \in ToSet(m1) /\ (min => c.v \in trusted)
  BY <1>1, <1>3, <1>5 DEF Best
<1>8. /\ \A c \in ToSet(m2) : c.v \in H /\ c.score = FullScore(c.v)
      /\ \A v \in H : \/ Full(v) \in ToSet(m2)
                      \/ Len(m2) = k2 /\ \A c \in ToSet(m2) : c.score >= FullScore(v)
      /\ \A c : c \in ToSet(t2) <=> c \in ToSet(m2) /\ (min => c.v \in trusted)
  BY <1>1, <1>2, <1>4, <1>5 DEF Best
<1>9. \A v, w \in H : /\ FullScore(v) \in Nat
                      /\ v # w => FullScore(v) # FullScore(w)
  BY ScoreFacts DEF Here, NoTies, RowsOK
<1> HIDE DEF H
<1>10. \A c \in ToSet(m1) \cup ToSet(m2) : c = Full(c.v) /\ c.v \in H /\ c.score = FullScore(c.v) /\ c \in Cards
  <2>1. ToSet(m1) \subseteq Cards
    BY <1>6, SetOfSeq
  <2>2. ToSet(m2) \subseteq Cards
    BY <1>6, SetOfSeq
  <2> QED BY <1>7, <1>8, <2>1, <2>2 DEF Full, Cards
<1>11. Len(m1) \in Nat /\ Len(m2) \in Nat
  <2>1. Len(m1) \in Nat
    BY <1>6, LenProperties
  <2>2. Len(m2) \in Nat
    BY <1>6, LenProperties
  <2> QED BY <2>1, <2>2
\* What the larger question alone finds is worse than all the smaller one has found.
<1>12. ASSUME NEW c \in ToSet(m2), c \notin ToSet(m1)
       PROVE  Len(m1) = k1 /\ \A d \in ToSet(m1) : d.score > c.score
  <2>1. Full(c.v) \notin ToSet(m1) /\ c.v \in H /\ c.score = FullScore(c.v)
    BY <1>10, <1>12
  <2>2. Len(m1) = k1 /\ \A d \in ToSet(m1) : d.score >= FullScore(c.v)
    BY <1>7, <2>1
  <2>3. ASSUME NEW d \in ToSet(m1) PROVE d.score > c.score
    <3>1. d.v \in H /\ d.score = FullScore(d.v) /\ d = Full(d.v) /\ c = Full(c.v)
      BY <1>10
    <3>2. d.v # c.v
      BY <1>12, <3>1
    <3>3. d.score # c.score /\ d.score \in Nat /\ c.score \in Nat
      BY <1>9, <2>1, <3>1, <3>2
    <3> QED BY <2>1, <2>2, <3>3
  <2> QED BY <2>2, <2>3
\* It finds all that the smaller one has found.
<1>13. ASSUME NEW c \in ToSet(m1) PROVE c \in ToSet(m2)
  <2> SUFFICES ASSUME c \notin ToSet(m2) PROVE FALSE
    OBVIOUS
  <2>1. c = Full(c.v) /\ c.v \in H /\ c.score = FullScore(c.v)
    BY <1>10
  <2>2. Len(m2) = k2 /\ \A d \in ToSet(m2) : d.score >= c.score
    BY <1>8, <2>1
  <2>3. ToSet(m2) \subseteq ToSet(m1)
    <3> SUFFICES ASSUME NEW d \in ToSet(m2), d \notin ToSet(m1) PROVE FALSE
      OBVIOUS
    <3>1. c.score > d.score
      BY <1>12
    <3>2. c.score \in Nat /\ d.score \in Nat
      BY <1>9, <1>10
    <3> QED BY <2>2, <3>1, <3>2
  <2>4. Len(m2) <= Len(m1)
    BY <1>6, <2>3, LongerOne
  <2> QED BY <1>1, <1>6, <1>11, <2>2, <2>4
<1>14. \A i \in 1..Len(t1) : i <= Len(t2) /\ t1[i] = t2[i]
  <2> DEFINE R == {p \in Cards \X Cards : p[1].score > p[2].score}
  <2>1. \A x, y \in Cards : <<x, y>> \in R <=> x.score > y.score
    OBVIOUS
  <2>2. \A x \in Cards : x.score \in Nat
    BY DEF Cards
  <2> HIDE DEF R
  <2>3. \A x : x \in ToSet(t1) <=> \E i \in 1..Len(t1) : t1[i] = x
    BY <1>6, SetOfSeq
  <2>4. \A x : x \in ToSet(t2) <=> \E i \in 1..Len(t2) : t2[i] = x
    BY <1>6, SetOfSeq
  <2>5. ToSet(t1) \subseteq ToSet(m1) /\ ToSet(t2) \subseteq ToSet(m2) /\ ToSet(t1) \subseteq ToSet(t2)
    BY <1>7, <1>8, <1>13
  <2>6. ASSUME NEW c \in ToSet(t2), c \notin ToSet(t1), NEW d \in ToSet(t1) PROVE <<d, c>> \in R
    <3>1. c \in ToSet(m2) /\ c \notin ToSet(m1) /\ d \in ToSet(m1)
      BY <1>7, <1>8, <2>6
    <3>2. d.score > c.score
      BY <1>12, <3>1
    <3> QED BY <1>10, <2>1, <3>1, <3>2
  <2>7. ASSUME NEW c \in ToSet(m2), NEW d \in ToSet(m2), Ahead(c, d) PROVE <<c, d>> \in R
    <3>1. /\ c.v \in H /\ d.v \in H /\ c.score = FullScore(c.v) /\ d.score = FullScore(d.v)
          /\ c \in Cards /\ d \in Cards
      BY <1>10
    <3>2. c.score # d.score
      BY <1>9, <2>7, <3>1 DEF Ahead
    <3>3. c.score > d.score
      BY <2>2, <2>7, <3>1, <3>2 DEF Ahead
    <3> QED BY <2>1, <3>1, <3>3
  <2>8. InOrder(t1, R)
    BY <1>6, <2>3, <2>4, <2>5, <2>7 DEF Ordered, InOrder
  <2>9. InOrder(t2, R)
    BY <1>6, <2>4, <2>5, <2>7 DEF Ordered, InOrder
  <2>10. Strict(Cards, R)
    BY <2>1, <2>2 DEF Strict
  <2>11. \A i \in 1..Len(t1) : \E j \in 1..Len(t2) : t1[i] = t2[j]
    BY <2>3, <2>4, <2>5
  <2>12. \A j \in 1..Len(t2) : \/ \E i \in 1..Len(t1) : t1[i] = t2[j]
                               \/ \A i \in 1..Len(t1) : <<t1[i], t2[j]>> \in R
    <3> SUFFICES ASSUME NEW j \in 1..Len(t2), ~\E i \in 1..Len(t1) : t1[i] = t2[j],
                        NEW i \in 1..Len(t1)
                 PROVE  <<t1[i], t2[j]>> \in R
      OBVIOUS
    <3>1. t2[j] \in ToSet(t2) /\ t2[j] \notin ToSet(t1) /\ t1[i] \in ToSet(t1)
      BY <2>3, <2>4
    <3> QED BY <2>6, <3>1
  <2>13. t1 \in Seq(Cards) /\ t2 \in Seq(Cards)
    BY <1>6
  <2>14. FirstOf(t1, t2, R)
    BY <2>11, <2>12 DEF FirstOf
  <2> QED BY <2>8, <2>9, <2>10, <2>13, <2>14, FirstOnes
<1>15. ~min => ToSet(t1) = ToSet(m1) /\ ToSet(t2) = ToSet(m2)
  BY <1>7, <1>8
<1>16. Len(m1) < k1 => ToSet(m2) \subseteq ToSet(m1)
  <2> SUFFICES ASSUME Len(m1) < k1, NEW c \in ToSet(m2), c \notin ToSet(m1) PROVE FALSE
    OBVIOUS
  <2>1. Len(m1) = k1
    BY <1>12
  <2> QED BY <1>1, <1>11, <2>1
<1> QED BY <1>6, <1>14, <1>15, <1>16 DEF k1

\* Two pages of what a query finds
LEMMA QueryPages ==
    ASSUME RowsOK, NoTies, NEW n \in Nat \ {0}, NEW min \in BOOLEAN,
           NEW m1, NEW t1, NEW m2, NEW t2, InSuccession(n, min, m1, t1, m2, t2)
    PROVE  Continues(Page("query", n, min, GoodEnough(t1)), Page("query", n + 1, min, GoodEnough(t2)))
<1> DEFINE s1 == GoodEnough(t1)
           s2 == GoodEnough(t2)
           b == n * PageSize
<1>1. /\ m1 \in Seq(Cards) /\ Ordered(m1) /\ t1 \in Seq(Cards) /\ Ordered(t1)
      /\ m2 \in Seq(Cards) /\ Ordered(m2) /\ t2 \in Seq(Cards) /\ Ordered(t2)
      /\ \A i \in 1..Len(t1) : i <= Len(t2) /\ t1[i] = t2[i]
      /\ ~min => ToSet(t1) = ToSet(m1) /\ ToSet(t2) = ToSet(m2)
      /\ Len(m1) < Needed(n) => ToSet(m2) \subseteq ToSet(m1)
  BY MoreOfTheSame
<1>2. Len(t1) \in Nat /\ BestFirst(t1)
  BY <1>1, OrderedOnce
<1>3. /\ Len(t2) \in Nat /\ BestFirst(t2) /\ \A i, j \in 1..Len(t2) : i # j => t2[i] # t2[j]
  BY <1>1, OrderedOnce
<1>4. /\ s1 \in Seq(Cards) /\ Len(s1) <= Len(t1) /\ \A i \in 1..Len(s1) : s1[i] = t1[i]
      /\ \A i \in 1..Len(t1) : t1[i].score >= MinScore <=> i <= Len(s1)
  BY <1>1, <1>2, GoodEnoughFacts
<1>5. /\ s2 \in Seq(Cards) /\ Len(s2) <= Len(t2) /\ \A i \in 1..Len(s2) : s2[i] = t2[i]
      /\ \A i \in 1..Len(t2) : t2[i].score >= MinScore <=> i <= Len(s2)
  BY <1>1, <1>3, GoodEnoughFacts
<1>6. b \in Nat /\ Needed(n) = b + 1
  BY PageBounds DEF Needed
<1> HIDE DEF s1, s2, b
<1>7. Len(s1) \in Nat /\ Len(s2) \in Nat
  <2>1. Len(s1) \in Nat
    BY <1>4, LenProperties
  <2>2. Len(s2) \in Nat
    BY <1>5, LenProperties
  <2> QED BY <2>1, <2>2
<1>8. \A i \in 1..Len(s1) : i <= Len(s2) /\ s1[i] = s2[i]
  <2> SUFFICES ASSUME NEW i \in 1..Len(s1) PROVE i <= Len(s2) /\ s1[i] = s2[i]
    OBVIOUS
  <2>1. i \in 1..Len(t1) /\ i \in 1..Len(t2) /\ t1[i] = t2[i] /\ t1[i].score >= MinScore
    BY <1>1, <1>2, <1>3, <1>4, <1>7
  <2>2. i <= Len(s2)
    BY <1>5, <2>1
  <2>3. i \in 1..Len(s2)
    BY <1>7, <2>2
  <2> QED BY <1>4, <1>5, <2>1, <2>2, <2>3
<1>9. \A i, j \in 1..Len(s2) : i # j => s2[i] # s2[j]
  BY <1>3, <1>5, <1>7
<1>10. /\ ToSet(Slice(s1, n)) \cap ToSet(Slice(s2, n + 1)) = {}
       /\ b < Len(s1) => Slice(s2, n + 1) # <<>>
       /\ Slice(s2, n + 1) # <<>> => b < Len(s2)
  BY <1>4, <1>5, <1>8, <1>9, SlicesAgree DEF b
\* Without a min_trust, what ends the first page ends the second one.
<1>11. ASSUME ~min, b < Len(s2) PROVE b < Len(s1)
  <2> SUFFICES ASSUME Len(s1) <= b PROVE FALSE
    BY <1>6, <1>7
  <2> DEFINE i == Len(s1) + 1
  <2>1. i \in Nat /\ i \in 1..Len(s2) /\ i \in 1..Len(t2) /\ i > Len(s1)
    BY <1>3, <1>5, <1>6, <1>7, <1>11
  <2> HIDE DEF i
  <2>2. i \notin 1..Len(t1)
    <3> SUFFICES ASSUME i \in 1..Len(t1) PROVE FALSE
      OBVIOUS
    <3>1. t1[i] = t2[i]
      BY <1>1
    <3>2. t2[i].score >= MinScore
      BY <1>5, <1>7, <2>1
    <3>3. i <= Len(s1)
      BY <1>4, <3>1, <3>2
    <3> QED BY <1>7, <2>1, <3>3
  <2>3. Len(t1) < i
    BY <1>2, <2>1, <2>2
  <2>4. ToSet(m1) = ToSet(t1) /\ ToSet(m2) = ToSet(t2)
    BY <1>1, <1>11
  <2>5. Len(m1) <= Len(t1)
    BY <1>1, <2>4, LongerOne
  <2>6. Len(m1) \in Nat
    BY <1>1, LenProperties
  <2>7. Len(m1) < Needed(n)
    BY <1>2, <1>6, <1>7, <2>3, <2>5, <2>6 DEF i
  <2>8. ToSet(t2) \subseteq ToSet(t1)
    BY <1>1, <2>4, <2>7
  <2>9. Len(t2) <= Len(t1)
    BY <1>1, <2>8, LongerOne
  <2> QED BY <1>2, <1>3, <2>1, <2>3, <2>9
<1>12. /\ Page("query", n, min, s1).cards = Slice(s1, n) /\ Page("query", n, min, s1).more = (b < Len(s1))
       /\ Page("query", n, min, s1).kind = "query" /\ Page("query", n, min, s1).min = min
       /\ Page("query", n + 1, min, s2).cards = Slice(s2, n + 1)
  BY DEF Page, b
<1>13. Continues(Page("query", n, min, s1), Page("query", n + 1, min, s2))
  BY <1>10, <1>11, <1>12 DEF Continues
<1> QED BY <1>13 DEF s1, s2

\* Two pages of the list: there is one order only to list it in.
LEMMA ListPages ==
    ASSUME RowsOK, NamesDiffer, NEW n \in Nat \ {0}, NEW min \in BOOLEAN,
           NEW s \in Listed(min), NEW t \in Listed(min)
    PROVE  Continues(Page("list", n, min, s), Page("list", n + 1, min, t))
<1> DEFINE D == {v \in catalog : Current(v) /\ Standing(v) = "global" /\ (min => v \in trusted)}
           R == {p \in Version \X Version : PlaceOf[p[1][1]] < PlaceOf[p[2][1]]}
           b == n * PageSize
<1>1. IsFiniteSet(D)
  <2>1. D \subseteq catalog /\ IsFiniteSet(catalog)
    BY DEF RowsOK
  <2> HIDE DEF D
  <2> QED BY <2>1, FS_Subset
<1>2. \A x, y \in Version : <<x, y>> \in R <=> PlaceOf[x[1]] < PlaceOf[y[1]]
  OBVIOUS
<1>3. \A x \in Version : /\ x[1] \in DOMAIN PlaceOf /\ PlaceOf[x[1]] \in Nat /\ x[2] \in Nat
                         /\ x = <<x[1], x[2]>>
  BY RankingAssumption
<1>4. D \subseteq Version /\ \A x, y \in D : x[1] = y[1] => x = y
  <2>1. D \subseteq Version
    BY DEF RowsOK
  <2>2. ASSUME NEW x \in D, NEW y \in D, x[1] = y[1] PROVE x = y
    <3>1. x[2] <= y[2] /\ y[2] <= x[2]
      BY <2>2 DEF Current
    <3>2. x[2] = y[2]
      BY <1>3, <2>1, <3>1
    <3> QED BY <1>3, <2>1, <2>2, <3>2
  <2> QED BY <2>1, <2>2
<1>5. \A x, y \in D : x # y => PlaceOf[x[1]] # PlaceOf[y[1]]
  BY <1>3, <1>4 DEF NamesDiffer
<1>6. /\ s \in SetToSeqs(D) /\ \A i, j \in DOMAIN s : i < j => PlaceOf[s[i][1]] <= PlaceOf[s[j][1]]
      /\ t \in SetToSeqs(D) /\ \A i, j \in DOMAIN t : i < j => PlaceOf[t[i][1]] <= PlaceOf[t[j][1]]
  BY DEF Listed
<1>7. b \in Nat
  BY PageBounds
<1> HIDE DEF D, R, b
<1>8. \A f : f \in SetToSeqs(D) =>
             /\ f \in Seq(D) /\ Len(f) = Cardinality(D)
             /\ \A x \in D : \E i \in 1..Len(f) : f[i] = x
             /\ \A i, j \in 1..Len(f) : i # j => f[i] # f[j]
  BY <1>1, Enumeration
<1>9. ASSUME NEW f \in SetToSeqs(D), \A i, j \in DOMAIN f : i < j => PlaceOf[f[i][1]] <= PlaceOf[f[j][1]]
      PROVE  InOrder(f, R)
  <2>1. f \in Seq(D) /\ \A i, j \in 1..Len(f) : i # j => f[i] # f[j]
    BY <1>8
  <2>2. Len(f) \in Nat /\ DOMAIN f = 1..Len(f)
    BY <2>1, LenProperties
  <2>3. \A i \in 1..Len(f) : f[i] \in D
    BY <2>1, ElementOfSeq
  <2> SUFFICES ASSUME NEW i \in 1..Len(f), NEW j \in 1..Len(f), i < j PROVE <<f[i], f[j]>> \in R
    BY DEF InOrder
  <2>4. f[i] \in D /\ f[j] \in D /\ f[i] # f[j] /\ PlaceOf[f[i][1]] <= PlaceOf[f[j][1]]
    BY <1>9, <2>1, <2>2, <2>3
  <2>5. PlaceOf[f[i][1]] \in Nat /\ PlaceOf[f[j][1]] \in Nat /\ PlaceOf[f[i][1]] # PlaceOf[f[j][1]]
    BY <1>3, <1>4, <1>5, <2>4
  <2>6. PlaceOf[f[i][1]] < PlaceOf[f[j][1]]
    BY <2>4, <2>5
  <2> QED BY <1>2, <1>4, <2>4, <2>6
<1>10. InOrder(s, R) /\ InOrder(t, R)
  BY <1>6, <1>9
<1>11. Strict(D, R)
  <2> SUFFICES ASSUME NEW x \in D, NEW y \in D, <<x, y>> \in R PROVE <<y, x>> \notin R
    BY DEF Strict
  <2>1. x \in Version /\ y \in Version /\ PlaceOf[x[1]] \in Nat /\ PlaceOf[y[1]] \in Nat
    BY <1>3, <1>4
  <2> QED BY <1>2, <2>1
<1>12. s \in Seq(D) /\ t \in Seq(D) /\ Len(s) = Len(t) /\ \A i, j \in 1..Len(t) : i # j => t[i] # t[j]
  BY <1>6, <1>8
<1>13. FirstOf(s, t, R)
  <2>1. \A i \in 1..Len(s) : s[i] \in D
    BY <1>12, ElementOfSeq
  <2>2. \A i \in 1..Len(t) : t[i] \in D
    BY <1>12, ElementOfSeq
  <2> QED BY <1>6, <1>8, <2>1, <2>2 DEF FirstOf
<1>14. \A i \in 1..Len(s) : i <= Len(t) /\ s[i] = t[i]
  BY <1>10, <1>11, <1>12, <1>13, FirstOnes
<1>15. /\ ToSet(Slice(s, n)) \cap ToSet(Slice(t, n + 1)) = {}
       /\ b < Len(s) => Slice(t, n + 1) # <<>>
       /\ Slice(t, n + 1) # <<>> => b < Len(t)
  BY <1>12, <1>14, SlicesAgree DEF b
<1>16. /\ Page("list", n, min, s).cards = Slice(s, n) /\ Page("list", n, min, s).more = (b < Len(s))
       /\ Page("list", n + 1, min, t).cards = Slice(t, n + 1)
  BY DEF Page, b
<1> QED BY <1>12, <1>15, <1>16 DEF Continues

\* Two pages that are read one after the other, while nothing changes, share no card,
\* and the first links to the second if that has cards (and, unless a query comes with a
\* min_trust, only if): with a query whose candidates fit and no two scores alike, and
\* without one, if no two names are.
THEOREM PagesFit == RankSpec => []PagesAgree
<1>1. RankInv => PagesAgree
  <2> SUFFICES ASSUME RankInv PROVE PagesAgree
    OBVIOUS
  <2>1. last.page \in 0..MaxPage /\ MaxPage \in Nat
    BY RankingAssumption DEF RankInv, PageOK
  <2>2. last.page # 0 => last.page \in Nat \ {0}
    BY <2>1
  <2>3. ASSUME ask.at = "answered", ask.q.page # 0, last.page # 0, last.kind = FoundPage.kind,
               last.min = FoundPage.min, FoundPage.page = last.page + 1,
               Fits(PageQuestion(last.page, last.min)), NoTies
        PROVE  Continues(last, FoundPage)
    <3> DEFINE n == last.page
               min == last.min
    <3>1. FoundPage.kind = "query" /\ FoundPage.page = ask.q.page /\ FoundPage.min = ask.q.min
      BY DEF FoundPage, Page
    <3>2. quiet /\ AskedOK(ask.q)
      BY <2>3 DEF RankInv, AskOK
    <3>3. Best(ask.q, ask.matches, ask.cards)
      BY <2>3, <3>2, QuietAnswer
    <3>4. ask.q = PageQuestion(n + 1, min)
      BY <2>3, <3>1, <3>2, QuestionFacts DEF AskedOK
    <3>5. PICK m, t : /\ Best(PageQuestion(n, min), m, t)
                      /\ last = Page("query", n, min, GoodEnough(t))
      <4>1. last.kind # "list"
        BY <2>3, <3>1
      <4>2. \A all : last # Page("list", last.page, last.min, all)
        BY <4>1 DEF Page
      <4> QED BY <2>3, <4>2 DEF RankInv, PageOK
    <3>6. min \in BOOLEAN /\ n \in Nat \ {0}
      BY <2>2, <2>3 DEF RankInv, PageOK
    <3>7. Cardinality(Filtered(PageQuestion(n, min), index)) <= Larger(Needed(n) * StoreFactor, StoreMin)
      <4>1. met = index
        BY <3>2 DEF AskedOK
      <4>2. PageQuestion(n, min).limit = Needed(n)
        BY DEF PageQuestion
      <4> QED BY <2>3, <4>1, <4>2 DEF Fits
    <3>8. RowsOK
      BY DEF RankInv
    <3>9. FoundPage = Page("query", n + 1, min, GoodEnough(ask.cards))
      BY <2>3, <3>1 DEF FoundPage
    <3> DEFINE m2 == ask.matches
               t2 == ask.cards
    <3>10. Best(PageQuestion(n + 1, min), m2, t2)
      BY <3>3, <3>4
    <3>11. FoundPage = Page("query", n + 1, min, GoodEnough(t2))
      BY <3>9
    <3> HIDE DEF n, min, m2, t2
    <3>12. InSuccession(n, min, m, t, m2, t2)
      BY <3>5, <3>7, <3>10 DEF InSuccession
    <3>13. Continues(Page("query", n, min, GoodEnough(t)), Page("query", n + 1, min, GoodEnough(t2)))
      BY <2>3, <3>6, <3>8, <3>12, QueryPages
    <3> QED BY <3>5, <3>11, <3>13
  <2>4. ASSUME NamesDiffer, NEW n \in 1..MaxPage, NEW min \in BOOLEAN, NEW all \in Listed(min),
               last.page # 0, last.kind = "list", last.min = min, n = last.page + 1
        PROVE  Continues(last, Page("list", n, min, all))
    <3>1. PICK s \in Listed(last.min) : last = Page("list", last.page, last.min, s)
      <4>1. \A cards : last # Page("query", last.page, last.min, GoodEnough(cards))
        BY <2>4 DEF Page
      <4> QED BY <2>4, <4>1 DEF RankInv, PageOK
    <3> DEFINE m == last.page
    <3>2. m \in Nat \ {0} /\ n = m + 1 /\ RowsOK
      BY <2>2, <2>4 DEF RankInv
    <3>3. s \in Listed(min) /\ last = Page("list", m, min, s)
      BY <2>4, <3>1
    <3> HIDE DEF m
    <3>4. Continues(Page("list", m, min, s), Page("list", m + 1, min, all))
      BY <2>4, <3>2, <3>3, ListPages
    <3> QED BY <3>2, <3>3, <3>4
  <2>5. \A n, min, all : /\ Page("list", n, min, all).kind = "list" /\ Page("list", n, min, all).page = n
                         /\ Page("list", n, min, all).min = min
    BY DEF Page
  <2> QED BY <2>3, <2>4, <2>5 DEF PagesAgree, NoTies, NamesDiffer
<1> QED BY <1>1, RankInvHolds, PTL
=============================================================================
