---------------------------- MODULE ArraysProofs ----------------------------
(***************************************************************************)
(* What the functions on arrays return, for arrays of every length.        *)
(***************************************************************************)
EXTENDS Arrays, TLAPS, FiniteSetTheorems, WellFoundedInduction

-----------------------------------------------------------------------------
\* Filtered sequences.

\* A set of numbers has a least one.
LEMMA NatLeast ==
  ASSUME NEW T \in SUBSET Nat, T # {}
  PROVE  \E n \in T : \A m \in T : n <= m
<1>1. PICK n \in T : \A m \in T : ~(<<m, n>> \in OpToRel(<, Nat))
  BY NatLessThanWellFounded, WFMin
<1>2. \A m \in T : ~(m < n)
  BY <1>1 DEF OpToRel
<1> QED BY <1>2

\* A set of numbers that has 0, and with each number the next one, has all.
LEMMA NatSetInduction ==
  ASSUME NEW S \in SUBSET Nat, 0 \in S, \A n \in S : n + 1 \in S
  PROVE  S = Nat
<1> SUFFICES ASSUME Nat \ S # {}
             PROVE  FALSE
  OBVIOUS
<1>1. PICK n \in Nat \ S : \A m \in Nat \ S : n <= m
  BY NatLeast
<1>2. n - 1 \in S
  BY <1>1
<1> QED BY <1>1, <1>2

\* How many elements of T there are among the first i: at most i.
LEMMA UntilType ==
  ASSUME NEW s, NEW T, NEW i \in Nat
  PROVE  /\ IsFiniteSet({j \in 1..i : s[j] \in T})
         /\ Until(s, T, i) \in Nat
         /\ Until(s, T, i) <= i
<1> DEFINE P == {j \in 1..i : s[j] \in T}
<1>1. IsFiniteSet(1..i) /\ Cardinality(1..i) = i /\ P \subseteq 1..i
  BY FS_Interval
<1>2. IsFiniteSet(P) /\ Cardinality(P) \in Nat /\ Cardinality(P) <= i
  <2> HIDE DEF P
  <2> QED BY <1>1, FS_Subset, FS_CardinalityType
<1> QED BY <1>2 DEF Until

\* One more place counts one element more, or none.
LEMMA UntilStep ==
  ASSUME NEW s, NEW T, NEW i \in Nat \ {0}
  PROVE  Until(s, T, i) = IF s[i] \in T THEN Until(s, T, i - 1) + 1
                          ELSE Until(s, T, i - 1)
<1> DEFINE P(n) == {j \in 1..n : s[j] \in T}
<1>1. IsFiniteSet(P(i - 1))
  <2>1. i - 1 \in Nat
    OBVIOUS
  <2> QED BY <2>1, UntilType
<1>2. i \notin P(i - 1)
  OBVIOUS
<1>3. P(i) = IF s[i] \in T THEN P(i - 1) \cup {i} ELSE P(i - 1)
  <2>1. \A j \in Int : j \in 1..i <=> j \in 1..(i - 1) \/ j = i
    OBVIOUS
  <2> QED BY <2>1
<1> HIDE DEF P
<1>4. Cardinality(P(i - 1) \cup {i}) = Cardinality(P(i - 1)) + 1
  BY <1>1, <1>2, FS_AddElement
<1> QED BY <1>3, <1>4 DEF Until, P

\* At a place with an element of T the count is higher than before it.
LEMMA UntilGrows ==
  ASSUME NEW s, NEW T, NEW i \in Nat, NEW j \in Nat, i < j, s[j] \in T
  PROVE  Until(s, T, i) < Until(s, T, j)
<1> DEFINE P(n) == {k \in 1..n : s[k] \in T}
<1>1. P(i) \subseteq P(j) /\ P(i) # P(j)
  <2>1. j \in P(j) /\ j \notin P(i)
    OBVIOUS
  <2>2. P(i) \subseteq P(j)
    OBVIOUS
  <2> QED BY <2>1, <2>2
<1>2. IsFiniteSet(P(j))
  BY UntilType
<1>3. Cardinality(P(i)) < Cardinality(P(j))
  <2> HIDE DEF P
  <2> QED BY <1>1, <1>2, FS_Subset, FS_CardinalityType
<1> QED BY <1>3 DEF Until

\* The count never falls.
LEMMA UntilMonotone ==
  ASSUME NEW s, NEW T, NEW i \in Nat, NEW j \in Nat, i <= j
  PROVE  Until(s, T, i) <= Until(s, T, j)
<1> DEFINE P(n) == {k \in 1..n : s[k] \in T}
<1>1. P(i) \subseteq P(j)
  OBVIOUS
<1>2. IsFiniteSet(P(j))
  BY UntilType
<1>3. Cardinality(P(i)) <= Cardinality(P(j))
  <2> HIDE DEF P
  <2> QED BY <1>1, <1>2, FS_Subset, FS_CardinalityType
<1> QED BY <1>3 DEF Until

\* Each element of the filtered sequence comes from a place of the other.
LEMMA OnlyPlace ==
  ASSUME NEW S, NEW s \in Seq(S), NEW T, NEW k \in DOMAIN Only(s, T)
  PROVE  \E i \in DOMAIN s : /\ s[i] \in T /\ Until(s, T, i) = k
                             /\ Only(s, T)[k] = s[i]
<1> DEFINE N == {n \in 0..Len(s) : k <= Until(s, T, n)}
<1>0. Len(s) \in Nat /\ DOMAIN s = 1..Len(s)
  OBVIOUS
<1>1. k \in 1..Until(s, T, Len(s)) /\ k \in Nat
  BY <1>0, UntilType DEF Only
<1>2. Len(s) \in N /\ N \in SUBSET Nat
  BY <1>0, <1>1, UntilType
<1>3. PICK n \in N : \A m \in N : n <= m
  BY <1>2, NatLeast
<1>4. n # 0
  <2>1. 0 \in Nat /\ Until(s, T, 0) \in Nat /\ Until(s, T, 0) <= 0
    BY UntilType
  <2>2. ~(k <= Until(s, T, 0))
    BY <1>1, <2>1
  <2> QED BY <1>3, <2>2
<1>5. n - 1 \in Nat /\ n - 1 \in 0..Len(s) /\ ~(k <= Until(s, T, n - 1))
  BY <1>0, <1>3, <1>4
<1>6. /\ Until(s, T, n - 1) \in Nat
      /\ Until(s, T, n) = IF s[n] \in T THEN Until(s, T, n - 1) + 1
                          ELSE Until(s, T, n - 1)
  <2>1. n \in Nat \ {0}
    BY <1>2, <1>4
  <2>2. Until(s, T, n - 1) \in Nat
    BY <1>5, UntilType
  <2> QED BY <2>1, <2>2, UntilStep
<1>7. n \in DOMAIN s /\ s[n] \in T /\ Until(s, T, n) = k
  BY <1>0, <1>1, <1>3, <1>4, <1>5, <1>6
<1> QED BY <1>1, <1>7 DEF Only

\* Array.filter returns a sequence of those elements that are in T, all of
\* them and no other, and no longer than the one filtered.
LEMMA OnlyFacts ==
  ASSUME NEW S, NEW s \in Seq(S), NEW T
  PROVE  /\ Only(s, T) \in Seq(S \cap T)
         /\ Len(Only(s, T)) \in Nat /\ Len(Only(s, T)) <= Len(s)
         /\ DOMAIN Only(s, T) = 1..Len(Only(s, T))
         /\ Range(Only(s, T)) = Range(s) \cap T
<1>1. Len(s) \in Nat /\ DOMAIN s = 1..Len(s) /\ \A i \in DOMAIN s : s[i] \in S
  OBVIOUS
<1>2. Until(s, T, Len(s)) \in Nat /\ Until(s, T, Len(s)) <= Len(s)
  BY <1>1, UntilType
<1>3. DOMAIN Only(s, T) = 1..Until(s, T, Len(s))
  BY DEF Only
<1>4. \A k \in DOMAIN Only(s, T) : /\ Only(s, T)[k] \in S \cap T
                                   /\ Only(s, T)[k] \in Range(s)
  BY <1>1, OnlyPlace DEF Range
<1>5. Only(s, T) \in [1..Until(s, T, Len(s)) -> S \cap T]
  BY <1>3, <1>4 DEF Only
<1>6. Only(s, T) \in Seq(S \cap T) /\ Len(Only(s, T)) = Until(s, T, Len(s))
  BY <1>2, <1>5
<1>7. ASSUME NEW i \in DOMAIN s, s[i] \in T
      PROVE  s[i] \in Range(Only(s, T))
  <2>1. i \in Nat /\ i - 1 \in Nat /\ (i - 1) + 1 = i /\ i <= Len(s)
    BY <1>1
  <2>2. Until(s, T, i - 1) \in Nat /\ Until(s, T, i) = Until(s, T, i - 1) + 1
    <3>1. i \in Nat \ {0}
      BY <2>1
    <3>2. Until(s, T, i - 1) \in Nat
      BY <2>1, UntilType
    <3> QED BY <1>7, <3>1, <3>2, UntilStep
  <2>3. Until(s, T, i) <= Until(s, T, Len(s))
    BY <1>1, <2>1, UntilMonotone
  <2>4. Until(s, T, i) \in DOMAIN Only(s, T)
    BY <1>2, <1>3, <2>2, <2>3
  <2>5. PICK j \in DOMAIN s : /\ s[j] \in T /\ Until(s, T, j) = Until(s, T, i)
                              /\ Only(s, T)[Until(s, T, i)] = s[j]
    BY <2>4, OnlyPlace
  <2>6. i = j
    BY <1>1, <1>7, <2>2, <2>5, UntilGrows
  <2> QED BY <2>4, <2>5, <2>6 DEF Range
<1> QED BY <1>2, <1>3, <1>4, <1>6, <1>7 DEF Range

\* Elements at two places come from two places.
LEMMA OnlyApart ==
  ASSUME NEW S, NEW s \in Seq(S), NEW T,
         NEW k \in DOMAIN Only(s, T), NEW l \in DOMAIN Only(s, T), k # l
  PROVE  \E i, j \in DOMAIN s :
           i # j /\ Only(s, T)[k] = s[i] /\ Only(s, T)[l] = s[j]
BY OnlyPlace

\* No element occurs twice; no two rows have the same id.
Distinct(s) == \A i, j \in DOMAIN s : s[i] = s[j] => i = j
OneRowEach(rs) == \A i, j \in DOMAIN rs : rs[i].id = rs[j].id => i = j

\* Filtering repeats nothing: what occurs once still does.
LEMMA OnlyDistinct ==
  ASSUME NEW S, NEW s \in Seq(S), NEW T
  PROVE  /\ Distinct(s) => Distinct(Only(s, T))
         /\ OneRowEach(s) => OneRowEach(Only(s, T))
<1>1. ASSUME NEW k \in DOMAIN Only(s, T), NEW l \in DOMAIN Only(s, T), k # l
      PROVE  \E i, j \in DOMAIN s :
               i # j /\ Only(s, T)[k] = s[i] /\ Only(s, T)[l] = s[j]
  BY <1>1, OnlyApart
<1>2. Distinct(s) => Distinct(Only(s, T))
  BY <1>1 DEF Distinct
<1>3. OneRowEach(s) => OneRowEach(Only(s, T))
  BY <1>1 DEF OneRowEach
<1> QED BY <1>2, <1>3

-----------------------------------------------------------------------------
\* Sequences.

\* A non-empty sequence has a first element.
LEMMA SeqFacts ==
  ASSUME NEW S, NEW s \in Seq(S)
  PROVE  /\ s # <<>> <=> Range(s) # {}
         /\ s # <<>> => Head(s) \in Range(s) /\ Head(s) \in S
         /\ Range(s) \subseteq S /\ s \in Seq(Range(s))
         /\ Len(s) \in Nat /\ DOMAIN s = 1..Len(s)
<1>1. Len(s) \in Nat /\ DOMAIN s = 1..Len(s) /\ \A i \in DOMAIN s : s[i] \in S
  OBVIOUS
<1>2. s = <<>> <=> Len(s) = 0
  OBVIOUS
<1>3. ASSUME s # <<>>
      PROVE  Head(s) = s[1] /\ 1 \in DOMAIN s
  BY <1>1, <1>2, <1>3
<1>4. s \in Seq(Range(s))
  <2>1. \A i \in DOMAIN s : s[i] \in Range(s)
    BY DEF Range
  <2> QED BY <1>1, <2>1
<1> QED BY <1>1, <1>2, <1>3, <1>4 DEF Range

\* A sequence over a set is one over a wider set.
LEMMA WiderSeq ==
  ASSUME NEW S, NEW T, S \subseteq T, NEW s \in Seq(S)
  PROVE  s \in Seq(T)
<1>1. Len(s) \in Nat /\ s \in [1..Len(s) -> S]
  OBVIOUS
<1>2. s \in [1..Len(s) -> T]
  BY <1>1
<1> QED BY <1>1, <1>2

\* The empty sequence.
LEMMA EmptyFacts ==
  ASSUME NEW S
  PROVE  <<>> \in Seq(S) /\ Len(<<>>) = 0 /\ Range(<<>>) = {}
BY DEF Range

\* A sequence of one element.
LEMMA SingleFacts ==
  ASSUME NEW S, NEW e \in S
  PROVE  <<e>> \in Seq(S) /\ Len(<<e>>) = 1 /\ <<e>>[1] = e
         /\ Range(<<e>>) = {e}
BY DEF Range

\* Array.push: the elements stay in place, one follows.
LEMMA AppendFacts ==
  ASSUME NEW S, NEW s \in Seq(S), NEW e \in S
  PROVE  /\ Append(s, e) \in Seq(S)
         /\ Range(Append(s, e)) = Range(s) \cup {e}
         /\ \A i \in DOMAIN s :
              i \in DOMAIN Append(s, e) /\ Append(s, e)[i] = s[i]
<1>1. /\ Len(s) \in Nat /\ DOMAIN s = 1..Len(s)
      /\ DOMAIN Append(s, e) = 1..(Len(s) + 1)
      /\ Append(s, e)[Len(s) + 1] = e
      /\ \A i \in 1..Len(s) : Append(s, e)[i] = s[i]
      /\ Append(s, e) \in Seq(S)
  OBVIOUS
<1>2. Len(s) + 1 \in DOMAIN Append(s, e)
  BY <1>1
<1>3. \A i \in DOMAIN s : i \in DOMAIN Append(s, e)
  BY <1>1
<1>4. \A i \in DOMAIN Append(s, e) : i \in DOMAIN s \/ i = Len(s) + 1
  BY <1>1
<1> QED BY <1>1, <1>2, <1>3, <1>4 DEF Range

\* Array.concat: the elements of both, in order.
LEMMA CatFacts ==
  ASSUME NEW S, NEW s \in Seq(S), NEW t \in Seq(S)
  PROVE  /\ s \o t \in Seq(S)
         /\ Len(s \o t) = Len(s) + Len(t)
         /\ DOMAIN (s \o t) = 1..(Len(s) + Len(t))
         /\ \A i \in 1..(Len(s) + Len(t)) :
              (s \o t)[i] = IF i <= Len(s) THEN s[i] ELSE t[i - Len(s)]
         /\ Range(s \o t) = Range(s) \cup Range(t)
<1>1. /\ Len(s) \in Nat /\ DOMAIN s = 1..Len(s)
      /\ Len(t) \in Nat /\ DOMAIN t = 1..Len(t)
      /\ s \o t \in Seq(S) /\ Len(s \o t) = Len(s) + Len(t)
      /\ DOMAIN (s \o t) = 1..(Len(s) + Len(t))
      /\ \A i \in 1..(Len(s) + Len(t)) :
           (s \o t)[i] = IF i <= Len(s) THEN s[i] ELSE t[i - Len(s)]
  OBVIOUS
<1>2. ASSUME NEW i \in DOMAIN t
      PROVE  t[i] = (s \o t)[Len(s) + i] /\ Len(s) + i \in DOMAIN (s \o t)
  BY <1>1
<1>3. ASSUME NEW i \in DOMAIN s
      PROVE  s[i] = (s \o t)[i] /\ i \in DOMAIN (s \o t)
  BY <1>1
<1>4. ASSUME NEW i \in DOMAIN (s \o t)
      PROVE  (s \o t)[i] \in Range(s) \cup Range(t)
  <2>1. CASE i <= Len(s)
    BY <1>1, <2>1 DEF Range
  <2>2. CASE ~(i <= Len(s))
    <3>1. i - Len(s) \in DOMAIN t /\ (s \o t)[i] = t[i - Len(s)]
      BY <1>1, <2>2
    <3> QED BY <3>1 DEF Range
  <2> QED BY <2>1, <2>2
<1>5. Range(s) \cup Range(t) \subseteq Range(s \o t)
  BY <1>2, <1>3 DEF Range
<1>6. Range(s \o t) \subseteq Range(s) \cup Range(t)
  BY <1>4 DEF Range
<1> QED BY <1>1, <1>5, <1>6

\* Appending an element that a sequence has not repeats none.
LEMMA AppendDistinct ==
  ASSUME NEW S, NEW s \in Seq(S), NEW e \in S, e \notin Range(s), Distinct(s)
  PROVE  Distinct(Append(s, e))
<1>1. /\ Len(s) \in Nat /\ DOMAIN s = 1..Len(s)
      /\ DOMAIN Append(s, e) = 1..(Len(s) + 1)
      /\ Append(s, e)[Len(s) + 1] = e
      /\ \A i \in 1..Len(s) : Append(s, e)[i] = s[i]
  OBVIOUS
<1>2. \A i \in 1..(Len(s) + 1) : i \in 1..Len(s) \/ i = Len(s) + 1
  BY <1>1
<1>3. \A i \in 1..Len(s) : s[i] # e
  BY <1>1 DEF Range
<1> QED BY <1>1, <1>2, <1>3 DEF Distinct

\* Elements are moved by taking one out of the sequence and putting it back.
LEMMA InsertFacts ==
  ASSUME NEW S, NEW s \in Seq(S), NEW e \in S, NEW i \in 1..(Len(s) + 1)
  PROVE  /\ InsertAt(s, i, e) \in Seq(S)
         /\ Len(InsertAt(s, i, e)) = Len(s) + 1
         /\ DOMAIN InsertAt(s, i, e) = 1..(Len(s) + 1)
         /\ \A j \in 1..(Len(s) + 1) :
              InsertAt(s, i, e)[j] =
                IF j < i THEN s[j] ELSE IF j = i THEN e ELSE s[j - 1]
<1> DEFINE a == SubSeq(s, 1, i - 1)
           c == SubSeq(s, i, Len(s))
<1>1. Len(s) \in Nat /\ i \in Nat
  OBVIOUS
<1>2. /\ a \in Seq(S) /\ Len(a) = i - 1
      /\ \A j \in 1..(i - 1) : a[j] = s[j]
  BY <1>1
<1>3. /\ c \in Seq(S) /\ Len(c) = Len(s) - i + 1
      /\ \A j \in 1..(Len(s) - i + 1) : c[j] = s[i + j - 1]
  BY <1>1
<1>4. InsertAt(s, i, e) = a \o <<e>> \o c
  BY DEF InsertAt
<1> HIDE DEF a, c
<1>5. /\ a \o <<e>> \in Seq(S) /\ Len(a \o <<e>>) = i
      /\ \A j \in 1..i : (a \o <<e>>)[j] = IF j < i THEN s[j] ELSE e
  BY <1>1, <1>2
<1> DEFINE b == a \o <<e>>
<1> HIDE DEF b
<1>6. /\ b \in Seq(S) /\ Len(b) = i
      /\ \A j \in 1..i : b[j] = IF j < i THEN s[j] ELSE e
  BY <1>5 DEF b
<1>7. /\ b \o c \in Seq(S) /\ Len(b \o c) = Len(s) + 1
      /\ DOMAIN (b \o c) = 1..(Len(s) + 1)
  BY <1>1, <1>3, <1>6
<1>8. ASSUME NEW j \in 1..(Len(s) + 1)
      PROVE  (b \o c)[j] =
               IF j < i THEN s[j] ELSE IF j = i THEN e ELSE s[j - 1]
  <2>1. CASE j <= i
    BY <1>1, <1>3, <1>6, <2>1
  <2>2. CASE ~(j <= i)
    <3>1. (b \o c)[j] = c[j - i] /\ j - i \in 1..(Len(s) - i + 1)
      BY <1>1, <1>3, <1>6, <2>2
    <3>2. c[j - i] = s[i + (j - i) - 1]
      BY <1>3, <3>1
    <3>3. i + (j - i) - 1 = j - 1
      BY <1>1
    <3> QED BY <1>1, <2>2, <3>1, <3>2, <3>3
  <2> QED BY <1>1, <2>1, <2>2
<1> QED BY <1>4, <1>7, <1>8 DEF b

\* A sequence with the element at a place taken out.
LEMMA RemoveFacts ==
  ASSUME NEW S, NEW s \in Seq(S), NEW i \in 1..Len(s)
  PROVE  /\ RemoveAt(s, i) \in Seq(S)
         /\ Len(RemoveAt(s, i)) = Len(s) - 1
         /\ DOMAIN RemoveAt(s, i) = 1..(Len(s) - 1)
         /\ \A j \in 1..(Len(s) - 1) :
              RemoveAt(s, i)[j] = IF j < i THEN s[j] ELSE s[j + 1]
<1> DEFINE a == SubSeq(s, 1, i - 1)
           c == SubSeq(s, i + 1, Len(s))
<1>1. Len(s) \in Nat /\ i \in Nat
  OBVIOUS
<1>2. /\ a \in Seq(S) /\ Len(a) = i - 1
      /\ \A j \in 1..(i - 1) : a[j] = s[j]
  BY <1>1
<1>3. /\ c \in Seq(S) /\ Len(c) = Len(s) - i
      /\ \A j \in 1..(Len(s) - i) : c[j] = s[i + j]
  BY <1>1
<1>4. RemoveAt(s, i) = a \o c
  BY DEF RemoveAt
<1> HIDE DEF a, c
<1>5. /\ a \o c \in Seq(S) /\ Len(a \o c) = Len(s) - 1
      /\ DOMAIN (a \o c) = 1..(Len(s) - 1)
  <2>1. /\ a \o c \in Seq(S) /\ Len(a \o c) = Len(a) + Len(c)
        /\ DOMAIN (a \o c) = 1..(Len(a) + Len(c))
    BY <1>2, <1>3, CatFacts
  <2>2. Len(a) + Len(c) = Len(s) - 1
    BY <1>1, <1>2, <1>3
  <2> QED BY <2>1, <2>2
<1>6. ASSUME NEW j \in 1..(Len(s) - 1)
      PROVE  (a \o c)[j] = IF j < i THEN s[j] ELSE s[j + 1]
  <2>1. CASE j < i
    BY <1>1, <1>2, <1>3, <2>1
  <2>2. CASE ~(j < i)
    <3>1. (a \o c)[j] = c[j - (i - 1)] /\ j - (i - 1) \in 1..(Len(s) - i)
      BY <1>1, <1>2, <1>3, <2>2
    <3>2. c[j - (i - 1)] = s[i + (j - (i - 1))]
      BY <1>3, <3>1
    <3>3. i + (j - (i - 1)) = j + 1
      BY <1>1
    <3> QED BY <2>2, <3>1, <3>2, <3>3
  <2> QED BY <2>1, <2>2
<1> QED BY <1>4, <1>5, <1>6

\* The first n concatenations.
Flattened(ss, n, f) ==
  f = [i \in 1..n |-> IF i = 1 THEN ss[i] ELSE f[i-1] \o ss[i]]

LEMMA FlattenedSome ==
  ASSUME NEW S, NEW ss \in Seq(Seq(S)), NEW n \in Nat, n <= Len(ss)
  PROVE  \E f : Flattened(ss, n, f)
<1> DEFINE Bad == {m \in Nat : m <= Len(ss) /\ ~ \E f : Flattened(ss, m, f)}
<1>1. ASSUME Bad # {} PROVE FALSE
  <2>1. PICK m \in Bad : \A k \in Bad : m <= k
    BY <1>1, NatLeast
  <2>2. m \in Nat /\ m <= Len(ss) /\ ~ \E f : Flattened(ss, m, f)
    OBVIOUS
  <2>3. CASE m = 0
    <3>1. Flattened(ss, 0, [i \in 1..0 |-> 0])
      BY DEF Flattened
    <3> QED BY <2>2, <2>3, <3>1
  <2>4. CASE m # 0
    <3>1. m - 1 \in Nat /\ m - 1 <= Len(ss) /\ ~ (m <= m - 1)
      BY <2>2, <2>4
    <3>2. m - 1 \notin Bad
      BY <2>1, <3>1
    <3>3. PICK f : Flattened(ss, m - 1, f)
      BY <3>1, <3>2
    <3> DEFINE e == IF m = 1 THEN ss[m] ELSE f[m - 1] \o ss[m]
               g == [i \in 1..m |-> IF i = m THEN e ELSE f[i]]
    <3>4. \A i \in 1..m : g[i] = IF i = 1 THEN ss[i] ELSE g[i-1] \o ss[i]
      <4>1. \A i \in 1..(m-1) : f[i] = IF i = 1 THEN ss[i] ELSE f[i-1] \o ss[i]
        BY <3>3 DEF Flattened
      <4>2. g[m] = e
        BY <2>2, <2>4
      <4>3. \A i \in 1..(m-1) : g[i] = f[i]
        BY <2>2, <2>4
      <4> HIDE DEF g
      <4>4. g[m] = IF m = 1 THEN ss[m] ELSE g[m-1] \o ss[m]
        <5>1. CASE m = 1
          BY <4>2, <5>1
        <5>2. CASE m # 1
          <6>1. m - 1 \in 1..(m-1)
            BY <2>2, <2>4, <5>2
          <6> QED BY <4>2, <4>3, <5>2, <6>1
        <5> QED BY <5>1, <5>2
      <4>5. ASSUME NEW i \in 1..(m-1)
            PROVE  g[i] = IF i = 1 THEN ss[i] ELSE g[i-1] \o ss[i]
        <5>1. i = 1 \/ i - 1 \in 1..(m-1)
          BY <2>2
        <5> QED BY <4>1, <4>3, <5>1
      <4> QED BY <2>2, <2>4, <4>4, <4>5
    <3>5. g = [i \in 1..m |-> g[i]]
      OBVIOUS
    <3> HIDE DEF g
    <3>6. Flattened(ss, m, g)
      BY <3>4, <3>5 DEF Flattened
    <3> QED BY <2>2, <3>6
  <2> QED BY <2>3, <2>4
<1> QED BY <1>1

\* A sequence of sequences, one after the other.
LEMMA FlattenFacts ==
  ASSUME NEW S, NEW ss \in Seq(Seq(S))
  PROVE  FlattenSeq(ss) \in Seq(S)
<1>1. CASE Len(ss) = 0
  <2>1. ss = <<>>
    BY <1>1
  <2> QED BY <1>1, <2>1 DEF FlattenSeq
<1>2. CASE Len(ss) # 0
  <2> DEFINE n == Len(ss)
             h == CHOOSE f : Flattened(ss, n, f)
  <2>1. n \in Nat /\ n # 0
    BY <1>2
  <2>2. Flattened(ss, n, h)
    <3>1. \E f : Flattened(ss, n, f)
      BY <2>1, FlattenedSome
    <3> HIDE DEF n
    <3> QED BY <3>1
  <2>3. FlattenSeq(ss) = h[n]
    BY <1>2 DEF FlattenSeq, Flattened
  <2> HIDE DEF h
  <2> DEFINE Bad == {m \in 1..n : h[m] \notin Seq(S)}
  <2>4. ASSUME Bad # {} PROVE FALSE
    <3>0. Bad \in SUBSET Nat
      BY <2>1
    <3>1. PICK m \in Bad : \A k \in Bad : m <= k
      <4> HIDE DEF Bad
      <4> QED BY <2>4, <3>0, NatLeast
    <3>2. m \in 1..n /\ h[m] \notin Seq(S) /\ ss[m] \in Seq(S)
      BY <2>1
    <3>3. h[m] = IF m = 1 THEN ss[m] ELSE h[m-1] \o ss[m]
      BY <2>2, <3>2 DEF Flattened
    <3>4. m # 1
      BY <3>2, <3>3
    <3>5. m - 1 \in 1..n /\ ~(m <= m - 1)
      BY <2>1, <3>2, <3>4
    <3>6. h[m-1] \in Seq(S)
      BY <3>1, <3>5
    <3> QED BY <3>2, <3>3, <3>4, <3>6
  <2> QED BY <2>1, <2>3, <2>4
<1> QED BY <1>1, <1>2

-----------------------------------------------------------------------------
\* Sums.

\* What the recursive definition in SumUpTo says of its function.
Sums(f, n, g) ==
  g = [i \in 0..n |-> IF i = 0 THEN 0 ELSE g[i - 1] + f[i]]

LEMMA SumsDefined ==
  ASSUME NEW f, NEW N \in Nat
  PROVE  \E g : Sums(f, N, g)
<1> DEFINE S == {n \in Nat : \E g : Sums(f, n, g)}
<1>1. 0 \in S
  <2> DEFINE g == [i \in 0..0 |-> 0]
  <2>1. Sums(f, 0, g)
    BY DEF Sums
  <2> HIDE DEF g
  <2> QED BY <2>1
<1>2. ASSUME NEW n \in S PROVE n + 1 \in S
  <2>1. PICK g : Sums(f, n, g)
    BY <1>2
  <2> DEFINE h == [i \in 0..(n + 1) |->
                     IF i = n + 1 THEN g[n] + f[i] ELSE g[i]]
  <2>2. \A i \in 0..(n + 1) : h[i] = IF i = 0 THEN 0 ELSE h[i - 1] + f[i]
    <3> TAKE i \in 0..(n + 1)
    <3>1. CASE i = 0
      BY <2>1, <3>1 DEF Sums
    <3>2. CASE i \in 1..n
      <4>1. h[i] = g[i] /\ h[i - 1] = g[i - 1]
        BY <3>2
      <4>2. g[i] = g[i - 1] + f[i]
        BY <2>1, <3>2 DEF Sums
      <4> QED BY <3>2, <4>1, <4>2
    <3>3. CASE i = n + 1
      <4>1. h[i] = g[n] + f[i] /\ h[i - 1] = g[n]
        BY <3>3
      <4> QED BY <3>3, <4>1
    <3> QED BY <3>1, <3>2, <3>3
  <2>3. Sums(f, n + 1, h)
    <3>1. h = [i \in 0..(n + 1) |-> h[i]]
      OBVIOUS
    <3> HIDE DEF h
    <3> QED BY <2>2, <3>1 DEF Sums
  <2> HIDE DEF h
  <2> QED BY <2>3
<1>3. S = Nat
  <2> HIDE DEF S
  <2>1. S \in SUBSET Nat
    BY DEF S
  <2> QED BY <1>1, <1>2, <2>1, NatSetInduction
<1> QED BY <1>3

\* A longer sum agrees with a shorter one.
LEMMA SumsAgree ==
  ASSUME NEW f, NEW n \in Nat, NEW m \in Nat, n <= m,
         NEW g, Sums(f, n, g), NEW h, Sums(f, m, h)
  PROVE  \A i \in 0..n : g[i] = h[i]
<1> DEFINE S == {i \in Nat : i \in 0..n => g[i] = h[i]}
<1>1. 0 \in S
  BY DEF Sums
<1>2. ASSUME NEW i \in S PROVE i + 1 \in S
  <2> SUFFICES ASSUME i + 1 \in 0..n PROVE g[i + 1] = h[i + 1]
    OBVIOUS
  <2>1. i \in Nat /\ g[i] = h[i]
    BY <1>2
  <2>2. g[i + 1] = g[i] + f[i + 1] /\ h[i + 1] = h[i] + f[i + 1]
    BY <2>1 DEF Sums
  <2> QED BY <2>1, <2>2
<1>3. S = Nat
  <2> HIDE DEF S
  <2>1. S \in SUBSET Nat
    BY DEF S
  <2> QED BY <1>1, <1>2, <2>1, NatSetInduction
<1> QED BY <1>3

\* The sum of no number, and of one more.
LEMMA SumFacts ==
  ASSUME NEW f
  PROVE  /\ SumUpTo(f, 0) = 0
         /\ \A n \in Nat : SumUpTo(f, n + 1) = SumUpTo(f, n) + f[n + 1]
<1> DEFINE sum(n) == CHOOSE g : Sums(f, n, g)
<1>1. ASSUME NEW n \in Nat PROVE SumUpTo(f, n) = sum(n)[n]
  BY DEF SumUpTo, Sums
<1>2. ASSUME NEW n \in Nat PROVE Sums(f, n, sum(n))
  BY SumsDefined
<1> HIDE DEF sum
<1>3. SumUpTo(f, 0) = 0
  BY <1>1, <1>2 DEF Sums
<1>4. ASSUME NEW n \in Nat
      PROVE  SumUpTo(f, n + 1) = SumUpTo(f, n) + f[n + 1]
  <2>1. Sums(f, n, sum(n)) /\ Sums(f, n + 1, sum(n + 1))
    BY <1>2
  <2>2. sum(n)[n] = sum(n + 1)[n]
    BY <2>1, SumsAgree
  <2>3. sum(n + 1)[n + 1] = sum(n + 1)[n] + f[n + 1]
    BY <2>1 DEF Sums
  <2> QED BY <1>1, <2>2, <2>3
<1> QED BY <1>3, <1>4

\* A sum of natural numbers is one, and none of them is larger.
LEMMA SumNat ==
  ASSUME NEW f, NEW N \in Nat, \A i \in 1..N : f[i] \in Nat
  PROVE  SumUpTo(f, N) \in Nat /\ \A i \in 1..N : f[i] <= SumUpTo(f, N)
<1> DEFINE Holds(n) == /\ SumUpTo(f, n) \in Nat
                       /\ \A i \in 1..n : f[i] <= SumUpTo(f, n)
           S == {n \in Nat : n <= N => Holds(n)}
<1>1. 0 \in S
  BY SumFacts
<1>2. ASSUME NEW n \in S PROVE n + 1 \in S
  <2> SUFFICES ASSUME n + 1 <= N PROVE Holds(n + 1)
    OBVIOUS
  <2>1. n \in Nat /\ Holds(n) /\ f[n + 1] \in Nat
    BY <1>2
  <2>2. SumUpTo(f, n + 1) = SumUpTo(f, n) + f[n + 1]
    BY SumFacts
  <2>3. ASSUME NEW i \in 1..(n + 1) PROVE f[i] <= SumUpTo(f, n + 1)
    <3>1. CASE i = n + 1
      BY <2>1, <2>2, <3>1
    <3>2. CASE i \in 1..n
      <4>1. f[i] <= SumUpTo(f, n) /\ f[i] \in Nat
        BY <2>1, <3>2
      <4> QED BY <2>1, <2>2, <4>1
    <3> QED BY <2>1, <3>1, <3>2
  <2> QED BY <2>1, <2>2, <2>3
<1>3. S = Nat
  <2> HIDE DEF S
  <2>1. S \in SUBSET Nat
    BY DEF S
  <2> QED BY <1>1, <1>2, <2>1, NatSetInduction
<1> QED BY <1>3

\* The sum of m numbers and n others that follow them.
LEMMA SumCat ==
  ASSUME NEW m \in Nat, NEW n \in Nat, NEW f, NEW g, NEW h,
         \A i \in 1..m : f[i] \in Nat /\ h[i] = f[i],
         \A i \in 1..n : g[i] \in Nat /\ h[m + i] = g[i]
  PROVE  SumUpTo(h, m + n) = SumUpTo(f, m) + SumUpTo(g, n)
<1> DEFINE S == {i \in Nat : i <= m => SumUpTo(h, i) = SumUpTo(f, i)}
           T == {i \in Nat :
                   i <= n => SumUpTo(h, m + i) = SumUpTo(f, m) + SumUpTo(g, i)}
<1>1. S = Nat
  <2>1. 0 \in S
    BY SumFacts
  <2>2. ASSUME NEW i \in S PROVE i + 1 \in S
    BY <2>2, SumFacts
  <2>3. S \in SUBSET Nat
    OBVIOUS
  <2> HIDE DEF S
  <2> QED BY <2>1, <2>2, <2>3, NatSetInduction
<1>2. SumUpTo(h, m) = SumUpTo(f, m) /\ SumUpTo(f, m) \in Nat
  BY <1>1, SumNat
<1> HIDE DEF S
<1>3. T = Nat
  <2>1. 0 \in T
    BY <1>2, SumFacts
  <2>2. ASSUME NEW i \in T PROVE i + 1 \in T
    <3> SUFFICES ASSUME i + 1 <= n
                 PROVE  SumUpTo(h, m + (i + 1)) = SumUpTo(f, m) + SumUpTo(g, i + 1)
      OBVIOUS
    <3>1. i \in Nat /\ SumUpTo(h, m + i) = SumUpTo(f, m) + SumUpTo(g, i)
      BY <2>2
    <3>2. SumUpTo(g, i) \in Nat
      BY <3>1, SumNat
    <3>3. SumUpTo(g, i + 1) = SumUpTo(g, i) + g[i + 1] /\ g[i + 1] \in Nat
      BY <3>1, SumFacts
    <3>4. SumUpTo(h, (m + i) + 1) = SumUpTo(h, m + i) + h[(m + i) + 1]
      BY <3>1, SumFacts
    <3>5. (m + i) + 1 = m + (i + 1) /\ h[m + (i + 1)] = g[i + 1]
      BY <3>1
    <3> QED BY <1>2, <3>1, <3>2, <3>3, <3>4, <3>5
  <2>3. T \in SUBSET Nat
    OBVIOUS
  <2> HIDE DEF T
  <2> QED BY <2>1, <2>2, <2>3, NatSetInduction
<1> QED BY <1>3

\* What is filtered has no larger sum.
LEMMA SumOnly ==
  ASSUME NEW S, NEW s \in Seq(S), NEW T, NEW f, NEW g,
         \A i \in DOMAIN s : f[i] \in Nat,
         \A k \in DOMAIN Only(s, T) : \A i \in DOMAIN s :
           Only(s, T)[k] = s[i] => g[k] = f[i]
  PROVE  SumUpTo(g, Len(Only(s, T))) <= SumUpTo(f, Len(s))
<1> DEFINE t == Only(s, T)
           u(n) == Until(s, T, n)
           A == {n \in Nat : n <= Len(s) =>
                   /\ SumUpTo(g, u(n)) \in Nat /\ SumUpTo(f, n) \in Nat
                   /\ SumUpTo(g, u(n)) <= SumUpTo(f, n)}
<1>1. Len(s) \in Nat /\ DOMAIN s = 1..Len(s)
  OBVIOUS
<1>2. \A n \in Nat : u(n) \in Nat /\ u(n) <= n
  BY UntilType
<1>3. Len(t) = u(Len(s)) /\ DOMAIN t = 1..u(Len(s))
  BY <1>1, <1>2 DEF Only
<1>4. 0 \in A
  <2>1. u(0) = 0
    BY <1>2
  <2> QED BY <2>1, SumFacts
<1>5. ASSUME NEW n \in A PROVE n + 1 \in A
  <2> SUFFICES ASSUME n + 1 <= Len(s)
               PROVE  /\ SumUpTo(g, u(n + 1)) \in Nat
                      /\ SumUpTo(f, n + 1) \in Nat
                      /\ SumUpTo(g, u(n + 1)) <= SumUpTo(f, n + 1)
    OBVIOUS
  <2>1. /\ n \in Nat /\ u(n) \in Nat
        /\ SumUpTo(g, u(n)) \in Nat /\ SumUpTo(f, n) \in Nat
        /\ SumUpTo(g, u(n)) <= SumUpTo(f, n)
    BY <1>2, <1>5
  <2>2. SumUpTo(f, n + 1) = SumUpTo(f, n) + f[n + 1] /\ f[n + 1] \in Nat
    <3>1. n + 1 \in DOMAIN s
      BY <1>1, <2>1
    <3> HIDE DEF u
    <3> QED BY <2>1, <3>1, SumFacts
  <2>3. u(n + 1) = IF s[n + 1] \in T THEN u(n) + 1 ELSE u(n)
    <3>1. n + 1 \in Nat \ {0} /\ (n + 1) - 1 = n
      BY <2>1
    <3> HIDE DEF u
    <3>2. u(n + 1) = IF s[n + 1] \in T THEN u((n + 1) - 1) + 1
                     ELSE u((n + 1) - 1)
      BY <3>1, UntilStep DEF u
    <3> QED BY <3>1, <3>2
  <2>4. CASE s[n + 1] \notin T
    BY <2>1, <2>2, <2>3, <2>4
  <2>5. CASE s[n + 1] \in T
    <3> DEFINE k == u(n) + 1
    <3>1. u(n + 1) = k /\ n + 1 \in Nat
      BY <2>1, <2>3, <2>5
    <3>2. k \in DOMAIN t
      <4>1. u(n + 1) <= u(Len(s))
        BY <1>1, <3>1, UntilMonotone
      <4> QED BY <1>1, <1>2, <1>3, <2>1, <3>1, <4>1
    <3> HIDE DEF k
    <3>3. PICK i \in DOMAIN s : s[i] \in T /\ u(i) = k /\ t[k] = s[i]
      BY <3>2, OnlyPlace
    <3>4. i = n + 1
      <4>1. i \in Nat
        BY <1>1
      <4>2. CASE i < n + 1
        <5>1. u(i) < u(n + 1)
          BY <2>5, <3>1, <4>1, <4>2, UntilGrows
        <5> QED BY <1>2, <3>1, <3>3, <4>1, <5>1
      <4>3. CASE n + 1 < i
        <5>1. u(n + 1) < u(i)
          BY <3>1, <3>3, <4>1, <4>3, UntilGrows
        <5> QED BY <1>2, <3>1, <3>3, <4>1, <5>1
      <4> QED BY <3>1, <4>1, <4>2, <4>3
    <3>5. g[k] = f[n + 1]
      BY <3>2, <3>3, <3>4
    <3>6. SumUpTo(g, k) = SumUpTo(g, u(n)) + g[k]
      BY <2>1, SumFacts DEF k
    <3> QED BY <2>1, <2>2, <3>1, <3>5, <3>6
  <2> QED BY <2>4, <2>5
<1>6. A = Nat
  <2> HIDE DEF A
  <2>1. A \in SUBSET Nat
    BY DEF A
  <2> QED BY <1>4, <1>5, <2>1, NatSetInduction
<1> QED BY <1>1, <1>3, <1>6

=============================================================================
