-------------------------- MODULE CollectionProofs --------------------------
(***************************************************************************)
(* What the operators on sets of keys and on lists return, for every set,  *)
(* list and limit: keyset pages, sums, filters.  The library's induction   *)
(* over sequences has an operator for a parameter; UpTo and ByAppending    *)
(* are induction over a set instead, and Recursion says that a function    *)
(* defined by recursion over 0..N exists.                                  *)
(***************************************************************************)
EXTENDS Keyset, Lists, FiniteSetTheorems, SequenceTheorems, TLAPS

\* A keyset batch is a prefix: it holds every member at or before one it holds.
LEMMA FirstOfIsPrefix ==
  ASSUME NEW S \in SUBSET Nat, IsFiniteSet(S), NEW n \in Int,
         NEW x \in FirstOf(S, n), NEW y \in S, y <= x
  PROVE  y \in FirstOf(S, n)
<1> DEFINE Below(z) == {w \in S : w < z}
<1>1. x \in S /\ x \in Nat /\ y \in Nat /\ Cardinality(Below(x)) < n
  BY DEF FirstOf
<1>2. Below(y) \in SUBSET Below(x)
  <2>1. ASSUME NEW w \in S, w < y PROVE w < x
    BY <1>1, <2>1, w \in Nat, y <= x
  <2> QED BY <2>1
<1>3. IsFiniteSet(Below(x)) /\ Cardinality(Below(x)) \in Nat
  BY FS_Subset, FS_CardinalityType
<1>4. Cardinality(Below(y)) <= Cardinality(Below(x)) /\ Cardinality(Below(y)) \in Nat
  <2> HIDE DEF Below
  <2> QED BY <1>2, <1>3, FS_Subset, FS_CardinalityType
<1>5. Cardinality(Below(y)) < n
  <2> HIDE DEF Below
  <2> QED BY <1>1, <1>3, <1>4
<1> QED BY <1>5 DEF FirstOf

\* A batch shorter than the limit is everything there was: the sweep may end.
LEMMA ShortBatchIsAll ==
  ASSUME NEW S \in SUBSET Nat, IsFiniteSet(S), NEW n \in Int,
         Cardinality(FirstOf(S, n)) < n
  PROVE  FirstOf(S, n) = S
<1> DEFINE Rest == S \ FirstOf(S, n)
<1>1. SUFFICES ASSUME Rest # {} PROVE FALSE
  BY DEF FirstOf
<1>2. PICK x \in Rest : \A y \in Rest : ~(<<y, x>> \in OpToRel(<, Nat))
  BY <1>1, WFMin, NatLessThanWellFounded
<1>3. \A y \in Rest : ~(y < x)
  BY <1>2 DEF OpToRel
<1>4. {w \in S : w < x} \in SUBSET FirstOf(S, n)
  BY <1>3
<1>5. IsFiniteSet(FirstOf(S, n)) /\ Cardinality(FirstOf(S, n)) \in Nat
  BY FS_Subset, FS_CardinalityType, FirstOf(S, n) \in SUBSET S DEF FirstOf
<1>6. Cardinality({w \in S : w < x}) <= Cardinality(FirstOf(S, n))
      /\ Cardinality({w \in S : w < x}) \in Nat
  BY <1>4, <1>5, FS_Subset, FS_CardinalityType
<1>7. Cardinality({w \in S : w < x}) < n
  BY <1>5, <1>6
<1> QED BY <1>7 DEF FirstOf

-----------------------------------------------------------------------------
\* A set of numbers that is not empty has a least one.
LEMMA LeastOf ==
  ASSUME NEW S \in SUBSET Nat, S # {}
  PROVE  \E m \in S : \A k \in S : m <= k
<1>1. PICK m \in S : \A k \in S : ~(<<k, m>> \in OpToRel(<, Nat))
  BY WFMin, NatLessThanWellFounded
<1>2. ASSUME NEW k \in S, k < m PROVE FALSE
  <2>1. k \in Nat /\ m \in Nat
    OBVIOUS
  <2>2. <<k, m>> \in OpToRel(<, Nat)
    BY <2>1, <1>2 DEF OpToRel
  <2> QED BY <1>1, <2>2
<1>3. \A k \in S : k \in Nat /\ m \in Nat
  OBVIOUS
<1> QED BY <1>2, <1>3

\* Induction up to N: a set that has 0, and with a number the next one.
LEMMA UpTo ==
  ASSUME NEW N \in Nat, NEW S, 0 \in S, \A n \in 0..(N-1) : n \in S => n + 1 \in S
  PROVE  \A n \in 0..N : n \in S
<1> DEFINE Bad == {m \in 0..N : m \notin S}
<1>1. SUFFICES ASSUME Bad # {} PROVE FALSE
  OBVIOUS
<1>2. PICK m \in Bad : \A k \in Bad : m <= k
  <2>1. Bad \in SUBSET Nat OBVIOUS
  <2> HIDE DEF Bad
  <2> QED BY <1>1, <2>1, LeastOf
<1>3. m # 0 /\ m - 1 \in 0..(N-1) /\ m - 1 \notin Bad
  BY <1>2
<1> QED BY <1>3

\* Induction over lists: a set that has <<>>, and with a list each longer by one.
LEMMA ByAppending ==
  ASSUME NEW A, NEW S, <<>> \in S,
         \A p \in Seq(A), x \in A : p \in S => Append(p, x) \in S
  PROVE  \A q \in Seq(A) : q \in S
<1> TAKE q \in Seq(A)
<1> DEFINE N == {n \in 0..Len(q) : SubSeq(q, 1, n) \in S}
<1>1. Len(q) \in Nat
  BY LenProperties
<1>2. 0 \in N
  <2>1. SubSeq(q, 1, 0) = <<>>
    BY SubSeqEmpty, 0 \in Int, 1 \in Int, 0 < 1
  <2>2. SubSeq(q, 1, 0) \in S
    BY <2>1, Zenon
  <2>3. 0 \in 0..Len(q)
    BY <1>1
  <2> QED BY <2>2, <2>3, Zenon
<1>3. ASSUME NEW n \in 0..(Len(q) - 1), n \in N PROVE n + 1 \in N
  <2>1. n + 1 \in 1..Len(q) /\ q[n + 1] \in A
    BY <1>1, ElementOfSeq
  <2>2. SubSeq(q, 1, n) \in Seq(A)
    BY <1>1, SubSeqProperties, ElementOfSeq
  <2>3. SubSeq(q, 1, n + 1) = SubSeq(q, 1, n) \o <<q[n + 1]>>
    <3>1. 1 \in 1..Len(q) /\ n + 1 \in 1..Len(q) /\ (n + 1) - 1 = n
      BY <2>1
    <3> QED BY <3>1, SubSeqRecursiveSecond
  <2>4. SubSeq(q, 1, n + 1) = Append(SubSeq(q, 1, n), q[n + 1])
    BY <2>1, <2>2, <2>3, AppendIsConcat
  <2>5. SubSeq(q, 1, n + 1) \in S
    BY <1>3, <2>1, <2>2, <2>4
  <2> QED BY <1>1, <2>1, <2>5
<1>4. Len(q) \in N
  <2> HIDE DEF N
  <2>1. \A n \in 0..(Len(q) - 1) : n \in N => n + 1 \in N
    BY <1>3
  <2>2. \A n \in 0..Len(q) : n \in N
    BY <1>1, <1>2, <2>1, UpTo
  <2> QED BY <1>1, <2>2
<1> QED BY <1>4, SubSeqFull

\* The functions that recursion over 0..N defines, by the steps g from b.
StepsOf(g, N, T) == g \in [1..N -> [T -> T]]
Iterates(f, g, N, b, T) == f \in [0..N -> T] /\ f[0] = b /\ \A n \in 1..N : f[n] = g[n][f[n-1]]

\* There is one, with values in every set T that b is in and the steps keep.
LEMMA Recursion ==
  ASSUME NEW N \in Nat, NEW T, NEW b \in T, NEW g, StepsOf(g, N, T)
  PROVE  \E f : Iterates(f, g, N, b, T)
<1> DEFINE S == {m \in 0..N : \E f : Iterates(f, g, m, b, T)}
<1>1. 0 \in S
  <2>1. Iterates([n \in 0..0 |-> b], g, 0, b, T)
    BY DEF Iterates
  <2> QED BY <2>1
<1>2. ASSUME NEW m \in 0..(N-1), m \in S PROVE m + 1 \in S
  <2>1. PICK f : Iterates(f, g, m, b, T)
    BY <1>2
  <2> DEFINE h == [n \in 0..(m+1) |-> IF n = m + 1 THEN g[m+1][f[m]] ELSE f[n]]
  <2>6. h \in [0..(m+1) -> T]
    BY <2>1 DEF Iterates, StepsOf
  <2>7. ASSUME NEW n \in 1..(m+1) PROVE h[n] = g[n][h[n-1]]
    <3>1. CASE n = m + 1
      BY <3>1, <2>1
    <3>2. CASE n \in 1..m
      <4>1. h[n] = f[n] /\ h[n-1] = f[n-1]
        BY <3>2
      <4> QED BY <4>1, <3>2, <2>1 DEF Iterates
    <3> QED BY <3>1, <3>2
  <2>8. Iterates(h, g, m+1, b, T)
    BY <2>1, <2>6, <2>7 DEF Iterates
  <2> HIDE DEF h
  <2> QED BY <2>8
<1>3. N \in S
  <2> HIDE DEF S
  <2>1. \A n \in 0..(N-1) : n \in S => n + 1 \in S
    BY <1>2
  <2>2. \A n \in 0..N : n \in S
    BY <1>1, <2>1, UpTo
  <2> QED BY <2>2
<1> QED BY <1>3

-----------------------------------------------------------------------------
\* What Total chooses.
IsTotal(size, q, f) == f = [n \in 0..Len(q) |-> IF n = 0 THEN 0 ELSE f[n-1] + size[q[n]]]

\* Total is the last of the partial sums, and a number.
LEMMA TotalDef ==
  ASSUME NEW A, NEW size \in [A -> Nat], NEW q \in Seq(A)
  PROVE  \E f \in [0..Len(q) -> Nat] : IsTotal(size, q, f) /\ Total(size, q) = f[Len(q)]
<1> DEFINE N == Len(q)
           g == [n \in 1..N |-> [t \in Nat |-> t + size[q[n]]]]
<1>1. N \in Nat /\ \A n \in 1..N : q[n] \in A /\ size[q[n]] \in Nat
  BY LenProperties
<1>0. 0 \in Nat
  OBVIOUS
<1>2. StepsOf(g, N, Nat)
  BY <1>1 DEF StepsOf
<1>3. PICK f \in [0..N -> Nat] : f[0] = 0 /\ \A n \in 1..N : f[n] = g[n][f[n-1]]
  <2> HIDE DEF g, N
  <2>1. PICK f : Iterates(f, g, N, 0, Nat)
    BY <1>0, <1>1, <1>2, Recursion
  <2> QED BY <2>1 DEF Iterates
<1>4. ASSUME NEW n \in 0..N, n # 0 PROVE g[n][f[n-1]] = f[n-1] + size[q[n]]
  <2>1. n \in 1..N /\ n - 1 \in 0..N
    BY <1>1, <1>4
  <2>2. f[n-1] \in Nat
    BY <2>1
  <2> QED BY <2>1, <2>2
<1>5. IsTotal(size, q, f)
  <2> HIDE DEF g
  <2>1. \A n \in 0..N : f[n] = IF n = 0 THEN 0 ELSE f[n-1] + size[q[n]]
    <3>1. ASSUME NEW n \in 0..N, n # 0 PROVE f[n] = f[n-1] + size[q[n]]
      <4>1. n \in 1..N
        BY <1>1, <3>1
      <4> QED BY <4>1, <3>1, <1>3, <1>4
    <3> QED BY <3>1, <1>3
  <2> QED BY <2>1 DEF IsTotal
<1> DEFINE c == CHOOSE h : IsTotal(size, q, h)
<1>6. IsTotal(size, q, c)
  BY <1>5
<1>7. \A n \in 0..N : c[n] = IF n = 0 THEN 0 ELSE c[n-1] + size[q[n]]
  BY <1>6 DEF IsTotal
<1>8. Total(size, q) = c[N]
  BY DEF Total, IsTotal
<1>9. \A n \in 0..N : n \in {m \in 0..N : c[m] \in Nat}
  <2> HIDE DEF c
  <2> DEFINE S == {m \in 0..N : c[m] \in Nat}
  <2>1. 0 \in S
    BY <1>1, <1>7
  <2>2. \A n \in 0..(N-1) : n \in S => n + 1 \in S
    BY <1>1, <1>7
  <2> HIDE DEF S, N
  <2>3. \A n \in 0..N : n \in S
    BY <1>1, <2>1, <2>2, UpTo
  <2> QED BY <2>3 DEF S
<1>10. c \in [0..N -> Nat]
  <2> HIDE DEF c
  <2>1. c = [n \in 0..N |-> c[n]]
    BY <1>6 DEF IsTotal
  <2> QED BY <2>1, <1>9
<1> QED BY <1>6, <1>8, <1>10

\* Total adds up: nothing, one more at the end.
LEMMA TotalEmpty ==
  ASSUME NEW A, NEW size \in [A -> Nat]
  PROVE  Total(size, <<>>) = 0
<1>1. <<>> \in Seq(A) /\ Len(<<>>) = 0
  BY EmptySeq
<1>2. PICK f \in [0..Len(<<>>) -> Nat] : IsTotal(size, <<>>, f) /\ Total(size, <<>>) = f[Len(<<>>)]
  BY <1>1, TotalDef
<1> QED BY <1>1, <1>2 DEF IsTotal

LEMMA TotalAppend ==
  ASSUME NEW A, NEW size \in [A -> Nat], NEW q \in Seq(A), NEW x \in A
  PROVE  /\ Total(size, q) \in Nat
         /\ Total(size, Append(q, x)) = Total(size, q) + size[x]
<1> DEFINE p == Append(q, x)
           N == Len(q)
<1>1. /\ N \in Nat /\ p \in Seq(A) /\ Len(p) = N + 1
      /\ \A n \in 1..N : p[n] = q[n]
      /\ p[N + 1] = x
  BY LenProperties, AppendProperties
<1> HIDE DEF p, N
<1>2. PICK f \in [0..N -> Nat] : IsTotal(size, q, f) /\ Total(size, q) = f[N]
  BY TotalDef DEF N
<1>3. PICK h \in [0..Len(p) -> Nat] : IsTotal(size, p, h) /\ Total(size, p) = h[Len(p)]
  BY <1>1, TotalDef
<1>4. \A n \in 0..N : f[n] = IF n = 0 THEN 0 ELSE f[n - 1] + size[q[n]]
  BY <1>2 DEF IsTotal, N
<1>5. \A n \in 0..(N + 1) : h[n] = IF n = 0 THEN 0 ELSE h[n - 1] + size[p[n]]
  BY <1>1, <1>3 DEF IsTotal
<1> DEFINE S == {n \in 0..N : h[n] = f[n]}
<1>6. 0 \in S
  BY <1>1, <1>4, <1>5
<1>7. ASSUME NEW n \in 0..(N - 1), n \in S PROVE n + 1 \in S
  <2>1. n + 1 \in 0..N /\ n + 1 \in 1..N /\ n + 1 # 0 /\ (n + 1) - 1 = n
    BY <1>1
  <2>2. f[n + 1] = f[n] + size[q[n + 1]]
    BY <1>4, <2>1
  <2>3. h[n + 1] = h[n] + size[p[n + 1]]
    BY <1>1, <1>5, <2>1
  <2>4. p[n + 1] = q[n + 1] /\ h[n] = f[n]
    BY <1>1, <1>7, <2>1
  <2> QED BY <2>1, <2>2, <2>3, <2>4
<1>8. h[N] = f[N]
  <2> HIDE DEF S
  <2>1. \A n \in 0..(N - 1) : n \in S => n + 1 \in S
    BY <1>7
  <2>2. \A n \in 0..N : n \in S
    BY <1>1, <1>6, <2>1, UpTo
  <2> QED BY <1>1, <2>2 DEF S
<1>9. h[N + 1] = h[N] + size[x]
  BY <1>1, <1>5
<1> QED BY <1>1, <1>2, <1>3, <1>8, <1>9 DEF p

LEMMA TotalSingle ==
  ASSUME NEW A, NEW size \in [A -> Nat], NEW x \in A
  PROVE  Total(size, <<x>>) = size[x]
<1>1. <<>> \in Seq(A) /\ Append(<<>>, x) = <<x>> /\ size[x] \in Nat
  BY EmptySeq
<1>2. Total(size, Append(<<>>, x)) = Total(size, <<>>) + size[x]
  BY <1>1, TotalAppend
<1>3. Total(size, <<>>) = 0
  BY TotalEmpty
<1> QED BY <1>1, <1>2, <1>3

\* The total of two lists, one after the other.
LEMMA TotalConcat ==
  ASSUME NEW A, NEW size \in [A -> Nat], NEW p \in Seq(A), NEW q \in Seq(A)
  PROVE  /\ Total(size, p) \in Nat /\ Total(size, q) \in Nat
         /\ Total(size, p \o q) = Total(size, p) + Total(size, q)
<1> DEFINE S == {r \in Seq(A) : Total(size, r) \in Nat
                                /\ Total(size, p \o r) = Total(size, p) + Total(size, r)}
<1>0. Total(size, p) \in Nat
  <2>1. PICK f \in [0..Len(p) -> Nat] : Total(size, p) = f[Len(p)]
    BY TotalDef
  <2> QED BY <2>1, LenProperties
<1>1. <<>> \in S
  <2>1. <<>> \in Seq(A) /\ p \o <<>> = p /\ Total(size, <<>>) = 0
    BY EmptySeq, ConcatEmptySeq, TotalEmpty
  <2> QED BY <1>0, <2>1
<1>2. ASSUME NEW r \in Seq(A), NEW x \in A, r \in S PROVE Append(r, x) \in S
  <2>1. p \o Append(r, x) = Append(p \o r, x)
    <3>1. <<x>> \in Seq(A) /\ p \o r \in Seq(A)
      BY ConcatProperties
    <3>2. Append(r, x) = r \o <<x>> /\ Append(p \o r, x) = (p \o r) \o <<x>>
      BY <3>1, AppendIsConcat
    <3> QED BY <3>1, <3>2, ConcatAssociative
  <2>2. p \o r \in Seq(A) /\ Append(r, x) \in Seq(A) /\ size[x] \in Nat
    BY ConcatProperties, AppendProperties
  <2>3. /\ Total(size, Append(r, x)) = Total(size, r) + size[x]
        /\ Total(size, Append(p \o r, x)) = Total(size, p \o r) + size[x]
    BY <2>2, TotalAppend
  <2>4. Total(size, r) \in Nat /\ Total(size, p \o r) = Total(size, p) + Total(size, r)
    BY <1>2
  <2>5. Total(size, p \o Append(r, x)) = Total(size, p) + Total(size, Append(r, x))
    BY <1>0, <2>1, <2>2, <2>3, <2>4
  <2> QED BY <2>2, <2>3, <2>4, <2>5
<1>3. q \in S
  <2> HIDE DEF S
  <2> QED BY <1>1, <1>2, ByAppending
<1> QED BY <1>0, <1>3

-----------------------------------------------------------------------------
\* What Selected chooses.
IsSelected(q, S, f) ==
  f = [n \in 0..Len(q) |-> IF n = 0 THEN <<>>
                           ELSE IF q[n] \in S THEN Append(f[n - 1], q[n]) ELSE f[n - 1]]

\* Selected is the last of the lists that the filter builds.
LEMMA SelectedDef ==
  ASSUME NEW A, NEW q \in Seq(A), NEW S
  PROVE  \E f \in [0..Len(q) -> Seq(A)] : IsSelected(q, S, f) /\ Selected(q, S) = f[Len(q)]
<1> DEFINE N == Len(q)
           T == Seq(A)
           g == [n \in 1..N |-> [t \in T |-> IF q[n] \in S THEN Append(t, q[n]) ELSE t]]
<1>1. N \in Nat /\ \A n \in 1..N : q[n] \in A
  BY LenProperties
<1>0. <<>> \in T
  BY EmptySeq
<1>2. StepsOf(g, N, T)
  <2>1. \A n \in 1..N, t \in T : Append(t, q[n]) \in T
    BY <1>1, AppendProperties
  <2> HIDE DEF T, N
  <2> QED BY <2>1 DEF StepsOf
<1>3. PICK f \in [0..N -> T] : f[0] = <<>> /\ \A n \in 1..N : f[n] = g[n][f[n-1]]
  <2> HIDE DEF g, N, T
  <2>1. PICK f : Iterates(f, g, N, <<>>, T)
    BY <1>0, <1>1, <1>2, Recursion
  <2> QED BY <2>1 DEF Iterates
<1> HIDE DEF T
<1>4. ASSUME NEW n \in 0..N, n # 0
      PROVE g[n][f[n-1]] = IF q[n] \in S THEN Append(f[n-1], q[n]) ELSE f[n-1]
  <2>1. n \in 1..N /\ n - 1 \in 0..N
    BY <1>1, <1>4
  <2>2. f[n-1] \in T
    BY <2>1
  <2> QED BY <2>1, <2>2
<1>5. IsSelected(q, S, f)
  <2> HIDE DEF g
  <2>1. \A n \in 0..N : f[n] = IF n = 0 THEN <<>>
                               ELSE IF q[n] \in S THEN Append(f[n-1], q[n]) ELSE f[n-1]
    <3>1. ASSUME NEW n \in 0..N, n # 0
          PROVE f[n] = IF q[n] \in S THEN Append(f[n-1], q[n]) ELSE f[n-1]
      <4>1. n \in 1..N
        BY <1>1, <3>1
      <4> QED BY <4>1, <3>1, <1>3, <1>4
    <3> QED BY <3>1, <1>3
  <2> QED BY <2>1 DEF IsSelected
<1> DEFINE c == CHOOSE h : IsSelected(q, S, h)
<1>6. IsSelected(q, S, c)
  BY <1>5
<1>7. \A n \in 0..N : c[n] = IF n = 0 THEN <<>>
                             ELSE IF q[n] \in S THEN Append(c[n-1], q[n]) ELSE c[n-1]
  BY <1>6 DEF IsSelected
<1>8. Selected(q, S) = c[N]
  BY DEF Selected, IsSelected
<1>9. \A n \in 0..N : c[n] \in T
  <2> HIDE DEF c
  <2> DEFINE I == {m \in 0..N : c[m] \in T}
  <2>1. 0 \in I
    BY <1>0, <1>1, <1>7
  <2>2. \A n \in 0..(N-1) : n \in I => n + 1 \in I
    <3>1. \A t \in T, x \in A : Append(t, x) \in T
      BY AppendProperties DEF T
    <3> QED BY <1>1, <1>7, <3>1
  <2> HIDE DEF I, N
  <2>3. \A n \in 0..N : n \in I
    BY <1>1, <2>1, <2>2, UpTo
  <2> QED BY <2>3 DEF I
<1>10. c \in [0..N -> T]
  <2> HIDE DEF c
  <2>1. c = [n \in 0..N |-> c[n]]
    BY <1>6 DEF IsSelected
  <2> QED BY <2>1, <1>9
<1> QED BY <1>6, <1>8, <1>10 DEF T

\* Selected goes through the list: nothing, one more at the end.
LEMMA SelectedEmpty ==
  ASSUME NEW S
  PROVE  Selected(<<>>, S) = <<>>
<1>1. <<>> \in Seq({}) /\ Len(<<>>) = 0
  BY EmptySeq
<1>2. PICK f \in [0..Len(<<>>) -> Seq({})] :
        IsSelected(<<>>, S, f) /\ Selected(<<>>, S) = f[Len(<<>>)]
  BY <1>1, SelectedDef
<1> QED BY <1>1, <1>2 DEF IsSelected

LEMMA SelectedAppend ==
  ASSUME NEW A, NEW q \in Seq(A), NEW x \in A, NEW S
  PROVE  /\ Selected(q, S) \in Seq(A)
         /\ Selected(Append(q, x), S)
              = IF x \in S THEN Append(Selected(q, S), x) ELSE Selected(q, S)
<1> DEFINE p == Append(q, x)
           N == Len(q)
<1>1. /\ N \in Nat /\ p \in Seq(A) /\ Len(p) = N + 1
      /\ \A n \in 1..N : p[n] = q[n]
      /\ p[N + 1] = x
  BY LenProperties, AppendProperties
<1> HIDE DEF p, N
<1>2. PICK f \in [0..N -> Seq(A)] : IsSelected(q, S, f) /\ Selected(q, S) = f[N]
  BY SelectedDef DEF N
<1>3. PICK h \in [0..Len(p) -> Seq(A)] : IsSelected(p, S, h) /\ Selected(p, S) = h[Len(p)]
  BY <1>1, SelectedDef
<1>4. \A n \in 0..N : f[n] = IF n = 0 THEN <<>>
                             ELSE IF q[n] \in S THEN Append(f[n - 1], q[n]) ELSE f[n - 1]
  BY <1>2 DEF IsSelected, N
<1>5. \A n \in 0..(N + 1) : h[n] = IF n = 0 THEN <<>>
                                   ELSE IF p[n] \in S THEN Append(h[n - 1], p[n]) ELSE h[n - 1]
  BY <1>1, <1>3 DEF IsSelected
<1> DEFINE I == {n \in 0..N : h[n] = f[n]}
<1>6. 0 \in I
  BY <1>1, <1>4, <1>5
<1>7. ASSUME NEW n \in 0..(N - 1), n \in I PROVE n + 1 \in I
  <2>1. n + 1 \in 0..N /\ n + 1 \in 1..N /\ n + 1 # 0 /\ (n + 1) - 1 = n
    BY <1>1
  <2>2. f[n + 1] = IF q[n + 1] \in S THEN Append(f[n], q[n + 1]) ELSE f[n]
    BY <1>4, <2>1
  <2>3. n + 1 \in 0..(N + 1)
    BY <1>1
  <2>4. h[n + 1] = IF p[n + 1] \in S THEN Append(h[n], p[n + 1]) ELSE h[n]
    BY <1>5, <2>1, <2>3
  <2>5. p[n + 1] = q[n + 1] /\ h[n] = f[n]
    BY <1>1, <1>7, <2>1
  <2> QED BY <2>1, <2>2, <2>4, <2>5
<1>8. h[N] = f[N]
  <2> HIDE DEF I
  <2>1. \A n \in 0..(N - 1) : n \in I => n + 1 \in I
    BY <1>7
  <2>2. \A n \in 0..N : n \in I
    BY <1>1, <1>6, <2>1, UpTo
  <2> QED BY <1>1, <2>2 DEF I
<1>9. h[N + 1] = IF x \in S THEN Append(h[N], x) ELSE h[N]
  <2>1. N + 1 \in 0..(N + 1) /\ N + 1 # 0 /\ (N + 1) - 1 = N
    BY <1>1
  <2> QED BY <1>1, <1>5, <2>1
<1>10. f[N] \in Seq(A)
  BY <1>1
<1> QED BY <1>1, <1>2, <1>3, <1>8, <1>9, <1>10 DEF p

-----------------------------------------------------------------------------
\* Members, and lists that have each of them once.
LEMMA AppendRange ==
  ASSUME NEW A, NEW q \in Seq(A), NEW x \in A
  PROVE  /\ Range(Append(q, x)) = Range(q) \cup {x}
         /\ IsInjective(Append(q, x)) <=> IsInjective(q) /\ x \notin Range(q)
<1> DEFINE p == Append(q, x)
           N == Len(q)
<1>1. /\ N \in Nat /\ Len(p) = N + 1
      /\ \A n \in 1..N : p[n] = q[n]
      /\ p[N + 1] = x
      /\ DOMAIN q = 1..N /\ DOMAIN p = 1..(N + 1)
  BY LenProperties, AppendProperties
<1> HIDE DEF p, N
<1>2. 1..(N + 1) = (1..N) \cup {N + 1} /\ N + 1 \notin 1..N
  BY <1>1
<1>3. Range(p) = Range(q) \cup {x}
  BY <1>1, <1>2 DEF Range
<1>4. IsInjective(p) <=> IsInjective(q) /\ x \notin Range(q)
  BY <1>1, <1>2 DEF IsInjective, Range
<1> QED BY <1>3, <1>4 DEF p

LEMMA EmptyRange == Range(<<>>) = {} /\ IsInjective(<<>>)
BY DEF Range, IsInjective

\* Two lists, one after the other: the members of both.
LEMMA ConcatRange ==
  ASSUME NEW A, NEW p \in Seq(A), NEW q \in Seq(A)
  PROVE  /\ p \o q \in Seq(A) /\ Len(p \o q) = Len(p) + Len(q)
         /\ Range(p \o q) = Range(p) \cup Range(q)
         /\ IsInjective(p) /\ IsInjective(q) /\ Range(p) \cap Range(q) = {} => IsInjective(p \o q)
<1> DEFINE S == {r \in Seq(A) : /\ Range(p \o r) = Range(p) \cup Range(r)
                                /\ IsInjective(p) /\ IsInjective(r) /\ Range(p) \cap Range(r) = {}
                                     => IsInjective(p \o r)}
<1>1. <<>> \in S
  BY EmptySeq, EmptyRange, ConcatEmptySeq
<1>2. ASSUME NEW r \in Seq(A), NEW x \in A, r \in S PROVE Append(r, x) \in S
  <2>1. Append(r, x) \in Seq(A) /\ p \o r \in Seq(A)
    BY AppendProperties, ConcatProperties
  <2>2. p \o Append(r, x) = Append(p \o r, x)
    <3>1. <<x>> \in Seq(A)
      OBVIOUS
    <3>2. Append(r, x) = r \o <<x>> /\ Append(p \o r, x) = (p \o r) \o <<x>>
      BY <2>1, <3>1, AppendIsConcat
    <3> QED BY <2>1, <3>1, <3>2, ConcatAssociative
  <2>3. /\ Range(Append(r, x)) = Range(r) \cup {x}
        /\ IsInjective(Append(r, x)) <=> IsInjective(r) /\ x \notin Range(r)
    BY AppendRange
  <2>4. /\ Range(Append(p \o r, x)) = Range(p \o r) \cup {x}
        /\ IsInjective(Append(p \o r, x)) <=> IsInjective(p \o r) /\ x \notin Range(p \o r)
    BY <2>1, AppendRange
  <2>5. /\ Range(p \o r) = Range(p) \cup Range(r)
        /\ IsInjective(p) /\ IsInjective(r) /\ Range(p) \cap Range(r) = {} => IsInjective(p \o r)
    BY <1>2
  <2>6. Range(p \o Append(r, x)) = Range(p) \cup Range(Append(r, x))
    BY <2>2, <2>3, <2>4, <2>5
  <2>7. ASSUME IsInjective(p), IsInjective(Append(r, x)), Range(p) \cap Range(Append(r, x)) = {}
        PROVE  IsInjective(p \o Append(r, x))
    <3>1. IsInjective(r) /\ x \notin Range(r) /\ x \notin Range(p) /\ Range(p) \cap Range(r) = {}
      BY <2>3, <2>7
    <3> QED BY <2>2, <2>4, <2>5, <2>7, <3>1
  <2> QED BY <2>1, <2>6, <2>7
<1>3. q \in S
  <2> HIDE DEF S
  <2> QED BY <1>1, <1>2, ByAppending
<1> QED BY <1>3, ConcatProperties

\* A list has as many members as places, when it has each of them once.
LEMMA RangeCardinality ==
  ASSUME NEW A, NEW q \in Seq(A), IsInjective(q)
  PROVE  IsFiniteSet(Range(q)) /\ Cardinality(Range(q)) = Len(q)
<1> DEFINE S == {p \in Seq(A) : IsInjective(p) =>
                                 IsFiniteSet(Range(p)) /\ Cardinality(Range(p)) = Len(p)}
<1>1. <<>> \in S
  BY EmptySeq, EmptyRange, FS_EmptySet
<1>2. ASSUME NEW p \in Seq(A), NEW x \in A, p \in S PROVE Append(p, x) \in S
  <2>1. Append(p, x) \in Seq(A) /\ Len(Append(p, x)) = Len(p) + 1
    BY AppendProperties
  <2>2. Range(Append(p, x)) = Range(p) \cup {x}
        /\ (IsInjective(Append(p, x)) => IsInjective(p) /\ x \notin Range(p))
    BY AppendRange
  <2>3. IsInjective(p) => IsFiniteSet(Range(p)) /\ Cardinality(Range(p)) = Len(p)
    BY <1>2
  <2> QED BY <2>1, <2>2, <2>3, FS_AddElement
<1>3. q \in S
  <2> HIDE DEF S
  <2> QED BY <1>1, <1>2, ByAppending
<1> QED BY <1>3

\* A list is its first n members and the rest, which have nothing in common
\* when it has each of its members once.
LEMMA Cut ==
  ASSUME NEW A, NEW q \in Seq(A), NEW n \in 0..Len(q)
  PROVE  LET front == SubSeq(q, 1, n) rest == SubSeq(q, n + 1, Len(q)) IN
         /\ front \in Seq(A) /\ rest \in Seq(A)
         /\ Len(front) = n /\ Len(rest) = Len(q) - n
         /\ front \o rest = q /\ Range(front) \cup Range(rest) = Range(q)
         /\ IsInjective(q) =>
              /\ IsInjective(front) /\ IsInjective(rest)
              /\ Range(front) \cap Range(rest) = {}
<1> DEFINE front == SubSeq(q, 1, n)
           rest == SubSeq(q, n + 1, Len(q))
           N == Len(q)
<1>1. N \in Nat /\ n \in 0..N /\ \A i \in 1..N : q[i] \in A
  BY LenProperties
<1>2. front \in Seq(A) /\ Len(front) = n /\ \A i \in 1..n : front[i] = q[i]
  BY <1>1, SubSeqProperties
<1>3. /\ rest \in Seq(A) /\ Len(rest) = N - n
      /\ \A i \in 1..(N - n) : rest[i] = q[n + i]
  <2>1. n + 1 \in Int /\ N \in Int /\ \A i \in (n + 1)..N : q[i] \in A
    BY <1>1
  <2>2. /\ rest \in Seq(A) /\ Len(rest) = IF n + 1 <= N THEN N - (n + 1) + 1 ELSE 0
        /\ \A i \in 1..(N - (n + 1) + 1) : rest[i] = q[(n + 1) + i - 1]
    BY <2>1, SubSeqProperties
  <2>3. N - (n + 1) + 1 = N - n /\ \A i \in 1..(N - n) : (n + 1) + i - 1 = n + i
    BY <1>1
  <2>4. Len(rest) = N - n
    BY <1>1, <2>2
  <2>5. ASSUME NEW i \in 1..(N - n) PROVE rest[i] = q[n + i]
    <3>1. i \in 1..(N - (n + 1) + 1) /\ (n + 1) + i - 1 = n + i
      BY <2>3
    <3>2. rest[i] = q[(n + 1) + i - 1]
      BY <2>2, <3>1
    <3> HIDE DEF rest
    <3> QED BY <3>1, <3>2
  <2> QED BY <2>2, <2>4, <2>5
<1>4. front \o rest = q
  <2>1. 1 \in 1..(N + 1) /\ n \in (1 - 1)..N /\ N \in n..N
    BY <1>1
  <2>2. front \o rest = SubSeq(q, 1, N)
    BY <2>1, ConcatAdjacentSubSeq
  <2> QED BY <2>2, SubSeqFull
<1>5. Range(front) \cup Range(rest) = Range(q)
  <2> HIDE DEF front, rest
  <2>1. Range(front \o rest) = Range(front) \cup Range(rest)
    BY <1>2, <1>3, RangeConcatenation
  <2> QED BY <1>4, <2>1
<1>6. ASSUME IsInjective(q)
      PROVE  IsInjective(front) /\ IsInjective(rest) /\ Range(front) \cap Range(rest) = {}
  <2>1. DOMAIN front = 1..n /\ DOMAIN rest = 1..(N - n) /\ DOMAIN q = 1..N
    BY <1>2, <1>3, LenProperties
  <2>2. \A i \in 1..n : i \in 1..N
    BY <1>1
  <2>3. \A i \in 1..(N - n) : n + i \in 1..N /\ i \in Int /\ n + i > n
    BY <1>1
  <2>4. \A i, j \in 1..N : q[i] = q[j] => i = j
    BY <1>6, <2>1 DEF IsInjective
  <2> HIDE DEF front, rest, N
  <2>5. IsInjective(front)
    BY <1>2, <2>1, <2>2, <2>4 DEF IsInjective
  <2>6. ASSUME NEW i \in 1..(N - n), NEW j \in 1..(N - n), rest[i] = rest[j] PROVE i = j
    <3>1. n + i = n + j
      BY <1>3, <2>3, <2>4, <2>6
    <3> QED BY <1>1, <2>3, <3>1
  <2>7. IsInjective(rest)
    BY <2>1, <2>6 DEF IsInjective
  <2>8. ASSUME NEW i \in 1..n, NEW j \in 1..(N - n), front[i] = rest[j] PROVE FALSE
    <3>1. i = n + j
      BY <1>2, <1>3, <2>2, <2>3, <2>4, <2>8
    <3> QED BY <1>1, <2>3, <3>1
  <2>9. Range(front) \cap Range(rest) = {}
    BY <2>1, <2>8 DEF Range
  <2> QED BY <2>5, <2>7, <2>9
<1> HIDE DEF front, rest
<1>7. /\ front \in Seq(A) /\ rest \in Seq(A)
      /\ Len(front) = n /\ Len(rest) = Len(q) - n
      /\ front \o rest = q /\ Range(front) \cup Range(rest) = Range(q)
      /\ IsInjective(q) =>
           /\ IsInjective(front) /\ IsInjective(rest)
           /\ Range(front) \cap Range(rest) = {}
  BY <1>2, <1>3, <1>4, <1>5, <1>6
<1> QED BY <1>7 DEF front, rest

\* The total of a list is that of its first n members and that of the rest.
LEMMA TotalCut ==
  ASSUME NEW A, NEW size \in [A -> Nat], NEW q \in Seq(A), NEW n \in 0..Len(q)
  PROVE  /\ Total(size, SubSeq(q, 1, n)) \in Nat
         /\ Total(size, SubSeq(q, n + 1, Len(q))) \in Nat
         /\ Total(size, q) = Total(size, SubSeq(q, 1, n)) + Total(size, SubSeq(q, n + 1, Len(q)))
<1> DEFINE front == SubSeq(q, 1, n)
           rest == SubSeq(q, n + 1, Len(q))
<1>1. front \in Seq(A) /\ rest \in Seq(A) /\ front \o rest = q
  BY Cut
<1> HIDE DEF front, rest
<1>2. /\ Total(size, front) \in Nat /\ Total(size, rest) \in Nat
      /\ Total(size, front \o rest) = Total(size, front) + Total(size, rest)
  BY <1>1, TotalConcat
<1> QED BY <1>1, <1>2 DEF front, rest

-----------------------------------------------------------------------------
\* What a filter leaves: the members it lets through, each as often as before.
LEMMA SelectedRange ==
  ASSUME NEW A, NEW q \in Seq(A), NEW S
  PROVE  /\ Selected(q, S) \in Seq(A)
         /\ Range(Selected(q, S)) = Range(q) \cap S
         /\ IsInjective(q) => IsInjective(Selected(q, S))
<1> DEFINE T == {p \in Seq(A) : /\ Selected(p, S) \in Seq(A)
                                /\ Range(Selected(p, S)) = Range(p) \cap S
                                /\ IsInjective(p) => IsInjective(Selected(p, S))}
<1>1. <<>> \in T
  <2>1. <<>> \in Seq(A) /\ Selected(<<>>, S) = <<>>
    BY EmptySeq, SelectedEmpty
  <2> QED BY <2>1, EmptyRange
<1>2. ASSUME NEW p \in Seq(A), NEW x \in A, p \in T PROVE Append(p, x) \in T
  <2> DEFINE s == Selected(p, S)
             t == Selected(Append(p, x), S)
  <2>1. /\ s \in Seq(A) /\ Range(s) = Range(p) \cap S
        /\ (IsInjective(p) => IsInjective(s))
    BY <1>2
  <2>2. t = IF x \in S THEN Append(s, x) ELSE s
    BY SelectedAppend
  <2>3. /\ Append(p, x) \in Seq(A) /\ Append(s, x) \in Seq(A)
        /\ Range(Append(p, x)) = Range(p) \cup {x} /\ Range(Append(s, x)) = Range(s) \cup {x}
        /\ (IsInjective(Append(p, x)) <=> IsInjective(p) /\ x \notin Range(p))
        /\ (IsInjective(Append(s, x)) <=> IsInjective(s) /\ x \notin Range(s))
    BY <2>1, AppendProperties, AppendRange
  <2> HIDE DEF s, t
  <2>4. /\ t \in Seq(A) /\ Range(t) = Range(Append(p, x)) \cap S
        /\ (IsInjective(Append(p, x)) => IsInjective(t))
    <3>1. CASE x \in S
      BY <2>1, <2>2, <2>3, <3>1
    <3>2. CASE x \notin S
      BY <2>1, <2>2, <2>3, <3>2
    <3> QED BY <3>1, <3>2
  <2> QED BY <2>3, <2>4 DEF t
<1>3. q \in T
  <2> HIDE DEF T
  <2> QED BY <1>1, <1>2, ByAppending
<1> QED BY <1>3

\* Filters that agree on the members of a list leave the same of it.
LEMMA SelectedSame ==
  ASSUME NEW A, NEW q \in Seq(A), NEW S, NEW T,
         \A x \in Range(q) : x \in S <=> x \in T
  PROVE  Selected(q, S) = Selected(q, T)
<1> DEFINE I == {p \in Seq(A) : (\A x \in Range(p) : x \in S <=> x \in T)
                                => Selected(p, S) = Selected(p, T)}
<1>1. <<>> \in I
  BY EmptySeq, SelectedEmpty
<1>2. ASSUME NEW p \in Seq(A), NEW x \in A, p \in I PROVE Append(p, x) \in I
  <2>1. Append(p, x) \in Seq(A) /\ Range(Append(p, x)) = Range(p) \cup {x}
    BY AppendProperties, AppendRange
  <2>2. ASSUME \A y \in Range(Append(p, x)) : y \in S <=> y \in T
        PROVE  Selected(Append(p, x), S) = Selected(Append(p, x), T)
    <3>1. Selected(p, S) = Selected(p, T)
      BY <1>2, <2>1, <2>2
    <3>2. Selected(Append(p, x), S) = IF x \in S THEN Append(Selected(p, S), x) ELSE Selected(p, S)
      BY SelectedAppend
    <3>3. Selected(Append(p, x), T) = IF x \in T THEN Append(Selected(p, T), x) ELSE Selected(p, T)
      BY SelectedAppend
    <3> QED BY <2>1, <2>2, <3>1, <3>2, <3>3
  <2> QED BY <2>1, <2>2
<1>3. q \in I
  <2> HIDE DEF I
  <2> QED BY <1>1, <1>2, ByAppending
<1> QED BY <1>3

\* A filter that lets nothing through, and one that lets everything through.
LEMMA SelectedNone ==
  ASSUME NEW A, NEW q \in Seq(A), NEW S, Range(q) \cap S = {}
  PROVE  Selected(q, S) = <<>>
<1>1. Selected(q, S) \in Seq(A) /\ Range(Selected(q, S)) = {}
  BY SelectedRange
<1>2. SUFFICES ASSUME Selected(q, S) # <<>> PROVE FALSE
  OBVIOUS
<1>3. Len(Selected(q, S)) \in Nat \ {0}
  BY <1>1, <1>2, EmptySeq
<1>4. 1 \in DOMAIN Selected(q, S)
  BY <1>1, <1>3, LenProperties
<1> QED BY <1>1, <1>4 DEF Range

\* Two filters that share out the members of a list share out its total.
LEMMA TotalSelected ==
  ASSUME NEW A, NEW size \in [A -> Nat], NEW q \in Seq(A), NEW S, NEW T,
         \A x \in Range(q) : x \in S <=> x \notin T
  PROVE  /\ Total(size, Selected(q, S)) \in Nat /\ Total(size, Selected(q, T)) \in Nat
         /\ Total(size, q) = Total(size, Selected(q, S)) + Total(size, Selected(q, T))
<1> DEFINE I == {p \in Seq(A) : (\A x \in Range(p) : x \in S <=> x \notin T) =>
      /\ Total(size, Selected(p, S)) \in Nat /\ Total(size, Selected(p, T)) \in Nat
      /\ Total(size, p) = Total(size, Selected(p, S)) + Total(size, Selected(p, T))}
<1>1. <<>> \in I
  <2>1. <<>> \in Seq(A) /\ Total(size, <<>>) = 0
    BY EmptySeq, TotalEmpty
  <2>2. Selected(<<>>, S) = <<>> /\ Selected(<<>>, T) = <<>>
    BY SelectedEmpty
  <2> QED BY <2>1, <2>2
<1>2. ASSUME NEW p \in Seq(A), NEW x \in A, p \in I PROVE Append(p, x) \in I
  <2>1. Append(p, x) \in Seq(A) /\ Range(Append(p, x)) = Range(p) \cup {x}
    BY AppendProperties, AppendRange
  <2>2. ASSUME \A y \in Range(Append(p, x)) : y \in S <=> y \notin T
        PROVE  LET r == Append(p, x) IN
               /\ Total(size, Selected(r, S)) \in Nat /\ Total(size, Selected(r, T)) \in Nat
               /\ Total(size, r) = Total(size, Selected(r, S)) + Total(size, Selected(r, T))
    <3> DEFINE s == Selected(p, S)
               t == Selected(p, T)
    <3>1. /\ Total(size, s) \in Nat /\ Total(size, t) \in Nat
          /\ Total(size, p) = Total(size, s) + Total(size, t)
      BY <1>2, <2>1, <2>2
    <3>2. /\ s \in Seq(A) /\ t \in Seq(A)
          /\ Selected(Append(p, x), S) = IF x \in S THEN Append(s, x) ELSE s
          /\ Selected(Append(p, x), T) = IF x \in T THEN Append(t, x) ELSE t
      <4>1. s \in Seq(A) /\ Selected(Append(p, x), S) = IF x \in S THEN Append(s, x) ELSE s
        BY SelectedAppend
      <4>2. t \in Seq(A) /\ Selected(Append(p, x), T) = IF x \in T THEN Append(t, x) ELSE t
        <5>1. \A U : /\ Selected(p, U) \in Seq(A)
                     /\ Selected(Append(p, x), U)
                          = IF x \in U THEN Append(Selected(p, U), x) ELSE Selected(p, U)
          BY SelectedAppend
        <5> QED BY <5>1
      <4> QED BY <4>1, <4>2
    <3>3. /\ Total(size, Append(p, x)) = Total(size, p) + size[x]
          /\ Total(size, Append(s, x)) = Total(size, s) + size[x]
          /\ Total(size, Append(t, x)) = Total(size, t) + size[x]
          /\ size[x] \in Nat
      BY <3>2, TotalAppend
    <3> HIDE DEF s, t
    <3>4. x \in S <=> x \notin T
      BY <2>1, <2>2
    <3>5. CASE x \in S
      BY <3>1, <3>2, <3>3, <3>4, <3>5
    <3>6. CASE x \notin S
      BY <3>1, <3>2, <3>3, <3>4, <3>6
    <3> QED BY <3>5, <3>6
  <2> QED BY <2>1, <2>2
<1>3. q \in I
  <2> HIDE DEF I
  <2> QED BY <1>1, <1>2, ByAppending
<1> QED BY <1>3

\* A list is as long as the total of ones.
LEMMA LengthIsTotal ==
  ASSUME NEW A, NEW q \in Seq(A)
  PROVE  Len(q) = Total([x \in A |-> 1], q)
<1> DEFINE ones == [x \in A |-> 1]
           I == {p \in Seq(A) : Len(p) = Total(ones, p)}
<1>0. ones \in [A -> Nat]
  OBVIOUS
<1>1. <<>> \in I
  BY <1>0, EmptySeq, TotalEmpty
<1>2. ASSUME NEW p \in Seq(A), NEW x \in A, p \in I PROVE Append(p, x) \in I
  <2>1. Total(ones, Append(p, x)) = Total(ones, p) + ones[x]
    BY <1>0, TotalAppend
  <2> QED BY <1>2, <2>1, AppendProperties
<1>3. q \in I
  <2> HIDE DEF I
  <2> QED BY <1>1, <1>2, ByAppending
<1> QED BY <1>3

\* Two filters that share out the members of a list share out its length.
LEMMA LengthSelected ==
  ASSUME NEW A, NEW q \in Seq(A), NEW S, NEW T,
         \A x \in Range(q) : x \in S <=> x \notin T
  PROVE  Len(q) = Len(Selected(q, S)) + Len(Selected(q, T))
<1> DEFINE ones == [x \in A |-> 1]
<1>1. ones \in [A -> Nat]
  OBVIOUS
<1>2. Selected(q, S) \in Seq(A) /\ Selected(q, T) \in Seq(A)
  BY SelectedRange
<1>3. /\ Len(q) = Total(ones, q)
      /\ Len(Selected(q, S)) = Total(ones, Selected(q, S))
      /\ Len(Selected(q, T)) = Total(ones, Selected(q, T))
  BY <1>2, LengthIsTotal
<1>4. Total(ones, q) = Total(ones, Selected(q, S)) + Total(ones, Selected(q, T))
  BY <1>1, TotalSelected
<1> QED BY <1>3, <1>4

\* The filter for one member finds it once.
LEMMA SelectedOne ==
  ASSUME NEW A, NEW q \in Seq(A), NEW x \in A, IsInjective(q), x \in Range(q)
  PROVE  Selected(q, {x}) = <<x>>
<1> DEFINE I == {p \in Seq(A) : IsInjective(p) /\ x \in Range(p) => Selected(p, {x}) = <<x>>}
<1>1. <<>> \in I
  BY EmptySeq, EmptyRange
<1>2. ASSUME NEW p \in Seq(A), NEW y \in A, p \in I PROVE Append(p, y) \in I
  <2>1. /\ Append(p, y) \in Seq(A) /\ Range(Append(p, y)) = Range(p) \cup {y}
        /\ (IsInjective(Append(p, y)) <=> IsInjective(p) /\ y \notin Range(p))
    BY AppendProperties, AppendRange
  <2>2. Selected(Append(p, y), {x}) = IF y \in {x} THEN Append(Selected(p, {x}), y)
                                      ELSE Selected(p, {x})
    <3>1. \A U : /\ Selected(p, U) \in Seq(A)
                 /\ Selected(Append(p, y), U)
                      = IF y \in U THEN Append(Selected(p, U), y) ELSE Selected(p, U)
      BY SelectedAppend
    <3> QED BY <3>1
  <2>3. ASSUME IsInjective(Append(p, y)), x \in Range(Append(p, y))
        PROVE  Selected(Append(p, y), {x}) = <<x>>
    <3>1. CASE y = x
      <4>1. Selected(p, {x}) = <<>>
        BY <2>1, <2>3, <3>1, SelectedNone
      <4>2. Append(<<>>, x) = <<x>>
        OBVIOUS
      <4> QED BY <2>2, <3>1, <4>1, <4>2
    <3>2. CASE y # x
      <4>1. Selected(p, {x}) = <<x>>
        BY <1>2, <2>1, <2>3, <3>2
      <4> QED BY <2>2, <3>2, <4>1
    <3> QED BY <3>1, <3>2
  <2> QED BY <2>1, <2>3
<1>3. q \in I
  <2> HIDE DEF I
  <2> QED BY <1>1, <1>2, ByAppending
<1> QED BY <1>3

\* What is left of a list without one of its members.
LEMMA WithoutOne ==
  ASSUME NEW A, NEW q \in Seq(A), NEW x \in A, IsInjective(q), x \in Range(q)
  PROVE  /\ Without(q, x) \in Seq(A) /\ IsInjective(Without(q, x))
         /\ Range(Without(q, x)) = Range(q) \ {x}
         /\ Len(Without(q, x)) = Len(q) - 1 /\ Len(Without(q, x)) \in Nat
         /\ \A size \in [A -> Nat] :
              /\ Total(size, Without(q, x)) \in Nat
              /\ Total(size, Without(q, x)) = Total(size, q) - size[x]
<1> DEFINE S == Range(q) \ {x}
           s == Selected(q, S)
<1>1. s \in Seq(A) /\ Range(s) = Range(q) \ {x} /\ IsInjective(s)
  BY SelectedRange
<1>2. \A y \in Range(q) : y \in S <=> y \notin {x}
  OBVIOUS
<1>3. Selected(q, {x}) = <<x>> /\ <<x>> \in Seq(A) /\ Len(<<x>>) = 1
  BY SelectedOne
<1>4. Len(q) \in Nat /\ Len(s) \in Nat
  BY <1>1, LenProperties
<1>5. Len(q) = Len(s) + Len(Selected(q, {x}))
  <2> HIDE DEF S
  <2> QED BY <1>2, LengthSelected
<1>6. Len(s) = Len(q) - 1
  <2> DEFINE one == Selected(q, {x})
  <2>1. Len(one) = 1 /\ Len(q) = Len(s) + Len(one)
    BY <1>3, <1>5
  <2> HIDE DEF s, one
  <2> QED BY <1>4, <2>1
<1>7. ASSUME NEW size \in [A -> Nat]
      PROVE  Total(size, s) \in Nat /\ Total(size, s) = Total(size, q) - size[x]
  <2>1. Total(size, s) \in Nat /\ Total(size, q) = Total(size, s) + Total(size, Selected(q, {x}))
    <3> HIDE DEF S
    <3> QED BY <1>2, TotalSelected
  <2>2. Total(size, Selected(q, {x})) = size[x] /\ size[x] \in Nat
    BY <1>3, TotalSingle
  <2> HIDE DEF s
  <2> QED BY <2>1, <2>2
<1>8. Without(q, x) = s
  BY DEF Without
<1> HIDE DEF s
<1> QED BY <1>1, <1>4, <1>6, <1>7, <1>8
=============================================================================
