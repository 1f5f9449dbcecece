---------------------------- MODULE AshmemProofs ----------------------------
(***************************************************************************)
(* Proofs about Ashmem for any areas, sizes and lengths of the lists.      *)
(***************************************************************************)
EXTENDS Ashmem, SequenceTheorems, WellFoundedInduction, TLAPS

-----------------------------------------------------------------------------
(* Induction, and loops.                                                   *)

LEMMA UpTo ==
    ASSUME NEW N \in Nat, NEW S, 0 \in S, \A n \in 1..N : n - 1 \in S => n \in S
    PROVE  \A n \in 0..N : n \in S
<1> SUFFICES ASSUME NEW k \in 0..N, k \notin S PROVE FALSE
  OBVIOUS
<1> DEFINE R == OpToRel(<, Nat)
           T == {n \in 0..N : n \notin S}
<1>1. IsWellFoundedOn(R, Nat)
  BY NatLessThanWellFounded, Zenon
<1>2. \A m, n \in Nat : <<m, n>> \in R <=> m < n
  BY Zenon DEF OpToRel
<1>3. T \subseteq Nat /\ T # {}
  OBVIOUS
<1> HIDE DEF R, T
<1>4. PICK n \in T : \A m \in T : ~(<<m, n>> \in R)
  BY <1>1, <1>3, WFMin
<1>5. \A m \in T : ~(m < n)
  BY <1>2, <1>3, <1>4
<1>6. n \in 1..N /\ n \notin S
  BY <1>4 DEF T
<1>7. n - 1 \in 0..N /\ n - 1 < n /\ n - 1 \notin T
  BY <1>5, <1>6
<1> QED
  BY <1>6, <1>7 DEF T

Turns(f, N, first, step) == f = [n \in 0..N |-> IF n = 0 THEN first ELSE step[f[n - 1]]]

(* A loop of N turns: if each turn leads from the states that may be there *)
(* before it to those that may be there after it, the loop is a function.  *)
LEMMA LoopExists ==
    ASSUME NEW N \in Nat, NEW G, NEW first, NEW step, first \in G[0],
           \A n \in 1..N : \A u \in G[n - 1] : step[u] \in G[n]
    PROVE  \E f : Turns(f, N, first, step) /\ \A n \in 0..N : f[n] \in G[n]
<1> DEFINE Loop(n, f) == f = [k \in 0..n |-> IF k = 0 THEN first ELSE step[f[k - 1]]]
           Typed(n, f) == \A k \in 0..n : f[k] \in G[k]
           Good == {n \in Nat : \E f : Loop(n, f) /\ Typed(n, f)}
<1>1. 0 \in Good
  <2> DEFINE h == [k \in 0..0 |-> first]
  <2>1. Loop(0, h) /\ Typed(0, h)
    OBVIOUS
  <2> QED
    BY <2>1
<1>2. ASSUME NEW n \in 1..N, n - 1 \in Good PROVE n \in Good
  <2> HIDE DEF Loop, Typed
  <2>1. PICK g : Loop(n - 1, g) /\ Typed(n - 1, g)
    BY <1>2
  <2> DEFINE h == [k \in 0..n |-> IF k = n THEN step[g[n - 1]] ELSE g[k]]
  <2>3. ASSUME NEW k \in 0..n
        PROVE  h[k] = IF k = 0 THEN first ELSE step[h[k - 1]]
    <3>1. k # n => k \in 0..(n - 1) /\ g[k] = IF k = 0 THEN first ELSE step[g[k - 1]]
      BY <2>1 DEF Loop
    <3>2. k # 0 => k - 1 \in 0..(n - 1) /\ h[k - 1] = g[k - 1]
      OBVIOUS
    <3> QED
      BY <3>1, <3>2
  <2>4. h = [k \in 0..n |-> h[k]]
    OBVIOUS
  <2>5. ASSUME NEW k \in 0..n PROVE h[k] \in G[k]
    <3>1. k # n => k \in 0..(n - 1) /\ g[k] \in G[k]
      BY <2>1 DEF Typed
    <3>2. step[g[n - 1]] \in G[n]
      <4>1. n - 1 \in 0..(n - 1)
        OBVIOUS
      <4>2. g[n - 1] \in G[n - 1]
        BY <2>1, <4>1 DEF Typed
      <4> QED
        BY <4>2
    <3> QED
      BY <3>1, <3>2
  <2> HIDE DEF h
  <2>6. Loop(n, h)
    BY <2>3, <2>4 DEF Loop
  <2>7. Typed(n, h)
    BY <2>5 DEF Typed
  <2> QED
    BY <2>6, <2>7
<1>3. N \in Good
  <2> HIDE DEF Good
  <2>1. \A n \in 0..N : n \in Good
    BY <1>1, <1>2, UpTo
  <2> QED
    BY <2>1
<1>4. PICK f : Loop(N, f) /\ Typed(N, f)
  <2> HIDE DEF Loop, Typed
  <2> QED
    BY <1>3
<1> QED
  BY <1>4, Zenon DEF Turns
-----------------------------------------------------------------------------
(* Sums.                                                                   *)

Sums(s, f) == f = [n \in 0..Len(s) |-> IF n = 0 THEN 0 ELSE f[n - 1] + s[n]]

(* The recursive function behind Total exists.                             *)
LEMMA SumsExist ==
    ASSUME NEW s \in Seq(Int)
    PROVE  \E f : Sums(s, f)
<1> DEFINE Sum(n, f) == f = [k \in 0..n |-> IF k = 0 THEN 0 ELSE f[k - 1] + s[k]]
           Good == {n \in Nat : \E f \in [0..n -> Int] : Sum(n, f)}
<1>0. Len(s) \in Nat /\ \A n \in 1..Len(s) : s[n] \in Int
  OBVIOUS
<1>1. 0 \in Good
  <2> DEFINE h == [k \in 0..0 |-> 0]
  <2>1. h \in [0..0 -> Int] /\ Sum(0, h)
    OBVIOUS
  <2> QED
    BY <2>1
<1>2. ASSUME NEW n \in 1..Len(s), n - 1 \in Good PROVE n \in Good
  <2> HIDE DEF Sum
  <2>1. PICK g \in [0..(n - 1) -> Int] : Sum(n - 1, g)
    BY <1>2
  <2> DEFINE h == [k \in 0..n |-> IF k = n THEN g[n - 1] + s[n] ELSE g[k]]
  <2>2. h \in [0..n -> Int]
    BY <1>0
  <2>3. ASSUME NEW k \in 0..n
        PROVE  h[k] = IF k = 0 THEN 0 ELSE h[k - 1] + s[k]
    <3>1. k # n => k \in 0..(n - 1) /\ g[k] = IF k = 0 THEN 0 ELSE g[k - 1] + s[k]
      BY <2>1 DEF Sum
    <3>2. k # 0 => k - 1 \in 0..(n - 1) /\ h[k - 1] = g[k - 1]
      OBVIOUS
    <3> QED
      BY <3>1, <3>2
  <2>4. h = [k \in 0..n |-> h[k]]
    OBVIOUS
  <2> HIDE DEF h
  <2>5. Sum(n, h)
    BY <2>3, <2>4 DEF Sum
  <2> QED
    BY <2>2, <2>5
<1>3. \A n \in 0..Len(s) : n \in Good
  <2> HIDE DEF Good
  <2> QED
    BY <1>0, <1>1, <1>2, UpTo
<1>4. PICK f : Sum(Len(s), f)
  <2> HIDE DEF Sum
  <2> QED
    BY <1>0, <1>3
<1> QED
  BY <1>4, Zenon DEF Sums

(* What Total is: the last of a chain of partial sums.                     *)
LEMMA TotalIs ==
    ASSUME NEW s \in Seq(Int)
    PROVE  \E f : /\ f[0] = 0
                  /\ \A n \in 0..Len(s) : f[n] \in Int
                  /\ \A n \in 1..Len(s) : f[n] = f[n - 1] + s[n]
                  /\ Total(s) = f[Len(s)]
<1> DEFINE f == CHOOSE f : f = [n \in 0..Len(s) |-> IF n = 0 THEN 0 ELSE f[n - 1] + s[n]]
<1>0. Len(s) \in Nat /\ \A n \in 1..Len(s) : s[n] \in Int
  OBVIOUS
<1>1. PICK g : g = [n \in 0..Len(s) |-> IF n = 0 THEN 0 ELSE g[n - 1] + s[n]]
  BY SumsExist DEF Sums
<1>2. f = [n \in 0..Len(s) |-> IF n = 0 THEN 0 ELSE f[n - 1] + s[n]]
  BY <1>1, Zenon
<1>3. Total(s) = f[Len(s)]
  BY DEF Total
<1> HIDE DEF f
<1>4. f[0] = 0 /\ \A n \in 1..Len(s) : f[n] = f[n - 1] + s[n]
  BY <1>0, <1>2
<1>5. \A n \in 0..Len(s) : f[n] \in Int
  <2> DEFINE S == {n \in Nat : f[n] \in Int}
  <2>1. 0 \in S
    BY <1>4
  <2>2. ASSUME NEW n \in 1..Len(s), n - 1 \in S PROVE n \in S
    BY <1>0, <1>4, <2>2
  <2>3. \A n \in 0..Len(s) : n \in S
    <3> HIDE DEF S
    <3> QED
      BY <1>0, <2>1, <2>2, UpTo
  <2> QED
    BY <2>3
<1> QED
  BY <1>3, <1>4, <1>5

(* A total of numbers that are not negative.                               *)
LEMMA TotalNat ==
    ASSUME NEW s \in Seq(Int), \A n \in 1..Len(s) : s[n] >= 0
    PROVE  Total(s) \in Nat /\ ((\A n \in 1..Len(s) : s[n] = 0) => Total(s) = 0)
<1>0. Len(s) \in Nat /\ \A n \in 1..Len(s) : s[n] \in Int
  OBVIOUS
<1>1. PICK f : /\ f[0] = 0
               /\ \A n \in 1..Len(s) : f[n] = f[n - 1] + s[n]
               /\ Total(s) = f[Len(s)]
  BY TotalIs
<1> DEFINE S == {n \in Nat : f[n] \in Nat /\ ((\A k \in 1..Len(s) : s[k] = 0) => f[n] = 0)}
<1>2. 0 \in S
  BY <1>1
<1>3. ASSUME NEW n \in 1..Len(s), n - 1 \in S PROVE n \in S
  <2>1. f[n] = f[n - 1] + s[n] /\ f[n - 1] \in Nat /\ s[n] \in Nat
    BY <1>0, <1>1, <1>3
  <2> QED
    BY <1>3, <2>1
<1>4. \A n \in 0..Len(s) : n \in S
  <2> HIDE DEF S
  <2> QED
    BY <1>0, <1>2, <1>3, UpTo
<1> QED
  BY <1>0, <1>1, <1>4
-----------------------------------------------------------------------------
(* Whatever is done to a list is an insertion, or undoes one.              *)

LEMMA InsertAtAll ==
    ASSUME NEW X, NEW s \in Seq(X), NEW i \in 1..(Len(s) + 1), NEW x \in X
    PROVE  /\ InsertAt(s, i, x) \in Seq(X)
           /\ Len(InsertAt(s, i, x)) = Len(s) + 1
           /\ \A j \in 1..(Len(s) + 1) :
                 InsertAt(s, i, x)[j] = IF j < i THEN s[j] ELSE IF j = i THEN x ELSE s[j - 1]
<1> DEFINE a == SubSeq(s, 1, i - 1)
           b == <<x>>
           c == SubSeq(s, i, Len(s))
<1>1. a \in Seq(X) /\ Len(a) = i - 1 /\ \A j \in 1..(i - 1) : a[j] = s[j]
  BY SubSeqProperties
<1>2. b \in Seq(X) /\ Len(b) = 1 /\ b[1] = x
  OBVIOUS
<1>3. c \in Seq(X) /\ Len(c) = Len(s) - i + 1 /\ \A j \in 1..(Len(s) - i + 1) : c[j] = s[i + j - 1]
  BY SubSeqProperties
<1>4. InsertAt(s, i, x) = (a \o b) \o c
  BY DEF InsertAt
<1> HIDE DEF a, b, c
<1>a. a \in Seq(X) /\ b \in Seq(X) /\ c \in Seq(X)
  BY <1>1, <1>2, <1>3
<1>5. a \o b \in Seq(X) /\ Len(a \o b) = i
      /\ \A j \in 1..i : (a \o b)[j] = IF j < i THEN s[j] ELSE x
  <2>1. /\ a \o b \in Seq(X) /\ Len(a \o b) = Len(a) + Len(b)
        /\ \A j \in 1..(Len(a) + Len(b)) : (a \o b)[j] = IF j <= Len(a) THEN a[j] ELSE b[j - Len(a)]
    BY <1>a, ConcatProperties
  <2>2. Len(a) + Len(b) = i /\ \A j \in 1..i : j <= Len(a) <=> j < i
    BY <1>1, <1>2
  <2>3. \A j \in 1..i : j >= i => b[j - Len(a)] = x
    <3>1. i - Len(a) = 1
      BY <1>1
    <3> QED
      BY <1>2, <3>1
  <2> DEFINE e == a \o b
  <2>4. \A j \in 1..i : e[j] = IF j <= Len(a) THEN a[j] ELSE b[j - Len(a)]
    BY <2>1, <2>2
  <2> HIDE DEF e
  <2>5. \A j \in 1..i : j < i => j \in 1..(i - 1)
    OBVIOUS
  <2>6. ASSUME NEW j \in 1..i PROVE e[j] = IF j < i THEN s[j] ELSE x
    <3>1. CASE j < i
      <4>1. j <= Len(a) /\ a[j] = s[j]
        BY <1>1, <2>2, <2>5, <3>1
      <4> QED
        BY <2>4, <3>1, <4>1
    <3>2. CASE ~(j < i)
      <4>1. ~(j <= Len(a)) /\ b[j - Len(a)] = x
        BY <2>2, <2>3, <3>2
      <4> QED
        BY <2>4, <3>2, <4>1
    <3> QED
      BY <3>1, <3>2
  <2> QED
    BY <2>1, <2>2, <2>6 DEF e
<1> DEFINE d == a \o b
<1>b. d \in Seq(X)
  BY <1>5
<1> HIDE DEF d
<1>6. /\ d \o c \in Seq(X) /\ Len(d \o c) = Len(d) + Len(c)
      /\ \A j \in 1..(Len(d) + Len(c)) : (d \o c)[j] = IF j <= Len(d) THEN d[j] ELSE c[j - Len(d)]
  BY <1>a, <1>b, ConcatProperties
<1>7. /\ d \o c \in Seq(X) /\ Len(d \o c) = Len(s) + 1
      /\ \A j \in 1..(Len(s) + 1) : (d \o c)[j] = IF j <= i THEN d[j] ELSE c[j - i]
  BY <1>3, <1>5, <1>6 DEF d
<1>8. ASSUME NEW j \in 1..(Len(s) + 1)
      PROVE  (d \o c)[j] = IF j < i THEN s[j] ELSE IF j = i THEN x ELSE s[j - 1]
  <2>1. CASE j <= i
    <3>1. j \in 1..i /\ (d \o c)[j] = d[j]
      BY <1>7, <2>1
    <3>2. d[j] = IF j < i THEN s[j] ELSE x
      BY <1>5, <3>1 DEF d
    <3> QED
      BY <2>1, <3>1, <3>2
  <2>2. CASE j > i
    <3>1. j - i \in 1..(Len(s) - i + 1) /\ i + (j - i) - 1 = j - 1
      BY <2>2
    <3>2. c[j - i] = s[i + (j - i) - 1]
      BY <1>3, <3>1
    <3>3. (d \o c)[j] = c[j - i]
      BY <1>7, <2>2
    <3>4. ~(j < i) /\ j # i
      BY <2>2
    <3> QED
      BY ONLY <3>1, <3>2, <3>3, <3>4, Zenon
  <2>3. j <= i \/ j > i
    <3>1. Len(s) \in Nat /\ i \in Int /\ j \in Int
      OBVIOUS
    <3> QED
      BY ONLY <3>1
  <2> QED
    BY ONLY <2>1, <2>2, <2>3, Zenon
<1> QED
  BY <1>4, <1>7, <1>8 DEF d

(* InsertAt, RemoveAt and ReplaceAt: the type and the length of the        *)
(* result, then its elements.                                              *)
LEMMA InsertAtIs ==
    ASSUME NEW X, NEW s \in Seq(X), NEW i \in 1..(Len(s) + 1), NEW x \in X
    PROVE  InsertAt(s, i, x) \in Seq(X) /\ Len(InsertAt(s, i, x)) = Len(s) + 1
  BY ONLY InsertAtAll

LEMMA InsertAtHas ==
    ASSUME NEW X, NEW s \in Seq(X), NEW i \in 1..(Len(s) + 1), NEW x \in X,
           NEW j \in 1..(Len(s) + 1)
    PROVE  InsertAt(s, i, x)[j] = IF j < i THEN s[j] ELSE IF j = i THEN x ELSE s[j - 1]
  BY ONLY InsertAtAll

LEMMA RemoveAtAll ==
    ASSUME NEW X, NEW s \in Seq(X), NEW i \in 1..Len(s)
    PROVE  /\ RemoveAt(s, i) \in Seq(X)
           /\ Len(RemoveAt(s, i)) = Len(s) - 1
           /\ \A j \in 1..(Len(s) - 1) : RemoveAt(s, i)[j] = IF j < i THEN s[j] ELSE s[j + 1]
<1> DEFINE a == SubSeq(s, 1, i - 1)
           c == SubSeq(s, i + 1, Len(s))
<1>1. a \in Seq(X) /\ Len(a) = i - 1 /\ \A j \in 1..(i - 1) : a[j] = s[j]
  BY SubSeqProperties
<1>2. c \in Seq(X) /\ Len(c) = Len(s) - i /\ \A j \in 1..(Len(s) - i) : c[j] = s[i + j]
  BY SubSeqProperties
<1>3. RemoveAt(s, i) = a \o c
  BY DEF RemoveAt
<1> HIDE DEF a, c
<1>4. /\ a \o c \in Seq(X) /\ Len(a \o c) = Len(s) - 1
      /\ \A j \in 1..(Len(s) - 1) : (a \o c)[j] = IF j <= i - 1 THEN a[j] ELSE c[j - (i - 1)]
  <2>0. a \in Seq(X) /\ c \in Seq(X)
    BY <1>1, <1>2
  <2>1. /\ a \o c \in Seq(X) /\ Len(a \o c) = Len(a) + Len(c)
        /\ \A j \in 1..(Len(a) + Len(c)) : (a \o c)[j] = IF j <= Len(a) THEN a[j] ELSE c[j - Len(a)]
    BY <2>0, ConcatProperties
  <2>2. Len(a) = i - 1 /\ Len(a) + Len(c) = Len(s) - 1
    BY <1>1, <1>2
  <2> QED
    BY <2>1, <2>2
<1>5. ASSUME NEW j \in 1..(Len(s) - 1)
      PROVE  (a \o c)[j] = IF j < i THEN s[j] ELSE s[j + 1]
  <2>1. CASE j < i
    <3>1. j \in 1..(i - 1) /\ (a \o c)[j] = a[j]
      BY <1>4, <2>1
    <3> QED
      BY <1>1, <2>1, <3>1
  <2>2. CASE j >= i
    <3>1. j - (i - 1) \in 1..(Len(s) - i) /\ i + (j - (i - 1)) = j + 1
      BY <2>2
    <3>2. (a \o c)[j] = c[j - (i - 1)]
      BY <1>4, <2>2
    <3>3. c[j - (i - 1)] = s[i + (j - (i - 1))]
      BY <1>2, <3>1
    <3>4. ~(j < i)
      BY <2>2
    <3> QED
      BY ONLY <3>1, <3>2, <3>3, <3>4, Zenon
  <2>3. j < i \/ j >= i
    <3>1. Len(s) \in Nat /\ i \in Int /\ j \in Int
      OBVIOUS
    <3> QED
      BY ONLY <3>1
  <2> QED
    BY ONLY <2>1, <2>2, <2>3, Zenon
<1> QED
  BY <1>3, <1>4, <1>5

LEMMA RemoveAtIs ==
    ASSUME NEW X, NEW s \in Seq(X), NEW i \in 1..Len(s)
    PROVE  RemoveAt(s, i) \in Seq(X) /\ Len(RemoveAt(s, i)) = Len(s) - 1
  BY ONLY RemoveAtAll

LEMMA RemoveAtHas ==
    ASSUME NEW X, NEW s \in Seq(X), NEW i \in 1..Len(s), NEW j \in 1..(Len(s) - 1)
    PROVE  RemoveAt(s, i)[j] = IF j < i THEN s[j] ELSE s[j + 1]
  BY ONLY RemoveAtAll

(* What was removed can be put back, and to change an element is to remove *)
(* it and to insert another.                                               *)
LEMMA InsertRemoved ==
    ASSUME NEW X, NEW s \in Seq(X), NEW i \in 1..Len(s), NEW x \in X
    PROVE  /\ i \in 1..(Len(RemoveAt(s, i)) + 1)
           /\ s = InsertAt(RemoveAt(s, i), i, s[i])
           /\ ReplaceAt(s, i, x) = InsertAt(RemoveAt(s, i), i, x)
           /\ ReplaceAt(s, i, x) \in Seq(X)
           /\ Len(ReplaceAt(s, i, x)) = Len(s)
<1> DEFINE r == RemoveAt(s, i)
<1>0. Len(s) \in Nat /\ s[i] \in X
  OBVIOUS
<1>1. /\ r \in Seq(X) /\ Len(r) = Len(s) - 1
      /\ \A j \in 1..(Len(s) - 1) : r[j] = IF j < i THEN s[j] ELSE s[j + 1]
  BY RemoveAtIs, RemoveAtHas
<1> HIDE DEF r
<1>2. ASSUME NEW y \in X
      PROVE  /\ InsertAt(r, i, y) \in Seq(X) /\ Len(InsertAt(r, i, y)) = Len(s)
             /\ \A j \in 1..Len(s) : InsertAt(r, i, y)[j] = IF j = i THEN y ELSE s[j]
  <2>1. i \in 1..(Len(r) + 1)
    BY <1>0, <1>1
  <2>2. /\ InsertAt(r, i, y) \in Seq(X) /\ Len(InsertAt(r, i, y)) = Len(s)
        /\ \A j \in 1..Len(s) :
              InsertAt(r, i, y)[j] = IF j < i THEN r[j] ELSE IF j = i THEN y ELSE r[j - 1]
    BY <1>0, <1>1, <2>1, InsertAtIs, InsertAtHas
  <2>3. ASSUME NEW j \in 1..Len(s) PROVE InsertAt(r, i, y)[j] = IF j = i THEN y ELSE s[j]
    <3>1. CASE j < i
      BY <1>0, <1>1, <2>2, <3>1
    <3>2. CASE j = i
      BY <2>2, <3>2
    <3>3. CASE j > i
      <4>1. j - 1 \in 1..(Len(s) - 1) /\ ~(j - 1 < i) /\ (j - 1) + 1 = j
        BY <1>0, <3>3
      <4> QED
        BY <1>1, <2>2, <3>3, <4>1
    <3> QED
      BY <3>1, <3>2, <3>3
  <2> QED
    BY <2>2, <2>3
<1>3. s = InsertAt(r, i, s[i])
  BY <1>0, <1>2, SeqEqual
<1>4. /\ [s EXCEPT ![i] = x] \in Seq(X) /\ Len([s EXCEPT ![i] = x]) = Len(s)
      /\ \A j \in 1..Len(s) : [s EXCEPT ![i] = x][j] = IF j = i THEN x ELSE s[j]
  BY ExceptSeq
<1>5. [s EXCEPT ![i] = x] = InsertAt(r, i, x)
  <2> DEFINE t == [s EXCEPT ![i] = x]
             u == InsertAt(r, i, x)
  <2>1. /\ t \in Seq(X) /\ u \in Seq(X) /\ Len(t) = Len(u)
        /\ \A j \in 1..Len(t) : t[j] = u[j]
    BY <1>2, <1>4
  <2> HIDE DEF t, u
  <2>2. t = u
    BY <2>1, SeqEqual
  <2> QED
    BY <2>2 DEF t, u
<1> QED
  BY <1>0, <1>1, <1>3, <1>4, <1>5 DEF r, ReplaceAt

LEMMA ReplaceAtIs ==
    ASSUME NEW X, NEW s \in Seq(X), NEW i \in 1..Len(s), NEW x \in X
    PROVE  ReplaceAt(s, i, x) \in Seq(X) /\ Len(ReplaceAt(s, i, x)) = Len(s)
  BY InsertRemoved

LEMMA ReplaceAtHas ==
    ASSUME NEW X, NEW s \in Seq(X), NEW i \in 1..Len(s), NEW x \in X, NEW j \in 1..Len(s)
    PROVE  ReplaceAt(s, i, x)[j] = IF j = i THEN x ELSE s[j]
  BY DEF ReplaceAt

(* One more number adds to the total, wherever it is put.                  *)
LEMMA TotalInsert ==
    ASSUME NEW s \in Seq(Int), NEW i \in 1..(Len(s) + 1), NEW x \in Int
    PROVE  Total(InsertAt(s, i, x)) = Total(s) + x
<1> DEFINE t == InsertAt(s, i, x)
<1>0. Len(s) \in Nat /\ \A n \in 1..Len(s) : s[n] \in Int
  OBVIOUS
<1>1. /\ t \in Seq(Int) /\ Len(t) = Len(s) + 1
      /\ \A j \in 1..(Len(s) + 1) : t[j] = IF j < i THEN s[j] ELSE IF j = i THEN x ELSE s[j - 1]
  <2>0. PICK Z : Z = Int
    OBVIOUS
  <2>1. t \in Seq(Int) /\ Len(t) = Len(s) + 1
    BY InsertAtIs
  <2>2. ASSUME NEW j \in 1..(Len(s) + 1)
        PROVE  t[j] = IF j < i THEN s[j] ELSE IF j = i THEN x ELSE s[j - 1]
    <3>1. s \in Seq(Z) /\ x \in Z
      BY <2>0
    <3> QED
      BY <3>1, InsertAtHas
  <2> QED
    BY <2>1, <2>2
<1> HIDE DEF t
<1>2. PICK f : /\ f[0] = 0
               /\ \A n \in 0..Len(s) : f[n] \in Int
               /\ \A n \in 1..Len(s) : f[n] = f[n - 1] + s[n]
               /\ Total(s) = f[Len(s)]
  BY TotalIs
<1>3. PICK g : /\ g[0] = 0
               /\ \A n \in 0..Len(t) : g[n] \in Int
               /\ \A n \in 1..Len(t) : g[n] = g[n - 1] + t[n]
               /\ Total(t) = g[Len(t)]
  BY <1>1, TotalIs
<1> DEFINE S == {n \in Nat : g[n] = IF n < i THEN f[n] ELSE f[n - 1] + x}
<1>4. 0 \in S
  BY <1>2, <1>3
<1>5. ASSUME NEW n \in 1..(Len(s) + 1), n - 1 \in S PROVE n \in S
  <2>1. g[n] = g[n - 1] + t[n] /\ g[n - 1] = IF n - 1 < i THEN f[n - 1] ELSE f[n - 1 - 1] + x
    BY <1>1, <1>3, <1>5
  <2>2. CASE n < i
    <3>1. n \in 1..Len(s) /\ t[n] = s[n] /\ n - 1 < i
      BY <1>0, <1>1, <2>2
    <3> QED
      BY <1>2, <2>1, <2>2, <3>1
  <2>3. CASE n = i
    <3>1. t[n] = x /\ n - 1 < i
      BY <1>1, <2>3
    <3> QED
      BY <2>1, <2>3, <3>1
  <2>4. CASE n > i
    <3>1. n - 1 \in 1..Len(s) /\ t[n] = s[n - 1] /\ ~(n - 1 < i) /\ n - 1 - 1 \in 0..Len(s)
      BY <1>0, <1>1, <2>4
    <3>2. f[n - 1] = f[n - 1 - 1] + s[n - 1] /\ f[n - 1 - 1] \in Int /\ s[n - 1] \in Int
      BY <1>0, <1>2, <3>1
    <3>3. g[n] = (f[n - 1 - 1] + x) + s[n - 1]
      BY <2>1, <3>1
    <3>4. g[n] = f[n - 1] + x
      BY <3>2, <3>3
    <3> QED
      BY <2>4, <3>4
  <2> QED
    BY <2>2, <2>3, <2>4
<1>6. \A n \in 0..(Len(s) + 1) : n \in S
  <2> HIDE DEF S
  <2>1. Len(s) + 1 \in Nat
    BY <1>0
  <2> QED
    BY <1>4, <1>5, <2>1, UpTo
<1>7. Len(s) + 1 \in S
  BY <1>0, <1>6
<1>8. g[Len(s) + 1] = f[Len(s)] + x
  BY <1>0, <1>7
<1> QED
  BY <1>1, <1>2, <1>3, <1>8 DEF t
-----------------------------------------------------------------------------
(* How often x is on a list, and the pages of the ranges on a list.        *)

Count(x, s) == Total([j \in DOMAIN s |-> IF s[j] = x THEN 1 ELSE 0])
Sizes(s) == Total([j \in DOMAIN s |-> range_size(s[j])])

(* A sequence mapped to numbers, and mapped after an insertion.            *)
LEMMA MapIs ==
    ASSUME NEW X, NEW s \in Seq(X), NEW w \in [X -> Int]
    PROVE  /\ [j \in DOMAIN s |-> w[s[j]]] \in Seq(Int)
           /\ Len([j \in DOMAIN s |-> w[s[j]]]) = Len(s)
           /\ \A j \in 1..Len(s) : [k \in DOMAIN s |-> w[s[k]]][j] = w[s[j]]
<1>1. Len(s) \in Nat /\ DOMAIN s = 1..Len(s) /\ \A j \in 1..Len(s) : s[j] \in X
  OBVIOUS
<1>2. \A j \in 1..Len(s) : w[s[j]] \in Int
  BY <1>1
<1>3. [j \in DOMAIN s |-> w[s[j]]] = [j \in 1..Len(s) |-> w[s[j]]]
  BY <1>1
<1>4. [j \in 1..Len(s) |-> w[s[j]]] \in Seq(Int)
  BY <1>1, <1>2, IsASeq
<1>5. Len([j \in 1..Len(s) |-> w[s[j]]]) = Len(s)
  BY <1>1, <1>2
<1> QED
  BY <1>3, <1>4, <1>5

LEMMA MapInsert ==
    ASSUME NEW X, NEW s \in Seq(X), NEW i \in 1..(Len(s) + 1), NEW y \in X, NEW w \in [X -> Int]
    PROVE  Total([j \in DOMAIN InsertAt(s, i, y) |-> w[InsertAt(s, i, y)[j]]]) =
              Total([j \in DOMAIN s |-> w[s[j]]]) + w[y]
<1>0. Len(s) \in Nat /\ w[y] \in Int
  OBVIOUS
<1> DEFINE t == InsertAt(s, i, y)
<1>1. /\ t \in Seq(X) /\ Len(t) = Len(s) + 1
      /\ \A j \in 1..(Len(s) + 1) : t[j] = IF j < i THEN s[j] ELSE IF j = i THEN y ELSE s[j - 1]
  <2>1. t \in Seq(X) /\ Len(t) = Len(s) + 1
    BY InsertAtIs
  <2>2. ASSUME NEW j \in 1..(Len(s) + 1)
        PROVE  t[j] = IF j < i THEN s[j] ELSE IF j = i THEN y ELSE s[j - 1]
    BY InsertAtHas
  <2> QED
    BY <2>1, <2>2
<1> HIDE DEF t
<1> DEFINE m == [j \in DOMAIN s |-> w[s[j]]]
<1>2. m \in Seq(Int) /\ Len(m) = Len(s) /\ \A j \in 1..Len(s) : m[j] = w[s[j]]
  BY MapIs
<1> HIDE DEF m
<1> DEFINE n == [j \in DOMAIN t |-> w[t[j]]]
<1>3. n \in Seq(Int) /\ Len(n) = Len(s) + 1 /\ \A j \in 1..(Len(s) + 1) : n[j] = w[t[j]]
  BY <1>1, MapIs
<1> HIDE DEF n
<1>a. i \in 1..(Len(m) + 1)
  BY <1>2
<1> DEFINE o == InsertAt(m, i, w[y])
<1>4. /\ o \in Seq(Int) /\ Len(o) = Len(s) + 1
      /\ \A j \in 1..(Len(s) + 1) : o[j] = IF j < i THEN m[j] ELSE IF j = i THEN w[y] ELSE m[j - 1]
  <2> HIDE DEF o
  <2>1. o \in Seq(Int) /\ Len(o) = Len(m) + 1
    BY <1>0, <1>2, <1>a, InsertAtIs DEF o
  <2>2. ASSUME NEW j \in 1..(Len(m) + 1)
        PROVE  o[j] = IF j < i THEN m[j] ELSE IF j = i THEN w[y] ELSE m[j - 1]
    <3>1. PICK Z : Z = Int
      OBVIOUS
    <3>2. m \in Seq(Z) /\ w[y] \in Z
      BY <1>0, <1>2, <3>1
    <3> QED
      BY <1>a, <3>2, InsertAtHas DEF o
  <2> QED
    BY <1>2, <2>1, <2>2
<1> HIDE DEF o
<1>5. ASSUME NEW j \in 1..(Len(s) + 1) PROVE n[j] = o[j]
  <2>1. CASE j < i
    <3>1. j \in 1..Len(s)
      BY <1>0, <2>1
    <3>2. n[j] = w[t[j]] /\ t[j] = s[j] /\ m[j] = w[s[j]] /\ o[j] = m[j]
      BY <1>1, <1>2, <1>3, <1>4, <2>1, <3>1
    <3> QED
      BY ONLY <3>2, Zenon
  <2>2. CASE j = i
    BY <1>1, <1>3, <1>4, <2>2
  <2>3. CASE j > i
    <3>1. j - 1 \in 1..Len(s)
      BY <1>0, <2>3
    <3>2. ~(j < i) /\ j # i
      BY <2>3
    <3>3. n[j] = w[t[j]] /\ t[j] = s[j - 1]
      BY <1>1, <1>3, <3>2
    <3>4. o[j] = m[j - 1]
      BY <1>4, <3>2
    <3>5. m[j - 1] = w[s[j - 1]]
      BY <1>2, <3>1
    <3> QED
      BY ONLY <3>3, <3>4, <3>5, Zenon
  <2>4. j < i \/ j = i \/ j > i
    OBVIOUS
  <2> QED
    BY ONLY <2>1, <2>2, <2>3, <2>4
<1>6. n = o
  BY <1>3, <1>4, <1>5, SeqEqual
<1>7. Total(o) = Total(m) + w[y]
  BY <1>0, <1>2, <1>a, TotalInsert DEF o
<1> QED
  BY <1>6, <1>7 DEF m, n, o, t

(* An insertion adds one to the count of what is inserted, and its size to *)
(* the sizes; a removal and a replacement follow from it.                  *)
LEMMA CountInsert ==
    ASSUME NEW X, NEW s \in Seq(X), NEW i \in 1..(Len(s) + 1), NEW y \in X, NEW x
    PROVE  Count(x, InsertAt(s, i, y)) = Count(x, s) + (IF y = x THEN 1 ELSE 0)
<1> DEFINE w == [z \in X |-> IF z = x THEN 1 ELSE 0]
<1>1. w \in [X -> Int] /\ \A z \in X : w[z] = IF z = x THEN 1 ELSE 0
  OBVIOUS
<1> HIDE DEF w
<1>2. ASSUME NEW t \in Seq(X) PROVE Count(x, t) = Total([j \in DOMAIN t |-> w[t[j]]])
  <2>1. \A j \in DOMAIN t : t[j] \in X
    OBVIOUS
  <2>2. [j \in DOMAIN t |-> IF t[j] = x THEN 1 ELSE 0] = [j \in DOMAIN t |-> w[t[j]]]
    BY <1>1, <2>1
  <2> QED
    BY <2>2 DEF Count
<1>3. InsertAt(s, i, y) \in Seq(X)
  BY InsertAtIs
<1>4. Total([j \in DOMAIN InsertAt(s, i, y) |-> w[InsertAt(s, i, y)[j]]]) =
         Total([j \in DOMAIN s |-> w[s[j]]]) + w[y]
  BY <1>1, MapInsert, Z3
<1> QED
  BY <1>1, <1>2, <1>3, <1>4

(* What is counted is in the sequence.                                     *)
LEMMA CountIs ==
    ASSUME NEW X, NEW s \in Seq(X), NEW x
    PROVE  /\ Count(x, s) \in Nat
           /\ Count(x, s) # 0 <=> \E j \in 1..Len(s) : s[j] = x
<1> DEFINE w == [z \in X |-> IF z = x THEN 1 ELSE 0]
           m == [j \in DOMAIN s |-> w[s[j]]]
<1>1. w \in [X -> Int] /\ \A z \in X : w[z] = IF z = x THEN 1 ELSE 0
  OBVIOUS
<1>2. m \in Seq(Int) /\ Len(m) = Len(s) /\ \A j \in 1..Len(s) : m[j] = w[s[j]]
  <2> HIDE DEF w
  <2> QED
    BY <1>1, MapIs
<1>3. ASSUME NEW t \in Seq(X)
      PROVE  /\ Count(x, t) \in Nat
             /\ (\A j \in 1..Len(t) : t[j] # x) => Count(x, t) = 0
  <2> DEFINE n == [j \in DOMAIN t |-> IF t[j] = x THEN 1 ELSE 0]
  <2>1. Len(t) \in Nat /\ DOMAIN t = 1..Len(t)
    OBVIOUS
  <2>2. n \in Seq(Int) /\ Len(n) = Len(t) /\ \A j \in 1..Len(t) : n[j] = IF t[j] = x THEN 1 ELSE 0
    <3>1. n = [j \in 1..Len(t) |-> IF t[j] = x THEN 1 ELSE 0]
      BY <2>1
    <3> QED
      BY <2>1, <3>1
  <2> HIDE DEF n
  <2>3. \A j \in 1..Len(n) : n[j] >= 0
    BY <2>2
  <2>4. Total(n) \in Nat /\ ((\A j \in 1..Len(n) : n[j] = 0) => Total(n) = 0)
    BY <2>2, <2>3, TotalNat
  <2> QED
    BY <2>2, <2>4 DEF Count, n
<1>4. ASSUME NEW j \in 1..Len(s), s[j] = x PROVE Count(x, s) # 0
  <2>1. s[j] \in X
    OBVIOUS
  <2>2. /\ RemoveAt(s, j) \in Seq(X)
        /\ j \in 1..(Len(RemoveAt(s, j)) + 1)
        /\ s = InsertAt(RemoveAt(s, j), j, s[j])
    BY <2>1, RemoveAtIs, InsertRemoved
  <2>3. Count(x, s) = Count(x, RemoveAt(s, j)) + 1
    BY <1>4, <2>1, <2>2, CountInsert
  <2>4. Count(x, RemoveAt(s, j)) \in Nat
    BY <1>3, <2>2
  <2> QED
    BY <2>3, <2>4
<1> QED
  BY <1>3, <1>4

LEMMA SizesInsert ==
    ASSUME NEW X, \A z \in X : range_size(z) \in Int,
           NEW s \in Seq(X), NEW i \in 1..(Len(s) + 1), NEW y \in X
    PROVE  Sizes(InsertAt(s, i, y)) = Sizes(s) + range_size(y)
<1> DEFINE w == [z \in X |-> range_size(z)]
<1>1. w \in [X -> Int] /\ \A z \in X : w[z] = range_size(z)
  OBVIOUS
<1> HIDE DEF w
<1>2. ASSUME NEW t \in Seq(X) PROVE Sizes(t) = Total([j \in DOMAIN t |-> w[t[j]]])
  <2>1. \A j \in DOMAIN t : t[j] \in X
    OBVIOUS
  <2>2. [j \in DOMAIN t |-> range_size(t[j])] = [j \in DOMAIN t |-> w[t[j]]]
    BY <1>1, <2>1
  <2> QED
    BY <2>2 DEF Sizes
<1>3. InsertAt(s, i, y) \in Seq(X)
  BY InsertAtIs
<1>4. Total([j \in DOMAIN InsertAt(s, i, y) |-> w[InsertAt(s, i, y)[j]]]) =
         Total([j \in DOMAIN s |-> w[s[j]]]) + w[y]
  BY <1>1, MapInsert
<1> QED
  BY <1>1, <1>2, <1>3, <1>4

LEMMA SizesInt ==
    ASSUME NEW X, \A z \in X : range_size(z) \in Int, NEW s \in Seq(X)
    PROVE  Sizes(s) \in Int
<1> DEFINE m == [j \in DOMAIN s |-> range_size(s[j])]
<1>1. Len(s) \in Nat /\ DOMAIN s = 1..Len(s) /\ \A j \in 1..Len(s) : range_size(s[j]) \in Int
  OBVIOUS
<1>2. m = [j \in 1..Len(s) |-> range_size(s[j])]
  BY <1>1
<1>3. [j \in 1..Len(s) |-> range_size(s[j])] \in Seq(Int)
  BY <1>1, IsASeq
<1>4. m \in Seq(Int)
  BY <1>2, <1>3
<1> HIDE DEF m
<1>5. Len(m) \in Nat
  BY <1>4
<1>6. Total(m) \in Int
  BY <1>4, <1>5, TotalIs
<1> QED
  BY <1>6 DEF Sizes, m

(* Removal and change, from InsertRemoved.                                 *)
LEMMA Removed ==
    ASSUME NEW X, NEW s \in Seq(X), NEW i \in 1..Len(s), NEW x
    PROVE  /\ Count(x, RemoveAt(s, i)) = Count(x, s) - (IF s[i] = x THEN 1 ELSE 0)
           /\ (\A z \in X : range_size(z) \in Int) => Sizes(RemoveAt(s, i)) = Sizes(s) - range_size(s[i])
<1> DEFINE r == RemoveAt(s, i)
<1>1. s[i] \in X /\ r \in Seq(X)
  BY RemoveAtIs
<1>2. i \in 1..(Len(r) + 1) /\ s = InsertAt(r, i, s[i])
  BY <1>1, InsertRemoved
<1> HIDE DEF r
<1>3. Count(x, s) = Count(x, r) + (IF s[i] = x THEN 1 ELSE 0)
  BY <1>1, <1>2, CountInsert
<1>4. Count(x, r) \in Nat
  BY <1>1, CountIs
<1>5. ASSUME \A z \in X : range_size(z) \in Int
      PROVE  Sizes(r) = Sizes(s) - range_size(s[i])
  <2>1. Sizes(s) = Sizes(r) + range_size(s[i])
    BY <1>1, <1>2, <1>5, SizesInsert
  <2>2. Sizes(r) \in Int /\ range_size(s[i]) \in Int
    BY <1>1, <1>5, SizesInt
  <2> QED
    BY <2>1, <2>2
<1> QED
  BY <1>3, <1>4, <1>5 DEF r

LEMMA CountRemoved ==
    ASSUME NEW X, NEW s \in Seq(X), NEW i \in 1..Len(s), NEW x
    PROVE  Count(x, RemoveAt(s, i)) = Count(x, s) - (IF s[i] = x THEN 1 ELSE 0)
  BY ONLY Removed

LEMMA SizesRemoved ==
    ASSUME NEW X, \A z \in X : range_size(z) \in Int, NEW s \in Seq(X), NEW i \in 1..Len(s)
    PROVE  Sizes(RemoveAt(s, i)) = Sizes(s) - range_size(s[i])
  BY ONLY Removed, \A z \in X : range_size(z) \in Int

LEMMA CountChanged ==
    ASSUME NEW X, NEW s \in Seq(X), NEW i \in 1..Len(s), NEW y \in X, NEW x
    PROVE  Count(x, ReplaceAt(s, i, y)) =
              Count(x, s) - (IF s[i] = x THEN 1 ELSE 0) + (IF y = x THEN 1 ELSE 0)
<1> DEFINE r == RemoveAt(s, i)
           t == ReplaceAt(s, i, y)
<1>1. r \in Seq(X)
  BY RemoveAtIs
<1>2. i \in 1..(Len(r) + 1) /\ t = InsertAt(r, i, y)
  BY InsertRemoved
<1>3. Count(x, r) = Count(x, s) - (IF s[i] = x THEN 1 ELSE 0)
  BY CountRemoved
<1> HIDE DEF r, t
<1>4. Count(x, t) = Count(x, r) + (IF y = x THEN 1 ELSE 0)
  BY <1>1, <1>2, CountInsert
<1> QED
  BY <1>3, <1>4 DEF t

LEMMA SizesChanged ==
    ASSUME NEW X, \A z \in X : range_size(z) \in Int, NEW s \in Seq(X), NEW i \in 1..Len(s),
           NEW y \in X
    PROVE  Sizes(ReplaceAt(s, i, y)) = Sizes(s) - range_size(s[i]) + range_size(y)
<1> DEFINE r == RemoveAt(s, i)
           t == ReplaceAt(s, i, y)
<1>1. r \in Seq(X)
  BY RemoveAtIs
<1>2. i \in 1..(Len(r) + 1) /\ t = InsertAt(r, i, y)
  BY InsertRemoved
<1>3. Sizes(r) = Sizes(s) - range_size(s[i])
  BY SizesRemoved
<1> HIDE DEF r, t
<1>4. Sizes(t) = Sizes(r) + range_size(y)
  BY <1>1, <1>2, SizesInsert
<1> QED
  BY <1>3, <1>4 DEF t

-----------------------------------------------------------------------------
(* The first place on a list where something is.                           *)

LEMMA MinIs ==
    ASSUME NEW S \in SUBSET Nat, S # {}
    PROVE  Min(S) \in S /\ \A n \in S : Min(S) <= n
<1> DEFINE R == OpToRel(<, Nat)
<1>1. IsWellFoundedOn(R, Nat)
  BY NatLessThanWellFounded, Zenon
<1>2. \A m, n \in Nat : <<m, n>> \in R <=> m < n
  BY Zenon DEF OpToRel
<1> HIDE DEF R
<1>3. PICK n \in S : \A m \in S : ~(<<m, n>> \in R)
  BY <1>1, WFMin
<1>a. \A m \in S : m \in Nat /\ n \in Nat
  OBVIOUS
<1>b. \A m \in S : ~(m < n)
  BY <1>2, <1>3, <1>a
<1>4. \A m \in S : n <= m
  BY <1>a, <1>b
<1> DEFINE x == CHOOSE x \in S : \A y \in S : x =< y
<1>5. x \in S /\ \A y \in S : x =< y
  BY <1>4, Zenon
<1> HIDE DEF x
<1> QED
  BY <1>5 DEF Min, x

(* What SelectInSeq finds.                                                 *)
LEMMA FirstIs ==
    ASSUME NEW X, NEW s \in Seq(X), NEW e, \E j \in 1..Len(s) : s[j] = e
    PROVE  /\ SelectInSeq(s, LAMBDA x : x = e) \in 1..Len(s)
           /\ s[SelectInSeq(s, LAMBDA x : x = e)] = e
<1> DEFINE I == {i \in 1..Len(s) : s[i] = e}
<1>1. I \in SUBSET Nat /\ I # {}
  OBVIOUS
<1>2. SelectInSeq(s, LAMBDA x : x = e) = Min(I)
  BY <1>1 DEF SelectInSeq
<1> HIDE DEF I
<1>3. Min(I) \in I
  BY <1>1, MinIs
<1> QED
  BY <1>2, <1>3 DEF I
-----------------------------------------------------------------------------
(* The lists as each step of a call leaves them: whatever their order, the *)
(* ranges that are not purged are as often on the list of the shrinker as  *)
(* on that of their area.                                                  *)

Proper(a) == {r \in Ranges(a) : <<r.pgstart, r.pgend>> \in Requests(a)}
Entries == UNION {{OnLru(a, r) : r \in Proper(a)} : a \in Areas}

Balanced(st) ==
    /\ \A a \in Areas : \A r \in Proper(a) :
          ~r.purged => Count(r, st.list[a]) = Count(OnLru(a, r), st.lru)
    /\ st.count = Sizes(st.lru)

Good ==
    {st \in [list : [Areas -> UNION {Seq(Proper(a)) : a \in Areas}], lru : Seq(Entries), count : Int] :
        /\ \A a \in Areas : st.list[a] \in Seq(Proper(a))
        /\ Balanced(st)}

(* Requests, ranges and entries, made and taken apart.                     *)
LEMMA SizeIs ==
    ASSUME NEW a \in Areas
    PROVE  Size[a] \in Nat \ {0}
  BY SizeAssumption

LEMMA RequestIs ==
    ASSUME NEW a \in Areas, NEW s, NEW e
    PROVE  <<s, e>> \in Requests(a) <=>
              /\ s \in Nat /\ e \in Nat
              /\ \/ s <= e /\ e < Size[a]
                 \/ s = Size[a] /\ e = Size[a] - 1
<1>1. Size[a] \in Nat \ {0}
  BY SizeIs
<1> QED
  BY <1>1 DEF Requests, Pages

LEMMA ProperIs ==
    ASSUME NEW a \in Areas, NEW s, NEW e, NEW p \in BOOLEAN
    PROVE  <<s, e>> \in Requests(a) => [pgstart |-> s, pgend |-> e, purged |-> p] \in Proper(a)
<1>1. Size[a] \in Nat \ {0}
  BY SizeIs
<1>2. <<s, e>> \in Requests(a) => s \in 0..Size[a] /\ e \in 0..(Size[a] - 1)
  BY <1>1, RequestIs
<1> QED
  BY <1>2 DEF Proper, Ranges, Pages

LEMMA ProperHas ==
    ASSUME NEW a \in Areas, NEW r \in Proper(a)
    PROVE  /\ r = [pgstart |-> r.pgstart, pgend |-> r.pgend, purged |-> r.purged]
           /\ r.pgstart \in Nat /\ r.pgend \in Nat /\ r.purged \in BOOLEAN
           /\ \/ r.pgstart <= r.pgend /\ r.pgend < Size[a]
              \/ r.pgstart = Size[a] /\ r.pgend = Size[a] - 1
           /\ <<r.pgstart, r.pgend>> \in Requests(a)
<1>1. r \in Ranges(a) /\ <<r.pgstart, r.pgend>> \in Requests(a)
  BY DEF Proper
<1> QED
  BY <1>1, RequestIs DEF Ranges

LEMMA EntryIs ==
    ASSUME NEW a \in Areas, NEW r \in Proper(a)
    PROVE  OnLru(a, r) \in Entries /\ range_size(OnLru(a, r)) = range_size(r)
  BY DEF Entries, OnLru, range_size

LEMMA EntryHas ==
    ASSUME NEW e \in Entries
    PROVE  /\ e.asma \in Areas
           /\ \E r \in Proper(e.asma) : ~r.purged /\ e = OnLru(e.asma, r)
<1>0. PICK a \in Areas : \E q \in Proper(a) : e = OnLru(a, q)
  BY DEF Entries
<1>1. PICK q \in Proper(a) : e = OnLru(a, q)
  BY <1>0
<1>2. e.asma = a
  BY <1>1 DEF OnLru
<1> DEFINE r == [pgstart |-> q.pgstart, pgend |-> q.pgend, purged |-> FALSE]
<1>3. r \in Proper(a)
  BY ProperHas, ProperIs
<1>4. e = OnLru(a, r)
  BY <1>1 DEF OnLru
<1> QED
  BY <1>2, <1>3, <1>4

(* An entry tells its area and its range.                                  *)
LEMMA EntryOfOne ==
    ASSUME NEW a \in Areas, NEW r \in Proper(a), NEW b \in Areas, NEW q \in Proper(b)
    PROVE  OnLru(a, r) = OnLru(b, q) => a = b /\ (r.purged = q.purged => r = q)
<1>1. /\ r = [pgstart |-> r.pgstart, pgend |-> r.pgend, purged |-> r.purged]
      /\ q = [pgstart |-> q.pgstart, pgend |-> q.pgend, purged |-> q.purged]
  BY ProperHas
<1>2. ASSUME OnLru(a, r) = OnLru(b, q)
      PROVE  a = b /\ r.pgstart = q.pgstart /\ r.pgend = q.pgend
  BY <1>2 DEF OnLru
<1> QED
  BY <1>1, <1>2

LEMMA EntrySizes == \A e \in Entries : range_size(e) \in Int
<1> SUFFICES ASSUME NEW e \in Entries PROVE range_size(e) \in Int
  OBVIOUS
<1>1. PICK a \in Areas : \E r \in Proper(a) : e = OnLru(a, r)
  BY DEF Entries
<1>2. PICK r \in Proper(a) : e = OnLru(a, r)
  BY <1>1
<1>3. r.pgstart \in Nat /\ r.pgend \in Nat
  BY ProperHas
<1>4. range_size(r) \in Int
  BY <1>3 DEF range_size
<1> QED
  BY <1>2, <1>4, EntryIs

(* One area's list has changed, and that of the shrinker with it.          *)
LEMMA StaysGood ==
    ASSUME NEW st \in Good, NEW a \in Areas, NEW s \in Seq(Proper(a)),
           NEW l \in Seq(Entries), NEW c,
           \A r \in Proper(a) : ~r.purged =>
              Count(r, s) - Count(r, st.list[a]) = Count(OnLru(a, r), l) - Count(OnLru(a, r), st.lru),
           \A b \in Areas : b # a => \A r \in Proper(b) :
              Count(OnLru(b, r), l) = Count(OnLru(b, r), st.lru),
           c = Sizes(l)
    PROVE  [list |-> [st.list EXCEPT ![a] = s], lru |-> l, count |-> c] \in Good
<1> DEFINE m == [st.list EXCEPT ![a] = s]
           t == [list |-> m, lru |-> l, count |-> c]
<1>1. /\ st.list \in [Areas -> UNION {Seq(Proper(b)) : b \in Areas}]
      /\ \A b \in Areas : st.list[b] \in Seq(Proper(b))
      /\ st.lru \in Seq(Entries)
      /\ Balanced(st)
  BY DEF Good
<1>2. m \in [Areas -> UNION {Seq(Proper(b)) : b \in Areas}]
  BY <1>1
<1>3. \A b \in Areas : m[b] = IF b = a THEN s ELSE st.list[b]
  BY <1>1
<1> HIDE DEF m
<1>4. c \in Int
  BY EntrySizes, SizesInt
<1>5. t \in [list : [Areas -> UNION {Seq(Proper(b)) : b \in Areas}], lru : Seq(Entries), count : Int]
  BY <1>2, <1>4
<1>6. \A b \in Areas : t.list[b] \in Seq(Proper(b))
  BY <1>1, <1>3
<1>7. ASSUME NEW b \in Areas, NEW r \in Proper(b), ~r.purged
      PROVE  Count(r, m[b]) = Count(OnLru(b, r), l)
  <2>1. Count(r, st.list[b]) = Count(OnLru(b, r), st.lru)
    BY <1>1, <1>7 DEF Balanced
  <2>2. CASE b = a
    <3>1. /\ Count(r, s) \in Nat /\ Count(r, st.list[a]) \in Nat
          /\ Count(OnLru(a, r), l) \in Nat /\ Count(OnLru(a, r), st.lru) \in Nat
      BY <1>1, CountIs
    <3>2. Count(r, s) - Count(r, st.list[a]) = Count(OnLru(a, r), l) - Count(OnLru(a, r), st.lru)
      BY <1>7, <2>2
    <3>3. Count(r, s) = Count(OnLru(a, r), l)
      BY <2>1, <2>2, <3>1, <3>2
    <3> QED
      BY <1>3, <2>2, <3>3
  <2>3. CASE b # a
    BY <1>3, <2>1, <2>3
  <2> QED
    BY <2>2, <2>3
<1>8. Balanced(t)
  BY <1>7 DEF Balanced
<1> QED
  BY <1>5, <1>6, <1>8 DEF Good, m

LEMMA GoodHas ==
    ASSUME NEW st \in Good
    PROVE  /\ st = [list |-> st.list, lru |-> st.lru, count |-> st.count]
           /\ DOMAIN st.list = Areas
           /\ \A a \in Areas : st.list[a] \in Seq(Proper(a)) /\ Len(st.list[a]) \in Nat
           /\ st.lru \in Seq(Entries) /\ Len(st.lru) \in Nat
           /\ st.count \in Int /\ st.count = Sizes(st.lru)
           /\ \A a \in Areas : \A r \in Proper(a) :
                 ~r.purged => Count(r, st.list[a]) = Count(OnLru(a, r), st.lru)
  BY DEF Good, Balanced

(* range_alloc and range_del keep the lists Good.                          *)
LEMMA AllocKeeps ==
    ASSUME NEW st \in Good, NEW a \in Areas, NEW i \in 1..(Len(st.list[a]) + 1), NEW r \in Proper(a)
    PROVE  /\ range_alloc(st, a, i, r) \in Good
           /\ range_alloc(st, a, i, r).list = [st.list EXCEPT ![a] = InsertAt(st.list[a], i, r)]
<1> DEFINE s == InsertAt(st.list[a], i, r)
           e == OnLru(a, r)
           l == InsertAt(st.lru, Len(st.lru) + 1, e)
<1>1. /\ st = [list |-> st.list, lru |-> st.lru, count |-> st.count]
      /\ DOMAIN st.list = Areas
      /\ st.list[a] \in Seq(Proper(a))
      /\ st.lru \in Seq(Entries) /\ Len(st.lru) \in Nat
      /\ st.count \in Int /\ st.count = Sizes(st.lru)
  BY GoodHas
<1>2. s \in Seq(Proper(a))
  BY <1>1, InsertAtIs
<1>3. e \in Entries /\ range_size(e) = range_size(r)
  BY EntryIs
<1>4. \A q \in Proper(a) : Count(q, s) = Count(q, st.list[a]) + (IF r = q THEN 1 ELSE 0)
  <2>1. ASSUME NEW q \in Proper(a)
        PROVE  Count(q, s) = Count(q, st.list[a]) + (IF r = q THEN 1 ELSE 0)
    BY <1>1, CountInsert
  <2> QED
    BY <2>1
<1>5. \A q \in Proper(a) : Count(q, st.list[a]) \in Nat
  BY <1>1, CountIs
<1>6. \A x : Count(x, st.lru) \in Nat
  BY <1>1, CountIs
<1>9. r.purged \in BOOLEAN
  BY ProperHas
<1> HIDE DEF s, e
<1>7. CASE r.purged
  <2>1. range_alloc(st, a, i, r) = [list |-> [st.list EXCEPT ![a] = s], lru |-> st.lru, count |-> st.count]
    BY <1>1, <1>7 DEF range_alloc, s
  <2>2. ASSUME NEW q \in Proper(a), ~q.purged
        PROVE  Count(q, s) - Count(q, st.list[a]) = Count(OnLru(a, q), st.lru) - Count(OnLru(a, q), st.lru)
    <3>1. r # q
      BY <1>7, <2>2
    <3> QED
      BY <1>4, <1>5, <1>6, <3>1
  <2>3. [list |-> [st.list EXCEPT ![a] = s], lru |-> st.lru, count |-> st.count] \in Good
    BY <1>1, <1>2, <2>2, StaysGood
  <2> QED
    BY <2>1, <2>3 DEF s
<1>8. CASE ~r.purged
  <2>0. l = Append(st.lru, e) /\ l \in Seq(Entries)
    <3>1. Len(st.lru) + 1 \in 1..(Len(st.lru) + 1)
      BY <1>1
    <3>2. /\ l \in Seq(Entries) /\ Len(l) = Len(st.lru) + 1
          /\ \A j \in 1..(Len(st.lru) + 1) :
                l[j] = IF j < Len(st.lru) + 1 THEN st.lru[j]
                       ELSE IF j = Len(st.lru) + 1 THEN e ELSE st.lru[j - 1]
      <4> HIDE DEF l
      <4>1. l \in Seq(Entries) /\ Len(l) = Len(st.lru) + 1
        <5>1. PICK q, y, k : q = st.lru /\ y = e /\ k = Len(st.lru) + 1
          OBVIOUS
        <5>2. q \in Seq(Entries) /\ y \in Entries /\ k \in 1..(Len(q) + 1)
          BY <1>1, <1>3, <3>1, <5>1
        <5>3. InsertAt(q, k, y) \in Seq(Entries) /\ Len(InsertAt(q, k, y)) = Len(q) + 1
          BY <5>2, InsertAtIs
        <5> QED
          BY <5>1, <5>3 DEF l
      <4>2. ASSUME NEW j \in 1..(Len(st.lru) + 1)
            PROVE  l[j] = IF j < Len(st.lru) + 1 THEN st.lru[j]
                          ELSE IF j = Len(st.lru) + 1 THEN e ELSE st.lru[j - 1]
        BY <1>1, <1>3, <3>1, InsertAtHas DEF l
      <4> QED
        BY <4>1, <4>2
    <3> HIDE DEF l
    <3>3. /\ Append(st.lru, e) \in Seq(Entries) /\ Len(Append(st.lru, e)) = Len(st.lru) + 1
          /\ \A j \in 1..Len(st.lru) : Append(st.lru, e)[j] = st.lru[j]
          /\ Append(st.lru, e)[Len(st.lru) + 1] = e
      BY <1>1, <1>3, AppendProperties
    <3>4. \A j \in 1..(Len(st.lru) + 1) : l[j] = Append(st.lru, e)[j]
      BY <1>1, <3>2, <3>3
    <3> QED
      BY <3>2, <3>3, <3>4, SeqEqual
  <2>1. Sizes(l) = st.count + range_size(r)
    <3>1. Len(st.lru) + 1 \in 1..(Len(st.lru) + 1)
      BY <1>1
    <3> QED
      BY <1>1, <1>3, <3>1, EntrySizes, SizesInsert
  <2>2. ASSUME NEW x PROVE Count(x, l) = Count(x, st.lru) + (IF e = x THEN 1 ELSE 0)
    <3>1. Len(st.lru) + 1 \in 1..(Len(st.lru) + 1)
      BY <1>1
    <3> QED
      BY <1>1, <1>3, <3>1, CountInsert
  <2>3. range_alloc(st, a, i, r) =
           [list |-> [st.list EXCEPT ![a] = s], lru |-> Append(st.lru, e), count |-> st.count + range_size(r)]
    BY <1>1, <1>8 DEF range_alloc, s, e
  <2> HIDE DEF l
  <2>4. ASSUME NEW q \in Proper(a), ~q.purged
        PROVE  Count(q, s) - Count(q, st.list[a]) = Count(OnLru(a, q), l) - Count(OnLru(a, q), st.lru)
    <3>1. e = OnLru(a, q) <=> r = q
      <4>1. r.purged = FALSE /\ q.purged = FALSE
        BY <1>8, <1>9, <2>4, ProperHas
      <4>2. OnLru(a, r) = OnLru(a, q) => (r.purged = q.purged => r = q)
        BY EntryOfOne
      <4> QED
        BY <4>1, <4>2 DEF e
    <3>2. Count(OnLru(a, q), l) = Count(OnLru(a, q), st.lru) + (IF r = q THEN 1 ELSE 0)
      BY <2>2, <3>1
    <3> QED
      BY <1>4, <1>5, <1>6, <3>2
  <2>5. ASSUME NEW b \in Areas, b # a, NEW q \in Proper(b)
        PROVE  Count(OnLru(b, q), l) = Count(OnLru(b, q), st.lru)
    <3>1. e # OnLru(b, q)
      BY <2>5, EntryOfOne DEF e
    <3>2. Count(OnLru(b, q), l) = Count(OnLru(b, q), st.lru) + 0
      BY <2>2, <3>1
    <3> QED
      BY <1>6, <3>2
  <2>6. [list |-> [st.list EXCEPT ![a] = s], lru |-> l, count |-> st.count + range_size(r)] \in Good
    BY <1>2, <2>0, <2>1, <2>4, <2>5, StaysGood
  <2> QED
    BY <2>0, <2>3, <2>6 DEF s
<1> QED
  BY <1>7, <1>8, <1>9

LEMMA DelKeeps ==
    ASSUME NEW st \in Good, NEW a \in Areas, NEW i \in 1..Len(st.list[a])
    PROVE  /\ range_del(st, a, i) \in Good
           /\ range_del(st, a, i).list = [st.list EXCEPT ![a] = RemoveAt(st.list[a], i)]
<1> DEFINE s == RemoveAt(st.list[a], i)
           r == st.list[a][i]
           e == OnLru(a, r)
           k == SelectInSeq(st.lru, LAMBDA x : x = e)
           l == RemoveAt(st.lru, k)
<1>1. /\ st = [list |-> st.list, lru |-> st.lru, count |-> st.count]
      /\ DOMAIN st.list = Areas
      /\ st.list[a] \in Seq(Proper(a))
      /\ st.lru \in Seq(Entries) /\ Len(st.lru) \in Nat
      /\ st.count \in Int /\ st.count = Sizes(st.lru)
  BY GoodHas
<1>2. s \in Seq(Proper(a)) /\ r \in Proper(a)
  BY <1>1, RemoveAtIs
<1>3. e \in Entries /\ range_size(e) = range_size(r)
  BY <1>2, EntryIs
<1>4. \A q \in Proper(a) : Count(q, s) = Count(q, st.list[a]) - (IF r = q THEN 1 ELSE 0)
  <2>1. ASSUME NEW q \in Proper(a)
        PROVE  Count(q, s) = Count(q, st.list[a]) - (IF r = q THEN 1 ELSE 0)
    BY <1>1, CountRemoved
  <2> QED
    BY <2>1
<1>5. \A q \in Proper(a) : Count(q, st.list[a]) \in Nat
  BY <1>1, CountIs
<1>6. \A x : Count(x, st.lru) \in Nat
  BY <1>1, CountIs
<1>b. st.list[a][i] = r
  OBVIOUS
<1>9. r.purged \in BOOLEAN
  BY <1>2, ProperHas
<1> HIDE DEF s, e, k, r
<1>7. CASE r.purged
  <2>1. range_del(st, a, i) = [list |-> [st.list EXCEPT ![a] = s], lru |-> st.lru, count |-> st.count]
    BY <1>1, <1>7 DEF range_del, s, r
  <2>2. ASSUME NEW q \in Proper(a), ~q.purged
        PROVE  Count(q, s) - Count(q, st.list[a]) = Count(OnLru(a, q), st.lru) - Count(OnLru(a, q), st.lru)
    <3>1. r # q
      BY <1>7, <2>2
    <3> QED
      BY <1>4, <1>5, <1>6, <3>1
  <2>3. [list |-> [st.list EXCEPT ![a] = s], lru |-> st.lru, count |-> st.count] \in Good
    BY <1>1, <1>2, <2>2, StaysGood
  <2> QED
    BY <2>1, <2>3 DEF s
<1>8. CASE ~r.purged
  <2>a. \E j \in 1..Len(st.lru) : st.lru[j] = e
    <3>1. Count(r, st.list[a]) # 0
      BY <1>1, <1>b, CountIs
    <3>2. Count(r, st.list[a]) = Count(e, st.lru)
      BY <1>2, <1>8, GoodHas DEF e
    <3> QED
      BY <1>1, <3>1, <3>2, CountIs
  <2>b. k \in 1..Len(st.lru) /\ st.lru[k] = e
    BY <1>1, <2>a, FirstIs DEF k
  <2>0. RemoveFirst(st.lru, e) = l /\ l \in Seq(Entries)
    <3>1. l \in Seq(Entries)
      BY <1>1, <2>b, RemoveAtIs
    <3>2. RemoveFirst(st.lru, e) = RemoveAt(st.lru, SelectInSeq(st.lru, LAMBDA v: v = e))
      BY <2>a DEF RemoveFirst
    <3> QED
      BY <3>1, <3>2 DEF k
  <2>1. Sizes(l) = st.count - range_size(r)
    BY <1>1, <1>3, <2>b, EntrySizes, SizesRemoved
  <2>2. ASSUME NEW x PROVE Count(x, l) = Count(x, st.lru) - (IF e = x THEN 1 ELSE 0)
    BY <1>1, <2>b, CountRemoved
  <2>3. range_del(st, a, i) =
           [list |-> [st.list EXCEPT ![a] = s], lru |-> l, count |-> st.count - range_size(r)]
    <3>1. range_del(st, a, i) =
             [list |-> [st.list EXCEPT ![a] = s], lru |-> RemoveFirst(st.lru, e), count |-> st.count - range_size(r)]
      BY <1>1, <1>8 DEF range_del, s, e, r
    <3> QED
      BY <2>0, <3>1
  <2> HIDE DEF l
  <2>4. ASSUME NEW q \in Proper(a), ~q.purged
        PROVE  Count(q, s) - Count(q, st.list[a]) = Count(OnLru(a, q), l) - Count(OnLru(a, q), st.lru)
    <3>1. e = OnLru(a, q) <=> r = q
      <4>1. r.purged = FALSE /\ q.purged = FALSE
        BY <1>8, <1>9, <2>4, ProperHas
      <4>2. OnLru(a, r) = OnLru(a, q) => (r.purged = q.purged => r = q)
        BY <1>2, EntryOfOne
      <4> QED
        BY <4>1, <4>2 DEF e
    <3>2. Count(OnLru(a, q), l) = Count(OnLru(a, q), st.lru) - (IF r = q THEN 1 ELSE 0)
      BY <2>2, <3>1
    <3> QED
      BY <1>4, <1>5, <1>6, <3>2
  <2>5. ASSUME NEW b \in Areas, b # a, NEW q \in Proper(b)
        PROVE  Count(OnLru(b, q), l) = Count(OnLru(b, q), st.lru)
    <3>1. e # OnLru(b, q)
      BY <1>2, <2>5, EntryOfOne DEF e
    <3>2. Count(OnLru(b, q), l) = Count(OnLru(b, q), st.lru) - 0
      BY <2>2, <3>1
    <3> QED
      BY <1>6, <3>2
  <2>6. [list |-> [st.list EXCEPT ![a] = s], lru |-> l, count |-> st.count - range_size(r)] \in Good
    BY <1>2, <2>0, <2>1, <2>4, <2>5, StaysGood
  <2> QED
    BY <2>3, <2>6 DEF s
<1> QED
  BY <1>7, <1>8, <1>9

LEMMA ProperChanged ==
    ASSUME NEW a \in Areas, NEW r \in Proper(a), NEW x, NEW y
    PROVE  /\ [r EXCEPT !.pgstart = x, !.pgend = y] = [pgstart |-> x, pgend |-> y, purged |-> r.purged]
           /\ [r EXCEPT !.purged = x] = [pgstart |-> r.pgstart, pgend |-> r.pgend, purged |-> x]
           /\ [r EXCEPT !.pgstart = x] = [pgstart |-> x, pgend |-> r.pgend, purged |-> r.purged]
<1>1. PICK p, q, b : p = r.pgstart /\ q = r.pgend /\ b = r.purged
  OBVIOUS
<1>2. r = [pgstart |-> p, pgend |-> q, purged |-> b]
  BY <1>1, ProperHas, Zenon
<1>3. [r EXCEPT !.purged = x] = [pgstart |-> p, pgend |-> q, purged |-> x]
  BY ONLY <1>2
<1>4. PICK z : z = [r EXCEPT !.pgstart = x]
  OBVIOUS
<1>5. z = [pgstart |-> x, pgend |-> q, purged |-> b]
  BY ONLY <1>2, <1>4
<1>8. [r EXCEPT !.pgstart = x] = [pgstart |-> x, pgend |-> q, purged |-> b]
  BY ONLY <1>2
<1>6. [z EXCEPT !.pgend = y] = [pgstart |-> x, pgend |-> y, purged |-> b]
  BY ONLY <1>5
<1>7. [r EXCEPT !.pgstart = x, !.pgend = y] = [z EXCEPT !.pgend = y]
  BY ONLY <1>4
<1> QED
  BY ONLY <1>1, <1>3, <1>6, <1>7, <1>8, Zenon

(* range_shrink, and what it changes.                                      *)
LEMMA ShrinkIs ==
    ASSUME NEW st \in Good, NEW a \in Areas, NEW i \in 1..Len(st.list[a]), NEW start, NEW end,
           NEW new, new = [pgstart |-> start, pgend |-> end, purged |-> st.list[a][i].purged]
    PROVE  range_shrink(st, a, i, start, end) =
              LET r == st.list[a][i]
                  s == [st.list EXCEPT ![a] = ReplaceAt(st.list[a], i, new)]
              IN  IF r.purged THEN [list |-> s, lru |-> st.lru, count |-> st.count]
                  ELSE [list  |-> s,
                        lru   |-> ReplaceAt(st.lru, LruAt(st, OnLru(a, r)), OnLru(a, new)),
                        count |-> st.count - (range_size(r) - range_size(new))]
<1> DEFINE r == st.list[a][i]
           n == [r EXCEPT !.pgstart = start, !.pgend = end]
           shrunk == [st EXCEPT !.list[a][i] = n]
           k == LruAt(st, OnLru(a, r))
           f == OnLru(a, n)
           d == range_size(r) - range_size(n)
           both == [shrunk EXCEPT !.lru[k] = f, !.count = @ - d]
<1>1. range_shrink(st, a, i, start, end) = IF r.purged THEN shrunk ELSE both
  BY DEF range_shrink
<1> HIDE DEF both, d, f, k
<1>2. r \in Proper(a)
  BY GoodHas
<1> HIDE DEF shrunk, n, r
<1>3. n = new
  <2>1. st.list[a][i] = r
    BY DEF r
  <2>2. [r EXCEPT !.pgstart = start, !.pgend = end] = [pgstart |-> start, pgend |-> end, purged |-> r.purged]
    BY <1>2, ProperChanged
  <2> QED
    BY <2>1, <2>2 DEF n
<1>4. PICK m, l, c : m = st.list /\ l = st.lru /\ c = st.count
  OBVIOUS
<1>5. st = [list |-> m, lru |-> l, count |-> c] /\ a \in DOMAIN m
  BY <1>4, GoodHas, Zenon
<1>6. shrunk = [list |-> [m EXCEPT ![a] = [m[a] EXCEPT ![i] = n]], lru |-> l, count |-> c]
  BY ONLY <1>5 DEF shrunk
<1>7. PICK z : z = [shrunk EXCEPT !.lru[k] = f]
  OBVIOUS
<1>8. z = [list |-> [m EXCEPT ![a] = [m[a] EXCEPT ![i] = n]], lru |-> [l EXCEPT ![k] = f], count |-> c]
  BY ONLY <1>6, <1>7
<1>9. both = [z EXCEPT !.count = @ - d]
  BY ONLY <1>7 DEF both
<1>10. both = [list |-> [m EXCEPT ![a] = [m[a] EXCEPT ![i] = n]], lru |-> [l EXCEPT ![k] = f], count |-> c - d]
  BY ONLY <1>8, <1>9
<1>11. range_shrink(st, a, i, start, end) =
          IF r.purged THEN [list |-> [m EXCEPT ![a] = [m[a] EXCEPT ![i] = n]], lru |-> l, count |-> c]
          ELSE [list |-> [m EXCEPT ![a] = [m[a] EXCEPT ![i] = n]], lru |-> [l EXCEPT ![k] = f], count |-> c - d]
  BY ONLY <1>1, <1>6, <1>10, Zenon
<1> QED
  BY ONLY <1>3, <1>4, <1>11, Zenon DEF ReplaceAt, r, k, f, d

LEMMA ShrinkKeeps ==
    ASSUME NEW st \in Good, NEW a \in Areas, NEW i \in 1..Len(st.list[a]),
           NEW start, NEW end, <<start, end>> \in Requests(a)
    PROVE  /\ range_shrink(st, a, i, start, end) \in Good
           /\ range_shrink(st, a, i, start, end).list =
                 [st.list EXCEPT ![a] = ReplaceAt(st.list[a], i,
                    [pgstart |-> start, pgend |-> end, purged |-> st.list[a][i].purged])]
<1> DEFINE r == st.list[a][i]
           new == [pgstart |-> start, pgend |-> end, purged |-> r.purged]
           s == ReplaceAt(st.list[a], i, new)
           e == OnLru(a, r)
           f == OnLru(a, new)
           k == LruAt(st, e)
           l == ReplaceAt(st.lru, k, f)
<1>1. /\ st = [list |-> st.list, lru |-> st.lru, count |-> st.count]
      /\ DOMAIN st.list = Areas
      /\ st.list[a] \in Seq(Proper(a))
      /\ st.lru \in Seq(Entries) /\ Len(st.lru) \in Nat
      /\ st.count \in Int /\ st.count = Sizes(st.lru)
  BY GoodHas
<1>a. r \in Proper(a)
  BY <1>1
<1> HIDE DEF r
<1>b. r \in Proper(a) /\ r.purged \in BOOLEAN
  BY <1>a, ProperHas
<1>c. new \in Proper(a) /\ new.purged = r.purged
  BY <1>b, ProperIs
<1>e. /\ range_size(r) \in Int /\ range_size(new) \in Int
      /\ e \in Entries /\ range_size(e) = range_size(r)
      /\ f \in Entries /\ range_size(f) = range_size(new)
  <2> HIDE DEF new, r
  <2>1. r.pgstart \in Nat /\ r.pgend \in Nat /\ new.pgstart \in Nat /\ new.pgend \in Nat
    BY <1>b, <1>c, ProperHas
  <2> QED
    BY <1>b, <1>c, <2>1, EntryIs DEF range_size
<1>2. s \in Seq(Proper(a))
  BY <1>1, <1>c, InsertRemoved
<1>f. st.list[a][i] = r
  BY DEF r
<1>g. range_shrink(st, a, i, start, end) =
         IF r.purged THEN [list |-> [st.list EXCEPT ![a] = s], lru |-> st.lru, count |-> st.count]
         ELSE [list |-> [st.list EXCEPT ![a] = s], lru |-> l,
               count |-> st.count - (range_size(r) - range_size(new))]
  <2>1. new = [pgstart |-> start, pgend |-> end, purged |-> st.list[a][i].purged]
    BY <1>f
  <2> HIDE DEF new
  <2> QED
    BY <1>f, <2>1, ShrinkIs
<1> HIDE DEF new
<1>4. \A q \in Proper(a) : Count(q, s) = Count(q, st.list[a]) - (IF r = q THEN 1 ELSE 0) + (IF new = q THEN 1 ELSE 0)
  <2>1. ASSUME NEW q \in Proper(a)
        PROVE  Count(q, s) = Count(q, st.list[a]) - (IF r = q THEN 1 ELSE 0) + (IF new = q THEN 1 ELSE 0)
    BY <1>1, <1>c, <1>f, CountChanged
  <2> QED
    BY <2>1
<1> HIDE DEF s, e, f, k, r
<1>5. \A q \in Proper(a) : Count(q, st.list[a]) \in Nat
  BY <1>1, CountIs
<1>6. \A x : Count(x, st.lru) \in Nat
  BY <1>1, CountIs
<1>7. CASE r.purged
  <2>1. range_shrink(st, a, i, start, end) = [list |-> [st.list EXCEPT ![a] = s], lru |-> st.lru, count |-> st.count]
    BY <1>7, <1>g
  <2>2. ASSUME NEW q \in Proper(a), ~q.purged
        PROVE  Count(q, s) - Count(q, st.list[a]) = Count(OnLru(a, q), st.lru) - Count(OnLru(a, q), st.lru)
    <3>1. r # q /\ new # q
      BY <1>7, <1>c, <2>2
    <3> QED
      BY <1>4, <1>5, <1>6, <3>1
  <2>3. [list |-> [st.list EXCEPT ![a] = s], lru |-> st.lru, count |-> st.count] \in Good
    BY <1>1, <1>2, <2>2, StaysGood
  <2> QED
    BY <1>1, <2>1, <2>3 DEF s, new, r
<1>8. CASE ~r.purged
  <2>a. \E j \in 1..Len(st.lru) : st.lru[j] = e
    <3>1. Count(r, st.list[a]) # 0
      BY <1>1, <1>b, <1>f, CountIs
    <3>2. Count(r, st.list[a]) = Count(e, st.lru)
      BY <1>b, <1>8, GoodHas DEF e
    <3> QED
      BY <1>1, <3>1, <3>2, CountIs
  <2>b. k \in 1..Len(st.lru) /\ st.lru[k] = e
    BY <1>1, <2>a, FirstIs DEF k, LruAt
  <2>0. l \in Seq(Entries)
    BY <1>1, <1>e, <2>b, InsertRemoved
  <2>1. Sizes(l) = st.count - (range_size(r) - range_size(new))
    <3>1. Sizes(l) = Sizes(st.lru) - range_size(e) + range_size(f)
      BY <1>1, <1>e, <2>b, EntrySizes, SizesChanged
    <3> QED
      BY <1>1, <1>e, <3>1
  <2>2. ASSUME NEW x PROVE Count(x, l) = Count(x, st.lru) - (IF e = x THEN 1 ELSE 0) + (IF f = x THEN 1 ELSE 0)
    BY <1>1, <1>e, <2>b, CountChanged
  <2>3. range_shrink(st, a, i, start, end) =
           [list |-> [st.list EXCEPT ![a] = s], lru |-> l, count |-> st.count - (range_size(r) - range_size(new))]
    BY <1>8, <1>g
  <2> HIDE DEF l
  <2>4. ASSUME NEW q \in Proper(a), ~q.purged
        PROVE  Count(q, s) - Count(q, st.list[a]) = Count(OnLru(a, q), l) - Count(OnLru(a, q), st.lru)
    <3>1. (e = OnLru(a, q) <=> r = q) /\ (f = OnLru(a, q) <=> new = q)
      <4>1. r.purged = FALSE /\ q.purged = FALSE /\ new.purged = FALSE
        BY <1>b, <1>c, <1>8, <2>4, ProperHas
      <4>2. /\ OnLru(a, r) = OnLru(a, q) => (r.purged = q.purged => r = q)
            /\ OnLru(a, new) = OnLru(a, q) => (new.purged = q.purged => new = q)
        BY <1>b, <1>c, EntryOfOne
      <4> QED
        BY <4>1, <4>2 DEF e, f
    <3>2. Count(OnLru(a, q), l) =
             Count(OnLru(a, q), st.lru) - (IF r = q THEN 1 ELSE 0) + (IF new = q THEN 1 ELSE 0)
      BY <2>2, <3>1
    <3> QED
      BY <1>4, <1>5, <1>6, <3>2
  <2>5. ASSUME NEW b \in Areas, b # a, NEW q \in Proper(b)
        PROVE  Count(OnLru(b, q), l) = Count(OnLru(b, q), st.lru)
    <3>1. e # OnLru(b, q) /\ f # OnLru(b, q)
      BY <1>b, <1>c, <2>5, EntryOfOne DEF e, f
    <3>2. Count(OnLru(b, q), l) = Count(OnLru(b, q), st.lru) - 0 + 0
      BY <2>2, <3>1
    <3> QED
      BY <1>6, <3>2
  <2>6. [list |-> [st.list EXCEPT ![a] = s], lru |-> l, count |-> st.count - (range_size(r) - range_size(new))] \in Good
    BY <1>2, <2>0, <2>1, <2>4, <2>5, StaysGood
  <2> QED
    BY <2>3, <2>6 DEF s, new, r
<1> QED
  BY <1>7, <1>8, <1>b

(* A turn of ashmem_shrink marks one range of one list.                    *)
LEMMA PurgeKeeps ==
    ASSUME NEW st \in Good, st.lru # <<>>
    PROVE  /\ Purge(st) \in Good
           /\ Len(Purge(st).lru) = Len(st.lru) - 1
           /\ \E a \in Areas : \E i \in 1..Len(st.list[a]) :
                 /\ ~st.list[a][i].purged
                 /\ Purge(st).list = [st.list EXCEPT ![a] = ReplaceAt(st.list[a], i,
                       [pgstart |-> st.list[a][i].pgstart, pgend |-> st.list[a][i].pgend, purged |-> TRUE])]
<1> DEFINE e == Head(st.lru)
           a == e.asma
           I == {n \in 1..Len(st.list[a]) : ~st.list[a][n].purged /\ OnLru(a, st.list[a][n]) = e}
           i == SelectInSeq(st.list[a], LAMBDA x : ~x.purged /\ OnLru(a, x) = e)
<1>a. Purge(st) = [list |-> [st.list EXCEPT ![a][i].purged = TRUE],
                   lru |-> Tail(st.lru), count |-> st.count - range_size(e)]
  BY DEF Purge
<1>b. i = IF I # {} THEN Min(I) ELSE 0
  BY DEF SelectInSeq
<1> HIDE DEF i
<1>1. /\ st = [list |-> st.list, lru |-> st.lru, count |-> st.count]
      /\ DOMAIN st.list = Areas
      /\ st.lru \in Seq(Entries) /\ Len(st.lru) \in Nat
      /\ st.count \in Int /\ st.count = Sizes(st.lru)
  BY GoodHas
<1>2. 1 \in 1..Len(st.lru) /\ e \in Entries /\ e = st.lru[1]
  BY <1>1
<1>3. a \in Areas /\ \E q \in Proper(a) : ~q.purged /\ e = OnLru(a, q)
  BY <1>2, EntryHas
<1> HIDE DEF a, e
<1>4. PICK q \in Proper(a) : ~q.purged /\ e = OnLru(a, q)
  BY <1>3
<1>5. st.list[a] \in Seq(Proper(a)) /\ Len(st.list[a]) \in Nat
  BY <1>3, GoodHas
<1>6. \E n \in 1..Len(st.list[a]) : st.list[a][n] = q
  <2>1. Count(e, st.lru) # 0
    BY <1>1, <1>2, CountIs
  <2>2. Count(q, st.list[a]) = Count(e, st.lru)
    BY <1>3, <1>4, GoodHas
  <2> QED
    BY <1>5, <2>1, <2>2, CountIs
<1>7. I \in SUBSET Nat /\ I # {}
  BY <1>4, <1>6
<1>9. Min(I) \in I
  <2> HIDE DEF I
  <2> QED
    BY <1>7, MinIs
<1>8. i \in I
  <2> HIDE DEF I
  <2> QED
    BY <1>7, <1>9, <1>b
<1>10. i \in 1..Len(st.list[a]) /\ ~st.list[a][i].purged /\ OnLru(a, st.list[a][i]) = e
  BY <1>8
<1> HIDE DEF I
<1>11. Purge(st) = [list |-> [st.list EXCEPT ![a] = [st.list[a] EXCEPT ![i] = [st.list[a][i] EXCEPT !.purged = TRUE]]],
                    lru |-> Tail(st.lru), count |-> st.count - range_size(e)]
  <2>3. [st.list EXCEPT ![a][i].purged = TRUE] =
           [st.list EXCEPT ![a] = [st.list[a] EXCEPT ![i] = [st.list[a][i] EXCEPT !.purged = TRUE]]]
    BY <1>1, <1>3, <1>5, <1>10
  <2> QED
    BY <1>a, <2>3
<1> DEFINE r == st.list[a][i]
           new == [pgstart |-> r.pgstart, pgend |-> r.pgend, purged |-> TRUE]
           s == ReplaceAt(st.list[a], i, new)
           l == Tail(st.lru)
<1> HIDE DEF I, i
<1>12. r \in Proper(a) /\ st.list[a][i] = r
  BY <1>5, <1>10
<1> HIDE DEF r
<1>c. i \in 1..Len(st.list[a])
  BY <1>10
<1>d. st.list[a][i] = r
  BY <1>12
<1>13. new = [r EXCEPT !.purged = TRUE] /\ new \in Proper(a) /\ new.purged = TRUE
  BY <1>3, <1>12, ProperHas, ProperIs, ProperChanged
<1>14. Purge(st) = [list |-> [st.list EXCEPT ![a] = s], lru |-> l, count |-> st.count - range_size(e)]
  BY <1>11, <1>12, <1>13 DEF ReplaceAt
<1>e. new \in Proper(a)
  BY <1>13
<1>15. ~r.purged /\ OnLru(a, r) = e /\ r.purged = FALSE
  BY <1>3, <1>10, <1>12, ProperHas
<1> HIDE DEF new
<1>16. \A x \in Proper(a) : Count(x, s) = Count(x, st.list[a]) - (IF r = x THEN 1 ELSE 0) + (IF new = x THEN 1 ELSE 0)
  <2>1. ASSUME NEW x \in Proper(a)
        PROVE  Count(x, s) = Count(x, st.list[a]) - (IF r = x THEN 1 ELSE 0) + (IF new = x THEN 1 ELSE 0)
    BY <1>5, <1>c, <1>d, <1>e, CountChanged
  <2> QED
    BY <2>1
<1>17. s \in Seq(Proper(a))
  BY <1>5, <1>10, <1>13, InsertRemoved
<1>18. l = RemoveAt(st.lru, 1) /\ l \in Seq(Entries) /\ Len(l) = Len(st.lru) - 1
  <2> HIDE DEF l
  <2>1. RemoveAt(st.lru, 1) \in Seq(Entries) /\ Len(RemoveAt(st.lru, 1)) = Len(st.lru) - 1
    BY <1>1, <1>2, RemoveAtIs
  <2>2. ASSUME NEW j \in 1..(Len(st.lru) - 1) PROVE RemoveAt(st.lru, 1)[j] = st.lru[j + 1]
    BY <1>1, <1>2, RemoveAtHas
  <2>3. l \in Seq(Entries) /\ Len(l) = Len(st.lru) - 1 /\ \A j \in 1..(Len(st.lru) - 1) : l[j] = st.lru[j + 1]
    BY <1>1, <1>2 DEF l
  <2>4. \A j \in 1..Len(l) : l[j] = RemoveAt(st.lru, 1)[j]
    BY <2>2, <2>3
  <2>5. l = RemoveAt(st.lru, 1)
    BY <2>1, <2>3, <2>4, SeqEqual
  <2> QED
    BY <2>3, <2>5
<1>19. Sizes(l) = st.count - range_size(e)
  BY <1>1, <1>2, <1>18, EntrySizes, SizesRemoved
<1>20. ASSUME NEW x PROVE Count(x, l) = Count(x, st.lru) - (IF e = x THEN 1 ELSE 0)
  <2>1. st.lru[1] = e /\ l = RemoveAt(st.lru, 1)
    BY <1>2, <1>18
  <2>2. Count(x, RemoveAt(st.lru, 1)) = Count(x, st.lru) - (IF st.lru[1] = x THEN 1 ELSE 0)
    BY <1>1, <1>2, CountRemoved
  <2> QED
    BY ONLY <2>1, <2>2, Zenon
<1>21. \A x \in Proper(a) : Count(x, st.list[a]) \in Nat
  BY <1>5, CountIs
<1>22. \A x : Count(x, st.lru) \in Nat
  BY <1>1, CountIs
<1> HIDE DEF s, l
<1>23. ASSUME NEW x \in Proper(a), ~x.purged
       PROVE  Count(x, s) - Count(x, st.list[a]) = Count(OnLru(a, x), l) - Count(OnLru(a, x), st.lru)
  <2>1. new # x
    BY <1>13, <1>23
  <2>2. e = OnLru(a, x) <=> r = x
    <3>1. x.purged = FALSE
      BY <1>3, <1>23, ProperHas
    <3>2. OnLru(a, r) = OnLru(a, x) => (r.purged = x.purged => r = x)
      BY <1>3, <1>12, EntryOfOne
    <3> QED
      BY <1>15, <3>1, <3>2
  <2> QED
    BY <1>16, <1>20, <1>21, <1>22, <2>1, <2>2
<1>24. ASSUME NEW b \in Areas, b # a, NEW x \in Proper(b)
       PROVE  Count(OnLru(b, x), l) = Count(OnLru(b, x), st.lru)
  <2>1. e # OnLru(b, x)
    BY <1>3, <1>12, <1>15, <1>24, EntryOfOne
  <2>2. Count(OnLru(b, x), l) = Count(OnLru(b, x), st.lru) - 0
    BY <1>20, <2>1
  <2> QED
    BY <1>22, <2>2
<1>25. [list |-> [st.list EXCEPT ![a] = s], lru |-> l, count |-> st.count - range_size(e)] \in Good
  BY <1>3, <1>17, <1>18, <1>19, <1>23, <1>24, StaysGood
<1>26. Purge(st) \in Good /\ Purge(st).lru = l /\ Purge(st).list = [st.list EXCEPT ![a] = s]
  BY <1>14, <1>25
<1> QED
  BY <1>3, <1>10, <1>18, <1>26 DEF s, new, r

-----------------------------------------------------------------------------
(* The pages of the ranges whose flag is one of P, and the order.          *)

Own(P, r) == IF r.purged \in P THEN PagesOf(r) ELSE {}
Covered(P, s) == UNION {Own(P, r) : r \in ToSet(s)}
Sorted(s) == \A i, j \in 1..Len(s) : i < j => s[j].pgend < s[i].pgstart

(* The set of a sequence, after an insertion and after a removal.          *)
LEMMA ToSetIs ==
    ASSUME NEW X, NEW s \in Seq(X)
    PROVE  ToSet(s) = {s[j] : j \in 1..Len(s)} /\ ToSet(s) \subseteq X
  BY DEF ToSet

LEMMA ToSetInsert ==
    ASSUME NEW X, NEW s \in Seq(X), NEW i \in 1..(Len(s) + 1), NEW x \in X
    PROVE  ToSet(InsertAt(s, i, x)) = ToSet(s) \cup {x}
<1> DEFINE t == InsertAt(s, i, x)
<1>0. Len(s) \in Nat
  OBVIOUS
<1>1. t \in Seq(X) /\ Len(t) = Len(s) + 1
  BY InsertAtIs
<1>2. ASSUME NEW j \in 1..(Len(s) + 1)
      PROVE  t[j] = IF j < i THEN s[j] ELSE IF j = i THEN x ELSE s[j - 1]
  BY InsertAtHas
<1> HIDE DEF t
<1>3. ToSet(s) = {s[j] : j \in 1..Len(s)} /\ ToSet(t) = {t[j] : j \in 1..(Len(s) + 1)}
  BY <1>1, ToSetIs
<1>4. ASSUME NEW j \in 1..(Len(s) + 1) PROVE t[j] \in ToSet(s) \cup {x}
  <2>1. (j < i => j \in 1..Len(s)) /\ (~(j < i) /\ j # i => j - 1 \in 1..Len(s))
    BY <1>0
  <2> QED
    BY <1>2, <1>3, <2>1
<1>5. ASSUME NEW j \in 1..Len(s) PROVE s[j] \in ToSet(t)
  <2>1. CASE j < i
    <3>1. j \in 1..(Len(s) + 1) /\ t[j] = s[j]
      BY <1>0, <1>2, <2>1
    <3> QED
      BY <1>3, <3>1
  <2>2. CASE ~(j < i)
    <3>1. j + 1 \in 1..(Len(s) + 1) /\ ~(j + 1 < i) /\ j + 1 # i /\ (j + 1) - 1 = j
      BY <1>0, <2>2
    <3>2. t[j + 1] = s[j]
      BY <1>2, <3>1
    <3> QED
      BY <1>3, <3>1, <3>2
  <2> QED
    BY <2>1, <2>2
<1>6. x \in ToSet(t)
  <2>1. i \in 1..(Len(s) + 1) /\ t[i] = x
    BY <1>0, <1>2
  <2> QED
    BY <1>3, <2>1
<1>7. ToSet(t) \subseteq ToSet(s) \cup {x}
  BY <1>3, <1>4
<1>8. ToSet(s) \subseteq ToSet(t)
  BY <1>3, <1>5
<1> QED
  BY <1>6, <1>7, <1>8 DEF t

LEMMA ToSetRemoved ==
    ASSUME NEW X, NEW s \in Seq(X), NEW i \in 1..Len(s), NEW x \in X
    PROVE  /\ ToSet(s) = ToSet(RemoveAt(s, i)) \cup {s[i]}
           /\ ToSet(ReplaceAt(s, i, x)) = ToSet(RemoveAt(s, i)) \cup {x}
<1> DEFINE r == RemoveAt(s, i)
<1>1. r \in Seq(X) /\ i \in 1..(Len(r) + 1) /\ s[i] \in X
  <2>1. r \in Seq(X) /\ Len(r) = Len(s) - 1
    BY RemoveAtIs
  <2> HIDE DEF r
  <2> QED
    BY <2>1
<1>2. s = InsertAt(r, i, s[i]) /\ ReplaceAt(s, i, x) = InsertAt(r, i, x)
  BY <1>1, InsertRemoved
<1> HIDE DEF r
<1>3. ToSet(InsertAt(r, i, s[i])) = ToSet(r) \cup {s[i]} /\ ToSet(InsertAt(r, i, x)) = ToSet(r) \cup {x}
  BY <1>1, ToSetInsert
<1> QED
  BY <1>2, <1>3 DEF r

(* The pages of a list, after a range is put in, taken out, or replaced.   *)
LEMMA CoveredInsert ==
    ASSUME NEW X, NEW s \in Seq(X), NEW i \in 1..(Len(s) + 1), NEW x \in X, NEW P
    PROVE  Covered(P, InsertAt(s, i, x)) = Covered(P, s) \cup Own(P, x)
<1>1. ToSet(InsertAt(s, i, x)) = ToSet(s) \cup {x}
  BY ToSetInsert
<1> QED
  BY <1>1 DEF Covered

LEMMA CoveredRemoved ==
    ASSUME NEW X, NEW s \in Seq(X), NEW i \in 1..Len(s), NEW P
    PROVE  Covered(P, s) = Covered(P, RemoveAt(s, i)) \cup Own(P, s[i])
<1>1. ToSet(s) = ToSet(RemoveAt(s, i)) \cup {s[i]}
  BY ToSetRemoved
<1> QED
  BY <1>1 DEF Covered

LEMMA CoveredReplaced ==
    ASSUME NEW X, NEW s \in Seq(X), NEW i \in 1..Len(s), NEW x \in X, NEW P
    PROVE  Covered(P, ReplaceAt(s, i, x)) = Covered(P, RemoveAt(s, i)) \cup Own(P, x)
<1>1. ToSet(ReplaceAt(s, i, x)) = ToSet(RemoveAt(s, i)) \cup {x}
  BY ToSetRemoved
<1> QED
  BY <1>1 DEF Covered

LEMMA CoveredHas ==
    ASSUME NEW X, NEW s \in Seq(X), NEW P, NEW p
    PROVE  p \in Covered(P, s) <=> \E j \in 1..Len(s) : p \in Own(P, s[j])
<1>1. ToSet(s) = {s[j] : j \in 1..Len(s)}
  BY ToSetIs
<1> QED
  BY <1>1 DEF Covered

LEMMA CoveredIs ==
    ASSUME NEW a \in Areas, NEW s \in Seq(Proper(a))
    PROVE  PagesIn(s) = Covered(BOOLEAN, s) /\ PurgedPages(s) = Covered({TRUE}, s)
<1>1. ToSet(s) \subseteq Proper(a)
  BY ToSetIs
<1>2. \A r \in ToSet(s) : r.purged \in BOOLEAN
  BY <1>1, ProperHas
<1>3. \A r \in ToSet(s) : Own(BOOLEAN, r) = PagesOf(r)
  BY <1>2 DEF Own
<1>4. \A r \in ToSet(s) : Own({TRUE}, r) = IF r.purged THEN PagesOf(r) ELSE {}
  BY <1>2 DEF Own
<1>5. PagesIn(s) = Covered(BOOLEAN, s)
  BY <1>3 DEF PagesIn, Covered
<1>6. PurgedPages(s) = Covered({TRUE}, s)
  BY <1>4 DEF PurgedPages, Covered
<1> QED
  BY <1>5, <1>6

(* A list stays sorted when a range is put in, taken out, or replaced by   *)
(* what lies between its neighbours.                                       *)
LEMMA SortedInsert ==
    ASSUME NEW X, NEW s \in Seq(X), NEW i \in 1..(Len(s) + 1), NEW x \in X, Sorted(s),
           \A j \in 1..Len(s) : j < i => x.pgend < s[j].pgstart,
           \A j \in 1..Len(s) : j >= i => s[j].pgend < x.pgstart
    PROVE  Sorted(InsertAt(s, i, x))
<1> DEFINE t == InsertAt(s, i, x)
<1>0. Len(s) \in Nat
  OBVIOUS
<1>1. Len(t) = Len(s) + 1
  BY InsertAtIs
<1>2. ASSUME NEW j \in 1..(Len(s) + 1)
      PROVE  t[j] = IF j < i THEN s[j] ELSE IF j = i THEN x ELSE s[j - 1]
  BY InsertAtHas
<1> HIDE DEF t
<1>3. ASSUME NEW j \in 1..(Len(s) + 1), NEW k \in 1..(Len(s) + 1), j < k
      PROVE  t[k].pgend < t[j].pgstart
  <2>1. CASE k < i
    <3>1. j \in 1..Len(s) /\ k \in 1..Len(s) /\ j < i /\ j < k
      BY <1>0, <1>3, <2>1
    <3>2. t[j] = s[j] /\ t[k] = s[k]
      BY <1>2, <2>1, <3>1
    <3> QED
      BY <3>1, <3>2 DEF Sorted
  <2>2. CASE k = i
    <3>1. j \in 1..Len(s) /\ j < i
      BY <1>0, <1>3, <2>2
    <3>2. t[j] = s[j] /\ t[k] = x
      BY <1>2, <2>2, <3>1
    <3> QED
      BY <3>1, <3>2
  <2>3. CASE k > i /\ j = i
    <3>1. k - 1 \in 1..Len(s) /\ k - 1 >= i /\ ~(k < i) /\ k # i
      BY <1>0, <2>3
    <3>2. t[j] = x /\ t[k] = s[k - 1]
      BY <1>2, <2>3, <3>1
    <3> QED
      BY <3>1, <3>2
  <2>4. CASE k > i /\ j < i
    <3>1. k - 1 \in 1..Len(s) /\ j \in 1..Len(s) /\ j < k - 1 /\ ~(k < i) /\ k # i
      BY <1>0, <2>4
    <3>2. t[j] = s[j] /\ t[k] = s[k - 1]
      BY <1>2, <2>4, <3>1
    <3> QED
      BY <3>1, <3>2 DEF Sorted
  <2>5. CASE k > i /\ j > i
    <3>1. k - 1 \in 1..Len(s) /\ j - 1 \in 1..Len(s) /\ j - 1 < k - 1 /\ ~(k < i) /\ k # i /\ ~(j < i) /\ j # i
      BY <1>0, <1>3, <2>5
    <3>2. t[j] = s[j - 1] /\ t[k] = s[k - 1]
      BY <1>2, <3>1
    <3> QED
      BY <3>1, <3>2 DEF Sorted
  <2>6. k < i \/ k = i \/ (k > i /\ (j = i \/ j < i \/ j > i))
    <3>1. Len(s) \in Nat /\ i \in Int /\ j \in Int /\ k \in Int
      BY <1>0
    <3> QED
      BY ONLY <3>1
  <2> QED
    BY ONLY <2>1, <2>2, <2>3, <2>4, <2>5, <2>6
<1> QED
  BY <1>1, <1>3 DEF Sorted, t

LEMMA SortedRemove ==
    ASSUME NEW X, NEW s \in Seq(X), NEW i \in 1..Len(s), Sorted(s)
    PROVE  Sorted(RemoveAt(s, i))
<1> DEFINE t == RemoveAt(s, i)
<1>0. Len(s) \in Nat
  OBVIOUS
<1>1. Len(t) = Len(s) - 1
  BY RemoveAtIs
<1>2. ASSUME NEW j \in 1..(Len(s) - 1) PROVE t[j] = IF j < i THEN s[j] ELSE s[j + 1]
  BY RemoveAtHas
<1> HIDE DEF t
<1>3. ASSUME NEW j \in 1..(Len(s) - 1), NEW k \in 1..(Len(s) - 1), j < k
      PROVE  t[k].pgend < t[j].pgstart
  <2> DEFINE m == IF j < i THEN j ELSE j + 1
             n == IF k < i THEN k ELSE k + 1
  <2>1. m \in 1..Len(s) /\ n \in 1..Len(s) /\ m < n
    BY <1>0, <1>3
  <2>2. t[j] = s[m] /\ t[k] = s[n]
    BY <1>2
  <2> HIDE DEF m, n
  <2> QED
    BY <2>1, <2>2 DEF Sorted
<1> QED
  BY <1>1, <1>3 DEF Sorted, t

LEMMA SortedReplace ==
    ASSUME NEW X, NEW s \in Seq(X), NEW i \in 1..Len(s), NEW x \in X, Sorted(s),
           \A j \in 1..Len(s) : s[j].pgstart \in Nat /\ s[j].pgend \in Nat,
           x.pgstart \in Nat, x.pgend \in Nat,
           x.pgstart >= s[i].pgstart, x.pgend <= s[i].pgend
    PROVE  Sorted(ReplaceAt(s, i, x))
<1>1. Len(ReplaceAt(s, i, x)) = Len(s)
  BY InsertRemoved
<1>2. ASSUME NEW j \in 1..Len(s) PROVE ReplaceAt(s, i, x)[j] = IF j = i THEN x ELSE s[j]
  BY ReplaceAtHas
<1>3. ASSUME NEW j \in 1..Len(s), NEW k \in 1..Len(s), j < k
      PROVE  ReplaceAt(s, i, x)[k].pgend < ReplaceAt(s, i, x)[j].pgstart
  <2>1. s[k].pgend < s[j].pgstart
    BY <1>3 DEF Sorted
  <2>2. CASE j = i
    BY <1>2, <1>3, <2>1, <2>2
  <2>3. CASE k = i
    BY <1>2, <1>3, <2>1, <2>3
  <2>4. CASE j # i /\ k # i
    BY <1>2, <2>1, <2>4
  <2> QED
    BY <2>2, <2>3, <2>4
<1> QED
  BY <1>1, <1>3 DEF Sorted

(* The two parts of a range that is split.                                 *)
LEMMA SplitIs ==
    ASSUME NEW X, NEW s \in Seq(X), NEW i \in 1..Len(s), NEW x \in X, NEW y \in X
    PROVE  /\ ReplaceAt(InsertAt(s, i, x), i + 1, y) = InsertAt(ReplaceAt(s, i, y), i, x)
           /\ i + 1 \in 1..Len(InsertAt(s, i, x))
           /\ InsertAt(s, i, x)[i + 1] = s[i]
<1> DEFINE t == InsertAt(s, i, x)
           r == ReplaceAt(s, i, y)
           u == ReplaceAt(t, i + 1, y)
           v == InsertAt(r, i, x)
<1>0. Len(s) \in Nat /\ i \in 1..(Len(s) + 1) /\ i + 1 \in 1..(Len(s) + 1)
  OBVIOUS
<1>1. t \in Seq(X) /\ Len(t) = Len(s) + 1
  BY <1>0, InsertAtIs
<1>2. ASSUME NEW j \in 1..(Len(s) + 1)
      PROVE  t[j] = IF j < i THEN s[j] ELSE IF j = i THEN x ELSE s[j - 1]
  BY <1>0, InsertAtHas
<1>3. r \in Seq(X) /\ Len(r) = Len(s)
  BY InsertRemoved
<1>4. ASSUME NEW j \in 1..Len(s) PROVE r[j] = IF j = i THEN y ELSE s[j]
  BY ReplaceAtHas
<1> HIDE DEF t, r
<1>a. i + 1 \in 1..Len(t) /\ i \in 1..(Len(r) + 1)
  BY <1>0, <1>1, <1>3
<1>5. u \in Seq(X) /\ Len(u) = Len(s) + 1
  BY <1>1, <1>a, ReplaceAtIs
<1>6. ASSUME NEW j \in 1..Len(t) PROVE u[j] = IF j = i + 1 THEN y ELSE t[j]
  BY <1>1, <1>a, ReplaceAtHas
<1>7. v \in Seq(X) /\ Len(v) = Len(s) + 1
  <2>1. InsertAt(r, i, x) \in Seq(X) /\ Len(InsertAt(r, i, x)) = Len(r) + 1
    BY <1>3, <1>a, InsertAtIs, Zenon
  <2> QED
    BY <1>3, <1>a, <2>1
<1>8. ASSUME NEW j \in 1..(Len(r) + 1)
      PROVE  v[j] = IF j < i THEN r[j] ELSE IF j = i THEN x ELSE r[j - 1]
  BY <1>3, <1>a, InsertAtHas
<1> HIDE DEF u, v
<1>9. ASSUME NEW j \in 1..(Len(s) + 1) PROVE u[j] = v[j]
  <2>0. j \in 1..Len(t) /\ j \in 1..(Len(r) + 1)
    BY <1>1, <1>3
  <2>1. CASE j < i
    <3>1. j \in 1..Len(s) /\ j # i /\ j # i + 1
      BY <1>0, <2>1
    <3>2. u[j] = t[j] /\ t[j] = s[j] /\ v[j] = r[j] /\ r[j] = s[j]
      BY <1>2, <1>4, <1>6, <1>8, <2>0, <2>1, <3>1
    <3> QED
      BY ONLY <3>2
  <2>2. CASE j = i
    <3>1. j # i + 1 /\ ~(j < i)
      BY <2>2
    <3>2. u[j] = t[j] /\ t[j] = x /\ v[j] = x
      BY <1>2, <1>6, <1>8, <2>0, <2>2, <3>1
    <3> QED
      BY ONLY <3>2
  <2>3. CASE j = i + 1
    <3>1. ~(j < i) /\ j # i /\ j - 1 = i
      BY <2>3
    <3>2. u[j] = y
      BY <1>6, <2>0, <2>3
    <3>3. v[j] = r[j - 1]
      BY <1>8, <2>0, <3>1
    <3>4. r[i] = y
      BY <1>4
    <3> QED
      BY ONLY <3>1, <3>2, <3>3, <3>4
  <2>4. CASE j > i + 1
    <3>1. ~(j < i) /\ j # i /\ j # i + 1 /\ j - 1 # i /\ j - 1 \in 1..Len(s)
      BY <1>0, <2>4
    <3>2. u[j] = t[j] /\ t[j] = s[j - 1]
      BY <1>2, <1>6, <2>0, <3>1
    <3>3. v[j] = r[j - 1] /\ r[j - 1] = s[j - 1]
      BY <1>4, <1>8, <2>0, <3>1
    <3> QED
      BY ONLY <3>2, <3>3
  <2>5. j < i \/ j = i \/ j = i + 1 \/ j > i + 1
    <3>1. j \in Int /\ i \in Int
      OBVIOUS
    <3> QED
      BY ONLY <3>1
  <2> QED
    BY ONLY <2>1, <2>2, <2>3, <2>4, <2>5
<1>10. u = v
  BY <1>5, <1>7, <1>9, SeqEqual
<1>11. t[i + 1] = s[i]
  <2>1. ~(i + 1 < i) /\ i + 1 # i /\ (i + 1) - 1 = i
    OBVIOUS
  <2>2. t[i + 1] = s[(i + 1) - 1]
    BY <1>0, <1>2, <2>1
  <2> QED
    BY ONLY <2>1, <2>2
<1> QED
  BY <1>10, <1>11, <1>a DEF t, r, u, v

(* The ranges of a list in order share no page.                            *)
LEMMA SortedApart ==
    ASSUME NEW a \in Areas, NEW s \in Seq(Proper(a)), NEW i \in 1..Len(s), Sorted(s)
    PROVE  \A r \in ToSet(RemoveAt(s, i)) : r.pgend < s[i].pgstart \/ s[i].pgend < r.pgstart
<1> DEFINE t == RemoveAt(s, i)
<1>0. Len(s) \in Nat
  OBVIOUS
<1>1. t \in Seq(Proper(a)) /\ Len(t) = Len(s) - 1
  BY RemoveAtIs
<1>2. ASSUME NEW j \in 1..(Len(s) - 1) PROVE t[j] = IF j < i THEN s[j] ELSE s[j + 1]
  BY RemoveAtHas
<1> HIDE DEF t
<1>3. ToSet(t) = {t[j] : j \in 1..(Len(s) - 1)}
  BY <1>1, ToSetIs
<1>4. ASSUME NEW j \in 1..(Len(s) - 1) PROVE t[j].pgend < s[i].pgstart \/ s[i].pgend < t[j].pgstart
  <2> DEFINE m == IF j < i THEN j ELSE j + 1
  <2>1. m \in 1..Len(s) /\ (m < i \/ i < m)
    BY <1>0
  <2>2. t[j] = s[m]
    BY <1>2
  <2> HIDE DEF m
  <2> QED
    BY <2>1, <2>2 DEF Sorted
<1> QED
  BY <1>3, <1>4 DEF t

-----------------------------------------------------------------------------
(* The loop of ashmem_release empties the list of its area, and no other.  *)
LEMMA ReleaseLoop ==
    ASSUME NEW st0 \in Good, st0 = Now, NEW a \in Areas
    PROVE  /\ Release(a) \in Good
           /\ Release(a).list[a] = <<>>
           /\ \A b \in Areas : b # a => Release(a).list[b] = st0.list[b]
<1>1. PICK N \in Nat : N = Len(st0.list[a])
  BY GoodHas
<1>2. N = Len(unpinned_list[a])
  BY <1>1 DEF Now
<1> DEFINE Rest(st, n) ==
             /\ Len(st.list[a]) = N - n
             /\ \A b \in Areas : b # a => st.list[b] = st0.list[b]
<1> DEFINE G == [n \in 0..N |-> {st \in Good : Rest(st, n)}]
<1> DEFINE step == [st \in Good |-> range_del(st, a, 1)]
<1>3. ASSUME NEW n \in 1..N, NEW st \in Good, Rest(st, n - 1)
      PROVE  range_del(st, a, 1) \in Good /\ Rest(range_del(st, a, 1), n)
  <2>1. st.list[a] \in Seq(Proper(a)) /\ DOMAIN st.list = Areas
    BY GoodHas
  <2>2. 1 \in 1..Len(st.list[a])
    BY <1>3
  <2>3. /\ range_del(st, a, 1) \in Good
        /\ range_del(st, a, 1).list = [st.list EXCEPT ![a] = RemoveAt(st.list[a], 1)]
    BY <2>2, DelKeeps
  <2>4. Len(RemoveAt(st.list[a], 1)) = Len(st.list[a]) - 1
    BY <2>1, <2>2, RemoveAtIs
  <2>5. range_del(st, a, 1).list[a] = RemoveAt(st.list[a], 1)
    BY <2>1, <2>3
  <2>6. \A b \in Areas : b # a => range_del(st, a, 1).list[b] = st.list[b]
    BY <2>1, <2>3
  <2> QED
    BY <1>3, <2>3, <2>4, <2>5, <2>6
<1>4. st0 \in Good /\ Rest(st0, 0)
  BY <1>1
<1> HIDE DEF Rest
<1>5. st0 \in G[0]
  BY <1>4
<1>6. \A n \in 1..N : \A st \in G[n - 1] : step[st] \in G[n] /\ step[st] = range_del(st, a, 1)
  BY <1>3
<1>a. \A n \in 1..N : \A st \in G[n - 1] : step[st] \in G[n]
  BY <1>6
<1>7. G[N] \subseteq Good /\ \A st \in G[N] : Rest(st, N)
  OBVIOUS
<1> HIDE DEF G, step
<1>8. PICK f : Turns(f, N, st0, step) /\ \A n \in 0..N : f[n] \in G[n]
  BY <1>5, <1>a, LoopExists
<1>9. f = [n \in 0..N |-> IF n = 0 THEN Now ELSE range_del(f[n - 1], a, 1)]
  <2>1. \A n \in 0..N : n # 0 => step[f[n - 1]] = range_del(f[n - 1], a, 1)
    <3>1. \A n \in 0..N : n # 0 => n \in 1..N /\ f[n - 1] \in G[n - 1]
      BY <1>8
    <3> QED
      BY <1>6, <3>1
  <2> QED
    BY <1>8, <2>1 DEF Turns
<1> DEFINE after == CHOOSE after : after = [n \in 0..N |-> IF n = 0 THEN Now ELSE range_del(after[n - 1], a, 1)]
<1>10. after = [n \in 0..N |-> IF n = 0 THEN Now ELSE range_del(after[n - 1], a, 1)]
  BY <1>9, Zenon
<1>11. Release(a) = after[N]
  BY <1>2, Zenon DEF Release
<1> HIDE DEF after
<1>12. after[N] \in G[N]
  <2> DEFINE S == {n \in Nat : after[n] \in G[n]}
  <2>1. 0 \in S
    BY <1>5, <1>10
  <2>2. ASSUME NEW n \in 1..N, n - 1 \in S PROVE n \in S
    <3>1. after[n] = range_del(after[n - 1], a, 1)
      BY <1>10
    <3> QED
      BY <1>6, <2>2, <3>1
  <2>3. \A n \in 0..N : n \in S
    <3> HIDE DEF S
    <3> QED
      BY <2>1, <2>2, UpTo
  <2> QED
    BY <2>3
<1>13. Release(a) \in Good /\ Rest(Release(a), N)
  BY <1>7, <1>11, <1>12
<1>14. Release(a).list[a] \in Seq(Proper(a)) /\ Len(Release(a).list[a]) = 0
  BY <1>13, GoodHas DEF Rest
<1> QED
  BY <1>13, <1>14, EmptySeq DEF Rest

LEMMA ListTypes ==
    ASSUME NEW a \in Areas, NEW s \in Seq(Proper(a))
    PROVE  \A j \in 1..Len(s) :
              /\ s[j] \in Proper(a)
              /\ s[j].pgstart \in Nat /\ s[j].pgend \in Nat /\ s[j].purged \in BOOLEAN
<1>1. \A j \in 1..Len(s) : s[j] \in Proper(a)
  OBVIOUS
<1> QED
  BY <1>1, ProperHas

(* The shrinker moves no range, and marks pages as purged, never back.     *)
LEMMA PurgeMarks ==
    ASSUME NEW st \in Good, st.lru # <<>>, NEW b \in Areas, Sorted(st.list[b])
    PROVE  /\ Sorted(Purge(st).list[b])
           /\ Covered(BOOLEAN, Purge(st).list[b]) = Covered(BOOLEAN, st.list[b])
           /\ Covered({TRUE}, st.list[b]) \subseteq Covered({TRUE}, Purge(st).list[b])
<1>1. PICK a \in Areas : \E i \in 1..Len(st.list[a]) :
                 /\ ~st.list[a][i].purged
                 /\ Purge(st).list = [st.list EXCEPT ![a] = ReplaceAt(st.list[a], i,
                       [pgstart |-> st.list[a][i].pgstart, pgend |-> st.list[a][i].pgend, purged |-> TRUE])]
  BY PurgeKeeps
<1>2. PICK i \in 1..Len(st.list[a]) :
                 /\ ~st.list[a][i].purged
                 /\ Purge(st).list = [st.list EXCEPT ![a] = ReplaceAt(st.list[a], i,
                       [pgstart |-> st.list[a][i].pgstart, pgend |-> st.list[a][i].pgend, purged |-> TRUE])]
  BY <1>1
<1> DEFINE s == st.list[a]
           r == s[i]
           new == [pgstart |-> r.pgstart, pgend |-> r.pgend, purged |-> TRUE]
           t == ReplaceAt(s, i, new)
<1>3. s \in Seq(Proper(a)) /\ DOMAIN st.list = Areas
  BY GoodHas
<1>4. Purge(st).list[b] = IF b = a THEN t ELSE st.list[b]
  BY <1>2, <1>3
<1> HIDE DEF s
<1>5. i \in 1..Len(s) /\ s[i] = r /\ ~r.purged
  BY <1>2 DEF s
<1>6. r \in Proper(a)
  BY <1>3, <1>5
<1> HIDE DEF r
<1>7. new \in Proper(a) /\ new.pgstart = r.pgstart /\ new.pgend = r.pgend /\ new.purged = TRUE
  BY <1>6, ProperHas, ProperIs
<1> HIDE DEF new
<1>8. r.pgstart \in Nat /\ r.pgend \in Nat /\ r.purged = FALSE
  BY <1>5, <1>6, ProperHas
<1>9. Own(BOOLEAN, new) = Own(BOOLEAN, r) /\ Own({TRUE}, r) = {}
  BY <1>7, <1>8 DEF Own, PagesOf
<1>10. CASE b = a
  <2>1. Sorted(s)
    BY <1>10 DEF s
  <2>2. \A j \in 1..Len(s) : s[j].pgstart \in Nat /\ s[j].pgend \in Nat
    BY <1>3, ListTypes
  <2>3. Sorted(t)
    <3>1. /\ new.pgstart \in Nat /\ new.pgend \in Nat
          /\ new.pgstart >= s[i].pgstart /\ new.pgend <= s[i].pgend
      BY <1>5, <1>7, <1>8
    <3> QED
      BY <1>3, <1>5, <1>7, <2>1, <2>2, <3>1, SortedReplace
  <2>4. ASSUME NEW P PROVE Covered(P, t) = Covered(P, RemoveAt(s, i)) \cup Own(P, new)
    BY <1>3, <1>5, <1>7, CoveredReplaced
  <2>5. ASSUME NEW P PROVE Covered(P, s) = Covered(P, RemoveAt(s, i)) \cup Own(P, r)
    BY <1>3, <1>5, CoveredRemoved
  <2>6. Covered(BOOLEAN, t) = Covered(BOOLEAN, s)
    BY <1>9, <2>4, <2>5
  <2>7. Covered({TRUE}, s) \subseteq Covered({TRUE}, t)
    BY <1>9, <2>4, <2>5
  <2> HIDE DEF t
  <2> QED
    BY <1>4, <1>10, <2>3, <2>6, <2>7 DEF s
<1>11. CASE b # a
  BY <1>4, <1>11
<1> QED
  BY <1>10, <1>11

(* ashmem_shrink keeps the lists Good and sorted and every page on them,   *)
(* and only adds to what is purged.                                        *)
LEMMA ShrinkLoop ==
    ASSUME NEW st0 \in Good, st0 = Now, \A b \in Areas : Sorted(st0.list[b]), NEW nr \in Int
    PROVE  /\ Shrink(nr) \in Good
           /\ \A b \in Areas :
                 /\ Sorted(Shrink(nr).list[b])
                 /\ Covered(BOOLEAN, Shrink(nr).list[b]) = Covered(BOOLEAN, st0.list[b])
                 /\ Covered({TRUE}, st0.list[b]) \subseteq Covered({TRUE}, Shrink(nr).list[b])
<1>1. PICK N \in Nat : N = Len(st0.lru)
  BY GoodHas
<1>2. N = Len(lru)
  BY <1>1 DEF Now
<1> DEFINE Kept(u, n) ==
             /\ u = [st |-> u.st, nr |-> u.nr] /\ u.nr \in Int /\ u.st \in Good
             /\ u.nr <= 0 \/ Len(u.st.lru) = N - n
             /\ \A b \in Areas :
                 /\ Sorted(u.st.list[b])
                 /\ Covered(BOOLEAN, u.st.list[b]) = Covered(BOOLEAN, st0.list[b])
                 /\ Covered({TRUE}, st0.list[b]) \subseteq Covered({TRUE}, u.st.list[b])
<1> DEFINE Turn(u) == IF u.nr <= 0 THEN u
                      ELSE [st |-> Purge(u.st), nr |-> u.nr - range_size(Head(u.st.lru))]
<1> DEFINE first == [st |-> st0, nr |-> nr]
<1> DEFINE U == [st : Good, nr : Int]
<1> DEFINE G == [n \in 0..N |-> {u \in U : Kept(u, n)}]
<1> DEFINE step == [u \in U |-> Turn(u)]
<1>3. ASSUME NEW n \in 1..N, NEW u \in U, Kept(u, n - 1)
      PROVE  Turn(u) \in U /\ Kept(Turn(u), n)
  <2>1. CASE u.nr <= 0
    BY <1>3, <2>1
  <2>2. CASE ~(u.nr <= 0)
    <3>1. u.st \in Good /\ Len(u.st.lru) = N - (n - 1) /\ u.st.lru \in Seq(Entries)
      BY <1>3, <2>2, GoodHas
    <3>2. u.st.lru # <<>> /\ 1 \in 1..Len(u.st.lru)
      BY <3>1
    <3>3. Purge(u.st) \in Good /\ Len(Purge(u.st).lru) = Len(u.st.lru) - 1
      BY <3>1, <3>2, PurgeKeeps
    <3>4. \A b \in Areas :
                 /\ Sorted(Purge(u.st).list[b])
                 /\ Covered(BOOLEAN, Purge(u.st).list[b]) = Covered(BOOLEAN, u.st.list[b])
                 /\ Covered({TRUE}, u.st.list[b]) \subseteq Covered({TRUE}, Purge(u.st).list[b])
      BY <1>3, <3>1, <3>2, PurgeMarks
    <3>5. range_size(Head(u.st.lru)) \in Int
      <4>1. Head(u.st.lru) \in Entries
        BY <3>1, <3>2
      <4> QED
        BY <4>1, EntrySizes
    <3> DEFINE m == u.nr - range_size(Head(u.st.lru))
    <3>6. Turn(u) = [st |-> Purge(u.st), nr |-> m] /\ m \in Int
      BY <1>3, <2>2, <3>5
    <3> HIDE DEF m, Turn
    <3>7. Turn(u).st = Purge(u.st) /\ Turn(u).nr = m /\ Turn(u) = [st |-> Turn(u).st, nr |-> Turn(u).nr]
      BY <3>6
    <3>8. Len(Purge(u.st).lru) = N - n
      BY <3>1, <3>3
    <3>9. \A b \in Areas :
                 /\ Sorted(Purge(u.st).list[b])
                 /\ Covered(BOOLEAN, Purge(u.st).list[b]) = Covered(BOOLEAN, st0.list[b])
                 /\ Covered({TRUE}, st0.list[b]) \subseteq Covered({TRUE}, Purge(u.st).list[b])
      BY <1>3, <3>4
    <3>10. Turn(u) \in U
      BY <3>3, <3>6
    <3> QED
      BY <3>3, <3>6, <3>7, <3>8, <3>9, <3>10
  <2> QED
    BY <2>1, <2>2
<1>4. first \in U /\ Kept(first, 0)
  BY <1>1
<1> HIDE DEF Kept, Turn, U
<1>5. first \in G[0]
  BY <1>4
<1>6. \A n \in 1..N : \A u \in G[n - 1] : step[u] \in G[n] /\ step[u] = Turn(u)
  BY <1>3
<1>a. \A n \in 1..N : \A u \in G[n - 1] : step[u] \in G[n]
  BY <1>6
<1>7. \A u \in G[N] : Kept(u, N)
  OBVIOUS
<1> HIDE DEF G, step, first
<1>8. PICK f : Turns(f, N, first, step) /\ \A n \in 0..N : f[n] \in G[n]
  BY <1>5, <1>a, LoopExists
<1>9. f = [n \in 0..N |-> IF n = 0 THEN first ELSE Turn(f[n - 1])]
  <2>1. \A n \in 0..N : n # 0 => step[f[n - 1]] = Turn(f[n - 1])
    <3>1. \A n \in 0..N : n # 0 => n \in 1..N /\ f[n - 1] \in G[n - 1]
      BY <1>8
    <3> QED
      BY <1>6, <3>1
  <2> QED
    BY <1>8, <2>1 DEF Turns
<1> DEFINE after == CHOOSE after : after = [n \in 0..N |-> IF n = 0 THEN first ELSE Turn(after[n - 1])]
<1>10. after = [n \in 0..N |-> IF n = 0 THEN first ELSE Turn(after[n - 1])]
  BY <1>9, Zenon
<1>11. Shrink(nr) = after[N].st
  BY <1>2, Zenon DEF Shrink, Turn, first
<1> HIDE DEF after
<1>12. after[N] \in G[N]
  <2> DEFINE S == {n \in Nat : after[n] \in G[n]}
  <2>1. 0 \in S
    BY <1>5, <1>10
  <2>2. ASSUME NEW n \in 1..N, n - 1 \in S PROVE n \in S
    <3>1. after[n] = Turn(after[n - 1])
      BY <1>10
    <3> QED
      BY <1>6, <2>2, <3>1
  <2>3. \A n \in 0..N : n \in S
    <3> HIDE DEF S
    <3> QED
      BY <2>1, <2>2, UpTo
  <2> QED
    BY <2>3
<1>13. Kept(after[N], N)
  BY <1>7, <1>12
<1> QED
  BY <1>11, <1>13 DEF Kept

-----------------------------------------------------------------------------
(* What a turn of the loop of ashmem_pin makes of the list of the area.    *)

Apart(r, start, end) == PagesOf(r) \cap (start..end) = {}

(* From s to t, where the loop was at i and comes to k.                    *)
Pinned(a, s, i, t, k, start, end) ==
    /\ t \in Seq(Proper(a)) /\ Sorted(t)
    /\ k \in 1..(Len(t) + 1) /\ Len(t) - k = Len(s) - i - 1
    /\ \A j \in 1..Len(t) : j < k => Apart(t[j], start, end)
    /\ \A P : Covered(P, RemoveAt(s, i)) \subseteq Covered(P, t)

SamePages(s, t, start, end) ==
    \A P : Covered(P, t) \ (start..end) = Covered(P, s) \ (start..end)

(* The turns of ashmem_pin, one lemma for each thing done with a range:    *)
(* dropped, cut at one end, or split.                                      *)
LEMMA PinDrops ==
    ASSUME NEW a \in Areas, NEW s \in Seq(Proper(a)), NEW i \in 1..Len(s), Sorted(s),
           NEW start \in Int, NEW end \in Int,
           \A j \in 1..Len(s) : j < i => Apart(s[j], start, end),
           PagesOf(s[i]) \subseteq start..end
    PROVE  /\ Pinned(a, s, i, RemoveAt(s, i), i, start, end)
           /\ SamePages(s, RemoveAt(s, i), start, end)
<1> DEFINE t == RemoveAt(s, i)
<1>0. Len(s) \in Nat
  OBVIOUS
<1>1. t \in Seq(Proper(a)) /\ Len(t) = Len(s) - 1
  BY RemoveAtIs
<1>2. Sorted(t)
  BY SortedRemove
<1>3. ASSUME NEW j \in 1..Len(t), j < i PROVE Apart(t[j], start, end)
  <2>1. j \in 1..(Len(s) - 1) /\ j \in 1..Len(s)
    BY <1>0, <1>1
  <2>2. t[j] = s[j]
    BY <1>3, <2>1, RemoveAtHas
  <2> HIDE DEF t
  <2> QED
    BY <1>3, <2>1, <2>2
<1>4. ASSUME NEW P PROVE Covered(P, t) \ (start..end) = Covered(P, s) \ (start..end)
  <2>1. Covered(P, s) = Covered(P, t) \cup Own(P, s[i])
    BY CoveredRemoved
  <2>2. Own(P, s[i]) \subseteq start..end
    BY DEF Own
  <2> QED
    BY <2>1, <2>2
<1>5. i \in 1..(Len(t) + 1) /\ Len(t) - i = Len(s) - i - 1
  BY <1>0, <1>1
<1>6. \A P : Covered(P, RemoveAt(s, i)) \subseteq Covered(P, t)
  OBVIOUS
<1> HIDE DEF t
<1>7. Pinned(a, s, i, t, i, start, end)
  BY <1>1, <1>2, <1>3, <1>5, <1>6 DEF Pinned
<1>8. SamePages(s, t, start, end)
  BY <1>4 DEF SamePages
<1> QED
  BY <1>7, <1>8 DEF t

LEMMA PinShrinks ==
    ASSUME NEW a \in Areas, NEW s \in Seq(Proper(a)), NEW i \in 1..Len(s), Sorted(s),
           NEW start \in Int, NEW end \in Int,
           \A j \in 1..Len(s) : j < i => Apart(s[j], start, end),
           NEW new \in Proper(a), new.purged = s[i].purged,
           new.pgstart >= s[i].pgstart, new.pgend <= s[i].pgend, Apart(new, start, end)
    PROVE  /\ Pinned(a, s, i, ReplaceAt(s, i, new), i + 1, start, end)
           /\ PagesOf(new) \ (start..end) = PagesOf(s[i]) \ (start..end) =>
                 SamePages(s, ReplaceAt(s, i, new), start, end)
<1> DEFINE t == ReplaceAt(s, i, new)
<1>0. Len(s) \in Nat
  OBVIOUS
<1>1. t \in Seq(Proper(a)) /\ Len(t) = Len(s)
  BY ReplaceAtIs
<1>2. Sorted(t)
  <2>1. \A j \in 1..Len(s) : s[j].pgstart \in Nat /\ s[j].pgend \in Nat
    BY ListTypes
  <2>2. new.pgstart \in Nat /\ new.pgend \in Nat
    BY ProperHas
  <2> QED
    BY <2>1, <2>2, SortedReplace
<1>3. ASSUME NEW j \in 1..Len(t), j < i + 1 PROVE Apart(t[j], start, end)
  <2>1. j \in 1..Len(s)
    BY <1>1
  <2>2. t[j] = IF j = i THEN new ELSE s[j]
    BY <2>1, ReplaceAtHas
  <2> HIDE DEF t
  <2>3. j = i \/ j < i
    BY <1>3
  <2> QED
    BY <2>1, <2>2, <2>3
<1>4. ASSUME NEW P PROVE /\ Covered(P, t) = Covered(P, RemoveAt(s, i)) \cup Own(P, new)
                         /\ Covered(P, s) = Covered(P, RemoveAt(s, i)) \cup Own(P, s[i])
  BY CoveredRemoved, CoveredReplaced
<1> HIDE DEF t
<1>5. i + 1 \in 1..(Len(t) + 1) /\ Len(t) - (i + 1) = Len(s) - i - 1
  BY <1>0, <1>1
<1>6. \A P : Covered(P, RemoveAt(s, i)) \subseteq Covered(P, t)
  BY <1>4
<1>7. Pinned(a, s, i, t, i + 1, start, end)
  BY <1>1, <1>2, <1>3, <1>5, <1>6 DEF Pinned
<1>8. ASSUME PagesOf(new) \ (start..end) = PagesOf(s[i]) \ (start..end)
      PROVE  SamePages(s, t, start, end)
  <2>1. ASSUME NEW P PROVE Own(P, new) \ (start..end) = Own(P, s[i]) \ (start..end)
    BY <1>8 DEF Own
  <2>2. ASSUME NEW P PROVE Covered(P, t) \ (start..end) = Covered(P, s) \ (start..end)
    BY <1>4, <2>1
  <2> QED
    BY <2>2 DEF SamePages
<1> QED
  BY <1>7, <1>8 DEF t

LEMMA PinSplits ==
    ASSUME NEW a \in Areas, NEW s \in Seq(Proper(a)), NEW i \in 1..Len(s), Sorted(s),
           NEW start \in Nat, NEW end \in Nat, start <= end,
           \A j \in 1..Len(s) : j < i => Apart(s[j], start, end),
           NEW above \in Proper(a), above.purged = s[i].purged,
           NEW below \in Proper(a), below.purged = s[i].purged,
           s[i].pgstart < start, end < s[i].pgend,
           above.pgstart = end + 1, above.pgend = s[i].pgend,
           below.pgstart = s[i].pgstart, below.pgend = start - 1
    PROVE  /\ Pinned(a, s, i, InsertAt(ReplaceAt(s, i, below), i, above), i + 2, start, end)
           /\ SamePages(s, InsertAt(ReplaceAt(s, i, below), i, above), start, end)
<1> DEFINE r == ReplaceAt(s, i, below)
           t == InsertAt(r, i, above)
<1>0. Len(s) \in Nat /\ i \in Nat
  OBVIOUS
<1>1. r \in Seq(Proper(a)) /\ Len(r) = Len(s) /\ i \in 1..(Len(r) + 1)
  <2>1. r \in Seq(Proper(a)) /\ Len(r) = Len(s)
    BY ReplaceAtIs
  <2> HIDE DEF r
  <2> QED
    BY <2>1
<1>2. ASSUME NEW j \in 1..Len(s) PROVE r[j] = IF j = i THEN below ELSE s[j]
  BY ReplaceAtHas
<1>3. \A j \in 1..Len(s) : s[j].pgstart \in Nat /\ s[j].pgend \in Nat
  BY ListTypes
<1>4. Sorted(r)
  <2>1. /\ below.pgstart \in Nat /\ below.pgend \in Nat
        /\ below.pgstart >= s[i].pgstart /\ below.pgend <= s[i].pgend
    BY <1>3
  <2> QED
    BY <1>3, <2>1, SortedReplace
<1>5. ASSUME NEW P PROVE /\ Covered(P, r) = Covered(P, RemoveAt(s, i)) \cup Own(P, below)
                         /\ Covered(P, s) = Covered(P, RemoveAt(s, i)) \cup Own(P, s[i])
  BY CoveredRemoved, CoveredReplaced
<1> HIDE DEF r
<1>6. t \in Seq(Proper(a)) /\ Len(t) = Len(s) + 1
  <2>1. t \in Seq(Proper(a)) /\ Len(t) = Len(r) + 1
    BY <1>1, InsertAtIs
  <2> QED
    BY <1>1, <2>1
<1>7. ASSUME NEW j \in 1..(Len(r) + 1)
      PROVE  t[j] = IF j < i THEN r[j] ELSE IF j = i THEN above ELSE r[j - 1]
  BY <1>1, InsertAtHas
<1>8. Sorted(t)
  <2>1. ASSUME NEW j \in 1..Len(r), j < i PROVE above.pgend < r[j].pgstart
    <3>1. j \in 1..Len(s) /\ r[j] = s[j]
      BY <1>1, <1>2, <2>1
    <3> QED
      BY <2>1, <3>1 DEF Sorted
  <2>2. ASSUME NEW j \in 1..Len(r), j >= i PROVE r[j].pgend < above.pgstart
    <3>1. j \in 1..Len(s) /\ r[j] = IF j = i THEN below ELSE s[j]
      BY <1>1, <1>2
    <3>2. CASE j = i
      <4>1. r[j] = below
        BY <3>1, <3>2
      <4> QED
        BY <4>1
    <3>3. CASE j > i
      <4>1. s[j].pgend < s[i].pgstart /\ r[j] = s[j]
        BY <3>1, <3>3 DEF Sorted
      <4> QED
        BY <1>3, <3>1, <4>1
    <3> QED
      BY <2>2, <3>2, <3>3
  <2> QED
    BY <1>1, <1>4, <2>1, <2>2, SortedInsert
<1>9. ASSUME NEW P PROVE Covered(P, t) = Covered(P, r) \cup Own(P, above)
  BY <1>1, CoveredInsert
<1> HIDE DEF t
<1>10. ASSUME NEW j \in 1..Len(t), j < i + 2 PROVE Apart(t[j], start, end)
  <2>0. j \in 1..(Len(r) + 1)
    BY <1>1, <1>6
  <2>1. CASE j < i
    <3>1. j \in 1..Len(s)
      BY <1>0, <2>1
    <3>2. t[j] = s[j]
      BY <1>2, <1>7, <2>0, <2>1, <3>1
    <3> QED
      BY <2>1, <3>1, <3>2
  <2>2. CASE j = i
    <3>1. t[j] = above
      BY <1>7, <2>0, <2>2
    <3> QED
      BY <1>3, <3>1 DEF Apart, PagesOf
  <2>3. CASE j = i + 1
    <3>1. j - 1 = i /\ ~(j < i) /\ j # i
      BY <2>3
    <3>2. t[j] = r[j - 1]
      BY <1>7, <2>0, <3>1
    <3>3. r[i] = below
      BY <1>2
    <3>4. t[j] = below
      BY ONLY <3>1, <3>2, <3>3
    <3> QED
      BY <1>3, <3>4 DEF Apart, PagesOf
  <2>4. j < i \/ j = i \/ j = i + 1
    BY <1>10
  <2> QED
    BY ONLY <2>1, <2>2, <2>3, <2>4
<1>11. i + 2 \in 1..(Len(t) + 1) /\ Len(t) - (i + 2) = Len(s) - i - 1
  BY <1>0, <1>6
<1>12. \A P : Covered(P, RemoveAt(s, i)) \subseteq Covered(P, t)
  BY <1>5, <1>9
<1>13. Pinned(a, s, i, t, i + 2, start, end)
  BY <1>6, <1>8, <1>10, <1>11, <1>12 DEF Pinned
<1>14. ASSUME NEW P PROVE (Own(P, below) \cup Own(P, above)) \ (start..end) = Own(P, s[i]) \ (start..end)
  <2>1. (PagesOf(below) \cup PagesOf(above)) \ (start..end) = PagesOf(s[i]) \ (start..end)
    BY <1>3 DEF PagesOf
  <2> QED
    BY <2>1 DEF Own
<1>15. ASSUME NEW P PROVE Covered(P, t) \ (start..end) = Covered(P, s) \ (start..end)
  BY <1>5, <1>9, <1>14
<1>16. SamePages(s, t, start, end)
  BY <1>15 DEF SamePages
<1> QED
  BY <1>13, <1>16 DEF t, r

(* A turn has found nothing to do with the range, or has met it.           *)
PinSteps(st, a, at, told, start, end, fails, v) ==
    \/ /\ v = [st |-> st, at |-> at + 1, told |-> told]
       /\ Apart(st.list[a][at], start, end)
    \/ \E x \in Good : \E t : \E k :
          /\ v = [st |-> x, at |-> k, told |-> told \/ st.list[a][at].purged]
          /\ x.list = [st.list EXCEPT ![a] = t]
          /\ Pinned(a, st.list[a], at, t, k, start, end)
          /\ fails = FALSE => SamePages(st.list[a], t, start, end)

(* Every turn is one of these.                                             *)
LEMMA PinTurnIs ==
    ASSUME NEW st \in Good, NEW a \in Areas, NEW at \in 1..Len(st.list[a]), NEW told \in BOOLEAN,
           NEW start \in Nat, NEW end \in Nat, <<start, end>> \in Requests(a), NEW fails \in BOOLEAN,
           Sorted(st.list[a]), ~(st.list[a][at].pgend < start),
           \A j \in 1..Len(st.list[a]) : j < at => Apart(st.list[a][j], start, end),
           NEW u, u = [st |-> st, at |-> at, told |-> told]
    PROVE  PinSteps(st, a, at, told, start, end, fails, PinTurn(u, a, start, end, fails))
<1> DEFINE s == st.list[a]
           r == s[at]
           Met(x, k) == [st |-> x, at |-> k, told |-> told \/ r.purged]
           above == [r EXCEPT !.pgstart = end + 1]
<1>1. s \in Seq(Proper(a)) /\ DOMAIN st.list = Areas /\ Len(s) \in Nat
  BY GoodHas
<1>2. u.st = st /\ u.at = at /\ u.told = told
  OBVIOUS
<1>3. PinTurn(u, a, start, end, fails) =
         IF ~page_range_in_range(r, start, end) THEN [u EXCEPT !.at = at + 1]
         ELSE IF page_range_subsumes_range(r, start, end) THEN Met(range_del(st, a, at), at + 0)
         ELSE IF r.pgstart >= start THEN Met(range_shrink(st, a, at, end + 1, r.pgend), at + 1)
         ELSE IF r.pgend <= end \/ fails
              THEN Met(range_shrink(st, a, at, r.pgstart, start - 1), at + 1)
         ELSE Met(range_shrink(range_alloc(st, a, at, above), a, at + 1, r.pgstart, start - 1), at + 2)
  <2>1. ~PinEnds(u, a, start)
    BY <1>2 DEF PinEnds, range_before_page
  <2> QED
    BY <1>2, <2>1 DEF PinTurn
<1>a. r \in Proper(a) /\ s[at] = r
  BY <1>1
<1> HIDE DEF above
<1>4. /\ r.pgstart \in Nat /\ r.pgend \in Nat /\ r.purged \in BOOLEAN /\ r.pgend >= start
      /\ r.pgstart <= r.pgend \/ (r.pgstart = Size[a] /\ r.pgend = Size[a] - 1)
      /\ r.pgend < Size[a] /\ Size[a] \in Nat
  <2>1. ~(r.pgend < start)
    BY DEF r
  <2> HIDE DEF r
  <2>2. /\ r.pgstart \in Nat /\ r.pgend \in Nat /\ r.purged \in BOOLEAN
        /\ \/ r.pgstart <= r.pgend /\ r.pgend < Size[a]
           \/ r.pgstart = Size[a] /\ r.pgend = Size[a] - 1
    BY <1>a, ProperHas
  <2>3. Size[a] \in Nat
    BY SizeIs
  <2> QED
    BY <2>1, <2>2, <2>3
<1> HIDE DEF r
<1>5. start <= end /\ end < Size[a]
  BY <1>4, RequestIs
<1>6. /\ page_range_in_range(r, start, end) <=>
            \/ r.pgstart <= start /\ r.pgend >= start
            \/ r.pgstart <= end /\ r.pgend >= end
            \/ r.pgstart >= start /\ r.pgend <= end
      /\ page_range_subsumes_range(r, start, end) <=> r.pgstart >= start /\ r.pgend <= end
  BY DEF page_range_in_range, page_in_range, page_range_subsumes_range
<1> HIDE DEF s
<1>b. Sorted(s) /\ (\A j \in 1..Len(s) : j < at => Apart(s[j], start, end)) /\ at \in 1..Len(s)
  BY DEF s
<1>7. CASE ~page_range_in_range(r, start, end)
  <2>1. Apart(r, start, end)
    <3>1. r.pgstart > end
      BY <1>4, <1>5, <1>6, <1>7
    <3> QED
      BY <1>4, <3>1 DEF Apart, PagesOf
  <2>2. PinTurn(u, a, start, end, fails) = [u EXCEPT !.at = at + 1]
    BY <1>3, <1>7, Zenon
  <2>3. [u EXCEPT !.at = at + 1] = [st |-> st, at |-> at + 1, told |-> told]
    <3>1. PICK m : m = at + 1
      OBVIOUS
    <3>2. [u EXCEPT !.at = m] = [st |-> st, at |-> m, told |-> told]
      OBVIOUS
    <3> QED
      BY <3>1, <3>2
  <2>4. PinTurn(u, a, start, end, fails) = [st |-> st, at |-> at + 1, told |-> told]
    BY ONLY <2>2, <2>3, Zenon
  <2> QED
    BY <1>a, <2>1, <2>4, Zenon DEF s, PinSteps
<1>8. CASE page_range_in_range(r, start, end) /\ page_range_subsumes_range(r, start, end)
  <2>1. PinTurn(u, a, start, end, fails) = Met(range_del(st, a, at), at)
    <3>1. at + 0 = at
      OBVIOUS
    <3> QED
      BY <1>3, <1>8, <3>1, Zenon
  <2>2. /\ range_del(st, a, at) \in Good
        /\ range_del(st, a, at).list = [st.list EXCEPT ![a] = RemoveAt(s, at)]
    BY <1>b, DelKeeps DEF s
  <2>3. PagesOf(s[at]) \subseteq start..end
    BY <1>4, <1>6, <1>8, <1>a DEF PagesOf
  <2>4. Pinned(a, s, at, RemoveAt(s, at), at, start, end) /\ SamePages(s, RemoveAt(s, at), start, end)
    BY <1>1, <1>b, <2>3, PinDrops
  <2> QED
    BY <1>a, <2>1, <2>2, <2>4, Zenon DEF s, PinSteps
<1>9. CASE /\ page_range_in_range(r, start, end) /\ ~page_range_subsumes_range(r, start, end)
           /\ r.pgstart >= start
  <2> DEFINE new == [pgstart |-> end + 1, pgend |-> r.pgend, purged |-> r.purged]
  <2>1. PinTurn(u, a, start, end, fails) = Met(range_shrink(st, a, at, end + 1, r.pgend), at + 1)
    BY <1>3, <1>9, Zenon
  <2>2. r.pgend > end /\ r.pgstart <= end
    BY <1>4, <1>5, <1>6, <1>9
  <2>3. <<end + 1, r.pgend>> \in Requests(a)
    BY <1>4, <2>2, RequestIs
  <2>4. new \in Proper(a)
    BY <1>4, <2>3, ProperIs
  <2>5. /\ range_shrink(st, a, at, end + 1, r.pgend) \in Good
        /\ range_shrink(st, a, at, end + 1, r.pgend).list = [st.list EXCEPT ![a] = ReplaceAt(s, at, new)]
    BY <1>a, <1>b, <2>3, ShrinkKeeps DEF s
  <2>6. Pinned(a, s, at, ReplaceAt(s, at, new), at + 1, start, end) /\ SamePages(s, ReplaceAt(s, at, new), start, end)
    <3>1. /\ new.purged = s[at].purged /\ new.pgstart >= s[at].pgstart /\ new.pgend <= s[at].pgend
          /\ Apart(new, start, end)
      BY <1>4, <1>a, <2>2 DEF Apart, PagesOf
    <3>2. PagesOf(new) \ (start..end) = PagesOf(s[at]) \ (start..end)
      BY <1>4, <1>9, <1>a, <2>2 DEF PagesOf
    <3> HIDE DEF new
    <3>3. /\ Pinned(a, s, at, ReplaceAt(s, at, new), at + 1, start, end)
          /\ PagesOf(new) \ (start..end) = PagesOf(s[at]) \ (start..end) =>
                SamePages(s, ReplaceAt(s, at, new), start, end)
      <4>1. start \in Int /\ end \in Int
        OBVIOUS
      <4> QED
        BY <1>1, <1>b, <2>4, <3>1, <4>1, PinShrinks
    <3> QED
      BY ONLY <3>2, <3>3, Zenon
  <2> HIDE DEF new
  <2> QED
    BY <1>a, <2>1, <2>5, <2>6, Zenon DEF s, PinSteps
<1>10. CASE /\ page_range_in_range(r, start, end) /\ ~page_range_subsumes_range(r, start, end)
            /\ ~(r.pgstart >= start) /\ (r.pgend <= end \/ fails)
  <2> DEFINE new == [pgstart |-> r.pgstart, pgend |-> start - 1, purged |-> r.purged]
  <2>1. PinTurn(u, a, start, end, fails) = Met(range_shrink(st, a, at, r.pgstart, start - 1), at + 1)
    BY <1>3, <1>10, Zenon
  <2>2. r.pgstart < start
    BY <1>4, <1>10
  <2>3. <<r.pgstart, start - 1>> \in Requests(a)
    BY <1>4, <1>5, <2>2, RequestIs
  <2>4. new \in Proper(a)
    BY <1>4, <2>3, ProperIs
  <2>5. /\ range_shrink(st, a, at, r.pgstart, start - 1) \in Good
        /\ range_shrink(st, a, at, r.pgstart, start - 1).list = [st.list EXCEPT ![a] = ReplaceAt(s, at, new)]
    BY <1>a, <1>b, <2>3, ShrinkKeeps DEF s
  <2>6. /\ Pinned(a, s, at, ReplaceAt(s, at, new), at + 1, start, end)
        /\ fails = FALSE => SamePages(s, ReplaceAt(s, at, new), start, end)
    <3>1. /\ new.purged = s[at].purged /\ new.pgstart >= s[at].pgstart /\ new.pgend <= s[at].pgend
          /\ Apart(new, start, end)
      BY <1>4, <1>a, <2>2 DEF Apart, PagesOf
    <3>2. fails = FALSE => PagesOf(new) \ (start..end) = PagesOf(s[at]) \ (start..end)
      BY <1>4, <1>10, <1>a, <2>2 DEF PagesOf
    <3> HIDE DEF new
    <3>3. /\ Pinned(a, s, at, ReplaceAt(s, at, new), at + 1, start, end)
          /\ PagesOf(new) \ (start..end) = PagesOf(s[at]) \ (start..end) =>
                SamePages(s, ReplaceAt(s, at, new), start, end)
      <4>1. start \in Int /\ end \in Int
        OBVIOUS
      <4> QED
        BY <1>1, <1>b, <2>4, <3>1, <4>1, PinShrinks
    <3> QED
      BY ONLY <3>2, <3>3, Zenon
  <2> HIDE DEF new
  <2> QED
    BY <1>a, <2>1, <2>5, <2>6, Zenon DEF s, PinSteps
<1>11. CASE /\ page_range_in_range(r, start, end) /\ ~page_range_subsumes_range(r, start, end)
            /\ ~(r.pgstart >= start) /\ ~(r.pgend <= end \/ fails)
  <2> DEFINE below == [pgstart |-> r.pgstart, pgend |-> start - 1, purged |-> r.purged]
             y == range_alloc(st, a, at, above)
             x == range_shrink(y, a, at + 1, r.pgstart, start - 1)
             t == InsertAt(ReplaceAt(s, at, below), at, above)
  <2>1. PinTurn(u, a, start, end, fails) = Met(x, at + 2)
    BY <1>3, <1>11, Zenon
  <2>2. r.pgstart < start /\ r.pgend > end
    BY <1>4, <1>11
  <2>a. <<r.pgstart, start - 1>> \in Requests(a)
    BY <1>4, <1>5, <2>2, RequestIs
  <2>b. <<end + 1, r.pgend>> \in Requests(a)
    BY <1>4, <1>5, <2>2, RequestIs
  <2>3. <<r.pgstart, start - 1>> \in Requests(a) /\ <<end + 1, r.pgend>> \in Requests(a)
    BY <2>a, <2>b
  <2>4. below \in Proper(a)
    BY <1>4, <2>3, ProperIs
  <2>5. above \in Proper(a) /\ above.pgstart = end + 1 /\ above.pgend = r.pgend /\ above.purged = r.purged
    <3>1. above = [pgstart |-> end + 1, pgend |-> r.pgend, purged |-> r.purged]
      BY <1>a, ProperChanged DEF above
    <3>2. [pgstart |-> end + 1, pgend |-> r.pgend, purged |-> r.purged] \in Proper(a)
      BY <1>4, <2>3, ProperIs
    <3> QED
      BY <3>1, <3>2
  <2>6. below.pgstart = r.pgstart /\ below.pgend = start - 1 /\ below.purged = r.purged
    OBVIOUS
  <2> HIDE DEF below
  <2>7. y \in Good /\ y.list = [st.list EXCEPT ![a] = InsertAt(s, at, above)]
    <3>1. at \in 1..(Len(st.list[a]) + 1)
      BY <1>1, <1>b DEF s
    <3> QED
      BY <2>5, <3>1, AllocKeeps DEF s
  <2> HIDE DEF y
  <2>8. /\ ReplaceAt(InsertAt(s, at, above), at + 1, below) = t
        /\ at + 1 \in 1..Len(InsertAt(s, at, above))
        /\ InsertAt(s, at, above)[at + 1] = r
    <3>1. s \in Seq(Proper(a)) /\ at \in 1..Len(s)
      BY <1>1, <1>b
    <3>2. above \in Proper(a) /\ below \in Proper(a)
      BY <2>4, <2>5
    <3>3. /\ ReplaceAt(InsertAt(s, at, above), at + 1, below) = InsertAt(ReplaceAt(s, at, below), at, above)
          /\ at + 1 \in 1..Len(InsertAt(s, at, above))
          /\ InsertAt(s, at, above)[at + 1] = s[at]
      <4> HIDE DEF s
      <4> QED
        BY ONLY <3>1, <3>2, SplitIs
    <3> QED
      BY ONLY <3>3, <1>a, Zenon DEF t
  <2>9. y.list[a] = InsertAt(s, at, above)
    BY <1>1, <2>7
  <2>10. /\ x \in Good
         /\ x.list = [y.list EXCEPT ![a] = ReplaceAt(y.list[a], at + 1,
                         [pgstart |-> r.pgstart, pgend |-> start - 1, purged |-> y.list[a][at + 1].purged])]
    <3>1. at + 1 \in 1..Len(y.list[a])
      BY <2>8, <2>9
    <3>2. y \in Good
      BY <2>7
    <3> QED
      <4>1. PICK z, k, p, q : z = y /\ k = at + 1 /\ p = r.pgstart /\ q = start - 1
        OBVIOUS
      <4>2. z \in Good /\ k \in 1..Len(z.list[a]) /\ <<p, q>> \in Requests(a)
        BY ONLY <2>a, <3>1, <3>2, <4>1, Zenon
      <4>3. /\ range_shrink(z, a, k, p, q) \in Good
            /\ range_shrink(z, a, k, p, q).list = [z.list EXCEPT ![a] = ReplaceAt(z.list[a], k,
                         [pgstart |-> p, pgend |-> q, purged |-> z.list[a][k].purged])]
        BY <4>2, ShrinkKeeps
      <4> QED
        BY ONLY <4>1, <4>3, Zenon
  <2> HIDE DEF x
  <2>11. below = [pgstart |-> r.pgstart, pgend |-> start - 1, purged |-> y.list[a][at + 1].purged]
    BY <2>8, <2>9 DEF below
  <2>12. x.list = [y.list EXCEPT ![a] = t]
    BY <2>8, <2>9, <2>10, <2>11
  <2> HIDE DEF t
  <2>13. x.list = [st.list EXCEPT ![a] = t]
    BY <2>7, <2>12
  <2>14. Pinned(a, s, at, t, at + 2, start, end) /\ SamePages(s, t, start, end)
    BY <1>1, <1>5, <1>a, <1>b, <2>2, <2>4, <2>5, <2>6, PinSplits DEF t
  <2> QED
    BY <1>a, <2>1, <2>10, <2>13, <2>14, Zenon DEF s, PinSteps
<1> QED
  BY ONLY <1>7, <1>8, <1>9, <1>10, <1>11, Zenon

(* Between two turns of the loop of ashmem_pin, from the lists st0.        *)
PinKept(st0, a, start, end, fails, u, left) ==
    /\ u.st \in Good /\ u.told \in BOOLEAN
    /\ u.at \in 1..(Len(u.st.list[a]) + 1)
    /\ \A b \in Areas : b # a => u.st.list[b] = st0.list[b]
    /\ Sorted(u.st.list[a])
    /\ \A j \in 1..Len(u.st.list[a]) : j < u.at => Apart(u.st.list[a][j], start, end)
    /\ fails = FALSE => SamePages(st0.list[a], u.st.list[a], start, end)
    /\ ~u.told => Covered({TRUE}, st0.list[a]) \subseteq Covered({TRUE}, u.st.list[a])
    /\ PinEnds(u, a, start) \/ Len(u.st.list[a]) + 1 - u.at <= left

(* A turn keeps what holds between turns, with one range fewer to go.      *)
LEMMA PinTurnKeeps ==
    ASSUME NEW st0 \in Good, NEW a \in Areas, NEW start \in Nat, NEW end \in Nat,
           <<start, end>> \in Requests(a), NEW fails \in BOOLEAN, NEW left \in Int,
           NEW u \in [st : Good, at : Nat, told : BOOLEAN], PinKept(st0, a, start, end, fails, u, left + 1)
    PROVE  /\ PinTurn(u, a, start, end, fails) \in [st : Good, at : Nat, told : BOOLEAN]
           /\ PinKept(st0, a, start, end, fails, PinTurn(u, a, start, end, fails), left)
<1>1. CASE PinEnds(u, a, start)
  <2>1. PinTurn(u, a, start, end, fails) = u
    BY <1>1 DEF PinTurn
  <2>2. PinKept(st0, a, start, end, fails, u, left)
    BY <1>1 DEF PinKept
  <2> QED
    BY <2>1, <2>2
<1>2. CASE ~PinEnds(u, a, start)
  <2>1. PICK st, at, told : st = u.st /\ at = u.at /\ told = u.told
    OBVIOUS
  <2> DEFINE s == st.list[a]
  <2> DEFINE s0 == st0.list[a]
  <2>2. u = [st |-> st, at |-> at, told |-> told] /\ st \in Good /\ told \in BOOLEAN
    BY <2>1
  <2>3. /\ at \in 1..(Len(s) + 1) /\ Sorted(s)
        /\ \A b \in Areas : b # a => st.list[b] = st0.list[b]
        /\ \A j \in 1..Len(s) : j < at => Apart(s[j], start, end)
        /\ fails = FALSE => SamePages(s0, s, start, end)
        /\ ~told => Covered({TRUE}, s0) \subseteq Covered({TRUE}, s)
        /\ Len(s) + 1 - at <= left + 1
    BY <1>2, <2>1 DEF PinKept
  <2>4. s \in Seq(Proper(a)) /\ Len(s) \in Nat /\ DOMAIN st.list = Areas
    BY <2>2, GoodHas
  <2>5. at \in 1..Len(s) /\ ~(s[at].pgend < start)
    BY <1>2, <2>1, <2>3, <2>4 DEF PinEnds, range_before_page
  <2>6. \/ /\ PinTurn(u, a, start, end, fails) = [st |-> st, at |-> at + 1, told |-> told]
           /\ Apart(s[at], start, end)
        \/ \E x \in Good : \E t : \E k :
              /\ PinTurn(u, a, start, end, fails) = [st |-> x, at |-> k, told |-> told \/ s[at].purged]
              /\ x.list = [st.list EXCEPT ![a] = t]
              /\ Pinned(a, s, at, t, k, start, end)
              /\ fails = FALSE => SamePages(s, t, start, end)
    <3>1. st \in Good /\ at \in 1..Len(st.list[a]) /\ told \in BOOLEAN
      BY <2>2, <2>5
    <3>2. Sorted(st.list[a]) /\ ~(st.list[a][at].pgend < start)
      BY <2>3, <2>5
    <3>3. \A j \in 1..Len(st.list[a]) : j < at => Apart(st.list[a][j], start, end)
      BY <2>3
    <3>4. PinSteps(st, a, at, told, start, end, fails, PinTurn(u, a, start, end, fails))
      BY <2>2, <3>1, <3>2, <3>3, PinTurnIs
    <3> QED
      BY <3>4, Zenon DEF PinSteps
  <2> HIDE DEF s, s0
  <2>7. CASE /\ PinTurn(u, a, start, end, fails) = [st |-> st, at |-> at + 1, told |-> told]
             /\ Apart(s[at], start, end)
    <3> DEFINE v == [st |-> st, at |-> at + 1, told |-> told]
    <3>1. v \in [st : Good, at : Nat, told : BOOLEAN]
      BY <2>2, <2>5
    <3>2. v.st = st /\ v.at = at + 1 /\ v.told = told /\ v.st.list[a] = s
      BY DEF s
    <3> HIDE DEF v
    <3>3. \A j \in 1..Len(s) : j < at + 1 => Apart(s[j], start, end)
      <4>1. \A j \in 1..Len(s) : j < at + 1 => j < at \/ j = at
        BY <2>5
      <4> QED
        BY <2>3, <2>7, <4>1
    <3>4. at + 1 \in 1..(Len(s) + 1) /\ Len(s) + 1 - (at + 1) <= left
      <4>1. Len(s) \in Nat /\ at \in Int /\ left \in Int
        BY <2>4, <2>5
      <4>2. Len(s) + 1 - at <= left + 1 /\ at >= 1 /\ at <= Len(s)
        BY <2>3, <2>5
      <4> QED
        BY ONLY <4>1, <4>2
    <3>5. PinKept(st0, a, start, end, fails, v, left)
      BY <2>2, <2>3, <3>2, <3>3, <3>4 DEF PinKept, s, s0
    <3> QED
      BY <2>7, <3>1, <3>5 DEF v
  <2>8. CASE \E x \in Good : \E t : \E k :
              /\ PinTurn(u, a, start, end, fails) = [st |-> x, at |-> k, told |-> told \/ s[at].purged]
              /\ x.list = [st.list EXCEPT ![a] = t]
              /\ Pinned(a, s, at, t, k, start, end)
              /\ fails = FALSE => SamePages(s, t, start, end)
    <3>1. PICK x \in Good : \E t : \E k :
              /\ PinTurn(u, a, start, end, fails) = [st |-> x, at |-> k, told |-> told \/ s[at].purged]
              /\ x.list = [st.list EXCEPT ![a] = t]
              /\ Pinned(a, s, at, t, k, start, end)
              /\ fails = FALSE => SamePages(s, t, start, end)
      BY <2>8
    <3>2. PICK t, k :
              /\ PinTurn(u, a, start, end, fails) = [st |-> x, at |-> k, told |-> told \/ s[at].purged]
              /\ x.list = [st.list EXCEPT ![a] = t]
              /\ Pinned(a, s, at, t, k, start, end)
              /\ fails = FALSE => SamePages(s, t, start, end)
      BY <3>1
    <3>3. /\ t \in Seq(Proper(a)) /\ Sorted(t) /\ k \in 1..(Len(t) + 1)
          /\ Len(t) - k = Len(s) - at - 1
          /\ \A j \in 1..Len(t) : j < k => Apart(t[j], start, end)
          /\ \A P : Covered(P, RemoveAt(s, at)) \subseteq Covered(P, t)
      BY <3>2 DEF Pinned
    <3>4. x.list[a] = t /\ \A b \in Areas : b # a => x.list[b] = st0.list[b]
      BY <2>3, <2>4, <3>2
    <3>5. s[at].purged \in BOOLEAN
      BY <2>4, <2>5, ListTypes
    <3>6. PICK tell \in BOOLEAN : tell = (told \/ s[at].purged)
      BY <2>2, <3>5
    <3> DEFINE v == [st |-> x, at |-> k, told |-> tell]
    <3>7. PinTurn(u, a, start, end, fails) = v
      BY <3>2, <3>6
    <3>8. v \in [st : Good, at : Nat, told : BOOLEAN]
      BY <3>3
    <3>9. v.st = x /\ v.at = k /\ v.told = tell /\ v.st.list[a] = t
      BY <3>4
    <3> HIDE DEF v
    <3>10. fails = FALSE => SamePages(s0, t, start, end)
      BY <2>3, <3>2 DEF SamePages
    <3>11. ~tell => Covered({TRUE}, s0) \subseteq Covered({TRUE}, t)
      <4> SUFFICES ASSUME ~tell PROVE Covered({TRUE}, s0) \subseteq Covered({TRUE}, t)
        OBVIOUS
      <4>1. ~told /\ s[at].purged = FALSE
        BY <2>2, <3>5, <3>6
      <4>2. Own({TRUE}, s[at]) = {}
        BY <4>1 DEF Own
      <4>3. Covered({TRUE}, s) = Covered({TRUE}, RemoveAt(s, at)) \cup Own({TRUE}, s[at])
        BY <2>4, <2>5, CoveredRemoved
      <4>4. Covered({TRUE}, RemoveAt(s, at)) \subseteq Covered({TRUE}, t)
        BY <3>3
      <4> QED
        BY <2>3, <4>1, <4>2, <4>3, <4>4
    <3>12. Len(t) + 1 - k <= left
      <4>1. Len(t) \in Nat /\ k \in Int /\ at \in Int
        BY <2>5, <3>3
      <4> QED
        BY <2>3, <2>4, <3>3, <4>1
    <3>13. PinKept(st0, a, start, end, fails, v, left)
      BY <3>3, <3>4, <3>9, <3>10, <3>11, <3>12 DEF PinKept, s0
    <3> QED
      BY <3>7, <3>8, <3>13
  <2> QED
    BY <2>6, <2>7, <2>8
<1> QED
  BY <1>1, <1>2

(* When the loop ends, no range has a page of the request.                 *)
(* The list t then has the pages of s that are not from start to end.      *)
Narrowed(s, t, start, end) == \A P : Covered(P, t) = Covered(P, s) \ (start..end)

LEMMA PinEnded ==
    ASSUME NEW st0 \in Good, NEW a \in Areas, NEW start \in Nat, NEW end \in Nat,
           <<start, end>> \in Requests(a),
           NEW u \in [st : Good, at : Nat, told : BOOLEAN], PinKept(st0, a, start, end, FALSE, u, 0)
    PROVE  Narrowed(st0.list[a], u.st.list[a], start, end)
<1> DEFINE s == u.st.list[a]
           at == u.at
<1>1. /\ s \in Seq(Proper(a)) /\ Len(s) \in Nat
      /\ \A j \in 1..Len(s) : /\ s[j] \in Proper(a)
                              /\ s[j].pgstart \in Nat /\ s[j].pgend \in Nat
  BY GoodHas, ListTypes
<1>2. /\ at \in 1..(Len(s) + 1) /\ Sorted(s)
      /\ \A j \in 1..Len(s) : j < at => Apart(s[j], start, end)
      /\ SamePages(st0.list[a], s, start, end)
  BY DEF PinKept
<1>3. at > Len(s) \/ s[at].pgend < start
  BY <1>1, <1>2 DEF PinKept, PinEnds, range_before_page
<1> HIDE DEF s, at
<1>4. ASSUME NEW j \in 1..Len(s) PROVE Apart(s[j], start, end)
  <2>1. CASE j < at
    BY <1>2, <2>1
  <2>2. CASE j = at
    <3>1. s[j].pgend < start
      BY <1>1, <1>2, <1>3, <2>2
    <3> QED
      BY <1>1, <3>1 DEF Apart, PagesOf
  <2>3. CASE j > at
    <3>1. at \in 1..Len(s)
      BY <1>1, <1>2, <2>3
    <3>2. s[at].pgend < start /\ s[j].pgend < s[at].pgstart
      BY <1>1, <1>2, <1>3, <2>3, <3>1 DEF Sorted
    <3>3. s[at].pgstart <= s[at].pgend + 1
      <4>1. s[at] \in Proper(a)
        BY <1>1, <3>1
      <4>2. /\ s[at].pgstart \in Nat /\ s[at].pgend \in Nat /\ Size[a] \in Nat
            /\ \/ s[at].pgstart <= s[at].pgend
               \/ s[at].pgstart = Size[a] /\ s[at].pgend = Size[a] - 1
        BY <4>1, ProperHas, SizeIs
      <4> QED
        BY <4>2
    <3>4. s[j].pgend < start
      BY <1>1, <3>1, <3>2, <3>3
    <3> QED
      BY <1>1, <3>4 DEF Apart, PagesOf
  <2> QED
    BY <1>2, <2>1, <2>2, <2>3
<1>5. ASSUME NEW P PROVE Covered(P, s) = Covered(P, st0.list[a]) \ (start..end)
  <2>1. ASSUME NEW p \in Covered(P, s) PROVE p \notin start..end
    <3>1. PICK j \in 1..Len(s) : p \in Own(P, s[j])
      BY <1>1, CoveredHas
    <3>2. p \in PagesOf(s[j])
      BY <3>1 DEF Own
    <3> QED
      BY <1>4, <3>2 DEF Apart
  <2>2. Covered(P, s) \ (start..end) = Covered(P, st0.list[a]) \ (start..end)
    BY <1>2 DEF SamePages
  <2> QED
    BY <2>1, <2>2
<1> QED
  BY <1>5 DEF s, Narrowed

(* ashmem_pin as a whole, after as many turns as the list is long.         *)
LEMMA PinLoop ==
    ASSUME NEW st0 \in Good, st0 = Now, NEW a \in Areas, NEW start \in Nat, NEW end \in Nat,
           <<start, end>> \in Requests(a), NEW fails \in BOOLEAN, Sorted(st0.list[a])
    PROVE  /\ Pin(a, start, end, fails) \in [st : Good, at : Nat, told : BOOLEAN]
           /\ PinKept(st0, a, start, end, fails, Pin(a, start, end, fails), 0)
<1>1. PICK N \in Nat : N = Len(st0.list[a])
  BY GoodHas
<1>2. N = Len(unpinned_list[a])
  BY <1>1 DEF Now
<1> DEFINE first == [st |-> st0, at |-> 1, told |-> FALSE]
<1> DEFINE U == [st : Good, at : Nat, told : BOOLEAN]
<1> DEFINE Kept(u, n) == PinKept(st0, a, start, end, fails, u, N - n)
<1> DEFINE Turn(u) == PinTurn(u, a, start, end, fails)
<1> DEFINE G == [n \in 0..N |-> {u \in U : Kept(u, n)}]
<1> DEFINE step == [u \in U |-> Turn(u)]
<1>3. ASSUME NEW n \in 1..N, NEW u \in U, Kept(u, n - 1)
      PROVE  Turn(u) \in U /\ Kept(Turn(u), n)
  <2>1. PICK left \in Int : left = N - n
    OBVIOUS
  <2>2. N - (n - 1) = left + 1
    BY <2>1
  <2> QED
    BY <1>3, <2>1, <2>2, PinTurnKeeps
<1>4. first \in U /\ Kept(first, 0)
  <2>1. first \in U /\ first.st = st0 /\ first.at = 1 /\ first.told = FALSE
    OBVIOUS
  <2> HIDE DEF first
  <2> QED
    BY <1>1, <2>1 DEF PinKept, SamePages
<1>b. \A u : Kept(u, N) => PinKept(st0, a, start, end, fails, u, 0)
  OBVIOUS
<1> HIDE DEF Kept, Turn, U
<1>5. first \in G[0]
  BY <1>4
<1>6. \A n \in 1..N : \A u \in G[n - 1] : step[u] \in G[n] /\ step[u] = Turn(u)
  <2> SUFFICES ASSUME NEW n \in 1..N, NEW u \in G[n - 1] PROVE step[u] \in G[n] /\ step[u] = Turn(u)
    OBVIOUS
  <2>1. u \in U /\ Kept(u, n - 1)
    OBVIOUS
  <2>2. Turn(u) \in U /\ Kept(Turn(u), n)
    BY <1>3, <2>1
  <2> QED
    BY <2>1, <2>2
<1>a. \A n \in 1..N : \A u \in G[n - 1] : step[u] \in G[n]
  BY <1>6
<1>7. \A u \in G[N] : u \in U /\ Kept(u, N)
  OBVIOUS
<1> HIDE DEF G, step, first
<1>8. PICK f : Turns(f, N, first, step) /\ \A n \in 0..N : f[n] \in G[n]
  BY <1>5, <1>a, LoopExists
<1>9. f = [n \in 0..N |-> IF n = 0 THEN first ELSE Turn(f[n - 1])]
  <2>1. \A n \in 0..N : n # 0 => step[f[n - 1]] = Turn(f[n - 1])
    <3>1. \A n \in 0..N : n # 0 => n \in 1..N /\ f[n - 1] \in G[n - 1]
      BY <1>8
    <3> QED
      BY <1>6, <3>1
  <2> QED
    BY <1>8, <2>1 DEF Turns
<1> DEFINE after == CHOOSE after : after = [n \in 0..N |-> IF n = 0 THEN first ELSE Turn(after[n - 1])]
<1>10. after = [n \in 0..N |-> IF n = 0 THEN first ELSE Turn(after[n - 1])]
  BY <1>9, Zenon
<1>11. Pin(a, start, end, fails) = after[N]
  BY <1>2, Zenon DEF Pin, Turn, first
<1> HIDE DEF after
<1>12. after[N] \in G[N]
  <2> DEFINE S == {n \in Nat : after[n] \in G[n]}
  <2>1. 0 \in S
    BY <1>5, <1>10
  <2>2. ASSUME NEW n \in 1..N, n - 1 \in S PROVE n \in S
    <3>1. after[n] = Turn(after[n - 1])
      BY <1>10
    <3> QED
      BY <1>6, <2>2, <3>1
  <2>3. \A n \in 0..N : n \in S
    <3> HIDE DEF S
    <3> QED
      BY <2>1, <2>2, UpTo
  <2> QED
    BY <2>3
<1>13. after[N] \in U /\ Kept(after[N], N)
  BY <1>7, <1>12
<1> QED
  BY <1>11, <1>13, <1>b DEF U

-----------------------------------------------------------------------------
(* The loop of ashmem_unpin.                                               *)

LEMMA TwoIs ==
    ASSUME NEW m \in Nat, NEW n \in Nat
    PROVE  /\ Min({m, n}) = IF m <= n THEN m ELSE n
           /\ Max({m, n}) = IF m <= n THEN n ELSE m
<1>1. {m, n} \in SUBSET Nat /\ {m, n} # {}
  OBVIOUS
<1>2. Min({m, n}) \in {m, n} /\ \A k \in {m, n} : Min({m, n}) <= k
  <2> DEFINE S == {m, n}
  <2> HIDE DEF S
  <2>1. Min(S) \in S /\ \A k \in S : Min(S) <= k
    BY <1>1, MinIs DEF S
  <2> QED
    BY <2>1 DEF S
<1> DEFINE x == CHOOSE x \in {m, n} : \A y \in {m, n} : x >= y
<1>3. \E z \in {m, n} : \A y \in {m, n} : z >= y
  OBVIOUS
<1>4. x \in {m, n} /\ \A y \in {m, n} : x >= y
  BY <1>3, Zenon
<1>5. Max({m, n}) = x
  BY Zenon DEF Max
<1> HIDE DEF x
<1>6. Max({m, n}) = IF m <= n THEN n ELSE m
  BY <1>4, <1>5
<1> QED
  BY <1>2, <1>6

(* Where a scan ends.                                                      *)
LEMMA ScanEndIs ==
    ASSUME NEW a \in Areas, NEW s \in Seq(Proper(a)), NEW start \in Nat, Sorted(s)
    PROVE  /\ ScanEnd(s, start) \in 1..(Len(s) + 1)
           /\ \A j \in 1..Len(s) : j < ScanEnd(s, start) => s[j].pgend >= start
           /\ \A j \in 1..Len(s) : j >= ScanEnd(s, start) => s[j].pgend < start
<1> DEFINE S == {i \in 1..Len(s) : range_before_page(s[i], start)} \cup {Len(s) + 1}
           k == Min(S)
<1>1. /\ Len(s) \in Nat
      /\ \A j \in 1..Len(s) : s[j] \in Proper(a) /\ s[j].pgstart \in Nat /\ s[j].pgend \in Nat
  BY ListTypes
<1>2. S \in SUBSET Nat /\ S # {}
  BY <1>1
<1>3. k \in S /\ \A n \in S : k <= n
  <2> HIDE DEF S
  <2> QED
    BY <1>2, MinIs
<1>4. ScanEnd(s, start) = k
  BY DEF ScanEnd
<1> HIDE DEF k
<1>5. k \in 1..(Len(s) + 1) /\ (k \in 1..Len(s) => s[k].pgend < start)
  BY <1>1, <1>3 DEF range_before_page
<1>6. ASSUME NEW j \in 1..Len(s), j < k PROVE s[j].pgend >= start
  <2>1. j \notin S
    BY <1>1, <1>3, <1>5, <1>6
  <2> QED
    BY <1>1, <2>1 DEF range_before_page
<1> HIDE DEF S
<1>7. ASSUME NEW j \in 1..Len(s), j >= k PROVE s[j].pgend < start
  <2>1. CASE j = k
    BY <1>5, <2>1
  <2>2. CASE j > k
    <3>1. k \in 1..Len(s)
      BY <1>1, <1>5, <2>2
    <3>2. s[k].pgend < start /\ s[j].pgend < s[k].pgstart
      BY <1>5, <2>2, <3>1 DEF Sorted
    <3>3. s[k].pgstart <= s[k].pgend + 1
      <4>1. s[k] \in Proper(a)
        BY <1>1, <3>1
      <4>2. /\ s[k].pgstart \in Nat /\ s[k].pgend \in Nat /\ Size[a] \in Nat
            /\ \/ s[k].pgstart <= s[k].pgend
               \/ s[k].pgstart = Size[a] /\ s[k].pgend = Size[a] - 1
        BY <4>1, ProperHas, SizeIs
      <4> QED
        BY <4>2
    <3> QED
      BY <1>1, <3>1, <3>2, <3>3
  <2> QED
    BY <1>5, <1>7, <2>1, <2>2
<1> QED
  BY <1>4, <1>5, <1>6, <1>7

Merging(a) == [st : Good, start : Nat, end : Nat, purged : BOOLEAN]

(* Between two turns: no page is forgotten, and none is added but those of *)
(* the request.                                                            *)
UnpinKept(st0, a, start, end, u, left) ==
    /\ \A b \in Areas : b # a => u.st.list[b] = st0.list[b]
    /\ Sorted(u.st.list[a])
    /\ <<u.start, u.end>> \in Requests(a)
    /\ Covered(BOOLEAN, u.st.list[a]) \cup (u.start..u.end) =
          Covered(BOOLEAN, st0.list[a]) \cup (start..end)
    /\ \A p \in Covered({TRUE}, st0.list[a]) :
          \/ p \in Covered({TRUE}, u.st.list[a])
          \/ u.purged /\ p \in u.start..u.end /\ p \notin Covered(BOOLEAN, u.st.list[a])
    /\ UnpinEnds(u, a) \/ Len(u.st.list[a]) <= left

(* The first range that ashmem_unpin meets.                                *)
LEMMA HitIs ==
    ASSUME NEW a \in Areas, NEW u \in Merging(a), Sorted(u.st.list[a]), Hit(u, a) # {}
    PROVE  /\ Min(Hit(u, a)) \in 1..Len(u.st.list[a])
           /\ u.st.list[a][Min(Hit(u, a))].pgend >= u.start
           /\ \/ page_range_subsumed_by_range(u.st.list[a][Min(Hit(u, a))], u.start, u.end)
              \/ page_range_in_range(u.st.list[a][Min(Hit(u, a))], u.start, u.end)
<1> DEFINE s == u.st.list[a]
           k == ScanEnd(s, u.start)
           H == {i \in 1..(k - 1) :
                    \/ page_range_subsumed_by_range(s[i], u.start, u.end)
                    \/ page_range_in_range(s[i], u.start, u.end)}
<1>1. Hit(u, a) = H
  BY DEF Hit
<1>2. s \in Seq(Proper(a)) /\ Len(s) \in Nat /\ u.start \in Nat
  BY GoodHas DEF Merging
<1>3. k \in 1..(Len(s) + 1) /\ \A j \in 1..Len(s) : j < k => s[j].pgend >= u.start
  BY <1>2, ScanEndIs
<1> HIDE DEF s, k
<1>4. H \in SUBSET Nat /\ H # {}
  BY <1>1, <1>3
<1>5. Min(H) \in H
  <2> HIDE DEF H
  <2> QED
    BY <1>4, MinIs
<1>6. PICK i : i = Min(H)
  OBVIOUS
<1>7. i \in 1..(k - 1) /\ (page_range_subsumed_by_range(s[i], u.start, u.end) \/ page_range_in_range(s[i], u.start, u.end))
  BY <1>5, <1>6
<1>8. i \in 1..Len(s) /\ s[i].pgend >= u.start
  BY <1>2, <1>3, <1>7
<1>9. i = Min(Hit(u, a))
  BY <1>1, <1>6, Zenon
<1> QED
  BY <1>7, <1>8, <1>9 DEF s

(* A turn of ashmem_unpin takes a range out, and the request grows by its  *)
(* pages.                                                                  *)
LEMMA UnpinTurnKeeps ==
    ASSUME NEW st0 \in Good, NEW a \in Areas, NEW start \in Nat, NEW end \in Nat, NEW left \in Int,
           NEW u \in Merging(a), UnpinKept(st0, a, start, end, u, left + 1)
    PROVE  UnpinTurn(u, a) \in Merging(a) /\ UnpinKept(st0, a, start, end, UnpinTurn(u, a), left)
<1>1. CASE UnpinEnds(u, a)
  <2>1. UnpinTurn(u, a) = u
    BY <1>1 DEF UnpinTurn
  <2>2. UnpinKept(st0, a, start, end, u, left)
    BY <1>1 DEF UnpinKept
  <2> QED
    BY <2>1, <2>2
<1>2. CASE ~UnpinEnds(u, a)
  <2> DEFINE i == Min(Hit(u, a))
             s == u.st.list[a]
             r == s[i]
             x == range_del(u.st, a, i)
             first == Min({r.pgstart, u.start})
             last == Max({r.pgend, u.end})
             told == u.purged \/ r.purged
             v == [st |-> x, start |-> first, end |-> last, purged |-> told]
  <2>1. UnpinTurn(u, a) = v
    BY <1>2 DEF UnpinTurn
  <2>2. Hit(u, a) # {} /\ ~page_range_subsumed_by_range(r, u.start, u.end)
    BY <1>2 DEF UnpinEnds
  <2>3. /\ Sorted(s) /\ <<u.start, u.end>> \in Requests(a)
        /\ \A b \in Areas : b # a => u.st.list[b] = st0.list[b]
        /\ Covered(BOOLEAN, s) \cup (u.start..u.end) = Covered(BOOLEAN, st0.list[a]) \cup (start..end)
        /\ \A p \in Covered({TRUE}, st0.list[a]) :
              \/ p \in Covered({TRUE}, s)
              \/ u.purged /\ p \in u.start..u.end /\ p \notin Covered(BOOLEAN, s)
        /\ Len(s) <= left + 1
    BY <1>2 DEF UnpinKept
  <2>4. u.st \in Good /\ u.start \in Nat /\ u.end \in Nat /\ u.purged \in BOOLEAN
    BY DEF Merging
  <2>5. s \in Seq(Proper(a)) /\ Len(s) \in Nat /\ DOMAIN u.st.list = Areas
    BY <2>4, GoodHas
  <2>6. i \in 1..Len(s) /\ r.pgend >= u.start /\ page_range_in_range(r, u.start, u.end)
    BY <2>2, <2>3, HitIs
  <2>7. /\ x \in Good /\ x.list = [u.st.list EXCEPT ![a] = RemoveAt(s, i)]
    BY <2>4, <2>6, DelKeeps
  <2> HIDE DEF i, x
  <2>8. r \in Proper(a) /\ s[i] = r
    BY <2>5, <2>6
  <2> HIDE DEF s, r
  <2>9. /\ r.pgstart \in Nat /\ r.pgend \in Nat /\ r.purged \in BOOLEAN /\ Size[a] \in Nat
        /\ \/ r.pgstart <= r.pgend /\ r.pgend < Size[a]
           \/ r.pgstart = Size[a] /\ r.pgend = Size[a] - 1
    BY <2>8, ProperHas, SizeIs
  <2>10. u.start <= u.end /\ u.end < Size[a]
    <3>1. \/ u.start <= u.end /\ u.end < Size[a]
          \/ u.start = Size[a] /\ u.end = Size[a] - 1
      BY <2>3, RequestIs
    <3> QED
      BY <2>4, <2>6, <2>9, <3>1
  <2>11. \/ r.pgstart <= u.start /\ r.pgend >= u.start
         \/ r.pgstart <= u.end /\ r.pgend >= u.end
         \/ r.pgstart >= u.start /\ r.pgend <= u.end
    BY <2>6 DEF page_range_in_range, page_in_range, page_range_subsumes_range
  <2>12. /\ first = IF r.pgstart <= u.start THEN r.pgstart ELSE u.start
         /\ last = IF r.pgend <= u.end THEN u.end ELSE r.pgend
    BY <2>4, <2>9, TwoIs
  <2> HIDE DEF first, last
  <2>13. first \in Nat /\ last \in Nat /\ first <= last /\ last < Size[a]
    BY <2>4, <2>9, <2>10, <2>12
  <2>14. <<first, last>> \in Requests(a)
    BY <2>13, RequestIs
  <2>15. PagesOf(r) \cup (u.start..u.end) = first..last
    <3> SUFFICES ASSUME NEW p PROVE p \in PagesOf(r) \cup (u.start..u.end) <=> p \in first..last
      OBVIOUS
    <3>1. CASE p \in Int
      BY <2>4, <2>9, <2>10, <2>11, <2>12, <3>1 DEF PagesOf
    <3>2. CASE p \notin Int
      BY <2>4, <2>9, <2>13, <3>2 DEF PagesOf
    <3> QED
      BY <3>1, <3>2
  <2>16. told \in BOOLEAN /\ (told <=> (u.purged \/ r.purged))
    OBVIOUS
  <2> HIDE DEF told
  <2>17. v \in Merging(a) /\ v.st = x /\ v.start = first /\ v.end = last /\ v.purged = told
    BY <2>7, <2>13, <2>16 DEF Merging
  <2> HIDE DEF v
  <2> DEFINE t == RemoveAt(s, i)
  <2>18. x.list[a] = t /\ \A b \in Areas : b # a => x.list[b] = st0.list[b]
    BY <2>3, <2>5, <2>7
  <2>19. t \in Seq(Proper(a)) /\ Len(t) = Len(s) - 1 /\ Sorted(t)
    BY <2>3, <2>5, <2>6, RemoveAtIs, SortedRemove
  <2>20. \A P : Covered(P, s) = Covered(P, t) \cup Own(P, r)
    <3>1. ASSUME NEW P PROVE Covered(P, s) = Covered(P, t) \cup Own(P, r)
      BY <2>5, <2>6, <2>8, CoveredRemoved
    <3> QED
      BY <3>1
  <2>21. PagesOf(r) \cap Covered(BOOLEAN, t) = {}
    <3>1. \A q \in ToSet(t) : q.pgend < r.pgstart \/ r.pgend < q.pgstart
      BY <2>3, <2>5, <2>6, <2>8, SortedApart
    <3>2. ToSet(t) \subseteq Proper(a)
      BY <2>19, ToSetIs
    <3>3. ASSUME NEW q \in ToSet(t) PROVE PagesOf(r) \cap PagesOf(q) = {}
      <4>1. q.pgstart \in Nat /\ q.pgend \in Nat
        BY <3>2, ProperHas
      <4> QED
        BY <2>9, <3>1, <4>1 DEF PagesOf
    <3>4. ASSUME NEW q \in ToSet(t) PROVE Own(BOOLEAN, q) \subseteq PagesOf(q)
      BY DEF Own
    <3> HIDE DEF t
    <3> QED
      BY <3>3, <3>4 DEF Covered
  <2> HIDE DEF t
  <2>22. Own(BOOLEAN, r) = PagesOf(r)
    BY <2>9 DEF Own
  <2>23. Covered(BOOLEAN, t) \cup (first..last) = Covered(BOOLEAN, st0.list[a]) \cup (start..end)
    BY <2>3, <2>15, <2>20, <2>22
  <2>24. ASSUME NEW p \in Covered({TRUE}, st0.list[a])
         PROVE  \/ p \in Covered({TRUE}, t)
                \/ told /\ p \in first..last /\ p \notin Covered(BOOLEAN, t)
    <3>1. CASE u.purged /\ p \in u.start..u.end /\ p \notin Covered(BOOLEAN, s)
      BY <2>15, <2>16, <2>20, <3>1
    <3>2. CASE p \in Covered({TRUE}, s)
      <4>1. p \in Covered({TRUE}, t) \/ p \in Own({TRUE}, r)
        BY <2>20, <3>2
      <4>2. CASE p \in Own({TRUE}, r)
        <5>1. r.purged = TRUE /\ p \in PagesOf(r)
          BY <4>2 DEF Own
        <5> QED
          BY <2>15, <2>16, <2>21, <5>1
      <4> QED
        BY <4>1, <4>2
    <3> QED
      BY <2>3, <3>1, <3>2
  <2>25. Len(t) <= left
    BY <2>3, <2>5, <2>19
  <2>26. UnpinKept(st0, a, start, end, v, left)
    BY <2>14, <2>17, <2>18, <2>19, <2>23, <2>24, <2>25 DEF UnpinKept
  <2> QED
    BY <2>1, <2>17, <2>26
<1> QED
  BY <1>1, <1>2

(* All its turns.                                                          *)
LEMMA UnpinLoop ==
    ASSUME NEW st0 \in Good, st0 = Now, NEW a \in Areas, NEW start \in Nat, NEW end \in Nat,
           <<start, end>> \in Requests(a), Sorted(st0.list[a])
    PROVE  /\ UnpinMerged(a, start, end) \in Merging(a)
           /\ UnpinKept(st0, a, start, end, UnpinMerged(a, start, end), 0)
<1>1. PICK N \in Nat : N = Len(st0.list[a])
  BY GoodHas
<1>2. N = Len(unpinned_list[a])
  BY <1>1 DEF Now
<1> DEFINE first == [st |-> st0, start |-> start, end |-> end, purged |-> FALSE]
<1> DEFINE U == Merging(a)
<1> DEFINE Kept(u, n) == UnpinKept(st0, a, start, end, u, N - n)
<1> DEFINE Turn(u) == UnpinTurn(u, a)
<1> DEFINE G == [n \in 0..N |-> {u \in U : Kept(u, n)}]
<1> DEFINE step == [u \in U |-> Turn(u)]
<1>3. ASSUME NEW n \in 1..N, NEW u \in U, Kept(u, n - 1)
      PROVE  Turn(u) \in U /\ Kept(Turn(u), n)
  <2>1. PICK left \in Int : left = N - n
    OBVIOUS
  <2>2. N - (n - 1) = left + 1
    BY <2>1
  <2> QED
    BY <1>3, <2>1, <2>2, UnpinTurnKeeps
<1>4. first \in U /\ Kept(first, 0)
  <2>1. /\ first \in U /\ first.st = st0 /\ first.start = start /\ first.end = end
        /\ first.purged = FALSE
    BY DEF Merging
  <2> HIDE DEF first
  <2> QED
    BY <1>1, <2>1 DEF UnpinKept
<1>b. \A u : Kept(u, N) => UnpinKept(st0, a, start, end, u, 0)
  OBVIOUS
<1> HIDE DEF Kept, Turn, U
<1>5. first \in G[0]
  BY <1>4
<1>6. \A n \in 1..N : \A u \in G[n - 1] : step[u] \in G[n] /\ step[u] = Turn(u)
  <2> SUFFICES ASSUME NEW n \in 1..N, NEW u \in G[n - 1] PROVE step[u] \in G[n] /\ step[u] = Turn(u)
    OBVIOUS
  <2>1. u \in U /\ Kept(u, n - 1)
    OBVIOUS
  <2>2. Turn(u) \in U /\ Kept(Turn(u), n)
    BY <1>3, <2>1
  <2> QED
    BY <2>1, <2>2
<1>a. \A n \in 1..N : \A u \in G[n - 1] : step[u] \in G[n]
  BY <1>6
<1>7. \A u \in G[N] : u \in U /\ Kept(u, N)
  OBVIOUS
<1> HIDE DEF G, step, first
<1>8. PICK f : Turns(f, N, first, step) /\ \A n \in 0..N : f[n] \in G[n]
  BY <1>5, <1>a, LoopExists
<1>9. f = [n \in 0..N |-> IF n = 0 THEN first ELSE Turn(f[n - 1])]
  <2>1. \A n \in 0..N : n # 0 => step[f[n - 1]] = Turn(f[n - 1])
    <3>1. \A n \in 0..N : n # 0 => n \in 1..N /\ f[n - 1] \in G[n - 1]
      BY <1>8
    <3> QED
      BY <1>6, <3>1
  <2> QED
    BY <1>8, <2>1 DEF Turns
<1> DEFINE after == CHOOSE after : after = [n \in 0..N |-> IF n = 0 THEN first ELSE Turn(after[n - 1])]
<1>10. after = [n \in 0..N |-> IF n = 0 THEN first ELSE Turn(after[n - 1])]
  BY <1>9, Zenon
<1>11. UnpinMerged(a, start, end) = after[N]
  BY <1>2, Zenon DEF UnpinMerged, Turn, first
<1> HIDE DEF after
<1>12. after[N] \in G[N]
  <2> DEFINE S == {n \in Nat : after[n] \in G[n]}
  <2>1. 0 \in S
    BY <1>5, <1>10
  <2>2. ASSUME NEW n \in 1..N, n - 1 \in S PROVE n \in S
    <3>1. after[n] = Turn(after[n - 1])
      BY <1>10
    <3> QED
      BY <1>6, <2>2, <3>1
  <2>3. \A n \in 0..N : n \in S
    <3> HIDE DEF S
    <3> QED
      BY <2>1, <2>2, UpTo
  <2> QED
    BY <2>3
<1>13. after[N] \in U /\ Kept(after[N], N)
  BY <1>7, <1>12
<1> QED
  BY <1>11, <1>13, <1>b DEF U

(* What ashmem_unpin makes of the lists st0.                               *)
Widened(st0, st, a, start, end, fails) ==
    /\ st \in Good
    /\ \A b \in Areas : b # a => st.list[b] = st0.list[b]
    /\ Sorted(st.list[a])
    /\ fails = FALSE =>
          /\ Covered(BOOLEAN, st.list[a]) = Covered(BOOLEAN, st0.list[a]) \cup (start..end)
          /\ Covered({TRUE}, st0.list[a]) \subseteq Covered({TRUE}, st.list[a])

(* ashmem_unpin as a whole: the loop, and the new range.                   *)
LEMMA UnpinIs ==
    ASSUME NEW st0 \in Good, st0 = Now, NEW a \in Areas, NEW start \in Nat, NEW end \in Nat,
           <<start, end>> \in Requests(a), Sorted(st0.list[a]), NEW fails \in BOOLEAN
    PROVE  Widened(st0, Unpin(a, start, end, fails), a, start, end, fails)
<1>1. PICK u : u = UnpinMerged(a, start, end)
  OBVIOUS
<1> DEFINE s == u.st.list[a]
           new == [pgstart |-> u.start, pgend |-> u.end, purged |-> u.purged]
           k == ScanEnd(s, u.start)
           x == range_alloc(u.st, a, k, new)
<1>2. Unpin(a, start, end, fails) = IF Hit(u, a) # {} \/ fails THEN u.st ELSE x
  BY <1>1 DEF Unpin
<1>3. u \in Merging(a) /\ UnpinKept(st0, a, start, end, u, 0)
  BY <1>1, UnpinLoop
<1>4. u.st \in Good /\ u.start \in Nat /\ u.end \in Nat /\ u.purged \in BOOLEAN
  BY <1>3 DEF Merging
<1>5. /\ \A b \in Areas : b # a => u.st.list[b] = st0.list[b]
      /\ Sorted(s)
      /\ <<u.start, u.end>> \in Requests(a)
      /\ Covered(BOOLEAN, s) \cup (u.start..u.end) = Covered(BOOLEAN, st0.list[a]) \cup (start..end)
      /\ \A p \in Covered({TRUE}, st0.list[a]) :
            \/ p \in Covered({TRUE}, s)
            \/ u.purged /\ p \in u.start..u.end /\ p \notin Covered(BOOLEAN, s)
      /\ UnpinEnds(u, a) \/ Len(s) <= 0
  BY <1>3 DEF UnpinKept
<1>6. s \in Seq(Proper(a)) /\ Len(s) \in Nat /\ DOMAIN u.st.list = Areas
  BY <1>4, GoodHas
<1>7. \A j \in 1..Len(s) : s[j] \in Proper(a) /\ s[j].pgstart \in Nat /\ s[j].pgend \in Nat /\ s[j].purged \in BOOLEAN
  BY <1>6, ListTypes
<1>8. CASE Hit(u, a) # {}
  <2>1. Unpin(a, start, end, fails) = u.st
    BY <1>2, <1>8
  <2> DEFINE i == Min(Hit(u, a))
             r == s[i]
  <2>2. i \in 1..Len(s)
    BY <1>3, <1>5, <1>8, HitIs
  <2>3. page_range_subsumed_by_range(r, u.start, u.end)
    BY <1>5, <1>6, <1>8, <2>2 DEF UnpinEnds
  <2> HIDE DEF i
  <2>4. r.pgstart <= u.start /\ r.pgend >= u.end /\ r \in Proper(a) /\ r.purged \in BOOLEAN
        /\ r.pgstart \in Nat /\ r.pgend \in Nat
    BY <1>7, <2>2, <2>3 DEF page_range_subsumed_by_range
  <2>5. u.start..u.end \subseteq Covered(BOOLEAN, s)
    <3>1. u.start..u.end \subseteq Own(BOOLEAN, s[i])
      <4> HIDE DEF s
      <4> QED
        BY <1>4, <2>4 DEF Own, PagesOf
    <3>2. ASSUME NEW p \in u.start..u.end PROVE p \in Covered(BOOLEAN, s)
      BY <1>6, <2>2, <3>1, CoveredHas
    <3> QED
      BY <3>2
  <2> HIDE DEF s
  <2>6. Covered(BOOLEAN, s) = Covered(BOOLEAN, st0.list[a]) \cup (start..end)
    BY <1>5, <2>5
  <2>7. Covered({TRUE}, st0.list[a]) \subseteq Covered({TRUE}, s)
    BY <1>5, <2>5
  <2>8. Widened(st0, u.st, a, start, end, fails)
    BY <1>4, <1>5, <2>6, <2>7 DEF s, Widened
  <2> QED
    BY <2>1, <2>8
<1>9. CASE ~(Hit(u, a) # {}) /\ fails
  <2>1. Unpin(a, start, end, fails) = u.st
    BY <1>2, <1>9
  <2>2. Widened(st0, u.st, a, start, end, fails)
    BY <1>4, <1>5, <1>9 DEF Widened
  <2> QED
    BY <2>1, <2>2
<1>10. CASE ~(Hit(u, a) # {} \/ fails)
  <2>1. Unpin(a, start, end, fails) = x
    BY <1>2, <1>10
  <2>2. new \in Proper(a) /\ new.pgstart = u.start /\ new.pgend = u.end /\ new.purged = u.purged
    BY <1>4, <1>5, ProperIs
  <2>3. /\ k \in 1..(Len(s) + 1)
        /\ \A j \in 1..Len(s) : j < k => s[j].pgend >= u.start
        /\ \A j \in 1..Len(s) : j >= k => s[j].pgend < u.start
    BY <1>4, <1>5, <1>6, ScanEndIs
  <2>4. ASSUME NEW j \in 1..Len(s), j < k PROVE u.end < s[j].pgstart
    <3>1. j \in 1..(k - 1)
      BY <2>3, <2>4
    <3>2. ~page_range_in_range(s[j], u.start, u.end)
      BY <1>10, <3>1 DEF Hit
    <3>3. /\ s[j].pgend >= u.start /\ s[j].pgstart \in Nat /\ s[j].pgend \in Nat /\ Size[a] \in Nat
          /\ s[j].pgend < Size[a]
      <4>1. s[j] \in Proper(a) /\ s[j].pgend >= u.start
        BY <1>7, <2>3, <2>4
      <4> HIDE DEF s, k
      <4>2. /\ s[j].pgstart \in Nat /\ s[j].pgend \in Nat /\ Size[a] \in Nat \ {0}
            /\ \/ s[j].pgstart <= s[j].pgend /\ s[j].pgend < Size[a]
               \/ s[j].pgstart = Size[a] /\ s[j].pgend = Size[a] - 1
        BY <4>1, ProperHas, SizeIs
      <4> QED
        BY <4>1, <4>2
    <3>4. u.start <= u.end
      <4> HIDE DEF s, k
      <4>1. \/ u.start <= u.end /\ u.end < Size[a]
            \/ u.start = Size[a] /\ u.end = Size[a] - 1
        BY <1>5, RequestIs
      <4> QED
        BY <1>4, <3>3, <4>1
    <3> HIDE DEF s, k
    <3> QED
      BY <1>4, <3>2, <3>3, <3>4 DEF page_range_in_range, page_in_range, page_range_subsumes_range
  <2> DEFINE t == InsertAt(s, k, new)
  <2>5. x \in Good /\ x.list = [u.st.list EXCEPT ![a] = t]
    BY <1>4, <2>2, <2>3, AllocKeeps
  <2> HIDE DEF new, x, k
  <2>6. Sorted(t)
    <3>1. \A j \in 1..Len(s) : j < k => new.pgend < s[j].pgstart
      BY <2>2, <2>4
    <3>2. \A j \in 1..Len(s) : j >= k => s[j].pgend < new.pgstart
      BY <2>2, <2>3
    <3> HIDE DEF s
    <3> QED
      BY <1>5, <1>6, <2>2, <2>3, <3>1, <3>2, SortedInsert
  <2>7. \A P : Covered(P, t) = Covered(P, s) \cup Own(P, new)
    <3>1. ASSUME NEW P PROVE Covered(P, t) = Covered(P, s) \cup Own(P, new)
      <4> HIDE DEF s
      <4> QED
        BY <1>6, <2>2, <2>3, CoveredInsert
    <3> QED
      BY <3>1
  <2>8. Own(BOOLEAN, new) = u.start..u.end /\ (u.purged => Own({TRUE}, new) = u.start..u.end)
    BY <1>4, <2>2 DEF Own, PagesOf
  <2>9. x.list[a] = t /\ \A b \in Areas : b # a => x.list[b] = st0.list[b]
    BY <1>5, <1>6, <2>5
  <2> HIDE DEF s, t
  <2>10. Covered(BOOLEAN, t) = Covered(BOOLEAN, st0.list[a]) \cup (start..end)
    BY <1>5, <2>7, <2>8
  <2>11. Covered({TRUE}, st0.list[a]) \subseteq Covered({TRUE}, t)
    BY <1>5, <2>7, <2>8
  <2>12. Widened(st0, x, a, start, end, fails)
    BY <2>5, <2>6, <2>9, <2>10, <2>11 DEF Widened
  <2> QED
    BY <2>1, <2>12
<1> QED
  BY <1>8, <1>9, <1>10

-----------------------------------------------------------------------------
(* The invariant: the lists are Good, whatever allocations fail, and each  *)
(* area's list is sorted.                                                  *)
Orderly ==
    /\ Now \in Good
    /\ \A a \in Areas : Sorted(unpinned_list[a])

(* Becoming Good and sorted lists is Orderly.                              *)
LEMMA OrderlyIs ==
    ASSUME NEW x \in Good, Becomes(x), \A a \in Areas : Sorted(x.list[a])
    PROVE  Orderly' /\ Now' = x
<1>1. x = [list |-> x.list, lru |-> x.lru, count |-> x.count]
  BY GoodHas
<1>2. Now' = x
  BY <1>1 DEF Now, Becomes
<1>3. unpinned_list' = x.list
  BY DEF Becomes
<1> QED
  BY <1>2, <1>3 DEF Orderly

LEMMA OrderlyHas ==
    ASSUME Orderly
    PROVE  \E st0 \in Good : /\ st0 = Now
                             /\ st0.list = unpinned_list
                             /\ st0.lru = lru
                             /\ st0.count = lru_count
                             /\ \A a \in Areas : Sorted(st0.list[a])
  BY DEF Orderly, Now

LEMMA OrderlyInit ==
    ASSUME Init
    PROVE  Orderly
<1>1. <<>> \in Seq(Int) /\ Len(<<>>) = 0
  OBVIOUS
<1>2. Total(<<>>) = 0
  <2>1. PICK s \in Seq(Int) : s = <<>>
    BY <1>1
  <2>2. Len(s) = 0
    BY <2>1
  <2>3. /\ \A n \in 1..Len(s) : s[n] >= 0
        /\ \A n \in 1..Len(s) : s[n] = 0
    BY <2>2
  <2>4. Total(s) = 0
    BY <2>3, TotalNat
  <2> QED
    BY <2>1, <2>4
<1>3. /\ \A x : [j \in DOMAIN <<>> |-> IF (<<>>)[j] = x THEN 1 ELSE 0] = <<>>
      /\ [j \in DOMAIN <<>> |-> range_size((<<>>)[j])] = <<>>
  OBVIOUS
<1>4. (\A x : Count(x, <<>>) = 0) /\ Sizes(<<>>) = 0
  BY <1>2, <1>3 DEF Count, Sizes
<1>5. /\ Now = [list |-> [a \in Areas |-> <<>>], lru |-> <<>>, count |-> 0]
      /\ unpinned_list = [a \in Areas |-> <<>>]
  BY DEF Init, Now
<1>6. [a \in Areas |-> <<>>] \in [Areas -> UNION {Seq(Proper(a)) : a \in Areas}]
  OBVIOUS
<1>7. Now \in Good
  <2>1. PICK x : x = Now
    OBVIOUS
  <2>2. /\ x = [list |-> [a \in Areas |-> <<>>], lru |-> <<>>, count |-> 0]
        /\ x.lru = <<>> /\ x.count = 0 /\ \A a \in Areas : x.list[a] = <<>>
    BY <1>5, <2>1
  <2>3. x \in [list : [Areas -> UNION {Seq(Proper(a)) : a \in Areas}], lru : Seq(Entries), count : Int]
    BY <1>6, <2>2
  <2>4. \A a \in Areas : x.list[a] \in Seq(Proper(a))
    BY <2>2
  <2>5. Balanced(x)
    BY <1>4, <2>2 DEF Balanced
  <2> QED
    BY <2>1, <2>3, <2>4, <2>5 DEF Good
<1> QED
  BY <1>5, <1>7 DEF Orderly, Sorted

(* Every action keeps the lists as they have to be.  Four change them, two *)
(* of these also where range_alloc fails.                                  *)
LEMMA OrderlyStep ==
    ASSUME Orderly, [Next]_vars
    PROVE  Orderly'
<1>1. PICK st0 \in Good : /\ st0 = Now
                          /\ st0.list = unpinned_list
                          /\ st0.lru = lru
                          /\ st0.count = lru_count
                          /\ \A a \in Areas : Sorted(st0.list[a])
  BY OrderlyHas
<1>2. CASE UNCHANGED lists
  <2>1. Becomes(st0)
    BY <1>1, <1>2 DEF Becomes, lists
  <2> QED
    BY <1>1, <2>1, OrderlyIs
<1>3. ASSUME NEW a \in Areas, ashmem_release(a)
      PROVE  Orderly'
  <2>1. PICK x : x = Release(a)
    OBVIOUS
  <2>2. Becomes(x)
    BY <1>3, <2>1 DEF ashmem_release, Becomes
  <2>3. x \in Good /\ x.list[a] = <<>> /\ \A b \in Areas : b # a => x.list[b] = st0.list[b]
    BY <1>1, <2>1, ReleaseLoop
  <2>4. \A b \in Areas : Sorted(x.list[b])
    <3>1. Sorted(<<>>)
      BY DEF Sorted
    <3> QED
      BY <1>1, <2>3, <3>1
  <2> QED
    BY <2>2, <2>3, <2>4, OrderlyIs
<1>4. ASSUME NEW a \in Areas, NEW q \in Requests(a), ashmem_pin(a, q[1], q[2])
      PROVE  Orderly'
  <2>1. PICK start, end : start = q[1] /\ end = q[2]
    OBVIOUS
  <2>2. <<start, end>> \in Requests(a)
    BY <2>1 DEF Requests
  <2>3. start \in Nat /\ end \in Nat
    BY <2>2, RequestIs
  <2>4. PICK fails \in BOOLEAN : Becomes(Pin(a, start, end, fails).st)
    BY <1>4, <2>1, AllocFailsAssumption DEF ashmem_pin
  <2>5. PICK u : u = Pin(a, start, end, fails)
    OBVIOUS
  <2>6. u \in [st : Good, at : Nat, told : BOOLEAN] /\ PinKept(st0, a, start, end, fails, u, 0)
    BY <1>1, <2>2, <2>3, <2>5, PinLoop
  <2>7. PICK x \in Good : x = u.st
    BY <2>6
  <2>8. Becomes(x)
    BY <2>4, <2>5, <2>7 DEF Becomes
  <2>9. \A b \in Areas : Sorted(x.list[b])
    BY <1>1, <2>6, <2>7 DEF PinKept
  <2> QED
    BY <2>8, <2>9, OrderlyIs
<1>5. ASSUME NEW a \in Areas, NEW q \in Requests(a), ashmem_unpin(a, q[1], q[2])
      PROVE  Orderly'
  <2>1. PICK start, end : start = q[1] /\ end = q[2]
    OBVIOUS
  <2>2. <<start, end>> \in Requests(a)
    BY <2>1 DEF Requests
  <2>3. start \in Nat /\ end \in Nat
    BY <2>2, RequestIs
  <2>4. PICK fails \in BOOLEAN : Becomes(Unpin(a, start, end, fails))
    BY <1>5, <2>1, AllocFailsAssumption DEF ashmem_unpin
  <2>5. PICK x : x = Unpin(a, start, end, fails)
    OBVIOUS
  <2>6. /\ x \in Good /\ Sorted(x.list[a])
        /\ \A b \in Areas : b # a => x.list[b] = st0.list[b]
    <3>1. Widened(st0, x, a, start, end, fails)
      BY <1>1, <2>2, <2>3, <2>4, <2>5, UnpinIs
    <3> QED
      BY <3>1 DEF Widened
  <2>7. Becomes(x)
    BY <2>4, <2>5 DEF Becomes
  <2>8. \A b \in Areas : Sorted(x.list[b])
    BY <1>1, <2>6
  <2> QED
    BY <2>6, <2>7, <2>8, OrderlyIs
<1>6. ASSUME NEW nr \in Int, ashmem_shrink(nr)
      PROVE  Orderly'
  <2>1. PICK x : x = Shrink(nr)
    OBVIOUS
  <2>2. Becomes(x)
    BY <1>6, <2>1 DEF ashmem_shrink, Becomes
  <2>3. x \in Good /\ \A b \in Areas : Sorted(x.list[b])
    BY <1>1, <2>1, ShrinkLoop
  <2> QED
    BY <2>2, <2>3, OrderlyIs
<1>7. CASE UNCHANGED vars
  BY <1>2, <1>7 DEF vars, lists
<1>8. CASE Next
  <2>1. ASSUME NEW a \in Areas, \/ ashmem_open(a) \/ MmapCalled(a)
                                \/ ashmem_mmap(a) \/ set_name(a)
        PROVE  Orderly'
    BY <1>2, <2>1 DEF ashmem_open, MmapCalled, ashmem_mmap, set_name
  <2>2. CASE NameFaults \/ NameCopied
    BY <1>2, <2>2 DEF NameFaults, NameCopied
  <2>3. ASSUME NEW a \in Areas, NEW q \in Requests(a), RangeAllocReclaims(a, q[1], q[2])
        PROVE  Orderly'
    BY <1>2, <2>3 DEF RangeAllocReclaims
  <2>4. ASSUME NEW n \in 1..MapThenSumSet(LAMBDA a : Size[a], Areas), ashmem_shrink(n)
        PROVE  Orderly'
    <3>1. n \in Int
      OBVIOUS
    <3> QED
      BY <1>6, <2>4, <3>1
  <2> QED
    BY <1>3, <1>4, <1>5, <1>8, <2>1, <2>2, <2>3, <2>4, Zenon DEF Next
<1> QED
  BY <1>7, <1>8

(* The lists are Good and sorted at all times, whatever allocations fail   *)
(* and whatever the shrinker is asked for.                                 *)
THEOREM OrderlyHolds == Spec => []Orderly
<1>1. Init => Orderly
  BY OrderlyInit
<1>2. Orderly /\ [Next]_vars => Orderly'
  BY OrderlyStep
<1> QED
  BY <1>1, <1>2, PTL DEF Spec

-----------------------------------------------------------------------------
(* What the lists say is what the owners did.                              *)
Told ==
    /\ unpinned \in [Areas -> SUBSET Int]
    /\ lost \in [Areas -> SUBSET Int]
    /\ \A a \in Areas : /\ unpinned[a] = Covered(BOOLEAN, unpinned_list[a])
                        /\ lost[a] \subseteq Covered({TRUE}, unpinned_list[a])

LEMMA ToldInit ==
    ASSUME Init
    PROVE  Told
<1>1. \A P : Covered(P, <<>>) = {}
  BY DEF Covered, ToSet
<1> QED
  BY <1>1 DEF Init, Told

(* With memory to be had, every action changes the lists as its owner sees *)
(* it: here pin, unpin and the shrinker meet.                              *)
LEMMA ToldStep ==
    ASSUME Orderly, Told, [Next]_vars, AllocFails = {FALSE}
    PROVE  Told'
<1>1. PICK st0 \in Good : /\ st0 = Now
                          /\ st0.list = unpinned_list
                          /\ st0.lru = lru
                          /\ st0.count = lru_count
                          /\ \A a \in Areas : Sorted(st0.list[a])
  BY OrderlyHas
<1>2. \A a \in Areas : /\ unpinned[a] = Covered(BOOLEAN, st0.list[a])
                       /\ lost[a] \subseteq Covered({TRUE}, st0.list[a])
  BY <1>1 DEF Told
<1>3. unpinned \in [Areas -> SUBSET Int] /\ lost \in [Areas -> SUBSET Int]
  BY DEF Told
<1>4. ASSUME NEW x, Becomes(x),
             unpinned' \in [Areas -> SUBSET Int], lost' \in [Areas -> SUBSET Int],
             \A b \in Areas : /\ unpinned'[b] = Covered(BOOLEAN, x.list[b])
                              /\ lost'[b] \subseteq Covered({TRUE}, x.list[b])
      PROVE  Told'
  BY <1>4 DEF Told, Becomes
<1>5. CASE UNCHANGED <<lists, owners>>
  BY <1>5 DEF lists, owners, Told
<1>6. ASSUME NEW a \in Areas, ashmem_release(a)
      PROVE  Told'
  <2>1. PICK x : x = Release(a)
    OBVIOUS
  <2>2. /\ Becomes(x)
        /\ unpinned' = [unpinned EXCEPT ![a] = {}]
        /\ lost' = [lost EXCEPT ![a] = {}]
    BY <1>6, <2>1 DEF ashmem_release, Becomes
  <2>3. x.list[a] = <<>> /\ \A b \in Areas : b # a => x.list[b] = st0.list[b]
    BY <1>1, <2>1, ReleaseLoop
  <2>4. Covered(BOOLEAN, x.list[a]) = {}
    BY <2>3 DEF Covered, ToSet
  <2>5. unpinned' \in [Areas -> SUBSET Int] /\ lost' \in [Areas -> SUBSET Int]
    BY <1>3, <2>2
  <2>6. \A b \in Areas : unpinned'[b] = Covered(BOOLEAN, x.list[b])
    BY <1>2, <1>3, <2>2, <2>3, <2>4
  <2>7. \A b \in Areas : lost'[b] \subseteq Covered({TRUE}, x.list[b])
    BY <1>2, <1>3, <2>2, <2>3
  <2> QED
    BY <1>4, <2>2, <2>5, <2>6, <2>7
<1>7. ASSUME NEW a \in Areas, NEW q \in Requests(a), ashmem_pin(a, q[1], q[2])
      PROVE  Told'
  <2>1. PICK start, end : start = q[1] /\ end = q[2]
    OBVIOUS
  <2>2. <<start, end>> \in Requests(a)
    BY <2>1 DEF Requests
  <2>3. start \in Nat /\ end \in Nat
    BY <2>2, RequestIs
  <2>4. PICK fails \in BOOLEAN :
           /\ fails = FALSE
           /\ Becomes(Pin(a, start, end, fails).st)
           /\ lost' = [lost EXCEPT ![a] = IF Pin(a, start, end, fails).told
                                          THEN @ \ (start..end) ELSE @]
    BY <1>7, <2>1 DEF ashmem_pin
  <2>5. PICK u : u = Pin(a, start, end, fails)
    OBVIOUS
  <2>6. u \in [st : Good, at : Nat, told : BOOLEAN] /\ PinKept(st0, a, start, end, fails, u, 0)
    BY <1>1, <2>2, <2>3, <2>5, PinLoop
  <2>7. PICK x \in Good : x = u.st
    BY <2>6
  <2>8. Becomes(x)
    BY <2>4, <2>5, <2>7 DEF Becomes
  <2>9. \A P : Covered(P, x.list[a]) = Covered(P, st0.list[a]) \ (start..end)
    <3>1. PinKept(st0, a, start, end, FALSE, u, 0)
      BY <2>4, <2>6
    <3>2. Narrowed(st0.list[a], u.st.list[a], start, end)
      BY <1>1, <2>2, <2>3, <2>6, <3>1, PinEnded
    <3> QED
      BY <2>7, <3>2 DEF Narrowed
  <2>10. /\ \A b \in Areas : b # a => x.list[b] = st0.list[b]
         /\ ~u.told => Covered({TRUE}, st0.list[a]) \subseteq Covered({TRUE}, x.list[a])
    BY <2>6, <2>7 DEF PinKept
  <2>11. unpinned' = [unpinned EXCEPT ![a] = @ \ (start..end)]
    BY <1>7, <2>1 DEF ashmem_pin
  <2>12. lost' = [lost EXCEPT ![a] = IF u.told THEN @ \ (start..end) ELSE @]
    BY <2>4, <2>5
  <2>13. unpinned' \in [Areas -> SUBSET Int] /\ lost' \in [Areas -> SUBSET Int]
    BY <1>3, <2>11, <2>12
  <2>14. \A b \in Areas : unpinned'[b] = Covered(BOOLEAN, x.list[b])
    BY <1>2, <1>3, <2>9, <2>10, <2>11
  <2>15. \A b \in Areas : lost'[b] \subseteq Covered({TRUE}, x.list[b])
    <3>1. ASSUME NEW b \in Areas, b # a PROVE lost'[b] \subseteq Covered({TRUE}, x.list[b])
      BY <1>2, <1>3, <2>10, <2>12, <3>1
    <3>2. lost'[a] \subseteq Covered({TRUE}, x.list[a])
      <4>1. CASE u.told
        <5>1. lost'[a] = lost[a] \ (start..end)
          BY <1>3, <2>12, <4>1
        <5> QED
          BY <1>2, <2>9, <5>1
      <4>2. CASE ~u.told
        <5>1. lost'[a] = lost[a]
          BY <1>3, <2>12, <4>2
        <5> QED
          BY <1>2, <2>10, <4>2, <5>1
      <4> QED
        BY <4>1, <4>2
    <3> QED
      BY <3>1, <3>2
  <2> QED
    BY <1>4, <2>8, <2>13, <2>14, <2>15
<1>8. ASSUME NEW a \in Areas, NEW q \in Requests(a), ashmem_unpin(a, q[1], q[2])
      PROVE  Told'
  <2>1. PICK start, end : start = q[1] /\ end = q[2]
    OBVIOUS
  <2>2. <<start, end>> \in Requests(a)
    BY <2>1 DEF Requests
  <2>3. start \in Nat /\ end \in Nat
    BY <2>2, RequestIs
  <2>4. PICK fails \in BOOLEAN :
           /\ fails = FALSE
           /\ Becomes(Unpin(a, start, end, fails))
           /\ unpinned' = [unpinned EXCEPT ![a] = @ \cup (start..end)]
    BY <1>8, <2>1 DEF ashmem_unpin
  <2>5. PICK x : x = Unpin(a, start, end, fails)
    OBVIOUS
  <2>6. Widened(st0, x, a, start, end, fails)
    BY <1>1, <2>2, <2>3, <2>4, <2>5, UnpinIs
  <2>7. Becomes(x)
    BY <2>4, <2>5 DEF Becomes
  <2>8. /\ \A b \in Areas : b # a => x.list[b] = st0.list[b]
        /\ Covered(BOOLEAN, x.list[a]) = Covered(BOOLEAN, st0.list[a]) \cup (start..end)
        /\ Covered({TRUE}, st0.list[a]) \subseteq Covered({TRUE}, x.list[a])
    BY <2>4, <2>6 DEF Widened
  <2>9. lost' = lost
    BY <1>8 DEF ashmem_unpin
  <2>10. unpinned' \in [Areas -> SUBSET Int] /\ lost' \in [Areas -> SUBSET Int]
    BY <1>3, <2>3, <2>4, <2>9
  <2>11. \A b \in Areas : unpinned'[b] = Covered(BOOLEAN, x.list[b])
    BY <1>2, <1>3, <2>4, <2>8
  <2>12. \A b \in Areas : lost'[b] \subseteq Covered({TRUE}, x.list[b])
    BY <1>2, <2>8, <2>9
  <2> QED
    BY <1>4, <2>7, <2>10, <2>11, <2>12
<1>9. ASSUME NEW nr \in Int, ashmem_shrink(nr)
      PROVE  Told'
  <2>1. PICK x : x = Shrink(nr)
    OBVIOUS
  <2>2. /\ Becomes(x) /\ unpinned' = unpinned
        /\ lost' = [b \in Areas |-> lost[b] \cup
                      (PurgedPages(x.list[b]) \ PurgedPages(unpinned_list[b]))]
    BY <1>9, <2>1 DEF ashmem_shrink, Becomes
  <2>3. /\ x \in Good
        /\ \A b \in Areas : /\ Covered(BOOLEAN, x.list[b]) = Covered(BOOLEAN, st0.list[b])
                            /\ Covered({TRUE}, st0.list[b]) \subseteq Covered({TRUE}, x.list[b])
    BY <1>1, <2>1, ShrinkLoop
  <2>4. ASSUME NEW b \in Areas
        PROVE  /\ PurgedPages(x.list[b]) = Covered({TRUE}, x.list[b])
               /\ Covered({TRUE}, x.list[b]) \subseteq Int
    <3>1. x.list[b] \in Seq(Proper(b))
      BY <2>3, GoodHas
    <3>2. Covered(BOOLEAN, x.list[b]) \subseteq Int
      BY <1>2, <1>3, <2>3
    <3>3. Covered({TRUE}, x.list[b]) \subseteq Covered(BOOLEAN, x.list[b])
      BY DEF Covered, Own
    <3>4. PurgedPages(x.list[b]) = Covered({TRUE}, x.list[b])
      BY <3>1, CoveredIs
    <3> QED
      BY <3>2, <3>3, <3>4
  <2>5. \A b \in Areas : lost'[b] \subseteq lost[b] \cup Covered({TRUE}, x.list[b])
    BY <2>2, <2>4
  <2>6. lost' \in [Areas -> SUBSET Int]
    BY <1>3, <2>2, <2>4
  <2>7. \A b \in Areas : unpinned'[b] = Covered(BOOLEAN, x.list[b])
    BY <1>2, <2>2, <2>3
  <2>8. \A b \in Areas : lost'[b] \subseteq Covered({TRUE}, x.list[b])
    BY <1>2, <2>3, <2>5
  <2> QED
    BY <1>3, <1>4, <2>2, <2>6, <2>7, <2>8
<1>10. CASE UNCHANGED vars
  BY <1>5, <1>10 DEF vars, lists, owners
<1>11. CASE Next
  <2>1. ASSUME NEW a \in Areas, \/ ashmem_open(a) \/ MmapCalled(a)
                                \/ ashmem_mmap(a) \/ set_name(a)
        PROVE  Told'
    BY <1>5, <2>1 DEF ashmem_open, MmapCalled, ashmem_mmap, set_name
  <2>2. CASE NameFaults \/ NameCopied
    BY <1>5, <2>2 DEF NameFaults, NameCopied
  <2>3. ASSUME NEW a \in Areas, NEW q \in Requests(a), RangeAllocReclaims(a, q[1], q[2])
        PROVE  Told'
    BY <1>5, <2>3 DEF RangeAllocReclaims
  <2>4. ASSUME NEW n \in 1..MapThenSumSet(LAMBDA a : Size[a], Areas), ashmem_shrink(n)
        PROVE  Told'
    <3>1. n \in Int
      OBVIOUS
    <3> QED
      BY <1>9, <2>4, <3>1
  <2> QED
    BY <1>6, <1>7, <1>8, <1>11, <2>1, <2>2, <2>3, <2>4, Zenon DEF Next
<1> QED
  BY <1>10, <1>11

-----------------------------------------------------------------------------
(* From Orderly to the three parts of ListsAgree.                          *)
LEMMA ListsOrdered ==
    ASSUME Orderly
    PROVE  \A a \in Areas : \A i \in 1..(Len(unpinned_list[a]) - 1) :
               unpinned_list[a][i + 1].pgend < unpinned_list[a][i].pgstart
<1>1. PICK st0 \in Good : st0.list = unpinned_list /\ \A a \in Areas : Sorted(st0.list[a])
  BY OrderlyHas
<1>2. ASSUME NEW a \in Areas, NEW i \in 1..(Len(unpinned_list[a]) - 1)
      PROVE  unpinned_list[a][i + 1].pgend < unpinned_list[a][i].pgstart
  <2>1. Len(unpinned_list[a]) \in Nat
    BY <1>1, GoodHas
  <2>2. i \in 1..Len(unpinned_list[a]) /\ i + 1 \in 1..Len(unpinned_list[a]) /\ i < i + 1
    BY <2>1
  <2> QED
    BY <1>1, <2>2 DEF Sorted
<1> QED
  BY <1>2

LEMMA LruMatches ==
    ASSUME NEW st \in Good
    PROVE  ToSet(st.lru) =
             UNION {{OnLru(a, r) : r \in {x \in ToSet(st.list[a]) : ~x.purged}} : a \in Areas}
<1> DEFINE unpurged(a) == {OnLru(a, r) : r \in {x \in ToSet(st.list[a]) : ~x.purged}}
<1>1. ASSUME NEW a \in Areas, NEW r \in Proper(a), ~r.purged
      PROVE  r \in ToSet(st.list[a]) <=> OnLru(a, r) \in ToSet(st.lru)
  <2>1. st.list[a] \in Seq(Proper(a)) /\ st.lru \in Seq(Entries)
    BY GoodHas
  <2>2. Count(r, st.list[a]) = Count(OnLru(a, r), st.lru)
    BY <1>1, GoodHas
  <2>3. Count(r, st.list[a]) # 0 <=> r \in ToSet(st.list[a])
    BY <2>1, CountIs, ToSetIs
  <2>4. Count(OnLru(a, r), st.lru) # 0 <=> OnLru(a, r) \in ToSet(st.lru)
    <3>1. PICK e : e = OnLru(a, r)
      OBVIOUS
    <3>2. Count(e, st.lru) # 0 <=> \E j \in 1..Len(st.lru) : st.lru[j] = e
      BY <2>1, CountIs
    <3>3. ToSet(st.lru) = {st.lru[j] : j \in 1..Len(st.lru)}
      BY <2>1, ToSetIs
    <3> QED
      BY <3>1, <3>2, <3>3
  <2> QED
    BY <2>2, <2>3, <2>4
<1>2. ASSUME NEW e \in ToSet(st.lru)
      PROVE  \E a \in Areas : e \in unpurged(a)
  <2>1. e \in Entries
    <3>1. st.lru \in Seq(Entries)
      BY GoodHas
    <3> QED
      BY <3>1, ToSetIs
  <2>2. PICK a \in Areas : a = e.asma
    BY <2>1, EntryHas
  <2>3. PICK r \in Proper(a) : ~r.purged /\ e = OnLru(a, r)
    BY <2>1, <2>2, EntryHas
  <2>4. r \in ToSet(st.list[a])
    BY <1>1, <2>3
  <2> QED
    BY <2>3, <2>4
<1>3. ASSUME NEW a \in Areas, NEW e \in unpurged(a)
      PROVE  e \in ToSet(st.lru)
  <2>1. PICK r \in ToSet(st.list[a]) : ~r.purged /\ e = OnLru(a, r)
    OBVIOUS
  <2>2. r \in Proper(a)
    <3>1. st.list[a] \in Seq(Proper(a))
      BY GoodHas
    <3> QED
      BY <2>1, <3>1, ToSetIs
  <2> QED
    BY <1>1, <2>1, <2>2
<1>4. ToSet(st.lru) = UNION {unpurged(a) : a \in Areas}
  <2> HIDE DEF unpurged
  <2> QED
    BY <1>2, <1>3
<1> QED
  BY <1>4

LEMMA OrderlyAgrees ==
    ASSUME Orderly
    PROVE  ListsAgree
<1>1. PICK st0 \in Good : st0.list = unpinned_list /\ st0.lru = lru /\ st0.count = lru_count
  BY OrderlyHas
<1>2. \A a \in Areas : \A i \in 1..(Len(unpinned_list[a]) - 1) :
          unpinned_list[a][i + 1].pgend < unpinned_list[a][i].pgstart
  BY ListsOrdered
<1>3. ToSet(lru) =
        UNION {{OnLru(a, r) : r \in {x \in ToSet(unpinned_list[a]) : ~x.purged}} : a \in Areas}
  <2>1. ToSet(st0.lru) =
          UNION {{OnLru(a, r) : r \in {x \in ToSet(st0.list[a]) : ~x.purged}} : a \in Areas}
    BY LruMatches
  <2> QED
    BY <1>1, <2>1
<1>4. lru_count = Total([i \in DOMAIN lru |-> range_size(lru[i])])
  <2>1. lru_count = Sizes(lru)
    BY <1>1, GoodHas
  <2> QED
    BY <2>1 DEF Sizes
<1> QED
  BY <1>2, <1>3, <1>4, Zenon DEF ListsAgree

(* The theorem: whatever allocations fail, each area's ranges are sorted   *)
(* and apart, the list of the shrinker is that of the ranges that are      *)
(* unpinned and not purged, and lru_count is the number of their pages.    *)
THEOREM ListsAlwaysAgree == Spec => []ListsAgree
<1>1. Orderly => ListsAgree
  BY OrderlyAgrees
<1> QED
  BY <1>1, OrderlyHolds, PTL

(* Both invariants together.                                               *)
LEMMA ToldHolds ==
    ASSUME AllocFails = {FALSE}
    PROVE  Spec => [](Orderly /\ Told)
<1>1. Init => Orderly /\ Told
  BY OrderlyInit, ToldInit
<1>2. Orderly /\ Told /\ [Next]_vars => (Orderly /\ Told)'
  BY OrderlyStep, ToldStep
<1> QED
  BY <1>1, <1>2, PTL DEF Spec

LEMMA ListsArePages ==
    ASSUME Orderly
    PROVE  \A a \in Areas : PurgedPages(unpinned_list[a]) = Covered({TRUE}, unpinned_list[a])
<1>1. PICK st0 \in Good : st0.list = unpinned_list
  BY OrderlyHas
<1>2. ASSUME NEW a \in Areas
      PROVE  PurgedPages(st0.list[a]) = Covered({TRUE}, st0.list[a])
  BY GoodHas, CoveredIs
<1> QED
  BY <1>1, <1>2

(* What is on lru is what the ranges that are not purged cover.            *)
LEMMA LruIsPages ==
    ASSUME Orderly, NEW a \in Areas
    PROVE  LruPages(a) = Covered({FALSE}, unpinned_list[a])
<1>1. PICK st0 \in Good : st0.list = unpinned_list /\ st0.lru = lru
  BY OrderlyHas
<1>2. PICK s \in Seq(Proper(a)) : s = unpinned_list[a]
  BY <1>1, GoodHas
<1> DEFINE Unpurged(b) == {OnLru(b, r) : r \in {x \in ToSet(unpinned_list[b]) : ~x.purged}}
<1>3. ToSet(lru) = UNION {Unpurged(b) : b \in Areas}
  BY <1>1, LruMatches
<1>4. {x \in ToSet(lru) : x.asma = a} = Unpurged(a)
  <2>1. \A b \in Areas : \A e \in Unpurged(b) : e.asma = b
    BY DEF OnLru
  <2> HIDE DEF Unpurged
  <2> QED
    BY <1>3, <2>1
<1>5. \A r : PagesOf(OnLru(a, r)) = PagesOf(r)
  BY DEF OnLru, PagesOf
<1>6. LruPages(a) = UNION {PagesOf(r) : r \in {x \in ToSet(s) : ~x.purged}}
  <2>1. Unpurged(a) = {OnLru(a, r) : r \in {x \in ToSet(s) : ~x.purged}}
    BY <1>2
  <2> QED
    BY <1>4, <1>5, <2>1 DEF LruPages
<1>7. \A r \in ToSet(s) : r.purged \in BOOLEAN
  <2>1. ToSet(s) \subseteq Proper(a)
    BY ToSetIs
  <2> QED
    BY <2>1, ProperHas
<1>8. \A r \in ToSet(s) : Own({FALSE}, r) = IF r.purged THEN {} ELSE PagesOf(r)
  BY <1>7 DEF Own
<1>9. Covered({FALSE}, s) = UNION {PagesOf(r) : r \in {x \in ToSet(s) : ~x.purged}}
  BY <1>8 DEF Covered
<1> QED
  BY <1>2, <1>6, <1>9

(* No page of a sorted list is both in a range that is purged and in one   *)
(* that is not.                                                            *)
LEMMA PurgedApart ==
    ASSUME NEW a \in Areas, NEW s \in Seq(Proper(a)), Sorted(s)
    PROVE  /\ Covered({FALSE}, s) \cup Covered({TRUE}, s) = Covered(BOOLEAN, s)
           /\ Covered({FALSE}, s) \cap Covered({TRUE}, s) = {}
<1>1. Covered({FALSE}, s) \cup Covered({TRUE}, s) = Covered(BOOLEAN, s)
  BY DEF Covered, Own
<1>2. ASSUME NEW p \in Covered({FALSE}, s), p \in Covered({TRUE}, s) PROVE FALSE
  <2>1. PICK i \in 1..Len(s) : p \in Own({FALSE}, s[i])
    BY CoveredHas
  <2>2. PICK j \in 1..Len(s) : p \in Own({TRUE}, s[j])
    BY <1>2, CoveredHas
  <2>3. /\ s[i].purged = FALSE /\ p \in PagesOf(s[i])
        /\ s[j].purged = TRUE /\ p \in PagesOf(s[j])
    BY <2>1, <2>2 DEF Own
  <2>4. PICK q \in Proper(a), r \in Proper(a) : q = s[i] /\ r = s[j]
    OBVIOUS
  <2>5. /\ q.pgstart \in Nat /\ q.pgend \in Nat
        /\ r.pgstart \in Nat /\ r.pgend \in Nat
    BY ProperHas
  <2>6. /\ p \in Int
        /\ q.pgstart <= p /\ p <= q.pgend
        /\ r.pgstart <= p /\ p <= r.pgend
    BY <2>3, <2>4, <2>5 DEF PagesOf
  <2>7. Len(s) \in Nat
    OBVIOUS
  <2>8. i < j \/ j < i
    BY <2>3, <2>7
  <2>9. r.pgend < q.pgstart \/ q.pgend < r.pgstart
    BY <2>4, <2>8 DEF Sorted
  <2> QED
    BY <2>5, <2>6, <2>9
<1> QED
  BY <1>1, <1>2

(* With memory to be had, the pages on the list of the shrinker and those  *)
(* in ranges marked purged are together the ones that the owner has        *)
(* unpinned and not pinned since, and no page is among both.               *)
THEOREM PurgeableIsUnpinned ==
    ASSUME AllocFails = {FALSE}
    PROVE  Spec => []UnpinnedExactly
<1>1. Orderly /\ Told => UnpinnedExactly
  <2> SUFFICES ASSUME Orderly, Told, NEW a \in Areas
               PROVE  /\ LruPages(a) \cup PurgedPages(unpinned_list[a]) = unpinned[a]
                      /\ LruPages(a) \cap PurgedPages(unpinned_list[a]) = {}
    BY DEF UnpinnedExactly
  <2>1. PICK s \in Seq(Proper(a)) : s = unpinned_list[a] /\ Sorted(s)
    BY OrderlyHas, GoodHas
  <2>2. /\ LruPages(a) = Covered({FALSE}, s)
        /\ PurgedPages(unpinned_list[a]) = Covered({TRUE}, s)
        /\ unpinned[a] = Covered(BOOLEAN, s)
    BY <2>1, LruIsPages, ListsArePages DEF Told
  <2> QED
    BY <2>1, <2>2, PurgedApart
<1> QED
  BY <1>1, ToldHolds, PTL

(* With memory to be had, a page that was purged lies in a range that says *)
(* so until ashmem_pin has told the owner.                                 *)
THEOREM LossIsTold ==
    ASSUME AllocFails = {FALSE}
    PROVE  Spec => []LossRemembered
<1>1. Orderly /\ Told => LossRemembered
  BY ListsArePages DEF Told, LossRemembered
<1> QED
  BY <1>1, ToldHolds, PTL

-----------------------------------------------------------------------------
(* The areas, the mutex and mmap_sem.                                      *)
Handles ==
    /\ mapped \subseteq opened
    /\ opened \subseteq Areas
    /\ mutex \in {"free", "name", "fault", "reclaim"}
    /\ mmap_sem \subseteq opened

LEMMA HandlesStep ==
    ASSUME Handles, [Next]_vars
    PROVE  Handles'
<1>1. ASSUME NEW a \in Areas, \/ ashmem_open(a) \/ ashmem_release(a) \/ MmapCalled(a)
                              \/ ashmem_mmap(a) \/ set_name(a)
      PROVE  Handles'
  BY <1>1 DEF Handles, ashmem_open, ashmem_release, MmapCalled, ashmem_mmap, set_name
<1>2. CASE NameFaults \/ NameCopied
  BY <1>2 DEF Handles, NameFaults, NameCopied
<1>3. ASSUME NEW a \in Areas, NEW q \in Requests(a),
             \/ ashmem_pin(a, q[1], q[2]) \/ ashmem_unpin(a, q[1], q[2])
      PROVE  Handles'
  BY <1>3 DEF Handles, ashmem_pin, ashmem_unpin
<1>4. ASSUME NEW a \in Areas, NEW q \in Requests(a), RangeAllocReclaims(a, q[1], q[2])
      PROVE  Handles'
  BY <1>4 DEF Handles, RangeAllocReclaims
<1>5. ASSUME NEW n \in 1..MapThenSumSet(LAMBDA a : Size[a], Areas), ashmem_shrink(n)
      PROVE  Handles'
  BY <1>5 DEF Handles, ashmem_shrink
<1>6. CASE UNCHANGED vars
  BY <1>6 DEF Handles, vars
<1>7. CASE Next
  BY <1>1, <1>2, <1>3, <1>4, <1>5, <1>7, Zenon DEF Next
<1> QED
  BY <1>6, <1>7

(* The types of the lists; lru_count is a sum of sizes, none below 0.      *)
LEMMA OrderlyTypes ==
    ASSUME Orderly
    PROVE  /\ DOMAIN unpinned_list = Areas
           /\ \A a \in Areas : unpinned_list[a] \in Seq(Ranges(a))
           /\ lru \in Seq(UNION {Entry(a) : a \in Areas})
           /\ lru_count \in Nat
<1>1. PICK st0 \in Good : st0.list = unpinned_list /\ st0.lru = lru /\ st0.count = lru_count
  BY OrderlyHas
<1>2. DOMAIN st0.list = Areas /\ \A a \in Areas : st0.list[a] \in Seq(Ranges(a))
  <2>1. \A a \in Areas : Proper(a) \subseteq Ranges(a)
    BY DEF Proper
  <2> QED
    BY <2>1, GoodHas
<1>3. st0.lru \in Seq(UNION {Entry(a) : a \in Areas})
  <2>1. ASSUME NEW e \in Entries PROVE e \in UNION {Entry(a) : a \in Areas}
    <3>1. PICK a \in Areas : a = e.asma
      BY EntryHas
    <3>2. PICK r \in Proper(a) : e = OnLru(a, r)
      BY <3>1, EntryHas
    <3>3. r.pgstart \in 0..Size[a] /\ r.pgend \in Pages(a)
      BY DEF Proper, Ranges
    <3>4. OnLru(a, r) \in Entry(a)
      BY <3>3 DEF OnLru, Entry
    <3> QED
      BY <3>2, <3>4
  <2>2. st0.lru \in Seq(Entries)
    BY GoodHas
  <2> HIDE DEF Entries
  <2> QED
    BY <2>1, <2>2
<1>4. st0.count \in Nat
  <2>1. /\ st0.lru \in Seq(Entries) /\ Len(st0.lru) \in Nat
        /\ st0.count = Sizes(st0.lru)
    BY GoodHas
  <2>2. ASSUME NEW e \in Entries PROVE range_size(e) \in Nat
    <3>1. PICK a \in Areas : a = e.asma
      BY EntryHas
    <3>2. PICK r \in Proper(a) : e = OnLru(a, r)
      BY <3>1, EntryHas
    <3>3. /\ r.pgstart \in Nat /\ r.pgend \in Nat /\ Size[a] \in Nat
          /\ \/ r.pgstart <= r.pgend /\ r.pgend < Size[a]
             \/ r.pgstart = Size[a] /\ r.pgend = Size[a] - 1
      BY ProperHas, SizeIs
    <3>4. range_size(r) \in Nat
      BY <3>3 DEF range_size
    <3> QED
      BY <3>2, <3>4, EntryIs
  <2>3. PICK s : s = [j \in DOMAIN st0.lru |-> range_size(st0.lru[j])]
    OBVIOUS
  <2>4. s \in Seq(Int) /\ \A j \in 1..Len(s) : s[j] >= 0
    BY <2>1, <2>2, <2>3
  <2>5. Total(s) \in Nat
    BY <2>4, TotalNat
  <2> QED
    BY <2>1, <2>3, <2>5 DEF Sizes
<1> QED
  BY <1>1, <1>2, <1>3, <1>4

(* With memory to be had, the types are right: lru_count is never below 0, *)
(* only pages of the area are unpinned, and only unpinned pages are lost.  *)
THEOREM TypeCorrect ==
    ASSUME AllocFails = {FALSE}
    PROVE  Spec => []TypeOK
<1>1. Init => Handles
  BY DEF Init, Handles
<1>2. Handles /\ [Next]_vars => Handles'
  BY HandlesStep
<1>3. Orderly /\ Told /\ Handles => TypeOK
  <2> SUFFICES ASSUME Orderly, Told, Handles PROVE TypeOK
    OBVIOUS
  <2>1. PICK st0 \in Good : st0.list = unpinned_list
    BY OrderlyHas
  <2>2. ASSUME NEW a \in Areas
        PROVE  lost[a] \subseteq unpinned[a] /\ unpinned[a] \subseteq Pages(a)
    <3>1. unpinned[a] = Covered(BOOLEAN, st0.list[a]) /\ lost[a] \subseteq Covered({TRUE}, st0.list[a])
      BY <2>1 DEF Told
    <3>2. Covered({TRUE}, st0.list[a]) \subseteq Covered(BOOLEAN, st0.list[a])
      BY DEF Covered, Own
    <3>3. st0.list[a] \in Seq(Proper(a))
      BY GoodHas
    <3>4. ASSUME NEW p \in Covered(BOOLEAN, st0.list[a]) PROVE p \in Pages(a)
      <4>1. PICK j \in 1..Len(st0.list[a]) : p \in Own(BOOLEAN, st0.list[a][j])
        BY <3>3, CoveredHas
      <4>2. PICK r \in Proper(a) : r = st0.list[a][j]
        BY <3>3
      <4>3. /\ r.pgstart \in Nat /\ r.pgend \in Nat /\ Size[a] \in Nat \ {0}
            /\ \/ r.pgstart <= r.pgend /\ r.pgend < Size[a]
               \/ r.pgstart = Size[a] /\ r.pgend = Size[a] - 1
        BY ProperHas, SizeIs
      <4>4. p \in r.pgstart..r.pgend
        BY <4>1, <4>2 DEF Own, PagesOf
      <4> QED
        BY <4>3, <4>4 DEF Pages
    <3> QED
      BY <3>1, <3>2, <3>4
  <2>3. DOMAIN unpinned = Areas /\ DOMAIN lost = Areas
    BY DEF Told
  <2> QED
    BY <2>2, <2>3, OrderlyTypes DEF Handles, TypeOK
<1> QED
  BY <1>1, <1>2, <1>3, ToldHolds, PTL DEF Spec
=============================================================================
