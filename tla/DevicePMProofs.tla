--------------------------- MODULE DevicePMProofs ---------------------------
(***************************************************************************)
(* Proofs about DevicePM for any tree of devices.  The lists are split     *)
(* into ToDo and Done; the invariant IInv says of every place of the       *)
(* suspending thread what the devices of each have been told.  Each action *)
(* has a lemma: it preserves IInv.  The thread that registers devices is   *)
(* assumed to heed the rules of the code, see Heeds.                       *)
(***************************************************************************)
EXTENDS DevicePM, SequenceTheorems, TLAPS

-----------------------------------------------------------------------------
(* What the operators on lists do, position by position.                   *)

LEMMA RemoveAtIs ==
    ASSUME NEW S, NEW s \in Seq(S), NEW p \in 1..Len(s)
    PROVE  /\ RemoveAt(s, p) \in Seq(S)
           /\ Len(RemoveAt(s, p)) = Len(s) - 1
           /\ \A i \in 1..Len(s) - 1 :
                 RemoveAt(s, p)[i] = IF i < p THEN s[i] ELSE s[i + 1]
<1> DEFINE a == SubSeq(s, 1, p - 1)
           c == SubSeq(s, p + 1, Len(s))
<1>1. /\ a \in Seq(S) /\ Len(a) = p - 1
      /\ \A i \in 1..p - 1 : a[i] = s[i]
  BY SubSeqProperties
<1>2. /\ c \in Seq(S) /\ Len(c) = Len(s) - p
      /\ \A i \in 1..Len(s) - p : c[i] = s[p + i]
  BY SubSeqProperties
<1>3. /\ a \o c \in Seq(S) /\ Len(a \o c) = Len(s) - 1
      /\ \A i \in 1..Len(s) - 1 : (a \o c)[i] = IF i < p THEN s[i] ELSE s[i + 1]
  <2> HIDE DEF a, c
  <2>0. a \in Seq(S) /\ c \in Seq(S)
    BY <1>1, <1>2
  <2>1. /\ a \o c \in Seq(S) /\ Len(a \o c) = Len(s) - 1
        /\ \A i \in 1..Len(a) + Len(c) :
              (a \o c)[i] = IF i <= Len(a) THEN a[i] ELSE c[i - Len(a)]
    <3>1. /\ a \o c \in Seq(S) /\ Len(a \o c) = Len(a) + Len(c)
          /\ \A i \in 1..Len(a) + Len(c) :
                (a \o c)[i] = IF i <= Len(a) THEN a[i] ELSE c[i - Len(a)]
      BY <2>0, ConcatProperties
    <3>2. Len(a) + Len(c) = Len(s) - 1
      BY <1>1, <1>2
    <3> QED
      BY <3>1, <3>2
  <2>2. ASSUME NEW i \in 1..Len(s) - 1, i < p
        PROVE  (a \o c)[i] = s[i]
    BY <1>1, <1>2, <2>1, <2>2
  <2>3. ASSUME NEW i \in 1..Len(s) - 1, i >= p
        PROVE  (a \o c)[i] = s[i + 1]
    <3>1. /\ ~(i <= Len(a)) /\ i \in 1..Len(a) + Len(c)
          /\ i - Len(a) \in 1..Len(s) - p
          /\ p + (i - Len(a)) = i + 1
      BY <1>1, <1>2, <2>3
    <3>2. (a \o c)[i] = c[i - Len(a)]
      BY <2>1, <3>1
    <3> QED
      BY <1>2, <3>1, <3>2
  <2> QED
    BY <2>1, <2>2, <2>3
<1> QED
  BY <1>3 DEF RemoveAt

LEMMA ToSetIs ==
    ASSUME NEW S, NEW s \in Seq(S)
    PROVE  /\ s \in Seq(ToSet(s))
           /\ ToSet(s) \subseteq S
           /\ \A e : e \in ToSet(s) <=> \E i \in 1..Len(s) : s[i] = e
<1>1. \A e : e \in ToSet(s) <=> \E i \in 1..Len(s) : s[i] = e
  BY DEF ToSet
<1>2. ToSet(s) \subseteq S
  BY <1>1
<1>3. s \in Seq(ToSet(s))
  BY <1>1, IsASeq
<1> QED
  BY <1>1, <1>2, <1>3

LEMMA TailIs ==
    ASSUME NEW S, NEW s \in Seq(S), s # <<>>
    PROVE  /\ Head(s) \in S /\ Head(s) = s[1]
           /\ Tail(s) \in Seq(S)
           /\ Len(Tail(s)) = Len(s) - 1
           /\ \A i \in 1..Len(s) - 1 : Tail(s)[i] = s[i + 1]
           /\ IsInjective(s) => IsInjective(Tail(s))
<1>1. /\ Head(s) \in S /\ Head(s) = s[1] /\ Tail(s) \in Seq(S)
      /\ Len(Tail(s)) = Len(s) - 1
      /\ \A i \in 1..Len(s) - 1 : Tail(s)[i] = s[i + 1]
  BY HeadTailProperties
<1>2. ASSUME IsInjective(s), NEW i \in 1..Len(s) - 1, NEW j \in 1..Len(s) - 1,
             Tail(s)[i] = Tail(s)[j]
      PROVE  i = j
  <2>1. s[i + 1] = s[j + 1]
    BY <1>1, <1>2
  <2> QED
    BY <1>2, <2>1 DEF IsInjective
<1>3. DOMAIN Tail(s) = 1..Len(s) - 1
  BY <1>1
<1> QED
  BY <1>1, <1>2, <1>3 DEF IsInjective

LEMMA ConcatKeeps ==
    ASSUME NEW S, NEW s \in Seq(S), NEW t \in Seq(S)
    PROVE  /\ ToSet(s \o t) = ToSet(s) \cup ToSet(t)
           /\ IsInjective(s \o t) <=>
                IsInjective(s) /\ IsInjective(t) /\ ToSet(s) \cap ToSet(t) = {}
<1> DEFINE u == s \o t
<1>1. /\ u \in Seq(S) /\ Len(u) = Len(s) + Len(t)
      /\ \A i \in 1..Len(s) + Len(t) : u[i] = IF i <= Len(s) THEN s[i] ELSE t[i - Len(s)]
  BY ConcatProperties
<1> HIDE DEF u
<1>2. \A i \in 1..Len(s) : i \in 1..Len(u) /\ u[i] = s[i]
  BY <1>1
<1>3. \A i \in 1..Len(t) : i + Len(s) \in 1..Len(u) /\ u[i + Len(s)] = t[i]
  BY <1>1
<1>4. ToSet(u) = ToSet(s) \cup ToSet(t)
  <2>1. ASSUME NEW x \in ToSet(u) PROVE x \in ToSet(s) \cup ToSet(t)
    <3>1. PICK i \in 1..Len(u) : u[i] = x
      BY <1>1, <2>1, ToSetIs
    <3>2. CASE i <= Len(s)
      <4>1. i \in 1..Len(s) /\ s[i] = x
        BY <1>1, <3>1, <3>2
      <4> QED
        BY <4>1, ToSetIs
    <3>3. CASE i > Len(s)
      <4>1. i - Len(s) \in 1..Len(t) /\ t[i - Len(s)] = x
        BY <1>1, <3>1, <3>3
      <4> QED
        BY <4>1, ToSetIs
    <3> QED
      BY <3>2, <3>3
  <2>2. ASSUME NEW x \in ToSet(s) PROVE x \in ToSet(u)
    <3>1. PICK i \in 1..Len(s) : s[i] = x
      BY <2>2, ToSetIs
    <3> QED
      BY <1>1, <1>2, <3>1, ToSetIs
  <2>3. ASSUME NEW x \in ToSet(t) PROVE x \in ToSet(u)
    <3>1. PICK i \in 1..Len(t) : t[i] = x
      BY <2>3, ToSetIs
    <3> QED
      BY <1>1, <1>3, <3>1, ToSetIs
  <2> QED
    BY <2>1, <2>2, <2>3
<1>5. ASSUME IsInjective(u)
      PROVE  IsInjective(s) /\ IsInjective(t) /\ ToSet(s) \cap ToSet(t) = {}
  <2>0. \A i, j \in 1..Len(u) : u[i] = u[j] => i = j
    <3>1. DOMAIN u = 1..Len(u)
      BY <1>1
    <3> QED
      BY <1>5, <3>1 DEF IsInjective
  <2>1. IsInjective(s)
    BY <1>2, <2>0 DEF IsInjective
  <2>2. IsInjective(t)
    <3> SUFFICES ASSUME NEW i \in 1..Len(t), NEW j \in 1..Len(t), t[i] = t[j] PROVE i = j
      BY DEF IsInjective
    <3>1. i + Len(s) = j + Len(s)
      BY <1>3, <2>0
    <3> QED
      BY <3>1
  <2>3. ASSUME NEW x \in ToSet(s), x \in ToSet(t) PROVE FALSE
    <3>1. PICK i \in 1..Len(s) : s[i] = x
      BY ToSetIs
    <3>2. PICK j \in 1..Len(t) : t[j] = x
      BY <2>3, ToSetIs
    <3>3. i = j + Len(s)
      BY <1>2, <1>3, <2>0, <3>1, <3>2
    <3> QED
      BY <3>3
  <2> QED
    BY <2>1, <2>2, <2>3
<1>6. ASSUME IsInjective(s), IsInjective(t), ToSet(s) \cap ToSet(t) = {}
      PROVE  IsInjective(u)
  <2> SUFFICES ASSUME NEW i \in 1..Len(u), NEW j \in 1..Len(u), u[i] = u[j], i <= j
               PROVE  i = j
    BY <1>1 DEF IsInjective
  <2>1. CASE j <= Len(s)
    <3>1. i \in 1..Len(s) /\ j \in 1..Len(s) /\ s[i] = s[j]
      BY <1>1, <2>1
    <3> QED
      BY <1>6, <3>1 DEF IsInjective
  <2>2. CASE i > Len(s)
    <3>1. i - Len(s) \in 1..Len(t) /\ j - Len(s) \in 1..Len(t) /\ t[i - Len(s)] = t[j - Len(s)]
      BY <1>1, <2>2
    <3>2. i - Len(s) = j - Len(s)
      BY <1>6, <3>1 DEF IsInjective
    <3> QED
      BY <3>2
  <2>3. CASE i <= Len(s) /\ j > Len(s)
    <3>1. i \in 1..Len(s) /\ j - Len(s) \in 1..Len(t) /\ s[i] = t[j - Len(s)]
      BY <1>1, <2>3
    <3>2. s[i] \in ToSet(s) /\ s[i] \in ToSet(t)
      BY <3>1, ToSetIs
    <3> QED
      BY <1>6, <3>2
  <2> QED
    BY <2>1, <2>2, <2>3
<1> QED
  BY <1>4, <1>5, <1>6 DEF u

LEMMA SingleIs ==
    ASSUME NEW S, NEW e \in S
    PROVE  <<e>> \in Seq(S) /\ ToSet(<<e>>) = {e} /\ IsInjective(<<e>>) /\ Len(<<e>>) = 1
<1>1. <<e>> \in Seq(S) /\ Len(<<e>>) = 1 /\ <<e>>[1] = e
  OBVIOUS
<1>2. DOMAIN <<e>> = {1}
  BY <1>1
<1> QED
  BY <1>1, <1>2 DEF ToSet, IsInjective
-----------------------------------------------------------------------------
(* Lists without duplicates: an element more or less.                      *)

LEMMA WithoutIs ==
    ASSUME NEW S, NEW s \in Seq(S), IsInjective(s), NEW p \in 1..Len(s)
    PROVE  Without(s, s[p]) = RemoveAt(s, p)
<1>1. s[p] \in ToSet(s)
  BY ToSetIs
<1>2. (CHOOSE i \in DOMAIN s : s[i] = s[p]) = p
  BY DEF IsInjective
<1> QED
  BY <1>1, <1>2 DEF Without

LEMMA WithoutNone ==
    ASSUME NEW S, NEW s \in Seq(S), NEW e, e \notin ToSet(s)
    PROVE  Without(s, e) = s
  BY DEF Without

LEMMA WithoutKeeps ==
    ASSUME NEW S, NEW s \in Seq(S), IsInjective(s), NEW e
    PROVE  /\ Without(s, e) \in Seq(S)
           /\ ToSet(Without(s, e)) = ToSet(s) \ {e}
           /\ IsInjective(Without(s, e))
<1>1. CASE e \notin ToSet(s)
  BY <1>1, WithoutNone
<1>2. CASE e \in ToSet(s)
  <2>1. PICK p \in 1..Len(s) : s[p] = e
    BY <1>2, ToSetIs
  <2> DEFINE t == Without(s, e)
  <2>2. t = RemoveAt(s, p)
    BY <2>1, WithoutIs
  <2>3. /\ t \in Seq(S) /\ Len(t) = Len(s) - 1
        /\ \A i \in 1..Len(s) - 1 : t[i] = IF i < p THEN s[i] ELSE s[i + 1]
    BY <2>2, RemoveAtIs
  <2> HIDE DEF t
  <2>4. \A i, j \in 1..Len(s) : s[i] = s[j] => i = j
    BY DEF IsInjective
  <2>5. IsInjective(t)
    <3> SUFFICES ASSUME NEW i \in 1..Len(s) - 1, NEW j \in 1..Len(s) - 1, t[i] = t[j]
                 PROVE  i = j
      BY <2>3 DEF IsInjective
    <3> DEFINE at(k) == IF k < p THEN k ELSE k + 1
    <3>1. at(i) \in 1..Len(s) /\ at(j) \in 1..Len(s) /\ t[i] = s[at(i)] /\ t[j] = s[at(j)]
      BY <2>3
    <3>2. at(i) = at(j)
      BY <2>4, <3>1
    <3> QED
      BY <3>2
  <2>6. ASSUME NEW x \in ToSet(t) PROVE x \in ToSet(s) \ {e}
    <3>1. PICK i \in 1..Len(s) - 1 : t[i] = x
      BY <2>3, <2>6, ToSetIs
    <3> DEFINE k == IF i < p THEN i ELSE i + 1
    <3>2. k \in 1..Len(s) /\ s[k] = x /\ k # p
      BY <2>3, <3>1
    <3>3. x # e
      BY <2>1, <2>4, <3>2
    <3> QED
      BY <3>2, <3>3, ToSetIs
  <2>7. ASSUME NEW x \in ToSet(s) \ {e} PROVE x \in ToSet(t)
    <3>1. PICK i \in 1..Len(s) : s[i] = x
      BY ToSetIs
    <3> DEFINE k == IF i < p THEN i ELSE i - 1
    <3>2. i # p
      BY <2>1, <3>1
    <3>3. k \in 1..Len(t) /\ t[k] = x
      <4>1. CASE i < p
        BY <2>3, <3>1, <4>1
      <4>2. CASE i > p
        <5>1. i - 1 \in 1..Len(s) - 1 /\ ~(i - 1 < p) /\ (i - 1) + 1 = i
          BY <4>2
        <5>2. t[i - 1] = s[i]
          BY <2>3, <5>1
        <5> QED
          BY <2>3, <3>1, <4>2, <5>1, <5>2
      <4> QED
        BY <3>2, <4>1, <4>2
    <3> HIDE DEF k
    <3> QED
      BY <2>3, <3>3, ToSetIs
  <2> QED
    BY <2>3, <2>5, <2>6, <2>7 DEF t
<1> QED
  BY <1>1, <1>2

(* The first element and the rest, the last one and what is before it.     *)
LEMMA HeadFirst ==
    ASSUME NEW S, NEW s \in Seq(S), IsInjective(s), s # <<>>
    PROVE  /\ Head(s) \in ToSet(s)
           /\ s = <<Head(s)>> \o Without(s, Head(s))
<1> DEFINE r == Without(s, Head(s))
<1>1. Len(s) \in Nat \ {0} /\ 1 \in 1..Len(s)
  BY EmptySeq
<1>2. Head(s) = s[1] /\ s[1] \in S
  BY <1>1, TailIs
<1>3. r = RemoveAt(s, 1)
  BY <1>1, <1>2, WithoutIs
<1>4. /\ r \in Seq(S) /\ Len(r) = Len(s) - 1
      /\ \A i \in 1..Len(s) - 1 : r[i] = s[i + 1]
  BY <1>1, <1>3, RemoveAtIs
<1> HIDE DEF r
<1> DEFINE h == <<s[1]>>
<1>5. h \in Seq(S) /\ Len(h) = 1 /\ h[1] = s[1]
  BY <1>2
<1> HIDE DEF h
<1>6. /\ h \o r \in Seq(S) /\ Len(h \o r) = Len(s)
      /\ \A i \in 1..Len(s) : (h \o r)[i] = IF i <= 1 THEN h[i] ELSE r[i - 1]
  <2>1. h \in Seq(S) /\ r \in Seq(S)
    BY <1>4, <1>5
  <2>2. /\ h \o r \in Seq(S) /\ Len(h \o r) = Len(h) + Len(r)
        /\ \A i \in 1..Len(h) + Len(r) :
              (h \o r)[i] = IF i <= Len(h) THEN h[i] ELSE r[i - Len(h)]
    BY <2>1, ConcatProperties
  <2> QED
    BY <1>1, <1>4, <1>5, <2>2
<1>7. \A i \in 1..Len(s) : (h \o r)[i] = s[i]
  BY <1>1, <1>4, <1>5, <1>6
<1>8. h \o r = s
  BY <1>6, <1>7, SeqEqual
<1> QED
  BY <1>1, <1>2, <1>8, ToSetIs DEF h, r

LEMMA LastLast ==
    ASSUME NEW S, NEW s \in Seq(S), IsInjective(s), s # <<>>
    PROVE  /\ Last(s) \in ToSet(s)
           /\ s = Without(s, Last(s)) \o <<Last(s)>>
<1> DEFINE r == Without(s, Last(s))
           n == Len(s)
<1>1. n \in Nat \ {0} /\ n \in 1..n
  BY EmptySeq
<1>2. Last(s) = s[n] /\ s[n] \in S
  BY <1>1 DEF Last
<1>3. r = RemoveAt(s, n)
  BY <1>1, <1>2, WithoutIs
<1>4. /\ r \in Seq(S) /\ Len(r) = n - 1
      /\ \A i \in 1..n - 1 : r[i] = s[i]
  BY <1>1, <1>3, RemoveAtIs
<1> HIDE DEF r
<1> DEFINE l == <<s[n]>>
<1>5. l \in Seq(S) /\ Len(l) = 1 /\ l[1] = s[n]
  BY <1>2
<1> HIDE DEF l
<1>6. /\ r \o l \in Seq(S) /\ Len(r \o l) = n
      /\ \A i \in 1..n : (r \o l)[i] = IF i <= n - 1 THEN r[i] ELSE l[i - (n - 1)]
  <2>1. l \in Seq(S) /\ r \in Seq(S)
    BY <1>4, <1>5
  <2>2. /\ r \o l \in Seq(S) /\ Len(r \o l) = Len(r) + Len(l)
        /\ \A i \in 1..Len(r) + Len(l) :
              (r \o l)[i] = IF i <= Len(r) THEN r[i] ELSE l[i - Len(r)]
    BY <2>1, ConcatProperties
  <2> QED
    BY <1>1, <1>4, <1>5, <2>2
<1>7. \A i \in 1..n : (r \o l)[i] = s[i]
  BY <1>1, <1>4, <1>5, <1>6
<1>8. r \o l = s
  BY <1>6, <1>7, SeqEqual
<1> QED
  BY <1>1, <1>2, <1>8, ToSetIs DEF l, r

(* Taking an element out of two lists takes it out of their concatenation. *)
LEMMA WithoutConcat ==
    ASSUME NEW S, NEW s \in Seq(S), NEW t \in Seq(S), IsInjective(s \o t), NEW e
    PROVE  Without(s, e) \o Without(t, e) = Without(s \o t, e)
<1> DEFINE u == s \o t
<1>1. /\ IsInjective(s) /\ IsInjective(t) /\ ToSet(s) \cap ToSet(t) = {}
      /\ ToSet(u) = ToSet(s) \cup ToSet(t)
  BY ConcatKeeps
<1>2. /\ u \in Seq(S) /\ Len(u) = Len(s) + Len(t)
      /\ \A i \in 1..Len(s) + Len(t) : u[i] = IF i <= Len(s) THEN s[i] ELSE t[i - Len(s)]
  BY ConcatProperties
<1>3. CASE e \notin ToSet(u)
  BY <1>1, <1>2, <1>3, WithoutNone
<1>4. CASE e \in ToSet(s)
  <2>1. PICK p \in 1..Len(s) : s[p] = e
    BY <1>4, ToSetIs
  <2> DEFINE r == RemoveAt(s, p)
  <2>2. p \in 1..Len(u) /\ u[p] = e
    BY <1>2, <2>1
  <2>3. Without(s, e) = r /\ Without(u, e) = RemoveAt(u, p) /\ Without(t, e) = t
    <3>1. Without(s, e) = r
      BY <1>1, <2>1, WithoutIs
    <3>2. Without(u, e) = RemoveAt(u, p)
      BY <1>2, <2>2, WithoutIs
    <3>3. Without(t, e) = t
      BY <1>1, <1>4, WithoutNone
    <3> QED
      BY <3>1, <3>2, <3>3
  <2>4. /\ r \in Seq(S) /\ Len(r) = Len(s) - 1
        /\ \A i \in 1..Len(s) - 1 : r[i] = IF i < p THEN s[i] ELSE s[i + 1]
    BY RemoveAtIs
  <2>5. /\ RemoveAt(u, p) \in Seq(S) /\ Len(RemoveAt(u, p)) = Len(u) - 1
        /\ \A i \in 1..Len(u) - 1 : RemoveAt(u, p)[i] = IF i < p THEN u[i] ELSE u[i + 1]
    BY <1>2, <2>2, RemoveAtIs
  <2> HIDE DEF u, r
  <2>6. /\ r \o t \in Seq(S) /\ Len(r \o t) = Len(u) - 1
        /\ \A i \in 1..Len(u) - 1 :
              (r \o t)[i] = IF i <= Len(s) - 1 THEN r[i] ELSE t[i - (Len(s) - 1)]
    <3>1. r \in Seq(S) /\ t \in Seq(S)
      BY <2>4
    <3>2. /\ r \o t \in Seq(S) /\ Len(r \o t) = Len(r) + Len(t)
          /\ \A i \in 1..Len(r) + Len(t) :
                (r \o t)[i] = IF i <= Len(r) THEN r[i] ELSE t[i - Len(r)]
      BY <3>1, ConcatProperties
    <3> QED
      BY <1>2, <2>4, <3>2
  <2>7. ASSUME NEW i \in 1..Len(u) - 1 PROVE (r \o t)[i] = RemoveAt(u, p)[i]
    <3>1. CASE i <= Len(s) - 1
      <4>1. (r \o t)[i] = IF i < p THEN s[i] ELSE s[i + 1]
        BY <2>4, <2>6, <3>1
      <4>2. u[i] = s[i] /\ u[i + 1] = s[i + 1]
        BY <1>2, <3>1
      <4> QED
        BY <2>5, <4>1, <4>2
    <3>2. CASE i > Len(s) - 1
      <4>1. (r \o t)[i] = t[i - (Len(s) - 1)]
        BY <2>6, <3>2
      <4>2. u[i + 1] = t[i + 1 - Len(s)]
        BY <1>2, <3>2
      <4>3. ~(i < p) /\ i - (Len(s) - 1) = i + 1 - Len(s)
        BY <3>2
      <4> QED
        BY <2>5, <4>1, <4>2, <4>3
    <3>3. i <= Len(s) - 1 \/ i > Len(s) - 1
      BY <1>2
    <3> QED
      BY <3>1, <3>2, <3>3, Zenon
  <2>8. r \o t = RemoveAt(u, p)
    BY <2>5, <2>6, <2>7, SeqEqual
  <2> QED
    BY <2>3, <2>8 DEF u
<1>5. CASE e \in ToSet(t)
  <2>1. PICK q \in 1..Len(t) : t[q] = e
    BY <1>5, ToSetIs
  <2> DEFINE r == RemoveAt(t, q)
             p == Len(s) + q
  <2>2. p \in 1..Len(u) /\ u[p] = e
    BY <1>2, <2>1
  <2>3. Without(t, e) = r /\ Without(u, e) = RemoveAt(u, p) /\ Without(s, e) = s
    <3>1. Without(t, e) = r
      BY <1>1, <2>1, WithoutIs
    <3>2. Without(u, e) = RemoveAt(u, p)
      <4> HIDE DEF u, p
      <4> QED
        BY <1>2, <2>2, WithoutIs DEF u
    <3>3. Without(s, e) = s
      BY <1>1, <1>5, WithoutNone
    <3> QED
      BY <3>1, <3>2, <3>3
  <2>4. /\ r \in Seq(S) /\ Len(r) = Len(t) - 1
        /\ \A i \in 1..Len(t) - 1 : r[i] = IF i < q THEN t[i] ELSE t[i + 1]
    BY RemoveAtIs
  <2>5. /\ RemoveAt(u, p) \in Seq(S) /\ Len(RemoveAt(u, p)) = Len(u) - 1
        /\ \A i \in 1..Len(u) - 1 : RemoveAt(u, p)[i] = IF i < p THEN u[i] ELSE u[i + 1]
    <3> HIDE DEF u, p
    <3> QED
      BY <1>2, <2>2, RemoveAtIs
  <2> HIDE DEF u, r
  <2>6. /\ s \o r \in Seq(S) /\ Len(s \o r) = Len(u) - 1
        /\ \A i \in 1..Len(u) - 1 :
              (s \o r)[i] = IF i <= Len(s) THEN s[i] ELSE r[i - Len(s)]
    <3>1. s \in Seq(S) /\ r \in Seq(S)
      BY <2>4
    <3>2. /\ s \o r \in Seq(S) /\ Len(s \o r) = Len(s) + Len(r)
          /\ \A i \in 1..Len(s) + Len(r) :
                (s \o r)[i] = IF i <= Len(s) THEN s[i] ELSE r[i - Len(s)]
      BY <3>1, ConcatProperties
    <3> QED
      BY <1>2, <2>4, <3>2
  <2>7. ASSUME NEW i \in 1..Len(u) - 1 PROVE (s \o r)[i] = RemoveAt(u, p)[i]
    <3>1. CASE i <= Len(s)
      <4>1. (s \o r)[i] = s[i] /\ u[i] = s[i] /\ i < p
        BY <1>2, <2>6, <3>1
      <4> QED
        BY <2>5, <4>1
    <3>2. CASE i > Len(s)
      <4>1. i - Len(s) \in 1..Len(t) - 1
        BY <1>2, <3>2
      <4>2. (s \o r)[i] = IF i - Len(s) < q THEN t[i - Len(s)] ELSE t[i - Len(s) + 1]
        <5>1. (s \o r)[i] = r[i - Len(s)]
          BY <2>6, <3>2
        <5> QED
          BY <2>4, <4>1, <5>1
      <4>3. u[i] = t[i - Len(s)] /\ u[i + 1] = t[i - Len(s) + 1]
        <5>1. i + 1 - Len(s) = i - Len(s) + 1
          BY <3>2
        <5> QED
          BY <1>2, <3>2, <5>1
      <4>4. i - Len(s) < q <=> i < p
        BY <3>2
      <4> QED
        BY <2>5, <4>2, <4>3, <4>4
    <3>3. i <= Len(s) \/ i > Len(s)
      BY <1>2
    <3> QED
      BY <3>1, <3>2, <3>3, Zenon
  <2>8. s \o r = RemoveAt(u, p)
    BY <2>5, <2>6, <2>7, SeqEqual
  <2> QED
    BY <2>3, <2>8 DEF u
<1> QED
  BY <1>1, <1>3, <1>4, <1>5
-----------------------------------------------------------------------------
(* The invariant: where a walk is, and what it has done so far.            *)

ToDo == ToSet(dpm_list)
Done == ToSet(list)

Rest == {"idle", "prepared", "suspended", "asleep", "resumed"}
Calling == {"preparing", "suspending", "resuming", "completing"}

Lists ==
    /\ dpm_list \in Seq(Devices) /\ list \in Seq(Devices)
    /\ IsInjective(dpm_list) /\ IsInjective(list)
    /\ ToDo \cap Done = {}

(* The device in its callback is the next of the walk, or was removed.     *)
WalkInv ==
    /\ pc \in Rest => list = <<>>
    /\ IF pc \in Calling THEN \E d \in Devices : dev = {d} ELSE dev = {}
    /\ dev \cap Done = {}
    /\ pc \in {"preparing", "resuming"} => \A d \in dev \cap ToDo : d = Head(dpm_list)
    /\ pc \in {"suspending", "completing"} => \A d \in dev \cap ToDo : d = Last(dpm_list)

TreeInv == \A c \in Registered : Parent[c] \subseteq Registered

PlainType ==
    /\ status \in [Devices -> DPM_ON..DPM_OFF_IRQ]
    /\ pc \in Locked \cup Unlocked
    /\ error \in {"none", "again", "failed", "woken"}

PrepareInv ==
    /\ pc \in {"prepare", "preparing"} =>
         /\ error \in {"none", "again"}
         /\ off = {} /\ prepared = Done
         /\ \A d \in Done : status[d] = DPM_SUSPENDING
         /\ \A d \in ToDo : status[d] = IF d \in dev THEN DPM_PREPARING ELSE DPM_ON
    /\ pc = "prepared" =>
         /\ off = {} /\ prepared = {d \in Registered : status[d] = DPM_SUSPENDING}
         /\ \A d \in Registered : status[d] \in {DPM_ON, DPM_SUSPENDING}
         /\ error = "none" => prepared = Registered

SuspendInv ==
    /\ pc \in {"suspend", "suspending"} =>
         /\ error = "none"
         /\ off = Done /\ prepared = Registered
         /\ \A d \in Done : status[d] = DPM_OFF
         /\ \A d \in ToDo : status[d] = DPM_SUSPENDING
    /\ pc = "suspended" =>
         /\ off = {d \in Registered : status[d] = DPM_OFF} /\ prepared = Registered
         /\ \A d \in Registered : status[d] \in {DPM_OFF, DPM_SUSPENDING}
         /\ error = "none" => off = Registered
    /\ pc = "asleep" =>
         /\ off = Registered /\ prepared = Registered
         /\ \A d \in Registered : status[d] = DPM_OFF_IRQ

ResumeInv ==
    /\ pc \in {"resume", "resuming"} =>
         /\ \A d \in Done : status[d] \in {DPM_ON, DPM_RESUMING}
         /\ \A d \in ToDo : IF d \in dev THEN status[d] = DPM_RESUMING
                            ELSE status[d] \in {DPM_ON, DPM_SUSPENDING, DPM_OFF}
         /\ off = {d \in ToDo : d \in dev \/ status[d] = DPM_OFF}
         /\ prepared = {d \in Registered : status[d] # DPM_ON}
    /\ pc = "resumed" =>
         /\ off = {} /\ prepared = {d \in Registered : status[d] = DPM_RESUMING}
         /\ \A d \in Registered : status[d] \in {DPM_ON, DPM_RESUMING}

CompleteInv ==
    /\ pc \in {"complete", "completing"} =>
         /\ off = {} /\ prepared = {d \in ToDo : d \in dev \/ status[d] = DPM_RESUMING}
         /\ \A d \in Done \cup dev : status[d] = DPM_ON
         /\ \A d \in ToDo : status[d] \in {DPM_ON, DPM_RESUMING}
    /\ pc = "idle" =>
         /\ off = {} /\ prepared = {}
         /\ \A d \in Registered : status[d] = DPM_ON

StartedInv ==
    /\ transition_started \in BOOLEAN
    /\ transition_started <=>
           pc \in {"prepare", "preparing", "prepared", "suspend", "suspending", "suspended", "asleep"}

StatusInv == PlainType /\ StartedInv /\ PrepareInv /\ SuspendInv /\ ResumeInv /\ CompleteInv

IInv == Lists /\ WalkInv /\ TreeInv /\ DepthFirst /\ StatusInv

-----------------------------------------------------------------------------
(* No step of a walk changes the order of the list it leaves behind.       *)

LEMMA MovesToTail ==
    ASSUME Lists, NEW d, d \in ToDo => d = Head(dpm_list), d \notin Done, MoveToTail(d)
    PROVE  /\ Lists'
           /\ ToDo' = ToDo \ {d} /\ Done' = Done \cup (ToDo \cap {d})
           /\ list' \o dpm_list' = list \o dpm_list
<1>1. CASE d \notin ToDo
  <2>1. UNCHANGED <<dpm_list, list>>
    BY <1>1 DEF MoveToTail, ToDo
  <2> QED
    BY <1>1, <2>1 DEF Lists, ToDo, Done
<1>2. CASE d \in ToDo
  <2> DEFINE r == Without(dpm_list, d)
  <2>1. dpm_list' = r /\ list' = Append(list, d)
    BY <1>2 DEF MoveToTail, ToDo
  <2>2. dpm_list # <<>> /\ d \in Devices
    BY <1>2, ToSetIs DEF Lists, ToDo
  <2>3. dpm_list = <<d>> \o r
    BY <1>2, <2>2, HeadFirst DEF Lists
  <2>4. r \in Seq(Devices) /\ ToSet(r) = ToDo \ {d} /\ IsInjective(r)
    BY WithoutKeeps DEF Lists, ToDo
  <2> HIDE DEF r
  <2>5. <<d>> \in Seq(Devices) /\ ToSet(<<d>>) = {d} /\ IsInjective(<<d>>)
    BY <2>2, SingleIs
  <2>6. Append(list, d) = list \o <<d>>
    BY <2>2, AppendIsConcat DEF Lists
  <2>7. list \o <<d>> \in Seq(Devices) /\ ToSet(list \o <<d>>) = Done \cup {d} /\ IsInjective(list \o <<d>>)
    <3>1. list \in Seq(Devices) /\ IsInjective(list) /\ Done \cap {d} = {} /\ Done = ToSet(list)
      BY DEF Lists, Done
    <3>2. list \o <<d>> \in Seq(Devices)
      BY <2>5, <3>1, ConcatProperties
    <3> QED
      BY <2>5, <3>1, <3>2, ConcatKeeps
  <2>8. (list \o <<d>>) \o r = list \o dpm_list
    BY <2>3, <2>4, <2>5, ConcatAssociative DEF Lists
  <2> QED
    BY <1>2, <2>1, <2>4, <2>6, <2>7, <2>8 DEF Lists, ToDo, Done
<1> QED
  BY <1>1, <1>2

LEMMA MovesToHead ==
    ASSUME Lists, NEW d, d \in ToDo => d = Last(dpm_list), d \notin Done, MoveToHead(d)
    PROVE  /\ Lists'
           /\ ToDo' = ToDo \ {d} /\ Done' = Done \cup (ToDo \cap {d})
           /\ dpm_list' \o list' = dpm_list \o list
<1>1. CASE d \notin ToDo
  <2>1. UNCHANGED <<dpm_list, list>>
    BY <1>1 DEF MoveToHead, ToDo
  <2> QED
    BY <1>1, <2>1 DEF Lists, ToDo, Done
<1>2. CASE d \in ToDo
  <2> DEFINE r == Without(dpm_list, d)
  <2>1. dpm_list' = r /\ list' = <<d>> \o list
    BY <1>2 DEF MoveToHead, ToDo
  <2>2. dpm_list # <<>> /\ d \in Devices
    BY <1>2, ToSetIs DEF Lists, ToDo
  <2>3. dpm_list = r \o <<d>>
    BY <1>2, <2>2, LastLast DEF Lists
  <2>4. r \in Seq(Devices) /\ ToSet(r) = ToDo \ {d} /\ IsInjective(r)
    BY WithoutKeeps DEF Lists, ToDo
  <2> HIDE DEF r
  <2>5. <<d>> \in Seq(Devices) /\ ToSet(<<d>>) = {d} /\ IsInjective(<<d>>)
    BY <2>2, SingleIs
  <2>7. <<d>> \o list \in Seq(Devices) /\ ToSet(<<d>> \o list) = Done \cup {d} /\ IsInjective(<<d>> \o list)
    <3> DEFINE h == <<d>>
    <3>1. list \in Seq(Devices) /\ IsInjective(list) /\ Done = ToSet(list)
      BY DEF Lists, Done
    <3>2. h \in Seq(Devices) /\ ToSet(h) = {d} /\ IsInjective(h) /\ {d} \cap Done = {}
      BY <2>5
    <3> HIDE DEF h
    <3>3. h \o list \in Seq(Devices)
      BY <3>1, <3>2, ConcatProperties
    <3>4. ToSet(h \o list) = Done \cup {d} /\ IsInjective(h \o list)
      BY <3>1, <3>2, ConcatKeeps
    <3> QED
      BY <3>3, <3>4 DEF h
  <2>8. r \o (<<d>> \o list) = dpm_list \o list
    BY <2>3, <2>4, <2>5, ConcatAssociative DEF Lists
  <2> QED
    BY <1>2, <2>1, <2>4, <2>7, <2>8 DEF Lists, ToDo, Done
<1> QED
  BY <1>1, <1>2

LEMMA Splices ==
    ASSUME Lists, SpliceHead \/ SpliceTail
    PROVE  /\ Lists'
           /\ ToDo' = ToDo \cup Done /\ Done' = {}
           /\ SpliceHead => dpm_list' = list \o dpm_list
           /\ SpliceTail => dpm_list' = dpm_list \o list
           /\ list' = <<>>
<1>1. list' = <<>> /\ ToSet(<<>>) = {} /\ IsInjective(<<>>) /\ <<>> \in Seq(Devices)
  BY DEF SpliceHead, SpliceTail, ToSet, IsInjective
<1>2. CASE SpliceHead
  <2>1. dpm_list' = list \o dpm_list
    BY <1>2 DEF SpliceHead
  <2>2. list \o dpm_list \in Seq(Devices)
    BY ConcatProperties DEF Lists
  <2>3. ToSet(list \o dpm_list) = ToDo \cup Done /\ IsInjective(list \o dpm_list)
    BY ConcatKeeps DEF Lists, ToDo, Done
  <2> QED
    BY <1>1, <2>1, <2>2, <2>3 DEF Lists, ToDo, Done, SpliceTail, SpliceHead
<1>3. CASE SpliceTail
  <2>1. dpm_list' = dpm_list \o list
    BY <1>3 DEF SpliceTail
  <2>2. dpm_list \o list \in Seq(Devices)
    BY ConcatProperties DEF Lists
  <2>3. ToSet(dpm_list \o list) = ToDo \cup Done /\ IsInjective(dpm_list \o list)
    BY ConcatKeeps DEF Lists, ToDo, Done
  <2> QED
    BY <1>1, <2>1, <2>2, <2>3 DEF Lists, ToDo, Done, SpliceTail, SpliceHead
<1> QED
  BY <1>2, <1>3

(* Without the local list the walk has no direction.                       *)
LEMMA NoDirection ==
    ASSUME Lists, list = <<>> \/ dpm_list = <<>>
    PROVE  list \o dpm_list = dpm_list \o list
  BY ConcatEmptySeq DEF Lists

LEMMA OrderStays ==
    ASSUME TreeInv, DepthFirst, WholeList' = WholeList, Registered' = Registered
    PROVE  TreeInv' /\ DepthFirst'
  BY DEF TreeInv, DepthFirst

LEMMA SameLists ==
    ASSUME Lists, UNCHANGED <<dpm_list, list>>
    PROVE  Lists' /\ ToDo' = ToDo /\ Done' = Done
  BY DEF Lists, ToDo, Done

LEMMA Ends ==
    ASSUME Lists, dpm_list # <<>>
    PROVE  /\ Head(dpm_list) \in ToDo \ Done
           /\ Last(dpm_list) \in ToDo \ Done
  BY HeadFirst, LastLast DEF Lists, ToDo

LEMMA InDevices == Lists => ToDo \subseteq Devices /\ Done \subseteq Devices
  BY ToSetIs DEF Lists, ToDo, Done

(* A step that calls a device, or skips to the next walk.                  *)
LEMMA ListsStay ==
    ASSUME IInv, UNCHANGED <<dpm_list, list>>,
           \/ WholeList' = WholeList
           \/ list = <<>>
    PROVE  /\ Lists' /\ TreeInv' /\ DepthFirst'
           /\ ToDo' = ToDo /\ Done' = Done /\ Registered' = Registered
<1>1. Lists' /\ ToDo' = ToDo /\ Done' = Done /\ Registered' = Registered
  BY SameLists DEF IInv, Registered
<1>2. WholeList' = WholeList
  BY NoDirection DEF IInv, WholeList
<1> QED
  BY <1>1, <1>2, OrderStays DEF IInv
-----------------------------------------------------------------------------
(* dpm_prepare                                                             *)

LEMMA PrepareStarts == ASSUME IInv, PrepareStart PROVE IInv'
<1> USE DEF IInv, StatusInv
<1>1. list = <<>> /\ UNCHANGED <<dpm_list, list>> /\ dev = {} /\ pc = "idle"
  BY DEF PrepareStart, WalkInv, Rest, Calling
<1>2. /\ Lists' /\ TreeInv' /\ DepthFirst'
      /\ ToDo' = ToDo /\ Done' = Done /\ Registered' = Registered
  BY <1>1, ListsStay
<1>3. WalkInv'
  BY <1>1 DEF PrepareStart, WalkInv, Rest, Calling
<1>4. Done = {}
  BY <1>1 DEF Done, ToSet
<1>5. StatusInv'
  BY <1>1, <1>2, <1>4 DEF PrepareStart, PlainType, StartedInv, PrepareInv, SuspendInv, ResumeInv,
     CompleteInv, Locked, Registered, ToDo
<1> QED
  BY <1>2, <1>3, <1>5

LEMMA PrepareGoesOn == ASSUME IInv, PrepareNext PROVE IInv'
<1> USE DEF IInv, StatusInv
<1> DEFINE d == Head(dpm_list)
<1>1. /\ UNCHANGED <<dpm_list, list>> /\ pc = "prepare" /\ pc' = "preparing" /\ dev = {} /\ dev' = {d}
      /\ d \in ToDo \ Done /\ d \in Devices
  BY Ends, InDevices DEF PrepareNext, WalkInv, Calling
<1>2. /\ Lists' /\ TreeInv' /\ DepthFirst'
      /\ ToDo' = ToDo /\ Done' = Done /\ Registered' = Registered
  BY <1>1, ListsStay DEF WholeList
<1>3. WalkInv'
  BY <1>1, <1>2 DEF WalkInv, Rest, Calling
<1> HIDE DEF d
<1>4. status' = [status EXCEPT ![d] = DPM_PREPARING] /\ UNCHANGED <<transition_started, error, off, prepared>>
  BY DEF PrepareNext, Sets, d
<1>5. StatusInv'
  BY <1>1, <1>2, <1>4, InDevices DEF PlainType, StartedInv, PrepareInv, SuspendInv, ResumeInv,
     CompleteInv, Unlocked, DPM_ON, DPM_PREPARING, DPM_RESUMING, DPM_SUSPENDING, DPM_OFF, DPM_OFF_IRQ
<1> QED
  BY <1>2, <1>3, <1>5

LEMMA Prepared == ASSUME IInv, NEW d, PrepareSucceeds(d) PROVE IInv'
<1> USE DEF IInv, StatusInv
<1>1. /\ pc = "preparing" /\ pc' = "prepare" /\ dev = {d} /\ dev' = {} /\ d \in Devices
      /\ d \notin Done
      /\ d \in ToDo => d = Head(dpm_list)
  BY DEF PrepareSucceeds, WalkInv, Calling
<1>2. /\ Lists'
      /\ ToDo' = ToDo \ {d} /\ Done' = Done \cup (ToDo \cap {d})
      /\ WholeList' = WholeList
  <2>1. Lists /\ MoveToTail(d)
    BY DEF PrepareSucceeds
  <2>2. /\ Lists'
        /\ ToDo' = ToDo \ {d} /\ Done' = Done \cup (ToDo \cap {d})
        /\ list' \o dpm_list' = list \o dpm_list
    BY <1>1, <2>1, MovesToTail
  <2> QED
    BY <1>1, <2>2 DEF WholeList
<1>3. Registered' = Registered
  BY <1>2 DEF Registered, ToDo, Done
<1>4. TreeInv' /\ DepthFirst'
  BY <1>2, <1>3, OrderStays
<1>5. WalkInv'
  BY <1>1 DEF WalkInv, Rest, Calling
<1>6. /\ status' = [status EXCEPT ![d] = DPM_SUSPENDING] /\ UNCHANGED <<transition_started, off>>
      /\ prepared' = prepared \cup ({d} \cap Registered) /\ error' = "none"
  BY DEF PrepareSucceeds, Sets, Alive
<1>7. Registered = ToDo \cup Done
  BY DEF Registered, ToDo, Done
<1>8. StatusInv'
  BY <1>1, <1>2, <1>3, <1>6, <1>7, InDevices DEF PlainType, StartedInv, PrepareInv, SuspendInv, ResumeInv,
     CompleteInv, Locked, Unlocked, DPM_ON, DPM_PREPARING, DPM_RESUMING, DPM_SUSPENDING, DPM_OFF, DPM_OFF_IRQ
<1> QED
  BY <1>2, <1>4, <1>5, <1>8

LEMMA PreparedAgain == ASSUME IInv, NEW d, PrepareAgain(d) PROVE IInv'
<1> USE DEF IInv, StatusInv
<1>1. /\ UNCHANGED <<dpm_list, list>> /\ pc = "preparing" /\ pc' = "prepare" /\ dev = {d} /\ dev' = {}
      /\ d \in Devices /\ d \notin Done
  BY DEF PrepareAgain, WalkInv, Calling
<1>2. /\ Lists' /\ TreeInv' /\ DepthFirst'
      /\ ToDo' = ToDo /\ Done' = Done /\ Registered' = Registered
  BY <1>1, ListsStay DEF WholeList
<1>3. WalkInv'
  BY <1>1 DEF WalkInv, Rest, Calling
<1>4. /\ status' = [status EXCEPT ![d] = DPM_ON] /\ error' = "again"
      /\ UNCHANGED <<transition_started, off, prepared>>
  BY DEF PrepareAgain, Sets
<1>5. StatusInv'
  BY <1>1, <1>2, <1>4, InDevices DEF PlainType, StartedInv, PrepareInv, SuspendInv, ResumeInv,
     CompleteInv, Locked, Unlocked, DPM_ON, DPM_PREPARING, DPM_RESUMING, DPM_SUSPENDING, DPM_OFF, DPM_OFF_IRQ
<1> QED
  BY <1>2, <1>3, <1>5

LEMMA PrepareFailed == ASSUME IInv, NEW d, PrepareFails(d) PROVE IInv'
<1> USE DEF IInv, StatusInv
<1>1. /\ pc = "preparing" /\ pc' = "prepared" /\ dev = {d} /\ dev' = {}
      /\ d \in Devices /\ d \notin Done
  BY DEF PrepareFails, WalkInv, Calling
<1>2. Lists' /\ ToDo' = ToDo \cup Done /\ Done' = {} /\ dpm_list' = list \o dpm_list /\ list' = <<>>
  BY Splices DEF PrepareFails
<1>3. Registered' = Registered
  BY <1>2 DEF Registered, ToDo, Done
<1>4. WholeList' = WholeList
  BY <1>1, <1>2, ConcatEmptySeq DEF WholeList, Lists
<1>5. TreeInv' /\ DepthFirst'
  BY <1>3, <1>4, OrderStays
<1>6. WalkInv'
  BY <1>1, <1>2 DEF WalkInv, Rest, Calling
<1>7. /\ status' = [status EXCEPT ![d] = DPM_ON] /\ error' = "failed"
      /\ UNCHANGED <<transition_started, off, prepared>>
  BY DEF PrepareFails, Sets
<1>8. Registered = ToDo \cup Done
  BY DEF Registered, ToDo, Done
<1>9. StatusInv'
  BY <1>1, <1>2, <1>3, <1>7, <1>8, InDevices DEF PlainType, StartedInv, PrepareInv, SuspendInv, ResumeInv,
     CompleteInv, Locked, Unlocked, DPM_ON, DPM_PREPARING, DPM_RESUMING, DPM_SUSPENDING, DPM_OFF, DPM_OFF_IRQ
<1> QED
  BY <1>2, <1>5, <1>6, <1>9

LEMMA PrepareEnds == ASSUME IInv, PrepareEnd PROVE IInv'
<1> USE DEF IInv, StatusInv
<1>1. pc = "prepare" /\ pc' = "prepared" /\ dev = {} /\ dev' = {} /\ dpm_list = <<>>
  BY DEF PrepareEnd, WalkInv, Calling
<1>2. Lists' /\ ToDo' = ToDo \cup Done /\ Done' = {} /\ dpm_list' = list \o dpm_list /\ list' = <<>>
  BY Splices DEF PrepareEnd
<1>3. Registered' = Registered /\ ToDo = {}
  BY <1>1, <1>2 DEF Registered, ToDo, Done, ToSet
<1>4. WholeList' = WholeList
  BY <1>1, <1>2, ConcatEmptySeq, NoDirection DEF WholeList, Lists
<1>5. TreeInv' /\ DepthFirst'
  BY <1>3, <1>4, OrderStays
<1>6. WalkInv'
  BY <1>1, <1>2 DEF WalkInv, Rest, Calling
<1>7. UNCHANGED <<status, transition_started, error, off, prepared>>
  BY DEF PrepareEnd
<1>8. Registered = ToDo \cup Done
  BY DEF Registered, ToDo, Done
<1>9. StatusInv'
  BY <1>1, <1>2, <1>3, <1>7, <1>8, InDevices DEF PlainType, StartedInv, PrepareInv, SuspendInv, ResumeInv,
     CompleteInv, Locked, Unlocked, DPM_ON, DPM_PREPARING, DPM_RESUMING, DPM_SUSPENDING, DPM_OFF, DPM_OFF_IRQ
<1> QED
  BY <1>2, <1>5, <1>6, <1>9
-----------------------------------------------------------------------------
(* dpm_suspend                                                             *)

LEMMA SuspendStarts == ASSUME IInv, SuspendStart PROVE IInv'
<1> USE DEF IInv, StatusInv
<1>1. /\ pc \in {"prepared"} /\ pc' = "suspend" /\ dev = {} /\ dev' = {}
      /\ list = <<>> /\ UNCHANGED <<dpm_list, list>>
  BY DEF SuspendStart, WalkInv, Rest, Calling
<1>2. /\ Lists' /\ TreeInv' /\ DepthFirst'
      /\ ToDo' = ToDo /\ Done' = Done /\ Registered' = Registered
  BY <1>1, ListsStay
<1>3. WalkInv'
  BY <1>1 DEF WalkInv, Rest, Calling
<1>4. Done = {} /\ Registered = ToDo
  BY <1>1 DEF Registered, ToDo, Done, ToSet
<1>5. UNCHANGED <<status, transition_started, error, off, prepared>> /\ error = "none"
  BY <1>1 DEF SuspendStart
<1>6. StatusInv'
  BY <1>1, <1>2, <1>4, <1>5, InDevices DEF PlainType, StartedInv, PrepareInv, SuspendInv, ResumeInv,
     CompleteInv, Locked, Unlocked, DPM_ON, DPM_PREPARING, DPM_RESUMING, DPM_SUSPENDING, DPM_OFF, DPM_OFF_IRQ
<1> QED
  BY <1>2, <1>3, <1>6

LEMMA SuspendGoesOn == ASSUME IInv, SuspendNext PROVE IInv'
<1> USE DEF IInv, StatusInv
<1> DEFINE d == Last(dpm_list)
<1>1. /\ UNCHANGED <<dpm_list, list>> /\ pc = "suspend" /\ pc' = "suspending" /\ dev = {} /\ dev' = {d}
      /\ d \in ToDo \ Done /\ d \in Devices
  BY Ends, InDevices DEF SuspendNext, WalkInv, Calling
<1>2. /\ Lists' /\ TreeInv' /\ DepthFirst'
      /\ ToDo' = ToDo /\ Done' = Done /\ Registered' = Registered
  BY <1>1, ListsStay DEF WholeList
<1>3. WalkInv'
  BY <1>1, <1>2 DEF WalkInv, Rest, Calling
<1> HIDE DEF d
<1>4. UNCHANGED <<status, transition_started, error, off, prepared>>
  BY DEF SuspendNext, Sets, d
<1>5. Registered = ToDo \cup Done
  BY DEF Registered, ToDo, Done
<1>6. StatusInv'
  BY <1>1, <1>2, <1>4, <1>5, InDevices DEF PlainType, StartedInv, PrepareInv, SuspendInv, ResumeInv,
     CompleteInv, Locked, Unlocked, DPM_ON, DPM_PREPARING, DPM_RESUMING, DPM_SUSPENDING, DPM_OFF, DPM_OFF_IRQ
<1> QED
  BY <1>2, <1>3, <1>6

LEMMA Suspended == ASSUME IInv, NEW d, SuspendSucceeds(d) PROVE IInv'
<1> USE DEF IInv, StatusInv
<1>1. /\ pc = "suspending" /\ pc' = "suspend" /\ dev = {d} /\ dev' = {} /\ d \in Devices
      /\ d \notin Done
      /\ d \in ToDo => d = Last(dpm_list)
  BY DEF SuspendSucceeds, WalkInv, Calling
<1>2. /\ Lists'
      /\ ToDo' = ToDo \ {d} /\ Done' = Done \cup (ToDo \cap {d})
      /\ WholeList' = WholeList
  <2>1. Lists /\ MoveToHead(d)
    BY DEF SuspendSucceeds
  <2>2. /\ Lists'
        /\ ToDo' = ToDo \ {d} /\ Done' = Done \cup (ToDo \cap {d})
        /\ dpm_list' \o list' = dpm_list \o list
    BY <1>1, <2>1, MovesToHead
  <2> QED
    BY <1>1, <2>2 DEF WholeList
<1>3. Registered' = Registered
  BY <1>2 DEF Registered, ToDo, Done
<1>4. TreeInv' /\ DepthFirst'
  BY <1>2, <1>3, OrderStays
<1>5. WalkInv'
  BY <1>1 DEF WalkInv, Rest, Calling
<1>6. /\ status' = [status EXCEPT ![d] = DPM_OFF] /\ UNCHANGED <<transition_started, error, prepared>>
      /\ off' = off \cup ({d} \cap Registered)
  BY DEF SuspendSucceeds, Sets, Alive
<1>7. Registered = ToDo \cup Done
  BY DEF Registered, ToDo, Done
<1>8. StatusInv'
  BY <1>1, <1>2, <1>3, <1>6, <1>7, InDevices DEF PlainType, StartedInv, PrepareInv, SuspendInv, ResumeInv,
     CompleteInv, Locked, Unlocked, DPM_ON, DPM_PREPARING, DPM_RESUMING, DPM_SUSPENDING, DPM_OFF, DPM_OFF_IRQ
<1> QED
  BY <1>2, <1>4, <1>5, <1>8

LEMMA SuspendFailed == ASSUME IInv, NEW d, SuspendFails(d) PROVE IInv'
<1> USE DEF IInv, StatusInv
<1>1. /\ pc = "suspending" /\ pc' = "suspended" /\ dev = {d} /\ dev' = {}
  BY DEF SuspendFails, WalkInv, Calling
<1>2. Lists' /\ ToDo' = ToDo \cup Done /\ Done' = {} /\ dpm_list' = dpm_list \o list /\ list' = <<>>
  BY Splices DEF SuspendFails
<1>3. Registered' = Registered
  BY <1>2 DEF Registered, ToDo, Done
<1>4. WholeList' = WholeList
  BY <1>1, <1>2, ConcatEmptySeq DEF WholeList, Lists
<1>5. TreeInv' /\ DepthFirst'
  BY <1>3, <1>4, OrderStays
<1>6. WalkInv'
  BY <1>1, <1>2 DEF WalkInv, Rest, Calling
<1>7. error' = "failed" /\ UNCHANGED <<status, transition_started, off, prepared>>
  BY DEF SuspendFails
<1>8. Registered = ToDo \cup Done
  BY DEF Registered, ToDo, Done
<1>9. StatusInv'
  BY <1>1, <1>2, <1>3, <1>7, <1>8, InDevices DEF PlainType, StartedInv, PrepareInv, SuspendInv, ResumeInv,
     CompleteInv, Locked, Unlocked, DPM_ON, DPM_PREPARING, DPM_RESUMING, DPM_SUSPENDING, DPM_OFF, DPM_OFF_IRQ
<1> QED
  BY <1>2, <1>5, <1>6, <1>9

LEMMA SuspendEnds == ASSUME IInv, SuspendEnd PROVE IInv'
<1> USE DEF IInv, StatusInv
<1>1. pc = "suspend" /\ pc' = "suspended" /\ dev = {} /\ dev' = {} /\ dpm_list = <<>>
  BY DEF SuspendEnd, WalkInv, Calling
<1>2. Lists' /\ ToDo' = ToDo \cup Done /\ Done' = {} /\ dpm_list' = dpm_list \o list /\ list' = <<>>
  BY Splices DEF SuspendEnd
<1>3. Registered' = Registered /\ ToDo = {}
  BY <1>1, <1>2 DEF Registered, ToDo, Done, ToSet
<1>4. WholeList' = WholeList
  BY <1>1, <1>2, ConcatEmptySeq, NoDirection DEF WholeList, Lists
<1>5. TreeInv' /\ DepthFirst'
  BY <1>3, <1>4, OrderStays
<1>6. WalkInv'
  BY <1>1, <1>2 DEF WalkInv, Rest, Calling
<1>7. UNCHANGED <<status, transition_started, error, off, prepared>>
  BY DEF SuspendEnd
<1>8. Registered = ToDo \cup Done
  BY DEF Registered, ToDo, Done
<1>9. StatusInv'
  BY <1>1, <1>2, <1>3, <1>7, <1>8, InDevices DEF PlainType, StartedInv, PrepareInv, SuspendInv, ResumeInv,
     CompleteInv, Locked, Unlocked, DPM_ON, DPM_PREPARING, DPM_RESUMING, DPM_SUSPENDING, DPM_OFF, DPM_OFF_IRQ
<1> QED
  BY <1>2, <1>5, <1>6, <1>9

LEMMA PowersDown == ASSUME IInv, NEW n \in 0..Len(dpm_list), device_power_down(n) PROVE IInv'
<1> USE DEF IInv, StatusInv
<1>1. /\ pc = "suspended" /\ error = "none" /\ dev = {} /\ dev' = {}
      /\ list = <<>> /\ UNCHANGED <<dpm_list, list>> /\ pc' \in {"suspended", "asleep"}
  BY DEF device_power_down, WalkInv, Rest, Calling
<1>2. /\ Lists' /\ TreeInv' /\ DepthFirst'
      /\ ToDo' = ToDo /\ Done' = Done /\ Registered' = Registered
  BY <1>1, ListsStay
<1>3. WalkInv'
  BY <1>1 DEF WalkInv, Rest, Calling
<1>4. Done = {} /\ Registered = ToDo
  BY <1>1 DEF Registered, ToDo, Done, ToSet
<1> DEFINE down == {dpm_list[i] : i \in (Len(dpm_list) - n + 1)..Len(dpm_list)}
<1>5. /\ IF n = Len(dpm_list)
         THEN /\ status' = [d \in Devices |-> IF d \in down THEN DPM_OFF_IRQ ELSE status[d]]
              /\ pc' = "asleep" /\ UNCHANGED error
         ELSE /\ status' = [d \in Devices |-> IF d \in down THEN DPM_OFF ELSE status[d]]
              /\ pc' = "suspended" /\ error' = "failed"
      /\ UNCHANGED <<transition_started, off, prepared>>
  BY DEF device_power_down
<1>6. n = Len(dpm_list) => down = ToDo
  <2>1. Len(dpm_list) \in Nat
    BY LenProperties DEF Lists
  <2>2. n = Len(dpm_list) => (Len(dpm_list) - n + 1)..Len(dpm_list) = 1..Len(dpm_list)
    BY <2>1
  <2> QED
    BY <2>2, LenProperties DEF Lists, ToDo, ToSet
<1> HIDE DEF down
<1>7. StatusInv'
  BY <1>1, <1>2, <1>4, <1>5, <1>6, InDevices DEF PlainType, StartedInv, PrepareInv, SuspendInv, ResumeInv,
     CompleteInv, Locked, Unlocked, DPM_ON, DPM_PREPARING, DPM_RESUMING, DPM_SUSPENDING, DPM_OFF, DPM_OFF_IRQ
<1> QED
  BY <1>2, <1>3, <1>7

LEMMA PowersUp == ASSUME IInv, device_power_up PROVE IInv'
<1> USE DEF IInv, StatusInv
<1>1. /\ pc = "asleep" /\ pc' = "suspended" /\ dev = {} /\ dev' = {}
      /\ list = <<>> /\ UNCHANGED <<dpm_list, list>>
  BY DEF device_power_up, WalkInv, Rest, Calling
<1>2. /\ Lists' /\ TreeInv' /\ DepthFirst'
      /\ ToDo' = ToDo /\ Done' = Done /\ Registered' = Registered
  BY <1>1, ListsStay
<1>3. WalkInv'
  BY <1>1 DEF WalkInv, Rest, Calling
<1>4. Done = {} /\ Registered = ToDo
  BY <1>1 DEF Registered, ToDo, Done, ToSet
<1>5. /\ status' = [d \in Devices |->
                     IF d \in Registered /\ status[d] > DPM_OFF THEN DPM_OFF ELSE status[d]]
      /\ error' = "woken" /\ UNCHANGED <<transition_started, off, prepared>>
  BY DEF device_power_up
<1>6. StatusInv'
  BY <1>1, <1>2, <1>4, <1>5, InDevices DEF PlainType, StartedInv, PrepareInv, SuspendInv, ResumeInv,
     CompleteInv, Locked, Unlocked, DPM_ON, DPM_PREPARING, DPM_RESUMING, DPM_SUSPENDING, DPM_OFF, DPM_OFF_IRQ
<1> QED
  BY <1>2, <1>3, <1>6
-----------------------------------------------------------------------------
(* dpm_resume                                                              *)

LEMMA ResumeStarts == ASSUME IInv, ResumeStart PROVE IInv'
<1> USE DEF IInv, StatusInv
<1>1. /\ pc \in {"prepared", "suspended"} /\ pc' = "resume" /\ dev = {} /\ dev' = {}
      /\ list = <<>> /\ UNCHANGED <<dpm_list, list>>
  BY DEF ResumeStart, WalkInv, Rest, Calling
<1>2. /\ Lists' /\ TreeInv' /\ DepthFirst'
      /\ ToDo' = ToDo /\ Done' = Done /\ Registered' = Registered
  BY <1>1, ListsStay
<1>3. WalkInv'
  BY <1>1 DEF WalkInv, Rest, Calling
<1>4. Done = {} /\ Registered = ToDo
  BY <1>1 DEF Registered, ToDo, Done, ToSet
<1>5. transition_started' = FALSE /\ UNCHANGED <<status, error, off, prepared>>
  BY <1>1 DEF ResumeStart
<1>6. PlainType' /\ StartedInv'
  BY <1>1, <1>5 DEF PlainType, StartedInv, Locked, Unlocked
<1>7. ResumeInv'
  <2>1. CASE pc = "prepared"
    <3>1. /\ off = {} /\ prepared = {d \in ToDo : status[d] = DPM_SUSPENDING}
          /\ \A d \in ToDo : status[d] \in {DPM_ON, DPM_SUSPENDING}
      BY <1>4, <2>1 DEF PrepareInv
    <3> QED
      BY <1>1, <1>2, <1>4, <1>5, <3>1 DEF ResumeInv, DPM_ON, DPM_PREPARING, DPM_RESUMING, DPM_SUSPENDING, DPM_OFF, DPM_OFF_IRQ
  <2>2. CASE pc = "suspended"
    <3>1. /\ off = {d \in ToDo : status[d] = DPM_OFF} /\ prepared = ToDo
          /\ \A d \in ToDo : status[d] \in {DPM_OFF, DPM_SUSPENDING}
      BY <1>4, <2>2 DEF SuspendInv
    <3> QED
      BY <1>1, <1>2, <1>4, <1>5, <3>1 DEF ResumeInv, DPM_ON, DPM_PREPARING, DPM_RESUMING, DPM_SUSPENDING, DPM_OFF, DPM_OFF_IRQ
  <2> QED
    BY <1>1, <2>1, <2>2
<1>8. PrepareInv' /\ SuspendInv' /\ CompleteInv'
  BY <1>1 DEF PrepareInv, SuspendInv, CompleteInv
<1> QED
  BY <1>2, <1>3, <1>6, <1>7, <1>8

LEMMA ResumeGoesOn == ASSUME IInv, ResumeNext PROVE IInv'
<1> USE DEF IInv, StatusInv
<1> DEFINE d == Head(dpm_list)
<1>1. /\ UNCHANGED <<dpm_list, list>> /\ pc = "resume" /\ pc' = "resuming" /\ dev = {} /\ dev' = {d}
      /\ d \in ToDo \ Done /\ d \in Devices
  BY Ends, InDevices DEF ResumeNext, WalkInv, Calling
<1>2. /\ Lists' /\ TreeInv' /\ DepthFirst'
      /\ ToDo' = ToDo /\ Done' = Done /\ Registered' = Registered
  BY <1>1, ListsStay DEF WholeList
<1>3. WalkInv'
  BY <1>1, <1>2 DEF WalkInv, Rest, Calling
<1>4. status[d] >= DPM_OFF
  BY DEF ResumeNext
<1> HIDE DEF d
<1>5. status' = [status EXCEPT ![d] = DPM_RESUMING] /\ UNCHANGED <<transition_started, error, off, prepared>>
  BY DEF ResumeNext, Sets, d
<1>6. Registered = ToDo \cup Done
  BY DEF Registered, ToDo, Done
<1>7. StatusInv'
  BY <1>1, <1>2, <1>4, <1>5, <1>6, InDevices DEF PlainType, StartedInv, PrepareInv, SuspendInv, ResumeInv,
     CompleteInv, Locked, Unlocked, DPM_ON, DPM_PREPARING, DPM_RESUMING, DPM_SUSPENDING, DPM_OFF, DPM_OFF_IRQ
<1> QED
  BY <1>2, <1>3, <1>7

LEMMA ResumeSkips == ASSUME IInv, ResumeSkip PROVE IInv'
<1> USE DEF IInv, StatusInv
<1> DEFINE d == Head(dpm_list)
<1>1. /\ pc = "resume" /\ pc' = "resume" /\ dev = {} /\ dev' = {}
      /\ d \in ToDo \ Done /\ d \in Devices
  BY Ends, InDevices DEF ResumeSkip, WalkInv, Calling
<1>2. /\ Lists'
      /\ ToDo' = ToDo \ {d} /\ Done' = Done \cup (ToDo \cap {d})
      /\ WholeList' = WholeList
  BY <1>1, MovesToTail DEF ResumeSkip, WholeList
<1>3. Registered' = Registered
  BY <1>2 DEF Registered, ToDo, Done
<1>4. TreeInv' /\ DepthFirst'
  BY <1>2, <1>3, OrderStays
<1>5. WalkInv'
  BY <1>1 DEF WalkInv, Rest, Calling
<1>6. /\ status[d] < DPM_OFF
      /\ IF status[d] = DPM_SUSPENDING THEN status' = [status EXCEPT ![d] = DPM_RESUMING]
         ELSE UNCHANGED status
      /\ UNCHANGED <<transition_started, error, off, prepared>>
  BY DEF ResumeSkip, Sets
<1> HIDE DEF d
<1>7. Registered = ToDo \cup Done
  BY DEF Registered, ToDo, Done
<1>8. StatusInv'
  BY <1>1, <1>2, <1>3, <1>6, <1>7, InDevices DEF PlainType, StartedInv, PrepareInv, SuspendInv, ResumeInv,
     CompleteInv, Locked, Unlocked, DPM_ON, DPM_PREPARING, DPM_RESUMING, DPM_SUSPENDING, DPM_OFF, DPM_OFF_IRQ
<1> QED
  BY <1>2, <1>4, <1>5, <1>8

LEMMA IsResumed == ASSUME IInv, NEW d, Resumed(d) PROVE IInv'
<1> USE DEF IInv, StatusInv
<1>1. /\ pc = "resuming" /\ pc' = "resume" /\ dev = {d} /\ dev' = {} /\ d \in Devices
      /\ d \notin Done
      /\ d \in ToDo => d = Head(dpm_list)
  BY DEF Resumed, WalkInv, Calling
<1>2. /\ Lists'
      /\ ToDo' = ToDo \ {d} /\ Done' = Done \cup (ToDo \cap {d})
      /\ WholeList' = WholeList
  <2>1. Lists /\ MoveToTail(d)
    BY DEF Resumed
  <2>2. /\ Lists'
        /\ ToDo' = ToDo \ {d} /\ Done' = Done \cup (ToDo \cap {d})
        /\ list' \o dpm_list' = list \o dpm_list
    BY <1>1, <2>1, MovesToTail
  <2> QED
    BY <1>1, <2>2 DEF WholeList
<1>3. Registered' = Registered
  BY <1>2 DEF Registered, ToDo, Done
<1>4. TreeInv' /\ DepthFirst'
  BY <1>2, <1>3, OrderStays
<1>5. WalkInv'
  BY <1>1 DEF WalkInv, Rest, Calling
<1>6. off' = off \ {d} /\ UNCHANGED <<status, transition_started, error, prepared>>
  BY DEF Resumed, Sets, Alive
<1>7. Registered = ToDo \cup Done
  BY DEF Registered, ToDo, Done
<1>8. StatusInv'
  BY <1>1, <1>2, <1>3, <1>6, <1>7, InDevices DEF PlainType, StartedInv, PrepareInv, SuspendInv, ResumeInv,
     CompleteInv, Locked, Unlocked, DPM_ON, DPM_PREPARING, DPM_RESUMING, DPM_SUSPENDING, DPM_OFF, DPM_OFF_IRQ
<1> QED
  BY <1>2, <1>4, <1>5, <1>8

LEMMA ResumeEnds == ASSUME IInv, ResumeEnd PROVE IInv'
<1> USE DEF IInv, StatusInv
<1>1. pc = "resume" /\ pc' = "resumed" /\ dev = {} /\ dev' = {} /\ dpm_list = <<>>
  BY DEF ResumeEnd, WalkInv, Calling
<1>2. Lists' /\ ToDo' = ToDo \cup Done /\ Done' = {} /\ dpm_list' = list \o dpm_list /\ list' = <<>>
  BY Splices DEF ResumeEnd
<1>3. Registered' = Registered /\ ToDo = {}
  BY <1>1, <1>2 DEF Registered, ToDo, Done, ToSet
<1>4. WholeList' = WholeList
  BY <1>1, <1>2, ConcatEmptySeq, NoDirection DEF WholeList, Lists
<1>5. TreeInv' /\ DepthFirst'
  BY <1>3, <1>4, OrderStays
<1>6. WalkInv'
  BY <1>1, <1>2 DEF WalkInv, Rest, Calling
<1>7. UNCHANGED <<status, transition_started, error, off, prepared>>
  BY DEF ResumeEnd
<1>8. Registered = ToDo \cup Done
  BY DEF Registered, ToDo, Done
<1>9. StatusInv'
  BY <1>1, <1>2, <1>3, <1>7, <1>8, InDevices DEF PlainType, StartedInv, PrepareInv, SuspendInv, ResumeInv,
     CompleteInv, Locked, Unlocked, DPM_ON, DPM_PREPARING, DPM_RESUMING, DPM_SUSPENDING, DPM_OFF, DPM_OFF_IRQ
<1> QED
  BY <1>2, <1>5, <1>6, <1>9
-----------------------------------------------------------------------------
(* dpm_complete                                                            *)

LEMMA CompleteStarts == ASSUME IInv, CompleteStart PROVE IInv'
<1> USE DEF IInv, StatusInv
<1>1. /\ pc \in {"resumed"} /\ pc' = "complete" /\ dev = {} /\ dev' = {}
      /\ list = <<>> /\ UNCHANGED <<dpm_list, list>>
  BY DEF CompleteStart, WalkInv, Rest, Calling
<1>2. /\ Lists' /\ TreeInv' /\ DepthFirst'
      /\ ToDo' = ToDo /\ Done' = Done /\ Registered' = Registered
  BY <1>1, ListsStay
<1>3. WalkInv'
  BY <1>1 DEF WalkInv, Rest, Calling
<1>4. Done = {} /\ Registered = ToDo
  BY <1>1 DEF Registered, ToDo, Done, ToSet
<1>5. UNCHANGED <<status, transition_started, error, off, prepared>>
  BY <1>1 DEF CompleteStart
<1>6. StatusInv'
  BY <1>1, <1>2, <1>4, <1>5, InDevices DEF PlainType, StartedInv, PrepareInv, SuspendInv, ResumeInv,
     CompleteInv, Locked, Unlocked, DPM_ON, DPM_PREPARING, DPM_RESUMING, DPM_SUSPENDING, DPM_OFF, DPM_OFF_IRQ
<1> QED
  BY <1>2, <1>3, <1>6

LEMMA CompleteGoesOn == ASSUME IInv, CompleteNext PROVE IInv'
<1> USE DEF IInv, StatusInv
<1> DEFINE d == Last(dpm_list)
<1>1. /\ UNCHANGED <<dpm_list, list>> /\ pc = "complete" /\ pc' = "completing" /\ dev = {} /\ dev' = {d}
      /\ d \in ToDo \ Done /\ d \in Devices
  BY Ends, InDevices DEF CompleteNext, WalkInv, Calling
<1>2. /\ Lists' /\ TreeInv' /\ DepthFirst'
      /\ ToDo' = ToDo /\ Done' = Done /\ Registered' = Registered
  BY <1>1, ListsStay DEF WholeList
<1>3. WalkInv'
  BY <1>1, <1>2 DEF WalkInv, Rest, Calling
<1>4. status[d] > DPM_ON
  BY DEF CompleteNext
<1> HIDE DEF d
<1>5. status' = [status EXCEPT ![d] = DPM_ON] /\ UNCHANGED <<transition_started, error, off, prepared>>
  BY DEF CompleteNext, Sets, d
<1>6. Registered = ToDo \cup Done
  BY DEF Registered, ToDo, Done
<1>7. StatusInv'
  BY <1>1, <1>2, <1>4, <1>5, <1>6, InDevices DEF PlainType, StartedInv, PrepareInv, SuspendInv, ResumeInv,
     CompleteInv, Locked, Unlocked, DPM_ON, DPM_PREPARING, DPM_RESUMING, DPM_SUSPENDING, DPM_OFF, DPM_OFF_IRQ
<1> QED
  BY <1>2, <1>3, <1>7

LEMMA CompleteSkips == ASSUME IInv, CompleteSkip PROVE IInv'
<1> USE DEF IInv, StatusInv
<1> DEFINE d == Last(dpm_list)
<1>1. /\ pc = "complete" /\ pc' = "complete" /\ dev = {} /\ dev' = {}
      /\ d \in ToDo \ Done /\ d \in Devices
  BY Ends, InDevices DEF CompleteSkip, WalkInv, Calling
<1>2. /\ Lists'
      /\ ToDo' = ToDo \ {d} /\ Done' = Done \cup (ToDo \cap {d})
      /\ WholeList' = WholeList
  BY <1>1, MovesToHead DEF CompleteSkip, WholeList
<1>3. Registered' = Registered
  BY <1>2 DEF Registered, ToDo, Done
<1>4. TreeInv' /\ DepthFirst'
  BY <1>2, <1>3, OrderStays
<1>5. WalkInv'
  BY <1>1 DEF WalkInv, Rest, Calling
<1>6. /\ status[d] = DPM_ON /\ UNCHANGED status
      /\ UNCHANGED <<transition_started, error, off, prepared>>
  BY DEF CompleteSkip, Sets
<1> HIDE DEF d
<1>7. Registered = ToDo \cup Done
  BY DEF Registered, ToDo, Done
<1>8. StatusInv'
  BY <1>1, <1>2, <1>3, <1>6, <1>7, InDevices DEF PlainType, StartedInv, PrepareInv, SuspendInv, ResumeInv,
     CompleteInv, Locked, Unlocked, DPM_ON, DPM_PREPARING, DPM_RESUMING, DPM_SUSPENDING, DPM_OFF, DPM_OFF_IRQ
<1> QED
  BY <1>2, <1>4, <1>5, <1>8

LEMMA IsCompleted == ASSUME IInv, NEW d, Completed(d) PROVE IInv'
<1> USE DEF IInv, StatusInv
<1>1. /\ pc = "completing" /\ pc' = "complete" /\ dev = {d} /\ dev' = {} /\ d \in Devices
      /\ d \notin Done
      /\ d \in ToDo => d = Last(dpm_list)
  BY DEF Completed, WalkInv, Calling
<1>2. /\ Lists'
      /\ ToDo' = ToDo \ {d} /\ Done' = Done \cup (ToDo \cap {d})
      /\ WholeList' = WholeList
  <2>1. Lists /\ MoveToHead(d)
    BY DEF Completed
  <2>2. /\ Lists'
        /\ ToDo' = ToDo \ {d} /\ Done' = Done \cup (ToDo \cap {d})
        /\ dpm_list' \o list' = dpm_list \o list
    BY <1>1, <2>1, MovesToHead
  <2> QED
    BY <1>1, <2>2 DEF WholeList
<1>3. Registered' = Registered
  BY <1>2 DEF Registered, ToDo, Done
<1>4. TreeInv' /\ DepthFirst'
  BY <1>2, <1>3, OrderStays
<1>5. WalkInv'
  BY <1>1 DEF WalkInv, Rest, Calling
<1>6. prepared' = prepared \ {d} /\ UNCHANGED <<status, transition_started, error, off>>
  BY DEF Completed, Sets, Alive
<1>7. Registered = ToDo \cup Done
  BY DEF Registered, ToDo, Done
<1>8. StatusInv'
  BY <1>1, <1>2, <1>3, <1>6, <1>7, InDevices DEF PlainType, StartedInv, PrepareInv, SuspendInv, ResumeInv,
     CompleteInv, Locked, Unlocked, DPM_ON, DPM_PREPARING, DPM_RESUMING, DPM_SUSPENDING, DPM_OFF, DPM_OFF_IRQ
<1> QED
  BY <1>2, <1>4, <1>5, <1>8

LEMMA CompleteEnds == ASSUME IInv, CompleteEnd PROVE IInv'
<1> USE DEF IInv, StatusInv
<1>1. pc = "complete" /\ pc' = "idle" /\ dev = {} /\ dev' = {} /\ dpm_list = <<>>
  BY DEF CompleteEnd, WalkInv, Calling
<1>2. Lists' /\ ToDo' = ToDo \cup Done /\ Done' = {} /\ dpm_list' = list \o dpm_list /\ list' = <<>>
  BY Splices DEF CompleteEnd
<1>3. Registered' = Registered /\ ToDo = {}
  BY <1>1, <1>2 DEF Registered, ToDo, Done, ToSet
<1>4. WholeList' = WholeList
  BY <1>1, <1>2, ConcatEmptySeq, NoDirection DEF WholeList, Lists
<1>5. TreeInv' /\ DepthFirst'
  BY <1>3, <1>4, OrderStays
<1>6. WalkInv'
  BY <1>1, <1>2 DEF WalkInv, Rest, Calling
<1>7. UNCHANGED <<status, transition_started, error, off, prepared>>
  BY DEF CompleteEnd
<1>8. Registered = ToDo \cup Done
  BY DEF Registered, ToDo, Done
<1>9. StatusInv'
  BY <1>1, <1>2, <1>3, <1>7, <1>8, InDevices DEF PlainType, StartedInv, PrepareInv, SuspendInv, ResumeInv,
     CompleteInv, Locked, Unlocked, DPM_ON, DPM_PREPARING, DPM_RESUMING, DPM_SUSPENDING, DPM_OFF, DPM_OFF_IRQ
<1> QED
  BY <1>2, <1>5, <1>6, <1>9
-----------------------------------------------------------------------------
(* Registration and removal.                                               *)

Ordered(s) == \A i, j \in DOMAIN s : Parent[s[j]] = {s[i]} => i < j

LEMMA AppendOrdered ==
    ASSUME NEW s \in Seq(Devices), Ordered(s), NEW d \in Devices, d \notin Parent[d],
           \A c \in ToSet(s) : d \notin Parent[c]
    PROVE  Ordered(Append(s, d))
<1> DEFINE t == Append(s, d)
<1>1. /\ Len(s) \in Nat /\ DOMAIN t = 1..Len(s) + 1 /\ DOMAIN s = 1..Len(s)
      /\ \A i \in 1..Len(s) : t[i] = s[i]
      /\ t[Len(s) + 1] = d
  BY AppendProperties
<1> HIDE DEF t
<1> SUFFICES ASSUME NEW i \in DOMAIN t, NEW j \in DOMAIN t, Parent[t[j]] = {t[i]}
             PROVE  i < j
  BY DEF Ordered, t
<1>2. CASE i = Len(s) + 1
  <2>1. d \in Parent[t[j]]
    BY <1>1, <1>2
  <2>2. CASE j = Len(s) + 1
    BY <1>1, <2>1, <2>2
  <2>3. CASE j # Len(s) + 1
    <3>1. j \in 1..Len(s) /\ t[j] = s[j]
      BY <1>1, <2>3
    <3>2. t[j] \in ToSet(s)
      BY <3>1, ToSetIs
    <3> QED
      BY <2>1, <3>2
  <2> QED
    BY <2>2, <2>3
<1>3. CASE i # Len(s) + 1 /\ j = Len(s) + 1
  BY <1>1, <1>3
<1>4. CASE i # Len(s) + 1 /\ j # Len(s) + 1
  <2>1. i \in DOMAIN s /\ j \in DOMAIN s /\ t[i] = s[i] /\ t[j] = s[j]
    BY <1>1, <1>4
  <2> QED
    BY <2>1 DEF Ordered
<1> QED
  BY <1>2, <1>3, <1>4

LEMMA WithoutOrdered ==
    ASSUME NEW s \in Seq(Devices), IsInjective(s), Ordered(s), NEW d
    PROVE  Ordered(Without(s, d))
<1>1. CASE d \notin ToSet(s)
  BY <1>1, WithoutNone
<1>2. CASE d \in ToSet(s)
  <2>1. PICK p \in 1..Len(s) : s[p] = d
    BY <1>2, ToSetIs
  <2> DEFINE t == RemoveAt(s, p)
             at(k) == IF k < p THEN k ELSE k + 1
  <2>2. Without(s, d) = t
    BY <2>1, WithoutIs
  <2>3. /\ Len(s) \in Nat /\ DOMAIN t = 1..Len(s) - 1 /\ DOMAIN s = 1..Len(s)
        /\ \A i \in 1..Len(s) - 1 : t[i] = IF i < p THEN s[i] ELSE s[i + 1]
    <3>1. /\ t \in Seq(Devices) /\ Len(t) = Len(s) - 1
          /\ \A i \in 1..Len(s) - 1 : t[i] = IF i < p THEN s[i] ELSE s[i + 1]
      BY RemoveAtIs
    <3> HIDE DEF t
    <3> QED
      BY <3>1, LenProperties
  <2> HIDE DEF t
  <2> SUFFICES ASSUME NEW i \in DOMAIN t, NEW j \in DOMAIN t, Parent[t[j]] = {t[i]}
               PROVE  i < j
    BY <2>2 DEF Ordered
  <2>4. /\ at(i) \in DOMAIN s /\ at(j) \in DOMAIN s /\ t[i] = s[at(i)] /\ t[j] = s[at(j)]
        /\ i \in Int /\ j \in Int
    BY <2>3
  <2>5. at(i) < at(j)
    BY <2>4 DEF Ordered
  <2> QED
    BY <2>4, <2>5
<1> QED
  BY <1>1, <1>2

LEMMA HeadStays ==
    ASSUME Lists, NEW d, dpm_list # <<>>, Head(dpm_list) # d
    PROVE  Head(Without(dpm_list, d)) = Head(dpm_list)
<1> DEFINE h == Head(dpm_list)
           r == Without(dpm_list, h)
<1>1. dpm_list = <<h>> \o r /\ h \in Devices
  BY HeadFirst, InDevices DEF Lists, ToDo
<1>2. r \in Seq(Devices) /\ IsInjective(r)
  BY WithoutKeeps DEF Lists
<1>0. h # d
  OBVIOUS
<1> HIDE DEF h, r
<1>3. <<h>> \in Seq(Devices) /\ ToSet(<<h>>) = {h}
  BY <1>1, SingleIs
<1>4. Without(dpm_list, d) = Without(<<h>>, d) \o Without(r, d)
  <2> DEFINE g == <<h>>
  <2>1. g \in Seq(Devices) /\ IsInjective(g \o r) /\ dpm_list = g \o r
    BY <1>1, <1>3 DEF Lists
  <2> HIDE DEF g
  <2>2. Without(g, d) \o Without(r, d) = Without(g \o r, d)
    BY <1>2, <2>1, WithoutConcat
  <2> QED
    BY <2>1, <2>2 DEF g
<1>5. Without(<<h>>, d) = <<h>>
  BY <1>0, <1>3, WithoutNone
<1>6. Without(r, d) \in Seq(Devices)
  BY <1>2, WithoutKeeps
<1>7. Head(<<h>> \o Without(r, d)) = h
  <2> DEFINE w == Without(r, d)
  <2>1. w \in Seq(Devices)
    BY <1>6
  <2> HIDE DEF w
  <2>2. /\ <<h>> \o w \in Seq(Devices) /\ Len(<<h>> \o w) = 1 + Len(w)
        /\ (<<h>> \o w)[1] = h
    <3>1. <<h>> \in Seq(Devices) /\ Len(<<h>>) = 1 /\ <<h>>[1] = h
      BY <1>3
    <3> QED
      BY <2>1, <3>1, ConcatProperties
  <2>3. <<h>> \o w # <<>>
    BY <2>1, <2>2, EmptySeq
  <2> QED
    BY <2>2, <2>3, TailIs DEF w
<1> QED
  BY <1>4, <1>5, <1>7 DEF h

LEMMA LastStays ==
    ASSUME Lists, NEW d, dpm_list # <<>>, Last(dpm_list) # d
    PROVE  Last(Without(dpm_list, d)) = Last(dpm_list)
<1> DEFINE l == Last(dpm_list)
           r == Without(dpm_list, l)
<1>1. dpm_list = r \o <<l>> /\ l \in Devices
  BY LastLast, InDevices DEF Lists, ToDo
<1>2. r \in Seq(Devices) /\ IsInjective(r)
  BY WithoutKeeps DEF Lists
<1>0. l # d
  OBVIOUS
<1> HIDE DEF l, r
<1>3. <<l>> \in Seq(Devices) /\ ToSet(<<l>>) = {l}
  BY <1>1, SingleIs
<1>4. Without(dpm_list, d) = Without(r, d) \o Without(<<l>>, d)
  <2> DEFINE g == <<l>>
  <2>1. g \in Seq(Devices) /\ IsInjective(r \o g) /\ dpm_list = r \o g
    BY <1>1, <1>3 DEF Lists
  <2> HIDE DEF g
  <2>2. Without(r, d) \o Without(g, d) = Without(r \o g, d)
    BY <1>2, <2>1, WithoutConcat
  <2> QED
    BY <2>1, <2>2 DEF g
<1>5. Without(<<l>>, d) = <<l>>
  BY <1>0, <1>3, WithoutNone
<1>6. Without(r, d) \in Seq(Devices)
  BY <1>2, WithoutKeeps
<1>7. Last(Without(r, d) \o <<l>>) = l
  <2> DEFINE w == Without(r, d)
  <2>1. w \in Seq(Devices) /\ Len(w) \in Nat
    BY <1>6, LenProperties
  <2> HIDE DEF w
  <2>2. Len(w \o <<l>>) = Len(w) + 1 /\ (w \o <<l>>)[Len(w) + 1] = l
    <3>1. <<l>> \in Seq(Devices) /\ Len(<<l>>) = 1 /\ <<l>>[1] = l
      BY <1>3
    <3> QED
      BY <2>1, <3>1, ConcatProperties
  <2> QED
    BY <2>2 DEF Last, w
<1> QED
  BY <1>4, <1>5, <1>7 DEF l
LEMMA WholeIs ==
    ASSUME Lists
    PROVE  /\ WholeList \in Seq(Devices) /\ IsInjective(WholeList)
           /\ ToSet(WholeList) = Registered
<1>1. dpm_list \o list \in Seq(Devices) /\ list \o dpm_list \in Seq(Devices)
  BY ConcatProperties DEF Lists
<1>2. /\ IsInjective(dpm_list \o list) /\ ToSet(dpm_list \o list) = Registered
      /\ IsInjective(list \o dpm_list) /\ ToSet(list \o dpm_list) = Registered
  BY ConcatKeeps DEF Lists, ToDo, Done, Registered
<1> QED
  BY <1>1, <1>2 DEF WholeList

LEMMA DepthFirstIs == DepthFirst <=> Ordered(WholeList)
  BY DEF DepthFirst, Ordered

(* What the proofs assume of the thread that registers devices: it does    *)
(* what the warning of device_pm_add asks for, and nothing during          *)
(* dpm_complete, where the order of the list would be lost.                *)
Heeds == Careful /\ "completing" \notin RegisterAt

LEMMA Adds ==
    ASSUME IInv, Heeds, NEW d \in Devices, device_pm_add(d)
    PROVE  IInv'
<1> USE DEF IInv, StatusInv
<1>1. /\ d \notin Registered \cup dev /\ Parent[d] \subseteq Registered
      /\ dpm_list' = Append(dpm_list, d)
      /\ status' = [status EXCEPT ![d] = DPM_ON]
      /\ UNCHANGED <<list, transition_started, pc, dev, error, off, prepared>>
  BY DEF device_pm_add, MayRegister
<1>2. pc \in {"idle", "preparing", "prepared", "resuming", "resumed"} /\ (pc = "prepared" => error # "none")
  <2>1. pc \in Unlocked \ {"completing"}
    BY RegisterAtAssumption DEF device_pm_add, Heeds
  <2>2. \/ ~transition_started
        \/ \E p \in Registered : status[p] < DPM_SUSPENDING
    BY <1>1, ParentAssumption DEF device_pm_add, MayRegister, Heeds
  <2>3. pc \notin {"suspending", "suspended"}
    BY <2>2 DEF StartedInv, SuspendInv, Registered, ToDo, Done, DPM_SUSPENDING, DPM_OFF
  <2>4. ~(pc = "prepared" /\ error = "none")
    <3> SUFFICES ASSUME pc = "prepared", error = "none" PROVE FALSE
      OBVIOUS
    <3>1. \A p \in Registered : status[p] = DPM_SUSPENDING
      BY DEF PrepareInv
    <3> QED
      BY <2>2, <3>1 DEF StartedInv, DPM_SUSPENDING
  <2> QED
    BY <2>1, <2>3, <2>4 DEF Unlocked
<1>3. /\ Lists' /\ ToDo' = ToDo \cup {d} /\ Done' = Done
      /\ WholeList' = Append(WholeList, d)
  <2> DEFINE g == <<d>>
  <2>1. g \in Seq(Devices) /\ ToSet(g) = {d} /\ IsInjective(g)
    BY SingleIs
  <2>2. dpm_list \in Seq(Devices) /\ list \in Seq(Devices) /\ d \notin ToDo /\ d \notin Done
    BY <1>1 DEF Lists, Registered, ToDo, Done
  <2>3. Append(dpm_list, d) = dpm_list \o g /\ Append(WholeList, d) = WholeList \o g
    BY <2>2, WholeIs, AppendIsConcat
  <2> HIDE DEF g
  <2>4. dpm_list \o g \in Seq(Devices)
    BY <2>1, <2>2, ConcatProperties
  <2>5. ToSet(dpm_list \o g) = ToDo \cup {d} /\ IsInjective(dpm_list \o g)
    BY <2>1, <2>2, ConcatKeeps DEF Lists, ToDo
  <2>6. Lists' /\ ToDo' = ToDo \cup {d} /\ Done' = Done
    BY <1>1, <2>2, <2>3, <2>4, <2>5 DEF Lists, ToDo, Done
  <2>7. WholeList' = WholeList \o g
    <3>1. CASE pc \in {"preparing", "resuming"}
      <4>1. list \o (dpm_list \o g) = (list \o dpm_list) \o g
        BY <2>1, <2>2, ConcatAssociative
      <4> QED
        BY <1>1, <2>3, <3>1, <4>1 DEF WholeList
    <3>2. CASE pc \in {"idle", "prepared", "resumed"}
      <4>1. list = <<>>
        BY <3>2 DEF WalkInv, Rest
      <4>2. dpm_list \o list = dpm_list /\ (dpm_list \o g) \o list = dpm_list \o g
        BY <2>2, <2>4, <4>1, ConcatEmptySeq
      <4> QED
        BY <1>1, <2>3, <3>2, <4>2 DEF WholeList
    <3> QED
      BY <1>2, <3>1, <3>2
  <2> QED
    BY <2>3, <2>6, <2>7
<1>4. Registered' = Registered \cup {d}
  BY <1>3 DEF Registered, ToDo, Done
<1>5. TreeInv'
  BY <1>1, <1>4 DEF TreeInv
<1>6. DepthFirst'
  <2>1. WholeList \in Seq(Devices) /\ Ordered(WholeList)
    BY WholeIs, DepthFirstIs
  <2>2. d \notin Parent[d] /\ \A c \in ToSet(WholeList) : d \notin Parent[c]
    BY <1>1, WholeIs DEF TreeInv
  <2>3. Ordered(Append(WholeList, d))
    BY <2>1, <2>2, AppendOrdered
  <2> QED
    BY <1>3, <2>3 DEF DepthFirst, Ordered
<1>7. WalkInv'
  <2>1. ASSUME pc \in {"preparing", "resuming"}, NEW e \in dev' \cap ToDo'
        PROVE  e = Head(dpm_list')
    <3>1. e \in dev \cap ToDo
      BY <1>1, <1>3, <2>1
    <3>2. e = Head(dpm_list)
      BY <2>1, <3>1 DEF WalkInv
    <3>3. dpm_list # <<>>
      BY <3>1 DEF ToDo, ToSet
    <3>4. Head(Append(dpm_list, d)) = Head(dpm_list)
      <4>1. /\ Append(dpm_list, d) \in Seq(Devices) /\ Append(dpm_list, d) # <<>>
            /\ Len(dpm_list) \in Nat /\ Len(dpm_list) # 0
            /\ \A i \in 1..Len(dpm_list) : Append(dpm_list, d)[i] = dpm_list[i]
        BY <3>3, AppendProperties, EmptySeq, LenProperties DEF Lists
      <4>2. Head(Append(dpm_list, d)) = Append(dpm_list, d)[1] /\ Head(dpm_list) = dpm_list[1]
        BY <3>3, <4>1, TailIs DEF Lists
      <4>3. 1 \in 1..Len(dpm_list)
        BY <4>1
      <4> QED
        BY <4>1, <4>2, <4>3
    <3> QED
      BY <1>1, <3>2, <3>4
  <2> QED
    BY <1>1, <1>2, <1>3, <2>1 DEF WalkInv, Rest, Calling
<1>8. Registered = ToDo \cup Done
  BY DEF Registered, ToDo, Done
<1>9. StatusInv'
  BY <1>1, <1>2, <1>3, <1>8, InDevices DEF PlainType, StartedInv, PrepareInv, SuspendInv, ResumeInv,
     CompleteInv, Registered, ToDo, Done, Locked, Unlocked, DPM_ON, DPM_PREPARING, DPM_RESUMING, DPM_SUSPENDING, DPM_OFF, DPM_OFF_IRQ
<1> QED
  BY <1>3, <1>5, <1>6, <1>7, <1>9

LEMMA Removes == ASSUME IInv, NEW d \in Devices, device_pm_remove(d) PROVE IInv'
<1> USE DEF IInv, StatusInv
<1>1. /\ d \in Registered /\ Children(d) = {}
      /\ dpm_list' = Without(dpm_list, d) /\ list' = Without(list, d)
      /\ off' = off \ {d} /\ prepared' = prepared \ {d}
      /\ UNCHANGED <<status, transition_started, pc, dev, error>>
  BY DEF device_pm_remove
<1>2. /\ Lists' /\ ToDo' = ToDo \ {d} /\ Done' = Done \ {d}
  BY <1>1, WithoutKeeps DEF Lists, ToDo, Done
<1>3. Registered' = Registered \ {d} /\ Registered = ToDo \cup Done
  BY <1>2 DEF Registered, ToDo, Done
<1>4. TreeInv'
  <2> SUFFICES ASSUME NEW c \in Registered \ {d}, NEW p \in Parent[c] PROVE p \in Registered \ {d}
    BY <1>3 DEF TreeInv
  <2>1. c \in Devices
    BY <1>3, InDevices
  <2>2. Parent[c] = {p}
    BY <2>1, ParentAssumption
  <2> QED
    BY <1>1, <2>2 DEF TreeInv, Children
<1>5. DepthFirst'
  <2>1. WholeList' = Without(WholeList, d)
    <3>1. dpm_list \in Seq(Devices) /\ list \in Seq(Devices) /\ IsInjective(WholeList)
      BY WholeIs DEF Lists
    <3>2. CASE pc \in {"prepare", "preparing", "resume", "resuming"}
      <4>1. WholeList = list \o dpm_list /\ WholeList' = Without(list, d) \o Without(dpm_list, d)
        BY <1>1, <3>2 DEF WholeList
      <4>2. Without(list, d) \o Without(dpm_list, d) = Without(list \o dpm_list, d)
        BY <3>1, <4>1, WithoutConcat
      <4> QED
        BY <4>1, <4>2
    <3>3. CASE pc \notin {"prepare", "preparing", "resume", "resuming"}
      <4>1. WholeList = dpm_list \o list /\ WholeList' = Without(dpm_list, d) \o Without(list, d)
        BY <1>1, <3>3 DEF WholeList
      <4>2. Without(dpm_list, d) \o Without(list, d) = Without(dpm_list \o list, d)
        BY <3>1, <4>1, WithoutConcat
      <4> QED
        BY <4>1, <4>2
    <3> QED
      BY <3>2, <3>3
  <2>2. Ordered(Without(WholeList, d))
    BY WholeIs, DepthFirstIs, WithoutOrdered
  <2> QED
    BY <2>1, <2>2 DEF DepthFirst, Ordered
<1>6. WalkInv'
  <2>1. list = <<>> => list' = <<>>
    BY <1>1 DEF Without, ToSet
  <2>2. ASSUME NEW e \in dev' \cap ToDo'
        PROVE  /\ pc \in {"preparing", "resuming"} => e = Head(dpm_list')
               /\ pc \in {"suspending", "completing"} => e = Last(dpm_list')
    <3>1. e \in dev \cap ToDo /\ e # d
      BY <1>1, <1>2
    <3>2. dpm_list # <<>>
      BY <3>1 DEF ToDo, ToSet
    <3>3. CASE pc \in {"preparing", "resuming"}
      <4>1. e = Head(dpm_list)
        BY <3>1, <3>3 DEF WalkInv
      <4> QED
        BY <1>1, <3>1, <3>2, <3>3, <4>1, HeadStays
    <3>4. CASE pc \in {"suspending", "completing"}
      <4>1. e = Last(dpm_list)
        BY <3>1, <3>4 DEF WalkInv
      <4> QED
        BY <1>1, <3>1, <3>2, <3>4, <4>1, LastStays
    <3> QED
      BY <3>3, <3>4
  <2> QED
    BY <1>1, <1>2, <2>1, <2>2 DEF WalkInv, Rest, Calling
<1>7. StatusInv'
  <2>1. PlainType' /\ StartedInv'
    BY <1>1 DEF PlainType, StartedInv
  <2>2. PrepareInv'
    BY <1>1, <1>2, <1>3 DEF PrepareInv
  <2>3. SuspendInv'
    BY <1>1, <1>2, <1>3 DEF SuspendInv
  <2>4. ResumeInv'
    BY <1>1, <1>2, <1>3 DEF ResumeInv
  <2>5. CompleteInv'
    BY <1>1, <1>2, <1>3 DEF CompleteInv
  <2> QED
    BY <2>1, <2>2, <2>3, <2>4, <2>5
<1> QED
  BY <1>2, <1>4, <1>5, <1>6, <1>7
-----------------------------------------------------------------------------
(* The theorems.                                                           *)

LEMMA Starts == Init => IInv
<1> SUFFICES ASSUME Init PROVE IInv
  OBVIOUS
<1>1. dpm_list = <<>> /\ list = <<>> /\ ToDo = {} /\ Done = {} /\ Registered = {}
  BY DEF Init, ToDo, Done, ToSet, Registered
<1>2. Lists
  BY <1>1 DEF Lists, IsInjective
<1>3. WalkInv
  BY <1>1 DEF Init, WalkInv, Rest, Calling
<1>4. TreeInv
  BY <1>1 DEF TreeInv
<1>5. DepthFirst
  <2>1. Ordered(WholeList)
    BY <1>2, <1>1, WholeIs, ToSetIs DEF Ordered
  <2> QED
    BY <2>1, DepthFirstIs
<1>6. StatusInv
  <2>1. PlainType
    BY DEF Init, PlainType, Unlocked, DPM_ON, DPM_PREPARING, DPM_RESUMING, DPM_SUSPENDING, DPM_OFF, DPM_OFF_IRQ
  <2>2. StartedInv
    BY DEF Init, StartedInv
  <2>3. PrepareInv /\ SuspendInv /\ ResumeInv /\ CompleteInv
    BY <1>1 DEF Init, PrepareInv, SuspendInv, ResumeInv, CompleteInv
  <2> QED
    BY <2>1, <2>2, <2>3 DEF StatusInv
<1> QED
  BY <1>2, <1>3, <1>4, <1>5, <1>6 DEF IInv

LEMMA Stutters == ASSUME IInv, UNCHANGED vars PROVE IInv'
<1>1. UNCHANGED <<dpm_list, list, status, transition_started, pc, dev, error, off, prepared>>
  BY DEF vars
<1>2. Lists' /\ WalkInv' /\ TreeInv' /\ DepthFirst'
  BY <1>1 DEF IInv, Lists, WalkInv, TreeInv, DepthFirst, WholeList, Registered, ToDo, Done
<1>3. StatusInv'
  BY <1>1 DEF IInv, StatusInv, PlainType, StartedInv, PrepareInv, SuspendInv, ResumeInv, CompleteInv,
     Registered, ToDo, Done
<1> QED
  BY <1>2, <1>3 DEF IInv

LEMMA StepsKeep == ASSUME IInv, Heeds, [Next]_vars PROVE IInv'
<1>1. ASSUME NEW d \in Devices, device_pm_add(d) \/ device_pm_remove(d) PROVE IInv'
  BY <1>1, Adds, Removes
<1>2. CASE dpm_prepare
  BY <1>2, PrepareStarts, PrepareGoesOn, Prepared, PreparedAgain, PrepareFailed, PrepareEnds DEF dpm_prepare
<1>3. CASE dpm_suspend
  BY <1>3, SuspendStarts, SuspendGoesOn, Suspended, SuspendFailed, SuspendEnds DEF dpm_suspend
<1>4. CASE \E n \in 0..Len(dpm_list) : device_power_down(n)
  BY <1>4, PowersDown
<1>5. CASE device_power_up
  BY <1>5, PowersUp
<1>6. CASE dpm_resume
  BY <1>6, ResumeStarts, ResumeGoesOn, ResumeSkips, IsResumed, ResumeEnds DEF dpm_resume
<1>7. CASE dpm_complete
  BY <1>7, CompleteStarts, CompleteGoesOn, CompleteSkips, IsCompleted, CompleteEnds DEF dpm_complete
<1> QED
  BY <1>1, <1>2, <1>3, <1>4, <1>5, <1>6, <1>7, Stutters DEF Next

(* The walks, the tree and the status of every device fit together in      *)
(* every reachable state.                                                  *)
THEOREM Invariant == ASSUME Heeds PROVE Spec => []IInv
<1>1. IInv /\ [Next]_vars => IInv'
  BY StepsKeep
<1> QED
  BY <1>1, Starts, PTL DEF Spec

(* Every variable keeps its type, and no device is on the lists twice.     *)
THEOREM TypeCorrect == ASSUME Heeds PROVE Spec => []TypeOK
<1>1. IInv => TypeOK
  <2> SUFFICES ASSUME IInv PROVE TypeOK
    OBVIOUS
  <2>1. IsInjective(dpm_list \o list)
    BY ConcatKeeps DEF IInv, Lists, ToDo, Done
  <2>2. dev \in SUBSET Devices /\ transition_started \in BOOLEAN
    BY DEF IInv, StatusInv, WalkInv, StartedInv
  <2>3. off \subseteq Registered /\ prepared \subseteq Registered
    BY DEF IInv, StatusInv, PlainType, PrepareInv, SuspendInv, ResumeInv, CompleteInv, Registered, ToDo, Done,
       Locked, Unlocked
  <2> QED
    BY <2>1, <2>2, <2>3 DEF TypeOK, IInv, Lists, StatusInv, PlainType
<1> QED
  BY <1>1, Invariant, PTL

(* main.c:31: a device is on the list after its parent, also in the middle *)
(* of a walk during which devices leave, or come in the way Heeds allows.  *)
THEOREM OrderKept == ASSUME Heeds PROVE Spec => []DepthFirst
<1>1. IInv => DepthFirst
  BY DEF IInv
<1> QED
  BY <1>1, Invariant, PTL

(* Only a prepared device is suspended, only a suspended one resumed.      *)
THEOREM CallsAlwaysPaired == ASSUME Heeds PROVE Spec => []CallsPaired
<1>1. IInv => CallsPaired
  <2> SUFFICES ASSUME IInv PROVE CallsPaired
    OBVIOUS
  <2>1. dev \cap Done = {} /\ Registered = ToDo \cup Done
    BY DEF IInv, WalkInv, Registered, ToDo, Done
  <2> QED
    BY <2>1 DEF IInv, StatusInv, SuspendInv, ResumeInv, CallsPaired
<1> QED
  BY <1>1, Invariant, PTL

(* The system sleeps only with every registered device suspended.          *)
THEOREM SleepsAllOff == ASSUME Heeds PROVE Spec => []AllOff
<1>1. IInv => AllOff
  BY DEF IInv, StatusInv, SuspendInv, AllOff
<1> QED
  BY <1>1, Invariant, PTL

(* After a suspend, also one that failed half way, no device is left       *)
(* suspended or prepared.                                                  *)
THEOREM AllBack == ASSUME Heeds PROVE Spec => []NothingLeftOff
<1>1. IInv => NothingLeftOff
  BY DEF IInv, StatusInv, CompleteInv, NothingLeftOff
<1> QED
  BY <1>1, Invariant, PTL

LEMMA LastHasNoChildren ==
    ASSUME IInv, pc = "suspend", dpm_list # <<>>
    PROVE  Children(Last(dpm_list)) \subseteq Done
<1> DEFINE n == Len(dpm_list)
<1>1. /\ n \in Nat \ {0} /\ Last(dpm_list) = dpm_list[n] /\ WholeList = dpm_list \o list
      /\ dpm_list \in Seq(Devices) /\ list \in Seq(Devices) /\ Len(list) \in Nat
  BY EmptySeq, LenProperties DEF IInv, Lists, Last, WholeList
<1>2. /\ DOMAIN WholeList = 1..n + Len(list)
      /\ \A i \in 1..n : WholeList[i] = dpm_list[i]
  BY <1>1, ConcatProperties
<1> SUFFICES ASSUME NEW c \in ToDo, Parent[c] = {dpm_list[n]} PROVE FALSE
  BY <1>1 DEF Children, Registered, ToDo, Done
<1>3. PICK j \in 1..n : dpm_list[j] = c
  BY <1>1, ToSetIs DEF ToDo
<1>4. n \in DOMAIN WholeList /\ j \in DOMAIN WholeList /\ WholeList[n] = dpm_list[n] /\ WholeList[j] = c
  BY <1>1, <1>2, <1>3
<1>5. n < j
  BY <1>4 DEF IInv, DepthFirst
<1> QED
  BY <1>1, <1>3, <1>5

LEMMA HeadHasNoParent ==
    ASSUME IInv, pc = "resume", dpm_list # <<>>
    PROVE  Parent[Head(dpm_list)] \cap ToDo = {}
<1> DEFINE n == Len(dpm_list)
           m == Len(list)
<1>1. /\ n \in Nat \ {0} /\ Head(dpm_list) = dpm_list[1] /\ WholeList = list \o dpm_list
      /\ dpm_list \in Seq(Devices) /\ list \in Seq(Devices) /\ m \in Nat
      /\ Head(dpm_list) \in Devices
  BY EmptySeq, LenProperties, TailIs DEF IInv, Lists, WholeList
<1>2. /\ DOMAIN WholeList = 1..m + n
      /\ \A i \in 1..m + n : WholeList[i] = IF i <= m THEN list[i] ELSE dpm_list[i - m]
  BY <1>1, ConcatProperties
<1> SUFFICES ASSUME NEW p \in ToDo, p \in Parent[dpm_list[1]] PROVE FALSE
  BY <1>1
<1>3. PICK k \in 1..n : dpm_list[k] = p
  BY <1>1, ToSetIs DEF ToDo
<1>4. Parent[dpm_list[1]] = {p}
  BY <1>1, ParentAssumption
<1>5. /\ m + k \in 1..m + n /\ ~(m + k <= m) /\ (m + k) - m = k
      /\ m + 1 \in 1..m + n /\ ~(m + 1 <= m) /\ (m + 1) - m = 1
  BY <1>1, <1>3
<1>6. WholeList[m + k] = p /\ WholeList[m + 1] = dpm_list[1]
  BY <1>2, <1>3, <1>5
<1>7. m + k < m + 1
  BY <1>2, <1>4, <1>5, <1>6 DEF IInv, DepthFirst
<1> QED
  BY <1>1, <1>3, <1>7

(* Children before their parents on the way down, parents first on the way *)
(* up, for every tree, whatever fails, goes, or comes as Heeds allows.     *)
THEOREM ChildrenFirst == ASSUME Heeds PROVE Spec => BottomUp
<1> DEFINE Step == \A d \in Devices : d \notin dev /\ d \in dev' =>
                      /\ pc' = "suspending" => Children(d) \subseteq off
                      /\ pc' = "resuming" => Parent[d] \cap off = {}
<1>1. IInv /\ [Next]_vars => [Step]_vars
  <2> SUFFICES ASSUME IInv, Next, NEW d \in Devices, d \notin dev, d \in dev'
               PROVE  /\ pc' = "suspending" => Children(d) \subseteq off
                      /\ pc' = "resuming" => Parent[d] \cap off = {}
    OBVIOUS
  <2>1. CASE PrepareNext
    BY <2>1 DEF PrepareNext
  <2>2. CASE SuspendNext
    <3>1. pc = "suspend" /\ dpm_list # <<>> /\ d = Last(dpm_list) /\ pc' = "suspending"
      BY <2>2 DEF SuspendNext
    <3>2. off = Done
      BY <3>1 DEF IInv, StatusInv, SuspendInv
    <3> QED
      BY <3>1, <3>2, LastHasNoChildren
  <2>3. CASE ResumeNext
    <3>1. pc = "resume" /\ dpm_list # <<>> /\ d = Head(dpm_list) /\ pc' = "resuming"
      BY <2>3 DEF ResumeNext
    <3>2. off \subseteq ToDo
      BY <3>1 DEF IInv, StatusInv, ResumeInv
    <3> QED
      BY <3>1, <3>2, HeadHasNoParent
  <2>4. CASE CompleteNext
    BY <2>4 DEF CompleteNext
  <2>5. dev' \subseteq dev \/ PrepareNext \/ SuspendNext \/ ResumeNext \/ CompleteNext
    <3>1. ASSUME NEW e \in Devices, device_pm_add(e) \/ device_pm_remove(e) PROVE dev' = dev
      BY <3>1 DEF device_pm_add, device_pm_remove
    <3>2. CASE dpm_prepare
      BY <3>2 DEF dpm_prepare, PrepareStart, PrepareSucceeds, PrepareAgain, PrepareFails, PrepareEnd
    <3>3. CASE dpm_suspend
      BY <3>3 DEF dpm_suspend, SuspendStart, SuspendSucceeds, SuspendFails, SuspendEnd
    <3>4. CASE \E n \in 0..Len(dpm_list) : device_power_down(n)
      BY <3>4 DEF device_power_down
    <3>5. CASE device_power_up
      BY <3>5 DEF device_power_up
    <3>6. CASE dpm_resume
      BY <3>6 DEF dpm_resume, ResumeStart, ResumeSkip, Resumed, ResumeEnd
    <3>7. CASE dpm_complete
      BY <3>7 DEF dpm_complete, CompleteStart, CompleteSkip, Completed, CompleteEnd
    <3> QED
      BY <3>1, <3>2, <3>3, <3>4, <3>5, <3>6, <3>7 DEF Next
  <2> QED
    BY <2>1, <2>2, <2>3, <2>4, <2>5
<1> QED
  BY <1>1, Invariant, PTL DEF Spec, BottomUp
=============================================================================
