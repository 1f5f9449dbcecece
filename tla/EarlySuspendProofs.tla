------------------------- MODULE EarlySuspendProofs -------------------------
(***************************************************************************)
(* Proofs about EarlySuspend for any handlers, levels and hooks.  The      *)
(* inductive invariant says where a walk over the handlers is: with t of n *)
(* handlers to go, the first n - t are off while they suspend, the first t *)
(* while they resume, and all or none of them otherwise.                   *)
(***************************************************************************)
EXTENDS EarlySuspend, SequenceTheorems, TLAPS

-----------------------------------------------------------------------------
(* What the operators on lists do, position by position.                   *)

LEMMA RemoveAtIs ==
    ASSUME NEW S, NEW s \in Seq(S), NEW p \in 1..Len(s)
    PROVE  /\ RemoveAt(s, p) \in Seq(S)
           /\ Len(RemoveAt(s, p)) = Len(s) - 1
           /\ \A i \in 1..Len(s) - 1 :
                 RemoveAt(s, p)[i] = IF i < p THEN s[i] ELSE s[i + 1]
<1> DEFINE a == SubSeq(s, 1, p - 1)
           c == SubSeq(s, p + 1, Len(s))
<1>1. /\ a \in Seq(S) /\ Len(a) = p - 1
      /\ \A i \in 1..p - 1 : a[i] = s[i]
  BY SubSeqProperties
<1>2. /\ c \in Seq(S) /\ Len(c) = Len(s) - p
      /\ \A i \in 1..Len(s) - p : c[i] = s[p + i]
  BY SubSeqProperties
<1>3. /\ a \o c \in Seq(S) /\ Len(a \o c) = Len(s) - 1
      /\ \A i \in 1..Len(s) - 1 : (a \o c)[i] = IF i < p THEN s[i] ELSE s[i + 1]
  <2> HIDE DEF a, c
  <2>0. a \in Seq(S) /\ c \in Seq(S)
    BY <1>1, <1>2
  <2>1. /\ a \o c \in Seq(S) /\ Len(a \o c) = Len(s) - 1
        /\ \A i \in 1..Len(a) + Len(c) :
              (a \o c)[i] = IF i <= Len(a) THEN a[i] ELSE c[i - Len(a)]
    <3>1. /\ a \o c \in Seq(S) /\ Len(a \o c) = Len(a) + Len(c)
          /\ \A i \in 1..Len(a) + Len(c) :
                (a \o c)[i] = IF i <= Len(a) THEN a[i] ELSE c[i - Len(a)]
      BY <2>0, ConcatProperties
    <3>2. Len(a) + Len(c) = Len(s) - 1
      BY <1>1, <1>2
    <3> QED
      BY <3>1, <3>2
  <2>2. ASSUME NEW i \in 1..Len(s) - 1, i < p
        PROVE  (a \o c)[i] = s[i]
    BY <1>1, <1>2, <2>1, <2>2
  <2>3. ASSUME NEW i \in 1..Len(s) - 1, i >= p
        PROVE  (a \o c)[i] = s[i + 1]
    <3>1. /\ ~(i <= Len(a)) /\ i \in 1..Len(a) + Len(c)
          /\ i - Len(a) \in 1..Len(s) - p
          /\ p + (i - Len(a)) = i + 1
      BY <1>1, <1>2, <2>3
    <3>2. (a \o c)[i] = c[i - Len(a)]
      BY <2>1, <3>1
    <3> QED
      BY <1>2, <3>1, <3>2
  <2> QED
    BY <2>1, <2>2, <2>3
<1> QED
  BY <1>3 DEF RemoveAt

LEMMA ToSetIs ==
    ASSUME NEW S, NEW s \in Seq(S)
    PROVE  /\ s \in Seq(ToSet(s))
           /\ ToSet(s) \subseteq S
           /\ \A e : e \in ToSet(s) <=> \E i \in 1..Len(s) : s[i] = e
<1>1. \A e : e \in ToSet(s) <=> \E i \in 1..Len(s) : s[i] = e
  BY DEF ToSet
<1>2. ToSet(s) \subseteq S
  BY <1>1
<1>3. s \in Seq(ToSet(s))
  BY <1>1, IsASeq
<1> QED
  BY <1>1, <1>2, <1>3

LEMMA TailIs ==
    ASSUME NEW S, NEW s \in Seq(S), s # <<>>
    PROVE  /\ Head(s) \in S /\ Head(s) = s[1]
           /\ Tail(s) \in Seq(S)
           /\ Len(Tail(s)) = Len(s) - 1
           /\ \A i \in 1..Len(s) - 1 : Tail(s)[i] = s[i + 1]
           /\ IsInjective(s) => IsInjective(Tail(s))
<1>1. /\ Head(s) \in S /\ Head(s) = s[1] /\ Tail(s) \in Seq(S)
      /\ Len(Tail(s)) = Len(s) - 1
      /\ \A i \in 1..Len(s) - 1 : Tail(s)[i] = s[i + 1]
  BY HeadTailProperties
<1>2. ASSUME IsInjective(s), NEW i \in 1..Len(s) - 1, NEW j \in 1..Len(s) - 1,
             Tail(s)[i] = Tail(s)[j]
      PROVE  i = j
  <2>1. s[i + 1] = s[j + 1]
    BY <1>1, <1>2
  <2> QED
    BY <1>2, <2>1 DEF IsInjective
<1>3. DOMAIN Tail(s) = 1..Len(s) - 1
  BY <1>1
<1> QED
  BY <1>1, <1>2, <1>3 DEF IsInjective

LEMMA InsertAtIs ==
    ASSUME NEW S, NEW s \in Seq(S), NEW p \in 1..Len(s) + 1, NEW e \in S
    PROVE  /\ InsertAt(s, p, e) \in Seq(S)
           /\ Len(InsertAt(s, p, e)) = Len(s) + 1
           /\ \A i \in 1..Len(s) + 1 :
                 InsertAt(s, p, e)[i] = IF i < p THEN s[i]
                                        ELSE IF i = p THEN e ELSE s[i - 1]
<1> DEFINE a == SubSeq(s, 1, p - 1)
           b == a \o <<e>>
           c == SubSeq(s, p, Len(s))
<1>1. /\ a \in Seq(S) /\ Len(a) = p - 1
      /\ \A i \in 1..p - 1 : a[i] = s[i]
  BY SubSeqProperties
<1>2. /\ c \in Seq(S) /\ Len(c) = Len(s) - p + 1
      /\ \A i \in 1..Len(s) - p + 1 : c[i] = s[p + i - 1]
  BY SubSeqProperties
<1>3. <<e>> \in Seq(S) /\ Len(<<e>>) = 1 /\ <<e>>[1] = e
  OBVIOUS
<1>4. /\ b \in Seq(S) /\ Len(b) = p
      /\ \A i \in 1..p : b[i] = IF i < p THEN s[i] ELSE e
  <2> HIDE DEF a
  <2> QED
    BY <1>1, <1>3, ConcatProperties
<1>5. /\ b \o c \in Seq(S) /\ Len(b \o c) = Len(s) + 1
      /\ \A i \in 1..Len(s) + 1 :
            (b \o c)[i] = IF i < p THEN s[i] ELSE IF i = p THEN e ELSE s[i - 1]
  <2> HIDE DEF b, c
  <2>1. /\ b \o c \in Seq(S) /\ Len(b \o c) = Len(s) + 1
        /\ \A i \in 1..Len(b) + Len(c) :
              (b \o c)[i] = IF i <= Len(b) THEN b[i] ELSE c[i - Len(b)]
    BY <1>2, <1>4, ConcatProperties
  <2>2. ASSUME NEW i \in 1..Len(s) + 1, i <= p
        PROVE  (b \o c)[i] = IF i < p THEN s[i] ELSE e
    BY <1>2, <1>4, <2>1, <2>2
  <2>3. ASSUME NEW i \in 1..Len(s) + 1, i > p
        PROVE  (b \o c)[i] = s[i - 1]
    BY <1>2, <1>4, <2>1, <2>3
  <2> QED
    BY <2>1, <2>2, <2>3
<1> QED
  BY <1>5 DEF InsertAt

LEMMA ReverseIs ==
    ASSUME NEW S, NEW s \in Seq(S)
    PROVE  /\ Reverse(s) \in Seq(S)
           /\ Len(Reverse(s)) = Len(s)
           /\ \A i \in 1..Len(s) : Reverse(s)[i] = s[Len(s) - i + 1]
<1>1. \A i \in 1..Len(s) : s[Len(s) - i + 1] \in S
  OBVIOUS
<1> QED
  BY <1>1, IsASeq DEF Reverse

-----------------------------------------------------------------------------
(* The worklist keeps each work item at most once.                         *)

LEMMA QueuedIs ==
    ASSUME NEW list \in Seq(Works), IsInjective(list), NEW work \in Works
    PROVE  Queued(list, work) \in Seq(Works) /\ IsInjective(Queued(list, work))
<1>1. CASE work \in ToSet(list)
  BY <1>1 DEF Queued
<1>2. CASE work \notin ToSet(list)
  <2>1. Queued(list, work) = Append(list, work)
    BY <1>2 DEF Queued
  <2>2. \A i \in 1..Len(list) : list[i] # work
    BY <1>2, ToSetIs
  <2>3. IsInjective(Append(list, work))
    BY <2>2, AppendProperties DEF IsInjective
  <2> QED
    BY <2>1, <2>3
<1> QED
  BY <1>1, <1>2

-----------------------------------------------------------------------------
(* An element more, or one less, in a sequence with an order on it.        *)

Ordered(s, rank) ==
    \A i, j \in 1..Len(s) : i <= j => rank[s[i]] <= rank[s[j]]

LEMMA InsertKeeps ==
    ASSUME NEW S, NEW s \in Seq(S), NEW p \in 1..Len(s) + 1, NEW e \in S,
           IsInjective(s), e \notin ToSet(s)
    PROVE  /\ ToSet(InsertAt(s, p, e)) = ToSet(s) \cup {e}
           /\ IsInjective(InsertAt(s, p, e))
<1> DEFINE t == InsertAt(s, p, e)
<1>1. /\ t \in Seq(S) /\ Len(t) = Len(s) + 1
      /\ \A i \in 1..Len(s) + 1 :
            t[i] = IF i < p THEN s[i] ELSE IF i = p THEN e ELSE s[i - 1]
  BY InsertAtIs
<1> HIDE DEF t
<1>2. \A i \in 1..Len(s) : s[i] # e
  BY ToSetIs
<1>3. ASSUME NEW x \in ToSet(t) PROVE x \in ToSet(s) \cup {e}
  <2>1. PICK i \in 1..Len(s) + 1 : t[i] = x
    BY <1>1, <1>3, ToSetIs
  <2>2. CASE i < p
    <3>1. i \in 1..Len(s) /\ s[i] = x
      BY <1>1, <2>1, <2>2
    <3> QED
      BY <3>1, ToSetIs
  <2>3. CASE i = p
    BY <1>1, <2>1, <2>3
  <2>4. CASE i > p
    <3>1. i - 1 \in 1..Len(s) /\ s[i - 1] = x
      BY <1>1, <2>1, <2>4
    <3> QED
      BY <3>1, ToSetIs
  <2> QED
    BY <2>2, <2>3, <2>4
<1>4. e \in ToSet(t)
  <2>1. p \in 1..Len(t) /\ t[p] = e
    BY <1>1
  <2> QED
    BY <1>1, <2>1, ToSetIs
<1>5. ASSUME NEW x \in ToSet(s) PROVE x \in ToSet(t)
  <2>1. PICK i \in 1..Len(s) : s[i] = x
    BY ToSetIs
  <2>2. CASE i < p
    <3>1. i \in 1..Len(t) /\ t[i] = x
      BY <1>1, <2>1, <2>2
    <3> QED
      BY <1>1, <3>1, ToSetIs
  <2>3. CASE i >= p
    <3>1. i + 1 \in 1..Len(t) /\ t[i + 1] = x
      BY <1>1, <2>1, <2>3
    <3> QED
      BY <1>1, <3>1, ToSetIs
  <2> QED
    BY <2>2, <2>3
<1>6. ASSUME NEW i \in 1..Len(s) + 1, NEW j \in 1..Len(s) + 1, i < j
      PROVE  t[i] # t[j]
  <2>0. \A k, l \in 1..Len(s) : s[k] = s[l] => k = l
    BY DEF IsInjective
  <2>1. CASE j < p
    BY <1>1, <1>6, <2>0, <2>1
  <2>2. CASE j = p
    BY <1>1, <1>2, <1>6, <2>2
  <2>3. CASE i = p
    BY <1>1, <1>2, <1>6, <2>3
  <2>4. CASE i < p /\ p < j
    <3>1. t[i] = s[i] /\ t[j] = s[j - 1] /\ i \in 1..Len(s) /\ j - 1 \in 1..Len(s) /\ i # j - 1
      BY <1>1, <1>6, <2>4
    <3> QED
      BY <2>0, <3>1
  <2>5. CASE p < i
    <3>1. t[i] = s[i - 1] /\ t[j] = s[j - 1] /\ i - 1 \in 1..Len(s) /\ j - 1 \in 1..Len(s)
      BY <1>1, <1>6, <2>5
    <3> QED
      BY <2>0, <3>1, <1>6
  <2> QED
    BY <2>1, <2>2, <2>3, <2>4, <2>5
<1>7. IsInjective(t)
  BY <1>1, <1>6 DEF IsInjective
<1> QED
  BY <1>3, <1>4, <1>5, <1>7 DEF t

(* In front of the first element of a higher rank the order is kept.       *)
LEMMA InsertOrdered ==
    ASSUME NEW S, NEW s \in Seq(S), NEW p \in 1..Len(s) + 1, NEW e \in S,
           NEW rank \in [S -> Int]
    PROVE  /\ Ordered(s, rank)
           /\ \A i \in 1..p - 1 : rank[s[i]] <= rank[e]
           /\ p <= Len(s) => rank[s[p]] > rank[e]
           => Ordered(InsertAt(s, p, e), rank)
<1> DEFINE t == InsertAt(s, p, e)
           n == Len(s)
<1>1. /\ t \in Seq(S) /\ Len(t) = n + 1 /\ n \in Nat /\ p \in 1..n + 1
      /\ \A i \in 1..n + 1 :
            t[i] = IF i < p THEN s[i] ELSE IF i = p THEN e ELSE s[i - 1]
  BY InsertAtIs
<1>2. rank[e] \in Int /\ \A k \in 1..n : rank[s[k]] \in Int
  OBVIOUS
<1> SUFFICES ASSUME Ordered(s, rank),
                    \A i \in 1..p - 1 : rank[s[i]] <= rank[e],
                    p <= n => rank[s[p]] > rank[e]
             PROVE  Ordered(t, rank)
  BY DEF t
<1> HIDE DEF t, n
<1>3. \A i, j \in 1..n : i <= j => rank[s[i]] <= rank[s[j]]
  BY DEF Ordered, n
<1>4. \A j \in p..n : rank[e] <= rank[s[j]]
  <2> SUFFICES ASSUME NEW j \in p..n PROVE rank[e] <= rank[s[j]]
    OBVIOUS
  <2>1. p \in 1..n /\ j \in 1..n /\ p <= j
    BY <1>1
  <2>2. rank[s[p]] <= rank[s[j]] /\ rank[s[p]] > rank[e]
    BY <1>1, <1>3, <2>1
  <2> QED
    BY <1>2, <2>1, <2>2
<1>5. ASSUME NEW i \in 1..n + 1, NEW j \in 1..n + 1, i < j
      PROVE  rank[t[i]] <= rank[t[j]]
  <2>1. CASE j < p
    <3>1. i \in 1..n /\ j \in 1..n /\ i < p
      BY <1>1, <1>5, <2>1
    <3>2. t[i] = s[i] /\ t[j] = s[j]
      BY <1>1, <2>1, <3>1
    <3> QED
      BY <1>3, <1>5, <3>1, <3>2
  <2>2. CASE j = p
    <3>1. t[i] = s[i] /\ t[j] = e /\ i \in 1..p - 1
      BY <1>1, <1>5, <2>2
    <3> QED
      BY <3>1
  <2>3. CASE i = p
    <3>1. t[i] = e /\ t[j] = s[j - 1] /\ j - 1 \in p..n
      BY <1>1, <1>5, <2>3
    <3> QED
      BY <1>4, <3>1
  <2>4. CASE i < p /\ p < j
    <3>1. t[i] = s[i] /\ t[j] = s[j - 1] /\ i \in 1..n /\ j - 1 \in 1..n /\ i <= j - 1
      BY <1>1, <1>5, <2>4
    <3> QED
      BY <1>3, <3>1
  <2>5. CASE p < i
    <3>1. i - 1 \in 1..n /\ j - 1 \in 1..n /\ i - 1 <= j - 1 /\ p < j
      BY <1>1, <1>5, <2>5
    <3>2. t[i] = s[i - 1] /\ t[j] = s[j - 1]
      BY <1>1, <2>5, <3>1
    <3> QED
      BY <1>3, <3>1, <3>2
  <2> QED
    BY <1>5, <2>1, <2>2, <2>3, <2>4, <2>5
<1>6. \A i \in 1..n + 1 : rank[t[i]] \in Int
  BY <1>1
<1> QED
  BY <1>1, <1>5, <1>6 DEF Ordered

LEMMA RemoveKeeps ==
    ASSUME NEW S, NEW s \in Seq(S), NEW p \in 1..Len(s),
           IsInjective(s), NEW rank, Ordered(s, rank)
    PROVE  /\ ToSet(RemoveAt(s, p)) = ToSet(s) \ {s[p]}
           /\ IsInjective(RemoveAt(s, p))
           /\ Ordered(RemoveAt(s, p), rank)
<1> DEFINE t == RemoveAt(s, p)
           at(i) == IF i < p THEN i ELSE i + 1
<1>1. /\ t \in Seq(S) /\ Len(t) = Len(s) - 1
      /\ \A i \in 1..Len(s) - 1 : t[i] = s[at(i)]
  BY RemoveAtIs
<1> HIDE DEF t
<1>2. \A i \in 1..Len(s) - 1 : at(i) \in 1..Len(s) /\ at(i) # p
  OBVIOUS
<1>3. \A i, j \in 1..Len(s) - 1 : (at(i) = at(j) => i = j) /\ (i <= j => at(i) <= at(j))
  OBVIOUS
<1>4. \A k \in 1..Len(s) : k # p => \E i \in 1..Len(s) - 1 : at(i) = k
  <2> SUFFICES ASSUME NEW k \in 1..Len(s), k # p
               PROVE  \E i \in 1..Len(s) - 1 : at(i) = k
    OBVIOUS
  <2>1. CASE k < p
    BY <2>1
  <2>2. CASE k > p
    <3>1. k - 1 \in 1..Len(s) - 1 /\ at(k - 1) = k
      BY <2>2
    <3> QED
      BY <3>1
  <2> QED
    BY <2>1, <2>2
<1> HIDE DEF at
<1>5. \A k, l \in 1..Len(s) : s[k] = s[l] => k = l
  BY DEF IsInjective
<1>6. ASSUME NEW x \in ToSet(t) PROVE x \in ToSet(s) \ {s[p]}
  <2>1. PICK i \in 1..Len(s) - 1 : t[i] = x
    BY <1>1, <1>6, ToSetIs
  <2> QED
    BY <1>1, <1>2, <1>5, <2>1, ToSetIs
<1>7. ASSUME NEW x \in ToSet(s), x # s[p] PROVE x \in ToSet(t)
  <2>1. PICK k \in 1..Len(s) : s[k] = x
    BY ToSetIs
  <2>2. PICK i \in 1..Len(s) - 1 : at(i) = k
    BY <1>4, <1>7, <2>1
  <2>3. i \in 1..Len(t) /\ t[i] = x
    BY <1>1, <2>1, <2>2
  <2> QED
    BY <1>1, <2>3, ToSetIs
<1>8. IsInjective(t)
  BY <1>1, <1>2, <1>3, <1>5 DEF IsInjective
<1>9. Ordered(t, rank)
  BY <1>1, <1>2, <1>3 DEF Ordered
<1> QED
  BY <1>6, <1>7, <1>8, <1>9 DEF t
-----------------------------------------------------------------------------
(* The inductive invariant.                                                *)

Both == Suspenders \cap Resumers

Walking == worker \in {"suspending", "resuming"}

(* The list has no handler twice and is in the order of the levels.        *)
ListInv ==
    /\ IsInjective(handlers)
    /\ Ordered(handlers, Level)

(* early_suspend has called all but the last Len(todo) handlers.           *)
SuspendingInv ==
    worker = "suspending" =>
        LET n == Len(handlers)  t == Len(todo) IN
        /\ suspended /\ mainHeld /\ registering = {}
        /\ t <= n
        /\ \A j \in 1..t : todo[j] = handlers[n - t + j]
        /\ \A i \in 1..n :
              /\ handlers[i] \in Suspenders /\ i <= n - t => handlers[i] \in off
              /\ handlers[i] \in Both /\ i > n - t => handlers[i] \notin off

(* late_resume has called all but the first Len(todo) handlers.            *)
ResumingInv ==
    worker = "resuming" =>
        LET n == Len(handlers)  t == Len(todo) IN
        /\ ~suspended /\ registering = {}
        /\ t <= n
        /\ \A j \in 1..t : todo[j] = handlers[t - j + 1]
        /\ \A i \in 1..n :
              handlers[i] \in Both => (handlers[i] \in off <=> i <= t)

(* Between the walks SUSPENDED tells what the handlers are; a handler that *)
(* is about to be told is not off.                                         *)
RestInv ==
    ~Walking =>
        /\ todo = <<>>
        /\ registering \cap off = {}
        /\ \A h \in (ToSet(handlers) \ registering) \cap Suspenders :
              IF suspended THEN h \in off ELSE h \in Resumers => h \notin off

MainInv == ~mainHeld => requested /\ suspended

IInv == TypeOK /\ ListInv /\ SuspendingInv /\ ResumingInv /\ RestInv /\ MainInv
-----------------------------------------------------------------------------
(* What the invariant says of the properties.                              *)

LEMMA Implied ==
    ASSUME IInv
    PROVE  MainReleasedOnlySuspended /\ HandlersAgree /\ HooksAlternate /\ LevelOrder
<1> USE DEF IInv, Both, Walking
<1>0. handlers \in Seq(Handlers) /\ todo \in Seq(ToSet(handlers))
  BY DEF TypeOK
<1>1. MainReleasedOnlySuspended
  BY ToSetIs, <1>0 DEF MainInv, RestInv, SuspendingInv, ResumingInv, MainReleasedOnlySuspended
<1>2. HandlersAgree
  BY DEF RestInv, HandlersAgree, MutexFree
<1>3. HooksAlternate
  <2> SUFFICES ASSUME NEW h \in ToSet(todo) \cap Both
               PROVE  (h \in off) = (worker = "resuming")
    BY DEF HooksAlternate
  <2>1. PICK j \in 1..Len(todo) : todo[j] = h
    BY ToSetIs, <1>0
  <2>2. CASE worker = "suspending"
    BY <2>1, <2>2, <1>0 DEF SuspendingInv
  <2>3. CASE worker = "resuming"
    BY <2>1, <2>3, <1>0 DEF ResumingInv
  <2>4. CASE ~Walking
    BY <2>1, <2>4 DEF RestInv
  <2> QED
    BY <2>2, <2>3, <2>4
<1>4. LevelOrder
  <2> SUFFICES ASSUME Walking,
                      NEW g \in ToSet(handlers) \cap Both \cap off,
                      NEW h \in (ToSet(handlers) \cap Both) \ off
               PROVE  Level[g] <= Level[h]
    BY DEF LevelOrder
  <2>1. PICK i \in 1..Len(handlers) : handlers[i] = g
    BY ToSetIs, <1>0
  <2>2. PICK j \in 1..Len(handlers) : handlers[j] = h
    BY ToSetIs, <1>0
  <2>3. i <= j
    BY <2>1, <2>2, <1>0 DEF SuspendingInv, ResumingInv
  <2> QED
    BY <2>1, <2>2, <2>3, <1>0 DEF ListInv, Ordered
<1> QED
  BY <1>1, <1>2, <1>3, <1>4
-----------------------------------------------------------------------------
(* The list after a handler has registered or left.                        *)

LEMMA RegisterList ==
    ASSUME IInv, NEW h \in Handlers, register_early_suspend(h)
    PROVE  /\ handlers' \in Seq(Handlers)
           /\ ToSet(handlers') = ToSet(handlers) \cup {h}
           /\ ListInv'
<1>1. PICK p \in 1..Len(handlers) + 1 :
         /\ \A i \in 1..p - 1 : Level[handlers[i]] <= Level[h]
         /\ p <= Len(handlers) => Level[handlers[p]] > Level[h]
         /\ handlers' = InsertAt(handlers, p, h)
  BY DEF register_early_suspend, Inserts
<1>2. /\ handlers \in Seq(Handlers) /\ h \notin ToSet(handlers)
      /\ IsInjective(handlers) /\ Ordered(handlers, Level)
      /\ Level \in [Handlers -> Int]
  BY LevelAssumption DEF IInv, TypeOK, ListInv, register_early_suspend, LevelAssumption
<1>3. handlers' \in Seq(Handlers)
  BY <1>1, <1>2, InsertAtIs
<1>4. ToSet(handlers') = ToSet(handlers) \cup {h} /\ IsInjective(handlers')
  BY <1>1, <1>2, InsertKeeps
<1>5. Ordered(handlers', Level)
  BY <1>1, <1>2, InsertOrdered
<1> QED
  BY <1>3, <1>4, <1>5 DEF ListInv

LEMMA UnregisterList ==
    ASSUME IInv, NEW h \in Handlers, unregister_early_suspend(h)
    PROVE  /\ handlers' \in Seq(Handlers)
           /\ ToSet(handlers') = ToSet(handlers) \ {h}
           /\ ListInv'
<1>1. handlers \in Seq(Handlers) /\ IsInjective(handlers) /\ Ordered(handlers, Level)
  BY DEF IInv, TypeOK, ListInv
<1>2. PICK p \in 1..Len(handlers) : handlers[p] = h /\ handlers' = RemoveAt(handlers, p)
  BY <1>1 DEF unregister_early_suspend
<1>3. handlers' \in Seq(Handlers)
  BY <1>1, <1>2, RemoveAtIs
<1>4. /\ ToSet(handlers') = ToSet(handlers) \ {h}
      /\ IsInjective(handlers') /\ Ordered(handlers', Level)
  BY <1>1, <1>2, RemoveKeeps
<1> QED
  BY <1>3, <1>4 DEF ListInv
-----------------------------------------------------------------------------
(* Every step keeps the invariant.                                         *)

LEMMA InvInit == Init => IInv
<1> SUFFICES ASSUME Init PROVE IInv
  OBVIOUS
<1> USE DEF Init
<1>1. TypeOK
  <2>1. \A S : <<>> \in Seq(S)
    OBVIOUS
  <2>2. IsInjective(<<>>) /\ ToSet(<<>>) = {}
    BY DEF IsInjective, ToSet
  <2> QED
    BY <2>1, <2>2 DEF TypeOK
<1>2. ListInv
  BY DEF ListInv, IsInjective, Ordered
<1> QED
  BY <1>1, <1>2 DEF IInv, SuspendingInv, ResumingInv, RestInv, MainInv, Walking, ToSet

(* Requests change no handler.                                             *)
LEMMA RequestStep ==
    ASSUME IInv, RequestSleep \/ RequestWakeup
    PROVE  IInv'
<1> USE DEF IInv, RequestSleep, RequestWakeup, listVars
<1>1. worklist' \in Seq(Works) /\ IsInjective(worklist')
  BY QueuedIs DEF TypeOK, Works
<1>2. TypeOK'
  <2>1. requested' \in BOOLEAN /\ suspended' \in BOOLEAN /\ mainHeld' \in BOOLEAN
    BY Zenon DEF TypeOK
  <2> QED
    BY <1>1, <2>1 DEF TypeOK
<1>3. ListInv'
  BY DEF ListInv
<1>4. /\ UNCHANGED <<suspended, worker, todo, off, handlers, registering>>
      /\ mainHeld => mainHeld'
  <2>1. UNCHANGED <<suspended, worker, todo, off, handlers, registering>>
    OBVIOUS
  <2>2. mainHeld => mainHeld'
    BY Zenon
  <2> QED
    BY <2>1, <2>2
<1>5. SuspendingInv' /\ ResumingInv' /\ RestInv'
  <2> SUFFICES SuspendingInv /\ ResumingInv /\ RestInv
                 => SuspendingInv' /\ ResumingInv' /\ RestInv'
    OBVIOUS
  <2> QED
    BY <1>4 DEF SuspendingInv, ResumingInv, RestInv, Walking
<1>6. MainInv'
  BY DEF MainInv
<1> QED
  BY <1>2, <1>3, <1>5, <1>6

LEMMA RegisterStep ==
    ASSUME IInv, NEW h \in Handlers, register_early_suspend(h)
    PROVE  IInv'
<1>1. /\ handlers' \in Seq(Handlers)
      /\ ToSet(handlers') = ToSet(handlers) \cup {h}
      /\ ListInv'
  BY RegisterList
<1> USE DEF IInv, register_early_suspend, MutexFree
<1>2. TypeOK'
  <2>1. todo = <<>>
    BY DEF RestInv, Walking
  <2> QED
    BY <1>1, <2>1 DEF TypeOK
<1>3. SuspendingInv' /\ ResumingInv'
  BY DEF SuspendingInv, ResumingInv
<1>4. RestInv'
  BY <1>1 DEF RestInv, Walking, TypeOK
<1>5. MainInv'
  BY DEF MainInv
<1> QED
  BY <1>1, <1>2, <1>3, <1>4, <1>5

LEMMA RegisterCallStep ==
    ASSUME IInv, NEW h \in Handlers, RegisterCall(h)
    PROVE  IInv'
<1> USE DEF IInv, RegisterCall
<1>1. TypeOK'
  BY DEF TypeOK
<1>2. ListInv'
  BY DEF ListInv
<1>3. ~Walking
  BY DEF SuspendingInv, ResumingInv, Walking
<1>4. SuspendingInv' /\ ResumingInv'
  BY <1>3 DEF SuspendingInv, ResumingInv, Walking
<1>5. RestInv'
  BY <1>3 DEF RestInv, Walking
<1>6. MainInv'
  BY DEF MainInv
<1> QED
  BY <1>1, <1>2, <1>4, <1>5, <1>6

LEMMA UnregisterStep ==
    ASSUME IInv, NEW h \in Handlers, unregister_early_suspend(h)
    PROVE  IInv'
<1>1. /\ handlers' \in Seq(Handlers)
      /\ ToSet(handlers') = ToSet(handlers) \ {h}
      /\ ListInv'
  BY UnregisterList
<1> USE DEF IInv, unregister_early_suspend, MutexFree
<1>2. TypeOK'
  <2>1. todo = <<>>
    BY DEF RestInv, Walking
  <2> QED
    BY <1>1, <2>1 DEF TypeOK
<1>3. SuspendingInv' /\ ResumingInv'
  BY DEF SuspendingInv, ResumingInv
<1>4. RestInv'
  BY <1>1 DEF RestInv, Walking, TypeOK
<1>5. MainInv'
  BY DEF MainInv
<1> QED
  BY <1>1, <1>2, <1>3, <1>4, <1>5

(* The worker takes a work item, or ends one; the handlers are as SUSPENDED*)
(* says before and after.                                                  *)
LEMMA RestStep ==
    ASSUME IInv, RunWork \/ EarlyEnd \/ SuspendEnd \/ OtherLockReleased
    PROVE  IInv'
<1> USE DEF IInv, RunWork, EarlyEnd, SuspendEnd, OtherLockReleased, listVars, stateVars
<1>1. worklist' \in Seq(Works) /\ IsInjective(worklist')
  BY QueuedIs, TailIs DEF TypeOK, Works
<1>2. worker' \in Works \cup {"idle", worker}
  BY TailIs DEF TypeOK
<1>3. UNCHANGED <<requested, suspended, todo, off, handlers, registering, gone>>
  OBVIOUS
<1>4. mainHeld' \in BOOLEAN /\ (~mainHeld' => (requested /\ suspended) \/ ~mainHeld)
  BY Zenon DEF TypeOK
<1>5. worker' = worker \/ ~Walking
  BY DEF Walking
<1>6. TypeOK'
  BY <1>1, <1>2, <1>3, <1>4 DEF TypeOK
<1>7. ListInv'
  BY <1>3 DEF ListInv
<1>8. CASE Walking
  <2>1. OtherLockReleased
    BY <1>8 DEF Walking
  <2>2. worker' = worker /\ (mainHeld <=> mainHeld')
    BY <2>1
  <2> QED
    BY <1>3, <1>6, <1>7, <1>8, <2>2
       DEF SuspendingInv, ResumingInv, RestInv, MainInv, Walking
<1>9. CASE ~Walking
  <2>1. ~Walking'
    BY <1>2, <1>9 DEF Walking, Works
  <2>2. MainInv'
    BY <1>3, <1>4 DEF MainInv
  <2> QED
    BY <1>3, <1>6, <1>7, <1>9, <2>1, <2>2
       DEF SuspendingInv, ResumingInv, RestInv, Walking
<1> QED
  BY <1>8, <1>9

LEMMA EarlyBeginStep ==
    ASSUME IInv, EarlyBegin
    PROVE  IInv'
<1> USE DEF IInv, EarlyBegin, MutexFree, listVars
<1>1. ~Walking /\ registering = {}
  BY DEF Walking
<1>2. todo' \in Seq(ToSet(handlers))
  BY ToSetIs DEF TypeOK
<1>3. TypeOK'
  BY <1>2 DEF TypeOK, Works
<1>4. ListInv'
  BY DEF ListInv
<1>5. MainInv /\ MainInv'
  BY DEF MainInv
<1>6. CASE requested /\ ~suspended
  <2>1. /\ suspended' /\ worker' = "suspending" /\ todo' = handlers
        /\ UNCHANGED <<mainHeld, handlers, registering, off>>
    BY <1>6
  <2>2. mainHeld
    BY <1>5, <1>6 DEF MainInv
  <2>3. \A i \in 1..Len(handlers) : handlers[i] \in Both => handlers[i] \notin off
    BY <1>1, <1>6, ToSetIs DEF RestInv, TypeOK, Both
  <2>4. SuspendingInv'
    BY <1>1, <2>1, <2>2, <2>3 DEF SuspendingInv, TypeOK
  <2> QED
    BY <1>3, <1>4, <1>5, <2>1, <2>4 DEF ResumingInv, RestInv, Walking
<1>7. CASE ~(requested /\ ~suspended)
  <2>1. /\ UNCHANGED <<suspended, todo, mainHeld, handlers, registering, off>>
        /\ worker' = "abort"
    BY <1>7
  <2> QED
    BY <1>1, <1>3, <1>4, <1>5, <2>1 DEF SuspendingInv, ResumingInv, RestInv, Walking
<1> QED
  BY <1>6, <1>7

LEMMA EarlyCallStep ==
    ASSUME IInv, EarlyCall
    PROVE  IInv'
<1> DEFINE n == Len(handlers)
           t == Len(todo)
<1> USE DEF IInv, EarlyCall, listVars, stateVars
<1>1. /\ handlers \in Seq(Handlers) /\ todo \in Seq(ToSet(handlers)) /\ todo # <<>>
      /\ n \in Nat /\ t \in Nat
  BY DEF TypeOK
<1>2. /\ Head(todo) \in ToSet(handlers) /\ Head(todo) = todo[1]
      /\ todo' \in Seq(ToSet(handlers)) /\ Len(todo') = t - 1
      /\ \A j \in 1..t - 1 : todo'[j] = todo[j + 1]
  BY <1>1, TailIs
<1>3. t >= 1
  BY <1>1
<1>4. /\ suspended /\ mainHeld /\ registering = {} /\ t <= n
      /\ \A j \in 1..t : todo[j] = handlers[n - t + j]
      /\ \A i \in 1..n :
            /\ handlers[i] \in Suspenders /\ i <= n - t => handlers[i] \in off
            /\ handlers[i] \in Both /\ i > n - t => handlers[i] \notin off
  BY DEF SuspendingInv
<1>5. Head(todo) = handlers[n - t + 1]
  BY <1>2, <1>3, <1>4
<1>6. UNCHANGED <<requested, suspended, mainHeld, worklist, worker,
                  handlers, registering, gone>>
  OBVIOUS
<1>7. TypeOK'
  BY <1>2, <1>6 DEF TypeOK
<1>8. ListInv' /\ MainInv'
  BY DEF ListInv, MainInv
<1>9. \A i, j \in 1..n : handlers[i] = handlers[j] => i = j
  BY <1>1 DEF ListInv, IsInjective
<1>10. ASSUME NEW j \in 1..t - 1
       PROVE  todo'[j] = handlers[n - (t - 1) + j]
  <2>1. j + 1 \in 1..t /\ n - t + (j + 1) = n - (t - 1) + j
    BY <1>1
  <2>2. todo[j + 1] = handlers[n - t + (j + 1)]
    BY <1>4, <2>1
  <2> QED
    BY <1>2, <2>1, <2>2
<1>11. ASSUME NEW i \in 1..n, handlers[i] \in Suspenders, i <= n - (t - 1)
       PROVE  handlers[i] \in off'
  BY <1>1, <1>4, <1>5, <1>11
<1>12. ASSUME NEW i \in 1..n, handlers[i] \in Both, i > n - (t - 1)
       PROVE  handlers[i] \notin off'
  <2>1. handlers[i] \notin off
    BY <1>1, <1>4, <1>12
  <2>2. handlers[i] # Head(todo)
    BY <1>1, <1>3, <1>4, <1>5, <1>9, <1>12
  <2> QED
    BY <2>1, <2>2
<1>13. SuspendingInv'
  BY <1>1, <1>2, <1>3, <1>4, <1>6, <1>10, <1>11, <1>12 DEF SuspendingInv
<1> QED
  BY <1>7, <1>8, <1>13, <1>6 DEF ResumingInv, RestInv, Walking

LEMMA LateBeginStep ==
    ASSUME IInv, LateBegin
    PROVE  IInv'
<1> USE DEF IInv, LateBegin, MutexFree, listVars
<1>1. ~Walking /\ registering = {}
  BY DEF Walking
<1>2. handlers \in Seq(Handlers) /\ handlers \in Seq(ToSet(handlers))
  BY ToSetIs DEF TypeOK
<1>3. /\ Reverse(handlers) \in Seq(ToSet(handlers))
      /\ Len(Reverse(handlers)) = Len(handlers)
      /\ \A i \in 1..Len(handlers) : Reverse(handlers)[i] = handlers[Len(handlers) - i + 1]
  BY <1>2, ReverseIs
<1>4. TypeOK'
  BY <1>3 DEF TypeOK, Works
<1>5. ListInv'
  BY DEF ListInv
<1>6. MainInv'
  BY DEF MainInv
<1>7. CASE suspended /\ ~requested
  <2>1. /\ ~suspended' /\ worker' = "resuming" /\ todo' = Reverse(handlers)
        /\ UNCHANGED <<handlers, registering, off>>
    BY <1>7
  <2>2. \A i \in 1..Len(handlers) : handlers[i] \in Both => handlers[i] \in off
    BY <1>1, <1>2, <1>7, ToSetIs DEF RestInv, Both
  <2>3. /\ Len(todo') = Len(handlers') /\ Len(handlers') \in Nat
        /\ \A j \in 1..Len(handlers') : todo'[j] = handlers'[Len(handlers') - j + 1]
    BY <1>2, <1>3, <2>1
  <2>4. \A i \in 1..Len(handlers') :
           handlers'[i] \in Both => (handlers'[i] \in off' <=> i <= Len(handlers'))
    BY <2>1, <2>2
  <2>5. ResumingInv'
    BY <1>1, <2>1, <2>3, <2>4 DEF ResumingInv
  <2> QED
    BY <1>4, <1>5, <1>6, <2>1, <2>5 DEF SuspendingInv, RestInv, Walking
<1>8. CASE ~(suspended /\ ~requested)
  <2>1. /\ UNCHANGED <<suspended, todo, mainHeld, handlers, registering, off>>
        /\ worker' = "idle"
    BY <1>8
  <2> QED
    BY <1>1, <1>4, <1>5, <1>6, <2>1 DEF SuspendingInv, ResumingInv, RestInv, Walking
<1> QED
  BY <1>7, <1>8

LEMMA LateCallStep ==
    ASSUME IInv, LateCall
    PROVE  IInv'
<1> DEFINE n == Len(handlers)
           t == Len(todo)
<1> USE DEF IInv, LateCall, listVars, stateVars
<1>1. /\ handlers \in Seq(Handlers) /\ todo \in Seq(ToSet(handlers)) /\ todo # <<>>
      /\ n \in Nat /\ t \in Nat
  BY DEF TypeOK
<1>2. /\ Head(todo) \in ToSet(handlers) /\ Head(todo) = todo[1]
      /\ todo' \in Seq(ToSet(handlers)) /\ Len(todo') = t - 1
      /\ \A j \in 1..t - 1 : todo'[j] = todo[j + 1]
  BY <1>1, TailIs
<1>3. t >= 1
  BY <1>1
<1>4. /\ ~suspended /\ registering = {} /\ t <= n
      /\ \A j \in 1..t : todo[j] = handlers[t - j + 1]
      /\ \A i \in 1..n : handlers[i] \in Both => (handlers[i] \in off <=> i <= t)
  BY DEF ResumingInv
<1>5. Head(todo) = handlers[t]
  BY <1>2, <1>3, <1>4
<1>6. UNCHANGED <<requested, suspended, mainHeld, worklist, worker,
                  handlers, registering, gone>>
  OBVIOUS
<1>7. TypeOK'
  BY <1>2, <1>6 DEF TypeOK
<1>8. ListInv' /\ MainInv'
  BY DEF ListInv, MainInv
<1>9. \A i, j \in 1..n : handlers[i] = handlers[j] => i = j
  BY <1>1 DEF ListInv, IsInjective
<1>10. ASSUME NEW j \in 1..t - 1
       PROVE  todo'[j] = handlers[(t - 1) - j + 1]
  <2>1. j + 1 \in 1..t /\ t - (j + 1) + 1 = (t - 1) - j + 1
    BY <1>1
  <2>2. todo[j + 1] = handlers[t - (j + 1) + 1]
    BY <1>4, <2>1
  <2> QED
    BY <1>2, <2>1, <2>2
<1>11. ASSUME NEW i \in 1..n, handlers[i] \in Both
       PROVE  handlers[i] \in off' <=> i <= t - 1
  <2>1. CASE i = t
    BY <1>1, <1>3, <1>5, <1>11, <2>1 DEF Both
  <2>2. CASE i # t
    <3>1. handlers[i] # Head(todo)
      BY <1>1, <1>3, <1>4, <1>5, <1>9, <2>2
    <3>2. handlers[i] \in off' <=> handlers[i] \in off
      BY <3>1
    <3> QED
      BY <1>1, <1>4, <1>11, <2>2, <3>2
  <2> QED
    BY <2>1, <2>2
<1>12. ResumingInv'
  BY <1>1, <1>2, <1>3, <1>4, <1>6, <1>10, <1>11 DEF ResumingInv
<1> QED
  BY <1>6, <1>7, <1>8, <1>12 DEF SuspendingInv, RestInv, Walking

(* A walk ends with nothing left to call: all handlers are off, or on.     *)
LEMMA WalkEnds ==
    ASSUME IInv, EarlyCalled \/ LateEnd
    PROVE  IInv'
<1> USE DEF IInv, EarlyCalled, LateEnd, listVars, stateVars
<1>1. /\ UNCHANGED <<requested, suspended, mainHeld, worklist, todo,
                     handlers, registering, gone, off>>
      /\ worker' \in {"abort", "idle"} /\ todo = <<>> /\ Walking
  BY DEF Walking
<1>2. TypeOK' /\ ListInv' /\ MainInv'
  BY <1>1 DEF TypeOK, ListInv, MainInv
<1>3. handlers \in Seq(Handlers) /\ Len(todo) = 0
  BY <1>1 DEF TypeOK
<1>4. registering = {}
  BY <1>1 DEF SuspendingInv, ResumingInv, Walking
<1>5. ASSUME NEW h \in ToSet(handlers) \cap Suspenders
      PROVE  IF suspended THEN h \in off ELSE h \in Resumers => h \notin off
  <2>1. PICK i \in 1..Len(handlers) : handlers[i] = h
    BY <1>3, ToSetIs
  <2>2. CASE worker = "suspending"
    BY <1>3, <1>5, <2>1, <2>2 DEF SuspendingInv
  <2>3. CASE worker = "resuming"
    BY <1>3, <1>5, <2>1, <2>3 DEF ResumingInv, Both
  <2> QED
    BY <1>1, <2>2, <2>3 DEF Walking
<1>6. RestInv'
  BY <1>1, <1>4, <1>5 DEF RestInv
<1> QED
  BY <1>1, <1>2, <1>6 DEF SuspendingInv, ResumingInv

LEMMA InvStep == IInv /\ [Next]_vars => IInv'
<1> SUFFICES ASSUME IInv, [Next]_vars PROVE IInv'
  OBVIOUS
<1>1. CASE RequestSleep \/ RequestWakeup
  BY <1>1, RequestStep
<1>2. ASSUME NEW h \in Handlers,
             register_early_suspend(h) \/ RegisterCall(h) \/ unregister_early_suspend(h)
      PROVE  IInv'
  BY <1>2, RegisterStep, RegisterCallStep, UnregisterStep
<1>3. CASE RunWork \/ EarlyEnd \/ SuspendEnd \/ OtherLockReleased
  BY <1>3, RestStep
<1>4. CASE EarlyBegin \/ EarlyCall
  BY <1>4, EarlyBeginStep, EarlyCallStep
<1>5. CASE LateBegin \/ LateCall
  BY <1>5, LateBeginStep, LateCallStep
<1>6. CASE EarlyCalled \/ LateEnd
  BY <1>6, WalkEnds
<1>7. CASE UNCHANGED vars
  BY <1>7 DEF vars, IInv, TypeOK, ListInv, SuspendingInv, ResumingInv, RestInv,
              MainInv, Walking
<1> QED
  BY <1>1, <1>2, <1>3, <1>4, <1>5, <1>6, <1>7 DEF Next, Worker
-----------------------------------------------------------------------------
(* The inductive invariant holds, for any handlers, levels and hooks.      *)
THEOREM Invariant == Spec => []IInv
  BY InvInit, InvStep, PTL DEF Spec

(* Every state of early suspend has its types.                             *)
THEOREM TypeCorrect == Spec => []TypeOK
<1>1. IInv => TypeOK
  BY DEF IInv
<1> QED
  BY <1>1, Invariant, PTL

(* main_wake_lock is never released unless sleep is still asked for and    *)
(* every registered handler has been suspended.                            *)
THEOREM MainReleasedSafely == Spec => []MainReleasedOnlySuspended
<1>1. IInv => MainReleasedOnlySuspended
  BY Implied
<1> QED
  BY <1>1, Invariant, PTL

(* While nobody has the mutex every handler is as SUSPENDED says.          *)
THEOREM HandlersDoAgree == Spec => []HandlersAgree
<1>1. IInv => HandlersAgree
  BY Implied
<1> QED
  BY <1>1, Invariant, PTL

(* No walk suspends or resumes a handler twice in a row.                   *)
THEOREM HooksDoAlternate == Spec => []HooksAlternate
<1>1. IInv => HooksAlternate
  BY Implied
<1> QED
  BY <1>1, Invariant, PTL

(* Handlers go off from low to high levels and on from high to low.        *)
THEOREM LevelsInOrder == Spec => []LevelOrder
<1>1. IInv => LevelOrder
  BY Implied
<1> QED
  BY <1>1, Invariant, PTL
=============================================================================
