---------------------------- MODULE LoggerProofs ----------------------------
(***************************************************************************)
(* Proofs about Logger for any size of the ring, any lengths of entries,   *)
(* readers and writers.  Places in the ring are named by their distance    *)
(* behind w_off: what a write does is then a shift.                        *)
(***************************************************************************)
EXTENDS Logger, SequenceTheorems, WellFoundedInduction, TLAPS

-----------------------------------------------------------------------------
(* Induction.                                                              *)

LEMMA SmallestOf ==
    ASSUME NEW S, S \subseteq Nat, S # {}
    PROVE  \E n \in S : \A m \in S : n <= m
<1> DEFINE R == OpToRel(<, Nat)
<1>1. IsWellFoundedOn(R, Nat)
  BY NatLessThanWellFounded, Zenon
<1>2. \A m, n \in Nat : <<m, n>> \in R <=> m < n
  BY Zenon DEF OpToRel
<1> HIDE DEF R
<1>3. PICK n \in S : \A m \in S : ~(<<m, n>> \in R)
  BY <1>1, WFMin
<1>4. \A m \in S : ~(m < n)
  BY <1>2, <1>3
<1>5. \A m \in S : n <= m
  BY <1>4
<1> QED
  BY <1>5

LEMMA CourseOfValues ==
    ASSUME NEW S, \A n \in Nat : (\A m \in 0..(n - 1) : m \in S) => n \in S
    PROVE  \A n \in Nat : n \in S
<1> SUFFICES ASSUME Nat \ S # {} PROVE FALSE
  OBVIOUS
<1>1. PICK n \in Nat \ S : \A m \in Nat \ S : n <= m
  BY SmallestOf
<1>2. \A m \in 0..(n - 1) : m \in S
  BY <1>1
<1> QED
  BY <1>1, <1>2
-----------------------------------------------------------------------------
(* The ring, seen from w_off.                                              *)

Far(off) == Distance(off, w_off)
Here(d) == buffer[Behind(d)]
View == [d \in 1..Size |-> Here(d)]
Starts(v, d) == d = 0 \/ v[d] # 0
Shifted(v, length) ==
    [d \in 1..Size |-> IF d < length THEN 0 ELSE IF d = length THEN length ELSE v[d - length]]

LEMMA Offset ==
    ASSUME TypeOK, NEW off \in Offsets
    PROVE  /\ Far(off) \in 0..(Size - 1)
           /\ Behind(Far(off)) = off
           /\ Far(off) = 0 <=> off = w_off
  BY SizeAssumption DEF SizeAssumption, TypeOK, Offsets, Far, Distance, Behind, logger_offset

LEMMA Place ==
    ASSUME TypeOK, NEW d \in 0..Size
    PROVE  /\ Behind(d) \in Offsets
           /\ d < Size => Far(Behind(d)) = d
           /\ d \in {0, Size} => Behind(d) = w_off
           /\ Here(d) \in 0..MaxLen
<1>1. Behind(d) \in Offsets
  BY SizeAssumption DEF SizeAssumption, TypeOK, Offsets, Behind, logger_offset
<1>2. d < Size => Far(Behind(d)) = d
  BY SizeAssumption DEF SizeAssumption, TypeOK, Offsets, Far, Distance, Behind, logger_offset
<1>3. d \in {0, Size} => Behind(d) = w_off
  BY SizeAssumption DEF SizeAssumption, TypeOK, Offsets, Behind, logger_offset
<1>4. Here(d) \in 0..MaxLen
  BY <1>1 DEF TypeOK, Here
<1> QED
  BY <1>1, <1>2, <1>3, <1>4

LEMMA ViewIs ==
    ASSUME TypeOK
    PROVE  View \in [1..Size -> 0..MaxLen] /\ \A d \in 1..Size : View[d] = Here(d)
<1>1. \A d \in 1..Size : Here(d) \in 0..MaxLen
  BY SizeAssumption, Place DEF SizeAssumption
<1> QED
  BY <1>1 DEF View

LEMMA Forward ==
    ASSUME TypeOK, NEW d \in 0..Size, NEW n \in 0..d
    PROVE  logger_offset(Behind(d) + n) = IF n = Size THEN Behind(0) ELSE Behind(d - n)
  BY SizeAssumption DEF SizeAssumption, TypeOK, Offsets, Behind, logger_offset

LEMMA LappedIs ==
    ASSUME TypeOK, NEW off \in Offsets, NEW length \in 1..MaxLen
    PROVE  Lapped(off, length) <=> Far(off) + length >= Size
  BY SizeAssumption
  DEF SizeAssumption, TypeOK, Offsets, Far, Distance, Lapped, clock_interval, logger_offset

(* A write moves everything back by its length.                            *)
LEMMA WriteShifts ==
    ASSUME TypeOK, NEW length \in 1..MaxLen, do_write_log(length, length)
    PROVE  /\ w_off' \in Offsets
           /\ buffer' \in [Offsets -> 0..MaxLen]
           /\ View' = Shifted(View, length)
           /\ \A off \in Offsets :
                 Far(off) + length < Size =>
                   /\ Far(off)' = Far(off) + length
                   /\ buffer'[off] = IF off = w_off THEN length ELSE buffer[off]
<1> USE SizeAssumption DEF SizeAssumption
<1>1. length \in 1..MaxLen
  OBVIOUS
<1>2. w_off' \in Offsets
  BY <1>1 DEF TypeOK, Offsets, do_write_log, logger_offset
<1>3. buffer' \in [Offsets -> 0..MaxLen]
  BY <1>1 DEF TypeOK, do_write_log
<1>4. ASSUME NEW d \in 1..Size
      PROVE  Here(d)' = IF d < length THEN 0 ELSE IF d = length THEN length ELSE Here(d - length)
  <2>1. Here(d)' = buffer'[Behind(d)']
    BY DEF Here
  <2>2. Behind(d)' \in Offsets
    BY <1>1 DEF TypeOK, Offsets, do_write_log, logger_offset, Behind
  <2>3. buffer'[Behind(d)'] = IF Behind(d)' = w_off THEN length
                              ELSE IF Distance(w_off, Behind(d)') < length THEN 0
                              ELSE buffer[Behind(d)']
    BY <2>2 DEF do_write_log
  <2>4. CASE d < length
    BY <1>1, <2>1, <2>3, <2>4 DEF TypeOK, Offsets, do_write_log, logger_offset, Behind, Distance
  <2>5. CASE d = length
    BY <1>1, <2>1, <2>3, <2>5 DEF TypeOK, Offsets, do_write_log, logger_offset, Behind, Distance
  <2>6. CASE d > length
    <3>1. Behind(d)' = Behind(d - length)
      BY <1>1, <2>6 DEF TypeOK, Offsets, do_write_log, logger_offset, Behind
    <3>2. Behind(d)' # w_off /\ Distance(w_off, Behind(d)') >= length
      BY <1>1, <2>6 DEF TypeOK, Offsets, do_write_log, logger_offset, Behind, Distance
    <3>3. Here(d)' = buffer[Behind(d - length)]
      BY <1>1, <2>1, <2>2, <2>3, <3>1, <3>2 DEF Offsets, Distance, TypeOK
    <3> QED
      BY <1>1, <2>6, <3>3 DEF Here
  <2> QED
    BY <1>1, <2>4, <2>5, <2>6
<1>5. ASSUME NEW off \in Offsets, Far(off) + length < Size
      PROVE  /\ Far(off)' = Far(off) + length
             /\ buffer'[off] = IF off = w_off THEN length ELSE buffer[off]
  <2>1. Far(off)' = Far(off) + length
    BY <1>1, <1>5 DEF TypeOK, Offsets, do_write_log, logger_offset, Far, Distance
  <2>2. off # w_off => ~(Distance(w_off, off) < length)
    BY <1>1, <1>5 DEF TypeOK, Offsets, Far, Distance
  <2> QED
    BY <2>1, <2>2 DEF do_write_log
<1>6. View' = Shifted(View, length)
  <2>1. \A d \in 1..Size : d > length => d - length \in 1..Size
    BY <1>1
  <2>2. View' = [d \in 1..Size |-> Here(d)']
    BY DEF View
  <2>3. \A d \in 1..Size : d > length => View[d - length] = Here(d - length)
    BY <2>1 DEF View
  <2>4. ASSUME NEW d \in 1..Size
        PROVE  Here(d)' = IF d < length THEN 0 ELSE IF d = length THEN length
                                                   ELSE View[d - length]
    <3>1. Here(d)' = IF d < length THEN 0 ELSE IF d = length THEN length ELSE Here(d - length)
      BY <1>4
    <3>2. ~(d < length) /\ d # length => View[d - length] = Here(d - length)
      BY <1>1, <2>3
    <3> QED
      BY <3>1, <3>2, Zenon
  <2> QED
    BY <2>2, <2>4, Zenon DEF Shifted
<1> QED
  BY <1>2, <1>3, <1>5, <1>6
-----------------------------------------------------------------------------
(* The inductive invariant.  Each entry of the ring ends where the next    *)
(* one starts; head and the readers are where one starts, or at w_off; and *)
(* a read that has taken a length, and has not been told that it is stale, *)
(* has the length of the entry its reader is at.                           *)

Chained(v) ==
    \A d \in 1..Size : v[d] # 0 =>
      /\ v[d] <= d
      /\ Starts(v, d - v[d])
      /\ \A e \in (d - v[d] + 1)..(d - 1) : v[e] = 0

PlacesInv == Boundary(head) /\ \A r \in readers : Boundary(r_off[r])

ReadInv ==
    \A t \in Threads :
      /\ pc[t] # "idle" => ReaderOf[t] \in readers
      /\ pc[t] = "copy" => LET off == r_off[ReaderOf[t]]
                           IN  /\ off # w_off
                               /\ ~fixed[ReaderOf[t]] => len[t] = buffer[off]

IInv == TypeOK /\ Chained(View) /\ PlacesInv /\ ReadInv

LEMMA BoundaryIs ==
    ASSUME TypeOK, NEW off \in Offsets
    PROVE  Boundary(off) <=> Starts(View, Far(off))
<1>1. Far(off) # 0 => View[Far(off)] = buffer[off]
  BY SizeAssumption, Offset, ViewIs DEF SizeAssumption, Here
<1> QED
  BY <1>1, Offset DEF Boundary, Starts

(* Where get_next_entry puts a reader that is lapped.                      *)
LEMMA NextEntry ==
    ASSUME TypeOK, NEW off \in Offsets, NEW length \in 1..MaxLen, Boundary(off), Lapped(off, length)
    PROVE  \E n \in length..Far(off) :
              /\ get_next_entry(off, length) = Behind(Far(off) - n)
              /\ Starts(View, Far(off) - n)
              /\ \A m \in length..(n - 1) : ~Starts(View, Far(off) - m)
<1> DEFINE D == Far(off)
           E == EntriesAfter(off, length)
<1> USE SizeAssumption DEF SizeAssumption
<1>1. length \in 1..MaxLen /\ D \in 0..(Size - 1) /\ D + length >= Size /\ D >= length /\ Behind(D) = off
  BY LappedIs, Offset
<1>2. ASSUME NEW d \in length..D PROVE d \in E <=> Starts(View, D - d)
  <2>1. d \in 0..D /\ D \in 0..Size /\ d # Size /\ D - d \in 0..(Size - 1)
    BY <1>1, <1>2
  <2>2. logger_offset(off + d) = Behind(D - d)
    BY <1>1, <2>1, Forward
  <2>3. Behind(D - d) = w_off <=> D - d = 0
    BY <2>1, Place, Offset
  <2>4. d \in length..Size
    BY <1>1, <2>1
  <2>5. D - d # 0 => View[D - d] = buffer[Behind(D - d)]
    BY <2>1, ViewIs DEF Here
  <2> HIDE DEF D
  <2> QED
    BY <2>2, <2>3, <2>4, <2>5 DEF EntriesAfter, Starts
<1>3. D \in E
  BY <1>1, <1>2 DEF Starts
<1>4. PICK n \in E : \A m \in E : n <= m
  <2>1. E \subseteq Nat /\ E # {}
    BY <1>1, <1>3 DEF EntriesAfter
  <2> HIDE DEF E
  <2> QED
    BY <2>1, SmallestOf
<1>5. n \in length..D
  BY <1>1, <1>3, <1>4 DEF EntriesAfter
<1>6. get_next_entry(off, length) = logger_offset(off + n)
  <2>1. E \subseteq Nat
    BY <1>1 DEF EntriesAfter
  <2>2. (CHOOSE d \in E : \A e \in E : d <= e) = n
    <3> DEFINE c == CHOOSE d \in E : \A e \in E : d <= e
    <3> HIDE DEF E
    <3>1. c \in E /\ \A e \in E : c <= e
      BY <1>4, Zenon
    <3> HIDE DEF c
    <3>2. c = n
      BY <1>4, <2>1, <3>1
    <3> QED
      BY <3>2 DEF c
  <2> QED
    BY <2>2 DEF get_next_entry
<1>7. logger_offset(off + n) = Behind(D - n)
  BY <1>1, <1>5, Forward
<1>8. Starts(View, D - n)
  BY <1>2, <1>4, <1>5
<1>9. ASSUME NEW m \in length..(n - 1) PROVE ~Starts(View, D - m)
  BY <1>1, <1>2, <1>4, <1>5, <1>9
<1> QED
  BY <1>5, <1>6, <1>7, <1>8, <1>9

(* The position off of head or a reader after a write: Position says where *)
(* fix_up_readers puts it.                                                 *)
Position(off, length) == IF Lapped(off, length) THEN get_next_entry(off, length) ELSE off

LEMMA Moved ==
    ASSUME TypeOK, NEW off \in Offsets, NEW length \in 1..MaxLen, Boundary(off), do_write_log(length, length)
    PROVE  /\ Position(off, length) \in Offsets
           /\ Position(off, length) # w_off'
           /\ buffer'[Position(off, length)] # 0
           /\ ~Lapped(off, length) /\ off # w_off => buffer'[off] = buffer[off]
<1>0. PICK p : p = Position(off, length)
  OBVIOUS
<1> USE SizeAssumption DEF SizeAssumption
<1>1. p \in Offsets /\ Boundary(p) /\ Far(p) + length < Size
  <2>1. CASE ~Lapped(off, length)
    BY <1>0, <2>1, LappedIs, Offset DEF Position
  <2>2. CASE Lapped(off, length)
    <3>1. PICK n \in length..Far(off) :
             get_next_entry(off, length) = Behind(Far(off) - n) /\ Starts(View, Far(off) - n)
      BY <2>2, NextEntry
    <3>2. Far(off) - n \in 0..(Size - 1) /\ Far(off) - n + length < Size
      BY <3>1, Offset
    <3>3. p = Behind(Far(off) - n)
      BY <1>0, <2>2, <3>1 DEF Position
    <3> QED
      BY <3>1, <3>2, <3>3, Place, BoundaryIs
  <2> QED
    BY <2>1, <2>2
<1>2. Far(p)' = Far(p) + length /\ buffer'[p] = IF p = w_off THEN length ELSE buffer[p]
  BY <1>1, WriteShifts
<1>3. p # w_off'
  <2>1. Far(p) \in Nat /\ length \in Nat \ {0}
    BY <1>1, Offset
  <2>2. Far(p)' # 0
    BY <1>2, <2>1
  <2>3. Distance(p, p) = 0
    <3>1. p \in Int
      BY <1>1 DEF Offsets
    <3> QED
      BY <3>1 DEF Distance
  <2> QED
    BY <2>2, <2>3 DEF Far
<1>4. buffer'[p] # 0
  BY <1>1, <1>2 DEF Boundary
<1>5. ~Lapped(off, length) /\ off # w_off => buffer'[off] = buffer[off]
  BY <1>0, <1>2 DEF Position
<1> QED
  BY <1>0, <1>1, <1>3, <1>4, <1>5
-----------------------------------------------------------------------------
(* Two threads that read from one file take each other's lengths, and the  *)
(* log may be flushed in the middle of a read: in both cases the code goes *)
(* wrong.                                                                  *)
OneThreadPerFile == \A t, u \in Threads : ReaderOf[t] = ReaderOf[u] => t = u

(* write_log_entry_mainradio does not cut a message down to the length in  *)
(* its header.                                                             *)
WithinLimit == Events \/ Lengths \subseteq 1..MaxLen

(* What the theorems assume of the users of the log.                       *)
Orderly == OneThreadPerFile /\ ~FlushAnyTime /\ WithinLimit

(* Then a writer stores as much as it has made room for.                   *)
Stores(w, length) ==
    /\ w \notin waking
    /\ fix_up_readers(length)
    /\ do_write_log(length, length)
    /\ waking' = waking \cup {w}
    /\ UNCHANGED <<readers, reading>>

LEMMA HeaderIs ==
    ASSUME NEW length \in Lengths
    PROVE  /\ header_len(length) \in 1..MaxLen
           /\ length <= MaxLen => header_len(length) = length
  BY SizeAssumption, LengthsAssumption DEF SizeAssumption, LengthsAssumption, header_len

LEMMA WriteIs ==
    ASSUME WithinLimit, NEW w \in Writers, NEW length \in Lengths, write_log_entry(w, length)
    PROVE  \E n \in 1..MaxLen : n = header_len(length) /\ Stores(w, n)
<1>1. PICK n \in 1..MaxLen : n = header_len(length)
  BY HeaderIs
<1>2. (IF Events THEN n ELSE length) = n
  <2>1. CASE Events
    BY <2>1
  <2>2. CASE ~Events
    <3>1. length \in 1..MaxLen
      BY <2>2 DEF WithinLimit
    <3>2. length = n
      BY <1>1, <3>1, HeaderIs, SizeAssumption DEF SizeAssumption
    <3> QED
      BY <2>2, <3>2
  <2> QED
    BY <2>1, <2>2
<1>3. Stores(w, n)
  BY <1>1, <1>2, Zenon DEF write_log_entry, Stores
<1> QED
  BY <1>1, <1>3

(* The types of what a call that ends leaves.                              *)
LEMMA ReturnTypes ==
    ASSUME TypeOK, NEW t \in Threads, NEW value \in {Error} \cup 0..Size, Returns(t, value)
    PROVE  /\ Goto(t, "idle")
           /\ len' \in [Threads -> 0..Size] /\ \A u \in Threads \ {t} : len'[u] = len[u]
           /\ ret' \in [Threads -> {Error} \cup 0..Size]
  BY SizeAssumption DEF SizeAssumption, TypeOK, Returns

LEMMA Initially == Init => IInv
<1> SUFFICES ASSUME Init PROVE IInv
  OBVIOUS
<1> USE SizeAssumption DEF SizeAssumption, Init
<1>1. TypeOK
  <2>1. 0 \in Offsets /\ 0 \in 0..MaxLen
    BY DEF Offsets
  <2>2. fixed \in [Readers -> BOOLEAN] /\ was_overrun \in BOOLEAN
    BY Zenon
  <2> QED
    BY <2>1, <2>2 DEF TypeOK
<1>2. \A d \in 1..Size : View[d] = 0
  BY <1>1, ViewIs, Place DEF Here
<1>3. Chained(View)
  BY <1>2 DEF Chained
<1> QED
  BY <1>1, <1>3 DEF IInv, PlacesInv, Boundary, ReadInv

LEMMA WriteTypes ==
    ASSUME IInv, NEW w \in Writers, NEW length \in 1..MaxLen, Stores(w, length)
    PROVE  TypeOK'
<1> USE DEF IInv, Stores, reading
<1>1. Position(head, length) \in Offsets /\ \A r \in readers : Position(r_off[r], length) \in Offsets
  BY Moved DEF TypeOK, PlacesInv
<1>2. head' \in Offsets
  BY <1>1 DEF Position, fix_up_readers
<1>3. r_off' \in [Readers -> Offsets]
  BY <1>1 DEF TypeOK, Position, fix_up_readers
<1>4. fixed' \in [Readers -> BOOLEAN]
  BY Zenon DEF TypeOK, fix_up_readers
<1>5. was_overrun' \in BOOLEAN
  BY Zenon DEF TypeOK, fix_up_readers
<1>6. w_off' \in Offsets /\ buffer' \in [Offsets -> 0..MaxLen]
  BY WriteShifts
<1> QED
  BY <1>2, <1>3, <1>4, <1>5, <1>6 DEF TypeOK

(* A write cuts no entry in two: those it reaches are gone from their      *)
(* start, since they end at w_off at the latest.                           *)
LEMMA ShiftedChained ==
    ASSUME NEW v \in [1..Size -> 0..MaxLen], Chained(v), NEW length \in 1..MaxLen
    PROVE  Shifted(v, length) \in [1..Size -> 0..MaxLen] /\ Chained(Shifted(v, length))
<1> USE SizeAssumption DEF SizeAssumption
<1> DEFINE u == Shifted(v, length)
<1>1. length \in 1..MaxLen /\ length \in 1..Size
  OBVIOUS
<1>2. u \in [1..Size -> 0..MaxLen]
  BY <1>1 DEF Shifted
<1>3. \A d \in 1..Size : u[d] = IF d < length THEN 0 ELSE IF d = length THEN length ELSE v[d - length]
  BY DEF Shifted
<1> HIDE DEF u
<1>4. ASSUME NEW d \in 1..Size, u[d] # 0
      PROVE  /\ u[d] <= d
             /\ Starts(u, d - u[d])
             /\ \A e \in (d - u[d] + 1)..(d - 1) : u[e] = 0
  <2>1. CASE d = length
    BY <1>1, <1>3, <2>1 DEF Starts
  <2>2. CASE d > length
    <3> DEFINE c == d - length
    <3>1. c \in 1..Size /\ u[d] = v[c] /\ v[c] # 0 /\ v[c] \in Nat
      BY <1>1, <1>3, <1>4, <2>2
    <3>2. /\ v[c] <= c
          /\ Starts(v, c - v[c])
          /\ \A e \in (c - v[c] + 1)..(c - 1) : v[e] = 0
      BY <3>1 DEF Chained
    <3>3. Starts(u, d - u[d])
      <4>1. CASE c = v[c]
        BY <1>1, <1>3, <3>1, <4>1 DEF Starts
      <4>2. CASE c # v[c]
        <5>1. c - v[c] \in 1..Size /\ v[c - v[c]] # 0
          BY <3>1, <3>2, <4>2 DEF Starts
        <5>2. d - u[d] \in 1..Size /\ d - u[d] > length /\ (d - u[d]) - length = c - v[c]
          <6>1. \A k \in Nat : k <= c /\ k # c => d - k \in 1..Size /\ d - k > length /\ (d - k) - length = c - k
            BY <1>1, <2>2
          <6> QED
            BY <3>1, <3>2, <4>2, <6>1
        <5>3. u[d - u[d]] = v[c - v[c]]
          <6>1. \A e \in 1..Size : e > length => u[e] = v[e - length]
            BY <1>1, <1>3
          <6> QED
            BY <5>2, <6>1
        <5> QED
          BY <5>1, <5>3 DEF Starts
      <4> QED
        BY <4>1, <4>2
    <3>4. ASSUME NEW e \in (d - u[d] + 1)..(d - 1) PROVE u[e] = 0
      <4>1. e - length \in (c - v[c] + 1)..(c - 1) /\ e \in 1..Size /\ e > length
        <5>1. \A k \in Nat : k <= c /\ u[d] = k => e - length \in (c - k + 1)..(c - 1) /\ e \in 1..Size /\ e > length
          BY <1>1, <2>2, <3>4
        <5> QED
          BY <3>1, <3>2, <5>1
      <4> QED
        BY <1>1, <1>3, <3>2, <4>1
    <3> QED
      BY <1>1, <2>2, <3>1, <3>2, <3>3, <3>4
  <2> QED
    BY <1>1, <1>3, <1>4, <2>1, <2>2
<1>5. Chained(u)
  BY <1>4 DEF Chained
<1> QED
  BY <1>2, <1>5 DEF u

LEMMA WritePlaces ==
    ASSUME IInv, NEW w \in Writers, NEW length \in 1..MaxLen, Stores(w, length)
    PROVE  PlacesInv'
<1> USE DEF IInv, Stores, reading
<1>1. head' = Position(head, length) /\ head \in Offsets /\ Boundary(head)
  BY DEF TypeOK, PlacesInv, Position, fix_up_readers
<1>2. \A r \in readers : r_off'[r] = Position(r_off[r], length) /\ r_off[r] \in Offsets /\ Boundary(r_off[r])
  BY DEF TypeOK, PlacesInv, Position, fix_up_readers
<1>3. buffer'[head'] # 0
  BY <1>1, Moved
<1>4. \A r \in readers : buffer'[r_off'[r]] # 0
  BY <1>2, Moved
<1> QED
  BY <1>3, <1>4 DEF PlacesInv, Boundary

(* A reader that a thread has in hand is moved, and marked, or its entry is *)
(* as it was.                                                              *)
LEMMA WriteReads ==
    ASSUME IInv, NEW w \in Writers, NEW length \in 1..MaxLen, Stores(w, length)
    PROVE  ReadInv'
<1> USE DEF IInv, Stores, reading
<1> SUFFICES ASSUME NEW t \in Threads
             PROVE  /\ pc[t] # "idle" => ReaderOf[t] \in readers
                    /\ pc[t] = "copy" => /\ r_off'[ReaderOf[t]] # w_off'
                                         /\ ~fixed'[ReaderOf[t]] =>
                                              len[t] = buffer'[r_off'[ReaderOf[t]]]
  BY DEF ReadInv
<1> DEFINE r == ReaderOf[t]
<1>1. pc[t] # "idle" => r \in readers
  BY DEF ReadInv
<1>2. ASSUME pc[t] = "copy" PROVE r_off'[r] # w_off' /\ (~fixed'[r] => len[t] = buffer'[r_off'[r]])
  <2>1. r \in readers /\ r \in Readers /\ r_off[r] \in Offsets /\ Boundary(r_off[r])
    BY <1>1, <1>2 DEF TypeOK, PlacesInv
  <2>2. r_off'[r] = Position(r_off[r], length)
    BY <2>1 DEF Position, fix_up_readers
  <2>3. r_off'[r] # w_off'
    BY <2>1, <2>2, Moved
  <2>4. ASSUME ~fixed'[r] PROVE len[t] = buffer'[r_off'[r]]
    <3>1. ~Lapped(r_off[r], length) /\ ~fixed[r]
      BY <2>1, <2>4 DEF fix_up_readers
    <3>2. len[t] = buffer[r_off[r]] /\ r_off[r] # w_off
      BY <1>2, <3>1 DEF ReadInv
    <3>3. buffer'[r_off[r]] = buffer[r_off[r]] /\ r_off'[r] = r_off[r]
      BY <2>1, <2>2, <3>1, <3>2, Moved DEF Position
    <3> QED
      BY <3>2, <3>3
  <2> QED
    BY <2>3, <2>4
<1> QED
  BY <1>1, <1>2
-----------------------------------------------------------------------------
(* What lies between an entry and the next one.                            *)
LEMMA WholeEntry ==
    ASSUME TypeOK, Chained(View), NEW d \in 1..Size, NEW l, l = Here(d), l # 0
    PROVE  /\ l \in 1..d
           /\ l # Size => logger_offset(Behind(d) + l) = Behind(d - l)
           /\ Starts(View, d - l)
           /\ Boundary(logger_offset(Behind(d) + l))
           /\ \A e \in 1..(l - 1) : buffer[logger_offset(Behind(d) + e)] = 0
<1> USE SizeAssumption DEF SizeAssumption
<1>1. l = View[d] /\ l \in 1..d
  BY ViewIs DEF Chained
<1>2. Starts(View, d - l) /\ \A e \in (d - l + 1)..(d - 1) : View[e] = 0
  BY <1>1 DEF Chained
<1>3. logger_offset(Behind(d) + l) = IF l = Size THEN Behind(0) ELSE Behind(d - l)
  BY <1>1, Forward
<1>4. Boundary(logger_offset(Behind(d) + l))
  <2>1. CASE l = Size \/ d - l = 0
    BY <1>1, <1>3, <2>1, Place DEF Boundary
  <2>2. CASE l # Size /\ d - l # 0
    <3>1. d - l \in 1..Size
      BY <1>1, <2>2
    <3>2. buffer[Behind(d - l)] # 0
      BY <1>2, <2>2, <3>1, ViewIs DEF Starts, Here
    <3> QED
      BY <1>3, <2>2, <3>2 DEF Boundary
  <2> QED
    BY <2>1, <2>2
<1>5. ASSUME NEW e \in 1..(l - 1) PROVE buffer[logger_offset(Behind(d) + e)] = 0
  <2>1. e \in 0..d /\ e # Size /\ d - e \in 1..Size /\ d - e \in (d - l + 1)..(d - 1) /\ d \in 0..Size
    BY <1>1, <1>5
  <2>2. logger_offset(Behind(d) + e) = Behind(d - e)
    BY <2>1, Forward
  <2> QED
    BY <1>2, <2>1, <2>2, ViewIs DEF Here
<1> QED
  BY <1>1, <1>2, <1>3, <1>4, <1>5

LEMMA EntryAt ==
    ASSUME TypeOK, Chained(View), NEW off \in Offsets, Boundary(off), off # w_off
    PROVE  /\ get_entry_len(off) = {buffer[off]}
           /\ buffer[off] \in 1..MaxLen
           /\ buffer[off] \in 1..Far(off)
           /\ logger_offset(off + buffer[off]) = Behind(Far(off) - buffer[off])
           /\ logger_offset(off + buffer[off]) \in Offsets
           /\ Boundary(logger_offset(off + buffer[off]))
<1>1. buffer[off] # 0 /\ buffer[off] \in 0..MaxLen /\ buffer[off] \in 1..MaxLen
  BY DEF Boundary, TypeOK
<1>2. Far(off) \in 1..(Size - 1) /\ Behind(Far(off)) = off /\ Here(Far(off)) = buffer[off]
  BY Offset DEF Here
<1>3. /\ buffer[off] \in 1..Far(off)
      /\ buffer[off] # Size => logger_offset(off + buffer[off]) = Behind(Far(off) - buffer[off])
      /\ Boundary(logger_offset(off + buffer[off]))
  BY SizeAssumption, <1>1, <1>2, WholeEntry DEF SizeAssumption
<1>4. Behind(Far(off) - buffer[off]) \in Offsets /\ buffer[off] # Size
  BY SizeAssumption, <1>2, <1>3, Place DEF SizeAssumption
<1> QED
  BY <1>1, <1>3, <1>4 DEF get_entry_len

(* Steps that write nothing leave the ring as it is.                       *)
LEMMA RingKept ==
    ASSUME IInv, UNCHANGED <<buffer, w_off>>
    PROVE  Chained(View)' /\ \A off : Boundary(off)' <=> Boundary(off)
  BY DEF IInv, Chained, Starts, View, Here, Behind, Boundary

(* The reading threads may be anywhere but at the copy of an entry.        *)
LEMMA PlaceOnly ==
    ASSUME IInv, NEW t \in Threads, NEW place \in {"idle", "wait", "asleep", "look"},
           ReaderOf[t] \in readers, Goto(t, place),
           UNCHANGED <<ring, r_off, fixed, waking>>,
           len' \in [Threads -> 0..Size], \A u \in Threads \ {t} : len'[u] = len[u],
           ret' \in [Threads -> {Error} \cup 0..Size]
    PROVE  IInv'
<1> USE DEF IInv, ring
<1>1. pc' \in [Threads -> {"idle", "wait", "asleep", "look", "copy"}]
  BY DEF TypeOK, Goto
<1>2. TypeOK'
  BY <1>1 DEF TypeOK
<1>3. PlacesInv'
  BY RingKept DEF PlacesInv
<1>4. \A u \in Threads \ {t} : pc'[u] = pc[u]
  BY DEF TypeOK, Goto
<1>5. pc'[t] = place
  BY DEF TypeOK, Goto
<1>6. ReadInv'
  BY <1>4, <1>5 DEF ReadInv
<1> QED
  BY <1>2, <1>3, <1>6, RingKept

LEMMA WriteKeeps ==
    ASSUME IInv, NEW w \in Writers, NEW length \in 1..MaxLen, Stores(w, length)
    PROVE  IInv'
<1>1. View' = Shifted(View, length) /\ Chained(Shifted(View, length))
  BY ViewIs, WriteShifts, ShiftedChained DEF IInv, Stores
<1>2. Chained(View)'
  BY <1>1 DEF Chained, Starts
<1> QED
  BY <1>2, WriteTypes, WritePlaces, WriteReads DEF IInv

LEMMA WakeKeeps ==
    ASSUME IInv, NEW w \in Writers, wake_up(w)
    PROVE  IInv'
<1> USE DEF IInv, wake_up, ring
<1>1. pc' \in [Threads -> {"idle", "wait", "asleep", "look", "copy"}]
  BY DEF TypeOK
<1>2. TypeOK'
  BY <1>1 DEF TypeOK
<1>3. PlacesInv'
  BY RingKept DEF PlacesInv
<1>4. \A t \in Threads : (pc'[t] = "idle" <=> pc[t] = "idle") /\ (pc'[t] = "copy" <=> pc[t] = "copy")
  BY DEF TypeOK
<1>5. ReadInv'
  BY <1>4 DEF ReadInv
<1> QED
  BY <1>2, <1>3, <1>5, RingKept

LEMMA OpenKeeps ==
    ASSUME IInv, NEW r \in Readers, logger_open(r)
    PROVE  IInv'
<1> USE DEF IInv, logger_open, reading
<1>1. r_off' \in [Readers -> Offsets] /\ r_off'[r] = head /\ \A s \in Readers \ {r} : r_off'[s] = r_off[s]
  BY DEF TypeOK
<1>2. fixed' \in [Readers -> BOOLEAN] /\ \A s \in Readers \ {r} : fixed'[s] = fixed[s]
  BY DEF TypeOK
<1>3. TypeOK'
  BY <1>1, <1>2 DEF TypeOK
<1>4. PlacesInv'
  BY <1>1, RingKept DEF PlacesInv, TypeOK
<1>5. \A t \in Threads : pc[t] # "idle" => ReaderOf[t] \in Readers \ {r}
  BY DEF ReadInv, TypeOK
<1>6. ReadInv'
  BY <1>1, <1>2, <1>5 DEF ReadInv
<1> QED
  BY <1>3, <1>4, <1>6, RingKept

LEMMA ReleaseKeeps ==
    ASSUME IInv, NEW r \in Readers, logger_release(r)
    PROVE  IInv'
<1> USE DEF IInv, logger_release, reading
<1>1. r_off' \in [Readers -> Offsets] /\ \A s \in Readers \ {r} : r_off'[s] = r_off[s]
  BY SizeAssumption DEF SizeAssumption, TypeOK, Offsets
<1>2. fixed' \in [Readers -> BOOLEAN] /\ \A s \in Readers \ {r} : fixed'[s] = fixed[s]
  BY DEF TypeOK
<1>3. TypeOK'
  BY <1>1, <1>2 DEF TypeOK
<1>4. PlacesInv'
  BY <1>1, RingKept DEF PlacesInv, TypeOK
<1>5. \A t \in Threads : pc[t] # "idle" => ReaderOf[t] \in readers'
  BY DEF ReadInv
<1>6. \A t \in Threads : pc[t] # "idle" => ReaderOf[t] \in Readers \ {r}
  BY <1>5 DEF TypeOK
<1>7. ReadInv'
  BY <1>1, <1>2, <1>5, <1>6 DEF ReadInv
<1> QED
  BY <1>3, <1>4, <1>7, RingKept

(* A flush in the middle of a read would leave the reader at w_off, where  *)
(* there is no entry.                                                      *)
LEMMA FlushKeeps ==
    ASSUME IInv, ~FlushAnyTime, flush_log
    PROVE  IInv'
<1> USE DEF IInv, flush_log, reading
<1>1. TypeOK'
  BY DEF TypeOK
<1>2. PlacesInv'
  BY DEF PlacesInv, Boundary, TypeOK
<1>3. ReadInv'
  BY DEF ReadInv
<1> QED
  BY <1>1, <1>2, <1>3, RingKept

LEMMA OverrunKeeps ==
    ASSUME IInv, show_global_was_overrun
    PROVE  IInv'
<1> USE DEF IInv, show_global_was_overrun, reading
<1>1. TypeOK'
  BY DEF TypeOK
<1>2. PlacesInv'
  BY RingKept DEF PlacesInv
<1>3. ReadInv'
  BY DEF ReadInv
<1> QED
  BY <1>1, <1>2, <1>3, RingKept

LEMMA LengthKeeps ==
    ASSUME IInv, NEW t \in Threads, ReadLength(t)
    PROVE  IInv'
<1> USE DEF IInv, ReadLength
<1> DEFINE r == ReaderOf[t]
           off == r_off[r]
<1>1. r \in readers /\ r \in Readers /\ off \in Offsets /\ Boundary(off)
  BY DEF ReadInv, PlacesInv, TypeOK
<1>2. CASE Goto(t, "wait") /\ UNCHANGED <<len, ret>>
  <2>1. len' \in [Threads -> 0..Size] /\ \A u \in Threads \ {t} : len'[u] = len[u]
    BY <1>2 DEF TypeOK
  <2>2. ret' \in [Threads -> {Error} \cup 0..Size]
    BY <1>2 DEF TypeOK
  <2> QED
    BY <1>1, <1>2, <2>1, <2>2, PlaceOnly
<1>3. CASE Returns(t, Error)
  <2>1. /\ Goto(t, "idle")
        /\ len' \in [Threads -> 0..Size] /\ \A u \in Threads \ {t} : len'[u] = len[u]
        /\ ret' \in [Threads -> {Error} \cup 0..Size]
    BY <1>3, ReturnTypes
  <2> QED
    BY <1>1, <2>1, PlaceOnly
<1>4. CASE /\ off # w_off /\ Goto(t, "copy") /\ UNCHANGED ret
           /\ \E l \in get_entry_len(off) : len' = [len EXCEPT ![t] = l]
  <2>1. buffer[off] \in 1..MaxLen /\ len' = [len EXCEPT ![t] = buffer[off]]
    BY <1>1, <1>4, EntryAt
  <2>2. pc' \in [Threads -> {"idle", "wait", "asleep", "look", "copy"}] /\ \A u \in Threads \ {t} : pc'[u] = pc[u]
    BY <1>4 DEF TypeOK, Goto
  <2>3. len' \in [Threads -> 0..Size] /\ len'[t] = buffer[off] /\ \A u \in Threads \ {t} : len'[u] = len[u]
    <3>1. buffer[off] \in 0..Size
      BY <2>1, SizeAssumption DEF SizeAssumption
    <3> QED
      BY <2>1, <3>1 DEF TypeOK
  <2>4. TypeOK'
    BY <1>4, <2>2, <2>3 DEF TypeOK, ring
  <2>5. PlacesInv'
    BY RingKept DEF PlacesInv, ring
  <2>6. ReadInv'
    BY <1>1, <1>4, <2>2, <2>3 DEF ReadInv, ring
  <2> QED
    BY <2>4, <2>5, <2>6, RingKept DEF ring
<1> QED
  BY <1>2, <1>3, <1>4 DEF NothingToRead

(* The step that copies: what it moves the reader past is one entry.       *)
LEMMA CopyIs ==
    ASSUME IInv, NEW t \in Threads, do_read_log_to_user(t), NEW r, r = ReaderOf[t], NEW off, off = r_off[r]
    PROVE  /\ r \in readers /\ r \in Readers /\ off \in Offsets /\ Boundary(off) /\ off # w_off
           /\ buffer[off] \in 1..Far(off)
           /\ r_off' = [r_off EXCEPT ![r] = logger_offset(off + buffer[off])]
           /\ ~fixed[r] => len[t] = buffer[off]
<1> USE DEF IInv, do_read_log_to_user
<1>1. r \in readers /\ r \in Readers /\ off \in Offsets /\ Boundary(off) /\ off # w_off
  BY DEF ReadInv, PlacesInv, TypeOK
<1>2. get_entry_len(off) = {buffer[off]} /\ buffer[off] \in 1..Far(off)
  BY <1>1, EntryAt
<1>3. ~fixed[r] => len[t] = buffer[off]
  BY DEF ReadInv
<1> QED
  BY <1>1, <1>2, <1>3

LEMMA CopyKeeps ==
    ASSUME IInv, OneThreadPerFile, NEW t \in Threads, do_read_log_to_user(t)
    PROVE  IInv'
<1> DEFINE r == ReaderOf[t]
           off == r_off[r]
           next == logger_offset(off + buffer[off])
<1>1. /\ r \in readers /\ r \in Readers /\ off \in Offsets /\ Boundary(off) /\ off # w_off
      /\ r_off' = [r_off EXCEPT ![r] = next]
  BY CopyIs
<1>2. next \in Offsets /\ Boundary(next)
  BY <1>1, EntryAt DEF IInv
<1>a. PICK value \in {Error} \cup 0..Size : Returns(t, value)
  BY DEF IInv, TypeOK, do_read_log_to_user
<1>b. /\ len' \in [Threads -> 0..Size] /\ \A u \in Threads \ {t} : len'[u] = len[u]
      /\ ret' \in [Threads -> {Error} \cup 0..Size] /\ pc' = [pc EXCEPT ![t] = "idle"]
  BY <1>a, ReturnTypes DEF IInv, Goto
<1> USE DEF IInv, do_read_log_to_user, ring
<1>3. r_off' \in [Readers -> Offsets] /\ r_off'[r] = next /\ \A s \in Readers \ {r} : r_off'[s] = r_off[s]
  <2> HIDE DEF next
  <2> QED
    BY <1>1, <1>2 DEF TypeOK
<1>4. fixed' \in [Readers -> BOOLEAN] /\ \A s \in Readers \ {r} : fixed'[s] = fixed[s]
  BY DEF TypeOK
<1>5. /\ pc' \in [Threads -> {"idle", "wait", "asleep", "look", "copy"}] /\ pc'[t] = "idle"
      /\ \A u \in Threads \ {t} : pc'[u] = pc[u] /\ len'[u] = len[u]
  BY <1>b DEF TypeOK
<1>6. TypeOK'
  BY <1>3, <1>4, <1>5, <1>b DEF TypeOK
<1>7. PlacesInv'
  BY <1>2, <1>3, RingKept DEF PlacesInv, TypeOK
<1>8. ASSUME NEW u \in Threads
      PROVE  /\ pc'[u] # "idle" => ReaderOf[u] \in readers
             /\ pc'[u] = "copy" => /\ r_off'[ReaderOf[u]] # w_off
                                   /\ ~fixed'[ReaderOf[u]] => len'[u] = buffer[r_off'[ReaderOf[u]]]
  <2>1. CASE u = t
    BY <1>5, <2>1
  <2>2. CASE u # t
    <3>1. ReaderOf[u] \in Readers \ {r}
      BY <2>2, ReaderOfAssumption DEF OneThreadPerFile, ReaderOfAssumption
    <3> QED
      BY <1>3, <1>4, <1>5, <2>2, <3>1 DEF ReadInv
  <2> QED
    BY <2>1, <2>2
<1>9. ReadInv'
  BY <1>8 DEF ReadInv
<1> QED
  BY <1>6, <1>7, <1>9, RingKept

LEMMA ReadKeeps ==
    ASSUME IInv, OneThreadPerFile, NEW t \in Threads,
           logger_read(t) \/ Reads(t) \/ Interrupted(t) \/ ReadFails(t)
    PROVE  IInv'
<1>2. CASE \/ logger_read(t) \/ Interrupted(t)
           \/ ReadWaits(t) /\ UNCHANGED <<len, ret>>
  <2>1. len' \in [Threads -> 0..Size] /\ \A u \in Threads \ {t} : len'[u] = len[u]
    BY <1>2 DEF IInv, TypeOK, logger_read, Interrupted
  <2>2. ReaderOf[t] \in readers
    BY <1>2 DEF IInv, ReadInv, logger_read, ReadWaits, Interrupted
  <2>3. \E place \in {"idle", "wait", "asleep", "look"} : Goto(t, place)
    BY <1>2 DEF logger_read, ReadWaits, Interrupted, Returns
  <2>4. ret' \in [Threads -> {Error} \cup 0..Size]
    BY <1>2, SizeAssumption DEF SizeAssumption, IInv, TypeOK, logger_read, Interrupted
  <2>5. UNCHANGED <<ring, r_off, fixed, waking>>
    BY <1>2 DEF logger_read, ReadWaits, Interrupted
  <2> QED
    BY <2>1, <2>2, <2>3, <2>4, <2>5, PlaceOnly
<1>3. CASE (ReadWaits(t) \/ ReadFails(t)) /\ Returns(t, Error)
  <2>1. /\ Goto(t, "idle")
        /\ len' \in [Threads -> 0..Size] /\ \A u \in Threads \ {t} : len'[u] = len[u]
        /\ ret' \in [Threads -> {Error} \cup 0..Size]
    BY <1>3, ReturnTypes DEF IInv
  <2>2. ReaderOf[t] \in readers
    BY <1>3 DEF IInv, ReadInv, ReadWaits, ReadFails
  <2>3. UNCHANGED <<ring, r_off, fixed, waking>>
    BY <1>3 DEF ReadWaits, ReadFails
  <2> QED
    BY <2>1, <2>2, <2>3, PlaceOnly
<1>4. ReadWaits(t) => UNCHANGED <<len, ret>> \/ Returns(t, Error)
  BY DEF ReadWaits
<1>5. ReadFails(t) => Returns(t, Error)
  BY DEF ReadFails
<1> QED
  BY <1>2, <1>3, <1>4, <1>5, LengthKeeps, CopyKeeps DEF Reads

LEMMA StepsKeep ==
    ASSUME Orderly, IInv, [Next]_vars
    PROVE  IInv'
<1>1. CASE UNCHANGED vars
  BY <1>1, RingKept DEF vars, IInv, TypeOK, PlacesInv, ReadInv, Boundary
<1>2. ASSUME NEW w \in Writers, NEW length \in Lengths, write_log_entry(w, length) PROVE IInv'
  <2>1. PICK n \in 1..MaxLen : Stores(w, n)
    BY <1>2, WriteIs DEF Orderly
  <2> QED
    BY <2>1, WriteKeeps
<1>3. CASE Next
  BY <1>2, <1>3, WakeKeeps, OpenKeeps, ReleaseKeeps, ReadKeeps, FlushKeeps, OverrunKeeps DEF Next, Orderly
<1> QED
  BY <1>1, <1>3

LEMMA Invariant == Orderly /\ Spec => []IInv
<1> SUFFICES ASSUME Orderly PROVE Spec => []IInv
  OBVIOUS
<1>1. IInv /\ [Next]_vars => IInv'
  BY StepsKeep
<1> QED
  BY <1>1, Initially, PTL DEF Spec

LEMMA NowhereInside == IInv => OnBoundary
<1> SUFFICES ASSUME IInv, NEW o \in Offsets, buffer[o] # 0
             PROVE  /\ buffer[o] <= Distance(o, w_off) \/ o = w_off
                    /\ Boundary(logger_offset(o + buffer[o]))
                    /\ \A d \in 1..(buffer[o] - 1) : buffer[logger_offset(o + d)] = 0
  BY DEF IInv, PlacesInv, OnBoundary
<1>1. PICK d \in 1..Size : Behind(d) = o /\ (o # w_off => d = Distance(o, w_off))
  <2>1. CASE o = w_off
    BY SizeAssumption, <2>1, Place DEF SizeAssumption, IInv
  <2>2. CASE o # w_off
    BY SizeAssumption, <2>2, Offset DEF SizeAssumption, IInv, Far
  <2> QED
    BY <2>1, <2>2
<1>2. Here(d) = buffer[o]
  BY <1>1 DEF Here
<1> QED
  BY <1>1, <1>2, WholeEntry DEF IInv

(* What TLC checks as TypeOK.                                              *)
THEOREM TypeCorrect == Orderly /\ Spec => []TypeOK
<1>1. IInv => TypeOK
  BY DEF IInv
<1> QED
  BY <1>1, Invariant, PTL

(* Nothing walks into the middle of an entry, however often the ring has   *)
(* been lapped and whoever is lapped in the middle of a read; for a log    *)
(* whose messages keep to the limit or are cut off at it.                  *)
THEOREM BoundaryHolds == Orderly /\ Spec => []OnBoundary
  BY Invariant, NowhereInside, PTL

(* A read copies one whole entry, the one its reader is at, also when the  *)
(* writer has moved the reader on since the length was taken; if it has    *)
(* not, the length of that entry is what the read returns.                 *)
THEOREM ReadIsOneEntry == Orderly /\ Spec => ReadsOneEntry
<1> SUFFICES ASSUME Orderly PROVE Spec => ReadsOneEntry
  OBVIOUS
<1> DEFINE Passed(r) == /\ r_off[r] # w_off
                        /\ buffer[r_off[r]] # 0
                        /\ r_off'[r] = logger_offset(r_off[r] + buffer[r_off[r]])
<1>1. IInv /\ [Next]_vars =>
        [\A t \in Threads :
           LET r == ReaderOf[t]
           IN  pc[t] = "copy" /\ pc'[t] = "idle" =>
                 /\ r_off'[r] # r_off[r] => Passed(r)
                 /\ ret'[t] # Error => Passed(r) /\ (fixed[r] \/ ret'[t] = buffer[r_off[r]])]_vars
  <2> SUFFICES ASSUME IInv, Next, NEW t \in Threads, NEW r, r = ReaderOf[t],
                      pc[t] = "copy", pc'[t] = "idle"
               PROVE  /\ r_off'[r] # r_off[r] => Passed(r)
                      /\ ret'[t] # Error => Passed(r) /\ (fixed[r] \/ ret'[t] = buffer[r_off[r]])
    OBVIOUS
  <2>1. do_read_log_to_user(t) \/ ReadFails(t)
    <3>1. pc \in [Threads -> {"idle", "wait", "asleep", "look", "copy"}]
      BY DEF IInv, TypeOK
    <3> QED
      BY <3>1 DEF Next, write_log_entry, reading, wake_up, logger_open, logger_release, flush_log,
            show_global_was_overrun, logger_read, Reads, ReadWaits, ReadLength, Interrupted, ReadFails,
            do_read_log_to_user, Goto, Returns
  <2>2. r_off \in [Readers -> Offsets] /\ ret \in [Threads -> {Error} \cup 0..Size]
    BY DEF IInv, TypeOK
  <2>3. CASE do_read_log_to_user(t)
    <3>1. Passed(r) /\ (~fixed[r] => len[t] = buffer[r_off[r]])
      BY <2>2, <2>3, CopyIs
    <3>2. ret'[t] = len[t] \/ ret'[t] = Error
      BY <2>2, <2>3 DEF do_read_log_to_user, Returns
    <3> QED
      BY <3>1, <3>2
  <2>4. CASE ReadFails(t)
    <3>1. ret'[t] = Error
      BY <2>2, <2>4 DEF ReadFails, Returns
    <3>2. r_off' = r_off
      BY <2>4 DEF ReadFails
    <3> QED
      BY <3>1, <3>2
  <2> QED
    BY <2>1, <2>3, <2>4
<1> QED
  BY <1>1, Invariant, PTL DEF Spec, ReadsOneEntry
-----------------------------------------------------------------------------
(* The lists of entries.  f gives, for each start, the entries from there  *)
(* to w_off.                                                               *)

Lists(v, f) ==
    f = [d \in 0..Size |-> IF d = 0 THEN <<>>
                           ELSE IF v[d] = 0 \/ v[d] > d THEN <<0>>
                           ELSE <<v[d]>> \o f[d - v[d]]]

Sums(s, f) == f = [n \in 0..Len(s) |-> IF n = 0 THEN 0 ELSE f[n - 1] + s[n]]

LEMMA ListsAt ==
    ASSUME NEW v, NEW f, Lists(v, f), NEW d \in 0..Size
    PROVE  f[d] = IF d = 0 THEN <<>>
                  ELSE IF v[d] = 0 \/ v[d] > d THEN <<0>>
                  ELSE <<v[d]>> \o f[d - v[d]]
  BY Zenon DEF Lists

LEMMA ListsNone ==
    ASSUME NEW v, NEW f, Lists(v, f)
    PROVE  f[0] = <<>>
<1>1. 0 \in 0..Size
  BY SizeAssumption DEF SizeAssumption
<1> QED
  BY <1>1, ListsAt, Zenon

LEMMA ListsStep ==
    ASSUME NEW v, NEW f, Lists(v, f), NEW d \in 1..Size, v[d] \in 1..d
    PROVE  f[d] = <<v[d]>> \o f[d - v[d]]
<1>1. d \in 0..Size /\ d # 0 /\ ~(v[d] = 0 \/ v[d] > d)
  BY SizeAssumption DEF SizeAssumption
<1> QED
  BY <1>1, ListsAt, Zenon

LEMMA SumsAt ==
    ASSUME NEW s, NEW f, Sums(s, f), NEW n \in 0..Len(s)
    PROVE  f[n] = IF n = 0 THEN 0 ELSE f[n - 1] + s[n]
  BY Zenon DEF Sums

LEMMA ListsExist ==
    ASSUME NEW v \in [1..Size -> 0..MaxLen]
    PROVE  \E f : Lists(v, f)
<1> DEFINE Upto(n, g) == g = [d \in 0..n |-> IF d = 0 THEN <<>>
                                              ELSE IF v[d] = 0 \/ v[d] > d THEN <<0>>
                                              ELSE <<v[d]>> \o g[d - v[d]]]
           Good == {n \in Nat : n <= Size => \E g : Upto(n, g)}
<1> USE SizeAssumption DEF SizeAssumption
<1>1. ASSUME NEW n \in Nat, \A m \in 0..(n - 1) : m \in Good PROVE n \in Good
  <2> SUFFICES ASSUME n <= Size PROVE \E g : Upto(n, g)
    OBVIOUS
  <2>1. CASE n = 0
    <3> DEFINE h == [d \in 0..0 |-> <<>>]
    <3>1. Upto(n, h)
      BY <2>1
    <3> QED
      BY <3>1
  <2>2. CASE n # 0
    <3>0. n - 1 \in 0..(n - 1) /\ n - 1 <= Size /\ n \in 1..Size
      BY <2>2
    <3>1. n - 1 \in Good
      <4> HIDE DEF Good
      <4> QED
        BY <1>1, <3>0
    <3>2. PICK g : Upto(n - 1, g)
      BY <3>0, <3>1
    <3> DEFINE e == IF v[n] = 0 \/ v[n] > n THEN <<0>> ELSE <<v[n]>> \o g[n - v[n]]
               h == [d \in 0..n |-> IF d = n THEN e ELSE g[d]]
    <3>3. ASSUME NEW d \in 0..n
          PROVE  h[d] = IF d = 0 THEN <<>>
                        ELSE IF v[d] = 0 \/ v[d] > d THEN <<0>>
                        ELSE <<v[d]>> \o h[d - v[d]]
      <4>1. CASE d = 0
        BY <2>2, <3>2, <4>1
      <4>2. CASE d # 0
        <5>1. d \in 1..Size /\ v[d] \in Nat
          BY <3>0, <4>2
        <5>2. v[d] # 0 /\ v[d] <= d => d - v[d] \in 0..(n - 1) /\ h[d - v[d]] = g[d - v[d]]
          BY <5>1
        <5>3. CASE d = n
          BY <4>2, <5>1, <5>2, <5>3
        <5>4. CASE d # n
          <6>1. d \in 0..(n - 1) /\ h[d] = g[d]
            BY <5>4
          <6>2. g[d] = IF v[d] = 0 \/ v[d] > d THEN <<0>> ELSE <<v[d]>> \o g[d - v[d]]
            BY <3>2, <4>2, <6>1
          <6> QED
            BY <4>2, <5>1, <5>2, <6>1, <6>2
        <5> QED
          BY <5>3, <5>4
      <4> QED
        BY <4>1, <4>2
    <3>4. h = [d \in 0..n |-> h[d]]
      OBVIOUS
    <3> HIDE DEF h
    <3>5. Upto(n, h)
      BY <3>3, <3>4
    <3> QED
      BY <3>5
  <2> QED
    BY <2>1, <2>2
<1>2. Size \in Good
  <2> HIDE DEF Good
  <2> QED
    BY <1>1, CourseOfValues
<1>3. PICK g : Upto(Size, g)
  <2> HIDE DEF Upto
  <2> QED
    BY <1>2
<1>4. Lists(v, g)
  BY <1>3, Zenon DEF Lists
<1> QED
  BY <1>4

LEMMA ListsUnique ==
    ASSUME NEW v \in [1..Size -> 0..MaxLen], NEW f, NEW g, Lists(v, f), Lists(v, g)
    PROVE  f = g
<1> DEFINE Good == {n \in Nat : n <= Size => f[n] = g[n]}
<1> USE SizeAssumption DEF SizeAssumption
<1>1. ASSUME NEW n \in Nat, \A m \in 0..(n - 1) : m \in Good PROVE n \in Good
  <2> SUFFICES ASSUME n <= Size PROVE f[n] = g[n]
    OBVIOUS
  <2>1. CASE n = 0
    BY <2>1 DEF Lists
  <2>2. CASE n # 0
    <3>1. n \in 1..Size /\ v[n] \in Nat
      BY <2>2
    <3>2. v[n] # 0 /\ v[n] <= n => f[n - v[n]] = g[n - v[n]]
      BY <1>1, <3>1
    <3>3. f[n] = IF v[n] = 0 \/ v[n] > n THEN <<0>> ELSE <<v[n]>> \o f[n - v[n]]
      BY <2>2, ListsAt
    <3>4. g[n] = IF v[n] = 0 \/ v[n] > n THEN <<0>> ELSE <<v[n]>> \o g[n - v[n]]
      BY <2>2, ListsAt
    <3> QED
      BY <3>1, <3>2, <3>3, <3>4
  <2> QED
    BY <2>1, <2>2
<1>2. \A n \in Nat : n \in Good
  <2> HIDE DEF Good
  <2> QED
    BY <1>1, CourseOfValues
<1>3. \A n \in 0..Size : f[n] = g[n]
  BY <1>2
<1> QED
  BY <1>3 DEF Lists

(* Where entries start, the recursion goes from one to the next.           *)
LEMMA ListFrom ==
    ASSUME NEW v \in [1..Size -> 0..MaxLen], Chained(v), NEW f, Lists(v, f), NEW d \in 1..Size, v[d] # 0
    PROVE  /\ v[d] \in 1..MaxLen /\ v[d] \in 1..d
           /\ d - v[d] \in 0..(d - 1) /\ Starts(v, d - v[d])
           /\ f[d] = <<v[d]>> \o f[d - v[d]]
<1> USE SizeAssumption DEF SizeAssumption
<1>1. v[d] \in 1..MaxLen /\ v[d] \in 1..d /\ Starts(v, d - v[d])
  BY DEF Chained
<1>2. f[d] = <<v[d]>> \o f[d - v[d]]
  BY <1>1, ListsStep
<1>3. d - v[d] \in 0..(d - 1)
  BY <1>1
<1> QED
  BY <1>1, <1>2, <1>3

LEMMA SumsExist ==
    ASSUME NEW s \in Seq(Nat)
    PROVE  \E f \in [0..Len(s) -> Nat] : Sums(s, f)
<1> DEFINE Upto(n, g) == g = [k \in 0..n |-> IF k = 0 THEN 0 ELSE g[k - 1] + s[k]]
           Good == {n \in Nat : n <= Len(s) => \E g \in [0..n -> Nat] : Upto(n, g)}
<1>0. Len(s) \in Nat /\ \A n \in 1..Len(s) : s[n] \in Nat
  OBVIOUS
<1>1. ASSUME NEW n \in Nat, \A m \in 0..(n - 1) : m \in Good PROVE n \in Good
  <2> SUFFICES ASSUME n <= Len(s) PROVE \E g \in [0..n -> Nat] : Upto(n, g)
    OBVIOUS
  <2>1. CASE n = 0
    <3> DEFINE h == [k \in 0..0 |-> 0]
    <3>1. h \in [0..n -> Nat] /\ Upto(n, h)
      BY <2>1
    <3> QED
      BY <3>1
  <2>2. CASE n # 0
    <3>0. n - 1 \in 0..(n - 1) /\ n - 1 <= Len(s) /\ n \in 1..Len(s)
      BY <1>0, <2>2
    <3>1. n - 1 \in Good
      <4> HIDE DEF Good
      <4> QED
        BY <1>1, <3>0
    <3>2. PICK g \in [0..(n - 1) -> Nat] : Upto(n - 1, g)
      <4> HIDE DEF Upto
      <4> QED
        BY <3>0, <3>1
    <3> DEFINE h == [k \in 0..n |-> IF k = n THEN g[n - 1] + s[n] ELSE g[k]]
    <3>3. s[n] \in Nat /\ g[n - 1] \in Nat
      BY <1>0, <3>0
    <3>4. h \in [0..n -> Nat]
      BY <3>3
    <3>5. ASSUME NEW k \in 0..n
          PROVE  h[k] = IF k = 0 THEN 0 ELSE h[k - 1] + s[k]
      <4>1. CASE k = 0
        BY <2>2, <3>2, <4>1
      <4>2. CASE k # 0
        <5>1. k - 1 \in 0..(n - 1) /\ h[k - 1] = g[k - 1]
          BY <4>2
        <5>2. k # n => k \in 0..(n - 1) /\ g[k] = g[k - 1] + s[k]
          BY <3>2, <4>2
        <5> QED
          BY <4>2, <5>1, <5>2
      <4> QED
        BY <4>1, <4>2
    <3>6. h = [k \in 0..n |-> h[k]]
      OBVIOUS
    <3> HIDE DEF h
    <3>7. Upto(n, h)
      BY <3>5, <3>6
    <3> QED
      BY <3>4, <3>7
  <2> QED
    BY <2>1, <2>2
<1>2. Len(s) \in Good
  <2> HIDE DEF Good
  <2> QED
    BY <1>0, <1>1, CourseOfValues
<1> QED
  BY <1>2 DEF Sums

LEMMA BytesIs ==
    ASSUME NEW s \in Seq(Nat)
    PROVE  \E f \in [0..Len(s) -> Nat] : Sums(s, f) /\ Promise!Bytes(s) = f[Len(s)]
<1> DEFINE f == CHOOSE f : f = [n \in 0..Len(s) |-> IF n = 0 THEN 0 ELSE f[n - 1] + s[n]]
<1>1. PICK g \in [0..Len(s) -> Nat] : g = [n \in 0..Len(s) |-> IF n = 0 THEN 0 ELSE g[n - 1] + s[n]]
  BY SumsExist DEF Sums
<1>2. f = [n \in 0..Len(s) |-> IF n = 0 THEN 0 ELSE f[n - 1] + s[n]]
  BY <1>1, Zenon
<1>3. Promise!Bytes(s) = f[Len(s)]
  BY DEF Promise!Bytes
<1> HIDE DEF f
<1>4. Sums(s, f)
  BY <1>2 DEF Sums
<1>5. \A n \in 0..Len(s) : f[n] \in Nat
  <2> DEFINE Good == {n \in Nat : n <= Len(s) => f[n] \in Nat}
  <2>1. ASSUME NEW n \in Nat, \A m \in 0..(n - 1) : m \in Good PROVE n \in Good
    <3> SUFFICES ASSUME n <= Len(s) PROVE f[n] \in Nat
      OBVIOUS
    <3>1. f[n] = IF n = 0 THEN 0 ELSE f[n - 1] + s[n]
      BY <1>4, SumsAt
    <3>2. n # 0 => f[n - 1] \in Nat /\ s[n] \in Nat
      BY <2>1
    <3> QED
      BY <3>1, <3>2
  <2>2. \A n \in Nat : n \in Good
    <3> HIDE DEF Good
    <3> QED
      BY <2>1, CourseOfValues
  <2> QED
    BY <2>2
<1>6. f = [n \in 0..Len(s) |-> f[n]]
  BY <1>2, Zenon
<1>7. f \in [0..Len(s) -> Nat]
  BY <1>5, <1>6
<1> QED
  BY <1>3, <1>4, <1>7

LEMMA BytesNone == Promise!Bytes(<<>>) = 0
<1>1. <<>> \in Seq(Nat) /\ Len(<<>>) = 0
  OBVIOUS
<1>2. PICK f : Sums(<<>>, f) /\ Promise!Bytes(<<>>) = f[0]
  BY <1>1, BytesIs
<1>3. f[0] = 0
  BY <1>1, <1>2, SumsAt
<1> QED
  BY <1>2, <1>3

LEMMA BytesFirst ==
    ASSUME NEW b \in Nat, NEW s \in Seq(Nat)
    PROVE  Promise!Bytes(<<b>> \o s) = b + Promise!Bytes(s)
<1> DEFINE t == <<b>> \o s
<1>1. /\ Len(s) \in Nat /\ t \in Seq(Nat) /\ Len(t) = Len(s) + 1 /\ t[1] = b
      /\ \A n \in 1..Len(s) : t[n + 1] = s[n]
  OBVIOUS
<1> HIDE DEF t
<1>2. PICK f \in [0..Len(t) -> Nat] : Sums(t, f) /\ Promise!Bytes(t) = f[Len(t)]
  BY <1>1, BytesIs
<1>3. PICK g \in [0..Len(s) -> Nat] : Sums(s, g) /\ Promise!Bytes(s) = g[Len(s)]
  BY BytesIs
<1> DEFINE Good == {n \in Nat : n <= Len(s) => f[n + 1] = b + g[n]}
<1>4. ASSUME NEW n \in Nat, \A m \in 0..(n - 1) : m \in Good PROVE n \in Good
  <2> SUFFICES ASSUME n <= Len(s) PROVE f[n + 1] = b + g[n]
    OBVIOUS
  <2>1. n \in 0..Len(s) /\ n + 1 \in 0..Len(t)
    BY <1>1
  <2>2. f[n + 1] = f[n] + t[n + 1]
    <3>1. f[n + 1] = IF n + 1 = 0 THEN 0 ELSE f[(n + 1) - 1] + t[n + 1]
      BY <1>2, <2>1, SumsAt
    <3>2. n + 1 # 0 /\ (n + 1) - 1 = n
      OBVIOUS
    <3> QED
      BY <3>1, <3>2
  <2>3. CASE n = 0
    <3>1. f[0] = 0 /\ g[0] = 0
      BY <1>1, <1>2, <1>3, SumsAt
    <3> QED
      BY <1>1, <2>2, <2>3, <3>1
  <2>4. CASE n # 0
    <3>1. g[n] = g[n - 1] + s[n]
      BY <1>3, <2>1, <2>4, SumsAt
    <3>2. n - 1 \in 0..(n - 1) /\ n - 1 <= Len(s) /\ n \in 1..Len(s)
      BY <1>1, <2>4, <2>1
    <3>3. f[n] = b + g[n - 1]
      <4>1. n - 1 \in Good
        <5> HIDE DEF Good
        <5> QED
          BY <1>4, <3>2
      <4> QED
        BY <3>2, <4>1
    <3>4. t[n + 1] = s[n] /\ s[n] \in Nat
      BY <1>1, <3>2
    <3>5. g[n - 1] \in Nat
      <4>1. n - 1 \in 0..Len(s)
        BY <1>1, <3>2
      <4> QED
        BY <4>1
    <3> QED
      BY <2>2, <3>1, <3>2, <3>3, <3>4, <3>5
  <2> QED
    BY <2>3, <2>4
<1>5. Len(s) \in Good
  <2> HIDE DEF Good
  <2> QED
    BY <1>4, CourseOfValues
<1> QED
  BY <1>1, <1>2, <1>3, <1>5 DEF t

LEMMA BytesNat ==
    ASSUME NEW s \in Seq(Nat)
    PROVE  Promise!Bytes(s) \in Nat
<1>1. PICK f \in [0..Len(s) -> Nat] : Sums(s, f) /\ Promise!Bytes(s) = f[Len(s)]
  BY BytesIs
<1>2. Len(s) \in 0..Len(s)
  OBVIOUS
<1> QED
  BY <1>1, <1>2

(* The entries from a start on fill the ring from there to w_off.          *)
LEMMA ListsBytes ==
    ASSUME NEW v \in [1..Size -> 0..MaxLen], Chained(v), NEW f, Lists(v, f)
    PROVE  \A d \in 0..Size : Starts(v, d) => f[d] \in Seq(Nat) /\ Promise!Bytes(f[d]) = d
<1> USE SizeAssumption DEF SizeAssumption
<1> DEFINE Filled(d) == f[d] \in Seq(Nat) /\ Promise!Bytes(f[d]) = d
           Good == {d \in Nat : d <= Size /\ Starts(v, d) => Filled(d)}
<1>1. ASSUME NEW d \in Nat, \A e \in 0..(d - 1) : e \in Good PROVE d \in Good
  <2> SUFFICES ASSUME d <= Size, Starts(v, d) PROVE Filled(d)
    OBVIOUS
  <2>1. CASE d = 0
    <3>1. f[d] = <<>>
      BY <2>1, ListsNone
    <3> QED
      BY <2>1, <3>1, BytesNone
  <2>2. CASE d # 0
    <3>1. d \in 1..Size /\ v[d] # 0
      BY <2>2 DEF Starts
    <3> DEFINE e == d - v[d]
    <3>2. v[d] \in Nat /\ e \in 0..(d - 1) /\ Starts(v, e) /\ f[d] = <<v[d]>> \o f[e] /\ v[d] + e = d
      <4>1. v[d] \in 1..d /\ e \in 0..(d - 1) /\ Starts(v, e) /\ f[d] = <<v[d]>> \o f[e]
        BY <3>1, ListFrom
      <4>2. v[d] + e = d
        BY <4>1
      <4> QED
        BY <4>1, <4>2
    <3> HIDE DEF e
    <3>3. Filled(e)
      <4>1. e \in Good
        <5> HIDE DEF Good
        <5> QED
          BY <1>1, <3>2
      <4>2. e <= Size
        BY <3>1, <3>2
      <4> HIDE DEF Filled
      <4> QED
        BY <3>2, <4>1, <4>2
    <3>4. f[d] \in Seq(Nat)
      BY <3>2, <3>3
    <3>5. Promise!Bytes(f[d]) = v[d] + Promise!Bytes(f[e])
      BY <3>2, <3>3, BytesFirst
    <3> QED
      BY <3>2, <3>3, <3>4, <3>5
  <2> QED
    BY <2>1, <2>2
<1>2. \A d \in Nat : d \in Good
  <2> HIDE DEF Good
  <2> QED
    BY <1>1, CourseOfValues
<1>3. \A d \in 0..Size : Starts(v, d) => Filled(d)
  <2> HIDE DEF Filled
  <2> QED
    BY <1>2
<1> QED
  BY <1>3

LEMMA AppendLast ==
    ASSUME NEW k \in Nat, NEW l \in Nat, NEW s \in Seq(Nat)
    PROVE  <<k>> \o Append(s, l) = Append(<<k>> \o s, l)
  OBVIOUS

(* A write adds its entry to each list.                                    *)
LEMMA ListsShift ==
    ASSUME NEW v \in [1..Size -> 0..MaxLen], Chained(v), NEW length \in 1..MaxLen,
           NEW f, Lists(v, f), NEW g, Lists(Shifted(v, length), g)
    PROVE  \A d \in 0..(Size - length) : Starts(v, d) => g[d + length] = Append(f[d], length)
<1> USE SizeAssumption DEF SizeAssumption
<1> DEFINE u == Shifted(v, length)
           Added(d) == g[d + length] = Append(f[d], length)
           Good == {d \in Nat : d <= Size - length /\ Starts(v, d) => Added(d)}
<1>0. length \in 1..MaxLen /\ length \in 1..Size /\ u[length] = length /\ Lists(u, g)
  BY DEF Shifted
<1> HIDE DEF u
<1>1. ASSUME NEW d \in Nat, \A e \in 0..(d - 1) : e \in Good PROVE d \in Good
  <2> SUFFICES ASSUME d <= Size - length, Starts(v, d) PROVE Added(d)
    OBVIOUS
  <2>1. CASE d = 0
    <3>1. f[d] = <<>>
      BY <2>1, ListsNone
    <3>2. g[length] = <<length>> \o g[length - length] /\ g[0] = <<>> /\ length - length = 0
      <4>1. u[length] \in 1..length
        BY <1>0
      <4>2. g[length] = <<u[length]>> \o g[length - u[length]]
        BY <1>0, <4>1, ListsStep
      <4> QED
        BY <1>0, <4>2, ListsNone
    <3>3. d + length = length
      BY <1>0, <2>1
    <3> QED
      BY <3>1, <3>2, <3>3
  <2>2. CASE d # 0
    <3>1. d \in 1..Size /\ v[d] # 0
      BY <1>0, <2>2 DEF Starts
    <3> DEFINE e == d - v[d]
    <3>2. v[d] \in 1..d /\ e \in 0..(d - 1) /\ Starts(v, e) /\ f[d] = <<v[d]>> \o f[e]
      BY <3>1, ListFrom
    <3>3. e <= Size - length /\ (d + length) - v[d] = e + length
      <4>1. \A k \in 1..d : d - k <= Size - length /\ (d + length) - k = (d - k) + length
        BY <1>0
      <4> QED
        BY <3>2, <4>1
    <3> HIDE DEF e
    <3>4. Added(e)
      <4>1. e \in Good
        <5> HIDE DEF Good
        <5> QED
          BY <1>1, <3>2
      <4> HIDE DEF Added
      <4> QED
        BY <3>2, <3>3, <4>1
    <3>5. d + length \in 1..Size /\ u[d + length] = v[d]
      <4>1. d + length \in 1..Size /\ ~(d + length < length) /\ d + length # length /\ (d + length) - length = d
        BY <1>0, <3>1
      <4> QED
        BY <4>1 DEF u, Shifted
    <3>6. g[d + length] = <<v[d]>> \o g[e + length]
      <4>1. u[d + length] \in 1..(d + length)
        BY <1>0, <3>1, <3>2, <3>5
      <4>2. g[d + length] = <<u[d + length]>> \o g[(d + length) - u[d + length]]
        BY <1>0, <3>5, <4>1, ListsStep
      <4> QED
        BY <3>3, <3>5, <4>2
    <3>7. f[e] \in Seq(Nat)
      <4>1. e \in 0..Size
        BY <3>1, <3>2
      <4> QED
        BY <3>2, <4>1, ListsBytes
    <3>8. <<v[d]>> \o Append(f[e], length) = Append(<<v[d]>> \o f[e], length)
      <4>1. \A k \in Nat, s \in Seq(Nat) : <<k>> \o Append(s, length) = Append(<<k>> \o s, length)
        <5>1. length \in Nat
          BY <1>0
        <5> QED
          BY <5>1, AppendLast
      <4>2. v[d] \in Nat
        BY <3>2
      <4> QED
        BY <3>7, <4>1, <4>2
    <3> QED
      BY <3>2, <3>4, <3>6, <3>8
  <2> QED
    BY <2>1, <2>2
<1>2. \A d \in Nat : d \in Good
  <2> HIDE DEF Good
  <2> QED
    BY <1>1, CourseOfValues
<1>3. \A d \in 0..(Size - length) : Starts(v, d) => Added(d)
  <2> HIDE DEF Added
  <2> QED
    BY <1>0, <1>2
<1> QED
  BY <1>3

LEMMA SubSeqRest ==
    ASSUME NEW k \in Nat, NEW s \in Seq(Nat), NEW t, t = <<k>> \o s
    PROVE  /\ t \in Seq(Nat) /\ Len(t) = Len(s) + 1 /\ Len(s) \in Nat
           /\ SubSeq(t, 1, 0) = <<>> /\ SubSeq(t, 2, Len(t)) = s
  OBVIOUS

LEMMA SubSeqFirst ==
    ASSUME NEW k \in Nat, NEW s \in Seq(Nat), NEW t, t = <<k>> \o s, NEW n \in 1..Len(s)
    PROVE  /\ SubSeq(t, n + 2, Len(t)) = SubSeq(s, n + 1, Len(s))
           /\ SubSeq(t, 1, n) = <<k>> \o SubSeq(s, 1, n - 1)
           /\ SubSeq(s, 1, n - 1) \in Seq(Nat)
<1>1. SubSeq(t, n + 2, Len(t)) = SubSeq(s, n + 1, Len(s))
  OBVIOUS
<1>2. SubSeq(t, 1, n) = <<k>> \o SubSeq(s, 1, n - 1)
  OBVIOUS
<1>3. SubSeq(s, 1, n - 1) \in Seq(Nat)
  OBVIOUS
<1> QED
  BY <1>1, <1>2, <1>3

(* To walk from a start over all entries that start beyond K is to drop    *)
(* the oldest, and no more than it takes to come back to K.                *)
LEMMA ListsDrop ==
    ASSUME NEW v \in [1..Size -> 0..MaxLen], Chained(v), NEW f, Lists(v, f),
           NEW K \in 0..Size, NEW T \in 0..K, Starts(v, T), \A d \in (T + 1)..K : ~Starts(v, d)
    PROVE  \A D \in 0..Size : Starts(v, D) /\ D > T =>
              \E n \in 1..Len(f[D]) : /\ f[T] = SubSeq(f[D], n + 1, Len(f[D]))
                                      /\ Promise!Bytes(SubSeq(f[D], 1, n - 1)) < D - K
<1> USE SizeAssumption DEF SizeAssumption
<1> DEFINE Drops(D, n) == /\ f[T] = SubSeq(f[D], n + 1, Len(f[D]))
                          /\ Promise!Bytes(SubSeq(f[D], 1, n - 1)) < D - K
           Good == {D \in Nat : D <= Size /\ Starts(v, D) /\ D > T => \E n \in 1..Len(f[D]) : Drops(D, n)}
<1>1. ASSUME NEW D \in Nat, \A e \in 0..(D - 1) : e \in Good PROVE D \in Good
  <2> SUFFICES ASSUME D <= Size, Starts(v, D), D > T PROVE \E n \in 1..Len(f[D]) : Drops(D, n)
    OBVIOUS
  <2>1. D \in 1..Size /\ v[D] # 0 /\ D > K
    BY DEF Starts
  <2> DEFINE e == D - v[D]
  <2>2. v[D] \in 1..D /\ e \in 0..(D - 1) /\ Starts(v, e) /\ f[D] = <<v[D]>> \o f[e]
    BY <2>1, ListFrom
  <2>3. v[D] \in Nat /\ D = e + v[D]
    BY <2>2
  <2>4. T <= e
    <3> SUFFICES ASSUME T > e PROVE FALSE
      BY <2>2
    <3>1. T \in (D - v[D] + 1)..(D - 1) /\ T \in 1..Size /\ T # 0
      BY <2>2
    <3>2. v[T] = 0
      BY <2>1, <3>1 DEF Chained
    <3> QED
      BY <3>1, <3>2 DEF Starts
  <2> HIDE DEF e
  <2>5. f[e] \in Seq(Nat)
    <3>1. e \in 0..Size
      BY <2>1, <2>2
    <3> QED
      BY <2>2, <3>1, ListsBytes
  <2>6. CASE e = T
    <3>1. /\ Len(f[D]) = Len(f[e]) + 1 /\ Len(f[e]) \in Nat
          /\ SubSeq(f[D], 2, Len(f[D])) = f[e] /\ SubSeq(f[D], 1, 0) = <<>>
      BY <2>2, <2>3, <2>5, SubSeqRest
    <3>2. 0 < D - K
      BY <2>1
    <3>3. Drops(D, 1)
      <4>1. 1 + 1 = 2 /\ 1 - 1 = 0
        OBVIOUS
      <4>2. f[T] = SubSeq(f[D], 1 + 1, Len(f[D]))
        BY <2>6, <3>1, <4>1
      <4>3. Promise!Bytes(SubSeq(f[D], 1, 1 - 1)) = 0
        BY <3>1, <4>1, BytesNone
      <4> QED
        BY <3>2, <4>2, <4>3
    <3>4. 1 \in 1..Len(f[D])
      BY <3>1
    <3> HIDE DEF Drops
    <3> QED
      BY <3>3, <3>4
  <2>7. CASE e # T
    <3>1. e > T
      BY <2>2, <2>4, <2>7
    <3>2. PICK n \in 1..Len(f[e]) : Drops(e, n)
      <4>1. e \in Good
        <5> HIDE DEF Good
        <5> QED
          BY <1>1, <2>2
      <4>2. e <= Size
        BY <2>1, <2>2
      <4> HIDE DEF Drops
      <4> QED
        BY <2>2, <3>1, <4>1, <4>2
    <3>3. /\ Len(f[D]) = Len(f[e]) + 1 /\ Len(f[e]) \in Nat
          /\ SubSeq(f[D], n + 2, Len(f[D])) = SubSeq(f[e], n + 1, Len(f[e]))
          /\ SubSeq(f[D], 1, n) = <<v[D]>> \o SubSeq(f[e], 1, n - 1)
          /\ SubSeq(f[e], 1, n - 1) \in Seq(Nat)
      <4>1. v[D] \in Nat /\ f[e] \in Seq(Nat) /\ f[D] = <<v[D]>> \o f[e] /\ n \in 1..Len(f[e])
        BY <2>2, <2>3, <2>5, <3>2
      <4>2. Len(f[D]) = Len(f[e]) + 1 /\ Len(f[e]) \in Nat
        BY <4>1, SubSeqRest
      <4>3. /\ SubSeq(f[D], n + 2, Len(f[D])) = SubSeq(f[e], n + 1, Len(f[e]))
            /\ SubSeq(f[D], 1, n) = <<v[D]>> \o SubSeq(f[e], 1, n - 1)
            /\ SubSeq(f[e], 1, n - 1) \in Seq(Nat)
        BY ONLY <4>1, SubSeqFirst, Zenon
      <4> QED
        BY <4>2, <4>3
    <3>4. Promise!Bytes(SubSeq(f[D], 1, n)) = v[D] + Promise!Bytes(SubSeq(f[e], 1, n - 1))
      BY <2>3, <3>3, BytesFirst
    <3>5. Promise!Bytes(SubSeq(f[e], 1, n - 1)) \in Nat /\ Promise!Bytes(SubSeq(f[e], 1, n - 1)) < e - K
      BY <3>2, <3>3, BytesNat
    <3>6. Promise!Bytes(SubSeq(f[D], 1, n)) < D - K
      BY <2>2, <2>3, <3>4, <3>5
    <3>7. n + 1 \in 1..Len(f[D]) /\ (n + 1) + 1 = n + 2 /\ (n + 1) - 1 = n
      BY <3>3
    <3>8. Drops(D, n + 1)
      <4>1. f[T] = SubSeq(f[e], n + 1, Len(f[e]))
        BY <3>2
      <4>2. f[T] = SubSeq(f[D], (n + 1) + 1, Len(f[D]))
        BY ONLY <4>1, <3>3, <3>7, Zenon
      <4>3. Promise!Bytes(SubSeq(f[D], 1, (n + 1) - 1)) < D - K
        BY ONLY <3>6, <3>7, Zenon
      <4> QED
        BY ONLY <4>2, <4>3, Zenon
    <3> HIDE DEF Drops
    <3> QED
      BY <3>7, <3>8
  <2> QED
    BY <2>6, <2>7
<1>2. \A D \in Nat : D \in Good
  <2> HIDE DEF Good
  <2> QED
    BY <1>1, CourseOfValues
<1>3. \A D \in 0..Size : Starts(v, D) /\ D > T => \E n \in 1..Len(f[D]) : Drops(D, n)
  <2> HIDE DEF Drops
  <2> QED
    BY <1>2
<1> QED
  BY <1>3
-----------------------------------------------------------------------------
(* The refinement of LogPromise.                                           *)

LEMMA LastIs ==
    ASSUME TypeOK
    PROVE  Lists(View, Last)
<1> DEFINE Next1(f) == [d \in 0..Size |->
                          IF d = 0 THEN <<>>
                          ELSE LET l == buffer[Behind(d)]
                               IN  IF l = 0 \/ l > d THEN <<0>> ELSE <<l>> \o f[d - l]]
<1>1. \A d \in 0..Size : d # 0 => View[d] = buffer[Behind(d)]
  BY SizeAssumption, ViewIs DEF SizeAssumption, Here
<1>2. ASSUME NEW f PROVE Lists(View, f) <=> f = Next1(f)
  BY <1>1, Zenon DEF Lists
<1>3. PICK g : g = Next1(g)
  BY <1>2, ViewIs, ListsExist
<1>4. Last = CHOOSE f : f = Next1(f)
  BY DEF Last
<1>5. Last = Next1(Last)
  BY <1>3, <1>4, Zenon
<1> QED
  BY <1>2, <1>5

LEMMA LastThen == TypeOK' => Lists(View', Last')
<1>1. TypeOK => Lists(View, Last)
  BY LastIs
<1>2. (TypeOK => Lists(View, Last))'
  BY <1>1, PTL
<1> QED
  BY <1>2 DEF Lists

(* What a write does to the list of the reader, or of head, at off.        *)
LEMMA WriteWritten ==
    ASSUME IInv, TypeOK', NEW length \in 1..MaxLen, do_write_log(length, length),
           NEW off \in Offsets, Boundary(off), NEW p, p = Position(off, length)
    PROVE  (Last')[Distance(p, w_off')] \in Promise!Written(Last[Far(off)], length)
<1> DEFINE D == Far(off)
           list == Last[D]
<1>1. /\ View \in [1..Size -> 0..MaxLen] /\ Chained(View) /\ Lists(View, Last)
      /\ View' = Shifted(View, length) /\ Lists(Shifted(View, length), Last')
  BY ViewIs, LastIs, LastThen, WriteShifts DEF IInv
<1>2. D \in 0..(Size - 1) /\ D \in 0..Size /\ Starts(View, D) /\ length \in 1..MaxLen /\ Size \in Nat /\ length <= Size
  BY Offset, BoundaryIs, SizeAssumption DEF SizeAssumption, IInv
<1>3. list \in Seq(Nat) /\ Promise!Bytes(list) = D
  BY <1>1, <1>2, ListsBytes
<1>4. ASSUME NEW T \in 0..D, NEW q \in Offsets, q = p, Far(q) = T, T + length < Size, Starts(View, T)
      PROVE  (Last')[Distance(p, w_off')] = Append(Last[T], length)
  <2>1. Far(q)' = T + length
    BY <1>4, WriteShifts DEF IInv
  <2>2. Distance(p, w_off') = T + length
    BY <1>4, <2>1 DEF Far
  <2>3. T \in 0..(Size - length)
    BY <1>2, <1>4
  <2> QED
    BY <1>1, <1>4, <2>2, <2>3, ListsShift
<1> HIDE DEF D, list
<1>5. CASE D + length < Size
  <2>1. ~Lapped(off, length) /\ p = off
    BY <1>2, <1>5, LappedIs DEF IInv, D, Position
  <2>2. (Last')[Distance(p, w_off')] = Append(list, length)
    BY <1>2, <1>4, <1>5, <2>1 DEF D, list
  <2> QED
    BY <1>3, <1>5, <2>2 DEF Promise!Written, list, D
<1>6. CASE D + length >= Size
  <2>1. Lapped(off, length)
    BY <1>6, LappedIs DEF IInv, D
  <2>2. PICK n \in length..D :
           /\ p = Behind(D - n) /\ Starts(View, D - n)
           /\ \A m \in length..(n - 1) : ~Starts(View, D - m)
    BY <2>1, NextEntry DEF IInv, D, Position
  <2> DEFINE T == D - n
             K == D - length
  <2>3. T \in 0..K /\ T \in 0..D /\ T + length < Size /\ K \in 0..Size /\ D > T /\ D - K = length /\ T \in 0..Size /\ T < Size
    BY <1>2, <2>2
  <2>4. \A d \in (T + 1)..K : ~Starts(View, d)
    <3> SUFFICES ASSUME NEW d \in (T + 1)..K PROVE ~Starts(View, d)
      OBVIOUS
    <3>1. D - d \in length..(n - 1) /\ D - (D - d) = d
      BY <1>2, <2>2
    <3> QED
      BY <2>2, <3>1
  <2>5. p \in Offsets /\ Far(p) = T /\ Starts(View, T)
    BY <2>2, <2>3, Place DEF IInv
  <2>6. (Last')[Distance(p, w_off')] = Append(Last[T], length)
    BY <1>4, <2>3, <2>5
  <2> HIDE DEF T, K
  <2>7. PICK k \in 1..Len(list) : /\ Last[T] = SubSeq(list, k + 1, Len(list))
                                 /\ Promise!Bytes(SubSeq(list, 1, k - 1)) < length
    BY <1>1, <1>2, <2>3, <2>4, <2>5, ListsDrop DEF list
  <2>8. ~(Promise!Bytes(list) + length < Size)
    BY <1>2, <1>3, <1>6
  <2>9. (Last')[Distance(p, w_off')] = Append(SubSeq(list, k + 1, Len(list)), length)
    BY <2>6, <2>7
  <2> QED
    BY <2>7, <2>8, <2>9 DEF Promise!Written, list, D
<1> QED
  BY <1>2, <1>5, <1>6

LEMMA WritePromised ==
    ASSUME IInv, NEW w \in Writers, NEW length \in 1..MaxLen, Stores(w, length)
    PROVE  Promise!Write(length)
<1>1. TypeOK'
  BY WriteTypes
<1>2. do_write_log(length, length) /\ fix_up_readers(length) /\ readers' = readers
  BY DEF Stores
<1>3. /\ head' = Position(head, length) /\ head \in Offsets /\ Boundary(head)
      /\ \A r \in readers : r \in Readers /\ r_off'[r] = Position(r_off[r], length) /\ r_off[r] \in Offsets /\ Boundary(r_off[r])
  BY <1>2 DEF IInv, TypeOK, PlacesInv, Position, fix_up_readers
<1>4. UnreadFrom(head)' \in Promise!Written(UnreadFrom(head), length)
  BY <1>1, <1>2, <1>3, WriteWritten DEF UnreadFrom, Far
<1>5. ASSUME NEW r \in readers
      PROVE  UnreadFrom(r_off[r])' \in Promise!Written(UnreadFrom(r_off[r]), length)
  BY <1>1, <1>2, <1>3, WriteWritten DEF UnreadFrom, Far
<1> QED
  BY <1>2, <1>3, <1>4, <1>5 DEF Promise!Write, UnreadFrom

(* The lists are those of the ring: while nothing is written they stay.    *)
LEMMA LastKept ==
    ASSUME TypeOK, TypeOK', UNCHANGED <<buffer, w_off>>
    PROVE  \A off \in Offsets : Last'[Distance(off, w_off')] = UnreadFrom(off)
<1>1. View' = View /\ View \in [1..Size -> 0..MaxLen]
  BY ViewIs DEF View, Here, Behind
<1>2. Lists(View, Last) /\ Lists(View, Last')
  BY <1>1, LastIs, LastThen
<1>3. Last' = Last
  BY <1>1, <1>2, ListsUnique
<1> QED
  BY <1>3 DEF UnreadFrom

LEMMA NothingUnread ==
    ASSUME TypeOK
    PROVE  UnreadFrom(w_off) = <<>>
<1>1. Distance(w_off, w_off) = 0
  BY DEF TypeOK, Offsets, Distance
<1>2. Last[0] = <<>>
  BY LastIs, ListsNone
<1> QED
  BY <1>1, <1>2 DEF UnreadFrom

Unread == [r \in Readers |-> IF r \in readers THEN UnreadFrom(r_off[r]) ELSE <<>>]

LEMMA Stutter ==
    ASSUME IInv, TypeOK', UNCHANGED <<buffer, w_off, head, readers, r_off>>
    PROVE  UNCHANGED Promise!vars
<1>1. UnreadFrom(head)' = UnreadFrom(head)
  BY LastKept DEF IInv, TypeOK, UnreadFrom
<1>2. ASSUME NEW r \in readers PROVE UnreadFrom(r_off[r])' = UnreadFrom(r_off[r])
  BY LastKept DEF IInv, TypeOK, UnreadFrom
<1>3. Unread' = Unread
  BY <1>2 DEF Unread
<1> QED
  BY <1>1, <1>3 DEF Promise!vars, Unread

LEMMA OpenPromised ==
    ASSUME IInv, TypeOK', NEW r \in Readers, logger_open(r)
    PROVE  Promise!Open(r)
<1> USE DEF logger_open
<1>1. head \in Offsets /\ \A s \in readers : r_off[s] \in Offsets /\ s # r /\ s \in Readers
  BY DEF IInv, TypeOK
<1>2. r_off'[r] = head /\ \A s \in Readers \ {r} : r_off'[s] = r_off[s]
  BY DEF IInv, TypeOK
<1>3. UnreadFrom(head)' = UnreadFrom(head)
  BY <1>1, LastKept DEF IInv, UnreadFrom
<1>4. UnreadFrom(r_off[r])' = UnreadFrom(head)
  BY <1>1, <1>2, LastKept DEF IInv, UnreadFrom
<1>5. ASSUME NEW s \in readers PROVE UnreadFrom(r_off[s])' = UnreadFrom(r_off[s])
  BY <1>1, <1>2, LastKept DEF IInv, UnreadFrom
<1>6. Unread' = [Unread EXCEPT ![r] = UnreadFrom(head)]
  BY <1>4, <1>5 DEF Unread
<1> QED
  BY <1>3, <1>6 DEF Promise!Open, Unread

LEMMA ClosePromised ==
    ASSUME IInv, TypeOK', NEW r \in Readers, logger_release(r)
    PROVE  Promise!Close(r)
<1> USE DEF logger_release
<1>1. head \in Offsets /\ \A s \in readers : r_off[s] \in Offsets /\ s \in Readers
  BY DEF IInv, TypeOK
<1>2. \A s \in Readers \ {r} : r_off'[s] = r_off[s]
  BY DEF IInv, TypeOK
<1>3. UnreadFrom(head)' = UnreadFrom(head)
  BY <1>1, LastKept DEF IInv, UnreadFrom
<1>4. ASSUME NEW s \in readers, s # r PROVE UnreadFrom(r_off[s])' = UnreadFrom(r_off[s])
  BY <1>1, <1>2, <1>4, LastKept DEF IInv, UnreadFrom
<1>5. Unread' = [Unread EXCEPT ![r] = <<>>]
  BY <1>4 DEF Unread
<1> QED
  BY <1>3, <1>5 DEF Promise!Close, Unread

LEMMA FlushPromised ==
    ASSUME IInv, TypeOK', flush_log
    PROVE  Promise!Flush
<1> USE DEF flush_log
<1>1. UnreadFrom(w_off) = <<>> /\ w_off \in Offsets
  BY NothingUnread DEF IInv, TypeOK
<1>2. UnreadFrom(head)' = <<>>
  BY <1>1, LastKept DEF IInv, UnreadFrom
<1>3. ASSUME NEW r \in readers PROVE UnreadFrom(r_off[r])' = <<>>
  <2>1. r_off'[r] = w_off
    BY DEF IInv, TypeOK
  <2> QED
    BY <1>1, <2>1, LastKept DEF IInv, UnreadFrom
<1>4. Unread' = [r \in Readers |-> <<>>]
  BY <1>3 DEF Unread
<1> QED
  BY <1>2, <1>4 DEF Promise!Flush, Unread

(* What a read takes is the first entry of its reader's list.              *)
LEMMA ReadPromised ==
    ASSUME IInv, TypeOK', NEW t \in Threads, do_read_log_to_user(t)
    PROVE  Promise!Read(ReaderOf[t])
<1> DEFINE r == ReaderOf[t]
           off == r_off[r]
           l == buffer[off]
           next == logger_offset(off + l)
<1>1. /\ r \in readers /\ r \in Readers /\ off \in Offsets /\ Boundary(off) /\ off # w_off /\ l # 0
      /\ r_off' = [r_off EXCEPT ![r] = next]
  BY CopyIs DEF Boundary
<1>2. UNCHANGED <<buffer, w_off, head, readers>>
  BY DEF do_read_log_to_user, ring
<1>3. l \in 1..MaxLen /\ l \in 1..Far(off) /\ next = Behind(Far(off) - l) /\ next \in Offsets
  BY <1>1, EntryAt DEF IInv
<1>4. Far(off) \in 1..Size /\ Far(off) < Size /\ View[Far(off)] = l
  <2>1. Far(off) \in 1..Size /\ Far(off) < Size /\ Behind(Far(off)) = off
    BY <1>1, Offset, SizeAssumption DEF IInv, SizeAssumption
  <2> QED
    BY <2>1, ViewIs DEF IInv, Here
<1>5. Far(next) = Far(off) - l /\ Far(next) \in 0..Size
  <2>1. PICK d \in 0..Size : d = Far(off) - l /\ d < Size
    <3>1. Far(off) - l \in 0..Size /\ Far(off) - l < Size
      <4> HIDE DEF l, next, off
      <4> QED
        BY SizeAssumption, <1>3, <1>4 DEF SizeAssumption
    <3> QED
      BY <3>1
  <2>2. Far(Behind(d)) = d
    BY <2>1, Place DEF IInv
  <2>3. Behind(d) = next
    BY <1>3, <2>1
  <2> QED
    BY <2>1, <2>2, <2>3
<1>6. UnreadFrom(off) = <<l>> \o UnreadFrom(next)
  <2>1. Last[Far(off)] = <<l>> \o Last[Far(off) - l]
    BY <1>1, <1>4, LastIs, ViewIs, ListFrom DEF IInv
  <2> QED
    BY <1>5, <2>1 DEF UnreadFrom, Far
<1>7. UnreadFrom(next) \in Seq(Nat)
  <2>1. Far(next) \in 0..Size /\ Starts(View, Far(next)) /\ View \in [1..Size -> 0..MaxLen]
    <3>1. View \in [1..Size -> 0..MaxLen] /\ Chained(View) /\ Starts(View, Far(off) - View[Far(off)])
      BY <1>1, <1>4, ViewIs DEF IInv, Chained
    <3> QED
      BY <1>4, <1>5, <3>1
  <2>2. Last[Far(next)] \in Seq(Nat)
    BY <2>1, LastIs, ListsBytes DEF IInv
  <2> QED
    BY <2>2 DEF UnreadFrom, Far
<1> HIDE DEF l, next
<1>8. UnreadFrom(off) # <<>> /\ Tail(UnreadFrom(off)) = UnreadFrom(next)
  <2>1. \A s \in Seq(Nat), k \in Nat : <<k>> \o s # <<>> /\ Tail(<<k>> \o s) = s
    OBVIOUS
  <2>2. l \in Nat
    BY <1>3
  <2> QED
    BY <1>6, <1>7, <2>1, <2>2
<1> HIDE DEF off
<1>9. UnreadFrom(head)' = UnreadFrom(head)
  BY <1>2, LastKept DEF IInv, TypeOK, UnreadFrom
<1>10. r_off'[r] = next /\ \A s \in Readers \ {r} : r_off'[s] = r_off[s]
  BY <1>1 DEF IInv, TypeOK
<1>11. UnreadFrom(r_off[r])' = UnreadFrom(next)
  BY <1>2, <1>3, <1>10, LastKept DEF IInv, UnreadFrom
<1>12. ASSUME NEW s \in readers, s # r PROVE UnreadFrom(r_off[s])' = UnreadFrom(r_off[s])
  <2>1. s \in Readers /\ r_off[s] \in Offsets
    BY DEF IInv, TypeOK
  <2> QED
    BY <1>2, <1>10, <1>12, <2>1, LastKept DEF IInv, UnreadFrom
<1>13. Unread[r] = UnreadFrom(off)
  BY <1>1 DEF Unread, off
<1>14. Unread' = [Unread EXCEPT ![r] = Tail(@)]
  BY <1>1, <1>2, <1>8, <1>11, <1>12, <1>13 DEF Unread
<1> QED
  BY <1>2, <1>8, <1>9, <1>13, <1>14 DEF Promise!Read, Unread

LEMMA NextPromised ==
    ASSUME Orderly, IInv, [Next]_vars
    PROVE  [Promise!Next]_(Promise!vars)
<1>0. TypeOK'
  BY StepsKeep DEF IInv
<1>1. CASE UNCHANGED <<buffer, w_off, head, readers, r_off>>
  BY <1>0, <1>1, Stutter
<1>2. ASSUME NEW w \in Writers, NEW length \in Lengths, write_log_entry(w, length)
      PROVE  Promise!Next
  <2>1. PICK n \in 1..MaxLen : n = header_len(length) /\ Stores(w, n)
    BY <1>2, WriteIs DEF Orderly
  <2>2. Promise!Write(n) /\ n \in {header_len(l) : l \in Lengths}
    BY <2>1, WritePromised
  <2> QED
    BY <2>2 DEF Promise!Next
<1>3. CASE \E r \in Readers : logger_open(r) \/ logger_release(r)
  BY <1>0, <1>3, OpenPromised, ClosePromised DEF Promise!Next
<1>4. CASE flush_log
  BY <1>0, <1>4, FlushPromised DEF Promise!Next
<1>5. CASE \E t \in Threads : do_read_log_to_user(t)
  BY <1>0, <1>5, ReadPromised, ReaderOfAssumption DEF Promise!Next, ReaderOfAssumption
<1>6. CASE \/ UNCHANGED vars
           \/ \E w \in Writers : wake_up(w)
           \/ show_global_was_overrun
           \/ \E t \in Threads : logger_read(t) \/ ReadWaits(t) \/ ReadLength(t) \/ Interrupted(t) \/ ReadFails(t)
  BY <1>1, <1>6 DEF vars, ring, wake_up, show_global_was_overrun, logger_read, ReadWaits, ReadLength, Interrupted, ReadFails
<1> QED
  BY <1>2, <1>3, <1>4, <1>5, <1>6 DEF Next, Reads

LEMMA InitPromised == Init => Promise!Init
<1> SUFFICES ASSUME Init PROVE Promise!Init
  OBVIOUS
<1>1. UnreadFrom(head) = <<>>
  BY Initially, NothingUnread DEF IInv, Init
<1> QED
  BY <1>1 DEF Init, Promise!Init

(* The ring keeps what LogPromise promises: whatever the size of the log,  *)
(* the entries and the number of readers, a reader passes each entry once, *)
(* whole and in order, and loses only the oldest ones, only to a writer    *)
(* that they leave no room, and no more of them than make room.            *)
THEOREM PromiseKept == Orderly /\ Spec => KeepsPromise
<1> SUFFICES ASSUME Orderly PROVE Spec => KeepsPromise
  OBVIOUS
<1>1. IInv /\ [Next]_vars => [Promise!Next]_(Promise!vars)
  BY NextPromised
<1> QED
  BY <1>1, InitPromised, Invariant, PTL DEF Spec, KeepsPromise, Promise!Spec
=============================================================================
