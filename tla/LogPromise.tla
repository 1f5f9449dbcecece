----------------------------- MODULE LogPromise -----------------------------
(***************************************************************************)
(* What a log device promises, with no mention of a ring, of offsets or of *)
(* locks: a reader passes every entry once and in order, but for the       *)
(* oldest, which may be taken from it when an entry is written that does   *)
(* not fit beside what the reader has not read.  An entry is its length.   *)
(* What the call returns with the entry is not part of it.  Logger         *)
(* implements this module.                                                 *)
(***************************************************************************)
EXTENDS Integers, Sequences

CONSTANTS Readers, Lengths, Size

VARIABLES
    kept,    \* the entries a new reader gets
    unread,  \* for each reader those it has not read
    opened   \* the readers

vars == <<kept, unread, opened>>

Bytes(entries) ==
    LET upto[n \in 0..Len(entries)] == IF n = 0 THEN 0 ELSE upto[n - 1] + entries[n]
    IN  upto[Len(entries)]

(* Entries are dropped from the front only when they and the new one would *)
(* fill the log, and no more than it takes to free the length of the new   *)
(* one.                                                                    *)
Written(entries, length) ==
    IF Bytes(entries) + length < Size
    THEN {Append(entries, length)}
    ELSE {Append(SubSeq(entries, n + 1, Len(entries)), length) :
            n \in {k \in 1..Len(entries) : Bytes(SubSeq(entries, 1, k - 1)) < length}}

Init ==
    /\ kept = <<>>
    /\ unread = [r \in Readers |-> <<>>]
    /\ opened = {}

Open(r) ==
    /\ r \notin opened
    /\ opened' = opened \cup {r}
    /\ unread' = [unread EXCEPT ![r] = kept]
    /\ UNCHANGED kept

Close(r) ==
    /\ r \in opened
    /\ opened' = opened \ {r}
    /\ unread' = [unread EXCEPT ![r] = <<>>]
    /\ UNCHANGED kept

Read(r) ==
    /\ unread[r] # <<>>
    /\ unread' = [unread EXCEPT ![r] = Tail(@)]
    /\ UNCHANGED <<kept, opened>>

Write(length) ==
    /\ kept' \in Written(kept, length)
    /\ DOMAIN unread' = Readers
    /\ \A r \in opened : unread'[r] \in Written(unread[r], length)
    /\ \A r \in Readers \ opened : unread'[r] = <<>>
    /\ UNCHANGED opened

Flush ==
    /\ kept' = <<>>
    /\ unread' = [r \in Readers |-> <<>>]
    /\ UNCHANGED opened

Next ==
    \/ \E r \in Readers : Open(r) \/ Close(r) \/ Read(r)
    \/ \E length \in Lengths : Write(length)
    \/ Flush

Spec == Init /\ [][Next]_vars
=============================================================================
