------------------------------- MODULE Logger -------------------------------
(***************************************************************************)
(* One log device of drivers/staging/android/logger.c: a ring of bytes     *)
(* whose writers never wait.  A writer that is about to overwrite entries  *)
(* which a reader has not read moves the reader on.                        *)
(*                                                                         *)
(* A section under bufflock is one action.  read() has several of them,    *)
(* and between the one that takes the length of the entry and the one that *)
(* copies it anything may happen.  Of the bytes of the ring the model      *)
(* keeps the ones that count: the length at the start of each entry.       *)
(***************************************************************************)
EXTENDS Integers, FiniteSets, Sequences

CONSTANTS
    Readers,       \* struct logger_reader, one for each open file
    Threads,       \* threads that read
    ReaderOf,      \* the file a thread reads from
    Writers,
    Size,          \* log->size
    MaxLen,        \* LOGGER_ENTRY_MAX_LEN
    Lengths,       \* lengths of what is to be written, with a header
    Events,        \* the log is log_events; else main or radio
    FlushAnyTime   \* the log is flushed also between the two sections of a
                   \* read, as the code allows

(* The first is what DEFINE_LOGGER_DEVICE ought to ask for: see README.    *)
ASSUME SizeAssumption == Size \in Nat /\ MaxLen \in Nat \ {0} /\ Size >= 2 * MaxLen
ASSUME LengthsAssumption == Lengths \subseteq 1..Size /\ Lengths # {}
ASSUME EventsAssumption == Events \in BOOLEAN
ASSUME ReaderOfAssumption == ReaderOf \in [Threads -> Readers]
ASSUME FlushAnyTimeAssumption == FlushAnyTime \in BOOLEAN

VARIABLES
    buffer,       \* length of the entry that starts here, 0 in the middle of one
    w_off,
    head,
    readers,      \* the list of readers
    r_off,
    fixed,
    was_overrun,
    pc,           \* where a reading thread is
    len,          \* the length it has taken
    ret,          \* what its last call has returned, 0 if it is in one
    waking        \* the writers that have yet to call wake_up_interruptible

vars == <<buffer, w_off, head, readers, r_off, fixed, was_overrun, pc, len, ret, waking>>
ring == <<buffer, w_off, head, readers, was_overrun>>
reading == <<pc, len, ret>>

Offsets == 0..(Size - 1)
Error == -1

TypeOK ==
    /\ buffer \in [Offsets -> 0..MaxLen]
    /\ w_off \in Offsets
    /\ head \in Offsets
    /\ readers \subseteq Readers
    /\ r_off \in [Readers -> Offsets]
    /\ fixed \in [Readers -> BOOLEAN]
    /\ was_overrun \in BOOLEAN
    /\ pc \in [Threads -> {"idle", "wait", "asleep", "look", "copy"}]
    /\ len \in [Threads -> 0..Size]
    /\ ret \in [Threads -> {Error} \cup 0..Size]
    /\ waking \subseteq Writers

Init ==
    /\ buffer = [o \in Offsets |-> 0]
    /\ w_off = 0
    /\ head = 0
    /\ readers = {}
    /\ r_off = [r \in Readers |-> 0]
    /\ fixed = [r \in Readers |-> FALSE]
    /\ was_overrun = FALSE
    /\ pc = [t \in Threads |-> "idle"]
    /\ len = [t \in Threads |-> 0]
    /\ ret = [t \in Threads |-> 0]
    /\ waking = {}
-----------------------------------------------------------------------------
(* Nothing is added to an offset but a distance of at most Size.           *)
logger_offset(n) == IF n >= Size THEN n - Size ELSE n

Distance(from, to) == IF to >= from THEN to - from ELSE to - from + Size

(* What get_entry_len may return: anything, if no entry starts there.      *)
get_entry_len(off) == IF buffer[off] # 0 THEN {buffer[off]} ELSE 1..Size

(* Mutant: the end is not part of the interval.                            *)
clock_interval_open(a, b, c) ==
    IF b < a THEN a < c \/ b > c ELSE a < c /\ b > c

clock_interval(a, b, c) ==
    IF b < a THEN a < c \/ b >= c ELSE a < c /\ b >= c

(* How far from off entries start, or end, that are at least length away.  *)
EntriesAfter(off, length) ==
    {d \in length..Size : LET o == logger_offset(off + d)
                          IN  buffer[o] # 0 \/ o = w_off}

(* The walk from entry to entry ends at the first of them.                 *)
get_next_entry(off, length) ==
    logger_offset(off + CHOOSE d \in EntriesAfter(off, length) :
                          \A e \in EntriesAfter(off, length) : d <= e)

Lapped(off, length) ==
    clock_interval(w_off, logger_offset(w_off + length), off)

(* Mutant: a reader that is lapped in the middle of a read is not told.    *)
fix_up_readers_silently(length) ==
    LET behind == {r \in readers : Lapped(r_off[r], length)}
    IN  /\ head' = IF Lapped(head, length) THEN get_next_entry(head, length) ELSE head
        /\ r_off' = [r \in Readers |-> IF r \in behind THEN get_next_entry(r_off[r], length)
                                                       ELSE r_off[r]]
        /\ was_overrun' = (was_overrun \/ behind # {})
        /\ UNCHANGED fixed

fix_up_readers(length) ==
    LET behind == {r \in readers : Lapped(r_off[r], length)}
    IN  /\ head' = IF Lapped(head, length) THEN get_next_entry(head, length) ELSE head
        /\ r_off' = [r \in Readers |-> IF r \in behind THEN get_next_entry(r_off[r], length)
                                                       ELSE r_off[r]]
        /\ fixed' = [r \in Readers |-> r \in behind \/ fixed[r]]
        /\ was_overrun' = \/ was_overrun
                          \/ behind # {}
                          \/ readers = {} /\ Lapped(head, length)

(* The length in the header, and the room made for the entry, have a limit.*)
header_len(length) == IF length > MaxLen THEN MaxLen ELSE length

(* The header, whose len makes the entry so long, and the bytes with it.   *)
do_write_log(length, bytes) ==
    /\ buffer' = [o \in Offsets |-> IF o = w_off THEN length
                                    ELSE IF Distance(w_off, o) < bytes THEN 0
                                    ELSE buffer[o]]
    /\ w_off' = logger_offset(w_off + bytes)

(* Mutant: the readers are woken for the first entry only.                 *)
write_log_entry_no_wake(w, length) ==
    /\ w \notin waking
    /\ fix_up_readers(header_len(length))
    /\ do_write_log(header_len(length), IF Events THEN header_len(length) ELSE length)
    /\ waking' = IF w_off = head THEN waking \cup {w} ELSE waking
    /\ UNCHANGED <<readers, reading>>

(* Mutant: what follows the header of an event has no limit either.        *)
write_log_entry_uncut(w, length) ==
    /\ w \notin waking
    /\ fix_up_readers(header_len(length))
    /\ do_write_log(header_len(length), length)
    /\ waking' = waking \cup {w}
    /\ UNCHANGED <<readers, reading>>

(* write_log_entry_events and write_log_entry_mainradio.  Both limit the   *)
(* length in the header, and make room for as much; what follows the       *)
(* header is limited too in the first, and not in the second.              *)
write_log_entry(w, length) ==
    /\ w \notin waking
    /\ fix_up_readers(header_len(length))
    /\ do_write_log(header_len(length), IF Events THEN header_len(length) ELSE length)
    /\ waking' = waking \cup {w}
    /\ UNCHANGED <<readers, reading>>

wake_up(w) ==
    /\ w \in waking
    /\ waking' = waking \ {w}
    /\ pc' = [t \in Threads |-> IF pc[t] = "asleep" THEN "wait" ELSE pc[t]]
    /\ UNCHANGED <<ring, r_off, fixed, len, ret>>
-----------------------------------------------------------------------------
(* kmalloc does not clear the flag.                                        *)
logger_open(r) ==
    /\ r \notin readers
    /\ readers' = readers \cup {r}
    /\ r_off' = [r_off EXCEPT ![r] = head]
    /\ \E f \in BOOLEAN : fixed' = [fixed EXCEPT ![r] = f]
    /\ UNCHANGED <<buffer, w_off, head, was_overrun, reading, waking>>

(* A file is released when no thread is in a call on it.                   *)
logger_release(r) ==
    /\ r \in readers
    /\ \A t \in Threads : ReaderOf[t] = r => pc[t] = "idle"
    /\ readers' = readers \ {r}
    /\ r_off' = [r_off EXCEPT ![r] = 0]
    /\ fixed' = [fixed EXCEPT ![r] = FALSE]
    /\ UNCHANGED <<buffer, w_off, head, was_overrun, reading, waking>>

flush_log ==
    /\ FlushAnyTime \/ \A t \in Threads : pc[t] # "copy"
    /\ r_off' = [r \in Readers |-> IF r \in readers THEN w_off ELSE r_off[r]]
    /\ head' = w_off
    /\ UNCHANGED <<buffer, w_off, readers, fixed, was_overrun, reading, waking>>

show_global_was_overrun ==
    /\ was_overrun' = FALSE
    /\ UNCHANGED <<buffer, w_off, head, readers, r_off, fixed, reading, waking>>
-----------------------------------------------------------------------------
Goto(t, place) == pc' = [pc EXCEPT ![t] = place]
NothingToRead(t) == w_off = r_off[ReaderOf[t]]

Returns(t, value) ==
    /\ Goto(t, "idle")
    /\ len' = [len EXCEPT ![t] = 0]
    /\ ret' = [ret EXCEPT ![t] = value]

(* The thread is on the wait queue before it looks.                        *)
logger_read(t) ==
    /\ pc[t] = "idle"
    /\ ReaderOf[t] \in readers
    /\ Goto(t, "wait")
    /\ ret' = [ret EXCEPT ![t] = 0]
    /\ UNCHANGED <<ring, r_off, fixed, len, waking>>

(* With nothing to read, O_NONBLOCK or a signal ends the call.             *)
ReadWaits(t) ==
    /\ pc[t] = "wait"
    /\ \/ NothingToRead(t) /\ Goto(t, "asleep") /\ UNCHANGED <<len, ret>>
       \/ NothingToRead(t) /\ Returns(t, Error)
       \/ ~NothingToRead(t) /\ Goto(t, "look") /\ UNCHANGED <<len, ret>>
    /\ UNCHANGED <<ring, r_off, fixed, waking>>

Interrupted(t) ==
    /\ pc[t] = "asleep"
    /\ Goto(t, "wait")
    /\ UNCHANGED <<ring, r_off, fixed, len, ret, waking>>

(* A buffer that is too short for the entry ends the call too.             *)
ReadLength(t) ==
    /\ pc[t] = "look"
    /\ \/ NothingToRead(t) /\ Goto(t, "wait") /\ UNCHANGED <<len, ret>>
       \/ ~NothingToRead(t) /\ Returns(t, Error)
       \/ /\ ~NothingToRead(t)
          /\ \E l \in get_entry_len(r_off[ReaderOf[t]]) : len' = [len EXCEPT ![t] = l]
          /\ Goto(t, "copy")
          /\ UNCHANGED ret
    /\ UNCHANGED <<ring, r_off, fixed, waking>>

(* What is returned is the length taken before, also when it has been      *)
(* taken again.  The copy to user space may fail when r_off has moved.     *)
do_read_log_to_user(t) ==
    LET r == ReaderOf[t]
    IN  /\ pc[t] = "copy"
        /\ \E count \in IF fixed[r] THEN get_entry_len(r_off[r]) ELSE {len[t]} :
             r_off' = [r_off EXCEPT ![r] = logger_offset(@ + count)]
        /\ fixed' = [fixed EXCEPT ![r] = FALSE]
        /\ Returns(t, len[t]) \/ Returns(t, Error)
        /\ UNCHANGED <<ring, waking>>

(* There is no memory for the copy.                                        *)
ReadFails(t) ==
    /\ pc[t] = "copy"
    /\ Returns(t, Error)
    /\ UNCHANGED <<ring, r_off, fixed, waking>>
-----------------------------------------------------------------------------
Reads(t) == ReadWaits(t) \/ ReadLength(t) \/ do_read_log_to_user(t)

Next ==
    \/ \E w \in Writers, length \in Lengths : write_log_entry(w, length)
    \/ \E w \in Writers : wake_up(w)
    \/ \E r \in Readers : logger_open(r) \/ logger_release(r)
    \/ \E t \in Threads : \/ logger_read(t)
                          \/ Reads(t)
                          \/ Interrupted(t)
                          \/ ReadFails(t)
    \/ flush_log
    \/ show_global_was_overrun

Spec ==
    /\ Init /\ [][Next]_vars
    /\ \A w \in Writers : WF_vars(wake_up(w))
    /\ \A t \in Threads : WF_vars(Reads(t))
-----------------------------------------------------------------------------
(* An entry starts here, or will with the next write.                      *)
Boundary(off) == off = w_off \/ buffer[off] # 0

(* Whatever laps whom, head and every reader stand where an entry starts,  *)
(* and the entries the ring still knows are whole and lead from one to the *)
(* next up to w_off: nothing walks into the middle of an entry.            *)
OnBoundary ==
    /\ Boundary(head)
    /\ \A r \in readers : Boundary(r_off[r])
    /\ \A o \in Offsets : buffer[o] # 0 =>
         /\ buffer[o] <= Distance(o, w_off) \/ o = w_off
         /\ Boundary(logger_offset(o + buffer[o]))
         /\ \A d \in 1..(buffer[o] - 1) : buffer[logger_offset(o + d)] = 0

(* "Atomically reads exactly one log entry" (logger.c:236): what a read    *)
(* copies, and moves its reader past, is the entry the reader was at, and  *)
(* the value it returns is the length of that entry, unless the reader was *)
(* moved on to it in the middle of the read.                               *)
ReadsOneEntry ==
    [][\A t \in Threads :
         LET r == ReaderOf[t]
             Passed == /\ r_off[r] # w_off
                       /\ buffer[r_off[r]] # 0
                       /\ r_off'[r] = logger_offset(r_off[r] + buffer[r_off[r]])
         IN  pc[t] = "copy" /\ pc'[t] = "idle" =>
               /\ r_off'[r] # r_off[r] => Passed
               /\ ret'[t] # Error => Passed /\ (fixed[r] \/ ret'[t] = buffer[r_off[r]])]_vars

(* The offset that lies d bytes behind w_off.                              *)
Behind(d) == logger_offset(w_off + Size - d)

(* The entries in the last d bytes.  A piece of one counts as 0.           *)
Last[d \in 0..Size] ==
    IF d = 0 THEN <<>>
    ELSE LET l == buffer[Behind(d)]
         IN  IF l = 0 \/ l > d THEN <<0>> ELSE <<l>> \o Last[d - l]

UnreadFrom(off) == Last[Distance(off, w_off)]

Promise == INSTANCE LogPromise WITH
    Lengths <- {header_len(length) : length \in Lengths},
    kept <- UnreadFrom(head),
    unread <- [r \in Readers |-> IF r \in readers THEN UnreadFrom(r_off[r]) ELSE <<>>],
    opened <- readers

(* A reader passes the entries in order and none of them twice, and loses  *)
(* only the oldest and only to a writer that needs their room.  (An entry  *)
(* whose copy to user space fails is passed too, and so lost to its file.) *)
KeepsPromise == Promise!Spec

(* A reader that waits in read() is served, or the log is empty again.     *)
ReaderServed ==
    \A t \in Threads :
        pc[t] = "asleep" /\ ~NothingToRead(t) ~> pc[t] = "idle" \/ NothingToRead(t)
=============================================================================
