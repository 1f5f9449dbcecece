------------------------------- MODULE Ashmem -------------------------------
(***************************************************************************)
(* Anonymous shared memory (mm/ashmem.c).  The owner of an area unpins     *)
(* pages it can do without; the shrinker takes unpinned pages away when    *)
(* memory is short; who pins pages again is told whether any was lost.     *)
(*                                                                         *)
(* Everything is done under ashmem_mutex, and a call is one action, unless *)
(* it waits with the mutex held: for memory, or for a page of its caller.  *)
(***************************************************************************)
EXTENDS Integers, Sequences, SequencesExt, FiniteSetsExt

CONSTANTS
    Areas,
    Size,        \* Size[a]: pages of the area
    MaxRanges,   \* bound on the length of an area's list
    AllocFails   \* what may happen to range_alloc: TRUE means -ENOMEM

ASSUME SizeAssumption == Size \in [Areas -> Nat \ {0}]
ASSUME AllocFailsAssumption == AllocFails \subseteq BOOLEAN /\ FALSE \in AllocFails

VARIABLES
    unpinned_list,  \* ranges of the area, highest first
    lru,            \* ashmem_lru_list, least recently unpinned first
    lru_count,
    opened,         \* areas
    mapped,         \* areas with a backing file
    mutex,          \* "free", or what its holder is waiting for or doing
    mmap_sem,       \* the area whose mmap holds it: {} or {a}
    unpinned,       \* what the owner has unpinned and not pinned since
    lost            \* pages purged of which the owner has not been told

vars == <<unpinned_list, lru, lru_count, opened, mapped, mutex, mmap_sem, unpinned, lost>>
lists == <<unpinned_list, lru, lru_count>>
owners == <<unpinned, lost>>

Pages(a) == 0..(Size[a] - 1)

(* What may be asked for: a len of 0 with the offset at the end is a range *)
(* without pages, and passes all tests of ashmem_pin_unpin.                *)
Requests(a) == {q \in Pages(a) \X Pages(a) : q[1] <= q[2]} \cup {<<Size[a], Size[a] - 1>>}

Ranges(a) == [pgstart : 0..Size[a], pgend : Pages(a), purged : BOOLEAN]
Entry(a) == [asma : {a}, pgstart : 0..Size[a], pgend : Pages(a)]

TypeOK ==
    /\ DOMAIN unpinned_list = Areas
    /\ \A a \in Areas : unpinned_list[a] \in Seq(Ranges(a))
    /\ lru \in Seq(UNION {Entry(a) : a \in Areas})
    /\ lru_count \in Nat
    /\ mapped \subseteq opened
    /\ opened \subseteq Areas
    /\ mutex \in {"free", "name", "fault", "reclaim"}
    /\ mmap_sem \subseteq opened
    /\ DOMAIN unpinned = Areas /\ DOMAIN lost = Areas
    /\ \A a \in Areas : lost[a] \subseteq unpinned[a] /\ unpinned[a] \subseteq Pages(a)

Init ==
    /\ unpinned_list = [a \in Areas |-> <<>>]
    /\ lru = <<>>
    /\ lru_count = 0
    /\ opened = {}
    /\ mapped = {}
    /\ mutex = "free"
    /\ mmap_sem = {}
    /\ unpinned = [a \in Areas |-> {}]
    /\ lost = [a \in Areas |-> {}]
-----------------------------------------------------------------------------
range_size(r) == r.pgend - r.pgstart + 1
range_before_page(r, page) == r.pgend < page
page_in_range(r, page) == r.pgstart <= page /\ r.pgend >= page
page_range_subsumes_range(r, start, end) == r.pgstart >= start /\ r.pgend <= end
page_range_subsumed_by_range(r, start, end) == r.pgstart <= start /\ r.pgend >= end

(* Mutant: a range inside the request is not met.                          *)
page_range_in_range_ends(r, start, end) ==
    \/ page_in_range(r, start)
    \/ page_in_range(r, end)

page_range_in_range(r, start, end) ==
    \/ page_in_range(r, start)
    \/ page_in_range(r, end)
    \/ page_range_subsumes_range(r, start, end)

(* Where every scan of the list ends: at the first range before the        *)
(* request, for the list is sorted.                                        *)
ScanEnd(ranges, start) ==
    Min({i \in 1..Len(ranges) : range_before_page(ranges[i], start)} \cup {Len(ranges) + 1})

(* The three lists and the count change together, as one value.            *)
Now == [list |-> unpinned_list, lru |-> lru, count |-> lru_count]
Becomes(st) ==
    /\ unpinned_list' = st.list
    /\ lru' = st.lru
    /\ lru_count' = st.count

OnLru(a, r) == [asma |-> a, pgstart |-> r.pgstart, pgend |-> r.pgend]

(* A range is known by its place i on the list of its area.                *)
range_alloc(st, a, i, r) ==
    LET listed == [st EXCEPT !.list[a] = InsertAt(@, i, r)]
    IN  IF r.purged THEN listed
        ELSE [listed EXCEPT !.lru = Append(@, OnLru(a, r)), !.count = @ + range_size(r)]

range_del(st, a, i) ==
    LET r == st.list[a][i]
        unlisted == [st EXCEPT !.list[a] = RemoveAt(@, i)]
    IN  IF r.purged THEN unlisted
        ELSE [unlisted EXCEPT !.lru = RemoveFirst(@, OnLru(a, r)), !.count = @ - range_size(r)]

(* Where the list of the shrinker has the range.                           *)
LruAt(st, e) == SelectInSeq(st.lru, LAMBDA x : x = e)

(* Mutant: the count is left as it is.                                     *)
range_shrink_uncounted(st, a, i, start, end) ==
    LET r == st.list[a][i]
        new == [r EXCEPT !.pgstart = start, !.pgend = end]
        shrunk == [st EXCEPT !.list[a][i] = new]
    IN  IF r.purged THEN shrunk
        ELSE [shrunk EXCEPT !.lru[LruAt(st, OnLru(a, r))] = OnLru(a, new)]

range_shrink(st, a, i, start, end) ==
    LET r == st.list[a][i]
        new == [r EXCEPT !.pgstart = start, !.pgend = end]
        shrunk == [st EXCEPT !.list[a][i] = new]
    IN  IF r.purged THEN shrunk
        ELSE [shrunk EXCEPT !.lru[LruAt(st, OnLru(a, r))] = OnLru(a, new),
                            !.count = @ - (range_size(r) - range_size(new))]

(* The loop of ashmem_pin is at a range, and has told of what it met.      *)
PinEnds(u, a, start) ==
    \/ u.at > Len(u.st.list[a])
    \/ range_before_page(u.st.list[a][u.at], start)

(* Mutant: the part behind the hole is taken for unpurged.                 *)
PinTurnForgets(u, a, start, end, fails) ==
    LET r == u.st.list[a][u.at]
        above == [r EXCEPT !.pgstart = end + 1, !.purged = FALSE]
        Met(st, step) == [st |-> st, at |-> u.at + step, told |-> u.told \/ r.purged]
    IN  IF PinEnds(u, a, start) THEN u
        ELSE IF ~page_range_in_range(r, start, end) THEN [u EXCEPT !.at = @ + 1]
        ELSE IF page_range_subsumes_range(r, start, end) THEN Met(range_del(u.st, a, u.at), 0)
        ELSE IF r.pgstart >= start THEN Met(range_shrink(u.st, a, u.at, end + 1, r.pgend), 1)
        ELSE IF r.pgend <= end \/ fails
             THEN Met(range_shrink(u.st, a, u.at, r.pgstart, start - 1), 1)
        ELSE Met(range_shrink(range_alloc(u.st, a, u.at, above), a, u.at + 1,
                              r.pgstart, start - 1), 2)

(* One turn.  A new range that cannot be had is not missed.                *)
PinTurn(u, a, start, end, fails) ==
    LET r == u.st.list[a][u.at]
        above == [r EXCEPT !.pgstart = end + 1]
        Met(st, step) == [st |-> st, at |-> u.at + step, told |-> u.told \/ r.purged]
    IN  IF PinEnds(u, a, start) THEN u
        ELSE IF ~page_range_in_range(r, start, end) THEN [u EXCEPT !.at = @ + 1]
        ELSE IF page_range_subsumes_range(r, start, end) THEN Met(range_del(u.st, a, u.at), 0)
        ELSE IF r.pgstart >= start THEN Met(range_shrink(u.st, a, u.at, end + 1, r.pgend), 1)
        ELSE IF r.pgend <= end \/ fails
             THEN Met(range_shrink(u.st, a, u.at, r.pgstart, start - 1), 1)
        ELSE Met(range_shrink(range_alloc(u.st, a, u.at, above), a, u.at + 1,
                              r.pgstart, start - 1), 2)

Pin(a, start, end, fails) ==
    LET turns == Len(unpinned_list[a])
        after[n \in 0..turns] ==
            IF n = 0 THEN [st |-> Now, at |-> 1, told |-> FALSE]
            ELSE PinTurn(after[n - 1], a, start, end, fails)
    IN  after[turns]

(* The ranges that the loop of ashmem_unpin meets.                         *)
Hit(u, a) ==
    LET ranges == u.st.list[a]
    IN  {i \in 1..(ScanEnd(ranges, u.start) - 1) :
            \/ page_range_subsumed_by_range(ranges[i], u.start, u.end)
            \/ page_range_in_range(ranges[i], u.start, u.end)}

UnpinEnds(u, a) ==
    \/ Hit(u, a) = {}
    \/ page_range_subsumed_by_range(u.st.list[a][Min(Hit(u, a))], u.start, u.end)

(* The first that overlaps the request is made a part of it, and the loop  *)
(* begins again.                                                           *)
UnpinTurn(u, a) ==
    LET i == Min(Hit(u, a))
        r == u.st.list[a][i]
    IN  IF UnpinEnds(u, a) THEN u
        ELSE [st     |-> range_del(u.st, a, i),
              start  |-> Min({r.pgstart, u.start}),
              end    |-> Max({r.pgend, u.end}),
              purged |-> u.purged \/ r.purged]

UnpinMerged(a, start, end) ==
    LET turns == Len(unpinned_list[a])
        after[n \in 0..turns] ==
            IF n = 0 THEN [st |-> Now, start |-> start, end |-> end, purged |-> FALSE]
            ELSE UnpinTurn(after[n - 1], a)
    IN  after[turns]

Unpin(a, start, end, fails) ==
    LET u == UnpinMerged(a, start, end)
        new == [pgstart |-> u.start, pgend |-> u.end, purged |-> u.purged]
    IN  IF Hit(u, a) # {} \/ fails THEN u.st
        ELSE range_alloc(u.st, a, ScanEnd(u.st.list[a], u.start), new)

Release(a) ==
    LET turns == Len(unpinned_list[a])
        after[n \in 0..turns] == IF n = 0 THEN Now ELSE range_del(after[n - 1], a, 1)
    IN  after[turns]

(* One turn of the loop of ashmem_shrink, for the first range of lru.      *)
Purge(st) ==
    LET e == Head(st.lru)
        i == SelectInSeq(st.list[e.asma], LAMBDA r : ~r.purged /\ OnLru(e.asma, r) = e)
    IN  [list  |-> [st.list EXCEPT ![e.asma][i].purged = TRUE],
         lru   |-> Tail(st.lru),
         count |-> st.count - range_size(e)]

Shrink(nr_to_scan) ==
    LET turns == Len(lru)
        after[n \in 0..turns] ==
            IF n = 0 THEN [st |-> Now, nr |-> nr_to_scan]
            ELSE LET u == after[n - 1]
                 IN  IF u.nr <= 0 THEN u
                     ELSE [st |-> Purge(u.st), nr |-> u.nr - range_size(Head(u.st.lru))]
    IN  after[turns].st
-----------------------------------------------------------------------------
PagesOf(r) == r.pgstart..r.pgend
PagesIn(ranges) == UNION {PagesOf(r) : r \in ToSet(ranges)}
PurgedPages(ranges) == UNION {PagesOf(r) : r \in {x \in ToSet(ranges) : x.purged}}

ashmem_open(a) ==
    /\ a \notin opened
    /\ opened' = opened \cup {a}
    /\ UNCHANGED <<lists, mapped, mutex, mmap_sem, owners>>

(* The area is closed when no call uses it.                                *)
ashmem_release(a) ==
    /\ mutex = "free"
    /\ a \in opened \ mmap_sem
    /\ Becomes(Release(a))
    /\ opened' = opened \ {a}
    /\ mapped' = mapped \ {a}
    /\ unpinned' = [unpinned EXCEPT ![a] = {}]
    /\ lost' = [lost EXCEPT ![a] = {}]
    /\ UNCHANGED <<mutex, mmap_sem>>

(* do_mmap calls the driver with mmap_sem taken.                           *)
MmapCalled(a) ==
    /\ a \in opened
    /\ mmap_sem = {}
    /\ mmap_sem' = {a}
    /\ UNCHANGED <<lists, opened, mapped, mutex, owners>>

ashmem_mmap(a) ==
    /\ mutex = "free"
    /\ a \in mmap_sem
    /\ mapped' = mapped \cup {a}
    /\ mmap_sem' = {}
    /\ UNCHANGED <<lists, opened, mutex, owners>>

(* The name is copied from or to the caller with the mutex held.  A page   *)
(* of the caller that is not there is brought in with mmap_sem taken.      *)
set_name(a) ==
    /\ mutex = "free"
    /\ a \in opened \ mapped
    /\ mutex' = "name"
    /\ UNCHANGED <<lists, opened, mapped, mmap_sem, owners>>

NameFaults ==
    /\ mutex = "name"
    /\ mutex' = "fault"
    /\ UNCHANGED <<lists, opened, mapped, mmap_sem, owners>>

NameCopied ==
    /\ \/ mutex = "name"
       \/ mutex = "fault" /\ mmap_sem = {}
    /\ mutex' = "free"
    /\ UNCHANGED <<lists, opened, mapped, mmap_sem, owners>>

ashmem_pin(a, start, end) ==
    /\ mutex = "free"
    /\ a \in mapped
    /\ \E fails \in AllocFails :
         LET u == Pin(a, start, end, fails)
         IN  /\ Becomes(u.st)
             /\ lost' = [lost EXCEPT ![a] = IF u.told THEN @ \ (start..end) ELSE @]
    /\ unpinned' = [unpinned EXCEPT ![a] = @ \ (start..end)]
    /\ UNCHANGED <<opened, mapped, mutex, mmap_sem>>

ashmem_unpin(a, start, end) ==
    /\ mutex = "free"
    /\ a \in mapped
    /\ \E fails \in AllocFails :
         LET st == Unpin(a, start, end, fails)
             refused == fails /\ Hit(UnpinMerged(a, start, end), a) = {}
         IN  /\ Len(st.list[a]) <= MaxRanges
             /\ Becomes(st)
             /\ unpinned' = [unpinned EXCEPT ![a] = IF refused THEN @ ELSE @ \cup (start..end)]
    /\ UNCHANGED <<opened, mapped, mutex, mmap_sem, lost>>

(* A range has to be allocated, memory is short, and the reclaim of memory *)
(* that kmem_cache_zalloc enters calls the shrinker, as there are pages on *)
(* the list.  What was done before is not to be seen: nothing goes on.     *)
RangeAllocReclaims(a, start, end) ==
    LET u == UnpinMerged(a, start, end)
    IN  /\ mutex = "free"
        /\ a \in mapped
        /\ \/ /\ Hit(u, a) = {}
              /\ u.st.count > 0
           \/ /\ \E r \in ToSet(unpinned_list[a]) : r.pgstart < start /\ r.pgend > end
              /\ lru_count > 0
        /\ mutex' = "reclaim"
        /\ UNCHANGED <<lists, opened, mapped, mmap_sem, owners>>

(* Called by the reclaim of memory, or with the whole of lru_count by      *)
(* ASHMEM_PURGE_ALL_CACHES.                                                *)
ashmem_shrink(nr_to_scan) ==
    LET st == Shrink(nr_to_scan)
    IN  /\ mutex = "free"
        /\ lru # <<>>
        /\ Becomes(st)
        /\ lost' = [a \in Areas |-> lost[a] \cup
                      (PurgedPages(st.list[a]) \ PurgedPages(unpinned_list[a]))]
        /\ UNCHANGED <<opened, mapped, mutex, mmap_sem, unpinned>>
-----------------------------------------------------------------------------
Next ==
    \/ \E a \in Areas : \/ ashmem_open(a)
                        \/ ashmem_release(a)
                        \/ MmapCalled(a)
                        \/ ashmem_mmap(a)
                        \/ set_name(a)
    \/ NameFaults
    \/ NameCopied
    \/ \E a \in Areas : \E q \in Requests(a) : \/ ashmem_pin(a, q[1], q[2])
                                             \/ ashmem_unpin(a, q[1], q[2])
                                             \/ RangeAllocReclaims(a, q[1], q[2])
    \/ \E nr_to_scan \in 1..MapThenSumSet(LAMBDA a : Size[a], Areas) : ashmem_shrink(nr_to_scan)

Spec == Init /\ [][Next]_vars
-----------------------------------------------------------------------------
Total(numbers) ==
    LET upto[n \in 0..Len(numbers)] == IF n = 0 THEN 0 ELSE upto[n - 1] + numbers[n]
    IN  upto[Len(numbers)]

(* The lists say the same thing in three ways: each area's ranges are      *)
(* disjoint and sorted, which every scan relies on; lru_count is the       *)
(* number of pages that can be purged; and the ranges on the list of the   *)
(* shrinker are those that are unpinned and not purged.                    *)
ListsAgree ==
    LET unpurged(a) == {OnLru(a, r) : r \in {x \in ToSet(unpinned_list[a]) : ~x.purged}}
    IN  /\ \A a \in Areas : \A i \in 1..(Len(unpinned_list[a]) - 1) :
             unpinned_list[a][i + 1].pgend < unpinned_list[a][i].pgstart
        /\ ToSet(lru) = UNION {unpurged(a) : a \in Areas}
        /\ lru_count = Total([i \in DOMAIN lru |-> range_size(lru[i])])

(* The shrinker takes pages in the order of lru, and takes no page in use: *)
(* what it may take is unpinned.  And no unpinned page is forgotten: one   *)
(* that it may not take lies in a range marked purged, where the loss is   *)
(* told, and no page is in both.  (Marked, not lost: ashmem_unpin marks as *)
(* purged what it merges with a range so marked, ashmem.c:472.)            *)
LruPages(a) == UNION {PagesOf(e) : e \in {x \in ToSet(lru) : x.asma = a}}

UnpinnedExactly ==
    \A a \in Areas :
        /\ LruPages(a) \cup PurgedPages(unpinned_list[a]) = unpinned[a]
        /\ LruPages(a) \cap PurgedPages(unpinned_list[a]) = {}

(* A page that was purged lies in a range that says so until its owner has *)
(* been told: pinning it, alone or with others, does not hide the loss.    *)
LossRemembered == \A a \in Areas : lost[a] \subseteq PurgedPages(unpinned_list[a])

(* ashmem_mutex is the first of the "lock ordering" (ashmem.c:70), and the *)
(* shrinker is to return -1 rather than "risk a deadlock" (ashmem.c:268):  *)
(* nobody waits, with the mutex held, for one who waits for the mutex.     *)
NoCircularWait ==
    /\ mutex # "reclaim"
    /\ ~(mutex = "fault" /\ mmap_sem # {})
=============================================================================
