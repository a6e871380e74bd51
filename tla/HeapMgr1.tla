------------------------------ MODULE HeapMgr1 ------------------------------
(***************************************************************************)
(* The heap manager of heapmgr1.c: one doubly linked free list, first fit, *)
(* coalescing with both neighbours when a chunk is put on the list.  One   *)
(* thread calls it, so each call is one step.  Assertions are compiled in  *)
(* (the debug build): a call in which one fails aborts the program.        *)
(*                                                                         *)
(* sys_grow_and_link returns the header it made even when                  *)
(* freelist_push_front has merged that chunk into the free chunk before    *)
(* it.  "stale" records that this has happened, so that the properties can *)
(* say what holds as long as it has not.                                   *)
(***************************************************************************)
EXTENDS Chunk, FiniteSets

VARIABLES
    heap,       \* a heap of Chunk, with s_free_head as the field "head"
    live,       \* the client's blocks: header and size asked for
    stale,      \* sys_grow_and_link has returned a merged-away header
    aborted     \* an assertion has failed
vars == <<heap, live, stale, aborted>>

Init ==
    /\ heap = [hdr |-> [u \in Units |-> BlankHeader], ftr |-> [u \in Units |-> BlankFooter],
               hi |-> 0, head |-> NULL]
    /\ live = {} /\ stale = FALSE /\ aborted = FALSE

Settle(h, bs) == IF stale' THEN h ELSE Forget(h, Payloads(bs))

check_heap_validity(h) ==
    IF h.hi = 0 THEN h.head = NULL ELSE WalkIsValid(h) /\ ListIsValid(h, h.head)

----------------------------------------------------------------------------
(* The free list.                                                          *)

freelist_unlink(h, c) ==
    LET p  == prev(h, c)
        n  == next(h, c)
        h1 == IF p # NULL THEN set_next(h, p, n)
              ELSE IF h.head = c THEN [h EXCEPT !.head = n] ELSE h
        h2 == IF n # NULL THEN set_prev(h1, n, p) ELSE h1
    IN  set_links(h2, c, NULL, NULL)

\* a grows over b, the chunk right after it; both are free, b is taken off the
\* list and a keeps its place (or becomes the head).
coalesce_two(h, a, b) ==
    LET an == IF next(h, a) = b THEN next(h, b) ELSE next(h, a)
        h1 == freelist_unlink(h, b)
        a_prev == prev(h1, a)
        h2 == set_next(set_span(h1, a, span(h1, a) + span(h1, b)), a, an)
        h3 == IF an # NULL THEN set_prev(h2, an, a) ELSE h2
        h4 == set_prev(h3, a, a_prev)
    IN  IF a_prev = NULL THEN [h4 EXCEPT !.head = a] ELSE h4

\* Variant: small chunks are not coalesced, and none with the one after it.
PushAlone(h, c) ==
    LET h1 == set_links(set_status(h, c, CHUNK_FREE), c, NULL, h.head)
        h2 == IF h.head # NULL THEN set_prev(h1, h.head, c) ELSE h1
    IN  [h2 EXCEPT !.head = c]
CoalescePrev(h, c) ==
    LET prv == prev_adjacent(h, c)
    IN  IF FreeBefore(h, prv, c) THEN coalesce_two(freelist_unlink(h, c), prv, c) ELSE h
freelist_push_front_FastPath(h, c) ==
    IF span(h, c) <= 3 THEN PushAlone(h, c) ELSE CoalescePrev(PushAlone(h, c), c)

\* Variant: the next chunk is merged whether or not it is free.
freelist_push_front_AnyNext(h, c) ==
    LET h1  == PushAlone(h, c)
        nxt == adjacent(h1, c)
    IN  CoalescePrev(IF nxt # NULL THEN coalesce_two(h1, c, nxt) ELSE h1, c)

\* Put c at the head, then merge it with the next and the previous chunk.
freelist_push_front(h, c) ==
    LET h1  == set_links(set_status(h, c, CHUNK_FREE), c, NULL, h.head)
        h2  == IF h.head # NULL THEN set_prev(h1, h.head, c) ELSE h1
        h3  == [h2 EXCEPT !.head = c]
        nxt == adjacent(h3, c)
        h4  == IF IsFree(h3, nxt) THEN coalesce_two(h3, c, nxt) ELSE h3
        prv == prev_adjacent(h4, c)
    IN  IF FreeBefore(h4, prv, c) THEN coalesce_two(freelist_unlink(h4, c), prv, c) ELSE h4

\* Variant: the successor of the detached head is forgotten.
freelist_detach_DropsRest(h, c) ==
    LET p  == prev(h, c)
        h1 == IF p = NULL THEN [h EXCEPT !.head = NULL] ELSE set_next(h, p, next(h, c))
    IN  set_status(set_links(h1, c, NULL, NULL), c, CHUNK_USED)

freelist_detach(h, c) ==
    LET p  == prev(h, c)
        n  == next(h, c)
        h1 == IF p = NULL THEN [h EXCEPT !.head = n] ELSE set_next(h, p, n)
        h2 == IF n # NULL THEN set_prev(h1, n, p) ELSE h1
    IN  set_status(set_links(h2, c, NULL, NULL), c, CHUNK_USED)

----------------------------------------------------------------------------
(* heapmgr_malloc.  Allocate from free chunk c, which has room.            *)

Splits(h, c, need) == span(h, c) >= 2 + need + 2

\* The assertions of split_for_alloc on the chunk it is given.
MaySplit(h, c) ==
    /\ status(h, c) = CHUNK_FREE
    /\ IF prev(h, c) = NULL THEN c = h.head
       ELSE IsFree(h, prev(h, c)) /\ next(h, prev(h, c)) = c

Carve(h, c, need) ==
    IF Splits(h, c, need) THEN split_for_alloc(h, c, need) ELSE freelist_detach(h, c)

CarvedAt(h, c, need) == IF Splits(h, c, need) THEN SplitAt(h, c, need) ELSE c

\* The heap and the client's blocks after allocating from c, or an abort.
AllocateFrom(h, c, need, size) ==
    LET after == Carve(h, c, need)
        ok == /\ Splits(h, c, need) => MaySplit(h, c)
              /\ check_heap_validity(after)
    IN  IF ok
          THEN /\ heap' = Settle(after, live)
               /\ live' = live \cup {[at |-> CarvedAt(h, c, need), size |-> size]}
               /\ UNCHANGED aborted
          ELSE aborted' = TRUE /\ UNCHANGED <<heap, live>>

MallocFits(size) ==
    LET need == bytes_to_payload_units(size)
        c    == FirstFit(heap, heap.head, need)
    IN  /\ ~aborted
        /\ c # NULL
        /\ UNCHANGED stale
        /\ AllocateFrom(heap, c, need, size)

\* The heap has grown by g units: put the new chunk on the list and allocate
\* from what sys_grow_and_link returns, the header it made.
AllocateGrown(g, need, size) ==
    LET c     == heap.hi
        grown == freelist_push_front(Grown(heap, g), c)
    IN  IF Signed(g, INT) >= 2 /\ check_heap_validity(grown)
          THEN /\ stale' = (stale \/ c \notin Chunks(grown))
               /\ AllocateFrom(grown, c, need, size)
          ELSE aborted' = TRUE /\ UNCHANGED <<heap, live, stale>>

\* No chunk fits: grow the heap.  That sbrk fails (malloc returns NULL) changes
\* nothing.
MallocGrows(size) ==
    LET need == bytes_to_payload_units(size)
        g    == GrowSpan(need, SYS_MIN_ALLOC_UNITS)
    IN  /\ ~aborted
        /\ FirstFit(heap, heap.head, need) = NULL
        /\ SbrkSucceeds(heap, g)
        /\ AllocateGrown(g, need, size)

(* heapmgr_free of a block the client holds.                               *)
MayFree(c) ==
    /\ check_heap_validity(heap)
    /\ chunk_is_valid(heap, c) /\ status(heap, c) = CHUNK_USED
    /\ next(heap, c) = NULL /\ prev(heap, c) = NULL

FreeBlock(b) ==
    /\ ~aborted
    /\ b \in live
    /\ UNCHANGED stale
    /\ LET after == freelist_push_front(heap, b.at)
       IN  IF MayFree(b.at) /\ check_heap_validity(after)
             THEN /\ heap' = Settle(after, live \ {b})
                  /\ live' = live \ {b}
                  /\ UNCHANGED aborted
             ELSE aborted' = TRUE /\ UNCHANGED <<heap, live>>

Next ==
    \/ \E size \in Sizes : MallocFits(size) \/ MallocGrows(size)
    \/ \E b \in live : FreeBlock(b)

Spec == Init /\ [][Next]_vars

----------------------------------------------------------------------------
(* Properties.                                                             *)

\* No assertion of the heap manager ever fails.
NoAssertionFails == ~aborted

\* The stale header is the only way an assertion can come to fail: without it
\* the check of the whole heap passes at every point where it is called.
AbortsOnlyWhenStale == aborted => stale

\* No free memory is lost and none is handed out: the chunks marked free are
\* exactly those on the list, the used ones exactly those the client holds; and
\* whatever the order of the calls, no two free neighbours stay unmerged.
\* (check_heap_validity looks only at the chunks on the list.)
EveryChunkAccountedFor ==
    ~stale => /\ {c \in Chunks(heap) : status(heap, c) = CHUNK_FREE} = Listed(heap, heap.head)
              /\ {c \in Chunks(heap) : status(heap, c) = CHUNK_USED} = {b.at : b \in live}
              /\ \A c \in Listed(heap, heap.head) : ~IsFree(heap, adjacent(heap, c))

\* As long as no stale header was returned, the blocks the client holds are
\* those of an allocator that keeps the promise of heapmgr.h, and a call writes
\* nothing into the payload of a block the client keeps.
Owned == {[first |-> b.at + 1, units |-> span(heap, b.at) - 2, size |-> b.size] : b \in live}
Promise == INSTANCE Allocator WITH owned <- Owned
KeepsPromise ==
    /\ Promise!Init /\ [][~stale' => Promise!Next]_Owned
    /\ [][~stale' => \A b \in live \cap live' : \A u \in Payload(b) :
              heap'.hdr[u] = heap.hdr[u] /\ heap'.ftr[u] = heap.ftr[u]]_vars
=============================================================================
