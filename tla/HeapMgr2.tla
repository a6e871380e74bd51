------------------------------ MODULE HeapMgr2 ------------------------------
(***************************************************************************)
(* The heap manager of heapmgr2.c: free chunks are kept in bins by size,   *)
(* each bin a doubly linked list searched first fit, larger bins after     *)
(* smaller ones.  A chunk is put into a bin only after it has been merged  *)
(* with its free neighbours, and after the heap has grown the bins are     *)
(* searched again.  One thread calls it, so each call is one step; a call  *)
(* in which an assertion fails aborts the program.                         *)
(***************************************************************************)
EXTENDS Chunk, FiniteSets

CONSTANTS
    NUM_BINS,
    FirstLimit      \* chunks of fewer units go to bin 0: 8 in the code
ASSUME BinsAssumption == NUM_BINS \in Nat \ {0} /\ FirstLimit \in Nat

Bins == 0 .. NUM_BINS - 1

VARIABLES
    heap,       \* a heap of Chunk, with s_bins as the field "bins"
    live,       \* the client's blocks: header and size asked for
    aborted     \* an assertion has failed
vars == <<heap, live, aborted>>

Init ==
    /\ heap = [hdr |-> [u \in Units |-> BlankHeader], ftr |-> [u \in Units |-> BlankFooter],
               hi |-> 0, bins |-> [i \in Bins |-> NULL]]
    /\ live = {} /\ aborted = FALSE

\* Bin i holds the chunks of fewer than BinLimit[i] units that are too large for
\* bin i - 1; the last bin has no limit.
BinLimit[i \in Bins] == IF i = 0 THEN FirstLimit ELSE 2 * BinLimit[i - 1]
get_bin_index(span_units) ==
    CHOOSE i \in Bins :
        /\ i = NUM_BINS - 1 \/ span_units < BinLimit[i]
        /\ \A j \in 0 .. i - 1 : span_units >= BinLimit[j]

\* Every free chunk is in exactly one bin, the one of its size.
check_heap_validity(h) ==
    IF h.hi = 0 THEN \A i \in Bins : h.bins[i] = NULL
    ELSE /\ WalkIsValid(h)
         /\ \A c \in Chunks(h) : status(h, c) = CHUNK_FREE =>
               Cardinality({i \in Bins : c \in Listed(h, h.bins[i])}) = 1
         /\ \A i \in Bins : /\ ListIsValid(h, h.bins[i])
                            /\ \A c \in Listed(h, h.bins[i]) : get_bin_index(span(h, c)) = i

----------------------------------------------------------------------------
(* The bins.                                                               *)

MayDetach(h, c) ==
    /\ status(h, c) = CHUNK_FREE
    /\ prev(h, c) = NULL => h.bins[get_bin_index(span(h, c))] = c
bin_detach(h, c) ==
    LET p  == prev(h, c)
        n  == next(h, c)
        h1 == IF p = NULL THEN [h EXCEPT !.bins[get_bin_index(span(h, c))] = n]
              ELSE set_next(h, p, n)
        h2 == IF n # NULL THEN set_prev(h1, n, p) ELSE h1
    IN  set_links(h2, c, NULL, NULL)

coalesce_two(h, a, b) ==
    set_links(set_span(h, a, span(h, a) + span(h, b)), a, NULL, NULL)

\* Put c, which is in no bin, at the head of the bin of its size.
Insert(h, c) ==
    LET i  == get_bin_index(span(h, c))
        h1 == set_links(h, c, NULL, h.bins[i])
        h2 == IF h.bins[i] # NULL THEN set_prev(h1, h.bins[i], c) ELSE h1
    IN  [h2 EXCEPT !.bins[i] = c]

\* Free c: merge it with the next and the previous chunk, taking each out of
\* its bin first, and insert what results.
bin_push_front(h, c) ==
    LET h1  == set_links(set_status(h, c, CHUNK_FREE), c, NULL, NULL)
        nxt == adjacent(h1, c)
        h2  == IF IsFree(h1, nxt) THEN coalesce_two(bin_detach(h1, nxt), c, nxt) ELSE h1
        prv == prev_adjacent(h2, c)
    IN  IF FreeBefore(h2, prv, c)
        THEN Insert(coalesce_two(bin_detach(h2, prv), prv, c), prv)
        ELSE Insert(h2, c)

----------------------------------------------------------------------------
(* heapmgr_malloc.                                                         *)

\* The first chunk with room for need units in the bins from number "from" on.
Search(h, from, need) ==
    LET Found(i) == FirstFit(h, h.bins[i], need)
        hits == {i \in Bins : i >= from /\ Found(i) # NULL}
    IN  IF hits = {} THEN NULL ELSE Found(CHOOSE i \in hits : \A j \in hits : i <= j)

Splits(h, c, need) == span(h, c) >= 2 + need + 2

\* Variant: the front part is returned, which stays free.
AllocAt_Front(h, c, need) == c
AllocAt(h, c, need) == IF Splits(h, c, need) THEN SplitAt(h, c, need) ELSE c

\* Take c out of its bin, and put back what is not needed of it.
Take(h, c, need) ==
    LET out == bin_detach(h, c)
    IN  IF Splits(out, c, need)
          THEN bin_push_front(split_for_alloc(out, c, need), c)
          ELSE set_status(out, c, CHUNK_USED)

AllocateFrom(h, c, need, size) ==
    IF MayDetach(h, c) /\ check_heap_validity(Take(h, c, need))
      THEN /\ heap' = Forget(Take(h, c, need), Payloads(live))
           /\ live' = live \cup {[at |-> AllocAt(h, c, need), size |-> size]}
           /\ UNCHANGED aborted
      ELSE aborted' = TRUE /\ UNCHANGED <<heap, live>>

FirstChoice(need) == Search(heap, get_bin_index(Signed(2 + need, INT)), need)

MallocFits(size) ==
    LET need == bytes_to_payload_units(size)
    IN  /\ ~aborted
        /\ FirstChoice(need) # NULL
        /\ AllocateFrom(heap, FirstChoice(need), need, size)

\* Variant: the chunk the heap grew by is used without another search.
AllocateGrown_NoSearch(g, need, size) ==
    AllocateFrom(bin_push_front(Grown(heap, g), heap.hi), heap.hi, need, size)

\* The heap has grown by g units: insert the new chunk and search again.
AllocateGrown(g, need, size) ==
    LET fresh == Grown(heap, g)
        grown == bin_push_front(fresh, heap.hi)
        c     == Search(grown, get_bin_index(Signed(g, INT)), need)
    IN  IF Signed(g, INT) >= 2 /\ chunk_is_valid(fresh, heap.hi) /\ c # NULL
          THEN AllocateFrom(grown, c, need, size)
          ELSE aborted' = TRUE /\ UNCHANGED <<heap, live>>

\* No chunk fits: grow the heap.  That sbrk fails (malloc returns NULL) changes
\* nothing.
MallocGrows(size) ==
    LET need == bytes_to_payload_units(size)
        g    == GrowSpan(need, SYS_MIN_ALLOC_UNITS)
    IN  /\ ~aborted
        /\ FirstChoice(need) = NULL
        /\ SbrkSucceeds(heap, g)
        /\ AllocateGrown(g, need, size)

(* heapmgr_free of a block the client holds.                               *)
MayFree(c) ==
    /\ check_heap_validity(heap)
    /\ chunk_is_valid(heap, c) /\ status(heap, c) = CHUNK_USED
    /\ next(heap, c) = NULL /\ prev(heap, c) = NULL

FreeBlock(b) ==
    /\ ~aborted
    /\ b \in live
    /\ LET after == bin_push_front(heap, b.at)
       IN  IF MayFree(b.at) /\ check_heap_validity(after)
             THEN /\ heap' = Forget(after, Payloads(live \ {b}))
                  /\ live' = live \ {b}
                  /\ UNCHANGED aborted
             ELSE aborted' = TRUE /\ UNCHANGED <<heap, live>>

Next ==
    \/ \E size \in Sizes : MallocFits(size) \/ MallocGrows(size)
    \/ \E b \in live : FreeBlock(b)

Spec == Init /\ [][Next]_vars

----------------------------------------------------------------------------
(* Properties.                                                             *)

\* No assertion of the heap manager ever fails: at every point where the code
\* checks the whole heap, each free chunk is in the one bin of its size.
NoAssertionFails == ~aborted

\* What the client holds is what the heap thinks is used: no block is handed
\* out twice and none is kept back.
UsedIsLive == {c \in Chunks(heap) : status(heap, c) = CHUNK_USED} = {b.at : b \in live}

\* The blocks the client holds are those of an allocator that keeps the promise
\* of heapmgr.h, and a call writes nothing into the payload of a block the client
\* keeps.
Owned == {[first |-> b.at + 1, units |-> span(heap, b.at) - 2, size |-> b.size] : b \in live}
Promise == INSTANCE Allocator WITH owned <- Owned
KeepsPromise ==
    /\ Promise!Spec
    /\ [][\A b \in live \cap live' : \A u \in Payload(b) :
              heap'.hdr[u] = heap.hdr[u] /\ heap'.ftr[u] = heap.ftr[u]]_vars
=============================================================================
