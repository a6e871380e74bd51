---------------------------- MODULE HeapMgrBase ----------------------------
(***************************************************************************)
(* The reference heap manager of heapmgrbase.c over the chunks of          *)
(* chunkbase.c: headers only (status, span, next free chunk), one singly   *)
(* linked free list in the order of addresses, first fit, blocks cut from  *)
(* the end of a free chunk.  Units are numbered from s_heap_lo.  One       *)
(* thread calls the manager, so each call is one step; a call in which an  *)
(* assertion fails aborts the program.                                     *)
(***************************************************************************)
EXTENDS Integers, FiniteSets

CONSTANTS
    CHUNK_UNIT,             \* bytes in a unit
    SIZE_T, INT,            \* the numbers of values of a size_t and of an int
    MaxUnits,               \* bound of the model: sbrk fails beyond so many units
    Sizes,                  \* the sizes the client asks for, in bytes
    SYS_MIN_ALLOC_UNITS

ASSUME HeapAssumption ==
    /\ CHUNK_UNIT \in Nat \ {0} /\ MaxUnits \in Nat /\ SYS_MIN_ALLOC_UNITS \in Nat
    /\ SIZE_T \in Nat /\ SIZE_T % (2 * CHUNK_UNIT) = 0 /\ 2 * MaxUnits * CHUNK_UNIT < SIZE_T
    /\ INT \in Nat /\ INT % 2 = 0 /\ 2 * MaxUnits < INT
    /\ Sizes \subseteq 1 .. SIZE_T - 1

VARIABLES
    heap,       \* hdr: the header written in each unit; hi: s_heap_hi; head: s_free_head
    live,       \* the client's blocks: header and size asked for
    aborted     \* an assertion has failed
vars == <<heap, live, aborted>>

CHUNK_FREE == "CHUNK_FREE"
CHUNK_USED == "CHUNK_USED"
NULL  == -1
Units == 0 .. MaxUnits - 1
Blank == [status |-> CHUNK_FREE, span |-> 0, next |-> NULL]

Init ==
    /\ heap = [hdr |-> [u \in Units |-> Blank], hi |-> 0, head |-> NULL]
    /\ live = {} /\ aborted = FALSE

----------------------------------------------------------------------------
(* chunkbase.c.                                                            *)

status(h, c) == h.hdr[c].status
span(h, c)   == h.hdr[c].span
next(h, c)   == h.hdr[c].next
set_status(h, c, s) == [h EXCEPT !.hdr[c].status = s]
set_span(h, c, s)   == [h EXCEPT !.hdr[c].span = s]
set_next(h, c, n)   == [h EXCEPT !.hdr[c].next = n]

adjacent(h, c) == IF c + span(h, c) >= h.hi THEN NULL ELSE c + span(h, c)
IsFree(h, c)   == c # NULL /\ status(h, c) = CHUNK_FREE
chunk_is_valid(h, c) == c \in 0 .. h.hi - 1 /\ span(h, c) > 0

----------------------------------------------------------------------------
(* check_heap_validity.                                                    *)

\* The headers met from s_heap_lo on, each span units after the one before.
Onward(h, c) == IF c >= h.hi \/ span(h, c) <= 0 THEN c ELSE c + span(h, c)
Walk(h) ==
    LET at[i \in 0 .. h.hi] == IF i = 0 THEN 0 ELSE Onward(h, at[i - 1])
    IN  at
Chunks(h) == LET at == Walk(h) IN {at[i] : i \in 0 .. h.hi} \cap 0 .. h.hi - 1

\* The i-th chunk of the free list, from 0 on, NULL after the last.
After(h, c) == IF c = NULL THEN NULL ELSE next(h, c)
List(h) ==
    LET nth[i \in 0 .. MaxUnits] == IF i = 0 THEN h.head ELSE After(h, nth[i - 1])
    IN  nth
Listed(h) == LET nth == List(h) IN {nth[i] : i \in 0 .. MaxUnits} \ {NULL}

check_heap_validity(h) ==
    IF h.hi = 0 THEN h.head = NULL
    ELSE /\ \A c \in Chunks(h) : chunk_is_valid(h, c)
         /\ \A c \in Listed(h) :
               /\ status(h, c) = CHUNK_FREE /\ chunk_is_valid(h, c)
               /\ adjacent(h, c) = NULL \/ adjacent(h, c) # next(h, c)

----------------------------------------------------------------------------
(* The free list.                                                          *)

\* a grows over b, the free chunk right after it, and skips it on the list.
coalesce_two(h, a, b) ==
    set_next(set_span(h, a, span(h, a) + span(h, b)), a, next(h, b))

\* c becomes the head, before a head at a higher address.
MayPush(h, c) == span(h, c) >= 1 /\ (h.head # NULL => c < h.head)
freelist_push_front(h, c) ==
    LET h1 == set_next(set_status(h, c, CHUNK_FREE), c, h.head)
        h2 == IF h.head # NULL /\ adjacent(h1, c) = h.head
                THEN coalesce_two(h1, c, h.head) ELSE h1
    IN  [h2 EXCEPT !.head = c]

\* c is linked in behind e and merged with e, and then with the chunk after it;
\* MergedInto is the chunk c has become.
MayInsert(h, e, c)  == e < c /\ status(h, e) = CHUNK_FREE /\ status(h, c) # CHUNK_FREE
MergedInto(h, e, c) == IF adjacent(h, e) = c THEN e ELSE c

\* Variant: the links are set in the wrong order, e first.
Linked_EFirst(h, e, c) ==
    LET h1 == set_next(h, e, c)
    IN  set_status(set_next(h1, c, next(h1, e)), c, CHUNK_FREE)

Linked(h, e, c) == set_status(set_next(set_next(h, c, next(h, e)), e, c), c, CHUNK_FREE)

\* Variant: a chunk merged with the one before it is not merged with the one after it.
freelist_insert_after_OneMerge(h, e, c) ==
    LET h1 == Linked(h, e, c)
    IN  IF adjacent(h, e) = c THEN coalesce_two(h1, e, c)
        ELSE IF IsFree(h1, adjacent(h1, c)) THEN coalesce_two(h1, c, adjacent(h1, c)) ELSE h1

freelist_insert_after(h, e, c) ==
    LET h1 == Linked(h, e, c)
        h2 == IF adjacent(h, e) = c THEN coalesce_two(h1, e, c) ELSE h1
        m  == MergedInto(h, e, c)
        n  == adjacent(h2, m)
    IN  IF IsFree(h2, n) THEN coalesce_two(h2, m, n) ELSE h2

freelist_detach(h, prev, c) ==
    LET h1 == IF prev = NULL THEN [h EXCEPT !.head = next(h, c)]
              ELSE set_next(h, prev, next(h, c))
    IN  set_status(set_next(h1, c, NULL), c, CHUNK_USED)

----------------------------------------------------------------------------
(* Sizes.  A size_t wraps; a value stored in an int keeps its low bits.    *)

Signed(n, range) ==
    IF n % range >= range \div 2 THEN (n % range) - range ELSE n % range

\* Variant: the quotient is not rounded up.
bytes_to_payload_units_Truncates(bytes) == bytes \div CHUNK_UNIT

bytes_to_payload_units(bytes) == ((bytes + CHUNK_UNIT - 1) % SIZE_T) \div CHUNK_UNIT

\* The units asked of sbrk, and the break it would move to.
GrowSpan(need)       == 1 + (IF need < SYS_MIN_ALLOC_UNITS THEN SYS_MIN_ALLOC_UNITS ELSE need)
NewBreak(h, g)       == h.hi + Signed(g, SIZE_T \div CHUNK_UNIT)
SbrkSucceeds(h, g)   == NewBreak(h, g) \in 0 .. MaxUnits

----------------------------------------------------------------------------
(* heapmgr_malloc and heapmgr_free.                                        *)

\* The units the client may write, in the blocks bs.
Payload(b) == Units \cap b.at + 1 .. b.at + (b.size + CHUNK_UNIT - 1) \div CHUNK_UNIT

\* What is left inside free chunks and in a block just handed out is
\* unspecified, and blank here; the client's own units are left alone.
Settle(h, bs) ==
    LET kept == Chunks(h) \cup UNION {Payload(b) : b \in bs}
    IN  [h EXCEPT !.hdr = [u \in Units |-> IF u \in kept THEN @[u] ELSE Blank]]

\* The allocated chunk is cut from the end of c, which keeps its place.
RemainSpan(h, c, need) == span(h, c) - Signed(1 + need, INT)
split_for_alloc(h, c, need) ==
    LET alloc == c + RemainSpan(h, c, need)
        small == set_span(h, c, RemainSpan(h, c, need))
        cut   == set_status(set_span(small, alloc, Signed(1 + need, INT)), alloc, CHUNK_USED)
    IN  set_next(cut, alloc, next(h, c))

\* Allocate from the free chunk c, listed after prev: split it or take it whole.
AllocateFrom(h, prev, c, need, size) ==
    LET splits == span(h, c) - 1 > need
        after  == IF splits THEN split_for_alloc(h, c, need) ELSE freelist_detach(h, prev, c)
        ok     == /\ status(h, c) = CHUNK_FREE
                  /\ splits => RemainSpan(h, c, need) > 0
                  /\ check_heap_validity(after)
        at     == IF splits THEN c + RemainSpan(h, c, need) ELSE c
    IN  IF ok THEN /\ heap' = Settle(after, live)
                   /\ live' = live \cup {[at |-> at, size |-> size]}
                   /\ UNCHANGED aborted
        ELSE aborted' = TRUE /\ UNCHANGED <<heap, live>>

\* The list's places whose chunk has room, and the number of listed chunks.
Room(need) == {i \in 0 .. MaxUnits : /\ List(heap)[i] # NULL
                                     /\ span(heap, List(heap)[i]) - 1 >= need}
Length  == Cardinality({i \in 0 .. MaxUnits : List(heap)[i] # NULL})
Nth(i)  == IF i < 0 THEN NULL ELSE List(heap)[i]

MallocFits(size) ==
    LET need == bytes_to_payload_units(size)
        i    == CHOOSE j \in Room(need) : \A k \in Room(need) : j <= k
    IN  /\ ~aborted
        /\ Room(need) # {}
        /\ AllocateFrom(heap, Nth(i - 1), Nth(i), need, size)

\* sys_grow_and_link: the grown heap with the new chunk on its list, and the
\* chunk it has become.
Fresh(h, g) ==
    LET c == h.hi
    IN  [h EXCEPT !.hi = NewBreak(h, g),
                  !.hdr[c] = [status |-> CHUNK_USED, span |-> Signed(g, INT), next |-> NULL]]

\* No chunk has room.  That sbrk fails (malloc returns NULL) changes nothing.
MallocGrows(size) ==
    LET need  == bytes_to_payload_units(size)
        g     == GrowSpan(need)
        prev  == Nth(Length - 1)
        fresh == Fresh(heap, g)
        grown == IF heap.head = NULL THEN freelist_push_front(fresh, heap.hi)
                 ELSE freelist_insert_after(fresh, prev, heap.hi)
        c     == IF heap.head = NULL THEN heap.hi ELSE MergedInto(fresh, prev, heap.hi)
        mayLink == IF heap.head = NULL THEN MayPush(fresh, heap.hi)
                   ELSE MayInsert(fresh, prev, heap.hi)
    IN  /\ ~aborted
        /\ Room(need) = {}
        /\ SbrkSucceeds(heap, g)
        /\ IF mayLink /\ check_heap_validity(grown)
             THEN AllocateFrom(grown, IF c = prev THEN Nth(Length - 2) ELSE prev, c, need, size)
             ELSE aborted' = TRUE /\ UNCHANGED <<heap, live>>

\* The last listed chunk before c, NULL if there is none.
Before(c) ==
    LET lower == {i \in 0 .. Length - 1 : \A j \in 0 .. i : Nth(j) <= c}
    IN  Nth(Cardinality(lower) - 1)

FreeBlock(b) ==
    LET c     == b.at
        prev  == Before(c)
        after == IF prev = NULL THEN freelist_push_front(heap, c)
                 ELSE freelist_insert_after(heap, prev, c)
        ok    == /\ check_heap_validity(heap) /\ status(heap, c) # CHUNK_FREE
                 /\ IF prev = NULL THEN MayPush(heap, c) ELSE MayInsert(heap, prev, c)
                 /\ check_heap_validity(after)
    IN  /\ ~aborted
        /\ b \in live
        /\ IF ok THEN /\ heap' = Settle(after, live \ {b})
                      /\ live' = live \ {b}
                      /\ UNCHANGED aborted
           ELSE aborted' = TRUE /\ UNCHANGED <<heap, live>>

Next ==
    \/ \E size \in Sizes : MallocFits(size) \/ MallocGrows(size)
    \/ \E b \in live : FreeBlock(b)

Spec == Init /\ [][Next]_vars

----------------------------------------------------------------------------
(* Properties.                                                             *)

\* No assertion of heapmgrbase.c fails: a chunk freed between two free ones is
\* merged with both, and the chunk the heap grew by with the last one.
NoAssertionFails == ~aborted

\* The free list is what the insertions rely on and check_heap_validity does not
\* look at: all free memory and nothing else, in the order of addresses, with no
\* two free chunks side by side, and the rest of the heap is the client's.
ListIsTheFreeMemory ==
    /\ Listed(heap) = {c \in Chunks(heap) : status(heap, c) = CHUNK_FREE}
    /\ \A c \in Listed(heap) :
          /\ next(heap, c) # NULL => c < next(heap, c)
          /\ ~IsFree(heap, adjacent(heap, c))
    /\ {c \in Chunks(heap) : status(heap, c) = CHUNK_USED} = {b.at : b \in live}

\* The blocks the client holds are those of an allocator that keeps the promise
\* of heapmgr.h, and a call writes nothing into one that the client keeps.
Owned == {[first |-> b.at + 1, units |-> span(heap, b.at) - 1, size |-> b.size] : b \in live}
Promise == INSTANCE Allocator WITH owned <- Owned
KeepsPromise ==
    /\ Promise!Spec
    /\ [][\A b \in live \cap live' : \A u \in Payload(b) : heap'.hdr[u] = heap.hdr[u]]_vars
=============================================================================
