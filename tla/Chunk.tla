------------------------------- MODULE Chunk -------------------------------
(***************************************************************************)
(* The chunks of chunk.c.  The heap is a run of units, numbered from       *)
(* s_heap_lo; a chunk is "span" units whose first holds its header         *)
(* (status, span, next free chunk) and whose last holds its footer (span,  *)
(* previous free chunk).  A heap h is a record with the fields             *)
(*    hdr, ftr    the header and the footer written in each unit           *)
(*    hi          s_heap_hi, the first unit past the heap                  *)
(* and the heads of the free lists, which the heap managers add.  Within a *)
(* call stale headers and footers stay in memory, as they do in the        *)
(* program; after it Forget blanks what nobody may rely on.                *)
(***************************************************************************)
EXTENDS Integers

CONSTANTS
    CHUNK_UNIT,     \* bytes in a unit
    SIZE_T,         \* the number of values of a size_t, 2^64
    INT,            \* the number of values of an int, 2^32
    MaxUnits,       \* bound of the model: sbrk fails beyond so many units
    Sizes,          \* the sizes the client asks for, in bytes
    SYS_MIN_ALLOC_UNITS

ASSUME ChunkAssumption ==
    /\ CHUNK_UNIT \in Nat \ {0} /\ MaxUnits \in Nat /\ SYS_MIN_ALLOC_UNITS \in Nat
    /\ SIZE_T \in Nat /\ SIZE_T % (2 * CHUNK_UNIT) = 0 /\ 2 * MaxUnits * CHUNK_UNIT < SIZE_T
    /\ INT \in Nat /\ INT % 2 = 0 /\ 2 * MaxUnits < INT
    /\ Sizes \subseteq 1 .. SIZE_T - 1

CHUNK_FREE == "CHUNK_FREE"
CHUNK_USED == "CHUNK_USED"
NULL  == -1
Units == 0 .. MaxUnits - 1

\* Memory the program has not written yet.
BlankHeader == [status |-> CHUNK_FREE, span |-> 0, next |-> NULL]
BlankFooter == [span |-> 0, prev |-> NULL]

status(h, c) == h.hdr[c].status
span(h, c)   == h.hdr[c].span
next(h, c)   == h.hdr[c].next
footer(h, c) == c + span(h, c) - 1
prev(h, c)   == h.ftr[footer(h, c)].prev

set_status(h, c, s) == [h EXCEPT !.hdr[c].status = s]
set_span(h, c, s)   == [h EXCEPT !.hdr[c].span = s, !.ftr[c + s - 1].span = s]
set_next(h, c, n)   == [h EXCEPT !.hdr[c].next = n]
set_prev(h, c, p)   == [h EXCEPT !.ftr[footer(h, c)].prev = p]
set_links(h, c, p, n) == set_prev(set_next(h, c, n), c, p)

\* The chunks right after and right before c in memory.
adjacent(h, c)      == IF c + span(h, c) >= h.hi THEN NULL ELSE c + span(h, c)
prev_adjacent(h, c) == IF c <= 0 THEN NULL ELSE c - h.ftr[c - 1].span

chunk_is_valid(h, c) ==
    /\ c \in 0 .. h.hi - 1
    /\ span(h, c) >= 2 /\ c + span(h, c) <= h.hi
    /\ h.ftr[footer(h, c)].span = span(h, c)

IsFree(h, c) == c # NULL /\ status(h, c) = CHUNK_FREE

\* What freelist_push_front and bin_push_front ask of prv, the chunk before c.
FreeBefore(h, prv, c) == /\ IsFree(h, prv) /\ chunk_is_valid(h, prv)
                         /\ adjacent(h, prv) = c

----------------------------------------------------------------------------
(* The walks of check_heap_validity.                                       *)

\* The headers met from s_heap_lo on, each span units after the one before.
Onward(h, c) == IF c >= h.hi \/ span(h, c) < 2 THEN c ELSE c + span(h, c)
Walk(h) ==
    LET at[i \in 0 .. h.hi] == IF i = 0 THEN 0 ELSE Onward(h, at[i - 1])
    IN  at
Chunks(h) == LET at == Walk(h) IN {at[i] : i \in 0 .. h.hi} \cap 0 .. h.hi - 1

\* Every chunk met is valid and the last one ends at s_heap_hi.
WalkIsValid(h) == /\ \A c \in Chunks(h) : chunk_is_valid(h, c)
                  /\ Walk(h)[h.hi] = h.hi

\* The i-th chunk of the list that starts at head, NULL after the last.
After(h, c) == IF c = NULL THEN NULL ELSE next(h, c)
List(h, head) ==
    LET nth[i \in 0 .. MaxUnits] == IF i = 0 THEN head ELSE After(h, nth[i - 1])
    IN  nth
Listed(h, head) == LET nth == List(h, head) IN {nth[i] : i \in 0 .. MaxUnits} \ {NULL}

\* The list at head: free valid chunks, none next to a free one, doubly linked.
ListIsValid(h, head) ==
    /\ \A c \in Listed(h, head) :
          /\ status(h, c) = CHUNK_FREE /\ chunk_is_valid(h, c)
          /\ ~IsFree(h, adjacent(h, c))
          /\ next(h, c) # NULL => prev(h, next(h, c)) = c
          /\ IF c = head THEN prev(h, c) = NULL
             ELSE prev(h, c) # NULL /\ next(h, prev(h, c)) = c

\* The first chunk of the list with room for need units, NULL if there is none.
FirstFit(h, head, need) ==
    LET nth == List(h, head)
        Fits(i) == nth[i] # NULL /\ span(h, nth[i]) - 2 >= need
        fits == {i \in 0 .. MaxUnits : Fits(i)}
    IN  IF fits = {} THEN NULL
        ELSE nth[CHOOSE i \in fits : \A j \in fits : i <= j]

\* What is left in the inside of free chunks and of a block just handed out is
\* unspecified, and blank here.  The client's own units are left alone.
Forget(h, clients) ==
    LET headers == Chunks(h) \cup clients
        footers == {footer(h, c) : c \in Chunks(h)} \cup clients
    IN  [h EXCEPT !.hdr = [u \in Units |-> IF u \in headers THEN @[u] ELSE BlankHeader],
                  !.ftr = [u \in Units |-> IF u \in footers THEN @[u] ELSE BlankFooter]]

----------------------------------------------------------------------------
(* What the two heap managers share.                                       *)

\* The units the client may write, in the blocks bs: it knows the size it asked
\* for, not the span of the chunk.
Payload(b) == Units \cap b.at + 1 .. b.at + (b.size + CHUNK_UNIT - 1) \div CHUNK_UNIT
Payloads(bs) == UNION {Payload(b) : b \in bs}

\* Variant: the quotient is not rounded up.
bytes_to_payload_units_Truncates(bytes) == bytes \div CHUNK_UNIT

\* The sum is a size_t and wraps.
bytes_to_payload_units(bytes) == ((bytes + CHUNK_UNIT - 1) % SIZE_T) \div CHUNK_UNIT

\* split_for_alloc: c keeps its place and its links, the allocated chunk is
\* cut from its end; SplitAt is that chunk's header.
SplitAt(h, c, need) == c + span(h, c) - (2 + need)
split_for_alloc(h, c, need) ==
    LET alloc == SplitAt(h, c, need)
        small == set_span(h, c, alloc - c)
        cut   == set_status(set_span(small, alloc, 2 + need), alloc, CHUNK_USED)
    IN  set_prev(set_links(cut, alloc, NULL, NULL), c, prev(h, c))

\* As an int: the low bits, the upper half standing for the negative numbers.
Signed(n, range) ==
    IF n % range >= range \div 2 THEN (n % range) - range ELSE n % range

\* sbrk(grow_span * CHUNK_UNIT): the product is a size_t that wraps, and is
\* taken as signed; "to" is the new break, in units.
GrowSpan(need, min) == 2 + (IF need < min THEN min ELSE need)
NewBreak(h, grow_span) == h.hi + Signed(grow_span, SIZE_T \div CHUNK_UNIT)
SbrkSucceeds(h, grow_span) == NewBreak(h, grow_span) \in 0 .. MaxUnits

\* The new chunk, at the old break, before it is put on a list.
Grown(h, grow_span) ==
    LET fresh == [h EXCEPT !.hi = NewBreak(h, grow_span)]
        c     == h.hi
    IN  set_status(set_links(set_span(fresh, c, Signed(grow_span, INT)), c, NULL, NULL),
                   c, CHUNK_FREE)
=============================================================================
