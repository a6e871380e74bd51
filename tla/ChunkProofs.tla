---------------------------- MODULE ChunkProofs ----------------------------
(***************************************************************************)
(* Facts about the heaps of Chunk, for every number of units, that the     *)
(* proofs about both heap managers rest on.                                *)
(*                                                                         *)
(* What the chunks and the lists of a heap are follows from its headers    *)
(* and footers only by walking them.  The facts are stated of a set C of   *)
(* headers, and of a set F of free ones, without a walk: the chunks at C   *)
(* tile the heap (Tiled), and next and prev lead from head through exactly *)
(* the chunks of F (Linked).  That the walks of the code meet C and F is   *)
(* proved once (ChunksAre, ListIs).                                        *)
(***************************************************************************)
EXTENDS Chunk, LeastElements, FiniteSetTheorems, TLAPS

Header == [status : {CHUNK_FREE, CHUNK_USED}, span : Nat, next : Units \cup {NULL}]
Footer == [span : Nat, prev : Units \cup {NULL}]

\* A heap, whatever fields the manager adds.
IsHeap(h) ==
    /\ {"hdr", "ftr", "hi"} \subseteq DOMAIN h
    /\ h.hdr \in [Units -> Header] /\ h.ftr \in [Units -> Footer] /\ h.hi \in 0 .. MaxUnits

\* The chunks at C cover the heap, each ending where the next one begins, with the
\* same span in its header and its footer.
Tiled(h, C) ==
    /\ \A c \in C : c \in 0 .. h.hi - 1
    /\ h.hi > 0 => 0 \in C
    /\ \A c \in C : span(h, c) >= 2 /\ c + span(h, c) \in C \cup {h.hi}
    /\ \A c, d \in C : c < d => c + span(h, c) <= d
    /\ \A c \in C : h.ftr[footer(h, c)].span = span(h, c)

FreeOf(h, C) == {c \in C : status(h, c) = CHUNK_FREE}
UsedOf(h, C) == {c \in C : status(h, c) = CHUNK_USED}
Feet(h, C)   == {footer(h, c) : c \in C}

\* The list at head is doubly linked and holds the chunks at F: next and prev undo
\* each other, and no part of F is a ring that prev never leaves.
Forth(h, F, head) == \A c \in F : next(h, c) # NULL => next(h, c) \in F /\ prev(h, next(h, c)) = c
Back(h, F, head)  == \A c \in F : IF prev(h, c) = NULL THEN c = head
                                  ELSE prev(h, c) \in F /\ next(h, prev(h, c)) = c
NoRing(h, F)      == \A S \in SUBSET F : S # {} => \E c \in S : prev(h, c) \notin S
Linked(h, F, head) ==
    /\ F \subseteq Units
    /\ IF head = NULL THEN F = {} ELSE head \in F /\ prev(h, head) = NULL
    /\ Forth(h, F, head) /\ Back(h, F, head) /\ NoRing(h, F)

\* Chunks in use have no neighbours on a list.
Idle(h, U) == \A c \in U : next(h, c) = NULL /\ prev(h, c) = NULL

\* No two free chunks lie side by side, those in X excepted.
Apart(h, C, X) ==
    \A c \in FreeOf(h, C) \ X : c + span(h, c) \notin FreeOf(h, C) \ X

----------------------------------------------------------------------------
(* The headers and the footers.                                            *)

\* The constants, as the provers need them.
LEMMA Constants ==
    /\ MaxUnits \in Nat /\ NULL \notin Units /\ NULL \notin Nat /\ CHUNK_FREE # CHUNK_USED
    /\ BlankHeader \in Header /\ BlankFooter \in Footer
    /\ \A u : u \in Units <=> u \in Nat /\ u < MaxUnits
BY ChunkAssumption DEF NULL, Units, BlankHeader, BlankFooter, Header, Footer, CHUNK_FREE, CHUNK_USED

\* What kinds of values the fields of a heap have.
LEMMA HeaderFields ==
    ASSUME NEW h, IsHeap(h)
    PROVE  /\ h.hi \in Nat /\ h.hi <= MaxUnits
           /\ \A u \in Units : /\ h.hdr[u] \in Header /\ h.ftr[u] \in Footer
                               /\ status(h, u) \in {CHUNK_FREE, CHUNK_USED}
                               /\ span(h, u) \in Nat
                               /\ next(h, u) \in Units \cup {NULL}
                               /\ h.ftr[u].span \in Nat
                               /\ h.ftr[u].prev \in Units \cup {NULL}
<1>1. h.hi \in Nat /\ h.hi <= MaxUnits
  BY ChunkAssumption DEF IsHeap
<1>2. ASSUME NEW u \in Units PROVE h.hdr[u] \in Header /\ h.ftr[u] \in Footer
  BY DEF IsHeap
<1> QED
  BY <1>1, <1>2 DEF Header, Footer, status, span, next

\* A chunk of a tiled heap lies in it, with its header and its footer.
LEMMA InTiling ==
    ASSUME NEW h, IsHeap(h), NEW C, Tiled(h, C)
    PROVE  /\ C \in SUBSET Units /\ h.hi \in Nat /\ h.hi <= MaxUnits /\ h.hi \notin C /\ NULL \notin C
           /\ \A c \in C : /\ c \in Units /\ c \in Nat /\ c < h.hi
                           /\ span(h, c) \in Nat /\ span(h, c) >= 2 /\ c + span(h, c) <= h.hi
                           /\ footer(h, c) \in Units /\ footer(h, c) \in Nat
                           /\ footer(h, c) = c + span(h, c) - 1
                           /\ status(h, c) \in {CHUNK_FREE, CHUNK_USED}
                           /\ next(h, c) \in Units \cup {NULL}
                           /\ prev(h, c) \in Units \cup {NULL}
<1>1. /\ h.hi \in Nat /\ h.hi <= MaxUnits /\ MaxUnits \in Nat /\ NULL \notin Nat
  BY HeaderFields, Constants
<1>2. ASSUME NEW c \in C
      PROVE  c \in Units /\ c \in Nat /\ c < h.hi
  BY <1>1, Constants DEF Tiled
<1>3. ASSUME NEW c \in C
      PROVE  /\ span(h, c) \in Nat /\ span(h, c) >= 2 /\ c + span(h, c) <= h.hi
             /\ footer(h, c) \in Nat /\ footer(h, c) < MaxUnits
  <2>1. c \in Units /\ c \in Nat /\ c < h.hi /\ span(h, c) \in Nat
    BY <1>2, HeaderFields
  <2>2. span(h, c) >= 2 /\ c + span(h, c) \in C \cup {h.hi}
    BY DEF Tiled
  <2>3. c + span(h, c) <= h.hi
    BY <1>1, <1>2, <2>2
  <2> QED
    BY <1>1, <2>1, <2>2, <2>3 DEF footer
<1>4. ASSUME NEW c \in C
      PROVE  /\ footer(h, c) \in Units /\ footer(h, c) = c + span(h, c) - 1
             /\ prev(h, c) \in Units \cup {NULL}
  <2>1. footer(h, c) \in Units
    BY <1>3, Constants
  <2> QED
    BY <2>1, HeaderFields DEF prev, footer
<1> QED
  BY <1>1, <1>2, <1>3, <1>4, HeaderFields

\* Different chunks have different footers, and the unit of no footer is a header.
LEMMA OwnFeet ==
    ASSUME NEW h, IsHeap(h), NEW C, Tiled(h, C), NEW c \in C, NEW d \in C
    PROVE  (footer(h, c) = footer(h, d) => c = d) /\ footer(h, c) # d
<1>1. /\ c \in Nat /\ d \in Nat /\ span(h, c) \in Nat /\ span(h, d) \in Nat
      /\ span(h, c) >= 2 /\ span(h, d) >= 2
      /\ footer(h, c) = c + span(h, c) - 1 /\ footer(h, d) = d + span(h, d) - 1
  BY InTiling
<1>2. (c < d => c + span(h, c) <= d) /\ (d < c => d + span(h, d) <= c)
  BY DEF Tiled
<1> QED
  BY <1>1, <1>2

\* The units inside a chunk are neither headers nor footers of chunks.
LEMMA Insides ==
    ASSUME NEW h, IsHeap(h), NEW C, Tiled(h, C), NEW c \in C, NEW u \in c + 1 .. footer(h, c) - 1
    PROVE  u \notin C /\ u \notin Feet(h, C)
<1>1. ASSUME NEW d \in C PROVE u # d /\ u # footer(h, d)
  <2>1. /\ c \in Nat /\ d \in Nat /\ span(h, c) \in Nat /\ span(h, d) \in Nat
        /\ span(h, c) >= 2 /\ span(h, d) >= 2
        /\ footer(h, c) = c + span(h, c) - 1 /\ footer(h, d) = d + span(h, d) - 1
    BY InTiling
  <2>2. (c < d => c + span(h, c) <= d) /\ (d < c => d + span(h, d) <= c)
    BY DEF Tiled
  <2>3. u \in Int /\ c < u /\ u < footer(h, c)
    BY <2>1
  <2> QED
    BY <2>1, <2>2, <2>3
<1> QED
  BY <1>1 DEF Feet

\* Every chunk is free or in use.
LEMMA FreeOrUsed ==
    ASSUME NEW h, IsHeap(h), NEW C, Tiled(h, C)
    PROVE  C = FreeOf(h, C) \cup UsedOf(h, C) /\ FreeOf(h, C) \cap UsedOf(h, C) = {}
<1>1. \A c \in C : status(h, c) \in {CHUNK_FREE, CHUNK_USED}
  BY InTiling
<1> QED
  BY <1>1, Constants DEF FreeOf, UsedOf

----------------------------------------------------------------------------
(* The neighbours.                                                         *)

\* The chunk after c in memory.
LEMMA AdjacentIs ==
    ASSUME NEW h, IsHeap(h), NEW C, Tiled(h, C), NEW c \in C
    PROVE  /\ adjacent(h, c) = IF c + span(h, c) = h.hi THEN NULL ELSE c + span(h, c)
           /\ c + span(h, c) \in C \cup {h.hi}
           /\ IsFree(h, adjacent(h, c)) <=> c + span(h, c) \in FreeOf(h, C)
           /\ IsFree(h, adjacent(h, c)) => adjacent(h, c) = c + span(h, c)
<1>1. /\ c \in Nat /\ c < h.hi /\ span(h, c) \in Nat /\ h.hi \in Nat
      /\ h.hi \notin C /\ NULL \notin C
      /\ \A d \in C : d \in Nat /\ d < h.hi
  BY InTiling
<1>2. c + span(h, c) \in C \cup {h.hi}
  BY DEF Tiled
<1>3. adjacent(h, c) = IF c + span(h, c) = h.hi THEN NULL ELSE c + span(h, c)
  BY <1>1, <1>2 DEF adjacent
<1>4. /\ IsFree(h, adjacent(h, c)) <=> c + span(h, c) \in FreeOf(h, C)
      /\ IsFree(h, adjacent(h, c)) => adjacent(h, c) = c + span(h, c)
  BY <1>1, <1>2, <1>3 DEF IsFree, FreeOf
<1> QED
  BY <1>2, <1>3, <1>4

\* The chunk right before c in memory, which every chunk but the first one has.
LEMMA HasPrevious ==
    ASSUME NEW h, IsHeap(h), NEW C, Tiled(h, C), NEW c \in C \cup {h.hi}, c # 0
    PROVE  \E p \in C : p + span(h, p) = c
<1>0. /\ h.hi \in Nat /\ c \in Nat /\ c <= h.hi /\ 0 \in C /\ h.hi \notin C
      /\ \A d \in C : d \in Nat /\ d < h.hi /\ span(h, d) \in Nat /\ span(h, d) >= 2
      /\ \A d \in C : d + span(h, d) \in C \cup {h.hi}
  BY InTiling DEF Tiled
<1> DEFINE L == {d \in C : d < c}
<1>1. L \in SUBSET Nat /\ L # {} /\ \A y \in L : y <= c
  <2>1. 0 \in L
    BY <1>0
  <2>2. ASSUME NEW d \in L PROVE d \in Nat /\ d <= c
    BY <1>0
  <2> QED
    BY <2>1, <2>2
<1>2. PICK p \in L : \A y \in L : y <= p
  <2> HIDE DEF L
  <2> QED
    BY <1>0, <1>1, GreatestElement
<1>3. p \in C /\ p < c /\ p \in Nat /\ span(h, p) \in Nat /\ span(h, p) >= 2
  BY <1>0, <1>2
<1>4. p + span(h, p) <= c
  <2>1. CASE c = h.hi
    <3>1. p + span(h, p) <= h.hi
      BY <1>3, InTiling
    <3> QED
      BY <2>1, <3>1
  <2>2. CASE c \in C
    BY <1>3, <2>2 DEF Tiled
  <2> QED
    BY <2>1, <2>2
<1>5. ~(p + span(h, p) < c)
  <2> SUFFICES ASSUME p + span(h, p) < c PROVE FALSE
    OBVIOUS
  <2>1. p + span(h, p) \in C
    BY <1>0, <1>3
  <2>2. p + span(h, p) \in L
    BY <2>1
  <2>3. p + span(h, p) <= p
    BY <1>2, <2>2
  <2> QED
    BY <1>3, <2>3
<1> QED
  BY <1>0, <1>3, <1>4, <1>5

\* The footer before c leads to it.
LEMMA PrevAdjacentIs ==
    ASSUME NEW h, IsHeap(h), NEW C, Tiled(h, C), NEW c \in C
    PROVE  IF c = 0 THEN prev_adjacent(h, c) = NULL
           ELSE prev_adjacent(h, c) \in C /\ prev_adjacent(h, c) + span(h, prev_adjacent(h, c)) = c
<1>1. c \in Nat
  BY InTiling
<1>2. CASE c = 0
  BY <1>2 DEF prev_adjacent
<1>3. CASE c # 0
  <2>1. PICK p \in C : p + span(h, p) = c
    BY <1>3, HasPrevious
  <2>2. footer(h, p) = c - 1 /\ p \in Nat /\ span(h, p) \in Nat
    BY <1>1, <2>1, InTiling
  <2>3. h.ftr[c - 1].span = span(h, p)
    BY <2>2 DEF Tiled
  <2>4. prev_adjacent(h, c) = p
    BY <1>1, <1>3, <2>1, <2>2, <2>3 DEF prev_adjacent
  <2> QED
    BY <1>3, <2>1, <2>4
<1> QED
  BY <1>2, <1>3

\* The condition of the second merge says that the chunk before c is free: what
\* else it asks is true of every chunk of a tiled heap.
LEMMA FreeBeforeIs ==
    ASSUME NEW h, IsHeap(h), NEW C, Tiled(h, C), NEW c \in C
    PROVE  FreeBefore(h, prev_adjacent(h, c), c) <=> prev_adjacent(h, c) \in FreeOf(h, C)
<1> DEFINE p == prev_adjacent(h, c)
<1>1. IF c = 0 THEN p = NULL ELSE p \in C /\ p + span(h, p) = c
  BY PrevAdjacentIs
<1>2. NULL \notin C /\ c \in Nat /\ c < h.hi /\ h.hi \in Nat
  BY InTiling
<1> HIDE DEF p
<1>3. ASSUME p \in C, p + span(h, p) = c
      PROVE  chunk_is_valid(h, p) /\ adjacent(h, p) = c
  <2>1. /\ p \in Nat /\ p < h.hi /\ span(h, p) \in Nat /\ span(h, p) >= 2
        /\ p + span(h, p) <= h.hi /\ h.ftr[footer(h, p)].span = span(h, p)
    BY <1>3, InTiling DEF Tiled
  <2>2. p \in 0 .. h.hi - 1
    BY <1>2, <2>1
  <2>3. adjacent(h, p) = c
    BY <1>2, <1>3, <2>1 DEF adjacent
  <2> QED
    BY <2>1, <2>2, <2>3 DEF chunk_is_valid
<1>4. CASE p = NULL
  BY <1>2, <1>4 DEF FreeBefore, IsFree, FreeOf, p
<1>5. CASE p # NULL
  <2>1. p \in C /\ chunk_is_valid(h, p) /\ adjacent(h, p) = c
    BY <1>1, <1>3, <1>5
  <2> QED
    BY <1>5, <2>1 DEF FreeBefore, IsFree, FreeOf, p
<1> QED
  BY <1>4, <1>5

----------------------------------------------------------------------------
(* The walks.                                                              *)

\* The walk of check_heap_validity meets the chunks at C and no other, and ends at
\* the end of the heap.
LEMMA ChunksAre ==
    ASSUME NEW h, IsHeap(h), NEW C, Tiled(h, C)
    PROVE  Chunks(h) = C /\ Walk(h)[h.hi] = h.hi
<1> DEFINE D    == C \cup {h.hi}
           step == [c \in D |-> Onward(h, c)]
           at   == Walk(h)
           Is(f) == f = [i \in 0 .. h.hi |-> IF i = 0 THEN 0 ELSE Onward(h, f[i - 1])]
<1>0. /\ h.hi \in Nat
      /\ \A c \in C : c \in Nat /\ c < h.hi /\ span(h, c) \in Nat /\ span(h, c) >= 2
                      /\ c + span(h, c) \in D
  BY InTiling DEF Tiled
<1>1. /\ \A c \in D : Onward(h, c) \in D
      /\ \A c \in C : Onward(h, c) = c + span(h, c)
      /\ Onward(h, h.hi) = h.hi
  BY <1>0 DEF Onward
<1>2. 0 \in D
  BY <1>0 DEF Tiled
<1>3. step \in [D -> D]
  BY <1>1
<1>4. Is(at)
  <2>0. PICK f \in [0 .. h.hi -> D] : Repeats(f, h.hi, 0, step)
    <3>1. h.hi \in Nat
      BY <1>0
    <3> HIDE DEF D, step
    <3> QED
      BY <1>2, <1>3, <3>1, Iterates
  <2>1. f \in [0 .. h.hi -> D] /\ f[0] = 0 /\ \A i \in 1 .. h.hi : f[i] = step[f[i - 1]]
    BY <2>0 DEF Repeats
  <2>2. \A i \in 1 .. h.hi : step[f[i - 1]] = Onward(h, f[i - 1])
    <3> SUFFICES ASSUME NEW i \in 1 .. h.hi PROVE step[f[i - 1]] = Onward(h, f[i - 1])
      OBVIOUS
    <3>1. i - 1 \in 0 .. h.hi
      BY <1>0
    <3>2. f[i - 1] \in D
      BY <3>1
    <3> QED
      BY <3>2
  <2>3. Is(f)
    <3>1. ASSUME NEW i \in 0 .. h.hi PROVE f[i] = IF i = 0 THEN 0 ELSE Onward(h, f[i - 1])
      <4>1. i = 0 \/ i \in 1 .. h.hi
        BY <1>0
      <4> HIDE DEF step
      <4> QED
        BY <2>1, <2>2, <4>1
    <3> QED
      BY <3>1, <2>1
  <2>4. at = CHOOSE g : Is(g)
    BY DEF Walk
  <2> HIDE DEF Is
  <2> QED
    BY <2>3, <2>4
<1> HIDE DEF at
<1>5. at[0] = 0 /\ \A i \in 1 .. h.hi : at[i] = Onward(h, at[i - 1])
  BY <1>0, <1>4
<1> HIDE DEF D, Is, step
<1>6. \A i \in 0 .. h.hi : at[i] \in D /\ at[i] >= i
  <2> DEFINE S == {i \in 0 .. h.hi : at[i] \in D /\ at[i] >= i}
  <2>1. 0 \in S
    BY <1>0, <1>2, <1>5
  <2>2. ASSUME NEW i \in 1 .. h.hi, i - 1 \in S PROVE i \in S
    <3>1. at[i] = Onward(h, at[i - 1]) /\ at[i - 1] \in D /\ at[i - 1] >= i - 1
      BY <2>2, <1>5
    <3>2. CASE at[i - 1] = h.hi
      BY <3>1, <3>2, <1>0, <1>1
    <3>3. CASE at[i - 1] \in C
      BY <3>1, <3>3, <1>0, <1>1
    <3> QED
      BY <3>1, <3>2, <3>3 DEF D
  <2> HIDE DEF S
  <2>3. \A i \in 0 .. h.hi : i \in S
    BY <1>0, <2>1, <2>2, UpTo
  <2> QED
    BY <2>3 DEF S
<1>7. ASSUME NEW c \in C PROVE \E i \in 0 .. h.hi : at[i] = c
  <2> DEFINE T == {d \in C : \A i \in 0 .. h.hi : at[i] # d}
  <2> SUFFICES ASSUME c \in T PROVE FALSE
    OBVIOUS
  <2>1. T \in SUBSET Nat /\ T # {}
    BY <1>0
  <2>2. PICK e \in T : \A d \in T : e <= d
    <3> HIDE DEF T
    <3> QED
      BY <2>1, LeastElement
  <2>3. e \in C /\ e \in Nat /\ e < h.hi /\ e # 0
    BY <2>2, <1>0, <1>5
  <2>4. PICK d \in C : d + span(h, d) = e
    BY <2>3, HasPrevious
  <2>5. d \notin T
    BY <2>2, <2>3, <2>4, <1>0
  <2>6. PICK i \in 0 .. h.hi : at[i] = d
    BY <2>5
  <2>7. i + 1 \in 1 .. h.hi
    BY <2>3, <2>4, <2>6, <1>0, <1>6
  <2>8. at[i + 1] = e
    BY <2>4, <2>6, <2>7, <1>1, <1>5
  <2> QED
    BY <2>2, <2>7, <2>8
<1>8. Chunks(h) = {at[i] : i \in 0 .. h.hi} \cap 0 .. h.hi - 1
  BY DEF Chunks, at
<1>9. ASSUME NEW c \in Chunks(h) PROVE c \in C
  BY <1>0, <1>6, <1>8 DEF D
<1>10. at[h.hi] = h.hi
  BY <1>0, <1>6 DEF D
<1> QED
  BY <1>0, <1>7, <1>8, <1>9, <1>10 DEF at

\* What the walk checks is in order.
LEMMA TiledIsValid ==
    ASSUME NEW h, IsHeap(h), NEW C, Tiled(h, C)
    PROVE  WalkIsValid(h) /\ \A c \in C : chunk_is_valid(h, c)
<1>1. \A c \in C : chunk_is_valid(h, c)
  BY InTiling DEF chunk_is_valid, Tiled
<1> QED
  BY <1>1, ChunksAre DEF WalkIsValid

\* The list of the code leads through the chunks of F.
LEMMA ListIs ==
    ASSUME NEW h, NEW F, NEW head, Linked(h, F, head)
    PROVE  /\ List(h, head)[0] = head
           /\ \A i \in 1 .. MaxUnits : List(h, head)[i] = After(h, List(h, head)[i - 1])
           /\ \A i \in 0 .. MaxUnits : List(h, head)[i] \in F \cup {NULL}
<1> DEFINE D    == F \cup {NULL}
           step == [c \in D |-> After(h, c)]
           nth  == List(h, head)
           Is(f) == f = [i \in 0 .. MaxUnits |-> IF i = 0 THEN head ELSE After(h, f[i - 1])]
<1>1. MaxUnits \in Nat /\ head \in D /\ \A c \in D : After(h, c) \in D
  BY Constants DEF After, Linked, Forth
<1>2. step \in [D -> D]
  BY <1>1
<1>3. PICK f \in [0 .. MaxUnits -> D] : Repeats(f, MaxUnits, head, step)
  <2> HIDE DEF D, step
  <2> QED
    BY <1>1, <1>2, Iterates
<1>4. f \in [0 .. MaxUnits -> D] /\ f[0] = head
      /\ \A i \in 1 .. MaxUnits : f[i] = step[f[i - 1]]
  BY <1>3 DEF Repeats
<1>5. ASSUME NEW i \in 1 .. MaxUnits PROVE step[f[i - 1]] = After(h, f[i - 1])
  <2>1. i - 1 \in 0 .. MaxUnits
    BY <1>1
  <2>2. f[i - 1] \in D
    BY <2>1
  <2> QED
    BY <2>2
<1>6. Is(f)
  <2>1. ASSUME NEW i \in 0 .. MaxUnits
        PROVE  f[i] = IF i = 0 THEN head ELSE After(h, f[i - 1])
    <3>1. i = 0 \/ i \in 1 .. MaxUnits
      BY <1>1
    <3> HIDE DEF step
    <3> QED
      BY <1>4, <1>5, <3>1
  <2> QED
    BY <2>1, <1>4
<1>7. Is(nth)
  <2>1. nth = CHOOSE g : Is(g)
    BY DEF List
  <2> HIDE DEF Is
  <2> QED
    BY <1>6, <2>1
<1> DEFINE S == {i \in 0 .. MaxUnits : nth[i] \in D}
<1>8. nth[0] = head /\ \A i \in 1 .. MaxUnits : nth[i] = After(h, nth[i - 1])
  <2> HIDE DEF nth
  <2> QED
    BY <1>1, <1>7
<1> HIDE DEF nth, D, step, Is
<1>9. \A i \in 0 .. MaxUnits : i \in S
  <2>1. 0 \in S
    BY <1>1, <1>8
  <2>2. ASSUME NEW i \in 1 .. MaxUnits, i - 1 \in S PROVE i \in S
    BY <2>2, <1>1, <1>8
  <2> HIDE DEF S
  <2> QED
    BY <1>1, <2>1, <2>2, UpTo
<1> QED
  BY <1>8, <1>9 DEF nth, D

\* It meets none of them twice ...
LEMMA NoneTwice ==
    ASSUME NEW h, NEW F, NEW head, Linked(h, F, head),
           NEW i \in 0 .. MaxUnits, NEW j \in 0 .. MaxUnits, i < j,
           List(h, head)[j] # NULL
    PROVE  List(h, head)[i] # List(h, head)[j]
<1> DEFINE nth == List(h, head)
<1> SUFFICES ASSUME nth[i] = nth[j] PROVE FALSE
  OBVIOUS
<1>1. /\ MaxUnits \in Nat /\ NULL \notin F
      /\ \A k \in 1 .. MaxUnits : nth[k] = After(h, nth[k - 1])
      /\ \A k \in 0 .. MaxUnits : nth[k] \in F \cup {NULL}
  BY ListIs, Constants DEF Linked
<1> HIDE DEF nth
<1>2. ASSUME NEW k \in 1 .. MaxUnits, nth[k] # NULL
      PROVE  nth[k - 1] \in F /\ prev(h, nth[k]) = nth[k - 1]
  <2>1. k - 1 \in 0 .. MaxUnits /\ nth[k] = After(h, nth[k - 1])
    BY <1>1
  <2>2. nth[k - 1] \in F
    BY <1>1, <1>2, <2>1 DEF After
  <2> QED
    BY <1>1, <1>2, <2>1, <2>2 DEF Linked, Forth, After
<1>3. \A m \in 0 .. j : nth[j - m] \in F
  <2> DEFINE S == {m \in 0 .. j : nth[j - m] \in F}
  <2>1. 0 \in S
    BY <1>1 DEF nth
  <2>2. ASSUME NEW m \in 1 .. j, m - 1 \in S PROVE m \in S
    <3>1. j - (m - 1) \in 1 .. MaxUnits /\ (j - (m - 1)) - 1 = j - m
      BY <1>1
    <3>2. nth[j - (m - 1)] # NULL
      BY <2>2, <1>1
    <3> QED
      BY <3>1, <3>2, <1>2
  <2> HIDE DEF S
  <2>3. \A m \in 0 .. j : m \in S
    BY <2>1, <2>2, UpTo
  <2> QED
    BY <2>3 DEF S
<1> DEFINE R == {nth[k] : k \in i .. j - 1}
<1>4. \A k \in 0 .. j : nth[k] \in F
  <2> SUFFICES ASSUME NEW k \in 0 .. j PROVE nth[k] \in F
    OBVIOUS
  <2>1. j - k \in 0 .. j /\ j - (j - k) = k
    OBVIOUS
  <2> QED
    BY <1>3, <2>1
<1>5. R \in SUBSET F /\ R # {}
  <2>1. i \in i .. j - 1 /\ \A k \in i .. j - 1 : k \in 0 .. j
    OBVIOUS
  <2> QED
    BY <2>1, <1>4
<1>6. ASSUME NEW k \in i .. j - 1 PROVE prev(h, nth[k]) \in R
  <2>1. CASE k = i
    <3>1. j \in 1 .. MaxUnits /\ j - 1 \in i .. j - 1 /\ nth[j] # NULL
      BY <1>1, <1>4
    <3>2. prev(h, nth[j]) = nth[j - 1]
      BY <3>1, <1>2
    <3> QED
      BY <2>1, <3>1, <3>2
  <2>2. CASE k # i
    <3>1. k \in 1 .. MaxUnits /\ k - 1 \in i .. j - 1 /\ k \in 0 .. j
      BY <1>1, <2>2
    <3>2. nth[k] # NULL
      BY <3>1, <1>1, <1>4
    <3>3. prev(h, nth[k]) = nth[k - 1]
      BY <3>1, <3>2, <1>2
    <3> QED
      BY <3>1, <3>3
  <2> QED
    BY <2>1, <2>2
<1>7. \A c \in R : prev(h, c) \in R
  BY <1>6
<1> HIDE DEF R
<1> QED
  BY <1>5, <1>7 DEF Linked, NoRing

\* ... so it comes to its end within the bound of the walk ...
LEMMA ListEnds ==
    ASSUME NEW h, NEW F, NEW head, Linked(h, F, head)
    PROVE  List(h, head)[MaxUnits] = NULL
<1> DEFINE nth == List(h, head)
<1> SUFFICES ASSUME nth[MaxUnits] # NULL PROVE FALSE
  OBVIOUS
<1>1. /\ MaxUnits \in Nat /\ F \subseteq Units
      /\ \A k \in 1 .. MaxUnits : nth[k] = After(h, nth[k - 1])
      /\ \A k \in 0 .. MaxUnits : nth[k] \in F \cup {NULL}
  BY ListIs, Constants DEF Linked
<1>2. \A i, j \in 0 .. MaxUnits : i < j /\ nth[j] # NULL => nth[i] # nth[j]
  BY NoneTwice
<1> HIDE DEF nth
<1> DEFINE S == {m \in 0 .. MaxUnits : nth[MaxUnits - m] # NULL}
<1>3. \A m \in 0 .. MaxUnits : m \in S
  <2>1. 0 \in S
    BY <1>1 DEF nth
  <2>2. ASSUME NEW m \in 1 .. MaxUnits, m - 1 \in S PROVE m \in S
    <3>1. MaxUnits - (m - 1) \in 1 .. MaxUnits /\ (MaxUnits - (m - 1)) - 1 = MaxUnits - m
      BY <1>1
    <3>2. nth[MaxUnits - (m - 1)] = After(h, nth[MaxUnits - m])
      BY <3>1, <1>1
    <3> QED
      BY <2>2, <3>2 DEF After
  <2> HIDE DEF S
  <2> QED
    BY <1>1, <2>1, <2>2, UpTo
<1>4. ASSUME NEW k \in 0 .. MaxUnits PROVE nth[k] \in Units /\ nth[k] # NULL
  <2>1. MaxUnits - k \in 0 .. MaxUnits /\ MaxUnits - (MaxUnits - k) = k
    BY <1>1
  <2> QED
    BY <1>1, <1>3, <2>1
<1> DEFINE f == [k \in 0 .. MaxUnits |-> nth[k]]
<1>5. f \in [0 .. MaxUnits -> Units]
  BY <1>4
<1>6. /\ IsFiniteSet(0 .. MaxUnits) /\ Cardinality(0 .. MaxUnits) = MaxUnits + 1
      /\ IsFiniteSet(Units) /\ Cardinality(Units) = MaxUnits
  BY <1>1, FS_Interval DEF Units
<1>7. PICK i \in 0 .. MaxUnits, j \in 0 .. MaxUnits : i # j /\ f[i] = f[j]
  <2> DEFINE P == 0 .. MaxUnits
  <2> HIDE DEF f
  <2>1. f \in [P -> Units] /\ IsFiniteSet(P) /\ IsFiniteSet(Units)
        /\ Cardinality(Units) < Cardinality(P)
    BY <1>1, <1>5, <1>6
  <2> HIDE DEF P
  <2>2. \E x, y \in P : x # y /\ f[x] = f[y]
    BY <2>1, FS_PigeonHole
  <2> QED
    BY <2>2 DEF P
<1>8. i < j \/ j < i
  BY <1>1, <1>7
<1> QED
  BY <1>2, <1>4, <1>7, <1>8

\* ... and leaves none out.
LEMMA ListedAre ==
    ASSUME NEW h, NEW F, NEW head, Linked(h, F, head)
    PROVE  Listed(h, head) = F
<1> DEFINE nth == List(h, head)
           T   == F \ {nth[i] : i \in 0 .. MaxUnits}
<1>1. /\ MaxUnits \in Nat /\ NULL \notin F
      /\ nth[0] = head /\ nth[MaxUnits] = NULL
      /\ \A k \in 1 .. MaxUnits : nth[k] = After(h, nth[k - 1])
      /\ \A k \in 0 .. MaxUnits : nth[k] \in F \cup {NULL}
  BY ListIs, ListEnds, Constants DEF Linked
<1>2. Listed(h, head) = {nth[i] : i \in 0 .. MaxUnits} \ {NULL}
  BY DEF Listed
<1> HIDE DEF nth
<1>3. T = {}
  <2> SUFFICES ASSUME T # {} PROVE FALSE
    OBVIOUS
  <2>1. PICK c \in T : prev(h, c) \notin T
    BY DEF Linked, NoRing
  <2>2. c \in F /\ \A i \in 0 .. MaxUnits : nth[i] # c
    OBVIOUS
  <2>3. prev(h, c) # NULL /\ prev(h, c) \in F /\ next(h, prev(h, c)) = c
    BY <2>2, <1>1 DEF Linked, Back
  <2>4. PICK i \in 0 .. MaxUnits : nth[i] = prev(h, c)
    BY <2>1, <2>3
  <2>5. i + 1 \in 1 .. MaxUnits /\ (i + 1) - 1 = i
    BY <1>1, <2>3, <2>4
  <2>6. nth[i + 1] = c
    BY <1>1, <2>3, <2>4, <2>5 DEF After
  <2> QED
    BY <2>2, <2>5, <2>6
<1> QED
  BY <1>1, <1>2, <1>3

\* What check_heap_validity finds of such a list is in order.
LEMMA LinkedIsValid ==
    ASSUME NEW h, IsHeap(h), NEW C, Tiled(h, C), Apart(h, C, {}),
           NEW F, NEW head, Linked(h, F, head), F \subseteq FreeOf(h, C)
    PROVE  ListIsValid(h, head)
<1>1. Listed(h, head) = F
  BY ListedAre
<1>2. ASSUME NEW c \in F
      PROVE  /\ status(h, c) = CHUNK_FREE /\ chunk_is_valid(h, c)
             /\ ~IsFree(h, adjacent(h, c))
             /\ next(h, c) # NULL => prev(h, next(h, c)) = c
             /\ IF c = head THEN prev(h, c) = NULL
                ELSE prev(h, c) # NULL /\ next(h, prev(h, c)) = c
  <2>1. c \in C /\ c \in FreeOf(h, C) /\ status(h, c) = CHUNK_FREE
    BY DEF FreeOf
  <2>2. c + span(h, c) \notin FreeOf(h, C)
    BY <2>1 DEF Apart
  <2>3. chunk_is_valid(h, c) /\ ~IsFree(h, adjacent(h, c))
    BY <2>1, <2>2, TiledIsValid, AdjacentIs
  <2> QED
    BY <2>1, <2>3 DEF Linked, Forth, Back
<1> QED
  BY <1>1, <1>2 DEF ListIsValid

\* The search of heapmgr_malloc finds a chunk of the list with room, if it has one.
LEMMA FirstFitIs ==
    ASSUME NEW h, NEW F, NEW head, Linked(h, F, head), NEW need
    PROVE  LET c == FirstFit(h, head, need)
           IN  IF c = NULL THEN \A d \in F : ~(span(h, d) - 2 >= need)
               ELSE c \in F /\ span(h, c) - 2 >= need
<1> DEFINE nth  == List(h, head)
           fits == {i \in 0 .. MaxUnits : nth[i] # NULL /\ span(h, nth[i]) - 2 >= need}
           i    == CHOOSE k \in fits : \A j \in fits : k <= j
           c    == FirstFit(h, head, need)
<1>1. /\ MaxUnits \in Nat /\ NULL \notin F
      /\ \A k \in 0 .. MaxUnits : nth[k] \in F \cup {NULL}
      /\ \A d \in F : \E k \in 0 .. MaxUnits : nth[k] = d
  <2>1. F = {nth[k] : k \in 0 .. MaxUnits} \ {NULL}
    BY ListedAre DEF Listed
  <2>2. MaxUnits \in Nat /\ NULL \notin F /\ \A k \in 0 .. MaxUnits : nth[k] \in F \cup {NULL}
    BY ListIs, Constants DEF Linked
  <2> HIDE DEF nth
  <2> QED
    BY <2>1, <2>2
<1>2. c = IF fits = {} THEN NULL ELSE nth[i]
  BY DEF FirstFit
<1> HIDE DEF nth, c
<1>3. CASE fits = {}
  <2>1. \A d \in F : ~(span(h, d) - 2 >= need)
    BY <1>1, <1>3
  <2> QED
    BY <1>2, <1>3, <2>1 DEF c
<1>4. CASE fits # {}
  <2>1. fits \in SUBSET Nat
    BY <1>1
  <2>2. i \in fits
    <3> HIDE DEF fits
    <3> QED
      BY <1>4, <2>1, LeastElement
  <2>3. c = nth[i]
    BY <1>2, <1>4
  <2> HIDE DEF i
  <2>4. c \in F /\ c # NULL /\ span(h, c) - 2 >= need
    BY <1>1, <2>2, <2>3
  <2> QED
    BY <2>4 DEF c
<1> QED
  BY <1>3, <1>4

----------------------------------------------------------------------------
(* Writing headers and footers.                                            *)

\* The fields a heap manager adds are as they were.
Rest(h, h2) ==
    /\ DOMAIN h2 = DOMAIN h
    /\ \A x \in DOMAIN h \ {"hdr", "ftr", "hi"} : h2[x] = h[x]

\* h2 differs from h in the headers at W and the footers at V at most.
Writes(h, h2, W, V) ==
    /\ \A u \in Units \ W : h2.hdr[u] = h.hdr[u]
    /\ \A u \in Units \ V : h2.ftr[u] = h.ftr[u]

\* h2 has the chunks of h, each as large as before: the status differs in S at most,
\* the next chunk in N and the previous one in P.
Relinked(h, h2, C, S, N, P) ==
    /\ IsHeap(h2) /\ Rest(h, h2) /\ h2.hi = h.hi /\ Writes(h, h2, C, Feet(h, C))
    /\ \A c \in C : /\ span(h2, c) = span(h, c)
                    /\ h2.ftr[footer(h, c)].span = h.ftr[footer(h, c)].span
    /\ \A c \in C \ S : status(h2, c) = status(h, c)
    /\ \A c \in C \ N : next(h2, c) = next(h, c)
    /\ \A c \in C \ P : prev(h2, c) = prev(h, c)

\* Writing the headers leaves the other fields of the record alone ...
LEMMA NewHeaders ==
    ASSUME NEW h, IsHeap(h), NEW v \in [Units -> Header]
    PROVE  LET h2 == [h EXCEPT !.hdr = v]
           IN  IsHeap(h2) /\ Rest(h, h2) /\ h2.hdr = v /\ h2.ftr = h.ftr /\ h2.hi = h.hi
<1> DEFINE h2 == [h EXCEPT !.hdr = v]
<1>1. {"hdr", "ftr", "hi"} \subseteq DOMAIN h
  BY DEF IsHeap
<1>2. DOMAIN h2 = DOMAIN h /\ h2.hdr = v /\ \A x \in DOMAIN h \ {"hdr"} : h2[x] = h[x]
  BY <1>1
<1>3. h2.ftr = h.ftr /\ h2.hi = h.hi
  BY <1>1
<1> HIDE DEF h2
<1>4. IsHeap(h2) /\ Rest(h, h2)
  BY <1>1, <1>2, <1>3 DEF IsHeap, Rest
<1> QED
  BY <1>2, <1>3, <1>4 DEF h2

\* ... so it is with the footers ...
LEMMA NewFooters ==
    ASSUME NEW h, IsHeap(h), NEW v \in [Units -> Footer]
    PROVE  LET h2 == [h EXCEPT !.ftr = v]
           IN  IsHeap(h2) /\ Rest(h, h2) /\ h2.ftr = v /\ h2.hdr = h.hdr /\ h2.hi = h.hi
<1> DEFINE h2 == [h EXCEPT !.ftr = v]
<1>1. {"hdr", "ftr", "hi"} \subseteq DOMAIN h
  BY DEF IsHeap
<1>2. DOMAIN h2 = DOMAIN h /\ h2.ftr = v /\ \A x \in DOMAIN h \ {"ftr"} : h2[x] = h[x]
  BY <1>1
<1>3. h2.hdr = h.hdr /\ h2.hi = h.hi
  BY <1>1
<1> HIDE DEF h2
<1>4. IsHeap(h2) /\ Rest(h, h2)
  BY <1>1, <1>2, <1>3 DEF IsHeap, Rest
<1> QED
  BY <1>2, <1>3, <1>4 DEF h2

\* ... and with the end of the heap.
LEMMA NewEnd ==
    ASSUME NEW h, IsHeap(h), NEW v \in 0 .. MaxUnits
    PROVE  LET h2 == [h EXCEPT !.hi = v]
           IN  IsHeap(h2) /\ Rest(h, h2) /\ h2.hi = v /\ h2.hdr = h.hdr /\ h2.ftr = h.ftr
<1> DEFINE h2 == [h EXCEPT !.hi = v]
<1>1. {"hdr", "ftr", "hi"} \subseteq DOMAIN h
  BY DEF IsHeap
<1>2. DOMAIN h2 = DOMAIN h /\ h2.hi = v /\ \A x \in DOMAIN h \ {"hi"} : h2[x] = h[x]
  BY <1>1
<1>3. h2.hdr = h.hdr /\ h2.ftr = h.ftr
  BY <1>1
<1> HIDE DEF h2
<1>4. IsHeap(h2) /\ Rest(h, h2)
  BY <1>1, <1>2, <1>3 DEF IsHeap, Rest
<1> QED
  BY <1>2, <1>3, <1>4 DEF h2

\* What set_status writes.
LEMMA SetStatus ==
    ASSUME NEW h, IsHeap(h), NEW C, Tiled(h, C), NEW c \in C, NEW s \in {CHUNK_FREE, CHUNK_USED}
    PROVE  LET h2 == set_status(h, c, s)
           IN  Relinked(h, h2, C, {c}, {}, {}) /\ status(h2, c) = s
<1> DEFINE v  == [h.hdr EXCEPT ![c].status = s]
           h2 == set_status(h, c, s)
<1>1. c \in Units /\ C \subseteq Units /\ h.hdr \in [Units -> Header]
  BY InTiling DEF IsHeap
<1>2. /\ v \in [Units -> Header] /\ \A u \in Units \ {c} : v[u] = h.hdr[u]
      /\ v[c].status = s /\ v[c].span = h.hdr[c].span /\ v[c].next = h.hdr[c].next
  BY <1>1 DEF Header
<1>3. h2 = [h EXCEPT !.hdr = v]
  BY DEF set_status
<1> HIDE DEF v, h2
<1>4. IsHeap(h2) /\ Rest(h, h2) /\ h2.hdr = v /\ h2.ftr = h.ftr /\ h2.hi = h.hi
  BY <1>2, <1>3, NewHeaders
<1>5. /\ status(h2, c) = s
      /\ \A d \in C : span(h2, d) = span(h, d) /\ next(h2, d) = next(h, d)
      /\ \A d \in C \ {c} : status(h2, d) = status(h, d)
  BY <1>1, <1>2, <1>4 DEF status, span, next
<1>6. \A d \in C : prev(h2, d) = prev(h, d)
  BY <1>4, <1>5 DEF prev, footer
<1> QED
  BY <1>1, <1>2, <1>4, <1>5, <1>6 DEF Relinked, Writes, h2

\* What set_next writes.
LEMMA SetNext ==
    ASSUME NEW h, IsHeap(h), NEW C, Tiled(h, C), NEW c \in C, NEW n \in C \cup {NULL}
    PROVE  LET h2 == set_next(h, c, n)
           IN  Relinked(h, h2, C, {}, {c}, {}) /\ next(h2, c) = n
<1> DEFINE v  == [h.hdr EXCEPT ![c].next = n]
           h2 == set_next(h, c, n)
<1>1. c \in Units /\ C \subseteq Units /\ n \in Units \cup {NULL} /\ h.hdr \in [Units -> Header]
  BY InTiling DEF IsHeap
<1>2. /\ v \in [Units -> Header] /\ \A u \in Units \ {c} : v[u] = h.hdr[u]
      /\ v[c].status = h.hdr[c].status /\ v[c].span = h.hdr[c].span /\ v[c].next = n
  BY <1>1 DEF Header
<1>3. h2 = [h EXCEPT !.hdr = v]
  BY DEF set_next
<1> HIDE DEF v, h2
<1>4. IsHeap(h2) /\ Rest(h, h2) /\ h2.hdr = v /\ h2.ftr = h.ftr /\ h2.hi = h.hi
  BY <1>2, <1>3, NewHeaders
<1>5. /\ next(h2, c) = n
      /\ \A d \in C : span(h2, d) = span(h, d) /\ status(h2, d) = status(h, d)
      /\ \A d \in C \ {c} : next(h2, d) = next(h, d)
  BY <1>1, <1>2, <1>4 DEF status, span, next
<1>6. \A d \in C : prev(h2, d) = prev(h, d)
  BY <1>4, <1>5 DEF prev, footer
<1> QED
  BY <1>1, <1>2, <1>4, <1>5, <1>6 DEF Relinked, Writes, h2

\* What set_prev writes: a footer, which is no other chunk's.
LEMMA SetPrev ==
    ASSUME NEW h, IsHeap(h), NEW C, Tiled(h, C), NEW c \in C, NEW p \in C \cup {NULL}
    PROVE  LET h2 == set_prev(h, c, p)
           IN  Relinked(h, h2, C, {}, {}, {c}) /\ prev(h2, c) = p
<1> DEFINE f  == footer(h, c)
           v  == [h.ftr EXCEPT ![f].prev = p]
           h2 == set_prev(h, c, p)
<1>1. f \in Units /\ C \subseteq Units /\ p \in Units \cup {NULL} /\ h.ftr \in [Units -> Footer]
      /\ \A d \in C : footer(h, d) \in Units
  BY InTiling DEF IsHeap
<1>2. h2 = [h EXCEPT !.ftr = v]
  BY DEF set_prev
<1> HIDE DEF f
<1>3. /\ v \in [Units -> Footer] /\ \A u \in Units \ {f} : v[u] = h.ftr[u]
      /\ v[f].span = h.ftr[f].span /\ v[f].prev = p
  BY <1>1 DEF Footer
<1> HIDE DEF v, h2
<1>4. IsHeap(h2) /\ Rest(h, h2) /\ h2.ftr = v /\ h2.hdr = h.hdr /\ h2.hi = h.hi
  BY <1>2, <1>3, NewFooters
<1>5. \A d \in C : /\ span(h2, d) = span(h, d) /\ status(h2, d) = status(h, d)
                   /\ next(h2, d) = next(h, d) /\ footer(h2, d) = footer(h, d)
  BY <1>4 DEF status, span, next, footer
<1>6. \A d \in C : h2.ftr[footer(h, d)].span = h.ftr[footer(h, d)].span
  BY <1>1, <1>3, <1>4
<1>7. prev(h2, c) = p
  BY <1>3, <1>4, <1>5 DEF prev, f
<1>8. \A d \in C \ {c} : prev(h2, d) = prev(h, d)
  <2> SUFFICES ASSUME NEW d \in C \ {c} PROVE prev(h2, d) = prev(h, d)
    OBVIOUS
  <2>1. footer(h, d) # f /\ footer(h, d) \in Units
    BY <1>1, OwnFeet DEF f
  <2> QED
    BY <2>1, <1>3, <1>4, <1>5 DEF prev
<1>9. Writes(h, h2, C, Feet(h, C))
  BY <1>3, <1>4 DEF Writes, Feet, f
<1> QED
  BY <1>4, <1>5, <1>6, <1>7, <1>8, <1>9 DEF Relinked, h2

\* A tiled heap stays tiled.
LEMMA StillTiled ==
    ASSUME NEW h, NEW h2, NEW C, NEW S, NEW N, NEW P, Tiled(h, C), Relinked(h, h2, C, S, N, P)
    PROVE  Tiled(h2, C) /\ Feet(h2, C) = Feet(h, C) /\ \A c \in C : footer(h2, c) = footer(h, c)
<1>1. \A c \in C : footer(h2, c) = footer(h, c)
  BY DEF Relinked, footer
<1>2. Tiled(h2, C)
  BY <1>1 DEF Relinked, Tiled
<1>3. Feet(h2, C) = Feet(h, C)
  BY <1>1 DEF Feet
<1> QED
  BY <1>1, <1>2, <1>3

\* One write after another.
LEMMA ThenRelinked ==
    ASSUME NEW h, NEW h2, NEW h3, NEW C, NEW S, NEW N, NEW P, NEW S2, NEW N2, NEW P2,
           Tiled(h, C), Relinked(h, h2, C, S, N, P), Relinked(h2, h3, C, S2, N2, P2)
    PROVE  Relinked(h, h3, C, S \cup S2, N \cup N2, P \cup P2)
<1>1. Feet(h2, C) = Feet(h, C) /\ \A c \in C : footer(h2, c) = footer(h, c)
  BY StillTiled
<1>2. Rest(h, h3)
  BY DEF Relinked, Rest
<1>3. Writes(h, h3, C, Feet(h, C))
  BY <1>1 DEF Relinked, Writes
<1> QED
  BY <1>1, <1>2, <1>3 DEF Relinked

\* What set_links writes.
LEMMA SetLinks ==
    ASSUME NEW h, IsHeap(h), NEW C, Tiled(h, C), NEW c \in C,
           NEW p \in C \cup {NULL}, NEW n \in C \cup {NULL}
    PROVE  LET h2 == set_links(h, c, p, n)
           IN  Relinked(h, h2, C, {}, {c}, {c}) /\ prev(h2, c) = p /\ next(h2, c) = n
<1> DEFINE h1 == set_next(h, c, n)
           h2 == set_prev(h1, c, p)
<1>1. Relinked(h, h1, C, {}, {c}, {}) /\ next(h1, c) = n
  BY SetNext
<1> HIDE DEF h1
<1>2. IsHeap(h1) /\ Tiled(h1, C)
  BY <1>1, StillTiled DEF Relinked
<1>3. Relinked(h1, h2, C, {}, {}, {c}) /\ prev(h2, c) = p
  BY <1>2, SetPrev
<1>4. set_links(h, c, p, n) = h2
  BY DEF set_links, h1
<1> HIDE DEF h2
<1>5. Relinked(h, h2, C, {} \cup {}, {c} \cup {}, {} \cup {c})
  BY <1>1, <1>3, ThenRelinked
<1>6. {} \cup {} = {} /\ {c} \cup {} = {c} /\ {} \cup {c} = {c}
  OBVIOUS
<1>7. Relinked(h, h2, C, {}, {c}, {c})
  BY <1>5, <1>6
<1>8. next(h2, c) = n
  BY <1>1, <1>3 DEF Relinked
<1> QED
  BY <1>3, <1>4, <1>7, <1>8

----------------------------------------------------------------------------
(* Lists that change.                                                      *)

\* Nothing of the list is written.
LEMMA SameList ==
    ASSUME NEW h, NEW h2, NEW F, NEW head, Linked(h, F, head),
           \A d \in F : next(h2, d) = next(h, d) /\ prev(h2, d) = prev(h, d)
    PROVE  Linked(h2, F, head)
<1>1. Forth(h2, F, head) /\ Back(h2, F, head)
  BY DEF Linked, Forth, Back
<1>2. NoRing(h2, F)
  BY DEF Linked, NoRing
<1> QED
  BY <1>1, <1>2 DEF Linked

\* c is taken out: what was before it leads to what was after it, and back.
LEMMA TakenOut ==
    ASSUME NEW h, NEW h2, NEW F, NEW head, Linked(h, F, head), NEW c \in F,
           \A d \in F \ {c} :
              /\ next(h2, d) = IF d = prev(h, c) THEN next(h, c) ELSE next(h, d)
              /\ prev(h2, d) = IF d = next(h, c) THEN prev(h, c) ELSE prev(h, d)
    PROVE  Linked(h2, F \ {c}, IF prev(h, c) = NULL THEN next(h, c) ELSE head)
<1> DEFINE p  == prev(h, c)
           n  == next(h, c)
           G  == F \ {c}
           hd == IF p = NULL THEN n ELSE head
<1>1. /\ NULL \notin F /\ F \subseteq Units
      /\ n # NULL => n \in F /\ prev(h, n) = c
      /\ IF p = NULL THEN c = head ELSE p \in F /\ next(h, p) = c
      /\ head \in F /\ prev(h, head) = NULL
  BY Constants DEF Linked, Forth, Back
<1>2. n # c /\ p # c
  <2>1. PICK d \in {c} : prev(h, d) \notin {c}
    BY DEF Linked, NoRing
  <2> QED
    BY <2>1, <1>1
<1>3. n # NULL => n # p
  <2> SUFFICES ASSUME n # NULL, n = p PROVE FALSE
    OBVIOUS
  <2>1. {c, n} \in SUBSET F /\ {c, n} # {}
    BY <1>1
  <2>2. PICK d \in {c, n} : prev(h, d) \notin {c, n}
    BY <2>1 DEF Linked, NoRing
  <2> QED
    BY <2>2, <1>1
<1>4. ASSUME NEW d \in G
      PROVE  /\ next(h2, d) = IF d = p THEN n ELSE next(h, d)
             /\ prev(h2, d) = IF d = n THEN p ELSE prev(h, d)
  OBVIOUS
<1>5. IF hd = NULL THEN G = {} ELSE hd \in G /\ prev(h2, hd) = NULL
  <2>1. CASE p = NULL /\ n = NULL
    <3> SUFFICES ASSUME G # {} PROVE FALSE
      BY <2>1
    <3>1. PICK d \in G : prev(h, d) \notin G
      BY DEF Linked, NoRing
    <3>2. d \in F /\ d # c
      OBVIOUS
    <3>3. IF prev(h, d) = NULL THEN d = head ELSE prev(h, d) \in F /\ next(h, prev(h, d)) = d
      BY <3>2 DEF Linked, Back
    <3> QED
      BY <2>1, <1>1, <3>1, <3>2, <3>3
  <2>2. CASE p = NULL /\ n # NULL
    BY <2>2, <1>1, <1>2, <1>4
  <2>3. CASE p # NULL
    <3>1. head \in G /\ head # n
      BY <2>3, <1>1, <1>2, Constants
    <3> QED
      BY <2>3, <3>1, <1>1, <1>4
  <2> QED
    BY <2>1, <2>2, <2>3
<1>6. Forth(h2, G, hd)
  <2> SUFFICES ASSUME NEW d \in G, next(h2, d) # NULL
               PROVE  next(h2, d) \in G /\ prev(h2, next(h2, d)) = d
    BY DEF Forth
  <2>1. CASE d = p
    BY <2>1, <1>1, <1>2, <1>4
  <2>2. CASE d # p
    <3>1. next(h, d) = next(h2, d) /\ next(h, d) \in F /\ prev(h, next(h, d)) = d
      BY <2>2, <1>4 DEF Linked, Forth
    <3>2. next(h, d) # c /\ next(h, d) # n
      BY <3>1, <2>2, <1>1
    <3> QED
      BY <3>1, <3>2, <1>4
  <2> QED
    BY <2>1, <2>2
<1>7. Back(h2, G, hd)
  <2> SUFFICES ASSUME NEW d \in G
               PROVE  IF prev(h2, d) = NULL THEN d = hd
                      ELSE prev(h2, d) \in G /\ next(h2, prev(h2, d)) = d
    BY DEF Back
  <2>1. CASE d = n
    BY <2>1, <1>1, <1>2, <1>4
  <2>2. CASE d # n
    <3>1. /\ prev(h2, d) = prev(h, d)
          /\ IF prev(h, d) = NULL THEN d = head ELSE prev(h, d) \in F /\ next(h, prev(h, d)) = d
      BY <2>2, <1>4 DEF Linked, Back
    <3>2. prev(h, d) # NULL => prev(h, d) # c /\ prev(h, d) # p
      BY <3>1, <2>2, <1>1
    <3> QED
      BY <3>1, <3>2, <1>1, <1>4
  <2> QED
    BY <2>1, <2>2
<1>8. NoRing(h2, G)
  <2> SUFFICES ASSUME NEW S \in SUBSET G, S # {} PROVE \E d \in S : prev(h2, d) \notin S
    BY DEF NoRing
  <2>1. CASE p \in S
    <3>1. S \cup {c} \in SUBSET F /\ S \cup {c} # {}
      OBVIOUS
    <3>2. PICK d \in S \cup {c} : prev(h, d) \notin S \cup {c}
      BY <3>1 DEF Linked, NoRing
    <3>3. d # c /\ d # n
      BY <3>2, <2>1, <1>1, Constants
    <3> QED
      BY <3>2, <3>3, <1>4
  <2>2. CASE p \notin S
    <3>1. PICK d \in S : prev(h, d) \notin S
      BY DEF Linked, NoRing
    <3> QED
      BY <3>1, <2>2, <1>4
  <2> QED
    BY <2>1, <2>2
<1>9. G \subseteq Units
  BY <1>1
<1> QED
  BY <1>5, <1>6, <1>7, <1>8, <1>9 DEF Linked

\* c is put before the head.
LEMMA PutFirst ==
    ASSUME NEW h, NEW h2, NEW F, NEW head, Linked(h, F, head), NEW c \in Units \ F,
           next(h2, c) = head, prev(h2, c) = NULL,
           \A d \in F : /\ next(h2, d) = next(h, d)
                       /\ prev(h2, d) = IF d = head THEN c ELSE prev(h, d)
    PROVE  Linked(h2, F \cup {c}, c)
<1> DEFINE G == F \cup {c}
<1>1. /\ NULL \notin F /\ F \subseteq Units /\ c # NULL /\ G \subseteq Units
      /\ IF head = NULL THEN F = {} ELSE head \in F /\ prev(h, head) = NULL
  BY Constants DEF Linked
<1>2. ASSUME NEW d \in F
      PROVE  /\ next(h2, d) = next(h, d)
             /\ prev(h2, d) = IF d = head THEN c ELSE prev(h, d)
             /\ next(h, d) # NULL => next(h, d) \in F /\ prev(h, next(h, d)) = d
             /\ IF prev(h, d) = NULL THEN d = head ELSE prev(h, d) \in F /\ next(h, prev(h, d)) = d
  BY DEF Linked, Forth, Back
<1>3. Forth(h2, G, c)
  <2> SUFFICES ASSUME NEW d \in G, next(h2, d) # NULL
               PROVE  next(h2, d) \in G /\ prev(h2, next(h2, d)) = d
    BY DEF Forth
  <2>1. CASE d = c
    BY <2>1, <1>1, <1>2
  <2>2. CASE d \in F
    <3>1. next(h, d) = next(h2, d) /\ next(h, d) \in F /\ prev(h, next(h, d)) = d
      BY <2>2, <1>2
    <3>2. next(h, d) # head
      BY <2>2, <3>1, <1>1
    <3> QED
      BY <3>1, <3>2, <1>2
  <2> QED
    BY <2>1, <2>2
<1>4. Back(h2, G, c)
  <2> SUFFICES ASSUME NEW d \in G
               PROVE  IF prev(h2, d) = NULL THEN d = c
                      ELSE prev(h2, d) \in G /\ next(h2, prev(h2, d)) = d
    BY DEF Back
  <2> QED
    BY <1>1, <1>2
<1>5. NoRing(h2, G)
  <2> SUFFICES ASSUME NEW S \in SUBSET G, S # {} PROVE \E d \in S : prev(h2, d) \notin S
    BY DEF NoRing
  <2>1. CASE c \in S
    <3>1. NULL \notin S
      BY <1>1
    <3> QED
      BY <2>1, <3>1
  <2>2. CASE c \notin S
    <3>1. S \in SUBSET F
      BY <2>2
    <3>2. PICK d \in S : prev(h, d) \notin S
      BY <3>1 DEF Linked, NoRing
    <3> QED
      BY <3>1, <3>2, <2>2, <1>2
  <2> QED
    BY <2>1, <2>2
<1> QED
  BY <1>1, <1>3, <1>4, <1>5 DEF Linked

----------------------------------------------------------------------------
(* Chunks that change.                                                     *)

\* The same chunks, each as large and with the same status.
SameShape(h, h2, C) ==
    /\ h2.hi = h.hi
    /\ \A d \in C : status(h2, d) = status(h, d) /\ span(h2, d) = span(h, d)

LEMMA SameParts ==
    ASSUME NEW h, NEW h2, NEW C, SameShape(h, h2, C)
    PROVE  /\ FreeOf(h2, C) = FreeOf(h, C) /\ UsedOf(h2, C) = UsedOf(h, C)
           /\ \A X : Apart(h, C, X) => Apart(h2, C, X)
BY DEF SameShape, FreeOf, UsedOf, Apart

\* A chunk that is as it was.
SameChunk(h, h2, c) ==
    /\ status(h2, c) = status(h, c) /\ span(h2, c) = span(h, c)
    /\ next(h2, c) = next(h, c) /\ prev(h2, c) = prev(h, c)

\* The chunks at U, and the memory inside them, are as they were.
Kept(h, h2, U) ==
    \A c \in U : /\ SameChunk(h, h2, c)
                /\ \A u \in c + 1 .. footer(h, c) - 1 : h2.hdr[u] = h.hdr[u] /\ h2.ftr[u] = h.ftr[u]

LEMMA KeptOn ==
    ASSUME NEW h, NEW h2, NEW h3, NEW U, Kept(h, h2, U), Kept(h2, h3, U)
    PROVE  Kept(h, h3, U)
<1>1. ASSUME NEW c \in U PROVE SameChunk(h, h3, c) /\ footer(h2, c) = footer(h, c)
  BY DEF Kept, SameChunk, footer
<1> QED
  BY <1>1 DEF Kept

\* What is written to headers and footers of chunks is not written into chunks.
LEMMA KeptInside ==
    ASSUME NEW h, IsHeap(h), NEW C, Tiled(h, C), NEW h2, IsHeap(h2), NEW D, Tiled(h2, D),
           NEW U, U \subseteq C, U \subseteq D, \A c \in U : SameChunk(h, h2, c),
           Writes(h, h2, C \cup D, Feet(h, C) \cup Feet(h2, D))
    PROVE  Kept(h, h2, U)
<1> SUFFICES ASSUME NEW c \in U, NEW u \in c + 1 .. footer(h, c) - 1
             PROVE  h2.hdr[u] = h.hdr[u] /\ h2.ftr[u] = h.ftr[u]
  BY DEF Kept
<1>1. c \in C /\ c \in D /\ footer(h2, c) = footer(h, c)
  BY DEF SameChunk, footer
<1>2. u \notin C \cup D /\ u \notin Feet(h, C) \cup Feet(h2, D)
  BY <1>1, Insides
<1>3. u \in Units
  <2>1. c \in Nat /\ footer(h, c) \in Nat /\ footer(h, c) \in Units
    BY <1>1, InTiling
  <2>2. u \in Nat /\ u < footer(h, c)
    BY <2>1
  <2> QED
    BY <2>1, <2>2, Constants
<1> QED
  BY <1>2, <1>3 DEF Writes

\* The chunks whose links are not written are kept.
LEMMA RelinkedKeeps ==
    ASSUME NEW h, IsHeap(h), NEW h2, NEW C, NEW S, NEW N, NEW P,
           Tiled(h, C), Relinked(h, h2, C, S, N, P), NEW U \in SUBSET C,
           U \cap (S \cup N \cup P) = {}
    PROVE  Kept(h, h2, U)
<1>1. IsHeap(h2) /\ Tiled(h2, C) /\ Feet(h2, C) = Feet(h, C)
  BY StillTiled DEF Relinked
<1>2. \A c \in U : SameChunk(h, h2, c)
  BY DEF Relinked, SameChunk
<1>3. Writes(h, h2, C \cup C, Feet(h, C) \cup Feet(h2, C))
  BY <1>1 DEF Relinked, Writes
<1> QED
  BY <1>1, <1>2, <1>3, KeptInside

\* What set_span writes: a header and, so many units on, a footer at f.
Spanned(h, h2, c, f, s) ==
    /\ IsHeap(h2) /\ Rest(h, h2) /\ h2.hi = h.hi /\ Writes(h, h2, {c}, {f})
    /\ status(h2, c) = status(h, c) /\ span(h2, c) = s /\ next(h2, c) = next(h, c)
    /\ h2.ftr[f].span = s /\ h2.ftr[f].prev = h.ftr[f].prev

LEMMA SetSpan ==
    ASSUME NEW h, IsHeap(h), NEW c \in Units, NEW s \in Nat, NEW f \in Units, f = c + s - 1
    PROVE  Spanned(h, set_span(h, c, s), c, f, s)
<1> DEFINE v  == [h.hdr EXCEPT ![c].span = s]
           h1 == [h EXCEPT !.hdr = v]
           w  == [h1.ftr EXCEPT ![f].span = s]
           h2 == [h1 EXCEPT !.ftr = w]
<1>1. set_span(h, c, s) = h2
  BY DEF set_span
<1>2. h.hdr \in [Units -> Header] /\ h.ftr \in [Units -> Footer]
  BY DEF IsHeap
<1>3. /\ v \in [Units -> Header] /\ \A u \in Units \ {c} : v[u] = h.hdr[u]
      /\ v[c].status = h.hdr[c].status /\ v[c].span = s /\ v[c].next = h.hdr[c].next
  BY <1>2 DEF Header
<1> HIDE DEF v
<1>4. IsHeap(h1) /\ Rest(h, h1) /\ h1.hdr = v /\ h1.ftr = h.ftr /\ h1.hi = h.hi
  BY <1>3, NewHeaders
<1> HIDE DEF h1
<1>5. /\ w \in [Units -> Footer] /\ \A u \in Units \ {f} : w[u] = h.ftr[u]
      /\ w[f].span = s /\ w[f].prev = h.ftr[f].prev
  BY <1>2, <1>4 DEF Footer
<1> HIDE DEF w
<1>6. IsHeap(h2) /\ Rest(h1, h2) /\ h2.ftr = w /\ h2.hdr = v /\ h2.hi = h.hi
  BY <1>4, <1>5, NewFooters
<1> HIDE DEF h2
<1>7. Rest(h, h2)
  BY <1>4, <1>6 DEF Rest
<1>8. Writes(h, h2, {c}, {f})
  BY <1>3, <1>5, <1>6 DEF Writes
<1>9. status(h2, c) = status(h, c) /\ span(h2, c) = s /\ next(h2, c) = next(h, c)
  BY <1>3, <1>6 DEF status, span, next
<1> QED
  BY <1>1, <1>5, <1>6, <1>7, <1>8, <1>9 DEF Spanned

\* A chunk of which neither header nor footer is written.
LEMMA Untouched ==
    ASSUME NEW h, IsHeap(h), NEW C, Tiled(h, C), NEW h2, NEW W, NEW V, Writes(h, h2, W, V),
           NEW d \in C, d \notin W, footer(h, d) \notin V
    PROVE  /\ SameChunk(h, h2, d) /\ footer(h2, d) = footer(h, d)
           /\ h2.ftr[footer(h2, d)].span = span(h2, d)
<1>1. d \in Units /\ footer(h, d) \in Units
  BY InTiling
<1>2. h2.hdr[d] = h.hdr[d] /\ h2.ftr[footer(h, d)] = h.ftr[footer(h, d)]
  BY <1>1 DEF Writes
<1>3. status(h2, d) = status(h, d) /\ span(h2, d) = span(h, d) /\ next(h2, d) = next(h, d)
      /\ footer(h2, d) = footer(h, d)
  BY <1>2 DEF status, span, next, footer
<1> QED
  BY <1>2, <1>3 DEF SameChunk, prev, Tiled

\* a grows over b, the chunk right after it.
Absorbed(h, h2, C, a, b) ==
    LET D == C \ {b}
    IN  /\ IsHeap(h2) /\ Rest(h, h2) /\ h2.hi = h.hi /\ Tiled(h2, D)
        /\ span(h2, a) = span(h, a) + span(h, b)
        /\ status(h2, a) = status(h, a) /\ next(h2, a) = next(h, a)
        /\ \A d \in D \ {a} : SameChunk(h, h2, d)
        /\ Kept(h, h2, D \ {a})

LEMMA Merges ==
    ASSUME NEW h, IsHeap(h), NEW C, Tiled(h, C), NEW a \in C, NEW b \in C, a + span(h, a) = b
    PROVE  Absorbed(h, set_span(h, a, span(h, a) + span(h, b)), C, a, b)
<1> DEFINE s  == span(h, a) + span(h, b)
           h2 == set_span(h, a, s)
           D  == C \ {b}
           f  == footer(h, b)
<1>1. /\ C \subseteq Units /\ a \in Nat /\ b \in Nat /\ a < b
      /\ span(h, a) \in Nat /\ span(h, b) \in Nat /\ span(h, a) >= 2 /\ span(h, b) >= 2
      /\ b + span(h, b) <= h.hi /\ h.hi \in Nat
      /\ f = b + span(h, b) - 1 /\ f \in Units
      /\ \A d \in C : d \in Nat /\ span(h, d) \in Nat /\ span(h, d) >= 2
  BY InTiling
<1>2. s \in Nat /\ s >= 2 /\ a + s - 1 = f /\ a + s = b + span(h, b)
  BY <1>1
<1> HIDE DEF h2, f
<1>3. /\ IsHeap(h2) /\ Rest(h, h2) /\ h2.hi = h.hi /\ Writes(h, h2, {a}, {f})
      /\ status(h2, a) = status(h, a) /\ span(h2, a) = s /\ next(h2, a) = next(h, a)
      /\ h2.ftr[f].span = s
  <2>1. a \in Units /\ f \in Units /\ f = a + s - 1
    BY <1>1, <1>2
  <2> HIDE DEF s
  <2>2. Spanned(h, h2, a, f, s)
    BY <1>2, <2>1, SetSpan DEF h2
  <2> QED
    BY <2>2 DEF Spanned
<1>4. ASSUME NEW d \in D \ {a}
      PROVE  SameChunk(h, h2, d) /\ h2.ftr[footer(h2, d)].span = span(h2, d)
  <2>1. d \in C /\ d # a /\ footer(h, d) # f
    BY OwnFeet DEF f
  <2> QED
    BY <1>3, <2>1, Untouched
<1>5. \A d \in D : span(h2, d) = IF d = a THEN s ELSE span(h, d)
  BY <1>3, <1>4 DEF SameChunk
<1>6. footer(h2, a) = f
  BY <1>2, <1>3 DEF footer
<1>7. \A d \in D : h2.ftr[footer(h2, d)].span = span(h2, d)
  BY <1>3, <1>4, <1>6
<1>8. \A d \in D : span(h2, d) >= 2 /\ d + span(h2, d) \in D \cup {h.hi}
  <2> SUFFICES ASSUME NEW d \in D PROVE span(h2, d) >= 2 /\ d + span(h2, d) \in D \cup {h.hi}
    OBVIOUS
  <2>1. CASE d = a
    <3>1. b + span(h, b) \in C \cup {h.hi} /\ b + span(h, b) # b
      BY <1>1 DEF Tiled
    <3> QED
      BY <2>1, <3>1, <1>2, <1>5
  <2>2. CASE d # a
    <3>1. d + span(h, d) \in C \cup {h.hi} /\ span(h, d) >= 2
      BY DEF Tiled
    <3>2. d + span(h, d) # b
      <4>1. (d < a => d + span(h, d) <= a) /\ (a < d => a + span(h, a) <= d)
        BY DEF Tiled
      <4> QED
        BY <4>1, <2>2, <1>1
    <3> QED
      BY <2>2, <3>1, <3>2, <1>5
  <2> QED
    BY <2>1, <2>2
<1>9. \A d, e \in D : d < e => d + span(h2, d) <= e
  <2> SUFFICES ASSUME NEW d \in D, NEW e \in D, d < e PROVE d + span(h2, d) <= e
    OBVIOUS
  <2>1. d + span(h, d) <= e /\ e \in C /\ d \in C
    BY DEF Tiled
  <2>2. CASE d = a
    <3>1. b < e
      BY <2>1, <2>2, <1>1
    <3>2. b + span(h, b) <= e
      BY <2>1, <3>1 DEF Tiled
    <3> QED
      BY <2>2, <3>2, <1>2, <1>5
  <2> QED
    BY <2>1, <2>2, <1>5
<1>10. \A d \in D : d \in 0 .. h2.hi - 1
  BY <1>3 DEF Tiled
<1>11. h2.hi > 0 => 0 \in D
  BY <1>1, <1>3 DEF Tiled
<1>12. Tiled(h2, D)
  BY <1>3, <1>7, <1>8, <1>9, <1>10, <1>11 DEF Tiled
<1>13. Kept(h, h2, D \ {a})
  <2>1. Writes(h, h2, C \cup D, Feet(h, C) \cup Feet(h2, D))
    BY <1>3 DEF Writes, Feet, f
  <2>2. D \ {a} \subseteq C /\ D \ {a} \subseteq D
    OBVIOUS
  <2> HIDE DEF D
  <2> QED
    BY <1>3, <1>4, <1>12, <2>1, <2>2, KeptInside
<1> QED
  BY <1>3, <1>4, <1>12, <1>13 DEF Absorbed, h2

\* c is cut in two at e: the front keeps its place, a new chunk begins at e.
Cut(h, h2, C, c, e, s, t) ==
    /\ IsHeap(h2) /\ Rest(h, h2) /\ h2.hi = h.hi /\ Tiled(h2, C \cup {e}) /\ e \notin C
    /\ span(h2, c) = s /\ status(h2, c) = status(h, c) /\ next(h2, c) = next(h, c)
    /\ span(h2, e) = t
    /\ Kept(h, h2, C \ {c})

LEMMA CutsInTwo ==
    ASSUME NEW h, IsHeap(h), NEW C, Tiled(h, C), NEW c \in C,
           NEW s \in Nat, NEW t \in Nat, s >= 2, t >= 2, s + t = span(h, c)
    PROVE  Cut(h, set_span(set_span(h, c, s), c + s, t), C, c, c + s, s, t)
<1> DEFINE e  == c + s
           h1 == set_span(h, c, s)
           h2 == set_span(h1, e, t)
           D  == C \cup {e}
           f  == c + s - 1
           g  == e + t - 1
<1>1. /\ C \subseteq Units /\ c \in Nat /\ span(h, c) \in Nat /\ h.hi \in Nat /\ h.hi <= MaxUnits
      /\ c + span(h, c) <= h.hi /\ footer(h, c) = c + span(h, c) - 1 /\ footer(h, c) \in Units
      /\ \A d \in C : d \in Nat /\ d < h.hi /\ span(h, d) \in Nat /\ span(h, d) >= 2
                      /\ footer(h, d) = d + span(h, d) - 1
  BY InTiling
<1>2. \A d \in C \ {c} : /\ d < c => d + span(h, d) <= c
                        /\ c < d => c + span(h, c) <= d
  BY DEF Tiled
<1>3. /\ e \in Nat /\ f \in Nat /\ g \in Nat /\ e < h.hi /\ f < h.hi /\ g = footer(h, c)
      /\ e # c /\ f # c /\ f # e /\ g # e /\ f # g /\ e + t = c + span(h, c)
  BY <1>1
<1>4. e \in Units /\ f \in Units /\ g \in Units
  <2>1. e < MaxUnits /\ f < MaxUnits
    BY <1>1, <1>3, Constants
  <2> QED
    BY <1>1, <1>3, <2>1, Constants
<1>5. ASSUME NEW d \in C \ {c} PROVE d # e /\ footer(h, d) # f /\ footer(h, d) # g
  <2>1. d \in Nat /\ span(h, d) \in Nat /\ span(h, d) >= 2 /\ footer(h, d) = d + span(h, d) - 1
    BY <1>1
  <2>2. d < c \/ c < d
    BY <1>1, <2>1
  <2>3. CASE d < c
    <3>1. d + span(h, d) <= c
      BY <2>3 DEF Tiled
    <3> QED
      BY <1>1, <2>1, <3>1
  <2>4. CASE c < d
    <3>1. c + span(h, c) <= d
      BY <2>4 DEF Tiled
    <3> QED
      BY <1>1, <2>1, <3>1
  <2> QED
    BY <2>2, <2>3, <2>4
<1> HIDE DEF e, f, g, h1, h2
<1>6. /\ IsHeap(h1) /\ Rest(h, h1) /\ h1.hi = h.hi /\ Writes(h, h1, {c}, {f})
      /\ status(h1, c) = status(h, c) /\ span(h1, c) = s /\ next(h1, c) = next(h, c)
      /\ h1.ftr[f].span = s
  <2>1. c \in Units /\ f \in Units /\ f = c + s - 1
    BY <1>1, <1>4 DEF f
  <2>2. Spanned(h, h1, c, f, s)
    BY <2>1, SetSpan DEF h1
  <2> QED
    BY <2>2 DEF Spanned
<1>7. /\ IsHeap(h2) /\ Rest(h1, h2) /\ h2.hi = h1.hi /\ Writes(h1, h2, {e}, {g})
      /\ span(h2, e) = t /\ h2.ftr[g].span = t
  <2>1. IsHeap(h1) /\ e \in Units /\ g \in Units /\ g = e + t - 1
    BY <1>4, <1>6 DEF g
  <2>2. Spanned(h1, h2, e, g, t)
    BY <2>1, SetSpan DEF h2
  <2> QED
    BY <2>2 DEF Spanned
<1>8. Writes(h, h2, {c, e}, {f, g}) /\ Rest(h, h2)
  BY <1>6, <1>7 DEF Writes, Rest
<1>9. /\ status(h2, c) = status(h, c) /\ span(h2, c) = s /\ next(h2, c) = next(h, c)
      /\ h2.ftr[f].span = s
  <2>1. h2.hdr[c] = h1.hdr[c] /\ h2.ftr[f] = h1.ftr[f]
    BY <1>1, <1>3, <1>4, <1>7 DEF Writes
  <2> QED
    BY <2>1, <1>6 DEF status, span, next
<1>10. ASSUME NEW d \in C \ {c}
       PROVE  SameChunk(h, h2, d) /\ h2.ftr[footer(h2, d)].span = span(h2, d)
  <2>1. d \in C /\ d \notin {c, e} /\ footer(h, d) \notin {f, g}
    BY <1>5
  <2> QED
    BY <1>8, <2>1, Untouched
<1>11. \A d \in D : span(h2, d) = IF d = c THEN s ELSE IF d = e THEN t ELSE span(h, d)
  BY <1>7, <1>9, <1>10, <1>3 DEF SameChunk
<1>12. e \notin C
  BY <1>3, <1>5
<1>13. footer(h2, c) = f /\ footer(h2, e) = g
  BY <1>7, <1>9 DEF footer, f, g
<1>14. \A d \in D : h2.ftr[footer(h2, d)].span = span(h2, d)
  BY <1>7, <1>9, <1>10, <1>13
<1>15. \A d \in D : span(h2, d) >= 2 /\ d + span(h2, d) \in D \cup {h.hi}
  <2> SUFFICES ASSUME NEW d \in D PROVE span(h2, d) >= 2 /\ d + span(h2, d) \in D \cup {h.hi}
    OBVIOUS
  <2>1. c + span(h, c) \in C \cup {h.hi}
    BY DEF Tiled
  <2>2. CASE d = c
    BY <2>2, <1>11 DEF e
  <2>3. CASE d = e
    BY <2>1, <2>3, <1>3, <1>11
  <2>4. CASE d \in C \ {c}
    <3>1. d + span(h, d) \in C \cup {h.hi} /\ span(h, d) >= 2
      BY <2>4 DEF Tiled
    <3> QED
      BY <2>4, <3>1, <1>5, <1>11
  <2> QED
    BY <2>2, <2>3, <2>4
<1>16. \A d, x \in D : d < x => d + span(h2, d) <= x
  <2> SUFFICES ASSUME NEW d \in D, NEW x \in D, d < x PROVE d + span(h2, d) <= x
    OBVIOUS
  <2>1. CASE d \in C \ {c} /\ x \in C
    <3>1. d + span(h, d) <= x
      BY <2>1 DEF Tiled
    <3> QED
      BY <2>1, <3>1, <1>5, <1>11
  <2>2. CASE d \in C \ {c} /\ x = e
    <3>1. d < c
      BY <2>2, <1>1, <1>2, <1>3
    <3>2. d + span(h, d) <= c
      BY <2>2, <3>1 DEF Tiled
    <3>3. span(h2, d) = span(h, d)
      BY <2>2, <1>5, <1>11
    <3>4. c \in Nat /\ s \in Nat /\ d \in Nat /\ span(h, d) \in Nat
      BY <2>2, <1>1
    <3> QED
      BY <2>2, <3>2, <3>3, <3>4 DEF e
  <2>3. CASE d = c /\ x = e
    BY <2>3, <1>1, <1>11 DEF e
  <2>4. CASE d \in {c, e} /\ x \in C \ {c}
    <3>1. c < x
      BY <2>4, <1>1, <1>3 DEF e
    <3>2. c + span(h, c) <= x
      <4>1. x \in C
        BY <2>4
      <4> QED
        BY <4>1, <3>1 DEF Tiled
    <3> QED
      BY <2>4, <3>2, <1>1, <1>3, <1>11
  <2>5. CASE d = e /\ x = c
    BY <2>5, <1>1 DEF e
  <2> QED
    BY <2>1, <2>2, <2>3, <2>4, <2>5, <1>1, <1>3
<1>17. \A d \in D : d \in 0 .. h2.hi - 1
  BY <1>1, <1>3, <1>6, <1>7
<1>18. h2.hi > 0 => 0 \in D
  BY <1>6, <1>7 DEF Tiled
<1>19. Tiled(h2, D)
  BY <1>6, <1>7, <1>14, <1>15, <1>16, <1>17, <1>18 DEF Tiled
<1>20. Kept(h, h2, C \ {c})
  <2>1. Writes(h, h2, C \cup D, Feet(h, C) \cup Feet(h2, D))
    BY <1>3, <1>8, <1>13 DEF Writes, Feet
  <2>2. C \ {c} \subseteq C /\ C \ {c} \subseteq D
    OBVIOUS
  <2> HIDE DEF D
  <2> QED
    BY <1>7, <1>10, <1>19, <2>1, <2>2, KeptInside
<1> QED
  BY <1>6, <1>7, <1>8, <1>9, <1>12, <1>19, <1>20 DEF Cut, e, h1, h2

\* What was kept through two steps.
LEMMA RelinkedAfter ==
    ASSUME NEW h, NEW h2, NEW h3, NEW C, NEW S, NEW N, NEW P, NEW U \in SUBSET C,
           IsHeap(h2), Tiled(h2, C), Rest(h, h2), Kept(h, h2, U),
           Relinked(h2, h3, C, S, N, P), U \cap (S \cup N \cup P) = {}
    PROVE  IsHeap(h3) /\ Tiled(h3, C) /\ Rest(h, h3) /\ h3.hi = h2.hi /\ Kept(h, h3, U)
<1>1. Kept(h2, h3, U)
  BY RelinkedKeeps
<1>2. Rest(h, h3)
  BY DEF Relinked, Rest
<1> QED
  BY <1>1, <1>2, KeptOn, StillTiled DEF Relinked

\* split_for_alloc cuts the allocated chunk from the end of c.
LEMMA Splitting ==
    ASSUME NEW h, IsHeap(h), NEW C, Tiled(h, C), NEW c \in C, prev(h, c) \in C \cup {NULL},
           NEW need \in Nat, span(h, c) >= 2 + need + 2
    PROVE  LET e  == SplitAt(h, c, need)
               h2 == split_for_alloc(h, c, need)
               D  == C \cup {e}
           IN  /\ IsHeap(h2) /\ Rest(h, h2) /\ h2.hi = h.hi /\ Tiled(h2, D) /\ e \notin C
               /\ span(h2, c) = span(h, c) - (2 + need) /\ status(h2, c) = status(h, c)
               /\ next(h2, c) = next(h, c) /\ prev(h2, c) = prev(h, c)
               /\ status(h2, e) = CHUNK_USED /\ span(h2, e) = 2 + need
               /\ next(h2, e) = NULL /\ prev(h2, e) = NULL
               /\ Kept(h, h2, C \ {c})
<1> DEFINE s  == span(h, c) - (2 + need)
           e  == SplitAt(h, c, need)
           D  == C \cup {e}
           h1 == set_span(set_span(h, c, e - c), e, 2 + need)
           h2 == set_status(h1, e, CHUNK_USED)
           h3 == set_links(h2, e, NULL, NULL)
           h4 == set_prev(h3, c, prev(h, c))
           U  == C \ {c}
<1>1. /\ c \in Nat /\ span(h, c) \in Nat /\ s \in Nat /\ s >= 2 /\ 2 + need \in Nat /\ 2 + need >= 2
      /\ s + (2 + need) = span(h, c) /\ e = c + s /\ e - c = s
  BY InTiling DEF SplitAt
<1>2. split_for_alloc(h, c, need) = h4
  BY DEF split_for_alloc
<1> HIDE DEF e, s
<1>3. /\ IsHeap(h1) /\ Rest(h, h1) /\ h1.hi = h.hi /\ Tiled(h1, D) /\ e \notin C
      /\ span(h1, c) = s /\ status(h1, c) = status(h, c) /\ next(h1, c) = next(h, c)
      /\ span(h1, e) = 2 + need /\ Kept(h, h1, U)
  <2> DEFINE t == 2 + need
  <2>1. s \in Nat /\ t \in Nat /\ s >= 2 /\ t >= 2 /\ s + t = span(h, c)
    BY <1>1
  <2>2. h1 = set_span(set_span(h, c, s), c + s, t) /\ e = c + s
    BY <1>1
  <2> HIDE DEF h1, t
  <2>3. Cut(h, set_span(set_span(h, c, s), c + s, t), C, c, c + s, s, t)
    BY <2>1, CutsInTwo
  <2>4. Cut(h, h1, C, c, e, s, t)
    BY <2>2, <2>3
  <2> QED
    BY <2>4 DEF Cut, t
<1>4. c \in D /\ e \in D /\ e # c /\ U \in SUBSET D /\ U \cap {e} = {} /\ U \cap {c} = {}
  BY <1>3
<1> HIDE DEF h1, D, U
<1>5. Relinked(h1, h2, D, {e}, {}, {}) /\ status(h2, e) = CHUNK_USED
  BY <1>3, <1>4, SetStatus
<1> HIDE DEF h2
<1>6. IsHeap(h2) /\ Tiled(h2, D) /\ Rest(h, h2) /\ h2.hi = h1.hi /\ Kept(h, h2, U)
  <2>1. U \cap ({e} \cup {} \cup {}) = {}
    BY <1>4
  <2> QED
    BY <1>3, <1>4, <1>5, <2>1, RelinkedAfter
<1>7. Relinked(h2, h3, D, {}, {e}, {e}) /\ prev(h3, e) = NULL /\ next(h3, e) = NULL
  BY <1>4, <1>6, SetLinks
<1> HIDE DEF h3
<1>8. IsHeap(h3) /\ Tiled(h3, D) /\ Rest(h, h3) /\ h3.hi = h2.hi /\ Kept(h, h3, U)
  <2>1. U \cap ({} \cup {e} \cup {e}) = {}
    BY <1>4
  <2> QED
    BY <1>4, <1>6, <1>7, <2>1, RelinkedAfter
<1>9. Relinked(h3, h4, D, {}, {}, {c}) /\ prev(h4, c) = prev(h, c)
  <2>1. prev(h, c) \in D \cup {NULL}
    BY DEF D
  <2> QED
    BY <1>4, <1>8, <2>1, SetPrev
<1> HIDE DEF h4
<1>10. IsHeap(h4) /\ Tiled(h4, D) /\ Rest(h, h4) /\ h4.hi = h3.hi /\ Kept(h, h4, U)
  <2>1. U \cap ({} \cup {} \cup {c}) = {}
    BY <1>4
  <2> QED
    BY <1>4, <1>8, <1>9, <2>1, RelinkedAfter
<1>11. span(h4, c) = s /\ status(h4, c) = status(h, c) /\ next(h4, c) = next(h, c)
  BY <1>3, <1>4, <1>5, <1>7, <1>9 DEF Relinked
<1>12. /\ status(h4, e) = CHUNK_USED /\ span(h4, e) = 2 + need
       /\ next(h4, e) = NULL /\ prev(h4, e) = NULL
  BY <1>3, <1>4, <1>5, <1>7, <1>9 DEF Relinked
<1> QED
  BY <1>2, <1>3, <1>6, <1>8, <1>9, <1>10, <1>11, <1>12 DEF D, U, e, s

\* The heap grows by a free chunk, which is on no list yet.
LEMMA Growing ==
    ASSUME NEW h, IsHeap(h), NEW C, Tiled(h, C), NEW g \in Nat, g >= 2,
           NewBreak(h, g) = h.hi + g, h.hi + g <= MaxUnits, Signed(g, INT) = g
    PROVE  LET h2 == Grown(h, g)
               c  == h.hi
               D  == C \cup {c}
           IN  /\ IsHeap(h2) /\ Rest(h, h2) /\ h2.hi = h.hi + g /\ Tiled(h2, D) /\ c \notin C
               /\ span(h2, c) = g /\ status(h2, c) = CHUNK_FREE
               /\ next(h2, c) = NULL /\ prev(h2, c) = NULL
               /\ Kept(h, h2, C)
<1> DEFINE c  == h.hi
           D  == C \cup {c}
           f  == c + g - 1
           h0 == [h EXCEPT !.hi = NewBreak(h, g)]
           h1 == set_span(h0, c, Signed(g, INT))
           h2 == set_links(h1, c, NULL, NULL)
           h3 == set_status(h2, c, CHUNK_FREE)
<1>1. Grown(h, g) = h3
  BY DEF Grown
<1>2. /\ C \subseteq Units /\ c \in Nat /\ c \notin C /\ MaxUnits \in Nat /\ c + g <= MaxUnits
      /\ f \in Nat /\ f < MaxUnits /\ c < MaxUnits
      /\ \A d \in C : /\ d \in Nat /\ d < c /\ span(h, d) \in Nat /\ span(h, d) >= 2
                      /\ d + span(h, d) <= c /\ footer(h, d) = d + span(h, d) - 1
  BY InTiling, Constants
<1>3. c \in Units /\ f \in Units
  BY <1>2, Constants
<1>4. \A d \in C : d # c /\ footer(h, d) # f
  BY <1>2
<1> HIDE DEF h1, h2, h3, f
<1>5. IsHeap(h0) /\ Rest(h, h0) /\ h0.hi = c + g /\ h0.hdr = h.hdr /\ h0.ftr = h.ftr
  <2>1. NewBreak(h, g) \in 0 .. MaxUnits
    BY <1>2
  <2> QED
    BY <2>1, NewEnd
<1> HIDE DEF h0, c
<1>6. /\ IsHeap(h1) /\ Rest(h0, h1) /\ h1.hi = c + g /\ Writes(h0, h1, {c}, {f})
      /\ span(h1, c) = g /\ h1.ftr[f].span = g
  <2>1. h1 = set_span(h0, c, g)
    BY DEF h1
  <2> QED
    <3>1. f = c + g - 1
      BY DEF f
    <3>2. Spanned(h0, h1, c, f, g)
      BY <1>3, <1>5, <2>1, <3>1, SetSpan
    <3> QED
      BY <1>5, <3>2 DEF Spanned
<1>7. Writes(h, h1, {c}, {f}) /\ Rest(h, h1)
  BY <1>5, <1>6 DEF Writes, Rest
<1>8. ASSUME NEW d \in C
      PROVE  SameChunk(h, h1, d) /\ h1.ftr[footer(h1, d)].span = span(h1, d)
  <2>1. d \notin {c} /\ footer(h, d) \notin {f}
    BY <1>4
  <2> QED
    BY <1>7, <2>1, Untouched
<1>9. footer(h1, c) = f
  BY <1>6 DEF footer, f
<1>10. \A d \in D : span(h1, d) = IF d = c THEN g ELSE span(h, d)
  BY <1>6, <1>8 DEF SameChunk
<1>11. \A d \in D : h1.ftr[footer(h1, d)].span = span(h1, d)
  BY <1>6, <1>8, <1>9
<1>12. \A d \in D : span(h1, d) >= 2 /\ d + span(h1, d) \in D \cup {h1.hi}
  <2> SUFFICES ASSUME NEW d \in D PROVE span(h1, d) >= 2 /\ d + span(h1, d) \in D \cup {h1.hi}
    OBVIOUS
  <2>1. CASE d = c
    BY <2>1, <1>6
  <2>2. CASE d \in C
    <3>1. d + span(h, d) \in C \cup {c} /\ span(h, d) >= 2
      BY <2>2 DEF Tiled, c
    <3> QED
      BY <2>2, <3>1, <1>4, <1>10
  <2> QED
    BY <2>1, <2>2
<1>13. \A d, x \in D : d < x => d + span(h1, d) <= x
  <2> SUFFICES ASSUME NEW d \in D, NEW x \in D, d < x PROVE d + span(h1, d) <= x
    OBVIOUS
  <2>1. d \in C
    BY <1>2
  <2>2. span(h1, d) = span(h, d)
    BY <2>1, <1>4, <1>10
  <2>3. CASE x = c
    BY <2>1, <2>2, <2>3, <1>2
  <2>4. CASE x \in C
    BY <2>1, <2>2, <2>4 DEF Tiled
  <2> QED
    BY <2>3, <2>4
<1>14. \A d \in D : d \in 0 .. h1.hi - 1
  BY <1>2, <1>6
<1>15. 0 \in D
  BY <1>2 DEF Tiled, c
<1>16. Tiled(h1, D)
  BY <1>6, <1>11, <1>12, <1>13, <1>14, <1>15 DEF Tiled
<1>17. Kept(h, h1, C)
  <2>1. Writes(h, h1, C \cup D, Feet(h, C) \cup Feet(h1, D))
    BY <1>7, <1>9 DEF Writes, Feet
  <2>2. C \subseteq C /\ C \subseteq D
    OBVIOUS
  <2> HIDE DEF D
  <2> QED
    BY <1>6, <1>8, <1>16, <2>1, <2>2, KeptInside
<1>18. C \in SUBSET D /\ c \in D /\ C \cap {c} = {}
  BY <1>4
<1> HIDE DEF D
<1>19. Relinked(h1, h2, D, {}, {c}, {c}) /\ prev(h2, c) = NULL /\ next(h2, c) = NULL
  BY <1>6, <1>16, <1>18, SetLinks DEF h2
<1>20. IsHeap(h2) /\ Tiled(h2, D) /\ Rest(h, h2) /\ h2.hi = h1.hi /\ Kept(h, h2, C)
  <2>1. C \cap ({} \cup {c} \cup {c}) = {}
    BY <1>18
  <2> QED
    BY <1>6, <1>7, <1>16, <1>17, <1>18, <1>19, <2>1, RelinkedAfter
<1>21. Relinked(h2, h3, D, {c}, {}, {}) /\ status(h3, c) = CHUNK_FREE
  BY <1>18, <1>20, SetStatus DEF h3
<1>22. IsHeap(h3) /\ Tiled(h3, D) /\ Rest(h, h3) /\ h3.hi = h2.hi /\ Kept(h, h3, C)
  <2>1. C \cap ({c} \cup {} \cup {}) = {}
    BY <1>18
  <2> QED
    BY <1>18, <1>20, <1>21, <2>1, RelinkedAfter
<1>23. span(h3, c) = g /\ next(h3, c) = NULL /\ prev(h3, c) = NULL
  BY <1>6, <1>18, <1>19, <1>21 DEF Relinked
<1> QED
  BY <1>1, <1>2, <1>6, <1>20, <1>21, <1>22, <1>23 DEF D, c

\* What Forget leaves alone: every chunk, and the units the clients may write.
LEMMA Forgetting ==
    ASSUME NEW h, IsHeap(h), NEW C, Tiled(h, C), NEW X \in SUBSET Units
    PROVE  LET h2 == Forget(h, X)
           IN  /\ IsHeap(h2) /\ Rest(h, h2) /\ h2.hi = h.hi /\ Tiled(h2, C)
               /\ \A c \in C : SameChunk(h, h2, c)
               /\ \A u \in X : h2.hdr[u] = h.hdr[u] /\ h2.ftr[u] = h.ftr[u]
<1> DEFINE W  == Chunks(h) \cup X
           V  == {footer(h, c) : c \in Chunks(h)} \cup X
           v  == [u \in Units |-> IF u \in W THEN h.hdr[u] ELSE BlankHeader]
           w  == [u \in Units |-> IF u \in V THEN h.ftr[u] ELSE BlankFooter]
           h1 == [h EXCEPT !.hdr = v]
           h2 == [h1 EXCEPT !.ftr = w]
<1>1. Forget(h, X) = h2
  BY DEF Forget
<1>2. W = C \cup X /\ V = Feet(h, C) \cup X
  BY ChunksAre DEF Feet
<1>3. v \in [Units -> Header] /\ w \in [Units -> Footer]
  BY Constants DEF IsHeap
<1>4. (\A u \in Units \cap W : v[u] = h.hdr[u]) /\ (\A u \in Units \cap V : w[u] = h.ftr[u])
  OBVIOUS
<1> HIDE DEF v, w, W, V
<1>5. IsHeap(h1) /\ Rest(h, h1) /\ h1.hdr = v /\ h1.ftr = h.ftr /\ h1.hi = h.hi
  BY <1>3, NewHeaders
<1> HIDE DEF h1
<1>6. IsHeap(h2) /\ Rest(h1, h2) /\ h2.ftr = w /\ h2.hdr = v /\ h2.hi = h.hi
  BY <1>3, <1>5, NewFooters
<1> HIDE DEF h2
<1>7. Rest(h, h2)
  BY <1>5, <1>6 DEF Rest
<1>8. ASSUME NEW c \in C
      PROVE  /\ SameChunk(h, h2, c) /\ footer(h2, c) = footer(h, c)
             /\ h2.ftr[footer(h, c)] = h.ftr[footer(h, c)]
  <2>1. c \in Units /\ footer(h, c) \in Units
    BY InTiling
  <2>2. h2.hdr[c] = h.hdr[c] /\ h2.ftr[footer(h, c)] = h.ftr[footer(h, c)]
    BY <1>2, <1>4, <1>6, <2>1 DEF Feet
  <2>3. status(h2, c) = status(h, c) /\ span(h2, c) = span(h, c) /\ next(h2, c) = next(h, c)
        /\ footer(h2, c) = footer(h, c)
    BY <2>2 DEF status, span, next, footer
  <2> QED
    BY <2>2, <2>3 DEF SameChunk, prev
<1>9. Tiled(h2, C)
  BY <1>6, <1>8 DEF Tiled, SameChunk
<1>10. \A u \in X : h2.hdr[u] = h.hdr[u] /\ h2.ftr[u] = h.ftr[u]
  BY <1>2, <1>4, <1>6
<1> QED
  BY <1>1, <1>6, <1>7, <1>8, <1>9, <1>10

----------------------------------------------------------------------------
(* The client's blocks.                                                    *)

\* No size asked for is so large that a sum wraps, or that the number of bytes
\* passed to sbrk counts as negative.
SizesFit ==
    \A size \in Sizes :
        /\ size + CHUNK_UNIT - 1 < SIZE_T
        /\ GrowSpan(bytes_to_payload_units(size), SYS_MIN_ALLOC_UNITS)
              < (SIZE_T \div CHUNK_UNIT) \div 2

\* The client's blocks bs are the chunks in use, each with room for its size.
Clients(h, C, bs) ==
    /\ \A b \in bs : b \in [at : Units, size : Sizes]
    /\ UsedOf(h, C) = {b.at : b \in bs}
    /\ \A a, b \in bs : a.at = b.at => a = b
    /\ \A b \in bs : span(h, b.at) >= 2 + bytes_to_payload_units(b.size)

\* The blocks in bs keep their chunks and what the client wrote in them.
Held(h, h2, bs) ==
    \A b \in bs : /\ SameChunk(h, h2, b.at)
                 /\ \A u \in Payload(b) : h2.hdr[u] = h.hdr[u] /\ h2.ftr[u] = h.ftr[u]

LEMMA HeldOn ==
    ASSUME NEW h, NEW h2, NEW h3, NEW bs, Held(h, h2, bs), Held(h2, h3, bs)
    PROVE  Held(h, h3, bs)
BY DEF Held, SameChunk

\* A number in the lower half of its range is not changed by the conversion.
LEMMA SignedSmall ==
    ASSUME NEW n \in Nat, NEW range \in Nat, n < range \div 2
    PROVE  Signed(n, range) = n
<1>1. n % range = n
  OBVIOUS
<1> QED
  BY <1>1 DEF Signed

\* So it is with spans that fit in the heap.
LEMMA SpanAsInt ==
    ASSUME NEW n \in Nat, n <= MaxUnits
    PROVE  Signed(n, INT) = n
<1>1. INT \in Nat /\ MaxUnits \in Nat /\ 2 * MaxUnits < INT /\ INT % 2 = 0
  BY ChunkAssumption
<1>2. MaxUnits < INT \div 2
  BY <1>1
<1>3. n < INT \div 2
  BY <1>1, <1>2
<1> QED
  BY <1>1, <1>3, SignedSmall

\* The units a size takes and the growth for them, when nothing wraps.
LEMMA UnitsOfSize ==
    ASSUME SizesFit, NEW size \in Sizes
    PROVE  LET need == bytes_to_payload_units(size)
               g    == GrowSpan(need, SYS_MIN_ALLOC_UNITS)
           IN  /\ need \in Nat /\ need * CHUNK_UNIT >= size
               /\ need = (size + CHUNK_UNIT - 1) \div CHUNK_UNIT
               /\ g \in Nat /\ g >= 2 /\ g - 2 >= need
               /\ \A h : NewBreak(h, g) = h.hi + g
<1> DEFINE n    == size + CHUNK_UNIT - 1
           need == bytes_to_payload_units(size)
           g    == GrowSpan(need, SYS_MIN_ALLOC_UNITS)
<1>1. /\ CHUNK_UNIT \in Nat \ {0} /\ SIZE_T \in Nat /\ SYS_MIN_ALLOC_UNITS \in Nat
      /\ size \in Nat \ {0} /\ n \in Nat /\ n < SIZE_T
  BY ChunkAssumption DEF SizesFit
<1>2. need = n \div CHUNK_UNIT
  <2>1. n % SIZE_T = n
    BY <1>1
  <2> QED
    BY <2>1 DEF bytes_to_payload_units
<1> HIDE DEF n, need
<1>3. need \in Nat /\ n < (need + 1) * CHUNK_UNIT
  BY <1>1, <1>2
<1>4. need * CHUNK_UNIT >= size
  <2>1. (need + 1) * CHUNK_UNIT = need * CHUNK_UNIT + CHUNK_UNIT /\ need * CHUNK_UNIT \in Nat
    BY <1>1, <1>3
  <2> HIDE DEF need
  <2> QED
    BY <1>1, <1>3, <2>1 DEF n
<1>5. g \in Nat /\ g >= 2 /\ g - 2 >= need
  BY <1>1, <1>3 DEF GrowSpan
<1>6. SIZE_T \div CHUNK_UNIT \in Nat /\ g < (SIZE_T \div CHUNK_UNIT) \div 2
  BY <1>1 DEF SizesFit, need
<1> HIDE DEF g
<1>7. Signed(g, SIZE_T \div CHUNK_UNIT) = g
  BY <1>5, <1>6, SignedSmall
<1>8. \A h : NewBreak(h, g) = h.hi + g
  BY <1>7 DEF NewBreak
<1> QED
  BY <1>2, <1>3, <1>4, <1>5, <1>8 DEF n, need, g

\* Where a block is, and what of it the client may write: units inside its chunk.
LEMMA BlockIs ==
    ASSUME SizesFit, NEW h, IsHeap(h), NEW C, Tiled(h, C), NEW bs, Clients(h, C, bs), NEW b \in bs
    PROVE  /\ b.at \in C /\ b.at \in UsedOf(h, C) /\ b.at \in Nat /\ b.size \in Sizes
           /\ span(h, b.at) \in Nat /\ span(h, b.at) >= 2 + bytes_to_payload_units(b.size)
           /\ bytes_to_payload_units(b.size) \in Nat
           /\ \A u \in Payload(b) : u \in Units /\ u \in b.at + 1 .. footer(h, b.at) - 1
<1>1. /\ b.at \in UsedOf(h, C) /\ b.at \in C /\ b.size \in Sizes
      /\ span(h, b.at) >= 2 + bytes_to_payload_units(b.size)
  BY DEF Clients, UsedOf
<1>2. /\ b.at \in Nat /\ span(h, b.at) \in Nat
      /\ footer(h, b.at) = b.at + span(h, b.at) - 1
  BY <1>1, InTiling
<1>3. /\ bytes_to_payload_units(b.size) \in Nat
      /\ bytes_to_payload_units(b.size) = (b.size + CHUNK_UNIT - 1) \div CHUNK_UNIT
  BY <1>1, UnitsOfSize
<1>4. ASSUME NEW u \in Payload(b)
      PROVE  u \in Units /\ u \in b.at + 1 .. footer(h, b.at) - 1
  <2>1. u \in Units /\ u \in b.at + 1 .. b.at + bytes_to_payload_units(b.size)
    BY <1>3 DEF Payload
  <2> QED
    BY <2>1, <1>1, <1>2, <1>3
<1> QED
  BY <1>1, <1>2, <1>3, <1>4

\* Chunks that are kept hold their blocks.
LEMMA KeptHeld ==
    ASSUME SizesFit, NEW h, IsHeap(h), NEW C, Tiled(h, C), NEW bs, Clients(h, C, bs),
           NEW some \in SUBSET bs, NEW h2, NEW U, Kept(h, h2, U), \A b \in some : b.at \in U
    PROVE  Held(h, h2, some)
<1> SUFFICES ASSUME NEW b \in some
             PROVE  /\ SameChunk(h, h2, b.at)
                    /\ \A u \in Payload(b) : h2.hdr[u] = h.hdr[u] /\ h2.ftr[u] = h.ftr[u]
  BY DEF Held
<1>1. b.at \in U /\ b \in bs
  OBVIOUS
<1>2. \A u \in Payload(b) : u \in b.at + 1 .. footer(h, b.at) - 1
  BY <1>1, BlockIs
<1> QED
  BY <1>1, <1>2 DEF Kept

\* The same blocks in a heap where the same chunks are in use.
LEMMA SameClients ==
    ASSUME NEW h, NEW h2, NEW C, NEW D, NEW bs, Clients(h, C, bs),
           UsedOf(h2, D) = UsedOf(h, C), \A c \in UsedOf(h, C) : span(h2, c) = span(h, c)
    PROVE  Clients(h2, D, bs)
<1>1. \A b \in bs : b.at \in UsedOf(h, C)
  BY DEF Clients
<1> QED
  BY <1>1 DEF Clients

\* Freeing one block leaves the others in order.
LEMMA GivenBack ==
    ASSUME SizesFit, NEW h, IsHeap(h), NEW C, Tiled(h, C), NEW bs, Clients(h, C, bs), NEW b \in bs,
           NEW h2, NEW D, UsedOf(h2, D) = UsedOf(h, C) \ {b.at},
           Kept(h, h2, UsedOf(h, C) \ {b.at})
    PROVE  Clients(h2, D, bs \ {b}) /\ Held(h, h2, bs \ {b})
<1> DEFINE U == UsedOf(h, C) \ {b.at}
<1>1. \A a \in bs \ {b} : a.at \in U
  BY DEF Clients
<1>2. U = {a.at : a \in bs \ {b}}
  BY DEF Clients
<1>3. \A c \in U : span(h2, c) = span(h, c)
  BY DEF Kept, SameChunk
<1> HIDE DEF U
<1>4. Clients(h2, D, bs \ {b})
  <2>1. \A a \in bs \ {b} : span(h2, a.at) >= 2 + bytes_to_payload_units(a.size)
    BY <1>1, <1>3 DEF Clients
  <2>2. UsedOf(h2, D) = {a.at : a \in bs \ {b}}
    BY <1>2 DEF U
  <2>3. /\ \A a \in bs \ {b} : a \in [at : Units, size : Sizes]
        /\ \A a, d \in bs \ {b} : a.at = d.at => a = d
    BY DEF Clients
  <2> QED
    BY <2>1, <2>2, <2>3 DEF Clients
<1>5. Held(h, h2, bs \ {b})
  BY <1>1, KeptHeld DEF U
<1> QED
  BY <1>4, <1>5

\* A chunk handed out is one more block, apart from the others.
LEMMA HandedOut ==
    ASSUME SizesFit, NEW h, IsHeap(h), NEW C, Tiled(h, C), NEW bs, Clients(h, C, bs),
           NEW size \in Sizes, NEW h2, NEW D, NEW at \in Units, at \notin UsedOf(h, C),
           UsedOf(h2, D) = UsedOf(h, C) \cup {at}, Kept(h, h2, UsedOf(h, C)),
           span(h2, at) >= 2 + bytes_to_payload_units(size)
    PROVE  LET new == [at |-> at, size |-> size]
           IN  Clients(h2, D, bs \cup {new}) /\ new \notin bs /\ Held(h, h2, bs)
<1> DEFINE new == [at |-> at, size |-> size]
           U   == UsedOf(h, C)
<1>1. \A b \in bs : b.at \in U /\ b.at # at
  BY DEF Clients
<1>2. \A c \in U : span(h2, c) = span(h, c)
  BY DEF Kept, SameChunk
<1>3. Held(h, h2, bs)
  BY <1>1, KeptHeld
<1>4. \A b \in bs \cup {new} : b \in [at : Units, size : Sizes]
  BY DEF Clients
<1>5. UsedOf(h2, D) = {b.at : b \in bs \cup {new}}
  <2>1. U = {b.at : b \in bs} /\ new.at = at
    BY DEF Clients
  <2> HIDE DEF new
  <2>2. {b.at : b \in bs \cup {new}} = {b.at : b \in bs} \cup {new.at}
    OBVIOUS
  <2> QED
    BY <2>1, <2>2
<1>6. \A a, b \in bs \cup {new} : a.at = b.at => a = b
  BY <1>1 DEF Clients
<1>7. \A b \in bs \cup {new} : span(h2, b.at) >= 2 + bytes_to_payload_units(b.size)
  BY <1>1, <1>2 DEF Clients
<1> QED
  BY <1>1, <1>3, <1>4, <1>5, <1>6, <1>7 DEF Clients

\* What is blanked at the end of a call is nobody's.
LEMMA Forgotten ==
    ASSUME NEW h, IsHeap(h), NEW C, Tiled(h, C), NEW bs, Clients(h, C, bs), NEW some \in SUBSET bs
    PROVE  LET h2 == Forget(h, Payloads(some))
           IN  /\ IsHeap(h2) /\ Rest(h, h2) /\ h2.hi = h.hi /\ Tiled(h2, C)
               /\ \A c \in C : SameChunk(h, h2, c)
               /\ Clients(h2, C, bs) /\ Held(h, h2, some)
<1> DEFINE X  == Payloads(some)
           h2 == Forget(h, X)
<1>1. X \in SUBSET Units /\ \A b \in some : Payload(b) \subseteq X
  BY DEF Payloads, Payload
<1> HIDE DEF X
<1>2. /\ IsHeap(h2) /\ Rest(h, h2) /\ h2.hi = h.hi /\ Tiled(h2, C)
      /\ \A c \in C : SameChunk(h, h2, c)
      /\ \A u \in X : h2.hdr[u] = h.hdr[u] /\ h2.ftr[u] = h.ftr[u]
  BY <1>1, Forgetting
<1> HIDE DEF h2
<1>3. UsedOf(h2, C) = UsedOf(h, C) /\ UsedOf(h, C) \subseteq C
  BY <1>2 DEF UsedOf, SameChunk
<1>4. Clients(h2, C, bs)
  BY <1>2, <1>3, SameClients DEF SameChunk
<1>5. \A b \in bs : b.at \in C
  BY <1>3 DEF Clients
<1>6. Held(h, h2, some)
  BY <1>1, <1>2, <1>5 DEF Held
<1> QED
  BY <1>2, <1>4, <1>6 DEF h2, X

\* A block as the client knows it: the space of its chunk and its size.
BlockOf(h, b) == [first |-> b.at + 1, units |-> span(h, b.at) - 2, size |-> b.size]
SpaceOf(h, b) == b.at + 1 .. b.at + 1 + (span(h, b.at) - 2) - 1

\* A block has space for its size, and no other block has a part of it.
LEMMA SpaceOfItsOwn ==
    ASSUME SizesFit, NEW h, IsHeap(h), NEW C, Tiled(h, C), NEW bs, Clients(h, C, bs), NEW b \in bs
    PROVE  /\ BlockOf(h, b) \in [first : 0 .. MaxUnits, units : 0 .. MaxUnits, size : Sizes]
           /\ BlockOf(h, b).units * CHUNK_UNIT >= BlockOf(h, b).size
           /\ \A a \in bs \ {b} : SpaceOf(h, a) \cap SpaceOf(h, b) = {}
<1>0. /\ b.at \in C /\ b.at \in Nat /\ b.size \in Sizes /\ span(h, b.at) \in Nat
      /\ span(h, b.at) >= 2 + bytes_to_payload_units(b.size)
      /\ bytes_to_payload_units(b.size) \in Nat
      /\ b.at < h.hi /\ b.at + span(h, b.at) <= h.hi /\ h.hi \in Nat /\ h.hi <= MaxUnits
      /\ MaxUnits \in Nat
  BY BlockIs, InTiling, Constants
<1>1. BlockOf(h, b) \in [first : 0 .. MaxUnits, units : 0 .. MaxUnits, size : Sizes]
  <2>1. b.at + 1 \in 0 .. MaxUnits /\ span(h, b.at) - 2 \in 0 .. MaxUnits
    BY <1>0
  <2> QED
    BY <1>0, <2>1 DEF BlockOf
<1>2. BlockOf(h, b).units * CHUNK_UNIT >= BlockOf(h, b).size
  <2> DEFINE need == bytes_to_payload_units(b.size)
             n    == span(h, b.at) - 2
  <2>1. need \in Nat /\ need * CHUNK_UNIT >= b.size /\ CHUNK_UNIT \in Nat /\ b.size \in Nat
    <3>1. b.size \in Nat /\ CHUNK_UNIT \in Nat
      <4>1. CHUNK_UNIT \in Nat /\ SIZE_T \in Nat /\ Sizes \subseteq 1 .. SIZE_T - 1
        BY ChunkAssumption
      <4>2. b.size \in Sizes
        BY <1>0
      <4>3. b.size \in 1 .. SIZE_T - 1
        BY <4>1, <4>2
      <4> QED
        BY <4>1, <4>3
    <3>2. need \in Nat /\ need * CHUNK_UNIT >= b.size
      <4>1. b.size \in Sizes
        BY <1>0
      <4> QED
        BY <4>1, UnitsOfSize
    <3> QED
      BY <3>1, <3>2
  <2>2. n \in Nat /\ n >= need
    BY <1>0
  <2> HIDE DEF need, n
  <2>3. n * CHUNK_UNIT = need * CHUNK_UNIT + (n - need) * CHUNK_UNIT
        /\ n - need \in Nat /\ (n - need) * CHUNK_UNIT \in Nat /\ need * CHUNK_UNIT \in Nat
    BY <2>1, <2>2
  <2>4. n * CHUNK_UNIT >= b.size
    BY <2>1, <2>3
  <2> QED
    BY <2>4 DEF BlockOf, n
<1>3. ASSUME NEW a \in bs \ {b} PROVE SpaceOf(h, a) \cap SpaceOf(h, b) = {}
  <2>1. /\ a.at \in Nat /\ span(h, a.at) \in Nat /\ a.at \in C /\ a.at # b.at
    BY BlockIs DEF Clients
  <2>2. a.at + span(h, a.at) <= b.at \/ b.at + span(h, b.at) <= a.at
    BY <1>0, <2>1 DEF Tiled
  <2>3. /\ \A u \in SpaceOf(h, a) : u \in Int /\ a.at < u /\ u < a.at + span(h, a.at)
        /\ \A u \in SpaceOf(h, b) : u \in Int /\ b.at < u /\ u < b.at + span(h, b.at)
    BY <1>0, <2>1 DEF SpaceOf
  <2>4. \A u \in SpaceOf(h, a) : u \notin SpaceOf(h, b)
    BY <1>0, <2>1, <2>2, <2>3
  <2> QED
    BY <2>4
<1> QED
  BY <1>1, <1>2, <1>3

\* Blocks that are held are the same blocks.
LEMMA SameBlocks ==
    ASSUME NEW h, NEW h2, NEW bs, Held(h, h2, bs), NEW b \in bs
    PROVE  BlockOf(h2, b) = BlockOf(h, b) /\ SpaceOf(h2, b) = SpaceOf(h, b)
BY DEF Held, SameChunk, BlockOf, SpaceOf
=============================================================================
