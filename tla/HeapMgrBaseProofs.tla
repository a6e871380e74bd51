-------------------------- MODULE HeapMgrBaseProofs --------------------------
(***************************************************************************)
(* Proofs about HeapMgrBase, for every size of the heap, every minimal     *)
(* growth and all sizes of requests that do not wrap.                      *)
(*                                                                         *)
(* What the chunks and the free list are follows from the headers only by  *)
(* walking them.  The invariant says it of a set C of headers, without a   *)
(* walk: they tile the heap (Tiled), and next leads from each free one to  *)
(* the next higher free one (Lined).  That the walks of the code find C    *)
(* is proved once (ChunksAre, ListIs).                                     *)
(***************************************************************************)
EXTENDS HeapMgrBase, LeastElements, FiniteSetTheorems, TLAPS

Header == [status : {CHUNK_FREE, CHUNK_USED}, span : Nat, next : Units \cup {NULL}]
Memory == [hdr : [Units -> Header], hi : 0 .. MaxUnits, head : Units \cup {NULL}]

\* The chunks at C cover the heap, each ending where the next one begins.
Tiled(h, C) ==
    /\ \A c \in C : c \in 0 .. h.hi - 1
    /\ h.hi > 0 => 0 \in C
    /\ \A c \in C : span(h, c) > 0 /\ c + span(h, c) \in C \cup {h.hi}
    /\ \A c, d \in C : c < d => c + span(h, c) <= d

FreeOf(h, C) == {c \in C : status(h, c) = CHUNK_FREE}
UsedOf(h, C) == {c \in C : status(h, c) = CHUNK_USED}

\* The head is the first free chunk of C, and next leads from each to the one after.
Headed(h, C) ==
    IF h.head = NULL THEN FreeOf(h, C) = {}
    ELSE h.head \in FreeOf(h, C) /\ \A d \in FreeOf(h, C) : h.head <= d
Chained(h, C) ==
    \A c \in FreeOf(h, C) :
        IF next(h, c) = NULL THEN \A d \in FreeOf(h, C) : d <= c
        ELSE /\ next(h, c) \in FreeOf(h, C) /\ c < next(h, c)
             /\ \A d \in FreeOf(h, C) : d <= c \/ next(h, c) <= d
Lined(h, C) == Headed(h, C) /\ Chained(h, C)

\* No two free chunks lie side by side, those in X excepted.
Apart(h, C, X) == \A c \in FreeOf(h, C) \ X : c + span(h, c) \notin FreeOf(h, C)

Shaped(h, C) == h \in Memory /\ Tiled(h, C) /\ Lined(h, C)
Good(h, C)   == Shaped(h, C) /\ Apart(h, C, {})

\* h2 differs from h in the headers at W at most.
Writes(h, h2, W) == \A u \in Units \ W : h2.hdr[u] = h.hdr[u]

----------------------------------------------------------------------------
(* The headers.                                                            *)

\* The constants, as the provers need them.
LEMMA Constants ==
    /\ MaxUnits \in Nat /\ NULL \notin Units /\ Blank \in Header
    /\ \A u : u \in Units <=> u \in Nat /\ u < MaxUnits
BY HeapAssumption DEF NULL, Units, Blank, Header

\* What kinds of values the fields of a heap have.
LEMMA HeaderFields ==
    ASSUME NEW h \in Memory
    PROVE  /\ h.hi \in Nat /\ h.hi <= MaxUnits /\ h.head \in Units \cup {NULL}
           /\ \A u \in Units : /\ h.hdr[u] \in Header
                               /\ status(h, u) \in {CHUNK_FREE, CHUNK_USED}
                               /\ span(h, u) \in Nat
                               /\ next(h, u) \in Units \cup {NULL}
BY HeapAssumption DEF Memory, Header, status, span, next

\* Writing one field of a header leaves the others, and all other headers, alone.
LEMMA SetStatus ==
    ASSUME NEW h \in Memory, NEW c \in Units, NEW s \in {CHUNK_FREE, CHUNK_USED}
    PROVE  LET h2 == set_status(h, c, s)
           IN  /\ h2 \in Memory /\ h2.hi = h.hi /\ h2.head = h.head
               /\ Writes(h, h2, {c})
               /\ status(h2, c) = s /\ span(h2, c) = span(h, c) /\ next(h2, c) = next(h, c)
BY DEF Memory, Header, Writes, status, span, next, set_status

\* So it is with the span ...
LEMMA SetSpan ==
    ASSUME NEW h \in Memory, NEW c \in Units, NEW s \in Nat
    PROVE  LET h2 == set_span(h, c, s)
           IN  /\ h2 \in Memory /\ h2.hi = h.hi /\ h2.head = h.head
               /\ Writes(h, h2, {c})
               /\ status(h2, c) = status(h, c) /\ span(h2, c) = s /\ next(h2, c) = next(h, c)
BY DEF Memory, Header, Writes, status, span, next, set_span

\* ... and with the next chunk.
LEMMA SetNext ==
    ASSUME NEW h \in Memory, NEW c \in Units, NEW n \in Units \cup {NULL}
    PROVE  LET h2 == set_next(h, c, n)
           IN  /\ h2 \in Memory /\ h2.hi = h.hi /\ h2.head = h.head
               /\ Writes(h, h2, {c})
               /\ status(h2, c) = status(h, c) /\ span(h2, c) = span(h, c) /\ next(h2, c) = n
BY DEF Memory, Header, Writes, status, span, next, set_next

\* A header that is the same has the same fields.
LEMMA Unwritten ==
    ASSUME NEW h, NEW h2, NEW W, Writes(h, h2, W), NEW u \in Units \ W
    PROVE  status(h2, u) = status(h, u) /\ span(h2, u) = span(h, u) /\ next(h2, u) = next(h, u)
BY DEF Writes, status, span, next

----------------------------------------------------------------------------
(* The walks.                                                              *)

\* The walk of check_heap_validity meets the chunks at C and no other.
LEMMA ChunksAre ==
    ASSUME NEW h \in Memory, NEW C, Tiled(h, C)
    PROVE  Chunks(h) = C
<1> DEFINE D    == C \cup {h.hi}
           step == [c \in D |-> Onward(h, c)]
           at   == Walk(h)
           Is(f) == f = [i \in 0 .. h.hi |-> IF i = 0 THEN 0 ELSE Onward(h, f[i - 1])]
<1>0. /\ h.hi \in Nat /\ h.hi <= MaxUnits /\ MaxUnits \in Nat
      /\ \A c \in C : c \in Nat /\ c < h.hi /\ span(h, c) \in Nat /\ span(h, c) > 0
                      /\ c + span(h, c) \in D
  BY HeaderFields, Constants DEF Tiled
<1>1. /\ \A c \in D : Onward(h, c) \in D
      /\ \A c \in C : Onward(h, c) = c + span(h, c)
      /\ Onward(h, h.hi) = h.hi
  BY <1>0 DEF Onward
<1>2. 0 \in D
  BY <1>0 DEF Tiled
<1>3. step \in [D -> D]
  BY <1>1
<1>4. Is(at)
  <2>0. PICK f \in [0 .. h.hi -> D] : Repeats(f, h.hi, 0, step)
    <3>1. h.hi \in Nat
      BY <1>0
    <3> HIDE DEF D, step
    <3> QED
      BY <1>2, <1>3, <3>1, Iterates
  <2>1. f \in [0 .. h.hi -> D] /\ f[0] = 0 /\ \A i \in 1 .. h.hi : f[i] = step[f[i - 1]]
    BY <2>0 DEF Repeats
  <2>2. \A i \in 1 .. h.hi : step[f[i - 1]] = Onward(h, f[i - 1])
    <3> SUFFICES ASSUME NEW i \in 1 .. h.hi PROVE step[f[i - 1]] = Onward(h, f[i - 1])
      OBVIOUS
    <3>1. i - 1 \in 0 .. h.hi
      BY <1>0
    <3>2. f[i - 1] \in D
      BY <3>1
    <3> QED
      BY <3>2
  <2>3. Is(f)
    <3>1. ASSUME NEW i \in 0 .. h.hi PROVE f[i] = IF i = 0 THEN 0 ELSE Onward(h, f[i - 1])
      <4>1. i = 0 \/ i \in 1 .. h.hi
        BY <1>0
      <4> HIDE DEF step
      <4> QED
        BY <2>1, <2>2, <4>1
    <3> QED
      BY <3>1, <2>1
  <2>4. at = CHOOSE g : Is(g)
    BY DEF Walk
  <2> HIDE DEF Is
  <2> QED
    BY <2>3, <2>4
<1> HIDE DEF at
<1>5. at[0] = 0 /\ \A i \in 1 .. h.hi : at[i] = Onward(h, at[i - 1])
  BY <1>0, <1>4
<1> HIDE DEF D, Is, step
<1>6. \A i \in 0 .. h.hi : at[i] \in D /\ at[i] >= i
  <2> DEFINE S == {i \in 0 .. h.hi : at[i] \in D /\ at[i] >= i}
  <2>1. 0 \in S
    BY <1>0, <1>2, <1>5
  <2>2. ASSUME NEW i \in 1 .. h.hi, i - 1 \in S PROVE i \in S
    <3>1. at[i] = Onward(h, at[i - 1]) /\ at[i - 1] \in D /\ at[i - 1] >= i - 1
      BY <2>2, <1>5
    <3>2. CASE at[i - 1] = h.hi
      BY <3>1, <3>2, <1>0, <1>1
    <3>3. CASE at[i - 1] \in C
      BY <3>1, <3>3, <1>0, <1>1
    <3> QED
      BY <3>1, <3>2, <3>3 DEF D
  <2> HIDE DEF S
  <2>3. \A i \in 0 .. h.hi : i \in S
    BY <1>0, <2>1, <2>2, UpTo
  <2> QED
    BY <2>3 DEF S
<1>7. ASSUME NEW c \in C PROVE \E i \in 0 .. h.hi : at[i] = c
  <2> DEFINE T == {d \in C : \A i \in 0 .. h.hi : at[i] # d}
  <2> SUFFICES ASSUME c \in T PROVE FALSE
    OBVIOUS
  <2>1. T \in SUBSET Nat /\ T # {}
    BY <1>0
  <2>2. PICK e \in T : \A d \in T : e <= d
    <3> HIDE DEF T
    <3> QED
      BY <2>1, LeastElement
  <2>3. e \in C /\ e \in Nat /\ e < h.hi /\ e > 0 /\ 0 \in C
    BY <2>2, <1>0, <1>5 DEF Tiled
  <2> DEFINE L == {d \in C : d < e}
  <2>4. L \in SUBSET Nat /\ L # {} /\ \A y \in L : y <= e
    <3>1. 0 \in L
      BY <2>3
    <3>2. ASSUME NEW d \in L PROVE d \in Nat /\ d <= e
      BY <2>3, <1>0
    <3> QED
      BY <3>1, <3>2
  <2>5. PICK d \in L : \A y \in L : y <= d
    <3> HIDE DEF L
    <3> QED
      BY <2>3, <2>4, GreatestElement
  <2>6. d \in C /\ d < e /\ d \in Nat /\ d + span(h, d) <= e
    BY <2>3, <2>5, <1>0 DEF Tiled
  <2>7. d + span(h, d) = e
    <3>1. d + span(h, d) \in C
      BY <2>3, <2>6, <1>0 DEF D
    <3>2. d + span(h, d) < e => d + span(h, d) \in L
      BY <3>1
    <3> QED
      BY <3>2, <2>3, <2>5, <2>6, <1>0
  <2>8. d \notin T
    BY <2>2, <2>3, <2>6
  <2>9. PICK i \in 0 .. h.hi : at[i] = d
    BY <2>6, <2>8
  <2>10. i + 1 \in 1 .. h.hi
    BY <2>3, <2>6, <2>9, <1>0, <1>6
  <2>11. at[i + 1] = e
    BY <2>6, <2>7, <2>9, <2>10, <1>1, <1>5
  <2> QED
    BY <2>2, <2>10, <2>11
<1>8. Chunks(h) = {at[i] : i \in 0 .. h.hi} \cap 0 .. h.hi - 1
  BY DEF Chunks, at
<1>9. ASSUME NEW c \in Chunks(h) PROVE c \in C
  BY <1>0, <1>6, <1>8 DEF D
<1> QED
  BY <1>0, <1>7, <1>8, <1>9

\* The list of the code leads through the free chunks and ends after the last one.
LEMMA ListIs ==
    ASSUME NEW h \in Memory, NEW C \in SUBSET Units, Lined(h, C)
    PROVE  /\ List(h)[0] = h.head
           /\ \A i \in 1 .. MaxUnits : List(h)[i] = After(h, List(h)[i - 1])
           /\ \A i \in 0 .. MaxUnits : List(h)[i] \in FreeOf(h, C) \cup {NULL}
           /\ List(h)[MaxUnits] = NULL
           /\ Listed(h) = FreeOf(h, C)
<1> DEFINE F    == FreeOf(h, C)
           D    == F \cup {NULL}
           step == [c \in D |-> After(h, c)]
           nth  == List(h)
           Is(f) == f = [i \in 0 .. MaxUnits |-> IF i = 0 THEN h.head ELSE After(h, f[i - 1])]
<1>0. /\ MaxUnits \in Nat /\ NULL = -1 /\ NULL \notin F
      /\ \A c \in F : c \in Nat /\ c < MaxUnits
  BY Constants DEF FreeOf, NULL
<1>1. /\ \A c \in F : /\ After(h, c) = next(h, c)
                      /\ next(h, c) # NULL => next(h, c) \in F /\ c < next(h, c)
      /\ After(h, NULL) = NULL
  BY <1>0 DEF After, Lined, Chained
<1>2. h.head \in D /\ \A c \in D : After(h, c) \in D
  BY <1>1 DEF Lined, Headed
<1>3. step \in [D -> D]
  BY <1>2
<1>4. Is(nth)
  <2>0. PICK f \in [0 .. MaxUnits -> D] : Repeats(f, MaxUnits, h.head, step)
    <3> HIDE DEF D, step
    <3> QED
      BY <1>0, <1>2, <1>3, Iterates
  <2>1. f \in [0 .. MaxUnits -> D] /\ f[0] = h.head
        /\ \A i \in 1 .. MaxUnits : f[i] = step[f[i - 1]]
    BY <2>0 DEF Repeats
  <2>2. ASSUME NEW i \in 1 .. MaxUnits PROVE step[f[i - 1]] = After(h, f[i - 1])
    <3>1. i - 1 \in 0 .. MaxUnits
      BY <1>0
    <3>2. f[i - 1] \in D
      BY <3>1
    <3> QED
      BY <3>2
  <2>3. Is(f)
    <3>1. ASSUME NEW i \in 0 .. MaxUnits
          PROVE  f[i] = IF i = 0 THEN h.head ELSE After(h, f[i - 1])
      <4>1. i = 0 \/ i \in 1 .. MaxUnits
        BY <1>0
      <4> HIDE DEF step
      <4> QED
        BY <2>1, <2>2, <4>1
    <3> QED
      BY <3>1, <2>1
  <2>4. nth = CHOOSE g : Is(g)
    BY DEF List
  <2> HIDE DEF Is
  <2> QED
    BY <2>3, <2>4
<1> HIDE DEF nth
<1>5. nth[0] = h.head /\ \A i \in 1 .. MaxUnits : nth[i] = After(h, nth[i - 1])
  BY <1>0, <1>4
<1> HIDE DEF Is, step, F, D
<1>6. \A i \in 0 .. MaxUnits : nth[i] \in D /\ (nth[i] # NULL => nth[i] >= i)
  <2> DEFINE S == {i \in 0 .. MaxUnits : nth[i] \in D /\ (nth[i] # NULL => nth[i] >= i)}
  <2>1. 0 \in S
    BY <1>0, <1>2, <1>5 DEF D
  <2>2. ASSUME NEW i \in 1 .. MaxUnits, i - 1 \in S PROVE i \in S
    <3>1. /\ nth[i] = After(h, nth[i - 1]) /\ nth[i - 1] \in D
          /\ nth[i - 1] # NULL => nth[i - 1] >= i - 1
      BY <2>2, <1>5
    <3>2. CASE nth[i - 1] = NULL
      BY <3>1, <3>2, <1>1, <1>0 DEF D
    <3>3. CASE nth[i - 1] \in F
      BY <3>1, <3>3, <1>0, <1>1, <1>2 DEF D
    <3> QED
      BY <3>1, <3>2, <3>3 DEF D
  <2> HIDE DEF S
  <2>3. \A i \in 0 .. MaxUnits : i \in S
    BY <1>0, <2>1, <2>2, UpTo
  <2> QED
    BY <2>3 DEF S
<1>7. nth[MaxUnits] = NULL
  BY <1>0, <1>6 DEF D
<1>8. ASSUME NEW c \in F PROVE \E i \in 0 .. MaxUnits : nth[i] = c
  <2> DEFINE T == {d \in F : \A i \in 0 .. MaxUnits : nth[i] # d}
  <2> SUFFICES ASSUME c \in T PROVE FALSE
    OBVIOUS
  <2>1. T \in SUBSET Nat /\ T # {}
    BY <1>0
  <2>2. PICK e \in T : \A d \in T : e <= d
    <3> HIDE DEF T
    <3> QED
      BY <2>1, LeastElement
  <2>3. /\ e \in F /\ e \in Nat /\ e < MaxUnits
        /\ h.head \in F /\ h.head \in Nat /\ h.head < e
    BY <2>2, <1>0, <1>5 DEF Lined, Headed, F
  <2> DEFINE L == {d \in F : d < e}
  <2>4. L \in SUBSET Nat /\ L # {} /\ \A y \in L : y <= e
    <3>1. h.head \in L
      BY <2>3
    <3>2. ASSUME NEW d \in L PROVE d \in Nat /\ d <= e
      BY <2>3, <1>0
    <3> QED
      BY <3>1, <3>2
  <2>5. PICK d \in L : \A y \in L : y <= d
    <3> HIDE DEF L
    <3> QED
      BY <2>3, <2>4, GreatestElement
  <2>6. d \in F /\ d < e /\ d \in Nat
    BY <2>5, <1>0
  <2>7. next(h, d) = e
    <3>1. /\ next(h, d) # NULL /\ next(h, d) \in F /\ next(h, d) \in Nat
          /\ d < next(h, d) /\ next(h, d) <= e
      <4>1. e \in FreeOf(h, C) /\ d \in FreeOf(h, C)
        BY <2>3, <2>6 DEF F
      <4>2. IF next(h, d) = NULL THEN e <= d
            ELSE /\ next(h, d) \in FreeOf(h, C) /\ d < next(h, d)
                 /\ e <= d \/ next(h, d) <= e
        BY <4>1 DEF Lined, Chained
      <4>3. ~(e <= d)
        BY <2>3, <2>6
      <4> QED
        BY <4>2, <4>3, <1>0 DEF F
    <3>2. next(h, d) < e => next(h, d) \in L
      BY <3>1
    <3> QED
      BY <3>1, <3>2, <2>3, <2>5, <2>6
  <2>8. PICK i \in 0 .. MaxUnits : nth[i] = d
    BY <2>2, <2>6, <2>3
  <2>9. i + 1 \in 1 .. MaxUnits
    BY <2>6, <2>8, <1>0, <1>7
  <2>10. nth[i + 1] = e
    BY <2>6, <2>7, <2>8, <2>9, <1>1, <1>5
  <2> QED
    BY <2>2, <2>9, <2>10
<1>9. Listed(h) = {nth[i] : i \in 0 .. MaxUnits} \ {NULL}
  BY DEF Listed, nth
<1>10. Listed(h) = F
  BY <1>0, <1>6, <1>8, <1>9 DEF D
<1> QED
  BY <1>5, <1>6, <1>7, <1>10 DEF nth, F, D

\* p is listed right before c; NULL before the head.
Precedes(h, C, p, c) == IF p = NULL THEN h.head = c ELSE p \in FreeOf(h, C) /\ next(h, p) = c

\* The places of the list, and how many are taken.
LEMMA Places ==
    ASSUME heap \in Memory, NEW C \in SUBSET Units, Lined(heap, C)
    PROVE  /\ \A i \in 0 .. MaxUnits : Nth(i) = List(heap)[i]
           /\ \A i \in 0 .. MaxUnits : Nth(i) \in FreeOf(heap, C) \cup {NULL}
           /\ Nth(-1) = NULL /\ Nth(0) = heap.head
           /\ \A i \in 1 .. MaxUnits : Nth(i) = After(heap, Nth(i - 1))
           /\ Length \in 0 .. MaxUnits
           /\ \A i \in 0 .. MaxUnits : Nth(i) # NULL <=> i < Length
<1>0. MaxUnits \in Nat
  BY Constants
<1>1. /\ \A i \in 0 .. MaxUnits : Nth(i) = List(heap)[i]
      /\ Nth(-1) = NULL /\ Nth(0) = heap.head
      /\ \A i \in 1 .. MaxUnits : Nth(i) = After(heap, Nth(i - 1))
      /\ \A i \in 0 .. MaxUnits : Nth(i) \in FreeOf(heap, C) \cup {NULL}
      /\ Nth(MaxUnits) = NULL
  BY <1>0, ListIs DEF Nth
<1> DEFINE S == {i \in 0 .. MaxUnits : List(heap)[i] # NULL}
<1>2. \A i \in 0 .. MaxUnits : i \in S <=> Nth(i) # NULL
  BY <1>1
<1>3. ASSUME NEW i \in 1 .. MaxUnits, i \in S PROVE i - 1 \in S
  BY <1>0, <1>1, <1>2, <1>3 DEF After
<1>4. Length = Cardinality(S) /\ \A i \in S : i \in 0 .. MaxUnits
  BY DEF Length
<1> HIDE DEF S
<1>5. PICK k \in 0 .. MaxUnits + 1 : S = 0 .. k - 1 /\ Cardinality(S) = k
  BY <1>0, <1>3, <1>4, CountPrefix
<1>6. MaxUnits \notin S
  BY <1>0, <1>1, <1>2
<1> QED
  BY <1>0, <1>1, <1>2, <1>4, <1>5, <1>6

\* The search of heapmgr_malloc finds a free chunk with room, and the one before it.
LEMMA FirstFit ==
    ASSUME heap \in Memory, NEW C \in SUBSET Units, Lined(heap, C),
           NEW need \in Nat, Room(need) # {}
    PROVE  LET i == CHOOSE j \in Room(need) : \A k \in Room(need) : j <= k
           IN  /\ Nth(i) \in FreeOf(heap, C) /\ need < span(heap, Nth(i))
               /\ Precedes(heap, C, Nth(i - 1), Nth(i))
<1> DEFINE i == CHOOSE j \in Room(need) : \A k \in Room(need) : j <= k
<1>1. Room(need) \in SUBSET Nat
  BY Constants DEF Room
<1>2. i \in Room(need)
  BY <1>1, LeastElement
<1> HIDE DEF i
<1>3. i \in 0 .. MaxUnits /\ Nth(i) # NULL /\ span(heap, Nth(i)) - 1 >= need
  BY <1>2, Places DEF Room
<1>4. Nth(i) \in FreeOf(heap, C) /\ Nth(i) \in Units
  BY <1>3, Places DEF FreeOf
<1>5. need < span(heap, Nth(i))
  BY <1>3, <1>4, HeaderFields
<1>6. Precedes(heap, C, Nth(i - 1), Nth(i))
  <2>1. CASE i = 0
    BY <2>1, Places DEF Precedes
  <2>2. CASE i \in 1 .. MaxUnits
    <3>1. i - 1 \in 0 .. MaxUnits /\ Nth(i) = After(heap, Nth(i - 1))
      BY <2>2, Places, Constants
    <3> QED
      BY <3>1, <1>3, Places DEF After, Precedes
  <2> QED
    BY <1>3, <2>1, <2>2, Constants
<1> QED
  BY <1>4, <1>5, <1>6 DEF i

\* The end of the list: the last chunk, and the one before it.
LEMMA LastIs ==
    ASSUME heap \in Memory, NEW C \in SUBSET Units, Lined(heap, C), heap.head # NULL
    PROVE  /\ Nth(Length - 1) \in FreeOf(heap, C) /\ next(heap, Nth(Length - 1)) = NULL
           /\ Precedes(heap, C, Nth(Length - 2), Nth(Length - 1))
<1>1. MaxUnits \in Nat /\ Length \in 1 .. MaxUnits
  BY Places, Constants
<1>2. Length - 1 \in 0 .. MaxUnits /\ Nth(Length - 1) # NULL
      /\ Nth(Length - 1) \in FreeOf(heap, C) /\ Nth(Length) = NULL
  BY <1>1, Places
<1>3. next(heap, Nth(Length - 1)) = NULL
  BY <1>1, <1>2, Places DEF After
<1>4. Precedes(heap, C, Nth(Length - 2), Nth(Length - 1))
  <2>1. CASE Length = 1
    BY <2>1, Places DEF Precedes
  <2>2. CASE Length \in 2 .. MaxUnits
    <3>1. Length - 1 \in 1 .. MaxUnits /\ Length - 2 \in 0 .. MaxUnits
          /\ (Length - 1) - 1 = Length - 2
      BY <2>2, <1>1
    <3>2. Nth(Length - 1) = After(heap, Nth(Length - 2))
      BY <3>1, Places
    <3>3. Nth(Length - 2) \in FreeOf(heap, C) \cup {NULL}
      BY <3>1, Places
    <3> QED
      BY <3>2, <3>3, <1>2 DEF After, Precedes
  <2> QED
    BY <1>1, <2>1, <2>2
<1> QED
  BY <1>2, <1>3, <1>4

\* The search of heapmgr_free finds the free chunks around c.
LEMMA BeforeIs ==
    ASSUME heap \in Memory, NEW C \in SUBSET Units, Lined(heap, C),
           NEW c \in Units \ FreeOf(heap, C)
    PROVE  IF Before(c) = NULL THEN heap.head = NULL \/ c < heap.head
           ELSE /\ Before(c) \in FreeOf(heap, C) /\ Before(c) < c
                /\ next(heap, Before(c)) = NULL \/ c < next(heap, Before(c))
<1> DEFINE S == {i \in 0 .. Length - 1 : \A j \in 0 .. i : Nth(j) <= c}
<1>0. /\ MaxUnits \in Nat /\ Length \in 0 .. MaxUnits /\ c \in Nat /\ NULL = -1
      /\ \A i \in 0 .. MaxUnits : Nth(i) # NULL => Nth(i) \in Nat /\ Nth(i) # c
  BY Places, Constants DEF NULL, FreeOf
<1>1. \A i \in S : i \in 0 .. MaxUnits
  BY <1>0
<1>2. ASSUME NEW i \in 1 .. MaxUnits, i \in S PROVE i - 1 \in S
  BY <1>0, <1>2
<1>3. PICK k \in 0 .. MaxUnits + 1 : S = 0 .. k - 1 /\ Cardinality(S) = k
  <2> HIDE DEF S
  <2> QED
    BY <1>0, <1>1, <1>2, CountPrefix
<1>4. Before(c) = Nth(k - 1)
  BY <1>3 DEF Before
<1>5. k <= Length
  <2>1. k > 0 => k - 1 \in S
    BY <1>0, <1>3
  <2> QED
    BY <2>1, <1>0, <1>3
<1>6. k < Length => Nth(k) # NULL /\ Nth(k) > c
  <2> SUFFICES ASSUME k < Length PROVE Nth(k) # NULL /\ Nth(k) > c
    OBVIOUS
  <2>1. k \notin S /\ k \in 0 .. Length - 1 /\ \A j \in 0 .. k - 1 : j \in S
    <3>1. k \in Nat /\ k \in 0 .. Length - 1
      BY <1>0
    <3> HIDE DEF S
    <3> QED
      BY <3>1, <1>3
  <2>2. PICK j \in 0 .. k : ~(Nth(j) <= c)
    BY <2>1
  <2>3. j = k
    BY <2>1, <2>2, <1>0
  <2>4. Nth(k) # NULL /\ Nth(k) \in Nat
    BY <2>1, <1>0, Places
  <2> QED
    BY <2>2, <2>3, <2>4, <1>0
<1>7. CASE k = 0
  <2>1. Before(c) = NULL
    BY <1>4, <1>7, Places
  <2>2. heap.head = NULL \/ c < heap.head
    BY <1>0, <1>6, <1>7, Places
  <2> QED
    BY <2>1, <2>2
<1>8. CASE k > 0
  <2>1. k \in 1 .. MaxUnits /\ k - 1 \in 0 .. MaxUnits /\ k - 1 \in S
    BY <1>0, <1>3, <1>5, <1>8
  <2>2. Nth(k - 1) # NULL /\ Nth(k - 1) \in FreeOf(heap, C)
    BY <2>1, <1>0, <1>5, Places
  <2>3. Nth(k - 1) < c
    BY <2>1, <2>2, <1>0
  <2>4. next(heap, Nth(k - 1)) = Nth(k)
    BY <2>1, <2>2, Places DEF After
  <2>5. Nth(k) = NULL \/ c < Nth(k)
    BY <2>1, <1>0, <1>5, <1>6, Places
  <2> QED
    BY <2>2, <2>3, <2>4, <2>5, <1>4
<1> QED
  BY <1>0, <1>3, <1>7, <1>8

----------------------------------------------------------------------------
(* The neighbours.                                                         *)

\* A chunk of a tiled heap is a unit, with the fields of a header.
LEMMA InUnits ==
    ASSUME NEW h \in Memory, NEW C, Tiled(h, C)
    PROVE  /\ \A c \in C : /\ c \in Units /\ c \in Nat /\ c < h.hi
                           /\ span(h, c) \in Nat /\ span(h, c) > 0
                           /\ next(h, c) \in Units \cup {NULL}
                           /\ status(h, c) \in {CHUNK_FREE, CHUNK_USED}
           /\ h.hi \in Nat /\ h.hi <= MaxUnits
BY HeaderFields, Constants DEF Tiled

\* The chunk after c in memory.
LEMMA AdjacentIs ==
    ASSUME NEW h \in Memory, NEW C, Tiled(h, C), NEW c \in C
    PROVE  /\ adjacent(h, c) = IF c + span(h, c) = h.hi THEN NULL ELSE c + span(h, c)
           /\ c + span(h, c) \in C \cup {h.hi}
           /\ h.hi \notin C /\ NULL \notin C
           /\ IsFree(h, adjacent(h, c)) <=> c + span(h, c) \in FreeOf(h, C)
<1>1. /\ c \in Nat /\ c < h.hi /\ span(h, c) \in Nat /\ h.hi \in Nat
      /\ c + span(h, c) \in C \cup {h.hi} /\ h.hi \notin C /\ NULL \notin C
      /\ \A d \in C : d \in Nat /\ d < h.hi
  BY InUnits, Constants DEF Tiled
<1>2. adjacent(h, c) = IF c + span(h, c) = h.hi THEN NULL ELSE c + span(h, c)
  BY <1>1 DEF adjacent
<1>3. IsFree(h, adjacent(h, c)) <=> c + span(h, c) \in FreeOf(h, C)
  BY <1>1, <1>2 DEF IsFree, FreeOf
<1> QED
  BY <1>1, <1>2, <1>3

\* Every chunk is free or in use.
LEMMA FreeOrUsed ==
    ASSUME NEW h \in Memory, NEW C, Tiled(h, C)
    PROVE  C = FreeOf(h, C) \cup UsedOf(h, C) /\ FreeOf(h, C) \cap UsedOf(h, C) = {}
BY InUnits DEF FreeOf, UsedOf, CHUNK_FREE, CHUNK_USED

\* What check_heap_validity looks at is in order.
LEMMA GoodIsValid ==
    ASSUME NEW h, NEW C, Good(h, C)
    PROVE  check_heap_validity(h)
<1>1. h \in Memory /\ Tiled(h, C) /\ Lined(h, C) /\ Apart(h, C, {})
  BY DEF Good, Shaped
<1>2. C \in SUBSET Units
  BY <1>1, InUnits
<1>3. Chunks(h) = C /\ Listed(h) = FreeOf(h, C)
  BY <1>1, <1>2, ChunksAre, ListIs
<1>4. \A c \in C : chunk_is_valid(h, c)
  BY <1>1, InUnits DEF chunk_is_valid
<1>5. ASSUME NEW c \in FreeOf(h, C)
      PROVE  adjacent(h, c) = NULL \/ adjacent(h, c) # next(h, c)
  <2>1. c \in C /\ c + span(h, c) \notin FreeOf(h, C)
    BY <1>1 DEF Apart, FreeOf
  <2>2. next(h, c) = NULL \/ next(h, c) \in FreeOf(h, C)
    BY <1>1 DEF Lined, Chained
  <2> QED
    BY <1>1, <2>1, <2>2, AdjacentIs
<1>6. h.hi = 0 => h.head = NULL
  <2>1. h.hi = 0 => C = {}
    BY <1>1, InUnits
  <2> QED
    BY <2>1, <1>1 DEF Lined, Headed, FreeOf
<1> QED
  BY <1>3, <1>4, <1>5, <1>6 DEF check_heap_validity, FreeOf

----------------------------------------------------------------------------
(* The operations on the list.                                             *)

\* h2, with the chunks D, is h after b was merged into a.
Merged(h, h2, C, D, a, b) ==
    /\ h2 \in Memory /\ Tiled(h2, D) /\ Chained(h2, D)
    /\ FreeOf(h2, D) = FreeOf(h, C) \ {b} /\ UsedOf(h2, D) = UsedOf(h, C)
    /\ Writes(h, h2, {a}) /\ h2.hi = h.hi /\ h2.head = h.head
    /\ span(h2, a) = span(h, a) + span(h, b) /\ next(h2, a) = next(h, b)

\* a grows over its free successor b.
LEMMA Coalesce ==
    ASSUME NEW h \in Memory, NEW C, Tiled(h, C), Chained(h, C),
           NEW a \in FreeOf(h, C), NEW b \in FreeOf(h, C), a + span(h, a) = b
    PROVE  Merged(h, coalesce_two(h, a, b), C, C \ {b}, a, b)
<1> DEFINE s  == span(h, a) + span(h, b)
           h1 == set_span(h, a, s)
           h2 == set_next(h1, a, next(h, b))
           D  == C \ {b}
<1>1. /\ a \in C /\ b \in C /\ a \in Units /\ b \in Units /\ s \in Nat /\ a < b
      /\ next(h, b) \in Units \cup {NULL}
  BY InUnits DEF FreeOf
<1>2. /\ h2 \in Memory /\ h2.hi = h.hi /\ h2.head = h.head /\ Writes(h, h2, {a})
      /\ status(h2, a) = status(h, a) /\ span(h2, a) = s /\ next(h2, a) = next(h, b)
  <2>1. /\ h1 \in Memory /\ h1.hi = h.hi /\ h1.head = h.head /\ Writes(h, h1, {a})
        /\ status(h1, a) = status(h, a) /\ span(h1, a) = s
    BY <1>1, SetSpan
  <2> HIDE DEF h1
  <2>2. a \in Units /\ next(h, b) \in Units \cup {NULL}
    BY <1>1
  <2>3. /\ h2 \in Memory /\ h2.hi = h1.hi /\ h2.head = h1.head /\ Writes(h1, h2, {a})
        /\ status(h2, a) = status(h1, a) /\ span(h2, a) = span(h1, a) /\ next(h2, a) = next(h, b)
    BY <2>1, <2>2, SetNext
  <2>4. Writes(h, h2, {a})
    BY <2>1, <2>3 DEF Writes
  <2> HIDE DEF h2
  <2> QED
    BY <2>1, <2>3, <2>4
<1>3. coalesce_two(h, a, b) = h2
  BY DEF coalesce_two
<1> HIDE DEF h2, h1
<1>4. \A c \in C \ {a} : /\ status(h2, c) = status(h, c) /\ span(h2, c) = span(h, c)
                         /\ next(h2, c) = next(h, c)
  BY <1>2, InUnits, Unwritten
<1>5. FreeOf(h2, D) = FreeOf(h, C) \ {b} /\ UsedOf(h2, D) = UsedOf(h, C)
  BY <1>1, <1>2, <1>4 DEF FreeOf, UsedOf, CHUNK_FREE, CHUNK_USED
<1>6. Tiled(h2, D)
  <2>1. \A c \in D : c \in 0 .. h2.hi - 1
    BY <1>2 DEF Tiled
  <2>2. h2.hi > 0 => 0 \in D
    BY <1>1, <1>2, InUnits DEF Tiled
  <2>3. ASSUME NEW c \in D PROVE span(h2, c) > 0 /\ c + span(h2, c) \in D \cup {h2.hi}
    <3>1. CASE c = a
      <4>1. b + span(h, b) \in C \cup {h.hi} /\ b + span(h, b) > b
        BY <1>1, InUnits DEF Tiled
      <4>2. a + s = b + span(h, b) /\ s > 0
        BY <1>1, InUnits
      <4>3. b \in Nat /\ span(h2, a) = s /\ h2.hi = h.hi
        BY <1>1, <1>2, InUnits
      <4>4. b + span(h, b) \in D \cup {h2.hi}
        BY <4>1, <4>3
      <4> HIDE DEF s, D
      <4> QED
        BY <3>1, <4>2, <4>3, <4>4
    <3>2. CASE c # a
      <4>1. span(h2, c) = span(h, c) /\ span(h, c) > 0 /\ c + span(h, c) \in C \cup {h.hi}
        BY <1>4, <3>2 DEF Tiled
      <4>2. c + span(h, c) # b
        <5>1. c < a \/ a < c
          BY <1>1, <3>2, InUnits
        <5>2. c < a => c + span(h, c) <= a
          BY <1>1 DEF Tiled
        <5>3. a < c => b <= c
          BY <1>1 DEF Tiled
        <5> QED
          BY <1>1, <5>1, <5>2, <5>3, <4>1, InUnits
      <4> QED
        BY <1>2, <4>1, <4>2
    <3> QED
      BY <3>1, <3>2
  <2>4. ASSUME NEW c \in D, NEW d \in D, c < d PROVE c + span(h2, c) <= d
    <3>1. CASE c = a
      <4>1. b <= d /\ b # d
        BY <1>1, <2>4, <3>1 DEF Tiled
      <4>2. b + span(h, b) <= d
        BY <1>1, <4>1, InUnits DEF Tiled
      <4> QED
        BY <1>1, <1>2, <3>1, <4>2, InUnits
    <3>2. CASE c # a
      BY <1>4, <2>4, <3>2 DEF Tiled
    <3> QED
      BY <3>1, <3>2
  <2> QED
    BY <2>1, <2>2, <2>3, <2>4 DEF Tiled
<1>7. Chained(h2, D)
  <2> DEFINE F == FreeOf(h, C)
  <2>0. \A c \in F : c \in C /\ c \in Nat
    BY InUnits DEF FreeOf
  <2>1. ASSUME NEW c \in F \ {a, b} PROVE next(h2, c) = next(h, c) /\ next(h, c) # b
    <3>1. next(h2, c) = next(h, c)
      BY <1>4, <2>0, <2>1
    <3>2. next(h, c) = NULL \/ (c < next(h, c) /\ (a <= c \/ next(h, c) <= a))
      BY DEF Chained
    <3>3. a < c => b <= c
      BY <1>1, <2>0 DEF Tiled
    <3> QED
      BY <3>1, <3>2, <3>3, <1>1, <2>0, Constants
  <2>2. ASSUME NEW c \in F \ {b}
        PROVE  IF next(h2, c) = NULL THEN \A d \in F \ {b} : d <= c
               ELSE /\ next(h2, c) \in F \ {b} /\ c < next(h2, c)
                    /\ \A d \in F \ {b} : d <= c \/ next(h2, c) <= d
    <3>1. CASE c = a
      <4>1. next(h2, c) = next(h, b)
        BY <1>2, <3>1
      <4>2. \A d \in F \ {b} : d <= b => d <= a
        <5> SUFFICES ASSUME NEW d \in F \ {b}, a < d PROVE b <= d
          BY <1>1, <2>0
        <5> QED
          BY <1>1, <2>0 DEF Tiled
      <4>3. IF next(h, b) = NULL THEN \A d \in F : d <= b
            ELSE /\ next(h, b) \in F /\ b < next(h, b)
                 /\ \A d \in F : d <= b \/ next(h, b) <= d
        BY DEF Chained
      <4> QED
        BY <3>1, <4>1, <4>2, <4>3, <1>1, <2>0
    <3>2. CASE c # a
      <4>1. next(h2, c) = next(h, c) /\ next(h, c) # b
        BY <2>1, <3>2
      <4> QED
        BY <4>1 DEF Chained
    <3> QED
      BY <3>1, <3>2
  <2> QED
    BY <1>5, <2>2 DEF Chained
<1> QED
  BY <1>2, <1>3, <1>5, <1>6, <1>7 DEF Merged

\* Where the spans are the same, the heap is tiled the same way.
LEMMA SameSpans ==
    ASSUME NEW h, NEW h2, NEW C, Tiled(h, C), h2.hi = h.hi,
           \A c \in C : span(h2, c) = span(h, c)
    PROVE  Tiled(h2, C)
BY DEF Tiled

\* Another head changes nothing else.
LEMMA NewHead ==
    ASSUME NEW h \in Memory, NEW n \in Units \cup {NULL}, NEW C
    PROVE  LET h2 == [h EXCEPT !.head = n]
           IN  /\ h2 \in Memory /\ h2.hi = h.hi /\ h2.head = n /\ h2.hdr = h.hdr
               /\ FreeOf(h2, C) = FreeOf(h, C) /\ UsedOf(h2, C) = UsedOf(h, C)
               /\ Tiled(h, C) => Tiled(h2, C)
               /\ Chained(h, C) => Chained(h2, C)
               /\ \A c : span(h2, c) = span(h, c) /\ next(h2, c) = next(h, c)
<1> DEFINE h2 == [h EXCEPT !.head = n]
<1>1. h2 \in Memory /\ h2.hi = h.hi /\ h2.head = n /\ h2.hdr = h.hdr
  BY DEF Memory
<1> HIDE DEF h2
<1>2. \A c : status(h2, c) = status(h, c) /\ span(h2, c) = span(h, c) /\ next(h2, c) = next(h, c)
  BY <1>1 DEF status, span, next
<1>3. FreeOf(h2, C) = FreeOf(h, C) /\ UsedOf(h2, C) = UsedOf(h, C)
  BY <1>2 DEF FreeOf, UsedOf
<1>4. Tiled(h, C) => Tiled(h2, C)
  BY <1>1, <1>2, SameSpans
<1>5. Chained(h, C) => Chained(h2, C)
  BY <1>2, <1>3 DEF Chained
<1> QED
  BY <1>1, <1>2, <1>3, <1>4, <1>5 DEF h2

\* h2 is the heap h after the chunk c of C was freed: its chunks are at D, and c has
\* become, or become a part of, the chunk m.
Freed(h, h2, C, D, c, m) ==
    /\ Good(h2, D) /\ D \in SUBSET C
    /\ UsedOf(h2, D) = UsedOf(h, C) \ {c}
    /\ Writes(h, h2, FreeOf(h, C) \cup {c}) /\ h2.hi = h.hi
    /\ m \in FreeOf(h2, D) /\ span(h2, m) >= span(h, c)

\* A used chunk before all free ones becomes the head.
LEMMA Push ==
    ASSUME NEW h, NEW C, Good(h, C), NEW c \in UsedOf(h, C), h.head = NULL \/ c < h.head
    PROVE  /\ MayPush(h, c)
           /\ \E D : /\ Freed(h, freelist_push_front(h, c), C, D, c, c)
                     /\ Precedes(freelist_push_front(h, c), D, NULL, c)
<1> DEFINE F  == FreeOf(h, C)
           h0 == set_status(h, c, CHUNK_FREE)
           h1 == set_next(h0, c, h.head)
<1>0. /\ h \in Memory /\ Tiled(h, C) /\ Headed(h, C) /\ Chained(h, C) /\ Apart(h, C, {})
      /\ c \in C /\ c \in Units /\ c \in Nat /\ span(h, c) \in Nat /\ span(h, c) > 0
      /\ h.head \in Units \cup {NULL} /\ h.hi \in Nat
      /\ c \notin F /\ \A d \in F : d \in C /\ d \in Nat /\ c < d
  <2>1. h \in Memory /\ Tiled(h, C) /\ Headed(h, C) /\ Chained(h, C) /\ Apart(h, C, {})
    BY DEF Good, Shaped, Lined
  <2>2. /\ c \in C /\ c \in Units /\ c \in Nat /\ span(h, c) \in Nat /\ span(h, c) > 0
        /\ h.hi \in Nat /\ \A d \in F : d \in C /\ d \in Nat
    BY <2>1, InUnits DEF UsedOf, FreeOf
  <2>3. ASSUME NEW d \in F PROVE c < d
    BY <2>1, <2>2, Constants DEF Headed
  <2>4. c \notin F
    BY DEF UsedOf, FreeOf, CHUNK_FREE, CHUNK_USED
  <2> QED
    BY <2>1, <2>2, <2>3, <2>4, HeaderFields
<1>1. /\ h1 \in Memory /\ h1.hi = h.hi /\ h1.head = h.head /\ Writes(h, h1, {c})
      /\ status(h1, c) = CHUNK_FREE /\ span(h1, c) = span(h, c) /\ next(h1, c) = h.head
  <2>1. /\ h0 \in Memory /\ h0.hi = h.hi /\ h0.head = h.head /\ Writes(h, h0, {c})
        /\ status(h0, c) = CHUNK_FREE /\ span(h0, c) = span(h, c)
    BY <1>0, SetStatus
  <2> HIDE DEF h0
  <2>2. h.head \in Units \cup {NULL} /\ c \in Units
    BY <1>0
  <2>3. /\ h1 \in Memory /\ h1.hi = h0.hi /\ h1.head = h0.head /\ Writes(h0, h1, {c})
        /\ status(h1, c) = status(h0, c) /\ span(h1, c) = span(h0, c) /\ next(h1, c) = h.head
    BY <2>1, <2>2, SetNext
  <2>4. Writes(h, h1, {c})
    BY <2>1, <2>3 DEF Writes
  <2> HIDE DEF h1
  <2> QED
    BY <2>1, <2>3, <2>4
<1> HIDE DEF h1
<1>2. \A d \in C \ {c} : /\ status(h1, d) = status(h, d) /\ span(h1, d) = span(h, d)
                         /\ next(h1, d) = next(h, d)
  BY <1>0, <1>1, InUnits, Unwritten
<1>3. FreeOf(h1, C) = F \cup {c} /\ UsedOf(h1, C) = UsedOf(h, C) \ {c}
  BY <1>0, <1>1, <1>2 DEF FreeOf, UsedOf, CHUNK_FREE, CHUNK_USED
<1>4. Tiled(h1, C)
  <2>1. \A d \in C : span(h1, d) = span(h, d)
    BY <1>1, <1>2
  <2>2. Tiled(h, C) /\ h1.hi = h.hi
    BY <1>0, <1>1
  <2> QED
    BY <2>1, <2>2, SameSpans
<1>5. Chained(h1, C)
  <2>1. h.head = NULL => F = {}
    BY <1>0 DEF Headed
  <2>2. h.head # NULL => h.head \in F /\ \A d \in F : h.head <= d
    BY <1>0 DEF Headed
  <2>3. IF next(h1, c) = NULL THEN \A d \in F \cup {c} : d <= c
        ELSE /\ next(h1, c) \in F \cup {c} /\ c < next(h1, c)
             /\ \A d \in F \cup {c} : d <= c \/ next(h1, c) <= d
    BY <1>0, <1>1, <2>1, <2>2
  <2>4. ASSUME NEW x \in F
        PROVE  IF next(h1, x) = NULL THEN \A d \in F \cup {c} : d <= x
               ELSE /\ next(h1, x) \in F \cup {c} /\ x < next(h1, x)
                    /\ \A d \in F \cup {c} : d <= x \/ next(h1, x) <= d
    <3>1. next(h1, x) = next(h, x) /\ c <= x
      BY <1>0, <1>2
    <3>2. IF next(h, x) = NULL THEN \A d \in F : d <= x
          ELSE /\ next(h, x) \in F /\ x < next(h, x)
               /\ \A d \in F : d <= x \/ next(h, x) <= d
      BY <1>0 DEF Chained
    <3> QED
      BY <3>1, <3>2
  <2> QED
    BY <1>3, <2>3, <2>4 DEF Chained
<1> DEFINE h2 == IF h.head # NULL /\ adjacent(h1, c) = h.head
                   THEN coalesce_two(h1, c, h.head) ELSE h1
           D  == IF h.head # NULL /\ adjacent(h1, c) = h.head THEN C \ {h.head} ELSE C
           h3 == [h2 EXCEPT !.head = c]
<1>6. /\ h2 \in Memory /\ Tiled(h2, D) /\ Chained(h2, D) /\ Apart(h2, D, {})
      /\ c \in FreeOf(h2, D) /\ FreeOf(h2, D) \in SUBSET (F \cup {c})
      /\ UsedOf(h2, D) = UsedOf(h, C) \ {c} /\ D \in SUBSET C
      /\ Writes(h, h2, F \cup {c}) /\ h2.hi = h.hi /\ span(h2, c) >= span(h, c)
  <2>1. CASE h.head # NULL /\ adjacent(h1, c) = h.head
    <3>1. h.head \in F /\ h.head \in C \ {c}
      BY <1>0, <2>1 DEF Headed
    <3>2. c + span(h1, c) = h.head
      BY <1>0, <1>1, <1>4, <2>1, AdjacentIs
    <3>3. /\ h2 \in Memory /\ Tiled(h2, D) /\ Chained(h2, D)
          /\ FreeOf(h2, D) = (F \cup {c}) \ {h.head} /\ UsedOf(h2, D) = UsedOf(h1, C)
          /\ Writes(h1, h2, {c}) /\ h2.hi = h1.hi
          /\ span(h2, c) = span(h1, c) + span(h1, h.head)
      <4>1. c \in FreeOf(h1, C) /\ h.head \in FreeOf(h1, C)
        BY <1>3, <3>1
      <4>2. h2 = coalesce_two(h1, c, h.head) /\ D = C \ {h.head}
        BY <2>1
      <4> HIDE DEF h2, D
      <4> QED
        BY <1>1, <1>3, <1>4, <1>5, <3>2, <4>1, <4>2, Coalesce DEF Merged
    <3> HIDE DEF h2
    <3>4. Writes(h, h2, F \cup {c})
      BY <1>1, <3>3 DEF Writes
    <3>5. span(h1, h.head) = span(h, h.head) /\ span(h, h.head) \in Nat
      BY <1>0, <1>2, <3>1, InUnits
    <3>6. ASSUME NEW x \in FreeOf(h2, D) PROVE x + span(h2, x) \notin FreeOf(h2, D)
      <4>1. CASE x = c
        <5>1. c + span(h2, c) = h.head + span(h, h.head)
          BY <1>0, <1>1, <3>2, <3>3, <3>5
        <5>2. h.head + span(h, h.head) \notin F /\ h.head + span(h, h.head) # c
          BY <1>0, <3>1, <3>5 DEF Apart
        <5> QED
          BY <3>3, <4>1, <5>1, <5>2
      <4>2. CASE x # c
        <5>1. x \in F /\ x \in Units \ {c}
          BY <1>0, <3>3, <4>2, InUnits
        <5>2. span(h2, x) = span(h1, x) /\ span(h1, x) = span(h, x) /\ span(h, x) \in Nat
          BY <1>0, <1>2, <3>3, <5>1, Unwritten, InUnits
        <5>3. x + span(h, x) \notin F /\ x + span(h, x) # c
          BY <1>0, <5>1, <5>2 DEF Apart
        <5> QED
          BY <3>3, <5>2, <5>3
      <4> QED
        BY <4>1, <4>2
    <3>7. Apart(h2, D, {})
      BY <3>6 DEF Apart
    <3>8. c \in FreeOf(h2, D) /\ FreeOf(h2, D) \in SUBSET (F \cup {c}) /\ D \in SUBSET C
      BY <1>0, <3>1, <3>3
    <3> HIDE DEF D, F
    <3> QED
      BY <1>0, <1>1, <1>3, <3>3, <3>4, <3>5, <3>7, <3>8
  <2>2. CASE ~(h.head # NULL /\ adjacent(h1, c) = h.head)
    <3>1. h2 = h1 /\ D = C
      BY <2>2
    <3>2. c + span(h, c) \notin F
      <4> SUFFICES ASSUME c + span(h, c) \in F PROVE FALSE
        OBVIOUS
      <4>1. h.head \in F /\ h.head <= c + span(h, c)
        BY <1>0 DEF Headed
      <4>2. c + span(h, c) <= h.head
        BY <1>0, <4>1 DEF Tiled
      <4>3. c + span(h1, c) = h.head
        BY <1>0, <1>1, <4>1, <4>2
      <4>4. h.head \in C /\ h.head # NULL
        BY <1>0, <4>1, Constants DEF NULL
      <4>5. adjacent(h1, c) = h.head
        BY <1>0, <1>1, <1>4, <4>3, <4>4, AdjacentIs
      <4> QED
        BY <2>2, <4>4, <4>5
    <3>3. ASSUME NEW x \in F \cup {c} PROVE x + span(h1, x) \notin F \cup {c}
      <4>1. CASE x = c
        BY <1>0, <1>1, <3>2, <4>1
      <4>2. CASE x # c
        <5>1. x \in F /\ span(h1, x) = span(h, x) /\ span(h, x) \in Nat
          BY <1>0, <1>2, <4>2, InUnits
        <5> QED
          BY <1>0, <5>1 DEF Apart
      <4> QED
        BY <4>1, <4>2
    <3>4. Apart(h1, C, {})
      BY <1>3, <3>3 DEF Apart
    <3>5. Writes(h, h1, F \cup {c})
      BY <1>1 DEF Writes
    <3> QED
      BY <1>0, <1>1, <1>3, <1>4, <1>5, <3>1, <3>4, <3>5
  <2> QED
    BY <2>1, <2>2
<1>7. freelist_push_front(h, c) = h3
  BY DEF freelist_push_front, h1, h0
<1> HIDE DEF h2, D
<1>8. /\ h3 \in Memory /\ h3.hi = h2.hi /\ h3.head = c /\ h3.hdr = h2.hdr
      /\ FreeOf(h3, D) = FreeOf(h2, D) /\ UsedOf(h3, D) = UsedOf(h2, D)
      /\ Tiled(h3, D) /\ Chained(h3, D)
      /\ \A x : span(h3, x) = span(h2, x)
  BY <1>0, <1>6, NewHead
<1> HIDE DEF h3
<1>9. Headed(h3, D)
  BY <1>0, <1>6, <1>8, Constants DEF Headed
<1>10. Apart(h3, D, {})
  BY <1>6, <1>8 DEF Apart
<1>11. Writes(h, h3, F \cup {c})
  BY <1>6, <1>8 DEF Writes
<1>12. Freed(h, h3, C, D, c, c)
  BY <1>6, <1>8, <1>9, <1>10, <1>11 DEF Freed, Good, Shaped, Lined
<1>13. Precedes(h3, D, NULL, c)
  BY <1>8 DEF Precedes
<1>14. MayPush(h, c)
  BY <1>0 DEF MayPush
<1> QED
  BY <1>7, <1>12, <1>13, <1>14

\* A used chunk between e and what is listed after e is linked in between.
LEMMA Links ==
    ASSUME NEW h, NEW C, Good(h, C), NEW e \in FreeOf(h, C), NEW c \in UsedOf(h, C), e < c,
           next(h, e) = NULL \/ c < next(h, e)
    PROVE  LET h1 == Linked(h, e, c)
           IN  /\ h1 \in Memory /\ Tiled(h1, C) /\ Headed(h1, C) /\ Chained(h1, C)
               /\ Apart(h1, C, {e, c})
               /\ FreeOf(h1, C) = FreeOf(h, C) \cup {c} /\ UsedOf(h1, C) = UsedOf(h, C) \ {c}
               /\ Writes(h, h1, {e, c}) /\ h1.hi = h.hi /\ h1.head = h.head
               /\ \A x \in C : span(h1, x) = span(h, x)
               /\ next(h1, e) = c
<1> DEFINE F  == FreeOf(h, C)
           ha == set_next(h, c, next(h, e))
           hb == set_next(ha, e, c)
           h1 == set_status(hb, c, CHUNK_FREE)
<1>0. /\ h \in Memory /\ Tiled(h, C) /\ Headed(h, C) /\ Chained(h, C) /\ Apart(h, C, {})
      /\ c \in C /\ c \in Units /\ c \in Nat /\ e \in C /\ e \in Units /\ e \in Nat
      /\ c # e /\ next(h, e) \in Units \cup {NULL} /\ c \notin F
      /\ status(h, e) = CHUNK_FREE
      /\ \A d \in F : d \in C /\ d \in Nat
      /\ \A d \in F : d <= e \/ c < d
  <2>1. h \in Memory /\ Tiled(h, C) /\ Headed(h, C) /\ Chained(h, C) /\ Apart(h, C, {})
    BY DEF Good, Shaped, Lined
  <2>2. /\ c \in C /\ c \in Units /\ c \in Nat /\ e \in C /\ e \in Units /\ e \in Nat
        /\ next(h, e) \in Units \cup {NULL} /\ \A d \in F : d \in C /\ d \in Nat
        /\ status(h, e) = CHUNK_FREE
    BY <2>1, InUnits DEF UsedOf, FreeOf
  <2>3. ASSUME NEW d \in F PROVE d <= e \/ c < d
    <3>1. next(h, e) = NULL => d <= e
      BY <2>1 DEF Chained
    <3>2. next(h, e) # NULL => next(h, e) \in F /\ (d <= e \/ next(h, e) <= d)
      BY <2>1 DEF Chained
    <3>3. d \in Nat /\ (next(h, e) # NULL => next(h, e) \in Nat)
      BY <2>2, <3>2
    <3>4. CASE next(h, e) = NULL
      BY <3>1, <3>4
    <3>5. CASE next(h, e) # NULL /\ c < next(h, e)
      <4> HIDE DEF F
      <4> QED
        BY <2>2, <3>2, <3>3, <3>5
    <3> QED
      BY <3>4, <3>5
  <2>4. c \notin F
    BY DEF UsedOf, FreeOf, CHUNK_FREE, CHUNK_USED
  <2> QED
    BY <2>1, <2>2, <2>3, <2>4
<1>1. /\ h1 \in Memory /\ h1.hi = h.hi /\ h1.head = h.head /\ Writes(h, h1, {e, c})
      /\ status(h1, c) = CHUNK_FREE /\ span(h1, c) = span(h, c) /\ next(h1, c) = next(h, e)
      /\ status(h1, e) = status(h, e) /\ span(h1, e) = span(h, e) /\ next(h1, e) = c
  <2>1. /\ ha \in Memory /\ ha.hi = h.hi /\ ha.head = h.head /\ Writes(h, ha, {c})
        /\ span(ha, c) = span(h, c) /\ next(ha, c) = next(h, e)
    BY <1>0, SetNext
  <2> HIDE DEF ha
  <2>2. status(ha, e) = status(h, e) /\ span(ha, e) = span(h, e)
    BY <1>0, <2>1, Unwritten
  <2>3. /\ hb \in Memory /\ hb.hi = h.hi /\ hb.head = h.head /\ Writes(ha, hb, {e})
        /\ status(hb, e) = status(h, e) /\ span(hb, e) = span(h, e) /\ next(hb, e) = c
    BY <1>0, <2>1, <2>2, SetNext
  <2> HIDE DEF hb
  <2>4. span(hb, c) = span(h, c) /\ next(hb, c) = next(h, e)
    BY <1>0, <2>1, <2>3, Unwritten
  <2>5. /\ h1 \in Memory /\ h1.hi = h.hi /\ h1.head = h.head /\ Writes(hb, h1, {c})
        /\ status(h1, c) = CHUNK_FREE /\ span(h1, c) = span(h, c) /\ next(h1, c) = next(h, e)
    BY <1>0, <2>3, <2>4, SetStatus
  <2> HIDE DEF h1
  <2>6. status(h1, e) = status(hb, e) /\ span(h1, e) = span(hb, e) /\ next(h1, e) = next(hb, e)
    BY <1>0, <2>5, Unwritten
  <2>7. Writes(h, h1, {e, c})
    BY <2>1, <2>3, <2>5 DEF Writes
  <2> QED
    BY <2>3, <2>5, <2>6, <2>7
<1>2. h1 = Linked(h, e, c)
  BY DEF Linked
<1> HIDE DEF h1
<1>3. \A d \in C \ {e, c} : /\ status(h1, d) = status(h, d) /\ span(h1, d) = span(h, d)
                            /\ next(h1, d) = next(h, d)
  BY <1>0, <1>1, InUnits, Unwritten
<1>4. FreeOf(h1, C) = F \cup {c} /\ UsedOf(h1, C) = UsedOf(h, C) \ {c}
  BY <1>0, <1>1, <1>3 DEF FreeOf, UsedOf, CHUNK_FREE, CHUNK_USED
<1>5. \A x \in C : span(h1, x) = span(h, x)
  BY <1>1, <1>3
<1>6. Tiled(h1, C)
  <2>1. Tiled(h, C) /\ h1.hi = h.hi
    BY <1>0, <1>1
  <2> QED
    BY <1>5, <2>1, SameSpans
<1>7. Headed(h1, C)
  <2>1. h.head \in F /\ \A d \in F : h.head <= d
    BY <1>0 DEF Headed
  <2>2. h.head <= c /\ h.head # NULL
    <3>1. h.head \in Nat /\ h.head <= e
      BY <1>0, <2>1
    <3> QED
      BY <1>0, <3>1 DEF NULL
  <2> QED
    BY <1>1, <1>4, <2>1, <2>2 DEF Headed
<1>8. Chained(h1, C)
  <2> DEFINE NextOf(x) ==
        IF next(h1, x) = NULL THEN \A d \in F \cup {c} : d <= x
        ELSE /\ next(h1, x) \in F \cup {c} /\ x < next(h1, x)
             /\ \A d \in F \cup {c} : d <= x \/ next(h1, x) <= d
  <2>1. NextOf(e)
    BY <1>0, <1>1, Constants DEF NULL
  <2>2. NextOf(c)
    <3>1. IF next(h, e) = NULL THEN \A d \in F : d <= e
          ELSE next(h, e) \in F /\ \A d \in F : d <= e \/ next(h, e) <= d
      BY <1>0 DEF Chained
    <3> QED
      BY <1>0, <1>1, <3>1
  <2>3. ASSUME NEW x \in F \ {e} PROVE NextOf(x)
    <3>1. next(h1, x) = next(h, x) /\ x \in Nat
      BY <1>0, <1>3
    <3>2. IF next(h, x) = NULL THEN \A d \in F : d <= x
          ELSE /\ next(h, x) \in F /\ x < next(h, x)
               /\ \A d \in F : d <= x \/ next(h, x) <= d
      BY <1>0 DEF Chained
    <3>3. x < e \/ c < x
      BY <1>0, <3>1
    <3>4. CASE x < e
      <4>1. next(h, x) # NULL /\ next(h, x) <= e /\ next(h, x) \in Nat
        <5>1. e \in F /\ ~(e <= x)
          BY <1>0, <3>1, <3>4
        <5> QED
          BY <1>0, <3>2, <5>1
      <4> QED
        BY <1>0, <3>1, <3>2, <4>1
    <3>5. CASE c < x
      BY <1>0, <3>1, <3>2, <3>5
    <3> QED
      BY <3>3, <3>4, <3>5
  <2> HIDE DEF NextOf
  <2>4. \A x \in FreeOf(h1, C) : NextOf(x)
    BY <1>4, <2>1, <2>2, <2>3
  <2> QED
    BY <1>4, <2>4 DEF Chained, NextOf
<1>9. Apart(h1, C, {e, c})
  <2>1. ASSUME NEW x \in F \ {e} PROVE x + span(h1, x) \notin F \cup {c}
    <3>1. x \in C /\ x \in Nat /\ span(h1, x) = span(h, x) /\ x + span(h, x) \notin F
      BY <1>0, <1>5 DEF Apart
    <3>2. x + span(h, x) # c
      <4>1. x < e \/ c < x
        BY <1>0, <3>1
      <4>2. x < e => x + span(h, x) <= e
        BY <1>0, <3>1 DEF Tiled
      <4> QED
        BY <1>0, <3>1, <4>1, <4>2, InUnits
    <3> QED
      BY <3>1, <3>2
  <2> QED
    BY <1>4, <2>1 DEF Apart
<1> QED
  BY <1>1, <1>2, <1>4, <1>5, <1>6, <1>7, <1>8, <1>9

\* Linked in and merged with both neighbours, if these are free.
LEMMA Insert ==
    ASSUME NEW h, NEW C, Good(h, C), NEW e \in FreeOf(h, C), NEW c \in UsedOf(h, C), e < c,
           next(h, e) = NULL \/ c < next(h, e)
    PROVE  /\ MayInsert(h, e, c)
           /\ \E D : LET h3 == freelist_insert_after(h, e, c)
                         m  == MergedInto(h, e, c)
                     IN  /\ Freed(h, h3, C, D, c, m)
                         /\ m = e => \A p : Precedes(h, C, p, e) => Precedes(h3, D, p, e)
                         /\ m = c => Precedes(h3, D, e, c)
                         /\ m \in {e, c}
<1> DEFINE F  == FreeOf(h, C)
           h1 == Linked(h, e, c)
           meets == adjacent(h, e) = c
           h2 == IF meets THEN coalesce_two(h1, e, c) ELSE h1
           m  == MergedInto(h, e, c)
           C2 == IF meets THEN C \ {c} ELSE C
           n  == adjacent(h2, m)
           h3 == IF IsFree(h2, n) THEN coalesce_two(h2, m, n) ELSE h2
           D  == IF IsFree(h2, n) THEN C2 \ {n} ELSE C2
<1>0. /\ h \in Memory /\ Tiled(h, C) /\ Headed(h, C) /\ Chained(h, C)
      /\ \A x \in F : x + span(h, x) \notin F
      /\ c \in C /\ c \in Units /\ c \in Nat /\ e \in C /\ e \in Units /\ e \in Nat
      /\ c # e /\ c \notin F /\ e \in F
      /\ \A d \in F : d \in C /\ d \in Nat
      /\ \A x \in C : span(h, x) \in Nat /\ span(h, x) > 0 /\ x \in Nat
  <2>1. /\ h \in Memory /\ Tiled(h, C) /\ Headed(h, C) /\ Chained(h, C)
        /\ \A x \in F : x + span(h, x) \notin F
    BY DEF Good, Shaped, Lined, Apart
  <2>2. /\ c \in C /\ c \in Units /\ c \in Nat /\ e \in C /\ e \in Units /\ e \in Nat
        /\ \A d \in F : d \in C /\ d \in Nat
        /\ \A x \in C : span(h, x) \in Nat /\ span(h, x) > 0 /\ x \in Nat
    BY <2>1, InUnits DEF UsedOf, FreeOf
  <2>3. c \notin F
    BY DEF UsedOf, FreeOf, CHUNK_FREE, CHUNK_USED
  <2>4. c # e /\ e \in F
    BY <2>3
  <2> HIDE DEF F
  <2> QED
    BY <2>1, <2>2, <2>3, <2>4
<1>1. /\ h1 \in Memory /\ Tiled(h1, C) /\ Headed(h1, C) /\ Chained(h1, C)
      /\ Apart(h1, C, {e, c})
      /\ FreeOf(h1, C) = F \cup {c} /\ UsedOf(h1, C) = UsedOf(h, C) \ {c}
      /\ Writes(h, h1, {e, c}) /\ h1.hi = h.hi /\ h1.head = h.head
      /\ \A x \in C : span(h1, x) = span(h, x)
      /\ next(h1, e) = c
  BY Links
<1> HIDE DEF h1
<1>2. meets <=> e + span(h, e) = c
  BY <1>0, AdjacentIs
<1>3. m \in {e, c} /\ (m = e <=> meets)
  BY <1>0 DEF MergedInto
<1>4. h.head \in F /\ h.head <= e
  BY <1>0 DEF Headed
<1>5. /\ h2 \in Memory /\ Tiled(h2, C2) /\ Chained(h2, C2) /\ C2 \in SUBSET C
      /\ FreeOf(h2, C2) \in SUBSET (F \cup {c}) /\ F \in SUBSET FreeOf(h2, C2)
      /\ UsedOf(h2, C2) = UsedOf(h, C) \ {c}
      /\ Writes(h, h2, {e, c}) /\ h2.hi = h.hi /\ h2.head = h.head
      /\ m \in FreeOf(h2, C2) /\ m \in Nat /\ span(h2, m) \in Nat
      /\ m + span(h2, m) = c + span(h, c) /\ span(h2, m) >= span(h, c)
      /\ \A x \in C2 \ {m} : span(h2, x) = span(h, x)
      /\ m = c => next(h2, e) = c
      /\ m = e => c \notin C2
  <2>1. CASE meets
    <3>1. h2 = coalesce_two(h1, e, c) /\ C2 = C \ {c} /\ m = e
      BY <2>1, <1>3
    <3>2. e \in FreeOf(h1, C) /\ c \in FreeOf(h1, C) /\ e + span(h1, e) = c
      BY <1>0, <1>1, <1>2, <2>1
    <3> HIDE DEF h2, m, C2
    <3>3. /\ h2 \in Memory /\ Tiled(h2, C2) /\ Chained(h2, C2)
          /\ FreeOf(h2, C2) = (F \cup {c}) \ {c} /\ UsedOf(h2, C2) = UsedOf(h1, C)
          /\ Writes(h1, h2, {e}) /\ h2.hi = h1.hi /\ h2.head = h1.head
          /\ span(h2, e) = span(h1, e) + span(h1, c)
      BY <1>1, <3>1, <3>2, Coalesce DEF Merged
    <3>4. Writes(h, h2, {e, c})
      BY <1>1, <3>3 DEF Writes
    <3>5. ASSUME NEW x \in C2 \ {m} PROVE span(h2, x) = span(h, x)
      <4>1. x \in Units \ {e} /\ x \in C
        BY <1>0, <3>1, InUnits
      <4> QED
        BY <1>1, <3>3, <4>1, Unwritten
    <3>6. e + span(h2, e) = c + span(h, c) /\ span(h2, e) >= span(h, c) /\ span(h2, e) \in Nat
      BY <1>0, <1>1, <3>2, <3>3
    <3>7. FreeOf(h2, C2) = F
      BY <1>0, <3>3
    <3> QED
      BY <1>0, <1>1, <3>1, <3>3, <3>4, <3>5, <3>6, <3>7
  <2>2. CASE ~meets
    <3>1. h2 = h1 /\ C2 = C /\ m = c
      BY <2>2, <1>3
    <3> HIDE DEF h2, m, C2, meets
    <3> QED
      BY <1>0, <1>1, <3>1
  <2> QED
    BY <2>1, <2>2
<1>6. \A x \in FreeOf(h2, C2) \ {m} : x + span(h2, x) \notin FreeOf(h2, C2)
  <2> SUFFICES ASSUME NEW x \in FreeOf(h2, C2) \ {m} PROVE x + span(h2, x) \notin FreeOf(h2, C2)
    OBVIOUS
  <2>1. x \in F /\ x \in C2
    BY <1>3, <1>5 DEF FreeOf
  <2>2. x + span(h2, x) = x + span(h, x) /\ x + span(h, x) \notin F
    BY <1>0, <1>5, <2>1
  <2>3. x + span(h, x) # c
    <3>1. CASE x = e
      BY <1>2, <1>3, <3>1
    <3>2. CASE x # e
      <4>1. x + span(h1, x) \notin FreeOf(h1, C)
        BY <1>0, <1>1, <2>1, <3>2 DEF Apart
      <4> QED
        BY <1>0, <1>1, <2>1, <4>1
    <3> QED
      BY <3>1, <3>2
  <2> QED
    BY <1>5, <2>2, <2>3
<1> HIDE DEF h2, m, C2, meets
<1>7. /\ h3 \in Memory /\ Tiled(h3, D) /\ Chained(h3, D) /\ D \in SUBSET C2
      /\ UsedOf(h3, D) = UsedOf(h2, C2)
      /\ Writes(h2, h3, {m}) /\ h3.hi = h2.hi /\ h3.head = h2.head
      /\ m \in FreeOf(h3, D) /\ span(h3, m) >= span(h, c)
      /\ \A x \in FreeOf(h2, C2) : x <= c => x \in FreeOf(h3, D)
      /\ FreeOf(h3, D) \in SUBSET FreeOf(h2, C2)
      /\ Apart(h3, D, {})
  <2>0. /\ m \in C2
        /\ IsFree(h2, n) <=> m + span(h2, m) \in FreeOf(h2, C2)
        /\ IsFree(h2, n) => n = m + span(h2, m)
    <3>1. m \in C2
      BY <1>5 DEF FreeOf
    <3>2. n = IF m + span(h2, m) = h2.hi THEN NULL ELSE m + span(h2, m)
      BY <1>5, <3>1, AdjacentIs
    <3>3. IsFree(h2, n) <=> m + span(h2, m) \in FreeOf(h2, C2)
      BY <1>5, <3>1, AdjacentIs
    <3> QED
      BY <3>1, <3>2, <3>3 DEF IsFree
  <2>1. CASE IsFree(h2, n)
    <3>1. /\ n \in FreeOf(h2, C2) /\ n = m + span(h2, m) /\ n = c + span(h, c)
          /\ h3 = coalesce_two(h2, m, n) /\ D = C2 \ {n}
      <4>1. h3 = coalesce_two(h2, m, n) /\ D = C2 \ {n}
        BY <2>1
      <4> HIDE DEF n, h3, D
      <4>2. n = m + span(h2, m) /\ m + span(h2, m) \in FreeOf(h2, C2)
        BY <2>0, <2>1
      <4>3. m + span(h2, m) = c + span(h, c)
        BY <1>5
      <4> QED
        BY <4>1, <4>2, <4>3
    <3> HIDE DEF n, h3, D
    <3>2. /\ h3 \in Memory /\ Tiled(h3, D) /\ Chained(h3, D)
          /\ FreeOf(h3, D) = FreeOf(h2, C2) \ {n} /\ UsedOf(h3, D) = UsedOf(h2, C2)
          /\ Writes(h2, h3, {m}) /\ h3.hi = h2.hi /\ h3.head = h2.head
          /\ span(h3, m) = span(h2, m) + span(h2, n)
      <4>1. /\ h2 \in Memory /\ Tiled(h2, C2) /\ Chained(h2, C2)
            /\ m \in FreeOf(h2, C2) /\ n \in FreeOf(h2, C2) /\ m + span(h2, m) = n
        BY <1>5, <3>1
      <4>2. h3 = coalesce_two(h2, m, n) /\ D = C2 \ {n}
        BY <3>1
      <4>3. Merged(h2, h3, C2, D, m, n)
        BY <4>1, <4>2, Coalesce
      <4> QED
        BY <4>3 DEF Merged
    <3>3. n \in F /\ n \in C2 \ {m} /\ n > c /\ span(h2, n) = span(h, n) /\ span(h, n) \in Nat
      <4>1. n \in C2 /\ n > c
        BY <1>0, <3>1 DEF FreeOf
      <4>2. n # m /\ n \in F
        BY <1>0, <1>3, <1>5, <3>1, <4>1
      <4> QED
        BY <1>0, <1>5, <4>1, <4>2
    <3>4. ASSUME NEW x \in FreeOf(h3, D) PROVE x + span(h3, x) \notin FreeOf(h3, D)
      <4>1. CASE x = m
        <5>1. m + span(h3, m) = n + span(h, n)
          BY <1>5, <3>1, <3>2, <3>3
        <5>2. n + span(h, n) \notin F /\ n + span(h, n) # c
          BY <1>0, <3>3
        <5> QED
          BY <1>5, <3>2, <4>1, <5>1, <5>2
      <4>2. CASE x # m
        <5>1. x \in FreeOf(h2, C2) \ {m} /\ x \in Units \ {m}
          BY <1>5, <3>2, <4>2, InUnits DEF FreeOf
        <5>2. span(h3, x) = span(h2, x)
          BY <3>2, <5>1, Unwritten
        <5> QED
          BY <1>6, <3>2, <5>1, <5>2
      <4> QED
        BY <4>1, <4>2
    <3>5. Apart(h3, D, {})
      BY <3>4 DEF Apart
    <3>6. span(h3, m) >= span(h, c)
      BY <1>0, <1>5, <3>2, <3>3
    <3>7. m \in FreeOf(h3, D) /\ FreeOf(h3, D) \in SUBSET FreeOf(h2, C2) /\ D \in SUBSET C2
      BY <1>5, <3>1, <3>2, <3>3
    <3>8. \A x \in FreeOf(h2, C2) : x <= c => x \in FreeOf(h3, D)
      BY <1>0, <3>2, <3>3
    <3> QED
      BY <3>2, <3>5, <3>6, <3>7, <3>8
  <2>2. CASE ~IsFree(h2, n)
    <3>1. h3 = h2 /\ D = C2 /\ m + span(h2, m) \notin FreeOf(h2, C2)
      BY <2>0, <2>2
    <3>2. Apart(h2, C2, {})
      BY <1>6, <3>1 DEF Apart
    <3> HIDE DEF n, h3, D
    <3>3. Writes(h2, h3, {m})
      BY <3>1 DEF Writes
    <3> QED
      BY <1>5, <3>1, <3>2, <3>3
  <2> QED
    BY <2>1, <2>2
<1>8. freelist_insert_after(h, e, c) = h3
  BY DEF freelist_insert_after, h1, h2, m, meets
<1> HIDE DEF h3, D, n
<1>9. Headed(h3, D)
  <2>1. h3.head = h.head /\ h.head \in F /\ \A d \in F : h.head <= d
    BY <1>0, <1>5, <1>7 DEF Headed
  <2>2. h.head # NULL /\ h.head <= c /\ h.head \in FreeOf(h3, D)
    <3>1. h.head \in F /\ h.head <= e /\ h.head \in FreeOf(h2, C2)
      BY <1>4, <1>5
    <3>2. h.head \in Nat /\ h.head <= c
      <4>1. e \in Nat /\ c \in Nat /\ h.head \in Nat
        BY <1>0, <3>1
      <4> QED
        BY <3>1, <4>1
    <3> QED
      BY <1>7, <3>1, <3>2 DEF NULL
  <2>3. \A d \in FreeOf(h3, D) : d \in F \/ d = c
    BY <1>5, <1>7
  <2> QED
    BY <2>1, <2>2, <2>3 DEF Headed
<1>10. Writes(h, h3, F \cup {c})
  BY <1>0, <1>3, <1>5, <1>7 DEF Writes
<1>11. Freed(h, h3, C, D, c, m)
  BY <1>5, <1>7, <1>9, <1>10 DEF Freed, Good, Shaped, Lined
<1>12. ASSUME m = e, NEW p, Precedes(h, C, p, e) PROVE Precedes(h3, D, p, e)
  <2>1. CASE p = NULL
    BY <1>5, <1>7, <1>12, <2>1 DEF Precedes
  <2>2. CASE p # NULL
    <3>1. p \in F /\ next(h, p) = e /\ p < e
      <4>1. p \in F /\ next(h, p) = e
        BY <1>12, <2>2 DEF Precedes
      <4>2. next(h, p) # NULL
        BY <1>0, <4>1 DEF NULL
      <4> QED
        BY <1>0, <4>1, <4>2 DEF Chained
    <3>2. p \in Units \ {e, c} /\ p \in FreeOf(h3, D)
      BY <1>0, <1>5, <1>7, <3>1, InUnits
    <3>3. next(h3, p) = e
      BY <1>5, <1>7, <1>12, <3>1, <3>2, Unwritten
    <3> QED
      BY <2>2, <3>2, <3>3 DEF Precedes
  <2> QED
    BY <2>1, <2>2
<1>13. ASSUME m = c PROVE Precedes(h3, D, e, c)
  <2>1. next(h3, e) = next(h2, e) /\ next(h2, e) = c
    BY <1>0, <1>5, <1>7, <1>13, Unwritten
  <2>2. e \in FreeOf(h3, D) /\ e # NULL
    BY <1>0, <1>5, <1>7 DEF NULL
  <2> QED
    BY <2>1, <2>2 DEF Precedes
<1>14. MayInsert(h, e, c)
  BY <1>0 DEF MayInsert, FreeOf, UsedOf, CHUNK_FREE, CHUNK_USED
<1> QED
  BY <1>3, <1>8, <1>11, <1>12, <1>13, <1>14 DEF m

----------------------------------------------------------------------------
(* Allocation from a free chunk.                                           *)

\* A number in the lower half of its range is not changed by the conversion.
LEMMA SignedSmall ==
    ASSUME NEW n \in Nat, NEW range \in Nat, n < range \div 2
    PROVE  Signed(n, range) = n
<1>1. n % range = n
  OBVIOUS
<1> QED
  BY <1>1 DEF Signed

\* So it is with spans that fit in the heap.
LEMMA SpanAsInt ==
    ASSUME NEW n \in Nat, n <= MaxUnits
    PROVE  Signed(n, INT) = n
<1>1. INT \in Nat /\ MaxUnits \in Nat /\ 2 * MaxUnits < INT /\ INT % 2 = 0
  BY HeapAssumption
<1>2. MaxUnits < INT \div 2
  BY <1>1
<1>3. n < INT \div 2
  BY <1>1, <1>2
<1> QED
  BY <1>1, <1>3, SignedSmall

\* h2, with the chunks D, is h after the chunk at was handed out, with need units of
\* payload.
Taken(h, h2, C, D, at, need) ==
    /\ Good(h2, D) /\ C \in SUBSET D
    /\ UsedOf(h2, D) = UsedOf(h, C) \cup {at} /\ at \in D /\ at \notin UsedOf(h, C)
    /\ span(h2, at) = need + 1
    /\ Writes(h, h2, FreeOf(h, C) \cup {at}) /\ h2.hi = h.hi

\* A chunk that just fits leaves the list.
LEMMA Detach ==
    ASSUME NEW h, NEW C, Good(h, C), NEW c \in FreeOf(h, C), NEW p, Precedes(h, C, p, c)
    PROVE  Taken(h, freelist_detach(h, p, c), C, C, c, span(h, c) - 1)
<1> DEFINE F  == FreeOf(h, C)
           ha == IF p = NULL THEN [h EXCEPT !.head = next(h, c)] ELSE set_next(h, p, next(h, c))
           hb == set_next(ha, c, NULL)
           h2 == set_status(hb, c, CHUNK_USED)
<1>0. /\ h \in Memory /\ Tiled(h, C) /\ Headed(h, C) /\ Chained(h, C) /\ Apart(h, C, {})
      /\ c \in C /\ c \in Units /\ c \in Nat /\ next(h, c) \in Units \cup {NULL}
      /\ status(h, c) = CHUNK_FREE /\ span(h, c) \in Nat
      /\ \A d \in F : d \in C /\ d \in Nat /\ d \in Units
  <2>1. h \in Memory /\ Tiled(h, C) /\ Headed(h, C) /\ Chained(h, C) /\ Apart(h, C, {})
    BY DEF Good, Shaped, Lined
  <2> QED
    BY <2>1, InUnits DEF FreeOf
<1>1. /\ p = NULL => h.head = c /\ \A d \in F : c <= d
      /\ p # NULL => /\ p \in F /\ next(h, p) = c /\ p < c /\ p \in Units /\ p \in Nat
                     /\ \A d \in F : d <= p \/ c <= d
  <2>1. p = NULL => h.head = c /\ \A d \in F : c <= d
    BY <1>0, Constants DEF Precedes, Headed
  <2>2. p # NULL => p \in F /\ next(h, p) = c
    BY DEF Precedes
  <2>3. c # NULL
    BY <1>0 DEF NULL
  <2>4. p # NULL => p < c /\ \A d \in F : d <= p \/ c <= d
    BY <1>0, <2>2, <2>3 DEF Chained
  <2> QED
    BY <1>0, <2>1, <2>2, <2>4
<1>2. /\ ha \in Memory /\ ha.hi = h.hi /\ Writes(h, ha, F \ {c})
      /\ ha.head = IF p = NULL THEN next(h, c) ELSE h.head
      /\ p # NULL => /\ status(ha, p) = status(h, p) /\ span(ha, p) = span(h, p)
                     /\ next(ha, p) = next(h, c)
      /\ \A x \in Units : x # p =>
            status(ha, x) = status(h, x) /\ span(ha, x) = span(h, x) /\ next(ha, x) = next(h, x)
  <2>1. CASE p = NULL
    <3>1. ha = [h EXCEPT !.head = next(h, c)]
      BY <2>1
    <3> HIDE DEF ha
    <3>2. ha \in Memory /\ ha.hi = h.hi /\ ha.hdr = h.hdr /\ ha.head = next(h, c)
      BY <1>0, <3>1, NewHead
    <3> QED
      BY <2>1, <3>2 DEF Writes, status, span, next
  <2>2. CASE p # NULL
    <3>1. ha = set_next(h, p, next(h, c))
      BY <2>2
    <3> HIDE DEF ha
    <3>2. /\ ha \in Memory /\ ha.hi = h.hi /\ ha.head = h.head /\ Writes(h, ha, {p})
          /\ status(ha, p) = status(h, p) /\ span(ha, p) = span(h, p)
          /\ next(ha, p) = next(h, c)
      BY <1>0, <1>1, <2>2, <3>1, SetNext
    <3>3. \A x \in Units : x # p =>
             status(ha, x) = status(h, x) /\ span(ha, x) = span(h, x) /\ next(ha, x) = next(h, x)
      BY <3>2, Unwritten
    <3>4. Writes(h, ha, F \ {c})
      BY <1>0, <1>1, <2>2, <3>2 DEF Writes
    <3> QED
      BY <2>2, <3>2, <3>3, <3>4
  <2> QED
    BY <2>1, <2>2
<1> HIDE DEF ha
<1>3. /\ h2 \in Memory /\ h2.hi = h.hi /\ h2.head = ha.head /\ Writes(ha, h2, {c})
      /\ status(h2, c) = CHUNK_USED /\ span(h2, c) = span(h, c)
  <2>1. /\ hb \in Memory /\ hb.hi = ha.hi /\ hb.head = ha.head /\ Writes(ha, hb, {c})
        /\ span(hb, c) = span(ha, c)
    <3>1. ha \in Memory /\ c \in Units /\ NULL \in Units \cup {NULL}
      BY <1>0, <1>2
    <3> QED
      BY <3>1, SetNext
  <2> HIDE DEF hb
  <2>2. /\ h2 \in Memory /\ h2.hi = hb.hi /\ h2.head = hb.head /\ Writes(hb, h2, {c})
        /\ status(h2, c) = CHUNK_USED /\ span(h2, c) = span(hb, c)
    BY <1>0, <2>1, SetStatus
  <2> HIDE DEF h2
  <2>3. span(ha, c) = span(h, c)
    <3>1. p # c
      BY <1>0, <1>1 DEF NULL
    <3> QED
      BY <1>0, <1>2, <3>1
  <2>4. Writes(ha, h2, {c})
    BY <2>1, <2>2 DEF Writes
  <2> QED
    BY <1>2, <2>1, <2>2, <2>3, <2>4
<1>4. freelist_detach(h, p, c) = h2
  BY DEF freelist_detach, ha
<1> HIDE DEF h2, hb
<1>5. \A x \in C \ {c} : /\ status(h2, x) = status(h, x) /\ span(h2, x) = span(h, x)
                         /\ next(h2, x) = IF x = p THEN next(h, c) ELSE next(h, x)
  <2> SUFFICES ASSUME NEW x \in C \ {c}
               PROVE  /\ status(h2, x) = status(h, x) /\ span(h2, x) = span(h, x)
                      /\ next(h2, x) = IF x = p THEN next(h, c) ELSE next(h, x)
    OBVIOUS
  <2>1. x \in Units \ {c} /\ x # NULL
    BY <1>0, InUnits DEF NULL
  <2>2. status(h2, x) = status(ha, x) /\ span(h2, x) = span(ha, x) /\ next(h2, x) = next(ha, x)
    BY <1>3, <2>1, Unwritten
  <2> QED
    BY <1>2, <2>1, <2>2
<1>6. FreeOf(h2, C) = F \ {c} /\ UsedOf(h2, C) = UsedOf(h, C) \cup {c}
  BY <1>0, <1>3, <1>5 DEF FreeOf, UsedOf, CHUNK_FREE, CHUNK_USED
<1>7. Tiled(h2, C)
  <2>1. \A x \in C : span(h2, x) = span(h, x)
    BY <1>3, <1>5
  <2>2. Tiled(h, C) /\ h2.hi = h.hi
    BY <1>0, <1>3
  <2> QED
    BY <2>1, <2>2, SameSpans
<1>8. IF next(h, c) = NULL THEN \A d \in F : d <= c
      ELSE next(h, c) \in F /\ c < next(h, c) /\ \A d \in F : d <= c \/ next(h, c) <= d
  BY <1>0 DEF Chained
<1>9. Headed(h2, C)
  <2>1. CASE p = NULL
    <3>1. h2.head = next(h, c) /\ \A d \in F : c <= d
      BY <1>1, <1>2, <1>3, <2>1
    <3>2. next(h, c) = NULL => F \ {c} = {}
      <4> SUFFICES ASSUME next(h, c) = NULL, NEW d \in F \ {c} PROVE FALSE
        OBVIOUS
      <4>1. d <= c /\ c <= d /\ d \in Nat
        BY <1>0, <1>8, <3>1
      <4> QED
        BY <1>0, <4>1
    <3>3. next(h, c) # NULL => next(h, c) \in F \ {c} /\ \A d \in F \ {c} : next(h, c) <= d
      BY <1>0, <1>8, <3>1
    <3> QED
      BY <1>6, <3>1, <3>2, <3>3 DEF Headed
  <2>2. CASE p # NULL
    <3>1. h2.head = h.head /\ p \in F /\ p < c /\ p \in Nat
      BY <1>1, <1>2, <1>3, <2>2
    <3>2. h.head \in F /\ \A d \in F : h.head <= d
      BY <1>0, <3>1 DEF Headed
    <3>3. h.head # c /\ h.head # NULL
      <4>1. h.head \in Nat /\ h.head <= p
        BY <1>0, <3>1, <3>2
      <4> QED
        BY <1>0, <3>1, <4>1 DEF NULL
    <3> QED
      BY <1>6, <3>1, <3>2, <3>3 DEF Headed
  <2> QED
    BY <2>1, <2>2
<1>10. Chained(h2, C)
  <2> SUFFICES ASSUME NEW x \in F \ {c}
               PROVE  IF next(h2, x) = NULL THEN \A d \in F \ {c} : d <= x
                      ELSE /\ next(h2, x) \in F \ {c} /\ x < next(h2, x)
                           /\ \A d \in F \ {c} : d <= x \/ next(h2, x) <= d
    BY <1>6 DEF Chained
  <2>1. x \in C \ {c} /\ x \in Nat
    BY <1>0
  <2>2. CASE x = p
    <3>1. next(h2, x) = next(h, c) /\ x < c /\ \A d \in F : d <= x \/ c <= d
      <4>1. p # NULL
        BY <2>1, <2>2 DEF NULL
      <4> QED
        BY <1>1, <1>5, <2>1, <2>2, <4>1
    <3>2. \A d \in F \ {c} : d \in Nat /\ (d <= c => d <= x)
      BY <1>0, <3>1
    <3>3. next(h, c) # NULL => next(h, c) \in F \ {c} /\ x < next(h, c)
      <4> SUFFICES ASSUME next(h, c) # NULL PROVE next(h, c) \in F \ {c} /\ x < next(h, c)
        OBVIOUS
      <4>1. next(h, c) \in F /\ c < next(h, c)
        BY <1>8
      <4>2. next(h, c) \in Nat /\ c \in Nat /\ x \in Nat /\ x < c
        BY <1>0, <2>1, <3>1, <4>1
      <4> QED
        BY <4>1, <4>2
    <3> HIDE DEF F
    <3> QED
      BY <1>8, <3>1, <3>2, <3>3
  <2>3. CASE x # p
    <3>1. next(h2, x) = next(h, x)
      BY <1>5, <2>1, <2>3
    <3>2. IF next(h, x) = NULL THEN \A d \in F : d <= x
          ELSE next(h, x) \in F /\ x < next(h, x) /\ \A d \in F : d <= x \/ next(h, x) <= d
      BY <1>0 DEF Chained
    <3>3. next(h, x) # c
      <4> SUFFICES ASSUME next(h, x) = c PROVE FALSE
        OBVIOUS
      <4>1. x < c /\ \A d \in F : d <= x \/ c <= d
        BY <1>0, <3>2 DEF NULL
      <4>2. p # NULL
        BY <1>0, <1>1, <2>1, <4>1
      <4>3. p \in F /\ p \in Nat /\ p < c /\ (x <= p \/ c <= x)
        BY <1>1, <4>2
      <4>4. p <= x
        BY <1>0, <4>1, <4>3
      <4> QED
        BY <1>0, <2>1, <2>3, <4>1, <4>3, <4>4
    <3> QED
      BY <3>1, <3>2, <3>3
  <2> QED
    BY <2>2, <2>3
<1>11. Apart(h2, C, {})
  BY <1>0, <1>5, <1>6 DEF Apart
<1>12. Writes(h, h2, F \cup {c})
  BY <1>2, <1>3 DEF Writes
<1>13. c \notin UsedOf(h, C) /\ span(h2, c) = (span(h, c) - 1) + 1
  BY <1>0, <1>3 DEF UsedOf, CHUNK_FREE, CHUNK_USED
<1> QED
  BY <1>0, <1>3, <1>4, <1>6, <1>7, <1>9, <1>10, <1>11, <1>12, <1>13
  DEF Taken, Good, Shaped, Lined

\* A larger one keeps its place, and the allocated chunk is cut from its end.
LEMMA Split ==
    ASSUME NEW h, NEW C, Good(h, C), NEW c \in FreeOf(h, C),
           NEW need \in Nat, need < span(h, c) - 1
    PROVE  LET at == c + RemainSpan(h, c, need)
           IN  /\ RemainSpan(h, c, need) > 0
               /\ Taken(h, split_for_alloc(h, c, need), C, C \cup {at}, at, need)
<1> DEFINE F  == FreeOf(h, C)
           r  == RemainSpan(h, c, need)
           at == c + r
           h1 == set_span(h, c, r)
           h2 == set_span(h1, at, Signed(1 + need, INT))
           h3 == set_status(h2, at, CHUNK_USED)
           h4 == set_next(h3, at, next(h, c))
           D  == C \cup {at}
<1>0. /\ h \in Memory /\ Tiled(h, C) /\ Headed(h, C) /\ Chained(h, C) /\ Apart(h, C, {})
      /\ c \in C /\ c \in Units /\ c \in Nat /\ next(h, c) \in Units \cup {NULL}
      /\ status(h, c) = CHUNK_FREE /\ span(h, c) \in Nat
      /\ h.hi \in Nat /\ h.hi <= MaxUnits /\ c + span(h, c) <= h.hi
      /\ \A x \in C : x \in Nat /\ x \in Units /\ x < h.hi /\ span(h, x) \in Nat /\ span(h, x) > 0
  <2>1. h \in Memory /\ Tiled(h, C) /\ Headed(h, C) /\ Chained(h, C) /\ Apart(h, C, {})
    BY DEF Good, Shaped, Lined
  <2>2. /\ c \in C /\ c \in Units /\ c \in Nat /\ next(h, c) \in Units \cup {NULL}
        /\ status(h, c) = CHUNK_FREE /\ span(h, c) \in Nat
        /\ h.hi \in Nat /\ h.hi <= MaxUnits
        /\ \A x \in C : x \in Nat /\ x \in Units /\ x < h.hi /\ span(h, x) \in Nat /\ span(h, x) > 0
    BY <2>1, InUnits DEF FreeOf
  <2>3. c + span(h, c) \in C \cup {h.hi}
    BY <2>1, <2>2 DEF Tiled
  <2>4. c + span(h, c) <= h.hi
    BY <2>2, <2>3
  <2> QED
    BY <2>1, <2>2, <2>4
<1>1. /\ Signed(1 + need, INT) = 1 + need /\ r = span(h, c) - (1 + need)
      /\ r \in Nat /\ r > 0 /\ at \in Nat /\ c < at /\ at < h.hi
      /\ at + (1 + need) = c + span(h, c)
  <2>1. 1 + need \in Nat /\ 1 + need <= MaxUnits
    BY <1>0, Constants
  <2>2. Signed(1 + need, INT) = 1 + need
    BY <2>1, SpanAsInt
  <2>3. r = span(h, c) - (1 + need)
    BY <2>2 DEF RemainSpan
  <2> HIDE DEF r
  <2> QED
    BY <1>0, <2>2, <2>3
<1> HIDE DEF r, at
<1>2. at \in Units /\ at \notin C /\ at # c
  <2>1. at \in Units
    BY <1>0, <1>1, Constants
  <2>2. at \in C => c + span(h, c) <= at
    BY <1>0, <1>1 DEF Tiled
  <2> QED
    BY <1>0, <1>1, <2>1, <2>2
<1>3. /\ h4 \in Memory /\ h4.hi = h.hi /\ h4.head = h.head /\ Writes(h, h4, {c, at})
      /\ status(h4, c) = CHUNK_FREE /\ span(h4, c) = r /\ next(h4, c) = next(h, c)
      /\ status(h4, at) = CHUNK_USED /\ span(h4, at) = 1 + need
  <2>1. /\ h1 \in Memory /\ h1.hi = h.hi /\ h1.head = h.head /\ Writes(h, h1, {c})
        /\ status(h1, c) = CHUNK_FREE /\ span(h1, c) = r /\ next(h1, c) = next(h, c)
    BY <1>0, <1>1, SetSpan
  <2> HIDE DEF h1
  <2>2. /\ h2 \in Memory /\ h2.hi = h.hi /\ h2.head = h.head /\ Writes(h1, h2, {at})
        /\ span(h2, at) = 1 + need
    <3>1. h2 = set_span(h1, at, 1 + need) /\ 1 + need \in Nat /\ at \in Units
      BY <1>1, <1>2
    <3> HIDE DEF h2
    <3> QED
      BY <2>1, <3>1, SetSpan
  <2> HIDE DEF h2
  <2>3. /\ h3 \in Memory /\ h3.hi = h.hi /\ h3.head = h.head /\ Writes(h2, h3, {at})
        /\ status(h3, at) = CHUNK_USED /\ span(h3, at) = 1 + need
    BY <1>2, <2>2, SetStatus
  <2> HIDE DEF h3
  <2>4. /\ h4 \in Memory /\ h4.hi = h.hi /\ h4.head = h.head /\ Writes(h3, h4, {at})
        /\ status(h4, at) = CHUNK_USED /\ span(h4, at) = 1 + need
    BY <1>0, <1>2, <2>3, SetNext
  <2> HIDE DEF h4
  <2>5. Writes(h1, h4, {at}) /\ Writes(h, h4, {c, at})
    BY <2>1, <2>2, <2>3, <2>4 DEF Writes
  <2>6. status(h4, c) = status(h1, c) /\ span(h4, c) = span(h1, c) /\ next(h4, c) = next(h1, c)
    BY <1>0, <1>2, <2>5, Unwritten
  <2> QED
    BY <2>1, <2>4, <2>5, <2>6
<1>4. split_for_alloc(h, c, need) = h4
  BY DEF split_for_alloc, r, at
<1> HIDE DEF h1, h2, h3, h4
<1>5. \A x \in C \ {c} : /\ status(h4, x) = status(h, x) /\ span(h4, x) = span(h, x)
                         /\ next(h4, x) = next(h, x)
  BY <1>0, <1>2, <1>3, Unwritten
<1>6. FreeOf(h4, D) = F /\ UsedOf(h4, D) = UsedOf(h, C) \cup {at}
  BY <1>0, <1>2, <1>3, <1>5 DEF FreeOf, UsedOf, CHUNK_FREE, CHUNK_USED
<1>7. Tiled(h4, D)
  <2>1. \A x \in D : x \in 0 .. h4.hi - 1
    BY <1>0, <1>1, <1>3
  <2>2. h4.hi > 0 => 0 \in D
    BY <1>0, <1>3 DEF Tiled
  <2>3. ASSUME NEW x \in D PROVE span(h4, x) > 0 /\ x + span(h4, x) \in D \cup {h4.hi}
    <3>1. CASE x = c
      <4>1. c + span(h4, c) = at /\ span(h4, c) > 0
        BY <1>1, <1>3 DEF at
      <4> QED
        BY <3>1, <4>1
    <3>2. CASE x = at
      <4>1. c + span(h, c) \in C \cup {h.hi}
        BY <1>0 DEF Tiled
      <4> QED
        BY <1>1, <1>3, <3>2, <4>1
    <3>3. CASE x \in C \ {c}
      <4>1. span(h, x) > 0 /\ x + span(h, x) \in C \cup {h.hi}
        BY <1>0, <3>3 DEF Tiled
      <4> QED
        BY <1>3, <1>5, <3>3, <4>1
    <3> QED
      BY <3>1, <3>2, <3>3
  <2>4. ASSUME NEW x \in D, NEW y \in D, x < y PROVE x + span(h4, x) <= y
    <3>0. ASSUME NEW u \in C, NEW v \in C, u < v PROVE u + span(h, u) <= v
      BY <1>0, <3>0 DEF Tiled
    <3>1. CASE x = c
      <4>1. c + span(h4, c) = at
        BY <1>1, <1>3 DEF at
      <4>2. y \in C => c + span(h, c) <= y
        BY <1>0, <2>4, <3>0, <3>1
      <4>3. y \in Nat /\ (y = at \/ y \in C)
        BY <1>0, <1>1
      <4> QED
        BY <1>0, <1>1, <3>1, <4>1, <4>2, <4>3
    <3>2. CASE x = at
      <4>1. y \in C /\ c < y
        BY <1>0, <1>1, <2>4, <3>2
      <4>2. c + span(h, c) <= y
        BY <1>0, <3>0, <4>1
      <4> QED
        BY <1>1, <1>3, <3>2, <4>2
    <3>3. CASE x \in C \ {c}
      <4>1. CASE y \in C
        BY <1>5, <2>4, <3>0, <3>3, <4>1
      <4>2. CASE y = at
        <5>1. x < c \/ c < x
          BY <1>0, <3>3
        <5>2. c < x => c + span(h, c) <= x
          BY <1>0, <3>0, <3>3
        <5>3. x < c
          BY <1>0, <1>1, <2>4, <3>3, <4>2, <5>1, <5>2
        <5>4. x + span(h, x) <= c /\ span(h4, x) = span(h, x)
          BY <1>0, <1>5, <3>0, <3>3, <5>3
        <5> QED
          BY <1>0, <1>1, <3>3, <4>2, <5>4
      <4> QED
        BY <4>1, <4>2
    <3> QED
      BY <3>1, <3>2, <3>3
  <2> QED
    BY <2>1, <2>2, <2>3, <2>4 DEF Tiled
<1>8. Headed(h4, D)
  BY <1>0, <1>3, <1>6 DEF Headed
<1>9. Chained(h4, D)
  <2>1. \A x \in F : next(h4, x) = next(h, x)
    BY <1>3, <1>5 DEF FreeOf
  <2> QED
    BY <1>0, <1>6, <2>1 DEF Chained
<1>10. Apart(h4, D, {})
  <2>1. ASSUME NEW x \in F PROVE x + span(h4, x) \notin F
    <3>1. CASE x = c
      <4>1. c + span(h4, c) = at
        BY <1>1, <1>3 DEF at
      <4> QED
        BY <1>2, <3>1, <4>1 DEF FreeOf
    <3>2. CASE x # c
      <4>1. x \in C \ {c}
        BY <3>2 DEF FreeOf
      <4> QED
        BY <1>0, <1>5, <4>1 DEF Apart
    <3> QED
      BY <3>1, <3>2
  <2> QED
    BY <1>6, <2>1 DEF Apart
<1>11. Writes(h, h4, F \cup {at})
  BY <1>3 DEF Writes
<1>12. at \notin UsedOf(h, C)
  BY <1>2 DEF UsedOf
<1>13. Taken(h, h4, C, D, at, need)
  <2>1. C \in SUBSET D /\ at \in D /\ span(h4, at) = need + 1
    BY <1>3
  <2> HIDE DEF D, F
  <2> QED
    BY <1>3, <1>6, <1>7, <1>8, <1>9, <1>10, <1>11, <1>12, <2>1
    DEF Taken, Good, Shaped, Lined, F
<1> QED
  BY <1>1, <1>4, <1>13 DEF r, at

----------------------------------------------------------------------------
(* Growth, and what is left after a call.                                  *)

\* The heap grows by one used chunk at its end.
LEMMA Grows ==
    ASSUME NEW h, NEW C, Good(h, C), NEW g \in Nat \ {0},
           NewBreak(h, g) = h.hi + g, h.hi + g <= MaxUnits
    PROVE  LET h2 == Fresh(h, g)
               D  == C \cup {h.hi}
           IN  /\ Good(h2, D) /\ h.hi \in Units \ C
               /\ FreeOf(h2, D) = FreeOf(h, C) /\ UsedOf(h2, D) = UsedOf(h, C) \cup {h.hi}
               /\ Writes(h, h2, {h.hi}) /\ h2.head = h.head /\ h2.hi = h.hi + g
               /\ span(h2, h.hi) = g /\ \A x \in C : next(h2, x) = next(h, x)
<1> DEFINE h2 == Fresh(h, g)
           c  == h.hi
           D  == C \cup {c}
<1>0. /\ h \in Memory /\ Tiled(h, C) /\ Headed(h, C) /\ Chained(h, C) /\ Apart(h, C, {})
      /\ c \in Nat /\ c \in Units /\ c \notin C /\ c + g \in 0 .. MaxUnits
      /\ \A x \in C : x \in Nat /\ x \in Units /\ x < c /\ span(h, x) \in Nat /\ span(h, x) > 0
  <2>1. h \in Memory /\ Tiled(h, C) /\ Headed(h, C) /\ Chained(h, C) /\ Apart(h, C, {})
    BY DEF Good, Shaped, Lined
  <2>2. /\ c \in Nat
        /\ \A x \in C : x \in Nat /\ x \in Units /\ x < c /\ span(h, x) \in Nat /\ span(h, x) > 0
    BY <2>1, InUnits
  <2>3. c \in Units /\ c \notin C /\ c + g \in 0 .. MaxUnits
    BY <2>2, Constants
  <2> QED
    BY <2>1, <2>2, <2>3
<1>1. Signed(g, INT) = g
  BY <1>0, SpanAsInt, Constants
<1> DEFINE new == [status |-> CHUNK_USED, span |-> g, next |-> NULL]
<1>2. /\ h2 \in Memory /\ h2.hi = c + g /\ h2.head = h.head /\ h2.hdr[c] = new
      /\ Writes(h, h2, {c})
  <2>1. h2 = [h EXCEPT !.hi = c + g, !.hdr[c] = new]
    BY <1>1 DEF Fresh
  <2>2. new \in Header
    BY DEF Header
  <2>3. h2 = [hdr |-> [h.hdr EXCEPT ![c] = new], hi |-> c + g, head |-> h.head]
    BY <1>0, <2>1 DEF Memory
  <2> HIDE DEF h2, new
  <2> QED
    BY <1>0, <2>2, <2>3 DEF Memory, Writes
<1> HIDE DEF h2
<1>3. status(h2, c) = CHUNK_USED /\ span(h2, c) = g
  BY <1>2 DEF status, span
<1>4. \A x \in C : status(h2, x) = status(h, x) /\ span(h2, x) = span(h, x)
                   /\ next(h2, x) = next(h, x)
  BY <1>0, <1>2, Unwritten
<1> HIDE DEF new
<1>5. FreeOf(h2, D) = FreeOf(h, C) /\ UsedOf(h2, D) = UsedOf(h, C) \cup {c}
  BY <1>0, <1>3, <1>4 DEF FreeOf, UsedOf, CHUNK_FREE, CHUNK_USED
<1>6. Tiled(h2, D)
  <2>1. \A x \in D : x \in 0 .. h2.hi - 1
    BY <1>0, <1>2
  <2>2. 0 \in D
    BY <1>0 DEF Tiled
  <2>3. ASSUME NEW x \in D PROVE span(h2, x) > 0 /\ x + span(h2, x) \in D \cup {h2.hi}
    <3>1. CASE x = c
      BY <1>2, <1>3, <3>1
    <3>2. CASE x \in C
      <4>1. span(h, x) > 0 /\ x + span(h, x) \in C \cup {c}
        BY <1>0 , <3>2 DEF Tiled
      <4> QED
        BY <1>4, <3>2, <4>1
    <3> QED
      BY <3>1, <3>2
  <2>4. ASSUME NEW x \in D, NEW y \in D, x < y PROVE x + span(h2, x) <= y
    <3>1. x \in C
      BY <1>0, <2>4
    <3>2. CASE y \in C
      BY <1>0, <1>4, <2>4, <3>1, <3>2 DEF Tiled
    <3>3. CASE y = c
      <4>1. x + span(h, x) \in C \cup {c}
        BY <1>0, <3>1 DEF Tiled
      <4> QED
        BY <1>0, <1>4, <3>1, <3>3, <4>1
    <3> QED
      BY <3>2, <3>3
  <2> QED
    BY <2>1, <2>2, <2>3, <2>4 DEF Tiled
<1>7. Headed(h2, D)
  BY <1>0, <1>2, <1>5 DEF Headed
<1>8. Chained(h2, D)
  <2>1. \A x \in FreeOf(h, C) : next(h2, x) = next(h, x)
    BY <1>4 DEF FreeOf
  <2> QED
    BY <1>0, <1>5, <2>1 DEF Chained
<1>9. Apart(h2, D, {})
  <2>1. \A x \in FreeOf(h, C) : span(h2, x) = span(h, x)
    BY <1>4 DEF FreeOf
  <2> QED
    BY <1>0, <1>5, <2>1 DEF Apart
<1>10. Good(h2, D)
  BY <1>2, <1>6, <1>7, <1>8, <1>9 DEF Good, Shaped, Lined
<1> QED
  BY <1>0, <1>2, <1>3, <1>4, <1>5, <1>10 DEF h2

\* What Settle blanks is no header of a chunk.
LEMMA SettleKeeps ==
    ASSUME NEW h, NEW C, Good(h, C), NEW bs
    PROVE  LET h2 == Settle(h, bs)
           IN  /\ Good(h2, C) /\ h2.hi = h.hi
               /\ FreeOf(h2, C) = FreeOf(h, C) /\ UsedOf(h2, C) = UsedOf(h, C)
               /\ \A u \in C : h2.hdr[u] = h.hdr[u]
               /\ \A b \in bs : \A u \in Payload(b) : h2.hdr[u] = h.hdr[u]
<1> DEFINE h2   == Settle(h, bs)
           kept == C \cup UNION {Payload(b) : b \in bs}
<1>0. /\ h \in Memory /\ Tiled(h, C) /\ Headed(h, C) /\ Chained(h, C) /\ Apart(h, C, {})
      /\ \A x \in C : x \in Units
  <2>1. h \in Memory /\ Tiled(h, C) /\ Headed(h, C) /\ Chained(h, C) /\ Apart(h, C, {})
    BY DEF Good, Shaped, Lined
  <2> QED
    BY <2>1, InUnits
<1>1. h2 = [h EXCEPT !.hdr = [u \in Units |-> IF u \in kept THEN h.hdr[u] ELSE Blank]]
  BY <1>0, ChunksAre DEF Settle
<1> HIDE DEF h2
<1>2. \A b \in bs : \A u \in Payload(b) : u \in kept /\ u \in Units
  BY DEF Payload
<1> HIDE DEF kept
<1>3. /\ h2 \in Memory /\ h2.hi = h.hi /\ h2.head = h.head
      /\ \A u \in Units : u \in kept => h2.hdr[u] = h.hdr[u]
  <2>1. h2 = [hdr |-> [u \in Units |-> IF u \in kept THEN h.hdr[u] ELSE Blank],
              hi |-> h.hi, head |-> h.head]
    BY <1>0, <1>1 DEF Memory
  <2>2. \A u \in Units : h.hdr[u] \in Header
    BY <1>0 DEF Memory
  <2>3. [u \in Units |-> IF u \in kept THEN h.hdr[u] ELSE Blank] \in [Units -> Header]
    BY <2>2, Constants
  <2> QED
    BY <1>0, <2>1, <2>3 DEF Memory
<1>4. \A u \in C : h2.hdr[u] = h.hdr[u]
  BY <1>0, <1>3 DEF kept
<1>5. \A u \in C : /\ status(h2, u) = status(h, u) /\ span(h2, u) = span(h, u)
                   /\ next(h2, u) = next(h, u)
  BY <1>4 DEF status, span, next
<1>6. FreeOf(h2, C) = FreeOf(h, C) /\ UsedOf(h2, C) = UsedOf(h, C)
  BY <1>5 DEF FreeOf, UsedOf
<1>7. Tiled(h2, C)
  BY <1>0, <1>3, <1>5, SameSpans
<1>8. Headed(h2, C)
  BY <1>0, <1>3, <1>6 DEF Headed
<1>9. Chained(h2, C) /\ Apart(h2, C, {})
  <2>1. \A u \in FreeOf(h, C) : span(h2, u) = span(h, u) /\ next(h2, u) = next(h, u)
    BY <1>5 DEF FreeOf
  <2> QED
    BY <1>0, <1>6, <2>1 DEF Chained, Apart
<1>10. Good(h2, C)
  BY <1>3, <1>7, <1>8, <1>9 DEF Good, Shaped, Lined
<1> QED
  BY <1>2, <1>3, <1>4, <1>6, <1>10 DEF h2

----------------------------------------------------------------------------
(* The invariant.                                                          *)

\* No size asked for is so large that a sum wraps, or that the number of bytes
\* passed to sbrk counts as negative.
SizesFit ==
    \A size \in Sizes :
        /\ size + CHUNK_UNIT - 1 < SIZE_T
        /\ GrowSpan(bytes_to_payload_units(size)) < (SIZE_T \div CHUNK_UNIT) \div 2

\* The client's blocks are the chunks at U, each with the units its size takes.
Clients(h, U, bs) ==
    /\ \A b \in bs : b \in [at : Units, size : Sizes]
    /\ U = {b.at : b \in bs}
    /\ \A a, b \in bs : a.at = b.at => a = b
    /\ \A b \in bs : span(h, b.at) = bytes_to_payload_units(b.size) + 1

InOrder(h, C, bs) == Good(h, C) /\ Clients(h, UsedOf(h, C), bs)

\* The inductive invariant.
IInv == ~aborted /\ InOrder(heap, Chunks(heap), live)

\* The units a size takes and the growth for them, when nothing wraps.
LEMMA UnitsOfSize ==
    ASSUME SizesFit, NEW size \in Sizes
    PROVE  LET need == bytes_to_payload_units(size)
           IN  /\ need \in Nat /\ need * CHUNK_UNIT >= size
               /\ need = (size + CHUNK_UNIT - 1) \div CHUNK_UNIT
               /\ GrowSpan(need) \in Nat \ {0} /\ need < GrowSpan(need)
               /\ \A h : NewBreak(h, GrowSpan(need)) = h.hi + GrowSpan(need)
<1> DEFINE n    == size + CHUNK_UNIT - 1
           need == bytes_to_payload_units(size)
           g    == GrowSpan(need)
<1>1. /\ CHUNK_UNIT \in Nat \ {0} /\ SIZE_T \in Nat /\ SYS_MIN_ALLOC_UNITS \in Nat
      /\ size \in Nat \ {0} /\ n \in Nat /\ n < SIZE_T
  BY HeapAssumption DEF SizesFit
<1>2. need = n \div CHUNK_UNIT
  <2>1. n % SIZE_T = n
    BY <1>1
  <2> QED
    BY <2>1 DEF bytes_to_payload_units
<1> HIDE DEF n, need
<1>3. need \in Nat /\ n < (need + 1) * CHUNK_UNIT
  BY <1>1, <1>2
<1>4. need * CHUNK_UNIT >= size
  <2>1. (need + 1) * CHUNK_UNIT = need * CHUNK_UNIT + CHUNK_UNIT /\ need * CHUNK_UNIT \in Nat
    BY <1>1, <1>3
  <2> HIDE DEF need
  <2> QED
    BY <1>1, <1>3, <2>1 DEF n
<1>5. g \in Nat \ {0} /\ need < g
  BY <1>1, <1>3 DEF GrowSpan
<1>6. SIZE_T \div CHUNK_UNIT \in Nat /\ g < (SIZE_T \div CHUNK_UNIT) \div 2
  BY <1>1 DEF SizesFit, need
<1> HIDE DEF g
<1>7. Signed(g, SIZE_T \div CHUNK_UNIT) = g
  BY <1>5, <1>6, SignedSmall
<1>8. \A h : NewBreak(h, g) = h.hi + g
  BY <1>7 DEF NewBreak
<1> QED
  BY <1>2, <1>3, <1>4, <1>5, <1>8 DEF n, need, g

\* What the client may write lies inside of its chunk, behind the header.
LEMMA PayloadInside ==
    ASSUME SizesFit, NEW h \in Memory, NEW C, Tiled(h, C), NEW U \in SUBSET C,
           NEW bs, Clients(h, U, bs), NEW b \in bs, NEW u \in Payload(b)
    PROVE  u \in Units /\ u \notin C /\ u < h.hi
<1>1. /\ b.at \in C /\ b.at \in Nat /\ b.size \in Sizes
      /\ span(h, b.at) = bytes_to_payload_units(b.size) + 1
      /\ \A x \in C : x \in Nat /\ span(h, x) \in Nat
      /\ h.hi \in Nat
  <2>1. b.at \in U /\ b.size \in Sizes
        /\ span(h, b.at) = bytes_to_payload_units(b.size) + 1
    BY DEF Clients
  <2> QED
    BY <2>1, InUnits
<1>2. u \in Units /\ u \in b.at + 1 .. b.at + bytes_to_payload_units(b.size)
  BY <1>1, UnitsOfSize DEF Payload
<1>3. u \in Nat /\ b.at < u /\ u < b.at + span(h, b.at)
  BY <1>1, <1>2, UnitsOfSize, Constants
<1>4. u \notin C
  BY <1>1, <1>3 DEF Tiled
<1>5. b.at + span(h, b.at) <= h.hi
  <2>1. b.at + span(h, b.at) \in C \cup {h.hi} /\ \A x \in C : x < h.hi
    BY <1>1, InUnits DEF Tiled
  <2> QED
    BY <1>1, <2>1
<1> QED
  BY <1>1, <1>2, <1>3, <1>4, <1>5

\* The blocks in bs keep their spans and what the client wrote in them.
Kept(h, h2, bs) ==
    \A b \in bs : /\ span(h2, b.at) = span(h, b.at)
                  /\ \A u \in Payload(b) : h2.hdr[u] = h.hdr[u]

\* Blocks kept by one change and by the next are kept by both.
LEMMA KeptOn ==
    ASSUME NEW h, NEW h2, NEW h3, NEW bs, Kept(h, h2, bs), Kept(h2, h3, bs)
    PROVE  Kept(h, h3, bs)
BY DEF Kept

\* Another set of chunks that are the client's with the same spans.
LEMMA SameClients ==
    ASSUME NEW h, NEW h2, NEW U, NEW bs, Clients(h, U, bs),
           \A b \in bs : span(h2, b.at) = span(h, b.at)
    PROVE  Clients(h2, U, bs)
BY DEF Clients

\* Freeing c leaves the other blocks in order.
LEMMA GivenBack ==
    ASSUME SizesFit, NEW h, NEW C, Good(h, C), NEW c \in UsedOf(h, C), NEW bs,
           Clients(h, UsedOf(h, C) \ {c}, bs),
           NEW h2, NEW D, NEW m, Freed(h, h2, C, D, c, m)
    PROVE  InOrder(h2, D, bs) /\ Kept(h, h2, bs)
<1> DEFINE U == UsedOf(h, C) \ {c}
           W == FreeOf(h, C) \cup {c}
<1>1. h \in Memory /\ Tiled(h, C) /\ U \in SUBSET C /\ W \in SUBSET C /\ U \cap W = {}
      /\ U \in SUBSET Units
  <2>1. h \in Memory /\ Tiled(h, C)
    BY DEF Good, Shaped
  <2> QED
    BY <2>1, FreeOrUsed, InUnits DEF FreeOf, UsedOf
<1>2. Good(h2, D) /\ UsedOf(h2, D) = U /\ Writes(h, h2, W)
  BY DEF Freed
<1> HIDE DEF U, W
<1>3. Clients(h, U, bs) /\ \A b \in bs : b.at \in U
  BY DEF U, Clients
<1>4. \A b \in bs : span(h2, b.at) = span(h, b.at)
  BY <1>1, <1>2, <1>3, Unwritten
<1>5. \A b \in bs : \A u \in Payload(b) : h2.hdr[u] = h.hdr[u]
  <2> SUFFICES ASSUME NEW b \in bs, NEW u \in Payload(b) PROVE h2.hdr[u] = h.hdr[u]
    OBVIOUS
  <2>1. u \in Units /\ u \notin C
    BY <1>1, <1>3, PayloadInside
  <2> QED
    BY <1>1, <1>2, <2>1 DEF Writes
<1>6. Clients(h2, U, bs)
  BY <1>3, <1>4, SameClients
<1> QED
  BY <1>2, <1>4, <1>5, <1>6 DEF InOrder, Kept

\* A chunk handed out is one more block, apart from the others.
LEMMA HandedOut ==
    ASSUME SizesFit, NEW h, NEW C, NEW bs, InOrder(h, C, bs), NEW size \in Sizes,
           NEW h2, NEW D, NEW at, Taken(h, h2, C, D, at, bytes_to_payload_units(size))
    PROVE  LET b == [at |-> at, size |-> size]
           IN  InOrder(h2, D, bs \cup {b}) /\ b \notin bs /\ Kept(h, h2, bs)
<1> DEFINE new == [at |-> at, size |-> size]
           U == UsedOf(h, C)
           W == FreeOf(h, C) \cup {at}
<1>1. h \in Memory /\ Tiled(h, C) /\ U \in SUBSET C /\ FreeOf(h, C) \in SUBSET C
      /\ U \cap FreeOf(h, C) = {} /\ U \in SUBSET Units /\ Clients(h, U, bs)
  <2>1. h \in Memory /\ Tiled(h, C) /\ Clients(h, U, bs)
    BY DEF InOrder, Good, Shaped
  <2> QED
    BY <2>1, FreeOrUsed, InUnits DEF FreeOf, UsedOf
<1>2. /\ Good(h2, D) /\ h2 \in Memory /\ Tiled(h2, D) /\ C \in SUBSET D
      /\ UsedOf(h2, D) = U \cup {at} /\ at \in D /\ at \notin U /\ at \in Units
      /\ span(h2, at) = bytes_to_payload_units(size) + 1 /\ Writes(h, h2, W)
  <2>1. Good(h2, D) /\ h2 \in Memory /\ Tiled(h2, D) /\ at \in D
    BY DEF Taken, Good, Shaped
  <2> QED
    BY <2>1, InUnits DEF Taken
<1>3. \A b \in bs : b.at \in U /\ b.at # at
  BY <1>1, <1>2 DEF Clients
<1> HIDE DEF U
<1>4. \A b \in bs : span(h2, b.at) = span(h, b.at)
  BY <1>1, <1>2, <1>3, Unwritten
<1>5. Clients(h2, U, bs) /\ Clients(h2, U \cup {at}, bs \cup {new})
  <2>1. Clients(h2, U, bs)
    BY <1>1, <1>4, SameClients
  <2>2. \A b \in bs \cup {new} : b \in [at : Units, size : Sizes]
    BY <1>2, <2>1 DEF Clients
  <2>3. U \cup {at} = {b.at : b \in bs \cup {new}}
    <3>1. U = {b.at : b \in bs}
      BY <2>1 DEF Clients
    <3>2. new.at = at
      OBVIOUS
    <3> HIDE DEF new
    <3>3. {b.at : b \in bs \cup {new}} = {b.at : b \in bs} \cup {new.at}
      OBVIOUS
    <3> QED
      BY <3>1, <3>2, <3>3
  <2>4. \A a, b \in bs \cup {new} : a.at = b.at => a = b
    BY <1>3, <2>1 DEF Clients
  <2>5. \A b \in bs \cup {new} : span(h2, b.at) = bytes_to_payload_units(b.size) + 1
    BY <1>2, <2>1 DEF Clients
  <2> QED
    BY <2>1, <2>2, <2>3, <2>4, <2>5 DEF Clients
<1>6. \A b \in bs : \A u \in Payload(b) : h2.hdr[u] = h.hdr[u]
  <2> SUFFICES ASSUME NEW b \in bs, NEW u \in Payload(b) PROVE h2.hdr[u] = h.hdr[u]
    OBVIOUS
  <2>1. u \in Units /\ u \notin D
    <3>1. U \in SUBSET D
      BY <1>1, <1>2
    <3> QED
      BY <1>2, <1>5, <3>1, PayloadInside
  <2> QED
    BY <1>1, <1>2, <2>1 DEF Writes
<1>7. InOrder(h2, D, bs \cup {new})
  BY <1>2, <1>5 DEF InOrder
<1>8. new \notin bs
  BY <1>3
<1> QED
  BY <1>4, <1>6, <1>7, <1>8 DEF Kept

\* What is blanked at the end of a call is nobody's.
LEMMA Settled ==
    ASSUME NEW h, NEW C, NEW bs, InOrder(h, C, bs), NEW keep \in SUBSET bs
    PROVE  InOrder(Settle(h, keep), C, bs) /\ Kept(h, Settle(h, keep), keep)
<1> DEFINE h2 == Settle(h, keep)
<1>1. Good(h, C) /\ Clients(h, UsedOf(h, C), bs)
  BY DEF InOrder
<1>2. /\ Good(h2, C) /\ UsedOf(h2, C) = UsedOf(h, C)
      /\ \A u \in C : h2.hdr[u] = h.hdr[u]
      /\ \A b \in keep : \A u \in Payload(b) : h2.hdr[u] = h.hdr[u]
  BY <1>1, SettleKeeps
<1> HIDE DEF h2
<1>3. \A b \in bs : span(h2, b.at) = span(h, b.at)
  BY <1>1, <1>2 DEF Clients, UsedOf, span
<1>4. Clients(h2, UsedOf(h2, C), bs)
  BY <1>1, <1>2, <1>3, SameClients
<1> QED
  BY <1>2, <1>3, <1>4 DEF InOrder, Kept, h2

----------------------------------------------------------------------------
(* The calls.                                                              *)

\* A block is handed out, or taken back, and the others are as they were in h.
HandsOut(h) ==
    \E D, b : /\ ~aborted' /\ InOrder(heap', D, live')
              /\ b \notin live /\ live' = live \cup {b} /\ Kept(h, heap', live)
TakesBack(b) ==
    \E D : /\ ~aborted' /\ InOrder(heap', D, live')
           /\ live' = live \ {b} /\ Kept(heap, heap', live')

\* AllocateFrom hands out a block cut from c, or all of c.
LEMMA Allocates ==
    ASSUME SizesFit, ~aborted, NEW h, NEW C, InOrder(h, C, live),
           NEW c \in FreeOf(h, C), NEW p, Precedes(h, C, p, c),
           NEW size \in Sizes, bytes_to_payload_units(size) < span(h, c),
           AllocateFrom(h, p, c, bytes_to_payload_units(size), size)
    PROVE  HandsOut(h)
<1> DEFINE need   == bytes_to_payload_units(size)
           splits == span(h, c) - 1 > need
           after  == IF splits THEN split_for_alloc(h, c, need) ELSE freelist_detach(h, p, c)
           at     == IF splits THEN c + RemainSpan(h, c, need) ELSE c
           new    == [at |-> at, size |-> size]
<1>1. /\ Good(h, C) /\ need \in Nat /\ span(h, c) \in Nat /\ need < span(h, c)
      /\ status(h, c) = CHUNK_FREE
  <2>1. Good(h, C) /\ h \in Memory /\ Tiled(h, C) /\ c \in C /\ status(h, c) = CHUNK_FREE
    BY DEF InOrder, Good, Shaped, FreeOf
  <2> QED
    BY <2>1, InUnits, UnitsOfSize
<1>2. /\ splits => RemainSpan(h, c, need) > 0
      /\ \E D : Taken(h, after, C, D, at, need)
  <2> HIDE DEF need
  <2>1. CASE splits
    <3>1. need < span(h, c) - 1
      BY <1>1, <2>1
    <3>2. /\ RemainSpan(h, c, need) > 0
          /\ Taken(h, split_for_alloc(h, c, need), C, C \cup {c + RemainSpan(h, c, need)},
                   c + RemainSpan(h, c, need), need)
      BY <1>1, <3>1, Split
    <3>3. after = split_for_alloc(h, c, need) /\ at = c + RemainSpan(h, c, need)
      BY <2>1
    <3> HIDE DEF after, at
    <3> QED
      BY <3>2, <3>3
  <2>2. CASE ~splits
    <3>1. need = span(h, c) - 1
      BY <1>1, <2>2
    <3>2. Taken(h, freelist_detach(h, p, c), C, C, c, need)
      BY <1>1, <3>1, Detach
    <3>3. after = freelist_detach(h, p, c) /\ at = c
      BY <2>2
    <3> HIDE DEF after, at
    <3> QED
      BY <2>2, <3>2, <3>3
  <2> QED
    BY <2>1, <2>2
<1>3. AllocateFrom(h, p, c, need, size)
  OBVIOUS
<1>4. \/ /\ heap' = Settle(after, live) /\ live' = live \cup {new} /\ aborted' = aborted
      \/ /\ ~(/\ status(h, c) = CHUNK_FREE
              /\ splits => RemainSpan(h, c, need) > 0
              /\ check_heap_validity(after))
  <2> HIDE DEF need
  <2> QED
    BY <1>3 DEF AllocateFrom
<1> HIDE DEF after, at, splits
<1>5. PICK D : Taken(h, after, C, D, at, need)
  BY <1>2
<1>6. InOrder(after, D, live \cup {new}) /\ new \notin live /\ Kept(h, after, live)
  BY <1>5, HandedOut
<1>7. check_heap_validity(after)
  BY <1>6, GoodIsValid DEF InOrder
<1> HIDE DEF need, new
<1>8. heap' = Settle(after, live) /\ live' = live \cup {new} /\ aborted' = aborted
  BY <1>1, <1>2, <1>4, <1>7
<1>9. InOrder(Settle(after, live), D, live \cup {new}) /\ Kept(after, Settle(after, live), live)
  BY <1>6, Settled
<1>10. Kept(h, heap', live)
  BY <1>6, <1>8, <1>9, KeptOn
<1> QED
  BY <1>6, <1>8, <1>9, <1>10 DEF HandsOut

\* heapmgr_malloc with a free chunk that has room.
LEMMA Fits ==
    ASSUME SizesFit, ~aborted, NEW C, InOrder(heap, C, live), NEW size \in Sizes, MallocFits(size)
    PROVE  HandsOut(heap)
<1> DEFINE need == bytes_to_payload_units(size)
           i == CHOOSE j \in Room(need) : \A k \in Room(need) : j <= k
<1>1. heap \in Memory /\ C \in SUBSET Units /\ Lined(heap, C) /\ need \in Nat
  <2>1. heap \in Memory /\ Tiled(heap, C) /\ Lined(heap, C)
    BY DEF InOrder, Good, Shaped
  <2> QED
    BY <2>1, InUnits, UnitsOfSize
<1>2. Room(need) # {} /\ AllocateFrom(heap, Nth(i - 1), Nth(i), need, size)
  BY DEF MallocFits
<1> HIDE DEF need
<1>3. /\ Nth(i) \in FreeOf(heap, C) /\ need < span(heap, Nth(i))
      /\ Precedes(heap, C, Nth(i - 1), Nth(i))
  BY <1>1, <1>2, FirstFit
<1> HIDE DEF i
<1> QED
  BY <1>2, <1>3, Allocates DEF need

\* sys_grow_and_link: the chunk the heap grew by is linked in behind the last one.
LEMMA Extends ==
    ASSUME SizesFit, NEW C, InOrder(heap, C, live), NEW g \in Nat \ {0},
           NewBreak(heap, g) = heap.hi + g, heap.hi + g <= MaxUnits
    PROVE  LET h2 == Fresh(heap, g)
               D  == C \cup {heap.hi}
           IN  /\ Good(h2, D) /\ heap.hi \in UsedOf(h2, D) /\ span(h2, heap.hi) = g
               /\ Clients(h2, UsedOf(h2, D) \ {heap.hi}, live) /\ Kept(heap, h2, live)
               /\ FreeOf(h2, D) = FreeOf(heap, C) /\ h2.head = heap.head
               /\ \A x \in C : next(h2, x) = next(heap, x)
               /\ heap.hi # NULL /\ \A x \in C : x < heap.hi
<1> DEFINE h2 == Fresh(heap, g)
           D  == C \cup {heap.hi}
           U  == UsedOf(heap, C)
<1>1. heap \in Memory /\ Tiled(heap, C) /\ U \in SUBSET C /\ C \in SUBSET Units
      /\ Good(heap, C) /\ Clients(heap, U, live) /\ heap.hi # NULL
      /\ \A x \in C : x < heap.hi
  <2>1. heap \in Memory /\ Tiled(heap, C) /\ Good(heap, C) /\ Clients(heap, U, live)
    BY DEF InOrder, Good, Shaped
  <2> QED
    BY <2>1, InUnits DEF UsedOf, NULL
<1>2. /\ Good(h2, D) /\ heap.hi \in Units \ C
      /\ FreeOf(h2, D) = FreeOf(heap, C) /\ UsedOf(h2, D) = U \cup {heap.hi}
      /\ Writes(heap, h2, {heap.hi}) /\ h2.head = heap.head
      /\ span(h2, heap.hi) = g /\ \A x \in C : next(h2, x) = next(heap, x)
  BY <1>1, Grows
<1> HIDE DEF h2, U, D
<1>3. UsedOf(h2, D) \ {heap.hi} = U
  BY <1>1, <1>2
<1>4. \A b \in live : span(h2, b.at) = span(heap, b.at)
  <2>1. \A b \in live : b.at \in U
    BY <1>1 DEF Clients
  <2> QED
    BY <1>1, <1>2, <2>1, Unwritten
<1>5. ASSUME NEW b \in live, NEW u \in Payload(b) PROVE h2.hdr[u] = heap.hdr[u]
  <2>1. u \in Units /\ u < heap.hi /\ heap.hi \in Nat
    BY <1>1, PayloadInside, InUnits
  <2>2. u # heap.hi
    BY <2>1
  <2> QED
    BY <1>2, <2>1, <2>2 DEF Writes
<1>6. Clients(h2, U, live) /\ Kept(heap, h2, live)
  BY <1>1, <1>4, <1>5, SameClients DEF Kept
<1> QED
  BY <1>1, <1>2, <1>3, <1>6 DEF h2, D

\* heapmgr_malloc when no chunk has room.
LEMMA GrowsToFit ==
    ASSUME SizesFit, ~aborted, NEW C, InOrder(heap, C, live), NEW size \in Sizes, MallocGrows(size)
    PROVE  HandsOut(heap)
<1> DEFINE need  == bytes_to_payload_units(size)
           g     == GrowSpan(need)
           prev  == Nth(Length - 1)
           fresh == Fresh(heap, g)
           none  == heap.head = NULL
           grown == IF none THEN freelist_push_front(fresh, heap.hi)
                    ELSE freelist_insert_after(fresh, prev, heap.hi)
           c     == IF none THEN heap.hi ELSE MergedInto(fresh, prev, heap.hi)
           mayLink == IF none THEN MayPush(fresh, heap.hi) ELSE MayInsert(fresh, prev, heap.hi)
           p     == IF c = prev THEN Nth(Length - 2) ELSE prev
           D0    == C \cup {heap.hi}
           Done(D) == /\ Freed(fresh, grown, D0, D, heap.hi, c) /\ Precedes(grown, D, p, c)
<1>1. /\ SbrkSucceeds(heap, g)
      /\ \/ AllocateFrom(grown, p, c, need, size)
         \/ ~(mayLink /\ check_heap_validity(grown))
  <2>1. MallocGrows(size)
    OBVIOUS
  <2> QED
    BY <2>1 DEF MallocGrows
<1>2. heap \in Memory /\ C \in SUBSET Units /\ Tiled(heap, C) /\ Lined(heap, C)
  <2>1. heap \in Memory /\ Tiled(heap, C) /\ Lined(heap, C)
    BY DEF InOrder, Good, Shaped
  <2> QED
    BY <2>1, InUnits
<1>3. /\ need \in Nat /\ g \in Nat \ {0} /\ need < g
      /\ NewBreak(heap, g) = heap.hi + g
  BY UnitsOfSize
<1> HIDE DEF need, g
<1>4. heap.hi + g <= MaxUnits
  BY <1>1, <1>3, Constants DEF SbrkSucceeds
<1>5. /\ Good(fresh, D0) /\ heap.hi \in UsedOf(fresh, D0) /\ span(fresh, heap.hi) = g
      /\ Clients(fresh, UsedOf(fresh, D0) \ {heap.hi}, live) /\ Kept(heap, fresh, live)
      /\ FreeOf(fresh, D0) = FreeOf(heap, C) /\ fresh.head = heap.head
      /\ \A x \in C : next(fresh, x) = next(heap, x)
      /\ heap.hi # NULL /\ \A x \in C : x < heap.hi
  BY <1>3, <1>4, Extends
<1> HIDE DEF fresh, D0
<1>6. mayLink /\ \E D : Done(D)
  <2>1. CASE none
    <3>1. Length = 0 /\ prev = NULL
      <4>1. Length \in Nat /\ ~(0 < Length) /\ Nth(-1) = NULL
        BY <1>2, <2>1, Places, Constants
      <4>2. Length = 0
        BY <4>1
      <4> QED
        BY <4>1, <4>2
    <3>2. c = heap.hi /\ p = NULL
      BY <2>1, <3>1, <1>5
    <3>3. grown = freelist_push_front(fresh, heap.hi) /\ mayLink = MayPush(fresh, heap.hi)
      BY <2>1
    <3> HIDE DEF grown, c, p, mayLink, prev
    <3>4. /\ MayPush(fresh, heap.hi)
          /\ \E D : /\ Freed(fresh, freelist_push_front(fresh, heap.hi), D0, D, heap.hi, heap.hi)
                    /\ Precedes(freelist_push_front(fresh, heap.hi), D, NULL, heap.hi)
      BY <1>5, <2>1, Push
    <3> QED
      BY <3>2, <3>3, <3>4
  <2>2. CASE ~none
    <3>1. /\ prev \in FreeOf(heap, C) /\ next(heap, prev) = NULL
          /\ Precedes(heap, C, Nth(Length - 2), prev)
      BY <1>2, <2>2, LastIs
    <3> DEFINE q == Nth(Length - 2)
    <3>2. c = MergedInto(fresh, prev, heap.hi)
          /\ grown = freelist_insert_after(fresh, prev, heap.hi)
          /\ mayLink = MayInsert(fresh, prev, heap.hi)
          /\ p = (IF c = prev THEN q ELSE prev)
      BY <2>2
    <3> HIDE DEF grown, c, p, mayLink, prev, q
    <3>3. /\ prev \in FreeOf(fresh, D0) /\ prev < heap.hi /\ next(fresh, prev) = NULL
          /\ prev \in C
      BY <1>5, <3>1 DEF FreeOf
    <3>4. Precedes(fresh, D0, q, prev)
      <4>1. Precedes(heap, C, q, prev)
        BY <3>1 DEF q
      <4> QED
        BY <1>5, <4>1 DEF Precedes, FreeOf
    <3>5. MayInsert(fresh, prev, heap.hi)
      BY <1>5, <3>3, Insert
    <3>6. PICK D : LET h3 == freelist_insert_after(fresh, prev, heap.hi)
                       m  == MergedInto(fresh, prev, heap.hi)
                   IN  /\ Freed(fresh, h3, D0, D, heap.hi, m)
                       /\ m = prev => \A x : Precedes(fresh, D0, x, prev) => Precedes(h3, D, x, prev)
                       /\ m = heap.hi => Precedes(h3, D, prev, heap.hi)
                       /\ m \in {prev, heap.hi}
      BY <1>5, <3>3, Insert
    <3>7. Freed(fresh, grown, D0, D, heap.hi, c)
      BY <3>2, <3>6
    <3>8. Precedes(grown, D, p, c)
      <4>1. CASE c = prev
        BY <3>2, <3>4, <3>6, <4>1
      <4>2. CASE c # prev
        BY <3>2, <3>6, <4>2
      <4> QED
        BY <4>1, <4>2
    <3> QED
      BY <3>2, <3>5, <3>7, <3>8
  <2> QED
    BY <2>1, <2>2
<1> HIDE DEF grown, c, p, mayLink
<1>7. PICK D : Done(D)
  BY <1>6
<1>8. InOrder(grown, D, live) /\ Kept(fresh, grown, live)
  BY <1>5, <1>7, GivenBack
<1>9. Kept(heap, grown, live)
  BY <1>5, <1>8, KeptOn
<1>10. AllocateFrom(grown, p, c, need, size)
  BY <1>1, <1>6, <1>8, GoodIsValid DEF InOrder
<1>11. c \in FreeOf(grown, D) /\ need < span(grown, c)
  <2>1. c \in FreeOf(grown, D) /\ span(grown, c) >= g /\ Good(grown, D)
    BY <1>5, <1>7 DEF Freed
  <2>2. span(grown, c) \in Nat
    BY <2>1, InUnits DEF Good, Shaped, FreeOf
  <2> QED
    BY <1>3, <2>1, <2>2
<1>12. HandsOut(grown)
  BY <1>7, <1>8, <1>10, <1>11, Allocates DEF need
<1> QED
  <2>1. PICK E, b : /\ ~aborted' /\ InOrder(heap', E, live')
                    /\ b \notin live /\ live' = live \cup {b} /\ Kept(grown, heap', live)
    BY <1>12 DEF HandsOut
  <2>2. Kept(heap, heap', live)
    BY <1>9, <2>1, KeptOn
  <2> QED
    BY <2>1, <2>2 DEF HandsOut

\* heapmgr_free.
LEMMA Frees ==
    ASSUME SizesFit, ~aborted, NEW C, InOrder(heap, C, live), NEW b \in live, FreeBlock(b)
    PROVE  TakesBack(b)
<1> DEFINE c     == b.at
           prev  == Before(c)
           none  == prev = NULL
           after == IF none THEN freelist_push_front(heap, c)
                    ELSE freelist_insert_after(heap, prev, c)
           may   == IF none THEN MayPush(heap, c) ELSE MayInsert(heap, prev, c)
           bs    == live \ {b}
<1>1. \/ heap' = Settle(after, bs) /\ live' = bs /\ aborted' = aborted
      \/ ~(/\ check_heap_validity(heap) /\ status(heap, c) # CHUNK_FREE
           /\ may /\ check_heap_validity(after))
  <2>1. FreeBlock(b)
    OBVIOUS
  <2> QED
    BY <2>1 DEF FreeBlock
<1>2. /\ Good(heap, C) /\ heap \in Memory /\ C \in SUBSET Units /\ Lined(heap, C)
      /\ Clients(heap, UsedOf(heap, C), live)
  <2>1. /\ Good(heap, C) /\ heap \in Memory /\ Tiled(heap, C) /\ Lined(heap, C)
        /\ Clients(heap, UsedOf(heap, C), live)
    BY DEF InOrder, Good, Shaped
  <2> QED
    BY <2>1, InUnits
<1>3. /\ c \in UsedOf(heap, C) /\ c \in Units \ FreeOf(heap, C) /\ status(heap, c) # CHUNK_FREE
      /\ Clients(heap, UsedOf(heap, C) \ {c}, bs)
  <2>1. c \in UsedOf(heap, C)
    BY <1>2 DEF Clients
  <2>2. c \in Units \ FreeOf(heap, C) /\ status(heap, c) # CHUNK_FREE
    BY <1>2, <2>1 DEF UsedOf, FreeOf, CHUNK_FREE, CHUNK_USED
  <2>3. UsedOf(heap, C) \ {c} = {x.at : x \in bs}
    BY <1>2 DEF Clients
  <2>4. Clients(heap, UsedOf(heap, C) \ {c}, bs)
    BY <1>2, <2>3 DEF Clients
  <2> QED
    BY <2>1, <2>2, <2>4
<1> HIDE DEF c, bs
<1>4. may /\ \E D, m : Freed(heap, after, C, D, c, m)
  <2>1. CASE none
    <3>1. heap.head = NULL \/ c < heap.head
      BY <1>2, <1>3, <2>1, BeforeIs
    <3>2. after = freelist_push_front(heap, c) /\ may = MayPush(heap, c)
      BY <2>1
    <3> HIDE DEF after, may, prev
    <3>3. MayPush(heap, c) /\ \E D : Freed(heap, freelist_push_front(heap, c), C, D, c, c)
      BY <1>2, <1>3, <3>1, Push
    <3> QED
      BY <3>2, <3>3
  <2>2. CASE ~none
    <3>1. /\ prev \in FreeOf(heap, C) /\ prev < c
          /\ next(heap, prev) = NULL \/ c < next(heap, prev)
      BY <1>2, <1>3, <2>2, BeforeIs
    <3>2. after = freelist_insert_after(heap, prev, c) /\ may = MayInsert(heap, prev, c)
      BY <2>2
    <3> HIDE DEF after, may, prev
    <3>3. MayInsert(heap, prev, c)
      BY <1>2, <1>3, <3>1, Insert
    <3>4. \E D : Freed(heap, freelist_insert_after(heap, prev, c), C, D, c,
                       MergedInto(heap, prev, c))
      BY <1>2, <1>3, <3>1, Insert
    <3> QED
      BY <3>2, <3>3, <3>4
  <2> QED
    BY <2>1, <2>2
<1> HIDE DEF after, may
<1>5. PICK D, m : Freed(heap, after, C, D, c, m)
  BY <1>4
<1>6. InOrder(after, D, bs) /\ Kept(heap, after, bs)
  BY <1>2, <1>3, <1>5, GivenBack
<1>7. check_heap_validity(heap) /\ check_heap_validity(after)
  BY <1>2, <1>6, GoodIsValid DEF InOrder
<1>8. heap' = Settle(after, bs) /\ live' = bs /\ aborted' = aborted
  BY <1>1, <1>3, <1>4, <1>7
<1>9. InOrder(heap', D, bs) /\ Kept(after, heap', bs)
  BY <1>6, <1>8, Settled
<1>10. Kept(heap, heap', bs)
  BY <1>6, <1>9, KeptOn
<1> QED
  BY <1>8, <1>9, <1>10 DEF TakesBack, bs

----------------------------------------------------------------------------
(* The theorems.                                                           *)

\* The chunks an ordered heap has are those the walk of the code meets.
LEMMA Met ==
    ASSUME NEW h, NEW C, NEW bs, InOrder(h, C, bs)
    PROVE  Chunks(h) = C
BY ChunksAre DEF InOrder, Good, Shaped

\* At first there is no heap.
LEMMA Starts == Init => IInv
<1> SUFFICES ASSUME Init PROVE IInv
  OBVIOUS
<1>1. /\ heap = [hdr |-> [u \in Units |-> Blank], hi |-> 0, head |-> NULL]
      /\ live = {} /\ aborted = FALSE
  BY DEF Init
<1>2. heap \in Memory /\ heap.hi = 0 /\ heap.head = NULL
  BY <1>1, Constants DEF Memory
<1>3. FreeOf(heap, {}) = {} /\ UsedOf(heap, {}) = {}
  BY DEF FreeOf, UsedOf
<1>4. Good(heap, {})
  BY <1>2, <1>3 DEF Good, Shaped, Tiled, Lined, Headed, Chained, Apart
<1>5. Clients(heap, UsedOf(heap, {}), live)
  BY <1>1, <1>3 DEF Clients
<1>6. InOrder(heap, {}, live)
  BY <1>4, <1>5 DEF InOrder
<1>7. Chunks(heap) = {}
  BY <1>6, Met
<1> QED
  BY <1>1, <1>6, <1>7 DEF IInv

\* What a call does.
LEMMA Calls ==
    ASSUME SizesFit, IInv, [Next]_vars
    PROVE  UNCHANGED vars \/ HandsOut(heap) \/ \E b \in live : TakesBack(b)
<1>1. ~aborted /\ InOrder(heap, Chunks(heap), live)
  BY DEF IInv
<1>2. ASSUME NEW size \in Sizes, MallocFits(size) PROVE HandsOut(heap)
  BY <1>1, <1>2, Fits
<1>3. ASSUME NEW size \in Sizes, MallocGrows(size) PROVE HandsOut(heap)
  BY <1>1, <1>3, GrowsToFit
<1>4. ASSUME NEW b \in live, FreeBlock(b) PROVE TakesBack(b)
  BY <1>1, <1>4, Frees
<1> QED
  BY <1>2, <1>3, <1>4 DEF Next

\* Each step keeps the invariant.
LEMMA Keeps ==
    ASSUME SizesFit, IInv, [Next]_vars
    PROVE  IInv'
<1>1. CASE UNCHANGED vars
  BY <1>1 DEF IInv, vars
<1>2. ASSUME NEW D, ~aborted', InOrder(heap', D, live') PROVE IInv'
  <2>1. Chunks(heap') = D
    BY <1>2, Met
  <2> QED
    BY <1>2, <2>1 DEF IInv
<1>3. CASE HandsOut(heap)
  BY <1>2, <1>3 DEF HandsOut
<1>4. CASE \E b \in live : TakesBack(b)
  BY <1>2, <1>4 DEF TakesBack
<1> QED
  BY <1>1, <1>3, <1>4, Calls

\* In every state the chunks tile the heap, the list leads through the free ones in
\* the order of addresses, no two of them are side by side, and the used ones are the
\* client's blocks, each as large as was asked for: the inductive invariant.
THEOREM HeapInvariant ==
    ASSUME SizesFit PROVE Spec => []IInv
<1>1. IInv /\ [Next]_vars => IInv'
  BY Keeps
<1> QED
  BY <1>1, Starts, PTL DEF Spec

\* No call of heapmgr_malloc or heapmgr_free makes an assertion of heapmgrbase.c fail.
THEOREM HeapAssertions ==
    ASSUME SizesFit PROVE Spec => []NoAssertionFails
<1>1. IInv => NoAssertionFails
  BY DEF IInv, NoAssertionFails
<1> QED
  BY <1>1, HeapInvariant, PTL

\* The list holds all free memory in the order of addresses, merged, and the rest of
\* the heap is the client's.
THEOREM HeapList ==
    ASSUME SizesFit PROVE Spec => []ListIsTheFreeMemory
<1>1. IInv => ListIsTheFreeMemory
  <2> DEFINE C == Chunks(heap)
  <2> SUFFICES ASSUME IInv PROVE ListIsTheFreeMemory
    OBVIOUS
  <2>1. /\ heap \in Memory /\ Tiled(heap, C) /\ Lined(heap, C) /\ Apart(heap, C, {})
        /\ UsedOf(heap, C) = {b.at : b \in live}
    BY DEF IInv, InOrder, Good, Shaped, Clients
  <2> HIDE DEF C
  <2>2. Listed(heap) = FreeOf(heap, C)
    BY <2>1, InUnits, ListIs
  <2>3. ASSUME NEW c \in FreeOf(heap, C)
        PROVE  (next(heap, c) # NULL => c < next(heap, c)) /\ ~IsFree(heap, adjacent(heap, c))
    <3>1. c \in C /\ c + span(heap, c) \notin FreeOf(heap, C)
      BY <2>1 DEF Apart, FreeOf
    <3>2. next(heap, c) # NULL => c < next(heap, c)
      BY <2>1 DEF Lined, Chained
    <3> QED
      BY <2>1, <3>1, <3>2, AdjacentIs
  <2>4. Listed(heap) = {c \in C : status(heap, c) = CHUNK_FREE}
    BY <2>2 DEF FreeOf
  <2>5. {c \in C : status(heap, c) = CHUNK_USED} = {b.at : b \in live}
    BY <2>1 DEF UsedOf
  <2> QED
    BY <2>2, <2>3, <2>4, <2>5 DEF ListIsTheFreeMemory, C
<1> QED
  BY <1>1, HeapInvariant, PTL

\* A block as the client knows it.
BlockOf(h, b) == [first |-> b.at + 1, units |-> span(h, b.at) - 1, size |-> b.size]

\* The blocks of the refinement, before and after a step.
LEMMA OwnedBlocks ==
    /\ Owned = {BlockOf(heap, b) : b \in live}
    /\ Owned' = {BlockOf(heap', b) : b \in live'}
BY DEF Owned, BlockOf

\* A block has space for its size, and no other block has a part of it.
LEMMA SpaceOfItsOwn ==
    ASSUME SizesFit, NEW h, NEW C, NEW bs, InOrder(h, C, bs), NEW b \in bs
    PROVE  /\ BlockOf(h, b) \in Promise!Blocks
           /\ BlockOf(h, b).units * CHUNK_UNIT >= BlockOf(h, b).size
           /\ \A a \in bs \ {b} :
                 Promise!Space(BlockOf(h, a)) \cap Promise!Space(BlockOf(h, b)) = {}
<1>1. /\ h \in Memory /\ Tiled(h, C)
      /\ \A a \in bs : /\ a.at \in C /\ a.size \in Sizes
                       /\ span(h, a.at) = bytes_to_payload_units(a.size) + 1
      /\ \A a \in bs : a.at = b.at => a = b
  BY DEF InOrder, Good, Shaped, Clients, UsedOf
<1>2. /\ h.hi \in Nat /\ h.hi <= MaxUnits /\ MaxUnits \in Nat
      /\ \A c \in C : /\ c \in Nat /\ c < h.hi /\ span(h, c) \in Nat /\ span(h, c) > 0
                      /\ c + span(h, c) \in C \cup {h.hi}
  BY <1>1, InUnits, Constants DEF Tiled
<1>3. BlockOf(h, b) \in Promise!Blocks
  <2>1. b.at + 1 \in 0 .. MaxUnits /\ span(h, b.at) - 1 \in 0 .. MaxUnits
    <3>1. b.at \in Nat /\ b.at < h.hi /\ span(h, b.at) \in Nat /\ span(h, b.at) > 0
          /\ b.at + span(h, b.at) <= h.hi
      <4>1. b.at \in C
        BY <1>1
      <4> QED
        BY <1>2, <4>1
    <3> QED
      BY <1>2, <3>1
  <2> QED
    BY <1>1, <2>1 DEF BlockOf, Promise!Blocks
<1>4. BlockOf(h, b).units * CHUNK_UNIT >= BlockOf(h, b).size
  <2> DEFINE need == bytes_to_payload_units(b.size)
  <2>1. need \in Nat /\ need * CHUNK_UNIT >= b.size /\ span(h, b.at) = need + 1
    BY <1>1, UnitsOfSize
  <2>2. span(h, b.at) - 1 = need
    BY <2>1
  <2> QED
    BY <2>1, <2>2 DEF BlockOf
<1>5. ASSUME NEW a \in bs \ {b}
      PROVE  Promise!Space(BlockOf(h, a)) \cap Promise!Space(BlockOf(h, b)) = {}
  <2>1. /\ a.at \in Nat /\ b.at \in Nat /\ span(h, a.at) \in Nat /\ span(h, b.at) \in Nat
        /\ a.at \in C /\ b.at \in C /\ a.at # b.at
    BY <1>1, <1>2
  <2>2. a.at + span(h, a.at) <= b.at \/ b.at + span(h, b.at) <= a.at
    BY <1>1, <2>1 DEF Tiled
  <2>3. /\ \A u \in Promise!Space(BlockOf(h, a)) :
              u \in Int /\ a.at < u /\ u < a.at + span(h, a.at)
        /\ \A u \in Promise!Space(BlockOf(h, b)) :
              u \in Int /\ b.at < u /\ u < b.at + span(h, b.at)
    BY <2>1 DEF Promise!Space, BlockOf
  <2>4. \A u \in Promise!Space(BlockOf(h, a)) : u \notin Promise!Space(BlockOf(h, b))
    BY <2>1, <2>2, <2>3
  <2> QED
    BY <2>4
<1> QED
  BY <1>3, <1>4, <1>5

\* The blocks that are kept are the same blocks.
LEMMA SameBlocks ==
    ASSUME NEW h, NEW h2, NEW bs, Kept(h, h2, bs), NEW b \in bs
    PROVE  BlockOf(h2, b) = BlockOf(h, b)
BY DEF Kept, BlockOf

\* A call that hands out a block is a Malloc of Allocator.
LEMMA HandsOutMaps ==
    ASSUME SizesFit, HandsOut(heap)
    PROVE  Promise!Malloc
<1>1. PICK D, new : /\ InOrder(heap', D, live') /\ new \notin live
                    /\ live' = live \cup {new} /\ Kept(heap, heap', live)
  BY DEF HandsOut
<1> DEFINE B == BlockOf(heap', new)
<1>2. /\ B \in Promise!Blocks /\ B.units * CHUNK_UNIT >= B.size
      /\ \A a \in live : Promise!Space(BlockOf(heap', a)) \cap Promise!Space(B) = {}
  <2>1. new \in live' /\ live' \ {new} = live
    BY <1>1
  <2> HIDE DEF B
  <2> QED
    BY <1>1, <2>1, SpaceOfItsOwn DEF B
<1>3. \A a \in live : BlockOf(heap', a) = BlockOf(heap, a)
  BY <1>1, SameBlocks
<1> HIDE DEF B
<1>4. \A o \in Owned : Promise!Space(o) \cap Promise!Space(B) = {}
  BY <1>2, <1>3, OwnedBlocks
<1>5. Owned' = Owned \cup {B}
  <2>1. {BlockOf(heap', b) : b \in live'} = {BlockOf(heap', b) : b \in live} \cup {B}
    BY <1>1 DEF B
  <2>2. {BlockOf(heap', b) : b \in live} = {BlockOf(heap, b) : b \in live}
    BY <1>3
  <2> QED
    BY <2>1, <2>2, OwnedBlocks
<1> QED
  BY <1>2, <1>4, <1>5 DEF Promise!Malloc

\* A call that takes one back is a Free.
LEMMA TakesBackMaps ==
    ASSUME SizesFit, IInv, NEW b \in live, TakesBack(b)
    PROVE  Promise!Free
<1>1. live' = live \ {b} /\ Kept(heap, heap', live')
  BY DEF TakesBack
<1> DEFINE B == BlockOf(heap, b)
<1>2. \A a \in live \ {b} : BlockOf(heap', a) = BlockOf(heap, a)
  BY <1>1, SameBlocks
<1>3. \A a \in live \ {b} : BlockOf(heap, a) # B
  <2>1. \A a \in live : a.at \in Nat /\ (a.at = b.at => a = b)
    BY Constants DEF IInv, InOrder, Clients
  <2>2. \A a \in live : BlockOf(heap, a).first = a.at + 1
    BY DEF BlockOf
  <2>3. \A a \in live : BlockOf(heap, a) = B => a.at + 1 = b.at + 1
    BY <2>2
  <2>4. \A a \in live : BlockOf(heap, a) = B => a.at = b.at
    BY <2>1, <2>3
  <2> QED
    BY <2>1, <2>4
<1> HIDE DEF B
<1>4. Owned' = Owned \ {B}
  <2>1. {BlockOf(heap', a) : a \in live'} = {BlockOf(heap, a) : a \in live \ {b}}
    BY <1>1, <1>2
  <2>2. {BlockOf(heap, a) : a \in live \ {b}} = {BlockOf(heap, a) : a \in live} \ {B}
    BY <1>3 DEF B
  <2> QED
    BY <2>1, <2>2, OwnedBlocks
<1>5. B \in Owned
  BY OwnedBlocks DEF B
<1> QED
  BY <1>4, <1>5 DEF Promise!Free

\* The heap implements the allocator of heapmgr.h: malloc hands out space of its own
\* and as large as asked for, free gives a block back, and neither writes into a block
\* the client keeps.
THEOREM HeapKeepsPromise ==
    ASSUME SizesFit PROVE Spec => KeepsPromise
<1> DEFINE Same == \A b \in live \cap live' : \A u \in Payload(b) : heap'.hdr[u] = heap.hdr[u]
<1>1. Init => Promise!Init
  BY DEF Init, Promise!Init, Owned
<1>2. IInv /\ [Next]_vars => [Promise!Next]_Owned
  <2> SUFFICES ASSUME IInv, [Next]_vars PROVE [Promise!Next]_Owned
    OBVIOUS
  <2>1. CASE UNCHANGED vars
    BY <2>1 DEF vars, Owned
  <2>2. CASE HandsOut(heap)
    BY <2>2, HandsOutMaps DEF Promise!Next
  <2>3. CASE \E b \in live : TakesBack(b)
    BY <2>3, TakesBackMaps DEF Promise!Next
  <2> QED
    BY <2>1, <2>2, <2>3, Calls
<1>3. IInv /\ [Next]_vars => [Same]_vars
  <2> SUFFICES ASSUME IInv, [Next]_vars, ~UNCHANGED vars PROVE Same
    OBVIOUS
  <2>1. CASE HandsOut(heap)
    BY <2>1 DEF HandsOut, Kept
  <2>2. CASE \E b \in live : TakesBack(b)
    BY <2>2 DEF TakesBack, Kept
  <2> QED
    BY <2>1, <2>2, Calls
<1> HIDE DEF Same
<1>4. Spec => Promise!Spec
  BY <1>1, <1>2, HeapInvariant, PTL DEF Spec, Promise!Spec
<1>5. Spec => [][Same]_vars
  BY <1>3, HeapInvariant, PTL DEF Spec
<1> QED
  BY <1>4, <1>5 DEF KeepsPromise, Same

=============================================================================
