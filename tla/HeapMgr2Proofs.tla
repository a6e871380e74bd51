--------------------------- MODULE HeapMgr2Proofs ---------------------------
(***************************************************************************)
(* Proofs about HeapMgr2, for every size of the heap, every number of bins *)
(* and all sizes of requests that do not wrap.  The facts about chunks and *)
(* lists are those of ChunkProofs.                                         *)
(*                                                                         *)
(* Inside a call a free chunk may be in no bin: it was taken out, or has   *)
(* just been made.  X is the set of these; between calls it is empty.      *)
(***************************************************************************)
EXTENDS HeapMgr2, ChunkProofs

HasBins(h) == "bins" \in DOMAIN h /\ h.bins \in [Bins -> Units \cup {NULL}]

\* Bin i is a list of the free chunks of its sizes, those in X excepted.
InBin(h, C, X, i) == {c \in FreeOf(h, C) \ X : get_bin_index(span(h, c)) = i}
Binned(h, C, X)   == \A i \in Bins : Linked(h, InBin(h, C, X, i), h.bins[i])

Shaped(h, C, X) == IsHeap(h) /\ HasBins(h) /\ Tiled(h, C) /\ Binned(h, C, X)
Good(h, C) == Shaped(h, C, {}) /\ Apart(h, C, {}) /\ Idle(h, UsedOf(h, C))

InOrder(h, C, bs) == Good(h, C) /\ Clients(h, C, bs)

\* The inductive invariant.
IInv == ~aborted /\ InOrder(heap, Chunks(heap), live)

----------------------------------------------------------------------------
(* The bin of a size.                                                      *)

\* Every limit is a number.
LEMMA LimitsAre == BinLimit \in [Bins -> Nat]
<1> DEFINE last == NUM_BINS - 1
           step == [x \in Nat |-> 2 * x]
           Is(f) == f = [i \in Bins |-> IF i = 0 THEN FirstLimit ELSE 2 * f[i - 1]]
<1>1. last \in Nat /\ FirstLimit \in Nat /\ step \in [Nat -> Nat] /\ Bins = 0 .. last
  BY BinsAssumption DEF Bins
<1> HIDE DEF last
<1>2. PICK f \in [0 .. last -> Nat] : Repeats(f, last, FirstLimit, step)
  <2> HIDE DEF step
  <2> QED
    BY <1>1, Iterates
<1>3. Is(f)
  <2>1. f[0] = FirstLimit /\ \A i \in 1 .. last : f[i] = step[f[i - 1]]
    BY <1>2 DEF Repeats
  <2>2. ASSUME NEW i \in 0 .. last PROVE f[i] = IF i = 0 THEN FirstLimit ELSE 2 * f[i - 1]
    <3>1. CASE i = 0
      BY <2>1, <3>1
    <3>2. CASE i # 0
      <4>1. i \in 1 .. last /\ i - 1 \in 0 .. last
        BY <1>1, <3>2
      <4>2. f[i] = step[f[i - 1]] /\ f[i - 1] \in Nat
        BY <2>1, <4>1
      <4> QED
        BY <3>2, <4>2
    <3> QED
      BY <3>1, <3>2
  <2> QED
    BY <1>1, <2>2
<1>4. Is(BinLimit)
  <2>1. BinLimit = CHOOSE g : Is(g)
    BY DEF BinLimit
  <2> HIDE DEF Is
  <2> QED
    BY <1>3, <2>1
<1> DEFINE S == {i \in 0 .. last : BinLimit[i] \in Nat}
<1>5. /\ BinLimit[0] = FirstLimit
      /\ \A i \in 1 .. last : BinLimit[i] = 2 * BinLimit[i - 1]
      /\ BinLimit = [i \in Bins |-> BinLimit[i]]
  <2>1. BinLimit = [i \in Bins |-> IF i = 0 THEN FirstLimit ELSE 2 * BinLimit[i - 1]]
    BY <1>4
  <2>2. BinLimit = [i \in Bins |-> BinLimit[i]]
    BY <2>1
  <2>3. BinLimit[0] = FirstLimit
    BY <1>1, <2>1
  <2>4. ASSUME NEW i \in 1 .. last PROVE BinLimit[i] = 2 * BinLimit[i - 1]
    <3>1. i \in Bins /\ i # 0
      BY <1>1, <2>4
    <3> QED
      BY <2>1, <3>1
  <2> QED
    BY <2>2, <2>3, <2>4
<1>6. \A i \in 0 .. last : i \in S
  <2>1. 0 \in S
    BY <1>1, <1>5
  <2>2. ASSUME NEW i \in 1 .. last, i - 1 \in S PROVE i \in S
    <3>1. BinLimit[i] = 2 * BinLimit[i - 1]
      BY <1>5
    <3>2. BinLimit[i - 1] \in Nat
      BY <2>2
    <3>3. BinLimit[i] \in Nat
      BY <3>1, <3>2
    <3> QED
      BY <1>1, <3>3
  <2> HIDE DEF S
  <2> QED
    BY <1>1, <2>1, <2>2, UpTo
<1> QED
  BY <1>1, <1>5, <1>6

\* Each size has its bin.
LEMMA BinIs ==
    ASSUME NEW s \in Int
    PROVE  LET i == get_bin_index(s)
           IN  /\ i \in Bins /\ i \in Nat
               /\ i = NUM_BINS - 1 \/ s < BinLimit[i]
               /\ \A j \in 0 .. i - 1 : s >= BinLimit[j]
<1> DEFINE last == NUM_BINS - 1
           S == {i \in Bins : i = last \/ s < BinLimit[i]}
           Is(i) == /\ i = last \/ s < BinLimit[i]
                    /\ \A j \in 0 .. i - 1 : s >= BinLimit[j]
<1>1. last \in Nat /\ Bins = 0 .. last /\ last \in S /\ S \in SUBSET Nat
  BY BinsAssumption DEF Bins
<1>2. \A i \in Bins : BinLimit[i] \in Nat
  BY LimitsAre
<1>3. PICK i \in S : \A j \in S : i <= j
  <2> HIDE DEF S
  <2> QED
    BY <1>1, LeastElement
<1>4. i \in Bins /\ Is(i)
  <2>1. ASSUME NEW j \in 0 .. i - 1 PROVE s >= BinLimit[j]
    <3>1. j \in Bins /\ j \notin S /\ BinLimit[j] \in Nat
      BY <1>1, <1>2, <1>3
    <3> QED
      BY <3>1
  <2> QED
    BY <1>3, <2>1
<1>5. get_bin_index(s) = CHOOSE k \in Bins : Is(k)
  BY DEF get_bin_index
<1> HIDE DEF Is
<1>6. get_bin_index(s) \in Bins /\ Is(get_bin_index(s))
  BY <1>4, <1>5
<1> QED
  BY <1>1, <1>6 DEF Is

\* A larger size has the same bin or a later one.
LEMMA LaterBin ==
    ASSUME NEW s \in Int, NEW t \in Int, t <= s
    PROVE  get_bin_index(t) <= get_bin_index(s)
<1> DEFINE i == get_bin_index(s)
           j == get_bin_index(t)
<1>1. /\ i \in Bins /\ i \in Nat /\ (i = NUM_BINS - 1 \/ s < BinLimit[i])
      /\ j \in Bins /\ j \in Nat /\ \A k \in 0 .. j - 1 : t >= BinLimit[k]
  BY BinIs
<1> HIDE DEF i, j
<1>2. BinLimit[i] \in Nat /\ NUM_BINS \in Nat
  BY <1>1, LimitsAre, BinsAssumption
<1>3. ASSUME i < j PROVE FALSE
  <2>1. i \in 0 .. j - 1
    BY <1>1, <1>3
  <2>2. t >= BinLimit[i]
    BY <1>1, <2>1
  <2>3. i # NUM_BINS - 1
    BY <1>1, <1>2, <1>3 DEF Bins
  <2> QED
    BY <1>1, <1>2, <2>2, <2>3
<1> QED
  BY <1>1, <1>3 DEF i, j

----------------------------------------------------------------------------
(* The operations on a bin.                                                *)

\* What does not write the bins leaves them as they are.
LEMMA SameBins ==
    ASSUME NEW h, HasBins(h), NEW h2, Rest(h, h2)
    PROVE  HasBins(h2) /\ h2.bins = h.bins
<1>1. "bins" \in DOMAIN h \ {"hdr", "ftr", "hi"}
  BY DEF HasBins
<1> QED
  BY <1>1 DEF HasBins, Rest

\* Writing the head of a bin leaves the rest as it is.
LEMMA SetBin ==
    ASSUME NEW h, IsHeap(h), HasBins(h), NEW i \in Bins, NEW n \in Units \cup {NULL}
    PROVE  LET h2 == [h EXCEPT !.bins[i] = n]
           IN  /\ IsHeap(h2) /\ HasBins(h2) /\ h2.hdr = h.hdr /\ h2.ftr = h.ftr /\ h2.hi = h.hi
               /\ h2.bins[i] = n /\ \A j \in Bins \ {i} : h2.bins[j] = h.bins[j]
<1> DEFINE v  == [h.bins EXCEPT ![i] = n]
           h2 == [h EXCEPT !.bins = v]
<1>1. v \in [Bins -> Units \cup {NULL}] /\ v[i] = n /\ \A j \in Bins \ {i} : v[j] = h.bins[j]
  BY DEF HasBins
<1>2. [h EXCEPT !.bins[i] = n] = h2
  OBVIOUS
<1> HIDE DEF v
<1>3. DOMAIN h2 = DOMAIN h /\ h2.bins = v /\ h2.hdr = h.hdr /\ h2.ftr = h.ftr /\ h2.hi = h.hi
  BY DEF HasBins, IsHeap
<1> HIDE DEF h2
<1>4. IsHeap(h2)
  BY <1>3 DEF IsHeap
<1>5. HasBins(h2)
  BY <1>1, <1>3 DEF HasBins
<1> QED
  BY <1>1, <1>2, <1>3, <1>4, <1>5

\* New links, with the bins as they were.
LEMMA NewLinks ==
    ASSUME NEW h, IsHeap(h), HasBins(h), NEW C, Tiled(h, C), NEW h2, NEW N, NEW P,
           Relinked(h, h2, C, {}, N, P), NEW U \in SUBSET C, U \cap (N \cup P) = {}
    PROVE  /\ IsHeap(h2) /\ HasBins(h2) /\ Tiled(h2, C) /\ h2.bins = h.bins
           /\ SameShape(h, h2, C) /\ Kept(h, h2, U)
           /\ \A d \in C \ N : next(h2, d) = next(h, d)
           /\ \A d \in C \ P : prev(h2, d) = prev(h, d)
<1>1. IsHeap(h2) /\ Rest(h, h2) /\ SameShape(h, h2, C)
  BY DEF Relinked, SameShape
<1>2. HasBins(h2) /\ h2.bins = h.bins
  BY <1>1, SameBins
<1>3. Tiled(h2, C)
  BY StillTiled
<1>4. U \cap ({} \cup N \cup P) = {}
  OBVIOUS
<1>5. Kept(h, h2, U)
  BY <1>4, RelinkedKeeps
<1> QED
  BY <1>1, <1>2, <1>3, <1>5 DEF Relinked

\* A new head of a bin, with all chunks as they were.
LEMMA NewHead ==
    ASSUME NEW h, IsHeap(h), HasBins(h), NEW C, Tiled(h, C), NEW i \in Bins,
           NEW n \in Units \cup {NULL}
    PROVE  LET h2 == [h EXCEPT !.bins[i] = n]
           IN  /\ IsHeap(h2) /\ HasBins(h2) /\ Tiled(h2, C)
               /\ h2.bins[i] = n /\ (\A j \in Bins \ {i} : h2.bins[j] = h.bins[j])
               /\ SameShape(h, h2, C) /\ Kept(h, h2, C)
               /\ \A d \in C : next(h2, d) = next(h, d) /\ prev(h2, d) = prev(h, d)
<1> DEFINE h2 == [h EXCEPT !.bins[i] = n]
<1>1. /\ IsHeap(h2) /\ HasBins(h2) /\ h2.hdr = h.hdr /\ h2.ftr = h.ftr /\ h2.hi = h.hi
      /\ h2.bins[i] = n /\ \A j \in Bins \ {i} : h2.bins[j] = h.bins[j]
  BY SetBin
<1> HIDE DEF h2
<1>2. \A d : /\ status(h2, d) = status(h, d) /\ span(h2, d) = span(h, d)
             /\ next(h2, d) = next(h, d) /\ footer(h2, d) = footer(h, d)
             /\ prev(h2, d) = prev(h, d)
  BY <1>1 DEF status, span, next, prev, footer
<1>3. Tiled(h2, C)
  BY <1>1, <1>2 DEF Tiled
<1>4. Kept(h, h2, C)
  BY <1>1, <1>2 DEF Kept, SameChunk
<1>5. SameShape(h, h2, C)
  BY <1>1, <1>2 DEF SameShape
<1> QED
  BY <1>1, <1>2, <1>3, <1>4, <1>5 DEF h2

\* The facts about a shaped heap that the proofs below start from.
LEMMA ShapedIs ==
    ASSUME NEW h, NEW C, NEW X, Shaped(h, C, X)
    PROVE  /\ IsHeap(h) /\ HasBins(h) /\ Tiled(h, C) /\ C \in SUBSET Units
           /\ UsedOf(h, C) \in SUBSET C /\ UsedOf(h, C) \cap FreeOf(h, C) = {}
           /\ C = FreeOf(h, C) \cup UsedOf(h, C)
           /\ \A c \in C : /\ c \in Units /\ c # NULL /\ span(h, c) \in Nat
                           /\ get_bin_index(span(h, c)) \in Bins
           /\ \A i \in Bins : /\ Linked(h, InBin(h, C, X, i), h.bins[i])
                              /\ InBin(h, C, X, i) \subseteq FreeOf(h, C) \ X
                              /\ h.bins[i] \in Units \cup {NULL}
<1>1. IsHeap(h) /\ HasBins(h) /\ Tiled(h, C) /\ Binned(h, C, X)
  BY DEF Shaped
<1>2. \A c \in C : c \in Units /\ c # NULL /\ span(h, c) \in Nat
  BY <1>1, InTiling
<1>3. \A c \in C : get_bin_index(span(h, c)) \in Bins
  BY <1>2, BinIs
<1>4. /\ C = FreeOf(h, C) \cup UsedOf(h, C) /\ UsedOf(h, C) \cap FreeOf(h, C) = {}
      /\ UsedOf(h, C) \in SUBSET C
  BY <1>1, FreeOrUsed DEF UsedOf
<1>5. \A i \in Bins : InBin(h, C, X, i) \subseteq FreeOf(h, C) \ X
  BY DEF InBin
<1> QED
  BY <1>1, <1>2, <1>3, <1>4, <1>5 DEF Binned, HasBins

\* bin_detach takes c out of its bin, and its assertions hold.
LEMMA Detach ==
    ASSUME NEW h, NEW C, NEW X, Shaped(h, C, X), NEW c \in FreeOf(h, C) \ X
    PROVE  LET h2 == bin_detach(h, c)
           IN  /\ MayDetach(h, c)
               /\ Shaped(h2, C, X \cup {c}) /\ SameShape(h, h2, C) /\ Kept(h, h2, UsedOf(h, C))
               /\ next(h2, c) = NULL /\ prev(h2, c) = NULL
<1> DEFINE i  == get_bin_index(span(h, c))
           F  == InBin(h, C, X, i)
           U  == UsedOf(h, C)
           p  == prev(h, c)
           n  == next(h, c)
           h1 == IF p = NULL THEN [h EXCEPT !.bins[i] = n] ELSE set_next(h, p, n)
           h2 == IF n # NULL THEN set_prev(h1, n, p) ELSE h1
           h3 == set_links(h2, c, NULL, NULL)
           Other(d) == d # c /\ d # p /\ d # n
<1>1. /\ IsHeap(h) /\ HasBins(h) /\ Tiled(h, C) /\ C \in SUBSET Units
      /\ U \in SUBSET C /\ U \cap FreeOf(h, C) = {} /\ c \in C /\ c # NULL
      /\ i \in Bins /\ c \in F /\ F \in SUBSET (FreeOf(h, C) \ X) /\ Linked(h, F, h.bins[i])
      /\ F \in SUBSET C /\ status(h, c) = CHUNK_FREE
  <2>1. c \in C /\ c \in FreeOf(h, C) \ X /\ status(h, c) = CHUNK_FREE
    BY DEF FreeOf
  <2>2. /\ IsHeap(h) /\ HasBins(h) /\ Tiled(h, C) /\ C \in SUBSET Units
        /\ U \in SUBSET C /\ U \cap FreeOf(h, C) = {}
    BY ShapedIs
  <2>3. c # NULL /\ i \in Bins
    BY <2>1, ShapedIs
  <2> HIDE DEF i
  <2>4. F \in SUBSET (FreeOf(h, C) \ X) /\ Linked(h, F, h.bins[i])
    BY <2>3, ShapedIs
  <2>5. c \in F
    BY <2>1 DEF F, InBin, i
  <2>6. FreeOf(h, C) \in SUBSET C
    BY DEF FreeOf
  <2> HIDE DEF F, U
  <2> QED
    BY <2>1, <2>2, <2>3, <2>4, <2>5, <2>6
<1>2. /\ p = NULL => h.bins[i] = c
      /\ p # NULL => p \in F /\ next(h, p) = c
      /\ n # NULL => n \in F /\ prev(h, n) = c
  BY <1>1 DEF Linked, Forth, Back
<1>3. p \in C \cup {NULL} /\ n \in C \cup {NULL}
      /\ (p # NULL => p \notin U) /\ (n # NULL => n \notin U) /\ c \notin U
  BY <1>1, <1>2
<1>4. MayDetach(h, c)
  BY <1>1, <1>2 DEF MayDetach
<1> HIDE DEF i, F, U, p, n
<1>5. /\ IsHeap(h1) /\ HasBins(h1) /\ Tiled(h1, C) /\ SameShape(h, h1, C) /\ Kept(h, h1, U)
      /\ h1.bins[i] = (IF p = NULL THEN n ELSE h.bins[i])
      /\ (\A j \in Bins \ {i} : h1.bins[j] = h.bins[j])
      /\ \A d \in C : /\ prev(h1, d) = prev(h, d)
                      /\ next(h1, d) = IF d = p THEN n ELSE next(h, d)
  <2>1. CASE p = NULL
    <3>1. h1 = [h EXCEPT !.bins[i] = n] /\ n \in Units \cup {NULL}
      BY <1>1, <1>3, <2>1
    <3> HIDE DEF h1
    <3>2. /\ IsHeap(h1) /\ HasBins(h1) /\ Tiled(h1, C) /\ SameShape(h, h1, C) /\ Kept(h, h1, C)
          /\ h1.bins[i] = n /\ (\A j \in Bins \ {i} : h1.bins[j] = h.bins[j])
          /\ \A d \in C : next(h1, d) = next(h, d) /\ prev(h1, d) = prev(h, d)
      BY <1>1, <3>1, NewHead
    <3>3. Kept(h, h1, U)
      BY <1>1, <3>2 DEF Kept
    <3>4. \A d \in C : d # p
      BY <1>1, <2>1, ShapedIs
    <3> QED
      BY <2>1, <3>2, <3>3, <3>4
  <2>2. CASE p # NULL
    <3>1. h1 = set_next(h, p, n) /\ p \in C /\ n \in C \cup {NULL}
      BY <1>3, <2>2
    <3> HIDE DEF h1
    <3>2. Relinked(h, h1, C, {}, {p}, {}) /\ next(h1, p) = n
      BY <1>1, <3>1, SetNext
    <3>3. U \cap ({p} \cup {}) = {}
      BY <1>3, <2>2
    <3>4. /\ IsHeap(h1) /\ HasBins(h1) /\ Tiled(h1, C) /\ h1.bins = h.bins
          /\ SameShape(h, h1, C) /\ Kept(h, h1, U)
          /\ (\A d \in C \ {p} : next(h1, d) = next(h, d))
          /\ \A d \in C \ {} : prev(h1, d) = prev(h, d)
      BY <1>1, <3>2, <3>3, NewLinks
    <3> QED
      BY <2>2, <3>2, <3>4
  <2> QED
    BY <2>1, <2>2
<1> HIDE DEF h1
<1>6. /\ IsHeap(h2) /\ HasBins(h2) /\ Tiled(h2, C) /\ SameShape(h, h2, C) /\ Kept(h, h2, U)
      /\ h2.bins = h1.bins
      /\ \A d \in C : /\ next(h2, d) = next(h1, d)
                      /\ prev(h2, d) = IF d = n THEN p ELSE prev(h1, d)
  <2>1. CASE n = NULL
    <3>1. h2 = h1 /\ \A d \in C : d # n
      BY <1>1, <2>1, ShapedIs
    <3> QED
      BY <1>5, <3>1
  <2>2. CASE n # NULL
    <3>1. h2 = set_prev(h1, n, p) /\ n \in C /\ p \in C \cup {NULL}
      BY <1>3, <2>2
    <3> HIDE DEF h2
    <3>2. Relinked(h1, h2, C, {}, {}, {n}) /\ prev(h2, n) = p
      BY <1>5, <3>1, SetPrev
    <3>3. U \cap ({} \cup {n}) = {}
      BY <1>3, <2>2
    <3>4. /\ IsHeap(h2) /\ HasBins(h2) /\ Tiled(h2, C) /\ h2.bins = h1.bins
          /\ SameShape(h1, h2, C) /\ Kept(h1, h2, U)
          /\ (\A d \in C \ {} : next(h2, d) = next(h1, d))
          /\ \A d \in C \ {n} : prev(h2, d) = prev(h1, d)
      BY <1>1, <1>5, <3>2, <3>3, NewLinks
    <3>5. Kept(h, h2, U) /\ SameShape(h, h2, C)
      BY <1>5, <3>4, KeptOn DEF SameShape
    <3> QED
      BY <3>2, <3>4, <3>5
  <2> QED
    BY <2>1, <2>2
<1> HIDE DEF h2
<1>7. /\ IsHeap(h3) /\ HasBins(h3) /\ Tiled(h3, C) /\ SameShape(h, h3, C) /\ Kept(h, h3, U)
      /\ h3.bins = h1.bins /\ next(h3, c) = NULL /\ prev(h3, c) = NULL
      /\ \A d \in C \ {c} : /\ next(h3, d) = IF d = p THEN n ELSE next(h, d)
                            /\ prev(h3, d) = IF d = n THEN p ELSE prev(h, d)
  <2>1. Relinked(h2, h3, C, {}, {c}, {c}) /\ next(h3, c) = NULL /\ prev(h3, c) = NULL
    BY <1>1, <1>6, SetLinks
  <2> HIDE DEF h3
  <2>2. U \cap ({c} \cup {c}) = {}
    BY <1>3
  <2>3. /\ IsHeap(h3) /\ HasBins(h3) /\ Tiled(h3, C) /\ h3.bins = h2.bins
        /\ SameShape(h2, h3, C) /\ Kept(h2, h3, U)
        /\ (\A d \in C \ {c} : next(h3, d) = next(h2, d))
        /\ \A d \in C \ {c} : prev(h3, d) = prev(h2, d)
    BY <1>1, <1>6, <2>1, <2>2, NewLinks
  <2>4. Kept(h, h3, U) /\ SameShape(h, h3, C)
    BY <1>6, <2>3, KeptOn DEF SameShape
  <2> QED
    BY <1>5, <1>6, <2>1, <2>3, <2>4
<1>8. bin_detach(h, c) = h3
  BY DEF bin_detach, h1, h2, i, p, n
<1> HIDE DEF h3
<1>9. ASSUME NEW j \in Bins PROVE Linked(h3, InBin(h3, C, X \cup {c}, j), h3.bins[j])
  <2>1. InBin(h3, C, X \cup {c}, j) = InBin(h, C, X, j) \ {c}
    BY <1>7 DEF InBin, FreeOf, SameShape
  <2>2. CASE j = i
    <3>1. \A d \in F \ {c} : /\ next(h3, d) = IF d = prev(h, c) THEN next(h, c) ELSE next(h, d)
                             /\ prev(h3, d) = IF d = next(h, c) THEN prev(h, c) ELSE prev(h, d)
      BY <1>1, <1>7 DEF p, n
    <3>2. Linked(h3, F \ {c}, IF prev(h, c) = NULL THEN next(h, c) ELSE h.bins[i])
      BY <1>1, <3>1, TakenOut
    <3> QED
      BY <1>5, <1>7, <2>1, <2>2, <3>2 DEF p, n, F
  <2>3. CASE j # i
    <3> DEFINE G == InBin(h, C, X, j)
    <3>1. \A d \in G : d \in C /\ d # c /\ d # p /\ d # n
      <4>1. \A d \in F : d \notin G
        BY <2>3 DEF F, InBin
      <4>2. \A d \in G : d \in C /\ d # NULL
        BY ShapedIs DEF InBin, FreeOf
      <4> QED
        BY <1>1, <1>2, <4>1, <4>2
    <3>2. Linked(h, G, h.bins[j]) /\ G \ {c} = G
      BY <3>1, ShapedIs
    <3>3. \A d \in G : next(h3, d) = next(h, d) /\ prev(h3, d) = prev(h, d)
      BY <1>7, <3>1
    <3> HIDE DEF G
    <3>4. Linked(h3, G, h.bins[j])
      BY <3>2, <3>3, SameList
    <3>5. h3.bins[j] = h.bins[j]
      BY <1>5, <1>7, <2>3
    <3> QED
      BY <2>1, <3>2, <3>4, <3>5 DEF G
  <2> QED
    BY <2>2, <2>3
<1>10. Shaped(h3, C, X \cup {c})
  BY <1>7, <1>9 DEF Shaped, Binned
<1> QED
  BY <1>4, <1>7, <1>8, <1>10 DEF U

\* Insert puts c at the head of its bin.
LEMMA Insertion ==
    ASSUME NEW h, NEW C, NEW X, Shaped(h, C, X), NEW c \in FreeOf(h, C) \cap X
    PROVE  LET h2 == Insert(h, c)
           IN  Shaped(h2, C, X \ {c}) /\ SameShape(h, h2, C) /\ Kept(h, h2, UsedOf(h, C))
<1> DEFINE i  == get_bin_index(span(h, c))
           F  == InBin(h, C, X, i)
           U  == UsedOf(h, C)
           n  == h.bins[i]
           h1 == set_links(h, c, NULL, n)
           h2 == IF n # NULL THEN set_prev(h1, n, c) ELSE h1
           h3 == [h2 EXCEPT !.bins[i] = c]
<1>1. /\ IsHeap(h) /\ HasBins(h) /\ Tiled(h, C) /\ C \in SUBSET Units
      /\ U \in SUBSET C /\ U \cap FreeOf(h, C) = {} /\ c \in C /\ c # NULL /\ c \in Units
      /\ i \in Bins /\ c \notin F /\ F \in SUBSET (FreeOf(h, C) \ X) /\ Linked(h, F, n)
      /\ F \in SUBSET C /\ status(h, c) = CHUNK_FREE
  <2>1. c \in C /\ c \in FreeOf(h, C) /\ c \in X /\ status(h, c) = CHUNK_FREE
    BY DEF FreeOf
  <2>2. /\ IsHeap(h) /\ HasBins(h) /\ Tiled(h, C) /\ C \in SUBSET Units
        /\ U \in SUBSET C /\ U \cap FreeOf(h, C) = {}
    BY ShapedIs
  <2>3. c # NULL /\ c \in Units /\ i \in Bins
    BY <2>1, ShapedIs
  <2> HIDE DEF i
  <2>4. F \in SUBSET (FreeOf(h, C) \ X) /\ Linked(h, F, n)
    BY <2>3, ShapedIs
  <2>5. FreeOf(h, C) \in SUBSET C
    BY DEF FreeOf
  <2> HIDE DEF F, U, n
  <2> QED
    BY <2>1, <2>2, <2>3, <2>4, <2>5
<1>2. (n # NULL => n \in F) /\ n \in C \cup {NULL} /\ (n # NULL => n \notin U) /\ c \notin U
      /\ c # n
  BY <1>1 DEF Linked
<1> HIDE DEF i, F, U, n
<1>3. /\ IsHeap(h1) /\ HasBins(h1) /\ Tiled(h1, C) /\ SameShape(h, h1, C) /\ Kept(h, h1, U)
      /\ h1.bins = h.bins /\ next(h1, c) = n /\ prev(h1, c) = NULL
      /\ \A d \in C \ {c} : next(h1, d) = next(h, d) /\ prev(h1, d) = prev(h, d)
  <2>1. Relinked(h, h1, C, {}, {c}, {c}) /\ next(h1, c) = n /\ prev(h1, c) = NULL
    BY <1>1, <1>2, SetLinks
  <2> HIDE DEF h1
  <2>2. U \cap ({c} \cup {c}) = {}
    BY <1>2
  <2>3. /\ IsHeap(h1) /\ HasBins(h1) /\ Tiled(h1, C) /\ h1.bins = h.bins
        /\ SameShape(h, h1, C) /\ Kept(h, h1, U)
        /\ (\A d \in C \ {c} : next(h1, d) = next(h, d))
        /\ \A d \in C \ {c} : prev(h1, d) = prev(h, d)
    BY <1>1, <2>1, <2>2, NewLinks
  <2> QED
    BY <2>1, <2>3
<1> HIDE DEF h1
<1>4. /\ IsHeap(h2) /\ HasBins(h2) /\ Tiled(h2, C) /\ SameShape(h, h2, C) /\ Kept(h, h2, U)
      /\ h2.bins = h.bins
      /\ \A d \in C : /\ next(h2, d) = next(h1, d)
                      /\ prev(h2, d) = IF d = n THEN c ELSE prev(h1, d)
  <2>1. CASE n = NULL
    <3>1. h2 = h1 /\ \A d \in C : d # n
      BY <1>1, <2>1, ShapedIs
    <3> QED
      BY <1>3, <3>1
  <2>2. CASE n # NULL
    <3>1. h2 = set_prev(h1, n, c) /\ n \in C /\ c \in C \cup {NULL}
      BY <1>1, <1>2, <2>2
    <3> HIDE DEF h2
    <3>2. Relinked(h1, h2, C, {}, {}, {n}) /\ prev(h2, n) = c
      BY <1>3, <3>1, SetPrev
    <3>3. U \cap ({} \cup {n}) = {}
      BY <1>2, <2>2
    <3>4. /\ IsHeap(h2) /\ HasBins(h2) /\ Tiled(h2, C) /\ h2.bins = h1.bins
          /\ SameShape(h1, h2, C) /\ Kept(h1, h2, U)
          /\ (\A d \in C \ {} : next(h2, d) = next(h1, d))
          /\ \A d \in C \ {n} : prev(h2, d) = prev(h1, d)
      BY <1>1, <1>3, <3>2, <3>3, NewLinks
    <3>5. Kept(h, h2, U) /\ SameShape(h, h2, C)
      BY <1>3, <3>4, KeptOn DEF SameShape
    <3> QED
      BY <1>3, <3>2, <3>4, <3>5
  <2> QED
    BY <2>1, <2>2
<1> HIDE DEF h2
<1>5. /\ IsHeap(h3) /\ HasBins(h3) /\ Tiled(h3, C) /\ SameShape(h, h3, C) /\ Kept(h, h3, U)
      /\ h3.bins[i] = c /\ (\A j \in Bins \ {i} : h3.bins[j] = h.bins[j])
      /\ next(h3, c) = n /\ prev(h3, c) = NULL
      /\ \A d \in C \ {c} : /\ next(h3, d) = next(h, d)
                            /\ prev(h3, d) = IF d = n THEN c ELSE prev(h, d)
  <2>1. c \in Units \cup {NULL}
    BY <1>1
  <2>2. /\ IsHeap(h3) /\ HasBins(h3) /\ Tiled(h3, C)
        /\ h3.bins[i] = c /\ (\A j \in Bins \ {i} : h3.bins[j] = h2.bins[j])
        /\ SameShape(h2, h3, C) /\ Kept(h2, h3, C)
        /\ \A d \in C : next(h3, d) = next(h2, d) /\ prev(h3, d) = prev(h2, d)
    BY <1>1, <1>4, <2>1, NewHead
  <2> HIDE DEF h3
  <2>3. Kept(h2, h3, U)
    BY <1>1, <2>2 DEF Kept
  <2>4. Kept(h, h3, U) /\ SameShape(h, h3, C)
    BY <1>4, <2>2, <2>3, KeptOn DEF SameShape
  <2> QED
    BY <1>1, <1>2, <1>3, <1>4, <2>2, <2>4
<1>6. Insert(h, c) = h3
  BY DEF Insert, h1, h2, h3, i, n
<1> HIDE DEF h3
<1>7. ASSUME NEW j \in Bins PROVE Linked(h3, InBin(h3, C, X \ {c}, j), h3.bins[j])
  <2>1. CASE j = i
    <3>1. InBin(h3, C, X \ {c}, j) = F \cup {c}
      BY <1>1, <1>5, <2>1 DEF InBin, FreeOf, SameShape, F, i
    <3>2. \A d \in F : /\ next(h3, d) = next(h, d)
                       /\ prev(h3, d) = IF d = n THEN c ELSE prev(h, d)
      BY <1>1, <1>5
    <3>3. Linked(h3, F \cup {c}, c)
      BY <1>1, <1>5, <3>2, PutFirst
    <3> QED
      BY <1>5, <2>1, <3>1, <3>3
  <2>2. CASE j # i
    <3> DEFINE G == InBin(h, C, X, j)
    <3>1. InBin(h3, C, X \ {c}, j) = G
      BY <1>1, <1>5, <2>2 DEF InBin, FreeOf, SameShape, i
    <3>2. \A d \in G : d \in C /\ d # c /\ d # n
      <4>1. \A d \in F : d \notin G
        BY <2>2 DEF F, InBin
      <4>2. \A d \in G : d \in C /\ d # NULL /\ d \notin X
        BY ShapedIs DEF InBin, FreeOf
      <4> QED
        BY <1>1, <1>2, <4>1, <4>2
    <3>3. \A d \in G : next(h3, d) = next(h, d) /\ prev(h3, d) = prev(h, d)
      BY <1>5, <3>2
    <3>4. Linked(h, G, h.bins[j])
      BY ShapedIs
    <3> HIDE DEF G
    <3>5. Linked(h3, G, h.bins[j])
      BY <3>3, <3>4, SameList
    <3> QED
      BY <1>5, <2>2, <3>1, <3>5
  <2> QED
    BY <2>1, <2>2
<1>8. Shaped(h3, C, X \ {c})
  BY <1>5, <1>7 DEF Shaped, Binned
<1> QED
  BY <1>5, <1>6, <1>8 DEF U

\* Of the chunks a and b one is made, at a.
Merged(h, h2, C, X, a, b) ==
    /\ Shaped(h2, C \ {b}, X \ {b}) /\ h2.hi = h.hi /\ a # b
    /\ span(h2, a) = span(h, a) + span(h, b)
    /\ FreeOf(h2, C \ {b}) = FreeOf(h, C) \ {b} /\ UsedOf(h2, C \ {b}) = UsedOf(h, C)
    /\ \A d \in C \ {b} : d # a => span(h2, d) = span(h, d)
    /\ Kept(h, h2, UsedOf(h, C))

\* coalesce_two makes one chunk of two that are in no bin.
LEMMA Coalesce ==
    ASSUME NEW h, NEW C, NEW X, Shaped(h, C, X), NEW a \in FreeOf(h, C) \cap X,
           NEW b \in FreeOf(h, C) \cap X, a + span(h, a) = b
    PROVE  Merged(h, coalesce_two(h, a, b), C, X, a, b)
<1> DEFINE s  == span(h, a) + span(h, b)
           h1 == set_span(h, a, s)
           h2 == set_links(h1, a, NULL, NULL)
           D  == C \ {b}
           U  == UsedOf(h, C)
<1>1. /\ IsHeap(h) /\ HasBins(h) /\ Tiled(h, C) /\ U \in SUBSET C /\ U \cap FreeOf(h, C) = {}
      /\ a \in C /\ b \in C /\ a \in D /\ a # b /\ a \notin U /\ b \notin U
  <2>1. a \in C /\ b \in C
    BY DEF FreeOf
  <2>2. /\ IsHeap(h) /\ HasBins(h) /\ Tiled(h, C) /\ U \in SUBSET C /\ U \cap FreeOf(h, C) = {}
    BY ShapedIs
  <2>3. a \in Nat /\ span(h, a) \in Nat /\ span(h, a) >= 2
    BY <2>1, <2>2, InTiling
  <2> HIDE DEF U
  <2> QED
    BY <2>1, <2>2, <2>3
<1> HIDE DEF U
<1>2. /\ IsHeap(h1) /\ Rest(h, h1) /\ h1.hi = h.hi /\ Tiled(h1, D)
      /\ span(h1, a) = s /\ status(h1, a) = status(h, a)
      /\ (\A d \in D \ {a} : SameChunk(h, h1, d))
      /\ Kept(h, h1, D \ {a})
  <2>1. Absorbed(h, h1, C, a, b)
    BY <1>1, Merges
  <2> QED
    BY <2>1 DEF Absorbed
<1> HIDE DEF h1
<1>3. HasBins(h1) /\ h1.bins = h.bins
  BY <1>1, <1>2, SameBins
<1>4. U \in SUBSET D /\ Kept(h, h1, U) /\ U \cap ({a} \cup {a}) = {}
  <2>1. U \subseteq D \ {a}
    BY <1>1
  <2> QED
    BY <1>1, <1>2, <2>1 DEF Kept
<1>5. Relinked(h1, h2, D, {}, {a}, {a})
  BY <1>1, <1>2, SetLinks
<1> HIDE DEF h2
<1>6. /\ IsHeap(h2) /\ HasBins(h2) /\ Tiled(h2, D) /\ h2.bins = h1.bins
      /\ SameShape(h1, h2, D) /\ Kept(h1, h2, U)
      /\ (\A d \in D \ {a} : next(h2, d) = next(h1, d))
      /\ (\A d \in D \ {a} : prev(h2, d) = prev(h1, d))
  BY <1>2, <1>3, <1>4, <1>5, NewLinks
<1>7. /\ h2.hi = h.hi /\ span(h2, a) = s /\ Kept(h, h2, U)
      /\ \A d \in D : status(h2, d) = status(h, d)
      /\ \A d \in D \ {a} : /\ span(h2, d) = span(h, d) /\ next(h2, d) = next(h, d)
                            /\ prev(h2, d) = prev(h, d)
  <2>1. Kept(h, h2, U)
    BY <1>4, <1>6, KeptOn
  <2> QED
    BY <1>1, <1>2, <1>6, <2>1 DEF SameShape, SameChunk
<1> HIDE DEF s
<1>8. FreeOf(h2, D) = FreeOf(h, C) \ {b} /\ UsedOf(h2, D) = U
  <2>1. FreeOf(h2, D) = FreeOf(h, C) \ {b}
    BY <1>7 DEF FreeOf
  <2>2. UsedOf(h2, D) = UsedOf(h, C) \ {b}
    BY <1>7 DEF UsedOf
  <2> QED
    BY <1>1, <2>1, <2>2 DEF U
<1>9. ASSUME NEW j \in Bins PROVE Linked(h2, InBin(h2, D, X \ {b}, j), h2.bins[j])
  <2> DEFINE G == InBin(h, C, X, j)
  <2>1. \A d \in G : d \in D \ {a}
    BY DEF InBin, FreeOf
  <2>2. InBin(h2, D, X \ {b}, j) = G
    <3>1. FreeOf(h2, D) \ (X \ {b}) = FreeOf(h, C) \ X
      BY <1>8
    <3>2. \A d \in FreeOf(h, C) \ X : span(h2, d) = span(h, d)
      BY <1>7 DEF FreeOf
    <3> QED
      BY <3>1, <3>2 DEF InBin
  <2>3. \A d \in G : next(h2, d) = next(h, d) /\ prev(h2, d) = prev(h, d)
    BY <1>7, <2>1
  <2>4. Linked(h, G, h.bins[j])
    BY ShapedIs
  <2> HIDE DEF G
  <2>5. Linked(h2, G, h.bins[j])
    BY <2>3, <2>4, SameList
  <2> QED
    BY <1>3, <1>6, <2>2, <2>5
<1>10. Shaped(h2, D, X \ {b})
  BY <1>6, <1>9 DEF Shaped, Binned
<1>11. coalesce_two(h, a, b) = h2
  BY DEF coalesce_two, h1, h2, s
<1> QED
  BY <1>1, <1>7, <1>8, <1>10, <1>11 DEF U, s, Merged

----------------------------------------------------------------------------
(* bin_push_front.                                                         *)

\* What was freed has been put in a bin, merged into a chunk as large at least; the
\* chunks in use are kept.
Freed(h, h2, C, D, c) ==
    /\ Good(h2, D) /\ D \subseteq C /\ h2.hi = h.hi
    /\ UsedOf(h2, D) = UsedOf(h, C) \ {c} /\ Kept(h, h2, UsedOf(h, C) \ {c})
    /\ \E m \in FreeOf(h2, D) : span(h2, m) >= span(h, c)

\* The same while c is still to be put in a bin: it is free, and what follows it is not.
Joined(h, h2, C, D, c) ==
    /\ Shaped(h2, D, {c}) /\ D \subseteq C /\ h2.hi = h.hi
    /\ c \in FreeOf(h2, D) /\ span(h2, c) >= span(h, c)
    /\ c + span(h2, c) \notin FreeOf(h2, D) /\ Apart(h2, D, {c})
    /\ UsedOf(h2, D) = UsedOf(h, C) /\ Kept(h, h2, UsedOf(h, C))

\* The first half: c is merged with the chunk after it.
LEMMA JoinsNext ==
    ASSUME NEW h, NEW C, NEW c \in FreeOf(h, C), Shaped(h, C, {c}), Apart(h, C, {c})
    PROVE  LET nxt == adjacent(h, c)
               h2  == IF IsFree(h, nxt) THEN coalesce_two(bin_detach(h, nxt), c, nxt) ELSE h
           IN  \E D : Joined(h, h2, C, D, c)
<1> DEFINE nxt == adjacent(h, c)
           h1  == bin_detach(h, nxt)
           h2  == coalesce_two(h1, c, nxt)
           D   == C \ {nxt}
<1>1. /\ IsHeap(h) /\ Tiled(h, C) /\ c \in C /\ c \in Nat /\ span(h, c) \in Nat /\ span(h, c) >= 2
      /\ UsedOf(h, C) \in SUBSET C
  <2>1. IsHeap(h) /\ Tiled(h, C) /\ c \in C /\ UsedOf(h, C) \in SUBSET C
    BY ShapedIs DEF FreeOf
  <2> QED
    BY <2>1, InTiling
<1>2. /\ IsFree(h, nxt) <=> c + span(h, c) \in FreeOf(h, C)
      /\ IsFree(h, nxt) => nxt = c + span(h, c)
  BY <1>1, AdjacentIs
<1> HIDE DEF nxt
<1>3. CASE ~IsFree(h, nxt)
  <2>1. Kept(h, h, UsedOf(h, C))
    BY DEF Kept, SameChunk
  <2>2. Joined(h, h, C, C, c)
    BY <1>1, <1>2, <1>3, <2>1 DEF Joined
  <2> QED
    BY <1>3, <2>2 DEF nxt
<1>4. CASE IsFree(h, nxt)
  <2>1. nxt \in FreeOf(h, C) \ {c} /\ nxt = c + span(h, c) /\ nxt \in Nat /\ nxt > c /\ nxt \in C
        /\ span(h, nxt) \in Nat /\ span(h, nxt) >= 2
    <3>1. nxt \in FreeOf(h, C) /\ nxt \in C /\ nxt = c + span(h, c)
      BY <1>2, <1>4 DEF FreeOf
    <3> QED
      BY <1>1, <3>1, InTiling
  <2>2. /\ Shaped(h1, C, {c} \cup {nxt}) /\ SameShape(h, h1, C) /\ Kept(h, h1, UsedOf(h, C))
    BY <2>1, Detach
  <2> HIDE DEF h1
  <2>3. /\ FreeOf(h1, C) = FreeOf(h, C) /\ UsedOf(h1, C) = UsedOf(h, C) /\ h1.hi = h.hi
        /\ \A d \in C : span(h1, d) = span(h, d)
    BY <2>2, SameParts DEF SameShape
  <2>4. /\ c \in FreeOf(h1, C) \cap ({c} \cup {nxt}) /\ nxt \in FreeOf(h1, C) \cap ({c} \cup {nxt})
        /\ c + span(h1, c) = nxt
    BY <1>1, <2>1, <2>3
  <2>5. /\ Shaped(h2, D, ({c} \cup {nxt}) \ {nxt}) /\ h2.hi = h1.hi
        /\ span(h2, c) = span(h1, c) + span(h1, nxt)
        /\ FreeOf(h2, D) = FreeOf(h1, C) \ {nxt} /\ UsedOf(h2, D) = UsedOf(h1, C)
        /\ (\A d \in D \ {c} : span(h2, d) = span(h1, d))
        /\ Kept(h1, h2, UsedOf(h1, C))
    <3>1. Merged(h1, h2, C, {c} \cup {nxt}, c, nxt)
      BY <2>2, <2>4, Coalesce
    <3> HIDE DEF h2
    <3> QED
      BY <3>1 DEF Merged
  <2> HIDE DEF h2
  <2>6. ({c} \cup {nxt}) \ {nxt} = {c} /\ D \subseteq C
    BY <2>1
  <2>7. /\ Shaped(h2, D, {c}) /\ h2.hi = h.hi
        /\ span(h2, c) = span(h, c) + span(h, nxt)
        /\ FreeOf(h2, D) = FreeOf(h, C) \ {nxt} /\ UsedOf(h2, D) = UsedOf(h, C)
        /\ \A d \in D \ {c} : span(h2, d) = span(h, d)
    BY <1>1, <2>1, <2>3, <2>5, <2>6
  <2>8. Kept(h, h2, UsedOf(h, C))
    BY <2>2, <2>3, <2>5, KeptOn
  <2>9. c \in FreeOf(h2, D) /\ span(h2, c) >= span(h, c)
    BY <1>1, <2>1, <2>7
  <2>10. c + span(h2, c) \notin FreeOf(h2, D)
    <3>1. nxt + span(h, nxt) \notin FreeOf(h, C) \ {c}
      BY <2>1 DEF Apart
    <3>2. c + span(h2, c) = nxt + span(h, nxt) /\ nxt + span(h, nxt) # c
      BY <1>1, <2>1, <2>7
    <3> QED
      BY <2>7, <3>1, <3>2
  <2>11. Apart(h2, D, {c})
    <3> SUFFICES ASSUME NEW d \in FreeOf(h2, D) \ {c}
                 PROVE  d + span(h2, d) \notin FreeOf(h2, D) \ {c}
      BY DEF Apart
    <3>1. d \in FreeOf(h, C) \ {c} /\ d \in D \ {c}
      BY <2>7 DEF FreeOf
    <3>2. d + span(h, d) \notin FreeOf(h, C) \ {c} /\ span(h2, d) = span(h, d)
      BY <2>7, <3>1 DEF Apart
    <3> QED
      BY <2>7, <3>2
  <2>12. Joined(h, h2, C, D, c)
    BY <2>6, <2>7, <2>8, <2>9, <2>10, <2>11 DEF Joined
  <2> QED
    BY <1>4, <2>12 DEF nxt, h1, h2
<1> QED
  BY <1>3, <1>4

\* The second half: c is merged with the chunk before it and put in a bin.
LEMMA JoinsPrevious ==
    ASSUME NEW h, NEW C, NEW c \in FreeOf(h, C), Shaped(h, C, {c}), Apart(h, C, {c}),
           c + span(h, c) \notin FreeOf(h, C), Idle(h, UsedOf(h, C))
    PROVE  LET prv == prev_adjacent(h, c)
               h2  == IF FreeBefore(h, prv, c) THEN Insert(coalesce_two(bin_detach(h, prv), prv, c), prv)
                      ELSE Insert(h, c)
           IN  \E D : /\ Good(h2, D) /\ D \subseteq C /\ h2.hi = h.hi
                      /\ UsedOf(h2, D) = UsedOf(h, C) /\ Kept(h, h2, UsedOf(h, C))
                      /\ \E m \in FreeOf(h2, D) : span(h2, m) >= span(h, c)
<1> DEFINE prv == prev_adjacent(h, c)
           U   == UsedOf(h, C)
           Result(h2, D) == /\ Good(h2, D) /\ D \subseteq C /\ h2.hi = h.hi
                            /\ UsedOf(h2, D) = U /\ Kept(h, h2, U)
                            /\ \E m \in FreeOf(h2, D) : span(h2, m) >= span(h, c)
<1>1. /\ IsHeap(h) /\ Tiled(h, C) /\ c \in C /\ c \in Nat /\ span(h, c) \in Nat /\ span(h, c) >= 2
      /\ U \in SUBSET C /\ FreeOf(h, C) \in SUBSET C
      /\ \A d \in C : d \in Nat /\ span(h, d) \in Nat /\ span(h, d) >= 2
  <2>1. /\ IsHeap(h) /\ Tiled(h, C) /\ c \in C /\ U \in SUBSET C /\ FreeOf(h, C) \in SUBSET C
    BY ShapedIs DEF FreeOf
  <2> QED
    BY <2>1, InTiling
<1>2. IF c = 0 THEN prv = NULL ELSE prv \in C /\ prv + span(h, prv) = c
  BY <1>1, PrevAdjacentIs
\* Whatever ends where c begins is prv.
<1>3. \A d \in C : d + span(h, d) = c => d = prv /\ prv # NULL
  <2> SUFFICES ASSUME NEW d \in C, d + span(h, d) = c PROVE d = prv /\ prv # NULL
    OBVIOUS
  <2>1. c # 0 /\ d \in Nat /\ span(h, d) \in Nat /\ span(h, d) >= 2
    BY <1>1
  <2>2. prv \in C /\ prv + span(h, prv) = c /\ prv \in Nat /\ span(h, prv) \in Nat
        /\ span(h, prv) >= 2
    BY <1>1, <1>2, <2>1
  <2> HIDE DEF prv
  <2>3. (d < prv => d + span(h, d) <= prv) /\ (prv < d => prv + span(h, prv) <= d)
    BY <1>1, <2>2 DEF Tiled
  <2> QED
    BY <2>1, <2>2, <2>3 DEF NULL
<1>4. FreeBefore(h, prv, c) <=> prv \in FreeOf(h, C)
  BY <1>1, FreeBeforeIs
<1> HIDE DEF prv, U
<1>5. CASE ~FreeBefore(h, prv, c)
  <2> DEFINE h2 == Insert(h, c)
  <2>1. Shaped(h2, C, {c} \ {c}) /\ SameShape(h, h2, C) /\ Kept(h, h2, U)
    BY Insertion DEF U
  <2> HIDE DEF h2
  <2>2. /\ FreeOf(h2, C) = FreeOf(h, C) /\ UsedOf(h2, C) = U /\ h2.hi = h.hi
        /\ \A d \in C : span(h2, d) = span(h, d)
    BY <2>1, SameParts DEF SameShape, U
  <2>3. Apart(h2, C, {})
    <3> SUFFICES ASSUME NEW d \in FreeOf(h, C)
                 PROVE  d + span(h, d) \notin FreeOf(h, C)
      BY <1>1, <2>2 DEF Apart
    <3>1. d + span(h, d) # c
      BY <1>1, <1>3, <1>4, <1>5
    <3>2. d # c => d + span(h, d) \notin FreeOf(h, C) \ {c}
      BY DEF Apart
    <3> QED
      BY <3>1, <3>2
  <2>4. Idle(h2, U)
    BY <2>1 DEF Idle, Kept, SameChunk, U
  <2>5. Shaped(h2, C, {})
    <3>1. {c} \ {c} = {}
      OBVIOUS
    <3> QED
      BY <2>1, <3>1
  <2>6. Good(h2, C)
    BY <2>2, <2>3, <2>4, <2>5 DEF Good
  <2>7. c \in FreeOf(h2, C) /\ span(h2, c) >= span(h, c)
    BY <1>1, <2>2
  <2>8. Result(h2, C)
    BY <2>1, <2>2, <2>6, <2>7
  <2> QED
    BY <1>5, <2>8 DEF prv, h2, U
<1>6. CASE FreeBefore(h, prv, c)
  <2> DEFINE h1 == bin_detach(h, prv)
             g  == coalesce_two(h1, prv, c)
             h2 == Insert(g, prv)
             D  == C \ {c}
  <2>1. /\ prv \in FreeOf(h, C) \ {c} /\ prv \in C /\ prv \in Nat /\ span(h, prv) \in Nat
        /\ span(h, prv) >= 2 /\ prv + span(h, prv) = c /\ prv < c
    <3>1. prv \in FreeOf(h, C) /\ prv \in C
      BY <1>1, <1>4, <1>6
    <3>2. c # 0 /\ prv + span(h, prv) = c
      BY <1>2, <3>1, <1>1, InTiling
    <3> QED
      BY <1>1, <3>1, <3>2
  <2>2. /\ Shaped(h1, C, {c} \cup {prv}) /\ SameShape(h, h1, C) /\ Kept(h, h1, U)
    BY <2>1, Detach DEF U
  <2> HIDE DEF h1
  <2>3. /\ FreeOf(h1, C) = FreeOf(h, C) /\ UsedOf(h1, C) = U /\ h1.hi = h.hi
        /\ \A d \in C : span(h1, d) = span(h, d)
    BY <2>2, SameParts DEF SameShape, U
  <2>4. /\ c \in FreeOf(h1, C) \cap ({c} \cup {prv}) /\ prv \in FreeOf(h1, C) \cap ({c} \cup {prv})
        /\ prv + span(h1, prv) = c
    BY <1>1, <2>1, <2>3
  <2>5. /\ Shaped(g, D, ({c} \cup {prv}) \ {c}) /\ g.hi = h1.hi
        /\ span(g, prv) = span(h1, prv) + span(h1, c)
        /\ FreeOf(g, D) = FreeOf(h1, C) \ {c} /\ UsedOf(g, D) = UsedOf(h1, C)
        /\ (\A d \in D \ {prv} : span(g, d) = span(h1, d))
        /\ Kept(h1, g, UsedOf(h1, C))
    <3>1. Merged(h1, g, C, {c} \cup {prv}, prv, c)
      BY <2>2, <2>4, Coalesce
    <3> HIDE DEF g
    <3> QED
      BY <3>1 DEF Merged
  <2> HIDE DEF g
  <2>6. ({c} \cup {prv}) \ {c} = {prv} /\ D \subseteq C /\ {prv} \ {prv} = {}
    BY <2>1
  <2>7. /\ Shaped(g, D, {prv}) /\ g.hi = h.hi
        /\ span(g, prv) = span(h, prv) + span(h, c)
        /\ FreeOf(g, D) = FreeOf(h, C) \ {c} /\ UsedOf(g, D) = U
        /\ \A d \in D \ {prv} : span(g, d) = span(h, d)
    BY <1>1, <2>1, <2>3, <2>5, <2>6
  <2>8. Kept(h, g, U)
    BY <2>2, <2>3, <2>5, KeptOn
  <2>9. prv \in FreeOf(g, D) \cap {prv}
    BY <2>1, <2>7
  <2>10. Shaped(h2, D, {prv} \ {prv}) /\ SameShape(g, h2, D) /\ Kept(g, h2, UsedOf(g, D))
    BY <2>7, <2>9, Insertion
  <2> HIDE DEF h2
  <2>11. /\ FreeOf(h2, D) = FreeOf(h, C) \ {c} /\ UsedOf(h2, D) = U /\ h2.hi = h.hi
         /\ \A d \in D : span(h2, d) = span(g, d)
    BY <2>7, <2>10, SameParts DEF SameShape
  <2>12. Kept(h, h2, U)
    BY <2>7, <2>8, <2>10, KeptOn
  <2>13. Apart(h2, D, {})
    <3> SUFFICES ASSUME NEW d \in FreeOf(h, C) \ {c}
                 PROVE  d + span(h2, d) \notin FreeOf(h, C) \ {c}
      BY <2>11 DEF Apart
    <3>1. d \in D
      BY <1>1
    <3>2. CASE d = prv
      <4>1. d + span(h2, d) = c + span(h, c)
        BY <1>1, <2>1, <2>7, <2>11, <3>1, <3>2
      <4> QED
        BY <4>1
    <3>3. CASE d # prv
      <4>1. span(h2, d) = span(h, d)
        BY <2>7, <2>11, <3>1, <3>3
      <4> QED
        BY <4>1 DEF Apart
    <3> QED
      BY <3>2, <3>3
  <2>14. Idle(h2, U)
    BY <2>12 DEF Idle, Kept, SameChunk, U
  <2>15. Good(h2, D)
    BY <2>6, <2>10, <2>11, <2>13, <2>14 DEF Good
  <2>16. prv \in FreeOf(h2, D) /\ span(h2, prv) >= span(h, c)
    <3>1. prv \in D /\ prv \in FreeOf(h2, D)
      BY <2>1, <2>11
    <3>2. span(h2, prv) = span(h, prv) + span(h, c)
      BY <2>7, <2>11, <3>1
    <3> QED
      BY <1>1, <2>1, <3>1, <3>2
  <2>17. Result(h2, D)
    BY <2>6, <2>11, <2>12, <2>15, <2>16
  <2> QED
    BY <1>6, <2>17 DEF prv, h1, g, h2, U
<1> QED
  BY <1>5, <1>6 DEF U

\* It does not matter whether a chunk that is not free counts as taken out.
LEMMA SameOut ==
    ASSUME NEW h, NEW C, NEW X, NEW Y, Shaped(h, C, X), FreeOf(h, C) \ X = FreeOf(h, C) \ Y
    PROVE  Shaped(h, C, Y)
<1>1. \A i : InBin(h, C, X, i) = InBin(h, C, Y, i)
  BY DEF InBin
<1> QED
  BY <1>1 DEF Shaped, Binned

\* Chunk c, which is in no bin, has another status and other links.
Restated(h, h2, C, c) ==
    /\ Shaped(h2, C, {c}) /\ h2.hi = h.hi
    /\ FreeOf(h2, C) \ {c} = FreeOf(h, C) \ {c} /\ UsedOf(h2, C) \ {c} = UsedOf(h, C) \ {c}
    /\ \A d \in C : span(h2, d) = span(h, d)
    /\ Kept(h, h2, C \ {c})
    /\ Apart(h2, C, {c})

LEMMA NewStatus ==
    ASSUME NEW h, NEW C, NEW c \in C, Shaped(h, C, {c}), Apart(h, C, {c}), NEW h2,
           Relinked(h, h2, C, {c}, {c}, {c})
    PROVE  Restated(h, h2, C, c)
<1>1. IsHeap(h) /\ HasBins(h) /\ Tiled(h, C)
  BY ShapedIs
<1>2. /\ IsHeap(h2) /\ Rest(h, h2) /\ h2.hi = h.hi
      /\ (\A d \in C : span(h2, d) = span(h, d))
      /\ \A d \in C \ {c} : /\ status(h2, d) = status(h, d) /\ next(h2, d) = next(h, d)
                            /\ prev(h2, d) = prev(h, d)
  BY DEF Relinked
<1>3. HasBins(h2) /\ h2.bins = h.bins /\ Tiled(h2, C)
  BY <1>1, <1>2, SameBins, StillTiled
<1>4. FreeOf(h2, C) \ {c} = FreeOf(h, C) \ {c} /\ UsedOf(h2, C) \ {c} = UsedOf(h, C) \ {c}
  BY <1>2 DEF FreeOf, UsedOf
<1>5. ASSUME NEW j \in Bins PROVE Linked(h2, InBin(h2, C, {c}, j), h2.bins[j])
  <2> DEFINE G == InBin(h, C, {c}, j)
  <2>1. \A d \in G : d \in C \ {c}
    BY DEF InBin, FreeOf
  <2>2. InBin(h2, C, {c}, j) = G
    <3>1. \A d \in FreeOf(h, C) \ {c} : span(h2, d) = span(h, d)
      BY <1>2 DEF FreeOf
    <3> QED
      BY <1>4, <3>1 DEF InBin
  <2>3. Linked(h, G, h.bins[j])
    BY ShapedIs
  <2> HIDE DEF G
  <2>4. Linked(h2, G, h.bins[j])
    BY <1>2, <2>1, <2>3, SameList
  <2> QED
    BY <1>3, <2>2, <2>4
<1>6. Shaped(h2, C, {c})
  BY <1>2, <1>3, <1>5 DEF Shaped, Binned
<1>7. Kept(h, h2, C \ {c})
  <2>1. (C \ {c}) \cap ({c} \cup {c} \cup {c}) = {}
    OBVIOUS
  <2> QED
    BY <1>1, <2>1, RelinkedKeeps
<1>8. Apart(h2, C, {c})
  <2>1. \A d \in FreeOf(h, C) \ {c} : span(h2, d) = span(h, d)
    BY <1>2 DEF FreeOf
  <2> QED
    BY <1>4, <2>1 DEF Apart
<1> QED
  BY <1>2, <1>4, <1>6, <1>7, <1>8 DEF Restated

LEMMA PushFront ==
    ASSUME NEW h, NEW C, NEW c \in C, Shaped(h, C, {c}), Apart(h, C, {c}),
           Idle(h, UsedOf(h, C) \ {c})
    PROVE  \E D : Freed(h, bin_push_front(h, c), C, D, c)
<1> DEFINE U   == UsedOf(h, C) \ {c}
           g   == set_status(h, c, CHUNK_FREE)
           h1  == set_links(g, c, NULL, NULL)
           nxt == adjacent(h1, c)
           h2  == IF IsFree(h1, nxt) THEN coalesce_two(bin_detach(h1, nxt), c, nxt) ELSE h1
           prv == prev_adjacent(h2, c)
           h3  == IF FreeBefore(h2, prv, c) THEN Insert(coalesce_two(bin_detach(h2, prv), prv, c), prv)
                  ELSE Insert(h2, c)
<1>1. IsHeap(h) /\ Tiled(h, C) /\ U \in SUBSET C /\ U \subseteq C \ {c}
  BY ShapedIs
<1>2. Relinked(h, h1, C, {c}, {c}, {c}) /\ status(h1, c) = CHUNK_FREE
  <2>1. Relinked(h, g, C, {c}, {}, {}) /\ status(g, c) = CHUNK_FREE
    BY <1>1, SetStatus
  <2> HIDE DEF g
  <2>2. IsHeap(g) /\ Tiled(g, C)
    BY <1>1, <2>1, StillTiled DEF Relinked
  <2>3. Relinked(g, h1, C, {}, {c}, {c})
    BY <2>2, SetLinks
  <2> HIDE DEF h1
  <2>4. Relinked(h, h1, C, {c} \cup {}, {} \cup {c}, {} \cup {c})
    BY <1>1, <2>1, <2>3, ThenRelinked
  <2>5. Relinked(h, h1, C, {c}, {c}, {c})
    <3>1. {c} \cup {} = {c} /\ {} \cup {c} = {c}
      OBVIOUS
    <3> QED
      BY <2>4, <3>1
  <2>6. status(h1, c) = status(g, c)
    BY <2>3 DEF Relinked
  <2> QED
    BY <2>1, <2>5, <2>6
<1> HIDE DEF h1, U
<1>3. /\ Shaped(h1, C, {c}) /\ h1.hi = h.hi /\ c \in FreeOf(h1, C) /\ UsedOf(h1, C) = U
      /\ Apart(h1, C, {c}) /\ span(h1, c) = span(h, c) /\ Kept(h, h1, U)
  <2>1. /\ Shaped(h1, C, {c}) /\ h1.hi = h.hi
        /\ UsedOf(h1, C) \ {c} = UsedOf(h, C) \ {c}
        /\ span(h1, c) = span(h, c) /\ Kept(h, h1, C \ {c}) /\ Apart(h1, C, {c})
    <3>1. Restated(h, h1, C, c)
      BY <1>2, NewStatus
    <3> QED
      BY <3>1 DEF Restated
  <2>2. c \in FreeOf(h1, C) /\ c \notin UsedOf(h1, C)
    BY <1>2, Constants DEF FreeOf, UsedOf
  <2>3. Kept(h, h1, U)
    BY <1>1, <2>1 DEF Kept
  <2> QED
    BY <2>1, <2>2, <2>3 DEF U
<1>4. PICK D : Joined(h1, h2, C, D, c)
  BY <1>3, JoinsNext
<1> HIDE DEF h2, nxt
<1>5. /\ Shaped(h2, D, {c}) /\ D \subseteq C /\ h2.hi = h.hi
      /\ c \in FreeOf(h2, D) /\ span(h2, c) >= span(h, c)
      /\ c + span(h2, c) \notin FreeOf(h2, D) /\ Apart(h2, D, {c})
      /\ UsedOf(h2, D) = U /\ Kept(h, h2, U)
  <2>1. Kept(h1, h2, U)
    BY <1>3, <1>4 DEF Joined
  <2>2. Kept(h, h2, U)
    BY <1>3, <2>1, KeptOn
  <2> QED
    BY <1>3, <1>4, <2>2 DEF Joined
<1>6. Idle(h2, U)
  BY <1>5 DEF Idle, Kept, SameChunk, U
<1>7. PICK E : /\ Good(h3, E) /\ E \subseteq D /\ h3.hi = h2.hi
               /\ UsedOf(h3, E) = U /\ Kept(h2, h3, U)
               /\ \E m \in FreeOf(h3, E) : span(h3, m) >= span(h2, c)
  BY <1>5, <1>6, JoinsPrevious
<1> HIDE DEF h3, prv
<1>8. Kept(h, h3, U)
  BY <1>5, <1>7, KeptOn
<1>9. \E m \in FreeOf(h3, E) : span(h3, m) >= span(h, c)
  <2>1. PICK m \in FreeOf(h3, E) : span(h3, m) >= span(h2, c)
    BY <1>7
  <2>2. span(h3, m) \in Nat /\ span(h2, c) \in Nat /\ span(h, c) \in Nat
    BY <1>5, <1>7, <2>1, ShapedIs DEF Good, FreeOf
  <2> QED
    BY <1>5, <2>1, <2>2
<1>10. Freed(h, h3, C, E, c)
  BY <1>5, <1>7, <1>8, <1>9 DEF Freed, U
<1>11. bin_push_front(h, c) = h3
  BY DEF bin_push_front, h3, prv, h2, nxt, h1
<1> QED
  BY <1>10, <1>11

----------------------------------------------------------------------------
(* Searching the bins, and taking a chunk out of them.                     *)

\* A heap between calls passes the checks of the code.
LEMMA GoodIsValid ==
    ASSUME NEW h, NEW C, Good(h, C)
    PROVE  check_heap_validity(h)
<1>1. Shaped(h, C, {}) /\ Apart(h, C, {}) /\ IsHeap(h) /\ Tiled(h, C)
  BY DEF Good, Shaped
<1>2. \A i \in Bins : /\ Linked(h, InBin(h, C, {}, i), h.bins[i])
                      /\ InBin(h, C, {}, i) \subseteq FreeOf(h, C)
  BY <1>1, ShapedIs
<1>3. \A i \in Bins : Listed(h, h.bins[i]) = InBin(h, C, {}, i)
  BY <1>2, ListedAre
<1>4. CASE h.hi = 0
  <2>1. C = {}
    BY <1>1, <1>4 DEF Tiled
  <2>2. \A i \in Bins : InBin(h, C, {}, i) = {}
    BY <2>1 DEF InBin, FreeOf
  <2>3. \A i \in Bins : h.bins[i] = NULL
    BY <1>2, <2>2 DEF Linked
  <2> QED
    BY <1>4, <2>3 DEF check_heap_validity
<1>5. CASE h.hi # 0
  <2>1. Chunks(h) = C /\ WalkIsValid(h)
    BY <1>1, ChunksAre, TiledIsValid
  <2>2. ASSUME NEW c \in C, status(h, c) = CHUNK_FREE
        PROVE  Cardinality({i \in Bins : c \in Listed(h, h.bins[i])}) = 1
    <3>1. get_bin_index(span(h, c)) \in Bins /\ c \in FreeOf(h, C)
      BY <1>1, <2>2, ShapedIs DEF FreeOf
    <3>2. \A i \in Bins : c \in InBin(h, C, {}, i) <=> i = get_bin_index(span(h, c))
      BY <3>1 DEF InBin
    <3>3. {i \in Bins : c \in Listed(h, h.bins[i])} = {get_bin_index(span(h, c))}
      BY <1>3, <3>1, <3>2
    <3> QED
      BY <3>3, FS_Singleton
  <2>3. \A i \in Bins : ListIsValid(h, h.bins[i])
    BY <1>1, <1>2, LinkedIsValid
  <2>4. \A i \in Bins : \A c \in Listed(h, h.bins[i]) : get_bin_index(span(h, c)) = i
    BY <1>3 DEF InBin
  <2> QED
    BY <1>5, <2>1, <2>2, <2>3, <2>4 DEF check_heap_validity
<1> QED
  BY <1>4, <1>5

\* The search finds a chunk with room if a bin from number "from" on has one.
LEMMA SearchFinds ==
    ASSUME NEW h, NEW C, Shaped(h, C, {}), NEW from, NEW need
    PROVE  LET c == Search(h, from, need)
           IN  IF c = NULL
               THEN \A d \in FreeOf(h, C) :
                       get_bin_index(span(h, d)) >= from => ~(span(h, d) - 2 >= need)
               ELSE c \in FreeOf(h, C) /\ span(h, c) - 2 >= need
<1> DEFINE Found(i) == FirstFit(h, h.bins[i], need)
           hits == {i \in Bins : i >= from /\ Found(i) # NULL}
           least == CHOOSE i \in hits : \A j \in hits : i <= j
           c == Search(h, from, need)
<1>1. \A i \in Bins : /\ Linked(h, InBin(h, C, {}, i), h.bins[i])
                      /\ InBin(h, C, {}, i) \subseteq FreeOf(h, C)
  BY ShapedIs
<1>2. ASSUME NEW i \in Bins
      PROVE  IF Found(i) = NULL THEN \A d \in InBin(h, C, {}, i) : ~(span(h, d) - 2 >= need)
             ELSE Found(i) \in FreeOf(h, C) /\ span(h, Found(i)) - 2 >= need
  <2>1. Linked(h, InBin(h, C, {}, i), h.bins[i]) /\ InBin(h, C, {}, i) \subseteq FreeOf(h, C)
    BY <1>1
  <2> QED
    BY <2>1, FirstFitIs
<1>3. c = IF hits = {} THEN NULL ELSE Found(least)
  BY DEF Search
<1> HIDE DEF Found, c
<1>4. CASE hits = {}
  <2>1. ASSUME NEW d \in FreeOf(h, C), get_bin_index(span(h, d)) >= from
        PROVE  ~(span(h, d) - 2 >= need)
    <3> DEFINE i == get_bin_index(span(h, d))
    <3>1. i \in Bins /\ d \in InBin(h, C, {}, i)
      BY ShapedIs DEF InBin, FreeOf
    <3>2. Found(i) = NULL
      BY <1>4, <2>1, <3>1
    <3> QED
      BY <1>2, <3>1, <3>2
  <2> QED
    BY <1>3, <1>4, <2>1 DEF c
<1>5. CASE hits # {}
  <2>1. least \in hits
    <3>1. hits \in SUBSET Nat
      BY BinsAssumption DEF Bins
    <3> HIDE DEF hits
    <3>2. \E i \in hits : \A j \in hits : i <= j
      BY <1>5, <3>1, LeastElement
    <3> QED
      BY <3>2
  <2> HIDE DEF least
  <2>2. least \in Bins /\ Found(least) # NULL
    BY <2>1
  <2>3. c = Found(least)
    BY <1>3, <1>5
  <2>4. c # NULL /\ c \in FreeOf(h, C) /\ span(h, c) - 2 >= need
    BY <1>2, <2>2, <2>3
  <2> QED
    BY <2>4 DEF c
<1> QED
  BY <1>4, <1>5

\* A chunk at "at" has been handed out; the other chunks in use are kept.
Taken(h, h2, C, D, at, need) ==
    /\ Good(h2, D) /\ h2.hi = h.hi
    /\ at \in Units /\ at \notin UsedOf(h, C) /\ span(h2, at) >= 2 + need
    /\ UsedOf(h2, D) = UsedOf(h, C) \cup {at} /\ Kept(h, h2, UsedOf(h, C))

\* Take takes a free chunk with room, or its end.
LEMMA Takes ==
    ASSUME NEW h, NEW C, Good(h, C), NEW c \in FreeOf(h, C), NEW need \in Nat,
           span(h, c) - 2 >= need
    PROVE  \E D : Taken(h, Take(h, c, need), C, D, AllocAt(h, c, need), need)
<1> DEFINE U   == UsedOf(h, C)
           out == bin_detach(h, c)
<1>1. /\ Shaped(h, C, {}) /\ IsHeap(h) /\ Tiled(h, C) /\ c \in C /\ c \in Units
      /\ span(h, c) \in Nat /\ U \in SUBSET C /\ c \notin U /\ Idle(h, U) /\ c \in Nat
      /\ Apart(h, C, {})
  <2>1. Shaped(h, C, {}) /\ IsHeap(h) /\ Tiled(h, C) /\ c \in C /\ Idle(h, U) /\ Apart(h, C, {})
    BY DEF Good, Shaped, FreeOf
  <2>2. U \in SUBSET C /\ c \notin U /\ c \in Units
    BY <2>1, ShapedIs
  <2>3. c \in Nat /\ span(h, c) \in Nat
    BY <2>1, InTiling
  <2> HIDE DEF U
  <2> QED
    BY <2>1, <2>2, <2>3
<1>2. /\ Shaped(out, C, {c}) /\ SameShape(h, out, C) /\ Kept(h, out, U)
      /\ next(out, c) = NULL /\ prev(out, c) = NULL
  <2>1. c \in FreeOf(h, C) \ {}
    OBVIOUS
  <2>2. /\ Shaped(out, C, {} \cup {c}) /\ SameShape(h, out, C) /\ Kept(h, out, U)
        /\ next(out, c) = NULL /\ prev(out, c) = NULL
    BY <1>1, <2>1, Detach
  <2>3. {} \cup {c} = {c}
    OBVIOUS
  <2> HIDE DEF out, U
  <2> QED
    BY <2>2, <2>3
<1> HIDE DEF out
<1>3. /\ IsHeap(out) /\ HasBins(out) /\ Tiled(out, C) /\ out.hi = h.hi
      /\ FreeOf(out, C) = FreeOf(h, C) /\ UsedOf(out, C) = U
      /\ span(out, c) = span(h, c) /\ c \in FreeOf(out, C)
  <2>1. IsHeap(out) /\ HasBins(out) /\ Tiled(out, C)
    BY <1>2, ShapedIs
  <2>2. FreeOf(out, C) = FreeOf(h, C) /\ UsedOf(out, C) = U
    BY <1>2, SameParts DEF U
  <2>3. out.hi = h.hi /\ span(out, c) = span(h, c)
    BY <1>1, <1>2 DEF SameShape
  <2> QED
    BY <2>1, <2>2, <2>3
<1>4. Apart(out, C, {c}) /\ Idle(out, U)
  <2>1. Apart(h, C, {c})
    BY <1>1 DEF Apart
  <2>2. Apart(out, C, {c})
    BY <1>2, <2>1, SameParts
  <2>3. Idle(out, U)
    BY <1>1, <1>2 DEF Idle, Kept, SameChunk
  <2> QED
    BY <2>2, <2>3
<1>5. CASE Splits(h, c, need)
  <2> DEFINE e  == SplitAt(out, c, need)
             g  == split_for_alloc(out, c, need)
             D  == C \cup {e}
             h2 == bin_push_front(g, c)
  <2>1. span(out, c) >= 2 + need + 2 /\ prev(out, c) \in C \cup {NULL}
    BY <1>2, <1>3, <1>5 DEF Splits
  <2>2. /\ IsHeap(g) /\ Rest(out, g) /\ g.hi = out.hi /\ Tiled(g, D) /\ e \notin C
        /\ span(g, c) = span(out, c) - (2 + need) /\ status(g, c) = status(out, c)
        /\ next(g, c) = next(out, c) /\ prev(g, c) = prev(out, c)
        /\ status(g, e) = CHUNK_USED /\ span(g, e) = 2 + need
        /\ next(g, e) = NULL /\ prev(g, e) = NULL
        /\ Kept(out, g, C \ {c})
    <3>1. IsHeap(out) /\ Tiled(out, C) /\ c \in C
      BY <1>1, <1>3
    <3> QED
      BY <2>1, <3>1, Splitting
  <2>3. Take(h, c, need) = h2 /\ AllocAt(h, c, need) = e
    <3>1. Splits(out, c, need) /\ SplitAt(h, c, need) = e
      BY <1>3, <1>5 DEF Splits, SplitAt
    <3> QED
      BY <1>5, <3>1 DEF Take, AllocAt, out
  <2> HIDE DEF g, e
  <2>4. HasBins(g) /\ g.bins = out.bins
    BY <1>3, <2>2, SameBins
  <2>5. \A d \in C \ {c} : SameChunk(out, g, d)
    BY <2>2 DEF Kept
  <2>6. FreeOf(g, D) = FreeOf(out, C) /\ UsedOf(g, D) = U \cup {e} /\ c \in D /\ e \in D
        /\ c # e /\ e \in Units
    <3>1. \A d \in C : status(g, d) = status(out, d)
      BY <2>2, <2>5 DEF SameChunk
    <3>2. FreeOf(g, D) = FreeOf(out, C)
      BY <2>2, <3>1, Constants DEF FreeOf
    <3>3. UsedOf(g, D) = UsedOf(out, C) \cup {e}
      BY <2>2, <3>1 DEF UsedOf
    <3>4. e \in D /\ e \in Units
      BY <2>2, InTiling
    <3> QED
      BY <1>1, <1>3, <2>2, <3>2, <3>3, <3>4
  <2>7. ASSUME NEW j \in Bins PROVE Linked(g, InBin(g, D, {c}, j), g.bins[j])
    <3> DEFINE G == InBin(out, C, {c}, j)
    <3>1. \A d \in G : d \in C \ {c}
      BY DEF InBin, FreeOf
    <3>2. InBin(g, D, {c}, j) = G
      <4>1. \A d \in FreeOf(out, C) \ {c} : span(g, d) = span(out, d)
        BY <2>5 DEF FreeOf, SameChunk
      <4> QED
        BY <2>6, <4>1 DEF InBin
    <3>3. Linked(out, G, out.bins[j])
      BY <1>2, ShapedIs
    <3> HIDE DEF G
    <3>4. Linked(g, G, out.bins[j])
      BY <2>5, <3>1, <3>3, SameList DEF SameChunk
    <3> QED
      BY <2>4, <3>2, <3>4
  <2>8. Shaped(g, D, {c})
    BY <2>2, <2>4, <2>7 DEF Shaped, Binned
  <2>9. Apart(g, D, {c})
    <3>1. \A d \in FreeOf(out, C) \ {c} : span(g, d) = span(out, d)
      BY <2>5 DEF FreeOf, SameChunk
    <3> QED
      BY <1>4, <2>6, <3>1 DEF Apart
  <2>10. UsedOf(g, D) \ {c} = U \cup {e} /\ U \subseteq C \ {c}
    BY <1>1, <2>6
  <2>11. Idle(g, UsedOf(g, D) \ {c})
    <3>1. \A d \in U : SameChunk(out, g, d)
      BY <2>5, <2>10
    <3> QED
      BY <1>4, <2>2, <2>10, <3>1 DEF Idle, SameChunk
  <2>12. PICK E : Freed(g, h2, D, E, c)
    BY <2>6, <2>8, <2>9, <2>11, PushFront
  <2> HIDE DEF h2
  <2>13. /\ Good(h2, E) /\ h2.hi = h.hi /\ UsedOf(h2, E) = U \cup {e} /\ Kept(g, h2, U \cup {e})
    BY <1>3, <2>2, <2>10, <2>12 DEF Freed
  <2>14. Kept(h, h2, U)
    <3>1. Kept(out, g, U) /\ Kept(g, h2, U)
      BY <2>2, <2>10, <2>13 DEF Kept
    <3>2. Kept(h, g, U)
      BY <1>2, <3>1, KeptOn
    <3> QED
      BY <3>1, <3>2, KeptOn
  <2>15. e \notin U /\ span(h2, e) >= 2 + need
    <3>1. span(h2, e) = 2 + need
      BY <2>2, <2>13 DEF Kept, SameChunk
    <3> QED
      BY <1>1, <2>2, <3>1
  <2>16. Taken(h, h2, C, E, e, need)
    BY <2>6, <2>13, <2>14, <2>15 DEF Taken, U
  <2> QED
    BY <2>3, <2>16
<1>6. CASE ~Splits(h, c, need)
  <2> DEFINE h2 == set_status(out, c, CHUNK_USED)
  <2>1. Take(h, c, need) = h2 /\ AllocAt(h, c, need) = c
    <3>1. ~Splits(out, c, need)
      BY <1>3, <1>6 DEF Splits
    <3> QED
      BY <1>6, <3>1 DEF Take, AllocAt, out
  <2>2. Relinked(out, h2, C, {c}, {}, {}) /\ status(h2, c) = CHUNK_USED
    BY <1>1, <1>3, SetStatus
  <2> HIDE DEF h2
  <2>3. /\ Shaped(h2, C, {c}) /\ h2.hi = out.hi
        /\ FreeOf(h2, C) \ {c} = FreeOf(out, C) \ {c} /\ UsedOf(h2, C) \ {c} = UsedOf(out, C) \ {c}
        /\ (\A d \in C : span(h2, d) = span(out, d))
        /\ Kept(out, h2, C \ {c}) /\ Apart(h2, C, {c})
    <3>1. Relinked(out, h2, C, {c}, {c}, {c})
      BY <2>2 DEF Relinked
    <3>2. c \in C /\ Shaped(out, C, {c}) /\ Apart(out, C, {c})
      BY <1>1, <1>2, <1>4
    <3>3. Restated(out, h2, C, c)
      BY <3>1, <3>2, NewStatus
    <3> QED
      BY <3>3 DEF Restated
  <2>4. c \notin FreeOf(h2, C) /\ UsedOf(h2, C) = U \cup {c}
    <3>1. c \notin FreeOf(h2, C) /\ c \in UsedOf(h2, C)
      BY <1>1, <2>2, Constants DEF FreeOf, UsedOf
    <3> QED
      BY <1>1, <1>3, <2>3, <3>1
  <2>5. Shaped(h2, C, {})
    <3>1. FreeOf(h2, C) \ {c} = FreeOf(h2, C) \ {}
      BY <2>4
    <3> QED
      BY <2>3, <3>1, SameOut
  <2>6. Apart(h2, C, {})
    BY <2>3, <2>4 DEF Apart
  <2>7. Kept(out, h2, U) /\ Kept(h, h2, U)
    <3>1. U \subseteq C \ {c}
      BY <1>1
    <3>2. Kept(out, h2, U)
      BY <2>3, <3>1 DEF Kept
    <3> QED
      BY <1>2, <3>2, KeptOn
  <2>8. Idle(h2, U \cup {c})
    <3>1. \A d \in U : next(h2, d) = NULL /\ prev(h2, d) = NULL
      BY <1>4, <2>7 DEF Kept, SameChunk, Idle
    <3>2. next(h2, c) = NULL /\ prev(h2, c) = NULL
      BY <1>1, <1>2, <2>2 DEF Relinked
    <3> QED
      BY <3>1, <3>2 DEF Idle
  <2>9. Good(h2, C)
    BY <2>4, <2>5, <2>6, <2>8 DEF Good
  <2>10. span(h2, c) >= 2 + need
    BY <1>1, <1>3, <2>3
  <2>11. Taken(h, h2, C, C, c, need)
    BY <1>1, <1>3, <2>3, <2>4, <2>7, <2>9, <2>10 DEF Taken, U
  <2> QED
    BY <2>1, <2>11
<1> QED
  BY <1>5, <1>6

----------------------------------------------------------------------------
(* The calls.                                                              *)

\* What InOrder says, for the facts about blocks.
LEMMA OrderIs ==
    ASSUME NEW h, NEW C, NEW bs, InOrder(h, C, bs)
    PROVE  /\ Good(h, C) /\ Shaped(h, C, {}) /\ Apart(h, C, {}) /\ Idle(h, UsedOf(h, C))
           /\ IsHeap(h) /\ HasBins(h) /\ Tiled(h, C) /\ Clients(h, C, bs)
BY DEF InOrder, Good, Shaped

\* What is blanked at the end of a call is nobody's.
LEMMA Settled ==
    ASSUME NEW h, NEW C, NEW bs, InOrder(h, C, bs), NEW some \in SUBSET bs
    PROVE  InOrder(Forget(h, Payloads(some)), C, bs) /\ Held(h, Forget(h, Payloads(some)), some)
<1> DEFINE h2 == Forget(h, Payloads(some))
<1>1. /\ Good(h, C) /\ Shaped(h, C, {}) /\ Apart(h, C, {}) /\ Idle(h, UsedOf(h, C))
      /\ IsHeap(h) /\ HasBins(h) /\ Tiled(h, C) /\ Clients(h, C, bs)
  BY OrderIs
<1>2. /\ IsHeap(h2) /\ Rest(h, h2) /\ h2.hi = h.hi /\ Tiled(h2, C)
      /\ (\A c \in C : SameChunk(h, h2, c))
      /\ Clients(h2, C, bs) /\ Held(h, h2, some)
  BY <1>1, Forgotten
<1> HIDE DEF h2
<1>3. HasBins(h2) /\ h2.bins = h.bins
  BY <1>1, <1>2, SameBins
<1>4. SameShape(h, h2, C)
  BY <1>2 DEF SameShape, SameChunk
<1>5. FreeOf(h2, C) = FreeOf(h, C) /\ UsedOf(h2, C) = UsedOf(h, C) /\ Apart(h2, C, {})
  BY <1>1, <1>4, SameParts
<1>6. ASSUME NEW j \in Bins PROVE Linked(h2, InBin(h2, C, {}, j), h2.bins[j])
  <2> DEFINE G == InBin(h, C, {}, j)
  <2>1. \A d \in G : d \in C
    BY DEF InBin, FreeOf
  <2>2. InBin(h2, C, {}, j) = G
    <3>1. \A d \in FreeOf(h, C) : span(h2, d) = span(h, d)
      BY <1>2 DEF FreeOf, SameChunk
    <3> QED
      BY <1>5, <3>1 DEF InBin
  <2>3. Linked(h, G, h.bins[j])
    BY <1>1, ShapedIs
  <2> HIDE DEF G
  <2>4. Linked(h2, G, h.bins[j])
    BY <1>2, <2>1, <2>3, SameList DEF SameChunk
  <2> QED
    BY <1>3, <2>2, <2>4
<1>7. Idle(h2, UsedOf(h2, C))
  BY <1>1, <1>2, <1>5 DEF Idle, SameChunk, UsedOf
<1>8. Good(h2, C)
  BY <1>2, <1>3, <1>5, <1>6, <1>7 DEF Good, Shaped, Binned
<1> QED
  BY <1>2, <1>8 DEF InOrder, h2

\* A block is handed out, or taken back, and the others are as they were in h.
HandsOut(h) ==
    \E D, b : /\ ~aborted' /\ InOrder(heap', D, live')
              /\ b \notin live /\ live' = live \cup {b} /\ Held(h, heap', live)
TakesBack(b) ==
    \E D : /\ ~aborted' /\ InOrder(heap', D, live')
           /\ live' = live \ {b} /\ Held(heap, heap', live')

\* AllocateFrom hands out a block cut from c, or all of c.
LEMMA Allocates ==
    ASSUME SizesFit, ~aborted, NEW h, NEW C, InOrder(h, C, live), NEW c \in FreeOf(h, C),
           NEW size \in Sizes, span(h, c) - 2 >= bytes_to_payload_units(size),
           AllocateFrom(h, c, bytes_to_payload_units(size), size)
    PROVE  HandsOut(h)
<1> DEFINE need == bytes_to_payload_units(size)
           h2   == Take(h, c, need)
           at   == AllocAt(h, c, need)
           new  == [at |-> at, size |-> size]
<1>1. /\ Good(h, C) /\ Shaped(h, C, {}) /\ IsHeap(h) /\ Tiled(h, C) /\ Clients(h, C, live)
  BY OrderIs
<1>2. need \in Nat /\ span(h, c) - 2 >= need
  BY UnitsOfSize
<1>3. MayDetach(h, c)
  <2>1. c \in FreeOf(h, C) \ {}
    OBVIOUS
  <2> QED
    BY <1>1, <2>1, Detach
<1>4. AllocateFrom(h, c, need, size)
  OBVIOUS
<1> HIDE DEF need
<1>5. PICK D : Taken(h, h2, C, D, at, need)
  BY <1>1, <1>2, Takes
<1>6. \/ /\ heap' = Forget(h2, Payloads(live)) /\ live' = live \cup {new} /\ aborted' = aborted
      \/ ~check_heap_validity(h2)
  BY <1>3, <1>4 DEF AllocateFrom
<1> HIDE DEF h2, at
<1>7. /\ Good(h2, D) /\ at \in Units /\ at \notin UsedOf(h, C) /\ span(h2, at) >= 2 + need
      /\ UsedOf(h2, D) = UsedOf(h, C) \cup {at} /\ Kept(h, h2, UsedOf(h, C))
  BY <1>5 DEF Taken
<1>8. InOrder(h2, D, live \cup {new}) /\ new \notin live /\ Held(h, h2, live)
  <2>1. Clients(h2, D, live \cup {new}) /\ new \notin live /\ Held(h, h2, live)
    BY <1>1, <1>7, HandedOut DEF need
  <2> HIDE DEF new
  <2> QED
    BY <1>7, <2>1 DEF InOrder
<1> HIDE DEF new
<1>9. check_heap_validity(h2)
  BY <1>7, GoodIsValid
<1>10. heap' = Forget(h2, Payloads(live)) /\ live' = live \cup {new} /\ aborted' = aborted
  BY <1>6, <1>9
<1>11. InOrder(heap', D, live \cup {new}) /\ Held(h2, heap', live)
  <2>1. live \in SUBSET (live \cup {new})
    OBVIOUS
  <2> QED
    BY <1>8, <1>10, <2>1, Settled
<1>12. Held(h, heap', live)
  BY <1>8, <1>11, HeldOn
<1> QED
  BY <1>8, <1>10, <1>11, <1>12 DEF HandsOut

\* heapmgr_malloc with a free chunk that has room.
LEMMA Fits ==
    ASSUME SizesFit, ~aborted, NEW C, InOrder(heap, C, live), NEW size \in Sizes, MallocFits(size)
    PROVE  HandsOut(heap)
<1> DEFINE need == bytes_to_payload_units(size)
           from == get_bin_index(Signed(2 + need, INT))
           c    == Search(heap, from, need)
<1>1. c # NULL /\ AllocateFrom(heap, c, need, size)
  BY DEF MallocFits, FirstChoice
<1>2. Shaped(heap, C, {})
  BY OrderIs
<1> HIDE DEF from
<1>3. c \in FreeOf(heap, C) /\ span(heap, c) - 2 >= need
  BY <1>1, <1>2, SearchFinds
<1> HIDE DEF c
<1> QED
  BY <1>1, <1>3, Allocates

\* The heap has grown: one more free chunk, in no bin yet.
LEMMA Extends ==
    ASSUME SizesFit, NEW C, InOrder(heap, C, live), NEW g \in Nat, g >= 2,
           NewBreak(heap, g) = heap.hi + g, heap.hi + g <= MaxUnits
    PROVE  LET h2 == Grown(heap, g)
               D  == C \cup {heap.hi}
           IN  /\ Shaped(h2, D, {heap.hi}) /\ Apart(h2, D, {heap.hi}) /\ span(h2, heap.hi) = g
               /\ UsedOf(h2, D) \ {heap.hi} = UsedOf(heap, C)
               /\ Idle(h2, UsedOf(h2, D) \ {heap.hi})
               /\ Kept(heap, h2, UsedOf(heap, C)) /\ chunk_is_valid(h2, heap.hi)
<1> DEFINE h2 == Grown(heap, g)
           c  == heap.hi
           D  == C \cup {c}
           U  == UsedOf(heap, C)
<1>1. /\ Shaped(heap, C, {}) /\ Apart(heap, C, {}) /\ Idle(heap, U)
      /\ IsHeap(heap) /\ HasBins(heap) /\ Tiled(heap, C)
  BY OrderIs
<1>2. U \in SUBSET C
  BY <1>1, ShapedIs
<1>3. Signed(g, INT) = g
  <2>1. c \in Nat /\ MaxUnits \in Nat
    BY <1>1, HeaderFields, Constants
  <2>2. g <= MaxUnits
    BY <2>1
  <2> QED
    BY <2>2, SpanAsInt
<1>4. /\ IsHeap(h2) /\ Rest(heap, h2) /\ h2.hi = heap.hi + g /\ Tiled(h2, D) /\ c \notin C
      /\ span(h2, c) = g /\ status(h2, c) = CHUNK_FREE
      /\ next(h2, c) = NULL /\ prev(h2, c) = NULL
      /\ Kept(heap, h2, C)
  BY <1>1, <1>3, Growing
<1> HIDE DEF h2, U, c
<1>5. HasBins(h2) /\ h2.bins = heap.bins
  BY <1>1, <1>4, SameBins
<1>6. \A d \in C : SameChunk(heap, h2, d)
  BY <1>4 DEF Kept
<1>7. FreeOf(h2, D) \ {c} = FreeOf(heap, C) /\ UsedOf(h2, D) = U
  <2>1. \A d \in C : status(h2, d) = status(heap, d)
    BY <1>6 DEF SameChunk
  <2>2. FreeOf(h2, D) \ {c} = FreeOf(heap, C)
    BY <1>4, <2>1 DEF FreeOf
  <2>3. UsedOf(h2, D) = UsedOf(heap, C)
    BY <1>4, <2>1, Constants DEF UsedOf
  <2> QED
    BY <2>2, <2>3 DEF U
<1>8. \A d \in FreeOf(heap, C) : d \in C /\ span(h2, d) = span(heap, d)
  BY <1>6 DEF FreeOf, SameChunk
<1>9. ASSUME NEW j \in Bins PROVE Linked(h2, InBin(h2, D, {c}, j), h2.bins[j])
  <2> DEFINE G == InBin(heap, C, {}, j)
  <2>1. \A d \in G : d \in C
    BY DEF InBin, FreeOf
  <2>2. InBin(h2, D, {c}, j) = G
    BY <1>7, <1>8 DEF InBin
  <2>3. Linked(heap, G, heap.bins[j])
    BY <1>1, ShapedIs
  <2> HIDE DEF G
  <2>4. Linked(h2, G, heap.bins[j])
    BY <1>6, <2>1, <2>3, SameList DEF SameChunk
  <2> QED
    BY <1>5, <2>2, <2>4
<1>10. Shaped(h2, D, {c})
  BY <1>4, <1>5, <1>9 DEF Shaped, Binned
<1>11. Apart(h2, D, {c})
  BY <1>1, <1>7, <1>8 DEF Apart
<1>12. UsedOf(h2, D) \ {c} = U /\ Idle(h2, U) /\ Kept(heap, h2, U)
  <2>1. c \notin U
    BY <1>2, <1>4
  <2>2. Idle(h2, U)
    BY <1>1, <1>2, <1>6 DEF Idle, SameChunk
  <2>3. Kept(heap, h2, U)
    BY <1>2, <1>4 DEF Kept
  <2> QED
    BY <1>7, <2>1, <2>2, <2>3
<1>13. chunk_is_valid(h2, c)
  BY <1>4, TiledIsValid
<1> QED
  BY <1>4, <1>10, <1>11, <1>12, <1>13 DEF h2, U, c

\* heapmgr_malloc when the heap has to grow: the search that follows finds a chunk.
LEMMA GrowsToFit ==
    ASSUME SizesFit, ~aborted, NEW C, InOrder(heap, C, live), NEW size \in Sizes, MallocGrows(size)
    PROVE  HandsOut(heap)
<1> DEFINE need  == bytes_to_payload_units(size)
           g     == GrowSpan(need, SYS_MIN_ALLOC_UNITS)
           fresh == Grown(heap, g)
           top   == heap.hi
           grown == bin_push_front(fresh, top)
           from  == get_bin_index(Signed(g, INT))
           c     == Search(grown, from, need)
           D     == C \cup {top}
           U     == UsedOf(heap, C)
<1>1. /\ need \in Nat /\ g \in Nat /\ g >= 2 /\ g - 2 >= need /\ NewBreak(heap, g) = heap.hi + g
  BY UnitsOfSize
<1>2. SbrkSucceeds(heap, g) /\ AllocateGrown(g, need, size)
  BY DEF MallocGrows
<1> HIDE DEF need, g
<1>3. heap.hi + g <= MaxUnits /\ Signed(g, INT) = g
  <2>1. heap.hi \in Nat /\ MaxUnits \in Nat
    BY OrderIs, HeaderFields, Constants
  <2>2. heap.hi + g <= MaxUnits
    BY <1>1, <1>2, <2>1 DEF SbrkSucceeds
  <2>3. g <= MaxUnits
    BY <1>1, <2>1, <2>2
  <2> QED
    BY <1>1, <2>2, <2>3, SpanAsInt
<1>4. /\ Shaped(fresh, D, {top}) /\ Apart(fresh, D, {top}) /\ span(fresh, top) = g
      /\ UsedOf(fresh, D) \ {top} = U
      /\ Idle(fresh, UsedOf(fresh, D) \ {top})
      /\ Kept(heap, fresh, U) /\ chunk_is_valid(fresh, top)
  BY <1>1, <1>3, Extends
<1>5. /\ c # NULL => AllocateFrom(grown, c, need, size)
      /\ c = NULL => aborted' = TRUE
  BY <1>1, <1>2, <1>3, <1>4 DEF AllocateGrown
<1> HIDE DEF fresh, U, top
<1>6. top \in D
  OBVIOUS
<1>7. PICK E : Freed(fresh, grown, D, E, top)
  BY <1>4, <1>6, PushFront
<1> HIDE DEF grown, D
<1>8. Good(grown, E) /\ UsedOf(grown, E) = U /\ Kept(heap, grown, U)
  <2>1. Good(grown, E) /\ UsedOf(grown, E) = U /\ Kept(fresh, grown, U)
    BY <1>4, <1>7 DEF Freed
  <2> QED
    BY <1>4, <2>1, KeptOn
<1>9. InOrder(grown, E, live) /\ Held(heap, grown, live)
  <2>1. IsHeap(heap) /\ Tiled(heap, C) /\ Clients(heap, C, live)
    BY OrderIs
  <2>2. \A b \in live : b.at \in U
    BY <2>1 DEF Clients, U
  <2>3. Held(heap, grown, live)
    <3>1. live \in SUBSET live
      OBVIOUS
    <3> QED
      BY <1>8, <2>1, <2>2, <3>1, KeptHeld
  <2>4. \A d \in U : span(grown, d) = span(heap, d)
    BY <1>8 DEF Kept, SameChunk
  <2>5. Clients(grown, E, live)
    BY <1>8, <2>1, <2>4, SameClients DEF U
  <2> QED
    BY <1>8, <2>3, <2>5 DEF InOrder
<1>10. c # NULL /\ c \in FreeOf(grown, E) /\ span(grown, c) - 2 >= need
  <2>1. Shaped(grown, E, {})
    BY <1>8 DEF Good
  <2>2. IF c = NULL
        THEN \A d \in FreeOf(grown, E) :
                get_bin_index(span(grown, d)) >= from => ~(span(grown, d) - 2 >= need)
        ELSE c \in FreeOf(grown, E) /\ span(grown, c) - 2 >= need
    <3> HIDE DEF from
    <3> QED
      BY <2>1, SearchFinds
  <2>3. PICK m \in FreeOf(grown, E) : span(grown, m) >= g
    BY <1>4, <1>7 DEF Freed
  <2>4. span(grown, m) \in Nat
    BY <2>1, ShapedIs DEF FreeOf
  <2>5. span(grown, m) - 2 >= need
    BY <1>1, <2>3, <2>4
  <2>6. get_bin_index(span(grown, m)) >= from
    <3>1. span(grown, m) \in Int /\ g \in Int /\ g <= span(grown, m)
      BY <1>1, <2>3, <2>4
    <3>2. get_bin_index(g) <= get_bin_index(span(grown, m))
      BY <3>1, LaterBin
    <3>3. get_bin_index(g) \in Nat /\ get_bin_index(span(grown, m)) \in Nat
      BY <3>1, BinIs
    <3> QED
      BY <1>3, <3>2, <3>3
  <2> HIDE DEF c, from
  <2> QED
    BY <2>2, <2>5, <2>6
<1> HIDE DEF c
<1>11. HandsOut(grown)
  BY <1>5, <1>9, <1>10, Allocates DEF need
<1> QED
  <2>1. PICK F, b : /\ ~aborted' /\ InOrder(heap', F, live')
                    /\ b \notin live /\ live' = live \cup {b} /\ Held(grown, heap', live)
    BY <1>11 DEF HandsOut
  <2>2. Held(heap, heap', live)
    BY <1>9, <2>1, HeldOn
  <2> QED
    BY <2>1, <2>2 DEF HandsOut

\* heapmgr_free.
LEMMA Frees ==
    ASSUME SizesFit, ~aborted, NEW C, InOrder(heap, C, live), NEW b \in live, FreeBlock(b)
    PROVE  TakesBack(b)
<1> DEFINE c     == b.at
           U     == UsedOf(heap, C)
           after == bin_push_front(heap, c)
           bs    == live \ {b}
<1>1. /\ Good(heap, C) /\ Shaped(heap, C, {}) /\ Apart(heap, C, {}) /\ Idle(heap, U)
      /\ IsHeap(heap) /\ Tiled(heap, C) /\ Clients(heap, C, live)
  BY OrderIs
<1>2. c \in U /\ c \in C /\ c \notin FreeOf(heap, C)
  BY <1>1, ShapedIs DEF Clients, UsedOf
<1>3. \/ heap' = Forget(after, Payloads(bs)) /\ live' = bs /\ aborted' = aborted
      \/ ~(MayFree(c) /\ check_heap_validity(after))
  BY DEF FreeBlock
<1>4. MayFree(c)
  <2>1. check_heap_validity(heap) /\ chunk_is_valid(heap, c)
    BY <1>1, <1>2, GoodIsValid, TiledIsValid
  <2>2. status(heap, c) = CHUNK_USED /\ next(heap, c) = NULL /\ prev(heap, c) = NULL
    BY <1>1, <1>2 DEF UsedOf, Idle
  <2> QED
    BY <2>1, <2>2 DEF MayFree
<1> HIDE DEF c, U
<1>5. PICK D : Freed(heap, after, C, D, c)
  <2>1. Shaped(heap, C, {c})
    <3>1. FreeOf(heap, C) \ {} = FreeOf(heap, C) \ {c}
      BY <1>2
    <3> QED
      BY <1>1, <3>1, SameOut
  <2>2. Apart(heap, C, {c})
    BY <1>1 DEF Apart
  <2>3. Idle(heap, U \ {c})
    BY <1>1 DEF Idle
  <2> QED
    BY <1>2, <2>1, <2>2, <2>3, PushFront DEF U
<1> HIDE DEF after, bs
<1>6. Good(after, D) /\ UsedOf(after, D) = U \ {c} /\ Kept(heap, after, U \ {c})
  BY <1>5 DEF Freed, U
<1>7. InOrder(after, D, bs) /\ Held(heap, after, bs)
  <2>1. Clients(after, D, live \ {b}) /\ Held(heap, after, live \ {b})
    BY <1>1, <1>6, GivenBack DEF U, c
  <2> QED
    BY <1>6, <2>1 DEF InOrder, bs
<1>8. check_heap_validity(after)
  BY <1>6, GoodIsValid
<1>9. heap' = Forget(after, Payloads(bs)) /\ live' = bs /\ aborted' = aborted
  BY <1>3, <1>4, <1>8
<1>10. InOrder(heap', D, bs) /\ Held(after, heap', bs)
  <2>1. bs \in SUBSET bs
    OBVIOUS
  <2> QED
    BY <1>7, <1>9, <2>1, Settled
<1>11. Held(heap, heap', bs)
  BY <1>7, <1>10, HeldOn
<1> QED
  BY <1>9, <1>10, <1>11 DEF TakesBack, bs

----------------------------------------------------------------------------
(* The theorems.                                                           *)

\* The chunks an ordered heap has are those the walk of the code meets.
LEMMA Met ==
    ASSUME NEW h, NEW C, NEW bs, InOrder(h, C, bs)
    PROVE  Chunks(h) = C
BY ChunksAre, OrderIs

\* At first there is no heap.
LEMMA Starts == Init => IInv
<1> SUFFICES ASSUME Init PROVE IInv
  OBVIOUS
<1>1. /\ heap = [hdr |-> [u \in Units |-> BlankHeader], ftr |-> [u \in Units |-> BlankFooter],
                 hi |-> 0, bins |-> [i \in Bins |-> NULL]]
      /\ live = {} /\ aborted = FALSE
  BY DEF Init
<1>2. IsHeap(heap) /\ HasBins(heap) /\ heap.hi = 0 /\ \A i \in Bins : heap.bins[i] = NULL
  BY <1>1, Constants DEF IsHeap, HasBins
<1>3. \A X, i : FreeOf(heap, {}) = {} /\ UsedOf(heap, {}) = {} /\ InBin(heap, {}, X, i) = {}
  BY DEF FreeOf, UsedOf, InBin
<1>4. Tiled(heap, {})
  BY <1>2 DEF Tiled
<1>5. Linked(heap, {}, NULL)
  BY DEF Linked, Forth, Back, NoRing
<1>6. Good(heap, {})
  BY <1>2, <1>3, <1>4, <1>5 DEF Good, Shaped, Binned, Apart, Idle
<1>7. Clients(heap, {}, live)
  BY <1>1, <1>3 DEF Clients
<1>8. InOrder(heap, {}, live)
  BY <1>6, <1>7 DEF InOrder
<1>9. Chunks(heap) = {}
  BY <1>8, Met
<1> QED
  BY <1>1, <1>8, <1>9 DEF IInv

\* What a call does.
LEMMA Calls ==
    ASSUME SizesFit, IInv, [Next]_vars
    PROVE  UNCHANGED vars \/ HandsOut(heap) \/ \E b \in live : TakesBack(b)
<1>1. ~aborted /\ InOrder(heap, Chunks(heap), live)
  BY DEF IInv
<1>2. ASSUME NEW size \in Sizes, MallocFits(size) PROVE HandsOut(heap)
  BY <1>1, <1>2, Fits
<1>3. ASSUME NEW size \in Sizes, MallocGrows(size) PROVE HandsOut(heap)
  BY <1>1, <1>3, GrowsToFit
<1>4. ASSUME NEW b \in live, FreeBlock(b) PROVE TakesBack(b)
  BY <1>1, <1>4, Frees
<1> QED
  BY <1>2, <1>3, <1>4 DEF Next

\* Each step keeps the invariant.
LEMMA Keeps ==
    ASSUME SizesFit, IInv, [Next]_vars
    PROVE  IInv'
<1>1. CASE UNCHANGED vars
  BY <1>1 DEF IInv, vars
<1>2. ASSUME NEW D, ~aborted', InOrder(heap', D, live') PROVE IInv'
  <2>1. Chunks(heap') = D
    BY <1>2, Met
  <2> QED
    BY <1>2, <2>1 DEF IInv
<1>3. CASE HandsOut(heap)
  BY <1>2, <1>3 DEF HandsOut
<1>4. CASE \E b \in live : TakesBack(b)
  BY <1>2, <1>4 DEF TakesBack
<1> QED
  BY <1>1, <1>3, <1>4, Calls

\* In every state the chunks tile the heap, no two free ones are side by side, each is
\* in the bin of its size and in no other, every bin is a doubly linked list, and the
\* chunks in use are the client's blocks, each with room for its size: the inductive
\* invariant.
THEOREM BinsInvariant ==
    ASSUME SizesFit PROVE Spec => []IInv
<1>1. IInv /\ [Next]_vars => IInv'
  BY Keeps
<1> QED
  BY <1>1, Starts, PTL DEF Spec

\* No call of heapmgr_malloc or heapmgr_free makes an assertion of heapmgr2.c fail; the
\* search after the heap has grown finds a chunk.
THEOREM BinsAssertions ==
    ASSUME SizesFit PROVE Spec => []NoAssertionFails
<1>1. IInv => NoAssertionFails
  BY DEF IInv, NoAssertionFails
<1> QED
  BY <1>1, BinsInvariant, PTL

\* What is not free is the client's: no block is handed out twice and none is lost.
THEOREM BinsUsed ==
    ASSUME SizesFit PROVE Spec => []UsedIsLive
<1>1. IInv => UsedIsLive
  BY OrderIs DEF IInv, Clients, UsedOf, UsedIsLive
<1> QED
  BY <1>1, BinsInvariant, PTL

\* The blocks of the refinement, before and after a step.
LEMMA OwnedBlocks ==
    /\ Owned = {BlockOf(heap, b) : b \in live}
    /\ Owned' = {BlockOf(heap', b) : b \in live'}
BY DEF Owned, BlockOf

\* The promise's names for the facts about blocks.
LEMMA BlockFits ==
    ASSUME SizesFit, NEW h, NEW C, NEW bs, InOrder(h, C, bs), NEW b \in bs
    PROVE  /\ BlockOf(h, b) \in Promise!Blocks
           /\ BlockOf(h, b).units * CHUNK_UNIT >= BlockOf(h, b).size
           /\ \A a \in bs \ {b} :
                 Promise!Space(BlockOf(h, a)) \cap Promise!Space(BlockOf(h, b)) = {}
<1>1. \A a : Promise!Space(BlockOf(h, a)) = SpaceOf(h, a)
  BY DEF Promise!Space, BlockOf, SpaceOf
<1>2. Promise!Blocks = [first : 0 .. MaxUnits, units : 0 .. MaxUnits, size : Sizes]
  BY DEF Promise!Blocks
<1>3. IsHeap(h) /\ Tiled(h, C) /\ Clients(h, C, bs)
  BY OrderIs
<1> QED
  BY <1>1, <1>2, <1>3, SpaceOfItsOwn

\* A call that hands out a block is a Malloc of Allocator.
LEMMA HandsOutMaps ==
    ASSUME SizesFit, HandsOut(heap)
    PROVE  Promise!Malloc
<1>1. PICK D, new : /\ InOrder(heap', D, live') /\ new \notin live
                    /\ live' = live \cup {new} /\ Held(heap, heap', live)
  BY DEF HandsOut
<1> DEFINE B == BlockOf(heap', new)
<1>2. /\ B \in Promise!Blocks /\ B.units * CHUNK_UNIT >= B.size
      /\ \A a \in live : Promise!Space(BlockOf(heap', a)) \cap Promise!Space(B) = {}
  <2>1. new \in live' /\ live' \ {new} = live
    BY <1>1
  <2> HIDE DEF B
  <2> QED
    BY <1>1, <2>1, BlockFits DEF B
<1>3. \A a \in live : BlockOf(heap', a) = BlockOf(heap, a)
  BY <1>1, SameBlocks
<1> HIDE DEF B
<1>4. \A o \in Owned : Promise!Space(o) \cap Promise!Space(B) = {}
  BY <1>2, <1>3, OwnedBlocks
<1>5. Owned' = Owned \cup {B}
  <2>1. {BlockOf(heap', b) : b \in live'} = {BlockOf(heap', b) : b \in live} \cup {B}
    BY <1>1 DEF B
  <2>2. {BlockOf(heap', b) : b \in live} = {BlockOf(heap, b) : b \in live}
    BY <1>3
  <2> QED
    BY <2>1, <2>2, OwnedBlocks
<1> QED
  BY <1>2, <1>4, <1>5 DEF Promise!Malloc

\* A call that takes one back is a Free.
LEMMA TakesBackMaps ==
    ASSUME SizesFit, IInv, NEW b \in live, TakesBack(b)
    PROVE  Promise!Free
<1>1. live' = live \ {b} /\ Held(heap, heap', live')
  BY DEF TakesBack
<1> DEFINE B == BlockOf(heap, b)
<1>2. \A a \in live \ {b} : BlockOf(heap', a) = BlockOf(heap, a)
  BY <1>1, SameBlocks
<1>3. \A a \in live \ {b} : BlockOf(heap, a) # B
  <2>1. \A a \in live : a.at \in Nat /\ (a.at = b.at => a = b)
    BY Constants DEF IInv, InOrder, Clients
  <2>2. \A a \in live : BlockOf(heap, a).first = a.at + 1
    BY DEF BlockOf
  <2>3. \A a \in live : BlockOf(heap, a) = B => a.at + 1 = b.at + 1
    BY <2>2
  <2>4. \A a \in live : BlockOf(heap, a) = B => a.at = b.at
    BY <2>1, <2>3
  <2> QED
    BY <2>1, <2>4
<1> HIDE DEF B
<1>4. Owned' = Owned \ {B}
  <2>1. {BlockOf(heap', a) : a \in live'} = {BlockOf(heap, a) : a \in live \ {b}}
    BY <1>1, <1>2
  <2>2. {BlockOf(heap, a) : a \in live \ {b}} = {BlockOf(heap, a) : a \in live} \ {B}
    BY <1>3 DEF B
  <2> QED
    BY <2>1, <2>2, OwnedBlocks
<1>5. B \in Owned
  BY OwnedBlocks DEF B
<1> QED
  BY <1>4, <1>5 DEF Promise!Free

\* The heap implements the allocator of heapmgr.h: malloc hands out space of its own
\* and as large as asked for, free gives a block back, and neither writes into a block
\* the client keeps.
THEOREM BinsKeepPromise ==
    ASSUME SizesFit PROVE Spec => KeepsPromise
<1> DEFINE Same == \A b \in live \cap live' : \A u \in Payload(b) :
                      heap'.hdr[u] = heap.hdr[u] /\ heap'.ftr[u] = heap.ftr[u]
<1>1. Init => Promise!Init
  BY DEF Init, Promise!Init, Owned
<1>2. IInv /\ [Next]_vars => [Promise!Next]_Owned
  <2> SUFFICES ASSUME IInv, [Next]_vars PROVE [Promise!Next]_Owned
    OBVIOUS
  <2>1. CASE UNCHANGED vars
    BY <2>1 DEF vars, Owned
  <2>2. CASE HandsOut(heap)
    BY <2>2, HandsOutMaps DEF Promise!Next
  <2>3. CASE \E b \in live : TakesBack(b)
    BY <2>3, TakesBackMaps DEF Promise!Next
  <2> QED
    BY <2>1, <2>2, <2>3, Calls
<1>3. IInv /\ [Next]_vars => [Same]_vars
  <2> SUFFICES ASSUME IInv, [Next]_vars, ~UNCHANGED vars PROVE Same
    OBVIOUS
  <2>1. CASE HandsOut(heap)
    BY <2>1 DEF HandsOut, Held
  <2>2. CASE \E b \in live : TakesBack(b)
    BY <2>2 DEF TakesBack, Held
  <2> QED
    BY <2>1, <2>2, Calls
<1> HIDE DEF Same
<1>4. Spec => Promise!Spec
  BY <1>1, <1>2, BinsInvariant, PTL DEF Spec, Promise!Spec
<1>5. Spec => [][Same]_vars
  BY <1>3, BinsInvariant, PTL DEF Spec
<1> QED
  BY <1>4, <1>5 DEF KeepsPromise, Same

=============================================================================
