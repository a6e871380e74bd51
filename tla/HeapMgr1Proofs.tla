--------------------------- MODULE HeapMgr1Proofs ---------------------------
(***************************************************************************)
(* Proofs about HeapMgr1, for every size of the heap and all sizes of      *)
(* requests that do not wrap, as long as no stale header has been          *)
(* returned.  The facts about chunks and lists are those of ChunkProofs.   *)
(*                                                                         *)
(* Inside a call a free chunk may be off the list: it was taken out, or    *)
(* has just been made.  X is the set of these; between calls it is empty.  *)
(***************************************************************************)
EXTENDS HeapMgr1, ChunkProofs

HasHead(h) == "head" \in DOMAIN h /\ h.head \in Units \cup {NULL}

\* The list holds the free chunks, those in X excepted.
Shaped(h, C, X) ==
    IsHeap(h) /\ HasHead(h) /\ Tiled(h, C) /\ Linked(h, FreeOf(h, C) \ X, h.head)
Good(h, C) == Shaped(h, C, {}) /\ Apart(h, C, {}) /\ Idle(h, UsedOf(h, C))

InOrder(h, C, bs) == Good(h, C) /\ Clients(h, C, bs)

\* The inductive invariant.
IInv == ~stale => ~aborted /\ InOrder(heap, Chunks(heap), live)
----------------------------------------------------------------------------
(* The operations on the list.                                             *)

\* What does not write the head leaves it as it is.
LEMMA SameHead ==
    ASSUME NEW h, HasHead(h), NEW h2, Rest(h, h2)
    PROVE  HasHead(h2) /\ h2.head = h.head
<1>1. "head" \in DOMAIN h \ {"hdr", "ftr", "hi"}
  BY DEF HasHead
<1> QED
  BY <1>1 DEF HasHead, Rest

\* Other links, each chunk of U as it was.
Linking(h, h2, C, U) ==
    /\ IsHeap(h2) /\ HasHead(h2) /\ Tiled(h2, C) /\ SameShape(h, h2, C) /\ Kept(h, h2, U)

LEMMA LinkingOn ==
    ASSUME NEW h, NEW h2, NEW h3, NEW C, NEW U, Linking(h, h2, C, U), Linking(h2, h3, C, U)
    PROVE  Linking(h, h3, C, U)
<1>1. Kept(h, h3, U)
  BY KeptOn DEF Linking
<1>2. SameShape(h, h3, C)
  BY DEF Linking, SameShape
<1> QED
  BY <1>1, <1>2 DEF Linking

\* New links, with the head as it was.
LEMMA NewLinks ==
    ASSUME NEW h, IsHeap(h), HasHead(h), NEW C, Tiled(h, C), NEW h2, NEW N, NEW P,
           Relinked(h, h2, C, {}, N, P), NEW U \in SUBSET C, U \cap (N \cup P) = {}
    PROVE  /\ Linking(h, h2, C, U) /\ h2.head = h.head
           /\ \A d \in C \ N : next(h2, d) = next(h, d)
           /\ \A d \in C \ P : prev(h2, d) = prev(h, d)
<1>1. IsHeap(h2) /\ Rest(h, h2) /\ SameShape(h, h2, C)
  BY DEF Relinked, SameShape
<1>2. HasHead(h2) /\ h2.head = h.head
  BY <1>1, SameHead
<1>3. Tiled(h2, C)
  BY StillTiled
<1>4. U \cap ({} \cup N \cup P) = {}
  OBVIOUS
<1>5. Kept(h, h2, U)
  BY <1>4, RelinkedKeeps
<1> QED
  BY <1>1, <1>2, <1>3, <1>5 DEF Relinked, Linking

\* A new head, with all chunks as they were.
LEMMA NewHead ==
    ASSUME NEW h, IsHeap(h), HasHead(h), NEW C, Tiled(h, C), NEW n \in Units \cup {NULL}
    PROVE  LET h2 == [h EXCEPT !.head = n]
           IN  /\ \A U \in SUBSET C : Linking(h, h2, C, U)
               /\ h2.head = n
               /\ \A d \in C : next(h2, d) = next(h, d) /\ prev(h2, d) = prev(h, d)
<1> DEFINE h2 == [h EXCEPT !.head = n]
<1>1. DOMAIN h2 = DOMAIN h /\ h2.head = n /\ h2.hdr = h.hdr /\ h2.ftr = h.ftr /\ h2.hi = h.hi
  BY DEF HasHead, IsHeap
<1> HIDE DEF h2
<1>2. IsHeap(h2) /\ HasHead(h2)
  BY <1>1 DEF IsHeap, HasHead
<1>3. \A d : /\ status(h2, d) = status(h, d) /\ span(h2, d) = span(h, d)
             /\ next(h2, d) = next(h, d) /\ footer(h2, d) = footer(h, d)
             /\ prev(h2, d) = prev(h, d)
  BY <1>1 DEF status, span, next, prev, footer
<1>4. Tiled(h2, C)
  BY <1>1, <1>3 DEF Tiled
<1>5. \A U : Kept(h, h2, U)
  BY <1>1, <1>3 DEF Kept, SameChunk
<1>6. SameShape(h, h2, C)
  BY <1>1, <1>3 DEF SameShape
<1> QED
  BY <1>1, <1>2, <1>3, <1>4, <1>5, <1>6 DEF h2, Linking

\* The facts about a shaped heap that the proofs below start from.
LEMMA ShapedIs ==
    ASSUME NEW h, NEW C, NEW X, Shaped(h, C, X)
    PROVE  /\ IsHeap(h) /\ HasHead(h) /\ Tiled(h, C) /\ C \in SUBSET Units
           /\ UsedOf(h, C) \in SUBSET C /\ FreeOf(h, C) \in SUBSET C
           /\ UsedOf(h, C) \cap FreeOf(h, C) = {} /\ C = FreeOf(h, C) \cup UsedOf(h, C)
           /\ \A c \in C : c \in Units /\ c # NULL /\ c \in Nat /\ span(h, c) \in Nat
           /\ Linked(h, FreeOf(h, C) \ X, h.head) /\ h.head \in (FreeOf(h, C) \ X) \cup {NULL}
<1>1. IsHeap(h) /\ HasHead(h) /\ Tiled(h, C) /\ Linked(h, FreeOf(h, C) \ X, h.head)
  BY DEF Shaped
<1>2. \A c \in C : c \in Units /\ c # NULL /\ c \in Nat /\ span(h, c) \in Nat
  BY <1>1, InTiling
<1>3. /\ C = FreeOf(h, C) \cup UsedOf(h, C) /\ UsedOf(h, C) \cap FreeOf(h, C) = {}
      /\ UsedOf(h, C) \in SUBSET C /\ FreeOf(h, C) \in SUBSET C
  BY <1>1, FreeOrUsed DEF UsedOf, FreeOf
<1>4. h.head \in (FreeOf(h, C) \ X) \cup {NULL}
  BY <1>1 DEF Linked
<1> QED
  BY <1>1, <1>2, <1>3, <1>4

\* Chunk c has been taken off the list, if it was there; what it had before it and
\* behind it are linked.
Unlinked(h, h2, C, X, c) ==
    /\ Shaped(h2, C, X \cup {c}) /\ SameShape(h, h2, C) /\ Kept(h, h2, UsedOf(h, C))
    /\ next(h2, c) = NULL /\ prev(h2, c) = NULL
    /\ \A d \in C \ {c} :
          /\ next(h2, d) = IF d = prev(h, c) THEN next(h, c) ELSE next(h, d)
          /\ prev(h2, d) = IF d = next(h, c) THEN prev(h, c) ELSE prev(h, d)

\* freelist_unlink of a chunk on the list.
LEMMA Unlink ==
    ASSUME NEW h, NEW C, NEW X, Shaped(h, C, X), NEW c \in FreeOf(h, C) \ X
    PROVE  Unlinked(h, freelist_unlink(h, c), C, X, c) /\ (prev(h, c) = NULL => h.head = c)
<1> DEFINE F  == FreeOf(h, C) \ X
           U  == UsedOf(h, C)
           p  == prev(h, c)
           n  == next(h, c)
           h1 == IF p # NULL THEN set_next(h, p, n)
                 ELSE IF h.head = c THEN [h EXCEPT !.head = n] ELSE h
           h2 == IF n # NULL THEN set_prev(h1, n, p) ELSE h1
           h3 == set_links(h2, c, NULL, NULL)
<1>1. /\ IsHeap(h) /\ HasHead(h) /\ Tiled(h, C) /\ C \in SUBSET Units
      /\ U \in SUBSET C /\ U \cap F = {} /\ c \in C /\ c # NULL
      /\ c \in F /\ Linked(h, F, h.head) /\ F \in SUBSET C /\ NULL \notin C
  <2>1. /\ IsHeap(h) /\ HasHead(h) /\ Tiled(h, C) /\ C \in SUBSET Units
        /\ U \in SUBSET C /\ Linked(h, F, h.head) /\ U \cap FreeOf(h, C) = {}
        /\ FreeOf(h, C) \in SUBSET C /\ \A d \in C : d # NULL
    BY ShapedIs
  <2> QED
    BY <2>1
<1> HIDE DEF F
<1>2. /\ p = NULL => h.head = c
      /\ p # NULL => p \in F /\ next(h, p) = c
      /\ n # NULL => n \in F /\ prev(h, n) = c
  BY <1>1 DEF Linked, Forth, Back
<1>3. p \in C \cup {NULL} /\ n \in C \cup {NULL} /\ n \in Units \cup {NULL}
      /\ (p # NULL => p \notin U) /\ (n # NULL => n \notin U) /\ c \notin U
  BY <1>1, <1>2
<1> HIDE DEF U, p, n
<1>4. /\ Linking(h, h1, C, U)
      /\ h1.head = (IF p = NULL THEN n ELSE h.head)
      /\ \A d \in C : /\ prev(h1, d) = prev(h, d)
                      /\ next(h1, d) = IF d = p THEN n ELSE next(h, d)
  <2>1. CASE p = NULL
    <3>1. h1 = [h EXCEPT !.head = n] /\ \A d \in C : d # p
      BY <1>1, <1>2, <2>1
    <3> HIDE DEF h1
    <3>2. /\ Linking(h, h1, C, U) /\ h1.head = n
          /\ \A d \in C : next(h1, d) = next(h, d) /\ prev(h1, d) = prev(h, d)
      BY <1>1, <1>3, <3>1, NewHead
    <3> QED
      BY <2>1, <3>1, <3>2
  <2>2. CASE p # NULL
    <3>1. h1 = set_next(h, p, n) /\ p \in C /\ n \in C \cup {NULL}
      BY <1>3, <2>2
    <3> HIDE DEF h1
    <3>2. Relinked(h, h1, C, {}, {p}, {}) /\ next(h1, p) = n
      BY <1>1, <3>1, SetNext
    <3>3. U \cap ({p} \cup {}) = {}
      BY <1>3, <2>2
    <3>4. /\ Linking(h, h1, C, U) /\ h1.head = h.head
          /\ (\A d \in C \ {p} : next(h1, d) = next(h, d))
          /\ \A d \in C \ {} : prev(h1, d) = prev(h, d)
      <4>1. IsHeap(h) /\ HasHead(h) /\ Tiled(h, C) /\ U \in SUBSET C
        BY <1>1
      <4> QED
        BY <4>1, <3>2, <3>3, NewLinks
    <3> QED
      BY <2>2, <3>2, <3>4
  <2> QED
    BY <2>1, <2>2
<1> HIDE DEF h1
<1>5. /\ Linking(h, h2, C, U) /\ h2.head = h1.head
      /\ \A d \in C : /\ next(h2, d) = next(h1, d)
                      /\ prev(h2, d) = IF d = n THEN p ELSE prev(h1, d)
  <2>1. CASE n = NULL
    <3>1. h2 = h1 /\ \A d \in C : d # n
      BY <1>1, <2>1
    <3> QED
      BY <1>4, <3>1
  <2>2. CASE n # NULL
    <3>1. h2 = set_prev(h1, n, p) /\ n \in C /\ p \in C \cup {NULL}
      BY <1>3, <2>2
    <3> HIDE DEF h2
    <3>2. IsHeap(h1) /\ HasHead(h1) /\ Tiled(h1, C)
      BY <1>4 DEF Linking
    <3>3. Relinked(h1, h2, C, {}, {}, {n}) /\ prev(h2, n) = p
      BY <3>1, <3>2, SetPrev
    <3>4. U \cap ({} \cup {n}) = {}
      BY <1>3, <2>2
    <3>5. /\ Linking(h1, h2, C, U) /\ h2.head = h1.head
          /\ (\A d \in C \ {} : next(h2, d) = next(h1, d))
          /\ \A d \in C \ {n} : prev(h2, d) = prev(h1, d)
      BY <1>1, <3>2, <3>3, <3>4, NewLinks
    <3>6. Linking(h, h2, C, U)
      BY <1>4, <3>5, LinkingOn
    <3> QED
      BY <3>3, <3>5, <3>6
  <2> QED
    BY <2>1, <2>2
<1> HIDE DEF h2
<1>6. /\ Linking(h, h3, C, U)
      /\ h3.head = h1.head /\ next(h3, c) = NULL /\ prev(h3, c) = NULL
      /\ \A d \in C \ {c} : /\ next(h3, d) = IF d = p THEN n ELSE next(h, d)
                            /\ prev(h3, d) = IF d = n THEN p ELSE prev(h, d)
  <2>1. IsHeap(h2) /\ HasHead(h2) /\ Tiled(h2, C)
    BY <1>5 DEF Linking
  <2>2. Relinked(h2, h3, C, {}, {c}, {c}) /\ next(h3, c) = NULL /\ prev(h3, c) = NULL
    BY <1>1, <2>1, SetLinks
  <2> HIDE DEF h3
  <2>3. U \cap ({c} \cup {c}) = {}
    BY <1>3
  <2>4. /\ Linking(h2, h3, C, U) /\ h3.head = h2.head
        /\ (\A d \in C \ {c} : next(h3, d) = next(h2, d))
        /\ \A d \in C \ {c} : prev(h3, d) = prev(h2, d)
    BY <1>1, <2>1, <2>2, <2>3, NewLinks
  <2>5. Linking(h, h3, C, U)
    BY <1>5, <2>4, LinkingOn
  <2> QED
    BY <1>4, <1>5, <2>2, <2>4, <2>5
<1>7. freelist_unlink(h, c) = h3
  BY DEF freelist_unlink, h1, h2, p, n
<1> HIDE DEF h3
<1>8. Linked(h3, FreeOf(h3, C) \ (X \cup {c}), h3.head)
  <2>1. \A d \in F \ {c} : /\ next(h3, d) = IF d = prev(h, c) THEN next(h, c) ELSE next(h, d)
                           /\ prev(h3, d) = IF d = next(h, c) THEN prev(h, c) ELSE prev(h, d)
    BY <1>1, <1>6 DEF p, n
  <2>2. Linked(h3, F \ {c}, IF prev(h, c) = NULL THEN next(h, c) ELSE h.head)
    BY <1>1, <2>1, TakenOut
  <2>3. FreeOf(h3, C) = FreeOf(h, C)
    BY <1>6, SameParts DEF Linking
  <2>4. FreeOf(h3, C) \ (X \cup {c}) = F \ {c}
    BY <2>3 DEF F
  <2>5. h3.head = IF prev(h, c) = NULL THEN next(h, c) ELSE h.head
    BY <1>4, <1>6 DEF p, n
  <2> QED
    BY <2>2, <2>4, <2>5
<1>9. Shaped(h3, C, X \cup {c}) /\ SameShape(h, h3, C) /\ Kept(h, h3, U)
  BY <1>6, <1>8 DEF Shaped, Linking
<1>10. Unlinked(h, h3, C, X, c)
  BY <1>6, <1>9 DEF Unlinked, U, p, n
<1> QED
  BY <1>2, <1>7, <1>10 DEF p

\* freelist_unlink of a chunk that has been taken off already.
LEMMA UnlinkAgain ==
    ASSUME NEW h, NEW C, NEW X, Shaped(h, C, X), NEW c \in FreeOf(h, C) \cap X,
           next(h, c) = NULL, prev(h, c) = NULL
    PROVE  Unlinked(h, freelist_unlink(h, c), C, X, c)
<1> DEFINE U  == UsedOf(h, C)
           h3 == set_links(h, c, NULL, NULL)
<1>1. /\ IsHeap(h) /\ HasHead(h) /\ Tiled(h, C) /\ U \in SUBSET C /\ c \in C /\ c \notin U
      /\ Linked(h, FreeOf(h, C) \ X, h.head) /\ NULL \notin C /\ h.head # c
      /\ FreeOf(h, C) \in SUBSET C
  <2>1. /\ IsHeap(h) /\ HasHead(h) /\ Tiled(h, C) /\ U \in SUBSET C /\ U \cap FreeOf(h, C) = {}
        /\ FreeOf(h, C) \in SUBSET C /\ (\A d \in C : d # NULL)
        /\ Linked(h, FreeOf(h, C) \ X, h.head) /\ h.head \in (FreeOf(h, C) \ X) \cup {NULL}
    BY ShapedIs
  <2> HIDE DEF U
  <2> QED
    BY <2>1
<1>2. freelist_unlink(h, c) = h3
  BY <1>1 DEF freelist_unlink
<1>3. Relinked(h, h3, C, {}, {c}, {c}) /\ next(h3, c) = NULL /\ prev(h3, c) = NULL
  BY <1>1, SetLinks
<1> HIDE DEF h3, U
<1>4. U \cap ({c} \cup {c}) = {}
  BY <1>1
<1>5. /\ Linking(h, h3, C, U) /\ h3.head = h.head
      /\ (\A d \in C \ {c} : next(h3, d) = next(h, d))
      /\ \A d \in C \ {c} : prev(h3, d) = prev(h, d)
  BY <1>1, <1>3, <1>4, NewLinks
<1>6. Linked(h3, FreeOf(h3, C) \ (X \cup {c}), h3.head)
  <2>1. FreeOf(h3, C) = FreeOf(h, C)
    BY <1>5, SameParts DEF Linking
  <2>2. FreeOf(h3, C) \ (X \cup {c}) = FreeOf(h, C) \ X
    BY <2>1
  <2>3. \A d \in FreeOf(h, C) \ X : next(h3, d) = next(h, d) /\ prev(h3, d) = prev(h, d)
    BY <1>1, <1>5
  <2>4. Linked(h3, FreeOf(h, C) \ X, h.head)
    BY <1>1, <2>3, SameList
  <2> QED
    BY <1>5, <2>2, <2>4
<1>7. Shaped(h3, C, X \cup {c}) /\ SameShape(h, h3, C) /\ Kept(h, h3, U)
  BY <1>5, <1>6 DEF Shaped, Linking
<1>8. \A d \in C \ {c} : d # NULL
  BY <1>1
<1> QED
  BY <1>2, <1>3, <1>5, <1>7, <1>8 DEF Unlinked, U

\* Of the chunks a and b one is made, at a.
Merged(h, h2, C, X, a, b) ==
    /\ Shaped(h2, C \ {b}, X \ {b}) /\ h2.hi = h.hi /\ a # b
    /\ span(h2, a) = span(h, a) + span(h, b)
    /\ FreeOf(h2, C \ {b}) = FreeOf(h, C) \ {b} /\ UsedOf(h2, C \ {b}) = UsedOf(h, C)
    /\ \A d \in C \ {b} : d # a => span(h2, d) = span(h, d)
    /\ Kept(h, h2, UsedOf(h, C))

\* coalesce_two makes one chunk of two.  What it writes into the links of a and of the
\* chunk after it, and into the head, is what unlinking b has left there.
LEMMA Coalesce ==
    ASSUME NEW h, NEW C, NEW X, Shaped(h, C, X), NEW a \in FreeOf(h, C) \ X,
           NEW b \in FreeOf(h, C), a + span(h, a) = b,
           b \in X => next(h, b) = NULL /\ prev(h, b) = NULL
    PROVE  Merged(h, coalesce_two(h, a, b), C, X, a, b)
<1> DEFINE U  == UsedOf(h, C)
           F  == FreeOf(h, C) \ X
           G  == F \ {b}
           D  == C \ {b}
           an == IF next(h, a) = b THEN next(h, b) ELSE next(h, a)
           h1 == freelist_unlink(h, b)
           ap == prev(h1, a)
           s  == span(h1, a) + span(h1, b)
           g  == set_span(h1, a, s)
           h2 == set_next(g, a, an)
           h3 == IF an # NULL THEN set_prev(h2, an, a) ELSE h2
           h4 == set_prev(h3, a, ap)
           h5 == IF ap = NULL THEN [h4 EXCEPT !.head = a] ELSE h4
<1>1. /\ Linked(h, F, h.head) /\ U \in SUBSET C /\ a \in F /\ F \in SUBSET C
      /\ a \in C /\ b \in C /\ a # b /\ a \notin U /\ b \notin U /\ a \in Units /\ a # NULL
      /\ C \in SUBSET Units /\ b # NULL
  <2>1. /\ Linked(h, F, h.head) /\ U \in SUBSET C /\ U \cap FreeOf(h, C) = {}
        /\ FreeOf(h, C) \in SUBSET C /\ IsHeap(h) /\ Tiled(h, C) /\ C \in SUBSET Units
        /\ \A c \in C : c \in Units /\ c # NULL
    BY ShapedIs
  <2>2. a \in C /\ b \in C
    BY <2>1
  <2>3. a \in Nat /\ span(h, a) \in Nat /\ span(h, a) >= 2
    BY <2>1, <2>2, InTiling
  <2>4. a # b
    BY <2>3
  <2> HIDE DEF U
  <2> QED
    BY <2>1, <2>2, <2>4
<1>2. Unlinked(h, h1, C, X, b)
  <2>1. CASE b \in X
    BY <2>1, UnlinkAgain
  <2>2. CASE b \notin X
    BY <2>2, Unlink
  <2> QED
    BY <2>1, <2>2
<1> HIDE DEF h1
<1>3. /\ Shaped(h1, C, X \cup {b}) /\ SameShape(h, h1, C) /\ Kept(h, h1, U)
      /\ next(h1, a) = an
  <2>1. next(h1, a) = IF a = prev(h, b) THEN next(h, b) ELSE next(h, a)
    BY <1>1, <1>2 DEF Unlinked
  <2>2. a = prev(h, b) <=> next(h, a) = b
    <3>1. CASE b \in X
      <4>1. next(h, a) \in F \cup {NULL}
        BY <1>1 DEF Linked, Forth
      <4>2. next(h, a) # b
        BY <1>1, <3>1, <4>1
      <4> QED
        BY <1>1, <3>1, <4>2
    <3>2. CASE b \notin X
      <4>1. b \in F
        BY <3>2
      <4> HIDE DEF F
      <4> QED
        BY <1>1, <4>1 DEF Linked, Forth, Back
    <3> QED
      BY <3>1, <3>2
  <2> QED
    BY <1>2, <2>1, <2>2 DEF Unlinked
<1> HIDE DEF an
<1>4. /\ IsHeap(h1) /\ HasHead(h1) /\ Tiled(h1, C) /\ h1.hi = h.hi
      /\ FreeOf(h1, C) = FreeOf(h, C) /\ UsedOf(h1, C) = U
      /\ Linked(h1, G, h1.head) /\ a \in G /\ G \in SUBSET D
      /\ \A d \in C : span(h1, d) = span(h, d) /\ status(h1, d) = status(h, d)
  <2>1. /\ IsHeap(h1) /\ HasHead(h1) /\ Tiled(h1, C)
        /\ Linked(h1, FreeOf(h1, C) \ (X \cup {b}), h1.head)
    BY <1>3 DEF Shaped
  <2>2. FreeOf(h1, C) = FreeOf(h, C) /\ UsedOf(h1, C) = U
    BY <1>3, SameParts
  <2>3. FreeOf(h1, C) \ (X \cup {b}) = G
    BY <2>2
  <2>4. a \in G /\ G \in SUBSET D
    BY <1>1
  <2> QED
    BY <1>3, <2>1, <2>2, <2>3, <2>4 DEF SameShape
<1> HIDE DEF F, G
<1>5. /\ an # NULL => an \in G /\ prev(h1, an) = a
      /\ ap # NULL => ap \in G
      /\ ap = NULL => a = h1.head
  BY <1>3, <1>4 DEF Linked, Forth, Back
<1> HIDE DEF ap
<1>6. /\ IsHeap(g) /\ Rest(h1, g) /\ g.hi = h1.hi /\ Tiled(g, D)
      /\ span(g, a) = s /\ status(g, a) = status(h1, a) /\ next(g, a) = next(h1, a)
      /\ (\A d \in D \ {a} : SameChunk(h1, g, d))
      /\ Kept(h1, g, D \ {a})
  <2>1. a + span(h1, a) = b
    BY <1>1, <1>4
  <2> QED
    <3>1. Absorbed(h1, g, C, a, b)
      BY <1>1, <1>4, <2>1, Merges
    <3> QED
      BY <3>1 DEF Absorbed
<1> HIDE DEF g
<1>7. HasHead(g) /\ g.head = h1.head
  BY <1>4, <1>6, SameHead
<1>8. U \in SUBSET D /\ U \subseteq D \ {a} /\ a \in D /\ Kept(h, g, U) /\ U \cap G = {}
  <2>1. U \subseteq D \ {a} /\ a \in D
    BY <1>1
  <2>2. Kept(h1, g, U)
    BY <1>6, <2>1 DEF Kept
  <2>3. Kept(h, g, U)
    BY <1>3, <2>2, KeptOn
  <2>4. U \cap FreeOf(h, C) = {}
    BY ShapedIs
  <2>5. G \subseteq FreeOf(h, C)
    BY DEF F, G
  <2> HIDE DEF U
  <2> QED
    BY <2>1, <2>3, <2>4, <2>5
<1> HIDE DEF U
<1>9. an \in D \cup {NULL} /\ ap \in D \cup {NULL} /\ (an # NULL => an \notin U)
  BY <1>4, <1>5, <1>8
\* The four writes.
<1>10. /\ Linking(g, h2, D, U) /\ h2.head = g.head /\ next(h2, a) = an
       /\ (\A d \in D \ {a} : next(h2, d) = next(g, d))
       /\ \A d \in D \ {} : prev(h2, d) = prev(g, d)
  <2>1. Relinked(g, h2, D, {}, {a}, {}) /\ next(h2, a) = an
    BY <1>6, <1>8, <1>9, SetNext
  <2> HIDE DEF h2
  <2>2. U \cap ({a} \cup {}) = {}
    BY <1>8
  <2> QED
    BY <1>6, <1>7, <1>8, <2>1, <2>2, NewLinks
<1> HIDE DEF h2
<1>11. /\ Linking(h2, h3, D, U) /\ h3.head = h2.head
       /\ \A d \in D : /\ next(h3, d) = next(h2, d)
                       /\ prev(h3, d) = IF d = an THEN a ELSE prev(h2, d)
  <2>1. IsHeap(h2) /\ HasHead(h2) /\ Tiled(h2, D)
    BY <1>10 DEF Linking
  <2>2. CASE an = NULL
    <3>1. h3 = h2 /\ \A d \in D : d # an
      BY <2>2, <1>1, ShapedIs
    <3>2. Linking(h2, h2, D, U)
      BY <2>1 DEF Linking, SameShape, Kept, SameChunk
    <3> QED
      BY <3>1, <3>2
  <2>3. CASE an # NULL
    <3>1. h3 = set_prev(h2, an, a) /\ an \in D /\ a \in D \cup {NULL}
      BY <1>8, <1>9, <2>3
    <3> HIDE DEF h3
    <3>2. Relinked(h2, h3, D, {}, {}, {an}) /\ prev(h3, an) = a
      BY <2>1, <3>1, SetPrev
    <3>3. U \cap ({} \cup {an}) = {}
      BY <1>9, <2>3
    <3>4. /\ Linking(h2, h3, D, U) /\ h3.head = h2.head
          /\ (\A d \in D \ {} : next(h3, d) = next(h2, d))
          /\ \A d \in D \ {an} : prev(h3, d) = prev(h2, d)
      BY <1>8, <2>1, <3>2, <3>3, NewLinks
    <3> QED
      BY <3>2, <3>4
  <2> QED
    BY <2>2, <2>3
<1> HIDE DEF h3
<1>12. /\ Linking(h3, h4, D, U) /\ h4.head = h3.head /\ prev(h4, a) = ap
       /\ (\A d \in D \ {} : next(h4, d) = next(h3, d))
       /\ \A d \in D \ {a} : prev(h4, d) = prev(h3, d)
  <2>1. IsHeap(h3) /\ HasHead(h3) /\ Tiled(h3, D)
    BY <1>11 DEF Linking
  <2>2. Relinked(h3, h4, D, {}, {}, {a}) /\ prev(h4, a) = ap
    BY <1>8, <1>9, <2>1, SetPrev
  <2> HIDE DEF h4
  <2>3. U \cap ({} \cup {a}) = {}
    BY <1>8
  <2> QED
    BY <1>8, <2>1, <2>2, <2>3, NewLinks
<1> HIDE DEF h4
<1>13. /\ Linking(h4, h5, D, U) /\ h5.head = h1.head
       /\ \A d \in D : next(h5, d) = next(h4, d) /\ prev(h5, d) = prev(h4, d)
  <2>1. IsHeap(h4) /\ HasHead(h4) /\ Tiled(h4, D) /\ h4.head = h1.head
    BY <1>7, <1>10, <1>11, <1>12 DEF Linking
  <2>2. CASE ap # NULL
    <3>1. h5 = h4
      BY <2>2
    <3>2. Linking(h4, h4, D, U)
      BY <2>1 DEF Linking, SameShape, Kept, SameChunk
    <3> QED
      BY <2>1, <3>1, <3>2
  <2>3. CASE ap = NULL
    <3>1. h5 = [h4 EXCEPT !.head = a] /\ a = h1.head /\ a \in Units \cup {NULL}
      BY <1>1, <1>5, <2>3
    <3> HIDE DEF h5
    <3>2. /\ (\A V \in SUBSET D : Linking(h4, h5, D, V))
          /\ h5.head = a
          /\ \A d \in D : next(h5, d) = next(h4, d) /\ prev(h5, d) = prev(h4, d)
      BY <2>1, <3>1, NewHead
    <3> QED
      BY <1>8, <3>1, <3>2
  <2> QED
    BY <2>2, <2>3
<1> HIDE DEF h5
<1>14. Linking(g, h5, D, U)
  <2>1. Linking(g, h3, D, U)
    BY <1>10, <1>11, LinkingOn
  <2>2. Linking(h3, h5, D, U)
    BY <1>12, <1>13, LinkingOn
  <2> QED
    BY <2>1, <2>2, LinkingOn
<1>15. \A d \in G : next(h5, d) = next(h1, d) /\ prev(h5, d) = prev(h1, d)
  <2> SUFFICES ASSUME NEW d \in G PROVE next(h5, d) = next(h1, d) /\ prev(h5, d) = prev(h1, d)
    OBVIOUS
  <2>1. d \in D
    BY <1>4
  <2>2. CASE d = a
    BY <1>3, <1>10, <1>11, <1>12, <1>13, <2>1, <2>2 DEF ap
  <2>3. CASE d # a
    <3>1. next(g, d) = next(h1, d) /\ prev(g, d) = prev(h1, d)
      BY <1>6, <2>1, <2>3 DEF SameChunk
    <3>2. next(h5, d) = next(g, d) /\ prev(h5, d) = IF d = an THEN a ELSE prev(g, d)
      BY <1>10, <1>11, <1>12, <1>13, <2>1, <2>3
    <3>3. d = an => prev(h1, d) = a
      <4>1. d # NULL
        BY <1>4, <2>1, InTiling
      <4> QED
        BY <1>5, <4>1
    <3> QED
      BY <3>1, <3>2, <3>3
  <2> QED
    BY <2>2, <2>3
<1>16. Linked(h5, G, h5.head)
  BY <1>4, <1>13, <1>15, SameList
<1>17. /\ \A d \in D : status(h5, d) = status(h, d)
       /\ \A d \in D \ {a} : span(h5, d) = span(h, d)
       /\ span(h5, a) = span(h, a) + span(h, b) /\ h5.hi = h.hi
  <2>1. /\ h5.hi = g.hi
        /\ \A d \in D : status(h5, d) = status(g, d) /\ span(h5, d) = span(g, d)
    BY <1>14 DEF Linking, SameShape
  <2>2. \A d \in D \ {a} : status(g, d) = status(h, d) /\ span(g, d) = span(h, d)
    BY <1>4, <1>6 DEF SameChunk
  <2>3. status(g, a) = status(h, a) /\ span(g, a) = span(h, a) + span(h, b)
    BY <1>1, <1>4, <1>6
  <2> QED
    BY <1>4, <1>6, <1>8, <2>1, <2>2, <2>3
<1>18. FreeOf(h5, D) = FreeOf(h, C) \ {b} /\ UsedOf(h5, D) = U
  <2>1. FreeOf(h5, D) = FreeOf(h, C) \ {b}
    BY <1>17 DEF FreeOf
  <2>2. UsedOf(h5, D) = UsedOf(h, C) \ {b}
    BY <1>17 DEF UsedOf
  <2> QED
    BY <1>1, <1>8, <2>1, <2>2 DEF U
<1>19. Shaped(h5, D, X \ {b})
  <2>1. FreeOf(h5, D) \ (X \ {b}) = G
    BY <1>18 DEF G, F
  <2> QED
    BY <1>14, <1>16, <2>1 DEF Shaped, Linking
<1>20. Kept(h, h5, U)
  <2>1. Kept(g, h5, U)
    BY <1>14 DEF Linking
  <2> QED
    BY <1>8, <2>1, KeptOn
<1>21. coalesce_two(h, a, b) = h5
  BY DEF coalesce_two, h1, h2, h3, h4, h5, g, s, ap, an
<1> HIDE DEF s
<1> QED
  BY <1>1, <1>17, <1>18, <1>19, <1>20, <1>21 DEF Merged, U

----------------------------------------------------------------------------
(* freelist_push_front.                                                    *)

\* Chunk c, which was off the list, is free and at its head.
PutOn(h, h2, C, c) ==
    /\ Shaped(h2, C, {}) /\ h2.hi = h.hi /\ c \in FreeOf(h2, C)
    /\ UsedOf(h2, C) = UsedOf(h, C) \ {c} /\ Kept(h, h2, UsedOf(h, C) \ {c})
    /\ \A d \in C : span(h2, d) = span(h, d)
    /\ Apart(h2, C, {c})

LEMMA PutsOn ==
    ASSUME NEW h, NEW C, NEW c \in C, Shaped(h, C, {c}), Apart(h, C, {c})
    PROVE  LET h1 == set_links(set_status(h, c, CHUNK_FREE), c, NULL, h.head)
               h2 == IF h.head # NULL THEN set_prev(h1, h.head, c) ELSE h1
               h3 == [h2 EXCEPT !.head = c]
           IN  PutOn(h, h3, C, c)
<1> DEFINE U  == UsedOf(h, C) \ {c}
           F  == FreeOf(h, C) \ {c}
           n  == h.head
           g  == set_status(h, c, CHUNK_FREE)
           h1 == set_links(g, c, NULL, n)
           h2 == IF n # NULL THEN set_prev(h1, n, c) ELSE h1
           h3 == [h2 EXCEPT !.head = c]
<1>1. /\ IsHeap(h) /\ HasHead(h) /\ Tiled(h, C) /\ Linked(h, F, n) /\ F \in SUBSET C
      /\ U \in SUBSET C /\ c \notin U /\ c \notin F /\ c \in Units /\ c # NULL /\ NULL \notin C
      /\ U \cap F = {} /\ n \in F \cup {NULL} /\ n \in C \cup {NULL} /\ n # c
      /\ (n # NULL => n \notin U) /\ C \in SUBSET Units
  <2>1. /\ IsHeap(h) /\ HasHead(h) /\ Tiled(h, C) /\ Linked(h, F, n) /\ n \in F \cup {NULL}
    BY DEF Shaped, Linked
  <2>2. /\ UsedOf(h, C) \in SUBSET C /\ UsedOf(h, C) \cap FreeOf(h, C) = {}
        /\ FreeOf(h, C) \in SUBSET C /\ C \in SUBSET Units /\ \A d \in C : d \in Units /\ d # NULL
    <3>1. C \in SUBSET Units /\ \A d \in C : d \in Units /\ d # NULL
      BY <2>1, InTiling
    <3>2. UsedOf(h, C) \cap FreeOf(h, C) = {}
      BY <2>1, FreeOrUsed
    <3> QED
      BY <3>1, <3>2 DEF UsedOf, FreeOf
  <2> HIDE DEF n
  <2>3. F \in SUBSET C /\ U \in SUBSET C /\ c \notin U /\ c \notin F /\ U \cap F = {}
    BY <2>2
  <2>4. c \in C /\ NULL \notin C
    BY <2>2
  <2> HIDE DEF U, F
  <2> QED
    BY <2>1, <2>2, <2>3, <2>4
<1> HIDE DEF U, F, n
<1>2. Relinked(h, g, C, {c}, {}, {}) /\ status(g, c) = CHUNK_FREE
  BY <1>1, SetStatus
<1> HIDE DEF g
<1>3. /\ IsHeap(g) /\ HasHead(g) /\ Tiled(g, C) /\ g.head = n /\ g.hi = h.hi /\ Kept(h, g, U)
      /\ (\A d \in C \ {c} : status(g, d) = status(h, d))
      /\ \A d \in C : /\ span(g, d) = span(h, d) /\ next(g, d) = next(h, d)
                      /\ prev(g, d) = prev(h, d)
  <2>1. IsHeap(g) /\ Rest(h, g) /\ Tiled(g, C)
    BY <1>1, <1>2, StillTiled DEF Relinked
  <2>2. HasHead(g) /\ g.head = n
    BY <1>1, <2>1, SameHead DEF n
  <2>3. U \cap ({c} \cup {} \cup {}) = {}
    BY <1>1
  <2>4. Kept(h, g, U)
    BY <1>1, <1>2, <2>3, RelinkedKeeps
  <2> QED
    BY <1>2, <2>1, <2>2, <2>4 DEF Relinked
<1>4. /\ Linking(g, h1, C, U) /\ h1.head = n /\ next(h1, c) = n /\ prev(h1, c) = NULL
      /\ (\A d \in C \ {c} : next(h1, d) = next(g, d))
      /\ \A d \in C \ {c} : prev(h1, d) = prev(g, d)
  <2>1. Relinked(g, h1, C, {}, {c}, {c}) /\ next(h1, c) = n /\ prev(h1, c) = NULL
    BY <1>1, <1>3, SetLinks
  <2> HIDE DEF h1
  <2>2. U \cap ({c} \cup {c}) = {}
    BY <1>1
  <2> QED
    BY <1>1, <1>3, <2>1, <2>2, NewLinks
<1> HIDE DEF h1
<1>5. IsHeap(h1) /\ HasHead(h1) /\ Tiled(h1, C)
  BY <1>4 DEF Linking
<1>6. /\ Linking(g, h2, C, U)
      /\ \A d \in C : /\ next(h2, d) = next(h1, d)
                      /\ prev(h2, d) = IF d = n THEN c ELSE prev(h1, d)
  <2>1. CASE n = NULL
    <3>1. h2 = h1 /\ \A d \in C : d # n
      BY <1>1, <2>1
    <3> QED
      BY <1>4, <3>1
  <2>2. CASE n # NULL
    <3>1. h2 = set_prev(h1, n, c) /\ n \in C /\ c \in C \cup {NULL}
      BY <1>1, <2>2
    <3> HIDE DEF h2
    <3>2. Relinked(h1, h2, C, {}, {}, {n}) /\ prev(h2, n) = c
      BY <1>5, <3>1, SetPrev
    <3>3. U \cap ({} \cup {n}) = {}
      BY <1>1, <2>2
    <3>4. /\ Linking(h1, h2, C, U)
          /\ (\A d \in C \ {} : next(h2, d) = next(h1, d))
          /\ \A d \in C \ {n} : prev(h2, d) = prev(h1, d)
      BY <1>1, <1>5, <3>2, <3>3, NewLinks
    <3>5. Linking(g, h2, C, U)
      BY <1>4, <3>4, LinkingOn
    <3> QED
      BY <3>2, <3>4, <3>5
  <2> QED
    BY <2>1, <2>2
<1> HIDE DEF h2
<1>7. /\ Linking(g, h3, C, U) /\ h3.head = c /\ next(h3, c) = n /\ prev(h3, c) = NULL
      /\ \A d \in C \ {c} : /\ next(h3, d) = next(h, d)
                            /\ prev(h3, d) = IF d = n THEN c ELSE prev(h, d)
  <2>1. IsHeap(h2) /\ HasHead(h2) /\ Tiled(h2, C) /\ c \in Units \cup {NULL}
    BY <1>1, <1>6 DEF Linking
  <2>2. /\ (\A V \in SUBSET C : Linking(h2, h3, C, V)) /\ h3.head = c
        /\ \A d \in C : next(h3, d) = next(h2, d) /\ prev(h3, d) = prev(h2, d)
    BY <2>1, NewHead
  <2> HIDE DEF h3
  <2>3. Linking(g, h3, C, U)
    BY <1>1, <1>6, <2>2, LinkingOn
  <2> QED
    BY <1>1, <1>3, <1>4, <1>6, <2>2, <2>3
<1> HIDE DEF h3
<1>8. /\ h3.hi = h.hi /\ Kept(h, h3, U) /\ status(h3, c) = CHUNK_FREE
      /\ (\A d \in C \ {c} : status(h3, d) = status(h, d))
      /\ \A d \in C : span(h3, d) = span(h, d)
  <2>1. Kept(h, h3, U)
    BY <1>3, <1>7, KeptOn DEF Linking
  <2> QED
    BY <1>2, <1>3, <1>7, <2>1 DEF Linking, SameShape
<1>9. FreeOf(h3, C) = F \cup {c} /\ UsedOf(h3, C) = U /\ c \in FreeOf(h3, C)
  <2>1. FreeOf(h3, C) = F \cup {c}
    BY <1>8 DEF FreeOf, F
  <2>2. UsedOf(h3, C) = U
    BY <1>8, Constants DEF UsedOf, U
  <2> QED
    BY <2>1, <2>2
<1>10. Linked(h3, F \cup {c}, c)
  <2>1. \A d \in F : /\ next(h3, d) = next(h, d)
                     /\ prev(h3, d) = IF d = n THEN c ELSE prev(h, d)
    BY <1>1, <1>7
  <2> QED
    BY <1>1, <1>7, <2>1, PutFirst
<1>11. Shaped(h3, C, {})
  <2>1. FreeOf(h3, C) \ {} = F \cup {c}
    BY <1>9
  <2> QED
    BY <1>7, <1>10, <2>1 DEF Shaped, Linking
<1>12. Apart(h3, C, {c})
  <2>1. FreeOf(h3, C) \ {c} = FreeOf(h, C) \ {c}
    BY <1>9 DEF F
  <2>2. \A d \in FreeOf(h, C) \ {c} : span(h3, d) = span(h, d)
    BY <1>8 DEF FreeOf
  <2> QED
    BY <2>1, <2>2 DEF Apart
<1>13. PutOn(h, h3, C, c)
  BY <1>8, <1>9, <1>11, <1>12 DEF PutOn, U
<1> QED
  BY <1>13 DEF h3, h2, h1, g, n

\* What was freed is on the list, merged into a chunk as large at least: c itself, or
\* the chunk before it.
Freed(h, h2, C, D, c) ==
    /\ Good(h2, D) /\ D \subseteq C /\ h2.hi = h.hi
    /\ UsedOf(h2, D) = UsedOf(h, C) \ {c} /\ Kept(h, h2, UsedOf(h, C) \ {c})
    /\ c \in D => c \in FreeOf(h2, D) /\ span(h2, c) >= span(h, c)

\* Half way: c is on the list and what follows it is not free.
Joined(h, h2, C, D, c) ==
    /\ Shaped(h2, D, {}) /\ D \subseteq C /\ h2.hi = h.hi
    /\ c \in FreeOf(h2, D) /\ span(h2, c) >= span(h, c)
    /\ c + span(h2, c) \notin FreeOf(h2, D) /\ Apart(h2, D, {c})
    /\ UsedOf(h2, D) = UsedOf(h, C) /\ Kept(h, h2, UsedOf(h, C))

\* The first half: c is merged with the chunk after it.
LEMMA JoinsNext ==
    ASSUME NEW h, NEW C, NEW c \in FreeOf(h, C), Shaped(h, C, {}), Apart(h, C, {c})
    PROVE  LET nxt == adjacent(h, c)
               h2  == IF IsFree(h, nxt) THEN coalesce_two(h, c, nxt) ELSE h
           IN  \E D : Joined(h, h2, C, D, c)
<1> DEFINE nxt == adjacent(h, c)
           h2  == coalesce_two(h, c, nxt)
           D   == C \ {nxt}
<1>1. /\ IsHeap(h) /\ Tiled(h, C) /\ c \in C /\ c \in Nat /\ span(h, c) \in Nat /\ span(h, c) >= 2
      /\ UsedOf(h, C) \in SUBSET C
  <2>1. IsHeap(h) /\ Tiled(h, C) /\ c \in C /\ UsedOf(h, C) \in SUBSET C
    BY ShapedIs DEF FreeOf
  <2> QED
    BY <2>1, InTiling
<1>2. /\ IsFree(h, nxt) <=> c + span(h, c) \in FreeOf(h, C)
      /\ IsFree(h, nxt) => nxt = c + span(h, c)
  BY <1>1, AdjacentIs
<1> HIDE DEF nxt
<1>3. CASE ~IsFree(h, nxt)
  <2>1. Kept(h, h, UsedOf(h, C))
    BY DEF Kept, SameChunk
  <2>2. Joined(h, h, C, C, c)
    BY <1>1, <1>2, <1>3, <2>1 DEF Joined
  <2> QED
    BY <1>3, <2>2 DEF nxt
<1>4. CASE IsFree(h, nxt)
  <2>1. /\ nxt \in FreeOf(h, C) \ {c} /\ nxt = c + span(h, c) /\ nxt \in Nat /\ nxt > c
        /\ nxt \in C /\ span(h, nxt) \in Nat /\ span(h, nxt) >= 2
    <3>1. nxt \in FreeOf(h, C) /\ nxt \in C /\ nxt = c + span(h, c)
      BY <1>2, <1>4 DEF FreeOf
    <3> QED
      BY <1>1, <3>1, InTiling
  <2>2. Merged(h, h2, C, {}, c, nxt)
    <3>1. c \in FreeOf(h, C) \ {} /\ nxt \in FreeOf(h, C) /\ nxt \notin {} /\ c + span(h, c) = nxt
      BY <2>1
    <3> QED
      BY <3>1, Coalesce
  <2> HIDE DEF h2
  <2>3. /\ Shaped(h2, D, {}) /\ h2.hi = h.hi
        /\ span(h2, c) = span(h, c) + span(h, nxt)
        /\ FreeOf(h2, D) = FreeOf(h, C) \ {nxt} /\ UsedOf(h2, D) = UsedOf(h, C)
        /\ (\A d \in D \ {c} : span(h2, d) = span(h, d))
        /\ Kept(h, h2, UsedOf(h, C)) /\ D \subseteq C
    <3>1. {} \ {nxt} = {}
      OBVIOUS
    <3> QED
      BY <2>2, <3>1 DEF Merged
  <2>4. c \in FreeOf(h2, D) /\ span(h2, c) >= span(h, c)
    <3>1. c # nxt
      BY <2>1
    <3>2. c \in FreeOf(h2, D)
      BY <2>3, <3>1
    <3>3. span(h, c) + span(h, nxt) >= span(h, c)
      BY <1>1, <2>1
    <3> QED
      BY <2>3, <3>2, <3>3
  <2>5. c + span(h2, c) \notin FreeOf(h2, D)
    <3>1. nxt + span(h, nxt) \notin FreeOf(h, C) \ {c}
      BY <2>1 DEF Apart
    <3>2. c + span(h2, c) = nxt + span(h, nxt) /\ nxt + span(h, nxt) # c
      BY <1>1, <2>1, <2>3
    <3> QED
      BY <2>3, <3>1, <3>2
  <2>6. Apart(h2, D, {c})
    <3> SUFFICES ASSUME NEW d \in FreeOf(h2, D) \ {c}
                 PROVE  d + span(h2, d) \notin FreeOf(h2, D) \ {c}
      BY DEF Apart
    <3>1. d \in FreeOf(h, C) \ {c} /\ d \in D \ {c}
      BY <2>3 DEF FreeOf
    <3>2. d + span(h, d) \notin FreeOf(h, C) \ {c} /\ span(h2, d) = span(h, d)
      BY <2>3, <3>1 DEF Apart
    <3> QED
      BY <2>3, <3>2
  <2>7. Joined(h, h2, C, D, c)
    BY <2>3, <2>4, <2>5, <2>6 DEF Joined
  <2> QED
    BY <1>4, <2>7 DEF nxt, h2
<1> QED
  BY <1>3, <1>4

\* The second half: c is merged with the chunk before it.
LEMMA JoinsPrevious ==
    ASSUME NEW h, NEW C, NEW c \in FreeOf(h, C), Shaped(h, C, {}), Apart(h, C, {c}),
           c + span(h, c) \notin FreeOf(h, C), Idle(h, UsedOf(h, C))
    PROVE  LET prv == prev_adjacent(h, c)
               h2  == IF FreeBefore(h, prv, c) THEN coalesce_two(freelist_unlink(h, c), prv, c) ELSE h
           IN  \E D : /\ Good(h2, D) /\ D \subseteq C /\ h2.hi = h.hi
                      /\ UsedOf(h2, D) = UsedOf(h, C) /\ Kept(h, h2, UsedOf(h, C))
                      /\ c \in D => c \in FreeOf(h2, D) /\ span(h2, c) = span(h, c)
<1> DEFINE prv == prev_adjacent(h, c)
           U   == UsedOf(h, C)
           Result(h2, D) == /\ Good(h2, D) /\ D \subseteq C /\ h2.hi = h.hi
                            /\ UsedOf(h2, D) = U /\ Kept(h, h2, U)
                            /\ c \in D => c \in FreeOf(h2, D) /\ span(h2, c) = span(h, c)
<1>1. /\ IsHeap(h) /\ Tiled(h, C) /\ c \in C /\ c \in Nat /\ span(h, c) \in Nat /\ span(h, c) >= 2
      /\ U \in SUBSET C /\ FreeOf(h, C) \in SUBSET C
      /\ \A d \in C : d \in Nat /\ span(h, d) \in Nat /\ span(h, d) >= 2
  <2>1. /\ IsHeap(h) /\ Tiled(h, C) /\ c \in C /\ U \in SUBSET C /\ FreeOf(h, C) \in SUBSET C
    BY ShapedIs DEF FreeOf
  <2> QED
    BY <2>1, InTiling
<1>2. IF c = 0 THEN prv = NULL ELSE prv \in C /\ prv + span(h, prv) = c
  BY <1>1, PrevAdjacentIs
\* Whatever ends where c begins is prv.
<1>3. \A d \in C : d + span(h, d) = c => d = prv /\ prv # NULL
  <2> SUFFICES ASSUME NEW d \in C, d + span(h, d) = c PROVE d = prv /\ prv # NULL
    OBVIOUS
  <2>1. c # 0 /\ d \in Nat /\ span(h, d) \in Nat /\ span(h, d) >= 2
    BY <1>1
  <2>2. prv \in C /\ prv + span(h, prv) = c /\ prv \in Nat /\ span(h, prv) \in Nat
        /\ span(h, prv) >= 2
    BY <1>1, <1>2, <2>1
  <2> HIDE DEF prv
  <2>3. (d < prv => d + span(h, d) <= prv) /\ (prv < d => prv + span(h, prv) <= d)
    BY <1>1, <2>2 DEF Tiled
  <2> QED
    BY <2>1, <2>2, <2>3 DEF NULL
<1>4. FreeBefore(h, prv, c) <=> prv \in FreeOf(h, C)
  BY <1>1, FreeBeforeIs
<1> HIDE DEF prv, U
<1>5. CASE ~FreeBefore(h, prv, c)
  <2>1. Apart(h, C, {})
    <3> SUFFICES ASSUME NEW d \in FreeOf(h, C)
                 PROVE  d + span(h, d) \notin FreeOf(h, C)
      BY DEF Apart
    <3>1. d + span(h, d) # c
      BY <1>1, <1>3, <1>4, <1>5
    <3>2. d # c => d + span(h, d) \notin FreeOf(h, C) \ {c}
      BY DEF Apart
    <3> QED
      BY <3>1, <3>2
  <2>2. Good(h, C) /\ Kept(h, h, U)
    BY <2>1 DEF Good, Kept, SameChunk
  <2>3. Result(h, C)
    BY <2>2 DEF U
  <2> QED
    BY <1>5, <2>3 DEF prv, U
<1>6. CASE FreeBefore(h, prv, c)
  <2> DEFINE h1 == freelist_unlink(h, c)
             h2 == coalesce_two(h1, prv, c)
             D  == C \ {c}
  <2>1. /\ prv \in FreeOf(h, C) \ {c} /\ prv \in C /\ prv \in Nat /\ span(h, prv) \in Nat
        /\ span(h, prv) >= 2 /\ prv + span(h, prv) = c /\ prv < c
    <3>1. prv \in FreeOf(h, C) /\ prv \in C
      BY <1>1, <1>4, <1>6
    <3>2. c # 0 /\ prv + span(h, prv) = c
      BY <1>2, <3>1, <1>1, InTiling
    <3> QED
      BY <1>1, <3>1, <3>2
  <2>2. /\ Shaped(h1, C, {c}) /\ SameShape(h, h1, C) /\ Kept(h, h1, U)
        /\ next(h1, c) = NULL /\ prev(h1, c) = NULL
    <3>1. c \in FreeOf(h, C) \ {}
      OBVIOUS
    <3>2. Unlinked(h, h1, C, {}, c)
      BY <3>1, Unlink
    <3>3. {} \cup {c} = {c}
      OBVIOUS
    <3> HIDE DEF h1
    <3> QED
      BY <3>2, <3>3 DEF Unlinked, U
  <2> HIDE DEF h1
  <2>3. /\ FreeOf(h1, C) = FreeOf(h, C) /\ UsedOf(h1, C) = U /\ h1.hi = h.hi
        /\ \A d \in C : span(h1, d) = span(h, d)
    BY <2>2, SameParts DEF SameShape, U
  <2>4. prv \in FreeOf(h1, C) \ {c} /\ c \in FreeOf(h1, C) /\ prv + span(h1, prv) = c
    BY <2>1, <2>3
  <2>5. Merged(h1, h2, C, {c}, prv, c)
    BY <2>2, <2>4, Coalesce
  <2> HIDE DEF h2
  <2>6. /\ Shaped(h2, D, {}) /\ h2.hi = h.hi
        /\ span(h2, prv) = span(h, prv) + span(h, c)
        /\ FreeOf(h2, D) = FreeOf(h, C) \ {c} /\ UsedOf(h2, D) = U
        /\ (\A d \in D \ {prv} : span(h2, d) = span(h, d))
        /\ Kept(h1, h2, U) /\ D \subseteq C /\ c \notin D
    <3>1. {c} \ {c} = {}
      OBVIOUS
    <3> QED
      BY <1>1, <2>1, <2>3, <2>5, <3>1 DEF Merged
  <2>7. Kept(h, h2, U)
    BY <2>2, <2>6, KeptOn
  <2>8. Apart(h2, D, {})
    <3> SUFFICES ASSUME NEW d \in FreeOf(h, C) \ {c}
                 PROVE  d + span(h2, d) \notin FreeOf(h, C) \ {c}
      BY <2>6 DEF Apart
    <3>1. d \in D
      BY <1>1
    <3>2. CASE d = prv
      <4>1. d + span(h2, d) = c + span(h, c)
        BY <1>1, <2>1, <2>6, <3>2
      <4> QED
        BY <4>1
    <3>3. CASE d # prv
      <4>1. span(h2, d) = span(h, d)
        BY <2>6, <3>1, <3>3
      <4> QED
        BY <4>1 DEF Apart
    <3> QED
      BY <3>2, <3>3
  <2>9. Idle(h2, U)
    BY <2>7 DEF Idle, Kept, SameChunk, U
  <2>10. Good(h2, D)
    BY <2>6, <2>8, <2>9 DEF Good
  <2>11. Result(h2, D)
    BY <2>6, <2>7, <2>10
  <2> QED
    BY <1>6, <2>11 DEF prv, h1, h2, U
<1> QED
  BY <1>5, <1>6 DEF U

LEMMA PushFront ==
    ASSUME NEW h, NEW C, NEW c \in C, Shaped(h, C, {c}), Apart(h, C, {c}),
           Idle(h, UsedOf(h, C) \ {c})
    PROVE  \E D : Freed(h, freelist_push_front(h, c), C, D, c)
<1> DEFINE U   == UsedOf(h, C) \ {c}
           h1  == set_links(set_status(h, c, CHUNK_FREE), c, NULL, h.head)
           h2  == IF h.head # NULL THEN set_prev(h1, h.head, c) ELSE h1
           h3  == [h2 EXCEPT !.head = c]
           nxt == adjacent(h3, c)
           h4  == IF IsFree(h3, nxt) THEN coalesce_two(h3, c, nxt) ELSE h3
           prv == prev_adjacent(h4, c)
           h5  == IF FreeBefore(h4, prv, c) THEN coalesce_two(freelist_unlink(h4, c), prv, c) ELSE h4
<1>1. PutOn(h, h3, C, c)
  BY PutsOn
<1> HIDE DEF h3, U
<1>2. /\ Shaped(h3, C, {}) /\ h3.hi = h.hi /\ c \in FreeOf(h3, C) /\ UsedOf(h3, C) = U
      /\ Kept(h, h3, U) /\ span(h3, c) = span(h, c) /\ Apart(h3, C, {c})
  BY <1>1 DEF PutOn, U
<1>3. PICK D : Joined(h3, h4, C, D, c)
  BY <1>2, JoinsNext
<1> HIDE DEF h4, nxt
<1>4. /\ Shaped(h4, D, {}) /\ D \subseteq C /\ h4.hi = h.hi
      /\ c \in FreeOf(h4, D) /\ span(h4, c) >= span(h, c)
      /\ c + span(h4, c) \notin FreeOf(h4, D) /\ Apart(h4, D, {c})
      /\ UsedOf(h4, D) = U /\ Kept(h, h4, U)
  <2>1. Kept(h3, h4, U)
    BY <1>2, <1>3 DEF Joined
  <2>2. Kept(h, h4, U)
    BY <1>2, <2>1, KeptOn
  <2> QED
    BY <1>2, <1>3, <2>2 DEF Joined
<1>5. Idle(h4, U)
  BY <1>4 DEF Idle, Kept, SameChunk, U
<1>6. PICK E : /\ Good(h5, E) /\ E \subseteq D /\ h5.hi = h4.hi
               /\ UsedOf(h5, E) = U /\ Kept(h4, h5, U)
               /\ c \in E => c \in FreeOf(h5, E) /\ span(h5, c) = span(h4, c)
  BY <1>4, <1>5, JoinsPrevious
<1> HIDE DEF h5, prv
<1>7. Kept(h, h5, U)
  BY <1>4, <1>6, KeptOn
<1>8. Freed(h, h5, C, E, c)
  BY <1>4, <1>6, <1>7 DEF Freed, U
<1>9. freelist_push_front(h, c) = h5
  BY DEF freelist_push_front, h5, prv, h4, nxt, h3
<1> QED
  BY <1>8, <1>9

----------------------------------------------------------------------------
(* Allocating from a chunk of the list.                                    *)

\* A heap between calls passes the checks of the code.
LEMMA GoodIsValid ==
    ASSUME NEW h, NEW C, Good(h, C)
    PROVE  check_heap_validity(h)
<1>1. Shaped(h, C, {}) /\ Apart(h, C, {}) /\ IsHeap(h) /\ Tiled(h, C)
  BY DEF Good, Shaped
<1>2. Linked(h, FreeOf(h, C), h.head)
  <2>1. FreeOf(h, C) \ {} = FreeOf(h, C)
    OBVIOUS
  <2> QED
    BY <1>1, <2>1 DEF Shaped
<1>3. CASE h.hi = 0
  <2>1. C = {}
    BY <1>1, <1>3 DEF Tiled
  <2>2. h.head = NULL
    BY <1>2, <2>1 DEF Linked, FreeOf
  <2> QED
    BY <1>3, <2>2 DEF check_heap_validity
<1>4. CASE h.hi # 0
  <2>1. WalkIsValid(h)
    BY <1>1, TiledIsValid
  <2>2. ListIsValid(h, h.head)
    BY <1>1, <1>2, LinkedIsValid
  <2> QED
    BY <1>4, <2>1, <2>2 DEF check_heap_validity
<1> QED
  BY <1>3, <1>4

\* A chunk at "at" has been handed out; the other chunks in use are kept.
Taken(h, h2, C, D, at, need) ==
    /\ Good(h2, D) /\ h2.hi = h.hi
    /\ at \in Units /\ at \notin UsedOf(h, C) /\ span(h2, at) >= 2 + need
    /\ UsedOf(h2, D) = UsedOf(h, C) \cup {at} /\ Kept(h, h2, UsedOf(h, C))

\* What a good heap is, with a free chunk c.
LEMMA GoodIs ==
    ASSUME NEW h, NEW C, Good(h, C), NEW c \in FreeOf(h, C)
    PROVE  /\ Shaped(h, C, {}) /\ IsHeap(h) /\ HasHead(h) /\ Tiled(h, C) /\ Apart(h, C, {})
           /\ Idle(h, UsedOf(h, C)) /\ Linked(h, FreeOf(h, C), h.head)
           /\ c \in C /\ c \in Units /\ c \in Nat /\ span(h, c) \in Nat
           /\ UsedOf(h, C) \in SUBSET C /\ FreeOf(h, C) \in SUBSET C /\ c \notin UsedOf(h, C)
<1>1. Shaped(h, C, {}) /\ Apart(h, C, {}) /\ Idle(h, UsedOf(h, C))
  BY DEF Good
<1>2. FreeOf(h, C) \ {} = FreeOf(h, C)
  OBVIOUS
<1>3. /\ IsHeap(h) /\ HasHead(h) /\ Tiled(h, C)
      /\ UsedOf(h, C) \in SUBSET C /\ FreeOf(h, C) \in SUBSET C
      /\ UsedOf(h, C) \cap FreeOf(h, C) = {}
      /\ \A d \in C : d \in Units /\ d \in Nat /\ span(h, d) \in Nat
  BY <1>1, ShapedIs
<1>4. Linked(h, FreeOf(h, C), h.head)
  BY <1>1, <1>2 DEF Shaped
<1> QED
  BY <1>1, <1>3, <1>4

\* The end of a chunk is handed out; the rest keeps its place on the list.
LEMMA TakesEnd ==
    ASSUME NEW h, NEW C, Good(h, C), NEW c \in FreeOf(h, C), NEW need \in Nat,
           Splits(h, c, need)
    PROVE  \E D : Taken(h, split_for_alloc(h, c, need), C, D, SplitAt(h, c, need), need)
<1> DEFINE U == UsedOf(h, C)
           F == FreeOf(h, C)
           e == SplitAt(h, c, need)
           g == split_for_alloc(h, c, need)
           D == C \cup {e}
<1>1. /\ IsHeap(h) /\ HasHead(h) /\ Tiled(h, C) /\ Apart(h, C, {}) /\ Idle(h, U)
      /\ Linked(h, F, h.head) /\ c \in C /\ c \in Nat /\ span(h, c) \in Nat
      /\ U \in SUBSET C /\ F \in SUBSET C /\ c \notin U
  BY GoodIs
<1>2. prev(h, c) \in C \cup {NULL} /\ span(h, c) >= 2 + need + 2
  BY <1>1 DEF Linked, Back, Splits
<1>3. /\ IsHeap(g) /\ Rest(h, g) /\ g.hi = h.hi /\ Tiled(g, D) /\ e \notin C
      /\ span(g, c) = span(h, c) - (2 + need) /\ status(g, c) = status(h, c)
      /\ next(g, c) = next(h, c) /\ prev(g, c) = prev(h, c)
      /\ status(g, e) = CHUNK_USED /\ span(g, e) = 2 + need
      /\ next(g, e) = NULL /\ prev(g, e) = NULL
      /\ Kept(h, g, C \ {c})
  BY <1>1, <1>2, Splitting
<1>4. e = c + span(g, c)
  BY <1>1, <1>3 DEF SplitAt
<1> HIDE DEF g, e
<1>5. HasHead(g) /\ g.head = h.head
  BY <1>1, <1>3, SameHead
<1>6. \A d \in C \ {c} : SameChunk(h, g, d)
  BY <1>3 DEF Kept
<1>7. \A d \in C : /\ status(g, d) = status(h, d)
                   /\ next(g, d) = next(h, d) /\ prev(g, d) = prev(h, d)
  BY <1>3, <1>6 DEF SameChunk
<1>8. FreeOf(g, D) = F /\ UsedOf(g, D) = U \cup {e} /\ e \in Units
  <2>1. FreeOf(g, D) = F
    BY <1>3, <1>7, Constants DEF FreeOf
  <2>2. UsedOf(g, D) = U \cup {e}
    BY <1>3, <1>7 DEF UsedOf
  <2>3. e \in Units
    BY <1>3, InTiling
  <2> QED
    BY <2>1, <2>2, <2>3
<1> HIDE DEF F, U
<1>9. Shaped(g, D, {})
  <2>1. Linked(g, F, h.head)
    BY <1>1, <1>7, SameList
  <2>2. FreeOf(g, D) \ {} = F
    BY <1>8
  <2> QED
    BY <1>3, <1>5, <2>1, <2>2 DEF Shaped
<1>10. Apart(g, D, {})
  <2> SUFFICES ASSUME NEW d \in F PROVE d + span(g, d) \notin F
    BY <1>8 DEF Apart
  <2>1. CASE d = c
    BY <1>1, <1>3, <1>4, <2>1
  <2>2. CASE d # c
    <3>1. span(g, d) = span(h, d)
      BY <1>1, <1>6, <2>2 DEF SameChunk
    <3> QED
      BY <1>1, <3>1 DEF Apart, F
  <2> QED
    BY <2>1, <2>2
<1>11. Kept(h, g, U)
  BY <1>1, <1>3 DEF Kept
<1>12. Idle(g, U \cup {e})
  BY <1>1, <1>3, <1>7 DEF Idle
<1>13. Good(g, D)
  BY <1>8, <1>9, <1>10, <1>12 DEF Good
<1>14. e \notin U /\ span(g, e) >= 2 + need
  <2>1. span(g, e) = 2 + need /\ e \notin C
    BY <1>3
  <2>2. 2 + need >= 2 + need
    OBVIOUS
  <2> QED
    BY <1>1, <2>1, <2>2
<1>15. Taken(h, g, C, D, e, need)
  BY <1>3, <1>8, <1>11, <1>13, <1>14 DEF Taken, U
<1> QED
  BY <1>15 DEF g, e

\* All of a chunk is handed out.
LEMMA TakesAll ==
    ASSUME NEW h, NEW C, Good(h, C), NEW c \in FreeOf(h, C), NEW need \in Nat,
           span(h, c) - 2 >= need
    PROVE  \E D : Taken(h, freelist_detach(h, c), C, D, c, need)
<1> DEFINE U   == UsedOf(h, C)
           F   == FreeOf(h, C)
           out == freelist_unlink(h, c)
           h2  == set_status(out, c, CHUNK_USED)
<1>1. /\ Shaped(h, C, {}) /\ Apart(h, C, {}) /\ Idle(h, U) /\ c \in C /\ c \in Units
      /\ span(h, c) \in Nat /\ U \in SUBSET C /\ F \in SUBSET C /\ c \notin U
  BY GoodIs
<1>2. Unlinked(h, out, C, {}, c) /\ (prev(h, c) = NULL => h.head = c)
  <2>1. c \in FreeOf(h, C) \ {}
    OBVIOUS
  <2> QED
    BY <1>1, <2>1, Unlink
<1>3. freelist_detach(h, c) = h2
  BY <1>2 DEF freelist_detach, freelist_unlink
<1> HIDE DEF out
<1>4. /\ Shaped(out, C, {c}) /\ SameShape(h, out, C) /\ Kept(h, out, U)
      /\ next(out, c) = NULL /\ prev(out, c) = NULL
  <2>1. {} \cup {c} = {c}
    OBVIOUS
  <2> QED
    BY <1>2, <2>1 DEF Unlinked
<1>5. /\ IsHeap(out) /\ HasHead(out) /\ Tiled(out, C) /\ Linked(out, F \ {c}, out.head)
      /\ out.hi = h.hi /\ FreeOf(out, C) = F /\ UsedOf(out, C) = U /\ Apart(out, C, {})
      /\ span(out, c) = span(h, c)
  <2>1. FreeOf(out, C) = F /\ UsedOf(out, C) = U /\ Apart(out, C, {})
    BY <1>1, <1>4, SameParts
  <2>2. IsHeap(out) /\ HasHead(out) /\ Tiled(out, C) /\ Linked(out, F \ {c}, out.head)
    BY <1>4, <2>1 DEF Shaped
  <2>3. out.hi = h.hi /\ span(out, c) = span(h, c)
    BY <1>1, <1>4 DEF SameShape
  <2> QED
    BY <2>1, <2>2, <2>3
<1>6. Relinked(out, h2, C, {c}, {}, {}) /\ status(h2, c) = CHUNK_USED
  BY <1>1, <1>5, SetStatus
<1> HIDE DEF h2, U, F
<1>7. /\ IsHeap(h2) /\ Rest(out, h2) /\ h2.hi = h.hi
      /\ (\A d \in C : /\ span(h2, d) = span(out, d) /\ next(h2, d) = next(out, d)
                       /\ prev(h2, d) = prev(out, d))
      /\ \A d \in C \ {c} : status(h2, d) = status(out, d)
  BY <1>5, <1>6 DEF Relinked
<1>8. HasHead(h2) /\ h2.head = out.head /\ Tiled(h2, C)
  BY <1>5, <1>6, <1>7, SameHead, StillTiled
<1>9. FreeOf(h2, C) = F \ {c} /\ UsedOf(h2, C) = U \cup {c}
  <2>1. FreeOf(h2, C) = FreeOf(out, C) \ {c}
    BY <1>6, <1>7, Constants DEF FreeOf
  <2>2. UsedOf(h2, C) = UsedOf(out, C) \cup {c}
    BY <1>1, <1>6, <1>7 DEF UsedOf
  <2> QED
    BY <1>5, <2>1, <2>2
<1>10. Shaped(h2, C, {})
  <2>1. \A d \in F \ {c} : next(h2, d) = next(out, d) /\ prev(h2, d) = prev(out, d)
    BY <1>1, <1>7
  <2>2. Linked(h2, F \ {c}, out.head)
    BY <1>5, <2>1, SameList
  <2>3. FreeOf(h2, C) \ {} = F \ {c}
    BY <1>9
  <2> QED
    BY <1>7, <1>8, <2>2, <2>3 DEF Shaped
<1>11. Apart(h2, C, {})
  <2> SUFFICES ASSUME NEW d \in F \ {c} PROVE d + span(h2, d) \notin F \ {c}
    BY <1>9 DEF Apart
  <2>1. span(h2, d) = span(out, d)
    BY <1>1, <1>7
  <2>2. d + span(out, d) \notin FreeOf(out, C) \ {}
    BY <1>5 DEF Apart
  <2> QED
    BY <1>5, <2>1, <2>2
<1>12. Kept(h, h2, U)
  <2>1. U \cap ({c} \cup {} \cup {}) = {}
    BY <1>1
  <2>2. Kept(out, h2, U)
    BY <1>1, <1>5, <1>6, <2>1, RelinkedKeeps
  <2> QED
    BY <1>4, <2>2, KeptOn
<1>13. Idle(h2, U \cup {c})
  <2>1. \A d \in U : next(h2, d) = NULL /\ prev(h2, d) = NULL
    BY <1>1, <1>12 DEF Kept, SameChunk, Idle
  <2>2. next(h2, c) = NULL /\ prev(h2, c) = NULL
    BY <1>1, <1>4, <1>7
  <2> QED
    BY <2>1, <2>2 DEF Idle
<1>14. Good(h2, C)
  BY <1>9, <1>10, <1>11, <1>13 DEF Good
<1>15. span(h2, c) >= 2 + need
  <2>1. span(h2, c) = span(h, c)
    BY <1>1, <1>5, <1>7
  <2> QED
    BY <1>1, <2>1
<1>16. Taken(h, h2, C, C, c, need)
  BY <1>1, <1>7, <1>9, <1>12, <1>14, <1>15 DEF Taken, U
<1> QED
  BY <1>3, <1>16

\* The assertions of split_for_alloc hold of every chunk of the list.
LEMMA OnTheList ==
    ASSUME NEW h, NEW C, Good(h, C), NEW c \in FreeOf(h, C)
    PROVE  MaySplit(h, c)
<1>1. Linked(h, FreeOf(h, C), h.head)
  BY GoodIs
<1>2. \A d \in FreeOf(h, C) : status(h, d) = CHUNK_FREE
  BY DEF FreeOf
<1> QED
  BY <1>1, <1>2 DEF MaySplit, Linked, Back, IsFree

\* Carve takes a free chunk with room, or its end.
LEMMA Takes ==
    ASSUME NEW h, NEW C, Good(h, C), NEW c \in FreeOf(h, C), NEW need \in Nat,
           span(h, c) - 2 >= need
    PROVE  \E D : Taken(h, Carve(h, c, need), C, D, CarvedAt(h, c, need), need)
BY TakesEnd, TakesAll DEF Carve, CarvedAt

----------------------------------------------------------------------------
(* The calls, as long as no stale header is returned.                      *)

\* What InOrder says, for the facts about blocks.
LEMMA OrderIs ==
    ASSUME NEW h, NEW C, NEW bs, InOrder(h, C, bs)
    PROVE  /\ Good(h, C) /\ Shaped(h, C, {}) /\ Apart(h, C, {}) /\ Idle(h, UsedOf(h, C))
           /\ IsHeap(h) /\ HasHead(h) /\ Tiled(h, C) /\ Clients(h, C, bs)
           /\ Linked(h, FreeOf(h, C), h.head)
<1>1. FreeOf(h, C) \ {} = FreeOf(h, C)
  OBVIOUS
<1> QED
  BY <1>1 DEF InOrder, Good, Shaped

\* What is blanked at the end of a call is nobody's.
LEMMA Settled ==
    ASSUME NEW h, NEW C, NEW bs, InOrder(h, C, bs), NEW some \in SUBSET bs, ~stale'
    PROVE  InOrder(Settle(h, some), C, bs) /\ Held(h, Settle(h, some), some)
<1> DEFINE h2 == Forget(h, Payloads(some))
           F  == FreeOf(h, C)
<1>1. /\ Good(h, C) /\ Shaped(h, C, {}) /\ Apart(h, C, {}) /\ Idle(h, UsedOf(h, C))
      /\ IsHeap(h) /\ HasHead(h) /\ Tiled(h, C) /\ Clients(h, C, bs) /\ Linked(h, F, h.head)
  BY OrderIs
<1>2. /\ IsHeap(h2) /\ Rest(h, h2) /\ h2.hi = h.hi /\ Tiled(h2, C)
      /\ (\A c \in C : SameChunk(h, h2, c))
      /\ Clients(h2, C, bs) /\ Held(h, h2, some)
  BY <1>1, Forgotten
<1>3. Settle(h, some) = h2
  BY DEF Settle
<1> HIDE DEF h2
<1>4. HasHead(h2) /\ h2.head = h.head
  BY <1>1, <1>2, SameHead
<1>5. SameShape(h, h2, C)
  BY <1>2 DEF SameShape, SameChunk
<1>6. FreeOf(h2, C) = F /\ UsedOf(h2, C) = UsedOf(h, C) /\ Apart(h2, C, {})
  BY <1>1, <1>5, SameParts
<1>7. Linked(h2, F, h.head)
  <2>1. \A d \in F : next(h2, d) = next(h, d) /\ prev(h2, d) = prev(h, d)
    BY <1>2 DEF SameChunk, FreeOf
  <2> HIDE DEF F
  <2> QED
    BY <1>1, <2>1, SameList
<1>8. Shaped(h2, C, {})
  <2>1. FreeOf(h2, C) \ {} = F
    BY <1>6
  <2> QED
    BY <1>2, <1>4, <1>7, <2>1 DEF Shaped
<1>9. Idle(h2, UsedOf(h2, C))
  BY <1>1, <1>2, <1>6 DEF Idle, SameChunk, UsedOf
<1>10. Good(h2, C)
  BY <1>6, <1>8, <1>9 DEF Good
<1> QED
  BY <1>2, <1>3, <1>10 DEF InOrder

\* A block is handed out, or taken back, and the others are as they were in h.
HandsOut(h) ==
    \E D, b : /\ ~aborted' /\ InOrder(heap', D, live')
              /\ b \notin live /\ live' = live \cup {b} /\ Held(h, heap', live)
TakesBack(b) ==
    \E D : /\ ~aborted' /\ InOrder(heap', D, live')
           /\ live' = live \ {b} /\ Held(heap, heap', live')

\* AllocateFrom hands out a block cut from c, or all of c.
LEMMA Allocates ==
    ASSUME SizesFit, ~aborted, ~stale', NEW h, NEW C, InOrder(h, C, live),
           NEW c \in FreeOf(h, C), NEW size \in Sizes,
           span(h, c) - 2 >= bytes_to_payload_units(size),
           AllocateFrom(h, c, bytes_to_payload_units(size), size)
    PROVE  HandsOut(h)
<1> DEFINE need == bytes_to_payload_units(size)
           h2   == Carve(h, c, need)
           at   == CarvedAt(h, c, need)
           new  == [at |-> at, size |-> size]
<1>1. /\ Good(h, C) /\ Shaped(h, C, {}) /\ IsHeap(h) /\ Tiled(h, C) /\ Clients(h, C, live)
  BY OrderIs
<1>2. need \in Nat /\ span(h, c) - 2 >= need
  BY UnitsOfSize
<1>3. MaySplit(h, c)
  BY <1>1, OnTheList
<1>4. AllocateFrom(h, c, need, size)
  OBVIOUS
<1> HIDE DEF need
<1>5. PICK D : Taken(h, h2, C, D, at, need)
  BY <1>1, <1>2, Takes
<1>6. \/ /\ heap' = Settle(h2, live) /\ live' = live \cup {new} /\ aborted' = aborted
      \/ ~check_heap_validity(h2)
  BY <1>3, <1>4 DEF AllocateFrom
<1> HIDE DEF h2, at
<1>7. /\ Good(h2, D) /\ at \in Units /\ at \notin UsedOf(h, C) /\ span(h2, at) >= 2 + need
      /\ UsedOf(h2, D) = UsedOf(h, C) \cup {at} /\ Kept(h, h2, UsedOf(h, C))
  BY <1>5 DEF Taken
<1>8. InOrder(h2, D, live \cup {new}) /\ new \notin live /\ Held(h, h2, live)
  <2>1. Clients(h2, D, live \cup {new}) /\ new \notin live /\ Held(h, h2, live)
    BY <1>1, <1>7, HandedOut DEF need
  <2> HIDE DEF new
  <2> QED
    BY <1>7, <2>1 DEF InOrder
<1> HIDE DEF new
<1>9. check_heap_validity(h2)
  BY <1>7, GoodIsValid
<1>10. heap' = Settle(h2, live) /\ live' = live \cup {new} /\ aborted' = aborted
  BY <1>6, <1>9
<1>11. InOrder(heap', D, live \cup {new}) /\ Held(h2, heap', live)
  <2>1. live \in SUBSET (live \cup {new})
    OBVIOUS
  <2> QED
    BY <1>8, <1>10, <2>1, Settled
<1>12. Held(h, heap', live)
  BY <1>8, <1>11, HeldOn
<1> QED
  BY <1>8, <1>10, <1>11, <1>12 DEF HandsOut

\* heapmgr_malloc with a free chunk that has room.
LEMMA Fits ==
    ASSUME SizesFit, ~aborted, ~stale', NEW C, InOrder(heap, C, live), NEW size \in Sizes,
           MallocFits(size)
    PROVE  HandsOut(heap)
<1> DEFINE need == bytes_to_payload_units(size)
           c    == FirstFit(heap, heap.head, need)
<1>1. c # NULL /\ AllocateFrom(heap, c, need, size)
  BY DEF MallocFits
<1>2. Linked(heap, FreeOf(heap, C), heap.head)
  BY OrderIs
<1>3. c \in FreeOf(heap, C) /\ span(heap, c) - 2 >= need
  BY <1>1, <1>2, FirstFitIs
<1> HIDE DEF c
<1> QED
  BY <1>1, <1>3, Allocates

\* The heap has grown: one more free chunk, not on the list yet.
LEMMA Extends ==
    ASSUME SizesFit, NEW C, InOrder(heap, C, live), NEW g \in Nat, g >= 2,
           NewBreak(heap, g) = heap.hi + g, heap.hi + g <= MaxUnits
    PROVE  LET h2 == Grown(heap, g)
               D  == C \cup {heap.hi}
           IN  /\ Shaped(h2, D, {heap.hi}) /\ Apart(h2, D, {heap.hi}) /\ span(h2, heap.hi) = g
               /\ UsedOf(h2, D) \ {heap.hi} = UsedOf(heap, C)
               /\ Idle(h2, UsedOf(h2, D) \ {heap.hi})
               /\ Kept(heap, h2, UsedOf(heap, C))
<1> DEFINE h2 == Grown(heap, g)
           c  == heap.hi
           D  == C \cup {c}
           U  == UsedOf(heap, C)
           F  == FreeOf(heap, C)
<1>1. /\ Shaped(heap, C, {}) /\ Apart(heap, C, {}) /\ Idle(heap, U)
      /\ IsHeap(heap) /\ HasHead(heap) /\ Tiled(heap, C) /\ Linked(heap, F, heap.head)
  BY OrderIs
<1>2. U \in SUBSET C /\ F \in SUBSET C
  BY <1>1, ShapedIs
<1>3. Signed(g, INT) = g
  <2>1. c \in Nat /\ MaxUnits \in Nat
    BY <1>1, HeaderFields, Constants
  <2>2. g <= MaxUnits
    BY <2>1
  <2> QED
    BY <2>2, SpanAsInt
<1>4. /\ IsHeap(h2) /\ Rest(heap, h2) /\ h2.hi = heap.hi + g /\ Tiled(h2, D) /\ c \notin C
      /\ span(h2, c) = g /\ status(h2, c) = CHUNK_FREE
      /\ next(h2, c) = NULL /\ prev(h2, c) = NULL
      /\ Kept(heap, h2, C)
  BY <1>1, <1>3, Growing
<1> HIDE DEF h2, U, F, c
<1>5. HasHead(h2) /\ h2.head = heap.head
  BY <1>1, <1>4, SameHead
<1>6. \A d \in C : SameChunk(heap, h2, d)
  BY <1>4 DEF Kept
<1>7. FreeOf(h2, D) \ {c} = F /\ UsedOf(h2, D) = U
  <2>1. \A d \in C : status(h2, d) = status(heap, d)
    BY <1>6 DEF SameChunk
  <2>2. FreeOf(h2, D) \ {c} = FreeOf(heap, C)
    BY <1>4, <2>1 DEF FreeOf
  <2>3. UsedOf(h2, D) = UsedOf(heap, C)
    BY <1>4, <2>1, Constants DEF UsedOf
  <2> QED
    BY <2>2, <2>3 DEF U, F
<1>8. Shaped(h2, D, {c})
  <2>1. \A d \in F : next(h2, d) = next(heap, d) /\ prev(h2, d) = prev(heap, d)
    BY <1>2, <1>6 DEF SameChunk
  <2>2. Linked(h2, F, heap.head)
    BY <1>1, <2>1, SameList
  <2> QED
    BY <1>4, <1>5, <1>7, <2>2 DEF Shaped
<1>9. Apart(h2, D, {c})
  <2> SUFFICES ASSUME NEW d \in F PROVE d + span(h2, d) \notin F
    BY <1>7 DEF Apart
  <2>1. span(h2, d) = span(heap, d)
    BY <1>2, <1>6 DEF SameChunk
  <2> QED
    BY <1>1, <2>1 DEF Apart, F
<1>10. UsedOf(h2, D) \ {c} = U /\ Idle(h2, U) /\ Kept(heap, h2, U)
  <2>1. c \notin U
    BY <1>2, <1>4
  <2>2. Idle(h2, U)
    BY <1>1, <1>2, <1>6 DEF Idle, SameChunk
  <2>3. Kept(heap, h2, U)
    BY <1>2, <1>4 DEF Kept
  <2> QED
    BY <1>7, <2>1, <2>2, <2>3
<1> QED
  BY <1>4, <1>8, <1>9, <1>10 DEF h2, U, c

\* heapmgr_malloc when the heap has to grow, and the header it gets back is that of a
\* chunk: the chunk has room.
LEMMA GrowsToFit ==
    ASSUME SizesFit, ~aborted, ~stale', NEW C, InOrder(heap, C, live), NEW size \in Sizes,
           MallocGrows(size)
    PROVE  HandsOut(heap)
<1> DEFINE need  == bytes_to_payload_units(size)
           g     == GrowSpan(need, SYS_MIN_ALLOC_UNITS)
           fresh == Grown(heap, g)
           top   == heap.hi
           grown == freelist_push_front(fresh, top)
           D     == C \cup {top}
           U     == UsedOf(heap, C)
<1>1. /\ need \in Nat /\ g \in Nat /\ g >= 2 /\ g - 2 >= need /\ NewBreak(heap, g) = heap.hi + g
  BY UnitsOfSize
<1>2. SbrkSucceeds(heap, g) /\ AllocateGrown(g, need, size)
  BY DEF MallocGrows
<1> HIDE DEF need, g
<1>3. heap.hi + g <= MaxUnits /\ Signed(g, INT) = g
  <2>1. heap.hi \in Nat /\ MaxUnits \in Nat
    BY OrderIs, HeaderFields, Constants
  <2>2. heap.hi + g <= MaxUnits
    BY <1>1, <1>2, <2>1 DEF SbrkSucceeds
  <2>3. g <= MaxUnits
    BY <1>1, <2>1, <2>2
  <2> QED
    BY <1>1, <2>2, <2>3, SpanAsInt
<1>4. /\ Shaped(fresh, D, {top}) /\ Apart(fresh, D, {top}) /\ span(fresh, top) = g
      /\ UsedOf(fresh, D) \ {top} = U
      /\ Idle(fresh, UsedOf(fresh, D) \ {top})
      /\ Kept(heap, fresh, U)
  BY <1>1, <1>3, Extends
<1>5. check_heap_validity(grown) =>
         top \in Chunks(grown) /\ AllocateFrom(grown, top, need, size)
  <2>1. Signed(g, INT) >= 2
    BY <1>1, <1>3
  <2>2. check_heap_validity(grown) =>
           /\ stale' = (stale \/ top \notin Chunks(grown))
           /\ AllocateFrom(grown, top, need, size)
    BY <1>2, <2>1 DEF AllocateGrown
  <2> HIDE DEF grown, top
  <2> QED
    BY <2>2, Zenon
<1> HIDE DEF fresh, U, top
<1>6. top \in D
  OBVIOUS
<1>7. PICK E : Freed(fresh, grown, D, E, top)
  BY <1>4, <1>6, PushFront
<1> HIDE DEF grown, D
<1>8. Good(grown, E) /\ UsedOf(grown, E) = U /\ Kept(heap, grown, U)
  <2>1. Good(grown, E) /\ UsedOf(grown, E) = U /\ Kept(fresh, grown, U)
    BY <1>4, <1>7 DEF Freed
  <2> QED
    BY <1>4, <2>1, KeptOn
<1>9. InOrder(grown, E, live) /\ Held(heap, grown, live)
  <2>1. IsHeap(heap) /\ Tiled(heap, C) /\ Clients(heap, C, live)
    BY OrderIs
  <2>2. \A b \in live : b.at \in U
    BY <2>1 DEF Clients, U
  <2>3. Held(heap, grown, live)
    <3>1. live \in SUBSET live
      OBVIOUS
    <3> QED
      BY <1>8, <2>1, <2>2, <3>1, KeptHeld
  <2>4. \A d \in U : span(grown, d) = span(heap, d)
    BY <1>8 DEF Kept, SameChunk
  <2>5. Clients(grown, E, live)
    BY <1>8, <2>1, <2>4, SameClients DEF U
  <2> QED
    BY <1>8, <2>3, <2>5 DEF InOrder
<1>10. AllocateFrom(grown, top, need, size) /\ top \in E
  <2>1. check_heap_validity(grown)
    BY <1>8, GoodIsValid
  <2>2. Chunks(grown) = E
    BY <1>9, OrderIs, ChunksAre
  <2> QED
    BY <1>5, <2>1, <2>2
<1>11. top \in FreeOf(grown, E) /\ span(grown, top) - 2 >= need
  <2>1. top \in FreeOf(grown, E) /\ span(grown, top) >= g
    BY <1>4, <1>7, <1>10 DEF Freed
  <2>2. span(grown, top) \in Nat
    BY <1>8, <2>1, GoodIs
  <2> QED
    BY <1>1, <2>1, <2>2
<1>12. HandsOut(grown)
  BY <1>9, <1>10, <1>11, Allocates DEF need
<1> QED
  <2>1. PICK B, b : /\ ~aborted' /\ InOrder(heap', B, live')
                    /\ b \notin live /\ live' = live \cup {b} /\ Held(grown, heap', live)
    BY <1>12 DEF HandsOut
  <2>2. Held(heap, heap', live)
    BY <1>9, <2>1, HeldOn
  <2> QED
    BY <2>1, <2>2 DEF HandsOut

\* heapmgr_free.
LEMMA Frees ==
    ASSUME SizesFit, ~aborted, ~stale', NEW C, InOrder(heap, C, live), NEW b \in live,
           FreeBlock(b)
    PROVE  TakesBack(b)
<1> DEFINE c     == b.at
           U     == UsedOf(heap, C)
           after == freelist_push_front(heap, c)
           bs    == live \ {b}
<1>1. /\ Good(heap, C) /\ Shaped(heap, C, {}) /\ Apart(heap, C, {}) /\ Idle(heap, U)
      /\ IsHeap(heap) /\ Tiled(heap, C) /\ Clients(heap, C, live)
  BY OrderIs
<1>2. c \in U /\ c \in C /\ c \notin FreeOf(heap, C)
  <2>1. UsedOf(heap, C) \in SUBSET C /\ UsedOf(heap, C) \cap FreeOf(heap, C) = {}
    BY <1>1, ShapedIs
  <2>2. b.at \in UsedOf(heap, C)
    BY <1>1 DEF Clients
  <2> QED
    BY <2>1, <2>2
<1>3. \/ heap' = Settle(after, bs) /\ live' = bs /\ aborted' = aborted
      \/ ~(MayFree(c) /\ check_heap_validity(after))
  BY DEF FreeBlock
<1>4. MayFree(c)
  <2>1. check_heap_validity(heap) /\ chunk_is_valid(heap, c)
    BY <1>1, <1>2, GoodIsValid, TiledIsValid
  <2>2. status(heap, c) = CHUNK_USED /\ next(heap, c) = NULL /\ prev(heap, c) = NULL
    BY <1>1, <1>2 DEF UsedOf, Idle
  <2> QED
    BY <2>1, <2>2 DEF MayFree
<1> HIDE DEF c, U
<1>5. PICK D : Freed(heap, after, C, D, c)
  <2>1. Shaped(heap, C, {c})
    <3>1. FreeOf(heap, C) \ {} = FreeOf(heap, C) \ {c}
      BY <1>2
    <3> QED
      BY <1>1, <3>1 DEF Shaped
  <2>2. Apart(heap, C, {c})
    BY <1>1 DEF Apart
  <2>3. Idle(heap, U \ {c})
    BY <1>1 DEF Idle
  <2> QED
    BY <1>2, <2>1, <2>2, <2>3, PushFront DEF U
<1> HIDE DEF after, bs
<1>6. Good(after, D) /\ UsedOf(after, D) = U \ {c} /\ Kept(heap, after, U \ {c})
  BY <1>5 DEF Freed, U
<1>7. InOrder(after, D, bs) /\ Held(heap, after, bs)
  <2>1. Clients(after, D, live \ {b}) /\ Held(heap, after, live \ {b})
    BY <1>1, <1>6, GivenBack DEF U, c
  <2> QED
    BY <1>6, <2>1 DEF InOrder, bs
<1>8. check_heap_validity(after)
  BY <1>6, GoodIsValid
<1>9. heap' = Settle(after, bs) /\ live' = bs /\ aborted' = aborted
  BY <1>3, <1>4, <1>8
<1>10. InOrder(heap', D, bs) /\ Held(after, heap', bs)
  <2>1. bs \in SUBSET bs
    OBVIOUS
  <2> QED
    BY <1>7, <1>9, <2>1, Settled
<1>11. Held(heap, heap', bs)
  BY <1>7, <1>10, HeldOn
<1> QED
  BY <1>9, <1>10, <1>11 DEF TakesBack, bs

----------------------------------------------------------------------------
(* The theorems.                                                           *)

\* The chunks an ordered heap has are those the walk of the code meets.
LEMMA Met ==
    ASSUME NEW h, NEW C, NEW bs, InOrder(h, C, bs)
    PROVE  Chunks(h) = C
BY ChunksAre, OrderIs

\* At first there is no heap.
LEMMA Starts == Init => IInv
<1> SUFFICES ASSUME Init PROVE IInv
  OBVIOUS
<1>1. /\ heap = [hdr |-> [u \in Units |-> BlankHeader], ftr |-> [u \in Units |-> BlankFooter],
                 hi |-> 0, head |-> NULL]
      /\ live = {} /\ aborted = FALSE
  BY DEF Init
<1>2. IsHeap(heap) /\ HasHead(heap) /\ heap.hi = 0 /\ heap.head = NULL
  BY <1>1, Constants DEF IsHeap, HasHead
<1>3. FreeOf(heap, {}) = {} /\ UsedOf(heap, {}) = {} /\ {} \ {} = {}
  BY DEF FreeOf, UsedOf
<1>4. Tiled(heap, {})
  BY <1>2 DEF Tiled
<1>5. Linked(heap, {}, NULL)
  BY DEF Linked, Forth, Back, NoRing
<1>6. Good(heap, {})
  BY <1>2, <1>3, <1>4, <1>5 DEF Good, Shaped, Apart, Idle
<1>7. Clients(heap, {}, live)
  BY <1>1, <1>3 DEF Clients
<1>8. InOrder(heap, {}, live)
  BY <1>6, <1>7 DEF InOrder
<1>9. Chunks(heap) = {}
  BY <1>8, Met
<1> QED
  BY <1>1, <1>8, <1>9 DEF IInv

\* What a call does.  That a stale header was returned is never undone.
LEMMA Calls ==
    ASSUME SizesFit, IInv, [Next]_vars, ~stale'
    PROVE  ~stale /\ (UNCHANGED vars \/ HandsOut(heap) \/ \E b \in live : TakesBack(b))
<1>1. ~stale
  BY Zenon DEF Next, vars, MallocFits, MallocGrows, AllocateGrown, FreeBlock
<1>2. ~aborted /\ InOrder(heap, Chunks(heap), live)
  BY <1>1 DEF IInv
<1>3. ASSUME NEW size \in Sizes, MallocFits(size) PROVE HandsOut(heap)
  BY <1>2, <1>3, Fits
<1>4. ASSUME NEW size \in Sizes, MallocGrows(size) PROVE HandsOut(heap)
  BY <1>2, <1>4, GrowsToFit
<1>5. ASSUME NEW b \in live, FreeBlock(b) PROVE TakesBack(b)
  BY <1>2, <1>5, Frees
<1> QED
  BY <1>1, <1>3, <1>4, <1>5 DEF Next

\* Each step keeps the invariant.
LEMMA Keeps ==
    ASSUME SizesFit, IInv, [Next]_vars
    PROVE  IInv'
<1> SUFFICES ASSUME ~stale' PROVE ~aborted' /\ InOrder(heap', Chunks(heap'), live')
  BY DEF IInv
<1>1. CASE UNCHANGED vars
  BY <1>1, Calls DEF IInv, vars
<1>2. ASSUME NEW D, ~aborted', InOrder(heap', D, live')
      PROVE  ~aborted' /\ InOrder(heap', Chunks(heap'), live')
  <2>1. Chunks(heap') = D
    BY <1>2, Met
  <2> QED
    BY <1>2, <2>1
<1>3. CASE HandsOut(heap)
  BY <1>2, <1>3 DEF HandsOut
<1>4. CASE \E b \in live : TakesBack(b)
  BY <1>2, <1>4 DEF TakesBack
<1> QED
  BY <1>1, <1>3, <1>4, Calls

\* As long as no stale header was returned, the chunks tile the heap, no two free ones
\* are side by side, the list is doubly linked and holds the free chunks, and the chunks
\* in use are the client's blocks, each with room for its size: the inductive invariant.
THEOREM ListInvariant ==
    ASSUME SizesFit PROVE Spec => []IInv
<1>1. IInv /\ [Next]_vars => IInv'
  BY Keeps
<1> QED
  BY <1>1, Starts, PTL DEF Spec

\* An assertion of heapmgr1.c can only fail after sys_grow_and_link has returned the
\* header of a chunk that was merged away.
THEOREM ListAborts ==
    ASSUME SizesFit PROVE Spec => []AbortsOnlyWhenStale
<1>1. IInv => AbortsOnlyWhenStale
  BY DEF IInv, AbortsOnlyWhenStale
<1> QED
  BY <1>1, ListInvariant, PTL

\* Until then the free chunks are those on the list, the used ones those of the client,
\* and no two free neighbours stay unmerged.
THEOREM ListAccounts ==
    ASSUME SizesFit PROVE Spec => []EveryChunkAccountedFor
<1>1. ASSUME IInv PROVE EveryChunkAccountedFor
  <2> SUFFICES ASSUME ~stale
               PROVE  /\ {c \in Chunks(heap) : status(heap, c) = CHUNK_FREE}
                            = Listed(heap, heap.head)
                      /\ {c \in Chunks(heap) : status(heap, c) = CHUNK_USED}
                            = {b.at : b \in live}
                      /\ \A c \in Listed(heap, heap.head) : ~IsFree(heap, adjacent(heap, c))
    BY DEF EveryChunkAccountedFor
  <2> DEFINE C == Chunks(heap)
             F == FreeOf(heap, C)
  <2>1. InOrder(heap, C, live)
    BY <1>1 DEF IInv
  <2> HIDE DEF C
  <2>2. /\ IsHeap(heap) /\ Tiled(heap, C) /\ Clients(heap, C, live)
        /\ Apart(heap, C, {}) /\ Linked(heap, F, heap.head)
    BY <2>1, OrderIs
  <2>3. Listed(heap, heap.head) = F
    BY <2>2, ListedAre
  <2>4. ASSUME NEW c \in F PROVE ~IsFree(heap, adjacent(heap, c))
    <3>1. c + span(heap, c) \notin F /\ c \in C
      BY <2>2 DEF Apart, FreeOf
    <3> QED
      BY <2>2, <3>1, AdjacentIs
  <2>5. UsedOf(heap, C) = {b.at : b \in live}
    BY <2>2 DEF Clients
  <2> QED
    BY <2>3, <2>4, <2>5 DEF C, FreeOf, UsedOf
<1> QED
  BY <1>1, ListInvariant, PTL

\* The blocks of the refinement, before and after a step.
LEMMA OwnedBlocks ==
    /\ Owned = {BlockOf(heap, b) : b \in live}
    /\ Owned' = {BlockOf(heap', b) : b \in live'}
BY DEF Owned, BlockOf

\* The promise's names for the facts about blocks.
LEMMA BlockFits ==
    ASSUME SizesFit, NEW h, NEW C, NEW bs, InOrder(h, C, bs), NEW b \in bs
    PROVE  /\ BlockOf(h, b) \in Promise!Blocks
           /\ BlockOf(h, b).units * CHUNK_UNIT >= BlockOf(h, b).size
           /\ \A a \in bs \ {b} :
                 Promise!Space(BlockOf(h, a)) \cap Promise!Space(BlockOf(h, b)) = {}
<1>1. \A a : Promise!Space(BlockOf(h, a)) = SpaceOf(h, a)
  BY DEF Promise!Space, BlockOf, SpaceOf
<1>2. Promise!Blocks = [first : 0 .. MaxUnits, units : 0 .. MaxUnits, size : Sizes]
  BY DEF Promise!Blocks
<1>3. IsHeap(h) /\ Tiled(h, C) /\ Clients(h, C, bs)
  BY OrderIs
<1> QED
  BY <1>1, <1>2, <1>3, SpaceOfItsOwn

\* A call that hands out a block is a Malloc of Allocator.
LEMMA HandsOutMaps ==
    ASSUME SizesFit, HandsOut(heap)
    PROVE  Promise!Malloc
<1>1. PICK D, new : /\ InOrder(heap', D, live') /\ new \notin live
                    /\ live' = live \cup {new} /\ Held(heap, heap', live)
  BY DEF HandsOut
<1> DEFINE B == BlockOf(heap', new)
<1>2. /\ B \in Promise!Blocks /\ B.units * CHUNK_UNIT >= B.size
      /\ \A a \in live : Promise!Space(BlockOf(heap', a)) \cap Promise!Space(B) = {}
  <2>1. new \in live' /\ live' \ {new} = live
    BY <1>1
  <2> HIDE DEF B
  <2> QED
    BY <1>1, <2>1, BlockFits DEF B
<1>3. \A a \in live : BlockOf(heap', a) = BlockOf(heap, a)
  BY <1>1, SameBlocks
<1> HIDE DEF B
<1>4. \A o \in Owned : Promise!Space(o) \cap Promise!Space(B) = {}
  BY <1>2, <1>3, OwnedBlocks
<1>5. Owned' = Owned \cup {B}
  <2>1. {BlockOf(heap', b) : b \in live'} = {BlockOf(heap', b) : b \in live} \cup {B}
    BY <1>1 DEF B
  <2>2. {BlockOf(heap', b) : b \in live} = {BlockOf(heap, b) : b \in live}
    BY <1>3
  <2> QED
    BY <2>1, <2>2, OwnedBlocks
<1> QED
  BY <1>2, <1>4, <1>5 DEF Promise!Malloc

\* A call that takes one back is a Free.
LEMMA TakesBackMaps ==
    ASSUME SizesFit, ~stale, IInv, NEW b \in live, TakesBack(b)
    PROVE  Promise!Free
<1>1. live' = live \ {b} /\ Held(heap, heap', live')
  BY DEF TakesBack
<1> DEFINE B == BlockOf(heap, b)
<1>2. \A a \in live \ {b} : BlockOf(heap', a) = BlockOf(heap, a)
  BY <1>1, SameBlocks
<1>3. \A a \in live \ {b} : BlockOf(heap, a) # B
  <2>1. \A a \in live : a.at \in Nat /\ (a.at = b.at => a = b)
    BY Constants DEF IInv, InOrder, Clients
  <2>2. \A a \in live : BlockOf(heap, a).first = a.at + 1
    BY DEF BlockOf
  <2>3. \A a \in live : BlockOf(heap, a) = B => a.at + 1 = b.at + 1
    BY <2>2
  <2>4. \A a \in live : BlockOf(heap, a) = B => a.at = b.at
    BY <2>1, <2>3
  <2> QED
    BY <2>1, <2>4
<1> HIDE DEF B
<1>4. Owned' = Owned \ {B}
  <2>1. {BlockOf(heap', a) : a \in live'} = {BlockOf(heap, a) : a \in live \ {b}}
    BY <1>1, <1>2
  <2>2. {BlockOf(heap, a) : a \in live \ {b}} = {BlockOf(heap, a) : a \in live} \ {B}
    BY <1>3 DEF B
  <2> QED
    BY <2>1, <2>2, OwnedBlocks
<1>5. B \in Owned
  BY OwnedBlocks DEF B
<1> QED
  BY <1>4, <1>5 DEF Promise!Free

\* Until a stale header is returned the heap implements the allocator of heapmgr.h:
\* malloc hands out space of its own and as large as asked for, free gives a block back,
\* and neither writes into a block the client keeps.
THEOREM ListKeepsPromise ==
    ASSUME SizesFit PROVE Spec => KeepsPromise
<1> DEFINE Step == ~stale' => Promise!Next
           Same == ~stale' => \A b \in live \cap live' : \A u \in Payload(b) :
                      heap'.hdr[u] = heap.hdr[u] /\ heap'.ftr[u] = heap.ftr[u]
<1>1. Init => Promise!Init
  BY DEF Init, Promise!Init, Owned
<1>2. IInv /\ [Next]_vars => [Step]_Owned
  <2> SUFFICES ASSUME IInv, [Next]_vars, ~stale' PROVE [Promise!Next]_Owned
    OBVIOUS
  <2>1. CASE UNCHANGED vars
    BY <2>1 DEF vars, Owned
  <2>2. CASE HandsOut(heap)
    BY <2>2, HandsOutMaps DEF Promise!Next
  <2>3. CASE \E b \in live : TakesBack(b)
    BY <2>3, Calls, TakesBackMaps DEF Promise!Next
  <2> QED
    BY <2>1, <2>2, <2>3, Calls
<1>3. IInv /\ [Next]_vars => [Same]_vars
  <2> SUFFICES ASSUME IInv, [Next]_vars, ~UNCHANGED vars, ~stale' PROVE Same
    OBVIOUS
  <2>1. CASE HandsOut(heap)
    BY <2>1 DEF HandsOut, Held
  <2>2. CASE \E b \in live : TakesBack(b)
    BY <2>2 DEF TakesBack, Held
  <2> QED
    BY <2>1, <2>2, Calls
<1> HIDE DEF Step, Same
<1>4. Spec => Promise!Init
  BY <1>1, PTL DEF Spec
<1>5. Spec => [][Step]_Owned
  BY <1>2, ListInvariant, PTL DEF Spec
<1>6. Spec => [][Same]_vars
  BY <1>3, ListInvariant, PTL DEF Spec
<1> QED
  BY <1>4, <1>5, <1>6 DEF KeepsPromise, Step, Same
=============================================================================
