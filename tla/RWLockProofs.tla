---------------------------- MODULE RWLockProofs ----------------------------
(***************************************************************************)
(* Proofs about RWLock, for every set of threads, every assignment of      *)
(* roles to them, every ring size and every number of tickets.             *)
(*                                                                         *)
(* The first part relates the ring size to nothing: mutual exclusion       *)
(* survives even when tickets overwrite each other's slots.  The second    *)
(* part proves more while the ring is large enough: as long as no ticket   *)
(* is handed out whose slot is still in use, the ring is the queue, the    *)
(* counters are exact, no wakeup is lost, the mutex is always returned and *)
(* the lock can be destroyed when everybody has left.                      *)
(***************************************************************************)
EXTENDS RWLock, LeastElements, FiniteSetTheorems, TLAPS

(* The inductive invariant, in parts that speak of explicit values of the  *)
(* lock's record u, the program counters p and the tickets m, so that a    *)
(* lemma about a step can name the values before and after it.             *)

\* The lock's record has its type and no slot or head is past next_element.
Shape(u) ==
    /\ u \in RWState
    /\ u.oldest_element <= u.next_element
    /\ \A i \in Slots : u.slot_table[i] < u.next_element

\* The counters and the threads: a reader that gave up after raising
\* current_readers leaves it too high, never too low, so <= and not =.
Counts(u, p) ==
    /\ p \in [Threads -> Labels]
    /\ Cardinality(At(p, "reading")) <= u.current_readers
    /\ Cardinality(At(p, "writing")) = u.current_writers
    /\ Cardinality(At(p, "quick_wait")) = u.qr_waiters
    /\ u.current_writers = 1 => u.current_readers = 0

\* A waiting thread's ticket was handed out.
Turns(u, p, m) ==
    /\ m \in [Threads -> Nat \cup {-1}]
    /\ \A t \in Threads : m[t] < u.next_element
    /\ \A t \in Threads : p[t] \in {"read_wait", "write_wait"} => m[t] \in Nat

Core == /\ Shape(rw) /\ Counts(rw, pc) /\ Turns(rw, pc, my_turn)
        /\ cv \subseteq Threads
        /\ leaked \in BOOLEAN

\* The inductive invariant of RWLock.
IInv == Core /\ destroyed \in {"no", "yes", "EBUSY"}

----------------------------------------------------------------------------
(* The two searches of the code return an index in the range they search.  *)

\* find_valid_head returns a ticket between where it starts and next_element.
LEMMA HeadInRange ==
    ASSUME NEW u \in RWState, NEW from \in Nat, from <= u.next_element
    PROVE  find_valid_head(u, from) \in from .. u.next_element
<1> DEFINE S == {h \in from .. u.next_element : h = u.next_element \/ slot_taken(u, h)}
<1>1. u.next_element \in Nat
  BY DEF RWState
<1>2. S \in SUBSET Nat /\ u.next_element \in S
  BY <1>1
<1>3. PICK x \in S : \A y \in S : x <= y
  BY <1>2, LeastElement
<1>4. \A h \in from .. x - 1 : ~slot_taken(u, h)
  <2> SUFFICES ASSUME NEW h \in from .. x - 1, slot_taken(u, h)
               PROVE  FALSE
    OBVIOUS
  <2>1. x \in Nat /\ x <= u.next_element
    BY <1>1
  <2>2. h \in from .. u.next_element /\ h < x
    BY <2>1, <1>1
  <2>3. h \in S
    BY <2>2
  <2> QED
    BY <2>3, <2>2, <2>1, <1>3
<1>5. /\ x \in from .. u.next_element
      /\ x = u.next_element \/ slot_taken(u, x)
  OBVIOUS
<1> HIDE DEF S
<1> QED
  BY <1>4, <1>5 DEF find_valid_head

\* past_batch returns a ticket between the head and next_element.
LEMMA BatchInRange ==
    ASSUME NEW u, Shape(u), NEW head \in Nat, head <= u.next_element
    PROVE  past_batch(u, head) \in head .. u.next_element
<1> DEFINE S == {h \in head .. u.next_element : ~slot_matches(u, h, REQ_READ)}
<1>1. u.next_element \in Nat
  BY DEF Shape, RWState
<1>2. ~slot_taken(u, u.next_element)
  <2>1. Slot(u.next_element) \in Slots
    BY <1>1, RingAssumption DEF Slot, Slots
  <2> QED
    BY <2>1, <1>1 DEF Shape, RWState, slot_taken
<1>3. S \in SUBSET Nat /\ u.next_element \in S
  BY <1>1, <1>2 DEF slot_matches
<1>4. PICK x \in S : \A y \in S : x <= y
  BY <1>3, LeastElement
<1>5. \A h \in head .. x - 1 : slot_matches(u, h, REQ_READ)
  <2> SUFFICES ASSUME NEW h \in head .. x - 1, ~slot_matches(u, h, REQ_READ)
               PROVE  FALSE
    OBVIOUS
  <2>1. x \in Nat /\ x <= u.next_element
    BY <1>1
  <2>2. h \in head .. u.next_element /\ h < x
    BY <2>1, <1>1
  <2>3. h \in S
    BY <2>2
  <2> QED
    BY <2>3, <2>2, <2>1, <1>4
<1>6. x \in head .. u.next_element /\ ~slot_matches(u, x, REQ_READ)
  OBVIOUS
<1> HIDE DEF S
<1> QED
  BY <1>5, <1>6 DEF past_batch

----------------------------------------------------------------------------
(* Counting threads.                                                       *)

\* 1 when a is b and 0 otherwise.
One(a, b) == IF a = b THEN 1 ELSE 0

\* Its values on the labels the counters are about.
LEMMA OneValues ==
    /\ One("reading", "reading") = 1 /\ One("writing", "writing") = 1
    /\ One("quick_wait", "quick_wait") = 1
    /\ \A l \in Labels \ {"reading"} : One(l, "reading") = 0
    /\ \A l \in Labels \ {"writing"} : One(l, "writing") = 0
    /\ \A l \in Labels \ {"quick_wait"} : One(l, "quick_wait") = 0
    /\ {"idle", "read_wait", "write_wait"} \subseteq
         Labels \ {"reading", "writing", "quick_wait"}
    /\ {"reading", "writing", "quick_wait"} \subseteq Labels
BY DEF One, Labels

\* Moving one thread from one label to another changes the two counts by one
\* and no other.
LEMMA MoveCount ==
    ASSUME NEW p \in [Threads -> Labels], NEW t \in Threads,
           NEW q \in [Threads -> Labels], NEW k \in Labels,
           \A s \in Threads \ {t} : q[s] = p[s]
    PROVE  /\ Cardinality(At(p, k)) \in Nat
           /\ p[t] = k => Cardinality(At(p, k)) > 0
           /\ Cardinality(At(q, k)) =
                Cardinality(At(p, k)) + One(q[t], k) - One(p[t], k)
<1>1. IsFiniteSet(At(p, k)) /\ Cardinality(At(p, k)) \in Nat
  BY ThreadsAssumption, FS_Subset, FS_CardinalityType DEF At
<1>2. p[t] = k => At(p, k) # {}
  BY DEF At
<1>3. p[t] = k => Cardinality(At(p, k)) > 0
  BY <1>1, <1>2, FS_EmptySet
<1>4. CASE q[t] = k
  <2>1. At(q, k) = At(p, k) \cup {t}
    BY <1>4 DEF At
  <2>2. t \in At(p, k) <=> p[t] = k
    BY DEF At
  <2>3. Cardinality(At(q, k)) = IF p[t] = k THEN Cardinality(At(p, k))
                                            ELSE Cardinality(At(p, k)) + 1
    <3> DEFINE S == At(p, k)
    <3>1. Cardinality(S \cup {t}) = IF t \in S THEN Cardinality(S) ELSE Cardinality(S) + 1
      <4>1. IsFiniteSet(S)
        BY <1>1
      <4> HIDE DEF S
      <4> QED
        BY <4>1, FS_AddElement
    <3> QED
      BY <2>1, <2>2, <3>1
  <2> QED
    BY <1>1, <1>3, <1>4, <2>3 DEF One
<1>5. CASE q[t] # k
  <2>1. At(q, k) = At(p, k) \ {t}
    BY <1>5 DEF At
  <2>2. t \in At(p, k) <=> p[t] = k
    BY DEF At
  <2>3. Cardinality(At(q, k)) = IF p[t] = k THEN Cardinality(At(p, k)) - 1
                                            ELSE Cardinality(At(p, k))
    <3> DEFINE S == At(p, k)
    <3>1. Cardinality(S \ {t}) = IF t \in S THEN Cardinality(S) - 1 ELSE Cardinality(S)
      <4>1. IsFiniteSet(S)
        BY <1>1
      <4> HIDE DEF S
      <4> QED
        BY <4>1, FS_RemoveElement
    <3> QED
      BY <2>1, <2>2, <3>1
  <2> QED
    BY <1>1, <1>3, <1>5, <2>3 DEF One
<1> QED
  BY <1>1, <1>3, <1>4, <1>5

\* The record goes from u to v while thread t leaves p[t] for label l with
\* ticket "turn", and the counters of v follow.
Follows(u, v, p, t, l, turn) ==
    /\ Shape(v)
    /\ v.next_element >= u.next_element
    /\ turn < v.next_element
    /\ l \in {"read_wait", "write_wait"} => turn \in Nat
    /\ v.qr_waiters = u.qr_waiters + One(l, "quick_wait") - One(p[t], "quick_wait")
    /\ v.current_writers = u.current_writers + One(l, "writing") - One(p[t], "writing")
    /\ v.current_readers >= u.current_readers + One(l, "reading") - One(p[t], "reading")
    /\ v.current_writers = 1 => v.current_readers = 0

\* g is f with the value x at t, a function from threads to S.
Becomes(f, g, t, x, S) ==
    g \in [Threads -> S] /\ g[t] = x /\ \A s \in Threads \ {t} : g[s] = f[s]

\* When the counters follow the thread that moves, the invariant survives.
LEMMA Move ==
    ASSUME NEW u, NEW v, NEW p, NEW m, NEW q, NEW n,
           NEW t \in Threads, NEW l \in Labels, NEW turn \in Nat \cup {-1},
           Shape(u), Counts(u, p), Turns(u, p, m), Follows(u, v, p, t, l, turn),
           Becomes(p, q, t, l, Labels), Becomes(m, n, t, turn, Nat \cup {-1})
    PROVE  Counts(v, q) /\ Turns(v, q, n)
<1>1. /\ p \in [Threads -> Labels] /\ q \in [Threads -> Labels]
      /\ q[t] = l /\ \A s \in Threads \ {t} : q[s] = p[s]
  BY DEF Counts, Becomes
<1>2. /\ m \in [Threads -> Nat \cup {-1}] /\ n \in [Threads -> Nat \cup {-1}]
      /\ n[t] = turn /\ \A s \in Threads \ {t} : n[s] = m[s]
  BY DEF Turns, Becomes
<1>3. u \in RWState /\ v \in RWState
  BY DEF Shape, Follows
<1>4. ASSUME NEW k \in Labels
      PROVE  /\ Cardinality(At(p, k)) \in Nat
             /\ Cardinality(At(q, k)) =
                  Cardinality(At(p, k)) + One(l, k) - One(p[t], k)
  BY <1>1, MoveCount
<1>5. {"reading", "writing", "quick_wait"} \subseteq Labels
  BY DEF Labels
<1>6. Cardinality(At(q, "reading")) <= v.current_readers
  <2>1. /\ Cardinality(At(p, "reading")) \in Nat
        /\ Cardinality(At(q, "reading")) = Cardinality(At(p, "reading"))
             + One(l, "reading") - One(p[t], "reading")
    BY <1>4, <1>5
  <2> QED
    BY <1>3, <2>1 DEF Counts, Follows, RWState, One
<1>7. Cardinality(At(q, "writing")) = v.current_writers
  <2>1. /\ Cardinality(At(p, "writing")) \in Nat
        /\ Cardinality(At(q, "writing")) = Cardinality(At(p, "writing"))
             + One(l, "writing") - One(p[t], "writing")
    BY <1>4, <1>5
  <2> QED
    BY <2>1 DEF Counts, Follows, One
<1>8. Cardinality(At(q, "quick_wait")) = v.qr_waiters
  <2>1. /\ Cardinality(At(p, "quick_wait")) \in Nat
        /\ Cardinality(At(q, "quick_wait")) = Cardinality(At(p, "quick_wait"))
             + One(l, "quick_wait") - One(p[t], "quick_wait")
    BY <1>4, <1>5
  <2> QED
    BY <2>1 DEF Counts, Follows, One
<1>9. Turns(v, q, n)
  <2>1. u.next_element \in Nat /\ v.next_element \in Nat
    BY <1>3 DEF RWState
  <2>2. ASSUME NEW s \in Threads PROVE n[s] < v.next_element
    <3>1. CASE s = t
      BY <1>2, <3>1 DEF Follows
    <3>2. CASE s # t
      BY <1>2, <2>1, <3>2 DEF Turns, Follows
    <3> QED
      BY <3>1, <3>2
  <2>3. ASSUME NEW s \in Threads, q[s] \in {"read_wait", "write_wait"} PROVE n[s] \in Nat
    <3>1. CASE s = t
      BY <1>1, <1>2, <2>3, <3>1 DEF Follows
    <3>2. CASE s # t
      BY <1>1, <1>2, <2>3, <3>2 DEF Turns
    <3> QED
      BY <3>1, <3>2
  <2> QED
    BY <1>2, <2>2, <2>3 DEF Turns
<1> QED
  BY <1>1, <1>6, <1>7, <1>8, <1>9 DEF Counts, Follows

----------------------------------------------------------------------------
(* What the record operators keep.                                         *)

\* Consuming an entry empties one slot and touches nothing else.
LEMMA ConsumeKeepsShape ==
    ASSUME NEW u, Shape(u), NEW num \in Nat
    PROVE  /\ Shape(consume_entry(u, num))
           /\ consume_entry(u, num).current_readers = u.current_readers
           /\ consume_entry(u, num).current_writers = u.current_writers
           /\ consume_entry(u, num).next_element = u.next_element
           /\ consume_entry(u, num).qr_waiters = u.qr_waiters
<1>1. Slot(num) \in Slots
  BY RingAssumption DEF Slot, Slots
<1> DEFINE e == consume_entry(u, num)
<1>2. /\ e \in RWState
      /\ e.slot_table = [u.slot_table EXCEPT ![Slot(num)] = -1]
  BY <1>1 DEF Shape, RWState, consume_entry, ReqType, REQ_NONE
<1>3. /\ e.next_element = u.next_element /\ e.oldest_element = u.oldest_element
      /\ e.current_readers = u.current_readers /\ e.current_writers = u.current_writers
      /\ e.qr_waiters = u.qr_waiters /\ e.read_batch_end = u.read_batch_end
  BY DEF Shape, RWState, consume_entry
<1>4. \A i \in Slots : e.slot_table[i] < e.next_element
  BY <1>1, <1>2, <1>3 DEF Shape, RWState
<1> QED
  BY <1>2, <1>3, <1>4 DEF Shape

\* Taking a ticket fills its slot and touches no counter and no thread.
LEMMA JoinKeepsShape ==
    ASSUME NEW u, NEW p, NEW m, Shape(u), Counts(u, p), Turns(u, p, m),
           NEW type \in ReqType
    PROVE  LET j == join_fifo(u, u.next_element, type)
           IN  /\ Shape(j) /\ Counts(j, p) /\ Turns(j, p, m)
               /\ j.next_element = u.next_element + 1
<1> DEFINE n == u.next_element
           j == join_fifo(u, n, type)
<1>1. n \in Nat /\ Slot(n) \in Slots
  BY RingAssumption DEF Slot, Slots, Shape, RWState
<1>2. /\ j \in RWState
      /\ j.slot_table = [u.slot_table EXCEPT ![Slot(n)] = n]
      /\ j.next_element = n + 1 /\ j.oldest_element = u.oldest_element
      /\ j.current_readers = u.current_readers /\ j.current_writers = u.current_writers
      /\ j.qr_waiters = u.qr_waiters
  <2>1. u \in RWState
    BY DEF Shape
  <2>2. /\ [u.slot_table EXCEPT ![Slot(n)] = n] \in [Slots -> Nat \cup {-1}]
        /\ [u.request_type EXCEPT ![Slot(n)] = type] \in [Slots -> ReqType]
        /\ n + 1 \in Nat
    BY <1>1, <2>1 DEF RWState
  <2>3. j = [u EXCEPT !.next_element = n + 1,
                      !.slot_table = [u.slot_table EXCEPT ![Slot(n)] = n],
                      !.request_type = [u.request_type EXCEPT ![Slot(n)] = type]]
    BY <2>1 DEF join_fifo, RWState
  <2> QED
    BY <2>1, <2>2, <2>3 DEF RWState
<1> HIDE DEF j
<1>3. \A i \in Slots : j.slot_table[i] < j.next_element
  BY <1>1, <1>2 DEF Shape, RWState
<1>4. Shape(j)
  BY <1>1, <1>2, <1>3 DEF Shape, RWState
<1>5. Counts(j, p) /\ Turns(j, p, m)
  BY <1>1, <1>2 DEF Counts, Turns
<1> QED
  BY <1>2, <1>4, <1>5 DEF j

\* A step that ends in a wait keeps Core when the counters follow.
LEMMA WaitStep ==
    ASSUME Core, NEW t \in Threads, NEW label \in Labels, NEW turn \in Nat \cup {-1},
           NEW u, NEW v, Shape(u), Counts(u, pc), Turns(u, pc, my_turn),
           Follows(u, v, pc, t, label, turn), Wait(t, label, turn, v)
    PROVE  Core'
<1>1. /\ rw' = v /\ cv' \subseteq Threads /\ leaked' \in BOOLEAN
  BY DEF Wait, Core
<1>2. label \in Labels /\ turn \in Nat \cup {-1}
  BY DEF Labels
<1>3. /\ Becomes(pc, pc', t, label, Labels)
      /\ Becomes(my_turn, my_turn', t, turn, Nat \cup {-1})
  BY <1>2 DEF Wait, Becomes, Counts, Turns
<1>4. Counts(v, pc') /\ Turns(v, pc', my_turn')
  BY <1>2, <1>3, Move
<1> QED
  BY <1>1, <1>4 DEF Core, Follows, Shape, Counts, Turns, At

\* The same for a step that returns from the call.
LEMMA ReturnStep ==
    ASSUME Core, NEW t \in Threads, NEW label \in Labels, NEW woken,
           NEW u, NEW v, Shape(u), Counts(u, pc), Turns(u, pc, my_turn),
           Follows(u, v, pc, t, label, -1), Return(t, label, v, woken)
    PROVE  Core'
<1>1. /\ rw' = v /\ cv' \subseteq Threads /\ leaked' \in BOOLEAN
  BY DEF Return, Core
<1>2. label \in Labels /\ -1 \in Nat \cup {-1}
  BY DEF Labels
<1>3. /\ Becomes(pc, pc', t, label, Labels)
      /\ Becomes(my_turn, my_turn', t, -1, Nat \cup {-1})
  BY <1>2 DEF Return, Becomes, Counts, Turns
<1>4. Counts(v, pc') /\ Turns(v, pc', my_turn')
  BY <1>2, <1>3, Move
<1> QED
  BY <1>1, <1>4 DEF Core, Follows, Shape, Counts, Turns, At

\* And for the return that leaves the mutex locked.
LEMMA LeakStep ==
    ASSUME Core, NEW t \in Threads,
           NEW u, NEW v, Shape(u), Counts(u, pc), Turns(u, pc, my_turn),
           Follows(u, v, pc, t, "idle", -1), ReturnLeakingMutex(t, v)
    PROVE  Core'
<1>1. /\ rw' = v /\ cv' \subseteq Threads /\ leaked' \in BOOLEAN
  BY DEF ReturnLeakingMutex, Core
<1>2. "idle" \in Labels /\ -1 \in Nat \cup {-1}
  BY DEF Labels
<1>3. /\ Becomes(pc, pc', t, "idle", Labels)
      /\ Becomes(my_turn, my_turn', t, -1, Nat \cup {-1})
  BY <1>2 DEF ReturnLeakingMutex, Becomes, Counts, Turns
<1>4. Counts(v, pc') /\ Turns(v, pc', my_turn')
  BY <1>2, <1>3, Move
<1> QED
  BY <1>1, <1>4 DEF Core, Follows, Shape, Counts, Turns, At

----------------------------------------------------------------------------
(* One turn of each waiting loop, entered with a record u in which the     *)
(* thread's ticket has been handed out.                                    *)

\* Moving the head within the tickets handed out keeps the record's shape and
\* touches no counter.
LEMMA HeadKeepsShape ==
    ASSUME NEW u, Shape(u), NEW head \in u.oldest_element .. u.next_element
    PROVE  Shape([u EXCEPT !.oldest_element = head])
BY DEF Shape, RWState

\* rwlock_read_lock's loop: wait, enter in the batch, or grant a batch.
LEMMA ReadLoopKeepsCore ==
    ASSUME Core, NEW t \in Threads, NEW u, NEW turn \in Nat,
           Shape(u), Counts(u, pc), Turns(u, pc, my_turn), turn < u.next_element,
           pc[t] \in {"idle", "read_wait"}, ReadLoop(t, turn, u)
    PROVE  Core'
<1> DEFINE head == find_valid_head(u, u.oldest_element)
           kept == IF head = u.next_element THEN u ELSE [u EXCEPT !.oldest_element = head]
           in   == [u EXCEPT !.current_readers = @ + 1]
<1>0. /\ u \in RWState /\ u.next_element \in Nat /\ u.oldest_element \in Nat
      /\ u.current_readers \in Nat /\ u.current_writers \in {0, 1} /\ u.qr_waiters \in Nat
  BY DEF Shape, RWState
<1>1. head \in u.oldest_element .. u.next_element
  BY <1>0, HeadInRange DEF Shape
<1>2. turn \in Nat \cup {-1} /\ "read_wait" \in Labels /\ "reading" \in Labels /\ "idle" \in Labels
  BY DEF Labels
<1>a. /\ \A k \in {"reading", "writing", "quick_wait"} : One(pc[t], k) = 0
      /\ \A k \in {"reading", "writing", "quick_wait"} :
             One("idle", k) = 0 /\ One("read_wait", k) = 0
      /\ One("reading", "reading") = 1 /\ One("reading", "writing") = 0
      /\ One("reading", "quick_wait") = 0
  BY DEF One
<1>3. CASE u.current_writers > 0
  <2>1. Wait(t, "read_wait", turn, u)
    BY <1>3 DEF ReadLoop
  <2>2. Follows(u, u, pc, t, "read_wait", turn)
    BY <1>0, <1>a DEF Follows, Counts
  <2> QED
    BY <1>2, <2>1, <2>2, WaitStep
<1>4. CASE u.current_writers = 0 /\ turn <= u.read_batch_end
  <2>1. EnterInBatch(t, turn, u)
    BY <1>0, <1>4 DEF ReadLoop
  <2>2. /\ Shape(in) /\ in.next_element = u.next_element
        /\ in.current_readers = u.current_readers + 1
        /\ in.current_writers = 0 /\ in.qr_waiters = u.qr_waiters
    BY <1>0, <1>4 DEF Shape, RWState
  <2> HIDE DEF in
  <2>3. CASE slot_taken(u, turn)
    <3>1. Return(t, "reading", consume_entry(in, turn), {})
      BY <2>1, <2>3 DEF EnterInBatch, in
    <3> DEFINE out == consume_entry(in, turn)
    <3>2. /\ Shape(out) /\ out.next_element = u.next_element
          /\ out.current_readers = u.current_readers + 1
          /\ out.current_writers = 0 /\ out.qr_waiters = u.qr_waiters
      BY <2>2, ConsumeKeepsShape
    <3> HIDE DEF out
    <3>3. Follows(u, out, pc, t, "reading", -1)
      <4>1. out.qr_waiters = u.qr_waiters + One("reading", "quick_wait") - One(pc[t], "quick_wait")
        BY <1>0, <1>a, <3>2
      <4>2. out.current_writers = u.current_writers + One("reading", "writing") - One(pc[t], "writing")
        BY <1>0, <1>a, <1>4, <3>2
      <4>3. out.current_readers >= u.current_readers + One("reading", "reading") - One(pc[t], "reading")
        BY <1>0, <1>a, <3>2
      <4> QED
        BY <1>0, <3>2, <4>1, <4>2, <4>3 DEF Follows
    <3> QED
      BY <1>2, <3>1, <3>3, ReturnStep DEF out
  <2>4. CASE ~slot_taken(u, turn)
    <3>1. Return(t, "idle", in, {})
      BY <2>1, <2>4 DEF EnterInBatch, in
    <3>2. Follows(u, in, pc, t, "idle", -1)
      BY <1>0, <1>4, <2>2, <1>a DEF Follows
    <3> QED
      BY <1>2, <3>1, <3>2, ReturnStep
  <2> QED
    BY <2>3, <2>4
<1>5. CASE /\ u.current_writers = 0 /\ ~(turn <= u.read_batch_end)
           /\ turn = head /\ get_request_type(u, head) = REQ_READ
  <2> DEFINE end   == past_batch(u, turn)
             grant == [u EXCEPT !.read_batch_end = end - 1,
                                !.oldest_element = end,
                                !.current_readers = @ + 1]
  <2>1. Return(t, "reading", consume_entry(grant, turn), cv)
    BY <1>0, <1>5 DEF ReadLoop, GrantBatch
  <2>2. end \in turn .. u.next_element
    BY <1>0, BatchInRange
  <2> HIDE DEF end
  <2>3. /\ Shape(grant) /\ grant.next_element = u.next_element
        /\ grant.current_readers = u.current_readers + 1
        /\ grant.current_writers = 0 /\ grant.qr_waiters = u.qr_waiters
    <3>1. /\ end \in Nat /\ end - 1 \in Nat \cup {-1} /\ end <= u.next_element
          /\ u.current_readers + 1 \in Nat
      BY <1>0, <2>2
    <3>2. /\ grant.next_element = u.next_element /\ grant.oldest_element = end
          /\ grant.current_readers = u.current_readers + 1
          /\ grant.current_writers = 0 /\ grant.qr_waiters = u.qr_waiters
          /\ grant.slot_table = u.slot_table
      BY <1>0, <1>5 DEF RWState
    <3>3. grant \in RWState
      BY <1>0, <3>1 DEF RWState
    <3> QED
      BY <3>1, <3>2, <3>3 DEF Shape
  <2> HIDE DEF grant
  <2> DEFINE out == consume_entry(grant, turn)
  <2>4. /\ Shape(out) /\ out.next_element = u.next_element
        /\ out.current_readers = u.current_readers + 1
        /\ out.current_writers = 0 /\ out.qr_waiters = u.qr_waiters
    BY <2>3, ConsumeKeepsShape
  <2>5. Return(t, "reading", out, cv)
    BY <2>1 DEF grant
  <2> HIDE DEF out
  <2>6. Follows(u, out, pc, t, "reading", -1)
    <3>1. out.qr_waiters = u.qr_waiters + One("reading", "quick_wait") - One(pc[t], "quick_wait")
      BY <1>0, <1>a, <2>4
    <3>2. out.current_writers = u.current_writers + One("reading", "writing") - One(pc[t], "writing")
      BY <1>0, <1>a, <1>5, <2>4
    <3>3. out.current_readers >= u.current_readers + One("reading", "reading") - One(pc[t], "reading")
      BY <1>0, <1>a, <2>4
    <3> QED
      BY <1>0, <2>4, <3>1, <3>2, <3>3 DEF Follows
  <2> QED
    BY <1>2, <2>5, <2>6, ReturnStep
<1>6. CASE /\ u.current_writers = 0 /\ ~(turn <= u.read_batch_end)
           /\ ~(turn = head /\ get_request_type(u, head) = REQ_READ)
  <2>1. Wait(t, "read_wait", turn, kept)
    BY <1>0, <1>6 DEF ReadLoop
  <2>2. /\ Shape(kept) /\ kept.next_element = u.next_element
        /\ kept.current_readers = u.current_readers
        /\ kept.current_writers = 0 /\ kept.qr_waiters = u.qr_waiters
    BY <1>0, <1>1, <1>6, HeadKeepsShape DEF Shape, RWState
  <2> HIDE DEF kept
  <2>3. Follows(u, kept, pc, t, "read_wait", turn)
    BY <1>0, <1>6, <2>2, <1>a DEF Follows
  <2> QED
    BY <1>2, <2>1, <2>3, WaitStep
<1> QED
  BY <1>0, <1>3, <1>4, <1>5, <1>6

\* rwlock_write_lock's loop: wait, enter, or fail with the mutex locked.
LEMMA WriteLoopKeepsCore ==
    ASSUME Core, NEW t \in Threads, NEW u, NEW turn \in Nat,
           Shape(u), Counts(u, pc), Turns(u, pc, my_turn), turn < u.next_element,
           pc[t] \in {"idle", "write_wait"}, WriteLoop(t, turn, u)
    PROVE  Core'
<1> DEFINE head == find_valid_head(u, u.oldest_element)
           kept == [u EXCEPT !.oldest_element = head]
           busy == u.current_readers > 0 \/ u.current_writers > 0 \/ u.qr_waiters > 0
<1>0. /\ u \in RWState /\ u.next_element \in Nat /\ u.oldest_element \in Nat
      /\ u.current_readers \in Nat /\ u.current_writers \in {0, 1} /\ u.qr_waiters \in Nat
  BY DEF Shape, RWState
<1>1. head \in u.oldest_element .. u.next_element
  BY <1>0, HeadInRange DEF Shape
<1>2. turn \in Nat \cup {-1} /\ "write_wait" \in Labels /\ "writing" \in Labels /\ "idle" \in Labels
  BY DEF Labels
<1>a. /\ \A k \in {"reading", "writing", "quick_wait"} : One(pc[t], k) = 0
      /\ \A k \in {"reading", "writing", "quick_wait"} :
             One("idle", k) = 0 /\ One("write_wait", k) = 0
      /\ One("writing", "reading") = 0 /\ One("writing", "writing") = 1
      /\ One("writing", "quick_wait") = 0
  BY DEF One
<1>3. CASE busy
  <2>1. Wait(t, "write_wait", turn, u)
    BY <1>3 DEF WriteLoop
  <2>2. Follows(u, u, pc, t, "write_wait", turn)
    BY <1>0, <1>a DEF Follows, Counts
  <2> QED
    BY <1>2, <2>1, <2>2, WaitStep
<1>4. /\ Shape(kept) /\ kept.next_element = u.next_element
      /\ kept.current_readers = u.current_readers
      /\ kept.current_writers = u.current_writers /\ kept.qr_waiters = u.qr_waiters
  BY <1>0, <1>1, HeadKeepsShape DEF Shape, RWState
<1>5. ~busy => u.current_readers = 0 /\ u.current_writers = 0 /\ u.qr_waiters = 0
  BY <1>0
<1>6. CASE ~busy /\ head = u.next_element
  <2>1. ReturnLeakingMutex(t, kept)
    BY <1>6 DEF WriteLoop
  <2>2. Follows(u, kept, pc, t, "idle", -1)
    BY <1>0, <1>4, <1>5, <1>6, <1>a DEF Follows
  <2> QED
    BY <2>1, <2>2, LeakStep
<1>7. CASE ~busy /\ head # u.next_element /\ turn = head /\ slot_matches(u, turn, REQ_WRITE)
  <2> DEFINE won  == [kept EXCEPT !.current_writers = 1]
             out  == consume_entry(won, turn)
             next == find_valid_head(out, turn + 1)
             done == [out EXCEPT !.oldest_element = next, !.read_batch_end = -1]
  <2>1. Return(t, "writing", done, {})
    BY <1>7 DEF WriteLoop, EnterWrite
  <2>2. /\ Shape(won) /\ won.next_element = u.next_element
        /\ won.current_readers = 0 /\ won.current_writers = 1 /\ won.qr_waiters = 0
    BY <1>4, <1>5, <1>7 DEF Shape, RWState
  <2> HIDE DEF kept, won
  <2>3. /\ Shape(out) /\ out.next_element = u.next_element
        /\ out.current_readers = 0 /\ out.current_writers = 1 /\ out.qr_waiters = 0
    BY <2>2, ConsumeKeepsShape
  <2> HIDE DEF out
  <2>4. next \in turn + 1 .. u.next_element
    <3>1. turn + 1 \in Nat /\ turn + 1 <= out.next_element /\ out \in RWState
      BY <1>0, <2>3 DEF Shape
    <3> QED
      BY <2>3, <3>1, HeadInRange
  <2> HIDE DEF next
  <2>5. /\ Shape(done) /\ done.next_element = u.next_element
        /\ done.current_readers = 0 /\ done.current_writers = 1 /\ done.qr_waiters = 0
    <3>1. next \in Nat /\ next <= u.next_element /\ out \in RWState
      BY <1>0, <2>3, <2>4 DEF Shape
    <3>2. /\ done.next_element = u.next_element /\ done.oldest_element = next
          /\ done.current_readers = 0 /\ done.current_writers = 1 /\ done.qr_waiters = 0
          /\ done.slot_table = out.slot_table
      BY <2>3, <3>1 DEF RWState
    <3>3. done \in RWState
      BY <3>1 DEF RWState
    <3> QED
      BY <2>3, <3>1, <3>2, <3>3 DEF Shape
  <2> HIDE DEF done
  <2>6. Follows(u, done, pc, t, "writing", -1)
    BY <1>0, <1>5, <1>7, <2>5 DEF Follows, One
  <2> QED
    BY <1>2, <2>1, <2>6, ReturnStep
<1>8. CASE ~busy /\ head # u.next_element /\ ~(turn = head /\ slot_matches(u, turn, REQ_WRITE))
  <2>1. Wait(t, "write_wait", turn, kept)
    BY <1>8 DEF WriteLoop
  <2>2. Follows(u, kept, pc, t, "write_wait", turn)
    BY <1>0, <1>4, <1>5, <1>8, <1>a DEF Follows
  <2> QED
    BY <1>2, <2>1, <2>2, WaitStep
<1> QED
  BY <1>3, <1>6, <1>7, <1>8

----------------------------------------------------------------------------
(* The remaining steps.                                                    *)

\* A quick reader enters, waits, or wakes up.
LEMMA QuickKeepsCore ==
    ASSUME Core, NEW t \in Threads, QuickRead(t) \/ QuickReadRetry(t)
    PROVE  Core'
<1>0. /\ rw \in RWState /\ Shape(rw) /\ Counts(rw, pc) /\ Turns(rw, pc, my_turn)
      /\ rw.next_element \in Nat /\ rw.current_readers \in Nat
      /\ rw.current_writers \in {0, 1} /\ rw.qr_waiters \in Nat
  BY DEF Core, Shape, RWState
<1>1. -1 \in Nat \cup {-1} /\ "reading" \in Labels /\ "quick_wait" \in Labels
  BY DEF Labels
<1>2. CASE QuickRead(t) /\ rw.current_writers = 0
  <2> DEFINE v == [rw EXCEPT !.current_readers = @ + 1]
  <2>1. Return(t, "reading", v, {}) /\ pc[t] = "idle"
    BY <1>2 DEF QuickRead, Enter
  <2>2. /\ Shape(v) /\ v.next_element = rw.next_element
        /\ v.current_readers = rw.current_readers + 1
        /\ v.current_writers = 0 /\ v.qr_waiters = rw.qr_waiters
    BY <1>0, <1>2 DEF Shape, RWState
  <2> HIDE DEF v
  <2>3. Follows(rw, v, pc, t, "reading", -1)
    BY <1>0, <1>2, <2>1, <2>2 DEF Follows, One
  <2> QED
    BY <1>0, <1>1, <2>1, <2>3, ReturnStep
<1>3. CASE QuickRead(t) /\ rw.current_writers # 0
  <2> DEFINE v == [rw EXCEPT !.qr_waiters = @ + 1]
  <2>1. Wait(t, "quick_wait", -1, v) /\ pc[t] = "idle"
    BY <1>3 DEF QuickRead, Enter
  <2>2. /\ Shape(v) /\ v.next_element = rw.next_element
        /\ v.current_readers = rw.current_readers
        /\ v.current_writers = rw.current_writers /\ v.qr_waiters = rw.qr_waiters + 1
    BY <1>0 DEF Shape, RWState
  <2> HIDE DEF v
  <2>3. Follows(rw, v, pc, t, "quick_wait", -1)
    BY <1>0, <2>1, <2>2 DEF Follows, One, Counts
  <2> QED
    BY <1>0, <1>1, <2>1, <2>3, WaitStep
<1>4. CASE QuickReadRetry(t) /\ rw.current_writers > 0
  <2>1. Wait(t, "quick_wait", -1, rw) /\ pc[t] = "quick_wait"
    BY <1>4 DEF QuickReadRetry, Resume
  <2>2. Follows(rw, rw, pc, t, "quick_wait", -1)
    BY <1>0, <2>1 DEF Follows, One, Counts
  <2> QED
    BY <1>0, <1>1, <2>1, <2>2, WaitStep
<1>5. CASE QuickReadRetry(t) /\ ~(rw.current_writers > 0)
  <2> DEFINE v == [rw EXCEPT !.qr_waiters = @ - 1, !.current_readers = @ + 1]
  <2>1. Return(t, "reading", v, cv) /\ pc[t] = "quick_wait"
    BY <1>5 DEF QuickReadRetry, Resume
  <2>2. rw.qr_waiters > 0
    <3>1. pc \in [Threads -> Labels] /\ Cardinality(At(pc, "quick_wait")) = rw.qr_waiters
      BY <1>0 DEF Counts
    <3> QED
      BY <1>1, <2>1, <3>1, MoveCount
  <2>3. rw.current_writers = 0 /\ rw.qr_waiters - 1 \in Nat /\ rw.current_readers + 1 \in Nat
    BY <1>0, <1>5, <2>2
  <2>4. /\ Shape(v) /\ v.next_element = rw.next_element
        /\ v.current_readers = rw.current_readers + 1
        /\ v.current_writers = 0 /\ v.qr_waiters = rw.qr_waiters - 1
    BY <1>0, <2>3 DEF Shape, RWState
  <2> HIDE DEF v
  <2>5. Follows(rw, v, pc, t, "reading", -1)
    BY <1>0, <2>1, <2>3, <2>4 DEF Follows, One
  <2> QED
    BY <1>0, <1>1, <2>1, <2>5, ReturnStep
<1> QED
  BY <1>2, <1>3, <1>4, <1>5

\* The first turn of a loop, with the ticket just taken, and the later ones.
LEMMA TicketStepsKeepCore ==
    ASSUME Core, NEW t \in Threads,
           ReadLock(t) \/ ReadLockRetry(t) \/ WriteLock(t) \/ WriteLockRetry(t)
    PROVE  Core'
<1>0. Shape(rw) /\ Counts(rw, pc) /\ Turns(rw, pc, my_turn) /\ rw.next_element \in Nat
  BY DEF Core, Shape, RWState
<1>1. CASE ReadLock(t)
  <2> DEFINE u == join_fifo(rw, rw.next_element, REQ_READ)
  <2>1. ReadLoop(t, rw.next_element, u) /\ pc[t] = "idle"
    BY <1>1 DEF ReadLock, Enter
  <2>2. /\ Shape(u) /\ Counts(u, pc) /\ Turns(u, pc, my_turn)
        /\ rw.next_element < u.next_element
    <3>1. REQ_READ \in ReqType
      BY DEF ReqType
    <3> QED
      BY <1>0, <3>1, JoinKeepsShape
  <2> HIDE DEF u
  <2> QED
    BY <1>0, <2>1, <2>2, ReadLoopKeepsCore
<1>2. CASE ReadLockRetry(t)
  <2>1. ReadLoop(t, my_turn[t], rw) /\ pc[t] = "read_wait"
    BY <1>2 DEF ReadLockRetry, Resume
  <2>2. my_turn[t] \in Nat /\ my_turn[t] < rw.next_element
    BY <1>0, <2>1 DEF Turns
  <2> QED
    BY <1>0, <2>1, <2>2, ReadLoopKeepsCore
<1>3. CASE WriteLock(t)
  <2> DEFINE u == join_fifo(rw, rw.next_element, REQ_WRITE)
  <2>1. WriteLoop(t, rw.next_element, u) /\ pc[t] = "idle"
    BY <1>3 DEF WriteLock, Enter
  <2>2. /\ Shape(u) /\ Counts(u, pc) /\ Turns(u, pc, my_turn)
        /\ rw.next_element < u.next_element
    <3>1. REQ_WRITE \in ReqType
      BY DEF ReqType
    <3> QED
      BY <1>0, <3>1, JoinKeepsShape
  <2> HIDE DEF u
  <2> QED
    BY <1>0, <2>1, <2>2, WriteLoopKeepsCore
<1>4. CASE WriteLockRetry(t)
  <2>1. WriteLoop(t, my_turn[t], rw) /\ pc[t] = "write_wait"
    BY <1>4 DEF WriteLockRetry, Resume
  <2>2. my_turn[t] \in Nat /\ my_turn[t] < rw.next_element
    BY <1>0, <2>1 DEF Turns
  <2> QED
    BY <1>0, <2>1, <2>2, WriteLoopKeepsCore
<1> QED
  BY <1>1, <1>2, <1>3, <1>4

\* Unlocking never drives a counter below zero: the thread that unlocks is
\* counted in it.
LEMMA UnlockKeepsCore ==
    ASSUME Core, NEW t \in Threads, ReadUnlock(t) \/ WriteUnlock(t)
    PROVE  Core'
<1>0. /\ rw \in RWState /\ Shape(rw) /\ Counts(rw, pc) /\ Turns(rw, pc, my_turn)
      /\ rw.next_element \in Nat /\ rw.current_readers \in Nat
      /\ rw.current_writers \in {0, 1} /\ rw.qr_waiters \in Nat
  BY DEF Core, Shape, RWState
<1>1. /\ -1 \in Nat \cup {-1}
      /\ "idle" \in Labels /\ "reading" \in Labels /\ "writing" \in Labels
  BY DEF Labels
<1>2. /\ pc \in [Threads -> Labels]
      /\ Cardinality(At(pc, "reading")) <= rw.current_readers
      /\ Cardinality(At(pc, "writing")) = rw.current_writers
  BY <1>0 DEF Counts
<1>3. CASE ReadUnlock(t)
  <2>1. pc[t] = "reading"
    BY <1>3 DEF ReadUnlock
  <2>2. rw.current_readers - 1 \in Nat
    <3>1. Cardinality(At(pc, "reading")) \in Nat /\ Cardinality(At(pc, "reading")) > 0
      BY <1>1, <1>2, <2>1, MoveCount
    <3> QED
      BY <1>0, <1>2, <3>1
  <2>3. ASSUME NEW v, NEW end \in {rw.read_batch_end, -1}, NEW woken,
               v = [rw EXCEPT !.current_readers = @ - 1, !.read_batch_end = end],
               Return(t, "idle", v, woken)
        PROVE  Core'
    <3>1. /\ Shape(v) /\ v.next_element = rw.next_element
          /\ v.current_readers = rw.current_readers - 1
          /\ v.current_writers = rw.current_writers /\ v.qr_waiters = rw.qr_waiters
      BY <1>0, <2>2, <2>3 DEF Shape, RWState
    <3>2. v.current_writers # 1
      BY <1>0, <2>2, <3>1 DEF Counts
    <3>3. Follows(rw, v, pc, t, "idle", -1)
      BY <1>0, <2>1, <3>1, <3>2 DEF Follows, One
    <3> QED
      BY <1>0, <1>1, <2>3, <3>3, ReturnStep
  <2>4. [rw EXCEPT !.current_readers = @ - 1] =
          [rw EXCEPT !.current_readers = @ - 1, !.read_batch_end = rw.read_batch_end]
    BY <1>0 DEF RWState
  <2> QED
    BY <1>3, <2>3, <2>4 DEF ReadUnlock
<1>4. CASE WriteUnlock(t)
  <2> DEFINE v == [rw EXCEPT !.current_writers = @ - 1, !.read_batch_end = -1]
  <2>1. Return(t, "idle", v, cv) /\ pc[t] = "writing"
    BY <1>4 DEF WriteUnlock
  <2>2. rw.current_writers = 1
    <3>1. Cardinality(At(pc, "writing")) > 0
      BY <1>1, <1>2, <2>1, MoveCount
    <3> QED
      BY <1>0, <1>2, <3>1
  <2>3. /\ Shape(v) /\ v.next_element = rw.next_element
        /\ v.current_readers = rw.current_readers
        /\ v.current_writers = 0 /\ v.qr_waiters = rw.qr_waiters
    <3>1. rw.current_writers - 1 = 0
      BY <2>2
    <3>2. v = [rw EXCEPT !.current_writers = 0, !.read_batch_end = -1]
      BY <3>1
    <3> HIDE DEF v
    <3> QED
      BY <1>0, <3>2 DEF Shape, RWState
  <2> HIDE DEF v
  <2>4. Follows(rw, v, pc, t, "idle", -1)
    BY <1>0, <2>1, <2>2, <2>3 DEF Follows, One
  <2> QED
    BY <1>0, <1>1, <2>1, <2>4, ReturnStep
<1> QED
  BY <1>3, <1>4

----------------------------------------------------------------------------
(* The theorems.                                                           *)

\* The invariant holds initially.
LEMMA InitIInv == Init => IInv
<1> SUFFICES ASSUME Init PROVE IInv
  OBVIOUS
<1>1. Shape(rw)
  BY RingAssumption DEF Init, Shape, RWState, ReqType, Slots
<1>2. Turns(rw, pc, my_turn)
  BY DEF Init, Turns
<1>3. Counts(rw, pc)
  <2>1. pc \in [Threads -> Labels]
    BY DEF Init, Labels
  <2>2. At(pc, "reading") = {} /\ At(pc, "writing") = {} /\ At(pc, "quick_wait") = {}
    BY DEF Init, At
  <2>3. /\ rw.current_readers = 0 /\ rw.current_writers = 0 /\ rw.qr_waiters = 0
    BY DEF Init
  <2> QED
    BY <2>1, <2>2, <2>3, FS_EmptySet DEF Counts
<1> QED
  BY <1>1, <1>2, <1>3 DEF IInv, Core, Init

\* Every step preserves it.
LEMMA NextIInv == IInv /\ [Next]_vars => IInv'
<1> SUFFICES ASSUME IInv, [Next]_vars PROVE IInv'
  OBVIOUS
<1>0. Core
  BY DEF IInv
<1>1. CASE UNCHANGED vars
  BY <1>1 DEF vars, IInv, Core, Shape, Counts, Turns, At
<1>2. ASSUME NEW t \in Threads, QuickRead(t) \/ QuickReadRetry(t) PROVE IInv'
  BY <1>0, <1>2, QuickKeepsCore DEF IInv, QuickRead, QuickReadRetry
<1>3. ASSUME NEW t \in Threads,
             ReadLock(t) \/ ReadLockRetry(t) \/ WriteLock(t) \/ WriteLockRetry(t)
      PROVE  IInv'
  <2>1. destroyed' = destroyed
    BY <1>3 DEF ReadLock, ReadLockRetry, WriteLock, WriteLockRetry
  <2> QED
    BY <1>0, <1>3, <2>1, TicketStepsKeepCore DEF IInv
<1>4. ASSUME NEW t \in Threads, ReadUnlock(t) \/ WriteUnlock(t) PROVE IInv'
  BY <1>0, <1>4, UnlockKeepsCore DEF IInv, ReadUnlock, WriteUnlock
<1>5. ASSUME NEW t \in Threads, SpuriousWakeup(t) PROVE IInv'
  BY <1>5 DEF SpuriousWakeup, IInv, Core, Shape, Counts, Turns, At
<1>6. CASE Destroy
  BY <1>6 DEF Destroy, IInv, Core, Shape, Counts, Turns, At
<1> QED
  BY <1>1, <1>2, <1>3, <1>4, <1>5, <1>6 DEF Next

\* The inductive invariant holds in every reachable state.
THEOREM Invariance == Spec => []IInv
BY InitIInv, NextIInv, PTL DEF Spec

\* What the counters say of the threads that hold the lock.
LEMMA HoldersExclude ==
    ASSUME IInv
    PROVE  /\ MutualExclusion
           /\ rw.current_writers = 0 => Writers = {}
           /\ rw.current_readers = 0 => Readers = {}
           /\ Writers # {} => rw.current_writers = 1 /\ rw.current_readers = 0
           /\ pc \in [Threads -> Labels]
<1>0. /\ pc \in [Threads -> Labels]
      /\ Cardinality(Readers) <= rw.current_readers
      /\ Cardinality(Writers) = rw.current_writers
      /\ rw.current_writers = 1 => rw.current_readers = 0
      /\ rw.current_readers \in Nat /\ rw.current_writers \in {0, 1}
  BY DEF IInv, Core, Counts, Shape, RWState, Readers, Writers, In
<1>1. /\ IsFiniteSet(Readers) /\ IsFiniteSet(Writers)
      /\ Cardinality(Readers) \in Nat
  BY ThreadsAssumption, FS_Subset, FS_CardinalityType DEF Readers, Writers, In, At
<1>2. rw.current_readers = 0 => Readers = {}
  <2>1. rw.current_readers = 0 => Cardinality(Readers) = 0
    BY <1>0, <1>1
  <2> QED
    BY <1>1, <2>1, FS_EmptySet
<1>3. rw.current_writers = 0 => Writers = {}
  BY <1>0, <1>1, FS_EmptySet
<1>4. Writers # {} => rw.current_writers = 1 /\ rw.current_readers = 0
  BY <1>0, <1>3
<1>5. rw.current_writers = 1 => \E w : Writers = {w}
  BY <1>0, <1>1, FS_Singleton
<1>6. ASSUME NEW t \in Threads, NEW s \in Threads, pc[t] = "writing", s # t
      PROVE  pc[s] \notin {"reading", "writing"}
  <2>1. t \in Writers
    BY <1>6 DEF Writers, In, At
  <2>2. Readers = {} /\ \E w : Writers = {w}
    BY <1>2, <1>4, <1>5, <2>1
  <2>3. s \notin Writers /\ s \notin Readers
    BY <1>6, <2>1, <2>2
  <2> QED
    BY <2>3 DEF Writers, Readers, In, At
<1> QED
  BY <1>0, <1>2, <1>3, <1>4, <1>6 DEF MutualExclusion

\* Type correctness: the counters stay natural numbers, current_writers stays
\* at most 1, the head and the ring hold tickets.
THEOREM TypeCorrect == Spec => []TypeOK
<1>1. IInv => TypeOK
  BY DEF IInv, Core, Shape, Counts, Turns, TypeOK
<1> QED
  BY <1>1, Invariance, PTL

\* Readers and writers exclude each other, for any number of threads and any
\* ring size, however the tickets collide in the ring.
THEOREM Exclusion == Spec => []MutualExclusion
<1>1. IInv => MutualExclusion
  BY HoldersExclude
<1> QED
  BY <1>1, Invariance, PTL

----------------------------------------------------------------------------
(* RWLock implements ReadersWriters.                                       *)

\* How the abstract state moves with the program counter of one thread.
LEMMA AbstractMove ==
    ASSUME IInv, NEW t \in Threads, NEW l, pc' = [pc EXCEPT ![t] = l]
    PROVE  /\ Readers' = IF l = "reading" THEN Readers \cup {t} ELSE Readers \ {t}
           /\ Writers' = IF l = "writing" THEN Writers \cup {t} ELSE Writers \ {t}
           /\ t \in Readers <=> pc[t] = "reading"
           /\ t \in Writers <=> pc[t] = "writing"
BY HoldersExclude DEF Readers, Writers, In, At

\* A thread that waits, or gives up, while it does not hold the lock stutters.
LEMMA StutterStep ==
    ASSUME IInv, NEW t \in Threads, NEW l, pc' = [pc EXCEPT ![t] = l],
           l \notin {"reading", "writing"}, pc[t] \notin {"reading", "writing"}
    PROVE  UNCHANGED <<Readers, Writers>>
<1>1. /\ Readers' = Readers \ {t} /\ t \notin Readers
      /\ Writers' = Writers \ {t} /\ t \notin Writers
  BY AbstractMove, Zenon
<1> QED
  BY <1>1

\* A thread that enters as a reader while no writer is active acquires.
LEMMA ReadStep ==
    ASSUME IInv, NEW t \in Threads, pc' = [pc EXCEPT ![t] = "reading"],
           pc[t] \notin {"reading", "writing"}, rw.current_writers = 0
    PROVE  Abstract!Next
<1>1. Writers = {} /\ Writers' = {} /\ Readers' = Readers \cup {t}
      /\ t \notin Readers /\ t \notin Writers
  BY AbstractMove, HoldersExclude
<1>2. Abstract!AcquireRead(t)
  BY <1>1 DEF Abstract!AcquireRead, Abstract!Holds
<1> QED
  BY <1>2 DEF Abstract!Next

\* A thread that enters as a writer while the lock is free acquires.
LEMMA WriteStep ==
    ASSUME IInv, NEW t \in Threads, pc' = [pc EXCEPT ![t] = "writing"],
           pc[t] \notin {"reading", "writing"},
           rw.current_writers = 0, rw.current_readers = 0
    PROVE  Abstract!Next
<1>1. /\ Writers = {} /\ Readers = {} /\ Writers' = {t} /\ Readers' = {}
      /\ t \notin Readers /\ t \notin Writers
  BY AbstractMove, HoldersExclude
<1>2. Abstract!AcquireWrite(t)
  BY <1>1 DEF Abstract!AcquireWrite, Abstract!Holds
<1> QED
  BY <1>2 DEF Abstract!Next

\* Every step of RWLock is a step of ReadersWriters or leaves it unchanged.
LEMMA StepRefines ==
    ASSUME IInv, [Next]_vars
    PROVE  [Abstract!Next]_Abstract!vars
<1> DEFINE Refines == Abstract!Next \/ UNCHANGED <<Readers, Writers>>
<1> SUFFICES Refines
  BY DEF Abstract!vars
<1>0. rw \in RWState /\ rw.current_writers \in {0, 1} /\ rw.current_readers \in Nat
      /\ rw.qr_waiters \in Nat
  BY DEF IInv, Core, Shape, RWState
<1>1. CASE UNCHANGED vars
  BY <1>1 DEF vars, Readers, Writers, In, At
<1>2. ASSUME NEW t \in Threads, QuickRead(t) \/ QuickReadRetry(t) PROVE Refines
  <2>1. pc[t] \in {"idle", "quick_wait"}
    BY <1>2 DEF QuickRead, QuickReadRetry, Enter, Resume
  <2>2. CASE pc' = [pc EXCEPT ![t] = "quick_wait"]
    BY <2>1, <2>2, StutterStep
  <2>3. CASE pc' = [pc EXCEPT ![t] = "reading"] /\ rw.current_writers = 0
    BY <2>1, <2>3, ReadStep
  <2> QED
    BY <1>0, <1>2, <2>2, <2>3 DEF QuickRead, QuickReadRetry, Wait, Return
<1>3. ASSUME NEW t \in Threads, NEW turn, NEW u, ReadLoop(t, turn, u),
             u.current_writers = rw.current_writers, pc[t] \in {"idle", "read_wait"}
      PROVE  Refines
  <2>0. pc[t] \notin {"reading", "writing"}
    BY <1>3
  <2>1. CASE pc' = [pc EXCEPT ![t] = "read_wait"]
    BY <2>0, <2>1, StutterStep
  <2>2. CASE pc' = [pc EXCEPT ![t] = "idle"]
    BY <2>0, <2>2, StutterStep
  <2>3. CASE pc' = [pc EXCEPT ![t] = "reading"] /\ rw.current_writers = 0
    BY <2>0, <2>3, ReadStep
  <2> QED
    BY <1>0, <1>3, <2>1, <2>2, <2>3 DEF ReadLoop, EnterInBatch, GrantBatch, Wait, Return
<1>4. ASSUME NEW t \in Threads, NEW turn, NEW u, WriteLoop(t, turn, u),
             u.current_writers = rw.current_writers,
             u.current_readers = rw.current_readers, pc[t] \in {"idle", "write_wait"}
      PROVE  Refines
  <2>1. CASE pc' = [pc EXCEPT ![t] = "write_wait"]
    BY <1>4, <2>1, StutterStep
  <2>2. CASE pc' = [pc EXCEPT ![t] = "idle"]
    BY <1>4, <2>2, StutterStep
  <2>3. CASE pc' = [pc EXCEPT ![t] = "writing"] /\ rw.current_writers = 0 /\ rw.current_readers = 0
    BY <1>4, <2>3, WriteStep
  <2> QED
    BY <1>0, <1>4, <2>1, <2>2, <2>3
    DEF WriteLoop, EnterWrite, ReturnLeakingMutex, Wait, Return
<1>5. ASSUME NEW t \in Threads,
             ReadLock(t) \/ ReadLockRetry(t) \/ WriteLock(t) \/ WriteLockRetry(t)
      PROVE  Refines
  <2>1. ASSUME NEW type
        PROVE  /\ join_fifo(rw, rw.next_element, type).current_writers = rw.current_writers
               /\ join_fifo(rw, rw.next_element, type).current_readers = rw.current_readers
    BY <1>0 DEF join_fifo, RWState
  <2>2. CASE ReadLock(t) \/ ReadLockRetry(t)
    BY <1>3, <2>1, <2>2 DEF ReadLock, ReadLockRetry, Enter, Resume
  <2>3. CASE WriteLock(t) \/ WriteLockRetry(t)
    BY <1>4, <2>1, <2>3 DEF WriteLock, WriteLockRetry, Enter, Resume
  <2> QED
    BY <1>5, <2>2, <2>3
<1>6. ASSUME NEW t \in Threads, ReadUnlock(t) PROVE Refines
  <2>1. pc' = [pc EXCEPT ![t] = "idle"] /\ pc[t] = "reading"
    BY <1>6 DEF ReadUnlock, Return
  <2>2. t \in Readers /\ Readers' = Readers \ {t} /\ Writers' = Writers
    <3>1. /\ t \in Readers /\ Readers' = Readers \ {t}
          /\ t \notin Writers /\ Writers' = Writers \ {t}
      BY <2>1, AbstractMove, "idle" # "reading", "idle" # "writing", "reading" # "writing"
    <3> QED
      BY <3>1
  <2>3. Abstract!ReleaseRead(t)
    BY <2>2 DEF Abstract!ReleaseRead
  <2> QED
    BY <2>3 DEF Abstract!Next
<1>7. ASSUME NEW t \in Threads, WriteUnlock(t) PROVE Refines
  <2>1. pc' = [pc EXCEPT ![t] = "idle"] /\ pc[t] = "writing"
    BY <1>7 DEF WriteUnlock, Return
  <2>2. t \in Writers /\ Writers' = Writers \ {t} /\ Readers' = Readers
    <3>1. /\ t \in Writers /\ Writers' = Writers \ {t}
          /\ t \notin Readers /\ Readers' = Readers \ {t}
      BY <2>1, AbstractMove, "idle" # "reading", "idle" # "writing", "reading" # "writing"
    <3> QED
      BY <3>1
  <2>3. Abstract!ReleaseWrite(t)
    BY <2>2 DEF Abstract!ReleaseWrite
  <2> QED
    BY <2>3 DEF Abstract!Next
<1>8. ASSUME NEW t \in Threads, SpuriousWakeup(t) PROVE Refines
  BY <1>8 DEF SpuriousWakeup, Readers, Writers, In, At
<1>9. CASE Destroy
  BY <1>9 DEF Destroy, Readers, Writers, In, At
<1> QED
  BY <1>1, <1>2, <1>5, <1>6, <1>7, <1>8, <1>9 DEF Next

\* The ticket lock implements the abstract readers-writer lock.
THEOREM Refinement == Spec => ImplementsReadersWriters
<1>1. Init => Abstract!Init
  BY DEF Init, Abstract!Init, Readers, Writers, In, At
<1>2. IInv /\ [Next]_vars => [Abstract!Next]_Abstract!vars
  BY StepRefines
<1> QED
  BY <1>1, <1>2, Invariance, PTL DEF Spec, ImplementsReadersWriters, Abstract!Spec

----------------------------------------------------------------------------
(* The queue, as long as no ticket overwrites a slot that is in use.       *)

\* A step that hands out a ticket finds the ticket's slot free.  join_fifo does
\* not look: it relies on the size of the ring (WRITER_RING_SIZE).
NoOverwrite ==
    rw'.next_element # rw.next_element => rw.slot_table[Slot(rw.next_element)] = -1

(* The invariant, in parts that speak of explicit values of the record u,  *)
(* the program counters p, the tickets m and the sleeping threads c.       *)

Waits == {"read_wait", "write_wait"}

\* Exactly the threads that wait in line hold a ticket, no two the same.
Ticketed(p, m) ==
    /\ \A t \in Threads : m[t] # -1 <=> p[t] \in Waits
    /\ \A s, t \in Threads : m[s] = m[t] /\ m[t] # -1 => s = t

\* A waiting thread finds its request in its slot, and no writer is behind
\* the head.
Registered(u, p, m) ==
    \A t \in Threads :
        /\ p[t] = "read_wait"  => slot_matches(u, m[t], REQ_READ)
        /\ p[t] = "write_wait" => /\ slot_matches(u, m[t], REQ_WRITE)
                                  /\ u.oldest_element <= m[t]

\* A slot in use holds the ticket of a thread that waits.
Owned(u, m) ==
    \A i \in Slots : u.slot_table[i] # -1 =>
        Slot(u.slot_table[i]) = i /\ \E t \in Threads : m[t] = u.slot_table[i]

\* From the head on nobody has left the line.
Unbroken(u) == \A k \in u.oldest_element .. u.next_element - 1 : slot_taken(u, k)

Line(u, p, m) == Ticketed(p, m) /\ Registered(u, p, m) /\ Owned(u, m) /\ Unbroken(u)

\* No reader has given up, and the granted batch lies before the head.
Exact(u, p) == /\ Cardinality(At(p, "reading")) = u.current_readers
               /\ u.read_batch_end < u.oldest_element

\* What a thread asleep on the condition variable waits for.
Blocked(u, p, m, t) ==
    /\ p[t] \in Waits \cup {"quick_wait"}
    /\ \/ u.current_writers > 0
       \/ /\ p[t] = "read_wait"
          /\ u.read_batch_end < m[t] /\ m[t] # u.oldest_element
       \/ /\ p[t] = "write_wait"
          /\ \/ u.current_readers > 0 \/ u.qr_waiters > 0
             \/ m[t] # u.oldest_element

Asleep(u, p, m, c) == \A t \in c : Blocked(u, p, m, t)

InOrder(u, p, m, c) == Line(u, p, m) /\ Exact(u, p) /\ Asleep(u, p, m, c)

\* The inductive invariant, under NoOverwrite.
QInv ==
    /\ IInv
    /\ InOrder(rw, pc, my_turn, cv)
    /\ ~leaked /\ destroyed # "EBUSY"

----------------------------------------------------------------------------
(* The searches find what the invariant says is there.                     *)

\* The shape of a record, unfolded.
LEMMA Fields ==
    ASSUME NEW u, Shape(u)
    PROVE  /\ u \in RWState
           /\ u.next_element \in Nat /\ u.oldest_element \in Nat
           /\ u.oldest_element <= u.next_element
           /\ u.current_readers \in Nat /\ u.current_writers \in {0, 1}
           /\ u.qr_waiters \in Nat /\ u.read_batch_end \in Nat \cup {-1}
           /\ u.request_type \in [Slots -> ReqType]
           /\ u.slot_table \in [Slots -> Nat \cup {-1}]
BY DEF Shape, RWState

\* A ticket has a slot.
LEMMA SlotInRing ==
    ASSUME NEW num \in Nat
    PROVE  Slot(num) \in Slots
BY RingAssumption DEF Slot, Slots

\* No slot holds a ticket that was not handed out yet.
LEMMA NextNotTaken ==
    ASSUME NEW u, Shape(u)
    PROVE  ~slot_taken(u, u.next_element)
<1>1. u.next_element \in Nat /\ Slot(u.next_element) \in Slots
  BY Fields, SlotInRing
<1> QED
  BY <1>1, Fields DEF Shape, slot_taken

\* From a place behind which nobody has left, find_valid_head stays there.
LEMMA HeadStays ==
    ASSUME NEW u \in RWState, NEW from \in Nat, from <= u.next_element,
           from < u.next_element => slot_taken(u, from)
    PROVE  find_valid_head(u, from) = from
<1>1. u.next_element \in Nat
  BY DEF RWState
<1> DEFINE IsHead(h) == /\ h = u.next_element \/ slot_taken(u, h)
                        /\ \A k \in from .. h - 1 : ~slot_taken(u, k)
<1>2. from \in from .. u.next_element /\ IsHead(from)
  BY <1>1
<1>3. ASSUME NEW h \in from .. u.next_element, IsHead(h) PROVE h = from
  <2> SUFFICES ASSUME h > from PROVE FALSE
    BY <1>1
  <2>1. from \in from .. h - 1 /\ from < u.next_element
    BY <1>1
  <2> QED
    BY <1>3, <2>1
<1>4. find_valid_head(u, from) = CHOOSE h \in from .. u.next_element : IsHead(h)
  BY DEF find_valid_head
<1> HIDE DEF IsHead
<1> QED
  BY <1>2, <1>3, <1>4

\* The batch that starts at a reader holds that reader, and readers only.
LEMMA BatchRuns ==
    ASSUME NEW u, Shape(u), NEW head \in Nat, head < u.next_element,
           slot_matches(u, head, REQ_READ)
    PROVE  /\ past_batch(u, head) \in head + 1 .. u.next_element
           /\ \A h \in head .. past_batch(u, head) - 1 : slot_matches(u, h, REQ_READ)
<1> DEFINE Ends(e) == /\ \A h \in head .. e - 1 : slot_matches(u, h, REQ_READ)
                      /\ ~slot_matches(u, e, REQ_READ)
           S == {h \in head .. u.next_element : ~slot_matches(u, h, REQ_READ)}
<1>1. u.next_element \in Nat
  BY Fields
<1>2. S \in SUBSET Nat /\ u.next_element \in S
  BY <1>1, NextNotTaken DEF slot_matches
<1>3. PICK x \in S : \A y \in S : x <= y
  BY <1>2, LeastElement
<1>4. x \in head .. u.next_element /\ Ends(x)
  <2> SUFFICES ASSUME NEW h \in head .. x - 1, ~slot_matches(u, h, REQ_READ)
               PROVE  FALSE
    OBVIOUS
  <2>1. x \in Nat /\ x <= u.next_element
    BY <1>1
  <2>2. h \in head .. u.next_element /\ h < x
    BY <2>1, <1>1
  <2>3. h \in S
    BY <2>2
  <2> QED
    BY <2>3, <2>2, <2>1, <1>3
<1>5. past_batch(u, head) = CHOOSE e \in head .. u.next_element : Ends(e)
  BY DEF past_batch
<1> HIDE DEF S, Ends
<1>6. past_batch(u, head) \in head .. u.next_element /\ Ends(past_batch(u, head))
  BY <1>4, <1>5
<1>7. past_batch(u, head) # head
  BY <1>6 DEF Ends
<1> QED
  BY <1>1, <1>6, <1>7 DEF Ends

----------------------------------------------------------------------------
(* How the line moves.                                                     *)

\* Two tickets in use never share a slot: each is in the slot it names.
LEMMA SlotsApart ==
    ASSUME NEW u, NEW j \in Nat, NEW k \in Nat, slot_taken(u, j), slot_taken(u, k), j # k
    PROVE  Slot(j) # Slot(k)
BY DEF slot_taken

\* The record goes from u to v: the entry of "turn" is consumed, the head is
\* moved past it or was past it, and past no waiting writer.
Consumes(u, v, p, m, t) ==
    /\ Shape(v)
    /\ v.next_element = u.next_element
    /\ v.slot_table = [u.slot_table EXCEPT ![Slot(m[t])] = -1]
    /\ v.request_type = [u.request_type EXCEPT ![Slot(m[t])] = REQ_NONE]
    /\ u.oldest_element <= v.oldest_element /\ m[t] < v.oldest_element
    /\ \A w \in Threads \ {t} : p[w] = "write_wait" => v.oldest_element <= m[w]

\* A waiting thread that consumes its entry leaves the line in order.
LEMMA LeaveLine ==
    ASSUME NEW u, NEW v, NEW p, NEW m, NEW q, NEW n, NEW t \in Threads, NEW l,
           Shape(u), Turns(u, p, m), Line(u, p, m), p[t] \in Waits, l \notin Waits,
           l \in Labels, Becomes(p, q, t, l, Labels), Becomes(m, n, t, -1, Nat \cup {-1}),
           Consumes(u, v, p, m, t)
    PROVE  Line(v, q, n)
<1>1. /\ m \in [Threads -> Nat \cup {-1}] /\ m[t] \in Nat /\ Slot(m[t]) \in Slots
      /\ q[t] = l /\ \A s \in Threads \ {t} : q[s] = p[s]
      /\ n[t] = -1 /\ \A s \in Threads \ {t} : n[s] = m[s]
  BY SlotInRing DEF Turns, Becomes, Waits
<1>2. /\ u.slot_table \in [Slots -> Nat \cup {-1}] /\ u.request_type \in [Slots -> ReqType]
      /\ u.oldest_element \in Nat /\ v.oldest_element \in Nat /\ u.next_element \in Nat
  BY Fields DEF Consumes
<1>3. Ticketed(q, n)
  BY <1>1 DEF Line, Ticketed
<1>4. slot_taken(u, m[t])
  BY DEF Line, Registered, slot_matches, Waits
<1>5. ASSUME NEW k \in Nat, k # m[t], slot_taken(u, k)
      PROVE  /\ slot_taken(v, k)
             /\ get_request_type(v, k) = get_request_type(u, k)
  <2>1. Slot(k) # Slot(m[t]) /\ Slot(k) \in Slots
    BY <1>1, <1>4, <1>5, SlotsApart, SlotInRing
  <2> QED
    BY <1>1, <1>2, <1>5, <2>1 DEF slot_taken, get_request_type, Consumes
<1>6. Registered(v, q, n)
  <2> SUFFICES ASSUME NEW s \in Threads, q[s] \in Waits
               PROVE  /\ q[s] = "read_wait" => slot_matches(v, n[s], REQ_READ)
                      /\ q[s] = "write_wait" => /\ slot_matches(v, n[s], REQ_WRITE)
                                                /\ v.oldest_element <= n[s]
    BY DEF Registered, Waits
  <2>1. s # t /\ q[s] = p[s] /\ n[s] = m[s]
    BY <1>1
  <2>2. m[s] \in Nat /\ m[s] # m[t] /\ slot_taken(u, m[s])
    BY <1>1, <2>1 DEF Turns, Line, Ticketed, Registered, slot_matches, Waits
  <2>3. slot_taken(v, m[s]) /\ get_request_type(v, m[s]) = get_request_type(u, m[s])
    BY <1>5, <2>2
  <2> QED
    BY <2>1, <2>3 DEF Line, Registered, slot_matches, Consumes
<1>7. Owned(v, n)
  <2> SUFFICES ASSUME NEW i \in Slots, v.slot_table[i] # -1
               PROVE  /\ Slot(v.slot_table[i]) = i
                      /\ \E s \in Threads : n[s] = v.slot_table[i]
    BY DEF Owned
  <2>1. i # Slot(m[t]) /\ v.slot_table[i] = u.slot_table[i]
    BY <1>1, <1>2 DEF Consumes
  <2>2. PICK s \in Threads : m[s] = u.slot_table[i]
    BY <2>1 DEF Line, Owned
  <2>3. Slot(u.slot_table[i]) = i
    BY <2>1 DEF Line, Owned
  <2>4. s # t
    BY <2>1, <2>2, <2>3
  <2> QED
    BY <1>1, <2>1, <2>2, <2>3, <2>4
<1>8. Unbroken(v)
  <2> SUFFICES ASSUME NEW k \in v.oldest_element .. v.next_element - 1
               PROVE  slot_taken(v, k)
    BY DEF Unbroken
  <2>1. k \in Nat /\ k # m[t] /\ k \in u.oldest_element .. u.next_element - 1
    BY <1>1, <1>2 DEF Consumes
  <2> QED
    BY <1>5, <2>1 DEF Line, Unbroken
<1> QED
  BY <1>3, <1>6, <1>7, <1>8 DEF Line

\* A thread that takes a ticket whose slot is free joins at the end of the line.
LEMMA JoinLine ==
    ASSUME NEW u, NEW p, NEW m, NEW q, NEW n, NEW t \in Threads,
           NEW l \in Waits, NEW type,
           Shape(u), Turns(u, p, m), Line(u, p, m), p[t] \notin Waits,
           type = IF l = "read_wait" THEN REQ_READ ELSE REQ_WRITE,
           u.slot_table[Slot(u.next_element)] = -1,
           Becomes(p, q, t, l, Labels), Becomes(m, n, t, u.next_element, Nat \cup {-1})
    PROVE  Line(join_fifo(u, u.next_element, type), q, n)
<1> DEFINE num == u.next_element
           j   == join_fifo(u, num, type)
<1>1. /\ m \in [Threads -> Nat \cup {-1}] /\ num \in Nat /\ Slot(num) \in Slots
      /\ q[t] = l /\ \A s \in Threads \ {t} : q[s] = p[s]
      /\ n[t] = num /\ \A s \in Threads \ {t} : n[s] = m[s]
      /\ \A s \in Threads : m[s] < num
  BY Fields, SlotInRing DEF Turns, Becomes
<1>2. /\ u.slot_table \in [Slots -> Nat \cup {-1}] /\ u.request_type \in [Slots -> ReqType]
      /\ u.oldest_element \in Nat /\ u.oldest_element <= num
  BY Fields
<1>3. /\ j.next_element = num + 1 /\ j.oldest_element = u.oldest_element
      /\ j.slot_table = [u.slot_table EXCEPT ![Slot(num)] = num]
      /\ j.request_type = [u.request_type EXCEPT ![Slot(num)] = type]
  BY Fields DEF join_fifo, RWState
<1> HIDE DEF j, num
<1>4. Ticketed(q, n)
  BY <1>1 DEF Line, Ticketed
<1>5. slot_taken(j, num) /\ get_request_type(j, num) = type
  BY <1>1, <1>2, <1>3 DEF slot_taken, get_request_type
<1>6. ASSUME NEW k \in Nat, slot_taken(u, k)
      PROVE  /\ slot_taken(j, k)
             /\ get_request_type(j, k) = get_request_type(u, k)
  <2>1. Slot(k) # Slot(num) /\ Slot(k) \in Slots
    BY <1>6, SlotInRing DEF slot_taken, num
  <2> QED
    BY <1>1, <1>2, <1>3, <1>6, <2>1 DEF slot_taken, get_request_type
<1>7. Registered(j, q, n)
  <2> SUFFICES ASSUME NEW s \in Threads, q[s] \in Waits
               PROVE  /\ q[s] = "read_wait" => slot_matches(j, n[s], REQ_READ)
                      /\ q[s] = "write_wait" => /\ slot_matches(j, n[s], REQ_WRITE)
                                                /\ j.oldest_element <= n[s]
    BY DEF Registered, Waits
  <2>1. CASE s = t
    BY <1>1, <1>2, <1>3, <1>5, <2>1 DEF slot_matches, Waits
  <2>2. CASE s # t
    <3>1. q[s] = p[s] /\ n[s] = m[s]
      BY <1>1, <2>2
    <3>2. m[s] \in Nat /\ slot_taken(u, m[s])
      BY <1>1, <3>1 DEF Turns, Line, Registered, slot_matches, Waits
    <3>3. slot_taken(j, m[s]) /\ get_request_type(j, m[s]) = get_request_type(u, m[s])
      BY <1>6, <3>2
    <3> QED
      BY <1>3, <3>1, <3>3 DEF Line, Registered, slot_matches
  <2> QED
    BY <2>1, <2>2
<1>8. Owned(j, n)
  <2> SUFFICES ASSUME NEW i \in Slots, j.slot_table[i] # -1
               PROVE  /\ Slot(j.slot_table[i]) = i
                      /\ \E s \in Threads : n[s] = j.slot_table[i]
    BY DEF Owned
  <2>1. CASE i = Slot(num)
    BY <1>1, <1>2, <1>3, <2>1
  <2>2. CASE i # Slot(num)
    <3>1. j.slot_table[i] = u.slot_table[i]
      BY <1>2, <1>3, <2>2
    <3>2. PICK s \in Threads : m[s] = u.slot_table[i]
      BY <3>1 DEF Line, Owned
    <3>3. Slot(u.slot_table[i]) = i
      BY <3>1 DEF Line, Owned
    <3>4. s # t
      BY <3>1, <3>2 DEF Line, Ticketed
    <3> QED
      BY <1>1, <3>1, <3>2, <3>3, <3>4
  <2> QED
    BY <2>1, <2>2
<1>9. Unbroken(j)
  <2> SUFFICES ASSUME NEW k \in j.oldest_element .. j.next_element - 1
               PROVE  slot_taken(j, k)
    BY DEF Unbroken
  <2>1. k \in Nat /\ (k = num \/ k \in u.oldest_element .. num - 1)
    BY <1>1, <1>2, <1>3
  <2> QED
    BY <1>5, <1>6, <2>1 DEF Line, Unbroken, num
<1> QED
  BY <1>4, <1>7, <1>8, <1>9 DEF Line, j, num

\* The count of readers stays exact when it follows the thread that moves.
LEMMA CountReaders ==
    ASSUME NEW u, NEW v, NEW p \in [Threads -> Labels], NEW q, NEW t \in Threads,
           NEW l \in Labels, Shape(u), Exact(u, p), Becomes(p, q, t, l, Labels),
           v.current_readers = u.current_readers + One(l, "reading") - One(p[t], "reading"),
           v.read_batch_end < v.oldest_element
    PROVE  Exact(v, q)
<1>1. /\ q \in [Threads -> Labels] /\ q[t] = l
      /\ \A s \in Threads \ {t} : q[s] = p[s]
  BY DEF Becomes
<1>2. "reading" \in Labels
  BY DEF Labels
<1>3. Cardinality(At(q, "reading")) =
        Cardinality(At(p, "reading")) + One(q[t], "reading") - One(p[t], "reading")
  BY <1>1, <1>2, MoveCount
<1> QED
  BY <1>1, <1>3 DEF Exact

\* What a sleeping thread waits for stays away: a writer is active, or neither
\* the batch nor the head moved and nobody left.
NoChance(u, v) ==
    \/ v.current_writers > 0
    \/ /\ v.read_batch_end = u.read_batch_end /\ v.oldest_element = u.oldest_element
       /\ u.current_writers > 0 => v.current_writers > 0
       /\ u.current_readers > 0 => v.current_readers > 0
       /\ u.qr_waiters > 0 => v.qr_waiters > 0

\* The threads that sleep and do not move stay blocked.
LEMMA OthersSleep ==
    ASSUME NEW u, NEW v, NEW p, NEW m, NEW c \in SUBSET Threads, NEW q, NEW n,
           NEW t \in Threads, NEW l, NEW x, t \notin c,
           Asleep(u, p, m, c), NoChance(u, v),
           Becomes(p, q, t, l, Labels), Becomes(m, n, t, x, Nat \cup {-1})
    PROVE  Asleep(v, q, n, c)
<1> SUFFICES ASSUME NEW s \in c PROVE Blocked(v, q, n, s)
  BY DEF Asleep
<1>1. q[s] = p[s] /\ n[s] = m[s]
  BY DEF Becomes
<1>2. Blocked(u, p, m, s)
  BY DEF Asleep
<1> QED
  BY <1>1, <1>2 DEF Blocked, NoChance

\* A waiting thread that blocks changes nothing but the set of sleepers.
LEMMA BlockKeepsOrder ==
    ASSUME NEW t, NEW u, NEW p, NEW m, NEW c, InOrder(u, p, m, c), Blocked(u, p, m, t)
    PROVE  InOrder(u, p, m, c \cup {t})
BY DEF InOrder, Asleep

\* A waiting thread that enters, and wakes everybody or leaves the others no
\* chance.
LEMMA EnterKeepsOrder ==
    ASSUME NEW t \in Threads, NEW u, NEW v, NEW p, NEW m, NEW c \in SUBSET Threads,
           NEW q, NEW n, NEW d, NEW l \in Labels,
           Shape(u), Turns(u, p, m), InOrder(u, p, m, c), p \in [Threads -> Labels],
           p[t] \in Waits, l \in {"reading", "writing"}, t \notin c,
           Becomes(p, q, t, l, Labels), Becomes(m, n, t, -1, Nat \cup {-1}),
           Consumes(u, v, p, m, t),
           v.current_readers = u.current_readers + One(l, "reading"),
           v.read_batch_end < v.oldest_element,
           d = {} \/ (d = c /\ NoChance(u, v))
    PROVE  InOrder(v, q, n, d)
<1>1. Line(v, q, n)
  BY LeaveLine DEF InOrder, Waits
<1>2. Exact(v, q)
  <2>1. One(p[t], "reading") = 0 /\ One(l, "reading") \in {0, 1}
    BY DEF One, Waits
  <2>2. v.current_readers = u.current_readers + One(l, "reading") - One(p[t], "reading")
    BY <2>1, Fields
  <2> QED
    BY <2>2, CountReaders DEF InOrder
<1>3. Asleep(v, q, n, d)
  <2>1. CASE d = {}
    BY <2>1 DEF Asleep
  <2>2. CASE d = c /\ NoChance(u, v)
    BY <2>2, OthersSleep DEF InOrder
  <2> QED
    BY <2>1, <2>2
<1> QED
  BY <1>1, <1>2, <1>3 DEF InOrder

----------------------------------------------------------------------------
(* One turn of each waiting loop.  The thread is looked at as it stands in *)
(* the line: with label l and its ticket, in the record u its join left.   *)

Poised(t, l, turn, u, p, m) ==
    /\ l \in Waits /\ t \notin cv /\ cv \in SUBSET Threads
    /\ turn \in Nat /\ turn < u.next_element
    /\ pc \in [Threads -> Labels] /\ my_turn \in [Threads -> Nat \cup {-1}]
    /\ Becomes(pc, p, t, l, Labels) /\ Becomes(my_turn, m, t, turn, Nat \cup {-1})
    /\ Shape(u) /\ Turns(u, p, m) /\ InOrder(u, p, m, cv)

InOrderNext == InOrder(rw', pc', my_turn', cv')

\* What a turn of a loop does: it leaves the line in order; the thread waits on
\* with the head where it was, or enters with a ticket not behind the head; a
\* writer enters from the head and moves it to the next ticket.
Outcome(t, l, turn, u) ==
    /\ InOrderNext /\ leaked' = leaked
    /\ \/ pc'[t] = l /\ rw'.oldest_element = u.oldest_element
       \/ pc'[t] = "reading" /\ l = "read_wait" /\ turn <= u.oldest_element
       \/ /\ pc'[t] = "writing" /\ turn = u.oldest_element
          /\ rw'.oldest_element = turn + 1

\* What the loops see of the line: the ticket is in its slot with its type, and
\* the head is where oldest_element says.
LEMMA PoisedView ==
    ASSUME NEW t \in Threads, NEW l, NEW turn, NEW u, NEW p, NEW m,
           Poised(t, l, turn, u, p, m)
    PROVE  /\ p \in [Threads -> Labels] /\ p[t] = l /\ m[t] = turn
           /\ slot_taken(u, turn)
           /\ l = "read_wait" => slot_matches(u, turn, REQ_READ)
           /\ l = "write_wait" =>
                /\ slot_matches(u, turn, REQ_WRITE)
                /\ u.oldest_element <= turn /\ u.oldest_element < u.next_element
           /\ find_valid_head(u, u.oldest_element) = u.oldest_element
           /\ u.read_batch_end < u.oldest_element
           /\ \A w \in Threads : p[w] = "write_wait" => u.oldest_element <= m[w]
           /\ u \in RWState
<1>1. /\ p \in [Threads -> Labels] /\ p[t] = l /\ m[t] = turn /\ l \in Waits
  BY DEF Poised, Becomes
<1>2. /\ u.next_element \in Nat /\ u.oldest_element \in Nat /\ turn \in Nat
      /\ u.oldest_element <= u.next_element /\ turn < u.next_element /\ u \in RWState
  BY Fields DEF Poised
<1>3. Line(u, p, m) /\ Exact(u, p)
  BY DEF Poised, InOrder
<1>4. u.oldest_element < u.next_element => slot_taken(u, u.oldest_element)
  BY <1>2, <1>3 DEF Line, Unbroken
<1>5. find_valid_head(u, u.oldest_element) = u.oldest_element
  BY <1>2, <1>4, HeadStays
<1> QED
  BY <1>1, <1>2, <1>3, <1>5 DEF Line, Registered, Exact, Waits, slot_matches

\* A loop that goes to sleep leaves the line in order when the thread has
\* something to wait for.
LEMMA WaitKeepsOrder ==
    ASSUME NEW t \in Threads, NEW l, NEW turn, NEW u, NEW p, NEW m,
           Poised(t, l, turn, u, p, m), Blocked(u, p, m, t), Wait(t, l, turn, u)
    PROVE  Outcome(t, l, turn, u)
<1>1. rw' = u /\ cv' = cv \cup {t} /\ leaked' = leaked
  BY DEF Wait
<1>2. pc' = p /\ my_turn' = m
  BY DEF Wait, Poised, Becomes
<1>3. InOrder(u, p, m, cv \cup {t}) /\ p[t] = l
  BY BlockKeepsOrder DEF Poised, Becomes
<1> QED
  BY <1>1, <1>2, <1>3 DEF InOrderNext, Outcome

\* A return wakes everybody, or leaves those it does not wake no chance.
WakesEnough(woken, u, v) == woken = cv \/ (woken = {} /\ NoChance(u, v))

\* A loop that enters leaves the line in order.
LEMMA ReturnKeepsOrder ==
    ASSUME NEW t \in Threads, NEW l, NEW turn, NEW u, NEW p, NEW m,
           Poised(t, l, turn, u, p, m), NEW k \in {"reading", "writing"},
           NEW v, NEW woken, Return(t, k, v, woken),
           Consumes(u, v, p, m, t),
           v.current_readers = u.current_readers + One(k, "reading"),
           v.read_batch_end < v.oldest_element,
           WakesEnough(woken, u, v)
    PROVE  InOrderNext /\ leaked' = leaked /\ pc'[t] = k /\ rw' = v
<1>1. rw' = v /\ cv' = cv \ woken /\ leaked' = leaked
  BY DEF Return
<1>2. /\ Becomes(p, pc', t, k, Labels)
      /\ Becomes(m, my_turn', t, -1, Nat \cup {-1})
      /\ p \in [Threads -> Labels] /\ p[t] \in Waits /\ k \in Labels
  BY DEF Return, Poised, Becomes, Labels
<1>3. cv' = {} \/ (cv' = cv /\ NoChance(u, v))
  BY <1>1 DEF WakesEnough
<1>4. InOrder(v, pc', my_turn', cv')
  BY <1>2, <1>3, EnterKeepsOrder DEF Poised
<1> QED
  BY <1>1, <1>2, <1>4 DEF InOrderNext, Becomes

\* rwlock_read_lock's loop.
LEMMA ReadLoopKeepsOrder ==
    ASSUME NEW t \in Threads, NEW turn, NEW u, NEW p, NEW m,
           Poised(t, "read_wait", turn, u, p, m), ReadLoop(t, turn, u)
    PROVE  Outcome(t, "read_wait", turn, u)
<1> DEFINE l == "read_wait"
           in == [u EXCEPT !.current_readers = @ + 1]
<1>0. /\ u \in RWState /\ u.next_element \in Nat /\ u.oldest_element \in Nat
      /\ u.oldest_element <= u.next_element
      /\ u.current_readers \in Nat /\ u.current_writers \in {0, 1} /\ u.qr_waiters \in Nat
      /\ u.read_batch_end \in Nat \cup {-1}
      /\ u.slot_table \in [Slots -> Nat \cup {-1}] /\ u.request_type \in [Slots -> ReqType]
      /\ turn \in Nat /\ turn < u.next_element /\ Slot(turn) \in Slots /\ Shape(u)
  BY Fields, SlotInRing DEF Poised
<1>1. /\ p \in [Threads -> Labels] /\ p[t] = l /\ m[t] = turn
      /\ slot_matches(u, turn, REQ_READ) /\ slot_taken(u, turn)
      /\ find_valid_head(u, u.oldest_element) = u.oldest_element
      /\ u.read_batch_end < u.oldest_element
      /\ \A w \in Threads : p[w] = "write_wait" => u.oldest_element <= m[w]
  BY PoisedView
<1>2. CASE u.current_writers > 0
  <2>1. Wait(t, l, turn, u)
    BY <1>2 DEF ReadLoop
  <2>2. Blocked(u, p, m, t)
    BY <1>1, <1>2 DEF Blocked, Waits
  <2> QED
    BY <2>1, <2>2, WaitKeepsOrder
<1>3. CASE u.current_writers = 0 /\ turn <= u.read_batch_end
  <2> DEFINE v == consume_entry(in, turn)
  <2>1. Return(t, "reading", v, {})
    <3>1. EnterInBatch(t, turn, u)
      BY <1>0, <1>3 DEF ReadLoop
    <3> QED
      BY <1>1, <3>1 DEF EnterInBatch
  <2>2. /\ Shape(v) /\ v.next_element = u.next_element
        /\ v.slot_table = [u.slot_table EXCEPT ![Slot(turn)] = -1]
        /\ v.request_type = [u.request_type EXCEPT ![Slot(turn)] = REQ_NONE]
        /\ v.oldest_element = u.oldest_element /\ v.read_batch_end = u.read_batch_end
        /\ v.current_readers = u.current_readers + 1
        /\ v.current_writers = u.current_writers /\ v.qr_waiters = u.qr_waiters
    <3>1. Shape(in)
      BY <1>0 DEF Shape, RWState
    <3>2. Shape(v)
      BY <1>0, <3>1, ConsumeKeepsShape
    <3> QED
      BY <1>0, <3>2 DEF consume_entry, RWState
  <2> HIDE DEF v
  <2>3. Consumes(u, v, p, m, t)
    BY <1>0, <1>1, <1>3, <2>2 DEF Consumes
  <2>4. WakesEnough({}, u, v)
    BY <1>0, <2>2 DEF WakesEnough, NoChance
  <2>5. v.current_readers = u.current_readers + One("reading", "reading")
    BY <2>2 DEF One
  <2>6. v.read_batch_end < v.oldest_element
    BY <1>1, <2>2
  <2>7. InOrderNext /\ leaked' = leaked /\ pc'[t] = "reading"
    BY <2>1, <2>3, <2>4, <2>5, <2>6, ReturnKeepsOrder
  <2>8. turn <= u.oldest_element
    BY <1>0, <1>1, <1>3
  <2> QED
    BY <2>7, <2>8 DEF Outcome
<1>4. CASE /\ u.current_writers = 0 /\ ~(turn <= u.read_batch_end)
           /\ turn = u.oldest_element
  <2> DEFINE end   == past_batch(u, turn)
             grant == [u EXCEPT !.read_batch_end = end - 1,
                                !.oldest_element = end,
                                !.current_readers = @ + 1]
             v == consume_entry(grant, turn)
  <2>1. Return(t, "reading", v, cv)
    <3>1. GrantBatch(t, turn, u)
      BY <1>0, <1>1, <1>4 DEF ReadLoop, slot_matches
    <3> QED
      BY <3>1 DEF GrantBatch
  <2>2. /\ end \in turn + 1 .. u.next_element
        /\ \A h \in turn .. end - 1 : slot_matches(u, h, REQ_READ)
    BY <1>0, <1>1, BatchRuns
  <2> HIDE DEF end
  <2>3. /\ Shape(v) /\ v.next_element = u.next_element
        /\ v.slot_table = [u.slot_table EXCEPT ![Slot(turn)] = -1]
        /\ v.request_type = [u.request_type EXCEPT ![Slot(turn)] = REQ_NONE]
        /\ v.oldest_element = end /\ v.read_batch_end = end - 1
        /\ v.current_readers = u.current_readers + 1
    <3>1. Shape(grant)
      <4>1. /\ end \in Nat /\ end - 1 \in Nat \cup {-1} /\ end <= u.next_element
            /\ u.current_readers + 1 \in Nat
        BY <1>0, <2>2
      <4>2. /\ grant.next_element = u.next_element /\ grant.oldest_element = end
            /\ grant.slot_table = u.slot_table
        BY <1>0 DEF RWState
      <4>3. grant \in RWState
        BY <1>0, <4>1 DEF RWState
      <4> QED
        BY <1>0, <4>1, <4>2, <4>3 DEF Shape
    <3>2. Shape(v)
      BY <1>0, <3>1, ConsumeKeepsShape
    <3> QED
      BY <1>0, <3>2 DEF consume_entry, RWState
  <2> HIDE DEF v, grant
  <2>4. ASSUME NEW w \in Threads \ {t}, p[w] = "write_wait"
        PROVE  v.oldest_element <= m[w]
    <3>1. /\ slot_matches(u, m[w], REQ_WRITE) /\ u.oldest_element <= m[w] /\ m[w] \in Nat
      BY <2>4 DEF Poised, InOrder, Line, Registered, Turns
    <3>2. m[w] \notin turn .. end - 1
      BY <2>2, <3>1 DEF slot_matches, REQ_READ, REQ_WRITE
    <3> QED
      BY <1>0, <1>4, <2>2, <2>3, <3>1, <3>2
  <2>5. Consumes(u, v, p, m, t)
    <3>1. u.oldest_element <= v.oldest_element /\ m[t] < v.oldest_element
      BY <1>0, <1>1, <1>4, <2>2, <2>3
    <3> QED
      BY <1>1, <2>3, <2>4, <3>1 DEF Consumes
  <2>6. v.current_readers = u.current_readers + One("reading", "reading")
    BY <2>3 DEF One
  <2>7. v.read_batch_end < v.oldest_element
    BY <1>0, <2>2, <2>3
  <2>8. WakesEnough(cv, u, v)
    BY DEF WakesEnough
  <2>9. InOrderNext /\ leaked' = leaked /\ pc'[t] = "reading"
    BY <2>1, <2>5, <2>6, <2>7, <2>8, ReturnKeepsOrder
  <2> QED
    BY <1>0, <1>4, <2>9 DEF Outcome
<1>5. CASE /\ u.current_writers = 0 /\ ~(turn <= u.read_batch_end)
           /\ turn # u.oldest_element
  <2>1. Wait(t, l, turn, u)
    <3>1. u = [u EXCEPT !.oldest_element = u.oldest_element]
      BY <1>0 DEF RWState
    <3> QED
      BY <1>0, <1>1, <1>5, <3>1 DEF ReadLoop
  <2>2. Blocked(u, p, m, t)
    BY <1>0, <1>1, <1>5 DEF Blocked, Waits
  <2> QED
    BY <2>1, <2>2, WaitKeepsOrder
<1> QED
  BY <1>0, <1>2, <1>3, <1>4, <1>5

\* rwlock_write_lock's loop: in particular it never finds the line empty, so it
\* never returns with the mutex locked.
LEMMA WriteLoopKeepsOrder ==
    ASSUME NEW t \in Threads, NEW turn, NEW u, NEW p, NEW m,
           Poised(t, "write_wait", turn, u, p, m), WriteLoop(t, turn, u)
    PROVE  Outcome(t, "write_wait", turn, u)
<1> DEFINE l == "write_wait"
           busy == u.current_readers > 0 \/ u.current_writers > 0 \/ u.qr_waiters > 0
<1>0. /\ u \in RWState /\ u.next_element \in Nat /\ u.oldest_element \in Nat
      /\ u.oldest_element <= u.next_element
      /\ u.current_readers \in Nat /\ u.current_writers \in {0, 1} /\ u.qr_waiters \in Nat
      /\ u.read_batch_end \in Nat \cup {-1}
      /\ u.slot_table \in [Slots -> Nat \cup {-1}] /\ u.request_type \in [Slots -> ReqType]
      /\ turn \in Nat /\ turn < u.next_element /\ Slot(turn) \in Slots /\ Shape(u)
  BY Fields, SlotInRing DEF Poised
<1>1. /\ p \in [Threads -> Labels] /\ p[t] = l /\ m[t] = turn
      /\ slot_matches(u, turn, REQ_WRITE) /\ slot_taken(u, turn)
      /\ u.oldest_element <= turn /\ u.oldest_element < u.next_element
      /\ find_valid_head(u, u.oldest_element) = u.oldest_element
      /\ u.read_batch_end < u.oldest_element
      /\ \A w \in Threads : p[w] = "write_wait" => u.oldest_element <= m[w]
  BY PoisedView
<1>2. [u EXCEPT !.oldest_element = u.oldest_element] = u
  BY <1>0 DEF RWState
<1>3. CASE busy
  <2>1. Wait(t, l, turn, u)
    BY <1>3 DEF WriteLoop
  <2>2. Blocked(u, p, m, t)
    BY <1>0, <1>1, <1>3 DEF Blocked, Waits
  <2> QED
    BY <2>1, <2>2, WaitKeepsOrder
<1>4. CASE ~busy /\ turn = u.oldest_element
  <2> DEFINE won  == [u EXCEPT !.current_writers = 1]
             out  == consume_entry(won, turn)
             next == find_valid_head(out, turn + 1)
             v    == [out EXCEPT !.oldest_element = next, !.read_batch_end = -1]
  <2>1. Return(t, "writing", v, {})
    <3>1. EnterWrite(t, turn, u)
      BY <1>0, <1>1, <1>2, <1>4 DEF WriteLoop
    <3> QED
      BY <3>1 DEF EnterWrite
  <2>2. /\ Shape(out) /\ out.next_element = u.next_element
        /\ out.slot_table = [u.slot_table EXCEPT ![Slot(turn)] = -1]
        /\ out.request_type = [u.request_type EXCEPT ![Slot(turn)] = REQ_NONE]
        /\ out.oldest_element = u.oldest_element
        /\ out.current_readers = u.current_readers /\ out.current_writers = 1
        /\ out.qr_waiters = u.qr_waiters
    <3>1. Shape(won)
      BY <1>0 DEF Shape, RWState
    <3>2. Shape(out)
      BY <1>0, <3>1, ConsumeKeepsShape
    <3> QED
      BY <1>0, <3>2 DEF consume_entry, RWState
  <2> HIDE DEF out
  <2>3. next = turn + 1
    <3>1. turn + 1 \in Nat /\ turn + 1 <= out.next_element /\ out \in RWState
      BY <1>0, <2>2 DEF Shape
    <3>2. ASSUME turn + 1 < out.next_element PROVE slot_taken(out, turn + 1)
      <4>1. slot_taken(u, turn + 1)
        <5>1. turn + 1 \in u.oldest_element .. u.next_element - 1
          BY <1>0, <1>4, <2>2, <3>2
        <5> QED
          BY <5>1 DEF Poised, InOrder, Line, Unbroken
      <4>2. Slot(turn + 1) # Slot(turn) /\ Slot(turn + 1) \in Slots
        <5>1. turn + 1 # turn
          BY <1>0
        <5> QED
          BY <1>0, <1>1, <3>1, <4>1, <5>1, SlotsApart, SlotInRing
      <4> QED
        BY <1>0, <2>2, <4>1, <4>2 DEF slot_taken
    <3> QED
      BY <3>1, <3>2, HeadStays
  <2> HIDE DEF next
  <2>4. /\ Shape(v) /\ v.next_element = u.next_element
        /\ v.slot_table = [u.slot_table EXCEPT ![Slot(turn)] = -1]
        /\ v.request_type = [u.request_type EXCEPT ![Slot(turn)] = REQ_NONE]
        /\ v.oldest_element = turn + 1 /\ v.read_batch_end = -1
        /\ v.current_readers = u.current_readers /\ v.current_writers = 1
    <3>1. turn + 1 \in Nat /\ turn + 1 <= u.next_element
      BY <1>0
    <3> QED
      BY <2>2, <2>3, <3>1 DEF Shape, RWState
  <2> HIDE DEF v
  <2>5. ASSUME NEW w \in Threads \ {t}, p[w] = "write_wait"
        PROVE  v.oldest_element <= m[w]
    <3>1. m[w] \in Nat /\ u.oldest_element <= m[w] /\ m[w] # m[t]
      BY <1>0, <1>1, <2>5 DEF Poised, InOrder, Line, Ticketed, Turns
    <3> QED
      BY <1>0, <1>1, <1>4, <2>4, <3>1
  <2>6. Consumes(u, v, p, m, t)
    <3>1. u.oldest_element <= v.oldest_element /\ m[t] < v.oldest_element
      BY <1>0, <1>1, <1>4, <2>4
    <3> QED
      BY <1>1, <2>4, <2>5, <3>1 DEF Consumes
  <2>7. WakesEnough({}, u, v)
    BY <2>4 DEF WakesEnough, NoChance
  <2>8. v.current_readers = u.current_readers + One("writing", "reading")
    BY <1>0, <2>4 DEF One
  <2>9. v.read_batch_end < v.oldest_element
    BY <1>0, <2>4
  <2>10. InOrderNext /\ leaked' = leaked /\ pc'[t] = "writing" /\ rw' = v
    BY <2>1, <2>6, <2>7, <2>8, <2>9, ReturnKeepsOrder
  <2> QED
    BY <1>4, <2>4, <2>10 DEF Outcome
<1>5. CASE ~busy /\ turn # u.oldest_element
  <2>1. Wait(t, l, turn, u)
    BY <1>0, <1>1, <1>2, <1>5 DEF WriteLoop
  <2>2. Blocked(u, p, m, t)
    BY <1>0, <1>1, <1>5 DEF Blocked, Waits
  <2> QED
    BY <2>1, <2>2, WaitKeepsOrder
<1> QED
  BY <1>3, <1>4, <1>5

----------------------------------------------------------------------------
(* The steps of the lock.                                                  *)

\* A loop hands out no ticket itself.
LEMMA LoopsKeepTickets ==
    ASSUME NEW t, NEW turn, NEW u \in RWState,
           ReadLoop(t, turn, u) \/ WriteLoop(t, turn, u)
    PROVE  rw'.next_element = u.next_element
<1>1. ASSUME NEW v \in {u, [u EXCEPT !.oldest_element = find_valid_head(u, u.oldest_element)]}
      PROVE  v.next_element = u.next_element
  BY DEF RWState
<1>2. ASSUME EnterInBatch(t, turn, u) \/ GrantBatch(t, turn, u)
      PROVE  rw'.next_element = u.next_element
  BY <1>2 DEF EnterInBatch, GrantBatch, Return, consume_entry, RWState
<1>3. ASSUME NEW v, EnterWrite(t, turn, v)
      PROVE  rw'.next_element = v.next_element
  BY <1>3 DEF EnterWrite, Return, consume_entry, RWState
<1>4. CASE ReadLoop(t, turn, u)
  BY <1>1, <1>2, <1>4 DEF ReadLoop, Wait
<1>5. CASE WriteLoop(t, turn, u)
  BY <1>1, <1>3, <1>5 DEF WriteLoop, Wait, ReturnLeakingMutex
<1> QED
  BY <1>4, <1>5

\* The parts of the invariant, unfolded.
LEMMA Parts ==
    ASSUME QInv
    PROVE  /\ Shape(rw) /\ Turns(rw, pc, my_turn) /\ InOrder(rw, pc, my_turn, cv)
           /\ pc \in [Threads -> Labels] /\ my_turn \in [Threads -> Nat \cup {-1}]
           /\ cv \in SUBSET Threads
           /\ rw.next_element \in Nat
           /\ \A t \in Threads : pc[t] \notin Waits \cup {"quick_wait"} => t \notin cv
           /\ \A t \in Threads : my_turn[t] # -1 <=> pc[t] \in Waits
<1>1. Shape(rw) /\ Turns(rw, pc, my_turn) /\ Counts(rw, pc) /\ cv \in SUBSET Threads
  BY DEF QInv, IInv, Core
<1>2. InOrder(rw, pc, my_turn, cv)
  BY DEF QInv
<1> QED
  BY <1>1, <1>2, Fields DEF Counts, Turns, InOrder, Asleep, Blocked, Line, Ticketed

\* A thread that looks again stands in the line with its ticket.
LEMMA PoisedAgain ==
    ASSUME QInv, NEW t \in Threads, NEW l \in Waits, pc[t] = l, t \notin cv
    PROVE  Poised(t, l, my_turn[t], rw, pc, my_turn)
<1>1. my_turn[t] \in Nat /\ my_turn[t] < rw.next_element
  BY Parts DEF Turns, Waits
<1>2. /\ Becomes(pc, pc, t, l, Labels)
      /\ Becomes(my_turn, my_turn, t, my_turn[t], Nat \cup {-1})
  BY Parts DEF Becomes
<1> QED
  BY <1>1, <1>2, Parts DEF Poised

\* A thread that takes a ticket stands at the end of the line.
LEMMA PoisedByJoin ==
    ASSUME QInv, NEW t \in Threads, NEW l \in Waits, pc[t] = "idle",
           NEW type, type = IF l = "read_wait" THEN REQ_READ ELSE REQ_WRITE,
           rw.slot_table[Slot(rw.next_element)] = -1
    PROVE  Poised(t, l, rw.next_element, join_fifo(rw, rw.next_element, type),
                  [pc EXCEPT ![t] = l], [my_turn EXCEPT ![t] = rw.next_element])
<1> DEFINE num == rw.next_element
           u   == join_fifo(rw, num, type)
           p   == [pc EXCEPT ![t] = l]
           m   == [my_turn EXCEPT ![t] = num]
<1>1. /\ Shape(rw) /\ Turns(rw, pc, my_turn) /\ InOrder(rw, pc, my_turn, cv)
      /\ pc \in [Threads -> Labels] /\ my_turn \in [Threads -> Nat \cup {-1}]
      /\ cv \in SUBSET Threads /\ num \in Nat /\ t \notin cv
  BY Parts DEF Waits
<1>2. Becomes(pc, p, t, l, Labels) /\ Becomes(my_turn, m, t, num, Nat \cup {-1})
  BY <1>1 DEF Becomes, Waits, Labels
<1>3. /\ Shape(u)
      /\ u.next_element = num + 1 /\ u.oldest_element = rw.oldest_element
      /\ u.current_readers = rw.current_readers /\ u.current_writers = rw.current_writers
      /\ u.qr_waiters = rw.qr_waiters /\ u.read_batch_end = rw.read_batch_end
  <2>1. type \in ReqType
    BY DEF ReqType
  <2>2. Counts(rw, pc)
    BY DEF QInv, IInv, Core
  <2>3. Shape(u)
    BY <1>1, <2>1, <2>2, JoinKeepsShape
  <2> QED
    BY <1>1, <2>3, Fields DEF join_fifo, RWState
<1>4. Line(u, p, m)
  <2>1. pc[t] \notin Waits
    BY DEF Waits
  <2> QED
    BY <1>1, <1>2, <2>1, JoinLine DEF InOrder
<1> HIDE DEF u, p, m
<1>5. Exact(u, p)
  <2>1. l \in Labels /\ One(l, "reading") = 0 /\ One(pc[t], "reading") = 0
    BY DEF Labels, One, Waits
  <2>2. u.current_readers = rw.current_readers + One(l, "reading") - One(pc[t], "reading")
    BY <1>1, <1>3, <2>1, Fields
  <2>3. u.read_batch_end < u.oldest_element
    BY <1>1, <1>3 DEF InOrder, Exact
  <2> QED
    BY <1>1, <1>2, <2>1, <2>2, <2>3, CountReaders DEF InOrder
<1>6. Asleep(u, p, m, cv)
  <2>1. NoChance(rw, u)
    BY <1>3 DEF NoChance
  <2> QED
    BY <1>1, <1>2, <2>1, OthersSleep DEF InOrder
<1>7. Turns(u, p, m)
  <2>1. \A s \in Threads \ {t} : p[s] = pc[s] /\ m[s] = my_turn[s]
    BY <1>2 DEF Becomes
  <2>2. m \in [Threads -> Nat \cup {-1}] /\ m[t] = num
    BY <1>2 DEF Becomes
  <2>3. \A s \in Threads : my_turn[s] < num /\ my_turn[s] \in Nat \cup {-1}
    BY <1>1 DEF Turns
  <2> QED
    BY <1>1, <1>3, <2>1, <2>2, <2>3 DEF Turns
<1>8. num < u.next_element
  BY <1>1, <1>3
<1>9. Poised(t, l, num, u, p, m)
  BY <1>1, <1>2, <1>3, <1>4, <1>5, <1>6, <1>7, <1>8 DEF Poised, InOrder
<1> QED
  BY <1>9 DEF u, p, m

\* The ticket a thread takes a turn with: its own, or the next one.
TurnOf(t) == IF pc[t] \in Waits THEN my_turn[t] ELSE rw.next_element

\* What taking a ticket, or looking again, does; l is where the thread waits.
Served(t, l) ==
    /\ InOrderNext /\ leaked' = leaked
    /\ \/ pc'[t] = l /\ rw'.oldest_element = rw.oldest_element
       \/ pc'[t] = "reading" /\ l = "read_wait" /\ TurnOf(t) <= rw.oldest_element
       \/ /\ pc'[t] = "writing" /\ TurnOf(t) = rw.oldest_element
          /\ rw'.oldest_element = TurnOf(t) + 1

\* Taking a ticket, and looking again.
LEMMA TicketStepsKeepOrder ==
    ASSUME QInv, NoOverwrite, NEW t \in Threads,
           ReadLock(t) \/ ReadLockRetry(t) \/ WriteLock(t) \/ WriteLockRetry(t)
    PROVE  \/ (ReadLock(t) \/ ReadLockRetry(t)) /\ Served(t, "read_wait")
           \/ (WriteLock(t) \/ WriteLockRetry(t)) /\ Served(t, "write_wait")
<1>1. "read_wait" \in Waits /\ "write_wait" \in Waits /\ "idle" \notin Waits
  BY DEF Waits
<1>a. ASSUME NEW type
      PROVE  join_fifo(rw, rw.next_element, type).oldest_element = rw.oldest_element
  BY Parts, Fields DEF join_fifo, RWState
<1>2. ASSUME NEW type,
             \/ ReadLoop(t, rw.next_element, join_fifo(rw, rw.next_element, type))
             \/ WriteLoop(t, rw.next_element, join_fifo(rw, rw.next_element, type)),
             type \in ReqType
      PROVE  rw.slot_table[Slot(rw.next_element)] = -1
  <2> DEFINE u == join_fifo(rw, rw.next_element, type)
  <2>1. Shape(rw) /\ Counts(rw, pc) /\ Turns(rw, pc, my_turn) /\ rw.next_element \in Nat
    BY Parts DEF QInv, IInv, Core
  <2>2. Shape(u) /\ u.next_element = rw.next_element + 1
    BY <1>2, <2>1, JoinKeepsShape
  <2> HIDE DEF u
  <2>3. rw'.next_element = u.next_element
    <3>1. u \in RWState
      BY <2>2 DEF Shape
    <3>2. ReadLoop(t, rw.next_element, u) \/ WriteLoop(t, rw.next_element, u)
      BY <1>2 DEF u
    <3> QED
      BY <3>1, <3>2, LoopsKeepTickets
  <2> QED
    BY <2>1, <2>2, <2>3 DEF NoOverwrite
<1>3. CASE ReadLock(t)
  <2>1. pc[t] = "idle" /\ ReadLoop(t, rw.next_element, join_fifo(rw, rw.next_element, REQ_READ))
    BY <1>3 DEF ReadLock, Enter
  <2>2. rw.slot_table[Slot(rw.next_element)] = -1
    BY <1>2, <2>1 DEF ReqType
  <2>3. Poised(t, "read_wait", rw.next_element, join_fifo(rw, rw.next_element, REQ_READ),
               [pc EXCEPT ![t] = "read_wait"], [my_turn EXCEPT ![t] = rw.next_element])
    BY <1>1, <2>1, <2>2, PoisedByJoin
  <2> QED
    BY <1>1, <1>a, <1>3, <2>1, <2>3, ReadLoopKeepsOrder DEF Outcome, Served, TurnOf
<1>4. CASE ReadLockRetry(t)
  <2>1. pc[t] = "read_wait" /\ t \notin cv /\ ReadLoop(t, my_turn[t], rw)
    BY <1>4 DEF ReadLockRetry, Resume
  <2>2. Poised(t, "read_wait", my_turn[t], rw, pc, my_turn)
    BY <1>1, <2>1, PoisedAgain
  <2> QED
    BY <1>1, <1>4, <2>1, <2>2, ReadLoopKeepsOrder DEF Outcome, Served, TurnOf
<1>5. CASE WriteLock(t)
  <2>1. pc[t] = "idle" /\ WriteLoop(t, rw.next_element, join_fifo(rw, rw.next_element, REQ_WRITE))
    BY <1>5 DEF WriteLock, Enter
  <2>2. rw.slot_table[Slot(rw.next_element)] = -1
    BY <1>2, <2>1 DEF ReqType
  <2>3. Poised(t, "write_wait", rw.next_element, join_fifo(rw, rw.next_element, REQ_WRITE),
               [pc EXCEPT ![t] = "write_wait"], [my_turn EXCEPT ![t] = rw.next_element])
    <3>1. "write_wait" # "read_wait"
      OBVIOUS
    <3> QED
      BY <1>1, <2>1, <2>2, <3>1, PoisedByJoin
  <2> QED
    BY <1>1, <1>a, <1>5, <2>1, <2>3, WriteLoopKeepsOrder DEF Outcome, Served, TurnOf
<1>6. CASE WriteLockRetry(t)
  <2>1. pc[t] = "write_wait" /\ t \notin cv /\ WriteLoop(t, my_turn[t], rw)
    BY <1>6 DEF WriteLockRetry, Resume
  <2>2. Poised(t, "write_wait", my_turn[t], rw, pc, my_turn)
    BY <1>1, <2>1, PoisedAgain
  <2> QED
    BY <1>1, <1>6, <2>1, <2>2, WriteLoopKeepsOrder DEF Outcome, Served, TurnOf
<1> QED
  BY <1>3, <1>4, <1>5, <1>6

\* v has the ring, the head and the tickets of u.
SameRing(u, v) ==
    /\ v.slot_table = u.slot_table /\ v.request_type = u.request_type
    /\ v.next_element = u.next_element /\ v.oldest_element = u.oldest_element

\* A thread that moves outside the line does not disturb it.
LEMMA AsideKeepsLine ==
    ASSUME NEW u, NEW v, NEW p, NEW m, NEW q, NEW n, NEW t \in Threads, NEW l,
           Line(u, p, m), p[t] \notin Waits, l \notin Waits, SameRing(u, v),
           Becomes(p, q, t, l, Labels), Becomes(m, n, t, -1, Nat \cup {-1}),
           m \in [Threads -> Nat \cup {-1}]
    PROVE  Line(v, q, n)
<1>1. m[t] = -1
  BY DEF Line, Ticketed
<1>2. n = m
  BY <1>1 DEF Becomes
<1>3. \A s \in Threads : q[s] \in Waits => q[s] = p[s]
  BY DEF Becomes
<1>4. \A s \in Threads : q[s] \in Waits <=> p[s] \in Waits
  BY DEF Becomes
<1>5. Ticketed(q, n)
  BY <1>2, <1>4 DEF Line, Ticketed
<1>6. \A k : slot_taken(v, k) = slot_taken(u, k) /\ get_request_type(v, k) = get_request_type(u, k)
  BY DEF SameRing, slot_taken, get_request_type
<1>7. Registered(v, q, n)
  BY <1>2, <1>3, <1>6 DEF Line, Registered, slot_matches, SameRing, Waits
<1>8. Owned(v, n) /\ Unbroken(v)
  BY <1>2, <1>6 DEF Line, Owned, Unbroken, SameRing
<1> QED
  BY <1>5, <1>7, <1>8 DEF Line

\* A thread that moves outside the line and sleeps, wakes everybody or leaves
\* the others no chance.
LEMMA AsideKeepsOrder ==
    ASSUME QInv, NEW t \in Threads, NEW v, NEW l \in Labels \ Waits,
           pc[t] \notin Waits, SameRing(rw, v),
           Becomes(pc, pc', t, l, Labels), Becomes(my_turn, my_turn', t, -1, Nat \cup {-1}),
           rw' = v,
           v.current_readers = rw.current_readers + One(l, "reading") - One(pc[t], "reading"),
           v.read_batch_end \in {rw.read_batch_end, -1},
           NEW c, c \in SUBSET cv, t \notin c, c = {} \/ NoChance(rw, v),
           cv' = c \/ (cv' = c \cup {t} /\ Blocked(v, pc', my_turn', t))
    PROVE  InOrderNext
<1>1. /\ Shape(rw) /\ Turns(rw, pc, my_turn) /\ InOrder(rw, pc, my_turn, cv)
      /\ pc \in [Threads -> Labels] /\ my_turn \in [Threads -> Nat \cup {-1}]
      /\ cv \in SUBSET Threads
  BY Parts
<1>2. Line(v, pc', my_turn')
  BY <1>1, AsideKeepsLine DEF InOrder
<1>3. Exact(v, pc')
  <2>1. v.read_batch_end < v.oldest_element
    BY <1>1, Fields DEF InOrder, Exact, SameRing
  <2> QED
    BY <1>1, <2>1, CountReaders DEF InOrder
<1>4. Asleep(v, pc', my_turn', c)
  <2>1. Asleep(rw, pc, my_turn, c) /\ c \in SUBSET Threads
    BY <1>1 DEF InOrder, Asleep
  <2>2. CASE c = {}
    BY <2>2 DEF Asleep
  <2>3. CASE NoChance(rw, v)
    BY <2>1, <2>3, OthersSleep
  <2> QED
    BY <2>2, <2>3
<1>5. Asleep(v, pc', my_turn', cv')
  BY <1>4 DEF Asleep
<1> QED
  BY <1>2, <1>3, <1>5 DEF InOrderNext, InOrder

\* A quick reader enters, waits, or wakes up.
LEMMA QuickKeepsOrder ==
    ASSUME QInv, NEW t \in Threads, QuickRead(t) \/ QuickReadRetry(t)
    PROVE  InOrderNext /\ leaked' = leaked
<1>0. /\ rw \in RWState /\ rw.current_readers \in Nat /\ rw.current_writers \in {0, 1}
      /\ rw.qr_waiters \in Nat
      /\ pc \in [Threads -> Labels] /\ my_turn \in [Threads -> Nat \cup {-1}]
      /\ cv \in SUBSET Threads
  BY Parts, Fields
<1>1. /\ pc[t] \in {"idle", "quick_wait"} /\ t \notin cv /\ pc[t] \notin Waits
      /\ One(pc[t], "reading") = 0 /\ One("quick_wait", "reading") = 0
      /\ One("reading", "reading") = 1
  BY Parts DEF QuickRead, QuickReadRetry, Enter, Resume, Waits, One
<1>2. "reading" \in Labels \ Waits /\ "quick_wait" \in Labels \ Waits
  BY DEF Labels, Waits
<1>3. ASSUME NEW qr \in Nat, NEW woken \in {{}, cv},
             woken = cv \/ qr = rw.qr_waiters,
             Return(t, "reading", [rw EXCEPT !.qr_waiters = qr, !.current_readers = @ + 1], woken)
      PROVE  InOrderNext /\ leaked' = leaked
  <2> DEFINE v == [rw EXCEPT !.qr_waiters = qr, !.current_readers = @ + 1]
  <2>1. /\ SameRing(rw, v) /\ v.current_readers = rw.current_readers + 1
        /\ v.read_batch_end = rw.read_batch_end /\ v.current_writers = rw.current_writers
        /\ v.qr_waiters = qr
    BY <1>0 DEF RWState, SameRing
  <2>2. rw' = v /\ cv' = cv \ woken /\ leaked' = leaked
    BY <1>3 DEF Return
  <2> HIDE DEF v
  <2>3. /\ Becomes(pc, pc', t, "reading", Labels)
        /\ Becomes(my_turn, my_turn', t, -1, Nat \cup {-1})
    BY <1>0, <1>2, <1>3 DEF Return, Becomes
  <2>4. v.current_readers = rw.current_readers + One("reading", "reading") - One(pc[t], "reading")
    BY <1>0, <1>1, <2>1
  <2>5. cv' = {} \/ NoChance(rw, v)
    BY <1>0, <1>3, <2>1, <2>2 DEF NoChance, SameRing
  <2>6. cv' \in SUBSET cv /\ t \notin cv'
    BY <1>1, <2>2
  <2> QED
    BY <1>1, <1>2, <2>1, <2>2, <2>3, <2>4, <2>5, <2>6, AsideKeepsOrder
<1>4. ASSUME NEW qr \in Nat, qr >= rw.qr_waiters, rw.current_writers > 0,
             Wait(t, "quick_wait", -1, [rw EXCEPT !.qr_waiters = qr])
      PROVE  InOrderNext /\ leaked' = leaked
  <2> DEFINE v == [rw EXCEPT !.qr_waiters = qr]
  <2>1. /\ SameRing(rw, v) /\ v.current_readers = rw.current_readers
        /\ v.read_batch_end = rw.read_batch_end /\ v.current_writers = rw.current_writers
        /\ v.qr_waiters = qr
    BY <1>0 DEF RWState, SameRing
  <2>2. rw' = v /\ cv' = cv \cup {t} /\ leaked' = leaked
    BY <1>4 DEF Wait
  <2> HIDE DEF v
  <2>3. /\ Becomes(pc, pc', t, "quick_wait", Labels)
        /\ Becomes(my_turn, my_turn', t, -1, Nat \cup {-1})
    BY <1>0, <1>2, <1>4 DEF Wait, Becomes
  <2>4. v.current_readers = rw.current_readers + One("quick_wait", "reading") - One(pc[t], "reading")
    BY <1>0, <1>1, <2>1
  <2>5. NoChance(rw, v)
    BY <1>4, <2>1 DEF NoChance
  <2>6. Blocked(v, pc', my_turn', t)
    BY <1>4, <2>1, <2>3 DEF Blocked, Becomes
  <2> QED
    BY <1>1, <1>2, <2>1, <2>2, <2>3, <2>4, <2>5, <2>6, AsideKeepsOrder
<1>5. CASE QuickRead(t)
  <2>1. CASE rw.current_writers = 0
    <3>1. Return(t, "reading", [rw EXCEPT !.current_readers = @ + 1], {})
      BY <1>5, <2>1 DEF QuickRead
    <3>2. [rw EXCEPT !.current_readers = @ + 1] =
            [rw EXCEPT !.qr_waiters = rw.qr_waiters, !.current_readers = @ + 1]
      BY <1>0 DEF RWState
    <3> QED
      BY <1>0, <1>3, <3>1, <3>2
  <2>2. CASE rw.current_writers # 0
    <3>1. Wait(t, "quick_wait", -1, [rw EXCEPT !.qr_waiters = @ + 1])
      BY <1>5, <2>2 DEF QuickRead
    <3>2. rw.qr_waiters + 1 \in Nat /\ rw.qr_waiters + 1 >= rw.qr_waiters
          /\ rw.current_writers > 0
      BY <1>0, <2>2
    <3> QED
      BY <1>4, <3>1, <3>2
  <2> QED
    BY <2>1, <2>2
<1>6. CASE QuickReadRetry(t)
  <2>1. CASE rw.current_writers > 0
    <3>1. Wait(t, "quick_wait", -1, rw)
      BY <1>6, <2>1 DEF QuickReadRetry
    <3>2. rw = [rw EXCEPT !.qr_waiters = rw.qr_waiters] /\ rw.qr_waiters >= rw.qr_waiters
      BY <1>0 DEF RWState
    <3> QED
      BY <1>0, <1>4, <2>1, <3>1, <3>2
  <2>2. CASE ~(rw.current_writers > 0)
    <3>1. Return(t, "reading", [rw EXCEPT !.qr_waiters = @ - 1, !.current_readers = @ + 1], cv)
      BY <1>6, <2>2 DEF QuickReadRetry
    <3>2. rw.qr_waiters - 1 \in Nat
      <4>1. pc[t] = "quick_wait" /\ "quick_wait" \in Labels
        BY <1>6 DEF QuickReadRetry, Resume, Labels
      <4>2. Cardinality(At(pc, "quick_wait")) \in Nat /\ Cardinality(At(pc, "quick_wait")) > 0
        BY <1>0, <4>1, MoveCount
      <4>3. Cardinality(At(pc, "quick_wait")) = rw.qr_waiters
        BY DEF QInv, IInv, Core, Counts
      <4> QED
        BY <1>0, <4>2, <4>3
    <3> QED
      BY <1>0, <1>3, <3>1, <3>2
  <2> QED
    BY <2>1, <2>2
<1> QED
  BY <1>5, <1>6

\* Unlocking wakes everybody, unless readers remain.
LEMMA UnlockKeepsOrder ==
    ASSUME QInv, NEW t \in Threads, ReadUnlock(t) \/ WriteUnlock(t)
    PROVE  InOrderNext /\ leaked' = leaked
<1>0. /\ rw \in RWState /\ rw.current_readers \in Nat /\ rw.current_writers \in {0, 1}
      /\ rw.qr_waiters \in Nat /\ rw.read_batch_end \in Nat \cup {-1}
      /\ pc \in [Threads -> Labels] /\ my_turn \in [Threads -> Nat \cup {-1}]
      /\ cv \in SUBSET Threads
  BY Parts, Fields
<1>1. /\ pc[t] \in {"reading", "writing"} /\ t \notin cv /\ pc[t] \notin Waits
      /\ "idle" \in Labels \ Waits
      /\ One("idle", "reading") = 0 /\ One("reading", "reading") = 1
      /\ One("writing", "reading") = 0
  BY Parts DEF ReadUnlock, WriteUnlock, Waits, One, Labels
<1>2. ASSUME NEW v, NEW woken \in {{}, cv}, Return(t, "idle", v, woken),
             SameRing(rw, v), v.current_readers = rw.current_readers - One(pc[t], "reading"),
             v.read_batch_end \in {rw.read_batch_end, -1},
             woken = cv \/ NoChance(rw, v)
      PROVE  InOrderNext /\ leaked' = leaked
  <2>1. rw' = v /\ cv' = cv \ woken /\ leaked' = leaked
    BY <1>2 DEF Return
  <2>2. /\ Becomes(pc, pc', t, "idle", Labels)
        /\ Becomes(my_turn, my_turn', t, -1, Nat \cup {-1})
    BY <1>0, <1>1, <1>2 DEF Return, Becomes
  <2>3. v.current_readers = rw.current_readers + One("idle", "reading") - One(pc[t], "reading")
    BY <1>0, <1>1, <1>2
  <2>4. cv' = {} \/ NoChance(rw, v)
    BY <1>2, <2>1
  <2>5. cv' \in SUBSET cv /\ t \notin cv'
    BY <1>1, <2>1
  <2> QED
    BY <1>1, <1>2, <2>1, <2>2, <2>3, <2>4, <2>5, AsideKeepsOrder
<1>3. CASE ReadUnlock(t)
  <2>1. pc[t] = "reading"
    BY <1>3 DEF ReadUnlock
  <2>2. CASE rw.current_readers - 1 > 0
    <3> DEFINE v == [rw EXCEPT !.current_readers = @ - 1]
    <3>1. Return(t, "idle", v, {})
      BY <1>3, <2>2 DEF ReadUnlock
    <3>2. /\ SameRing(rw, v) /\ v.current_readers = rw.current_readers - 1
          /\ v.read_batch_end = rw.read_batch_end /\ v.current_writers = rw.current_writers
          /\ v.qr_waiters = rw.qr_waiters
      BY <1>0 DEF RWState, SameRing
    <3> HIDE DEF v
    <3>3. NoChance(rw, v)
      BY <2>2, <3>2 DEF NoChance, SameRing
    <3> QED
      BY <1>1, <1>2, <2>1, <3>1, <3>2, <3>3
  <2>3. CASE ~(rw.current_readers - 1 > 0)
    <3> DEFINE v == [rw EXCEPT !.current_readers = @ - 1, !.read_batch_end = -1]
    <3>1. Return(t, "idle", v, cv)
      BY <1>3, <2>3 DEF ReadUnlock
    <3>2. /\ SameRing(rw, v) /\ v.current_readers = rw.current_readers - 1
          /\ v.read_batch_end = -1
      BY <1>0 DEF RWState, SameRing
    <3> HIDE DEF v
    <3> QED
      BY <1>1, <1>2, <2>1, <3>1, <3>2
  <2> QED
    BY <2>2, <2>3
<1>4. CASE WriteUnlock(t)
  <2> DEFINE v == [rw EXCEPT !.current_writers = @ - 1, !.read_batch_end = -1]
  <2>1. pc[t] = "writing" /\ Return(t, "idle", v, cv)
    BY <1>4 DEF WriteUnlock
  <2>2. /\ SameRing(rw, v) /\ v.current_readers = rw.current_readers
        /\ v.read_batch_end = -1
    BY <1>0 DEF RWState, SameRing
  <2> HIDE DEF v
  <2>3. v.current_readers = rw.current_readers - One(pc[t], "reading")
    BY <1>0, <1>1, <2>1, <2>2
  <2> QED
    BY <1>2, <2>1, <2>2, <2>3
<1> QED
  BY <1>3, <1>4

\* The whole invariant, from its parts.
LEMMA QInvNext ==
    ASSUME IInv', InOrderNext, leaked' = FALSE, destroyed' # "EBUSY"
    PROVE  QInv'
BY DEF QInv, InOrderNext, InOrder, Line, Ticketed, Registered, Owned, Unbroken, Exact,
       Asleep, Blocked, slot_matches, slot_taken, get_request_type, At

\* When nobody is in a call the counters are zero and the line is empty.
LEMMA DestroyFindsItFree ==
    ASSUME QInv, Destroy
    PROVE  destroyed' = "yes"
<1>0. /\ Shape(rw) /\ Turns(rw, pc, my_turn) /\ InOrder(rw, pc, my_turn, cv)
      /\ \A t \in Threads : my_turn[t] # -1 <=> pc[t] \in Waits
      /\ \A t \in Threads : pc[t] = "idle"
  BY Parts DEF Destroy
<1>1. /\ rw.current_readers \in Nat /\ rw.current_writers \in {0, 1} /\ rw.qr_waiters \in Nat
      /\ rw.oldest_element \in Nat /\ rw.next_element \in Nat
      /\ rw.oldest_element <= rw.next_element
      /\ rw.slot_table \in [Slots -> Nat \cup {-1}]
  BY <1>0, Fields
<1>2. rw.current_readers = 0 /\ rw.current_writers = 0 /\ rw.qr_waiters = 0
  <2>1. At(pc, "reading") = {} /\ At(pc, "writing") = {} /\ At(pc, "quick_wait") = {}
    BY <1>0 DEF At
  <2>2. Cardinality({}) = 0
    BY FS_EmptySet
  <2>3. /\ Cardinality(At(pc, "reading")) = rw.current_readers
        /\ Cardinality(At(pc, "writing")) = rw.current_writers
        /\ Cardinality(At(pc, "quick_wait")) = rw.qr_waiters
    BY <1>0 DEF InOrder, Exact, QInv, IInv, Core, Counts
  <2> QED
    BY <2>1, <2>2, <2>3
<1>3. rw.oldest_element = rw.next_element
  <2> SUFFICES ASSUME rw.oldest_element < rw.next_element PROVE FALSE
    BY <1>1
  <2> DEFINE k == rw.oldest_element
  <2>1. slot_taken(rw, k) /\ Slot(k) \in Slots
    BY <1>0, <1>1, SlotInRing DEF InOrder, Line, Unbroken
  <2>2. rw.slot_table[Slot(k)] = k /\ k # -1
    BY <1>1, <2>1 DEF slot_taken
  <2>3. PICK t \in Threads : my_turn[t] = k
    BY <1>0, <2>1, <2>2 DEF InOrder, Line, Owned
  <2> QED
    BY <1>0, <2>2, <2>3 DEF Waits
<1> QED
  BY <1>1, <1>2, <1>3 DEF Destroy

----------------------------------------------------------------------------
(* The theorems.                                                           *)

\* The invariant holds initially.
LEMMA InitQInv == Init => QInv
<1> SUFFICES ASSUME Init PROVE QInv
  OBVIOUS
<1>1. IInv
  BY InitIInv
<1>2. Line(rw, pc, my_turn)
  BY DEF Init, Line, Ticketed, Registered, Owned, Unbroken, Waits
<1>3. Exact(rw, pc)
  <2>1. At(pc, "reading") = {}
    BY DEF Init, At
  <2> QED
    BY <2>1, FS_EmptySet DEF Init, Exact
<1>4. Asleep(rw, pc, my_turn, cv) /\ ~leaked /\ destroyed # "EBUSY"
  BY DEF Init, Asleep
<1> QED
  BY <1>1, <1>2, <1>3, <1>4 DEF QInv, InOrder

\* Every step that overwrites no slot preserves it.
LEMMA NextQInv == QInv /\ [Next]_vars /\ NoOverwrite => QInv'
<1> SUFFICES ASSUME QInv, [Next]_vars, NoOverwrite PROVE QInv'
  OBVIOUS
<1>0. IInv' /\ leaked = FALSE /\ destroyed # "EBUSY"
  BY NextIInv DEF QInv, IInv, Core
<1>1. InOrder(rw, pc, my_turn, cv)
  BY DEF QInv
<1>2. CASE UNCHANGED vars
  BY <1>0, <1>1, <1>2, QInvNext DEF vars, InOrderNext
<1>3. ASSUME NEW t \in Threads, QuickRead(t) \/ QuickReadRetry(t) PROVE QInv'
  <2>1. InOrderNext /\ leaked' = leaked /\ destroyed' = destroyed
    BY <1>3, QuickKeepsOrder DEF QuickRead, QuickReadRetry
  <2> QED
    BY <1>0, <2>1, QInvNext
<1>4. ASSUME NEW t \in Threads,
             ReadLock(t) \/ ReadLockRetry(t) \/ WriteLock(t) \/ WriteLockRetry(t)
      PROVE  QInv'
  <2>1. InOrderNext /\ leaked' = leaked /\ destroyed' = destroyed
    BY <1>4, TicketStepsKeepOrder
    DEF Served, ReadLock, ReadLockRetry, WriteLock, WriteLockRetry
  <2> QED
    BY <1>0, <2>1, QInvNext
<1>5. ASSUME NEW t \in Threads, ReadUnlock(t) \/ WriteUnlock(t) PROVE QInv'
  <2>1. InOrderNext /\ leaked' = leaked /\ destroyed' = destroyed
    BY <1>5, UnlockKeepsOrder DEF ReadUnlock, WriteUnlock
  <2> QED
    BY <1>0, <2>1, QInvNext
<1>6. ASSUME NEW t \in Threads, SpuriousWakeup(t) PROVE QInv'
  <2>1. Asleep(rw, pc, my_turn, cv \ {t})
    BY <1>1 DEF InOrder, Asleep
  <2>2. InOrderNext /\ leaked' = leaked /\ destroyed' = destroyed
    BY <1>1, <1>6, <2>1 DEF SpuriousWakeup, InOrderNext, InOrder
  <2> QED
    BY <1>0, <2>2, QInvNext
<1>7. CASE Destroy
  <2>1. InOrderNext /\ leaked' = leaked
    BY <1>1, <1>7 DEF Destroy, InOrderNext
  <2>2. destroyed' # "EBUSY"
    BY <1>7, DestroyFindsItFree
  <2> QED
    BY <1>0, <2>1, <2>2, QInvNext
<1> QED
  BY <1>2, <1>3, <1>4, <1>5, <1>6, <1>7 DEF Next

\* In every behaviour in which no slot is overwritten the invariant holds.
THEOREM QueueInvariant == Spec /\ [][NoOverwrite]_vars => []QInv
<1>1. Init => QInv
  BY InitQInv
<1>2. QInv /\ [Next]_vars /\ [NoOverwrite]_vars => QInv'
  <2>1. UNCHANGED vars => NoOverwrite
    BY DEF vars, NoOverwrite
  <2> QED
    BY <2>1, NextQInv
<1> QED
  BY <1>1, <1>2, PTL DEF Spec

\* What the invariant says of the properties.
LEMMA QueueFacts ==
    ASSUME QInv
    PROVE  /\ CountersExact /\ RingMirrorsWaiters /\ NoLostWakeup
           /\ MutexReturned /\ DestroySucceeds
<1>0. /\ Shape(rw) /\ Turns(rw, pc, my_turn) /\ InOrder(rw, pc, my_turn, cv)
      /\ Line(rw, pc, my_turn) /\ Exact(rw, pc) /\ Asleep(rw, pc, my_turn, cv)
      /\ cv \in SUBSET Threads
  BY Parts DEF InOrder
<1>1. CountersExact
  BY <1>0 DEF Exact, QInv, IInv, Core, Counts, CountersExact, Readers, Writers, In
<1>2. RingMirrorsWaiters
  <2>1. \A t \in In("write_wait") :
           slot_matches(rw, my_turn[t], REQ_WRITE) /\ rw.oldest_element <= my_turn[t]
    BY <1>0 DEF Line, Registered, In, At
  <2>2. ASSUME NEW i \in Slots, rw.slot_table[i] # -1
        PROVE  Cardinality({t \in Threads : my_turn[t] = rw.slot_table[i]}) = 1
    <3>1. PICK t \in Threads : my_turn[t] = rw.slot_table[i]
      BY <1>0, <2>2 DEF Line, Owned
    <3>2. {s \in Threads : my_turn[s] = rw.slot_table[i]} = {t}
      BY <1>0, <2>2, <3>1 DEF Line, Ticketed
    <3> QED
      BY <3>2, FS_Singleton
  <2> QED
    BY <2>1, <2>2 DEF RingMirrorsWaiters
<1>3. NoLostWakeup
  <2>1. find_valid_head(rw, rw.oldest_element) = rw.oldest_element
    <3>1. rw.oldest_element < rw.next_element => slot_taken(rw, rw.oldest_element)
      BY <1>0, Fields DEF Line, Unbroken
    <3> QED
      BY <1>0, <3>1, Fields, HeadStays
  <2>2. ASSUME NEW t \in cv PROVE ~MayEnter(t)
    <3>1. Blocked(rw, pc, my_turn, t) /\ t \in Threads
      BY <1>0 DEF Asleep
    <3>2. /\ rw.current_writers \in {0, 1} /\ rw.current_readers \in Nat
          /\ rw.qr_waiters \in Nat /\ rw.read_batch_end \in Nat \cup {-1}
          /\ my_turn[t] \in Nat \cup {-1}
      BY <1>0, Fields DEF Turns
    <3> QED
      BY <2>1, <3>1, <3>2 DEF Blocked, MayEnter, Waits
  <2> QED
    BY <2>2 DEF NoLostWakeup
<1>4. MutexReturned /\ DestroySucceeds
  BY DEF QInv, MutexReturned, DestroySucceeds
<1> QED
  BY <1>1, <1>2, <1>3, <1>4

\* The counters the decisions are taken from are exact: no reader is counted
\* that gave up, as long as no ticket takes a slot in use.
THEOREM CountersAreExact == Spec /\ [][NoOverwrite]_vars => []CountersExact
<1>1. QInv => CountersExact
  BY QueueFacts
<1> QED
  BY <1>1, QueueInvariant, PTL

\* The ring pictures the queue, however often its slots are used again.
THEOREM RingIsTheQueue == Spec /\ [][NoOverwrite]_vars => []RingMirrorsWaiters
<1>1. QInv => RingMirrorsWaiters
  BY QueueFacts
<1> QED
  BY <1>1, QueueInvariant, PTL

\* No wakeup is lost: whoever could enter has been woken.
THEOREM WakeupsArrive == Spec /\ [][NoOverwrite]_vars => []NoLostWakeup
<1>1. QInv => NoLostWakeup
  BY QueueFacts
<1> QED
  BY <1>1, QueueInvariant, PTL

\* rwlock_write_lock never finds the queue empty, so it never returns with the
\* mutex locked.
THEOREM MutexComesBack == Spec /\ [][NoOverwrite]_vars => []MutexReturned
<1>1. QInv => MutexReturned
  BY QueueFacts
<1> QED
  BY <1>1, QueueInvariant, PTL

\* rwlock_destroy finds the lock free when everybody has left.
THEOREM DestroyFindsLockFree == Spec /\ [][NoOverwrite]_vars => []DestroySucceeds
<1>1. QInv => DestroySucceeds
  BY QueueFacts
<1> QED
  BY <1>1, QueueInvariant, PTL

----------------------------------------------------------------------------
(* Two conditions on the constants under which no slot is overwritten.     *)

\* A ticket below the size of the ring is in the slot of its number.
LEMMA SmallSlot ==
    ASSUME NEW k \in Nat, k < RingSize
    PROVE  Slot(k) = k
BY RingAssumption DEF Slot

\* Two tickets that share a slot are at least a ring apart.
LEMMA RingApart ==
    ASSUME NEW k \in Nat, NEW n \in Nat, k < n, Slot(k) = Slot(n)
    PROVE  k + RingSize <= n
<1> DEFINE a == k \div RingSize
           b == n \div RingSize
<1>0. RingSize \in Nat \ {0}
  BY RingAssumption
<1>1. k = RingSize * a + (k % RingSize) /\ a \in Int /\ k % RingSize \in Int
  BY <1>0
<1>2. n = RingSize * b + (n % RingSize) /\ b \in Int
  BY <1>0
<1>3. k % RingSize = n % RingSize
  BY DEF Slot
<1> HIDE DEF a, b
<1>4. RingSize * a < RingSize * b
  BY <1>0, <1>1, <1>2, <1>3
<1>5. a + 1 <= b
  BY <1>0, <1>1, <1>2, <1>4
<1>6. RingSize * (a + 1) <= RingSize * b
  BY <1>0, <1>1, <1>2, <1>5
<1>7. RingSize * (a + 1) = RingSize * a + RingSize
  BY <1>0, <1>1
<1> QED
  BY <1>0, <1>1, <1>2, <1>3, <1>6, <1>7

\* Only a call that starts to wait in line takes a ticket.
LEMMA OnlyJoinsTake ==
    ASSUME rw \in RWState, [Next]_vars, rw'.next_element # rw.next_element
    PROVE  \E t \in Threads : ReadLock(t) \/ WriteLock(t)
<1>1. \A t \in Threads : ~(ReadLockRetry(t) \/ WriteLockRetry(t))
  BY LoopsKeepTickets DEF ReadLockRetry, WriteLockRetry
<1>2. \A t \in Threads : ~(QuickRead(t) \/ QuickReadRetry(t))
  BY DEF QuickRead, QuickReadRetry, Wait, Return, RWState
<1>3. \A t \in Threads : ~(ReadUnlock(t) \/ WriteUnlock(t) \/ SpuriousWakeup(t))
  BY DEF ReadUnlock, WriteUnlock, SpuriousWakeup, Return, RWState
<1>4. ~Destroy /\ ~UNCHANGED vars
  BY DEF Destroy, vars
<1> QED
  BY <1>1, <1>2, <1>3, <1>4 DEF Next

\* A step that takes a turn moves one thread, which waits on with that ticket.
LEMMA TurnTaken ==
    ASSUME pc \in [Threads -> Labels], my_turn \in [Threads -> Nat \cup {-1}],
           NEW t \in Threads,
           ReadLock(t) \/ ReadLockRetry(t) \/ WriteLock(t) \/ WriteLockRetry(t)
    PROVE  /\ \A s \in Threads \ {t} : my_turn'[s] = my_turn[s] /\ pc'[s] = pc[s]
           /\ pc'[t] \in Waits => my_turn'[t] = TurnOf(t)
<1> DEFINE turn == TurnOf(t)
<1>1. ASSUME NEW u, ReadLoop(t, turn, u) \/ WriteLoop(t, turn, u)
      PROVE  /\ \A s \in Threads \ {t} : my_turn'[s] = my_turn[s] /\ pc'[s] = pc[s]
             /\ pc'[t] \in Waits => my_turn'[t] = turn
  <2>1. ASSUME NEW l, NEW v, Wait(t, l, turn, v)
        PROVE  /\ \A s \in Threads \ {t} : my_turn'[s] = my_turn[s] /\ pc'[s] = pc[s]
               /\ my_turn'[t] = turn
    BY <2>1 DEF Wait
  <2>2. ASSUME NEW l \in {"reading", "writing", "idle"}, NEW v, NEW woken,
               Return(t, l, v, woken)
        PROVE  /\ \A s \in Threads \ {t} : my_turn'[s] = my_turn[s] /\ pc'[s] = pc[s]
               /\ pc'[t] \notin Waits
    BY <2>2 DEF Return, Waits
  <2>3. ASSUME NEW v, ReturnLeakingMutex(t, v)
        PROVE  /\ \A s \in Threads \ {t} : my_turn'[s] = my_turn[s] /\ pc'[s] = pc[s]
               /\ pc'[t] \notin Waits
    BY <2>3 DEF ReturnLeakingMutex, Waits
  <2> QED
    BY <1>1, <2>1, <2>2, <2>3 DEF ReadLoop, WriteLoop, EnterInBatch, GrantBatch, EnterWrite
<1> QED
  BY <1>1 DEF TurnOf, ReadLock, ReadLockRetry, WriteLock, WriteLockRetry, Enter, Resume, Waits

\* Tickets are bounded by the ring: no slot is ever used a second time.
LEMMA FewTickets ==
    ASSUME QInv, [Next]_vars, MaxTicket <= RingSize
    PROVE  NoOverwrite
<1> DEFINE num == rw.next_element
<1> SUFFICES ASSUME rw'.next_element # num, rw.slot_table[Slot(num)] # -1
             PROVE  FALSE
  BY DEF NoOverwrite
<1>0. /\ Shape(rw) /\ rw \in RWState /\ num \in Nat /\ Slot(num) \in Slots
      /\ rw.slot_table \in [Slots -> Nat \cup {-1}]
      /\ Line(rw, pc, my_turn)
  BY Parts, Fields, SlotInRing DEF InOrder
<1>1. num < MaxTicket
  <2>1. \E t \in Threads : ReadLock(t) \/ WriteLock(t)
    BY <1>0, OnlyJoinsTake
  <2> QED
    BY <2>1 DEF ReadLock, WriteLock
<1> DEFINE k == rw.slot_table[Slot(num)]
<1>2. k \in Nat /\ k < num /\ Slot(k) = Slot(num)
  BY <1>0 DEF Shape, Line, Owned
<1>3. Slot(k) = k /\ Slot(num) = num
  <2>1. num < RingSize /\ k < RingSize
    BY <1>0, <1>1, <1>2, RingAssumption
  <2> QED
    BY <1>0, <1>2, <2>1, SmallSlot
<1>4. k # num
  BY <1>0, <1>2
<1> HIDE DEF k, num
<1> QED
  BY <1>2, <1>3, <1>4

\* While there are no more tickets than slots the properties of the queue hold
\* without further hypothesis.
THEOREM ShortRun ==
    MaxTicket <= RingSize =>
        (Spec => [](CountersExact /\ RingMirrorsWaiters /\ NoLostWakeup
                    /\ MutexReturned /\ DestroySucceeds))
<1> SUFFICES ASSUME MaxTicket <= RingSize
             PROVE  Spec => [](CountersExact /\ RingMirrorsWaiters /\ NoLostWakeup
                               /\ MutexReturned /\ DestroySucceeds)
  OBVIOUS
<1>1. Init => QInv
  BY InitQInv
<1>2. QInv /\ [Next]_vars => QInv'
  BY FewTickets, NextQInv
<1>3. QInv => (CountersExact /\ RingMirrorsWaiters /\ NoLostWakeup
               /\ MutexReturned /\ DestroySucceeds)
  BY QueueFacts
<1> QED
  BY <1>1, <1>2, <1>3, PTL DEF Spec

\* The threads that take tickets fit in the ring, and one of them at most reads.
\* With two readers the hypothesis is needed: a reader that oversleeps its batch
\* is left behind the head with its slot.
Members == ReadThreads \cup WriteThreads
OneReader == /\ \A r, s \in ReadThreads : r = s
             /\ Cardinality(Members) <= RingSize

\* Threads wait where their calls take them, and none is left behind the head.
Roles == \A t \in Threads : /\ pc[t] = "read_wait" => t \in ReadThreads
                            /\ pc[t] = "write_wait" => t \in WriteThreads
Ahead == \A t \in Threads : pc[t] \in Waits => rw.oldest_element <= my_turn[t]

\* The inductive invariant when there is one reader.
FInv == QInv /\ Roles /\ Ahead

\* A slot in use at the end of the line would need more waiting threads than
\* the ring has slots.
LEMMA RoomForOne ==
    ASSUME FInv, OneReader, NEW t \in Members, pc[t] = "idle"
    PROVE  rw.slot_table[Slot(rw.next_element)] = -1
<1> DEFINE num == rw.next_element
           k   == rw.slot_table[Slot(num)]
<1> SUFFICES ASSUME k # -1 PROVE FALSE
  OBVIOUS
<1>0. /\ Shape(rw) /\ num \in Nat /\ Slot(num) \in Slots /\ rw.oldest_element \in Nat
      /\ rw.slot_table \in [Slots -> Nat \cup {-1}]
      /\ Line(rw, pc, my_turn)
      /\ \A s \in Threads : my_turn[s] # -1 <=> pc[s] \in Waits
  BY Parts, Fields, SlotInRing DEF FInv, InOrder
<1>1. k \in Nat /\ k < num /\ Slot(k) = Slot(num)
  BY <1>0 DEF Shape, Line, Owned
<1>2. rw.oldest_element <= k
  <2>1. PICK s \in Threads : my_turn[s] = k
    BY <1>0, <1>1 DEF Line, Owned
  <2> QED
    BY <1>0, <2>1 DEF FInv, Ahead
<1> HIDE DEF k, num
<1>3. k + RingSize <= num
  BY <1>0, <1>1, RingApart
<1> DEFINE H == k .. num - 1
           M == Members \ {t}
<1>4. IsFiniteSet(H) /\ Cardinality(H) >= RingSize
  <2>1. IsFiniteSet(H) /\ Cardinality(H) = IF k > num - 1 THEN 0 ELSE num - 1 - k + 1
    <3>1. k \in Int /\ num - 1 \in Int
      BY <1>0, <1>1
    <3> QED
      BY <3>1, FS_Interval
  <2> QED
    BY <1>0, <1>1, <1>3, <2>1, RingAssumption
<1>5. IsFiniteSet(M) /\ Cardinality(M) < RingSize
  <2>1. IsFiniteSet(Members) /\ Cardinality(Members) \in Nat
    BY ThreadsAssumption, FS_Subset, FS_CardinalityType DEF Members
  <2>2. IsFiniteSet(M) /\ Cardinality(M) = Cardinality(Members) - 1
    BY <2>1, FS_RemoveElement
  <2> QED
    BY <2>1, <2>2, RingAssumption DEF OneReader
<1>6. ASSUME NEW h \in H PROVE \E s \in M : my_turn[s] = h
  <2>1. h \in Nat /\ h \in rw.oldest_element .. rw.next_element - 1
    BY <1>0, <1>1, <1>2 DEF num
  <2>2. slot_taken(rw, h)
    BY <1>0, <2>1 DEF Line, Unbroken
  <2>3. PICK s \in Threads : my_turn[s] = h
    <3>1. Slot(h) \in Slots /\ rw.slot_table[Slot(h)] = h
      BY <2>1, <2>2, SlotInRing DEF slot_taken
    <3> QED
      BY <1>0, <2>1, <3>1 DEF Line, Owned
  <2>4. pc[s] \in Waits
    BY <1>0, <2>1, <2>3
  <2>5. s \in Members /\ s # t
    BY <2>4 DEF FInv, Roles, Members, Waits
  <2> QED
    BY <2>3, <2>5
<1> DEFINE f == [h \in H |-> CHOOSE s \in M : my_turn[s] = h]
<1>7. \A h \in H : f[h] \in M /\ my_turn[f[h]] = h
  BY <1>6
<1>8. f \in [H -> M]
  BY <1>7
<1>9. Cardinality(M) < Cardinality(H)
  <2>1. Cardinality(M) \in Nat /\ Cardinality(H) \in Nat
    BY <1>4, <1>5, FS_CardinalityType
  <2> QED
    BY <1>4, <1>5, <2>1, RingAssumption
<1> HIDE DEF f, H, M
<1>10. \E x, y \in H : x # y /\ f[x] = f[y]
  BY <1>4, <1>5, <1>8, <1>9, FS_PigeonHole
<1> QED
  BY <1>7, <1>10

\* With one reader no slot is overwritten.
LEMMA OneReaderFits ==
    ASSUME FInv, OneReader, [Next]_vars
    PROVE  NoOverwrite
<1> SUFFICES ASSUME rw'.next_element # rw.next_element
             PROVE  rw.slot_table[Slot(rw.next_element)] = -1
  BY DEF NoOverwrite
<1>1. PICK t \in Threads : ReadLock(t) \/ WriteLock(t)
  BY OnlyJoinsTake, Parts, Fields DEF FInv
<1>2. pc[t] = "idle" /\ t \in Members
  BY <1>1 DEF ReadLock, WriteLock, Enter, Members
<1> QED
  BY <1>2, RoomForOne

\* Every step keeps the roles and leaves nobody behind the head.
LEMMA NextFInv ==
    ASSUME FInv, OneReader, [Next]_vars
    PROVE  FInv'
<1>0. /\ QInv /\ QInv' /\ NoOverwrite /\ Roles /\ Ahead
      /\ Shape(rw) /\ rw \in RWState
      /\ pc \in [Threads -> Labels] /\ my_turn \in [Threads -> Nat \cup {-1}]
  BY OneReaderFits, NextQInv, Parts, Fields DEF FInv
<1>a. "idle" \notin Waits /\ "quick_wait" \notin Waits /\ "reading" \notin Waits
      /\ "writing" \notin Waits
  BY DEF Waits
<1>1. ASSUME UNCHANGED <<pc, my_turn>>, rw'.oldest_element = rw.oldest_element
      PROVE  FInv'
  BY <1>0, <1>1 DEF FInv, Roles, Ahead
<1>2. ASSUME NEW t \in Threads, NEW l, l \notin Waits, pc' = [pc EXCEPT ![t] = l],
             \A s \in Threads \ {t} : my_turn'[s] = my_turn[s],
             rw'.oldest_element = rw.oldest_element
      PROVE  FInv'
  BY <1>0, <1>2 DEF FInv, Roles, Ahead, Waits
<1>3. ASSUME NEW t \in Threads, NEW l \in Waits, Served(t, l),
             l = "read_wait" => t \in ReadThreads, l = "write_wait" => t \in WriteThreads,
             \A s \in Threads \ {t} : my_turn'[s] = my_turn[s] /\ pc'[s] = pc[s],
             pc[t] \in Waits \/ pc[t] = "idle", pc'[t] = l => my_turn'[t] = TurnOf(t)
      PROVE  FInv'
  <2>0. /\ Line(rw', pc', my_turn') /\ Turns(rw', pc', my_turn')
        /\ TurnOf(t) \in Nat /\ rw.oldest_element \in Nat /\ rw.next_element \in Nat
        /\ rw.oldest_element <= TurnOf(t)
        /\ Line(rw, pc, my_turn) /\ Turns(rw, pc, my_turn)
    <3>1. InOrder(rw', pc', my_turn', cv') /\ Turns(rw', pc', my_turn')
      BY <1>0 DEF QInv, IInv, Core
    <3>2. /\ InOrder(rw, pc, my_turn, cv) /\ Turns(rw, pc, my_turn)
          /\ rw.oldest_element \in Nat /\ rw.next_element \in Nat
          /\ rw.oldest_element <= rw.next_element
      BY <1>0, Parts, Fields
    <3>3. TurnOf(t) \in Nat /\ rw.oldest_element <= TurnOf(t)
      BY <1>0, <1>3, <3>2 DEF TurnOf, Turns, Ahead, Waits
    <3> QED
      BY <3>1, <3>2, <3>3 DEF InOrder
  <2>1. Roles'
    BY <1>0, <1>3, <1>a DEF Roles, Served, Waits
  <2>2. ASSUME NEW s \in Threads, pc'[s] \in Waits
        PROVE  rw'.oldest_element <= my_turn'[s]
    <3>1. CASE s = t
      BY <1>3, <1>a, <2>0, <2>2, <3>1 DEF Served
    <3>2. CASE s # t /\ pc'[s] = "write_wait"
      BY <2>0, <3>2 DEF Line, Registered
    <3>3. CASE s # t /\ pc'[s] = "read_wait"
      <4>1. pc[s] = "read_wait" /\ my_turn'[s] = my_turn[s] /\ s \in ReadThreads
        BY <1>0, <1>3, <3>3 DEF Roles
      <4>2. l = "write_wait"
        BY <1>3, <3>3, <4>1 DEF OneReader, Waits
      <4>3. my_turn[s] \in Nat /\ rw.oldest_element <= my_turn[s] /\ my_turn[s] # TurnOf(t)
        <5>1. my_turn[s] \in Nat /\ rw.oldest_element <= my_turn[s]
              /\ my_turn[s] < rw.next_element
          BY <1>0, <2>0, <4>1 DEF Ahead, Turns, Waits
        <5>2. CASE pc[t] \in Waits
          BY <2>0, <3>3, <5>1, <5>2 DEF TurnOf, Line, Ticketed
        <5>3. CASE pc[t] \notin Waits
          BY <2>0, <5>1, <5>3 DEF TurnOf
        <5> QED
          BY <5>1, <5>2, <5>3
      <4>4. CASE rw'.oldest_element = rw.oldest_element
        BY <4>1, <4>3, <4>4
      <4>5. CASE TurnOf(t) = rw.oldest_element /\ rw'.oldest_element = TurnOf(t) + 1
        BY <2>0, <4>1, <4>3, <4>5
      <4> QED
        BY <1>3, <4>2, <4>4, <4>5 DEF Served
    <3> QED
      BY <2>2, <3>1, <3>2, <3>3 DEF Waits
  <2> QED
    BY <1>0, <2>1, <2>2 DEF FInv, Ahead
<1>4. ASSUME NEW t \in Threads,
             ReadLock(t) \/ ReadLockRetry(t) \/ WriteLock(t) \/ WriteLockRetry(t)
      PROVE  FInv'
  <2>1. \/ (ReadLock(t) \/ ReadLockRetry(t)) /\ Served(t, "read_wait")
        \/ (WriteLock(t) \/ WriteLockRetry(t)) /\ Served(t, "write_wait")
    BY <1>0, <1>4, TicketStepsKeepOrder
  <2>2. /\ pc[t] \in Waits \/ pc[t] = "idle"
        /\ ReadLock(t) \/ ReadLockRetry(t) => t \in ReadThreads
        /\ WriteLock(t) \/ WriteLockRetry(t) => t \in WriteThreads
    BY <1>0, <1>4 DEF ReadLock, ReadLockRetry, WriteLock, WriteLockRetry, Enter, Resume,
                      Roles, Waits
  <2>3. /\ \A s \in Threads \ {t} : my_turn'[s] = my_turn[s] /\ pc'[s] = pc[s]
        /\ pc'[t] \in Waits => my_turn'[t] = TurnOf(t)
    BY <1>0, <1>4, TurnTaken
  <2> QED
    BY <1>3, <2>1, <2>2, <2>3 DEF Waits
<1>5. ASSUME NEW t \in Threads, QuickRead(t) \/ QuickReadRetry(t) PROVE FInv'
  BY <1>0, <1>2, <1>5, <1>a DEF QuickRead, QuickReadRetry, Wait, Return, RWState
<1>6. ASSUME NEW t \in Threads, ReadUnlock(t) \/ WriteUnlock(t) PROVE FInv'
  BY <1>0, <1>2, <1>6, <1>a DEF ReadUnlock, WriteUnlock, Return, RWState
<1>7. ASSUME NEW t \in Threads, SpuriousWakeup(t) PROVE FInv'
  BY <1>1, <1>7 DEF SpuriousWakeup
<1>8. CASE Destroy
  BY <1>1, <1>8 DEF Destroy
<1>9. CASE UNCHANGED vars
  BY <1>1, <1>9 DEF vars
<1> QED
  BY <1>4, <1>5, <1>6, <1>7, <1>8, <1>9 DEF Next

\* The invariant with one reader holds in every reachable state.
THEOREM OneReaderInvariant == OneReader => (Spec => []FInv)
<1> SUFFICES ASSUME OneReader PROVE Spec => []FInv
  OBVIOUS
<1>1. Init => FInv
  <2>1. Init => Roles /\ Ahead
    BY DEF Init, Roles, Ahead, Waits
  <2> QED
    BY <2>1, InitQInv DEF FInv
<1>2. FInv /\ [Next]_vars => FInv'
  BY NextFInv
<1> QED
  BY <1>1, <1>2, PTL DEF Spec

\* With one ticketed reader, and no more ticketed threads than slots, the
\* properties of the queue hold for any number of tickets: the ring wraps safely.
THEOREM OneReaderQueue ==
    OneReader =>
        (Spec => [](CountersExact /\ RingMirrorsWaiters /\ NoLostWakeup
                    /\ MutexReturned /\ DestroySucceeds))
<1> SUFFICES ASSUME OneReader
             PROVE  Spec => [](CountersExact /\ RingMirrorsWaiters /\ NoLostWakeup
                               /\ MutexReturned /\ DestroySucceeds)
  OBVIOUS
<1>1. Spec => []FInv
  BY OneReaderInvariant
<1>2. FInv => (CountersExact /\ RingMirrorsWaiters /\ NoLostWakeup
               /\ MutexReturned /\ DestroySucceeds)
  BY QueueFacts DEF FInv
<1> QED
  BY <1>1, <1>2, PTL

----------------------------------------------------------------------------
(* The order in which threads enter.                                       *)

\* A thread that enters with a ticket took a turn of its loop in this step.
LEMMA EntryIsTurn ==
    ASSUME QInv, [Next]_vars, NEW t \in Threads, EntersWithTicket(t)
    PROVE  /\ ReadLock(t) \/ ReadLockRetry(t) \/ WriteLock(t) \/ WriteLockRetry(t)
           /\ TicketOf(t) = TurnOf(t)
<1>0. /\ rw \in RWState /\ pc \in [Threads -> Labels]
      /\ my_turn \in [Threads -> Nat \cup {-1}]
      /\ \A s \in Threads : my_turn[s] # -1 <=> pc[s] \in Waits
      /\ pc[t] # pc'[t]
  BY Parts, Fields DEF EntersWithTicket
<1> DEFINE Turn(s) == ReadLock(s) \/ ReadLockRetry(s) \/ WriteLock(s) \/ WriteLockRetry(s)
<1>1. ASSUME NEW s \in Threads, Turn(s) PROVE s = t
  <2>1. \A r \in Threads \ {s} : pc'[r] = pc[r]
    BY <1>0, <1>1, TurnTaken
  <2> QED
    BY <1>0, <2>1
<1>2. CASE rw'.next_element # rw.next_element
  <2>1. PICK s \in Threads : ReadLock(s) \/ WriteLock(s)
    BY <1>0, <1>2, OnlyJoinsTake
  <2>2. Turn(s)
    BY <2>1
  <2> QED
    BY <1>0, <1>1, <2>2 DEF TicketOf, TurnOf
<1>3. CASE pc[t] \in Waits
  <2>1. ASSUME NEW s \in Threads,
               QuickRead(s) \/ QuickReadRetry(s) \/ ReadUnlock(s) \/ WriteUnlock(s)
        PROVE  pc'[t] = pc[t]
    <3>1. s # t
      BY <1>3, <2>1 DEF QuickRead, QuickReadRetry, ReadUnlock, WriteUnlock, Enter, Resume, Waits
    <3> QED
      BY <1>0, <2>1, <3>1
      DEF QuickRead, QuickReadRetry, ReadUnlock, WriteUnlock, Wait, Return
  <2>2. ASSUME (\E s \in Threads : SpuriousWakeup(s)) \/ Destroy \/ UNCHANGED vars
        PROVE  pc'[t] = pc[t]
    BY <2>2 DEF SpuriousWakeup, Destroy, vars
  <2>3. \E s \in Threads : Turn(s)
    BY <1>0, <2>1, <2>2 DEF Next
  <2> QED
    BY <1>0, <1>1, <2>3 DEF TicketOf, TurnOf
<1> QED
  BY <1>2, <1>3 DEF EntersWithTicket, Waits

\* It enters with a ticket that is not behind the head, a writer with the head,
\* and nobody else has that ticket.
LEMMA EntryOrder ==
    ASSUME QInv, NoOverwrite, [Next]_vars, NEW t \in Threads, EntersWithTicket(t)
    PROVE  /\ TicketOf(t) \in Nat /\ TicketOf(t) <= rw.oldest_element
           /\ \A s \in Threads \ {t} : pc[s] \in Waits =>
                 my_turn[s] \in Nat /\ my_turn[s] # TicketOf(t)
<1>0. /\ Shape(rw) /\ Turns(rw, pc, my_turn) /\ InOrder(rw, pc, my_turn, cv)
      /\ rw.next_element \in Nat /\ rw.oldest_element \in Nat
      /\ \A s \in Threads : my_turn[s] # -1 <=> pc[s] \in Waits
  BY Parts, Fields
<1>1. /\ ReadLock(t) \/ ReadLockRetry(t) \/ WriteLock(t) \/ WriteLockRetry(t)
      /\ TicketOf(t) = TurnOf(t)
  BY EntryIsTurn
<1>2. TurnOf(t) <= rw.oldest_element
  <2>1. Served(t, "read_wait") \/ Served(t, "write_wait")
    BY <1>1, TicketStepsKeepOrder
  <2>2. pc'[t] \in {"reading", "writing"}
    BY DEF EntersWithTicket
  <2> QED
    BY <1>0, <2>1, <2>2 DEF Served
<1>3. TurnOf(t) \in Nat
  BY <1>0 DEF TurnOf, Turns, Waits
<1>4. ASSUME NEW s \in Threads \ {t}, pc[s] \in Waits
      PROVE  my_turn[s] \in Nat /\ my_turn[s] # TurnOf(t)
  <2>1. my_turn[s] \in Nat /\ my_turn[s] < rw.next_element
    BY <1>0, <1>4 DEF Turns, Waits
  <2>2. CASE pc[t] \in Waits
    BY <1>0, <2>1, <2>2 DEF TurnOf, InOrder, Line, Ticketed
  <2>3. CASE pc[t] \notin Waits
    BY <1>0, <2>1, <2>3 DEF TurnOf
  <2> QED
    BY <2>1, <2>2, <2>3
<1> QED
  BY <1>1, <1>2, <1>3, <1>4

\* A thread that waits to read does not come out writing.
LEMMA WriterNeverReads ==
    ASSUME QInv, [Next]_vars, NEW t \in Threads, EntersWithTicket(t), pc'[t] = "writing"
    PROVE  pc[t] # "read_wait"
<1> SUFFICES ASSUME pc[t] = "read_wait" PROVE FALSE
  OBVIOUS
<1>1. pc \in [Threads -> Labels]
  BY Parts
<1>2. ReadLockRetry(t)
  BY EntryIsTurn DEF ReadLock, WriteLock, WriteLockRetry, Enter, Resume
<1>3. pc'[t] \in {"read_wait", "reading", "idle"}
  BY <1>1, <1>2 DEF ReadLockRetry, ReadLoop, EnterInBatch, GrantBatch, Wait, Return
<1> QED
  BY <1>3

\* No thread that enters with a ticket overtakes a writer that waits with an
\* earlier one.
WritersNotOvertaken ==
    [][\A t \in Threads : EntersWithTicket(t) =>
          \A w \in In("write_wait") : w = t \/ TicketOf(t) < my_turn[w]]_vars

\* Writers are served in the order of their tickets, and readers never overtake
\* one, as long as no slot is overwritten.
THEOREM NoWriterIsOvertaken == Spec /\ [][NoOverwrite]_vars => WritersNotOvertaken
<1>1. ASSUME QInv, NoOverwrite, [Next]_vars, NEW t \in Threads, EntersWithTicket(t),
             NEW w \in In("write_wait"), w # t
      PROVE  TicketOf(t) < my_turn[w]
  <2>1. w \in Threads \ {t} /\ pc[w] = "write_wait" /\ pc[w] \in Waits
    BY <1>1 DEF In, At, Waits
  <2>2. /\ TicketOf(t) \in Nat /\ TicketOf(t) <= rw.oldest_element
        /\ my_turn[w] \in Nat /\ my_turn[w] # TicketOf(t)
    BY <1>1, <2>1, EntryOrder
  <2>3. rw.oldest_element <= my_turn[w] /\ rw.oldest_element \in Nat
    BY <1>1, <2>1, Parts, Fields DEF InOrder, Line, Registered
  <2> QED
    BY <2>2, <2>3
<1>2. QInv /\ [Next]_vars /\ [NoOverwrite]_vars =>
        [\A t \in Threads : EntersWithTicket(t) =>
            \A w \in In("write_wait") : w = t \/ TicketOf(t) < my_turn[w]]_vars
  BY <1>1
<1> QED
  BY <1>2, QueueInvariant, PTL DEF Spec, WritersNotOvertaken

\* With one ticketed reader everybody is served in the order of the tickets, for
\* any number of writers that fit in the ring and any number of tickets.
THEOREM TicketsInOrder == OneReader => (Spec => FirstComeFirstServed)
<1> SUFFICES ASSUME OneReader PROVE Spec => FirstComeFirstServed
  OBVIOUS
<1>1. ASSUME FInv, [Next]_vars, NEW t \in Threads, EntersWithTicket(t),
             NEW s \in Threads \ {t}, pc[s] \in Waits
      PROVE  TicketOf(t) < my_turn[s]
  <2>1. /\ TicketOf(t) \in Nat /\ TicketOf(t) <= rw.oldest_element
        /\ my_turn[s] \in Nat /\ my_turn[s] # TicketOf(t)
    BY <1>1, OneReaderFits, EntryOrder DEF FInv
  <2>2. rw.oldest_element <= my_turn[s] /\ rw.oldest_element \in Nat
    BY <1>1, Parts, Fields DEF FInv, Ahead
  <2> QED
    BY <2>1, <2>2
<1>2. ASSUME FInv, [Next]_vars, NEW t \in Threads, EntersWithTicket(t)
      PROVE  /\ \A w \in In("write_wait") : w = t \/ TicketOf(t) < my_turn[w]
             /\ pc'[t] = "writing" => \A r \in In("read_wait") : TicketOf(t) < my_turn[r]
  <2>1. ASSUME NEW s \in Threads, pc[s] \in Waits
        PROVE  s = t \/ TicketOf(t) < my_turn[s]
    BY <1>1, <1>2, <2>1
  <2>2. pc'[t] = "writing" => pc[t] # "read_wait"
    BY <1>2, WriterNeverReads DEF FInv
  <2> QED
    BY <2>1, <2>2 DEF In, At, Waits
<1>3. FInv /\ [Next]_vars =>
        [\A t \in Threads : EntersWithTicket(t) =>
            /\ \A w \in In("write_wait") : w = t \/ TicketOf(t) < my_turn[w]
            /\ pc'[t] = "writing" => \A r \in In("read_wait") : TicketOf(t) < my_turn[r]]_vars
  BY <1>2
<1>4. Spec => []FInv
  BY OneReaderInvariant
<1> QED
  BY <1>3, <1>4, PTL DEF Spec, FirstComeFirstServed
=============================================================================
