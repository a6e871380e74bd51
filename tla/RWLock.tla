------------------------------- MODULE RWLock -------------------------------
(***************************************************************************)
(* The readers-writer lock of rwlock.c.  Readers and writers take a ticket *)
(* (next_element++) and register it in a ring; oldest_element is the head  *)
(* of the queue.  The reader at the head admits, as one batch, the run of  *)
(* readers behind it (read_batch_end).  A quick reader takes no ticket: it *)
(* waits only for the active writer, and while it waits (qr_waiters) no    *)
(* writer may enter.                                                       *)
(*                                                                         *)
(* All of the lock's data is read and written with rw->lock held, so each  *)
(* stretch of code from pthread_mutex_lock (or the return from             *)
(* pthread_cond_wait) to pthread_mutex_unlock (or to the next              *)
(* pthread_cond_wait) is one step.  What happens between the steps is      *)
(* interleaved: another thread may take the mutex before a thread that was *)
(* woken does.                                                             *)
(***************************************************************************)
EXTENDS Integers, FiniteSets

CONSTANTS
    Threads,        \* the threads that use the lock
    ReadThreads,    \* those that call rwlock_read_lock(rw, 0)
    QuickThreads,   \* those that call rwlock_read_lock(rw, 1)
    WriteThreads,   \* those that call rwlock_write_lock(rw)
    RingSize,       \* WRITER_RING_SIZE
    MaxTicket       \* bound of the model: tickets handed out in a behaviour

ASSUME ThreadsAssumption ==
    /\ IsFiniteSet(Threads)
    /\ ReadThreads \subseteq Threads
    /\ QuickThreads \subseteq Threads
    /\ WriteThreads \subseteq Threads
ASSUME RingAssumption == RingSize \in Nat \ {0} /\ MaxTicket \in Nat

REQ_NONE  == "REQ_NONE"
REQ_READ  == "REQ_READ"
REQ_WRITE == "REQ_WRITE"
ReqType   == {REQ_NONE, REQ_READ, REQ_WRITE}
Slots     == 0 .. RingSize - 1

VARIABLES
    rw,         \* the rwlock_t and its struct uctx, one record
    cv,         \* the threads blocked in pthread_cond_wait(&uctx->cv)
    leaked,     \* the mutex was left locked by a call that has returned
    pc,         \* where each thread is
    my_turn,    \* the ticket of a thread that waits with one
    destroyed   \* the outcome of rwlock_destroy
vars == <<rw, cv, leaked, pc, my_turn, destroyed>>

RWState == [current_readers : Nat,
            current_writers : {0, 1},
            next_element    : Nat,
            oldest_element  : Nat,
            qr_waiters      : Nat,
            read_batch_end  : Nat \cup {-1},
            request_type    : [Slots -> ReqType],
            slot_table      : [Slots -> Nat \cup {-1}]]

Labels == {"idle", "quick_wait", "read_wait", "write_wait", "reading", "writing"}
At(p, label) == {t \in Threads : p[t] = label}
In(label)    == At(pc, label)

----------------------------------------------------------------------------
(* The helpers, as functions of the lock's record u.                       *)

Slot(num) == num % RingSize
get_request_type(u, num) == u.request_type[Slot(num)]

slot_taken(u, num) == u.slot_table[Slot(num)] = num
slot_matches(u, num, type) == slot_taken(u, num) /\ get_request_type(u, num) = type

\* Variant: the ticket stays in its slot.
consume_entry_TypeOnly(u, num) == [u EXCEPT !.request_type[Slot(num)] = REQ_NONE]

consume_entry(u, num) ==
    [u EXCEPT !.slot_table[Slot(num)] = -1,
              !.request_type[Slot(num)] = REQ_NONE]

join_fifo(u, num, type) ==
    [u EXCEPT !.next_element = @ + 1,
              !.slot_table[Slot(num)] = num,
              !.request_type[Slot(num)] = type]

\* head is the first ticket from "from" on whose slot still holds it, or
\* next_element when no ticket does.
find_valid_head(u, from) ==
    CHOOSE head \in from .. u.next_element :
        /\ head = u.next_element \/ slot_taken(u, head)
        /\ \A h \in from .. head - 1 : ~slot_taken(u, h)

\* Variant: the run does not stop at a writer.
past_batch_AnyType(u, head) ==
    CHOOSE end \in head .. u.next_element :
        /\ \A h \in head .. end - 1 : slot_taken(u, h)
        /\ ~slot_taken(u, end)

\* The first ticket after the unbroken run of readers that starts at head.
past_batch(u, head) ==
    CHOOSE end \in head .. u.next_element :
        /\ \A h \in head .. end - 1 : slot_matches(u, h, REQ_READ)
        /\ ~slot_matches(u, end, REQ_READ)

Init ==
    /\ rw = [current_readers |-> 0, current_writers |-> 0,
             next_element |-> 0, oldest_element |-> 0,
             qr_waiters |-> 0, read_batch_end |-> -1,
             request_type |-> [i \in Slots |-> REQ_NONE],
             slot_table |-> [i \in Slots |-> -1]]
    /\ cv = {}
    /\ leaked = FALSE
    /\ pc = [t \in Threads |-> "idle"]
    /\ my_turn = [t \in Threads |-> -1]
    /\ destroyed = "no"

----------------------------------------------------------------------------
(* The three ways a step that holds the mutex ends.                        *)

\* pthread_cond_wait: release the mutex and block.
Wait(t, label, turn, u) ==
    /\ rw' = u
    /\ pc' = [pc EXCEPT ![t] = label]
    /\ my_turn' = [my_turn EXCEPT ![t] = turn]
    /\ cv' = cv \cup {t}
    /\ UNCHANGED leaked

\* Return from the call in pc "label"; "woken" are the threads broadcast to.
Return(t, label, u, woken) ==
    /\ rw' = u
    /\ pc' = [pc EXCEPT ![t] = label]
    /\ my_turn' = [my_turn EXCEPT ![t] = -1]
    /\ cv' = cv \ woken
    /\ UNCHANGED leaked

\* rwlock_write_lock returns -1 without unlocking: nobody gets the mutex again.
ReturnLeakingMutex(t, u) ==
    /\ rw' = u
    /\ pc' = [pc EXCEPT ![t] = "idle"]
    /\ my_turn' = [my_turn EXCEPT ![t] = -1]
    /\ leaked' = TRUE
    /\ UNCHANGED cv

\* t gets rw->lock: on entry to a call, or on its way out of pthread_cond_wait.
Enter(t)  == pc[t] = "idle" /\ ~leaked /\ destroyed = "no"
Resume(t, label) == pc[t] = label /\ t \notin cv /\ ~leaked

(* Quick readers.                                                          *)

QuickRead(t) ==
    /\ Enter(t)
    /\ t \in QuickThreads
    /\ UNCHANGED destroyed
    /\ IF rw.current_writers = 0
         THEN Return(t, "reading", [rw EXCEPT !.current_readers = @ + 1], {})
         ELSE Wait(t, "quick_wait", -1, [rw EXCEPT !.qr_waiters = @ + 1])

\* Variant: qr_waiters is not decremented on the way out.
QuickReadRetry_StillCounted(t) ==
    /\ Resume(t, "quick_wait")
    /\ UNCHANGED destroyed
    /\ IF rw.current_writers > 0
         THEN Wait(t, "quick_wait", -1, rw)
         ELSE Return(t, "reading", [rw EXCEPT !.current_readers = @ + 1], cv)

QuickReadRetry(t) ==
    /\ Resume(t, "quick_wait")
    /\ UNCHANGED destroyed
    /\ IF rw.current_writers > 0
         THEN Wait(t, "quick_wait", -1, rw)
         ELSE Return(t, "reading",
                     [rw EXCEPT !.qr_waiters = @ - 1, !.current_readers = @ + 1], cv)

(* Readers with a ticket.                                                  *)

\* The reader is in the granted batch; if a later ticket has taken its slot
\* the call fails after current_readers was raised.
EnterInBatch(t, turn, u) ==
    LET in == [u EXCEPT !.current_readers = @ + 1]
    IN  IF slot_taken(u, turn)
          THEN Return(t, "reading", consume_entry(in, turn), {})
          ELSE Return(t, "idle", in, {})

\* Variant: the rest of the batch is not woken.
GrantBatch_Silent(t, turn, u) ==
    LET end == past_batch(u, turn)
        in  == [u EXCEPT !.read_batch_end = end - 1,
                         !.oldest_element = end,
                         !.current_readers = @ + 1]
    IN  Return(t, "reading", consume_entry(in, turn), {})

\* The reader is the head: it grants the batch that starts with it.
GrantBatch(t, turn, u) ==
    LET end == past_batch(u, turn)
        in  == [u EXCEPT !.read_batch_end = end - 1,
                         !.oldest_element = end,
                         !.current_readers = @ + 1]
    IN  Return(t, "reading", consume_entry(in, turn), cv)

\* One turn of the loop of rwlock_read_lock with ticket "turn".
ReadLoop(t, turn, u) ==
    LET head == find_valid_head(u, u.oldest_element)
        kept == IF head = u.next_element THEN u ELSE [u EXCEPT !.oldest_element = head]
    IN  IF u.current_writers > 0
          THEN Wait(t, "read_wait", turn, u)
        ELSE IF turn <= u.read_batch_end
          THEN EnterInBatch(t, turn, u)
        ELSE IF turn = head /\ get_request_type(u, head) = REQ_READ
          THEN GrantBatch(t, turn, u)
        ELSE   Wait(t, "read_wait", turn, kept)

ReadLock(t) ==
    /\ Enter(t)
    /\ t \in ReadThreads
    /\ rw.next_element < MaxTicket
    /\ UNCHANGED destroyed
    /\ ReadLoop(t, rw.next_element, join_fifo(rw, rw.next_element, REQ_READ))

ReadLockRetry(t) ==
    /\ Resume(t, "read_wait")
    /\ UNCHANGED destroyed
    /\ ReadLoop(t, my_turn[t], rw)

\* Variant: the last reader out wakes nobody.
ReadUnlock_Silent(t) ==
    /\ pc[t] = "reading" /\ ~leaked
    /\ UNCHANGED destroyed
    /\ Return(t, "idle", [rw EXCEPT !.current_readers = @ - 1, !.read_batch_end = -1], {})

\* sleep(delay) only delays the step.  A negative count is not reachable from
\* calls that unlock what they locked.
ReadUnlock(t) ==
    /\ pc[t] = "reading" /\ ~leaked
    /\ UNCHANGED destroyed
    /\ IF rw.current_readers - 1 > 0
         THEN Return(t, "idle", [rw EXCEPT !.current_readers = @ - 1], {})
         ELSE Return(t, "idle", [rw EXCEPT !.current_readers = @ - 1,
                                           !.read_batch_end = -1], cv)

(* Writers.                                                                *)

\* Variant: the head is left on the ticket just consumed.
EnterWrite_HeadKept(t, turn, u) ==
    LET in == consume_entry([u EXCEPT !.current_writers = 1], turn)
    IN  Return(t, "writing", [in EXCEPT !.read_batch_end = -1], {})

\* The head is this writer: it becomes the active writer.
EnterWrite(t, turn, u) ==
    LET in == consume_entry([u EXCEPT !.current_writers = 1], turn)
    IN  Return(t, "writing",
               [in EXCEPT !.oldest_element = find_valid_head(in, turn + 1),
                          !.read_batch_end = -1], {})

\* Variants of the loop: active writers, active readers or the queue ignored.
WriteLoop_IgnoresWriters(t, turn, u) ==
    LET head == find_valid_head(u, u.oldest_element)
        kept == [u EXCEPT !.oldest_element = head]
    IN  IF u.current_readers > 0 \/ u.qr_waiters > 0
          THEN Wait(t, "write_wait", turn, u)
        ELSE IF turn = head /\ slot_matches(u, turn, REQ_WRITE)
          THEN EnterWrite(t, turn, kept)
        ELSE   Wait(t, "write_wait", turn, kept)
WriteLoop_IgnoresReaders(t, turn, u) ==
    LET head == find_valid_head(u, u.oldest_element)
        kept == [u EXCEPT !.oldest_element = head]
    IN  IF u.current_writers > 0 \/ u.qr_waiters > 0
          THEN Wait(t, "write_wait", turn, u)
        ELSE IF turn = head /\ slot_matches(u, turn, REQ_WRITE)
          THEN EnterWrite(t, turn, kept)
        ELSE   Wait(t, "write_wait", turn, kept)
WriteLoop_IgnoresQueue(t, turn, u) ==
    IF u.current_readers > 0 \/ u.current_writers > 0 \/ u.qr_waiters > 0
      THEN Wait(t, "write_wait", turn, u)
      ELSE EnterWrite(t, turn, u)

\* One turn of the loop of rwlock_write_lock with ticket "turn".
WriteLoop(t, turn, u) ==
    LET head == find_valid_head(u, u.oldest_element)
        kept == [u EXCEPT !.oldest_element = head]
    IN  IF u.current_readers > 0 \/ u.current_writers > 0 \/ u.qr_waiters > 0
          THEN Wait(t, "write_wait", turn, u)
        ELSE IF head = u.next_element
          THEN ReturnLeakingMutex(t, kept)
        ELSE IF turn = head /\ slot_matches(u, turn, REQ_WRITE)
          THEN EnterWrite(t, turn, kept)
        ELSE   Wait(t, "write_wait", turn, kept)

WriteLock(t) ==
    /\ Enter(t)
    /\ t \in WriteThreads
    /\ rw.next_element < MaxTicket
    /\ UNCHANGED destroyed
    /\ WriteLoop(t, rw.next_element, join_fifo(rw, rw.next_element, REQ_WRITE))

WriteLockRetry(t) ==
    /\ Resume(t, "write_wait")
    /\ UNCHANGED destroyed
    /\ WriteLoop(t, my_turn[t], rw)

\* Variant: the writer wakes nobody.
WriteUnlock_Silent(t) ==
    /\ pc[t] = "writing" /\ ~leaked
    /\ UNCHANGED destroyed
    /\ Return(t, "idle", [rw EXCEPT !.current_writers = @ - 1,
                                    !.read_batch_end = -1], {})

WriteUnlock(t) ==
    /\ pc[t] = "writing" /\ ~leaked
    /\ UNCHANGED destroyed
    /\ Return(t, "idle", [rw EXCEPT !.current_writers = @ - 1,
                                    !.read_batch_end = -1], cv)

----------------------------------------------------------------------------
(* POSIX lets a wait end without a broadcast.                              *)
SpuriousWakeup(t) ==
    /\ t \in cv
    /\ cv' = cv \ {t}
    /\ UNCHANGED <<rw, leaked, pc, my_turn, destroyed>>

\* The server calls it after its threads have joined: nobody is in a call.
Destroy ==
    /\ \A t \in Threads : pc[t] = "idle"
    /\ ~leaked /\ destroyed = "no"
    /\ LET in_use == \/ rw.current_readers > 0 \/ rw.current_writers > 0
                     \/ rw.qr_waiters > 0
                     \/ rw.oldest_element # rw.next_element
       IN  destroyed' = IF in_use THEN "EBUSY" ELSE "yes"
    /\ UNCHANGED <<rw, cv, leaked, pc, my_turn>>

Next ==
    \/ \E t \in Threads : \/ QuickRead(t) \/ QuickReadRetry(t)
                          \/ ReadLock(t) \/ ReadLockRetry(t) \/ ReadUnlock(t)
                          \/ WriteLock(t) \/ WriteLockRetry(t) \/ WriteUnlock(t)
                          \/ SpuriousWakeup(t)
    \/ Destroy

Spec == Init /\ [][Next]_vars

\* Scheduling: a woken thread eventually gets the mutex, and a thread that
\* holds the lock eventually unlocks it.  Nobody has to call, and nothing has
\* to wake up by itself.
Fairness == \A t \in Threads :
    /\ WF_vars(QuickReadRetry(t)) /\ WF_vars(ReadLockRetry(t)) /\ WF_vars(WriteLockRetry(t))
    /\ WF_vars(ReadUnlock(t)) /\ WF_vars(WriteUnlock(t))

FairSpec == Spec /\ Fairness

----------------------------------------------------------------------------
(* Properties.                                                             *)

Readers == In("reading")
Writers == In("writing")

\* Every variable keeps its type: in particular no counter goes below zero and
\* there is never a second active writer in current_writers.
TypeOK ==
    /\ rw \in RWState
    /\ cv \subseteq Threads
    /\ leaked \in BOOLEAN
    /\ pc \in [Threads -> Labels]
    /\ my_turn \in [Threads -> Nat \cup {-1}]
    /\ destroyed \in {"no", "yes", "EBUSY"}

\* A writer is alone: no second writer and no reader, quick ones included,
\* whatever the batches, tickets and ring slots look like.
MutualExclusion ==
    \A t, s \in Threads : pc[t] = "writing" /\ s # t => pc[s] \notin {"reading", "writing"}

\* No call returns with the mutex locked.
MutexReturned == ~leaked

\* The counters the decisions are taken from say what the threads are doing.
CountersExact ==
    /\ rw.current_readers = Cardinality(Readers)
    /\ rw.current_writers = Cardinality(Writers)
    /\ rw.qr_waiters = Cardinality(In("quick_wait"))

\* Every writer that waits still owns its ring slot and is not behind the head,
\* and every slot in use belongs to exactly one waiting thread: the ring is a
\* faithful picture of the queue although tickets share slots.
RingMirrorsWaiters ==
    /\ \A t \in In("write_wait") :
          slot_matches(rw, my_turn[t], REQ_WRITE) /\ rw.oldest_element <= my_turn[t]
    /\ \A i \in Slots : rw.slot_table[i] # -1 =>
          Cardinality({t \in Threads : my_turn[t] = rw.slot_table[i]}) = 1

\* What each kind of waiter is waiting for.
MayEnter(t) ==
    LET head == find_valid_head(rw, rw.oldest_element)
    IN  \/ pc[t] = "quick_wait" /\ rw.current_writers = 0
        \/ /\ pc[t] = "read_wait" /\ rw.current_writers = 0
           /\ my_turn[t] <= rw.read_batch_end \/ my_turn[t] = head
        \/ /\ pc[t] = "write_wait" /\ my_turn[t] = head
           /\ rw.current_writers = 0 /\ rw.current_readers = 0 /\ rw.qr_waiters = 0

\* No wakeup is lost: a thread asleep on the condition variable could not enter
\* if it looked now, so whatever makes it able to enter also wakes it.
NoLostWakeup == \A t \in cv : ~MayEnter(t)

\* Tickets are served in order: a thread that enters with a ticket overtakes no
\* writer with an earlier one, and a writer no reader; only readers of a batch
\* overtake readers.
EntersWithTicket(t) == /\ pc[t] # pc'[t]
                       /\ pc'[t] \in {"reading", "writing"}
                       /\ pc[t] \in {"read_wait", "write_wait"} \/ rw'.next_element # rw.next_element
TicketOf(t) == IF my_turn[t] # -1 THEN my_turn[t] ELSE rw.next_element
FirstComeFirstServed ==
    [][\A t \in Threads : EntersWithTicket(t) =>
          /\ \A w \in In("write_wait") : w = t \/ TicketOf(t) < my_turn[w]
          /\ pc'[t] = "writing" => \A r \in In("read_wait") : TicketOf(t) < my_turn[r]]_vars

\* When all threads have returned, rwlock_destroy finds the queue empty and the
\* counters at zero ("make sure lock is not in use").
DestroySucceeds == destroyed # "EBUSY"

\* Every thread that waits for the lock gets it.
ReadersServed == \A t \in ReadThreads  : pc[t] = "read_wait" ~> pc[t] = "reading"
QuickServed   == \A t \in QuickThreads : pc[t] = "quick_wait" ~> pc[t] = "reading"
WritersServed == \A t \in WriteThreads : pc[t] = "write_wait" ~> pc[t] = "writing"

\* The ticket lock implements the abstract readers-writer lock.
Abstract == INSTANCE ReadersWriters WITH readers <- Readers, writers <- Writers
ImplementsReadersWriters == Abstract!Spec
=============================================================================
