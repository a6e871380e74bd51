# Specifications and proofs for the system programming assignments

The repository holds the assignments of a course, in C. `Lab1` removes comments
from a C source, `Lab2` lists directory trees, `Lab3` is a heap manager in two
versions beside a reference one, and `202110421_assign5` is a multi-threaded
key-value server with its own readers-writer lock and hash table. This directory
models all of them. For each part there is a TLA+ module translated from the
code and small instances for TLC; for the lock, the hash table, the server
and all three heap managers there are also machine-checked proofs for every instance.

## Inventory

| Part | Code | State it keeps | Operations | Modules |
|---|---|---|---|---|
| Readers-writer lock | `src/202110421_assign5/rwlock.c` | counters of readers, writers and waiting quick readers; a ticket counter, the head of the queue, a ring of slots, the end of the granted batch; one mutex and one condition variable | init, read lock (quick or with a ticket), write lock, both unlocks, destroy | `ReadersWriters` (abstract), `RWLock`, `RWLockMC`, `RWLockProofs` |
| Hash table | `src/202110421_assign5/hashtable.c` | per bucket a linked list of heap nodes, a size, a lock | insert, search, update, delete, destroy, dump | `KVStore` (abstract), `KeyHash`, `HashTable`, `HashTableMC`, `HashTableProofs` |
| Server | `src/202110421_assign5/server.c` | the shutdown flag, the listening socket, per worker a client, a receive buffer and a response | start-up, creation of the workers, SIGINT, main's wait and shutdown, the worker's accept, receive, serve, send, close | `Server`, `ServerMC`, `ServerProofs` |
| Chunks, heap manager 1 | `src/Lab3/src/chunk.c`, `heapmgr1.c` | headers and footers in the heap's memory, the heap's end, one free list | malloc, free, the heap check | `Allocator` (abstract), `Chunk`, `HeapMgr1`, `HeapMgr1MC`, `ChunkProofs`, `HeapMgr1Proofs` |
| Heap manager 2 | `src/Lab3/src/heapmgr2.c` | the same with ten bins of free lists | malloc, free, the heap check | `Allocator`, `Chunk`, `HeapMgr2`, `HeapMgr2MC`, `ChunkProofs`, `HeapMgr2Proofs` |
| Reference heap manager | `src/Lab3/reference/heapmgrbase.c`, `chunkbase.c` | headers, one singly linked list in the order of addresses | malloc, free, the heap check | `Allocator`, `HeapMgrBase`, `HeapMgrBaseMC`, `HeapMgrBaseProofs` |
| Directory tree listing | `src/Lab2/202110421_assign2/dirtree.c` | the calls of a recursion and their open directories, two summaries | traversal to a depth, filter with look-ahead, pattern matching, summaries | `Pattern`, `DirTree`, `DirTreeMC` |
| Comment remover | `src/Lab1/decomment_past.c` | one of six states, the kind of quote, a mark for a backslash, line counters | one pass over the text | `Decomment`, `DecommentMC` |
| Not modelled | `heapmgrkr.c`, `heapmgrgnu.c`, `src/Lab3/past_ lab3`, the skeleton of Lab1, tests and scripts | | | see the end |

How they interact. The server's workers call `skvs_serve` (in a library that is
not in the repository), which calls the hash table; the table takes one
readers-writer lock per bucket. `server.c` destroys the store, and with it the
table and the locks, when the workers have been joined. The heap managers
share the interface `heapmgr.h`, the two of `src` also `chunk.c`, and one of them is
linked. `dirtree.c` and `decomment_past.c` are programs of their own; the first
shares the file system with whatever else runs.

What is hard, by part:

* **Lock.** Interleavings of threads that were woken with threads that just
  arrive; tickets that share a slot of the ring; a batch of readers granted by
  its first member and joined by the others whenever they wake; a writer held
  back by quick readers; one condition variable for everybody, so that a missing
  broadcast leaves a thread asleep for good.
* **Table.** Two threads in one bucket; pointers into a list while another
  thread relinks and frees nodes; failures of a lock call or of an allocation
  halfway through an operation.
* **Server.** Requests cut up by the network, responses sent in parts, clients
  that leave, a signal at the wrong instant, a start that fails or is interrupted
  halfway, a shutdown with workers in any place.
* **Heap managers.** Long sequences of calls; boundaries (a chunk that just
  fits, or leaves a rest too small to be a chunk); coalescing with both
  neighbours of a chunk that is also somewhere on a list; a header used after
  the chunk has been merged away; sizes that wrap.

* **Directory tree.** Two readings of the same directory that have to agree (the
  look-ahead for a match, and the listing); files that vanish or come up between
  two system calls; error paths in the middle of a recursion; backtracking.
* **Comment remover.** What a character means depends on everything before it.

`PROJECT.json` lists each of these hazards at its line, with the properties that
would catch it.

## The lock: `ReadersWriters`, `RWLock`

`RWLock` holds `rwlock_t` and its private context as one record `rw`, with the
field names of the code. All of it is read and written under one mutex, so the
stretch from `pthread_mutex_lock`, or the return from `pthread_cond_wait`, to the
unlock or to the next wait is one action: `QuickRead`, `ReadLock` and
`WriteLock` are the first stretch of a call, the `...Retry` actions a turn of
its loop after a wakeup. `cv` is the set of threads asleep on the condition
variable; a broadcast empties it, `SpuriousWakeup` takes one thread out. A call
of `rwlock_write_lock` that returns -1 without unlocking is modelled as it is
(`leaked`: nobody gets the mutex again). `sleep(delay)` in the unlocks only
delays a step and is left out.

`WRITER_RING_SIZE` comes from a header that is not in the repository; it is the
constant `RingSize`. `MaxTicket` bounds the tickets of a behaviour, and is a
guard of `ReadLock` and `WriteLock` only.

| Run | Instance | Question | Result |
|---|---|---|---|
| `rwlock_wrap` | a reader, a quick reader, two writers, 3 slots, 9 tickets | types, exclusion, counters, ring, nobody overtaken, destroy, quick readers served, with slots reused | hold |
| `rwlock_batch` | three readers, two writers, 7 slots, 7 tickets | wakeups, the mutex, writers served, refinement (and with it exclusion), with batches of readers | hold |
| `rwlock_stranded` | two readers, a writer, 6 slots | is every ticketed reader served | no |

The bounds make the interesting cases happen. In `rwlock_wrap` the tickets go
around the ring three times with at most three outstanding, so slots are reused
but never overwritten while somebody waits for them. In `rwlock_batch` three readers
queue up behind a writer, so that a batch has members that wake late, and a
second writer waits behind it; every ticket has its own slot. With seven tickets in all the
stream of readers ends: `WritersServed` is checked for streams of that length, and not for
endless ones.

Some things no run does and the proofs cover: overwriting a slot (`Exclusion`,
`Refinement`), and a quick reader beside a batch of several (`WakeupsArrive`, `Refinement`).

The counterexample is a disagreement of the code with itself.
`rwlock_read_unlock` forgets the granted batch when the count of readers falls
to zero, also while a member of the batch has not woken yet; the head has passed
that reader's ticket, so it waits for ever. `FirstComeFirstServed` is checked with
one ticketed reader for the same reason: a batch of one cannot be split, and a
stranded reader is overtaken by everybody. A second one follows: the others overrun
the slot of a reader left behind, and when a later ticket has taken a batch
member's slot, `rwlock_read_lock` returns -1 after having raised
`current_readers`, which then stays too high (`rwlock.c:162`; two readers, a writer,
3 slots and 8 tickets show it). `CountersExact` is therefore checked, and proved, where the
slots suffice.

Fairness: a woken thread eventually gets the mutex and a holder eventually
unlocks. `WritersServed` is checked without quick readers: these take no ticket,
and a stream of them that never ends keeps `current_readers` above zero, by
design. Nobody has to call, and no spurious wakeup is assumed. Weak fairness
suffices because a waiter that is woken stays able to run until it does, unless
the mutex has been leaked. The system may stop (all threads idle, or
destroyed, or asleep with nobody calling), so `CHECK_DEADLOCK` is off; a thread
asleep for no reason is what `NoLostWakeup` and the liveness properties exclude.

### Proofs (`RWLockProofs`, first part)

For all thread sets, roles, ring sizes and ticket bounds:

* `Invariance`: `IInv` is an invariant.
* `TypeCorrect`: `TypeOK`.
* `Exclusion`: a writer is alone (`MutualExclusion`).
* `Refinement`: `Spec => ImplementsReadersWriters`.

`MutualExclusion` is not inductive: a writer enters because the *counters* are
zero, so the invariant has to tie the counters to the threads. `IInv` does it
in three parts. `Counts`: the threads reading are at most `current_readers`
(at most, since a reader that gives up after being counted leaves it too high),
and the writing and the waiting quick threads are exactly `current_writers`
and `qr_waiters`. `Shape`: the head and every slot's ticket are not past
`next_element`, which is what makes the searches of `find_valid_head` and of the
batch end inside their range. `Turns`: a waiting thread has a ticket that
was handed out. The key lemma is `Move`, on how the three cardinalities change
when one thread moves from one place to another; each action then has a lemma
that it keeps the invariant. `Refinement` follows from `IInv` by mapping each
action to an acquire, a release or a stutter. The proofs use
`ThreadsAssumption` (finitely many threads, roles are subsets) and
`RingAssumption` (at least one slot), and nothing that relates the ring to the
number of threads. No run overwrites slots and checks exclusion: the theorem
covers that case.

### Proofs (`RWLockProofs`, second part: the queue)

Everything else about the queue depends on the ring being large enough: `join_fifo`
writes into the slot of the new ticket without looking. The hypothesis is
`NoOverwrite`: a step that hands out a ticket finds its slot free. It is an
action, so the theorems read `Spec /\ [][NoOverwrite]_vars => ...`:

* `QueueInvariant`: `QInv` is an invariant.
* `CountersAreExact`, `RingIsTheQueue`, `WakeupsArrive`, `MutexComesBack`,
  `DestroyFindsLockFree`: the invariants `CountersExact`, `RingMirrorsWaiters`,
  `NoLostWakeup`, `MutexReturned`, `DestroySucceeds` that the runs check.
* `NoWriterIsOvertaken`: whoever enters with a ticket overtakes no waiting writer
  that has an earlier one, with any number of readers.

Which constants rule overwriting out? A bound on the *number of threads* does not, by
itself: a reader stranded by a split batch (above) keeps its slot while the tickets go
round. Two conditions do:

* `MaxTicket <= RingSize`, no slot is used twice (`ShortRun`, the instances of
  `rwlock_batch` and `rwlock_stranded`);
* `OneReader`, one thread at most reads with tickets, and there is a slot for each
  thread that takes tickets (`OneReaderQueue`, for any number of tickets and turns around
  the ring; the instance of `rwlock_wrap`). Then `FirstComeFirstServed` holds as a whole
  (`TicketsInOrder`). Its second half, that no writer overtakes a reader, is false
  with two ticketed readers, as said above.

`QInv` adds to `IInv`: `Line`, that the waiting threads and the slots in use correspond
(`Ticketed`, `Registered`, `Owned`), with no gap from the head on (`Unbroken`);
`Exact`, that `current_readers` is the number of readers and the granted batch lies
before the head; `Asleep`, that every thread asleep has a reason (`Blocked`). The
reason is what makes `NoLostWakeup` inductive: each step that takes a reason away from
somebody has to broadcast. The lemmas on the loops of the two locks
(`ReadLoopKeepsOrder`, `WriteLoopKeepsOrder`) start from a thread that holds the mutex
and is in line, whether it has just joined (`PoisedByJoin`) or has just woken
(`PoisedAgain`), so that the first turn and the later ones share their proof. TLC
checked `QInv` on an instance with batches and a ring of three slots that is used
several times, before it was proved.

## The table: `KVStore`, `KeyHash`, `HashTable`

`HashTable` models each call from its invocation to its reply: take the lock of
the bucket (or fail), walk node by node, act, unlock. Nodes are addresses in
an explicit heap, freed and reused; a step through a dangling pointer is simply
not possible in the model, and `NoDangling` says that it is never needed. The
bucket's lock is taken at its abstract word (`ReadersWriters`, which `RWLock`
is proved to implement), except that a call may fail. Who gets a lock, and
whether, is the lock's business: no liveness is stated here, but `ListsConsistent`
includes that the walk of a call that has its lock comes to an end. `malloc` and `strdup`
may fail at any time. When the first allocation of `hash_insert`, or the one of
`hash_update`, fails, nothing has been allocated (`OutOfMemory`); when a `strdup` of
`hash_insert` fails, the node has, and is in the hand of the thread until `StrdupFails` frees it.
A node stands for its two strings as well, so that which of them had been copied is not told apart.
`hash_destroy` may fail at a bucket's lock, after it has freed the bucket's nodes
(`hashtable.c:105`); the model stops there, as nobody calls again, and no property is about it.
`hash_dump` prints and changes nothing, and is left out.

`KVStore` is the promise: every call takes effect at one instant between
invocation and reply, or fails without effect. `ImplementsKVStore` shows it,
with the contents of the lists as the refinement mapping.

Keys are short strings hashed by `KeyHash`, with the word cut to ten bits so that
wrapping happens on three characters. The three keys of the instance meet in one
of two buckets, so that two threads work on one list of up to three nodes, insert at its head,
update and unlink its first, inner and last node; the three node addresses are
reused as soon as they are freed. Threads, addresses and values are
interchangeable, hence the symmetry set; the run has no liveness property, for
which symmetry would be unsound. Threads may stop calling and a destroyed table takes no calls: `CHECK_DEADLOCK` is off.

`table_shared` checks types, no dangling pointer, `ListsConsistent` (keys unique in
lists that end, sizes exact, no node lost), none left after destroy, copies that do
not change under the reader, and the refinement. All hold.

### Proofs (`HashTableProofs`)

For all threads, keys, values, nodes, bucket counts, and every hash function:

* `TableInvariant`: `IInv` is an invariant; `TableTypes`: `TypeOK`.
* `NothingDangles`: no thread needs a node that has been freed (`NoDangling`).
* `ListsAgree`: `ListsConsistent`, with keys unique, sizes exact, no node lost.
* `DestroyLeavesNothing`: `DestroyFreesAll`; `CopiesAreStable`: `CopyIsStable`.
* `TableImplementsStore`: `Spec => ImplementsKVStore`, so the table is linearizable
  with failures.

What a list is follows from its pointers only by walking them, and a recursive walk
cannot be reasoned about here. The invariant says it without a walk: there are two
functions on nodes, `own`, the bucket a node is listed in (`HashSize`: none), and `rank`,
which falls strictly from each node of a list to the next and differs between any
two of a list (`Listed`). The steps that relink say how the functions change: the new
head gets a rank above all others of its bucket, and an unlinked node loses its owner. That lists
end, and that `Chain` collects exactly the nodes of a bucket (`ChainIsListed`), are
consequences: `Chain` is the least closed set, a definition without recursion.
The other parts: `Locked`, the lock words are the threads between locking and
unlocking, and a writer is alone; `Standing`, where a thread is in the list of its
bucket and which keys it has ruled out on the way; `Hands`, every node
that is allocated and not listed is in the hand of one thread; `Counted`,
`bucket_sizes` up to the increments and decrements still due.

The refinement needs, besides, that the contents of the lists are a function of keys
(`Holds`) and that the answer a caller carries is the one the store gave it
at the step where its call took effect. Every step but one of each kind of call
(reading the value, overwriting it, linking, unlinking, or the end of a fruitless walk)
leaves the contents alone and is a stutter.

Assumed of the constants: finite threads and nodes, `HashSize` at least 1, hash values
below `HashSize` (`TableAssumption`), and that the record standing for "no call" is
no call (`NoCallAssumption`).

## The server: `Server`

`Server` models `main` from `signal` on, the signal handler, and `handle_client`.
Main starts the server (a failure of any call ends the process, also after some
workers have been created), creates the workers one by one while the earlier ones
already serve, waits, shuts down and joins. A SIGINT before the handler is there
kills the process. A worker's step is a stretch up to the next blocking call or the
next test of the flag. A client is an external actor that writes the bytes of
`Script`, in any pieces, and may hang up; `recv` returns any prefix of what was
written and `send` takes any part of what is left. The contents of a byte is the
request it belongs to and whether it ends a line. `skvs_serve` is known by its
result alone: `ServeResults` is what it may return. A process-directed SIGINT is
delivered to the main thread, as Linux does when that thread does not block it;
`signal` in the C library makes the workers' calls restart, so they do not see it.
A send to a client that is gone takes the error path of the code, or raises SIGPIPE,
which the code leaves at its default, and the process dies: `main = "dead"`.

The test of the flag and the entry into `pause()` are two steps, and a SIGINT
between them is announced by the handler ("Shutting down the server...") and slept
through. `SigintHeard` says that this gap is the only one: the history variable
`heard` records a SIGINT at any other point, and such a one always leads to the
shutdown.

When `skvs_serve` returns 0 the comment on the line says "keep receiving from the same
client" (`server.c:127`), but the code does not: the line is still in the buffer, so it is served
again at once, and `recv` is not called. While the result is 0 the worker spins, does
not notice that its client has hung up, and does not close the connection. That is
the exception in `AbandonedIsClosed`, which TLC violates without it: a connection that was
hung up gets closed unless `skvs_serve` answers 0 again and again. `ServeResults` is all of
-1, 0 and 1 in both runs. When the library answers 0 is not known here. A call answered with 0
leaves no trace in `served`: `ServedInOrder` is about the calls that have a response.

`accept`, `recv` and `send` may also fail at any time for reasons of their own
(`CallFails`); fairness makes no use of that.

| Run | Instance | Question | Result |
|---|---|---|---|
| `server_requests` | one worker, two clients with longer scripts | buffer never overfull, requests whole and in order, responses whole, for all cuts | hold |
| `server_pool` | two workers, two clients with one request, one SIGINT | a connection is open while exactly one worker holds it and none when the store is destroyed, connections that were hung up are closed, a shutdown ends, a SIGINT is heard | hold; the first unless `skvs_serve` answers 0 for ever, the second once the clients have left |

Bounds: two workers and two clients are enough for a connection to be taken from
the queue by either and for one worker to be in `recv` while the other exits. The
buffer has four bytes, requests have two or three, one is too long, and one `recv` brings up
to three: lines arrive whole, in parts, several at a time, exactly filling the
buffer and overfilling it. One SIGINT reaches each place.

Fairness (`FairSpec`): threads that can go on do, and `accept` returns once its socket is shut
down. Nothing is assumed of clients or of the signal, so `StopsWhenClientsLeave`
promises an end only if the open connections have been hung up: a worker in
`recv` on an idle client is not woken by the shutdown, and `main` waits for it.
The clients may fall silent at any time, so `CHECK_DEADLOCK` is off.

### Proofs (`ServerProofs`)

For all numbers of workers, clients and signals, all sizes of the buffers, all scripts,
all ways to cut them up and all results of `skvs_serve`:

* `ServerInvariant`: `IInv` is an invariant; `ServerTypes`: `TypeOK`, with the
  buffer never overfull.
* `OneWorkerPerConnection`: `OneHolder`.
* `RequestsInOrder`: `ServedInOrder`. The requests served are the client's, whole and
  one after the other.
* `ResponsesWhole`: `RepliesWhole`.

The inductive invariant has, besides types (`Typed`): `Holding`, a worker holds a client
exactly in its loop over requests, and no two the same; `Joined`, the store goes after the last
worker; `Replied`, the bytes received so far are all full responses plus what `send` has
taken of the last one; `InStep`, the heart of it: what a worker has in its buffer is the piece of the
script from the end of the last answered request up to the last byte received (`Cut`).
That the lines cut out of the buffer are the requests of the script follows because both
are ended by the same bytes.

`ServerAssumption` asks for finitely many workers, sizes that are naturals (a receive
is of at least one byte), and that the bytes of `Script` are labelled with the request
they belong to: the first is of request 1, and the number goes up after each end of a
line. The label is a way to name the requests; `ServedInOrder` says with it that the
`i`-th request served is the sub-sequence of the script whose positions have label `i`.

## The heap managers: `Allocator`, `Chunk`, `HeapMgr1`, `HeapMgr2`, `HeapMgrBase`

`Chunk` models memory: units numbered from the bottom of the heap, each of which
may hold a header and a footer. Getters and setters, neighbours, validity and
the walks of the heap check are translated from `chunk.c` and
`check_heap_validity`. What nobody may rely on (the inside of free chunks and of a
block just handed out) is blanked after each call by `Forget`, which
only merges states that differ there. Payload of a client's blocks is kept, so
that a write into it shows.

`HeapMgr1` and `HeapMgr2` have one action per outcome of a call: `MallocFits`,
`MallocGrows`, `FreeBlock`. The managers are single-threaded, so a call is one step.
The assertions that the code evaluates on the way (the whole heap check among
them) are evaluated on the intermediate heaps; if one fails, the call ends in
`aborted`, as a debug build does. A failing `sbrk` changes nothing, so no property
could tell a right failure from a wrong one. Sizes
are in bytes and wrap at `SIZE_T`, spans passed as `int` wrap at `INT`.

`HeapMgrBase` is the reference manager with its own chunks: headers only, one
list in the order of addresses, blocks cut from the end of a free chunk, a new
chunk merged into the last one when the heap grows. Its heap check looks only at
the chunks that are on the list, so `ListIsTheFreeMemory` says what it leaves out:
the list is all free memory, in order, without two free neighbours. In the same
units as the others it implements the same `Allocator`.

`Allocator` is what `heapmgr.h` promises: space of the size asked for that
overlaps no other block.

| Run | Question | Result |
|---|---|---|
| `heap1_lists` | nothing lost and no free neighbours, the promise with the payload untouched, as long as no stale header was returned; no assertion fails before | hold |
| `heap1_grow` | does an assertion ever fail | yes |
| `heap2_bins` | no assertion fails, used is live, the promise with the payload untouched | hold |
| `heapbase_list` | no assertion fails, the list is the free memory, the promise with the payload untouched | hold |

`heap1_grow` is a bug of `heapmgr1.c`: `sys_grow_and_link` returns the header it
made after `freelist_push_front` has merged that chunk into the free chunk before
it. `malloc(100); free; malloc(20000); free` aborts. The variable `stale`
records that this has happened, and the other properties of `HeapMgr1` are
stated for behaviours in which it has not: with the proofs below they show that this is
the only way things go wrong, for all sizes that do not wrap. `heapmgr2.c` searches its bins
again after growing, and `heap2_bins` and the proofs show that this repairs it.

The largest sizes break both managers of `src`, outside of the sizes of these runs: the
sum in `bytes_to_payload_units` wraps and a block without payload is returned
(`heapmgr2.c:30`: with `SIZE_T` 2048, a request of 2040 bytes gets none). For sizes a
little smaller the number of bytes passed to `sbrk` wraps instead (`GrowSpan`,
`NewBreak`, `Signed` model both), and the assertion of `chunk.c:49` on the span fails.

Bounds: growth by at least 4 data units instead of 1024, heaps of 12 to 18
units, that is two or three growths. Sizes below, at and above a unit, and one above
the minimal growth, make chunks that fit exactly, with a rest of one unit (kept
whole) and with a rest of two or more (split), and growths for one request alone.
Three bins with limits 4
and 8 instead of ten from 8 on hold chunks of the sizes that occur; the bins' limits
double in both. `SIZE_T` is 2048 and `INT` 64: both are larger than twice the heap, as 2^64 and 2^32 are, and a
size near either wraps. The client only frees what it holds, each block once, as
`heapmgr.h` requires. It may stop, and the heap may be full, so `CHECK_DEADLOCK` is off.

### Proofs (`HeapMgrBaseProofs`)

For all sizes of the unit and of the heap, every minimal growth, every set of sizes and
every sequence of calls, under `SizesFit`:

* `HeapInvariant`: `IInv` is an invariant.
* `HeapAssertions`: `NoAssertionFails`; `HeapList`: `ListIsTheFreeMemory`.
* `HeapKeepsPromise`: `Spec => KeepsPromise`. Each call is a `Malloc` or a `Free` of
  `Allocator` or changes nothing, and no call writes into a block that the client keeps.

`SizesFit` says of every size the client asks for that neither the sum in
`bytes_to_payload_units` nor the number of bytes passed to `sbrk` wraps. It is a
hypothesis because the code does not look: without it the sum wraps and a block is too
small for its size. It leaves sizes up to almost half of the address space, and `sbrk` may
fail for any growth beyond `MaxUnits`.

Both the heap check and the search of the list walk from header to header. The invariant
is about a set `C` of units instead, the headers of the chunks, and has no walk in it.
`Tiled`: the chunks at `C` cover the heap, each ending where the next begins. `Headed`
and `Chained`: the head is the first free chunk, and `next` leads from each to the next
free one above it. `Apart`: no two free chunks are side by side. `Clients`: the used
chunks are the client's blocks, one each, with the span that its size takes. That the
walks of the code find `C` and the free part of it (`ChunksAre`, `ListIs`), and that the
two searches find what they are meant to (`FirstFit`, `LastIs`, `BeforeIs`), is proved
once each, with the iteration lemmas of `LeastElements`.

Each list operation has a lemma that says which set of chunks it leaves and which headers
it writes (`Coalesce`, `Push`, `Insert`, `Detach`, `Split`, `Grows`). It is the
second part that `KeepsPromise` needs: only headers of `C`, of the new chunk, or of free
chunks are written, and a client's payload contains none of them (`PayloadInside`). In
`Insert` a chunk is merged with both neighbours, and the list between the two merges has two
adjacent free chunks on it: `Apart` has a parameter for the chunks still to be merged.
`GrowsToFit` covers the case in which the new chunk is merged into the last one and then split in
its old place, the one that `heapmgr1.c` gets wrong.

`HeapAssumption` asks that `SIZE_T` is a multiple of two units and `INT` even, and that the bound of the heap is below half
of both. TLC checked `IInv` on the instance of `heapbase_list`, which satisfies `SizesFit`, before it was proved.

### Proofs (`ChunkProofs`, `HeapMgr2Proofs`, `HeapMgr1Proofs`)

The two managers of `src`, for all sizes of the unit and of the heap, every minimal growth,
every set of sizes, every number of bins and first limit, under the same hypothesis
`SizesFit` (stated again for `Chunk` in `ChunkProofs`):

* `BinsInvariant`: `IInv` of `HeapMgr2Proofs` is an invariant.
* `BinsAssertions`: `NoAssertionFails`; `BinsUsed`: `UsedIsLive`;
  `BinsKeepPromise`: `Spec => KeepsPromise`.
* `ListInvariant`: `IInv` of `HeapMgr1Proofs` is an invariant.
* `ListAborts`: `AbortsOnlyWhenStale`; `ListAccounts`: `EveryChunkAccountedFor`;
  `ListKeepsPromise`: `Spec => KeepsPromise`. For `heapmgr1.c` these say what the properties
  say: everything holds until growth returns a header that has been merged away.

What the chunks are follows from walking the heap, and what is free from walking the lists.
Again the invariants have sets in place of walks, `C` of headers and `F` of free ones.
`Tiled`: the chunks at `C` cover the heap, each ending where the next begins, and each footer has
the span of its header, which is what finding the chunk *below* relies on. `Linked`: from
`head`, `next` and `prev` lead through the chunks of `F`. It is not enough that the two undo
each other, since a ring of chunks that nothing leads into would satisfy that as well; `NoRing`
excludes it. `Idle`: chunks in use have no links. `Apart` and `Clients` are as in
`HeapMgrBaseProofs`. `ChunksAre`, `ListIs`, `FirstFitIs` (with `NoneTwice` and `ListEnds`: no chunk comes up twice on the
way, so that the walk ends) prove that the walks of the code
meet `C` and `F`, once, with the iteration lemmas of `LeastElements`.

An operation is a sequence of writes to single fields, and between two of them no list is in
order. `ChunkProofs` has a lemma for each setter, and `Relinked` composes them: which chunks
got another status, `next` or `prev`, with everything else as it was. From there follow what
taking a chunk off a list and putting one in front of it do (`TakenOut`, `PutFirst`), and what
merging, splitting and growing do to the tiling (`Merges`, `Splitting`, `Growing`,
`Forgetting`). `Kept` says which chunks are as before, so that no client's payload was
written. These lemmas do not know which manager calls them.

*`HeapMgr2`.* Bin `i` is the list of the free chunks whose span belongs there (`InBin`,
`Binned`). Inside a call, a chunk may be in no bin; the parameter `X` is the set of these. Each
operation has a lemma saying which `C` and `X` it leaves (`Detach`, `Insertion`, `Coalesce`,
`PushFront`, `Takes`). That the chunk that is merged is always looked for in the bin it is in is
`Coalesce`. After growing, `bin_push_front` may have merged the new chunk, so that it is in a
later bin than its own: the search finds one all the same, because a larger span has the same bin or
a later one (`LaterBin`, `SearchFinds`). `BinLimit` is a recursive function; `LimitsAre` proves
that it is the iteration it looks like.

*`HeapMgr1`.* `IInv` is under `~stale`, and `stale` is never taken back. `coalesce_two` unlinks both
chunks and then writes the links of their neighbours once more, from values it has read
before; `Coalesce` has to show that these writes change nothing, also when the two chunks
are neighbours on the list (`UnlinkAgain`). `freelist_push_front` checks the whole heap
when it is done, which `PushFront` and `GoodIsValid` show to succeed. When growth merges nothing the header it
returns is on the list, and what follows is the case of a chunk that was found there
(`GrowsToFit`); otherwise `stale` is set, and nothing more is claimed.

The constants are those of the code, with `ChunkAssumption` (a size is not zero and fits
`size_t`; `SIZE_T` a multiple of two units, `INT` even, the bound of the heap below half of both)
and `BinsAssumption` (at least one bin, a first limit). TLC checked both `IInv` on the instances of
`heap1_lists` and `heap2_bins`, which satisfy `SizesFit`, before they were proved.

## The directory tree: `Pattern`, `DirTree`

`Pattern` has `validate_pattern` and `match` as the code computes them, and, apart
from them, what the README of the lab says of patterns (`WellFormed`, `Matches`, in
terms of elements one after the other).

`DirTree` models `main` from its arguments on, `process_dir` and
`subtree_has_match`, with the recursion as a stack of calls. A step is one call that
reads the file system (`lstat`, or `opendir` with the reading of the directory) with
what the code does of the result; the stack says where each
call goes on. Between steps other programs create and remove files (`FileAppears`,
`FileVanishes`). `out` has the lines about paths, without their layout, `printed` the
summaries. What can fail, can: directories that may not be read or searched, paths
that do not fit their buffer, a missing or too small argument, an invalid pattern.
Failures of `realloc`, which end the program, and what is printed of an owner's
name are left out.

`dirtree` checks, over trees with two levels of directories, five filters and all
depths:

* `ListsAsDocumented`: without interference, the listing is the documented one, in
  the documented order, and look-ahead and listing agree.
* `SummariesAddUp`, `StandsBelowItsDirectory`, `DirsAreClosed`: whatever happens to
  the files meanwhile, the summaries count what was printed, each line stands below
  its directory, and every directory is closed.
* `MatchesAsDocumented`: the matcher and the validation do what the README
  says, for all patterns of up to four characters, and of three elements in a row,
  against all names of up to four letters.

All hold, with these exceptions, each of which is stated in the property and without
which TLC finds it violated:

* `?*` takes only question marks: `dirtree.c:345` compares the characters of the
  name with the pattern's `?`.
* With a filter, a file that comes up between the look-ahead and the listing is
  printed although the name of its directory was not, and so appears below another.
* A path that does not fit silently ends the listing of its directory, not only of
  the entry.

The lines on directories that may not be read are kept apart (`denied`), so that the other
lines can be compared without them, and no property asks when they are printed. For a root that
`lstat` fails on the model prints the line that says it is missing; the code does so only
for `ENOENT`, and a root of the model cannot fail for another reason. `make_child_path` adds no second
`/` to a root given with one at its end; no root of the model is.

Bounds: four arguments of which one is missing, one is a file, and one is beyond
`MAX_DIR` = 3; depths 0 to 3 of at most `MAX_DEPTH` = 3 (0 is refused); a
`MAX_PATH_LEN` of 9 that only the longest path exceeds; one file that comes and one
that goes (`MaxCreated`, `MaxRemoved`), in any place, which suffices for every pair
of readings of one directory to differ. The program ends, so `CHECK_DEADLOCK` is off.

## The comment remover: `Decomment`

One step per `getchar()`, and one for the end of the file; the actions are the
handlers of the states. The properties do not look at the automaton: they
cut the whole text into comments, constants and other characters (`Kind`, `End`,
`Starts`), as the lab's readme defines them, and say what becomes of each.

`decomment` checks them over every text of up to seven characters from
`"`, `'`, `/`, `*`, backslash, newline and a letter, the last one a newline. Seven
suffice for a comment in a constant, a constant in a comment, two tokens in a row,
and all pairs of escapes. The output is as documented (`OutputAsDocumented`) and the
reported line and the newlines are right (`LinesAsDocumented`), except for four
mistakes that the properties name and that TLC finds when they are left out. Two leave
the rest of the text alone, and `Printed` and `Lost` say to the character what they change:

* a `//` comment leaves two spaces, one when it begins (`decomment_past.c:111`) and one
  before its newline (`:63`), where the readme has one, in words and in its examples (l. 19,
  31, 47);
* a newline right behind a `*` in a comment is dropped (`handleWaitEnd`), where the readme wants
  a blank line for every line of a comment (l. 32). A newline right behind the `*` that opens the
  comment is kept, as the readme's example has it (l. 109).

After the other two the automaton has lost its way, and such a text is left out (`LosesItsWay`):

* a quote right behind a `/` does not begin a constant (`decomment_past.c:119`);
* after an even number of backslashes, two or more, the closing quote of a constant is taken
  for an escaped one (`decomment_past.c:99`).

That the program exits with success after an unterminated comment (`decomment_past.c:87`;
the readme's item 9 asks for `EXIT_FAILURE`), and drops a `/` at the very end of a file,
is known and not part of the properties: the model has no exit status.

## What is model-checked only, and why

* Liveness under fairness, for the lock and the server.
* The second half of `FirstComeFirstServed` with several ticketed readers, where the
  slots suffice: stranded readers make it false.
* The directory tree and the comment remover. Their main properties (`SummariesAddUp`,
  `OutputAsDocumented`, `LinesAsDocumented`) compare a sequence with what a fold over another one
  gives, and a fact about a fold of every length is an induction over data; the induction
  theorems of the library are out of the provers' reach. `Pattern`, which `DirTree` is built on,
  has RECURSIVE operators besides.
* The heap managers without `SizesFit`: there the code does go wrong (see above).
* What the recursive definitions of `KeyHash`, `Pattern` and the tokens of `Decomment` compute.
  Recursion that repeats one step is within reach: `LeastElements` has the existence of
  the iterated function (`Iterates`) and induction up to a bound (`UpTo`), which suffice
  for the walks of the table and of the heaps and for `BinLimit`.

Every operator whose name has an underscore and a suffix with a capital
(`Recv_Unchecked`, `freelist_push_front_FastPath`) is a faulty variant of the definition
that follows it. No specification uses it; it shows that the property listed with it in `PROJECT.json` notices the fault.

## Not modelled

* `heapmgrkr.c` and `heapmgrgnu.c`: yardsticks of the performance test, an allocator
  from a textbook and a wrapper of the C library.
* `src/Lab3/past_ lab3`: earlier versions of `heapmgr1.c` and `heapmgr2.c`, which the
  program no longer uses.
* `src/Lab1/student`: the hand-out, which reads characters and counts lines.
* The tests, `testcode-lab5` and the scripts: read for what they expect.
* `skvslib`, with `skvs_serve`: not in the repository, modelled by its result. It is passed
  the address of `response_len`, an `int`, as that of an `unsigned long` (`server.c:121`), and
  so writes eight bytes over four; what else they hit is up to the compiler. The model has the
  length that comes out of it, `ReplyLen`, and nothing of what may be overwritten.
* What happens to the threads and connections of a process that is exiting (`StartFails`,
  SIGPIPE): the model ends there.
* Option parsing and the layout of printed lines, which keep no state. A negative
  number of threads in `server.c`, which sizes an array, is outside of the model.
* Data races in the sense of C: `g_shutdown` is a `volatile sig_atomic_t` that a handler
  writes and all threads read; the model takes each access as atomic, as the platform does.

## Plan

1. Done: models of all parts; proofs of the lock, the hash table, the server and the
   three heap managers.
2. `DirTree`: the recursion of `Pattern` as functions, then `DirsAreClosed` (the open directories
   are those of the frames past `opendir`) and `StandsBelowItsDirectory`.
