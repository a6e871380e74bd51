----------------------------- MODULE HashTable -----------------------------
(***************************************************************************)
(* The chained hash table of hashtable.c, used by several threads.  Every  *)
(* bucket is a linked list of heap nodes guarded by a readers-writer lock; *)
(* a call locks the bucket of its key, walks the list node by node and     *)
(* acts on what it finds.  The lock is taken at its abstract word          *)
(* (ReadersWriters, which RWLock implements) except that a call of it may  *)
(* also fail.  Memory is explicit: malloc and strdup may fail, free makes  *)
(* a node's address available again, and a pointer to it dangles.          *)
(***************************************************************************)
EXTENDS Integers, FiniteSets

CONSTANTS
    Threads, Keys, Values,
    HashSize,           \* hash_size, the number of buckets
    BucketOf,           \* hash(key, hash_size), a function of the key
    Nodes,              \* the addresses malloc can return for a node_t
    NULL, NoValue, NoCall, Unallocated

ASSUME TableAssumption ==
    /\ HashSize \in Nat \ {0}
    /\ BucketOf \in [Keys -> 0 .. HashSize - 1]
    /\ IsFiniteSet(Nodes) /\ IsFiniteSet(Threads)
    /\ NULL \notin Nodes /\ NoValue \notin Values
    /\ \A k \in Keys, v \in Values, n \in Nodes \cup {NULL} :
          Unallocated # [key |-> k, value |-> v, next |-> n]

Buckets == 0 .. HashSize - 1
Calls == [op : {"insert", "update"}, key : Keys, value : Values]
           \cup [op : {"read", "delete"}, key : Keys]
Node == [key : Keys, value : Values, next : Nodes \cup {NULL}]

ASSUME NoCallAssumption ==
    /\ NoCall \notin Calls
    /\ \A ret \in -1 .. 1, dst \in Values \cup {NoValue} : NoCall # [ret |-> ret, dst |-> dst]

VARIABLES
    heap,               \* the node at each address, or Unallocated
    buckets,            \* table->buckets, the head of each list
    bucket_sizes,       \* table->bucket_sizes
    readers, writers,   \* the threads that hold each bucket's lock
    call, answer,       \* the call of each thread, and its return value
    pc,                 \* where each thread is in its call
    node, prev,         \* next_node (curr_node) and prev_node
    newnode,            \* the node hash_insert has allocated
    destroyed,          \* how many buckets hash_destroy has freed
    destroy_failed      \* hash_destroy has returned -1
table == <<heap, buckets, bucket_sizes>>
locks == <<readers, writers>>
local == <<node, prev, newnode>>
end   == <<destroyed, destroy_failed>>
vars  == <<table, locks, call, answer, pc, local, end>>

Answer(ret, dst) == [ret |-> ret, dst |-> dst]

Init ==
    /\ heap = [n \in Nodes |-> Unallocated]
    /\ buckets = [b \in Buckets |-> NULL]
    /\ bucket_sizes = [b \in Buckets |-> 0]
    /\ readers = [b \in Buckets |-> {}] /\ writers = [b \in Buckets |-> {}]
    /\ call = [t \in Threads |-> NoCall] /\ answer = [t \in Threads |-> NoCall]
    /\ pc = [t \in Threads |-> "idle"]
    /\ node = [t \in Threads |-> NULL] /\ prev = [t \in Threads |-> NULL]
    /\ newnode = [t \in Threads |-> NULL]
    /\ destroyed = 0 /\ destroy_failed = FALSE

----------------------------------------------------------------------------
idx(t) == BucketOf[call[t].key]
Op(t)  == call[t].op
Goto(t, label) == pc' = [pc EXCEPT ![t] = label]
Decide(t, ret, dst) == answer' = [answer EXCEPT ![t] = Answer(ret, dst)]

Invoke(t) ==
    /\ pc[t] = "idle" /\ destroyed = 0 /\ ~destroy_failed
    /\ \E c \in Calls : call' = [call EXCEPT ![t] = c]
    /\ Goto(t, "lock")
    /\ UNCHANGED <<table, locks, answer, local, end>>

\* The walk starts at the head of the bucket, read with the lock held.
StartWalk(t) ==
    /\ node' = [node EXCEPT ![t] = buckets[idx(t)]]
    /\ prev' = [prev EXCEPT ![t] = NULL]
    /\ Goto(t, "walk")
    /\ UNCHANGED <<table, call, answer, newnode, end>>

LockRead(t) ==
    /\ pc[t] = "lock" /\ Op(t) = "read"
    /\ writers[idx(t)] = {}
    /\ readers' = [readers EXCEPT ![idx(t)] = @ \cup {t}]
    /\ UNCHANGED writers
    /\ StartWalk(t)

\* Variant: the writer does not wait for the readers of the bucket.
LockWrite_PassesReaders(t) ==
    /\ pc[t] = "lock" /\ Op(t) # "read"
    /\ writers[idx(t)] = {}
    /\ writers' = [writers EXCEPT ![idx(t)] = {t}]
    /\ UNCHANGED readers
    /\ StartWalk(t)
\* Variant: hash_update and hash_delete take the lock for reading.
LockWrite_InsertOnly(t) ==
    /\ pc[t] = "lock" /\ Op(t) # "read"
    /\ writers[idx(t)] = {}
    /\ IF Op(t) = "insert"
         THEN /\ readers[idx(t)] = {}
              /\ writers' = [writers EXCEPT ![idx(t)] = {t}]
              /\ UNCHANGED readers
         ELSE /\ readers' = [readers EXCEPT ![idx(t)] = @ \cup {t}]
              /\ UNCHANGED writers
    /\ StartWalk(t)

LockWrite(t) ==
    /\ pc[t] = "lock" /\ Op(t) # "read"
    /\ readers[idx(t)] = {} /\ writers[idx(t)] = {}
    /\ writers' = [writers EXCEPT ![idx(t)] = {t}]
    /\ UNCHANGED readers
    /\ StartWalk(t)

\* The lock call returns -1 and so does the operation, without unlocking.
LockFails(t) ==
    /\ pc[t] = "lock"
    /\ Decide(t, -1, NoValue)
    /\ Goto(t, "return")
    /\ UNCHANGED <<table, locks, call, local, end>>

----------------------------------------------------------------------------
(* The walk.  A live node is compared; a dangling pointer is undefined     *)
(* behaviour, which NoDangling excludes.                                   *)

Live(n) == n \in Nodes /\ heap[n] # Unallocated
At(t, label) == pc[t] = label /\ Live(node[t])
Matches(t) == heap[node[t]].key = call[t].key

Advance(t) ==
    /\ At(t, "walk") /\ ~Matches(t)
    /\ prev' = [prev EXCEPT ![t] = node[t]]
    /\ node' = [node EXCEPT ![t] = heap[node[t]].next]
    /\ UNCHANGED <<table, locks, call, answer, pc, newnode, end>>

\* hash_insert leaves an existing key alone; the others act on the node.
Found(t) ==
    /\ At(t, "walk") /\ Matches(t)
    /\ \/ Op(t) = "insert" /\ Decide(t, 0, NoValue) /\ Goto(t, "unlock")
       \/ Op(t) # "insert" /\ Goto(t, Op(t)) /\ UNCHANGED answer
    /\ UNCHANGED <<table, locks, call, local, end>>

NotFound(t) ==
    /\ pc[t] = "walk" /\ node[t] = NULL
    /\ \/ Op(t) = "insert" /\ Goto(t, "insert") /\ UNCHANGED answer
       \/ Op(t) # "insert" /\ Decide(t, 0, NoValue) /\ Goto(t, "unlock")
    /\ UNCHANGED <<table, locks, call, local, end>>

----------------------------------------------------------------------------
(* hash_read copies the value out while it holds the lock.                 *)
Copy(t) ==
    /\ At(t, "read")
    /\ Decide(t, 1, heap[node[t]].value)
    /\ Goto(t, "unlock")
    /\ UNCHANGED <<table, locks, call, local, end>>

(* hash_update swaps in a copy of the new value and frees the old one.     *)
ReplaceValue(t) ==
    /\ At(t, "update")
    /\ heap' = [heap EXCEPT ![node[t]].value = call[t].value]
    /\ Decide(t, 1, NoValue)
    /\ Goto(t, "unlock")
    /\ UNCHANGED <<buckets, bucket_sizes, locks, call, local, end>>

(* hash_insert allocates a node, links it at the head and counts it.  A    *)
(* node stands for the memory of its two strings as well.                  *)
Allocate(t) ==
    /\ pc[t] = "insert"
    /\ \E n \in Nodes :
          /\ heap[n] = Unallocated
          /\ heap' = [heap EXCEPT ![n] = [key |-> call[t].key, value |-> call[t].value,
                                          next |-> NULL]]
          /\ newnode' = [newnode EXCEPT ![t] = n]
    /\ Goto(t, "link")
    /\ UNCHANGED <<buckets, bucket_sizes, locks, call, answer, node, prev, end>>

\* malloc in hash_insert, or strdup in hash_update, returns NULL: nothing has been
\* allocated.
OutOfMemory(t) ==
    /\ pc[t] = "insert" \/ At(t, "update")
    /\ Decide(t, -1, NoValue)
    /\ Goto(t, "unlock")
    /\ UNCHANGED <<table, locks, call, local, end>>

\* Variant: the node is not freed.
StrdupFails_Leaks(t) ==
    /\ pc[t] = "link"
    /\ newnode' = [newnode EXCEPT ![t] = NULL]
    /\ Decide(t, -1, NoValue)
    /\ Goto(t, "unlock")
    /\ UNCHANGED <<table, locks, call, node, prev, end>>

\* A strdup of hash_insert returns NULL, with the node allocated: it is freed.  (The
\* code unlocks first, but nobody else knows of the node.)
StrdupFails(t) ==
    /\ pc[t] = "link"
    /\ heap' = [heap EXCEPT ![newnode[t]] = Unallocated]
    /\ newnode' = [newnode EXCEPT ![t] = NULL]
    /\ Decide(t, -1, NoValue)
    /\ Goto(t, "unlock")
    /\ UNCHANGED <<buckets, bucket_sizes, locks, call, node, prev, end>>

\* Variant: the two assignments swapped.
Link_Swapped(t) ==
    /\ pc[t] = "link"
    /\ heap' = [heap EXCEPT ![newnode[t]].next = newnode[t]]
    /\ buckets' = [buckets EXCEPT ![idx(t)] = newnode[t]]
    /\ newnode' = [newnode EXCEPT ![t] = NULL]
    /\ Decide(t, 1, NoValue)
    /\ Goto(t, "count")
    /\ UNCHANGED <<bucket_sizes, locks, call, node, prev, end>>

Link(t) ==
    /\ pc[t] = "link"
    /\ heap' = [heap EXCEPT ![newnode[t]].next = buckets[idx(t)]]
    /\ buckets' = [buckets EXCEPT ![idx(t)] = newnode[t]]
    /\ newnode' = [newnode EXCEPT ![t] = NULL]
    /\ Decide(t, 1, NoValue)
    /\ Goto(t, "count")
    /\ UNCHANGED <<bucket_sizes, locks, call, node, prev, end>>

\* Variant: the size of the bucket is not raised.
Count_Skipped(t) ==
    /\ pc[t] = "count"
    /\ Goto(t, "unlock")
    /\ UNCHANGED <<table, locks, call, answer, local, end>>

Count(t) ==
    /\ pc[t] = "count"
    /\ bucket_sizes' = [bucket_sizes EXCEPT ![idx(t)] = @ + 1]
    /\ Goto(t, "unlock")
    /\ UNCHANGED <<heap, buckets, locks, call, answer, local, end>>

(* hash_delete unlinks the node, frees it and counts it out.               *)

\* Variant: the first node of a list is unlinked like any other.
Unlink_NotFirst(t) ==
    /\ At(t, "delete")
    /\ IF prev[t] = NULL
         THEN UNCHANGED <<heap, buckets>>
         ELSE /\ heap' = [heap EXCEPT ![prev[t]].next = heap[node[t]].next]
              /\ UNCHANGED buckets
    /\ Decide(t, 1, NoValue)
    /\ Goto(t, "free")
    /\ UNCHANGED <<bucket_sizes, locks, call, local, end>>

Unlink(t) ==
    /\ At(t, "delete")
    /\ IF prev[t] = NULL
         THEN /\ buckets' = [buckets EXCEPT ![idx(t)] = heap[node[t]].next]
              /\ UNCHANGED heap
         ELSE /\ heap' = [heap EXCEPT ![prev[t]].next = heap[node[t]].next]
              /\ UNCHANGED buckets
    /\ Decide(t, 1, NoValue)
    /\ Goto(t, "free")
    /\ UNCHANGED <<bucket_sizes, locks, call, local, end>>

FreeNode(t) ==
    /\ At(t, "free")
    /\ heap' = [heap EXCEPT ![node[t]] = Unallocated]
    /\ bucket_sizes' = [bucket_sizes EXCEPT ![idx(t)] = @ - 1]
    /\ Goto(t, "unlock")
    /\ UNCHANGED <<buckets, locks, call, answer, local, end>>

\* The operation's own pointers die with it.
Unlock(t) ==
    /\ pc[t] = "unlock"
    /\ readers' = [readers EXCEPT ![idx(t)] = @ \ {t}]
    /\ writers' = [writers EXCEPT ![idx(t)] = @ \ {t}]
    /\ node' = [node EXCEPT ![t] = NULL]
    /\ prev' = [prev EXCEPT ![t] = NULL]
    /\ Goto(t, "return")
    /\ UNCHANGED <<table, call, answer, newnode, end>>

Reply(t) ==
    /\ pc[t] = "return"
    /\ call' = [call EXCEPT ![t] = NoCall]
    /\ answer' = [answer EXCEPT ![t] = NoCall]
    /\ Goto(t, "idle")
    /\ UNCHANGED <<table, locks, local, end>>

----------------------------------------------------------------------------
(* The lists.                                                              *)

\* The nodes of bucket b, followed from its head.
After(n) == IF Live(n) THEN heap[n].next ELSE NULL
Hops(b) ==
    LET hop[i \in 0 .. Cardinality(Nodes)] == IF i = 0 THEN buckets[b] ELSE After(hop[i - 1])
    IN  hop
Chain(b) == LET hop == Hops(b) IN {hop[i] : i \in 0 .. Cardinality(Nodes)} \cap Nodes

\* Variant: only the first node of the list is freed.
DestroyBucket_HeadOnly ==
    /\ \A t \in Threads : pc[t] = "idle"
    /\ destroyed < HashSize /\ ~destroy_failed
    /\ heap' = [n \in Nodes |-> IF n = buckets[destroyed] THEN Unallocated ELSE heap[n]]
    /\ \/ destroyed' = destroyed + 1 /\ UNCHANGED destroy_failed
       \/ destroy_failed' = TRUE /\ UNCHANGED destroyed
    /\ UNCHANGED <<buckets, bucket_sizes, locks, call, answer, pc, local>>

\* hash_destroy, one bucket: the list is freed before rwlock_destroy may say
\* that the lock is busy.  It is called when the threads have been joined.
DestroyBucket ==
    /\ \A t \in Threads : pc[t] = "idle"
    /\ destroyed < HashSize /\ ~destroy_failed
    /\ heap' = [n \in Nodes |-> IF n \in Chain(destroyed) THEN Unallocated ELSE heap[n]]
    /\ \/ destroyed' = destroyed + 1 /\ UNCHANGED destroy_failed
       \/ destroy_failed' = TRUE /\ UNCHANGED destroyed
    /\ UNCHANGED <<buckets, bucket_sizes, locks, call, answer, pc, local>>

Step(t) ==
    \/ LockRead(t) \/ LockWrite(t) \/ LockFails(t)
    \/ Advance(t) \/ Found(t) \/ NotFound(t)
    \/ Copy(t) \/ ReplaceValue(t)
    \/ Allocate(t) \/ OutOfMemory(t) \/ StrdupFails(t) \/ Link(t) \/ Count(t)
    \/ Unlink(t) \/ FreeNode(t)
    \/ Unlock(t) \/ Reply(t)

Next == \/ \E t \in Threads : Invoke(t) \/ Step(t)
        \/ DestroyBucket

Spec == Init /\ [][Next]_vars

----------------------------------------------------------------------------
(* Properties.                                                             *)

Labels == {"idle", "lock", "walk", "read", "update", "insert", "link", "count",
           "delete", "free", "unlock", "return"}

\* Every variable keeps its type; a bucket's size never goes below zero.
TypeOK ==
    /\ heap \in [Nodes -> Node \cup {Unallocated}]
    /\ buckets \in [Buckets -> Nodes \cup {NULL}]
    /\ bucket_sizes \in [Buckets -> Nat]
    /\ readers \in [Buckets -> SUBSET Threads] /\ writers \in [Buckets -> SUBSET Threads]
    /\ pc \in [Threads -> Labels]
    /\ node \in [Threads -> Nodes \cup {NULL}] /\ prev \in [Threads -> Nodes \cup {NULL}]
    /\ newnode \in [Threads -> Nodes \cup {NULL}]
    /\ destroyed \in 0 .. HashSize /\ destroy_failed \in BOOLEAN

\* No thread follows a pointer to a node that another one has freed or moved:
\* where a thread stands in a list, its node is in the list of its own bucket
\* (not yet freed, once unlinked), and prev is the node right before it.
NoDangling ==
    \A t \in Threads : node[t] # NULL =>
        /\ pc[t] \in {"walk", "read", "update", "delete"} => node[t] \in Chain(idx(t))
        /\ pc[t] = "free" => Live(node[t])
        /\ pc[t] \in {"walk", "delete"} =>
              IF prev[t] = NULL THEN buckets[idx(t)] = node[t]
              ELSE prev[t] \in Chain(idx(t)) /\ heap[prev[t]].next = node[t]

\* The lists, counters and memory agree at every point of every call: a key is in
\* one node at most and in its own bucket (two threads that insert one key at once
\* do not both succeed), bucket_sizes counts the nodes up to the steps a writer
\* still has to do, no list is circular, and a node that is in none is in the
\* hands of the one thread that links or frees it.
KeysUnique ==
    \A b \in Buckets : \A n \in Chain(b) : Live(n) =>
        /\ BucketOf[heap[n].key] = b
        /\ \A m \in Chain(b) : Live(m) /\ heap[n].key = heap[m].key => n = m
SizesExact ==
    \A b \in Buckets : b > destroyed \/ (destroyed = 0 /\ ~destroy_failed) =>
        LET Owed(label) == Cardinality({t \in Threads : pc[t] = label /\ idx(t) = b})
        IN  bucket_sizes[b] + Owed("count") = Cardinality(Chain(b)) + Owed("free")
ListsEnd == \A b \in Buckets : Hops(b)[Cardinality(Nodes)] = NULL
NoNodeLost ==
    \A n \in Nodes : Live(n) =>
        \/ \E b \in Buckets : n \in Chain(b)
        \/ Cardinality({t \in Threads : \/ pc[t] = "link" /\ newnode[t] = n
                                        \/ pc[t] = "free" /\ node[t] = n}) = 1
ListsConsistent == KeysUnique /\ SizesExact /\ ListsEnd /\ NoNodeLost

\* What a reader copies does not change under it: from the moment hash_read has
\* found the node until it has copied the value, nobody updates or frees it.
CopyIsStable ==
    [][\A t \in Threads : pc[t] = "read" => heap'[node[t]] = heap[node[t]]]_vars

\* When hash_destroy returns 0, no node is left allocated.
DestroyFreesAll == destroyed = HashSize => \A n \in Nodes : ~Live(n)

\* Each call takes effect at one instant between its invocation and its return.
ValueIn(nodes) == IF nodes = {} THEN NoValue ELSE heap[CHOOSE n \in nodes : TRUE].value
Contents ==
    LET listed == UNION {Chain(b) : b \in Buckets}
    IN  [k \in Keys |-> ValueIn({n \in listed : Live(n) /\ heap[n].key = k})]
Store == INSTANCE KVStore WITH store <- Contents
ImplementsKVStore == Store!Spec
=============================================================================
