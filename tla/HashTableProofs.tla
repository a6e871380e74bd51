---------------------------- MODULE HashTableProofs ----------------------------
(***************************************************************************)
(* Proofs about HashTable, for every number of threads, keys, values,      *)
(* buckets and nodes, and every hash function: the inductive invariant and *)
(* the lemmas about the lists, the safety theorems, and that HashTable     *)
(* implements KVStore.                                                     *)
(*                                                                         *)
(* The lists are made of heap nodes, and what they are follows from the    *)
(* pointers only by walking them.  The invariant says it without a walk: to *)
(* every node belongs the bucket it is listed in (own), or none, and a     *)
(* rank, which falls from each node of a list to the next.                 *)
(***************************************************************************)
EXTENDS HashTable, LeastElements, FiniteSetTheorems, TLAPS

\* The places of a thread that holds a lock.
Held == {"walk", "read", "update", "insert", "link", "count", "delete", "free", "unlock"}

Typed ==
    /\ heap \in [Nodes -> Node \cup {Unallocated}]
    /\ buckets \in [Buckets -> Nodes \cup {NULL}]
    /\ bucket_sizes \in [Buckets -> Int]
    /\ pc \in [Threads -> Labels]
    /\ node \in [Threads -> Nodes \cup {NULL}] /\ prev \in [Threads -> Nodes \cup {NULL}]
    /\ newnode \in [Threads -> Nodes \cup {NULL}]
    /\ call \in [Threads -> Calls \cup {NoCall}]
    /\ destroyed \in 0 .. HashSize /\ destroy_failed \in BOOLEAN

\* A thread is in a call of the kind that its place belongs to, and in none when the
\* table is being destroyed.
InCalls ==
    /\ \A t \in Threads :
          /\ pc[t] # "idle" => call[t] \in Calls
          /\ pc[t] \in {"read", "update", "delete"} => Op(t) = pc[t]
          /\ pc[t] \in {"insert", "link", "count"} => Op(t) = "insert"
          /\ pc[t] = "free" => Op(t) = "delete"
    /\ destroyed > 0 \/ destroy_failed => \A t \in Threads : pc[t] = "idle"

\* The locks are held by the threads that are between locking and unlocking, and a
\* writer has its bucket to itself.
Locked ==
    /\ readers = [b \in Buckets |-> {t \in Threads : pc[t] \in Held /\ Op(t) = "read" /\ idx(t) = b}]
    /\ writers = [b \in Buckets |-> {t \in Threads : pc[t] \in Held /\ Op(t) # "read" /\ idx(t) = b}]
    /\ \A t, u \in Threads :
          pc[t] \in Held /\ pc[u] \in Held /\ idx(t) = idx(u) /\ Op(t) # "read" => t = u

\* The list of bucket b has not been freed by hash_destroy.
Kept(b) == b > destroyed \/ (b = destroyed /\ ~destroy_failed)

\* Every list is its head and, from each node on, the listed node with the next
\* smaller rank; HashSize stands for no list.
Listed(own, rank) ==
    /\ own \in [Nodes -> 0 .. HashSize] /\ rank \in [Nodes -> Nat]
    /\ \A b \in Buckets : IF Kept(b) THEN buckets[b] # NULL => own[buckets[b]] = b
                          ELSE ~Live(buckets[b])
    /\ \A n \in Nodes : own[n] # HashSize =>
          /\ Kept(own[n]) /\ Live(n) /\ BucketOf[heap[n].key] = own[n]
          /\ buckets[own[n]] # NULL /\ rank[n] <= rank[buckets[own[n]]]
          /\ heap[n].next # NULL => own[heap[n].next] = own[n] /\ rank[heap[n].next] < rank[n]
    /\ \A m, n \in Nodes : own[m] = own[n] /\ own[n] # HashSize =>
          /\ rank[m] = rank[n] => m = n
          /\ heap[m].key = heap[n].key => m = n
          /\ rank[m] < rank[n] => heap[n].next # NULL /\ rank[m] <= rank[heap[n].next]

\* Where t stands in the list of its bucket, and what it has not met there.
Standing(t, own, rank) ==
    /\ pc[t] \in {"walk", "read", "update", "delete"} /\ node[t] # NULL => own[node[t]] = idx(t)
    /\ pc[t] \in {"read", "update", "delete"} =>
          node[t] # NULL /\ heap[node[t]].key = call[t].key
    /\ pc[t] \in {"walk", "delete"} =>
          IF prev[t] = NULL THEN buckets[idx(t)] = node[t]
          ELSE own[prev[t]] = idx(t) /\ heap[prev[t]].next = node[t]
    /\ pc[t] = "walk" => \A m \in Nodes :
          own[m] = idx(t) /\ (node[t] = NULL \/ rank[m] > rank[node[t]]) => heap[m].key # call[t].key
    /\ pc[t] \in {"insert", "link"} => \A m \in Nodes :
          own[m] = idx(t) => heap[m].key # call[t].key
    /\ pc[t] = "link" => /\ Live(newnode[t]) /\ own[newnode[t]] = HashSize
                         /\ heap[newnode[t]].key = call[t].key
                         /\ heap[newnode[t]].value = call[t].value
    /\ pc[t] = "free" => Live(node[t]) /\ own[node[t]] = HashSize

\* The node that t has allocated and not linked, or unlinked and not freed.
InHand(t, n) == (pc[t] = "link" /\ newnode[t] = n) \/ (pc[t] = "free" /\ node[t] = n)
Hands(own) ==
    /\ \A n \in Nodes : Live(n) /\ own[n] = HashSize => \E t \in Threads : InHand(t, n)
    /\ \A t, u \in Threads : \A n \in Nodes : InHand(t, n) /\ InHand(u, n) => t = u

\* bucket_sizes, up to the steps that are due.
Due(label, b) == {t \in Threads : pc[t] = label /\ idx(t) = b}
Counted(own) ==
    /\ \A b \in Buckets : bucket_sizes[b] \in Nat
    /\ \A b \in Buckets : b > destroyed \/ (destroyed = 0 /\ ~destroy_failed) =>
          bucket_sizes[b] + Cardinality(Due("count", b)) =
              Cardinality({n \in Nodes : own[n] = b}) + Cardinality(Due("free", b))

Lists(own, rank) ==
    /\ Listed(own, rank) /\ \A t \in Threads : Standing(t, own, rank)
    /\ Hands(own) /\ Counted(own)

Core == Typed /\ InCalls /\ Locked
IInv == Core /\ \E own \in [Nodes -> 0 .. HashSize], rank \in [Nodes -> Nat] : Lists(own, rank)

----------------------------------------------------------------------------
(* Constants, calls and nodes.                                             *)

LEMMA Constants ==
    /\ HashSize \in Nat \ {0} /\ NULL \notin Nodes /\ Unallocated \notin Node
    /\ IsFiniteSet(Nodes) /\ IsFiniteSet(Threads)
    /\ \A b \in Buckets : b \in Nat /\ b # HashSize /\ b < HashSize
    /\ \A k \in Keys : BucketOf[k] \in Buckets
<1>1. Unallocated \notin Node
  <2> SUFFICES ASSUME Unallocated \in Node PROVE FALSE
    OBVIOUS
  <2>1. PICK k \in Keys, v \in Values, n \in Nodes \cup {NULL} :
            Unallocated = [key |-> k, value |-> v, next |-> n]
    BY DEF Node
  <2> QED
    BY <2>1, TableAssumption
<1> QED
  BY <1>1, TableAssumption DEF Buckets

\* A call names a key, and so a bucket.
LEMMA CallTypes ==
    ASSUME NEW c \in Calls
    PROVE  /\ c.key \in Keys /\ BucketOf[c.key] \in Buckets
           /\ c.op \in {"insert", "update", "read", "delete"}
           /\ c.op \in {"insert", "update"} => c.value \in Values
BY Constants DEF Calls

LEMMA Bucket ==
    ASSUME Typed, InCalls, NEW t \in Threads, pc[t] # "idle"
    PROVE  /\ call[t] \in Calls /\ call[t].key \in Keys /\ idx(t) \in Buckets
           /\ Op(t) \in {"insert", "update", "read", "delete"}
BY CallTypes DEF InCalls, idx, Op

\* An allocated node is a record whose fields can be set one by one.
LEMMA Fields ==
    ASSUME NEW r \in Node
    PROVE  /\ r.key \in Keys /\ r.value \in Values /\ r.next \in Nodes \cup {NULL}
           /\ \A v \in Values : /\ [r EXCEPT !.value = v] \in Node
                                /\ [r EXCEPT !.value = v].key = r.key
                                /\ [r EXCEPT !.value = v].next = r.next
           /\ \A n \in Nodes \cup {NULL} : /\ [r EXCEPT !.next = n] \in Node
                                           /\ [r EXCEPT !.next = n].key = r.key
                                           /\ [r EXCEPT !.next = n].value = r.value
                                           /\ [r EXCEPT !.next = n].next = n
BY DEF Node

LEMMA LiveNode ==
    ASSUME Typed, NEW n, Live(n)
    PROVE  n \in Nodes /\ heap[n] \in Node
BY DEF Typed, Live

----------------------------------------------------------------------------
(* Walking a list.                                                         *)

\* Hops is what its recursive definition says.
LEMMA HopsAre ==
    ASSUME Typed, NEW b \in Buckets
    PROVE  /\ Hops(b) \in [0 .. Cardinality(Nodes) -> Nodes \cup {NULL}]
           /\ Hops(b)[0] = buckets[b]
           /\ \A i \in 1 .. Cardinality(Nodes) : Hops(b)[i] = After(Hops(b)[i - 1])
<1> DEFINE S == Nodes \cup {NULL}
           Equation(h) == h = [i \in 0 .. Cardinality(Nodes) |->
                                  IF i = 0 THEN buckets[b] ELSE After(h[i - 1])]
<1>1. PICK N \in Nat : N = Cardinality(Nodes)
  BY Constants, FS_CardinalityType
<1>2. \A n : After(n) \in S
  BY LiveNode, Fields DEF After
<1>3. PICK f \in [S -> S] : \A n \in S : f[n] = After(n)
  <2>1. [n \in S |-> After(n)] \in [S -> S]
    BY <1>2
  <2> QED
    BY <2>1
<1>4. buckets[b] \in S
  BY DEF Typed
<1>5. PICK g \in [0 .. N -> S] : g[0] = buckets[b] /\ \A i \in 1 .. N : g[i] = f[g[i - 1]]
  <2>1. PICK g \in [0 .. N -> S] : Repeats(g, N, buckets[b], f)
    BY <1>4, Iterates
  <2> QED
    BY <2>1 DEF Repeats
<1>6. Equation(g)
  <2>1. \A i \in 1 .. N : g[i] = After(g[i - 1])
    BY <1>3, <1>5
  <2>2. g = [i \in 0 .. N |-> IF i = 0 THEN buckets[b] ELSE After(g[i - 1])]
    BY <1>5, <2>1
  <2> QED
    BY <1>1, <2>2
<1>7. Equation(Hops(b))
  <2>1. Hops(b) = CHOOSE h : Equation(h)
    BY DEF Hops
  <2> HIDE DEF Equation
  <2> QED
    BY <1>6, <2>1
<1>8. PICK h : h = Hops(b)
  OBVIOUS
<1>9. h = [i \in 0 .. N |-> IF i = 0 THEN buckets[b] ELSE After(h[i - 1])]
  BY <1>1, <1>7, <1>8
<1>10. h \in [0 .. N -> S]
  BY <1>2, <1>4, <1>9
<1>11. h[0] = buckets[b] /\ \A i \in 1 .. N : h[i] = After(h[i - 1])
  BY <1>9
<1> QED
  BY <1>1, <1>8, <1>10, <1>11

\* The walk from the head of a list that is kept meets the nodes listed for its
\* bucket, all of them, and ends.
LEMMA ChainIsListed ==
    ASSUME Typed, NEW own, NEW rank, Listed(own, rank), NEW b \in Buckets, Kept(b)
    PROVE  /\ Chain(b) = {n \in Nodes : own[n] = b}
           /\ Hops(b)[Cardinality(Nodes)] = NULL
<1>1. PICK N \in Nat : N = Cardinality(Nodes)
  BY Constants, FS_CardinalityType
<1>2. PICK h \in [0 .. N -> Nodes \cup {NULL}] :
         /\ h = Hops(b) /\ h[0] = buckets[b]
         /\ \A i \in 1 .. N : h[i] = After(h[i - 1])
  BY <1>1, HopsAre
<1>3. /\ own \in [Nodes -> 0 .. HashSize] /\ rank \in [Nodes -> Nat] /\ b # HashSize
      /\ buckets[b] # NULL => own[buckets[b]] = b
  BY Constants DEF Listed
<1>4. ASSUME NEW n \in Nodes, own[n] = b
      PROVE  /\ After(n) = heap[n].next
             /\ After(n) # NULL => own[After(n)] = b /\ rank[After(n)] < rank[n]
  BY <1>3, <1>4 DEF Listed, After
<1>5. ASSUME NEW i \in 0 .. N PROVE h[i] # NULL => own[h[i]] = b
  <2> DEFINE Bad == {j \in 0 .. N : ~(h[j] # NULL => own[h[j]] = b)}
  <2>1. ASSUME Bad # {} PROVE FALSE
    <3>1. PICK j \in Bad : \A k \in Bad : j <= k
      <4>1. Bad \in SUBSET Nat
        OBVIOUS
      <4> QED
        BY <2>1, <4>1, LeastElement
    <3>2. j \in 0 .. N /\ h[j] # NULL /\ own[h[j]] # b
      OBVIOUS
    <3>3. j # 0
      BY <1>2, <1>3, <3>2
    <3>4. j \in 1 .. N /\ j - 1 \in 0 .. N /\ j - 1 \notin Bad
      BY <3>1, <3>2, <3>3
    <3>5. h[j] = After(h[j - 1])
      BY <1>2, <3>4
    <3>6. h[j - 1] \in Nodes
      BY <1>2, <3>2, <3>4, <3>5, Constants DEF After, Live
    <3>7. own[h[j - 1]] = b
      BY <3>4, <3>6, Constants
    <3> QED
      BY <1>4, <3>2, <3>5, <3>6, <3>7
  <2> QED
    BY <2>1
<1>6. ASSUME NEW i \in 0 .. N, NEW j \in 0 .. N, i < j, h[j] # NULL
      PROVE  h[i] # NULL /\ rank[h[j]] < rank[h[i]]
  <2> DEFINE Bad == {k \in i + 1 .. N : h[k] # NULL /\ ~(h[i] # NULL /\ rank[h[k]] < rank[h[i]])}
  <2>1. ASSUME Bad # {} PROVE FALSE
    <3>1. PICK k \in Bad : \A l \in Bad : k <= l
      <4>1. Bad \in SUBSET Nat
        OBVIOUS
      <4> QED
        BY <2>1, <4>1, LeastElement
    <3>2. k \in i + 1 .. N /\ h[k] # NULL /\ ~(h[i] # NULL /\ rank[h[k]] < rank[h[i]])
      OBVIOUS
    <3>3. k \in 1 .. N /\ k - 1 \in 0 .. N /\ k \in 0 .. N
      BY <3>2
    <3>4. h[k] = After(h[k - 1])
      BY <1>2, <3>3
    <3>5. h[k - 1] \in Nodes /\ h[k - 1] # NULL /\ h[k] \in Nodes
      BY <1>2, <3>2, <3>3, <3>4, Constants DEF After, Live
    <3>6. rank[h[k]] < rank[h[k - 1]]
      BY <1>4, <1>5, <3>2, <3>3, <3>4, <3>5
    <3>7. CASE k - 1 = i
      BY <3>2, <3>5, <3>6, <3>7
    <3>8. CASE k - 1 # i
      <4>1. k - 1 \in i + 1 .. N /\ k - 1 \notin Bad
        BY <3>1, <3>2, <3>8
      <4>2. h[i] # NULL /\ rank[h[k - 1]] < rank[h[i]]
        BY <4>1, <3>5
      <4>3. rank[h[k]] \in Nat /\ rank[h[k - 1]] \in Nat /\ rank[h[i]] \in Nat
        BY <1>2, <1>3, <3>5, <4>2
      <4> QED
        BY <3>2, <3>6, <4>2, <4>3
    <3> QED
      BY <3>7, <3>8
  <2>2. j \in i + 1 .. N
    BY <1>6
  <2> QED
    BY <1>6, <2>1, <2>2
<1>7. h[N] = NULL
  <2> SUFFICES ASSUME h[N] # NULL PROVE FALSE
    OBVIOUS
  <2>1. \A i \in 0 .. N : h[i] # NULL
    BY <1>6
  <2>2. h \in [0 .. N -> Nodes]
    BY <1>2, <2>1
  <2>3. IsFiniteSet(0 .. N) /\ Cardinality(0 .. N) = N + 1
    BY FS_Interval
  <2>4. Cardinality(Nodes) < Cardinality(0 .. N)
    BY <1>1, <2>3
  <2>5. PICK i \in 0 .. N, j \in 0 .. N : i # j /\ h[i] = h[j]
    BY <2>2, <2>3, <2>4, Constants, FS_PigeonHole
  <2>6. rank[h[i]] \in Nat
    BY <1>3, <2>2
  <2>7. CASE i < j
    BY <1>6, <2>1, <2>5, <2>6, <2>7
  <2>8. CASE j < i
    BY <1>6, <2>1, <2>5, <2>6, <2>8
  <2> QED
    BY <2>5, <2>7, <2>8
<1>8. ASSUME NEW m \in Nodes, own[m] = b PROVE \E i \in 0 .. N : h[i] = m
  <2> SUFFICES ASSUME \A i \in 0 .. N : h[i] # m PROVE FALSE
    OBVIOUS
  <2> DEFINE Ahead(i) == h[i] # NULL /\ rank[m] < rank[h[i]]
             Bad == {i \in 0 .. N : ~Ahead(i)}
  <2>0. rank[m] \in Nat
    BY <1>3
  <2>1. N \in Bad
    BY <1>7
  <2>2. PICK i \in Bad : \A j \in Bad : i <= j
    <3>1. Bad \in SUBSET Nat
      OBVIOUS
    <3> QED
      BY <2>1, <3>1, LeastElement
  <2>3. i \in 0 .. N /\ ~Ahead(i)
    OBVIOUS
  <2>4. CASE i = 0
    <3>1. h[0] # NULL /\ rank[m] <= rank[h[0]]
      BY <1>2, <1>3, <1>8 DEF Listed
    <3>2. h[0] \in Nodes /\ own[h[0]] = b /\ h[0] # m
      BY <1>2, <1>3, <3>1
    <3>3. rank[m] # rank[h[0]]
      BY <1>3, <1>8, <3>2 DEF Listed
    <3>4. rank[h[0]] \in Nat
      BY <1>3, <3>2
    <3> QED
      BY <2>0, <2>3, <2>4, <3>1, <3>3, <3>4
  <2>5. CASE i # 0
    <3>1. i \in 1 .. N /\ i - 1 \in 0 .. N /\ Ahead(i - 1)
      BY <2>2, <2>3, <2>5
    <3>2. h[i] = After(h[i - 1])
      BY <1>2, <3>1
    <3>3. h[i - 1] \in Nodes /\ own[h[i - 1]] = b
      BY <1>2, <1>5, <3>1
    <3>4. h[i] # NULL /\ rank[m] <= rank[h[i]]
      BY <1>3, <1>4, <1>8, <3>1, <3>2, <3>3 DEF Listed
    <3>5. h[i] \in Nodes /\ own[h[i]] = b /\ h[i] # m
      BY <1>2, <1>5, <2>3, <3>4
    <3>6. rank[m] # rank[h[i]]
      BY <1>3, <1>8, <3>5 DEF Listed
    <3>7. rank[h[i]] \in Nat
      BY <1>3, <3>5
    <3> QED
      BY <2>0, <2>3, <3>4, <3>6, <3>7
  <2> QED
    BY <2>4, <2>5
<1>9. Chain(b) = {h[i] : i \in 0 .. N} \cap Nodes
  BY <1>1, <1>2 DEF Chain
<1> QED
  BY <1>1, <1>2, <1>5, <1>7, <1>8, <1>9, Constants

\* The walk from the head of a list that has been freed ends at that node.
LEMMA FreedChain ==
    ASSUME Typed, NEW b \in Buckets, ~Live(buckets[b])
    PROVE  /\ \A n \in Chain(b) : ~Live(n)
           /\ Hops(b)[Cardinality(Nodes)] = NULL
<1>1. PICK N \in Nat : N = Cardinality(Nodes)
  BY Constants, FS_CardinalityType
<1>2. PICK h \in [0 .. N -> Nodes \cup {NULL}] :
         /\ h = Hops(b) /\ h[0] = buckets[b]
         /\ \A i \in 1 .. N : h[i] = After(h[i - 1])
  BY <1>1, HopsAre
<1>3. ~Live(NULL)
  BY Constants DEF Live
<1>4. ASSUME NEW i \in 0 .. N PROVE ~Live(h[i])
  <2> DEFINE Bad == {j \in 0 .. N : Live(h[j])}
  <2>1. ASSUME Bad # {} PROVE FALSE
    <3>1. PICK j \in Bad : \A k \in Bad : j <= k
      <4>1. Bad \in SUBSET Nat
        OBVIOUS
      <4> QED
        BY <2>1, <4>1, LeastElement
    <3>2. j \in 0 .. N /\ Live(h[j])
      OBVIOUS
    <3>3. j # 0
      BY <1>2, <3>2
    <3>4. j \in 1 .. N /\ j - 1 \in 0 .. N /\ ~Live(h[j - 1])
      BY <3>1, <3>2, <3>3
    <3> QED
      BY <1>2, <1>3, <3>2, <3>4 DEF After
  <2> QED
    BY <2>1
<1>5. h[N] = NULL
  <2>1. CASE N = 0
    <3>1. Nodes = {}
      BY <1>1, <2>1, Constants, FS_EmptySet
    <3> QED
      BY <1>2, <2>1, <3>1
  <2>2. CASE N # 0
    <3>1. N \in 1 .. N /\ N - 1 \in 0 .. N
      BY <2>2
    <3> QED
      BY <1>2, <1>4, <3>1 DEF After
  <2> QED
    BY <2>1, <2>2
<1> QED
  BY <1>1, <1>2, <1>4, <1>5 DEF Chain

----------------------------------------------------------------------------
(* The steps keep the invariant, and what follows from it.                 *)

\* Initially no node is listed.
LEMMA Initially == Init => IInv
<1> SUFFICES ASSUME Init PROVE IInv
  OBVIOUS
<1> DEFINE own  == [n \in Nodes |-> HashSize]
           rank == [n \in Nodes |-> 0]
<1>1. Typed
  <2>1. destroy_failed \in BOOLEAN
    BY Zenon DEF Init
  <2> QED
    BY <2>1, Constants DEF Init, Typed, Labels
<1>2. InCalls
  BY Constants DEF Init, InCalls
<1>3. Locked
  BY DEF Init, Locked, Held
<1>4. Listed(own, rank)
  BY Constants DEF Init, Listed, Live, Kept
<1>5. \A t \in Threads : Standing(t, own, rank)
  BY DEF Init, Standing
<1>6. Hands(own)
  BY DEF Init, Hands, Live, InHand
<1>7. Counted(own)
  <2>1. \A b \in Buckets : {n \in Nodes : own[n] = b} = {}
    BY Constants
  <2>2. \A b \in Buckets : Due("count", b) = {} /\ Due("free", b) = {}
    BY DEF Init, Due
  <2> HIDE DEF own
  <2> QED
    BY <2>1, <2>2, FS_EmptySet DEF Init, Counted
<1>8. own \in [Nodes -> 0 .. HashSize] /\ rank \in [Nodes -> Nat]
  BY Constants
<1> HIDE DEF own, rank
<1> QED
  BY <1>1, <1>2, <1>3, <1>4, <1>5, <1>6, <1>7, <1>8 DEF IInv, Core, Lists

----------------------------------------------------------------------------
(* Types.                                                                  *)

LEMMA TypedKept ==
    ASSUME Core, NEW own, NEW rank, Lists(own, rank), [Next]_vars
    PROVE  Typed'
<1>a. Typed /\ InCalls /\ \A t \in Threads : Standing(t, own, rank)
  BY DEF Core, Lists
<1> USE DEF Typed, Goto
<1>1. CASE UNCHANGED vars
  BY <1>1, <1>a DEF vars, table, local, end
<1>2. ASSUME NEW t \in Threads, Invoke(t) PROVE Typed'
  BY <1>2, <1>a DEF Invoke, Labels, table, local, end
<1>3. ASSUME NEW t \in Threads, LockRead(t) \/ LockWrite(t) PROVE Typed'
  <2>1. pc[t] = "lock" /\ StartWalk(t)
    BY <1>3 DEF LockRead, LockWrite
  <2>2. idx(t) \in Buckets
    BY <1>a, <2>1, Bucket
  <2> QED
    BY <1>a, <2>1, <2>2 DEF StartWalk, Labels, table, end
<1>4. ASSUME NEW t \in Threads, LockFails(t) \/ Found(t) \/ NotFound(t) \/ Copy(t) \/ OutOfMemory(t)
      PROVE  Typed'
  <2>1. UNCHANGED <<table, call, local, end>>
    BY <1>4 DEF LockFails, Found, NotFound, Copy, OutOfMemory
  <2>2. \E label \in Labels : pc' = [pc EXCEPT ![t] = label]
    <3>1. CASE Found(t)
      <4>1. Op(t) \in {"insert", "update", "read", "delete"}
        BY <1>a, <3>1, Bucket DEF Found, At
      <4> QED
        BY <3>1, <4>1 DEF Found, Labels
    <3>2. CASE LockFails(t) \/ NotFound(t) \/ Copy(t) \/ OutOfMemory(t)
      BY <3>2 DEF LockFails, NotFound, Copy, OutOfMemory, Labels
    <3> QED
      BY <1>4, <3>1, <3>2
  <2> QED
    BY <1>a, <2>1, <2>2 DEF table, local, end
<1>5. ASSUME NEW t \in Threads, Advance(t) PROVE Typed'
  <2>1. Live(node[t]) /\ node[t] \in Nodes /\ heap[node[t]].next \in Nodes \cup {NULL}
    BY <1>a, <1>5, LiveNode, Fields DEF Advance, At
  <2> QED
    BY <1>a, <1>5, <2>1 DEF Advance, table, end
<1>6. ASSUME NEW t \in Threads, ReplaceValue(t) PROVE Typed'
  <2>1. node[t] \in Nodes /\ heap[node[t]] \in Node /\ pc[t] = "update"
    BY <1>a, <1>6, LiveNode DEF ReplaceValue, At
  <2>2. call[t].value \in Values
    BY <1>a, <2>1, Bucket, CallTypes DEF InCalls, Op
  <2>3. PICK r \in Node : r = [heap[node[t]] EXCEPT !.value = call[t].value]
    BY <2>1, <2>2, Fields
  <2>4. heap' = [heap EXCEPT ![node[t]] = r]
    BY <1>6, <2>3 DEF ReplaceValue
  <2> QED
    BY <1>a, <1>6, <2>1, <2>4 DEF ReplaceValue, Labels, local, end
<1>7. ASSUME NEW t \in Threads, Allocate(t) PROVE Typed'
  <2>1. pc[t] = "insert" /\ call[t].key \in Keys /\ call[t].value \in Values
    BY <1>a, <1>7, Bucket, CallTypes DEF Allocate, InCalls, Op
  <2>2. PICK n \in Nodes :
           /\ heap' = [heap EXCEPT ![n] = [key |-> call[t].key, value |-> call[t].value, next |-> NULL]]
           /\ newnode' = [newnode EXCEPT ![t] = n]
    BY <1>7 DEF Allocate
  <2>3. [key |-> call[t].key, value |-> call[t].value, next |-> NULL] \in Node
    BY <2>1 DEF Node
  <2> QED
    BY <1>a, <1>7, <2>2, <2>3 DEF Allocate, Labels, end
<1>8. ASSUME NEW t \in Threads, Link(t) PROVE Typed'
  <2>1. pc[t] = "link" /\ idx(t) \in Buckets
    BY <1>a, <1>8, Bucket DEF Link
  <2>2. newnode[t] \in Nodes /\ heap[newnode[t]] \in Node
    BY <1>a, <2>1, LiveNode DEF Standing
  <2>3. PICK r \in Node : r = [heap[newnode[t]] EXCEPT !.next = buckets[idx(t)]]
    BY <1>a, <2>1, <2>2, Fields
  <2>4. heap' = [heap EXCEPT ![newnode[t]] = r]
    BY <1>8, <2>3 DEF Link
  <2> QED
    BY <1>a, <1>8, <2>1, <2>2, <2>4 DEF Link, Labels, end
<1>9. ASSUME NEW t \in Threads, Count(t) PROVE Typed'
  <2>1. idx(t) \in Buckets
    BY <1>a, <1>9, Bucket DEF Count
  <2>2. PICK v \in Int : v = bucket_sizes[idx(t)] + 1
    BY <1>a, <2>1
  <2> QED
    BY <1>a, <1>9, <2>1, <2>2 DEF Count, Labels, local, end
<1>10. ASSUME NEW t \in Threads, Unlink(t) PROVE Typed'
  <2>1. pc[t] = "delete" /\ idx(t) \in Buckets /\ node[t] \in Nodes /\ heap[node[t]] \in Node
    BY <1>a, <1>10, Bucket, LiveNode DEF Unlink, At
  <2>2. PICK n \in Nodes \cup {NULL} : n = heap[node[t]].next
    BY <2>1, Fields
  <2>3. prev[t] # NULL => own[prev[t]] = idx(t) /\ prev[t] \in Nodes
    BY <1>a, <2>1 DEF Standing
  <2>4. prev[t] # NULL => heap[prev[t]] \in Node
    BY <1>a, <2>1, <2>3, LiveNode, Constants DEF Lists, Listed
  <2>5. CASE prev[t] = NULL
    BY <1>a, <1>10, <2>1, <2>2, <2>5 DEF Unlink, Labels, local, end
  <2>6. CASE prev[t] # NULL
    <3>1. PICK r \in Node : r = [heap[prev[t]] EXCEPT !.next = n]
      BY <2>2, <2>4, <2>6, Fields
    <3>2. heap' = [heap EXCEPT ![prev[t]] = r] /\ UNCHANGED buckets
      BY <1>10, <2>2, <2>6, <3>1 DEF Unlink
    <3> QED
      BY <1>a, <1>10, <2>3, <2>6, <3>2 DEF Unlink, Labels, local, end
  <2> QED
    BY <2>5, <2>6
<1>11. ASSUME NEW t \in Threads, FreeNode(t) PROVE Typed'
  <2>1. idx(t) \in Buckets
    BY <1>a, <1>11, Bucket DEF FreeNode, At
  <2>2. PICK v \in Int : v = bucket_sizes[idx(t)] - 1
    BY <1>a, <2>1
  <2> QED
    BY <1>a, <1>11, <2>1, <2>2 DEF FreeNode, Labels, local, end
<1>12. ASSUME NEW t \in Threads, Unlock(t) \/ Reply(t) PROVE Typed'
  <2>1. CASE Unlock(t)
    BY <1>a, <2>1 DEF Unlock, Labels, table, end
  <2>2. CASE Reply(t)
    BY <1>a, <2>2 DEF Reply, Labels, table, local, end
  <2> QED
    BY <1>12, <2>1, <2>2
<1>13. CASE DestroyBucket
  <2>1. destroyed' \in 0 .. HashSize /\ destroy_failed' \in BOOLEAN
    <3>1. CASE destroyed' = destroyed + 1 /\ UNCHANGED destroy_failed
      BY <1>a, <1>13, <3>1, Constants DEF DestroyBucket
    <3>2. CASE destroy_failed' = TRUE /\ UNCHANGED destroyed
      BY <1>a, <3>2
    <3> QED
      BY <1>13, <3>1, <3>2 DEF DestroyBucket
  <2>2. heap' \in [Nodes -> Node \cup {Unallocated}]
    BY <1>a, <1>13 DEF DestroyBucket
  <2> QED
    BY <1>a, <1>13, <2>1, <2>2 DEF DestroyBucket, local
<1>14. ASSUME NEW t \in Threads, StrdupFails(t) PROVE Typed'
  BY <1>a, <1>14 DEF StrdupFails, Labels, end
<1> QED
  BY <1>1, <1>2, <1>3, <1>4, <1>5, <1>6, <1>7, <1>8, <1>9, <1>10, <1>11, <1>12, <1>13, <1>14
     DEF Next, Step

----------------------------------------------------------------------------
(* Calls and locks.                                                        *)

\* The place a step takes its thread to.
LEMMA Places ==
    ASSUME Typed, InCalls, NEW t \in Threads, Step(t)
    PROVE  /\ pc[t] # "idle" /\ UNCHANGED end
           /\ \E label \in Labels :
                 /\ pc' = [pc EXCEPT ![t] = label]
                 /\ label \in {"read", "update", "delete"} => Op(t) = label
                 /\ label \in {"insert", "link", "count"} => Op(t) = "insert"
                 /\ label = "free" => Op(t) = "delete"
                 /\ label = "idle" <=> Reply(t)
           /\ Reply(t) \/ UNCHANGED call
<1> USE DEF Goto, Labels
<1>1. CASE LockRead(t) \/ LockWrite(t) \/ LockFails(t)
  BY <1>1 DEF LockRead, LockWrite, LockFails, StartWalk, Reply
<1>2. CASE Advance(t)
  <2>1. pc' = [pc EXCEPT ![t] = "walk"]
    BY <1>2 DEF Advance, At, Typed
  <2> QED
    BY <1>2, <2>1 DEF Advance, At, Reply
<1>3. CASE Found(t) \/ NotFound(t)
  <2>1. Op(t) \in {"insert", "update", "read", "delete"}
    BY <1>3, Bucket DEF Found, NotFound, At
  <2> QED
    BY <1>3, <2>1 DEF Found, NotFound, At, Reply
<1>4. CASE Copy(t) \/ ReplaceValue(t) \/ OutOfMemory(t) \/ FreeNode(t) \/ Unlock(t)
  BY <1>4 DEF Copy, ReplaceValue, OutOfMemory, FreeNode, Unlock, At, Reply
<1>5. CASE Allocate(t) \/ StrdupFails(t) \/ Link(t) \/ Count(t) \/ Unlink(t)
  BY <1>5 DEF Allocate, StrdupFails, Link, Count, Unlink, At, Reply, InCalls
<1>6. CASE Reply(t)
  BY <1>6 DEF Reply
<1> QED
  BY <1>1, <1>2, <1>3, <1>4, <1>5, <1>6 DEF Step

LEMMA InCallsKept == Typed /\ InCalls /\ [Next]_vars => InCalls'
<1> SUFFICES ASSUME Typed, InCalls, [Next]_vars PROVE InCalls'
  OBVIOUS
<1>a. pc \in [Threads -> Labels] /\ call \in [Threads -> Calls \cup {NoCall}]
  BY DEF Typed
<1>1. CASE UNCHANGED vars
  BY <1>1 DEF vars, end, InCalls, Op
<1>2. ASSUME NEW t \in Threads, Invoke(t) PROVE InCalls'
  BY <1>2, <1>a DEF Invoke, Goto, end, InCalls, Op
<1>3. ASSUME NEW t \in Threads, Step(t) PROVE InCalls'
  <2>1. pc[t] # "idle" /\ UNCHANGED end
    BY <1>3, Places
  <2>2. PICK label \in Labels :
           /\ pc' = [pc EXCEPT ![t] = label]
           /\ label \in {"read", "update", "delete"} => Op(t) = label
           /\ label \in {"insert", "link", "count"} => Op(t) = "insert"
           /\ label = "free" => Op(t) = "delete"
           /\ label = "idle" <=> Reply(t)
    BY <1>3, Places
  <2>3. CASE Reply(t)
    BY <1>a, <2>1, <2>2, <2>3 DEF Reply, end, InCalls, Op
  <2>4. CASE UNCHANGED call
    BY <1>a, <2>1, <2>2, <2>4 DEF end, InCalls, Op
  <2> QED
    BY <1>3, <2>3, <2>4, Places
<1>4. CASE DestroyBucket
  BY <1>4 DEF DestroyBucket, InCalls, Op
<1> QED
  BY <1>1, <1>2, <1>3, <1>4 DEF Next

LEMMA LockedKept == Typed /\ InCalls /\ Locked /\ [Next]_vars => Locked'
<1> SUFFICES ASSUME Typed, InCalls, Locked, [Next]_vars PROVE Locked'
  OBVIOUS
<1>a. pc \in [Threads -> Labels] /\ call \in [Threads -> Calls \cup {NoCall}]
  BY DEF Typed
\* No thread comes by a lock or loses one.
<1>1. ASSUME NEW t \in Threads, NEW label, pc' = [pc EXCEPT ![t] = label],
             pc[t] \in Held <=> label \in Held, UNCHANGED locks,
             \A u \in Threads : pc[u] \in Held => call'[u] = call[u]
      PROVE  Locked'
  <2>1. \A u \in Threads : pc'[u] \in Held <=> pc[u] \in Held
    BY <1>a, <1>1
  <2>2. \A u \in Threads : pc[u] \in Held => idx(u)' = idx(u) /\ Op(u)' = Op(u)
    BY <1>1 DEF idx, Op
  <2> QED
    BY <1>1, <2>1, <2>2 DEF Locked, locks
<1>2. CASE UNCHANGED <<pc, call, locks>>
  BY <1>2 DEF Locked, locks, idx, Op
<1>3. ASSUME NEW t \in Threads, Invoke(t) PROVE Locked'
  <2>1. \A u \in Threads : pc[u] \in Held => call'[u] = call[u]
    BY <1>a, <1>3 DEF Invoke, Held
  <2> QED
    BY <1>1, <1>3, <2>1 DEF Invoke, Goto, Held
<1>4. ASSUME NEW t \in Threads, Reply(t) PROVE Locked'
  <2>1. \A u \in Threads : pc[u] \in Held => call'[u] = call[u]
    BY <1>a, <1>4 DEF Reply, Held
  <2> QED
    BY <1>1, <1>4, <2>1 DEF Reply, Goto, Held
<1>5. ASSUME NEW t \in Threads, LockRead(t) PROVE Locked'
  <2>1. /\ pc[t] = "lock" /\ Op(t) = "read" /\ writers[idx(t)] = {}
        /\ readers' = [readers EXCEPT ![idx(t)] = @ \cup {t}]
        /\ pc' = [pc EXCEPT ![t] = "walk"] /\ UNCHANGED <<writers, call>>
    BY <1>5 DEF LockRead, StartWalk, Goto
  <2>2. idx(t) \in Buckets
    BY <2>1, Bucket
  <2>3. \A u \in Threads : pc'[u] \in Held <=> u = t \/ pc[u] \in Held
    BY <1>a, <2>1 DEF Held
  <2>4. \A u \in Threads : idx(u)' = idx(u) /\ Op(u)' = Op(u)
    BY <2>1 DEF idx, Op
  <2>5. \A u \in Threads : pc[u] \in Held /\ idx(u) = idx(t) => Op(u) = "read"
    BY <2>1, <2>2 DEF Locked
  <2>6. readers' = [b \in Buckets |-> {u \in Threads : pc'[u] \in Held /\ Op(u) = "read" /\ idx(u) = b}]
    <3>1. ASSUME NEW b \in Buckets
          PROVE  readers'[b] = {u \in Threads : pc'[u] \in Held /\ Op(u) = "read" /\ idx(u) = b}
      <4>1. CASE b = idx(t)
        BY <4>1, <2>1, <2>2, <2>3 DEF Locked
      <4>2. CASE b # idx(t)
        BY <4>2, <2>1, <2>2, <2>3 DEF Locked
      <4> QED
        BY <4>1, <4>2
    <3>2. readers' = [b \in Buckets |-> readers'[b]]
      BY <2>1, <2>2 DEF Locked
    <3> QED
      BY <3>1, <3>2
  <2>7. writers' = [b \in Buckets |-> {u \in Threads : pc'[u] \in Held /\ Op(u) # "read" /\ idx(u) = b}]
    <3>1. \A u \in Threads : pc'[u] \in Held /\ Op(u) # "read" <=> pc[u] \in Held /\ Op(u) # "read"
      BY <2>1, <2>3
    <3> QED
      BY <2>1, <3>1 DEF Locked
  <2>8. \A u, v \in Threads :
            pc'[u] \in Held /\ pc'[v] \in Held /\ idx(u) = idx(v) /\ Op(u) # "read" => u = v
    BY <2>1, <2>3, <2>5 DEF Locked
  <2> QED
    BY <2>4, <2>6, <2>7, <2>8 DEF Locked
<1>6. ASSUME NEW t \in Threads, LockWrite(t) PROVE Locked'
  <2>1. /\ pc[t] = "lock" /\ Op(t) # "read" /\ readers[idx(t)] = {} /\ writers[idx(t)] = {}
        /\ writers' = [writers EXCEPT ![idx(t)] = {t}]
        /\ pc' = [pc EXCEPT ![t] = "walk"] /\ UNCHANGED <<readers, call>>
    BY <1>6 DEF LockWrite, StartWalk, Goto
  <2>2. idx(t) \in Buckets
    BY <2>1, Bucket
  <2>3. \A u \in Threads : pc'[u] \in Held <=> u = t \/ pc[u] \in Held
    BY <1>a, <2>1 DEF Held
  <2>4. \A u \in Threads : idx(u)' = idx(u) /\ Op(u)' = Op(u)
    BY <2>1 DEF idx, Op
  <2>5. \A u \in Threads : ~(pc[u] \in Held /\ idx(u) = idx(t))
    BY <2>1, <2>2 DEF Locked
  <2>6. writers' = [b \in Buckets |-> {u \in Threads : pc'[u] \in Held /\ Op(u) # "read" /\ idx(u) = b}]
    <3>1. ASSUME NEW b \in Buckets
          PROVE  writers'[b] = {u \in Threads : pc'[u] \in Held /\ Op(u) # "read" /\ idx(u) = b}
      <4>1. CASE b = idx(t)
        BY <4>1, <2>1, <2>2, <2>3, <2>5 DEF Locked
      <4>2. CASE b # idx(t)
        BY <4>2, <2>1, <2>2, <2>3 DEF Locked
      <4> QED
        BY <4>1, <4>2
    <3>2. writers' = [b \in Buckets |-> writers'[b]]
      BY <2>1, <2>2 DEF Locked
    <3> QED
      BY <3>1, <3>2
  <2>7. readers' = [b \in Buckets |-> {u \in Threads : pc'[u] \in Held /\ Op(u) = "read" /\ idx(u) = b}]
    BY <2>1, <2>2, <2>3 DEF Locked
  <2>8. \A u, v \in Threads :
            pc'[u] \in Held /\ pc'[v] \in Held /\ idx(u) = idx(v) /\ Op(u) # "read" => u = v
    BY <2>1, <2>3, <2>5 DEF Locked
  <2> QED
    BY <2>4, <2>6, <2>7, <2>8 DEF Locked
<1>7. ASSUME NEW t \in Threads, Unlock(t) PROVE Locked'
  <2>1. /\ pc[t] = "unlock" /\ pc' = [pc EXCEPT ![t] = "return"] /\ UNCHANGED call
        /\ readers' = [readers EXCEPT ![idx(t)] = @ \ {t}]
        /\ writers' = [writers EXCEPT ![idx(t)] = @ \ {t}]
    BY <1>7 DEF Unlock, Goto
  <2>2. idx(t) \in Buckets
    BY <2>1, Bucket
  <2>3. \A u \in Threads : pc'[u] \in Held <=> u # t /\ pc[u] \in Held
    BY <1>a, <2>1 DEF Held
  <2>4. \A u \in Threads : idx(u)' = idx(u) /\ Op(u)' = Op(u)
    BY <2>1 DEF idx, Op
  <2>5. readers' = [b \in Buckets |-> {u \in Threads : pc'[u] \in Held /\ Op(u) = "read" /\ idx(u) = b}]
    BY <2>1, <2>2, <2>3 DEF Locked
  <2>6. writers' = [b \in Buckets |-> {u \in Threads : pc'[u] \in Held /\ Op(u) # "read" /\ idx(u) = b}]
    BY <2>1, <2>2, <2>3 DEF Locked
  <2> QED
    BY <2>3, <2>4, <2>5, <2>6 DEF Locked
<1>8. ASSUME NEW t \in Threads, Step(t), ~Reply(t), ~LockRead(t), ~LockWrite(t), ~Unlock(t)
      PROVE  Locked'
  <2>1. UNCHANGED <<locks, call>>
    BY <1>8 DEF Step, LockFails, Advance, Found, NotFound, Copy, ReplaceValue, Allocate,
                OutOfMemory, StrdupFails, Link, Count, Unlink, FreeNode
  <2>2. \E label : pc' = [pc EXCEPT ![t] = label] /\ (pc[t] \in Held <=> label \in Held)
    <3> USE DEF Goto, Held, At
    <3>1. CASE LockFails(t) \/ NotFound(t) \/ Copy(t) \/ ReplaceValue(t) \/ OutOfMemory(t)
      BY <3>1 DEF LockFails, NotFound, Copy, ReplaceValue, OutOfMemory
    <3>2. CASE Allocate(t) \/ StrdupFails(t) \/ Link(t) \/ Count(t) \/ Unlink(t) \/ FreeNode(t)
      BY <3>2 DEF Allocate, StrdupFails, Link, Count, Unlink, FreeNode
    <3>3. CASE Advance(t)
      <4>1. pc' = [pc EXCEPT ![t] = "walk"]
        BY <1>a, <3>3 DEF Advance
      <4> QED
        BY <3>3, <4>1 DEF Advance
    <3>4. CASE Found(t)
      <4>1. Op(t) \in {"insert", "update", "read", "delete"}
        BY <3>4, Bucket DEF Found
      <4> QED
        BY <3>4, <4>1 DEF Found
    <3> QED
      BY <1>8, <3>1, <3>2, <3>3, <3>4 DEF Step
  <2> QED
    BY <1>1, <2>1, <2>2
<1>9. CASE DestroyBucket
  BY <1>9, <1>2 DEF DestroyBucket
<1> QED
  BY <1>2, <1>3, <1>4, <1>5, <1>6, <1>7, <1>8, <1>9 DEF Next, vars

----------------------------------------------------------------------------
(* What a step leaves alone.                                               *)

\* While a call is in progress no list has been freed.
LEMMA AllKept ==
    ASSUME Typed, InCalls, NEW t \in Threads, pc[t] # "idle"
    PROVE  destroyed = 0 /\ ~destroy_failed /\ \A b \in Buckets : Kept(b)
<1>1. destroyed \in Nat /\ destroyed = 0 /\ ~destroy_failed
  BY Constants DEF Typed, InCalls
<1> QED
  BY <1>1, Constants DEF Kept

\* A writer is alone in its bucket.
LEMMA Alone ==
    ASSUME Locked, NEW t \in Threads, pc[t] \in Held, Op(t) # "read",
           NEW u \in Threads, u # t, pc[u] \in Held
    PROVE  idx(u) # idx(t)
BY DEF Locked

\* A thread's own variables are changed by its own steps only.
Still(u) == pc'[u] = pc[u] /\ call'[u] = call[u] /\ node'[u] = node[u] /\ prev'[u] = prev[u]
               /\ newnode'[u] = newnode[u]
Others(t) == \A u \in Threads : u # t => Still(u)

LEMMA OthersAreStill ==
    ASSUME Typed, InCalls, NEW t \in Threads, Invoke(t) \/ Step(t)
    PROVE  Others(t)
<1>0. /\ \E label : pc' = [pc EXCEPT ![t] = label]
      /\ \E c : call' = [call EXCEPT ![t] = c]
  <2>1. CASE Invoke(t)
    BY <2>1 DEF Invoke, Goto
  <2>2. CASE Step(t)
    <3>1. (\E label : pc' = [pc EXCEPT ![t] = label]) /\ (Reply(t) \/ UNCHANGED call)
      BY <2>2, Places
    <3>2. CASE Reply(t)
      BY <3>1, <3>2 DEF Reply
    <3>3. CASE UNCHANGED call
      <4>1. call' = [call EXCEPT ![t] = call[t]]
        BY <3>3 DEF Typed
      <4> QED
        BY <3>1, <4>1
    <3> QED
      BY <3>1, <3>2, <3>3
  <2> QED
    BY <2>1, <2>2
<1>1. (\E x : node' = [node EXCEPT ![t] = x]) \/ UNCHANGED node
  BY DEF Invoke, Step, LockRead, LockWrite, StartWalk, LockFails, Advance, Found, NotFound, Copy,
         ReplaceValue, Allocate, OutOfMemory, StrdupFails, Link, Count, Unlink, FreeNode, Unlock,
         Reply, local
<1>2. (\E x : prev' = [prev EXCEPT ![t] = x]) \/ UNCHANGED prev
  BY DEF Invoke, Step, LockRead, LockWrite, StartWalk, LockFails, Advance, Found, NotFound, Copy,
         ReplaceValue, Allocate, OutOfMemory, StrdupFails, Link, Count, Unlink, FreeNode, Unlock,
         Reply, local
<1>3. (\E x : newnode' = [newnode EXCEPT ![t] = x]) \/ UNCHANGED newnode
  BY DEF Invoke, Step, LockRead, LockWrite, StartWalk, LockFails, Advance, Found, NotFound, Copy,
         ReplaceValue, Allocate, OutOfMemory, StrdupFails, Link, Count, Unlink, FreeNode, Unlock,
         Reply, local
<1> QED
  BY <1>0, <1>1, <1>2, <1>3 DEF Typed, Others, Still

\* The lists of the other buckets than b stay as they are.
OnlyList(b, own, rank, own2, rank2) ==
    /\ \A c \in Buckets : c # b => buckets'[c] = buckets[c]
    /\ \A n \in Nodes : own[n] \notin {b, HashSize} \/ own2[n] \notin {b, HashSize} =>
          own2[n] = own[n] /\ rank2[n] = rank[n] /\ heap'[n] = heap[n]

\* A thread stands where it stood when nothing changes in its bucket or in its hands.
LEMMA StandsStill ==
    ASSUME Core, NEW own, NEW rank, Lists(own, rank),
           NEW own2 \in [Nodes -> 0 .. HashSize], NEW rank2 \in [Nodes -> Nat],
           NEW b, OnlyList(b, own, rank, own2, rank2),
           NEW u \in Threads, Still(u), pc[u] \in Held => idx(u) # b,
           \A n \in Nodes : InHand(u, n) => heap'[n] = heap[n] /\ own2[n] = own[n]
    PROVE  Standing(u, own2, rank2)'
<1>0. Typed /\ InCalls /\ Standing(u, own, rank) /\ Listed(own, rank)
  BY DEF Core, Lists
<1>1. CASE pc[u] \notin Held
  BY <1>1 DEF Still, Standing, Held
<1>2. CASE pc[u] \in Held
  <2>1. idx(u) \in Buckets /\ idx(u) # b /\ idx(u) # HashSize
    BY <1>0, <1>2, Bucket, Constants DEF Held
  <2>2. idx(u)' = idx(u) /\ call'[u].key = call[u].key
    BY DEF Still, idx
  <2>3. buckets'[idx(u)] = buckets[idx(u)]
    BY <2>1 DEF OnlyList
  <2>4. ASSUME NEW n \in Nodes, own[n] = idx(u) \/ own2[n] = idx(u)
        PROVE  own2[n] = own[n] /\ rank2[n] = rank[n] /\ heap'[n] = heap[n]
    BY <2>1, <2>4 DEF OnlyList
  <2>5. node[u] \in Nodes \cup {NULL} /\ prev[u] \in Nodes \cup {NULL}
        /\ newnode[u] \in Nodes \cup {NULL}
    BY <1>0 DEF Typed
  <2>6. pc[u] = "link" => InHand(u, newnode[u]) /\ Live(newnode[u]) /\ newnode[u] \in Nodes
    BY <1>0 DEF InHand, Live, Standing
  <2>7. pc[u] = "free" => InHand(u, node[u]) /\ Live(node[u]) /\ node[u] \in Nodes
    BY <1>0 DEF InHand, Live, Standing
  <2>8. /\ pc[u] \in {"walk", "read", "update", "delete"} /\ node[u] # NULL => own2[node[u]] = idx(u)
        /\ pc[u] \in {"read", "update", "delete"} =>
              node[u] # NULL /\ heap'[node[u]].key = call[u].key
    BY <1>0, <2>4, <2>5 DEF Standing
  <2>9. pc[u] \in {"walk", "delete"} =>
           IF prev[u] = NULL THEN buckets'[idx(u)] = node[u]
           ELSE own2[prev[u]] = idx(u) /\ heap'[prev[u]].next = node[u]
    BY <1>0, <2>3, <2>4, <2>5 DEF Standing
  <2>10. pc[u] = "walk" => \A m \in Nodes :
            own2[m] = idx(u) /\ (node[u] = NULL \/ rank2[m] > rank2[node[u]]) =>
                heap'[m].key # call[u].key
    BY <1>0, <2>4, <2>5 DEF Standing
  <2>11. pc[u] \in {"insert", "link"} => \A m \in Nodes :
            own2[m] = idx(u) => heap'[m].key # call[u].key
    BY <1>0, <2>4 DEF Standing
  <2>12. pc[u] = "link" => /\ newnode[u] \in Nodes /\ heap'[newnode[u]] # Unallocated
                           /\ own2[newnode[u]] = HashSize /\ heap'[newnode[u]].key = call[u].key
                           /\ heap'[newnode[u]].value = call[u].value
    BY <1>0, <2>6 DEF Standing, Live
  <2>13. pc[u] = "free" => /\ node[u] \in Nodes /\ heap'[node[u]] # Unallocated
                           /\ own2[node[u]] = HashSize
    BY <1>0, <2>7 DEF Standing, Live
  <2> QED
    BY <2>2, <2>8, <2>9, <2>10, <2>11, <2>12, <2>13 DEF Standing, Still, Live
<1> QED
  BY <1>1, <1>2

\* A step that changes neither the table nor what is in hand or due keeps the lists.
LEMMA QuietStep ==
    ASSUME Core, NEW own \in [Nodes -> 0 .. HashSize], NEW rank \in [Nodes -> Nat],
           Lists(own, rank), UNCHANGED <<table, end, newnode>>,
           NEW t \in Threads, Others(t), Standing(t, own, rank)',
           pc[t] \notin {"link", "count", "free"}, pc'[t] \notin {"link", "count", "free"}
    PROVE  Lists(own, rank)'
<1>1. Listed(own, rank)'
  BY DEF Lists, Listed, table, end, Live, Kept
<1>2. ASSUME NEW u \in Threads PROVE Standing(u, own, rank)'
  <2>1. CASE u = t
    BY <2>1
  <2>2. CASE u # t
    <3>1. OnlyList(HashSize, own, rank, own, rank)
      BY DEF OnlyList, table
    <3>2. Still(u)
      BY <2>2 DEF Others
    <3>3. pc[u] \in Held => idx(u) # HashSize
      BY Bucket, Constants DEF Core, Held
    <3> QED
      BY <3>1, <3>2, <3>3, StandsStill DEF table
  <2> QED
    BY <2>1, <2>2
<1>3. \A u \in Threads : \A n : InHand(u, n)' <=> InHand(u, n)
  BY DEF InHand, Others, Still
<1>4. Hands(own)'
  BY <1>3 DEF Lists, Hands, Live, table
<1>5. \A u \in Threads : \A label \in {"count", "free"} :
          /\ pc'[u] = label <=> pc[u] = label
          /\ pc[u] = label => idx(u)' = idx(u)
  BY DEF Others, Still, idx
<1>6. \A c : Due("count", c)' = Due("count", c) /\ Due("free", c)' = Due("free", c)
  BY <1>5 DEF Due
<1>7. Counted(own)'
  BY <1>6 DEF Lists, Counted, table, end
<1> QED
  BY <1>1, <1>2, <1>4, <1>7 DEF Lists

----------------------------------------------------------------------------
(* The steps that change neither a list nor a counter.                     *)

LEMMA QuietKept ==
    ASSUME Core, NEW own \in [Nodes -> 0 .. HashSize], NEW rank \in [Nodes -> Nat],
           Lists(own, rank), NEW t \in Threads,
           \/ Invoke(t) \/ LockRead(t) \/ LockWrite(t) \/ LockFails(t) \/ Advance(t)
           \/ Found(t) \/ NotFound(t) \/ Copy(t) \/ OutOfMemory(t) \/ Unlock(t) \/ Reply(t)
    PROVE  Lists(own, rank)'
<1>0. Typed /\ InCalls /\ Listed(own, rank) /\ Standing(t, own, rank)
  BY DEF Core, Lists
<1>1. Others(t)
  BY <1>0, OthersAreStill DEF Step
<1>2. UNCHANGED <<table, end, newnode>>
  BY DEF Invoke, LockRead, LockWrite, StartWalk, LockFails, Advance, Found, NotFound, Copy,
         OutOfMemory, Unlock, Reply, local
<1>3. pc[t] \notin {"link", "count", "free"} /\ t \in DOMAIN pc
  BY <1>0 DEF Invoke, LockRead, LockWrite, LockFails, Advance, Found, NotFound, Copy,
         OutOfMemory, Unlock, Reply, At, Typed
<1> SUFFICES pc'[t] \notin {"link", "count", "free"} /\ Standing(t, own, rank)'
  BY <1>1, <1>2, <1>3, QuietStep
<1> USE DEF Goto
\* Places where a thread holds no node.
<1>4. CASE Invoke(t) \/ LockFails(t) \/ Copy(t) \/ OutOfMemory(t) \/ Unlock(t) \/ Reply(t)
  <2>1. pc'[t] \in {"lock", "return", "unlock", "idle"}
    BY <1>3, <1>4 DEF Invoke, LockFails, Copy, OutOfMemory, Unlock, Reply
  <2> QED
    BY <2>1 DEF Standing
<1>5. CASE LockRead(t) \/ LockWrite(t)
  <2>1. pc[t] = "lock" /\ StartWalk(t)
    BY <1>5 DEF LockRead, LockWrite
  <2>2. idx(t) \in Buckets /\ idx(t)' = idx(t) /\ Kept(idx(t))
    BY <1>0, <2>1, Bucket, AllKept DEF StartWalk, idx
  <2>3. /\ pc'[t] = "walk" /\ node'[t] = buckets[idx(t)] /\ prev'[t] = NULL
        /\ UNCHANGED <<heap, buckets>>
    BY <1>0, <2>1 DEF StartWalk, table, Typed
  <2>4. node'[t] # NULL => own[node'[t]] = idx(t) /\ node'[t] \in Nodes
    BY <1>0, <2>2, <2>3 DEF Listed, Typed
  <2>5. ASSUME NEW m \in Nodes, own[m] = idx(t)
        PROVE  node'[t] # NULL /\ ~(rank[m] > rank[node'[t]])
    <3>1. own[m] # HashSize
      BY <2>2, <2>5, Constants
    <3>2. node'[t] # NULL /\ rank[m] <= rank[node'[t]]
      BY <1>0, <2>3, <2>5, <3>1 DEF Listed
    <3> QED
      BY <2>4, <3>2
  <2> QED
    BY <2>2, <2>3, <2>4, <2>5 DEF Standing
<1>6. CASE Advance(t)
  <2>1. pc[t] = "walk" /\ Live(node[t]) /\ heap[node[t]].key # call[t].key
    BY <1>6 DEF Advance, At, Matches
  <2>2. idx(t) \in Buckets /\ idx(t)' = idx(t) /\ idx(t) # HashSize
    BY <1>0, <1>6, <2>1, Bucket, Constants DEF Advance, idx
  <2>3. PICK n \in Nodes : n = node[t] /\ n # NULL /\ own[n] = idx(t)
    BY <1>0, <2>1, Constants DEF Live, Standing
  <2>4. PICK x \in Nodes \cup {NULL} : x = heap[n].next
    BY <1>0, <2>1, <2>3, LiveNode, Fields
  <2>5. /\ pc'[t] = "walk" /\ node'[t] = x /\ prev'[t] = n
        /\ UNCHANGED <<heap, buckets, call>>
    BY <1>0, <1>6, <2>1, <2>3, <2>4 DEF Advance, table, Typed
  <2>6. x # NULL => own[x] = idx(t) /\ rank[x] < rank[n]
    BY <1>0, <2>2, <2>3, <2>4 DEF Listed
  <2>7. ASSUME NEW m \in Nodes, own[m] = idx(t), x = NULL \/ rank[m] > rank[x]
        PROVE  heap[m].key # call[t].key
    <3>1. PICK i \in Nat, j \in Nat : i = rank[m] /\ j = rank[n]
      OBVIOUS
    <3>2. CASE m = n
      BY <2>1, <2>3, <3>2
    <3>3. CASE m # n
      <4>1. rank[m] # rank[n] /\ (rank[m] < rank[n] => x # NULL /\ rank[m] <= rank[x])
        BY <1>0, <2>2, <2>3, <2>4, <2>7, <3>3 DEF Listed
      <4>2. x # NULL => rank[x] \in Nat
        BY <2>4
      <4>3. rank[m] > rank[n]
        BY <2>7, <3>1, <4>1, <4>2
      <4> QED
        BY <1>0, <2>1, <2>3, <2>7, <4>3 DEF Standing
    <3> QED
      BY <3>2, <3>3
  <2> QED
    BY <2>2, <2>3, <2>4, <2>5, <2>6, <2>7, Constants DEF Standing
<1>7. CASE Found(t)
  <2>1. pc[t] = "walk" /\ Live(node[t]) /\ heap[node[t]].key = call[t].key
        /\ node[t] # NULL
    BY <1>7, Constants DEF Found, At, Matches, Live
  <2>2. /\ UNCHANGED <<heap, buckets, call, node, prev>> /\ idx(t)' = idx(t)
        /\ pc'[t] \in {"unlock", "read", "update", "delete"}
    <3>1. Op(t) \in {"insert", "update", "read", "delete"}
      BY <1>0, <2>1, Bucket
    <3> QED
      BY <1>3, <1>7, <3>1 DEF Found, table, local, idx
  <2> QED
    BY <1>0, <2>1, <2>2 DEF Standing
<1>8. CASE NotFound(t)
  <2>1. /\ pc[t] = "walk" /\ node[t] = NULL /\ UNCHANGED <<heap, call>> /\ idx(t)' = idx(t)
        /\ pc'[t] \in {"insert", "unlock"}
    BY <1>3, <1>8 DEF NotFound, table, idx
  <2> QED
    BY <1>0, <2>1 DEF Standing
<1> QED
  BY <1>4, <1>5, <1>6, <1>7, <1>8

----------------------------------------------------------------------------
(* The steps of a writer that change its list, the memory or a counter.    *)

\* The other threads stand where they stood: none of them is in the writer's bucket.
LEMMA WriterStep ==
    ASSUME Core, NEW own, NEW rank, Lists(own, rank),
           NEW own2 \in [Nodes -> 0 .. HashSize], NEW rank2 \in [Nodes -> Nat],
           NEW t \in Threads, pc[t] \in Held, Op(t) # "read", Others(t),
           OnlyList(idx(t), own, rank, own2, rank2),
           \A n \in Nodes, u \in Threads : u # t /\ InHand(u, n) =>
               heap'[n] = heap[n] /\ own2[n] = own[n],
           Standing(t, own2, rank2)'
    PROVE  \A u \in Threads : Standing(u, own2, rank2)'
<1> SUFFICES ASSUME NEW u \in Threads, u # t PROVE Standing(u, own2, rank2)'
  OBVIOUS
<1>1. pc[u] \in Held => idx(u) # idx(t)
  BY Alone DEF Core
<1>2. Still(u)
  BY DEF Others
<1> QED
  BY <1>1, <1>2, StandsStill

\* The steps that are due, before and after t has gone from one place to another.
LEMMA DueAfter ==
    ASSUME Typed, InCalls, NEW t \in Threads, Others(t), NEW b \in Buckets, NEW label,
           label \in {"count", "free"}, UNCHANGED call
    PROVE  /\ pc[t] # label /\ pc'[t] # label => Due(label, b)' = Due(label, b)
           /\ idx(t) # b => Due(label, b)' = Due(label, b)
           /\ pc'[t] = label /\ idx(t) = b => Due(label, b)' = Due(label, b) \cup {t}
           /\ pc'[t] # label => Due(label, b)' = Due(label, b) \ {t}
<1>1. \A u \in Threads : idx(u)' = idx(u) /\ (u # t => pc'[u] = pc[u])
  BY DEF Others, Still, idx
<1> QED
  BY <1>1 DEF Due

\* A writer's bucket has no step of another thread due.
LEMMA DueAlone ==
    ASSUME Core, NEW t \in Threads, pc[t] \in Held, Op(t) # "read", NEW label,
           label \in {"count", "free"}
    PROVE  Due(label, idx(t)) = IF pc[t] = label THEN {t} ELSE {}
<1>1. \A u \in Threads : pc[u] = label /\ idx(u) = idx(t) => u = t
  BY Alone DEF Core, Held
<1> QED
  BY <1>1 DEF Due

LEMMA ReplaceValueKept ==
    ASSUME Core, NEW own \in [Nodes -> 0 .. HashSize], NEW rank \in [Nodes -> Nat],
           Lists(own, rank), NEW t \in Threads, ReplaceValue(t)
    PROVE  Lists(own, rank)'
<1>0. Typed /\ InCalls /\ Locked /\ Listed(own, rank) /\ Standing(t, own, rank)
  BY DEF Core, Lists
<1>1. /\ pc[t] = "update" /\ Op(t) = "update" /\ pc[t] \in Held
      /\ idx(t) \in Buckets /\ idx(t) # HashSize
  BY <1>0, Bucket, Constants DEF ReplaceValue, At, InCalls, Held
<1>2. Others(t)
  BY <1>0, OthersAreStill DEF Step
<1>3. /\ UNCHANGED <<buckets, bucket_sizes, call, local, end>>
      /\ pc' = [pc EXCEPT ![t] = "unlock"] /\ pc'[t] = "unlock"
  BY <1>0 DEF ReplaceValue, Goto, Typed
<1>4. PICK n \in Nodes : n = node[t] /\ own[n] = idx(t) /\ heap[n] \in Node
  BY <1>0, <1>1, LiveNode DEF ReplaceValue, At, Standing, Live
<1>5. PICK r \in Node : /\ heap' = [heap EXCEPT ![n] = r]
                        /\ r.key = heap[n].key /\ r.next = heap[n].next
  <2>1. call[t].value \in Values
    BY <1>0, <1>1, Bucket, CallTypes DEF Op
  <2>2. PICK r \in Node : r = [heap[n] EXCEPT !.value = call[t].value]
    BY <1>4, <2>1, Fields
  <2>3. heap' = [heap EXCEPT ![n] = r]
    BY <1>4, <2>2 DEF ReplaceValue
  <2>4. r.key = heap[n].key /\ r.next = heap[n].next
    BY <1>4, <2>1, <2>2, Fields
  <2> QED
    BY <2>3, <2>4
<1>6. \A m \in Nodes : /\ heap'[m].key = heap[m].key /\ heap'[m].next = heap[m].next
                       /\ heap'[m] # Unallocated <=> heap[m] # Unallocated
                       /\ m # n => heap'[m] = heap[m]
  <2>1. n \in Nodes /\ heap'[n] = r /\ \A m \in Nodes : m # n => heap'[m] = heap[m]
    BY <1>0, <1>4, <1>5 DEF Typed, InCalls
  <2>2. r # Unallocated /\ heap[n] # Unallocated
    BY <1>4, Constants
  <2> QED
    BY <1>5, <2>1, <2>2
<1>7. Listed(own, rank)'
  BY <1>0, <1>3, <1>6, Constants DEF Listed, Live, Kept, end
<1>8. \A u \in Threads : Standing(u, own, rank)'
  <2>1. OnlyList(idx(t), own, rank, own, rank)
    BY <1>3, <1>4, <1>6 DEF OnlyList
  <2>2. Standing(t, own, rank)'
    BY <1>3 DEF Standing
  <2>3. \A u \in Threads : ~InHand(u, n)
    BY <1>1, <1>4 DEF Lists, Standing, InHand
  <2> QED
    BY <1>1, <1>2, <1>6, <2>1, <2>2, <2>3, WriterStep
<1>9. \A u \in Threads : \A m : InHand(u, m)' <=> InHand(u, m)
  BY <1>1, <1>2, <1>3 DEF InHand, Others, Still
<1>10. Hands(own)'
  BY <1>6, <1>9 DEF Lists, Hands, Live
<1>11. \A c \in Buckets : Due("count", c)' = Due("count", c) /\ Due("free", c)' = Due("free", c)
  BY <1>0, <1>1, <1>2, <1>3, DueAfter
<1>12. Counted(own)'
  BY <1>3, <1>11 DEF Lists, Counted, end
<1> QED
  BY <1>7, <1>8, <1>10, <1>12 DEF Lists

LEMMA AllocateKept ==
    ASSUME Core, NEW own \in [Nodes -> 0 .. HashSize], NEW rank \in [Nodes -> Nat],
           Lists(own, rank), NEW t \in Threads, Allocate(t)
    PROVE  Lists(own, rank)'
<1>0. Typed /\ InCalls /\ Locked /\ Listed(own, rank) /\ Standing(t, own, rank)
  BY DEF Core, Lists
<1>1. /\ pc[t] = "insert" /\ Op(t) = "insert" /\ pc[t] \in Held
      /\ idx(t) \in Buckets /\ idx(t) # HashSize
  BY <1>0, Bucket, Constants DEF Allocate, InCalls, Held
<1>2. Others(t)
  BY <1>0, OthersAreStill DEF Step
<1>3. /\ UNCHANGED <<buckets, bucket_sizes, call, node, prev, end>>
      /\ pc' = [pc EXCEPT ![t] = "link"] /\ pc'[t] = "link"
  BY <1>0 DEF Allocate, Goto, Typed
<1>4. call[t].key \in Keys /\ call[t].value \in Values
  BY <1>0, <1>1, Bucket, CallTypes DEF Op
<1>5. PICK n \in Nodes, r \in Node :
         /\ heap[n] = Unallocated /\ r.key = call[t].key /\ r.value = call[t].value
         /\ heap' = [heap EXCEPT ![n] = r] /\ newnode' = [newnode EXCEPT ![t] = n]
  <2>1. PICK n \in Nodes :
           /\ heap[n] = Unallocated
           /\ heap' = [heap EXCEPT ![n] = [key |-> call[t].key, value |-> call[t].value, next |-> NULL]]
           /\ newnode' = [newnode EXCEPT ![t] = n]
    BY DEF Allocate
  <2>2. PICK r \in Node : r = [key |-> call[t].key, value |-> call[t].value, next |-> NULL]
    BY <1>4 DEF Node
  <2> QED
    BY <2>1, <2>2
<1>6. heap'[n] = r /\ heap'[n] # Unallocated /\ \A m \in Nodes : m # n => heap'[m] = heap[m]
  BY <1>0, <1>5, Constants DEF Typed
<1>7. own[n] = HashSize /\ ~Live(n)
  BY <1>0, <1>5 DEF Listed, Live
<1>8. \A u \in Threads : ~InHand(u, n)
  BY <1>5 DEF Lists, Standing, InHand, Live
<1>9. Listed(own, rank)'
  <2>1. \A m \in Nodes : own[m] # HashSize => heap'[m] = heap[m]
    BY <1>6, <1>7
  <2>2. \A b \in Buckets : ~Kept(b) => ~Live(buckets[b])'
    <3>1. \A b \in Buckets : Kept(b)
      BY <1>0, <1>1, AllKept
    <3> QED
      BY <3>1
  <2>3. \A m \in Nodes : own[m] # HashSize => Live(m)'
    BY <1>0, <2>1 DEF Listed, Live
  <2>4. \A b \in Buckets : Kept(b)' <=> Kept(b)
    BY <1>3 DEF Kept, end
  <2>5. own \in [Nodes -> 0 .. HashSize] /\ rank \in [Nodes -> Nat]
    OBVIOUS
  <2>6. \A b \in Buckets : IF Kept(b)' THEN buckets'[b] # NULL => own[buckets'[b]] = b
                           ELSE ~Live(buckets[b])'
    BY <1>0, <1>3, <2>2, <2>4 DEF Listed
  <2>7. \A m \in Nodes : own[m] # HashSize => own[m] \in Buckets
    BY Constants DEF Buckets
  <2>8. \A m \in Nodes : own[m] # HashSize =>
          /\ Kept(own[m])' /\ Live(m)' /\ BucketOf[heap'[m].key] = own[m]
          /\ buckets'[own[m]] # NULL /\ rank[m] <= rank[buckets'[own[m]]]
          /\ heap'[m].next # NULL => own[heap'[m].next] = own[m] /\ rank[heap'[m].next] < rank[m]
    BY <1>0, <1>3, <2>1, <2>3, <2>4, <2>7 DEF Listed
  <2>9. \A l, m \in Nodes : own[l] = own[m] /\ own[m] # HashSize =>
          /\ rank[l] = rank[m] => l = m
          /\ heap'[l].key = heap'[m].key => l = m
          /\ rank[l] < rank[m] => heap'[m].next # NULL /\ rank[l] <= rank[heap'[m].next]
    BY <1>0, <2>1 DEF Listed
  <2> QED
    BY <2>5, <2>6, <2>8, <2>9 DEF Listed
<1>10. newnode'[t] = n
  BY <1>0, <1>5 DEF Typed
<1>11. \A u \in Threads : Standing(u, own, rank)'
  <2>1. OnlyList(idx(t), own, rank, own, rank)
    BY <1>3, <1>6, <1>7 DEF OnlyList
  <2>2. Standing(t, own, rank)'
    <3>1. idx(t)' = idx(t) /\ call'[t] = call[t]
      BY <1>3 DEF idx
    <3>2. \A m \in Nodes : own[m] = idx(t) => heap'[m].key # call[t].key
      BY <1>0, <1>1, <1>6, <1>7 DEF Standing
    <3> QED
      BY <1>3, <1>5, <1>6, <1>7, <1>10, <3>1, <3>2 DEF Standing, Live
  <2> QED
    BY <1>1, <1>2, <1>6, <1>8, <2>1, <2>2, WriterStep
<1>12. \A u \in Threads : \A m : InHand(u, m)' <=> InHand(u, m) \/ (u = t /\ m = n)
  BY <1>1, <1>2, <1>3, <1>10 DEF InHand, Others, Still
<1>13. Hands(own)'
  <2>1. \A m \in Nodes : Live(m)' <=> m = n \/ Live(m)
    BY <1>6 DEF Live
  <2> QED
    BY <1>8, <1>12, <2>1 DEF Lists, Hands
<1>14. \A c \in Buckets : Due("count", c)' = Due("count", c) /\ Due("free", c)' = Due("free", c)
  BY <1>0, <1>1, <1>2, <1>3, DueAfter
<1>15. Counted(own)'
  BY <1>3, <1>14 DEF Lists, Counted, end
<1> QED
  BY <1>9, <1>11, <1>13, <1>15 DEF Lists

\* The node that is given up was in no list.
LEMMA StrdupFailsKept ==
    ASSUME Core, NEW own \in [Nodes -> 0 .. HashSize], NEW rank \in [Nodes -> Nat],
           Lists(own, rank), NEW t \in Threads, StrdupFails(t)
    PROVE  Lists(own, rank)'
<1>0. Typed /\ InCalls /\ Locked /\ Listed(own, rank) /\ Standing(t, own, rank)
  BY DEF Core, Lists
<1>1. /\ pc[t] = "link" /\ Op(t) = "insert" /\ pc[t] \in Held
      /\ idx(t) \in Buckets /\ idx(t) # HashSize
  BY <1>0, Bucket, Constants DEF StrdupFails, InCalls, Held
<1>2. Others(t)
  BY <1>0, OthersAreStill DEF Step
<1>3. /\ UNCHANGED <<buckets, bucket_sizes, call, node, prev, end>>
      /\ pc' = [pc EXCEPT ![t] = "unlock"] /\ pc'[t] = "unlock"
  BY <1>0 DEF StrdupFails, Goto, Typed
<1>4. PICK q \in Nodes : q = newnode[t] /\ own[q] = HashSize
  BY <1>0, <1>1, LiveNode DEF Standing
<1>5. /\ heap'[q] = Unallocated /\ ~Live(q)'
      /\ \A m \in Nodes : m # q => heap'[m] = heap[m]
  BY <1>0, <1>4 DEF StrdupFails, Typed, Live
<1>6. ASSUME NEW m \in Nodes, own[m] # HashSize PROVE heap'[m] = heap[m] /\ Live(m)' /\ own[m] \in Buckets
  <2>1. heap'[m] = heap[m] /\ Live(m)
    BY <1>0, <1>4, <1>5, <1>6 DEF Listed
  <2> QED
    BY <1>6, <2>1, Constants DEF Live, Buckets
<1>7. \A c \in Buckets : Kept(c) /\ Kept(c)'
  <2>1. \A c \in Buckets : Kept(c)
    BY <1>0, <1>1, AllKept
  <2> QED
    BY <1>3, <2>1 DEF Kept, end
<1>8. Listed(own, rank)'
  <2>1. \A c \in Buckets : buckets'[c] # NULL => own[buckets'[c]] = c
    BY <1>0, <1>3, <1>7 DEF Listed
  <2>2. \A n \in Nodes : own[n] # HashSize =>
          /\ Kept(own[n])' /\ Live(n)' /\ BucketOf[heap'[n].key] = own[n]
          /\ buckets'[own[n]] # NULL /\ rank[n] <= rank[buckets'[own[n]]]
          /\ heap'[n].next # NULL => own[heap'[n].next] = own[n] /\ rank[heap'[n].next] < rank[n]
    BY <1>0, <1>3, <1>6, <1>7 DEF Listed
  <2>3. \A m, n \in Nodes : own[m] = own[n] /\ own[n] # HashSize =>
          /\ rank[m] = rank[n] => m = n
          /\ heap'[m].key = heap'[n].key => m = n
          /\ rank[m] < rank[n] => heap'[n].next # NULL /\ rank[m] <= rank[heap'[n].next]
    BY <1>0, <1>6 DEF Listed
  <2> QED
    BY <1>7, <2>1, <2>2, <2>3 DEF Listed
<1>9. \A u \in Threads : u # t => ~InHand(u, q)
  BY <1>1, <1>4 DEF Lists, Hands, InHand
<1>10. \A u \in Threads : Standing(u, own, rank)'
  <2>1. OnlyList(idx(t), own, rank, own, rank)
    BY <1>3, <1>6 DEF OnlyList
  <2>2. Standing(t, own, rank)'
    BY <1>3 DEF Standing
  <2>3. \A n \in Nodes, u \in Threads : u # t /\ InHand(u, n) => heap'[n] = heap[n]
    BY <1>5, <1>9
  <2> QED
    BY <1>1, <1>2, <2>1, <2>2, <2>3, WriterStep
<1>11. \A u \in Threads, m \in Nodes : InHand(u, m)' <=> InHand(u, m) /\ u # t
  BY <1>1, <1>2, <1>3 DEF InHand, Others, Still
<1>12. Hands(own)'
  <2>1. \A m \in Nodes : Live(m)' <=> Live(m) /\ m # q
    BY <1>5 DEF Live
  <2>2. \A m \in Nodes : InHand(t, m) => m = q
    BY <1>1, <1>4 DEF InHand
  <2> QED
    BY <1>11, <2>1, <2>2 DEF Lists, Hands
<1>13. \A c \in Buckets : Due("count", c)' = Due("count", c) /\ Due("free", c)' = Due("free", c)
  BY <1>0, <1>1, <1>2, <1>3, DueAfter
<1>14. Counted(own)'
  BY <1>3, <1>13 DEF Lists, Counted, end
<1> QED
  BY <1>8, <1>10, <1>12, <1>14 DEF Lists

LEMMA CountKept ==
    ASSUME Core, NEW own \in [Nodes -> 0 .. HashSize], NEW rank \in [Nodes -> Nat],
           Lists(own, rank), NEW t \in Threads, Count(t)
    PROVE  Lists(own, rank)'
<1>0. Typed /\ InCalls /\ Locked /\ Listed(own, rank) /\ Standing(t, own, rank)
  BY DEF Core, Lists
<1>1. /\ pc[t] = "count" /\ Op(t) = "insert" /\ pc[t] \in Held
      /\ idx(t) \in Buckets /\ idx(t) # HashSize
  BY <1>0, Bucket, Constants DEF Count, InCalls, Held
<1>2. Others(t)
  BY <1>0, OthersAreStill DEF Step
<1>3. /\ UNCHANGED <<heap, buckets, call, local, end>>
      /\ pc' = [pc EXCEPT ![t] = "unlock"] /\ pc'[t] = "unlock"
  BY <1>0 DEF Count, Goto, Typed
<1>4. Listed(own, rank)'
  BY <1>0, <1>3 DEF Listed, Live, Kept, end
<1>5. \A u \in Threads : Standing(u, own, rank)'
  <2>1. OnlyList(idx(t), own, rank, own, rank)
    BY <1>3 DEF OnlyList
  <2>2. Standing(t, own, rank)'
    BY <1>3 DEF Standing
  <2> QED
    BY <1>1, <1>2, <1>3, <2>1, <2>2, WriterStep
<1>6. \A u \in Threads : \A m : InHand(u, m)' <=> InHand(u, m)
  BY <1>1, <1>2, <1>3 DEF InHand, Others, Still
<1>7. Hands(own)'
  BY <1>3, <1>6 DEF Lists, Hands, Live
<1>8. PICK b \in Buckets : b = idx(t)
  BY <1>1
<1>9. /\ \A c \in Buckets : Due("free", c)' = Due("free", c)
      /\ \A c \in Buckets : c # b => Due("count", c)' = Due("count", c)
      /\ Due("count", b) = {t} /\ Due("count", b)' = {}
  <2>1. Due("count", b) = {t}
    BY <1>1, <1>8, DueAlone
  <2>2. Due("count", b)' = Due("count", b) \ {t}
    BY <1>0, <1>2, <1>3, DueAfter
  <2> QED
    BY <1>0, <1>1, <1>2, <1>3, <1>8, <2>1, <2>2, DueAfter
<1>10. Cardinality({t}) = 1 /\ Cardinality({}) = 0
  BY FS_Singleton, FS_EmptySet
<1>11. bucket_sizes[b] \in Nat
  BY DEF Lists, Counted
<1>12. bucket_sizes' = [bucket_sizes EXCEPT ![b] = bucket_sizes[b] + 1]
  BY <1>8 DEF Count
<1>13. bucket_sizes'[b] = bucket_sizes[b] + 1 /\ \A c \in Buckets : c # b => bucket_sizes'[c] = bucket_sizes[c]
  BY <1>0, <1>12 DEF Typed
<1>14. Counted(own)'
  <2>1. ASSUME NEW c \in Buckets PROVE bucket_sizes'[c] \in Nat
    BY <1>11, <1>13 DEF Lists, Counted
  <2>2. ASSUME NEW c \in Buckets, c > destroyed \/ (destroyed = 0 /\ ~destroy_failed)
        PROVE bucket_sizes'[c] + Cardinality(Due("count", c)') =
                 Cardinality({n \in Nodes : own[n] = c}) + Cardinality(Due("free", c)')
    <3>1. bucket_sizes[c] + Cardinality(Due("count", c)) =
              Cardinality({n \in Nodes : own[n] = c}) + Cardinality(Due("free", c))
      BY <2>2 DEF Lists, Counted
    <3>2. CASE c = b
      BY <1>9, <1>10, <1>11, <1>13, <3>1, <3>2
    <3>3. CASE c # b
      BY <1>9, <1>13, <3>1, <3>3
    <3> QED
      BY <3>2, <3>3
  <2> QED
    BY <1>3, <2>1, <2>2 DEF Counted, end
<1> QED
  BY <1>4, <1>5, <1>7, <1>14 DEF Lists

LEMMA LinkKept ==
    ASSUME Core, NEW own \in [Nodes -> 0 .. HashSize], NEW rank \in [Nodes -> Nat],
           Lists(own, rank), NEW t \in Threads, Link(t)
    PROVE  \E own2 \in [Nodes -> 0 .. HashSize], rank2 \in [Nodes -> Nat] :
              /\ Lists(own2, rank2)'
              /\ own2[newnode[t]] = idx(t) /\ \A n \in Nodes : n # newnode[t] => own2[n] = own[n]
<1>0. Typed /\ InCalls /\ Locked /\ Listed(own, rank) /\ Standing(t, own, rank)
  BY DEF Core, Lists
<1>1. /\ pc[t] = "link" /\ Op(t) = "insert" /\ pc[t] \in Held
      /\ idx(t) \in Buckets /\ idx(t) # HashSize
  BY <1>0, Bucket, Constants DEF Link, InCalls, Held
<1>2. Others(t)
  BY <1>0, OthersAreStill DEF Step
<1>3. /\ UNCHANGED <<bucket_sizes, call, node, prev, end>>
      /\ pc' = [pc EXCEPT ![t] = "count"] /\ pc'[t] = "count"
      /\ newnode'[t] = NULL
  BY <1>0 DEF Link, Goto, Typed
<1>4. PICK b \in Buckets, q \in Nodes, h \in Nodes \cup {NULL} :
         b = idx(t) /\ q = newnode[t] /\ h = buckets[b]
  BY <1>0, <1>1 DEF Standing, Live, Typed
<1>5. /\ heap[q] \in Node /\ Live(q) /\ own[q] = HashSize
      /\ heap[q].key = call[t].key /\ BucketOf[call[t].key] = b
      /\ \A m \in Nodes : own[m] = b => heap[m].key # heap[q].key
  BY <1>0, <1>1, <1>4, LiveNode DEF Standing, idx
<1>6. PICK r \in Node : /\ heap' = [heap EXCEPT ![q] = r]
                        /\ r.key = heap[q].key /\ r.next = h
  <2>1. PICK r \in Node : r = [heap[q] EXCEPT !.next = h]
    BY <1>5, Fields
  <2>2. r.key = heap[q].key /\ r.next = h
    BY <1>5, <2>1, Fields
  <2> QED
    BY <1>4, <2>1, <2>2 DEF Link
<1>7. /\ heap'[q] = r /\ heap'[q] # Unallocated /\ \A m \in Nodes : m # q => heap'[m] = heap[m]
      /\ buckets'[b] = q /\ \A c \in Buckets : c # b => buckets'[c] = buckets[c]
  BY <1>0, <1>4, <1>6, Constants DEF Link, Typed
<1>8. PICK own2 \in [Nodes -> 0 .. HashSize] :
         own2[q] = b /\ \A m \in Nodes : m # q => own2[m] = own[m]
  <2>1. [own EXCEPT ![q] = b] \in [Nodes -> 0 .. HashSize]
    BY Constants DEF Buckets
  <2> QED
    BY <2>1
\* The new node is ranked above the former head.
<1>9. PICK k \in Nat : h # NULL => k > rank[h]
  <2>1. CASE h = NULL
    BY <2>1
  <2>2. CASE h # NULL
    <3>1. rank[h] + 1 \in Nat /\ rank[h] + 1 > rank[h]
      BY <2>2
    <3> QED
      BY <3>1
  <2> QED
    BY <2>1, <2>2
<1>10. PICK rank2 \in [Nodes -> Nat] : rank2[q] = k /\ \A m \in Nodes : m # q => rank2[m] = rank[m]
  <2>1. [rank EXCEPT ![q] = k] \in [Nodes -> Nat]
    OBVIOUS
  <2> QED
    BY <2>1
<1>11. /\ \A c \in Buckets : Kept(c) /\ Kept(c)'
       /\ \A n \in Nodes : own[n] # HashSize => own[n] \in Buckets
       /\ \A n \in Nodes : own2[n] # HashSize => own2[n] \in Buckets
       /\ b # HashSize /\ q # NULL
  <2>1. \A c \in Buckets : Kept(c)
    BY <1>0, <1>1, AllKept
  <2> QED
    BY <1>3, <2>1, Constants DEF Kept, end, Buckets
\* What is known of a node that was listed before.
<1>12. ASSUME NEW n \in Nodes, own[n] # HashSize
       PROVE  /\ n # q /\ Live(n) /\ own2[n] = own[n] /\ rank2[n] = rank[n] /\ heap'[n] = heap[n]
              /\ BucketOf[heap[n].key] = own[n]
              /\ heap[n].next # NULL => /\ heap[n].next \in Nodes /\ own[heap[n].next] = own[n]
                                        /\ rank[heap[n].next] < rank[n] /\ heap[n].next # q
              /\ own[n] = b => h # NULL /\ h # q /\ rank[n] <= rank[h] /\ rank[n] < k
              /\ own[n] # b => /\ buckets[own[n]] # NULL /\ buckets[own[n]] # q
                               /\ rank[n] <= rank[buckets[own[n]]]
                               /\ buckets[own[n]] \in Nodes
  <2>1. n # q /\ own2[n] = own[n] /\ rank2[n] = rank[n] /\ heap'[n] = heap[n]
    BY <1>5, <1>7, <1>8, <1>10, <1>12
  <2>2. /\ Live(n) /\ BucketOf[heap[n].key] = own[n] /\ buckets[own[n]] # NULL
        /\ rank[n] <= rank[buckets[own[n]]]
        /\ heap[n].next # NULL => own[heap[n].next] = own[n] /\ rank[heap[n].next] < rank[n]
    BY <1>0, <1>12 DEF Listed
  <2>3. heap[n].next \in Nodes \cup {NULL}
    BY <1>0, <2>2, LiveNode, Fields
  <2>4. own[buckets[own[n]]] = own[n] /\ buckets[own[n]] \in Nodes
    BY <1>0, <1>11, <1>12, <2>2 DEF Listed, Typed
  <2>5. own[n] = b => h # NULL /\ h # q /\ rank[n] <= rank[h] /\ rank[h] \in Nat
    BY <1>4, <1>5, <1>11, <2>2, <2>4
  <2>6. own[n] = b => rank[n] < k
    <3>1. rank[n] \in Nat
      OBVIOUS
    <3> QED
      BY <1>9, <2>5, <3>1
  <2> QED
    BY <1>5, <1>12, <2>1, <2>2, <2>3, <2>4, <2>5, <2>6
<1>13. h # NULL => own[h] = b /\ h # q /\ h \in Nodes /\ rank2[h] < k
  BY <1>0, <1>4, <1>5, <1>9, <1>10, <1>11 DEF Listed
<1>14. Listed(own2, rank2)'
  <2>1. ASSUME NEW c \in Buckets PROVE buckets'[c] # NULL => own2[buckets'[c]] = c
    <3>1. CASE c = b
      BY <1>7, <1>8, <3>1
    <3>2. CASE c # b
      <4>1. buckets[c] # NULL => buckets[c] \in Nodes /\ own[buckets[c]] = c /\ c # HashSize
        BY <1>0, <1>11, Constants DEF Listed, Typed
      <4> QED
        BY <1>7, <1>12, <3>2, <4>1
    <3> QED
      BY <3>1, <3>2
  <2>2. ASSUME NEW n \in Nodes, own2[n] # HashSize
        PROVE  /\ Live(n)' /\ BucketOf[heap'[n].key] = own2[n]
               /\ buckets'[own2[n]] # NULL /\ rank2[n] <= rank2[buckets'[own2[n]]]
               /\ heap'[n].next # NULL => own2[heap'[n].next] = own2[n] /\ rank2[heap'[n].next] < rank2[n]
    <3>1. CASE n = q
      <4>1. Live(n)' /\ BucketOf[heap'[n].key] = own2[n] /\ buckets'[own2[n]] = q
        BY <1>5, <1>6, <1>7, <1>8, <3>1 DEF Live
      <4>2. rank2[n] <= rank2[q]
        BY <3>1
      <4>3. heap'[n].next # NULL => own2[heap'[n].next] = own2[n] /\ rank2[heap'[n].next] < rank2[n]
        BY <1>6, <1>7, <1>8, <1>10, <1>13, <3>1
      <4> QED
        BY <1>11, <4>1, <4>2, <4>3
    <3>2. CASE n # q
      <4>1. own[n] # HashSize /\ own2[n] = own[n]
        BY <1>8, <2>2, <3>2
      <4>2. Live(n)'
        BY <1>12, <4>1 DEF Live
      <4>3. heap'[n].next # NULL => own2[heap'[n].next] = own2[n] /\ rank2[heap'[n].next] < rank2[n]
        BY <1>8, <1>10, <1>12, <4>1
      <4>4. CASE own[n] = b
        BY <1>7, <1>10, <1>11, <1>12, <4>1, <4>2, <4>3, <4>4
      <4>5. CASE own[n] # b
        <5>1. buckets'[own[n]] = buckets[own[n]]
          BY <1>7, <1>11, <4>1, <4>5
        <5> QED
          BY <1>10, <1>12, <4>1, <4>2, <4>3, <4>5, <5>1
      <4> QED
        BY <4>4, <4>5
    <3> QED
      BY <3>1, <3>2
  <2>3. ASSUME NEW m \in Nodes, NEW n \in Nodes, own2[m] = own2[n], own2[n] # HashSize
        PROVE  /\ rank2[m] = rank2[n] => m = n
               /\ heap'[m].key = heap'[n].key => m = n
               /\ rank2[m] < rank2[n] => heap'[n].next # NULL /\ rank2[m] <= rank2[heap'[n].next]
    <3>1. PICK i \in Nat, j \in Nat : i = rank2[m] /\ j = rank2[n]
      OBVIOUS
    <3>2. CASE m = q /\ n = q
      BY <3>1, <3>2
    <3>3. CASE m = q /\ n # q
      <4>1. own[n] = b
        BY <1>8, <2>3, <3>3
      <4>2. rank2[n] < k
        BY <1>11, <1>12, <4>1
      <4> QED
        BY <1>5, <1>6, <1>7, <1>10, <3>1, <3>3, <4>1, <4>2
    <3>4. CASE m # q /\ n = q
      <4>1. own[m] = b
        BY <1>8, <2>3, <3>4
      <4>2. rank2[m] < k /\ h # NULL /\ h # q /\ rank[m] <= rank[h] /\ rank2[m] = rank[m]
        BY <1>11, <1>12, <4>1
      <4>3. rank2[h] = rank[h]
        BY <1>10, <1>13, <4>2
      <4> QED
        BY <1>5, <1>6, <1>7, <1>10, <3>1, <3>4, <4>1, <4>2, <4>3
    <3>5. CASE m # q /\ n # q
      <4>1. own[m] = own[n] /\ own[n] # HashSize
        BY <1>8, <2>3, <3>5
      <4>2. /\ rank[m] = rank[n] => m = n
            /\ heap[m].key = heap[n].key => m = n
            /\ rank[m] < rank[n] => heap[n].next # NULL /\ rank[m] <= rank[heap[n].next]
        BY <1>0, <4>1 DEF Listed
      <4>3. heap[n].next # NULL => rank2[heap[n].next] = rank[heap[n].next]
        BY <1>10, <1>12, <4>1
      <4> QED
        BY <1>12, <4>1, <4>2, <4>3
    <3> QED
      BY <3>2, <3>3, <3>4, <3>5
  <2> QED
    BY <1>11, <2>1, <2>2, <2>3 DEF Listed
<1>15. \A u \in Threads : u # t => ~InHand(u, q)
  BY <1>1, <1>4 DEF Lists, Hands, InHand
<1>16. \A u \in Threads : Standing(u, own2, rank2)'
  <2>1. OnlyList(idx(t), own, rank, own2, rank2)
    BY <1>4, <1>5, <1>7, <1>8, <1>10 DEF OnlyList
  <2>2. Standing(t, own2, rank2)'
    BY <1>3 DEF Standing
  <2>3. \A n \in Nodes, u \in Threads : u # t /\ InHand(u, n) => heap'[n] = heap[n] /\ own2[n] = own[n]
    BY <1>7, <1>8, <1>15
  <2> QED
    BY <1>1, <1>2, <2>1, <2>2, <2>3, WriterStep
<1>17. \A u \in Threads, m \in Nodes : InHand(u, m)' <=> InHand(u, m) /\ u # t
  BY <1>1, <1>2, <1>3 DEF InHand, Others, Still
<1>18. Hands(own2)'
  <2>1. \A m \in Nodes : Live(m)' <=> Live(m)
    BY <1>5, <1>7 DEF Live
  <2>2. \A m \in Nodes : InHand(t, m) => m = q
    BY <1>1, <1>4 DEF InHand
  <2> QED
    BY <1>8, <1>11, <1>17, <2>1, <2>2 DEF Lists, Hands
<1>19. /\ \A c \in Buckets : Due("free", c)' = Due("free", c)
       /\ \A c \in Buckets : c # b => Due("count", c)' = Due("count", c)
       /\ Due("count", b) = {} /\ Due("count", b)' = {t}
  <2>1. Due("count", b) = {}
    BY <1>1, <1>4, DueAlone
  <2>2. Due("count", b)' = Due("count", b) \cup {t}
    BY <1>0, <1>2, <1>3, <1>4, DueAfter
  <2> QED
    BY <1>0, <1>1, <1>2, <1>3, <1>4, <2>1, <2>2, DueAfter
<1>20. Cardinality({t}) = 1 /\ Cardinality({}) = 0
  BY FS_Singleton, FS_EmptySet
<1>21. \A c \in Buckets : c # b => {n \in Nodes : own2[n] = c} = {n \in Nodes : own[n] = c}
  BY <1>5, <1>8, Constants
<1>22. /\ Cardinality({n \in Nodes : own2[n] = b}) = Cardinality({n \in Nodes : own[n] = b}) + 1
       /\ Cardinality({n \in Nodes : own[n] = b}) \in Nat
  <2>1. PICK S : S = {n \in Nodes : own[n] = b}
    OBVIOUS
  <2>2. q \notin S /\ {n \in Nodes : own2[n] = b} = S \cup {q}
    BY <1>5, <1>8, <1>11, <2>1
  <2>3. IsFiniteSet(S)
    BY <2>1, Constants, FS_Subset
  <2> QED
    BY <2>1, <2>2, <2>3, FS_AddElement, FS_CardinalityType
<1>23. Counted(own2)'
  <2>1. ASSUME NEW c \in Buckets, c > destroyed \/ (destroyed = 0 /\ ~destroy_failed)
        PROVE bucket_sizes[c] + Cardinality(Due("count", c)') =
                 Cardinality({n \in Nodes : own2[n] = c}) + Cardinality(Due("free", c)')
    <3>1. /\ bucket_sizes[c] + Cardinality(Due("count", c)) =
                 Cardinality({n \in Nodes : own[n] = c}) + Cardinality(Due("free", c))
          /\ bucket_sizes[c] \in Nat
      BY <2>1 DEF Lists, Counted
    <3>2. CASE c = b
      <4>1. Due("free", b) = {}
        BY <1>1, <1>4, DueAlone
      <4>2. /\ Cardinality(Due("free", b)) = 0 /\ Cardinality(Due("free", b)') = 0
            /\ Cardinality(Due("count", b)) = 0 /\ Cardinality(Due("count", b)') = 1
        BY <1>19, <1>20, <4>1
      <4> QED
        BY <1>22, <3>1, <3>2, <4>2
    <3>3. CASE c # b
      BY <1>19, <1>21, <3>1, <3>3
    <3> QED
      BY <3>2, <3>3
  <2>2. \A c \in Buckets : bucket_sizes[c] \in Nat
    BY DEF Lists, Counted
  <2> QED
    BY <1>3, <2>1, <2>2 DEF Counted, end
<1> QED
  BY <1>4, <1>8, <1>14, <1>16, <1>18, <1>23 DEF Lists

LEMMA UnlinkKept ==
    ASSUME Core, NEW own \in [Nodes -> 0 .. HashSize], NEW rank \in [Nodes -> Nat],
           Lists(own, rank), NEW t \in Threads, Unlink(t)
    PROVE  \E own2 \in [Nodes -> 0 .. HashSize], rank2 \in [Nodes -> Nat] :
              /\ Lists(own2, rank2)'
              /\ own2[node[t]] = HashSize /\ \A n \in Nodes : n # node[t] => own2[n] = own[n]
<1>0. Typed /\ InCalls /\ Locked /\ Listed(own, rank) /\ Standing(t, own, rank)
  BY DEF Core, Lists
<1>1. /\ pc[t] = "delete" /\ Op(t) = "delete" /\ pc[t] \in Held
      /\ idx(t) \in Buckets /\ idx(t) # HashSize
  BY <1>0, Bucket, Constants DEF Unlink, At, InCalls, Held
<1>2. Others(t)
  BY <1>0, OthersAreStill DEF Step
<1>3. /\ UNCHANGED <<bucket_sizes, call, node, prev, newnode, end>>
      /\ pc' = [pc EXCEPT ![t] = "free"] /\ pc'[t] = "free"
  BY <1>0 DEF Unlink, Goto, local, Typed
<1>4. PICK b \in Buckets, q \in Nodes, p \in Nodes \cup {NULL}, h \in Nodes \cup {NULL} :
         b = idx(t) /\ q = node[t] /\ p = prev[t] /\ h = buckets[b]
  BY <1>0, <1>1 DEF Unlink, At, Live, Typed
<1>5. /\ heap[q] \in Node /\ Live(q) /\ q # NULL /\ own[q] = b /\ b # HashSize
      /\ p = NULL => h = q
      /\ p # NULL => own[p] = b /\ heap[p].next = q
  BY <1>0, <1>1, <1>4, LiveNode, Constants DEF Unlink, At, Standing
<1>6. PICK x \in Nodes \cup {NULL} : x = heap[q].next
  BY <1>5, Fields
\* What is known of a listed node.
<1>7. ASSUME NEW n \in Nodes, own[n] # HashSize
      PROVE  /\ Live(n) /\ heap[n] \in Node /\ own[n] \in Buckets /\ heap[n].next \in Nodes \cup {NULL}
             /\ BucketOf[heap[n].key] = own[n]
             /\ heap[n].next # NULL => own[heap[n].next] = own[n] /\ rank[heap[n].next] < rank[n]
             /\ buckets[own[n]] # NULL /\ buckets[own[n]] \in Nodes
             /\ rank[n] <= rank[buckets[own[n]]]
  <2>1. /\ Live(n) /\ BucketOf[heap[n].key] = own[n] /\ buckets[own[n]] # NULL
        /\ rank[n] <= rank[buckets[own[n]]]
        /\ heap[n].next # NULL => own[heap[n].next] = own[n] /\ rank[heap[n].next] < rank[n]
    BY <1>0, <1>7 DEF Listed
  <2>2. heap[n] \in Node /\ heap[n].next \in Nodes \cup {NULL}
    BY <1>0, <2>1, LiveNode, Fields
  <2>3. own[n] \in Buckets
    BY <1>7, Constants DEF Buckets
  <2>4. buckets[own[n]] \in Nodes
    BY <1>0, <2>1, <2>3 DEF Typed
  <2> QED
    BY <2>1, <2>2, <2>3, <2>4
<1>8. ASSUME NEW m \in Nodes, NEW n \in Nodes, own[m] = own[n], own[n] # HashSize
      PROVE  /\ rank[m] = rank[n] => m = n
             /\ heap[m].key = heap[n].key => m = n
             /\ rank[m] < rank[n] => heap[n].next # NULL /\ rank[m] <= rank[heap[n].next]
  BY <1>0, <1>8 DEF Listed
<1>9. h \in Nodes /\ own[h] = b /\ rank[q] <= rank[h] /\ \A c \in Buckets : Kept(c) /\ Kept(c)'
  <2>1. \A c \in Buckets : Kept(c)
    BY <1>0, <1>1, AllKept
  <2>2. h # NULL /\ own[h] = b
    BY <1>0, <1>4, <1>5, <2>1 DEF Listed
  <2>3. \A c \in Buckets : Kept(c)'
    BY <1>3, <2>1 DEF Kept, end
  <2> QED
    BY <1>4, <1>5, <1>7, <2>1, <2>2, <2>3
\* A node has one predecessor, and the head has none.
<1>10. ASSUME NEW m \in Nodes, NEW n \in Nodes, own[m] = b, own[n] = b,
              heap[m].next = q, heap[n].next = q
       PROVE  m = n
  <2>1. PICK i \in Nat, j \in Nat, k \in Nat : i = rank[m] /\ j = rank[n] /\ k = rank[q]
    OBVIOUS
  <2>2. k < i /\ k < j
    BY <1>5, <1>7, <1>10, <2>1
  <2>3. ~(i < j) /\ ~(j < i)
    BY <1>5, <1>8, <1>10, <2>1, <2>2
  <2>4. i = j
    BY <2>3
  <2> QED
    BY <1>5, <1>8, <1>10, <2>1, <2>4
<1>11. h = q <=> p = NULL
  <2>1. ASSUME h = q, p # NULL PROVE FALSE
    <3>1. PICK i \in Nat, j \in Nat : i = rank[p] /\ j = rank[q]
      BY <1>4, <2>1
    <3>2. p \in Nodes /\ own[p] = b /\ own[p] # HashSize /\ heap[p].next = q /\ q # NULL
      BY <1>4, <1>5, <2>1
    <3>3. rank[heap[p].next] < rank[p] /\ rank[p] <= rank[buckets[own[p]]]
      BY <1>7, <3>2
    <3>4. j < i /\ i <= j
      BY <1>4, <2>1, <3>1, <3>2, <3>3
    <3> QED
      BY <3>4
  <2> QED
    BY <1>5, <2>1
<1>12. /\ \A m \in Nodes : /\ heap'[m].key = heap[m].key
                           /\ heap'[m] # Unallocated <=> heap[m] # Unallocated
                           /\ m # p => heap'[m] = heap[m]
       /\ p # NULL => heap'[p].next = x
       /\ buckets'[b] = (IF h = q THEN x ELSE h)
       /\ \A c \in Buckets : c # b => buckets'[c] = buckets[c]
  <2>1. CASE p = NULL
    <3>1. UNCHANGED heap /\ buckets' = [buckets EXCEPT ![b] = x]
      BY <1>4, <1>6, <2>1 DEF Unlink
    <3> QED
      BY <1>0, <1>11, <2>1, <3>1, Constants DEF Typed
  <2>2. CASE p # NULL
    <3>1. p \in Nodes /\ heap[p] \in Node
      BY <1>4, <1>5, <1>7, <2>2
    <3>2. PICK r \in Node : r = [heap[p] EXCEPT !.next = x]
      BY <3>1, Fields
    <3>3. r.key = heap[p].key /\ r.next = x
      BY <3>1, <3>2, Fields
    <3>4. heap' = [heap EXCEPT ![p] = r] /\ UNCHANGED buckets
      BY <1>4, <1>6, <2>2, <3>2 DEF Unlink
    <3> QED
      BY <1>0, <1>4, <1>11, <2>2, <3>1, <3>3, <3>4, Constants DEF Typed
  <2> QED
    BY <2>1, <2>2
<1>13. ASSUME NEW m \in Nodes, own[m] # HashSize
       PROVE  heap'[m].next = IF heap[m].next = q THEN x ELSE heap[m].next
  <2>1. CASE m = p
    BY <1>5, <1>12, <2>1, Constants
  <2>2. CASE m # p
    <3>1. ASSUME heap[m].next = q PROVE FALSE
      <4>1. own[m] = b
        BY <1>5, <1>7, <1>13, <3>1
      <4>2. p = NULL
        BY <1>4, <1>5, <1>10, <2>2, <3>1, <4>1
      <4>3. h = q
        BY <1>5, <4>2
      <4>4. PICK i \in Nat, j \in Nat : i = rank[m] /\ j = rank[q]
        OBVIOUS
      <4>5. i <= j /\ j < i
        BY <1>4, <1>5, <1>7, <1>13, <3>1, <4>1, <4>3, <4>4
      <4> QED
        BY <4>5
    <3> QED
      BY <1>12, <2>2, <3>1
  <2> QED
    BY <2>1, <2>2
<1>14. PICK own2 \in [Nodes -> 0 .. HashSize] :
          own2[q] = HashSize /\ \A m \in Nodes : m # q => own2[m] = own[m]
  <2>1. [own EXCEPT ![q] = HashSize] \in [Nodes -> 0 .. HashSize]
    BY Constants
  <2> QED
    BY <2>1
<1>15. x # NULL => x \in Nodes /\ own[x] = b /\ own2[x] = b /\ x # q /\ rank[x] < rank[q]
  <2>1. x # NULL => own[x] = b /\ rank[x] < rank[q] /\ x \in Nodes
    BY <1>5, <1>6, <1>7
  <2>2. rank[q] \in Nat
    OBVIOUS
  <2> QED
    BY <1>14, <2>1, <2>2
\* A node of the list that is not q is behind x if it is behind q.
<1>16. ASSUME NEW m \in Nodes, own[m] = b, m # q, rank[m] <= rank[q]
       PROVE  x # NULL /\ rank[m] <= rank[x]
  <2>1. rank[m] # rank[q] /\ rank[m] \in Nat /\ rank[q] \in Nat
    BY <1>5, <1>8, <1>16
  <2>2. rank[m] < rank[q]
    BY <1>16, <2>1
  <2> QED
    BY <1>5, <1>6, <1>8, <1>16, <2>2
<1>17. Listed(own2, rank)'
  <2>0. \A n \in Nodes : own2[n] # HashSize => n # q /\ own2[n] = own[n] /\ own[n] # HashSize
    BY <1>14
  <2>1. ASSUME NEW c \in Buckets PROVE buckets'[c] # NULL => own2[buckets'[c]] = c
    <3>1. CASE c = b
      BY <1>9, <1>12, <1>14, <1>15, <3>1
    <3>2. CASE c # b
      <4>1. buckets[c] # NULL => buckets[c] \in Nodes /\ own[buckets[c]] = c
        BY <1>0, <1>9 DEF Listed, Typed
      <4> QED
        BY <1>5, <1>12, <1>14, <3>2, <4>1
    <3> QED
      BY <3>1, <3>2
  <2>2. ASSUME NEW n \in Nodes, own2[n] # HashSize
        PROVE  buckets'[own2[n]] # NULL /\ rank[n] <= rank[buckets'[own2[n]]]
    <3>1. n # q /\ own2[n] = own[n] /\ own[n] # HashSize
      BY <2>0, <2>2
    <3>2. CASE own[n] = b
      <4>1. CASE h = q
        <5>1. rank[n] <= rank[q]
          BY <1>4, <1>7, <3>1, <3>2, <4>1
        <5> QED
          BY <1>12, <1>16, <3>1, <3>2, <4>1, <5>1
      <4>2. CASE h # q
        BY <1>4, <1>7, <1>12, <3>1, <3>2, <4>2
      <4> QED
        BY <4>1, <4>2
    <3>3. CASE own[n] # b
      BY <1>7, <1>12, <3>1, <3>3
    <3> QED
      BY <3>2, <3>3
  <2>3. ASSUME NEW n \in Nodes, own2[n] # HashSize, heap'[n].next # NULL
        PROVE  own2[heap'[n].next] = own2[n] /\ rank[heap'[n].next] < rank[n]
    <3>1. n # q /\ own2[n] = own[n] /\ own[n] # HashSize
      BY <2>0, <2>3
    <3>2. CASE heap[n].next = q
      <4>1. heap'[n].next = x /\ own[n] = b /\ rank[q] < rank[n]
        BY <1>5, <1>7, <1>13, <3>1, <3>2
      <4>2. PICK i \in Nat, j \in Nat, k \in Nat : i = rank[x] /\ j = rank[q] /\ k = rank[n]
        BY <1>15, <2>3, <4>1
      <4>3. i < j /\ j < k
        BY <1>15, <2>3, <4>1, <4>2
      <4>4. i < k
        BY <4>3
      <4> QED
        BY <1>15, <2>3, <3>1, <4>1, <4>2, <4>4
    <3>3. CASE heap[n].next # q
      <4>1. heap'[n].next = heap[n].next
        BY <1>13, <3>1, <3>3
      <4> QED
        BY <1>7, <1>14, <2>3, <3>1, <3>3, <4>1
    <3> QED
      BY <3>2, <3>3
  <2>4. ASSUME NEW n \in Nodes, own2[n] # HashSize
        PROVE  Kept(own2[n])' /\ Live(n)' /\ BucketOf[heap'[n].key] = own2[n]
    BY <1>7, <1>9, <1>12, <2>0, <2>4 DEF Live
  <2>5. ASSUME NEW m \in Nodes, NEW n \in Nodes, own2[m] = own2[n], own2[n] # HashSize
        PROVE  /\ rank[m] = rank[n] => m = n
               /\ heap'[m].key = heap'[n].key => m = n
               /\ rank[m] < rank[n] => heap'[n].next # NULL /\ rank[m] <= rank[heap'[n].next]
    <3>1. /\ n # q /\ own2[n] = own[n] /\ own[n] # HashSize
          /\ m # q /\ own[m] = own[n]
      BY <2>0, <2>5
    <3>2. (rank[m] = rank[n] => m = n) /\ (heap'[m].key = heap'[n].key => m = n)
      BY <1>8, <1>12, <3>1
    <3>3. ASSUME rank[m] < rank[n] PROVE heap'[n].next # NULL /\ rank[m] <= rank[heap'[n].next]
      <4>1. heap[n].next # NULL /\ rank[m] <= rank[heap[n].next]
        BY <1>8, <3>1, <3>3
      <4>2. CASE heap[n].next = q
        <5>1. own[n] = b /\ rank[m] <= rank[q]
          BY <1>5, <1>7, <3>1, <4>1, <4>2
        <5> QED
          BY <1>13, <1>16, <3>1, <4>2, <5>1
      <4>3. CASE heap[n].next # q
        BY <1>13, <3>1, <4>1, <4>3
      <4> QED
        BY <4>2, <4>3
    <3> QED
      BY <3>2, <3>3
  <2> QED
    BY <1>9, <2>1, <2>2, <2>3, <2>4, <2>5 DEF Listed
<1>18. \A u \in Threads : InHand(u, q) => FALSE
  BY <1>4, <1>5 DEF Lists, Standing, InHand
<1>19. \A u \in Threads : Standing(u, own2, rank)'
  <2>1. OnlyList(idx(t), own, rank, own2, rank)
    <3>1. \A n \in Nodes : own[n] \notin {b, HashSize} \/ own2[n] \notin {b, HashSize} =>
              n # q /\ n # p
      BY <1>5, <1>14, Constants
    <3>2. \A n \in Nodes : n # q /\ n # p => heap'[n] = heap[n] /\ own2[n] = own[n]
      BY <1>12, <1>14
    <3>3. \A c \in Buckets : c # b => buckets'[c] = buckets[c]
      BY <1>12
    <3>4. OnlyList(b, own, rank, own2, rank)
      BY <3>1, <3>2, <3>3 DEF OnlyList
    <3> QED
      BY <1>4, <3>4
  <2>2. Standing(t, own2, rank)'
    BY <1>3, <1>4, <1>5, <1>12, <1>14 DEF Standing, Live
  <2>3. ASSUME NEW n \in Nodes, NEW u \in Threads, u # t, InHand(u, n)
        PROVE  heap'[n] = heap[n] /\ own2[n] = own[n]
    <3>1. own[n] = HashSize
      BY <2>3 DEF Lists, Standing, InHand
    <3>2. n # q /\ n # p
      BY <1>5, <3>1, Constants
    <3>3. heap'[n] = heap[n]
      BY <1>12, <3>2
    <3> QED
      BY <1>14, <3>2, <3>3
  <2> QED
    BY <1>1, <1>2, <2>1, <2>2, <2>3, WriterStep
<1>20. \A u \in Threads, m \in Nodes : InHand(u, m)' <=> InHand(u, m) \/ (u = t /\ m = q)
  BY <1>1, <1>2, <1>3, <1>4 DEF InHand, Others, Still
<1>21. Hands(own2)'
  <2>1. \A m \in Nodes : Live(m)' <=> Live(m)
    BY <1>12 DEF Live
  <2> QED
    BY <1>14, <1>18, <1>20, <2>1 DEF Lists, Hands
<1>22. /\ \A c \in Buckets : Due("count", c)' = Due("count", c)
       /\ \A c \in Buckets : c # b => Due("free", c)' = Due("free", c)
       /\ Due("free", b) = {} /\ Due("free", b)' = {t}
  <2>1. Due("free", b) = {}
    BY <1>1, <1>4, DueAlone
  <2>2. Due("free", b)' = Due("free", b) \cup {t}
    BY <1>0, <1>2, <1>3, <1>4, DueAfter
  <2> QED
    BY <1>0, <1>1, <1>2, <1>3, <1>4, <2>1, <2>2, DueAfter
<1>23. \A c \in Buckets : c # b => {n \in Nodes : own2[n] = c} = {n \in Nodes : own[n] = c}
  BY <1>5, <1>14, Constants
<1>24. /\ Cardinality({n \in Nodes : own[n] = b}) = Cardinality({n \in Nodes : own2[n] = b}) + 1
       /\ Cardinality({n \in Nodes : own2[n] = b}) \in Nat
  <2>1. PICK S : S = {n \in Nodes : own2[n] = b}
    OBVIOUS
  <2>2. q \notin S /\ {n \in Nodes : own[n] = b} = S \cup {q}
    BY <1>5, <1>14, <2>1
  <2>3. IsFiniteSet(S)
    BY <2>1, Constants, FS_Subset
  <2> QED
    BY <2>1, <2>2, <2>3, FS_AddElement, FS_CardinalityType
<1>25. Counted(own2)'
  <2>1. ASSUME NEW c \in Buckets, c > destroyed \/ (destroyed = 0 /\ ~destroy_failed)
        PROVE bucket_sizes[c] + Cardinality(Due("count", c)') =
                 Cardinality({n \in Nodes : own2[n] = c}) + Cardinality(Due("free", c)')
    <3>1. /\ bucket_sizes[c] + Cardinality(Due("count", c)) =
                 Cardinality({n \in Nodes : own[n] = c}) + Cardinality(Due("free", c))
          /\ bucket_sizes[c] \in Nat
      BY <2>1 DEF Lists, Counted
    <3>2. CASE c = b
      <4>1. Due("count", b) = {}
        BY <1>1, <1>4, DueAlone
      <4>2. /\ Cardinality(Due("free", b)) = 0 /\ Cardinality(Due("free", b)') = 1
            /\ Cardinality(Due("count", b)) = 0 /\ Cardinality(Due("count", b)') = 0
        BY <1>22, <4>1, FS_Singleton, FS_EmptySet
      <4> QED
        BY <1>24, <3>1, <3>2, <4>2
    <3>3. CASE c # b
      BY <1>22, <1>23, <3>1, <3>3
    <3> QED
      BY <3>2, <3>3
  <2>2. \A c \in Buckets : bucket_sizes[c] \in Nat
    BY DEF Lists, Counted
  <2> QED
    BY <1>3, <2>1, <2>2 DEF Counted, end
<1> QED
  BY <1>4, <1>14, <1>17, <1>19, <1>21, <1>25 DEF Lists

LEMMA FreeNodeKept ==
    ASSUME Core, NEW own \in [Nodes -> 0 .. HashSize], NEW rank \in [Nodes -> Nat],
           Lists(own, rank), NEW t \in Threads, FreeNode(t)
    PROVE  Lists(own, rank)'
<1>0. Typed /\ InCalls /\ Locked /\ Listed(own, rank) /\ Standing(t, own, rank)
  BY DEF Core, Lists
<1>1. /\ pc[t] = "free" /\ Op(t) = "delete" /\ pc[t] \in Held
      /\ idx(t) \in Buckets /\ idx(t) # HashSize
  BY <1>0, Bucket, Constants DEF FreeNode, At, InCalls, Held
<1>2. Others(t)
  BY <1>0, OthersAreStill DEF Step
<1>3. /\ UNCHANGED <<buckets, call, node, prev, newnode, end>>
      /\ pc' = [pc EXCEPT ![t] = "unlock"] /\ pc'[t] = "unlock"
  BY <1>0 DEF FreeNode, Goto, local, Typed
<1>4. PICK b \in Buckets, q \in Nodes : b = idx(t) /\ q = node[t] /\ own[q] = HashSize
  BY <1>0, <1>1 DEF FreeNode, At, Live, Standing
<1>5. /\ heap'[q] = Unallocated /\ ~Live(q)'
      /\ \A m \in Nodes : m # q => heap'[m] = heap[m]
  BY <1>0, <1>4 DEF FreeNode, Typed, Live
<1>6. ASSUME NEW m \in Nodes, own[m] # HashSize PROVE heap'[m] = heap[m] /\ Live(m)' /\ own[m] \in Buckets
  <2>1. heap'[m] = heap[m] /\ Live(m)
    BY <1>0, <1>4, <1>5, <1>6 DEF Listed
  <2> QED
    BY <1>6, <2>1, Constants DEF Live, Buckets
<1>7. \A c \in Buckets : Kept(c) /\ Kept(c)'
  <2>1. \A c \in Buckets : Kept(c)
    BY <1>0, <1>1, AllKept
  <2> QED
    BY <1>3, <2>1 DEF Kept, end
<1>8. Listed(own, rank)'
  <2>1. \A c \in Buckets : buckets'[c] # NULL => own[buckets'[c]] = c
    BY <1>0, <1>3, <1>7 DEF Listed
  <2>2. \A n \in Nodes : own[n] # HashSize =>
          /\ Kept(own[n])' /\ Live(n)' /\ BucketOf[heap'[n].key] = own[n]
          /\ buckets'[own[n]] # NULL /\ rank[n] <= rank[buckets'[own[n]]]
          /\ heap'[n].next # NULL => own[heap'[n].next] = own[n] /\ rank[heap'[n].next] < rank[n]
    BY <1>0, <1>3, <1>6, <1>7 DEF Listed
  <2>3. \A m, n \in Nodes : own[m] = own[n] /\ own[n] # HashSize =>
          /\ rank[m] = rank[n] => m = n
          /\ heap'[m].key = heap'[n].key => m = n
          /\ rank[m] < rank[n] => heap'[n].next # NULL /\ rank[m] <= rank[heap'[n].next]
    BY <1>0, <1>6 DEF Listed
  <2> QED
    BY <1>7, <2>1, <2>2, <2>3 DEF Listed
<1>9. \A u \in Threads : u # t => ~InHand(u, q)
  BY <1>1, <1>4 DEF Lists, Hands, InHand
<1>10. \A u \in Threads : Standing(u, own, rank)'
  <2>1. OnlyList(idx(t), own, rank, own, rank)
    BY <1>3, <1>6 DEF OnlyList
  <2>2. Standing(t, own, rank)'
    BY <1>3 DEF Standing
  <2>3. \A n \in Nodes, u \in Threads : u # t /\ InHand(u, n) => heap'[n] = heap[n]
    BY <1>5, <1>9
  <2> QED
    BY <1>1, <1>2, <2>1, <2>2, <2>3, WriterStep
<1>11. \A u \in Threads, m \in Nodes : InHand(u, m)' <=> InHand(u, m) /\ u # t
  BY <1>1, <1>2, <1>3 DEF InHand, Others, Still
<1>12. Hands(own)'
  <2>1. \A m \in Nodes : Live(m)' <=> Live(m) /\ m # q
    BY <1>5 DEF Live
  <2>2. \A m \in Nodes : InHand(t, m) => m = q
    BY <1>1, <1>4 DEF InHand
  <2> QED
    BY <1>11, <2>1, <2>2 DEF Lists, Hands
<1>13. /\ \A c \in Buckets : Due("count", c)' = Due("count", c)
       /\ \A c \in Buckets : c # b => Due("free", c)' = Due("free", c)
       /\ Due("free", b) = {t} /\ Due("free", b)' = {} /\ Due("count", b) = {}
  <2>1. Due("free", b) = {t} /\ Due("count", b) = {}
    BY <1>1, <1>4, DueAlone
  <2>2. Due("free", b)' = Due("free", b) \ {t}
    BY <1>0, <1>2, <1>3, DueAfter
  <2> QED
    BY <1>0, <1>1, <1>2, <1>3, <1>4, <2>1, <2>2, DueAfter
\* The node has been taken out of the list and not yet out of the size.
<1>14. PICK k \in Nat : k = Cardinality({n \in Nodes : own[n] = b}) /\ bucket_sizes[b] = k + 1
  <2>1. destroyed = 0 /\ ~destroy_failed
    BY <1>0, <1>1, AllKept
  <2>2. /\ bucket_sizes[b] + Cardinality(Due("count", b)) =
               Cardinality({n \in Nodes : own[n] = b}) + Cardinality(Due("free", b))
        /\ bucket_sizes[b] \in Nat
    BY <2>1 DEF Lists, Counted
  <2>3. Cardinality(Due("free", b)) = 1 /\ Cardinality(Due("count", b)) = 0
    BY <1>13, FS_Singleton, FS_EmptySet
  <2>4. PICK S : S = {n \in Nodes : own[n] = b}
    OBVIOUS
  <2>5. PICK k \in Nat : k = Cardinality(S)
    BY <2>4, Constants, FS_Subset, FS_CardinalityType
  <2>6. bucket_sizes[b] + 0 = k + 1
    BY <2>2, <2>3, <2>4, <2>5
  <2>7. bucket_sizes[b] = k + 1
    <3>1. PICK v \in Nat : v = bucket_sizes[b]
      BY <2>2
    <3> QED
      BY <2>6, <3>1
  <2>8. k = Cardinality({n \in Nodes : own[n] = b})
    BY <2>4, <2>5
  <2> QED
    BY <2>7, <2>8
<1>15. bucket_sizes'[b] = k /\ \A c \in Buckets : c # b => bucket_sizes'[c] = bucket_sizes[c]
  <2>1. bucket_sizes' = [bucket_sizes EXCEPT ![b] = bucket_sizes[b] - 1]
    BY <1>4 DEF FreeNode
  <2> QED
    BY <1>0, <1>14, <2>1 DEF Typed
<1>16. Counted(own)'
  <2>1. ASSUME NEW c \in Buckets PROVE bucket_sizes'[c] \in Nat
    BY <1>15 DEF Lists, Counted
  <2>2. ASSUME NEW c \in Buckets, c > destroyed \/ (destroyed = 0 /\ ~destroy_failed)
        PROVE bucket_sizes'[c] + Cardinality(Due("count", c)') =
                 Cardinality({n \in Nodes : own[n] = c}) + Cardinality(Due("free", c)')
    <3>1. CASE c = b
      <4>1. Cardinality(Due("free", b)') = 0 /\ Cardinality(Due("count", b)') = 0
        BY <1>13, FS_EmptySet
      <4> QED
        BY <1>14, <1>15, <3>1, <4>1
    <3>2. CASE c # b
      BY <1>13, <1>15, <2>2, <3>2 DEF Lists, Counted
    <3> QED
      BY <3>1, <3>2
  <2> QED
    BY <1>3, <2>1, <2>2 DEF Counted, end
<1> QED
  BY <1>8, <1>10, <1>12, <1>16 DEF Lists

----------------------------------------------------------------------------
(* hash_destroy.                                                           *)

LEMMA DestroyBucketKept ==
    ASSUME Core, NEW own \in [Nodes -> 0 .. HashSize], NEW rank \in [Nodes -> Nat],
           Lists(own, rank), DestroyBucket
    PROVE  \E own2 \in [Nodes -> 0 .. HashSize], rank2 \in [Nodes -> Nat] :
              /\ Lists(own2, rank2)'
              /\ \A n \in Nodes : own2[n] # HashSize => heap'[n] = heap[n]
              /\ \A n \in Nodes : own2[n] = IF own[n] = destroyed THEN HashSize ELSE own[n]
<1>0. Typed /\ Listed(own, rank) /\ \A t \in Threads : pc[t] = "idle"
  BY DEF Core, Lists, DestroyBucket
<1>1. PICK d \in Buckets : d = destroyed
  BY <1>0, Constants DEF DestroyBucket, Typed, Buckets
<1>2. /\ ~destroy_failed /\ UNCHANGED <<buckets, bucket_sizes, call, pc, node, prev, newnode>>
      /\ \/ destroyed' = d + 1 /\ ~destroy_failed'
         \/ destroyed' = d /\ destroy_failed'
  BY <1>0, <1>1 DEF DestroyBucket, local, Typed
<1>3. /\ \A b \in Buckets : Kept(b) <=> b > d \/ b = d
      /\ \A b \in Buckets : Kept(b)' <=> b > d
      /\ \A b \in Buckets : b \in Nat
  BY <1>1, <1>2, Constants DEF Kept
<1>4. Chain(d) = {n \in Nodes : own[n] = d}
  BY <1>0, <1>3, ChainIsListed
<1>5. \A n \in Nodes : heap'[n] = IF own[n] = d THEN Unallocated ELSE heap[n]
  BY <1>1, <1>4 DEF DestroyBucket
<1>6. PICK own2 \in [Nodes -> 0 .. HashSize] :
         \A n \in Nodes : own2[n] = IF own[n] = d THEN HashSize ELSE own[n]
  <2>1. [n \in Nodes |-> IF own[n] = d THEN HashSize ELSE own[n]] \in [Nodes -> 0 .. HashSize]
    BY Constants
  <2> QED
    BY <2>1
<1>7. ASSUME NEW n \in Nodes, own2[n] # HashSize
      PROVE  own[n] = own2[n] /\ own[n] # d /\ own[n] \in Buckets /\ heap'[n] = heap[n] /\ own[n] > d
  <2>1. own[n] = own2[n] /\ own[n] # d /\ own[n] # HashSize
    BY <1>6, <1>7
  <2>2. own[n] \in Buckets /\ Kept(own[n])
    BY <1>0, <2>1, Constants DEF Listed, Buckets
  <2> QED
    BY <1>3, <1>5, <2>1, <2>2
<1>8. \A n \in Nodes : Live(n)' <=> Live(n) /\ own[n] # d
  BY <1>5 DEF Live
<1>9. Listed(own2, rank)'
  <2>1. ASSUME NEW b \in Buckets
        PROVE  IF b > d THEN buckets'[b] # NULL => own2[buckets'[b]] = b ELSE ~Live(buckets[b])'
    <3>1. CASE b > d
      <4>1. b # d /\ (buckets[b] # NULL => buckets[b] \in Nodes /\ own[buckets[b]] = b)
        BY <1>0, <1>1, <1>3, <3>1 DEF Listed, Typed
      <4> QED
        BY <1>2, <1>6, <3>1, <4>1
    <3>2. CASE ~(b > d)
      <4>1. buckets'[b] = buckets[b] /\ buckets[b] \in Nodes \cup {NULL}
        BY <1>0, <1>2 DEF Typed
      <4>2. buckets[b] \in Nodes => ~Live(buckets[b]) \/ own[buckets[b]] = d
        BY <1>0, <1>3, <3>2, Constants DEF Listed
      <4>3. ~Live(buckets[b])'
        BY <1>8, <4>1, <4>2, Constants DEF Live
      <4> QED
        BY <3>2, <4>3
    <3> QED
      BY <3>1, <3>2
  <2>2. ASSUME NEW n \in Nodes, own2[n] # HashSize
        PROVE  /\ Kept(own2[n])' /\ Live(n)' /\ BucketOf[heap'[n].key] = own2[n]
               /\ buckets'[own2[n]] # NULL /\ rank[n] <= rank[buckets'[own2[n]]]
               /\ heap'[n].next # NULL => own2[heap'[n].next] = own2[n] /\ rank[heap'[n].next] < rank[n]
    <3>1. /\ own[n] = own2[n] /\ own[n] # d /\ own[n] \in Buckets /\ heap'[n] = heap[n] /\ own[n] > d
          /\ own[n] # HashSize
      BY <1>7, <2>2
    <3>2. /\ Live(n) /\ BucketOf[heap[n].key] = own[n]
          /\ buckets[own[n]] # NULL /\ rank[n] <= rank[buckets[own[n]]]
          /\ heap[n].next # NULL => own[heap[n].next] = own[n] /\ rank[heap[n].next] < rank[n]
      BY <1>0, <3>1 DEF Listed
    <3>3. heap[n].next \in Nodes \cup {NULL}
      BY <1>0, <3>2, LiveNode, Fields
    <3>4. heap[n].next # NULL => own2[heap[n].next] = own[n]
      BY <1>6, <3>1, <3>2, <3>3
    <3> QED
      BY <1>2, <1>3, <1>8, <3>1, <3>2, <3>4
  <2>3. \A m, n \in Nodes : own2[m] = own2[n] /\ own2[n] # HashSize =>
          /\ rank[m] = rank[n] => m = n
          /\ heap'[m].key = heap'[n].key => m = n
          /\ rank[m] < rank[n] => heap'[n].next # NULL /\ rank[m] <= rank[heap'[n].next]
    <3> SUFFICES ASSUME NEW m \in Nodes, NEW n \in Nodes, own2[m] = own2[n], own2[n] # HashSize
                 PROVE  /\ rank[m] = rank[n] => m = n
                        /\ heap'[m].key = heap'[n].key => m = n
                        /\ rank[m] < rank[n] => heap'[n].next # NULL /\ rank[m] <= rank[heap'[n].next]
      OBVIOUS
    <3>1. own[m] = own[n] /\ own[n] # HashSize /\ heap'[m] = heap[m] /\ heap'[n] = heap[n]
      BY <1>7
    <3> QED
      BY <1>0, <3>1 DEF Listed
  <2> QED
    BY <1>3, <2>1, <2>2, <2>3 DEF Listed
<1>10. \A t \in Threads : Standing(t, own2, rank)'
  BY <1>0, <1>2 DEF Standing
<1>11. Hands(own2)'
  <2>1. \A t \in Threads, n \in Nodes : ~InHand(t, n) /\ ~InHand(t, n)'
    BY <1>0, <1>2 DEF InHand
  <2>2. \A n \in Nodes : ~(Live(n)' /\ own2[n] = HashSize)
    BY <1>6, <1>8, <2>1 DEF Lists, Hands
  <2> QED
    BY <2>1, <2>2 DEF Hands
<1>12. Counted(own2)'
  <2>1. \A b \in Buckets : Due("count", b)' = Due("count", b) /\ Due("free", b)' = Due("free", b)
    BY <1>0, <1>2 DEF Due
  <2>2. ASSUME NEW b \in Buckets, b > destroyed' \/ (destroyed' = 0 /\ ~destroy_failed')
        PROVE bucket_sizes'[b] + Cardinality(Due("count", b)') =
                 Cardinality({n \in Nodes : own2[n] = b}) + Cardinality(Due("free", b)')
    <3>1. b > d /\ b # d /\ b # HashSize
      BY <1>2, <1>3, <2>2, Constants
    <3>2. {n \in Nodes : own2[n] = b} = {n \in Nodes : own[n] = b}
      BY <1>6, <3>1
    <3> QED
      BY <1>1, <1>2, <2>1, <3>1, <3>2 DEF Lists, Counted
  <2> QED
    BY <1>2, <2>2 DEF Lists, Counted
<1> QED
  BY <1>1, <1>6, <1>7, <1>9, <1>10, <1>11, <1>12 DEF Lists

----------------------------------------------------------------------------
(* The invariant.                                                          *)

LEMMA InvariantKept == IInv /\ [Next]_vars => IInv'
<1> SUFFICES ASSUME IInv, [Next]_vars PROVE IInv'
  OBVIOUS
<1>1. PICK own \in [Nodes -> 0 .. HashSize], rank \in [Nodes -> Nat] : Lists(own, rank)
  BY DEF IInv
<1>2. Core /\ Typed /\ InCalls /\ Locked
  BY DEF IInv, Core
<1>3. Core'
  BY <1>1, <1>2, TypedKept, InCallsKept, LockedKept DEF Core
<1>4. \E own2 \in [Nodes -> 0 .. HashSize], rank2 \in [Nodes -> Nat] : Lists(own2, rank2)'
  <2>1. CASE UNCHANGED vars
    <3>1. UNCHANGED <<heap, buckets, bucket_sizes, call, pc, node, prev, newnode, destroyed, destroy_failed>>
      BY <2>1 DEF vars, table, local, end
    <3>2. Listed(own, rank)'
      BY <1>1, <3>1 DEF Lists, Listed, Kept, Live
    <3>3. \A t \in Threads : Standing(t, own, rank)'
      BY <1>1, <3>1 DEF Lists, Standing, idx, Live
    <3>4. Hands(own)'
      BY <1>1, <3>1 DEF Lists, Hands, InHand, Live
    <3>5. \A b : Due("count", b)' = Due("count", b) /\ Due("free", b)' = Due("free", b)
      BY <3>1 DEF Due, idx
    <3>6. Counted(own)'
      BY <1>1, <3>1, <3>5 DEF Lists, Counted
    <3> QED
      BY <3>2, <3>3, <3>4, <3>6 DEF Lists
  <2>2. ASSUME NEW t \in Threads, Invoke(t) \/ Step(t)
        PROVE  \E own2 \in [Nodes -> 0 .. HashSize], rank2 \in [Nodes -> Nat] : Lists(own2, rank2)'
    <3>1. CASE \/ Invoke(t) \/ LockRead(t) \/ LockWrite(t) \/ LockFails(t) \/ Advance(t)
               \/ Found(t) \/ NotFound(t) \/ Copy(t) \/ OutOfMemory(t) \/ Unlock(t) \/ Reply(t)
      BY <1>1, <1>2, <3>1, QuietKept
    <3>2. CASE ReplaceValue(t)
      BY <1>1, <1>2, <3>2, ReplaceValueKept
    <3>3. CASE Allocate(t)
      BY <1>1, <1>2, <3>3, AllocateKept
    <3>4. CASE Link(t)
      BY <1>1, <1>2, <3>4, LinkKept
    <3>5. CASE Count(t)
      BY <1>1, <1>2, <3>5, CountKept
    <3>6. CASE Unlink(t)
      BY <1>1, <1>2, <3>6, UnlinkKept
    <3>7. CASE FreeNode(t)
      BY <1>1, <1>2, <3>7, FreeNodeKept
    <3>8. CASE StrdupFails(t)
      BY <1>1, <1>2, <3>8, StrdupFailsKept
    <3> QED
      BY <2>2, <3>1, <3>2, <3>3, <3>4, <3>5, <3>6, <3>7, <3>8 DEF Step
  <2>3. CASE DestroyBucket
    BY <1>1, <1>2, <2>3, DestroyBucketKept
  <2> QED
    BY <2>1, <2>2, <2>3 DEF Next
<1> QED
  BY <1>3, <1>4 DEF IInv

\* The invariant holds in every state of the table (hash_insert, hash_read,
\* hash_update, hash_delete and hash_destroy).
THEOREM TableInvariant == Spec => []IInv
<1>1. Init => IInv
  BY Initially
<1>2. IInv /\ [Next]_vars => IInv'
  BY InvariantKept
<1> QED
  BY <1>1, <1>2, PTL DEF Spec

\* Every variable keeps its type; the size of a bucket, which hash_delete lowers after
\* the node is gone from the list, never falls below zero.
THEOREM TableTypes == Spec => []TypeOK
<1>1. IInv => TypeOK
  <2> SUFFICES ASSUME IInv PROVE TypeOK
    OBVIOUS
  <2>1. Typed /\ Locked /\ \A b \in Buckets : bucket_sizes[b] \in Nat
    BY DEF IInv, Core, Lists, Counted
  <2>2. bucket_sizes \in [Buckets -> Nat]
    BY <2>1 DEF Typed
  <2>3. readers \in [Buckets -> SUBSET Threads] /\ writers \in [Buckets -> SUBSET Threads]
    BY <2>1 DEF Locked
  <2> QED
    BY <2>1, <2>2, <2>3 DEF TypeOK, Typed
<1> QED
  BY <1>1, TableInvariant, PTL

\* No thread follows a pointer to a node that another one has unlinked or freed while
\* it walks the list of its bucket and acts on what it finds.
THEOREM NothingDangles == Spec => []NoDangling
<1>1. IInv => NoDangling
  <2> SUFFICES ASSUME IInv, NEW t \in Threads, node[t] # NULL
               PROVE  /\ pc[t] \in {"walk", "read", "update", "delete"} => node[t] \in Chain(idx(t))
                      /\ pc[t] = "free" => Live(node[t])
                      /\ pc[t] \in {"walk", "delete"} =>
                            IF prev[t] = NULL THEN buckets[idx(t)] = node[t]
                            ELSE prev[t] \in Chain(idx(t)) /\ heap[prev[t]].next = node[t]
    BY DEF NoDangling
  <2>1. PICK own \in [Nodes -> 0 .. HashSize], rank \in [Nodes -> Nat] : Lists(own, rank)
    BY DEF IInv
  <2>2. Typed /\ InCalls /\ Listed(own, rank) /\ Standing(t, own, rank)
    BY <2>1 DEF IInv, Core, Lists
  <2>3. pc[t] # "idle" => Chain(idx(t)) = {n \in Nodes : own[n] = idx(t)}
    BY <2>2, Bucket, AllKept, ChainIsListed
  <2>4. node[t] \in Nodes /\ prev[t] \in Nodes \cup {NULL}
    BY <2>2 DEF Typed
  <2> QED
    BY <2>2, <2>3, <2>4 DEF Standing
<1> QED
  BY <1>1, TableInvariant, PTL

\* At every point of every call a key is in one node at most and in its own bucket, the
\* sizes count the nodes, no list is circular and no node is lost.
THEOREM ListsAgree == Spec => []ListsConsistent
<1>1. IInv => ListsConsistent
  <2> SUFFICES ASSUME IInv PROVE ListsConsistent
    OBVIOUS
  <2>1. PICK own \in [Nodes -> 0 .. HashSize], rank \in [Nodes -> Nat] : Lists(own, rank)
    BY DEF IInv
  <2>2. Typed /\ Listed(own, rank) /\ Hands(own) /\ Counted(own)
    BY <2>1 DEF IInv, Core, Lists
  <2>3. ASSUME NEW b \in Buckets, Kept(b)
        PROVE  Chain(b) = {n \in Nodes : own[n] = b} /\ Hops(b)[Cardinality(Nodes)] = NULL
    BY <2>2, <2>3, ChainIsListed
  <2>4. ASSUME NEW b \in Buckets, ~Kept(b)
        PROVE  (\A n \in Chain(b) : ~Live(n)) /\ Hops(b)[Cardinality(Nodes)] = NULL
    <3>1. ~Live(buckets[b])
      BY <2>2, <2>4 DEF Listed
    <3> QED
      BY <2>2, <3>1, FreedChain
  <2>5. KeysUnique
    <3> SUFFICES ASSUME NEW b \in Buckets, NEW n \in Chain(b), Live(n)
                 PROVE  /\ BucketOf[heap[n].key] = b
                        /\ \A m \in Chain(b) : Live(m) /\ heap[n].key = heap[m].key => n = m
      BY DEF KeysUnique
    <3>1. Kept(b) /\ b # HashSize
      BY <2>4, Constants
    <3>2. \A m \in Chain(b) : m \in Nodes /\ own[m] = b
      BY <2>3, <3>1
    <3> QED
      BY <2>2, <3>1, <3>2 DEF Listed
  <2>6. SizesExact
    <3> SUFFICES ASSUME NEW b \in Buckets, b > destroyed \/ (destroyed = 0 /\ ~destroy_failed)
                 PROVE  bucket_sizes[b] + Cardinality(Due("count", b)) =
                            Cardinality(Chain(b)) + Cardinality(Due("free", b))
      BY DEF SizesExact, Due
    <3>1. Kept(b)
      BY Constants DEF Kept
    <3> QED
      BY <2>2, <2>3, <3>1 DEF Counted
  <2>7. ListsEnd
    BY <2>3, <2>4 DEF ListsEnd
  <2>8. NoNodeLost
    <3> SUFFICES ASSUME NEW n \in Nodes, Live(n), \A b \in Buckets : n \notin Chain(b)
                 PROVE  Cardinality({t \in Threads : \/ pc[t] = "link" /\ newnode[t] = n
                                                     \/ pc[t] = "free" /\ node[t] = n}) = 1
      BY DEF NoNodeLost
    <3>1. own[n] = HashSize
      <4>1. ASSUME own[n] # HashSize PROVE FALSE
        <5>1. own[n] \in Buckets /\ Kept(own[n])
          BY <2>2, <4>1, Constants DEF Listed, Buckets
        <5> QED
          BY <2>3, <5>1
      <4> QED
        BY <4>1
    <3>2. PICK t \in Threads : InHand(t, n) /\ \A u \in Threads : InHand(u, n) => u = t
      BY <2>2, <3>1 DEF Hands
    <3>3. {u \in Threads : \/ pc[u] = "link" /\ newnode[u] = n
                           \/ pc[u] = "free" /\ node[u] = n} = {t}
      BY <3>2 DEF InHand
    <3> QED
      BY <3>3, FS_Singleton
  <2> QED
    BY <2>5, <2>6, <2>7, <2>8 DEF ListsConsistent
<1> QED
  BY <1>1, TableInvariant, PTL

\* When hash_destroy returns 0 it has freed every node that any call has allocated.
THEOREM DestroyLeavesNothing == Spec => []DestroyFreesAll
<1>1. IInv => DestroyFreesAll
  <2> SUFFICES ASSUME IInv, destroyed = HashSize, NEW n \in Nodes, Live(n) PROVE FALSE
    BY DEF DestroyFreesAll
  <2>1. PICK own \in [Nodes -> 0 .. HashSize], rank \in [Nodes -> Nat] : Lists(own, rank)
    BY DEF IInv
  <2>2. Listed(own, rank) /\ Hands(own) /\ InCalls
    BY <2>1 DEF IInv, Core, Lists
  <2>3. destroyed > 0
    BY Constants
  <2>4. \A t \in Threads : ~InHand(t, n)
    BY <2>2, <2>3 DEF InCalls, InHand
  <2>5. own[n] # HashSize
    BY <2>2, <2>4 DEF Hands
  <2>6. own[n] \in Buckets /\ Kept(own[n])
    BY <2>2, <2>5, Constants DEF Listed, Buckets
  <2> QED
    BY <2>6, Constants DEF Kept
<1> QED
  BY <1>1, TableInvariant, PTL

\* From the moment hash_read has found the node until it has copied the value, no other
\* thread updates the node, relinks it or frees it.
THEOREM CopiesAreStable == Spec => CopyIsStable
<1>1. IInv /\ [Next]_vars => \A t \in Threads : pc[t] = "read" => heap'[node[t]] = heap[node[t]]
  <2> SUFFICES ASSUME IInv, [Next]_vars, NEW t \in Threads, pc[t] = "read"
               PROVE  heap'[node[t]] = heap[node[t]]
    OBVIOUS
  <2>1. PICK own \in [Nodes -> 0 .. HashSize], rank \in [Nodes -> Nat] : Lists(own, rank)
    BY DEF IInv
  <2>2. Typed /\ InCalls /\ Locked /\ Listed(own, rank) /\ \A u \in Threads : Standing(u, own, rank)
    BY <2>1 DEF IInv, Core, Lists
  <2>3. PICK n \in Nodes : n = node[t] /\ own[n] = idx(t) /\ Live(n) /\ own[n] # HashSize
    <3>1. node[t] \in Nodes /\ own[node[t]] = idx(t) /\ idx(t) # HashSize
      BY <2>2, Bucket, Constants DEF Standing, Typed
    <3> QED
      BY <2>2, <3>1 DEF Listed
  <2>4. ASSUME NEW u \in Threads, Op(u) # "read", pc[u] \in Held, NEW m \in Nodes, own[m] = idx(u)
        PROVE  m # n
    <3>1. u # t
      BY <2>2, <2>4 DEF InCalls
    <3>2. idx(t) # idx(u)
      BY <2>2, <2>4, <3>1, Alone DEF Held
    <3> QED
      BY <2>3, <2>4, <3>2
  <2>5. ASSUME NEW u \in Threads, ReplaceValue(u) PROVE heap'[n] = heap[n]
    <3>1. pc[u] = "update" /\ Op(u) = "update" /\ node[u] \in Nodes /\ own[node[u]] = idx(u)
      BY <2>2, <2>5 DEF ReplaceValue, At, Live, InCalls, Standing
    <3>2. node[u] # n
      BY <2>4, <3>1 DEF Held
    <3> QED
      BY <2>2, <2>5, <3>2 DEF ReplaceValue, Typed
  <2>6. ASSUME NEW u \in Threads, Allocate(u) PROVE heap'[n] = heap[n]
    BY <2>2, <2>3, <2>6 DEF Allocate, Live, Typed
  <2>7. ASSUME NEW u \in Threads, Link(u) PROVE heap'[n] = heap[n]
    <3>1. newnode[u] # n
      BY <2>2, <2>3, <2>7 DEF Link, Standing
    <3> QED
      BY <2>2, <2>7, <3>1 DEF Link, Typed
  <2>8. ASSUME NEW u \in Threads, Unlink(u) PROVE heap'[n] = heap[n]
    <3>1. pc[u] = "delete" /\ Op(u) = "delete" /\ prev[u] \in Nodes \cup {NULL}
          /\ (prev[u] # NULL => own[prev[u]] = idx(u))
      BY <2>2, <2>8 DEF Unlink, At, InCalls, Standing, Typed
    <3>2. prev[u] # n
      BY <2>4, <3>1, Constants DEF Held
    <3> QED
      BY <2>2, <2>8, <3>2 DEF Unlink, Typed
  <2>9. ASSUME NEW u \in Threads, FreeNode(u) PROVE heap'[n] = heap[n]
    <3>1. node[u] # n
      BY <2>2, <2>3, <2>9 DEF FreeNode, At, Standing
    <3> QED
      BY <2>2, <2>9, <3>1 DEF FreeNode, Typed
  <2>10. ASSUME NEW u \in Threads, StrdupFails(u) PROVE heap'[n] = heap[n]
    <3>1. newnode[u] # n
      BY <2>2, <2>3, <2>10 DEF StrdupFails, Standing
    <3> QED
      BY <2>2, <2>10, <3>1 DEF StrdupFails, Typed
  <2>11. CASE UNCHANGED heap \/ DestroyBucket
    BY <2>11 DEF DestroyBucket
  <2>12. \/ UNCHANGED heap \/ DestroyBucket
         \/ \E u \in Threads : \/ ReplaceValue(u) \/ Allocate(u) \/ StrdupFails(u) \/ Link(u)
                              \/ Unlink(u) \/ FreeNode(u)
    BY DEF Next, Step, Invoke, LockRead, LockWrite, StartWalk, LockFails, Advance, Found, NotFound,
           Copy, OutOfMemory, Count, Unlock, Reply, table, vars
  <2> QED
    BY <2>3, <2>5, <2>6, <2>7, <2>8, <2>9, <2>10, <2>11, <2>12
<1> QED
  BY <1>1, TableInvariant, PTL DEF Spec, CopyIsStable

----------------------------------------------------------------------------
(* HashTable implements KVStore: every step of the table, which is one     *)
(* access to the list or to a node, maps to the step at which a call takes *)
(* effect or to none.                                                      *)

\* What the store holds, told from the nodes that are listed.
Holds(own) ==
    /\ Contents \in [Keys -> Values \cup {NoValue}]
    /\ \A n \in Nodes : own[n] # HashSize => Contents[heap[n].key] = heap[n].value
    /\ \A k \in Keys : (\A n \in Nodes : own[n] # HashSize => heap[n].key # k) => Contents[k] = NoValue

LEMMA ContentsAre ==
    ASSUME NEW own, NEW rank
    PROVE  Typed /\ Listed(own, rank) => Holds(own)
<1> SUFFICES ASSUME Typed, Listed(own, rank) PROVE Holds(own)
  OBVIOUS
<1> DEFINE listed == UNION {Chain(b) : b \in Buckets}
           with(k) == {n \in listed : Live(n) /\ heap[n].key = k}
<1>1. ASSUME NEW n PROVE n \in listed /\ Live(n) <=> n \in Nodes /\ own[n] # HashSize
  <2>1. ASSUME n \in Nodes, own[n] # HashSize PROVE n \in listed /\ Live(n)
    <3>1. own[n] \in Buckets /\ Kept(own[n]) /\ Live(n)
      BY <2>1, Constants DEF Listed, Buckets
    <3>2. n \in Chain(own[n])
      BY <2>1, <3>1, ChainIsListed
    <3> QED
      BY <3>1, <3>2
  <2>2. ASSUME n \in listed, Live(n) PROVE n \in Nodes /\ own[n] # HashSize
    <3>1. PICK b \in Buckets : n \in Chain(b)
      BY <2>2
    <3>2. CASE Kept(b)
      BY <3>1, <3>2, ChainIsListed, Constants
    <3>3. CASE ~Kept(b)
      BY <2>2, <3>1, <3>3, FreedChain DEF Listed
    <3> QED
      BY <3>2, <3>3
  <2> QED
    BY <2>1, <2>2
<1> HIDE DEF listed
<1>2. ASSUME NEW n \in Nodes, own[n] # HashSize
      PROVE  /\ heap[n].key \in Keys /\ heap[n].value \in Values
             /\ with(heap[n].key) = {n}
  <2>1. Live(n) /\ heap[n] \in Node /\ BucketOf[heap[n].key] = own[n]
    BY <1>2, LiveNode DEF Listed
  <2>2. ASSUME NEW m \in Nodes, own[m] # HashSize, heap[m].key = heap[n].key PROVE m = n
    <3>1. BucketOf[heap[m].key] = own[m]
      BY <2>2 DEF Listed
    <3>2. own[m] = own[n] /\ m \in Nodes /\ n \in Nodes
      BY <1>2, <2>1, <2>2, <3>1
    <3>3. heap[m].key = heap[n].key => m = n
      BY <1>2, <3>2 DEF Listed
    <3> QED
      BY <2>2, <3>3
  <2> QED
    BY <1>1, <1>2, <2>1, <2>2, Fields
<1>3. ASSUME NEW k \in Keys, \A n \in Nodes : own[n] # HashSize => heap[n].key # k
      PROVE  with(k) = {}
  BY <1>1, <1>3
<1>4. Contents = [k \in Keys |-> ValueIn(with(k))]
  BY DEF Contents, listed
<1>5. ASSUME NEW n \in Nodes, own[n] # HashSize PROVE ValueIn(with(heap[n].key)) = heap[n].value
  BY <1>2, <1>5 DEF ValueIn
<1>6. ASSUME NEW k \in Keys, \A n \in Nodes : own[n] # HashSize => heap[n].key # k
      PROVE  ValueIn(with(k)) = NoValue
  BY <1>3, <1>6 DEF ValueIn
<1>7. ASSUME NEW k \in Keys PROVE ValueIn(with(k)) \in Values \cup {NoValue}
  <2>1. CASE \A n \in Nodes : own[n] # HashSize => heap[n].key # k
    BY <1>6, <2>1
  <2>2. CASE \E n \in Nodes : own[n] # HashSize /\ heap[n].key = k
    BY <1>2, <1>5, <2>2
  <2> QED
    BY <2>1, <2>2
<1> HIDE DEF with
<1> QED
  BY <1>2, <1>4, <1>5, <1>6, <1>7 DEF Holds

LEMMA ContentsWillBe ==
    ASSUME NEW own, NEW rank
    PROVE  Typed' /\ Listed(own, rank)' => Holds(own)'
<1>1. Typed /\ Listed(own, rank) => Holds(own)
  BY ContentsAre
<1> QED
  BY <1>1, PTL

\* A step that leaves the listed nodes as they are leaves the contents.
LEMMA SameContents ==
    ASSUME Typed, Typed', NEW own, NEW rank, Listed(own, rank), Listed(own, rank)',
           \A n \in Nodes : own[n] # HashSize => heap'[n] = heap[n]
    PROVE  Contents' = Contents
<1>1. Holds(own) /\ Holds(own)'
  BY ContentsAre, ContentsWillBe
<1>2. PICK f, g : f = Contents /\ g = Contents'
  OBVIOUS
<1>3. ASSUME NEW k \in Keys PROVE f[k] = g[k]
  <2>1. CASE \A n \in Nodes : own[n] # HashSize => heap[n].key # k
    BY <1>1, <1>2, <2>1 DEF Holds
  <2>2. CASE \E n \in Nodes : own[n] # HashSize /\ heap[n].key = k
    BY <1>1, <1>2, <2>2 DEF Holds
  <2> QED
    BY <2>1, <2>2
<1>4. f \in [Keys -> Values \cup {NoValue}] /\ g \in [Keys -> Values \cup {NoValue}]
  BY <1>1, <1>2 DEF Holds
<1> QED
  BY <1>2, <1>3, <1>4

\* A step that puts, replaces or takes out one key changes the contents there.
OnlyKey(k, v, own, own2) ==
    /\ \A n \in Nodes : own[n] # HashSize /\ heap[n].key # k =>
          own2[n] # HashSize /\ heap'[n].key = heap[n].key /\ heap'[n].value = heap[n].value
    /\ \A n \in Nodes : own2[n] # HashSize /\ heap'[n].key # k =>
          own[n] # HashSize /\ heap'[n].key = heap[n].key
    /\ \/ v = NoValue /\ \A n \in Nodes : own2[n] # HashSize => heap'[n].key # k
       \/ \E n \in Nodes : own2[n] # HashSize /\ heap'[n].key = k /\ heap'[n].value = v

LEMMA ContentsSet ==
    ASSUME Typed, Typed', NEW own, NEW rank, NEW own2, NEW rank2,
           Listed(own, rank), Listed(own2, rank2)',
           NEW k \in Keys, NEW v \in Values \cup {NoValue}, OnlyKey(k, v, own, own2)
    PROVE  Contents' = [Contents EXCEPT ![k] = v]
<1>1. Holds(own) /\ Holds(own2)'
  BY ContentsAre, ContentsWillBe
<1>2. PICK f, g : f = Contents /\ g = Contents'
  OBVIOUS
<1>3. f \in [Keys -> Values \cup {NoValue}] /\ g \in [Keys -> Values \cup {NoValue}]
  BY <1>1, <1>2 DEF Holds
<1>4. g[k] = v
  BY <1>1, <1>2 DEF Holds, OnlyKey
<1>5. ASSUME NEW j \in Keys, j # k PROVE g[j] = f[j]
  <2>1. CASE \A n \in Nodes : own[n] # HashSize => heap[n].key # j
    <3>1. \A n \in Nodes : own2[n] # HashSize => heap'[n].key # j
      BY <1>5, <2>1 DEF OnlyKey
    <3> QED
      BY <1>1, <1>2, <2>1, <3>1 DEF Holds
  <2>2. CASE \E n \in Nodes : own[n] # HashSize /\ heap[n].key = j
    BY <1>1, <1>2, <1>5, <2>2 DEF Holds, OnlyKey
  <2> QED
    BY <2>1, <2>2
<1> QED
  BY <1>2, <1>3, <1>4, <1>5

\* The key of a thread's call is in the store when it stands on the node, and is not when
\* it has walked the list to its end.
LEMMA KeyFound ==
    ASSUME Typed, InCalls, NEW own, NEW rank, Listed(own, rank), NEW t \in Threads,
           pc[t] # "idle", node[t] \in Nodes, own[node[t]] = idx(t),
           heap[node[t]].key = call[t].key
    PROVE  /\ call[t].key \in Keys /\ own[node[t]] # HashSize
           /\ Contents[call[t].key] = heap[node[t]].value
           /\ heap[node[t]].value \in Values /\ Contents[call[t].key] # NoValue
<1>1. Holds(own) /\ idx(t) # HashSize /\ call[t].key \in Keys
  BY ContentsAre, Bucket, Constants
<1>2. Live(node[t]) /\ heap[node[t]].value \in Values
  BY <1>1, LiveNode, Fields DEF Listed
<1> QED
  BY <1>1, <1>2, TableAssumption DEF Holds

LEMMA KeyAbsent ==
    ASSUME Typed, InCalls, NEW own, NEW rank, Listed(own, rank), NEW t \in Threads,
           pc[t] # "idle", \A m \in Nodes : own[m] = idx(t) => heap[m].key # call[t].key
    PROVE  /\ call[t].key \in Keys /\ Contents[call[t].key] = NoValue
           /\ \A m \in Nodes : own[m] # HashSize => heap[m].key # call[t].key
<1>1. Holds(own) /\ call[t].key \in Keys
  BY ContentsAre, Bucket
<1>2. \A m \in Nodes : own[m] # HashSize => heap[m].key # call[t].key
  BY DEF Listed, idx
<1> QED
  BY <1>1, <1>2 DEF Holds

----------------------------------------------------------------------------
(* Calls and their answers.                                                *)

\* The places at which a thread's call has been decided.
Decided == {"count", "free", "unlock", "return"}

Answered ==
    /\ answer \in [Threads -> Store!Answers \cup {NoCall}]
    /\ \A t \in Threads : /\ call[t] = NoCall <=> pc[t] = "idle"
                          /\ answer[t] = NoCall <=> pc[t] \notin Decided

RInv == IInv /\ Answered

LEMMA NoCallIsNone ==
    /\ \A c \in Calls : c # NoCall
    /\ \A a \in Store!Answers : a # NoCall
    /\ Store!Done = Answer(1, NoValue) /\ Store!Refused = Answer(0, NoValue)
    /\ Store!Failed = Answer(-1, NoValue)
    /\ \A ret \in {-1, 0, 1} : Answer(ret, NoValue) \in Store!Answers
    /\ \A v \in Values : Answer(1, v) \in Store!Answers
<1>1. -1 \in -1 .. 1 /\ 0 \in -1 .. 1 /\ 1 \in -1 .. 1
  OBVIOUS
<1> QED
  BY <1>1, NoCallAssumption DEF Store!Answers, Store!Done, Store!Refused, Store!Failed,
     Store!Answer, Answer

LEMMA AnsweredKept == IInv /\ Answered /\ [Next]_vars => Answered'
<1> SUFFICES ASSUME IInv, Answered, [Next]_vars PROVE Answered'
  OBVIOUS
<1>a. Typed /\ InCalls /\ pc \in [Threads -> Labels]
  BY DEF IInv, Core, Typed
<1>b. /\ answer \in [Threads -> Store!Answers \cup {NoCall}]
      /\ call \in [Threads -> Calls \cup {NoCall}]
      /\ \A u \in Threads : /\ call[u] = NoCall <=> pc[u] = "idle"
                            /\ answer[u] = NoCall <=> pc[u] \notin Decided
  BY <1>a DEF Answered, Typed
\* A step that decides nothing.
<1>1. ASSUME NEW t \in Threads, NEW label, pc' = [pc EXCEPT ![t] = label], UNCHANGED <<call, answer>>,
             pc[t] # "idle", label # "idle", label \in Decided <=> pc[t] \in Decided
      PROVE  Answered'
  BY <1>a, <1>b, <1>1 DEF Answered
\* A step that decides a.
<1>2. ASSUME NEW t \in Threads, NEW label \in Decided, pc' = [pc EXCEPT ![t] = label],
             NEW a \in Store!Answers, answer' = [answer EXCEPT ![t] = a], UNCHANGED call,
             pc[t] # "idle"
      PROVE  Answered'
  BY <1>a, <1>b, <1>2, NoCallIsNone DEF Answered, Decided
<1> USE DEF Goto, Decide, Decided
<1>3. ASSUME NEW t \in Threads, Invoke(t) PROVE Answered'
  <2>1. PICK c \in Calls : call' = [call EXCEPT ![t] = c]
    BY <1>3 DEF Invoke
  <2> QED
    BY <1>a, <1>b, <1>3, <2>1, NoCallIsNone DEF Answered, Invoke
<1>4. ASSUME NEW t \in Threads, Reply(t) PROVE Answered'
  BY <1>a, <1>b, <1>4 DEF Answered, Reply
<1>5. ASSUME NEW t \in Threads, LockRead(t) \/ LockWrite(t) \/ Advance(t) \/ Allocate(t) \/ Count(t)
             \/ FreeNode(t) \/ Unlock(t)
      PROVE  Answered'
  <2>1. CASE LockRead(t) \/ LockWrite(t)
    BY <1>1, <2>1 DEF LockRead, LockWrite, StartWalk
  <2>2. CASE Advance(t)
    <3>1. pc[t] = "walk" /\ pc' = [pc EXCEPT ![t] = "walk"] /\ UNCHANGED <<call, answer>>
      BY <1>a, <2>2 DEF Advance, At
    <3> QED
      BY <1>1, <3>1
  <2>3. CASE Allocate(t) \/ Count(t) \/ FreeNode(t) \/ Unlock(t)
    BY <1>1, <2>3 DEF Allocate, Count, FreeNode, Unlock, At
  <2> QED
    BY <1>5, <2>1, <2>2, <2>3
<1>6. ASSUME NEW t \in Threads, \/ LockFails(t) \/ ReplaceValue(t) \/ OutOfMemory(t)
                                \/ StrdupFails(t) \/ Link(t) \/ Unlink(t)
      PROVE  Answered'
  <2>1. \E ret \in {-1, 0, 1} : answer' = [answer EXCEPT ![t] = Answer(ret, NoValue)]
    BY <1>6 DEF LockFails, ReplaceValue, OutOfMemory, StrdupFails, Link, Unlink
  <2>2. PICK a \in Store!Answers : answer' = [answer EXCEPT ![t] = a]
    BY <2>1, NoCallIsNone
  <2>3. \E label \in Decided : pc' = [pc EXCEPT ![t] = label] /\ UNCHANGED call /\ pc[t] # "idle"
    BY <1>6 DEF LockFails, ReplaceValue, OutOfMemory, StrdupFails, Link, Unlink, At
  <2> HIDE DEF Decided
  <2> QED
    BY <1>2, <2>2, <2>3
<1>7. ASSUME NEW t \in Threads, Found(t) \/ NotFound(t) PROVE Answered'
  <2>1. pc[t] = "walk" /\ UNCHANGED call /\ Op(t) \in {"insert", "update", "read", "delete"}
    BY <1>a, <1>7, Bucket DEF Found, NotFound, At
  <2>2. CASE answer' = [answer EXCEPT ![t] = Answer(0, NoValue)] /\ pc' = [pc EXCEPT ![t] = "unlock"]
    BY <1>2, <2>1, <2>2, NoCallIsNone
  <2>3. CASE UNCHANGED answer /\ \E label \in {"insert", "update", "read", "delete"} :
                                     pc' = [pc EXCEPT ![t] = label]
    BY <1>1, <2>1, <2>3
  <2> QED
    BY <1>7, <2>1, <2>2, <2>3 DEF Found, NotFound
<1>8. ASSUME NEW t \in Threads, Copy(t) PROVE Answered'
  <2>1. pc[t] = "read" /\ heap[node[t]].value \in Values
    BY <1>a, <1>8, LiveNode, Fields DEF Copy, At
  <2>2. PICK a \in Store!Answers : a = Answer(1, heap[node[t]].value)
    BY <2>1, NoCallIsNone
  <2> QED
    BY <1>2, <1>8, <2>1, <2>2 DEF Copy
<1>9. CASE DestroyBucket
  BY <1>b, <1>9 DEF DestroyBucket, Answered
<1>10. CASE UNCHANGED vars
  BY <1>b, <1>10 DEF vars, Answered
<1> QED
  BY <1>3, <1>4, <1>5, <1>6, <1>7, <1>8, <1>9, <1>10 DEF Next, Step

----------------------------------------------------------------------------
(* Each step of the table is a step of the store or leaves it alone.       *)

LEMMA InitMaps == Init => Store!Init
<1> SUFFICES ASSUME Init PROVE Store!Init
  OBVIOUS
<1>1. Typed
  BY Initially DEF IInv, Core
<1>2. PICK own \in [Nodes -> 0 .. HashSize], rank \in [Nodes -> Nat] : Lists(own, rank)
  BY Initially DEF IInv
<1>3. Holds(own)
  BY <1>1, <1>2, ContentsAre DEF Lists
<1>4. \A n \in Nodes : own[n] = HashSize
  BY <1>2 DEF Init, Lists, Listed, Live
<1>5. Contents = [k \in Keys |-> NoValue]
  <2>1. PICK f : f = Contents
    OBVIOUS
  <2>2. f \in [Keys -> Values \cup {NoValue}] /\ \A k \in Keys : f[k] = NoValue
    BY <1>3, <1>4, <2>1 DEF Holds
  <2> QED
    BY <2>1, <2>2
<1> QED
  BY <1>5 DEF Init, Store!Init

\* The steps that change no list: what they decide, they decide on what they have found.
LEMMA QuietMaps ==
    ASSUME Core, Answered, Typed', NEW own \in [Nodes -> 0 .. HashSize],
           NEW rank \in [Nodes -> Nat], Lists(own, rank), NEW t \in Threads,
           \/ Invoke(t) \/ LockRead(t) \/ LockWrite(t) \/ LockFails(t) \/ Advance(t)
           \/ Found(t) \/ NotFound(t) \/ Copy(t) \/ OutOfMemory(t) \/ Unlock(t) \/ Reply(t)
    PROVE  Store!Next \/ UNCHANGED Store!vars
<1>0. Typed /\ InCalls /\ Listed(own, rank) /\ Standing(t, own, rank)
  BY DEF Core, Lists
<1>1. Contents' = Contents
  <2>1. UNCHANGED heap
    BY DEF Invoke, LockRead, LockWrite, StartWalk, LockFails, Advance, Found, NotFound, Copy,
           OutOfMemory, Unlock, Reply, table
  <2>2. Listed(own, rank)'
    BY QuietKept DEF Lists
  <2> QED
    BY <1>0, <2>1, <2>2, SameContents
<1>2. /\ answer[t] = NoCall <=> pc[t] \notin Decided
      /\ call[t] = NoCall <=> pc[t] = "idle"
  BY DEF Answered
<1> USE DEF Decided
<1> SUFFICES \/ UNCHANGED <<call, answer>>
             \/ Store!Invoke(t) \/ Store!Insert(t) \/ Store!Update(t) \/ Store!Delete(t)
             \/ Store!Read(t) \/ Store!Fail(t) \/ Store!Reply(t)
  BY <1>1 DEF Store!Next, Store!vars
<1>3. CASE Invoke(t)
  BY <1>1, <1>2, <1>3 DEF Invoke, Store!Invoke, Calls, Store!Calls
<1>4. CASE LockRead(t) \/ LockWrite(t) \/ Advance(t) \/ Unlock(t)
  BY <1>4 DEF LockRead, LockWrite, StartWalk, Advance, Unlock
<1>5. CASE LockFails(t) \/ OutOfMemory(t)
  <2>1. /\ pc[t] \in {"lock", "insert", "update"} /\ UNCHANGED call
        /\ answer' = [answer EXCEPT ![t] = Answer(-1, NoValue)]
    BY <1>5 DEF LockFails, OutOfMemory, Decide, At
  <2> QED
    BY <1>1, <1>2, <2>1, NoCallIsNone DEF Store!Fail, Store!Decide
<1>6. CASE Reply(t)
  BY <1>1, <1>2, <1>6 DEF Reply, Store!Reply
<1>7. CASE Found(t)
  <2>1. CASE UNCHANGED answer
    BY <1>7, <2>1 DEF Found
  <2>2. CASE answer' # answer
    <3>1. /\ pc[t] = "walk" /\ Op(t) = "insert" /\ UNCHANGED call
          /\ answer' = [answer EXCEPT ![t] = Answer(0, NoValue)]
          /\ node[t] \in Nodes /\ heap[node[t]].key = call[t].key
      BY <1>7, <2>2 DEF Found, Decide, At, Live, Matches
    <3>2. node[t] # NULL /\ own[node[t]] = idx(t)
      BY <1>0, <3>1, Constants DEF Standing
    <3>3. Contents[call[t].key] # NoValue
      BY <1>0, <3>1, <3>2, KeyFound
    <3> QED
      BY <1>1, <1>2, <3>1, <3>3, NoCallIsNone
         DEF Store!Insert, Store!Pending, Store!Present, Store!Decide, Op
  <2> QED
    BY <2>1, <2>2
<1>8. CASE NotFound(t)
  <2>1. CASE UNCHANGED answer
    BY <1>8, <2>1 DEF NotFound
  <2>2. CASE answer' # answer
    <3>1. /\ pc[t] = "walk" /\ Op(t) # "insert" /\ UNCHANGED call /\ node[t] = NULL
          /\ answer' = [answer EXCEPT ![t] = Answer(0, NoValue)]
      BY <1>8, <2>2 DEF NotFound, Decide
    <3>2. \A m \in Nodes : own[m] = idx(t) => heap[m].key # call[t].key
      BY <1>0, <3>1 DEF Standing
    <3>3. Contents[call[t].key] = NoValue
      BY <1>0, <3>1, <3>2, KeyAbsent
    <3>4. Op(t) \in {"update", "read", "delete"}
      BY <1>0, <3>1, Bucket
    <3> QED
      BY <1>1, <1>2, <3>1, <3>3, <3>4, NoCallIsNone
         DEF Store!Update, Store!Delete, Store!Read, Store!Pending, Store!Present, Store!Decide, Op
  <2> QED
    BY <2>1, <2>2
<1>9. CASE Copy(t)
  <2>1. /\ pc[t] = "read" /\ Op(t) = "read" /\ UNCHANGED call /\ node[t] \in Nodes
        /\ answer' = [answer EXCEPT ![t] = Answer(1, heap[node[t]].value)]
        /\ heap[node[t]].key = call[t].key /\ own[node[t]] = idx(t)
    BY <1>0, <1>9 DEF Copy, Decide, At, Live, InCalls, Standing
  <2>2. Contents[call[t].key] # NoValue /\ Contents[call[t].key] = heap[node[t]].value
    BY <1>0, <2>1, KeyFound
  <2> QED
    BY <1>1, <1>2, <2>1, <2>2
       DEF Store!Read, Store!Pending, Store!Present, Store!Decide, Store!Answer, Answer, Op
<1> QED
  BY <1>3, <1>4, <1>5, <1>6, <1>7, <1>8, <1>9

\* hash_update takes effect when it swaps the value.
LEMMA ReplaceValueMaps ==
    ASSUME Core, Answered, Typed', NEW own \in [Nodes -> 0 .. HashSize],
           NEW rank \in [Nodes -> Nat], Lists(own, rank), NEW t \in Threads, ReplaceValue(t)
    PROVE  Store!Update(t)
<1>1. Typed /\ InCalls /\ Listed(own, rank) /\ Standing(t, own, rank) /\ Listed(own, rank)'
  BY ReplaceValueKept DEF Core, Lists
<1>2. /\ pc[t] = "update" /\ Op(t) = "update" /\ UNCHANGED call
      /\ answer' = [answer EXCEPT ![t] = Answer(1, NoValue)]
  BY <1>1 DEF ReplaceValue, Decide, At, InCalls
<1>3. PICK n \in Nodes : n = node[t] /\ own[n] = idx(t) /\ heap[n].key = call[t].key /\ heap[n] \in Node
  BY <1>1, <1>2, LiveNode DEF ReplaceValue, At, Live, Standing
<1>4. /\ call[t].key \in Keys /\ own[n] # HashSize /\ Contents[call[t].key] # NoValue
      /\ call[t].value \in Values
  BY <1>1, <1>2, <1>3, KeyFound, Bucket, CallTypes DEF Op
<1>5. /\ heap'[n].key = call[t].key /\ heap'[n].value = call[t].value
      /\ \A m \in Nodes : m # n => heap'[m] = heap[m]
  <2>1. PICK r \in Node : r = [heap[n] EXCEPT !.value = call[t].value]
    BY <1>3, <1>4, Fields
  <2>2. r.key = heap[n].key /\ r.value = call[t].value
    BY <1>3, <2>1 DEF Node
  <2>3. heap' = [heap EXCEPT ![n] = r]
    BY <1>3, <2>1 DEF ReplaceValue
  <2> QED
    BY <1>1, <1>3, <2>2, <2>3 DEF Typed
<1>6. Contents' = [Contents EXCEPT ![call[t].key] = call[t].value]
  <2>1. \A m \in Nodes : own[m] # HashSize /\ heap[m].key = call[t].key => m = n
    BY <1>1, <1>3, <1>4 DEF Listed, idx
  <2>2. OnlyKey(call[t].key, call[t].value, own, own)
    BY <1>3, <1>4, <1>5, <2>1 DEF OnlyKey
  <2> QED
    BY <1>1, <1>4, <2>2, ContentsSet
<1>7. call[t] # NoCall /\ answer[t] = NoCall
  BY <1>2 DEF Answered, Decided
<1> QED
  BY <1>2, <1>4, <1>6, <1>7, NoCallIsNone DEF Store!Update, Store!Pending, Store!Present, Store!Decide, Op

\* hash_insert takes effect when the head of the list points to the new node.
LEMMA LinkMaps ==
    ASSUME Core, Answered, Typed', NEW own \in [Nodes -> 0 .. HashSize],
           NEW rank \in [Nodes -> Nat], Lists(own, rank), NEW t \in Threads, Link(t)
    PROVE  Store!Insert(t)
<1>1. Typed /\ InCalls /\ Listed(own, rank) /\ Standing(t, own, rank)
  BY DEF Core, Lists
<1>2. /\ pc[t] = "link" /\ Op(t) = "insert" /\ UNCHANGED call
      /\ answer' = [answer EXCEPT ![t] = Answer(1, NoValue)]
  BY <1>1 DEF Link, Decide, InCalls
<1>3. PICK own2 \in [Nodes -> 0 .. HashSize], rank2 \in [Nodes -> Nat] :
         /\ Lists(own2, rank2)' /\ own2[newnode[t]] = idx(t)
         /\ \A n \in Nodes : n # newnode[t] => own2[n] = own[n]
  BY LinkKept
<1>4. PICK q \in Nodes : /\ q = newnode[t] /\ heap[q] \in Node /\ own[q] = HashSize
                         /\ heap[q].key = call[t].key /\ heap[q].value = call[t].value
  BY <1>1, <1>2, LiveNode DEF Standing, Live
<1>5. /\ call[t].key \in Keys /\ Contents[call[t].key] = NoValue
      /\ \A m \in Nodes : own[m] # HashSize => heap[m].key # call[t].key
      /\ own2[q] # HashSize
  <2>1. \A m \in Nodes : own[m] = idx(t) => heap[m].key # call[t].key
    BY <1>1, <1>2 DEF Standing
  <2>2. idx(t) # HashSize
    BY <1>1, <1>2, Bucket, Constants
  <2> QED
    BY <1>1, <1>2, <1>3, <1>4, <2>1, <2>2, KeyAbsent
<1>6. /\ heap'[q].key = call[t].key /\ heap'[q].value = heap[q].value
      /\ \A m \in Nodes : m # q => heap'[m] = heap[m]
  <2>0. idx(t) \in Buckets /\ buckets[idx(t)] \in Nodes \cup {NULL}
    BY <1>1, <1>2, Bucket DEF Typed
  <2>1. PICK r \in Node : r = [heap[q] EXCEPT !.next = buckets[idx(t)]]
    BY <1>4, <2>0, Fields
  <2>2. r.key = heap[q].key /\ r.value = heap[q].value
    BY <1>4, <2>0, <2>1, Fields
  <2>3. heap' = [heap EXCEPT ![q] = r]
    BY <1>4, <2>1 DEF Link
  <2> QED
    BY <1>1, <1>4, <2>2, <2>3 DEF Typed
<1>7. Contents' = [Contents EXCEPT ![call[t].key] = heap[q].value]
  <2>1. heap[q].value \in Values
    BY <1>4, Fields
  <2>2. Listed(own2, rank2)'
    BY <1>3 DEF Lists
  <2>3. OnlyKey(call[t].key, heap[q].value, own, own2)
    BY <1>3, <1>4, <1>5, <1>6 DEF OnlyKey
  <2> QED
    BY <1>1, <1>5, <2>1, <2>2, <2>3, ContentsSet
<1>8. call[t] # NoCall /\ answer[t] = NoCall
  BY <1>2 DEF Answered, Decided
<1> QED
  BY <1>2, <1>4, <1>5, <1>7, <1>8, NoCallIsNone DEF Store!Insert, Store!Pending, Store!Present, Store!Decide, Op

\* hash_delete takes effect when the node is unlinked, before it is freed.
LEMMA UnlinkMaps ==
    ASSUME Core, Answered, Typed', NEW own \in [Nodes -> 0 .. HashSize],
           NEW rank \in [Nodes -> Nat], Lists(own, rank), NEW t \in Threads, Unlink(t)
    PROVE  Store!Delete(t)
<1>1. Typed /\ InCalls /\ Listed(own, rank) /\ Standing(t, own, rank)
  BY DEF Core, Lists
<1>2. /\ pc[t] = "delete" /\ Op(t) = "delete" /\ UNCHANGED call
      /\ answer' = [answer EXCEPT ![t] = Answer(1, NoValue)]
  BY <1>1 DEF Unlink, Decide, At, InCalls
<1>3. PICK own2 \in [Nodes -> 0 .. HashSize], rank2 \in [Nodes -> Nat] :
         /\ Lists(own2, rank2)' /\ own2[node[t]] = HashSize
         /\ \A n \in Nodes : n # node[t] => own2[n] = own[n]
  BY UnlinkKept
<1>4. PICK q \in Nodes : q = node[t] /\ own[q] = idx(t) /\ heap[q].key = call[t].key
  BY <1>1, <1>2 DEF Unlink, At, Live, Standing
<1>5. /\ call[t].key \in Keys /\ own[q] # HashSize /\ Contents[call[t].key] # NoValue
  BY <1>1, <1>2, <1>4, KeyFound
<1>6. \A m \in Nodes : heap'[m].key = heap[m].key /\ (own[m] # HashSize => heap'[m].value = heap[m].value)
  <2>1. CASE prev[t] = NULL
    BY <2>1 DEF Unlink
  <2>2. CASE prev[t] # NULL
    <3>1. PICK p \in Nodes : p = prev[t] /\ own[p] = idx(t)
      BY <1>1, <1>2, <2>2 DEF Standing, Typed
    <3>2. heap[p] \in Node /\ heap[q].next \in Nodes \cup {NULL}
      BY <1>1, <1>4, <1>5, <3>1, LiveNode, Fields DEF Listed
    <3>3. PICK r \in Node : r = [heap[p] EXCEPT !.next = heap[q].next]
      BY <3>2, Fields
    <3>4. r.key = heap[p].key /\ r.value = heap[p].value
      BY <3>2, <3>3, Fields
    <3>5. heap' = [heap EXCEPT ![p] = r]
      BY <1>4, <2>2, <3>1, <3>3 DEF Unlink
    <3> QED
      BY <1>1, <3>4, <3>5 DEF Typed
  <2> QED
    BY <2>1, <2>2
\* No other node holds the key.
<1>7. ASSUME NEW m \in Nodes, own[m] # HashSize, heap[m].key = call[t].key PROVE m = q
  <2>1. BucketOf[heap[m].key] = own[m]
    BY <1>1, <1>7 DEF Listed
  <2>2. own[m] = own[q] /\ heap[m].key = heap[q].key
    BY <1>4, <1>7, <2>1 DEF idx
  <2> QED
    BY <1>1, <1>5, <2>2 DEF Listed
<1>8. Contents' = [Contents EXCEPT ![call[t].key] = NoValue]
  <2>1. Listed(own2, rank2)'
    BY <1>3 DEF Lists
  <2>2. PICK k \in Keys, v \in Values \cup {NoValue} : k = call[t].key /\ v = NoValue
    BY <1>5
  <2>3. OnlyKey(k, v, own, own2)
    BY <1>3, <1>4, <1>6, <1>7, <2>2 DEF OnlyKey
  <2>4. Contents' = [Contents EXCEPT ![k] = v]
    BY <1>1, <2>1, <2>2, <2>3, ContentsSet
  <2> QED
    BY <2>2, <2>4
<1>9. call[t] # NoCall /\ answer[t] = NoCall
  BY <1>2 DEF Answered, Decided
<1> QED
  BY <1>2, <1>5, <1>8, <1>9, NoCallIsNone DEF Store!Delete, Store!Pending, Store!Present, Store!Decide, Op

\* The other steps on the memory and the counters: the store does not change.
LEMMA SilentMaps ==
    ASSUME Core, Typed', NEW own \in [Nodes -> 0 .. HashSize],
           NEW rank \in [Nodes -> Nat], Lists(own, rank), NEW t \in Threads,
           Allocate(t) \/ Count(t) \/ FreeNode(t)
    PROVE  UNCHANGED Store!vars
<1>1. Typed /\ Listed(own, rank) /\ Standing(t, own, rank)
  BY DEF Core, Lists
<1>2. Listed(own, rank)'
  BY AllocateKept, CountKept, FreeNodeKept DEF Lists
<1>3. \A n \in Nodes : own[n] # HashSize => heap'[n] = heap[n]
  <2>1. CASE Allocate(t)
    BY <1>1, <2>1 DEF Allocate, Listed, Live, Typed
  <2>2. CASE Count(t)
    BY <2>2 DEF Count
  <2>3. CASE FreeNode(t)
    BY <1>1, <2>3 DEF FreeNode, At, Standing, Typed
  <2> QED
    BY <2>1, <2>2, <2>3
<1>4. Contents' = Contents
  BY <1>1, <1>2, <1>3, SameContents
<1> QED
  BY <1>4 DEF Allocate, Count, FreeNode, Store!vars

\* hash_insert fails: the node that it frees was not in a list.
LEMMA StrdupFailsMaps ==
    ASSUME Core, Answered, Typed', NEW own \in [Nodes -> 0 .. HashSize],
           NEW rank \in [Nodes -> Nat], Lists(own, rank), NEW t \in Threads, StrdupFails(t)
    PROVE  Store!Fail(t)
<1>1. Typed /\ Listed(own, rank) /\ Standing(t, own, rank) /\ Listed(own, rank)'
  BY StrdupFailsKept DEF Core, Lists
<1>2. /\ pc[t] = "link" /\ UNCHANGED call
      /\ answer' = [answer EXCEPT ![t] = Answer(-1, NoValue)]
      /\ call[t] # NoCall /\ answer[t] = NoCall
  BY DEF StrdupFails, Decide, Answered, Decided
<1>3. \A n \in Nodes : own[n] # HashSize => heap'[n] = heap[n]
  BY <1>1, <1>2 DEF StrdupFails, Standing, Typed
<1>4. Contents' = Contents
  BY <1>1, <1>3, SameContents
<1> QED
  BY <1>2, <1>4, NoCallIsNone DEF Store!Fail, Store!Decide

\* hash_destroy drops the keys of one bucket.
LEMMA DestroyBucketMaps ==
    ASSUME Core, Answered, Typed', NEW own \in [Nodes -> 0 .. HashSize],
           NEW rank \in [Nodes -> Nat], Lists(own, rank), DestroyBucket
    PROVE  Store!Discard
<1>1. Typed /\ Listed(own, rank)
  BY DEF Core, Lists
<1>2. PICK own2 \in [Nodes -> 0 .. HashSize], rank2 \in [Nodes -> Nat] :
         /\ Lists(own2, rank2)'
         /\ \A n \in Nodes : own2[n] # HashSize => heap'[n] = heap[n]
         /\ \A n \in Nodes : own2[n] = IF own[n] = destroyed THEN HashSize ELSE own[n]
  BY DestroyBucketKept
<1>3. Holds(own) /\ Holds(own2)'
  BY <1>1, <1>2, ContentsAre, ContentsWillBe DEF Lists
<1>4. PICK f, g : f = Contents /\ g = Contents'
  OBVIOUS
<1>5. f \in [Keys -> Values \cup {NoValue}] /\ g \in [Keys -> Values \cup {NoValue}]
  BY <1>3, <1>4 DEF Holds
<1>6. ASSUME NEW k \in Keys PROVE g[k] = f[k] \/ g[k] = NoValue
  <2>1. CASE \A n \in Nodes : own2[n] # HashSize => heap'[n].key # k
    BY <1>3, <1>4, <2>1 DEF Holds
  <2>2. CASE \E n \in Nodes : own2[n] # HashSize /\ heap'[n].key = k
    <3>1. PICK n \in Nodes : own2[n] # HashSize /\ heap'[n].key = k
      BY <2>2
    <3>2. own[n] # HashSize /\ heap'[n] = heap[n]
      BY <1>2, <3>1
    <3> QED
      BY <1>3, <1>4, <3>1, <3>2 DEF Holds
  <2> QED
    BY <2>1, <2>2
<1>7. PICK gone \in SUBSET Keys : gone = {k \in Keys : g[k] = NoValue}
  OBVIOUS
<1>8. g = [k \in Keys |-> IF k \in gone THEN NoValue ELSE f[k]]
  BY <1>5, <1>6, <1>7
<1>9. \A t \in Threads : call[t] = NoCall
  BY DEF DestroyBucket, Answered
<1> QED
  BY <1>4, <1>8, <1>9 DEF DestroyBucket, Store!Discard

LEMMA StepMaps == RInv /\ Typed' /\ [Next]_vars => [Store!Next]_(Store!vars)
<1> SUFFICES ASSUME RInv, Typed', [Next]_vars PROVE Store!Next \/ UNCHANGED Store!vars
  OBVIOUS
<1>1. Core /\ Answered /\ Typed
  BY DEF RInv, IInv, Core
<1>2. PICK own \in [Nodes -> 0 .. HashSize], rank \in [Nodes -> Nat] : Lists(own, rank)
  BY DEF RInv, IInv
<1>3. ASSUME NEW t \in Threads, Invoke(t) \/ Step(t) PROVE Store!Next \/ UNCHANGED Store!vars
  <2>1. CASE \/ Invoke(t) \/ LockRead(t) \/ LockWrite(t) \/ LockFails(t) \/ Advance(t)
             \/ Found(t) \/ NotFound(t) \/ Copy(t) \/ OutOfMemory(t) \/ Unlock(t) \/ Reply(t)
    BY <1>1, <1>2, <2>1, QuietMaps
  <2>2. CASE ReplaceValue(t)
    BY <1>1, <1>2, <2>2, ReplaceValueMaps DEF Store!Next
  <2>3. CASE Link(t)
    BY <1>1, <1>2, <2>3, LinkMaps DEF Store!Next
  <2>4. CASE Unlink(t)
    BY <1>1, <1>2, <2>4, UnlinkMaps DEF Store!Next
  <2>5. CASE Allocate(t) \/ Count(t) \/ FreeNode(t)
    BY <1>1, <1>2, <2>5, SilentMaps
  <2>6. CASE StrdupFails(t)
    BY <1>1, <1>2, <2>6, StrdupFailsMaps DEF Store!Next
  <2> QED
    BY <1>3, <2>1, <2>2, <2>3, <2>4, <2>5, <2>6 DEF Step
<1>4. CASE DestroyBucket
  BY <1>1, <1>2, <1>4, DestroyBucketMaps DEF Store!Next
<1>5. CASE UNCHANGED vars
  <2>1. UNCHANGED heap /\ UNCHANGED <<call, answer>>
    BY <1>5 DEF vars, table
  <2>2. Listed(own, rank)'
    BY <1>2, <1>5 DEF Lists, Listed, Kept, Live, vars, table, end
  <2>3. Contents' = Contents
    BY <1>1, <1>2, <2>1, <2>2, SameContents DEF Lists
  <2> QED
    BY <2>1, <2>3 DEF Store!vars
<1> QED
  BY <1>3, <1>4, <1>5 DEF Next

\* Each call of hash_insert, hash_read, hash_update and hash_delete takes effect at one
\* instant between its invocation and its return, or fails and has no effect, whatever
\* the other threads do meanwhile.
THEOREM TableImplementsStore == Spec => ImplementsKVStore
<1>1. Init => RInv
  <2>1. Init => Answered
    BY NoCallIsNone DEF Init, Answered, Decided
  <2> QED
    BY <2>1, Initially DEF RInv
<1>2. RInv /\ [Next]_vars => RInv'
  BY InvariantKept, AnsweredKept DEF RInv
<1>3. RInv /\ RInv' /\ [Next]_vars => [Store!Next]_(Store!vars)
  BY StepMaps DEF RInv, IInv, Core
<1> QED
  BY <1>1, <1>2, <1>3, InitMaps, PTL DEF Spec, ImplementsKVStore, Store!Spec
==============================================================================
