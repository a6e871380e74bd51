------------------------------ MODULE KVStore ------------------------------
(***************************************************************************)
(* What the key-value table promises to the threads that share it: each    *)
(* call of hash_insert, hash_read, hash_update or hash_delete takes effect *)
(* at one instant between its invocation and its return, or fails and has  *)
(* no effect.  HashTable, the chained table of hashtable.c with its locks, *)
(* is shown to implement this module.                                      *)
(***************************************************************************)
EXTENDS Integers

CONSTANTS Threads, Keys, Values, NoValue, NoCall

VARIABLES
    store,      \* the value of each key, NoValue for an absent key
    call,       \* the call each thread is in
    answer      \* the answer to that call, NoCall until it is decided
vars == <<store, call, answer>>

Calls == [op : {"insert", "update"}, key : Keys, value : Values]
           \cup [op : {"read", "delete"}, key : Keys]

Answer(ret, dst) == [ret |-> ret, dst |-> dst]
Done    == Answer(1, NoValue)
Refused == Answer(0, NoValue)   \* the key was there, or was not there
Failed  == Answer(-1, NoValue)
Answers == {Done, Refused, Failed} \cup {Answer(1, v) : v \in Values}

TypeOK ==
    /\ store \in [Keys -> Values \cup {NoValue}]
    /\ call \in [Threads -> Calls \cup {NoCall}]
    /\ answer \in [Threads -> Answers \cup {NoCall}]

Init ==
    /\ store = [k \in Keys |-> NoValue]
    /\ call = [t \in Threads |-> NoCall]
    /\ answer = [t \in Threads |-> NoCall]

Invoke(t) ==
    /\ call[t] = NoCall
    /\ \E c \in Calls : call' = [call EXCEPT ![t] = c]
    /\ UNCHANGED <<store, answer>>

Pending(t, op) == call[t] # NoCall /\ answer[t] = NoCall /\ call[t].op = op
Present(k) == store[k] # NoValue

\* t's call is decided with answer a and leaves the store as s.
Decide(t, a, s) ==
    /\ answer' = [answer EXCEPT ![t] = a]
    /\ store' = s
    /\ UNCHANGED call

Insert(t) ==
    /\ Pending(t, "insert")
    /\ IF Present(call[t].key)
         THEN Decide(t, Refused, store)
         ELSE Decide(t, Done, [store EXCEPT ![call[t].key] = call[t].value])

Update(t) ==
    /\ Pending(t, "update")
    /\ IF Present(call[t].key)
         THEN Decide(t, Done, [store EXCEPT ![call[t].key] = call[t].value])
         ELSE Decide(t, Refused, store)

Delete(t) ==
    /\ Pending(t, "delete")
    /\ IF Present(call[t].key)
         THEN Decide(t, Done, [store EXCEPT ![call[t].key] = NoValue])
         ELSE Decide(t, Refused, store)

Read(t) ==
    /\ Pending(t, "read")
    /\ Decide(t, IF Present(call[t].key) THEN Answer(1, store[call[t].key]) ELSE Refused,
              store)

\* A lock call failed, or memory ran out.
Fail(t) ==
    /\ call[t] # NoCall /\ answer[t] = NoCall
    /\ Decide(t, Failed, store)

Reply(t) ==
    /\ answer[t] # NoCall
    /\ call' = [call EXCEPT ![t] = NoCall]
    /\ answer' = [answer EXCEPT ![t] = NoCall]
    /\ UNCHANGED store

\* hash_destroy drops keys, when nobody is in a call.
Discard ==
    /\ \A t \in Threads : call[t] = NoCall
    /\ \E gone \in SUBSET Keys :
          store' = [k \in Keys |-> IF k \in gone THEN NoValue ELSE store[k]]
    /\ UNCHANGED <<call, answer>>

Next ==
    \/ \E t \in Threads : \/ Invoke(t) \/ Insert(t) \/ Update(t) \/ Delete(t)
                          \/ Read(t) \/ Fail(t) \/ Reply(t)
    \/ Discard

Spec == Init /\ [][Next]_vars
=============================================================================
