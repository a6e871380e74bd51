--------------------------- MODULE ReadersWriters ---------------------------
(***************************************************************************)
(* What a readers-writer lock promises to the operations that use it, with *)
(* nothing of how it decides who goes next: any number of readers, or one  *)
(* writer, and nobody shares the lock with a writer.  RWLock, the ticket   *)
(* lock of rwlock.c, is shown to implement this module.                    *)
(***************************************************************************)
CONSTANT Threads

VARIABLES readers, writers
vars == <<readers, writers>>

TypeOK == readers \subseteq Threads /\ writers \subseteq Threads

Init == readers = {} /\ writers = {}

Holds(t) == t \in readers \cup writers

AcquireRead(t) ==
    /\ ~Holds(t)
    /\ writers = {}
    /\ readers' = readers \cup {t}
    /\ UNCHANGED writers

AcquireWrite(t) ==
    /\ ~Holds(t)
    /\ readers = {} /\ writers = {}
    /\ writers' = {t}
    /\ UNCHANGED readers

ReleaseRead(t) ==
    /\ t \in readers
    /\ readers' = readers \ {t}
    /\ UNCHANGED writers

ReleaseWrite(t) ==
    /\ t \in writers
    /\ writers' = writers \ {t}
    /\ UNCHANGED readers

Next == \E t \in Threads : \/ AcquireRead(t)
                           \/ AcquireWrite(t)
                           \/ ReleaseRead(t)
                           \/ ReleaseWrite(t)

Spec == Init /\ [][Next]_vars
=============================================================================
