--------------------------- MODULE StoredRelation ---------------------------
(***************************************************************************)
(* A relation as the transactions see it (class Relation, core/relation.h): *)
(* the number of its current version, and its recursive mutex, which is    *)
(* owned by one thread at a depth.  The tuples are left out: an update     *)
(* only steps the version, and what a scan finds is up to its caller.      *)
(***************************************************************************)
LOCAL INSTANCE Naturals

CONSTANT NoThread   \* the owner of a free mutex

NewRelation == [version |-> 0, owner |-> NoThread, depth |-> 0]

(* pthread_mutex_lock on a recursive mutex returns. *)
Lockable(rel, thread) == rel.owner \in {NoThread, thread}

(* read_write_lock(), once it returns. *)
Locked(rel, thread) ==
    [rel EXCEPT !.owner = thread, !.depth = @ + 1]

(* unlock(): a thread that does not own the mutex gets EPERM, which nobody *)
(* looks at, and changes nothing.                                          *)
Unlocked(rel, thread) ==
    IF rel.owner # thread THEN rel
    ELSE [rel EXCEPT !.depth = @ - 1,
                          !.owner = IF rel.depth = 1 THEN NoThread ELSE @]

(* unlock() by a thread a number of times.                                 *)
UnlockedTimes(rel, thread, times) ==
    IF rel.owner # thread THEN rel
    ELSE IF rel.depth <= times THEN [rel EXCEPT !.owner = NoThread, !.depth = 0]
    ELSE [rel EXCEPT !.depth = @ - times]

(* update(): its own lock and unlock nest in the caller's and cancel out. *)
Updated(rel) == [rel EXCEPT !.version = @ + 1]
=============================================================================
