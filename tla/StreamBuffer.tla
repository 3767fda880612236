---------------------------- MODULE StreamBuffer ----------------------------
(***************************************************************************)
(* A stream between two operators (class Stream, core/stream.h) as         *)
(* operators over one record: the queue, the next tuple to dequeue first   *)
(* (the code's deque has it at its back), the backup, oldest tuple first,  *)
(* and whether the stream keeps one.  A tuple is any record with a field   *)
(* arrived, or EndOfStream, the only system message there is.              *)
(***************************************************************************)
EXTENDS Sequences, Subsequences

CONSTANT EndOfStream

NewStream(backedUp) == [queue |-> <<>>, backup |-> <<>>, backed |-> backedUp]

(* enqueue(), once for each of the tuples *)
Enqueued(stream, tuples) ==
    [stream EXCEPT !.queue = @ \o tuples,
                   !.backup = IF stream.backed THEN @ \o tuples ELSE @]

(* non_blocking_dequeue() on a queue that is not empty *)
Dequeued(stream) == [stream EXCEPT !.queue = Tail(@)]

(* clear(): the backup stays. *)
Cleared(stream) == [stream EXCEPT !.queue = <<>>]

(* recover_from_backup(): the whole backup goes in front of the queue, and *)
(* stays a backup.                                                         *)
Recovered(stream) == [stream EXCEPT !.queue = stream.backup \o @]

(* Mutant: the tuple that arrived at the low water mark goes too. *)
OlderOrEqual(tuple, lwm) == tuple # EndOfStream /\ tuple.arrived <= lwm

(* IsOlderThan: a system message never is. *)
OlderThan(tuple, lwm) == tuple # EndOfStream /\ tuple.arrived < lwm

(* evict_backup_tuples_older_than() *)
Evicted(stream, lwm) ==
    LET kept == {k \in DOMAIN stream.backup : ~OlderThan(stream.backup[k], lwm)}
    IN  [stream EXCEPT !.backup = Chosen(@, kept)]
=============================================================================
