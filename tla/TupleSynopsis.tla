--------------------------- MODULE TupleSynopsis ---------------------------
(***************************************************************************)
(* The ring buffer behind a tuple-based window (class TupleBaseSynopsis,   *)
(* core/operator/synopsis.h) as operators over one record:                 *)
(*   index      the slot the next accepted tuple goes to (index_)          *)
(*   newcomers  the tuples that wait to be accepted (newcomer_tuples_ up   *)
(*              to newcomer_count_)                                        *)
(*   tuples     the slots of the window (tuples_)                          *)
(*   filled     the first window has been accepted (window_filled_)        *)
(*   beginning  the slot get_window_beginning_tuple reads                  *)
(* A window win is a record [width, stride] with 1 <= stride <= width: a   *)
(* wider stride would run off the end of newcomer_tuples_.                 *)
(***************************************************************************)
LOCAL INSTANCE Integers
LOCAL INSTANCE Sequences

CONSTANT NoTuple   \* what an unused slot holds

Slots(win) == 0 .. win.width - 1

(* A number of slots further on, around the ring.  The counts passed here  *)
(* never exceed the width, so the code's % wraps at most once.             *)
SlotAfter(win, slot, count) ==
    IF slot + count < win.width THEN slot + count ELSE slot + count - win.width

NewSynopsis(win) ==
    [index |-> 0, newcomers |-> <<>>, tuples |-> [k \in Slots(win) |-> NoTuple],
     filled |-> FALSE, beginning |-> 0]

(* Mutant: the window still counts as filled after a reset. *)
StillFilled(syn) == [syn EXCEPT !.index = 0, !.newcomers = <<>>, !.beginning = 0]

(* reset(): the slots keep their tuples until the next window covers them. *)
Reset(syn) ==
    [syn EXCEPT !.index = 0, !.newcomers = <<>>, !.filled = FALSE, !.beginning = 0]

(* How many newcomers make a window complete. *)
Needed(win, syn) == IF syn.filled THEN win.stride ELSE win.width

(* Mutant: the tuple that starts the next window is passed over. *)
BeginningTooFar(win, syn) == SlotAfter(win, SlotAfter(win, syn.index, win.stride), 1)

(* The new window_beginning_: the index before the newcomers come in, a    *)
(* stride further on.                                                      *)
Beginning(win, syn) == SlotAfter(win, syn.index, win.stride)

(* Mutant: accepting does not move the index on. *)
OverwritesInPlace(win, syn, newcomers) ==
    LET Offset(k) == IF k >= syn.index THEN k - syn.index
                     ELSE k - syn.index + win.width
    IN [syn EXCEPT !.newcomers = <<>>, !.filled = TRUE, !.beginning = Beginning(win, syn),
                   !.tuples = [k \in Slots(win) |->
                       IF Offset(k) < Len(newcomers) THEN newcomers[Offset(k) + 1] ELSE @[k]]]

(* accept_newcomers_logical_: the newcomers take the slots from index_ on. *)
Accepted(win, syn, newcomers) ==
    LET Offset(k) == IF k >= syn.index THEN k - syn.index
                     ELSE k - syn.index + win.width
    IN [index |-> SlotAfter(win, syn.index, Len(newcomers)),
        newcomers |-> <<>>,
        tuples |-> [k \in Slots(win) |->
                       IF Offset(k) < Len(newcomers) THEN newcomers[Offset(k) + 1]
                       ELSE syn.tuples[k]],
        filled |-> TRUE,
        beginning |-> Beginning(win, syn)]

(* The next tuple completes a window: the synopsis accepts its newcomers   *)
(* and calls its operator back.                                            *)
Completes(win, syn) == Len(syn.newcomers) + 1 = Needed(win, syn)

(* enqueue(t) *)
Enqueued(win, syn, t) ==
    LET newcomers == Append(syn.newcomers, t)
    IN IF Completes(win, syn) THEN Accepted(win, syn, newcomers)
       ELSE [syn EXCEPT !.newcomers = newcomers]

(* The window from its oldest tuple to its latest.                         *)
WindowOf(win, syn) ==
    [j \in 1 .. win.width |-> syn.tuples[SlotAfter(win, syn.index, j - 1)]]

(* get_window_beginning_tuple() *)
BeginningTuple(syn) == syn.tuples[syn.beginning]
=============================================================================
