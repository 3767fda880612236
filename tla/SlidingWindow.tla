--------------------------- MODULE SlidingWindow ---------------------------
(***************************************************************************)
(* What a tuple-based window promises.  The first width tuples make a      *)
(* window, and from then on every stride tuples make another: the latest   *)
(* width tuples, in their order of arrival.                                *)
(***************************************************************************)
EXTENDS Naturals, Sequences

CONSTANT Tuples

VARIABLES
    width, stride,
    arrivals,      \* the tuples since the last restart
    window         \* the latest window; empty before the first

vars == <<width, stride, arrivals, window>>

(* The n-th tuple completes a window. *)
Due(n) == \E k \in 0 .. n : n = width + k * stride

LatestOf(tuples) == SubSeq(tuples, Len(tuples) - width + 1, Len(tuples))

Init ==
    /\ width \in Nat \ {0}
    /\ stride \in 1 .. width
    /\ arrivals = <<>>
    /\ window = <<>>

Arrive(t) ==
    /\ arrivals' = Append(arrivals, t)
    /\ window' = IF Due(Len(arrivals')) THEN LatestOf(arrivals') ELSE window
    /\ UNCHANGED <<width, stride>>

Restart ==
    /\ arrivals' = <<>>
    /\ window' = <<>>
    /\ UNCHANGED <<width, stride>>

Next == Restart \/ \E t \in Tuples : Arrive(t)

Spec == Init /\ [][Next]_vars
=============================================================================
