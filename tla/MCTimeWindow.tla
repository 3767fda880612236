---------------------------- MODULE MCTimeWindow ----------------------------
(***************************************************************************)
(* Time-based windows of a few milliseconds.                               *)
(***************************************************************************)
EXTENDS TimeWindow

(* Overlapping, tumbling and landmark windows, and one that is longer than *)
(* useconds_t can say                                                      *)
MCWindows == {[width |-> 3, stride |-> 2], [width |-> 2, stride |-> 2],
              [width |-> 1, stride |-> 3], [width |-> 17, stride |-> 17]}
=============================================================================
