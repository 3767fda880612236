---------------------------- MODULE MCWindowJoin ----------------------------
(***************************************************************************)
(* Joins of small windows.                                                 *)
(***************************************************************************)
EXTENDS WindowJoin

MCWindows == {[width |-> 2, stride |-> 1], [width |-> 2, stride |-> 2]}

(* A tuple matches those of its own parity on the other side, and the      *)
(* first one matches all.                                                  *)
MCMatching == {p \in (1..NumTuples) \X (1..NumTuples) : p[1] = 1 \/ p[1] % 2 = p[2] % 2}
=============================================================================
