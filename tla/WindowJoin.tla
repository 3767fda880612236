----------------------------- MODULE WindowJoin -----------------------------
(***************************************************************************)
(* The join of two windows (OperatorJoin, core/operator/operator-join.h,   *)
(* and its base DoubleInputOperator).  Each side has an input stream and a *)
(* synopsis; a side that has completed a window is not read again until    *)
(* the other has completed one too, and the two windows are joined.        *)
(*                                                                         *)
(* A redo resets the join and replays its input, here from the start: no   *)
(* commit has evicted any of it yet.  Time, and what a tuple carries but   *)
(* its number on its side and its arrival, are left out; for the tuples    *)
(* an adapter brings, the low water mark is the arrival.                   *)
(***************************************************************************)
EXTENDS Naturals, Sequences, FiniteSets, Subsequences

CONSTANTS Windows,       \* the windows the sides may have, records [width, stride]
          Matching,      \* <<l, r>>: the condition holds of left tuple l and right tuple r
          NumTuples,     \* bound: tuples sent to a side
          MaxRedos,      \* bound: redos
          NoTuple, EndOfStream

Sides == {"left", "right"}
Other(side) == IF side = "left" THEN "right" ELSE "left"

ASSUME JoinAssumption ==
    /\ \A win \in Windows : win.width \in Nat /\ win.stride \in 1..win.width
    /\ Matching \subseteq (1..NumTuples) \X (1..NumTuples)
    /\ NumTuples \in Nat
    /\ MaxRedos \in Nat

Synopsis == INSTANCE TupleSynopsis

VARIABLES window,       \* side -> its window
          sent,         \* side -> all that came into its stream, which keeps a backup
          input,        \* side -> the queue of its stream
          synopsis,     \* side -> its synopsis
          turn,         \* the side that next_implementation comes to next
          needsTuple,   \* side -> left_needs_tuple_, right_needs_tuple_
          output,       \* the results, and the ends of the stream passed on
          redos,        \* redos so far
          joined,       \* history: the pairs of windows joined since the last redo
          offBeat       \* history: at the last redo one side was waiting for the other

vars == <<window, sent, input, synopsis, turn, needsTuple, output, redos, joined, offBeat>>

Init ==
    /\ window \in [Sides -> Windows]
    /\ sent = [side \in Sides |-> <<>>]
    /\ input = sent
    /\ synopsis = [side \in Sides |-> Synopsis!NewSynopsis(window[side])]
    /\ turn = "left"
    /\ needsTuple = [side \in Sides |-> TRUE]
    /\ output = <<>>
    /\ redos = 0
    /\ joined = <<>>
    /\ offBeat = FALSE

Ended(side) == sent[side] # <<>> /\ sent[side][Len(sent[side])] = EndOfStream

Arrive(side, tuple) ==
    /\ ~Ended(side)
    /\ sent' = [sent EXCEPT ![side] = Append(@, tuple)]
    /\ input' = [input EXCEPT ![side] = Append(@, tuple)]
    /\ UNCHANGED <<window, synopsis, turn, needsTuple, output, redos, joined, offBeat>>

(* Both streams take their tuples' arrival times from one clock. *)
Send(side) ==
    /\ Len(sent[side]) < NumTuples
    /\ Arrive(side, [number |-> Len(sent[side]) + 1,
                     arrived |-> Len(sent["left"]) + Len(sent["right"]) + 1])

SendEnd(side) == Arrive(side, EndOfStream)

-----------------------------------------------------------------------------
Lowest(S) == CHOOSE n \in S : \A m \in S : n <= m

(* Mutant: the low water mark of the left window alone. *)
LwmOfLeft(left, right) == Lowest({left.tuples[k].arrived : k \in DOMAIN left.tuples})

(* The lower get_lwm() of the two synopses. *)
Lwm(left, right) ==
    Lowest({left.tuples[k].arrived : k \in DOMAIN left.tuples}
           \cup {right.tuples[k].arrived : k \in DOMAIN right.tuples})

Combined(l, r, lwm) ==
    [left |-> l.number, right |-> r.number, arrived |-> Lowest({l.arrived, r.arrived}), lwm |-> lwm]

Matches(l, r) == <<l.number, r.number>> \in Matching

(* join_synopsis_(): the right iterator is made once, so the slots on the  *)
(* right are gone through with the first slot on the left, and with no     *)
(* other.                                                                  *)
JoinSynopsis(left, right) ==
    LET l == left.tuples[0]
        found == {k \in DOMAIN right.tuples : Matches(l, right.tuples[k])}
    IN  [i \in 1..Cardinality(found) |->
            Combined(l, right.tuples[Nth(found, i)], Lwm(left, right))]

(* Mutant: a side that waits for the other is read nevertheless. *)
ReadsAnyway(side) == input[side] # <<>>

(* One side of next_implementation has something to do. *)
Reads(side) == needsTuple[side] /\ input[side] # <<>>

(* The tuple the side takes next, and its synopsis with it *)
Taken(side) == Head(input[side])
With(side) == Synopsis!Enqueued(window[side], synopsis[side], Taken(side))

Step(side) ==
    /\ turn = side
    /\ turn' = Other(side)
    /\ UNCHANGED <<window, sent, redos, offBeat>>

Take(side) ==
    /\ Step(side)
    /\ Reads(side)
    /\ input' = [input EXCEPT ![side] = Tail(@)]

(* The side waits, or its stream is empty. *)
Skip(side) ==
    /\ Step(side)
    /\ ~Reads(side)
    /\ UNCHANGED <<input, synopsis, needsTuple, output, joined>>

(* is_concrete_input: the end of the stream of either side passes on. *)
PassEnd(side) ==
    /\ Take(side)
    /\ Taken(side) = EndOfStream
    /\ output' = Append(output, EndOfStream)
    /\ UNCHANGED <<synopsis, needsTuple, joined>>

(* process_left_input, process_right_input *)
Process(side) ==
    /\ Take(side)
    /\ Taken(side) # EndOfStream
    /\ synopsis' = [synopsis EXCEPT ![side] = With(side)]

(* The tuple completes no window. *)
Collect(side) ==
    /\ Process(side)
    /\ ~Synopsis!Completes(window[side], synopsis[side])
    /\ UNCHANGED <<needsTuple, output, joined>>

(* Mutant: the call back of the left side does not try to join. *)
JoinsOnRight(side) ==
    side = "right" /\ Synopsis!Completes(window[side], synopsis[side]) /\ ~needsTuple[Other(side)]

(* try_join_() in the call back of a window that is complete: the other is too. *)
Joins(side) == Synopsis!Completes(window[side], synopsis[side]) /\ ~needsTuple[Other(side)]

(* The window is complete, and the side waits for the other. *)
Accept(side) ==
    /\ Process(side)
    /\ Synopsis!Completes(window[side], synopsis[side])
    /\ ~Joins(side)
    /\ needsTuple' = [needsTuple EXCEPT ![side] = FALSE]
    /\ UNCHANGED <<output, joined>>

(* left_on_accept_, right_on_accept_ with try_join_() *)
Join(side) ==
    /\ Process(side)
    /\ Joins(side)
    /\ output' = output \o JoinSynopsis(synopsis'["left"], synopsis'["right"])
    /\ joined' = Append(joined, [each \in Sides |-> Synopsis!WindowOf(window[each], synopsis'[each])])
    /\ needsTuple' = [each \in Sides |-> TRUE]

(* One side of next_implementation: the left first, then, with what has    *)
(* come in and been joined in the meantime, the right.                     *)
NextImplementation ==
    \E side \in Sides : Skip(side) \/ PassEnd(side) \/ Collect(side) \/ Accept(side) \/ Join(side)

(* reset_operators_ and reset_streams_ of the scheduler: reset() empties   *)
(* the synopses and leaves the flags alone; the output is cleared, and     *)
(* what came in before comes in again.                                     *)
Redo ==
    /\ turn = "left"
    /\ redos < MaxRedos
    /\ redos' = redos + 1
    /\ synopsis' = [side \in Sides |-> Synopsis!Reset(synopsis[side])]
    /\ input' = sent
    /\ output' = <<>>
    /\ joined' = <<>>
    /\ offBeat' = \E side \in Sides : ~needsTuple[side]
    /\ UNCHANGED <<window, sent, turn, needsTuple>>

Next == \/ \E side \in Sides : Send(side) \/ SendEnd(side)
        \/ NextImplementation
        \/ Redo

Spec == Init /\ [][Next]_vars
FairSpec == Spec /\ WF_vars(NextImplementation)

-----------------------------------------------------------------------------
(* The tuples of the nth window of a side *)
NthWindow(side, n) ==
    LET win == window[side] IN
    [k \in 1..win.width |-> sent[side][(n - 1) * win.stride + k]]

(* Whether the tuples of a side's nth window have come in *)
HasArrived(side, n) ==
    LET win == window[side]
        last == (n - 1) * win.stride + win.width
    IN  Len(sent[side]) >= last /\ sent[side][last] # EndOfStream

(* The sides stay in step: the nth join is of the nth windows of either,   *)
(* however their tuples come in, unless a redo came while a side waited.   *)
(* (operator-join.h:88-93, double-input-operator.h:48-66)                  *)
PairsWindows ==
    ~offBeat => \A n \in DOMAIN joined : \A side \in Sides :
        HasArrived(side, n) /\ joined[n][side] = NthWindow(side, n)

(* Never do both sides wait for each other, after a redo either: the flags *)
(* that reset() leaves alone do not block the join (operator-join.h:55-58).*)
NoMutualWait == \E side \in Sides : needsTuple[side]

(* A result is of two tuples that match and that were in the windows of    *)
(* one join; it arrived when the earlier of the two did, and its low water *)
(* mark is the earliest arrival in both windows, whichever of them has it  *)
(* (operator-join.h:111-126).                                              *)
ResultsComeFromWindows ==
    \A i \in DOMAIN output : output[i] # EndOfStream =>
        \E n \in DOMAIN joined :
            LET result == output[i]
                left == joined[n]["left"]
                right == joined[n]["right"]
            IN  /\ \E l \in DOMAIN left : \E r \in DOMAIN right :
                       /\ Matches(left[l], right[r])
                       /\ result.left = left[l].number /\ result.right = right[r].number
                       /\ result.arrived \in {left[l].arrived, right[r].arrived}
                       /\ result.arrived <= left[l].arrived /\ result.arrived <= right[r].arrived
                /\ \A side \in Sides : \A k \in DOMAIN joined[n][side] :
                       result.lwm <= joined[n][side][k].arrived
                /\ \E side \in Sides : \E k \in DOMAIN joined[n][side] :
                       result.lwm = joined[n][side][k].arrived

(* The end of either input passes on at once, yet no result comes after it *)
(* (double-input-operator.h:35-46): a side whose window still has to be    *)
(* joined is not read on to its end.                                       *)
EndFollowsResults ==
    \A i, j \in DOMAIN output :
        i < j /\ output[i] = EndOfStream => output[j] = EndOfStream

(* Every pair of windows that has come in is joined in the end, unless a   *)
(* redo came while a side waited.                                          *)
EveryPairIsJoined ==
    []<>(\A n \in 1..NumTuples :
            (~offBeat /\ \A side \in Sides : HasArrived(side, n)) => Len(joined) >= n)

(* "just conduct a nested-loop join" (operator-join.h:115): the results of *)
(* a join are all pairs of its windows that match.                         *)
JoinsEveryPair ==
    \A n \in DOMAIN joined : \A l \in DOMAIN joined[n]["left"], r \in DOMAIN joined[n]["right"] :
        LET left == joined[n]["left"][l]
            right == joined[n]["right"][r]
        IN  Matches(left, right) =>
                \E i \in DOMAIN output : /\ output[i] # EndOfStream
                                         /\ output[i].left = left.number
                                         /\ output[i].right = right.number
=============================================================================
