-------------------------- MODULE WindowJoinProofs --------------------------
(***************************************************************************)
(* Theorems about WindowJoin, for windows of any width and stride, any     *)
(* condition and any number of tuples and redos.                           *)
(***************************************************************************)
EXTENDS WindowJoin, SubsequenceTheorems

(* What NoMutualWait needs to be inductive: the flags are flags. *)
Flags == needsTuple \in [Sides -> BOOLEAN]

(* A side may complete a window and wait only while the other still needs  *)
(* a tuple, and nothing but a join changes the flag of the other.          *)
LEMMA WaitInduction == Flags /\ NoMutualWait /\ [Next]_vars => (Flags /\ NoMutualWait)'
  <1> SUFFICES ASSUME Flags, NoMutualWait, [Next]_vars
               PROVE  (Flags /\ NoMutualWait)'
    OBVIOUS
  <1> USE DEF Flags, NoMutualWait
  <1>1. ASSUME NEW side \in Sides, Send(side) \/ SendEnd(side)
        PROVE  (Flags /\ NoMutualWait)'
    BY <1>1 DEF Send, SendEnd, Arrive
  <1>2. ASSUME NEW side \in Sides, Skip(side) \/ PassEnd(side) \/ Collect(side)
        PROVE  (Flags /\ NoMutualWait)'
    BY <1>2 DEF Skip, PassEnd, Collect
  <1>3. ASSUME NEW side \in Sides, Accept(side)
        PROVE  (Flags /\ NoMutualWait)'
    <2>1. Other(side) \in Sides /\ Other(side) # side
      BY DEF Other, Sides
    <2>2. needsTuple[Other(side)]
      BY <1>3 DEF Accept, Joins
    <2>3. needsTuple' = [needsTuple EXCEPT ![side] = FALSE]
      BY <1>3 DEF Accept
    <2>4. needsTuple'[Other(side)]
      BY <2>1, <2>2, <2>3
    <2> QED
      BY <2>1, <2>3, <2>4
  <1>4. ASSUME NEW side \in Sides, Join(side)
        PROVE  (Flags /\ NoMutualWait)'
    BY <1>4 DEF Join, Sides
  <1>5. CASE Redo
    BY <1>5 DEF Redo
  <1>6. CASE UNCHANGED vars
    BY <1>6 DEF vars
  <1> QED
    BY <1>1, <1>2, <1>3, <1>4, <1>5, <1>6 DEF Next, NextImplementation

(* The two sides of a join never wait for each other, whatever comes in    *)
(* and however often it is redone (operator-join.h:55-93).                 *)
THEOREM SidesNeverBlock == Spec => []NoMutualWait
  <1>1. Init => Flags /\ NoMutualWait
    BY DEF Init, Flags, NoMutualWait, Sides
  <1>2. Flags /\ NoMutualWait /\ [Next]_vars => (Flags /\ NoMutualWait)'
    BY WaitInduction
  <1> QED
    BY <1>1, <1>2, PTL DEF Spec

-----------------------------------------------------------------------------
(* What EndFollowsResults needs: an end comes last in the input of a side, *)
(* and once one has passed, its side has nothing left to read and is not   *)
(* waiting, so that the other one can not join any more.                   *)
Item == {EndOfStream} \cup [number : Nat, arrived : Nat]

(* What waits on a side is the rest of all that came in, and what came in  *)
(* has an end only last.                                                   *)
Backed(s, i) ==
    /\ s \in Seq(Item) /\ i \in Seq(Item)
    /\ \A k \in 1..Len(s) - 1 : s[k] # EndOfStream
    /\ Len(i) <= Len(s)
    /\ \A k \in 1..Len(i) : i[k] = s[Len(s) - Len(i) + k]

Queues ==
    /\ DOMAIN sent = Sides /\ DOMAIN input = Sides
    /\ \A side \in Sides : Backed(sent[side], input[side])

Ring(win, syn) == "tuples" \in DOMAIN syn /\ DOMAIN syn.tuples = Synopsis!Slots(win)

Rings ==
    /\ DOMAIN synopsis = Sides
    /\ \A side \in Sides : window[side] \in Windows /\ Ring(window[side], synopsis[side])

LastEnds(s) == \A i, j \in DOMAIN s : i < j /\ s[i] = EndOfStream => s[j] = EndOfStream
HasEnd(s) == \E i \in DOMAIN s : s[i] = EndOfStream

Finished(side) == Ended(side) /\ input[side] = <<>> /\ needsTuple[side]

PassedEnds ==
    /\ \E S : output \in Seq(S)
    /\ LastEnds(output)
    /\ HasEnd(output) => \E side \in Sides : Finished(side)

EndInv == Flags /\ Queues /\ Rings /\ PassedEnds

LEMMA FlagsKept == Flags /\ [Next]_vars => Flags'
  BY DEF Flags, Next, Send, SendEnd, Arrive, NextImplementation, Skip, PassEnd, Collect, Accept,
         Join, Redo, vars

(* The results of a join are as many as there are tuples to match.         *)
LEMMA ResultsAreSequence ==
    ASSUME NEW left, NEW right, NEW n \in Nat, DOMAIN right.tuples = 0..n - 1
    PROVE  \E S : JoinSynopsis(left, right) \in Seq(S)
  <1> DEFINE l == left.tuples[0]
             found == {k \in DOMAIN right.tuples : Matches(l, right.tuples[k])}
             len == Cardinality(found)
             results == JoinSynopsis(left, right)
             image == {results[i] : i \in 1..len}
  <1>1. len \in Nat
    <2>1. IsFiniteSet(0..n - 1)
      BY FS_Interval
    <2>2. found \subseteq 0..n - 1
      OBVIOUS
    <2> QED
      BY <2>1, <2>2, FS_Subset, FS_CardinalityType
  <1>2. DOMAIN results = 1..len /\ results = [i \in 1..len |-> results[i]]
    BY DEF JoinSynopsis
  <1>3. \A i \in 1..len : results[i] \in image
    OBVIOUS
  <1> HIDE DEF results, image, len
  <1>4. results \in [1..len -> image]
    BY <1>2, <1>3
  <1>5. results \in Seq(image)
    BY <1>1, <1>4, SeqDef
  <1> QED
    BY <1>5 DEF results

(* The results of a join are a sequence, and no end is among them. *)
LEMMA ResultsAreResults ==
    ASSUME \A l, r, lwm : Combined(l, r, lwm) # EndOfStream,
           NEW left, NEW right, NEW n \in Nat, DOMAIN right.tuples = 0..n - 1
    PROVE  /\ \E S : JoinSynopsis(left, right) \in Seq(S)
           /\ \A i \in DOMAIN JoinSynopsis(left, right) : JoinSynopsis(left, right)[i] # EndOfStream
  <1>1. \A i \in DOMAIN JoinSynopsis(left, right) : JoinSynopsis(left, right)[i] # EndOfStream
    BY DEF JoinSynopsis
  <1> QED
    BY <1>1, ResultsAreSequence

LEMMA RingKept ==
    ASSUME NEW win, NEW syn, NEW t, Ring(win, syn)
    PROVE  Ring(win, Synopsis!Enqueued(win, syn, t)) /\ Ring(win, Synopsis!Reset(syn))
  <1>1. Ring(win, Synopsis!Reset(syn))
    BY DEF Ring, Synopsis!Reset
  <1>2. \A newcomers : Ring(win, [syn EXCEPT !.newcomers = newcomers])
    BY DEF Ring
  <1>3. ASSUME NEW newcomers
        PROVE  Ring(win, Synopsis!Accepted(win, syn, newcomers))
    BY DEF Ring, Synopsis!Accepted
  <1> QED
    BY <1>1, <1>2, <1>3 DEF Synopsis!Enqueued

LEMMA RingsKept == Rings /\ [Next]_vars => Rings'
  <1> SUFFICES ASSUME Rings, [Next]_vars
               PROVE  Rings'
    OBVIOUS
  <1>0. window' = window
    BY DEF Next, Send, SendEnd, Arrive, NextImplementation, Skip, PassEnd, Collect, Accept, Join,
           Process, Take, Step, Redo, vars
  <1>1. ASSUME NEW side \in Sides, synopsis' = [synopsis EXCEPT ![side] = With(side)]
        PROVE  Rings'
    <2>1. Ring(window[side], With(side))
      BY RingKept DEF Rings, With
    <2> QED
      BY <1>0, <1>1, <2>1 DEF Rings
  <1>2. CASE synopsis' = [side \in Sides |-> Synopsis!Reset(synopsis[side])]
    <2>1. \A side \in Sides : Ring(window[side], Synopsis!Reset(synopsis[side]))
      BY RingKept DEF Rings
    <2> QED
      BY <1>0, <1>2, <2>1 DEF Rings
  <1>3. CASE UNCHANGED synopsis
    BY <1>0, <1>3 DEF Rings
  <1>4. \/ UNCHANGED synopsis
        \/ synopsis' = [side \in Sides |-> Synopsis!Reset(synopsis[side])]
        \/ \E side \in Sides : synopsis' = [synopsis EXCEPT ![side] = With(side)]
    BY DEF Next, Send, SendEnd, Arrive, NextImplementation, Skip, PassEnd, Collect, Accept, Join,
           Process, Redo, vars
  <1> QED
    BY <1>1, <1>2, <1>3, <1>4

LEMMA BackedAppended ==
    ASSUME NEW s, NEW i, NEW tuple \in Item, Backed(s, i),
           ~(s # <<>> /\ s[Len(s)] = EndOfStream)
    PROVE  Backed(Append(s, tuple), Append(i, tuple))
  <1>1. /\ s \in Seq(Item) /\ i \in Seq(Item) /\ Len(i) <= Len(s)
        /\ Len(s) \in Nat /\ Len(i) \in Nat
        /\ \A k \in 1..Len(i) : i[k] = s[Len(s) - Len(i) + k]
    BY DEF Backed
  <1>2. \A k \in 1..Len(s) : s[k] # EndOfStream
    BY <1>1 DEF Backed
  <1>3. /\ Append(s, tuple) \in Seq(Item) /\ Append(i, tuple) \in Seq(Item)
        /\ Len(Append(s, tuple)) = Len(s) + 1 /\ Len(Append(i, tuple)) = Len(i) + 1
        /\ \A k \in 1..Len(s) : Append(s, tuple)[k] = s[k]
        /\ Append(s, tuple)[Len(s) + 1] = tuple
        /\ \A k \in 1..Len(i) : Append(i, tuple)[k] = i[k]
        /\ Append(i, tuple)[Len(i) + 1] = tuple
    BY <1>1
  <1>4. ASSUME NEW k \in 1..Len(i) + 1
        PROVE  Append(i, tuple)[k] = Append(s, tuple)[Len(s) - Len(i) + k]
    <2>1. CASE k = Len(i) + 1
      <3>1. Len(s) - Len(i) + k = Len(s) + 1
        BY <1>1, <2>1
      <3> QED
        BY <1>3, <2>1, <3>1
    <2>2. CASE k # Len(i) + 1
      <3>1. k \in 1..Len(i)
        BY <1>1, <2>2
      <3>2. Len(s) - Len(i) + k \in 1..Len(s)
        BY <1>1, <3>1
      <3> QED
        BY <1>1, <1>3, <3>1, <3>2
    <2> QED
      BY <2>1, <2>2
  <1>5. Len(Append(s, tuple)) - Len(Append(i, tuple)) = Len(s) - Len(i)
    BY <1>1, <1>3
  <1>6. \A k \in 1..Len(Append(s, tuple)) - 1 : Append(s, tuple)[k] # EndOfStream
    BY <1>1, <1>2, <1>3
  <1> QED
    BY <1>1, <1>3, <1>4, <1>5, <1>6 DEF Backed

LEMMA BackedTaken ==
    ASSUME NEW s, NEW i, Backed(s, i), i # <<>>
    PROVE  /\ Backed(s, Tail(i))
           /\ Head(i) = EndOfStream => Tail(i) = <<>> /\ s # <<>> /\ s[Len(s)] = EndOfStream
  <1>1. /\ s \in Seq(Item) /\ i \in Seq(Item) /\ Len(i) <= Len(s)
        /\ Len(s) \in Nat /\ Len(i) \in Nat \ {0}
        /\ \A k \in 1..Len(i) : i[k] = s[Len(s) - Len(i) + k]
        /\ \A k \in 1..Len(s) - 1 : s[k] # EndOfStream
    BY DEF Backed
  <1>2. /\ Len(Tail(i)) = Len(i) - 1 /\ \A k \in 1..Len(i) - 1 : Tail(i)[k] = i[k + 1]
        /\ Tail(i) \in Seq(Item) /\ Head(i) = i[1]
    BY <1>1
  <1>3. ASSUME NEW k \in 1..Len(Tail(i))
        PROVE  Tail(i)[k] = s[Len(s) - Len(Tail(i)) + k]
    <2>1. k + 1 \in 1..Len(i) /\ Tail(i)[k] = i[k + 1]
      BY <1>1, <1>2
    <2> DEFINE p == Len(s) - Len(i) + (k + 1)
    <2>2. p = Len(s) - Len(Tail(i)) + k
      BY <1>1, <1>2
    <2>3. i[k + 1] = s[p]
      BY <1>1, <2>1
    <2> HIDE DEF p
    <2> QED
      BY <2>1, <2>2, <2>3
  <1>4. ASSUME Head(i) = EndOfStream
        PROVE  Tail(i) = <<>> /\ s # <<>> /\ s[Len(s)] = EndOfStream
    <2>1. s[Len(s) - Len(i) + 1] = EndOfStream
      <3>1. 1 \in 1..Len(i)
        BY <1>1
      <3> QED
        BY <1>1, <1>2, <1>4, <3>1
    <2>2. Len(s) - Len(i) + 1 \in 1..Len(s)
      BY <1>1
    <2>3. Len(i) = 1
      <3> DEFINE p == Len(s) - Len(i) + 1
      <3>1. p \notin 1..Len(s) - 1
        BY <1>1, <2>1
      <3>2. Len(s) \in Nat /\ Len(i) \in Nat /\ p \in 1..Len(s)
        BY <1>1, <2>2
      <3>3. p = Len(s)
        <4> DEFINE n == Len(s)
        <4>1. n \in Nat /\ p \in 1..n /\ p \notin 1..n - 1
          BY <3>1, <3>2
        <4> HIDE DEF p, n
        <4>2. p = n
          BY <4>1
        <4> QED
          BY <4>2 DEF n
      <3>4. ASSUME NEW m \in Nat, NEW n \in Nat, m - n + 1 = m
            PROVE  n = 1
        BY <3>4
      <3> HIDE DEF p
      <3> QED
        BY <3>2, <3>3, <3>4 DEF p
    <2>4. Len(Tail(i)) = 0 /\ Len(s) - Len(i) + 1 = Len(s)
      BY <1>1, <1>2, <2>3
    <2> QED
      BY <1>1, <1>2, <2>1, <2>2, <2>4
  <1> QED
    BY <1>1, <1>2, <1>3, <1>4 DEF Backed

LEMMA BackedAgain ==
    ASSUME NEW s, NEW i, Backed(s, i)
    PROVE  Backed(s, s)
  <1>1. s \in Seq(Item) /\ Len(s) \in Nat
    BY DEF Backed
  <1>2. \A k \in 1..Len(s) : Len(s) - Len(s) + k = k
    BY <1>1
  <1> QED
    BY <1>1, <1>2 DEF Backed

LEMMA SendsItem ==
    ASSUME Queues, NEW side \in Sides, Send(side) \/ SendEnd(side)
    PROVE  \E tuple \in Item : Arrive(side, tuple)
  <1>1. CASE Send(side)
    <2> DEFINE a == Len(sent[side])
               b == Len(sent["left"])
               c == Len(sent["right"])
               tuple == [number |-> a + 1, arrived |-> b + c + 1]
    <2>1. a \in Nat /\ b \in Nat /\ c \in Nat
      BY DEF Queues, Backed, Sides
    <2>2. Arrive(side, tuple)
      BY <1>1 DEF Send
    <2> HIDE DEF a, b, c
    <2>3. a + 1 \in Nat /\ b + c + 1 \in Nat
      BY <2>1
    <2>4. tuple \in Item
      BY <2>3 DEF Item
    <2> HIDE DEF tuple
    <2> QED
      BY <2>2, <2>4
  <1>2. CASE SendEnd(side)
    BY <1>2 DEF SendEnd, Item
  <1> QED
    BY <1>1, <1>2

LEMMA QueuesKept == Queues /\ [Next]_vars => Queues'
  <1> SUFFICES ASSUME Queues, [Next]_vars
               PROVE  Queues'
    OBVIOUS
  <1>1. ASSUME NEW side \in Sides, NEW tuple \in Item, Arrive(side, tuple)
        PROVE  Queues'
    <2>1. /\ sent' = [sent EXCEPT ![side] = Append(@, tuple)]
          /\ input' = [input EXCEPT ![side] = Append(@, tuple)]
      BY <1>1 DEF Arrive
    <2>2. Backed(Append(sent[side], tuple), Append(input[side], tuple))
      BY <1>1, BackedAppended DEF Arrive, Ended, Queues
    <2> QED
      BY <2>1, <2>2 DEF Queues
  <1>2. CASE \E side \in Sides : Send(side) \/ SendEnd(side)
    BY <1>1, <1>2, SendsItem
  <1>4. ASSUME NEW side \in Sides, Take(side)
        PROVE  Queues'
    <2>1. /\ sent' = sent /\ input' = [input EXCEPT ![side] = Tail(@)]
          /\ input[side] # <<>>
      BY <1>4 DEF Take, Step, Reads
    <2>2. Backed(sent[side], Tail(input[side]))
      BY <2>1, BackedTaken DEF Queues
    <2> QED
      BY <2>1, <2>2 DEF Queues
  <1>5. CASE Redo
    <2>1. sent' = sent /\ input' = sent
      BY <1>5 DEF Redo
    <2> QED
      BY <2>1, BackedAgain DEF Queues
  <1>6. CASE UNCHANGED <<sent, input>>
    BY <1>6 DEF Queues
  <1>7. \/ UNCHANGED <<sent, input>>
        \/ \E side \in Sides : Take(side)
        \/ Redo
        \/ \E side \in Sides : Send(side) \/ SendEnd(side)
    BY DEF Next, NextImplementation, Skip, PassEnd, Collect, Accept, Join, Process, Step, vars
  <1> QED
    BY <1>2, <1>4, <1>5, <1>6, <1>7

LEMMA EndsAppended ==
    ASSUME NEW S, NEW s \in Seq(S), LastEnds(s)
    PROVE  LastEnds(Append(s, EndOfStream)) /\ \E T : Append(s, EndOfStream) \in Seq(T)
  <1>1. Append(s, EndOfStream) \in Seq(S \cup {EndOfStream})
    <2>1. s \in Seq(S \cup {EndOfStream})
      BY SeqMonotonic
    <2> QED
      BY <2>1
  <1>2. /\ Len(s) \in Nat /\ DOMAIN s = 1..Len(s)
        /\ DOMAIN Append(s, EndOfStream) = 1..Len(s) + 1
        /\ \A k \in 1..Len(s) : Append(s, EndOfStream)[k] = s[k]
        /\ Append(s, EndOfStream)[Len(s) + 1] = EndOfStream
    OBVIOUS
  <1>3. ASSUME NEW i \in 1..Len(s) + 1, NEW j \in 1..Len(s) + 1, i < j,
               Append(s, EndOfStream)[i] = EndOfStream
        PROVE  Append(s, EndOfStream)[j] = EndOfStream
    <2>1. CASE j = Len(s) + 1
      BY <1>2, <2>1
    <2>2. CASE j # Len(s) + 1
      <3>1. i \in 1..Len(s) /\ j \in 1..Len(s)
        BY <1>2, <1>3, <2>2
      <3> QED
        BY <1>2, <1>3, <3>1 DEF LastEnds
    <2> QED
      BY <2>1, <2>2
  <1> QED
    BY <1>1, <1>2, <1>3 DEF LastEnds

LEMMA ResultsAppended ==
    ASSUME NEW S, NEW s \in Seq(S), NEW T, NEW t \in Seq(T), ~HasEnd(s), ~HasEnd(t)
    PROVE  ~HasEnd(s \o t) /\ \E U : s \o t \in Seq(U)
  <1>1. s \in Seq(S \cup T) /\ t \in Seq(S \cup T)
    BY SeqMonotonic
  <1>2. /\ s \o t \in Seq(S \cup T) /\ Len(s) \in Nat /\ Len(t) \in Nat
        /\ Len(s \o t) = Len(s) + Len(t)
        /\ \A k \in 1..Len(s) + Len(t) : (s \o t)[k] = IF k <= Len(s) THEN s[k] ELSE t[k - Len(s)]
    BY <1>1, ConcatProperties
  <1>3. ASSUME NEW k \in 1..Len(s) + Len(t)
        PROVE  (s \o t)[k] # EndOfStream
    <2>1. CASE k <= Len(s)
      <3>1. k \in DOMAIN s
        BY <1>2, <2>1
      <3> QED
        BY <1>2, <2>1, <3>1 DEF HasEnd
    <2>2. CASE ~(k <= Len(s))
      <3>1. k - Len(s) \in DOMAIN t
        BY <1>2, <2>2
      <3> QED
        BY <1>2, <2>2, <3>1 DEF HasEnd
    <2> QED
      BY <2>1, <2>2
  <1> QED
    BY <1>2, <1>3 DEF HasEnd

LEMMA PassedEndsKept ==
    ASSUME \A l, r, lwm : Combined(l, r, lwm) # EndOfStream
    PROVE  JoinAssumption /\ Flags /\ Queues /\ Rings /\ Rings' /\ PassedEnds /\ [Next]_vars => PassedEnds'
  <1> SUFFICES ASSUME JoinAssumption, Flags, Queues, Rings, Rings', PassedEnds, [Next]_vars
               PROVE  PassedEnds'
    OBVIOUS
  <1>0. \A side \in Sides : Other(side) \in Sides /\ Other(side) # side /\ Sides = {side, Other(side)}
    BY DEF Sides, Other
  <1>1. ASSUME UNCHANGED output, \A side \in Sides : Finished(side) => Finished(side)'
        PROVE  PassedEnds'
    BY <1>1 DEF PassedEnds, LastEnds, HasEnd
  <1>2. ASSUME NEW side \in Sides, Send(side) \/ SendEnd(side)
        PROVE  PassedEnds'
    <2>1. PICK tuple : Arrive(side, tuple)
      BY <1>2 DEF Send, SendEnd
    <2>2. \A each \in Sides : Finished(each) => each # side
      BY <2>1 DEF Arrive, Finished
    <2>3. /\ UNCHANGED <<output, needsTuple>>
          /\ \A each \in Sides \ {side} : sent'[each] = sent[each] /\ input'[each] = input[each]
      BY <2>1 DEF Arrive, Queues
    <2> QED
      BY <1>1, <2>2, <2>3 DEF Finished, Ended
  <1>3. ASSUME NEW side \in Sides, Skip(side)
        PROVE  PassedEnds'
    BY <1>1, <1>3 DEF Skip, Step, Finished, Ended
  <1>4. ASSUME NEW side \in Sides, Take(side)
        PROVE  /\ ~Finished(side) /\ UNCHANGED sent
               /\ needsTuple[side]
               /\ \A each \in Sides \ {side} : input'[each] = input[each]
               /\ input'[side] = Tail(input[side]) /\ input[side] # <<>>
    BY <1>4 DEF Take, Step, Reads, Finished, Queues
  <1>5. ASSUME NEW side \in Sides, PassEnd(side)
        PROVE  PassedEnds'
    <2>1. /\ Take(side) /\ Head(input[side]) = EndOfStream
          /\ output' = Append(output, EndOfStream) /\ UNCHANGED needsTuple
      BY <1>5 DEF PassEnd, Taken
    <2>2. input'[side] = <<>> /\ Ended(side)' /\ needsTuple'[side]
      BY <1>4, <2>1, BackedTaken DEF Queues, Ended
    <2>3. Finished(side)'
      BY <2>2 DEF Finished
    <2>4. LastEnds(output)' /\ \E S : output' \in Seq(S)
      BY <2>1, EndsAppended DEF PassedEnds
    <2> QED
      BY <2>3, <2>4 DEF PassedEnds
  <1>6. ASSUME NEW side \in Sides, Collect(side)
        PROVE  PassedEnds'
    <2>1. Take(side) /\ UNCHANGED <<output, needsTuple>>
      BY <1>6 DEF Collect, Process
    <2> QED
      BY <1>1, <1>4, <2>1 DEF Finished, Ended
  <1>7. ASSUME NEW side \in Sides, Accept(side)
        PROVE  PassedEnds'
    <2>1. Take(side) /\ UNCHANGED output /\ needsTuple' = [needsTuple EXCEPT ![side] = FALSE]
      BY <1>7 DEF Accept, Process
    <2> QED
      BY <1>1, <1>4, <2>1 DEF Finished, Ended, Flags
  <1>8. ASSUME NEW side \in Sides, Join(side)
        PROVE  PassedEnds'
    <2>1. /\ Take(side) /\ ~needsTuple[Other(side)]
          /\ output' = output \o JoinSynopsis(synopsis'["left"], synopsis'["right"])
      BY <1>8 DEF Join, Process, Joins
    <2>2. ~HasEnd(output)
      BY <1>0, <1>4, <2>1 DEF PassedEnds, Finished
    <2>3. PICK n \in Nat : DOMAIN synopsis'["right"].tuples = 0..n - 1
      <3>1. window'["right"] \in Windows /\ DOMAIN synopsis'["right"].tuples = 0..window'["right"].width - 1
        BY DEF Rings, Ring, Sides, Synopsis!Slots
      <3> QED
        BY <3>1 DEF JoinAssumption
    <2>4. PICK T : JoinSynopsis(synopsis'["left"], synopsis'["right"]) \in Seq(T)
      BY <2>3, ResultsAreResults
    <2>5. ~HasEnd(JoinSynopsis(synopsis'["left"], synopsis'["right"]))
      BY <2>3, ResultsAreResults DEF HasEnd
    <2>6. PICK S : output \in Seq(S)
      BY DEF PassedEnds
    <2>7. ~HasEnd(output') /\ \E U : output' \in Seq(U)
      BY <2>1, <2>2, <2>4, <2>5, <2>6, ResultsAppended
    <2> QED
      BY <2>7 DEF PassedEnds, LastEnds, HasEnd
  <1>9. CASE Redo
    <2>1. output' = <<>>
      BY <1>9 DEF Redo
    <2>2. output' \in Seq({}) /\ DOMAIN output' = {}
      BY <2>1
    <2> QED
      BY <2>2 DEF PassedEnds, LastEnds, HasEnd
  <1>10. CASE UNCHANGED vars
    BY <1>1, <1>10 DEF vars, Finished, Ended
  <1> QED
    BY <1>2, <1>3, <1>5, <1>6, <1>7, <1>8, <1>9, <1>10 DEF Next, NextImplementation

(* The end of either input passes on at once, yet no result comes after    *)
(* it, whatever the windows and the condition and however often the join   *)
(* is redone, if the value that stands for the end is no result            *)
(* (double-input-operator.h:35-66, operator-join.h:55-93).                 *)
THEOREM EndsComeLast ==
    ASSUME \A l, r, lwm : Combined(l, r, lwm) # EndOfStream
    PROVE  Spec => []EndFollowsResults
  <1>1. Init => EndInv
    <2> SUFFICES ASSUME Init
                 PROVE  EndInv
      OBVIOUS
    <2>1. Flags
      BY DEF Init, Flags
    <2>2. Queues
      BY DEF Init, Queues, Backed
    <2>3. Rings
      BY DEF Init, Rings, Ring, Synopsis!NewSynopsis
    <2>4. output \in Seq({}) /\ DOMAIN output = {}
      BY DEF Init
    <2> QED
      BY <2>1, <2>2, <2>3, <2>4 DEF EndInv, PassedEnds, LastEnds, HasEnd
  <1>2. EndInv /\ [Next]_vars => EndInv'
    <2> SUFFICES ASSUME EndInv, [Next]_vars
                 PROVE  EndInv'
      OBVIOUS
    <2>1. Flags'
      BY FlagsKept DEF EndInv
    <2>2. Queues' /\ Rings'
      BY QueuesKept, RingsKept DEF EndInv
    <2>3. PassedEnds'
      BY JoinAssumption, PassedEndsKept, <2>2 DEF EndInv
    <2> QED
      BY <2>1, <2>2, <2>3 DEF EndInv
  <1>3. EndInv => EndFollowsResults
    BY DEF EndInv, PassedEnds, LastEnds, EndFollowsResults
  <1> QED
    BY <1>1, <1>2, <1>3, PTL DEF Spec

-----------------------------------------------------------------------------
(* What PairsWindows and ResultsComeFromWindows need: where the tuples of  *)
(* a side are, counted in windows since the last redo.                     *)
Tuple == [number : Nat, arrived : Nat]

(* The shape of a synopsis; once a window has been completed, and also     *)
(* after a reset, every slot holds a tuple.                                *)
SynopsisType(win) ==
    [index : Synopsis!Slots(win), newcomers : Seq(Tuple),
     tuples : [Synopsis!Slots(win) -> Tuple \cup {NoTuple}],
     filled : BOOLEAN, beginning : Synopsis!Slots(win)]

Occupied(win, syn) == \A k \in Synopsis!Slots(win) : syn.tuples[k] \in Tuple

SynopsisOK(win, syn) ==
    /\ syn \in SynopsisType(win)
    /\ Len(syn.newcomers) < Synopsis!Needed(win, syn)
    /\ syn.filled => Occupied(win, syn)

SynopsesOK ==
    /\ DOMAIN synopsis = Sides /\ window \in [Sides -> Windows]
    /\ \A side \in Sides : /\ SynopsisOK(window[side], synopsis[side])
                           /\ ~needsTuple[side] => Occupied(window[side], synopsis[side])

(* A result and the two tuples it is made of                               *)
IsOf(result, l, r) ==
    /\ Matches(l, r)
    /\ result.left = l.number /\ result.right = r.number
    /\ result.arrived \in {l.arrived, r.arrived}
    /\ result.arrived <= l.arrived /\ result.arrived <= r.arrived

(* A result and the pair of windows it comes from                          *)
IsFrom(result, pair) ==
    /\ \E l \in DOMAIN pair["left"] : \E r \in DOMAIN pair["right"] :
           IsOf(result, pair["left"][l], pair["right"][r])
    /\ \A side \in Sides : \A k \in DOMAIN pair[side] : result.lwm <= pair[side][k].arrived
    /\ \E side \in Sides : \E k \in DOMAIN pair[side] : result.lwm = pair[side][k].arrived

ResultsInv ==
    /\ \E S : output \in Seq(S)
    /\ \E S : joined \in Seq(S)
    /\ \A i \in DOMAIN output : output[i] # EndOfStream =>
           \E n \in DOMAIN joined : IsFrom(output[i], joined[n])

(* What comes in before a side's nth window, and what has come in with it  *)
BeforeWindow(win, n) == (n - 1) * win.stride
UpToWindow(win, n) == IF n = 0 THEN 0 ELSE BeforeWindow(win, n) + win.width

(* After n windows, what has been taken of a side and is in no window yet  *)
(* is the newcomers, and the slots hold the nth window.                    *)
Contents(win, s, i, syn, n) ==
    /\ syn.filled <=> n > 0
    /\ UpToWindow(win, n) + Len(syn.newcomers) <= Len(s)
    /\ \A k \in 1..Len(syn.newcomers) : syn.newcomers[k] = s[UpToWindow(win, n) + k]
    /\ \/ Len(s) = UpToWindow(win, n) + Len(syn.newcomers) + Len(i)
       \/ s # <<>> /\ s[Len(s)] = EndOfStream /\ i = <<>>
    /\ n > 0 => \A j \in 1..win.width :
                    Synopsis!WindowOf(win, syn)[j] = s[BeforeWindow(win, n) + j]
    /\ n > 0 => s[UpToWindow(win, n)] # EndOfStream

(* How many windows of a side have been completed since the last redo      *)
Completed(side) == IF needsTuple[side] THEN Len(joined) ELSE Len(joined) + 1

InStep ==
    ~offBeat => /\ \A side \in Sides : Contents(window[side], sent[side], input[side],
                                                synopsis[side], Completed(side))
                /\ PairsWindows

JoinInv == Flags /\ Queues /\ SynopsesOK /\ ResultsInv /\ InStep

IsWindow(win) == win.width \in Nat /\ win.stride \in 1..win.width

(* A tuple that completes no window joins the newcomers.                   *)
LEMMA CollectedSynopsis ==
    ASSUME NEW win, IsWindow(win), NEW syn, SynopsisOK(win, syn), NEW t \in Tuple,
           ~Synopsis!Completes(win, syn),
           NEW next, next = Synopsis!Enqueued(win, syn, t)
    PROVE  /\ SynopsisOK(win, next)
           /\ next.filled = syn.filled /\ next.tuples = syn.tuples /\ next.index = syn.index
           /\ next.newcomers = Append(syn.newcomers, t)
  <1> DEFINE newcomers == Append(syn.newcomers, t)
  <1>1. syn = [index |-> syn.index, newcomers |-> syn.newcomers, tuples |-> syn.tuples,
               filled |-> syn.filled, beginning |-> syn.beginning]
        /\ syn.newcomers \in Seq(Tuple) /\ syn.filled \in BOOLEAN
        /\ syn.index \in Synopsis!Slots(win) /\ syn.beginning \in Synopsis!Slots(win)
        /\ syn.tuples \in [Synopsis!Slots(win) -> Tuple \cup {NoTuple}]
    BY DEF SynopsisOK, SynopsisType
  <1>2. newcomers \in Seq(Tuple) /\ Len(newcomers) = Len(syn.newcomers) + 1
    BY <1>1
  <1>3. next = [syn EXCEPT !.newcomers = newcomers]
    BY DEF Synopsis!Enqueued
  <1> HIDE DEF newcomers
  <1>4. next = [index |-> syn.index, newcomers |-> newcomers, tuples |-> syn.tuples,
                filled |-> syn.filled, beginning |-> syn.beginning]
    BY <1>1, <1>3
  <1>5. next \in SynopsisType(win)
    BY <1>1, <1>2, <1>4 DEF SynopsisType
  <1>6. /\ Synopsis!Needed(win, next) = Synopsis!Needed(win, syn)
        /\ Synopsis!Needed(win, syn) \in Nat
    BY <1>1, <1>4 DEF Synopsis!Needed, IsWindow
  <1>7. /\ Len(syn.newcomers) < Synopsis!Needed(win, syn) /\ Len(syn.newcomers) \in Nat
        /\ Len(syn.newcomers) + 1 # Synopsis!Needed(win, syn)
    BY <1>1 DEF SynopsisOK, Synopsis!Completes
  <1>8. Len(next.newcomers) < Synopsis!Needed(win, next)
    BY <1>2, <1>4, <1>6, <1>7
  <1>9. syn.filled => Occupied(win, syn)
    BY DEF SynopsisOK
  <1> QED
    BY <1>4, <1>5, <1>8, <1>9 DEF SynopsisOK, Occupied, newcomers

(* A window without its c oldest tuples, and the newcomers behind them     *)
Shifted(win, syn, newcomers, c) ==
    [j \in 1..win.width |-> IF j <= win.width - c THEN Synopsis!WindowOf(win, syn)[j + c]
                            ELSE newcomers[j - (win.width - c)]]

(* A tuple that completes a window: the slots hold the window, which is    *)
(* the one before without its oldest tuples, and the newcomers.            *)
LEMMA CompletedSynopsis ==
    ASSUME NEW win, IsWindow(win), NEW syn, SynopsisOK(win, syn), NEW t \in Tuple,
           Synopsis!Completes(win, syn)
    PROVE  /\ SynopsisOK(win, Synopsis!Enqueued(win, syn, t))
           /\ Synopsis!Enqueued(win, syn, t).filled
           /\ Synopsis!Enqueued(win, syn, t).newcomers = <<>>
           /\ Occupied(win, Synopsis!Enqueued(win, syn, t))
           /\ Len(Append(syn.newcomers, t)) = Synopsis!Needed(win, syn)
           /\ Synopsis!Needed(win, syn) \in 1..win.width
           /\ Synopsis!WindowOf(win, Synopsis!Enqueued(win, syn, t)) =
                  Shifted(win, syn, Append(syn.newcomers, t), Synopsis!Needed(win, syn))
  <1> DEFINE next == Synopsis!Enqueued(win, syn, t)
             c == Synopsis!Needed(win, syn)
             newcomers == Append(syn.newcomers, t)
  <1>0. /\ next = Synopsis!Enqueued(win, syn, t) /\ c = Synopsis!Needed(win, syn)
        /\ newcomers = Append(syn.newcomers, t)
    OBVIOUS
  <1> USE <1>0
  <1> HIDE DEF next, c, newcomers
  <1> DEFINE w == win.width
             s == win.stride
             i == syn.index
             Offset(k) == IF k >= i THEN k - i ELSE k - i + w
             slots == [k \in Synopsis!Slots(win) |->
                          IF Offset(k) < c THEN newcomers[Offset(k) + 1] ELSE syn.tuples[k]]
             After(k, n) == IF k + n < w THEN k + n ELSE k + n - w
  <1>1. /\ syn.newcomers \in Seq(Tuple) /\ syn.filled \in BOOLEAN
        /\ i \in 0..w - 1 /\ w \in Nat /\ s \in 1..w
        /\ syn.tuples \in [Synopsis!Slots(win) -> Tuple \cup {NoTuple}]
        /\ Len(syn.newcomers) + 1 = c
        /\ syn.filled => \A k \in Synopsis!Slots(win) : syn.tuples[k] \in Tuple
    BY DEF SynopsisOK, SynopsisType, IsWindow, Occupied, Synopsis!Slots, Synopsis!Completes
  <1>2. newcomers \in Seq(Tuple) /\ Len(newcomers) = c /\ DOMAIN newcomers = 1..c
    <2>1. newcomers \in Seq(Tuple) /\ Len(newcomers) = Len(syn.newcomers) + 1
      BY <1>1
    <2> QED
      BY <1>1, <2>1
  <1>3. c = IF syn.filled THEN s ELSE w
    BY DEF Synopsis!Needed
  <1>4. c \in 1..w
    BY <1>1, <1>3
  <1>5. next = [index |-> Synopsis!SlotAfter(win, i, Len(newcomers)), newcomers |-> <<>>,
                tuples |-> slots, filled |-> TRUE, beginning |-> Synopsis!Beginning(win, syn)]
    BY <1>2 DEF Synopsis!Enqueued, Synopsis!Accepted
  <1>6. \A n, m : Synopsis!SlotAfter(win, n, m) = After(n, m)
    BY DEF Synopsis!SlotAfter
  <1>7. ASSUME NEW k \in 0..w - 1, NEW n \in 0..w
        PROVE  After(k, n) \in 0..w - 1
    <2> HIDE DEF w
    <2> QED
      BY <1>1, <1>7
  <1>8. /\ Synopsis!SlotAfter(win, i, c) = After(i, c) /\ After(i, c) \in 0..w - 1
        /\ Synopsis!Beginning(win, syn) \in Synopsis!Slots(win)
        /\ Synopsis!Slots(win) = 0..w - 1
    <2>1. c \in 0..w /\ s \in 0..w
      BY <1>1, <1>4
    <2> HIDE DEF After
    <2> QED
      BY <1>1, <1>6, <1>7, <2>1 DEF Synopsis!Beginning, Synopsis!Slots
  <1>9. \A k \in 0..w - 1 : Offset(k) \in 0..w - 1
    <2> HIDE DEF i, w
    <2> QED
      BY <1>1
  <1>10. \A k \in Synopsis!Slots(win) : slots[k] \in Tuple
    <2>1. SUFFICES ASSUME NEW k \in Synopsis!Slots(win) PROVE slots[k] \in Tuple
      OBVIOUS
    <2> DEFINE o == Offset(k)
    <2>2. o \in 0..w - 1 /\ slots[k] = IF o < c THEN newcomers[o + 1] ELSE syn.tuples[k]
      BY <1>8, <1>9, <2>1
    <2> HIDE DEF slots, o
    <2>3. CASE o < c
      <3>1. o + 1 \in 1..c
        BY <1>4, <2>2, <2>3
      <3> QED
        BY <1>2, <2>2, <2>3, <3>1
    <2>4. CASE ~(o < c)
      BY <1>1, <1>3, <2>1, <2>2, <2>4
    <2> QED
      BY <2>3, <2>4
  <1>11. next \in SynopsisType(win) /\ next.tuples = slots /\ next.filled = TRUE
         /\ next.newcomers = <<>> /\ next.index = After(i, c)
    <2>1. slots \in [Synopsis!Slots(win) -> Tuple \cup {NoTuple}]
      BY <1>10
    <2>2. <<>> \in Seq(Tuple)
      OBVIOUS
    <2>3. Synopsis!SlotAfter(win, i, Len(newcomers)) = After(i, c)
      BY <1>2, <1>8
    <2> HIDE DEF slots, i, After
    <2>4. next = [index |-> After(i, c), newcomers |-> <<>>, tuples |-> slots,
                  filled |-> TRUE, beginning |-> Synopsis!Beginning(win, syn)]
      BY <1>5, <2>3
    <2> QED
      BY <1>8, <2>1, <2>2, <2>4 DEF SynopsisType
  <1>12. Occupied(win, next)
    <2> HIDE DEF slots
    <2> QED
      BY <1>10, <1>11 DEF Occupied
  <1>13. SynopsisOK(win, next)
    <2>1. Synopsis!Needed(win, next) = s /\ Len(<<>>) = 0
      BY <1>11 DEF Synopsis!Needed
    <2> HIDE DEF slots, s
    <2> QED
      BY <1>1, <1>11, <1>12, <2>1 DEF SynopsisOK
  <1>14. ASSUME NEW j \in 1..w
         PROVE  Synopsis!WindowOf(win, next)[j] =
                    IF j <= w - c THEN Synopsis!WindowOf(win, syn)[j + c] ELSE newcomers[j - (w - c)]
    <2> DEFINE k == After(After(i, c), j - 1)
    <2> DEFINE o == Offset(k)
    <2>0. /\ j <= w - c => o = c + j - 1 /\ ~(o < c) /\ k = After(i, j + c - 1)
          /\ ~(j <= w - c) => o + 1 = j - (w - c) /\ o < c
      <3> DEFINE a == After(i, c)
      <3>1. /\ a = IF i + c < w THEN i + c ELSE i + c - w
            /\ k = IF a + (j - 1) < w THEN a + (j - 1) ELSE a + (j - 1) - w
            /\ o = IF k >= i THEN k - i ELSE k - i + w
        OBVIOUS
      <3>2. After(i, j + c - 1) = IF i + (j + c - 1) < w THEN i + (j + c - 1) ELSE i + (j + c - 1) - w
        OBVIOUS
      <3>3. w \in Nat /\ i \in 0..w - 1 /\ c \in 1..w /\ j \in 1..w
        BY <1>1, <1>4
      <3> HIDE DEF o, k, a, After, Offset, i, w
      <3> QED
        <4>01. i \in Int /\ c \in Int /\ w \in Int /\ j \in Int
          BY <3>3
        <4>02. a \in Int
          BY <4>01, <3>1
        <4>03. k \in Int
          BY <4>01, <4>02, <3>1
        <4>1. a \in Int /\ k \in Int /\ o \in Int
          BY <4>01, <4>02, <4>03, <3>1
        <4> QED
          <5>1. 0 <= i /\ i < w /\ 1 <= c /\ c <= w /\ 1 <= j /\ j <= w
            BY <3>3
          <5>2. CASE i + c < w
            BY ONLY <3>1, <3>2, <4>01, <4>1, <5>1, <5>2
          <5>3. CASE ~(i + c < w)
            BY ONLY <3>1, <3>2, <4>01, <4>1, <5>1, <5>3
          <5> QED
            BY <5>2, <5>3
    <2>1. Synopsis!WindowOf(win, next)[j] = next.tuples[k]
      <3>1. Synopsis!SlotAfter(win, next.index, j - 1) = k
        <4> HIDE DEF After
        <4> QED
          BY <1>6, <1>11
      <3> HIDE DEF k, slots, i
      <3> QED
        BY <3>1 DEF Synopsis!WindowOf
    <2>2. k \in 0..w - 1
      <3>1. j - 1 \in 0..w
        BY <1>1, <1>14
      <3> HIDE DEF After
      <3> QED
        BY <1>7, <1>8, <3>1
    <2>3. next.tuples[k] = IF o < c THEN newcomers[o + 1] ELSE syn.tuples[k]
      <3> HIDE DEF k
      <3> QED
        BY <1>8, <1>11, <2>2
    <2>4. CASE j <= w - c
      <3>1. j + c \in 1..w /\ (j + c) - 1 = j + c - 1
        BY <1>1, <1>4, <2>4
      <3>2. Synopsis!WindowOf(win, syn)[j + c] = syn.tuples[Synopsis!SlotAfter(win, i, j + c - 1)]
        <4> HIDE DEF i
        <4> DEFINE m == j + c
        <4>1. m \in 1..w
          BY <3>1
        <4> HIDE DEF m
        <4>2. Synopsis!WindowOf(win, syn)[m] = syn.tuples[Synopsis!SlotAfter(win, i, m - 1)]
          BY <4>1 DEF Synopsis!WindowOf, i
        <4> QED
          BY <3>1, <4>2 DEF m
      <3>3. Synopsis!SlotAfter(win, i, j + c - 1) = k
        <4> HIDE DEF k, After, Offset, i
        <4> QED
          BY <1>6, <2>0, <2>4
      <3> HIDE DEF k, o, i, slots
      <3> QED
        BY <2>0, <2>1, <2>3, <2>4, <3>2, <3>3
    <2>5. CASE ~(j <= w - c)
      <3> HIDE DEF k, o, slots
      <3> QED
        BY <2>0, <2>1, <2>3, <2>5
    <2> QED
      BY <2>4, <2>5
  <1>15. Synopsis!WindowOf(win, next) = Shifted(win, syn, newcomers, c)
    <2>1. DOMAIN Synopsis!WindowOf(win, next) = 1..w /\ DOMAIN Shifted(win, syn, newcomers, c) = 1..w
      BY DEF Synopsis!WindowOf, Shifted
    <2>2. /\ Synopsis!WindowOf(win, next) = [j \in 1..w |-> Synopsis!WindowOf(win, next)[j]]
      BY DEF Synopsis!WindowOf
    <2> HIDE DEF slots
    <2> QED
      BY <1>14, <2>2 DEF Shifted
  <1> HIDE DEF slots
  <1> QED
    BY <1>2, <1>4, <1>11, <1>12, <1>13, <1>15 DEF next, c, newcomers

LEMMA ResetSynopsisOK ==
    ASSUME NEW win, IsWindow(win), NEW syn \in SynopsisType(win),
           NEW reset, reset = Synopsis!Reset(syn)
    PROVE  /\ SynopsisOK(win, reset) /\ reset.filled = FALSE
           /\ reset.newcomers = <<>> /\ reset.tuples = syn.tuples
  <1>1. <<>> \in Seq(Tuple) /\ Len(<<>>) = 0 /\ 0 \in Synopsis!Slots(win)
    BY DEF Synopsis!Slots, IsWindow
  <1>2. syn = [index |-> syn.index, newcomers |-> syn.newcomers, tuples |-> syn.tuples,
               filled |-> syn.filled, beginning |-> syn.beginning]
        /\ syn.tuples \in [Synopsis!Slots(win) -> Tuple \cup {NoTuple}]
    BY DEF SynopsisType
  <1>3. reset = [index |-> 0, newcomers |-> <<>>, tuples |-> syn.tuples, filled |-> FALSE,
                 beginning |-> 0]
    <2>1. reset = [syn EXCEPT !.index = 0, !.newcomers = <<>>, !.filled = FALSE, !.beginning = 0]
      BY DEF Synopsis!Reset
    <2> QED
      BY <1>2, <2>1
  <1>4. reset \in SynopsisType(win) /\ reset.filled = FALSE /\ reset.newcomers = <<>>
        /\ reset.tuples = syn.tuples
    BY <1>1, <1>2, <1>3 DEF SynopsisType
  <1>5. Synopsis!Needed(win, reset) = win.width
    BY <1>4 DEF Synopsis!Needed
  <1> QED
    BY <1>1, <1>4, <1>5 DEF SynopsisOK, IsWindow

LEMMA NewSynopsisOK ==
    ASSUME NEW win, IsWindow(win), NEW syn, syn = Synopsis!NewSynopsis(win)
    PROVE  SynopsisOK(win, syn) /\ syn.newcomers = <<>> /\ syn.filled = FALSE
  <1>1. /\ syn.newcomers = <<>> /\ syn.filled = FALSE
        /\ <<>> \in Seq(Tuple) /\ Len(<<>>) = 0
    BY DEF Synopsis!NewSynopsis
  <1>2. syn \in SynopsisType(win)
    BY DEF Synopsis!NewSynopsis, SynopsisType, Synopsis!Slots, IsWindow
  <1>3. Synopsis!Needed(win, syn) = win.width
    BY <1>1 DEF Synopsis!Needed
  <1> QED
    BY <1>1, <1>2, <1>3 DEF SynopsisOK, IsWindow

(* How the windows of a side follow each other.                            *)
LEMMA NextWindow ==
    ASSUME NEW win, IsWindow(win), NEW n \in Nat
    PROVE  /\ UpToWindow(win, n) \in Nat /\ BeforeWindow(win, n + 1) \in Nat
           /\ UpToWindow(win, n + 1) = BeforeWindow(win, n + 1) + win.width
           /\ n = 0 => UpToWindow(win, n) = 0 /\ BeforeWindow(win, n + 1) = 0
           /\ n > 0 => /\ BeforeWindow(win, n) \in Nat
                       /\ UpToWindow(win, n) = BeforeWindow(win, n) + win.width
                       /\ BeforeWindow(win, n + 1) = BeforeWindow(win, n) + win.stride
  <1>1. win.width \in Nat /\ win.stride \in Nat /\ 1 <= win.stride /\ win.stride <= win.width
    BY DEF IsWindow
  <1>2. ASSUME NEW m \in Nat, NEW s \in Nat
        PROVE  m * s \in Nat /\ (m + 1) * s = m * s + s
    BY <1>2
  <1>3. (n + 1) - 1 = n /\ n + 1 # 0
    OBVIOUS
  <1>4. BeforeWindow(win, n + 1) = n * win.stride
    BY <1>3 DEF BeforeWindow
  <1>5. n * win.stride \in Nat
    BY <1>1, <1>2
  <1>6. UpToWindow(win, n + 1) = BeforeWindow(win, n + 1) + win.width
    BY <1>3 DEF UpToWindow
  <1>7. CASE n = 0
    <2>1. 0 * win.stride = 0
      BY <1>1
    <2> QED
      BY <1>4, <1>5, <1>6, <1>7, <2>1 DEF UpToWindow
  <1>8. CASE n # 0
    <2>1. PICK m \in Nat : n = m + 1
      <3>1. n - 1 \in Nat /\ n = (n - 1) + 1
        BY <1>8
      <3> QED
        BY <3>1
    <2>2. BeforeWindow(win, n) = m * win.stride
      <3>1. n - 1 = m
        BY <2>1
      <3> QED
        BY <3>1 DEF BeforeWindow
    <2>3. UpToWindow(win, n) = BeforeWindow(win, n) + win.width
      BY <1>8 DEF UpToWindow
    <2>4. n * win.stride = m * win.stride + win.stride /\ m * win.stride \in Nat
      BY <1>1, <1>2, <2>1
    <2> DEFINE before == m * win.stride
    <2>5. before \in Nat /\ before + win.width \in Nat
      BY <1>1, <2>4
    <2> QED
      BY <1>4, <1>5, <1>6, <1>8, <2>2, <2>3, <2>4, <2>5
  <1> QED
    BY <1>7, <1>8

LEMMA NewContents ==
    ASSUME NEW win, NEW s \in Seq(Item), NEW syn, syn.filled = FALSE, syn.newcomers = <<>>
    PROVE  Contents(win, s, s, syn, 0)
  <1>1. /\ Len(<<>>) = 0 /\ Len(s) \in Nat /\ ~(0 > 0)
        /\ UpToWindow(win, 0) = 0
    BY DEF UpToWindow
  <1>2. ASSUME NEW k \in 1..0 PROVE FALSE
    BY <1>2
  <1> QED
    BY <1>1, <1>2 DEF Contents

(* What comes in comes in behind what is taken.                            *)
LEMMA ContentsOfArrived ==
    ASSUME NEW win, IsWindow(win), NEW s, NEW i, NEW syn, NEW n \in Nat, NEW tuple \in Item,
           Backed(s, i), Contents(win, s, i, syn, n), syn.newcomers \in Seq(Tuple),
           ~(s # <<>> /\ s[Len(s)] = EndOfStream)
    PROVE  Contents(win, Append(s, tuple), Append(i, tuple), syn, n)
  <1> DEFINE upTo == UpToWindow(win, n)
             before == BeforeWindow(win, n)
             news == syn.newcomers
             len == Len(s)
             all == Append(s, tuple)
             rest == Append(i, tuple)
  <1>1. /\ upTo \in Nat /\ Len(news) \in Nat /\ len \in Nat /\ Len(i) \in Nat
        /\ Len(all) = len + 1 /\ Len(rest) = Len(i) + 1
        /\ \A k \in 1..len : all[k] = s[k]
    <2>1. UpToWindow(win, n) \in Nat
      BY NextWindow
    <2>2. s \in Seq(Item) /\ i \in Seq(Item)
      BY DEF Backed
    <2>3. Len(news) \in Nat
      OBVIOUS
    <2>4. /\ Len(s) \in Nat /\ Len(Append(s, tuple)) = Len(s) + 1
          /\ \A k \in 1..Len(s) : Append(s, tuple)[k] = s[k]
      BY <2>2, AppendProperties
    <2>5. Len(i) \in Nat /\ Len(Append(i, tuple)) = Len(i) + 1
      BY <2>2, AppendProperties
    <2> QED
      BY <2>1, <2>3, <2>4, <2>5
  <1>2. /\ syn.filled <=> n > 0
        /\ upTo + Len(news) <= len
        /\ \A k \in 1..Len(news) : news[k] = s[upTo + k]
        /\ len = upTo + Len(news) + Len(i)
        /\ n > 0 => \A j \in 1..win.width : Synopsis!WindowOf(win, syn)[j] = s[before + j]
        /\ n > 0 => s[upTo] # EndOfStream
    BY DEF Contents
  <1>3. n > 0 => before \in Nat /\ upTo = before + win.width /\ win.width \in Nat \ {0}
    <2>1. n > 0 => /\ BeforeWindow(win, n) \in Nat
                   /\ UpToWindow(win, n) = BeforeWindow(win, n) + win.width
      BY NextWindow
    <2>2. win.width \in Nat \ {0}
      BY DEF IsWindow
    <2> QED
      BY <2>1, <2>2
  <1> HIDE DEF upTo, before, news, len, all, rest
  <1>4. \A k \in 1..Len(news) : all[upTo + k] = s[upTo + k]
    <2>1. \A k \in 1..Len(news) : upTo + k \in 1..len
      BY <1>1, <1>2
    <2> QED
      BY <1>1, <2>1
  <1>5. n > 0 => \A j \in 1..win.width : all[before + j] = s[before + j]
    <2>1. n > 0 => \A j \in 1..win.width : before + j \in 1..len
      BY ONLY <1>1, <1>2, <1>3, n \in Nat
    <2> QED
      BY <1>1, <2>1
  <1>6. n > 0 => all[upTo] = s[upTo]
    <2>1. n > 0 => upTo \in 1..len
      BY <1>1, <1>2, <1>3
    <2> QED
      BY <1>1, <2>1
  <1>7. Len(all) = upTo + Len(news) + Len(rest) /\ upTo + Len(news) <= Len(all)
    BY <1>1, <1>2
  <1> QED
    BY <1>2, <1>4, <1>5, <1>6, <1>7 DEF Contents, upTo, before, news, all, rest

(* The end of a stream leaves the synopsis alone.                          *)
LEMMA ContentsOfEnded ==
    ASSUME NEW win, NEW s, NEW i, NEW syn, NEW n \in Nat,
           Backed(s, i), Contents(win, s, i, syn, n), i # <<>>, Head(i) = EndOfStream
    PROVE  Contents(win, s, Tail(i), syn, n)
  <1>1. Tail(i) = <<>> /\ s # <<>> /\ s[Len(s)] = EndOfStream
    BY BackedTaken
  <1> QED
    BY <1>1 DEF Contents

(* The tuple that is taken next is the one after the newcomers.            *)
LEMMA NextOfContents ==
    ASSUME NEW win, IsWindow(win), NEW s, NEW i, NEW syn, NEW n \in Nat,
           Backed(s, i), Contents(win, s, i, syn, n), syn.newcomers \in Seq(Tuple), i # <<>>
    PROVE  /\ Head(i) = s[UpToWindow(win, n) + Len(syn.newcomers) + 1]
           /\ UpToWindow(win, n) + Len(syn.newcomers) + 1 <= Len(s)
           /\ Len(s) = UpToWindow(win, n) + (Len(syn.newcomers) + 1) + Len(Tail(i))
  <1> DEFINE upTo == UpToWindow(win, n)
             got == Len(syn.newcomers)
             len == Len(s)
             left == Len(i)
  <1>1. /\ i \in Seq(Item) /\ left \in Nat \ {0} /\ Head(i) = i[1]
        /\ Len(Tail(i)) = left - 1 /\ len \in Nat
    BY DEF Backed
  <1>2. got \in Nat
    OBVIOUS
  <1>3. upTo \in Nat
    BY NextWindow
  <1>4. len = upTo + got + left
    BY DEF Contents
  <1>5. \A k \in 1..left : i[k] = s[len - left + k]
    BY DEF Backed
  <1> HIDE DEF upTo, got, len, left
  <1>6. 1 \in 1..left /\ len - left + 1 = upTo + got + 1
    BY ONLY <1>1, <1>2, <1>3, <1>4
  <1>7. i[1] = s[upTo + got + 1]
    BY <1>5, <1>6
  <1>8. upTo + got + 1 <= len /\ len = upTo + (got + 1) + (left - 1)
    BY ONLY <1>1, <1>2, <1>3, <1>4
  <1> QED
    BY <1>1, <1>7, <1>8 DEF upTo, got, len, left

LEMMA ContentsOfCollected ==
    ASSUME NEW win, IsWindow(win), NEW s, NEW i, NEW syn, NEW n \in Nat,
           Backed(s, i), Contents(win, s, i, syn, n), SynopsisOK(win, syn), i # <<>>,
           Head(i) \in Tuple, ~Synopsis!Completes(win, syn),
           NEW next, next = Synopsis!Enqueued(win, syn, Head(i))
    PROVE  Contents(win, s, Tail(i), next, n)
  <1> DEFINE upTo == UpToWindow(win, n)
             news == syn.newcomers
             more == Append(news, Head(i))
             got == Len(news)
             len == Len(s)
  <1>1. /\ next.filled = syn.filled /\ next.tuples = syn.tuples /\ next.index = syn.index
        /\ next.newcomers = more
    BY CollectedSynopsis
  <1>2. news \in Seq(Tuple)
    BY DEF SynopsisOK, SynopsisType
  <1>3. /\ Len(more) = got + 1 /\ got \in Nat /\ more[got + 1] = Head(i)
        /\ \A k \in 1..got : more[k] = news[k]
    BY <1>2, AppendProperties
  <1>4. /\ Head(i) = s[upTo + got + 1] /\ upTo + got + 1 <= len
        /\ len = upTo + (got + 1) + Len(Tail(i))
    BY <1>2, NextOfContents
  <1>5. upTo \in Nat
    BY NextWindow
  <1>6. len \in Nat
    BY DEF Backed
  <1>7. \A k \in 1..got : news[k] = s[upTo + k]
    BY DEF Contents
  <1>8. Synopsis!WindowOf(win, next) = Synopsis!WindowOf(win, syn)
    BY <1>1 DEF Synopsis!WindowOf
  <1>9. /\ next.filled <=> n > 0
        /\ n > 0 => \A j \in 1..win.width :
                        Synopsis!WindowOf(win, next)[j] = s[BeforeWindow(win, n) + j]
        /\ n > 0 => s[upTo] # EndOfStream
    BY <1>1, <1>8 DEF Contents
  <1> HIDE DEF more, upTo, got, len, news
  <1>10. ASSUME NEW k \in 1..got + 1
         PROVE  more[k] = s[upTo + k]
    <2>1. CASE k = got + 1
      <3>1. upTo + k = upTo + got + 1
        BY <1>3, <1>5, <2>1
      <3> QED
        BY <1>3, <1>4, <2>1, <3>1
    <2>2. CASE k # got + 1
      <3>1. k \in 1..got
        BY <1>3, <2>2
      <3> QED
        BY <1>3, <1>7, <3>1
    <2> QED
      BY <2>1, <2>2
  <1>11. upTo + (got + 1) <= len
    <2>1. upTo + got + 1 <= len
      BY <1>4
    <2>2. got \in Nat
      BY <1>3
    <2> QED
      BY ONLY <1>5, <1>6, <2>1, <2>2
  <1> DEFINE count == got + 1
  <1>12. /\ Len(next.newcomers) = count /\ next.newcomers = more
         /\ \A k \in 1..count : more[k] = s[upTo + k]
         /\ upTo + count <= len /\ len = upTo + count + Len(Tail(i))
    BY <1>1, <1>3, <1>4, <1>10, <1>11
  <1> HIDE DEF count
  <1> QED
    BY <1>9, <1>12 DEF Contents, upTo, len

(* The newcomers and the tuple that completes the window go to the end of  *)
(* the slots: they hold the next window.                                   *)
LEMMA ContentsOfCompleted ==
    ASSUME NEW win, IsWindow(win), NEW s, NEW i, NEW syn, NEW n \in Nat,
           Backed(s, i), Contents(win, s, i, syn, n), SynopsisOK(win, syn), i # <<>>,
           Head(i) \in Tuple, Head(i) # EndOfStream, Synopsis!Completes(win, syn),
           NEW next, next = Synopsis!Enqueued(win, syn, Head(i))
    PROVE  Contents(win, s, Tail(i), next, n + 1)
  <1> DEFINE upTo == UpToWindow(win, n)
             news == syn.newcomers
             more == Append(news, Head(i))
             got == Len(news)
             len == Len(s)
             c == Synopsis!Needed(win, syn)
             w == win.width
             from == BeforeWindow(win, n + 1)
  <1>1. /\ next.filled /\ next.newcomers = <<>> /\ Len(more) = c /\ c \in 1..w
        /\ \A j \in 1..w :
               Synopsis!WindowOf(win, next)[j] =
                   IF j <= w - c THEN Synopsis!WindowOf(win, syn)[j + c] ELSE more[j - (w - c)]
    <2>1. Head(i) \in Tuple
      OBVIOUS
    <2>2. next.filled /\ next.newcomers = <<>>
      BY <2>1, CompletedSynopsis
    <2>3. Len(more) = c /\ c \in 1..w
      BY <2>1, CompletedSynopsis
    <2>5. Synopsis!WindowOf(win, next) = Shifted(win, syn, more, c)
      BY <2>1, CompletedSynopsis
    <2>6. \A j \in 1..w :
               Synopsis!WindowOf(win, next)[j] =
                   IF j <= w - c THEN Synopsis!WindowOf(win, syn)[j + c] ELSE more[j - (w - c)]
      BY <2>5 DEF Shifted, w
    <2> QED
      BY <2>2, <2>3, <2>6
  <1>2. news \in Seq(Tuple)
    BY DEF SynopsisOK, SynopsisType
  <1>3. /\ Len(more) = got + 1 /\ got \in Nat /\ more[got + 1] = Head(i)
        /\ \A k \in 1..got : more[k] = news[k]
    BY <1>2, AppendProperties
  <1>4. /\ Head(i) = s[upTo + got + 1] /\ upTo + got + 1 <= len
        /\ len = upTo + (got + 1) + Len(Tail(i))
    BY <1>2, NextOfContents
  <1>5. /\ upTo \in Nat /\ from \in Nat /\ UpToWindow(win, n + 1) = from + w
        /\ n = 0 => upTo = 0 /\ from = 0
        /\ n > 0 => /\ BeforeWindow(win, n) \in Nat /\ upTo = BeforeWindow(win, n) + w
                    /\ from = BeforeWindow(win, n) + win.stride
    BY NextWindow
  <1>6. len \in Nat /\ w \in Nat /\ win.stride \in 1..w /\ Len(Tail(i)) \in Nat
    BY DEF Backed, IsWindow
  <1>7. /\ \A k \in 1..got : news[k] = s[upTo + k]
        /\ syn.filled <=> n > 0
        /\ n > 0 => \A j \in 1..w : Synopsis!WindowOf(win, syn)[j] = s[BeforeWindow(win, n) + j]
    BY DEF Contents
  <1>8. c = IF n > 0 THEN win.stride ELSE w
    BY <1>7 DEF Synopsis!Needed
  <1> DEFINE up == from + w
             stride == win.stride
             before == BeforeWindow(win, n)
  <1> HIDE DEF more, upTo, got, len, news, c, from, w, stride, before
  <1>9. up = upTo + c /\ got + 1 = c /\ from = upTo + c - w
    <2>1. CASE n = 0
      <3>1. /\ c = w /\ upTo = 0 /\ from = 0 /\ got + 1 = c
        <4>1. c = w
          BY <1>8, <2>1
        <4>2. upTo = 0 /\ from = 0
          BY <1>5, <2>1
        <4>3. got + 1 = c
          BY <1>1, <1>3
        <4> QED
          BY <4>1, <4>2, <4>3
      <3> QED
        BY <1>6, <3>1
    <2>2. CASE n > 0
      <3>1. /\ c = stride /\ stride \in Nat /\ before \in Nat /\ upTo = before + w
            /\ from = before + stride
        BY <1>5, <1>6, <1>8, <2>2 DEF stride, before
      <3>2. got + 1 = c
        BY <1>1, <1>3
      <3> QED
        BY ONLY <1>6, <3>1, <3>2
    <2> QED
      BY <2>1, <2>2
  <1>10. ASSUME NEW k \in 1..c
         PROVE  more[k] = s[upTo + k]
    <2>1. CASE k = got + 1
      <3>1. upTo + k = upTo + got + 1
        BY <1>3, <1>5, <2>1
      <3> QED
        BY <1>3, <1>4, <2>1, <3>1
    <2>2. CASE k # got + 1
      <3>1. k \in 1..got
        BY <1>3, <1>9, <2>2
      <3> QED
        BY <1>3, <1>7, <3>1
    <2> QED
      BY <2>1, <2>2
  <1>11. ASSUME NEW j \in 1..w
         PROVE  Synopsis!WindowOf(win, next)[j] = s[from + j]
    <2>1. CASE j <= w - c
      <3>1. n > 0 /\ c = stride
        <4>1. n = 0 => c = w
          BY <1>8
        <4>2. c = w => FALSE
          BY ONLY <1>6, <2>1, j \in 1..w
        <4> QED
          BY <1>8, <4>1, <4>2 DEF stride
      <3>2. j + c \in 1..w /\ before + (j + c) = from + j
        <4>1. before \in Nat /\ from = before + stride
          BY <1>5, <3>1 DEF before, stride
        <4>2. c \in 1..w /\ w \in Nat
          BY <1>1, <1>6
        <4> QED
          BY ONLY <2>1, <3>1, <4>1, <4>2, j \in 1..w
      <3>3. Synopsis!WindowOf(win, syn)[j + c] = s[before + (j + c)]
        BY <1>7, <3>1, <3>2 DEF before
      <3> QED
        BY <1>1, <2>1, <3>2, <3>3
    <2>2. CASE ~(j <= w - c)
      <3>1. j - (w - c) \in 1..c /\ upTo + (j - (w - c)) = from + j
        BY ONLY <1>1, <1>5, <1>6, <1>9, <2>2, j \in 1..w
      <3> QED
        BY <1>1, <1>10, <2>2, <3>1
    <2> QED
      BY <2>1, <2>2
  <1>12. up <= len /\ len = up + 0 + Len(Tail(i)) /\ up + 0 <= len
    <2> DEFINE rest == Len(Tail(i))
    <2>1. upTo + got + 1 <= len /\ len = upTo + (got + 1) + rest /\ rest \in Nat
      BY <1>4, <1>6
    <2> HIDE DEF rest
    <2>2. up \in Nat /\ len = up + rest
      <3>1. up = upTo + c /\ got + 1 = c /\ c \in Nat
        BY <1>1, <1>9
      <3> QED
        BY ONLY <1>5, <2>1, <3>1
    <2>3. up <= len /\ len = up + 0 + rest /\ up + 0 <= len
      BY ONLY <1>6, <2>1, <2>2
    <2> QED
      BY <2>3 DEF rest
  <1>13. s[up] # EndOfStream
    <2>1. up = upTo + got + 1
      BY ONLY <1>1, <1>3, <1>5, <1>6, <1>9
    <2> QED
      BY <1>4, <2>1
  <1>14. /\ Len(<<>>) = 0 /\ n + 1 > 0
         /\ \A k \in 1..0 : FALSE
    OBVIOUS
  <1> HIDE DEF up
  <1>15. UpToWindow(win, n + 1) = up
    BY <1>5 DEF up
  <1> QED
    BY <1>1, <1>11, <1>12, <1>13, <1>14, <1>15 DEF Contents, from, len, w

(* The window that the slots hold is the nth of the stream.                *)
LEMMA WindowTaken ==
    ASSUME NEW side \in Sides, NEW n \in Nat, n > 0, IsWindow(window[side]),
           sent[side] \in Seq(Item), NEW i, NEW syn, syn.newcomers \in Seq(Tuple),
           Contents(window[side], sent[side], i, syn, n)
    PROVE  /\ HasArrived(side, n)
           /\ Synopsis!WindowOf(window[side], syn) = NthWindow(side, n)
  <1> DEFINE win == window[side]
             s == sent[side]
             got == Len(syn.newcomers)
             len == Len(s)
  <1>1. UpToWindow(win, n) = (n - 1) * win.stride + win.width
        /\ BeforeWindow(win, n) = (n - 1) * win.stride
    BY DEF UpToWindow, BeforeWindow
  <1>2. UpToWindow(win, n) + got <= len /\ s[UpToWindow(win, n)] # EndOfStream
    BY DEF Contents
  <1>3. UpToWindow(win, n) \in Nat /\ got \in Nat /\ len \in Nat
    <2>1. UpToWindow(win, n) \in Nat
      BY NextWindow
    <2> QED
      BY <2>1
  <1>4. len >= UpToWindow(win, n)
    <2> HIDE DEF got, len
    <2> DEFINE up == UpToWindow(win, n)
    <2> HIDE DEF up
    <2> QED
      BY ONLY <1>2, <1>3 DEF up
  <1>5. HasArrived(side, n)
    BY <1>1, <1>2, <1>4 DEF HasArrived
  <1>6. \A j \in 1..win.width :
            Synopsis!WindowOf(win, syn)[j] = s[(n - 1) * win.stride + j]
    BY <1>1 DEF Contents
  <1>7. Synopsis!WindowOf(win, syn) =
            [j \in 1..win.width |-> Synopsis!WindowOf(win, syn)[j]]
    BY DEF Synopsis!WindowOf
  <1> QED
    BY <1>5, <1>6, <1>7 DEF NthWindow

(* What has been taken of a side is a tuple, if it is not the end.         *)
LEMMA TakenIsTuple ==
    ASSUME Queues, SynopsesOK, NEW side \in Sides, Take(side)
    PROVE  /\ input[side] # <<>> /\ needsTuple[side]
           /\ Backed(sent[side], input[side])
           /\ IsWindow(window[side]) /\ SynopsisOK(window[side], synopsis[side])
           /\ synopsis[side].newcomers \in Seq(Tuple)
           /\ Taken(side) # EndOfStream => Taken(side) \in Tuple
  <1>1. input[side] # <<>> /\ needsTuple[side]
    BY DEF Take, Reads
  <1>2. Backed(sent[side], input[side])
    BY DEF Queues
  <1>3. IsWindow(window[side])
    BY JoinAssumption DEF SynopsesOK, IsWindow
  <1>4. SynopsisOK(window[side], synopsis[side])
    BY DEF SynopsesOK
  <1>5. synopsis[side].newcomers \in Seq(Tuple)
    BY <1>4 DEF SynopsisOK, SynopsisType
  <1>6. Head(input[side]) \in Item
    BY <1>1, <1>2 DEF Backed
  <1> QED
    BY <1>1, <1>2, <1>3, <1>4, <1>5, <1>6 DEF Taken, Item, Tuple

(* A side takes a tuple: its synopsis stays whole.                         *)
LEMMA WithIsOK ==
    ASSUME Queues, SynopsesOK, NEW side \in Sides, Process(side)
    PROVE  /\ SynopsisOK(window[side], With(side))
           /\ Synopsis!Completes(window[side], synopsis[side]) =>
                  Occupied(window[side], With(side))
           /\ synopsis'[side] = With(side)
           /\ \A each \in Sides : each # side => synopsis'[each] = synopsis[each]
           /\ DOMAIN synopsis' = Sides
           /\ window' = window
  <1>1. Take(side) /\ Taken(side) # EndOfStream
        /\ synopsis' = [synopsis EXCEPT ![side] = With(side)] /\ window' = window
    BY DEF Process, Take, Step
  <1>2. /\ IsWindow(window[side]) /\ SynopsisOK(window[side], synopsis[side])
        /\ Taken(side) \in Tuple
    BY <1>1, TakenIsTuple
  <1>3. ASSUME Synopsis!Completes(window[side], synopsis[side])
        PROVE  SynopsisOK(window[side], With(side)) /\ Occupied(window[side], With(side))
    <2> DEFINE t == Taken(side)
    <2>1. With(side) = Synopsis!Enqueued(window[side], synopsis[side], t) /\ t \in Tuple
      BY <1>2 DEF With
    <2> HIDE DEF t
    <2> QED
      BY <1>2, <1>3, <2>1, CompletedSynopsis
  <1>4. ASSUME ~Synopsis!Completes(window[side], synopsis[side])
        PROVE  SynopsisOK(window[side], With(side))
    <2>1. PICK next : next = With(side)
      OBVIOUS
    <2>2. SynopsisOK(window[side], next)
      BY <1>2, <1>4, <2>1, CollectedSynopsis DEF With
    <2> QED
      BY <1>4, <2>1, <2>2
  <1>5. DOMAIN synopsis = Sides
    BY DEF SynopsesOK
  <1> QED
    BY <1>1, <1>3, <1>4, <1>5

LEMMA SynopsesKept == Flags /\ Queues /\ SynopsesOK /\ [Next]_vars => SynopsesOK'
  <1> SUFFICES ASSUME Flags, Queues, SynopsesOK, [Next]_vars
               PROVE  SynopsesOK'
    OBVIOUS
  <1>0. /\ DOMAIN synopsis = Sides /\ window \in [Sides -> Windows]
        /\ \A side \in Sides : /\ SynopsisOK(window[side], synopsis[side])
                               /\ ~needsTuple[side] => Occupied(window[side], synopsis[side])
    BY DEF SynopsesOK
  <1>1. ASSUME NEW side \in Sides, Collect(side) \/ Accept(side) \/ Join(side)
        PROVE  SynopsesOK'
    <2>1. /\ Process(side) /\ needsTuple[side]
      BY <1>1 DEF Collect, Accept, Join, Process, Take, Reads
    <2>2. /\ SynopsisOK(window[side], With(side))
          /\ Synopsis!Completes(window[side], synopsis[side]) =>
                 Occupied(window[side], With(side))
          /\ synopsis'[side] = With(side)
          /\ \A each \in Sides : each # side => synopsis'[each] = synopsis[each]
          /\ DOMAIN synopsis' = Sides
          /\ window' = window
      BY <2>1, WithIsOK
    <2>3. \/ needsTuple' = needsTuple
          \/ /\ needsTuple' = [needsTuple EXCEPT ![side] = FALSE]
             /\ Synopsis!Completes(window[side], synopsis[side])
          \/ needsTuple' = [each \in Sides |-> TRUE]
      BY <1>1 DEF Collect, Accept, Join
    <2>4. \A each \in Sides : SynopsisOK(window[each], synopsis'[each])
      BY <1>0, <2>2
    <2>5. ASSUME NEW each \in Sides, ~needsTuple'[each]
          PROVE  Occupied(window[each], synopsis'[each])
      <3>1. CASE each = side
        BY <2>1, <2>2, <2>3, <2>5, <3>1 DEF Flags
      <3>2. CASE each # side
        <4>1. ~needsTuple[each]
          BY <2>3, <2>5, <3>2 DEF Flags
        <4> QED
          BY <1>0, <2>2, <3>2, <4>1
      <3> QED
        BY <3>1, <3>2
    <2> QED
      BY <1>0, <2>2, <2>4, <2>5 DEF SynopsesOK
  <1>2. CASE Redo
    <2>1. /\ synopsis' = [side \in Sides |-> Synopsis!Reset(synopsis[side])]
          /\ window' = window /\ needsTuple' = needsTuple
      BY <1>2 DEF Redo
    <2>2. ASSUME NEW side \in Sides
          PROVE  /\ SynopsisOK(window[side], synopsis'[side])
                 /\ synopsis'[side].tuples = synopsis[side].tuples
      <3>1. IsWindow(window[side]) /\ synopsis[side] \in SynopsisType(window[side])
        BY <1>0, JoinAssumption DEF SynopsisOK, IsWindow
      <3>2. PICK reset : reset = Synopsis!Reset(synopsis[side])
        OBVIOUS
      <3>3. synopsis'[side] = reset
        BY <2>1, <3>2
      <3> QED
        BY <3>1, <3>2, <3>3, ResetSynopsisOK
    <2>3. \A side \in Sides : ~needsTuple[side] => Occupied(window[side], synopsis'[side])
      BY <1>0, <2>2 DEF Occupied
    <2> QED
      BY <1>0, <2>1, <2>2, <2>3 DEF SynopsesOK
  <1>3. CASE UNCHANGED <<window, synopsis, needsTuple>>
    BY <1>3 DEF SynopsesOK
  <1>4. \/ UNCHANGED <<window, synopsis, needsTuple>>
        \/ Redo
        \/ \E side \in Sides : Collect(side) \/ Accept(side) \/ Join(side)
    BY DEF Next, NextImplementation, Send, SendEnd, Arrive, Skip, PassEnd, Take, Step, vars
  <1> QED
    BY <1>1, <1>2, <1>3, <1>4

(* Both sides hold what they should, as long as the join is in step.       *)
Held(side, n) == Contents(window[side], sent[side], input[side], synopsis[side], n)

(* Windows that have come in stay where they are.                          *)
LEMMA WindowsStay ==
    ASSUME NEW side \in Sides, NEW n \in Nat, n > 0, IsWindow(window[side]),
           sent[side] \in Seq(Item), window'[side] = window[side],
           \/ sent'[side] = sent[side]
           \/ \E tuple \in Item : sent'[side] = Append(sent[side], tuple),
           HasArrived(side, n)
    PROVE  HasArrived(side, n)' /\ NthWindow(side, n)' = NthWindow(side, n)
  <1> DEFINE win == window[side]
             s == sent[side]
             before == (n - 1) * win.stride
             w == win.width
             len == Len(s)
  <1>1. before \in Nat /\ w \in Nat \ {0} /\ len \in Nat
    <2>1. (n - 1) \in Nat /\ win.stride \in Nat /\ w \in Nat \ {0}
      BY DEF IsWindow
    <2>2. \A a, b \in Nat : a * b \in Nat
      OBVIOUS
    <2> QED
      BY <2>1, <2>2
  <1>2. len >= before + w /\ s[before + w] # EndOfStream
    BY DEF HasArrived
  <1>3. CASE sent'[side] = s
    BY <1>3 DEF HasArrived, NthWindow
  <1>4. CASE \E tuple \in Item : sent'[side] = Append(s, tuple)
    <2>1. PICK tuple \in Item : sent'[side] = Append(s, tuple)
      BY <1>4
    <2> DEFINE all == Append(s, tuple)
    <2>2. Len(all) = len + 1 /\ \A k \in 1..len : all[k] = s[k]
      BY AppendProperties
    <2> HIDE DEF before, w, len, all
    <2>3. before + w \in 1..len /\ Len(all) >= before + w
      BY ONLY <1>1, <1>2, <2>2
    <2>4. \A k \in 1..w : before + k \in 1..len
      BY ONLY <1>1, <1>2
    <2>5. all[before + w] # EndOfStream /\ \A k \in 1..w : all[before + k] = s[before + k]
      BY <1>2, <2>2, <2>3, <2>4
    <2>6. HasArrived(side, n)'
      BY <2>1, <2>3, <2>5 DEF HasArrived, before, w, all
    <2>7. NthWindow(side, n)' = NthWindow(side, n)
      <3>1. NthWindow(side, n)' = [k \in 1..w |-> all[before + k]]
        BY <2>1 DEF NthWindow, before, w, all
      <3>2. NthWindow(side, n) = [k \in 1..w |-> s[before + k]]
        BY DEF NthWindow, before, w
      <3> QED
        BY <2>5, <3>1, <3>2
    <2> QED
      BY <2>6, <2>7
  <1> QED
    BY <1>3, <1>4

LEMMA CompletedType ==
    ASSUME Flags, ResultsInv, NEW side \in Sides
    PROVE  Completed(side) \in Nat /\ Len(joined) \in Nat /\ DOMAIN joined = 1..Len(joined)
  <1>1. PICK S : joined \in Seq(S)
    BY DEF ResultsInv
  <1>2. Len(joined) \in Nat /\ DOMAIN joined = 1..Len(joined)
    BY <1>1
  <1> QED
    BY <1>2 DEF Completed

(* The pairs that have been joined stay the nth windows.                   *)
LEMMA PairsStay ==
    ASSUME Flags, Queues, SynopsesOK, ResultsInv, PairsWindows, ~offBeat, [Next]_vars,
           NEW n \in DOMAIN joined, NEW side \in Sides
    PROVE  HasArrived(side, n)' /\ joined[n][side] = NthWindow(side, n)'
  <1>1. HasArrived(side, n) /\ joined[n][side] = NthWindow(side, n)
    BY DEF PairsWindows
  <1>2. n \in Nat /\ n > 0
    BY CompletedType
  <1>3. IsWindow(window[side]) /\ sent[side] \in Seq(Item)
    BY JoinAssumption DEF SynopsesOK, IsWindow, Queues, Backed
  <1>4. window' = window
    BY DEF Next, Send, SendEnd, Arrive, NextImplementation, Skip, PassEnd, Collect, Accept, Join,
           Process, Take, Step, Redo, vars
  <1>5. \/ sent' = sent
        \/ \E each \in Sides : \E tuple \in Item : sent' = [sent EXCEPT ![each] = Append(@, tuple)]
    <2>1. CASE \E each \in Sides : Send(each) \/ SendEnd(each)
      BY <2>1, SendsItem DEF Arrive
    <2>3. CASE sent' = sent
      BY <2>3
    <2> QED
      BY <2>1, <2>3 DEF Next, NextImplementation, Skip, PassEnd, Collect, Accept, Join,
         Process, Take, Step, Redo, vars
  <1>6. \/ sent'[side] = sent[side]
        \/ \E tuple \in Item : sent'[side] = Append(sent[side], tuple)
    BY <1>5 DEF Queues
  <1> QED
    BY <1>1, <1>2, <1>3, <1>4, <1>6, WindowsStay

(* What a side holds after it has taken a tuple.                           *)
LEMMA HeldAfterTake ==
    ASSUME Queues, SynopsesOK, NEW side \in Sides, Take(side), NEW n \in Nat, Held(side, n)
    PROVE  LET rest == Tail(input[side]) IN
           /\ Taken(side) = EndOfStream =>
                  Contents(window[side], sent[side], rest, synopsis[side], n)
           /\ Taken(side) # EndOfStream /\ ~Synopsis!Completes(window[side], synopsis[side]) =>
                  Contents(window[side], sent[side], rest, With(side), n)
           /\ Taken(side) # EndOfStream /\ Synopsis!Completes(window[side], synopsis[side]) =>
                  Contents(window[side], sent[side], rest, With(side), n + 1)
  <1> DEFINE win == window[side]
             s == sent[side]
             i == input[side]
             syn == synopsis[side]
  <1>1. /\ i # <<>> /\ Backed(s, i) /\ IsWindow(win) /\ SynopsisOK(win, syn)
        /\ Taken(side) # EndOfStream => Taken(side) \in Tuple
    BY TakenIsTuple
  <1>2. Taken(side) = Head(i) /\ With(side) = Synopsis!Enqueued(win, syn, Head(i))
    BY DEF Taken, With
  <1>3. Contents(win, s, i, syn, n)
    BY DEF Held
  <1> HIDE DEF win, s, i, syn
  <1>4. PICK next : next = With(side)
    OBVIOUS
  <1>5. Taken(side) = EndOfStream => Contents(win, s, Tail(i), syn, n)
    BY <1>1, <1>2, <1>3, ContentsOfEnded
  <1>6. ASSUME Taken(side) # EndOfStream, ~Synopsis!Completes(win, syn)
        PROVE  Contents(win, s, Tail(i), With(side), n)
    BY <1>1, <1>2, <1>3, <1>4, <1>6, ContentsOfCollected
  <1>7. ASSUME Taken(side) # EndOfStream, Synopsis!Completes(win, syn)
        PROVE  Contents(win, s, Tail(i), With(side), n + 1)
    BY <1>1, <1>2, <1>3, <1>4, <1>7, ContentsOfCompleted
  <1> QED
    BY <1>5, <1>6, <1>7 DEF win, s, i, syn

LEMMA InStepKept == JoinInv /\ [Next]_vars => InStep'
  <1> SUFFICES ASSUME JoinInv, [Next]_vars
               PROVE  InStep'
    OBVIOUS
  <1>0. Flags /\ Queues /\ SynopsesOK /\ ResultsInv /\ InStep
    BY DEF JoinInv
  <1>01. /\ \A side \in Sides : Completed(side) \in Nat
         /\ Len(joined) \in Nat /\ DOMAIN joined = 1..Len(joined)
    BY <1>0, CompletedType DEF Sides
  <1>02. /\ DOMAIN sent = Sides /\ DOMAIN input = Sides /\ DOMAIN synopsis = Sides
         /\ \A side \in Sides : Backed(sent[side], input[side])
    BY <1>0 DEF Queues, SynopsesOK
  <1>03. \A side \in Sides : /\ IsWindow(window[side]) /\ sent[side] \in Seq(Item)
                             /\ synopsis[side].newcomers \in Seq(Tuple)
    BY <1>0, JoinAssumption DEF SynopsesOK, SynopsisOK, SynopsisType, IsWindow, Queues, Backed
  <1>1. CASE Redo
    <2>1. /\ input' = sent /\ sent' = sent /\ window' = window /\ joined' = <<>>
          /\ synopsis' = [side \in Sides |-> Synopsis!Reset(synopsis[side])]
          /\ needsTuple' = needsTuple
          /\ offBeat' = \E side \in Sides : ~needsTuple[side]
      BY <1>1 DEF Redo
    <2>2. DOMAIN joined' = {} /\ Len(joined') = 0
      BY <2>1
    <2>3. ASSUME ~offBeat', NEW side \in Sides
          PROVE  Contents(window[side], sent[side], input[side], synopsis[side], Completed(side))'
      <3>1. Completed(side)' = 0
        BY <2>1, <2>2, <2>3 DEF Completed
      <3>2. PICK reset : reset = Synopsis!Reset(synopsis[side])
        OBVIOUS
      <3>3. reset.filled = FALSE /\ reset.newcomers = <<>>
        <4>1. synopsis[side] \in SynopsisType(window[side]) /\ IsWindow(window[side])
          BY <1>0, <1>03 DEF SynopsesOK, SynopsisOK
        <4> QED
          BY <3>2, <4>1, ResetSynopsisOK
      <3>4. Contents(window[side], sent[side], sent[side], reset, 0)
        BY <1>03, <3>3, NewContents
      <3> QED
        BY <2>1, <3>1, <3>2, <3>4
    <2> QED
      BY <2>2, <2>3 DEF InStep, PairsWindows
  <1>2. CASE ~Redo /\ ~offBeat'
    <2>1. ~offBeat /\ window' = window
      <3>1. \/ \E side \in Sides : Send(side) \/ SendEnd(side)
            \/ NextImplementation
            \/ UNCHANGED vars
        BY <1>2 DEF Next
      <3>2. CASE \E side \in Sides : Send(side) \/ SendEnd(side)
        BY <1>2, <3>2 DEF Send, SendEnd, Arrive
      <3>3. CASE NextImplementation
        <4>1. UNCHANGED <<window, offBeat>>
          BY <3>3 DEF NextImplementation, Skip, PassEnd, Collect, Accept, Join, Process, Take, Step
        <4> QED
          BY <1>2, <4>1
      <3>4. CASE UNCHANGED vars
        BY <1>2, <3>4 DEF vars
      <3> QED
        BY <3>1, <3>2, <3>3, <3>4
    <2>2. PairsWindows /\ \A side \in Sides : Held(side, Completed(side))
      BY <1>0, <2>1 DEF InStep, Held
    <2>3. \A n \in DOMAIN joined : \A side \in Sides :
              HasArrived(side, n)' /\ joined[n][side] = NthWindow(side, n)'
      BY <1>0, <2>1, <2>2, PairsStay
    <2>4. ASSUME joined' = joined
          PROVE  PairsWindows'
      BY <2>3, <2>4 DEF PairsWindows
    <2>5. ASSUME NEW side \in Sides, Send(side) \/ SendEnd(side)
          PROVE  InStep'
      <3>1. PICK tuple \in Item : Arrive(side, tuple)
        BY <1>0, <2>5, SendsItem
      <3>2. /\ sent' = [sent EXCEPT ![side] = Append(@, tuple)]
            /\ input' = [input EXCEPT ![side] = Append(@, tuple)]
            /\ UNCHANGED <<window, synopsis, needsTuple, joined>>
            /\ ~(sent[side] # <<>> /\ sent[side][Len(sent[side])] = EndOfStream)
        BY <3>1 DEF Arrive, Ended
      <3>3. ASSUME NEW each \in Sides
            PROVE  Contents(window[each], sent[each], input[each], synopsis[each], Completed(each))'
        <4>1. Completed(each)' = Completed(each)
          BY <3>2 DEF Completed
        <4>2. CASE each # side
          BY <1>02, <2>2, <3>2, <4>1, <4>2 DEF Held
        <4>3. CASE each = side
          <5>1. Contents(window[side], Append(sent[side], tuple), Append(input[side], tuple),
                         synopsis[side], Completed(side))
            BY <1>01, <1>02, <1>03, <2>2, <3>2, ContentsOfArrived DEF Held
          <5> QED
            BY <1>02, <3>2, <4>1, <4>3, <5>1
        <4> QED
          BY <4>2, <4>3
      <3> QED
        BY <2>4, <3>2, <3>3 DEF InStep
    <2>6. ASSUME NEW side \in Sides, Skip(side)
          PROVE  InStep'
      <3>1. UNCHANGED <<window, sent, input, synopsis, needsTuple, joined>>
        BY <2>6 DEF Skip, Step
      <3> QED
        BY <2>2, <2>4, <3>1 DEF InStep, Held, Completed
    <2>7. ASSUME NEW side \in Sides, Take(side), NEW next,
                 synopsis'[side] = next,
                 \A each \in Sides : each # side => synopsis'[each] = synopsis[each],
                 Contents(window[side], sent[side], Tail(input[side]), next, Completed(side)'),
                 NEW each \in Sides, each # side => Completed(each)' = Completed(each)
          PROVE  Contents(window[each], sent[each], input[each], synopsis[each], Completed(each))'
      <3>1. /\ sent' = sent /\ window' = window
            /\ input' = [input EXCEPT ![side] = Tail(@)]
        BY <2>7 DEF Take, Step
      <3>2. CASE each # side
        BY <1>02, <2>2, <2>7, <3>1, <3>2 DEF Held
      <3>3. CASE each = side
        BY <1>02, <2>7, <3>1, <3>3
      <3> QED
        BY <3>2, <3>3
    <2>8. ASSUME NEW side \in Sides, PassEnd(side)
          PROVE  InStep'
      <3>1. /\ Take(side) /\ Taken(side) = EndOfStream
            /\ UNCHANGED <<synopsis, needsTuple, joined>>
        BY <2>8 DEF PassEnd
      <3>2. \A each \in Sides : Completed(each)' = Completed(each)
        BY <3>1 DEF Completed
      <3>3. Contents(window[side], sent[side], Tail(input[side]), synopsis[side], Completed(side))
        BY <1>0, <1>01, <2>2, <3>1, HeldAfterTake
      <3>4. \A each \in Sides :
                Contents(window[each], sent[each], input[each], synopsis[each], Completed(each))'
        BY <2>7, <3>1, <3>2, <3>3
      <3> QED
        BY <2>4, <3>1, <3>4 DEF InStep
    <2>9. ASSUME NEW side \in Sides, Collect(side) \/ Accept(side)
          PROVE  InStep'
      <3>1. Process(side) /\ Take(side) /\ Taken(side) # EndOfStream /\ joined' = joined
        BY <2>9 DEF Collect, Accept, Process
      <3>2. /\ synopsis'[side] = With(side)
            /\ \A each \in Sides : each # side => synopsis'[each] = synopsis[each]
        BY <1>0, <3>1, WithIsOK
      <3>3. needsTuple[side]
        BY <1>0, <3>1, TakenIsTuple
      <3>4. /\ Contents(window[side], sent[side], Tail(input[side]), With(side), Completed(side)')
            /\ \A each \in Sides : each # side => Completed(each)' = Completed(each)
        <4>1. CASE Collect(side)
          <5>1. needsTuple' = needsTuple /\ ~Synopsis!Completes(window[side], synopsis[side])
            BY <4>1 DEF Collect
          <5>2. \A each \in Sides : Completed(each)' = Completed(each)
            BY <3>1, <5>1 DEF Completed
          <5> QED
            BY <1>0, <1>01, <2>2, <3>1, <5>1, <5>2, HeldAfterTake
        <4>2. CASE Accept(side)
          <5>1. /\ needsTuple' = [needsTuple EXCEPT ![side] = FALSE]
                /\ Synopsis!Completes(window[side], synopsis[side])
            BY <4>2 DEF Accept
          <5>2. /\ Completed(side)' = Completed(side) + 1
                /\ \A each \in Sides : each # side => Completed(each)' = Completed(each)
            BY <1>0, <3>1, <3>3, <5>1 DEF Completed, Flags
          <5> QED
            BY <1>0, <1>01, <2>2, <3>1, <5>1, <5>2, HeldAfterTake
        <4> QED
          BY <2>9, <4>1, <4>2
      <3>5. \A each \in Sides :
                Contents(window[each], sent[each], input[each], synopsis[each], Completed(each))'
        BY <2>7, <3>1, <3>2, <3>4
      <3> QED
        BY <2>4, <3>1, <3>5 DEF InStep
    <2>10. ASSUME NEW side \in Sides, Join(side)
           PROVE  InStep'
      <3> DEFINE pair == [each \in Sides |-> Synopsis!WindowOf(window[each], synopsis'[each])]
      <3>1. /\ Process(side) /\ Take(side) /\ Taken(side) # EndOfStream
            /\ Synopsis!Completes(window[side], synopsis[side]) /\ ~needsTuple[Other(side)]
            /\ joined' = Append(joined, pair)
            /\ needsTuple' = [each \in Sides |-> TRUE]
        BY <2>10 DEF Join, Process, Joins
      <3>2. /\ synopsis'[side] = With(side)
            /\ \A each \in Sides : each # side => synopsis'[each] = synopsis[each]
        BY <1>0, <3>1, WithIsOK
      <3>3. needsTuple[side]
        BY <1>0, <3>1, TakenIsTuple
      <3>4. /\ Len(joined') = Len(joined) + 1
            /\ \A n \in 1..Len(joined) : joined'[n] = joined[n]
            /\ joined'[Len(joined) + 1] = pair
            /\ DOMAIN joined' = 1..Len(joined) + 1
        <4>1. PICK S : joined \in Seq(S)
          BY <1>0 DEF ResultsInv
        <4>2. joined \in Seq(S \cup {pair}) /\ pair \in S \cup {pair}
          BY <4>1, SeqMonotonic
        <4> HIDE DEF pair
        <4> QED
          BY <3>1, <4>2, AppendProperties
      <3>5. /\ Completed(side)' = Completed(side) + 1
            /\ \A each \in Sides : each # side => Completed(each)' = Completed(each)
            /\ \A each \in Sides : Completed(each)' = Len(joined) + 1
        <4>1. \A each \in Sides : each # side => each = Other(side)
          BY DEF Sides, Other
        <4> QED
          BY <3>1, <3>3, <3>4, <4>1 DEF Completed
      <3>6. Contents(window[side], sent[side], Tail(input[side]), With(side), Completed(side)')
        BY <1>0, <1>01, <2>2, <3>1, <3>5, HeldAfterTake
      <3>7. \A each \in Sides :
                Contents(window[each], sent[each], input[each], synopsis[each], Completed(each))'
        BY <2>7, <3>1, <3>2, <3>5, <3>6
      <3>8. ASSUME NEW each \in Sides, NEW n, n = Len(joined) + 1
            PROVE  HasArrived(each, n)' /\ pair[each] = NthWindow(each, n)'
        <4>1. sent' = sent /\ window' = window
          BY <3>1 DEF Take, Step
        <4>2. PICK m \in Nat : m = n /\ m > 0
          BY <1>01, <3>8
        <4>3. PICK syn : syn = synopsis'[each]
          OBVIOUS
        <4>4. PICK i : i = input'[each]
          OBVIOUS
        <4>5. Contents(window[each], sent[each], i, syn, m)
          BY <3>5, <3>7, <3>8, <4>1, <4>2, <4>3, <4>4
        <4>6. syn.newcomers \in Seq(Tuple)
          <5>1. SynopsesOK'
            BY <1>0, SynopsesKept
          <5> QED
            BY <4>3, <5>1 DEF SynopsesOK, SynopsisOK, SynopsisType
        <4>7. HasArrived(each, m) /\ Synopsis!WindowOf(window[each], syn) = NthWindow(each, m)
          BY <1>03, <4>2, <4>5, <4>6, WindowTaken
        <4>8. HasArrived(each, m)' /\ NthWindow(each, m)' = NthWindow(each, m)
          BY <4>1, <4>7 DEF HasArrived, NthWindow
        <4> QED
          BY <4>2, <4>3, <4>7, <4>8
      <3>9. PairsWindows'
        <4>1. ASSUME NEW n \in 1..Len(joined) + 1, NEW each \in Sides
              PROVE  HasArrived(each, n)' /\ joined'[n][each] = NthWindow(each, n)'
          <5>1. CASE n \in 1..Len(joined)
            BY <1>01, <2>3, <3>4, <5>1
          <5>2. CASE n \notin 1..Len(joined)
            <6>1. n = Len(joined) + 1
              BY <1>01, <4>1, <5>2
            <6> HIDE DEF pair
            <6> QED
              BY <3>4, <3>8, <6>1
          <5> QED
            BY <5>1, <5>2
        <4> QED
          BY <3>4, <4>1 DEF PairsWindows
      <3> QED
        BY <3>7, <3>9 DEF InStep
    <2>11. CASE UNCHANGED vars
      BY <2>2, <2>4, <2>11 DEF vars, InStep, Held, Completed
    <2> QED
      BY <1>2, <2>5, <2>6, <2>8, <2>9, <2>10, <2>11 DEF Next, NextImplementation
  <1>3. CASE offBeat'
    BY <1>3 DEF InStep
  <1> QED
    BY <1>1, <1>2, <1>3

(* Every slot is somewhere in the window, and nothing else is.             *)
LEMMA WindowOfSlots ==
    ASSUME NEW win, IsWindow(win), NEW syn, SynopsisOK(win, syn), NEW w, w = Synopsis!WindowOf(win, syn)
    PROVE  /\ \A k \in Synopsis!Slots(win) : \E j \in DOMAIN w : w[j] = syn.tuples[k]
           /\ \A j \in DOMAIN w : \E k \in Synopsis!Slots(win) : w[j] = syn.tuples[k]
  <1> DEFINE width == win.width
             index == syn.index
             After(n) == IF index + n < width THEN index + n ELSE index + n - width
  <1>1. width \in Nat /\ index \in 0..width - 1 /\ Synopsis!Slots(win) = 0..width - 1
    BY DEF SynopsisOK, SynopsisType, IsWindow, Synopsis!Slots
  <1>2. DOMAIN w = 1..width /\ \A j \in 1..width : w[j] = syn.tuples[After(j - 1)]
    BY DEF Synopsis!WindowOf, Synopsis!SlotAfter
  <1>3. ASSUME NEW k \in 0..width - 1
        PROVE  \E j \in 1..width : After(j - 1) = k
    <2> DEFINE near == k - index + 1
               far == k - index + width + 1
    <2> HIDE DEF width, index
    <2>1. CASE k >= index
      <3>1. near \in 1..width /\ After(near - 1) = k
        BY ONLY <1>1, <2>1, k \in 0..width - 1
      <3> QED
        BY <3>1
    <2>2. CASE ~(k >= index)
      <3>1. far \in 1..width /\ After(far - 1) = k
        BY ONLY <1>1, <2>2, k \in 0..width - 1
      <3> QED
        BY <3>1
    <2> QED
      BY <2>1, <2>2
  <1>4. ASSUME NEW j \in 1..width
        PROVE  After(j - 1) \in 0..width - 1
    <2> HIDE DEF width, index
    <2> QED
      BY ONLY <1>1, j \in 1..width
  <1> HIDE DEF After, width
  <1> QED
    BY <1>1, <1>2, <1>3, <1>4

(* The results of a join come from its windows.                            *)
LEMMA ResultsAreFrom ==
    ASSUME NEW winL, IsWindow(winL), NEW left, SynopsisOK(winL, left), Occupied(winL, left),
           NEW winR, IsWindow(winR), NEW right, SynopsisOK(winR, right), Occupied(winR, right),
           NEW pair, pair = [side \in Sides |-> IF side = "left" THEN Synopsis!WindowOf(winL, left)
                                                ELSE Synopsis!WindowOf(winR, right)],
           NEW i \in DOMAIN JoinSynopsis(left, right)
    PROVE  IsFrom(JoinSynopsis(left, right)[i], pair)
  <1> DEFINE l == left.tuples[0]
             found == {k \in DOMAIN right.tuples : Matches(l, right.tuples[k])}
             r == right.tuples[Nth(found, i)]
             lwm == Lwm(left, right)
             arrivals == {left.tuples[k].arrived : k \in DOMAIN left.tuples}
                         \cup {right.tuples[k].arrived : k \in DOMAIN right.tuples}
  <1>1. i \in 1..Cardinality(found) /\ JoinSynopsis(left, right)[i] = Combined(l, r, lwm)
    BY DEF JoinSynopsis
  <1>2. /\ DOMAIN left.tuples = Synopsis!Slots(winL) /\ DOMAIN right.tuples = Synopsis!Slots(winR)
        /\ \A k \in Synopsis!Slots(winL) : left.tuples[k] \in Tuple
        /\ \A k \in Synopsis!Slots(winR) : right.tuples[k] \in Tuple
        /\ 0 \in Synopsis!Slots(winL)
        /\ winR.width \in Nat /\ Synopsis!Slots(winR) = 0..winR.width - 1
    BY DEF SynopsisOK, SynopsisType, Occupied, IsWindow, Synopsis!Slots
  <1>3. Nth(found, i) \in found
    <2>1. \A m \in found : m \in 0..winR.width
      <3>1. ASSUME NEW n \in Nat, NEW m \in 0..n - 1 PROVE m \in 0..n
        OBVIOUS
      <3> QED
        BY <1>2, <3>1
    <2> HIDE DEF found
    <2> QED
      BY <1>1, <1>2, <2>1, NthIsThere
  <1>4. Nth(found, i) \in Synopsis!Slots(winR) /\ Matches(l, r)
    BY <1>2, <1>3
  <1>5. lwm \in arrivals /\ \A n \in arrivals : lwm <= n
    <2>1. arrivals \in SUBSET Nat /\ arrivals # {}
      <3>1. \A k \in Synopsis!Slots(winL) : left.tuples[k].arrived \in Nat
        BY <1>2 DEF Tuple
      <3>2. \A k \in Synopsis!Slots(winR) : right.tuples[k].arrived \in Nat
        BY <1>2 DEF Tuple
      <3> QED
        BY <1>2, <3>1, <3>2
    <2>2. lwm = Lowest(arrivals)
      BY DEF Lwm
    <2> HIDE DEF arrivals, lwm
    <2>3. \E n \in arrivals : \A m \in arrivals : n <= m
      BY <2>1, Least
    <2> QED
      BY <2>2, <2>3 DEF Lowest
  <1> DEFINE result == Combined(l, r, lwm)
  <1>6. result.left = l.number /\ result.right = r.number /\ result.lwm = lwm
    BY DEF Combined
  <1>6a. IsOf(result, l, r)
    <2>1. l.arrived \in Nat /\ r.arrived \in Nat
      <3>1. l \in Tuple /\ r \in Tuple
        BY <1>2, <1>4
      <3> HIDE DEF l, r
      <3> QED
        BY <3>1 DEF Tuple
    <2>2. result.arrived = Lowest({l.arrived, r.arrived})
      BY DEF Combined
    <2> HIDE DEF result, l, r
    <2>3. \E n \in {l.arrived, r.arrived} : \A m \in {l.arrived, r.arrived} : n <= m
      BY <2>1
    <2>4. /\ result.arrived \in {l.arrived, r.arrived}
          /\ \A m \in {l.arrived, r.arrived} : result.arrived <= m
      BY <2>2, <2>3 DEF Lowest
    <2> QED
      BY <1>4, <1>6, <2>4 DEF IsOf
  <1>7. PICK wl : wl = Synopsis!WindowOf(winL, left)
    OBVIOUS
  <1>8. PICK wr : wr = Synopsis!WindowOf(winR, right)
    OBVIOUS
  <1>9. pair["left"] = wl /\ pair["right"] = wr
    BY <1>7, <1>8 DEF Sides
  <1>10. /\ \A k \in Synopsis!Slots(winL) : \E j \in DOMAIN wl : wl[j] = left.tuples[k]
         /\ \A j \in DOMAIN wl : \E k \in Synopsis!Slots(winL) : wl[j] = left.tuples[k]
    BY <1>7, WindowOfSlots
  <1>11. /\ \A k \in Synopsis!Slots(winR) : \E j \in DOMAIN wr : wr[j] = right.tuples[k]
         /\ \A j \in DOMAIN wr : \E k \in Synopsis!Slots(winR) : wr[j] = right.tuples[k]
    BY <1>8, WindowOfSlots
  <1>12. \A j \in DOMAIN wl : lwm <= wl[j].arrived
    <2>1. \A k \in Synopsis!Slots(winL) : left.tuples[k].arrived \in arrivals
      BY <1>2
    <2> HIDE DEF arrivals, lwm
    <2> QED
      BY <1>5, <1>10, <2>1
  <1>13. \A j \in DOMAIN wr : lwm <= wr[j].arrived
    <2>1. \A k \in Synopsis!Slots(winR) : right.tuples[k].arrived \in arrivals
      BY <1>2
    <2> HIDE DEF arrivals, lwm
    <2> QED
      BY <1>5, <1>11, <2>1
  <1>14. \E j \in DOMAIN wl : wl[j] = l
    BY <1>2, <1>10
  <1>15. \E j \in DOMAIN wr : wr[j] = r
    <2> HIDE DEF found
    <2> QED
      BY <1>4, <1>11
  <1>16. \/ \E j \in DOMAIN wl : lwm = wl[j].arrived
         \/ \E j \in DOMAIN wr : lwm = wr[j].arrived
    <2>1. \/ \E k \in DOMAIN left.tuples : lwm = left.tuples[k].arrived
          \/ \E k \in DOMAIN right.tuples : lwm = right.tuples[k].arrived
      <3> HIDE DEF lwm
      <3> QED
        BY <1>5
    <2> HIDE DEF lwm
    <2> QED
      BY <1>2, <1>10, <1>11, <2>1
  <1> HIDE DEF result, lwm, l, r, found
  <1>17. IsFrom(result, pair)
    <2>1. \A side \in Sides : side = "left" \/ side = "right"
      BY DEF Sides
    <2>2. \E a \in DOMAIN pair["left"] : \E b \in DOMAIN pair["right"] :
              IsOf(result, pair["left"][a], pair["right"][b])
      BY <1>9, <1>14, <1>15, <1>6a
    <2>3. \A side \in Sides : \A k \in DOMAIN pair[side] : result.lwm <= pair[side][k].arrived
      BY <1>6, <1>9, <1>12, <1>13, <2>1
    <2>4. \E side \in Sides : \E k \in DOMAIN pair[side] : result.lwm = pair[side][k].arrived
      BY <1>6, <1>9, <1>16 DEF Sides
    <2> QED
      BY <2>2, <2>3, <2>4 DEF IsFrom
  <1> QED
    BY <1>1, <1>17 DEF result

LEMMA ResultsKept == Flags /\ Queues /\ SynopsesOK /\ ResultsInv /\ [Next]_vars => ResultsInv'
  <1> SUFFICES ASSUME Flags, Queues, SynopsesOK, ResultsInv, [Next]_vars
               PROVE  ResultsInv'
    OBVIOUS
  <1>1. PICK S : output \in Seq(S)
    BY DEF ResultsInv
  <1>2. PICK T : joined \in Seq(T)
    BY DEF ResultsInv
  <1>3. \A i \in DOMAIN output : output[i] # EndOfStream =>
            \E n \in DOMAIN joined : IsFrom(output[i], joined[n])
    BY DEF ResultsInv
  <1>4. CASE UNCHANGED <<output, joined>>
    BY <1>4 DEF ResultsInv
  <1>5. CASE Redo
    <2>1. output' = <<>> /\ joined' = <<>>
      BY <1>5 DEF Redo
    <2>2. output' \in Seq({}) /\ DOMAIN output' = {} /\ joined' \in Seq({})
      BY <2>1
    <2> QED
      BY <2>2 DEF ResultsInv
  <1>6. ASSUME NEW side \in Sides, PassEnd(side)
        PROVE  ResultsInv'
    <2>1. output' = Append(output, EndOfStream) /\ joined' = joined
      BY <1>6 DEF PassEnd
    <2>2. output \in Seq(S \cup {EndOfStream})
      BY <1>1, SeqMonotonic
    <2>3. /\ output' \in Seq(S \cup {EndOfStream})
          /\ Len(output) \in Nat
          /\ DOMAIN output' = 1..Len(output) + 1 /\ DOMAIN output = 1..Len(output)
          /\ \A i \in 1..Len(output) : output'[i] = output[i]
          /\ output'[Len(output) + 1] = EndOfStream
      BY <2>1, <2>2, AppendProperties
    <2>4. \A i \in 1..Len(output) + 1 : i \in 1..Len(output) \/ i = Len(output) + 1
      BY <2>3
    <2>5. \A i \in DOMAIN output' : output'[i] # EndOfStream => i \in DOMAIN output
      BY <2>3, <2>4
    <2>6. joined' \in Seq(T)
      BY <1>2, <2>1
    <2> QED
      BY <1>3, <2>1, <2>3, <2>5, <2>6 DEF ResultsInv
  <1>7. ASSUME NEW side \in Sides, Join(side)
        PROVE  ResultsInv'
    <2> DEFINE pair == [each \in Sides |-> Synopsis!WindowOf(window[each], synopsis'[each])]
               results == JoinSynopsis(synopsis'["left"], synopsis'["right"])
    <2>1. output' = output \o results /\ joined' = Append(joined, pair)
      BY <1>7 DEF Join
    <2>2. \A each \in Sides : /\ IsWindow(window[each])
                              /\ SynopsisOK(window[each], synopsis'[each])
                              /\ Occupied(window[each], synopsis'[each])
      <3>1. /\ Process(side) /\ Synopsis!Completes(window[side], synopsis[side])
            /\ ~needsTuple[Other(side)]
        BY <1>7 DEF Join, Joins
      <3>2. /\ SynopsisOK(window[side], With(side)) /\ Occupied(window[side], With(side))
            /\ synopsis'[side] = With(side)
            /\ \A each \in Sides : each # side => synopsis'[each] = synopsis[each]
        BY <3>1, WithIsOK
      <3>3. /\ \A each \in Sides : each = side \/ each = Other(side)
            /\ Other(side) \in Sides /\ Other(side) # side
        BY DEF Sides, Other
      <3>4. \A each \in Sides : IsWindow(window[each])
        BY JoinAssumption DEF SynopsesOK, IsWindow
      <3>5. /\ SynopsisOK(window[Other(side)], synopsis[Other(side)])
            /\ Occupied(window[Other(side)], synopsis[Other(side)])
        BY <3>1, <3>3 DEF SynopsesOK
      <3> QED
        BY <3>2, <3>3, <3>4, <3>5
    <2>3. \A i \in DOMAIN results : IsFrom(results[i], pair)
      <3>1. PICK winL : winL = window["left"]
        OBVIOUS
      <3>2. PICK winR : winR = window["right"]
        OBVIOUS
      <3>3. PICK left : left = synopsis'["left"]
        OBVIOUS
      <3>4. PICK right : right = synopsis'["right"]
        OBVIOUS
      <3>5. pair = [each \in Sides |-> IF each = "left" THEN Synopsis!WindowOf(winL, left)
                                       ELSE Synopsis!WindowOf(winR, right)]
        BY <3>1, <3>2, <3>3, <3>4 DEF Sides
      <3>6. /\ IsWindow(winL) /\ SynopsisOK(winL, left) /\ Occupied(winL, left)
            /\ IsWindow(winR) /\ SynopsisOK(winR, right) /\ Occupied(winR, right)
        BY <2>2, <3>1, <3>2, <3>3, <3>4 DEF Sides
      <3>7. results = JoinSynopsis(left, right)
        BY <3>3, <3>4
      <3> HIDE DEF pair, results
      <3>8. \A i \in DOMAIN JoinSynopsis(left, right) : IsFrom(JoinSynopsis(left, right)[i], pair)
        BY <3>5, <3>6, ResultsAreFrom
      <3> QED
        BY <3>7, <3>8
    <2>4. PICK U : results \in Seq(U)
      <3>1. PICK right : right = synopsis'["right"]
        OBVIOUS
      <3>2. PICK n \in Nat : DOMAIN right.tuples = 0..n - 1
        BY <2>2, <3>1 DEF Sides, SynopsisOK, SynopsisType, IsWindow, Synopsis!Slots
      <3>3. \E U : JoinSynopsis(synopsis'["left"], right) \in Seq(U)
        BY <3>2, ResultsAreSequence
      <3> QED
        BY <3>1, <3>3
    <2> HIDE DEF pair, results
    <2>5. joined \in Seq(T \cup {pair})
      BY <1>2, SeqMonotonic
    <2>6. /\ joined' \in Seq(T \cup {pair}) /\ Len(joined) \in Nat
          /\ DOMAIN joined' = 1..Len(joined) + 1 /\ DOMAIN joined = 1..Len(joined)
          /\ \A n \in 1..Len(joined) : joined'[n] = joined[n]
          /\ joined'[Len(joined) + 1] = pair
      BY <2>1, <2>5, AppendProperties
    <2>7. /\ DOMAIN joined \subseteq DOMAIN joined'
          /\ \A n \in DOMAIN joined : joined'[n] = joined[n]
          /\ \E n \in DOMAIN joined' : joined'[n] = pair
      BY <2>6
    <2>8. output \in Seq(S \cup U) /\ results \in Seq(S \cup U)
      BY <1>1, <2>4, SeqMonotonic
    <2> DEFINE m == Len(output)
               k == Len(results)
    <2>9. /\ output' \in Seq(S \cup U) /\ m \in Nat /\ k \in Nat
          /\ DOMAIN output = 1..m /\ DOMAIN results = 1..k /\ DOMAIN output' = 1..m + k
          /\ \A i \in 1..m + k : output'[i] = IF i <= m THEN output[i] ELSE results[i - m]
      <3>1. Len(output \o results) = m + k /\ output \o results \in Seq(S \cup U)
        BY <2>8, ConcatProperties
      <3> QED
        BY <2>1, <2>8, <3>1, ConcatProperties
    <2> HIDE DEF m, k
    <2>10. ASSUME NEW i \in 1..m + k, output'[i] # EndOfStream
           PROVE  \E n \in DOMAIN joined' : IsFrom(output'[i], joined'[n])
      <3>1. CASE i <= m
        <4>1. i \in DOMAIN output /\ output'[i] = output[i]
          BY <2>9, <3>1
        <4>2. PICK n \in DOMAIN joined : IsFrom(output[i], joined[n])
          BY <1>3, <2>10, <4>1
        <4> QED
          BY <2>7, <4>1, <4>2
      <3>2. CASE ~(i <= m)
        <4>1. i - m \in 1..k
          BY <2>9, <3>2
        <4>2. output'[i] = results[i - m] /\ IsFrom(results[i - m], pair)
          BY <2>3, <2>9, <3>2, <4>1
        <4> QED
          BY <2>7, <4>2
      <3> QED
        BY <3>1, <3>2
    <2> QED
      BY <2>6, <2>9, <2>10 DEF ResultsInv
  <1>8. \/ UNCHANGED <<output, joined>>
        \/ Redo
        \/ \E side \in Sides : PassEnd(side)
        \/ \E side \in Sides : Join(side)
    BY DEF Next, NextImplementation, Send, SendEnd, Arrive, Skip, Collect, Accept, vars
  <1> QED
    BY <1>4, <1>5, <1>6, <1>7, <1>8

LEMMA JoinInduction == (Init => JoinInv) /\ (JoinInv /\ [Next]_vars => JoinInv')
  <1>1. Init => JoinInv
    <2> SUFFICES ASSUME Init
                 PROVE  JoinInv
      OBVIOUS
    <2>1. Flags
      BY DEF Init, Flags
    <2>2. Queues
      BY DEF Init, Queues, Backed
    <2>3. /\ window \in [Sides -> Windows]
          /\ synopsis = [side \in Sides |-> Synopsis!NewSynopsis(window[side])]
          /\ sent = [side \in Sides |-> <<>>] /\ input = sent
          /\ needsTuple = [side \in Sides |-> TRUE]
          /\ output = <<>> /\ joined = <<>>
      BY DEF Init
    <2>4. ASSUME NEW side \in Sides
          PROVE  /\ SynopsisOK(window[side], synopsis[side])
                 /\ Contents(window[side], sent[side], input[side], synopsis[side], 0)
      <3>1. IsWindow(window[side])
        BY <2>3, JoinAssumption DEF IsWindow
      <3>2. PICK syn : syn = Synopsis!NewSynopsis(window[side])
        OBVIOUS
      <3>3. SynopsisOK(window[side], syn) /\ syn.newcomers = <<>> /\ syn.filled = FALSE
        BY <3>1, <3>2, NewSynopsisOK
      <3>4. <<>> \in Seq(Item)
        OBVIOUS
      <3>5. Contents(window[side], <<>>, <<>>, syn, 0)
        BY <3>3, <3>4, NewContents
      <3> QED
        BY <2>3, <3>2, <3>3, <3>5
    <2>5. SynopsesOK
      BY <2>3, <2>4 DEF SynopsesOK
    <2>6. /\ output \in Seq({}) /\ joined \in Seq({}) /\ DOMAIN output = {} /\ DOMAIN joined = {}
          /\ Len(joined) = 0
      BY <2>3
    <2>7. ResultsInv
      BY <2>6 DEF ResultsInv
    <2>8. \A side \in Sides : Completed(side) = 0
      BY <2>3, <2>6 DEF Completed
    <2>9. InStep
      BY <2>4, <2>6, <2>8 DEF InStep, PairsWindows
    <2> QED
      BY <2>1, <2>2, <2>5, <2>7, <2>9 DEF JoinInv
  <1>2. JoinInv /\ [Next]_vars => JoinInv'
    BY FlagsKept, QueuesKept, SynopsesKept, ResultsKept, InStepKept DEF JoinInv
  <1> QED
    BY <1>1, <1>2

(* The two sides stay in step: the nth join is of the nth windows of       *)
(* either stream, in whatever order their tuples come in, unless a redo    *)
(* came while one side waited (operator-join.h:88-93,                      *)
(* double-input-operator.h:48-66).                                         *)
THEOREM WindowsArePaired == Spec => []PairsWindows
  <1>1. JoinInv => PairsWindows
    BY DEF JoinInv, InStep, PairsWindows
  <1> QED
    BY <1>1, JoinInduction, PTL DEF Spec

(* A result is of two tuples that match and were in the windows of one     *)
(* join; it arrived when the earlier of them did, and its low water mark   *)
(* is the earliest arrival in both windows, though redos leave the flags   *)
(* as they are (operator-join.h:95-131).                                   *)
THEOREM ResultsAreOfWindows == Spec => []ResultsComeFromWindows
  <1>1. JoinInv => ResultsComeFromWindows
    BY DEF JoinInv, ResultsInv, ResultsComeFromWindows, IsFrom, IsOf
  <1> QED
    BY <1>1, JoinInduction, PTL DEF Spec
=============================================================================
