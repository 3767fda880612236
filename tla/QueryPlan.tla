----------------------------- MODULE QueryPlan -----------------------------
(***************************************************************************)
(* How the statements of CPL build the operators of a plan                 *)
(* (query/cpl.h), and what the scheduler finds out about a query when it   *)
(* is made: the turns of its operators, the operator that commits, and the *)
(* redo area with the streams that are backed up (commit-operator-finder.h,*)
(* redo-area.h, operator-visitor-serializer.h).                            *)
(*                                                                         *)
(* A plan is a sequence of operators in the order they were made; an       *)
(* operator is its kind and the positions of its inputs.  A select stands  *)
(* for a project too, and a mean for an election: the walks cannot tell    *)
(* them apart.  A stream is the output of an operator and is named by it.  *)
(***************************************************************************)
EXTENDS Naturals, Sequences, FiniteSets, Functions

CONSTANTS StreamNames,   \* names of streams
          Operations,    \* the blocks of operations a statement may have
          MaxOperators,  \* bound: operators in a plan
          MaxJoins       \* bound: joins among them

SingleKinds == {"select", "combine", "mean"}
WindowKinds == {"mean", "join"}

ASSUME PlanAssumption == /\ Operations \subseteq Seq(SingleKinds)
                         /\ MaxOperators \in Nat
                         /\ MaxJoins \in Nat

NoOperator == 0

Operator(kind, inputs) == [kind |-> kind, inputs |-> inputs]

-----------------------------------------------------------------------------
(* The walks, each a function of the operator it starts from.  The parent  *)
(* of an operator with a single input is its left parent here.             *)

Left(op) == op.inputs[1]
Right(op) == op.inputs[2]

(* Mutant: the left parent is visited twice. *)
LeftTwice(left, right, op) == left \o left \o <<op>>

(* visit() of a join: its inputs first, then the join *)
JoinTurns(left, right, op) == left \o right \o <<op>>

(* serialize_tree() *)
Serialized(plan) ==
    LET visit[op \in DOMAIN plan] ==
            CASE plan[op].kind = "adapter" -> <<op>>
              [] plan[op].kind \in SingleKinds -> Append(visit[Left(plan[op])], op)
              [] plan[op].kind = "join" -> JoinTurns(visit[Left(plan[op])], visit[Right(plan[op])], op)
    IN  visit

(* Mutant: every window ends a transaction. *)
IsWindow(kind, upstreamHasReference) == kind \in WindowKinds

(* "This node is a commit operator candidate": a window downstream of a combine *)
IsCandidate(kind, upstreamHasReference) == kind \in WindowKinds /\ upstreamHasReference

(* find_commit_operator_(): whether there is a combine in the subtree, and *)
(* the candidate found last; a candidate downstream is found after those   *)
(* upstream of it, and one to the right after those to the left.           *)
CommitSearch(plan) ==
    LET find[op \in DOMAIN plan] ==
            LET kind == plan[op].kind
                left == find[Left(plan[op])]
                right == find[Right(plan[op])]
            IN  CASE kind = "adapter" -> [reference |-> FALSE, commit |-> NoOperator]
                  [] kind \in SingleKinds ->
                        [reference |-> left.reference \/ kind = "combine",
                         commit |-> IF IsCandidate(kind, left.reference) THEN op ELSE left.commit]
                  [] kind = "join" ->
                        [reference |-> left.reference \/ right.reference,
                         commit |-> IF IsCandidate(kind, left.reference \/ right.reference) THEN op
                                   ELSE IF right.commit # NoOperator THEN right.commit
                                   ELSE left.commit]
    IN  find

(* Mutant: a join backs up its left input only. *)
LeftInputAside(op, left, right) == IF ~left.reference /\ right.reference THEN <<Left(op)>> ELSE <<>>

(* The input of a join that no combine is upstream of, if the other has one *)
InputAside(op, left, right) ==
    CASE ~left.reference /\ right.reference -> <<Left(op)>>
      [] left.reference /\ ~right.reference -> <<Right(op)>>
      [] OTHER -> <<>>

(* Mutant: what comes after the last window is redone too. *)
AnyDownstream(kind, reference, downstreamHasWindow) == reference

(* Whether a redo resets an operator *)
InRedoArea(kind, reference, downstreamHasWindow) ==
    reference /\ (downstreamHasWindow \/ kind \in WindowKinds)

(* setup_redo_queue_(): whether there is a combine in the subtree that has *)
(* a window downstream, and what the walk adds to the redo area.           *)
RedoSearch(plan) ==
    LET setup[op \in DOMAIN plan] == [downstreamHasWindow \in BOOLEAN |->
            LET kind == plan[op].kind
                windowed == downstreamHasWindow \/ kind \in WindowKinds
                left == setup[Left(plan[op])][windowed]
                right == setup[Right(plan[op])][windowed]
                isLeaf == kind = "combine" /\ ~left.reference /\ downstreamHasWindow
                OfSelf(reference) ==
                    IF InRedoArea(kind, reference, downstreamHasWindow) THEN <<op>> ELSE <<>>
            IN  CASE kind = "adapter" ->
                        [reference |-> FALSE, streams |-> <<>>, operators |-> <<>>, leaves |-> {}]
                  [] kind \in SingleKinds ->
                        [reference |-> left.reference \/ isLeaf,
                         streams |-> left.streams \o (IF isLeaf THEN <<Left(plan[op])>> ELSE <<>>),
                         operators |-> left.operators \o OfSelf(left.reference \/ isLeaf),
                         leaves |-> left.leaves \cup (IF isLeaf THEN {op} ELSE {})]
                  [] kind = "join" ->
                        [reference |-> left.reference \/ right.reference,
                         streams |-> left.streams \o right.streams \o InputAside(plan[op], left, right),
                         operators |-> left.operators \o right.operators
                                       \o OfSelf(left.reference \/ right.reference),
                         leaves |-> left.leaves \cup right.leaves]]
    IN  setup

-----------------------------------------------------------------------------
VARIABLES plan,      \* the operators made so far
          streams,   \* name -> the operator a stream of that name is the output of
          query      \* what the scheduler keeps of its query, once there is one

vars == <<plan, streams, query>>

NoQuery == [root |-> NoOperator]

Init == /\ plan = <<>>
        /\ streams = [name \in StreamNames |-> NoOperator]
        /\ query = NoQuery

(* to_operator() for one operation after another, each on top of the last *)
WithOperations(operators, root, operations) ==
    operators \o [i \in DOMAIN operations |->
        Operator(operations[i], <<IF i = 1 THEN root ELSE Len(operators) + i - 1>>)]

(* CPLStreamDeclaration::declare(): a name may be declared again. *)
Declare(name, operators, root) ==
    /\ query = NoQuery
    /\ Len(operators) <= MaxOperators
    /\ Cardinality({op \in DOMAIN operators : operators[op].kind = "join"}) <= MaxJoins
    /\ plan' = operators
    /\ streams' = [streams EXCEPT ![name] = root]
    /\ UNCHANGED query

(* stream name(...) *)
NewStream(name) ==
    LET operators == Append(plan, Operator("adapter", <<>>))
    IN  Declare(name, operators, Len(operators))

(* stream name from source { operations }; with none, another name for it *)
DeriveSingle(name, source, operations) ==
    LET operators == WithOperations(plan, streams[source], operations)
    IN  /\ streams[source] # NoOperator
        /\ Declare(name, operators, IF operations = <<>> THEN streams[source] ELSE Len(operators))

(* stream name from left[...], right[...] where ... { operations } *)
DeriveJoined(name, left, right, operations) ==
    LET joined == Append(plan, Operator("join", <<streams[left], streams[right]>>))
        operators == WithOperations(joined, Len(joined), operations)
    IN  /\ streams[left] # NoOperator
        /\ streams[right] # NoOperator
        /\ Declare(name, operators, Len(operators))

(* A scheduler is made for the query that outputs the stream. *)
Schedule(name) ==
    LET root == streams[name]
        redo == RedoSearch(plan)[root][FALSE]
    IN  /\ query = NoQuery
        /\ root # NoOperator
        /\ query' = [root |-> root,
                     operators |-> Serialized(plan)[root],
                     commit |-> CommitSearch(plan)[root].commit,
                     redoStreams |-> redo.streams,
                     redoOperators |-> redo.operators,
                     leaves |-> redo.leaves]
        /\ UNCHANGED <<plan, streams>>

Next == \E name \in StreamNames :
    \/ NewStream(name)
    \/ \E source \in StreamNames, operations \in Operations : DeriveSingle(name, source, operations)
    \/ \E left, right \in StreamNames, operations \in Operations :
           DeriveJoined(name, left, right, operations)
    \/ Schedule(name)

Spec == Init /\ [][Next]_vars

-----------------------------------------------------------------------------
(* The reference definitions, by paths through the plan.                   *)

Inputs(op) == Range(plan[op].inputs)

Upstream ==
    LET up[op \in DOMAIN plan] == Inputs(op) \cup UNION {up[i] : i \in Inputs(op)}
    IN  up

Combines(ops) == {op \in ops : plan[op].kind = "combine"}

(* The operators upstream of root, and root, with a combine among themselves *)
(* and the operators upstream of them                                        *)
OnRelations(upstream, root) ==
    {op \in {root} \cup upstream[root] : Combines({op} \cup upstream[op]) # {}}

Scheduled == query # NoQuery

(* There is a commit operator iff some window depends on a relation, and   *)
(* all windows that do are upstream of it: no operator ends a transaction  *)
(* that another window is still part of (commit-operator-finder.h:42-77).  *)
CommitIsLast ==
    Scheduled =>
        LET upstream == Upstream
            windows == {op \in OnRelations(upstream, query.root) : plan[op].kind \in WindowKinds}
        IN  /\ query.commit = NoOperator <=> windows = {}
            /\ query.commit # NoOperator =>
                   /\ query.commit \in windows
                   /\ windows \subseteq {query.commit} \cup upstream[query.commit]

(* What a redo resets (redo-area.h:47-147) is what a transaction consists  *)
(* of: the operators up to the commit operator whose output depends on a   *)
(* relation, and no other.                                                 *)
RedoAreaIsTransaction ==
    Scheduled =>
        Range(query.redoOperators) =
            IF query.commit = NoOperator THEN {} ELSE OnRelations(Upstream, query.commit)

(* What a redo replays is all that enters the redo area: every input of    *)
(* one of its operators either comes from another of them, which is reset, *)
(* or is backed up; nothing else is; and the leaves, which efficient       *)
(* scheduling calls once in a turn, are the combines that read a backup.   *)
RedoStreamsEnterArea ==
    Scheduled =>
        LET area == Range(query.redoOperators)
            entering == (UNION {Inputs(op) : op \in area}) \ area
        IN  /\ Range(query.redoStreams) = entering
            /\ query.leaves = {op \in Combines(area) : Inputs(op) \subseteq entering}

(* Each operator of the query has a turn, after its inputs have had one.   *)
TurnsFollowInputs ==
    Scheduled =>
        /\ Range(query.operators) = {query.root} \cup Upstream[query.root]
        /\ \A i \in DOMAIN query.operators : \A input \in Inputs(query.operators[i]) :
               \E j \in 1..(i - 1) : query.operators[j] = input
=============================================================================
