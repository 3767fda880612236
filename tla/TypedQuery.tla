----------------------------- MODULE TypedQuery -----------------------------
(***************************************************************************)
(* What is in the tuples of a query: a chain of operators is declared one  *)
(* by one, each with the schema of its output, and then tuples of typed    *)
(* values go through it.                                                   *)
(*                                                                         *)
(* queues[0] is the stream the adapter reads, queues[n] the output of      *)
(* operator n.  There is one relation, windows tumble, and no concurrency  *)
(* control is on.  What an operator throws is caught by nobody: the query  *)
(* has failed.                                                             *)
(***************************************************************************)
EXTENDS ConditionTerms, SequencesExt, Subsequences

CONSTANTS AttributeLists,   \* attribute lists of declarations
          ValuesOf,         \* the values of each type in tuples
          Terms,            \* the terms of conditions
          NameLists,        \* what a project names
          Width             \* the width of a mean's window

\* Of a condition: what it says of tuples, what becomes of it in a combine,
\* and its normal form
CONSTANTS CheckCondition(_, _), ObeyCondition(_, _, _), NormalForm(_)

\* Bounds
CONSTANTS MaxTerms,         \* terms of a condition
          MaxTermsUsed,     \* terms of a condition that an operator takes
          MaxChain,         \* operators behind the adapter
          MaxRows,          \* rows of the relation
          MaxTuples         \* tuples sent

ASSUME TypedQueryAssumption ==
    /\ Width \in Nat \ {0}
    /\ AttributeLists \subseteq Seq([name : STRING, type : ObjectTypes])
    /\ NameLists \subseteq Seq(STRING)
    /\ DOMAIN ValuesOf = ObjectTypes
    /\ \A type \in ObjectTypes : \A object \in ValuesOf[type] : object.type = type

AttributeNames ==
    UNION {{attributes[n].name : n \in DOMAIN attributes} : attributes \in AttributeLists}

VARIABLES condition,   \* the condition being put together, if any
          parsed,      \* history: the condition as it was parsed
          chain,       \* the operators, from the adapter on
          relation,    \* the relation, if it is declared
          queues,      \* the tuples of each stream
          windows,     \* what a mean has in its window
          clock,       \* Tuple::get_current_time
          sent,        \* history: the tuples sent
          stage        \* declaring, running, refused or failed

rowVars == <<condition, parsed, chain, relation, queues, windows, clock, sent, stage>>
declared == <<condition, parsed, chain, relation>>
flowing == <<queues, windows, clock, sent>>

RowInit ==
    /\ condition = <<>> /\ parsed = <<>>
    /\ chain = <<>> /\ relation = <<>>
    /\ queues = <<>> /\ windows = <<>> /\ sent = <<>>
    /\ clock = 1
    /\ stage = "declaring"

TypeOf(schema, name) == schema.attributes[schema.index[name]].type
DataOf(schema) == {data \in [DOMAIN schema.attributes -> UNION {ValuesOf[type] : type \in ObjectTypes}] :
                      ValidData(schema, data)}
OutputSchema == Last(chain).schema

MayGrow == stage = "declaring" /\ chain # <<>> /\ Len(chain) <= MaxChain

AddOperator(operator) == chain' = Append(chain, operator)

(* condition and condition_term: the grammar adds terms on the right. *)
ParseTerm ==
    /\ MayGrow
    /\ Len(parsed) < MaxTerms
    /\ \E term \in Terms, conjunctive \in {"AND", "OR"} :
        /\ condition' = IF condition = <<>> THEN <<term>>
                        ELSE <<Conjunctive(condition[1], term, conjunctive)>>
        /\ parsed' = Append(parsed, condition'[1])
    /\ UNCHANGED <<chain, relation, stage, flowing>>

(* to_cnf(), of a condition that is not in use *)
Normalise ==
    /\ stage = "declaring" /\ condition # <<>>
    /\ condition' = <<NormalForm(condition[1])>>
    /\ stage' = IF condition' = <<Thrown>> THEN "refused" ELSE stage
    /\ UNCHANGED <<parsed, chain, relation, flowing>>

DeclareStream ==
    /\ stage = "declaring" /\ chain = <<>>
    /\ \E attributes \in AttributeLists :
        chain' = <<[kind |-> "adapter", schema |-> FromAttributes(attributes)]>>
    /\ UNCHANGED <<condition, parsed, relation, stage, flowing>>

DeclareRelation ==
    /\ stage = "declaring" /\ relation = <<>> /\ chain = <<>>
    /\ \E attributes \in AttributeLists :
        relation' = <<[schema |-> FromAttributes(attributes), rows |-> <<>>]>>
    /\ UNCHANGED <<condition, parsed, chain, stage, flowing>>

(* Relation::insert, at the front *)
Insert ==
    /\ stage = "declaring" /\ relation # <<>> /\ chain = <<>>
    /\ Len(relation[1].rows) < MaxRows
    /\ \E data \in DataOf(relation[1].schema) :
        /\ relation' = [relation EXCEPT ![1].rows =
                           <<CreateEasy(relation[1].schema, data, clock)>> \o @]
        /\ clock' = clock + 1
    /\ UNCHANGED <<condition, parsed, chain, stage, queues, windows, sent>>

(* A select takes its condition as it is. *)
Select ==
    /\ MayGrow /\ Len(parsed) \in 1..MaxTermsUsed
    /\ AddOperator([kind |-> "select", schema |-> OutputSchema, condition |-> condition[1]])
    /\ condition' = <<>> /\ parsed' = <<>>
    /\ UNCHANGED <<relation, stage, flowing>>

(* build_new_schema_and_indices() *)
Project ==
    /\ MayGrow /\ condition = <<>>
    /\ \E names \in NameLists :
        LET positions == [n \in DOMAIN names |-> IndexOf(OutputSchema, names[n])]
        IN  IF 0 \in ToSet(positions) THEN stage' = "refused" /\ UNCHANGED chain
            ELSE /\ AddOperator([kind |-> "project", positions |-> positions,
                       schema |-> FromAttributes([n \in DOMAIN names |->
                                      OutputSchema.attributes[positions[n]]])])
                 /\ UNCHANGED stage
    /\ UNCHANGED <<condition, parsed, relation, flowing>>

(* get_relation_by_name() and the constructor of a combine *)
Combine ==
    /\ MayGrow /\ Len(parsed) \in 1..MaxTermsUsed
    /\ LET obeying == ObeyCondition(condition[1], OutputSchema, relation[1].schema)
       IN  IF relation = <<>> \/ obeying = Thrown THEN stage' = "refused" /\ UNCHANGED chain
           ELSE /\ AddOperator([kind |-> "combine", condition |-> obeying,
                                schema |-> ConcatSchemas(OutputSchema, relation[1].schema)])
                /\ UNCHANGED stage
    /\ condition' = <<>> /\ parsed' = <<>>
    /\ UNCHANGED <<relation, flowing>>

(* The name is not looked up before the first window. *)
Mean ==
    /\ MayGrow /\ condition = <<>>
    /\ \E name \in AttributeNames :
        AddOperator([kind |-> "mean", name |-> name,
                     schema |-> AddAttribute(NewSchema, Attribute(name, "FLOAT"))])
    /\ UNCHANGED <<condition, parsed, relation, stage, flowing>>

Elect ==
    /\ MayGrow /\ condition = <<>>
    /\ AddOperator([kind |-> "elect", schema |-> OutputSchema])
    /\ UNCHANGED <<condition, parsed, relation, stage, flowing>>

Run ==
    /\ stage = "declaring" /\ chain # <<>> /\ condition = <<>>
    /\ stage' = "running"
    /\ queues' = [n \in 0..Len(chain) |-> <<>>]
    /\ windows' = [n \in DOMAIN chain |-> <<>>]
    /\ UNCHANGED <<declared, clock, sent>>

(* A sender makes a tuple of the stream's schema. *)
Send ==
    /\ stage = "running" /\ Len(sent) < MaxTuples
    /\ \E data \in DataOf(chain[1].schema) :
        LET tuple == CreateEasy(chain[1].schema, data, clock)
        IN  /\ queues' = [queues EXCEPT ![0] = Append(@, tuple)]
            /\ sent' = Append(sent, tuple)
    /\ clock' = clock + 1
    /\ UNCHANGED <<declared, windows, stage>>

(* What operator n makes of a tuple: whether it throws, and its output *)
Passed(tuples) == [throws |-> FALSE, out |-> tuples]
Throws == [throws |-> TRUE, out |-> <<>>]

SelectFrom(operator, tuple) ==
    LET answer == CheckCondition(operator.condition, <<tuple>>)
    IN  IF answer = "error" THEN Throws ELSE Passed(IF answer = "yes" THEN <<tuple>> ELSE <<>>)

ProjectFrom(operator, tuple) ==
    Passed(<<CreateTuple(operator.schema, [n \in DOMAIN operator.positions |->
                             ValueAt(tuple, operator.positions[n])], tuple.arrived)>>)

CombineFrom(operator, tuple) ==
    LET Matches(row) == CheckCondition(operator.condition, <<tuple, row>>)
        Combined(row) == CreateTuple(operator.schema, ConcatenatedData(tuple, row), tuple.arrived)
        rows == relation[1].rows
    IN  IF \E n \in DOMAIN rows : Matches(rows[n]) = "error" THEN Throws
        ELSE Passed(LET matching == Chosen(rows, {n \in DOMAIN rows : Matches(rows[n]) = "yes"})
                    IN  [n \in DOMAIN matching |-> Combined(matching[n])])

(* calculate_mean_(): the sum stays what an addition or a look-up throws.  *)
SumOf(operator, window) ==
    LET sum[n \in 0..Len(window)] ==
            IF n = 0 THEN Object("FLOAT", <<0, 1>>)
            ELSE LET value == ValueOf(window[n], operator.name)
                 IN  IF IsThrown(sum[n - 1]) THEN sum[n - 1]
                     ELSE IF IsThrown(value) THEN value ELSE Add(sum[n - 1], value)
    IN  sum[Len(window)]

MeanOf(operator, window) ==
    LET sum == SumOf(operator, window)
        mean == IF IsThrown(sum) THEN sum ELSE Divide(sum, Object("FLOAT", <<Width, 1>>))
    IN  IF IsThrown(mean) THEN Throws
        ELSE Passed(<<CreateEasy(operator.schema, <<mean>>, clock)>>)

MeanFrom(operator, window) ==
    IF Len(window) < Width THEN Passed(<<>>) ELSE MeanOf(operator, window)

Processed(n, tuple) ==
    CASE chain[n].kind \in {"adapter", "elect"} -> Passed(<<tuple>>)
      [] chain[n].kind = "select" -> SelectFrom(chain[n], tuple)
      [] chain[n].kind = "project" -> ProjectFrom(chain[n], tuple)
      [] chain[n].kind = "combine" -> CombineFrom(chain[n], tuple)
      [] chain[n].kind = "mean" -> MeanFrom(chain[n], Append(windows[n], tuple))

(* next_implementation() of operator n, when it has a tuple *)
Process(n) ==
    /\ stage = "running" /\ queues[n - 1] # <<>>
    /\ LET tuple == Head(queues[n - 1])
           result == Processed(n, tuple)
           window == Append(windows[n], tuple)
       IN  /\ queues' = [queues EXCEPT ![n - 1] = Tail(@), ![n] = @ \o result.out]
           /\ stage' = IF result.throws THEN "failed" ELSE stage
           /\ windows' = [windows EXCEPT ![n] =
                  IF chain[n].kind # "mean" \/ Len(window) = Width THEN <<>> ELSE window]
           /\ clock' = IF chain[n].kind = "mean" THEN clock + Len(result.out) ELSE clock
    /\ UNCHANGED <<declared, sent>>

RowNext ==
    \/ ParseTerm \/ Normalise
    \/ DeclareStream \/ DeclareRelation \/ Insert
    \/ Select \/ Project \/ Combine \/ Mean \/ Elect
    \/ Run \/ Send
    \/ \E n \in DOMAIN chain : Process(n)

RowSpec == RowInit /\ [][RowNext]_rowVars

-----------------------------------------------------------------------------
(* What comes out of an operator is never the null pointer that            *)
(* Tuple::create returns, and its data are of the schema that the operator *)
(* has declared for its output, down the whole chain (tuple.h:127,          *)
(* operator-projection.h:65-81, operator-simple-relation-join.h:66-72).    *)
RowsObeySchemas ==
    stage = "running" =>
        \A n \in DOMAIN chain : \A m \in DOMAIN queues[n] :
            LET tuple == queues[n][m]
            IN  ~tuple.null /\ tuple.schema = chain[n].schema /\ ValidData(chain[n].schema, tuple.data)

(* Before the first mean, a name means in every tuple what it meant in the *)
(* tuple that was sent, or, once a combine has brought an attribute of     *)
(* that name along, what it means in a row of the relation (schema.h:94,   *)
(* tuple.h:185-197, operator-projection.h:47-59).                          *)
NamesKeepTheirMeaning ==
    stage = "running" =>
        \A n \in DOMAIN chain :
            LET above == {chain[m] : m \in 1..n}
                Brought(name) == /\ \E operator \in above : operator.kind = "combine"
                                 /\ HasAttribute(relation[1].schema, name)
                Origins(tuple, name) ==
                    IF Brought(name) THEN ToSet(relation[1].rows)
                    ELSE {origin \in ToSet(sent) : origin.arrived = tuple.arrived}
            IN  (\A operator \in above : operator.kind # "mean") =>
                    \A m \in DOMAIN queues[n] : \A name \in DOMAIN chain[n].schema.index :
                        \E origin \in Origins(queues[n][m], name) :
                            ValueOf(queues[n][m], name) = ValueOf(origin, name)
=============================================================================
