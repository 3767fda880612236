----------------------------- MODULE Conditions -----------------------------
(***************************************************************************)
(* How CPL builds a condition (query/cpl-parser.y), how a join fits it to  *)
(* the schemas of its inputs, and what it says of tuples.                  *)
(*                                                                         *)
(* The grammar puts terms together from left to right.  Values are         *)
(* integers; TypedQuery has conditions on values of every type.            *)
(***************************************************************************)
EXTENDS ConditionTrees

CONSTANTS LeftSchema, RightSchema,   \* the names of the attributes of the inputs
          Values,                    \* values, all integers
          MaxTerms, MaxNots          \* bounds: terms; NOTs before a term

Names == LeftSchema \cup RightSchema

(* Comparisons of a field with an object, and of a field with a field *)
Terms == {WithConstant(name, comparator, Object("INT", value)) :
              name \in Names, comparator \in Comparators, value \in Values}
         \cup {WithAttribute(name, comparator, other) :
              name \in Names, comparator \in Comparators, other \in Names}

(* The schema and the tuples of an input *)
SchemaOf(names) ==
    LET schema[rest \in SUBSET names] ==
            IF rest = {} THEN NewSchema
            ELSE LET name == CHOOSE name \in rest : TRUE
                 IN  AddAttribute(schema[rest \ {name}], Attribute(name, "INT"))
    IN  Freeze(schema[names])

TuplesOf(names) ==
    LET schema == SchemaOf(names)
    IN  {CreateTuple(schema, data, 0) :
             data \in [DOMAIN schema.attributes -> {Object("INT", value) : value \in Values}]}

VARIABLES condition,   \* the condition, if there is one yet
          terms,       \* how many terms it has
          use,         \* what the condition is for
          stage,       \* parsing, in use, or refused
          checked      \* the last check: its tuples and its answer

vars == <<condition, terms, use, stage, checked>>

Init == /\ condition = <<>> /\ terms = 0
        /\ use \in {"select", "join"}
        /\ stage = "parsing"
        /\ checked = [answer |-> "none"]

(* A term, and the NOTs before it, each of which negates it *)
Parse ==
    /\ stage = "parsing" /\ terms < MaxTerms
    /\ \E term \in Terms, conjunctive \in {"AND", "OR"}, nots \in 0..MaxNots :
        LET new == [term EXCEPT !.negated = nots % 2 = 1]
        IN  condition' = IF condition = <<>> THEN <<new>>
                         ELSE <<Conjunctive(condition[1], new, conjunctive)>>
    /\ terms' = terms + 1
    /\ UNCHANGED <<use, stage, checked>>

(* obey_schema(), in the constructor of a join *)
Obey ==
    /\ stage = "parsing" /\ use = "join" /\ condition # <<>>
    /\ condition' = <<ObeySchema(condition[1], SchemaOf(LeftSchema), SchemaOf(RightSchema))>>
    /\ stage' = IF condition'[1] = Thrown THEN "refused" ELSE "used"
    /\ UNCHANGED <<terms, use, checked>>

(* A select takes its condition as it is. *)
Take ==
    /\ stage = "parsing" /\ use = "select" /\ condition # <<>>
    /\ stage' = "used"
    /\ UNCHANGED <<condition, terms, use, checked>>

Asked(tuples) == IF use = "join" THEN tuples ELSE <<tuples[1]>>

(* process_single_input of a select, or one pair of a join *)
Ask ==
    /\ stage = "used"
    /\ \E left \in TuplesOf(LeftSchema), right \in TuplesOf(RightSchema) :
        checked' = [tuples |-> Asked(<<left, right>>),
                    answer |-> Check(condition[1], Asked(<<left, right>>))]
    /\ UNCHANGED <<condition, terms, use, stage>>

Next == Parse \/ Obey \/ Take \/ Ask

Spec == Init /\ [][Next]_vars

-----------------------------------------------------------------------------
(* A condition of a single term behind NOT holds just where the term does  *)
(* not, as "!(...)" in what test_condition_parser.cpp:20-25 expects says   *)
(* (condition.h:32-35, cpl-parser.y:265-268).                              *)
NotNegates ==
    checked.answer \in {"yes", "no"} /\ terms = 1 /\ condition[1].negated =>
        checked.answer # Check(Negate(condition[1]), checked.tuples)
=============================================================================
