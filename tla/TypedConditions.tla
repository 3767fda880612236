-------------------------- MODULE TypedConditions --------------------------
(***************************************************************************)
(* TypedQuery with the conditions of ConditionTrees: when a check throws,  *)
(* and what the normal form does to a condition.                           *)
(***************************************************************************)
EXTENDS TypedQuery, ConditionTrees

(* Types that compare() takes together *)
Comparable(type, other) == type = other \/ {type, other} = NumberTypes

RECURSIVE TermsOf(_)
TermsOf(node) ==
    IF node.kind = "conjunctive" THEN TermsOf(node.left) \cup TermsOf(node.right) ELSE {node}

FitsConstant(term, schema) ==
    /\ term.kind = "constant" /\ HasAttribute(schema, term.name)
    /\ Comparable(TypeOf(schema, term.name), term.value.type)

FitsPair(term, schema) ==
    /\ term.kind = "attribute"
    /\ HasAttribute(schema, term.name) /\ HasAttribute(relation[1].schema, term.other)
    /\ Comparable(TypeOf(schema, term.name), TypeOf(relation[1].schema, term.other))

(* The chain can be told to run by looking at its schemas. *)
WellTyped(operator, schema) ==
    CASE operator.kind = "select" ->
             \A term \in TermsOf(operator.condition) : FitsConstant(term, schema)
      [] operator.kind = "combine" ->
             \A term \in TermsOf(operator.condition) :
                 FitsConstant(term, schema) \/ FitsPair(term, schema)
      [] operator.kind = "mean" ->
             HasAttribute(schema, operator.name) /\ TypeOf(schema, operator.name) \in NumberTypes
      [] OTHER -> TRUE

(* A query only fails when one of the parts that no constructor looks at   *)
(* is wrong: the names and types of conditions with constants, the types   *)
(* of compared attributes, the name and type of what a mean is over        *)
(* (operator-selection.h:24-33, operator-mean.h:36-51, condition.h:265).   *)
OnlyUncheckedPartsFail ==
    stage = "failed" => \E n \in 2..Len(chain) : ~WellTyped(chain[n], chain[n - 1].schema)

(* Rows to try a condition on *)
SampleRows ==
    {CreateTuple(schema, data, 0) : <<schema, data>> \in
        UNION {{<<FromAttributes(attributes), data>> : data \in DataOf(FromAttributes(attributes))} :
                   attributes \in AttributeLists}}

(* The normal form of a condition accepts every row that the condition     *)
(* accepts: wherever a conjunction under a disjunction is taken apart,     *)
(* what is put in its place is no narrower (condition.h:139-196).          *)
NormalFormLosesNoRow ==
    condition # <<>> /\ stage = "declaring" =>
        \A row \in SampleRows :
            Check(Last(parsed), <<row>>) = "yes" => Check(condition[1], <<row>>) = "yes"
=============================================================================
