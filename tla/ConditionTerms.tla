--------------------------- MODULE ConditionTerms ---------------------------
(***************************************************************************)
(* The nodes of conditions of select, combine and join                     *)
(* (core/operator/condition.h), as records: what a term says of tuples,    *)
(* and how it is fitted to the schemas of a join.                          *)
(*                                                                         *)
(* A node is a comparison with a constant, a comparison of attributes or a *)
(* conjunctive of two nodes, each with the flag that NOT sets.  What a     *)
(* check throws is the answer "error"; what a transformation throws, the   *)
(* node Thrown.                                                            *)
(***************************************************************************)
EXTENDS Schemas

WithConstant(name, comparator, value) ==
    [kind |-> "constant", name |-> name, comparator |-> comparator, value |-> value,
     negated |-> FALSE, targetIsLeft |-> TRUE]

WithAttribute(name, comparator, other) ==
    [kind |-> "attribute", name |-> name, comparator |-> comparator, other |-> other,
     negated |-> FALSE]

Conjunctive(left, right, conjunctive) ==
    [kind |-> "conjunctive", conjunctive |-> conjunctive, left |-> left, right |-> right,
     negated |-> FALSE]

Thrown == [kind |-> "thrown"]

IsConjunctive(condition, conjunctive) ==
    condition.kind = "conjunctive" /\ condition.conjunctive = conjunctive

Negate(condition) == [condition EXCEPT !.negated = ~@]

(* && and ||, which come to the right operand, and its error, only if the  *)
(* left one leaves it open                                                 *)
Conjoined(conjunctive, left, right) ==
    IF left = "error" \/ left = (IF conjunctive = "AND" THEN "no" ELSE "yes") THEN left ELSE right

(* An object that could not be looked up throws before it is compared. *)
Compared(object, comparator, target) ==
    IF IsThrown(object) \/ IsThrown(target) THEN "error"
    ELSE CompareObjects(object, comparator, target)

(* check() of the terms, of one tuple or of a pair *)
CheckConstant(term, tuple) == Compared(ValueOf(tuple, term.name), term.comparator, term.value)

(* Mutant: the attributes of a pair are looked up on the wrong sides. *)
CheckTermWrongSides(term, tuples) ==
    CASE term.kind = "constant" ->
             CheckConstant(term, tuples[IF term.targetIsLeft THEN 1 ELSE 2])
      [] term.kind = "attribute" /\ Len(tuples) = 2 ->
             Compared(ValueOf(tuples[2], term.name), term.comparator, ValueOf(tuples[1], term.other))
      [] OTHER -> "error"

CheckTerm(term, tuples) ==
    CASE term.kind = "constant" ->
             CheckConstant(term, tuples[IF term.targetIsLeft THEN 1 ELSE 2])
      [] term.kind = "attribute" /\ Len(tuples) = 2 ->
             Compared(ValueOf(tuples[1], term.name), term.comparator, ValueOf(tuples[2], term.other))
      [] OTHER -> "error"

(* obey_schema() of the terms: a comparison of attributes that is written  *)
(* the other way round is turned, one with a constant looks for its        *)
(* attribute on the left alone, and does not throw.                        *)
TermObeys(term, leftSchema, rightSchema) ==
    IF term.kind = "constant"
    THEN [term EXCEPT !.targetIsLeft = HasAttribute(leftSchema, term.name) \/ @]
    ELSE IF HasAttribute(leftSchema, term.name) /\ HasAttribute(rightSchema, term.other) THEN term
    ELSE IF HasAttribute(leftSchema, term.other) /\ HasAttribute(rightSchema, term.name)
    THEN [term EXCEPT !.name = term.other, !.other = term.name]
    ELSE Thrown

Rebuilt(condition, left, right) ==
    IF Thrown \in {left, right} THEN Thrown ELSE [condition EXCEPT !.left = left, !.right = right]

(* de_morgen() *)
DeMorgan(condition) ==
    [Negate(condition) EXCEPT !.conjunctive = IF @ = "AND" THEN "OR" ELSE "AND",
                              !.left = Negate(@), !.right = Negate(@)]

(* get_right_condition() *)
RightCondition(condition) == condition.left
=============================================================================
