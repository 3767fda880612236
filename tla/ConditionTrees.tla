--------------------------- MODULE ConditionTrees ---------------------------
(***************************************************************************)
(* The conditions of select, combine and join (core/operator/condition.h), *)
(* trees of the nodes of ConditionTerms: what they say of tuples, how a    *)
(* join fits them to its schemas, and their normal form.                   *)
(***************************************************************************)
EXTENDS ConditionTerms

RECURSIVE Check(_, _)
Check(condition, tuples) ==
    IF condition.kind = "conjunctive"
    THEN Conjoined(condition.conjunctive, Check(condition.left, tuples), Check(condition.right, tuples))
    ELSE CheckTerm(condition, tuples)

RECURSIVE ObeySchema(_, _, _)
ObeySchema(condition, leftSchema, rightSchema) ==
    IF condition.kind = "conjunctive"
    THEN Rebuilt(condition, ObeySchema(condition.left, leftSchema, rightSchema),
                 ObeySchema(condition.right, leftSchema, rightSchema))
    ELSE TermObeys(condition, leftSchema, rightSchema)

(* shove_negation(), from the top down *)
RECURSIVE ShoveNegation(_)
ShoveNegation(condition) ==
    IF condition.kind # "conjunctive" THEN condition
    ELSE LET shoved == IF condition.negated THEN DeMorgan(condition) ELSE condition
         IN  Rebuilt(shoved, ShoveNegation(shoved.left), ShoveNegation(shoved.right))

(* equal_to(), which goes neither by the flag of NOT nor by AND and OR *)
RECURSIVE EqualTo(_, _)
EqualTo(condition, target) ==
    IF condition.kind # target.kind THEN "no"
    ELSE CASE condition.kind = "conjunctive" ->
                  Conjoined("AND", EqualTo(condition.left, target.left),
                            EqualTo(condition.right, RightCondition(target)))
           [] condition.kind = "constant" ->
                  IF condition.name = target.name /\ condition.comparator = target.comparator
                  THEN CompareObjects(condition.value, "==", target.value) ELSE "no"
           [] condition.kind = "attribute" ->
                  Answer(/\ condition.name = target.name /\ condition.other = target.other
                         /\ condition.comparator = target.comparator)

(* Mutant: Q && P *)
InjectedByAnd(part, inject) ==
    CASE EqualTo(inject, part) = "yes" -> inject
      [] EqualTo(inject, part) = "no" -> Conjunctive(part, inject, "AND")
      [] OTHER -> Thrown

(* Q || P, or P alone if they are equal *)
Injected(part, inject) ==
    CASE EqualTo(inject, part) = "yes" -> inject
      [] EqualTo(inject, part) = "no" -> Conjunctive(part, inject, "OR")
      [] OTHER -> Thrown

(* distribute_disjunction(), from the bottom up: a conjunction below a     *)
(* disjunction is taken apart, the left one if both sides are.             *)
RECURSIVE DistributeDisjunction(_)
DistributeDisjunction(condition) ==
    IF condition.kind # "conjunctive" THEN condition
    ELSE LET below == Rebuilt(condition, DistributeDisjunction(condition.left),
                              DistributeDisjunction(condition.right))
             Distributed(decompose, inject) ==
                 Rebuilt([below EXCEPT !.conjunctive = "AND"],
                         Injected(decompose.left, inject), Injected(RightCondition(decompose), inject))
         IN  IF below = Thrown \/ condition.conjunctive # "OR" THEN below
             ELSE IF IsConjunctive(below.left, "AND") THEN Distributed(below.left, below.right)
             ELSE IF IsConjunctive(below.right, "AND") THEN Distributed(below.right, below.left)
             ELSE below

(* to_cnf() *)
ToCNF(condition) == DistributeDisjunction(ShoveNegation(condition))
=============================================================================
