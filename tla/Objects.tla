------------------------------ MODULE Objects ------------------------------
(***************************************************************************)
(* Values (core/object.h) and the arithmetic on them                       *)
(* (core/operation/operations.h), as operators over records.               *)
(*                                                                         *)
(* A FLOAT is a fraction <<n, d>> with d > 0 and a STRING the sequence of  *)
(* the pieces it was put together from; a BLOB is the place it is at.      *)
(* Integers stay far from the limits of their width.                       *)
(***************************************************************************)
EXTENDS Integers, Sequences

ObjectTypes == {"INT", "FLOAT", "STRING", "BLOB"}
NumberTypes == {"INT", "FLOAT"}
Comparators == {"==", "!=", "<", "<=", ">", ">="}

Object(type, value) == [type |-> type, value |-> value]

(* What an operation throws, as an object of a type of its own *)
TypeError == Object("UNKNOWN", "TypeError")
TypeMismatch == Object("UNKNOWN", "TYPE_MISMATCH")
UnsupportedOperation == Object("UNKNOWN", "UNSUPPORTED_OPERATION")
IsThrown(object) == object.type = "UNKNOWN"

(* cast_to(): numbers only, and a FLOAT loses its fraction. *)
CastTo(object, type) ==
    CASE object.type = type -> object
      [] object.type = "INT" /\ type = "FLOAT" -> Object("FLOAT", <<object.value, 1>>)
      [] object.type = "FLOAT" /\ type = "INT" ->
             Object("INT", object.value[1] \div object.value[2])
      [] OTHER -> TypeError

(* generic_compare_(), of integers *)
CompareIntegers(x, comparator, y) ==
    CASE comparator = "==" -> x = y
      [] comparator = "!=" -> x # y
      [] comparator = "<" -> x < y
      [] comparator = "<=" -> x <= y
      [] comparator = ">" -> x > y
      [] comparator = ">=" -> x >= y

CompareFractions(x, comparator, y) == CompareIntegers(x[1] * y[2], comparator, y[1] * x[2])

(* compare(): a string is compared with itself, and a blob with nothing.   *)
CompareSameType(object, comparator, target) ==
    CASE object.type = "INT" -> CompareIntegers(object.value, comparator, target.value)
      [] object.type = "FLOAT" -> CompareFractions(object.value, comparator, target.value)
      [] object.type = "STRING" -> comparator \in {"==", "<=", ">="}
      [] OTHER -> FALSE

Answer(holds) == IF holds THEN "yes" ELSE "no"

CompareObjects(object, comparator, target) ==
    IF object.type = target.type THEN Answer(CompareSameType(object, comparator, target))
    ELSE IF {object.type, target.type} = NumberTypes
    THEN Answer(CompareFractions(CastTo(object, "FLOAT").value, comparator,
                                 CastTo(target, "FLOAT").value))
    ELSE "error"

(* The text of an object within a string: numbers of one value look alike. *)
Text(object) ==
    IF object.type = "STRING" THEN object.value
    ELSE LET fraction == CastTo(object, "FLOAT").value
         IN  <<IF fraction[1] % fraction[2] = 0 THEN <<fraction[1] \div fraction[2], 1>> ELSE fraction>>

(* Operation::add, with strings; blobs are refused on either side. *)
Add(left, right) ==
    IF left.type = "BLOB" THEN UnsupportedOperation
    ELSE IF right.type = "BLOB" THEN TypeMismatch
    ELSE IF "STRING" \in {left.type, right.type} THEN Object("STRING", Text(left) \o Text(right))
    ELSE IF left.type = "INT" /\ right.type = "INT" THEN Object("INT", left.value + right.value)
    ELSE LET x == CastTo(left, "FLOAT").value
             y == CastTo(right, "FLOAT").value
         IN  Object("FLOAT", <<x[1] * y[2] + y[1] * x[2], x[2] * y[2]>>)

(* Operation::divide, of numbers; the divisor is not 0. *)
Divide(left, right) ==
    IF left.type \notin NumberTypes THEN UnsupportedOperation
    ELSE IF right.type \notin NumberTypes THEN TypeMismatch
    ELSE IF left.type = "INT" /\ right.type = "INT" THEN Object("INT", left.value \div right.value)
    ELSE LET x == CastTo(left, "FLOAT").value
             y == CastTo(right, "FLOAT").value
         IN  Object("FLOAT", <<x[1] * y[2], x[2] * y[1]>>)
=============================================================================
