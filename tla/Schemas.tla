------------------------------ MODULE Schemas ------------------------------
(***************************************************************************)
(* Schemas (core/schema.h) and tuples of data (core/tuple.h), as operators *)
(* over records.                                                           *)
(*                                                                         *)
(* A schema keeps its attributes in order and an index from names to       *)
(* positions, both of which add_attribute changes; positions count from 1  *)
(* and "no position" is 0 where the code has -1.                           *)
(***************************************************************************)
EXTENDS Objects

Attribute(name, type) == [name |-> name, type |-> type]

NewSchema == [attributes |-> <<>>, index |-> <<>>, frozen |-> FALSE]

(* Mutant: a name keeps meaning the first attribute that has it. *)
AddAttributeFirstCounts(schema, attribute) ==
    IF schema.frozen THEN schema
    ELSE [schema EXCEPT !.attributes = Append(@, attribute),
                        !.index = [name \in {attribute.name} \cup DOMAIN schema.index |->
                                      IF name \in DOMAIN schema.index THEN schema.index[name]
                                      ELSE Len(schema.attributes) + 1]]

(* add_attribute(): a second attribute of one name is appended, and the    *)
(* name means it from then on; a frozen schema stays as it is.             *)
AddAttribute(schema, attribute) ==
    IF schema.frozen THEN schema
    ELSE [schema EXCEPT !.attributes = Append(@, attribute),
                        !.index = [name \in {attribute.name} \cup DOMAIN schema.index |->
                                      IF name = attribute.name THEN Len(schema.attributes) + 1
                                      ELSE schema.index[name]]]

Freeze(schema) == [schema EXCEPT !.frozen = TRUE]

AddAttributes(schema, attributes) ==
    LET added[n \in 0..Len(attributes)] ==
            IF n = 0 THEN schema ELSE AddAttribute(added[n - 1], attributes[n])
    IN  added[Len(attributes)]

(* from_attributes() and from_attribute_pointers(), define_stream() *)
FromAttributes(attributes) == Freeze(AddAttributes(NewSchema, attributes))

(* concat_schemas(), which leaves its result open *)
ConcatSchemas(left, right) ==
    AddAttributes(AddAttributes(NewSchema, left.attributes), right.attributes)

HasAttribute(schema, name) == name \in DOMAIN schema.index

IndexOf(schema, name) == IF HasAttribute(schema, name) THEN schema.index[name] ELSE 0

(* validate_data() *)
ValidData(schema, data) ==
    /\ Len(data) = Len(schema.attributes)
    /\ \A n \in DOMAIN data : data[n].type = schema.attributes[n].type

NoTuple == [schema |-> NewSchema, data |-> <<>>, arrived |-> 0, null |-> TRUE]

(* Tuple::create: a null pointer when the data are not of the schema *)
CreateTuple(schema, data, arrived) ==
    IF ValidData(schema, data)
    THEN [schema |-> schema, data |-> data, arrived |-> arrived, null |-> FALSE]
    ELSE NoTuple

(* create_easy(), of any number of values *)
CreateEasy(schema, values, time) == CreateTuple(schema, values, time)

(* assert_has_attribute_() of a tuple throws. *)
NoSuchAttribute == Object("UNKNOWN", "no such attribute")

ValueAt(tuple, position) ==
    IF position \in DOMAIN tuple.data THEN tuple.data[position] ELSE NoSuchAttribute

ValueOf(tuple, name) == ValueAt(tuple, IndexOf(tuple.schema, name))

(* Mutant: the data of the target come first. *)
ConcatenatedDataSwapped(tuple, target) == target.data \o tuple.data

ConcatenatedData(tuple, target) == tuple.data \o target.data
=============================================================================
