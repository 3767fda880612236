---------------------------- MODULE MCTypedQuery ----------------------------
(***************************************************************************)
(* An instance of TypedConditions: two names, attributes of all types, and *)
(* lists that name one attribute twice.                                    *)
(***************************************************************************)
EXTENDS TypedConditions

MCAttributeLists ==
    {<<Attribute("x", "INT")>>,
     <<Attribute("x", "STRING"), Attribute("y", "FLOAT")>>,
     <<Attribute("y", "INT"), Attribute("y", "BLOB")>>}

MCValuesOf == [type \in ObjectTypes |->
    CASE type = "INT" -> {Object("INT", 1), Object("INT", 2)}
      [] type = "FLOAT" -> {Object("FLOAT", <<3, 2>>)}
      [] type = "STRING" -> {Object("STRING", <<"s">>)}
      [] type = "BLOB" -> {Object("BLOB", "p")}]

MCTerms ==
    {WithConstant("x", "<", Object("FLOAT", <<3, 2>>)),
     WithConstant("y", "==", Object("INT", 1)),
     Negate(WithConstant("y", "==", Object("INT", 1))),
     WithAttribute("x", "==", "y")}

MCNameLists == {<<"y", "x">>, <<"x">>, <<"y", "y">>}
=============================================================================
