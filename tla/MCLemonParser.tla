--------------------------- MODULE MCLemonParser ---------------------------
(***************************************************************************)
(* Small grammar files: all of two nonterminals and three short rules over *)
(* the terminals A and B, some that generators of tables are told apart    *)
(* with, and all that one mistake makes of two with declarations.          *)
(***************************************************************************)
EXTENDS LemonParser

CONSTANT MaxSide    \* symbols on the right-hand side of a rule

Rule(lhs, rhs) == [lhs |-> lhs, rhs |-> rhs]
Text(rules) ==
    FlattenSeq([r \in DOMAIN rules |-> <<rules[r].lhs, "::=">> \o rules[r].rhs \o <<".">>])

MCUpper == {"A", "B", "C", "D", "E"}
MCLower == {"s", "l", "m", "n", "o", "left", "right", "nonassoc", "include", "type", "destructor"}

(* The last eight bits of the hashes *)
MCstrhash ==
    ("$" :> 36) @@
    [s |-> 115, l |-> 108, m |-> 109, n |-> 110, o |-> 111,
     left |-> 43, right |-> 106, nonassoc |-> 100, include |-> 124,
     type |-> 122, destructor |-> 195, A |-> 65, B |-> 66, C |-> 67,
     D |-> 68, E |-> 69, error |-> 230]

Sides == BoundedSeq({"A", "B", "n"}, MaxSide)

(* All nonterminals generate something and are needed, no two rules are    *)
(* the same, and of the terminals, which are alike, A is used first.       *)
Sensible(rules) ==
    LET symbols == FlattenSeq([r \in DOMAIN rules |-> rules[r].rhs])
    IN  /\ {"s", "n"} \subseteq Generating([rules |-> rules], {"A", "B"})
        /\ \E r \in DOMAIN rules : rules[r].lhs = "s" /\ "n" \in Range(rules[r].rhs)
        /\ Cardinality(Range(rules)) = 3
        /\ \E k \in DOMAIN symbols : symbols[k] = "A" /\ \A j \in 1..k - 1 : symbols[j] = "n"

SmallGrammars ==
    {rules \in {<<Rule("s", first), Rule(lhs, second), Rule("n", third)>> :
                    first \in Sides, lhs \in {"s", "n"}, second \in Sides, third \in Sides} :
        Sensible(rules)}

(* Assignments through pointers, which are not SLR(1) *)
Pointers == <<Rule("s", <<"l", "A", "n">>), Rule("s", <<"n">>), Rule("l", <<"B", "n">>), Rule("l", <<"C">>),
              Rule("n", <<"l">>)>>

(* A grammar that is LR(1), and not LALR(1) *)
Merged == <<Rule("s", <<"A", "m", "D">>), Rule("s", <<"B", "n", "D">>), Rule("s", <<"A", "n", "E">>),
            Rule("s", <<"B", "m", "E">>), Rule("m", <<"C">>), Rule("n", <<"C">>)>>

(* A list of names with options, and perhaps in parentheses *)
Lists == <<Rule("s", <<"l">>), Rule("l", <<"l", "n">>), Rule("l", <<"n">>), Rule("n", <<"m", "B", "C">>),
           Rule("n", <<"m">>), Rule("m", <<"A", "o">>), Rule("o", <<"D">>), Rule("o", <<>>)>>

(* What comes behind an A tells an m from an o, and there may be an l in   *)
(* between.                                                                *)
Optional == <<Rule("s", <<"m", "l", "C">>), Rule("s", <<"o", "D">>), Rule("s", <<"o", "B">>), Rule("m", <<"A">>),
              Rule("o", <<"A">>), Rule("l", <<"E">>), Rule("l", <<>>)>>

(* m is reduced without end. *)
Endless == <<Rule("s", <<"n">>), Rule("m", <<>>), Rule("n", <<"m", "n", "A">>), Rule("n", <<>>)>>

(* Sums of products, with precedences *)
Sums == <<Rule("s", <<"n">>), Rule("n", <<"n", "A", "n">>), Rule("n", <<"n", "B", "n">>), Rule("n", <<"C">>)>>
Expressions(assoc) == <<"%", assoc, "A", ".", "%", "left", "B", ".">> \o Text(Sums)

(* Everything that a file may have *)
Declared == <<"%", "include", "{}", "%", "type", "s", "{}", "%", "destructor", "n", "{}">>
                \o <<"s", "(", "A", ")", "::=", "n", "(", "B", ")", ".", "{}", "n", "::=", "A", ".">>
Ranked == <<"%", "left", "A", ".", "s", "::=", "n", ".", "n", "::=", "n", "A", "n", ".", "[", "B", "]">>
                \o <<"%", "nonassoc", "B", ".", "n", "::=", "C", ".">>

Tokens == {"A", "C", "n", "left", "include", "type", "::=", ".", "(", ")", "[", "]", "{}", "%"}

(* One token is replaced, left out, or put in. *)
Mistaken(f) ==
    UNION {{ReplaceAt(f, k, t) : t \in Tokens} \cup {RemoveAt(f, k)} \cup {InsertAt(f, k, t) : t \in Tokens} :
               k \in DOMAIN f}

GoodFiles == {Text(rules) : rules \in SmallGrammars \cup {Pointers, Merged, Lists, Optional, Endless}}
                 \cup {Expressions(assoc) : assoc \in DOMAIN Associations}

MCFiles == GoodFiles \cup Mistaken(Declared) \cup Mistaken(Ranked)

MCLookaheads == 0..12

(* PackingSpec alone would need them: here the grammars say what is packed. *)
MCActionSets == [1..2 -> 0..9]
=============================================================================
