----------------------------- MODULE Languages -----------------------------
(***************************************************************************)
(* What a context-free grammar generates, without any automaton: the       *)
(* reference that a generated parser is compared with.  The grammar has    *)
(* rules [lhs, rhs] and starts with the left-hand side of the first.       *)
(***************************************************************************)
EXTENDS Integers, SequencesExt

(* Where a string of symbols may end in a word if it begins at i: a span   *)
(* is a symbol that generates what is between two positions.               *)
Ends(spans, symbols, i) ==
    FoldLeft(LAMBDA from, sp : {t[3] : t \in {u \in spans : u[1] = sp /\ u[2] \in from}},
             {i}, symbols)

RECURSIVE AllSpans(_, _, _)
AllSpans(g, word, spans) ==
    LET all == spans \cup UNION {{<<g.rules[r].lhs, i, j>> : j \in Ends(spans, g.rules[r].rhs, i)} :
                                    r \in DOMAIN g.rules, i \in 0..Len(word)}
    IN  IF all = spans THEN spans ELSE AllSpans(g, word, all)

Spans(g, word) == AllSpans(g, word, {<<word[k], k - 1, k>> : k \in DOMAIN word})

Sentence(g, word) == <<g.rules[1].lhs, 0, Len(word)>> \in Spans(g, word)

(* Symbols that generate something that begins with the word from some     *)
(* position on, if every nonterminal generates anything at all             *)
RECURSIVE AllOpen(_, _, _, _)
AllOpen(g, word, spans, open) ==
    LET opens(r, i) ==
            \E k \in DOMAIN g.rules[r].rhs :
                \E j \in Ends(spans, SubSeq(g.rules[r].rhs, 1, k - 1), i) :
                    <<g.rules[r].rhs[k], j>> \in open \/ j = Len(word)
        all == open \cup UNION {{<<g.rules[r].lhs, i>> : i \in {n \in 0..Len(word) - 1 : opens(r, n)}} :
                                    r \in DOMAIN g.rules}
    IN  IF all = open THEN open ELSE AllOpen(g, word, spans, all)

(* Some sentence begins with the word. *)
Viable(g, word) ==
    LET open == AllOpen(g, word, Spans(g, word), {<<word[k], k - 1>> : k \in {Len(word)} \ {0}})
    IN  word = <<>> \/ Sentence(g, word) \/ <<g.rules[1].lhs, 0>> \in open

(* Symbols that generate strings of these symbols only, or empty ones *)
RECURSIVE Generating(_, _)
Generating(g, symbols) ==
    LET all == symbols \cup {g.rules[r].lhs :
                   r \in {q \in DOMAIN g.rules : Range(g.rules[q].rhs) \subseteq symbols}}
    IN  IF all = symbols THEN symbols ELSE Generating(g, all)

(* What these symbols become in a step when all others around them vanish *)
Alone(g, symbols) ==
    LET lambda == Generating(g, {})
    IN  UNION {{g.rules[r].rhs[k] : k \in {i \in DOMAIN g.rules[r].rhs :
                    \A j \in DOMAIN g.rules[r].rhs \ {i} : g.rules[r].rhs[j] \in lambda}} :
                        r \in {q \in DOMAIN g.rules : g.rules[q].lhs \in symbols}}

RECURSIVE Becoming(_, _)
Becoming(g, symbols) ==
    IF Alone(g, symbols) \subseteq symbols THEN symbols
    ELSE Becoming(g, symbols \cup Alone(g, symbols))

(* Some nonterminal generates itself. *)
Cyclic(g) == \E r \in DOMAIN g.rules : g.rules[r].lhs \in Becoming(g, Alone(g, {g.rules[r].lhs}))
=============================================================================
