--------------------------- MODULE GrammarReader ---------------------------
(***************************************************************************)
(* How Lemon reads a grammar file (Parse and parseonetoken in lemon.c):    *)
(* token by token, with a state that says what may come next, and with     *)
(* errors that are counted and skipped up to the next "." or "%".          *)
(*                                                                         *)
(* A token is a name, a punctuation mark, or "{}" for a block of code.     *)
(* Left out are the aliases themselves, quoted texts, compound terminals,  *)
(* and %start_symbol, %fallback and %wildcard, which the grammar of CPL    *)
(* does not use.                                                           *)
(***************************************************************************)
EXTENDS Integers, SequencesExt, SymbolTable

CONSTANTS Lower,    \* names of nonterminals, and keywords
          Upper,    \* names of terminals
          MAXRHS,   \* symbols of a rule: 1000
          Files     \* the grammars that are read

ASSUME NamesAssumption ==
    /\ Lower \cap Upper = {} /\ "error" \notin Lower /\ MAXRHS \in Nat
    /\ DOMAIN strhash = Lower \cup Upper \cup {"$", "error"}

VARIABLES file,
          cp,       \* tokens of it that have been read
          psp,      \* the state of the reader
          gp        \* what has been read

readerVars == <<file, cp, psp, gp>>

Names == Lower \cup Upper
NoName == ""

(* Declarations of a text, and those of how operators associate *)
TextKeywords ==
    {"name", "include", "code", "token_destructor", "default_destructor", "token_prefix",
     "syntax_error", "parse_accept", "parse_failure", "stack_overflow", "extra_argument",
     "token_type", "default_type", "stack_size"}
Associations == [left |-> "LEFT", right |-> "RIGHT", nonassoc |-> "NONE"]

NewRead == [rule |-> <<>>, symbols |-> Symbol_new(Symbol_new(Symbol_init, "$"), "error"),
            prec |-> [n \in {} |-> 0], text |-> [n \in {} |-> <<>>]]

ReadInit ==
    /\ file \in Files
    /\ cp = 0
    /\ psp = [state |-> "WAITING_FOR_DECL_OR_RULE", errorcnt |-> 0, preccounter |-> 0,
              lhs |-> NoName, rhs |-> <<>>, declargslot |-> <<>>, declassoc |-> "UNK"]
    /\ gp = NewRead

x == file[cp + 1]

In(state) == psp.state = state
Goto(state) == psp' = [psp EXCEPT !.state = state]
ErrorMsg(state) == psp' = [psp EXCEPT !.state = state, !.errorcnt = @ + 1]

(* From one state to the next by one of some tokens, and else an error *)
Expect(tokens, state, otherwise) ==
    /\ IF x \in tokens THEN Goto(state) ELSE ErrorMsg(otherwise)
    /\ UNCHANGED gp

-----------------------------------------------------------------------------
(* Mutant: the symbols of the rule before are not forgotten. *)
BegunOnOld(name) == [psp EXCEPT !.state = "WAITING_FOR_ARROW", !.lhs = name]

(* A rule begins with its left-hand side. *)
Begun(name) == [psp EXCEPT !.state = "WAITING_FOR_ARROW", !.lhs = name, !.rhs = <<>>]

(* What comes behind a rule is for that rule, also with declarations in    *)
(* between.                                                                *)
PriorLacks(field, none) == gp.rule # <<>> /\ Last(gp.rule)[field] = none

WaitingForDeclOrRule ==
    /\ In("WAITING_FOR_DECL_OR_RULE")
    /\ \/ /\ x = "%"
          /\ Goto("WAITING_FOR_DECL_KEYWORD")
          /\ UNCHANGED gp
       \/ /\ x \in Lower
          /\ psp' = Begun(x)
          /\ gp' = [gp EXCEPT !.symbols = Symbol_new(@, x)]
       \/ /\ x = "{}" /\ PriorLacks("code", 0)
          /\ gp' = [gp EXCEPT !.rule[Len(gp.rule)].code = cp + 1]
          /\ UNCHANGED psp
       \/ /\ x = "["
          /\ Goto("PRECEDENCE_MARK_1")
          /\ UNCHANGED gp
       \/ /\ x \notin Lower \cup {"%", "["} /\ ~(x = "{}" /\ PriorLacks("code", 0))
          /\ ErrorMsg("WAITING_FOR_DECL_OR_RULE")
          /\ UNCHANGED gp

PrecedenceMark1 ==
    /\ In("PRECEDENCE_MARK_1")
    /\ IF x \in Upper /\ PriorLacks("precsym", NoName)
       THEN /\ gp' = [gp EXCEPT !.rule[Len(gp.rule)].precsym = x, !.symbols = Symbol_new(@, x)]
            /\ Goto("PRECEDENCE_MARK_2")
       ELSE ErrorMsg("PRECEDENCE_MARK_2") /\ UNCHANGED gp

PrecedenceMark2 == In("PRECEDENCE_MARK_2") /\ Expect({"]"}, "WAITING_FOR_DECL_OR_RULE", "WAITING_FOR_DECL_OR_RULE")

WaitingForArrow ==
    /\ In("WAITING_FOR_ARROW")
    /\ IF x = "(" THEN Goto("LHS_ALIAS_1") /\ UNCHANGED gp
       ELSE Expect({"::="}, "IN_RHS", "RESYNC_AFTER_RULE_ERROR")

LhsAlias1 == In("LHS_ALIAS_1") /\ Expect(Names, "LHS_ALIAS_2", "RESYNC_AFTER_RULE_ERROR")
LhsAlias2 == In("LHS_ALIAS_2") /\ Expect({")"}, "LHS_ALIAS_3", "RESYNC_AFTER_RULE_ERROR")
LhsAlias3 == In("LHS_ALIAS_3") /\ Expect({"::="}, "IN_RHS", "RESYNC_AFTER_RULE_ERROR")
RhsAlias1 == In("RHS_ALIAS_1") /\ Expect(Names, "RHS_ALIAS_2", "RESYNC_AFTER_RULE_ERROR")
RhsAlias2 == In("RHS_ALIAS_2") /\ Expect({")"}, "IN_RHS", "RESYNC_AFTER_RULE_ERROR")

InRhs ==
    /\ In("IN_RHS")
    /\ \/ /\ x = "."
          /\ gp' = [gp EXCEPT !.rule = Append(@,
                       [lhs |-> psp.lhs, rhs |-> psp.rhs, precsym |-> NoName, code |-> 0])]
          /\ Goto("WAITING_FOR_DECL_OR_RULE")
       \/ /\ x \in Names /\ Len(psp.rhs) < MAXRHS
          /\ psp' = [psp EXCEPT !.rhs = Append(@, x)]
          /\ gp' = [gp EXCEPT !.symbols = Symbol_new(@, x)]
       \/ /\ x = "(" /\ psp.rhs # <<>>
          /\ Goto("RHS_ALIAS_1")
          /\ UNCHANGED gp
       \/ /\ \/ x \in Names /\ Len(psp.rhs) >= MAXRHS
             \/ x = "(" /\ psp.rhs = <<>>
             \/ x \notin Names \cup {".", "("}
          /\ ErrorMsg("RESYNC_AFTER_RULE_ERROR")
          /\ UNCHANGED gp

WaitingForDeclKeyword ==
    /\ In("WAITING_FOR_DECL_KEYWORD")
    /\ \/ /\ x \in TextKeywords
          /\ psp' = [psp EXCEPT !.state = "WAITING_FOR_DECL_ARG", !.declargslot = <<x>>]
       \/ /\ x \in DOMAIN Associations
          /\ psp' = [psp EXCEPT !.state = "WAITING_FOR_PRECEDENCE_SYMBOL",
                                !.preccounter = @ + 1, !.declassoc = Associations[x]]
       \/ x = "destructor" /\ Goto("WAITING_FOR_DESTRUCTOR_SYMBOL")
       \/ x = "type" /\ Goto("WAITING_FOR_DATATYPE_SYMBOL")
       \/ /\ x \notin TextKeywords \cup DOMAIN Associations \cup {"destructor", "type"}
          /\ ErrorMsg("RESYNC_AFTER_DECL_ERROR")
    /\ UNCHANGED gp

WaitingForDestructorSymbol ==
    /\ In("WAITING_FOR_DESTRUCTOR_SYMBOL")
    /\ IF x \in Names
       THEN /\ psp' = [psp EXCEPT !.state = "WAITING_FOR_DECL_ARG", !.declargslot = <<"destructor", x>>]
            /\ gp' = [gp EXCEPT !.symbols = Symbol_new(@, x)]
       ELSE ErrorMsg("RESYNC_AFTER_DECL_ERROR") /\ UNCHANGED gp

(* A symbol has one type only, whereas two texts of any other declaration  *)
(* are put together.                                                       *)
WaitingForDatatypeSymbol ==
    /\ In("WAITING_FOR_DATATYPE_SYMBOL")
    /\ IF x \in Names /\ <<"type", x>> \notin DOMAIN gp.text
       THEN /\ psp' = [psp EXCEPT !.state = "WAITING_FOR_DECL_ARG", !.declargslot = <<"type", x>>]
            /\ gp' = [gp EXCEPT !.symbols = Symbol_new(@, x)]
       ELSE ErrorMsg("RESYNC_AFTER_DECL_ERROR") /\ UNCHANGED gp

WaitingForPrecedenceSymbol ==
    /\ In("WAITING_FOR_PRECEDENCE_SYMBOL")
    /\ \/ /\ x = "."
          /\ Goto("WAITING_FOR_DECL_OR_RULE")
          /\ UNCHANGED gp
       \/ /\ x \in Upper \ DOMAIN gp.prec
          /\ gp' = [gp EXCEPT !.symbols = Symbol_new(@, x),
                              !.prec = [n \in DOMAIN @ \cup {x} |->
                                  IF n = x THEN [prec |-> psp.preccounter, assoc |-> psp.declassoc]
                                  ELSE @[n]]]
          /\ UNCHANGED psp
       \/ /\ x # "." /\ x \notin Upper \ DOMAIN gp.prec
          /\ ErrorMsg("WAITING_FOR_PRECEDENCE_SYMBOL")
          /\ UNCHANGED gp

WaitingForDeclArg ==
    LET slot == psp.declargslot
        old == IF slot \in DOMAIN gp.text THEN gp.text[slot] ELSE <<>>
    IN  /\ In("WAITING_FOR_DECL_ARG")
        /\ IF x \in Names \cup {"{}"}
           THEN /\ gp' = [gp EXCEPT !.text = [s \in DOMAIN @ \cup {slot} |->
                             IF s = slot THEN Append(old, cp + 1) ELSE @[s]]]
                /\ Goto("WAITING_FOR_DECL_OR_RULE")
           ELSE ErrorMsg("RESYNC_AFTER_DECL_ERROR") /\ UNCHANGED gp

Resync ==
    /\ psp.state \in {"RESYNC_AFTER_RULE_ERROR", "RESYNC_AFTER_DECL_ERROR"}
    /\ CASE x = "." -> Goto("WAITING_FOR_DECL_OR_RULE")
         [] x = "%" -> Goto("WAITING_FOR_DECL_KEYWORD")
         [] OTHER -> UNCHANGED psp
    /\ UNCHANGED gp

parseonetoken ==
    /\ cp < Len(file) /\ cp' = cp + 1
    /\ \/ WaitingForDeclOrRule \/ PrecedenceMark1 \/ PrecedenceMark2 \/ WaitingForArrow
       \/ LhsAlias1 \/ LhsAlias2 \/ LhsAlias3 \/ InRhs \/ RhsAlias1 \/ RhsAlias2
       \/ WaitingForDeclKeyword \/ WaitingForDestructorSymbol \/ WaitingForDatatypeSymbol
       \/ WaitingForPrecedenceSymbol \/ WaitingForDeclArg \/ Resync
    /\ UNCHANGED file

(* The grammar with its symbols numbered: the terminals in the order they  *)
(* were met, the nonterminals likewise behind them                         *)
Indexed ==
    LET upper == SelectSeq(gp.symbols.tbl, LAMBDA n : n \in Upper \cup {"$"})
        sorted == upper \o SelectSeq(gp.symbols.tbl, LAMBDA n : n \notin Upper \cup {"$"})
        index(n) == (CHOOSE i \in DOMAIN sorted : sorted[i] = n) - 1
        Prec(n) == IF n \in DOMAIN gp.prec THEN gp.prec[n] ELSE [prec |-> -1, assoc |-> "UNK"]
    IN  [nterminal |-> Len(upper), nsymbol |-> Len(sorted),
         rules |-> [r \in DOMAIN gp.rule |->
             [lhs |-> index(gp.rule[r].lhs),
              rhs |-> [k \in DOMAIN gp.rule[r].rhs |-> index(gp.rule[r].rhs[k])],
              precsym |-> IF gp.rule[r].precsym = NoName THEN -1 ELSE index(gp.rule[r].precsym)]],
         prec |-> [sp \in 0..Len(sorted) - 1 |-> Prec(sorted[sp + 1]).prec],
         assoc |-> [sp \in 0..Len(sorted) - 1 |-> Prec(sorted[sp + 1]).assoc]]

ReadSpec == ReadInit /\ [][parseonetoken]_readerVars

-----------------------------------------------------------------------------
(* Every symbol met is found, where it is and there only, also when the    *)
(* table has grown since, or grows for it (lemon.c:4480-4533, 4383-4407).  *)
SymbolsAreFound ==
    \A n \in DOMAIN gp.symbols.tbl : Symbol_find(gp.symbols, gp.symbols.tbl[n]) = {n}

(* What is written in a file, told from where its marks stand *)

At(i) == IF i \in DOMAIN file THEN file[i] ELSE NoName
Positions(token) == SelectSeq([i \in DOMAIN file |-> i], LAMBDA i : file[i] = token)
Dots(i) == {d \in DOMAIN file : d > i /\ file[d] = "."}
Dot(i) == CHOOSE d \in Dots(i) : \A e \in Dots(i) : d <= e

LhsOf(arrow) == IF At(arrow - 1) = ")" THEN At(arrow - 4) ELSE At(arrow - 1)
RhsOf(arrow) ==
    LET between == SubSeq([i \in DOMAIN file |-> i], arrow + 1, Dot(arrow) - 1)
        symbols == SelectSeq(between, LAMBDA i : file[i] \in Names /\ file[i - 1] # "(")
    IN  [k \in DOMAIN symbols |-> file[symbols[k]]]

(* Rules that are finished; a last one that is not is lost, and no error   *)
Finished == SelectSeq(Positions("::="), LAMBDA i : Dots(i) # {})

(* The rule that a mark or a block of code behind it is for *)
RuleBefore(i) == {r \in DOMAIN Finished : Dot(Finished[r]) < i /\
                     \A q \in DOMAIN Finished : q > r => Dot(Finished[q]) > i}

IsArgument(i) ==
    \/ At(i - 2) = "%" /\ At(i - 1) \in TextKeywords
    \/ At(i - 3) = "%" /\ At(i - 2) \in {"destructor", "type"}

Declarations == SelectSeq(Positions("%"), LAMBDA i : At(i + 1) \in DOMAIN Associations)

AsWritten ==
    /\ Len(gp.rule) = Len(Finished)
    /\ \A r \in DOMAIN gp.rule :
          LET rule == gp.rule[r]
              marks == {i \in DOMAIN file : file[i] = "[" /\ r \in RuleBefore(i)}
              codes == {i \in DOMAIN file : file[i] = "{}" /\ r \in RuleBefore(i) /\ ~IsArgument(i)}
          IN  /\ rule.lhs = LhsOf(Finished[r]) /\ rule.rhs = RhsOf(Finished[r])
              /\ {rule.precsym} \ {NoName} = {file[i + 1] : i \in {m \in marks : m < Len(file)}}
              /\ {rule.code} \ {0} = codes
    /\ \A n \in Upper :
          LET levels == {l \in DOMAIN Declarations : \E i \in DOMAIN file :
                            /\ i > Declarations[l] /\ file[i] = n
                            /\ \A d \in Dots(Declarations[l]) : i < d}
          IN  IF n \in DOMAIN gp.prec
              THEN /\ levels = {gp.prec[n].prec}
                   /\ gp.prec[n].assoc = Associations[file[Declarations[gp.prec[n].prec] + 1]]
              ELSE levels = {}

(* A file that is read to its end without an error gives the rules, marks, *)
(* code and precedences that are written in it, in their order; and after  *)
(* an error, however the reader gets back into step, no rule is made up of *)
(* pieces of others (lemon.c:1970-2433).                                   *)
GrammarAsWritten ==
    /\ cp = Len(file) /\ psp.errorcnt = 0 => AsWritten
    /\ \A r \in DOMAIN gp.rule : \E i \in {j \in DOMAIN file : file[j] = "::=" /\ Dots(j) # {}} :
          gp.rule[r].lhs = LhsOf(i) /\ gp.rule[r].rhs = RhsOf(i)
=============================================================================
