---------------------------- MODULE LemonParser ----------------------------
(***************************************************************************)
(* A parser from its grammar to the parse: Lemon reads the grammar, makes  *)
(* the tables, pass by pass (main of lemon.c), and packs them; then the    *)
(* engine (lempar-currentia.c) takes tokens with them, fed to it as        *)
(* parse_cpl does: up to the first error, with $ at the end.               *)
(***************************************************************************)
EXTENDS GrammarReader, LemonTables, PackedActions, Languages

CONSTANTS YYSTACKDEPTH,   \* 100 if the grammar has no %stack_size
          MaxTokens       \* bound on what the lexer delivers

ASSUME DepthAssumption == YYSTACKDEPTH \in Nat \ {0}

VARIABLES
    grammar,
    pass,       \* of Lemon, or "parse" or "exit"
    failed,     \* Lemon has met an error after the grammar was read
    lem,        \* what Lemon has found out
    unpacked,   \* the sets of actions that are still to be packed
    yy,         \* the generated tables
    yystack,    \* empty if the parser is to be initialised
    yymajor,    \* the token that Parse works on, or none
    state,      \* whether an error was met, or the end
    word,       \* history: the tokens since the parser was initialised
    ambiguous   \* history: some action has lost to another

lemonVars == <<grammar, pass, failed, lem, unpacked, yy, ambiguous, readerVars>>
engineVars == <<yystack, yymajor, state, word>>
vars == <<lemonVars, engineVars, tableVars>>

YYNOCODE == -1
NO_OFFSET == -999     \* below any offset

Init ==
    /\ ReadInit
    /\ grammar = <<>> /\ pass = "Parse" /\ failed = FALSE
    /\ lem = [first |-> <<>>, automaton |-> <<>>, follow |-> <<>>, actions |-> <<>>,
              states |-> <<>>, sorted |-> <<>>]
    /\ unpacked = <<>> /\ yy = <<>> /\ ambiguous = FALSE
    /\ yystack = <<>> /\ yymajor = YYNOCODE /\ state = "NEUTRAL" /\ word = <<>>
    /\ PackingInit

-----------------------------------------------------------------------------
(* Lemon *)

Pass(name, next) ==
    /\ pass = name /\ pass' = next
    /\ UNCHANGED <<engineVars, readerVars>>

(* One turn of the loop in Parse *)
Read ==
    /\ pass = "Parse"
    /\ parseonetoken
    /\ UNCHANGED <<grammar, pass, failed, lem, unpacked, yy, ambiguous, engineVars, tableVars>>

(* At the end of the file Lemon gives up, or numbers the symbols. *)
Parsed ==
    LET next == IF psp.errorcnt > 0 \/ gp.rule = <<>> THEN "exit" ELSE "FindRulePrecedences"
    IN  /\ cp = Len(file)
        /\ Pass("Parse", next)
        /\ grammar' = IF next = "exit" THEN grammar ELSE Indexed
        /\ UNCHANGED <<failed, lem, unpacked, yy, ambiguous, tableVars>>

Precedences ==
    /\ Pass("FindRulePrecedences", "FindFirstSets")
    /\ grammar' = FindRulePrecedences(grammar)
    /\ UNCHANGED <<failed, lem, unpacked, yy, ambiguous, tableVars>>

First ==
    /\ Pass("FindFirstSets", "FindStates")
    /\ lem' = [lem EXCEPT !.first = FindFirstSets(grammar)]
    /\ UNCHANGED <<grammar, failed, unpacked, yy, ambiguous, tableVars>>

(* It is an error for the start symbol to be on a right-hand side, and for *)
(* a nonterminal in some state to have no rules.                           *)
States ==
    /\ Pass("FindStates", "FindFollowSets")
    /\ lem' = [lem EXCEPT !.automaton = FindStates(grammar)]
    /\ failed' = \/ \E r \in DOMAIN grammar.rules : StartSymbol(grammar) \in Range(grammar.rules[r].rhs)
                 \/ Unruled(grammar, lem'.automaton) # {}
    /\ UNCHANGED <<grammar, unpacked, yy, ambiguous, tableVars>>

Follow ==
    /\ Pass("FindFollowSets", "FindActions")
    /\ lem' = [lem EXCEPT !.follow = FindFollowSets(grammar, lem.first, lem.automaton)]
    /\ UNCHANGED <<grammar, failed, unpacked, yy, ambiguous, tableVars>>

(* It is an error for a rule to be reduced in no state. *)
Actions ==
    LET actions == FindActions(grammar, lem.automaton, lem.follow)
    IN  /\ Pass("FindActions", "CompressTables")
        /\ lem' = [lem EXCEPT !.actions = [n \in DOMAIN actions |-> UsedActions(actions[n])]]
        /\ ambiguous' = \E n \in DOMAIN actions : \E sp \in DOMAIN actions[n] : Len(actions[n][sp]) > 1
        /\ failed' = (failed \/ Reduced(lem'.actions) # DOMAIN grammar.rules)
        /\ UNCHANGED <<grammar, unpacked, yy, tableVars>>

Compress ==
    /\ Pass("CompressTables", "ResortStates")
    /\ lem' = [lem EXCEPT !.states = CompressTables(grammar, lem.actions)]
    /\ UNCHANGED <<grammar, failed, unpacked, yy, ambiguous, tableVars>>

Resort ==
    LET sorted == ResortStates(grammar, lem.states)
    IN  /\ Pass("ResortStates", "ReportTable")
        /\ lem' = [lem EXCEPT !.sorted = sorted]
        /\ unpacked' = ActionSetsOf(grammar, sorted, lem.states)
        /\ yy' = [ofst |-> [isTkn \in BOOLEAN |-> [n \in 0..Len(sorted) - 1 |-> NO_OFFSET]]]
        /\ UNCHANGED <<grammar, failed, ambiguous, tableVars>>

(* One turn of the loop in ReportTable that packs the sets *)
PackSet ==
    /\ unpacked # <<>>
    /\ Pass("ReportTable", "ReportTable")
    /\ Pack(Head(unpacked).actions)
    /\ yy' = [yy EXCEPT !.ofst[Head(unpacked).isTkn][Head(unpacked).stp] =
                            Offset(table, Head(unpacked).actions)]
    /\ unpacked' = Tail(unpacked)
    /\ UNCHANGED <<grammar, failed, lem, ambiguous>>

(* Mutant: the offset that stands for none is the lowest that a set has. *)
OffsetsTooHigh(ofst) ==
    LET known == {n \in DOMAIN ofst : ofst[n] # NO_OFFSET}
        mnOfst == CHOOSE mn \in {ofst[n] : n \in known} \cup {0} :
                      \A n \in known : mn <= ofst[n] /\ mn <= 0
    IN  [use_dflt |-> mnOfst,
         ofst |-> [n \in {m \in DOMAIN ofst : \E l \in known : m <= l} |->
                       IF n \in known THEN ofst[n] ELSE mnOfst]]

(* The arrays of offsets, cut off behind the last state that has one; a    *)
(* state before it that has none gets an offset below all others.          *)
Offsets(ofst) ==
    LET known == {n \in DOMAIN ofst : ofst[n] # NO_OFFSET}
        mnOfst == CHOOSE mn \in {ofst[n] : n \in known} \cup {0} :
                      \A n \in known : mn <= ofst[n] /\ mn <= 0
    IN  [use_dflt |-> mnOfst - 1,
         ofst |-> [n \in {m \in DOMAIN ofst : \E l \in known : m <= l} |->
                       IF n \in known THEN ofst[n] ELSE mnOfst - 1]]

ReportTable ==
    LET states == lem.states
        default(n) == states[lem.sorted[n + 1] + 1]
    IN  /\ unpacked = <<>>
        /\ Pass("ReportTable", "built")
        /\ yy' = [nstate |-> Len(states),
                  shift |-> Offsets(yy.ofst[TRUE]),
                  reduce |-> Offsets(yy.ofst[FALSE]),
                  default |-> [n \in 0..Len(states) - 1 |->
                      IF DefaultSymbol(grammar) \in DOMAIN default(n)
                      THEN compute_action(grammar, lem.sorted, default(n)[DefaultSymbol(grammar)])
                      ELSE YY_ERROR_ACTION(grammar, Len(states))]]
        /\ UNCHANGED <<grammar, failed, lem, unpacked, ambiguous, tableVars>>

(* The generated parser is started, whatever Lemon has said. *)
Exit ==
    /\ Pass("built", "parse")
    /\ lem' = [f \in DOMAIN lem |-> <<>>]
    /\ UNCHANGED <<grammar, failed, unpacked, yy, ambiguous, tableVars>>

-----------------------------------------------------------------------------
(* The engine *)

Looked(array, stateno, sp, missing) ==
    IF stateno \notin DOMAIN array.ofst \/ array.ofst[stateno] = array.use_dflt THEN missing
    ELSE LET act == Lookup(table, array.ofst[stateno], sp)
         IN  IF act = NoAction THEN missing ELSE act

yy_find_shift_action(stateno, iLookAhead) == Looked(yy.shift, stateno, iLookAhead, yy.default[stateno])

(* What is not found here fails an assertion. *)
yy_find_reduce_action(stateno, iLookAhead) == Looked(yy.reduce, stateno, iLookAhead, NoAction)

Top == yystack[Len(yystack)].stateno
act == yy_find_shift_action(Top, yymajor)

(* Mutant: an overflow only leaves out what does not fit. *)
yy_shift_onto(stack, stateno, major) ==
    IF Len(stack) >= YYSTACKDEPTH THEN stack
    ELSE Append(stack, [stateno |-> stateno, major |-> major])

(* Everything is popped, without a word. *)
yyStackOverflow == <<>>

yy_shift(stack, stateno, major) ==
    IF Len(stack) >= YYSTACKDEPTH THEN yyStackOverflow
    ELSE Append(stack, [stateno |-> stateno, major |-> major])

(* Parse is called with the next token, or the end. *)
Feed(token) ==
    /\ pass = "parse" /\ yymajor = YYNOCODE /\ state = "NEUTRAL"
    /\ token \in Terminals(grammar)
    /\ token # 0 => Len(word) < MaxTokens
    /\ yymajor' = token
    /\ IF yystack = <<>>
       THEN yystack' = <<[stateno |-> 0, major |-> 0]>> /\ word' = <<token>>
       ELSE yystack' = yystack /\ word' = Append(word, token)
    /\ UNCHANGED <<state, lemonVars, tableVars>>

Parsing == pass = "parse" /\ yymajor # YYNOCODE

(* The call is over; at the end of the input, so is the parse. *)
Return(new) ==
    /\ yymajor' = YYNOCODE
    /\ state' = IF state = "NEUTRAL" /\ yymajor = 0 THEN new ELSE state

Shift ==
    /\ Parsing /\ act < yy.nstate
    /\ yystack' = yy_shift(yystack, act, yymajor)
    /\ Return("overflow")
    /\ UNCHANGED <<word, lemonVars, tableVars>>

Reduce ==
    LET rule == grammar.rules[act - yy.nstate + 1]
        rest == SubSeq(yystack, 1, Len(yystack) - Len(rule.rhs))
        goto == yy_find_reduce_action(rest[Len(rest)].stateno, rule.lhs)
    IN  /\ Parsing /\ act \in yy.nstate..yy.nstate + nrule(grammar) - 1
        /\ IF goto \in 0..yy.nstate - 1
           THEN LET stack == yy_shift(rest, goto, rule.lhs)
                IN  /\ yystack' = stack
                    /\ IF stack = <<>> THEN Return("overflow") ELSE UNCHANGED <<yymajor, state>>
           ELSE /\ yystack' = <<>>
                /\ yymajor' = YYNOCODE
                /\ state' = IF goto = YY_ACCEPT_ACTION(grammar, yy.nstate) THEN "ACCEPTED" ELSE "aborted"
        /\ UNCHANGED <<word, lemonVars, tableVars>>

SyntaxError ==
    /\ Parsing /\ act = YY_ERROR_ACTION(grammar, yy.nstate)
    /\ state' = "ERROR"
    /\ yymajor' = YYNOCODE
    /\ UNCHANGED <<yystack, word, lemonVars, tableVars>>

Lemon ==
    \/ Read \/ Parsed \/ Precedences \/ First \/ States \/ Follow \/ Actions \/ Compress \/ Resort
    \/ PackSet \/ ReportTable \/ Exit

Parse == Shift \/ Reduce \/ SyntaxError

Next == Lemon \/ Parse \/ \E token \in Lookaheads : Feed(token)

Spec == Init /\ [][Next]_vars /\ WF_vars(Parse)

-----------------------------------------------------------------------------
(* What the tables give for a state and a symbol is what was found for it  *)
(* before they were compressed, sorted, numbered and packed: its action;   *)
(* and where a terminal has none, an error or the default reduction, of a  *)
(* rule that is complete in that state (lemon.c:3640-3850, 4053-4168).     *)
TablesKeepActions ==
    pass = "built" /\ ~ranOff =>
        \A n \in 0..yy.nstate - 1 :
            LET old == lem.sorted[n + 1] + 1
                actions == lem.actions[old]
            IN  /\ \A sp \in DOMAIN actions :
                      compute_action(grammar, lem.sorted, actions[sp]) =
                          IF sp \in Terminals(grammar) THEN yy_find_shift_action(n, sp)
                          ELSE yy_find_reduce_action(n, sp)
                /\ \A sp \in Terminals(grammar) \ DOMAIN actions :
                      \/ yy_find_shift_action(n, sp) = YY_ERROR_ACTION(grammar, yy.nstate)
                      \/ \E c \in lem.automaton[old].cfp :
                            /\ Complete(grammar, c)
                            /\ yy_find_shift_action(n, sp) = yy.nstate + c.rp - 1

(* What is accepted is a sentence with the end behind it, and no token is  *)
(* shifted that no sentence goes on with, although defaults reduce before  *)
(* it is looked at (lempar-currentia.c:739-856, lemon.c:4053-4107).        *)
TakesOnlySentences ==
    /\ state = "ACCEPTED" /\ ~failed =>
          word[Len(word)] = 0 /\ Sentence(grammar, SubSeq(word, 1, Len(word) - 1))
    /\ yystack # <<>> /\ yymajor = YYNOCODE /\ state = "NEUTRAL" /\ ~failed /\ ~ranOff => Viable(grammar, word)

(* Nothing that a sentence goes on with is an error, if all actions were   *)
(* clear (lemon.c:903-1046): the follow sets leave nothing out.            *)
RefusesNoSentence ==
    state = "ERROR" /\ ~ambiguous /\ ~failed /\ ~ranOff =>
        IF word[Len(word)] = 0
        THEN ~Sentence(grammar, SubSeq(word, 1, Len(word) - 1))
        ELSE ~Viable(grammar, word)

(* Every call of Parse returns, whatever actions have lost a conflict:     *)
(* unless a nonterminal generates itself, reductions without end fill the  *)
(* stack (lempar-currentia.c:486-504, 739-856).                            *)
ParseReturns == Parsing /\ ~Cyclic(grammar) ~> yymajor = YYNOCODE
=============================================================================
