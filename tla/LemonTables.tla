---------------------------- MODULE LemonTables ----------------------------
(***************************************************************************)
(* How Lemon makes the tables of a parser from a grammar (lemon.c), one    *)
(* operator for each of its passes.  The recursive ones are the loops that *)
(* run until nothing changes, and the recursion of getstate.               *)
(*                                                                         *)
(* A symbol is its index: $ is 0, the terminals follow, then the           *)
(* nonterminals; {default} comes after all of them.  A rule is             *)
(* [lhs, rhs, precsym], a configuration the number of a rule and a dot in  *)
(* it.  Rules count from 1 here, and states from 0 as they do there.       *)
(*                                                                         *)
(* Multiterminals, the wildcard, fallback tokens and the error symbol,     *)
(* which the grammar of CPL has none of, are left out.                     *)
(***************************************************************************)
EXTENDS ActionTable, ListSort

NoSymbol == -1

Sorted(S, before(_, _)) == SortSeq(FoldSet(LAMBDA x, s : Append(s, x), <<>>, S), before)

Terminals(g) == 0..g.nterminal - 1
Nonterminals(g) == g.nterminal..g.nsymbol - 1
DefaultSymbol(g) == g.nsymbol
nrule(g) == Len(g.rules)
StartSymbol(g) == g.rules[1].lhs
StartRules(g) == {r \in DOMAIN g.rules : g.rules[r].lhs = StartSymbol(g)}

(* The precedence of a rule is the one of its first symbol to have any. *)
FindRulePrecedences(g) ==
    LET ranked(r) == SelectSeq(g.rules[r].rhs, LAMBDA sp : g.prec[sp] >= 0)
    IN  [g EXCEPT !.rules = [r \in DOMAIN g.rules |->
            IF g.rules[r].precsym # NoSymbol \/ ranked(r) = <<>> THEN g.rules[r]
            ELSE [g.rules[r] EXCEPT !.precsym = Head(ranked(r))]]]

-----------------------------------------------------------------------------
(* First sets *)

(* Nonterminals that generate the empty string *)
RECURSIVE Lambdas(_, _)
Lambdas(g, lambda) ==
    LET all == {g.rules[r].lhs : r \in {q \in DOMAIN g.rules : Range(g.rules[q].rhs) \subseteq lambda}}
    IN  IF all \subseteq lambda THEN lambda ELSE Lambdas(g, lambda \cup all)

(* Mutant: only the first symbol is looked at, also when it may vanish. *)
BeginsAtOnce(first, symbols) == IF symbols = <<>> THEN {} ELSE first.set[symbols[1]]

(* Terminals that a string of symbols may begin with *)
Begins(first, symbols) ==
    UNION {first.set[symbols[k]] : k \in
        {i \in DOMAIN symbols : \A j \in 1..i - 1 : symbols[j] \in first.lambda}}

RECURSIVE FirstSets(_, _)
FirstSets(g, first) ==
    LET set == [sp \in DOMAIN first.set |-> first.set[sp] \cup
            UNION {Begins(first, g.rules[r].rhs) : r \in {q \in DOMAIN g.rules : g.rules[q].lhs = sp}}]
    IN  IF set = first.set THEN first ELSE FirstSets(g, [first EXCEPT !.set = set])

FindFirstSets(g) ==
    FirstSets(g, [lambda |-> Lambdas(g, {}),
                  set |-> [sp \in 0..g.nsymbol - 1 |-> IF sp \in Terminals(g) THEN {sp} ELSE {}]])

-----------------------------------------------------------------------------
(* States *)

Complete(g, c) == c.dot = Len(g.rules[c.rp].rhs)
NextSymbol(g, c) == g.rules[c.rp].rhs[c.dot + 1]
Behind(g, c) == SubSeq(g.rules[c.rp].rhs, c.dot + 2, Len(g.rules[c.rp].rhs))
Before(c1, c2) == c1.rp < c2.rp \/ (c1.rp = c2.rp /\ c1.dot < c2.dot)

(* Does configuration c bring configuration d into the closure? *)
Opens(g, c, d) == d.dot = 0 /\ ~Complete(g, c) /\ NextSymbol(g, c) = g.rules[d.rp].lhs

RECURSIVE Closure(_, _)
Closure(g, configs) ==
    LET opened == {d \in [rp : DOMAIN g.rules, dot : {0}] : \E c \in configs : Opens(g, c, d)}
    IN  IF opened \subseteq configs THEN configs ELSE Closure(g, configs \cup opened)

Shifted(g, configs, sp) ==
    {[c EXCEPT !.dot = @ + 1] : c \in {d \in configs : ~Complete(g, d) /\ NextSymbol(g, d) = sp}}

Configlist_sort(configs) ==
    msort(SetToSeq(configs), {p \in configs \X configs : p[1] = p[2] \/ Before(p[1], p[2])})

(* The symbols that a state shifts, in the order of its configurations *)
Shiftable(g, configs) ==
    FoldLeft(LAMBDA symbols, c : IF Complete(g, c) \/ NextSymbol(g, c) \in Range(symbols) THEN symbols
                                 ELSE Append(symbols, NextSymbol(g, c)),
             <<>>, Configlist_sort(configs))

StateOf(automaton, basis) == {n \in 0..Len(automaton) - 1 : automaton[n + 1].bp = basis}

(* getstate and buildshifts: the state with this basis, and those it leads *)
(* to, are added to the automaton in the order of the recursion.           *)
RECURSIVE GetState(_, _, _)
GetState(g, automaton, basis) ==
    IF StateOf(automaton, basis) # {} THEN automaton
    ELSE LET closure == Closure(g, basis)
             new == Len(automaton) + 1
             build(built, sp) ==
                 LET all == GetState(g, built, Shifted(g, closure, sp))
                     target == CHOOSE n \in StateOf(all, Shifted(g, closure, sp)) : TRUE
                 IN  [all EXCEPT ![new].shifts = [x \in DOMAIN @ \cup {sp} |->
                         IF x = sp THEN target ELSE @[x]]]
         IN  FoldLeft(build,
                 Append(automaton, [bp |-> basis, cfp |-> closure, shifts |-> [x \in {} |-> 0]]),
                 Shiftable(g, closure))

(* Nonterminals in the states that have no rules *)
Unruled(g, automaton) ==
    ((UNION {DOMAIN automaton[n].shifts : n \in DOMAIN automaton}) \cap Nonterminals(g))
        \ {g.rules[r].lhs : r \in DOMAIN g.rules}

FindStates(g) == GetState(g, <<>>, [rp : StartRules(g), dot : {0}])

-----------------------------------------------------------------------------
(* Follow sets *)

Places(automaton) == UNION {{n} \X automaton[n].cfp : n \in DOMAIN automaton}

(* What follows a configuration from its own state, before any propagation *)
Spontaneous(g, first, automaton, place) ==
    LET n == place[1]
        c == place[2]
    IN  (IF n = 1 /\ c \in automaton[1].bp THEN {0} ELSE {})
            \cup UNION {Begins(first, Behind(g, d)) : d \in {e \in automaton[n].cfp : Opens(g, e, c)}}

(* The configurations that pass their follow sets on to this one *)
Propagating(g, first, automaton, place) ==
    LET n == place[1]
        c == place[2]
    IN  {<<n, d>> : d \in {e \in automaton[n].cfp :
                              Opens(g, e, c) /\ Range(Behind(g, e)) \subseteq first.lambda}}
            \cup (IF c.dot = 0 THEN {} ELSE
                  {<<m, [c EXCEPT !.dot = @ - 1]>> : m \in {l \in DOMAIN automaton :
                      LET d == [c EXCEPT !.dot = @ - 1]
                      IN  d \in automaton[l].cfp /\ automaton[l].shifts[NextSymbol(g, d)] = n - 1}})

RECURSIVE Propagated(_, _)
Propagated(links, follow) ==
    LET all == [p \in DOMAIN follow |-> follow[p] \cup UNION {follow[q] : q \in links[p]}]
    IN  IF all = follow THEN follow ELSE Propagated(links, all)

FindFollowSets(g, first, automaton) ==
    LET places == Places(automaton)
    IN  Propagated([p \in places |-> Propagating(g, first, automaton, p)],
                   [p \in places |-> Spontaneous(g, first, automaton, p)])

-----------------------------------------------------------------------------
(* Actions *)

Action(type, x) == [type |-> type, x |-> x]

(* The order of their types in an enumeration *)
Order == [SHIFT |-> 0, ACCEPT |-> 1, REDUCE |-> 2]

(* actioncmp, of actions on one symbol *)
NotBehind(ap1, ap2) ==
    Order[ap1.type] < Order[ap2.type] \/ (ap1.type = ap2.type /\ ap1.x <= ap2.x)

Action_sort(actions) == msort(SetToSeq(actions), {p \in actions \X actions : NotBehind(p[1], p[2])})

(* All actions of state n on a symbol, sorted *)
ActionsOn(g, automaton, follow, n, sp) ==
    LET rules == {c.rp : c \in {d \in automaton[n].cfp : Complete(g, d) /\ sp \in follow[<<n, d>>]}}
        shifts == IF sp \in DOMAIN automaton[n].shifts THEN {Action("SHIFT", automaton[n].shifts[sp])} ELSE {}
        accepts == IF n = 1 /\ sp = StartSymbol(g) THEN {Action("ACCEPT", 0)} ELSE {}
    IN  Action_sort(shifts \cup accepts \cup {Action("REDUCE", r) : r \in rules})

(* What becomes of two actions on one symbol *)
resolve_conflict(g, sp, apx, apy) ==
    LET spx == IF apx.type = "SHIFT" THEN sp ELSE g.rules[apx.x].precsym
        spy == g.rules[apy.x].precsym
        ranked == spx # NoSymbol /\ spy # NoSymbol /\ g.prec[spx] >= 0 /\ g.prec[spy] >= 0
        first(type) == <<apx, [apy EXCEPT !.type = type]>>
        second(type) == <<[apx EXCEPT !.type = type], apy>>
        tie == g.prec[spx] = g.prec[spy]
    IN  IF apx.type = "SHIFT" /\ apy.type = "REDUCE" THEN
            IF ~ranked THEN first("SRCONFLICT")
            ELSE IF g.prec[spx] > g.prec[spy] \/ (tie /\ g.assoc[spx] = "RIGHT") THEN first("RD_RESOLVED")
            ELSE IF g.prec[spx] < g.prec[spy] \/ (tie /\ g.assoc[spx] = "LEFT") THEN second("SH_RESOLVED")
            ELSE first("SRCONFLICT")
        ELSE IF apx.type = "REDUCE" /\ apy.type = "REDUCE" THEN
            IF ~ranked \/ tie THEN first("RRCONFLICT")
            ELSE IF g.prec[spx] > g.prec[spy] THEN first("RD_RESOLVED") ELSE second("RD_RESOLVED")
        ELSE <<apx, apy>>

(* Each action with each that comes after it *)
Resolved(g, sp, actions) ==
    LET pairs == Sorted({p \in (DOMAIN actions) \X (DOMAIN actions) : p[1] < p[2]},
                              LAMBDA p, q : p[1] < q[1] \/ (p[1] = q[1] /\ p[2] < q[2]))
        resolve(ap, p) ==
            LET two == resolve_conflict(g, sp, ap[p[1]], ap[p[2]])
            IN  [ap EXCEPT ![p[1]] = two[1], ![p[2]] = two[2]]
    IN  FoldLeft(resolve, actions, pairs)

(* For every state the actions on every symbol that has some *)
FindActions(g, automaton, follow) ==
    [n \in DOMAIN automaton |->
        LET on(sp) == ActionsOn(g, automaton, follow, n, sp)
        IN  [sp \in {x \in 0..g.nsymbol - 1 : on(x) # <<>>} |-> Resolved(g, sp, on(sp))]]

IsUsed(action) == action.type \in {"SHIFT", "ACCEPT", "REDUCE"}

(* The one action on each symbol that is left to the parser *)
UsedActions(actions) ==
    [sp \in {x \in DOMAIN actions : \E action \in Range(actions[x]) : IsUsed(action)} |->
        CHOOSE action \in Range(actions[sp]) : IsUsed(action)]

(* Rules that are reduced in some state *)
Reduced(states) ==
    {action.x : action \in {a \in UNION {Range(states[n]) : n \in DOMAIN states} : a.type = "REDUCE"}}

-----------------------------------------------------------------------------
(* Tables *)

Reduces(ap, r) == {sp \in DOMAIN ap : ap[sp] = Action("REDUCE", r)}

(* Mutant: rules of the start symbol may become defaults, too. *)
CompressedStart(g, ap) ==
    LET rules == {r \in DOMAIN g.rules : Reduces(ap, r) # {}}
        least(r) == CHOOSE sp \in Reduces(ap, r) : \A x \in Reduces(ap, r) : sp <= x
        often(r) == Cardinality(Reduces(ap, r))
        rbest == CHOOSE r \in rules : \A q \in rules :
                     often(q) < often(r) \/ (often(q) = often(r) /\ least(r) <= least(q))
    IN  IF rules = {} THEN ap
        ELSE [sp \in (DOMAIN ap \ Reduces(ap, rbest)) \cup {DefaultSymbol(g)} |->
                 IF sp = DefaultSymbol(g) THEN Action("REDUCE", rbest) ELSE ap[sp]]

(* The rule that is reduced most often, the first such, becomes default. *)
Compressed(g, ap) ==
    LET rules == {r \in DOMAIN g.rules \ StartRules(g) : Reduces(ap, r) # {}}
        least(r) == CHOOSE sp \in Reduces(ap, r) : \A x \in Reduces(ap, r) : sp <= x
        often(r) == Cardinality(Reduces(ap, r))
        rbest == CHOOSE r \in rules : \A q \in rules :
                     often(q) < often(r) \/ (often(q) = often(r) /\ least(r) <= least(q))
    IN  IF rules = {} THEN ap
        ELSE [sp \in (DOMAIN ap \ Reduces(ap, rbest)) \cup {DefaultSymbol(g)} |->
                 IF sp = DefaultSymbol(g) THEN Action("REDUCE", rbest) ELSE ap[sp]]

CompressTables(g, states) == [n \in DOMAIN states |-> Compressed(g, states[n])]

nTknAct(g, ap) == Cardinality(DOMAIN ap \cap Terminals(g))
nNtAct(g, ap) == Cardinality(DOMAIN ap \cap Nonterminals(g))

(* The old numbers of the states in their new order *)
ResortStates(g, states) ==
    LET before(m, n) ==
            LET nt == nNtAct(g, states[m + 1]) - nNtAct(g, states[n + 1])
                tkn == nTknAct(g, states[m + 1]) - nTknAct(g, states[n + 1])
            IN  nt > 0 \/ (nt = 0 /\ (tkn > 0 \/ (tkn = 0 /\ m > n)))
    IN  <<0>> \o Sorted(1..Len(states) - 1, before)

YY_ERROR_ACTION(g, nstate) == nstate + nrule(g)
YY_ACCEPT_ACTION(g, nstate) == nstate + nrule(g) + 1

(* The number of an action in the tables, with the states in this order *)
compute_action(g, order, action) ==
    CASE action.type = "SHIFT" -> (CHOOSE k \in DOMAIN order : order[k] = action.x) - 1
      [] action.type = "REDUCE" -> Len(order) + action.x - 1
      [] action.type = "ACCEPT" -> YY_ACCEPT_ACTION(g, Len(order))

(* Two sets of actions for each state, the largest sets first *)
ActionSetsOf(g, order, states) ==
    LET set(n, symbols) ==
            [sp \in DOMAIN states[order[n + 1] + 1] \cap symbols |->
                compute_action(g, order, states[order[n + 1] + 1][sp])]
        sets == {[stp |-> n, isTkn |-> isTkn, actions |->
                    set(n, IF isTkn THEN Terminals(g) ELSE Nonterminals(g))] :
                        n \in 0..Len(order) - 1, isTkn \in BOOLEAN}
        iOrder(s) == 2 * s.stp + (IF s.isTkn THEN 0 ELSE 1)
        before(s, t) ==
            LET c == Cardinality(DOMAIN s.actions) - Cardinality(DOMAIN t.actions)
            IN  c > 0 \/ (c = 0 /\ iOrder(s) > iOrder(t))
    IN  Sorted({s \in sets : DOMAIN s.actions # {}}, before)
=============================================================================
