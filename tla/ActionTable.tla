---------------------------- MODULE ActionTable ----------------------------
(***************************************************************************)
(* The action table of a generated parser (acttab in lemon.c): the actions *)
(* of all states lie in one array, each set of them from an offset of its  *)
(* own on, and the sets may be interleaved.  What is looked up at an       *)
(* offset is only believed if the entry found names the lookahead itself.  *)
(*                                                                         *)
(* A set of actions is a function from lookaheads, which are numbers.      *)
(***************************************************************************)
EXTENDS Integers

CONSTANT Growth     \* slots allocated beyond those that are needed: 20

ASSUME GrowthAssumption == Growth \in Nat \ {0}

Free == [lookahead |-> -1, action |-> -1]
NoAction == -1

NewTable == [nAction |-> 0, nActionAlloc |-> 0, aAction |-> [k \in {} |-> Free]]

mxLookahead(actions) == CHOOSE mx \in DOMAIN actions : \A l \in DOMAIN actions : l <= mx
mnLookahead(actions) == CHOOSE mn \in DOMAIN actions : \A l \in DOMAIN actions : mn <= l

(* Room for the actions behind all there are *)
Extended(table, actions) ==
    LET n == mxLookahead(actions) + 1
        alloc == table.nAction + n + table.nActionAlloc + Growth
    IN  IF table.nAction + n < table.nActionAlloc THEN table
        ELSE [table EXCEPT !.nActionAlloc = alloc,
                 !.aAction = [k \in 0..alloc - 1 |->
                     IF k < table.nActionAlloc THEN table.aAction[k] ELSE Free]]

Slots(table) == 0..table.nAction - 1

(* The slot of lookahead l, when the least lookahead is put in slot i *)
Slot(actions, i, l) == l - mnLookahead(actions) + i

(* Lookups with the least lookahead in slot i that would find slot j *)
Claims(table, actions, i, j) == table.aAction[j].lookahead = j + mnLookahead(actions) - i

(* Slots from which on just these actions lie in the table already *)
Duplicates(table, actions) ==
    {i \in Slots(table) :
        /\ \A l \in DOMAIN actions :
              LET k == Slot(actions, i, l)
              IN  k \in Slots(table) /\ table.aAction[k] = [lookahead |-> l, action |-> actions[l]]
        /\ \A j \in Slots(table) :
              Claims(table, actions, i, j) /\ table.aAction[j].lookahead >= 0
                  => table.aAction[j].lookahead \in DOMAIN actions}

(* Mutant: who else would look into the holes is not asked. *)
HolesUnasked(table, actions) ==
    {i \in 0..table.nActionAlloc - mxLookahead(actions) - 1 :
        /\ table.aAction[i].lookahead < 0
        /\ \A l \in DOMAIN actions : table.aAction[Slot(actions, i, l)].lookahead < 0}

(* Slots from which on the actions fit into holes *)
Holes(table, actions) ==
    {i \in 0..table.nActionAlloc - mxLookahead(actions) - 1 :
        /\ table.aAction[i].lookahead < 0
        /\ \A l \in DOMAIN actions : table.aAction[Slot(actions, i, l)].lookahead < 0
        /\ \A j \in Slots(table) : ~Claims(table, actions, i, j)}

RunsOff(table, actions) ==
    Duplicates(table, actions) = {} /\ Holes(Extended(table, actions), actions) = {}

(* Where acttab_insert puts the least lookahead: the last duplicate, the   *)
(* first holes, or where the loop over the slots has run off its end       *)
Position(table, actions) ==
    LET duplicates == Duplicates(table, actions)
        extended == Extended(table, actions)
        holes == Holes(extended, actions)
    IN  IF duplicates # {} THEN CHOOSE i \in duplicates : \A j \in duplicates : j <= i
        ELSE IF holes # {} THEN CHOOSE i \in holes : \A j \in holes : i <= j
        ELSE extended.nActionAlloc - mxLookahead(actions)

Offset(table, actions) == Position(table, actions) - mnLookahead(actions)

Inserted(table, actions) ==
    LET extended == Extended(table, actions)
        offset == Offset(table, actions)
        size == offset + mxLookahead(actions) + 1
    IN  [extended EXCEPT
            !.aAction = [k \in DOMAIN extended.aAction |->
                IF k - offset \in DOMAIN actions
                THEN [lookahead |-> k - offset, action |-> actions[k - offset]]
                ELSE extended.aAction[k]],
            !.nAction = IF size > extended.nAction THEN size ELSE extended.nAction]

(* yy_find_shift_action and yy_find_reduce_action *)
Lookup(table, offset, l) ==
    IF offset + l \in Slots(table) /\ table.aAction[offset + l].lookahead = l
    THEN table.aAction[offset + l].action ELSE NoAction
=============================================================================
