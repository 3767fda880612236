--------------------------- MODULE PackedActions ---------------------------
(***************************************************************************)
(* A table that sets of actions are packed into, one after another.        *)
(***************************************************************************)
EXTENDS ActionTable

CONSTANTS Lookaheads,   \* the numbers of the symbols
          ActionSets    \* what may be packed

ASSUME LookaheadsAssumption == Lookaheads \subseteq Nat

ASSUME ActionSetsAssumption ==
    \A actions \in ActionSets :
        /\ DOMAIN actions \subseteq Lookaheads
        /\ \E mn \in DOMAIN actions : \A l \in DOMAIN actions : mn <= l
        /\ \E mx \in DOMAIN actions : \A l \in DOMAIN actions : l <= mx
        /\ \A l \in DOMAIN actions : actions[l] \in Nat

VARIABLES table,    \* the table under construction
          packed,   \* history: what has been packed, and the offset it got
          ranOff    \* history: some set found neither holes nor a duplicate

tableVars == <<table, packed, ranOff>>

PackingInit == table = NewTable /\ packed = {} /\ ranOff = FALSE

(* acttab_insert *)
Pack(actions) ==
    /\ table' = Inserted(table, actions)
    /\ packed' = packed \cup {[actions |-> actions, offset |-> Offset(table, actions)]}
    /\ ranOff' = (ranOff \/ RunsOff(table, actions))

PackingNext == \E actions \in ActionSets : Pack(actions)

PackingSpec == PackingInit /\ [][PackingNext]_tableVars

-----------------------------------------------------------------------------
(* However the sets are interleaved, every set finds its own actions at    *)
(* its offset, and finds nothing for any other lookahead, unless some      *)
(* insertion has run off the holes: it is then put where nobody has looked *)
(* for claims, and not, as lemon.c:590-594 has it, appended                *)
(* (lemon.c:553-617).                                                      *)
LookupsFindActions ==
    \A set \in packed :
        /\ \A l \in DOMAIN set.actions : Lookup(table, set.offset, l) = set.actions[l]
        /\ ~ranOff => \A l \in Lookaheads \ DOMAIN set.actions : Lookup(table, set.offset, l) = NoAction

(* No insertion writes behind the array, also when it has run off          *)
(* (lemon.c:537-550, 610-614).                                             *)
WritesInBounds ==
    table.nAction <= table.nActionAlloc /\ DOMAIN table.aAction = 0..table.nActionAlloc - 1
=============================================================================
