--------------------------- MODULE LanguageProofs ---------------------------
(***************************************************************************)
(* Proofs about the plan language.  Of the parser generator, for every     *)
(* grammar: its table of symbols and its packed table of actions.  Of the  *)
(* statements, for every sequence of them: the plans they make, what the   *)
(* scheduler finds out about a query, and what is in its tuples.           *)
(***************************************************************************)
EXTENDS PackedActions, GrammarReader, QueryPlan, TypedQuery, SubsequenceTheorems

-----------------------------------------------------------------------------
(* Lookups in a packed action table, for all sets of actions, any number   *)
(* of them, and any growth of the array.                                   *)
(*                                                                         *)
(* The invariant is about entries, not about sets: an entry of a set stays *)
(* where it was put, and no used entry names the lookahead with which the  *)
(* offset of a set would find it, but for the entries of that set.  The    *)
(* second half is only true while every set has found holes or a           *)
(* duplicate.                                                              *)

Entry == [lookahead : Nat \cup {-1}, action : Nat \cup {-1}]

Used(t, j) == t.aAction[j].lookahead >= 0

(* Shape of the table: what is behind the last used slot is free. *)
Formed(t) ==
    /\ t = [nAction |-> t.nAction, nActionAlloc |-> t.nActionAlloc, aAction |-> t.aAction]
    /\ t.nAction \in Nat /\ t.nActionAlloc \in Nat /\ t.nAction <= t.nActionAlloc
    /\ t.aAction \in [0..t.nActionAlloc - 1 -> Entry]
    /\ \A k \in t.nAction..t.nActionAlloc - 1 : t.aAction[k] = Free
    /\ t.nAction > 0 => Used(t, t.nAction - 1)

Keeps(t, actions, offset) ==
    \A l \in DOMAIN actions :
        /\ offset + l \in Slots(t)
        /\ t.aAction[offset + l] = [lookahead |-> l, action |-> actions[l]]

Unclaimed(t, actions, offset) ==
    \A j \in Slots(t) :
        Used(t, j) /\ t.aAction[j].lookahead = j - offset => t.aAction[j].lookahead \in DOMAIN actions

PackedType == \A set \in packed : set.actions \in ActionSets /\ set.offset \in Int

PackingInv ==
    /\ Formed(table)
    /\ ranOff \in BOOLEAN
    /\ PackedType
    /\ \A set \in packed : Keeps(table, set.actions, set.offset)
    /\ ~ranOff => \A set \in packed : Unclaimed(table, set.actions, set.offset)

-----------------------------------------------------------------------------
(* The least and the greatest lookahead of a set are what they are called. *)
LEMMA Bounds ==
    ASSUME NEW actions \in ActionSets
    PROVE  /\ DOMAIN actions \subseteq Nat
           /\ mnLookahead(actions) \in DOMAIN actions
           /\ mxLookahead(actions) \in DOMAIN actions
           /\ \A l \in DOMAIN actions : mnLookahead(actions) <= l /\ l <= mxLookahead(actions)
           /\ \A l \in DOMAIN actions : actions[l] \in Nat
BY ActionSetsAssumption, LookaheadsAssumption DEF mnLookahead, mxLookahead

(* Numbers below a bound have a greatest. *)
LEMMA Greatest ==
    ASSUME NEW n \in Nat, NEW S, S \subseteq 0..n - 1, S # {}
    PROVE  \E i \in S : \A j \in S : j <= i
<1> DEFINE T == {n - i : i \in S}
<1>1. T \in SUBSET Nat /\ T # {}
  <2>1. \A i \in S : n - i \in Nat
    OBVIOUS
  <2> QED
    BY <2>1
<1>2. PICK m \in T : \A k \in T : m <= k
  <2> HIDE DEF T
  <2> QED
    BY <1>1, Least
<1>3. PICK i \in S : m = n - i
  BY <1>2
<1>4. \A j \in S : m <= n - j
  BY <1>2
<1> QED
  BY <1>3, <1>4

(* There is room for two slots more than an appended set needs. *)
LEMMA ExtendedRoom ==
    ASSUME NEW t, Formed(t), NEW actions \in ActionSets
    PROVE  LET e == Extended(t, actions)
           IN  /\ Formed(e)
               /\ e.nAction = t.nAction
               /\ e.nActionAlloc >= t.nAction + mxLookahead(actions) + 2
               /\ \A k \in Slots(t) : e.aAction[k] = t.aAction[k]
<1> DEFINE mx == mxLookahead(actions)
           e == Extended(t, actions)
           alloc == t.nAction + (mx + 1) + t.nActionAlloc + Growth
<1>1. mx \in Nat /\ Growth \in Nat /\ Growth >= 1
  BY Bounds, GrowthAssumption
<1>2. CASE t.nAction + (mx + 1) < t.nActionAlloc
  <2>1. e = t
    BY <1>2 DEF Extended
  <2> QED
    BY <2>1, <1>1, <1>2 DEF Formed
<1>3. CASE ~(t.nAction + (mx + 1) < t.nActionAlloc)
  <2>1. e = [t EXCEPT !.nActionAlloc = alloc,
               !.aAction = [k \in 0..alloc - 1 |->
                     IF k < t.nActionAlloc THEN t.aAction[k] ELSE Free]]
    BY <1>3 DEF Extended
  <2>2. e = [nAction |-> t.nAction, nActionAlloc |-> alloc,
             aAction |-> [k \in 0..alloc - 1 |->
                     IF k < t.nActionAlloc THEN t.aAction[k] ELSE Free]]
    BY <2>1 DEF Formed
  <2>3. alloc \in Nat /\ alloc >= t.nAction + mx + 2 /\ alloc >= t.nActionAlloc
    BY <1>1 DEF Formed
  <2>4. e.nAction = t.nAction /\ e.nActionAlloc = alloc
    BY <2>2
  <2>5. \A k \in 0..alloc - 1 :
            e.aAction[k] = IF k < t.nActionAlloc THEN t.aAction[k] ELSE Free
    BY <2>2
  <2>6. \A k \in Slots(t) : e.aAction[k] = t.aAction[k]
    BY <2>3, <2>5 DEF Slots, Formed
  <2>7. Free \in Entry
    BY DEF Free, Entry
  <2>8. e.aAction \in [0..alloc - 1 -> Entry]
    <3>1. \A k \in 0..alloc - 1 : (IF k < t.nActionAlloc THEN t.aAction[k] ELSE Free) \in Entry
      BY <2>3, <2>7 DEF Formed
    <3> QED
      BY <3>1, <2>2
  <2>9. \A k \in t.nAction..alloc - 1 : e.aAction[k] = Free
    BY <2>3, <2>5 DEF Formed
  <2>10. t.nAction > 0 => Used(e, t.nAction - 1)
    BY <2>6 DEF Formed, Slots, Used
  <2>11. e = [nAction |-> e.nAction, nActionAlloc |-> e.nActionAlloc, aAction |-> e.aAction]
    BY <2>2
  <2>12. Formed(e)
    <3> HIDE DEF e, alloc
    <3> QED
      BY <2>3, <2>4, <2>8, <2>9, <2>10, <2>11 DEF Formed
  <2> QED
    BY <2>3, <2>4, <2>6, <2>12
<1> QED
  BY <1>2, <1>3

(* Where the set goes: to a duplicate, into holes, or past all holes *)
LEMMA PositionCases ==
    ASSUME NEW t, Formed(t), NEW actions \in ActionSets
    PROVE  LET e == Extended(t, actions)
               i == Position(t, actions)
           IN  \/ i \in Duplicates(t, actions)
               \/ /\ Duplicates(t, actions) = {}
                  /\ i \in Holes(e, actions)
               \/ /\ RunsOff(t, actions)
                  /\ i = e.nActionAlloc - mxLookahead(actions)
<1> DEFINE e == Extended(t, actions)
           duplicates == Duplicates(t, actions)
           holes == Holes(e, actions)
<1>1. CASE duplicates # {}
  <2>1. duplicates \subseteq 0..t.nAction - 1
    BY DEF Duplicates, Slots
  <2>2. \E i \in duplicates : \A j \in duplicates : j <= i
    <3> HIDE DEF duplicates
    <3> QED
      BY <1>1, <2>1, Greatest DEF Formed
  <2>3. Position(t, actions) = CHOOSE i \in duplicates : \A j \in duplicates : j <= i
    BY <1>1 DEF Position
  <2> QED
    BY <2>2, <2>3
<1>2. CASE duplicates = {} /\ holes # {}
  <2>1. holes \in SUBSET Nat
    BY DEF Holes
  <2>2. \E i \in holes : \A j \in holes : i <= j
    <3> HIDE DEF holes
    <3> QED
      BY <1>2, <2>1, Least
  <2>3. Position(t, actions) = CHOOSE i \in holes : \A j \in holes : i <= j
    BY <1>2 DEF Position
  <2> QED
    BY <1>2, <2>2, <2>3
<1>3. CASE duplicates = {} /\ holes = {}
  BY <1>3 DEF Position, RunsOff
<1> QED
  BY <1>1, <1>2, <1>3

(* A set with lookahead 0 always fits right behind the last used slot.     *)
LEMMA RunOffHasNoZero ==
    ASSUME NEW t, Formed(t), NEW actions \in ActionSets, RunsOff(t, actions)
    PROVE  mnLookahead(actions) >= 1
<1> DEFINE e == Extended(t, actions)
           mn == mnLookahead(actions)
           mx == mxLookahead(actions)
<1>1. SUFFICES ASSUME mn = 0 PROVE FALSE
  BY Bounds
<1>2. Formed(e) /\ e.nAction = t.nAction /\ e.nActionAlloc >= t.nAction + mx + 2
  BY ExtendedRoom
<1>3. mx \in Nat /\ \A l \in DOMAIN actions : l \in Nat /\ l <= mx
  BY Bounds
<1>4. t.nAction \in 0..e.nActionAlloc - mx - 1
  BY <1>2, <1>3 DEF Formed
<1>5. \A k \in 0..mx : e.aAction[t.nAction + k].lookahead < 0
  <2>1. \A k \in 0..mx : t.nAction + k \in e.nAction..e.nActionAlloc - 1
    BY <1>2, <1>3 DEF Formed
  <2> QED
    BY <1>2, <2>1 DEF Formed, Free
<1>6. \A l \in DOMAIN actions : e.aAction[Slot(actions, t.nAction, l)].lookahead < 0
  <2>1. \A l \in DOMAIN actions : Slot(actions, t.nAction, l) = t.nAction + l /\ l \in 0..mx
    BY <1>1, <1>2, <1>3 DEF Slot, Formed
  <2> QED
    BY <1>5, <2>1
<1>7. ASSUME NEW j \in Slots(e), Claims(e, actions, t.nAction, j) PROVE FALSE
  <2>1. j \in 0..t.nAction - 1 /\ e.aAction[j].lookahead = j - t.nAction
    BY <1>1, <1>2, <1>7 DEF Claims, Slots, Formed
  <2>2. CASE j = t.nAction - 1
    BY <1>2, <2>1, <2>2 DEF Formed, Used
  <2>3. CASE j < t.nAction - 1
    <3>1. j \in 0..e.nActionAlloc - 1
      BY <1>2, <1>3, <2>1 DEF Formed
    <3>2. e.aAction[j] \in Entry
      BY <1>2, <3>1 DEF Formed
    <3>3. e.aAction[j].lookahead >= -1
      BY <3>2 DEF Entry
    <3> QED
      BY <1>2, <2>1, <2>3, <3>3 DEF Formed
  <2> QED
    BY <1>2, <2>1, <2>2, <2>3 DEF Formed
<1>8. e.aAction[t.nAction].lookahead < 0
  <2>1. 0 \in 0..mx /\ t.nAction + 0 = t.nAction
    BY <1>3 DEF Formed
  <2> QED
    BY <1>5, <2>1
<1>9. t.nAction \in Holes(e, actions)
  BY <1>4, <1>6, <1>7, <1>8 DEF Holes
<1> QED
  BY <1>9 DEF RunsOff

(* Every entry of the set is written into the array, over a free slot or   *)
(* over itself.                                                            *)
LEMMA EntriesFit ==
    ASSUME NEW t, Formed(t), NEW actions \in ActionSets
    PROVE  LET e == Extended(t, actions)
               o == Offset(t, actions)
           IN  /\ Position(t, actions) \in Int /\ o \in Int
               /\ \A l \in DOMAIN actions :
                     /\ Slot(actions, Position(t, actions), l) = o + l
                     /\ o + l \in 0..e.nActionAlloc - 1
                     /\ \/ e.aAction[o + l] = [lookahead |-> l, action |-> actions[l]]
                        \/ e.aAction[o + l].lookahead < 0
<1> DEFINE e == Extended(t, actions)
           i == Position(t, actions)
           o == Offset(t, actions)
           mn == mnLookahead(actions)
           mx == mxLookahead(actions)
<1>1. /\ Formed(e) /\ e.nAction = t.nAction /\ e.nActionAlloc >= t.nAction + mx + 2
      /\ \A k \in Slots(t) : e.aAction[k] = t.aAction[k]
  BY ExtendedRoom
<1>2. /\ mn \in Nat /\ mx \in Nat
      /\ \A l \in DOMAIN actions : l \in Nat /\ mn <= l /\ l <= mx
  BY Bounds
<1>3. i \in Int
  <2>1. e.nActionAlloc \in Int
    BY <1>1 DEF Formed
  <2>2. i \in Slots(t) \/ i \in 0..e.nActionAlloc - mx - 1 \/ i = e.nActionAlloc - mx
    BY PositionCases DEF Duplicates, Holes
  <2> QED
    BY <1>2, <2>1, <2>2 DEF Slots
<1>4. o = i - mn /\ o \in Int
  BY <1>2, <1>3 DEF Offset
<1>5. \A l \in DOMAIN actions : Slot(actions, i, l) = o + l
  BY <1>2, <1>3, <1>4 DEF Slot
<1>6. ASSUME NEW l \in DOMAIN actions
      PROVE  /\ o + l \in 0..e.nActionAlloc - 1
             /\ \/ e.aAction[o + l] = [lookahead |-> l, action |-> actions[l]]
                \/ e.aAction[o + l].lookahead < 0
  <2> HIDE DEF i, o, e, mn, mx
  <2>0. /\ t.nAction \in Nat /\ e.nActionAlloc \in Nat
        /\ l \in Nat /\ mn <= l /\ l <= mx
        /\ e.nActionAlloc >= t.nAction + mx + 2
    BY <1>1, <1>2 DEF Formed
  <2>1. CASE i \in Duplicates(t, actions)
    <3>1. o + l \in Slots(t) /\ t.aAction[o + l] = [lookahead |-> l, action |-> actions[l]]
      BY <1>5, <2>1 DEF Duplicates
    <3> QED
      BY <1>1, <1>2, <3>1 DEF Slots, Formed
  <2>2. CASE i \in Holes(e, actions)
    <3>1. e.aAction[o + l].lookahead < 0
      BY <1>5, <2>2 DEF Holes
    <3>2. i \in 0..e.nActionAlloc - mx - 1
      BY <2>2 DEF Holes, mx
    <3>3. o + l \in 0..e.nActionAlloc - 1
      BY <1>2, <1>4, <2>0, <3>2
    <3> QED
      BY <3>1, <3>3
  <2>3. CASE RunsOff(t, actions) /\ i = e.nActionAlloc - mx
    <3>1. mn >= 1
      BY <2>3, RunOffHasNoZero DEF mn
    <3>2. o + l \in t.nAction..e.nActionAlloc - 1
      BY <1>2, <1>4, <2>0, <2>3, <3>1
    <3>3. e.aAction[o + l] = Free
      BY <1>1, <3>2 DEF Formed
    <3>4. o + l \in 0..e.nActionAlloc - 1
      BY <3>2, <1>1 DEF Formed
    <3> QED
      BY <3>3, <3>4 DEF Free
  <2> QED
    BY <2>1, <2>2, <2>3, PositionCases DEF i, e, mx
<1> QED
  BY <1>3, <1>4, <1>5, <1>6

(* An insertion changes no entry that is in use, and adds those of the set.  *)
LEMMA InsertedKeeps ==
    ASSUME NEW t, Formed(t), NEW actions \in ActionSets
    PROVE  LET u == Inserted(t, actions)
               e == Extended(t, actions)
               o == Offset(t, actions)
           IN  /\ Formed(u)
               /\ Keeps(u, actions, o)
               /\ \A k \in Slots(t) : k \in Slots(u) /\ (Used(t, k) => u.aAction[k] = t.aAction[k])
               /\ \A k \in Slots(u) : Used(u, k) /\ k - o \notin DOMAIN actions
                     => /\ k \in Slots(t)
                        /\ u.aAction[k] = t.aAction[k]
                        /\ e.aAction[k] = t.aAction[k]
<1> DEFINE u == Inserted(t, actions)
           e == Extended(t, actions)
           o == Offset(t, actions)
           mx == mxLookahead(actions)
           size == o + mx + 1
           n == IF size > e.nAction THEN size ELSE e.nAction
<1>1. /\ Formed(e) /\ e.nAction = t.nAction
      /\ \A k \in Slots(t) : e.aAction[k] = t.aAction[k]
  BY ExtendedRoom
<1>2. /\ mx \in Nat /\ mx \in DOMAIN actions
      /\ \A l \in DOMAIN actions : l \in Nat /\ l <= mx /\ actions[l] \in Nat
  BY Bounds
<1>3. /\ o \in Int
      /\ \A l \in DOMAIN actions :
            /\ o + l \in 0..e.nActionAlloc - 1
            /\ \/ e.aAction[o + l] = [lookahead |-> l, action |-> actions[l]]
               \/ e.aAction[o + l].lookahead < 0
  BY EntriesFit
<1>4. u = [nAction |-> n, nActionAlloc |-> e.nActionAlloc,
           aAction |-> [k \in DOMAIN e.aAction |->
               IF k - o \in DOMAIN actions
               THEN [lookahead |-> k - o, action |-> actions[k - o]]
               ELSE e.aAction[k]]]
  <2>1. u = [e EXCEPT
              !.aAction = [k \in DOMAIN e.aAction |->
                  IF k - o \in DOMAIN actions
                  THEN [lookahead |-> k - o, action |-> actions[k - o]]
                  ELSE e.aAction[k]],
              !.nAction = n]
    BY DEF Inserted
  <2>2. e = [nAction |-> e.nAction, nActionAlloc |-> e.nActionAlloc, aAction |-> e.aAction]
    BY <1>1 DEF Formed
  <2> HIDE DEF u, e, n, o
  <2> QED
    BY <2>1, <2>2
<1>5. DOMAIN e.aAction = 0..e.nActionAlloc - 1 /\ e.nActionAlloc \in Nat /\ e.nAction \in Nat
  BY <1>1 DEF Formed
<1>6. \A k \in 0..e.nActionAlloc - 1 :
          u.aAction[k] = IF k - o \in DOMAIN actions
                         THEN [lookahead |-> k - o, action |-> actions[k - o]]
                         ELSE e.aAction[k]
  BY <1>4, <1>5
<1>7. u.nAction = n /\ u.nActionAlloc = e.nActionAlloc
  BY <1>4
<1>8. n \in Nat /\ e.nAction <= n /\ n <= e.nActionAlloc /\ size <= n
  <2>1. o + mx \in 0..e.nActionAlloc - 1
    BY <1>2, <1>3
  <2>2. e.nAction <= e.nActionAlloc
    BY <1>1 DEF Formed
  <2> HIDE DEF o, mx, e
  <2> QED
    BY <1>2, <1>3, <1>5, <2>1, <2>2
<1>9. ASSUME NEW l \in DOMAIN actions
      PROVE  o + l \in 0..n - 1 /\ u.aAction[o + l] = [lookahead |-> l, action |-> actions[l]]
  <2>1. o + l \in 0..e.nActionAlloc - 1 /\ l <= mx /\ l \in Nat
    BY <1>2, <1>3
  <2>2. (o + l) - o = l
    BY <1>3, <2>1
  <2>3. u.aAction[o + l] = [lookahead |-> l, action |-> actions[l]]
    BY <1>6, <2>1, <2>2
  <2>4. o + l < n
    <3> HIDE DEF o, mx, e, n
    <3> QED
      BY <1>2, <1>3, <1>8, <2>1
  <2> HIDE DEF o, mx, e, n
  <2> QED
    BY <1>8, <2>1, <2>3, <2>4
<1>10. Formed(u)
  <2>1. u.aAction \in [0..u.nActionAlloc - 1 -> Entry]
    <3>1. \A k \in 0..e.nActionAlloc - 1 : u.aAction[k] \in Entry
      <4>1. \A k \in 0..e.nActionAlloc - 1 : e.aAction[k] \in Entry
        BY <1>1 DEF Formed
      <4>2. \A l \in DOMAIN actions : [lookahead |-> l, action |-> actions[l]] \in Entry
        BY <1>2 DEF Entry
      <4> HIDE DEF u, e, o
      <4> QED
        BY <1>6, <4>1, <4>2
    <3>2. u.aAction = [k \in 0..e.nActionAlloc - 1 |-> u.aAction[k]]
      BY <1>4, <1>5
    <3> HIDE DEF u, e
    <3> QED
      BY <1>7, <3>1, <3>2
  <2>2. ASSUME NEW k \in n..e.nActionAlloc - 1 PROVE u.aAction[k] = Free
    <3> HIDE DEF u, e, o, mx, n
    <3>1. k \in 0..e.nActionAlloc - 1 /\ k \in e.nAction..e.nActionAlloc - 1
      BY <1>5, <1>8, <2>2
    <3>2. k - o \notin DOMAIN actions
      <4>1. k - o > mx
        BY <1>2, <1>3, <1>5, <1>8, <2>2
      <4> QED
        BY <1>2, <1>3, <4>1
    <3>3. e.aAction[k] = Free
      BY <1>1, <3>1 DEF Formed
    <3> QED
      BY <1>6, <3>1, <3>2, <3>3
  <2>3. ASSUME n > 0 PROVE Used(u, n - 1)
    <3>1. CASE size > e.nAction
      <4>1. n = o + mx + 1
        BY <3>1
      <4>2. n - 1 = o + mx
        <5> HIDE DEF o, mx, n
        <5> QED
          BY <1>2, <1>3, <4>1
      <4>3. u.aAction[o + mx].lookahead = mx
        <5>1. u.aAction[o + mx] = [lookahead |-> mx, action |-> actions[mx]]
          <6> HIDE DEF u, o, mx, n
          <6> QED
            BY <1>2, <1>9
        <5> HIDE DEF u, o, mx, n
        <5> QED
          BY <5>1
      <4>4. u.aAction[n - 1].lookahead = mx
        <5> HIDE DEF u, o, mx, n
        <5> QED
          BY <4>2, <4>3
      <4> HIDE DEF u, o, mx, n
      <4> QED
        BY <1>2, <4>4 DEF Used
    <3>2. CASE ~(size > e.nAction)
      <4>1. n = e.nAction
        BY <3>2
      <4>2. Used(e, n - 1)
        <5> HIDE DEF n, e
        <5> QED
          BY <1>1, <2>3, <4>1 DEF Formed
      <4>3. n - 1 \in 0..e.nActionAlloc - 1
        <5> HIDE DEF n, e
        <5> QED
          BY <1>5, <1>8, <2>3
      <4>4. u.aAction[n - 1].lookahead >= 0
        <5>1. CASE (n - 1) - o \in DOMAIN actions
          <6>1. u.aAction[n - 1] = [lookahead |-> (n - 1) - o, action |-> actions[(n - 1) - o]]
            <7> HIDE DEF u, n, e, o
            <7> QED
              BY <1>6, <4>3, <5>1
          <6>2. u.aAction[n - 1].lookahead = (n - 1) - o
            <7> HIDE DEF u, n, e, o
            <7> QED
              BY <6>1
          <6> HIDE DEF u, n, e, o
          <6> QED
            BY <1>2, <5>1, <6>2
        <5>2. CASE (n - 1) - o \notin DOMAIN actions
          <6>1. u.aAction[n - 1] = e.aAction[n - 1]
            <7> HIDE DEF u, n, e, o
            <7> QED
              BY <1>6, <4>3, <5>2
          <6> HIDE DEF u, n, e, o
          <6> QED
            BY <4>2, <6>1 DEF Used
        <5> QED
          BY <5>1, <5>2
      <4> HIDE DEF u, n
      <4> QED
        BY <4>4 DEF Used
    <3> QED
      BY <3>1, <3>2
  <2>4. u = [nAction |-> u.nAction, nActionAlloc |-> u.nActionAlloc, aAction |-> u.aAction]
    BY <1>4
  <2> HIDE DEF u, n, e
  <2> QED
    BY <1>5, <1>7, <1>8, <2>1, <2>2, <2>3, <2>4 DEF Formed
<1>11. Keeps(u, actions, o)
  <2> HIDE DEF u, n, o
  <2> QED
    BY <1>7, <1>9 DEF Keeps, Slots
<1>12. ASSUME NEW k \in Slots(t)
       PROVE  k \in Slots(u) /\ (Used(t, k) => u.aAction[k] = t.aAction[k])
  <2>1. k \in 0..e.nAction - 1 /\ k \in 0..e.nActionAlloc - 1 /\ k \in 0..n - 1
    <3> HIDE DEF e, n
    <3> QED
      BY <1>1, <1>5, <1>8 DEF Slots
  <2>2. k \in Slots(u)
    <3> HIDE DEF u, n
    <3> QED
      BY <1>7, <2>1 DEF Slots
  <2>3. ASSUME Used(t, k) PROVE u.aAction[k] = t.aAction[k]
    <3>1. e.aAction[k] = t.aAction[k]
      BY <1>1
    <3>2. CASE k - o \in DOMAIN actions
      <4>1. o + (k - o) = k
        <5> HIDE DEF o
        <5> QED
          BY <1>3, <2>1
      <4>2. \/ e.aAction[k] = [lookahead |-> k - o, action |-> actions[k - o]]
            \/ e.aAction[k].lookahead < 0
        <5> HIDE DEF e, o
        <5> QED
          BY <1>3, <3>2, <4>1
      <4>3. ~(e.aAction[k].lookahead < 0)
        <5>1. e.aAction[k] \in Entry
          <6> HIDE DEF e
          <6> QED
            BY <1>1, <2>1 DEF Formed
        <5>2. e.aAction[k].lookahead \in Int
          <6> HIDE DEF e
          <6> QED
            BY <5>1 DEF Entry
        <5> HIDE DEF e
        <5> QED
          BY <2>3, <3>1, <5>2 DEF Used
      <4> HIDE DEF u, e, o
      <4> QED
        BY <1>6, <2>1, <3>1, <3>2, <4>2, <4>3
    <3>3. CASE k - o \notin DOMAIN actions
      <4> HIDE DEF u, e, o
      <4> QED
        BY <1>6, <2>1, <3>1, <3>3
    <3> QED
      BY <3>2, <3>3
  <2> QED
    BY <2>2, <2>3
<1>13. ASSUME NEW k \in Slots(u), Used(u, k), k - o \notin DOMAIN actions
       PROVE  k \in Slots(t) /\ u.aAction[k] = t.aAction[k] /\ e.aAction[k] = t.aAction[k]
  <2>1. k \in 0..e.nActionAlloc - 1
    <3> HIDE DEF u, e, n
    <3> QED
      BY <1>5, <1>7, <1>8 DEF Slots
  <2>2. u.aAction[k] = e.aAction[k]
    <3> HIDE DEF u, e, o
    <3> QED
      BY <1>6, <1>13, <2>1
  <2>3. k \in Slots(t)
    <3>1. CASE k \in e.nAction..e.nActionAlloc - 1
      <4>1. e.aAction[k] = Free
        <5> HIDE DEF e
        <5> QED
          BY <1>1, <3>1 DEF Formed
      <4> HIDE DEF u, e
      <4> QED
        BY <1>13, <2>2, <4>1 DEF Used, Free
    <3>2. CASE ~(k \in e.nAction..e.nActionAlloc - 1)
      <4> HIDE DEF e
      <4> QED
        BY <1>1, <1>5, <2>1, <3>2 DEF Slots
    <3> QED
      BY <3>1, <3>2
  <2> QED
    BY <1>1, <2>2, <2>3
<1> QED
  BY <1>10, <1>11, <1>12, <1>13

(* Where the offset of the set comes from, as far as it was looked at who  *)
(* claims what: from a duplicate or from holes.                            *)
LEMMA LookedAt ==
    ASSUME NEW t, Formed(t), NEW actions \in ActionSets, ~RunsOff(t, actions)
    PROVE  LET e == Extended(t, actions)
               o == Offset(t, actions)
           IN  \/ /\ \A l \in DOMAIN actions :
                        /\ o + l \in Slots(t)
                        /\ t.aAction[o + l] = [lookahead |-> l, action |-> actions[l]]
                  /\ Unclaimed(t, actions, o)
               \/ \A j \in Slots(t) : t.aAction[j].lookahead # j - o
<1> DEFINE e == Extended(t, actions)
           i == Position(t, actions)
           o == Offset(t, actions)
           mn == mnLookahead(actions)
<1>1. i \in Int /\ mn \in Int /\ o = i - mn
  BY EntriesFit, Bounds DEF Offset
<1>2. \A l \in DOMAIN actions : Slot(actions, i, l) = o + l
  BY EntriesFit
<1>3. \A j \in Slots(t) : j \in Int /\ j + mn - i = j - o
  <2> HIDE DEF i, o, mn
  <2> QED
    BY <1>1 DEF Slots
<1>4. CASE i \in Duplicates(t, actions)
  <2>1. \A l \in DOMAIN actions :
            /\ o + l \in Slots(t)
            /\ t.aAction[o + l] = [lookahead |-> l, action |-> actions[l]]
    BY <1>2, <1>4 DEF Duplicates
  <2>2. \A j \in Slots(t) :
            t.aAction[j].lookahead = j + mn - i /\ t.aAction[j].lookahead >= 0
                => t.aAction[j].lookahead \in DOMAIN actions
    BY <1>4 DEF Duplicates, Claims
  <2>3. Unclaimed(t, actions, o)
    <3> HIDE DEF i, o, mn
    <3> QED
      BY <1>3, <2>2 DEF Unclaimed, Used
  <2> QED
    BY <2>1, <2>3
<1>5. CASE i \in Holes(e, actions)
  <2>1. /\ \A k \in Slots(t) : e.aAction[k] = t.aAction[k]
        /\ Slots(e) = Slots(t)
    BY ExtendedRoom DEF Slots
  <2>2. \A j \in Slots(e) : e.aAction[j].lookahead # j + mn - i
    BY <1>5 DEF Holes, Claims
  <2>3. \A j \in Slots(t) : t.aAction[j].lookahead # j - o
    <3> HIDE DEF i, o, mn, e
    <3> QED
      BY <1>3, <2>1, <2>2
  <2> QED
    BY <2>3
<1> QED
  BY <1>4, <1>5, PositionCases

(* The set that was inserted finds nothing else. *)
LEMMA InsertedUnclaimed ==
    ASSUME NEW t, Formed(t), NEW actions \in ActionSets, ~RunsOff(t, actions)
    PROVE  Unclaimed(Inserted(t, actions), actions, Offset(t, actions))
<1> DEFINE u == Inserted(t, actions)
           o == Offset(t, actions)
<1>1. SUFFICES ASSUME NEW j \in Slots(u), Used(u, j), u.aAction[j].lookahead = j - o,
                      u.aAction[j].lookahead \notin DOMAIN actions
               PROVE  FALSE
  BY DEF Unclaimed
<1>2. j \in Slots(t) /\ u.aAction[j] = t.aAction[j]
  BY <1>1, InsertedKeeps
<1>3. CASE Unclaimed(t, actions, o)
  <2> HIDE DEF u, o
  <2> QED
    BY <1>1, <1>2, <1>3 DEF Unclaimed, Used
<1>4. CASE \A k \in Slots(t) : t.aAction[k].lookahead # k - o
  <2> HIDE DEF u, o
  <2> QED
    BY <1>1, <1>2, <1>4
<1> QED
  BY <1>3, <1>4, LookedAt

(* Nor does a set that was there before find what was inserted. *)
LEMMA OthersUnclaimed ==
    ASSUME NEW t, Formed(t), NEW actions \in ActionSets, ~RunsOff(t, actions),
           NEW other \in ActionSets, NEW p \in Int,
           Keeps(t, other, p), Unclaimed(t, other, p)
    PROVE  Unclaimed(Inserted(t, actions), other, p)
<1> DEFINE u == Inserted(t, actions)
           o == Offset(t, actions)
<1>1. SUFFICES ASSUME NEW j \in Slots(u), Used(u, j), u.aAction[j].lookahead = j - p
               PROVE  u.aAction[j].lookahead \in DOMAIN other
  BY DEF Unclaimed
<1>2. o \in Int /\ j \in Int
  <2>1. o \in Int
    BY EntriesFit
  <2>2. Formed(u)
    BY InsertedKeeps
  <2> HIDE DEF u, o
  <2> QED
    BY <1>1, <2>1, <2>2 DEF Slots
<1>3. CASE j - o \notin DOMAIN actions
  <2>1. j \in Slots(t) /\ u.aAction[j] = t.aAction[j]
    BY <1>1, <1>3, InsertedKeeps
  <2> HIDE DEF u
  <2> QED
    BY <1>1, <2>1 DEF Unclaimed, Used
<1>4. CASE j - o \in DOMAIN actions
  <2>1. u.aAction[j].lookahead = j - o
    <3>1. Keeps(u, actions, o)
      BY InsertedKeeps
    <3>2. o + (j - o) = j
      <4> HIDE DEF o
      <4> QED
        BY <1>2
    <3>3. u.aAction[j] = [lookahead |-> j - o, action |-> actions[j - o]]
      <4> HIDE DEF u, o
      <4> QED
        BY <1>4, <3>1, <3>2 DEF Keeps
    <3> HIDE DEF u, o
    <3> QED
      BY <3>3
  <2>2. o = p
    <3> HIDE DEF u, o
    <3> QED
      BY <1>1, <1>2, <2>1
  <2>3. CASE /\ \A l \in DOMAIN actions :
                   /\ o + l \in Slots(t)
                   /\ t.aAction[o + l] = [lookahead |-> l, action |-> actions[l]]
    <3>1. o + (j - o) = j
      <4> HIDE DEF o
      <4> QED
        BY <1>2
    <3>2. j \in Slots(t) /\ t.aAction[j] = [lookahead |-> j - o, action |-> actions[j - o]]
      <4> HIDE DEF o
      <4> QED
        BY <1>4, <2>3, <3>1
    <3>3. t.aAction[j].lookahead = j - o
      <4> HIDE DEF o
      <4> QED
        BY <3>2
    <3>4. j - o \in Nat
      BY <1>4, Bounds
    <3> HIDE DEF u, o
    <3> QED
      BY <2>1, <2>2, <3>2, <3>3, <3>4 DEF Unclaimed, Used
  <2>4. CASE \A k \in Slots(t) : t.aAction[k].lookahead # k - o
    <3> DEFINE l == mnLookahead(other)
    <3>1. l \in DOMAIN other /\ l \in Nat
      BY Bounds
    <3>2. p + l \in Slots(t) /\ t.aAction[p + l] = [lookahead |-> l, action |-> other[l]]
      <4> HIDE DEF l
      <4> QED
        BY <3>1 DEF Keeps
    <3>3. t.aAction[p + l].lookahead = (p + l) - o
      <4> HIDE DEF l, o
      <4>1. t.aAction[p + l].lookahead = l
        BY <3>2
      <4>2. (p + l) - o = l
        BY <2>2, <3>1
      <4> QED
        BY <4>1, <4>2
    <3> HIDE DEF l, o
    <3> QED
      BY <2>4, <3>2, <3>3
  <2> QED
    BY <2>3, <2>4, LookedAt
<1> QED
  BY <1>3, <1>4

(* What was kept stays kept. *)
LEMMA OthersKept ==
    ASSUME NEW t, Formed(t), NEW actions \in ActionSets,
           NEW other \in ActionSets, NEW p \in Int, Keeps(t, other, p)
    PROVE  Keeps(Inserted(t, actions), other, p)
<1> DEFINE u == Inserted(t, actions)
<1>1. SUFFICES ASSUME NEW l \in DOMAIN other
               PROVE  /\ p + l \in Slots(u)
                      /\ u.aAction[p + l] = [lookahead |-> l, action |-> other[l]]
  BY DEF Keeps
<1>2. p + l \in Slots(t) /\ t.aAction[p + l] = [lookahead |-> l, action |-> other[l]]
  BY DEF Keeps
<1>3. Used(t, p + l)
  <2>1. l \in Nat
    BY Bounds
  <2> QED
    BY <1>2, <2>1 DEF Used
<1> QED
  BY <1>2, <1>3, InsertedKeeps

-----------------------------------------------------------------------------
LEMMA InitPacked == PackingInit => PackingInv
<1>1. SUFFICES ASSUME PackingInit PROVE PackingInv
  OBVIOUS
<1>2. /\ table = [nAction |-> 0, nActionAlloc |-> 0, aAction |-> [k \in {} |-> Free]]
      /\ packed = {} /\ ranOff = FALSE
  BY <1>1 DEF PackingInit, NewTable
<1>3. Formed(table)
  <2>1. 0..0 - 1 = {}
    OBVIOUS
  <2>2. table.aAction \in [0..0 - 1 -> Entry] /\ table.nAction = 0 /\ table.nActionAlloc = 0
    BY <1>2, <2>1
  <2> QED
    BY <1>2, <2>1, <2>2 DEF Formed
<1> QED
  BY <1>2, <1>3 DEF PackingInv, PackedType

LEMMA PackKeepsInv ==
    ASSUME PackingInv, NEW actions \in ActionSets, Pack(actions)
    PROVE  PackingInv'
<1> DEFINE new == [actions |-> actions, offset |-> Offset(table, actions)]
<1>1. /\ table' = Inserted(table, actions)
      /\ packed' = packed \cup {new}
      /\ ranOff' = (ranOff \/ RunsOff(table, actions))
  BY DEF Pack
<1>2. Formed(table)
  BY DEF PackingInv
<1>3. Formed(table')
  BY <1>1, <1>2, InsertedKeeps
<1>4. ranOff' \in BOOLEAN
  <2>1. ranOff \in BOOLEAN
    BY DEF PackingInv
  <2> QED
    BY <1>1, <2>1
<1>5. new.actions = actions /\ new.offset = Offset(table, actions) /\ new.offset \in Int
  BY <1>2, EntriesFit
<1>6. \A set \in packed : set.actions \in ActionSets /\ set.offset \in Int
  BY DEF PackingInv, PackedType
<1>7. PackedType'
  <2> HIDE DEF new
  <2> QED
    BY <1>1, <1>5, <1>6 DEF PackedType
<1>8. ASSUME NEW set \in packed' PROVE Keeps(table', set.actions, set.offset)
  <2>1. CASE set \in packed
    <3>1. Keeps(table, set.actions, set.offset)
      BY <2>1 DEF PackingInv
    <3> QED
      BY <1>1, <1>2, <1>6, <2>1, <3>1, OthersKept
  <2>2. CASE set = new
    BY <1>1, <1>2, <1>5, <2>2, InsertedKeeps
  <2> QED
    BY <1>1, <2>1, <2>2
<1>9. ASSUME ~ranOff', NEW set \in packed' PROVE Unclaimed(table', set.actions, set.offset)
  <2>1. ~ranOff /\ ~RunsOff(table, actions)
    BY <1>1, <1>9
  <2>2. CASE set \in packed
    <3>1. Keeps(table, set.actions, set.offset) /\ Unclaimed(table, set.actions, set.offset)
      BY <2>1, <2>2 DEF PackingInv
    <3> QED
      BY <1>1, <1>2, <1>6, <2>1, <2>2, <3>1, OthersUnclaimed
  <2>3. CASE set = new
    BY <1>1, <1>2, <1>5, <2>1, <2>3, InsertedUnclaimed
  <2> QED
    BY <1>1, <2>2, <2>3
<1> QED
  BY <1>3, <1>4, <1>7, <1>8, <1>9 DEF PackingInv

LEMMA PackingInvKept == PackingInv /\ [PackingNext]_tableVars => PackingInv'
<1>1. SUFFICES ASSUME PackingInv, [PackingNext]_tableVars PROVE PackingInv'
  OBVIOUS
<1>2. CASE PackingNext
  BY <1>1, <1>2, PackKeepsInv DEF PackingNext
<1>3. CASE UNCHANGED tableVars
  BY <1>1, <1>3 DEF tableVars, PackingInv, PackedType, Formed, Keeps, Unclaimed, Used, Slots
<1> QED
  BY <1>1, <1>2, <1>3

LEMMA PackingInvariance == PackingSpec => []PackingInv
BY InitPacked, PackingInvKept, PTL DEF PackingSpec

LEMMA InvFinds == PackingInv => LookupsFindActions
<1>1. SUFFICES ASSUME PackingInv, NEW set \in packed
               PROVE  /\ \A l \in DOMAIN set.actions :
                            Lookup(table, set.offset, l) = set.actions[l]
                      /\ ~ranOff => \A l \in Lookaheads \ DOMAIN set.actions :
                            Lookup(table, set.offset, l) = NoAction
  BY DEF LookupsFindActions
<1>2. set.actions \in ActionSets /\ set.offset \in Int
  BY <1>1 DEF PackingInv, PackedType
<1>3. Keeps(table, set.actions, set.offset)
  BY <1>1 DEF PackingInv
<1>4. ASSUME NEW l \in DOMAIN set.actions
      PROVE  Lookup(table, set.offset, l) = set.actions[l]
  <2>1. /\ set.offset + l \in Slots(table)
        /\ table.aAction[set.offset + l] = [lookahead |-> l, action |-> set.actions[l]]
    BY <1>3 DEF Keeps
  <2> QED
    BY <2>1 DEF Lookup
<1>5. ASSUME ~ranOff, NEW l \in Lookaheads \ DOMAIN set.actions,
             Lookup(table, set.offset, l) # NoAction
      PROVE  FALSE
  <2>1. /\ set.offset + l \in Slots(table)
        /\ table.aAction[set.offset + l].lookahead = l
    BY <1>5 DEF Lookup
  <2>2. l \in Nat
    BY LookaheadsAssumption
  <2>3. l = (set.offset + l) - set.offset
    BY <1>2, <2>2
  <2>4. Unclaimed(table, set.actions, set.offset)
    BY <1>1, <1>5 DEF PackingInv
  <2>5. Used(table, set.offset + l)
    BY <2>1, <2>2 DEF Used
  <2> QED
    BY <1>5, <2>1, <2>3, <2>4, <2>5 DEF Unclaimed
<1> QED
  BY <1>4, <1>5

-----------------------------------------------------------------------------
(* Whatever sets of actions are packed and in whatever order, each finds   *)
(* its own, and nothing else unless an insertion has run off the holes     *)
(* (lemon.c:552-618).                                                      *)
THEOREM TablesFaithful == PackingSpec => []LookupsFindActions
BY PackingInvariance, InvFinds, PTL

(* No insertion writes behind the array (lemon.c:537-550, 610-614).        *)
THEOREM NoWriteBehindTable == PackingSpec => []WritesInBounds
<1>1. PackingInv => WritesInBounds
  BY DEF PackingInv, Formed, WritesInBounds
<1> QED
  BY <1>1, PackingInvariance, PTL
-----------------------------------------------------------------------------
(* The table of symbols, for any names, hashes and sizes: while the reader *)
(* of a grammar fills it, every list of it is what the hash says of all    *)
(* symbols, and no symbol is in it twice.                                  *)

Keys == DOMAIN strhash

Hashed(tbl, size) == [h \in 0..size - 1 |-> {n \in DOMAIN tbl : Bucket(size, tbl[n]) = h}]

TableInv(t) ==
    /\ t = [size |-> t.size, tbl |-> t.tbl, ht |-> t.ht]
    /\ t.size \in Nat \ {0}
    /\ t.tbl \in Seq(Keys)
    /\ t.ht = Hashed(t.tbl, t.size)
    /\ \A m, n \in DOMAIN t.tbl : t.tbl[m] = t.tbl[n] => m = n

(* A name hashes to a list of the table. *)
LEMMA BucketInRange ==
    ASSUME NEW size \in Nat \ {0}, NEW key \in Keys
    PROVE  Bucket(size, key) \in 0..size - 1
  BY TableAssumption DEF Bucket, Keys

(* What is looked up is found wherever it is. *)
LEMMA FindsAll ==
    ASSUME NEW t, TableInv(t), NEW key \in Keys
    PROVE  Symbol_find(t, key) = {n \in DOMAIN t.tbl : t.tbl[n] = key}
  <1>1. Bucket(t.size, key) \in 0..t.size - 1
    BY BucketInRange DEF TableInv
  <1>2. t.ht[Bucket(t.size, key)] = {n \in DOMAIN t.tbl : Bucket(t.size, t.tbl[n]) = Bucket(t.size, key)}
    BY <1>1 DEF TableInv, Hashed
  <1> QED
    BY <1>2 DEF Symbol_find

(* A table that is to hold one more may be of any size before. *)
LEMMA GrowthKeeps ==
    ASSUME NEW t, TableInv(t)
    PROVE  TableInv(Grown(t)) /\ Grown(t).tbl = t.tbl
  BY DEF TableInv, Grown, Hashed

LEMMA PutKeeps ==
    ASSUME NEW t, TableInv(t), NEW key \in Keys, \A n \in DOMAIN t.tbl : t.tbl[n] # key
    PROVE  TableInv(Put(t, Bucket(t.size, key), key))
  <1> DEFINE h == Bucket(t.size, key)
             u == Put(t, h, key)
             len == Len(t.tbl)
  <1>1. h \in 0..t.size - 1
    BY BucketInRange DEF TableInv
  <1>2. /\ u = [size |-> t.size, tbl |-> Append(t.tbl, key),
                ht |-> [t.ht EXCEPT ![h] = @ \cup {len + 1}]]
        /\ len \in Nat /\ DOMAIN t.tbl = 1..len /\ t.tbl \in Seq(Keys)
    <2>1. u = [size |-> t.size, tbl |-> Append(t.tbl, key), ht |-> [t.ht EXCEPT ![h] = @ \cup {len + 1}]]
      BY DEF Put
    <2>2. len \in Nat /\ DOMAIN t.tbl = 1..len /\ t.tbl \in Seq(Keys)
      BY DEF TableInv
    <2> QED
      BY <2>1, <2>2
  <1>3. /\ u.tbl \in Seq(Keys) /\ DOMAIN u.tbl = 1..len + 1
        /\ u.tbl[len + 1] = key /\ \A n \in 1..len : u.tbl[n] = t.tbl[n]
    <2>1. u.tbl = Append(t.tbl, key)
      BY <1>2
    <2> HIDE DEF u, len
    <2>2. len = Len(t.tbl)
      BY DEF len
    <2> QED
      BY <1>2, <2>1, <2>2
  <1>4. \A m, n \in DOMAIN u.tbl : u.tbl[m] = u.tbl[n] => m = n
    BY <1>2, <1>3 DEF TableInv
  <1>5. u.ht = Hashed(u.tbl, t.size)
    <2>1. /\ DOMAIN u.ht = 0..t.size - 1
          /\ \A k \in 0..t.size - 1 : u.ht[k] = IF k = h THEN t.ht[k] \cup {len + 1} ELSE t.ht[k]
          /\ u.ht = [k \in 0..t.size - 1 |-> u.ht[k]]
      <3>1. u.ht = [t.ht EXCEPT ![h] = @ \cup {len + 1}]
        BY <1>2
      <3>2. DOMAIN t.ht = 0..t.size - 1
        BY DEF TableInv, Hashed
      <3> HIDE DEF u, h, len
      <3> QED
        BY <1>1, <3>1, <3>2
    <2>2. ASSUME NEW k \in 0..t.size - 1
          PROVE  u.ht[k] = {n \in DOMAIN u.tbl : Bucket(t.size, u.tbl[n]) = k}
      <3>1. t.ht[k] = {n \in 1..len : Bucket(t.size, t.tbl[n]) = k}
        BY <1>2 DEF TableInv, Hashed
      <3>2. \A n \in 1..len : Bucket(t.size, u.tbl[n]) = Bucket(t.size, t.tbl[n])
        BY <1>3
      <3>3. Bucket(t.size, u.tbl[len + 1]) = h
        BY <1>3
      <3>4. DOMAIN u.tbl = 1..len \cup {len + 1}
        BY <1>2, <1>3
      <3> QED
        BY <2>1, <3>1, <3>2, <3>3, <3>4, Zenon
    <2> QED
      BY <2>1, <2>2 DEF Hashed
  <1> QED
    BY <1>2, <1>3, <1>4, <1>5 DEF TableInv

LEMMA NewKeeps ==
    ASSUME NEW t, TableInv(t), NEW key \in Keys
    PROVE  TableInv(Symbol_new(t, key))
  <1>1. CASE Symbol_find(t, key) # {}
    BY <1>1 DEF Symbol_new
  <1>2. CASE Symbol_find(t, key) = {}
    <2>1. \A n \in DOMAIN t.tbl : t.tbl[n] # key
      BY <1>2, FindsAll
    <2> DEFINE room == IF Len(t.tbl) >= t.size THEN Grown(t) ELSE t
    <2>2. TableInv(room) /\ room.tbl = t.tbl
      BY GrowthKeeps
    <2>3. TableInv(Put(room, Bucket(room.size, key), key))
      <3> HIDE DEF room
      <3> QED
        BY <2>1, <2>2, PutKeeps
    <2> QED
      BY <1>2, <2>3 DEF Symbol_new, Symbol_insert
  <1> QED
    BY <1>1, <1>2

ReaderInv ==
    /\ gp = [rule |-> gp.rule, symbols |-> gp.symbols, prec |-> gp.prec, text |-> gp.text]
    /\ TableInv(gp.symbols)

LEMMA ReaderInduction == ReaderInv /\ [parseonetoken]_readerVars => ReaderInv'
  <1> SUFFICES ASSUME ReaderInv, [parseonetoken]_readerVars
               PROVE  ReaderInv'
    OBVIOUS
  <1>1. CASE \/ UNCHANGED gp
             \/ gp' = [gp EXCEPT !.symbols = Symbol_new(@, x)] /\ x \in Names
    <2>1. x \in Names => x \in Keys
      BY NamesAssumption DEF Names, Keys
    <2> QED
      BY <1>1, <2>1, NewKeeps DEF ReaderInv
  <1>2. CASE UNCHANGED readerVars
    BY <1>2, <1>1 DEF readerVars
  <1>3. CASE WaitingForDeclOrRule
    <2>1. CASE \E r, c : gp' = [gp EXCEPT !.rule = [@ EXCEPT ![r].code = c]]
      BY <2>1 DEF ReaderInv
    <2>2. \/ UNCHANGED gp
          \/ gp' = [gp EXCEPT !.symbols = Symbol_new(@, x)] /\ x \in Lower
          \/ gp' = [gp EXCEPT !.rule[Len(gp.rule)].code = cp + 1]
      BY <1>3 DEF WaitingForDeclOrRule
    <2>3. x \in Lower => x \in Names
      BY DEF Names
    <2> QED
      BY <1>1, <2>1, <2>2, <2>3
  <1>4. CASE PrecedenceMark1
    <2>1. x \in Upper => x \in Keys
      BY NamesAssumption DEF Keys
    <2> QED
      <3>1. \/ UNCHANGED gp
            \/ /\ x \in Upper
               /\ gp' = [gp EXCEPT !.rule[Len(gp.rule)].precsym = x, !.symbols = Symbol_new(@, x)]
        BY <1>4 DEF PrecedenceMark1
      <3>2. ASSUME NEW rule, x \in Upper,
                   gp' = [rule |-> rule, symbols |-> Symbol_new(gp.symbols, x),
                          prec |-> gp.prec, text |-> gp.text]
            PROVE  ReaderInv'
        BY <2>1, <3>2, NewKeeps DEF ReaderInv
      <3>3. CASE /\ x \in Upper
                 /\ gp' = [gp EXCEPT !.rule[Len(gp.rule)].precsym = x, !.symbols = Symbol_new(@, x)]
        BY <3>2, <3>3 DEF ReaderInv
      <3> QED
        BY <1>1, <3>1, <3>3
  <1>5. CASE \/ PrecedenceMark2 \/ WaitingForArrow \/ LhsAlias1 \/ LhsAlias2 \/ LhsAlias3
             \/ RhsAlias1 \/ RhsAlias2 \/ WaitingForDeclKeyword \/ Resync
    BY <1>5, <1>1 DEF PrecedenceMark2, WaitingForArrow, LhsAlias1, LhsAlias2, LhsAlias3,
                      RhsAlias1, RhsAlias2, WaitingForDeclKeyword, Resync, Expect
  <1>6. CASE InRhs
    <2>1. \/ UNCHANGED gp
          \/ gp' = [gp EXCEPT !.symbols = Symbol_new(@, x)] /\ x \in Names
          \/ \E rule : gp' = [gp EXCEPT !.rule = rule]
      BY <1>6 DEF InRhs
    <2>2. CASE \E rule : gp' = [gp EXCEPT !.rule = rule]
      BY <2>2 DEF ReaderInv
    <2> QED
      BY <1>1, <2>1, <2>2
  <1>7. CASE WaitingForDestructorSymbol \/ WaitingForDatatypeSymbol
    BY <1>7, <1>1 DEF WaitingForDestructorSymbol, WaitingForDatatypeSymbol
  <1>8. CASE WaitingForPrecedenceSymbol
    <2>1. x \in Upper => x \in Keys
      BY NamesAssumption DEF Keys
    <2> QED
      <3> DEFINE prec == [n \in DOMAIN gp.prec \cup {x} |->
                             IF n = x THEN [prec |-> psp.preccounter, assoc |-> psp.declassoc]
                             ELSE gp.prec[n]]
      <3>1. \/ UNCHANGED gp
            \/ x \in Upper /\ gp' = [gp EXCEPT !.symbols = Symbol_new(@, x), !.prec = prec]
        BY <1>8 DEF WaitingForPrecedenceSymbol
      <3> HIDE DEF prec
      <3>2. CASE x \in Upper /\ gp' = [gp EXCEPT !.symbols = Symbol_new(@, x), !.prec = prec]
        BY <2>1, <3>2, NewKeeps DEF ReaderInv
      <3> QED
        BY <1>1, <3>1, <3>2
  <1>9. CASE WaitingForDeclArg
    BY <1>9 DEF WaitingForDeclArg, ReaderInv
  <1> QED
    BY <1>2, <1>3, <1>4, <1>5, <1>6, <1>7, <1>8, <1>9 DEF parseonetoken

(* Every symbol a grammar has been read to use is found in the table, and  *)
(* is one symbol only (lemon.c:4475-4545, 4383-4407).                      *)
THEOREM EverySymbolIsFound == ReadSpec => []SymbolsAreFound
  <1>1. ReadInit => ReaderInv
    <2> SUFFICES ASSUME ReadInit
                 PROVE  ReaderInv
      OBVIOUS
    <2>1. TableInv(Symbol_init)
      BY TableAssumption DEF Symbol_init, TableInv, Hashed
    <2>2. "$" \in Keys /\ "error" \in Keys
      BY NamesAssumption DEF Keys
    <2> QED
      BY <2>1, <2>2, NewKeeps DEF ReadInit, NewRead, ReaderInv
  <1>2. ReaderInv => SymbolsAreFound
    <2> SUFFICES ASSUME ReaderInv, NEW n \in DOMAIN gp.symbols.tbl
                 PROVE  Symbol_find(gp.symbols, gp.symbols.tbl[n]) = {n}
      BY DEF SymbolsAreFound
    <2>1. gp.symbols.tbl[n] \in Keys
      BY DEF ReaderInv, TableInv
    <2>2. Symbol_find(gp.symbols, gp.symbols.tbl[n])
             = {m \in DOMAIN gp.symbols.tbl : gp.symbols.tbl[m] = gp.symbols.tbl[n]}
      BY <2>1, FindsAll DEF ReaderInv
    <2> QED
      BY <2>2 DEF ReaderInv, TableInv
  <1> QED
    BY <1>1, <1>2, ReaderInduction, PTL DEF ReadSpec

-----------------------------------------------------------------------------
(* Plans and their analysis.                                               *)
(*                                                                         *)
(* A walk is a recursive function of the operators.  It is what its        *)
(* equation says because the inputs of an operator were made before it;    *)
(* and what it returns is found out from the inputs up, by the least       *)
(* operator for which it would not be so (Least).                          *)

Kinds == {"adapter", "join"} \cup SingleKinds

(* The inputs of an operator were made before it, and there are as many of *)
(* them as its kind has.                                                   *)
WellMade(operators) ==
    /\ operators \in Seq([kind : Kinds, inputs : Seq(Nat)])
    /\ \A op \in DOMAIN operators :
        /\ operators[op].kind = "adapter" => operators[op].inputs = <<>>
        /\ operators[op].kind \in SingleKinds => Len(operators[op].inputs) = 1
        /\ operators[op].kind = "join" => Len(operators[op].inputs) = 2
        /\ Range(operators[op].inputs) \subseteq 1 .. op - 1

PlanOK == WellMade(plan)

LEMMA Upwards ==
    ASSUME NEW n \in Nat, NEW S,
           \A m \in 1 .. n : (\A k \in 1 .. m - 1 : k \in S) => m \in S
    PROVE  \A m \in 1 .. n : m \in S
<1>1. SUFFICES ASSUME {m \in 1 .. n : m \notin S} # {} PROVE FALSE
  OBVIOUS
<1>2. {m \in 1 .. n : m \notin S} \in SUBSET Nat
  OBVIOUS
<1>3. PICK m \in {m \in 1 .. n : m \notin S} : \A k \in {k \in 1 .. n : k \notin S} : m <= k
  BY <1>1, <1>2, Least
<1>4. \A k \in 1 .. m - 1 : k \in S
  BY <1>3
<1>5. QED
  BY <1>3, <1>4

LEMMA StepByStep ==
    ASSUME NEW n \in Nat, NEW S, 0 \in S, \A m \in 0 .. n - 1 : m \in S => m + 1 \in S
    PROVE  n \in S
<1>1. \A m \in 1 .. n : (\A k \in 1 .. m - 1 : k \in S) => m \in S
  <2>1. ASSUME NEW m \in 1 .. n, \A k \in 1 .. m - 1 : k \in S PROVE m \in S
    <3>1. m - 1 \in 0 .. n - 1 /\ (m - 1) + 1 = m /\ (m - 1 = 0 \/ m - 1 \in 1 .. m - 1)
      OBVIOUS
    <3>2. QED
      BY <2>1, <3>1
  <2>2. QED
    BY <2>1
<1>2. \A m \in 1 .. n : m \in S
  BY <1>1, Upwards
<1>3. QED
  BY <1>2

LEMMA PlanShape ==
    ASSUME PlanOK
    PROVE  /\ Len(plan) \in Nat /\ DOMAIN plan = 1 .. Len(plan)
           /\ \A op \in DOMAIN plan : Inputs(op) \subseteq 1 .. op - 1
BY DEF PlanOK, WellMade, Inputs

LEMMA InputsOfKind ==
    ASSUME PlanOK, NEW op \in DOMAIN plan
    PROVE  \/ plan[op].kind = "adapter" /\ Inputs(op) = {}
           \/ plan[op].kind \in SingleKinds /\ Inputs(op) = {Left(plan[op])}
           \/ plan[op].kind = "join" /\ Inputs(op) = {Left(plan[op]), Right(plan[op])}
<1>1. PICK inputs, kind : inputs = plan[op].inputs /\ kind = plan[op].kind
  OBVIOUS
<1>2. inputs \in Seq(Nat) /\ kind \in Kinds
  <2>1. PICK R : R = [kind : Kinds, inputs : Seq(Nat)]
    OBVIOUS
  <2>2. plan \in Seq(R)
    BY <2>1 DEF PlanOK, WellMade
  <2>3. plan[op] \in R
    BY ONLY <2>2, op \in DOMAIN plan
  <2>4. plan[op] \in [kind : Kinds, inputs : Seq(Nat)]
    BY <2>1, <2>3
  <2>5. QED
    BY <1>1, <2>4
<1>3. DOMAIN inputs = 1 .. Len(inputs) /\ Inputs(op) = {inputs[k] : k \in DOMAIN inputs}
  BY <1>1, <1>2 DEF Inputs, Range
<1>4. CASE kind = "adapter"
  <2>1. inputs = <<>>
    BY <1>1, <1>4 DEF PlanOK, WellMade
  <2>2. DOMAIN inputs = {}
    BY <2>1
  <2>3. QED
    BY <1>1, <1>3, <1>4, <2>2
<1>5. CASE kind \in SingleKinds
  <2>1. Len(inputs) = 1
    BY <1>1, <1>5 DEF PlanOK, WellMade
  <2>2. DOMAIN inputs = {1}
    BY <1>3, <2>1
  <2>3. QED
    BY <1>1, <1>3, <1>5, <2>2 DEF Left
<1>6. CASE kind = "join"
  <2>1. Len(inputs) = 2
    BY <1>1, <1>6 DEF PlanOK, WellMade
  <2>2. DOMAIN inputs = {1, 2}
    BY <1>3, <2>1
  <2>3. QED
    BY <1>1, <1>3, <1>6, <2>2 DEF Left, Right
<1>7. QED
  BY <1>2, <1>4, <1>5, <1>6 DEF Kinds

(* What the walks make of an operator, from what they made of its inputs. *)
UpstreamOf(up, op) == Inputs(op) \cup UNION {up[i] : i \in Inputs(op)}

VisitOf(visit, op) ==
  CASE plan[op].kind = "adapter" -> <<op>>
              [] plan[op].kind \in SingleKinds -> Append(visit[Left(plan[op])], op)
              [] plan[op].kind = "join" -> JoinTurns(visit[Left(plan[op])], visit[Right(plan[op])], op)

FindOf(find, op) ==
            LET kind == plan[op].kind
                left == find[Left(plan[op])]
                right == find[Right(plan[op])]
            IN  CASE kind = "adapter" -> [reference |-> FALSE, commit |-> NoOperator]
                  [] kind \in SingleKinds ->
                        [reference |-> left.reference \/ kind = "combine",
                         commit |-> IF IsCandidate(kind, left.reference) THEN op ELSE left.commit]
                  [] kind = "join" ->
                        [reference |-> left.reference \/ right.reference,
                         commit |-> IF IsCandidate(kind, left.reference \/ right.reference) THEN op
                                   ELSE IF right.commit # NoOperator THEN right.commit
                                   ELSE left.commit]

SetupOf(setup, op, downstreamHasWindow) ==
            LET kind == plan[op].kind
                windowed == downstreamHasWindow \/ kind \in WindowKinds
                left == setup[Left(plan[op])][windowed]
                right == setup[Right(plan[op])][windowed]
                isLeaf == kind = "combine" /\ ~left.reference /\ downstreamHasWindow
                OfSelf(reference) ==
                    IF InRedoArea(kind, reference, downstreamHasWindow) THEN <<op>> ELSE <<>>
            IN  CASE kind = "adapter" ->
                        [reference |-> FALSE, streams |-> <<>>, operators |-> <<>>, leaves |-> {}]
                  [] kind \in SingleKinds ->
                        [reference |-> left.reference \/ isLeaf,
                         streams |-> left.streams \o (IF isLeaf THEN <<Left(plan[op])>> ELSE <<>>),
                         operators |-> left.operators \o OfSelf(left.reference \/ isLeaf),
                         leaves |-> left.leaves \cup (IF isLeaf THEN {op} ELSE {})]
                  [] kind = "join" ->
                        [reference |-> left.reference \/ right.reference,
                         streams |-> left.streams \o right.streams \o InputAside(plan[op], left, right),
                         operators |-> left.operators \o right.operators
                                       \o OfSelf(left.reference \/ right.reference),
                         leaves |-> left.leaves \cup right.leaves]


LEMMA UpstreamEquation ==
    ASSUME PlanOK
    PROVE  Upstream = [op \in DOMAIN plan |-> UpstreamOf(Upstream, op)]
<1> DEFINE n == Len(plan)
           S == {m \in 0 .. n : \E f : f = [op \in 1 .. m |-> UpstreamOf(f, op)]}
<1>1. n \in Nat /\ DOMAIN plan = 1 .. n
  BY PlanShape
<1>2. 0 \in S
  <2>1. 1 .. 0 = {}
    OBVIOUS
  <2>2. \A f : [op \in 1 .. 0 |-> UpstreamOf(f, op)] = [op \in 1 .. 0 |-> op]
    BY <2>1
  <2>3. \E f : f = [op \in 1 .. 0 |-> UpstreamOf(f, op)]
    BY <2>2
  <2>4. 0 \in 0 .. n
    BY <1>1
  <2>5. QED
    BY ONLY <2>3, <2>4, Zenon
<1>3. ASSUME NEW m \in 0 .. n - 1, m \in S PROVE m + 1 \in S
  <2>1. PICK f : f = [op \in 1 .. m |-> UpstreamOf(f, op)]
    BY <1>3
  <2>2. PICK g : g = [op \in 1 .. m + 1 |-> UpstreamOf(f, op)]
    OBVIOUS
  <2>3. ASSUME NEW op \in 1 .. m + 1 PROVE UpstreamOf(f, op) = UpstreamOf(g, op)
    <3>1. op \in DOMAIN plan /\ Inputs(op) \subseteq 1 .. m
      BY <1>1, <1>3, PlanShape
    <3>2. \A i \in Inputs(op) : f[i] = g[i]
      <4>1. ASSUME NEW i \in Inputs(op) PROVE f[i] = g[i]
        <5>1. i \in 1 .. m /\ i \in 1 .. m + 1
          BY <1>1, <1>3, <3>1
        <5>2. QED
          BY <2>1, <2>2, <5>1
      <4>2. QED
        BY <4>1
    <3>3. QED
      BY <3>1, <3>2, InputsOfKind DEF UpstreamOf, SingleKinds
  <2>4. g = [op \in 1 .. m + 1 |-> UpstreamOf(g, op)]
    BY <2>2, <2>3
  <2>5. m + 1 \in 0 .. n
    BY <1>1
  <2>6. QED
    BY <2>4, <2>5
<1>4. n \in S
  <2> HIDE DEF S, n
  <2>1. QED
    BY <1>1, <1>2, <1>3, StepByStep
<1>5. PICK f : f = [op \in DOMAIN plan |-> UpstreamOf(f, op)]
  BY <1>1, <1>4
<1>6. QED
  BY <1>5 DEF Upstream, UpstreamOf

LEMMA SerializedEquation ==
    ASSUME PlanOK
    PROVE  Serialized(plan) = [op \in DOMAIN plan |-> VisitOf(Serialized(plan), op)]
<1> DEFINE n == Len(plan)
           S == {m \in 0 .. n : \E f : f = [op \in 1 .. m |-> VisitOf(f, op)]}
<1>1. n \in Nat /\ DOMAIN plan = 1 .. n
  BY PlanShape
<1>2. 0 \in S
  <2>1. 1 .. 0 = {}
    OBVIOUS
  <2>2. \A f : [op \in 1 .. 0 |-> VisitOf(f, op)] = [op \in 1 .. 0 |-> op]
    BY <2>1
  <2>3. \E f : f = [op \in 1 .. 0 |-> VisitOf(f, op)]
    BY <2>2
  <2>4. 0 \in 0 .. n
    BY <1>1
  <2>5. QED
    BY ONLY <2>3, <2>4, Zenon
<1>3. ASSUME NEW m \in 0 .. n - 1, m \in S PROVE m + 1 \in S
  <2>1. PICK f : f = [op \in 1 .. m |-> VisitOf(f, op)]
    BY <1>3
  <2>2. PICK g : g = [op \in 1 .. m + 1 |-> VisitOf(f, op)]
    OBVIOUS
  <2>3. ASSUME NEW op \in 1 .. m + 1 PROVE VisitOf(f, op) = VisitOf(g, op)
    <3>1. op \in DOMAIN plan /\ Inputs(op) \subseteq 1 .. m
      BY <1>1, <1>3, PlanShape
    <3>2. \A i \in Inputs(op) : f[i] = g[i]
      <4>1. ASSUME NEW i \in Inputs(op) PROVE f[i] = g[i]
        <5>1. i \in 1 .. m /\ i \in 1 .. m + 1
          BY <1>1, <1>3, <3>1
        <5>2. QED
          BY <2>1, <2>2, <5>1
      <4>2. QED
        BY <4>1
    <3>3. QED
      BY <3>1, <3>2, InputsOfKind DEF VisitOf, JoinTurns, SingleKinds
  <2>4. g = [op \in 1 .. m + 1 |-> VisitOf(g, op)]
    BY <2>2, <2>3
  <2>5. m + 1 \in 0 .. n
    BY <1>1
  <2>6. QED
    BY <2>4, <2>5
<1>4. n \in S
  <2> HIDE DEF S, n
  <2>1. QED
    BY <1>1, <1>2, <1>3, StepByStep
<1>5. PICK f : f = [op \in DOMAIN plan |-> VisitOf(f, op)]
  BY <1>1, <1>4
<1>6. QED
  BY <1>5 DEF Serialized, VisitOf

LEMMA CommitSearchEquation ==
    ASSUME PlanOK
    PROVE  CommitSearch(plan) = [op \in DOMAIN plan |-> FindOf(CommitSearch(plan), op)]
<1> DEFINE n == Len(plan)
           S == {m \in 0 .. n : \E f : f = [op \in 1 .. m |-> FindOf(f, op)]}
<1>1. n \in Nat /\ DOMAIN plan = 1 .. n
  BY PlanShape
<1>2. 0 \in S
  <2>1. 1 .. 0 = {}
    OBVIOUS
  <2>2. \A f : [op \in 1 .. 0 |-> FindOf(f, op)] = [op \in 1 .. 0 |-> op]
    BY <2>1
  <2>3. \E f : f = [op \in 1 .. 0 |-> FindOf(f, op)]
    BY <2>2
  <2>4. 0 \in 0 .. n
    BY <1>1
  <2>5. QED
    BY ONLY <2>3, <2>4, Zenon
<1>3. ASSUME NEW m \in 0 .. n - 1, m \in S PROVE m + 1 \in S
  <2>1. PICK f : f = [op \in 1 .. m |-> FindOf(f, op)]
    BY <1>3
  <2>2. PICK g : g = [op \in 1 .. m + 1 |-> FindOf(f, op)]
    OBVIOUS
  <2>3. ASSUME NEW op \in 1 .. m + 1 PROVE FindOf(f, op) = FindOf(g, op)
    <3>1. op \in DOMAIN plan /\ Inputs(op) \subseteq 1 .. m
      BY <1>1, <1>3, PlanShape
    <3>2. \A i \in Inputs(op) : f[i] = g[i]
      <4>1. ASSUME NEW i \in Inputs(op) PROVE f[i] = g[i]
        <5>1. i \in 1 .. m /\ i \in 1 .. m + 1
          BY <1>1, <1>3, <3>1
        <5>2. QED
          BY <2>1, <2>2, <5>1
      <4>2. QED
        BY <4>1
    <3>3. QED
      BY <3>1, <3>2, InputsOfKind DEF FindOf, SingleKinds
  <2>4. g = [op \in 1 .. m + 1 |-> FindOf(g, op)]
    BY <2>2, <2>3
  <2>5. m + 1 \in 0 .. n
    BY <1>1
  <2>6. QED
    BY <2>4, <2>5
<1>4. n \in S
  <2> HIDE DEF S, n
  <2>1. QED
    BY <1>1, <1>2, <1>3, StepByStep
<1>5. PICK f : f = [op \in DOMAIN plan |-> FindOf(f, op)]
  BY <1>1, <1>4
<1>6. QED
  BY <1>5 DEF CommitSearch, FindOf

LEMMA RedoSearchEquation ==
    ASSUME PlanOK
    PROVE  RedoSearch(plan) =
               [op \in DOMAIN plan |-> [b \in BOOLEAN |-> SetupOf(RedoSearch(plan), op, b)]]
<1> DEFINE n == Len(plan)
           S == {m \in 0 .. n :
                     \E f : f = [op \in 1 .. m |-> [b \in BOOLEAN |-> SetupOf(f, op, b)]]}
<1>1. n \in Nat /\ DOMAIN plan = 1 .. n
  BY PlanShape
<1>2. 0 \in S
  <2>1. 1 .. 0 = {}
    OBVIOUS
  <2>2. \A f : [op \in 1 .. 0 |-> [b \in BOOLEAN |-> SetupOf(f, op, b)]] = [op \in 1 .. 0 |-> op]
    BY <2>1
  <2>3. \E f : f = [op \in 1 .. 0 |-> [b \in BOOLEAN |-> SetupOf(f, op, b)]]
    BY <2>2
  <2>4. 0 \in 0 .. n
    BY <1>1
  <2>5. QED
    BY ONLY <2>3, <2>4, Zenon
<1>3. ASSUME NEW m \in 0 .. n - 1, m \in S PROVE m + 1 \in S
  <2>1. PICK f : f = [op \in 1 .. m |-> [b \in BOOLEAN |-> SetupOf(f, op, b)]]
    BY <1>3
  <2>2. PICK g : g = [op \in 1 .. m + 1 |-> [b \in BOOLEAN |-> SetupOf(f, op, b)]]
    OBVIOUS
  <2>3. ASSUME NEW op \in 1 .. m + 1, NEW b \in BOOLEAN
        PROVE  SetupOf(f, op, b) = SetupOf(g, op, b)
    <3>1. op \in DOMAIN plan /\ Inputs(op) \subseteq 1 .. m
      BY <1>1, <1>3, PlanShape
    <3>2. \A i \in Inputs(op) : f[i] = g[i]
      <4>1. ASSUME NEW i \in Inputs(op) PROVE f[i] = g[i]
        <5>1. i \in 1 .. m /\ i \in 1 .. m + 1
          BY <1>1, <1>3, <3>1
        <5>2. QED
          BY <2>1, <2>2, <5>1
      <4>2. QED
        BY <4>1
    <3>3. CASE plan[op].kind = "adapter"
      BY <3>3 DEF SetupOf
    <3>4. CASE plan[op].kind \in SingleKinds
      <4>1. f[Left(plan[op])] = g[Left(plan[op])]
        BY <3>1, <3>2, <3>4, InputsOfKind DEF SingleKinds
      <4>2. plan[op].kind # "adapter" /\ plan[op].kind # "join"
        BY <3>4 DEF SingleKinds
      <4>3. QED
        BY <3>4, <4>1, <4>2 DEF SetupOf
    <3>5. CASE plan[op].kind = "join"
      <4>1. f[Left(plan[op])] = g[Left(plan[op])] /\ f[Right(plan[op])] = g[Right(plan[op])]
        BY <3>1, <3>2, <3>5, InputsOfKind DEF SingleKinds
      <4>2. QED
        BY <3>5, <4>1 DEF SetupOf, SingleKinds
    <3>6. QED
      BY <3>1, <3>3, <3>4, <3>5, InputsOfKind
  <2>4. g = [op \in 1 .. m + 1 |-> [b \in BOOLEAN |-> SetupOf(g, op, b)]]
    BY <2>2, <2>3
  <2>5. m + 1 \in 0 .. n
    BY <1>1
  <2>6. QED
    BY <2>4, <2>5
<1>4. n \in S
  <2> HIDE DEF S, n
  <2>1. QED
    BY <1>1, <1>2, <1>3, StepByStep
<1>5. PICK f : f = [op \in DOMAIN plan |-> [b \in BOOLEAN |-> SetupOf(f, op, b)]]
  BY <1>1, <1>4
<1>6. QED
  BY <1>5 DEF RedoSearch, SetupOf

-----------------------------------------------------------------------------
(* What is upstream of an operator, and what depends on a relation.        *)

UpTo(op) == {op} \cup Upstream[op]
Dependent(op) == Combines(UpTo(op)) # {}

LEMMA UpToInputs ==
    ASSUME PlanOK, NEW op \in DOMAIN plan
    PROVE  /\ Inputs(op) \subseteq DOMAIN plan
           /\ UpTo(op) = {op} \cup UNION {UpTo(i) : i \in Inputs(op)}
<1>1. Upstream[op] = Inputs(op) \cup UNION {Upstream[i] : i \in Inputs(op)}
  BY UpstreamEquation DEF UpstreamOf
<1>2. Inputs(op) \subseteq DOMAIN plan
  BY PlanShape
<1>3. QED
  BY <1>1, <1>2 DEF UpTo

LEMMA UpToEarlier ==
    ASSUME PlanOK
    PROVE  \A op \in DOMAIN plan :
               /\ UpTo(op) \subseteq 1 .. op
               /\ \A i \in UpTo(op) : UpTo(i) \subseteq UpTo(op)
<1> DEFINE Good(op) == /\ UpTo(op) \subseteq 1 .. op
                       /\ \A i \in UpTo(op) : UpTo(i) \subseteq UpTo(op)
           S == {op \in DOMAIN plan : Good(op)}
<1>1. Len(plan) \in Nat /\ DOMAIN plan = 1 .. Len(plan)
  BY PlanShape
<1>2. ASSUME NEW op \in 1 .. Len(plan), \A k \in 1 .. op - 1 : k \in S PROVE op \in S
  <2>1. /\ op \in DOMAIN plan /\ Inputs(op) \subseteq 1 .. op - 1
        /\ UpTo(op) = {op} \cup UNION {UpTo(i) : i \in Inputs(op)}
    BY <1>1, PlanShape, UpToInputs
  <2>2. \A i \in Inputs(op) : i \in 1 .. op - 1 /\ Good(i)
    BY <1>2, <2>1
  <2>3. ASSUME NEW o \in UpTo(op) PROVE o \in 1 .. op
    <3>1. CASE o = op
      BY <1>2, <3>1
    <3>2. CASE o # op
      <4>1. PICK i \in Inputs(op) : o \in UpTo(i)
        BY <2>1, <3>2
      <4>2. i \in 1 .. op - 1 /\ o \in 1 .. i
        BY <2>2, <4>1
      <4>3. QED
        BY <1>1, <1>2, <4>2
    <3>3. QED
      BY <3>1, <3>2
  <2>4. ASSUME NEW o \in UpTo(op) PROVE UpTo(o) \subseteq UpTo(op)
    <3>1. CASE o # op
      <4>1. PICK i \in Inputs(op) : o \in UpTo(i)
        BY <2>1, <3>1
      <4>2. UpTo(o) \subseteq UpTo(i)
        BY <2>2, <4>1
      <4>3. QED
        BY <2>1, <4>2
    <3>2. QED
      BY <3>1
  <2>5. Good(op)
    BY <2>3, <2>4
  <2>6. QED
    BY <2>1, <2>5
<1>3. \A op \in 1 .. Len(plan) : op \in S
  <2> HIDE DEF S
  <2>1. QED
    BY <1>1, <1>2, Upwards
<1>4. QED
  BY <1>1, <1>3

LEMMA DependentInputs ==
    ASSUME PlanOK, NEW op \in DOMAIN plan
    PROVE  Dependent(op) <=> \/ plan[op].kind = "combine"
                             \/ \E i \in Inputs(op) : Dependent(i)
<1>1. UpTo(op) = {op} \cup UNION {UpTo(i) : i \in Inputs(op)}
  BY UpToInputs
<1>2. QED
  BY <1>1 DEF Dependent, Combines

LEMMA DependentBelow ==
    ASSUME PlanOK, NEW op \in DOMAIN plan, NEW o \in UpTo(op), Dependent(o)
    PROVE  Dependent(op)
<1>1. UpTo(o) \subseteq UpTo(op)
  BY UpToEarlier
<1>2. QED
  BY <1>1 DEF Dependent, Combines

-----------------------------------------------------------------------------
(* Turns *)

InTurn(turns) ==
    \A i \in DOMAIN turns : \A input \in Inputs(turns[i]) : \E j \in 1 .. i - 1 : turns[j] = input

LEMMA RangeOfBoth ==
    ASSUME NEW s, NEW t, NEW T, s \in Seq(T), t \in Seq(T)
    PROVE  s \o t \in Seq(T) /\ Range(s \o t) = Range(s) \cup Range(t)
<1>1. /\ s \o t \in Seq(T) /\ Len(s) \in Nat /\ Len(t) \in Nat
      /\ DOMAIN s = 1 .. Len(s) /\ DOMAIN t = 1 .. Len(t)
      /\ DOMAIN (s \o t) = 1 .. Len(s) + Len(t)
      /\ \A k \in 1 .. Len(s) + Len(t) :
             (s \o t)[k] = IF k <= Len(s) THEN s[k] ELSE t[k - Len(s)]
  OBVIOUS
<1>2. PICK m, n, u : m = Len(s) /\ n = Len(t) /\ u = s \o t
  OBVIOUS
<1>3. /\ m \in Nat /\ n \in Nat /\ DOMAIN s = 1 .. m /\ DOMAIN t = 1 .. n /\ DOMAIN u = 1 .. m + n
      /\ \A k \in 1 .. m : k \in 1 .. m + n /\ u[k] = s[k]
      /\ \A k \in 1 .. n : m + k \in 1 .. m + n /\ u[m + k] = t[k]
      /\ \A k \in 1 .. m + n : k \in 1 .. m \/ (k - m \in 1 .. n /\ u[k] = t[k - m])
  BY <1>1, <1>2
<1>4. Range(u) \subseteq Range(s) \cup Range(t)
  BY <1>3 DEF Range
<1>5. Range(s) \subseteq Range(u) /\ Range(t) \subseteq Range(u)
  <2>1. ASSUME NEW k \in DOMAIN s PROVE s[k] \in Range(u)
    BY <1>3, <2>1 DEF Range
  <2>2. ASSUME NEW k \in DOMAIN t PROVE t[k] \in Range(u)
    <3>1. m + k \in DOMAIN u /\ u[m + k] = t[k]
      BY <1>3, <2>2
    <3>2. QED
      BY <3>1 DEF Range
  <2>3. QED
    BY <2>1, <2>2 DEF Range
<1>6. QED
  BY <1>1, <1>2, <1>4, <1>5

LEMMA BothInTurn ==
    ASSUME NEW s, NEW t, s \in Seq(Nat), t \in Seq(Nat), InTurn(s),
           \A k \in DOMAIN t : \A input \in Inputs(t[k]) :
               input \in Range(s) \/ \E j \in 1 .. k - 1 : t[j] = input
    PROVE  InTurn(s \o t)
<1>1. PICK m, n, u : m = Len(s) /\ n = Len(t) /\ u = s \o t
  OBVIOUS
<1>2. /\ m \in Nat /\ n \in Nat /\ DOMAIN s = 1 .. m /\ DOMAIN t = 1 .. n /\ DOMAIN u = 1 .. m + n
      /\ \A k \in 1 .. m : u[k] = s[k]
      /\ \A k \in 1 .. n : u[m + k] = t[k]
      /\ \A k \in 1 .. m + n : k \in 1 .. m \/ (k - m \in 1 .. n /\ u[k] = t[k - m])
  BY <1>1
<1>3. ASSUME NEW k \in 1 .. m + n, NEW input \in Inputs(u[k])
      PROVE  \E j \in 1 .. k - 1 : u[j] = input
  <2>1. CASE k \in 1 .. m
    <3>1. PICK j \in 1 .. k - 1 : s[j] = input
      BY <1>2, <1>3, <2>1 DEF InTurn
    <3>2. j \in 1 .. m
      BY <1>2, <2>1, <3>1
    <3>3. QED
      BY <1>2, <3>1, <3>2
  <2>2. CASE k - m \in 1 .. n /\ u[k] = t[k - m]
    <3>1. CASE input \in Range(s)
      <4>1. PICK j \in 1 .. m : s[j] = input
        BY <1>2, <3>1 DEF Range
      <4>2. j \in 1 .. k - 1
        BY <1>2, <1>3, <2>2, <4>1
      <4>3. QED
        BY <1>2, <4>1, <4>2
    <3>2. CASE \E j \in 1 .. (k - m) - 1 : t[j] = input
      <4>1. PICK j \in 1 .. (k - m) - 1 : t[j] = input
        BY <3>2
      <4>2. j \in 1 .. n /\ m + j \in 1 .. k - 1
        BY <1>2, <1>3, <2>2, <4>1
      <4>3. QED
        BY <1>2, <4>1, <4>2
    <3>3. QED
      BY <1>2, <1>3, <2>2, <3>1, <3>2
  <2>3. QED
    BY <1>2, <1>3, <2>1, <2>2
<1>4. InTurn(u)
  BY <1>2, <1>3 DEF InTurn
<1>5. QED
  BY <1>1, <1>4

LEMMA OneMoreInTurn ==
    ASSUME NEW s \in Seq(Nat), InTurn(s), NEW op \in Nat, Inputs(op) \subseteq Range(s)
    PROVE  s \o <<op>> \in Seq(Nat) /\ Range(s \o <<op>>) = Range(s) \cup {op} /\ InTurn(s \o <<op>>)
<1>1. PICK t : t = <<op>>
  OBVIOUS
<1>2. t \in Seq(Nat) /\ DOMAIN t = {1} /\ t[1] = op
  BY <1>1
<1>3. Range(t) = {op}
  BY <1>2 DEF Range
<1>4. InTurn(s \o t)
  BY <1>2, BothInTurn
<1>5. s \o t \in Seq(Nat) /\ Range(s \o t) = Range(s) \cup Range(t)
  BY <1>2, RangeOfBoth
<1>6. QED
  BY <1>1, <1>3, <1>4, <1>5

Visited(turns, op) == turns \in Seq(Nat) /\ Range(turns) = UpTo(op) /\ InTurn(turns)

LEMMA AllVisited ==
    ASSUME PlanOK
    PROVE  \A op \in DOMAIN plan : Visited(Serialized(plan)[op], op)
<1>1. PICK visit : visit = Serialized(plan)
  OBVIOUS
<1> DEFINE S == {op \in DOMAIN plan : Visited(visit[op], op)}
<1>2. Len(plan) \in Nat /\ DOMAIN plan = 1 .. Len(plan)
  BY PlanShape
<1>3. ASSUME NEW op \in 1 .. Len(plan), \A k \in 1 .. op - 1 : k \in S PROVE op \in S
  <2>1. /\ op \in DOMAIN plan /\ op \in Nat /\ Inputs(op) \subseteq 1 .. op - 1
        /\ UpTo(op) = {op} \cup UNION {UpTo(i) : i \in Inputs(op)}
        /\ \A i \in Inputs(op) : i \in UpTo(i)
    BY <1>2, PlanShape, UpToInputs DEF UpTo
  <2>2. \A i \in Inputs(op) : Visited(visit[i], i)
    BY <1>3, <2>1
  <2>3. visit[op] = VisitOf(visit, op)
    BY <1>1, <2>1, SerializedEquation
  <2>4. CASE plan[op].kind = "adapter" /\ Inputs(op) = {}
    <3>1. <<>> \in Seq(Nat) /\ InTurn(<<>>) /\ Range(<<>>) = {}
      BY DEF InTurn, Range
    <3>2. <<>> \o <<op>> = <<op>>
      BY <2>1
    <3>3. visit[op] = <<op>>
      BY <2>3, <2>4 DEF VisitOf, SingleKinds
    <3>4. PICK none : none = <<>>
      OBVIOUS
    <3>5. /\ none \in Seq(Nat) /\ InTurn(none) /\ Range(none) = {} /\ none \o <<op>> = <<op>>
          /\ op \in Nat /\ Inputs(op) \subseteq Range(none)
      BY <2>1, <2>4, <3>1, <3>2, <3>4
    <3>6. /\ none \o <<op>> \in Seq(Nat) /\ Range(none \o <<op>>) = Range(none) \cup {op}
          /\ InTurn(none \o <<op>>)
      BY ONLY <3>5, OneMoreInTurn
    <3>7. UpTo(op) = {op}
      BY <2>1, <2>4
    <3>8. <<op>> \in Seq(Nat) /\ Range(<<op>>) = {op} /\ InTurn(<<op>>)
      BY <3>5, <3>6
    <3>9. QED
      BY <2>1, <3>3, <3>7, <3>8 DEF Visited
  <2>5. CASE plan[op].kind \in SingleKinds /\ Inputs(op) = {Left(plan[op])}
    <3>1. PICK l, s : l = Left(plan[op]) /\ s = visit[l]
      OBVIOUS
    <3>2. Visited(s, l) /\ UpTo(op) = {op} \cup UpTo(l) /\ Inputs(op) \subseteq UpTo(l)
      BY <2>1, <2>2, <2>5, <3>1
    <3>3. visit[op] = Append(s, op)
      BY <2>3, <2>5, <3>1 DEF VisitOf, SingleKinds
    <3>4. Append(s, op) = s \o <<op>>
      BY <2>1, <3>2 DEF Visited
    <3>5. s \in Seq(Nat) /\ InTurn(s) /\ op \in Nat /\ Inputs(op) \subseteq Range(s)
          /\ Range(s) = UpTo(l)
      BY <2>1, <3>2 DEF Visited
    <3>6. /\ s \o <<op>> \in Seq(Nat) /\ Range(s \o <<op>>) = Range(s) \cup {op}
          /\ InTurn(s \o <<op>>)
      BY ONLY <3>5, OneMoreInTurn
    <3>7. QED
      BY <2>1, <3>2, <3>3, <3>4, <3>5, <3>6 DEF Visited
  <2>6. CASE plan[op].kind = "join" /\ Inputs(op) = {Left(plan[op]), Right(plan[op])}
    <3>1. PICK l, r, s, t : /\ l = Left(plan[op]) /\ r = Right(plan[op])
                            /\ s = visit[l] /\ t = visit[r]
      OBVIOUS
    <3>2. Visited(s, l) /\ Visited(t, r) /\ UpTo(op) = {op} \cup UpTo(l) \cup UpTo(r)
          /\ Inputs(op) \subseteq UpTo(l) \cup UpTo(r)
      BY <2>1, <2>2, <2>6, <3>1
    <3>3. visit[op] = (s \o t) \o <<op>>
      BY <2>3, <2>6, <3>1 DEF VisitOf, SingleKinds, JoinTurns
    <3>4. s \o t \in Seq(Nat) /\ Range(s \o t) = UpTo(l) \cup UpTo(r)
      BY <3>2, RangeOfBoth DEF Visited
    <3>5. InTurn(s \o t)
      <4>1. /\ s \in Seq(Nat) /\ t \in Seq(Nat) /\ InTurn(s)
            /\ \A k \in DOMAIN t : \A input \in Inputs(t[k]) : \E j \in 1 .. k - 1 : t[j] = input
        BY <3>2 DEF Visited, InTurn
      <4>2. QED
        BY ONLY <4>1, BothInTurn
    <3>6. PICK u : u = s \o t
      OBVIOUS
    <3>7. u \in Seq(Nat) /\ InTurn(u) /\ op \in Nat /\ Inputs(op) \subseteq Range(u)
          /\ Range(u) = UpTo(l) \cup UpTo(r)
      BY <2>1, <3>2, <3>4, <3>5, <3>6
    <3>8. /\ u \o <<op>> \in Seq(Nat) /\ Range(u \o <<op>>) = Range(u) \cup {op}
          /\ InTurn(u \o <<op>>)
      BY ONLY <3>7, OneMoreInTurn
    <3>9. QED
      BY <2>1, <3>2, <3>3, <3>6, <3>7, <3>8 DEF Visited
  <2>7. op \in S
    BY <2>1, <2>4, <2>5, <2>6, InputsOfKind
  <2>8. QED
    BY <2>7
<1>4. \A op \in 1 .. Len(plan) : op \in S
  <2> HIDE DEF S
  <2>1. QED
    BY <1>2, <1>3, Upwards
<1>5. QED
  BY <1>1, <1>2, <1>4

-----------------------------------------------------------------------------
(* The commit operator *)

WindowsUpTo(op) == {o \in UpTo(op) : Dependent(o) /\ plan[o].kind \in WindowKinds}

Commits(commit, op) ==
    /\ commit = NoOperator <=> WindowsUpTo(op) = {}
    /\ commit # NoOperator => /\ commit \in WindowsUpTo(op)
                              /\ WindowsUpTo(op) \subseteq UpTo(commit)

FoundOf(found, op) == (found.reference <=> Dependent(op)) /\ Commits(found.commit, op)

LEMMA AllFound ==
    ASSUME PlanOK
    PROVE  \A op \in DOMAIN plan : FoundOf(CommitSearch(plan)[op], op)
<1>1. PICK find : find = CommitSearch(plan)
  OBVIOUS
<1> DEFINE S == {op \in DOMAIN plan : FoundOf(find[op], op)}
<1>2. Len(plan) \in Nat /\ DOMAIN plan = 1 .. Len(plan)
  BY PlanShape
<1>3. ASSUME NEW op \in 1 .. Len(plan), \A k \in 1 .. op - 1 : k \in S PROVE op \in S
  <2>1. /\ op \in DOMAIN plan /\ Inputs(op) \subseteq 1 .. op - 1 /\ op # NoOperator
        /\ UpTo(op) = {op} \cup UNION {UpTo(i) : i \in Inputs(op)} /\ op \in UpTo(op)
    BY <1>2, PlanShape, UpToInputs DEF UpTo, NoOperator
  <2>2. \A i \in Inputs(op) : FoundOf(find[i], i)
    BY <1>3, <2>1
  <2>3. find[op] = FindOf(find, op)
    BY <1>1, <2>1, CommitSearchEquation
  <2>4. Dependent(op) <=> plan[op].kind = "combine" \/ \E i \in Inputs(op) : Dependent(i)
    BY <2>1, DependentInputs
  <2>5. ASSUME Dependent(op), plan[op].kind \in WindowKinds PROVE Commits(op, op)
    BY <2>1, <2>5 DEF Commits, WindowsUpTo
  <2>6. ASSUME ~(Dependent(op) /\ plan[op].kind \in WindowKinds)
        PROVE  WindowsUpTo(op) = UNION {WindowsUpTo(i) : i \in Inputs(op)}
    BY <2>1, <2>6 DEF WindowsUpTo
  <2>7. ASSUME NEW i \in Inputs(op), ~Dependent(i) PROVE WindowsUpTo(i) = {}
    <3>1. i \in DOMAIN plan
      BY <1>2, <1>3, <2>1
    <3>2. QED
      BY <2>7, <3>1, DependentBelow DEF WindowsUpTo
  <2>8. CASE plan[op].kind = "adapter" /\ Inputs(op) = {}
    <3>1. find[op] = [reference |-> FALSE, commit |-> NoOperator]
      BY <2>3, <2>8 DEF FindOf, SingleKinds
    <3>2. ~Dependent(op)
      BY <2>4, <2>8
    <3>3. WindowsUpTo(op) = {}
      BY <2>6, <2>8, <3>2
    <3>4. find[op].reference = FALSE /\ find[op].commit = NoOperator
      BY <3>1
    <3>5. QED
      BY <3>2, <3>3, <3>4 DEF FoundOf, Commits
  <2>9. CASE plan[op].kind \in SingleKinds /\ Inputs(op) = {Left(plan[op])}
    <3>1. PICK l, left, kind : l = Left(plan[op]) /\ left = find[l] /\ kind = plan[op].kind
      OBVIOUS
    <3>2. /\ FoundOf(left, l)
          /\ Dependent(op) <=> kind = "combine" \/ Dependent(l)
          /\ ~(Dependent(op) /\ kind \in WindowKinds) => WindowsUpTo(op) = WindowsUpTo(l)
      BY <2>2, <2>4, <2>6, <2>9, <3>1
    <3>3. /\ find[op].reference = (left.reference \/ kind = "combine")
          /\ find[op].commit = IF IsCandidate(kind, left.reference) THEN op ELSE left.commit
      <4>1. find[op] = [reference |-> left.reference \/ kind = "combine",
                        commit |-> IF IsCandidate(kind, left.reference) THEN op ELSE left.commit]
        BY <2>3, <2>9, <3>1 DEF FindOf, SingleKinds
      <4>2. PICK reference, commit :
                /\ reference = (left.reference \/ kind = "combine")
                /\ commit = IF IsCandidate(kind, left.reference) THEN op ELSE left.commit
        OBVIOUS
      <4>3. find[op] = [reference |-> reference, commit |-> commit]
        BY <4>1, <4>2, Zenon
      <4>4. QED
        BY <4>2, <4>3
    <3>4. find[op].reference <=> Dependent(op)
      BY <3>2, <3>3, Zenon DEF FoundOf
    <3>5. kind \in WindowKinds => kind # "combine"
      BY DEF WindowKinds
    <3>6. CASE IsCandidate(kind, left.reference)
      <4>1. Commits(op, op)
        BY <2>5, <3>1, <3>2, <3>6 DEF IsCandidate, FoundOf
      <4>2. QED
        BY <3>3, <3>4, <3>6, <4>1 DEF FoundOf
    <3>7. CASE ~IsCandidate(kind, left.reference)
      <4>1. ~(Dependent(op) /\ kind \in WindowKinds)
        BY <3>2, <3>5, <3>7 DEF IsCandidate, FoundOf
      <4>2. Commits(left.commit, op)
        BY <3>2, <4>1 DEF FoundOf, Commits
      <4>3. QED
        BY <3>3, <3>4, <3>7, <4>2 DEF FoundOf
    <3>8. QED
      BY <3>6, <3>7, <2>1
  <2>10. CASE plan[op].kind = "join" /\ Inputs(op) = {Left(plan[op]), Right(plan[op])}
    <3>1. PICK l, r, left, right : /\ l = Left(plan[op]) /\ left = find[l]
                                   /\ r = Right(plan[op]) /\ right = find[r]
      OBVIOUS
    <3>2. /\ FoundOf(left, l) /\ FoundOf(right, r)
          /\ Dependent(op) <=> Dependent(l) \/ Dependent(r)
          /\ ~Dependent(op) => WindowsUpTo(op) = {} /\ WindowsUpTo(l) = {} /\ WindowsUpTo(r) = {}
      BY <2>2, <2>4, <2>6, <2>7, <2>10, <3>1
    <3> DEFINE candidate == IsCandidate("join", left.reference \/ right.reference)
    <3>3. /\ find[op].reference = (left.reference \/ right.reference)
          /\ find[op].commit = IF candidate THEN op
                               ELSE IF right.commit # NoOperator THEN right.commit ELSE left.commit
      <4>1. find[op] = [reference |-> left.reference \/ right.reference,
                        commit |-> IF candidate THEN op
                                   ELSE IF right.commit # NoOperator THEN right.commit
                                   ELSE left.commit]
        BY <2>3, <2>10, <3>1 DEF FindOf, SingleKinds
      <4>2. PICK reference, commit :
                /\ reference = (left.reference \/ right.reference)
                /\ commit = IF candidate THEN op
                            ELSE IF right.commit # NoOperator THEN right.commit ELSE left.commit
        OBVIOUS
      <4>3. find[op] = [reference |-> reference, commit |-> commit]
        BY <4>1, <4>2, Zenon
      <4>4. QED
        BY <4>2, <4>3
    <3>4. (find[op].reference <=> Dependent(op)) /\ (left.reference \/ right.reference <=> Dependent(op))
      BY <3>2, <3>3, Zenon DEF FoundOf
    <3>5. CASE Dependent(op)
      <4>1. IsCandidate("join", left.reference \/ right.reference)
        BY <3>4, <3>5 DEF IsCandidate, WindowKinds
      <4>2. Commits(op, op)
        BY <2>5, <2>10, <3>5 DEF WindowKinds
      <4>3. find[op].commit = op
        BY <3>3, <4>1
      <4>4. QED
        BY <3>4, <4>2, <4>3 DEF FoundOf
    <3>6. CASE ~Dependent(op)
      <4>1. left.commit = NoOperator /\ right.commit = NoOperator
        BY <3>2, <3>6 DEF FoundOf, Commits
      <4>2. ~IsCandidate("join", left.reference \/ right.reference)
        BY <3>4, <3>6 DEF IsCandidate
      <4>3. find[op].commit = NoOperator
        BY <3>3, <4>1, <4>2
      <4>4. QED
        BY <3>2, <3>4, <3>6, <4>3 DEF FoundOf, Commits
    <3>7. QED
      BY <3>5, <3>6
  <2>11. FoundOf(find[op], op)
    BY <2>1, <2>8, <2>9, <2>10, InputsOfKind
  <2>12. QED
    BY <2>1, <2>11
<1>4. \A op \in 1 .. Len(plan) : op \in S
  <2> HIDE DEF S
  <2>1. QED
    BY <1>2, <1>3, Upwards
<1>5. QED
  BY <1>1, <1>2, <1>4

-----------------------------------------------------------------------------
(* The redo area *)

(* What depends on a relation, the inputs of these that do not, and the    *)
(* combines among them that read no other.                                 *)
Area(op) == {o \in UpTo(op) : Dependent(o)}
Aside(op) == {i \in Inputs(op) : ~Dependent(i)}
AsideUpTo(op) == UNION {Aside(o) : o \in Area(op)}
LeavesUpTo(op) == {o \in Area(op) : plan[o].kind = "combine" /\ Aside(o) = Inputs(o)}

Entering(area) == (UNION {Inputs(o) : o \in area}) \ area

LEMMA AreaEnters ==
    ASSUME PlanOK, NEW op \in DOMAIN plan
    PROVE  /\ AsideUpTo(op) = Entering(Area(op))
           /\ LeavesUpTo(op) = {o \in Combines(Area(op)) : Inputs(o) \subseteq Entering(Area(op))}
<1>1. \A o \in UpTo(op) : o \in DOMAIN plan /\ UpTo(o) \subseteq UpTo(op)
  BY UpToEarlier, PlanShape
<1>2. ASSUME NEW o \in Area(op), NEW i \in Inputs(o)
      PROVE  i \in Entering(Area(op)) <=> ~Dependent(i)
  <2>1. i \in UpTo(o)
    <3>1. Inputs(o) \subseteq DOMAIN plan /\ UpTo(o) = {o} \cup UNION {UpTo(j) : j \in Inputs(o)}
      BY <1>1, <1>2, UpToInputs DEF Area
    <3>2. i \in UpTo(i)
      BY DEF UpTo
    <3>3. QED
      BY <1>2, <3>1, <3>2
  <2>2. i \in UpTo(op)
    BY <1>1, <1>2, <2>1 DEF Area
  <2>3. QED
    BY <1>2, <2>2 DEF Entering, Area
<1>3. AsideUpTo(op) = Entering(Area(op))
  <2>1. ASSUME NEW i \in AsideUpTo(op) PROVE i \in Entering(Area(op))
    <3>1. PICK o \in Area(op) : i \in Inputs(o) /\ ~Dependent(i)
      BY <2>1 DEF AsideUpTo, Aside
    <3>2. QED
      BY <1>2, <3>1
  <2>2. ASSUME NEW i \in Entering(Area(op)) PROVE i \in AsideUpTo(op)
    <3>1. PICK o \in Area(op) : i \in Inputs(o)
      BY <2>2 DEF Entering
    <3>2. ~Dependent(i)
      BY <1>2, <2>2, <3>1
    <3>3. QED
      BY <3>1, <3>2 DEF AsideUpTo, Aside
  <2>3. QED
    BY <2>1, <2>2
<1>4. \A o \in Area(op) : Aside(o) = Inputs(o) <=> Inputs(o) \subseteq Entering(Area(op))
  <2>1. ASSUME NEW o \in Area(op)
        PROVE  Aside(o) = Inputs(o) <=> Inputs(o) \subseteq Entering(Area(op))
    BY <1>2 DEF Aside
  <2>2. QED
    BY <2>1
<1>5. QED
  BY <1>3, <1>4 DEF LeavesUpTo, Combines

LEMMA AreaStep ==
    ASSUME PlanOK, NEW op \in DOMAIN plan
    PROVE  /\ Area(op) = (IF Dependent(op) THEN {op} ELSE {}) \cup UNION {Area(i) : i \in Inputs(op)}
           /\ AsideUpTo(op) = (IF Dependent(op) THEN Aside(op) ELSE {})
                              \cup UNION {AsideUpTo(i) : i \in Inputs(op)}
           /\ LeavesUpTo(op) = {o \in {op} : plan[op].kind = "combine" /\ Aside(op) = Inputs(op)}
                               \cup UNION {LeavesUpTo(i) : i \in Inputs(op)}
<1>1. UpTo(op) = {op} \cup UNION {UpTo(i) : i \in Inputs(op)}
  BY UpToInputs
<1>2. Area(op) = (IF Dependent(op) THEN {op} ELSE {}) \cup UNION {Area(i) : i \in Inputs(op)}
  BY <1>1 DEF Area
<1>3. plan[op].kind = "combine" => Dependent(op)
  BY DependentInputs
<1>4. AsideUpTo(op) = (IF Dependent(op) THEN Aside(op) ELSE {})
                      \cup UNION {AsideUpTo(i) : i \in Inputs(op)}
  <2>1. CASE Dependent(op)
    <3>1. Area(op) = {op} \cup UNION {Area(i) : i \in Inputs(op)}
      BY <1>2, <2>1
    <3>2. QED
      BY <2>1, <3>1 DEF AsideUpTo
  <2>2. CASE ~Dependent(op)
    <3>1. Area(op) = UNION {Area(i) : i \in Inputs(op)}
      BY <1>2, <2>2
    <3>2. QED
      BY <2>2, <3>1 DEF AsideUpTo
  <2>3. QED
    BY <2>1, <2>2
<1>5. LeavesUpTo(op) = {o \in {op} : plan[op].kind = "combine" /\ Aside(op) = Inputs(op)}
                       \cup UNION {LeavesUpTo(i) : i \in Inputs(op)}
  BY <1>2, <1>3 DEF LeavesUpTo
<1>6. QED
  BY <1>2, <1>4, <1>5

(* Nothing upstream of an operator depends on a relation if it does not.   *)
LEMMA NoAreaWithout ==
    ASSUME PlanOK, NEW op \in DOMAIN plan, ~Dependent(op)
    PROVE  Area(op) = {} /\ AsideUpTo(op) = {} /\ LeavesUpTo(op) = {}
<1>1. Area(op) = {}
  BY DependentBelow DEF Area
<1>2. QED
  BY <1>1 DEF AsideUpTo, LeavesUpTo

Redo(found, area, aside, leaves) ==
    /\ found.operators \in Seq(Nat) /\ Range(found.operators) = area
    /\ found.streams \in Seq(Nat) /\ Range(found.streams) = aside
    /\ found.leaves = leaves

RedoUpTo(found, op) ==
    /\ found.reference <=> Dependent(op)
    /\ Redo(found, Area(op), AsideUpTo(op), LeavesUpTo(op))

LEMMA NoneOrOne ==
    /\ <<>> \in Seq(Nat) /\ Range(<<>>) = {}
    /\ \A n \in Nat : <<n>> \in Seq(Nat) /\ Range(<<n>>) = {n}
<1>1. <<>> \in Seq(Nat) /\ Range(<<>>) = {}
  BY DEF Range
<1>2. ASSUME NEW n \in Nat PROVE <<n>> \in Seq(Nat) /\ Range(<<n>>) = {n}
  <2>1. PICK s : s = <<n>>
    OBVIOUS
  <2>2. s \in Seq(Nat) /\ DOMAIN s = {1} /\ s[1] = n
    BY <2>1
  <2>3. QED
    BY <2>1, <2>2 DEF Range
<1>3. QED
  BY <1>1, <1>2


LEMMA RedoSearchAt ==
    ASSUME PlanOK, NEW op \in DOMAIN plan, NEW b \in BOOLEAN
    PROVE  RedoSearch(plan)[op][b] = SetupOf(RedoSearch(plan), op, b)
<1>1. RedoSearch(plan)[op] = [a \in BOOLEAN |-> SetupOf(RedoSearch(plan), op, a)]
  BY RedoSearchEquation
<1>2. QED
  BY <1>1

LEMMA ResetUpTo ==
    ASSUME PlanOK, NEW op \in DOMAIN plan, NEW setup,
           \A i \in Inputs(op) : RedoUpTo(setup[i][TRUE], i),
           NEW b \in BOOLEAN, b \/ plan[op].kind \in WindowKinds
    PROVE  RedoUpTo(SetupOf(setup, op, b), op)
<1>1. PICK found : found = SetupOf(setup, op, b)
  OBVIOUS
<1>2. /\ Dependent(op) <=> plan[op].kind = "combine" \/ \E i \in Inputs(op) : Dependent(i)
      /\ op \in Nat /\ Inputs(op) \subseteq Nat /\ Inputs(op) \subseteq DOMAIN plan
  BY DependentInputs, PlanShape
<1>3. CASE plan[op].kind = "adapter" /\ Inputs(op) = {}
  <2>1. found = [reference |-> FALSE, streams |-> <<>>, operators |-> <<>>, leaves |-> {}]
    BY <1>1, <1>3 DEF SetupOf, SingleKinds
  <2>2. /\ found.reference = FALSE /\ found.streams = <<>> /\ found.operators = <<>>
        /\ found.leaves = {}
    BY ONLY <2>1
  <2>3. ~Dependent(op)
    BY <1>2, <1>3
  <2>4. Area(op) = {} /\ AsideUpTo(op) = {} /\ LeavesUpTo(op) = {}
    BY <2>3, NoAreaWithout
  <2>5. QED
    BY <1>1, <2>2, <2>3, <2>4, NoneOrOne DEF RedoUpTo, Redo
<1>4. CASE plan[op].kind \in SingleKinds /\ Inputs(op) = {Left(plan[op])}
  <2>1. PICK l, kind : l = Left(plan[op]) /\ kind = plan[op].kind
    OBVIOUS
  <2>2. PICK left : left = setup[l][b \/ kind \in WindowKinds]
    OBVIOUS
  <2>3. RedoUpTo(left, l) /\ l \in Nat
    <3>1. (b \/ kind \in WindowKinds) = TRUE
      BY <2>1
    <3>2. left = setup[l][TRUE]
      BY <2>2, <3>1
    <3>3. QED
      BY <1>2, <1>4, <2>1, <3>2
  <2>4. PICK isLeaf \in BOOLEAN : isLeaf <=> kind = "combine" /\ ~left.reference /\ b
    OBVIOUS
  <2>5. PICK reference \in BOOLEAN : reference <=> left.reference \/ isLeaf
    OBVIOUS
  <2>6. kind = "combine" => b
    BY <2>1 DEF WindowKinds
  <2>7. /\ isLeaf <=> kind = "combine" /\ ~Dependent(l)
        /\ reference <=> Dependent(op)
        /\ isLeaf <=> Dependent(op) /\ ~Dependent(l)
    <3>1. left.reference <=> Dependent(l)
      BY <2>3 DEF RedoUpTo
    <3>2. Dependent(op) <=> kind = "combine" \/ Dependent(l)
      BY <1>2, <1>4, <2>1
    <3>3. QED
      BY <2>4, <2>5, <2>6, <3>1, <3>2
  <2>8. InRedoArea(kind, reference, b) <=> Dependent(op)
    BY <2>1, <2>7 DEF InRedoArea
  <2>9. PICK one, aside : /\ one = IF Dependent(op) THEN <<op>> ELSE <<>>
                          /\ aside = IF isLeaf THEN <<l>> ELSE <<>>
    OBVIOUS
  <2>10. /\ found.reference <=> reference
         /\ found.streams = left.streams \o (IF isLeaf THEN <<Left(plan[op])>> ELSE <<>>)
         /\ found.operators =
                left.operators \o (IF InRedoArea(kind, reference, b) THEN <<op>> ELSE <<>>)
         /\ found.leaves = left.leaves \cup (IF isLeaf THEN {op} ELSE {})
    <3>1. kind # "adapter" /\ kind # "join" /\ kind = plan[op].kind /\ kind \in SingleKinds
      BY <1>4, <2>1 DEF SingleKinds
    <3>2. left = setup[Left(plan[op])][b \/ kind \in WindowKinds]
      BY <2>1, <2>2
    <3>3. isLeaf = (kind = "combine" /\ ~left.reference /\ b) /\ reference = (left.reference \/ isLeaf)
      BY <2>4, <2>5, Zenon
    <3>4. PICK s, o, l1 : /\ s = left.streams \o (IF isLeaf THEN <<Left(plan[op])>> ELSE <<>>)
                          /\ o = left.operators
                                 \o (IF InRedoArea(kind, reference, b) THEN <<op>> ELSE <<>>)
                          /\ l1 = left.leaves \cup (IF isLeaf THEN {op} ELSE {})
      OBVIOUS
    <3>5. found = [reference |-> reference, streams |-> s, operators |-> o, leaves |-> l1]
      BY <1>1, <3>1, <3>2, <3>3, <3>4 DEF SetupOf, SingleKinds
    <3>6. /\ found.reference = reference /\ found.streams = s
          /\ found.operators = o /\ found.leaves = l1
      BY ONLY <3>5
    <3>7. QED
      BY ONLY <3>4, <3>6
  <2>11. /\ found.streams = left.streams \o aside
         /\ found.operators = left.operators \o one
    BY <2>1, <2>8, <2>9, <2>10
  <2>12. /\ one \in Seq(Nat) /\ Range(one) = IF Dependent(op) THEN {op} ELSE {}
         /\ aside \in Seq(Nat) /\ Range(aside) = IF isLeaf THEN {l} ELSE {}
    BY <1>2, <2>3, <2>9, NoneOrOne
  <2>13. /\ Area(op) = (IF Dependent(op) THEN {op} ELSE {}) \cup Area(l)
         /\ AsideUpTo(op) = (IF isLeaf THEN {l} ELSE {}) \cup AsideUpTo(l)
         /\ LeavesUpTo(op) = (IF isLeaf THEN {op} ELSE {}) \cup LeavesUpTo(l)
    <3>1. Aside(op) = IF Dependent(l) THEN {} ELSE {l}
      BY <1>4, <2>1 DEF Aside
    <3>2. /\ Area(op) = (IF Dependent(op) THEN {op} ELSE {}) \cup Area(l)
          /\ AsideUpTo(op) = (IF Dependent(op) THEN Aside(op) ELSE {}) \cup AsideUpTo(l)
          /\ LeavesUpTo(op) = {o \in {op} : plan[op].kind = "combine" /\ Aside(op) = Inputs(op)}
                              \cup LeavesUpTo(l)
      BY <1>4, <2>1, AreaStep
    <3>3. plan[op].kind = "combine" /\ Aside(op) = Inputs(op) <=> isLeaf
      BY <1>4, <2>1, <2>7, <3>1
    <3>4. {o \in {op} : plan[op].kind = "combine" /\ Aside(op) = Inputs(op)} =
          IF isLeaf THEN {op} ELSE {}
      BY <3>3
    <3>5. (IF Dependent(op) THEN Aside(op) ELSE {}) = IF isLeaf THEN {l} ELSE {}
      BY <2>7, <3>1
    <3>6. QED
      BY <3>2, <3>4, <3>5
  <2>14. /\ left.streams \in Seq(Nat) /\ Range(left.streams) = AsideUpTo(l)
         /\ left.operators \in Seq(Nat) /\ Range(left.operators) = Area(l)
         /\ left.leaves = LeavesUpTo(l)
    <3>1. Redo(left, Area(l), AsideUpTo(l), LeavesUpTo(l))
      BY ONLY <2>3 DEF RedoUpTo
    <3>2. QED
      BY ONLY <3>1 DEF Redo
  <2>15. found.streams \in Seq(Nat) /\ Range(found.streams) = AsideUpTo(l) \cup Range(aside)
    BY ONLY <2>11, <2>12, <2>14, RangeOfBoth
  <2>16. found.operators \in Seq(Nat) /\ Range(found.operators) = Area(l) \cup Range(one)
    BY ONLY <2>11, <2>12, <2>14, RangeOfBoth
  <2>17. /\ Range(found.streams) = AsideUpTo(op) /\ Range(found.operators) = Area(op)
         /\ found.leaves = LeavesUpTo(op)
    <3>1. found.leaves = left.leaves \cup (IF isLeaf THEN {op} ELSE {})
      BY ONLY <2>10
    <3>2. left.leaves = LeavesUpTo(l)
      BY ONLY <2>14
    <3>3. Range(found.streams) = AsideUpTo(op)
      BY ONLY <2>12, <2>13, <2>15
    <3>4. Range(found.operators) = Area(op)
      BY ONLY <2>12, <2>13, <2>16
    <3>5. found.leaves = LeavesUpTo(op)
      BY ONLY <2>13, <3>1, <3>2
    <3>6. QED
      BY ONLY <3>3, <3>4, <3>5
  <2>18. found.reference <=> Dependent(op)
    BY <2>7, <2>10
  <2>19. QED
    BY <1>1, <2>15, <2>16, <2>17, <2>18 DEF RedoUpTo, Redo
<1>5. CASE plan[op].kind = "join" /\ Inputs(op) = {Left(plan[op]), Right(plan[op])}
  <2>1. PICK l, r, left, right : /\ l = Left(plan[op]) /\ left = setup[l][TRUE]
                                 /\ r = Right(plan[op]) /\ right = setup[r][TRUE]
    OBVIOUS
  <2>2. RedoUpTo(left, l) /\ l \in Nat /\ RedoUpTo(right, r) /\ r \in Nat
    BY <1>2, <1>5, <2>1
  <2>3. PICK reference \in BOOLEAN : reference <=> left.reference \/ right.reference
    OBVIOUS
  <2>4. /\ left.reference <=> Dependent(l)
        /\ right.reference <=> Dependent(r)
        /\ Dependent(op) <=> Dependent(l) \/ Dependent(r)
        /\ reference <=> Dependent(op)
    <3>1. (left.reference <=> Dependent(l)) /\ (right.reference <=> Dependent(r))
      BY <2>2 DEF RedoUpTo
    <3>2. Dependent(op) <=> Dependent(l) \/ Dependent(r)
      BY <1>2, <1>5, <2>1
    <3>3. QED
      BY <2>3, <3>1, <3>2
  <2>5. PICK one, aside : /\ one = IF Dependent(op) THEN <<op>> ELSE <<>>
                          /\ aside = InputAside(plan[op], left, right)
    OBVIOUS
  <2>6. /\ found.reference <=> reference
        /\ found.streams = (left.streams \o right.streams) \o InputAside(plan[op], left, right)
        /\ found.operators = (left.operators \o right.operators)
                             \o (IF reference THEN <<op>> ELSE <<>>)
        /\ found.leaves = left.leaves \cup right.leaves
    <3>1. /\ left = setup[Left(plan[op])][TRUE] /\ right = setup[Right(plan[op])][TRUE]
          /\ "join" \in WindowKinds /\ "join" \notin SingleKinds
      BY <2>1 DEF SingleKinds, WindowKinds
    <3>2. reference = (left.reference \/ right.reference)
      BY <2>3, Zenon
    <3>3. PICK s, o, l1 :
              /\ s = (left.streams \o right.streams) \o InputAside(plan[op], left, right)
              /\ o = (left.operators \o right.operators) \o (IF reference THEN <<op>> ELSE <<>>)
              /\ l1 = left.leaves \cup right.leaves
      OBVIOUS
    <3>4. (b \/ "join" \in WindowKinds) = TRUE
      BY <3>1
    <3>5. InRedoArea("join", reference, b) <=> reference
      BY <3>1 DEF InRedoArea
    <3>6. found = [reference |-> reference, streams |-> s, operators |-> o, leaves |-> l1]
      BY <1>1, <1>5, <3>1, <3>2, <3>3, <3>4, <3>5 DEF SetupOf
    <3>7. /\ found.reference = reference /\ found.streams = s
          /\ found.operators = o /\ found.leaves = l1
      BY ONLY <3>6
    <3>8. QED
      BY ONLY <3>3, <3>7
  <2>7. /\ found.streams = (left.streams \o right.streams) \o aside
        /\ found.operators = (left.operators \o right.operators) \o one
    BY <2>4, <2>5, <2>6
  <2>8. /\ one \in Seq(Nat) /\ Range(one) = IF Dependent(op) THEN {op} ELSE {}
        /\ aside \in Seq(Nat) /\ Range(aside) = IF Dependent(op) THEN Aside(op) ELSE {}
    <3>1. one \in Seq(Nat) /\ Range(one) = IF Dependent(op) THEN {op} ELSE {}
      BY <1>2, <2>5, NoneOrOne
    <3>2. Aside(op) = {i \in {l, r} : ~Dependent(i)}
      BY <1>5, <2>1 DEF Aside
    <3>3. CASE ~Dependent(l) /\ Dependent(r)
      <4>1. aside = <<l>>
        BY <2>1, <2>4, <2>5, <3>3 DEF InputAside
      <4>2. Aside(op) = {l}
        BY <3>2, <3>3
      <4>3. QED
        BY <2>2, <2>4, <3>1, <3>3, <4>1, <4>2, NoneOrOne
    <3>4. CASE Dependent(l) /\ ~Dependent(r)
      <4>1. aside = <<r>>
        BY <2>1, <2>4, <2>5, <3>4 DEF InputAside
      <4>2. Aside(op) = {r}
        BY <3>2, <3>4
      <4>3. QED
        BY <2>2, <2>4, <3>1, <3>4, <4>1, <4>2, NoneOrOne
    <3>5. CASE Dependent(l) <=> Dependent(r)
      <4>1. aside = <<>>
        BY <2>4, <2>5, <3>5 DEF InputAside
      <4>2. Dependent(op) => Aside(op) = {}
        BY <2>4, <3>2, <3>5
      <4>3. QED
        BY <3>1, <4>1, <4>2, NoneOrOne
    <3>6. QED
      BY <3>3, <3>4, <3>5
  <2>9. /\ Area(op) = (IF Dependent(op) THEN {op} ELSE {}) \cup (Area(l) \cup Area(r))
        /\ AsideUpTo(op) = (IF Dependent(op) THEN Aside(op) ELSE {})
                           \cup (AsideUpTo(l) \cup AsideUpTo(r))
        /\ LeavesUpTo(op) = LeavesUpTo(l) \cup LeavesUpTo(r)
    <3>1. plan[op].kind # "combine"
      BY <1>5
    <3>2. QED
      BY <1>5, <2>1, <3>1, AreaStep
  <2>10. /\ left.streams \in Seq(Nat) /\ Range(left.streams) = AsideUpTo(l)
         /\ left.operators \in Seq(Nat) /\ Range(left.operators) = Area(l)
         /\ left.leaves = LeavesUpTo(l)
         /\ right.streams \in Seq(Nat) /\ Range(right.streams) = AsideUpTo(r)
         /\ right.operators \in Seq(Nat) /\ Range(right.operators) = Area(r)
         /\ right.leaves = LeavesUpTo(r)
    BY <2>2 DEF RedoUpTo, Redo
  <2>11. PICK s, o : s = left.streams \o right.streams /\ o = left.operators \o right.operators
    OBVIOUS
  <2>12. /\ s \in Seq(Nat) /\ Range(s) = AsideUpTo(l) \cup AsideUpTo(r)
    BY ONLY <2>10, <2>11, RangeOfBoth
  <2>13. /\ o \in Seq(Nat) /\ Range(o) = Area(l) \cup Area(r)
    BY ONLY <2>10, <2>11, RangeOfBoth
  <2>14. found.streams \in Seq(Nat) /\ Range(found.streams) = Range(s) \cup Range(aside)
    <3>1. found.streams = s \o aside
      BY <2>7, <2>11
    <3>2. QED
      BY ONLY <2>8, <2>12, <3>1, RangeOfBoth
  <2>15. found.operators \in Seq(Nat) /\ Range(found.operators) = Range(o) \cup Range(one)
    <3>1. found.operators = o \o one
      BY <2>7, <2>11
    <3>2. QED
      BY ONLY <2>8, <2>13, <3>1, RangeOfBoth
  <2>16. /\ Range(found.streams) = AsideUpTo(op) /\ Range(found.operators) = Area(op)
         /\ found.leaves = LeavesUpTo(op)
    BY <2>6, <2>8, <2>9, <2>10, <2>12, <2>13, <2>14, <2>15
  <2>17. found.reference <=> Dependent(op)
    BY <2>4, <2>6
  <2>18. QED
    BY <1>1, <2>14, <2>15, <2>16, <2>17 DEF RedoUpTo, Redo
<1>6. QED
  BY <1>3, <1>4, <1>5, InputsOfKind

LEMMA AllReset ==
    ASSUME PlanOK
    PROVE  \A op \in DOMAIN plan : RedoUpTo(RedoSearch(plan)[op][TRUE], op)
<1>1. PICK setup : setup = RedoSearch(plan)
  OBVIOUS
<1> DEFINE S == {op \in DOMAIN plan : RedoUpTo(setup[op][TRUE], op)}
<1>2. Len(plan) \in Nat /\ DOMAIN plan = 1 .. Len(plan)
  BY PlanShape
<1>3. ASSUME NEW op \in 1 .. Len(plan), \A k \in 1 .. op - 1 : k \in S PROVE op \in S
  <2>1. op \in DOMAIN plan /\ Inputs(op) \subseteq 1 .. op - 1
    BY <1>2, PlanShape
  <2>2. setup[op][TRUE] = SetupOf(setup, op, TRUE)
    BY <1>1, <2>1, RedoSearchAt
  <2>3. RedoUpTo(SetupOf(setup, op, TRUE), op)
    BY <1>3, <2>1, ResetUpTo
  <2>4. QED
    BY <2>1, <2>2, <2>3
<1>4. \A op \in 1 .. Len(plan) : op \in S
  <2> HIDE DEF S
  <2>1. QED
    BY <1>2, <1>3, Upwards
<1>5. QED
  BY <1>1, <1>2, <1>4

(* What is found from the root, below which there is no window: the area   *)
(* up to the commit operator.                                              *)
RedoUpToCommit(found, commit) ==
    IF commit = NoOperator THEN Redo(found, {}, {}, {})
    ELSE Redo(found, Area(commit), AsideUpTo(commit), LeavesUpTo(commit))

LEMMA ResetUpToCommit ==
    ASSUME PlanOK
    PROVE  \A op \in DOMAIN plan :
               RedoUpToCommit(RedoSearch(plan)[op][FALSE], CommitSearch(plan)[op].commit)
<1>1. PICK setup, find : setup = RedoSearch(plan) /\ find = CommitSearch(plan)
  OBVIOUS
<1> DEFINE S == {op \in DOMAIN plan : RedoUpToCommit(setup[op][FALSE], find[op].commit)}
<1>2. Len(plan) \in Nat /\ DOMAIN plan = 1 .. Len(plan)
  BY PlanShape
<1>3. ASSUME NEW op \in 1 .. Len(plan), \A k \in 1 .. op - 1 : k \in S PROVE op \in S
  <2>1. /\ op \in DOMAIN plan /\ Inputs(op) \subseteq 1 .. op - 1 /\ op # NoOperator
        /\ Inputs(op) \subseteq DOMAIN plan
    BY <1>2, PlanShape DEF NoOperator
  <2>2. PICK found : found = SetupOf(setup, op, FALSE)
    OBVIOUS
  <2>3. setup[op][FALSE] = found /\ find[op] = FindOf(find, op)
    BY <1>1, <2>1, <2>2, RedoSearchAt, CommitSearchEquation
  <2>4. SUFFICES RedoUpToCommit(found, find[op].commit)
    BY <2>1, <2>3
  <2>5. FoundOf(find[op], op)
    BY <1>1, <2>1, AllFound
  <2>6. CASE plan[op].kind \in WindowKinds
    <3>1. \A i \in Inputs(op) : RedoUpTo(setup[i][TRUE], i)
      BY <1>1, <2>1, AllReset
    <3>2. RedoUpTo(found, op)
      BY <2>1, <2>2, <2>6, <3>1, ResetUpTo
    <3>3. CASE Dependent(op)
      <4>1. op \in WindowsUpTo(op) /\ WindowsUpTo(op) \subseteq UpTo(op)
        BY <2>6, <3>3 DEF WindowsUpTo, UpTo
      <4>2. find[op].commit # NoOperator /\ find[op].commit \in UpTo(op) /\ op \in UpTo(find[op].commit)
        BY <2>5, <4>1 DEF FoundOf, Commits
      <4>3. find[op].commit = op
        <5>1. PICK c : c = find[op].commit
          OBVIOUS
        <5>2. c \in 1 .. op /\ c \in DOMAIN plan
          BY <1>2, <2>1, <4>2, <5>1, UpToEarlier
        <5>3. op \in 1 .. c
          BY <4>2, <5>1, <5>2, UpToEarlier
        <5>4. QED
          BY <1>2, <5>1, <5>2, <5>3
      <4>4. QED
        BY <2>1, <3>2, <4>3 DEF RedoUpToCommit, RedoUpTo
    <3>4. CASE ~Dependent(op)
      <4>1. Area(op) = {} /\ AsideUpTo(op) = {} /\ LeavesUpTo(op) = {}
        BY <2>1, <3>4, NoAreaWithout
      <4>2. WindowsUpTo(op) = {}
        BY <4>1 DEF WindowsUpTo, Area
      <4>3. find[op].commit = NoOperator
        BY <2>5, <4>2 DEF FoundOf, Commits
      <4>4. QED
        BY <3>2, <4>1, <4>3 DEF RedoUpToCommit, RedoUpTo
    <3>5. QED
      BY <3>3, <3>4
  <2>7. CASE plan[op].kind = "adapter" /\ Inputs(op) = {}
    <3>1. found = [reference |-> FALSE, streams |-> <<>>, operators |-> <<>>, leaves |-> {}]
      BY <2>2, <2>7 DEF SetupOf, SingleKinds
    <3>2. found.streams = <<>> /\ found.operators = <<>> /\ found.leaves = {}
      BY ONLY <3>1
    <3>3. find[op] = [reference |-> FALSE, commit |-> NoOperator]
      BY <2>3, <2>7 DEF FindOf, SingleKinds
    <3>4. find[op].commit = NoOperator
      BY ONLY <3>3
    <3>5. QED
      BY <3>2, <3>4, NoneOrOne DEF RedoUpToCommit, Redo
  <2>8. CASE /\ plan[op].kind \in SingleKinds /\ plan[op].kind \notin WindowKinds
             /\ Inputs(op) = {Left(plan[op])}
    <3>1. PICK l, kind : l = Left(plan[op]) /\ kind = plan[op].kind
      OBVIOUS
    <3>2. PICK left : left = setup[l][FALSE \/ kind \in WindowKinds]
      OBVIOUS
    <3>3. left = setup[l][FALSE]
      <4>1. (FALSE \/ kind \in WindowKinds) = FALSE
        BY <2>8, <3>1
      <4>2. QED
        BY <3>2, <4>1
    <3>4. RedoUpToCommit(left, find[l].commit)
      BY <1>3, <2>1, <2>8, <3>1, <3>3
    <3>5. find[op].commit = find[l].commit
      <4>1. ~IsCandidate(kind, find[l].reference)
        BY <2>8, <3>1 DEF IsCandidate
      <4>2. find[op] = [reference |-> find[l].reference \/ kind = "combine", commit |-> find[l].commit]
        BY <2>3, <2>8, <3>1, <4>1 DEF FindOf, SingleKinds
      <4>3. PICK reference : reference = (find[l].reference \/ kind = "combine")
        OBVIOUS
      <4>4. find[op] = [reference |-> reference, commit |-> find[l].commit]
        BY <4>2, <4>3, Zenon
      <4>5. QED
        BY ONLY <4>4
    <3>6. PICK isLeaf \in BOOLEAN : isLeaf <=> kind = "combine" /\ ~left.reference /\ FALSE
      OBVIOUS
    <3>7. PICK reference \in BOOLEAN : reference <=> left.reference \/ isLeaf
      OBVIOUS
    <3>8. ~isLeaf /\ ~InRedoArea(kind, reference, FALSE)
      BY <2>8, <3>1, <3>6 DEF InRedoArea
    <3>9. /\ found.streams = left.streams \o (IF isLeaf THEN <<Left(plan[op])>> ELSE <<>>)
          /\ found.operators =
                 left.operators \o (IF InRedoArea(kind, reference, FALSE) THEN <<op>> ELSE <<>>)
          /\ found.leaves = left.leaves \cup (IF isLeaf THEN {op} ELSE {})
      <4>1. kind # "adapter" /\ kind # "join" /\ kind = plan[op].kind /\ kind \in SingleKinds
        BY <2>8, <3>1 DEF SingleKinds
      <4>2. left = setup[Left(plan[op])][FALSE \/ kind \in WindowKinds]
        BY <3>1, <3>2
      <4>3. isLeaf = (kind = "combine" /\ ~left.reference /\ FALSE) /\ reference = (left.reference \/ isLeaf)
        BY <3>6, <3>7, Zenon
      <4>4. PICK s, o, l1 : /\ s = left.streams \o (IF isLeaf THEN <<Left(plan[op])>> ELSE <<>>)
                            /\ o = left.operators
                                   \o (IF InRedoArea(kind, reference, FALSE) THEN <<op>> ELSE <<>>)
                            /\ l1 = left.leaves \cup (IF isLeaf THEN {op} ELSE {})
        OBVIOUS
      <4>5. found = [reference |-> reference, streams |-> s, operators |-> o, leaves |-> l1]
        BY <2>2, <4>1, <4>2, <4>3, <4>4 DEF SetupOf, SingleKinds
      <4>6. /\ found.reference = reference /\ found.streams = s
            /\ found.operators = o /\ found.leaves = l1
        BY ONLY <4>5
      <4>7. QED
        BY ONLY <4>4, <4>6
    <3>10. left.streams \in Seq(Nat) /\ left.operators \in Seq(Nat)
      BY <3>4 DEF RedoUpToCommit, Redo
    <3>11. /\ left.streams \o <<>> = left.streams /\ left.operators \o <<>> = left.operators
      BY <3>10
    <3>12. /\ found.streams = left.streams /\ found.operators = left.operators
           /\ found.leaves = left.leaves
      BY <3>8, <3>9, <3>11
    <3>13. QED
      BY <3>4, <3>5, <3>12 DEF RedoUpToCommit, Redo
  <2>9. plan[op].kind = "join" => plan[op].kind \in WindowKinds
    BY DEF WindowKinds
  <2>10. QED
    BY <2>1, <2>6, <2>7, <2>8, <2>9, InputsOfKind
<1>4. \A op \in 1 .. Len(plan) : op \in S
  <2> HIDE DEF S
  <2>1. QED
    BY <1>2, <1>3, Upwards
<1>5. QED
  BY <1>1, <1>2, <1>4

-----------------------------------------------------------------------------
(* The plans that statements make                                          *)

LEMMA MadeAt ==
    ASSUME NEW p, WellMade(p), NEW op \in DOMAIN p
    PROVE  /\ p[op] = [kind |-> p[op].kind, inputs |-> p[op].inputs]
           /\ p[op].kind \in Kinds /\ p[op].inputs \in Seq(Nat)
<1>1. PICK R : R = [kind : Kinds, inputs : Seq(Nat)]
  OBVIOUS
<1>2. p \in Seq(R)
  BY <1>1 DEF WellMade
<1>3. p[op] \in R
  BY <1>2
<1>4. QED
  BY <1>1, <1>3

(* Operators are added behind those there are, and their inputs come first.*)
LEMMA MoreMade ==
    ASSUME NEW p, WellMade(p), NEW q, NEW n \in Nat,
           DOMAIN q = 1 .. n, Len(q) = n, q = [op \in 1 .. n |-> q[op]], Len(p) <= n,
           \A op \in DOMAIN p : q[op] = p[op],
           \A op \in Len(p) + 1 .. n :
               /\ q[op] \in [kind : Kinds, inputs : Seq(Nat)]
               /\ q[op].kind = "adapter" => q[op].inputs = <<>>
               /\ q[op].kind \in SingleKinds => Len(q[op].inputs) = 1
               /\ q[op].kind = "join" => Len(q[op].inputs) = 2
               /\ Range(q[op].inputs) \subseteq 1 .. op - 1
    PROVE  WellMade(q)
<1>1. PICK R : R = [kind : Kinds, inputs : Seq(Nat)]
  OBVIOUS
<1>2. p \in Seq(R) /\ Len(p) \in Nat /\ DOMAIN p = 1 .. Len(p)
  BY <1>1 DEF WellMade
<1>3. \A op \in 1 .. n : op \in DOMAIN p \/ op \in Len(p) + 1 .. n
  BY <1>2
<1>4. \A op \in 1 .. n : q[op] \in R
  <2>1. \A op \in DOMAIN p : p[op] \in R
    BY <1>2
  <2>2. QED
    BY <1>1, <1>3, <2>1
<1>5. q \in Seq(R)
  <2>1. q \in [1 .. n -> R]
    BY <1>4
  <2>2. QED
    BY <2>1
<1>6. ASSUME NEW op \in 1 .. n
      PROVE  /\ q[op].kind = "adapter" => q[op].inputs = <<>>
             /\ q[op].kind \in SingleKinds => Len(q[op].inputs) = 1
             /\ q[op].kind = "join" => Len(q[op].inputs) = 2
             /\ Range(q[op].inputs) \subseteq 1 .. op - 1
  <2>1. CASE op \in DOMAIN p
    <3>1. q[op] = p[op]
      BY <2>1
    <3>2. QED
      BY <2>1, <3>1 DEF WellMade
  <2>2. CASE op \in Len(p) + 1 .. n
    BY <2>2
  <2>3. QED
    BY <1>3, <2>1, <2>2
<1>7. QED
  BY <1>1, <1>5, <1>6 DEF WellMade

LEMMA OneMade ==
    ASSUME NEW p, WellMade(p), NEW kind \in Kinds, NEW inputs \in Seq(DOMAIN p),
           kind = "adapter" => inputs = <<>>,
           kind \in SingleKinds => Len(inputs) = 1,
           kind = "join" => Len(inputs) = 2
    PROVE  /\ WellMade(Append(p, Operator(kind, inputs)))
           /\ Len(Append(p, Operator(kind, inputs))) = Len(p) + 1
<1>1. PICK R : R = [kind : Kinds, inputs : Seq(Nat)]
  OBVIOUS
<1>2. p \in Seq(R) /\ Len(p) \in Nat /\ DOMAIN p = 1 .. Len(p)
  BY <1>1 DEF WellMade
<1>3. PICK m, new : m = Len(p) /\ new = Operator(kind, inputs)
  OBVIOUS
<1>4. inputs \in Seq(Nat) /\ Range(inputs) \subseteq 1 .. m
  <2>1. \A k \in DOMAIN inputs : inputs[k] \in 1 .. m
    BY <1>2, <1>3
  <2>2. inputs \in Seq(Nat)
    <3>1. DOMAIN inputs = 1 .. Len(inputs) /\ Len(inputs) \in Nat
          /\ inputs = [k \in 1 .. Len(inputs) |-> inputs[k]]
      OBVIOUS
    <3>2. inputs \in [1 .. Len(inputs) -> Nat]
      BY <1>2, <1>3, <2>1, <3>1
    <3>3. QED
      BY <3>1, <3>2
  <2>3. QED
    BY <2>1, <2>2 DEF Range
<1>5. /\ new \in R /\ new.kind = kind /\ new.inputs = inputs
  BY <1>1, <1>3, <1>4 DEF Operator
<1>6. PICK q : q = Append(p, new)
  OBVIOUS
<1>7. /\ q \in Seq(R) /\ Len(q) = m + 1 /\ DOMAIN q = 1 .. m + 1 /\ q = [op \in 1 .. m + 1 |-> q[op]]
      /\ q[m + 1] = new /\ m \in Nat
      /\ \A op \in 1 .. m : q[op] = p[op]
  <2>1. /\ q \in Seq(R) /\ Len(q) = m + 1 /\ m \in Nat
        /\ q[m + 1] = new /\ \A op \in 1 .. m : q[op] = p[op]
    BY <1>2, <1>3, <1>5, <1>6
  <2>2. QED
    BY <2>1
<1>8. \A op \in m + 1 .. m + 1 : op = m + 1 /\ op - 1 = m
  BY <1>7
<1>9. WellMade(q)
  <2>1. \A op \in m + 1 .. m + 1 :
               /\ q[op] \in [kind : Kinds, inputs : Seq(Nat)]
               /\ q[op].kind = "adapter" => q[op].inputs = <<>>
               /\ q[op].kind \in SingleKinds => Len(q[op].inputs) = 1
               /\ q[op].kind = "join" => Len(q[op].inputs) = 2
               /\ Range(q[op].inputs) \subseteq 1 .. op - 1
    BY <1>1, <1>4, <1>5, <1>7, <1>8
  <2>2. m + 1 \in Nat /\ m <= m + 1
    BY <1>7
  <2>3. QED
    BY <1>2, <1>3, <1>7, <2>1, <2>2, MoreMade
<1>10. QED
  BY <1>3, <1>6, <1>7, <1>9

LEMMA OperationsMade ==
    ASSUME NEW p, WellMade(p), NEW root \in DOMAIN p, NEW operations \in Seq(SingleKinds)
    PROVE  /\ WellMade(WithOperations(p, root, operations))
           /\ Len(WithOperations(p, root, operations)) = Len(p) + Len(operations)
<1>1. PICK R : R = [kind : Kinds, inputs : Seq(Nat)]
  OBVIOUS
<1>2. p \in Seq(R) /\ Len(p) \in Nat /\ DOMAIN p = 1 .. Len(p)
  BY <1>1 DEF WellMade
<1>3. PICK m, n : m = Len(p) /\ n = Len(operations)
  OBVIOUS
<1>4. m \in Nat /\ n \in Nat /\ DOMAIN operations = 1 .. n /\ root \in 1 .. m
      /\ \A i \in 1 .. n : operations[i] \in SingleKinds
  BY <1>2, <1>3
<1>5. PICK at : at = [i \in 1 .. n |-> IF i = 1 THEN root ELSE m + i - 1]
  OBVIOUS
<1>6. \A i \in 1 .. n : at[i] \in Nat /\ at[i] \in 1 .. (m + i) - 1
  BY <1>4, <1>5
<1>7. PICK new : new = [i \in 1 .. n |-> Operator(operations[i], <<at[i]>>)]
  OBVIOUS
<1>8. ASSUME NEW i \in 1 .. n
      PROVE  /\ new[i] \in R /\ new[i].kind \in SingleKinds /\ Len(new[i].inputs) = 1
             /\ Range(new[i].inputs) \subseteq 1 .. (m + i) - 1
  <2>1. new[i] = [kind |-> operations[i], inputs |-> <<at[i]>>]
    BY <1>7 DEF Operator
  <2>2. new[i].kind = operations[i] /\ new[i].inputs = <<at[i]>>
    BY ONLY <2>1
  <2>3. <<at[i]>> \in Seq(Nat) /\ Range(<<at[i]>>) = {at[i]} /\ Len(<<at[i]>>) = 1
    BY <1>6, NoneOrOne
  <2>4. new[i] \in R
    BY <1>1, <1>4, <2>1, <2>3 DEF Kinds
  <2>5. QED
    BY <1>4, <1>6, <2>2, <2>3, <2>4
<1>9. new \in Seq(R) /\ Len(new) = n
  <2>1. new \in [1 .. n -> R]
    BY <1>7, <1>8
  <2>2. QED
    BY <1>4, <2>1
<1>10. PICK q : q = WithOperations(p, root, operations)
  OBVIOUS
<1>11. q = p \o new
  BY <1>3, <1>4, <1>5, <1>7, <1>10 DEF WithOperations
<1>12. /\ q \in Seq(R) /\ Len(q) = m + n
       /\ \A op \in 1 .. m : q[op] = p[op]
       /\ \A op \in m + 1 .. m + n : q[op] = new[op - m]
  <2>1. p \in Seq(R) /\ new \in Seq(R) /\ m = Len(p) /\ n = Len(new) /\ m \in Nat /\ n \in Nat
    BY <1>2, <1>3, <1>4, <1>9
  <2>2. q \in Seq(R)
    BY ONLY <1>11, <2>1
  <2>3. Len(q) = m + n /\ \A op \in 1 .. m + n : q[op] = IF op <= m THEN p[op] ELSE new[op - m]
    BY ONLY <1>11, <2>1
  <2>4. \A op \in 1 .. m : op \in 1 .. m + n /\ op <= m
    BY ONLY <2>1
  <2>5. \A op \in m + 1 .. m + n : op \in 1 .. m + n /\ ~(op <= m)
    BY ONLY <2>1
  <2>6. QED
    BY <2>2, <2>3, <2>4, <2>5
<1>13. DOMAIN q = 1 .. m + n /\ q = [op \in 1 .. m + n |-> q[op]] /\ m + n \in Nat /\ m <= m + n
  BY <1>4, <1>12
<1>14. ASSUME NEW op \in m + 1 .. m + n
       PROVE  /\ q[op] \in [kind : Kinds, inputs : Seq(Nat)]
              /\ q[op].kind = "adapter" => q[op].inputs = <<>>
              /\ q[op].kind \in SingleKinds => Len(q[op].inputs) = 1
              /\ q[op].kind = "join" => Len(q[op].inputs) = 2
              /\ Range(q[op].inputs) \subseteq 1 .. op - 1
  <2>1. PICK i : i = op - m
    OBVIOUS
  <2>2. i \in 1 .. n /\ (m + i) - 1 = op - 1
    BY <1>4, <2>1
  <2>3. q[op] = new[i]
    BY <1>12, <2>1
  <2>4. q[op].kind # "adapter" /\ q[op].kind # "join"
    BY <1>8, <2>2, <2>3 DEF SingleKinds
  <2>5. new[i] \in R /\ Len(new[i].inputs) = 1 /\ Range(new[i].inputs) \subseteq 1 .. (m + i) - 1
    BY <1>8, <2>2
  <2>6. q[op] \in [kind : Kinds, inputs : Seq(Nat)]
    BY ONLY <1>1, <2>3, <2>5
  <2>7. QED
    BY ONLY <2>2, <2>3, <2>4, <2>5, <2>6
<1>15. WellMade(q)
  <2>1. PICK size : size = m + n /\ size \in Nat /\ m <= size
    BY <1>13
  <2>2. /\ DOMAIN q = 1 .. size /\ Len(q) = size /\ q = [op \in 1 .. size |-> q[op]]
        /\ Len(p) <= size /\ \A op \in DOMAIN p : q[op] = p[op]
    BY <1>2, <1>3, <1>12, <1>13, <2>1
  <2>3. \A op \in Len(p) + 1 .. size :
            /\ q[op] \in [kind : Kinds, inputs : Seq(Nat)]
            /\ q[op].kind = "adapter" => q[op].inputs = <<>>
            /\ q[op].kind \in SingleKinds => Len(q[op].inputs) = 1
            /\ q[op].kind = "join" => Len(q[op].inputs) = 2
            /\ Range(q[op].inputs) \subseteq 1 .. op - 1
    BY ONLY <1>3, <1>14, <2>1
  <2>4. QED
    BY ONLY WellMade(p), <2>1, <2>2, <2>3, MoreMade
<1>16. QED
  BY <1>3, <1>10, <1>12, <1>15

(* What a query is made of, as found from its root.                        *)
QueryOf(root) ==
    [root |-> root,
     operators |-> Serialized(plan)[root],
     commit |-> CommitSearch(plan)[root].commit,
     redoStreams |-> RedoSearch(plan)[root][FALSE].streams,
     redoOperators |-> RedoSearch(plan)[root][FALSE].operators,
     leaves |-> RedoSearch(plan)[root][FALSE].leaves]

PlanInv ==
    /\ PlanOK
    /\ streams \in [StreamNames -> 0 .. Len(plan)]
    /\ Scheduled => \E root \in DOMAIN plan : query = QueryOf(root)

LEMMA DeclareKeeps ==
    ASSUME PlanInv, NEW name \in StreamNames, NEW operators, NEW root,
           WellMade(operators), Len(plan) <= Len(operators), root \in 0 .. Len(operators),
           Declare(name, operators, root)
    PROVE  PlanInv'
<1>1. plan' = operators /\ ~Scheduled'
  BY DEF Declare, Scheduled
<1>2. PlanOK'
  BY <1>1 DEF PlanOK
<1>3. streams' \in [StreamNames -> 0 .. Len(plan')]
  <2>1. Len(plan) \in Nat /\ Len(operators) \in Nat
    BY DEF PlanInv, PlanOK, WellMade
  <2>2. \A i \in 0 .. Len(plan) : i \in 0 .. Len(operators)
    BY <2>1
  <2>3. QED
    BY <1>1, <2>2 DEF PlanInv, Declare
<1>4. QED
  BY <1>1, <1>2, <1>3 DEF PlanInv

LEMMA SourceMade ==
    ASSUME PlanInv, NEW name \in StreamNames, streams[name] # NoOperator
    PROVE  streams[name] \in DOMAIN plan
<1>1. DOMAIN plan = 1 .. Len(plan) /\ Len(plan) \in Nat /\ streams[name] \in 0 .. Len(plan)
  BY PlanShape DEF PlanInv
<1>2. QED
  BY <1>1 DEF NoOperator

LEMMA PlanInduction == PlanInv /\ [Next]_vars => PlanInv'
<1> SUFFICES ASSUME PlanInv, [Next]_vars PROVE PlanInv'
  OBVIOUS
<1>1. WellMade(plan) /\ Len(plan) \in Nat /\ DOMAIN plan = 1 .. Len(plan)
  BY PlanShape DEF PlanInv, PlanOK
<1>2. ASSUME NEW name \in StreamNames, NewStream(name) PROVE PlanInv'
  <2>1. PICK operators : operators = Append(plan, Operator("adapter", <<>>))
    OBVIOUS
  <2>2. WellMade(operators) /\ Len(operators) = Len(plan) + 1
    <3>1. "adapter" \in Kinds /\ "adapter" \notin SingleKinds /\ <<>> \in Seq(DOMAIN plan)
      BY DEF Kinds, SingleKinds
    <3>2. QED
      BY <1>1, <2>1, <3>1, OneMade
  <2>3. Declare(name, operators, Len(operators))
    BY <1>2, <2>1 DEF NewStream
  <2>4. Len(plan) <= Len(operators) /\ Len(operators) \in 0 .. Len(operators)
    BY <1>1, <2>2
  <2>5. QED
    BY <2>2, <2>3, <2>4, DeclareKeeps
<1>3. ASSUME NEW name \in StreamNames, NEW source \in StreamNames, NEW operations \in Operations,
             DeriveSingle(name, source, operations)
      PROVE  PlanInv'
  <2>1. PICK operators, root :
            /\ operators = WithOperations(plan, streams[source], operations)
            /\ root = IF operations = <<>> THEN streams[source] ELSE Len(operators)
    OBVIOUS
  <2>2. streams[source] \in DOMAIN plan
    BY <1>3, SourceMade DEF DeriveSingle
  <2>3. operations \in Seq(SingleKinds) /\ Len(operations) \in Nat
    BY PlanAssumption
  <2>4. WellMade(operators) /\ Len(operators) = Len(plan) + Len(operations)
    BY <1>1, <2>1, <2>2, <2>3, OperationsMade
  <2>5. Declare(name, operators, root)
    BY <1>3, <2>1 DEF DeriveSingle
  <2>6. Len(plan) <= Len(operators) /\ root \in 0 .. Len(operators)
    BY <1>1, <2>1, <2>2, <2>3, <2>4
  <2>7. QED
    BY <2>4, <2>5, <2>6, DeclareKeeps
<1>4. ASSUME NEW name \in StreamNames, NEW left \in StreamNames, NEW right \in StreamNames,
             NEW operations \in Operations, DeriveJoined(name, left, right, operations)
      PROVE  PlanInv'
  <2>1. PICK joined, operators :
            /\ joined = Append(plan, Operator("join", <<streams[left], streams[right]>>))
            /\ operators = WithOperations(joined, Len(joined), operations)
    OBVIOUS
  <2>2. streams[left] \in DOMAIN plan /\ streams[right] \in DOMAIN plan
    BY <1>4, SourceMade DEF DeriveJoined
  <2>3. WellMade(joined) /\ Len(joined) = Len(plan) + 1
    <3>1. "join" \in Kinds /\ "join" \notin SingleKinds /\ "join" # "adapter"
      BY DEF Kinds, SingleKinds
    <3>2. PICK inputs : inputs = <<streams[left], streams[right]>>
      OBVIOUS
    <3>3. inputs \in Seq(DOMAIN plan) /\ Len(inputs) = 2
      BY <2>2, <3>2
    <3>4. QED
      BY <1>1, <2>1, <3>1, <3>2, <3>3, OneMade
  <2>4. operations \in Seq(SingleKinds) /\ Len(operations) \in Nat
    BY PlanAssumption
  <2>5. Len(joined) \in DOMAIN joined
    <3>1. DOMAIN joined = 1 .. Len(joined)
      BY <2>3 DEF WellMade
    <3>2. QED
      BY <1>1, <2>3, <3>1
  <2>6. WellMade(operators) /\ Len(operators) = Len(joined) + Len(operations)
    BY <2>1, <2>3, <2>4, <2>5, OperationsMade
  <2>7. Declare(name, operators, Len(operators))
    BY <1>4, <2>1 DEF DeriveJoined
  <2>8. Len(plan) <= Len(operators) /\ Len(operators) \in 0 .. Len(operators)
    BY <1>1, <2>3, <2>4, <2>6
  <2>9. QED
    BY <2>6, <2>7, <2>8, DeclareKeeps
<1>5. ASSUME NEW name \in StreamNames, Schedule(name) PROVE PlanInv'
  <2>1. PICK root : root = streams[name]
    OBVIOUS
  <2>2. root \in DOMAIN plan /\ plan' = plan /\ streams' = streams /\ query' = QueryOf(root)
    BY <1>5, <2>1, SourceMade DEF Schedule, QueryOf
  <2>3. query' = QueryOf(root)'
    BY <2>2 DEF QueryOf
  <2>4. QED
    BY <2>2, <2>3 DEF PlanInv, PlanOK
<1>6. CASE UNCHANGED vars
  <2>1. plan' = plan /\ streams' = streams /\ query' = query /\ (Scheduled' <=> Scheduled)
    BY <1>6 DEF vars, Scheduled
  <2>2. \A root : QueryOf(root)' = QueryOf(root)
    BY <2>1 DEF QueryOf
  <2>3. QED
    BY <2>1, <2>2 DEF PlanInv, PlanOK
<1>7. QED
  BY <1>2, <1>3, <1>4, <1>5, <1>6 DEF Next

LEMMA PlanInitially == Init => PlanInv
<1> SUFFICES ASSUME Init PROVE PlanInv
  OBVIOUS
<1>1. plan = <<>> /\ ~Scheduled
  BY DEF Init, Scheduled
<1>2. PlanOK
  BY <1>1 DEF PlanOK, WellMade
<1>3. streams \in [StreamNames -> 0 .. Len(plan)]
  BY <1>1 DEF Init, NoOperator
<1>4. QED
  BY <1>1, <1>2, <1>3 DEF PlanInv

(* However statements follow each other, the operators they make are well  *)
(* made, and a query is what the walks find from its root (cpl.h).         *)
THEOREM PlansAreMade == Spec => []PlanInv
BY PlanInitially, PlanInduction, PTL DEF Spec

-----------------------------------------------------------------------------
(* What a query is                                                         *)

LEMMA QueryParts ==
    ASSUME PlanInv, Scheduled
    PROVE  /\ query.root \in DOMAIN plan /\ PlanOK
           /\ query.operators = Serialized(plan)[query.root]
           /\ query.commit = CommitSearch(plan)[query.root].commit
           /\ query.redoStreams = RedoSearch(plan)[query.root][FALSE].streams
           /\ query.redoOperators = RedoSearch(plan)[query.root][FALSE].operators
           /\ query.leaves = RedoSearch(plan)[query.root][FALSE].leaves
<1>1. PICK root \in DOMAIN plan : query = QueryOf(root)
  BY DEF PlanInv
<1>2. /\ query.root = root
      /\ query.operators = Serialized(plan)[root]
      /\ query.commit = CommitSearch(plan)[root].commit
      /\ query.redoStreams = RedoSearch(plan)[root][FALSE].streams
      /\ query.redoOperators = RedoSearch(plan)[root][FALSE].operators
      /\ query.leaves = RedoSearch(plan)[root][FALSE].leaves
  BY <1>1 DEF QueryOf
<1>3. QED
  BY <1>1, <1>2 DEF PlanInv

LEMMA OnRelationsIsArea ==
    ASSUME NEW op
    PROVE  OnRelations(Upstream, op) = Area(op)
BY DEF OnRelations, Area, Dependent, UpTo

LEMMA CommitsLast == PlanInv => CommitIsLast
<1> SUFFICES ASSUME PlanInv, Scheduled
             PROVE  LET upstream == Upstream
                        windowed == {op \in OnRelations(upstream, query.root) :
                                         plan[op].kind \in WindowKinds}
                    IN  /\ query.commit = NoOperator <=> windowed = {}
                        /\ query.commit # NoOperator =>
                               /\ query.commit \in windowed
                               /\ windowed \subseteq {query.commit} \cup upstream[query.commit]
  BY DEF CommitIsLast
<1>1. Commits(query.commit, query.root)
  BY QueryParts, AllFound DEF FoundOf
<1>2. {op \in OnRelations(Upstream, query.root) : plan[op].kind \in WindowKinds}
      = WindowsUpTo(query.root)
  BY OnRelationsIsArea DEF WindowsUpTo, Area
<1>3. QED
  BY <1>1, <1>2 DEF Commits, UpTo

LEMMA QueryRedo ==
    ASSUME PlanInv, Scheduled
    PROVE  /\ query.commit = NoOperator =>
                  Range(query.redoOperators) = {} /\ Range(query.redoStreams) = {} /\ query.leaves = {}
           /\ query.commit # NoOperator =>
                  /\ query.commit \in DOMAIN plan
                  /\ Range(query.redoOperators) = Area(query.commit)
                  /\ Range(query.redoStreams) = AsideUpTo(query.commit)
                  /\ query.leaves = LeavesUpTo(query.commit)
<1>1. RedoUpToCommit(RedoSearch(plan)[query.root][FALSE], query.commit)
  BY QueryParts, ResetUpToCommit
<1>2. query.commit # NoOperator => query.commit \in DOMAIN plan
  <2>1. query.commit # NoOperator => query.commit \in UpTo(query.root)
    BY QueryParts, AllFound DEF FoundOf, Commits, WindowsUpTo
  <2>2. DOMAIN plan = 1 .. Len(plan) /\ Len(plan) \in Nat /\ query.root \in DOMAIN plan
    BY QueryParts, PlanShape
  <2>3. UpTo(query.root) \subseteq 1 .. query.root
    BY QueryParts, UpToEarlier
  <2>4. QED
    BY <2>1, <2>2, <2>3
<1>3. QED
  BY <1>1, <1>2, QueryParts DEF RedoUpToCommit, Redo

LEMMA AreaIsTransaction == PlanInv => RedoAreaIsTransaction
<1> SUFFICES ASSUME PlanInv, Scheduled
             PROVE  Range(query.redoOperators) =
                        IF query.commit = NoOperator THEN {} ELSE OnRelations(Upstream, query.commit)
  BY DEF RedoAreaIsTransaction
<1>1. QED
  BY QueryRedo, OnRelationsIsArea

LEMMA StreamsEnterArea == PlanInv => RedoStreamsEnterArea
<1> SUFFICES ASSUME PlanInv, Scheduled
             PROVE  LET area == Range(query.redoOperators)
                        entering == (UNION {Inputs(op) : op \in area}) \ area
                    IN  /\ Range(query.redoStreams) = entering
                        /\ query.leaves = {op \in Combines(area) : Inputs(op) \subseteq entering}
  BY DEF RedoStreamsEnterArea
<1>1. PICK area : area = Range(query.redoOperators)
  OBVIOUS
<1>2. /\ Range(query.redoStreams) = Entering(area)
      /\ query.leaves = {op \in Combines(area) : Inputs(op) \subseteq Entering(area)}
  <2>1. CASE query.commit = NoOperator
    <3>1. area = {} /\ Range(query.redoStreams) = {} /\ query.leaves = {}
      BY <1>1, <2>1, QueryRedo
    <3>2. QED
      BY <3>1 DEF Entering, Combines
  <2>2. CASE query.commit # NoOperator
    <3>1. /\ query.commit \in DOMAIN plan /\ area = Area(query.commit) /\ PlanOK
          /\ Range(query.redoStreams) = AsideUpTo(query.commit)
          /\ query.leaves = LeavesUpTo(query.commit)
      BY <1>1, <2>2, QueryRedo, QueryParts
    <3>2. QED
      BY <3>1, AreaEnters
  <2>3. QED
    BY <2>1, <2>2
<1>3. QED
  BY <1>1, <1>2 DEF Entering

LEMMA TurnsInOrder == PlanInv => TurnsFollowInputs
<1> SUFFICES ASSUME PlanInv, Scheduled
             PROVE  /\ Range(query.operators) = {query.root} \cup Upstream[query.root]
                    /\ \A i \in DOMAIN query.operators : \A input \in Inputs(query.operators[i]) :
                           \E j \in 1..(i - 1) : query.operators[j] = input
  BY DEF TurnsFollowInputs
<1>1. Visited(query.operators, query.root)
  BY QueryParts, AllVisited
<1>2. QED
  BY <1>1 DEF Visited, InTurn, UpTo

(* A window that depends on a relation is upstream of the commit operator, *)
(* or is the commit operator, whatever the plan (commit-operator-finder.h).*)
THEOREM CommitOperatorIsLast == Spec => []CommitIsLast
BY PlansAreMade, CommitsLast, PTL

(* A redo resets the transaction and no more, whatever the plan            *)
(* (redo-area.h).                                                          *)
THEOREM RedoResetsTransaction == Spec => []RedoAreaIsTransaction
BY PlansAreMade, AreaIsTransaction, PTL

(* What is backed up is what enters the redo area, and the leaves are the  *)
(* combines that read a backup, whatever the plan (redo-area.h).           *)
THEOREM BackupsEnterRedoArea == Spec => []RedoStreamsEnterArea
BY PlansAreMade, StreamsEnterArea, PTL

(* An operator has its turn after its inputs, whatever the plan            *)
(* (operator-visitor-serializer.h).                                        *)
THEOREM InputsHaveTurnsFirst == Spec => []TurnsFollowInputs
BY PlansAreMade, TurnsInOrder, PTL
-----------------------------------------------------------------------------
(* Schemas.  The index has the last attribute of each name.                *)

AttributeRecords == [name : STRING, type : ObjectTypes]

SchemaOK(schema) ==
    /\ schema = [attributes |-> schema.attributes, index |-> schema.index, frozen |-> schema.frozen]
    /\ schema.attributes \in Seq(AttributeRecords)
    /\ DOMAIN schema.index = {schema.attributes[k].name : k \in DOMAIN schema.attributes}
    /\ \A k \in DOMAIN schema.attributes :
           LET last == schema.index[schema.attributes[k].name]
           IN  /\ last \in k .. Len(schema.attributes)
               /\ schema.attributes[last].name = schema.attributes[k].name

LEMMA NewSchemaOK == SchemaOK(NewSchema)
BY DEF NewSchema, SchemaOK

(* Any schema with an index like this has the same.                        *)
LEMMA IndexIsLast ==
    ASSUME NEW schema, SchemaOK(schema), NEW k \in DOMAIN schema.attributes,
           \A l \in DOMAIN schema.attributes :
               schema.attributes[l].name = schema.attributes[k].name => l <= k
    PROVE  schema.index[schema.attributes[k].name] = k
<1>1. PICK attributes, index : attributes = schema.attributes /\ index = schema.index
  OBVIOUS
<1>2. attributes \in Seq(AttributeRecords) /\ k \in DOMAIN attributes
  BY <1>1 DEF SchemaOK
<1>3. DOMAIN attributes = 1 .. Len(attributes) /\ Len(attributes) \in Nat
  BY <1>2
<1>4. PICK last : /\ last = index[attributes[k].name] /\ last \in k .. Len(attributes)
                  /\ attributes[last].name = attributes[k].name
  BY <1>1 DEF SchemaOK
<1>5. last \in DOMAIN attributes /\ last <= k
  BY <1>1, <1>2, <1>3, <1>4
<1>6. QED
  BY <1>1, <1>2, <1>3, <1>4, <1>5

LEMMA AttributeAdded ==
    ASSUME NEW schema, SchemaOK(schema), ~schema.frozen, NEW attribute \in AttributeRecords,
           NEW added, added = AddAttribute(schema, attribute)
    PROVE  /\ SchemaOK(added) /\ ~added.frozen
           /\ added.attributes = Append(schema.attributes, attribute)
<1>1. PICK attributes, index, name :
          attributes = schema.attributes /\ index = schema.index /\ name = attribute.name
  OBVIOUS
<1>2. /\ schema = [attributes |-> attributes, index |-> index, frozen |-> schema.frozen]
      /\ attributes \in Seq(AttributeRecords)
      /\ DOMAIN index = {attributes[k].name : k \in DOMAIN attributes}
      /\ \A k \in DOMAIN attributes :
             /\ index[attributes[k].name] \in k .. Len(attributes)
             /\ attributes[index[attributes[k].name]].name = attributes[k].name
  BY <1>1 DEF SchemaOK
<1>3. PICK more, last : /\ more = Append(attributes, attribute)
                        /\ last = [n \in {name} \cup DOMAIN index |->
                                      IF n = name THEN Len(attributes) + 1 ELSE index[n]]
  OBVIOUS
<1>4. added = [attributes |-> more, index |-> last, frozen |-> schema.frozen]
  BY <1>1, <1>2, <1>3 DEF AddAttribute
<1>5. added.attributes = more /\ added.index = last /\ added.frozen = schema.frozen
  BY ONLY <1>4
<1>6. /\ more \in Seq(AttributeRecords) /\ Len(more) = Len(attributes) + 1 /\ Len(attributes) \in Nat
      /\ DOMAIN attributes = 1 .. Len(attributes) /\ DOMAIN more = 1 .. Len(attributes) + 1
      /\ more[Len(attributes) + 1] = attribute
      /\ \A k \in DOMAIN attributes : more[k] = attributes[k]
  BY <1>2, <1>3
<1>7. DOMAIN last = {more[k].name : k \in DOMAIN more}
  <2>1. DOMAIN last = {name} \cup DOMAIN index
    BY <1>3
  <2>2. \A k \in DOMAIN more : k \in DOMAIN attributes \/ k = Len(attributes) + 1
    BY <1>6
  <2>3. Len(attributes) + 1 \in DOMAIN more /\ DOMAIN attributes \subseteq DOMAIN more
    BY <1>6
  <2>4. more[Len(attributes) + 1].name = name /\ \A k \in DOMAIN attributes : more[k].name = attributes[k].name
    BY <1>1, <1>6
  <2>5. DOMAIN index = {attributes[k].name : k \in DOMAIN attributes}
    BY <1>2
  <2>6. PICK size : size = Len(attributes) + 1
    OBVIOUS
  <2>7. QED
    BY ONLY <2>1, <2>2, <2>3, <2>4, <2>5, <2>6
<1>8. ASSUME NEW k \in DOMAIN more
      PROVE  /\ last[more[k].name] \in k .. Len(more)
             /\ more[last[more[k].name]].name = more[k].name
  <2>1. more[k].name \in DOMAIN last
    BY <1>7
  <2>2. CASE more[k].name = name
    <3>1. last[more[k].name] = Len(attributes) + 1
      BY <1>3, <2>1, <2>2
    <3>2. QED
      BY <1>1, <1>6, <2>2, <3>1
  <2>3. CASE more[k].name # name
    <3>1. k \in DOMAIN attributes
      BY <1>1, <1>6, <2>3
    <3>2. last[more[k].name] = index[attributes[k].name]
      BY <1>3, <1>6, <2>1, <2>3, <3>1
    <3>3. PICK p : p = index[attributes[k].name] /\ p \in k .. Len(attributes)
                   /\ attributes[p].name = attributes[k].name
      BY <1>2, <3>1
    <3>4. p \in DOMAIN attributes /\ p \in k .. Len(more)
      BY <1>6, <3>1, <3>3
    <3>5. QED
      BY <1>6, <3>1, <3>2, <3>3, <3>4
  <2>4. QED
    BY <2>2, <2>3
<1>9. SchemaOK(added)
  BY <1>4, <1>5, <1>6, <1>7, <1>8 DEF SchemaOK
<1>10. QED
  BY <1>1, <1>3, <1>5, <1>9

(* The attributes are added one by one, which is a recursive function of   *)
(* their number.                                                           *)
LEMMA AddedOneByOne ==
    ASSUME NEW schema, NEW attributes \in Seq(AttributeRecords)
    PROVE  \E added : /\ added = [n \in 0 .. Len(attributes) |->
                                     IF n = 0 THEN schema ELSE AddAttribute(added[n - 1], attributes[n])]
                      /\ AddAttributes(schema, attributes) = added[Len(attributes)]
<1> DEFINE len == Len(attributes)
           OneMore(f, n) == IF n = 0 THEN schema ELSE AddAttribute(f[n - 1], attributes[n])
           S == {m \in 0 .. len : \E f : f = [n \in 0 .. m |-> OneMore(f, n)]}
<1>1. len \in Nat
  OBVIOUS
<1>2. 0 \in S
  <2>1. PICK f : f = [n \in 0 .. 0 |-> schema]
    OBVIOUS
  <2>2. f = [n \in 0 .. 0 |-> OneMore(f, n)]
    BY <2>1
  <2> HIDE DEF OneMore, len
  <2>3. QED
    BY <1>1, <2>2
<1>3. ASSUME NEW m \in 0 .. len - 1, m \in S PROVE m + 1 \in S
  <2>1. PICK f : f = [n \in 0 .. m |-> OneMore(f, n)]
    BY <1>3
  <2>2. PICK g : g = [n \in 0 .. m + 1 |-> OneMore(f, n)]
    OBVIOUS
  <2>3. ASSUME NEW n \in 0 .. m + 1 PROVE OneMore(f, n) = OneMore(g, n)
    <3>1. n = 0 \/ (n - 1 \in 0 .. m /\ n - 1 \in 0 .. m + 1)
      BY <1>1, <1>3
    <3>2. n = 0 \/ f[n - 1] = g[n - 1]
      <4> HIDE DEF OneMore
      <4>1. QED
        BY <2>1, <2>2, <3>1
    <3>3. QED
      BY <3>2
  <2> HIDE DEF OneMore
  <2>4. g = [n \in 0 .. m + 1 |-> OneMore(g, n)]
    BY <2>2, <2>3
  <2>5. m + 1 \in 0 .. len
    BY <1>1
  <2>6. QED
    BY <2>4, <2>5
<1>4. len \in S
  <2> HIDE DEF S, len
  <2>1. QED
    BY <1>1, <1>2, <1>3, StepByStep
<1>5. \E f : f = [n \in 0 .. len |-> OneMore(f, n)]
  <2> HIDE DEF OneMore, len
  <2>1. QED
    BY <1>4
<1>6. PICK added : added = CHOOSE f : f = [n \in 0 .. len |-> OneMore(f, n)]
  OBVIOUS
<1>7. added = [n \in 0 .. len |-> OneMore(added, n)]
  <2> HIDE DEF OneMore, len
  <2>1. QED
    BY <1>5, <1>6
<1>8. AddAttributes(schema, attributes) = added[len]
  BY <1>6 DEF AddAttributes
<1>9. QED
  BY <1>7, <1>8

LEMMA OneTakenMore ==
    ASSUME NEW S, NEW seq \in Seq(S), NEW next \in Seq(S), NEW m \in 0 .. Len(next) - 1
    PROVE  Append(seq \o SubSeq(next, 1, m), next[m + 1]) = seq \o SubSeq(next, 1, m + 1)
<1>1. PICK taken, more : taken = SubSeq(next, 1, m) /\ more = SubSeq(next, 1, m + 1)
  OBVIOUS
<1>2. /\ taken \in Seq(S) /\ Len(taken) = m /\ \A k \in 1 .. m : taken[k] = next[k]
      /\ more \in Seq(S) /\ Len(more) = m + 1 /\ \A k \in 1 .. m + 1 : more[k] = next[k]
      /\ m \in Nat /\ next[m + 1] \in S
  BY <1>1
<1>3. PICK left, right : left = Append(seq \o taken, next[m + 1]) /\ right = seq \o more
  OBVIOUS
<1>4. left \in Seq(S) /\ right \in Seq(S)
  <2>1. seq \o taken \in Seq(S) /\ seq \o more \in Seq(S)
    BY <1>2
  <2>2. PICK both, e : both = seq \o taken /\ e = next[m + 1] /\ both \in Seq(S) /\ e \in S
    BY <1>2, <2>1
  <2>3. Append(both, e) \in Seq(S)
    BY ONLY <2>2
  <2>4. QED
    BY <1>3, <2>1, <2>2, <2>3
<1>5. Len(left) = Len(seq) + m + 1 /\ Len(right) = Len(seq) + m + 1 /\ Len(seq) \in Nat
  <2>1. seq \o taken \in Seq(S) /\ Len(seq \o taken) = Len(seq) + m /\ Len(seq) \in Nat
    BY <1>2
  <2>2. Len(left) = Len(seq \o taken) + 1
    <3>1. PICK both, e : both = seq \o taken /\ e = next[m + 1] /\ both \in Seq(S) /\ e \in S
      BY <1>2, <2>1
    <3>2. Len(Append(both, e)) = Len(both) + 1
      BY ONLY <3>1, AppendProperties
    <3>3. QED
      BY <1>3, <3>1, <3>2
  <2>3. Len(right) = Len(seq) + (m + 1)
    <3>1. more \in Seq(S) /\ Len(more) = m + 1
      BY <1>2
    <3>2. Len(seq \o more) = Len(seq) + Len(more)
      BY ONLY <3>1, seq \in Seq(S), ConcatProperties
    <3>3. QED
      BY ONLY <1>3, <3>1, <3>2
  <2>4. QED
    BY <1>2, <2>1, <2>2, <2>3
<1>6. ASSUME NEW k \in 1 .. Len(left) PROVE left[k] = right[k]
  <2>1. k \in 1 .. Len(seq) \/ (k > Len(seq) /\ k - Len(seq) \in 1 .. m) \/ k = Len(seq) + m + 1
    <3>1. PICK n : n = Len(seq) /\ n \in Nat
      BY <1>5
    <3>2. k \in 1 .. n + m + 1 /\ m \in Nat
      BY <1>2, <1>5, <3>1
    <3>3. k \in 1 .. n \/ (k > n /\ k - n \in 1 .. m) \/ k = n + m + 1
      BY ONLY <3>1, <3>2
    <3>4. QED
      BY <3>1, <3>3
  <2>2. right[k] = IF k <= Len(seq) THEN seq[k] ELSE next[k - Len(seq)]
    BY <1>2, <1>3, <1>5
  <2>3. left[k] = IF k <= Len(seq) THEN seq[k] ELSE IF k <= Len(seq) + m THEN taken[k - Len(seq)]
                  ELSE next[m + 1]
    BY <1>2, <1>3, <1>5
  <2>4. QED
    BY <1>2, <1>5, <2>1, <2>2, <2>3
<1>7. left = right
  BY <1>4, <1>5, <1>6, SeqEqual
<1>8. QED
  BY <1>1, <1>3, <1>7

LEMMA AttributesAdded ==
    ASSUME NEW schema, SchemaOK(schema), ~schema.frozen, NEW attributes \in Seq(AttributeRecords)
    PROVE  /\ SchemaOK(AddAttributes(schema, attributes)) /\ ~AddAttributes(schema, attributes).frozen
           /\ AddAttributes(schema, attributes).attributes = schema.attributes \o attributes
<1>1. PICK added, len : /\ len = Len(attributes)
                        /\ added = [n \in 0 .. len |->
                               IF n = 0 THEN schema ELSE AddAttribute(added[n - 1], attributes[n])]
                        /\ AddAttributes(schema, attributes) = added[len]
  BY AddedOneByOne
<1> DEFINE S == {n \in 0 .. len : /\ SchemaOK(added[n]) /\ ~added[n].frozen
                                  /\ added[n].attributes = schema.attributes \o SubSeq(attributes, 1, n)}
<1>2. len \in Nat
  BY <1>1
<1>3. schema.attributes \in Seq(AttributeRecords)
  BY DEF SchemaOK
<1>4. 0 \in S
  <2>1. added[0] = schema /\ 0 \in 0 .. len
    BY <1>1, <1>2
  <2>2. schema.attributes = schema.attributes \o SubSeq(attributes, 1, 0)
    BY <1>3
  <2>3. QED
    BY <2>1, <2>2
<1>5. ASSUME NEW m \in 0 .. len - 1, m \in S PROVE m + 1 \in S
  <2>1. m + 1 \in 0 .. len /\ m + 1 # 0 /\ (m + 1) - 1 = m /\ m + 1 \in 1 .. len
    BY <1>2
  <2>2. added[m + 1] = AddAttribute(added[m], attributes[m + 1])
    <3>1. added[m + 1] = IF m + 1 = 0 THEN schema ELSE AddAttribute(added[(m + 1) - 1], attributes[m + 1])
      BY <1>1, <2>1
    <3>2. QED
      BY <2>1, <3>1
  <2>3. attributes[m + 1] \in AttributeRecords
    BY <1>1, <2>1
  <2>4. /\ SchemaOK(added[m]) /\ ~added[m].frozen
        /\ added[m].attributes = schema.attributes \o SubSeq(attributes, 1, m)
    BY <1>5
  <2>5. /\ SchemaOK(added[m + 1]) /\ ~added[m + 1].frozen
        /\ added[m + 1].attributes = Append(added[m].attributes, attributes[m + 1])
    BY <2>2, <2>3, <2>4, AttributeAdded
  <2>6. Append(schema.attributes \o SubSeq(attributes, 1, m), attributes[m + 1])
            = schema.attributes \o SubSeq(attributes, 1, m + 1)
    BY <1>1, <1>3, OneTakenMore
  <2>7. QED
    BY <2>1, <2>4, <2>5, <2>6
<1>6. len \in S
  <2> HIDE DEF S
  <2>1. QED
    BY <1>2, <1>4, <1>5, StepByStep
<1>7. SubSeq(attributes, 1, len) = attributes
  BY <1>1
<1>8. QED
  BY <1>1, <1>6, <1>7

LEMMA SchemaOfAttributes ==
    ASSUME NEW attributes \in Seq(AttributeRecords)
    PROVE  SchemaOK(FromAttributes(attributes)) /\ FromAttributes(attributes).attributes = attributes
<1>1. PICK open : open = AddAttributes(NewSchema, attributes)
  OBVIOUS
<1>2. ~NewSchema.frozen /\ NewSchema.attributes = <<>>
  BY DEF NewSchema
<1>3. SchemaOK(open) /\ open.attributes = <<>> \o attributes
  BY <1>1, <1>2, NewSchemaOK, AttributesAdded
<1>4. PICK given, index : given = open.attributes /\ index = open.index
  OBVIOUS
<1>5. PICK frozen : open = [attributes |-> given, index |-> index, frozen |-> frozen]
  BY <1>3, <1>4 DEF SchemaOK
<1>6. Freeze(open) = [attributes |-> given, index |-> index, frozen |-> TRUE]
  <2>1. Freeze(open) = [open EXCEPT !.frozen = TRUE]
    BY DEF Freeze
  <2>2. DOMAIN open = {"attributes", "index", "frozen"}
    BY ONLY <1>5
  <2>3. QED
    BY ONLY <1>5, <2>1, <2>2
<1>7. PICK closed : closed = Freeze(open)
  OBVIOUS
<1>8. closed.attributes = given /\ closed.index = index /\ closed.frozen = TRUE
  BY <1>6, <1>7
<1>9. SchemaOK(closed)
  BY <1>3, <1>4, <1>6, <1>7, <1>8 DEF SchemaOK
<1>10. <<>> \o attributes = attributes
  OBVIOUS
<1>11. QED
  BY <1>1, <1>3, <1>4, <1>7, <1>8, <1>9, <1>10 DEF FromAttributes

LEMMA SchemaOfPair ==
    ASSUME NEW left, SchemaOK(left), NEW right, SchemaOK(right)
    PROVE  /\ SchemaOK(ConcatSchemas(left, right))
           /\ ConcatSchemas(left, right).attributes = left.attributes \o right.attributes
<1>1. left.attributes \in Seq(AttributeRecords) /\ right.attributes \in Seq(AttributeRecords)
  BY DEF SchemaOK
<1>2. PICK half : half = AddAttributes(NewSchema, left.attributes)
  OBVIOUS
<1>3. ~NewSchema.frozen /\ NewSchema.attributes = <<>>
  BY DEF NewSchema
<1>4. SchemaOK(half) /\ ~half.frozen /\ half.attributes = <<>> \o left.attributes
  BY <1>1, <1>2, <1>3, NewSchemaOK, AttributesAdded
<1>5. <<>> \o left.attributes = left.attributes
  BY <1>1
<1>6. PICK pair : pair = AddAttributes(half, right.attributes)
  OBVIOUS
<1>7. SchemaOK(pair) /\ pair.attributes = half.attributes \o right.attributes
  BY <1>1, <1>4, <1>6, AttributesAdded
<1>8. ConcatSchemas(left, right) = pair
  BY <1>2, <1>6 DEF ConcatSchemas
<1>9. QED
  BY <1>4, <1>5, <1>7, <1>8
-----------------------------------------------------------------------------
(* The elements of sequences *)

IsSequence(seq) == seq \in Seq(ToSet(seq))

LEMMA SequenceOf ==
    ASSUME NEW S, NEW seq \in Seq(S)
    PROVE  IsSequence(seq) /\ ToSet(seq) \subseteq S
<1>1. DOMAIN seq = 1 .. Len(seq) /\ Len(seq) \in Nat /\ \A k \in 1 .. Len(seq) : seq[k] \in S
  OBVIOUS
<1>2. \A k \in 1 .. Len(seq) : seq[k] \in ToSet(seq)
  BY <1>1 DEF ToSet
<1>3. seq = [k \in 1 .. Len(seq) |-> seq[k]]
  OBVIOUS
<1>4. seq \in [1 .. Len(seq) -> ToSet(seq)]
  BY <1>2, <1>3
<1>5. seq \in Seq(ToSet(seq))
  BY <1>1, <1>4
<1>6. QED
  BY <1>1, <1>5 DEF IsSequence, ToSet

LEMMA EmptyElements == IsSequence(<<>>) /\ ToSet(<<>>) = {}
BY DEF IsSequence, ToSet

LEMMA SingleElement ==
    ASSUME NEW e PROVE IsSequence(<<e>>) /\ ToSet(<<e>>) = {e}
<1>1. <<e>> \in Seq({e}) /\ DOMAIN <<e>> = {1} /\ <<e>>[1] = e
  OBVIOUS
<1>2. ToSet(<<e>>) = {e}
  BY <1>1 DEF ToSet
<1>3. QED
  BY <1>1, <1>2 DEF IsSequence

LEMMA JoinedElements ==
    ASSUME NEW left, IsSequence(left), NEW right, IsSequence(right)
    PROVE  IsSequence(left \o right) /\ ToSet(left \o right) \subseteq ToSet(left) \cup ToSet(right)
<1>1. PICK S : S = ToSet(left) \cup ToSet(right)
  OBVIOUS
<1>2. left \in Seq(ToSet(left)) /\ right \in Seq(ToSet(right))
  BY DEF IsSequence
<1>3. left \in Seq(S) /\ right \in Seq(S)
  BY <1>1, <1>2
<1>4. left \o right \in Seq(S)
  BY <1>3
<1>5. QED
  BY <1>1, <1>4, SequenceOf

LEMMA AppendedElements ==
    ASSUME NEW seq, IsSequence(seq), NEW e
    PROVE  IsSequence(Append(seq, e)) /\ ToSet(Append(seq, e)) \subseteq ToSet(seq) \cup {e}
<1>1. PICK S : S = ToSet(seq) \cup {e}
  OBVIOUS
<1>2. seq \in Seq(ToSet(seq))
  BY DEF IsSequence
<1>3. seq \in Seq(S) /\ e \in S
  BY <1>1, <1>2
<1>4. Append(seq, e) \in Seq(S)
  BY <1>3
<1>5. QED
  BY <1>1, <1>4, SequenceOf

LEMMA RestOfElements ==
    ASSUME NEW seq, IsSequence(seq), seq # <<>>
    PROVE  Head(seq) \in ToSet(seq) /\ IsSequence(Tail(seq)) /\ ToSet(Tail(seq)) \subseteq ToSet(seq)
<1>1. PICK S : S = ToSet(seq)
  OBVIOUS
<1>2. seq \in Seq(S)
  BY <1>1 DEF IsSequence
<1>3. Head(seq) \in S /\ Tail(seq) \in Seq(S)
  BY <1>2
<1>4. QED
  BY <1>1, <1>3, SequenceOf
-----------------------------------------------------------------------------
(* The invariant: what each operator makes of the schema it reads, and     *)
(* that the tuples of each stream are of its schema                        *)

RowOK(tuple, schema) ==
    /\ ~tuple.null /\ tuple.schema = schema
    /\ IsSequence(tuple.data) /\ ValidData(schema, tuple.data)

OperatorOK(operator, input) ==
    \/ operator.kind \in {"select", "elect"} /\ operator.schema = input
    \/ /\ operator.kind = "project"
       /\ DOMAIN operator.positions = DOMAIN operator.schema.attributes
       /\ \A k \in DOMAIN operator.positions :
              /\ operator.positions[k] \in DOMAIN input.attributes
              /\ operator.schema.attributes[k] = input.attributes[operator.positions[k]]
              /\ operator.positions[k] = input.index[operator.schema.attributes[k].name]
    \/ /\ operator.kind = "combine" /\ relation # <<>>
       /\ operator.schema = ConcatSchemas(input, relation[1].schema)
    \/ operator.kind = "mean" /\ operator.schema.attributes = <<Attribute(operator.name, "FLOAT")>>

ChainOK ==
    /\ IsSequence(chain)
    /\ chain # <<>> => chain[1].kind = "adapter"
    /\ \A n \in DOMAIN chain : SchemaOK(chain[n].schema)
    /\ \A n \in 2 .. Len(chain) : OperatorOK(chain[n], chain[n - 1].schema)

RelationOK ==
    relation # <<>> =>
        /\ relation = <<[schema |-> relation[1].schema, rows |-> relation[1].rows]>>
        /\ SchemaOK(relation[1].schema) /\ IsSequence(relation[1].rows)
        /\ \A row \in ToSet(relation[1].rows) : RowOK(row, relation[1].schema)

Flows == stage \in {"running", "failed"}

(* The schema of stream n *)
SchemaAt(n) == IF n = 0 THEN chain[1].schema ELSE chain[n].schema

QueuesOK ==
    Flows =>
        /\ chain # <<>> /\ queues = [n \in 0 .. Len(chain) |-> queues[n]]
        /\ \A n \in 0 .. Len(chain) :
               IsSequence(queues[n]) /\ \A tuple \in ToSet(queues[n]) : RowOK(tuple, SchemaAt(n))

RowInv == ChainOK /\ RelationOK /\ QueuesOK

LEMMA ChainShape ==
    ASSUME ChainOK
    PROVE  Len(chain) \in Nat /\ DOMAIN chain = 1 .. Len(chain) /\ (chain # <<>> => Len(chain) >= 1)
BY DEF ChainOK, IsSequence

(* What is made of data that fit a schema is a row of it. *)
LEMMA RowCreated ==
    ASSUME NEW schema, NEW data, NEW arrived, IsSequence(data), ValidData(schema, data),
           NEW row, row = CreateTuple(schema, data, arrived)
    PROVE  RowOK(row, schema) /\ row.data = data /\ row.arrived = arrived
<1>1. row = [schema |-> schema, data |-> data, arrived |-> arrived, null |-> FALSE]
  BY DEF CreateTuple
<1>2. row.schema = schema /\ row.data = data /\ row.arrived = arrived /\ row.null = FALSE
  BY ONLY <1>1
<1>3. QED
  BY <1>2 DEF RowOK

LEMMA DataFit ==
    ASSUME NEW schema, SchemaOK(schema), NEW data \in DataOf(schema)
    PROVE  IsSequence(data) /\ ValidData(schema, data)
<1>1. PICK S : data \in [DOMAIN schema.attributes -> S] /\ ValidData(schema, data)
  BY DEF DataOf
<1>2. DOMAIN schema.attributes = 1 .. Len(schema.attributes) /\ Len(schema.attributes) \in Nat
  BY DEF SchemaOK
<1>3. data \in Seq(S)
  BY <1>1, <1>2
<1>4. QED
  BY <1>1, <1>3, SequenceOf
-----------------------------------------------------------------------------
(* What operators output *)

LEMMA PassedTuples ==
    ASSUME NEW tuples PROVE Passed(tuples).out = tuples /\ Throws.out = <<>>
BY DEF Passed, Throws

LEMMA SelectOutput ==
    ASSUME NEW operator, NEW tuple
    PROVE  SelectFrom(operator, tuple).out \in {<<>>, <<tuple>>}
BY PassedTuples DEF SelectFrom

LEMMA ProjectOutput ==
    ASSUME NEW input, NEW operator, operator.kind = "project",
           SchemaOK(operator.schema), OperatorOK(operator, input),
           NEW tuple, RowOK(tuple, input)
    PROVE  \E row : /\ ProjectFrom(operator, tuple).out = <<row>>
                    /\ RowOK(row, operator.schema) /\ row.arrived = tuple.arrived
                    /\ \A k \in DOMAIN operator.positions : row.data[k] = tuple.data[operator.positions[k]]
<1>1. PICK positions, attributes, data, schema :
          /\ positions = operator.positions /\ schema = operator.schema
          /\ attributes = operator.schema.attributes
          /\ data = [k \in DOMAIN positions |-> ValueAt(tuple, positions[k])]
  OBVIOUS
<1>2. /\ DOMAIN positions = DOMAIN attributes
      /\ \A k \in DOMAIN positions : /\ positions[k] \in DOMAIN input.attributes
                                     /\ attributes[k] = input.attributes[positions[k]]
  BY <1>1 DEF OperatorOK
<1>3. DOMAIN attributes = 1 .. Len(attributes) /\ Len(attributes) \in Nat
  BY <1>1 DEF SchemaOK
<1>4. /\ DOMAIN tuple.data = 1 .. Len(tuple.data) /\ Len(tuple.data) = Len(input.attributes)
      /\ \A k \in DOMAIN tuple.data : tuple.data[k].type = input.attributes[k].type
  BY DEF RowOK, IsSequence, ValidData
<1>5. ASSUME NEW k \in DOMAIN positions
      PROVE  data[k] = tuple.data[positions[k]] /\ data[k].type = attributes[k].type
  <2>1. positions[k] \in DOMAIN input.attributes /\ attributes[k] = input.attributes[positions[k]]
    BY <1>2
  <2>2. positions[k] \in DOMAIN tuple.data
    <3>1. \A p \in DOMAIN input.attributes : p \in 1 .. Len(input.attributes)
      BY DEF OperatorOK, RowOK, ValidData
    <3>2. QED
      BY <1>4, <2>1, <3>1
  <2>3. data[k] = tuple.data[positions[k]]
    BY <1>1, <2>2 DEF ValueAt
  <2>4. QED
    BY <1>4, <2>1, <2>2, <2>3
<1>6. IsSequence(data) /\ Len(data) = Len(attributes) /\ DOMAIN data = DOMAIN attributes
  <2>1. PICK S : S = {ValueAt(tuple, positions[k]) : k \in DOMAIN positions}
    OBVIOUS
  <2>2. data \in [1 .. Len(attributes) -> S]
    BY <1>1, <1>2, <1>3, <2>1
  <2>3. data \in Seq(S) /\ Len(data) = Len(attributes) /\ DOMAIN data = 1 .. Len(attributes)
    BY <1>3, <2>2
  <2>4. QED
    BY <1>3, <2>3, SequenceOf
<1>7. ValidData(schema, data)
  BY <1>1, <1>2, <1>5, <1>6 DEF ValidData
<1>8. PICK row : row = CreateTuple(schema, data, tuple.arrived)
  OBVIOUS
<1>9. RowOK(row, schema) /\ row.data = data /\ row.arrived = tuple.arrived
  BY <1>6, <1>7, <1>8, RowCreated
<1>10. ProjectFrom(operator, tuple).out = <<row>>
  BY <1>1, <1>8, PassedTuples DEF ProjectFrom
<1>11. QED
  BY <1>1, <1>5, <1>9, <1>10

(* What a combine makes of a tuple: the tuple with a row after it *)
PairedWithRow(t, operator, tuple) ==
    /\ RowOK(t, operator.schema) /\ t.arrived = tuple.arrived
    /\ \E row \in ToSet(relation[1].rows) :
           RowOK(row, relation[1].schema) /\ t.data = tuple.data \o row.data

LEMMA CombineOutput ==
    ASSUME NEW input, SchemaOK(input), NEW operator, operator.kind = "combine",
           OperatorOK(operator, input), RelationOK, NEW tuple, RowOK(tuple, input)
    PROVE  /\ IsSequence(CombineFrom(operator, tuple).out)
           /\ \A t \in ToSet(CombineFrom(operator, tuple).out) : PairedWithRow(t, operator, tuple)
<1> DEFINE Made(row) == CreateTuple(operator.schema, ConcatenatedData(tuple, row), tuple.arrived)
<1>1. PICK rows, schema : rows = relation[1].rows /\ schema = relation[1].schema
  OBVIOUS
<1>2. /\ SchemaOK(schema) /\ IsSequence(rows) /\ \A row \in ToSet(rows) : RowOK(row, schema)
      /\ operator.schema = ConcatSchemas(input, schema)
  BY <1>1 DEF OperatorOK, RelationOK
<1>3. operator.schema.attributes = input.attributes \o schema.attributes
  BY <1>2, SchemaOfPair
<1>4. ASSUME NEW row \in ToSet(rows)
      PROVE  /\ RowOK(Made(row), operator.schema) /\ Made(row).arrived = tuple.arrived
             /\ Made(row).data = tuple.data \o row.data
  <2>1. PICK left, right, data : left = tuple.data /\ right = row.data /\ data = left \o right
    OBVIOUS
  <2>2. PICK attributes, others, all :
            /\ attributes = input.attributes /\ others = schema.attributes
            /\ all = operator.schema.attributes
    OBVIOUS
  <2>3. /\ IsSequence(left) /\ IsSequence(right)
        /\ Len(left) = Len(attributes) /\ Len(right) = Len(others)
        /\ \A k \in DOMAIN left : left[k].type = attributes[k].type
        /\ \A k \in DOMAIN right : right[k].type = others[k].type
    BY <1>2, <2>1, <2>2 DEF RowOK, ValidData
  <2>4. attributes \in Seq(AttributeRecords) /\ others \in Seq(AttributeRecords)
    BY <1>2, <2>2 DEF SchemaOK
  <2>5. all = attributes \o others
    BY <1>3, <2>2
  <2>6. IsSequence(data)
    BY <2>1, <2>3, JoinedElements
  <2>7. PICK S : left \in Seq(S) /\ right \in Seq(S)
    <3>1. left \in Seq(ToSet(left)) /\ right \in Seq(ToSet(right))
      BY <2>3 DEF IsSequence
    <3>2. left \in Seq(ToSet(left) \cup ToSet(right)) /\ right \in Seq(ToSet(left) \cup ToSet(right))
      BY <3>1
    <3>3. QED
      BY <3>2
  <2>8. /\ Len(data) = Len(left) + Len(right) /\ DOMAIN data = 1 .. Len(left) + Len(right)
        /\ \A k \in 1 .. Len(left) + Len(right) :
               data[k] = IF k <= Len(left) THEN left[k] ELSE right[k - Len(left)]
        /\ Len(left) \in Nat /\ Len(right) \in Nat
        /\ DOMAIN left = 1 .. Len(left) /\ DOMAIN right = 1 .. Len(right)
    <3>1. /\ Len(left \o right) = Len(left) + Len(right) /\ left \o right \in Seq(S)
          /\ \A k \in 1 .. Len(left) + Len(right) :
                 (left \o right)[k] = IF k <= Len(left) THEN left[k] ELSE right[k - Len(left)]
      BY ONLY <2>7, ConcatProperties
    <3>2. /\ Len(left) \in Nat /\ Len(right) \in Nat
          /\ DOMAIN left = 1 .. Len(left) /\ DOMAIN right = 1 .. Len(right)
          /\ DOMAIN (left \o right) = 1 .. Len(left \o right)
      BY ONLY <2>7, <3>1
    <3>3. QED
      BY ONLY <2>1, <3>1, <3>2
  <2>9. /\ Len(all) = Len(left) + Len(right)
        /\ \A k \in 1 .. Len(left) + Len(right) :
               all[k] = IF k <= Len(left) THEN attributes[k] ELSE others[k - Len(left)]
    BY <2>3, <2>4, <2>5, ConcatProperties
  <2>10. ASSUME NEW k \in DOMAIN data PROVE data[k].type = all[k].type
    <3>1. PICK l, r : l = Len(left) /\ r = Len(right) /\ l \in Nat /\ r \in Nat
      BY <2>8
    <3>2. k \in 1 .. l + r
      BY <2>8, <3>1
    <3>3. k \in 1 .. l \/ (~(k <= l) /\ k - l \in 1 .. r)
      BY ONLY <3>1, <3>2
    <3>4. CASE k \in 1 .. l
      BY <2>3, <2>8, <2>9, <3>1, <3>2, <3>4
    <3>5. CASE ~(k <= l) /\ k - l \in 1 .. r
      BY <2>3, <2>8, <2>9, <3>1, <3>2, <3>5
    <3>6. QED
      BY <3>3, <3>4, <3>5
  <2>11. ValidData(operator.schema, data)
    BY <2>2, <2>8, <2>9, <2>10 DEF ValidData
  <2>12. ConcatenatedData(tuple, row) = data
    BY <2>1 DEF ConcatenatedData
  <2>13. PICK made : made = CreateTuple(operator.schema, data, tuple.arrived)
    OBVIOUS
  <2>14. RowOK(made, operator.schema) /\ made.data = data /\ made.arrived = tuple.arrived
    BY <2>6, <2>11, <2>13, RowCreated
  <2>15. Made(row) = made
    BY <2>12, <2>13
  <2> HIDE DEF Made
  <2>16. QED
    BY <2>1, <2>14, <2>15
<1>5. CASE CombineFrom(operator, tuple).out = <<>>
  BY <1>5, EmptyElements
<1>6. CASE CombineFrom(operator, tuple).out # <<>>
  <2>1. PICK P, matching : /\ P \in SUBSET DOMAIN rows /\ matching = Chosen(rows, P)
                           /\ CombineFrom(operator, tuple).out
                                  = [k \in DOMAIN matching |-> Made(matching[k])]
    <3> DEFINE P == {k \in DOMAIN rows :
                        CheckCondition(operator.condition, <<tuple, rows[k]>>) = "yes"}
    <3>1. CombineFrom(operator, tuple).out
              = [k \in DOMAIN Chosen(rows, P) |-> Made(Chosen(rows, P)[k])]
      BY <1>1, <1>6, PassedTuples DEF CombineFrom
    <3>2. P \in SUBSET DOMAIN rows
      OBVIOUS
    <3> HIDE DEF P, Made
    <3>3. QED
      BY <3>1, <3>2
  <2>2. matching \in Seq(ToSet(rows))
    BY <1>2, <2>1, ChosenProperties DEF IsSequence
  <2>3. PICK out : out = [k \in DOMAIN matching |-> Made(matching[k])]
    OBVIOUS
  <2>4. PICK S : S = {Made(row) : row \in ToSet(rows)}
    OBVIOUS
  <2> HIDE DEF Made
  <2>5. out \in [1 .. Len(matching) -> S] /\ Len(matching) \in Nat
    BY <2>2, <2>3, <2>4
  <2>6. out \in Seq(S)
    BY <2>5
  <2>7. IsSequence(out) /\ ToSet(out) \subseteq S
    BY <2>6, SequenceOf
  <2>8. \A t \in ToSet(out) : \E row \in ToSet(rows) : t = Made(row)
    BY <2>4, <2>7
  <2>9. CombineFrom(operator, tuple).out = out
    BY <2>1, <2>3
  <2>10. ASSUME NEW t \in ToSet(out) PROVE PairedWithRow(t, operator, tuple)
    <3>1. PICK row \in ToSet(rows) : t = Made(row)
      BY <2>8
    <3>2. /\ RowOK(t, operator.schema) /\ t.arrived = tuple.arrived
          /\ RowOK(row, schema) /\ t.data = tuple.data \o row.data
      BY <1>2, <1>4, <3>1
    <3>3. QED
      BY <1>1, <3>1, <3>2 DEF PairedWithRow
  <2>11. QED
    BY <1>1, <2>7, <2>9, <2>10
<1>7. QED
  BY <1>5, <1>6

LEMMA MeanOutput ==
    ASSUME NEW operator, operator.schema.attributes = <<Attribute(operator.name, "FLOAT")>>,
           NEW window
    PROVE  /\ IsSequence(MeanFrom(operator, window).out)
           /\ \A t \in ToSet(MeanFrom(operator, window).out) : RowOK(t, operator.schema)
<1>1. CASE MeanFrom(operator, window).out = <<>>
  BY <1>1, EmptyElements
<1>2. CASE MeanFrom(operator, window).out # <<>>
  <2>1. PICK sum, mean :
            /\ mean = IF IsThrown(sum) THEN sum ELSE Divide(sum, Object("FLOAT", <<Width, 1>>))
            /\ ~IsThrown(mean)
            /\ MeanFrom(operator, window).out = <<CreateEasy(operator.schema, <<mean>>, clock)>>
    <3> DEFINE sum == SumOf(operator, window)
               mean == IF IsThrown(sum) THEN sum ELSE Divide(sum, Object("FLOAT", <<Width, 1>>))
    <3>1. MeanFrom(operator, window) = MeanOf(operator, window)
      BY <1>2, PassedTuples DEF MeanFrom
    <3>2. MeanOf(operator, window) = IF IsThrown(mean) THEN Throws
                                     ELSE Passed(<<CreateEasy(operator.schema, <<mean>>, clock)>>)
      BY DEF MeanOf
    <3>3. ~IsThrown(mean)
      BY <1>2, <3>1, <3>2, PassedTuples
    <3>4. MeanFrom(operator, window).out = <<CreateEasy(operator.schema, <<mean>>, clock)>>
      BY <3>1, <3>2, <3>3, PassedTuples
    <3>5. QED
      BY <3>3, <3>4
  <2>2. mean = Divide(sum, Object("FLOAT", <<Width, 1>>))
    BY <2>1
  <2>3. PICK width : width = Object("FLOAT", <<Width, 1>>)
    OBVIOUS
  <2>4. width.type = "FLOAT"
    BY <2>3 DEF Object
  <2>5. mean.type = "FLOAT"
    <3>1. \A value : Object("FLOAT", value).type = "FLOAT"
      BY DEF Object
    <3>2. IsThrown(UnsupportedOperation) /\ IsThrown(TypeMismatch)
      BY DEF IsThrown, UnsupportedOperation, TypeMismatch, Object
    <3>3. mean = Divide(sum, width)
      BY <2>2, <2>3
    <3>4. sum.type \in NumberTypes /\ width.type \in NumberTypes
      BY <2>1, <2>4, <3>2, <3>3 DEF Divide, NumberTypes
    <3>5. \E value : mean = Object("FLOAT", value)
      BY <2>4, <3>3, <3>4 DEF Divide
    <3>6. QED
      BY <3>1, <3>5
  <2>6. PICK data : data = <<mean>>
    OBVIOUS
  <2>7. IsSequence(data) /\ Len(data) = 1 /\ DOMAIN data = {1} /\ data[1] = mean
    BY <2>6, SingleElement
  <2>8. ValidData(operator.schema, data)
    <3>1. PICK attribute : attribute = Attribute(operator.name, "FLOAT")
      OBVIOUS
    <3>2. attribute.type = "FLOAT"
      BY <3>1 DEF Attribute
    <3>3. PICK attributes : attributes = operator.schema.attributes /\ attributes = <<attribute>>
      BY <3>1
    <3>4. Len(attributes) = 1 /\ attributes[1] = attribute
      BY <3>3
    <3>5. QED
      BY <2>5, <2>7, <3>2, <3>3, <3>4 DEF ValidData
  <2>9. PICK row : row = CreateTuple(operator.schema, data, clock)
    OBVIOUS
  <2>10. RowOK(row, operator.schema)
    BY <2>7, <2>8, <2>9, RowCreated
  <2>11. MeanFrom(operator, window).out = <<row>>
    BY <2>1, <2>6, <2>9 DEF CreateEasy
  <2>12. QED
    BY <2>10, <2>11, SingleElement
<1>3. QED
  BY ONLY <1>1, <1>2
-----------------------------------------------------------------------------
(* The declarations *)

LEMMA StillDeclared ==
    ASSUME RowInv, UNCHANGED <<chain, relation>>, ~Flows'
    PROVE  RowInv'
<1>1. ChainOK'
  <2>1. ASSUME NEW n \in 2 .. Len(chain) PROVE OperatorOK(chain[n], chain[n - 1].schema)'
    <3>1. OperatorOK(chain[n], chain[n - 1].schema)
      BY DEF RowInv, ChainOK
    <3>2. QED
      BY <3>1 DEF OperatorOK
  <2>2. /\ IsSequence(chain') /\ (chain' # <<>> => chain'[1].kind = "adapter")
        /\ \A n \in DOMAIN chain' : SchemaOK(chain'[n].schema)
    BY DEF RowInv, ChainOK
  <2>3. QED
    BY <2>1, <2>2 DEF ChainOK
<1>2. RelationOK'
  BY DEF RowInv, RelationOK
<1>3. QED
  BY <1>1, <1>2 DEF RowInv, QueuesOK

LEMMA ChainGrows ==
    ASSUME RowInv, MayGrow, NEW operator, AddOperator(operator), UNCHANGED <<relation, stage>>,
           SchemaOK(operator.schema), OperatorOK(operator, OutputSchema)
    PROVE  RowInv'
<1>1. PICK S, len : S = ToSet(chain) \cup {operator} /\ len = Len(chain)
  OBVIOUS
<1>2. /\ chain \in Seq(S) /\ operator \in S /\ len \in Nat /\ len >= 1 /\ DOMAIN chain = 1 .. len
      /\ chain # <<>> /\ chain[1].kind = "adapter"
  <2>1. chain \in Seq(ToSet(chain)) /\ chain # <<>>
    BY DEF RowInv, ChainOK, IsSequence, MayGrow
  <2>2. chain \in Seq(S)
    BY <1>1, <2>1
  <2>3. QED
    BY <1>1, <2>1, <2>2, ChainShape DEF RowInv, ChainOK
<1>3. chain' = Append(chain, operator)
  BY DEF AddOperator
<1>4. /\ Len(chain') = len + 1 /\ DOMAIN chain' = 1 .. len + 1 /\ chain'[len + 1] = operator
      /\ \A n \in 1 .. len : chain'[n] = chain[n]
  BY <1>1, <1>2, <1>3, AppendProperties
<1>5. chain[len].schema = OutputSchema
  BY <1>1 DEF OutputSchema, Last
<1>6. ChainOK'
  <2>1. IsSequence(chain')
    BY <1>3, AppendedElements DEF RowInv, ChainOK
  <2>2. chain'[1].kind = "adapter"
    BY <1>2, <1>4
  <2>3. ASSUME NEW n \in DOMAIN chain' PROVE SchemaOK(chain'[n].schema)
    <3>1. n \in DOMAIN chain \/ n = len + 1
      BY <1>2, <1>4
    <3>2. QED
      BY <1>2, <1>4, <3>1 DEF RowInv, ChainOK
  <2>4. ASSUME NEW n \in 2 .. Len(chain')
        PROVE  OperatorOK(chain'[n], chain'[n - 1].schema)
    <3>1. CASE n = len + 1
      BY <1>2, <1>4, <1>5, <3>1
    <3>2. CASE n # len + 1
      <4>1. n \in 2 .. len /\ n - 1 \in 1 .. len /\ n \in 1 .. len
        BY <1>2, <1>4, <3>2
      <4>2. QED
        BY <1>1, <1>4, <4>1 DEF RowInv, ChainOK
    <3>3. QED
      BY <3>1, <3>2
  <2>5. ASSUME NEW n \in 2 .. Len(chain')
        PROVE  OperatorOK(chain[n], chain[n - 1].schema)'
    BY <2>4 DEF OperatorOK
  <2>6. QED
    BY <2>1, <2>2, <2>3, <2>5 DEF ChainOK
<1>7. RelationOK'
  BY DEF RowInv, RelationOK
<1>8. ~Flows'
  BY DEF MayGrow, Flows
<1>9. QED
  BY <1>6, <1>7, <1>8 DEF RowInv, QueuesOK

LEMMA LastSchemaOK ==
    ASSUME RowInv, chain # <<>>
    PROVE  SchemaOK(OutputSchema)
<1>1. Len(chain) \in DOMAIN chain
  BY ChainShape DEF RowInv
<1>2. QED
  BY <1>1 DEF RowInv, ChainOK, OutputSchema, Last

LEMMA ListsOfAttributes ==
    ASSUME NEW attributes \in AttributeLists
    PROVE  attributes \in Seq(AttributeRecords)
BY TypedQueryAssumption DEF AttributeRecords

LEMMA StreamDeclared ==
    ASSUME RowInv, DeclareStream PROVE RowInv'
<1>1. PICK attributes \in AttributeLists :
          chain' = <<[kind |-> "adapter", schema |-> FromAttributes(attributes)]>>
  BY DEF DeclareStream
<1>2. PICK adapter, schema : /\ schema = FromAttributes(attributes)
                             /\ adapter = [kind |-> "adapter", schema |-> schema]
  OBVIOUS
<1>3. adapter.kind = "adapter" /\ adapter.schema = schema
  BY ONLY <1>2
<1>4. chain' = <<adapter>> /\ SchemaOK(schema)
  BY <1>1, <1>2, ListsOfAttributes, SchemaOfAttributes
<1>5. ChainOK'
  <2>1. IsSequence(chain')
    BY <1>4, SingleElement
  <2>2. DOMAIN chain' = {1} /\ chain'[1] = adapter /\ Len(chain') = 1 /\ 2 .. 1 = {}
    BY <1>4
  <2>3. QED
    BY <1>3, <1>4, <2>1, <2>2 DEF ChainOK
<1>6. RelationOK' /\ ~Flows'
  BY DEF RowInv, RelationOK, DeclareStream, Flows
<1>7. QED
  BY <1>5, <1>6 DEF RowInv, QueuesOK

LEMMA RelationDeclared ==
    ASSUME RowInv, DeclareRelation PROVE RowInv'
<1>1. PICK attributes \in AttributeLists :
          relation' = <<[schema |-> FromAttributes(attributes), rows |-> <<>>]>>
  BY DEF DeclareRelation
<1>2. PICK schema, declaration :
          /\ schema = FromAttributes(attributes)
          /\ declaration = [schema |-> schema, rows |-> <<>>]
  OBVIOUS
<1>3. declaration.rows = <<>> /\ declaration.schema = schema /\ SchemaOK(schema)
  BY <1>2, ListsOfAttributes, SchemaOfAttributes
<1>4. relation' = <<declaration>> /\ relation'[1] = declaration
  BY <1>1, <1>2
<1>5. RelationOK'
  BY <1>2, <1>3, <1>4, EmptyElements DEF RelationOK
<1>6. chain = <<>> /\ chain' = <<>> /\ ~Flows'
  BY DEF DeclareRelation, Flows, flowing
<1>7. ChainOK'
  BY <1>6, EmptyElements DEF ChainOK
<1>8. QED
  BY <1>5, <1>6, <1>7 DEF RowInv, QueuesOK

LEMMA RowInserted ==
    ASSUME RowInv, Insert PROVE RowInv'
<1>1. PICK data \in DataOf(relation[1].schema) :
          relation' = [relation EXCEPT ![1].rows = <<CreateEasy(relation[1].schema, data, clock)>> \o @]
  BY DEF Insert
<1>2. PICK schema, rows, row : /\ schema = relation[1].schema /\ rows = relation[1].rows
                               /\ row = CreateTuple(schema, data, clock)
  OBVIOUS
<1>3. /\ relation = <<[schema |-> schema, rows |-> rows]>> /\ SchemaOK(schema) /\ IsSequence(rows)
      /\ \A r \in ToSet(rows) : RowOK(r, schema)
  BY <1>2 DEF RowInv, RelationOK, Insert
<1>4. RowOK(row, schema)
  <2>1. IsSequence(data) /\ ValidData(schema, data)
    BY <1>1, <1>2, <1>3, DataFit
  <2>2. QED
    BY <1>2, <2>1, RowCreated
<1>5. PICK more : more = <<row>> \o rows
  OBVIOUS
<1>6. IsSequence(more) /\ \A r \in ToSet(more) : RowOK(r, schema)
  <2>1. IsSequence(<<row>>) /\ ToSet(<<row>>) = {row}
    BY SingleElement
  <2>2. IsSequence(more) /\ ToSet(more) \subseteq {row} \cup ToSet(rows)
    BY <1>3, <1>5, <2>1, JoinedElements
  <2>3. QED
    BY <1>3, <1>4, <2>2
<1>7. relation' = <<[schema |-> schema, rows |-> more]>>
  <2>1. PICK declaration : declaration = [schema |-> schema, rows |-> rows]
    OBVIOUS
  <2>2. relation = <<declaration>> /\ declaration.rows = rows
    BY <1>3, <2>1
  <2>3. relation' = [relation EXCEPT ![1] = [declaration EXCEPT !.rows = more]]
    BY <1>1, <1>2, <1>5, <2>2 DEF CreateEasy
  <2>4. [declaration EXCEPT !.rows = more] = [schema |-> schema, rows |-> more]
    BY ONLY <2>1
  <2>5. QED
    BY <2>2, <2>3, <2>4
<1>8. relation'[1].schema = schema /\ relation'[1].rows = more
  <2>1. PICK declaration : declaration = [schema |-> schema, rows |-> more]
    OBVIOUS
  <2>2. relation'[1] = declaration
    BY <1>7, <2>1
  <2>3. QED
    BY <2>1, <2>2
<1>9. RelationOK'
  BY <1>3, <1>6, <1>7, <1>8 DEF RelationOK
<1>10. chain = <<>> /\ chain' = <<>> /\ ~Flows'
  BY DEF Insert, Flows
<1>11. ChainOK'
  BY <1>10, EmptyElements DEF ChainOK
<1>12. QED
  BY <1>9, <1>10, <1>11 DEF RowInv, QueuesOK

LEMMA SelectDeclared ==
    ASSUME RowInv, Select PROVE RowInv'
<1>1. PICK operator : /\ operator = [kind |-> "select", schema |-> OutputSchema,
                                     condition |-> condition[1]]
                      /\ AddOperator(operator) /\ MayGrow
  BY DEF Select
<1>2. operator.kind = "select" /\ operator.schema = OutputSchema
  BY <1>1
<1>3. OperatorOK(operator, OutputSchema) /\ SchemaOK(operator.schema)
  BY <1>1, <1>2, LastSchemaOK DEF OperatorOK, MayGrow
<1>4. UNCHANGED <<relation, stage>>
  BY DEF Select
<1>5. QED
  BY <1>1, <1>3, <1>4, ChainGrows

LEMMA ElectDeclared ==
    ASSUME RowInv, Elect PROVE RowInv'
<1>1. PICK operator : /\ operator = [kind |-> "elect", schema |-> OutputSchema]
                      /\ AddOperator(operator) /\ MayGrow
  BY DEF Elect
<1>2. operator.kind = "elect" /\ operator.schema = OutputSchema
  BY <1>1
<1>3. OperatorOK(operator, OutputSchema) /\ SchemaOK(operator.schema)
  BY <1>1, <1>2, LastSchemaOK DEF OperatorOK, MayGrow
<1>4. UNCHANGED <<relation, stage>>
  BY DEF Elect
<1>5. QED
  BY <1>1, <1>3, <1>4, ChainGrows

LEMMA MeanDeclared ==
    ASSUME RowInv, Mean PROVE RowInv'
<1>1. PICK name \in AttributeNames :
          AddOperator([kind |-> "mean", name |-> name,
                       schema |-> AddAttribute(NewSchema, Attribute(name, "FLOAT"))])
  BY DEF Mean
<1>2. PICK schema, operator :
          /\ schema = AddAttribute(NewSchema, Attribute(name, "FLOAT"))
          /\ operator = [kind |-> "mean", name |-> name, schema |-> schema]
  OBVIOUS
<1>3. operator.kind = "mean" /\ operator.name = name /\ operator.schema = schema
  BY ONLY <1>2
<1>4. AddOperator(operator) /\ MayGrow /\ UNCHANGED <<relation, stage>>
  BY <1>1, <1>2 DEF Mean
<1>5. Attribute(name, "FLOAT") \in AttributeRecords
  <2>1. PICK attributes \in AttributeLists : \E n \in DOMAIN attributes : name = attributes[n].name
    BY DEF AttributeNames
  <2>2. attributes \in Seq(AttributeRecords)
    BY ListsOfAttributes
  <2>3. name \in STRING
    <3>1. PICK n \in DOMAIN attributes : name = attributes[n].name
      BY <2>1
    <3>2. attributes[n] \in AttributeRecords
      BY <2>2
    <3>3. QED
      BY <3>1, <3>2 DEF AttributeRecords
  <2>4. QED
    BY <2>3 DEF Attribute, AttributeRecords, ObjectTypes
<1>6. ~NewSchema.frozen /\ NewSchema.attributes = <<>>
  BY DEF NewSchema
<1>7. SchemaOK(schema) /\ schema.attributes = Append(<<>>, Attribute(name, "FLOAT"))
  BY <1>2, <1>5, <1>6, NewSchemaOK, AttributeAdded
<1>8. OperatorOK(operator, OutputSchema) /\ SchemaOK(operator.schema)
  BY <1>3, <1>7 DEF OperatorOK
<1>9. QED
  BY <1>4, <1>8, ChainGrows

LEMMA CombineDeclared ==
    ASSUME RowInv, Combine PROVE RowInv'
<1>1. CASE stage' = "refused" /\ UNCHANGED chain
  BY <1>1, StillDeclared DEF Combine, Flows
<1>2. CASE ~(stage' = "refused" /\ UNCHANGED chain)
  <2>1. PICK obeying : /\ relation # <<>> /\ UNCHANGED stage
                       /\ AddOperator([kind |-> "combine", condition |-> obeying,
                                       schema |-> ConcatSchemas(OutputSchema, relation[1].schema)])
    BY <1>2 DEF Combine
  <2>2. PICK schema, operator :
            /\ schema = ConcatSchemas(OutputSchema, relation[1].schema)
            /\ operator = [kind |-> "combine", condition |-> obeying, schema |-> schema]
    OBVIOUS
  <2>3. operator.kind = "combine" /\ operator.schema = schema
    BY ONLY <2>2
  <2>4. AddOperator(operator) /\ MayGrow /\ UNCHANGED <<relation, stage>>
    BY <2>1, <2>2 DEF Combine
  <2>5. SchemaOK(schema)
    <3>1. SchemaOK(OutputSchema) /\ SchemaOK(relation[1].schema)
      BY <2>1, <2>4, LastSchemaOK DEF RowInv, RelationOK, MayGrow
    <3>2. QED
      BY <2>2, <3>1, SchemaOfPair
  <2>6. OperatorOK(operator, OutputSchema)
    BY <2>1, <2>2, <2>3 DEF OperatorOK
  <2>7. QED
    BY <2>3, <2>4, <2>5, <2>6, ChainGrows
<1>3. QED
  BY <1>1, <1>2

LEMMA ProjectDeclared ==
    ASSUME RowInv, Project PROVE RowInv'
<1>1. CASE stage' = "refused" /\ UNCHANGED chain
  BY <1>1, StillDeclared DEF Project, Flows
<1>2. CASE ~(stage' = "refused" /\ UNCHANGED chain)
  <2>1. PICK names, positions :
            /\ names \in NameLists
            /\ positions = [n \in DOMAIN names |-> IndexOf(OutputSchema, names[n])]
            /\ 0 \notin ToSet(positions) /\ UNCHANGED stage
            /\ AddOperator([kind |-> "project", positions |-> positions,
                   schema |-> FromAttributes([n \in DOMAIN names |->
                                  OutputSchema.attributes[positions[n]]])])
    BY <1>2 DEF Project
  <2>2. PICK input, attributes, schema, operator :
            /\ input = OutputSchema
            /\ attributes = [n \in DOMAIN names |-> input.attributes[positions[n]]]
            /\ schema = FromAttributes(attributes)
            /\ operator = [kind |-> "project", positions |-> positions, schema |-> schema]
    OBVIOUS
  <2>3. operator.kind = "project" /\ operator.positions = positions /\ operator.schema = schema
    BY ONLY <2>2
  <2>4. AddOperator(operator) /\ MayGrow /\ UNCHANGED <<relation, stage>>
    BY <2>1, <2>2 DEF Project
  <2>5. SchemaOK(input)
    BY <2>2, <2>4, LastSchemaOK DEF MayGrow
  <2>6. names \in Seq(STRING)
    BY <2>1, TypedQueryAssumption
  <2>7. DOMAIN names = 1 .. Len(names) /\ Len(names) \in Nat
    BY <2>6
  <2>8. ASSUME NEW n \in DOMAIN names
        PROVE  /\ positions[n] = input.index[names[n]] /\ positions[n] \in DOMAIN input.attributes
               /\ input.attributes[positions[n]].name = names[n]
               /\ attributes[n] = input.attributes[positions[n]]
               /\ attributes[n] \in AttributeRecords
    <3>1. positions[n] = IndexOf(input, names[n]) /\ positions[n] \in ToSet(positions)
      BY <2>1, <2>2 DEF ToSet
    <3>2. HasAttribute(input, names[n]) /\ positions[n] = input.index[names[n]]
      BY <2>1, <3>1 DEF IndexOf
    <3>3. PICK k \in DOMAIN input.attributes : input.attributes[k].name = names[n]
      BY <2>5, <3>2 DEF SchemaOK, HasAttribute
    <3>4. PICK l : l = input.index[names[n]]
      OBVIOUS
    <3>5. l \in k .. Len(input.attributes) /\ input.attributes[l].name = names[n]
      BY <2>5, <3>3, <3>4 DEF SchemaOK
    <3>6. input.attributes \in Seq(AttributeRecords)
      BY <2>5 DEF SchemaOK
    <3>7. l \in DOMAIN input.attributes
      BY <3>3, <3>5, <3>6
    <3>8. input.attributes[l] \in AttributeRecords
      BY <3>6, <3>7
    <3>9. attributes[n] = input.attributes[positions[n]]
      BY <2>2
    <3>10. QED
      BY <3>2, <3>4, <3>5, <3>7, <3>8, <3>9
  <2>9. attributes \in Seq(AttributeRecords) /\ DOMAIN attributes = DOMAIN names
    <3>1. attributes \in [1 .. Len(names) -> AttributeRecords]
      BY <2>2, <2>7, <2>8
    <3>2. QED
      BY <2>2, <2>7, <3>1
  <2>10. SchemaOK(schema) /\ schema.attributes = attributes
    BY <2>2, <2>9, SchemaOfAttributes
  <2>11. DOMAIN positions = DOMAIN names
    BY <2>1
  <2>12. OperatorOK(operator, input)
    BY <2>3, <2>8, <2>9, <2>10, <2>11 DEF OperatorOK
  <2>13. QED
    BY <2>2, <2>3, <2>4, <2>10, <2>12, ChainGrows
<1>3. QED
  BY ONLY <1>1, <1>2
-----------------------------------------------------------------------------
(* The query runs *)

LEMMA StillTheSame ==
    ASSUME RowInv, UNCHANGED <<chain, relation>>
    PROVE  ChainOK' /\ RelationOK' /\ \A n : SchemaAt(n)' = SchemaAt(n)
<1>1. ChainOK'
  <2>1. ASSUME NEW n \in 2 .. Len(chain) PROVE OperatorOK(chain[n], chain[n - 1].schema)'
    <3>1. OperatorOK(chain[n], chain[n - 1].schema)
      BY DEF RowInv, ChainOK
    <3>2. QED
      BY <3>1 DEF OperatorOK
  <2>2. /\ IsSequence(chain') /\ (chain' # <<>> => chain'[1].kind = "adapter")
        /\ \A n \in DOMAIN chain' : SchemaOK(chain'[n].schema)
    BY DEF RowInv, ChainOK
  <2>3. QED
    BY <2>1, <2>2 DEF ChainOK
<1>2. RelationOK'
  BY DEF RowInv, RelationOK
<1>3. \A n : SchemaAt(n)' = SchemaAt(n)
  BY DEF SchemaAt
<1>4. QED
  BY <1>1, <1>2, <1>3

LEMMA QueryRuns ==
    ASSUME RowInv, Run PROVE RowInv'
<1>1. UNCHANGED <<chain, relation>> /\ chain # <<>> /\ queues' = [n \in 0 .. Len(chain) |-> <<>>]
  BY DEF Run, declared
<1>2. ChainOK' /\ RelationOK'
  BY <1>1, StillTheSame
<1>3. QueuesOK'
  BY <1>1, EmptyElements DEF QueuesOK
<1>4. QED
  BY <1>2, <1>3 DEF RowInv

LEMMA TupleSent ==
    ASSUME RowInv, Send
    PROVE  /\ RowInv' /\ UNCHANGED <<chain, relation, stage>>
           /\ \E tuple : /\ sent' = Append(sent, tuple) /\ RowOK(tuple, chain[1].schema)
                         /\ queues' = [queues EXCEPT ![0] = Append(@, tuple)]
                         /\ ToSet(queues'[0]) \subseteq ToSet(queues[0]) \cup {tuple}
                         /\ \A n \in 1 .. Len(chain) : queues'[n] = queues[n]
<1>1. PICK data, tuple :
          /\ data \in DataOf(chain[1].schema)
          /\ tuple = CreateTuple(chain[1].schema, data, clock)
          /\ queues' = [queues EXCEPT ![0] = Append(@, tuple)]
          /\ sent' = Append(sent, tuple)
  BY DEF Send, CreateEasy
<1>2. UNCHANGED <<chain, relation, stage>> /\ stage = "running"
  BY DEF Send, declared
<1>3. PICK len : len = Len(chain)
  OBVIOUS
<1>4. /\ chain # <<>> /\ len \in Nat /\ len >= 1 /\ DOMAIN chain = 1 .. len
      /\ queues = [n \in 0 .. len |-> queues[n]]
      /\ \A n \in 0 .. len :
             IsSequence(queues[n]) /\ \A t \in ToSet(queues[n]) : RowOK(t, SchemaAt(n))
  BY <1>2, <1>3, ChainShape DEF RowInv, QueuesOK, Flows
<1>5. RowOK(tuple, chain[1].schema)
  <2>1. SchemaOK(chain[1].schema)
    BY <1>4 DEF RowInv, ChainOK
  <2>2. IsSequence(data) /\ ValidData(chain[1].schema, data)
    BY <1>1, <2>1, DataFit
  <2>3. QED
    BY <1>1, <2>2, RowCreated
<1>6. /\ queues'[0] = Append(queues[0], tuple) /\ \A n \in 1 .. len : queues'[n] = queues[n]
      /\ queues' = [n \in 0 .. len |-> queues'[n]]
  <2>1. PICK before, after : before = queues /\ after = queues'
    OBVIOUS
  <2>2. after = [before EXCEPT ![0] = Append(@, tuple)] /\ before = [n \in 0 .. len |-> before[n]]
    BY <1>1, <1>4, <2>1
  <2>3. 0 \in 0 .. len /\ \A n \in 1 .. len : n \in 0 .. len /\ n # 0
    BY <1>4
  <2>4. after[0] = Append(before[0], tuple)
    BY ONLY <2>2, <2>3
  <2>5. \A n \in 1 .. len : after[n] = before[n]
    BY ONLY <2>2, <2>3
  <2>6. after = [n \in 0 .. len |-> after[n]]
    BY ONLY <2>2
  <2>7. QED
    BY <2>1, <2>4, <2>5, <2>6
<1>7. IsSequence(queues'[0]) /\ ToSet(queues'[0]) \subseteq ToSet(queues[0]) \cup {tuple}
  <2>1. IsSequence(queues[0])
    BY <1>4
  <2>2. QED
    BY <1>6, <2>1, AppendedElements
<1>8. ASSUME NEW n \in 0 .. len
      PROVE  IsSequence(queues'[n]) /\ \A t \in ToSet(queues'[n]) : RowOK(t, SchemaAt(n))
  <2>1. CASE n = 0
    <3>1. SchemaAt(0) = chain[1].schema /\ 0 \in 0 .. len
      BY <1>4 DEF SchemaAt
    <3>2. \A t \in ToSet(queues[0]) : RowOK(t, SchemaAt(0))
      BY <1>4, <3>1
    <3>3. QED
      BY <1>5, <1>7, <2>1, <3>1, <3>2
  <2>2. CASE n # 0
    <3>1. n \in 1 .. len
      BY <1>4, <2>2
    <3>2. QED
      BY <1>4, <1>6, <3>1
  <2>3. QED
    BY <2>1, <2>2
<1>9. QueuesOK'
  <2>1. SchemaAt(0)' = SchemaAt(0) /\ \A n : SchemaAt(n)' = SchemaAt(n)
    BY <1>2, StillTheSame
  <2>2. QED
    BY <1>2, <1>3, <1>4, <1>6, <1>8, <2>1 DEF QueuesOK
<1>10. RowInv'
  BY <1>2, <1>9, StillTheSame DEF RowInv
<1>11. QED
  BY <1>1, <1>2, <1>3, <1>5, <1>6, <1>7, <1>10

(* What operator n reads and outputs *)
LEMMA InputOf ==
    ASSUME ChainOK, NEW n \in DOMAIN chain
    PROVE  /\ SchemaOK(SchemaAt(n - 1)) /\ SchemaAt(n) = chain[n].schema /\ SchemaOK(chain[n].schema)
           /\ \/ n = 1 /\ chain[n].kind = "adapter" /\ chain[n].schema = SchemaAt(n - 1)
              \/ n \in 2 .. Len(chain) /\ OperatorOK(chain[n], SchemaAt(n - 1))
<1>1. n \in 1 .. Len(chain) /\ Len(chain) \in Nat /\ DOMAIN chain = 1 .. Len(chain)
  BY ChainShape
<1>2. CASE n = 1
  <2>1. SchemaAt(n - 1) = chain[1].schema /\ SchemaAt(n) = chain[1].schema /\ 1 \in DOMAIN chain
    BY <1>1, <1>2 DEF SchemaAt
  <2>2. chain # <<>>
    BY <1>1, <2>1
  <2>3. QED
    BY <1>2, <2>1, <2>2 DEF ChainOK
<1>3. CASE n # 1
  <2>1. n \in 2 .. Len(chain) /\ n - 1 \in DOMAIN chain /\ n - 1 # 0 /\ n # 0
    BY <1>1, <1>3
  <2>2. SchemaAt(n - 1) = chain[n - 1].schema /\ SchemaAt(n) = chain[n].schema
    BY <2>1 DEF SchemaAt
  <2>3. QED
    BY <2>1, <2>2 DEF ChainOK
<1>4. QED
  BY <1>2, <1>3

(* How a tuple comes out of an operator other than a mean *)
SameRow(n, tuple, t) == chain[n].schema = SchemaAt(n - 1) /\ t = tuple

ProjectedRow(n, tuple, t) ==
    /\ chain[n].kind = "project" /\ OperatorOK(chain[n], SchemaAt(n - 1))
    /\ \A k \in DOMAIN chain[n].positions : t.data[k] = tuple.data[chain[n].positions[k]]

CombinedRow(n, tuple, t) ==
    /\ chain[n].kind = "combine" /\ OperatorOK(chain[n], SchemaAt(n - 1))
    /\ \E row \in ToSet(relation[1].rows) :
           RowOK(row, relation[1].schema) /\ t.data = tuple.data \o row.data

ComesOf(n, tuple, t) ==
    /\ t.arrived = tuple.arrived
    /\ \/ SameRow(n, tuple, t) /\ chain[n].kind \notin {"project", "combine"}
       \/ ProjectedRow(n, tuple, t)
       \/ CombinedRow(n, tuple, t)

LEMMA OutputOf ==
    ASSUME RowInv, NEW n \in DOMAIN chain, NEW tuple, RowOK(tuple, SchemaAt(n - 1))
    PROVE  /\ IsSequence(Processed(n, tuple).out)
           /\ \A t \in ToSet(Processed(n, tuple).out) :
                  /\ RowOK(t, chain[n].schema)
                  /\ chain[n].kind # "mean" => ComesOf(n, tuple, t)
<1>1. PICK operator, input : operator = chain[n] /\ input = SchemaAt(n - 1)
  OBVIOUS
<1>2. /\ SchemaOK(input) /\ SchemaOK(operator.schema) /\ RelationOK /\ RowOK(tuple, input)
      /\ \/ operator.kind = "adapter" /\ operator.schema = input
         \/ OperatorOK(operator, input)
  BY <1>1, InputOf DEF RowInv
<1>3. CASE operator.kind \in {"adapter", "elect", "select"}
  <2>1. operator.schema = input
    BY <1>2, <1>3 DEF OperatorOK
  <2>2. Processed(n, tuple).out = <<>> \/ Processed(n, tuple).out = <<tuple>>
    <3>1. CASE operator.kind = "select"
      BY <1>1, <3>1, SelectOutput DEF Processed
    <3>2. CASE operator.kind \in {"adapter", "elect"}
      BY <1>1, <3>2, PassedTuples DEF Processed
    <3>3. QED
      BY <1>3, <3>1, <3>2
  <2>3. RowOK(tuple, operator.schema) /\ ComesOf(n, tuple, tuple)
    BY <1>1, <1>2, <1>3, <2>1 DEF ComesOf, SameRow
  <2>4. QED
    BY <1>1, <2>2, <2>3, EmptyElements, SingleElement
<1>4. CASE operator.kind = "project"
  <2>1. OperatorOK(operator, input)
    BY <1>2, <1>4
  <2>2. PICK row : /\ ProjectFrom(operator, tuple).out = <<row>>
                   /\ RowOK(row, operator.schema) /\ row.arrived = tuple.arrived
                   /\ \A k \in DOMAIN operator.positions :
                          row.data[k] = tuple.data[operator.positions[k]]
    BY <1>2, <1>4, <2>1, ProjectOutput
  <2>3. Processed(n, tuple).out = <<row>>
    BY <1>1, <1>4, <2>2 DEF Processed
  <2>4. ComesOf(n, tuple, row)
    BY <1>1, <1>4, <2>1, <2>2 DEF ComesOf, ProjectedRow
  <2>5. QED
    BY <1>1, <2>2, <2>3, <2>4, SingleElement
<1>5. CASE operator.kind = "combine"
  <2>1. OperatorOK(operator, input)
    BY <1>2, <1>5
  <2>2. /\ IsSequence(CombineFrom(operator, tuple).out)
        /\ \A t \in ToSet(CombineFrom(operator, tuple).out) : PairedWithRow(t, operator, tuple)
    <3>1. SchemaOK(input) /\ RelationOK /\ RowOK(tuple, input)
      BY <1>2
    <3>2. QED
      BY ONLY <1>5, <2>1, <3>1, CombineOutput
  <2>3. Processed(n, tuple).out = CombineFrom(operator, tuple).out
    BY <1>1, <1>5 DEF Processed
  <2>4. \A t \in ToSet(CombineFrom(operator, tuple).out) :
            RowOK(t, operator.schema) /\ ComesOf(n, tuple, t)
    BY <1>1, <1>5, <2>1, <2>2 DEF ComesOf, CombinedRow, PairedWithRow
  <2>5. QED
    BY <1>1, <2>2, <2>3, <2>4
<1>6. CASE operator.kind = "mean"
  <2>1. operator.schema.attributes = <<Attribute(operator.name, "FLOAT")>>
    BY <1>2, <1>6 DEF OperatorOK
  <2>2. Processed(n, tuple).out = MeanFrom(operator, Append(windows[n], tuple)).out
    BY <1>1, <1>6 DEF Processed
  <2>3. QED
    BY <1>1, <1>6, <2>1, <2>2, MeanOutput
<1>7. QED
  BY <1>2, <1>3, <1>4, <1>5, <1>6 DEF OperatorOK

LEMMA TupleProcessed ==
    ASSUME RowInv, NEW n \in DOMAIN chain, Process(n)
    PROVE  /\ RowInv' /\ UNCHANGED <<chain, relation, sent>>
           /\ stage = "running"
           /\ \E tuple \in ToSet(queues[n - 1]) :
                  /\ RowOK(tuple, SchemaAt(n - 1))
                  /\ ToSet(queues'[n - 1]) \subseteq ToSet(queues[n - 1])
                  /\ \A t \in ToSet(queues'[n]) : \/ t \in ToSet(queues[n])
                                                  \/ t \in ToSet(Processed(n, tuple).out)
                  /\ \A m \in 0 .. Len(chain) : m \notin {n - 1, n} => queues'[m] = queues[m]
<1>1. UNCHANGED <<chain, relation, sent>> /\ stage = "running"
  BY DEF Process, declared
<1>2. PICK len : len = Len(chain)
  OBVIOUS
<1>3. /\ chain # <<>> /\ len \in Nat /\ DOMAIN chain = 1 .. len
      /\ queues = [m \in 0 .. len |-> queues[m]]
      /\ \A m \in 0 .. len :
             IsSequence(queues[m]) /\ \A t \in ToSet(queues[m]) : RowOK(t, SchemaAt(m))
  BY <1>1, <1>2, ChainShape DEF RowInv, QueuesOK, Flows
<1>4. n \in 1 .. len /\ n - 1 \in 0 .. len /\ n \in 0 .. len /\ n # n - 1
  BY <1>3
<1>5. PICK from, to, tuple, out :
          /\ from = queues[n - 1] /\ to = queues[n] /\ tuple = Head(from)
          /\ out = Processed(n, tuple).out
  OBVIOUS
<1>6. from # <<>> /\ queues' = [queues EXCEPT ![n - 1] = Tail(@), ![n] = @ \o out]
  BY <1>5 DEF Process
<1>7. /\ queues'[n - 1] = Tail(from) /\ queues'[n] = to \o out
      /\ \A m \in 0 .. len : m \notin {n - 1, n} => queues'[m] = queues[m]
      /\ queues' = [m \in 0 .. len |-> queues'[m]]
  BY <1>3, <1>4, <1>5, <1>6
<1>8. tuple \in ToSet(from) /\ IsSequence(Tail(from)) /\ ToSet(Tail(from)) \subseteq ToSet(from)
  BY <1>3, <1>4, <1>5, <1>6, RestOfElements
<1>9. RowOK(tuple, SchemaAt(n - 1))
  BY <1>3, <1>4, <1>5, <1>8
<1>10. IsSequence(out) /\ \A t \in ToSet(out) : RowOK(t, chain[n].schema)
  BY <1>5, <1>9, OutputOf
<1>11. IsSequence(to \o out) /\ ToSet(to \o out) \subseteq ToSet(to) \cup ToSet(out)
  BY <1>3, <1>4, <1>5, <1>10, JoinedElements
<1>12. SchemaAt(n) = chain[n].schema
  BY InputOf DEF RowInv
<1>13. ASSUME NEW m \in 0 .. len
       PROVE  IsSequence(queues'[m]) /\ \A t \in ToSet(queues'[m]) : RowOK(t, SchemaAt(m))
  <2>1. CASE m = n - 1
    BY <1>3, <1>4, <1>5, <1>7, <1>8, <2>1
  <2>2. CASE m = n
    BY <1>3, <1>4, <1>5, <1>7, <1>10, <1>11, <1>12, <2>2
  <2>3. CASE m \notin {n - 1, n}
    BY <1>3, <1>7, <2>3
  <2>4. QED
    BY <2>1, <2>2, <2>3
<1>14. QueuesOK'
  <2>1. \A m : SchemaAt(m)' = SchemaAt(m)
    BY <1>1, StillTheSame
  <2>2. QED
    BY <1>1, <1>2, <1>3, <1>7, <1>13, <2>1 DEF QueuesOK
<1>15. RowInv'
  BY <1>1, <1>14, StillTheSame DEF RowInv
<1>16. QED
  BY <1>1, <1>2, <1>5, <1>7, <1>8, <1>9, <1>11, <1>15

LEMMA RowsStart == RowInit => RowInv
BY EmptyElements DEF RowInit, RowInv, ChainOK, RelationOK, QueuesOK, Flows

LEMMA RowsKept ==
    ASSUME RowInv, [RowNext]_rowVars PROVE RowInv'
<1>1. CASE ParseTerm
  BY <1>1, StillDeclared DEF ParseTerm, MayGrow, Flows
<1>2. CASE Normalise
  BY <1>2, StillDeclared DEF Normalise, Flows
<1>3. CASE DeclareStream
  BY <1>3, StreamDeclared
<1>4. CASE DeclareRelation
  BY <1>4, RelationDeclared
<1>5. CASE Insert
  BY <1>5, RowInserted
<1>6. CASE Select
  BY <1>6, SelectDeclared
<1>7. CASE Project
  BY <1>7, ProjectDeclared
<1>8. CASE Combine
  BY <1>8, CombineDeclared
<1>9. CASE Mean
  BY <1>9, MeanDeclared
<1>10. CASE Elect
  BY <1>10, ElectDeclared
<1>11. CASE Run
  BY <1>11, QueryRuns
<1>12. CASE Send
  BY <1>12, TupleSent
<1>13. CASE \E n \in DOMAIN chain : Process(n)
  BY <1>13, TupleProcessed
<1>14. CASE UNCHANGED rowVars
  <2>1. UNCHANGED <<chain, relation, queues, stage>>
    BY <1>14 DEF rowVars
  <2>2. ChainOK' /\ RelationOK' /\ \A n : SchemaAt(n)' = SchemaAt(n)
    BY <2>1, StillTheSame
  <2>3. QueuesOK'
    BY <2>1, <2>2 DEF RowInv, QueuesOK, Flows
  <2>4. QED
    BY <2>2, <2>3 DEF RowInv
<1>15. QED
  BY <1>1, <1>2, <1>3, <1>4, <1>5, <1>6, <1>7, <1>8, <1>9, <1>10, <1>11, <1>12, <1>13, <1>14
  DEF RowNext

(* The invariant of a query on typed tuples holds at all times: what each  *)
(* operator makes of the schema it reads, and that the tuples of each      *)
(* stream are of its schema.                                               *)
THEOREM RowsInductive == RowSpec => []RowInv
BY RowsStart, RowsKept, PTL DEF RowSpec

(* For all declarations, values and conditions: what comes out of an       *)
(* operator is no null pointer, and its data are of the schema that was    *)
(* declared for the output (tuple.h:127, operator-projection.h:65-81).     *)
THEOREM RowsFitSchemas == RowSpec => []RowsObeySchemas
<1>1. ASSUME RowInv PROVE RowsObeySchemas
  <2>1. SUFFICES ASSUME stage = "running", NEW n \in DOMAIN chain, NEW m \in DOMAIN queues[n]
                 PROVE  LET tuple == queues[n][m]
                        IN  /\ ~tuple.null /\ tuple.schema = chain[n].schema
                            /\ ValidData(chain[n].schema, tuple.data)
    BY DEF RowsObeySchemas
  <2>2. n \in 0 .. Len(chain) /\ SchemaAt(n) = chain[n].schema
    BY <1>1, ChainShape, InputOf DEF RowInv
  <2>3. \A tuple \in ToSet(queues[n]) : RowOK(tuple, chain[n].schema)
    BY <1>1, <2>1, <2>2 DEF RowInv, QueuesOK, Flows
  <2>4. queues[n][m] \in ToSet(queues[n])
    BY <2>1 DEF ToSet
  <2>5. QED
    BY <2>3, <2>4 DEF RowOK
<1>2. QED
  BY <1>1, RowsInductive, PTL
-----------------------------------------------------------------------------
(* What a name means in the tuples of a stream                             *)

BroughtBy(name, n) ==
    /\ \E m \in 1 .. n : chain[m].kind = "combine"
    /\ HasAttribute(relation[1].schema, name)

OriginsAt(n, tuple, name) ==
    IF BroughtBy(name, n) THEN ToSet(relation[1].rows)
    ELSE {origin \in ToSet(sent) : origin.arrived = tuple.arrived}

Meant(n, tuple) ==
    \A name \in DOMAIN SchemaAt(n).index :
        \E origin \in OriginsAt(n, tuple, name) : ValueOf(tuple, name) = ValueOf(origin, name)

NoMean(n) == \A m \in 1 .. n : chain[m].kind # "mean"

NamesInv ==
    /\ IsSequence(sent)
    /\ Flows => \A n \in 0 .. Len(chain) :
                    NoMean(n) => \A tuple \in ToSet(queues[n]) : Meant(n, tuple)

(* A name of a schema means the last attribute of that name. *)
LEMMA NamedAttribute ==
    ASSUME NEW schema, SchemaOK(schema), NEW name \in DOMAIN schema.index
    PROVE  /\ schema.index[name] \in DOMAIN schema.attributes
           /\ schema.attributes[schema.index[name]].name = name
           /\ \A l \in DOMAIN schema.attributes :
                  schema.attributes[l].name = name => l <= schema.index[name]
<1>1. PICK attributes, index : attributes = schema.attributes /\ index = schema.index
  OBVIOUS
<1>2. /\ attributes \in Seq(AttributeRecords)
      /\ DOMAIN index = {attributes[k].name : k \in DOMAIN attributes}
      /\ \A k \in DOMAIN attributes :
             /\ index[attributes[k].name] \in k .. Len(attributes)
             /\ attributes[index[attributes[k].name]].name = attributes[k].name
  BY <1>1 DEF SchemaOK
<1>3. DOMAIN attributes = 1 .. Len(attributes) /\ Len(attributes) \in Nat
  BY <1>2
<1>4. PICK k \in DOMAIN attributes : attributes[k].name = name
  BY <1>1, <1>2
<1>5. index[name] \in DOMAIN attributes /\ attributes[index[name]].name = name
  BY <1>2, <1>3, <1>4
<1>6. ASSUME NEW l \in DOMAIN attributes, attributes[l].name = name PROVE l <= index[name]
  BY <1>2, <1>3, <1>6
<1>7. QED
  BY <1>1, <1>5, <1>6

LEMMA NamedValue ==
    ASSUME NEW schema, SchemaOK(schema), NEW tuple, RowOK(tuple, schema),
           NEW name \in DOMAIN schema.index
    PROVE  ValueOf(tuple, name) = tuple.data[schema.index[name]]
<1>1. schema.index[name] \in DOMAIN schema.attributes
  BY NamedAttribute
<1>2. Len(tuple.data) = Len(schema.attributes) /\ IsSequence(tuple.data) /\ tuple.schema = schema
  BY DEF RowOK, ValidData
<1>3. DOMAIN tuple.data = 1 .. Len(tuple.data)
  BY <1>2 DEF IsSequence
<1>4. DOMAIN schema.attributes = 1 .. Len(schema.attributes)
  BY DEF SchemaOK
<1>5. schema.index[name] \in DOMAIN tuple.data
  BY <1>1, <1>2, <1>3, <1>4
<1>6. QED
  BY <1>2, <1>5 DEF ValueOf, ValueAt, IndexOf, HasAttribute

(* In the schema of a pair, a name that both have means that of the right. *)
LEMMA NamesOfPair ==
    ASSUME NEW left, SchemaOK(left), NEW right, SchemaOK(right),
           NEW pair, pair = ConcatSchemas(left, right), NEW name \in DOMAIN pair.index
    PROVE  IF name \in DOMAIN right.index
           THEN pair.index[name] = Len(left.attributes) + right.index[name]
           ELSE name \in DOMAIN left.index /\ pair.index[name] = left.index[name]
<1>1. SchemaOK(pair) /\ pair.attributes = left.attributes \o right.attributes
  BY SchemaOfPair
<1>2. PICK l, r, all, p, q, i :
          /\ l = left.attributes /\ r = right.attributes /\ all = pair.attributes
          /\ p = Len(l) /\ q = Len(r) /\ i = pair.index[name]
  OBVIOUS
<1>3. /\ l \in Seq(AttributeRecords) /\ r \in Seq(AttributeRecords) /\ all = l \o r
      /\ DOMAIN left.index = {l[k].name : k \in DOMAIN l}
      /\ DOMAIN right.index = {r[k].name : k \in DOMAIN r}
  <2>1. all = l \o r
    BY <1>1, <1>2
  <2>2. l \in Seq(AttributeRecords) /\ DOMAIN left.index = {l[k].name : k \in DOMAIN l}
    BY ONLY <1>2, SchemaOK(left) DEF SchemaOK
  <2>3. r \in Seq(AttributeRecords) /\ DOMAIN right.index = {r[k].name : k \in DOMAIN r}
    BY ONLY <1>2, SchemaOK(right) DEF SchemaOK
  <2>4. QED
    BY <2>1, <2>2, <2>3
<1>4. /\ p \in Nat /\ q \in Nat /\ DOMAIN l = 1 .. p /\ DOMAIN r = 1 .. q /\ DOMAIN all = 1 .. p + q
  BY <1>2, <1>3
<1>5. \A k \in 1 .. p + q : all[k] = IF k <= p THEN l[k] ELSE r[k - p]
  BY <1>2, <1>3, ConcatProperties
<1>6. /\ i \in 1 .. p + q /\ all[i].name = name
      /\ \A k \in 1 .. p + q : all[k].name = name => k <= i
  BY <1>1, <1>2, <1>4, NamedAttribute
<1>7. CASE name \in DOMAIN right.index
  <2>1. PICK j : j = right.index[name] /\ j \in 1 .. q /\ r[j].name = name
                 /\ \A k \in 1 .. q : r[k].name = name => k <= j
    BY <1>2, <1>4, <1>7, NamedAttribute
  <2>2. p + j \in 1 .. p + q /\ ~(p + j <= p) /\ (p + j) - p = j
    <3>1. p \in Nat /\ q \in Nat /\ j \in 1 .. q
      BY <1>4, <2>1
    <3>2. QED
      BY ONLY <3>1
  <2>3. all[p + j].name = name
    BY <1>5, <2>1, <2>2
  <2>4. p + j <= i
    BY <1>6, <2>2, <2>3
  <2>5. i - p \in 1 .. q /\ ~(i <= p)
    BY <1>4, <1>6, <2>1, <2>4
  <2>6. r[i - p].name = name
    BY <1>5, <1>6, <2>5
  <2>7. i - p <= j
    BY <2>1, <2>5, <2>6
  <2>8. i = p + j
    BY <1>4, <1>6, <2>1, <2>4, <2>7
  <2>9. QED
    BY <1>2, <1>7, <2>1, <2>8
<1>8. CASE name \notin DOMAIN right.index
  <2>1. i <= p
    <3>1. SUFFICES ASSUME ~(i <= p) PROVE FALSE
      OBVIOUS
    <3>2. i - p \in 1 .. q
      BY <1>4, <1>6, <3>1
    <3>3. r[i - p].name = name
      BY <1>5, <1>6, <3>1
    <3>4. QED
      BY <1>3, <1>4, <1>8, <3>2, <3>3
  <2>2. i \in 1 .. p /\ l[i].name = name
    BY <1>4, <1>5, <1>6, <2>1
  <2>3. name \in DOMAIN left.index
    BY <1>3, <1>4, <2>2
  <2>4. PICK j : j = left.index[name] /\ j \in 1 .. p /\ l[j].name = name
                 /\ \A k \in 1 .. p : l[k].name = name => k <= j
    BY <1>2, <1>4, <2>3, NamedAttribute
  <2>5. j \in 1 .. p + q /\ j <= p
    BY <1>4, <2>4
  <2>6. all[j].name = name
    BY <1>5, <2>4, <2>5
  <2>7. j <= i
    BY <1>6, <2>5, <2>6
  <2>8. i <= j
    BY <2>2, <2>4
  <2>9. i = j
    BY <2>2, <2>4, <2>7, <2>8
  <2>10. QED
    BY <1>2, <1>8, <2>3, <2>4, <2>9
<1>9. QED
  BY <1>7, <1>8

(* What comes out of an operator means what the tuple that went in did. *)
LEMMA MeaningThroughProject ==
    ASSUME RowInv, NEW n \in DOMAIN chain, NEW tuple, RowOK(tuple, SchemaAt(n - 1)),
           NEW t, RowOK(t, chain[n].schema), ProjectedRow(n, tuple, t),
           NEW name \in DOMAIN chain[n].schema.index
    PROVE  name \in DOMAIN SchemaAt(n - 1).index /\ ValueOf(t, name) = ValueOf(tuple, name)
<1>1. PICK operator, input : operator = chain[n] /\ input = SchemaAt(n - 1)
  OBVIOUS
<1>2. PICK schema, positions : schema = operator.schema /\ positions = operator.positions
  OBVIOUS
<1>3. SchemaOK(input) /\ SchemaOK(schema)
  BY <1>1, <1>2, InputOf DEF RowInv
<1>4. /\ DOMAIN positions = DOMAIN schema.attributes
      /\ \A k \in DOMAIN positions :
             /\ positions[k] \in DOMAIN input.attributes
             /\ schema.attributes[k] = input.attributes[positions[k]]
             /\ positions[k] = input.index[schema.attributes[k].name]
             /\ t.data[k] = tuple.data[positions[k]]
  BY <1>1, <1>2 DEF ProjectedRow, OperatorOK
<1>5. PICK p : p = schema.index[name] /\ p \in DOMAIN schema.attributes
               /\ schema.attributes[p].name = name
  BY <1>1, <1>2, <1>3, NamedAttribute
<1>6. positions[p] = input.index[name] /\ input.attributes[positions[p]].name = name
  BY <1>4, <1>5
<1>7. name \in DOMAIN input.index
  BY <1>3, <1>4, <1>5, <1>6 DEF SchemaOK
<1>8. ValueOf(tuple, name) = tuple.data[input.index[name]]
  BY <1>1, <1>3, <1>7, NamedValue
<1>9. ValueOf(t, name) = t.data[p]
  BY <1>1, <1>2, <1>3, <1>5, NamedValue
<1>10. QED
  BY <1>1, <1>4, <1>5, <1>6, <1>7, <1>8, <1>9

LEMMA MeaningThroughCombine ==
    ASSUME RowInv, NEW n \in DOMAIN chain, NEW tuple, RowOK(tuple, SchemaAt(n - 1)),
           NEW t, RowOK(t, chain[n].schema), CombinedRow(n, tuple, t),
           NEW name \in DOMAIN chain[n].schema.index
    PROVE  IF HasAttribute(relation[1].schema, name)
           THEN \E row \in ToSet(relation[1].rows) : ValueOf(t, name) = ValueOf(row, name)
           ELSE name \in DOMAIN SchemaAt(n - 1).index /\ ValueOf(t, name) = ValueOf(tuple, name)
<1>1. PICK input, schema, brought :
          input = SchemaAt(n - 1) /\ schema = chain[n].schema /\ brought = relation[1].schema
  OBVIOUS
<1>2. SchemaOK(input) /\ SchemaOK(schema) /\ RelationOK
  BY <1>1, InputOf DEF RowInv
<1>3. relation # <<>> /\ schema = ConcatSchemas(input, brought)
  BY <1>1 DEF CombinedRow, OperatorOK
<1>4. SchemaOK(brought)
  BY <1>1, <1>2, <1>3 DEF RelationOK
<1>5. PICK row \in ToSet(relation[1].rows) : RowOK(row, brought) /\ t.data = tuple.data \o row.data
  BY <1>1 DEF CombinedRow
<1>6. PICK left, right, all : left = tuple.data /\ right = row.data /\ all = t.data
  OBVIOUS
<1>7. IsSequence(left) /\ IsSequence(right) /\ Len(left) = Len(input.attributes)
      /\ Len(right) = Len(brought.attributes)
  BY <1>1, <1>5, <1>6 DEF RowOK, ValidData
<1>8. PICK p, q : p = Len(left) /\ q = Len(right) /\ p \in Nat /\ q \in Nat
  <2>1. left \in Seq(ToSet(left)) /\ right \in Seq(ToSet(right))
    BY <1>7 DEF IsSequence
  <2>2. Len(left) \in Nat /\ Len(right) \in Nat
    BY <2>1
  <2>3. QED
    BY <2>2
<1>9. \A k \in 1 .. p + q : all[k] = IF k <= p THEN left[k] ELSE right[k - p]
  <2>1. PICK S : S = ToSet(left) \cup ToSet(right)
    OBVIOUS
  <2>2. left \in Seq(ToSet(left)) /\ right \in Seq(ToSet(right))
    BY <1>7 DEF IsSequence
  <2>3. left \in Seq(S) /\ right \in Seq(S)
    BY <2>1, <2>2
  <2>4. all = left \o right
    BY <1>5, <1>6
  <2>5. QED
    BY ONLY <1>8, <2>3, <2>4, ConcatProperties
<1>10. ValueOf(t, name) = all[schema.index[name]]
  BY <1>1, <1>2, <1>6, NamedValue
<1>11. CASE name \in DOMAIN brought.index
  <2>1. PICK j : j = brought.index[name] /\ j \in DOMAIN brought.attributes
    BY <1>4, <1>11, NamedAttribute
  <2>2. DOMAIN brought.attributes = 1 .. q
    BY <1>4, <1>7, <1>8 DEF SchemaOK
  <2>3. schema.index[name] = p + j
    BY <1>1, <1>2, <1>3, <1>4, <1>7, <1>8, <1>11, <2>1, NamesOfPair
  <2>4. p + j \in 1 .. p + q /\ ~(p + j <= p) /\ (p + j) - p = j
    BY <1>8, <2>1, <2>2
  <2>5. ValueOf(t, name) = right[j]
    BY <1>9, <1>10, <2>3, <2>4
  <2>6. ValueOf(row, name) = right[j]
    BY <1>4, <1>5, <1>6, <1>11, <2>1, NamedValue
  <2>7. QED
    BY <1>1, <1>5, <1>11, <2>5, <2>6 DEF HasAttribute
<1>12. CASE name \notin DOMAIN brought.index
  <2>1. name \in DOMAIN input.index /\ schema.index[name] = input.index[name]
    BY <1>1, <1>2, <1>3, <1>4, <1>12, NamesOfPair
  <2>2. PICK j : j = input.index[name] /\ j \in DOMAIN input.attributes
    BY <1>2, <2>1, NamedAttribute
  <2>3. DOMAIN input.attributes = 1 .. p
    BY <1>2, <1>7, <1>8 DEF SchemaOK
  <2>4. j \in 1 .. p + q /\ j <= p
    BY <1>8, <2>2, <2>3
  <2>5. ValueOf(t, name) = left[j]
    BY <1>9, <1>10, <2>1, <2>2, <2>4
  <2>6. ValueOf(tuple, name) = left[j]
    BY <1>1, <1>2, <1>6, <2>1, <2>2, NamedValue
  <2>7. QED
    BY <1>1, <1>12, <2>1, <2>5, <2>6 DEF HasAttribute
<1>13. QED
  BY <1>11, <1>12

LEMMA MeaningKept ==
    ASSUME RowInv, NEW n \in DOMAIN chain, NEW tuple, RowOK(tuple, SchemaAt(n - 1)),
           Meant(n - 1, tuple), NEW t, RowOK(t, chain[n].schema), ComesOf(n, tuple, t)
    PROVE  Meant(n, t)
<1>1. /\ SchemaAt(n) = chain[n].schema /\ n \in 1 .. Len(chain) /\ t.arrived = tuple.arrived
      /\ Len(chain) \in Nat
  BY InputOf, ChainShape DEF RowInv, ComesOf
<1>2. SUFFICES ASSUME NEW name \in DOMAIN chain[n].schema.index
               PROVE  \E origin \in OriginsAt(n, t, name) : ValueOf(t, name) = ValueOf(origin, name)
  BY <1>1 DEF Meant
<1>3. ASSUME name \in DOMAIN SchemaAt(n - 1).index, ValueOf(t, name) = ValueOf(tuple, name),
             chain[n].kind # "combine" \/ ~HasAttribute(relation[1].schema, name)
      PROVE  \E origin \in OriginsAt(n, t, name) : ValueOf(t, name) = ValueOf(origin, name)
  <2>1. PICK origin \in OriginsAt(n - 1, tuple, name) : ValueOf(tuple, name) = ValueOf(origin, name)
    BY <1>3 DEF Meant
  <2>2. BroughtBy(name, n) <=> BroughtBy(name, n - 1)
    <3>1. \A m : m \in 1 .. n <=> m \in 1 .. n - 1 \/ m = n
      BY <1>1
    <3>2. QED
      BY <1>3, <3>1 DEF BroughtBy
  <2>3. origin \in OriginsAt(n, t, name)
    BY <1>1, <2>1, <2>2 DEF OriginsAt
  <2>4. QED
    BY <1>3, <2>1, <2>3
<1>4. CASE SameRow(n, tuple, t) /\ chain[n].kind \notin {"project", "combine"}
  BY <1>3, <1>4 DEF SameRow
<1>5. CASE ProjectedRow(n, tuple, t)
  <2>1. chain[n].kind = "project"
    BY <1>5 DEF ProjectedRow
  <2>2. name \in DOMAIN SchemaAt(n - 1).index /\ ValueOf(t, name) = ValueOf(tuple, name)
    BY <1>2, <1>5, MeaningThroughProject
  <2>3. QED
    BY <1>3, <2>1, <2>2
<1>6. CASE CombinedRow(n, tuple, t)
  <2>1. IF HasAttribute(relation[1].schema, name)
        THEN \E row \in ToSet(relation[1].rows) : ValueOf(t, name) = ValueOf(row, name)
        ELSE name \in DOMAIN SchemaAt(n - 1).index /\ ValueOf(t, name) = ValueOf(tuple, name)
    BY <1>2, <1>6, MeaningThroughCombine
  <2>2. CASE HasAttribute(relation[1].schema, name)
    <3>1. n \in 1 .. n /\ chain[n].kind = "combine"
      BY <1>1, <1>6 DEF CombinedRow
    <3>2. OriginsAt(n, t, name) = ToSet(relation[1].rows)
      BY <2>2, <3>1 DEF OriginsAt, BroughtBy
    <3>3. QED
      BY <2>1, <2>2, <3>2
  <2>3. CASE ~HasAttribute(relation[1].schema, name)
    BY <1>3, <2>1, <2>3
  <2>4. QED
    BY <2>2, <2>3
<1>7. QED
  BY <1>4, <1>5, <1>6 DEF ComesOf

LEMMA NamesStart == RowInit => NamesInv
BY EmptyElements DEF RowInit, NamesInv, Flows

LEMMA NamesInSent ==
    ASSUME RowInv, NamesInv, Send PROVE NamesInv'
<1>1. PICK tuple :
          /\ sent' = Append(sent, tuple) /\ RowOK(tuple, chain[1].schema)
          /\ ToSet(queues'[0]) \subseteq ToSet(queues[0]) \cup {tuple}
          /\ \A n \in 1 .. Len(chain) : queues'[n] = queues[n]
  BY TupleSent
<1>2. UNCHANGED <<chain, relation>> /\ stage = "running" /\ Len(chain) \in Nat
  BY TupleSent, ChainShape DEF Send, RowInv
<1>3. IsSequence(sent') /\ ToSet(sent) \subseteq ToSet(sent') /\ tuple \in ToSet(sent')
  <2>1. IsSequence(sent)
    BY DEF NamesInv
  <2>2. sent \in Seq(ToSet(sent) \cup {tuple})
    BY <2>1 DEF IsSequence
  <2>3. PICK before, after : before = sent /\ after = Append(before, tuple)
    OBVIOUS
  <2>4. /\ DOMAIN after = 1 .. Len(before) + 1 /\ DOMAIN before = 1 .. Len(before)
        /\ Len(before) \in Nat /\ after[Len(before) + 1] = tuple
        /\ \A k \in 1 .. Len(before) : after[k] = before[k]
    BY <2>2, <2>3
  <2>5. ToSet(before) \subseteq ToSet(after) /\ tuple \in ToSet(after)
    BY <2>4 DEF ToSet
  <2>6. IsSequence(Append(sent, tuple))
    BY <2>1, AppendedElements
  <2>7. QED
    BY <1>1, <2>3, <2>5, <2>6
<1>4. ASSUME NEW n, NEW t, NEW name
      PROVE  OriginsAt(n, t, name) \subseteq OriginsAt(n, t, name)'
  BY <1>2, <1>3 DEF OriginsAt, BroughtBy
<1>5. ASSUME NEW n \in 0 .. Len(chain), NEW t, Meant(n, t) PROVE Meant(n, t)'
  BY <1>2, <1>4, <1>5 DEF Meant, SchemaAt
<1>6. Meant(0, tuple)'
  <2>1. ASSUME NEW name PROVE tuple \in OriginsAt(0, tuple, name)'
    BY <1>3 DEF OriginsAt, BroughtBy
  <2>2. QED
    BY <2>1 DEF Meant
<1>7. ASSUME NEW n \in 0 .. Len(chain), NoMean(n), NEW t \in ToSet(queues'[n]) PROVE Meant(n, t)'
  <2>1. CASE t \in ToSet(queues[n])
    BY <1>2, <1>5, <1>7, <2>1 DEF NamesInv, Flows
  <2>2. CASE t \notin ToSet(queues[n])
    <3>1. n = 0
      BY <1>1, <1>2, <1>7, <2>2
    <3>2. t = tuple
      BY <1>1, <1>7, <2>2, <3>1
    <3>3. QED
      BY <1>6, <3>1, <3>2
  <2>3. QED
    BY <2>1, <2>2
<1>8. QED
  BY <1>2, <1>3, <1>7 DEF NamesInv, NoMean

LEMMA NamesInProcessed ==
    ASSUME RowInv, NamesInv, NEW n \in DOMAIN chain, Process(n) PROVE NamesInv'
<1>1. PICK tuple \in ToSet(queues[n - 1]) :
          /\ RowOK(tuple, SchemaAt(n - 1))
          /\ ToSet(queues'[n - 1]) \subseteq ToSet(queues[n - 1])
          /\ \A t \in ToSet(queues'[n]) : \/ t \in ToSet(queues[n])
                                          \/ t \in ToSet(Processed(n, tuple).out)
          /\ \A m \in 0 .. Len(chain) : m \notin {n - 1, n} => queues'[m] = queues[m]
  BY TupleProcessed
<1>2. UNCHANGED <<chain, relation, sent>> /\ stage = "running"
  BY TupleProcessed
<1>3. Len(chain) \in Nat /\ n \in 1 .. Len(chain)
  BY ChainShape DEF RowInv
<1>4. ASSUME NEW m, NEW t PROVE Meant(m, t)' <=> Meant(m, t)
  BY <1>2 DEF Meant, OriginsAt, BroughtBy, SchemaAt
<1>5. \A m \in 0 .. Len(chain) : NoMean(m) => \A t \in ToSet(queues[m]) : Meant(m, t)
  BY <1>2 DEF NamesInv, Flows
<1>6. ASSUME NEW m \in 0 .. Len(chain), NoMean(m), NEW t \in ToSet(queues'[m]) PROVE Meant(m, t)
  <2>1. CASE m # n
    <3>1. t \in ToSet(queues[m])
      BY <1>1, <1>6, <2>1
    <3>2. QED
      BY <1>5, <1>6, <3>1
  <2>2. CASE m = n /\ t \in ToSet(queues[n])
    BY <1>5, <1>6, <2>2
  <2>3. CASE m = n /\ t \in ToSet(Processed(n, tuple).out)
    <3>1. chain[n].kind # "mean" /\ NoMean(n - 1) /\ n - 1 \in 0 .. Len(chain)
      BY <1>3, <1>6, <2>3 DEF NoMean
    <3>2. RowOK(t, chain[n].schema) /\ ComesOf(n, tuple, t)
      BY <1>1, <2>3, <3>1, OutputOf
    <3>3. Meant(n - 1, tuple)
      BY <1>1, <1>5, <3>1
    <3>4. QED
      BY <1>1, <2>3, <3>2, <3>3, MeaningKept
  <2>4. QED
    BY <1>1, <1>6, <2>1, <2>2, <2>3
<1>7. QED
  BY <1>2, <1>4, <1>6 DEF NamesInv, NoMean

LEMMA NamesKept ==
    ASSUME RowInv, NamesInv, [RowNext]_rowVars PROVE NamesInv'
<1>1. CASE /\ ~Flows' /\ UNCHANGED sent
  BY <1>1 DEF NamesInv
<1>2. CASE ParseTerm \/ Normalise \/ DeclareStream \/ DeclareRelation \/ Insert
  BY <1>1, <1>2 DEF ParseTerm, Normalise, DeclareStream, DeclareRelation, Insert, MayGrow, flowing, Flows
<1>3. CASE Select \/ Project \/ Combine \/ Mean \/ Elect
  BY <1>1, <1>3 DEF Select, Project, Combine, Mean, Elect, MayGrow, flowing, Flows
<1>4. CASE Run
  BY <1>4, EmptyElements DEF Run, declared, NamesInv
<1>5. CASE Send
  BY <1>5, NamesInSent
<1>6. CASE \E n \in DOMAIN chain : Process(n)
  BY <1>6, NamesInProcessed
<1>7. CASE UNCHANGED rowVars
  BY <1>7 DEF rowVars, NamesInv, Flows, NoMean, Meant, OriginsAt, BroughtBy, SchemaAt
<1>8. QED
  BY <1>2, <1>3, <1>4, <1>5, <1>6, <1>7 DEF RowNext

(* For all declarations, values and conditions: before the first mean, a   *)
(* name has in every tuple the value that it had in the tuple sent, or in  *)
(* a row of the relation whose attribute of that name a combine has        *)
(* brought (schema.h:94, tuple.h:185-197).                                 *)
THEOREM NamesKeepMeaning == RowSpec => []NamesKeepTheirMeaning
<1>1. ASSUME RowInv, NamesInv PROVE NamesKeepTheirMeaning
  <2>1. SUFFICES ASSUME stage = "running", NEW n \in DOMAIN chain,
                        \A m \in 1 .. n : chain[m].kind # "mean",
                        NEW m \in DOMAIN queues[n], NEW name \in DOMAIN chain[n].schema.index
                 PROVE  \E origin \in IF /\ \E operator \in {chain[k] : k \in 1 .. n} :
                                                operator.kind = "combine"
                                         /\ HasAttribute(relation[1].schema, name)
                                      THEN ToSet(relation[1].rows)
                                      ELSE {origin \in ToSet(sent) :
                                                origin.arrived = queues[n][m].arrived} :
                            ValueOf(queues[n][m], name) = ValueOf(origin, name)
    BY DEF NamesKeepTheirMeaning
  <2>2. n \in 0 .. Len(chain) /\ SchemaAt(n) = chain[n].schema
    BY <1>1, ChainShape, InputOf DEF RowInv
  <2>3. PICK tuple : tuple = queues[n][m] /\ tuple \in ToSet(queues[n])
    BY <2>1 DEF ToSet
  <2>4. Meant(n, tuple)
    BY <1>1, <2>1, <2>2, <2>3 DEF NamesInv, Flows, NoMean
  <2>5. PICK origin \in OriginsAt(n, tuple, name) : ValueOf(tuple, name) = ValueOf(origin, name)
    BY <2>1, <2>2, <2>4 DEF Meant
  <2>6. QED
    BY <2>3, <2>5 DEF OriginsAt, BroughtBy
<1>2. RowSpec => []NamesInv
  <2>1. RowInit => NamesInv
    BY NamesStart
  <2>2. ASSUME RowInv, NamesInv, [RowNext]_rowVars PROVE NamesInv'
    BY <2>2, NamesKept
  <2>3. QED
    BY <2>1, <2>2, RowsInductive, PTL DEF RowSpec
<1>3. QED
  BY <1>1, <1>2, RowsInductive, PTL
=============================================================================
