--------------------- MODULE RelationTransactionProofs ---------------------
(***************************************************************************)
(* Proofs about RelationTransaction, for any number of relations,          *)
(* reference operators and updaters and in every concurrency-control mode. *)
(*                                                                         *)
(* The inductive invariant IInv adds to the properties what they rest on:  *)
(* who owns which mutex and how often (MutexInv, LockAccounting), how far  *)
(* the walk that ends a transaction has come (WalkInv), and which version  *)
(* every operator can have seen so far (SeenInv).                          *)
(***************************************************************************)
EXTENDS RelationTransaction, FiniteSetTheorems, TLAPS

(* A mutex is free exactly at depth 0, and an updater owns the mutex of its *)
(* relation, and no other and only once, exactly while it is not away.      *)
MutexInv ==
    /\ \A r \in Relations : relation[r].owner = NoThread <=> relation[r].depth = 0
    /\ \A u \in Updaters : updater[u] # "away" <=> relation[UpdatedBy[u]].owner = u
    /\ \A r \in Relations, u \in Updaters :
           relation[r].owner = u => r = UpdatedBy[u] /\ relation[r].depth = 1
    /\ \A u \in Updaters :
           updater[u] = "locked" => relation[UpdatedBy[u]].version < MaxVersion

(* Inside an operation its operator has begun; the walk at the end of a    *)
(* transaction exists in the pessimistic modes only, and the operators it  *)
(* has passed are as if they had not begun.                                *)
WalkInv ==
    /\ query.at = "matching" => ~first_time[query.op]
    /\ query.at = "ending" =>
           /\ cc_mode \in PessimisticModes
           /\ \A j \in Ops : j < query.op => first_time[j]

(* What each operator can have seen. *)
SeenInv ==
    /\ (query.at # "ending" /\ cc_mode \in PessimisticModes)
           => \A i \in Ops : first_time[i] => seen[i] = {}
    /\ (query.at # "ending" /\ cc_mode = "PESSIMISTIC_2PL")
           => \A i \in Ops : seen[i] \subseteq {relation[RelationOf[i]].version}
    /\ cc_mode = "PESSIMISTIC_SNAPSHOT"
           => \A i \in Ops : seen[i] \subseteq {snapshot[i]}
    /\ (query.at = "matching" /\ cc_mode \notin PessimisticModes)
           => seen[query.op] \subseteq {relation[RelationOf[query.op]].version}
    /\ OperatorReadsOneVersion
    /\ TransactionReadsOneVersion

IInv == TypeOK /\ MutexInv /\ LockAccounting /\ WalkInv /\ SeenInv
-----------------------------------------------------------------------------
USE ConstantsAssumption

(* The walk's and the operations' control records are told apart by their  *)
(* fields.                                                                 *)
LEMMA ControlFields ==
    /\ Idle.at = "idle"
    /\ \A i \in Ops : /\ Matching(i).at = "matching" /\ Matching(i).op = i
                      /\ Ending(i).at = "ending" /\ Ending(i).op = i
BY DEF Idle, Matching, Ending

(* Locking and unlocking keep a relation's type.                           *)
LEMMA LockedType ==
    ASSUME NEW rel \in RelationType, NEW t \in Threads
    PROVE  /\ Rel!Locked(rel, t) \in RelationType
           /\ Rel!Locked(rel, t).version = rel.version
           /\ Rel!Locked(rel, t).owner = t
           /\ Rel!Locked(rel, t).depth = rel.depth + 1
<1>1. rel.depth + 1 \in Nat
  BY DEF RelationType
<1>2. QED
  BY <1>1 DEF RelationType, Rel!Locked

LEMMA UnlockedType ==
    ASSUME NEW rel \in RelationType, NEW t \in Threads,
           rel.owner = NoThread <=> rel.depth = 0
    PROVE  /\ Rel!Unlocked(rel, t) \in RelationType
           /\ Rel!Unlocked(rel, t).version = rel.version
           /\ rel.owner # t => Rel!Unlocked(rel, t) = rel
           /\ (rel.owner = t /\ rel.depth = 1)
                  => Rel!Unlocked(rel, t).owner = NoThread /\ Rel!Unlocked(rel, t).depth = 0
           /\ (rel.owner = t /\ rel.depth # 1)
                  => Rel!Unlocked(rel, t).owner = t /\ Rel!Unlocked(rel, t).depth = rel.depth - 1
<1>1. rel.owner = t => rel.depth - 1 \in Nat
  BY DEF RelationType, Threads
<1>2. CASE rel.owner # t
  BY <1>2 DEF RelationType, Rel!Unlocked
<1>3. CASE rel.owner = t /\ rel.depth = 1
  <2>1. Rel!Unlocked(rel, t) = [rel EXCEPT !.depth = 0, !.owner = NoThread]
    BY <1>3 DEF Rel!Unlocked
  <2>2. [rel EXCEPT !.depth = 0, !.owner = NoThread] \in RelationType
    BY DEF RelationType
  <2>3. /\ [rel EXCEPT !.depth = 0, !.owner = NoThread].version = rel.version
        /\ [rel EXCEPT !.depth = 0, !.owner = NoThread].owner = NoThread
        /\ [rel EXCEPT !.depth = 0, !.owner = NoThread].depth = 0
    BY DEF RelationType
  <2>4. QED
    BY <1>3, <2>1, <2>2, <2>3
<1>4. CASE rel.owner = t /\ rel.depth # 1
  BY <1>1, <1>4 DEF RelationType, Rel!Unlocked
<1>5. QED
  BY <1>2, <1>3, <1>4

(* The operators that have begun on a relation are finitely many.          *)
LEMMA BegunFinite ==
    ASSUME NEW r \in Relations
    PROVE  /\ IsFiniteSet(BegunOn(r))
           /\ Cardinality(BegunOn(r)) \in Nat
           /\ Cardinality(BegunOn(r)) = 0 <=> BegunOn(r) = {}
<1>1. IsFiniteSet(Ops)
  BY FS_Interval DEF Ops
<1>2. BegunOn(r) \subseteq Ops
  BY DEF BegunOn
<1>3. IsFiniteSet(BegunOn(r))
  BY <1>1, <1>2, FS_Subset
<1>4. QED
  BY <1>3, FS_CardinalityType, FS_EmptySet

(* What one operator's begin and end do to the number of operators that    *)
(* have begun on a relation.                                               *)
LEMMA BegunStep ==
    ASSUME NEW r \in Relations, NEW i \in Ops, NEW b \in BOOLEAN,
           first_time \in [Ops -> BOOLEAN],
           first_time' = [first_time EXCEPT ![i] = b]
    PROVE  /\ RelationOf[i] # r => BegunOn(r)' = BegunOn(r)
           /\ b = first_time[i] => BegunOn(r)' = BegunOn(r)
           /\ (RelationOf[i] = r /\ first_time[i] /\ ~b) =>
                  /\ BegunOn(r)' = BegunOn(r) \cup {i}
                  /\ Cardinality(BegunOn(r)') = Cardinality(BegunOn(r)) + 1
           /\ (RelationOf[i] = r /\ ~first_time[i] /\ b) =>
                  Cardinality(BegunOn(r)') = Cardinality(BegunOn(r)) - 1
<1>1. RelationOf[i] # r => BegunOn(r)' = BegunOn(r)
  BY DEF BegunOn
<1>2. b = first_time[i] => BegunOn(r)' = BegunOn(r)
  BY DEF BegunOn
<1>3. ASSUME RelationOf[i] = r, first_time[i], ~b
      PROVE  /\ BegunOn(r)' = BegunOn(r) \cup {i}
             /\ Cardinality(BegunOn(r)') = Cardinality(BegunOn(r)) + 1
  <2>1. BegunOn(r)' = BegunOn(r) \cup {i} /\ i \notin BegunOn(r)
    BY <1>3 DEF BegunOn
  <2>2. Cardinality(BegunOn(r) \cup {i}) = Cardinality(BegunOn(r)) + 1
    BY <2>1, BegunFinite, FS_AddElement
  <2>3. QED
    BY <2>1, <2>2
<1>4. ASSUME RelationOf[i] = r, ~first_time[i], b
      PROVE  Cardinality(BegunOn(r)') = Cardinality(BegunOn(r)) - 1
  <2>1. BegunOn(r)' = BegunOn(r) \ {i} /\ i \in BegunOn(r)
    BY <1>4 DEF BegunOn
  <2>2. Cardinality(BegunOn(r) \ {i}) = Cardinality(BegunOn(r)) - 1
    BY <2>1, BegunFinite, FS_RemoveElement
  <2>3. QED
    BY <2>1, <2>2
<1>5. QED
  BY <1>1, <1>2, <1>3, <1>4
-----------------------------------------------------------------------------
(* Initially nothing is held, begun or seen. *)
LEMMA InitIInv == Init => IInv
<1> SUFFICES ASSUME Init PROVE IInv
  OBVIOUS
<1> USE DEF Init
<1>1. TypeOK
  BY DEF TypeOK, RelationType, Rel!NewRelation, Threads
<1>2. MutexInv
  BY DEF MutexInv, Rel!NewRelation
<1>3. LockAccounting
  BY DEF LockAccounting, LocksCounted, BegunOn, Rel!NewRelation, Idle
<1>4. WalkInv
  BY DEF WalkInv, Idle
<1>5. SeenInv
  <2>1. query.at = "idle" /\ \A i \in Ops : seen[i] = {}
    BY DEF Idle
  <2>2. QED
    BY <2>1 DEF SeenInv, OperatorReadsOneVersion, TransactionReadsOneVersion
<1>6. QED
  BY <1>1, <1>2, <1>3, <1>4, <1>5 DEF IInv
-----------------------------------------------------------------------------
(* The steps of the updaters. *)

LEMMA UpdaterLockPreserves ==
    ASSUME IInv, NEW u \in Updaters, UpdaterLock(u)
    PROVE  IInv'
<1> USE DEF IInv, UpdaterLock, Rel!Lockable
<1> DEFINE old == relation[UpdatedBy[u]]
           new == relation'[UpdatedBy[u]]
<1>0. /\ UpdatedBy[u] \in Relations
      /\ old.owner = NoThread /\ old.depth = 0
      /\ new \in RelationType /\ new.version = old.version
      /\ new.owner = u /\ new.depth = 1
  <2>1. u \in Threads /\ old \in RelationType
    BY DEF TypeOK, Threads
  <2>2. new = Rel!Locked(old, u)
    BY DEF TypeOK
  <2>3. old.owner = NoThread /\ old.depth = 0
    BY DEF MutexInv
  <2>4. QED
    BY <2>1, <2>2, <2>3, LockedType
<1>1. TypeOK'
  BY <1>0 DEF TypeOK
<1>2. MutexInv'
  BY <1>0 DEF TypeOK, MutexInv, RelationType, Threads
<1>3. \A r \in Relations :
           /\ relation'[r].version = relation[r].version
           /\ relation'[r].owner = Query <=> relation[r].owner = Query
           /\ relation[r].owner = Query => relation'[r].depth = relation[r].depth
  BY <1>0 DEF TypeOK
<1>4. LockAccounting'
  <2>1. SUFFICES ASSUME NEW r \in Relations PROVE LocksCounted(r)'
    BY DEF LockAccounting
  <2>2. LocksCounted(r) /\ UNCHANGED <<cc_mode, query, BegunOn(r)>>
    BY DEF LockAccounting, BegunOn
  <2>3. QED
    BY <1>3, <2>2 DEF LocksCounted
<1>5. WalkInv'
  BY DEF WalkInv
<1>6. SeenInv'
  <2>1. query.at = "matching" => query.op \in Ops
    BY ControlFields DEF TypeOK
  <2>2. \A i \in Ops : relation'[RelationOf[i]].version = relation[RelationOf[i]].version
    BY <1>3, RelationOf \in [Ops -> Relations]
  <2>3. UNCHANGED <<cc_mode, query, first_time, snapshot, seen>>
    OBVIOUS
  <2>4. SeenInv
    OBVIOUS
  <2>5. QED
    BY <2>1, <2>2, <2>3, <2>4 DEF SeenInv, OperatorReadsOneVersion, TransactionReadsOneVersion
<1>7. QED
  BY <1>1, <1>2, <1>4, <1>5, <1>6

(* The version steps only while no operator of the query has begun on the  *)
(* relation: under 2PL because a begun operator holds the mutex, and in    *)
(* the other modes because an operation holds it while it matches.         *)
LEMMA UpdaterUpdatePreserves ==
    ASSUME IInv, NEW u \in Updaters, UpdaterUpdate(u)
    PROVE  IInv'
<1> USE DEF IInv, UpdaterUpdate, Rel!Updated
<1>0. UpdatedBy[u] \in Relations /\ relation[UpdatedBy[u]].owner = u
  BY DEF MutexInv
<1>1. TypeOK'
  BY <1>0 DEF TypeOK, MutexInv, RelationType
<1>2. MutexInv'
  BY <1>0 DEF TypeOK, MutexInv, RelationType, Threads
<1>3. \A r \in Relations : /\ relation'[r].owner = relation[r].owner
                          /\ relation'[r].depth = relation[r].depth
                          /\ relation[r].owner = Query
                                 => relation'[r].version = relation[r].version
  BY <1>0 DEF TypeOK
<1>4. LockAccounting'
  <2>1. SUFFICES ASSUME NEW r \in Relations PROVE LocksCounted(r)'
    BY DEF LockAccounting
  <2>2. LocksCounted(r) /\ UNCHANGED <<cc_mode, query, BegunOn(r)>>
    BY DEF LockAccounting, BegunOn
  <2>3. QED
    BY <1>3, <2>2 DEF LocksCounted
<1>5. WalkInv'
  BY DEF WalkInv
<1>6. SeenInv'
  <2>1. query.at = "matching" => query.op \in Ops
    BY ControlFields DEF TypeOK
  <2>2. ASSUME query.at # "ending", cc_mode = "PESSIMISTIC_2PL", NEW i \in Ops
        PROVE  seen[i] \subseteq {relation'[RelationOf[i]].version}
    <3>1. CASE first_time[i]
      BY <2>2, <3>1 DEF SeenInv, PessimisticModes
    <3>2. CASE ~first_time[i]
      <4>1. i \in BegunOn(RelationOf[i]) /\ RelationOf[i] \in Relations
        BY <3>2 DEF BegunOn
      <4>2. relation[RelationOf[i]].owner = Query
        BY <2>2, <4>1 DEF LockAccounting, LocksCounted
      <4>3. QED
        BY <1>3, <2>2, <4>1, <4>2 DEF SeenInv
    <3>3. QED
      BY <3>1, <3>2
  <2>3. ASSUME query.at = "matching", cc_mode \notin PessimisticModes
        PROVE  seen[query.op] \subseteq {relation'[RelationOf[query.op]].version}
    <3>1. relation[RelationOf[query.op]].owner = Query
      BY <2>1, <2>3 DEF LockAccounting, LocksCounted, PessimisticModes
    <3>2. QED
      BY <1>3, <2>1, <2>3, <3>1 DEF SeenInv
  <2>4. QED
    BY <2>2, <2>3 DEF SeenInv, OperatorReadsOneVersion, TransactionReadsOneVersion
<1>7. QED
  BY <1>1, <1>2, <1>4, <1>5, <1>6

LEMMA UpdaterUnlockPreserves ==
    ASSUME IInv, NEW u \in Updaters, UpdaterUnlock(u)
    PROVE  IInv'
<1> USE DEF IInv, UpdaterUnlock
<1> DEFINE old == relation[UpdatedBy[u]]
           new == relation'[UpdatedBy[u]]
<1>0. /\ UpdatedBy[u] \in Relations
      /\ old.owner = u /\ old.depth = 1
      /\ new \in RelationType /\ new.version = old.version
      /\ new.owner = NoThread /\ new.depth = 0
  <2>1. u \in Threads /\ old \in RelationType
    BY DEF TypeOK, Threads
  <2>2. new = Rel!Unlocked(old, u)
    BY DEF TypeOK
  <2>3. old.owner = u /\ old.depth = 1 /\ (old.owner = NoThread <=> old.depth = 0)
    BY DEF MutexInv
  <2>4. QED
    BY <2>1, <2>2, <2>3, UnlockedType
<1>1. TypeOK'
  BY <1>0 DEF TypeOK
<1>2. MutexInv'
  BY <1>0 DEF TypeOK, MutexInv, RelationType, Threads
<1>3. \A r \in Relations :
           /\ relation'[r].version = relation[r].version
           /\ relation'[r].owner = Query <=> relation[r].owner = Query
           /\ relation[r].owner = Query => relation'[r].depth = relation[r].depth
  BY <1>0 DEF TypeOK
<1>4. LockAccounting'
  <2>1. SUFFICES ASSUME NEW r \in Relations PROVE LocksCounted(r)'
    BY DEF LockAccounting
  <2>2. LocksCounted(r) /\ UNCHANGED <<cc_mode, query, BegunOn(r)>>
    BY DEF LockAccounting, BegunOn
  <2>3. QED
    BY <1>3, <2>2 DEF LocksCounted
<1>5. WalkInv'
  BY DEF WalkInv
<1>6. SeenInv'
  <2>1. query.at = "matching" => query.op \in Ops
    BY ControlFields DEF TypeOK
  <2>2. \A i \in Ops : relation'[RelationOf[i]].version = relation[RelationOf[i]].version
    BY <1>3, RelationOf \in [Ops -> Relations]
  <2>3. UNCHANGED <<cc_mode, query, first_time, snapshot, seen>>
    OBVIOUS
  <2>4. SeenInv
    OBVIOUS
  <2>5. QED
    BY <2>1, <2>2, <2>3, <2>4 DEF SeenInv, OperatorReadsOneVersion, TransactionReadsOneVersion
<1>7. QED
  BY <1>1, <1>2, <1>4, <1>5, <1>6
-----------------------------------------------------------------------------
(* The steps of the query's thread. *)

(* What a lock or unlock by the query of one relation leaves of MutexInv.   *)
LEMMA QueryMutex ==
    ASSUME TypeOK, MutexInv, NEW r \in Relations,
           \/ /\ Rel!Lockable(relation[r], Query)
              /\ relation' = [relation EXCEPT ![r] = Rel!Locked(@, Query)]
           \/ relation' = [relation EXCEPT ![r] = Rel!Unlocked(@, Query)],
           UNCHANGED updater
    PROVE  /\ relation' \in [Relations -> RelationType]
           /\ MutexInv'
           /\ \A s \in Relations : relation'[s].version = relation[s].version
           /\ \A s \in Relations \ {r} : relation'[s] = relation[s]
<1> DEFINE old == relation[r]
           new == relation'[r]
<1>1. Query \in Threads /\ old \in RelationType /\ (old.owner = NoThread <=> old.depth = 0)
  BY DEF TypeOK, MutexInv, Threads
<1>2. \A s \in Relations \ {r} : relation'[s] = relation[s]
  BY DEF TypeOK
<1>3. /\ new \in RelationType /\ new.version = old.version
      /\ new.owner = NoThread <=> new.depth = 0
      /\ (old.owner # Query /\ new.owner # Query) => new = old
      /\ old.owner # new.owner => {old.owner, new.owner} = {NoThread, Query}
  <2>1. CASE Rel!Lockable(old, Query) /\ new = Rel!Locked(old, Query)
    BY <1>1, <2>1, LockedType DEF Rel!Lockable, RelationType
  <2>2. CASE new = Rel!Unlocked(old, Query)
    <3>1. CASE old.owner # Query
      BY <1>1, <2>2, <3>1, UnlockedType
    <3>2. CASE old.owner = Query /\ old.depth = 1
      BY <1>1, <2>2, <3>2, UnlockedType
    <3>3. CASE old.owner = Query /\ old.depth # 1
      BY <1>1, <2>2, <3>3, UnlockedType DEF RelationType
    <3>4. QED
      BY <3>1, <3>2, <3>3
  <2>3. QED
    BY <2>1, <2>2 DEF TypeOK
<1>4. relation' \in [Relations -> RelationType]
  BY <1>2, <1>3 DEF TypeOK
<1>5. \A s \in Relations : relation'[s].version = relation[s].version
  BY <1>2, <1>3
<1>6. \A u \in Updaters, s \in Relations :
          /\ relation'[s].owner = u <=> relation[s].owner = u
          /\ relation[s].owner = u => relation'[s] = relation[s]
  BY <1>2, <1>3
<1>7. MutexInv'
  <2>1. \A s \in Relations : relation'[s].owner = NoThread <=> relation'[s].depth = 0
    BY <1>2, <1>3 DEF MutexInv
  <2>2. QED
    BY <1>5, <1>6, <2>1 DEF MutexInv
<1>8. QED
  BY <1>2, <1>4, <1>5, <1>7

LEMMA ReferenceBeginPreserves ==
    ASSUME IInv, NEW i \in Ops, ReferenceBegin(i)
    PROVE  IInv'
<1> USE DEF IInv, ReferenceBegin
<1> DEFINE r == RelationOf[i]
<1>0. r \in Relations /\ query.at = "idle"
  BY ControlFields
<1>1. /\ relation' \in [Relations -> RelationType]
      /\ MutexInv'
      /\ \A s \in Relations : relation'[s].version = relation[s].version
      /\ \A s \in Relations \ {r} : relation'[s] = relation[s]
  <2>1. CASE TakesLock(i)
    BY <1>0, <2>1, QueryMutex
  <2>2. CASE ~TakesLock(i)
    BY <1>0, <2>2 DEF TypeOK, MutexInv
  <2>3. QED
    BY <2>1, <2>2
<1>2. TypeOK'
  <2>1. relation[r].version \in 0 .. MaxVersion
    BY <1>0 DEF TypeOK, RelationType
  <2>2. QED
    BY <1>1, <2>1 DEF TypeOK
<1>3. query'.at = "matching" /\ query'.op = i
  BY ControlFields
<1>4. LockAccounting'
  <2>1. SUFFICES ASSUME NEW s \in Relations PROVE LocksCounted(s)'
    BY DEF LockAccounting
  <2>2. LocksCounted(s)
    BY DEF LockAccounting
  <2>3. /\ RelationOf[i] # s => BegunOn(s)' = BegunOn(s)
        /\ ~first_time[i] => BegunOn(s)' = BegunOn(s)
        /\ (RelationOf[i] = s /\ first_time[i]) =>
               /\ BegunOn(s)' = BegunOn(s) \cup {i}
               /\ Cardinality(BegunOn(s)') = Cardinality(BegunOn(s)) + 1
    BY BegunStep DEF TypeOK
  <2>4. CASE s # r
    <3>1. relation'[s] = relation[s] /\ BegunOn(s)' = BegunOn(s)
      BY <1>1, <2>3, <2>4
    <3>2. QED
      BY <1>0, <1>3, <2>2, <2>4, <3>1 DEF LocksCounted
  <2>5. CASE s = r /\ ~TakesLock(i)
    <3>1. relation' = relation /\ BegunOn(s)' = BegunOn(s) /\ cc_mode = "PESSIMISTIC_2PL"
      BY <2>3, <2>5 DEF TakesLock
    <3>2. QED
      BY <1>0, <1>3, <2>2, <3>1 DEF LocksCounted
  <2>6. CASE s = r /\ TakesLock(i)
    <3>1. /\ relation[s].owner # Query => relation[s].depth = 0
          /\ relation'[s].owner = Query
          /\ relation'[s].depth = relation[s].depth + 1
      <4>1. relation[s] \in RelationType /\ Query \in Threads
        BY DEF TypeOK, Threads
      <4>2. relation'[s] = Rel!Locked(relation[s], Query) /\ Rel!Lockable(relation[s], Query)
        BY <2>6 DEF TypeOK
      <4>3. QED
        BY <4>1, <4>2, LockedType DEF Rel!Lockable, MutexInv
    <3>2. CASE cc_mode # "PESSIMISTIC_2PL"
      BY <1>0, <1>3, <2>2, <2>6, <3>1, <3>2 DEF LocksCounted
    <3>3. CASE cc_mode = "PESSIMISTIC_2PL"
      <4>1. /\ BegunOn(s)' = BegunOn(s) \cup {i}
            /\ Cardinality(BegunOn(s)') = Cardinality(BegunOn(s)) + 1
        BY <2>3, <2>6, <3>3 DEF TakesLock
      <4>2. relation[s].depth = Cardinality(BegunOn(s))
        BY <1>0, <2>2, <3>1, <3>3, BegunFinite DEF LocksCounted
      <4>3. QED
        BY <1>3, <3>1, <3>3, <4>1, <4>2 DEF LocksCounted
    <3>4. QED
      BY <3>2, <3>3
  <2>7. QED
    BY <2>4, <2>5, <2>6
<1>5. WalkInv'
  BY <1>3 DEF WalkInv, TypeOK
<1>6. SeenInv'
  <2>1. \A j \in Ops : relation'[RelationOf[j]].version = relation[RelationOf[j]].version
    BY <1>1, RelationOf \in [Ops -> Relations]
  <2>2. SeenInv
    OBVIOUS
  <2>3. CASE cc_mode \notin PessimisticModes
    <3>1. seen' = [seen EXCEPT ![i] = {}]
      BY <2>3
    <3>2. QED
      BY <1>3, <2>2, <2>3, <3>1 DEF SeenInv, OperatorReadsOneVersion,
         TransactionReadsOneVersion, TypeOK, PessimisticModes
  <2>4. CASE cc_mode \in PessimisticModes
    <3>1. seen' = seen /\ (first_time[i] => seen[i] = {})
      BY <1>0, <2>2, <2>4 DEF SeenInv
    <3>2. \A j \in Ops : snapshot'[j] = snapshot[j] \/ (j = i /\ first_time[i])
      BY DEF Refreshes, TypeOK
    <3>3. \A j \in Ops : first_time'[j] => first_time[j]
      BY DEF TypeOK
    <3>4. QED
      BY <1>0, <1>3, <2>1, <2>2, <2>4, <3>1, <3>2, <3>3 DEF SeenInv,
         OperatorReadsOneVersion, TransactionReadsOneVersion
  <2>5. QED
    BY <2>3, <2>4
<1>7. QED
  BY <1>1, <1>2, <1>4, <1>5, <1>6

(* A match reads the version its operator has seen before, if any.         *)
LEMMA MatchPreserves ==
    ASSUME IInv, NEW i \in Ops, Match(i)
    PROVE  IInv'
<1> USE DEF IInv, Match
<1>0. query.at = "matching" /\ query.op = i /\ RelationOf[i] \in Relations
  BY ControlFields
<1>1. VersionRead(i) \in 0 .. MaxVersion
  BY <1>0 DEF VersionRead, TypeOK, RelationType
<1>2. TypeOK'
  BY <1>1 DEF TypeOK
<1>3. MutexInv' /\ WalkInv'
  BY DEF MutexInv, WalkInv
<1>4. LockAccounting'
  <2>1. SUFFICES ASSUME NEW r \in Relations PROVE LocksCounted(r)'
    BY DEF LockAccounting
  <2>2. LocksCounted(r) /\ UNCHANGED <<cc_mode, query, relation, BegunOn(r)>>
    BY DEF LockAccounting, BegunOn
  <2>3. QED
    BY <2>2 DEF LocksCounted
<1>5. seen[i] \subseteq {VersionRead(i)}
  BY <1>0 DEF SeenInv, VersionRead, PessimisticModes, TypeOK, CCModes
<1>6. seen'[i] = {VersionRead(i)} /\ \A j \in Ops \ {i} : seen'[j] = seen[j]
  BY <1>5 DEF TypeOK
<1>7. SeenInv'
  <2>1. SeenInv /\ ~first_time[i]
    BY <1>0 DEF WalkInv
  <2>2. OperatorReadsOneVersion'
    BY <1>6, <2>1 DEF SeenInv, OperatorReadsOneVersion
  <2>3. CASE cc_mode = "PESSIMISTIC_2PL"
    <3>1. VersionRead(i) = relation[RelationOf[i]].version
      BY <2>3 DEF VersionRead
    <3>2. \A j \in Ops : seen'[j] \subseteq {relation[RelationOf[j]].version}
      BY <1>0, <1>6, <2>1, <2>3, <3>1 DEF SeenInv, PessimisticModes
    <3>3. TransactionReadsOneVersion'
      BY <3>2 DEF TransactionReadsOneVersion
    <3>4. QED
      BY <1>0, <1>6, <2>1, <2>2, <2>3, <3>2, <3>3 DEF SeenInv, PessimisticModes
  <2>4. CASE cc_mode # "PESSIMISTIC_2PL"
    BY <1>0, <1>6, <2>1, <2>2, <2>4 DEF SeenInv, VersionRead, PessimisticModes,
       TransactionReadsOneVersion
  <2>5. QED
    BY <2>3, <2>4
<1>8. QED
  BY <1>2, <1>3, <1>4, <1>7

LEMMA ReferenceEndPreserves ==
    ASSUME IInv, NEW i \in Ops, ReferenceEnd(i)
    PROVE  IInv'
<1> USE DEF IInv, ReferenceEnd
<1> DEFINE r == RelationOf[i]
<1>0. r \in Relations /\ query.at = "matching" /\ query.op = i /\ query'.at = "idle"
  BY ControlFields
<1>1. /\ relation' \in [Relations -> RelationType]
      /\ MutexInv'
      /\ \A s \in Relations : relation'[s].version = relation[s].version
      /\ \A s \in Relations \ {r} : relation'[s] = relation[s]
  <2>1. CASE KeepsLock
    BY <1>0, <2>1 DEF TypeOK, MutexInv
  <2>2. CASE ~KeepsLock
    BY <1>0, <2>2, QueryMutex
  <2>3. QED
    BY <2>1, <2>2
<1>2. TypeOK'
  BY <1>1 DEF TypeOK
<1>3. LockAccounting'
  <2>1. SUFFICES ASSUME NEW s \in Relations PROVE LocksCounted(s)'
    BY DEF LockAccounting
  <2>2. LocksCounted(s) /\ UNCHANGED <<cc_mode, BegunOn(s)>>
    BY DEF LockAccounting, BegunOn
  <2>3. CASE KeepsLock
    BY <1>0, <2>2, <2>3 DEF LocksCounted, KeepsLock
  <2>4. CASE ~KeepsLock /\ s # r
    BY <1>0, <1>1, <2>2, <2>4 DEF LocksCounted, KeepsLock
  <2>5. CASE ~KeepsLock /\ s = r
    <3>1. relation[s].owner = Query /\ relation[s].depth = 1
      BY <1>0, <2>2, <2>5 DEF LocksCounted, KeepsLock
    <3>2. relation[s] \in RelationType /\ Query \in Threads
      BY DEF TypeOK, Threads
    <3>3. relation'[s] = Rel!Unlocked(relation[s], Query)
      BY <2>5 DEF TypeOK
    <3>4. relation'[s].owner = NoThread
      BY <3>1, <3>2, <3>3, UnlockedType DEF MutexInv
    <3>5. QED
      BY <1>0, <2>2, <2>5, <3>4 DEF LocksCounted, KeepsLock
  <2>6. QED
    BY <2>3, <2>4, <2>5
<1>4. WalkInv'
  BY <1>0 DEF WalkInv
<1>5. SeenInv'
  <2>1. \A j \in Ops : relation'[RelationOf[j]].version = relation[RelationOf[j]].version
    BY <1>1, RelationOf \in [Ops -> Relations]
  <2>2. SeenInv
    OBVIOUS
  <2>3. QED
    BY <1>0, <2>1, <2>2 DEF SeenInv, OperatorReadsOneVersion, TransactionReadsOneVersion
<1>6. QED
  BY <1>1, <1>2, <1>3, <1>4, <1>5

LEMMA AfterCommitPreserves ==
    ASSUME IInv, AfterCommit
    PROVE  IInv'
<1> USE DEF IInv, AfterCommit
<1>0. /\ 1 \in Ops
      /\ query.at = "idle" /\ query'.at = "ending" /\ query'.op = 1
  BY ControlFields DEF Ops
<1>1. TypeOK'
  BY <1>0 DEF TypeOK
<1>2. MutexInv'
  BY DEF MutexInv
<1>3. LockAccounting'
  <2>1. SUFFICES ASSUME NEW r \in Relations PROVE LocksCounted(r)'
    BY DEF LockAccounting
  <2>2. LocksCounted(r) /\ UNCHANGED <<cc_mode, relation, BegunOn(r)>>
    BY DEF LockAccounting, BegunOn
  <2>3. relation[r].depth \in Nat
    BY DEF TypeOK, RelationType
  <2>4. QED
    BY <1>0, <2>2, <2>3 DEF LocksCounted
<1>4. WalkInv'
  BY <1>0 DEF WalkInv, Ops
<1>5. SeenInv'
  BY <1>0 DEF SeenInv, OperatorReadsOneVersion, TransactionReadsOneVersion
<1>6. QED
  BY <1>1, <1>2, <1>3, <1>4, <1>5

(* One step of the walk.  The operator may hold no lock of its own, and    *)
(* then its unlock either undoes that of another operator or fails; either *)
(* way the depth stays within the number of operators still to come.       *)
LEMMA TransactionEndPreserves ==
    ASSUME IInv, NEW i \in Ops, TransactionEnd(i)
    PROVE  IInv'
<1> USE DEF IInv, TransactionEnd
<1> DEFINE r == RelationOf[i]
           twoPhase == cc_mode = "PESSIMISTIC_2PL"
<1>0. /\ r \in Relations /\ query.at = "ending" /\ query.op = i
      /\ cc_mode \in PessimisticModes
      /\ i = NumOps => query' = Idle /\ query'.at = "idle"
      /\ i # NumOps => /\ query' = Ending(i + 1) /\ i + 1 \in Ops
                       /\ query'.at = "ending" /\ query'.op = i + 1
  <2>1. query.at = "ending" /\ query.op = i /\ cc_mode \in PessimisticModes
    BY ControlFields DEF WalkInv
  <2>2. i # NumOps => i + 1 \in Ops
    BY DEF Ops
  <2>3. QED
    BY <2>1, <2>2, ControlFields DEF WalkOn
<1>1. /\ relation' \in [Relations -> RelationType]
      /\ MutexInv'
      /\ \A s \in Relations : relation'[s].version = relation[s].version
      /\ \A s \in Relations \ {r} : relation'[s] = relation[s]
  <2>1. CASE twoPhase
    BY <1>0, <2>1, QueryMutex
  <2>2. CASE ~twoPhase
    BY <1>0, <2>2 DEF TypeOK, MutexInv
  <2>3. QED
    BY <2>1, <2>2
<1>2. TypeOK'
  BY <1>0, <1>1 DEF TypeOK
<1>3. /\ first_time'[i]
      /\ \A j \in Ops : j < i => first_time'[j]
      /\ i = NumOps => \A j \in Ops : first_time'[j]
  BY <1>0 DEF WalkInv, TypeOK, Ops
<1>4. WalkInv'
  <2>1. \A j \in Ops : j < i + 1 => first_time'[j]
    BY <1>3 DEF Ops
  <2>2. QED
    BY <1>0, <2>1 DEF WalkInv
<1>5. \A s \in Relations : relation'[s].owner = Query =>
          (twoPhase => relation'[s].depth <= Cardinality(BegunOn(s)'))
  <2>1. SUFFICES ASSUME NEW s \in Relations, relation'[s].owner = Query, twoPhase
                 PROVE  relation'[s].depth <= Cardinality(BegunOn(s)')
    OBVIOUS
  <2>2. LocksCounted(s)
    BY DEF LockAccounting
  <2>3. /\ RelationOf[i] # s => BegunOn(s)' = BegunOn(s)
        /\ first_time[i] => BegunOn(s)' = BegunOn(s)
        /\ (RelationOf[i] = s /\ ~first_time[i]) =>
               Cardinality(BegunOn(s)') = Cardinality(BegunOn(s)) - 1
    BY BegunStep DEF TypeOK
  <2>4. CASE s # r
    BY <1>0, <1>1, <2>1, <2>2, <2>3, <2>4 DEF LocksCounted
  <2>5. CASE s = r
    <3>1. /\ relation[s].owner = Query
          /\ relation'[s].depth = relation[s].depth - 1
          /\ relation[s].depth \in Nat
      <4>1. relation[s] \in RelationType /\ Query \in Threads
        BY DEF TypeOK, Threads
      <4>2. relation'[s] = Rel!Unlocked(relation[s], Query)
        BY <2>1, <2>5 DEF TypeOK
      <4>3. relation[s].owner = NoThread <=> relation[s].depth = 0
        BY DEF MutexInv
      <4>4. QED
        BY <2>1, <4>1, <4>2, <4>3, UnlockedType DEF RelationType
    <3>2. relation[s].depth <= Cardinality(BegunOn(s))
      BY <1>0, <2>1, <2>2, <3>1 DEF LocksCounted
    <3>3. QED
      BY <2>3, <2>5, <3>1, <3>2, BegunFinite
  <2>6. QED
    BY <2>4, <2>5
<1>6. LockAccounting'
  <2>1. SUFFICES ASSUME NEW s \in Relations PROVE LocksCounted(s)'
    BY DEF LockAccounting
  <2>2. CASE i # NumOps
    <3>1. ~twoPhase => relation'[s].owner # Query
      BY <1>0 DEF LockAccounting, LocksCounted
    <3>2. QED
      BY <1>0, <1>5, <2>2, <3>1 DEF LocksCounted
  <2>3. CASE i = NumOps
    <3>1. BegunOn(s)' = {}
      BY <1>3, <2>3 DEF BegunOn
    <3>2. relation'[s].owner # Query
      <4>1. CASE ~twoPhase
        BY <1>0, <4>1 DEF LockAccounting, LocksCounted
      <4>2. CASE twoPhase
        <5>1. relation'[s].owner = Query => relation'[s].depth <= 0
          BY <1>5, <3>1, <4>2, FS_EmptySet
        <5>2. relation'[s].owner = Query => relation'[s].depth # 0
          BY <1>1 DEF MutexInv
        <5>3. relation'[s].depth \in Nat
          BY <1>1 DEF RelationType
        <5>4. QED
          BY <5>1, <5>2, <5>3
      <4>3. QED
        BY <4>1, <4>2
    <3>3. QED
      BY <1>0, <2>3, <3>1, <3>2 DEF LocksCounted
  <2>4. QED
    BY <2>2, <2>3
<1>7. SeenInv'
  <2>1. CASE i = NumOps
    <3>1. \A j \in Ops : seen'[j] = {}
      BY <2>1
    <3>2. QED
      BY <1>0, <2>1, <3>1 DEF SeenInv, OperatorReadsOneVersion, TransactionReadsOneVersion
  <2>2. CASE i # NumOps
    <3>1. SeenInv /\ seen' = seen
      BY <2>2
    <3>2. QED
      BY <1>0, <2>2, <3>1 DEF SeenInv, OperatorReadsOneVersion, TransactionReadsOneVersion
  <2>3. QED
    BY <2>1, <2>2
<1>8. QED
  BY <1>1, <1>2, <1>4, <1>6, <1>7
-----------------------------------------------------------------------------
LEMMA StutterPreserves ==
    ASSUME IInv, UNCHANGED vars
    PROVE  IInv'
<1> USE DEF vars
<1>1. LockAccounting'
  <2>1. SUFFICES ASSUME NEW r \in Relations PROVE LocksCounted(r)'
    BY DEF LockAccounting
  <2>2. LocksCounted(r) /\ UNCHANGED <<cc_mode, query, relation, BegunOn(r)>>
    BY DEF IInv, LockAccounting, BegunOn
  <2>3. QED
    BY <2>2 DEF LocksCounted
<1>2. QED
  BY <1>1 DEF IInv, TypeOK, MutexInv, WalkInv, SeenInv, OperatorReadsOneVersion,
     TransactionReadsOneVersion

LEMMA NextPreserves == IInv /\ [Next]_vars => IInv'
<1> SUFFICES ASSUME IInv, [Next]_vars PROVE IInv'
  OBVIOUS
<1>1. ASSUME NEW i \in Ops,
             ReferenceBegin(i) \/ Match(i) \/ ReferenceEnd(i) \/ TransactionEnd(i)
      PROVE  IInv'
  BY <1>1, ReferenceBeginPreserves, MatchPreserves, ReferenceEndPreserves,
     TransactionEndPreserves
<1>2. CASE AfterCommit
  BY <1>2, AfterCommitPreserves
<1>3. ASSUME NEW u \in Updaters, UpdaterStep(u)
      PROVE  IInv'
  BY <1>3, UpdaterLockPreserves, UpdaterUpdatePreserves, UpdaterUnlockPreserves
     DEF UpdaterStep
<1>4. CASE UNCHANGED vars
  BY <1>4, StutterPreserves
<1>5. QED
  BY <1>1, <1>2, <1>3, <1>4 DEF Next, QueryStep

(* The inductive invariant holds in every reachable state. *)
THEOREM Inductive == Spec => []IInv
BY InitIInv, NextPreserves, PTL DEF Spec

(* Every variable keeps its type; in particular a mutex is never unlocked  *)
(* below depth 0 and no update passes the bound.                           *)
THEOREM TypeCorrect == Spec => []TypeOK
<1>1. IInv => TypeOK
  BY DEF IInv
<1>2. QED
  BY <1>1, Inductive, PTL

(* The query holds exactly the locks of the operators that took them, and  *)
(* none once the walk at the end of a transaction is over.                 *)
THEOREM LocksAccounted == Spec => []LockAccounting
<1>1. IInv => LockAccounting
  BY DEF IInv
<1>2. QED
  BY <1>1, Inductive, PTL

(* In every mode an operator reads one version per operation, and in the   *)
(* pessimistic modes one version per transaction.                          *)
THEOREM OperatorConsistency == Spec => []OperatorReadsOneVersion
<1>1. IInv => OperatorReadsOneVersion
  BY DEF IInv, SeenInv
<1>2. QED
  BY <1>1, Inductive, PTL

(* Under 2PL all the operators of the query read one version of a relation *)
(* in a transaction.                                                       *)
THEOREM TransactionConsistency == Spec => []TransactionReadsOneVersion
<1>1. IInv => TransactionReadsOneVersion
  BY DEF IInv, SeenInv
<1>2. QED
  BY <1>1, Inductive, PTL

(* Under 2PL no updater's step gets between the operations of an open      *)
(* transaction that has begun to read the relation.                        *)
THEOREM Isolation == Spec => NoUpdateOfReadRelation
<1>1. IInv /\ [Next]_vars => KeepsReadRelations
  <2> SUFFICES ASSUME IInv, [Next]_vars, NEW r \in Relations,
                      cc_mode = "PESSIMISTIC_2PL", query.at # "ending", BegunOn(r) # {}
               PROVE  relation'[r].version = relation[r].version
    BY DEF KeepsReadRelations
  <2> USE DEF IInv
  <2>1. relation[r].owner = Query
    BY DEF LockAccounting, LocksCounted
  <2>2. ASSUME NEW i \in Ops, ReferenceBegin(i) \/ ReferenceEnd(i) \/ TransactionEnd(i)
        PROVE  relation'[r].version = relation[r].version
    <3>1. RelationOf[i] \in Relations /\ UNCHANGED updater
      BY <2>2 DEF ReferenceBegin, ReferenceEnd, TransactionEnd
    <3>2. CASE relation' = relation
      BY <3>2
    <3>3. CASE relation' # relation
      <4>1. \/ /\ Rel!Lockable(relation[RelationOf[i]], Query)
               /\ relation' = [relation EXCEPT ![RelationOf[i]] = Rel!Locked(@, Query)]
            \/ relation' = [relation EXCEPT ![RelationOf[i]] = Rel!Unlocked(@, Query)]
        BY <2>2, <3>3 DEF ReferenceBegin, ReferenceEnd, TransactionEnd
      <4>2. QED
        BY <3>1, <4>1, QueryMutex
    <3>4. QED
      BY <3>2, <3>3
  <2>3. ASSUME NEW u \in Updaters, UpdaterStep(u)
        PROVE  relation'[r].version = relation[r].version
    <3>1. CASE r # UpdatedBy[u]
      BY <2>3, <3>1 DEF UpdaterStep, UpdaterLock, UpdaterUpdate, UpdaterUnlock, TypeOK
    <3>2. CASE r = UpdatedBy[u]
      BY <2>1, <2>3, <3>2 DEF UpdaterStep, UpdaterLock, UpdaterUpdate, UpdaterUnlock,
         Rel!Lockable, MutexInv
    <3>3. QED
      BY <3>1, <3>2
  <2>4. CASE AfterCommit \/ (\E i \in Ops : Match(i)) \/ UNCHANGED vars
    BY <2>4 DEF AfterCommit, Match, vars
  <2>5. QED
    BY <2>2, <2>3, <2>4 DEF Next, QueryStep
<1>2. QED
  BY <1>1, Inductive, PTL DEF Spec, NoUpdateOfReadRelation
=============================================================================
