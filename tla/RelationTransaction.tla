------------------------ MODULE RelationTransaction ------------------------
(***************************************************************************)
(* The transactions of one query on the relations it combines with its     *)
(* streams, against the threads that update those relations.               *)
(*                                                                         *)
(* The query's thread runs its reference operators (class                  *)
(* TraitResourceReferenceOperator) in whatever order its scheduler picks:  *)
(* begin, any number of matches, end.  At the end of a transaction the two *)
(* pessimistic schedulers walk over all reference operators and call       *)
(* transaction_end on each.  An updater (class RelationUpdater) locks its  *)
(* relation, steps its version, sleeps, and unlocks.  When a transaction   *)
(* ends is decided elsewhere (module ContinuousQuery); here it may end     *)
(* between any two operations.                                             *)
(***************************************************************************)
EXTENDS Naturals, FiniteSets

CONSTANTS
    Relations,     \* the relations
    NumOps,        \* the query's reference operators are 1 .. NumOps, in the
                   \* order of reference_operators_
    RelationOf,    \* the relation each of them reads
    Updaters,      \* the updater threads
    UpdatedBy,     \* the relation each of them updates
    Query,         \* the thread of the QueryProcessor
    NoThread,      \* the owner of a free mutex
    MaxVersion     \* bound: no update takes a relation past this version

Ops == 1 .. NumOps

ASSUME ConstantsAssumption ==
    /\ NumOps \in Nat \ {0}
    /\ RelationOf \in [Ops -> Relations]
    /\ UpdatedBy \in [Updaters -> Relations]
    /\ Query \notin Updaters
    /\ NoThread \notin Updaters \cup {Query}
    /\ MaxVersion \in Nat

CCModes == {"NONE", "OPTIMISTIC", "PESSIMISTIC_2PL", "PESSIMISTIC_SNAPSHOT"}
PessimisticModes == {"PESSIMISTIC_2PL", "PESSIMISTIC_SNAPSHOT"}

VARIABLES
    cc_mode,     \* the concurrency control of the query, fixed at the start
    relation,    \* each relation's version and mutex
    first_time,  \* first_time_in_txn_ of each reference operator
    snapshot,    \* the version each operator's relation_ was copied at
    query,       \* where the query's thread is
    updater,     \* where each updater is
    seen         \* history: the versions each operator matched tuples against
                 \* in the transaction that is open (without transactions, in
                 \* its last operation)

vars == <<cc_mode, relation, first_time, snapshot, query, updater, seen>>

Rel == INSTANCE StoredRelation

Threads == Updaters \cup {Query}

Idle == [at |-> "idle", op |-> 0]
Matching(i) == [at |-> "matching", op |-> i]
Ending(i) == [at |-> "ending", op |-> i]

RelationType ==
    [version : 0 .. MaxVersion, owner : Threads \cup {NoThread}, depth : Nat]

TypeOK ==
    /\ cc_mode \in CCModes
    /\ relation \in [Relations -> RelationType]
    /\ first_time \in [Ops -> BOOLEAN]
    /\ snapshot \in [Ops -> 0 .. MaxVersion]
    /\ query \in {Idle} \cup {Matching(i) : i \in Ops} \cup {Ending(i) : i \in Ops}
    /\ updater \in [Updaters -> {"away", "locked", "updated"}]
    /\ seen \in [Ops -> SUBSET (0 .. MaxVersion)]

Init ==
    /\ cc_mode \in CCModes
    /\ relation = [r \in Relations |-> Rel!NewRelation]
    /\ first_time = [i \in Ops |-> TRUE]
    /\ snapshot = [i \in Ops |-> 0]
    /\ query = Idle
    /\ updater = [u \in Updaters |-> "away"]
    /\ seen = [i \in Ops |-> {}]
-----------------------------------------------------------------------------
(* The operators of the query *)

(* Mutant: the first_time_in_txn_ test is dropped. *)
TakesLockEveryTime(i) == TRUE

(* Mutant: 2PL relies on a lock that nobody takes. *)
TakesNoLock2PL(i) == cc_mode # "PESSIMISTIC_2PL"

(* Does reference_operation_begin take the operator's lock?  Under 2PL only *)
(* the first time in a transaction, otherwise for every operation.          *)
TakesLock(i) == cc_mode = "PESSIMISTIC_2PL" => first_time[i]

(* Mutant: every operation takes a new copy. *)
RefreshesEveryTime(i) == cc_mode = "PESSIMISTIC_SNAPSHOT"

(* refresh_snapshots: under SNAPSHOT the first operation of a transaction  *)
(* copies the relation, with the lock held.                                *)
Refreshes(i) == cc_mode = "PESSIMISTIC_SNAPSHOT" /\ first_time[i]

ReferenceBegin(i) ==
    LET r == RelationOf[i] IN
    /\ query = Idle
    /\ TakesLock(i) => Rel!Lockable(relation[r], Query)
    /\ relation' = IF TakesLock(i)
                   THEN [relation EXCEPT ![r] = Rel!Locked(@, Query)]
                   ELSE relation
    /\ snapshot' = IF Refreshes(i)
                   THEN [snapshot EXCEPT ![i] = relation[r].version]
                   ELSE snapshot
    /\ first_time' = [first_time EXCEPT ![i] = FALSE]
    /\ query' = Matching(i)
    /\ seen' = IF cc_mode \in PessimisticModes THEN seen
               ELSE [seen EXCEPT ![i] = {}]
    /\ UNCHANGED <<cc_mode, updater>>

(* The version an operator reads through its relation_ pointer, which      *)
(* under SNAPSHOT points to the copy.                                      *)
VersionRead(i) ==
    IF cc_mode = "PESSIMISTIC_SNAPSHOT" THEN snapshot[i]
    ELSE relation[RelationOf[i]].version

(* One tuple of the relation matches: the output tuple is tagged with the  *)
(* relation's version.                                                     *)
Match(i) ==
    /\ query = Matching(i)
    /\ seen' = [seen EXCEPT ![i] = @ \cup {VersionRead(i)}]
    /\ UNCHANGED <<cc_mode, relation, first_time, snapshot, query, updater>>

(* Mutant: the end of an operation releases its lock in every mode. *)
KeepsNoLock == FALSE

(* reference_operation_end: under 2PL the lock is kept. *)
KeepsLock == cc_mode = "PESSIMISTIC_2PL"

ReferenceEnd(i) ==
    /\ query = Matching(i)
    /\ relation' = IF KeepsLock THEN relation
                   ELSE [relation EXCEPT ![RelationOf[i]] = Rel!Unlocked(@, Query)]
    /\ query' = Idle
    /\ UNCHANGED <<cc_mode, first_time, snapshot, updater, seen>>

(* after_commit_ of a pessimistic scheduler starts its walk over the       *)
(* reference operators: release_all_locks_, or refresh_snapshots_.         *)
AfterCommit ==
    /\ cc_mode \in PessimisticModes
    /\ query = Idle
    /\ query' = Ending(1)
    /\ UNCHANGED <<cc_mode, relation, first_time, snapshot, updater, seen>>

(* The walk goes on with the next operator, or is over. *)
WalkOn(i) == IF i = NumOps THEN Idle ELSE Ending(i + 1)

(* transaction_end on the next operator, including one whose operation no  *)
(* tuple reached in this transaction, and which therefore holds no lock.   *)
TransactionEnd(i) ==
    /\ query = Ending(i)
    /\ relation' = IF cc_mode = "PESSIMISTIC_2PL"
                   THEN [relation EXCEPT ![RelationOf[i]] = Rel!Unlocked(@, Query)]
                   ELSE relation
    /\ first_time' = [first_time EXCEPT ![i] = TRUE]
    /\ query' = WalkOn(i)
    /\ seen' = IF i = NumOps THEN [j \in Ops |-> {}] ELSE seen
    /\ UNCHANGED <<cc_mode, snapshot, updater>>
-----------------------------------------------------------------------------
(* The updaters: one turn of the loop in RelationUpdater::run *)

UpdaterLock(u) ==
    LET r == UpdatedBy[u] IN
    /\ updater[u] = "away"
    /\ relation[r].version < MaxVersion
    /\ Rel!Lockable(relation[r], u)
    /\ relation' = [relation EXCEPT ![r] = Rel!Locked(@, u)]
    /\ updater' = [updater EXCEPT ![u] = "locked"]
    /\ UNCHANGED <<cc_mode, first_time, snapshot, query, seen>>

UpdaterUpdate(u) ==
    /\ updater[u] = "locked"
    /\ relation' = [relation EXCEPT ![UpdatedBy[u]] = Rel!Updated(@)]
    /\ updater' = [updater EXCEPT ![u] = "updated"]
    /\ UNCHANGED <<cc_mode, first_time, snapshot, query, seen>>

UpdaterUnlock(u) ==
    /\ updater[u] = "updated"
    /\ relation' = [relation EXCEPT ![UpdatedBy[u]] = Rel!Unlocked(@, u)]
    /\ updater' = [updater EXCEPT ![u] = "away"]
    /\ UNCHANGED <<cc_mode, first_time, snapshot, query, seen>>

QueryStep ==
    \/ \E i \in Ops : ReferenceBegin(i) \/ Match(i) \/ ReferenceEnd(i) \/ TransactionEnd(i)
    \/ AfterCommit

UpdaterStep(u) == UpdaterLock(u) \/ UpdaterUpdate(u) \/ UpdaterUnlock(u)

Next == QueryStep \/ \E u \in Updaters : UpdaterStep(u)

Spec == Init /\ [][Next]_vars
-----------------------------------------------------------------------------
(* The operators that have begun an operation on r in the open transaction. *)
BegunOn(r) == {i \in Ops : RelationOf[i] = r /\ ~first_time[i]}

(* The lock count of one relation: under 2PL one for every operator that   *)
(* locked it in the open transaction, no more than that during the walk,   *)
(* and in the other modes one inside an operation on it.                   *)
LocksCounted(r) ==
    LET held == relation[r].owner = Query
        twoPhase == cc_mode = "PESSIMISTIC_2PL"
    IN  /\ ~twoPhase =>
               /\ held <=> (query.at = "matching" /\ RelationOf[query.op] = r)
               /\ held => relation[r].depth = 1
        /\ (twoPhase /\ query.at # "ending") =>
               /\ held <=> BegunOn(r) # {}
               /\ held => relation[r].depth = Cardinality(BegunOn(r))
        /\ (twoPhase /\ query.at = "ending") =>
               (held => relation[r].depth <= Cardinality(BegunOn(r)))

(* Under 2PL the query holds a relation's mutex exactly as many times as   *)
(* there are operators that locked it in the open transaction, so the walk *)
(* over all operators at the transaction's end, which also unlocks for     *)
(* operators that never locked, leaves no relation locked.  In the other   *)
(* modes the query holds a lock only inside one operation.                 *)
LockAccounting == \A r \in Relations : LocksCounted(r)

(* All the matches of one operation of one operator, and under a           *)
(* pessimistic mode all the operations of that operator in a transaction,  *)
(* are against one version of its relation, whatever the updaters do.      *)
OperatorReadsOneVersion ==
    \A i \in Ops : \A v, w \in seen[i] : v = w

(* Under 2PL a transaction reads one version of a relation through all the *)
(* operators that combine with it.                                         *)
TransactionReadsOneVersion ==
    cc_mode = "PESSIMISTIC_2PL" =>
        \A i, j \in Ops : RelationOf[i] = RelationOf[j] =>
            \A v \in seen[i], w \in seen[j] : v = w

(* A step leaves alone the relations that an open 2PL transaction has begun *)
(* to read.                                                                *)
KeepsReadRelations ==
    \A r \in Relations :
        (cc_mode = "PESSIMISTIC_2PL" /\ query.at # "ending" /\ BegunOn(r) # {})
        => relation'[r].version = relation[r].version

(* Under 2PL no updater changes a relation that the open transaction has   *)
(* begun to read, until the walk that ends the transaction.                *)
NoUpdateOfReadRelation == [][KeepsReadRelations]_vars
=============================================================================
