-------------------------- MODULE ContinuousQuery --------------------------
(***************************************************************************)
(* One continuous query under each of the four concurrency controls.       *)
(*                                                                         *)
(* The query is a chain of operators: a stream adapter, then any selects,  *)
(* combines (OperatorSimpleRelationJoin) and projects with at least one    *)
(* combine, then the mean over a tuple-based window, which is the commit   *)
(* operator.  One thread, the QueryProcessor, wakes its scheduler up again *)
(* and again; the scheduler gives each operator in turn a batch of calls.  *)
(* Other threads send the input stream and update the relations.           *)
(*                                                                         *)
(* A step of the query is one call of an operator's next_implementation,   *)
(* with what the scheduler does about the exception it may end in.  What   *)
(* the locks allow between the parts of a combine's call is the subject of *)
(* RelationTransaction.  In a chain a tuple's low water mark is always the *)
(* arrival time of the input tuple it comes from, so the two are one field.*)
(***************************************************************************)
EXTENDS Integers, Sequences, FiniteSets, StreamBuffer

CONSTANTS
    Configurations,  \* the queries: records with the fields
                     \*   mode    the concurrency control
                     \*   plan    the operators, [kind] or [kind, relation]
                     \*   win     the mean's window, [width, stride]
                     \*   batch   batch_count_, the calls given to an operator
                     \*   joint   txn_joint_count_, the windows in a transaction
                     \*   efficient  efficient_scheduling_enabled_
    Relations,       \* the relations combined with
    NumTuples,       \* the number of tuples the sender sends
    Selected,        \* the input tuples that satisfy the selects
    Matches,         \* how many tuples of a relation match an input tuple
    MaxVersion,      \* bound: no update takes a relation past this version
    Query,           \* the thread of the QueryProcessor
    Updater,         \* a relation's updater thread; each relation has one
    NoThread, NoTuple, NoTag

CCModes == {"NONE", "OPTIMISTIC", "PESSIMISTIC_2PL", "PESSIMISTIC_SNAPSHOT"}
PessimisticModes == {"PESSIMISTIC_2PL", "PESSIMISTIC_SNAPSHOT"}

Arrivals == 1 .. NumTuples

ASSUME ConfigurationsAssumption ==
    \A c \in Configurations :
        LET n == Len(c.plan) IN
        /\ c.mode \in CCModes
        /\ n \in Nat /\ DOMAIN c.plan = 1 .. n
        /\ c.plan[1].kind = "adapter" /\ c.plan[n].kind = "mean"
        /\ \A i \in 2 .. n - 1 : c.plan[i].kind \in {"select", "combine", "project"}
        /\ \E i \in 1 .. n : c.plan[i].kind = "combine"
        /\ \A i \in 1 .. n : c.plan[i].kind = "combine" => c.plan[i].relation \in Relations
        /\ c.win.width \in Nat /\ c.win.stride \in 1 .. c.win.width
        /\ c.batch \in Nat \ {0} /\ c.joint \in Nat \ {0} /\ c.efficient \in BOOLEAN

ASSUME ConstantsAssumption ==
    /\ NumTuples \in Nat /\ MaxVersion \in Nat
    /\ Selected \subseteq Arrivals
    /\ Matches \in [Relations -> [Arrivals -> Nat]]
    /\ Query # Updater /\ NoThread \notin {Query, Updater}
    /\ NoTag \notin [relation : Relations, version : Nat]

VARIABLES
    conf,          \* the query, fixed at the start
    sent,          \* how much the sender has sent; NumTuples + 1 is the end
    streams,       \* stream 0 is the query's input, stream i the output of
                   \* operator i; the mean's output is in results
    turn,          \* the operator whose turn it is
    calls,         \* how many calls of its batch it has had
    synopsis,      \* the mean's window
    committed,     \* committed_ of the mean
    commit_count,  \* commit_count_ of a pessimistic scheduler
    first_time,    \* first_time_in_txn_ of each combine
    snapshot,      \* the version its relation_ was copied at
    relation,      \* each relation's version and mutex
    results        \* history: the windows the mean has output, and the end

vars == <<conf, sent, streams, turn, calls, synopsis, committed, commit_count,
          first_time, snapshot, relation, results>>

Rel == INSTANCE StoredRelation
Syn == INSTANCE TupleSynopsis

-----------------------------------------------------------------------------
(* The plan *)

NumOps == Len(conf.plan)
Ops == 1 .. NumOps
Kind(i) == conf.plan[i].kind
Combines == {i \in Ops : Kind(i) = "combine"}
RelationOf(i) == conf.plan[i].relation

(* CommitOperatorFinder: in a chain, the aggregation below a combine. *)
CommitOp == NumOps

(* RedoArea: the first combine is its leaf, the stream before it is backed *)
(* up, and the operators from there to the mean are its operators.         *)
RedoLeaf == CHOOSE i \in Combines : \A j \in Combines : i <= j
RedoStream == RedoLeaf - 1
RedoOps == RedoLeaf .. NumOps

Overlapping == conf.win.width > conf.win.stride

(* The calls of one turn: the commit operator gets one, as does the leaf   *)
(* of the redo area under efficient scheduling.                            *)
CallsOf(i) ==
    IF \/ i = CommitOp /\ conf.mode # "NONE"
       \/ i = RedoLeaf /\ conf.efficient
    THEN 1 ELSE conf.batch

(* A tuple of the input.  part tells the matches of one tuple apart, tag   *)
(* is its referenced version number and the relation it refers to, and     *)
(* reads (history) holds the version every combine has read for it.        *)
InputTuple(k) == [arrived |-> k, part |-> <<>>, tag |-> NoTag, reads |-> {}]

Versions == 0 .. MaxVersion

Tags == [relation : Relations, version : Versions]

Tuples == [arrived : Arrivals, part : Seq(Nat), tag : Tags \cup {NoTag},
           reads : SUBSET (Nat \X Versions)]

(* A system message is told from a tuple, and an end from a window.        *)
ASSUME EndAssumption ==
    /\ EndOfStream \notin Tuples
    /\ \A c \in Configurations : EndOfStream \notin [1 .. c.win.width -> Tuples]

Init ==
    /\ conf \in Configurations
    /\ sent = 0
    /\ streams = [i \in 0 .. NumOps - 1 |-> NewStream(i = RedoStream)]
    /\ turn = 1
    /\ calls = 0
    /\ synopsis = Syn!NewSynopsis(conf.win)
    /\ committed = FALSE
    /\ commit_count = 0
    /\ first_time = [i \in Combines |-> TRUE]
    /\ snapshot = [i \in Combines |-> 0]
    /\ relation = [r \in Relations |-> Rel!NewRelation]
    /\ results = <<>>
-----------------------------------------------------------------------------
(* The scheduler *)

(* One call of the operator whose turn it is has been made; after its last *)
(* one, it is the next operator's turn (RoundRobinPolicy).                 *)
NextCall ==
    IF calls + 1 < CallsOf(turn)
    THEN calls' = calls + 1 /\ turn' = turn
    ELSE calls' = 0 /\ turn' = (turn % NumOps) + 1

InputOf(i) == streams[i - 1].queue

(* The tuple that the operator whose turn it is finds. *)
HeadTuple == Head(InputOf(turn))
HasData == InputOf(turn) # <<>> /\ HeadTuple # EndOfStream

(* The operator takes the first tuple from its input and outputs others.   *)
Output(tuples) ==
    streams' = [streams EXCEPT ![turn - 1] = Dequeued(@),
                               ![turn] = Enqueued(@, tuples)]

(* The mean takes the first tuple from its input. *)
TakeTuple == streams' = [streams EXCEPT ![NumOps - 1] = Dequeued(@)]

UnchangedTransaction == UNCHANGED <<committed, commit_count, first_time, snapshot, relation>>

(* There is nothing to dequeue. *)
FindNothing ==
    /\ InputOf(turn) = <<>>
    /\ NextCall
    /\ UnchangedTransaction
    /\ UNCHANGED <<conf, sent, streams, synopsis, results>>

(* A system message goes through every operator, the mean included.        *)
PassEndOfStream ==
    /\ InputOf(turn) # <<>>
    /\ HeadTuple = EndOfStream
    /\ IF turn = NumOps
       THEN TakeTuple /\ results' = Append(results, EndOfStream)
       ELSE Output(<<EndOfStream>>) /\ UNCHANGED results
    /\ NextCall
    /\ UnchangedTransaction
    /\ UNCHANGED <<conf, sent, synopsis>>

(* What an operator makes of a tuple where neither a relation nor a window *)
(* is concerned: a select drops it or not, a project makes a new tuple     *)
(* without the referenced version numbers.                                 *)
Transformed(i, tuple) ==
    CASE Kind(i) = "adapter" -> <<tuple>>
      [] Kind(i) = "select"  -> IF tuple.arrived \in Selected THEN <<tuple>> ELSE <<>>
      [] Kind(i) = "project" -> <<[tuple EXCEPT !.tag = NoTag]>>

ProcessSimple ==
    /\ HasData
    /\ Kind(turn) \in {"adapter", "select", "project"}
    /\ Output(Transformed(turn, HeadTuple))
    /\ NextCall
    /\ UnchangedTransaction
    /\ UNCHANGED <<conf, sent, synopsis, results>>
-----------------------------------------------------------------------------
(* Combining with a relation *)

(* Mutant: a snapshot lasts for one operation. *)
RefreshesEveryTime(i) == conf.mode = "PESSIMISTIC_SNAPSHOT"

(* refresh_snapshots, in the first operation of a transaction *)
Refreshes(i) == conf.mode = "PESSIMISTIC_SNAPSHOT" /\ first_time[i]

(* Mutant: 2PL lets go of the lock at the end of the operation. *)
KeepsNoLock(i) == FALSE

(* Mutant: an operation of any mode keeps its lock. *)
AlwaysKeepsLock(i) == TRUE

(* Only under 2PL is the lock still held at the end of the operation.      *)
KeepsLock(i) == conf.mode = "PESSIMISTIC_2PL"

(* A combine joins a tuple with those of the relation that match it.  The  *)
(* new tuples refer to this relation only.                                 *)
ProcessCombine ==
    LET i == turn
        r == RelationOf(i)
        locks == conf.mode = "PESSIMISTIC_2PL" => first_time[i]
        version == IF conf.mode = "PESSIMISTIC_SNAPSHOT" /\ ~Refreshes(i)
                   THEN snapshot[i] ELSE relation[r].version
    IN  /\ HasData
        /\ Kind(i) = "combine"
        /\ locks => Rel!Lockable(relation[r], Query)
        /\ relation' = IF locks /\ KeepsLock(i)
                       THEN [relation EXCEPT ![r] = Rel!Locked(@, Query)]
                       ELSE relation
        /\ snapshot' = IF Refreshes(i) THEN [snapshot EXCEPT ![i] = version] ELSE snapshot
        /\ first_time' = [first_time EXCEPT ![i] = FALSE]
        /\ Output([m \in 1 .. Matches[r][HeadTuple.arrived] |->
               [HeadTuple EXCEPT !.part = Append(@, m),
                                 !.tag = [relation |-> r, version |-> version],
                                 !.reads = @ \cup {<<i, version>>}]])
        /\ NextCall
        /\ UNCHANGED <<conf, sent, synopsis, committed, commit_count, results>>
-----------------------------------------------------------------------------
(* The mean, and the end of a transaction *)

NextSynopsis == Syn!Enqueued(conf.win, synopsis, HeadTuple)

(* Mutant: an inconsistency with the window's last slot is not noticed. *)
ConsistentButLast(syn) ==
    LET first == syn.tuples[0]
    IN first.tag # NoTag => \A k \in 0 .. conf.win.width - 2 : syn.tuples[k].tag = first.tag

(* has_reference_consistency: every tuple refers to the version that the   *)
(* tuple in the first slot refers to, if it refers to any.                 *)
HasReferenceConsistency(syn) ==
    LET first == syn.tuples[0]
    IN first.tag # NoTag => \A k \in Syn!Slots(conf.win) : syn.tuples[k].tag = first.tag

(* The mean takes a tuple that completes no window. *)
WindowWaits ==
    /\ HasData /\ turn = NumOps
    /\ ~committed
    /\ ~Syn!Completes(conf.win, synopsis)
    /\ synopsis' = NextSynopsis
    /\ TakeTuple
    /\ NextCall
    /\ UnchangedTransaction
    /\ UNCHANGED <<conf, sent, results>>

(* Mutant: a commit evicts up to the last tuple it has processed. *)
EvictsToLatest(syn, strms) ==
    [strms EXCEPT ![RedoStream] = Evicted(@, HeadTuple.arrived)]

(* commit_ of the optimistic scheduler evicts what is older than the tuple *)
(* the window begins with; the other schedulers evict nothing here.        *)
EvictedByCommit(syn, strms) ==
    IF conf.mode = "OPTIMISTIC"
    THEN [strms EXCEPT ![RedoStream] = Evicted(@, Syn!BeginningTuple(syn).arrived)]
    ELSE strms

(* The mean takes a tuple that completes a window and outputs it.          *)
WindowOutput ==
    /\ HasData /\ turn = NumOps
    /\ ~committed
    /\ Syn!Completes(conf.win, synopsis)
    /\ conf.mode = "OPTIMISTIC" => HasReferenceConsistency(NextSynopsis)
    /\ synopsis' = NextSynopsis
    /\ results' = Append(results, Syn!WindowOf(conf.win, NextSynopsis))
    /\ streams' = EvictedByCommit(NextSynopsis,
                      [streams EXCEPT ![NumOps - 1] = Dequeued(@)])
    /\ committed' = (conf.mode \in PessimisticModes)
    /\ commit_count' = IF conf.mode \in PessimisticModes THEN commit_count + 1 ELSE commit_count
    /\ NextCall
    /\ UNCHANGED <<conf, sent, first_time, snapshot, relation>>

(* Mutant: the operators of the redo area keep the tuples in their outputs. *)
KeepsIntermediate(strms) == [strms EXCEPT ![RedoStream] = Recovered(Cleared(@))]

(* Mutant: a stream is cleared, and nothing put back. *)
ForgetsBackup(strms) ==
    [i \in DOMAIN strms |-> IF i \in {RedoStream} \cup RedoOps THEN Cleared(strms[i])
                           ELSE strms[i]]

(* reset_streams_ and reset_operators_: the redo stream starts over from   *)
(* its backup, and what the operators after it have output is dropped.     *)
Restarted(strms) ==
    [i \in DOMAIN strms |->
        IF i = RedoStream THEN Recovered(Cleared(strms[i]))
        ELSE IF i \in RedoOps THEN Cleared(strms[i])
        ELSE strms[i]]

(* The mean takes a tuple that completes a window, but the optimistic      *)
(* scheduler finds it inconsistent: prepare_for_redo_.                     *)
LostConsistency ==
    /\ HasData /\ turn = NumOps
    /\ conf.mode = "OPTIMISTIC"
    /\ Syn!Completes(conf.win, synopsis)
    /\ ~HasReferenceConsistency(NextSynopsis)
    /\ streams' = Restarted(streams)
    /\ synopsis' = Syn!Reset(NextSynopsis)
    /\ committed' = FALSE
    /\ turn' = 1 /\ calls' = 0
    /\ UNCHANGED <<conf, sent, commit_count, first_time, snapshot, relation, results>>

(* commit_count_reached_limit_ *)
ReachedLimit == commit_count >= conf.joint

(* The first tuple after a commit, under a pessimistic scheduler: the mean *)
(* throws its low water mark and drops it, and nothing else happens until  *)
(* the transaction has its windows.                                        *)
DropTuple ==
    /\ HasData /\ turn = NumOps
    /\ committed
    /\ ~ReachedLimit
    /\ committed' = FALSE
    /\ TakeTuple
    /\ NextCall
    /\ UNCHANGED <<conf, sent, synopsis, commit_count, first_time, snapshot, relation, results>>

(* release_all_locks_: every combine unlocks its relation, whether or not  *)
(* it has locked it in this transaction.                                   *)
AllReleased ==
    [r \in Relations |->
        Rel!UnlockedTimes(relation[r], Query,
                          Cardinality({i \in Combines : RelationOf(i) = r}))]

(* after_commit_: every combine ends its transaction, which releases its   *)
(* lock under 2PL; with overlapping windows the redo stream goes back to   *)
(* the tuple that was dropped.                                             *)
AfterCommit ==
    /\ HasData /\ turn = NumOps
    /\ committed
    /\ ReachedLimit
    /\ commit_count' = 0
    /\ first_time' = [i \in Combines |-> TRUE]
    /\ relation' = IF conf.mode = "PESSIMISTIC_2PL" THEN AllReleased ELSE relation
    /\ committed' = FALSE
    /\ streams' = LET taken == [streams EXCEPT ![NumOps - 1] = Dequeued(@)]
                  IN IF ~Overlapping THEN taken
                     ELSE Restarted([taken EXCEPT ![RedoStream] =
                                        Evicted(@, HeadTuple.arrived)])
    /\ synopsis' = IF Overlapping THEN Syn!Reset(synopsis) ELSE synopsis
    /\ NextCall
    /\ UNCHANGED <<conf, sent, snapshot, results>>

QueryStep ==
    \/ FindNothing \/ PassEndOfStream \/ ProcessSimple \/ ProcessCombine
    \/ WindowWaits \/ WindowOutput \/ LostConsistency
    \/ DropTuple \/ AfterCommit
-----------------------------------------------------------------------------
(* The other threads *)

UnchangedQuery ==
    UNCHANGED <<conf, turn, calls, synopsis, committed, commit_count, first_time,
                snapshot, results>>

(* StreamSender::run sends the tuples and then the end of the stream.      *)
Send ==
    /\ sent <= NumTuples
    /\ sent' = sent + 1
    /\ streams' = [streams EXCEPT ![0] = Enqueued(@,
                      IF sent < NumTuples THEN <<InputTuple(sent + 1)>> ELSE <<EndOfStream>>)]
    /\ UNCHANGED relation
    /\ UnchangedQuery

(* RelationUpdater::run locks its relation, updates it, sleeps             *)
Update(r) ==
    /\ relation[r].version < MaxVersion
    /\ relation[r].owner = NoThread
    /\ relation' = [relation EXCEPT ![r] = Rel!Updated(Rel!Locked(@, Updater))]
    /\ UNCHANGED <<sent, streams>>
    /\ UnchangedQuery

(* and unlocks it. *)
UnlockUpdated(r) ==
    /\ relation[r].owner = Updater
    /\ relation' = [relation EXCEPT ![r] = Rel!Unlocked(@, Updater)]
    /\ UNCHANGED <<sent, streams>>
    /\ UnchangedQuery

Next ==
    \/ QueryStep
    \/ Send
    \/ \E r \in Relations : Update(r) \/ UnlockUpdated(r)

Spec == Init /\ [][Next]_vars

(* Every thread keeps running: the query's loop and the sender's never     *)
(* wait for more than a lock, and an updater that sleeps wakes up.         *)
Fairness ==
    /\ WF_vars(QueryStep)
    /\ WF_vars(Send)
    /\ \A r \in Relations : WF_vars(Update(r)) /\ WF_vars(UnlockUpdated(r))

FairSpec == Spec /\ Fairness
-----------------------------------------------------------------------------
(* Consistency *)

Windows == Chosen(results, {k \in DOMAIN results : results[k] # EndOfStream})

(* The tuples of a window have been read from the same version of the      *)
(* relation by each combine.                                               *)
Consistent(w) == \A j, k \in DOMAIN w : w[j].reads = w[k].reads

(* The referenced versions of all combines reach the mean: a combine and a *)
(* project make new tuples that lose those of the combines before them.    *)
TagsReachMean ==
    /\ Cardinality(Combines) = 1
    /\ \A i \in RedoOps : Kind(i) # "project"

(* No tuple waits behind a combine when a transaction ends.                *)
OneAtATime == conf.batch = 1 /\ \A r \in Relations, k \in Arrivals : Matches[r][k] <= 1

(* What concurrency control is for: the mean outputs only windows whose    *)
(* tuples have read one version of each relation, although updates come in *)
(* between any two tuples.  Under the optimistic control it does where the *)
(* referenced versions reach it; under the pessimistic ones where the      *)
(* transaction's end takes back what the combines are ahead of it, or      *)
(* where they never are.                                                   *)
WindowsReadOneVersion ==
    \/ conf.mode = "OPTIMISTIC" /\ TagsReachMean
    \/ conf.mode \in PessimisticModes /\ (Overlapping \/ OneAtATime)
    => \A k \in DOMAIN results : results[k] # EndOfStream => Consistent(results[k])
(* The same of every query (not what the code does): the results of a      *)
(* window have reference consistency, in every mode with a control.        *)
AllWindowsReadOneVersion ==
    conf.mode # "NONE" =>
        \A k \in DOMAIN results : results[k] # EndOfStream => Consistent(results[k])
-----------------------------------------------------------------------------
(* Completeness, where no tuple matches twice *)

ReachesMean(k) ==
    /\ \A i \in Combines : Matches[RelationOf(i)][k] = 1
    /\ (\E i \in Ops : Kind(i) = "select") => k \in Selected

(* The position of an input tuple among those that reach the mean.         *)
Position(k) == Cardinality({j \in 1 .. k : ReachesMean(j)})

Start(w) == Position(w[1].arrived)

Contiguous(w) ==
    \A j \in 1 .. Len(w) - 1 : Position(w[j + 1].arrived) = Position(w[j].arrived) + 1

(* Where the window after one that starts at s can start.  A redo repeats  *)
(* the window before it.  The end of a pessimistic transaction starts over *)
(* behind the window, and without an overlap it loses a tuple.             *)
NextStarts(s) ==
    CASE conf.mode = "NONE" -> {s + conf.win.stride}
      [] conf.mode = "OPTIMISTIC" -> {s, s + conf.win.stride}
      [] conf.mode \in PessimisticModes ->
             {IF Overlapping THEN s + conf.win.width ELSE s + conf.win.width + 1}

NoTwoMatches == \A i \in Combines, k \in Arrivals : Matches[RelationOf(i)][k] <= 1

(* With several windows in an overlapping transaction, the tuple dropped   *)
(* after each of them is missing from the next.                            *)
DropsWithinWindow ==
    conf.mode \in PessimisticModes /\ Overlapping /\ conf.joint > 1

(* Every window is a run of the tuples that reach the mean, the first one  *)
(* starts with the first of them, and the windows follow each other in     *)
(* order, whatever is redone, evicted or taken back in between.            *)
ResultsFollowStream ==
    (NoTwoMatches /\ ~DropsWithinWindow) =>
        /\ \A k \in DOMAIN Windows : Contiguous(Windows[k])
        /\ Windows # <<>> => Start(Windows[1]) = 1
        /\ \A k \in 1 .. Len(Windows) - 1 :
               Start(Windows[k + 1]) \in NextStarts(Start(Windows[k]))

(* The end of the stream comes out once and last, and not before the       *)
(* windows that the input has tuples for.                                  *)
EndsComplete ==
    LET total == Position(NumTuples)
        last == Start(Windows[Len(Windows)])
    IN  /\ \A k \in DOMAIN results : results[k] = EndOfStream => k = Len(results)
        /\ (EndOfStream \in {results[k] : k \in DOMAIN results}
                /\ NoTwoMatches /\ ~DropsWithinWindow) =>
               IF Windows = <<>> THEN total < conf.win.width
               ELSE \A s \in NextStarts(last) \ {last} : s + conf.win.width - 1 > total
-----------------------------------------------------------------------------
(* The backup *)

RangeOf(seq) == {seq[k] : k \in DOMAIN seq}

ArrivedIn(tuples) == {t.arrived : t \in tuples \ {EndOfStream}}

(* The tuples after the redo stream that no window has been made of yet.   *)
InFlight ==
    (UNION {RangeOf(streams[i].queue) : i \in RedoLeaf .. NumOps - 1})
        \cup RangeOf(synopsis.newcomers)

(* The tuples of the latest window that the next one shares.               *)
SharedWithNext ==
    IF synopsis.filled /\ conf.mode = "OPTIMISTIC"
    THEN LET w == Syn!WindowOf(conf.win, synopsis)
         IN {w[j] : j \in conf.win.stride + 1 .. conf.win.width}
    ELSE {}

(* A redo can start at any time: the backup of the redo stream holds every *)
(* tuple that the next window needs and that has left the stream, and ends *)
(* with the very tuples that have not left it.                             *)
RedoCovers ==
    LET redo == streams[RedoStream]
        ahead == Len(redo.backup) - Len(redo.queue)
    IN  /\ ahead >= 0
        /\ redo.queue = SubSeq(redo.backup, ahead + 1, Len(redo.backup))
        /\ ArrivedIn(InFlight \cup SharedWithNext) \subseteq ArrivedIn(RangeOf(redo.backup))
-----------------------------------------------------------------------------
(* Progress *)

(* Whatever is redone and whoever holds the locks in between, the end of   *)
(* the stream gets through.                                                *)
StreamIsConsumed == <>(EndOfStream \in RangeOf(results))

(* Without 2PL a query never keeps a relation from being updated for good. *)
UpdatesGetThrough ==
    conf.mode # "PESSIMISTIC_2PL" ~> \A r \in Relations : relation[r].version = MaxVersion
=============================================================================
