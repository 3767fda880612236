------------------------ MODULE ContinuousQueryProofs ------------------------
(***************************************************************************)
(* Proofs about ContinuousQuery, for every chain of operators, window,     *)
(* batch, number of windows in a transaction, sequence of updates and      *)
(* input: the mean outputs no window whose tuples have read two versions   *)
(* of a relation, wherever a concurrency control is to prevent it.         *)
(*                                                                         *)
(* The inductive invariant follows the tuples through the plan.  Under a   *)
(* pessimistic control everything on its way has read what its transaction *)
(* reads, and a combine that has been passed is in a transaction           *)
(* (PessimisticTuple); for that nothing may be on its way when the         *)
(* transaction ends, because it is thrown away (Overlapping) or because no *)
(* operator gets ahead of the next (AloneInv).  Under the optimistic one a *)
(* tuple tells what it has read by its tag (OptimisticTuple).              *)
(*                                                                         *)
(* And the backup of the redo stream covers what a redo replays, whatever  *)
(* has been output or evicted (BackupInv, the second part); the windows    *)
(* follow the stream, and the end comes after the last of them (FlowInv,   *)
(* CommitInv and EndInv, the third part).                                  *)
(***************************************************************************)
EXTENDS ContinuousQuery, SubsequenceTheorems

Messages == Tuples \cup {EndOfStream}

StreamType == [queue : Seq(Messages), backup : Seq(Messages), backed : BOOLEAN]

RelationType == [version : Versions, owner : {Query, Updater, NoThread}, depth : Nat]

SynopsisType(win) ==
    [index : Syn!Slots(win), newcomers : Seq(Tuples),
     tuples : [Syn!Slots(win) -> Tuples \cup {NoTuple}],
     filled : BOOLEAN, beginning : Syn!Slots(win)]

(* A window's slots and its newcomers, between two tuples *)
SynopsisOK(win, syn) ==
    /\ syn \in SynopsisType(win)
    /\ Len(syn.newcomers) < Syn!Needed(win, syn)
    /\ syn.filled => \A k \in Syn!Slots(win) : syn.tuples[k] \in Tuples

(* Only the redo stream keeps a backup. *)
StreamsOK(strms) ==
    /\ strms \in [0 .. NumOps - 1 -> StreamType]
    /\ \A j \in 0 .. NumOps - 1 :
           /\ strms[j].backed = (j = RedoStream)
           /\ j # RedoStream => strms[j].backup = <<>>

RelationsOK ==
    /\ relation \in [Relations -> RelationType]
    /\ \A r \in Relations : relation[r].owner = NoThread <=> relation[r].depth = 0

TypeOK ==
    /\ conf \in Configurations
    /\ sent \in 0 .. NumTuples + 1
    /\ turn \in Ops
    /\ calls \in Nat
    /\ committed \in BOOLEAN
    /\ commit_count \in Nat
    /\ first_time \in [Combines -> BOOLEAN]
    /\ snapshot \in [Combines -> Versions]
    /\ results \in Seq([1 .. conf.win.width -> Tuples] \cup {EndOfStream})
    /\ StreamsOK(streams) /\ SynopsisOK(conf.win, synopsis) /\ RelationsOK
-----------------------------------------------------------------------------
(* What a tuple behind operator j has read *)

PessimisticCase == conf.mode \in PessimisticModes /\ (Overlapping \/ OneAtATime)
OptimisticCase == conf.mode = "OPTIMISTIC" /\ TagsReachMean

(* The version that a combine reads for as long as its transaction lasts.  *)
Current(i) ==
    IF conf.mode = "PESSIMISTIC_SNAPSHOT" THEN snapshot[i] ELSE relation[RelationOf(i)].version

PessimisticTuple(tuple, j) ==
    /\ tuple.reads = {<<i, Current(i)>> : i \in {k \in Combines : k <= j}}
    /\ \A i \in Combines : i <= j => ~first_time[i]

OptimisticTuple(tuple, j) ==
    IF j < RedoLeaf THEN tuple.reads = {}
    ELSE tuple.tag \in Tags /\ tuple.reads = {<<RedoLeaf, tuple.tag.version>>}

Good(tuple, j) ==
    /\ PessimisticCase => PessimisticTuple(tuple, j)
    /\ OptimisticCase => OptimisticTuple(tuple, j)

Held(stream) == RangeOf(stream.queue) \cup RangeOf(stream.backup)

StreamsRead ==
    \A j \in 0 .. NumOps - 1 : \A t \in Held(streams[j]) \ {EndOfStream} : Good(t, j)

NewcomersRead == \A t \in RangeOf(synopsis.newcomers) : Good(t, NumOps - 1)

(* Slots that are not covered by the next window have been read with it. *)
SlotsRead ==
    (synopsis.filled /\ (conf.mode = "OPTIMISTIC" \/ Overlapping)) =>
        \A k \in Syn!Slots(conf.win) : Good(synopsis.tuples[k], NumOps - 1)

(* Under 2PL an updater cannot come in between. *)
LocksKept ==
    conf.mode = "PESSIMISTIC_2PL" =>
        \A i \in Combines : ~first_time[i] => relation[RelationOf(i)].owner = Query

NothingBegun == committed => synopsis.newcomers = <<>>

(* In a plan whose operators handle one tuple at a time, a tuple that is   *)
(* not in the input is where it is the next operator's turn.               *)
AloneInv ==
    (conf.mode \in PessimisticModes /\ ~Overlapping /\ OneAtATime) =>
        /\ calls = 0
        /\ \A j \in 1 .. NumOps - 1 :
               Len(streams[j].queue) <= IF turn = j + 1 THEN 1 ELSE 0

IInv ==
    /\ TypeOK
    /\ StreamsRead /\ NewcomersRead /\ SlotsRead
    /\ LocksKept /\ NothingBegun /\ AloneInv
    /\ WindowsReadOneVersion
-----------------------------------------------------------------------------
(* The plan *)

LEMMA PlanShape ==
    ASSUME conf \in Configurations
    PROVE  /\ NumOps \in Nat /\ NumOps >= 3
           /\ Kind(1) = "adapter" /\ Kind(NumOps) = "mean"
           /\ \A i \in 2 .. NumOps - 1 : Kind(i) \in {"select", "combine", "project"}
           /\ \A i \in Combines : i \in 2 .. NumOps - 1 /\ RelationOf(i) \in Relations
           /\ conf.mode \in CCModes
           /\ conf.win.width \in Nat /\ conf.win.stride \in 1 .. conf.win.width
           /\ conf.batch \in Nat \ {0} /\ conf.joint \in Nat \ {0}
<1>1. /\ NumOps \in Nat
      /\ Kind(1) = "adapter" /\ Kind(NumOps) = "mean"
      /\ \A i \in 2 .. NumOps - 1 : Kind(i) \in {"select", "combine", "project"}
      /\ \E i \in Ops : Kind(i) = "combine"
      /\ \A i \in Ops : Kind(i) = "combine" => RelationOf(i) \in Relations
      /\ conf.mode \in CCModes
      /\ conf.win.width \in Nat /\ conf.win.stride \in 1 .. conf.win.width
      /\ conf.batch \in Nat \ {0} /\ conf.joint \in Nat \ {0}
  BY ConfigurationsAssumption DEF NumOps, Ops, Kind, RelationOf
<1>2. \A i \in Ops : Kind(i) = "combine" => i # 1 /\ i # NumOps
  BY <1>1
<1>3. QED
  BY <1>1, <1>2 DEF Ops, Combines

LEMMA LeafIsFirst ==
    ASSUME conf \in Configurations
    PROVE  /\ RedoLeaf \in Combines /\ \A i \in Combines : RedoLeaf <= i
           /\ RedoLeaf \in 2 .. NumOps - 1
<1>1. Combines \in SUBSET Nat
  BY DEF Combines, Ops
<1>2. Combines # {}
  BY ConfigurationsAssumption DEF Combines, Ops, NumOps, Kind
<1>3. \E i \in Combines : \A j \in Combines : i <= j
  BY <1>1, <1>2, Least
<1>4. RedoLeaf \in Combines /\ \A j \in Combines : RedoLeaf <= j
  BY <1>3 DEF RedoLeaf
<1>5. QED
  BY <1>4, PlanShape

(* The query is the same for good, and what is derived from it. *)
LEMMA PlanStays ==
    ASSUME conf' = conf
    PROVE  /\ NumOps' = NumOps /\ Ops' = Ops /\ Combines' = Combines
           /\ RedoLeaf' = RedoLeaf /\ RedoStream' = RedoStream /\ RedoOps' = RedoOps
           /\ \A i : RelationOf(i)' = RelationOf(i) /\ Kind(i)' = Kind(i)
           /\ Overlapping' = Overlapping /\ OneAtATime' = OneAtATime
           /\ PessimisticCase' = PessimisticCase /\ OptimisticCase' = OptimisticCase
<1>1. NumOps' = NumOps /\ \A i : RelationOf(i)' = RelationOf(i) /\ Kind(i)' = Kind(i)
  BY DEF NumOps, RelationOf, Kind
<1>2. Ops' = Ops
  BY <1>1 DEF Ops
<1>3. Combines' = Combines
  BY <1>1, <1>2 DEF Combines
<1>4. RedoLeaf' = RedoLeaf
  BY <1>3 DEF RedoLeaf
<1>5. RedoStream' = RedoStream /\ RedoOps' = RedoOps
  BY <1>1, <1>4 DEF RedoStream, RedoOps
<1>6. Overlapping' = Overlapping /\ OneAtATime' = OneAtATime
  BY DEF Overlapping, OneAtATime
<1>7. PessimisticCase' = PessimisticCase
  BY <1>6 DEF PessimisticCase
<1>8. TagsReachMean' = TagsReachMean
  BY <1>1, <1>3, <1>5 DEF TagsReachMean
<1>9. OptimisticCase' = OptimisticCase
  BY <1>8 DEF OptimisticCase
<1>10. QED
  BY <1>1, <1>2, <1>3, <1>4, <1>5, <1>6, <1>7, <1>9
-----------------------------------------------------------------------------
(* Streams *)

LEMMA DequeuedStream ==
    ASSUME NEW s \in StreamType, s.queue # <<>>
    PROVE  /\ Dequeued(s) \in StreamType
           /\ Dequeued(s).backup = s.backup /\ Dequeued(s).backed = s.backed
           /\ Len(Dequeued(s).queue) = Len(s.queue) - 1
           /\ Held(Dequeued(s)) \subseteq Held(s)
           /\ Head(s.queue) \in Held(s) /\ Head(s.queue) \in Messages
<1>1. Dequeued(s) = [s EXCEPT !.queue = Tail(s.queue)]
  BY DEF Dequeued
<1>2. s.queue \in Seq(Messages) /\ s = [queue |-> s.queue, backup |-> s.backup, backed |-> s.backed]
  BY DEF StreamType
<1> DEFINE q == s.queue
<1>3. /\ Tail(q) \in Seq(Messages) /\ Len(Tail(q)) = Len(q) - 1
      /\ \A k \in 1 .. Len(Tail(q)) : Tail(q)[k] = q[k + 1]
      /\ Len(q) \in Nat /\ Len(q) > 0 /\ DOMAIN q = 1 .. Len(q)
      /\ DOMAIN Tail(q) = 1 .. Len(Tail(q))
      /\ Head(q) = q[1] /\ Head(q) \in Messages
  BY <1>2
<1>4. RangeOf(Tail(q)) \subseteq RangeOf(q)
  <2> HIDE DEF q
  <2>1. \A k \in 1 .. Len(q) - 1 : k + 1 \in 1 .. Len(q)
    BY <1>3
  <2>2. QED
    BY <1>3, <2>1 DEF RangeOf
<1>5. Dequeued(s).queue = Tail(q) /\ Dequeued(s).backup = s.backup /\ Dequeued(s).backed = s.backed
  BY <1>1, <1>2
<1>6. Head(q) \in RangeOf(q)
  BY <1>3 DEF RangeOf
<1>7. Dequeued(s) \in StreamType
  BY <1>1, <1>3 DEF StreamType
<1>8. QED
  BY <1>3, <1>4, <1>5, <1>6, <1>7 DEF Held

(* What a concatenation holds. *)
LEMMA ConcatRange ==
    ASSUME NEW S, NEW p \in Seq(S), NEW q \in Seq(S)
    PROVE  /\ p \o q \in Seq(S) /\ Len(p \o q) = Len(p) + Len(q)
           /\ RangeOf(p \o q) = RangeOf(p) \cup RangeOf(q)
<1>1. /\ p \o q \in Seq(S) /\ Len(p \o q) = Len(p) + Len(q)
      /\ \A i \in 1 .. Len(p) + Len(q) :
             (p \o q)[i] = IF i <= Len(p) THEN p[i] ELSE q[i - Len(p)]
      /\ Len(p) \in Nat /\ Len(q) \in Nat
      /\ DOMAIN p = 1 .. Len(p) /\ DOMAIN q = 1 .. Len(q)
      /\ DOMAIN (p \o q) = 1 .. Len(p) + Len(q)
  BY ConcatProperties, LenProperties
<1> DEFINE m == Len(p)
           n == Len(q)
           r == p \o q
<1> HIDE DEF m, n, r
<1>2. RangeOf(r) \subseteq RangeOf(p) \cup RangeOf(q)
  <2>1. ASSUME NEW i \in 1 .. m + n PROVE r[i] \in RangeOf(p) \cup RangeOf(q)
    <3>1. CASE i <= m
      <4>1. i \in 1 .. m /\ r[i] = p[i]
        BY <1>1, <2>1, <3>1 DEF m, n, r
      <4>2. QED
        BY <1>1, <4>1 DEF RangeOf, m
    <3>2. CASE ~(i <= m)
      <4>1. i - m \in 1 .. n /\ r[i] = q[i - m]
        BY <1>1, <2>1, <3>2 DEF m, n, r
      <4>2. QED
        BY <1>1, <4>1 DEF RangeOf, n
    <3>3. QED
      BY <3>1, <3>2
  <2>2. DOMAIN r = 1 .. m + n
    BY <1>1 DEF m, n, r
  <2>3. QED
    BY <2>1, <2>2 DEF RangeOf
<1>3. RangeOf(p) \cup RangeOf(q) \subseteq RangeOf(r)
  <2>1. ASSUME NEW i \in 1 .. m PROVE i \in 1 .. m + n /\ r[i] = p[i]
    BY <1>1, <2>1 DEF m, n, r
  <2>2. ASSUME NEW i \in 1 .. n PROVE i + m \in 1 .. m + n /\ r[i + m] = q[i]
    <3>1. i + m \in 1 .. m + n /\ ~(i + m <= m) /\ (i + m) - m = i
      BY <1>1, <2>2 DEF m, n
    <3>2. r[i + m] = q[(i + m) - m]
      BY <1>1, <3>1 DEF m, n, r
    <3>3. QED
      BY <3>1, <3>2
  <2>3. DOMAIN r = 1 .. m + n /\ DOMAIN p = 1 .. m /\ DOMAIN q = 1 .. n
    BY <1>1 DEF m, n, r
  <2>4. QED
    BY <2>1, <2>2, <2>3 DEF RangeOf
<1>4. QED
  BY <1>1, <1>2, <1>3 DEF r

LEMMA EnqueuedStream ==
    ASSUME NEW s \in StreamType, NEW tuples \in Seq(Messages)
    PROVE  /\ Enqueued(s, tuples) \in StreamType
           /\ Enqueued(s, tuples).backed = s.backed
           /\ ~s.backed => Enqueued(s, tuples).backup = s.backup
           /\ Len(Enqueued(s, tuples).queue) = Len(s.queue) + Len(tuples)
           /\ Held(Enqueued(s, tuples)) \subseteq Held(s) \cup RangeOf(tuples)
<1> DEFINE e == Enqueued(s, tuples)
<1>1. s = [queue |-> s.queue, backup |-> s.backup, backed |-> s.backed]
      /\ s.queue \in Seq(Messages) /\ s.backup \in Seq(Messages) /\ s.backed \in BOOLEAN
  BY DEF StreamType
<1>2. /\ e.queue = s.queue \o tuples /\ e.backed = s.backed
      /\ e.backup = IF s.backed THEN s.backup \o tuples ELSE s.backup
      /\ e = [queue |-> e.queue, backup |-> e.backup, backed |-> e.backed]
  <2> DEFINE backup == IF s.backed THEN s.backup \o tuples ELSE s.backup
  <2>1. e = [s EXCEPT !.queue = s.queue \o tuples, !.backup = backup]
    BY DEF Enqueued
  <2> HIDE DEF e, backup
  <2>2. e = [queue |-> s.queue \o tuples, backup |-> backup, backed |-> s.backed]
    BY <1>1, <2>1
  <2>3. QED
    BY <2>2 DEF backup
<1>3. /\ s.queue \o tuples \in Seq(Messages) /\ s.backup \o tuples \in Seq(Messages)
      /\ RangeOf(s.queue \o tuples) = RangeOf(s.queue) \cup RangeOf(tuples)
      /\ RangeOf(s.backup \o tuples) = RangeOf(s.backup) \cup RangeOf(tuples)
      /\ Len(s.queue \o tuples) = Len(s.queue) + Len(tuples)
  BY <1>1, ConcatRange
<1> HIDE DEF e
<1>4. e \in StreamType
  BY <1>1, <1>2, <1>3 DEF StreamType
<1>5. Held(e) \subseteq Held(s) \cup RangeOf(tuples)
  BY <1>2, <1>3 DEF Held
<1>6. QED
  BY <1>2, <1>3, <1>4, <1>5 DEF e

LEMMA EvictedStream ==
    ASSUME NEW s \in StreamType, NEW lwm
    PROVE  /\ Evicted(s, lwm) \in StreamType
           /\ Evicted(s, lwm).backed = s.backed /\ Evicted(s, lwm).queue = s.queue
           /\ Held(Evicted(s, lwm)) \subseteq Held(s)
<1> DEFINE kept == {k \in DOMAIN s.backup : ~OlderThan(s.backup[k], lwm)}
           rest == Chosen(s.backup, kept)
<1>1. s = [queue |-> s.queue, backup |-> s.backup, backed |-> s.backed]
      /\ s.queue \in Seq(Messages) /\ s.backup \in Seq(Messages) /\ s.backed \in BOOLEAN
  BY DEF StreamType
<1>2. Evicted(s, lwm) = [s EXCEPT !.backup = rest]
  BY DEF Evicted
<1>3. kept \in SUBSET DOMAIN s.backup
  OBVIOUS
<1> HIDE DEF kept
<1>4. /\ rest \in Seq(Messages) /\ Len(rest) = Cardinality(kept)
      /\ \A n \in 1 .. Cardinality(kept) : Nth(kept, n) \in kept /\ rest[n] = s.backup[Nth(kept, n)]
  BY <1>1, <1>3, ChosenProperties
<1>5. RangeOf(rest) \subseteq RangeOf(s.backup)
  <2> HIDE DEF rest
  <2>1. DOMAIN rest = 1 .. Cardinality(kept)
    BY <1>4
  <2>2. QED
    BY <1>3, <1>4, <2>1 DEF RangeOf
<1> HIDE DEF rest
<1>6. QED
  BY <1>1, <1>2, <1>4, <1>5 DEF Held, StreamType

(* Starting over from the backup, and being dropped *)
LEMMA ClearedStream ==
    ASSUME NEW s \in StreamType
    PROVE  /\ Cleared(s) \in StreamType /\ Recovered(Cleared(s)) \in StreamType
           /\ Cleared(s).backed = s.backed /\ Cleared(s).backup = s.backup
           /\ Cleared(s).queue = <<>>
           /\ Recovered(Cleared(s)).backed = s.backed /\ Recovered(Cleared(s)).backup = s.backup
           /\ Recovered(Cleared(s)).queue = s.backup
           /\ Held(Recovered(Cleared(s))) \subseteq Held(s)
           /\ Held(Cleared(s)) = RangeOf(s.backup)
<1>1. s = [queue |-> s.queue, backup |-> s.backup, backed |-> s.backed]
      /\ s.queue \in Seq(Messages) /\ s.backup \in Seq(Messages) /\ s.backed \in BOOLEAN
  BY DEF StreamType
<1>2. <<>> \in Seq(Messages) /\ RangeOf(<<>>) = {} /\ s.backup \o <<>> = s.backup
  BY <1>1, ConcatEmptySeq DEF RangeOf
<1>3. Cleared(s) = [queue |-> <<>>, backup |-> s.backup, backed |-> s.backed]
  BY <1>1 DEF Cleared
<1>4. Recovered(Cleared(s)) = [queue |-> s.backup, backup |-> s.backup, backed |-> s.backed]
  BY <1>2, <1>3 DEF Recovered
<1>5. Cleared(s) \in StreamType /\ Recovered(Cleared(s)) \in StreamType
  BY <1>1, <1>2, <1>3, <1>4 DEF StreamType
<1>6. QED
  BY <1>2, <1>3, <1>4, <1>5 DEF Held

(* The streams of a plan, after one of them has lost its first tuple       *)
LEMMA TakingKeepsStreams ==
    ASSUME NEW strms, StreamsOK(strms), NEW k \in 0 .. NumOps - 1, strms[k].queue # <<>>,
           NEW taken, taken = [strms EXCEPT ![k] = Dequeued(@)]
    PROVE  /\ StreamsOK(taken)
           /\ \A j \in 0 .. NumOps - 1 : Held(taken[j]) \subseteq Held(strms[j])
           /\ \A j \in 0 .. NumOps - 1 : j # k => taken[j] = strms[j]
           /\ Len(taken[k].queue) = Len(strms[k].queue) - 1
           /\ taken[k].backup = strms[k].backup
           /\ Head(strms[k].queue) \in Held(strms[k]) /\ Head(strms[k].queue) \in Messages
<1>1. strms \in [0 .. NumOps - 1 -> StreamType] /\ strms[k] \in StreamType
  BY DEF StreamsOK
<1>2. /\ taken[k] = Dequeued(strms[k])
      /\ \A j \in 0 .. NumOps - 1 : j # k => taken[j] = strms[j]
  BY <1>1
<1>3. /\ Dequeued(strms[k]) \in StreamType
      /\ Dequeued(strms[k]).backup = strms[k].backup /\ Dequeued(strms[k]).backed = strms[k].backed
      /\ Len(Dequeued(strms[k]).queue) = Len(strms[k].queue) - 1
      /\ Held(Dequeued(strms[k])) \subseteq Held(strms[k])
      /\ Head(strms[k].queue) \in Held(strms[k]) /\ Head(strms[k].queue) \in Messages
  BY <1>1, DequeuedStream
<1>4. taken \in [0 .. NumOps - 1 -> StreamType]
  BY <1>1, <1>3
<1>5. \A j \in 0 .. NumOps - 1 :
          taken[j].backed = strms[j].backed /\ taken[j].backup = strms[j].backup
  BY <1>2, <1>3
<1>6. StreamsOK(taken)
  BY <1>4, <1>5 DEF StreamsOK
<1>7. QED
  BY <1>2, <1>3, <1>6

(* and after tuples have been put into one of them.                        *)
LEMMA PuttingKeepsStreams ==
    ASSUME NEW strms, StreamsOK(strms), NEW k \in 0 .. NumOps - 1,
           NEW tuples \in Seq(Messages),
           NEW put, put = [strms EXCEPT ![k] = Enqueued(@, tuples)]
    PROVE  /\ StreamsOK(put)
           /\ \A j \in 0 .. NumOps - 1 : j # k => put[j] = strms[j]
           /\ Held(put[k]) \subseteq Held(strms[k]) \cup RangeOf(tuples)
           /\ Len(put[k].queue) = Len(strms[k].queue) + Len(tuples)
<1>1. strms \in [0 .. NumOps - 1 -> StreamType] /\ strms[k] \in StreamType
  BY DEF StreamsOK
<1>2. /\ put[k] = Enqueued(strms[k], tuples)
      /\ \A j \in 0 .. NumOps - 1 : j # k => put[j] = strms[j]
  BY <1>1
<1>3. /\ Enqueued(strms[k], tuples) \in StreamType
      /\ Enqueued(strms[k], tuples).backed = strms[k].backed
      /\ ~strms[k].backed => Enqueued(strms[k], tuples).backup = strms[k].backup
      /\ Len(Enqueued(strms[k], tuples).queue) = Len(strms[k].queue) + Len(tuples)
      /\ Held(Enqueued(strms[k], tuples)) \subseteq Held(strms[k]) \cup RangeOf(tuples)
  BY <1>1, EnqueuedStream
<1>4. put \in [0 .. NumOps - 1 -> StreamType]
  BY <1>1, <1>3
<1>5. \A j \in 0 .. NumOps - 1 :
          /\ put[j].backed = strms[j].backed
          /\ ~strms[j].backed => put[j].backup = strms[j].backup
  BY <1>2, <1>3
<1>6. StreamsOK(put)
  <2>1. \A j \in 0 .. NumOps - 1 : j # RedoStream => ~strms[j].backed
    BY DEF StreamsOK
  <2>2. QED
    BY <1>4, <1>5, <2>1 DEF StreamsOK
<1>7. QED
  BY <1>2, <1>3, <1>6

(* An eviction from the redo stream's backup *)
LEMMA EvictingKeepsStreams ==
    ASSUME NEW strms, StreamsOK(strms), NEW lwm, conf \in Configurations,
           NEW evicted, evicted = [strms EXCEPT ![RedoStream] = Evicted(@, lwm)]
    PROVE  /\ StreamsOK(evicted)
           /\ \A j \in 0 .. NumOps - 1 : /\ Held(evicted[j]) \subseteq Held(strms[j])
                                         /\ evicted[j].queue = strms[j].queue
<1>1. RedoStream \in 0 .. NumOps - 1
  BY LeafIsFirst, PlanShape DEF RedoStream
<1>2. strms \in [0 .. NumOps - 1 -> StreamType] /\ strms[RedoStream] \in StreamType
  BY <1>1 DEF StreamsOK
<1>3. /\ evicted[RedoStream] = Evicted(strms[RedoStream], lwm)
      /\ \A j \in 0 .. NumOps - 1 : j # RedoStream => evicted[j] = strms[j]
  BY <1>1, <1>2
<1>4. /\ Evicted(strms[RedoStream], lwm) \in StreamType
      /\ Evicted(strms[RedoStream], lwm).backed = strms[RedoStream].backed
      /\ Evicted(strms[RedoStream], lwm).queue = strms[RedoStream].queue
      /\ Held(Evicted(strms[RedoStream], lwm)) \subseteq Held(strms[RedoStream])
  BY <1>2, EvictedStream
<1>5. evicted \in [0 .. NumOps - 1 -> StreamType]
  BY <1>2, <1>4
<1>6. \A j \in 0 .. NumOps - 1 : evicted[j].backed = strms[j].backed
  BY <1>3, <1>4
<1>7. StreamsOK(evicted)
  BY <1>3, <1>5, <1>6 DEF StreamsOK
<1>8. QED
  BY <1>3, <1>4, <1>7

(* After a restart nothing is behind a combine.                            *)
LEMMA RestartingKeepsStreams ==
    ASSUME NEW strms, StreamsOK(strms), conf \in Configurations
    PROVE  /\ StreamsOK(Restarted(strms))
           /\ \A j \in 0 .. NumOps - 1 : Held(Restarted(strms)[j]) \subseteq Held(strms[j])
           /\ \A j \in 0 .. NumOps - 1 : j >= RedoLeaf => Held(Restarted(strms)[j]) = {}
<1> DEFINE restarted == Restarted(strms)
<1>1. RedoStream \in 0 .. NumOps - 1 /\ RedoStream < RedoLeaf /\ RedoLeaf \in 0 .. NumOps
      /\ NumOps \in Nat
  BY LeafIsFirst, PlanShape DEF RedoStream
<1>2. strms \in [0 .. NumOps - 1 -> StreamType]
  BY DEF StreamsOK
<1>3. restarted = [j \in 0 .. NumOps - 1 |->
          IF j = RedoStream THEN Recovered(Cleared(strms[j]))
          ELSE IF j \in RedoOps THEN Cleared(strms[j]) ELSE strms[j]]
  BY <1>2 DEF Restarted
<1> HIDE DEF restarted
<1>4. ASSUME NEW j \in 0 .. NumOps - 1
      PROVE  /\ restarted[j] \in StreamType
             /\ restarted[j].backed = strms[j].backed /\ restarted[j].backup = strms[j].backup
             /\ Held(restarted[j]) \subseteq Held(strms[j])
             /\ j >= RedoLeaf => Held(restarted[j]) = {}
  <2>1. strms[j] \in StreamType
    BY <1>2
  <2>2. CASE j = RedoStream
    <3>1. restarted[j] = Recovered(Cleared(strms[j])) /\ ~(j >= RedoLeaf)
      BY <1>1, <1>3, <2>2
    <3>2. QED
      BY <2>1, <3>1, ClearedStream
  <2>3. CASE j # RedoStream /\ j \in RedoOps
    <3>1. restarted[j] = Cleared(strms[j]) /\ strms[j].backup = <<>>
      BY <1>3, <2>3 DEF StreamsOK
    <3>2. RangeOf(<<>>) = {}
      BY DEF RangeOf
    <3>3. QED
      BY <2>1, <3>1, <3>2, ClearedStream DEF Held
  <2>4. CASE j # RedoStream /\ j \notin RedoOps
    <3>1. restarted[j] = strms[j] /\ ~(j >= RedoLeaf)
      BY <1>1, <1>3, <2>4 DEF RedoOps
    <3>2. QED
      BY <2>1, <3>1
  <2>5. QED
    BY <2>2, <2>3, <2>4
<1>5. restarted \in [0 .. NumOps - 1 -> StreamType]
  BY <1>3, <1>4
<1>6. StreamsOK(restarted)
  BY <1>4, <1>5 DEF StreamsOK
<1>7. QED
  BY <1>4, <1>6 DEF restarted
-----------------------------------------------------------------------------
(* The mean's window *)

IsWindow(win) == win.width \in Nat /\ win.stride \in 1 .. win.width

LEMMA NewSynopsisOK ==
    ASSUME NEW win, IsWindow(win)
    PROVE  SynopsisOK(win, Syn!NewSynopsis(win)) /\ RangeOf(Syn!NewSynopsis(win).newcomers) = {}
<1> DEFINE syn == Syn!NewSynopsis(win)
<1>1. /\ syn.newcomers = <<>> /\ syn.filled = FALSE
      /\ <<>> \in Seq(Tuples) /\ Len(<<>>) = 0 /\ RangeOf(<<>>) = {}
  BY DEF Syn!NewSynopsis, RangeOf
<1>2. syn \in SynopsisType(win)
  BY DEF Syn!NewSynopsis, SynopsisType, Syn!Slots, IsWindow
<1>3. Syn!Needed(win, syn) = win.width
  BY <1>1 DEF Syn!Needed
<1> HIDE DEF syn
<1>4. QED
  BY <1>1, <1>2, <1>3 DEF SynopsisOK, IsWindow, syn

LEMMA ResetSynopsisOK ==
    ASSUME NEW win, IsWindow(win), NEW syn \in SynopsisType(win)
    PROVE  /\ SynopsisOK(win, Syn!Reset(syn)) /\ Syn!Reset(syn).filled = FALSE
           /\ Syn!Reset(syn).newcomers = <<>>
<1> DEFINE reset == Syn!Reset(syn)
<1>1. <<>> \in Seq(Tuples) /\ Len(<<>>) = 0 /\ 0 \in Syn!Slots(win)
  BY DEF Syn!Slots, IsWindow
<1>2. syn = [index |-> syn.index, newcomers |-> syn.newcomers, tuples |-> syn.tuples,
             filled |-> syn.filled, beginning |-> syn.beginning]
      /\ syn.tuples \in [Syn!Slots(win) -> Tuples \cup {NoTuple}]
  BY DEF SynopsisType
<1>3. reset = [index |-> 0, newcomers |-> <<>>, tuples |-> syn.tuples, filled |-> FALSE,
               beginning |-> 0]
  <2>1. reset = [syn EXCEPT !.index = 0, !.newcomers = <<>>, !.filled = FALSE, !.beginning = 0]
    BY DEF Syn!Reset
  <2> HIDE DEF reset
  <2>2. QED
    BY <1>2, <2>1
<1>4. reset \in SynopsisType(win) /\ reset.filled = FALSE /\ reset.newcomers = <<>>
  BY <1>1, <1>2, <1>3 DEF SynopsisType
<1>5. Syn!Needed(win, reset) = win.width
  BY <1>4 DEF Syn!Needed
<1> HIDE DEF reset
<1>6. QED
  BY <1>1, <1>4, <1>5 DEF SynopsisOK, IsWindow, reset

(* What an appended sequence holds. *)
LEMMA AppendRange ==
    ASSUME NEW S, NEW s \in Seq(S), NEW t \in S
    PROVE  /\ Append(s, t) \in Seq(S) /\ Len(Append(s, t)) = Len(s) + 1
           /\ RangeOf(Append(s, t)) = RangeOf(s) \cup {t}
<1> DEFINE a == Append(s, t)
           n == Len(s)
<1>1. /\ a \in Seq(S) /\ Len(a) = n + 1 /\ n \in Nat
      /\ \A k \in 1 .. n : a[k] = s[k]
      /\ a[n + 1] = t
      /\ DOMAIN s = 1 .. n /\ DOMAIN a = 1 .. n + 1
  BY AppendProperties, LenProperties
<1> HIDE DEF a, n
<1>2. 1 .. n + 1 = (1 .. n) \cup {n + 1}
  BY <1>1
<1>3. RangeOf(a) = RangeOf(s) \cup {t}
  BY <1>1, <1>2 DEF RangeOf
<1>4. QED
  BY <1>1, <1>3 DEF a, n

(* A tuple that completes no window joins the newcomers.                   *)
LEMMA WaitingSynopsis ==
    ASSUME NEW win, IsWindow(win), NEW syn, SynopsisOK(win, syn), NEW t \in Tuples,
           ~Syn!Completes(win, syn),
           NEW next, next = Syn!Enqueued(win, syn, t)
    PROVE  /\ SynopsisOK(win, next)
           /\ next.filled = syn.filled /\ next.tuples = syn.tuples
           /\ RangeOf(next.newcomers) = RangeOf(syn.newcomers) \cup {t}
<1> DEFINE newcomers == Append(syn.newcomers, t)
<1>1. syn = [index |-> syn.index, newcomers |-> syn.newcomers, tuples |-> syn.tuples,
             filled |-> syn.filled, beginning |-> syn.beginning]
      /\ syn.newcomers \in Seq(Tuples) /\ syn.filled \in BOOLEAN
      /\ syn.index \in Syn!Slots(win) /\ syn.beginning \in Syn!Slots(win)
      /\ syn.tuples \in [Syn!Slots(win) -> Tuples \cup {NoTuple}]
  BY DEF SynopsisOK, SynopsisType
<1>2. /\ newcomers \in Seq(Tuples) /\ Len(newcomers) = Len(syn.newcomers) + 1
      /\ RangeOf(newcomers) = RangeOf(syn.newcomers) \cup {t}
  BY <1>1, AppendRange
<1>3. next = [syn EXCEPT !.newcomers = newcomers]
  BY DEF Syn!Enqueued
<1> HIDE DEF newcomers
<1>4. next = [index |-> syn.index, newcomers |-> newcomers, tuples |-> syn.tuples,
              filled |-> syn.filled, beginning |-> syn.beginning]
  BY <1>1, <1>3
<1>5. next \in SynopsisType(win)
  BY <1>1, <1>2, <1>4 DEF SynopsisType
<1>6. Syn!Needed(win, next) = Syn!Needed(win, syn) /\ Syn!Needed(win, syn) \in Nat
  BY <1>1, <1>4 DEF Syn!Needed, IsWindow
<1>7. Len(syn.newcomers) < Syn!Needed(win, syn) /\ Len(syn.newcomers) \in Nat
      /\ Len(syn.newcomers) + 1 # Syn!Needed(win, syn)
  BY <1>1 DEF SynopsisOK, Syn!Completes
<1>8. Len(next.newcomers) < Syn!Needed(win, next)
  BY <1>2, <1>4, <1>6, <1>7
<1>9. QED
  BY <1>2, <1>4, <1>5, <1>8 DEF SynopsisOK

(* A tuple that completes a window: a slot gets a newcomer, or it keeps a  *)
(* tuple of the window before if the windows overlap.                      *)
LEMMA CompletedSynopsis ==
    ASSUME NEW win, IsWindow(win), NEW syn, SynopsisOK(win, syn), NEW t \in Tuples,
           Syn!Completes(win, syn),
           NEW next, next = Syn!Enqueued(win, syn, t)
    PROVE  /\ SynopsisOK(win, next) /\ next.filled /\ next.newcomers = <<>>
           /\ \A k \in Syn!Slots(win) :
                  \/ next.tuples[k] \in RangeOf(syn.newcomers) \cup {t}
                  \/ syn.filled /\ win.width > win.stride /\ next.tuples[k] = syn.tuples[k]
<1> DEFINE newcomers == Append(syn.newcomers, t)
           w == win.width
           s == win.stride
           i == syn.index
           c == Syn!Needed(win, syn)
           Offset(k) == IF k >= i THEN k - i ELSE k - i + w
           slots == [k \in Syn!Slots(win) |->
                        IF Offset(k) < c THEN newcomers[Offset(k) + 1] ELSE syn.tuples[k]]
<1>1. /\ syn.newcomers \in Seq(Tuples) /\ syn.filled \in BOOLEAN
      /\ i \in 0 .. w - 1 /\ w \in Nat /\ s \in 1 .. w
      /\ syn.tuples \in [Syn!Slots(win) -> Tuples \cup {NoTuple}]
      /\ Len(syn.newcomers) + 1 = c
      /\ syn.filled => \A k \in Syn!Slots(win) : syn.tuples[k] \in Tuples
  BY DEF SynopsisOK, SynopsisType, IsWindow, Syn!Slots, Syn!Completes
<1>2. /\ newcomers \in Seq(Tuples) /\ Len(newcomers) = c
      /\ RangeOf(newcomers) = RangeOf(syn.newcomers) \cup {t}
  BY <1>1, AppendRange
<1>3. c = IF syn.filled THEN s ELSE w
  BY DEF Syn!Needed
<1>4. next = Syn!Accepted(win, syn, newcomers)
  BY DEF Syn!Enqueued
<1>5. next = [index |-> Syn!SlotAfter(win, i, Len(newcomers)), newcomers |-> <<>>,
              tuples |-> slots, filled |-> TRUE, beginning |-> Syn!Beginning(win, syn)]
  BY <1>2, <1>4 DEF Syn!Accepted
<1>6. /\ Syn!SlotAfter(win, i, Len(newcomers)) \in Syn!Slots(win)
      /\ Syn!Beginning(win, syn) \in Syn!Slots(win)
  <2>1. ASSUME NEW n \in 1 .. w PROVE Syn!SlotAfter(win, i, n) \in Syn!Slots(win)
    <3>1. (IF i + n < w THEN i + n ELSE i + n - w) \in 0 .. w - 1
      <4> HIDE DEF i, w
      <4>1. QED
        BY <1>1, <2>1
    <3>2. QED
      BY <3>1 DEF Syn!SlotAfter, Syn!Slots
  <2>2. Len(newcomers) \in 1 .. w /\ s \in 1 .. w
    BY <1>1, <1>2, <1>3
  <2>3. QED
    BY <2>1, <2>2 DEF Syn!Beginning
<1>7. ASSUME NEW k \in Syn!Slots(win)
      PROVE  \/ slots[k] \in RangeOf(newcomers)
             \/ syn.filled /\ w > s /\ slots[k] = syn.tuples[k]
  <2>1. k \in 0 .. w - 1
    BY DEF Syn!Slots
  <2> DEFINE o == Offset(k)
  <2>2. o \in 0 .. w - 1
    <3> HIDE DEF i, w
    <3>1. QED
      BY <1>1, <2>1
  <2>3. slots[k] = IF o < c THEN newcomers[o + 1] ELSE syn.tuples[k]
    OBVIOUS
  <2> HIDE DEF slots, o, newcomers, c
  <2>4. CASE o < c
    <3>1. o + 1 \in 1 .. c /\ DOMAIN newcomers = 1 .. c
      BY <1>2, <1>1, <1>3, <2>2, <2>4
    <3>2. QED
      BY <2>3, <2>4, <3>1 DEF RangeOf
  <2>5. CASE ~(o < c)
    <3>1. syn.filled /\ w > s
      BY <1>1, <1>3, <2>2, <2>5
    <3>2. QED
      BY <2>3, <2>5, <3>1
  <2>6. QED
    BY <2>4, <2>5
<1>8. RangeOf(newcomers) \subseteq Tuples
  BY <1>2 DEF RangeOf
<1>9. \A k \in Syn!Slots(win) : slots[k] \in Tuples
  BY <1>1, <1>7, <1>8
<1>10. slots \in [Syn!Slots(win) -> Tuples \cup {NoTuple}]
  BY <1>9
<1>11. <<>> \in Seq(Tuples) /\ Len(<<>>) = 0
  OBVIOUS
<1>12. next \in SynopsisType(win)
  <2> HIDE DEF slots, i, newcomers
  <2>1. QED
    BY <1>5, <1>6, <1>10, <1>11 DEF SynopsisType
<1>13. next.tuples = slots /\ next.filled = TRUE /\ next.newcomers = <<>>
  <2> HIDE DEF slots
  <2>1. QED
    BY <1>5
<1>14. Syn!Needed(win, next) = s
  BY <1>13 DEF Syn!Needed
<1> HIDE DEF slots, newcomers, w, s, i, c
<1>15. SynopsisOK(win, next)
  BY <1>1, <1>9, <1>11, <1>12, <1>13, <1>14 DEF SynopsisOK
<1>16. QED
  BY <1>2, <1>7, <1>13, <1>15 DEF w, s

(* The window that is output is made of the slots.                         *)
LEMMA WindowTuples ==
    ASSUME NEW win, IsWindow(win), NEW syn, SynopsisOK(win, syn), syn.filled
    PROVE  /\ Syn!WindowOf(win, syn) \in [1 .. win.width -> Tuples]
           /\ \A j \in 1 .. win.width :
                  \E k \in Syn!Slots(win) : Syn!WindowOf(win, syn)[j] = syn.tuples[k]
<1> DEFINE w == win.width
           i == syn.index
<1>1. i \in 0 .. w - 1 /\ w \in Nat
      /\ \A k \in Syn!Slots(win) : syn.tuples[k] \in Tuples
  BY DEF SynopsisOK, SynopsisType, IsWindow, Syn!Slots
<1>2. ASSUME NEW j \in 1 .. w PROVE Syn!SlotAfter(win, i, j - 1) \in Syn!Slots(win)
  <2>1. (IF i + (j - 1) < w THEN i + (j - 1) ELSE i + (j - 1) - w) \in 0 .. w - 1
    <3> HIDE DEF i, w
    <3>1. QED
      BY <1>1, <1>2
  <2>2. QED
    BY <2>1 DEF Syn!SlotAfter, Syn!Slots
<1>3. Syn!WindowOf(win, syn) = [j \in 1 .. w |-> syn.tuples[Syn!SlotAfter(win, i, j - 1)]]
  BY DEF Syn!WindowOf
<1>4. QED
  BY <1>1, <1>2, <1>3
-----------------------------------------------------------------------------
(* Relations *)

MutexOK(rel) == rel.owner = NoThread <=> rel.depth = 0

LEMMA LockedRelation ==
    ASSUME NEW rel \in RelationType, NEW thread \in {Query, Updater}
    PROVE  /\ Rel!Locked(rel, thread) \in RelationType /\ MutexOK(Rel!Locked(rel, thread))
           /\ Rel!Locked(rel, thread).version = rel.version
           /\ Rel!Locked(rel, thread).owner = thread
<1>1. rel.depth + 1 \in Nat /\ rel.depth + 1 # 0 /\ thread # NoThread
  BY ConstantsAssumption DEF RelationType
<1>2. /\ Rel!Locked(rel, thread) \in RelationType
      /\ Rel!Locked(rel, thread).version = rel.version
      /\ Rel!Locked(rel, thread).owner = thread
      /\ Rel!Locked(rel, thread).depth = rel.depth + 1
  BY <1>1 DEF RelationType, Rel!Locked
<1>3. QED
  BY <1>1, <1>2 DEF MutexOK

LEMMA UnlockedRelation ==
    ASSUME NEW rel \in RelationType, MutexOK(rel), NEW thread \in {Query, Updater},
           NEW times \in Nat
    PROVE  /\ Rel!UnlockedTimes(rel, thread, times) \in RelationType
           /\ MutexOK(Rel!UnlockedTimes(rel, thread, times))
           /\ Rel!UnlockedTimes(rel, thread, times).version = rel.version
           /\ Rel!Unlocked(rel, thread) \in RelationType /\ MutexOK(Rel!Unlocked(rel, thread))
           /\ Rel!Unlocked(rel, thread).version = rel.version
           /\ Rel!Unlocked(rel, thread).owner \in {rel.owner, NoThread}
           /\ rel.owner # thread => Rel!Unlocked(rel, thread) = rel
<1> DEFINE free == [rel EXCEPT !.owner = NoThread, !.depth = 0]
           Less(n) == [rel EXCEPT !.depth = rel.depth - n]
<1>1. rel.owner = thread => rel.depth \in Nat \ {0} /\ rel.owner # NoThread
  BY ConstantsAssumption DEF MutexOK, RelationType
<1>2. free \in RelationType /\ free.version = rel.version /\ MutexOK(free) /\ free.owner = NoThread
  BY DEF RelationType, MutexOK
<1>3. ASSUME rel.owner = thread, NEW n \in Nat, rel.depth > n
      PROVE  /\ Less(n) \in RelationType /\ MutexOK(Less(n))
             /\ Less(n).version = rel.version /\ Less(n).owner = rel.owner
  <2>1. rel.depth - n \in Nat /\ rel.depth - n # 0
    BY <1>1, <1>3
  <2>2. /\ Less(n) \in RelationType /\ Less(n).version = rel.version
        /\ Less(n).owner = rel.owner /\ Less(n).depth = rel.depth - n
    BY <2>1 DEF RelationType
  <2>3. QED
    BY <1>1, <1>3, <2>1, <2>2 DEF MutexOK
<1>4. CASE rel.owner # thread
  BY <1>4 DEF Rel!UnlockedTimes, Rel!Unlocked
<1>5. CASE rel.owner = thread
  <2>1. Rel!UnlockedTimes(rel, thread, times) = IF rel.depth <= times THEN free ELSE Less(times)
    BY <1>5 DEF Rel!UnlockedTimes
  <2>2. Rel!Unlocked(rel, thread) = IF rel.depth = 1 THEN free ELSE Less(1)
    <3>1. rel.depth = 1 => Rel!Unlocked(rel, thread) = free
      <4>1. rel.depth = 1 => rel.depth - 1 = 0
        OBVIOUS
      <4>2. rel.depth = 1 =>
                Rel!Unlocked(rel, thread) = [rel EXCEPT !.depth = rel.depth - 1, !.owner = NoThread]
        BY <1>5 DEF Rel!Unlocked
      <4>3. rel.depth = 1 => Rel!Unlocked(rel, thread) = [rel EXCEPT !.depth = 0, !.owner = NoThread]
        BY <4>1, <4>2
      <4>4. [rel EXCEPT !.depth = 0, !.owner = NoThread] = free
        BY DEF RelationType
      <4>5. QED
        BY <4>3, <4>4
    <3>2. rel.depth # 1 => Rel!Unlocked(rel, thread) = Less(1)
      BY <1>5 DEF Rel!Unlocked, RelationType
    <3>3. QED
      BY <3>1, <3>2
  <2>3. /\ ~(rel.depth <= times) => rel.depth > times
        /\ rel.depth # 1 => rel.depth > 1
    BY <1>1, <1>5
  <2> HIDE DEF free, Less
  <2>4. QED
    BY <1>2, <1>3, <1>5, <2>1, <2>2, <2>3
<1>6. QED
  BY <1>4, <1>5
-----------------------------------------------------------------------------
(* Turns *)

(* With batches of one, every call is an operator's last of its turn.      *)
LEMMA TurnGoesOn ==
    ASSUME TypeOK, NextCall, conf' = conf
    PROVE  /\ turn' \in Ops' /\ calls' \in Nat
           /\ (OneAtATime /\ calls = 0) =>
                  calls' = 0 /\ \A j \in 1 .. NumOps - 1 : turn' = j + 1 <=> turn = j
<1>1. NumOps \in Nat /\ NumOps >= 3 /\ turn \in 1 .. NumOps /\ calls \in Nat /\ Ops' = 1 .. NumOps
  BY PlanShape, PlanStays DEF TypeOK, Ops
<1>2. turn % NumOps = IF turn = NumOps THEN 0 ELSE turn
  <2>1. \A n \in Nat \ {0} : n % n = 0
    OBVIOUS
  <2>2. \A n \in Nat \ {0}, m \in Nat : m < n => m % n = m
    OBVIOUS
  <2>3. QED
    BY <1>1, <2>1, <2>2
<1>3. /\ turn' \in 1 .. NumOps /\ calls' \in Nat
  BY <1>1, <1>2 DEF NextCall
<1>4. ASSUME OneAtATime, calls = 0
      PROVE  calls' = 0 /\ \A j \in 1 .. NumOps - 1 : turn' = j + 1 <=> turn = j
  <2>1. CallsOf(turn) = 1
    BY <1>4 DEF OneAtATime, CallsOf
  <2>2. calls' = 0 /\ turn' = (turn % NumOps) + 1
    BY <1>4, <2>1 DEF NextCall
  <2>3. QED
    BY <1>1, <1>2, <2>2
<1>5. QED
  BY <1>1, <1>3, <1>4

(* Where operators handle one tuple at a time, it is enough that a call    *)
(* takes a tuple and outputs no more than one.                             *)
LEMMA AloneStep ==
    ASSUME TypeOK, AloneInv, NextCall, conf' = conf, StreamsOK(streams)',
           \A j \in 1 .. NumOps - 1 :
               \/ Len(streams'[j].queue) = 0
               \/ j = turn /\ Len(streams'[j].queue) <= Len(streams[j].queue) + 1
               \/ j # turn - 1 /\ Len(streams'[j].queue) <= Len(streams[j].queue)
               \/ Len(streams'[j].queue) < Len(streams[j].queue)
    PROVE  AloneInv'
<1> SUFFICES ASSUME conf.mode \in PessimisticModes, ~Overlapping, OneAtATime
             PROVE  /\ calls' = 0
                    /\ \A j \in 1 .. NumOps - 1 :
                           Len(streams'[j].queue) <= IF turn' = j + 1 THEN 1 ELSE 0
  BY PlanStays DEF AloneInv
<1>1. calls = 0 /\ \A j \in 1 .. NumOps - 1 : Len(streams[j].queue) <= IF turn = j + 1 THEN 1 ELSE 0
  BY DEF AloneInv
<1>2. calls' = 0 /\ \A j \in 1 .. NumOps - 1 : turn' = j + 1 <=> turn = j
  BY <1>1, TurnGoesOn
<1>3. NumOps \in Nat /\ turn \in 1 .. NumOps
  BY PlanShape DEF TypeOK, Ops
<1>4. \A j \in 1 .. NumOps - 1 : Len(streams[j].queue) \in Nat /\ Len(streams'[j].queue) \in Nat
  <2>1. NumOps' = NumOps
    BY PlanStays
  <2>2. \A j \in 1 .. NumOps - 1 : streams[j] \in StreamType /\ streams'[j] \in StreamType
    BY <1>3, <2>1 DEF TypeOK, StreamsOK
  <2>3. \A s \in StreamType : Len(s.queue) \in Nat
    BY DEF StreamType
  <2>4. QED
    BY <2>2, <2>3
<1>5. ASSUME NEW j \in 1 .. NumOps - 1
      PROVE  Len(streams'[j].queue) <= IF turn' = j + 1 THEN 1 ELSE 0
  <2> DEFINE n == Len(streams[j].queue)
             m == Len(streams'[j].queue)
  <2>1. n \in Nat /\ m \in Nat /\ (n <= IF turn = j + 1 THEN 1 ELSE 0)
    BY <1>1, <1>4
  <2>2. \/ m = 0
        \/ j = turn /\ m <= n + 1
        \/ j # turn - 1 /\ m <= n
        \/ m < n
    OBVIOUS
  <2> HIDE DEF n, m
  <2>3. m <= IF turn = j THEN 1 ELSE 0
    BY <1>3, <2>1, <2>2
  <2>4. QED
    BY <1>2, <2>3 DEF m
<1>6. QED
  BY <1>2, <1>5
-----------------------------------------------------------------------------
(* What a step leaves as it was *)

LEMMA GoodStays ==
    ASSUME conf' = conf, first_time' = first_time, snapshot' = snapshot,
           conf.mode # "PESSIMISTIC_SNAPSHOT" =>
               \A i \in Combines : relation'[RelationOf(i)].version = relation[RelationOf(i)].version
    PROVE  \A t, j : Good(t, j) => Good(t, j)'
<1>1. \A i \in Combines : Current(i)' = Current(i)
  BY PlanStays DEF Current
<1>2. ASSUME NEW t, NEW j, PessimisticTuple(t, j) PROVE PessimisticTuple(t, j)'
  <2>1. {<<i, Current(i)>> : i \in {k \in Combines : k <= j}}' =
        {<<i, Current(i)>> : i \in {k \in Combines : k <= j}}
    BY <1>1, PlanStays
  <2>2. QED
    BY <1>2, <2>1, PlanStays DEF PessimisticTuple
<1>3. ASSUME NEW t, NEW j, OptimisticTuple(t, j) PROVE OptimisticTuple(t, j)'
  BY <1>3, PlanStays DEF OptimisticTuple
<1>4. QED
  BY <1>2, <1>3, PlanStays DEF Good

(* An operator's call that has nothing to do with relations and the window *)
LEMMA RestStays ==
    ASSUME IInv, conf' = conf, UnchangedTransaction, UNCHANGED synopsis
    PROVE  /\ NewcomersRead' /\ SlotsRead' /\ LocksKept' /\ NothingBegun'
           /\ SynopsisOK(conf.win, synopsis)' /\ RelationsOK'
           /\ first_time' \in [Combines' -> BOOLEAN] /\ snapshot' \in [Combines' -> Versions]
           /\ committed' \in BOOLEAN /\ commit_count' \in Nat
           /\ \A t, j : Good(t, j) => Good(t, j)'
<1> USE DEF UnchangedTransaction
<1>1. \A t, j : Good(t, j) => Good(t, j)'
  BY GoodStays
<1>2. NewcomersRead' /\ SlotsRead'
  BY <1>1, PlanStays DEF IInv, NewcomersRead, SlotsRead
<1>3. LocksKept' /\ NothingBegun'
  BY PlanStays DEF IInv, LocksKept, NothingBegun
<1>4. SynopsisOK(conf.win, synopsis)' /\ RelationsOK'
  BY DEF IInv, TypeOK, RelationsOK
<1>5. /\ first_time' \in [Combines' -> BOOLEAN] /\ snapshot' \in [Combines' -> Versions]
      /\ committed' \in BOOLEAN /\ commit_count' \in Nat
  BY PlanStays DEF IInv, TypeOK
<1>6. QED
  BY <1>1, <1>2, <1>3, <1>4, <1>5

LEMMA ResultsStay ==
    ASSUME TypeOK, WindowsReadOneVersion, conf' = conf,
           results' = results \/ results' = Append(results, EndOfStream)
    PROVE  WindowsReadOneVersion' /\ results' \in Seq([1 .. conf'.win.width -> Tuples] \cup {EndOfStream})
<1> DEFINE S == [1 .. conf.win.width -> Tuples] \cup {EndOfStream}
           n == Len(results)
<1>1. results \in Seq(S) /\ EndOfStream \in S
  BY DEF TypeOK
<1> HIDE DEF S
<1>2. /\ results' \in Seq(S) /\ n \in Nat /\ DOMAIN results = 1 .. n
      /\ \A k \in DOMAIN results' : results'[k] = EndOfStream \/ (k \in DOMAIN results /\ results'[k] = results[k])
  <2>1. CASE results' = results
    BY <1>1, <2>1
  <2>2. CASE results' = Append(results, EndOfStream)
    <3> DEFINE a == Append(results, EndOfStream)
    <3>1. /\ a \in Seq(S) /\ n \in Nat /\ DOMAIN results = 1 .. n
          /\ \A k \in 1 .. n : a[k] = results[k]
          /\ a[n + 1] = EndOfStream
          /\ DOMAIN a = 1 .. n + 1
          /\ results' = a
      BY <1>1, <2>2, AppendProperties, LenProperties
    <3> HIDE DEF n, a
    <3>2. \A k \in 1 .. n + 1 : k \in 1 .. n \/ k = n + 1
      BY <3>1
    <3>3. \A k \in DOMAIN a : a[k] = EndOfStream \/ (k \in DOMAIN results /\ a[k] = results[k])
      BY <3>1, <3>2
    <3>4. QED
      BY <3>1, <3>3
  <2>3. QED
    BY <2>1, <2>2
<1>3. (PessimisticCase \/ OptimisticCase) =>
          \A k \in DOMAIN results : results[k] # EndOfStream => Consistent(results[k])
  BY DEF WindowsReadOneVersion, PessimisticCase, OptimisticCase
<1>4. (PessimisticCase' \/ OptimisticCase') =>
          \A k \in DOMAIN results' : results'[k] # EndOfStream => Consistent(results'[k])
  BY <1>2, <1>3, PlanStays
<1>5. WindowsReadOneVersion'
  BY <1>4 DEF WindowsReadOneVersion, PessimisticCase, OptimisticCase
<1>6. QED
  BY <1>2, <1>5 DEF S

(* The streams' part of what a call leaves *)
LEMMA StreamsReadStep ==
    ASSUME conf' = conf, StreamsRead, \A t, j : Good(t, j) => Good(t, j)',
           \A j \in 0 .. NumOps - 1 : \A t \in Held(streams'[j]) :
               t \in Held(streams[j]) \/ t = EndOfStream \/ Good(t, j)'
    PROVE  StreamsRead'
BY PlanStays DEF StreamsRead

(* An operator before the mean takes a tuple and outputs some.             *)
LEMMA OutputEffect ==
    ASSUME TypeOK, conf' = conf, turn # NumOps, InputOf(turn) # <<>>,
           NEW tuples \in Seq(Messages), Output(tuples)
    PROVE  /\ StreamsOK(streams)'
           /\ HeadTuple \in Held(streams[turn - 1]) /\ HeadTuple \in Messages
           /\ turn - 1 \in 0 .. NumOps - 1 /\ turn \in 0 .. NumOps - 1
           /\ \A j \in 0 .. NumOps - 1 :
                  /\ j # turn => /\ Held(streams'[j]) \subseteq Held(streams[j])
                                 /\ Len(streams'[j].queue) <= Len(streams[j].queue)
                  /\ Held(streams'[turn]) \subseteq Held(streams[turn]) \cup RangeOf(tuples)
                  /\ Len(streams'[turn].queue) = Len(streams[turn].queue) + Len(tuples)
                  /\ Len(streams'[turn - 1].queue) < Len(streams[turn - 1].queue)
<1> DEFINE from == turn - 1
           taken == [streams EXCEPT ![from] = Dequeued(@)]
<1>1. NumOps \in Nat /\ turn \in 1 .. NumOps - 1 /\ from \in 0 .. NumOps - 1
      /\ turn \in 0 .. NumOps - 1 /\ from # turn
  BY PlanShape DEF TypeOK, Ops
<1>2. StreamsOK(streams) /\ streams \in [0 .. NumOps - 1 -> StreamType] /\ streams[from].queue # <<>>
  BY DEF TypeOK, StreamsOK, InputOf
<1>3. /\ StreamsOK(taken)
      /\ \A j \in 0 .. NumOps - 1 : Held(taken[j]) \subseteq Held(streams[j])
      /\ \A j \in 0 .. NumOps - 1 : j # from => taken[j] = streams[j]
      /\ Len(taken[from].queue) = Len(streams[from].queue) - 1
      /\ Head(streams[from].queue) \in Held(streams[from]) /\ Head(streams[from].queue) \in Messages
  <2>1. taken = [streams EXCEPT ![from] = Dequeued(@)]
    OBVIOUS
  <2> HIDE DEF from, taken
  <2>2. StreamsOK(taken)
    BY ONLY <1>1, <1>2, <2>1, TakingKeepsStreams
  <2>3. \A j \in 0 .. NumOps - 1 : Held(taken[j]) \subseteq Held(streams[j])
    BY ONLY <1>1, <1>2, <2>1, TakingKeepsStreams
  <2>4. \A j \in 0 .. NumOps - 1 : j # from => taken[j] = streams[j]
    BY ONLY <1>1, <1>2, <2>1, TakingKeepsStreams
  <2>5. Len(taken[from].queue) = Len(streams[from].queue) - 1
    <3>1. streams[from] \in StreamType /\ taken[from] = Dequeued(streams[from])
      BY <1>1, <1>2, <2>1
    <3>2. QED
      BY <1>2, <3>1, DequeuedStream
  <2>6. Head(streams[from].queue) \in Held(streams[from])
    BY ONLY <1>1, <1>2, <2>1, TakingKeepsStreams
  <2>7. Head(streams[from].queue) \in Messages
    BY ONLY <1>1, <1>2, <2>1, TakingKeepsStreams
  <2>8. QED
    BY <2>2, <2>3, <2>4, <2>5, <2>6, <2>7
<1> DEFINE put == [taken EXCEPT ![turn] = Enqueued(@, tuples)]
<1>4. streams' = put
  <2>1. streams' = [streams EXCEPT ![from] = Dequeued(@), ![turn] = Enqueued(@, tuples)]
    BY DEF Output
  <2> HIDE DEF from
  <2>2. QED
    BY <1>1, <1>2, <2>1
<1> HIDE DEF taken
<1>5. /\ StreamsOK(streams')
      /\ \A j \in 0 .. NumOps - 1 : j # turn => streams'[j] = taken[j]
      /\ Held(streams'[turn]) \subseteq Held(taken[turn]) \cup RangeOf(tuples)
      /\ Len(streams'[turn].queue) = Len(taken[turn].queue) + Len(tuples)
  <2>1. /\ StreamsOK(put)
        /\ \A j \in 0 .. NumOps - 1 : j # turn => put[j] = taken[j]
        /\ Held(put[turn]) \subseteq Held(taken[turn]) \cup RangeOf(tuples)
        /\ Len(put[turn].queue) = Len(taken[turn].queue) + Len(tuples)
    BY <1>1, <1>3, PuttingKeepsStreams
  <2> HIDE DEF put
  <2>2. QED
    BY <1>4, <2>1
<1>6. StreamsOK(streams)'
  BY <1>5, PlanStays DEF StreamsOK
<1>7. Len(streams[from].queue) \in Nat
  BY <1>1, <1>2 DEF StreamType
<1>8. \A j \in 0 .. NumOps - 1 : Len(streams[j].queue) \in Nat
  BY <1>2 DEF StreamType
<1>9. HeadTuple = Head(streams[from].queue)
  BY DEF HeadTuple, InputOf
<1> HIDE DEF from
<1>10. Len(streams'[from].queue) < Len(streams[from].queue)
  BY <1>1, <1>3, <1>5, <1>7
<1>11. ASSUME NEW j \in 0 .. NumOps - 1, j # turn
       PROVE  /\ Held(streams'[j]) \subseteq Held(streams[j])
              /\ Len(streams'[j].queue) <= Len(streams[j].queue)
  <2>1. streams'[j] = taken[j]
    BY <1>5, <1>11
  <2>2. Held(streams'[j]) \subseteq Held(streams[j])
    BY <1>3, <2>1
  <2>3. CASE j = from
    <3>1. Len(streams'[from].queue) < Len(streams[from].queue)
      BY <1>10
    <3>2. Len(streams'[from].queue) = Len(streams[from].queue) - 1
      BY <1>1, <1>3, <1>5
    <3>3. QED
      BY <1>7, <2>2, <2>3, <3>2
  <2>4. CASE j # from
    <3>1. streams'[j] = streams[j]
      BY <1>3, <2>1, <2>4
    <3>2. QED
      BY <1>8, <2>2, <3>1
  <2>5. QED
    BY <2>3, <2>4
<1>12. QED
  BY <1>1, <1>3, <1>5, <1>6, <1>9, <1>10, <1>11 DEF from

(* The mean takes a tuple.                                                 *)
LEMMA TakeEffect ==
    ASSUME TypeOK, turn = NumOps, InputOf(turn) # <<>>,
           NEW rest, rest = [streams EXCEPT ![NumOps - 1] = Dequeued(@)]
    PROVE  /\ StreamsOK(rest)
           /\ HeadTuple \in Held(streams[NumOps - 1]) /\ HeadTuple \in Messages
           /\ \A j \in 0 .. NumOps - 1 :
                  /\ Held(rest[j]) \subseteq Held(streams[j])
                  /\ j # NumOps - 1 => rest[j] = streams[j]
           /\ Len(rest[NumOps - 1].queue) < Len(streams[NumOps - 1].queue)
           /\ \A j \in 0 .. NumOps - 1 :
                   Len(rest[j].queue) \in Nat /\ Len(streams[j].queue) \in Nat
<1> DEFINE last == NumOps - 1
           without == [streams EXCEPT ![last] = Dequeued(@)]
<1>1. NumOps \in Nat /\ last \in 0 .. NumOps - 1 /\ rest = without
  BY PlanShape DEF TypeOK
<1>2. /\ StreamsOK(streams) /\ streams \in [0 .. NumOps - 1 -> StreamType]
      /\ InputOf(turn) = streams[last].queue /\ streams[last].queue # <<>>
  BY DEF TypeOK, StreamsOK, InputOf
<1> HIDE DEF last
<1>3. /\ StreamsOK(without)
      /\ \A j \in 0 .. NumOps - 1 : Held(without[j]) \subseteq Held(streams[j])
      /\ \A j \in 0 .. NumOps - 1 : j # last => without[j] = streams[j]
      /\ Len(without[last].queue) = Len(streams[last].queue) - 1
      /\ Head(streams[last].queue) \in Held(streams[last])
      /\ Head(streams[last].queue) \in Messages
  <2>1. last \in 0 .. NumOps - 1 /\ StreamsOK(streams) /\ streams[last].queue # <<>>
    BY <1>1, <1>2
  <2>3. without = [streams EXCEPT ![last] = Dequeued(@)]
    OBVIOUS
  <2> HIDE DEF without
  <2>4. StreamsOK(without)
    BY ONLY <2>1, <2>3, TakingKeepsStreams
  <2>5. \A j \in 0 .. NumOps - 1 : Held(without[j]) \subseteq Held(streams[j])
    BY ONLY <2>1, <2>3, TakingKeepsStreams
  <2>6.      \A j \in 0 .. NumOps - 1 : j # last => without[j] = streams[j]
    BY ONLY <2>1, <2>3, TakingKeepsStreams
  <2>7. Len(without[last].queue) = Len(streams[last].queue) - 1
    BY ONLY <2>1, <2>3, TakingKeepsStreams
  <2>8. Head(streams[last].queue) \in Held(streams[last])
      /\ Head(streams[last].queue) \in Messages
    BY ONLY <2>1, <2>3, TakingKeepsStreams
  <2>9. QED
    BY <2>4, <2>5, <2>6, <2>7, <2>8
<1> HIDE DEF without
<1>4. \A j \in 0 .. NumOps - 1 : Len(streams[j].queue) \in Nat /\ Len(without[j].queue) \in Nat
  <2>1. \A j \in 0 .. NumOps - 1 : streams[j] \in StreamType /\ without[j] \in StreamType
    BY <1>2, <1>3 DEF StreamsOK
  <2>2. \A s \in StreamType : Len(s.queue) \in Nat
    BY DEF StreamType
  <2>3. QED
    BY <2>1, <2>2
<1>5. HeadTuple = Head(streams[last].queue)
  BY <1>2 DEF HeadTuple
<1>6. Len(without[last].queue) < Len(streams[last].queue)
  <2>1. Len(streams[last].queue) \in Nat
    BY <1>1, <1>4
  <2>2. QED
    BY <1>3, <2>1
<1>7. /\ StreamsOK(rest)
      /\ HeadTuple \in Held(streams[last]) /\ HeadTuple \in Messages
      /\ \A j \in 0 .. NumOps - 1 : Held(rest[j]) \subseteq Held(streams[j])
      /\ \A j \in 0 .. NumOps - 1 : j # last => rest[j] = streams[j]
      /\ Len(rest[last].queue) < Len(streams[last].queue)
      /\ \A j \in 0 .. NumOps - 1 :
             Len(rest[j].queue) \in Nat /\ Len(streams[j].queue) \in Nat
  BY <1>1, <1>3, <1>4, <1>5, <1>6
<1>8. QED
  BY ONLY <1>7 DEF last
-----------------------------------------------------------------------------
(* The invariant holds at the start, and every step keeps it *)

LEMMA InitInv == Init => IInv
<1> SUFFICES ASSUME Init PROVE IInv
  OBVIOUS
<1> USE DEF Init
<1>1. conf \in Configurations
  OBVIOUS
<1>2. /\ NumOps \in Nat /\ NumOps >= 3 /\ IsWindow(conf.win)
      /\ \A i \in Combines : RelationOf(i) \in Relations
      /\ RedoStream \in 0 .. NumOps - 1
  BY <1>1, PlanShape, LeafIsFirst DEF IsWindow, RedoStream
<1>3. /\ StreamsOK(streams)
      /\ \A j \in 0 .. NumOps - 1 : Held(streams[j]) = {} /\ Len(streams[j].queue) = 0
  <2>1. <<>> \in Seq(Messages) /\ RangeOf(<<>>) = {} /\ Len(<<>>) = 0
    BY DEF RangeOf
  <2>2. ASSUME NEW b \in BOOLEAN
        PROVE  /\ NewStream(b) \in StreamType /\ NewStream(b).backed = b
               /\ NewStream(b).backup = <<>> /\ NewStream(b).queue = <<>>
    BY <2>1 DEF NewStream, StreamType
  <2>3. \A j \in 0 .. NumOps - 1 : streams[j] = NewStream(j = RedoStream)
    OBVIOUS
  <2>4. streams \in [0 .. NumOps - 1 -> StreamType]
    BY <2>2
  <2>5. \A j \in 0 .. NumOps - 1 : /\ streams[j].backed = (j = RedoStream)
                                  /\ streams[j].backup = <<>> /\ streams[j].queue = <<>>
    BY <2>2, <2>3
  <2>6. QED
    BY <2>1, <2>4, <2>5 DEF StreamsOK, Held
<1>4. SynopsisOK(conf.win, synopsis) /\ synopsis.newcomers = <<>> /\ synopsis.filled = FALSE
  BY <1>2, NewSynopsisOK DEF Syn!NewSynopsis
<1>5. RelationsOK
  <2>1. Rel!NewRelation \in RelationType /\ MutexOK(Rel!NewRelation)
    BY ConstantsAssumption DEF Rel!NewRelation, RelationType, MutexOK, Versions
  <2>2. relation \in [Relations -> RelationType] /\ \A r \in Relations : MutexOK(relation[r])
    BY <2>1
  <2>3. QED
    BY <2>2 DEF RelationsOK, MutexOK
<1>6. TypeOK
  <2>1. 0 \in Versions /\ 0 \in 0 .. NumTuples + 1 /\ 1 \in Ops
    BY <1>2, ConstantsAssumption DEF Versions, Ops
  <2>2. results \in Seq([1 .. conf.win.width -> Tuples] \cup {EndOfStream})
    OBVIOUS
  <2>3. QED
    BY <1>1, <1>3, <1>4, <1>5, <2>1, <2>2 DEF TypeOK
<1>7. StreamsRead
  BY <1>3 DEF StreamsRead
<1>8. NewcomersRead /\ SlotsRead /\ NothingBegun
  BY <1>4 DEF NewcomersRead, SlotsRead, NothingBegun, RangeOf
<1>9. LocksKept
  BY DEF LocksKept
<1>10. AloneInv
  <2>1. \A j \in 1 .. NumOps - 1 : Len(streams[j].queue) = 0
    <3>1. \A j \in 1 .. NumOps - 1 : j \in 0 .. NumOps - 1
      BY <1>2
    <3>2. QED
      BY <1>3, <3>1
  <2>2. calls = 0 /\ \A j \in 1 .. NumOps - 1 :
            Len(streams[j].queue) <= IF turn = j + 1 THEN 1 ELSE 0
    BY <2>1
  <2>3. QED
    BY <2>2 DEF AloneInv
<1>11. WindowsReadOneVersion
  BY DEF WindowsReadOneVersion
<1>12. QED
  BY <1>6, <1>7, <1>8, <1>9, <1>10, <1>11 DEF IInv

LEMMA FindNothingKeeps ==
    ASSUME IInv, FindNothing PROVE IInv'
<1> USE DEF FindNothing
<1>1. conf' = conf /\ UnchangedTransaction /\ UNCHANGED synopsis /\ NextCall /\ TypeOK
  BY DEF IInv
<1>2. /\ NewcomersRead' /\ SlotsRead' /\ LocksKept' /\ NothingBegun'
      /\ SynopsisOK(conf.win, synopsis)' /\ RelationsOK'
      /\ first_time' \in [Combines' -> BOOLEAN] /\ snapshot' \in [Combines' -> Versions]
      /\ committed' \in BOOLEAN /\ commit_count' \in Nat
      /\ \A t, j : Good(t, j) => Good(t, j)'
  BY <1>1, RestStays
<1>3. StreamsOK(streams)'
  BY <1>1, PlanStays DEF TypeOK, StreamsOK
<1>4. WindowsReadOneVersion' /\ results' \in Seq([1 .. conf'.win.width -> Tuples] \cup {EndOfStream})
  BY <1>1, ResultsStay DEF IInv
<1>5. turn' \in Ops' /\ calls' \in Nat
  BY <1>1, TurnGoesOn
<1>6. TypeOK'
  BY <1>1, <1>2, <1>3, <1>4, <1>5 DEF TypeOK
<1>7. StreamsRead'
  BY <1>1, <1>2, StreamsReadStep DEF IInv
<1>8. AloneInv'
  <2>1. NumOps \in Nat /\ turn \in 1 .. NumOps
    BY <1>1, PlanShape DEF TypeOK, Ops
  <2>2. turn \in 2 .. NumOps => Len(streams'[turn - 1].queue) = 0
    BY DEF InputOf
  <2>3. \A j \in 1 .. NumOps - 1 : Len(streams[j].queue) \in Nat
    <3>1. \A j \in 1 .. NumOps - 1 : streams[j] \in StreamType
      BY <1>1, <2>1 DEF TypeOK, StreamsOK
    <3>2. QED
      BY <3>1 DEF StreamType
  <2>4. \A j \in 1 .. NumOps - 1 :
            \/ Len(streams'[j].queue) = 0
            \/ j # turn - 1 /\ Len(streams'[j].queue) <= Len(streams[j].queue)
    BY <2>1, <2>2, <2>3
  <2>5. QED
    BY <1>1, <1>3, <2>4, AloneStep DEF IInv
<1>9. QED
  BY <1>2, <1>4, <1>6, <1>7, <1>8 DEF IInv

(* A call of an operator before the mean that leaves the relations alone   *)
LEMMA OutputKeeps ==
    ASSUME IInv, conf' = conf, UnchangedTransaction, UNCHANGED <<synopsis, sent, results>>,
           NextCall, turn # NumOps, InputOf(turn) # <<>>,
           NEW tuples \in Seq(Messages), Output(tuples),
           OneAtATime => Len(tuples) <= 1,
           \A t \in RangeOf(tuples) : t = EndOfStream \/ Good(t, turn)
    PROVE  IInv'
<1>1. TypeOK /\ StreamsRead /\ AloneInv
  BY DEF IInv
<1>2. /\ NewcomersRead' /\ SlotsRead' /\ LocksKept' /\ NothingBegun'
      /\ SynopsisOK(conf.win, synopsis)' /\ RelationsOK'
      /\ first_time' \in [Combines' -> BOOLEAN] /\ snapshot' \in [Combines' -> Versions]
      /\ committed' \in BOOLEAN /\ commit_count' \in Nat
      /\ \A t, j : Good(t, j) => Good(t, j)'
  BY RestStays
<1>3. /\ StreamsOK(streams)'
      /\ turn \in 0 .. NumOps - 1
      /\ \A j \in 0 .. NumOps - 1 :
             /\ j # turn => /\ Held(streams'[j]) \subseteq Held(streams[j])
                            /\ Len(streams'[j].queue) <= Len(streams[j].queue)
             /\ Held(streams'[turn]) \subseteq Held(streams[turn]) \cup RangeOf(tuples)
             /\ Len(streams'[turn].queue) = Len(streams[turn].queue) + Len(tuples)
             /\ Len(streams'[turn - 1].queue) < Len(streams[turn - 1].queue)
  BY <1>1, OutputEffect
<1>4. WindowsReadOneVersion' /\ results' \in Seq([1 .. conf'.win.width -> Tuples] \cup {EndOfStream})
  BY <1>1, ResultsStay DEF IInv
<1>5. turn' \in Ops' /\ calls' \in Nat
  BY <1>1, TurnGoesOn
<1>6. TypeOK'
  BY <1>1, <1>2, <1>3, <1>4, <1>5 DEF TypeOK
<1>7. StreamsRead'
  <2>1. ASSUME NEW j \in 0 .. NumOps - 1, NEW t \in Held(streams'[j])
        PROVE  t \in Held(streams[j]) \/ t = EndOfStream \/ Good(t, j)'
    BY <1>2, <1>3, <2>1
  <2>2. QED
    BY <1>1, <1>2, <2>1, StreamsReadStep
<1>8. AloneInv'
  <2>1. CASE OneAtATime
    <3>1. NumOps \in Nat /\ turn \in 1 .. NumOps
      BY <1>1, PlanShape DEF TypeOK, Ops
    <3>2. \A j \in 0 .. NumOps - 1 : Len(streams[j].queue) \in Nat
      <4>1. \A j \in 0 .. NumOps - 1 : streams[j] \in StreamType
        BY <1>1, <3>1 DEF TypeOK, StreamsOK
      <4>2. QED
        BY <4>1 DEF StreamType
    <3>3. Len(streams'[turn].queue) <= Len(streams[turn].queue) + 1
      <4>1. Len(tuples) \in Nat /\ Len(tuples) <= 1 /\ Len(streams[turn].queue) \in Nat
        BY <1>3, <2>1, <3>2
      <4>2. Len(streams'[turn].queue) = Len(streams[turn].queue) + Len(tuples)
        BY <1>3
      <4> DEFINE n == Len(streams[turn].queue)
                 m == Len(tuples)
      <4> HIDE DEF n, m
      <4>3. QED
        BY <4>1, <4>2 DEF n, m
    <3>4. \A j \in 1 .. NumOps - 1 :
              \/ Len(streams'[j].queue) = 0
              \/ j = turn /\ Len(streams'[j].queue) <= Len(streams[j].queue) + 1
              \/ j # turn - 1 /\ Len(streams'[j].queue) <= Len(streams[j].queue)
              \/ Len(streams'[j].queue) < Len(streams[j].queue)
      <4>1. \A j \in 1 .. NumOps - 1 : j \in 0 .. NumOps - 1
        BY <3>1
      <4>2. \A j \in 1 .. NumOps - 1 : j # turn => Len(streams'[j].queue) <= Len(streams[j].queue)
        BY <1>3, <4>1
      <4>3. Len(streams'[turn - 1].queue) < Len(streams[turn - 1].queue)
        BY <1>3
      <4>4. QED
        BY <3>3, <4>2, <4>3
    <3>5. QED
      BY <1>1, <1>3, <3>4, AloneStep
  <2>2. CASE ~OneAtATime
    BY <2>2, PlanStays DEF AloneInv
  <2>3. QED
    BY <2>1, <2>2
<1>9. QED
  BY <1>2, <1>4, <1>6, <1>7, <1>8 DEF IInv

(* The mean takes a tuple, and the relations and the transaction's start   *)
(* are left alone.                                                         *)
LEMMA MeanTakes ==
    ASSUME IInv, conf' = conf, turn = NumOps, InputOf(turn) # <<>>, NextCall,
           StreamsOK(streams)',
           \A j \in 0 .. NumOps - 1 :
               /\ Held(streams'[j]) \subseteq Held(streams[j])
               /\ j # NumOps - 1 => Len(streams'[j].queue) <= Len(streams[j].queue),
           Len(streams'[NumOps - 1].queue) < Len(streams[NumOps - 1].queue),
           \A t, j : Good(t, j) => Good(t, j)'
    PROVE  StreamsRead' /\ AloneInv' /\ turn' \in Ops' /\ calls' \in Nat
<1>1. TypeOK /\ StreamsRead /\ AloneInv
  BY DEF IInv
<1>2. turn' \in Ops' /\ calls' \in Nat
  BY <1>1, TurnGoesOn
<1>3. NumOps \in Nat /\ NumOps >= 3
  BY <1>1, PlanShape DEF TypeOK
<1>4. StreamsRead'
  BY <1>1, StreamsReadStep
<1>5. \A j \in 1 .. NumOps - 1 :
          \/ j # turn - 1 /\ Len(streams'[j].queue) <= Len(streams[j].queue)
          \/ Len(streams'[j].queue) < Len(streams[j].queue)
  BY <1>3
<1>6. AloneInv'
  BY <1>1, <1>5, AloneStep
<1>7. QED
  BY <1>2, <1>4, <1>6

LEMMA PassEndOfStreamKeeps ==
    ASSUME IInv, PassEndOfStream PROVE IInv'
<1>1. /\ conf' = conf /\ UnchangedTransaction /\ UNCHANGED <<synopsis, sent>> /\ NextCall
      /\ TypeOK /\ InputOf(turn) # <<>>
  BY DEF IInv, PassEndOfStream
<1>2. CASE turn # NumOps
  <2>1. Output(<<EndOfStream>>) /\ UNCHANGED results
    BY <1>2 DEF PassEndOfStream
  <2>2. /\ <<EndOfStream>> \in Seq(Messages) /\ Len(<<EndOfStream>>) = 1
        /\ RangeOf(<<EndOfStream>>) = {EndOfStream}
    BY DEF Messages, RangeOf
  <2> DEFINE tuples == <<EndOfStream>>
  <2>3. /\ tuples \in Seq(Messages) /\ Len(tuples) <= 1 /\ Output(tuples)
        /\ \A t \in RangeOf(tuples) : t = EndOfStream
    BY <2>1, <2>2
  <2> HIDE DEF tuples
  <2>4. QED
    BY <1>1, <1>2, <2>1, <2>3, OutputKeeps
<1>3. CASE turn = NumOps
  <2>1. TakeTuple /\ results' = Append(results, EndOfStream)
    BY <1>3 DEF PassEndOfStream
  <2>2. /\ NewcomersRead' /\ SlotsRead' /\ LocksKept' /\ NothingBegun'
        /\ SynopsisOK(conf.win, synopsis)' /\ RelationsOK'
        /\ first_time' \in [Combines' -> BOOLEAN] /\ snapshot' \in [Combines' -> Versions]
        /\ committed' \in BOOLEAN /\ commit_count' \in Nat
        /\ \A t, j : Good(t, j) => Good(t, j)'
    BY <1>1, RestStays
  <2>3. WindowsReadOneVersion' /\ results' \in Seq([1 .. conf'.win.width -> Tuples] \cup {EndOfStream})
    BY <1>1, <2>1, ResultsStay DEF IInv
  <2>4. streams' = [streams EXCEPT ![NumOps - 1] = Dequeued(@)]
    BY <2>1 DEF TakeTuple
  <2>5. /\ StreamsOK(streams')
        /\ \A j \in 0 .. NumOps - 1 :
              /\ Held(streams'[j]) \subseteq Held(streams[j])
              /\ j # NumOps - 1 => streams'[j] = streams[j]
        /\ Len(streams'[NumOps - 1].queue) < Len(streams[NumOps - 1].queue)
        /\ \A j \in 0 .. NumOps - 1 : Len(streams'[j].queue) \in Nat /\ Len(streams[j].queue) \in Nat
    BY <1>1, <1>3, <2>4, TakeEffect
  <2>6. StreamsOK(streams)'
    BY <1>1, <2>5, PlanStays DEF StreamsOK
  <2>7. \A j \in 0 .. NumOps - 1 : j # NumOps - 1 => Len(streams'[j].queue) <= Len(streams[j].queue)
    BY <2>5
  <2>8. StreamsRead' /\ AloneInv' /\ turn' \in Ops' /\ calls' \in Nat
    BY <1>1, <1>3, <2>2, <2>5, <2>6, <2>7, MeanTakes
  <2>9. TypeOK'
    BY <1>1, <2>2, <2>3, <2>6, <2>8 DEF TypeOK
  <2>10. QED
    BY <2>2, <2>3, <2>8, <2>9 DEF IInv
<1>4. QED
  BY <1>2, <1>3

(* A tuple passes an operator that is no combine.                          *)
LEMMA GoodPassed ==
    ASSUME conf \in Configurations, NEW j \in 1 .. NumOps, j \notin Combines,
           NEW tuple, Good(tuple, j - 1), NEW passed, passed.reads = tuple.reads,
           passed.tag = tuple.tag \/ Kind(j) = "project"
    PROVE  Good(passed, j)
<1>1. /\ NumOps \in Nat /\ Combines \subseteq Nat /\ RedoLeaf \in Nat /\ RedoLeaf \in Combines
      /\ RedoLeaf <= NumOps
  BY PlanShape, LeafIsFirst DEF Combines, Ops
<1>2. \A i \in Combines : i <= j <=> i <= j - 1
  BY <1>1
<1>3. {k \in Combines : k <= j} = {k \in Combines : k <= j - 1}
  BY <1>2
<1>4. PessimisticTuple(tuple, j - 1) => PessimisticTuple(passed, j)
  BY <1>2, <1>3 DEF PessimisticTuple
<1>5. j < RedoLeaf <=> j - 1 < RedoLeaf
  BY <1>1
<1>6. ASSUME OptimisticCase, j >= RedoLeaf PROVE passed.tag = tuple.tag
  BY <1>1, <1>6 DEF OptimisticCase, TagsReachMean, RedoOps
<1>7. ASSUME OptimisticCase, OptimisticTuple(tuple, j - 1) PROVE OptimisticTuple(passed, j)
  <2>1. CASE j < RedoLeaf
    BY <1>5, <1>7, <2>1 DEF OptimisticTuple
  <2>2. CASE ~(j < RedoLeaf)
    <3>1. passed.tag = tuple.tag
      BY <1>1, <1>6, <1>7, <2>2
    <3>2. QED
      BY <1>5, <1>7, <2>2, <3>1 DEF OptimisticTuple
  <2>3. QED
    BY <2>1, <2>2
<1>8. QED
  BY <1>4, <1>7 DEF Good

LEMMA ProcessSimpleKeeps ==
    ASSUME IInv, ProcessSimple PROVE IInv'
<1>1. /\ conf' = conf /\ UnchangedTransaction /\ UNCHANGED <<synopsis, sent, results>> /\ NextCall
      /\ TypeOK /\ InputOf(turn) # <<>> /\ HeadTuple # EndOfStream
      /\ Kind(turn) \in {"adapter", "select", "project"}
      /\ Output(Transformed(turn, HeadTuple))
  BY DEF IInv, ProcessSimple, HasData
<1>2. /\ NumOps \in Nat /\ turn \in 1 .. NumOps /\ turn # NumOps /\ turn \notin Combines
      /\ conf \in Configurations
  BY <1>1, PlanShape DEF TypeOK, Ops, Combines
<1> DEFINE head == HeadTuple
           tuples == Transformed(turn, head)
           anew == [head EXCEPT !.tag = NoTag]
<1>3. head \in Held(streams[turn - 1]) /\ head \in Tuples
  <2>1. /\ turn - 1 \in 0 .. NumOps - 1 /\ StreamsOK(streams)
        /\ streams[turn - 1].queue # <<>>
    BY <1>1, <1>2 DEF TypeOK, InputOf
  <2>2. streams[turn - 1] \in StreamType
    BY <2>1 DEF StreamsOK
  <2>3. head \in Held(streams[turn - 1]) /\ head \in Messages
    BY <2>1, <2>2, DequeuedStream DEF HeadTuple, InputOf
  <2>4. QED
    BY <1>1, <2>3 DEF Messages
<1>4. Good(head, turn - 1)
  <2>1. turn - 1 \in 0 .. NumOps - 1
    BY <1>2
  <2>2. QED
    BY <1>1, <1>3, <2>1 DEF IInv, StreamsRead
<1> HIDE DEF head
<1>5. anew \in Tuples /\ anew.reads = head.reads
  BY <1>3 DEF Tuples
<1>6. tuples \in {<<>>, <<head>>} \/ (tuples = <<anew>> /\ Kind(turn) = "project")
  BY <1>1 DEF Transformed, head
<1> HIDE DEF anew
<1>7. tuples \in Seq(Messages) /\ Len(tuples) <= 1 /\ \A t \in RangeOf(tuples) : Good(t, turn)
  <2>1. CASE tuples = <<>>
    <3>1. RangeOf(<<>>) = {} /\ Len(<<>>) = 0 /\ <<>> \in Seq(Messages)
      BY DEF RangeOf
    <3>2. QED
      BY <2>1, <3>1
  <2>2. ASSUME NEW t \in Tuples, t.reads = head.reads, t.tag = head.tag \/ Kind(turn) = "project",
               tuples = <<t>>
        PROVE  tuples \in Seq(Messages) /\ Len(tuples) <= 1 /\ \A u \in RangeOf(tuples) : Good(u, turn)
    <3>1. Good(t, turn)
      BY <1>2, <1>4, <2>2, GoodPassed
    <3>2. <<t>> \in Seq(Messages) /\ Len(<<t>>) = 1 /\ RangeOf(<<t>>) = {t}
      BY <2>2 DEF Messages, RangeOf
    <3>3. QED
      BY <2>2, <3>1, <3>2
  <2>3. CASE tuples = <<head>>
    BY <1>3, <2>2, <2>3
  <2>4. CASE tuples = <<anew>> /\ Kind(turn) = "project"
    BY <1>5, <2>2, <2>4
  <2>5. QED
    BY <1>6, <2>1, <2>3, <2>4
<1>8. Output(tuples)
  BY <1>1 DEF head
<1> HIDE DEF tuples
<1>9. QED
  BY <1>1, <1>2, <1>7, <1>8, OutputKeeps

-----------------------------------------------------------------------------
(* A combine's call *)

LEMMA HeadGood ==
    ASSUME IInv, HasData
    PROVE  HeadTuple \in Tuples /\ Good(HeadTuple, turn - 1)
<1>1. /\ turn - 1 \in 0 .. NumOps - 1 /\ StreamsOK(streams)
      /\ streams[turn - 1].queue # <<>> /\ HeadTuple # EndOfStream
  BY PlanShape DEF IInv, TypeOK, Ops, HasData, InputOf
<1>2. streams[turn - 1] \in StreamType
  BY <1>1 DEF StreamsOK
<1>3. HeadTuple \in Held(streams[turn - 1]) /\ HeadTuple \in Messages
  BY <1>1, <1>2, DequeuedStream DEF HeadTuple, InputOf
<1>4. QED
  BY <1>1, <1>3 DEF IInv, StreamsRead, Messages

(* The version that a combine's call reads *)
VersionRead(i) ==
    IF conf.mode = "PESSIMISTIC_SNAPSHOT" /\ ~Refreshes(i)
    THEN snapshot[i] ELSE relation[RelationOf(i)].version

(* The lock and the snapshot are those that the rest of the transaction    *)
(* reads by, and what has been read before agrees with them.               *)
LEMMA CombineLocks ==
    ASSUME IInv, ProcessCombine, NEW i, i = turn
    PROVE  /\ i \in Combines /\ RelationOf(i) \in Relations
           /\ VersionRead(i) \in Versions
           /\ conf.mode \in PessimisticModes => VersionRead(i) = Current(i)'
           /\ first_time' = [first_time EXCEPT ![i] = FALSE]
           /\ first_time' \in [Combines' -> BOOLEAN] /\ snapshot' \in [Combines' -> Versions]
           /\ RelationsOK' /\ LocksKept'
           /\ \A k \in Combines : \/ Current(k)' = Current(k)
                                  \/ k = i /\ first_time[k]
<1> DEFINE r == RelationOf(i)
           version == VersionRead(i)
           locks == conf.mode = "PESSIMISTIC_2PL" => first_time[i]
           locked == Rel!Locked(relation[r], Query)
<1>1. /\ conf \in Configurations /\ conf' = conf /\ i \in Ops /\ Kind(i) = "combine"
      /\ relation' = IF locks /\ KeepsLock(i) THEN [relation EXCEPT ![r] = Rel!Locked(@, Query)]
                     ELSE relation
      /\ snapshot' = IF Refreshes(i) THEN [snapshot EXCEPT ![i] = version] ELSE snapshot
      /\ first_time' = [first_time EXCEPT ![i] = FALSE]
      /\ first_time \in [Combines -> BOOLEAN] /\ snapshot \in [Combines -> Versions]
      /\ RelationsOK /\ LocksKept /\ relation \in [Relations -> RelationType]
  BY DEF IInv, TypeOK, RelationsOK, ProcessCombine, VersionRead
<1>2. i \in Combines /\ r \in Relations /\ \A k \in Combines : RelationOf(k) \in Relations
  BY <1>1, PlanShape DEF Combines
<1>3. relation[r] \in RelationType /\ relation[r].version \in Versions
  BY <1>1, <1>2 DEF RelationType
<1>4. /\ locked \in RelationType /\ MutexOK(locked) /\ locked.version = relation[r].version
      /\ locked.owner = Query
  BY <1>3, LockedRelation
<1> HIDE DEF locked
<1>5. relation' = IF locks /\ KeepsLock(i) THEN [relation EXCEPT ![r] = locked] ELSE relation
  BY <1>1 DEF locked
<1>6. version \in Versions
  BY <1>1, <1>2, <1>3 DEF VersionRead
<1> HIDE DEF version
<1>7. /\ relation' \in [Relations -> RelationType] /\ \A q \in Relations : MutexOK(relation'[q])
      /\ \A q \in Relations : relation'[q].version = relation[q].version
      /\ \A q \in Relations : relation[q].owner = Query => relation'[q].owner = Query
  <2>1. \A q \in Relations : MutexOK(relation[q])
    BY <1>1 DEF RelationsOK, MutexOK
  <2>2. CASE locks /\ KeepsLock(i)
    <3>1. relation' = [relation EXCEPT ![r] = locked]
      BY <1>5, <2>2
    <3>2. QED
      BY <1>1, <1>2, <1>4, <2>1, <3>1
  <2>3. CASE ~(locks /\ KeepsLock(i))
    <3>1. relation' = relation
      BY <1>5, <2>3
    <3>2. QED
      BY <1>1, <2>1, <3>1
  <2>4. QED
    BY <2>2, <2>3
<1>8. RelationsOK'
  BY <1>7 DEF RelationsOK, MutexOK
<1>9. first_time' \in [Combines' -> BOOLEAN] /\ snapshot' \in [Combines' -> Versions]
  <2>1. first_time' \in [Combines -> BOOLEAN]
    BY <1>1
  <2>2. snapshot' \in [Combines -> Versions]
    BY <1>1, <1>6
  <2>3. QED
    BY <1>1, <2>1, <2>2, PlanStays
<1>10. ASSUME NEW k \in Combines, k # i \/ ~first_time[k] PROVE Current(k)' = Current(k)
  <2>1. snapshot'[k] = snapshot[k]
    BY <1>1, <1>10 DEF Refreshes
  <2>2. relation'[RelationOf(k)].version = relation[RelationOf(k)].version
    BY <1>2, <1>7
  <2>3. QED
    BY <1>1, <2>1, <2>2, PlanStays DEF Current
<1>11. conf.mode \in PessimisticModes => version = Current(i)'
  <2>1. relation'[r].version = relation[r].version
    BY <1>2, <1>7
  <2>2. CASE conf.mode = "PESSIMISTIC_SNAPSHOT"
    <3>1. snapshot'[i] = version
      BY <1>1, <1>2, <2>2 DEF version, VersionRead
    <3>2. QED
      BY <1>1, <2>2, <3>1, PlanStays DEF Current
  <2>3. CASE conf.mode # "PESSIMISTIC_SNAPSHOT"
    BY <1>1, <2>1, <2>3, PlanStays DEF Current, version, VersionRead
  <2>4. QED
    BY <2>2, <2>3
<1>12. LocksKept'
  <2>1. SUFFICES ASSUME conf.mode = "PESSIMISTIC_2PL", NEW k \in Combines, ~first_time'[k]
                 PROVE  relation'[RelationOf(k)].owner = Query
    BY <1>1, PlanStays DEF LocksKept
  <2>2. CASE ~first_time[k]
    BY <1>1, <1>2, <1>7, <2>1, <2>2 DEF LocksKept
  <2>3. CASE first_time[k]
    <3>1. k = i
      BY <1>1, <2>1, <2>3
    <3>2. relation' = [relation EXCEPT ![r] = locked]
      BY <1>5, <2>1, <2>3, <3>1 DEF KeepsLock
    <3>3. QED
      BY <1>1, <1>2, <1>4, <3>1, <3>2
  <2>4. QED
    BY <2>2, <2>3
<1>13. QED
  BY <1>1, <1>2, <1>6, <1>8, <1>9, <1>10, <1>11, <1>12 DEF version

LEMMA CombineKeepsGood ==
    ASSUME IInv, ProcessCombine
    PROVE  \A t, j : Good(t, j) => Good(t, j)'
<1>1. PICK i : i = turn
  OBVIOUS
<1>2. /\ conf' = conf /\ first_time' = [first_time EXCEPT ![i] = FALSE]
      /\ first_time \in [Combines -> BOOLEAN]
      /\ \A k \in Combines : Current(k)' = Current(k) \/ (k = i /\ first_time[k])
  BY <1>1, CombineLocks DEF IInv, TypeOK, ProcessCombine
<1>3. ASSUME NEW t, NEW j, PessimisticTuple(t, j) PROVE PessimisticTuple(t, j)'
  <2>1. \A k \in Combines : k <= j => ~first_time[k] /\ Current(k)' = Current(k)
    BY <1>2, <1>3 DEF PessimisticTuple
  <2>2. \A k \in Combines : k <= j => ~first_time'[k]
    BY <1>2, <2>1
  <2>3. {<<k, Current(k)>> : k \in {m \in Combines : m <= j}}' =
        {<<k, Current(k)>> : k \in {m \in Combines : m <= j}}
    <3> DEFINE K == {m \in Combines : m <= j}
    <3>1. K' = K
      BY <1>2, PlanStays
    <3>2. \A k \in K : Current(k)' = Current(k)
      BY <2>1
    <3> HIDE DEF K
    <3>3. {<<k, Current(k)'>> : k \in K} = {<<k, Current(k)>> : k \in K}
      BY <3>2
    <3>4. QED
      BY <3>1, <3>3 DEF K
  <2>4. QED
    BY <1>2, <1>3, <2>2, <2>3, PlanStays DEF PessimisticTuple
<1>4. ASSUME NEW t, NEW j, OptimisticTuple(t, j) PROVE OptimisticTuple(t, j)'
  BY <1>2, <1>4, PlanStays DEF OptimisticTuple
<1>5. QED
  BY <1>2, <1>3, <1>4, PlanStays DEF Good

(* A new tuple has read what its transaction reads, and tells by its tag.  *)
LEMMA CombinedGood ==
    ASSUME IInv, ProcessCombine, NEW i, i = turn, NEW head, head = HeadTuple, NEW t,
           t.reads = head.reads \cup {<<i, VersionRead(i)>>},
           t.tag = [relation |-> RelationOf(i), version |-> VersionRead(i)]
    PROVE  Good(t, i)'
<1>1. /\ Good(head, i - 1) /\ Good(head, i - 1)'
  BY HeadGood, CombineKeepsGood DEF ProcessCombine
<1>2. /\ i \in Combines /\ RelationOf(i) \in Relations /\ VersionRead(i) \in Versions
      /\ conf.mode \in PessimisticModes => VersionRead(i) = Current(i)'
      /\ conf' = conf /\ ~first_time'[i]
  BY CombineLocks DEF ProcessCombine, IInv, TypeOK
<1>3. Combines \subseteq Nat /\ i \in Nat
  BY <1>2 DEF Combines, Ops
<1>4. ASSUME PessimisticCase PROVE PessimisticTuple(t, i)'
  <2>1. /\ head.reads = {<<k, Current(k)'>> : k \in {m \in Combines : m <= i - 1}}
        /\ \A k \in Combines : k <= i - 1 => ~first_time'[k]
    BY <1>1, <1>2, <1>4, PlanStays DEF Good, PessimisticTuple
  <2>2. \A k \in Combines : k <= i <=> k <= i - 1 \/ k = i
    BY <1>3
  <2>3. {m \in Combines : m <= i} = {m \in Combines : m <= i - 1} \cup {i}
    BY <1>2, <2>2
  <2>4. VersionRead(i) = Current(i)'
    BY <1>2, <1>4 DEF PessimisticCase
  <2>5. t.reads = {<<k, Current(k)'>> : k \in {m \in Combines : m <= i}}
    <3> DEFINE K == {m \in Combines : m <= i - 1}
    <3>1. t.reads = {<<k, Current(k)'>> : k \in K} \cup {<<i, Current(i)'>>}
      BY <2>1, <2>4
    <3> HIDE DEF K
    <3> DEFINE Read(k) == <<k, Current(k)'>>
    <3>2. t.reads = {Read(k) : k \in K} \cup {Read(i)}
      BY <3>1
    <3> HIDE DEF Read
    <3>3. {Read(k) : k \in K} \cup {Read(i)} = {Read(k) : k \in K \cup {i}}
      OBVIOUS
    <3>4. t.reads = {Read(k) : k \in K \cup {i}}
      BY <3>2, <3>3
    <3>5. QED
      BY <2>3, <3>4 DEF K, Read
  <2>6. \A k \in Combines : k <= i => ~first_time'[k]
    BY <1>2, <2>1, <2>2
  <2>7. QED
    BY <1>2, <2>5, <2>6, PlanStays DEF PessimisticTuple
<1>5. ASSUME OptimisticCase PROVE OptimisticTuple(t, i)'
  <2>1. Cardinality(Combines) = 1
    BY <1>5 DEF OptimisticCase, TagsReachMean
  <2>2. \A k \in Combines : k = i
    <3>1. IsFiniteSet(Combines)
      <4>1. Combines \in SUBSET (1 .. NumOps) /\ NumOps \in Nat
        BY PlanShape DEF Combines, Ops, IInv, TypeOK
      <4>2. IsFiniteSet(1 .. NumOps)
        BY <4>1, FS_Interval
      <4>3. QED
        BY <4>1, <4>2, FS_Subset
    <3>2. \E x : Combines = {x}
      BY <2>1, <3>1, FS_Singleton
    <3>3. QED
      BY <1>2, <3>2
  <2>3. RedoLeaf = i
    BY <2>2, LeafIsFirst DEF IInv, TypeOK
  <2>4. i - 1 < RedoLeaf /\ ~(i < RedoLeaf)
    BY <1>3, <2>3
  <2>5. head.reads = {}
    BY <1>1, <1>5, <2>4 DEF Good, OptimisticTuple
  <2>6. t.reads = {<<i, VersionRead(i)>>}
    BY <2>5
  <2>7. t.tag \in Tags /\ t.tag.version = VersionRead(i)
    BY <1>2 DEF Tags
  <2>8. QED
    BY <1>2, <2>3, <2>4, <2>6, <2>7, PlanStays DEF OptimisticTuple
<1>6. QED
  BY <1>2, <1>4, <1>5, PlanStays DEF Good

(* What a combine makes of a tuple *)
LEMMA CombineOutputs ==
    ASSUME IInv, ProcessCombine, NEW i, i = turn
    PROVE  \E tuples \in Seq(Messages) :
               /\ Output(tuples)
               /\ OneAtATime => Len(tuples) <= 1
               /\ \A t \in RangeOf(tuples) : Good(t, i)'
<1>1. PICK head : head = HeadTuple
  OBVIOUS
<1> DEFINE r == RelationOf(i)
           version == VersionRead(i)
           n == Matches[r][head.arrived]
           tag == [relation |-> r, version |-> version]
           reads == head.reads \cup {<<i, version>>}
           Made(m) == [head EXCEPT !.part = Append(@, m), !.tag = tag, !.reads = reads]
           tuples == [m \in 1 .. n |-> Made(m)]
<1>2. /\ head \in Tuples /\ i \in Combines /\ r \in Relations /\ version \in Versions /\ i \in Nat
  <2>1. head \in Tuples
    BY <1>1, HeadGood DEF ProcessCombine
  <2>2. i \in Combines /\ r \in Relations /\ version \in Versions
    BY CombineLocks
  <2>3. QED
    BY <2>1, <2>2 DEF Combines, Ops
<1>3. n \in Nat /\ tag \in Tags /\ (OneAtATime => n <= 1)
  <2>1. head.arrived \in Arrivals
    BY <1>2 DEF Tuples
  <2>2. QED
    BY <1>2, <2>1, ConstantsAssumption DEF Tags, OneAtATime
<1>4. reads \in SUBSET (Nat \X Versions)
  BY <1>2 DEF Tuples
<1>5. Output(tuples)
  BY <1>1 DEF ProcessCombine, VersionRead
<1> HIDE DEF n, tag, reads, version, r
<1>6. ASSUME NEW m \in 1 .. n
      PROVE  Made(m) \in Tuples /\ Made(m).reads = reads /\ Made(m).tag = tag
  <2> DEFINE part == Append(head.part, m)
  <2>1. part \in Seq(Nat)
    BY <1>2, <1>3, <1>6, AppendProperties DEF Tuples
  <2>2. Made(m) = [head EXCEPT !.part = part, !.tag = tag, !.reads = reads]
    OBVIOUS
  <2> HIDE DEF Made, part
  <2>3. QED
    BY <1>2, <1>3, <1>4, <2>1, <2>2 DEF Tuples
<1> HIDE DEF Made
<1>7. tuples \in Seq(Messages) /\ Len(tuples) = n /\ DOMAIN tuples = 1 .. n
  <2>1. \A m \in 1 .. n : Made(m) \in Messages
    BY <1>6 DEF Messages
  <2>2. tuples \in [1 .. n -> Messages] /\ DOMAIN tuples = 1 .. n
    BY <2>1
  <2> HIDE DEF tuples
  <2>3. tuples \in Seq(Messages)
    BY <1>3, <2>2
  <2>4. QED
    BY <1>3, <2>2, <2>3
<1>8. ASSUME NEW t \in RangeOf(tuples) PROVE Good(t, i)'
  <2>1. PICK m \in 1 .. n : t = Made(m)
    BY <1>7 DEF RangeOf
  <2>2. /\ t.reads = head.reads \cup {<<i, VersionRead(i)>>}
        /\ t.tag = [relation |-> RelationOf(i), version |-> VersionRead(i)]
    BY <1>6, <2>1 DEF reads, tag, version, r
  <2>3. QED
    BY <1>1, <2>2, CombinedGood
<1>9. QED
  BY <1>3, <1>5, <1>7, <1>8

LEMMA ProcessCombineKeeps ==
    ASSUME IInv, ProcessCombine PROVE IInv'
<1>1. PICK i : i = turn
  OBVIOUS
<1>2. /\ conf' = conf /\ UNCHANGED <<synopsis, sent, committed, commit_count, results>>
      /\ NextCall /\ TypeOK /\ StreamsRead /\ AloneInv /\ InputOf(turn) # <<>>
      /\ conf \in Configurations
  BY DEF IInv, TypeOK, ProcessCombine, HasData
<1>3. PICK tuples \in Seq(Messages) :
          /\ Output(tuples)
          /\ OneAtATime => Len(tuples) <= 1
          /\ \A t \in RangeOf(tuples) : Good(t, i)'
  BY <1>1, CombineOutputs
<1>4. /\ i \in Combines /\ RelationsOK' /\ LocksKept'
      /\ first_time' \in [Combines' -> BOOLEAN] /\ snapshot' \in [Combines' -> Versions]
  BY <1>1, CombineLocks
<1>5. \A t, j : Good(t, j) => Good(t, j)'
  BY CombineKeepsGood
<1>6. turn # NumOps /\ NumOps \in Nat /\ i \in 1 .. NumOps - 1
  BY <1>1, <1>2, <1>4, PlanShape DEF Combines
<1>7. /\ StreamsOK(streams)'
      /\ \A j \in 0 .. NumOps - 1 :
             /\ j # i => /\ Held(streams'[j]) \subseteq Held(streams[j])
                         /\ Len(streams'[j].queue) <= Len(streams[j].queue)
      /\ Held(streams'[i]) \subseteq Held(streams[i]) \cup RangeOf(tuples)
      /\ Len(streams'[i].queue) = Len(streams[i].queue) + Len(tuples)
      /\ Len(streams'[i - 1].queue) < Len(streams[i - 1].queue)
  <2>1. StreamsOK(streams)'
    BY <1>2, <1>3, <1>6, OutputEffect
  <2>2. i \in 0 .. NumOps - 1
    BY <1>6
  <2>3. \A j \in 0 .. NumOps - 1 :
             /\ j # turn => /\ Held(streams'[j]) \subseteq Held(streams[j])
                            /\ Len(streams'[j].queue) <= Len(streams[j].queue)
             /\ Held(streams'[turn]) \subseteq Held(streams[turn]) \cup RangeOf(tuples)
             /\ Len(streams'[turn].queue) = Len(streams[turn].queue) + Len(tuples)
             /\ Len(streams'[turn - 1].queue) < Len(streams[turn - 1].queue)
    BY <1>2, <1>3, <1>6, OutputEffect
  <2>4. QED
    BY <1>1, <2>1, <2>2, <2>3
<1>8. WindowsReadOneVersion' /\ results' \in Seq([1 .. conf'.win.width -> Tuples] \cup {EndOfStream})
  BY <1>2, ResultsStay DEF IInv
<1>9. turn' \in Ops' /\ calls' \in Nat
  BY <1>2, TurnGoesOn
<1>10. TypeOK'
  BY <1>2, <1>4, <1>7, <1>8, <1>9, PlanStays DEF TypeOK
<1>11. StreamsRead'
  <2>1. ASSUME NEW j \in 0 .. NumOps - 1, NEW t \in Held(streams'[j])
        PROVE  t \in Held(streams[j]) \/ t = EndOfStream \/ Good(t, j)'
    <3>1. CASE j = i
      <4>1. t \in Held(streams[i]) \/ Good(t, i)'
        BY <1>3, <1>7, <2>1, <3>1
      <4>2. QED
        BY <3>1, <4>1
    <3>2. CASE j # i
      BY <1>7, <2>1, <3>2
    <3>3. QED
      BY <3>1, <3>2
  <2>2. QED
    BY <1>2, <1>5, <2>1, StreamsReadStep
<1>12. NewcomersRead' /\ SlotsRead' /\ NothingBegun'
  BY <1>2, <1>5, PlanStays DEF IInv, NewcomersRead, SlotsRead, NothingBegun
<1>13. AloneInv'
  <2>1. CASE OneAtATime
    <3>1. \A j \in 0 .. NumOps - 1 : Len(streams[j].queue) \in Nat
      <4>1. \A j \in 0 .. NumOps - 1 : streams[j] \in StreamType
        BY <1>2 DEF TypeOK, StreamsOK
      <4>2. QED
        BY <4>1 DEF StreamType
    <3>2. Len(streams'[i].queue) <= Len(streams[i].queue) + 1
      <4> DEFINE n == Len(streams[i].queue)
                 m == Len(tuples)
      <4>1. m \in Nat /\ m <= 1 /\ n \in Nat /\ Len(streams'[i].queue) = n + m
        BY <1>3, <1>6, <1>7, <2>1, <3>1
      <4> HIDE DEF n, m
      <4>2. QED
        BY <4>1 DEF n
    <3>3. \A j \in 1 .. NumOps - 1 :
              \/ Len(streams'[j].queue) = 0
              \/ j = turn /\ Len(streams'[j].queue) <= Len(streams[j].queue) + 1
              \/ j # turn - 1 /\ Len(streams'[j].queue) <= Len(streams[j].queue)
              \/ Len(streams'[j].queue) < Len(streams[j].queue)
      <4>1. \A j \in 1 .. NumOps - 1 : j \in 0 .. NumOps - 1
        BY <1>6
      <4>2. \A j \in 1 .. NumOps - 1 : j # i => Len(streams'[j].queue) <= Len(streams[j].queue)
        BY <1>7, <4>1
      <4>3. QED
        BY <1>1, <1>7, <3>2, <4>2
    <3>4. QED
      BY <1>2, <1>7, <3>3, AloneStep
  <2>2. CASE ~OneAtATime
    BY <1>2, <2>2, PlanStays DEF AloneInv
  <2>3. QED
    BY <2>1, <2>2
<1>14. QED
  BY <1>4, <1>8, <1>10, <1>11, <1>12, <1>13 DEF IInv

-----------------------------------------------------------------------------
(* The mean's calls *)

LEMMA TakeTupleKeeps ==
    ASSUME IInv, conf' = conf, turn = NumOps, HasData, NextCall, TakeTuple,
           \A t, j : Good(t, j) => Good(t, j)'
    PROVE  StreamsOK(streams)' /\ StreamsRead' /\ AloneInv' /\ turn' \in Ops' /\ calls' \in Nat
<1>1. TypeOK /\ InputOf(turn) # <<>> /\ streams' = [streams EXCEPT ![NumOps - 1] = Dequeued(@)]
  BY DEF IInv, HasData, TakeTuple
<1>2. /\ StreamsOK(streams')
      /\ \A j \in 0 .. NumOps - 1 :
            /\ Held(streams'[j]) \subseteq Held(streams[j])
            /\ j # NumOps - 1 => streams'[j] = streams[j]
      /\ Len(streams'[NumOps - 1].queue) < Len(streams[NumOps - 1].queue)
      /\ \A j \in 0 .. NumOps - 1 : Len(streams'[j].queue) \in Nat /\ Len(streams[j].queue) \in Nat
  BY <1>1, TakeEffect
<1>3. StreamsOK(streams)'
  BY <1>2, PlanStays DEF StreamsOK
<1>4. \A j \in 0 .. NumOps - 1 : j # NumOps - 1 => Len(streams'[j].queue) <= Len(streams[j].queue)
  BY <1>2
<1>5. QED
  BY <1>1, <1>2, <1>3, <1>4, MeanTakes

LEMMA WindowWaitsKeeps ==
    ASSUME IInv, WindowWaits PROVE IInv'
<1>1. /\ conf' = conf /\ UnchangedTransaction /\ UNCHANGED <<sent, results>> /\ NextCall
      /\ TypeOK /\ HasData /\ turn = NumOps /\ ~committed /\ TakeTuple
      /\ ~Syn!Completes(conf.win, synopsis) /\ synopsis' = NextSynopsis
  BY DEF IInv, WindowWaits
<1>2. \A t, j : Good(t, j) => Good(t, j)'
  BY <1>1, GoodStays DEF UnchangedTransaction
<1>3. StreamsOK(streams)' /\ StreamsRead' /\ AloneInv' /\ turn' \in Ops' /\ calls' \in Nat
  BY <1>1, <1>2, TakeTupleKeeps
<1>4. HeadTuple \in Tuples /\ Good(HeadTuple, NumOps - 1)
  BY <1>1, HeadGood
<1>5. IsWindow(conf.win) /\ SynopsisOK(conf.win, synopsis)
  BY <1>1, PlanShape DEF TypeOK, IsWindow
<1>6. /\ SynopsisOK(conf.win, synopsis')
      /\ synopsis'.filled = synopsis.filled /\ synopsis'.tuples = synopsis.tuples
      /\ RangeOf(synopsis'.newcomers) = RangeOf(synopsis.newcomers) \cup {HeadTuple}
  <2>1. synopsis' = Syn!Enqueued(conf.win, synopsis, HeadTuple)
    BY <1>1 DEF NextSynopsis
  <2>2. QED
    BY <1>1, <1>4, <1>5, <2>1, WaitingSynopsis
<1>7. SynopsisOK(conf.win, synopsis)'
  BY <1>1, <1>6
<1>8. WindowsReadOneVersion' /\ results' \in Seq([1 .. conf'.win.width -> Tuples] \cup {EndOfStream})
  BY <1>1, ResultsStay DEF IInv
<1>9. RelationsOK' /\ LocksKept' /\ NothingBegun'
  BY <1>1, PlanStays DEF IInv, TypeOK, RelationsOK, LocksKept, NothingBegun, UnchangedTransaction
<1>10. TypeOK'
  BY <1>1, <1>3, <1>7, <1>8, <1>9, PlanStays DEF TypeOK, UnchangedTransaction
<1>11. NewcomersRead'
  <2>1. ASSUME NEW t \in RangeOf(synopsis'.newcomers) PROVE Good(t, NumOps - 1)'
    <3>1. Good(t, NumOps - 1)
      BY <1>4, <1>6, <2>1 DEF IInv, NewcomersRead
    <3>2. PICK j : j = NumOps - 1
      OBVIOUS
    <3>3. j = NumOps' - 1
      BY <1>1, <3>2, PlanStays
    <3>4. Good(t, j)'
      BY <1>2, <3>1, <3>2
    <3>5. QED
      BY <3>3, <3>4
  <2>2. QED
    BY <2>1 DEF NewcomersRead
<1>12. SlotsRead'
  BY <1>1, <1>2, <1>6, PlanStays DEF IInv, SlotsRead
<1>13. QED
  BY <1>3, <1>8, <1>9, <1>10, <1>11, <1>12 DEF IInv

LEMMA DropTupleKeeps ==
    ASSUME IInv, DropTuple PROVE IInv'
<1>1. /\ conf' = conf /\ UNCHANGED <<sent, synopsis, commit_count, first_time, snapshot, relation, results>>
      /\ NextCall /\ TypeOK /\ HasData /\ turn = NumOps /\ committed' = FALSE /\ TakeTuple
  BY DEF IInv, DropTuple
<1>2. \A t, j : Good(t, j) => Good(t, j)'
  BY <1>1, GoodStays
<1>3. StreamsOK(streams)' /\ StreamsRead' /\ AloneInv' /\ turn' \in Ops' /\ calls' \in Nat
  BY <1>1, <1>2, TakeTupleKeeps
<1>4. WindowsReadOneVersion' /\ results' \in Seq([1 .. conf'.win.width -> Tuples] \cup {EndOfStream})
  BY <1>1, ResultsStay DEF IInv
<1>5. RelationsOK' /\ LocksKept' /\ NothingBegun' /\ SynopsisOK(conf.win, synopsis)'
  BY <1>1, PlanStays DEF IInv, TypeOK, RelationsOK, LocksKept, NothingBegun
<1>6. TypeOK'
  BY <1>1, <1>3, <1>4, <1>5, PlanStays DEF TypeOK
<1>7. NewcomersRead' /\ SlotsRead'
  BY <1>1, <1>2, PlanStays DEF IInv, NewcomersRead, SlotsRead
<1>8. QED
  BY <1>3, <1>4, <1>5, <1>6, <1>7 DEF IInv

(* The slots after a window has been completed                             *)
LEMMA CompletedGood ==
    ASSUME IInv, HasData, turn = NumOps, Syn!Completes(conf.win, synopsis),
           NEW next, next = NextSynopsis
    PROVE  /\ IsWindow(conf.win) /\ SynopsisOK(conf.win, next) /\ next.filled
           /\ next.newcomers = <<>>
           /\ \A k \in Syn!Slots(conf.win) : Good(next.tuples[k], NumOps - 1)
<1>1. HeadTuple \in Tuples /\ Good(HeadTuple, NumOps - 1)
  BY HeadGood
<1>2. /\ IsWindow(conf.win) /\ SynopsisOK(conf.win, synopsis)
      /\ Overlapping <=> conf.win.width > conf.win.stride
  BY PlanShape DEF IInv, TypeOK, IsWindow, Overlapping
<1>3. next = Syn!Enqueued(conf.win, synopsis, HeadTuple)
  BY DEF NextSynopsis
<1>4. SynopsisOK(conf.win, next) /\ next.filled /\ next.newcomers = <<>>
  BY <1>1, <1>2, <1>3, CompletedSynopsis
<1>5. \A k \in Syn!Slots(conf.win) :
          \/ next.tuples[k] \in RangeOf(synopsis.newcomers) \cup {HeadTuple}
          \/ synopsis.filled /\ conf.win.width > conf.win.stride
                /\ next.tuples[k] = synopsis.tuples[k]
  BY <1>1, <1>2, <1>3, CompletedSynopsis
<1>6. \A k \in Syn!Slots(conf.win) : Good(next.tuples[k], NumOps - 1)
  BY <1>1, <1>2, <1>5 DEF IInv, NewcomersRead, SlotsRead
<1>7. QED
  BY <1>2, <1>4, <1>6

(* What makes the window that is output consistent                         *)
LEMMA OutputIsConsistent ==
    ASSUME IInv, HasData, turn = NumOps, Syn!Completes(conf.win, synopsis),
           NEW next, next = NextSynopsis,
           conf.mode = "OPTIMISTIC" => HasReferenceConsistency(next),
           PessimisticCase \/ OptimisticCase,
           NEW window, window = Syn!WindowOf(conf.win, next)
    PROVE  window \in [1 .. conf.win.width -> Tuples] /\ Consistent(window)
<1>1. /\ IsWindow(conf.win) /\ SynopsisOK(conf.win, next) /\ next.filled
      /\ \A k \in Syn!Slots(conf.win) : Good(next.tuples[k], NumOps - 1)
  BY CompletedGood
<1>2. /\ window \in [1 .. conf.win.width -> Tuples]
      /\ \A j \in 1 .. conf.win.width : \E k \in Syn!Slots(conf.win) : window[j] = next.tuples[k]
  BY <1>1, WindowTuples
<1>3. \A k, m \in Syn!Slots(conf.win) : next.tuples[k].reads = next.tuples[m].reads
  <2>1. CASE PessimisticCase
    BY <1>1, <2>1 DEF Good, PessimisticTuple
  <2>2. CASE OptimisticCase
    <3>1. ~(NumOps - 1 < RedoLeaf)
      BY LeafIsFirst, PlanShape DEF IInv, TypeOK
    <3>2. \A k \in Syn!Slots(conf.win) :
              /\ next.tuples[k].tag \in Tags
              /\ next.tuples[k].reads = {<<RedoLeaf, next.tuples[k].tag.version>>}
      BY <1>1, <2>2, <3>1 DEF Good, OptimisticTuple
    <3>3. 0 \in Syn!Slots(conf.win)
      BY <1>1 DEF IsWindow, Syn!Slots
    <3>4. next.tuples[0].tag # NoTag
      <4>1. next.tuples[0].tag \in [relation : Relations, version : Nat]
        BY <3>2, <3>3, ConstantsAssumption DEF Tags, Versions
      <4>2. QED
        BY <4>1, ConstantsAssumption
    <3>5. \A k \in Syn!Slots(conf.win) : next.tuples[k].tag = next.tuples[0].tag
      BY <2>2, <3>4 DEF OptimisticCase, HasReferenceConsistency
    <3>6. QED
      BY <3>2, <3>5
  <2>3. QED
    BY <2>1, <2>2
<1>4. \A j, k \in DOMAIN window : window[j].reads = window[k].reads
  <2>1. DOMAIN window = 1 .. conf.win.width
    BY <1>2
  <2>2. ASSUME NEW j \in DOMAIN window, NEW k \in DOMAIN window
        PROVE  window[j].reads = window[k].reads
    <3>1. PICK m \in Syn!Slots(conf.win) : window[j] = next.tuples[m]
      BY <1>2, <2>1, <2>2
    <3>2. PICK n \in Syn!Slots(conf.win) : window[k] = next.tuples[n]
      BY <1>2, <2>1, <2>2
    <3>3. QED
      BY <1>3, <3>1, <3>2
  <2>3. QED
    BY <2>2
<1>5. QED
  BY <1>2, <1>4 DEF Consistent

(* A window joins the results.                                             *)
LEMMA ResultsGrow ==
    ASSUME TypeOK, WindowsReadOneVersion, conf' = conf,
           NEW window \in [1 .. conf.win.width -> Tuples],
           PessimisticCase \/ OptimisticCase => Consistent(window),
           results' = Append(results, window)
    PROVE  WindowsReadOneVersion' /\ results' \in Seq([1 .. conf'.win.width -> Tuples] \cup {EndOfStream})
<1> DEFINE S == [1 .. conf.win.width -> Tuples] \cup {EndOfStream}
           n == Len(results)
           a == Append(results, window)
<1>1. results \in Seq(S) /\ window \in S
  BY DEF TypeOK
<1> HIDE DEF S
<1>2. /\ a \in Seq(S) /\ n \in Nat /\ DOMAIN results = 1 .. n /\ DOMAIN a = 1 .. n + 1
      /\ \A k \in 1 .. n : a[k] = results[k]
      /\ a[n + 1] = window /\ results' = a
  BY <1>1, AppendProperties, LenProperties
<1> HIDE DEF n, a
<1>3. \A k \in 1 .. n + 1 : k \in 1 .. n \/ k = n + 1
  BY <1>2
<1>4. (PessimisticCase \/ OptimisticCase) =>
          \A k \in DOMAIN results : results[k] # EndOfStream => Consistent(results[k])
  BY DEF WindowsReadOneVersion, PessimisticCase, OptimisticCase
<1>5. (PessimisticCase' \/ OptimisticCase') =>
          \A k \in DOMAIN results' : results'[k] # EndOfStream => Consistent(results'[k])
  BY <1>2, <1>3, <1>4, PlanStays
<1>6. WindowsReadOneVersion'
  BY <1>5 DEF WindowsReadOneVersion, PessimisticCase, OptimisticCase
<1>7. QED
  BY <1>2, <1>6 DEF S

LEMMA WindowOutputKeeps ==
    ASSUME IInv, WindowOutput PROVE IInv'
<1>1. /\ conf' = conf /\ UNCHANGED <<sent, first_time, snapshot, relation>> /\ NextCall
      /\ TypeOK /\ HasData /\ InputOf(turn) # <<>> /\ turn = NumOps
      /\ Syn!Completes(conf.win, synopsis) /\ synopsis' = NextSynopsis
      /\ conf \in Configurations /\ commit_count \in Nat
  BY DEF IInv, TypeOK, WindowOutput, HasData
<1>2. PICK next : next = NextSynopsis
  OBVIOUS
<1>3. \A t, j : Good(t, j) => Good(t, j)'
  BY <1>1, GoodStays
<1>4. /\ IsWindow(conf.win) /\ SynopsisOK(conf.win, next) /\ next.filled
      /\ next.newcomers = <<>> /\ synopsis' = next
      /\ \A k \in Syn!Slots(conf.win) : Good(next.tuples[k], NumOps - 1)
  BY <1>1, <1>2, CompletedGood
<1> DEFINE taken == [streams EXCEPT ![NumOps - 1] = Dequeued(@)]
<1>5. /\ StreamsOK(taken)
      /\ \A j \in 0 .. NumOps - 1 :
            /\ Held(taken[j]) \subseteq Held(streams[j])
            /\ j # NumOps - 1 => taken[j] = streams[j]
      /\ Len(taken[NumOps - 1].queue) < Len(streams[NumOps - 1].queue)
      /\ \A j \in 0 .. NumOps - 1 : Len(taken[j].queue) \in Nat /\ Len(streams[j].queue) \in Nat
  BY <1>1, TakeEffect
<1>6. streams' = EvictedByCommit(next, taken)
  BY <1>2 DEF WindowOutput
<1> HIDE DEF taken
<1>7. /\ StreamsOK(streams')
      /\ \A j \in 0 .. NumOps - 1 : /\ Held(streams'[j]) \subseteq Held(taken[j])
                                    /\ streams'[j].queue = taken[j].queue
  <2>1. CASE streams' = taken
    BY <1>5, <2>1
  <2>2. CASE streams' = [taken EXCEPT ![RedoStream] = Evicted(@, Syn!BeginningTuple(next).arrived)]
    <3>1. PICK lwm : lwm = Syn!BeginningTuple(next).arrived
      OBVIOUS
    <3>2. PICK strms : strms = taken
      OBVIOUS
    <3>3. /\ StreamsOK(strms) /\ conf \in Configurations
          /\ streams' = [strms EXCEPT ![RedoStream] = Evicted(@, lwm)]
      BY <1>1, <1>5, <2>2, <3>1, <3>2
    <3>4. StreamsOK(streams')
      BY ONLY <3>3, EvictingKeepsStreams
    <3>5. \A j \in 0 .. NumOps - 1 : /\ Held(streams'[j]) \subseteq Held(strms[j])
                                      /\ streams'[j].queue = strms[j].queue
      BY ONLY <3>3, EvictingKeepsStreams
    <3>6. QED
      BY <3>2, <3>4, <3>5
  <2>3. QED
    BY <1>6, <2>1, <2>2 DEF EvictedByCommit
<1>8. StreamsOK(streams)'
  BY <1>1, <1>7, PlanStays DEF StreamsOK
<1>9. StreamsRead' /\ AloneInv' /\ turn' \in Ops' /\ calls' \in Nat
  <2>1. \A j \in 0 .. NumOps - 1 :
            /\ Held(streams'[j]) \subseteq Held(streams[j])
            /\ j # NumOps - 1 => Len(streams'[j].queue) <= Len(streams[j].queue)
    <3>1. \A j \in 0 .. NumOps - 1 : Held(streams'[j]) \subseteq Held(streams[j])
      BY <1>5, <1>7
    <3>2. \A j \in 0 .. NumOps - 1 : j # NumOps - 1 => streams'[j].queue = streams[j].queue
      BY <1>5, <1>7
    <3>3. \A j \in 0 .. NumOps - 1 : Len(streams[j].queue) \in Nat
      BY <1>5
    <3>4. QED
      BY <3>1, <3>2, <3>3
  <2>2. Len(streams'[NumOps - 1].queue) < Len(streams[NumOps - 1].queue)
    <3>1. NumOps - 1 \in 0 .. NumOps - 1
      BY <1>1, PlanShape
    <3>2. QED
      BY <1>5, <1>7, <3>1
  <2>3. QED
    BY <1>1, <1>3, <1>8, <2>1, <2>2, MeanTakes
<1>10. WindowsReadOneVersion' /\ results' \in Seq([1 .. conf'.win.width -> Tuples] \cup {EndOfStream})
  <2>1. PICK window : window = Syn!WindowOf(conf.win, next)
    OBVIOUS
  <2>2. results' = Append(results, window)
    BY <1>2, <2>1 DEF WindowOutput
  <2>3. window \in [1 .. conf.win.width -> Tuples]
    BY <1>4, <2>1, WindowTuples
  <2>4. PessimisticCase \/ OptimisticCase => Consistent(window)
    <3>1. conf.mode = "OPTIMISTIC" => HasReferenceConsistency(next)
      BY <1>2 DEF WindowOutput
    <3>2. QED
      BY <1>1, <1>2, <2>1, <3>1, OutputIsConsistent
  <2>5. QED
    BY <1>1, <2>2, <2>3, <2>4, ResultsGrow DEF IInv
<1>11. /\ RelationsOK' /\ LocksKept' /\ SynopsisOK(conf.win, synopsis)'
       /\ NothingBegun' /\ NewcomersRead'
  <2>1. RangeOf(<<>>) = {}
    BY DEF RangeOf
  <2>2. QED
    BY <1>1, <1>4, <2>1, PlanStays DEF IInv, TypeOK, RelationsOK, LocksKept, NothingBegun, NewcomersRead
<1>12. committed' \in BOOLEAN /\ commit_count' \in Nat
  <2>1. /\ committed' = (conf.mode \in PessimisticModes)
        /\ commit_count' = IF conf.mode \in PessimisticModes THEN commit_count + 1 ELSE commit_count
    BY DEF WindowOutput
  <2>2. QED
    BY <1>1, <2>1
<1>13. TypeOK'
  BY <1>1, <1>8, <1>9, <1>10, <1>11, <1>12, PlanStays DEF TypeOK
<1>14. SlotsRead'
  <2>1. ASSUME NEW k \in Syn!Slots(conf.win) PROVE Good(synopsis.tuples[k], NumOps - 1)'
    <3>1. PICK t, j : t = next.tuples[k] /\ j = NumOps - 1
      OBVIOUS
    <3>2. Good(t, j)'
      BY <1>3, <1>4, <3>1
    <3>3. t = synopsis'.tuples[k] /\ j = NumOps' - 1
      BY <1>1, <1>4, <3>1, PlanStays
    <3>4. QED
      BY <3>2, <3>3
  <2>2. QED
    BY <1>1, <2>1 DEF SlotsRead
<1>15. QED
  BY <1>9, <1>10, <1>11, <1>13, <1>14 DEF IInv

LEMMA LostConsistencyKeeps ==
    ASSUME IInv, LostConsistency PROVE IInv'
<1>1. /\ conf' = conf /\ UNCHANGED <<sent, commit_count, first_time, snapshot, relation, results>>
      /\ TypeOK /\ HasData /\ turn = NumOps /\ conf.mode = "OPTIMISTIC"
      /\ Syn!Completes(conf.win, synopsis) /\ synopsis' = Syn!Reset(NextSynopsis)
      /\ streams' = Restarted(streams) /\ committed' = FALSE /\ turn' = 1 /\ calls' = 0
      /\ conf \in Configurations /\ StreamsOK(streams)
  BY DEF IInv, TypeOK, LostConsistency
<1>2. \A t, j : Good(t, j) => Good(t, j)'
  BY <1>1, GoodStays
<1>3. /\ SynopsisOK(conf.win, synopsis') /\ synopsis'.filled = FALSE
      /\ synopsis'.newcomers = <<>>
  <2>1. PICK next : next = NextSynopsis
    OBVIOUS
  <2>2. IsWindow(conf.win) /\ next \in SynopsisType(conf.win)
    BY <1>1, <2>1, CompletedGood DEF SynopsisOK
  <2>3. QED
    BY <1>1, <2>1, <2>2, ResetSynopsisOK
<1>4. /\ StreamsOK(streams')
      /\ \A j \in 0 .. NumOps - 1 : Held(streams'[j]) \subseteq Held(streams[j])
  BY <1>1, RestartingKeepsStreams
<1>5. StreamsOK(streams)' /\ SynopsisOK(conf.win, synopsis)'
  BY <1>1, <1>3, <1>4, PlanStays DEF StreamsOK
<1>6. StreamsRead'
  BY <1>1, <1>2, <1>4, StreamsReadStep DEF IInv
<1>7. WindowsReadOneVersion' /\ results' \in Seq([1 .. conf'.win.width -> Tuples] \cup {EndOfStream})
  BY <1>1, ResultsStay DEF IInv
<1>8. RelationsOK' /\ LocksKept' /\ NothingBegun'
  BY <1>1, PlanStays DEF IInv, TypeOK, RelationsOK, LocksKept, NothingBegun
<1>9. turn' \in Ops' /\ calls' \in Nat
  BY <1>1, PlanShape, PlanStays DEF Ops
<1>10. TypeOK'
  BY <1>1, <1>5, <1>7, <1>8, <1>9, PlanStays DEF TypeOK
<1>11. NewcomersRead' /\ SlotsRead'
  BY <1>3 DEF NewcomersRead, SlotsRead, RangeOf
<1>12. AloneInv'
  BY <1>1 DEF AloneInv, PessimisticModes
<1>13. QED
  BY <1>6, <1>7, <1>8, <1>10, <1>11, <1>12 DEF IInv

(* The end of a transaction takes back what is behind a combine, or finds  *)
(* nothing there.                                                          *)
LEMMA NothingBehind ==
    ASSUME IInv, AfterCommit
    PROVE  /\ StreamsOK(streams')
           /\ \A j \in 0 .. NumOps - 1 : Held(streams'[j]) \subseteq Held(streams[j])
           /\ PessimisticCase =>
                  \A j \in 0 .. NumOps - 1 : j >= RedoLeaf => Held(streams'[j]) = {}
           /\ AloneInv'
<1> DEFINE taken == [streams EXCEPT ![NumOps - 1] = Dequeued(@)]
           evicted == [taken EXCEPT ![RedoStream] = Evicted(@, HeadTuple.arrived)]
<1>1. /\ conf' = conf /\ TypeOK /\ HasData /\ InputOf(turn) # <<>> /\ turn = NumOps /\ NextCall
      /\ conf \in Configurations /\ AloneInv
      /\ streams' = IF ~Overlapping THEN taken ELSE Restarted(evicted)
  BY DEF IInv, TypeOK, AfterCommit, HasData
<1>2. /\ StreamsOK(taken)
      /\ \A j \in 0 .. NumOps - 1 :
            /\ Held(taken[j]) \subseteq Held(streams[j])
            /\ j # NumOps - 1 => taken[j] = streams[j]
      /\ Len(taken[NumOps - 1].queue) < Len(streams[NumOps - 1].queue)
      /\ \A j \in 0 .. NumOps - 1 : Len(taken[j].queue) \in Nat /\ Len(streams[j].queue) \in Nat
  BY <1>1, TakeEffect
<1>3. /\ NumOps \in Nat /\ NumOps >= 3 /\ RedoLeaf \in 2 .. NumOps - 1
      /\ RedoStream = RedoLeaf - 1
  BY <1>1, PlanShape, LeafIsFirst DEF RedoStream
<1>4. CASE Overlapping
  <2>1. PICK strms, lwm : strms = taken /\ lwm = HeadTuple.arrived
    OBVIOUS
  <2>2. PICK after : after = evicted
    OBVIOUS
  <2>3. /\ StreamsOK(strms) /\ conf \in Configurations
        /\ after = [strms EXCEPT ![RedoStream] = Evicted(@, lwm)]
        /\ streams' = Restarted(after)
    BY <1>1, <1>2, <1>4, <2>1, <2>2
  <2>4. StreamsOK(after)
    BY ONLY <2>3, EvictingKeepsStreams
  <2>5. \A j \in 0 .. NumOps - 1 : Held(after[j]) \subseteq Held(strms[j])
    BY ONLY <2>3, EvictingKeepsStreams
  <2>6. /\ StreamsOK(streams')
        /\ \A j \in 0 .. NumOps - 1 : Held(streams'[j]) \subseteq Held(after[j])
        /\ \A j \in 0 .. NumOps - 1 : j >= RedoLeaf => Held(streams'[j]) = {}
    BY <2>3, <2>4, RestartingKeepsStreams
  <2>7. \A j \in 0 .. NumOps - 1 : Held(strms[j]) \subseteq Held(streams[j])
    BY <1>2, <2>1
  <2>8. AloneInv'
    BY <1>1, <1>4, PlanStays DEF AloneInv
  <2>9. QED
    BY <2>5, <2>6, <2>7, <2>8
<1>5. CASE ~Overlapping
  <2> HIDE DEF taken
  <2>1. streams' = taken
    BY <1>1, <1>5
  <2>2. ASSUME PessimisticCase, NEW j \in 0 .. NumOps - 1, j >= RedoLeaf
        PROVE  Held(taken[j]) = {}
    <3>1. /\ j \in 1 .. NumOps - 1 /\ j # RedoStream
      BY <1>3, <2>2
    <3>2. taken[j] \in StreamType /\ taken[j].backup = <<>>
      BY <1>2, <3>1 DEF StreamsOK
    <3>3. Len(streams[j].queue) <= IF turn = j + 1 THEN 1 ELSE 0
      BY <1>1, <1>5, <2>2, <3>1 DEF AloneInv, PessimisticCase
    <3>4. Len(taken[j].queue) = 0
      <4>1. CASE j = NumOps - 1
        <5>1. Len(streams[j].queue) <= 1
          BY <1>1, <1>3, <3>3, <4>1
        <5>2. Len(taken[j].queue) < Len(streams[j].queue) /\ Len(taken[j].queue) \in Nat
              /\ Len(streams[j].queue) \in Nat
          BY <1>2, <4>1, <2>2
        <5>3. QED
          BY <5>1, <5>2
      <4>2. CASE j # NumOps - 1
        <5>1. Len(streams[j].queue) <= 0 /\ Len(streams[j].queue) \in Nat
          BY <1>1, <1>2, <1>3, <3>1, <3>3, <4>2
        <5>2. taken[j] = streams[j]
          BY <1>2, <2>2, <4>2
        <5>3. QED
          BY <5>1, <5>2
      <4>3. QED
        BY <4>1, <4>2
    <3>5. taken[j].queue = <<>>
      BY <3>2, <3>4, EmptySeq DEF StreamType
    <3>6. RangeOf(<<>>) = {}
      BY DEF RangeOf
    <3>7. QED
      BY <3>2, <3>5, <3>6 DEF Held
  <2>3. AloneInv'
    <3>1. StreamsOK(streams)'
      BY <1>1, <1>2, <2>1, PlanStays DEF StreamsOK
    <3>2. \A j \in 1 .. NumOps - 1 : j \in 0 .. NumOps - 1
      BY <1>3
    <3>3. \A j \in 1 .. NumOps - 1 :
              \/ j # turn - 1 /\ Len(streams'[j].queue) <= Len(streams[j].queue)
              \/ Len(streams'[j].queue) < Len(streams[j].queue)
      BY <1>1, <1>2, <2>1, <3>2
    <3>4. QED
      BY <1>1, <3>1, <3>3, AloneStep
  <2>4. QED
    BY <1>2, <2>1, <2>2, <2>3
<1>6. QED
  BY <1>4, <1>5

LEMMA AllReleasedOK ==
    ASSUME TypeOK
    PROVE  /\ AllReleased \in [Relations -> RelationType]
           /\ \A r \in Relations : MutexOK(AllReleased[r])
<1>1. RelationsOK /\ NumOps \in Nat
  BY PlanShape DEF TypeOK
<1>2. ASSUME NEW r \in Relations
      PROVE  Cardinality({i \in Combines : RelationOf(i) = r}) \in Nat
  <2>1. {i \in Combines : RelationOf(i) = r} \in SUBSET (1 .. NumOps)
    BY DEF Combines, Ops
  <2>2. IsFiniteSet(1 .. NumOps)
    BY <1>1, FS_Interval
  <2>3. IsFiniteSet({i \in Combines : RelationOf(i) = r})
    BY <2>1, <2>2, FS_Subset
  <2>4. QED
    BY <2>3, FS_CardinalityType
<1>3. ASSUME NEW r \in Relations
      PROVE  AllReleased[r] \in RelationType /\ MutexOK(AllReleased[r])
  <2>1. PICK times \in Nat : times = Cardinality({i \in Combines : RelationOf(i) = r})
    BY <1>2, <1>3
  <2>2. relation[r] \in RelationType /\ MutexOK(relation[r])
    BY <1>1, <1>3 DEF RelationsOK, MutexOK
  <2>3. AllReleased[r] = Rel!UnlockedTimes(relation[r], Query, times)
    BY <1>3, <2>1 DEF AllReleased
  <2>4. QED
    BY <2>2, <2>3, UnlockedRelation
<1>4. DOMAIN AllReleased = Relations /\ AllReleased = [r \in Relations |-> AllReleased[r]]
  BY DEF AllReleased
<1>5. QED
  BY <1>3, <1>4

LEMMA AfterCommitKeeps ==
    ASSUME IInv, AfterCommit PROVE IInv'
<1>1. /\ conf' = conf /\ TypeOK /\ NextCall /\ conf \in Configurations /\ committed
      /\ UNCHANGED <<sent, snapshot, results>>
      /\ commit_count' = 0 /\ committed' = FALSE
      /\ first_time' = [i \in Combines |-> TRUE]
      /\ relation' = IF conf.mode = "PESSIMISTIC_2PL" THEN AllReleased ELSE relation
      /\ synopsis' = IF Overlapping THEN Syn!Reset(synopsis) ELSE synopsis
      /\ SynopsisOK(conf.win, synopsis)
  BY DEF IInv, TypeOK, AfterCommit
<1>2. /\ StreamsOK(streams')
      /\ \A j \in 0 .. NumOps - 1 : Held(streams'[j]) \subseteq Held(streams[j])
      /\ PessimisticCase => \A j \in 0 .. NumOps - 1 : j >= RedoLeaf => Held(streams'[j]) = {}
      /\ AloneInv'
  BY NothingBehind
<1>3. StreamsOK(streams)'
  BY <1>1, <1>2, PlanStays DEF StreamsOK
<1>4. RelationsOK'
  <2>1. relation' \in [Relations -> RelationType] /\ \A r \in Relations : MutexOK(relation'[r])
    BY <1>1, AllReleasedOK DEF TypeOK, RelationsOK, MutexOK
  <2>2. QED
    BY <2>1 DEF RelationsOK, MutexOK
<1>5. ASSUME OptimisticCase, NEW t, NEW j, Good(t, j) PROVE Good(t, j)'
  <2>1. ~PessimisticCase
    BY <1>5 DEF OptimisticCase, PessimisticCase, PessimisticModes
  <2>2. OptimisticTuple(t, j)'
    BY <1>1, <1>5, PlanStays DEF Good, OptimisticTuple
  <2>3. QED
    BY <1>1, <2>1, <2>2, PlanStays DEF Good
<1>6. ASSUME PessimisticCase, NEW t, NEW j \in Nat, j < RedoLeaf, Good(t, j) PROVE Good(t, j)'
  <2>1. \A i \in Combines : ~(i <= j)
    BY <1>1, <1>6, LeafIsFirst, PlanShape
  <2>2. t.reads = {}
    BY <1>6, <2>1 DEF Good, PessimisticTuple
  <2>3. PessimisticTuple(t, j)'
    BY <1>1, <2>1, <2>2, PlanStays DEF PessimisticTuple
  <2>4. ~OptimisticCase
    BY <1>6 DEF OptimisticCase, PessimisticCase, PessimisticModes
  <2>5. QED
    BY <1>1, <2>3, <2>4, PlanStays DEF Good
<1>7. ASSUME ~PessimisticCase, ~OptimisticCase, NEW t, NEW j PROVE Good(t, j)'
  BY <1>1, <1>7, PlanStays DEF Good
<1>8. StreamsRead'
  <2>1. ASSUME NEW j \in 0 .. NumOps - 1, NEW t \in Held(streams'[j]), t # EndOfStream
        PROVE  Good(t, j)'
    <3>1. Good(t, j) /\ j \in Nat
      BY <1>2, <2>1 DEF IInv, StreamsRead
    <3>2. RedoLeaf \in Nat
      BY <1>1, LeafIsFirst
    <3>3. CASE PessimisticCase
      <4>1. j < RedoLeaf
        BY <1>2, <2>1, <3>1, <3>2, <3>3
      <4>2. QED
        BY <1>6, <3>1, <3>3, <4>1
    <3>4. CASE OptimisticCase
      BY <1>5, <3>1, <3>4
    <3>5. QED
      BY <1>7, <3>3, <3>4
  <2>2. NumOps' = NumOps
    BY <1>1, PlanStays
  <2>3. QED
    BY <2>1, <2>2 DEF StreamsRead
<1>9. /\ SynopsisOK(conf.win, synopsis') /\ synopsis'.newcomers = <<>>
      /\ Overlapping => synopsis'.filled = FALSE
      /\ ~Overlapping => synopsis' = synopsis
  <2>1. IsWindow(conf.win) /\ synopsis \in SynopsisType(conf.win)
    BY <1>1, PlanShape DEF IsWindow, SynopsisOK
  <2>2. /\ SynopsisOK(conf.win, Syn!Reset(synopsis)) /\ Syn!Reset(synopsis).filled = FALSE
        /\ Syn!Reset(synopsis).newcomers = <<>>
    BY <2>1, ResetSynopsisOK
  <2>3. synopsis.newcomers = <<>>
    BY <1>1 DEF IInv, NothingBegun
  <2>4. QED
    BY <1>1, <2>2, <2>3
<1>10. SynopsisOK(conf.win, synopsis)'
  BY <1>1, <1>9
<1>11. NewcomersRead' /\ NothingBegun'
  BY <1>1, <1>9 DEF NewcomersRead, NothingBegun, RangeOf
<1>12. SlotsRead'
  <2>1. CASE Overlapping
    BY <1>9, <2>1 DEF SlotsRead
  <2>2. CASE ~Overlapping /\ conf.mode = "OPTIMISTIC"
    <3>1. ASSUME synopsis.filled, NEW k \in Syn!Slots(conf.win)
          PROVE  Good(synopsis.tuples[k], NumOps - 1)'
      <4>1. PICK t, j : t = synopsis.tuples[k] /\ j = NumOps - 1
        OBVIOUS
      <4>2. Good(t, j)
        BY <2>2, <3>1, <4>1 DEF IInv, SlotsRead
      <4>3. ~PessimisticCase
        BY <2>2 DEF PessimisticCase, PessimisticModes
      <4>4. Good(t, j)'
        BY <1>5, <1>7, <4>2, <4>3
      <4>5. t = synopsis'.tuples[k] /\ j = NumOps' - 1
        BY <1>1, <1>9, <2>2, <4>1, PlanStays
      <4>6. QED
        BY <4>4, <4>5
    <3>2. synopsis' = synopsis
      BY <1>9, <2>2
    <3>3. QED
      BY <1>1, <3>1, <3>2 DEF SlotsRead
  <2>3. CASE ~Overlapping /\ conf.mode # "OPTIMISTIC"
    BY <1>1, <2>3, PlanStays DEF SlotsRead
  <2>4. QED
    BY <2>1, <2>2, <2>3
<1>13. LocksKept'
  BY <1>1, PlanStays DEF LocksKept
<1>14. WindowsReadOneVersion' /\ results' \in Seq([1 .. conf'.win.width -> Tuples] \cup {EndOfStream})
  BY <1>1, ResultsStay DEF IInv
<1>15. turn' \in Ops' /\ calls' \in Nat
  BY <1>1, TurnGoesOn
<1>16. TypeOK'
  <2>1. first_time' \in [Combines' -> BOOLEAN] /\ snapshot' \in [Combines' -> Versions]
    BY <1>1, PlanStays DEF TypeOK
  <2>2. sent' \in 0 .. NumTuples + 1 /\ conf' \in Configurations /\ committed' \in BOOLEAN
        /\ commit_count' \in Nat
    BY <1>1 DEF TypeOK
  <2>3. QED
    BY <1>3, <1>4, <1>10, <1>14, <1>15, <2>1, <2>2 DEF TypeOK
<1>17. QED
  BY <1>2, <1>8, <1>11, <1>12, <1>13, <1>14, <1>16 DEF IInv
-----------------------------------------------------------------------------
(* The other threads *)

LEMMA SendKeeps ==
    ASSUME IInv, Send PROVE IInv'
<1>1. /\ conf' = conf /\ UNCHANGED <<relation, turn, calls, synopsis, committed, commit_count,
                                     first_time, snapshot, results>>
      /\ TypeOK /\ sent' = sent + 1 /\ sent <= NumTuples /\ StreamsOK(streams)
      /\ conf \in Configurations /\ sent \in 0 .. NumTuples + 1
  BY DEF IInv, TypeOK, Send, UnchangedQuery
<1>2. /\ NumOps \in Nat /\ NumOps >= 3 /\ 0 \in 0 .. NumOps - 1 /\ NumTuples \in Nat
      /\ RedoLeaf \in 2 .. NumOps - 1
      /\ \A i \in Combines : i \in 2 .. NumOps - 1
  BY <1>1, PlanShape, LeafIsFirst, ConstantsAssumption
<1> DEFINE tuples == IF sent < NumTuples THEN <<InputTuple(sent + 1)>> ELSE <<EndOfStream>>
<1>3. \A t, j : Good(t, j) => Good(t, j)'
  BY <1>1, GoodStays
<1>4. /\ tuples \in Seq(Messages)
      /\ \A t \in RangeOf(tuples) : t = EndOfStream \/ Good(t, 0)
  <2>1. CASE sent < NumTuples
    <3> DEFINE t == InputTuple(sent + 1)
    <3>1. sent + 1 \in Arrivals
      BY <1>1, <1>2, <2>1 DEF Arrivals
    <3>2. t \in Tuples /\ t.reads = {}
      <4>1. <<>> \in Seq(Nat) /\ {} \in SUBSET (Nat \X Versions)
        OBVIOUS
      <4>2. QED
        BY <3>1, <4>1 DEF InputTuple, Tuples
    <3> HIDE DEF t
    <3>3. Good(t, 0)
      <4>1. \A i \in Combines : ~(i <= 0)
        BY <1>2
      <4>2. PessimisticTuple(t, 0)
        BY <3>2, <4>1 DEF PessimisticTuple
      <4>3. OptimisticTuple(t, 0)
        BY <1>2, <3>2 DEF OptimisticTuple
      <4>4. QED
        BY <4>2, <4>3 DEF Good
    <3>4. <<t>> \in Seq(Messages) /\ RangeOf(<<t>>) = {t} /\ tuples = <<t>>
      BY <2>1, <3>2 DEF Messages, RangeOf, t
    <3> HIDE DEF tuples
    <3>5. QED
      BY <3>3, <3>4
  <2>2. CASE ~(sent < NumTuples)
    <3>1. /\ <<EndOfStream>> \in Seq(Messages) /\ tuples = <<EndOfStream>>
          /\ RangeOf(<<EndOfStream>>) = {EndOfStream}
      BY <2>2 DEF Messages, RangeOf
    <3> HIDE DEF tuples
    <3>2. QED
      BY <3>1
  <2>3. QED
    BY <2>1, <2>2
<1>5. streams' = [streams EXCEPT ![0] = Enqueued(@, tuples)]
  BY DEF Send
<1> HIDE DEF tuples
<1>6. /\ StreamsOK(streams')
      /\ \A j \in 0 .. NumOps - 1 : j # 0 => streams'[j] = streams[j]
      /\ Held(streams'[0]) \subseteq Held(streams[0]) \cup RangeOf(tuples)
  <2>1. PICK put : put = streams'
    OBVIOUS
  <2>2. /\ StreamsOK(streams) /\ 0 \in 0 .. NumOps - 1 /\ tuples \in Seq(Messages)
        /\ put = [streams EXCEPT ![0] = Enqueued(@, tuples)]
    BY <1>1, <1>2, <1>4, <1>5, <2>1
  <2>3. StreamsOK(put)
    BY ONLY <2>2, PuttingKeepsStreams
  <2>4. /\ \A j \in 0 .. NumOps - 1 : j # 0 => put[j] = streams[j]
        /\ Held(put[0]) \subseteq Held(streams[0]) \cup RangeOf(tuples)
    BY ONLY <2>2, PuttingKeepsStreams
  <2>5. QED
    BY <2>1, <2>3, <2>4
<1>7. StreamsOK(streams)'
  BY <1>1, <1>6, PlanStays DEF StreamsOK
<1>8. StreamsRead'
  <2>1. ASSUME NEW j \in 0 .. NumOps - 1, NEW t \in Held(streams'[j])
        PROVE  t \in Held(streams[j]) \/ t = EndOfStream \/ Good(t, j)'
    <3>1. CASE j = 0
      <4>1. t \in Held(streams[0]) \/ t = EndOfStream \/ Good(t, 0)
        BY <1>4, <1>6, <2>1, <3>1
      <4>2. QED
        BY <1>3, <3>1, <4>1
    <3>2. CASE j # 0
      BY <1>6, <2>1, <3>2
    <3>3. QED
      BY <3>1, <3>2
  <2>2. QED
    BY <1>1, <1>3, <2>1, StreamsReadStep DEF IInv
<1>9. WindowsReadOneVersion' /\ results' \in Seq([1 .. conf'.win.width -> Tuples] \cup {EndOfStream})
  BY <1>1, ResultsStay DEF IInv
<1>10. RelationsOK' /\ LocksKept' /\ NothingBegun' /\ SynopsisOK(conf.win, synopsis)'
  BY <1>1, PlanStays DEF IInv, TypeOK, RelationsOK, LocksKept, NothingBegun
<1>11. sent' \in 0 .. NumTuples + 1
  BY <1>1, <1>2
<1>12. TypeOK'
  BY <1>1, <1>7, <1>9, <1>10, <1>11, PlanStays DEF TypeOK
<1>13. NewcomersRead' /\ SlotsRead'
  BY <1>1, <1>3, PlanStays DEF IInv, NewcomersRead, SlotsRead
<1>14. AloneInv'
  <2>1. \A j \in 1 .. NumOps - 1 : streams'[j] = streams[j]
    BY <1>2, <1>6
  <2>2. QED
    BY <1>1, <2>1, PlanStays DEF IInv, AloneInv
<1>15. QED
  BY <1>8, <1>9, <1>10, <1>12, <1>13, <1>14 DEF IInv

(* A step of a relation, or none at all                                    *)
LEMMA RelationStepKeeps ==
    ASSUME IInv, UnchangedQuery, UNCHANGED <<sent, streams>>, RelationsOK', LocksKept',
           \A t, j : Good(t, j) => Good(t, j)'
    PROVE  IInv'
<1>1. /\ conf' = conf /\ UNCHANGED <<sent, streams, turn, calls, synopsis, committed, commit_count,
                                     first_time, snapshot, results>>
      /\ TypeOK
  BY DEF IInv, UnchangedQuery
<1>2. StreamsOK(streams)' /\ SynopsisOK(conf.win, synopsis)' /\ NothingBegun' /\ AloneInv'
  BY <1>1, PlanStays DEF IInv, TypeOK, StreamsOK, NothingBegun, AloneInv
<1>3. StreamsRead'
  BY <1>1, StreamsReadStep DEF IInv
<1>4. NewcomersRead' /\ SlotsRead'
  BY <1>1, PlanStays DEF IInv, NewcomersRead, SlotsRead
<1>5. WindowsReadOneVersion' /\ results' \in Seq([1 .. conf'.win.width -> Tuples] \cup {EndOfStream})
  BY <1>1, ResultsStay DEF IInv
<1>6. TypeOK'
  BY <1>1, <1>2, <1>5, PlanStays DEF TypeOK
<1>7. QED
  BY <1>2, <1>3, <1>4, <1>5, <1>6 DEF IInv

LEMMA UpdateKeeps ==
    ASSUME IInv, NEW r \in Relations, Update(r) PROVE IInv'
<1>1. /\ conf' = conf /\ first_time' = first_time /\ snapshot' = snapshot /\ UnchangedQuery
      /\ UNCHANGED <<sent, streams>> /\ relation[r].owner = NoThread
      /\ relation[r].version < MaxVersion /\ MaxVersion \in Nat
      /\ relation \in [Relations -> RelationType] /\ \A q \in Relations : MutexOK(relation[q])
      /\ \A k \in Combines : RelationOf(k) \in Relations
  BY PlanShape, ConstantsAssumption
  DEF IInv, TypeOK, RelationsOK, MutexOK, Update, UnchangedQuery
<1>2. PICK rel : rel = relation[r]
  OBVIOUS
<1> DEFINE locked == Rel!Locked(rel, Updater)
           updated == Rel!Updated(locked)
<1>3. rel \in RelationType /\ relation' = [relation EXCEPT ![r] = updated]
  BY <1>1, <1>2 DEF Update
<1>4. /\ locked \in RelationType /\ MutexOK(locked) /\ locked.version = rel.version
  BY <1>3, LockedRelation
<1> HIDE DEF locked
<1>5. updated \in RelationType /\ MutexOK(updated)
  <2>1. locked.version + 1 \in Versions
    BY <1>1, <1>2, <1>3, <1>4 DEF Versions, RelationType
  <2>2. updated = [locked EXCEPT !.version = locked.version + 1]
    BY DEF Rel!Updated
  <2>3. QED
    BY <1>4, <2>1, <2>2 DEF RelationType, MutexOK
<1> HIDE DEF updated
<1>6. RelationsOK'
  <2>1. relation' \in [Relations -> RelationType] /\ \A q \in Relations : MutexOK(relation'[q])
    BY <1>1, <1>3, <1>5
  <2>2. QED
    BY <2>1 DEF RelationsOK, MutexOK
<1>7. \A q \in Relations : q # r => relation'[q] = relation[q]
  BY <1>1, <1>3
<1>8. NoThread # Query
  BY ConstantsAssumption
<1>9. LocksKept'
  BY <1>1, <1>7, <1>8, PlanStays DEF IInv, LocksKept
<1>10. ASSUME NEW t, NEW j, Good(t, j) PROVE Good(t, j)'
  <2>1. CASE conf.mode = "PESSIMISTIC_2PL" /\ PessimisticCase
    <3>1. \A i \in Combines : i <= j => ~first_time[i] /\ Current(i)' = Current(i)
      <4>1. \A i \in Combines : i <= j => ~first_time[i]
        BY <1>10, <2>1 DEF Good, PessimisticTuple
      <4>2. \A i \in Combines : i <= j => RelationOf(i) # r
        BY <1>1, <1>8, <2>1, <4>1 DEF IInv, LocksKept
      <4>3. QED
        BY <1>1, <1>7, <2>1, <4>1, <4>2, PlanStays DEF Current
    <3>2. {<<i, Current(i)>> : i \in {k \in Combines : k <= j}}' =
          {<<i, Current(i)>> : i \in {k \in Combines : k <= j}}
      <4> DEFINE K == {k \in Combines : k <= j}
      <4>1. K' = K
        BY <1>1, PlanStays
      <4>2. \A k \in K : Current(k)' = Current(k)
        BY <3>1
      <4> HIDE DEF K
      <4>3. {<<k, Current(k)'>> : k \in K} = {<<k, Current(k)>> : k \in K}
        BY <4>2
      <4>4. QED
        BY <4>1, <4>3 DEF K
    <3>3. PessimisticTuple(t, j)'
      BY <1>1, <1>10, <2>1, <3>1, <3>2, PlanStays DEF Good, PessimisticTuple
    <3>4. ~OptimisticCase
      BY <2>1 DEF OptimisticCase
    <3>5. QED
      BY <1>1, <3>3, <3>4, PlanStays DEF Good
  <2>2. CASE conf.mode = "PESSIMISTIC_SNAPSHOT"
    BY <1>1, <1>10, <2>2, GoodStays
  <2>3. CASE ~PessimisticCase
    <3>1. OptimisticCase => OptimisticTuple(t, j)'
      BY <1>1, <1>10, PlanStays DEF Good, OptimisticTuple
    <3>2. QED
      BY <1>1, <2>3, <3>1, PlanStays DEF Good
  <2>4. QED
    BY <2>1, <2>2, <2>3 DEF PessimisticCase, PessimisticModes
<1>11. QED
  BY <1>1, <1>6, <1>9, <1>10, RelationStepKeeps

LEMMA UnlockUpdatedKeeps ==
    ASSUME IInv, NEW r \in Relations, UnlockUpdated(r) PROVE IInv'
<1>1. /\ conf' = conf /\ first_time' = first_time /\ snapshot' = snapshot /\ UnchangedQuery
      /\ UNCHANGED <<sent, streams>> /\ relation[r].owner = Updater
      /\ relation \in [Relations -> RelationType] /\ \A q \in Relations : MutexOK(relation[q])
      /\ \A k \in Combines : RelationOf(k) \in Relations
  BY PlanShape DEF IInv, TypeOK, RelationsOK, MutexOK, UnlockUpdated, UnchangedQuery
<1>2. PICK rel : rel = relation[r]
  OBVIOUS
<1> DEFINE unlocked == Rel!Unlocked(rel, Updater)
<1>3. rel \in RelationType /\ MutexOK(rel) /\ relation' = [relation EXCEPT ![r] = unlocked]
  BY <1>1, <1>2 DEF UnlockUpdated
<1>4. unlocked \in RelationType /\ MutexOK(unlocked) /\ unlocked.version = rel.version
  <2>1. 0 \in Nat
    OBVIOUS
  <2>2. QED
    BY <1>3, <2>1, UnlockedRelation
<1> HIDE DEF unlocked
<1>5. RelationsOK'
  <2>1. relation' \in [Relations -> RelationType] /\ \A q \in Relations : MutexOK(relation'[q])
    BY <1>1, <1>3, <1>4
  <2>2. QED
    BY <2>1 DEF RelationsOK, MutexOK
<1>6. \A q \in Relations : /\ q # r => relation'[q] = relation[q]
                           /\ relation'[q].version = relation[q].version
  BY <1>1, <1>2, <1>3, <1>4
<1>7. Updater # Query
  BY ConstantsAssumption
<1>8. LocksKept'
  BY <1>1, <1>6, <1>7, PlanStays DEF IInv, LocksKept
<1>9. \A t, j : Good(t, j) => Good(t, j)'
  BY <1>1, <1>6, GoodStays
<1>10. QED
  BY <1>1, <1>5, <1>8, <1>9, RelationStepKeeps

LEMMA StutterKeeps ==
    ASSUME IInv, UNCHANGED vars PROVE IInv'
<1>1. /\ conf' = conf /\ first_time' = first_time /\ snapshot' = snapshot /\ relation' = relation
      /\ UnchangedQuery /\ UNCHANGED <<sent, streams>>
  BY DEF vars, UnchangedQuery
<1>2. RelationsOK' /\ LocksKept'
  BY <1>1, PlanStays DEF IInv, TypeOK, RelationsOK, LocksKept
<1>3. \A t, j : Good(t, j) => Good(t, j)'
  BY <1>1, GoodStays
<1>4. QED
  BY <1>1, <1>2, <1>3, RelationStepKeeps
-----------------------------------------------------------------------------
(* The theorems *)

(* What the threads do to the query, its streams and the relations, one    *)
(* call at a time, keeps the invariant.                                    *)
THEOREM Inductive == Spec => []IInv
<1>1. Init => IInv
  BY InitInv
<1>2. IInv /\ [Next]_vars => IInv'
  <2>1. SUFFICES ASSUME IInv, [Next]_vars PROVE IInv'
    OBVIOUS
  <2>2. CASE FindNothing
    BY <2>1, <2>2, FindNothingKeeps
  <2>3. CASE PassEndOfStream
    BY <2>1, <2>3, PassEndOfStreamKeeps
  <2>4. CASE ProcessSimple
    BY <2>1, <2>4, ProcessSimpleKeeps
  <2>5. CASE ProcessCombine
    BY <2>1, <2>5, ProcessCombineKeeps
  <2>6. CASE WindowWaits
    BY <2>1, <2>6, WindowWaitsKeeps
  <2>7. CASE WindowOutput
    BY <2>1, <2>7, WindowOutputKeeps
  <2>8. CASE LostConsistency
    BY <2>1, <2>8, LostConsistencyKeeps
  <2>9. CASE DropTuple
    BY <2>1, <2>9, DropTupleKeeps
  <2>10. CASE AfterCommit
    BY <2>1, <2>10, AfterCommitKeeps
  <2>11. CASE Send
    BY <2>1, <2>11, SendKeeps
  <2>12. ASSUME NEW r \in Relations, Update(r) PROVE IInv'
    BY <2>1, <2>12, UpdateKeeps
  <2>13. ASSUME NEW r \in Relations, UnlockUpdated(r) PROVE IInv'
    BY <2>1, <2>13, UnlockUpdatedKeeps
  <2>14. CASE UNCHANGED vars
    BY <2>1, <2>14, StutterKeeps
  <2>15. QED
    BY <2>1, <2>2, <2>3, <2>4, <2>5, <2>6, <2>7, <2>8, <2>9, <2>10, <2>11, <2>12, <2>13, <2>14
    DEF Next, QueryStep
<1>3. QED
  BY <1>1, <1>2, PTL DEF Spec

(* The types of the variables, the window's and the backup's shape         *)
THEOREM TypeCorrect == Spec => []TypeOK
<1>1. IInv => TypeOK
  BY DEF IInv
<1>2. QED
  BY <1>1, Inductive, PTL

(* The tuples of every window that the mean outputs have read the same     *)
(* version of each relation, under the optimistic control where referenced *)
(* versions reach the mean, under the pessimistic ones where windows       *)
(* overlap or one tuple is handled at a time.                              *)
THEOREM WindowConsistency == Spec => []WindowsReadOneVersion
<1>1. IInv => WindowsReadOneVersion
  BY DEF IInv
<1>2. QED
  BY <1>1, Inductive, PTL
-----------------------------------------------------------------------------
(* The backup: what comes first                                            *)
(*                                                                         *)
(* The optimistic control evicts by arrival time, so the backup covers     *)
(* what a redo needs only because every tuple further down the plan has    *)
(* arrived no later than one further up.  The window and the newcomers     *)
(* make one line, oldest first; the mean puts a tuple at its end and, with *)
(* the next window, drops some at its beginning.                           *)

Gap == IF NoTwoMatches THEN 1 ELSE 0

Before(t, u) == t # EndOfStream /\ (u # EndOfStream => t.arrived + Gap <= u.arrived)

Sorted(seq) == \A k, l \in DOMAIN seq : k < l => Before(seq[k], seq[l])

(* No tuple has arrived before it was sent. *)
UpTo(t, last) == IF t = EndOfStream THEN last = NumTuples + 1 ELSE t.arrived <= last

StreamsInOrder(strms, last) ==
    \A j \in 0 .. NumOps - 1 :
        /\ Sorted(strms[j].queue) /\ Sorted(strms[j].backup)
        /\ \A t \in Held(strms[j]) :
               /\ UpTo(t, last)
               /\ \A i \in 0 .. j - 1 : \A u \in RangeOf(strms[i].queue) : Before(t, u)

(* The slots of the window, if it has been filled, and the newcomers *)
OldLength(win, syn) == IF syn.filled THEN win.width ELSE 0

LineLength(win, syn) == OldLength(win, syn) + Len(syn.newcomers)

Line(win, syn) ==
    [k \in 1 .. LineLength(win, syn) |->
        IF k <= OldLength(win, syn) THEN syn.tuples[Syn!SlotAfter(win, syn.index, k - 1)]
        ELSE syn.newcomers[k - OldLength(win, syn)]]

LineInOrder(line, strms, last) ==
    /\ Sorted(line)
    /\ \A t \in RangeOf(line) :
           /\ t \in Tuples /\ t # EndOfStream /\ UpTo(t, last)
           /\ \A i \in 0 .. NumOps - 1 : \A u \in RangeOf(strms[i].queue) : Before(t, u)

(* The queue is what the backup ends with. *)
EndsBackup(stream) ==
    /\ Len(stream.queue) <= Len(stream.backup)
    /\ \A k \in 1 .. Len(stream.queue) :
           stream.queue[k] = stream.backup[k + (Len(stream.backup) - Len(stream.queue))]

BackedUp(t, strms) ==
    \E u \in RangeOf(strms[RedoStream].backup) : u # EndOfStream /\ u.arrived = t.arrived

(* The first of the line that the next window shares *)
Spare ==
    IF ~synopsis.filled THEN 0
    ELSE IF conf.mode = "OPTIMISTIC" THEN conf.win.stride ELSE conf.win.width

Covered(strms, line, spare) ==
    /\ EndsBackup(strms[RedoStream])
    /\ \A j \in RedoLeaf .. NumOps - 1 :
           \A t \in RangeOf(strms[j].queue) : t # EndOfStream => BackedUp(t, strms)
    /\ \A k \in DOMAIN line : k > spare => BackedUp(line[k], strms)

BackupInv ==
    /\ StreamsInOrder(streams, sent)
    /\ LineInOrder(Line(conf.win, synopsis), streams, sent)
    /\ Covered(streams, Line(conf.win, synopsis), Spare)

LEMMA GapStays == /\ Gap \in {0, 1}
                  /\ conf' = conf => NoTwoMatches' = NoTwoMatches /\ Gap' = Gap
<1>1. conf' = conf => Combines' = Combines /\ \A i : RelationOf(i)' = RelationOf(i)
  BY PlanStays
<1>2. conf' = conf => NoTwoMatches' = NoTwoMatches
  BY <1>1 DEF NoTwoMatches
<1>3. QED
  BY <1>2 DEF Gap
-----------------------------------------------------------------------------
(* Sequences in order *)

LEMMA TailSorted ==
    ASSUME NEW S, NEW q \in Seq(S), q # <<>>, Sorted(q)
    PROVE  /\ Sorted(Tail(q)) /\ RangeOf(Tail(q)) \subseteq RangeOf(q)
           /\ \A u \in RangeOf(Tail(q)) : Before(Head(q), u)
<1> DEFINE n == Len(q)
           r == Tail(q)
<1>1. /\ DOMAIN r = 1 .. n - 1 /\ \A k \in 1 .. n - 1 : r[k] = q[k + 1]
      /\ n \in Nat /\ n > 0 /\ DOMAIN q = 1 .. n
      /\ Head(q) = q[1]
  <2>1. /\ Tail(q) \in Seq(S) /\ Len(Tail(q)) = Len(q) - 1
        /\ \A k \in 1 .. Len(Tail(q)) : Tail(q)[k] = q[k + 1]
        /\ Len(q) \in Nat /\ Len(q) > 0 /\ DOMAIN q = 1 .. Len(q)
        /\ DOMAIN Tail(q) = 1 .. Len(Tail(q))
        /\ Head(q) = q[1]
    OBVIOUS
  <2>2. QED
    BY <2>1
<1> HIDE DEF n, r
<1>2. \A k \in 1 .. n - 1 : k + 1 \in 1 .. n /\ 1 < k + 1
  BY <1>1
<1>3. 1 \in 1 .. n
  BY <1>1
<1>4. Sorted(r)
  <2>1. ASSUME NEW k \in 1 .. n - 1, NEW l \in 1 .. n - 1, k < l
        PROVE  Before(r[k], r[l])
    <3>1. k + 1 \in DOMAIN q /\ l + 1 \in DOMAIN q /\ k + 1 < l + 1
      BY <1>1, <1>2, <2>1
    <3>2. Before(q[k + 1], q[l + 1])
      BY <3>1 DEF Sorted
    <3>3. QED
      BY <1>1, <3>2
  <2>2. QED
    BY <1>1, <2>1 DEF Sorted
<1>5. RangeOf(r) \subseteq RangeOf(q)
  BY <1>1, <1>2 DEF RangeOf
<1>6. \A u \in RangeOf(r) : Before(Head(q), u)
  BY <1>1, <1>2, <1>3 DEF RangeOf, Sorted
<1>7. QED
  BY <1>4, <1>5, <1>6 DEF r

LEMMA OneSorted == \A t : Sorted(<<t>>)
<1>1. \A t : DOMAIN <<t>> = 1 .. 1
  OBVIOUS
<1>2. QED
  BY <1>1 DEF Sorted

LEMMA ConcatSorted ==
    ASSUME NEW S, NEW p \in Seq(S), NEW q \in Seq(S), Sorted(p), Sorted(q),
           \A t \in RangeOf(p), u \in RangeOf(q) : Before(t, u)
    PROVE  Sorted(p \o q)
<1> DEFINE m == Len(p)
           n == Len(q)
           r == p \o q
<1>1. /\ DOMAIN r = 1 .. m + n
      /\ \A i \in 1 .. m + n : r[i] = IF i <= m THEN p[i] ELSE q[i - m]
      /\ m \in Nat /\ n \in Nat
      /\ DOMAIN p = 1 .. m /\ DOMAIN q = 1 .. n
  BY ConcatProperties, LenProperties
<1> HIDE DEF m, n, r
<1>2. ASSUME NEW k \in 1 .. m + n, NEW l \in 1 .. m + n, k < l
      PROVE  Before(r[k], r[l])
  <2>1. CASE l <= m
    <3>1. k \in 1 .. m /\ l \in 1 .. m /\ k <= m
      BY <1>1, <1>2, <2>1
    <3>2. r[k] = p[k] /\ r[l] = p[l]
      BY <1>1, <2>1, <3>1
    <3>3. QED
      BY <1>1, <1>2, <3>1, <3>2 DEF Sorted
  <2>2. CASE k <= m /\ ~(l <= m)
    <3>1. k \in 1 .. m /\ l - m \in 1 .. n
      BY <1>1, <1>2, <2>2
    <3>2. r[k] = p[k] /\ r[l] = q[l - m]
      BY <1>1, <2>2
    <3>3. p[k] \in RangeOf(p) /\ q[l - m] \in RangeOf(q)
      BY <1>1, <3>1 DEF RangeOf
    <3>4. QED
      BY <3>2, <3>3
  <2>3. CASE ~(k <= m)
    <3>1. k - m \in 1 .. n /\ l - m \in 1 .. n /\ ~(l <= m) /\ k - m < l - m
      BY <1>1, <1>2, <2>3
    <3>2. r[k] = q[k - m] /\ r[l] = q[l - m]
      BY <1>1, <2>3, <3>1
    <3>3. QED
      BY <1>1, <3>1, <3>2 DEF Sorted
  <2>4. QED
    BY <2>1, <2>2, <2>3
<1>3. QED
  BY <1>1, <1>2 DEF Sorted, r

LEMMA ChosenSorted ==
    ASSUME NEW S, NEW seq \in Seq(S), NEW P \in SUBSET DOMAIN seq, Sorted(seq)
    PROVE  Sorted(Chosen(seq, P))
<1> DEFINE c == Chosen(seq, P)
           card == Cardinality(P)
<1>1. Len(seq) \in Nat /\ \A m \in P : m \in 0 .. Len(seq)
  BY LenProperties
<1>2. DOMAIN c = 1 .. card
  BY DEF Chosen
<1>3. \A n \in 1 .. card : Nth(P, n) \in P /\ c[n] = seq[Nth(P, n)]
  BY ChosenProperties
<1> HIDE DEF c
<1>4. ASSUME NEW k \in 1 .. card, NEW l \in 1 .. card, k < l PROVE Before(c[k], c[l])
  <2>1. Nth(P, k) < Nth(P, l)
    BY <1>1, <1>4, NthIncreases
  <2>2. QED
    BY <1>3, <2>1 DEF Sorted
<1>5. QED
  BY <1>2, <1>4 DEF Sorted, c

(* Where everything behind a position is kept, it stays at the end.        *)
LEMMA NthOfSuffix ==
    ASSUME NEW len \in Nat, NEW P, \A m \in P : m \in 1 .. len,
           NEW ahead \in 0 .. len, \A m \in ahead + 1 .. len : m \in P
    PROVE  /\ Cardinality(P) \in Nat /\ len - ahead <= Cardinality(P)
           /\ \A k \in 1 .. len - ahead :
                  /\ k + (Cardinality(P) - (len - ahead)) \in 1 .. Cardinality(P)
                  /\ Nth(P, k + (Cardinality(P) - (len - ahead))) = ahead + k
<1> DEFINE card == Cardinality(P)
           wrong == {d \in 0 .. len - ahead : Rank(P, len - d) # card - d}
<1>1. \A m \in P : m \in 0 .. len
  OBVIOUS
<1>2. card \in Nat /\ Rank(P, len) = card
  BY <1>1, RankBounds
<1>3. wrong = {}
  <2>1. SUFFICES ASSUME wrong # {} PROVE FALSE
    OBVIOUS
  <2>2. wrong \in SUBSET Nat
    OBVIOUS
  <2>3. PICK d \in wrong : \A e \in wrong : d <= e
    BY <2>1, <2>2, Least
  <2>4. d \in 0 .. len - ahead /\ Rank(P, len - d) # card - d
    BY <2>3
  <2>5. d # 0
    BY <1>2, <2>4
  <2>6. d - 1 \in 0 .. len - ahead /\ ~(d <= d - 1)
    BY <2>4, <2>5
  <2>7. Rank(P, len - (d - 1)) = card - (d - 1)
    BY <2>3, <2>6
  <2>8. len - d \in Nat /\ (len - d) + 1 = len - (d - 1) /\ len - (d - 1) \in ahead + 1 .. len
    BY <2>4, <2>5
  <2>9. Rank(P, (len - d) + 1) = Rank(P, len - d) + 1
    BY <1>1, <2>8, RankStep
  <2>10. Rank(P, len - d) \in Nat
    BY <1>1, <2>8, RankBounds
  <2> HIDE DEF wrong, card
  <2>11. Rank(P, len - d) + 1 = card - (d - 1)
    BY <2>7, <2>8, <2>9
  <2>12. QED
    BY <1>2, <2>4, <2>10, <2>11
<1>4. \A d \in 0 .. len - ahead : Rank(P, len - d) = card - d
  BY <1>3
<1> HIDE DEF wrong
<1>5. len - ahead <= card
  <2>1. len - ahead \in 0 .. len - ahead /\ len - (len - ahead) \in Nat
    OBVIOUS
  <2>2. Rank(P, len - (len - ahead)) \in Nat
    BY <1>1, <2>1, RankBounds
  <2>3. Rank(P, len - (len - ahead)) = card - (len - ahead)
    BY <1>4, <2>1
  <2> HIDE DEF card
  <2>4. QED
    BY <1>2, <2>2, <2>3
<1>6. ASSUME NEW k \in 1 .. len - ahead
      PROVE  /\ k + (card - (len - ahead)) \in 1 .. card
             /\ Nth(P, k + (card - (len - ahead))) = ahead + k
  <2> DEFINE d == (len - ahead) - k
  <2>1. d \in 0 .. len - ahead /\ len - d = ahead + k /\ ahead + k \in ahead + 1 .. len
    OBVIOUS
  <2>2. ahead + k \in P
    BY <2>1
  <2>3. Rank(P, ahead + k) = card - d
    BY <1>4, <2>1
  <2>4. Nth(P, Rank(P, ahead + k)) = ahead + k
    BY <1>1, <2>2, NthOfRank
  <2> HIDE DEF card
  <2>5. card - d = k + (card - (len - ahead)) /\ k + (card - (len - ahead)) \in 1 .. card
    BY <1>2, <1>5
  <2>6. QED
    BY <2>3, <2>4, <2>5
<1>7. QED
  BY <1>2, <1>5, <1>6 DEF card
-----------------------------------------------------------------------------
(* The queue ends the backup. *)

LEMMA DequeuedEndsBackup ==
    ASSUME NEW s \in StreamType, s.queue # <<>>, EndsBackup(s)
    PROVE  EndsBackup(Dequeued(s)) /\ Head(s.queue) \in RangeOf(s.backup)
           /\ Dequeued(s).queue = Tail(s.queue)
<1>1. s = [queue |-> s.queue, backup |-> s.backup, backed |-> s.backed]
      /\ s.queue \in Seq(Messages) /\ s.backup \in Seq(Messages)
  BY DEF StreamType
<1>2. Dequeued(s) = [s EXCEPT !.queue = Tail(s.queue)]
  BY DEF Dequeued
<1> DEFINE q == s.queue
           r == Tail(q)
           n == Len(q)
           b == Len(s.backup)
<1>3. /\ Len(r) = n - 1 /\ \A k \in 1 .. n - 1 : r[k] = q[k + 1]
      /\ n \in Nat /\ n > 0 /\ Head(q) = q[1] /\ b \in Nat
      /\ DOMAIN s.backup = 1 .. b
  <2>1. /\ Tail(q) \in Seq(Messages) /\ Len(Tail(q)) = Len(q) - 1
        /\ \A k \in 1 .. Len(Tail(q)) : Tail(q)[k] = q[k + 1]
        /\ Len(q) \in Nat /\ Len(q) > 0
        /\ Head(q) = q[1]
    BY <1>1
  <2>2. QED
    BY <1>1, <2>1
<1>4. n <= b /\ \A k \in 1 .. n : q[k] = s.backup[k + (b - n)]
  BY DEF EndsBackup
<1>5. Dequeued(s).queue = r /\ Dequeued(s).backup = s.backup
  BY <1>1, <1>2
<1> HIDE DEF q, r, n, b
<1>6. \A k \in 1 .. n - 1 : k + 1 \in 1 .. n /\ (k + 1) + (b - n) = k + (b - (n - 1))
  BY <1>3
<1>7. \A k \in 1 .. n - 1 : r[k] = s.backup[k + (b - (n - 1))]
  BY <1>3, <1>4, <1>6
<1>8. n - 1 <= b
  BY <1>3, <1>4
<1>9. EndsBackup(Dequeued(s))
  BY <1>3, <1>5, <1>7, <1>8 DEF EndsBackup, b
<1>10. 1 \in 1 .. n /\ 1 + (b - n) \in 1 .. b
  BY <1>3, <1>4
<1>11. q[1] \in RangeOf(s.backup)
  BY <1>3, <1>4, <1>10 DEF RangeOf
<1>12. QED
  BY <1>3, <1>5, <1>9, <1>11 DEF q, r

LEMMA EnqueuedEndsBackup ==
    ASSUME NEW s \in StreamType, NEW tuples \in Seq(Messages)
    PROVE  /\ Enqueued(s, tuples).queue = s.queue \o tuples
           /\ Enqueued(s, tuples).backup = IF s.backed THEN s.backup \o tuples ELSE s.backup
           /\ RangeOf(Enqueued(s, tuples).queue) = RangeOf(s.queue) \cup RangeOf(tuples)
           /\ RangeOf(s.backup) \subseteq RangeOf(Enqueued(s, tuples).backup)
           /\ s.backed /\ EndsBackup(s) => EndsBackup(Enqueued(s, tuples))
<1> DEFINE e == Enqueued(s, tuples)
<1>1. s = [queue |-> s.queue, backup |-> s.backup, backed |-> s.backed]
      /\ s.queue \in Seq(Messages) /\ s.backup \in Seq(Messages) /\ s.backed \in BOOLEAN
  BY DEF StreamType
<1>2. /\ e.queue = s.queue \o tuples
      /\ e.backup = IF s.backed THEN s.backup \o tuples ELSE s.backup
  <2> DEFINE backup == IF s.backed THEN s.backup \o tuples ELSE s.backup
  <2>1. e = [s EXCEPT !.queue = s.queue \o tuples, !.backup = backup]
    BY DEF Enqueued
  <2> HIDE DEF e, backup
  <2>2. e = [queue |-> s.queue \o tuples, backup |-> backup, backed |-> s.backed]
    BY <1>1, <2>1
  <2>3. QED
    BY <2>2 DEF backup
<1> HIDE DEF e
<1>3. /\ RangeOf(s.queue \o tuples) = RangeOf(s.queue) \cup RangeOf(tuples)
      /\ RangeOf(s.backup \o tuples) = RangeOf(s.backup) \cup RangeOf(tuples)
  BY <1>1, ConcatRange
<1>4. ASSUME s.backed, EndsBackup(s) PROVE EndsBackup(e)
  <2> DEFINE q == s.queue
             p == s.backup
             n == Len(q)
             b == Len(p)
             m == Len(tuples)
             qt == q \o tuples
             pt == p \o tuples
  <2>1. /\ Len(qt) = n + m /\ \A i \in 1 .. n + m : qt[i] = IF i <= n THEN q[i] ELSE tuples[i - n]
        /\ Len(pt) = b + m /\ \A i \in 1 .. b + m : pt[i] = IF i <= b THEN p[i] ELSE tuples[i - b]
        /\ n \in Nat /\ m \in Nat /\ b \in Nat
    BY <1>1, ConcatProperties, LenProperties
  <2>2. n <= b /\ \A k \in 1 .. n : q[k] = p[k + (b - n)]
    BY <1>4 DEF EndsBackup
  <2> HIDE DEF q, p, n, b, m, qt, pt
  <2>3. ASSUME NEW k \in 1 .. n + m PROVE qt[k] = pt[k + ((b + m) - (n + m))]
    <3>1. k + ((b + m) - (n + m)) = k + (b - n) /\ k + (b - n) \in 1 .. b + m
      BY <2>1, <2>2, <2>3
    <3>2. CASE k <= n
      <4>1. k \in 1 .. n /\ k + (b - n) <= b
        BY <2>1, <2>2, <2>3, <3>2
      <4>2. QED
        BY <2>1, <2>2, <3>1, <3>2, <4>1
    <3>3. CASE ~(k <= n)
      <4>1. ~(k + (b - n) <= b) /\ (k + (b - n)) - b = k - n
        BY <2>1, <2>2, <2>3, <3>3
      <4>2. qt[k] = tuples[k - n]
        BY <2>1, <2>3, <3>3
      <4>3. pt[k + (b - n)] = tuples[(k + (b - n)) - b]
        BY <2>1, <3>1, <4>1
      <4>4. QED
        BY <3>1, <4>1, <4>2, <4>3
    <3>4. QED
      BY <3>2, <3>3
  <2>4. n + m <= b + m
    BY <2>1, <2>2
  <2>5. e.queue = qt /\ e.backup = pt
    BY <1>2, <1>4 DEF qt, pt, q, p
  <2>6. QED
    BY <2>1, <2>3, <2>4, <2>5 DEF EndsBackup
<1>5. QED
  BY <1>2, <1>3, <1>4 DEF e

LEMMA EvictedEndsBackup ==
    ASSUME NEW s \in StreamType, NEW lwm, EndsBackup(s),
           \A t \in RangeOf(s.queue) : ~OlderThan(t, lwm)
    PROVE  EndsBackup(Evicted(s, lwm))
<1> DEFINE kept == {k \in DOMAIN s.backup : ~OlderThan(s.backup[k], lwm)}
           rest == Chosen(s.backup, kept)
           q == s.queue
           p == s.backup
           n == Len(q)
           b == Len(p)
           card == Cardinality(kept)
<1>1. s = [queue |-> s.queue, backup |-> s.backup, backed |-> s.backed]
      /\ s.queue \in Seq(Messages) /\ s.backup \in Seq(Messages) /\ s.backed \in BOOLEAN
  BY DEF StreamType
<1>2. Evicted(s, lwm) = [s EXCEPT !.backup = rest]
  BY DEF Evicted
<1>3. kept \in SUBSET DOMAIN p /\ DOMAIN p = 1 .. b /\ DOMAIN q = 1 .. n /\ b \in Nat /\ n \in Nat
  BY <1>1
<1>4. n <= b /\ \A k \in 1 .. n : q[k] = p[k + (b - n)]
  BY DEF EndsBackup
<1>5. \A k \in (b - n) + 1 .. b : k \in kept
  <2> HIDE DEF n, b, p, q, kept
  <2>1. ASSUME NEW k \in (b - n) + 1 .. b PROVE k \in 1 .. b /\ ~OlderThan(p[k], lwm)
    <3>1. k - (b - n) \in 1 .. n /\ (k - (b - n)) + (b - n) = k /\ k \in 1 .. b
      BY <1>3, <1>4, <2>1
    <3>2. q[k - (b - n)] = p[k]
      BY <1>4, <3>1
    <3>3. q[k - (b - n)] \in RangeOf(q)
      BY <1>3, <3>1 DEF RangeOf
    <3>4. QED
      BY <3>1, <3>2, <3>3 DEF q
  <2>2. QED
    BY <1>3, <2>1 DEF kept, p
<1>6. /\ rest \in Seq(Messages) /\ Len(rest) = card
      /\ \A k \in 1 .. card : rest[k] = p[Nth(kept, k)]
  <2> HIDE DEF kept
  <2>1. QED
    BY <1>1, <1>3, ChosenProperties
<1> HIDE DEF kept, rest
<1>7. Evicted(s, lwm).queue = q /\ Evicted(s, lwm).backup = rest
  BY <1>1, <1>2
<1> HIDE DEF n, b, p, q
<1>8. /\ card \in Nat /\ b - (b - n) <= card
      /\ \A k \in 1 .. b - (b - n) : /\ k + (card - (b - (b - n))) \in 1 .. card
                                     /\ Nth(kept, k + (card - (b - (b - n)))) = (b - n) + k
  <2>1. b - n \in 0 .. b /\ \A m \in kept : m \in 1 .. b
    BY <1>3, <1>4
  <2>2. QED
    BY <1>3, <1>5, <2>1, NthOfSuffix
<1>9. b - (b - n) = n
  BY <1>3
<1> HIDE DEF card
<1>10. n <= card
  BY <1>8, <1>9
<1>11. ASSUME NEW k \in 1 .. n PROVE q[k] = rest[k + (card - n)]
  <2>1. k + (card - n) \in 1 .. card /\ Nth(kept, k + (card - n)) = (b - n) + k
    BY <1>8, <1>9
  <2>2. rest[k + (card - n)] = p[(b - n) + k]
    BY <1>6, <2>1
  <2>3. (b - n) + k = k + (b - n)
    BY <1>3
  <2>4. QED
    BY <1>4, <2>2, <2>3
<1>12. QED
  BY <1>6, <1>7, <1>10, <1>11 DEF EndsBackup, n, q

(* What is not older stays. *)
LEMMA EvictedKeeps ==
    ASSUME NEW s \in StreamType, NEW lwm, Sorted(s.backup)
    PROVE  /\ Sorted(Evicted(s, lwm).backup)
           /\ \A t \in RangeOf(s.backup) :
                  ~OlderThan(t, lwm) => t \in RangeOf(Evicted(s, lwm).backup)
<1> DEFINE kept == {k \in DOMAIN s.backup : ~OlderThan(s.backup[k], lwm)}
           rest == Chosen(s.backup, kept)
<1>1. s = [queue |-> s.queue, backup |-> s.backup, backed |-> s.backed]
      /\ s.backup \in Seq(Messages)
  BY DEF StreamType
<1>2. Evicted(s, lwm) = [s EXCEPT !.backup = rest]
  BY DEF Evicted
<1>3. kept \in SUBSET DOMAIN s.backup
  OBVIOUS
<1>4. \A t \in RangeOf(s.backup) : ~OlderThan(t, lwm) => \E k \in kept : t = s.backup[k]
  BY DEF RangeOf
<1> HIDE DEF kept
<1>5. /\ DOMAIN rest = 1 .. Cardinality(kept)
      /\ \A k \in kept : \E n \in 1 .. Cardinality(kept) : rest[n] = s.backup[k]
  <2>1. DOMAIN rest = 1 .. Cardinality(kept)
    BY DEF Chosen
  <2>2. QED
    BY <1>1, <1>3, <2>1, ChosenProperties
<1>6. Sorted(rest)
  BY <1>1, <1>3, ChosenSorted
<1> HIDE DEF rest
<1>7. Evicted(s, lwm).backup = rest
  BY <1>1, <1>2
<1>8. \A k \in kept : s.backup[k] \in RangeOf(rest)
  BY <1>5 DEF RangeOf
<1>9. QED
  BY <1>4, <1>6, <1>7, <1>8
-----------------------------------------------------------------------------
(* Streams in order *)

(* Streams that hold less, in order themselves *)
LEMMA FewerInOrder ==
    ASSUME conf \in Configurations, NEW strms, NEW line, NEW last,
           StreamsInOrder(strms, last), LineInOrder(line, strms, last), NEW less,
           \A j \in 0 .. NumOps - 1 :
               /\ Sorted(less[j].queue) /\ Sorted(less[j].backup)
               /\ Held(less[j]) \subseteq Held(strms[j])
               /\ RangeOf(less[j].queue) \subseteq RangeOf(strms[j].queue)
    PROVE  StreamsInOrder(less, last) /\ LineInOrder(line, less, last)
<1>1. LineInOrder(line, less, last)
  BY DEF LineInOrder
<1>2. ASSUME NEW j \in 0 .. NumOps - 1, NEW t \in Held(less[j])
      PROVE  /\ UpTo(t, last)
             /\ \A i \in 0 .. j - 1 : \A u \in RangeOf(less[i].queue) : Before(t, u)
  <2>1. t \in Held(strms[j])
    BY <1>2
  <2>2. /\ UpTo(t, last)
        /\ \A i \in 0 .. j - 1 : \A u \in RangeOf(strms[i].queue) : Before(t, u)
    BY <2>1 DEF StreamsInOrder
  <2>3. ASSUME NEW i \in 0 .. j - 1, NEW u \in RangeOf(less[i].queue)
        PROVE  u \in RangeOf(strms[i].queue)
    <3>1. i \in 0 .. NumOps - 1
      BY <1>2, <2>3, PlanShape
    <3>2. QED
      BY <2>3, <3>1
  <2>4. QED
    BY <2>2, <2>3
<1>3. QED
  BY <1>1, <1>2 DEF StreamsInOrder

(* A stream without its first tuple *)
LEMMA TakingInOrder ==
    ASSUME conf \in Configurations, NEW strms, StreamsOK(strms), NEW line, NEW last,
           StreamsInOrder(strms, last), LineInOrder(line, strms, last),
           NEW k \in 0 .. NumOps - 1, strms[k].queue # <<>>,
           NEW taken, taken = [strms EXCEPT ![k] = Dequeued(@)]
    PROVE  /\ StreamsInOrder(taken, last) /\ LineInOrder(line, taken, last)
           /\ UpTo(Head(strms[k].queue), last)
           /\ \A j \in 0 .. NumOps - 1 :
                  /\ j > k => \A t \in Held(taken[j]) : Before(t, Head(strms[k].queue))
                  /\ j <= k =>
                       \A u \in RangeOf(taken[j].queue) : Before(Head(strms[k].queue), u)
           /\ \A t \in RangeOf(line) : Before(t, Head(strms[k].queue))
<1>0. NumOps \in Int /\ k \in 0 .. NumOps - 1
  BY PlanShape
<1>1. strms \in [0 .. NumOps - 1 -> StreamType] /\ strms[k] \in StreamType
  BY DEF StreamsOK
<1>2. /\ \A j \in 0 .. NumOps - 1 : j # k => taken[j] = strms[j]
      /\ taken[k] = Dequeued(strms[k])
      /\ \A j \in 0 .. NumOps - 1 : Held(taken[j]) \subseteq Held(strms[j])
      /\ taken[k].backup = strms[k].backup
      /\ Head(strms[k].queue) \in Held(strms[k])
  <2>1. /\ StreamsOK(strms) /\ k \in 0 .. NumOps - 1 /\ strms[k].queue # <<>>
        /\ taken = [strms EXCEPT ![k] = Dequeued(@)]
    OBVIOUS
  <2>2. \A j \in 0 .. NumOps - 1 : Held(taken[j]) \subseteq Held(strms[j])
    BY ONLY <2>1, TakingKeepsStreams
  <2>3. \A j \in 0 .. NumOps - 1 : j # k => taken[j] = strms[j]
    BY ONLY <2>1, TakingKeepsStreams
  <2>4. taken[k].backup = strms[k].backup
    BY ONLY <2>1, TakingKeepsStreams
  <2>5. Head(strms[k].queue) \in Held(strms[k])
    BY ONLY <2>1, TakingKeepsStreams
  <2>6. QED
    BY <1>1, <2>1, <2>2, <2>3, <2>4, <2>5
<1> DEFINE q == strms[k].queue
           h == Head(q)
<1>3. q \in Seq(Messages) /\ q # <<>> /\ taken[k].queue = Tail(q) /\ Sorted(q)
  <2>1. q \in Seq(Messages) /\ strms[k] =
            [queue |-> strms[k].queue, backup |-> strms[k].backup, backed |-> strms[k].backed]
    BY <1>1 DEF StreamType
  <2>2. Dequeued(strms[k]).queue = Tail(q)
    BY <2>1 DEF Dequeued
  <2>3. QED
    BY <1>2, <2>1, <2>2 DEF StreamsInOrder
<1>4. /\ Sorted(Tail(q)) /\ RangeOf(Tail(q)) \subseteq RangeOf(q)
      /\ \A u \in RangeOf(Tail(q)) : Before(h, u)
  <2> HIDE DEF q
  <2>1. QED
    BY <1>3, TailSorted
<1>5. h \in RangeOf(q)
  BY <1>3 DEF RangeOf
<1>6. \A j \in 0 .. NumOps - 1 :
          /\ Sorted(taken[j].queue) /\ Sorted(taken[j].backup)
          /\ RangeOf(taken[j].queue) \subseteq RangeOf(strms[j].queue)
  <2>1. \A j \in 0 .. NumOps - 1 : Sorted(strms[j].queue) /\ Sorted(strms[j].backup)
    BY DEF StreamsInOrder
  <2>2. QED
    BY <1>2, <1>3, <1>4, <2>1
<1>7. StreamsInOrder(taken, last) /\ LineInOrder(line, taken, last)
  BY <1>2, <1>6, FewerInOrder
<1> HIDE DEF q, h
<1>8. UpTo(h, last)
  BY <1>2 DEF StreamsInOrder, q, h
<1>9. ASSUME NEW j \in 0 .. NumOps - 1, j > k, NEW t \in Held(taken[j]) PROVE Before(t, h)
  <2>1. k \in 0 .. j - 1 /\ t \in Held(strms[j])
    BY <1>0, <1>2, <1>9
  <2>2. QED
    BY <1>5, <2>1 DEF StreamsInOrder, q
<1>10. ASSUME NEW j \in 0 .. NumOps - 1, j <= k, NEW u \in RangeOf(taken[j].queue)
       PROVE  Before(h, u)
  <2>1. CASE j = k
    BY <1>3, <1>4, <1>10, <2>1
  <2>2. CASE j # k
    <3>1. j \in 0 .. k - 1 /\ u \in RangeOf(strms[j].queue)
      BY <1>0, <1>2, <1>10, <2>2
    <3>2. QED
      BY <1>2, <3>1 DEF StreamsInOrder, q, h
  <2>3. QED
    BY <2>1, <2>2
<1>11. \A t \in RangeOf(line) : Before(t, h)
  BY <1>5 DEF LineInOrder, q
<1>12. QED
  BY <1>7, <1>8, <1>9, <1>10, <1>11 DEF h, q

(* A stream with tuples at its end that fit in *)
LEMMA PuttingInOrder ==
    ASSUME conf \in Configurations, NEW strms, StreamsOK(strms), NEW line, NEW last,
           StreamsInOrder(strms, last), LineInOrder(line, strms, last),
           NEW k \in 0 .. NumOps - 1,
           NEW tuples \in Seq(Messages), Sorted(tuples),
           \A u \in RangeOf(tuples) :
               /\ UpTo(u, last)
               /\ \A j \in 0 .. NumOps - 1 :
                      /\ j >= k => \A t \in Held(strms[j]) : Before(t, u)
                      /\ j < k => \A v \in RangeOf(strms[j].queue) : Before(u, v)
               /\ \A t \in RangeOf(line) : Before(t, u),
           NEW put, put = [strms EXCEPT ![k] = Enqueued(@, tuples)]
    PROVE  StreamsInOrder(put, last) /\ LineInOrder(line, put, last)
<1>0. NumOps \in Int /\ k \in 0 .. NumOps - 1
  BY PlanShape
<1>1. strms \in [0 .. NumOps - 1 -> StreamType] /\ strms[k] \in StreamType
  BY DEF StreamsOK
<1>2. /\ \A j \in 0 .. NumOps - 1 : j # k => put[j] = strms[j]
      /\ put[k] = Enqueued(strms[k], tuples)
      /\ Held(put[k]) \subseteq Held(strms[k]) \cup RangeOf(tuples)
  <2>1. /\ StreamsOK(strms) /\ k \in 0 .. NumOps - 1 /\ tuples \in Seq(Messages)
        /\ put = [strms EXCEPT ![k] = Enqueued(@, tuples)]
    OBVIOUS
  <2>2. /\ \A j \in 0 .. NumOps - 1 : j # k => put[j] = strms[j]
        /\ Held(put[k]) \subseteq Held(strms[k]) \cup RangeOf(tuples)
    BY ONLY <2>1, PuttingKeepsStreams
  <2>3. QED
    BY <1>1, <2>1, <2>2
<1>3. /\ put[k].queue = strms[k].queue \o tuples
      /\ put[k].backup \in {strms[k].backup \o tuples, strms[k].backup}
      /\ RangeOf(put[k].queue) = RangeOf(strms[k].queue) \cup RangeOf(tuples)
  <2>1. PICK s : s = strms[k]
    OBVIOUS
  <2>2. s \in StreamType /\ tuples \in Seq(Messages)
    BY <1>1, <2>1
  <2>3. /\ Enqueued(s, tuples).queue = s.queue \o tuples
        /\ Enqueued(s, tuples).backup = IF s.backed THEN s.backup \o tuples ELSE s.backup
        /\ RangeOf(Enqueued(s, tuples).queue) = RangeOf(s.queue) \cup RangeOf(tuples)
    BY ONLY <2>2, EnqueuedEndsBackup
  <2>4. Enqueued(s, tuples).backup \in {s.backup \o tuples, s.backup}
    <3>1. CASE s.backed
      BY <2>3, <3>1
    <3>2. CASE ~s.backed
      BY <2>3, <3>2
    <3>3. QED
      BY <3>1, <3>2
  <2>5. QED
    BY <1>2, <2>1, <2>3, <2>4
<1>4. strms[k].queue \in Seq(Messages) /\ strms[k].backup \in Seq(Messages)
  BY <1>1 DEF StreamType
<1>5. \A j \in 0 .. NumOps - 1 : Sorted(strms[j].queue) /\ Sorted(strms[j].backup)
  BY DEF StreamsInOrder
<1>6. \A t \in Held(strms[k]), u \in RangeOf(tuples) : Before(t, u)
  BY <1>0
<1>7. Sorted(put[k].queue) /\ Sorted(put[k].backup)
  <2>1. Sorted(strms[k].queue \o tuples)
    BY <1>4, <1>5, <1>6, ConcatSorted DEF Held
  <2>2. Sorted(strms[k].backup \o tuples)
    BY <1>4, <1>5, <1>6, ConcatSorted DEF Held
  <2>3. QED
    BY <1>3, <1>5, <2>1, <2>2
<1>8. ASSUME NEW j \in 0 .. NumOps - 1, NEW t \in Held(put[j]) PROVE UpTo(t, last)
  <2>1. t \in Held(strms[j]) \/ t \in RangeOf(tuples)
    BY <1>2, <1>8
  <2>2. QED
    BY <2>1 DEF StreamsInOrder
<1>9. ASSUME NEW j \in 0 .. NumOps - 1, NEW t \in Held(put[j]), NEW i \in 0 .. j - 1,
             NEW u \in RangeOf(put[i].queue)
      PROVE  Before(t, u)
  <2>1. i \in 0 .. NumOps - 1 /\ i < j
    BY <1>0, <1>9
  <2>2. CASE t \in Held(strms[j]) /\ u \in RangeOf(strms[i].queue)
    BY <2>2 DEF StreamsInOrder
  <2>3. CASE j = k /\ t \in RangeOf(tuples)
    <3>1. u \in RangeOf(strms[i].queue) /\ i < k
      BY <1>2, <1>9, <2>1, <2>3
    <3>2. QED
      BY <2>1, <2>3, <3>1
  <2>4. CASE i = k /\ u \in RangeOf(tuples)
    <3>1. t \in Held(strms[j]) /\ j >= k
      BY <1>0, <1>2, <1>9, <2>1, <2>4
    <3>2. QED
      BY <2>4, <3>1
  <2>5. (t \in Held(strms[j]) \/ (j = k /\ t \in RangeOf(tuples)))
        /\ (u \in RangeOf(strms[i].queue) \/ (i = k /\ u \in RangeOf(tuples)))
    BY <1>2, <1>3, <1>9, <2>1
  <2>6. QED
    BY <2>2, <2>3, <2>4, <2>5
<1>10. StreamsInOrder(put, last)
  <2>1. \A j \in 0 .. NumOps - 1 : Sorted(put[j].queue) /\ Sorted(put[j].backup)
    BY <1>2, <1>5, <1>7
  <2>2. QED
    BY <1>8, <1>9, <2>1 DEF StreamsInOrder
<1>11. ASSUME NEW t \in RangeOf(line), NEW i \in 0 .. NumOps - 1, NEW u \in RangeOf(put[i].queue)
       PROVE  Before(t, u)
  <2>1. u \in RangeOf(strms[i].queue) \/ u \in RangeOf(tuples)
    BY <1>2, <1>3, <1>11
  <2>2. QED
    BY <1>11, <2>1 DEF LineInOrder
<1>12. LineInOrder(line, put, last)
  BY <1>11 DEF LineInOrder
<1>13. QED
  BY <1>10, <1>12

(* An eviction from the backup *)
LEMMA EvictingInOrder ==
    ASSUME NEW strms, StreamsOK(strms), NEW line, NEW last, StreamsInOrder(strms, last),
           LineInOrder(line, strms, last), conf \in Configurations, NEW lwm,
           NEW evicted, evicted = [strms EXCEPT ![RedoStream] = Evicted(@, lwm)]
    PROVE  StreamsInOrder(evicted, last) /\ LineInOrder(line, evicted, last)
<1>1. /\ \A j \in 0 .. NumOps - 1 : /\ Held(evicted[j]) \subseteq Held(strms[j])
                                    /\ evicted[j].queue = strms[j].queue
  <2>1. /\ StreamsOK(strms) /\ conf \in Configurations
        /\ evicted = [strms EXCEPT ![RedoStream] = Evicted(@, lwm)]
    OBVIOUS
  <2>2. QED
    BY ONLY <2>1, EvictingKeepsStreams
<1>2. RedoStream \in 0 .. NumOps - 1
  BY LeafIsFirst, PlanShape DEF RedoStream
<1>3. strms[RedoStream] \in StreamType /\ strms \in [0 .. NumOps - 1 -> StreamType]
  BY <1>2 DEF StreamsOK
<1>4. /\ evicted[RedoStream] = Evicted(strms[RedoStream], lwm)
      /\ \A j \in 0 .. NumOps - 1 : j # RedoStream => evicted[j] = strms[j]
  BY <1>2, <1>3
<1>5. \A j \in 0 .. NumOps - 1 : Sorted(strms[j].queue) /\ Sorted(strms[j].backup)
  BY DEF StreamsInOrder
<1>6. Sorted(evicted[RedoStream].backup)
  BY <1>2, <1>3, <1>4, <1>5, EvictedKeeps
<1>7. \A j \in 0 .. NumOps - 1 : Sorted(evicted[j].queue) /\ Sorted(evicted[j].backup)
  BY <1>1, <1>4, <1>5, <1>6
<1>8. QED
  BY <1>1, <1>7, FewerInOrder

(* Starting over: what is behind the redo stream is gone, and the window   *)
(* with it.                                                                *)
LEMMA RestartingInOrder ==
    ASSUME NEW strms, StreamsOK(strms), NEW last, StreamsInOrder(strms, last),
           conf \in Configurations
    PROVE  /\ StreamsInOrder(Restarted(strms), last)
           /\ \A line, spare : DOMAIN line = {} =>
                  /\ LineInOrder(line, Restarted(strms), last)
                  /\ Covered(Restarted(strms), line, spare)
<1> DEFINE restarted == Restarted(strms)
<1>1. RedoStream \in 0 .. NumOps - 1 /\ RedoLeaf = RedoStream + 1 /\ NumOps \in Nat
      /\ RedoLeaf \in 2 .. NumOps - 1
  BY LeafIsFirst, PlanShape DEF RedoStream
<1>2. strms \in [0 .. NumOps - 1 -> StreamType]
  BY DEF StreamsOK
<1>3. restarted = [j \in 0 .. NumOps - 1 |->
          IF j = RedoStream THEN Recovered(Cleared(strms[j]))
          ELSE IF j \in RedoOps THEN Cleared(strms[j]) ELSE strms[j]]
  BY <1>2 DEF Restarted
<1>4. /\ \A j \in 0 .. NumOps - 1 : Held(restarted[j]) \subseteq Held(strms[j])
      /\ \A j \in 0 .. NumOps - 1 : j >= RedoLeaf => Held(restarted[j]) = {}
  BY RestartingKeepsStreams
<1> HIDE DEF restarted
<1>5. strms[RedoStream] \in StreamType
  BY <1>1, <1>2
<1>6. restarted[RedoStream].queue = strms[RedoStream].backup
      /\ restarted[RedoStream].backup = strms[RedoStream].backup
  BY <1>1, <1>3, <1>5, ClearedStream
<1>7. \A j \in 0 .. NumOps - 1 : j < RedoStream => restarted[j] = strms[j]
  BY <1>1, <1>3 DEF RedoOps
<1>8. \A j \in 0 .. NumOps - 1 : Sorted(strms[j].queue) /\ Sorted(strms[j].backup)
  BY DEF StreamsInOrder
<1>9. ASSUME NEW j \in 0 .. NumOps - 1
      PROVE  Sorted(restarted[j].queue) /\ Sorted(restarted[j].backup)
  <2>1. CASE j < RedoStream
    BY <1>7, <1>8, <2>1
  <2>2. CASE j = RedoStream
    BY <1>6, <1>8, <2>2
  <2>3. CASE j > RedoStream
    <3>1. j >= RedoLeaf
      BY <1>1, <2>3
    <3>2. Held(restarted[j]) = {}
      BY <1>4, <3>1
    <3>3. RangeOf(restarted[j].queue) = {} /\ RangeOf(restarted[j].backup) = {}
      BY <3>2 DEF Held
    <3>4. DOMAIN restarted[j].queue = {} /\ DOMAIN restarted[j].backup = {}
      BY <3>3 DEF RangeOf
    <3>5. QED
      BY <3>4 DEF Sorted
  <2>4. QED
    BY <1>1, <2>1, <2>2, <2>3
<1>10. ASSUME NEW j \in 0 .. NumOps - 1, NEW t \in Held(restarted[j]), NEW i \in 0 .. j - 1,
              NEW u \in RangeOf(restarted[i].queue)
       PROVE  Before(t, u)
  <2>1. ~(j >= RedoLeaf)
    BY <1>4, <1>10
  <2>2. i < RedoStream /\ i \in 0 .. NumOps - 1
    BY <1>1, <1>10, <2>1
  <2>3. u \in RangeOf(strms[i].queue) /\ t \in Held(strms[j])
    BY <1>4, <1>7, <1>10, <2>2
  <2>4. QED
    BY <1>10, <2>3 DEF StreamsInOrder
<1>11. StreamsInOrder(restarted, last)
  <2>1. \A j \in 0 .. NumOps - 1 : \A t \in Held(restarted[j]) : UpTo(t, last)
    BY <1>4 DEF StreamsInOrder
  <2>2. QED
    BY <1>9, <1>10, <2>1 DEF StreamsInOrder
<1>12. ASSUME NEW line, NEW spare, DOMAIN line = {}
       PROVE  LineInOrder(line, restarted, last) /\ Covered(restarted, line, spare)
  <2>1. RangeOf(line) = {}
    BY <1>12 DEF RangeOf
  <2>2. LineInOrder(line, restarted, last)
    BY <1>12, <2>1 DEF LineInOrder, Sorted
  <2>3. EndsBackup(restarted[RedoStream])
    <3> DEFINE b == Len(strms[RedoStream].backup)
    <3>1. b \in Nat
      BY <1>5 DEF StreamType
    <3> HIDE DEF b
    <3>2. b <= b /\ \A k \in 1 .. b : k + (b - b) = k
      BY <3>1
    <3>3. QED
      BY <1>6, <3>2 DEF EndsBackup, b
  <2>4. \A j \in RedoLeaf .. NumOps - 1 : RangeOf(restarted[j].queue) = {}
    <3>1. \A j \in RedoLeaf .. NumOps - 1 : j \in 0 .. NumOps - 1 /\ j >= RedoLeaf
      BY <1>1
    <3>2. QED
      BY <1>4, <3>1 DEF Held
  <2>5. QED
    BY <1>12, <2>2, <2>3, <2>4 DEF Covered
<1>13. QED
  BY <1>11, <1>12 DEF restarted
-----------------------------------------------------------------------------
(* The line *)

(* A tuple has been put at the end, and dropped at the beginning. *)
Extends(n, line, t, dropped, next) ==
    /\ n \in Nat /\ dropped \in 0 .. n
    /\ DOMAIN line = 1 .. n /\ DOMAIN next = 1 .. (n + 1) - dropped
    /\ \A k \in 1 .. (n + 1) - dropped :
           next[k] = IF k + dropped <= n THEN line[k + dropped] ELSE t

Dropped(win, syn) == IF Syn!Completes(win, syn) /\ syn.filled THEN win.stride ELSE 0

LEMMA SynopsisFields ==
    ASSUME NEW win, IsWindow(win), NEW syn, SynopsisOK(win, syn)
    PROVE  /\ syn.newcomers \in Seq(Tuples) /\ Len(syn.newcomers) \in Nat
           /\ syn.filled \in BOOLEAN
           /\ syn.index \in 0 .. win.width - 1 /\ win.width \in Nat
           /\ win.stride \in 1 .. win.width
           /\ OldLength(win, syn) \in Nat /\ OldLength(win, syn) \in {0, win.width}
           /\ LineLength(win, syn) \in Nat
           /\ DOMAIN Line(win, syn) = 1 .. LineLength(win, syn)
           /\ DOMAIN syn.newcomers = 1 .. Len(syn.newcomers)
<1>1. /\ syn.newcomers \in Seq(Tuples) /\ syn.filled \in BOOLEAN
      /\ syn.index \in 0 .. win.width - 1 /\ win.width \in Nat /\ win.stride \in 1 .. win.width
  BY DEF SynopsisOK, SynopsisType, IsWindow, Syn!Slots
<1>2. Len(syn.newcomers) \in Nat /\ DOMAIN syn.newcomers = 1 .. Len(syn.newcomers)
  BY <1>1
<1>3. OldLength(win, syn) \in Nat /\ OldLength(win, syn) \in {0, win.width}
  BY <1>1 DEF OldLength
<1>4. LineLength(win, syn) \in Nat
  BY <1>2, <1>3 DEF LineLength
<1>5. DOMAIN Line(win, syn) = 1 .. LineLength(win, syn)
  BY DEF Line
<1>6. QED
  BY <1>1, <1>2, <1>3, <1>4, <1>5

(* Around the ring *)
LEMMA RingOffset ==
    ASSUME NEW w \in Nat, NEW i \in 0 .. w - 1, NEW s \in 1 .. w, NEW k \in 1 .. w,
           NEW j, j = (IF i + s < w THEN i + s ELSE i + s - w),
           NEW p, p = (IF j + (k - 1) < w THEN j + (k - 1) ELSE j + (k - 1) - w),
           NEW o, o = (IF p >= i THEN p - i ELSE p - i + w)
    PROVE  /\ p \in 0 .. w - 1
           /\ k + s <= w => /\ o = (k + s) - 1
                            /\ p = (IF i + ((k + s) - 1) < w THEN i + ((k + s) - 1)
                                    ELSE i + ((k + s) - 1) - w)
           /\ k + s > w => o = ((k + s) - 1) - w
OBVIOUS

LEMMA LineWaits ==
    ASSUME NEW win, IsWindow(win), NEW syn, SynopsisOK(win, syn), NEW t \in Tuples,
           ~Syn!Completes(win, syn)
    PROVE  Extends(LineLength(win, syn), Line(win, syn), t, 0,
                   Line(win, Syn!Enqueued(win, syn, t)))
<1> DEFINE newcomers == Append(syn.newcomers, t)
           next == Syn!Enqueued(win, syn, t)
           m == Len(syn.newcomers)
           old == OldLength(win, syn)
           n == LineLength(win, syn)
<1>1. /\ syn.newcomers \in Seq(Tuples) /\ m \in Nat /\ old \in Nat /\ n \in Nat
      /\ DOMAIN Line(win, syn) = 1 .. n
  BY SynopsisFields
<1>2. /\ Len(newcomers) = m + 1 /\ newcomers[m + 1] = t
      /\ \A k \in 1 .. m : newcomers[k] = syn.newcomers[k]
  BY <1>1, AppendProperties
<1>3. next = [syn EXCEPT !.newcomers = newcomers]
  BY DEF Syn!Enqueued
<1>4. /\ next.newcomers = newcomers /\ next.filled = syn.filled /\ next.tuples = syn.tuples
      /\ next.index = syn.index
  <2>1. syn = [index |-> syn.index, newcomers |-> syn.newcomers, tuples |-> syn.tuples,
               filled |-> syn.filled, beginning |-> syn.beginning]
    BY DEF SynopsisOK, SynopsisType
  <2> HIDE DEF next, newcomers
  <2>2. next = [index |-> syn.index, newcomers |-> newcomers, tuples |-> syn.tuples,
                filled |-> syn.filled, beginning |-> syn.beginning]
    BY <1>3, <2>1
  <2>3. QED
    BY <2>2
<1> HIDE DEF next, newcomers
<1>5. OldLength(win, next) = old
  BY <1>4 DEF OldLength
<1>6. n = old + m
  BY DEF LineLength
<1> HIDE DEF old, m
<1>7. LineLength(win, next) = n + 1
  <2>1. LineLength(win, next) = old + (m + 1)
    BY <1>2, <1>4, <1>5 DEF LineLength
  <2> HIDE DEF n
  <2>2. QED
    BY <1>1, <1>6, <2>1
<1>8. /\ DOMAIN Line(win, next) = 1 .. n + 1
      /\ \A k \in 1 .. n + 1 :
             Line(win, next)[k] =
                 IF k <= old THEN syn.tuples[Syn!SlotAfter(win, syn.index, k - 1)]
                 ELSE newcomers[k - old]
  BY <1>4, <1>5, <1>7 DEF Line
<1>9. \A k \in 1 .. n :
          Line(win, syn)[k] = IF k <= old THEN syn.tuples[Syn!SlotAfter(win, syn.index, k - 1)]
                              ELSE syn.newcomers[k - old]
  BY DEF Line, old
<1> HIDE DEF n
<1>10. ASSUME NEW k \in 1 .. n + 1
       PROVE  Line(win, next)[k] = IF k <= n THEN Line(win, syn)[k] ELSE t
  <2>1. CASE k <= old
    BY <1>1, <1>6, <1>8, <1>9, <2>1
  <2>2. CASE ~(k <= old) /\ k <= n
    <3>1. k - old \in 1 .. m /\ k \in 1 .. n
      BY <1>1, <1>6, <2>2
    <3>2. QED
      BY <1>2, <1>8, <1>9, <2>2, <3>1
  <2>3. CASE ~(k <= n)
    <3>1. k - old = m + 1 /\ ~(k <= old)
      BY <1>1, <1>6, <2>3
    <3>2. QED
      BY <1>2, <1>8, <2>3, <3>1
  <2>4. QED
    BY <2>1, <2>2, <2>3
<1>11. (n + 1) - 0 = n + 1 /\ 0 \in 0 .. n /\ \A k \in 1 .. n + 1 : k + 0 = k
  BY <1>1
<1>12. QED
  BY <1>1, <1>8, <1>10, <1>11 DEF Extends, n, next

LEMMA LineCompletes ==
    ASSUME NEW win, IsWindow(win), NEW syn, SynopsisOK(win, syn), NEW t \in Tuples,
           Syn!Completes(win, syn)
    PROVE  /\ Extends(LineLength(win, syn), Line(win, syn), t, Dropped(win, syn),
                      Line(win, Syn!Enqueued(win, syn, t)))
           /\ LineLength(win, Syn!Enqueued(win, syn, t)) = win.width
           /\ Syn!BeginningTuple(Syn!Enqueued(win, syn, t))
                  \in {Line(win, Syn!Enqueued(win, syn, t))[k] :
                          k \in {1, win.stride + 1} \cap 1 .. win.width}
<1> DEFINE newcomers == Append(syn.newcomers, t)
           next == Syn!Enqueued(win, syn, t)
           w == win.width
           s == win.stride
           i == syn.index
           m == Len(syn.newcomers)
           old == OldLength(win, syn)
           n == LineLength(win, syn)
           d == Dropped(win, syn)
           Offset(k) == IF k >= i THEN k - i ELSE k - i + w
<1>1. /\ syn.newcomers \in Seq(Tuples) /\ m \in Nat /\ old \in Nat /\ n \in Nat
      /\ DOMAIN Line(win, syn) = 1 .. n
      /\ i \in 0 .. w - 1 /\ w \in Nat /\ s \in 1 .. w /\ syn.filled \in BOOLEAN
  BY SynopsisFields
<1>2. /\ Len(newcomers) = m + 1 /\ newcomers[m + 1] = t
      /\ \A k \in 1 .. m : newcomers[k] = syn.newcomers[k]
  BY <1>1, AppendProperties
<1>3. /\ m + 1 = IF syn.filled THEN s ELSE w
      /\ old = IF syn.filled THEN w ELSE 0
      /\ d = IF syn.filled THEN s ELSE 0
      /\ n = old + m
  BY DEF Syn!Completes, Syn!Needed, OldLength, Dropped, LineLength
<1>4. next = Syn!Accepted(win, syn, newcomers)
  BY DEF Syn!Enqueued
<1>5. /\ next.newcomers = <<>> /\ next.filled = TRUE
      /\ next.index = Syn!SlotAfter(win, i, m + 1)
      /\ next.beginning = Syn!SlotAfter(win, i, s)
      /\ \A k \in Syn!Slots(win) :
             next.tuples[k] = IF Offset(k) < m + 1 THEN newcomers[Offset(k) + 1]
                              ELSE syn.tuples[k]
  <2> DEFINE slots == [k \in Syn!Slots(win) |->
                          IF Offset(k) < m + 1 THEN newcomers[Offset(k) + 1] ELSE syn.tuples[k]]
  <2>1. next = [index |-> Syn!SlotAfter(win, i, m + 1), newcomers |-> <<>>,
                tuples |-> slots, filled |-> TRUE, beginning |-> Syn!Beginning(win, syn)]
    BY <1>2, <1>4 DEF Syn!Accepted
  <2> DEFINE after == Syn!SlotAfter(win, i, m + 1)
             begin == Syn!Beginning(win, syn)
  <2> HIDE DEF slots, next, after, begin
  <2>2. next.newcomers = <<>> /\ next.filled = TRUE /\ next.index = after
        /\ next.beginning = begin /\ next.tuples = slots
    BY <2>1 DEF after, begin
  <2>3. begin = Syn!SlotAfter(win, i, s)
    BY DEF begin, Syn!Beginning
  <2>4. \A k \in Syn!Slots(win) : slots[k] = IF Offset(k) < m + 1 THEN newcomers[Offset(k) + 1]
                                             ELSE syn.tuples[k]
    BY DEF slots
  <2>5. QED
    BY <2>2, <2>3, <2>4 DEF after
<1> HIDE DEF next, newcomers
<1>6. OldLength(win, next) = w /\ LineLength(win, next) = w
  <2>1. OldLength(win, next) = w
    BY <1>5 DEF OldLength
  <2>2. LineLength(win, next) = w + 0
    BY <1>5, <2>1 DEF LineLength
  <2> HIDE DEF w
  <2>3. QED
    BY <1>1, <2>1, <2>2
<1>7. /\ DOMAIN Line(win, next) = 1 .. w
      /\ \A k \in 1 .. w :
             Line(win, next)[k] = next.tuples[Syn!SlotAfter(win, next.index, k - 1)]
  BY <1>1, <1>6 DEF Line
<1>8. \A k \in 1 .. n :
          Line(win, syn)[k] = IF k <= old THEN syn.tuples[Syn!SlotAfter(win, i, k - 1)]
                              ELSE syn.newcomers[k - old]
  BY DEF Line
<1> HIDE DEF n, old, d, m
<1>9. w = (n + 1) - d /\ d \in 0 .. n
  <2> HIDE DEF w, s
  <2>1. QED
    BY <1>1, <1>3
<1>10. ASSUME NEW k \in 1 .. w
       PROVE  Line(win, next)[k] = IF k + d <= n THEN Line(win, syn)[k + d] ELSE t
  <2> DEFINE j == IF i + (m + 1) < w THEN i + (m + 1) ELSE i + (m + 1) - w
             p == IF j + (k - 1) < w THEN j + (k - 1) ELSE j + (k - 1) - w
             o == IF p >= i THEN p - i ELSE p - i + w
  <2>1. next.index = j /\ Syn!SlotAfter(win, next.index, k - 1) = p /\ Offset(p) = o
    BY <1>5 DEF Syn!SlotAfter
  <2>2. m + 1 \in 1 .. w
    <3> HIDE DEF w, s
    <3>1. QED
      BY <1>1, <1>3
  <2>3. /\ p \in 0 .. w - 1
        /\ k + (m + 1) <= w =>
               /\ o = (k + (m + 1)) - 1
               /\ p = (IF i + ((k + (m + 1)) - 1) < w THEN i + ((k + (m + 1)) - 1)
                       ELSE i + ((k + (m + 1)) - 1) - w)
        /\ k + (m + 1) > w => o = ((k + (m + 1)) - 1) - w
    <3> HIDE DEF w, i
    <3>1. QED
      BY ONLY <1>1, <2>2, k \in 1 .. w
  <2>4. Line(win, next)[k] = IF o < m + 1 THEN newcomers[o + 1] ELSE syn.tuples[p]
    <3>1. p \in Syn!Slots(win)
      BY <2>3 DEF Syn!Slots
    <3> HIDE DEF p, o, j
    <3>2. QED
      BY <1>5, <1>7, <1>10, <2>1, <3>1
  <2>5. Syn!SlotAfter(win, i, (k + (m + 1)) - 1) =
            IF i + ((k + (m + 1)) - 1) < w THEN i + ((k + (m + 1)) - 1)
            ELSE i + ((k + (m + 1)) - 1) - w
    BY DEF Syn!SlotAfter
  <2> HIDE DEF w, s, i, j, p, o, Offset
  <2>6. CASE k + (m + 1) <= w
    <3>1. ~(o < m + 1) /\ syn.filled /\ d = m + 1 /\ old = w
      BY <1>1, <1>3, <1>10, <2>3, <2>6
    <3>2. k + d <= n /\ k + d \in 1 .. n /\ k + d <= old
      BY <1>1, <1>3, <1>10, <2>6, <3>1
    <3>3. Line(win, syn)[k + d] = syn.tuples[Syn!SlotAfter(win, i, (k + d) - 1)]
      BY <1>8, <3>2
    <3>4. QED
      BY <2>3, <2>4, <2>5, <2>6, <3>1, <3>2, <3>3
  <2>7. CASE ~(k + (m + 1) <= w)
    <3>1. o = ((k + (m + 1)) - 1) - w /\ o < m + 1 /\ o + 1 \in 1 .. m + 1
      BY <1>1, <1>10, <2>2, <2>3, <2>7
    <3>2. Line(win, next)[k] = newcomers[o + 1]
      BY <2>4, <3>1
    <3>3. o + 1 = (k + d) - old /\ ((k + d <= n) <=> (o + 1 <= m)) /\ ~(k + d <= old)
      BY <1>1, <1>3, <1>10, <3>1
    <3>4. CASE k + d <= n
      <4>1. k + d \in 1 .. n /\ o + 1 \in 1 .. m
        BY <1>1, <1>9, <1>10, <3>1, <3>3, <3>4
      <4>2. Line(win, syn)[k + d] = syn.newcomers[o + 1]
        BY <1>8, <3>3, <4>1
      <4>3. QED
        BY <1>2, <3>2, <3>4, <4>1, <4>2
    <3>5. CASE ~(k + d <= n)
      <4>1. o + 1 = m + 1
        BY <1>1, <3>1, <3>3, <3>5
      <4>2. QED
        BY <1>2, <3>2, <3>5, <4>1
    <3>6. QED
      BY <3>4, <3>5
  <2>8. QED
    BY <2>6, <2>7
<1>11. Extends(n, Line(win, syn), t, d, Line(win, next))
  <2> HIDE DEF w
  <2>1. QED
    BY <1>1, <1>7, <1>9, <1>10 DEF Extends
<1>12. Syn!BeginningTuple(next) \in {Line(win, next)[k] : k \in {1, s + 1} \cap 1 .. w}
  <2>1. Syn!BeginningTuple(next) = next.tuples[Syn!SlotAfter(win, i, s)]
    BY <1>5 DEF Syn!BeginningTuple
  <2> DEFINE Wrapped(a) == IF a < w THEN a ELSE a - w
  <2>2. /\ Syn!SlotAfter(win, i, s) = Wrapped(i + s)
        /\ next.index = Wrapped(i + (m + 1))
        /\ \A k \in 1 .. w : Syn!SlotAfter(win, next.index, k - 1) =
                              Wrapped(Wrapped(i + (m + 1)) + (k - 1))
    <3>1. ASSUME NEW a \in Int, NEW b \in Int PROVE Syn!SlotAfter(win, a, b) = Wrapped(a + b)
      <4> HIDE DEF s, i
      <4>1. w \in Nat
        BY <1>1
      <4>2. QED
        BY ONLY <4>1, a \in Int, b \in Int DEF Syn!SlotAfter, w
    <3>2. i \in Int /\ s \in Int /\ m + 1 \in Int /\ \A k \in 1 .. w : k - 1 \in Int
      <4> HIDE DEF w, s, i
      <4>1. QED
        BY <1>1
    <3>3. next.index = Wrapped(i + (m + 1)) /\ Syn!SlotAfter(win, i, s) = Wrapped(i + s)
      <4> HIDE DEF Wrapped
      <4>1. QED
        BY <1>5, <3>1, <3>2
    <3>4. Wrapped(i + (m + 1)) \in Int
      <4> HIDE DEF w, s, i
      <4>1. QED
        BY <1>1, <3>2
    <3> HIDE DEF Wrapped
    <3>5. QED
      BY <3>1, <3>2, <3>3, <3>4
  <2>3. 1 \in 1 .. w
    <3> HIDE DEF w, s
    <3>1. QED
      BY <1>1
  <2>4. CASE syn.filled \/ s = w
    <3>1. Wrapped(Wrapped(i + (m + 1)) + (1 - 1)) = Wrapped(i + s)
      <4> HIDE DEF w, s, i
      <4>1. m + 1 = s
        BY <1>3, <2>4
      <4>2. QED
        BY <1>1, <4>1
    <3> HIDE DEF Wrapped
    <3>2. Syn!SlotAfter(win, next.index, 1 - 1) = Syn!SlotAfter(win, i, s)
      BY <2>2, <2>3, <3>1
    <3>3. Line(win, next)[1] = Syn!BeginningTuple(next)
      BY <1>7, <2>1, <2>3, <3>2
    <3>4. QED
      BY <2>3, <3>3
  <2>5. CASE ~syn.filled /\ s # w
    <3>1. s + 1 \in 1 .. w /\ Wrapped(Wrapped(i + (m + 1)) + ((s + 1) - 1)) = Wrapped(i + s)
      <4> HIDE DEF w, s, i
      <4>1. m + 1 = w
        BY <1>3, <2>5
      <4>2. QED
        BY <1>1, <2>5, <4>1
    <3> HIDE DEF Wrapped
    <3>2. Syn!SlotAfter(win, next.index, (s + 1) - 1) = Syn!SlotAfter(win, i, s)
      BY <2>2, <3>1
    <3>3. Line(win, next)[s + 1] = Syn!BeginningTuple(next)
      BY <1>7, <2>1, <3>1, <3>2
    <3>4. QED
      BY <3>1, <3>3
  <2>6. QED
    BY <2>4, <2>5
<1>13. QED
  BY <1>6, <1>11, <1>12 DEF next, n, d

LEMMA ExtendedInOrder ==
    ASSUME NEW n, NEW line, NEW t \in Tuples, NEW d, NEW next, Extends(n, line, t, d, next),
           NEW strms, NEW last, LineInOrder(line, strms, last),
           t # EndOfStream, UpTo(t, last), \A u \in RangeOf(line) : Before(u, t),
           \A i \in 0 .. NumOps - 1 : \A u \in RangeOf(strms[i].queue) : Before(t, u)
    PROVE  /\ LineInOrder(next, strms, last)
           /\ RangeOf(next) \subseteq RangeOf(line) \cup {t}
<1>1. /\ n \in Nat /\ d \in 0 .. n
      /\ DOMAIN line = 1 .. n /\ DOMAIN next = 1 .. (n + 1) - d
      /\ \A k \in 1 .. (n + 1) - d : next[k] = IF k + d <= n THEN line[k + d] ELSE t
  BY DEF Extends
<1>2. RangeOf(next) \subseteq RangeOf(line) \cup {t}
  <2>1. ASSUME NEW k \in 1 .. (n + 1) - d, k + d <= n PROVE k + d \in 1 .. n
    BY <1>1, <2>1
  <2>2. QED
    BY <1>1, <2>1 DEF RangeOf
<1>3. ASSUME NEW k \in DOMAIN next, NEW l \in DOMAIN next, k < l PROVE Before(next[k], next[l])
  <2>1. k \in 1 .. (n + 1) - d /\ l \in 1 .. (n + 1) - d
    BY <1>1, <1>3
  <2>2. k + d \in 1 .. n /\ next[k] = line[k + d]
    <3>1. k + d \in 1 .. n /\ k + d <= n
      BY <1>1, <1>3, <2>1
    <3>2. QED
      BY <1>1, <2>1, <3>1
  <2>3. CASE l + d <= n
    <3>1. l + d \in 1 .. n /\ k + d < l + d
      BY <1>1, <1>3, <2>1, <2>3
    <3>2. next[l] = line[l + d]
      BY <1>1, <2>1, <2>3
    <3>3. QED
      BY <1>1, <2>2, <3>1, <3>2 DEF LineInOrder, Sorted
  <2>4. CASE ~(l + d <= n)
    <3>1. next[l] = t
      BY <1>1, <2>1, <2>4
    <3>2. line[k + d] \in RangeOf(line)
      BY <1>1, <2>2 DEF RangeOf
    <3>3. QED
      BY <2>2, <3>1, <3>2
  <2>5. QED
    BY <2>3, <2>4
<1>4. \A u \in RangeOf(next) :
          /\ u \in Tuples /\ u # EndOfStream /\ UpTo(u, last)
          /\ \A i \in 0 .. NumOps - 1 : \A v \in RangeOf(strms[i].queue) : Before(u, v)
  BY <1>2 DEF LineInOrder
<1>5. QED
  BY <1>2, <1>3, <1>4 DEF LineInOrder, Sorted
-----------------------------------------------------------------------------
(* The backup covers what a redo needs. *)

(* Streams that have the same backup, or more, and lead to less *)
LEMMA FewerCovered ==
    ASSUME NEW strms, NEW line, NEW spare, Covered(strms, line, spare), NEW less,
           EndsBackup(less[RedoStream]),
           RangeOf(strms[RedoStream].backup) \subseteq RangeOf(less[RedoStream].backup),
           \A j \in RedoLeaf .. NumOps - 1 : \A t \in RangeOf(less[j].queue) :
               t \in RangeOf(strms[j].queue) \/ (t # EndOfStream => BackedUp(t, strms))
    PROVE  Covered(less, line, spare)
<1>1. \A t : BackedUp(t, strms) => BackedUp(t, less)
  BY DEF BackedUp
<1>2. QED
  BY <1>1 DEF Covered

(* A step that changes neither streams nor window but what has been sent *)
LEMMA BackupStays ==
    ASSUME conf' = conf, StreamsInOrder(streams', sent'),
           LineInOrder(Line(conf.win, synopsis'), streams', sent'),
           Covered(streams', Line(conf.win, synopsis'), Spare')
    PROVE  BackupInv'
<1>0. Gap' = Gap
  BY GapStays
<1>1. NumOps' = NumOps /\ RedoLeaf' = RedoLeaf /\ RedoStream' = RedoStream
  BY PlanStays
<1>2. StreamsInOrder(streams, sent)'
  BY <1>0, <1>1 DEF StreamsInOrder, Sorted, Before, UpTo
<1>3. Line(conf.win, synopsis)' = Line(conf.win, synopsis')
  BY DEF Line, LineLength, OldLength
<1>4. LineInOrder(Line(conf.win, synopsis), streams, sent)'
  BY <1>0, <1>1, <1>3 DEF LineInOrder, Sorted, Before, UpTo
<1>5. \A t : BackedUp(t, streams)' <=> BackedUp(t, streams')
  BY <1>1 DEF BackedUp
<1>6. Covered(streams, Line(conf.win, synopsis), Spare)'
  <2>1. PICK line, spare : line = Line(conf.win, synopsis') /\ spare = Spare'
    OBVIOUS
  <2>2. Covered(streams', line, spare)
    BY <2>1
  <2>3. /\ EndsBackup(streams'[RedoStream])
        /\ \A j \in RedoLeaf .. NumOps - 1 :
               \A t \in RangeOf(streams'[j].queue) : t # EndOfStream => BackedUp(t, streams')
        /\ \A k \in DOMAIN line : k > spare => BackedUp(line[k], streams')
    BY <2>2 DEF Covered
  <2>4. line = Line(conf.win, synopsis)' /\ spare = Spare'
    BY <1>3, <2>1
  <2>5. EndsBackup(streams[RedoStream])'
    BY <1>1, <2>3 DEF EndsBackup
  <2>6. (\A j \in RedoLeaf .. NumOps - 1 :
            \A t \in RangeOf(streams[j].queue) : t # EndOfStream => BackedUp(t, streams))'
    BY <1>1, <1>5, <2>3
  <2>7. (\A k \in DOMAIN Line(conf.win, synopsis) :
            k > Spare => BackedUp(Line(conf.win, synopsis)[k], streams))'
    BY <1>5, <2>3, <2>4
  <2>8. QED
    BY <2>5, <2>6, <2>7 DEF Covered
<1>7. QED
  BY <1>2, <1>4, <1>6 DEF BackupInv

LEMMA QueryRests ==
    ASSUME BackupInv, UNCHANGED <<conf, sent, streams, synopsis>> PROVE BackupInv'
<1>1. Spare' = Spare
  BY DEF Spare
<1>2. QED
  BY <1>1, BackupStays DEF BackupInv

LEMMA RedoPlace ==
    ASSUME TypeOK
    PROVE  /\ conf \in Configurations /\ NumOps \in Nat /\ NumOps >= 3
           /\ RedoStream \in 1 .. NumOps - 2 /\ RedoLeaf = RedoStream + 1
           /\ turn \in 1 .. NumOps
           /\ IsWindow(conf.win) /\ SynopsisOK(conf.win, synopsis)
           /\ StreamsOK(streams) /\ \A j \in 0 .. NumOps - 1 : streams[j] \in StreamType
           /\ sent \in Nat /\ NumTuples \in Nat
<1>1. conf \in Configurations
  BY DEF TypeOK
<1>2. NumOps \in Nat /\ NumOps >= 3 /\ RedoLeaf \in 2 .. NumOps - 1 /\ IsWindow(conf.win)
  BY <1>1, PlanShape, LeafIsFirst DEF IsWindow
<1>3. RedoStream \in 1 .. NumOps - 2 /\ RedoLeaf = RedoStream + 1
  BY <1>2 DEF RedoStream
<1>4. NumTuples \in Nat /\ sent \in Nat
  BY ConstantsAssumption DEF TypeOK
<1>5. QED
  BY <1>1, <1>2, <1>3, <1>4 DEF TypeOK, StreamsOK, Ops

(* The first tuple of a stream behind the redo stream is backed up, and of *)
(* the redo stream too.                                                    *)
LEMMA HeadBackedUp ==
    ASSUME TypeOK, BackupInv, NEW k \in RedoStream .. NumOps - 1, streams[k].queue # <<>>,
           Head(streams[k].queue) # EndOfStream
    PROVE  BackedUp(Head(streams[k].queue), streams)
<1> DEFINE h == Head(streams[k].queue)
<1>1. k \in 0 .. NumOps - 1 /\ (k # RedoStream => k \in RedoLeaf .. NumOps - 1)
  BY RedoPlace
<1>2. streams[k] \in StreamType /\ streams[k].queue \in Seq(Messages)
  BY <1>1, RedoPlace DEF StreamType
<1>3. h \in RangeOf(streams[k].queue)
  BY <1>2 DEF RangeOf
<1>4. CASE k = RedoStream
  <2>1. h \in RangeOf(streams[RedoStream].backup)
    BY <1>2, <1>4, DequeuedEndsBackup DEF BackupInv, Covered
  <2>2. QED
    BY <2>1 DEF BackedUp
<1>5. CASE k # RedoStream
  BY <1>1, <1>3, <1>5 DEF BackupInv, Covered
<1>6. QED
  BY <1>4, <1>5

(* An operator other than the mean takes a tuple, and makes of it tuples   *)
(* with the same arrival time, if any.                                     *)
LEMMA OutputBacked ==
    ASSUME TypeOK, BackupInv, turn # NumOps, InputOf(turn) # <<>>,
           NEW tuples \in Seq(Messages), Output(tuples),
           Sorted(tuples),
           \A u \in RangeOf(tuples) :
               /\ u = EndOfStream <=> HeadTuple = EndOfStream
               /\ u # EndOfStream => u.arrived = HeadTuple.arrived,
           UNCHANGED <<conf, sent, synopsis>>
    PROVE  BackupInv'
<1>1. PICK from, head, line : /\ from = turn - 1 /\ head = HeadTuple
                              /\ line = Line(conf.win, synopsis)
  OBVIOUS
<1> DEFINE taken == [streams EXCEPT ![from] = Dequeued(@)]
           put == [taken EXCEPT ![turn] = Enqueued(@, tuples)]
<1>2. /\ NumOps \in Nat /\ turn \in 1 .. NumOps - 1 /\ from \in 0 .. NumOps - 1
      /\ turn \in 0 .. NumOps - 1 /\ from # turn /\ turn = from + 1
      /\ conf \in Configurations /\ StreamsOK(streams)
      /\ RedoStream \in 1 .. NumOps - 2 /\ RedoLeaf = RedoStream + 1
  BY <1>1, RedoPlace
<1>3. /\ streams \in [0 .. NumOps - 1 -> StreamType] /\ streams[from].queue # <<>>
      /\ head = Head(streams[from].queue)
  BY <1>1, <1>2 DEF StreamsOK, InputOf, HeadTuple
<1>4. streams' = put
  <2>1. streams' = [streams EXCEPT ![from] = Dequeued(@), ![turn] = Enqueued(@, tuples)]
    BY <1>1 DEF Output
  <2>2. QED
    BY <1>2, <1>3, <2>1
<1>5. StreamsInOrder(streams, sent) /\ LineInOrder(line, streams, sent)
  BY <1>1 DEF BackupInv
<1>6. PICK rest : rest = taken
  OBVIOUS
<1>7. /\ StreamsOK(rest)
      /\ \A j \in 0 .. NumOps - 1 : j # from => rest[j] = streams[j]
      /\ rest[from].backup = streams[from].backup
      /\ head \in Messages
  <2>1. /\ StreamsOK(streams) /\ from \in 0 .. NumOps - 1 /\ streams[from].queue # <<>>
        /\ rest = [streams EXCEPT ![from] = Dequeued(@)]
    BY <1>2, <1>3, <1>6
  <2>2. StreamsOK(rest)
    BY ONLY <2>1, TakingKeepsStreams
  <2>3. \A j \in 0 .. NumOps - 1 : j # from => rest[j] = streams[j]
    BY ONLY <2>1, TakingKeepsStreams
  <2>4. rest[from].backup = streams[from].backup
    BY ONLY <2>1, TakingKeepsStreams
  <2>5. Head(streams[from].queue) \in Messages
    BY ONLY <2>1, TakingKeepsStreams
  <2>6. QED
    BY <1>3, <2>2, <2>3, <2>4, <2>5
<1>8. /\ StreamsInOrder(rest, sent) /\ LineInOrder(line, rest, sent)
      /\ UpTo(head, sent)
      /\ \A j \in 0 .. NumOps - 1 :
             /\ j > from => \A t \in Held(rest[j]) : Before(t, head)
             /\ j <= from => \A u \in RangeOf(rest[j].queue) : Before(head, u)
      /\ \A t \in RangeOf(line) : Before(t, head)
  <2>1. /\ StreamsOK(streams) /\ from \in 0 .. NumOps - 1 /\ streams[from].queue # <<>>
        /\ rest = [streams EXCEPT ![from] = Dequeued(@)] /\ conf \in Configurations
        /\ StreamsInOrder(streams, sent) /\ LineInOrder(line, streams, sent)
    BY <1>2, <1>3, <1>5, <1>6
  <2>2. /\ StreamsInOrder(rest, sent) /\ LineInOrder(line, rest, sent)
        /\ UpTo(Head(streams[from].queue), sent)
        /\ \A j \in 0 .. NumOps - 1 :
               /\ j > from => \A t \in Held(rest[j]) : Before(t, Head(streams[from].queue))
               /\ j <= from =>
                      \A u \in RangeOf(rest[j].queue) : Before(Head(streams[from].queue), u)
        /\ \A t \in RangeOf(line) : Before(t, Head(streams[from].queue))
    BY ONLY <2>1, TakingInOrder
  <2>3. QED
    BY <1>3, <2>2
<1>9. streams' = [rest EXCEPT ![turn] = Enqueued(@, tuples)]
  BY <1>4, <1>6
<1> HIDE DEF taken, put
<1>10. \A u \in RangeOf(tuples) :
           /\ u = EndOfStream <=> head = EndOfStream
           /\ u # EndOfStream => u.arrived = head.arrived
  BY <1>1
<1>11. Sorted(tuples)
  OBVIOUS
<1>12. \A u \in RangeOf(tuples) :
           /\ UpTo(u, sent)
           /\ \A j \in 0 .. NumOps - 1 :
                  /\ j >= turn => \A t \in Held(rest[j]) : Before(t, u)
                  /\ j < turn => \A v \in RangeOf(rest[j].queue) : Before(u, v)
           /\ \A t \in RangeOf(line) : Before(t, u)
  <2>1. ASSUME NEW u \in RangeOf(tuples) PROVE UpTo(u, sent)
    BY <1>8, <1>10, <2>1 DEF UpTo
  <2>2. ASSUME NEW u \in RangeOf(tuples), NEW t, Before(t, head) PROVE Before(t, u)
    BY <1>10, <2>2 DEF Before
  <2>3. ASSUME NEW u \in RangeOf(tuples), NEW t, Before(head, t) PROVE Before(u, t)
    BY <1>10, <2>3 DEF Before
  <2>4. \A j \in 0 .. NumOps - 1 : (j >= turn => j > from) /\ (j < turn => j <= from)
    BY <1>2
  <2>5. QED
    BY <1>8, <2>1, <2>2, <2>3, <2>4
<1>13. StreamsInOrder(streams', sent) /\ LineInOrder(line, streams', sent)
  <2>1. PICK out : out = streams'
    OBVIOUS
  <2>2. out = [rest EXCEPT ![turn] = Enqueued(@, tuples)]
    BY <1>9, <2>1
  <2>3. StreamsInOrder(out, sent) /\ LineInOrder(line, out, sent)
    BY ONLY <1>2, <1>7, <1>8, <1>11, <1>12, <2>2, tuples \in Seq(Messages), PuttingInOrder
  <2>4. QED
    BY <2>1, <2>3
<1>14. streams'[turn] = Enqueued(streams[turn], tuples)
       /\ streams'[from] = Dequeued(streams[from])
       /\ \A j \in 0 .. NumOps - 1 : j \notin {from, turn} => streams'[j] = streams[j]
  BY <1>2, <1>3, <1>4 DEF taken, put
<1>15. \A j \in 0 .. NumOps - 1 : streams[j] \in StreamType
  BY <1>3
<1>16. EndsBackup(streams[RedoStream]) /\ streams[RedoStream].backed
  <2>1. EndsBackup(streams[RedoStream])
    BY DEF BackupInv, Covered
  <2>2. RedoStream \in 0 .. NumOps - 1
    BY <1>2
  <2>3. streams[RedoStream].backed
    BY <1>2, <2>2 DEF StreamsOK
  <2>4. QED
    BY <2>1, <2>3
<1>17. EndsBackup(streams'[RedoStream])
  <2>1. CASE from = RedoStream
    BY <1>2, <1>3, <1>14, <1>15, <1>16, <2>1, DequeuedEndsBackup
  <2>2. CASE turn = RedoStream
    BY <1>2, <1>14, <1>15, <1>16, <2>2, EnqueuedEndsBackup
  <2>3. CASE RedoStream \notin {from, turn}
    BY <1>2, <1>14, <1>16, <2>3
  <2>4. QED
    BY <2>1, <2>2, <2>3
<1>18. RangeOf(streams[RedoStream].backup) \subseteq RangeOf(streams'[RedoStream].backup)
  <2>1. CASE from = RedoStream
    BY <1>2, <1>3, <1>14, <1>15, <2>1, DequeuedStream
  <2>2. CASE turn = RedoStream
    <3>1. PICK s : s = streams[RedoStream]
      OBVIOUS
    <3>2. s \in StreamType /\ tuples \in Seq(Messages)
      BY <1>2, <1>15, <3>1
    <3>3. RangeOf(s.backup) \subseteq RangeOf(Enqueued(s, tuples).backup)
      BY ONLY <3>2, EnqueuedEndsBackup
    <3>4. QED
      BY <1>14, <2>2, <3>1, <3>3
  <2>3. CASE RedoStream \notin {from, turn}
    BY <1>2, <1>14, <2>3
  <2>4. QED
    BY <2>1, <2>2, <2>3
<1>19. ASSUME NEW j \in RedoLeaf .. NumOps - 1, NEW t \in RangeOf(streams'[j].queue)
       PROVE  t \in RangeOf(streams[j].queue) \/ (t # EndOfStream => BackedUp(t, streams))
  <2>0. j \in 0 .. NumOps - 1 /\ j > RedoStream
    BY <1>2, <1>19
  <2>1. CASE j = from
    <3>1. PICK s : s = streams[from]
      OBVIOUS
    <3>2. s \in StreamType /\ s.queue # <<>> /\ s.queue \in Seq(Messages) /\ Sorted(s.queue)
      BY <1>2, <1>3, <1>5, <3>1 DEF StreamsInOrder, StreamType
    <3>3. Dequeued(s).queue = Tail(s.queue)
      <4>1. s = [queue |-> s.queue, backup |-> s.backup, backed |-> s.backed]
        BY <3>2 DEF StreamType
      <4>2. Dequeued(s) = [s EXCEPT !.queue = Tail(s.queue)]
        BY DEF Dequeued
      <4>3. QED
        BY <4>1, <4>2
    <3>4. RangeOf(Tail(s.queue)) \subseteq RangeOf(s.queue)
      BY <3>2, TailSorted
    <3>5. QED
      BY <1>14, <1>19, <2>1, <3>1, <3>3, <3>4
  <2>2. CASE j = turn
    <3>1. PICK s : s = streams[turn]
      OBVIOUS
    <3>2. s \in StreamType /\ tuples \in Seq(Messages)
      BY <1>2, <1>15, <3>1
    <3>3. RangeOf(Enqueued(s, tuples).queue) = RangeOf(s.queue) \cup RangeOf(tuples)
      BY ONLY <3>2, EnqueuedEndsBackup
    <3>4. t \in RangeOf(streams[turn].queue) \/ t \in RangeOf(tuples)
      BY <1>14, <1>19, <2>2, <3>1, <3>3
    <3>5. from \in RedoStream .. NumOps - 1
      BY <1>2, <2>0, <2>2
    <3>6. head # EndOfStream => BackedUp(head, streams)
      BY <1>3, <3>5, HeadBackedUp
    <3>7. QED
      BY <1>10, <2>2, <3>4, <3>6 DEF BackedUp
  <2>3. CASE j \notin {from, turn}
    BY <1>14, <1>19, <2>0, <2>3
  <2>4. QED
    BY <2>1, <2>2, <2>3
<1>20. Covered(streams', line, Spare)
  <2>1. Covered(streams, line, Spare)
    BY <1>1 DEF BackupInv
  <2>2. QED
    BY <1>17, <1>18, <1>19, <2>1, FewerCovered
<1>21. Spare' = Spare /\ Line(conf.win, synopsis') = line
  BY <1>1 DEF Spare
<1>22. QED
  BY <1>13, <1>20, <1>21, BackupStays
-----------------------------------------------------------------------------
(* The mean's calls *)

Taken == [streams EXCEPT ![NumOps - 1] = Dequeued(@)]

LEMMA TakenBacked ==
    ASSUME TypeOK, BackupInv, turn = NumOps, InputOf(turn) # <<>>, NEW line,
           line = Line(conf.win, synopsis)
    PROVE  /\ StreamsOK(Taken) /\ HeadTuple \in Messages
           /\ StreamsInOrder(Taken, sent) /\ LineInOrder(line, Taken, sent)
           /\ Covered(Taken, line, Spare)
           /\ UpTo(HeadTuple, sent)
           /\ \A t \in RangeOf(line) : Before(t, HeadTuple)
           /\ \A j \in 0 .. NumOps - 1 :
                  \A u \in RangeOf(Taken[j].queue) : Before(HeadTuple, u)
           /\ HeadTuple # EndOfStream => BackedUp(HeadTuple, Taken)
<1>1. PICK last, head : last = NumOps - 1 /\ head = HeadTuple
  OBVIOUS
<1>2. /\ NumOps \in Nat /\ last \in 0 .. NumOps - 1 /\ conf \in Configurations
      /\ StreamsOK(streams) /\ RedoStream \in 0 .. NumOps - 1 /\ RedoStream < last
      /\ last \in RedoStream .. NumOps - 1
      /\ RedoLeaf = RedoStream + 1 /\ \A j \in 0 .. NumOps - 1 : j <= last
      /\ streams[last] \in StreamType /\ streams \in [0 .. NumOps - 1 -> StreamType]
  <2>1. /\ NumOps \in Nat /\ NumOps >= 3 /\ conf \in Configurations /\ StreamsOK(streams)
        /\ RedoStream \in 1 .. NumOps - 2 /\ RedoLeaf = RedoStream + 1
        /\ \A j \in 0 .. NumOps - 1 : streams[j] \in StreamType
    BY RedoPlace
  <2>2. /\ last \in 0 .. NumOps - 1 /\ RedoStream \in 0 .. NumOps - 1 /\ RedoStream < last
        /\ last \in RedoStream .. NumOps - 1 /\ \A j \in 0 .. NumOps - 1 : j <= last
    BY <1>1, <2>1
  <2>3. QED
    BY <2>1, <2>2 DEF StreamsOK
<1>3. streams[last].queue # <<>> /\ head = Head(streams[last].queue)
  BY <1>1 DEF InputOf, HeadTuple
<1>4. StreamsInOrder(streams, sent) /\ LineInOrder(line, streams, sent)
      /\ Covered(streams, line, Spare)
  BY DEF BackupInv
<1>5. PICK rest : rest = Taken
  OBVIOUS
<1>6. rest = [streams EXCEPT ![last] = Dequeued(@)]
  BY <1>1, <1>5 DEF Taken
<1>7. /\ StreamsOK(rest) /\ head \in Messages
      /\ \A j \in 0 .. NumOps - 1 : j # last => rest[j] = streams[j]
  <2>1. StreamsOK(rest)
    BY ONLY <1>2, <1>3, <1>6, TakingKeepsStreams
  <2>2. \A j \in 0 .. NumOps - 1 : j # last => rest[j] = streams[j]
    BY ONLY <1>2, <1>3, <1>6, TakingKeepsStreams
  <2>3. head \in Messages
    BY <1>2, <1>3, DequeuedStream
  <2>4. QED
    BY <2>1, <2>2, <2>3
<1>8. /\ StreamsInOrder(rest, sent) /\ LineInOrder(line, rest, sent)
      /\ UpTo(head, sent)
      /\ \A j \in 0 .. NumOps - 1 :
             j <= last => \A u \in RangeOf(rest[j].queue) : Before(head, u)
      /\ \A t \in RangeOf(line) : Before(t, head)
  <2>1. /\ StreamsInOrder(rest, sent) /\ LineInOrder(line, rest, sent)
        /\ UpTo(Head(streams[last].queue), sent)
        /\ \A j \in 0 .. NumOps - 1 :
               j <= last =>
                   \A u \in RangeOf(rest[j].queue) : Before(Head(streams[last].queue), u)
        /\ \A t \in RangeOf(line) : Before(t, Head(streams[last].queue))
    BY ONLY <1>2, <1>3, <1>4, <1>6, TakingInOrder
  <2>2. QED
    BY <1>3, <2>1
<1>9. rest[RedoStream] = streams[RedoStream] /\ rest[last] = Dequeued(streams[last])
  BY <1>2, <1>6, <1>7
<1>10. RangeOf(rest[last].queue) \subseteq RangeOf(streams[last].queue)
  <2>1. PICK s : s = streams[last]
    OBVIOUS
  <2>2. s \in StreamType /\ s.queue # <<>> /\ s.queue \in Seq(Messages) /\ Sorted(s.queue)
    BY <1>2, <1>3, <1>4, <2>1 DEF StreamsInOrder, StreamType
  <2>3. Dequeued(s).queue = Tail(s.queue)
    <3>1. s = [queue |-> s.queue, backup |-> s.backup, backed |-> s.backed]
      BY <2>2 DEF StreamType
    <3>2. Dequeued(s) = [s EXCEPT !.queue = Tail(s.queue)]
      BY DEF Dequeued
    <3>3. QED
      BY <3>1, <3>2
  <2>4. RangeOf(Tail(s.queue)) \subseteq RangeOf(s.queue)
    BY <2>2, TailSorted
  <2>5. QED
    BY <1>9, <2>1, <2>3, <2>4
<1>11. Covered(rest, line, Spare)
  <2>1. \A j \in RedoLeaf .. NumOps - 1 : j \in 0 .. NumOps - 1
    BY <1>2
  <2>2. \A j \in RedoLeaf .. NumOps - 1 : RangeOf(rest[j].queue) \subseteq RangeOf(streams[j].queue)
    BY <1>7, <1>10, <2>1
  <2>3. EndsBackup(rest[RedoStream])
    BY <1>4, <1>9 DEF Covered
  <2>4. QED
    BY <1>4, <1>9, <2>2, <2>3, FewerCovered
<1>12. head # EndOfStream => BackedUp(head, rest)
  <2>1. head # EndOfStream => BackedUp(head, streams)
    BY <1>2, <1>3, HeadBackedUp
  <2>2. QED
    BY <1>9, <2>1 DEF BackedUp
<1>13. QED
  BY <1>1, <1>2, <1>5, <1>7, <1>8, <1>11, <1>12

NextSpare ==
    IF ~Syn!Completes(conf.win, synopsis) THEN Spare
    ELSE IF conf.mode = "OPTIMISTIC" THEN conf.win.stride ELSE conf.win.width

(* A tuple that the mean takes into its window, or puts with the newcomers *)
LEMMA NextLineBacked ==
    ASSUME TypeOK, BackupInv, HasData, turn = NumOps, NEW next,
           next = Line(conf.win, NextSynopsis)
    PROVE  LineInOrder(next, Taken, sent) /\ Covered(Taken, next, NextSpare)
<1>1. PICK line, head, n, d : /\ line = Line(conf.win, synopsis) /\ head = HeadTuple
                              /\ n = LineLength(conf.win, synopsis)
                              /\ d = Dropped(conf.win, synopsis)
  OBVIOUS
<1>2. /\ head \in Messages /\ head # EndOfStream
      /\ LineInOrder(line, Taken, sent) /\ Covered(Taken, line, Spare)
      /\ UpTo(head, sent) /\ BackedUp(head, Taken)
      /\ \A t \in RangeOf(line) : Before(t, head)
      /\ \A j \in 0 .. NumOps - 1 : \A u \in RangeOf(Taken[j].queue) : Before(head, u)
  <2>1. InputOf(turn) # <<>> /\ HeadTuple # EndOfStream
    BY DEF HasData
  <2>2. QED
    BY <1>1, <2>1, TakenBacked
<1>3. head \in Tuples /\ IsWindow(conf.win) /\ SynopsisOK(conf.win, synopsis)
  BY <1>2, RedoPlace DEF Messages
<1>4. NextSynopsis = Syn!Enqueued(conf.win, synopsis, head)
  BY <1>1 DEF NextSynopsis
<1>5. Extends(n, line, head, d, next)
  <2>1. CASE Syn!Completes(conf.win, synopsis)
    BY <1>1, <1>3, <1>4, <2>1, LineCompletes
  <2>2. CASE ~Syn!Completes(conf.win, synopsis)
    <3>1. d = 0
      BY <1>1, <2>2 DEF Dropped
    <3>2. QED
      BY <1>1, <1>3, <1>4, <2>2, <3>1, LineWaits
  <2>3. QED
    BY <2>1, <2>2
<1>6. LineInOrder(next, Taken, sent)
  <2>1. PICK rest : rest = Taken
    OBVIOUS
  <2>2. LineInOrder(next, rest, sent)
    BY ONLY <1>2, <1>3, <1>5, <2>1, ExtendedInOrder
  <2>3. QED
    BY <2>1, <2>2
<1>7. /\ n \in Nat /\ d \in 0 .. n
      /\ DOMAIN line = 1 .. n /\ DOMAIN next = 1 .. (n + 1) - d
      /\ \A k \in 1 .. (n + 1) - d : next[k] = IF k + d <= n THEN line[k + d] ELSE head
  BY <1>5 DEF Extends
<1>8. Spare \in Nat
  BY <1>3 DEF Spare, IsWindow
<1>9. ASSUME NEW k \in 1 .. (n + 1) - d, k > NextSpare, k + d <= n PROVE k + d > Spare
  <2>1. CASE ~Syn!Completes(conf.win, synopsis)
    BY <1>1, <1>7, <1>8, <1>9, <2>1 DEF NextSpare, Dropped
  <2>2. CASE Syn!Completes(conf.win, synopsis) /\ ~synopsis.filled
    BY <1>1, <1>7, <1>9, <2>2 DEF Spare, Dropped
  <2>3. CASE Syn!Completes(conf.win, synopsis) /\ synopsis.filled /\ conf.mode = "OPTIMISTIC"
    <3>1. NextSpare = Spare
      BY <2>3 DEF NextSpare, Spare
    <3>2. QED
      BY <1>7, <1>8, <1>9, <3>1
  <2>4. CASE Syn!Completes(conf.win, synopsis) /\ conf.mode # "OPTIMISTIC"
    <3>1. DOMAIN next = 1 .. LineLength(conf.win, NextSynopsis)
          /\ LineLength(conf.win, NextSynopsis) = conf.win.width
      <4>1. LineLength(conf.win, NextSynopsis) = conf.win.width
        BY <1>3, <1>4, <2>4, LineCompletes
      <4>2. QED
        BY <4>1 DEF Line
    <3>2. NextSpare = conf.win.width /\ conf.win.width \in Nat
      BY <1>3, <2>4 DEF NextSpare, IsWindow
    <3>3. QED
      BY <1>7, <1>9, <3>1, <3>2
  <2>5. QED
    BY <2>1, <2>2, <2>3, <2>4
<1>10. ASSUME NEW k \in DOMAIN next, k > NextSpare PROVE BackedUp(next[k], Taken)
  <2>1. CASE k + d <= n
    <3>1. k + d \in DOMAIN line /\ k + d > Spare /\ next[k] = line[k + d]
      <4>1. k + d \in 1 .. n
        BY <1>7, <1>10, <2>1
      <4>2. QED
        BY <1>7, <1>9, <1>10, <2>1, <4>1
    <3>2. QED
      BY <1>2, <3>1 DEF Covered
  <2>2. CASE ~(k + d <= n)
    BY <1>2, <1>7, <1>10, <2>2
  <2>3. QED
    BY <2>1, <2>2
<1>11. Covered(Taken, next, NextSpare)
  BY <1>2, <1>10 DEF Covered
<1>12. QED
  BY <1>6, <1>11

(* What an eviction keeps: whatever has not arrived before the tuple that  *)
(* the latest window begins with.                                          *)
LEMMA EvictionCovers ==
    ASSUME conf \in Configurations, NEW strms, StreamsOK(strms), NEW last,
           StreamsInOrder(strms, last), NEW line, LineInOrder(line, strms, last),
           NEW spare, Covered(strms, line, spare),
           DOMAIN line \subseteq Int, NEW b \in DOMAIN line,
           \A k \in DOMAIN line : k > spare => b <= k,
           NEW evicted,
           evicted = [strms EXCEPT ![RedoStream] = Evicted(@, line[b].arrived)]
    PROVE  Covered(evicted, line, spare)
<1>1. PICK begin : begin = line[b]
  OBVIOUS
<1>2. RedoStream \in 0 .. NumOps - 1 /\ RedoLeaf = RedoStream + 1 /\ NumOps \in Nat
  BY LeafIsFirst, PlanShape DEF RedoStream
<1>3. strms[RedoStream] \in StreamType /\ strms \in [0 .. NumOps - 1 -> StreamType]
  BY <1>2 DEF StreamsOK
<1>4. /\ evicted[RedoStream] = Evicted(strms[RedoStream], begin.arrived)
      /\ \A j \in 0 .. NumOps - 1 : j # RedoStream => evicted[j] = strms[j]
  BY <1>1, <1>2, <1>3
<1>5. /\ begin \in Tuples /\ begin # EndOfStream /\ begin.arrived \in Nat
      /\ \A i \in 0 .. NumOps - 1 : \A u \in RangeOf(strms[i].queue) : Before(begin, u)
  <2>1. begin \in RangeOf(line)
    BY <1>1 DEF RangeOf
  <2>2. QED
    BY <2>1 DEF LineInOrder, Tuples, Arrivals
<1>6. ASSUME NEW u \in Messages, Before(begin, u) PROVE ~OlderThan(u, begin.arrived)
  <2>1. u # EndOfStream => u.arrived \in Nat
    BY <1>6 DEF Messages, Tuples, Arrivals
  <2>2. QED
    BY <1>5, <1>6, <2>1, GapStays DEF Before, OlderThan
<1>7. /\ RangeOf(strms[RedoStream].queue) \subseteq Messages
      /\ RangeOf(strms[RedoStream].backup) \subseteq Messages
  BY <1>3 DEF StreamType, RangeOf
<1>8. EndsBackup(evicted[RedoStream])
  <2>1. \A u \in RangeOf(strms[RedoStream].queue) : ~OlderThan(u, begin.arrived)
    BY <1>2, <1>5, <1>6, <1>7
  <2>2. EndsBackup(strms[RedoStream])
    BY DEF Covered
  <2>3. QED
    BY <1>3, <1>4, <2>1, <2>2, EvictedEndsBackup
<1>9. ASSUME NEW t, t # EndOfStream, BackedUp(t, strms), begin.arrived <= t.arrived
      PROVE  BackedUp(t, evicted)
  <2>1. PICK u \in RangeOf(strms[RedoStream].backup) : u # EndOfStream /\ u.arrived = t.arrived
    BY <1>9 DEF BackedUp
  <2>2. u.arrived \in Nat
    BY <1>7, <2>1 DEF Messages, Tuples, Arrivals
  <2>3. ~OlderThan(u, begin.arrived)
    BY <1>5, <1>9, <2>1, <2>2 DEF OlderThan
  <2>4. Sorted(strms[RedoStream].backup)
    BY <1>2 DEF StreamsInOrder
  <2>5. u \in RangeOf(evicted[RedoStream].backup)
    BY <1>3, <1>4, <2>1, <2>3, <2>4, EvictedKeeps
  <2>6. QED
    BY <2>1, <2>5 DEF BackedUp
<1>10. ASSUME NEW j \in RedoLeaf .. NumOps - 1, NEW t \in RangeOf(evicted[j].queue),
              t # EndOfStream
       PROVE  BackedUp(t, evicted)
  <2>1. j \in 0 .. NumOps - 1 /\ j # RedoStream
    BY <1>2, <1>10
  <2>2. t \in RangeOf(strms[j].queue)
    BY <1>4, <1>10, <2>1
  <2>3. Before(begin, t) /\ t \in Tuples
    <3>1. t \in Messages
      BY <1>10, <2>1, <2>2 DEF StreamsOK, StreamType, RangeOf
    <3>2. QED
      BY <1>5, <1>10, <2>1, <2>2, <3>1 DEF Messages
  <2>4. begin.arrived <= t.arrived
    BY <1>5, <1>10, <2>3, GapStays DEF Before, Tuples, Arrivals
  <2>5. QED
    BY <1>9, <1>10, <2>2, <2>4 DEF Covered
<1>11. ASSUME NEW k \in DOMAIN line, k > spare PROVE BackedUp(line[k], evicted)
  <2>1. BackedUp(line[k], strms) /\ line[k] # EndOfStream /\ line[k] \in Tuples
    <3>1. line[k] \in RangeOf(line)
      BY DEF RangeOf
    <3>2. QED
      BY <1>11, <3>1 DEF Covered, LineInOrder
  <2>2. begin.arrived <= line[k].arrived
    <3>1. CASE b = k
      BY <1>1, <1>5, <3>1
    <3>2. CASE b < k
      <4>1. Before(begin, line[k])
        BY <1>1, <3>2 DEF LineInOrder, Sorted
      <4>2. QED
        BY <1>5, <2>1, <4>1, GapStays DEF Before, Tuples, Arrivals
    <3>3. b = k \/ b < k
      BY <1>11
    <3>4. QED
      BY <3>1, <3>2, <3>3
  <2>3. QED
    BY <1>9, <2>1, <2>2
<1>12. QED
  BY <1>8, <1>10, <1>11 DEF Covered
-----------------------------------------------------------------------------
(* Every step keeps the backup and the order. *)

LEMMA PassEndOfStreamBacked ==
    ASSUME TypeOK, BackupInv, PassEndOfStream PROVE BackupInv'
<1>1. /\ UNCHANGED <<conf, sent, synopsis>> /\ InputOf(turn) # <<>> /\ HeadTuple = EndOfStream
      /\ turn = NumOps => streams' = Taken
      /\ turn # NumOps => Output(<<EndOfStream>>)
  BY DEF PassEndOfStream, TakeTuple, Taken
<1>2. CASE turn = NumOps
  <2>1. PICK line : line = Line(conf.win, synopsis)
    OBVIOUS
  <2>2. StreamsInOrder(Taken, sent) /\ LineInOrder(line, Taken, sent) /\ Covered(Taken, line, Spare)
    BY <1>1, <1>2, <2>1, TakenBacked
  <2>3. Spare' = Spare /\ Line(conf.win, synopsis') = line
    BY <1>1, <2>1 DEF Spare
  <2>4. QED
    BY <1>1, <1>2, <2>2, <2>3, BackupStays
<1>3. CASE turn # NumOps
  <2>1. PICK tuples : tuples = <<EndOfStream>>
    OBVIOUS
  <2>2. tuples \in Seq(Messages) /\ \A u \in RangeOf(tuples) : u = EndOfStream
    BY <2>1 DEF Messages, RangeOf
  <2>5. Sorted(tuples)
    BY <2>1, OneSorted
  <2>3. Output(tuples)
    BY <1>1, <1>3, <2>1
  <2>4. QED
    BY <1>1, <1>3, <2>2, <2>3, <2>5, OutputBacked
<1>4. QED
  BY <1>2, <1>3

LEMMA HeadIsTuple ==
    ASSUME TypeOK, HasData PROVE HeadTuple \in Tuples
<1>1. /\ turn - 1 \in 0 .. NumOps - 1 /\ StreamsOK(streams)
      /\ streams[turn - 1].queue # <<>> /\ HeadTuple # EndOfStream
  BY PlanShape DEF TypeOK, Ops, HasData, InputOf
<1>2. streams[turn - 1] \in StreamType
  BY <1>1 DEF StreamsOK
<1>3. HeadTuple \in Messages
  BY <1>1, <1>2, DequeuedStream DEF HeadTuple, InputOf
<1>4. QED
  BY <1>1, <1>3 DEF Messages

LEMMA ProcessSimpleBacked ==
    ASSUME TypeOK, BackupInv, ProcessSimple PROVE BackupInv'
<1>1. PICK head, tuples : head = HeadTuple /\ tuples = Transformed(turn, HeadTuple)
  OBVIOUS
<1>2. /\ UNCHANGED <<conf, sent, synopsis>> /\ HasData /\ InputOf(turn) # <<>>
      /\ Kind(turn) \in {"adapter", "select", "project"} /\ Output(tuples)
      /\ head # EndOfStream
  BY <1>1 DEF ProcessSimple, HasData
<1>3. turn # NumOps
  BY <1>2, PlanShape DEF TypeOK
<1> DEFINE anew == [head EXCEPT !.tag = NoTag]
<1>4. head \in Tuples
  BY <1>1, <1>2, HeadIsTuple
<1>5. anew \in Tuples /\ anew.arrived = head.arrived
  BY <1>4 DEF Tuples
<1>6. tuples \in {<<>>, <<head>>, <<anew>>}
  BY <1>1, <1>2 DEF Transformed
<1> HIDE DEF anew
<1>7. /\ tuples \in Seq(Messages) /\ Sorted(tuples)
      /\ \A u \in RangeOf(tuples) : u # EndOfStream /\ u.arrived = head.arrived
  <2>1. CASE tuples = <<>>
    BY <2>1 DEF RangeOf, Sorted
  <2>2. ASSUME NEW t \in Tuples, t.arrived = head.arrived, tuples = <<t>>
        PROVE  /\ tuples \in Seq(Messages) /\ Sorted(tuples)
               /\ \A u \in RangeOf(tuples) : u # EndOfStream /\ u.arrived = head.arrived
    <3>1. <<t>> \in Seq(Messages) /\ RangeOf(<<t>>) = {t}
      BY <2>2 DEF Messages, RangeOf
    <3>2. Sorted(<<t>>) /\ t # EndOfStream
      BY <2>2, OneSorted, EndAssumption
    <3>3. QED
      BY <2>2, <3>1, <3>2
  <2>3. QED
    BY <1>4, <1>5, <1>6, <2>1, <2>2
<1>8. QED
  BY <1>1, <1>2, <1>3, <1>7, OutputBacked

LEMMA ProcessCombineBacked ==
    ASSUME TypeOK, BackupInv, ProcessCombine PROVE BackupInv'
<1>1. PICK head, i : head = HeadTuple /\ i = turn
  OBVIOUS
<1> DEFINE r == RelationOf(i)
           version == VersionRead(i)
           n == Matches[r][head.arrived]
           tag == [relation |-> r, version |-> version]
           reads == head.reads \cup {<<i, version>>}
           Made(m) == [head EXCEPT !.part = Append(@, m), !.tag = tag, !.reads = reads]
           tuples == [m \in 1 .. n |-> Made(m)]
<1>2. /\ UNCHANGED <<conf, sent, synopsis>> /\ HasData /\ InputOf(turn) # <<>>
      /\ Kind(i) = "combine" /\ head # EndOfStream
  BY <1>1 DEF ProcessCombine, HasData
<1>3. turn # NumOps /\ i \in Combines /\ r \in Relations /\ head \in Tuples /\ i \in Nat
  <2>1. turn \in Ops /\ conf \in Configurations
    BY DEF TypeOK
  <2>2. i \in Combines /\ turn # NumOps
    BY <1>1, <1>2, <2>1, PlanShape DEF Combines
  <2>3. head \in Tuples
    BY <1>1, <1>2, HeadIsTuple
  <2>4. QED
    BY <2>1, <2>2, <2>3, PlanShape DEF Combines, Ops
<1>4. version \in Versions
  BY <1>1, <1>3 DEF TypeOK, RelationsOK, RelationType, VersionRead
<1>5. n \in Nat /\ tag \in Tags
  <2>1. head.arrived \in Arrivals
    BY <1>3 DEF Tuples
  <2>2. QED
    BY <1>3, <1>4, <2>1, ConstantsAssumption DEF Tags
<1>6. reads \in SUBSET (Nat \X Versions)
  BY <1>3, <1>4 DEF Tuples
<1>7. Output(tuples)
  BY <1>1 DEF ProcessCombine, VersionRead
<1> HIDE DEF n, tag, reads, version, r
<1>8. ASSUME NEW m \in 1 .. n
      PROVE  Made(m) \in Tuples /\ Made(m) \in Messages /\ Made(m).arrived = head.arrived
  <2> DEFINE part == Append(head.part, m)
  <2>1. part \in Seq(Nat)
    BY <1>3, <1>5, <1>8, AppendProperties DEF Tuples
  <2>2. Made(m) = [head EXCEPT !.part = part, !.tag = tag, !.reads = reads]
    OBVIOUS
  <2> HIDE DEF Made, part
  <2>3. QED
    BY <1>3, <1>5, <1>6, <2>1, <2>2 DEF Tuples, Messages
<1> HIDE DEF Made
<1>9. tuples \in Seq(Messages) /\ DOMAIN tuples = 1 .. n
  <2>1. tuples \in [1 .. n -> Messages] /\ DOMAIN tuples = 1 .. n
    BY <1>8
  <2> HIDE DEF tuples
  <2>2. QED
    BY <1>5, <2>1
<1>10. \A u \in RangeOf(tuples) : u # EndOfStream /\ u.arrived = head.arrived
  BY <1>8, <1>9, EndAssumption DEF RangeOf
<1>11. Sorted(tuples)
  <2>1. ASSUME NEW k \in 1 .. n, NEW l \in 1 .. n, k < l
        PROVE  Before(tuples[k], tuples[l])
    <3>1. tuples[k] \in RangeOf(tuples) /\ tuples[l] \in RangeOf(tuples)
      BY <1>9, <2>1 DEF RangeOf
    <3>2. ~(n <= 1)
      BY <1>5, <2>1
    <3>3. head.arrived \in Arrivals
      BY <1>3 DEF Tuples
    <3>4. ~NoTwoMatches
      BY <1>3, <3>2, <3>3 DEF NoTwoMatches, n, r
    <3> HIDE DEF tuples
    <3>5. QED
      BY <1>10, <3>1, <3>3, <3>4 DEF Before, Gap, Arrivals
  <2> HIDE DEF tuples
  <2>2. QED
    BY <1>9, <2>1 DEF Sorted
<1> HIDE DEF tuples
<1>12. QED
  BY <1>1, <1>2, <1>3, <1>7, <1>9, <1>10, <1>11, OutputBacked

LEMMA WindowWaitsBacked ==
    ASSUME TypeOK, BackupInv, WindowWaits PROVE BackupInv'
<1>1. PICK next, line : next = NextSynopsis /\ line = Line(conf.win, NextSynopsis)
  OBVIOUS
<1>2. /\ UNCHANGED <<conf, sent>> /\ HasData /\ turn = NumOps /\ InputOf(turn) # <<>>
      /\ ~Syn!Completes(conf.win, synopsis) /\ synopsis' = next /\ streams' = Taken
  BY <1>1 DEF WindowWaits, HasData, TakeTuple, Taken
<1>3. LineInOrder(line, Taken, sent) /\ Covered(Taken, line, NextSpare) /\ StreamsInOrder(Taken, sent)
  BY <1>1, <1>2, NextLineBacked, TakenBacked
<1>4. next.filled = synopsis.filled
  <2>1. PICK head : head = HeadTuple
    OBVIOUS
  <2>2. head \in Tuples /\ next = Syn!Enqueued(conf.win, synopsis, head)
        /\ IsWindow(conf.win) /\ SynopsisOK(conf.win, synopsis)
    BY <1>1, <1>2, <2>1, HeadIsTuple, RedoPlace DEF NextSynopsis
  <2>3. QED
    BY ONLY <1>2, <2>2, WaitingSynopsis
<1>5. Spare' = NextSpare
  BY <1>2, <1>4 DEF Spare, NextSpare
<1>6. Line(conf.win, synopsis') = line
  BY <1>1, <1>2
<1>7. QED
  BY <1>2, <1>3, <1>5, <1>6, BackupStays

LEMMA WindowOutputBacked ==
    ASSUME TypeOK, BackupInv, WindowOutput PROVE BackupInv'
<1>1. PICK next, line, head : /\ next = NextSynopsis /\ line = Line(conf.win, NextSynopsis)
                              /\ head = HeadTuple
  OBVIOUS
<1>2. /\ UNCHANGED <<conf, sent>> /\ HasData /\ turn = NumOps /\ InputOf(turn) # <<>>
      /\ Syn!Completes(conf.win, synopsis) /\ synopsis' = next
      /\ streams' = EvictedByCommit(next, Taken) /\ conf \in Configurations
  BY <1>1 DEF WindowOutput, HasData, Taken, TypeOK
<1>3. /\ LineInOrder(line, Taken, sent) /\ Covered(Taken, line, NextSpare)
      /\ StreamsInOrder(Taken, sent) /\ StreamsOK(Taken)
  BY <1>1, <1>2, NextLineBacked, TakenBacked
<1>4. /\ head \in Tuples /\ next = Syn!Enqueued(conf.win, synopsis, head)
      /\ IsWindow(conf.win) /\ SynopsisOK(conf.win, synopsis)
  BY <1>1, <1>2, HeadIsTuple, RedoPlace DEF NextSynopsis
<1>5. next.filled
  BY ONLY <1>2, <1>4, CompletedSynopsis
<1>6. Spare' = NextSpare /\ Line(conf.win, synopsis') = line
  BY <1>1, <1>2, <1>5 DEF Spare, NextSpare
<1>7. CASE conf.mode = "OPTIMISTIC"
  <2>1. /\ DOMAIN line = 1 .. conf.win.width
        /\ \E k \in {1, conf.win.stride + 1} \cap 1 .. conf.win.width :
               Syn!BeginningTuple(next) = line[k]
    <3>1. /\ LineLength(conf.win, next) = conf.win.width
          /\ Syn!BeginningTuple(next) \in
                 {Line(conf.win, next)[k] : k \in {1, conf.win.stride + 1} \cap 1 .. conf.win.width}
      BY <1>2, <1>4, LineCompletes
    <3>2. DOMAIN line = 1 .. conf.win.width
      BY <1>1, <3>1 DEF Line
    <3>3. QED
      BY <1>1, <3>1, <3>2
  <2>2. PICK b \in {1, conf.win.stride + 1} \cap 1 .. conf.win.width :
            Syn!BeginningTuple(next) = line[b]
    BY <2>1
  <2>3. PICK rest : rest = Taken
    OBVIOUS
  <2>4. PICK evicted : evicted = [rest EXCEPT ![RedoStream] = Evicted(@, line[b].arrived)]
    OBVIOUS
  <2>5. streams' = evicted
    BY <1>2, <1>7, <2>2, <2>3, <2>4 DEF EvictedByCommit
  <2>6. /\ LineInOrder(line, rest, sent) /\ Covered(rest, line, NextSpare)
        /\ StreamsInOrder(rest, sent) /\ StreamsOK(rest)
    BY <1>3, <2>3
  <2>7. /\ DOMAIN line \subseteq Int /\ b \in DOMAIN line
        /\ \A k \in DOMAIN line : k > NextSpare => b <= k
    <3>1. NextSpare = conf.win.stride
      BY <1>2, <1>7 DEF NextSpare
    <3>2. conf.win.stride \in Nat
      BY <1>4 DEF IsWindow
    <3>3. QED
      BY <2>1, <2>2, <3>1, <3>2
  <2>8. StreamsInOrder(evicted, sent) /\ LineInOrder(line, evicted, sent)
    BY ONLY <1>2, <2>4, <2>6, EvictingInOrder
  <2>9. Covered(evicted, line, NextSpare)
    BY ONLY <1>2, <2>4, <2>6, <2>7, EvictionCovers
  <2>10. QED
    BY <1>2, <1>6, <2>5, <2>8, <2>9, BackupStays
<1>8. CASE conf.mode # "OPTIMISTIC"
  <2>1. streams' = Taken
    BY <1>2, <1>8 DEF EvictedByCommit
  <2>2. QED
    BY <1>2, <1>3, <1>6, <2>1, BackupStays
<1>9. QED
  BY <1>7, <1>8

(* After a restart the window has been reset, and the line is empty.       *)
LEMMA RestartBacked ==
    ASSUME TypeOK, UNCHANGED <<conf, sent>>, NEW strms, StreamsOK(strms),
           StreamsInOrder(strms, sent), streams' = Restarted(strms),
           synopsis'.newcomers = <<>>, synopsis'.filled = FALSE
    PROVE  BackupInv'
<1>1. PICK line : line = Line(conf.win, synopsis')
  OBVIOUS
<1>2. DOMAIN line = {}
  <2>1. Len(<<>>) = 0 /\ 0 + 0 = 0 /\ 1 .. 0 = {}
    OBVIOUS
  <2>2. LineLength(conf.win, synopsis') = 0
    BY <2>1 DEF LineLength, OldLength
  <2>3. QED
    BY <1>1, <2>1, <2>2 DEF Line
<1>3. conf \in Configurations
  BY DEF TypeOK
<1>4. /\ StreamsInOrder(streams', sent) /\ LineInOrder(line, streams', sent)
      /\ Covered(streams', line, Spare')
  BY <1>2, <1>3, RestartingInOrder
<1>5. QED
  BY <1>1, <1>4, BackupStays

LEMMA LostConsistencyBacked ==
    ASSUME TypeOK, BackupInv, LostConsistency PROVE BackupInv'
<1>1. PICK next : next = NextSynopsis
  OBVIOUS
<1>2. /\ UNCHANGED <<conf, sent>> /\ HasData /\ turn = NumOps /\ InputOf(turn) # <<>>
      /\ Syn!Completes(conf.win, synopsis) /\ synopsis' = Syn!Reset(next)
      /\ streams' = Restarted(streams)
  BY <1>1 DEF LostConsistency, HasData
<1>3. PICK head : head = HeadTuple
  OBVIOUS
<1>4. /\ head \in Tuples /\ next = Syn!Enqueued(conf.win, synopsis, head)
      /\ IsWindow(conf.win) /\ SynopsisOK(conf.win, synopsis) /\ StreamsOK(streams)
  BY <1>1, <1>2, <1>3, HeadIsTuple, RedoPlace DEF NextSynopsis
<1>5. SynopsisOK(conf.win, next)
  BY ONLY <1>2, <1>4, CompletedSynopsis
<1>6. synopsis'.newcomers = <<>> /\ synopsis'.filled = FALSE
  <2>1. next \in SynopsisType(conf.win)
    BY <1>5 DEF SynopsisOK
  <2>2. QED
    BY <1>2, <1>4, <2>1, ResetSynopsisOK
<1>7. StreamsInOrder(streams, sent)
  BY DEF BackupInv
<1>8. QED
  BY <1>2, <1>4, <1>6, <1>7, RestartBacked

LEMMA TakingBacked ==
    ASSUME TypeOK, BackupInv, turn = NumOps, InputOf(turn) # <<>>, streams' = Taken,
           UNCHANGED <<conf, sent, synopsis>>
    PROVE  BackupInv'
<1>1. PICK line : line = Line(conf.win, synopsis)
  OBVIOUS
<1>2. StreamsInOrder(Taken, sent) /\ LineInOrder(line, Taken, sent) /\ Covered(Taken, line, Spare)
  BY <1>1, TakenBacked
<1>3. Spare' = Spare /\ Line(conf.win, synopsis') = line
  BY <1>1 DEF Spare
<1>4. QED
  BY <1>2, <1>3, BackupStays

LEMMA AfterCommitBacked ==
    ASSUME TypeOK, BackupInv, AfterCommit PROVE BackupInv'
<1>1. PICK lwm : lwm = HeadTuple.arrived
  OBVIOUS
<1>2. PICK rest : rest = Taken
  OBVIOUS
<1>3. PICK evicted : evicted = [rest EXCEPT ![RedoStream] = Evicted(@, lwm)]
  OBVIOUS
<1>4. /\ UNCHANGED <<conf, sent>> /\ turn = NumOps /\ InputOf(turn) # <<>>
      /\ streams' = IF ~Overlapping THEN rest ELSE Restarted(evicted)
      /\ synopsis' = IF Overlapping THEN Syn!Reset(synopsis) ELSE synopsis
  BY <1>1, <1>2, <1>3 DEF AfterCommit, HasData, Taken
<1>5. CASE ~Overlapping
  BY <1>2, <1>4, <1>5, TakingBacked
<1>6. CASE Overlapping
  <2>1. PICK line : line = Line(conf.win, synopsis)
    OBVIOUS
  <2>2. StreamsOK(rest) /\ StreamsInOrder(rest, sent) /\ LineInOrder(line, rest, sent)
    BY <1>2, <1>4, <2>1, TakenBacked
  <2>3. conf \in Configurations /\ IsWindow(conf.win) /\ SynopsisOK(conf.win, synopsis)
    BY RedoPlace
  <2>4. StreamsInOrder(evicted, sent)
    BY ONLY <1>3, <2>2, <2>3, EvictingInOrder
  <2>5. StreamsOK(evicted)
    BY ONLY <1>3, <2>2, <2>3, EvictingKeepsStreams
  <2>6. synopsis'.newcomers = <<>> /\ synopsis'.filled = FALSE
    <3>1. synopsis \in SynopsisType(conf.win)
      BY <2>3 DEF SynopsisOK
    <3>2. QED
      BY <1>4, <1>6, <2>3, <3>1, ResetSynopsisOK
  <2>7. QED
    BY <1>4, <1>6, <2>4, <2>5, <2>6, RestartBacked
<1>7. QED
  BY <1>5, <1>6

LEMMA SendBacked ==
    ASSUME TypeOK, BackupInv, Send PROVE BackupInv'
<1> DEFINE tuples == IF sent < NumTuples THEN <<InputTuple(sent + 1)>> ELSE <<EndOfStream>>
<1>1. /\ UNCHANGED <<conf, synopsis>> /\ sent' = sent + 1
      /\ streams' = [streams EXCEPT ![0] = Enqueued(@, tuples)]
  BY DEF Send, UnchangedQuery
<1>2. /\ conf \in Configurations /\ NumOps \in Nat /\ NumOps >= 3
      /\ RedoStream \in 1 .. NumOps - 2 /\ RedoLeaf = RedoStream + 1
      /\ StreamsOK(streams) /\ streams \in [0 .. NumOps - 1 -> StreamType]
      /\ sent \in Nat /\ NumTuples \in Nat /\ sent <= NumTuples
  BY RedoPlace DEF StreamsOK, Send
<1>3. PICK line, last : line = Line(conf.win, synopsis) /\ last = sent + 1
  OBVIOUS
<1>4. /\ tuples \in Seq(Messages)
      /\ \A u \in RangeOf(tuples) : IF u = EndOfStream THEN last = NumTuples + 1
                                       ELSE u.arrived = last
      /\ Sorted(tuples)
  <2>1. CASE sent < NumTuples
    <3> DEFINE t == InputTuple(sent + 1)
    <3>1. sent + 1 \in Arrivals
      BY <1>2, <2>1 DEF Arrivals
    <3>2. t \in Tuples /\ t.arrived = last
      <4>1. <<>> \in Seq(Nat) /\ {} \in SUBSET (Nat \X Versions)
        OBVIOUS
      <4>2. QED
        BY <1>3, <3>1, <4>1 DEF InputTuple, Tuples
    <3> HIDE DEF t
    <3>3. /\ <<t>> \in Seq(Messages) /\ RangeOf(<<t>>) = {t} /\ tuples = <<t>>
          /\ DOMAIN <<t>> = {1}
      BY <2>1, <3>2 DEF Messages, RangeOf, t
    <3> HIDE DEF tuples
    <3>4. QED
      BY <3>2, <3>3, OneSorted, EndAssumption
  <2>2. CASE ~(sent < NumTuples)
    <3>1. /\ <<EndOfStream>> \in Seq(Messages) /\ tuples = <<EndOfStream>>
          /\ RangeOf(<<EndOfStream>>) = {EndOfStream} /\ DOMAIN <<EndOfStream>> = {1}
      BY <2>2 DEF Messages, RangeOf
    <3>2. last = NumTuples + 1
      BY <1>2, <1>3, <2>2
    <3> HIDE DEF tuples
    <3>3. QED
      BY <3>1, <3>2, OneSorted
  <2>3. QED
    BY <2>1, <2>2
<1> HIDE DEF tuples
<1>5. ASSUME NEW t \in Messages, UpTo(t, sent)
      PROVE  /\ UpTo(t, last) /\ \A u \in RangeOf(tuples) : Before(t, u)
  <2>1. t # EndOfStream => t.arrived \in Nat
    BY <1>5 DEF Messages, Tuples, Arrivals
  <2>2. t # EndOfStream => t.arrived <= last
    BY <1>2, <1>3, <1>5, <2>1 DEF UpTo
  <2>3. t # EndOfStream
    BY <1>2, <1>5, <2>1 DEF UpTo
  <2>4. QED
    BY <1>2, <1>3, <1>4, <1>5, <2>1, <2>3, GapStays DEF UpTo, Before
<1>6. \A j \in 0 .. NumOps - 1 : \A t \in Held(streams[j]) : t \in Messages /\ UpTo(t, sent)
  <2>1. \A j \in 0 .. NumOps - 1 : \A t \in Held(streams[j]) : UpTo(t, sent)
    BY DEF BackupInv, StreamsInOrder
  <2>2. \A s \in StreamType : Held(s) \subseteq Messages
    BY DEF StreamType, Held, RangeOf
  <2>3. QED
    BY <1>2, <2>1, <2>2
<1>7. \A t \in RangeOf(line) : t \in Messages /\ UpTo(t, sent)
  BY <1>3 DEF BackupInv, LineInOrder, Messages
<1>8. StreamsInOrder(streams, last) /\ LineInOrder(line, streams, last)
  <2>1. StreamsInOrder(streams, sent) /\ LineInOrder(line, streams, sent)
    BY <1>3 DEF BackupInv
  <2>2. StreamsInOrder(streams, last)
    BY <1>5, <1>6, <2>1 DEF StreamsInOrder
  <2>3. LineInOrder(line, streams, last)
    BY <1>5, <1>7, <2>1 DEF LineInOrder
  <2>4. QED
    BY <2>2, <2>3
<1>9. \A u \in RangeOf(tuples) :
          /\ UpTo(u, last)
          /\ \A j \in 0 .. NumOps - 1 :
                 /\ j >= 0 => \A t \in Held(streams[j]) : Before(t, u)
                 /\ j < 0 => \A v \in RangeOf(streams[j].queue) : Before(u, v)
          /\ \A t \in RangeOf(line) : Before(t, u)
  <2>1. last \in Nat /\ \A j \in 0 .. NumOps - 1 : ~(j < 0)
    BY <1>2, <1>3
  <2>2. \A u \in RangeOf(tuples) : UpTo(u, last)
    BY <1>2, <1>3, <1>4, <2>1 DEF UpTo
  <2>3. QED
    BY <1>5, <1>6, <1>7, <2>1, <2>2
<1>10. PICK out : out = streams'
  OBVIOUS
<1>11. /\ out = [streams EXCEPT ![0] = Enqueued(@, tuples)] /\ 0 \in 0 .. NumOps - 1
       /\ tuples \in Seq(Messages) /\ Sorted(tuples)
  BY <1>1, <1>2, <1>4, <1>10
<1>12. StreamsInOrder(out, last) /\ LineInOrder(line, out, last)
  BY ONLY <1>2, <1>8, <1>9, <1>11, PuttingInOrder
<1>13. \A j \in 1 .. NumOps - 1 : out[j] = streams[j]
  BY <1>2, <1>11
<1>14. Covered(out, line, Spare)
  <2>1. Covered(streams, line, Spare)
    BY <1>3 DEF BackupInv
  <2>2. RedoStream \in 1 .. NumOps - 1 /\ \A j \in RedoLeaf .. NumOps - 1 : j \in 1 .. NumOps - 1
    BY <1>2
  <2>3. EndsBackup(out[RedoStream])
    BY <1>13, <2>1, <2>2 DEF Covered
  <2>4. QED
    BY <1>13, <2>1, <2>2, <2>3, FewerCovered
<1>15. Spare' = Spare /\ Line(conf.win, synopsis') = line /\ sent' = last
  BY <1>1, <1>3 DEF Spare
<1>16. QED
  BY <1>1, <1>10, <1>12, <1>14, <1>15, BackupStays

LEMMA InitBacked == Init => BackupInv
<1> SUFFICES ASSUME Init PROVE BackupInv
  OBVIOUS
<1>1. /\ TypeOK /\ sent = 0 /\ synopsis = Syn!NewSynopsis(conf.win)
      /\ streams = [i \in 0 .. NumOps - 1 |-> NewStream(i = RedoStream)]
  BY InitInv DEF Init, IInv
<1>2. RedoStream \in 0 .. NumOps - 1 /\ \A j \in RedoLeaf .. NumOps - 1 : j \in 0 .. NumOps - 1
  BY <1>1, RedoPlace
<1>3. /\ DOMAIN <<>> = {} /\ Len(<<>>) = 0 /\ RangeOf(<<>>) = {}
  BY DEF RangeOf
<1>4. \A j \in 0 .. NumOps - 1 : streams[j].queue = <<>> /\ streams[j].backup = <<>>
  BY <1>1 DEF NewStream
<1>5. \A j \in 0 .. NumOps - 1 : Held(streams[j]) = {} /\ RangeOf(streams[j].queue) = {}
  BY <1>3, <1>4 DEF Held
<1>6. StreamsInOrder(streams, sent)
  <2>1. Sorted(<<>>)
    BY <1>3 DEF Sorted
  <2>2. QED
    BY <1>4, <1>5, <2>1 DEF StreamsInOrder
<1>7. PICK line : line = Line(conf.win, synopsis)
  OBVIOUS
<1>8. DOMAIN line = {} /\ RangeOf(line) = {}
  <2>1. synopsis.newcomers = <<>> /\ synopsis.filled = FALSE
    BY <1>1 DEF Syn!NewSynopsis
  <2>2. 0 + 0 = 0 /\ 1 .. 0 = {}
    OBVIOUS
  <2>3. LineLength(conf.win, synopsis) = 0
    BY <1>3, <2>1, <2>2 DEF LineLength, OldLength
  <2>4. DOMAIN line = {}
    BY <1>7, <2>2, <2>3 DEF Line
  <2>5. QED
    BY <2>4 DEF RangeOf
<1>9. LineInOrder(line, streams, sent)
  BY <1>8 DEF LineInOrder, Sorted
<1>10. EndsBackup(streams[RedoStream])
  <2>1. 0 <= 0 /\ 1 .. 0 = {}
    OBVIOUS
  <2>2. QED
    BY <1>2, <1>3, <1>4, <2>1 DEF EndsBackup
<1>11. Covered(streams, line, Spare)
  BY <1>2, <1>5, <1>8, <1>10 DEF Covered
<1>12. QED
  BY <1>6, <1>7, <1>9, <1>11 DEF BackupInv

(* What the property says of the backup *)
LEMMA BackupCovers ==
    ASSUME TypeOK, BackupInv PROVE RedoCovers
<1>1. PICK redo, line : redo = streams[RedoStream] /\ line = Line(conf.win, synopsis)
  OBVIOUS
<1>2. /\ NumOps \in Nat /\ RedoStream \in 0 .. NumOps - 1 /\ redo \in StreamType
      /\ IsWindow(conf.win) /\ SynopsisOK(conf.win, synopsis)
  BY <1>1, RedoPlace
<1>3. /\ EndsBackup(redo)
      /\ \A j \in RedoLeaf .. NumOps - 1 :
             \A t \in RangeOf(streams[j].queue) : t # EndOfStream => BackedUp(t, streams)
      /\ \A k \in DOMAIN line : k > Spare => BackedUp(line[k], streams)
  BY <1>1 DEF BackupInv, Covered
<1> DEFINE q == redo.queue
           p == redo.backup
           n == Len(q)
           b == Len(p)
           end == SubSeq(p, (b - n) + 1, b)
<1>4. q \in Seq(Messages) /\ p \in Seq(Messages) /\ n \in Nat /\ b \in Nat
  BY <1>2 DEF StreamType
<1>5. n <= b /\ \A k \in 1 .. n : q[k] = p[k + (b - n)]
  BY <1>3 DEF EndsBackup
<1>6. /\ end \in Seq(Messages) /\ Len(end) = n /\ \A k \in 1 .. n : end[k] = q[k]
  <2> HIDE DEF n, b
  <2>1. (b - n) + 1 \in 1 .. b + 1 /\ b \in (b - n) .. b
    BY <1>4, <1>5
  <2>2. /\ end \in Seq(Messages)
        /\ Len(end) = IF (b - n) + 1 <= b THEN b - ((b - n) + 1) + 1 ELSE 0
        /\ \A k \in 1 .. b - ((b - n) + 1) + 1 : end[k] = p[((b - n) + 1) + k - 1]
    BY ONLY <1>4, <2>1, SubSeqProperties DEF b, end
  <2> HIDE DEF end
  <2>3. /\ b - ((b - n) + 1) + 1 = n /\ ((b - n) + 1 <= b <=> n >= 1)
        /\ \A k \in 1 .. n : ((b - n) + 1) + k - 1 = k + (b - n)
    BY <1>4
  <2>4. QED
    BY <1>4, <1>5, <2>2, <2>3
<1>7. q = end
  <2> HIDE DEF end, q
  <2>1. QED
    BY <1>4, <1>6, SeqEqual DEF n
<1>8. ASSUME NEW t \in InFlight \cup SharedWithNext, t # EndOfStream
      PROVE  BackedUp(t, streams)
  <2>1. CASE \E j \in RedoLeaf .. NumOps - 1 : t \in RangeOf(streams[j].queue)
    BY <1>3, <1>8, <2>1
  <2>2. Spare \in Nat /\ Spare <= OldLength(conf.win, synopsis)
    BY <1>2 DEF Spare, OldLength, IsWindow
  <2>3. CASE t \in RangeOf(synopsis.newcomers)
    <3> DEFINE m == Len(synopsis.newcomers)
               old == OldLength(conf.win, synopsis)
    <3>1. /\ m \in Nat /\ old \in Nat /\ DOMAIN line = 1 .. LineLength(conf.win, synopsis)
          /\ DOMAIN synopsis.newcomers = 1 .. m /\ LineLength(conf.win, synopsis) = old + m
      BY <1>1, <1>2, SynopsisFields DEF LineLength
    <3>2. PICK k \in 1 .. m : t = synopsis.newcomers[k]
      BY <2>3, <3>1 DEF RangeOf
    <3> HIDE DEF m, old
    <3>3. k + old \in 1 .. old + m /\ ~(k + old <= old) /\ (k + old) - old = k
      BY <3>1, <3>2
    <3>4. line[k + old] = synopsis.newcomers[(k + old) - old]
      BY <1>1, <3>1, <3>3 DEF Line, old
    <3>5. k + old > Spare
      BY <2>2, <3>1, <3>2 DEF old
    <3>6. QED
      BY <1>3, <3>1, <3>2, <3>3, <3>4, <3>5
  <2>4. CASE t \in SharedWithNext
    <3>1. synopsis.filled /\ conf.mode = "OPTIMISTIC"
      BY <2>4 DEF SharedWithNext
    <3>2. PICK j \in conf.win.stride + 1 .. conf.win.width :
              t = Syn!WindowOf(conf.win, synopsis)[j]
      BY <2>4, <3>1 DEF SharedWithNext
    <3>3. /\ Spare = conf.win.stride /\ conf.win.stride \in 1 .. conf.win.width
          /\ conf.win.width \in Nat
          /\ OldLength(conf.win, synopsis) = conf.win.width
      BY <1>2, <3>1 DEF Spare, OldLength, IsWindow
    <3>4. /\ DOMAIN line = 1 .. LineLength(conf.win, synopsis)
          /\ LineLength(conf.win, synopsis) \in Nat
          /\ conf.win.width <= LineLength(conf.win, synopsis)
      <4>1. Len(synopsis.newcomers) \in Nat /\ DOMAIN line = 1 .. LineLength(conf.win, synopsis)
        BY <1>1, <1>2, SynopsisFields
      <4>2. LineLength(conf.win, synopsis) = conf.win.width + Len(synopsis.newcomers)
        BY <3>3 DEF LineLength
      <4>3. QED
        BY <3>3, <4>1, <4>2
    <3>5. j \in 1 .. conf.win.width /\ j \in DOMAIN line /\ j > Spare
          /\ j <= OldLength(conf.win, synopsis)
      BY <3>2, <3>3, <3>4
    <3>6. line[j] = synopsis.tuples[Syn!SlotAfter(conf.win, synopsis.index, j - 1)]
      BY <1>1, <3>4, <3>5 DEF Line
    <3>7. t = synopsis.tuples[Syn!SlotAfter(conf.win, synopsis.index, j - 1)]
      BY <3>2, <3>5 DEF Syn!WindowOf
    <3>8. QED
      BY <1>3, <3>5, <3>6, <3>7
  <2>5. ASSUME t \in InFlight
        PROVE  \/ \E j \in RedoLeaf .. NumOps - 1 : t \in RangeOf(streams[j].queue)
               \/ t \in RangeOf(synopsis.newcomers)
    <3>1. \/ t \in UNION {RangeOf(streams[i].queue) : i \in RedoLeaf .. NumOps - 1}
          \/ t \in RangeOf(synopsis.newcomers)
      BY <2>5, Zenon DEF InFlight
    <3>2. CASE t \in UNION {RangeOf(streams[i].queue) : i \in RedoLeaf .. NumOps - 1}
      BY <3>2, Zenon
    <3>3. QED
      BY <3>1, <3>2
  <2>6. QED
    BY <1>8, <2>1, <2>3, <2>4, <2>5
<1>9. ArrivedIn(InFlight \cup SharedWithNext) \subseteq ArrivedIn(RangeOf(p))
  BY <1>1, <1>8 DEF ArrivedIn, BackedUp
<1>10. b - n >= 0
  <2> HIDE DEF b, n
  <2>1. QED
    BY <1>4, <1>5
<1>11. QED
  <2> HIDE DEF InFlight, SharedWithNext
  <2>1. QED
    BY <1>1, <1>7, <1>9, <1>10 DEF RedoCovers

(* The order of the streams and the line, and what the backup covers       *)
THEOREM BackupInductive == Spec => []BackupInv
<1>1. Init => BackupInv
  BY InitBacked
<1>2. TypeOK /\ BackupInv /\ [Next]_vars => BackupInv'
  <2>1. SUFFICES ASSUME TypeOK, BackupInv, [Next]_vars PROVE BackupInv'
    OBVIOUS
  <2>2. CASE FindNothing
    BY <2>1, <2>2, QueryRests DEF FindNothing
  <2>3. CASE PassEndOfStream
    BY <2>1, <2>3, PassEndOfStreamBacked
  <2>4. CASE ProcessSimple
    BY <2>1, <2>4, ProcessSimpleBacked
  <2>5. CASE ProcessCombine
    BY <2>1, <2>5, ProcessCombineBacked
  <2>6. CASE WindowWaits
    BY <2>1, <2>6, WindowWaitsBacked
  <2>7. CASE WindowOutput
    BY <2>1, <2>7, WindowOutputBacked
  <2>8. CASE LostConsistency
    BY <2>1, <2>8, LostConsistencyBacked
  <2>9. CASE DropTuple
    BY <2>1, <2>9, TakingBacked DEF DropTuple, HasData, TakeTuple, Taken
  <2>10. CASE AfterCommit
    BY <2>1, <2>10, AfterCommitBacked
  <2>11. CASE Send
    BY <2>1, <2>11, SendBacked
  <2>12. CASE \E r \in Relations : Update(r) \/ UnlockUpdated(r)
    BY <2>1, <2>12, QueryRests DEF Update, UnlockUpdated, UnchangedQuery
  <2>13. CASE UNCHANGED vars
    BY <2>1, <2>13, QueryRests DEF vars
  <2>14. QED
    BY <2>1, <2>2, <2>3, <2>4, <2>5, <2>6, <2>7, <2>8, <2>9, <2>10, <2>11, <2>12, <2>13
    DEF Next, QueryStep
<1>3. QED
  BY <1>1, <1>2, TypeCorrect, PTL DEF Spec

(* Whatever is processed, output, evicted, redone or taken back: the       *)
(* backup of the redo stream ends with what is in the stream, and covers   *)
(* what has left it and is still needed.                                   *)
THEOREM BackupCoversRedo == Spec => []RedoCovers
<1>1. TypeOK /\ BackupInv => RedoCovers
  BY BackupCovers
<1>2. QED
  BY <1>1, TypeCorrect, BackupInductive, PTL
-----------------------------------------------------------------------------
(* From the stream to the windows                                          *)
(*                                                                         *)
(* Where no tuple matches twice, two places in the input say where the     *)
(* query is: the mean has taken what reaches it up to c and nothing after  *)
(* it, and a redo goes back to b.  Whatever lies behind them is still in   *)
(* the streams, or in the backup.  The tuples of the line that the next    *)
(* window takes are the last that reach the mean up to c.                  *)

Flowing == NoTwoMatches /\ ~DropsWithinWindow

(* The k-th input tuple goes through the operators up to the j-th.         *)
Passed(j, k) ==
    \A i \in 1 .. j :
        /\ Kind(i) = "combine" => Matches[RelationOf(i)][k] = 1
        /\ Kind(i) = "select" => k \in Selected

Holds(seq, k) == \E t \in RangeOf(seq) : t # EndOfStream /\ t.arrived = k

FlowAt(b, c, strms, last) ==
    /\ b \in 0 .. NumTuples /\ c \in 0 .. NumTuples /\ b <= c /\ c <= last
    /\ \A j \in 0 .. NumOps - 1 : \A t \in RangeOf(strms[j].queue) :
           t # EndOfStream => t.arrived > c /\ Passed(j, t.arrived)
    /\ \A t \in RangeOf(strms[RedoStream].backup) :
           t # EndOfStream => t.arrived > b /\ Passed(RedoStream, t.arrived)
    /\ \A k \in Arrivals : k <= last /\ ReachesMean(k) =>
           /\ k > c => \E j \in 0 .. NumOps - 1 : Holds(strms[j].queue, k)
           /\ k > b => \/ Holds(strms[RedoStream].backup, k)
                       \/ \E j \in 0 .. RedoStream - 1 : Holds(strms[j].queue, k)

(* The first of the line that the next window takes no more *)
Outworn(win, syn) == IF syn.filled THEN win.stride ELSE 0

LineFlows(n, line, outworn, b, c) ==
    \A k \in outworn + 1 .. n :
        /\ ReachesMean(line[k].arrived) /\ line[k].arrived > b
        /\ Position(line[k].arrived) + (n - k) = Position(c)

(* Where the window starts that the mean is about to complete.             *)
From(n, outworn, c) == Position(c) - (n - outworn) + 1

Nexts(wins) == IF wins = <<>> THEN {1} ELSE NextStarts(Start(wins[Len(wins)]))

WindowsFollow(wins) ==
    /\ \A k \in DOMAIN wins : Contiguous(wins[k])
    /\ wins # <<>> => Start(wins[1]) = 1
    /\ \A k \in 1 .. Len(wins) - 1 : Start(wins[k + 1]) \in NextStarts(Start(wins[k]))

NextFollows(wins, com, from, b) ==
    /\ IF com THEN wins # <<>> /\ from = Start(wins[Len(wins)]) + conf.win.stride
       ELSE from \in Nexts(wins)
    /\ conf.mode = "OPTIMISTIC" => Position(b) + 1 \in Nexts(wins)

FlowInv ==
    Flowing =>
        /\ WindowsFollow(Windows)
        /\ \E b, c \in 0 .. NumTuples :
               LET win == conf.win
                   n == LineLength(win, synopsis)
                   outworn == Outworn(win, synopsis)
               IN  /\ FlowAt(b, c, streams, sent)
                   /\ LineFlows(n, Line(win, synopsis), outworn, b, c)
                   /\ NextFollows(Windows, committed, From(n, outworn, c), b)

(* A transaction's windows are counted, and complete when they are.        *)
CommitInv ==
    committed => /\ conf.mode \in PessimisticModes /\ commit_count >= 1
                 /\ synopsis.filled /\ synopsis.newcomers = <<>>

(* The end of the stream comes out last, of everything there is.           *)
EndInv ==
    EndOfStream \in RangeOf(results) =>
        /\ sent = NumTuples + 1
        /\ \A j \in 0 .. NumOps - 1 : streams[j].queue = <<>>
        /\ \A k \in DOMAIN results : results[k] = EndOfStream => k = Len(results)
-----------------------------------------------------------------------------
(* Positions *)

LEMMA ReachesPassed ==
    ASSUME conf \in Configurations, NEW k
    PROVE  ReachesMean(k) <=> Passed(NumOps - 1, k)
<1>1. /\ NumOps \in Nat /\ NumOps >= 3 /\ Kind(NumOps) = "mean"
      /\ \A i \in Combines : i \in 2 .. NumOps - 1
  BY PlanShape
<1>2. \A i \in Ops : i \in 1 .. NumOps - 1 \/ i = NumOps
  BY <1>1 DEF Ops
<1>3. \A i \in 1 .. NumOps - 1 : i \in Ops
  BY <1>1 DEF Ops
<1>4. ASSUME ReachesMean(k) PROVE Passed(NumOps - 1, k)
  BY <1>3, <1>4 DEF ReachesMean, Passed, Combines
<1>5. ASSUME Passed(NumOps - 1, k) PROVE ReachesMean(k)
  <2>1. \A i \in Combines : i \in 1 .. NumOps - 1 /\ Kind(i) = "combine"
    BY <1>1 DEF Combines
  <2>2. \A i \in Ops : Kind(i) = "select" => i \in 1 .. NumOps - 1
    BY <1>1, <1>2
  <2>3. QED
    BY <1>5, <2>1, <2>2 DEF ReachesMean, Passed
<1>6. QED
  BY <1>4, <1>5

LEMMA PositionStep ==
    /\ Position(0) = 0
    /\ \A k \in 0 .. NumTuples : Position(k) \in Nat
    /\ \A k \in 0 .. NumTuples - 1 :
           Position(k + 1) = IF ReachesMean(k + 1) THEN Position(k) + 1 ELSE Position(k)
<1> DEFINE P == {j \in 1 .. NumTuples : ReachesMean(j)}
<1>1. NumTuples \in Nat /\ \A m \in P : m \in 0 .. NumTuples
  BY ConstantsAssumption
<1>2. ASSUME NEW k \in 0 .. NumTuples PROVE Position(k) = Rank(P, k)
  <2>1. {j \in 1 .. k : ReachesMean(j)} = {m \in P : m <= k}
    BY <1>1, <1>2
  <2>2. QED
    BY <2>1 DEF Position, Rank
<1>3. \A k \in 0 .. NumTuples - 1 : k + 1 \in P <=> ReachesMean(k + 1)
  BY <1>1
<1> HIDE DEF P
<1>4. \A k \in 0 .. NumTuples : Rank(P, k) \in Nat
  BY <1>1, RankBounds
<1>5. \A k \in 0 .. NumTuples - 1 :
          Rank(P, k + 1) = IF k + 1 \in P THEN Rank(P, k) + 1 ELSE Rank(P, k)
  BY <1>1, RankStep
<1>6. \A k \in 0 .. NumTuples - 1 : k \in 0 .. NumTuples /\ k + 1 \in 0 .. NumTuples
  BY <1>1
<1>7. Position(0) = 0
  <2>1. {j \in 1 .. 0 : ReachesMean(j)} = {}
    OBVIOUS
  <2>2. QED
    BY <2>1, FS_EmptySet DEF Position
<1>8. \A k \in 0 .. NumTuples : Position(k) \in Nat
  BY <1>2, <1>4
<1>9. \A k \in 0 .. NumTuples - 1 :
          Position(k + 1) = IF ReachesMean(k + 1) THEN Position(k) + 1 ELSE Position(k)
  BY <1>2, <1>3, <1>5, <1>6
<1>10. QED
  BY <1>7, <1>8, <1>9

(* Nothing that reaches the mean is in between. *)
LEMMA PositionGap ==
    ASSUME NEW a \in Nat, NEW b \in Nat, a <= b, \A k \in a + 1 .. b : ~ReachesMean(k)
    PROVE  Position(a) = Position(b)
<1>1. \A k \in 1 .. b : k \in 1 .. a \/ k \in a + 1 .. b
  OBVIOUS
<1>2. \A k \in 1 .. a : k \in 1 .. b
  OBVIOUS
<1>3. {j \in 1 .. a : ReachesMean(j)} = {j \in 1 .. b : ReachesMean(j)}
  BY <1>1, <1>2
<1>4. QED
  BY <1>3 DEF Position

LEMMA FlowDefsStay ==
    ASSUME conf' = conf
    PROVE  /\ Flowing' = Flowing
           /\ \A k : ReachesMean(k)' <=> ReachesMean(k)
           /\ \A k : Position(k)' = Position(k)
           /\ \A j, k : Passed(j, k)' <=> Passed(j, k)
           /\ \A s : NextStarts(s)' = NextStarts(s)
           /\ \A w : (Contiguous(w)' <=> Contiguous(w)) /\ Start(w)' = Start(w)
<1>1. /\ NumOps' = NumOps /\ Ops' = Ops /\ Combines' = Combines /\ Overlapping' = Overlapping
      /\ \A i : RelationOf(i)' = RelationOf(i) /\ Kind(i)' = Kind(i)
  BY PlanStays
<1>2. Flowing' = Flowing
  BY <1>1, GapStays DEF Flowing, DropsWithinWindow
<1>3. ASSUME NEW k PROVE ReachesMean(k)' <=> ReachesMean(k)
  BY <1>1 DEF ReachesMean
<1>4. ASSUME NEW k PROVE Position(k)' = Position(k)
  BY <1>3 DEF Position
<1>5. ASSUME NEW j, NEW k PROVE Passed(j, k)' <=> Passed(j, k)
  BY <1>1 DEF Passed
<1>6. ASSUME NEW s PROVE NextStarts(s)' = NextStarts(s)
  BY <1>1 DEF NextStarts
<1>7. ASSUME NEW w PROVE (Contiguous(w)' <=> Contiguous(w)) /\ Start(w)' = Start(w)
  BY <1>4 DEF Contiguous, Start
<1>8. QED
  BY <1>2, <1>3, <1>4, <1>5, <1>6, <1>7
-----------------------------------------------------------------------------
(* The windows among the results *)

LEMMA ChosenPrefix ==
    ASSUME NEW S, NEW seq \in Seq(S), NEW n \in 0 .. Len(seq)
    PROVE  /\ Chosen(seq, 1 .. n) \in Seq(S) /\ Len(Chosen(seq, 1 .. n)) = n
           /\ \A k \in 1 .. n : Chosen(seq, 1 .. n)[k] = seq[k]
<1> DEFINE P == 1 .. n
<1>1. /\ n \in Nat /\ P \in SUBSET DOMAIN seq /\ \A m \in P : m \in 0 .. n
      /\ DOMAIN seq = 1 .. Len(seq) /\ Len(seq) \in Nat
  BY LenProperties
<1>2. \A k \in 0 .. n : Cardinality(1 .. k) = k
  BY FS_Interval
<1>3. ASSUME NEW k \in 1 .. n PROVE Nth(P, k) = k
  <2>1. {m \in P : m <= k} = 1 .. k
    OBVIOUS
  <2>2. Rank(P, k) = k
    <3>1. Rank(P, k) = Cardinality({m \in P : m <= k})
      BY DEF Rank
    <3>2. Rank(P, k) = Cardinality(1 .. k)
      BY <2>1, <3>1
    <3>3. k \in 0 .. n
      OBVIOUS
    <3>4. QED
      BY ONLY <1>2, <3>2, <3>3
  <2>3. k \in P
    OBVIOUS
  <2>4. Nth(P, Rank(P, k)) = k
    BY <1>1, <2>3, NthOfRank
  <2>5. QED
    BY <2>2, <2>4
<1>4. Cardinality(P) = n
  BY <1>1, <1>2
<1>5. P = 1 .. n
  OBVIOUS
<1> HIDE DEF P
<1>6. /\ Chosen(seq, P) \in Seq(S) /\ Len(Chosen(seq, P)) = n
      /\ \A k \in 1 .. n : Chosen(seq, P)[k] = seq[Nth(P, k)]
  BY <1>1, <1>4, ChosenProperties
<1>7. QED
  BY <1>3, <1>5, <1>6

(* Results without an end are windows, and so are those before it.         *)
LEMMA WindowsAre ==
    ASSUME NEW S, NEW seq \in Seq(S), EndOfStream \notin RangeOf(seq)
    PROVE  Chosen(seq, {k \in DOMAIN seq : seq[k] # EndOfStream}) = seq
<1>1. PICK n : n = Len(seq)
  OBVIOUS
<1>2. n \in Nat /\ DOMAIN seq = 1 .. n /\ n \in 0 .. Len(seq)
  BY <1>1, LenProperties
<1>3. {k \in DOMAIN seq : seq[k] # EndOfStream} = 1 .. n
  BY <1>2 DEF RangeOf
<1>4. /\ Chosen(seq, 1 .. n) \in Seq(S) /\ Len(Chosen(seq, 1 .. n)) = n
      /\ \A k \in 1 .. n : Chosen(seq, 1 .. n)[k] = seq[k]
  BY <1>2, ChosenPrefix
<1>5. Chosen(seq, 1 .. n) = seq
  BY <1>1, <1>4, SeqEqual
<1>6. QED
  BY <1>3, <1>5

LEMMA WindowsOf ==
    ASSUME NEW S, NEW seq \in Seq(S), EndOfStream \notin RangeOf(seq), EndOfStream \in S,
           results' = Append(seq, EndOfStream)
    PROVE  Windows' = seq
<1>1. PICK r, n : r = Append(seq, EndOfStream) /\ n = Len(seq)
  OBVIOUS
<1>2. /\ n \in Nat /\ DOMAIN seq = 1 .. n
      /\ r \in Seq(S) /\ Len(r) = n + 1 /\ DOMAIN r = 1 .. n + 1 /\ r[n + 1] = EndOfStream
      /\ \A k \in 1 .. n : r[k] = seq[k]
  BY <1>1, AppendProperties, LenProperties
<1>3. \A k \in 1 .. n : seq[k] # EndOfStream
  BY <1>2 DEF RangeOf
<1>4. {k \in DOMAIN r : r[k] # EndOfStream} = 1 .. n
  BY <1>2, <1>3
<1>5. n \in 0 .. Len(r)
  BY <1>2
<1>6. /\ Chosen(r, 1 .. n) \in Seq(S) /\ Len(Chosen(r, 1 .. n)) = n
      /\ \A k \in 1 .. n : Chosen(r, 1 .. n)[k] = r[k]
  BY <1>2, <1>5, ChosenPrefix
<1>7. Chosen(r, 1 .. n) = seq
  BY <1>1, <1>2, <1>6, SeqEqual
<1>8. QED
  BY <1>1, <1>4, <1>7 DEF Windows

LEMMA ResultsType ==
    ASSUME TypeOK
    PROVE  \E S : /\ results \in Seq(S) /\ EndOfStream \in S
                  /\ S = [1 .. conf.win.width -> Tuples] \cup {EndOfStream}
                  /\ EndOfStream \notin [1 .. conf.win.width -> Tuples]
BY EndAssumption DEF TypeOK

LEMMA StartType ==
    ASSUME TypeOK
    PROVE  /\ Len(Windows) \in Nat /\ DOMAIN Windows = 1 .. Len(Windows)
           /\ Windows # <<>> => /\ Len(Windows) \in DOMAIN Windows
                                /\ Start(Windows[Len(Windows)]) \in Nat
<1>1. PICK S : /\ results \in Seq(S)
               /\ S = [1 .. conf.win.width -> Tuples] \cup {EndOfStream}
  BY ResultsType
<1> DEFINE P == {k \in DOMAIN results : results[k] # EndOfStream}
<1>2. P \in SUBSET DOMAIN results /\ \A k \in P : results[k] # EndOfStream
  OBVIOUS
<1> HIDE DEF P
<1>3. /\ Chosen(results, P) \in Seq(S) /\ Len(Chosen(results, P)) = Cardinality(P)
      /\ \A n \in 1 .. Cardinality(P) : Chosen(results, P)[n] = results[Nth(P, n)]
                                         /\ Nth(P, n) \in P
  BY <1>1, <1>2, ChosenProperties
<1>4. PICK wins, n : wins = Windows /\ n = Len(Windows)
  OBVIOUS
<1>5. wins = Chosen(results, P)
  BY <1>4 DEF Windows, P
<1>6. wins \in Seq(S) /\ n = Len(wins) /\ \A k \in 1 .. n : wins[k] # EndOfStream
  BY <1>2, <1>3, <1>4, <1>5
<1>7. n \in Nat /\ DOMAIN wins = 1 .. n /\ \A k \in 1 .. n : wins[k] \in S
  BY <1>6, LenProperties
<1>8. \A k \in 1 .. n : wins[k] \in [1 .. conf.win.width -> Tuples]
  BY <1>1, <1>6, <1>7
<1>9. wins # <<>> => n \in 1 .. n
  BY <1>6, <1>7, EmptySeq
<1>10. ASSUME NEW w \in [1 .. conf.win.width -> Tuples] PROVE Start(w) \in Nat
  <2>1. 1 \in 1 .. conf.win.width
    BY PlanShape DEF TypeOK
  <2>2. w[1] \in Tuples
    BY <2>1
  <2>3. w[1].arrived \in 0 .. NumTuples
    BY <2>2, ConstantsAssumption DEF Tuples, Arrivals
  <2>4. QED
    BY <2>3, PositionStep DEF Start
<1>11. QED
  BY <1>4, <1>7, <1>8, <1>9, <1>10
-----------------------------------------------------------------------------
(* A step that leaves the query at b and c, or takes it there.             *)
LEMMA FlowStays ==
    ASSUME conf' = conf, NEW wins, Windows' = wins, Flowing => WindowsFollow(wins),
           NEW b \in 0 .. NumTuples, NEW c \in 0 .. NumTuples,
           Flowing => /\ FlowAt(b, c, streams', sent')
                      /\ LineFlows(LineLength(conf.win, synopsis'), Line(conf.win, synopsis'),
                                   Outworn(conf.win, synopsis'), b, c)
                      /\ NextFollows(wins, committed',
                                   From(LineLength(conf.win, synopsis'),
                                        Outworn(conf.win, synopsis'), c), b)
    PROVE  FlowInv'
<1>1. /\ NumOps' = NumOps /\ RedoStream' = RedoStream /\ Flowing' = Flowing
      /\ \A k : ReachesMean(k)' <=> ReachesMean(k)
      /\ \A k : Position(k)' = Position(k)
      /\ \A j, k : Passed(j, k)' <=> Passed(j, k)
      /\ \A s : NextStarts(s)' = NextStarts(s)
      /\ \A w : (Contiguous(w)' <=> Contiguous(w)) /\ Start(w)' = Start(w)
  BY PlanStays, FlowDefsStay
<1> SUFFICES ASSUME Flowing
             PROVE  /\ WindowsFollow(Windows)'
                    /\ \E b_1, c_1 \in 0 .. NumTuples :
                         (LET win == conf.win
                              n == LineLength(win, synopsis)
                              outworn == Outworn(win, synopsis)
                          IN  /\ FlowAt(b_1, c_1, streams, sent)
                              /\ LineFlows(n, Line(win, synopsis), outworn, b_1, c_1)
                              /\ NextFollows(Windows, committed, From(n, outworn, c_1), b_1))'
  BY <1>1 DEF FlowInv
<1>2. PICK strms, last, line, n, outworn, com :
          /\ strms = streams' /\ last = sent' /\ line = Line(conf.win, synopsis')
          /\ n = LineLength(conf.win, synopsis') /\ outworn = Outworn(conf.win, synopsis')
          /\ com = committed'
  OBVIOUS
<1>3. /\ line = Line(conf.win, synopsis)' /\ n = LineLength(conf.win, synopsis)'
      /\ outworn = Outworn(conf.win, synopsis)'
  BY <1>2 DEF Line, LineLength, OldLength, Outworn
<1>4. WindowsFollow(Windows)'
  BY <1>1 DEF WindowsFollow
<1>5. FlowAt(b, c, streams, sent)'
  BY <1>1 DEF FlowAt, Holds
<1>6. LineFlows(n, line, outworn, b, c) /\ NextFollows(wins, com, From(n, outworn, c), b)
  BY <1>2
<1>7. LineFlows(LineLength(conf.win, synopsis), Line(conf.win, synopsis),
                Outworn(conf.win, synopsis), b, c)'
  BY <1>1, <1>3, <1>6 DEF LineFlows
<1>8. NextFollows(Windows, committed, From(LineLength(conf.win, synopsis),
                                           Outworn(conf.win, synopsis), c), b)'
  BY <1>1, <1>2, <1>3, <1>6 DEF NextFollows, Nexts, From
<1>9. QED
  BY <1>4, <1>5, <1>7, <1>8
-----------------------------------------------------------------------------
(* The flow through the streams *)

LEMMA QueueSplit ==
    ASSUME NEW s \in StreamType, s.queue # <<>>
    PROVE  /\ RangeOf(s.queue) = RangeOf(Dequeued(s).queue) \cup {Head(s.queue)}
           /\ Dequeued(s).backup = s.backup
<1> DEFINE q == s.queue
           n == Len(q)
           r == Tail(q)
<1>1. Dequeued(s).queue = r /\ Dequeued(s).backup = s.backup
  <2>1. s = [queue |-> s.queue, backup |-> s.backup, backed |-> s.backed]
    BY DEF StreamType
  <2>2. Dequeued(s) = [s EXCEPT !.queue = Tail(s.queue)]
    BY DEF Dequeued
  <2>3. QED
    BY <2>1, <2>2
<1>2. /\ DOMAIN r = 1 .. n - 1 /\ \A k \in 1 .. n - 1 : r[k] = q[k + 1]
      /\ n \in Nat /\ n > 0 /\ DOMAIN q = 1 .. n /\ Head(q) = q[1]
  <2>1. q \in Seq(Messages)
    BY DEF StreamType
  <2>2. /\ Len(Tail(q)) = Len(q) - 1
        /\ \A k \in 1 .. Len(Tail(q)) : Tail(q)[k] = q[k + 1]
        /\ Len(q) \in Nat /\ Len(q) > 0 /\ DOMAIN q = 1 .. Len(q)
        /\ DOMAIN Tail(q) = 1 .. Len(Tail(q))
        /\ Head(q) = q[1]
    BY <2>1
  <2>3. QED
    BY <2>2
<1> HIDE DEF q, n, r
<1>3. RangeOf(q) = RangeOf(r) \cup {q[1]}
  <2>1. \A k \in 1 .. n : k = 1 \/ (k - 1 \in 1 .. n - 1 /\ q[k] = r[k - 1])
    BY <1>2
  <2>2. \A k \in 1 .. n - 1 : k + 1 \in 1 .. n
    BY <1>2
  <2>3. 1 \in 1 .. n
    BY <1>2
  <2>4. ASSUME NEW t \in RangeOf(q) PROVE t \in RangeOf(r) \cup {q[1]}
    <3>1. PICK k \in 1 .. n : t = q[k]
      BY <1>2 DEF RangeOf
    <3>2. QED
      BY <1>2, <2>1, <3>1 DEF RangeOf
  <2>5. ASSUME NEW t \in RangeOf(r) PROVE t \in RangeOf(q)
    <3>1. PICK k \in 1 .. n - 1 : t = r[k]
      BY <1>2 DEF RangeOf
    <3>2. QED
      BY <1>2, <2>2, <3>1 DEF RangeOf
  <2>7. q[1] \in RangeOf(q)
    BY <1>2, <2>3 DEF RangeOf
  <2>6. QED
    BY <2>4, <2>5, <2>7
<1>4. QED
  BY <1>1, <1>2, <1>3 DEF q, r

(* An operator takes a tuple and makes of it a tuple that has arrived with *)
(* it, if it lets it through.                                              *)
LEMMA FlowOutput ==
    ASSUME conf \in Configurations, NEW strms, StreamsOK(strms), NEW last \in Int,
           NEW b, NEW c, FlowAt(b, c, strms, last),
           NEW i \in 1 .. NumOps - 1, strms[i - 1].queue # <<>>,
           NEW head, head = Head(strms[i - 1].queue),
           NEW tuples \in Seq(Messages),
           \A u \in RangeOf(tuples) : u # EndOfStream =>
               head # EndOfStream /\ u.arrived = head.arrived /\ Passed(i, head.arrived),
           head # EndOfStream /\ ReachesMean(head.arrived) => Holds(tuples, head.arrived),
           NEW out, out = [strms EXCEPT ![i - 1] = Dequeued(@), ![i] = Enqueued(@, tuples)]
    PROVE  FlowAt(b, c, out, last)
<1>1. /\ NumOps \in Nat /\ RedoStream \in 1 .. NumOps - 2 /\ i - 1 \in 0 .. NumOps - 1
      /\ i \in 0 .. NumOps - 1 /\ i # i - 1 /\ NumTuples \in Nat
  <2>1. NumOps \in Nat /\ RedoStream \in 1 .. NumOps - 2 /\ NumTuples \in Nat
    BY PlanShape, LeafIsFirst, ConstantsAssumption DEF RedoStream
  <2>2. i \in 1 .. NumOps - 1
    OBVIOUS
  <2>3. QED
    BY ONLY <2>1, <2>2
<1>2. PICK from : from = i - 1
  OBVIOUS
<1>3. strms \in [0 .. NumOps - 1 -> StreamType] /\ strms[RedoStream].backed
      /\ \A j \in 0 .. NumOps - 1 : strms[j].backed <=> j = RedoStream
  <2>1. StreamsOK(strms) /\ RedoStream \in 0 .. NumOps - 1
    BY <1>1
  <2>2. QED
    BY ONLY <2>1 DEF StreamsOK
<1>4. /\ out[from] = Dequeued(strms[from]) /\ out[i] = Enqueued(strms[i], tuples)
      /\ \A j \in 0 .. NumOps - 1 : j \notin {from, i} => out[j] = strms[j]
  BY <1>1, <1>2, <1>3
<1>5. /\ RangeOf(strms[from].queue) = RangeOf(out[from].queue) \cup {head}
      /\ out[from].backup = strms[from].backup
  BY <1>1, <1>2, <1>3, <1>4, QueueSplit
<1>6. /\ RangeOf(out[i].queue) = RangeOf(strms[i].queue) \cup RangeOf(tuples)
      /\ i = RedoStream =>
           RangeOf(out[i].backup) = RangeOf(strms[i].backup) \cup RangeOf(tuples)
  <2>1. PICK s : s = strms[i]
    OBVIOUS
  <2>2. s \in StreamType /\ tuples \in Seq(Messages)
    BY <1>1, <1>3, <2>1
  <2>3. RangeOf(Enqueued(s, tuples).queue) = RangeOf(s.queue) \cup RangeOf(tuples)
    BY ONLY <2>2, EnqueuedEndsBackup
  <2>4. Enqueued(s, tuples).backup = IF s.backed THEN s.backup \o tuples ELSE s.backup
    BY ONLY <2>2, EnqueuedEndsBackup
  <2>5. RangeOf(s.backup \o tuples) = RangeOf(s.backup) \cup RangeOf(tuples)
    BY <2>2, ConcatRange DEF StreamType
  <2>6. QED
    BY <1>1, <1>3, <1>4, <2>1, <2>3, <2>4, <2>5
<1>7. /\ b \in 0 .. NumTuples /\ c \in 0 .. NumTuples /\ b <= c /\ c <= last
      /\ \A j \in 0 .. NumOps - 1 : \A t \in RangeOf(strms[j].queue) :
             t # EndOfStream => t.arrived > c /\ Passed(j, t.arrived)
      /\ \A t \in RangeOf(strms[RedoStream].backup) :
             t # EndOfStream => t.arrived > b /\ Passed(RedoStream, t.arrived)
      /\ \A k \in Arrivals : k <= last /\ ReachesMean(k) =>
             /\ k > c => \E j \in 0 .. NumOps - 1 : Holds(strms[j].queue, k)
             /\ k > b => \/ Holds(strms[RedoStream].backup, k)
                         \/ \E j \in 0 .. RedoStream - 1 : Holds(strms[j].queue, k)
  BY DEF FlowAt
<1>8. head # EndOfStream => head.arrived > c /\ head.arrived \in Nat /\ head.arrived > b
  <2>1. head \in RangeOf(strms[from].queue)
    BY <1>5
  <2>2. head \in Messages
    BY <1>1, <1>2, <1>3, DequeuedStream
  <2>3. QED
    <3>1. head # EndOfStream => head \in Tuples
      BY <2>2 DEF Messages
    <3>2. \A t \in Tuples : t.arrived \in 1 .. NumTuples
      BY DEF Tuples, Arrivals
    <3>3. head # EndOfStream => head.arrived > c /\ head.arrived \in 1 .. NumTuples
      BY <1>1, <1>2, <1>7, <2>1, <3>1, <3>2
    <3>4. b \in 0 .. NumTuples /\ c \in 0 .. NumTuples /\ b <= c /\ NumTuples \in Nat
      BY <1>1, <1>7
    <3>5. QED
      BY ONLY <3>3, <3>4
<1>9. \A u \in RangeOf(tuples) : u # EndOfStream => u.arrived > c /\ u.arrived > b /\ Passed(i, u.arrived)
  BY <1>8
<1>10. \A j \in 0 .. NumOps - 1 : \A t \in RangeOf(out[j].queue) :
           t # EndOfStream => t.arrived > c /\ Passed(j, t.arrived)
  BY <1>1, <1>2, <1>4, <1>5, <1>6, <1>7, <1>9
<1>11. \A t \in RangeOf(out[RedoStream].backup) :
           t # EndOfStream => t.arrived > b /\ Passed(RedoStream, t.arrived)
  <2>1. CASE i = RedoStream
    BY ONLY <1>6, <1>7, <1>9, <2>1
  <2>2. CASE i # RedoStream
    <3>1. out[RedoStream].backup = strms[RedoStream].backup
      <4>1. RedoStream \in 0 .. NumOps - 1
        BY <1>1
      <4>2. RedoStream = from \/ RedoStream \notin {from, i}
        BY <2>2
      <4>3. QED
        BY ONLY <1>4, <1>5, <4>1, <4>2
    <3>2. QED
      BY ONLY <1>7, <3>1
  <2>3. QED
    BY <2>1, <2>2
<1>12. ASSUME NEW k, NEW j \in 0 .. NumOps - 1, Holds(strms[j].queue, k), ReachesMean(k)
       PROVE  Holds(out[j].queue, k) \/ (j = from /\ Holds(out[i].queue, k) /\ Holds(tuples, k))
  <2>1. PICK t \in RangeOf(strms[j].queue) : t # EndOfStream /\ t.arrived = k
    BY <1>12 DEF Holds
  <2>2. CASE j \notin {from, i}
    BY <1>4, <1>12, <2>2
  <2>3. CASE j = i
    <3>1. t \in RangeOf(out[i].queue)
      BY <1>6, <2>1, <2>3
    <3>2. QED
      BY <2>1, <2>3, <3>1 DEF Holds
  <2>4. CASE j = from /\ t \in RangeOf(out[from].queue)
    BY <2>1, <2>4 DEF Holds
  <2>5. CASE j = from /\ t = head
    <3>1. Holds(tuples, k)
      BY <1>12, <2>1, <2>5
    <3>2. Holds(out[i].queue, k)
      BY <1>6, <3>1 DEF Holds
    <3>3. QED
      BY <2>5, <3>1, <3>2
  <2>6. QED
    BY <1>5, <2>1, <2>2, <2>3, <2>4, <2>5
<1>13. \A k : Holds(strms[RedoStream].backup, k) => Holds(out[RedoStream].backup, k)
  <2>1. CASE i = RedoStream
    BY <1>6, <2>1 DEF Holds
  <2>2. CASE i # RedoStream
    <3>1. RedoStream \in 0 .. NumOps - 1
      BY <1>1
    <3>2. CASE RedoStream = from
      BY <1>5, <3>2
    <3>3. CASE RedoStream # from
      BY <1>4, <2>2, <3>1, <3>3
    <3>4. QED
      BY <3>2, <3>3
  <2>3. QED
    BY <2>1, <2>2
<1>14. ASSUME NEW k \in Arrivals, k <= last, ReachesMean(k), k > c
       PROVE  \E j \in 0 .. NumOps - 1 : Holds(out[j].queue, k)
  BY <1>1, <1>7, <1>12, <1>14
<1>15. ASSUME NEW k \in Arrivals, k <= last, ReachesMean(k), k > b
       PROVE  \/ Holds(out[RedoStream].backup, k)
              \/ \E j \in 0 .. RedoStream - 1 : Holds(out[j].queue, k)
  <2>1. CASE Holds(strms[RedoStream].backup, k)
    BY <1>13, <2>1
  <2>2. ASSUME NEW j \in 0 .. RedoStream - 1, Holds(strms[j].queue, k)
        PROVE  \/ Holds(out[RedoStream].backup, k)
               \/ \E l \in 0 .. RedoStream - 1 : Holds(out[l].queue, k)
    <3>1. j \in 0 .. NumOps - 1
      BY <1>1
    <3>2. CASE Holds(out[j].queue, k)
      BY <3>2
    <3>3. CASE j = from /\ Holds(out[i].queue, k) /\ Holds(tuples, k)
      <4>1. i \in 0 .. RedoStream - 1 \/ i = RedoStream
        BY <1>1, <1>2, <3>3
      <4>2. i = RedoStream => Holds(out[RedoStream].backup, k)
        BY <1>6, <3>3 DEF Holds
      <4>3. QED
        BY <3>3, <4>1, <4>2
    <3>4. QED
      BY <1>12, <1>15, <2>2, <3>1, <3>2, <3>3
  <2>3. QED
    BY <1>7, <1>15, <2>1, <2>2
<1>16. QED
  BY <1>7, <1>10, <1>11, <1>14, <1>15 DEF FlowAt

(* The mean takes a tuple: it is the next one that reaches the mean.       *)
LEMMA FlowTake ==
    ASSUME TypeOK, BackupInv, NoTwoMatches, HasData, turn = NumOps,
           NEW b, NEW c, FlowAt(b, c, streams, sent),
           NEW h, h = HeadTuple.arrived
    PROVE  /\ FlowAt(b, h, Taken, sent)
           /\ h \in Arrivals /\ h - 1 \in 0 .. NumTuples /\ h > c /\ c \in 0 .. NumTuples
           /\ ReachesMean(h)
           /\ Position(h) = Position(c) + 1 /\ Position(h - 1) = Position(c)
<1>1. PICK end, head, rest : end = NumOps - 1 /\ head = HeadTuple /\ rest = Taken
  OBVIOUS
<1>2. /\ NumOps \in Nat /\ RedoStream \in 1 .. NumOps - 2 /\ end \in 0 .. NumOps - 1
      /\ conf \in Configurations /\ StreamsOK(streams) /\ sent \in Nat /\ NumTuples \in Nat
      /\ RedoStream \in 0 .. NumOps - 1 /\ RedoStream # end
      /\ \A j \in 0 .. RedoStream - 1 : j \in 0 .. NumOps - 1 /\ j # end
  BY <1>1, RedoPlace
<1>3. /\ streams \in [0 .. NumOps - 1 -> StreamType] /\ streams[end].queue # <<>>
      /\ head = Head(streams[end].queue) /\ head \in Tuples /\ head # EndOfStream
  BY <1>1, <1>2, HeadIsTuple DEF StreamsOK, HasData, InputOf, HeadTuple
<1>4. /\ rest[end] = Dequeued(streams[end])
      /\ \A j \in 0 .. NumOps - 1 : j # end => rest[j] = streams[j]
  BY <1>1, <1>2, <1>3 DEF Taken
<1>5. RangeOf(streams[end].queue) = RangeOf(rest[end].queue) \cup {head}
  BY <1>2, <1>3, <1>4, QueueSplit
<1>6. /\ b \in 0 .. NumTuples /\ c \in 0 .. NumTuples /\ b <= c /\ c <= sent
      /\ \A j \in 0 .. NumOps - 1 : \A t \in RangeOf(streams[j].queue) :
             t # EndOfStream => t.arrived > c /\ Passed(j, t.arrived)
      /\ \A t \in RangeOf(streams[RedoStream].backup) :
             t # EndOfStream => t.arrived > b /\ Passed(RedoStream, t.arrived)
      /\ \A k \in Arrivals : k <= sent /\ ReachesMean(k) =>
             /\ k > c => \E j \in 0 .. NumOps - 1 : Holds(streams[j].queue, k)
             /\ k > b => \/ Holds(streams[RedoStream].backup, k)
                         \/ \E j \in 0 .. RedoStream - 1 : Holds(streams[j].queue, k)
  BY DEF FlowAt
<1>7. h \in Arrivals /\ h > c /\ ReachesMean(h)
  <2>1. h \in Arrivals
    BY <1>1, <1>3 DEF Tuples
  <2>2. head \in RangeOf(streams[end].queue)
    BY <1>5
  <2>3. h > c /\ Passed(end, h)
    BY <1>1, <1>2, <1>3, <1>6, <2>2
  <2>4. QED
    BY <1>1, <1>2, <2>1, <2>3, ReachesPassed
<1>8. /\ UpTo(head, sent)
      /\ \A j \in 0 .. NumOps - 1 : \A u \in RangeOf(rest[j].queue) : Before(head, u)
  <2>1. InputOf(turn) # <<>>
    BY DEF HasData
  <2>2. QED
    BY <1>1, <2>1, TakenBacked
<1>9. h <= sent
  BY <1>1, <1>3, <1>8 DEF UpTo
<1>10. \A j \in 0 .. NumOps - 1 : \A u \in RangeOf(rest[j].queue) :
           u # EndOfStream => u.arrived \in Nat /\ u.arrived > h /\ Passed(j, u.arrived)
  <2>1. ASSUME NEW j \in 0 .. NumOps - 1, NEW u \in RangeOf(rest[j].queue), u # EndOfStream
        PROVE  u.arrived \in Nat /\ u.arrived > h /\ Passed(j, u.arrived)
    <3>1. u \in RangeOf(streams[j].queue)
      BY <1>4, <1>5, <2>1
    <3>2. u \in Tuples
      BY <1>3, <2>1, <3>1 DEF StreamType, RangeOf, Messages
    <3>3. h + 1 <= u.arrived
      BY <1>1, <1>8, <2>1 DEF Before, Gap
    <3>4. u.arrived \in Nat /\ h \in Nat
      BY <1>7, <3>2 DEF Tuples, Arrivals
    <3>5. QED
      BY <1>6, <2>1, <3>1, <3>3, <3>4
  <2>2. QED
    BY <2>1
<1>11. ASSUME NEW j \in 0 .. NumOps - 1, NEW k, Holds(streams[j].queue, k)
       PROVE  Holds(rest[j].queue, k) \/ k = h
  BY <1>1, <1>4, <1>5, <1>11 DEF Holds
<1>12. ASSUME NEW k \in c + 1 .. h - 1 PROVE ~ReachesMean(k)
  <2>1. SUFFICES ASSUME ReachesMean(k) PROVE FALSE
    OBVIOUS
  <2>2. k \in Arrivals /\ k <= sent /\ k > c /\ k < h
    BY <1>2, <1>6, <1>7, <1>9, <1>12 DEF Arrivals
  <2>3. PICK j \in 0 .. NumOps - 1 : Holds(streams[j].queue, k)
    BY <1>6, <2>1, <2>2
  <2>4. Holds(rest[j].queue, k)
    BY <1>7, <1>11, <2>2, <2>3 DEF Arrivals
  <2>5. PICK u \in RangeOf(rest[j].queue) : u # EndOfStream /\ u.arrived = k
    BY <2>4 DEF Holds
  <2>6. u.arrived > h
    BY <1>10, <2>5
  <2>7. k > h /\ k < h /\ k \in Nat /\ h \in Nat
    BY <1>7, <2>2, <2>5, <2>6 DEF Arrivals
  <2>8. QED
    BY <2>7
<1>13. c \in Nat /\ h - 1 \in Nat /\ c <= h - 1 /\ h - 1 \in 0 .. NumTuples - 1 /\ (h - 1) + 1 = h
       /\ h \in 0 .. NumTuples /\ h - 1 \in 0 .. NumTuples
  BY <1>2, <1>6, <1>7 DEF Arrivals
<1>14. Position(h - 1) = Position(c)
  BY <1>12, <1>13, PositionGap
<1>15. Position(h) = Position(c) + 1
  BY <1>7, <1>13, <1>14, PositionStep
<1>16. ASSUME NEW k \in Arrivals, k <= sent, ReachesMean(k), k > h
       PROVE  \E j \in 0 .. NumOps - 1 : Holds(rest[j].queue, k)
  <2>1. k > c /\ k # h
    BY <1>6, <1>7, <1>16 DEF Arrivals
  <2>2. QED
    BY <1>6, <1>11, <1>16, <2>1
<1>17. FlowAt(b, h, rest, sent)
  <2>1. b <= h
    BY <1>6, <1>7 DEF Arrivals
  <2>2. rest[RedoStream] = streams[RedoStream]
    BY <1>2, <1>4
  <2>3. \A j \in 0 .. RedoStream - 1 : rest[j] = streams[j]
    BY <1>2, <1>4
  <2>4. QED
    BY <1>6, <1>9, <1>10, <1>13, <1>16, <2>1, <2>2, <2>3 DEF FlowAt
<1>18. QED
  BY <1>1, <1>6, <1>7, <1>13, <1>14, <1>15, <1>17

(* The mean takes the end of the stream. *)
LEMMA FlowEnds ==
    ASSUME TypeOK, InputOf(turn) # <<>>, HeadTuple = EndOfStream, turn = NumOps,
           NEW b, NEW c, FlowAt(b, c, streams, sent)
    PROVE  FlowAt(b, c, Taken, sent)
<1>1. PICK end, rest : end = NumOps - 1 /\ rest = Taken
  OBVIOUS
<1>2. /\ end \in 0 .. NumOps - 1
      /\ RedoStream \in 0 .. NumOps - 1 /\ RedoStream # end
      /\ \A j \in 0 .. RedoStream - 1 : j \in 0 .. NumOps - 1 /\ j # end
      /\ streams \in [0 .. NumOps - 1 -> StreamType] /\ streams[end].queue # <<>>
      /\ Head(streams[end].queue) = EndOfStream
  BY <1>1, RedoPlace DEF StreamsOK, InputOf, HeadTuple
<1>3. /\ rest[end] = Dequeued(streams[end])
      /\ \A j \in 0 .. NumOps - 1 : j # end => rest[j] = streams[j]
  BY <1>1, <1>2 DEF Taken
<1>4. RangeOf(streams[end].queue) = RangeOf(rest[end].queue) \cup {EndOfStream}
  BY <1>2, <1>3, QueueSplit
<1>5. \A j \in 0 .. NumOps - 1 : \A t \in RangeOf(rest[j].queue) : t \in RangeOf(streams[j].queue)
  BY <1>3, <1>4
<1>6. \A j \in 0 .. NumOps - 1 : \A k : Holds(streams[j].queue, k) => Holds(rest[j].queue, k)
  BY <1>3, <1>4 DEF Holds
<1>7. rest[RedoStream] = streams[RedoStream] /\ \A j \in 0 .. RedoStream - 1 : rest[j] = streams[j]
  BY <1>2, <1>3
<1>8. FlowAt(b, c, rest, sent)
  BY <1>5, <1>6, <1>7 DEF FlowAt
<1>9. QED
  BY <1>1, <1>8

(* A restart takes the query back to where the backup begins.              *)
LEMMA FlowRestart ==
    ASSUME conf \in Configurations, NEW strms, StreamsOK(strms), NEW last \in Nat,
           NEW b, NEW c, FlowAt(b, c, strms, last)
    PROVE  FlowAt(b, b, Restarted(strms), last)
<1> DEFINE restarted == Restarted(strms)
<1>1. /\ RedoStream \in 0 .. NumOps - 1 /\ RedoLeaf = RedoStream + 1 /\ NumOps \in Nat
      /\ NumTuples \in Nat /\ \A j \in 0 .. RedoStream - 1 : j \in 0 .. NumOps - 1
  BY LeafIsFirst, PlanShape, ConstantsAssumption DEF RedoStream
<1>2. strms \in [0 .. NumOps - 1 -> StreamType] /\ strms[RedoStream] \in StreamType
  BY <1>1 DEF StreamsOK
<1>3. restarted = [j \in 0 .. NumOps - 1 |->
          IF j = RedoStream THEN Recovered(Cleared(strms[j]))
          ELSE IF j \in RedoOps THEN Cleared(strms[j]) ELSE strms[j]]
  BY <1>2 DEF Restarted
<1>4. \A j \in 0 .. NumOps - 1 : j >= RedoLeaf => Held(restarted[j]) = {}
  BY RestartingKeepsStreams
<1> HIDE DEF restarted
<1>5. restarted[RedoStream].queue = strms[RedoStream].backup
      /\ restarted[RedoStream].backup = strms[RedoStream].backup
  BY <1>1, <1>2, <1>3, ClearedStream
<1>6. \A j \in 0 .. RedoStream - 1 : restarted[j] = strms[j]
  BY <1>1, <1>3 DEF RedoOps
<1>7. /\ b \in 0 .. NumTuples /\ c \in 0 .. NumTuples /\ b <= c /\ c <= last
      /\ \A j \in 0 .. NumOps - 1 : \A t \in RangeOf(strms[j].queue) :
             t # EndOfStream => t.arrived > c /\ Passed(j, t.arrived)
      /\ \A t \in RangeOf(strms[RedoStream].backup) :
             t # EndOfStream => t.arrived > b /\ Passed(RedoStream, t.arrived)
      /\ \A k \in Arrivals : k <= last /\ ReachesMean(k) =>
             (k > b => \/ Holds(strms[RedoStream].backup, k)
                       \/ \E j \in 0 .. RedoStream - 1 : Holds(strms[j].queue, k))
  BY DEF FlowAt
<1>8. ASSUME NEW j \in 0 .. NumOps - 1, NEW t \in RangeOf(restarted[j].queue), t # EndOfStream
      PROVE  t.arrived > b /\ Passed(j, t.arrived)
  <2>1. CASE j = RedoStream
    BY <1>5, <1>7, <1>8, <2>1
  <2>2. CASE j \in 0 .. RedoStream - 1
    <3>1. t \in RangeOf(strms[j].queue) /\ t \in Tuples
      BY <1>2, <1>6, <1>8, <2>2 DEF StreamType, RangeOf, Messages
    <3>2. t.arrived \in Nat
      BY <3>1 DEF Tuples, Arrivals
    <3>3. t.arrived > c /\ Passed(j, t.arrived)
      BY <1>7, <1>8, <3>1
    <3>4. QED
      BY <1>7, <3>2, <3>3
  <2>3. CASE j >= RedoLeaf
    BY <1>4, <1>8, <2>3 DEF Held
  <2>4. QED
    BY <1>1, <2>1, <2>2, <2>3
<1>9. FlowAt(b, b, restarted, last)
  <2>1. b <= b /\ b <= last
    BY <1>1, <1>7
  <2>2. ASSUME NEW k \in Arrivals, k <= last, ReachesMean(k), k > b
        PROVE  /\ \E j \in 0 .. NumOps - 1 : Holds(restarted[j].queue, k)
               /\ \/ Holds(restarted[RedoStream].backup, k)
                  \/ \E j \in 0 .. RedoStream - 1 : Holds(restarted[j].queue, k)
    <3>1. CASE Holds(strms[RedoStream].backup, k)
      BY <1>1, <1>5, <3>1
    <3>2. CASE \E j \in 0 .. RedoStream - 1 : Holds(strms[j].queue, k)
      BY <1>1, <1>6, <3>2
    <3>3. QED
      BY <1>7, <2>2, <3>1, <3>2
  <2>3. QED
    BY <1>5, <1>7, <1>8, <2>1, <2>2 DEF FlowAt
<1>10. QED
  BY <1>9 DEF restarted

(* An eviction moves the place where the backup begins.                    *)
LEMMA FlowEvict ==
    ASSUME conf \in Configurations, NEW strms, StreamsOK(strms), NEW last \in Nat,
           StreamsInOrder(strms, last),
           NEW b, NEW c, FlowAt(b, c, strms, last),
           NEW lwm \in Nat, b < lwm, lwm - 1 <= c,
           NEW evicted, evicted = [strms EXCEPT ![RedoStream] = Evicted(@, lwm)]
    PROVE  FlowAt(lwm - 1, c, evicted, last)
<1>1. /\ RedoStream \in 0 .. NumOps - 1 /\ NumTuples \in Nat /\ NumOps \in Nat
      /\ \A j \in 0 .. RedoStream - 1 : j \in 0 .. NumOps - 1 /\ j # RedoStream
  BY LeafIsFirst, PlanShape, ConstantsAssumption DEF RedoStream
<1>2. strms \in [0 .. NumOps - 1 -> StreamType] /\ strms[RedoStream] \in StreamType
      /\ Sorted(strms[RedoStream].backup)
  BY <1>1 DEF StreamsOK, StreamsInOrder
<1>3. PICK s, old : s = evicted[RedoStream] /\ old = strms[RedoStream]
  OBVIOUS
<1>4. s = Evicted(old, lwm)
  BY <1>1, <1>2, <1>3
<1>5. /\ RangeOf(s.backup) \subseteq RangeOf(old.backup)
      /\ \A t \in RangeOf(s.backup) : ~OlderThan(t, lwm)
      /\ \A t \in RangeOf(old.backup) : ~OlderThan(t, lwm) => t \in RangeOf(s.backup)
      /\ s.queue = old.queue
  <2>1. old \in StreamType /\ Sorted(old.backup)
    BY <1>2, <1>3
  <2>2. \A t \in RangeOf(old.backup) : ~OlderThan(t, lwm) => t \in RangeOf(s.backup)
    BY ONLY <1>4, <2>1, EvictedKeeps
  <2>3. s.queue = old.queue
    BY ONLY <1>4, <2>1, EvictedStream
  <2> DEFINE kept == {k \in DOMAIN old.backup : ~OlderThan(old.backup[k], lwm)}
             rest == Chosen(old.backup, kept)
  <2>4. s.backup = rest
    <3>1. old = [queue |-> old.queue, backup |-> old.backup, backed |-> old.backed]
      BY <2>1 DEF StreamType
    <3>2. s = [old EXCEPT !.backup = rest]
      BY <1>4 DEF Evicted
    <3>3. QED
      BY <3>1, <3>2
  <2>5. /\ rest \in Seq(Messages) /\ DOMAIN rest = 1 .. Cardinality(kept)
        /\ \A n \in 1 .. Cardinality(kept) :
               Nth(kept, n) \in kept /\ rest[n] = old.backup[Nth(kept, n)]
    <3>1. old.backup \in Seq(Messages) /\ kept \in SUBSET DOMAIN old.backup
      BY <2>1 DEF StreamType
    <3> HIDE DEF kept
    <3>2. DOMAIN rest = 1 .. Cardinality(kept)
      BY DEF Chosen
    <3>3. QED
      BY <3>1, <3>2, ChosenProperties
  <2> HIDE DEF rest
  <2>6. \A t \in RangeOf(rest) : t \in RangeOf(old.backup) /\ ~OlderThan(t, lwm)
    BY <2>5 DEF RangeOf
  <2>7. QED
    BY <2>2, <2>3, <2>4, <2>6
<1>6. \A j \in 0 .. NumOps - 1 : evicted[j].queue = strms[j].queue
  BY <1>1, <1>2, <1>3, <1>5
<1>7. /\ b \in 0 .. NumTuples /\ c \in 0 .. NumTuples /\ b <= c /\ c <= last
      /\ \A j \in 0 .. NumOps - 1 : \A t \in RangeOf(strms[j].queue) :
             t # EndOfStream => t.arrived > c /\ Passed(j, t.arrived)
      /\ \A t \in RangeOf(strms[RedoStream].backup) :
             t # EndOfStream => t.arrived > b /\ Passed(RedoStream, t.arrived)
      /\ \A k \in Arrivals : k <= last /\ ReachesMean(k) =>
             /\ k > c => \E j \in 0 .. NumOps - 1 : Holds(strms[j].queue, k)
             /\ k > b => \/ Holds(strms[RedoStream].backup, k)
                         \/ \E j \in 0 .. RedoStream - 1 : Holds(strms[j].queue, k)
  BY DEF FlowAt
<1>8. \A t \in RangeOf(s.backup) :
          t # EndOfStream => t.arrived > lwm - 1 /\ Passed(RedoStream, t.arrived)
  <2>1. \A t \in RangeOf(old.backup) : t # EndOfStream => t.arrived \in Nat
    BY <1>2, <1>3 DEF StreamType, RangeOf, Messages, Tuples, Arrivals
  <2>2. \A t \in RangeOf(s.backup) : t # EndOfStream => t.arrived \in Nat /\ ~(t.arrived < lwm)
    BY <1>5, <2>1 DEF OlderThan
  <2>3. QED
    BY <1>3, <1>5, <1>7, <2>2
<1>9. ASSUME NEW k \in Arrivals, k > lwm - 1, Holds(old.backup, k)
      PROVE  Holds(s.backup, k)
  <2>1. PICK t \in RangeOf(old.backup) : t # EndOfStream /\ t.arrived = k
    BY <1>9 DEF Holds
  <2>2. ~OlderThan(t, lwm)
    BY <1>9, <2>1 DEF OlderThan, Arrivals
  <2>3. QED
    BY <1>5, <2>1, <2>2 DEF Holds
<1>10. ASSUME NEW k \in Arrivals, k <= last, ReachesMean(k), k > lwm - 1
       PROVE  \/ Holds(s.backup, k)
              \/ \E j \in 0 .. RedoStream - 1 : Holds(evicted[j].queue, k)
  <2>1. k > b
    BY <1>7, <1>10 DEF Arrivals
  <2>2. QED
    BY <1>1, <1>3, <1>6, <1>7, <1>9, <1>10, <2>1
<1>11. lwm - 1 \in 0 .. NumTuples
  BY <1>1, <1>7
<1>12. QED
  BY <1>3, <1>6, <1>7, <1>8, <1>10, <1>11 DEF FlowAt

LEMMA SentTuple ==
    ASSUME NEW k \in Arrivals
    PROVE  InputTuple(k) \in Tuples /\ InputTuple(k).arrived = k
<1>1. <<>> \in Seq(Nat) /\ {} \in SUBSET (Nat \X Versions)
  OBVIOUS
<1>2. QED
  BY <1>1 DEF InputTuple, Tuples

(* The sender sends a tuple, or the end of the stream.                     *)
LEMMA FlowSend ==
    ASSUME conf \in Configurations, NEW strms, StreamsOK(strms), NEW last \in 0 .. NumTuples,
           NEW b, NEW c, FlowAt(b, c, strms, last),
           NEW tuples, tuples = IF last < NumTuples THEN <<InputTuple(last + 1)>> ELSE <<EndOfStream>>,
           tuples \in Seq(Messages),
           NEW out, out = [strms EXCEPT ![0] = Enqueued(@, tuples)]
    PROVE  FlowAt(b, c, out, last + 1)
<1>1. /\ RedoStream \in 1 .. NumOps - 1 /\ NumTuples \in Nat /\ NumOps \in Nat
      /\ 0 \in 0 .. NumOps - 1 /\ 0 \in 0 .. RedoStream - 1
      /\ \A j \in 0 .. RedoStream - 1 : j \in 0 .. NumOps - 1
  BY LeafIsFirst, PlanShape, ConstantsAssumption DEF RedoStream
<1>2. strms \in [0 .. NumOps - 1 -> StreamType] /\ strms[0] \in StreamType
  BY <1>1 DEF StreamsOK
<1>3. /\ RangeOf(out[0].queue) = RangeOf(strms[0].queue) \cup RangeOf(tuples)
      /\ \A j \in 1 .. NumOps - 1 : out[j] = strms[j]
  <2>1. PICK s : s = strms[0]
    OBVIOUS
  <2>2. s \in StreamType /\ tuples \in Seq(Messages)
    BY <1>2, <2>1
  <2>3. RangeOf(Enqueued(s, tuples).queue) = RangeOf(s.queue) \cup RangeOf(tuples)
    BY ONLY <2>2, EnqueuedEndsBackup
  <2>4. out[0] = Enqueued(s, tuples) /\ \A j \in 1 .. NumOps - 1 : out[j] = strms[j]
    BY <1>1, <1>2, <2>1
  <2>5. QED
    BY <2>1, <2>3, <2>4
<1>4. /\ \A u \in RangeOf(tuples) : u # EndOfStream => u.arrived = last + 1 /\ last < NumTuples
      /\ last < NumTuples => Holds(tuples, last + 1)
  <2>1. CASE last < NumTuples
    <3> DEFINE t == InputTuple(last + 1)
    <3>0. last + 1 \in Arrivals
      BY <1>1, <2>1 DEF Arrivals
    <3>1. tuples = <<t>> /\ t.arrived = last + 1 /\ t \in Tuples
      BY <2>1, <3>0, SentTuple
    <3> HIDE DEF t
    <3>2. RangeOf(<<t>>) = {t}
      BY DEF RangeOf
    <3>4. t # EndOfStream
      BY <3>1, EndAssumption
    <3>5. QED
      BY <2>1, <3>1, <3>2, <3>4 DEF Holds
  <2>2. CASE ~(last < NumTuples)
    <3>1. tuples = <<EndOfStream>> /\ RangeOf(<<EndOfStream>>) = {EndOfStream}
      BY <2>2 DEF RangeOf
    <3>2. QED
      BY <2>2, <3>1
  <2>3. QED
    BY <2>1, <2>2
<1> HIDE DEF Holds
<1>5. /\ b \in 0 .. NumTuples /\ c \in 0 .. NumTuples /\ b <= c /\ c <= last
      /\ \A j \in 0 .. NumOps - 1 : \A t \in RangeOf(strms[j].queue) :
             t # EndOfStream => t.arrived > c /\ Passed(j, t.arrived)
      /\ \A t \in RangeOf(strms[RedoStream].backup) :
             t # EndOfStream => t.arrived > b /\ Passed(RedoStream, t.arrived)
      /\ \A k \in Arrivals : k <= last /\ ReachesMean(k) =>
             /\ k > c => \E j \in 0 .. NumOps - 1 : Holds(strms[j].queue, k)
             /\ k > b => \/ Holds(strms[RedoStream].backup, k)
                         \/ \E j \in 0 .. RedoStream - 1 : Holds(strms[j].queue, k)
  BY DEF FlowAt
<1>6. Passed(0, last + 1) /\ last + 1 > c
  BY <1>1, <1>5 DEF Passed
<1>7. ASSUME NEW j \in 0 .. NumOps - 1, NEW t \in RangeOf(out[j].queue), t # EndOfStream
      PROVE  t.arrived > c /\ Passed(j, t.arrived)
  <2>1. CASE j = 0
    BY <1>1, <1>3, <1>4, <1>5, <1>6, <1>7, <2>1
  <2>2. CASE j \in 1 .. NumOps - 1
    BY <1>3, <1>5, <1>7, <2>2
  <2>3. QED
    BY <1>1, <2>1, <2>2
<1>8. ASSUME NEW j \in 0 .. NumOps - 1, NEW k, Holds(strms[j].queue, k)
      PROVE  Holds(out[j].queue, k)
  <2>1. CASE j = 0
    BY <1>3, <1>8, <2>1 DEF Holds
  <2>2. CASE j \in 1 .. NumOps - 1
    BY <1>3, <1>8, <2>2
  <2>3. QED
    BY <1>1, <2>1, <2>2
<1>9. out[RedoStream] = strms[RedoStream]
  BY <1>1, <1>3
<1>10. ASSUME NEW k \in Arrivals, k <= last + 1, ReachesMean(k)
       PROVE  /\ k > c => \E j \in 0 .. NumOps - 1 : Holds(out[j].queue, k)
              /\ k > b => \/ Holds(out[RedoStream].backup, k)
                          \/ \E j \in 0 .. RedoStream - 1 : Holds(out[j].queue, k)
  <2>1. CASE k = last + 1
    <3>1. Holds(tuples, k)
      BY <1>1, <1>4, <2>1 DEF Arrivals
    <3>2. Holds(out[0].queue, k)
      BY <1>3, <3>1 DEF Holds
    <3>3. QED
      BY <1>1, <3>2
  <2>2. CASE k # last + 1
    <3>1. k <= last
      BY <1>1, <1>10, <2>2 DEF Arrivals
    <3>2. QED
      BY <1>1, <1>5, <1>8, <1>9, <1>10, <3>1
  <2>3. QED
    BY <2>1, <2>2
<1>11. c <= last + 1
  BY <1>1, <1>5
<1>12. QED
  BY <1>5, <1>7, <1>9, <1>10, <1>11 DEF FlowAt
-----------------------------------------------------------------------------
(* The line and the windows *)

(* The mean takes a tuple that has arrived at h into the line.             *)
LEMMA FlowExtends ==
    ASSUME NEW n, NEW line, NEW t, NEW d, NEW next, Extends(n, line, t, d, next),
           NEW outworn \in Nat, d \in {0, outworn},
           NEW b \in Int, NEW c, LineFlows(n, line, outworn, b, c),
           Position(c) \in Nat, \A k \in DOMAIN line : Position(line[k].arrived) \in Nat,
           ReachesMean(t.arrived), t.arrived > b,
           Position(t.arrived) = Position(c) + 1
    PROVE  /\ \A k \in 1 .. (n + 1) - d : k + d > outworn =>
                  /\ ReachesMean(next[k].arrived) /\ next[k].arrived > b
                  /\ Position(next[k].arrived) + (((n + 1) - d) - k) = Position(t.arrived)
           /\ From((n + 1) - d, outworn - d, t.arrived) = From(n, outworn, c)
<1>1. /\ n \in Nat /\ d \in 0 .. n
      /\ DOMAIN line = 1 .. n /\ DOMAIN next = 1 .. (n + 1) - d
      /\ \A k \in 1 .. (n + 1) - d : next[k] = IF k + d <= n THEN line[k + d] ELSE t
  BY DEF Extends
<1>2. ASSUME NEW k \in 1 .. (n + 1) - d, k + d > outworn
      PROVE  /\ ReachesMean(next[k].arrived) /\ next[k].arrived > b
             /\ Position(next[k].arrived) + (((n + 1) - d) - k) = Position(t.arrived)
  <2>1. CASE k + d <= n
    <3>1. k + d \in outworn + 1 .. n /\ k + d \in DOMAIN line /\ next[k] = line[k + d]
      BY <1>1, <1>2, <2>1
    <3>2. PICK m : m = k + d
      OBVIOUS
    <3>3. /\ ReachesMean(line[m].arrived) /\ line[m].arrived > b
          /\ Position(line[m].arrived) + (n - m) = Position(c)
      BY <3>1, <3>2 DEF LineFlows
    <3>4. PICK p, q : p = Position(line[m].arrived) /\ q = Position(c)
      OBVIOUS
    <3>5. p \in Nat /\ q \in Nat /\ p + (n - m) = q
      BY <3>1, <3>2, <3>3, <3>4
    <3>6. p + (((n + 1) - d) - k) = q + 1
      BY <1>1, <1>2, <3>2, <3>5
    <3>7. QED
      BY <3>1, <3>2, <3>3, <3>4, <3>6
  <2>2. CASE ~(k + d <= n)
    <3>1. next[k] = t /\ ((n + 1) - d) - k = 0
      BY <1>1, <1>2, <2>2
    <3>2. QED
      BY <3>1
  <2>3. QED
    BY <2>1, <2>2
<1>3. From((n + 1) - d, outworn - d, t.arrived) = From(n, outworn, c)
  <2>1. PICK q : q = Position(c)
    OBVIOUS
  <2>2. q \in Nat
    BY <2>1
  <2>3. (q + 1) - (((n + 1) - d) - (outworn - d)) + 1 = q - (n - outworn) + 1
    BY <1>1, <2>2
  <2>4. QED
    BY <2>1, <2>3 DEF From
<1>4. QED
  BY <1>2, <1>3

(* One more window *)
LEMMA WindowsGrow ==
    ASSUME NEW S, NEW wins \in Seq(S), WindowsFollow(wins), NEW w \in S,
           Contiguous(w), Start(w) \in Nexts(wins)
    PROVE  /\ WindowsFollow(Append(wins, w)) /\ Append(wins, w) # <<>>
           /\ Append(wins, w)[Len(Append(wins, w))] = w
<1>1. PICK more, n : more = Append(wins, w) /\ n = Len(wins)
  OBVIOUS
<1>2. /\ n \in Nat /\ DOMAIN wins = 1 .. n /\ (wins = <<>> <=> n = 0)
      /\ Len(more) = n + 1 /\ DOMAIN more = 1 .. n + 1 /\ more[n + 1] = w
      /\ \A k \in 1 .. n : more[k] = wins[k]
      /\ more # <<>>
  <2>1. more \in Seq(S) /\ Len(more) = n + 1 /\ more[n + 1] = w /\ n \in Nat
        /\ \A k \in 1 .. n : more[k] = wins[k]
    BY <1>1, AppendProperties, LenProperties
  <2>2. DOMAIN more = 1 .. n + 1 /\ DOMAIN wins = 1 .. n /\ (wins = <<>> <=> n = 0)
    BY <1>1, <2>1, EmptySeq, LenProperties
  <2>3. more # <<>>
    BY <2>1
  <2>4. QED
    BY <2>1, <2>2, <2>3
<1>3. \A k \in DOMAIN more : Contiguous(more[k])
  <2>1. \A k \in 1 .. n + 1 : k \in 1 .. n \/ k = n + 1
    BY <1>2
  <2>2. QED
    BY <1>2, <2>1 DEF WindowsFollow
<1>4. Start(more[1]) = 1
  <2>1. CASE n = 0
    BY <1>2, <2>1 DEF Nexts
  <2>2. CASE n # 0
    BY <1>2, <2>2 DEF WindowsFollow
  <2>3. QED
    BY <2>1, <2>2
<1>5. ASSUME NEW k \in 1 .. n PROVE Start(more[k + 1]) \in NextStarts(Start(more[k]))
  <2>1. CASE k = n
    BY <1>1, <1>2, <1>5, <2>1 DEF Nexts
  <2>2. CASE k # n
    <3>1. k \in 1 .. n - 1 /\ k + 1 \in 1 .. n
      BY <1>2, <1>5, <2>2
    <3>2. QED
      BY <1>1, <1>2, <3>1 DEF WindowsFollow
  <2>3. QED
    BY <2>1, <2>2
<1>6. Len(more) - 1 = n
  BY <1>2
<1>7. QED
  BY <1>1, <1>2, <1>3, <1>4, <1>5, <1>6 DEF WindowsFollow
-----------------------------------------------------------------------------
(* The operators before the mean *)

LEMMA OnlyStreamsFlow ==
    ASSUME FlowInv, UNCHANGED <<conf, synopsis, committed>>, Windows' = Windows,
           \A b, c : Flowing /\ FlowAt(b, c, streams, sent) => FlowAt(b, c, streams', sent')
    PROVE  FlowInv'
<1>1. CASE Flowing
  <2>1. PICK b \in 0 .. NumTuples, c \in 0 .. NumTuples :
            /\ FlowAt(b, c, streams, sent)
            /\ LineFlows(LineLength(conf.win, synopsis), Line(conf.win, synopsis),
                         Outworn(conf.win, synopsis), b, c)
            /\ NextFollows(Windows, committed,
                           From(LineLength(conf.win, synopsis), Outworn(conf.win, synopsis), c), b)
    BY <1>1 DEF FlowInv
  <2>2. FlowAt(b, c, streams', sent') /\ WindowsFollow(Windows)
    BY <1>1, <2>1 DEF FlowInv
  <2>3. /\ LineLength(conf.win, synopsis') = LineLength(conf.win, synopsis)
        /\ Line(conf.win, synopsis') = Line(conf.win, synopsis)
        /\ Outworn(conf.win, synopsis') = Outworn(conf.win, synopsis)
        /\ committed' = committed
    OBVIOUS
  <2>4. QED
    BY <2>1, <2>2, <2>3, FlowStays
<1>2. CASE ~Flowing
  <2>1. 0 \in 0 .. NumTuples
    BY ConstantsAssumption
  <2>2. QED
    BY <1>2, <2>1, FlowStays
<1>3. QED
  BY <1>1, <1>2

LEMMA SameFlow ==
    ASSUME FlowInv, UNCHANGED <<conf, synopsis, committed, streams, sent, results>>
    PROVE  FlowInv'
<1>1. Windows' = Windows
  BY DEF Windows
<1>2. QED
  BY <1>1, OnlyStreamsFlow

LEMMA PassedNext ==
    ASSUME NEW i \in Nat, i >= 1, NEW k, Passed(i - 1, k),
           Kind(i) = "combine" => Matches[RelationOf(i)][k] = 1,
           Kind(i) = "select" => k \in Selected
    PROVE  Passed(i, k)
<1>1. \A l \in 1 .. i : l \in 1 .. i - 1 \/ l = i
  OBVIOUS
<1>2. QED
  BY <1>1 DEF Passed

(* What an operator makes of a tuple is what the flow expects of it.       *)
LEMMA OutputFlows ==
    ASSUME TypeOK, FlowInv, InputOf(turn) # <<>>, turn # NumOps,
           NEW tuples \in Seq(Messages), Output(tuples),
           NEW head, head = HeadTuple,
           Flowing => \A u \in RangeOf(tuples) : u # EndOfStream =>
               /\ head # EndOfStream /\ u.arrived = head.arrived
               /\ Kind(turn) = "combine" => Matches[RelationOf(turn)][head.arrived] = 1
               /\ Kind(turn) = "select" => head.arrived \in Selected,
           Flowing => (head # EndOfStream /\ ReachesMean(head.arrived) =>
                          Holds(tuples, head.arrived)),
           UNCHANGED <<conf, sent, synopsis, committed, results>>
    PROVE  FlowInv'
<1>1. PICK i, strms, out : i = turn /\ strms = streams /\ out = streams'
  OBVIOUS
<1>2. /\ conf \in Configurations /\ StreamsOK(strms) /\ sent \in Int
      /\ i \in 1 .. NumOps - 1 /\ i \in Nat /\ i >= 1 /\ i - 1 \in 0 .. NumOps - 1
      /\ \A j \in 0 .. NumOps - 1 : strms[j] \in StreamType
  <2>1. /\ conf \in Configurations /\ StreamsOK(strms) /\ sent \in Int
        /\ \A j \in 0 .. NumOps - 1 : strms[j] \in StreamType
    BY <1>1, RedoPlace
  <2>2. i \in 1 .. NumOps - 1 /\ NumOps \in Nat
    BY <1>1, RedoPlace
  <2>3. i \in Nat /\ i >= 1 /\ i - 1 \in 0 .. NumOps - 1
    BY ONLY <2>2
  <2>4. QED
    BY <2>1, <2>2, <2>3
<1>3. /\ strms[i - 1].queue # <<>> /\ head = Head(strms[i - 1].queue)
      /\ out = [strms EXCEPT ![i - 1] = Dequeued(@), ![i] = Enqueued(@, tuples)]
  BY <1>1 DEF InputOf, HeadTuple, Output
<1>4. head \in RangeOf(strms[i - 1].queue)
  BY <1>2, <1>3, QueueSplit
<1>5. ASSUME NEW b, NEW c, Flowing, FlowAt(b, c, strms, sent) PROVE FlowAt(b, c, out, sent)
  <2>1. head # EndOfStream => Passed(i - 1, head.arrived)
    BY <1>2, <1>4, <1>5 DEF FlowAt
  <2>2. \A u \in RangeOf(tuples) : u # EndOfStream =>
            head # EndOfStream /\ u.arrived = head.arrived /\ Passed(i, head.arrived)
    BY <1>1, <1>2, <1>5, <2>1, PassedNext
  <2>3. head # EndOfStream /\ ReachesMean(head.arrived) => Holds(tuples, head.arrived)
    BY <1>5
  <2>4. /\ conf \in Configurations /\ StreamsOK(strms) /\ sent \in Int
        /\ i \in 1 .. NumOps - 1 /\ strms[i - 1].queue # <<>>
        /\ head = Head(strms[i - 1].queue) /\ tuples \in Seq(Messages)
        /\ out = [strms EXCEPT ![i - 1] = Dequeued(@), ![i] = Enqueued(@, tuples)]
        /\ FlowAt(b, c, strms, sent)
    BY <1>2, <1>3, <1>5
  <2>5. PICK last \in Int : last = sent
    BY <2>4
  <2>6. /\ conf \in Configurations /\ StreamsOK(strms) /\ i \in 1 .. NumOps - 1
        /\ strms[i - 1].queue # <<>> /\ FlowAt(b, c, strms, last)
    BY <2>4, <2>5
  <2>7. FlowAt(b, c, out, last)
    BY ONLY <2>2, <2>3, <2>4, <2>6, FlowOutput
  <2>8. QED
    BY <2>5, <2>7
<1>6. Windows' = Windows
  BY DEF Windows
<1>7. QED
  BY <1>1, <1>5, <1>6, OnlyStreamsFlow

LEMMA PassEndOfStreamFlows ==
    ASSUME TypeOK, FlowInv, EndInv, PassEndOfStream PROVE FlowInv'
<1>1. /\ UNCHANGED <<conf, sent, synopsis, committed>> /\ InputOf(turn) # <<>>
      /\ HeadTuple = EndOfStream
      /\ turn = NumOps => streams' = Taken /\ results' = Append(results, EndOfStream)
      /\ turn # NumOps => Output(<<EndOfStream>>) /\ results' = results
  BY DEF PassEndOfStream, TakeTuple, Taken, UnchangedTransaction
<1>2. CASE turn = NumOps
  <2>1. PICK S : results \in Seq(S) /\ EndOfStream \in S
    BY ResultsType
  <2>2. EndOfStream \notin RangeOf(results)
    <3>1. turn - 1 \in 0 .. NumOps - 1
      BY RedoPlace
    <3>2. QED
      BY <1>1, <3>1 DEF EndInv, InputOf
  <2>5. Windows = results
    BY <2>1, <2>2, WindowsAre DEF Windows
  <2>6. Windows' = results
    BY <1>1, <1>2, <2>1, <2>2, WindowsOf
  <2>7. \A b, c : FlowAt(b, c, streams, sent) => FlowAt(b, c, streams', sent')
    BY <1>1, <1>2, FlowEnds
  <2>8. QED
    BY <1>1, <2>5, <2>6, <2>7, OnlyStreamsFlow
<1>3. CASE turn # NumOps
  <2>1. PICK tuples : tuples = <<EndOfStream>>
    OBVIOUS
  <2>2. tuples \in Seq(Messages) /\ \A u \in RangeOf(tuples) : u = EndOfStream
    BY <2>1 DEF Messages, RangeOf
  <2>3. Output(tuples)
    BY <1>1, <1>3, <2>1
  <2>4. QED
    BY <1>1, <1>3, <2>2, <2>3, OutputFlows
<1>4. QED
  BY <1>2, <1>3

(* What reaches the mean satisfies the selects and matches each combine.   *)
LEMMA ReachesThrough ==
    ASSUME TypeOK, turn # NumOps, NEW k, ReachesMean(k)
    PROVE  /\ Kind(turn) = "combine" => Matches[RelationOf(turn)][k] = 1
           /\ Kind(turn) = "select" => k \in Selected
<1>1. conf \in Configurations /\ turn \in 1 .. NumOps - 1
  BY RedoPlace
<1>2. Passed(NumOps - 1, k)
  BY <1>1, ReachesPassed
<1>3. QED
  BY <1>1, <1>2 DEF Passed

LEMMA ProcessSimpleFlows ==
    ASSUME TypeOK, FlowInv, ProcessSimple PROVE FlowInv'
<1>1. PICK head, tuples : head = HeadTuple /\ tuples = Transformed(turn, HeadTuple)
  OBVIOUS
<1>2. /\ UNCHANGED <<conf, sent, synopsis, committed, results>> /\ HasData
      /\ InputOf(turn) # <<>> /\ head # EndOfStream
      /\ Kind(turn) \in {"adapter", "select", "project"} /\ Output(tuples)
  BY <1>1 DEF ProcessSimple, HasData, UnchangedTransaction
<1>3. turn # NumOps
  BY <1>2, PlanShape DEF TypeOK
<1> DEFINE anew == [head EXCEPT !.tag = NoTag]
<1>4. head \in Tuples
  BY <1>1, <1>2, HeadIsTuple
<1>5. anew \in Tuples /\ anew.arrived = head.arrived
  BY <1>4 DEF Tuples
<1>6. /\ tuples \in {<<>>, <<head>>, <<anew>>}
      /\ Kind(turn) = "select" /\ head.arrived \notin Selected => tuples = <<>>
      /\ Kind(turn) # "select" \/ head.arrived \in Selected => tuples # <<>>
  BY <1>1, <1>2 DEF Transformed
<1> HIDE DEF anew
<1>7. /\ tuples \in Seq(Messages)
      /\ tuples = <<>> => RangeOf(tuples) = {}
      /\ tuples # <<>> => /\ Holds(tuples, head.arrived)
                          /\ \A u \in RangeOf(tuples) : u.arrived = head.arrived
  <2>1. CASE tuples = <<>>
    BY <2>1 DEF RangeOf
  <2>2. ASSUME NEW t \in Tuples, t.arrived = head.arrived, tuples = <<t>>
        PROVE  /\ tuples \in Seq(Messages) /\ tuples # <<>> /\ Holds(tuples, head.arrived)
               /\ \A u \in RangeOf(tuples) : u.arrived = head.arrived
    <3>1. <<t>> \in Seq(Messages) /\ RangeOf(<<t>>) = {t} /\ <<t>> # <<>>
      BY <2>2 DEF Messages, RangeOf
    <3>2. t # EndOfStream
      BY <2>2, EndAssumption
    <3>3. QED
      BY <2>2, <3>1, <3>2 DEF Holds
  <2>3. QED
    BY <1>4, <1>5, <1>6, <2>1, <2>2
<1>8. \A u \in RangeOf(tuples) :
          /\ u.arrived = head.arrived
          /\ Kind(turn) = "select" => head.arrived \in Selected
  BY <1>6, <1>7
<1>9. ReachesMean(head.arrived) => Holds(tuples, head.arrived)
  BY <1>3, <1>6, <1>7, ReachesThrough
<1>10. Kind(turn) # "combine"
  BY <1>2
<1>11. QED
  BY <1>1, <1>2, <1>3, <1>7, <1>8, <1>9, <1>10, OutputFlows

LEMMA ProcessCombineFlows ==
    ASSUME TypeOK, FlowInv, ProcessCombine PROVE FlowInv'
<1>1. PICK head, i : head = HeadTuple /\ i = turn
  OBVIOUS
<1> DEFINE r == RelationOf(i)
           version == VersionRead(i)
           n == Matches[r][head.arrived]
           tag == [relation |-> r, version |-> version]
           reads == head.reads \cup {<<i, version>>}
           Made(m) == [head EXCEPT !.part = Append(@, m), !.tag = tag, !.reads = reads]
           tuples == [m \in 1 .. n |-> Made(m)]
<1>2. /\ UNCHANGED <<conf, sent, synopsis, committed, results>> /\ HasData
      /\ InputOf(turn) # <<>> /\ Kind(i) = "combine" /\ head # EndOfStream
  BY <1>1 DEF ProcessCombine, HasData
<1>3. turn # NumOps /\ i \in Combines /\ r \in Relations /\ head \in Tuples /\ i \in Nat
  <2>1. turn \in Ops /\ conf \in Configurations
    BY DEF TypeOK
  <2>2. i \in Combines /\ turn # NumOps
    BY <1>1, <1>2, <2>1, PlanShape DEF Combines
  <2>3. head \in Tuples
    BY <1>1, <1>2, HeadIsTuple
  <2>4. QED
    BY <2>1, <2>2, <2>3, PlanShape DEF Combines, Ops
<1>4. version \in Versions
  BY <1>1, <1>3 DEF TypeOK, RelationsOK, RelationType, VersionRead
<1>5. n \in Nat /\ tag \in Tags /\ head.arrived \in Arrivals
  <2>1. head.arrived \in Arrivals
    BY <1>3 DEF Tuples
  <2>2. QED
    BY <1>3, <1>4, <2>1, ConstantsAssumption DEF Tags
<1>6. reads \in SUBSET (Nat \X Versions)
  BY <1>3, <1>4 DEF Tuples
<1>7. Output(tuples)
  BY <1>1 DEF ProcessCombine, VersionRead
<1>8. Flowing => n <= 1
  BY <1>3, <1>5 DEF Flowing, NoTwoMatches
<1>9. ReachesMean(head.arrived) => n = 1
  BY <1>1, <1>2, <1>3, ReachesThrough
<1>10. n = Matches[RelationOf(turn)][head.arrived]
  BY <1>1
<1> HIDE DEF n, tag, reads, version, r
<1>11. ASSUME NEW m \in 1 .. n
       PROVE  Made(m) \in Tuples /\ Made(m) \in Messages /\ Made(m).arrived = head.arrived
  <2> DEFINE part == Append(head.part, m)
  <2>1. part \in Seq(Nat)
    BY <1>3, <1>5, <1>11, AppendProperties DEF Tuples
  <2>2. Made(m) = [head EXCEPT !.part = part, !.tag = tag, !.reads = reads]
    OBVIOUS
  <2> HIDE DEF Made, part
  <2>3. QED
    BY <1>3, <1>5, <1>6, <2>1, <2>2 DEF Tuples, Messages
<1> HIDE DEF Made
<1>12. tuples \in Seq(Messages) /\ DOMAIN tuples = 1 .. n
  <2>1. tuples \in [1 .. n -> Messages] /\ DOMAIN tuples = 1 .. n
    BY <1>11
  <2> HIDE DEF tuples
  <2>2. QED
    BY <1>5, <2>1
<1>13. \A u \in RangeOf(tuples) : u # EndOfStream /\ u.arrived = head.arrived
  BY <1>11, <1>12, EndAssumption DEF RangeOf
<1>14. n = 1 => Holds(tuples, head.arrived)
  <2>1. SUFFICES ASSUME n = 1 PROVE Holds(tuples, head.arrived)
    OBVIOUS
  <2>2. 1 \in DOMAIN tuples
    BY <1>12, <2>1
  <2>3. tuples[1] \in RangeOf(tuples)
    BY <2>2 DEF RangeOf
  <2> HIDE DEF tuples
  <2>4. QED
    BY <1>13, <2>3 DEF Holds
<1>15. Flowing => \A u \in RangeOf(tuples) : n = 1
  <2>1. ASSUME NEW u \in RangeOf(tuples), n <= 1 PROVE n = 1
    <3>1. PICK k \in 1 .. n : TRUE
      BY <1>12, <2>1 DEF RangeOf
    <3>2. QED
      BY <1>5, <2>1, <3>1
  <2>2. QED
    BY <1>8, <2>1
<1> HIDE DEF tuples
<1>16. Kind(turn) # "select"
  BY <1>1, <1>2
<1>17. QED
  BY <1>1, <1>2, <1>3, <1>7, <1>9, <1>10, <1>12, <1>13, <1>14, <1>15, <1>16, OutputFlows

LEMMA SendFlows ==
    ASSUME TypeOK, FlowInv, Send PROVE FlowInv'
<1>1. PICK tuples : tuples = IF sent < NumTuples THEN <<InputTuple(sent + 1)>>
                             ELSE <<EndOfStream>>
  OBVIOUS
<1>2. /\ UNCHANGED <<conf, synopsis, committed, results>> /\ sent' = sent + 1
      /\ streams' = [streams EXCEPT ![0] = Enqueued(@, tuples)]
      /\ sent \in 0 .. NumTuples
  <2>1. sent \in Nat /\ sent <= NumTuples /\ NumTuples \in Nat
    BY RedoPlace DEF Send
  <2>2. QED
    BY <1>1, <2>1 DEF Send, UnchangedQuery
<1>3. tuples \in Seq(Messages)
  <2>1. CASE sent < NumTuples
    <3>1. sent + 1 \in Arrivals
      BY <1>2, <2>1, ConstantsAssumption DEF Arrivals
    <3>2. QED
      BY <1>1, <2>1, <3>1, SentTuple DEF Messages
  <2>2. CASE ~(sent < NumTuples)
    BY <1>1, <2>2 DEF Messages
  <2>3. QED
    BY <2>1, <2>2
<1>4. Windows' = Windows
  BY <1>2 DEF Windows
<1>5. PICK strms, out, last : strms = streams /\ out = streams' /\ last = sent
  OBVIOUS
<1>6. /\ conf \in Configurations /\ StreamsOK(strms) /\ last \in 0 .. NumTuples
      /\ out = [strms EXCEPT ![0] = Enqueued(@, tuples)]
      /\ tuples = IF last < NumTuples THEN <<InputTuple(last + 1)>> ELSE <<EndOfStream>>
  BY <1>1, <1>2, <1>5, RedoPlace
<1>7. \A b, c : FlowAt(b, c, strms, last) => FlowAt(b, c, out, last + 1)
  BY ONLY <1>3, <1>6, FlowSend
<1>8. QED
  BY <1>2, <1>4, <1>5, <1>7, OnlyStreamsFlow
-----------------------------------------------------------------------------
(* The mean's calls *)

(* The mean takes a tuple into its line. *)
LEMMA MeanTakesFlow ==
    ASSUME TypeOK, BackupInv, Flowing, HasData, turn = NumOps,
           NEW b, NEW c, FlowAt(b, c, streams, sent),
           NEW n, n = LineLength(conf.win, synopsis),
           NEW outworn, outworn = Outworn(conf.win, synopsis),
           NEW d, d = Dropped(conf.win, synopsis),
           NEW next, next = Line(conf.win, NextSynopsis),
           LineFlows(n, Line(conf.win, synopsis), outworn, b, c),
           NEW h, h = HeadTuple.arrived
    PROVE  /\ FlowAt(b, h, Taken, sent) /\ h \in 0 .. NumTuples
           /\ DOMAIN next = 1 .. (n + 1) - d /\ n \in Nat /\ d \in 0 .. n
           /\ outworn \in Nat /\ d \in {0, outworn}
           /\ \A k \in 1 .. (n + 1) - d : k + d > outworn =>
                  /\ ReachesMean(next[k].arrived) /\ next[k].arrived > b
                  /\ Position(next[k].arrived) + (((n + 1) - d) - k) = Position(h)
           /\ From((n + 1) - d, outworn - d, h) = From(n, outworn, c)
<1>1. PICK line, head : line = Line(conf.win, synopsis) /\ head = HeadTuple
  OBVIOUS
<1>2. /\ FlowAt(b, h, Taken, sent)
      /\ h \in Arrivals /\ h > c /\ c \in 0 .. NumTuples
      /\ ReachesMean(h) /\ Position(h) = Position(c) + 1 /\ h = head.arrived
  BY <1>1, FlowTake DEF Flowing
<1>3. head \in Tuples /\ IsWindow(conf.win) /\ SynopsisOK(conf.win, synopsis) /\ NumTuples \in Nat
  BY <1>1, HeadIsTuple, RedoPlace
<1>4. NextSynopsis = Syn!Enqueued(conf.win, synopsis, head)
  BY <1>1 DEF NextSynopsis
<1>5. Extends(n, line, head, d, next)
  <2>1. CASE Syn!Completes(conf.win, synopsis)
    BY <1>1, <1>3, <1>4, <2>1, LineCompletes
  <2>2. CASE ~Syn!Completes(conf.win, synopsis)
    <3>1. d = 0
      BY <2>2 DEF Dropped
    <3>2. QED
      BY <1>1, <1>3, <1>4, <2>2, <3>1, LineWaits
  <2>3. QED
    BY <2>1, <2>2
<1>6. outworn \in Nat /\ d \in {0, outworn}
  BY <1>3 DEF Outworn, Dropped, IsWindow
<1>7. b \in Nat /\ b <= c
  BY ConstantsAssumption DEF FlowAt
<1>8. h \in 0 .. NumTuples /\ h > b
  BY <1>2, <1>3, <1>7 DEF Arrivals
<1>9. \A k \in DOMAIN line : line[k].arrived \in 0 .. NumTuples
  <2>1. \A k \in DOMAIN line : line[k] \in Tuples
    BY <1>1 DEF BackupInv, LineInOrder, RangeOf
  <2>2. QED
    BY <1>3, <2>1 DEF Tuples, Arrivals
<1>10. Position(c) \in Nat /\ \A k \in DOMAIN line : Position(line[k].arrived) \in Nat
  BY <1>2, <1>9, PositionStep
<1>11. LineFlows(n, line, outworn, b, c) /\ b \in Int
  BY <1>1, <1>7
<1>12. ReachesMean(head.arrived) /\ head.arrived > b /\ Position(head.arrived) = Position(c) + 1
  BY <1>2, <1>8
<1>13. \A k \in 1 .. (n + 1) - d : k + d > outworn =>
           /\ ReachesMean(next[k].arrived) /\ next[k].arrived > b
           /\ Position(next[k].arrived) + (((n + 1) - d) - k) = Position(head.arrived)
  BY ONLY <1>5, <1>6, <1>10, <1>11, <1>12, FlowExtends
<1>14. From((n + 1) - d, outworn - d, head.arrived) = From(n, outworn, c)
  BY ONLY <1>5, <1>6, <1>10, <1>11, <1>12, FlowExtends
<1>15. DOMAIN next = 1 .. (n + 1) - d /\ n \in Nat /\ d \in 0 .. n
  BY <1>5 DEF Extends
<1>16. QED
  BY <1>2, <1>6, <1>8, <1>13, <1>14, <1>15

(* No call of the mean outputs anything after the end.                     *)
LEMMA NotEnded ==
    ASSUME TypeOK, EndInv, HasData PROVE EndOfStream \notin RangeOf(results)
<1>1. turn - 1 \in 0 .. NumOps - 1
  BY RedoPlace
<1>2. QED
  BY <1>1 DEF EndInv, HasData, InputOf

LEMMA WindowWaitsFlows ==
    ASSUME TypeOK, BackupInv, FlowInv, WindowWaits PROVE FlowInv'
<1>1. /\ UNCHANGED <<conf, sent, committed, results>> /\ HasData /\ turn = NumOps
      /\ ~Syn!Completes(conf.win, synopsis) /\ synopsis' = NextSynopsis /\ streams' = Taken
      /\ ~committed
  BY DEF WindowWaits, TakeTuple, Taken, UnchangedTransaction
<1>2. Windows' = Windows
  BY <1>1 DEF Windows
<1>3. PICK n, outworn, next, h :
          /\ n = LineLength(conf.win, synopsis) /\ outworn = Outworn(conf.win, synopsis)
          /\ next = Line(conf.win, NextSynopsis) /\ h = HeadTuple.arrived
  OBVIOUS
<1>4. CASE Flowing
  <2>1. PICK b \in 0 .. NumTuples, c \in 0 .. NumTuples :
            /\ FlowAt(b, c, streams, sent)
            /\ LineFlows(n, Line(conf.win, synopsis), outworn, b, c)
            /\ NextFollows(Windows, committed, From(n, outworn, c), b)
    BY <1>3, <1>4 DEF FlowInv
  <2>2. Dropped(conf.win, synopsis) = 0
    BY <1>1 DEF Dropped
  <2>3. /\ FlowAt(b, h, Taken, sent) /\ h \in 0 .. NumTuples
        /\ DOMAIN next = 1 .. (n + 1) - 0 /\ n \in Nat /\ outworn \in Nat
        /\ \A k \in 1 .. (n + 1) - 0 : k + 0 > outworn =>
               /\ ReachesMean(next[k].arrived) /\ next[k].arrived > b
               /\ Position(next[k].arrived) + (((n + 1) - 0) - k) = Position(h)
        /\ From((n + 1) - 0, outworn - 0, h) = From(n, outworn, c)
    BY ONLY TypeOK, BackupInv, <1>1, <1>3, <1>4, <2>1, <2>2, MeanTakesFlow
  <2>4. /\ (n + 1) - 0 = n + 1 /\ outworn - 0 = outworn
        /\ \A k \in outworn + 1 .. n + 1 : k \in 1 .. (n + 1) - 0 /\ k + 0 > outworn
    BY <2>3
  <2>5. LineFlows(n + 1, next, outworn, b, h)
    BY <2>3, <2>4 DEF LineFlows
  <2>6. LineLength(conf.win, synopsis') = n + 1
    <3>1. DOMAIN next = 1 .. LineLength(conf.win, synopsis')
      BY <1>1, <1>3 DEF Line
    <3>2. PICK m : m = LineLength(conf.win, synopsis')
      OBVIOUS
    <3>3. m \in Nat
      <4>1. PICK head, syn : head = HeadTuple /\ syn = NextSynopsis
        OBVIOUS
      <4>2. /\ head \in Tuples /\ syn = Syn!Enqueued(conf.win, synopsis, head)
            /\ IsWindow(conf.win) /\ SynopsisOK(conf.win, synopsis)
        BY <1>1, <4>1, HeadIsTuple, RedoPlace DEF NextSynopsis
      <4>3. SynopsisOK(conf.win, syn)
        BY ONLY <1>1, <4>2, WaitingSynopsis
      <4>4. QED
        BY <1>1, <3>2, <4>1, <4>2, <4>3, SynopsisFields
    <3>4. 1 .. m = 1 .. n + 1
      BY <2>3, <2>4, <3>1, <3>2
    <3>5. m = n + 1
      BY <2>3, <3>3, <3>4
    <3>6. QED
      BY <3>2, <3>5
  <2>7. Outworn(conf.win, synopsis') = outworn
    <3>1. PICK head, syn : head = HeadTuple /\ syn = NextSynopsis
      OBVIOUS
    <3>2. /\ head \in Tuples /\ syn = Syn!Enqueued(conf.win, synopsis, head)
          /\ IsWindow(conf.win) /\ SynopsisOK(conf.win, synopsis)
      BY <1>1, <3>1, HeadIsTuple, RedoPlace DEF NextSynopsis
    <3>3. syn.filled = synopsis.filled
      BY ONLY <1>1, <3>2, WaitingSynopsis
    <3>4. QED
      BY <1>1, <1>3, <3>1, <3>3 DEF Outworn
  <2>8. From(n + 1, outworn, h) = From(n, outworn, c)
    BY <2>3, <2>4
  <2>9. WindowsFollow(Windows)
    BY <1>4 DEF FlowInv
  <2>10. Line(conf.win, synopsis') = next /\ committed' = committed
    BY <1>1, <1>3
  <2>11. FlowAt(b, h, streams', sent')
    BY <1>1, <2>3
  <2>12. QED
    BY <1>1, <1>2, <2>1, <2>3, <2>5, <2>6, <2>7, <2>8, <2>9, <2>10, <2>11, FlowStays
<1>5. CASE ~Flowing
  <2>1. 0 \in 0 .. NumTuples
    BY ConstantsAssumption
  <2>2. QED
    BY <1>1, <1>2, <1>5, <2>1, FlowStays
<1>6. QED
  BY <1>4, <1>5

(* A window that is complete, and nothing more, is the line. *)
LEMMA LineIsWindow ==
    ASSUME NEW win, IsWindow(win), NEW syn, SynopsisOK(win, syn), syn.filled,
           syn.newcomers = <<>>
    PROVE  /\ Line(win, syn) = Syn!WindowOf(win, syn) /\ LineLength(win, syn) = win.width
           /\ Outworn(win, syn) = win.stride
<1>1. win.width \in Nat
  BY DEF IsWindow
<1>2. OldLength(win, syn) = win.width /\ LineLength(win, syn) = win.width
  <2>1. OldLength(win, syn) = win.width /\ Len(<<>>) = 0
    BY DEF OldLength
  <2>2. LineLength(win, syn) = win.width + 0
    BY <2>1 DEF LineLength
  <2>3. QED
    BY <1>1, <2>1, <2>2
<1>3. \A k \in 1 .. win.width : k <= win.width
  BY <1>1
<1>4. QED
  BY <1>2, <1>3 DEF Line, Outworn, Syn!WindowOf

(* The mean takes the tuple that completes a window.                       *)
LEMMA MeanCompletesFlow ==
    ASSUME TypeOK, BackupInv, Flowing, HasData, turn = NumOps,
           Syn!Completes(conf.win, synopsis),
           NEW b, NEW c, FlowAt(b, c, streams, sent),
           NEW n, n = LineLength(conf.win, synopsis),
           NEW outworn, outworn = Outworn(conf.win, synopsis),
           LineFlows(n, Line(conf.win, synopsis), outworn, b, c),
           NEW width, width = conf.win.width,
           NEW syn, syn = NextSynopsis,
           NEW w, w = Syn!WindowOf(conf.win, syn),
           NEW h, h = HeadTuple.arrived
    PROVE  /\ FlowAt(b, h, Taken, sent) /\ h \in 0 .. NumTuples
           /\ Line(conf.win, syn) = w /\ LineLength(conf.win, syn) = width
           /\ Outworn(conf.win, syn) = conf.win.stride
           /\ w \in [1 .. width -> Tuples] /\ Sorted(w)
           /\ \A k \in 1 .. width : ReachesMean(w[k].arrived) /\ w[k].arrived > b
                                    /\ w[k].arrived <= h
           /\ Start(w) \in Nat /\ Start(w) = From(n, outworn, c)
           /\ \A k \in 1 .. width : Position(w[k].arrived) = Start(w) + (k - 1)
           /\ Position(h) = Start(w) + (width - 1)
           /\ Syn!BeginningTuple(syn) \in {w[k] : k \in {1, conf.win.stride + 1} \cap 1 .. width}
<1>1. PICK head, d : head = HeadTuple /\ d = Dropped(conf.win, synopsis)
  OBVIOUS
<1>2. /\ head \in Tuples /\ syn = Syn!Enqueued(conf.win, synopsis, head) /\ h = head.arrived
      /\ IsWindow(conf.win) /\ SynopsisOK(conf.win, synopsis) /\ NumTuples \in Nat
  BY <1>1, HeadIsTuple, RedoPlace DEF NextSynopsis
<1>3. SynopsisOK(conf.win, syn) /\ syn.filled /\ syn.newcomers = <<>>
  BY ONLY <1>2, Syn!Completes(conf.win, synopsis), CompletedSynopsis
<1>4. /\ Line(conf.win, syn) = w /\ LineLength(conf.win, syn) = width
      /\ Outworn(conf.win, syn) = conf.win.stride
  BY <1>2, <1>3, LineIsWindow
<1>5. w \in [1 .. width -> Tuples]
  BY <1>2, <1>3, WindowTuples
<1>6. /\ Extends(n, Line(conf.win, synopsis), head, d, w)
      /\ Syn!BeginningTuple(syn) \in {w[k] : k \in {1, conf.win.stride + 1} \cap 1 .. width}
  BY <1>1, <1>2, <1>4, LineCompletes
<1>7. /\ FlowAt(b, h, Taken, sent) /\ h \in 0 .. NumTuples
      /\ DOMAIN w = 1 .. (n + 1) - d /\ n \in Nat /\ d \in 0 .. n /\ outworn \in Nat
      /\ \A k \in 1 .. (n + 1) - d : k + d > outworn =>
             /\ ReachesMean(w[k].arrived) /\ w[k].arrived > b
             /\ Position(w[k].arrived) + (((n + 1) - d) - k) = Position(h)
      /\ From((n + 1) - d, outworn - d, h) = From(n, outworn, c)
  BY <1>1, <1>4, MeanTakesFlow
<1>8. width \in Nat /\ width >= 1 /\ d = outworn /\ (n + 1) - d = width
  <2>1. d = outworn
    BY <1>1 DEF Dropped, Outworn
  <2>2. width \in Nat /\ width >= 1
    BY <1>2 DEF IsWindow
  <2>3. PICK m : m = (n + 1) - d
    OBVIOUS
  <2>4. 1 .. width = 1 .. m /\ m \in Nat
    BY <1>5, <1>7, <2>3
  <2>5. m = width
    BY <2>2, <2>4
  <2>6. QED
    BY <2>1, <2>2, <2>3, <2>5
<1>9. \A k \in 1 .. width :
          /\ ReachesMean(w[k].arrived) /\ w[k].arrived > b
          /\ Position(w[k].arrived) + (width - k) = Position(h)
  <2>1. \A k \in 1 .. width : k + d > outworn
    BY <1>7, <1>8
  <2>2. QED
    BY <1>7, <1>8, <2>1
<1>10. Sorted(w)
  <2>1. LineInOrder(w, Taken, sent)
    BY <1>4, NextLineBacked
  <2>2. QED
    BY <2>1 DEF LineInOrder
<1>11. \A k \in 1 .. width : w[k].arrived \in 0 .. NumTuples
  <2>1. \A k \in 1 .. width : w[k] \in Tuples
    BY <1>5
  <2>2. \A t \in Tuples : t.arrived \in 0 .. NumTuples
    BY <1>2 DEF Tuples, Arrivals
  <2>3. QED
    BY <2>1, <2>2
<1>12. w[width] = head
  <2>1. ~(width + d <= n) /\ width \in 1 .. (n + 1) - d
    BY <1>7, <1>8
  <2>2. QED
    BY <1>6, <2>1 DEF Extends
<1>13. \A k \in 1 .. width : w[k].arrived <= h
  <2>1. ASSUME NEW k \in 1 .. width, k # width PROVE w[k].arrived <= h
    <3>1. Before(w[k], w[width])
      BY <1>5, <1>8, <1>10, <2>1 DEF Sorted
    <3>2. w[k].arrived + Gap <= h
      BY <1>2, <1>12, <3>1, EndAssumption DEF Before
    <3>3. PICK x, g : x = w[k].arrived /\ g = Gap
      OBVIOUS
    <3>4. /\ x \in 0 .. NumTuples /\ h \in 0 .. NumTuples /\ NumTuples \in Nat
          /\ g \in {0, 1} /\ x + g <= h
      BY <1>2, <1>7, <1>11, <2>1, <3>2, <3>3, GapStays
    <3>5. x <= h
      BY ONLY <3>4
    <3>6. QED
      BY <3>3, <3>5
  <2>2. w[width].arrived <= h
    <3>1. h \in 0 .. NumTuples /\ h = w[width].arrived /\ NumTuples \in Nat
      BY <1>2, <1>7, <1>12
    <3>2. QED
      BY ONLY <3>1
  <2>3. QED
    BY <2>1, <2>2
<1>14. PICK p, s : p = Position(h) /\ s = Start(w)
  OBVIOUS
<1>15. p \in Nat /\ s \in Nat /\ s + (width - 1) = p
  <2>1. 1 \in 1 .. width
    BY <1>8
  <2>2. p \in Nat /\ s \in Nat
    BY <1>7, <1>11, <1>14, <2>1, PositionStep DEF Start
  <2>3. QED
    BY <1>9, <1>14, <2>1, <2>2 DEF Start
<1>16. \A k \in 1 .. width : Position(w[k].arrived) = s + (k - 1)
  <2>1. ASSUME NEW k \in 1 .. width PROVE Position(w[k].arrived) = s + (k - 1)
    <3>1. PICK q : q = Position(w[k].arrived)
      OBVIOUS
    <3>2. q \in Nat
      BY <1>11, <3>1, PositionStep
    <3>3. q + (width - k) = p
      BY <1>9, <1>14, <3>1
    <3>4. q = s + (k - 1)
      BY <1>8, <1>15, <3>2, <3>3
    <3>5. QED
      BY <3>1, <3>4
  <2>2. QED
    BY <2>1
<1>17. s = From(n, outworn, c)
  <2>1. From(width, 0, h) = p - (width - 0) + 1
    BY <1>14 DEF From
  <2>2. From(width, 0, h) = s
    BY <1>8, <1>15, <2>1
  <2>3. outworn - d = 0
    BY <1>7, <1>8
  <2>4. QED
    BY <1>7, <1>8, <2>2, <2>3
<1>18. QED
  BY <1>4, <1>5, <1>6, <1>7, <1>9, <1>10, <1>13, <1>14, <1>15, <1>16, <1>17

(* The optimistic control evicts what is older than the window's beginning,*)
(* or than the next one's.                                                 *)
LEMMA CommitEvictsFlow ==
    ASSUME TypeOK, BackupInv, NEW strms, StreamsOK(strms), StreamsInOrder(strms, sent),
           NEW b, NEW h, FlowAt(b, h, strms, sent),
           NEW w, NEW width, width = conf.win.width, w \in [1 .. width -> Tuples], Sorted(w),
           \A k \in 1 .. width : ReachesMean(w[k].arrived) /\ w[k].arrived > b
                                 /\ w[k].arrived <= h,
           Start(w) \in Nat,
           \A k \in 1 .. width : Position(w[k].arrived) = Start(w) + (k - 1),
           NEW begin, begin \in {w[k] : k \in {1, conf.win.stride + 1} \cap 1 .. width},
           NEW evicted, evicted = [strms EXCEPT ![RedoStream] = Evicted(@, begin.arrived)]
    PROVE  \E e \in 0 .. NumTuples :
               /\ FlowAt(e, h, evicted, sent)
               /\ Position(e) + 1 \in {Start(w), Start(w) + conf.win.stride}
               /\ \A k \in conf.win.stride + 1 .. width : w[k].arrived > e
<1>1. PICK j \in {1, conf.win.stride + 1} \cap 1 .. width : begin = w[j]
  OBVIOUS
<1>2. PICK lwm, s, stride : lwm = begin.arrived /\ s = Start(w) /\ stride = conf.win.stride
  OBVIOUS
<1>3. /\ conf \in Configurations /\ sent \in Nat /\ NumTuples \in Nat
      /\ width \in Nat /\ stride \in 1 .. width
  BY <1>2, RedoPlace DEF IsWindow
<1>4. \A t \in Tuples : t.arrived \in 1 .. NumTuples
  BY DEF Tuples, Arrivals
<1>5. /\ ReachesMean(lwm) /\ Position(lwm) = s + (j - 1)
      /\ lwm \in 1 .. NumTuples /\ lwm > b /\ lwm <= h
  BY <1>1, <1>2, <1>4
<1>6. b \in 0 .. NumTuples /\ h \in 0 .. NumTuples
  BY DEF FlowAt
<1>7. lwm \in Nat /\ b < lwm /\ lwm - 1 <= h /\ lwm - 1 \in 0 .. NumTuples
      /\ lwm - 1 \in 0 .. NumTuples - 1 /\ (lwm - 1) + 1 = lwm
  <2>1. lwm \in 1 .. NumTuples /\ lwm > b /\ lwm <= h
    BY <1>5
  <2>2. QED
    BY ONLY <1>3, <1>6, <2>1
<1>8. FlowAt(lwm - 1, h, evicted, sent)
  <2>1. PICK last : last = sent
    OBVIOUS
  <2>2. /\ StreamsInOrder(strms, last) /\ FlowAt(b, h, strms, last) /\ last \in Nat
        /\ evicted = [strms EXCEPT ![RedoStream] = Evicted(@, lwm)]
    BY <1>2, <1>3, <2>1
  <2>3. FlowAt(lwm - 1, h, evicted, last)
    BY ONLY <1>3, <1>7, <2>2, StreamsOK(strms), FlowEvict
  <2>4. QED
    BY <2>1, <2>3
<1>9. Position(lwm - 1) + 1 \in {s, s + stride}
  <2>1. Position(lwm) = Position(lwm - 1) + 1
    BY <1>5, <1>7, PositionStep
  <2>2. s \in Nat /\ (j = 1 \/ j = stride + 1)
    BY <1>1, <1>2
  <2>3. s + (1 - 1) = s /\ s + ((stride + 1) - 1) = s + stride
    BY <1>3, <2>2
  <2>4. QED
    BY <1>5, <2>1, <2>2, <2>3
<1>10. ASSUME NEW k \in stride + 1 .. width PROVE w[k].arrived > lwm - 1
  <2>1. k \in 1 .. width /\ (j = k \/ j < k)
    <3>1. j = 1 \/ j = stride + 1
      BY <1>1, <1>2
    <3>2. QED
      BY <1>3, <1>10, <3>1
  <2>2. w[k].arrived \in Nat
    BY <1>4, <2>1
  <2>3. CASE j = k
    BY <1>1, <1>2, <1>7, <2>2, <2>3
  <2>4. CASE j < k
    <3>1. Before(w[j], w[k])
      BY <1>1, <2>1, <2>4 DEF Sorted
    <3>2. lwm + Gap <= w[k].arrived
      BY <1>1, <1>2, <2>1, <3>1, EndAssumption DEF Before
    <3>3. PICK x, g : x = w[k].arrived /\ g = Gap
      OBVIOUS
    <3>4. x \in Nat /\ g \in {0, 1} /\ lwm + g <= x /\ lwm \in Nat
      BY <1>7, <2>2, <3>2, <3>3, GapStays
    <3>5. x > lwm - 1
      BY ONLY <3>4
    <3>6. QED
      BY <3>3, <3>5
  <2>5. QED
    BY <2>1, <2>3, <2>4
<1>11. QED
  BY <1>2, <1>7, <1>8, <1>9, <1>10

LEMMA WindowOutputFlows ==
    ASSUME TypeOK, BackupInv, FlowInv, EndInv, WindowOutput PROVE FlowInv'
<1>1. PICK syn, w, h, width, stride :
          /\ syn = NextSynopsis /\ w = Syn!WindowOf(conf.win, syn) /\ h = HeadTuple.arrived
          /\ width = conf.win.width /\ stride = conf.win.stride
  OBVIOUS
<1>2. /\ UNCHANGED <<conf, sent>> /\ HasData /\ turn = NumOps
      /\ Syn!Completes(conf.win, synopsis) /\ ~committed
      /\ synopsis' = syn /\ results' = Append(results, w)
      /\ streams' = EvictedByCommit(syn, Taken)
      /\ committed' = (conf.mode \in PessimisticModes)
  BY <1>1 DEF WindowOutput, Taken
<1>3. CASE ~Flowing
  <2>1. PICK wins : wins = Windows'
    OBVIOUS
  <2>2. 0 \in 0 .. NumTuples
    BY ConstantsAssumption
  <2>3. QED
    BY <1>2, <1>3, <2>1, <2>2, FlowStays
<1>4. CASE Flowing
  <2>1. PICK n, outworn : /\ n = LineLength(conf.win, synopsis)
                          /\ outworn = Outworn(conf.win, synopsis)
    OBVIOUS
  <2>2. PICK b \in 0 .. NumTuples, c \in 0 .. NumTuples :
            /\ FlowAt(b, c, streams, sent)
            /\ LineFlows(n, Line(conf.win, synopsis), outworn, b, c)
            /\ NextFollows(Windows, committed, From(n, outworn, c), b)
    BY <1>4, <2>1 DEF FlowInv
  <2>3. /\ FlowAt(b, h, Taken, sent) /\ h \in 0 .. NumTuples
        /\ Line(conf.win, syn) = w /\ LineLength(conf.win, syn) = width
        /\ Outworn(conf.win, syn) = stride
        /\ w \in [1 .. width -> Tuples] /\ Sorted(w)
        /\ \A k \in 1 .. width : ReachesMean(w[k].arrived) /\ w[k].arrived > b
                                 /\ w[k].arrived <= h
        /\ Start(w) \in Nat /\ Start(w) = From(n, outworn, c)
        /\ \A k \in 1 .. width : Position(w[k].arrived) = Start(w) + (k - 1)
        /\ Position(h) = Start(w) + (width - 1)
        /\ Syn!BeginningTuple(syn) \in {w[k] : k \in {1, stride + 1} \cap 1 .. width}
    BY ONLY TypeOK, BackupInv, <1>1, <1>2, <1>4, <2>1, <2>2, MeanCompletesFlow
  <2>4. PICK S : /\ results \in Seq(S) /\ w \in S /\ w # EndOfStream
    <3>1. PICK S : /\ results \in Seq(S)
                   /\ S = [1 .. conf.win.width -> Tuples] \cup {EndOfStream}
                   /\ EndOfStream \notin [1 .. conf.win.width -> Tuples]
      BY ResultsType
    <3>2. w \in S /\ w # EndOfStream
      BY <1>1, <2>3, <3>1
    <3>3. QED
      BY <3>1, <3>2
  <2>5. EndOfStream \notin RangeOf(results)
    BY <1>2, NotEnded
  <2>6. Windows = results
    BY <2>4, <2>5, WindowsAre DEF Windows
  <2>7. PICK wins : wins = Append(results, w)
    OBVIOUS
  <2>8. Windows' = wins
    <3>1. wins \in Seq(S) /\ EndOfStream \notin RangeOf(wins)
      <4>1. /\ wins \in Seq(S) /\ DOMAIN wins = 1 .. Len(results) + 1
            /\ \A k \in 1 .. Len(results) : wins[k] = results[k]
            /\ wins[Len(results) + 1] = w
            /\ Len(results) \in Nat /\ DOMAIN results = 1 .. Len(results)
        BY <2>4, <2>7, AppendProperties, LenProperties
      <4>2. \A k \in 1 .. Len(results) + 1 : k \in 1 .. Len(results) \/ k = Len(results) + 1
        BY <4>1
      <4>3. QED
        BY <2>4, <2>5, <4>1, <4>2 DEF RangeOf
    <3>2. Chosen(wins, {k \in DOMAIN wins : wins[k] # EndOfStream}) = wins
      BY <3>1, WindowsAre
    <3>3. QED
      BY <1>2, <2>7, <3>2 DEF Windows
  <2>9. width \in Nat /\ stride \in 1 .. width
    BY <1>1, RedoPlace DEF IsWindow
  <2>10. Contiguous(w)
    <3>1. Len(w) = width
      BY <2>3, <2>9
    <3>2. PICK s : s = Start(w)
      OBVIOUS
    <3>3. ASSUME NEW j \in 1 .. width - 1
          PROVE  Position(w[j + 1].arrived) = Position(w[j].arrived) + 1
      <4>1. j \in 1 .. width /\ j + 1 \in 1 .. width
        BY <2>9, <3>3
      <4>2. Position(w[j + 1].arrived) = s + ((j + 1) - 1) /\ Position(w[j].arrived) = s + (j - 1)
        BY <2>3, <3>2, <4>1
      <4>3. s + ((j + 1) - 1) = (s + (j - 1)) + 1
        BY <2>3, <3>2, <4>1
      <4>4. QED
        BY <4>2, <4>3
    <3>4. QED
      BY <3>1, <3>3 DEF Contiguous
  <2>11. Start(w) \in Nexts(results)
    BY <1>2, <2>2, <2>3, <2>6 DEF NextFollows
  <2>12. WindowsFollow(results)
    BY <1>4, <2>6 DEF FlowInv
  <2>13. /\ WindowsFollow(wins) /\ wins # <<>> /\ wins[Len(wins)] = w
    BY <2>4, <2>7, <2>10, <2>11, <2>12, WindowsGrow
  <2>14. Nexts(wins) = NextStarts(Start(w))
    BY <2>13 DEF Nexts
  <2>15. From(width, stride, h) = Start(w) + stride
    <3>1. PICK p, s : p = Position(h) /\ s = Start(w)
      OBVIOUS
    <3>2. p = s + (width - 1) /\ s \in Nat
      BY <2>3, <3>1
    <3>3. p - (width - stride) + 1 = s + stride
      BY <2>9, <3>2
    <3>4. QED
      BY <3>1, <3>3 DEF From
  <2>16. conf.mode \in {"NONE", "OPTIMISTIC"} \/ conf.mode \in PessimisticModes
    BY RedoPlace, PlanShape DEF CCModes, PessimisticModes
  <2>17. ASSUME NEW e \in 0 .. NumTuples,
                conf.mode = "OPTIMISTIC" => Position(e) + 1 \in {Start(w), Start(w) + stride}
         PROVE  NextFollows(wins, committed', From(width, stride, h), e)
    <3>1. CASE conf.mode \in PessimisticModes
      BY <1>1, <1>2, <2>13, <2>15, <3>1 DEF NextFollows, PessimisticModes
    <3>2. CASE conf.mode = "OPTIMISTIC"
      BY <1>1, <1>2, <2>13, <2>14, <2>15, <2>17, <3>2
      DEF NextFollows, NextStarts, PessimisticModes
    <3>3. CASE conf.mode = "NONE"
      BY <1>1, <1>2, <2>13, <2>14, <2>15, <3>3 DEF NextFollows, NextStarts, PessimisticModes
    <3>4. QED
      BY <2>16, <3>1, <3>2, <3>3
  <2>18. ASSUME NEW e \in 0 .. NumTuples, \A k \in stride + 1 .. width : w[k].arrived > e
         PROVE  LineFlows(width, w, stride, e, h)
    <3>1. PICK p, s : p = Position(h) /\ s = Start(w)
      OBVIOUS
    <3>2. p = s + (width - 1) /\ s \in Nat
      BY <2>3, <3>1
    <3>3. ASSUME NEW k \in stride + 1 .. width
          PROVE  ReachesMean(w[k].arrived) /\ Position(w[k].arrived) + (width - k) = p
      <4>1. k \in 1 .. width
        BY <2>9, <3>3
      <4>2. (s + (k - 1)) + (width - k) = p
        BY <2>9, <3>2, <4>1
      <4>3. QED
        BY <2>3, <3>1, <4>1, <4>2
    <3>4. QED
      BY <2>18, <3>1, <3>3 DEF LineFlows
  <2>19. ASSUME NEW e \in 0 .. NumTuples, FlowAt(e, h, streams', sent),
                conf.mode = "OPTIMISTIC" => Position(e) + 1 \in {Start(w), Start(w) + stride},
                \A k \in stride + 1 .. width : w[k].arrived > e
         PROVE  FlowInv'
    <3>1. LineFlows(width, w, stride, e, h)
      BY <2>18, <2>19
    <3>2. NextFollows(wins, committed', From(width, stride, h), e)
      BY <2>17, <2>19
    <3>3. /\ LineLength(conf.win, synopsis') = width /\ Line(conf.win, synopsis') = w
          /\ Outworn(conf.win, synopsis') = stride
      BY <1>2, <2>3
    <3>4. FlowAt(e, h, streams', sent')
      BY <1>2, <2>19
    <3>5. QED
      BY <1>2, <2>3, <2>8, <2>13, <3>1, <3>2, <3>3, <3>4, FlowStays
  <2>20. CASE conf.mode = "OPTIMISTIC"
    <3>1. PICK strms, begin, evicted :
              /\ strms = Taken /\ begin = Syn!BeginningTuple(syn)
              /\ evicted = [strms EXCEPT ![RedoStream] = Evicted(@, begin.arrived)]
      OBVIOUS
    <3>2. streams' = evicted
      BY <1>2, <2>20, <3>1 DEF EvictedByCommit
    <3>3. StreamsOK(strms) /\ StreamsInOrder(strms, sent)
      BY <1>2, <3>1, TakenBacked DEF HasData
    <3>4. FlowAt(b, h, strms, sent)
      BY <2>3, <3>1
    <3>5. /\ width = conf.win.width
          /\ begin \in {w[k] : k \in {1, conf.win.stride + 1} \cap 1 .. width}
          /\ evicted = [strms EXCEPT ![RedoStream] = Evicted(@, begin.arrived)]
          /\ w \in [1 .. width -> Tuples] /\ Sorted(w) /\ Start(w) \in Nat
          /\ \A k \in 1 .. width : ReachesMean(w[k].arrived) /\ w[k].arrived > b
                                   /\ w[k].arrived <= h
          /\ \A k \in 1 .. width : Position(w[k].arrived) = Start(w) + (k - 1)
      BY <1>1, <2>3, <3>1
    <3>6. \E e \in 0 .. NumTuples :
              /\ FlowAt(e, h, evicted, sent)
              /\ Position(e) + 1 \in {Start(w), Start(w) + conf.win.stride}
              /\ \A k \in conf.win.stride + 1 .. width : w[k].arrived > e
      BY ONLY TypeOK, BackupInv, <3>3, <3>4, <3>5, CommitEvictsFlow
    <3>7. QED
      BY <1>1, <2>19, <3>2, <3>6
  <2>21. CASE conf.mode # "OPTIMISTIC"
    <3>1. streams' = Taken
      BY <1>2, <2>21 DEF EvictedByCommit
    <3>2. \A k \in stride + 1 .. width : w[k].arrived > b
      <4>1. \A k \in stride + 1 .. width : k \in 1 .. width
        BY ONLY <2>9
      <4>2. QED
        BY <2>3, <4>1
    <3>3. QED
      BY <2>3, <2>19, <2>21, <3>1, <3>2
  <2>22. QED
    BY <2>20, <2>21
<1>5. QED
  BY <1>3, <1>4

(* After a restart the mean has taken what reaches it up to where the redo *)
(* goes back to, and its line is empty.                                    *)
LEMMA RestartFlows ==
    ASSUME TypeOK, UNCHANGED <<conf, sent, results>>, committed' = FALSE,
           synopsis'.newcomers = <<>>, synopsis'.filled = FALSE,
           Flowing => WindowsFollow(Windows),
           NEW b \in 0 .. NumTuples, Flowing => FlowAt(b, b, streams', sent),
           Flowing => Position(b) + 1 \in Nexts(Windows)
    PROVE  FlowInv'
<1>1. Windows' = Windows
  BY DEF Windows
<1>2. LineLength(conf.win, synopsis') = 0 /\ Outworn(conf.win, synopsis') = 0
  <2>1. Len(<<>>) = 0 /\ 0 + 0 = 0
    OBVIOUS
  <2>2. QED
    BY <2>1 DEF LineLength, OldLength, Outworn
<1>3. PICK line, p : line = Line(conf.win, synopsis') /\ p = Position(b)
  OBVIOUS
<1>4. LineFlows(0, line, 0, b, b)
  <2>1. 0 + 1 .. 0 = {}
    OBVIOUS
  <2>2. QED
    BY <2>1 DEF LineFlows
<1>5. From(0, 0, b) = p + 1
  <2>1. p \in Nat
    BY <1>3, PositionStep
  <2>2. p - (0 - 0) + 1 = p + 1
    BY <2>1
  <2>3. QED
    BY <1>3, <2>2 DEF From
<1>6. Flowing => NextFollows(Windows, committed', From(0, 0, b), b)
  BY <1>3, <1>5 DEF NextFollows
<1>7. Flowing => FlowAt(b, b, streams', sent')
  OBVIOUS
<1>8. QED
  BY <1>1, <1>2, <1>3, <1>4, <1>6, <1>7, FlowStays

LEMMA LostConsistencyFlows ==
    ASSUME TypeOK, FlowInv, LostConsistency PROVE FlowInv'
<1>1. PICK next, head : next = NextSynopsis /\ head = HeadTuple
  OBVIOUS
<1>2. /\ UNCHANGED <<conf, sent, results>> /\ HasData /\ turn = NumOps
      /\ conf.mode = "OPTIMISTIC"
      /\ Syn!Completes(conf.win, synopsis) /\ synopsis' = Syn!Reset(next)
      /\ streams' = Restarted(streams) /\ committed' = FALSE
  BY <1>1 DEF LostConsistency
<1>3. /\ head \in Tuples /\ next = Syn!Enqueued(conf.win, synopsis, head)
      /\ IsWindow(conf.win) /\ SynopsisOK(conf.win, synopsis) /\ StreamsOK(streams)
      /\ conf \in Configurations /\ sent \in Nat
  BY <1>1, <1>2, HeadIsTuple, RedoPlace DEF NextSynopsis
<1>4. SynopsisOK(conf.win, next)
  BY ONLY <1>2, <1>3, CompletedSynopsis
<1>5. synopsis'.newcomers = <<>> /\ synopsis'.filled = FALSE
  <2>1. next \in SynopsisType(conf.win)
    BY <1>4 DEF SynopsisOK
  <2>2. QED
    BY <1>2, <1>3, <2>1, ResetSynopsisOK
<1>6. CASE Flowing
  <2>1. PICK b \in 0 .. NumTuples, c \in 0 .. NumTuples :
            FlowAt(b, c, streams, sent) /\ Position(b) + 1 \in Nexts(Windows)
    BY <1>2, <1>6 DEF FlowInv, NextFollows
  <2>2. FlowAt(b, b, streams', sent)
    BY <1>2, <1>3, <2>1, FlowRestart
  <2>3. WindowsFollow(Windows)
    BY <1>6 DEF FlowInv
  <2>4. QED
    BY <1>2, <1>5, <2>1, <2>2, <2>3, RestartFlows
<1>7. CASE ~Flowing
  <2>1. 0 \in 0 .. NumTuples
    BY ConstantsAssumption
  <2>2. QED
    BY <1>2, <1>5, <1>7, <2>1, RestartFlows
<1>8. QED
  BY <1>6, <1>7

(* The tuple after a commit: without an overlap it is lost. *)
LEMMA TupleLostFlows ==
    ASSUME TypeOK, BackupInv, FlowInv, CommitInv, HasData, turn = NumOps, committed,
           UNCHANGED <<conf, sent, results, synopsis>>, committed' = FALSE, streams' = Taken,
           Flowing => ~Overlapping
    PROVE  FlowInv'
<1>1. PICK h, width, line : /\ h = HeadTuple.arrived /\ width = conf.win.width
                            /\ line = Line(conf.win, synopsis)
  OBVIOUS
<1>2. Windows' = Windows
  BY DEF Windows
<1>3. /\ conf.mode \in PessimisticModes /\ conf.mode # "OPTIMISTIC" /\ conf.mode # "NONE"
      /\ IsWindow(conf.win) /\ SynopsisOK(conf.win, synopsis)
      /\ synopsis.filled /\ synopsis.newcomers = <<>>
  BY RedoPlace DEF CommitInv, PessimisticModes
<1>4. LineLength(conf.win, synopsis) = width /\ Outworn(conf.win, synopsis) = conf.win.stride
  BY <1>1, <1>3, LineIsWindow
<1>5. CASE Flowing
  <2>1. PICK b \in 0 .. NumTuples, c \in 0 .. NumTuples :
            /\ FlowAt(b, c, streams, sent)
            /\ NextFollows(Windows, committed, From(width, conf.win.stride, c), b)
    BY <1>4, <1>5 DEF FlowInv
  <2>2. conf.win.stride = width /\ width \in Nat /\ ~Overlapping
    BY <1>1, <1>3, <1>5 DEF Overlapping, IsWindow
  <2>3. /\ FlowAt(b, h, Taken, sent) /\ h \in 0 .. NumTuples
        /\ Position(h) = Position(c) + 1 /\ Position(c) \in Nat
    <3>1. /\ FlowAt(b, h, Taken, sent) /\ h \in Arrivals /\ Position(h) = Position(c) + 1
      BY <1>1, <1>5, <2>1, FlowTake DEF Flowing
    <3>2. Position(c) \in Nat
      BY PositionStep
    <3>3. h \in 0 .. NumTuples
      BY <3>1, ConstantsAssumption DEF Arrivals
    <3>4. QED
      BY <3>1, <3>2, <3>3
  <2>4. LineFlows(width, line, width, b, h)
    <3>1. width + 1 .. width = {}
      BY <2>2
    <3>2. QED
      BY <3>1 DEF LineFlows
  <2>5. PICK s, p, q : /\ s = Start(Windows[Len(Windows)]) /\ p = Position(c) /\ q = Position(h)
    OBVIOUS
  <2>6. From(width, width, c) = p + 1 /\ From(width, width, h) = p + 2
    <3>1. p \in Nat /\ q = p + 1
      BY <2>3, <2>5
    <3>2. p - (width - width) + 1 = p + 1 /\ q - (width - width) + 1 = p + 2
      BY <2>2, <3>1
    <3>3. QED
      BY <2>5, <3>2 DEF From
  <2>7. Windows # <<>> /\ p + 1 = s + width
    BY <2>1, <2>2, <2>5, <2>6 DEF NextFollows
  <2>8. NextStarts(s) = {s + width + 1}
    BY <1>1, <1>3, <2>2 DEF NextStarts
  <2>9. p + 2 \in Nexts(Windows)
    <3>1. p + 2 = s + width + 1
      BY <2>3, <2>5, <2>7
    <3>2. QED
      BY <2>5, <2>7, <2>8, <3>1 DEF Nexts
  <2>10. NextFollows(Windows, committed', From(width, width, h), b)
    BY <1>3, <2>6, <2>9 DEF NextFollows
  <2>11. WindowsFollow(Windows)
    BY <1>5 DEF FlowInv
  <2>12. /\ LineLength(conf.win, synopsis') = width /\ Outworn(conf.win, synopsis') = width
         /\ Line(conf.win, synopsis') = line /\ FlowAt(b, h, streams', sent')
    BY <1>1, <1>4, <2>2, <2>3
  <2>13. QED
    BY <1>2, <2>3, <2>4, <2>10, <2>11, <2>12, FlowStays
<1>6. CASE ~Flowing
  <2>1. 0 \in 0 .. NumTuples
    BY ConstantsAssumption
  <2>2. QED
    BY <1>2, <1>6, <2>1, FlowStays
<1>7. QED
  BY <1>5, <1>6

LEMMA DropTupleFlows ==
    ASSUME TypeOK, BackupInv, FlowInv, CommitInv, DropTuple PROVE FlowInv'
<1>1. /\ UNCHANGED <<conf, sent, results, synopsis>> /\ HasData /\ turn = NumOps /\ committed
      /\ committed' = FALSE /\ streams' = Taken /\ ~ReachedLimit
  BY DEF DropTuple, TakeTuple, Taken
<1>2. conf.joint \in Nat /\ commit_count \in Nat /\ commit_count >= 1
      /\ conf.mode \in PessimisticModes
  BY <1>1, RedoPlace, PlanShape DEF CommitInv, TypeOK
<1>3. conf.joint > 1
  BY <1>1, <1>2 DEF ReachedLimit
<1>4. Flowing => ~Overlapping
  BY <1>2, <1>3 DEF Flowing, DropsWithinWindow
<1>5. QED
  BY <1>1, <1>4, TupleLostFlows

(* The end of a transaction goes back to that tuple, with an overlap. *)
LEMMA AfterCommitFlows ==
    ASSUME TypeOK, BackupInv, FlowInv, CommitInv, AfterCommit PROVE FlowInv'
<1>1. PICK lwm, rest, evicted :
          /\ lwm = HeadTuple.arrived /\ rest = Taken
          /\ evicted = [rest EXCEPT ![RedoStream] = Evicted(@, lwm)]
  OBVIOUS
<1>2. /\ UNCHANGED <<conf, sent, results>> /\ HasData /\ turn = NumOps /\ committed
      /\ committed' = FALSE /\ InputOf(turn) # <<>>
      /\ streams' = IF ~Overlapping THEN rest ELSE Restarted(evicted)
      /\ synopsis' = IF Overlapping THEN Syn!Reset(synopsis) ELSE synopsis
  BY <1>1 DEF AfterCommit, HasData, Taken
<1>3. CASE ~Overlapping
  BY <1>1, <1>2, <1>3, TupleLostFlows
<1>4. CASE Overlapping
  <2>1. /\ conf.mode \in PessimisticModes /\ conf.mode # "OPTIMISTIC" /\ conf.mode # "NONE"
        /\ IsWindow(conf.win) /\ SynopsisOK(conf.win, synopsis) /\ sent \in Nat
        /\ synopsis.filled /\ synopsis.newcomers = <<>> /\ conf \in Configurations
    BY <1>2, RedoPlace DEF CommitInv, PessimisticModes
  <2>2. synopsis'.newcomers = <<>> /\ synopsis'.filled = FALSE
    <3>1. synopsis \in SynopsisType(conf.win)
      BY <2>1 DEF SynopsisOK
    <3>2. QED
      BY <1>2, <1>4, <2>1, <3>1, ResetSynopsisOK
  <2>3. CASE Flowing
    <3>1. PICK b \in 0 .. NumTuples, c \in 0 .. NumTuples :
              /\ FlowAt(b, c, streams, sent)
              /\ NextFollows(Windows, committed, From(LineLength(conf.win, synopsis),
                                                      Outworn(conf.win, synopsis), c), b)
      BY <2>3 DEF FlowInv
    <3>2. /\ FlowAt(b, lwm, rest, sent) /\ lwm \in Arrivals /\ lwm - 1 \in 0 .. NumTuples
          /\ lwm > c /\ c \in 0 .. NumTuples
          /\ Position(lwm - 1) = Position(c)
      BY <1>1, <1>2, <2>3, <3>1, FlowTake DEF Flowing
    <3>3. StreamsOK(rest) /\ StreamsInOrder(rest, sent)
      BY <1>1, <1>2, TakenBacked
    <3>4. lwm \in Nat /\ b < lwm /\ lwm - 1 <= lwm
      <4>1. b <= c /\ b \in 0 .. NumTuples /\ NumTuples \in Nat
        BY <3>1, RedoPlace DEF FlowAt
      <4>2. QED
        BY <3>2, <4>1 DEF Arrivals
    <3>5. PICK last : last = sent
      OBVIOUS
    <3>6. FlowAt(lwm - 1, lwm, evicted, last)
      <4>1. /\ FlowAt(b, lwm, rest, last) /\ StreamsInOrder(rest, last) /\ StreamsOK(rest)
            /\ last \in Nat
        BY <2>1, <3>2, <3>3, <3>5
      <4>2. QED
        BY ONLY <1>1, <2>1, <3>4, <4>1, FlowEvict
    <3>7. StreamsOK(evicted)
      BY ONLY <1>1, <2>1, <3>3, EvictingKeepsStreams
    <3>8. PICK e : e = lwm - 1
      OBVIOUS
    <3>9. FlowAt(e, e, Restarted(evicted), last)
      <4>1. FlowAt(e, lwm, evicted, last) /\ last \in Nat
        BY <2>1, <3>5, <3>6, <3>8
      <4>2. QED
        BY ONLY <2>1, <3>7, <4>1, FlowRestart
    <3>10. FlowAt(e, e, streams', sent) /\ e \in 0 .. NumTuples
      BY <1>2, <1>4, <3>2, <3>5, <3>8, <3>9
    <3>11. Position(e) + 1 \in Nexts(Windows)
      <4>1. PICK s, p, width, stride :
                /\ s = Start(Windows[Len(Windows)]) /\ p = Position(c)
                /\ width = conf.win.width /\ stride = conf.win.stride
        OBVIOUS
      <4>2. LineLength(conf.win, synopsis) = width /\ Outworn(conf.win, synopsis) = stride
        BY <2>1, <4>1, LineIsWindow
      <4>3. Windows # <<>> /\ From(width, stride, c) = s + stride
        BY <1>2, <3>1, <4>1, <4>2 DEF NextFollows
      <4>4. Windows # <<>> /\ p - (width - stride) + 1 = s + stride
        BY <4>1, <4>3 DEF From
      <4>5. NextStarts(s) = {s + width}
        BY <1>4, <2>1, <4>1 DEF NextStarts
      <4>6. p \in Nat /\ width \in Nat /\ stride \in Nat
        BY <2>1, <4>1, PositionStep DEF IsWindow
      <4>7. Position(e) + 1 = p + 1
        BY <3>2, <3>8, <4>1
      <4>8. p + 1 \in NextStarts(s)
        <5>1. s \in Nat
          BY <4>1, <4>4, StartType
        <5>2. p + 1 = s + width
          BY <4>4, <4>6, <5>1
        <5>3. QED
          BY <4>5, <5>2
      <4>9. QED
        BY <4>1, <4>4, <4>7, <4>8 DEF Nexts
    <3>12. WindowsFollow(Windows)
      BY <2>3 DEF FlowInv
    <3>13. QED
      BY <1>2, <2>2, <3>10, <3>11, <3>12, RestartFlows
  <2>4. CASE ~Flowing
    <3>1. 0 \in 0 .. NumTuples
      BY ConstantsAssumption
    <3>2. QED
      BY <1>2, <2>2, <2>4, <3>1, RestartFlows
  <2>5. QED
    BY <2>3, <2>4
<1>5. QED
  BY <1>3, <1>4

LEMMA InitFlows == Init => FlowInv /\ CommitInv /\ EndInv
<1> SUFFICES ASSUME Init PROVE FlowInv /\ CommitInv /\ EndInv
  OBVIOUS
<1>1. /\ TypeOK /\ sent = 0 /\ synopsis = Syn!NewSynopsis(conf.win)
      /\ streams = [i \in 0 .. NumOps - 1 |-> NewStream(i = RedoStream)]
      /\ committed = FALSE /\ results = <<>>
  BY InitInv DEF Init, IInv
<1>2. RedoStream \in 0 .. NumOps - 1 /\ NumTuples \in Nat
  BY <1>1, RedoPlace
<1>3. /\ DOMAIN <<>> = {} /\ Len(<<>>) = 0 /\ RangeOf(<<>>) = {}
  BY DEF RangeOf
<1>4. \A j \in 0 .. NumOps - 1 : RangeOf(streams[j].queue) = {} /\ RangeOf(streams[j].backup) = {}
  BY <1>1, <1>3 DEF NewStream
<1>5. FlowAt(0, 0, streams, 0)
  <2>1. \A k \in Arrivals : ~(k <= 0)
    BY DEF Arrivals
  <2>2. 0 \in 0 .. NumTuples /\ 0 <= 0
    BY <1>2
  <2>3. QED
    BY <1>2, <1>4, <2>1, <2>2 DEF FlowAt
<1>6. Windows = <<>>
  <2>1. PICK seq : seq = results
    OBVIOUS
  <2>2. seq \in Seq({0}) /\ EndOfStream \notin RangeOf(seq)
    BY <1>1, <1>3, <2>1
  <2>3. Chosen(seq, {k \in DOMAIN seq : seq[k] # EndOfStream}) = seq
    BY <2>2, WindowsAre
  <2>4. QED
    BY <1>1, <2>1, <2>3 DEF Windows
<1>7. synopsis.newcomers = <<>> /\ synopsis.filled = FALSE
  BY <1>1 DEF Syn!NewSynopsis
<1>8. LineLength(conf.win, synopsis) = 0 /\ Outworn(conf.win, synopsis) = 0
  <2>1. 0 + 0 = 0
    OBVIOUS
  <2>2. QED
    BY <1>3, <1>7, <2>1 DEF LineLength, OldLength, Outworn
<1>9. LineFlows(0, Line(conf.win, synopsis), 0, 0, 0)
  <2>1. 0 + 1 .. 0 = {}
    OBVIOUS
  <2>2. QED
    BY <2>1 DEF LineFlows
<1>10. NextFollows(<<>>, FALSE, From(0, 0, 0), 0)
  <2>1. Position(0) = 0 /\ 0 - (0 - 0) + 1 = 1 /\ 0 + 1 = 1
    BY PositionStep
  <2>2. From(0, 0, 0) = 1 /\ Position(0) + 1 = 1
    BY <2>1 DEF From
  <2>3. QED
    BY <2>2 DEF NextFollows, Nexts
<1>11. WindowsFollow(<<>>)
  <2>1. 1 .. 0 - 1 = {}
    OBVIOUS
  <2>2. QED
    BY <1>3, <2>1 DEF WindowsFollow
<1>12. FlowInv
  <2>1. 0 \in 0 .. NumTuples
    BY <1>2
  <2>2. WindowsFollow(Windows) /\ NextFollows(Windows, committed, From(0, 0, 0), 0)
    BY <1>1, <1>6, <1>10, <1>11
  <2>3. FlowAt(0, 0, streams, sent)
    BY <1>1, <1>5
  <2>4. QED
    BY <1>8, <1>9, <2>1, <2>2, <2>3 DEF FlowInv
<1>13. CommitInv /\ EndInv
  BY <1>1, <1>3 DEF CommitInv, EndInv
<1>14. QED
  BY <1>12, <1>13
-----------------------------------------------------------------------------
(* Commits and the end *)

LEMMA CommitKept ==
    ASSUME TypeOK, CommitInv, [Next]_vars PROVE CommitInv'
<1>1. ASSUME UNCHANGED <<conf, synopsis, committed, commit_count>> PROVE CommitInv'
  BY <1>1 DEF CommitInv
<1>2. ASSUME ~committed' PROVE CommitInv'
  BY <1>2 DEF CommitInv
<1>3. CASE WindowOutput
  <2>1. PICK head, syn : head = HeadTuple /\ syn = NextSynopsis
    OBVIOUS
  <2>2. /\ conf' = conf /\ HasData /\ Syn!Completes(conf.win, synopsis) /\ synopsis' = syn
        /\ committed' = (conf.mode \in PessimisticModes)
        /\ commit_count' = IF conf.mode \in PessimisticModes THEN commit_count + 1
                           ELSE commit_count
    BY <1>3, <2>1 DEF WindowOutput
  <2>3. /\ head \in Tuples /\ syn = Syn!Enqueued(conf.win, synopsis, head)
        /\ IsWindow(conf.win) /\ SynopsisOK(conf.win, synopsis)
    BY <2>1, <2>2, HeadIsTuple, RedoPlace DEF NextSynopsis
  <2>4. syn.filled /\ syn.newcomers = <<>>
    BY ONLY <2>2, <2>3, CompletedSynopsis
  <2>5. conf.mode \in PessimisticModes => commit_count' >= 1
    BY <2>2 DEF TypeOK
  <2>6. QED
    BY <2>2, <2>4, <2>5 DEF CommitInv
<1>4. CASE WindowWaits
  BY <1>2, <1>4 DEF WindowWaits, UnchangedTransaction
<1>5. CASE FindNothing \/ PassEndOfStream \/ ProcessSimple \/ ProcessCombine
  BY <1>1, <1>5 DEF FindNothing, PassEndOfStream, ProcessSimple, ProcessCombine,
                    UnchangedTransaction
<1>6. CASE LostConsistency \/ DropTuple \/ AfterCommit
  BY <1>2, <1>6 DEF LostConsistency, DropTuple, AfterCommit
<1>7. CASE Send \/ \E r \in Relations : Update(r) \/ UnlockUpdated(r)
  BY <1>1, <1>7 DEF Send, Update, UnlockUpdated, UnchangedQuery
<1>8. CASE UNCHANGED vars
  BY <1>1, <1>8 DEF vars
<1>9. QED
  BY <1>3, <1>4, <1>5, <1>6, <1>7, <1>8 DEF Next, QueryStep

(* Nothing is taken or sent after the end. *)
LEMMA EndStays ==
    ASSUME TypeOK, EndInv, UNCHANGED <<conf, results>>,
           UNCHANGED <<sent, streams>> \/ InputOf(turn) # <<>> \/ sent <= NumTuples
    PROVE  EndInv'
<1>1. NumOps' = NumOps
  BY PlanStays
<1>2. turn - 1 \in 0 .. NumOps - 1 /\ sent \in Nat /\ NumTuples \in Nat
  BY RedoPlace
<1>3. CASE UNCHANGED <<sent, streams>>
  BY <1>1, <1>3 DEF EndInv, RangeOf
<1>4. CASE InputOf(turn) # <<>> \/ sent <= NumTuples
  <2>1. EndOfStream \notin RangeOf(results)
    BY <1>2, <1>4 DEF EndInv, InputOf
  <2>2. QED
    BY <2>1 DEF EndInv, RangeOf
<1>5. QED
  BY <1>3, <1>4

LEMMA EndPasses ==
    ASSUME TypeOK, BackupInv, EndInv, PassEndOfStream, turn = NumOps PROVE EndInv'
<1>1. PICK rest, line, r : /\ rest = Taken /\ line = Line(conf.win, synopsis)
                           /\ r = Append(results, EndOfStream)
  OBVIOUS
<1>2. /\ UNCHANGED <<conf, sent>> /\ InputOf(turn) # <<>> /\ HeadTuple = EndOfStream
      /\ streams' = rest /\ results' = r
  BY <1>1 DEF PassEndOfStream, TakeTuple, Taken
<1>3. NumOps' = NumOps
  BY <1>2, PlanStays
<1>4. /\ StreamsOK(rest) /\ UpTo(HeadTuple, sent)
      /\ \A j \in 0 .. NumOps - 1 : \A u \in RangeOf(rest[j].queue) : Before(HeadTuple, u)
  BY <1>1, <1>2, TakenBacked
<1>5. sent = NumTuples + 1
  BY <1>2, <1>4 DEF UpTo
<1>6. \A j \in 0 .. NumOps - 1 : RangeOf(rest[j].queue) = {}
  BY <1>2, <1>4 DEF Before
<1>7. ASSUME NEW j \in 0 .. NumOps - 1 PROVE rest[j].queue = <<>>
  <2>1. rest[j].queue \in Seq(Messages)
    BY <1>4 DEF StreamsOK, StreamType
  <2>2. PICK q : q = rest[j].queue
    OBVIOUS
  <2>3. q \in Seq(Messages) /\ \A k \in DOMAIN q : FALSE
    BY <1>6, <2>1, <2>2 DEF RangeOf
  <2>4. q = <<>>
    <3>1. PICK n : n = Len(q)
      OBVIOUS
    <3>2. n \in Nat /\ DOMAIN q = 1 .. n
      BY <2>3, <3>1, LenProperties
    <3>3. q # <<>> => 1 \in 1 .. n
      BY <2>3, <3>1, <3>2, EmptySeq
    <3>4. QED
      BY <2>3, <3>2, <3>3
  <2>5. QED
    BY <2>2, <2>4
<1>8. PICK S : results \in Seq(S) /\ EndOfStream \in S
  BY ResultsType
<1>9. EndOfStream \notin RangeOf(results)
  BY <1>2, RedoPlace DEF EndInv, InputOf
<1>10. \A k \in DOMAIN r : r[k] = EndOfStream => k = Len(r)
  <2>1. PICK n : n = Len(results)
    OBVIOUS
  <2>2. /\ Len(r) = n + 1 /\ DOMAIN r = 1 .. n + 1 /\ n \in Nat /\ DOMAIN results = 1 .. n
        /\ \A k \in 1 .. n : r[k] = results[k]
    BY <1>1, <1>8, <2>1, AppendProperties, LenProperties
  <2>3. \A k \in 1 .. n + 1 : k \in 1 .. n \/ k = n + 1
    BY <2>2
  <2>4. QED
    BY <1>9, <2>2, <2>3 DEF RangeOf
<1>11. QED
  BY <1>2, <1>3, <1>5, <1>7, <1>10 DEF EndInv

LEMMA EndAfterWindow ==
    ASSUME TypeOK, EndInv, WindowOutput PROVE EndInv'
<1>1. PICK w, head, syn : /\ w = Syn!WindowOf(conf.win, NextSynopsis)
                          /\ head = HeadTuple /\ syn = NextSynopsis
  OBVIOUS
<1>2. HasData /\ Syn!Completes(conf.win, synopsis) /\ results' = Append(results, w)
  BY <1>1 DEF WindowOutput
<1>3. /\ head \in Tuples /\ syn = Syn!Enqueued(conf.win, synopsis, head)
      /\ IsWindow(conf.win) /\ SynopsisOK(conf.win, synopsis)
  BY <1>1, <1>2, HeadIsTuple, RedoPlace DEF NextSynopsis
<1>4. SynopsisOK(conf.win, syn) /\ syn.filled
  BY ONLY <1>2, <1>3, CompletedSynopsis
<1>5. w \in [1 .. conf.win.width -> Tuples]
  BY <1>1, <1>3, <1>4, WindowTuples
<1>6. PICK S : /\ results \in Seq(S) /\ S = [1 .. conf.win.width -> Tuples] \cup {EndOfStream}
               /\ EndOfStream \notin [1 .. conf.win.width -> Tuples]
  BY ResultsType
<1>7. w \in S /\ w # EndOfStream
  BY <1>5, <1>6
<1>8. EndOfStream \notin RangeOf(results)
  BY <1>2, NotEnded
<1>9. PICK r, n : r = Append(results, w) /\ n = Len(results)
  OBVIOUS
<1>10. /\ DOMAIN r = 1 .. n + 1 /\ n \in Nat /\ DOMAIN results = 1 .. n /\ r[n + 1] = w
       /\ \A k \in 1 .. n : r[k] = results[k]
  BY <1>6, <1>7, <1>9, AppendProperties, LenProperties
<1>11. \A k \in 1 .. n + 1 : k \in 1 .. n \/ k = n + 1
  BY <1>10
<1>12. EndOfStream \notin RangeOf(r)
  BY <1>7, <1>8, <1>10, <1>11 DEF RangeOf
<1>13. QED
  BY <1>2, <1>9, <1>12 DEF EndInv, RangeOf

LEMMA EndKept ==
    ASSUME TypeOK, BackupInv, EndInv, [Next]_vars PROVE EndInv'
<1>1. CASE FindNothing \/ (\E r \in Relations : Update(r) \/ UnlockUpdated(r)) \/ UNCHANGED vars
  BY <1>1, EndStays DEF FindNothing, Update, UnlockUpdated, UnchangedQuery, vars
<1>2. CASE PassEndOfStream
  BY <1>2, EndPasses, EndStays DEF PassEndOfStream
<1>3. CASE WindowOutput
  BY <1>3, EndAfterWindow
<1>4. CASE ProcessSimple \/ ProcessCombine \/ WindowWaits
  BY <1>4, EndStays DEF ProcessSimple, ProcessCombine, WindowWaits, HasData
<1>5. CASE LostConsistency \/ DropTuple \/ AfterCommit
  BY <1>5, EndStays DEF LostConsistency, DropTuple, AfterCommit, HasData
<1>6. CASE Send
  BY <1>6, EndStays DEF Send, UnchangedQuery
<1>7. QED
  BY <1>1, <1>2, <1>3, <1>4, <1>5, <1>6 DEF Next, QueryStep

LEMMA FlowKept ==
    ASSUME TypeOK, BackupInv, FlowInv, CommitInv, EndInv, [Next]_vars PROVE FlowInv'
<1>1. CASE FindNothing
  BY <1>1, SameFlow DEF FindNothing, UnchangedTransaction
<1>2. CASE PassEndOfStream
  BY <1>2, PassEndOfStreamFlows
<1>3. CASE ProcessSimple
  BY <1>3, ProcessSimpleFlows
<1>4. CASE ProcessCombine
  BY <1>4, ProcessCombineFlows
<1>5. CASE WindowWaits
  BY <1>5, WindowWaitsFlows
<1>6. CASE WindowOutput
  BY <1>6, WindowOutputFlows
<1>7. CASE LostConsistency
  BY <1>7, LostConsistencyFlows
<1>8. CASE DropTuple
  BY <1>8, DropTupleFlows
<1>9. CASE AfterCommit
  BY <1>9, AfterCommitFlows
<1>10. CASE Send
  BY <1>10, SendFlows
<1>11. CASE \E r \in Relations : Update(r) \/ UnlockUpdated(r)
  BY <1>11, SameFlow DEF Update, UnlockUpdated, UnchangedQuery
<1>12. CASE UNCHANGED vars
  BY <1>12, SameFlow DEF vars
<1>13. QED
  BY <1>1, <1>2, <1>3, <1>4, <1>5, <1>6, <1>7, <1>8, <1>9, <1>10, <1>11, <1>12
  DEF Next, QueryStep
-----------------------------------------------------------------------------
(* What the properties say of the windows and of the end *)

LEMMA FlowFollows ==
    ASSUME FlowInv PROVE ResultsFollowStream
BY DEF FlowInv, Flowing, WindowsFollow, ResultsFollowStream

(* At the end the mean has taken all that reaches it. *)
LEMMA AllTaken ==
    ASSUME TypeOK, EndInv, EndOfStream \in RangeOf(results),
           NEW b \in 0 .. NumTuples, NEW c \in 0 .. NumTuples, FlowAt(b, c, streams, sent)
    PROVE  Position(c) = Position(NumTuples)
<1>1. sent = NumTuples + 1 /\ \A j \in 0 .. NumOps - 1 : streams[j].queue = <<>>
  BY DEF EndInv
<1>2. DOMAIN <<>> = {} /\ NumTuples \in Nat
  BY ConstantsAssumption
<1>3. \A j \in 0 .. NumOps - 1 : \A k : ~Holds(streams[j].queue, k)
  BY <1>1, <1>2 DEF Holds, RangeOf
<1>4. \A k \in c + 1 .. NumTuples : k \in Arrivals /\ k <= sent /\ k > c
  BY <1>1, <1>2 DEF Arrivals
<1>5. \A k \in c + 1 .. NumTuples : ~ReachesMean(k)
  BY <1>3, <1>4 DEF FlowAt
<1>6. c \in Nat /\ c <= NumTuples
  BY <1>2
<1>7. QED
  BY <1>2, <1>5, <1>6, PositionGap

LEMMA EndsWhenAllTaken ==
    ASSUME TypeOK, FlowInv, CommitInv, EndInv PROVE EndsComplete
<1>1. \A k \in DOMAIN results : results[k] = EndOfStream => k = Len(results)
  BY DEF EndInv, RangeOf
<1>2. ASSUME EndOfStream \in RangeOf(results), Flowing
      PROVE  IF Windows = <<>> THEN Position(NumTuples) < conf.win.width
             ELSE \A s \in NextStarts(Start(Windows[Len(Windows)]))
                               \ {Start(Windows[Len(Windows)])} :
                      s + conf.win.width - 1 > Position(NumTuples)
  <2>1. PICK n, outworn, width, stride, m :
            /\ n = LineLength(conf.win, synopsis) /\ outworn = Outworn(conf.win, synopsis)
            /\ width = conf.win.width /\ stride = conf.win.stride
            /\ m = Len(synopsis.newcomers)
    OBVIOUS
  <2>2. PICK b \in 0 .. NumTuples, c \in 0 .. NumTuples :
            /\ FlowAt(b, c, streams, sent)
            /\ NextFollows(Windows, committed, From(n, outworn, c), b)
    BY <1>2, <2>1 DEF FlowInv
  <2>3. PICK total, last : total = Position(NumTuples) /\ last = Start(Windows[Len(Windows)])
    OBVIOUS
  <2>4. Position(c) = total /\ total \in Nat
    BY <1>2, <2>2, <2>3, AllTaken, PositionStep
  <2>5. /\ IsWindow(conf.win) /\ SynopsisOK(conf.win, synopsis)
        /\ width \in Nat /\ stride \in 1 .. width
        /\ conf.mode \in {"NONE", "OPTIMISTIC"} \/ conf.mode \in PessimisticModes
    BY <2>1, RedoPlace, PlanShape DEF IsWindow, CCModes, PessimisticModes
  <2>6. n \in Nat /\ outworn \in Nat /\ n - outworn < width
    <3>1. m \in Nat /\ m < Syn!Needed(conf.win, synopsis) /\ n = OldLength(conf.win, synopsis) + m
      BY <2>1, <2>5, SynopsisFields DEF SynopsisOK, LineLength
    <3>2. CASE synopsis.filled
      <4>1. m < stride /\ n = width + m /\ outworn = stride
        BY <2>1, <3>1, <3>2 DEF Syn!Needed, OldLength, Outworn
      <4>2. QED
        BY <2>5, <3>1, <4>1
    <3>3. CASE ~synopsis.filled
      <4>1. m < width /\ n = 0 + m /\ outworn = 0
        BY <2>1, <3>1, <3>3 DEF Syn!Needed, OldLength, Outworn
      <4>2. QED
        BY <2>5, <3>1, <4>1
    <3>4. QED
      BY <3>2, <3>3
  <2>7. PICK from : from = total - (n - outworn) + 1
    OBVIOUS
  <2>8. from \in Int /\ from + width - 1 > total /\ From(n, outworn, c) = from
    BY <2>4, <2>5, <2>6, <2>7 DEF From
  <2>9. CASE Windows = <<>>
    <3>1. from = 1
      BY <2>2, <2>8, <2>9 DEF NextFollows, Nexts
    <3>2. total < width
      BY <2>4, <2>5, <2>8, <3>1
    <3>3. QED
      BY <2>1, <2>3, <2>9, <3>2
  <2>10. CASE Windows # <<>>
    <3>1. last \in Nat
      BY <2>3, <2>10, StartType
    <3>2. ASSUME NEW s \in NextStarts(last) \ {last} PROVE s + width - 1 > total
      <4>1. CASE committed
        <5>1. from = last + stride /\ conf.mode \in PessimisticModes
              /\ synopsis.filled /\ synopsis.newcomers = <<>>
          BY <2>1, <2>2, <2>3, <2>8, <4>1 DEF NextFollows, CommitInv
        <5>2. s = last + width \/ s = last + width + 1
          BY <2>1, <3>2, <5>1 DEF NextStarts, PessimisticModes
        <5>3. n = width /\ outworn = stride
          BY <2>1, <2>5, <5>1, LineIsWindow
        <5>4. total = last + width - 1
          BY <2>4, <2>5, <2>7, <3>1, <5>1, <5>3
        <5>5. width >= 1
          BY <2>5
        <5>6. QED
          BY <2>5, <3>1, <5>2, <5>4, <5>5
      <4>2. CASE ~committed
        <5>1. from \in NextStarts(last)
          BY <2>2, <2>3, <2>8, <2>10, <4>2 DEF NextFollows, Nexts
        <5>2. CASE conf.mode = "OPTIMISTIC"
          <6>1. s = last + stride /\ (from = last \/ from = last + stride)
            BY <2>1, <3>2, <5>1, <5>2 DEF NextStarts, PessimisticModes
          <6>2. QED
            BY <2>4, <2>5, <2>8, <3>1, <6>1
        <5>3. CASE conf.mode # "OPTIMISTIC"
          <6>1. s = from
            BY <2>5, <3>2, <5>1, <5>3 DEF NextStarts, PessimisticModes
          <6>2. QED
            BY <2>8, <6>1
        <5>4. QED
          BY <5>2, <5>3
      <4>3. QED
        BY <4>1, <4>2
    <3>3. QED
      BY <2>1, <2>3, <2>10, <3>2
  <2>11. QED
    BY <2>9, <2>10
<1>3. QED
  BY <1>1, <1>2 DEF EndsComplete, Flowing, RangeOf

(* The invariants of the flow, of the commits and of the end, which hold   *)
(* together.  The first is about queries where no tuple matches twice and  *)
(* none is dropped within a window; the theorems after it say what it      *)
(* means for them.                                                         *)
THEOREM FlowInductive == Spec => [](FlowInv /\ CommitInv /\ EndInv)
<1>1. Init => FlowInv /\ CommitInv /\ EndInv
  BY InitFlows
<1>2. /\ TypeOK /\ BackupInv /\ FlowInv /\ CommitInv /\ EndInv /\ [Next]_vars
      => FlowInv' /\ CommitInv' /\ EndInv'
  BY FlowKept, CommitKept, EndKept
<1>3. QED
  BY <1>1, <1>2, TypeCorrect, BackupInductive, PTL DEF Spec

(* What the next window takes of the slots and the newcomers is a run of   *)
(* the tuples that reach the mean, with the last of them up to c at its    *)
(* end; and the streams have all those sent after c, and nothing up to it. *)
TakenUpTo(c) ==
    LET line == Line(conf.win, synopsis)
        n == LineLength(conf.win, synopsis)
    IN  /\ \A k \in Outworn(conf.win, synopsis) + 1 .. n :
               /\ ReachesMean(line[k].arrived)
               /\ Position(line[k].arrived) + (n - k) = Position(c)
        /\ \A j \in 0 .. NumOps - 1 : \A t \in RangeOf(streams[j].queue) :
               t # EndOfStream => t.arrived > c
        /\ \A k \in Arrivals : k > c /\ k <= sent /\ ReachesMean(k) =>
               \E j \in 0 .. NumOps - 1 : Holds(streams[j].queue, k)

(* Where no tuple matches twice and no transaction drops tuples within its *)
(* windows, no tuple that reaches the mean is ever skipped on its way      *)
(* there: between what the mean has taken and what is in the streams there *)
(* is no gap, whatever a commit evicts, a redo takes back or the end of a  *)
(* transaction starts over (stream.h:221-242, synopsis.h:178-239,          *)
(* abstract-cc-scheduler.h:102-132).                                       *)
THEOREM NoTupleIsSkipped ==
    Spec => [](NoTwoMatches /\ ~DropsWithinWindow => \E c \in 0 .. NumTuples : TakenUpTo(c))
<1>1. ASSUME FlowInv
      PROVE  NoTwoMatches /\ ~DropsWithinWindow => \E c \in 0 .. NumTuples : TakenUpTo(c)
  <2>1. SUFFICES ASSUME NoTwoMatches, ~DropsWithinWindow
                 PROVE  \E c \in 0 .. NumTuples : TakenUpTo(c)
    OBVIOUS
  <2>2. PICK win : win = conf.win
    OBVIOUS
  <2>3. PICK line : line = Line(win, synopsis)
    OBVIOUS
  <2>4. PICK n : n = LineLength(win, synopsis)
    OBVIOUS
  <2>5. PICK b \in 0 .. NumTuples, c \in 0 .. NumTuples :
            /\ FlowAt(b, c, streams, sent)
            /\ LineFlows(n, line, Outworn(win, synopsis), b, c)
    BY <1>1, <2>1, <2>2, <2>3, <2>4 DEF FlowInv, Flowing
  <2>6. \A k \in Outworn(win, synopsis) + 1 .. n :
            /\ ReachesMean(line[k].arrived)
            /\ Position(line[k].arrived) + (n - k) = Position(c)
    BY ONLY <2>5 DEF LineFlows
  <2>7. /\ \A j \in 0 .. NumOps - 1 : \A t \in RangeOf(streams[j].queue) :
               t # EndOfStream => t.arrived > c
        /\ \A k \in Arrivals : k > c /\ k <= sent /\ ReachesMean(k) =>
               \E j \in 0 .. NumOps - 1 : Holds(streams[j].queue, k)
    BY <2>5 DEF FlowAt
  <2>8. QED
    BY <2>2, <2>3, <2>4, <2>6, <2>7 DEF TakenUpTo
<1>2. QED
  BY <1>1, FlowInductive, PTL

(* A redo that begins behind b begins with a window that may come next,    *)
(* the one output before or the one after it; and has all that reaches the *)
(* mean from there on, in the backup or on its way to the redo stream, and *)
(* nothing from before.                                                    *)
RedoBeginsBehind(b) ==
    /\ Position(b) + 1 \in Nexts(Windows)
    /\ \A t \in RangeOf(streams[RedoStream].backup) : t # EndOfStream => t.arrived > b
    /\ \A k \in Arrivals : k > b /\ k <= sent /\ ReachesMean(k) =>
           \/ Holds(streams[RedoStream].backup, k)
           \/ \E j \in 0 .. RedoStream - 1 : Holds(streams[j].queue, k)

(* Under the optimistic control, where no tuple matches twice, a redo at   *)
(* any time would begin with a whole window: the commit has evicted all    *)
(* before that, and nothing else (optimistic-cc-scheduler.h:44-56).        *)
THEOREM RedoBeginsWithWindow ==
    Spec => [](conf.mode = "OPTIMISTIC" /\ NoTwoMatches =>
                   \E b \in 0 .. NumTuples : RedoBeginsBehind(b))
<1>1. ASSUME FlowInv
      PROVE  conf.mode = "OPTIMISTIC" /\ NoTwoMatches =>
                 \E b \in 0 .. NumTuples : RedoBeginsBehind(b)
  <2>1. SUFFICES ASSUME conf.mode = "OPTIMISTIC", NoTwoMatches
                 PROVE  \E b \in 0 .. NumTuples : RedoBeginsBehind(b)
    OBVIOUS
  <2>2. Flowing
    BY <2>1 DEF Flowing, DropsWithinWindow, PessimisticModes
  <2>3. PICK b \in 0 .. NumTuples, c \in 0 .. NumTuples :
            /\ FlowAt(b, c, streams, sent)
            /\ \E from : NextFollows(Windows, committed, from, b)
    BY <1>1, <2>2 DEF FlowInv
  <2>4. QED
    BY <2>1, <2>3 DEF RedoBeginsBehind, FlowAt, NextFollows
<1>2. QED
  BY <1>1, FlowInductive, PTL

(* Where no tuple matches twice and no transaction drops tuples within its *)
(* windows, every window is a run of the tuples that reach the mean, and   *)
(* the windows start where the concurrency control lets them: whatever the *)
(* batches, the redos, the evictions and the ends of transactions do to    *)
(* the streams in between.                                                 *)
THEOREM WindowsFollowStream == Spec => []ResultsFollowStream
<1>1. FlowInv => ResultsFollowStream
  BY FlowFollows
<1>2. QED
  BY <1>1, FlowInductive, PTL

(* The end of the stream is the last of the results; and where no tuple    *)
(* matches twice and none is dropped within a window, it does not overtake *)
(* a window that the input has tuples for.                                 *)
THEOREM EndIsComplete == Spec => []EndsComplete
<1>1. TypeOK /\ FlowInv /\ CommitInv /\ EndInv => EndsComplete
  BY EndsWhenAllTaken
<1>2. QED
  BY <1>1, TypeCorrect, FlowInductive, PTL
=============================================================================
