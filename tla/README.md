# A verification of currentia

Currentia is a stream database with concurrency control: a continuous query
reads streams of tuples, combines them with relations that other threads
update, and outputs an aggregate over windows. Its four concurrency controls
decide what a window may see of those updates. This directory holds TLA+
modules that model that core, the language its queries are written in with the
parser generator behind it, the TLC runs that check them on small instances,
and theorems about them that TLAPS checks for every value of the constants.

Paths below are relative to `src/src/currentia/`.

## 1. The system and its parts

| Component | State | Operations | What makes it correct |
|---|---|---|---|
| Streams, `core/stream.h` | a queue, a backup of what was enqueued, a mutex and a condition | enqueue, (timed) dequeue, clear, recovery from the backup, eviction | order is kept; a recovery brings back exactly what was not evicted |
| Relations, `core/relation.h` | tuples, a version number, a recursive mutex | lock, unlock, update, copy, scan | the version steps with every update, under the lock |
| Reference operators, `core/operator/trait-resource-reference-operator.h` | whether the open transaction has begun; a snapshot | begin and end of an operation, end of a transaction | what is locked is unlocked, one version per transaction |
| Operators, `core/operator/*.h` | input and output streams; a window for aggregates and joins | one call of `next_implementation` | each tuple is processed, in order; system messages pass through |
| Windows, `core/operator/synopsis.h` | a ring of slots, the newcomers, where the window begins | enqueue, accept, reset | the slots are the latest tuples; the low water mark spares the next window |
| Tree analysis, `core/cc/commit-operator-finder.h`, `redo-area.h`, `core/operator/operator-visitor-serializer.h` | marks on operators and streams | one walk each at the start | the redo area covers everything between the backed-up streams and the commit operator |
| Concurrency-control schedulers, `core/cc/*-scheduler.h` | the commit count, the redo streams and operators | one `wake_up`; commit, redo, end of a transaction | windows are consistent, complete and in order |
| Scheduling, `core/scheduler/` | whose turn it is | next operator, reset | every operator gets its turn |
| Threads of an experiment, `server/*.h`, `core/thread.h` | loops until stopped | send, update, consume, wake up the scheduler | the query makes progress; updates get through |
| Values and conditions, `core/tuple.h`, `object.h`, `schema.h`, `operator/condition.h`, `operation/` | tuples and trees of conditions | compare, check, normalise, obey a schema | a condition means the same after each transformation |
| Elections, `core/operator/operator-election.h`, `-unixtime.h` | a window that nothing reads | one call of `next_implementation` | what comes in goes out unchanged |
| CPL, `query/` | the tables of streams and relations | parse, declare, look up | names resolve to the streams and operators they were declared with |
| Parser generator, `query/tools/lemon/lemon.c` | the grammar read so far, its symbols, the tables | read, compute, compress, pack | the grammar is what was written; the tables do what was computed |
| Parser engine, `query/tools/lemon/lempar-currentia.c` | a stack of states | take a token | sentences are accepted, and nothing else; every call returns |
| Server, `server/server.h`, handlers | sockets and fixed demonstration operators | | (demonstration code) |
| Utilities, command line parser | | | |

How they interact. One thread, the `QueryProcessor`, calls `wake_up` of its
scheduler in a loop. The scheduler asks its policy for the next operator and
calls its `next_implementation` a batch of times. An operator takes a tuple
from its input stream, which is its parent's output stream, and outputs any
number to its own. A combine (`OperatorSimpleRelationJoin`) brackets its scan of the relation
with `reference_operation_begin` and `_end`. The mean enqueues into its synopsis,
which calls it back when a window is complete; what it has to say to the
scheduler (a commit, lost consistency, the low water mark behind a transaction)
it throws. Senders enqueue into the streams that the adapters read, updaters
lock, update and unlock the relations.

What is hard. Updates come between any two operations of the query; a
transaction ends in an exception thrown from a callback of a callback; a redo takes back
streams, operators and the schedule and replays a backup, which commits keep
trimming by an index into a ring; locks are recursive and are counted over all
operators; the tuple that ends a transaction is dropped. `PROJECT.json` lists
these hazards one by one, with the properties that cover them.

The parser of CPL is made at build time: Lemon, which the repository keeps in a
version of its own, reads `cpl-parser.y`, computes an LALR(1) automaton, packs
its actions into two arrays and copies the engine behind them. `parse_cpl` feeds
the tokens of the lexer to the result; its actions call `CPLContainer`, which
builds the plan. What is hard there is sequential, yet out of a test's reach: one grammar,
which happens to work, says little of a table that is built for all of them.

## 2. The modules

| Module | Models | Abstracts |
|---|---|---|
| `StoredRelation` | a relation's version and recursive mutex, as operators over a record | its tuples |
| `RelationTransaction` | the reference operators of one query and the updaters, with every lock, match and unlock a step of its own, and a snapshot one step (its copy is made under the relation's mutex) | when transactions end: at any time between two operations |
| `MCRelationTransaction` | an instance: three operators on two relations | |
| `RelationTransactionProofs` | theorems about `RelationTransaction` | |
| `TupleSynopsis` | `TupleBaseSynopsis`, as operators over a record | the payload of tuples |
| `SlidingWindow` | what a tuple-based window promises, with no ring in it | |
| `TupleWindow` | a synopsis with tuples and resets coming in any order; implements `SlidingWindow` | who resets it, and why |
| `TupleWindowProofs` | theorems about `TupleWindow`, the refinement among them | |
| `Subsequences` | what `remove_if` and a scan leave of a sequence: the elements at some positions, in order | |
| `SubsequenceTheorems` | theorems about it, which several proofs use | |
| `StreamBuffer` | `Stream` with its backup, as operators over a record | blocking, which the query's thread never does |
| `ContinuousQuery` | a chain of operators under each control, its scheduler, the sender and the updaters; composes `StoredRelation`, `StreamBuffer` and `TupleSynopsis` | the locks inside one call of a combine (that is `RelationTransaction`), conditions and values |
| `MCContinuousQuery` | instances: the queries checked | |
| `ContinuousQueryProofs` | theorems about `ContinuousQuery` | |
| `QueryPlan` | how CPL's statements build a plan, and the walks over it that find the turns, the commit operator and the redo area | what operators do with tuples |
| `MCQueryPlan` | an instance: all plans of a few operators | |
| `LanguageProofs` | theorems about `QueryPlan` and `TypedQuery`, and about `PackedActions` and `SymbolTable` of the parser generator | |
| `WindowJoin` | `OperatorJoin` with its two synopses (`TupleSynopsis`), the end of the stream on either side, a redo | what is in a tuple; commits |
| `MCWindowJoin` | instances: sliding and tumbling windows | |
| `WindowJoinProofs` | theorems about `WindowJoin` | |
| `TimeWindow` | `TimeBaseSynopsis`, with the arithmetic on timevals in `useconds_t`, and an operator that throws from the call back | a redo on top of it |
| `MCTimeWindow` | an instance: overlapping, tumbling and landmark windows, and one that `useconds_t` cannot say | |
| `TimeWindowProofs` | theorems about `TimeWindow` | |
| `Objects` | the values of four types: comparison, casts, sums and quotients | the width of integers, reading from text |
| `Schemas` | schemas and tuples: adding attributes, the index of names, concatenation, validity | |
| `ConditionTerms` | one term or node of a condition: checks, `obey_schema`, negation | `toString` |
| `ConditionTrees` | whole conditions, by recursion: checks, what `obey_schema` and `to_cnf` make of them | |
| `Conditions` | how CPL's grammar puts conditions together, with `NOT` | operators |
| `TypedQuery` | a chain declared operator by operator, with schemas, conditions and a relation, and tuples of typed values that go through it | what a condition is, concurrency control, windows that overlap, more than one relation |
| `TypedConditions` | `TypedQuery` with the conditions of `ConditionTrees`, and the properties that look into them | |
| `MCTypedQuery` | an instance: attributes, values, conditions | |
| `ActionTable` | `acttab_insert`: where a set of actions goes in the packed table; looking one up | |
| `PackedActions` | a table that sets are packed into, one after another | where the sets come from |
| `SymbolTable` | the hash table of symbols, which grows as it fills | order within a list |
| `GrammarReader` | `parseonetoken`, all its states, declarations and errors; composes `SymbolTable` | the texts of aliases and code |
| `ListSort` | the merge sort of lists | |
| `LemonTables` | the passes of Lemon as operators: precedences, first sets, states, follow sets, actions and conflicts, compression, order | its hash tables of states and configurations |
| `LemonParser` | the passes in turn, `ReportTable`, and the engine; composes `GrammarReader`, `LemonTables`, `PackedActions` | the text of the parser, semantic values |
| `Languages` | what a grammar generates, by its definition | |
| `MCLemonParser` | an instance: grammar files, right and wrong | |
| `Experiment` | the main threads of two experiments, `Runnable`, senders, updater, consumer and query processor, with the blocking dequeue | the query: a result for every so many tuples of each input |
| `ExperimentProofs` | theorems about `Experiment` | |

The state and the actions correspond to the code as follows.

*RelationTransaction.* `relation[r]` is the relation's version and mutex,
`first_time` and `snapshot` are the fields `first_time_in_txn_` and `relation_` of
each reference operator, `query` and `updater` say where each thread is. `seen`
is history: the versions read. `ReferenceBegin`, `Match` and `ReferenceEnd` are
one `process_single_input` of a combine; `AfterCommit` and `TransactionEnd` are the
walk of `release_all_locks_` or `refresh_snapshots_` over the operators.

*TupleWindow.* `synopsis` is the ring; `Enqueue` is `enqueue` with the acceptance it
may end in, `Reset` is `reset`. `arrivals` is history.

*ContinuousQuery.* A step is one call of `next_implementation`, with what the scheduler does about the
exception it ends in, the move to the next operator included. `streams[i]` is
the output of operator i, `streams[0]` the input of the adapter. `WindowWaits`, `WindowOutput`, `LostConsistency`,
`DropTuple` and `AfterCommit` are the five things that can happen when the mean
takes a tuple. In a chain the low water mark of a tuple is the arrival
time of the input tuple it comes from, so one field stands for both. The
calls of one batch are separate steps, between which the other threads may take theirs, as they may in the code.
`part` and `reads` are history, which tell tuples apart and say what
they have really read; the code sees only `tag`.

*QueryPlan.* `plan` is every operator made so far, in order, with the positions of its
inputs; `streams` is the table of `query/cpl.h`; `query` is what a scheduler keeps
after its constructor. One action per statement, and `Schedule`. Each walk is one recursive function.
`CPLStreamDeclaration` lets one stream be read by several statements, so a
plan may be a directed graph although `operator.h:34` speaks of a tree; the walks are checked on those too. For the large plan of
`src/test/cc`, the model gives the commit operator, the redo streams and the redo operators that the test expects.

*WindowJoin.* `needsTuple` is the pair of flags of `operator-join.h`; a call of `next_implementation` is
two steps, the left side and the right one, since tuples may come in between. `offBeat` is history: it says that the last redo
came while one side waited, after which `reset()` leaves the flags and the windows of the sides no longer pair up as they did.

*TimeWindow.* `beginning` and `end` are the timevals of the window, `pending` the tuple that `enqueue` is making room for:
`Slide` is one round of its loop, `Finish` what comes after it, and `Throw` the round that ends in what the operator throws.
`AddMsec` and `DifferenceMsec` are `timeval_add_msec` and `timeval_difference_msec`, for units that are parameters: 1000, 1000 and
2^32 in the code. `slides`, `outputs` and `dropped` are history.

*TypedQuery.* `chain` is the operators from the adapter on, each operator with the schema its constructor builds; `stage` says whether the
query is being declared, runs, was `refused` by a constructor or has `failed` on what an operator threw, which no one catches.
The actions up to `Elect` are statements of CPL with the constructors they call; `Process(n)` is one `next_implementation` of operator n, which takes a tuple from `queues[n - 1]`. A tuple keeps the
schema it was created with, or is the null pointer that `Tuple::create` returns for data that do not fit. `parsed` and `sent` are history.
What a condition is does not matter to `TypedQuery`: what it says of tuples, what the constructor of a combine makes of it and its normal form are constants (`CheckCondition`, `ObeyCondition`, `NormalForm`), for which
`MCTypedQuery` takes `Check`, `ObeySchema` and `ToCNF` of `ConditionTrees`. There a condition is a tree of records, with the recursion of the virtual methods and the short circuit of `&&` and `||`, which decides whether an error comes up at all.

*Conditions.* `Parse` is a rule of the grammar for conditions, `Obey` the constructor of a combine or join, `Take` that of a select, which takes its condition as it is,
and `Ask` a check of tuples.

*GrammarReader, LemonParser.* `psp` is the parser state of `parseonetoken`, `gp` the grammar in the making, `cp` the place in the file. `Read` is one turn of the loop in
`Parse`, and each `Pass` one line of `main` in `lemon.c`, so that `lem` collects what the passes leave in the structure of that name. `PackSet` is a turn of the
loop in `ReportTable`; `table` is the packed array, `ranOff` a history that says that a search for a hole once went by the end of the array.
Then `yystack` and `yymajor` are those of `Parse` in the template: `Feed` is a call, and `Shift`, `Reduce` and `SyntaxError` the turns of its loop. `word`
and `ambiguous` are history. As `parse_cpl` does, the model feeds no more tokens after an error, and `$` at the end.

*Experiment.* `main` walks a `program`, the list of `start`, `wait`, `stop` calls of
`experiment_scheduling.cpp` or `experiment_lock.cpp`; each call is an action, `stop_and_wait` two, because it sets the flag first.
`at` says where each thread is in its `run()`; sleeping in `pthread_cond_wait` is a place of its own.
`Process` is a call of the operator that has a tuple, by the rule of `WindowJoin`: a side that is a window ahead is not read.

## 3. The runs

| Run | Instance | Shows |
|---|---|---|
| `transactions` | two operators on R, one on S, an updater each, versions up to 2; all four modes | no lock is lost or left behind; an operator, and under 2PL a transaction, reads one version; no update of what a 2PL transaction has read |
| `window` | every width up to 4, every stride, 11 tuples, a reset at any time | the ring implements the sliding window; the low water mark spares the next window |
| `query` | 19 queries (below), six tuples and the end of the stream, one update of each relation | consistency, completeness and order of the windows, sufficiency of the backup, progress |
| `plans` | every plan of up to six operators, two of them joins, over two names | the commit operator is the last; a redo resets and replays just the transaction; turns follow the inputs |
| `join` | widths of two, either stride on either side, four tuples a side, one redo | windows pair up, no mutual wait, results and low water marks, no result after the end, progress |
| `experiment` | both programs, three tuples, windows of one to three, with and without 2PL | whole results, no lost wake-up, final numbers, termination |
| `time_window` | seconds of three milliseconds of two microseconds, four tuples over more than three seconds | windows never drift, have the tuples of their time, come out once and in order; `enqueue` comes back |
| `rows` | three lists of attributes of four types, four conditions, chains of up to three operators, two tuples, one row of a relation | rows fit their schemas, names keep their meaning, failures come from the parts no constructor looks at, normal form loses no row |
| `tables` | 778 grammars and 1,397 files with one mistake; all inputs of up to four tokens | grammars as written, symbols found, faithful tables, the right language, every call returns |
| `lineage_consistency` | optimistic, a project or a second combine | a violation |
| `nested_loop` | tumbling windows of two, no redo | a violation |
| `negation` | conditions of up to two terms, two values | a violation |

The bounds. Three operators on two relations are the least that has both a
relation shared by two operators and one that is not; two updates let a
transaction miss one and see the other. A ring of four slots wraps more
than once in eleven tuples, with strides that divide the width and strides that do not.
For the query, the windows are two or three tuples wide and the stream has six tuples, one
of which matches nothing and one of which is not selected, so that at least two windows come out,
a transaction ends and the next one begins; one update of each relation can
come between any two steps, so a window can be
inconsistent and be redone. The configurations are sliding and tumbling windows
in every mode; batches of two, with a select; two combines and a project under the pessimistic modes;
transactions of two windows; efficient scheduling with windows that overlap twice.

`MaxVersion` bounds the updates. It hides one behaviour: an optimistic query
whose relation is updated within every window is redone for ever.

Six operators are enough for a join of two chains that both, one or neither have a combine, with a window above or below it,
and for a join of a join; two names for a stream that is derived twice, and one that is declared again.
A time-based window of three milliseconds over a second of three meets every case of the carry, and four tuples are enough for a
window that is passed over empty, one that is output twice because of a throw, and tuples in the gap of a landmark window.
For the join, four tuples are three overlapping windows or two tumbling ones. In the
experiment, three tuples fill windows of one and three, and leave one of two incomplete.

For `rows`, the attributes are such that a name is there twice, has different types in the stream and the relation, or is missing from one;
the conditions compare what can be compared and what can not. Three terms are the least that a normal form has to move through two levels.

For `tables`, the grammars are all of three rules, two nonterminals and two terminals with at most two symbols on a side, as far as they are different and
generate something, and five that are known to tell methods apart: one that is not SLR, one that is not LALR, optional parts, lists, and one whose parser would reduce for ever. `MAXRHS` is 3
where the code has 1000, so that a file can have a rule too long; the hash table begins with two lists where the code has 128, so that it grows up to three
times; the hashes are the real ones, by their last eight bits. `Growth` is the 20 of the code. The stack has five entries, of which four tokens with reductions in between can need more.
The files with a mistake are two that have every kind of declaration, with a token changed, left out or put in at each place.

Fairness. `FairSpec` of `ContinuousQuery` assumes that the query's thread, the sender and each
updater keep running (`WF` of each): their loops never wait for anything but a
lock, and an updater that sleeps with the lock wakes up. Weak fairness is enough for the
lock, as a mutex is free again and again only a bounded number of times.
`WindowJoin` assumes weak fairness of `next_implementation` alone, and none of the senders.
`TimeWindow` assumes that a call of `enqueue` goes on.
`Experiment` assumes weak fairness of each thread, and strong fairness where a thread takes the relation's mutex:
there the updater and the query may go round many times, and a mutex that is free again and again is granted in the end.
`LemonParser` assumes that a call of the generated parser goes on (`WF` of `Parse`), and nothing about whoever feeds it.
`TypedQuery`, `TupleWindow`, `RelationTransaction` and `QueryPlan` have safety properties only and assume none.

### What the runs found

* `lineage_consistency`. A project and a combine make new tuples that lose the version
  numbers of their input, so the optimistic check passes over windows that mix versions.
* `nested_loop`. The right iterator of a join is made once, outside the loop over the left one
  (`operator-join.h:115-125`): only what is in the first slot of the left synopsis is joined,
  whichever tuple of the window that is once the ring has moved on.
* `negation`. No `check` looks at the flag that `NOT` sets (`condition.h:93`, `252`, `327`), which `toString` prints: a condition behind `NOT`
  selects what it would select without it.

Other things came up on the way that have no run of their own.

*Consistency.* Under a pessimistic control, the end of a transaction
evicts all tuples before the one that came after the window
(`operator-mean.h:50`, `abstract-pessimistic-cc-scheduler.h:92`): overlapping
windows slide by their width, although the strategy document speaks of keeping a part of the stream.
With tumbling windows nothing is taken back when a transaction ends: tuples that the combine is ahead of the mean, which it is with a batch
of more than one, or with a tuple that matches more than once, share a window with tuples of the next transaction, and the window has read two versions
(`lock-cc-scheduler.h:32`). With tumbling windows under a pessimistic control, and without a control, nothing evicts the backup (`stream.h:56`).
An optimistic control redoes without a bound (`optimistic-cc-scheduler.h:44`). The report of the consistency count casts the commit operator to
an aggregation, which a join is not (`abstract-cc-scheduler.h:68`). The threads of an experiment are detached and may run on while the process exits (`experiment_lock.cpp:291`).

*Language.* `get_right_condition` returns the left one (`condition.h:223`). A comparison with the constant first keeps its comparator while the sides change places (`cpl-parser.y:279`).
A name that is not declared throws a `std::string` through the parser, which no one catches (`cpl.h:65`). `%destructor attribute` is given twice, where the second is meant for `object`
(`cpl-parser.y:334`). When the lexer refills its buffer, it loses the beginning of the token it is in (`cpl-lexer.re:90`).

*Parser generator.* The search for a hole in the packed table ends with the allocated array and not with its used part (`lemon.c:594`), against the comment above it: with growth by 20 and the sets
{0..16}, {0..9}, four times {1} and one {4}, the last is put where entries of another set are read as its own. No grammar of the run comes to that, and `ranOff` keeps it apart. An overflow of the stack of the generated parser empties it without
telling the caller, and the next token begins a new parse (`lempar-currentia.c:513`). A last rule that no dot ends is lost without an error. Where the start symbol is
used right behind a dot of the first state, it has a shift and an accept action there, and the last assertion of `resolve_conflict` (`lemon.c:1101`) ends Lemon; the model goes on with both.

*Windows.* With a stride wider than the window, a tuple in the gap between two time-based
windows comes into the next one (`synopsis.h:303` does not look at the beginning); `WindowsHoldTheirTuples` therefore excludes early
tuples only up to that stride. A time-based window of more than 71 minutes, as `HOUR` and `DAY` of CPL ask for, is cut short by
`useconds_t` (`time.h:65`); `WindowIsExact` is about those that fit.

`WindowsReadOneVersion` states where consistency does hold: optimistic, with one combine and
no project behind it; pessimistic, with overlapping windows, or with batches of one and tuples that match once.
`ResultsFollowStream` states in `NextStarts` what really comes after a window in each mode; it
also shows that an optimistic redo repeats the window that was output before, and that
tumbling windows lose the tuple between two transactions.

## 4. The theorems

All are proved from the constants' assumptions alone, which TLC evaluates in the runs, for every
number of operators, relations, updaters, tuples, symbols and actions, and for every width and stride up to it. The assumptions say what the program gives:
a chain begins with an adapter, ends with the mean and has a combine in between (`ConfigurationsAssumption`); a stride is between one and the width; a batch, a transaction and a window have
at least one call, window and tuple; declarations list names with types, and a project names names (`TypedQueryAssumption`); and the values that stand for an end, for no tuple or for no version are none of those they are told from.
`EndsComeLast` states in front that the value which stands for an end is not the record of a result.

*RelationTransactionProofs.* The inductive invariant has, beyond the types and `LockAccounting`,
what ties `seen` to the present: under 2PL everything seen of a relation
is its current version while the query holds the lock; under SNAPSHOT it
is the version of the operator's copy; in the other modes it is what is
current inside the operation. It needs two more parts: who owns a mutex
follows from where the updaters are, and during the walk at a transaction's end the
depth never exceeds the operators still to come. From it follow `TypeCorrect`, `LocksAccounted`,
`OperatorConsistency`, `TransactionConsistency` and, as an action property, `Isolation`.
The depth of a mutex is a cardinality, and the finite-set theorems of the library do the counting.

*TupleWindowProofs.* The invariant says which arrivals the slots hold: the slot k steps
from the index holds the tuple k steps into the window. `EvictionSafe` follows from it, and so does `Refinement`:
every step of the ring is a step of `SlidingWindow` or a stutter, for every width and stride.

*SubsequenceTheorems.* What is left of a sequence when some of its positions are kept: how long it is, that every element kept is in it, that it has no others, and that their order stays.
`SelectSeq` of the library is recursive, so nothing can be proved of it for every sequence; `Chosen` says the same with the rank of a position, a cardinality.

*ContinuousQueryProofs.* `WindowConsistency`: under a control, no window that mixes versions is output where the control is to prevent it. The invariant (`IInv`) follows the tuples through the plan. Under a pessimistic control
all that is on its way has read what the combines of its transaction read, which under 2PL is the relation as it is now, since the lock is held (`LocksKept`), and under SNAPSHOT the copy;
a combine that something has passed is in a transaction. So nothing may be on its way when a transaction ends: with overlapping windows because the redo area is emptied and the backup is
in front of the first combine, else because no operator gets ahead of the next (`AloneInv`: with one call a turn and at most one match, a tuple is where the next operator has its turn). Under the optimistic control a tuple behind the
combine has read just the version that its tag says (`OptimisticTuple`), so that equal tags are equal readings. The slots of the window keep what they held, whatever stride it has; those that a commit
leaves behind are exempt until they are overwritten (`SlotsRead`). Each of the eleven actions has a lemma of its own. `TypeCorrect` is a part of it: among others, that only the redo stream keeps a backup.
`BackupCoversRedo`: the backup ends with what is in the redo stream and has what left it and is still needed. That the queue ends the backup is inductive (`EndsBackup`), but eviction goes by arrival time, so what it
may drop depends on the order of the whole plan: every stream is sorted, and everything further down arrived no later than what is further up (`StreamsInOrder`). The slots of the window and the newcomers make one line, oldest first,
no later than any stream (`LineInOrder`); the mean puts a tuple at its end, and with a window drops some at its beginning (`Extends`). A window that is output evicts only what arrived before a slot that is no later than
all the next window needs (`Covered`); the end of a pessimistic transaction evicts what arrived before the tuple that comes next, and starts with an empty line. A redo empties what is in flight and puts the backup into the redo stream.
`WindowsFollowStream` and `EndIsComplete`: windows are of consecutive tuples, each begins where its mode says, and the end comes with no window missing, where no tuple matches twice and none is dropped within a window (`DropsWithinWindow`: several windows in an overlapping pessimistic transaction); that nothing comes after the end holds without this. Order does not say that nothing is left out, so a third invariant (`FlowInv`) gives every tuple its place among those that reach the mean
(`Position`, which counts what the selects and combines let through) and names two places in the input: up to c the mean has taken tuples, and from b on a redo would begin, for the backup starts right behind it. Of what has been sent and reaches the mean, everything after c is in a stream, and everything after b in the backup or ahead of it (`FlowAt`). What is in the window's line and still counts
is consecutive up to c (`LineFlows`), and remains so, since the tuple that the mean takes next is the first after c, all streams being in order. An output window is the beginning of that line, which makes it contiguous, and the next one starts where b is or where the line goes on (`NextFollows`). A transaction that is over
has a whole window and no newcomers (`CommitInv`), and an end in the results has nothing behind it on its way (`EndInv`). `FlowInductive` is the three together, on top of `BackupInv`; each action has a lemma of its own here too. `FlowInv` has the same condition in front, and so have the two theorems that say what it means:
`NoTupleIsSkipped`, that between what the mean has taken and what is in the streams there is no gap; and `RedoBeginsWithWindow`, that under the optimistic control what a redo would replay begins with a window that may come next, without a gap and with nothing before it. In the other modes b only bounds what the window's line still needs.
That `EndOfStream` can be told from tuples and windows is an assumption (`EndAssumption`).

*WindowJoinProofs.* `SidesNeverBlock`: both sides of a join never wait for each other. It is inductive once the flags
are known to be flags: a side waits only when the other still needs a tuple, else it joins. `EndsComeLast`: no result comes after an end. Its invariant says that
what waits on a side is the rest of what came in, so that an end is last there too; that a side whose end has passed has nothing left to read
and does not wait (`Finished`), which no step takes from it but a redo, which clears the output; and a join needs the other side to wait. That the slots of a synopsis keep their number (`Ring`) makes the results a
finite sequence.
`WindowsArePaired` and `ResultsAreOfWindows`: the nth window of the one side is joined with the nth of the other, each with the tuples it should have; a result is of two tuples of the pair that match, arrived when the earlier of them did, and has the earliest arrival in both windows as its low water mark. Which tuple of the left window that is, is not stated: it is the one in slot 0, wherever the ring has moved.
The invariant (`JoinInv`) says for each side how many windows it has completed, as many as have been joined or, while it waits, one more, and with that number where in the input it is (`Contents`): the newcomers come right behind the window in the slots,
and the queue behind them. A step of the ring moves the window by its stride because the slots are the latest tuples in order, from the index on (the lemma `CompletedSynopsis`). All this is stated as long as no redo has
come while a side waits (`offBeat`), from where on the code pairs old slots with new ones; `ResultsAreOfWindows` holds without that exception.

*TimeWindowProofs.* `AddMsecIsExact` says of `timeval_add_msec` that the result is normalised and later by what `useconds_t` leaves of the
milliseconds, for all units; it comes from division with remainder and one carry. With it, `WindowIsExact` is inductive together with the timevals being
normalised and nothing having slid before the first tuple: `WindowNeverDrifts`.
`OutputsAreWhole` and `OutputsAreInOrder`: a window that is output has the tuples of its time, and every window with a tuple is output, in order. The invariant (`HoldInv`) says of the window that is being filled what must be true of it when
it is output (`HasItsTuples`), and that all output so far is behind: the latest tuple came after the end of every window output or slid away, so that no later tuple belongs to one. It needs the bounds of `DifferenceMsec`, which truncates
towards zero: a late tuple is really later and an expired one really earlier, and what is neither is less than a millisecond off (`LateAndExpired`). With a stride of at most the width the latest tuple is not before the window, which is
why one that comes in needs no look at the beginning.

*ExperimentProofs.* `ConsumerIsWoken`: the consumer never sleeps on something that is there for it. It is inductive with the threads' places, since whoever puts something into the queue wakes
all that sleep on it in the same step, under the same mutex. `ReportIsFinal`: the report of the scheduling experiment is written when those who make its numbers have ended; by an
invariant that ties the place of `main` in its program to what it has started and joined (`JoinInv`). `ConsumerHasWholeResults`: when the consumer has ended it has every result, once and in order, though it ends with the first end of a stream
and each input has one. The invariant (`WholeInv`) counts: in the queue of an input are the tuples sent and not taken, with the end behind them (`Feed`); the results made are the windows that the slower side has completed (`Paced`); they have been consumed
or wait in order, and an end can be behind them only when there are no more to come (`Order`), because a side that is ahead by a window is not read. Nobody is told to stop before (`NotStopped`), for `main` waits for senders and consumer first, and no thread starts twice (`StartInv`).

*LanguageProofs, the parser generator.* `TablesFaithful`: every set is found at its offset and nothing else is found there. The invariant has three parts. The table is `Formed`: all behind the used part is free.
It `Keeps` every set: a later one is only written into free slots, or into slots that have the same entry. And what lies elsewhere is `Unclaimed`: no used slot has a lookahead that would
make it an entry of a set that does not have that lookahead; for a new set the search looks for just that, for an old one it follows from where the new entries are. `NoWriteBehindTable` does without the assumption that no search ran off.

`EverySymbolIsFound`: the reader's table finds every symbol and has it once. The lists of the table are what `Hashed` makes of its symbols at its present size (`TableInv`), which growing rebuilds and an insertion keeps because it hashes anew.

*LanguageProofs, the plans.* `CommitOperatorIsLast`, `RedoResetsTransaction`, `BackupsEnterRedoArea` and `InputsHaveTurnsFirst` hold of every plan that statements can make, of any size and with any joins.
The state's part is small (`PlansAreMade`): an operator reads operators that were made before it, as many as its kind takes, and what the scheduler knows of a query is what the walks give for some operator as its root. The rest is about the walks,
which are recursive functions on the operators of a plan. A plan has a number for each operator, with its inputs below, so it is shown first that such a function exists and satisfies its equation, by extending it one operator at a time
(`StepByStep`), and then what it gives, from the inputs up (`Upwards`): were it wrong somewhere, it would be wrong at a least operator, whose inputs are right. In this way a turn of an operator comes after those of its inputs (`AllVisited`);
the finder's two answers, whether there is a relation upstream and which window is the last that depends on one, are right at every operator (`AllFound`);
upstream of a window, the second walk resets just the operators that depend on a relation (`AllReset`), and the first such window it comes to is the commit operator, so that from the root it resets what is up to that (`ResetUpToCommit`).

*LanguageProofs, the rows.* `RowsFitSchemas` and `NamesKeepMeaning` hold for chains of any length, any declarations, values, rows and tuples, and any conditions, as what a condition says of a tuple decides only whether there is a row and not what is in it.
The invariant (`RowInv`) says of each operator what its constructor has made of the schema it reads (`OperatorOK`), of the relation that its rows are of its schema, and of every stream that its tuples are of the schema of its operator. A schema is in order (`SchemaOK`) when its index has the last attribute of
every name, which adding one more keeps (`AttributeAdded`); so the index of a concatenation follows from those of its halves (`NamesOfPair`), and data put together in the same way fit it (`CombineOutput`). The quotient of a sum and a width, if there is one, is a `FLOAT` whatever the sum has been (`MeanOutput`).
For the names, `NamesInv` says of every tuple before the first mean where each name has its value from (`Meant`): a tuple sent, or a row of the relation once a combine has brought the name. A select or an election passes the tuple itself, a project takes just the attributes that the names mean (`MeaningThroughProject`),
and behind a combine a name that both have means the row's (`MeaningThroughCombine`).

Only model-checked: which conditions fail and what a normal form accepts, the grammar that is read, and what the generated parser accepts. They are RECURSIVE operators on trees and sequences of any depth or come from one,
and what these compute calls for induction over data, which is out of the prover's reach; and liveness under fairness, which is too.

## 5. Not modelled

* The replay of tuples into a time-based window, which `reset()` leaves as it is. Such windows are compiled out of the default
  build (`wscript:20`); a comment on the loop (`synopsis.h:310`) names the problem.
* Differences and products of values, which nothing calls, values read from text, and integers near the limits of their width.
* In `ContinuousQuery`, queries with a join: its chain is what the analysis of `QueryPlan` gives for a chain.
* The timeout of a stream's dequeue (`dequeue` passes none, and no caller outside it passes one) and `unshift`, which nothing calls.
* Windows with a stride of zero or one above their width: the ring is not made for them, and the code that runs off it has no defined outcome.
* Two threads that step the static clock of tuples at the same time (`tuple.h:116`): the models have one thread each that makes tuples.
* CPL's lexer, which re2c generates. The names and texts that the container looks up are in `QueryPlan` and `TypedQuery`; what the
  parser throws for one that is missing ends the process.
* Of Lemon: options, the preprocessor, the text of the parser and of its reports, the tables of strings, states and configurations (which are sets in the model),
  and multiterminals, fallback, the wildcard and the error symbol, which the grammar of CPL does not use; of the engine, semantic values and their destructors.
* Options of the command line, the demonstration server, printing, logging: sequential or pure I/O.

## 6. Plan

1. An abstract specification of a serialisable query (windows taken from one version), implemented by `ContinuousQuery`
   where `WindowsReadOneVersion` holds.
2. That `ContinuousQuery` reads off its chain what `QueryPlan` gives for it.
3. A join within a transaction, with a combine upstream on one side and the redo of both.
