----------------------------- MODULE Experiment -----------------------------
(***************************************************************************)
(* How an experiment starts, runs and stops its threads: the main threads  *)
(* of server/experiment_scheduling.cpp and server/experiment_lock.cpp, the *)
(* Runnable of core/thread.h, the senders, the updater, the query          *)
(* processor and the consumer, with the blocking dequeue of core/stream.h. *)
(*                                                                         *)
(* The query is one that outputs a result for every Width tuples of each   *)
(* of its inputs, in step (WindowJoin), and passes on the end of each;     *)
(* under 2PL a relation is locked from the first tuple of a window to its  *)
(* result.  Results are numbered.                                          *)
(***************************************************************************)
EXTENDS Naturals, Sequences, FiniteSets

CONSTANTS Total,         \* tuples each sender has to send
          Widths,        \* what the width of the windows may be
          MaxUpdates,    \* bound: updates
          EndOfStream, Tuple, NoThread

ASSUME ExperimentAssumption == /\ Total \in Nat
                               /\ Widths \subseteq Nat \ {0}
                               /\ MaxUpdates \in Nat
                               /\ EndOfStream \notin Nat \cup {Tuple}

Command(call, thread) == [call |-> call, thread |-> thread]

(* experiment_scheduling.cpp:153-171 *)
SchedulingProgram ==
    <<Command("start", "sender"), Command("wait", "sender"),
      Command("start", "sender2"), Command("wait", "sender2"),
      Command("start", "consumer"), Command("start", "updater"), Command("start", "processor"),
      Command("wait", "consumer"), Command("stop", "updater"), Command("stop_and_wait", "processor")>>

(* experiment_lock.cpp:283-292 *)
LockProgram ==
    <<Command("start", "updater"), Command("start", "processor"),
      Command("start", "consumer"), Command("start", "sender"),
      Command("wait", "consumer"), Command("wait", "sender"),
      Command("detach", "updater"), Command("detach", "processor")>>

Threads == {"sender", "sender2", "consumer", "updater", "processor"}
Senders == {"sender", "sender2"}

VARIABLES program,    \* what main does
          main,       \* the command it comes to next
          query,      \* the width of the query's windows, and whether 2PL is on
          at,         \* thread -> where it is
          stopped,    \* thread -> stopped_
          joinable,   \* thread -> thread_.joinable()
          input,      \* sender -> the queue of its stream
          count,      \* sender -> tuples enqueued
          taken,      \* sender -> tuples the query has taken
          results,    \* the queue of the result stream
          produced,   \* results output by the query
          consumed,   \* what the consumer has taken
          holder,     \* the thread that holds the relation's mutex
          updates     \* update_count_

queues == <<input, count, taken, results, produced, consumed>>
relation == <<holder, updates>>
vars == <<program, main, query, at, stopped, joinable, queues, relation>>

Init ==
    /\ program \in {SchedulingProgram, LockProgram}
    /\ main = 1
    /\ query \in [width : Widths, locks : BOOLEAN]
    /\ at = [thread \in Threads |-> "new"]
    /\ stopped = [thread \in Threads |-> TRUE]
    /\ joinable = [thread \in Threads |-> FALSE]
    /\ input = [sender \in Senders |-> <<>>]
    /\ count = [sender \in Senders |-> 0]
    /\ taken = [sender \in Senders |-> 0]
    /\ results = <<>>
    /\ produced = 0
    /\ consumed = <<>>
    /\ holder = NoThread
    /\ updates = 0

Move(thread, place) == at' = [at EXCEPT ![thread] = place]

-----------------------------------------------------------------------------
(* Main, and the methods of Runnable                                       *)

Calls(call, thread) == main <= Len(program) /\ program[main] = Command(call, thread)

Proceed == main' = main + 1 /\ UNCHANGED <<program, query, queues, relation>>

(* start() *)
Start(thread) ==
    /\ Calls("start", thread)
    /\ stopped' = [stopped EXCEPT ![thread] = FALSE]
    /\ joinable' = [joinable EXCEPT ![thread] = TRUE]
    /\ Move(thread, "loop")
    /\ Proceed

(* Mutant: the thread is not waited for. *)
JoinedAtOnce(thread) == TRUE

(* What join() waits for. *)
Joined(thread) == joinable[thread] => at[thread] = "ended"

(* wait() *)
Wait(thread) ==
    /\ Calls("wait", thread)
    /\ Joined(thread)
    /\ joinable' = [joinable EXCEPT ![thread] = FALSE]
    /\ stopped' = [stopped EXCEPT ![thread] = TRUE]
    /\ UNCHANGED at
    /\ Proceed

(* Mutant: the thread is waited for, as by stop_and_wait(). *)
StopWaits(thread) ==
    /\ Calls("stop", thread)
    /\ stopped' = [stopped EXCEPT ![thread] = TRUE]
    /\ UNCHANGED <<at, joinable>>
    /\ \/ ~stopped[thread] /\ UNCHANGED <<program, main, query, queues, relation>>
       \/ stopped[thread] /\ at[thread] = "ended" /\ Proceed

(* stop(): the thread is let go of first. *)
Stop(thread) ==
    /\ Calls("stop", thread)
    /\ joinable' = [joinable EXCEPT ![thread] = FALSE]
    /\ stopped' = [stopped EXCEPT ![thread] = TRUE]
    /\ UNCHANGED at
    /\ Proceed

(* stop_and_wait(): the flag first. *)
SetStopped(thread) ==
    /\ Calls("stop_and_wait", thread)
    /\ ~stopped[thread]
    /\ stopped' = [stopped EXCEPT ![thread] = TRUE]
    /\ UNCHANGED <<program, main, query, at, joinable, queues, relation>>

JoinStopped(thread) ==
    /\ Calls("stop_and_wait", thread)
    /\ stopped[thread]
    /\ Joined(thread)
    /\ joinable' = [joinable EXCEPT ![thread] = FALSE]
    /\ UNCHANGED <<at, stopped>>
    /\ Proceed

(* std::thread::detach() *)
Detach(thread) ==
    /\ Calls("detach", thread)
    /\ joinable' = [joinable EXCEPT ![thread] = FALSE]
    /\ UNCHANGED <<at, stopped>>
    /\ Proceed

(* The reports are written and the process ends, with every thread it has. *)
Exit ==
    /\ main = Len(program) + 1
    /\ main' = main + 1
    /\ at' = [thread \in Threads |-> "gone"]
    /\ UNCHANGED <<program, query, stopped, joinable, queues, relation>>

Main == \/ \E thread \in Threads : \/ Start(thread) \/ Wait(thread) \/ Stop(thread)
                                   \/ SetStopped(thread) \/ JoinStopped(thread) \/ Detach(thread)
        \/ Exit

Done == main = Len(program) + 2

-----------------------------------------------------------------------------
Thread == UNCHANGED <<program, main, query, stopped, joinable>>

(* The threads of experiment_lock.cpp run for ever. *)
ToldToStop(thread) == program = SchedulingProgram /\ stopped[thread]

HasMore(sender) == count[sender] < Total /\ ~ToldToStop(sender)

(* StreamSender::run() *)
Send(sender) ==
    /\ at[sender] = "loop"
    /\ IF HasMore(sender)
       THEN /\ input' = [input EXCEPT ![sender] = Append(@, Tuple)]
            /\ count' = [count EXCEPT ![sender] = @ + 1]
            /\ UNCHANGED at
       ELSE /\ input' = [input EXCEPT ![sender] = Append(@, EndOfStream)]
            /\ Move(sender, "ended")
            /\ UNCHANGED count
    /\ UNCHANGED <<taken, results, produced, consumed, relation>>
    /\ Thread

(* RelationUpdater::run() *)
UpdaterLoops ==
    /\ at["updater"] = "loop"
    /\ ToldToStop("updater") \/ updates < MaxUpdates
    /\ Move("updater", IF ToldToStop("updater") THEN "ended" ELSE "lock")
    /\ UNCHANGED <<queues, relation>>
    /\ Thread

UpdaterLocks ==
    /\ at["updater"] = "lock"
    /\ holder = NoThread
    /\ holder' = "updater"
    /\ Move("updater", "unlock")
    /\ UNCHANGED <<queues, updates>>
    /\ Thread

UpdaterUnlocks ==
    /\ at["updater"] = "unlock"
    /\ holder' = NoThread
    /\ updates' = updates + 1
    /\ Move("updater", "loop")
    /\ UNCHANGED queues
    /\ Thread

(* Mutant: nobody is told of the tuple. *)
NobodyWoken(places) == places

(* pthread_cond_broadcast in enqueue() *)
Woken(places) ==
    IF places["consumer"] = "asleep" THEN [places EXCEPT !["consumer"] = "dequeue"] ELSE places

(* QueryProcessor::run() looks at stopped_ between two calls of wake_up(). *)
ProcessorLoops ==
    /\ at["processor"] = "loop"
    /\ Move("processor", IF ToldToStop("processor") THEN "ended" ELSE "wake_up")
    /\ UNCHANGED <<queues, relation>>
    /\ Thread

Inputs == IF program = SchedulingProgram THEN Senders ELSE {"sender"}

(* The windows a side of the query has completed *)
WindowsOf(sender) == taken[sender] \div query.width

(* Mutant: a side does not wait for the other. *)
ReadableAnyway(sender) == sender \in Inputs /\ input[sender] # <<>>

(* A side that is a window ahead of the other waits for it. *)
Readable(sender) ==
    /\ sender \in Inputs
    /\ input[sender] # <<>>
    /\ \A other \in Inputs : WindowsOf(sender) <= WindowsOf(other)

(* wake_up() finds nothing to do. *)
Idle ==
    /\ at["processor"] = "wake_up"
    /\ ~\E sender \in Senders : Readable(sender)
    /\ Move("processor", "loop")
    /\ UNCHANGED <<queues, relation>>
    /\ Thread

(* wake_up() calls an operator that has a tuple. *)
Process(sender) ==
    /\ at["processor"] = "wake_up"
    /\ Readable(sender)
    /\ Head(input[sender]) = Tuple
    /\ query.locks => holder \in {NoThread, "processor"}
    /\ input' = [input EXCEPT ![sender] = Tail(@)]
    /\ taken' = [taken EXCEPT ![sender] = @ + 1]
    /\ IF \A other \in Inputs : taken'[other] \div query.width > produced
       THEN /\ results' = Append(results, produced + 1)
            /\ produced' = produced + 1
            /\ holder' = IF query.locks THEN NoThread ELSE holder
            /\ at' = [Woken(at) EXCEPT !["processor"] = "loop"]
       ELSE /\ holder' = IF query.locks THEN "processor" ELSE holder
            /\ Move("processor", "loop")
            /\ UNCHANGED <<results, produced>>
    /\ UNCHANGED <<count, consumed, updates>>
    /\ Thread

PassEnd(sender) ==
    /\ at["processor"] = "wake_up"
    /\ Readable(sender)
    /\ Head(input[sender]) = EndOfStream
    /\ input' = [input EXCEPT ![sender] = Tail(@)]
    /\ results' = Append(results, EndOfStream)
    /\ at' = [Woken(at) EXCEPT !["processor"] = "loop"]
    /\ UNCHANGED <<count, taken, produced, consumed, relation>>
    /\ Thread

(* StreamConsumer::run() *)
ConsumerLoops ==
    /\ at["consumer"] = "loop"
    /\ Move("consumer", IF ToldToStop("consumer") THEN "ended" ELSE "dequeue")
    /\ UNCHANGED <<queues, relation>>
    /\ Thread

(* pthread_cond_wait in dequeue(), with the stream's mutex held until it sleeps *)
Sleep ==
    /\ at["consumer"] = "dequeue"
    /\ results = <<>>
    /\ Move("consumer", "asleep")
    /\ UNCHANGED <<queues, relation>>
    /\ Thread

Consume ==
    /\ at["consumer"] = "dequeue"
    /\ results # <<>>
    /\ results' = Tail(results)
    /\ IF Head(results) = EndOfStream
       THEN Move("consumer", "ended") /\ UNCHANGED consumed
       ELSE Move("consumer", "loop") /\ consumed' = Append(consumed, Head(results))
    /\ UNCHANGED <<input, count, taken, produced, relation>>
    /\ Thread

Sender == \E sender \in Senders : Send(sender)
Updater == UpdaterLoops \/ UpdaterLocks \/ UpdaterUnlocks
Processor == ProcessorLoops \/ Idle \/ \E sender \in Senders : Process(sender) \/ PassEnd(sender)
Consumer == ConsumerLoops \/ Sleep \/ Consume

Next == Main \/ Sender \/ Updater \/ Processor \/ Consumer

(* Every thread is run by the system again and again.  A thread that waits *)
(* for the relation's mutex gets it when it is free again and again.       *)
Fairness ==
    /\ WF_vars(Main) /\ WF_vars(Sender) /\ WF_vars(Consumer)
    /\ WF_vars(UpdaterLoops) /\ WF_vars(UpdaterUnlocks) /\ SF_vars(UpdaterLocks)
    /\ WF_vars(ProcessorLoops) /\ WF_vars(Idle)
    /\ \A sender \in Senders : SF_vars(Process(sender)) /\ WF_vars(PassEnd(sender))

Spec == Init /\ [][Next]_vars
FairSpec == Spec /\ Fairness

-----------------------------------------------------------------------------
(* "wait for whole results" (experiment_scheduling.cpp:167): the consumer  *)
(* ends with the first end of a stream it gets, and has had every result   *)
(* by then, in order, although the query may have several inputs, each     *)
(* with an end of its own (stream-consumer.h:23, double-input-operator.h). *)
WholeResults ==
    at["consumer"] = "ended" =>
        /\ consumed = [n \in 1..produced |-> n]
        /\ produced = Total \div query.width

(* The consumer never sleeps while there is something for it               *)
(* (stream.h:52-59, 71-78).                                                *)
NoLostWakeup == at["consumer"] = "asleep" => results = <<>>

(* When the scheduler's numbers are reported nothing is at work on them    *)
(* any more (experiment_scheduling.cpp:171-220).                           *)
ReportsFinalNumbers ==
    program = SchedulingProgram /\ main > Len(program) /\ ~Done =>
        \A thread \in {"sender", "sender2", "consumer", "processor"} : at[thread] = "ended"

(* Every experiment comes to its end, also when the last window stays      *)
(* incomplete and its transaction, under 2PL, keeps the relation locked    *)
(* with the updater waiting for it (thread.h:70-80).                       *)
ExperimentEnds == <>Done
=============================================================================
