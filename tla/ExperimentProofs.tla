-------------------------- MODULE ExperimentProofs --------------------------
(***************************************************************************)
(* Theorems about Experiment, for any number of tuples, any widths of the  *)
(* windows and any number of updates.                                      *)
(***************************************************************************)
EXTENDS Experiment, TLAPS

Places == {"new", "loop", "lock", "unlock", "wake_up", "dequeue", "asleep", "ended", "gone"}

(* The threads are somewhere. *)
Placed == at \in [Threads -> Places]

LEMMA WokenPlaces ==
    ASSUME Placed
    PROVE  /\ Woken(at) \in [Threads -> Places]
           /\ Woken(at)["consumer"] # "asleep"
           /\ \A thread \in Threads \ {"consumer"} : Woken(at)[thread] = at[thread]
  BY DEF Woken, Placed, Places, Threads

(* A result and an end of the stream both wake the consumer up, and no     *)
(* other step leaves it asleep with something in the queue.                *)
LEMMA WakeupInduction == Placed /\ NoLostWakeup /\ [Next]_vars => (Placed /\ NoLostWakeup)'
  <1> SUFFICES ASSUME Placed, NoLostWakeup, [Next]_vars
               PROVE  (Placed /\ NoLostWakeup)'
    OBVIOUS
  <1> USE DEF Placed, NoLostWakeup
  <1>0. "consumer" \in Threads /\ "processor" \in Threads /\ "updater" \in Threads
        /\ Senders \subseteq Threads /\ "consumer" \notin Senders
    BY DEF Threads, Senders
  <1>1. ASSUME NEW thread \in Threads, Start(thread)
        PROVE  (Placed /\ NoLostWakeup)'
    BY <1>1 DEF Start, Move, Proceed, queues, Places, Threads
  <1>2. ASSUME NEW thread \in Threads,
               \/ Wait(thread) \/ Stop(thread) \/ SetStopped(thread)
               \/ JoinStopped(thread) \/ Detach(thread)
        PROVE  (Placed /\ NoLostWakeup)'
    BY <1>2 DEF Wait, Stop, SetStopped, JoinStopped, Detach, Proceed, queues
  <1>3. CASE Exit
    BY <1>3 DEF Exit, queues, Places, Threads
  <1>4. ASSUME NEW sender \in Senders, Send(sender)
        PROVE  (Placed /\ NoLostWakeup)'
    BY <1>4, <1>0 DEF Send, Move, Places
  <1>5. CASE Updater
    BY <1>5, <1>0 DEF Updater, UpdaterLoops, UpdaterLocks, UpdaterUnlocks, Move, queues, Places
  <1>6. CASE ProcessorLoops \/ Idle
    BY <1>6, <1>0 DEF ProcessorLoops, Idle, Move, queues, Places
  <1>7. ASSUME NEW sender \in Senders, Process(sender)
        PROVE  (Placed /\ NoLostWakeup)'
    <2>1. CASE at' = [Woken(at) EXCEPT !["processor"] = "loop"]
      BY <2>1, <1>0, WokenPlaces DEF Places
    <2>2. CASE Move("processor", "loop") /\ UNCHANGED results
      BY <2>2, <1>0 DEF Move, Places
    <2> QED
      BY <1>7, <2>1, <2>2 DEF Process
  <1>8. ASSUME NEW sender \in Senders, PassEnd(sender)
        PROVE  (Placed /\ NoLostWakeup)'
    <2>1. at' = [Woken(at) EXCEPT !["processor"] = "loop"]
      BY <1>8 DEF PassEnd
    <2> QED
      BY <2>1, <1>0, WokenPlaces DEF Places
  <1>9. CASE ConsumerLoops
    BY <1>9, <1>0 DEF ConsumerLoops, Move, Places
  <1>10. CASE Sleep
    BY <1>10, <1>0 DEF Sleep, Move, queues, Places
  <1>11. CASE Consume
    BY <1>11, <1>0 DEF Consume, Move, Places
  <1>12. CASE UNCHANGED vars
    BY <1>12 DEF vars, queues
  <1> QED
    BY <1>1, <1>2, <1>3, <1>4, <1>5, <1>6, <1>7, <1>8, <1>9, <1>10, <1>11, <1>12
    DEF Next, Main, Sender, Processor, Consumer

(* The consumer never sleeps while there is something in the result        *)
(* stream, in either experiment (stream.h:52-59, 71-78).                   *)
THEOREM ConsumerIsWoken == Spec => []NoLostWakeup
  <1>1. Init => Placed /\ NoLostWakeup
    BY DEF Init, Placed, NoLostWakeup, Places, Threads
  <1>2. Placed /\ NoLostWakeup /\ [Next]_vars => (Placed /\ NoLostWakeup)'
    BY WakeupInduction
  <1> QED
    BY <1>1, <1>2, PTL DEF Spec

-----------------------------------------------------------------------------
(* The threads that the report of experiment_scheduling.cpp comes after,   *)
(* and the commands of its main that start them and wait for them.         *)
Awaited == {"sender", "sender2", "consumer", "processor"}
StartOf == [thread \in Awaited |->
    CASE thread = "sender" -> 1 [] thread = "sender2" -> 3 [] thread = "consumer" -> 5 [] OTHER -> 7]
JoinOf == [thread \in Awaited |->
    CASE thread = "sender" -> 2 [] thread = "sender2" -> 4 [] thread = "consumer" -> 8 [] OTHER -> 10]

(* A thread that was started can be joined until it is waited for, and has *)
(* ended behind that, up to the end of the process.                        *)
JoinInv ==
    /\ joinable \in [Threads -> BOOLEAN]
    /\ program = SchedulingProgram =>
          /\ main \in 1..12
          /\ \A thread \in Awaited :
                /\ main > StartOf[thread] /\ main <= JoinOf[thread] => joinable[thread]
                /\ main > JoinOf[thread] /\ main < 12 => at[thread] = "ended"

(* What main calls at its nth command *)
LEMMA SchedulingCalls ==
    ASSUME program = SchedulingProgram, main \in 1..12, NEW call, NEW thread, Calls(call, thread)
    PROVE  /\ main \in 1..10
           /\ call = "start" => \/ thread = "updater" /\ main = 6
                                \/ thread \in Awaited /\ main = StartOf[thread]
           /\ call = "wait" => thread \in Awaited /\ main = JoinOf[thread]
           /\ call = "stop" => thread = "updater" /\ main = 9
           /\ call = "stop_and_wait" => thread = "processor" /\ main = 10
           /\ call # "detach"
  <1>1. main <= 10 /\ SchedulingProgram[main] = [call |-> call, thread |-> thread]
    BY DEF Calls, SchedulingProgram, Command
  <1> QED
    BY <1>1 DEF SchedulingProgram, Command, Awaited, StartOf, JoinOf

Settled == {"new", "ended", "gone"}

(* Whatever the threads do: one that is not started, or has ended, stays   *)
(* where it is.                                                            *)
LEMMA SettledStay ==
    ASSUME Placed, Sender \/ Updater \/ Processor \/ Consumer
    PROVE  /\ UNCHANGED <<program, main, query, stopped, joinable>>
           /\ \A thread \in Threads : at[thread] \in Settled => at'[thread] = at[thread]
  <1> USE DEF Placed, Thread, Settled
  <1>0. "consumer" \in Threads /\ "processor" \in Threads /\ "updater" \in Threads
        /\ Senders \subseteq Threads
    BY DEF Threads, Senders
  <1>1. ASSUME NEW sender \in Senders, Send(sender)
        PROVE  /\ UNCHANGED <<program, main, query, stopped, joinable>>
               /\ \A thread \in Threads : at[thread] \in Settled => at'[thread] = at[thread]
    BY <1>1, <1>0 DEF Send, Move
  <1>2. CASE Updater
    BY <1>2, <1>0 DEF Updater, UpdaterLoops, UpdaterLocks, UpdaterUnlocks, Move
  <1>3. CASE ProcessorLoops \/ Idle
    BY <1>3, <1>0 DEF ProcessorLoops, Idle, Move
  <1>4. ASSUME NEW sender \in Senders, Process(sender) \/ PassEnd(sender)
        PROVE  /\ UNCHANGED <<program, main, query, stopped, joinable>>
               /\ \A thread \in Threads : at[thread] \in Settled => at'[thread] = at[thread]
    <2>1. UNCHANGED <<program, main, query, stopped, joinable>> /\ at["processor"] = "wake_up"
      BY <1>4 DEF Process, PassEnd
    <2>2. \/ at' = [Woken(at) EXCEPT !["processor"] = "loop"]
          \/ at' = [at EXCEPT !["processor"] = "loop"]
      BY <1>4 DEF Process, PassEnd, Move
    <2> QED
      BY <2>1, <2>2, <1>0, WokenPlaces DEF Woken
  <1>5. CASE Consumer
    BY <1>5, <1>0 DEF Consumer, ConsumerLoops, Sleep, Consume, Move
  <1> QED
    BY <1>1, <1>2, <1>3, <1>4, <1>5 DEF Sender, Processor

LEMMA JoinInduction == Placed /\ JoinInv /\ [Next]_vars => JoinInv'
  <1> SUFFICES ASSUME Placed, JoinInv, [Next]_vars
               PROVE  JoinInv'
    OBVIOUS
  <1>0. Awaited \subseteq Threads /\ "updater" \notin Awaited /\ "processor" \in Awaited
    BY DEF Awaited, Threads
  <1>1. ASSUME NEW thread \in Threads, Start(thread)
        PROVE  JoinInv'
    <2>1. /\ joinable' = [joinable EXCEPT ![thread] = TRUE]
          /\ at' = [at EXCEPT ![thread] = "loop"]
          /\ main' = main + 1 /\ program' = program /\ Calls("start", thread)
      BY <1>1 DEF Start, Move, Proceed
    <2>2. joinable' \in [Threads -> BOOLEAN]
      BY <2>1 DEF JoinInv
    <2>3. CASE program = SchedulingProgram
      <3>1. /\ main \in 1..10
            /\ \/ thread = "updater" /\ main = 6
               \/ thread \in Awaited /\ main = StartOf[thread]
        BY <2>1, <2>3, SchedulingCalls DEF JoinInv
      <3>2. ASSUME NEW other \in Awaited
            PROVE  /\ main' > StartOf[other] /\ main' <= JoinOf[other] => joinable'[other]
                   /\ main' > JoinOf[other] /\ main' < 12 => at'[other] = "ended"
        BY <2>1, <2>3, <3>1, <3>2, <1>0 DEF JoinInv, Placed, StartOf, JoinOf, Awaited
      <3> QED
        BY <2>1, <2>2, <3>1, <3>2 DEF JoinInv
    <2> QED
      BY <2>1, <2>2, <2>3 DEF JoinInv
  <1>2. ASSUME NEW thread \in Threads, Wait(thread) \/ JoinStopped(thread)
        PROVE  JoinInv'
    <2>1. /\ joinable' = [joinable EXCEPT ![thread] = FALSE] /\ at' = at
          /\ main' = main + 1 /\ program' = program
          /\ Calls("wait", thread) \/ Calls("stop_and_wait", thread)
          /\ joinable[thread] => at[thread] = "ended"
      BY <1>2 DEF Wait, JoinStopped, Joined, Proceed
    <2>2. joinable' \in [Threads -> BOOLEAN]
      BY <2>1 DEF JoinInv
    <2>3. CASE program = SchedulingProgram
      <3>1. main \in 1..10 /\ thread \in Awaited /\ main = JoinOf[thread]
        BY <2>1, <2>3, <1>0, SchedulingCalls DEF JoinInv, JoinOf
      <3>2. ASSUME NEW other \in Awaited
            PROVE  /\ main' > StartOf[other] /\ main' <= JoinOf[other] => joinable'[other]
                   /\ main' > JoinOf[other] /\ main' < 12 => at'[other] = "ended"
        BY <2>1, <2>3, <3>1, <3>2, <1>0 DEF JoinInv, StartOf, JoinOf, Awaited
      <3> QED
        BY <2>1, <2>2, <3>1, <3>2 DEF JoinInv
    <2> QED
      BY <2>1, <2>2, <2>3 DEF JoinInv
  <1>3. ASSUME NEW thread \in Threads, Stop(thread) \/ Detach(thread)
        PROVE  JoinInv'
    <2>1. /\ joinable' = [joinable EXCEPT ![thread] = FALSE] /\ at' = at
          /\ main' = main + 1 /\ program' = program
          /\ Calls("stop", thread) \/ Calls("detach", thread)
      BY <1>3 DEF Stop, Detach, Proceed
    <2>2. joinable' \in [Threads -> BOOLEAN]
      BY <2>1 DEF JoinInv
    <2>3. CASE program = SchedulingProgram
      <3>1. thread = "updater" /\ main = 9
        BY <2>1, <2>3, SchedulingCalls DEF JoinInv
      <3>2. ASSUME NEW other \in Awaited
            PROVE  /\ main' > StartOf[other] /\ main' <= JoinOf[other] => joinable'[other]
                   /\ main' > JoinOf[other] /\ main' < 12 => at'[other] = "ended"
        BY <2>1, <2>3, <3>1, <3>2, <1>0 DEF JoinInv, StartOf, JoinOf, Awaited
      <3> QED
        BY <2>1, <2>2, <3>1, <3>2 DEF JoinInv
    <2> QED
      BY <2>1, <2>2, <2>3 DEF JoinInv
  <1>4. ASSUME NEW thread \in Threads, SetStopped(thread)
        PROVE  JoinInv'
    BY <1>4 DEF SetStopped, JoinInv
  <1>5. CASE Exit
    <2>1. program = SchedulingProgram => main' = 12
      BY <1>5 DEF Exit, SchedulingProgram
    <2>2. \A thread \in Awaited : JoinOf[thread] \in 1..10
      BY DEF JoinOf, Awaited
    <2>3. ASSUME program = SchedulingProgram, NEW thread \in Awaited
          PROVE  ~(main' <= JoinOf[thread]) /\ ~(main' < 12)
      BY <2>1, <2>2, <2>3
    <2>4. program' = program /\ joinable' = joinable
      BY <1>5 DEF Exit
    <2> QED
      BY <2>1, <2>3, <2>4 DEF JoinInv
  <1>6. CASE Sender \/ Updater \/ Processor \/ Consumer
    BY <1>6, <1>0, SettledStay DEF JoinInv, Settled
  <1>7. CASE UNCHANGED vars
    BY <1>7 DEF vars, JoinInv
  <1> QED
    BY <1>1, <1>2, <1>3, <1>4, <1>5, <1>6, <1>7 DEF Next, Main

(* When the numbers of the scheduler are reported nothing is at work on    *)
(* them any more (experiment_scheduling.cpp:171-220).                      *)
THEOREM ReportIsFinal == Spec => []ReportsFinalNumbers
  <1>1. Init => Placed /\ NoLostWakeup /\ JoinInv
    BY DEF Init, Placed, NoLostWakeup, JoinInv, Places, Threads, StartOf, JoinOf, Awaited
  <1>2. (Placed /\ NoLostWakeup /\ JoinInv) /\ [Next]_vars => (Placed /\ NoLostWakeup /\ JoinInv)'
    BY WakeupInduction, JoinInduction
  <1>3. JoinInv => ReportsFinalNumbers
    <2> SUFFICES ASSUME JoinInv, program = SchedulingProgram, main > Len(program), ~Done,
                        NEW thread \in Awaited
                 PROVE  at[thread] = "ended"
      BY DEF ReportsFinalNumbers, Awaited
    <2>1. main = 11
      BY DEF JoinInv, Done, SchedulingProgram
    <2> QED
      BY <2>1 DEF JoinInv, JoinOf, Awaited
  <1> QED
    BY <1>1, <1>2, <1>3, PTL DEF Spec

-----------------------------------------------------------------------------
(* What WholeResults needs.  A thread is started once: until then it is    *)
(* where it was made.                                                      *)
StartsLater(thread) ==
    \E k \in 1..Len(program) : k >= main /\ program[k] = Command("start", thread)

StartInv ==
    /\ program \in {SchedulingProgram, LockProgram} /\ main \in Nat \ {0}
    /\ stopped \in [Threads -> BOOLEAN]
    /\ \A thread \in Threads : StartsLater(thread) => at[thread] = "new"
    /\ main = Len(program) + 2 => \A thread \in Threads : at[thread] = "gone"

(* Main tells neither the senders nor the consumer to stop: it waits for   *)
(* them, and the flag is set behind that.                                  *)
Running(thread) == at[thread] \notin {"new", "ended", "gone"}
NotStopped == \A thread \in Senders \cup {"consumer"} : Running(thread) => ~ToldToStop(thread)

(* What waits on a side is the tuples that came in and were not taken, and *)
(* behind all that there were to send the end, once.                       *)
Feed(queue, sent, got, ended) ==
    /\ sent \in 0..Total /\ got \in 0..sent
    /\ queue \in Seq({Tuple, EndOfStream})
    /\ \A k \in 1..Len(queue) : queue[k] = IF k <= sent - got THEN Tuple ELSE EndOfStream
    /\ \/ Len(queue) = sent - got
       \/ ended /\ Len(queue) = sent - got + 1
    /\ ended => sent = Total

Fed(sender) == Feed(input[sender], count[sender], taken[sender], at[sender] = "ended")

(* The results are as many as the windows that every side has completed.   *)
Paced ==
    /\ query \in [width : Widths, locks : BOOLEAN]
    /\ produced \in Nat
    /\ \A sender \in Inputs : WindowsOf(sender) >= produced
    /\ \E sender \in Inputs : WindowsOf(sender) = produced

(* The results have been consumed or wait in their order, and the ends of  *)
(* the streams behind the last there will be.                              *)
Order(got, queue, made, last, ended) ==
    LET left == made - Len(got)
    IN  /\ made \in Nat
        /\ got \in Seq(Nat) /\ Len(got) <= made
        /\ \A n \in 1..Len(got) : got[n] = n
        /\ queue \in Seq(Nat \cup {EndOfStream}) /\ left <= Len(queue)
        /\ \A k \in 1..Len(queue) : queue[k] = IF k <= left THEN Len(got) + k ELSE EndOfStream
        /\ left < Len(queue) => made = last
        /\ ended => left = 0 /\ made = last

Delivered ==
    Order(consumed, results, produced, Total \div query.width, at["consumer"] = "ended")

(* As long as the process is there *)
DataInv ==
    /\ DOMAIN input = Senders /\ DOMAIN count = Senders /\ DOMAIN taken = Senders
    /\ at["consumer"] # "gone" => /\ \A sender \in Senders : Fed(sender)
                                  /\ Paced
                                  /\ Delivered

WholeInv == Placed /\ NoLostWakeup /\ JoinInv /\ StartInv /\ NotStopped /\ DataInv

LEMMA ProgramsStartOnce ==
    ASSUME NEW p \in {SchedulingProgram, LockProgram}, NEW thread,
           NEW k \in 1..Len(p), NEW m \in 1..Len(p),
           p[k] = Command("start", thread), p[m] = Command("start", thread)
    PROVE  k = m
  <1>1. CASE p = SchedulingProgram
    BY <1>1 DEF SchedulingProgram, Command
  <1>2. CASE p = LockProgram
    BY <1>2 DEF LockProgram, Command
  <1> QED
    BY <1>1, <1>2

LEMMA ProgramLengths == Len(SchedulingProgram) = 10 /\ Len(LockProgram) = 8
  BY DEF SchedulingProgram, LockProgram

(* A thread that is started was where it was made.                         *)
LEMMA StartsNew ==
    ASSUME StartInv, NEW thread \in Threads, Calls("start", thread)
    PROVE  at[thread] = "new"
  <1>1. Len(program) \in Nat
    BY ProgramLengths DEF StartInv
  <1>2. main \in Nat \ {0} /\ main <= Len(program) /\ program[main] = Command("start", thread)
    BY DEF Calls, StartInv
  <1> QED
    BY <1>1, <1>2 DEF StartInv, StartsLater

LEMMA StartKept == Placed /\ StartInv /\ [Next]_vars => StartInv'
  <1> SUFFICES ASSUME Placed, StartInv, [Next]_vars
               PROVE  StartInv'
    OBVIOUS
  <1> DEFINE len == Len(program)
  <1>0. /\ program \in {SchedulingProgram, LockProgram} /\ main \in Nat \ {0} /\ len \in Nat
        /\ stopped \in [Threads -> BOOLEAN]
        /\ \A thread \in Threads : StartsLater(thread) => at[thread] = "new"
        /\ main = len + 2 => \A thread \in Threads : at[thread] = "gone"
    BY ProgramLengths DEF StartInv
  <1>1. ASSUME program' = program, main' = main \/ main' = main + 1, NEW thread \in Threads,
               StartsLater(thread)'
        PROVE  StartsLater(thread)
    BY <1>0, <1>1 DEF StartsLater
  <1>2. ASSUME NEW thread \in Threads, Start(thread)
        PROVE  StartInv'
    <2>1. /\ program' = program /\ main' = main + 1 /\ main <= len
          /\ stopped' = [stopped EXCEPT ![thread] = FALSE]
          /\ at' = [at EXCEPT ![thread] = "loop"]
          /\ program[main] = Command("start", thread)
      BY <1>2 DEF Start, Calls, Move, Proceed
    <2>2. ~StartsLater(thread)'
      <3>1. ASSUME NEW k \in 1..len, k >= main + 1, program[k] = Command("start", thread)
            PROVE  FALSE
        <4>1. main \in 1..len
          BY <1>0, <2>1
        <4>2. k = main
          BY <1>0, <2>1, <3>1, <4>1, ProgramsStartOnce
        <4> QED
          BY <1>0, <3>1, <4>2
      <3> QED
        BY <2>1, <3>1 DEF StartsLater
    <2>3. \A other \in Threads : StartsLater(other)' => at'[other] = "new"
      <3> SUFFICES ASSUME NEW other \in Threads, StartsLater(other)'
                   PROVE  at'[other] = "new"
        OBVIOUS
      <3>1. StartsLater(other) /\ other # thread
        BY <1>1, <2>1, <2>2
      <3> QED
        BY <1>0, <2>1, <3>1 DEF Placed
    <2>4. main' # Len(program') + 2 /\ main' \in Nat \ {0}
      BY <1>0, <2>1
    <2> QED
      BY <1>0, <2>1, <2>3, <2>4 DEF StartInv
  <1>3. ASSUME NEW thread \in Threads,
               \/ Wait(thread) \/ Stop(thread) \/ SetStopped(thread)
               \/ JoinStopped(thread) \/ Detach(thread)
        PROVE  StartInv'
    <2>1. /\ program' = program /\ at' = at /\ main <= len
          /\ main' = main \/ main' = main + 1
          /\ stopped' = stopped \/ stopped' = [stopped EXCEPT ![thread] = TRUE]
      BY <1>3 DEF Wait, Stop, SetStopped, JoinStopped, Detach, Calls, Proceed
    <2>2. \A other \in Threads : StartsLater(other)' => at'[other] = "new"
      BY <1>0, <1>1, <2>1
    <2>3. main' # Len(program') + 2 /\ main' \in Nat \ {0}
      BY <1>0, <2>1
    <2>4. stopped' \in [Threads -> BOOLEAN]
      BY <1>0, <2>1
    <2> QED
      BY <1>0, <2>1, <2>2, <2>3, <2>4 DEF StartInv
  <1>4. CASE Exit
    <2>1. /\ main = len + 1 /\ main' = main + 1 /\ program' = program /\ stopped' = stopped
          /\ at' = [thread \in Threads |-> "gone"]
      BY <1>4 DEF Exit
    <2>2. \A thread \in Threads : ~StartsLater(thread)'
      BY <1>0, <2>1 DEF StartsLater
    <2>3. main' \in Nat \ {0}
      BY <1>0, <2>1
    <2> QED
      BY <1>0, <2>1, <2>2, <2>3 DEF StartInv
  <1>5. CASE Sender \/ Updater \/ Processor \/ Consumer
    <2>1. /\ UNCHANGED <<program, main, stopped>>
          /\ \A thread \in Threads : at[thread] \in Settled => at'[thread] = at[thread]
      BY <1>5, SettledStay
    <2>2. \A thread \in Threads : StartsLater(thread)' => at'[thread] = "new"
      BY <1>0, <1>1, <2>1 DEF Settled
    <2> QED
      BY <1>0, <2>1, <2>2 DEF StartInv, Settled
  <1>6. CASE UNCHANGED vars
    <2>1. UNCHANGED <<program, main, stopped, at>>
      BY <1>6 DEF vars
    <2>2. \A thread \in Threads : StartsLater(thread)' => at'[thread] = "new"
      BY <1>0, <1>1, <2>1
    <2> QED
      BY <1>0, <2>1, <2>2 DEF StartInv
  <1> QED
    BY <1>2, <1>3, <1>4, <1>5, <1>6 DEF Next, Main

LEMMA NotStoppedKept ==
    Placed /\ JoinInv /\ StartInv /\ NotStopped /\ [Next]_vars => NotStopped'
  <1> SUFFICES ASSUME Placed, JoinInv, StartInv, NotStopped, [Next]_vars
               PROVE  NotStopped'
    OBVIOUS
  <1> DEFINE Kept == Senders \cup {"consumer"}
  <1>0. /\ Kept \subseteq Threads /\ Kept \subseteq Awaited
        /\ "updater" \notin Kept /\ "processor" \notin Kept
    BY DEF Senders, Threads, Awaited
  <1>01. \A thread \in Kept : Running(thread) => ~ToldToStop(thread)
    BY DEF NotStopped
  <1>1. ASSUME NEW thread \in Threads, Start(thread)
        PROVE  NotStopped'
    <2>1. /\ program' = program /\ stopped' = [stopped EXCEPT ![thread] = FALSE]
          /\ at' = [at EXCEPT ![thread] = "loop"]
      BY <1>1 DEF Start, Move, Proceed
    <2> QED
      BY <1>0, <1>01, <2>1 DEF NotStopped, Running, ToldToStop, StartInv, Placed
  <1>2. ASSUME NEW thread \in Threads, \/ Wait(thread) \/ Stop(thread) \/ SetStopped(thread)
        PROVE  NotStopped'
    <2>1. /\ program' = program /\ at' = at /\ stopped' = [stopped EXCEPT ![thread] = TRUE]
          /\ \/ Calls("wait", thread) /\ Joined(thread)
             \/ Calls("stop", thread)
             \/ Calls("stop_and_wait", thread)
      BY <1>2 DEF Wait, Stop, SetStopped, Proceed
    <2>2. ASSUME program = SchedulingProgram
          PROVE  thread \in Kept => at[thread] = "ended"
      <3>1. \/ thread \in Awaited /\ main = JoinOf[thread] /\ Joined(thread)
            \/ thread = "updater"
            \/ thread = "processor"
        BY <2>1, <2>2, SchedulingCalls DEF JoinInv
      <3>2. thread \in Awaited => StartOf[thread] < JoinOf[thread]
        BY DEF StartOf, JoinOf, Awaited
      <3>3. thread \in Awaited => JoinOf[thread] \in Nat
        BY DEF JoinOf, Awaited
      <3> QED
        BY <1>0, <2>2, <3>1, <3>2, <3>3 DEF JoinInv, Joined
    <2> QED
      BY <1>0, <1>01, <2>1, <2>2 DEF NotStopped, Running, ToldToStop, StartInv
  <1>3. ASSUME UNCHANGED <<program, stopped>>,
               \A thread \in Threads : at[thread] \in Settled => at'[thread] \in Settled
        PROVE  NotStopped'
    BY <1>0, <1>01, <1>3 DEF NotStopped, Running, ToldToStop, Settled
  <1>4. CASE \E thread \in Threads : JoinStopped(thread) \/ Detach(thread)
    BY <1>3, <1>4 DEF JoinStopped, Detach, Proceed
  <1>5. CASE Exit
    BY <1>3, <1>5 DEF Exit, Settled
  <1>6. CASE Sender \/ Updater \/ Processor \/ Consumer
    BY <1>3, <1>6, SettledStay
  <1>7. CASE UNCHANGED vars
    BY <1>3, <1>7 DEF vars
  <1> QED
    BY <1>1, <1>2, <1>4, <1>5, <1>6, <1>7 DEF Next, Main

LEMMA FeedSent ==
    ASSUME NEW queue, NEW sent, NEW got, Feed(queue, sent, got, FALSE)
    PROVE  /\ sent < Total => Feed(Append(queue, Tuple), sent + 1, got, FALSE)
           /\ ~(sent < Total) => Feed(Append(queue, EndOfStream), sent, got, TRUE)
  <1> DEFINE len == Len(queue)
  <1>1. /\ sent \in 0..Total /\ got \in 0..sent /\ Total \in Nat
        /\ queue \in Seq({Tuple, EndOfStream})
        /\ \A k \in 1..len : queue[k] = IF k <= sent - got THEN Tuple ELSE EndOfStream
        /\ len = sent - got /\ len \in Nat
    BY ExperimentAssumption DEF Feed
  <1>2. ASSUME NEW item \in {Tuple, EndOfStream}
        PROVE  /\ Append(queue, item) \in Seq({Tuple, EndOfStream})
               /\ Len(Append(queue, item)) = len + 1
               /\ \A k \in 1..len : Append(queue, item)[k] = queue[k]
               /\ Append(queue, item)[len + 1] = item
    BY <1>1
  <1> HIDE DEF len
  <1>3. ASSUME NEW k \in 1..len + 1
        PROVE  k \in 1..len \/ k = len + 1
    BY <1>1
  <1>4. ASSUME sent < Total
        PROVE  Feed(Append(queue, Tuple), sent + 1, got, FALSE)
    <2> DEFINE more == Append(queue, Tuple)
    <2>1. /\ more \in Seq({Tuple, EndOfStream}) /\ Len(more) = len + 1
          /\ \A k \in 1..len : more[k] = queue[k]
          /\ more[len + 1] = Tuple
      BY <1>2
    <2> HIDE DEF more
    <2>2. /\ sent + 1 \in 0..Total /\ got \in 0..sent + 1 /\ (sent + 1) - got = len + 1
          /\ \A k \in 1..len : k <= sent - got /\ k <= (sent + 1) - got
      BY ONLY <1>1, <1>4
    <2>3. \A k \in 1..len + 1 : more[k] = IF k <= (sent + 1) - got THEN Tuple ELSE EndOfStream
      BY <1>1, <1>3, <2>1, <2>2
    <2> QED
      BY <2>1, <2>2, <2>3 DEF Feed, more
  <1>5. ASSUME ~(sent < Total)
        PROVE  Feed(Append(queue, EndOfStream), sent, got, TRUE)
    <2> DEFINE more == Append(queue, EndOfStream)
    <2>1. /\ more \in Seq({Tuple, EndOfStream}) /\ Len(more) = len + 1
          /\ \A k \in 1..len : more[k] = queue[k]
          /\ more[len + 1] = EndOfStream
      BY <1>2
    <2> HIDE DEF more
    <2>2. /\ sent = Total /\ sent - got + 1 = len + 1 /\ ~(len + 1 <= sent - got)
      BY ONLY <1>1, <1>5
    <2>3. \A k \in 1..len + 1 : more[k] = IF k <= sent - got THEN Tuple ELSE EndOfStream
      BY <1>1, <1>3, <2>1, <2>2
    <2> QED
      BY <1>1, <2>1, <2>2, <2>3 DEF Feed, more
  <1> QED
    BY <1>4, <1>5

LEMMA FeedTaken ==
    ASSUME NEW queue, NEW sent, NEW got, NEW ended, Feed(queue, sent, got, ended), queue # <<>>
    PROVE  /\ Head(queue) = Tuple => Feed(Tail(queue), sent, got + 1, ended) /\ got + 1 <= Total
           /\ Head(queue) = EndOfStream => Feed(Tail(queue), sent, got, ended) /\ got = Total
  <1> DEFINE len == Len(queue)
             rest == Tail(queue)
  <1>1. /\ sent \in 0..Total /\ got \in 0..sent /\ Total \in Nat
        /\ queue \in Seq({Tuple, EndOfStream})
        /\ \A k \in 1..len : queue[k] = IF k <= sent - got THEN Tuple ELSE EndOfStream
        /\ \/ len = sent - got
           \/ ended /\ len = sent - got + 1
        /\ ended => sent = Total
        /\ len \in Nat \ {0} /\ Tuple # EndOfStream
    BY ExperimentAssumption DEF Feed
  <1>2. /\ rest \in Seq({Tuple, EndOfStream}) /\ Len(rest) = len - 1
        /\ \A k \in 1..len - 1 : rest[k] = queue[k + 1]
        /\ Head(queue) = queue[1]
    BY <1>1
  <1> HIDE DEF len, rest
  <1>3. 1 \in 1..len /\ \A k \in 1..len - 1 : k + 1 \in 1..len
    BY <1>1
  <1>4. queue[1] = IF 1 <= sent - got THEN Tuple ELSE EndOfStream
    BY <1>1, <1>3
  <1>5. ASSUME Head(queue) = Tuple
        PROVE  Feed(rest, sent, got + 1, ended) /\ got + 1 <= Total
    <2>1. 1 <= sent - got
      BY <1>1, <1>2, <1>4, <1>5
    <2>2. /\ got + 1 \in 0..sent /\ got + 1 <= Total
          /\ \A k \in 1..len - 1 : k + 1 <= sent - got <=> k <= sent - (got + 1)
          /\ \/ len - 1 = sent - (got + 1)
             \/ ended /\ len - 1 = sent - (got + 1) + 1
      BY <1>1, <2>1
    <2>3. \A k \in 1..len - 1 : rest[k] = IF k <= sent - (got + 1) THEN Tuple ELSE EndOfStream
      BY <1>1, <1>2, <1>3, <2>2
    <2> QED
      BY <1>1, <1>2, <2>2, <2>3 DEF Feed
  <1>6. ASSUME Head(queue) = EndOfStream
        PROVE  Feed(rest, sent, got, ended) /\ got = Total
    <2>1. ~(1 <= sent - got)
      BY <1>1, <1>2, <1>4, <1>6
    <2>2. got = sent /\ ended /\ len = 1 /\ sent - got = 0
      BY <1>1, <2>1
    <2>3. Len(rest) = 0 /\ \A k \in 1..Len(rest) : FALSE
      BY <1>2, <2>2
    <2> QED
      BY <1>1, <1>2, <2>2, <2>3 DEF Feed
  <1> QED
    BY <1>5, <1>6 DEF rest

(* A result comes before the last there will be, an end behind it.         *)
LEMMA OrderAppended ==
    ASSUME NEW got, NEW queue, NEW made, NEW last \in Nat, NEW ended,
           Order(got, queue, made, last, ended)
    PROVE  /\ made + 1 <= last => Order(got, Append(queue, made + 1), made + 1, last, ended)
           /\ made = last => Order(got, Append(queue, EndOfStream), made, last, ended)
  <1> DEFINE n == Len(got)
             len == Len(queue)
             S == Nat \cup {EndOfStream}
  <1>1. /\ made \in Nat /\ got \in Seq(Nat) /\ n <= made /\ n \in Nat
        /\ \A k \in 1..n : got[k] = k
        /\ queue \in Seq(S) /\ made - n <= len /\ len \in Nat
        /\ \A k \in 1..len : queue[k] = IF k <= made - n THEN n + k ELSE EndOfStream
        /\ made - n < len => made = last
        /\ ended => made - n = 0 /\ made = last
    BY DEF Order
  <1>2. ASSUME NEW item \in S
        PROVE  /\ Append(queue, item) \in Seq(S)
               /\ Len(Append(queue, item)) = len + 1
               /\ \A k \in 1..len : Append(queue, item)[k] = queue[k]
               /\ Append(queue, item)[len + 1] = item
    <2> HIDE DEF S
    <2> QED
      BY <1>1
  <1> HIDE DEF n, len
  <1>3. ASSUME NEW k \in 1..len + 1
        PROVE  k \in 1..len \/ k = len + 1
    BY <1>1
  <1>4. ASSUME made + 1 <= last
        PROVE  Order(got, Append(queue, made + 1), made + 1, last, ended)
    <2> DEFINE more == Append(queue, made + 1)
    <2>1. made # last /\ made + 1 \in S
      BY <1>1, <1>4
    <2>2. made - n = len /\ ~ended
      BY <1>1, <2>1
    <2>3. /\ more \in Seq(S) /\ Len(more) = len + 1
          /\ \A k \in 1..len : more[k] = queue[k]
          /\ more[len + 1] = made + 1
      BY <1>2, <2>1
    <2> HIDE DEF more
    <2>4. /\ (made + 1) - n = len + 1 /\ made + 1 = n + (len + 1) /\ n <= made + 1
          /\ \A k \in 1..len : k <= made - n /\ k <= (made + 1) - n
          /\ (made + 1) - n <= len + 1 /\ ~((made + 1) - n < len + 1) /\ made + 1 \in Nat
      BY <1>1, <2>2
    <2>5. \A k \in 1..len + 1 : more[k] = IF k <= (made + 1) - n THEN n + k ELSE EndOfStream
      BY <1>1, <1>3, <2>3, <2>4
    <2> QED
      BY <1>1, <2>2, <2>3, <2>4, <2>5 DEF Order, more, n
  <1>5. ASSUME made = last
        PROVE  Order(got, Append(queue, EndOfStream), made, last, ended)
    <2> DEFINE more == Append(queue, EndOfStream)
    <2>1. /\ more \in Seq(S) /\ Len(more) = len + 1
          /\ \A k \in 1..len : more[k] = queue[k]
          /\ more[len + 1] = EndOfStream
      BY <1>2
    <2> HIDE DEF more
    <2>2. ~(len + 1 <= made - n) /\ made - n <= len + 1
      BY <1>1
    <2>3. \A k \in 1..len + 1 : more[k] = IF k <= made - n THEN n + k ELSE EndOfStream
      BY <1>1, <1>3, <2>1, <2>2
    <2> QED
      BY <1>1, <1>5, <2>1, <2>2, <2>3 DEF Order, more, n
  <1> QED
    BY <1>4, <1>5

LEMMA OrderTaken ==
    ASSUME NEW got, NEW queue, NEW made, NEW last \in Nat,
           Order(got, queue, made, last, FALSE), queue # <<>>
    PROVE  /\ Head(queue) # EndOfStream =>
                  Order(Append(got, Head(queue)), Tail(queue), made, last, FALSE)
           /\ Head(queue) = EndOfStream => Order(got, Tail(queue), made, last, TRUE)
  <1> DEFINE n == Len(got)
             len == Len(queue)
             S == Nat \cup {EndOfStream}
             rest == Tail(queue)
  <1>1. /\ made \in Nat /\ got \in Seq(Nat) /\ n <= made /\ n \in Nat
        /\ \A k \in 1..n : got[k] = k
        /\ queue \in Seq(S) /\ made - n <= len /\ len \in Nat \ {0}
        /\ \A k \in 1..len : queue[k] = IF k <= made - n THEN n + k ELSE EndOfStream
        /\ made - n < len => made = last
    BY DEF Order
  <1>2. /\ rest \in Seq(S) /\ Len(rest) = len - 1
        /\ \A k \in 1..len - 1 : rest[k] = queue[k + 1]
        /\ Head(queue) = queue[1]
    <2> HIDE DEF S
    <2> QED
      BY <1>1
  <1>3. EndOfStream \notin Nat
    BY ExperimentAssumption
  <1> HIDE DEF n, len, rest
  <1>4. 1 \in 1..len /\ \A k \in 1..len - 1 : k + 1 \in 1..len
    BY <1>1
  <1>5. queue[1] = IF 1 <= made - n THEN n + 1 ELSE EndOfStream
    BY <1>1, <1>4
  <1>6. ASSUME Head(queue) # EndOfStream
        PROVE  Order(Append(got, Head(queue)), rest, made, last, FALSE)
    <2>1. 1 <= made - n /\ Head(queue) = n + 1
      BY <1>2, <1>5, <1>6
    <2> DEFINE more == Append(got, n + 1)
    <2>2. /\ more \in Seq(Nat) /\ Len(more) = n + 1
          /\ \A k \in 1..n : more[k] = got[k]
          /\ more[n + 1] = n + 1
      <3>1. n + 1 \in Nat
        BY <1>1
      <3> QED
        BY <1>1, <3>1 DEF n
    <2> HIDE DEF more
    <2>3. \A k \in 1..n + 1 : more[k] = k
      <3>1. \A k \in 1..n + 1 : k \in 1..n \/ k = n + 1
        BY <1>1
      <3> QED
        BY <1>1, <2>2, <3>1
    <2>4. /\ n + 1 <= made /\ made - (n + 1) <= len - 1
          /\ made - (n + 1) < len - 1 => made - n < len
          /\ \A k \in 1..len - 1 : k + 1 <= made - n <=> k <= made - (n + 1)
          /\ \A k \in 1..len - 1 : n + (k + 1) = (n + 1) + k
      BY <1>1, <2>1
    <2>5. \A k \in 1..len - 1 : rest[k] = IF k <= made - (n + 1) THEN (n + 1) + k ELSE EndOfStream
      BY <1>1, <1>2, <1>4, <2>4
    <2> QED
      BY <1>1, <1>2, <2>1, <2>2, <2>3, <2>4, <2>5 DEF Order, more
  <1>7. ASSUME Head(queue) = EndOfStream
        PROVE  Order(got, rest, made, last, TRUE)
    <2>1. ~(1 <= made - n)
      BY <1>1, <1>2, <1>3, <1>5, <1>7
    <2>2. made - n = 0 /\ made - n < len /\ made - n <= len - 1
      BY <1>1, <2>1
    <2>3. \A k \in 1..len - 1 : ~(k + 1 <= made - n) /\ ~(k <= made - n)
      BY <1>1, <2>2
    <2>4. \A k \in 1..len - 1 : rest[k] = IF k <= made - n THEN n + k ELSE EndOfStream
      BY <1>1, <1>2, <1>4, <2>3
    <2> QED
      BY <1>1, <1>2, <2>2, <2>4 DEF Order, n
  <1> QED
    BY <1>6, <1>7 DEF rest

(* How many windows some tuples make.                                      *)
LEMMA WindowsGrow ==
    ASSUME NEW width \in Nat \ {0}, NEW n \in Nat
    PROVE  /\ n \div width \in Nat
           /\ n \div width <= (n + 1) \div width /\ (n + 1) \div width <= (n \div width) + 1
           /\ \A m \in Nat : n <= m => n \div width <= m \div width
  <1>1. n \div width \in Nat /\ (n + 1) \div width <= (n \div width) + 1
    OBVIOUS
  <1>2. \A m \in Nat : n <= m => n \div width <= m \div width
    OBVIOUS
  <1> QED
    BY <1>1, <1>2

(* What Paced says of the inputs                                           *)
LEMMA PacedInputs ==
    ASSUME DataInv, at["consumer"] # "gone"
    PROVE  /\ query.width \in Nat \ {0} /\ produced \in Nat
           /\ Inputs \subseteq Senders
           /\ Total \in Nat /\ Total \div query.width \in Nat
           /\ \A sender \in Inputs : /\ taken[sender] \in Nat /\ taken[sender] <= Total
                                     /\ WindowsOf(sender) \in Nat
                                     /\ WindowsOf(sender) <= Total \div query.width
                                     /\ produced <= WindowsOf(sender)
           /\ \E sender \in Inputs : WindowsOf(sender) = produced
  <1>1. Paced /\ \A sender \in Senders : Fed(sender)
    BY DEF DataInv
  <1>2. query.width \in Nat \ {0} /\ Total \in Nat
    BY <1>1, ExperimentAssumption DEF Paced
  <1>3. Inputs \subseteq Senders
    BY DEF Inputs, Senders
  <1>4. \A sender \in Senders : taken[sender] \in Nat /\ taken[sender] <= Total
    BY <1>1, <1>2 DEF Fed, Feed
  <1>5. Total \div query.width \in Nat
    BY <1>2, WindowsGrow
  <1>6. \A sender \in Senders : /\ WindowsOf(sender) \in Nat
                                /\ WindowsOf(sender) <= Total \div query.width
    BY <1>2, <1>4, WindowsGrow DEF WindowsOf
  <1>7. /\ produced \in Nat
        /\ \A sender \in Inputs : WindowsOf(sender) >= produced
        /\ \E sender \in Inputs : WindowsOf(sender) = produced
    BY <1>1 DEF Paced
  <1>8. \A sender \in Inputs : produced <= WindowsOf(sender)
    BY <1>3, <1>6, <1>7
  <1> QED
    BY <1>2, <1>3, <1>4, <1>5, <1>6, <1>7, <1>8

LEMMA DataKept ==
    Placed /\ StartInv /\ NotStopped /\ DataInv /\ [Next]_vars => DataInv'
  <1> SUFFICES ASSUME Placed, StartInv, NotStopped, DataInv, [Next]_vars
               PROVE  DataInv'
    OBVIOUS
  <1> DEFINE last == Total \div query.width
  <1>0. /\ "consumer" \in Threads /\ "processor" \in Threads /\ "updater" \in Threads
        /\ Senders \subseteq Threads /\ "consumer" \notin Senders /\ "processor" \notin Senders
        /\ "updater" \notin Senders
    BY DEF Threads, Senders
  <1>01. /\ DOMAIN input = Senders /\ DOMAIN count = Senders /\ DOMAIN taken = Senders
         /\ DOMAIN at = Threads
    BY DEF DataInv, Placed
  <1>1. ASSUME UNCHANGED <<program, query, input, count, taken, results, produced, consumed>>,
               \A thread \in Senders \cup {"consumer"} : (at'[thread] = "ended") = (at[thread] = "ended"),
               at'["consumer"] # "gone" => at["consumer"] # "gone"
        PROVE  DataInv'
    <2>1. ASSUME at["consumer"] # "gone"
          PROVE  /\ \A sender \in Senders : Fed(sender)'
                 /\ Paced' /\ Delivered'
      <3>1. (\A sender \in Senders : Fed(sender)) /\ Paced /\ Delivered
        BY <2>1 DEF DataInv
      <3>2. \A sender \in Senders : Fed(sender)'
        BY <1>1, <3>1 DEF Fed
      <3>3. Paced'
        BY <1>1, <3>1 DEF Paced, Inputs, WindowsOf
      <3>4. Delivered'
        BY <1>1, <3>1 DEF Delivered
      <3> QED
        BY <3>2, <3>3, <3>4
    <2> QED
      BY <1>01, <1>1, <2>1 DEF DataInv
  <1>2. ASSUME NEW thread \in Threads, Start(thread)
        PROVE  DataInv'
    <2>1. /\ UNCHANGED <<program, query, queues>> /\ at' = [at EXCEPT ![thread] = "loop"]
          /\ Calls("start", thread)
      BY <1>2 DEF Start, Move, Proceed
    <2>2. at[thread] = "new"
      BY <2>1, StartsNew
    <2>3. \A other \in Threads : /\ (at'[other] = "ended") = (at[other] = "ended")
                                 /\ at'[other] # "gone" => at[other] # "gone"
      BY <1>01, <2>1, <2>2
    <2> QED
      BY <1>0, <1>1, <2>1, <2>3 DEF queues
  <1>3. ASSUME NEW thread \in Threads,
               \/ Wait(thread) \/ Stop(thread) \/ SetStopped(thread)
               \/ JoinStopped(thread) \/ Detach(thread)
        PROVE  DataInv'
    <2>1. UNCHANGED <<program, query, queues, at>>
      BY <1>3 DEF Wait, Stop, SetStopped, JoinStopped, Detach, Proceed
    <2> QED
      BY <1>1, <2>1 DEF queues
  <1>4. CASE Exit
    <2>1. at'["consumer"] = "gone" /\ UNCHANGED queues
      BY <1>0, <1>4 DEF Exit
    <2> QED
      BY <1>01, <2>1 DEF DataInv, queues
  <1>5. CASE UNCHANGED vars
    <2>1. UNCHANGED <<program, query, queues, at>>
      BY <1>5 DEF vars
    <2> QED
      BY <1>1, <2>1 DEF queues
  <1>6. CASE Updater
    <2>1. UNCHANGED <<program, query, queues>>
      BY <1>6 DEF Updater, UpdaterLoops, UpdaterLocks, UpdaterUnlocks, Thread
    <2>2. \A thread \in Threads : thread # "updater" => at'[thread] = at[thread]
      BY <1>01, <1>6 DEF Updater, UpdaterLoops, UpdaterLocks, UpdaterUnlocks, Move
    <2>3. \A thread \in Senders \cup {"consumer"} : at'[thread] = at[thread]
      BY <1>0, <2>2
    <2> QED
      BY <1>1, <2>1, <2>3 DEF queues
  <1>7. CASE ProcessorLoops \/ Idle
    <2>1. UNCHANGED <<program, query, queues>>
      BY <1>7 DEF ProcessorLoops, Idle, Thread
    <2>2. \A thread \in Threads : thread # "processor" => at'[thread] = at[thread]
      BY <1>01, <1>7 DEF ProcessorLoops, Idle, Move
    <2>3. \A thread \in Senders \cup {"consumer"} : at'[thread] = at[thread]
      BY <1>0, <2>2
    <2> QED
      BY <1>1, <2>1, <2>3 DEF queues
  <1>8. CASE ConsumerLoops \/ Sleep
    <2>1. UNCHANGED <<program, query, queues>>
      BY <1>8 DEF ConsumerLoops, Sleep, Thread
    <2>2. at["consumer"] \in {"loop", "dequeue"}
      BY <1>8 DEF ConsumerLoops, Sleep
    <2>3. ~ToldToStop("consumer")
      BY <2>2 DEF NotStopped, Running
    <2>4. at' = [at EXCEPT !["consumer"] = "dequeue"] \/ at' = [at EXCEPT !["consumer"] = "asleep"]
      BY <1>8, <2>3 DEF ConsumerLoops, Sleep, Move
    <2>5. \A thread \in Senders \cup {"consumer"} : (at'[thread] = "ended") = (at[thread] = "ended")
      BY <1>0, <1>01, <2>2, <2>4
    <2> QED
      BY <1>1, <2>1, <2>2, <2>5 DEF queues
  <1> SUFFICES ASSUME \/ \E sender \in Senders : Send(sender) \/ Process(sender) \/ PassEnd(sender)
                      \/ Consume
               PROVE  DataInv'
    BY <1>2, <1>3, <1>4, <1>5, <1>6, <1>7, <1>8 DEF Next, Main, Sender, Processor, Consumer
  <1>9. ASSUME at["consumer"] = "gone"
        PROVE  DataInv'
    <2>1. at'["consumer"] = "gone"
      <3>1. Sender \/ Processor \/ Consumer
        BY DEF Sender, Processor, Consumer
      <3> QED
        BY <1>0, <1>9, <3>1, SettledStay DEF Settled
    <2>2. DOMAIN input' = Senders /\ DOMAIN count' = Senders /\ DOMAIN taken' = Senders
      BY <1>01 DEF Send, Process, PassEnd, Consume
    <2> QED
      BY <2>1, <2>2 DEF DataInv
  <1> SUFFICES ASSUME at["consumer"] # "gone"
               PROVE  DataInv'
    BY <1>9
  <1>10. /\ \A sender \in Senders : Fed(sender)
         /\ Paced /\ Delivered
         /\ last \in Nat /\ query.width \in Nat \ {0}
    BY PacedInputs DEF DataInv
  <1>11. Order(consumed, results, produced, last, at["consumer"] = "ended")
    BY <1>10 DEF Delivered
  <1>12. ASSUME NEW sender \in Senders, Send(sender)
         PROVE  DataInv'
    <2>1. /\ at[sender] = "loop"
          /\ UNCHANGED <<program, query, taken, results, produced, consumed>>
      BY <1>12 DEF Send, Thread
    <2>2. ~ToldToStop(sender)
      BY <2>1 DEF NotStopped, Running
    <2>3. Feed(input[sender], count[sender], taken[sender], FALSE)
      <3>1. Feed(input[sender], count[sender], taken[sender], at[sender] = "ended")
        BY <1>10 DEF Fed
      <3>2. (at[sender] = "ended") = FALSE
        BY <2>1
      <3> QED
        BY <3>1, <3>2
    <2>4. ASSUME count[sender] < Total
          PROVE  /\ Fed(sender)' /\ at' = at
                 /\ \A other \in Senders : other # sender =>
                        input'[other] = input[other] /\ count'[other] = count[other]
                 /\ DOMAIN input' = Senders /\ DOMAIN count' = Senders
      <3>1. /\ input' = [input EXCEPT ![sender] = Append(@, Tuple)]
            /\ count' = [count EXCEPT ![sender] = @ + 1] /\ at' = at
        BY <1>12, <2>2, <2>4 DEF Send, HasMore
      <3>2. Feed(Append(input[sender], Tuple), count[sender] + 1, taken[sender], FALSE)
        BY <2>3, <2>4, FeedSent
      <3>3. input'[sender] = Append(input[sender], Tuple) /\ count'[sender] = count[sender] + 1
            /\ (at'[sender] = "ended") = FALSE /\ taken' = taken
        BY <1>01, <2>1, <3>1
      <3>4. Fed(sender)'
        BY <3>2, <3>3 DEF Fed
      <3> QED
        BY <1>01, <3>1, <3>4
    <2>5. ASSUME ~(count[sender] < Total)
          PROVE  /\ Fed(sender)' /\ at' = [at EXCEPT ![sender] = "ended"]
                 /\ \A other \in Senders : other # sender =>
                        input'[other] = input[other] /\ count'[other] = count[other]
                 /\ DOMAIN input' = Senders /\ DOMAIN count' = Senders
      <3>1. /\ input' = [input EXCEPT ![sender] = Append(@, EndOfStream)]
            /\ count' = count /\ at' = [at EXCEPT ![sender] = "ended"]
        BY <1>12, <2>5 DEF Send, HasMore, Move
      <3>2. Feed(Append(input[sender], EndOfStream), count[sender], taken[sender], TRUE)
        BY <2>3, <2>5, FeedSent
      <3>3. input'[sender] = Append(input[sender], EndOfStream) /\ count'[sender] = count[sender]
            /\ (at'[sender] = "ended") = TRUE /\ taken' = taken
        BY <1>0, <1>01, <2>1, <3>1
      <3>4. Fed(sender)'
        BY <3>2, <3>3 DEF Fed
      <3> QED
        BY <1>01, <3>1, <3>4
    <2>6. /\ Fed(sender)'
          /\ at' = at \/ at' = [at EXCEPT ![sender] = "ended"]
          /\ \A other \in Senders : other # sender =>
                 input'[other] = input[other] /\ count'[other] = count[other]
          /\ DOMAIN input' = Senders /\ DOMAIN count' = Senders
      BY <2>4, <2>5
    <2>7. \A other \in Threads : other # sender => at'[other] = at[other]
      BY <1>01, <2>6
    <2>8. \A other \in Senders : Fed(other)'
      <3> SUFFICES ASSUME NEW other \in Senders, other # sender PROVE Fed(other)'
        BY <2>6
      <3>1. /\ input'[other] = input[other] /\ count'[other] = count[other]
            /\ taken' = taken /\ at'[other] = at[other]
        BY <1>0, <2>1, <2>6, <2>7
      <3> QED
        BY <1>10, <3>1 DEF Fed
    <2>9. Paced'
      BY <1>10, <2>1 DEF Paced, Inputs, WindowsOf
    <2>10. Delivered'
      <3>1. at'["consumer"] = at["consumer"]
        BY <1>0, <2>7
      <3> QED
        BY <1>10, <2>1, <3>1 DEF Delivered
    <2> QED
      BY <1>01, <2>1, <2>6, <2>8, <2>9, <2>10 DEF DataInv
  <1>13. CASE Consume
    <2>1. /\ at["consumer"] = "dequeue" /\ results # <<>> /\ results' = Tail(results)
          /\ UNCHANGED <<program, query, input, count, taken, produced>>
      BY <1>13 DEF Consume, Thread
    <2>2. \A thread \in Threads : thread # "consumer" => at'[thread] = at[thread]
      BY <1>01, <1>13 DEF Consume, Move
    <2>3. \A sender \in Senders : at'[sender] = at[sender]
      BY <1>0, <2>2
    <2>4. \A sender \in Senders : Fed(sender)'
      BY <1>10, <2>1, <2>3 DEF Fed
    <2>5. Paced'
      BY <1>10, <2>1 DEF Paced, Inputs, WindowsOf
    <2>6. Order(consumed, results, produced, last, FALSE)
      <3>1. (at["consumer"] = "ended") = FALSE
        BY <2>1
      <3> HIDE DEF last
      <3> QED
        BY <1>11, <3>1
    <2>7. Delivered'
      <3>1. CASE Head(results) = EndOfStream
        <4>1. consumed' = consumed /\ (at'["consumer"] = "ended") = TRUE
          BY <1>0, <1>01, <1>13, <3>1 DEF Consume, Move
        <4>2. Order(consumed, Tail(results), produced, last, TRUE)
          BY <1>10, <2>1, <2>6, <3>1, OrderTaken
        <4> QED
          BY <2>1, <4>1, <4>2 DEF Delivered
      <3>2. CASE Head(results) # EndOfStream
        <4>1. consumed' = Append(consumed, Head(results)) /\ (at'["consumer"] = "ended") = FALSE
          BY <1>0, <1>01, <1>13, <3>2 DEF Consume, Move
        <4>2. Order(Append(consumed, Head(results)), Tail(results), produced, last, FALSE)
          BY <1>10, <2>1, <2>6, <3>2, OrderTaken
        <4> QED
          BY <2>1, <4>1, <4>2 DEF Delivered
      <3> QED
        BY <3>1, <3>2
    <2> QED
      BY <1>01, <2>1, <2>4, <2>5, <2>7 DEF DataInv
  <1>14. ASSUME NEW sender \in Senders, Process(sender) \/ PassEnd(sender)
         PROVE  /\ sender \in Inputs /\ input[sender] # <<>>
                /\ \A other \in Inputs : WindowsOf(sender) <= WindowsOf(other)
                /\ input' = [input EXCEPT ![sender] = Tail(@)]
                /\ UNCHANGED <<program, query, count, consumed>>
                /\ \A thread \in Senders : at'[thread] = at[thread]
                /\ (at'["consumer"] = "ended") = (at["consumer"] = "ended")
    <2>1. \/ at' = [Woken(at) EXCEPT !["processor"] = "loop"]
          \/ at' = [at EXCEPT !["processor"] = "loop"]
      BY <1>14 DEF Process, PassEnd, Move
    <2>2. \/ Woken(at) = at
          \/ Woken(at) = [at EXCEPT !["consumer"] = "dequeue"] /\ at["consumer"] = "asleep"
      BY DEF Woken
    <2>3. \A thread \in Senders : at'[thread] = at[thread]
      BY <1>0, <1>01, <2>1, <2>2
    <2>4. (at'["consumer"] = "ended") = (at["consumer"] = "ended")
      BY <1>0, <1>01, <2>1, <2>2
    <2>5. /\ sender \in Inputs /\ input[sender] # <<>>
          /\ \A other \in Inputs : WindowsOf(sender) <= WindowsOf(other)
      BY <1>14 DEF Process, PassEnd, Readable
    <2> QED
      BY <1>14, <2>3, <2>4, <2>5 DEF Process, PassEnd, Thread
  <1>15. ASSUME NEW sender \in Senders, PassEnd(sender)
         PROVE  DataInv'
    <2>1. /\ sender \in Inputs /\ input[sender] # <<>>
          /\ \A other \in Inputs : WindowsOf(sender) <= WindowsOf(other)
          /\ input' = [input EXCEPT ![sender] = Tail(@)]
          /\ UNCHANGED <<program, query, count, consumed>>
          /\ \A thread \in Senders : at'[thread] = at[thread]
          /\ (at'["consumer"] = "ended") = (at["consumer"] = "ended")
      BY <1>14, <1>15
    <2>2. /\ Head(input[sender]) = EndOfStream /\ UNCHANGED <<taken, produced>>
          /\ results' = Append(results, EndOfStream)
      BY <1>15 DEF PassEnd
    <2>3. Feed(Tail(input[sender]), count[sender], taken[sender], at[sender] = "ended")
          /\ taken[sender] = Total
      <3>1. PICK ended : ended = (at[sender] = "ended")
        OBVIOUS
      <3>2. Feed(input[sender], count[sender], taken[sender], ended)
        BY <1>10, <3>1 DEF Fed
      <3>3. Feed(Tail(input[sender]), count[sender], taken[sender], ended) /\ taken[sender] = Total
        BY <2>1, <2>2, <3>2, FeedTaken
      <3> QED
        BY <3>1, <3>3
    <2>4. \A other \in Senders : Fed(other)'
      <3> SUFFICES ASSUME NEW other \in Senders PROVE Fed(other)'
        OBVIOUS
      <3>1. CASE other = sender
        BY <1>01, <2>1, <2>2, <2>3, <3>1 DEF Fed
      <3>2. CASE other # sender
        BY <1>01, <1>10, <2>1, <2>2, <3>2 DEF Fed
      <3> QED
        BY <3>1, <3>2
    <2>5. Paced'
      BY <1>10, <2>1, <2>2 DEF Paced, Inputs, WindowsOf
    <2>6. produced = last
      <3>1. WindowsOf(sender) = last
        BY <2>3 DEF WindowsOf
      <3>2. PICK least \in Inputs : WindowsOf(least) = produced
        BY PacedInputs
      <3>3. /\ WindowsOf(sender) <= WindowsOf(least) /\ produced <= WindowsOf(sender)
            /\ produced \in Nat
        BY <2>1, PacedInputs
      <3> HIDE DEF last
      <3> QED
        BY <1>10, <3>1, <3>2, <3>3
    <2>7. Delivered'
      <3>1. Order(consumed, Append(results, EndOfStream), produced, last, at["consumer"] = "ended")
        BY <1>10, <1>11, <2>6, OrderAppended
      <3> QED
        BY <2>1, <2>2, <3>1 DEF Delivered
    <2> QED
      BY <1>01, <2>1, <2>2, <2>4, <2>5, <2>7 DEF DataInv
  <1>16. ASSUME NEW sender \in Senders, Process(sender)
         PROVE  DataInv'
    <2>1. /\ sender \in Inputs /\ input[sender] # <<>>
          /\ \A other \in Inputs : WindowsOf(sender) <= WindowsOf(other)
          /\ input' = [input EXCEPT ![sender] = Tail(@)]
          /\ UNCHANGED <<program, query, count, consumed>>
          /\ \A thread \in Senders : at'[thread] = at[thread]
          /\ (at'["consumer"] = "ended") = (at["consumer"] = "ended")
      BY <1>14, <1>16
    <2>2. /\ Head(input[sender]) = Tuple
          /\ taken' = [taken EXCEPT ![sender] = @ + 1]
      BY <1>16 DEF Process
    <2>3. /\ Feed(Tail(input[sender]), count[sender], taken[sender] + 1, at[sender] = "ended")
          /\ taken[sender] + 1 <= Total
      BY <1>10, <2>1, <2>2, FeedTaken DEF Fed
    <2>4. \A other \in Senders : Fed(other)'
      <3> SUFFICES ASSUME NEW other \in Senders PROVE Fed(other)'
        OBVIOUS
      <3>1. CASE other = sender
        BY <1>01, <2>1, <2>2, <2>3, <3>1 DEF Fed
      <3>2. CASE other # sender
        BY <1>01, <1>10, <2>1, <2>2, <3>2 DEF Fed
      <3> QED
        BY <3>1, <3>2
    <2> DEFINE Before(other) == taken[other] \div query.width
               After(other) == taken'[other] \div query.width
    <2>5. /\ produced \in Nat
          /\ \A other \in Inputs : Before(other) \in Nat /\ produced <= Before(other)
          /\ \E other \in Inputs : Before(other) = produced
      BY PacedInputs DEF WindowsOf
    <2>6. Before(sender) = produced
      <3>1. \A other \in Inputs : Before(sender) <= Before(other)
        BY <2>1 DEF WindowsOf
      <3> HIDE DEF Before
      <3> QED
        BY <2>1, <2>5, <3>1
    <2>7. /\ \A other \in Inputs : other # sender => After(other) = Before(other)
          /\ After(sender) \in Nat /\ produced <= After(sender) /\ After(sender) <= produced + 1
      <3>1. taken[sender] \in Nat /\ query.width \in Nat \ {0}
        BY <2>1, PacedInputs
      <3>2. taken'[sender] = taken[sender] + 1 /\ \A other \in Senders : other # sender => taken'[other] = taken[other]
        BY <1>01, <2>2
      <3>3. After(sender) = (taken[sender] + 1) \div query.width
        BY <3>2
      <3>4. /\ After(sender) \in Nat /\ Before(sender) <= After(sender)
            /\ After(sender) <= Before(sender) + 1
        <4> DEFINE n == taken[sender]
                   m == n + 1
        <4>1. n \in Nat /\ m \in Nat
          BY <3>1
        <4>2. n \div query.width <= m \div query.width /\ m \div query.width <= (n \div query.width) + 1
          BY <3>1, <4>1, WindowsGrow
        <4>3. m \div query.width \in Nat
          <5> HIDE DEF m
          <5> QED
            BY <3>1, <4>1, WindowsGrow
        <4> QED
          BY <3>3, <4>2, <4>3
      <3>5. Inputs \subseteq Senders
        BY PacedInputs
      <3>6. \A other \in Inputs : other # sender => After(other) = Before(other)
        BY <3>2, <3>5
      <3> HIDE DEF After, Before
      <3> QED
        BY <2>6, <3>4, <3>6
    <2>8. \A other \in Inputs : After(other) \in Nat /\ produced <= After(other)
      <3> HIDE DEF After, Before
      <3> QED
        BY <2>5, <2>7
    <2>9. /\ \A other \in Senders : WindowsOf(other)' = After(other)
          /\ Inputs' = Inputs /\ Inputs \subseteq Senders
          /\ query' \in [width : Widths, locks : BOOLEAN]
      <3>1. Inputs \subseteq Senders
        BY PacedInputs
      <3> QED
        BY <1>10, <2>1, <3>1 DEF WindowsOf, Inputs, Paced
    <2>10. CASE \A other \in Inputs : After(other) > produced
      <3>1. results' = Append(results, produced + 1) /\ produced' = produced + 1
        BY <1>16, <2>10 DEF Process
      <3>2. \A other \in Inputs : After(other) >= produced + 1
        <4> HIDE DEF After, Before
        <4> QED
          BY <2>5, <2>8, <2>10
      <3>3. After(sender) = produced + 1
        <4> HIDE DEF After, Before
        <4> QED
          BY <2>1, <2>5, <2>7, <3>2
      <3>4. Paced'
        <4> HIDE DEF After, Before
        <4> QED
          BY <2>1, <2>5, <2>9, <3>1, <3>2, <3>3 DEF Paced
      <3>5. produced + 1 <= last
        <4>1. (taken[sender] + 1) \div query.width <= last
          <5>1. taken[sender] \in Nat /\ taken[sender] + 1 \in Nat /\ Total \in Nat
            BY <2>1, PacedInputs
          <5> DEFINE m == taken[sender] + 1
          <5>2. m \in Nat /\ m <= Total
            BY <2>3, <5>1
          <5> HIDE DEF m
          <5>3. m \div query.width <= last
            BY <1>10, <5>1, <5>2, WindowsGrow
          <5> QED
            BY <5>3 DEF m
        <4>2. After(sender) = (taken[sender] + 1) \div query.width
          BY <1>01, <2>2
        <4> HIDE DEF After, last
        <4> QED
          BY <3>3, <4>1, <4>2
      <3>6. Delivered'
        <4>1. Order(consumed, Append(results, produced + 1), produced + 1, last, at["consumer"] = "ended")
          BY <1>10, <1>11, <3>5, OrderAppended
        <4> QED
          BY <2>1, <3>1, <4>1 DEF Delivered
      <3> QED
        BY <1>01, <2>1, <2>2, <2>4, <3>4, <3>6 DEF DataInv
    <2>11. CASE ~\A other \in Inputs : After(other) > produced
      <3>1. UNCHANGED <<results, produced>>
        BY <1>16, <2>11 DEF Process
      <3>2. \E other \in Inputs : After(other) = produced
        <4> HIDE DEF After, Before
        <4> QED
          BY <2>5, <2>8, <2>11
      <3>3. \A other \in Inputs : After(other) >= produced
        <4> HIDE DEF After, Before
        <4> QED
          BY <2>5, <2>8
      <3>4. Paced'
        <4> HIDE DEF After, Before
        <4> QED
          BY <2>1, <2>5, <2>9, <3>1, <3>2, <3>3 DEF Paced
      <3>5. Delivered'
        BY <1>10, <2>1, <3>1 DEF Delivered
      <3> QED
        BY <1>01, <2>1, <2>2, <2>4, <3>4, <3>5 DEF DataInv
    <2> QED
      BY <2>10, <2>11
  <1> QED
    BY <1>12, <1>13, <1>15, <1>16

LEMMA WholeInduction == (Init => WholeInv) /\ (WholeInv /\ [Next]_vars => WholeInv')
  <1>1. Init => WholeInv
    <2> SUFFICES ASSUME Init
                 PROVE  WholeInv
      OBVIOUS
    <2>1. Placed /\ NoLostWakeup /\ JoinInv
      BY DEF Init, Placed, NoLostWakeup, JoinInv, Places, Threads, StartOf, JoinOf, Awaited
    <2>2. main = 1 /\ \A thread \in Threads : at[thread] = "new"
      BY DEF Init
    <2>3. StartInv
      <3>1. main # Len(program) + 2
        BY ProgramLengths, <2>2 DEF Init
      <3> QED
        BY <2>2, <3>1 DEF Init, StartInv
    <2>4. NotStopped
      BY <2>2 DEF NotStopped, Running, Senders, Threads
    <2>5. "consumer" \in Threads /\ Senders \subseteq Threads
      BY DEF Threads, Senders
    <2>6. ASSUME NEW sender \in Senders
          PROVE  Fed(sender)
      <3>1. input[sender] = <<>> /\ count[sender] = 0 /\ taken[sender] = 0
        BY DEF Init
      <3>2. Len(<<>>) = 0 /\ <<>> \in Seq({Tuple, EndOfStream}) /\ (\A k \in 1..0 : FALSE)
        OBVIOUS
      <3>3. (at[sender] = "ended") = FALSE
        BY <2>2, <2>5
      <3>4. 0 \in 0..Total /\ 0 \in 0..0 /\ 0 - 0 = 0
        BY ExperimentAssumption
      <3>5. Feed(<<>>, 0, 0, FALSE)
        BY <3>2, <3>4 DEF Feed
      <3> QED
        BY <3>1, <3>3, <3>5 DEF Fed
    <2>7. Paced
      <3>1. query \in [width : Widths, locks : BOOLEAN] /\ produced = 0
        BY DEF Init
      <3>2. query.width \in Nat \ {0}
        BY <3>1, ExperimentAssumption
      <3>3. 0 \div query.width = 0
        BY <3>2
      <3>4. "sender" \in Inputs /\ Inputs \subseteq Senders
        BY DEF Inputs, Senders
      <3>5. \A sender \in Senders : WindowsOf(sender) = 0
        BY <3>3 DEF Init, WindowsOf
      <3>6. \A sender \in Inputs : WindowsOf(sender) >= produced
        BY <3>1, <3>4, <3>5
      <3> QED
        BY <3>1, <3>4, <3>5, <3>6 DEF Paced
    <2>8. Delivered
      <3>1. consumed = <<>> /\ results = <<>> /\ produced = 0
        BY DEF Init
      <3>2. /\ Len(<<>>) = 0 /\ <<>> \in Seq(Nat) /\ <<>> \in Seq(Nat \cup {EndOfStream})
            /\ (\A k \in 1..0 : FALSE) /\ 0 - 0 = 0
        OBVIOUS
      <3>3. (at["consumer"] = "ended") = FALSE
        BY <2>2, <2>5
      <3>4. \A last : Order(<<>>, <<>>, 0, last, FALSE)
        BY <3>2 DEF Order
      <3> QED
        BY <3>1, <3>3, <3>4 DEF Delivered
    <2>9. DOMAIN input = Senders /\ DOMAIN count = Senders /\ DOMAIN taken = Senders
      BY DEF Init
    <2> QED
      BY <2>1, <2>3, <2>4, <2>6, <2>7, <2>8, <2>9 DEF WholeInv, DataInv
  <1>2. WholeInv /\ [Next]_vars => WholeInv'
    BY WakeupInduction, JoinInduction, StartKept, NotStoppedKept, DataKept DEF WholeInv
  <1> QED
    BY <1>1, <1>2

(* The consumer ends with the first end of a stream it gets, and has had   *)
(* every result of every whole window by then, each once and in order,     *)
(* although every input has an end of its own, in both experiments         *)
(* (experiment_scheduling.cpp:167, stream-consumer.h:23,                   *)
(* double-input-operator.h:35-46).                                         *)
THEOREM ConsumerHasWholeResults == Spec => []WholeResults
  <1>1. WholeInv => WholeResults
    <2> SUFFICES ASSUME WholeInv, at["consumer"] = "ended"
                 PROVE  /\ consumed = [n \in 1..produced |-> n]
                        /\ produced = Total \div query.width
      BY DEF WholeResults
    <2>1. Order(consumed, results, produced, Total \div query.width, TRUE)
      <3>1. (at["consumer"] = "ended") = TRUE
        OBVIOUS
      <3> QED
        BY <3>1 DEF WholeInv, DataInv, Delivered
    <2>2. /\ produced = Total \div query.width /\ produced \in Nat /\ consumed \in Seq(Nat)
          /\ produced - Len(consumed) = 0 /\ Len(consumed) \in Nat
          /\ \A n \in 1..Len(consumed) : consumed[n] = n
      BY <2>1 DEF Order
    <2>3. Len(consumed) = produced /\ DOMAIN consumed = 1..produced
      BY <2>2
    <2>4. consumed = [n \in 1..produced |-> consumed[n]]
      BY <2>2, <2>3
    <2> QED
      BY <2>2, <2>3, <2>4
  <1> QED
    BY <1>1, WholeInduction, PTL DEF Spec
=============================================================================
