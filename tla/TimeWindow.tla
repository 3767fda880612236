----------------------------- MODULE TimeWindow -----------------------------
(***************************************************************************)
(* A time-based window (class TimeBaseSynopsis, core/operator/synopsis.h)  *)
(* with its arithmetic on timevals (util/time.h).  It is part of the build *)
(* only with CURRENTIA_ENABLE_TIME_BASED_WINDOW.                           *)
(*                                                                         *)
(* Tuples are numbered in their order of arrival; the time of a tuple is   *)
(* read from the clock when it is made, so it never goes back.  The units  *)
(* of time are parameters: 1000 and 1000 in the code, and a modulus of     *)
(* 2^32, the width of useconds_t.                                          *)
(***************************************************************************)
EXTENDS Integers, Sequences, Subsequences

CONSTANTS UsecPerMsec, MsecPerSec,   \* the units
          Modulus,                   \* what useconds_t wraps at
          Windows,                   \* windows there may be, [width, stride] in msec
          MaxTuples, MaxTime,        \* bounds: tuples; usec on the clock
          NoTuple

UsecPerSec == MsecPerSec * UsecPerMsec

ASSUME TimeAssumption ==
    /\ UsecPerMsec \in Nat \ {0}
    /\ MsecPerSec \in Nat \ {0}
    /\ Modulus \in Nat \ {0}
    /\ Windows \subseteq [width : Nat, stride : Nat]
    /\ \A window \in Windows : (UsecPerMsec * window.stride) % Modulus # 0
    /\ MaxTuples \in Nat
    /\ MaxTime \in Nat
    /\ NoTuple \notin 1..MaxTuples

Timeval == [sec : Nat, usec : 0..(UsecPerSec - 1)]

Usecs(time) == time.sec * UsecPerSec + time.usec
AtUsec(usec) == [sec |-> usec \div UsecPerSec, usec |-> usec % UsecPerSec]

(* What 1000 * msec is as a useconds_t *)
InUsec(msec) == (UsecPerMsec * msec) % Modulus

(* Mutant: the carry is lost. *)
AddWithLostCarry(time, msec) ==
    [sec |-> time.sec + (InUsec(msec) \div UsecPerSec),
     usec |-> (time.usec + InUsec(msec)) % UsecPerSec]

(* timeval_add_msec() *)
AddMsec(time, msec) ==
    LET sec == time.sec + (InUsec(msec) \div UsecPerSec)
        usec == time.usec + (InUsec(msec) % UsecPerSec)
    IN  IF usec >= UsecPerSec THEN [sec |-> sec + 1, usec |-> usec - UsecPerSec]
        ELSE [sec |-> sec, usec |-> usec]

(* Division in C rounds toward zero. *)
Quotient(n, d) == IF n >= 0 THEN n \div d ELSE -((-n) \div d)

(* timeval_difference_msec(): each of the two is in its range, so that the *)
(* branch for a difference of more than a second never is taken.           *)
DifferenceMsec(a, b) == (a.sec - b.sec) * MsecPerSec + Quotient(a.usec - b.usec, UsecPerMsec)

VARIABLES window,       \* the window
          times,        \* tuple -> its real_arrived_time_
          initialized,
          beginning, end,
          tuples,       \* the tuples of the window
          pending,      \* the tuple that enqueue() makes room for
          slides,       \* history: how often the window has slid
          outputs,      \* history: the windows output, [position, tuples]
          dropped       \* history: the tuples enqueue() gave up, or did not keep

vars == <<window, times, initialized, beginning, end, tuples, pending, slides, outputs, dropped>>

Init ==
    /\ window \in Windows
    /\ times = <<>>
    /\ initialized = FALSE
    /\ beginning = AtUsec(0)
    /\ end = AtUsec(0)
    /\ tuples = <<>>
    /\ pending = NoTuple
    /\ slides = 0
    /\ outputs = <<>>
    /\ dropped = {}

IsLate(time, theEnd) == DifferenceMsec(time, theEnd) > 0

(* Mutant: a tuple at the beginning has expired. *)
ExpiredAtBeginning(time, theBeginning) == DifferenceMsec(time, theBeginning) <= 0

IsExpired(time, theBeginning) == DifferenceMsec(time, theBeginning) < 0

(* evict_expired_tuples_() *)
Evicted(theTuples, theBeginning) ==
    Chosen(theTuples, {k \in DOMAIN theTuples : ~IsExpired(times[theTuples[k]], theBeginning)})

(* enqueue() of the next tuple, which is in the current window, or late *)
Enqueue ==
    /\ pending = NoTuple
    /\ Len(times) < MaxTuples
    /\ \E usec \in 0..MaxTime :
        LET tuple == Len(times) + 1
            time == AtUsec(usec)
        IN  /\ times # <<>> => Usecs(times[Len(times)]) <= usec
            /\ times' = Append(times, time)
            /\ initialized' = TRUE
            /\ beginning' = IF initialized THEN beginning ELSE time
            /\ end' = IF initialized THEN end ELSE AddMsec(time, window.width)
            /\ IF IsLate(time, end')
               THEN pending' = tuple /\ UNCHANGED tuples
               ELSE tuples' = Append(tuples, tuple) /\ UNCHANGED pending
    /\ UNCHANGED <<window, slides, outputs, dropped>>

(* Mutant: a single tuple is no window. *)
NotifyOfSeveral ==
    outputs' = IF Len(tuples) <= 1 THEN outputs
               ELSE Append(outputs, [position |-> slides, tuples |-> tuples])

(* acceptance_notification_(), unless there is no tuple *)
Notify ==
    outputs' = IF tuples = <<>> THEN outputs
               ELSE Append(outputs, [position |-> slides, tuples |-> tuples])

(* Mutant: the end stays where it was. *)
SlideBeginning ==
    /\ pending # NoTuple
    /\ IsLate(times[pending], end)
    /\ Notify
    /\ slides < MaxTime
    /\ slides' = slides + 1
    /\ beginning' = AddMsec(beginning, window.stride)
    /\ tuples' = Evicted(tuples, beginning')
    /\ UNCHANGED <<window, times, initialized, end, pending, dropped>>

(* One round of the loop: the window is output and slides on.  As a slide  *)
(* is of a usec at least, it never comes to the bound.                     *)
Slide ==
    /\ pending # NoTuple
    /\ IsLate(times[pending], end)
    /\ Notify
    /\ slides < MaxTime
    /\ slides' = slides + 1
    /\ beginning' = AddMsec(beginning, window.stride)
    /\ end' = AddMsec(beginning', window.width)
    /\ tuples' = Evicted(tuples, beginning')
    /\ UNCHANGED <<window, times, initialized, pending, dropped>>

(* The operator ends its transaction in the call back: what it throws      *)
(* leaves enqueue(), before the window has slid and the tuple has come in. *)
Throw ==
    /\ pending # NoTuple
    /\ IsLate(times[pending], end)
    /\ tuples # <<>>
    /\ Notify
    /\ dropped' = dropped \cup {pending}
    /\ pending' = NoTuple
    /\ UNCHANGED <<window, times, initialized, beginning, end, tuples, slides>>

(* The window has come to the tuple, or, as it slides further than its     *)
(* width, beyond it.                                                       *)
Finish ==
    /\ pending # NoTuple
    /\ ~IsLate(times[pending], end)
    /\ IF IsExpired(times[pending], beginning)
       THEN dropped' = dropped \cup {pending} /\ tuples' = Evicted(tuples, beginning)
       ELSE tuples' = Evicted(Append(tuples, pending), beginning) /\ UNCHANGED dropped
    /\ pending' = NoTuple
    /\ UNCHANGED <<window, times, initialized, beginning, end, slides, outputs>>

Next == Enqueue \/ Slide \/ Throw \/ Finish

Spec == Init /\ [][Next]_vars
FairSpec == Spec /\ WF_vars(Slide \/ Throw \/ Finish)

-----------------------------------------------------------------------------
(* The reference: the windows on a clock that counts microseconds.         *)

Fits(msec) == UsecPerMsec * msec < Modulus
WindowFits == Fits(window.width) /\ Fits(window.stride)

BeginningAt(position) == Usecs(times[1]) + position * UsecPerMsec * window.stride
EndAt(position) == BeginningAt(position) + UsecPerMsec * window.width

Numbers == 1..Len(times)

(* The tuples enqueue() has kept, now or before *)
Kept == Numbers \ (dropped \cup {pending})

IsWithin(tuple, position) ==
    Usecs(times[tuple]) >= BeginningAt(position) /\ Usecs(times[tuple]) <= EndAt(position)

IsNear(tuple, position) ==
    /\ Usecs(times[tuple]) > BeginningAt(position) - UsecPerMsec
    /\ Usecs(times[tuple]) < EndAt(position) + UsecPerMsec

(* However often it slides, the window is where it should be to the        *)
(* microsecond, as long as it is no longer than useconds_t can say         *)
(* (time.h:63-77).                                                         *)
WindowIsExact ==
    initialized /\ WindowFits =>
        Usecs(beginning) = BeginningAt(slides) /\ Usecs(end) = EndAt(slides)

(* A window that is output has every tuple kept of its time, in order, and *)
(* none that is out of it by a millisecond; the latter only if the window  *)
(* slides no further than its width (synopsis.h:297-327).                  *)
WindowsHoldTheirTuples ==
    WindowFits => \A i \in DOMAIN outputs :
        LET output == outputs[i] IN
        /\ \A j, k \in DOMAIN output.tuples : j < k => output.tuples[j] < output.tuples[k]
        /\ \A tuple \in Kept : IsWithin(tuple, output.position) =>
            \E k \in DOMAIN output.tuples : output.tuples[k] = tuple
        /\ window.stride <= window.width =>
            \A k \in DOMAIN output.tuples : IsNear(output.tuples[k], output.position)

(* Every window that has slid away with a tuple in it was output, and in   *)
(* their order; twice only if the operator threw in the meantime.          *)
WindowsAdvance ==
    WindowFits =>
        /\ \A position \in 0..(slides - 1) :
            (\E tuple \in Kept : IsWithin(tuple, position)) =>
                \E i \in DOMAIN outputs : outputs[i].position = position
        /\ \A i, j \in DOMAIN outputs : i < j =>
            \/ outputs[i].position < outputs[j].position
            \/ outputs[i].position = outputs[j].position /\ dropped # {}

(* A tuple that comes after a long time finds its window: enqueue() comes  *)
(* back, with the stride that is left of it when useconds_t wraps          *)
(* (synopsis.h:308-318).                                                   *)
EnqueueReturns == []<>(pending = NoTuple)
=============================================================================
