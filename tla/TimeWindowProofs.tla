-------------------------- MODULE TimeWindowProofs --------------------------
(***************************************************************************)
(* Theorems about TimeWindow, for all units, windows and times of arrival. *)
(***************************************************************************)
EXTENDS TimeWindow, SubsequenceTheorems

LEMMA UnitsType == UsecPerSec \in Nat \ {0}
  BY TimeAssumption DEF UsecPerSec

LEMMA DivMod == ASSUME NEW n \in Nat, NEW d \in Nat \ {0}
                PROVE  /\ n \div d \in Nat
                       /\ n % d \in 0..(d - 1)
                       /\ n = (n \div d) * d + (n % d)
  OBVIOUS

LEMMA InUsecType == ASSUME NEW msec \in Nat PROVE InUsec(msec) \in Nat
  BY TimeAssumption DEF InUsec

LEMMA Distributes == ASSUME NEW a \in Nat, NEW b \in Nat, NEW d \in Nat
                     PROVE  /\ (a + b) * d = a * d + b * d
                            /\ (a + 1) * d = a * d + d
                            /\ a * d \in Nat
  OBVIOUS

(* The carry: whole seconds q and the rest r are added to a timeval of sec *)
(* and usec, for a second of d microseconds.                               *)
LEMMA Carry ==
    ASSUME NEW sec \in Nat, NEW q \in Nat, NEW d \in Nat \ {0},
           NEW usec \in 0..(d - 1), NEW r \in 0..(d - 1), usec + r >= d
    PROVE  /\ (usec + r) - d \in 0..(d - 1)
           /\ (sec + q + 1) * d + ((usec + r) - d) = (sec * d + usec) + (q * d + r)
  <1>1. (sec + q) * d = sec * d + q * d
    BY Distributes
  <1>2. (sec + q + 1) * d = sec * d + q * d + d
    BY <1>1, Distributes, sec + q \in Nat
  <1>3. sec * d \in Nat /\ q * d \in Nat
    BY Distributes
  <1> QED
    BY <1>1, <1>2, <1>3

LEMMA NoCarry ==
    ASSUME NEW sec \in Nat, NEW q \in Nat, NEW d \in Nat \ {0},
           NEW usec \in 0..(d - 1), NEW r \in 0..(d - 1), ~(usec + r >= d)
    PROVE  /\ usec + r \in 0..(d - 1)
           /\ (sec + q) * d + (usec + r) = (sec * d + usec) + (q * d + r)
  <1>1. (sec + q) * d = sec * d + q * d
    BY Distributes
  <1>2. sec * d \in Nat /\ q * d \in Nat
    BY Distributes
  <1> QED
    BY <1>1, <1>2

(* timeval_add_msec() gives a timeval that is later by what is left of the *)
(* milliseconds in a useconds_t (time.h:63-77).                            *)
THEOREM AddMsecIsExact ==
    ASSUME NEW time \in Timeval, NEW msec \in Nat
    PROVE  /\ AddMsec(time, msec) \in Timeval
           /\ Usecs(AddMsec(time, msec)) = Usecs(time) + InUsec(msec)
  <1>1. UsecPerSec \in Nat \ {0} /\ InUsec(msec) \in Nat
    BY UnitsType, InUsecType
  <1> DEFINE q == InUsec(msec) \div UsecPerSec
             r == InUsec(msec) % UsecPerSec
  <1>2. q \in Nat /\ r \in 0..(UsecPerSec - 1) /\ InUsec(msec) = q * UsecPerSec + r
    BY <1>1, DivMod
  <1>3. time.sec \in Nat /\ time.usec \in 0..(UsecPerSec - 1)
    BY DEF Timeval
  <1>4. AddMsec(time, msec) = IF time.usec + r >= UsecPerSec
                              THEN [sec |-> time.sec + q + 1, usec |-> (time.usec + r) - UsecPerSec]
                              ELSE [sec |-> time.sec + q, usec |-> time.usec + r]
    BY Zenon DEF AddMsec
  <1> HIDE DEF q, r
  <1>5. CASE time.usec + r >= UsecPerSec
    <2>1. AddMsec(time, msec) = [sec |-> time.sec + q + 1, usec |-> (time.usec + r) - UsecPerSec]
      BY <1>4, <1>5
    <2>2. AddMsec(time, msec) \in Timeval
      BY <1>1, <1>2, <1>3, <1>5, <2>1, Carry DEF Timeval
    <2>3. Usecs(AddMsec(time, msec)) = (time.sec + q + 1) * UsecPerSec + ((time.usec + r) - UsecPerSec)
      BY <2>1 DEF Usecs
    <2>4. @ = (time.sec * UsecPerSec + time.usec) + (q * UsecPerSec + r)
      BY <1>1, <1>2, <1>3, <1>5, Carry
    <2> QED
      BY <1>2, <2>2, <2>3, <2>4, Zenon DEF Usecs
  <1>6. CASE ~(time.usec + r >= UsecPerSec)
    <2>1. AddMsec(time, msec) = [sec |-> time.sec + q, usec |-> time.usec + r]
      BY <1>4, <1>6
    <2>2. AddMsec(time, msec) \in Timeval
      BY <1>1, <1>2, <1>3, <1>6, <2>1, NoCarry DEF Timeval
    <2>3. Usecs(AddMsec(time, msec)) = (time.sec + q) * UsecPerSec + (time.usec + r)
      BY <2>1 DEF Usecs
    <2>4. @ = (time.sec * UsecPerSec + time.usec) + (q * UsecPerSec + r)
      BY <1>1, <1>2, <1>3, <1>6, NoCarry
    <2> QED
      BY <1>2, <2>2, <2>3, <2>4, Zenon DEF Usecs
  <1> QED
    BY <1>5, <1>6

LEMMA AtUsecIsExact ==
    ASSUME NEW usec \in Nat
    PROVE  AtUsec(usec) \in Timeval /\ Usecs(AtUsec(usec)) = usec
  <1>1. /\ usec \div UsecPerSec \in Nat
        /\ usec % UsecPerSec \in 0..(UsecPerSec - 1)
        /\ usec = (usec \div UsecPerSec) * UsecPerSec + (usec % UsecPerSec)
    BY UnitsType, DivMod
  <1> QED
    BY <1>1 DEF AtUsec, Usecs, Timeval

LEMMA FitsIsExact ==
    ASSUME NEW msec \in Nat, Fits(msec)
    PROVE  InUsec(msec) = UsecPerMsec * msec
  <1>1. UsecPerMsec * msec \in Nat
    BY TimeAssumption
  <1> QED
    BY <1>1, TimeAssumption DEF Fits, InUsec

LEMMA OneMore == ASSUME NEW a \in Nat, NEW b \in Nat, NEW c \in Nat
                 PROVE  (a + 1) * b * c = a * b * c + b * c
  <1>1. (a + 1) * b = a * b + b /\ a * b \in Nat
    BY Distributes
  <1> QED
    BY <1>1, Distributes

-----------------------------------------------------------------------------
(* What WindowIsExact needs to be inductive: the timevals are normalised,  *)
(* and nothing has slid before the first tuple.                            *)
Timed ==
    /\ window \in [width : Nat, stride : Nat]
    /\ times \in Seq(Timeval)
    /\ beginning \in Timeval /\ end \in Timeval
    /\ slides \in Nat
    /\ initialized => times # <<>>
    /\ ~initialized => slides = 0 /\ pending = NoTuple /\ times = <<>>

Inv == Timed /\ WindowIsExact

LEMMA Initially == Init => Inv
  <1> SUFFICES ASSUME Init PROVE Inv
    OBVIOUS
  <1>1. AtUsec(0) \in Timeval
    BY AtUsecIsExact
  <1>2. window \in [width : Nat, stride : Nat]
    BY TimeAssumption DEF Init
  <1> QED
    BY <1>1, <1>2 DEF Init, Inv, Timed, WindowIsExact

(* A window that is as wide as it should be ends where it should. *)
LEMMA EndIsExact ==
    ASSUME NEW time \in Timeval, NEW width \in Nat, Fits(width)
    PROVE  Usecs(AddMsec(time, width)) = Usecs(time) + UsecPerMsec * width
  BY AddMsecIsExact, FitsIsExact

LEMMA EnqueueKeeps == Inv /\ Enqueue => Inv'
  <1> SUFFICES ASSUME Inv, Enqueue PROVE Inv'
    OBVIOUS
  <1> USE DEF Inv, Timed
  <1>1. PICK usec \in 0..MaxTime :
            /\ times' = Append(times, AtUsec(usec))
            /\ initialized' = TRUE
            /\ beginning' = IF initialized THEN beginning ELSE AtUsec(usec)
            /\ end' = IF initialized THEN end ELSE AddMsec(AtUsec(usec), window.width)
    BY DEF Enqueue
  <1>2. window' = window /\ slides' = slides
    BY DEF Enqueue
  <1>3. AtUsec(usec) \in Timeval
    BY AtUsecIsExact, TimeAssumption
  <1>4. window.width \in Nat /\ AddMsec(AtUsec(usec), window.width) \in Timeval
    BY <1>3, AddMsecIsExact
  <1>5. Timed'
    BY <1>1, <1>2, <1>3, <1>4
  <1>6. WindowIsExact'
    <2>1. CASE initialized
      <3>1. times'[1] = times[1]
        BY <1>1, <1>3, <2>1
      <3> QED
        BY <1>1, <1>2, <2>1, <3>1 DEF WindowIsExact, WindowFits, Fits, BeginningAt, EndAt, Usecs
    <2>2. CASE ~initialized
      <3> SUFFICES ASSUME WindowFits
                   PROVE  (Usecs(beginning) = BeginningAt(slides) /\ Usecs(end) = EndAt(slides))'
        BY <1>2 DEF WindowIsExact, WindowFits, Fits
      <3>1. times'[1] = AtUsec(usec) /\ slides' = 0
        BY <1>1, <1>2, <1>3, <2>2
      <3>2. 0 * UsecPerMsec * window.stride = 0
        BY TimeAssumption
      <3>3. Usecs(AtUsec(usec)) \in Nat
        BY AtUsecIsExact, TimeAssumption
      <3>4. BeginningAt(slides)' = Usecs(AtUsec(usec))
        BY <1>2, <3>1, <3>2, <3>3 DEF BeginningAt, Usecs
      <3>5. EndAt(slides)' = Usecs(AtUsec(usec)) + UsecPerMsec * window.width
        BY <1>2, <3>4 DEF EndAt
      <3>6. Usecs(AddMsec(AtUsec(usec), window.width)) = Usecs(AtUsec(usec)) + UsecPerMsec * window.width
        BY <1>3, <1>4, EndIsExact DEF WindowFits
      <3> QED
        BY <1>1, <2>2, <3>4, <3>5, <3>6 DEF Usecs
    <2> QED
      BY <2>1, <2>2
  <1> QED
    BY <1>5, <1>6

LEMMA SlideKeeps == Inv /\ Slide => Inv'
  <1> SUFFICES ASSUME Inv, Slide PROVE Inv'
    OBVIOUS
  <1> USE DEF Inv, Timed
  <1>1. /\ pending # NoTuple
        /\ slides' = slides + 1
        /\ beginning' = AddMsec(beginning, window.stride)
        /\ end' = AddMsec(beginning', window.width)
        /\ window' = window /\ times' = times /\ initialized' = initialized /\ pending' = pending
    BY DEF Slide
  <1>2. window.width \in Nat /\ window.stride \in Nat
    OBVIOUS
  <1>3. beginning' \in Timeval /\ end' \in Timeval
    BY <1>1, <1>2, AddMsecIsExact
  <1>4. Timed'
    BY <1>1, <1>3
  <1>5. WindowIsExact'
    <2> SUFFICES ASSUME WindowFits
                 PROVE  (Usecs(beginning) = BeginningAt(slides) /\ Usecs(end) = EndAt(slides))'
      BY <1>1 DEF WindowIsExact, WindowFits, Fits
    <2>1. Usecs(beginning) = BeginningAt(slides)
      BY <1>1 DEF WindowIsExact
    <2>2. Usecs(AddMsec(beginning, window.stride)) = Usecs(beginning) + UsecPerMsec * window.stride
      BY <1>2, EndIsExact DEF WindowFits
    <2>3. (slides + 1) * UsecPerMsec * window.stride
              = slides * UsecPerMsec * window.stride + UsecPerMsec * window.stride
      BY <1>2, OneMore, TimeAssumption
    <2>4. /\ Usecs(times[1]) \in Int
          /\ slides * UsecPerMsec * window.stride \in Int
          /\ UsecPerMsec * window.stride \in Int
      <3>1. times[1] \in Timeval
        BY <1>1
      <3>2. times[1].sec * UsecPerSec \in Nat
        BY <3>1, Distributes, UnitsType DEF Timeval
      <3>3. times[1].usec \in Nat
        BY <3>1, UnitsType DEF Timeval
      <3> QED
        BY <1>2, <3>2, <3>3, Distributes, TimeAssumption DEF Usecs
    <2>5. BeginningAt(slides)' = Usecs(times[1]) + (slides + 1) * UsecPerMsec * window.stride
      BY <1>1 DEF BeginningAt, Usecs
    <2>6. BeginningAt(slides) = Usecs(times[1]) + slides * UsecPerMsec * window.stride
      BY DEF BeginningAt
    <2>7. Usecs(beginning)' = BeginningAt(slides)'
      <3>1. Usecs(beginning)' = Usecs(AddMsec(beginning, window.stride))
        BY <1>1 DEF Usecs
      <3> QED
        BY <2>1, <2>2, <2>3, <2>4, <2>5, <2>6, <3>1
    <2>8. Usecs(end)' = Usecs(beginning)' + UsecPerMsec * window.width
      <3>1. Usecs(AddMsec(beginning', window.width)) = Usecs(beginning') + UsecPerMsec * window.width
        BY <1>2, <1>3, EndIsExact DEF WindowFits
      <3> QED
        BY <1>1, <3>1 DEF Usecs
    <2>9. EndAt(slides)' = BeginningAt(slides)' + UsecPerMsec * window.width
      BY <1>1 DEF EndAt
    <2> QED
      BY <2>7, <2>8, <2>9
  <1> QED
    BY <1>4, <1>5

LEMMA OthersKeep == Inv /\ (Throw \/ Finish \/ UNCHANGED vars) => Inv'
  <1> SUFFICES ASSUME Inv, Throw \/ Finish \/ UNCHANGED vars PROVE Inv'
    OBVIOUS
  <1>1. /\ window' = window /\ times' = times /\ initialized' = initialized
        /\ beginning' = beginning /\ end' = end /\ slides' = slides
    BY DEF Throw, Finish, vars
  <1>2. pending' = pending \/ pending' = NoTuple
    BY DEF Throw, Finish, vars
  <1>3. Timed'
    BY <1>1, <1>2 DEF Inv, Timed
  <1>4. WindowIsExact'
    BY <1>1 DEF Inv, WindowIsExact, WindowFits, Fits, BeginningAt, EndAt, Usecs
  <1> QED
    BY <1>3, <1>4 DEF Inv

(* A time-based window never drifts: after any number of slides it begins  *)
(* and ends where it should, for all units, widths and strides that        *)
(* useconds_t can say (time.h:63-77, synopsis.h:329-343).                  *)
THEOREM WindowNeverDrifts == Spec => []WindowIsExact
  <1>1. Inv /\ [Next]_vars => Inv'
    BY EnqueueKeeps, SlideKeeps, OthersKeep DEF Next
  <1>2. Inv => WindowIsExact
    BY DEF Inv
  <1> QED
    BY Initially, <1>1, <1>2, PTL DEF Spec

-----------------------------------------------------------------------------
(* The difference of two times in milliseconds                             *)
LEMMA UsecsType ==
    ASSUME NEW time \in Timeval
    PROVE  Usecs(time) \in Nat
  <1>1. time.sec \in Nat /\ time.usec \in Nat
    BY UnitsType DEF Timeval
  <1>2. time.sec * UsecPerSec \in Nat
    BY <1>1, Distributes, UnitsType
  <1> QED
    BY <1>1, <1>2 DEF Usecs

LEMMA QuotientBounds ==
    ASSUME NEW n \in Int, NEW d \in Nat \ {0}
    PROVE  /\ Quotient(n, d) \in Int
           /\ (Quotient(n, d) - 1) * d < n /\ n < (Quotient(n, d) + 1) * d
  <1>1. CASE n >= 0
    <2>1. n \div d \in Nat /\ n = (n \div d) * d + (n % d) /\ n % d \in 0..(d - 1)
      BY <1>1, DivMod, n \in Nat
    <2>2. Quotient(n, d) = n \div d
      BY <1>1 DEF Quotient
    <2> DEFINE q == n \div d
    <2> HIDE DEF q
    <2>3. q \in Nat /\ q * d \in Nat /\ q * d <= n /\ n < q * d + d
      BY <2>1 DEF q
    <2>4. (q + 1) * d = q * d + d /\ (q - 1) * d = q * d - d
      BY ONLY <2>3, d \in Nat
    <2> QED
      BY <2>2, <2>3, <2>4 DEF q
  <1>2. CASE ~(n >= 0)
    <2>1. (-n) \div d \in Nat /\ -n = ((-n) \div d) * d + ((-n) % d) /\ (-n) % d \in 0..(d - 1)
      BY <1>2, DivMod, -n \in Nat
    <2>2. Quotient(n, d) = -((-n) \div d)
      BY <1>2 DEF Quotient
    <2> DEFINE q == (-n) \div d
    <2> HIDE DEF q
    <2>3. q \in Nat /\ q * d \in Nat /\ q * d <= -n /\ -n < q * d + d
      BY <2>1 DEF q
    <2>4. (-q + 1) * d = -(q * d) + d /\ (-q - 1) * d = -(q * d) - d
      BY ONLY <2>3, d \in Nat
    <2> QED
      BY <2>2, <2>3, <2>4 DEF q
  <1> QED
    BY <1>1, <1>2

(* timeval_difference_msec() is less than a millisecond off               *)
(* (time.h:48-61).                                                         *)
LEMMA DifferenceBounds ==
    ASSUME NEW a \in Timeval, NEW b \in Timeval
    PROVE  /\ DifferenceMsec(a, b) \in Int
           /\ (DifferenceMsec(a, b) - 1) * UsecPerMsec < Usecs(a) - Usecs(b)
           /\ Usecs(a) - Usecs(b) < (DifferenceMsec(a, b) + 1) * UsecPerMsec
  <1> DEFINE ds == a.sec - b.sec
             du == a.usec - b.usec
             q == Quotient(du, UsecPerMsec)
             m == ds * MsecPerSec
  <1>1. /\ a.sec \in Int /\ b.sec \in Int /\ a.usec \in Int /\ b.usec \in Int
        /\ ds \in Int /\ du \in Int
    BY UnitsType DEF Timeval
  <1>2. UsecPerMsec \in Nat \ {0} /\ MsecPerSec \in Nat /\ UsecPerSec = MsecPerSec * UsecPerMsec
    BY TimeAssumption DEF UsecPerSec
  <1>3. q \in Int /\ (q - 1) * UsecPerMsec < du /\ du < (q + 1) * UsecPerMsec
    BY <1>1, <1>2, QuotientBounds
  <1>4. DifferenceMsec(a, b) = m + q
    BY DEF DifferenceMsec
  <1>5. Usecs(a) - Usecs(b) = ds * UsecPerSec + du
    <2>1. ASSUME NEW x \in Int, NEW y \in Int, NEW z \in Int PROVE (x - y) * z = x * z - y * z
      OBVIOUS
    <2>2. ds * UsecPerSec = a.sec * UsecPerSec - b.sec * UsecPerSec
      BY <1>1, <2>1, UnitsType
    <2>3. a.sec * UsecPerSec \in Int /\ b.sec * UsecPerSec \in Int
      BY <1>1, UnitsType
    <2> QED
      BY <1>1, <2>2, <2>3 DEF Usecs
  <1>6. m \in Int /\ ds * UsecPerSec = m * UsecPerMsec
    <2>1. ASSUME NEW x \in Int, NEW y \in Int, NEW z \in Int
          PROVE  x * (y * z) = (x * y) * z /\ x * y \in Int
      OBVIOUS
    <2> QED
      BY <1>1, <1>2, <2>1
  <1> HIDE DEF ds, du, q, m
  <1>7. /\ (m + q - 1) * UsecPerMsec = m * UsecPerMsec + (q - 1) * UsecPerMsec
        /\ (m + q + 1) * UsecPerMsec = m * UsecPerMsec + (q + 1) * UsecPerMsec
        /\ m * UsecPerMsec \in Int /\ (q - 1) * UsecPerMsec \in Int /\ (q + 1) * UsecPerMsec \in Int
    BY ONLY <1>2, <1>3, <1>6, UsecPerMsec \in Int
  <1> QED
    BY <1>1, <1>3, <1>4, <1>5, <1>6, <1>7

(* What it says of a tuple to be late for a time, or to have expired.      *)
LEMMA LateAndExpired ==
    ASSUME NEW a \in Timeval, NEW b \in Timeval
    PROVE  /\ IsLate(a, b) => Usecs(a) > Usecs(b)
           /\ ~IsLate(a, b) => Usecs(a) < Usecs(b) + UsecPerMsec
           /\ IsExpired(a, b) => Usecs(a) < Usecs(b)
           /\ ~IsExpired(a, b) => Usecs(a) > Usecs(b) - UsecPerMsec
  <1> DEFINE d == DifferenceMsec(a, b)
  <1>1. /\ d \in Int
        /\ (d - 1) * UsecPerMsec < Usecs(a) - Usecs(b)
        /\ Usecs(a) - Usecs(b) < (d + 1) * UsecPerMsec
    BY DifferenceBounds
  <1>2. Usecs(a) \in Nat /\ Usecs(b) \in Nat /\ UsecPerMsec \in Nat
    BY UsecsType, TimeAssumption
  <1>3. ASSUME NEW x \in Int
        PROVE  /\ x * UsecPerMsec \in Int
               /\ x >= 0 => x * UsecPerMsec >= 0
               /\ x <= 0 => x * UsecPerMsec <= 0
               /\ x <= 1 => x * UsecPerMsec <= UsecPerMsec
               /\ x >= -1 => x * UsecPerMsec >= -UsecPerMsec
    BY <1>2
  <1>4. /\ IsLate(a, b) <=> d > 0
        /\ IsExpired(a, b) <=> d < 0
    BY DEF IsLate, IsExpired
  <1> HIDE DEF d
  <1>5. d - 1 \in Int /\ d + 1 \in Int
    BY <1>1
  <1>6. /\ (d - 1) * UsecPerMsec \in Int /\ (d + 1) * UsecPerMsec \in Int
        /\ d > 0 => (d - 1) * UsecPerMsec >= 0
        /\ ~(d > 0) => (d + 1) * UsecPerMsec <= UsecPerMsec
        /\ d < 0 => (d + 1) * UsecPerMsec <= 0
        /\ ~(d < 0) => (d - 1) * UsecPerMsec >= -UsecPerMsec
    BY <1>1, <1>3, <1>5
  <1> QED
    BY <1>1, <1>2, <1>4, <1>6

-----------------------------------------------------------------------------
(* Where the windows are                                                   *)
LEMMA WindowPlaces ==
    ASSUME Timed, initialized, NEW p \in Nat
    PROVE  /\ BeginningAt(p) \in Nat /\ EndAt(p) \in Nat
           /\ EndAt(p) = BeginningAt(p) + UsecPerMsec * window.width
           /\ BeginningAt(p + 1) = BeginningAt(p) + UsecPerMsec * window.stride
           /\ UsecPerMsec * window.width \in Nat /\ UsecPerMsec * window.stride \in Nat
           /\ BeginningAt(0) = Usecs(times[1])
           /\ window.stride <= window.width =>
                  UsecPerMsec * window.stride <= UsecPerMsec * window.width
  <1>1. window.width \in Nat /\ window.stride \in Nat /\ UsecPerMsec \in Nat
    BY TimeAssumption DEF Timed
  <1>2. Usecs(times[1]) \in Nat
    BY UsecsType DEF Timed
  <1>3. /\ p * UsecPerMsec * window.stride \in Nat
        /\ 0 * UsecPerMsec * window.stride = 0
        /\ UsecPerMsec * window.width \in Nat /\ UsecPerMsec * window.stride \in Nat
    BY <1>1
  <1>4. (p + 1) * UsecPerMsec * window.stride
            = p * UsecPerMsec * window.stride + UsecPerMsec * window.stride
    BY <1>1, OneMore
  <1>5. ASSUME NEW a \in Nat, NEW b \in Nat, NEW c \in Nat, a <= b
        PROVE  c * a <= c * b
    BY <1>5
  <1> DEFINE upTo == p * UsecPerMsec * window.stride
             next == (p + 1) * UsecPerMsec * window.stride
             first == 0 * UsecPerMsec * window.stride
             width == UsecPerMsec * window.width
             stride == UsecPerMsec * window.stride
  <1>6. /\ BeginningAt(p) = Usecs(times[1]) + upTo
        /\ BeginningAt(p + 1) = Usecs(times[1]) + next
        /\ BeginningAt(0) = Usecs(times[1]) + first
        /\ EndAt(p) = BeginningAt(p) + width
    BY DEF BeginningAt, EndAt
  <1>7. window.stride <= window.width => stride <= width
    BY <1>1, <1>5
  <1>8. upTo \in Nat /\ first = 0 /\ width \in Nat /\ stride \in Nat /\ next = upTo + stride
    BY <1>3, <1>4
  <1> HIDE DEF upTo, next, first, width, stride
  <1>9. /\ BeginningAt(p) \in Nat /\ EndAt(p) \in Nat
        /\ EndAt(p) = BeginningAt(p) + width
        /\ BeginningAt(p + 1) = BeginningAt(p) + stride
        /\ BeginningAt(0) = Usecs(times[1])
    BY <1>2, <1>6, <1>8
  <1> QED
    BY <1>7, <1>8, <1>9 DEF width, stride

(* A later window ends no earlier. *)
LEMMA EndsInOrder ==
    ASSUME Timed, initialized, NEW p \in Nat, NEW q \in Nat, p <= q
    PROVE  EndAt(p) <= EndAt(q) /\ BeginningAt(p) <= BeginningAt(q)
  <1>1. window.stride \in Nat /\ UsecPerMsec \in Nat /\ Usecs(times[1]) \in Nat
    BY UsecsType, TimeAssumption DEF Timed
  <1>2. ASSUME NEW a \in Nat, NEW b \in Nat, NEW c \in Nat, a <= b
        PROVE  a * c <= b * c /\ a * c \in Nat /\ b * c \in Nat
    BY <1>2
  <1>3. /\ p * UsecPerMsec <= q * UsecPerMsec
        /\ p * UsecPerMsec \in Nat /\ q * UsecPerMsec \in Nat
    BY <1>1, <1>2
  <1> DEFINE upToP == p * UsecPerMsec * window.stride
             upToQ == q * UsecPerMsec * window.stride
  <1>4. upToP <= upToQ /\ upToP \in Nat /\ upToQ \in Nat
    BY <1>1, <1>2, <1>3
  <1>5. BeginningAt(p) = Usecs(times[1]) + upToP /\ BeginningAt(q) = Usecs(times[1]) + upToQ
    BY DEF BeginningAt
  <1> HIDE DEF upToP, upToQ
  <1>6. BeginningAt(p) <= BeginningAt(q)
    BY <1>1, <1>4, <1>5
  <1> QED
    BY <1>6, WindowPlaces

Increasing(seq) == \A j, k \in DOMAIN seq : j < k => seq[j] < seq[k]

(* evict_expired_tuples_() keeps the order, and just what has not expired. *)
LEMMA EvictedTuples ==
    ASSUME NEW seq \in Seq(Nat), Increasing(seq), NEW begin, NEW kept, kept = Evicted(seq, begin)
    PROVE  /\ kept \in Seq(Nat) /\ Increasing(kept)
           /\ \A k \in DOMAIN kept : \E m \in DOMAIN seq :
                  seq[m] = kept[k] /\ ~IsExpired(times[seq[m]], begin)
           /\ \A m \in DOMAIN seq : ~IsExpired(times[seq[m]], begin) =>
                  \E k \in DOMAIN kept : kept[k] = seq[m]
  <1> DEFINE P == {k \in DOMAIN seq : ~IsExpired(times[seq[k]], begin)}
             len == Len(seq)
  <1>1. kept = Chosen(seq, P)
    BY DEF Evicted
  <1>2. P \in SUBSET DOMAIN seq
    OBVIOUS
  <1>3. len \in Nat /\ DOMAIN seq = 1..len /\ \A m \in P : m \in 0..len
    OBVIOUS
  <1> HIDE DEF P, len
  <1>4. /\ kept \in Seq(Nat) /\ Len(kept) = Cardinality(P)
        /\ \A n \in 1..Cardinality(P) : Nth(P, n) \in P /\ kept[n] = seq[Nth(P, n)]
        /\ \A k \in P : \E n \in 1..Cardinality(P) : kept[n] = seq[k]
    <2>1. /\ Chosen(seq, P) \in Seq(Nat)
          /\ Len(Chosen(seq, P)) = Cardinality(P)
          /\ \A n \in 1..Cardinality(P) : Nth(P, n) \in P /\ Chosen(seq, P)[n] = seq[Nth(P, n)]
          /\ \A k \in P : \E n \in 1..Cardinality(P) : Chosen(seq, P)[n] = seq[k]
      BY <1>2, ChosenProperties
    <2> QED
      BY <1>1, <2>1, Zenon
  <1>5. DOMAIN kept = 1..Cardinality(P)
    BY <1>4, LenProperties
  <1>6. ASSUME NEW j \in DOMAIN kept, NEW k \in DOMAIN kept, j < k
        PROVE  kept[j] < kept[k]
    <2>1. Nth(P, j) < Nth(P, k)
      BY <1>3, <1>5, <1>6, NthIncreases
    <2>2. Nth(P, j) \in DOMAIN seq /\ Nth(P, k) \in DOMAIN seq
      BY <1>2, <1>4, <1>5
    <2>3. seq[Nth(P, j)] < seq[Nth(P, k)]
      BY <2>1, <2>2 DEF Increasing
    <2> QED
      BY <1>4, <1>5, <2>3
  <1>7. ASSUME NEW k \in DOMAIN kept
        PROVE  \E m \in DOMAIN seq : seq[m] = kept[k] /\ ~IsExpired(times[seq[m]], begin)
    BY <1>4, <1>5 DEF P
  <1>8. ASSUME NEW m \in DOMAIN seq, ~IsExpired(times[seq[m]], begin)
        PROVE  \E k \in DOMAIN kept : kept[k] = seq[m]
    <2>1. m \in P
      BY <1>8 DEF P
    <2> QED
      BY <1>4, <1>5, <2>1
  <1> QED
    BY <1>4, <1>6, <1>7, <1>8 DEF Increasing

-----------------------------------------------------------------------------
(* What WindowsHoldTheirTuples and WindowsAdvance need.  The tuples of the *)
(* window are in the order of their numbers, and the one that enqueue() is *)
(* making room for is the latest.                                          *)
Numbered ==
    /\ tuples \in Seq(Nat) /\ Increasing(tuples)
    /\ outputs \in Seq([position : Nat, tuples : Seq(Nat)])
    /\ dropped \subseteq Numbers /\ Len(times) <= MaxTuples
    /\ pending # NoTuple => initialized /\ pending = Len(times)
    /\ \A k \in DOMAIN tuples : tuples[k] \in Numbers \ {pending}
    /\ \A i \in DOMAIN outputs : \A k \in DOMAIN outputs[i].tuples : outputs[i].tuples[k] \in Numbers
    /\ ~initialized => tuples = <<>> /\ outputs = <<>> /\ dropped = {}

Latest == Usecs(times[Len(times)])

(* The window that is being filled has what a window that is output must   *)
(* have, with every tuple kept that is not before it.  It has slid only    *)
(* for a tuple behind the window before.                                   *)
HasItsTuples ==
    /\ \A tuple \in Kept : Usecs(times[tuple]) >= BeginningAt(slides) =>
           \E k \in DOMAIN tuples : tuples[k] = tuple
    /\ \A k \in DOMAIN tuples : Usecs(times[tuples[k]]) < EndAt(slides) + UsecPerMsec
    /\ window.stride <= window.width =>
           /\ Latest >= BeginningAt(slides)
           /\ \A k \in DOMAIN tuples : Usecs(times[tuples[k]]) > BeginningAt(slides) - UsecPerMsec
    /\ slides > 0 => Latest > EndAt(slides - 1)

(* A window is output for a tuple behind it. *)
OutputsPassed ==
    \A i \in DOMAIN outputs :
        /\ \/ outputs[i].position < slides
           \/ outputs[i].position = slides /\ dropped # {}
        /\ Latest > EndAt(outputs[i].position)

Holds(output) ==
    /\ Increasing(output.tuples)
    /\ \A tuple \in Kept : IsWithin(tuple, output.position) =>
           \E k \in DOMAIN output.tuples : output.tuples[k] = tuple
    /\ window.stride <= window.width =>
           \A k \in DOMAIN output.tuples : IsNear(output.tuples[k], output.position)

SlidWindowsOutput ==
    \A position \in 0..(slides - 1) : \A tuple \in Kept : IsWithin(tuple, position) =>
        \E i \in DOMAIN outputs : outputs[i].position = position

OutputsInOrder ==
    \A i, j \in DOMAIN outputs : i < j =>
        \/ outputs[i].position < outputs[j].position
        \/ outputs[i].position = outputs[j].position /\ dropped # {}

(* All of it, of a window that fits *)
Filled ==
    /\ HasItsTuples /\ OutputsPassed
    /\ \A i \in DOMAIN outputs : Holds(outputs[i])
    /\ SlidWindowsOutput /\ OutputsInOrder

HoldInv == Inv /\ Numbered /\ (WindowFits /\ initialized => Filled)

LEMMA FilledIsEnough == HoldInv => WindowsHoldTheirTuples /\ WindowsAdvance
  <1> SUFFICES ASSUME HoldInv
               PROVE  WindowsHoldTheirTuples /\ WindowsAdvance
    OBVIOUS
  <1>1. CASE initialized
    <2>1. WindowFits => Filled
      BY <1>1 DEF HoldInv
    <2>2. WindowsHoldTheirTuples
      BY <2>1 DEF Filled, WindowsHoldTheirTuples, Holds, Increasing
    <2>3. WindowsAdvance
      BY <2>1 DEF Filled, WindowsAdvance, SlidWindowsOutput, OutputsInOrder
    <2> QED
      BY <2>2, <2>3
  <1>2. CASE ~initialized
    <2>1. outputs = <<>> /\ slides = 0
      BY <1>2 DEF HoldInv, Numbered, Inv, Timed
    <2> QED
      BY <2>1 DEF WindowsHoldTheirTuples, WindowsAdvance
  <1> QED
    BY <1>1, <1>2

LEMMA HoldInitially == Init => HoldInv
  <1> SUFFICES ASSUME Init
               PROVE  HoldInv
    OBVIOUS
  <1>1. Inv /\ ~initialized
    BY Initially DEF Init
  <1>2. Numbered
    BY TimeAssumption DEF Init, Numbered, Increasing, Numbers
  <1> QED
    BY <1>1, <1>2 DEF HoldInv

(* A tuple that comes in changes nothing of the times before. *)
LEMMA OldTimes ==
    ASSUME Timed, initialized, NEW t \in Timeval, times' = Append(times, t), window' = window,
           NEW n, n = Len(times) + 1
    PROVE  /\ Numbers' = Numbers \cup {n}
           /\ n \notin Numbers /\ Len(times) \in Numbers
           /\ times'[n] = t /\ Latest' = Usecs(t)
           /\ \A k \in Numbers : times'[k] = times[k]
           /\ \A p : BeginningAt(p)' = BeginningAt(p) /\ EndAt(p)' = EndAt(p)
           /\ \A p : \A k \in Numbers : /\ IsWithin(k, p)' <=> IsWithin(k, p)
                                        /\ IsNear(k, p)' <=> IsNear(k, p)
           /\ \A p : IsWithin(n, p)' => Usecs(t) <= EndAt(p)
  <1>1. times \in Seq(Timeval) /\ Len(times) \in Nat /\ Len(times) >= 1
    BY DEF Timed
  <1>2. /\ Len(times') = n /\ times'[n] = t
        /\ \A k \in 1..Len(times) : times'[k] = times[k]
    BY <1>1
  <1>3. /\ Numbers' = Numbers \cup {n}
        /\ n \notin Numbers /\ Len(times) \in Numbers
    BY <1>1, <1>2 DEF Numbers
  <1>4. Latest' = Usecs(t)
    BY <1>2 DEF Latest, Usecs
  <1>5. \A p : BeginningAt(p)' = BeginningAt(p) /\ EndAt(p)' = EndAt(p)
    BY <1>1, <1>2 DEF BeginningAt, EndAt, Usecs
  <1>6. \A k \in Numbers : times'[k] = times[k]
    BY <1>2 DEF Numbers
  <1>7. \A k \in Numbers : Usecs(times[k])' = Usecs(times[k])
    BY <1>6 DEF Usecs
  <1>8. ASSUME NEW p, NEW k \in Numbers
        PROVE  (IsWithin(k, p)' <=> IsWithin(k, p)) /\ (IsNear(k, p)' <=> IsNear(k, p))
    BY <1>5, <1>7 DEF IsWithin, IsNear
  <1>9. ASSUME NEW p, IsWithin(n, p)'
        PROVE  Usecs(t) <= EndAt(p)
    BY <1>2, <1>5, <1>9 DEF IsWithin, Usecs
  <1> QED
    BY <1>2, <1>3, <1>4, <1>5, <1>6, <1>8, <1>9

(* A tuple goes to the end of the window, after those of lower numbers.    *)
LEMMA IncreasingAppended ==
    ASSUME NEW seq \in Seq(Nat), Increasing(seq), NEW n \in Nat, \A k \in DOMAIN seq : seq[k] < n
    PROVE  /\ Append(seq, n) \in Seq(Nat) /\ Increasing(Append(seq, n))
           /\ DOMAIN Append(seq, n) = DOMAIN seq \cup {Len(seq) + 1}
           /\ Append(seq, n)[Len(seq) + 1] = n
           /\ \A k \in DOMAIN seq : Append(seq, n)[k] = seq[k]
  <1> DEFINE longer == Append(seq, n)
  <1>1. /\ longer \in Seq(Nat) /\ DOMAIN longer = 1..Len(seq) + 1 /\ DOMAIN seq = 1..Len(seq)
        /\ Len(seq) \in Nat
        /\ longer[Len(seq) + 1] = n /\ \A k \in 1..Len(seq) : longer[k] = seq[k]
    OBVIOUS
  <1> HIDE DEF longer
  <1>2. DOMAIN longer = DOMAIN seq \cup {Len(seq) + 1}
    BY <1>1
  <1>3. ASSUME NEW j \in DOMAIN longer, NEW k \in DOMAIN longer, j < k
        PROVE  longer[j] < longer[k]
    <2>1. j \in DOMAIN seq /\ j \in Nat
      BY <1>1, <1>3
    <2>2. CASE k \in DOMAIN seq
      BY <1>1, <1>3, <2>1, <2>2 DEF Increasing
    <2>3. CASE k = Len(seq) + 1
      BY <1>1, <2>1, <2>3
    <2> QED
      BY <1>1, <1>3, <2>2, <2>3
  <1> QED
    BY <1>1, <1>2, <1>3 DEF Increasing, longer

LEMMA EnqueueNumbers == HoldInv /\ Enqueue => Numbered'
  <1> SUFFICES ASSUME HoldInv, Enqueue
               PROVE  Numbered'
    OBVIOUS
  <1> DEFINE n == Len(times) + 1
  <1>1. /\ times \in Seq(Timeval) /\ Len(times) \in Nat /\ DOMAIN tuples = 1..Len(tuples)
        /\ Len(tuples) \in Nat
    BY DEF HoldInv, Inv, Timed, Numbered
  <1>2. PICK usec \in 0..MaxTime :
            /\ times' = Append(times, AtUsec(usec))
            /\ \/ pending' = n /\ tuples' = tuples
               \/ pending' = pending /\ tuples' = Append(tuples, n)
    BY DEF Enqueue
  <1>3. /\ pending = NoTuple /\ n <= MaxTuples
        /\ initialized' = TRUE
        /\ window' = window /\ slides' = slides /\ outputs' = outputs /\ dropped' = dropped
    BY <1>1, TimeAssumption DEF Enqueue
  <1>4. AtUsec(usec) \in Timeval
    BY AtUsecIsExact, TimeAssumption
  <1>5. Len(times') = n /\ Numbers' = 1..n
    BY <1>1, <1>2, <1>4 DEF Numbers
  <1>6. /\ tuples \in Seq(Nat) /\ Increasing(tuples)
        /\ \A k \in DOMAIN tuples : tuples[k] \in Numbers
    BY DEF HoldInv, Numbered
  <1>7. NoTuple \notin 1..n
    BY <1>1, <1>3, TimeAssumption
  <1>8. /\ tuples' \in Seq(Nat) /\ Increasing(tuples)'
        /\ \A k \in DOMAIN tuples' : tuples'[k] \in Numbers' \ {pending'}
    <2>1. CASE pending' = n /\ tuples' = tuples
      BY <1>1, <1>5, <1>6, <2>1 DEF Increasing, Numbers
    <2>2. CASE pending' = pending /\ tuples' = Append(tuples, n)
      <3>1. n \in Nat /\ \A k \in DOMAIN tuples : tuples[k] < n
        BY <1>1, <1>6 DEF Numbers
      <3> HIDE DEF n
      <3>2. /\ tuples' \in Seq(Nat) /\ Increasing(tuples')
            /\ DOMAIN tuples' = DOMAIN tuples \cup {Len(tuples) + 1}
            /\ tuples'[Len(tuples) + 1] = n /\ \A k \in DOMAIN tuples : tuples'[k] = tuples[k]
        BY <1>6, <2>2, <3>1, IncreasingAppended
      <3>3. \A k \in DOMAIN tuples' : tuples'[k] \in 1..n
        BY <1>1, <1>6, <3>2 DEF Numbers, n
      <3> QED
        BY <1>3, <1>5, <1>7, <2>2, <3>2, <3>3 DEF Increasing
    <2> QED
      BY <1>2, <2>1, <2>2
  <1>9. /\ dropped' \subseteq Numbers' /\ Len(times') <= MaxTuples
        /\ \A i \in DOMAIN outputs' : \A k \in DOMAIN outputs'[i].tuples :
               outputs'[i].tuples[k] \in Numbers'
    BY <1>1, <1>3, <1>5 DEF HoldInv, Numbered, Numbers
  <1>10. outputs' \in Seq([position : Nat, tuples : Seq(Nat)])
    BY <1>3 DEF HoldInv, Numbered
  <1>11. pending' # NoTuple => pending' = Len(times')
    BY <1>2, <1>3, <1>5
  <1> QED
    BY <1>3, <1>8, <1>9, <1>10, <1>11 DEF Numbered

(* A tuple that comes in when there have been others: whether it is kept   *)
(* or has to wait, it is behind all windows that have been output.         *)
LEMMA EnqueueFills ==
    ASSUME HoldInv, Enqueue, initialized, WindowFits
    PROVE  Filled'
  <1>1. Timed /\ Numbered /\ HasItsTuples /\ OutputsPassed
    BY DEF HoldInv, Inv, Filled
  <1>0. PICK n : n = Len(times) + 1
    OBVIOUS
  <1>2. PICK usec \in 0..MaxTime :
            /\ times # <<>> => Latest <= usec
            /\ times' = Append(times, AtUsec(usec))
            /\ IF IsLate(AtUsec(usec), end)
               THEN pending' = n /\ tuples' = tuples
               ELSE pending' = pending /\ tuples' = Append(tuples, n)
    BY <1>0 DEF Enqueue, Latest
  <1>3. /\ pending = NoTuple /\ window' = window /\ slides' = slides
        /\ outputs' = outputs /\ dropped' = dropped
    BY DEF Enqueue
  <1>4. PICK t : t = AtUsec(usec) /\ t \in Timeval /\ Usecs(t) = usec
    BY AtUsecIsExact, TimeAssumption
  <1>5. /\ Numbers' = Numbers \cup {n} /\ n \notin Numbers /\ Len(times) \in Numbers
        /\ times'[n] = t /\ Latest' = Usecs(t)
        /\ \A k \in Numbers : times'[k] = times[k]
        /\ \A p : BeginningAt(p)' = BeginningAt(p) /\ EndAt(p)' = EndAt(p)
        /\ \A p : \A k \in Numbers : /\ IsWithin(k, p)' <=> IsWithin(k, p)
                                     /\ IsNear(k, p)' <=> IsNear(k, p)
        /\ \A p : IsWithin(n, p)' => Usecs(t) <= EndAt(p)
    BY <1>0, <1>1, <1>2, <1>3, <1>4, OldTimes
  <1>6. Latest <= Latest' /\ Latest \in Nat /\ Latest' \in Nat
    <2>1. times # <<>> /\ Latest \in Nat
      BY <1>1, UsecsType DEF Timed, Latest
    <2> QED
      BY <1>2, <1>4, <1>5, <2>1
  <1>7. \A k \in DOMAIN tuples : tuples[k] \in Numbers
    BY <1>1 DEF Numbered
  <1>8. \A k \in Numbers : Usecs(times'[k]) = Usecs(times[k])
    BY <1>5
  <1>9. slides \in Nat /\ BeginningAt(slides) \in Nat /\ EndAt(slides) \in Nat
    BY <1>1, WindowPlaces DEF Timed
  <1>10. Usecs(end) = EndAt(slides)
    BY DEF HoldInv, Inv, WindowIsExact
  (* The tuples kept, and those of the window *)
  <1>11. /\ \A k \in Kept' : k \in Kept \/ (k = n /\ pending' = pending)
         /\ DOMAIN tuples \subseteq DOMAIN tuples' /\ \A k \in DOMAIN tuples : tuples'[k] = tuples[k]
         /\ pending' = pending => \E k \in DOMAIN tuples' : tuples'[k] = n
         /\ \A k \in DOMAIN tuples' :
                k \notin DOMAIN tuples => tuples'[k] = n /\ ~IsLate(t, end)
    <2>1. n # NoTuple /\ NoTuple \notin Numbers
      BY <1>0, <1>1, TimeAssumption DEF Enqueue, Timed, Numbers, Numbered
    <2>2. CASE IsLate(t, end)
      <3>1. pending' = n /\ tuples' = tuples
        BY <1>2, <1>4, <2>2
      <3>2. \A k \in Kept' : k \in Kept
        BY <1>3, <1>5, <2>1, <3>1 DEF Kept
      <3> QED
        BY <1>3, <2>1, <3>1, <3>2
    <2>3. CASE ~IsLate(t, end)
      <3>1. pending' = pending /\ tuples' = Append(tuples, n)
        BY <1>2, <1>4, <2>3
      <3>2. n \in Nat /\ \A k \in DOMAIN tuples : tuples[k] < n
        BY <1>0, <1>1, <1>7 DEF Numbers, Timed
      <3>3. /\ DOMAIN tuples' = DOMAIN tuples \cup {Len(tuples) + 1}
            /\ tuples'[Len(tuples) + 1] = n /\ \A k \in DOMAIN tuples : tuples'[k] = tuples[k]
        BY <1>1, <3>1, <3>2, IncreasingAppended DEF Numbered
      <3> QED
        BY <1>3, <1>5, <2>1, <2>3, <3>1, <3>3 DEF Kept
    <2> QED
      BY <2>2, <2>3
  <1>12. HasItsTuples'
    <2>1. ASSUME NEW tuple \in Kept', Usecs(times'[tuple]) >= BeginningAt(slides)
          PROVE  \E k \in DOMAIN tuples' : tuples'[k] = tuple
      <3>1. CASE tuple \in Kept
        BY <1>1, <1>8, <1>11, <2>1, <3>1 DEF HasItsTuples, Kept
      <3> QED
        BY <1>11, <2>1, <3>1
    <2>2. ASSUME NEW k \in DOMAIN tuples'
          PROVE  Usecs(times'[tuples'[k]]) < EndAt(slides) + UsecPerMsec
      <3>1. CASE k \in DOMAIN tuples
        BY <1>1, <1>7, <1>8, <1>11, <3>1 DEF HasItsTuples
      <3>2. CASE k \notin DOMAIN tuples
        BY <1>1, <1>4, <1>5, <1>10, <1>11, <3>2, LateAndExpired DEF Timed
      <3> QED
        BY <3>1, <3>2
    <2>3. ASSUME window.stride <= window.width
          PROVE  /\ Latest' >= BeginningAt(slides)
                 /\ \A k \in DOMAIN tuples' :
                        Usecs(times'[tuples'[k]]) > BeginningAt(slides) - UsecPerMsec
      <3>1. Latest' >= BeginningAt(slides)
        BY <1>1, <1>6, <1>9, <2>3 DEF HasItsTuples
      <3>2. ASSUME NEW k \in DOMAIN tuples'
            PROVE  Usecs(times'[tuples'[k]]) > BeginningAt(slides) - UsecPerMsec
        <4>1. CASE k \in DOMAIN tuples
          BY <1>1, <1>7, <1>8, <1>11, <2>3, <4>1 DEF HasItsTuples
        <4>2. CASE k \notin DOMAIN tuples
          BY <1>5, <1>6, <1>9, <1>11, <3>1, <4>2, TimeAssumption
        <4> QED
          BY <4>1, <4>2
      <3> QED
        BY <3>1, <3>2
    <2>4. slides > 0 => Latest' > EndAt(slides - 1)
      <3> SUFFICES ASSUME slides > 0
                   PROVE  Latest' > EndAt(slides - 1)
        OBVIOUS
      <3>1. slides - 1 \in Nat /\ EndAt(slides - 1) \in Nat
        <4>1. slides - 1 \in Nat
          BY <1>9
        <4> QED
          BY <1>1, <4>1, WindowPlaces
      <3> QED
        BY <1>1, <1>6, <3>1 DEF HasItsTuples
    <2> QED
      BY <1>3, <1>5, <2>1, <2>2, <2>3, <2>4 DEF HasItsTuples, Usecs
  <1>13. \A i \in DOMAIN outputs : /\ outputs[i].position \in Nat /\ EndAt(outputs[i].position) \in Nat
                                   /\ Latest' > EndAt(outputs[i].position)
    <2> SUFFICES ASSUME NEW i \in DOMAIN outputs
                 PROVE  /\ outputs[i].position \in Nat /\ EndAt(outputs[i].position) \in Nat
                        /\ Latest' > EndAt(outputs[i].position)
      OBVIOUS
    <2>1. outputs[i].position \in Nat
      <3>1. outputs[i] \in [position : Nat, tuples : Seq(Nat)]
        <4>1. outputs \in Seq([position : Nat, tuples : Seq(Nat)])
          BY <1>1 DEF Numbered
        <4>2. DOMAIN outputs = 1..Len(outputs)
          BY <4>1, LenProperties
        <4> QED
          BY <4>1, <4>2, ElementOfSeq
      <3> QED
        BY <3>1
    <2>2. EndAt(outputs[i].position) \in Nat
      BY <1>1, <2>1, WindowPlaces
    <2> QED
      BY <1>1, <1>6, <2>1, <2>2 DEF OutputsPassed
  <1>14. OutputsPassed'
    BY <1>1, <1>3, <1>5, <1>13 DEF OutputsPassed
  <1>15. ASSUME NEW i \in DOMAIN outputs
         PROVE  Holds(outputs[i])'
    <2>1. Holds(outputs[i])
      BY DEF HoldInv, Filled
    <2>2. ASSUME NEW tuple \in Kept', IsWithin(tuple, outputs[i].position)'
          PROVE  \E k \in DOMAIN outputs[i].tuples : outputs[i].tuples[k] = tuple
      <3>1. tuple # n
        <4>1. tuple = n => Usecs(t) <= EndAt(outputs[i].position)
          BY <1>3, <1>5, <2>2
        <4> QED
          BY <1>5, <1>6, <1>13, <4>1
      <3> QED
        BY <1>3, <1>5, <1>11, <2>1, <2>2, <3>1 DEF Holds, Kept
    <2>3. \A k \in DOMAIN outputs[i].tuples : outputs[i].tuples[k] \in Numbers
      BY <1>1 DEF Numbered
    <2> QED
      BY <1>3, <1>5, <2>1, <2>2, <2>3 DEF Holds, Increasing
  <1>16. SlidWindowsOutput'
    <2> SUFFICES ASSUME NEW position \in 0..(slides - 1), NEW tuple \in Kept',
                        IsWithin(tuple, position)'
                 PROVE  \E i \in DOMAIN outputs : outputs[i].position = position
      BY <1>3 DEF SlidWindowsOutput
    <2>1. /\ slides > 0 /\ slides - 1 \in Nat /\ position \in Nat
          /\ EndAt(position) <= EndAt(slides - 1) /\ Latest > EndAt(slides - 1)
          /\ EndAt(position) \in Nat /\ EndAt(slides - 1) \in Nat
      BY <1>1, <1>9, EndsInOrder, WindowPlaces DEF HasItsTuples
    <2>2. tuple # n
      <3>1. tuple = n => Usecs(t) <= EndAt(position)
        BY <1>5
      <3> QED
        BY <1>5, <1>6, <2>1, <3>1
    <2>3. tuple \in Kept /\ IsWithin(tuple, position)
      BY <1>5, <1>11, <2>2 DEF Kept
    <2> QED
      BY <2>3 DEF HoldInv, Filled, SlidWindowsOutput
  <1>17. OutputsInOrder'
    BY <1>3 DEF HoldInv, Filled, OutputsInOrder
  <1> QED
    BY <1>3, <1>12, <1>14, <1>15, <1>16, <1>17 DEF Filled

(* The first tuple begins the first window. *)
LEMMA FirstFills ==
    ASSUME HoldInv, Enqueue, ~initialized, WindowFits
    PROVE  Filled'
  <1>1. /\ times = <<>> /\ tuples = <<>> /\ outputs = <<>> /\ slides = 0
        /\ window \in [width : Nat, stride : Nat]
    BY DEF HoldInv, Inv, Timed, Numbered
  <1>2. PICK usec \in 0..MaxTime :
            /\ times' = Append(times, AtUsec(usec))
            /\ end' = AddMsec(AtUsec(usec), window.width)
            /\ IF IsLate(AtUsec(usec), end')
               THEN pending' = Len(times) + 1 /\ tuples' = tuples
               ELSE pending' = pending /\ tuples' = Append(tuples, Len(times) + 1)
    BY DEF Enqueue
  <1>3. /\ window' = window /\ slides' = slides /\ outputs' = outputs
    BY DEF Enqueue
  <1>4. PICK t : t = AtUsec(usec) /\ t \in Timeval /\ Usecs(t) = usec
    BY AtUsecIsExact, TimeAssumption
  <1>5. /\ times' = <<t>> /\ Numbers' = {1}
        /\ Latest' = Usecs(t) /\ Usecs(times'[1]) = Usecs(t)
    <2>1. times' = <<t>>
      BY <1>1, <1>2, <1>4
    <2> QED
      BY <2>1 DEF Numbers, Latest, Usecs
  <1>6. PICK width : width = UsecPerMsec * window.width /\ width \in Nat
    BY <1>1, TimeAssumption
  <1>7. BeginningAt(slides)' = Usecs(t) /\ EndAt(slides)' = Usecs(t) + width
    <2>1. 0 * UsecPerMsec * window.stride = 0
      BY <1>1, TimeAssumption
    <2>2. BeginningAt(slides)' = Usecs(times'[1]) + 0 * UsecPerMsec * window.stride
      BY <1>1, <1>3 DEF BeginningAt, Usecs
    <2>3. BeginningAt(slides)' = Usecs(t)
      BY <1>4, <1>5, <2>1, <2>2
    <2> QED
      BY <1>3, <1>6, <2>3 DEF EndAt
  <1>8. Usecs(end') = Usecs(t) + width /\ end' \in Timeval
    BY <1>1, <1>2, <1>4, <1>6, EndIsExact, AddMsecIsExact DEF WindowFits
  <1>9. ~IsLate(t, end')
    BY <1>4, <1>6, <1>8, LateAndExpired
  <1>10. tuples' = <<1>>
    BY <1>1, <1>2, <1>4, <1>9
  <1>11. UsecPerMsec \in Nat \ {0} /\ Usecs(t) \in Nat
    BY <1>4, TimeAssumption
  <1>12. HasItsTuples'
    <2>1. \A tuple \in Kept' : tuple = 1
      BY <1>5 DEF Kept
    <2>2. DOMAIN tuples' = {1} /\ tuples'[1] = 1
      BY <1>10
    <2>3. /\ Usecs(t) < Usecs(t) + width + UsecPerMsec
          /\ Usecs(t) > Usecs(t) - UsecPerMsec /\ Usecs(t) >= Usecs(t)
      BY <1>6, <1>11
    <2>4. \A k \in DOMAIN tuples' : Usecs(times'[tuples'[k]]) = Usecs(t)
      BY <1>5, <2>2
    <2> QED
      BY <1>1, <1>3, <1>5, <1>7, <2>1, <2>2, <2>3, <2>4 DEF HasItsTuples, Usecs
  <1>13. DOMAIN outputs' = {}
    BY <1>1, <1>3
  <1>14. SlidWindowsOutput'
    BY <1>1, <1>3 DEF SlidWindowsOutput
  <1> QED
    BY <1>12, <1>13, <1>14 DEF Filled, OutputsPassed, OutputsInOrder

(* What is the same, when no tuple comes in *)
LEMMA TimesStay ==
    ASSUME times' = times, window' = window
    PROVE  /\ Numbers' = Numbers /\ Latest' = Latest
           /\ \A p : BeginningAt(p)' = BeginningAt(p) /\ EndAt(p)' = EndAt(p)
           /\ \A k, p : (IsWithin(k, p)' <=> IsWithin(k, p)) /\ (IsNear(k, p)' <=> IsNear(k, p))
           /\ \A k : Usecs(times[k])' = Usecs(times[k])
  BY DEF Numbers, Latest, BeginningAt, EndAt, IsWithin, IsNear, Usecs

(* What the window has is what an output of it must have.                  *)
LEMMA WindowHolds ==
    ASSUME HoldInv, initialized, WindowFits, HasItsTuples,
           NEW output, output = [position |-> slides, tuples |-> tuples]
    PROVE  Holds(output)
  <1>1. /\ Increasing(tuples) /\ \A k \in DOMAIN tuples : tuples[k] \in Numbers
        /\ Timed /\ slides \in Nat
    BY DEF HoldInv, Numbered, Inv, Timed
  <1>2. output.position = slides /\ output.tuples = tuples
    OBVIOUS
  <1>3. EndAt(slides) \in Nat /\ BeginningAt(slides) \in Nat
    BY <1>1, WindowPlaces
  <1> QED
    BY <1>1, <1>2 DEF Holds, HasItsTuples, IsWithin, IsNear

LEMMA NotifiedNumbers ==
    ASSUME HoldInv, Notify
    PROVE  /\ outputs' \in Seq([position : Nat, tuples : Seq(Nat)])
           /\ \A i \in DOMAIN outputs' : \A k \in DOMAIN outputs'[i].tuples :
                  outputs'[i].tuples[k] \in Numbers
           /\ DOMAIN outputs \subseteq DOMAIN outputs'
           /\ \A i \in DOMAIN outputs : outputs'[i] = outputs[i]
           /\ \A i \in DOMAIN outputs' : i \notin DOMAIN outputs =>
                  /\ outputs'[i] = [position |-> slides, tuples |-> tuples]
                  /\ \A j \in DOMAIN outputs' : j <= i
           /\ tuples # <<>> => \E i \in DOMAIN outputs' : outputs'[i].position = slides
  <1> DEFINE Out == [position : Nat, tuples : Seq(Nat)]
             new == [position |-> slides, tuples |-> tuples]
  <1>1. /\ outputs \in Seq(Out) /\ slides \in Nat /\ tuples \in Seq(Nat)
        /\ \A k \in DOMAIN tuples : tuples[k] \in Numbers
        /\ \A i \in DOMAIN outputs : \A k \in DOMAIN outputs[i].tuples : outputs[i].tuples[k] \in Numbers
    BY DEF HoldInv, Inv, Timed, Numbered
  <1>2. new \in Out /\ new.position = slides /\ new.tuples = tuples
    BY <1>1
  <1>3. outputs' = IF tuples = <<>> THEN outputs ELSE Append(outputs, new)
    BY DEF Notify
  <1> HIDE DEF Out, new
  <1>4. DOMAIN outputs = 1..Len(outputs) /\ Len(outputs) \in Nat
    BY <1>1
  <1>5. CASE tuples = <<>>
    BY <1>1, <1>3, <1>5 DEF Out
  <1>6. CASE tuples # <<>>
    <2>1. outputs' = Append(outputs, new)
      BY <1>3, <1>6
    <2>2. /\ outputs' \in Seq(Out) /\ DOMAIN outputs' = 1..Len(outputs) + 1
          /\ outputs'[Len(outputs) + 1] = new
          /\ \A i \in 1..Len(outputs) : outputs'[i] = outputs[i]
      BY <1>1, <1>2, <2>1
    <2>3. \A i \in DOMAIN outputs' : i \notin DOMAIN outputs =>
              i = Len(outputs) + 1 /\ \A j \in DOMAIN outputs' : j <= i
      BY <1>4, <2>2
    <2>4. DOMAIN outputs \subseteq DOMAIN outputs' /\ Len(outputs) + 1 \in DOMAIN outputs'
      BY <1>4, <2>2
    <2>5. \A i \in DOMAIN outputs' : i \in DOMAIN outputs \/ outputs'[i] = new
      BY <2>2, <2>3
    <2>6. \A i \in DOMAIN outputs' : \A k \in DOMAIN outputs'[i].tuples :
              outputs'[i].tuples[k] \in Numbers
      <3> SUFFICES ASSUME NEW i \in DOMAIN outputs'
                   PROVE  \A k \in DOMAIN outputs'[i].tuples : outputs'[i].tuples[k] \in Numbers
        OBVIOUS
      <3>1. CASE i \in DOMAIN outputs
        BY <1>1, <1>4, <2>2, <3>1
      <3>2. CASE outputs'[i] = new
        BY <1>1, <1>2, <3>2
      <3> QED
        BY <2>5, <3>1, <3>2
    <2> QED
      BY <1>2, <1>4, <2>2, <2>3, <2>4, <2>6 DEF new, Out
  <1> QED
    BY <1>5, <1>6

(* acceptance_notification_() for a tuple behind the window: the outputs,  *)
(* the new one among them, hold their tuples and are in order.             *)
LEMMA NotifiedOutputs ==
    ASSUME HoldInv, WindowFits, pending # NoTuple, IsLate(times[pending], end), Notify
    PROVE  /\ Latest \in Nat /\ EndAt(slides) \in Nat /\ Latest > EndAt(slides)
           /\ \A i \in DOMAIN outputs' : Holds(outputs'[i])
           /\ \A i \in DOMAIN outputs' : /\ Latest > EndAt(outputs'[i].position)
                                         /\ outputs'[i].position \in 0..slides
           /\ \A i, j \in DOMAIN outputs' : i < j =>
                  \/ outputs'[i].position < outputs'[j].position
                  \/ outputs'[i].position = outputs'[j].position /\ dropped # {}
  <1>1. /\ Timed /\ WindowIsExact /\ Numbered /\ slides \in Nat /\ initialized
        /\ pending = Len(times) /\ Filled
    BY DEF HoldInv, Inv, Timed, Numbered
  <1>2. times[Len(times)] \in Timeval /\ end \in Timeval
    <2>1. times \in Seq(Timeval) /\ times # <<>> /\ end \in Timeval
      BY <1>1 DEF Timed
    <2> QED
      BY <2>1
  <1>3. Usecs(end) = EndAt(slides)
    BY <1>1 DEF WindowIsExact
  <1>4. Latest > EndAt(slides) /\ Latest \in Nat /\ EndAt(slides) \in Nat
    <2>1. Usecs(times[Len(times)]) > Usecs(end)
      BY <1>1, <1>2, LateAndExpired
    <2> QED
      BY <1>1, <1>2, <1>3, <2>1, UsecsType, WindowPlaces DEF Latest
  <1> DEFINE new == [position |-> slides, tuples |-> tuples]
  <1>5. Holds(new) /\ new.position = slides
    BY <1>1, WindowHolds DEF Filled
  <1> HIDE DEF new
  <1>6. /\ DOMAIN outputs \subseteq DOMAIN outputs'
        /\ \A i \in DOMAIN outputs : outputs'[i] = outputs[i]
        /\ \A i \in DOMAIN outputs' : i \notin DOMAIN outputs =>
               outputs'[i] = new /\ \A j \in DOMAIN outputs' : j <= i
        /\ DOMAIN outputs' \subseteq Nat
    <2>1. /\ DOMAIN outputs \subseteq DOMAIN outputs'
          /\ \A i \in DOMAIN outputs : outputs'[i] = outputs[i]
          /\ \A i \in DOMAIN outputs' : i \notin DOMAIN outputs =>
                 outputs'[i] = new /\ \A j \in DOMAIN outputs' : j <= i
          /\ outputs' \in Seq([position : Nat, tuples : Seq(Nat)])
      BY NotifiedNumbers DEF new
    <2>2. DOMAIN outputs' = 1..Len(outputs') /\ Len(outputs') \in Nat
      BY <2>1, LenProperties
    <2> QED
      BY <2>1, <2>2
  <1>7. \A i \in DOMAIN outputs : /\ Holds(outputs[i]) /\ Latest > EndAt(outputs[i].position)
                                  /\ outputs[i].position \in 0..slides
                                  /\ outputs[i].position = slides => dropped # {}
    <2> SUFFICES ASSUME NEW i \in DOMAIN outputs
                 PROVE  /\ Holds(outputs[i]) /\ Latest > EndAt(outputs[i].position)
                        /\ outputs[i].position \in 0..slides
                        /\ outputs[i].position = slides => dropped # {}
      OBVIOUS
    <2>1. outputs \in Seq([position : Nat, tuples : Seq(Nat)])
      BY <1>1 DEF Numbered
    <2>2. DOMAIN outputs = 1..Len(outputs)
      BY <2>1, LenProperties
    <2>3. outputs[i].position \in Nat
      <3>1. outputs[i] \in [position : Nat, tuples : Seq(Nat)]
        BY <2>1, <2>2, ElementOfSeq
      <3> QED
        BY <3>1
    <2> QED
      BY <1>1, <2>3 DEF Filled, OutputsPassed
  <1>8. \A i \in DOMAIN outputs' : /\ Holds(outputs'[i]) /\ Latest > EndAt(outputs'[i].position)
                                   /\ outputs'[i].position \in 0..slides
    <2> SUFFICES ASSUME NEW i \in DOMAIN outputs'
                 PROVE  /\ Holds(outputs'[i]) /\ Latest > EndAt(outputs'[i].position)
                        /\ outputs'[i].position \in 0..slides
      OBVIOUS
    <2>1. CASE i \in DOMAIN outputs
      BY <1>6, <1>7, <2>1
    <2>2. CASE i \notin DOMAIN outputs
      BY <1>1, <1>4, <1>5, <1>6, <2>2
    <2> QED
      BY <2>1, <2>2
  <1>9. ASSUME NEW i \in DOMAIN outputs', NEW j \in DOMAIN outputs', i < j
        PROVE  \/ outputs'[i].position < outputs'[j].position
               \/ outputs'[i].position = outputs'[j].position /\ dropped # {}
    <2>1. i \in DOMAIN outputs
      BY <1>6, <1>9
    <2>2. CASE j \in DOMAIN outputs
      BY <1>1, <1>6, <1>9, <2>1, <2>2 DEF Filled, OutputsInOrder
    <2>3. CASE j \notin DOMAIN outputs
      BY <1>1, <1>5, <1>6, <1>7, <2>1, <2>3
    <2> QED
      BY <2>2, <2>3
  <1> QED
    BY <1>4, <1>8, <1>9

(* What is left of the window when it begins at theBeginning *)
LEMMA EvictedNumbers ==
    ASSUME HoldInv, NEW begin, NEW seq \in Seq(Nat), Increasing(seq),
           \A k \in DOMAIN seq : seq[k] \in Numbers
    PROVE  /\ Evicted(seq, begin) \in Seq(Nat) /\ Increasing(Evicted(seq, begin))
           /\ \A k \in DOMAIN Evicted(seq, begin) :
                  /\ Evicted(seq, begin)[k] \in Numbers
                  /\ ~IsExpired(times[Evicted(seq, begin)[k]], begin)
                  /\ \E m \in DOMAIN seq : seq[m] = Evicted(seq, begin)[k]
           /\ \A m \in DOMAIN seq : ~IsExpired(times[seq[m]], begin) =>
                  \E k \in DOMAIN Evicted(seq, begin) : Evicted(seq, begin)[k] = seq[m]
  <1>1. PICK kept : kept = Evicted(seq, begin)
    OBVIOUS
  <1>2. /\ kept \in Seq(Nat) /\ Increasing(kept)
        /\ \A k \in DOMAIN kept : \E m \in DOMAIN seq :
               seq[m] = kept[k] /\ ~IsExpired(times[seq[m]], begin)
        /\ \A m \in DOMAIN seq : ~IsExpired(times[seq[m]], begin) =>
               \E k \in DOMAIN kept : kept[k] = seq[m]
    BY <1>1, EvictedTuples
  <1>3. \A k \in DOMAIN kept : /\ kept[k] \in Numbers
                               /\ ~IsExpired(times[kept[k]], begin)
                               /\ \E m \in DOMAIN seq : seq[m] = kept[k]
    BY <1>2
  <1> QED
    BY <1>1, <1>2, <1>3

LEMMA SlideNumbers == HoldInv /\ Slide => Numbered'
  <1> SUFFICES ASSUME HoldInv, Slide
               PROVE  Numbered'
    OBVIOUS
  <1>1. /\ tuples \in Seq(Nat) /\ Increasing(tuples) /\ pending # NoTuple
        /\ \A k \in DOMAIN tuples : tuples[k] \in Numbers /\ tuples[k] # pending
    BY DEF HoldInv, Numbered, Slide
  <1>2. /\ UNCHANGED <<window, times, initialized, pending, dropped>> /\ Notify
        /\ tuples' = Evicted(tuples, beginning')
    BY DEF Slide
  <1>3. /\ tuples' \in Seq(Nat) /\ Increasing(tuples')
        /\ \A k \in DOMAIN tuples' : /\ tuples'[k] \in Numbers
                                     /\ \E m \in DOMAIN tuples : tuples[m] = tuples'[k]
    BY <1>1, <1>2, EvictedNumbers
  <1>4. /\ outputs' \in Seq([position : Nat, tuples : Seq(Nat)])
        /\ \A i \in DOMAIN outputs' : \A k \in DOMAIN outputs'[i].tuples :
               outputs'[i].tuples[k] \in Numbers
    BY <1>2, NotifiedNumbers
  <1>5. Numbers' = Numbers
    BY <1>2, TimesStay
  <1>6. initialized
    BY <1>1 DEF HoldInv, Numbered
  <1>7. \A k \in DOMAIN tuples' : tuples'[k] # pending
    BY <1>1, <1>3
  <1> QED
    BY <1>2, <1>3, <1>4, <1>5, <1>6, <1>7 DEF HoldInv, Numbered, Increasing

LEMMA ThrowNumbers == HoldInv /\ Throw => Numbered'
  <1> SUFFICES ASSUME HoldInv, Throw
               PROVE  Numbered'
    OBVIOUS
  <1>1. /\ pending # NoTuple /\ Notify /\ dropped' = dropped \cup {pending} /\ pending' = NoTuple
        /\ UNCHANGED <<window, times, initialized, tuples>>
    BY DEF Throw
  <1>2. Numbers' = Numbers
    BY <1>1, TimesStay
  <1>3. /\ outputs' \in Seq([position : Nat, tuples : Seq(Nat)])
        /\ \A i \in DOMAIN outputs' : \A k \in DOMAIN outputs'[i].tuples :
               outputs'[i].tuples[k] \in Numbers
    BY <1>1, NotifiedNumbers
  <1>4. initialized /\ pending \in Numbers /\ NoTuple \notin Numbers
    <2>1. Len(times) \in Nat /\ Len(times) >= 1
      BY <1>1 DEF HoldInv, Inv, Timed, Numbered
    <2> QED
      BY <1>1, <2>1, TimeAssumption DEF HoldInv, Numbered, Numbers
  <1> QED
    BY <1>1, <1>2, <1>3, <1>4 DEF HoldInv, Numbered, Increasing

LEMMA FinishNumbers == HoldInv /\ Finish => Numbered'
  <1> SUFFICES ASSUME HoldInv, Finish
               PROVE  Numbered'
    OBVIOUS
  <1>1. /\ pending # NoTuple /\ pending' = NoTuple
        /\ UNCHANGED <<window, times, initialized, outputs>>
        /\ \/ dropped' = dropped \cup {pending} /\ tuples' = Evicted(tuples, beginning)
           \/ dropped' = dropped /\ tuples' = Evicted(Append(tuples, pending), beginning)
    BY DEF Finish
  <1>2. Numbers' = Numbers
    BY <1>1, TimesStay
  <1>3. /\ initialized /\ pending \in Numbers /\ NoTuple \notin Numbers /\ pending = Len(times)
        /\ Len(times) \in Nat
    <2>1. Len(times) \in Nat /\ Len(times) >= 1
      BY <1>1 DEF HoldInv, Inv, Timed, Numbered
    <2> QED
      BY <1>1, <2>1, TimeAssumption DEF HoldInv, Numbered, Numbers
  <1>4. /\ tuples \in Seq(Nat) /\ Increasing(tuples)
        /\ \A k \in DOMAIN tuples : tuples[k] \in Numbers /\ tuples[k] # pending
    BY DEF HoldInv, Numbered
  <1>5. /\ Append(tuples, pending) \in Seq(Nat) /\ Increasing(Append(tuples, pending))
        /\ \A k \in DOMAIN Append(tuples, pending) : Append(tuples, pending)[k] \in Numbers
    <2>1. pending \in Nat /\ \A k \in DOMAIN tuples : tuples[k] < pending
      BY <1>3, <1>4 DEF Numbers
    <2> QED
      BY <1>3, <1>4, <2>1, IncreasingAppended
  <1>6. /\ tuples' \in Seq(Nat) /\ Increasing(tuples')
        /\ \A k \in DOMAIN tuples' : tuples'[k] \in Numbers
    <2>1. CASE tuples' = Evicted(tuples, beginning)
      BY <1>4, <2>1, EvictedNumbers
    <2>2. CASE tuples' = Evicted(Append(tuples, pending), beginning)
      <3>1. PICK longer : longer = Append(tuples, pending)
        OBVIOUS
      <3> QED
        BY <1>5, <2>2, <3>1, EvictedNumbers
    <2> QED
      BY <1>1, <2>1, <2>2
  <1> QED
    BY <1>1, <1>2, <1>3, <1>6 DEF HoldInv, Numbered, Increasing

(* An output that holds its tuples still does when fewer are kept.         *)
LEMMA FewerKept ==
    ASSUME times' = times, window' = window, Kept' \subseteq Kept
    PROVE  \A output : Holds(output) => Holds(output)'
  BY TimesStay DEF Holds, Increasing

LEMMA SlideFills ==
    ASSUME HoldInv, Slide, WindowFits
    PROVE  Filled'
  <1>1. /\ Timed /\ Numbered /\ initialized /\ Filled /\ slides \in Nat
    BY DEF HoldInv, Inv, Timed, Numbered, Slide
  <1>2. /\ pending # NoTuple /\ IsLate(times[pending], end) /\ Notify
        /\ window' = window /\ times' = times /\ pending' = pending /\ dropped' = dropped
        /\ slides' = slides + 1
        /\ tuples' = Evicted(tuples, beginning')
    BY DEF Slide
  <1>3. Timed' /\ WindowIsExact' /\ initialized' /\ WindowFits'
    BY <1>1, SlideKeeps DEF HoldInv, Inv, Slide, WindowFits, Fits
  <1>4. PICK next : next = beginning' /\ next \in Timeval
    BY <1>3 DEF Timed
  <1>5. /\ Numbers' = Numbers /\ Latest' = Latest /\ Kept' = Kept
        /\ \A p : BeginningAt(p)' = BeginningAt(p) /\ EndAt(p)' = EndAt(p)
        /\ \A k, p : (IsWithin(k, p)' <=> IsWithin(k, p)) /\ (IsNear(k, p)' <=> IsNear(k, p))
        /\ \A k : Usecs(times[k])' = Usecs(times[k])
    BY <1>2, TimesStay DEF Kept
  <1>6. Usecs(next) = BeginningAt(slides + 1)
    BY <1>2, <1>3, <1>4, <1>5 DEF WindowIsExact, Usecs
  <1> DEFINE width == UsecPerMsec * window.width
             stride == UsecPerMsec * window.stride
  <1>7. /\ BeginningAt(slides) \in Nat /\ EndAt(slides) \in Nat /\ EndAt(slides + 1) \in Nat
        /\ BeginningAt(slides + 1) = BeginningAt(slides) + stride
        /\ EndAt(slides) = BeginningAt(slides) + width
        /\ EndAt(slides) <= EndAt(slides + 1)
        /\ stride \in Nat /\ width \in Nat
        /\ window.stride <= window.width => stride <= width
    <2>1. slides + 1 \in Nat /\ slides <= slides + 1
      BY <1>1
    <2>2. EndAt(slides) <= EndAt(slides + 1) /\ EndAt(slides + 1) \in Nat
      BY <1>1, <2>1, EndsInOrder, WindowPlaces
    <2> QED
      BY <1>1, <2>2, WindowPlaces
  <1> HIDE DEF width, stride
  <1>8. /\ Latest \in Nat /\ Latest > EndAt(slides)
        /\ \A i \in DOMAIN outputs' : Holds(outputs'[i])
        /\ \A i \in DOMAIN outputs' : /\ Latest > EndAt(outputs'[i].position)
                                      /\ outputs'[i].position \in 0..slides
        /\ \A i, j \in DOMAIN outputs' : i < j =>
               \/ outputs'[i].position < outputs'[j].position
               \/ outputs'[i].position = outputs'[j].position /\ dropped # {}
    BY <1>2, NotifiedOutputs
  <1>9. /\ \A k \in DOMAIN tuples' : /\ tuples'[k] \in Numbers
                                     /\ ~IsExpired(times[tuples'[k]], next)
                                     /\ \E m \in DOMAIN tuples : tuples[m] = tuples'[k]
        /\ \A m \in DOMAIN tuples : ~IsExpired(times[tuples[m]], next) =>
               \E k \in DOMAIN tuples' : tuples'[k] = tuples[m]
    <2>1. /\ tuples \in Seq(Nat) /\ Increasing(tuples)
          /\ \A k \in DOMAIN tuples : tuples[k] \in Numbers
      BY <1>1 DEF Numbered
    <2> QED
      BY <1>2, <1>4, <2>1, EvictedNumbers
  <1>10. \A k \in Numbers : times[k] \in Timeval /\ Usecs(times[k]) \in Nat
    <2>1. \A k \in Numbers : times[k] \in Timeval
      BY <1>1 DEF Timed, Numbers
    <2> QED
      BY <2>1, UsecsType
  <1>11. HasItsTuples'
    <2>1. ASSUME NEW tuple \in Kept, Usecs(times[tuple]) >= BeginningAt(slides + 1)
          PROVE  \E k \in DOMAIN tuples' : tuples'[k] = tuple
      <3>1. Usecs(times[tuple]) >= BeginningAt(slides)
        BY <1>7, <1>10, <2>1 DEF Kept
      <3>2. PICK m \in DOMAIN tuples : tuples[m] = tuple
        BY <1>1, <3>1 DEF Filled, HasItsTuples
      <3>3. ~IsExpired(times[tuple], next)
        BY <1>4, <1>6, <1>7, <1>10, <2>1, LateAndExpired DEF Kept
      <3> QED
        BY <1>9, <3>2, <3>3
    <2>2. ASSUME NEW k \in DOMAIN tuples'
          PROVE  Usecs(times[tuples'[k]]) < EndAt(slides + 1) + UsecPerMsec
      <3>1. PICK m \in DOMAIN tuples : tuples[m] = tuples'[k]
        BY <1>9
      <3>2. Usecs(times[tuples[m]]) < EndAt(slides) + UsecPerMsec
        BY <1>1 DEF Filled, HasItsTuples
      <3> QED
        BY <1>7, <1>9, <1>10, <3>1, <3>2, TimeAssumption
    <2>3. ASSUME window.stride <= window.width
          PROVE  Latest >= BeginningAt(slides + 1)
      BY <1>7, <1>8, <2>3
    <2>4. ASSUME NEW k \in DOMAIN tuples'
          PROVE  Usecs(times[tuples'[k]]) > BeginningAt(slides + 1) - UsecPerMsec
      BY <1>4, <1>6, <1>9, <1>10, LateAndExpired
    <2>5. (slides + 1) - 1 = slides
      BY <1>1
    <2> QED
      BY <1>2, <1>5, <1>8, <2>1, <2>2, <2>3, <2>4, <2>5 DEF HasItsTuples
  <1>12. OutputsPassed'
    BY <1>1, <1>2, <1>5, <1>8 DEF OutputsPassed
  <1>13. \A i \in DOMAIN outputs' : Holds(outputs[i])'
    <2> SUFFICES ASSUME NEW i \in DOMAIN outputs'
                 PROVE  Holds(outputs[i])'
      OBVIOUS
    <2>1. PICK output : output = outputs'[i]
      OBVIOUS
    <2>2. Holds(output)'
      BY <1>2, <1>5, <1>8, <2>1, FewerKept
    <2> QED
      BY <2>1, <2>2
  <1>14. SlidWindowsOutput'
    <2> SUFFICES ASSUME NEW position \in 0..slides, NEW tuple \in Kept, IsWithin(tuple, position)
                 PROVE  \E i \in DOMAIN outputs' : outputs'[i].position = position
      BY <1>1, <1>2, <1>5 DEF SlidWindowsOutput
    <2>1. CASE position = slides
      <3>1. Usecs(times[tuple]) >= BeginningAt(slides)
        BY <2>1 DEF IsWithin
      <3>2. \E k \in DOMAIN tuples : tuples[k] = tuple
        BY <1>1, <3>1 DEF Filled, HasItsTuples
      <3>3. tuples # <<>>
        BY <3>2
      <3> QED
        BY <1>2, <2>1, <3>3, NotifiedNumbers
    <2>2. CASE position # slides
      <3>1. position \in 0..(slides - 1)
        BY <1>1, <2>2
      <3>2. PICK i \in DOMAIN outputs : outputs[i].position = position
        BY <1>1, <3>1 DEF Filled, SlidWindowsOutput
      <3>3. i \in DOMAIN outputs' /\ outputs'[i] = outputs[i]
        BY <1>2, NotifiedNumbers
      <3> QED
        BY <3>2, <3>3
    <2> QED
      BY <2>1, <2>2
  <1>15. OutputsInOrder'
    BY <1>2, <1>8 DEF OutputsInOrder
  <1> QED
    BY <1>11, <1>12, <1>13, <1>14, <1>15 DEF Filled

LEMMA ThrowFills ==
    ASSUME HoldInv, Throw, WindowFits
    PROVE  Filled'
  <1>1. /\ Timed /\ Numbered /\ initialized /\ Filled /\ slides \in Nat
    BY DEF HoldInv, Inv, Timed, Numbered, Throw
  <1>2. /\ pending # NoTuple /\ IsLate(times[pending], end) /\ Notify
        /\ window' = window /\ times' = times /\ slides' = slides /\ tuples' = tuples
        /\ pending' = NoTuple /\ dropped' = dropped \cup {pending}
    BY DEF Throw
  <1>3. /\ Numbers' = Numbers /\ Latest' = Latest
        /\ \A p : BeginningAt(p)' = BeginningAt(p) /\ EndAt(p)' = EndAt(p)
        /\ \A k, p : (IsWithin(k, p)' <=> IsWithin(k, p)) /\ (IsNear(k, p)' <=> IsNear(k, p))
        /\ \A k : Usecs(times[k])' = Usecs(times[k])
    BY <1>2, TimesStay
  <1>4. Kept' \subseteq Kept
    BY <1>2, <1>3 DEF Kept
  <1>5. /\ \A i \in DOMAIN outputs' : Holds(outputs'[i])
        /\ \A i \in DOMAIN outputs' : /\ Latest > EndAt(outputs'[i].position)
                                      /\ outputs'[i].position \in 0..slides
        /\ \A i, j \in DOMAIN outputs' : i < j =>
               \/ outputs'[i].position < outputs'[j].position
               \/ outputs'[i].position = outputs'[j].position /\ dropped # {}
    BY <1>2, NotifiedOutputs
  <1>6. HasItsTuples'
    BY <1>1, <1>2, <1>3, <1>4 DEF Filled, HasItsTuples
  <1>7. OutputsPassed'
    BY <1>1, <1>2, <1>3, <1>5 DEF OutputsPassed
  <1>8. \A i \in DOMAIN outputs' : Holds(outputs[i])'
    <2> SUFFICES ASSUME NEW i \in DOMAIN outputs'
                 PROVE  Holds(outputs[i])'
      OBVIOUS
    <2>1. PICK output : output = outputs'[i]
      OBVIOUS
    <2>2. Holds(output)'
      BY <1>2, <1>4, <1>5, <2>1, FewerKept
    <2> QED
      BY <2>1, <2>2
  <1>9. SlidWindowsOutput'
    <2> SUFFICES ASSUME NEW position \in 0..(slides - 1), NEW tuple \in Kept,
                        IsWithin(tuple, position)
                 PROVE  \E i \in DOMAIN outputs' : outputs'[i].position = position
      BY <1>2, <1>3, <1>4 DEF SlidWindowsOutput
    <2>1. PICK i \in DOMAIN outputs : outputs[i].position = position
      BY <1>1 DEF Filled, SlidWindowsOutput
    <2>2. i \in DOMAIN outputs' /\ outputs'[i] = outputs[i]
      BY <1>2, NotifiedNumbers
    <2> QED
      BY <2>1, <2>2
  <1>10. OutputsInOrder'
    BY <1>2, <1>5 DEF OutputsInOrder
  <1> QED
    BY <1>6, <1>7, <1>8, <1>9, <1>10 DEF Filled

(* The tuple that waited is behind every window output and slid away.      *)
LEMMA FinishFills ==
    ASSUME HoldInv, Finish, WindowFits
    PROVE  Filled'
  <1>1. /\ Timed /\ Numbered /\ initialized /\ Filled /\ slides \in Nat /\ WindowIsExact
    BY DEF HoldInv, Inv, Timed, Numbered, Finish
  <1>2. /\ pending # NoTuple /\ ~IsLate(times[pending], end) /\ pending' = NoTuple
        /\ window' = window /\ times' = times /\ slides' = slides /\ outputs' = outputs
        /\ IF IsExpired(times[pending], beginning)
           THEN dropped' = dropped \cup {pending} /\ tuples' = Evicted(tuples, beginning)
           ELSE tuples' = Evicted(Append(tuples, pending), beginning) /\ dropped' = dropped
    BY DEF Finish
  <1>3. /\ Numbers' = Numbers /\ Latest' = Latest
        /\ \A p : BeginningAt(p)' = BeginningAt(p) /\ EndAt(p)' = EndAt(p)
        /\ \A k, p : (IsWithin(k, p)' <=> IsWithin(k, p)) /\ (IsNear(k, p)' <=> IsNear(k, p))
        /\ \A k : Usecs(times[k])' = Usecs(times[k])
    BY <1>2, TimesStay
  <1>4. /\ \A k \in Numbers : times[k] \in Timeval /\ Usecs(times[k]) \in Nat
        /\ beginning \in Timeval /\ end \in Timeval
        /\ Usecs(beginning) = BeginningAt(slides) /\ Usecs(end) = EndAt(slides)
        /\ BeginningAt(slides) \in Nat /\ EndAt(slides) \in Nat
        /\ pending = Len(times) /\ pending \in Numbers /\ Latest = Usecs(times[pending])
    <2>1. \A k \in Numbers : times[k] \in Timeval
      BY <1>1 DEF Timed, Numbers
    <2>2. pending = Len(times) /\ pending \in Numbers
      BY <1>1, <1>2 DEF Timed, Numbered, Numbers
    <2> QED
      BY <1>1, <2>1, <2>2, UsecsType, WindowPlaces DEF Timed, WindowIsExact, Latest
  (* Those that may be in the window now *)
  <1>5. PICK seq : /\ seq = IF IsExpired(times[pending], beginning) THEN tuples
                            ELSE Append(tuples, pending)
                   /\ tuples' = Evicted(seq, beginning)
    BY <1>2
  <1>6. /\ seq \in Seq(Nat) /\ Increasing(seq)
        /\ \A k \in DOMAIN seq : /\ seq[k] \in Numbers
                                 /\ (\E m \in DOMAIN tuples : tuples[m] = seq[k]) \/ seq[k] = pending
        /\ \A m \in DOMAIN tuples : \E k \in DOMAIN seq : seq[k] = tuples[m]
        /\ IsExpired(times[pending], beginning) \/ \E k \in DOMAIN seq : seq[k] = pending
    <2>1. /\ tuples \in Seq(Nat) /\ Increasing(tuples)
          /\ \A k \in DOMAIN tuples : tuples[k] \in Numbers /\ tuples[k] # pending
      BY <1>1 DEF Numbered
    <2>2. CASE IsExpired(times[pending], beginning)
      BY <1>5, <2>1, <2>2
    <2>3. CASE ~IsExpired(times[pending], beginning)
      <3>1. seq = Append(tuples, pending)
        BY <1>5, <2>3
      <3>2. pending \in Nat /\ \A k \in DOMAIN tuples : tuples[k] < pending
        BY <1>1, <1>4, <2>1 DEF Numbers, Timed
      <3>3. /\ seq \in Seq(Nat) /\ Increasing(seq)
            /\ DOMAIN seq = DOMAIN tuples \cup {Len(tuples) + 1}
            /\ seq[Len(tuples) + 1] = pending /\ \A k \in DOMAIN tuples : seq[k] = tuples[k]
        BY <2>1, <3>1, <3>2, IncreasingAppended
      <3> QED
        BY <1>4, <2>1, <3>3
    <2> QED
      BY <2>2, <2>3
  <1>7. /\ \A k \in DOMAIN tuples' : /\ tuples'[k] \in Numbers
                                     /\ ~IsExpired(times[tuples'[k]], beginning)
                                     /\ \E m \in DOMAIN seq : seq[m] = tuples'[k]
        /\ \A m \in DOMAIN seq : ~IsExpired(times[seq[m]], beginning) =>
               \E k \in DOMAIN tuples' : tuples'[k] = seq[m]
    <2>1. seq \in Seq(Nat) /\ Increasing(seq) /\ \A k \in DOMAIN seq : seq[k] \in Numbers
      BY <1>6
    <2>2. PICK kept : kept = Evicted(seq, beginning)
      OBVIOUS
    <2>3. /\ \A k \in DOMAIN kept : /\ kept[k] \in Numbers
                                   /\ ~IsExpired(times[kept[k]], beginning)
                                   /\ \E m \in DOMAIN seq : seq[m] = kept[k]
          /\ \A m \in DOMAIN seq : ~IsExpired(times[seq[m]], beginning) =>
                 \E k \in DOMAIN kept : kept[k] = seq[m]
      <3>1. /\ \A k \in DOMAIN kept : \E m \in DOMAIN seq :
                   seq[m] = kept[k] /\ ~IsExpired(times[seq[m]], beginning)
            /\ \A m \in DOMAIN seq : ~IsExpired(times[seq[m]], beginning) =>
                   \E k \in DOMAIN kept : kept[k] = seq[m]
        BY <2>1, <2>2, EvictedTuples
      <3> QED
        BY <2>1, <3>1
    <2> QED
      BY <1>5, <2>2, <2>3
  <1>8. \A tuple \in Kept' : tuple \in Numbers /\ tuple \notin dropped' /\ tuple # NoTuple
                             /\ (tuple \in Kept \/ tuple = pending)
    BY <1>2, <1>3 DEF Kept
  <1>9. IsExpired(times[pending], beginning) => Kept' \subseteq Kept
    BY <1>2, <1>8
  <1>10. HasItsTuples'
    <2>1. ASSUME NEW tuple \in Kept', Usecs(times[tuple]) >= BeginningAt(slides)
          PROVE  \E k \in DOMAIN tuples' : tuples'[k] = tuple
      <3>1. ~IsExpired(times[tuple], beginning)
        BY <1>4, <1>8, <2>1, LateAndExpired
      <3>2. \E m \in DOMAIN seq : seq[m] = tuple
        <4>1. CASE tuple \in Kept
          BY <1>1, <1>6, <2>1, <4>1 DEF Filled, HasItsTuples
        <4>2. CASE tuple = pending
          BY <1>6, <3>1, <4>2
        <4> QED
          BY <1>8, <4>1, <4>2
      <3> QED
        BY <1>7, <3>1, <3>2
    <2>2. ASSUME NEW k \in DOMAIN tuples'
          PROVE  Usecs(times[tuples'[k]]) < EndAt(slides) + UsecPerMsec
      <3>1. (\E m \in DOMAIN tuples : tuples[m] = tuples'[k]) \/ tuples'[k] = pending
        BY <1>6, <1>7
      <3>2. CASE tuples'[k] = pending
        BY <1>2, <1>4, <3>2, LateAndExpired
      <3>3. CASE \E m \in DOMAIN tuples : tuples[m] = tuples'[k]
        BY <1>1, <3>3 DEF Filled, HasItsTuples
      <3> QED
        BY <3>1, <3>2, <3>3
    <2>3. ASSUME NEW k \in DOMAIN tuples'
          PROVE  Usecs(times[tuples'[k]]) > BeginningAt(slides) - UsecPerMsec
      BY <1>4, <1>7, LateAndExpired
    <2> QED
      BY <1>1, <1>2, <1>3, <2>1, <2>2, <2>3 DEF Filled, HasItsTuples
  <1>11. \A i \in DOMAIN outputs : Latest > EndAt(outputs[i].position)
                                   /\ EndAt(outputs[i].position) \in Nat
    <2> SUFFICES ASSUME NEW i \in DOMAIN outputs
                 PROVE  Latest > EndAt(outputs[i].position) /\ EndAt(outputs[i].position) \in Nat
      OBVIOUS
    <2>1. outputs \in Seq([position : Nat, tuples : Seq(Nat)])
      BY <1>1 DEF Numbered
    <2>2. DOMAIN outputs = 1..Len(outputs)
      BY <2>1, LenProperties
    <2>3. outputs[i].position \in Nat
      <3>1. outputs[i] \in [position : Nat, tuples : Seq(Nat)]
        BY <2>1, <2>2, ElementOfSeq
      <3> QED
        BY <3>1
    <2> QED
      BY <1>1, <2>3, WindowPlaces DEF Filled, OutputsPassed
  <1>12. OutputsPassed'
    BY <1>1, <1>2, <1>3 DEF Filled, OutputsPassed
  <1>13. ASSUME NEW i \in DOMAIN outputs
         PROVE  Holds(outputs[i])'
    <2>1. Holds(outputs[i])
      BY <1>1 DEF Filled
    <2>2. ASSUME NEW tuple \in Kept', IsWithin(tuple, outputs[i].position)
          PROVE  tuple \in Kept
      <3>1. tuple # pending
        BY <1>4, <1>11, <2>2 DEF IsWithin
      <3> QED
        BY <1>8, <3>1
    <2> QED
      BY <1>2, <1>3, <2>1, <2>2 DEF Holds, Increasing
  <1>14. SlidWindowsOutput'
    <2> SUFFICES ASSUME NEW position \in 0..(slides - 1), NEW tuple \in Kept',
                        IsWithin(tuple, position)
                 PROVE  \E i \in DOMAIN outputs : outputs[i].position = position
      BY <1>2, <1>3 DEF SlidWindowsOutput
    <2>1. /\ slides > 0 /\ slides - 1 \in Nat /\ position \in Nat /\ position <= slides - 1
      BY <1>1
    <2>2. /\ EndAt(position) <= EndAt(slides - 1) /\ Latest > EndAt(slides - 1)
          /\ EndAt(position) \in Nat /\ EndAt(slides - 1) \in Nat
      BY <1>1, <2>1, EndsInOrder, WindowPlaces DEF Filled, HasItsTuples
    <2>3. tuple # pending
      BY <1>4, <2>2 DEF IsWithin
    <2>4. tuple \in Kept
      BY <1>8, <2>3
    <2> QED
      BY <1>1, <2>4 DEF Filled, SlidWindowsOutput
  <1>15. OutputsInOrder'
    BY <1>1, <1>2 DEF Filled, OutputsInOrder
  <1> QED
    BY <1>2, <1>10, <1>12, <1>13, <1>14, <1>15 DEF Filled

LEMMA HoldInduction == HoldInv /\ [Next]_vars => HoldInv'
  <1> SUFFICES ASSUME HoldInv, [Next]_vars
               PROVE  HoldInv'
    OBVIOUS
  <1>1. Inv'
    BY EnqueueKeeps, SlideKeeps, OthersKeep DEF HoldInv, Next
  <1>2. WindowFits' <=> WindowFits
    BY DEF Next, Enqueue, Slide, Throw, Finish, vars, WindowFits, Fits
  <1>3. CASE Enqueue
    BY <1>1, <1>2, <1>3, EnqueueNumbers, EnqueueFills, FirstFills DEF HoldInv
  <1>4. CASE Slide
    BY <1>1, <1>2, <1>4, SlideNumbers, SlideFills DEF HoldInv
  <1>5. CASE Throw
    BY <1>1, <1>2, <1>5, ThrowNumbers, ThrowFills DEF HoldInv
  <1>6. CASE Finish
    BY <1>1, <1>2, <1>6, FinishNumbers, FinishFills DEF HoldInv
  <1>7. CASE UNCHANGED vars
    <2>1. Numbered'
      BY <1>7 DEF HoldInv, vars, Numbered, Increasing, Numbers
    <2>2. Filled => Filled'
      BY <1>7 DEF vars, Filled, HasItsTuples, OutputsPassed, Holds, SlidWindowsOutput, OutputsInOrder,
           Increasing, Kept, Numbers, Latest, BeginningAt, EndAt, IsWithin, IsNear, Usecs
    <2> QED
      BY <1>1, <1>2, <1>7, <2>1, <2>2 DEF HoldInv, vars
  <1> QED
    BY <1>3, <1>4, <1>5, <1>6, <1>7 DEF Next

(* A window that is output has all tuples that were kept of its time, in   *)
(* order, and none that is out of it by a millisecond, for all units,      *)
(* windows that useconds_t can say, times of arrival, and throws of the    *)
(* operator (synopsis.h:297-353).                                          *)
THEOREM OutputsAreWhole == Spec => []WindowsHoldTheirTuples
  <1>1. HoldInv => WindowsHoldTheirTuples
    BY FilledIsEnough
  <1> QED
    BY <1>1, HoldInitially, HoldInduction, PTL DEF Spec

(* Windows are output in their order, none with a tuple in it is left out, *)
(* and only a throw of the operator repeats one (synopsis.h:308-327).      *)
THEOREM OutputsAreInOrder == Spec => []WindowsAdvance
  <1>1. HoldInv => WindowsAdvance
    BY FilledIsEnough
  <1> QED
    BY <1>1, HoldInitially, HoldInduction, PTL DEF Spec
=============================================================================
