------------------------- MODULE TupleWindowProofs -------------------------
(***************************************************************************)
(* Proofs about TupleWindow: for windows of every width and stride the     *)
(* ring buffer implements the sliding window, and the tuple a commit       *)
(* evicts up to is never one that comes after the next window's first.     *)
(*                                                                         *)
(* The inductive invariant says where each tuple is: the newcomers are the *)
(* last arrivals, and the slots hold the window's worth of arrivals before *)
(* them, cut in two at the index (RingInv).                                *)
(***************************************************************************)
EXTENDS TupleWindow, SequenceTheorems, TLAPS

(* The tuples since the last reset have consecutive numbers. *)
NumberingInv ==
    /\ Len(arrivals) <= arrived
    /\ \A i \in 1 .. Len(arrivals) : arrivals[i] = arrived - Len(arrivals) + i

(* The newcomers are the last arrivals; before the first window there is   *)
(* nothing else, and after it the arrivals accepted make whole strides.    *)
NewcomersInv ==
    /\ Len(synopsis.newcomers) <= Len(arrivals)
    /\ \A j \in 1 .. Len(synopsis.newcomers) : synopsis.newcomers[j] = arrivals[AcceptedCount + j]
    /\ ~synopsis.filled => AcceptedCount = 0 /\ synopsis.index = 0
    /\ synopsis.filled =>
           /\ AcceptedCount >= win.width
           /\ \E k \in Nat : AcceptedCount = win.width + k * win.stride

(* Which arrival a slot holds, n of them accepted into a ring of width w. *)
ArrivalAt(n, index, w, slot) ==
    n - index + slot + 1 - (IF slot < index THEN 0 ELSE w)

ArrivalIn(slot) == ArrivalAt(AcceptedCount, synopsis.index, win.width, slot)

RingInv ==
    synopsis.filled =>
        \A slot \in Syn!Slots(win) : synopsis.tuples[slot] = arrivals[ArrivalIn(slot)]

IInv == TypeOK /\ NumberingInv /\ NewcomersInv /\ RingInv /\ EvictionSparesNextWindow
-----------------------------------------------------------------------------
USE BoundsAssumption

(* SlotAfter stays inside the ring.                                        *)
LEMMA SlotAfterInRing ==
    ASSUME NEW ring, ring.width \in Nat \ {0},
           NEW index \in 0 .. ring.width - 1, NEW count \in 0 .. ring.width
    PROVE  Syn!SlotAfter(ring, index, count) \in 0 .. ring.width - 1
<1> DEFINE w == ring.width
<1> HIDE DEF w
<1>1. (IF index + count < w THEN index + count ELSE index + count - w) \in 0 .. w - 1
  BY DEF w
<1>2. QED
  BY <1>1 DEF w, Syn!SlotAfter

(* A slot of a filled ring holds one of the arrivals accepted.             *)
LEMMA ArrivalRange ==
    ASSUME NEW w \in Nat \ {0}, NEW i \in 0 .. w - 1, NEW n \in Nat, n >= w,
           NEW slot \in 0 .. w - 1
    PROVE  ArrivalAt(n, i, w, slot) \in n - w + 1 .. n
BY DEF ArrivalAt

(* The slot that a commit evicts up to, for the first window (n = 0) and   *)
(* for the others: at most a stride after the oldest tuple of the window.  *)
LEMMA BeginningArrival ==
    ASSUME NEW w \in Nat \ {0}, NEW s \in 1 .. w, NEW i \in 0 .. w - 1, NEW c \in 1 .. w,
           NEW n \in Nat, (n = 0 /\ i = 0 /\ c = w) \/ (n >= w /\ c = s),
           NEW next, next = IF i + c < w THEN i + c ELSE i + c - w,
           NEW b, b = IF i + s < w THEN i + s ELSE i + s - w
    PROVE  /\ ArrivalAt(n + c, next, w, b) \in n + c - w + 1 .. n + c
           /\ ArrivalAt(n + c, next, w, b) <= n + c - w + s + 1
<1>1. CASE n = 0 /\ i = 0 /\ c = w
  BY <1>1 DEF ArrivalAt
<1>2. CASE n >= w /\ c = s
  BY <1>2 DEF ArrivalAt
<1>3. QED
  BY <1>1, <1>2

LEMMA InitIInv == Init => IInv
<1> SUFFICES ASSUME Init PROVE IInv
  OBVIOUS
<1> USE DEF Init, Syn!NewSynopsis, Syn!Slots
<1>1. TypeOK
  BY DEF TypeOK, Syn!Needed
<1>2. NumberingInv /\ NewcomersInv /\ RingInv /\ EvictionSparesNextWindow
  BY DEF NumberingInv, NewcomersInv, RingInv, EvictionSparesNextWindow, AcceptedCount
<1>3. QED
  BY <1>1, <1>2 DEF IInv

LEMMA ResetPreserves == IInv /\ Reset => IInv'
<1> SUFFICES ASSUME IInv, Reset PROVE IInv'
  OBVIOUS
<1>1. /\ synopsis' = [synopsis EXCEPT !.index = 0, !.newcomers = <<>>, !.filled = FALSE,
                                      !.beginning = 0]
      /\ arrivals' = <<>> /\ win' = win /\ arrived' = arrived
      /\ TypeOK
  BY DEF IInv, Reset, Syn!Reset
<1>2. /\ synopsis'.newcomers = <<>> /\ ~synopsis'.filled /\ synopsis'.index = 0
      /\ Len(<<>>) = 0
  BY <1>1 DEF TypeOK
<1>3. 0 \in Syn!Slots(win)
  BY <1>1 DEF TypeOK, Syn!Slots
<1>4. TypeOK'
  <2>1. <<>> \in Seq(Tuples)
    OBVIOUS
  <2>2. synopsis' \in [index : Syn!Slots(win), beginning : Syn!Slots(win), filled : BOOLEAN,
                       newcomers : Seq(Tuples),
                       tuples : [Syn!Slots(win) -> Tuples \cup {NoTuple}]]
    BY <1>1, <1>3, <2>1 DEF TypeOK
  <2>3. Len(synopsis'.newcomers) < Syn!Needed(win, synopsis')
    BY <1>1, <1>2 DEF TypeOK, Syn!Needed
  <2>4. QED
    BY <1>1, <2>1, <2>2, <2>3 DEF TypeOK
<1>5. (NumberingInv /\ NewcomersInv /\ RingInv /\ EvictionSparesNextWindow)'
  BY <1>1, <1>2 DEF TypeOK, NumberingInv, NewcomersInv, RingInv, EvictionSparesNextWindow,
     AcceptedCount
<1>6. QED
  BY <1>4, <1>5 DEF IInv

(* A tuple that completes no window only joins the newcomers.              *)
LEMMA WaitingPreserves ==
    IInv /\ Enqueue /\ ~Syn!Completes(win, synopsis) => IInv'
<1> SUFFICES ASSUME IInv, Enqueue, ~Syn!Completes(win, synopsis) PROVE IInv'
  OBVIOUS
<1> USE DEF IInv
<1> DEFINE n == AcceptedCount
           L == Len(arrivals)
           t == arrived + 1
<1>1. /\ synopsis' = [synopsis EXCEPT !.newcomers = Append(@, t)]
      /\ arrivals' = Append(arrivals, t) /\ arrived' = t /\ win' = win
      /\ t \in Tuples
  BY DEF Enqueue, Syn!Enqueued, TypeOK, Tuples
<1>2. /\ synopsis'.newcomers = Append(synopsis.newcomers, t)
      /\ synopsis'.index = synopsis.index /\ synopsis'.filled = synopsis.filled
      /\ synopsis'.tuples = synopsis.tuples /\ synopsis'.beginning = synopsis.beginning
  BY <1>1 DEF TypeOK
<1>3. TypeOK'
  <2>1. Append(arrivals, t) \in Seq(Tuples) /\ Append(synopsis.newcomers, t) \in Seq(Tuples)
    BY <1>1 DEF TypeOK
  <2>2. synopsis' \in [index : Syn!Slots(win), beginning : Syn!Slots(win), filled : BOOLEAN,
                       newcomers : Seq(Tuples),
                       tuples : [Syn!Slots(win) -> Tuples \cup {NoTuple}]]
    BY <1>1, <2>1 DEF TypeOK
  <2>3. Len(synopsis'.newcomers) < Syn!Needed(win, synopsis')
    <3>1. Len(synopsis'.newcomers) = Len(synopsis.newcomers) + 1
      BY <1>2, <1>1 DEF TypeOK
    <3>2. Syn!Needed(win, synopsis') = Syn!Needed(win, synopsis) /\ Syn!Needed(win, synopsis) \in Nat
      BY <1>2 DEF Syn!Needed, TypeOK
    <3>3. Len(synopsis.newcomers) \in Nat
      BY DEF TypeOK
    <3>4. QED
      BY <3>1, <3>2, <3>3 DEF Syn!Completes, TypeOK
  <2>4. QED
    <3>1. win' \in [width : 1 .. MaxWidth, stride : 1 .. MaxWidth] /\ win'.stride <= win'.width
      BY <1>1 DEF TypeOK
    <3>2. arrived' \in 0 .. MaxArrivals /\ arrivals' \in Seq(Tuples)
      BY <1>1, <2>1 DEF TypeOK, Tuples
    <3>3. QED
      BY <1>1, <2>2, <2>3, <3>1, <3>2 DEF TypeOK
<1>4. /\ L \in Nat /\ L' = L + 1
      /\ Len(synopsis'.newcomers) = Len(synopsis.newcomers) + 1
      /\ Len(synopsis.newcomers) \in Nat
  BY <1>1, <1>2 DEF TypeOK
<1>5. /\ \A i \in 1 .. L : arrivals'[i] = arrivals[i]
      /\ arrivals'[L + 1] = t
  BY <1>1 DEF TypeOK
<1>6. n' = n /\ n \in Nat /\ n <= L /\ n + Len(synopsis.newcomers) = L
  <2>1. Len(synopsis.newcomers) <= L
    BY DEF NewcomersInv
  <2>2. QED
    BY <1>4, <2>1 DEF AcceptedCount
<1>7. NumberingInv'
  BY <1>1, <1>4, <1>5 DEF NumberingInv, TypeOK
<1>8. NewcomersInv'
  <2>1. Len(synopsis'.newcomers) <= L'
    BY <1>4, <1>6
  <2>2. \A j \in 1 .. Len(synopsis'.newcomers) : synopsis'.newcomers[j] = arrivals'[n' + j]
    <3> SUFFICES ASSUME NEW j \in 1 .. Len(synopsis'.newcomers)
                 PROVE  synopsis'.newcomers[j] = arrivals'[n + j]
      BY <1>6
    <3>1. CASE j = Len(synopsis.newcomers) + 1
      <4>1. synopsis'.newcomers[Len(synopsis.newcomers) + 1] = t
        BY <1>2, <1>4 DEF TypeOK
      <4>2. n + j = L + 1
        BY <1>4, <1>6, <3>1
      <4>3. QED
        BY <1>5, <3>1, <4>1, <4>2
    <3>2. CASE j # Len(synopsis.newcomers) + 1
      <4>1. j \in 1 .. Len(synopsis.newcomers) /\ n + j \in 1 .. L
        <5> DEFINE m == Len(synopsis.newcomers)
        <5>1. j \in 1 .. m + 1 /\ j # m + 1 /\ m \in Nat /\ L \in Nat /\ n \in Nat /\ n + m = L
          BY <1>4, <1>6, <3>2
        <5> HIDE DEF m, n, L
        <5>2. j \in 1 .. m /\ n + j \in 1 .. L
          BY <5>1
        <5>3. QED
          BY <5>2 DEF m
      <4>2. synopsis'.newcomers[j] = synopsis.newcomers[j]
        BY <1>2, <4>1 DEF TypeOK
      <4>3. QED
        BY <1>5, <4>1, <4>2 DEF NewcomersInv
    <3>3. QED
      BY <3>1, <3>2
  <2>3. QED
    BY <1>1, <1>2, <1>6, <2>1, <2>2 DEF NewcomersInv
<1>9. RingInv'
  <2> SUFFICES ASSUME synopsis.filled, NEW slot \in Syn!Slots(win)
               PROVE  synopsis.tuples[slot] = arrivals'[ArrivalIn(slot)']
    BY <1>1, <1>2 DEF RingInv
  <2>1. ArrivalIn(slot)' = ArrivalIn(slot)
    BY <1>1, <1>2, <1>6 DEF ArrivalIn
  <2>2. ArrivalIn(slot) \in 1 .. n
    <3>1. /\ n >= win.width /\ win.width \in Nat /\ synopsis.index \in 0 .. win.width - 1
          /\ slot \in 0 .. win.width - 1
      BY DEF NewcomersInv, TypeOK, Syn!Slots
    <3> DEFINE w == win.width
               at == ArrivalIn(slot)
    <3>2. at = ArrivalAt(n, synopsis.index, w, slot)
      BY DEF ArrivalIn
    <3>3. w \in Nat \ {0} /\ n \in Nat /\ n >= w
      BY <1>6, <3>1
    <3>4. at \in n - w + 1 .. n
      BY <3>1, <3>2, <3>3, ArrivalRange
    <3> HIDE DEF at, w, n
    <3>5. at \in 1 .. n
      BY <3>3, <3>4
    <3>6. QED
      BY <3>5 DEF at
  <2>3. QED
    BY <1>5, <1>6, <2>1, <2>2 DEF RingInv
<1>10. EvictionSparesNextWindow'
  <2> SUFFICES ASSUME synopsis.filled
               PROVE  EvictionSparesNextWindow'
    BY <1>2 DEF EvictionSparesNextWindow
  <2> DEFINE first == Syn!BeginningTuple(synopsis)
  <2>1. Syn!BeginningTuple(synopsis') = first
    BY <1>2 DEF Syn!BeginningTuple
  <2>2. n >= win.width /\ win.width \in Nat \ {0} /\ win.stride \in 1 .. win.width
    BY DEF NewcomersInv, TypeOK
  <2>3. PICK j \in n - win.width + 1 .. n : arrivals[j] = first
    BY DEF EvictionSparesNextWindow
  <2>4. j \in n' - win'.width + 1 .. n' /\ arrivals'[j] = first
    <3>1. j \in n' - win'.width + 1 .. n'
      BY <1>1, <1>6, <2>3
    <3>2. j \in 1 .. L
      BY <1>4, <1>6, <2>2, <2>3
    <3>3. QED
      BY <1>5, <2>3, <3>1, <3>2
  <2>5. NextWindowStart' = NextWindowStart /\ NextWindowStart = n - win.width + win.stride + 1
    BY <1>1, <1>2, <1>6 DEF NextWindowStart
  <2>6. ASSUME NextWindowStart <= L'
        PROVE  first <= arrivals'[NextWindowStart]
    <3>1. CASE NextWindowStart <= L
      <4> DEFINE start == NextWindowStart
                 w == win.width
                 s == win.stride
      <4>1. NextWindowStart \in 1 .. L
        <5>1. start = n - w + s + 1 /\ n >= w /\ w \in Nat \ {0} /\ s \in 1 .. w
              /\ n \in Nat /\ L \in Nat /\ start <= L
          BY <1>4, <1>6, <2>2, <2>5, <3>1
        <5> HIDE DEF start, w, s, n, L
        <5>2. start \in 1 .. L
          BY <5>1
        <5>3. QED
          BY <5>2 DEF start
      <4>2. QED
        BY <1>5, <3>1, <4>1 DEF EvictionSparesNextWindow
    <3>2. CASE NextWindowStart = L + 1
      <4>1. j \in 1 .. L
        BY <1>4, <1>6, <2>2, <2>3
      <4>2. arrivals[j] = arrived - L + j
        BY <4>1 DEF NumberingInv
      <4>3. arrivals[j] <= t
        <5>1. arrived \in Nat
          BY DEF TypeOK
        <5>2. arrived - L + j <= arrived + 1
          <6> HIDE DEF L
          <6>1. QED
            BY <1>4, <4>1, <5>1
        <5>3. QED
          BY <4>2, <5>2
      <4>4. QED
        BY <1>5, <2>3, <3>2, <4>3
    <3>3. QED
      BY <1>4, <1>6, <2>2, <2>5, <2>6, <3>1, <3>2
  <2>7. QED
    BY <1>2, <2>1, <2>4, <2>5, <2>6 DEF EvictionSparesNextWindow
<1>11. QED
  BY <1>3, <1>7, <1>8, <1>9, <1>10

(* A tuple that completes a window: all the newcomers move into the slots. *)
LEMMA CompletingPreserves ==
    IInv /\ Enqueue /\ Syn!Completes(win, synopsis) => IInv'
<1> SUFFICES ASSUME IInv, Enqueue, Syn!Completes(win, synopsis) PROVE IInv'
  OBVIOUS
<1> USE DEF IInv
<1> DEFINE n == AcceptedCount
           L == Len(arrivals)
           t == arrived + 1
           w == win.width
           index == synopsis.index
           nc == Append(synopsis.newcomers, t)
           c == Syn!Needed(win, synopsis)
           Offset(k) == IF k >= index THEN k - index ELSE k - index + w
<1>1. /\ synopsis' = Syn!Accepted(win, synopsis, nc)
      /\ arrivals' = Append(arrivals, t) /\ arrived' = t /\ win' = win
      /\ t \in Tuples
  BY DEF Enqueue, Syn!Enqueued, TypeOK, Tuples
<1>2. w \in Nat \ {0} /\ win.stride \in 1 .. w /\ index \in 0 .. w - 1
  BY DEF TypeOK, Syn!Slots
<1>3. /\ synopsis.newcomers \in Seq(Tuples) /\ arrivals \in Seq(Tuples)
      /\ synopsis.tuples \in [Syn!Slots(win) -> Tuples \cup {NoTuple}]
      /\ synopsis.filled \in BOOLEAN
  BY DEF TypeOK
<1>4. /\ L \in Nat /\ L' = L + 1
      /\ Len(nc) = Len(synopsis.newcomers) + 1 /\ nc \in Seq(Tuples)
      /\ Len(synopsis.newcomers) \in Nat
  BY <1>1, <1>3
<1>5. Len(nc) = c /\ c \in 1 .. w
  BY <1>2, <1>3, <1>4 DEF Syn!Completes, Syn!Needed
<1>6. /\ \A i \in 1 .. L : arrivals'[i] = arrivals[i]
      /\ arrivals'[L + 1] = t
  BY <1>1, <1>3
<1>7. n \in Nat /\ n + c = L + 1
  <2>1. Len(synopsis.newcomers) <= L
    BY DEF NewcomersInv
  <2>2. QED
    BY <1>4, <1>5, <2>1 DEF AcceptedCount
<1>8. \A j \in 1 .. c : nc[j] = arrivals'[n + j]
  <2> SUFFICES ASSUME NEW j \in 1 .. c PROVE nc[j] = arrivals'[n + j]
    OBVIOUS
  <2>1. CASE j = c
    <3>1. nc[c] = t
      BY <1>3, <1>4, <1>5
    <3>2. QED
      BY <1>6, <1>7, <2>1, <3>1
  <2>2. CASE j # c
    <3>1. j \in 1 .. Len(synopsis.newcomers) /\ n + j \in 1 .. L
      BY <1>4, <1>5, <1>7, <2>2
    <3>2. nc[j] = synopsis.newcomers[j]
      BY <1>3, <3>1
    <3>3. QED
      BY <1>6, <3>1, <3>2 DEF NewcomersInv
  <2>3. QED
    BY <2>1, <2>2
<1>9. /\ synopsis'.newcomers = <<>> /\ synopsis'.filled = TRUE
      /\ synopsis'.index = Syn!SlotAfter(win, index, c)
      /\ synopsis'.beginning = Syn!SlotAfter(win, index, win.stride)
  BY <1>1, <1>5 DEF Syn!Accepted, Syn!Beginning
<1>10. synopsis'.tuples = [k \in Syn!Slots(win) |->
           IF Offset(k) < c THEN nc[Offset(k) + 1] ELSE synopsis.tuples[k]]
  BY <1>1, <1>5 DEF Syn!Accepted
<1>11. synopsis'.index \in 0 .. w - 1 /\ synopsis'.beginning \in 0 .. w - 1
  <2>1. Syn!SlotAfter(win, index, c) \in 0 .. w - 1
    BY <1>2, <1>5, SlotAfterInRing
  <2>2. Syn!SlotAfter(win, index, win.stride) \in 0 .. w - 1
    BY <1>2, SlotAfterInRing
  <2>3. QED
    BY <1>9, <2>1, <2>2
<1>12. TypeOK'
  <2>1. synopsis'.tuples \in [Syn!Slots(win) -> Tuples \cup {NoTuple}]
    <3> SUFFICES ASSUME NEW k \in Syn!Slots(win), Offset(k) < c
                 PROVE  nc[Offset(k) + 1] \in Tuples
      BY <1>3, <1>10
    <3>1. Offset(k) \in Nat
      BY <1>2 DEF Syn!Slots
    <3>2. Offset(k) + 1 \in 1 .. Len(nc)
      BY <1>5, <3>1
    <3>3. QED
      BY <1>4, <3>2
  <2>2. synopsis' \in [index : Syn!Slots(win), beginning : Syn!Slots(win), filled : BOOLEAN,
                       newcomers : Seq(Tuples),
                       tuples : [Syn!Slots(win) -> Tuples \cup {NoTuple}]]
    <3> DEFINE index1 == synopsis'.index
               tuples1 == synopsis'.tuples
               beginning1 == synopsis'.beginning
    <3>1. synopsis' = [index |-> index1, newcomers |-> <<>>, tuples |-> tuples1,
                       filled |-> TRUE, beginning |-> beginning1]
      BY <1>1 DEF Syn!Accepted
    <3>2. <<>> \in Seq(Tuples)
      OBVIOUS
    <3>3. index1 \in Syn!Slots(win) /\ beginning1 \in Syn!Slots(win)
      BY <1>11 DEF Syn!Slots
    <3>4. tuples1 \in [Syn!Slots(win) -> Tuples \cup {NoTuple}]
      BY <2>1
    <3> HIDE DEF index1, tuples1, beginning1
    <3>5. QED
      BY <3>1, <3>2, <3>3, <3>4
  <2>3. Len(synopsis'.newcomers) < Syn!Needed(win, synopsis')
    <3>1. Len(synopsis'.newcomers) = 0 /\ Syn!Needed(win, synopsis') = win.stride
      BY <1>9 DEF Syn!Needed
    <3>2. QED
      BY <1>2, <3>1
  <2>4. win' \in [width : 1 .. MaxWidth, stride : 1 .. MaxWidth] /\ win'.stride <= win'.width
    BY <1>1 DEF TypeOK
  <2>5. arrivals' \in Seq(Tuples) /\ arrived' \in 0 .. MaxArrivals
    BY <1>1, <1>3 DEF Tuples
  <2>6. QED
    BY <1>1, <2>2, <2>3, <2>4, <2>5 DEF TypeOK
<1>13. NumberingInv'
  <2>1. arrived \in Nat
    BY DEF TypeOK
  <2>2. L <= arrived /\ \A i \in 1 .. L : arrivals[i] = arrived - L + i
    BY DEF NumberingInv
  <2>3. L' <= arrived'
    BY <1>1, <1>4, <2>1, <2>2
  <2>4. ASSUME NEW i \in 1 .. L'
        PROVE  arrivals'[i] = arrived' - L' + i
    BY <1>1, <1>4, <1>6, <2>1, <2>2
  <2>5. QED
    BY <2>3, <2>4 DEF NumberingInv
<1>14. n' = n + c /\ n' = L'
  <2>1. Len(synopsis'.newcomers) = 0
    BY <1>9
  <2>2. QED
    BY <1>4, <1>7, <2>1 DEF AcceptedCount
<1>15. (n = 0 /\ index = 0 /\ c = w) \/ (n >= w /\ c = win.stride /\ synopsis.filled)
  BY <1>3 DEF NewcomersInv, Syn!Needed
<1>16. NewcomersInv'
  <2>1. \E k \in Nat : n' = w + k * win.stride
    <3>1. CASE ~synopsis.filled
      <4>1. n = 0 /\ c = w
        BY <3>1 DEF NewcomersInv, Syn!Needed
      <4>2. n' = w + 0 * win.stride
        BY <1>2, <1>14, <4>1
      <4>3. QED
        BY <4>2
    <3>2. CASE synopsis.filled
      <4>1. PICK k \in Nat : n = w + k * win.stride
        BY <3>2 DEF NewcomersInv
      <4>2. c = win.stride
        BY <3>2 DEF Syn!Needed
      <4>3. w + k * win.stride + win.stride = w + (k + 1) * win.stride
        BY <1>2
      <4>4. QED
        BY <1>14, <4>1, <4>2, <4>3
    <3>3. QED
      BY <3>1, <3>2
  <2>2. n' >= w
    BY <1>2, <1>5, <1>7, <1>14, <1>15
  <2>3. Len(synopsis'.newcomers) = 0
    BY <1>9
  <2>4. QED
    BY <1>1, <1>4, <1>9, <2>1, <2>2, <2>3 DEF NewcomersInv
<1>17. \A slot \in 0 .. w - 1 :
           synopsis'.tuples[slot] = arrivals'[ArrivalAt(n + c, synopsis'.index, w, slot)]
  <2> SUFFICES ASSUME NEW slot \in 0 .. w - 1
               PROVE  synopsis'.tuples[slot]
                          = arrivals'[ArrivalAt(n + c, synopsis'.index, w, slot)]
    OBVIOUS
  <2> DEFINE o == Offset(slot)
             next == synopsis'.index
  <2>1. synopsis'.tuples[slot] = IF o < c THEN nc[o + 1] ELSE synopsis.tuples[slot]
    BY <1>10 DEF Syn!Slots
  <2>2. next = IF index + c < w THEN index + c ELSE index + c - w
    BY <1>9 DEF Syn!SlotAfter
  <2>3. /\ o \in 0 .. w - 1
        /\ o < c => ArrivalAt(n + c, next, w, slot) = n + o + 1
        /\ o >= c => ArrivalAt(n + c, next, w, slot) = ArrivalAt(n, index, w, slot)
    <3>1. o = IF slot >= index THEN slot - index ELSE slot - index + w
      OBVIOUS
    <3>2. w \in Nat \ {0} /\ index \in 0 .. w - 1 /\ c \in 1 .. w /\ n \in Nat
      BY <1>2, <1>5, <1>7
    <3> HIDE DEF o, next, w, index, c, n
    <3>3. CASE index + c < w
      BY <2>2, <3>1, <3>2, <3>3 DEF ArrivalAt
    <3>4. CASE index + c >= w
      BY <2>2, <3>1, <3>2, <3>4 DEF ArrivalAt
    <3>5. QED
      BY <3>2, <3>3, <3>4
  <2> HIDE DEF o, next
  <2>4. CASE o < c
    <3>1. o + 1 \in 1 .. c
      BY <1>2, <1>5, <2>3, <2>4
    <3>2. nc[o + 1] = arrivals'[n + (o + 1)]
      BY <1>8, <3>1
    <3>3. n + (o + 1) = n + o + 1
      BY <1>7, <3>1, <2>3
    <3>4. QED
      BY <2>1, <2>3, <2>4, <3>2, <3>3 DEF next
  <2>5. CASE ~(o < c)
    <3>1. synopsis.filled /\ n >= w /\ o >= c
      BY <1>2, <1>5, <1>15, <2>3, <2>5
    <3>2. ArrivalIn(slot) \in n - w + 1 .. n
      BY <1>2, <1>7, <3>1, ArrivalRange DEF ArrivalIn
    <3>3. ArrivalIn(slot) \in 1 .. L
      <4> DEFINE at == ArrivalIn(slot)
      <4>1. at \in n - w + 1 .. n
        BY <3>2
      <4>2. n \in Nat /\ w \in Nat /\ n >= w /\ L \in Nat /\ n <= L
        BY <1>2, <1>4, <1>5, <1>7, <3>1
      <4> HIDE DEF at, n, w, L
      <4>3. at \in 1 .. L
        BY <4>1, <4>2
      <4>4. QED
        BY <4>3 DEF at
    <3>4. synopsis.tuples[slot] = arrivals[ArrivalIn(slot)]
      BY <3>1 DEF RingInv, Syn!Slots
    <3>5. ArrivalAt(n + c, next, w, slot) = ArrivalIn(slot)
      BY <2>3, <3>1 DEF ArrivalIn
    <3>6. QED
      BY <1>6, <2>1, <2>5, <3>3, <3>4, <3>5 DEF next
  <2>6. QED
    BY <2>4, <2>5
<1>18. RingInv'
  <2>1. \A slot : ArrivalIn(slot)' = ArrivalAt(n + c, synopsis'.index, w, slot)
    BY <1>1, <1>14 DEF ArrivalIn
  <2>2. QED
    BY <1>1, <1>17, <2>1 DEF RingInv, Syn!Slots
<1>19. EvictionSparesNextWindow'
  <2> DEFINE b == synopsis'.beginning
             a == ArrivalAt(n + c, synopsis'.index, w, b)
             start == n + c - w + win.stride + 1
  <2>1. /\ synopsis'.index = IF index + c < w THEN index + c ELSE index + c - w
        /\ b = IF index + win.stride < w THEN index + win.stride ELSE index + win.stride - w
    BY <1>9 DEF Syn!SlotAfter
  <2>2. (n = 0 /\ index = 0 /\ c = w) \/ (n >= w /\ c = win.stride)
    BY <1>15
  <2>3. a \in n + c - w + 1 .. n + c /\ a <= start
    BY <1>2, <1>5, <1>7, <2>1, <2>2, BeginningArrival
  <2>4. Syn!BeginningTuple(synopsis)' = arrivals'[a]
    BY <1>11, <1>17 DEF Syn!BeginningTuple
  <2>5. NextWindowStart' = start
    <3>1. NextWindowStart' = n' - win'.width + win'.stride + 1
      BY <1>9 DEF NextWindowStart
    <3>2. win'.width = w /\ win'.stride = win.stride
      BY <1>1
    <3>3. QED
      BY <1>2, <1>5, <1>7, <1>14, <3>1, <3>2
  <2>6. n + c \in Nat /\ n + c >= w /\ L' = n + c
    BY <1>2, <1>5, <1>7, <1>14, <1>15
  <2>7. a \in 1 .. L' /\ start \in Nat \ {0}
    <3>1. w \in Nat \ {0} /\ win.stride \in 1 .. w /\ c \in Nat /\ n \in Nat
      BY <1>2, <1>5, <1>7
    <3> HIDE DEF a, w, c, n
    <3>2. QED
      BY <2>3, <2>6, <3>1
  <2> HIDE DEF a, b, start
  <2>8. ASSUME start <= L'
        PROVE  arrivals'[a] <= arrivals'[start]
    <3>1. start \in 1 .. L'
      BY <2>6, <2>7, <2>8
    <3>2. arrivals'[a] = arrived' - L' + a /\ arrivals'[start] = arrived' - L' + start
      BY <1>13, <2>7, <3>1 DEF NumberingInv
    <3>3. arrived' \in Nat /\ L' \in Nat
      BY <1>12, <2>6 DEF TypeOK
    <3>4. QED
      BY <2>3, <2>7, <3>1, <3>2, <3>3
  <2>9. n' - win'.width + 1 = n + c - w + 1 /\ n' = n + c
    <3>1. win'.width = w
      BY <1>1
    <3>2. QED
      BY <1>2, <1>5, <1>7, <1>14, <3>1
  <2>10. \E j \in n' - win'.width + 1 .. n' : arrivals'[j] = Syn!BeginningTuple(synopsis)'
    BY <2>3, <2>4, <2>9
  <2>11. QED
    BY <2>4, <2>5, <2>8, <2>10 DEF EvictionSparesNextWindow
<1>20. QED
  BY <1>12, <1>13, <1>16, <1>18, <1>19

LEMMA NextPreserves == IInv /\ [Next]_vars => IInv'
<1> SUFFICES ASSUME IInv, [Next]_vars PROVE IInv'
  OBVIOUS
<1>1. CASE Enqueue
  BY <1>1, WaitingPreserves, CompletingPreserves
<1>2. CASE Reset
  BY <1>2, ResetPreserves
<1>3. CASE UNCHANGED vars
  BY <1>3 DEF vars, IInv, TypeOK, NumberingInv, NewcomersInv, RingInv, ArrivalIn,
     EvictionSparesNextWindow, AcceptedCount, NextWindowStart
<1>4. QED
  BY <1>1, <1>2, <1>3 DEF Next

(* The inductive invariant holds in every reachable state. *)
THEOREM Inductive == Spec => []IInv
BY InitIInv, NextPreserves, PTL DEF Spec

(* No slot index leaves the ring, and the newcomers never fill their own   *)
(* buffer without being accepted.                                          *)
THEOREM TypeCorrect == Spec => []TypeOK
<1>1. IInv => TypeOK
  BY DEF IInv
<1>2. QED
  BY <1>1, Inductive, PTL

(* For every width and stride, evicting up to the window-beginning tuple   *)
(* keeps the whole of the next window.                                     *)
THEOREM EvictionSafe == Spec => []EvictionSparesNextWindow
<1>1. IInv => EvictionSparesNextWindow
  BY DEF IInv
<1>2. QED
  BY <1>1, Inductive, PTL
-----------------------------------------------------------------------------
(* The multiples of the stride are a stride apart. *)
LEMMA NoMultipleBetween ==
    ASSUME NEW s \in Nat \ {0}, NEW k \in Nat, NEW m \in Nat, NEW j \in 1 .. s - 1
    PROVE  k * s + j # m * s
<1>1. CASE m <= k
  <2>1. m * s <= k * s
    BY <1>1
  <2>2. m * s \in Nat /\ k * s \in Nat
    OBVIOUS
  <2>3. QED
    BY <2>1, <2>2
<1>2. CASE m >= k + 1
  <2>1. m * s >= (k + 1) * s
    BY <1>2
  <2>2. (k + 1) * s = k * s + s
    OBVIOUS
  <2>3. m * s \in Nat /\ k * s \in Nat
    OBVIOUS
  <2>4. QED
    BY <2>1, <2>2, <2>3
<1>3. QED
  BY <1>1, <1>2

(* The synopsis accepts its newcomers exactly when the sliding window is   *)
(* due.                                                                    *)
LEMMA CompletesWhenDue ==
    IInv => (Syn!Completes(win, synopsis) <=> Sliding!Due(Len(arrivals) + 1))
<1> SUFFICES ASSUME IInv
             PROVE  Syn!Completes(win, synopsis) <=> Sliding!Due(Len(arrivals) + 1)
  OBVIOUS
<1> USE DEF IInv
<1> DEFINE n == AcceptedCount
           m == Len(synopsis.newcomers)
           L == Len(arrivals)
           w == win.width
           s == win.stride
<1>1. /\ w \in Nat \ {0} /\ s \in 1 .. w /\ m \in Nat /\ L \in Nat
      /\ m < Syn!Needed(win, synopsis)
  BY DEF TypeOK
<1>2. m <= L /\ L = n + m /\ n \in Nat
  <2>1. m <= L
    BY DEF NewcomersInv
  <2>2. QED
    BY <1>1, <2>1 DEF AcceptedCount
<1>3. CASE ~synopsis.filled
  <2>1. n = 0 /\ Syn!Needed(win, synopsis) = w
    BY <1>3 DEF NewcomersInv, Syn!Needed
  <2>2. ASSUME m + 1 = w
        PROVE  Sliding!Due(L + 1)
    <3>1. 0 \in 0 .. L + 1 /\ L + 1 = w + 0 * s
      BY <1>1, <1>2, <2>1, <2>2
    <3>2. QED
      BY <3>1 DEF Sliding!Due
  <2>3. ASSUME Sliding!Due(L + 1)
        PROVE  m + 1 = w
    <3>1. PICK k \in 0 .. L + 1 : L + 1 = w + k * s
      BY <2>3 DEF Sliding!Due
    <3>2. k * s >= 0
      BY <1>1
    <3>3. k * s \in Nat
      BY <1>1
    <3>4. QED
      BY <1>1, <1>2, <2>1, <3>1, <3>2, <3>3
  <2>4. QED
    BY <2>1, <2>2, <2>3 DEF Syn!Completes
<1>4. CASE synopsis.filled
  <2>1. Syn!Needed(win, synopsis) = s
    BY <1>4 DEF Syn!Needed
  <2>2. PICK k \in Nat : n = w + k * s
    BY <1>4 DEF NewcomersInv
  <2>3. k * s \in Nat /\ k * s + s = (k + 1) * s /\ k <= k * s
    BY <1>1
  <2>4. ASSUME m + 1 = s
        PROVE  Sliding!Due(L + 1)
    <3>1. L + 1 = w + (k + 1) * s
      <4> DEFINE ks == k * s
                 next == (k + 1) * s
      <4>1. n = w + ks /\ ks \in Nat /\ next = ks + s
        BY <2>2, <2>3
      <4> HIDE DEF ks, next, n, m, L, w, s
      <4>2. L + 1 = w + next
        BY <1>1, <1>2, <2>4, <4>1
      <4>3. QED
        BY <4>2 DEF next
    <3>2. k + 1 \in 0 .. L + 1
      <4> DEFINE ks == k * s
      <4>1. k \in Nat /\ ks \in Nat /\ k <= ks /\ n = w + ks
        BY <2>2, <2>3
      <4> HIDE DEF ks, n, m, L, w, s
      <4>2. QED
        BY <1>1, <1>2, <4>1
    <3>3. QED
      BY <3>1, <3>2 DEF Sliding!Due
  <2>5. ASSUME Sliding!Due(L + 1), m + 1 # s
        PROVE  FALSE
    <3>1. PICK j \in 0 .. L + 1 : L + 1 = w + j * s
      BY <2>5 DEF Sliding!Due
    <3>2. m + 1 \in 1 .. s - 1
      BY <1>1, <2>1, <2>5
    <3>3. j * s \in Nat
      BY <1>1, <1>2, <3>1
    <3>4. k * s + (m + 1) = j * s
      <4> DEFINE ks == k * s
                 js == j * s
      <4>1. n = w + ks /\ ks \in Nat /\ L + 1 = w + js /\ js \in Nat
        BY <2>2, <2>3, <3>1, <3>3
      <4> HIDE DEF ks, js, n, m, L, w, s
      <4>2. ks + (m + 1) = js
        BY <1>1, <1>2, <4>1
      <4>3. QED
        BY <4>2 DEF ks, js
    <3>5. s \in Nat \ {0} /\ j \in Nat
      BY <1>1, <1>2, <3>1
    <3> HIDE DEF m, s
    <3>6. k * s + (m + 1) # j * s
      BY <3>2, <3>5, NoMultipleBetween
    <3>7. QED
      BY <3>4, <3>6
  <2>6. QED
    BY <2>1, <2>4, <2>5 DEF Syn!Completes
<1>5. QED
  BY <1>3, <1>4

(* Read from the index on, a filled ring is the latest arrivals accepted.  *)
LEMMA RingIsLatest ==
    IInv /\ synopsis.filled /\ Len(synopsis.newcomers) = 0
        => Syn!WindowOf(win, synopsis) = Sliding!LatestOf(arrivals)
<1> SUFFICES ASSUME IInv, synopsis.filled, Len(synopsis.newcomers) = 0
             PROVE  Syn!WindowOf(win, synopsis) = Sliding!LatestOf(arrivals)
  OBVIOUS
<1> USE DEF IInv
<1> DEFINE n == AcceptedCount
           L == Len(arrivals)
           w == win.width
           index == synopsis.index
<1>1. /\ w \in Nat \ {0} /\ index \in 0 .. w - 1 /\ L \in Nat
      /\ n = L /\ n >= w /\ arrivals \in Seq(Tuples)
  BY DEF TypeOK, Syn!Slots, AcceptedCount, NewcomersInv
<1>2. ASSUME NEW j \in 1 .. w
      PROVE  synopsis.tuples[Syn!SlotAfter(win, index, j - 1)] = arrivals[L - w + j]
  <2> DEFINE slot == Syn!SlotAfter(win, index, j - 1)
  <2>1. slot \in 0 .. w - 1
    BY <1>1, SlotAfterInRing
  <2>2. slot = IF index + (j - 1) < w THEN index + (j - 1) ELSE index + (j - 1) - w
    BY DEF Syn!SlotAfter
  <2>3. ArrivalIn(slot) = ArrivalAt(n, index, w, slot)
    BY DEF ArrivalIn
  <2> HIDE DEF slot, n, L, w, index
  <2>4. ArrivalAt(n, index, w, slot) = L - w + j
    BY <1>1, <2>1, <2>2 DEF ArrivalAt
  <2>5. QED
    BY <2>1, <2>3, <2>4 DEF RingInv, Syn!Slots, slot, w, index
<1>3. Sliding!LatestOf(arrivals) = [j \in 1 .. w |-> arrivals[L - w + j]]
  <2>1. SubSeq(arrivals, L - w + 1, L)
            = [j \in 1 .. (L - (L - w + 1) + 1) |-> arrivals[(L - w + 1) + j - 1]]
    <3> DEFINE first == L - w + 1
    <3>1. first \in Int /\ L \in Int /\ arrivals \in Seq(Tuples)
      <4> HIDE DEF L, w
      <4>1. QED
        BY <1>1
    <3>2. SubSeq(arrivals, first, L) = [j \in 1 .. (L - first + 1) |-> arrivals[first + j - 1]]
      <4> HIDE DEF first, L
      <4>1. QED
        BY <3>1
    <3>3. QED
      BY <3>2
  <2>2. L - (L - w + 1) + 1 = w /\ \A j \in 1 .. w : (L - w + 1) + j - 1 = L - w + j
    <3> HIDE DEF L, w
    <3>1. QED
      BY <1>1
  <2>3. QED
    BY <2>1, <2>2 DEF Sliding!LatestOf
<1>4. QED
  BY <1>2, <1>3 DEF Syn!WindowOf

(* The ring buffer implements the sliding window: the initial states map   *)
(* to initial ones, a reset restarts the window, and a tuple arrives,      *)
(* whether or not it completes a window.                                   *)
THEOREM Refinement == Spec => IsSlidingWindow
<1> DEFINE window == IF synopsis.filled THEN Syn!WindowOf(win, synopsis) ELSE <<>>
<1>1. Init => Sliding!Init
  BY DEF Init, Sliding!Init, Syn!NewSynopsis
<1>2. IInv /\ IInv' /\ [Next]_vars => [Sliding!Next]_(Sliding!vars)
  <2> SUFFICES ASSUME IInv, IInv', [Next]_vars
               PROVE  [Sliding!Next]_(Sliding!vars)
    OBVIOUS
  <2>1. CASE Reset
    <3>1. ~synopsis'.filled /\ arrivals' = <<>> /\ win' = win
      BY <2>1 DEF Reset, Syn!Reset, IInv, TypeOK
    <3>2. Sliding!Restart
      BY <3>1 DEF Sliding!Restart
    <3>3. QED
      BY <3>2 DEF Sliding!Next
  <2>2. CASE Enqueue
    <3> DEFINE t == arrived + 1
    <3>1. /\ t \in Tuples /\ arrivals' = Append(arrivals, t) /\ win' = win
          /\ Len(arrivals') = Len(arrivals) + 1
      BY <2>2 DEF Enqueue, IInv, TypeOK, Tuples
    <3>2. CASE Syn!Completes(win, synopsis)
      <4>1. synopsis'.filled /\ synopsis'.newcomers = <<>>
        BY <2>2, <3>2 DEF Enqueue, Syn!Enqueued, Syn!Accepted
      <4>2. Syn!WindowOf(win, synopsis)' = Sliding!LatestOf(arrivals)'
        <5>1. (IInv /\ synopsis.filled /\ Len(synopsis.newcomers) = 0)'
          BY <4>1
        <5>2. (Syn!WindowOf(win, synopsis) = Sliding!LatestOf(arrivals))'
          BY <5>1, RingIsLatest, PTL
        <5>3. QED
          BY <5>2
      <4>3. Sliding!LatestOf(arrivals)' = Sliding!LatestOf(arrivals')
        BY <3>1 DEF Sliding!LatestOf
      <4>4. Sliding!Due(Len(arrivals'))
        BY <3>1, <3>2, CompletesWhenDue
      <4>5. Sliding!Arrive(t)
        BY <3>1, <4>1, <4>2, <4>3, <4>4 DEF Sliding!Arrive
      <4>6. QED
        BY <3>1, <4>5 DEF Sliding!Next
    <3>3. CASE ~Syn!Completes(win, synopsis)
      <4>1. synopsis' = [synopsis EXCEPT !.newcomers = Append(@, t)]
        BY <2>2, <3>3 DEF Enqueue, Syn!Enqueued
      <4>2. /\ synopsis'.filled = synopsis.filled /\ synopsis'.index = synopsis.index
            /\ synopsis'.tuples = synopsis.tuples
        BY <4>1 DEF IInv, TypeOK
      <4>3. Syn!WindowOf(win, synopsis)' = Syn!WindowOf(win, synopsis)
        BY <3>1, <4>2 DEF Syn!WindowOf, Syn!SlotAfter
      <4>4. ~Sliding!Due(Len(arrivals'))
        BY <3>1, <3>3, CompletesWhenDue
      <4>5. Sliding!Arrive(t)
        BY <3>1, <4>2, <4>3, <4>4 DEF Sliding!Arrive
      <4>6. QED
        BY <3>1, <4>5 DEF Sliding!Next
    <3>4. QED
      BY <3>2, <3>3
  <2>3. CASE UNCHANGED vars
    BY <2>3 DEF vars, Sliding!vars, Syn!WindowOf, Syn!SlotAfter
  <2>4. QED
    BY <2>1, <2>2, <2>3 DEF Next
<1>3. QED
  BY <1>1, <1>2, Inductive, PTL DEF Spec, Sliding!Spec, IsSlidingWindow
=============================================================================
