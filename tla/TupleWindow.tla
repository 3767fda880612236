---------------------------- MODULE TupleWindow ----------------------------
(***************************************************************************)
(* A TupleBaseSynopsis as its aggregation operator uses it: one tuple      *)
(* after another is enqueued, and from time to time, when a transaction    *)
(* ends or its consistency is lost, the scheduler resets it.  The tuples   *)
(* are numbered in their order of arrival, which is what their low water   *)
(* marks are compared by.                                                  *)
(***************************************************************************)
EXTENDS Naturals, Sequences

CONSTANTS
    NoTuple,       \* what an unused slot holds
    MaxWidth,      \* bound: the windows checked are this wide at most
    MaxArrivals    \* bound: the number of tuples that arrive

ASSUME BoundsAssumption ==
    MaxWidth \in Nat \ {0} /\ MaxArrivals \in Nat /\ NoTuple \notin 1 .. MaxArrivals

VARIABLES
    win,        \* the window's width and stride
    synopsis,   \* the ring buffer
    arrived,    \* the number of the latest tuple
    arrivals    \* history: the tuples since the last reset

vars == <<win, synopsis, arrived, arrivals>>

Syn == INSTANCE TupleSynopsis

Tuples == 1 .. MaxArrivals

TypeOK ==
    /\ win \in [width : 1 .. MaxWidth, stride : 1 .. MaxWidth]
    /\ win.stride <= win.width
    /\ arrived \in 0 .. MaxArrivals
    /\ arrivals \in Seq(Tuples)
    /\ synopsis \in [index : Syn!Slots(win), beginning : Syn!Slots(win), filled : BOOLEAN,
                     newcomers : Seq(Tuples),
                     tuples : [Syn!Slots(win) -> Tuples \cup {NoTuple}]]
    /\ Len(synopsis.newcomers) < Syn!Needed(win, synopsis)

Init ==
    /\ win \in [width : 1 .. MaxWidth, stride : 1 .. MaxWidth]
    /\ win.stride <= win.width
    /\ synopsis = Syn!NewSynopsis(win)
    /\ arrived = 0
    /\ arrivals = <<>>

Enqueue ==
    /\ arrived < MaxArrivals
    /\ arrived' = arrived + 1
    /\ arrivals' = Append(arrivals, arrived')
    /\ synopsis' = Syn!Enqueued(win, synopsis, arrived')
    /\ UNCHANGED win

Reset ==
    /\ synopsis' = Syn!Reset(synopsis)
    /\ arrivals' = <<>>
    /\ UNCHANGED <<win, arrived>>

Next == Enqueue \/ Reset

Spec == Init /\ [][Next]_vars
-----------------------------------------------------------------------------
(* The number of tuples since the last reset that have been accepted.      *)
AcceptedCount == Len(arrivals) - Len(synopsis.newcomers)

(* Where the next window begins among the tuples since the last reset.     *)
NextWindowStart ==
    IF synopsis.filled THEN AcceptedCount - win.width + win.stride + 1 ELSE 1

(* The tuple whose low water mark a commit evicts up to is one of the      *)
(* window just completed and not later than the first tuple of the next    *)
(* window, so the backup keeps every tuple that the next window needs.     *)
EvictionSparesNextWindow ==
    synopsis.filled =>
        LET first == Syn!BeginningTuple(synopsis)
        IN  /\ \E j \in AcceptedCount - win.width + 1 .. AcceptedCount : arrivals[j] = first
            /\ NextWindowStart <= Len(arrivals) => first <= arrivals[NextWindowStart]

(* The slots are always the latest window, in whatever order, as soon as   *)
(* there is one: the ring implements the sliding window.                   *)
Sliding == INSTANCE SlidingWindow WITH
    width <- win.width,
    stride <- win.stride,
    window <- IF synopsis.filled THEN Syn!WindowOf(win, synopsis) ELSE <<>>

IsSlidingWindow == Sliding!Spec
=============================================================================
