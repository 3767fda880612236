------------------------- MODULE MCContinuousQuery -------------------------
(***************************************************************************)
(* Short chains over two relations, under every concurrency control.       *)
(***************************************************************************)
EXTENDS ContinuousQuery, TLC

CONSTANTS R, S

Op(kind) == [kind |-> kind]
Combine(r) == [kind |-> "combine", relation |-> r]

PlanCombine == <<Op("adapter"), Combine(R), Op("mean")>>
PlanSelect == <<Op("adapter"), Combine(R), Op("select"), Op("mean")>>
PlanProject == <<Op("adapter"), Combine(R), Op("project"), Op("mean")>>
PlanTwo == <<Op("adapter"), Combine(R), Combine(S), Op("mean")>>

Window(width, stride) == [width |-> width, stride |-> stride]

Query_(mode, plan, win, batch, joint, efficient) ==
    [mode |-> mode, plan |-> plan, win |-> win, batch |-> batch, joint |-> joint,
     efficient |-> efficient]

(* Sliding and tumbling windows in every mode, with batches of one and two *)
(* tuples; transactions of two windows; efficient scheduling.              *)
MCConfigurations ==
    {Query_(mode, PlanCombine, win, 1, 1, FALSE) :
        mode \in CCModes, win \in {Window(2, 1), Window(2, 2)}}
    \cup {Query_(mode, PlanSelect, Window(3, 2), 2, 1, FALSE) : mode \in CCModes}
    \cup {Query_(mode, PlanTwo, Window(2, 1), 1, 1, FALSE) : mode \in PessimisticModes}
    \cup {Query_(mode, PlanCombine, Window(2, 2), 1, 2, FALSE) : mode \in PessimisticModes}
    \cup {Query_("OPTIMISTIC", PlanCombine, Window(3, 1), 2, 1, TRUE)}
    \cup {Query_(mode, PlanProject, Window(3, 2), 1, 1, FALSE) : mode \in PessimisticModes}

(* A pessimistic control over windows that overlap. *)
MCOverlapping == {Query_(mode, PlanCombine, Window(2, 1), 1, 1, FALSE) : mode \in PessimisticModes}

(* A pessimistic control over tumbling windows, operators called twice.    *)
MCBatched == {Query_(mode, PlanCombine, Window(2, 2), 2, 1, FALSE) : mode \in PessimisticModes}

(* The optimistic control, where tuples go through a project, or through a *)
(* second combine, after the combine whose version they refer to.          *)
MCMadeAnew == {Query_("OPTIMISTIC", plan, Window(2, 1), 1, 1, FALSE) : plan \in {PlanProject, PlanTwo}}

MCMatches == [r \in Relations |-> [k \in Arrivals |-> IF k = 3 THEN 0 ELSE 1]]
=============================================================================
