----------------------- MODULE MCRelationTransaction -----------------------
(***************************************************************************)
(* Three reference operators on two relations, so that two of them share a *)
(* relation and the third does not, and an updater for each relation.      *)
(***************************************************************************)
EXTENDS RelationTransaction, TLC

CONSTANTS R, S, updateR, updateS

MCRelationOf == 1 :> R @@ 2 :> S @@ 3 :> R
MCUpdatedBy == updateR :> R @@ updateS :> S
=============================================================================
