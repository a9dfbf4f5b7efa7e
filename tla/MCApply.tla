------------------------------ MODULE MCApply ------------------------------
(***************************************************************************)
(* Apply on every plan of Size statements over Databases: the statements   *)
(* of one database may come in one run or be scattered over the list, as   *)
(* the planner leaves them when default privileges follow the grants of    *)
(* all databases and a release at cluster level follows everything.        *)
(***************************************************************************)
EXTENDS ApplyScript

MCFaults == FaultKinds
=============================================================================
