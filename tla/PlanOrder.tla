----------------------------- MODULE PlanOrder -----------------------------
(***************************************************************************)
(* The order in which a plan is executed.                                  *)
(*                                                                         *)
(* A plan is a list of statements, each tagged with the database it runs   *)
(* in; "" (here 0) is the cluster level and the other databases are        *)
(* numbered in the order sort.Slice puts their names.  The list is not     *)
(* grouped: the planner appends cluster, grant and default-privilege       *)
(* statements one after another, so the statements of one database are     *)
(* scattered over it.                                                      *)
(***************************************************************************)
EXTENDS Naturals

CONSTANTS
  Size,       \* the number of statements in the plan
  Databases,  \* the databases it may touch, 0 for the cluster level
  Atomic      \* Dialect.Atomic(): one transaction per database

\* main.go returns before Apply when the plan is empty.
ASSUME SizeAssumption == Size \in Nat \ {0}
ASSUME DatabasesAssumption == Databases \subseteq Nat
ASSUME AtomicAssumption == Atomic \in BOOLEAN

Statements == 1..Size

\* The plan under execution: database[i] is where statement i runs.  Any plan
\* may be given to Apply, and none changes while it is executed.
VARIABLE database

\* Plan.Databases() puts "" first and sorts the rest; within one database
\* applyStatements keeps the order of the list.
Before(j, k) ==
  \/ database[j] < database[k]
  \/ database[j] = database[k] /\ j < k

\* What takes effect together with statement k.
Unit(k) ==
  IF Atomic THEN {j \in Statements : database[j] = database[k]} ELSE {k}

\* k's unit is the one to take effect next when those of S have.
IsNext(S, k) ==
  /\ k \in Statements \ S
  /\ \A j \in Statements \ S : j \in Unit(k) \/ Before(k, j)

\* S holds everything that comes before any of its members.
IsPrefix(S) == \A k \in S : \A j \in Statements : Before(j, k) => j \in S
=============================================================================
