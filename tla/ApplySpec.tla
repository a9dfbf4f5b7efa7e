----------------------------- MODULE ApplySpec -----------------------------
(***************************************************************************)
(* What plan.Apply promises, without connections, transactions or retries: *)
(* the plan takes effect unit by unit, in order, and a run ends either     *)
(* reporting success, with the whole plan in effect, or reporting an       *)
(* error, with a prefix of it in effect.  A unit is a database's           *)
(* statements where the engine has transactional DDL, one statement where  *)
(* it has not.                                                             *)
(***************************************************************************)
EXTENDS PlanOrder

VARIABLES
  applied,   \* the statements whose effect is in the catalog for good
  outcome    \* "running", or what the run reported: "done", "failed"

vars == <<database, applied, outcome>>

Init ==
  /\ database \in [Statements -> Databases]
  /\ applied = {}
  /\ outcome = "running"

\* The next unit takes effect.  The run may learn of it and go on or finish,
\* or lose the answer and report an error.
CommitUnit ==
  /\ outcome = "running"
  /\ \E k \in Statements :
       /\ IsNext(applied, k)
       /\ applied' = applied \cup Unit(k)
  /\ \/ outcome' \in {"running", "failed"}
     \/ outcome' = "done" /\ applied' = Statements

\* The run stops at an error that left nothing new behind.
Stop == outcome = "running" /\ outcome' = "failed" /\ UNCHANGED applied

Next == (CommitUnit \/ Stop) /\ UNCHANGED database

Spec == Init /\ [][Next]_vars
=============================================================================
