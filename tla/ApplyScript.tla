---------------------------- MODULE ApplyScript ----------------------------
(***************************************************************************)
(* The two ways a plan is executed, side by side: by Apply, and by psql    *)
(* from the script WriteSQL makes of it.                                   *)
(***************************************************************************)
EXTENDS Apply, Script

\* "mirroring Apply, so a failure leaves that database untouched" (sql.go:10-16
\* and docs/commands.md): a run of apply and a run of the script it could have
\* written, both stopped anywhere, leave the same states behind, and neither
\* stops in one the other could not.  (The executor's half of the equality is
\* this invariant over all its runs, the script's half is the quantifier.)
ScriptMirrorsApply ==
  pc \in Final =>
    LET stops == {LeftBy(lines) : lines \in Stops} IN
      /\ InItsDatabase(applied) \in stops
      /\ pc = "done" => InItsDatabase(applied) = LeftBy(Script)
      /\ \A left \in stops :
           \E S \in SUBSET Statements :
             /\ left = InItsDatabase(S)
             /\ IsPrefix(S)
             /\ Atomic => \A k \in S : Unit(k) \subseteq S
=============================================================================
