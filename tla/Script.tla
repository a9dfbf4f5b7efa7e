------------------------------- MODULE Script -------------------------------
(***************************************************************************)
(* The plan as a psql script, internal/plan/sql.go, and what psql does     *)
(* with it: `plan -o FILE`, run later with ON_ERROR_STOP, is the other way *)
(* a plan is executed.                                                     *)
(***************************************************************************)
EXTENDS PlanOrder

\* A line: the database whose part of the script it is in, its place there, what
\* it says, and the statement it says it of.  Comments are left out.
Line(db, place, word, of) == [db |-> db, place |-> place, word |-> word, of |-> of]

\* Plan.Databases() in order, and the order of each part; the statements of a
\* database share a place and are in the order of the plan.
Above(l, m) ==
  \/ l.db < m.db
  \/ l.db = m.db /\ l.place < m.place
  \/ l.db = m.db /\ l.place = m.place /\ l.of < m.of

\* Plan.Databases(): the databases of the plan.
TouchedDatabases == {database[i] : i \in Statements}

\* Mutant: the transaction of the database before is committed once the next
\* one is connected to.
BlockLateCommit(db) ==
  (IF db = 0 THEN {} ELSE {Line(db, 0, "connect", 0)})
  \cup (IF Atomic THEN {Line(db, 1, "commit", 0), Line(db, 2, "begin", 0)} ELSE {})
  \cup {Line(db, 2, "sql", i) : i \in {j \in Statements : database[j] = db}}

\* Mutant: a transaction is opened whatever the engine.
BlockAlwaysBegins(db) ==
  (IF db = 0 THEN {} ELSE {Line(db, 0, "connect", 0)})
  \cup {Line(db, 1, "begin", 0), Line(db, 3, "commit", 0)}
  \cup {Line(db, 2, "sql", i) : i \in {j \in Statements : database[j] = db}}

\* One database's part of the script: \connect, BEGIN, its statements in the
\* order of the plan, COMMIT.
Block(db) ==
  (IF db = 0 THEN {} ELSE {Line(db, 0, "connect", 0)})
  \cup (IF Atomic THEN {Line(db, 1, "begin", 0), Line(db, 3, "commit", 0)} ELSE {})
  \cup {Line(db, 2, "sql", i) : i \in {j \in Statements : database[j] = db}}

\* WriteSQL
Script == UNION {Block(db) : db \in TouchedDatabases}

----------------------------------------------------------------------------
(* psql.  A session is the database it is connected to, whether it is in a *)
(* transaction, and what it has executed, there and for good, each         *)
(* statement with the database it ran in.                                  *)

Fresh == [at |-> 0, in |-> FALSE, open |-> {}, kept |-> {}]

\* \connect silently drops an open transaction.
RunLine(psql, l) ==
  CASE l.word = "connect" -> [psql EXCEPT !.at = l.db, !.in = FALSE, !.open = {}]
    [] l.word = "begin" -> [psql EXCEPT !.in = TRUE]
    [] l.word = "commit" -> [psql EXCEPT !.in = FALSE, !.kept = @ \cup psql.open, !.open = {}]
    [] l.word = "sql" /\ psql.in -> [psql EXCEPT !.open = @ \cup {<<psql.at, l.of>>}]
    [] l.word = "sql" /\ ~psql.in -> [psql EXCEPT !.kept = @ \cup {<<psql.at, l.of>>}]

\* With ON_ERROR_STOP the session ends at the first error, after the lines
\* above it.
Stops == {{m \in Script : Above(m, l)} : l \in Script} \cup {Script}

\* What a script that ran these lines leaves behind.
LeftBy(lines) ==
  LET after[S \in SUBSET lines] ==
        IF S = {} THEN Fresh
        ELSE LET l == CHOOSE x \in S : \A m \in S \ {x} : Above(m, x)
             IN RunLine(after[S \ {l}], l)
  IN after[lines].kept

InItsDatabase(S) == {<<database[i], i>> : i \in S}
=============================================================================
