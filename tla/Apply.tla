------------------------------- MODULE Apply -------------------------------
(***************************************************************************)
(* The executor, internal/plan/apply.go: one connection per database, one  *)
(* transaction per database or per statement depending on the dialect, a   *)
(* bounded retry of serialization failures, and an early return at the     *)
(* first error.  The server may answer 40001, answer another error, drop   *)
(* the connection before or after a statement took effect; the process may *)
(* be killed between any two steps.                                        *)
(***************************************************************************)
EXTENDS PlanOrder

CONSTANTS
  OccRetries,     \* occRetries
  MaxConflicts,   \* bound: how many 40001 answers in a row one statement gets
  Faults          \* the faults, other than 40001, this instance may see

FaultKinds == {"connect", "begin", "error", "lost", "commit", "cancel", "kill"}

ASSUME OccRetriesAssumption == OccRetries \in Nat
ASSUME MaxConflictsAssumption == MaxConflicts \in Nat
ASSUME FaultsAssumption == Faults \subseteq FaultKinds

VARIABLES
  pc,        \* what Apply does next
  cur,       \* the statement it is at; in "connect" the first of its database
  attempt,   \* execRetrying's counter
  applied,   \* statements whose effect is in the catalog for good
  pending,   \* statements executed in the open transaction
  tx,        \* the transaction: "none", "open", or "aborted" by the server
  sends,     \* history: how often each statement was sent
  last       \* the statement the log names last, 0 before the first

vars == <<database, pc, cur, attempt, applied, pending, tx, sends, last>>

Final == {"done", "failed"}
InTx == {"exec", "backoff", "commit"}

\* The definitions marked "Mutant" are the next one with a bug in it; each must
\* break the property PROJECT.json names.

\* Mutant: the retries of applyStatements do not depend on the mode.
RetriesInTx == OccRetries

\* The retries argument of applyStatements: none inside a transaction.
Retries == IF Atomic THEN 0 ELSE OccRetries

\* The statements of cur's database still to come, and of the databases after.
LaterHere == {j \in Statements : database[j] = database[cur] /\ cur < j}
LaterDatabases == {j \in Statements : database[cur] < database[j]}

\* Mutant: databases are visited in the order the plan mentions them.
FirstMentioned(S, k) == k \in S /\ \A j \in S : k <= j

First(S, k) == k \in S /\ \A j \in S : j = k \/ Before(k, j)

Init ==
  /\ database \in [Statements -> Databases]
  /\ pc = "connect"
  /\ cur \in Statements
  /\ First(Statements, cur)
  /\ attempt = 0
  /\ applied = {} /\ pending = {} /\ tx = "none"
  /\ sends = [i \in Statements |-> 0]
  /\ last = 0

----------------------------------------------------------------------------
(* Returning an error: the deferred Rollback and Close drop the transaction. *)
Fail == pc' = "failed" /\ pending' = {} /\ tx' = "none"

\* connector.Connect
Connect ==
  /\ pc = "connect"
  /\ \/ pc' = (IF Atomic THEN "begin" ELSE "exec") /\ UNCHANGED <<pending, tx>>
     \/ "connect" \in Faults /\ Fail
  /\ UNCHANGED <<cur, attempt, applied, sends, last>>

\* conn.Begin
Begin ==
  /\ pc = "begin"
  /\ \/ pc' = "exec" /\ tx' = "open" /\ UNCHANGED pending
     \/ "begin" \in Faults /\ Fail
  /\ UNCHANGED <<cur, attempt, applied, sends, last>>

\* Mutant: a statement is not logged when it is sent.
SendUnlogged ==
  /\ pc = "exec"
  /\ sends' = [sends EXCEPT ![cur] = @ + 1]
  /\ last' = last

\* What every attempt does: the log names the statement (before its first
\* attempt), and the server is sent it.
Send ==
  /\ pc = "exec"
  /\ sends' = [sends EXCEPT ![cur] = @ + 1]
  /\ last' = cur

\* Mutant: the outer loop goes on at the next index of the list.
NextIndex == pc' = "connect" /\ cur' = cur + 1

\* Mutant: the outer loop ranges over a map and not over a sorted slice.
AnyDatabase ==
  \/ \E k \in LaterDatabases :
       (\A j \in LaterDatabases : database[j] = database[k] => k <= j)
       /\ cur' = k /\ pc' = "connect"
  \/ LaterDatabases = {} /\ pc' = "done" /\ UNCHANGED cur

\* The outer loop: connect to the next of Plan.Databases(), or return.
NextDatabase ==
  \/ \E k \in LaterDatabases :
       First(LaterDatabases, k) /\ cur' = k /\ pc' = "connect"
  \/ LaterDatabases = {} /\ pc' = "done" /\ UNCHANGED cur

\* Mutant: the transaction is not committed.
AdvanceUncommitted ==
  \/ \E k \in LaterHere : First(LaterHere, k) /\ cur' = k /\ pc' = "exec"
  \/ LaterHere = {} /\ NextDatabase

\* The inner loop: the next statement of this database, else the commit or,
\* without a transaction, the next database.
Advance ==
  \/ \E k \in LaterHere : First(LaterHere, k) /\ cur' = k /\ pc' = "exec"
  \/ LaterHere = {} /\ Atomic /\ pc' = "commit" /\ UNCHANGED cur
  \/ LaterHere = {} /\ ~Atomic /\ NextDatabase

\* Mutant: applyStatements is handed the connection instead of the transaction.
TakeEffectAtOnce == applied' = applied \cup {cur} /\ UNCHANGED pending

\* The server executes a statement of an open transaction, or in one of its own.
TakeEffect ==
  \/ Atomic /\ pending' = pending \cup {cur} /\ UNCHANGED applied
  \/ ~Atomic /\ applied' = applied \cup {cur} /\ UNCHANGED pending

ExecOk ==
  /\ Send
  /\ tx # "aborted"
  /\ TakeEffect
  /\ Advance
  /\ attempt' = 0
  /\ UNCHANGED tx

\* Mutant: the last attempt is one short.
ExecConflictEarly ==
  /\ Send
  /\ attempt < MaxConflicts
  /\ \/ attempt + 1 = Retries /\ Fail
     \/ /\ attempt + 1 # Retries
        /\ pc' = "backoff"
        /\ tx' = IF Atomic THEN "aborted" ELSE tx
        /\ UNCHANGED pending
  /\ UNCHANGED <<cur, attempt, applied>>

\* SQLSTATE 40001.  The last attempt's error is returned, an earlier one's
\* leads to the backoff.
ExecConflict ==
  /\ Send
  /\ attempt < MaxConflicts
  /\ \/ attempt = Retries /\ Fail
     \/ /\ attempt # Retries
        /\ pc' = "backoff"
        /\ tx' = IF Atomic THEN "aborted" ELSE tx
        /\ UNCHANGED pending
  /\ UNCHANGED <<cur, attempt, applied>>

\* Mutant: an error is logged and the next statement is tried.
ExecErrorSkips ==
  /\ "error" \in Faults
  /\ Send
  /\ Advance
  /\ UNCHANGED <<attempt, applied, pending, tx>>

\* Any other error of the server.
ExecError ==
  /\ "error" \in Faults
  /\ Send
  /\ Fail
  /\ UNCHANGED <<cur, attempt, applied>>

\* Mutant: a lost answer is taken for a failure worth a retry.
ExecLostRetries ==
  /\ "lost" \in Faults
  /\ Send
  /\ \/ UNCHANGED applied
     \/ ~Atomic /\ applied' = applied \cup {cur}
  /\ UNCHANGED <<pc, cur, attempt, pending, tx>>

\* The connection breaks: the statement may have run, its answer is lost.
ExecLost ==
  /\ "lost" \in Faults
  /\ Send
  /\ \/ UNCHANGED applied
     \/ ~Atomic /\ applied' = applied \cup {cur}
  /\ Fail
  /\ UNCHANGED <<cur, attempt>>

\* Mutant: the loop does not count its attempts.
BackoffUncounted ==
  /\ pc = "backoff"
  /\ \/ pc' = "exec" /\ UNCHANGED <<pending, tx>>
     \/ "cancel" \in Faults /\ Fail
  /\ UNCHANGED <<cur, attempt, applied, sends, last>>

\* The select on the timer and on ctx.Done().
Backoff ==
  /\ pc = "backoff"
  /\ \/ pc' = "exec" /\ attempt' = attempt + 1 /\ UNCHANGED <<pending, tx>>
     \/ "cancel" \in Faults /\ Fail /\ UNCHANGED attempt
  /\ UNCHANGED <<cur, applied, sends, last>>

\* tx.Commit; its answer, too, can be lost after it took effect.
Commit ==
  /\ pc = "commit"
  /\ \/ /\ applied' = applied \cup pending
        /\ \/ NextDatabase /\ pending' = {} /\ tx' = "none"
           \/ "lost" \in Faults /\ Fail /\ UNCHANGED cur
     \/ "commit" \in Faults /\ Fail /\ UNCHANGED <<cur, applied>>
  /\ UNCHANGED <<attempt, sends, last>>

\* The process dies; the server rolls an open transaction back.
Kill ==
  /\ "kill" \in Faults
  /\ pc \notin Final
  /\ Fail
  /\ UNCHANGED <<cur, attempt, applied, sends, last>>

Progress ==
  /\ \/ Connect \/ Begin
     \/ ExecOk \/ ExecConflict \/ ExecError \/ ExecLost
     \/ Backoff \/ Commit
  /\ UNCHANGED database

Next == Progress \/ (Kill /\ UNCHANGED database)

\* The executor is one synchronous loop: it keeps going until it returns.
Spec == Init /\ [][Next]_vars /\ WF_vars(Progress)

----------------------------------------------------------------------------
TypeOK ==
  /\ database \in [Statements -> Databases]
  /\ pc \in {"connect", "begin"} \cup InTx \cup Final
  /\ cur \in Statements
  /\ attempt \in Nat
  /\ applied \subseteq Statements
  /\ pending \subseteq Statements
  /\ tx \in {"none", "open", "aborted"}
  /\ sends \in [Statements -> Nat]
  /\ last \in 0..Size

\* apply.go:20-24: what is in the catalog is always a prefix of the plan in
\* its execution order, cluster level first, whatever failed and wherever.
PrefixApplied == IsPrefix(applied)

\* apply.go:20-23: where DDL is transactional a database is never left with
\* some of its statements only.
WholeDatabases == Atomic => \A k \in applied : Unit(k) \subseteq applied

\* apply.go:79-93: a statement is never sent again once it took effect; a
\* retry follows a 40001 only, which guarantees that nothing happened.
NeverTwice == pc \in {"exec", "backoff"} => cur \notin applied \cup pending

\* apply.go:16-18, 42-45, 79-93: at most Retries + 1 attempts per statement,
\* and none in a transaction the server has already aborted, which would
\* answer 25P02 and hide the real error.
BoundedAttempts ==
  /\ \A i \in Statements : sends[i] <= Retries + 1
  /\ pc \in {"exec", "backoff"} => tx # "aborted"

\* apply.go:25-28: without transactions the log's last line is the point of
\* failure: all it named before is in effect and nothing it has not named is.
LogTellsPoint ==
  ~Atomic => \A i \in Statements :
    /\ i \in applied => last # 0 /\ (i = last \/ Before(i, last))
    /\ last # 0 /\ Before(i, last) => i \in applied

\* main.go:130-133: "Applied N statement(s)" is printed only if all N are.
DoneMeansAll == pc = "done" => applied = Statements

\* apply.go:20-59 seen as units that commit in order.
Outcome == IF pc \in Final THEN pc ELSE "running"
Abstract == INSTANCE ApplySpec WITH outcome <- Outcome
ImplementsSpec == Abstract!Spec

\* apply.go:16-18: the error of a serialization failure is returned only after
\* every retry the mode has was used up, the one attempt inside a transaction.
GivesUpLate ==
  [][ExecConflict /\ pc' = "failed" => sends'[cur] = Retries + 1]_vars
=============================================================================
