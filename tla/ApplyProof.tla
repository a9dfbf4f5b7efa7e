----------------------------- MODULE ApplyProof -----------------------------
(***************************************************************************)
(* Proofs about the executor, for every plan, every number of retries and  *)
(* every set of faults, and about the script it mirrors.                   *)
(***************************************************************************)
EXTENDS ApplyScript, FiniteSetTheorems, WellFoundedInduction, TLAPS

----------------------------------------------------------------------------
(* The inductive invariant.                                                *)

\* What must be in the catalog for good while the run is at cur.
Reached ==
  IF Atomic THEN {j \in Statements : database[j] < database[cur]}
            ELSE {j \in Statements : Before(j, cur)}

\* What must be in the open transaction.
Open ==
  CASE Atomic /\ pc \in {"exec", "backoff"} ->
         {j \in Statements : database[j] = database[cur] /\ j < cur}
    [] Atomic /\ pc = "commit" ->
         {j \in Statements : database[j] = database[cur]}
    [] OTHER -> {}

\* Where the run stands determines what has taken effect.
Position ==
  /\ pc \notin Final => applied = Reached /\ pending = Open
  /\ pc \in {"connect", "begin"} =>
       \A j \in Statements : database[j] = database[cur] => cur <= j
  /\ pc \in {"begin", "commit"} => Atomic
  /\ pc = "done" => applied = Statements

\* What a run leaves behind, however it ended.
Leaves == IsPrefix(applied) /\ WholeDatabases

\* Attempts made and attempts to come.
Attempts ==
  /\ tx # "aborted"
  /\ \A i \in Statements : sends[i] <= Retries + 1
  /\ attempt <= Retries
  /\ pc \in {"connect", "begin", "commit"} => attempt = 0
  /\ pc \notin Final =>
       \A i \in Statements : Before(cur, i) => sends[i] = 0
  /\ pc \in {"connect", "begin", "exec"} => sends[cur] = attempt
  /\ pc = "backoff" => sends[cur] = attempt + 1 /\ attempt < Retries

\* The log never runs ahead of the run by more than the current statement.
Logged ==
  ~Atomic =>
    /\ LogTellsPoint
    /\ pc \notin Final => last = 0 \/ last = cur \/ Before(last, cur)

IInv == TypeOK /\ Position /\ Leaves /\ Attempts /\ Logged

----------------------------------------------------------------------------
(* The execution order is total and transitive on the statements.          *)
LEMMA BeforeTotal ==
  ASSUME database \in [Statements -> Databases],
         NEW j \in Statements, NEW k \in Statements
  PROVE  /\ j = k \/ Before(j, k) \/ Before(k, j)
         /\ ~(Before(j, k) /\ Before(k, j))
         /\ ~Before(j, j)
<1>1. j \in Nat /\ k \in Nat
  BY SizeAssumption DEF Statements
<1>2. database[j] \in Nat /\ database[k] \in Nat
  BY DatabasesAssumption
<1>3. QED
  BY <1>1, <1>2 DEF Before

LEMMA BeforeTransitive ==
  ASSUME database \in [Statements -> Databases],
         NEW i \in Statements, NEW j \in Statements, NEW k \in Statements,
         Before(i, j), Before(j, k)
  PROVE  Before(i, k)
<1>1. i \in Nat /\ j \in Nat /\ k \in Nat
  BY SizeAssumption DEF Statements
<1>2. database[i] \in Nat /\ database[j] \in Nat /\ database[k] \in Nat
  BY DatabasesAssumption
<1>3. QED
  BY <1>1, <1>2 DEF Before

----------------------------------------------------------------------------
(* Sending a statement keeps the types of what it changes.                 *)
LEMMA SendTypes ==
  ASSUME TypeOK, Send
  PROVE  sends' \in [Statements -> Nat] /\ last' \in 0..Size
<1>1. sends[cur] + 1 \in Nat
  BY DEF TypeOK
<1>2. sends' \in [Statements -> Nat]
  BY <1>1 DEF TypeOK, Send
<1>3. last' \in 0..Size
  BY SizeAssumption DEF TypeOK, Send, Statements
<1>4. QED
  BY <1>2, <1>3

(* Every step keeps the types.                                            *)
LEMMA TypeStep == TypeOK /\ [Next]_vars => TypeOK'
<1> SUFFICES ASSUME TypeOK, [Next]_vars PROVE TypeOK'
  OBVIOUS
<1> USE DEF TypeOK, InTx, Final
<1>1. CASE UNCHANGED vars
  BY <1>1 DEF vars
<1>2. CASE Connect /\ UNCHANGED database
  BY <1>2 DEF Connect, Fail
<1>3. CASE Begin /\ UNCHANGED database
  BY <1>3 DEF Begin, Fail
<1>4. CASE ExecOk /\ UNCHANGED database
  <2>1. cur' \in Statements /\ pc' \in {"connect", "begin"} \cup InTx \cup Final
    BY <1>4 DEF ExecOk, Send, Advance, NextDatabase, First, LaterHere, LaterDatabases
  <2>2. applied' \subseteq Statements /\ pending' \subseteq Statements
    BY <1>4 DEF ExecOk, TakeEffect
  <2>3. QED
    BY <1>4, <2>1, <2>2, SendTypes DEF ExecOk
<1>5. CASE ExecConflict /\ UNCHANGED database
  BY <1>5, SendTypes DEF ExecConflict, Fail
<1>6. CASE ExecError /\ UNCHANGED database
  BY <1>6, SendTypes DEF ExecError, Fail
<1>7. CASE ExecLost /\ UNCHANGED database
  <2>1. applied' \subseteq Statements
    BY <1>7 DEF ExecLost
  <2>2. QED
    BY <1>7, <2>1, SendTypes DEF ExecLost, Fail
<1>8. CASE Backoff /\ UNCHANGED database
  BY <1>8 DEF Backoff, Fail
<1>9. CASE Commit /\ UNCHANGED database
  BY <1>9 DEF Commit, NextDatabase, First, LaterDatabases, Fail
<1>10. CASE Kill /\ UNCHANGED database
  BY <1>10 DEF Kill, Fail
<1>11. QED
  BY <1>1, <1>2, <1>3, <1>4, <1>5, <1>6, <1>7, <1>8, <1>9, <1>10 DEF Next, Progress

(* The arithmetic every step below needs: indices and databases are numbers. *)
LEMMA Numbers ==
  ASSUME TypeOK
  PROVE  /\ cur \in Nat /\ cur \in Statements
         /\ \A j \in Statements : j \in Nat /\ database[j] \in Nat
<1>1. \A j \in Statements : j \in Nat
  BY SizeAssumption DEF Statements
<1>2. \A j \in Statements : database[j] \in Nat
  BY DatabasesAssumption DEF TypeOK
<1>3. QED
  BY <1>1, <1>2 DEF TypeOK

----------------------------------------------------------------------------
(* The inductive invariant holds initially.                                *)
LEMMA InitInvariant == Init => IInv
<1> SUFFICES ASSUME Init PROVE IInv
  OBVIOUS
<1>1. TypeOK
  <2>1. sends \in [Statements -> Nat] /\ last \in 0..Size
    BY SizeAssumption DEF Init
  <2>2. QED
    BY <2>1 DEF Init, TypeOK
<1>2. \A j \in Statements : j = cur \/ Before(cur, j)
  BY DEF Init, First
<1>3. Reached = {} /\ Open = {}
  <2>1. \A j \in Statements : ~Before(j, cur)
    BY <1>1, <1>2, BeforeTotal DEF TypeOK
  <2>2. QED
    BY <2>1 DEF Reached, Open, Before, Init
<1>4. Position
  <2>1. \A j \in Statements : database[j] = database[cur] => cur <= j
    <3>1. ASSUME NEW j \in Statements, database[j] = database[cur] PROVE cur <= j
      <4>1. j \in Nat /\ cur \in Nat
        BY <1>1, SizeAssumption DEF TypeOK, Statements
      <4>2. database[j] \in Nat
        BY <1>1, DatabasesAssumption DEF TypeOK
      <4>3. QED
        BY <1>2, <3>1, <4>1, <4>2 DEF Before
    <3>2. QED
      BY <3>1
  <2>2. QED
    BY <1>3, <2>1 DEF Position, Init, Final
<1>5. Leaves
  BY DEF Leaves, IsPrefix, WholeDatabases, Init
<1>6. Attempts
  <2>1. Retries \in Nat
    BY OccRetriesAssumption DEF Retries
  <2>2. \A i \in Statements : sends[i] = 0
    BY DEF Init
  <2>3. QED
    BY <1>1, <2>1, <2>2 DEF Attempts, Init, TypeOK
<1>7. Logged
  BY <1>2, <1>3 DEF Logged, LogTellsPoint, Init
<1>8. QED
  BY <1>1, <1>4, <1>5, <1>6, <1>7 DEF IInv

(* The first statement of the databases to come is the first of its own.   *)
LEMMA FirstOfLater ==
  ASSUME TypeOK, NEW k \in LaterDatabases, First(LaterDatabases, k)
  PROVE  /\ k \in Statements /\ database[cur] < database[k]
         /\ \A j \in Statements : database[cur] < database[j] =>
              database[k] < database[j] \/ (database[k] = database[j] /\ k <= j)
<1>1. k \in Statements /\ database[cur] < database[k]
  BY DEF LaterDatabases
<1>2. ASSUME NEW j \in Statements, database[cur] < database[j]
      PROVE  database[k] < database[j] \/ (database[k] = database[j] /\ k <= j)
  <2>1. j = k \/ Before(k, j)
    BY <1>2 DEF First, LaterDatabases
  <2>2. k \in Nat /\ j \in Nat /\ database[k] \in Nat /\ database[j] \in Nat
    BY <1>1, Numbers
  <2>3. QED
    BY <2>1, <2>2 DEF Before
<1>3. QED
  BY <1>1, <1>2

----------------------------------------------------------------------------
(* Every step keeps what has taken effect in line with where the run is.   *)
LEMMA PositionStep == TypeOK /\ Position /\ [Next]_vars => Position'
<1> SUFFICES ASSUME TypeOK, Position, [Next]_vars PROVE Position'
  OBVIOUS
<1> USE DEF Position, Final
<1>1. CASE UNCHANGED vars
  BY <1>1 DEF vars, Reached, Open, Before
<1>2. CASE Connect /\ UNCHANGED database
  BY <1>2 DEF Connect, Fail, Reached, Open, Before
<1>3. CASE Begin /\ UNCHANGED database
  <2>1. CASE pc' = "failed"
    BY <2>1, <1>3 DEF Begin
  <2>2. CASE pc' = "exec"
    <3>1. ~ \E j \in Statements : database[j] = database[cur] /\ j < cur
      BY <1>3, Numbers DEF Begin
    <3>2. Open = {} /\ Open' = {}
      BY <1>3, <2>2, <3>1 DEF Begin, Open
    <3>3. QED
      BY <1>3, <2>2, <3>2 DEF Begin, Fail, Reached, Before
  <2>3. QED
    BY <1>3, <2>1, <2>2 DEF Begin, Fail
<1>4. CASE ExecOk /\ UNCHANGED database
  <2>1. pc = "exec" /\ applied = Reached /\ pending = Open
    BY <1>4 DEF ExecOk, Send
  <2>2. CASE \E k \in LaterHere : First(LaterHere, k) /\ cur' = k /\ pc' = "exec"
    <3>1. PICK k \in LaterHere : First(LaterHere, k) /\ cur' = k /\ pc' = "exec"
      BY <2>2
    <3>2. /\ k \in Statements /\ database[k] = database[cur] /\ cur < k
          /\ \A j \in Statements : database[j] = database[cur] /\ cur < j => k <= j
      BY <3>1, Numbers DEF LaterHere, First, Before
    <3>3. CASE Atomic
      <4>1. Reached' = Reached
        BY <1>4, <3>1, <3>2, <3>3 DEF Reached
      <4>2. Open' = Open \cup {cur}
        BY <1>4, <2>1, <3>1, <3>2, <3>3, Numbers DEF Open
      <4>3. QED
        BY <1>4, <2>1, <3>1, <3>3, <4>1, <4>2 DEF ExecOk, TakeEffect
    <3>4. CASE ~Atomic
      <4>1. Reached' = Reached \cup {cur}
        BY <1>4, <3>1, <3>2, <3>4, Numbers DEF Reached, Before
      <4>2. Open' = {} /\ Open = {}
        BY <3>4 DEF Open
      <4>3. QED
        BY <1>4, <2>1, <3>1, <3>4, <4>1, <4>2 DEF ExecOk, TakeEffect
    <3>5. QED
      BY <3>3, <3>4
  <2>3. CASE LaterHere = {} /\ Atomic /\ pc' = "commit" /\ UNCHANGED cur
    <3>1. Reached' = Reached
      BY <1>4, <2>3 DEF Reached
    <3>2. Open' = Open \cup {cur}
      BY <1>4, <2>1, <2>3, Numbers DEF Open, LaterHere
    <3>3. QED
      BY <1>4, <2>1, <2>3, <3>1, <3>2 DEF ExecOk, TakeEffect
  <2>4. CASE LaterHere = {} /\ ~Atomic /\ NextDatabase
    <3>1. applied' = Reached \cup {cur} /\ pending' = {}
      BY <1>4, <2>1, <2>4 DEF ExecOk, TakeEffect, Open
    <3>2. CASE \E k \in LaterDatabases :
                 First(LaterDatabases, k) /\ cur' = k /\ pc' = "connect"
      <4>1. PICK k \in LaterDatabases :
                 First(LaterDatabases, k) /\ cur' = k /\ pc' = "connect"
        BY <3>2
      <4>2. /\ k \in Statements /\ database[cur] < database[k]
            /\ \A j \in Statements : database[cur] < database[j] =>
                 database[k] < database[j] \/ (database[k] = database[j] /\ k <= j)
        BY <4>1, FirstOfLater
      <4>3. Reached' = Reached \cup {cur}
        BY <1>4, <2>4, <4>1, <4>2, Numbers DEF Reached, Before, LaterHere
      <4>4. \A j \in Statements : database[j] = database[k] => k <= j
        BY <4>2, Numbers
      <4>5. QED
        BY <1>4, <2>4, <3>1, <4>1, <4>3, <4>4 DEF Open
    <3>3. CASE LaterDatabases = {} /\ pc' = "done" /\ UNCHANGED cur
      <4>1. Reached \cup {cur} = Statements
        BY <2>4, <3>3, Numbers DEF Reached, Before, LaterHere, LaterDatabases
      <4>2. QED
        BY <1>4, <3>1, <3>3, <4>1
    <3>4. QED
      BY <2>4, <3>2, <3>3 DEF NextDatabase
  <2>5. QED
    BY <1>4, <2>2, <2>3, <2>4 DEF ExecOk, Advance
<1>5. CASE ExecConflict /\ UNCHANGED database
  BY <1>5 DEF ExecConflict, Send, Fail, Reached, Open, Before
<1>6. CASE ExecError /\ UNCHANGED database
  BY <1>6 DEF ExecError, Fail
<1>7. CASE ExecLost /\ UNCHANGED database
  BY <1>7 DEF ExecLost, Fail
<1>8. CASE Backoff /\ UNCHANGED database
  BY <1>8 DEF Backoff, Fail, Reached, Open, Before
<1>9. CASE Commit /\ UNCHANGED database
  <2>1. CASE pc' = "failed"
    BY <1>9, <2>1
  <2>2. CASE applied' = applied \cup pending /\ NextDatabase /\ pending' = {}
    <3>1. Atomic /\ applied = Reached /\ pending = Open
      BY <1>9 DEF Commit
    <3>2. applied' = {j \in Statements : database[j] <= database[cur]}
      BY <1>9, <2>2, <3>1, Numbers DEF Commit, Reached, Open
    <3>3. CASE \E k \in LaterDatabases :
                 First(LaterDatabases, k) /\ cur' = k /\ pc' = "connect"
      <4>1. PICK k \in LaterDatabases :
                 First(LaterDatabases, k) /\ cur' = k /\ pc' = "connect"
        BY <3>3
      <4>2. /\ k \in Statements /\ database[cur] < database[k]
            /\ \A j \in Statements : database[cur] < database[j] =>
                 database[k] < database[j] \/ (database[k] = database[j] /\ k <= j)
        BY <4>1, FirstOfLater
      <4>3. Reached' = applied'
        BY <1>9, <3>1, <3>2, <4>1, <4>2, Numbers DEF Reached
      <4>4. \A j \in Statements : database[j] = database[k] => k <= j
        BY <4>2, Numbers
      <4>5. QED
        BY <1>9, <2>2, <4>1, <4>3, <4>4 DEF Open
    <3>4. CASE LaterDatabases = {} /\ pc' = "done" /\ UNCHANGED cur
      BY <3>2, <3>4, Numbers DEF LaterDatabases
    <3>5. QED
      BY <2>2, <3>3, <3>4 DEF NextDatabase
  <2>3. QED
    BY <1>9, <2>1, <2>2 DEF Commit, Fail
<1>10. CASE Kill /\ UNCHANGED database
  BY <1>10 DEF Kill, Fail
<1>11. QED
  BY <1>1, <1>2, <1>3, <1>4, <1>5, <1>6, <1>7, <1>8, <1>9, <1>10 DEF Next, Progress

----------------------------------------------------------------------------
(* Wherever a run stands short of an error, the catalog holds a prefix.    *)
LEMMA PositionLeaves == TypeOK /\ Position /\ pc # "failed" => Leaves
<1> SUFFICES ASSUME TypeOK, Position, pc # "failed" PROVE Leaves
  OBVIOUS
<1>1. CASE pc = "done"
  BY <1>1 DEF Position, Leaves, IsPrefix, WholeDatabases, Unit
<1>2. CASE pc # "done"
  <2>1. applied = Reached
    BY <1>2 DEF Position, Final
  <2>2. IsPrefix(applied)
    BY <2>1, Numbers DEF IsPrefix, Reached, Before
  <2>3. WholeDatabases
    BY <2>1, Numbers DEF WholeDatabases, Reached, Unit
  <2>4. QED
    BY <2>2, <2>3 DEF Leaves
<1>3. QED
  BY <1>1, <1>2

(* Every step leaves a prefix, and whole databases where DDL is atomic; an *)
(* error whose effect was not seen adds the current unit and no more.      *)
LEMMA LeavesStep ==
  TypeOK /\ Position /\ Leaves /\ [Next]_vars => Leaves'
<1> SUFFICES ASSUME TypeOK, Position, Leaves, [Next]_vars PROVE Leaves'
  OBVIOUS
<1>1. (TypeOK /\ Position /\ pc # "failed" => Leaves)'
  BY PositionLeaves, PTL
<1>2. UNCHANGED database
  BY DEF Next, Progress, vars
<1>3. CASE pc' # "failed"
  BY <1>1, <1>3, TypeStep, PositionStep
<1>4. CASE applied' = applied
  BY <1>2, <1>4 DEF Leaves, IsPrefix, WholeDatabases, Unit, Before
<1>5. CASE ExecLost /\ ~Atomic /\ applied' = applied \cup {cur}
  <2>1. ~Atomic /\ applied' = Reached \cup {cur}
    BY <1>5 DEF ExecLost, Send, Position, Final, Reached
  <2>2. \A k \in applied' : \A j \in Statements : Before(j, k) => j \in applied'
    BY <2>1, Numbers DEF Reached, Before
  <2>3. QED
    BY <1>2, <2>1, <2>2 DEF Leaves, IsPrefix, WholeDatabases, Before
<1>6. CASE pc' = "failed" /\ Commit /\ applied' = applied \cup pending
  <2>1. Atomic /\ applied' = {j \in Statements : database[j] <= database[cur]}
    BY <1>6, Numbers DEF Commit, Position, Final, Reached, Open
  <2>2. \A k \in applied' : \A j \in Statements :
          Before(j, k) \/ database[j] = database[k] => j \in applied'
    BY <2>1, Numbers DEF Before
  <2>3. QED
    BY <1>2, <2>1, <2>2 DEF Leaves, IsPrefix, WholeDatabases, Unit, Before
<1>7. CASE UNCHANGED vars
  BY <1>4, <1>7 DEF vars
<1>8. CASE Connect \/ Begin \/ ExecConflict \/ ExecError \/ Backoff \/ Kill
  BY <1>4, <1>8 DEF Connect, Begin, ExecConflict, ExecError, Backoff, Kill
<1>9. CASE ExecOk
  BY <1>3, <1>9 DEF ExecOk, Advance, NextDatabase
<1>10. CASE ExecLost
  BY <1>4, <1>5, <1>10 DEF ExecLost, Fail
<1>11. CASE Commit
  BY <1>3, <1>4, <1>6, <1>11 DEF Commit, NextDatabase, Fail
<1>12. QED
  BY <1>7, <1>8, <1>9, <1>10, <1>11 DEF Next, Progress

----------------------------------------------------------------------------
(* Every step keeps the count of attempts within its bound.                *)
LEMMA AttemptsStep == TypeOK /\ Position /\ Attempts /\ [Next]_vars => Attempts'
<1> SUFFICES ASSUME TypeOK, Position, Attempts, [Next]_vars PROVE Attempts'
  OBVIOUS
<1>1. Retries \in Nat /\ Retries' = Retries /\ (Atomic => Retries = 0)
  BY OccRetriesAssumption DEF Retries
<1>2. UNCHANGED database
  BY DEF Next, Progress, vars
<1> USE DEF Attempts, Final
<1>3. CASE UNCHANGED vars
  BY <1>3 DEF vars, Before
<1>4. CASE pc' = "failed" /\ tx' = "none" /\ attempt' = attempt /\ sends' = sends
  BY <1>1, <1>4
<1>5. CASE pc' = "failed" /\ tx' = "none" /\ attempt' = attempt /\ Send
  <2>1. sends[cur] + 1 <= Retries + 1
    BY <1>1, <1>5 DEF Send, TypeOK
  <2>2. \A i \in Statements : sends'[i] <= Retries + 1
    BY <1>5, <2>1 DEF Send, TypeOK
  <2>3. QED
    BY <1>1, <1>5, <2>2
<1>6. CASE Connect /\ pc' # "failed"
  BY <1>1, <1>2, <1>6 DEF Connect, Fail, Before
<1>7. CASE Begin /\ pc' # "failed"
  BY <1>1, <1>2, <1>7 DEF Begin, Fail, Before
<1>8. CASE ExecOk
  <2>1. \A i \in Statements : i # cur => sends'[i] = sends[i]
    BY <1>8 DEF ExecOk, Send, TypeOK
  <2>2. sends'[cur] = attempt + 1 /\ attempt \in Nat /\ attempt <= Retries
    BY <1>8 DEF ExecOk, Send, TypeOK
  <2>3. \A i \in Statements : sends'[i] <= Retries + 1
    BY <1>1, <2>1, <2>2 DEF TypeOK
  <2>4. tx' # "aborted" /\ attempt' = 0
    BY <1>8 DEF ExecOk
  <2>5. CASE pc' = "done"
    BY <1>1, <2>3, <2>4, <2>5
  <2>6. CASE pc' \in {"exec", "connect"} /\ cur' \in Statements /\ Before(cur, cur')
    <3>1. cur' # cur /\ sends[cur'] = 0
      BY <1>8, <2>6, Numbers DEF ExecOk, Send, Before
    <3>2. \A i \in Statements : Before(cur', i) => Before(cur, i) /\ i # cur
      BY <2>6, Numbers DEF Before
    <3>3. \A i \in Statements : Before(cur', i) => sends'[i] = 0
      BY <1>8, <2>1, <3>2 DEF ExecOk, Send
    <3>4. sends'[cur'] = 0
      BY <2>1, <2>6, <3>1
    <3>5. QED
      BY <1>1, <1>2, <2>3, <2>4, <2>6, <3>3, <3>4 DEF Before
  <2>7. CASE pc' = "commit" /\ cur' = cur
    <3>1. \A i \in Statements : Before(cur, i) => sends'[i] = 0
      BY <1>8, <2>1, Numbers DEF ExecOk, Send, Before
    <3>2. QED
      BY <1>1, <1>2, <2>3, <2>4, <2>7, <3>1 DEF Before
  <2>8. QED
    BY <1>8, <2>5, <2>6, <2>7
       DEF ExecOk, Advance, NextDatabase, LaterHere, LaterDatabases, Before
<1>9. CASE ExecConflict /\ pc' # "failed"
  <2>1. \A i \in Statements : i # cur => sends'[i] = sends[i]
    BY <1>9 DEF ExecConflict, Send, TypeOK
  <2>2. sends'[cur] = attempt + 1 /\ attempt \in Nat /\ attempt < Retries
    BY <1>1, <1>9 DEF ExecConflict, Send, Fail, TypeOK
  <2>3. pc' = "backoff" /\ cur' = cur /\ attempt' = attempt /\ pc = "exec"
    BY <1>9 DEF ExecConflict, Send, Fail
  <2>4. tx' # "aborted"
    BY <1>1, <1>9, <2>2 DEF ExecConflict, Fail
  <2>5. \A i \in Statements : sends'[i] <= Retries + 1
    BY <1>1, <2>1, <2>2 DEF TypeOK
  <2>6. \A i \in Statements : Before(cur, i) => sends'[i] = 0
    BY <2>1, <2>3, Numbers DEF Before
  <2>7. QED
    BY <1>1, <1>2, <2>2, <2>3, <2>4, <2>5, <2>6 DEF Before
<1>10. CASE Backoff /\ pc' # "failed"
  BY <1>1, <1>2, <1>10 DEF Backoff, Fail, TypeOK, Before
<1>11. CASE Commit /\ pc' # "failed"
  <2>1. sends' = sends /\ attempt' = attempt /\ tx' = "none"
    BY <1>11 DEF Commit, Fail
  <2>2. CASE pc' = "done"
    BY <1>1, <2>1, <2>2
  <2>3. CASE pc' = "connect" /\ cur' \in Statements /\ Before(cur, cur')
    <3>1. \A i \in Statements : Before(cur', i) => Before(cur, i)
      BY <2>3, Numbers DEF Before
    <3>2. QED
      BY <1>1, <1>2, <1>11, <2>1, <2>3, <3>1 DEF Commit, Before
  <2>4. QED
    BY <1>11, <2>2, <2>3 DEF Commit, NextDatabase, Fail, LaterDatabases, Before
<1>12. CASE Connect \/ Begin \/ Backoff \/ Commit \/ Kill
  BY <1>4, <1>6, <1>7, <1>10, <1>11, <1>12 DEF Connect, Begin, Backoff, Commit, Kill, Fail,
     NextDatabase
<1>13. CASE ExecConflict \/ ExecError \/ ExecLost
  BY <1>5, <1>9, <1>13 DEF ExecConflict, ExecError, ExecLost, Fail
<1>14. QED
  BY <1>3, <1>8, <1>12, <1>13 DEF Next, Progress

----------------------------------------------------------------------------
(* Every step keeps the log in line with the catalog.                      *)
LEMMA LoggedStep == TypeOK /\ Position /\ Logged /\ [Next]_vars => Logged'
<1> SUFFICES ASSUME TypeOK, Position, Logged, [Next]_vars, ~Atomic PROVE Logged'
  BY DEF Logged
<1> DEFINE Told(S, l) ==
             \A i \in Statements :
               /\ i \in S => l # 0 /\ (i = l \/ Before(i, l))
               /\ l # 0 /\ Before(i, l) => i \in S
           Near(l, c) == l = 0 \/ l = c \/ Before(l, c)
<1>1. UNCHANGED database
  BY DEF Next, Progress, vars
<1>2. Told(applied, last) /\ (pc \notin Final => Near(last, cur))
  BY DEF Logged, LogTellsPoint
<1>3. SUFFICES Told(applied', last') /\ (pc' \notin Final => Near(last', cur'))
  BY <1>1 DEF Logged, LogTellsPoint, Before
<1> cur # 0
  BY SizeAssumption DEF TypeOK, Statements
<1>4. CASE applied' = applied /\ last' = last /\ cur' = cur /\ (pc' \in Final \/ pc \notin Final)
  BY <1>2, <1>4
<1>5. CASE pc \notin Final /\ applied' = applied /\ last' = cur /\ cur' = cur
  <2>1. applied = {j \in Statements : Before(j, cur)}
    BY <1>5 DEF Position, Reached
  <2>2. QED
    BY <1>5, <2>1
<1>6. CASE /\ pc \notin Final /\ applied' = applied \cup {cur} /\ last' = cur
           /\ pc' \in Final \/ cur' = cur \/ Before(cur, cur')
  <2>1. applied = {j \in Statements : Before(j, cur)}
    BY <1>6 DEF Position, Reached
  <2>2. Told(applied', last')
    BY <1>6, <2>1 DEF TypeOK
  <2>3. QED
    BY <1>6, <2>2
<1>7. ~Commit /\ ~Begin
  BY DEF Commit, Begin, Position, Final
<1>8. CASE UNCHANGED vars
  BY <1>4, <1>8 DEF vars
<1>9. CASE Connect \/ Backoff \/ Kill
  BY <1>4, <1>9 DEF Connect, Backoff, Kill, Final
<1>10. CASE ExecConflict \/ ExecError \/ ExecLost
  BY <1>5, <1>6, <1>10 DEF ExecConflict, ExecError, ExecLost, Send, Fail, Final
<1>11. CASE ExecOk
  <2>1. pc' \in Final \/ cur' = cur \/ Before(cur, cur')
    BY <1>11 DEF ExecOk, Advance, NextDatabase, LaterHere, LaterDatabases, Before, Final
  <2>2. QED
    BY <1>6, <1>11, <2>1 DEF ExecOk, Send, TakeEffect, Final
<1>12. QED
  BY <1>7, <1>8, <1>9, <1>10, <1>11 DEF Next, Progress

----------------------------------------------------------------------------
(* The invariant of the executor, for every plan and every fault.          *)
THEOREM Invariant == Spec => []IInv
<1>1. Init => IInv
  BY InitInvariant
<1>2. IInv /\ [Next]_vars => IInv'
  BY TypeStep, PositionStep, LeavesStep, AttemptsStep, LoggedStep DEF IInv
<1>3. QED
  BY <1>1, <1>2, PTL DEF Spec

(* apply.go: the variables keep their types through every step.            *)
THEOREM TypeCorrect == Spec => []TypeOK
BY Invariant, PTL DEF IInv

(* apply.go:20-24: whatever fails and wherever, the catalog holds a prefix *)
(* of the plan in its execution order.                                     *)
THEOREM AlwaysPrefix == Spec => []PrefixApplied
<1>1. IInv => PrefixApplied
  BY DEF IInv, Leaves, PrefixApplied
<1>2. QED
  BY <1>1, Invariant, PTL

(* apply.go:20-23: with transactional DDL no database is left with a part  *)
(* of its statements.                                                      *)
THEOREM AlwaysWholeDatabases == Spec => []WholeDatabases
<1>1. IInv => WholeDatabases
  BY DEF IInv, Leaves
<1>2. QED
  BY <1>1, Invariant, PTL

(* apply.go:79-93: a statement that took effect is not sent again.         *)
THEOREM AlwaysNeverTwice == Spec => []NeverTwice
<1>1. IInv => NeverTwice
  <2> SUFFICES ASSUME IInv, pc \in {"exec", "backoff"} PROVE cur \notin applied \cup pending
    BY DEF NeverTwice
  <2>1. applied = Reached /\ pending = Open
    BY DEF IInv, Position, Final
  <2>2. cur \in Nat /\ database[cur] \in Nat
    BY Numbers DEF IInv
  <2>3. QED
    BY <2>1, <2>2 DEF Reached, Open, Before
<1>2. QED
  BY <1>1, Invariant, PTL

(* apply.go:16-18, 42-45: at most Retries + 1 attempts, and none in a      *)
(* transaction the server has aborted.                                     *)
THEOREM AlwaysBoundedAttempts == Spec => []BoundedAttempts
<1>1. IInv => BoundedAttempts
  BY DEF IInv, Attempts, BoundedAttempts
<1>2. QED
  BY <1>1, Invariant, PTL

(* apply.go:16-18: a serialization failure ends the run only when every     *)
(* retry was used up.                                                      *)
THEOREM AlwaysGivesUpLate == Spec => GivesUpLate
<1>1. IInv /\ [Next]_vars => [ExecConflict /\ pc' = "failed" => sends'[cur] = Retries + 1]_vars
  <2> SUFFICES ASSUME IInv, ExecConflict, pc' = "failed"
               PROVE  sends'[cur] = Retries + 1
    OBVIOUS
  <2>1. pc = "exec" /\ attempt = Retries /\ sends' = [sends EXCEPT ![cur] = @ + 1]
    BY DEF ExecConflict, Send
  <2>2. cur \in Statements /\ sends \in [Statements -> Nat] /\ sends[cur] = attempt
    BY <2>1 DEF IInv, TypeOK, Attempts
  <2>3. QED
    BY <2>1, <2>2
<1>2. QED
  BY <1>1, Invariant, PTL DEF Spec, GivesUpLate

(* apply.go:25-28: without transactions the log's last line is the point   *)
(* of failure.                                                             *)
THEOREM AlwaysLogTellsPoint == Spec => []LogTellsPoint
<1>1. IInv => LogTellsPoint
  BY DEF IInv, Logged, LogTellsPoint
<1>2. QED
  BY <1>1, Invariant, PTL

(* main.go:130-133: success is reported only when the whole plan is in     *)
(* effect.                                                                 *)
THEOREM AlwaysDoneMeansAll == Spec => []DoneMeansAll
<1>1. IInv => DoneMeansAll
  BY DEF IInv, Position, DoneMeansAll
<1>2. QED
  BY <1>1, Invariant, PTL

----------------------------------------------------------------------------
(* apply.go:20-59 implements the commit of units in order: every step of   *)
(* the executor is one unit taking effect, a stop, or nothing to see.      *)
THEOREM Refinement == Spec => ImplementsSpec
<1>1. Init => Abstract!Init
  BY DEF Init, Abstract!Init, Outcome, Final, Statements, Abstract!Statements
<1>2. IInv /\ IInv' /\ [Next]_vars => [Abstract!Next]_Abstract!vars
  <2> SUFFICES ASSUME IInv, IInv', [Next]_vars PROVE [Abstract!Next]_Abstract!vars
    OBVIOUS
  <2>1. UNCHANGED database
    BY DEF Next, Progress, vars
  <2>2. CASE UNCHANGED applied /\ (pc' = pc \/ (pc \notin Final /\ pc' \notin Final))
    BY <2>1, <2>2 DEF Abstract!vars, Outcome
  <2>3. CASE UNCHANGED applied /\ pc \notin Final /\ pc' = "failed"
    BY <2>1, <2>3 DEF Abstract!Next, Abstract!Stop, Outcome, Final
  <2>4. CASE pc \notin Final /\ applied' = applied \cup Unit(cur) /\ IsNext(applied, cur)
    <3>1. Abstract!IsNext(applied, cur) /\ Abstract!Unit(cur) = Unit(cur)
      BY <2>4 DEF Abstract!IsNext, IsNext, Abstract!Unit, Unit, Abstract!Before, Before,
         Abstract!Statements, Statements
    <3>2. cur \in Abstract!Statements
      BY DEF IInv, TypeOK, Abstract!Statements, Statements
    <3>3. pc' = "done" => applied' = Abstract!Statements
      BY DEF IInv, Position, Abstract!Statements, Statements
    <3>4. QED
      BY <2>1, <2>4, <3>1, <3>2, <3>3
         DEF Abstract!Next, Abstract!CommitUnit, Outcome, Final
  <2>5. CASE pc \in {"exec", "backoff"} /\ ~Atomic /\ applied' = applied \cup {cur}
    <3>1. applied = {j \in Statements : Before(j, cur)} /\ cur \in Statements
      BY <2>5 DEF IInv, TypeOK, Position, Reached, Final
    <3>2. IsNext(applied, cur) /\ Unit(cur) = {cur}
      BY <2>5, <3>1, BeforeTotal DEF IInv, TypeOK, IsNext, Unit
    <3>3. QED
      BY <2>4, <2>5, <3>2 DEF Final
  <2>6. CASE pc = "commit" /\ applied' = applied \cup pending
    <3>1. /\ Atomic /\ cur \in Statements
          /\ applied = {j \in Statements : database[j] < database[cur]}
          /\ pending = {j \in Statements : database[j] = database[cur]}
      BY <2>6 DEF IInv, TypeOK, Position, Reached, Open, Final
    <3>2. IsNext(applied, cur) /\ pending = Unit(cur)
      BY <3>1, Numbers DEF IInv, IsNext, Unit, Before
    <3>3. QED
      BY <2>4, <2>6, <3>2 DEF Final
  <2>7. CASE Connect \/ Begin \/ ExecConflict \/ ExecError \/ Backoff \/ Kill
    <3>1. UNCHANGED applied
      BY <2>7 DEF Connect, Begin, ExecConflict, ExecError, Backoff, Kill
    <3>2. pc \notin Final
      BY <2>7 DEF Connect, Begin, ExecConflict, ExecError, Backoff, Kill, Send, Final
    <3>3. pc' = "failed" \/ pc' \notin Final
      BY <2>7 DEF Connect, Begin, ExecConflict, ExecError, Backoff, Kill, Fail, Final
    <3>4. QED
      BY <2>2, <2>3, <3>1, <3>2, <3>3
  <2>8. CASE ExecOk
    <3>1. CASE ~Atomic
      BY <2>5, <2>8, <3>1 DEF ExecOk, Send, TakeEffect
    <3>2. CASE Atomic
      BY <2>2, <2>8, <3>2 DEF ExecOk, Send, TakeEffect, Advance, Final
    <3>3. QED
      BY <3>1, <3>2
  <2>9. CASE ExecLost
    BY <2>3, <2>5, <2>9 DEF ExecLost, Send, Fail, Final
  <2>10. CASE Commit
    <3>1. CASE applied' = applied \cup pending
      BY <2>6, <2>10, <3>1 DEF Commit
    <3>2. CASE UNCHANGED applied /\ pc' = "failed"
      BY <2>3, <2>10, <3>2 DEF Commit, Final
    <3>3. QED
      BY <2>10, <3>1, <3>2 DEF Commit, Fail
  <2>11. CASE UNCHANGED vars
    BY <2>2, <2>11 DEF vars
  <2>12. QED
    BY <2>7, <2>8, <2>9, <2>10, <2>11 DEF Next, Progress
<1>3. QED
  BY <1>1, <1>2, Invariant, PTL DEF Spec, Abstract!Spec, ImplementsSpec

----------------------------------------------------------------------------
(* Finite sets.                                                            *)

LEMMA NatInductionOnSets ==
  ASSUME NEW P, P \subseteq Nat, 0 \in P, \A n \in P : n + 1 \in P
  PROVE  P = Nat
<1> DEFINE less == {ss \in Nat \X Nat : ss[1] < ss[2]}
<1>1. IsWellFoundedOn(less, Nat)
  BY NatLessThanWellFounded DEF OpToRel
<1> SUFFICES ASSUME Nat \ P # {} PROVE FALSE
  OBVIOUS
<1>2. PICK x \in Nat \ P : \A y \in Nat \ P : ~(<<y, x>> \in less)
  <2> HIDE DEF less
  <2> QED
    BY <1>1, WFMin
<1>3. x - 1 \in Nat /\ x - 1 < x
  BY SMT
<1>4. x - 1 \in P
  BY <1>2, <1>3
<1> QED
  BY <1>3, <1>4

\* y is the last of S in the order R.
Greatest(S, R, y) == y \in S /\ \A x \in S \ {y} : <<x, y>> \in R

LEMMA GreatestExists ==
  ASSUME NEW S, IsFiniteSet(S), S # {}, NEW R,
         \A x, y \in S : x = y \/ <<x, y>> \in R \/ <<y, x>> \in R,
         \A x, y, z \in S : <<x, y>> \in R /\ <<y, z>> \in R => <<x, z>> \in R
  PROVE  \E y : Greatest(S, R, y)
<1> DEFINE P == {n \in Nat : \A T \in SUBSET S : Cardinality(T) = n + 1 => \E y : Greatest(T, R, y)}
<1>1. \A T \in SUBSET S : IsFiniteSet(T)
  BY FS_Subset
<1>2. 0 \in P
  <2>1. ASSUME NEW T \in SUBSET S, Cardinality(T) = 1 PROVE \E y : Greatest(T, R, y)
    <3>1. PICK y : T = {y}
      BY <1>1, <2>1, FS_Singleton
    <3> QED
      BY <3>1 DEF Greatest
  <2> QED
    BY <2>1
<1>3. ASSUME NEW n \in P PROVE n + 1 \in P
  <2>1. n \in Nat /\ \A T \in SUBSET S : Cardinality(T) = n + 1 => \E y : Greatest(T, R, y)
    OBVIOUS
  <2>2. ASSUME NEW T \in SUBSET S, Cardinality(T) = n + 2 PROVE \E y : Greatest(T, R, y)
    <3>1. PICK x \in T : TRUE
      BY <1>1, <2>1, <2>2, FS_EmptySet
    <3>2. Cardinality(T \ {x}) = n + 1 /\ T \ {x} \in SUBSET S
      <4>1. IsFiniteSet(T)
        BY <1>1
      <4>2. Cardinality(T \ {x}) = Cardinality(T) - 1
        BY <3>1, <4>1, FS_RemoveElement
      <4> QED
        BY <2>1, <2>2, <4>2
    <3>3. PICK y : Greatest(T \ {x}, R, y)
      BY <2>1, <3>2
    <3>4. y \in T /\ y # x /\ {x, y} \subseteq S
      BY <3>1, <3>3 DEF Greatest
    <3>5. CASE <<x, y>> \in R
      BY <3>3, <3>4, <3>5 DEF Greatest
    <3>6. CASE <<y, x>> \in R
      <4>1. ASSUME NEW t \in T \ {x} PROVE <<t, x>> \in R
        <5>1. t = y \/ <<t, y>> \in R
          BY <3>3, <4>1 DEF Greatest
        <5> QED
          BY <3>4, <3>6, <4>1, <5>1
      <4> QED
        BY <3>1, <4>1 DEF Greatest
    <3> QED
      BY <3>4, <3>5, <3>6
  <2> QED
    BY <2>1, <2>2
<1> HIDE DEF P
<1>4. P = Nat
  BY <1>2, <1>3, NatInductionOnSets DEF P
<1>5. Cardinality(S) \in Nat /\ Cardinality(S) # 0
  BY FS_CardinalityType, FS_EmptySet
<1>6. Cardinality(S) - 1 \in P /\ (Cardinality(S) - 1) + 1 = Cardinality(S)
  BY <1>4, <1>5
<1> QED
  BY <1>6 DEF P

----------------------------------------------------------------------------
(* The lines of a script.                                                  *)

Planned == database \in [Statements -> Databases]

ConnectLine(d) == Line(d, 0, "connect", 0)
BeginLine(d) == Line(d, 1, "begin", 0)
SqlLine(i) == Line(database[i], 2, "sql", i)
CommitLine(d) == Line(d, 3, "commit", 0)

LEMMA ScriptIs ==
  \A l : l \in Script <=>
    \/ \E d \in TouchedDatabases : d # 0 /\ l = ConnectLine(d)
    \/ Atomic /\ \E d \in TouchedDatabases : l = BeginLine(d)
    \/ \E i \in Statements : l = SqlLine(i)
    \/ Atomic /\ \E d \in TouchedDatabases : l = CommitLine(d)
<1> TAKE l
<1>1. \A d : l \in Block(d) <=>
        \/ d # 0 /\ l = ConnectLine(d)
        \/ Atomic /\ l = BeginLine(d)
        \/ \E i \in Statements : database[i] = d /\ l = SqlLine(i)
        \/ Atomic /\ l = CommitLine(d)
  BY DEF Block, ConnectLine, BeginLine, SqlLine, CommitLine
<1>2. l \in Script <=> \E d \in TouchedDatabases : l \in Block(d)
  BY DEF Script
<1>3. \A i \in Statements : database[i] \in TouchedDatabases
  BY DEF TouchedDatabases
<1> QED
  BY <1>1, <1>2, <1>3

LEMMA LineFields ==
  /\ \A d : /\ ConnectLine(d).db = d /\ ConnectLine(d).place = 0 /\ ConnectLine(d).word = "connect"
            /\ BeginLine(d).db = d /\ BeginLine(d).place = 1 /\ BeginLine(d).word = "begin"
            /\ CommitLine(d).db = d /\ CommitLine(d).place = 3 /\ CommitLine(d).word = "commit"
            /\ ConnectLine(d).of = 0 /\ BeginLine(d).of = 0 /\ CommitLine(d).of = 0
  /\ \A i : SqlLine(i).db = database[i] /\ SqlLine(i).place = 2 /\ SqlLine(i).word = "sql" /\ SqlLine(i).of = i
BY DEF ConnectLine, BeginLine, SqlLine, CommitLine, Line

LEMMA PlanNumbers ==
  ASSUME Planned
  PROVE  /\ \A i \in Statements : i \in Nat /\ database[i] \in Nat /\ database[i] \in TouchedDatabases
         /\ TouchedDatabases \subseteq Nat
<1>1. \A i \in Statements : i \in Nat
  BY SizeAssumption DEF Statements
<1>2. \A i \in Statements : database[i] \in Nat
  BY DatabasesAssumption DEF Planned
<1> QED
  BY <1>1, <1>2 DEF TouchedDatabases

LEMMA LineNumbers ==
  ASSUME Planned, NEW l \in Script
  PROVE  l.db \in Nat /\ l.place \in Nat /\ l.of \in Nat
BY PlanNumbers, ScriptIs, LineFields

LEMMA SameLine ==
  ASSUME Planned, NEW l \in Script, NEW m \in Script, l.db = m.db, l.place = m.place, l.of = m.of
  PROVE  l = m
<1>1. \A n \in Script :
        \/ n.place = 0 /\ n = ConnectLine(n.db)
        \/ n.place = 1 /\ n = BeginLine(n.db)
        \/ n.place = 2 /\ n = SqlLine(n.of)
        \/ n.place = 3 /\ n = CommitLine(n.db)
  <2> TAKE n \in Script
  <2>1. ASSUME NEW d, n = ConnectLine(d) PROVE n.place = 0 /\ n = ConnectLine(n.db)
    <3>1. n.db = d
      BY <2>1, LineFields
    <3> QED
      BY <2>1, <3>1, LineFields
  <2>2. ASSUME NEW d, n = BeginLine(d) PROVE n.place = 1 /\ n = BeginLine(n.db)
    <3>1. n.db = d
      BY <2>2, LineFields
    <3> QED
      BY <2>2, <3>1, LineFields
  <2>3. ASSUME NEW i \in Statements, n = SqlLine(i) PROVE n.place = 2 /\ n = SqlLine(n.of)
    <3>1. n.of = i
      BY <2>3, LineFields
    <3> QED
      BY <2>3, <3>1, LineFields
  <2>4. ASSUME NEW d, n = CommitLine(d) PROVE n.place = 3 /\ n = CommitLine(n.db)
    <3>1. n.db = d
      BY <2>4, LineFields
    <3> QED
      BY <2>4, <3>1, LineFields
  <2> HIDE DEF Script
  <2> QED
    BY <2>1, <2>2, <2>3, <2>4, ScriptIs
<1> QED
  BY <1>1

LEMMA AboveOrder ==
  ASSUME Planned
  PROVE  /\ \A l, m \in Script : l = m \/ Above(l, m) \/ Above(m, l)
         /\ \A l, m \in Script : ~(Above(l, m) /\ Above(m, l)) /\ ~Above(l, l)
         /\ \A l, m, n \in Script : Above(l, m) /\ Above(m, n) => Above(l, n)
<1>1. \A l \in Script : l.db \in Nat /\ l.place \in Nat /\ l.of \in Nat
  BY LineNumbers
<1>2. ASSUME NEW l \in Script, NEW m \in Script, l # m PROVE Above(l, m) \/ Above(m, l)
  BY <1>1, <1>2, SameLine DEF Above
<1> QED
  BY <1>1, <1>2 DEF Above

LEMMA FiniteImage ==
  ASSUME NEW S, IsFiniteSet(S), NEW f, f = [x \in S |-> f[x]], NEW T, \A y \in T : \E x \in S : y = f[x]
  PROVE  IsFiniteSet(T)
<1> DEFINE R == {f[x] : x \in S}
<1>1. f \in Surjection(S, R)
  BY DEF Surjection
<1>2. IsFiniteSet(R)
  <2> HIDE DEF R
  <2> QED
    BY <1>1, FS_Surjection
<1>3. T \in SUBSET R
  OBVIOUS
<1> HIDE DEF R
<1> QED
  BY <1>2, <1>3, FS_Subset

LEMMA ScriptFinite == IsFiniteSet(Script)
<1> DEFINE D == TouchedDatabases
           all == ({ConnectLine(d) : d \in D} \cup {BeginLine(d) : d \in D})
                    \cup ({SqlLine(i) : i \in Statements} \cup {CommitLine(d) : d \in D})
<1>1. IsFiniteSet(Statements)
  BY FS_Interval, SizeAssumption DEF Statements
<1>2. ASSUME NEW S, IsFiniteSet(S), NEW f, f = [x \in S |-> f[x]] PROVE IsFiniteSet({f[x] : x \in S})
  <2> DEFINE T == {f[x] : x \in S}
  <2>1. \A y \in T : \E x \in S : y = f[x]
    OBVIOUS
  <2> HIDE DEF T
  <2>2. IsFiniteSet(T)
    BY <1>2, <2>1, FiniteImage
  <2> QED
    BY <2>2 DEF T
<1>3. IsFiniteSet(D)
  <2> DEFINE f == [i \in Statements |-> database[i]]
  <2>1. IsFiniteSet({f[i] : i \in Statements})
    BY <1>1, <1>2
  <2>2. {f[i] : i \in Statements} = D
    BY DEF TouchedDatabases
  <2> QED
    BY <2>1, <2>2
<1> HIDE DEF D
<1>4. IsFiniteSet({ConnectLine(d) : d \in D})
  <2> DEFINE f == [d \in D |-> ConnectLine(d)]
  <2>1. IsFiniteSet({f[d] : d \in D})
    BY <1>2, <1>3
  <2> QED
    BY <2>1
<1>5. IsFiniteSet({BeginLine(d) : d \in D})
  <2> DEFINE f == [d \in D |-> BeginLine(d)]
  <2>1. IsFiniteSet({f[d] : d \in D})
    BY <1>2, <1>3
  <2> QED
    BY <2>1
<1>6. IsFiniteSet({CommitLine(d) : d \in D})
  <2> DEFINE f == [d \in D |-> CommitLine(d)]
  <2>1. IsFiniteSet({f[d] : d \in D})
    BY <1>2, <1>3
  <2> QED
    BY <2>1
<1>7. IsFiniteSet({SqlLine(i) : i \in Statements})
  <2> DEFINE f == [i \in Statements |-> SqlLine(i)]
  <2>1. IsFiniteSet({f[i] : i \in Statements})
    BY <1>1, <1>2
  <2> QED
    BY <2>1
<1>8. IsFiniteSet(all)
  BY <1>4, <1>5, <1>6, <1>7, FS_Union
<1>9. Script \subseteq all
  BY ScriptIs DEF D
<1> QED
  BY <1>8, <1>9, FS_Subset

\* The order of the lines, as a set of pairs.
Order == {q \in Script \X Script : Above(q[1], q[2])}
Bottom(S) == CHOOSE x \in S : \A m \in S \ {x} : Above(m, x)

LEMMA BottomIs ==
  ASSUME Planned, NEW S \in SUBSET Script, S # {}
  PROVE  Bottom(S) \in S /\ \A m \in S \ {Bottom(S)} : Above(m, Bottom(S))
<1>1. \A l, m \in Script : <<l, m>> \in Order <=> Above(l, m)
  BY DEF Order
<1>2. IsFiniteSet(S)
  BY ScriptFinite, FS_Subset
<1>3. \A l, m \in S : l = m \/ <<l, m>> \in Order \/ <<m, l>> \in Order
  BY <1>1, AboveOrder
<1>4. \A l, m, n \in S : <<l, m>> \in Order /\ <<m, n>> \in Order => <<l, n>> \in Order
  BY <1>1, AboveOrder
<1>5. PICK x : Greatest(S, Order, x)
  <2> HIDE DEF Order
  <2> QED
    BY <1>2, <1>3, <1>4, GreatestExists
<1>6. x \in S /\ \A m \in S \ {x} : Above(m, x)
  BY <1>1, <1>5 DEF Greatest
<1> QED
  BY <1>6 DEF Bottom

----------------------------------------------------------------------------
(* The sessions psql goes through.                                         *)

Sessions(f, lines) ==
  f = [S \in SUBSET lines |-> IF S = {} THEN Fresh ELSE RunLine(f[S \ {Bottom(S)}], Bottom(S))]

LEMMA SessionsExist ==
  ASSUME Planned, NEW lines \in SUBSET Script
  PROVE  \E f : Sessions(f, lines)
<1> DEFINE Holds(f, S) == f[S] = IF S = {} THEN Fresh ELSE RunLine(f[S \ {Bottom(S)}], Bottom(S))
           P == {n \in Nat : \E f : \A S \in SUBSET lines : Cardinality(S) <= n => Holds(f, S)}
<1>0. IsFiniteSet(lines)
  BY ScriptFinite, FS_Subset
<1>1. \A S \in SUBSET lines : IsFiniteSet(S) /\ Cardinality(S) \in Nat
  BY <1>0, FS_Subset, FS_CardinalityType
<1>2. \A S \in SUBSET lines : S # {} =>
        S \ {Bottom(S)} \in SUBSET lines /\ Cardinality(S \ {Bottom(S)}) = Cardinality(S) - 1
  <2> SUFFICES ASSUME NEW S \in SUBSET lines, S # {}
               PROVE  S \ {Bottom(S)} \in SUBSET lines /\ Cardinality(S \ {Bottom(S)}) = Cardinality(S) - 1
    OBVIOUS
  <2>1. Bottom(S) \in S
    BY BottomIs
  <2>2. IsFiniteSet(S)
    BY <1>1
  <2> QED
    BY <2>1, <2>2, FS_RemoveElement
<1>3. 0 \in P
  <2> DEFINE f == [S \in SUBSET lines |-> Fresh]
  <2>1. ASSUME NEW S \in SUBSET lines, Cardinality(S) <= 0 PROVE Holds(f, S)
    <3>1. Cardinality(S) = 0
      BY <1>1, <2>1
    <3>2. S = {}
      BY <1>1, <3>1, FS_EmptySet
    <3> QED
      BY <3>2
  <2> HIDE DEF Holds
  <2> QED
    BY <2>1
<1>4. ASSUME NEW n \in P PROVE n + 1 \in P
  <2>1. n \in Nat /\ \E f : \A S \in SUBSET lines : Cardinality(S) <= n => Holds(f, S)
    OBVIOUS
  <2>2. PICK f : \A S \in SUBSET lines : Cardinality(S) <= n => Holds(f, S)
    BY <2>1
  <2> DEFINE g == [S \in SUBSET lines |->
                     IF S = {} THEN Fresh
                     ELSE IF Cardinality(S) <= n THEN f[S] ELSE RunLine(f[S \ {Bottom(S)}], Bottom(S))]
  <2>3. \A S \in SUBSET lines : S # {} /\ Cardinality(S) <= n => g[S] = f[S]
    OBVIOUS
  <2>4. \A S \in SUBSET lines : Cardinality(S) <= n => g[S] = f[S]
    <3> SUFFICES ASSUME NEW S \in SUBSET lines, Cardinality(S) <= n, S = {} PROVE g[S] = f[S]
      BY <2>3
    <3> QED
      BY <2>2
  <2>5. ASSUME NEW S \in SUBSET lines, Cardinality(S) <= n + 1 PROVE Holds(g, S)
    <3>1. CASE S = {}
      BY <3>1
    <3>2. CASE S # {}
      <4>1. S \ {Bottom(S)} \in SUBSET lines /\ Cardinality(S \ {Bottom(S)}) = Cardinality(S) - 1
        BY <1>2, <3>2
      <4>2. Cardinality(S \ {Bottom(S)}) <= n
        BY <1>1, <2>1, <2>5, <4>1
      <4>3. g[S \ {Bottom(S)}] = f[S \ {Bottom(S)}]
        BY <2>4, <4>1, <4>2
      <4>4. g[S] = RunLine(f[S \ {Bottom(S)}], Bottom(S))
        <5>1. CASE Cardinality(S) <= n
          <6>1. Holds(f, S)
            BY <2>2, <5>1
          <6>2. g[S] = f[S]
            BY <2>4, <5>1
          <6> HIDE DEF g
          <6> QED
            BY <3>2, <6>1, <6>2
        <5>2. CASE ~(Cardinality(S) <= n)
          BY <3>2, <5>2
        <5> QED
          BY <5>1, <5>2
      <4> HIDE DEF g
      <4> QED
        BY <3>2, <4>3, <4>4
    <3> QED
      BY <3>1, <3>2
  <2> HIDE DEF g, Holds
  <2> QED
    BY <2>1, <2>5
<1> HIDE DEF P
<1>5. P = Nat
  BY <1>3, <1>4, NatInductionOnSets DEF P
<1>6. Cardinality(lines) \in P
  BY <1>0, <1>5, FS_CardinalityType
<1>7. PICK f : \A S \in SUBSET lines : Cardinality(S) <= Cardinality(lines) => Holds(f, S)
  BY <1>6 DEF P
<1>8. \A S \in SUBSET lines : Holds(f, S)
  <2>1. \A S \in SUBSET lines : Cardinality(S) <= Cardinality(lines)
    BY <1>0, FS_Subset
  <2> QED
    BY <1>7, <2>1
<1> DEFINE h == [S \in SUBSET lines |-> f[S]]
<1>9. \A S \in SUBSET lines : h[S] = IF S = {} THEN Fresh ELSE RunLine(h[S \ {Bottom(S)}], Bottom(S))
  <2> SUFFICES ASSUME NEW S \in SUBSET lines
               PROVE  h[S] = IF S = {} THEN Fresh ELSE RunLine(h[S \ {Bottom(S)}], Bottom(S))
    OBVIOUS
  <2>1. h[S] = f[S] /\ (S # {} => h[S \ {Bottom(S)}] = f[S \ {Bottom(S)}])
    BY <1>2
  <2> QED
    BY <1>8, <2>1
<1>10. h = [S \in SUBSET lines |-> h[S]]
  OBVIOUS
<1> HIDE DEF h
<1>11. Sessions(h, lines)
  BY <1>9, <1>10 DEF Sessions
<1> QED
  BY <1>11

LEMMA LeftByIs ==
  ASSUME Planned, NEW lines \in SUBSET Script
  PROVE  \E f : Sessions(f, lines) /\ LeftBy(lines) = f[lines].kept
<1> DEFINE f == CHOOSE after : Sessions(after, lines)
<1>1. Sessions(f, lines)
  BY SessionsExist
<1>2. LeftBy(lines) = f[lines].kept
  BY DEF LeftBy, Sessions, Bottom
<1> QED
  BY <1>1, <1>2

----------------------------------------------------------------------------
(* A session that has executed the first lines of a script.                *)

\* The lines of S are the script's first.
Cut(S) == S \subseteq Script /\ \A l \in S : \A m \in Script : Above(m, l) => m \in S

\* What of the statements is in effect for good, and in the open transaction.
Kept(S) == {i \in Statements : IF Atomic THEN CommitLine(database[i]) \in S ELSE SqlLine(i) \in S}
Underway(S) == {i \in Statements : Atomic /\ SqlLine(i) \in S /\ CommitLine(database[i]) \notin S}
Within(S) == \E d \in TouchedDatabases : Atomic /\ BeginLine(d) \in S /\ CommitLine(d) \notin S

\* The session that has executed the lines of S.
Session(S, x) ==
  /\ x = [at |-> x.at, in |-> x.in, open |-> x.open, kept |-> x.kept]
  /\ x.kept = InItsDatabase(Kept(S)) /\ x.open = InItsDatabase(Underway(S))
  /\ x.in \in BOOLEAN /\ (x.in <=> Within(S))
  /\ x.at = IF S = {} THEN 0 ELSE Bottom(S).db

LEMMA CutLast ==
  ASSUME Planned, NEW S, Cut(S), S # {}
  PROVE  LET l == Bottom(S)
             R == S \ {l}
         IN l \in S /\ l \in Script /\ Cut(R) /\ \A m \in Script : m \in R <=> Above(m, l)
<1> DEFINE l == Bottom(S)
           R == S \ {l}
<1>1. l \in S /\ \A m \in S \ {l} : Above(m, l)
  BY BottomIs DEF Cut
<1>2. \A m \in Script : m \in R <=> Above(m, l)
  BY <1>1, AboveOrder DEF Cut
<1>3. Cut(R)
  BY <1>1, <1>2, AboveOrder DEF Cut
<1> QED
  BY <1>1, <1>2, <1>3 DEF Cut

\* Where the kinds of lines are to each other.
LEMMA Places ==
  ASSUME Planned, NEW m \in Script, NEW l \in Script
  PROVE  /\ Above(m, l) => m.db < l.db \/ (m.db = l.db /\ m.place < l.place) \/ (m.db = l.db /\ m.place = l.place /\ m.of < l.of)
         /\ m.db < l.db => Above(m, l)
         /\ m.db = l.db /\ m.place < l.place => Above(m, l)
         /\ m.db \in Nat /\ l.db \in Nat /\ m.place \in Nat /\ l.place \in Nat
BY LineNumbers DEF Above

LEMMA OfScript ==
  ASSUME Planned
  PROVE  /\ \A d \in TouchedDatabases : /\ d # 0 => ConnectLine(d) \in Script
                                        /\ Atomic => BeginLine(d) \in Script /\ CommitLine(d) \in Script
         /\ \A i \in Statements : SqlLine(i) \in Script /\ database[i] \in TouchedDatabases
BY ScriptIs, PlanNumbers

LEMMA KindOf ==
  ASSUME Planned, NEW l \in Script
  PROVE  \/ l.word = "connect" /\ l = ConnectLine(l.db) /\ l.db \in TouchedDatabases /\ l.db # 0
         \/ l.word = "begin" /\ l = BeginLine(l.db) /\ l.db \in TouchedDatabases /\ Atomic
         \/ l.word = "sql" /\ l.of \in Statements /\ l = SqlLine(l.of) /\ l.db = database[l.of]
         \/ l.word = "commit" /\ l = CommitLine(l.db) /\ l.db \in TouchedDatabases /\ Atomic
<1>1. ASSUME NEW d \in TouchedDatabases, d # 0, l = ConnectLine(d)
      PROVE  l.word = "connect" /\ l = ConnectLine(l.db) /\ l.db \in TouchedDatabases /\ l.db # 0
  <2>1. l.db = d /\ l.word = "connect"
    BY <1>1, LineFields
  <2> QED
    BY <1>1, <2>1
<1>2. ASSUME NEW d \in TouchedDatabases, l = BeginLine(d)
      PROVE  l.word = "begin" /\ l = BeginLine(l.db) /\ l.db \in TouchedDatabases
  <2>1. l.db = d /\ l.word = "begin"
    BY <1>2, LineFields
  <2> QED
    BY <1>2, <2>1
<1>3. ASSUME NEW i \in Statements, l = SqlLine(i)
      PROVE  l.word = "sql" /\ l.of \in Statements /\ l = SqlLine(l.of) /\ l.db = database[l.of]
  <2>1. l.of = i /\ l.db = database[i] /\ l.word = "sql"
    BY <1>3, LineFields
  <2> QED
    BY <1>3, <2>1
<1>4. ASSUME NEW d \in TouchedDatabases, l = CommitLine(d)
      PROVE  l.word = "commit" /\ l = CommitLine(l.db) /\ l.db \in TouchedDatabases
  <2>1. l.db = d /\ l.word = "commit"
    BY <1>4, LineFields
  <2> QED
    BY <1>4, <2>1
<1> QED
  BY <1>1, <1>2, <1>3, <1>4, ScriptIs

\* Whatever is not \connect runs in its own database.
LEMMA RunsAt ==
  ASSUME Planned, NEW S, Cut(S), S # {}, Bottom(S).word # "connect"
  PROVE  LET R == S \ {Bottom(S)} IN (IF R = {} THEN 0 ELSE Bottom(R).db) = Bottom(S).db
<1> DEFINE l == Bottom(S)
           R == S \ {l}
           z == Bottom(R)
<1>1. l \in Script /\ Cut(R) /\ \A m \in Script : m \in R <=> Above(m, l)
  BY CutLast
<1>2. l.db \in TouchedDatabases /\ l.place > 0 /\ l.db \in Nat
  BY <1>1, KindOf, LineFields, PlanNumbers
<1>3. l.db # 0 => ConnectLine(l.db) \in R
  <2>1. ASSUME l.db # 0 PROVE ConnectLine(l.db) \in Script
    BY <1>2, <2>1, OfScript
  <2>2. ConnectLine(l.db).db = l.db /\ ConnectLine(l.db).place = 0
    BY LineFields
  <2> HIDE DEF R, l
  <2> QED
    BY <1>1, <1>2, <2>1, <2>2, Places
<1>4. CASE R = {}
  BY <1>3, <1>4
<1>5. CASE R # {}
  <2>1. z \in R /\ z \in Script /\ \A m \in R : m = z \/ Above(m, z)
    BY <1>1, <1>5, BottomIs DEF Cut
  <2>2. z.db \in Nat /\ z.db <= l.db
    BY <1>1, <1>2, <2>1, Places
  <2>3. ASSUME z.db < l.db PROVE FALSE
    <3>1. l.db # 0 /\ ConnectLine(l.db) \in R
      BY <1>2, <1>3, <2>2, <2>3
    <3>2. ConnectLine(l.db) \in Script /\ ConnectLine(l.db).db = l.db
      BY <1>1, <3>1, LineFields DEF Cut
    <3>3. ConnectLine(l.db) = z \/ Above(ConnectLine(l.db), z)
      BY <2>1, <3>1
    <3> HIDE DEF l, z, R
    <3> QED
      BY <1>2, <2>1, <2>2, <2>3, <3>2, <3>3, Places
  <2>4. z.db = l.db
    BY <1>2, <2>2, <2>3
  <2> QED
    BY <1>5, <2>4
<1> QED
  BY <1>4, <1>5

LEMMA RunLineIs ==
  ASSUME NEW y, NEW l, y = [at |-> y.at, in |-> y.in, open |-> y.open, kept |-> y.kept], y.in \in BOOLEAN
  PROVE  LET x == RunLine(y, l) IN
         /\ l.word \in {"connect", "begin", "sql", "commit"} =>
              x = [at |-> x.at, in |-> x.in, open |-> x.open, kept |-> x.kept]
         /\ l.word = "connect" => x.at = l.db /\ x.in = FALSE /\ x.open = {} /\ x.kept = y.kept
         /\ l.word = "begin" => x.at = y.at /\ x.in = TRUE /\ x.open = y.open /\ x.kept = y.kept
         /\ l.word = "commit" => x.at = y.at /\ x.in = FALSE /\ x.open = {} /\ x.kept = y.kept \cup y.open
         /\ l.word = "sql" /\ y.in = TRUE =>
              x.at = y.at /\ x.in = TRUE /\ x.open = y.open \cup {<<y.at, l.of>>} /\ x.kept = y.kept
         /\ l.word = "sql" /\ y.in = FALSE =>
              x.at = y.at /\ x.in = FALSE /\ x.open = y.open /\ x.kept = y.kept \cup {<<y.at, l.of>>}
<1>1. CASE l.word = "connect"
  <2>1. RunLine(y, l) = [y EXCEPT !.at = l.db, !.in = FALSE, !.open = {}]
    BY <1>1 DEF RunLine
  <2> QED
    BY <1>1, <2>1
<1>2. CASE l.word = "begin"
  <2>1. RunLine(y, l) = [y EXCEPT !.in = TRUE]
    BY <1>2 DEF RunLine
  <2> QED
    BY <1>2, <2>1
<1>3. CASE l.word = "commit"
  <2>1. RunLine(y, l) = [y EXCEPT !.in = FALSE, !.kept = @ \cup y.open, !.open = {}]
    BY <1>3 DEF RunLine
  <2> QED
    BY <1>3, <2>1
<1>4. CASE l.word = "sql" /\ y.in = TRUE
  <2>1. RunLine(y, l) = [y EXCEPT !.open = @ \cup {<<y.at, l.of>>}]
    BY <1>4 DEF RunLine
  <2> QED
    BY <1>4, <2>1
<1>5. CASE l.word = "sql" /\ y.in = FALSE
  <2>1. RunLine(y, l) = [y EXCEPT !.kept = @ \cup {<<y.at, l.of>>}]
    BY <1>5 DEF RunLine
  <2> QED
    BY <1>5, <2>1
<1> QED
  BY <1>1, <1>2, <1>3, <1>4, <1>5

\* What is above the last line of S, and what S has besides.
LEMMA LinesIn ==
  ASSUME Planned, NEW S, Cut(S), S # {}
  PROVE  LET l == Bottom(S)
             R == S \ {l}
         IN /\ \A d \in TouchedDatabases : Atomic =>
                 /\ CommitLine(d) \in R <=> d < l.db
                 /\ BeginLine(d) \in R <=> d < l.db \/ (d = l.db /\ 1 < l.place)
                 /\ CommitLine(d) \in S <=> d < l.db \/ (d = l.db /\ l.word = "commit")
                 /\ BeginLine(d) \in S <=> d < l.db \/ (d = l.db /\ l.word # "connect")
            /\ \A i \in Statements :
                 /\ SqlLine(i) \in R <=>
                      database[i] < l.db \/ (database[i] = l.db /\ (2 < l.place \/ (l.place = 2 /\ i < l.of)))
                 /\ SqlLine(i) \in S <=> SqlLine(i) \in R \/ (l.word = "sql" /\ i = l.of)
<1> DEFINE l == Bottom(S)
           R == S \ {l}
<1>1. l \in Script /\ l \in S /\ \A m \in Script : m \in R <=> Above(m, l)
  BY CutLast
<1>2. \A m : m \in S <=> m \in R \/ m = l
  BY <1>1
<1> HIDE DEF R, l
<1>3. l.db \in Nat /\ \A d \in TouchedDatabases : d \in Nat
  BY <1>1, PlanNumbers, LineNumbers
<1>4. \/ l.word = "connect" /\ l.place = 0 /\ l.of = 0
      \/ l.word = "begin" /\ l.place = 1 /\ l.of = 0 /\ l = BeginLine(l.db)
      \/ l.word = "sql" /\ l.place = 2 /\ l.of \in Nat /\ l.of \in Statements /\ l = SqlLine(l.of)
      \/ l.word = "commit" /\ l.place = 3 /\ l.of = 0 /\ l = CommitLine(l.db)
  BY <1>1, KindOf, LineFields, LineNumbers
<1>5. ASSUME NEW d \in TouchedDatabases, Atomic
      PROVE  /\ CommitLine(d) \in R <=> d < l.db
             /\ BeginLine(d) \in R <=> d < l.db \/ (d = l.db /\ 1 < l.place)
  <2>1. CommitLine(d) \in Script /\ BeginLine(d) \in Script
    BY <1>5, OfScript
  <2>2. CommitLine(d) \in R <=> Above(CommitLine(d), l)
    BY <1>1, <2>1
  <2>3. BeginLine(d) \in R <=> Above(BeginLine(d), l)
    BY <1>1, <2>1
  <2>4. Above(CommitLine(d), l) <=> d < l.db
    BY <1>3, <1>4, LineFields DEF Above
  <2>5. Above(BeginLine(d), l) <=> d < l.db \/ (d = l.db /\ 1 < l.place)
    BY <1>3, <1>4, LineFields DEF Above
  <2> QED
    BY <2>2, <2>3, <2>4, <2>5
<1>6. ASSUME NEW d \in TouchedDatabases, Atomic
      PROVE  /\ CommitLine(d) \in S <=> d < l.db \/ (d = l.db /\ l.word = "commit")
             /\ BeginLine(d) \in S <=> d < l.db \/ (d = l.db /\ l.word # "connect")
  <2>1. CommitLine(d) = l <=> d = l.db /\ l.word = "commit"
    BY <1>4, LineFields
  <2>2. BeginLine(d) = l <=> d = l.db /\ l.word = "begin"
    BY <1>4, LineFields
  <2>3. 1 < l.place <=> l.word \in {"sql", "commit"}
    BY <1>4
  <2>4. CommitLine(d) \in S <=> CommitLine(d) \in R \/ CommitLine(d) = l
    BY <1>2
  <2>5. BeginLine(d) \in S <=> BeginLine(d) \in R \/ BeginLine(d) = l
    BY <1>2
  <2>6. CommitLine(d) \in S <=> d < l.db \/ (d = l.db /\ l.word = "commit")
    BY <1>5, <1>6, <2>1, <2>4
  <2>7. l.word # "connect" <=> l.word \in {"begin", "sql", "commit"}
    BY <1>4
  <2>8. BeginLine(d) \in S <=> d < l.db \/ (d = l.db /\ (1 < l.place \/ l.word = "begin"))
    BY <1>5, <1>6, <2>2, <2>5
  <2>9. 1 < l.place \/ l.word = "begin" <=> l.word # "connect"
    BY <2>3, <2>7
  <2> QED
    BY <2>6, <2>8, <2>9
<1>7. ASSUME NEW i \in Statements
      PROVE  /\ SqlLine(i) \in R <=>
                  database[i] < l.db \/ (database[i] = l.db /\ (2 < l.place \/ (l.place = 2 /\ i < l.of)))
             /\ SqlLine(i) \in S <=> SqlLine(i) \in R \/ (l.word = "sql" /\ i = l.of)
  <2>1. SqlLine(i) \in R <=> Above(SqlLine(i), l)
    BY <1>1, OfScript
  <2>2. Above(SqlLine(i), l) <=>
          database[i] < l.db \/ (database[i] = l.db /\ (2 < l.place \/ (l.place = 2 /\ i < l.of)))
    BY <1>3, <1>4, LineFields, PlanNumbers DEF Above
  <2>3. SqlLine(i) = l <=> l.word = "sql" /\ i = l.of
    BY <1>4, LineFields
  <2> QED
    BY <1>2, <2>1, <2>2, <2>3
<1> QED
  BY <1>5, <1>6, <1>7 DEF R, l

LEMMA SessionStep ==
  ASSUME Planned, NEW S, Cut(S), S # {}, NEW y, Session(S \ {Bottom(S)}, y)
  PROVE  Session(S, RunLine(y, Bottom(S)))
<1> DEFINE l == Bottom(S)
           R == S \ {l}
           x == RunLine(y, l)
           d == l.db
<1>1. l \in Script /\ Cut(R)
  BY CutLast
<1>2. /\ y = [at |-> y.at, in |-> y.in, open |-> y.open, kept |-> y.kept]
      /\ y.kept = InItsDatabase(Kept(R)) /\ y.open = InItsDatabase(Underway(R))
      /\ y.in \in BOOLEAN /\ (y.in <=> Within(R))
      /\ y.at = IF R = {} THEN 0 ELSE Bottom(R).db
  BY DEF Session
<1>3. /\ \A e \in TouchedDatabases : Atomic =>
           /\ CommitLine(e) \in R <=> e < d
           /\ BeginLine(e) \in R <=> e < d \/ (e = d /\ 1 < l.place)
           /\ CommitLine(e) \in S <=> e < d \/ (e = d /\ l.word = "commit")
           /\ BeginLine(e) \in S <=> e < d \/ (e = d /\ l.word # "connect")
      /\ \A i \in Statements :
           /\ SqlLine(i) \in R <=>
                database[i] < d \/ (database[i] = d /\ (2 < l.place \/ (l.place = 2 /\ i < l.of)))
           /\ SqlLine(i) \in S <=> SqlLine(i) \in R \/ (l.word = "sql" /\ i = l.of)
  BY LinesIn
<1>4. l.word # "connect" => y.at = d
  BY <1>2, RunsAt
<1>5. x = RunLine(y, l) /\ S # {} /\ Bottom(S) = l
  OBVIOUS
<1>6. \A i \in Statements : i \in Nat /\ database[i] \in Nat /\ database[i] \in TouchedDatabases
  BY PlanNumbers
<1>7. d \in Nat /\ TouchedDatabases \subseteq Nat
  BY <1>1, PlanNumbers, LineNumbers
<1>8. \/ l.word = "connect" /\ l.place = 0
      \/ l.word = "begin" /\ l.place = 1 /\ Atomic /\ d \in TouchedDatabases
      \/ l.word = "sql" /\ l.place = 2 /\ l.of \in Statements /\ d = database[l.of]
      \/ l.word = "commit" /\ l.place = 3 /\ Atomic /\ d \in TouchedDatabases
  BY <1>1, KindOf, LineFields
<1> HIDE DEF x, d, R, l
<1>9. CASE l.word = "connect"
  <2>1. x = [at |-> x.at, in |-> x.in, open |-> x.open, kept |-> x.kept]
        /\ x.at = l.db /\ x.in = FALSE /\ x.open = {} /\ x.kept = y.kept
    BY <1>2, <1>5, <1>9, RunLineIs
  <2>2. Kept(S) = Kept(R)
    BY <1>3, <1>6, <1>9 DEF Kept
  <2>3. Underway(S) = {}
    BY <1>3, <1>6, <1>7, <1>8, <1>9 DEF Underway
  <2>4. ~Within(S)
    BY <1>3, <1>7, <1>9 DEF Within
  <2>5. InItsDatabase({}) = {}
    BY DEF InItsDatabase
  <2> QED
    BY <1>2, <1>5, <2>1, <2>2, <2>3, <2>4, <2>5 DEF Session
<1>10. CASE l.word = "begin"
  <2>0. l.word \in {"connect", "begin", "sql", "commit"}
    BY <1>10
  <2>1. x = [at |-> x.at, in |-> x.in, open |-> x.open, kept |-> x.kept]
        /\ x.at = y.at /\ x.in = TRUE /\ x.open = y.open /\ x.kept = y.kept
    <3>1. x = [at |-> x.at, in |-> x.in, open |-> x.open, kept |-> x.kept]
      BY <1>2, <1>5, <2>0, RunLineIs, Zenon
    <3>2. x.at = y.at /\ x.in = TRUE /\ x.open = y.open /\ x.kept = y.kept
      BY <1>2, <1>5, <1>10, RunLineIs, Zenon
    <3> QED
      BY <3>1, <3>2
  <2>2. Kept(S) = Kept(R) /\ Underway(S) = Underway(R)
    BY <1>3, <1>6, <1>8, <1>10 DEF Kept, Underway
  <2>3. Within(S)
    BY <1>3, <1>7, <1>8, <1>10 DEF Within
  <2>4. x.at = l.db
    BY <1>4, <1>10, <2>1 DEF d
  <2> QED
    BY <1>2, <1>5, <2>1, <2>2, <2>3, <2>4 DEF Session
<1>11. CASE l.word = "commit"
  <2>1. x = [at |-> x.at, in |-> x.in, open |-> x.open, kept |-> x.kept]
        /\ x.at = y.at /\ x.in = FALSE /\ x.open = {} /\ x.kept = y.kept \cup y.open
    BY <1>2, <1>5, <1>11, RunLineIs
  <2>2. Kept(S) = Kept(R) \cup Underway(R)
    BY <1>3, <1>6, <1>7, <1>8, <1>11 DEF Kept, Underway
  <2>3. Underway(S) = {} /\ ~Within(S)
    BY <1>3, <1>6, <1>7, <1>8, <1>11 DEF Underway, Within
  <2>4. x.at = l.db
    BY <1>4, <1>11, <2>1 DEF d
  <2>5. InItsDatabase({}) = {} /\ InItsDatabase(Kept(S)) = InItsDatabase(Kept(R)) \cup InItsDatabase(Underway(R))
    BY <2>2 DEF InItsDatabase
  <2> QED
    BY <1>2, <1>5, <2>1, <2>3, <2>4, <2>5 DEF Session
<1>12. CASE l.word = "sql" /\ Atomic
  <2>1. Within(R) /\ Within(S)
    BY <1>3, <1>6, <1>7, <1>8, <1>12 DEF Within
  <2>2. y.in = TRUE
    BY <1>2, <2>1
  <2>3. x = [at |-> x.at, in |-> x.in, open |-> x.open, kept |-> x.kept]
        /\ x.at = y.at /\ x.in = TRUE /\ x.open = y.open \cup {<<y.at, l.of>>} /\ x.kept = y.kept
    BY <1>2, <1>5, <1>12, <2>2, RunLineIs
  <2>4. Kept(S) = Kept(R)
    BY <1>3, <1>6, <1>12 DEF Kept
  <2>5. Underway(S) = Underway(R) \cup {l.of}
    BY <1>3, <1>6, <1>7, <1>8, <1>12 DEF Underway
  <2>6. x.at = l.db /\ y.at = database[l.of]
    BY <1>4, <1>8, <1>12, <2>3 DEF d
  <2>7. InItsDatabase(Underway(S)) = InItsDatabase(Underway(R)) \cup {<<y.at, l.of>>}
    BY <2>5, <2>6 DEF InItsDatabase
  <2> QED
    BY <1>2, <1>5, <2>1, <2>3, <2>4, <2>6, <2>7 DEF Session
<1>13. CASE l.word = "sql" /\ ~Atomic
  <2>1. ~Within(R) /\ ~Within(S)
    BY <1>13 DEF Within
  <2>2. y.in = FALSE
    BY <1>2, <2>1
  <2>3. x = [at |-> x.at, in |-> x.in, open |-> x.open, kept |-> x.kept]
        /\ x.at = y.at /\ x.in = FALSE /\ x.open = y.open /\ x.kept = y.kept \cup {<<y.at, l.of>>}
    BY <1>2, <1>5, <1>13, <2>2, RunLineIs
  <2>4. Underway(S) = Underway(R)
    BY <1>13 DEF Underway
  <2>5. Kept(S) = Kept(R) \cup {l.of}
    BY <1>3, <1>8, <1>13 DEF Kept
  <2>6. x.at = l.db /\ y.at = database[l.of]
    BY <1>4, <1>8, <1>13, <2>3 DEF d
  <2>7. InItsDatabase(Kept(S)) = InItsDatabase(Kept(R)) \cup {<<y.at, l.of>>}
    BY <2>5, <2>6 DEF InItsDatabase
  <2> QED
    BY <1>2, <1>5, <2>1, <2>3, <2>4, <2>6, <2>7 DEF Session
<1> QED
  BY <1>8, <1>9, <1>10, <1>11, <1>12, <1>13 DEF x, l

----------------------------------------------------------------------------
(* What scripts leave behind.                                              *)

\* What a script leaves behind that ran its first lines.
LEMMA LeftByKept ==
  ASSUME Planned, NEW lines, Cut(lines)
  PROVE  LeftBy(lines) = InItsDatabase(Kept(lines))
<1>0. lines \in SUBSET Script
  BY DEF Cut
<1>1. PICK f : Sessions(f, lines) /\ LeftBy(lines) = f[lines].kept
  BY <1>0, LeftByIs
<1> DEFINE P == {n \in Nat : \A S \in SUBSET lines : Cut(S) /\ Cardinality(S) = n => Session(S, f[S])}
<1>2. \A S \in SUBSET lines : IsFiniteSet(S) /\ S \in SUBSET Script
  BY <1>0, ScriptFinite, FS_Subset
<1>3. \A S \in SUBSET lines : f[S] = IF S = {} THEN Fresh ELSE RunLine(f[S \ {Bottom(S)}], Bottom(S))
  BY <1>1 DEF Sessions
<1>4. 0 \in P
  <2>1. ASSUME NEW S \in SUBSET lines, Cardinality(S) = 0 PROVE Session(S, f[S])
    <3>1. S = {}
      BY <1>2, <2>1, FS_EmptySet
    <3>2. f[S] = [at |-> 0, in |-> FALSE, open |-> {}, kept |-> {}]
      BY <1>3, <3>1 DEF Fresh
    <3>3. Kept(S) = {} /\ Underway(S) = {} /\ ~Within(S)
      BY <3>1 DEF Kept, Underway, Within
    <3>4. InItsDatabase({}) = {}
      BY DEF InItsDatabase
    <3> QED
      BY <3>1, <3>2, <3>3, <3>4 DEF Session
  <2> QED
    BY <2>1
<1>5. ASSUME NEW n \in P PROVE n + 1 \in P
  <2>1. n \in Nat /\ \A S \in SUBSET lines : Cut(S) /\ Cardinality(S) = n => Session(S, f[S])
    OBVIOUS
  <2>2. ASSUME NEW S \in SUBSET lines, Cut(S), Cardinality(S) = n + 1 PROVE Session(S, f[S])
    <3> DEFINE R == S \ {Bottom(S)}
    <3>1. S # {}
      <4>1. Cardinality({}) = 0
        BY FS_EmptySet
      <4> QED
        BY <2>1, <2>2, <4>1
    <3>2. Bottom(S) \in S /\ Cut(R) /\ R \in SUBSET lines
      BY <2>2, <3>1, CutLast
    <3>3. IsFiniteSet(S)
      BY <1>2
    <3>4. Cardinality(R) = Cardinality(S) - 1
      BY <3>2, <3>3, FS_RemoveElement
    <3>5. Session(R, f[R])
      BY <2>1, <2>2, <3>2, <3>4
    <3>6. f[S] = RunLine(f[R], Bottom(S))
      BY <1>3, <3>1
    <3>7. Session(S, RunLine(f[R], Bottom(S)))
      BY <2>2, <3>1, <3>5, SessionStep
    <3> QED
      BY <3>6, <3>7
  <2> QED
    BY <2>1, <2>2
<1> HIDE DEF P
<1>6. P = Nat
  BY <1>4, <1>5, NatInductionOnSets DEF P
<1>7. Cardinality(lines) \in P
  BY <1>2, <1>6, FS_CardinalityType
<1>8. Session(lines, f[lines])
  BY <1>7 DEF P
<1> QED
  BY <1>1, <1>8 DEF Session

LEMMA StopsCut ==
  ASSUME Planned
  PROVE  Script \in Stops /\ Cut(Script) /\ \A lines \in Stops : Cut(lines)
<1>1. ASSUME NEW l \in Script PROVE Cut({m \in Script : Above(m, l)})
  BY AboveOrder DEF Cut
<1>2. Cut(Script)
  BY DEF Cut
<1> QED
  BY <1>1, <1>2 DEF Stops

LEMMA KeptPrefix ==
  ASSUME Planned, NEW S, Cut(S)
  PROVE  IsPrefix(Kept(S)) /\ (Atomic => \A k \in Kept(S) : Unit(k) \subseteq Kept(S))
<1>1. ASSUME NEW k \in Kept(S), NEW j \in Statements, Before(j, k) PROVE j \in Kept(S)
  <2>0. k \in Statements /\ j \in Nat /\ k \in Nat /\ database[j] \in Nat /\ database[k] \in Nat
        /\ database[j] \in TouchedDatabases /\ database[k] \in TouchedDatabases
    BY PlanNumbers DEF Kept
  <2>1. CASE Atomic
    <3>1. CommitLine(database[k]) \in S
      BY <2>1 DEF Kept
    <3>2. CommitLine(database[j]) \in Script /\ CommitLine(database[k]) \in Script
      BY <2>0, <2>1, OfScript
    <3>3. database[j] < database[k] => Above(CommitLine(database[j]), CommitLine(database[k]))
      BY LineFields DEF Above
    <3>4. database[j] < database[k] \/ database[j] = database[k]
      BY <1>1 DEF Before
    <3>5. CommitLine(database[j]) \in S
      BY <3>1, <3>2, <3>3, <3>4 DEF Cut
    <3> QED
      BY <2>1, <3>5 DEF Kept
  <2>2. CASE ~Atomic
    <3>1. SqlLine(k) \in S
      BY <2>2 DEF Kept
    <3>2. SqlLine(j) \in Script
      BY OfScript
    <3>3. Above(SqlLine(j), SqlLine(k))
      BY <1>1, LineFields DEF Above, Before
    <3>4. SqlLine(j) \in S
      BY <3>1, <3>2, <3>3 DEF Cut
    <3> QED
      BY <2>2, <3>4 DEF Kept
  <2> QED
    BY <2>1, <2>2
<1>2. ASSUME Atomic, NEW k \in Kept(S), NEW j \in Unit(k) PROVE j \in Kept(S)
  BY <1>2 DEF Unit, Kept
<1> QED
  BY <1>1, <1>2 DEF IsPrefix

LEMMA KeptAll ==
  ASSUME Planned
  PROVE  Kept(Script) = Statements
BY OfScript DEF Kept

\* A whole beginning of the plan is what some script leaves behind.
LEMMA StopsAt ==
  ASSUME Planned, NEW S \in SUBSET Statements, IsPrefix(S), Atomic => \A k \in S : Unit(k) \subseteq S
  PROVE  \E lines \in Stops : Kept(lines) = S
<1>1. CASE S = Statements
  BY <1>1, KeptAll, StopsCut
<1>2. CASE S # Statements
  <2> DEFINE T == Statements \ S
             later == {q \in Statements \X Statements : Before(q[2], q[1])}
  <2>1. \A i, j \in Statements : <<i, j>> \in later <=> Before(j, i)
    OBVIOUS
  <2>2. IsFiniteSet(T) /\ T # {} /\ T \subseteq Statements
    <3>1. IsFiniteSet(Statements)
      BY FS_Interval, SizeAssumption DEF Statements
    <3> QED
      BY <1>2, <3>1, FS_Subset
  <2>3. \A i, j \in T : i = j \/ <<i, j>> \in later \/ <<j, i>> \in later
    BY <2>1, <2>2, BeforeTotal DEF Planned
  <2>4. \A i, j, k \in T : <<i, j>> \in later /\ <<j, k>> \in later => <<i, k>> \in later
    BY <2>1, <2>2, BeforeTransitive DEF Planned
  <2> HIDE DEF later, T
  <2>5. PICK k : Greatest(T, later, k)
    BY <2>2, <2>3, <2>4, GreatestExists
  <2>6. k \in T /\ k \in Statements /\ \A j \in T \ {k} : Before(k, j)
    BY <2>1, <2>2, <2>5 DEF Greatest
  <2>7. /\ \A i \in Statements : i \in Nat /\ database[i] \in Nat /\ database[i] \in TouchedDatabases
        /\ k \notin S
    BY <2>6, PlanNumbers DEF T
  <2>8. CASE Atomic
    <3> DEFINE l == BeginLine(database[k])
               lines == {m \in Script : Above(m, l)}
    <3>1. lines \in Stops
      BY <2>6, <2>7, <2>8, OfScript DEF Stops
    <3>2. \A i \in Statements : i \in Kept(lines) <=> database[i] < database[k]
      <4> TAKE i \in Statements
      <4>1. CommitLine(database[i]) \in Script
        BY <2>7, <2>8, OfScript
      <4>2. Above(CommitLine(database[i]), l) <=> database[i] < database[k]
        BY <2>6, <2>7, LineFields DEF Above
      <4>3. CommitLine(database[i]) \in lines <=> database[i] < database[k]
        BY <4>1, <4>2
      <4> HIDE DEF lines
      <4> QED
        BY <2>8, <4>3 DEF Kept
    <3>3. ASSUME NEW i \in Statements PROVE i \in S <=> database[i] < database[k]
      <4>1. CASE i \in S
        <5>1. database[i] # database[k]
          BY <2>6, <2>7, <2>8, <4>1 DEF Unit
        <5>2. ~(database[k] < database[i])
          BY <2>6, <2>7, <4>1 DEF IsPrefix, Before
        <5> QED
          BY <2>6, <2>7, <4>1, <5>1, <5>2
      <4>2. CASE i \notin S
        <5>1. i = k \/ Before(k, i)
          BY <2>6, <4>2 DEF T
        <5> QED
          BY <2>6, <2>7, <4>2, <5>1 DEF Before
      <4> QED
        BY <4>1, <4>2
    <3>4. Kept(lines) \subseteq Statements
      BY DEF Kept
    <3> HIDE DEF lines
    <3>5. Kept(lines) = S
      BY <3>2, <3>3, <3>4
    <3> QED
      BY <3>1, <3>5
  <2>9. CASE ~Atomic
    <3> DEFINE l == SqlLine(k)
               lines == {m \in Script : Above(m, l)}
    <3>1. lines \in Stops
      BY <2>6, OfScript DEF Stops
    <3>2. \A i \in Statements : i \in Kept(lines) <=> Before(i, k)
      <4> TAKE i \in Statements
      <4>1. SqlLine(i) \in Script
        BY OfScript
      <4>2. Above(SqlLine(i), l) <=> Before(i, k)
        BY <2>6, <2>7, LineFields DEF Above, Before
      <4>3. SqlLine(i) \in lines <=> Before(i, k)
        BY <4>1, <4>2
      <4> HIDE DEF lines
      <4> QED
        BY <2>9, <4>3 DEF Kept
    <3>3. ASSUME NEW i \in Statements PROVE i \in S <=> Before(i, k)
      <4>1. CASE i \in S
        <5>1. i # k /\ ~Before(k, i)
          BY <2>6, <2>7, <4>1 DEF IsPrefix
        <5> QED
          BY <2>6, <4>1, <5>1, BeforeTotal DEF Planned
      <4>2. CASE i \notin S
        <5>1. i = k \/ Before(k, i)
          BY <2>6, <4>2 DEF T
        <5> QED
          BY <2>6, <4>2, <5>1, BeforeTotal DEF Planned
      <4> QED
        BY <4>1, <4>2
    <3>4. Kept(lines) \subseteq Statements
      BY DEF Kept
    <3> HIDE DEF lines
    <3>5. Kept(lines) = S
      BY <3>2, <3>3, <3>4
    <3> QED
      BY <3>1, <3>5
  <2> QED
    BY <2>8, <2>9
<1> QED
  BY <1>1, <1>2

(* sql.go:10-16 and docs/commands.md: whatever the plan, apply and the script *)
(* leave the same states behind, wherever either of them stops.              *)
THEOREM AlwaysMirrored == Spec => []ScriptMirrorsApply
<1>1. IInv => ScriptMirrorsApply
  <2> SUFFICES ASSUME IInv PROVE ScriptMirrorsApply
    OBVIOUS
  <2>1. Planned /\ applied \in SUBSET Statements /\ (pc = "done" => applied = Statements)
        /\ IsPrefix(applied) /\ (Atomic => \A k \in applied : Unit(k) \subseteq applied)
    BY DEF IInv, TypeOK, Position, Leaves, WholeDatabases, Planned
  <2>2. \A lines \in Stops : LeftBy(lines) = InItsDatabase(Kept(lines))
    BY <2>1, LeftByKept, StopsCut
  <2>3. \E lines \in Stops : LeftBy(lines) = InItsDatabase(applied)
    BY <2>1, <2>2, StopsAt
  <2>4. pc = "done" => InItsDatabase(applied) = LeftBy(Script)
    BY <2>1, <2>2, KeptAll, StopsCut
  <2>5. \A lines \in Stops :
          /\ Kept(lines) \in SUBSET Statements /\ LeftBy(lines) = InItsDatabase(Kept(lines))
          /\ IsPrefix(Kept(lines)) /\ (Atomic => \A k \in Kept(lines) : Unit(k) \subseteq Kept(lines))
    <3>1. \A lines : Kept(lines) \in SUBSET Statements
      BY DEF Kept
    <3> QED
      BY <2>1, <2>2, <3>1, KeptPrefix, StopsCut
  <2> QED
    BY <2>3, <2>4, <2>5 DEF ScriptMirrorsApply
<1>2. QED
  BY <1>1, Invariant, PTL
=============================================================================
