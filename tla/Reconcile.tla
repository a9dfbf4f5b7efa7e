----------------------------- MODULE Reconcile -----------------------------
(***************************************************************************)
(* Operators who run `pgroledef apply` against one server, by hand or from *)
(* CI, while others change the server too.                                 *)
(*                                                                         *)
(* A run reads the catalog and diffs it (plan.Build), refuses or asks      *)
(* (applyCmd in cmd/pgroledef/main.go), and executes (plan.Apply).  The    *)
(* executor is modelled step by step in Apply; here a statement, or on     *)
(* Aurora a database's transaction, is what takes effect, and a run may    *)
(* end at any of them, before or after it took effect: an error, a lost    *)
(* connection, a kill.  Between the plan and the last statement the        *)
(* catalog may move.                                                       *)
(***************************************************************************)
EXTENDS RoleDiffs

CONSTANTS
  Operators,        \* the runs there may be at a time
  AllowDestroy,     \* the values of --allow-destroy they may use
  Answers,          \* what they may answer at the prompt
  InitialCatalogs,
  HandGrants,       \* ACL entries,
  HandDefaults,     \* default ACL entries and
  HandMembers,      \* memberships that others add, or take away
  NewRelations,     \* <<role, relation>> that roles may create
  DroppedRelations, \* relations and
  DroppedRoles,     \* roles that others may drop
  Closing,          \* databases that others may close to connections
  MaxDisturbances   \* bound: such changes and runs cut short, together

ASSUME OperatorsAssumption == AllowDestroy \subseteq BOOLEAN /\ Answers \subseteq {"yes", "no"}
ASSUME CatalogsAssumption ==
  \A c \in InitialCatalogs : c = [f \in DOMAIN NothingRead |-> c[f]] /\ WellFormed(c)
\* The executing user is there to stay.
ASSUME MeAssumption == Me \notin DroppedRoles /\ \A c \in InitialCatalogs : Me \in c.roles
ASSUME MembersAssumption == \A m \in HandMembers : m = <<m[1], m[2]>>
\* What objects, ACL entries, default ACL entries, memberships and IAM mappings
\* look like (module Catalog), wherever they come from.
ASSUME ShapesAssumption ==
  /\ \A o \in {g[1] : g \in Decl.grants} \cup {n[2] : n \in NewRelations}
             \cup UNION {Objects(c) : c \in InitialCatalogs} :
       /\ o = <<o[1], o[2], o[3], o[4]>>
       /\ o[2] \in RelationKinds \/ o \in {DatabaseObject(o[1]), SchemaObject(o[1], o[3])}
  /\ \A n \in NewRelations : n = <<n[1], n[2]>> /\ n[2][2] \in RelationKinds
  /\ \A e \in HandGrants \cup Decl.grants \cup UNION {c.acl : c \in InitialCatalogs} :
       e = <<e[1], e[2], e[3]>>
  /\ \A e \in HandDefaults \cup Decl.defaults \cup UNION {c.dacl : c \in InitialCatalogs} :
       e = <<e[1], e[2], e[3], e[4], e[5], e[6]>>
  /\ \A e \in Decl.memberOf \cup Decl.iam \cup UNION {c.iam : c \in InitialCatalogs} :
       e = <<e[1], e[2]>>
\* Names are numbers in sort order, and 0 is none.
ASSUME NamesAssumption ==
  /\ Public \notin Managed
  /\ \A g \in Decl.grants : g[1][1] \in Nat
  /\ \A e \in HandDefaults \cup Decl.defaults \cup UNION {c.dacl : c \in InitialCatalogs} :
       {e[1], e[2], e[3], e[4], e[5]} \subseteq Nat
  /\ \A w \in Decl.wide : {w[1], w[2], w[3], w[4]} \subseteq Nat
  /\ \A c \in Decl.creates : c[1] \in Nat
ASSUME NumbersAssumption ==
  /\ Decl.roles \in Seq(Nat)
  /\ \A m \in Decl.memberOf \cup Decl.iam \cup HandMembers
             \cup UNION {c.member \cup c.iam : c \in InitialCatalogs} : m[2] \in Nat
  /\ \A o \in {g[1] : g \in Decl.grants} \cup {n[2] : n \in NewRelations}
             \cup UNION {Objects(c) : c \in InitialCatalogs} : {o[1], o[3], o[4]} \subseteq Nat
\* There are finitely many of them.
ASSUME FiniteAssumption ==
  /\ IsFiniteSet(Decl.memberOf \cup HandMembers \cup UNION {c.member : c \in InitialCatalogs})
  /\ IsFiniteSet(Decl.iam \cup UNION {c.iam : c \in InitialCatalogs})
  /\ IsFiniteSet(NewRelations) /\ IsFiniteSet(UNION {Objects(c) : c \in InitialCatalogs})
  /\ IsFiniteSet(Decl.grants) /\ IsFiniteSet(Decl.wide) /\ IsFiniteSet(Decl.creates)
  /\ IsFiniteSet(HandDefaults \cup Decl.defaults \cup UNION {c.dacl : c \in InitialCatalogs})
ASSUME BoundAssumption == MaxDisturbances \in Nat

VARIABLES
  cat,       \* the committed catalog
  op,        \* each operator's run: [phase, st, left, allow, plan, tx]
  stale,     \* history: operators whose snapshot others have outdated
  changes,   \* changes made by others so far
  faults     \* runs cut short so far

vars == <<cat, op, stale, changes, faults>>

Phases == {"idle", "reading", "planned", "applying", "applied", "clean", "refused", "failed"}
Resting == Phases \ {"reading", "planned", "applying"}

\* A run that has not started: nothing read, nothing to do.
Idle == [phase |-> "idle", st |-> NothingRead, left |-> {}, allow |-> FALSE,
         plan |-> {}, tx |-> <<>>]

Init ==
  /\ cat \in InitialCatalogs
  /\ op = [p \in Operators |-> Idle]
  /\ stale = {} /\ changes = 0 /\ faults = 0

----------------------------------------------------------------------------
\* The run of p ends, or goes on, with what is left to execute.
End(p, phase) == op' = [op EXCEPT ![p] = [Idle EXCEPT !.phase = phase]]

\* Mutant: a run reports success after its first database or statement.
GoOnOnce(p, rest, tx) ==
  op' = [op EXCEPT ![p].plan = rest, ![p].tx = tx,
                   ![p].phase = IF tx = <<>> THEN "applied" ELSE "applying"]

GoOn(p, rest, tx) ==
  op' = [op EXCEPT ![p].plan = rest, ![p].tx = tx,
                   ![p].phase = IF rest = {} /\ tx = <<>> THEN "applied" ELSE "applying"]

\* The catalog p's open transaction sees, and whether the server would still
\* accept its statements in that order.
Views(tx) ==
  LET after[i \in 0 .. Len(tx)] == IF i = 0 THEN cat ELSE Effect(after[i - 1], tx[i])
  IN after
View(tx) == Views(tx)[Len(tx)]
Replays(tx) == \A i \in DOMAIN tx : Permitted(Views(tx)[i - 1], tx[i])

Changed(by) == stale' = IF cat' = cat THEN stale ELSE stale \cup (Operators \ by)

\* Diff, and the first lines of applyCmd.
Decide(p, st) ==
  \/ PlanFails(st) /\ End(p, "failed")
  \/ /\ ~PlanFails(st)
     /\ LET plan == Diff(st) IN
          \/ plan = {} /\ End(p, "clean")
          \/ /\ plan # {}
             /\ \E allow \in AllowDestroy :
                  op' = [op EXCEPT ![p] = [Idle EXCEPT !.phase = "planned", !.allow = allow,
                                                       !.plan = plan]]

\* Build, up to the databases still to read: the next connection, or Diff.
ReadOn(p, st, left) ==
  \/ left = {} /\ Decide(p, st)
  \/ /\ left # {}
     /\ op' = [op EXCEPT ![p] = [Idle EXCEPT !.phase = "reading", !.st = st, !.left = left]]

\* A run starts: roles, memberships, the ACLs of the databases.
StartReading(p) ==
  /\ op[p].phase \in Resting
  /\ LET st == ReadCluster(cat, IAMPrincipals) IN
       \/ MissingDatabase(st) /\ End(p, "failed")
       \/ ~MissingDatabase(st) /\ ReadOn(p, st, DatabasesToRead(st))
  /\ stale' = stale \ {p}
  /\ UNCHANGED <<cat, changes, faults>>

\* The next database, on a connection of its own.
ReadNextDatabase(p) ==
  /\ op[p].phase = "reading"
  /\ \E db \in ReadNext(op[p].left) :
       \/ db \notin cat.open /\ End(p, "failed")
       \/ /\ db \in cat.open
          /\ ReadOn(p, ReadDatabases(cat, op[p].st, {db}), op[p].left \ {db})
  /\ UNCHANGED <<cat, stale, changes, faults>>

\* The --allow-destroy gate comes before the question.
Confirm(p) ==
  /\ op[p].phase = "planned"
  /\ \/ NeedsAllowDestroy(op[p].plan) /\ ~op[p].allow /\ End(p, "refused")
     \/ /\ NeedsAllowDestroy(op[p].plan) => op[p].allow
        /\ \E answer \in Answers :
             \/ answer = "yes" /\ op' = [op EXCEPT ![p].phase = "applying"]
             \/ answer # "yes" /\ End(p, "refused")
  /\ UNCHANGED <<cat, stale, changes, faults>>

\* The next statement, in the transaction of its database or in its own.
NextStatement(p, s) ==
  /\ op[p].phase = "applying"
  /\ IsFirst(op[p].plan, s)
  /\ op[p].tx # <<>> => op[p].tx[1].db = s.db

\* The database does not let the run connect, or not execute.  (The one DSQL
\* database is never closed.)
Refused(tx, s) ==
  \/ tx = <<>> /\ s.db \notin cat.open \cup {0}
  \/ ~Permitted(View(tx), s)

Execute(p) ==
  /\ \E s \in op[p].plan :
       /\ NextStatement(p, s)
       /\ IF Refused(op[p].tx, s) THEN End(p, "failed") /\ UNCHANGED cat
          ELSE \/ /\ Atomic
                  /\ GoOn(p, op[p].plan \ {s}, Append(op[p].tx, s))
                  /\ UNCHANGED cat
               \/ /\ ~Atomic
                  /\ cat' = Effect(cat, s)
                  /\ GoOn(p, op[p].plan \ {s}, <<>>)
  /\ Changed({p})
  /\ UNCHANGED <<changes, faults>>

\* tx.Commit, once no statement of the database is left.
Commit(p) ==
  /\ op[p].phase = "applying"
  /\ op[p].tx # <<>>
  /\ \A s \in op[p].plan : s.db # op[p].tx[1].db
  /\ IF Replays(op[p].tx)
     THEN cat' = View(op[p].tx) /\ GoOn(p, op[p].plan, <<>>)
     ELSE End(p, "failed") /\ UNCHANGED cat
  /\ Changed({p})
  /\ UNCHANGED <<changes, faults>>

\* The run is cut short; its open transaction, if any, is rolled back.
Interrupt(p) ==
  /\ changes + faults < MaxDisturbances
  /\ op[p].phase = "applying"
  /\ End(p, "failed")
  /\ faults' = faults + 1
  /\ UNCHANGED <<cat, stale, changes>>

\* The answer is lost: what p was at took effect, and p does not know.
LoseAnswer(p) ==
  /\ changes + faults < MaxDisturbances
  /\ op[p].phase = "applying"
  /\ \/ /\ Atomic /\ op[p].tx # <<>>
        /\ \A s \in op[p].plan : s.db # op[p].tx[1].db
        /\ Replays(op[p].tx)
        /\ cat' = View(op[p].tx)
     \/ /\ ~Atomic
        /\ \E s \in op[p].plan :
             NextStatement(p, s) /\ Permitted(cat, s) /\ cat' = Effect(cat, s)
  /\ End(p, "failed")
  /\ Changed({p})
  /\ faults' = faults + 1
  /\ UNCHANGED changes

----------------------------------------------------------------------------
(* What others do to the server.                                           *)

Toggle(S, e) == IF e \in S THEN S \ {e} ELSE S \cup {e}

HandGrant ==
  \E e \in HandGrants :
    /\ e[1] \in Objects(cat) /\ e[2] \in cat.roles
    /\ cat' = [cat EXCEPT !.acl = Toggle(@, e)]

HandDefault ==
  \E e \in HandDefaults :
    /\ {e[3], e[5]} \subseteq cat.roles
    /\ cat' = [cat EXCEPT !.dacl = Toggle(@, e)]

\* An existing membership gains or loses INHERIT; ADMIN is left alone.
HandMember ==
  \E m \in HandMembers :
    /\ {m[1], m[2]} \subseteq cat.roles
    /\ m \in cat.member \/ ~Reaches(cat.member, m[2], m[1])
    /\ cat' = [cat EXCEPT !.inherit = Toggle(@, m), !.member = @ \cup {m}]

CreateRelation ==
  \E r \in NewRelations :
    /\ r[1] \in cat.roles
    /\ r[2] \notin Objects(cat)
    /\ cat' = Created(cat, r[1], r[2])

DropRelation ==
  \E o \in DroppedRelations \cap Objects(cat) : cat' = WithoutRelation(cat, o)

\* A role that owns an object cannot be dropped.
DropRole ==
  \E r \in DroppedRoles \cap cat.roles :
    /\ \A o \in Objects(cat) : cat.owner[o] # r
    /\ cat' = WithoutRole(cat, r)

CloseDatabase == \E db \in Closing : cat' = [cat EXCEPT !.open = Toggle(@, db)]

Others ==
  /\ changes + faults < MaxDisturbances
  /\ \/ HandGrant \/ HandDefault \/ HandMember
     \/ CreateRelation \/ DropRelation \/ DropRole \/ CloseDatabase
  /\ changes' = changes + 1
  /\ Changed({})
  /\ UNCHANGED <<op, faults>>

----------------------------------------------------------------------------
Progress(p) ==
  StartReading(p) \/ ReadNextDatabase(p) \/ Confirm(p) \/ Execute(p) \/ Commit(p)

Next ==
  \/ \E p \in Operators : Progress(p) \/ Interrupt(p) \/ LoseAnswer(p)
  \/ Others

\* A run goes on by itself; that a run follows a run is the operators' part:
\* they re-run until nothing is left, as the documentation tells them to.
Spec == Init /\ [][Next]_vars /\ \A p \in Operators : WF_vars(Progress(p))

----------------------------------------------------------------------------
(* Properties.                                                             *)

\* The catalog stays well formed, and a run holds a plan and an open
\* transaction only while it needs them.
TypeOK ==
  /\ WellFormed(cat)
  /\ \A p \in Operators :
       /\ op[p].phase \in Phases /\ op[p].allow \in BOOLEAN
       /\ op[p].phase \in {"planned", "applying"} \/ op[p].plan = {}
       /\ op[p].phase = "reading" \/ (op[p].st = NothingRead /\ op[p].left = {})
       /\ op[p].tx # <<>> => Atomic /\ op[p].phase = "applying"
  /\ stale \subseteq Operators
  /\ changes \in Nat /\ faults \in Nat /\ changes + faults <= MaxDisturbances

\* What a run would read if nothing moved meanwhile, and nothing to do about it.
Snapshot(c) ==
  LET st == ReadCluster(c, IAMPrincipals) IN
    ReadDatabases(c, st, DatabasesToRead(st) \cap c.open)
ConvergedAt(c) == LET st == Snapshot(c) IN ~PlanFails(st) /\ Diff(st) = {}
Converged == ConvergedAt(cat)

\* "Re-running after success produces: No changes" (docs/how-it-works.md), if
\* nobody else touched the catalog since the plan was made.
Idempotent ==
  \A p \in Operators \ stale : op[p].phase = "applied" => Converged

\* The planner's order is one the server can execute: on the catalog it was
\* made for, no statement is refused because of what an earlier one did or
\* did not do yet.
PlanExecutable ==
  \A p \in Operators \ stale : \A s \in op[p].plan :
    NextStatement(p, s) => Permitted(View(op[p].tx), s)

\* "It carries the same information as the statements" (diff_display.go:12-14):
\* what the operator is shown before the question is what the plan does, to
\* everything but the executing user's own memberships, which are not shown.
ShownIsDone ==
  \A p \in Operators \ stale : op[p].phase = "planned" =>
    LET expected == Expected(cat, Diffs(Snapshot(cat)))
        done == Outcome(cat, op[p].plan)
        ofOthers(pairs) == {m \in pairs : m[1] # Me}
    IN /\ <<done.roles, done.login, done.iam, done.acl, done.dacl>>
            = <<expected.roles, expected.login, expected.iam, expected.acl, expected.dacl>>
       /\ ofOthers(done.member) = ofOthers(expected.member)

\* A leftover borrow does not go unnoticed: when a run finds nothing to do,
\* the executing user inherits from no role (docs/aurora-dsql.md).
CleanMeansReturned ==
  \A p \in Operators \ stale :
    op[p].phase = "clean" => \A m \in cat.inherit : m[1] # Me

\* The memberships borrowed for ALTER DEFAULT PRIVILEGES never cost the
\* executing user the ADMIN OPTION it has on a role (undoBorrow).
AdminKept ==
  [][changes' = changes => \A m \in cat.admin : m[1] = Me => m \in cat'.admin]_vars

Altered(S, T) == (S \ T) \cup (T \ S)

\* Whatever the plan and however late it is executed, pgroledef changes what
\* the declaration has authority over, and nothing else: managed roles, what
\* they hold on managed databases, and the executing user's own membership in
\* a managed role (docs/how-it-works.md, policy).
StaysWithinAuthority ==
  [][changes' = changes =>
       /\ Altered(cat.roles, cat'.roles) \cup Altered(cat.login, cat'.login) \subseteq Managed
       /\ \A m \in Altered(cat.member, cat'.member) \cup Altered(cat.inherit, cat'.inherit) :
            m[1] \in Managed \/ (m[1] = Me /\ m[2] \in Managed)
       /\ \A e \in Altered(cat.iam, cat'.iam) : e[1] \in Managed
       /\ \A e \in Altered(cat.acl, cat'.acl) :
            e[2] \in Managed /\ e[1][1] \notin Decl.unmanaged
       /\ \A e \in Altered(cat.dacl, cat'.dacl) :
            {e[3], e[5]} \cap Managed # {} /\ e[1] \notin Decl.unmanaged
       /\ cat'.owner = cat.owner]_vars

\* Without --allow-destroy nobody but the executing user loses anything,
\* however the catalog moved between the plan and its last statement.
NothingTakenUnasked ==
  [][\A p \in Operators : op'[p] # op[p] /\ ~op[p].allow =>
       /\ cat.login \subseteq cat'.login
       /\ cat.iam \subseteq cat'.iam
       /\ cat.acl \subseteq cat'.acl
       /\ cat.dacl \subseteq cat'.dacl
       /\ \A m \in cat.member : m[1] # Me => m \in cat'.member
       /\ \A m \in cat.inherit : m[1] # Me => m \in cat'.inherit]_vars

\* "On Aurora the three run in one transaction, so the borrow cannot outlive
\* the run" (docs/how-it-works.md): no other session ever sees one.
BorrowCannotOutliveRun ==
  [][changes' = changes =>
       \A m \in cat'.inherit : m[1] = Me => m \in cat.inherit]_vars

\* creates_objects_in: a relation that a declared creator adds to a schema it
\* is declared to create in needs no new plan.
CreationCovered ==
  [][(/\ Objects(cat)' \ Objects(cat) # {}
      /\ \A o \in Objects(cat)' \ Objects(cat) : <<cat'.owner[o], o[1], o[3]>> \in Decl.creates
      /\ Converged)
     => ConvergedAt(cat')]_vars

\* A release that passes without --allow-destroy is one the plan still uses
\* for an ALTER DEFAULT PRIVILEGES statement (docs/how-it-works.md).
ReclaimIsUsed ==
  \A p \in Operators : \A s \in op[p].plan :
    op[p].phase = "planned" /\ s.reclaim =>
      \E d \in op[p].plan :
        d.op \in {"alter default grant", "alter default revoke"} /\ d.args[3] = s.args[1]

\* Re-run until nothing is left, and the database comes to match.
Converges == <>[]Converged
=============================================================================
