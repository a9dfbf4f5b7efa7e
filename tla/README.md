# A TLA+ model of pgroledef

pgroledef reconciles PostgreSQL roles and privileges with a declaration. `plan`
and `apply` evaluate the declaration, read the live catalog, diff the two into
SQL statements, and print or execute them. There is no state file: everything
rests on the promise that the plan can be executed, that a run cut short leaves
something the next run can go on from, that a run that succeeded leaves nothing
to do, and that nothing outside the declaration is touched. That promise is
what this directory models and checks with TLC; every property a run passes, the
liveness excepted, is proved with TLAPS as well.

## The system

| component | state | operations | where |
|---|---|---|---|
| declaration | a validated, normalized config | `Decode`, `Validate` (with `expandCreators`), `CheckServerMajor` | `internal/config` |
| catalog reader | a `State`: roles, memberships, ACLs, default ACLs, owners | `ReadCluster`, `ReadDatabase`, `ReadIAMPrincipals` | `internal/catalog` |
| connector | a password, once prompted for | `Connect`, `shouldPrompt`, `SetPassword` | `internal/catalog`, `cmd/pgroledef/prompt.go` |
| planner | none: a pure function of declaration and `State` | `Build`, `Diff` and its parts | `internal/plan/plan.go` |
| dialects | none | `DialectFor`, `Atomic` | `internal/plan/dialect.go` |
| executor | position in the plan, an open transaction, an attempt counter | `Apply`, `applyStatements`, `execRetrying` | `internal/plan/apply.go` |
| SQL script, role diffs | none | `WriteSQL`, `WriteDiff` | `internal/plan/sql.go`, `diff_display.go` |
| command | flags, the answer at the prompt | `plan`, `apply`, `validate`, `render` | `cmd/pgroledef` |
| settings, tokens | resolved options; a token per connection | `Resolve`, `Connect` | `internal/conninfo`, `internal/awsauth` |
| jsonnet, colours | none | | `internal/jsonnetx`, `internal/termcolor` |

The command calls the planner with a connector; the planner opens a connection
for the cluster and one per database, reads, and diffs. The command prints the
plan, refuses it when it takes something away and `--allow-destroy` is missing,
asks, and hands plan and connector to the executor, which opens a connection
per database and sends the statements. The server and its catalog are shared
with everybody: other operators running `apply`, people with `psql`, roles
that create tables.

What is hard: the plan is computed once and executed later, statement by
statement, while the catalog may move; on Aurora DSQL nothing is rolled back;
an answer may be lost after the statement took effect; the plan borrows
memberships it must return; what the next run sees of a half finished one
decides whether it ever converges. `PROJECT.json` lists these hazards at their
lines, each with the properties that cover it or the reason none does.

What makes each part correct:

* executor: in effect is always a prefix of the plan in execution order, whole
  databases where DDL is transactional; nothing runs twice; success means all;
* planner: the plan can be executed in its order, leaves nothing to do, stays
  within the declaration's authority, gives back what it borrows and no more;
* command: nothing is taken from anyone without `--allow-destroy`, however late
  the plan is executed;
* declaration: what is accepted is what planner and server can take, default
  privileges derived from `creates_objects_in` agree with what the next plan would
  grant, and what `render` prints is the same declaration;
* connector and command: one password prompt, its answer used for every
  connection, the terminal restored whenever the process ends, tokens that
  travel verified and unexpired, an exit code that tells what happened.

## Modules

```
PlanOrder -> ApplySpec (INSTANCE) -> Apply -> ApplyScript -> ApplyProof
          \-> Script -------------------/
Catalog -> Planner -> RoleDiffs -> Reconcile -> ReconcileProof -> CatalogProof
                   \                              -> BorrowProof -> PlanProof -> OutcomeProof
                    \-> Declaration (INSTANCE) -> DeclarationProof
Prompt -> Command -> CommandProof
```

`MCApply`, `MCReconcile`, `MCDeclaration` and `MCCommand` hold the instances.

**`PlanOrder`** is the order in which a plan is executed. A statement is an index
of the list; `database[i]` is where it runs, 0 being the cluster level (`""`).
`Before` is `Plan.Databases()` followed by the filter of `applyStatements`;
`Unit` is what takes effect together. `database` is a variable that keeps its
first value, so that a run covers every plan of a given size: the planner does
scatter a database's statements over the list (default privileges of all
databases follow the grants of all databases).

**`Script`** is `WriteSQL`, line by line, and psql with `ON_ERROR_STOP`. The script is
a set of lines, each with its place, and `Above` is the order they come in; `Stops`
says which lines a session may have run when it ends, `LeftBy` what it leaves
behind then. `\connect` drops an open transaction, and a statement runs in
whatever database the session is in.

**`ApplySpec`** is what `plan.Apply` promises, in two actions: the next unit takes
effect, or the run stops.

**`Apply`** is `apply.go` step by step: `Connect`, `Begin`, one `Exec` action per
answer the server may give (success, 40001, another error, a connection lost
before or after the statement took effect), `Backoff` with its two select
branches, `Commit` with its own lost answer, `Kill` at any point. `cur` is the
loop position, `attempt` is `execRetrying`'s counter, `tx` and `pending` are
the open transaction, `applied` is what is in the catalog for good. `sends` and
`last` are history: how often a statement was sent, and the log's last line.
The bound `MaxConflicts` caps the 40001 answers one statement gets in a row; the
guard `attempt < MaxConflicts` is the only place where it appears.

**`ApplyScript`** puts the two ways of executing a plan side by side, and states
what they owe each other.

**`Catalog`** is the server: roles, memberships with INHERIT and ADMIN, ACLs,
default ACLs, owners, and what each statement pgroledef emits does to them
(`Effect`) or why it is refused (`Permitted`). It is external code, modelled
from how the source uses it: ALTER DEFAULT PRIVILEGES FOR ROLE x needs an
inheriting membership in x (plan.go:811-816), CREATE ROLE by a non-superuser
leaves a membership with ADMIN only (plan.go:746-750). `ReadCluster` and
`ReadDatabases` are the part of it the catalog reader keeps. Names are numbers in
sort order, so that sorting by name is comparing numbers. Whether GRANT needs the owner's privileges is a
constant, `OwnerChecks`; the runs say FALSE, an executing user that may GRANT
on every managed object. With TRUE, a release at cluster level (plan.go:801)
may come before a GRANT that needs the membership it gives back. Two more
simplifications are about memberships. There is one row for a member and a role,
as in the reader, which merges `pg_auth_members` over grantors
(catalog.go:203-222); a server keeps a row for each grantor, and a REVOKE reaches
only those of its own grantor, so that what the model takes in one statement a
server may leave in part. And neither a GRANT of a role nor a borrow asks for
ADMIN on it: the executing user is taken to be one that may grant the roles it
manages.

**`Planner`** is `plan.go`: the plan is a set of statements, each with its database
and a position, and `Precedes` compares databases first and positions second.
The positions are the order `Diff` appends in, seen from one database: 1 roles,
2 memberships, 3 IAM, 4 grants by rank (0 database, 1 schema, 2 ALL ... IN
SCHEMA, 3 table, 4 sequence), 5 default privileges with borrow, grant, revoke,
undo, and 6 releases. "sequence" sorts before "table" in the two sorts that
compare printed structs, hence `SequenceKind - kind`. The declaration is the
one `Validate` accepts, before `expandCreators`, which is `Derived`.

**`RoleDiffs`** is the diff the operator reads before answering: `differ` fills it
beside the statements, not from them. `Expected` is what a reader of `WriteDiff`
takes the catalog to become, `Outcome` what the statements make of it.

**`Reconcile`** composes them: operators read, plan, are refused or confirm, and
execute, while others grant, revoke, create and drop tables, drop roles and
close databases. `StartReading` is `Build`'s first connection, `ReadNextDatabase`
one more: the snapshot is put together from different moments, as in the code.
A run's unit of effect is what `Apply` shows it to be: a statement on DSQL, a
database's transaction on Aurora. Retries of 40001 are not visible at this
level. An open transaction is the list of statements it holds; `View` is the
catalog it sees, the committed one with these statements applied, and a commit
is refused if they would no longer be accepted (two transactions that create the
same role). `stale` and `changes` are history, `changes` and `faults` bounds.

**`Declaration`** is `internal/config`, from the file on disk to the planner: the
document is edited, loaded (`Decode`, `applyDefaults`, `Validate`,
`expandCreators`), rendered and put back as the document, and checked against
a server's version. `DeclOf` turns a document into what `Planner` takes, so that
the planner's assumption about its declaration, `ValidDecl`, and its own view of
`creates_objects_in`, `DesiredDefaults`, are checked against the validator's
(`Written` is the planner, given the document). Globs are the sets of names they
match, identifiers the tuples they parse to. A document has the fields of
`types.go` and no other (`Decode` refuses unknown ones); a grant's target is a
function of the five kinds of target, `<<>>` where the key is not there, as Go's
empty string.

**`Prompt`** is `prompt.go`: `promptPassword` on the main thread and the goroutine of
`restoreOnSignal`, one action per call (`GetState`, `signal.Notify`, echo off,
line read and echo on, `signal.Stop`, `close(done)`; receive, restore, exit), with
the channel of one signal between them. `SignalPoints` says where the main
thread may be when a signal comes. `term.GetState` is taken to succeed, on a
terminal that `isTerminal` has just looked at.

**`Command`** is one process from its flags to its exit code, with `Prompt` inside:
`newConnector` and what it refuses, every connection of `Build` and `Apply` with
pgx's list of attempts (hosts, each with and without TLS), the server turning a
connection away, `shouldPrompt`, the retry, `applyTLS`, a token per connection,
the gate, the question, the script and the exit code. The outcome of `Diff` is a
free choice here; `Reconcile` says what it is. Time passes at any moment
(`Tick`), in whole units of which a token lives `Lifetime`.

Definitions marked "Mutant" are variants with a plausible bug, one for each
property of each run; replacing the definition by the variant makes TLC report
that property.

## Runs

| run | question | states |
|---|---|---|
| `apply_tx` | every plan of 5 statements over the cluster and 2 databases, all faults, a transaction per database | 6,420 |
| `apply_statement` | every plan of 4 statements, all faults, a statement at a time, 2 retries and up to 4 conflicts | 53,460 |
| `dsql` | one operator on DSQL, with and without `--allow-destroy`, 4 changes by others or runs cut short | 326,357 |
| `dsql_race` | two operators on DSQL at once, a table or role dropped or a run cut short | 82,176 |
| `aurora` | two operators on Aurora, two managed databases and one unmanaged, 2 changes by others or runs cut short | 232,514 |
| `declaration` | two documents under every sequence of three edits, renders, servers of majors 15 to 18 | 180,079 |
| `command` | every sensible set of flags, one of two hosts up, with and without TLS, any answer of the server to each of up to 6 connections | 4,426,488 |

Five statements over three databases contain every relative position of two
statements of one database and one of another, before, between and after. Two
retries and four conflicts reach success, exhaustion and an attempt beyond.

In `dsql` the three catalogs (nothing there; drifted, created by the executing
user; drifted, created by somebody else) and two keys for one creator cover
both ways of undoing a borrow, two borrows in a row, and a leftover seen by a
run with and without `--allow-destroy`; two cut short runs leave a borrow on top
of a leftover, with two changes by others on top (`MaxDisturbances` bounds both
together). `aurora` borrows in two databases, and a database closes to
connections between the plan and its transaction. The two operators of `aurora`
are symmetric and it checks no liveness, so it uses symmetry; `dsql_race`, which
does check liveness, does not.

`declaration` starts from a document each engine accepts; an edit changes the
target, the policy, or a role, and `RoleBlocks` has one for nearly every
rule of validate.go, so three edits (`MaxEdits`) reach two mistakes that make up for
each other and a third. `command` has three connections for the plan and up to
three for the run: one before, one with and one after the prompt. `MaxClock` is
one more than `Lifetime`: a token signed at the start has expired at the end.
Its signals come while the line is read; the gap before that is what the run
`prompt_echo` is about.

Deadlock is not checked where runs end and operators may stop; it is in
`declaration`, where a document can always be loaded again.

What the properties say:

* `PrefixApplied`, `WholeDatabases`, `DoneMeansAll`, `ImplementsSpec`: partial
  failure leaves a prefix, of whole databases on Aurora.
* `ScriptMirrorsApply`: what a run of `Apply` leaves behind is what its script leaves
  when it stops somewhere, in the same databases, and the script leaves nothing
  else than prefixes of whole units.
* `NeverTwice`, `BoundedAttempts`, `GivesUpLate`: the retry loop.
* `LogTellsPoint`: on DSQL the log's last line is where it stopped.
* `Idempotent`: after a successful run nobody interfered with, the next plan is
  empty. `PlanExecutable`: such a run is never refused a statement.
* `ShownIsDone`: the diff the operator confirms is what the statements do.
* `CleanMeansReturned`: "No changes" implies the executing user inherits from no
  role. It is about INHERIT, as the documentation is: of a borrow that a run cut
  short left, a later one takes INHERIT back, and a membership without it may stay.
  `AdminKept`: the executing user never loses ADMIN, to its own undo of a borrow
  (`dsql`) nor to that of a run whose snapshot is older than another's CREATE ROLE
  (`dsql_race`). `BorrowCannotOutliveRun`: on Aurora no
  other session ever sees a borrow.
* `StaysWithinAuthority`, `NothingTakenUnasked`: what a step of a run may change,
  whatever happened since the plan.
* `CreationCovered`: a table a declared creator adds where it is declared to
  create needs no new plan.
* `Converges`: operators that re-run until nothing is left get there.
* `PlannerCanRely`, `PlannerDerivesTheSame`, `ServerKnowsPrivileges`,
  `PinnedServerAccepted`, `RenderedLoadsBack`: the validator hands the planner
  what it relies on, with the version check split over two places.
* `EchoRestored`, `AskedAtMostOnce`, `AskedOnceIsEnough`: the prompt.
* `TokensSafe`: tokens and TLS over hosts and fallbacks. `ExitCodes`.

### Where code and documentation part

Five runs end in a counterexample.

| run | property | what happens |
|---|---|---|
| `owner` | `Idempotent` | a schema-wide grant to the owner of a table in it is planned again after each apply: desired state counts the owner's tables, actual state does not |
| `undeclared_creator` | `CleanMeansReturned` | a default privilege of an undeclared creator is revoked through a borrow of that creator; left behind on DSQL it is never returned |
| `reclaim` | `ReclaimIsUsed` | an inheriting membership granted by hand is released without `--allow-destroy` though no ALTER DEFAULT PRIVILEGES uses it |
| `reversed_membership` | `Converges` | a membership turned around in the declaration is granted before the old one is revoked: a cycle, refused each time |
| `prompt_echo` | `EchoRestored` | a signal between `signal.Notify` and `term.ReadPassword`: the goroutine restores a terminal that still echoes, the main thread turns echo off, the goroutine exits |

Four more have no run; three were met while reading, one in proving. A declared executing user
loses a membership it is declared to have to the undo of a borrow in the same
plan. A default privilege written out for an unmanaged database is granted again
by each apply, which declaration.md:72-75 documents and how-it-works.md:107-108
does not. `CheckServerMajor` compares with `MinMajor` only, though its
comment says the major must be supported. The proof of `PlannerCanRely` fails
for one name: the validator looks whether a member is `rds_iam` before it looks
whether a role is a member of itself (validate.go:138-145), so that a role called
`rds_iam`, under a policy that does not protect the name, may be its own member.

The passing runs use declarations and catalogs in which none of these occurs:
no grantee owns a table it has a schema-wide grant on, no undeclared role has
granted a managed one a default privilege, the executing user is not declared,
no membership is turned around.

## Fairness

`Apply` assumes weak fairness of its own steps: it is one synchronous loop, and
every call it makes returns (a context or the server ends it). `Reconcile`
assumes it of each operator: a run goes on by itself, and an operator re-runs
after a run ended, which is what the documentation tells them to do; the faults
and the changes of others are not fair and are bounded. `Converges` says nothing
of an operator who never re-runs. `Declaration` and `Command` state no liveness:
a file is edited when somebody edits it, and a process waits for its operator.

## Proofs

`ApplyProof` proves, for plans of any size, any databases, any number of
retries and conflicts and any subset of the faults, the type invariant, all
safety invariants of `Apply` and that `Apply` implements `ApplySpec`. The
assumptions are those of `PlanOrder` and `Apply`: the plan is not empty (the
command returns before otherwise), databases and retries are naturals, the mode
is Boolean.

None of the properties is inductive. `IInv` adds to the types where the executor
stands: while it runs, `applied` and `pending` are exactly what its position
says (`Position`); what it leaves behind is a prefix of whole units even after
it ended, when the position is lost (`Leaves`); a statement ahead has not been
sent, the current one `attempt` times or, in the backoff, once more
(`Attempts`); the log is at the current statement or before it (`Logged`).
`BeforeTotal` and `BeforeTransitive` make the execution order a
strict total order; `FirstOfLater` and `PositionStep` say that moving on to the
first later statement keeps `Position`. Init and each action are a step of the
proof. The refinement follows from the invariant: a statement, or a commit,
takes effect exactly when its unit is the next one.

`AlwaysMirrored` is `ScriptMirrorsApply`, for plans of any size. `LeftBy` runs a set of
lines by taking the last one off; that there is such a session for every set of
lines goes by their number (`SessionsExist`), as a script is finite and `Above` a
strict total order on it. A session that may have ended has run a `Cut` of the
script, lines with all above them, and it is known what such a session holds
(`LeftByKept`): for good, on Aurora, the statements of the databases whose COMMIT
is in the cut, on DSQL the statements in it (`Kept`); in the open transaction the
statements after a BEGIN whose COMMIT is not in it (`Underway`); each in its own
database. `KeptPrefix` makes that a prefix of whole units, and `StopsAt` finds for
every such prefix, which by the invariant is all that `Apply` leaves, a line to
stop at.

`ReconcileProof` is about whole runs, for any declaration Validate accepts, both
engines, any catalogs, any number of operators and of disturbances, and with or
without owner checks. `NothingIsTakenUnasked` says what the `--allow-destroy` gate
promises; `AlwaysRightful` is `StaysWithinAuthority` without the two things known
to break it, a borrow from an undeclared creator and default privileges written
out for an unmanaged database. The argument has three layers. `PlanLawful`: every
statement of a plan is of a kind the planner emits, about a role or database it
may speak of, and marked destructive when it takes something away, part by part
of `Diff`. `EffectLawful`: such a statement changes only what it may, and takes
only if it is destructive. The invariant carries this over the run: whatever is
left of a plan that nobody allowed to destroy is not destructive, and neither is
what an open transaction holds, although the catalog moves underneath. For
Aurora's transactions `ViewsLawful` goes by induction over their statements;
since the library's induction rule takes a predicate no prover can instantiate,
`NatInductionOnSets` derives one about sets of numbers from the well-foundedness
of the naturals.

`CatalogProof` proves `TypeOK` of `Reconcile` with what a catalog of a server has
beyond its fields: grants and memberships are of roles that exist, and
memberships have no cycle. That no accepted GRANT closes a cycle, whatever path
there is, is shown with sets closed under membership instead of paths: a role
reaches what is in every closed set it is in. `Reaches` is defined that way, so
that no recursion is in the way.

`BorrowProof` is about the memberships a run borrows, on top of that invariant.

* `AlwaysWithinAuthority` is `StaysWithinAuthority` in full, under `NoStrays`: no
  database outside the declaration and no default privilege of an undeclared
  creator for a declared role. Without it the property is false, which the run
  `undeclared_creator` and the default privilege for an unmanaged database show. Plans are lists of
  statements that all are the plan's own (`PlansOurs`), computed from a snapshot
  that `NoStrays` holds of too (`DefaultsForeseen`), however old it is.
* `AdminAlwaysKept` needs `Undisputed`: the executing user is not declared, and there
  is one operator or no role that is borrowed is dropped from outside. Run
  `dsql_race` meets the second, with another role dropped under two operators.
  Where a creator is dropped and created again between one run's plan and its
  execution, that run undoes a borrow by taking the membership the other was given
  with the new role, ADMIN included; on a server it depends on the grantors of the
  two memberships, which the model merges. `AdminSafe` says what a snapshot must show
  of the ADMIN options on creators, and that what is left of a plan takes none, now
  or when its turn comes, the roles the plan itself creates included.
* `BorrowNeverOutlivesRun`, on Aurora, for an executing user that is not
  declared: `BorrowsUndone` says that every borrow still to come, or made in the
  open transaction, is followed by its undo in the same database's part of the plan.
* `CleanAlwaysMeansReturned` needs `NoStrays` and `OnlyDeclared`, catalogs in which
  the executing user inherits from declared roles only; a membership in any other
  role is not the planner's to release.

`PlanProof` proves what a plan as a whole achieves: `SuccessLeavesNothing` is
`Idempotent`, for any declaration `Suited` to its server, both engines, any
catalogs and any number of databases, operators and disturbances; and
`OrderIsExecutable` is `PlanExecutable`, where it is `Orderly` besides.

The argument is by what is left to do. `Left(c, rest)` says of a catalog and a
set of statements that whatever the catalog lacks, or has too much, some
statement of `rest` will see to, and that none of `rest` works against the
declaration. It has a part for each kind of state: roles and their login flag,
memberships, IAM mappings, ACLs, default ACLs and borrows. `LeftPlan`: it holds of
any catalog and the plan `Diff` makes for it, which says that `Diff` is complete,
compaction and the grouping by key included (`PlanRoles` to `PlanBorrows`).
`LeftStep`: whatever statement is next keeps it, so that none undoes what another
is for; the borrows need the order here, an undo comes after its borrow.
`NothingLeft`: with nothing left, the next plan is empty.

`Executable(c, rest)` says what the server will ask of the statements of `rest`:
a role a statement needs is there or is created before it (`RolesCome`), a
membership that will be granted is a foreseen one (`MembersFit`), objects exist
(`ObjectsThere`), and the membership an ALTER DEFAULT PRIVILEGES statement takes
is inherited by then (`CreatorsLent`): it was to begin with and nothing before
gives it back, or a borrow comes first with no undo in between. `ExecutablePlan`
shows this of a new plan. That is where the positions of module `Planner` count:
creation has the lowest, the release of stale borrows the highest place in the last
database the creator has a key for (`ReleaseLast`), and between the borrow and the
undo for one key there is no room for another's (`NoneBetween`). `ExecutableStep`:
a statement leaves the others executable. `FirstPermitted`: the next one of an
executable plan, the server accepts.

Two things carry this over a run. `ReadSoFar`: what a run has read, database by
database on one connection after the other, is what it would have read of the
catalog at once, as long as nobody changes it (`ReadAll`). `Comes(b, tx, c)`: c is
what the transaction tx makes of b, which follows an open transaction statement
by statement without an induction over it. `InHand`, the invariant, then says of
each run that is not stale where it stands between its snapshot and `Left(cat, {})`;
`TidyInv` adds to `TypeOK` and `DefaultsForeseen` that the entries of a catalog have
the shape of module `Catalog`, and `MembersForeseen`: no membership comes up
that is not declared, granted by hand, there from the start or the executing
user's own in a role it creates or borrows.

`Suited` says what `Idempotent` needs of a declaration and its server:

* the executing user is not declared: a declared one is left the membership
  that `CREATE ROLE` gives it, which the next plan revokes;
* no default privilege is written out for an unmanaged database: those are
  desired but never counted as held, and planned again each time;
* no declared role owns what it is granted: desired state counts the owner,
  actual state does not, which run `owner` shows;
* a grant names a table as a table and a sequence as a sequence: the planner
  finds a relation under either, but files what is desired under the kind declared
  and what is held under the kind there is.

`Orderly` says what `PlanExecutable` needs besides:

* `OwnerChecks` is FALSE, as in the runs: with it, the release at cluster level
  may come before a GRANT that needs the membership given back;
* the foreseen memberships together have no cycle; with one, a plan that reverses
  a membership grants before it revokes, which run `reversed_membership` shows.

`OutcomeProof` is about what the catalog becomes.

`ShownIsCarriedOut` is `ShownIsDone` for any declaration that does not declare the
executing user, both engines, any catalogs and any number of databases, operators
and disturbances. `Outcome` carries a plan out from its end, so the plan must have
one: it is finite (`PlanFinite`), because the declaration and the catalogs are, and
no two of its statements have the same place (`DiffApart`), which is where the
positions of module `Planner` count again. The proof then goes in four steps.

* No statement of a plan works against another: what one gives none takes, and no
  role is created twice or set to two logins (`PlanConsistent`).
* So it is known what has become of the catalog after any part of the plan,
  whatever the order (`Told`, `ToldStep`): what was there, and what the statements
  give, without what they take. It is shown for all parts by the number of
  statements in them. The executing user's own memberships are not told, since
  borrows do come in an order; neither are they shown.
* What the statements give and take is, entry by entry, what the planner found
  missing or too much (`IsGiven`, `IsTaken` and their like for default privileges),
  with the compaction to ALL and the grouping by key undone.
* So is what the role diffs say, which `differ` fills on its own: `Shown` has a
  line for each key that has anything missing or too much, and its `Entries` are
  these entries.

That the plan an undisturbed run holds is the one for the catalog as it is, is
the invariant `Fresh`; `IamForeseen` bounds the IAM mappings as `MembersForeseen` the
memberships.

`CreationAlwaysCovered` is `CreationCovered`, for a `Suited` declaration that is
`CreatorsMatched`: a default privilege that is written out for relations a declared
creator adds, where it is declared to, has its schema-wide grant. Without one the
relation is born with a privilege that no grant stands for, and the next plan
revokes it, which is what the planner should do with it. Otherwise the new
relation is the only change, `Created` gives it what the converged catalog's
default ACL says, and that is `Derived` for its creator.

`DeclarationProof` is about every document of the types in `types.go` and every
policy, not the instances of `MCDeclaration`. `DeclInv` says which document the
program holds at each point: what was accepted is what `Load` made of it, what
was rendered is settled, what is planned has passed the version check. What the
properties need beyond it is about the pure functions. Loading what was loaded
changes nothing (`NormalizedStable`), which with the invariant is
`RenderedLoadsBack`. The list `expandCreators` appends is finite and has every
derived entry once, since a valid target has exactly one key and targets are
checked to be distinct (`DerivedUnique`, `ExpandedOnce`); with that a document that
was expanded is valid again, and the planner, which expands on its own, derives
the same entries (`DerivesTheSame`). `PlannersRule` and `RoleRules` then show
`ValidDecl` part by part. `ReliableUnlessRdsIam` is that for every document with
no role called `rds_iam`, for the reason given above; `AlwaysReliable` restates
it as the run's property where the name cannot occur.

`CommandProof` proves `EchoRestored` of the prompt alone, for any lines and for
signals anywhere but in the gap of run `prompt_echo`: the goroutine restores only
after a signal, and by then echo is off for the last time. It then puts the prompt
into a command, for any flags, servers, demands, number of databases and lifetimes: the
invariant says where the prompt can be for each point of the main thread, that it
is idle or over outside of `prompting`, and that the secret is the line typed, or
the one in place when none was; `AskedAtMostOnce`, `AskedOnceIsEnough` and
`ExitCodes` follow. `AlwaysTokensSafe` has an invariant of its own, `TokenInv`, and
holds wherever signals come: the attempts stay what `applyTLS` made of the
settings, so that each of them verifies and every host is among them, and pgx's
choice is one of them.

Assumptions on constants, each evaluated by TLC on every run of its module:

* `Planner`: `DeclAssumption`, the declaration is one the planner can rely on; this
  is what `ReliableUnlessRdsIam` proves of the validator.
* `Reconcile`: `CatalogsAssumption` (a catalog has the fields of module `Catalog` and
  is `WellFormed`: roles that exist, no cycle), `MeAssumption` (the executing user
  is there and nobody drops it), `MembersAssumption` (a membership is a pair),
  `ShapesAssumption` (objects, entries and mappings are the tuples module `Catalog`
  says they are), `NamesAssumption` and `NumbersAssumption` (names are numbers, and
  `PUBLIC` is none of the declared roles), and `FiniteAssumption` (the declaration,
  the catalogs and what others may add to them are finite).
* `Declaration`: `DocumentsAssumption` (the documents and blocks it starts from have
  the types of `types.go`), `MajorsAssumption`, and `LiteralsAssumption`, that the
  string literals of the module are strings, which the provers do not know.
* `Command`: `RunsAssumption` (cobra's refusal of `--password` with
  `--no-password`, `ParseMode`), `BoundsAssumption`; and in the theorems
  themselves where signals may come.

Every invariant and every action property of the passing runs is the subject of a
theorem. Only model-checked is `Converges`, liveness under fairness, which is out
of the prover's reach. `Idempotent`, `PlanExecutable`, `CleanMeansReturned`,
`AdminKept`, `StaysWithinAuthority`, `BorrowCannotOutliveRun`, `ShownIsDone`,
`CreationCovered`, `EchoRestored` and `PlannerCanRely` are proved under the hypotheses
named above and not without them; that these are not empty is what the runs
show, whose instances meet them.

## Not modelled

* jsonnet evaluation, terminal colours, the version command: no state of their
  own.
* The SQL text: quoting of identifiers and literals, notes, the listing
  `printPlan` shows under the diff.
* `internal/conninfo` beyond which source names the user and whether an sslmode is
  pinned: putting a connection string together is pgx's and libpq's syntax.
* AWS: regions, credentials and the signature of a token. A token is signed for
  the first host of the settings, so that a fallback host may refuse one the model
  lets it accept; `TokensSafe` says that no host is dropped from the list of
  attempts, not that each would let the token in.
* The queries of `internal/catalog`: what they select is `ReadCluster` and
  `ReadDatabases`, how is SQL; the queries of one connection are one step.
* Whether a GRANT needs the owner's privileges is a constant, and FALSE in the
  runs (module `Catalog` above).

What could come next: `OwnerChecks = TRUE` with declarations for which the release
at cluster level is not in the way; the executing user among the declared
roles, with the undo of its borrows as the planner should have it.
