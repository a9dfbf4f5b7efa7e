------------------------------ MODULE Planner ------------------------------
(***************************************************************************)
(* The planner, internal/plan/plan.go: from the declaration and a snapshot *)
(* of the catalog to the statements that reconcile them.                   *)
(*                                                                         *)
(* A plan is a set of statements.  Each carries the database it runs in    *)
(* and its position there, a tuple of six numbers compared from the left:  *)
(* the order in which Diff appends statements, seen from one database.     *)
(* Statements of different databases are ordered by Apply alone.           *)
(*                                                                         *)
(* The declaration is the normalized one Validate returns, with derived    *)
(* default privileges still to be added:                                   *)
(*   roles      the declared roles, in the order of the file               *)
(*   login      those with login: true                                     *)
(*   memberOf   memberships          iam       IAM mappings                *)
(*   grants     ACL entries on databases, schemas, tables and sequences    *)
(*   wide       <<database, schema, kind, grantee, privilege>> for         *)
(*              all_tables_in_schema and all_sequences_in_schema           *)
(*   creates    <<role, database, schema>> for creates_objects_in          *)
(*   defaults   default ACL entries written out in default_privileges      *)
(*   unmanaged  databases that match policy.unmanaged_databases            *)
(***************************************************************************)
EXTENDS Catalog, Integers, Sequences, FiniteSets, FiniteSetsExt

CONSTANTS
  Decl,   \* the declaration
  Dsql    \* target.engine is dsql

ASSUME DsqlAssumption == Dsql \in BOOLEAN

\* The definitions marked "Mutant" are the next one with a bug in it; each must
\* break the property PROJECT.json names.

\* Mutant: Aurora's statements, too, run one at a time.
AtomicNowhere == FALSE

\* DialectFor
DatabaseGrants == ~Dsql
IAMPrincipals == Dsql
Atomic == ~Dsql

Managed == {Decl.roles[i] : i \in DOMAIN Decl.roles}
Index(r) == CHOOSE i \in DOMAIN Decl.roles : Decl.roles[i] = r

\* What the planner relies on and Validate provides.  A default privilege may
\* be written out for an unmanaged database.
ValidDecl ==
  /\ \A i, j \in DOMAIN Decl.roles : Decl.roles[i] = Decl.roles[j] => i = j
  /\ Decl.login \subseteq Managed
  /\ \A m \in Decl.memberOf : m[1] \in Managed /\ m[1] # m[2]
  /\ \A m \in Decl.iam : Dsql /\ m[1] \in Decl.login
  /\ \A g \in Decl.grants : g[2] \in Managed /\ g[1][1] \notin Decl.unmanaged
  /\ \A g \in Decl.grants : g[1][2] = DatabaseKind => DatabaseGrants
  /\ \A w \in Decl.wide : w[3] \in RelationKinds /\ w[4] \in Managed /\ w[1] \notin Decl.unmanaged
  /\ \A c \in Decl.creates : c[1] \in Managed
  /\ \A d \in Decl.defaults : d[3] \in Managed /\ d[5] \in Managed

ASSUME DeclAssumption == ValidDecl

Flag(b) == IF b THEN 1 ELSE 0

\* Plan.add and the literals that set Reclaim.
Statement(db, pos, op, args, privs, destructive, reclaim) ==
  [db |-> db, pos |-> pos, op |-> op, args |-> args, privs |-> privs,
   destructive |-> destructive, reclaim |-> reclaim]

\* Mutant: one reclaim excuses the whole plan.
NeedsAllowDestroyUnlessReclaim(plan) ==
  (\E s \in plan : s.destructive) /\ ~\E s \in plan : s.reclaim

NeedsAllowDestroy(plan) == \E s \in plan : s.destructive /\ ~s.reclaim

----------------------------------------------------------------------------
(* The desired state.                                                      *)

\* Mutant: only the grants on all sequences are expanded.
DerivedForSequences ==
  UNION {{<<w[1], w[2], c[1], w[3], w[4], w[5]>> :
            c \in {d \in Decl.creates : <<d[2], d[3], SequenceKind>> = <<w[1], w[2], w[3]>>}} :
         w \in Decl.wide}

\* expandCreators: a schema-wide grant on a schema some role creates objects
\* in becomes a default privilege for that creator.
Derived ==
  UNION {{<<w[1], w[2], c[1], w[3], w[4], w[5]>> :
            c \in {d \in Decl.creates : <<d[2], d[3]>> = <<w[1], w[2]>>}} :
         w \in Decl.wide}

\* Mutant: normalized() drops what was expanded.
DesiredDefaultsAsWritten == Decl.defaults

DesiredDefaults == Decl.defaults \cup Derived

\* A schema-wide grant stands for one entry per relation there is.
DesiredGrants(st) ==
  Decl.grants \cup
  UNION {{<<o, w[4], w[5]>> : o \in Relations(st, w[1], w[2], w[3])} : w \in Decl.wide}

SchemasNamed ==
  {<<w[1], w[2]>> : w \in Decl.wide} \cup
  {<<d[1], d[2]>> : d \in DesiredDefaults} \cup
  {<<g[1][1], g[1][3]>> : g \in {h \in Decl.grants : h[1][2] # DatabaseKind}}

\* referencedDatabases
DatabasesNamed ==
  {s[1] : s \in SchemasNamed} \cup {g[1][1] : g \in Decl.grants}

\* The databases Build reads: those the declaration names, in order, then in
\* no order at all the others that are managed and accept connections.
DatabasesToRead(st) == DatabasesNamed \cup (st.open \ Decl.unmanaged)
ReadNext(left) ==
  IF left \cap DatabasesNamed # {} THEN {Min(left \cap DatabasesNamed)} ELSE left

\* The error returns of Build and Diff.
MissingDatabase(st) ==
  \E db \in DatabasesNamed : DatabaseObject(db) \notin Objects(st) \/ db \notin st.open

\* A group may be declared or, like rds_iam, be provided by the server.
MissingGroup(st) == \E m \in Decl.memberOf : m[2] \notin Managed \cup st.roles

MissingSchema(st) == \E s \in SchemasNamed : SchemaObject(s[1], s[2]) \notin Objects(st)

MissingRelation(st) ==
  \E g \in Decl.grants :
    /\ g[1][2] \in RelationKinds
    /\ \A k \in RelationKinds : <<g[1][1], k, g[1][3], g[1][4]>> \notin Objects(st)

PlanFails(st) ==
  MissingDatabase(st) \/ MissingGroup(st) \/ MissingSchema(st) \/ MissingRelation(st)

----------------------------------------------------------------------------
(* roles(): pass 1, then memberships, then iamPrincipals().                *)

CreateRoles(st) ==
  {Statement(0, <<1, Index(r), 0, 0, 0, 0>>, "create role",
             <<r, Flag(r \in Decl.login)>>, {}, FALSE, FALSE) :
     r \in Managed \ st.roles}

\* Mutant: the flag written is the one the role has.
AlterRolesBackwards(st) ==
  {Statement(0, <<1, Index(r), 0, 0, 0, 0>>, "alter role",
             <<r, Flag(r \notin Decl.login)>>, {}, r \notin Decl.login, FALSE) :
     r \in {q \in Managed \cap st.roles : (q \in Decl.login) # (q \in st.login)}}

AlterRoles(st) ==
  {Statement(0, <<1, Index(r), 0, 0, 0, 0>>, "alter role",
             <<r, Flag(r \in Decl.login)>>, {}, r \notin Decl.login, FALSE) :
     r \in {q \in Managed \cap st.roles : (q \in Decl.login) # (q \in st.login)}}

\* Mutant: a role's memberships follow the role, in a single pass.
MembershipsInPassOne(st) ==
  {Statement(0, <<1, Index(m[1]), 1, m[2], 0, 0>>, "grant role",
             <<m[2], m[1]>>, {}, FALSE, FALSE) :
     m \in Decl.memberOf \ st.member} \cup
  {Statement(0, <<1, Index(m[1]), 2, m[2], 0, 0>>, "revoke role",
             <<m[2], m[1]>>, {}, TRUE, FALSE) :
     m \in {n \in st.member \ Decl.memberOf : n[1] \in Managed}}

Memberships(st) ==
  {Statement(0, <<2, Index(m[1]), 0, m[2], 0, 0>>, "grant role",
             <<m[2], m[1]>>, {}, FALSE, FALSE) :
     m \in Decl.memberOf \ st.member} \cup
  {Statement(0, <<2, Index(m[1]), 1, m[2], 0, 0>>, "revoke role",
             <<m[2], m[1]>>, {}, TRUE, FALSE) :
     m \in {n \in st.member \ Decl.memberOf : n[1] \in Managed}}

IamStatements(st) ==
  IF ~IAMPrincipals THEN {} ELSE
  {Statement(0, <<3, Index(m[1]), 0, m[2], 0, 0>>, "iam grant", m, {}, FALSE, FALSE) :
     m \in Decl.iam \ st.iam} \cup
  {Statement(0, <<3, Index(m[1]), 1, m[2], 0, 0>>, "iam revoke", m, {}, TRUE, FALSE) :
     m \in {n \in st.iam \ Decl.iam : n[1] \in Managed}}

----------------------------------------------------------------------------
(* grants()                                                                *)

\* Mutant: the privileges of undeclared roles are reconciled too.
ActualGrantsOfAnyone(st) ==
  {e \in st.acl :
     /\ e[1][1] \notin Decl.unmanaged
     /\ e[2] # st.owner[e[1]]
     /\ e[1][2] = DatabaseKind => DatabaseGrants}

\* What managed roles hold on managed databases, except as owners.
ActualGrants(st) ==
  {e \in st.acl :
     /\ e[2] \in Managed
     /\ e[1][1] \notin Decl.unmanaged
     /\ e[2] # st.owner[e[1]]
     /\ e[1][2] = DatabaseKind => DatabaseGrants}

Key(e) == <<e[1], e[2]>>
Privileges(entries, k) == {e[3] : e \in {f \in entries : Key(f) = k}}

\* Compaction: the privileges of a schema-wide grant that are missing on
\* every relation, none of which the grantee owns.
WideKey(w) == <<w[1], w[2], w[3], w[4]>>
MissingEverywhere(st, wk) ==
  LET rels == Relations(st, wk[1], wk[2], wk[3]) IN
  {w[5] : w \in {v \in Decl.wide :
     /\ WideKey(v) = wk
     /\ rels # {}
     /\ \A o \in rels : st.owner[o] # wk[4] /\ <<o, wk[4], v[5]>> \notin st.acl}}

WideGrants(st) ==
  {Statement(wk[1], <<4, 2, wk[2], SequenceKind - wk[3], wk[4], 0>>, "grant all",
             <<wk[1], wk[3], wk[2], wk[4]>>, MissingEverywhere(st, wk), FALSE, FALSE) :
     wk \in {k \in {WideKey(w) : w \in Decl.wide} : MissingEverywhere(st, k) # {}}}

\* One GRANT per object and grantee for what the compaction left, then one
\* REVOKE for what is not declared.
Missing(st, k) ==
  (Privileges(DesiredGrants(st), k) \ Privileges(ActualGrants(st), k))
    \ MissingEverywhere(st, <<k[1][1], k[1][3], k[1][2], k[2]>>)
Extra(st, k) == Privileges(ActualGrants(st), k) \ Privileges(DesiredGrants(st), k)

ObjectArgs(k) == <<k[1][1], k[1][2], k[1][3], k[1][4], k[2]>>

ObjectGrants(st) ==
  LET keys == {Key(e) : e \in DesiredGrants(st) \cup ActualGrants(st)} IN
  {Statement(k[1][1], <<4, k[1][2], k[1][3], k[1][4], k[2], 0>>, "grant",
             ObjectArgs(k), Missing(st, k), FALSE, FALSE) :
     k \in {j \in keys : Missing(st, j) # {}}} \cup
  {Statement(k[1][1], <<4, k[1][2], k[1][3], k[1][4], k[2], 1>>, "revoke",
             ObjectArgs(k), Extra(st, k), TRUE, FALSE) :
     k \in {j \in keys : Extra(st, j) # {}}}

----------------------------------------------------------------------------
(* defaultPrivileges()                                                     *)

\* Mutant: default privileges among undeclared roles are reconciled too.
ActualDefaultsOfAnyone(st) == {e \in st.dacl : e[1] \notin Decl.unmanaged}

\* Reconciled when either side, creator or grantee, is managed.
ActualDefaults(st) ==
  {e \in st.dacl : e[1] \notin Decl.unmanaged /\ (e[3] \in Managed \/ e[5] \in Managed)}

DefaultKey(e) == <<e[1], e[2], e[3], e[4], e[5]>>
DefaultKeys(st) == {DefaultKey(e) : e \in DesiredDefaults \cup ActualDefaults(st)}
DefaultPrivs(entries, k) == {e[6] : e \in {f \in entries : DefaultKey(f) = k}}
MissingDefaults(st, k) == DefaultPrivs(DesiredDefaults, k) \ DefaultPrivs(ActualDefaults(st), k)
ExtraDefaults(st, k) == DefaultPrivs(ActualDefaults(st), k) \ DefaultPrivs(DesiredDefaults, k)

\* ReadCluster finds the executing user in pg_roles unless it was dropped.
Exempt(st) == Me \notin st.roles \/ Me \in st.super

\* Mutant: any membership will do, with or without INHERIT.
NeedsAnyMembership(st, c) == ~Exempt(st) /\ c # Me /\ <<Me, c>> \notin st.member

NeedsCreatorMembership(st, c) == ~Exempt(st) /\ c # Me /\ <<Me, c>> \notin st.inherit

\* Mutant: the membership CREATE ROLE gives is not thought of.
UndoBorrowOfSnapshot(st, c) ==
  IF Me \in st.roles /\ <<Me, c>> \in st.member THEN "return" ELSE "drop"

\* Mutant: only the membership CREATE ROLE gives is thought of.
UndoBorrowOfNew(st, c) == IF c \in Managed \ st.roles THEN "return" ELSE "drop"

\* The whole membership is given back only when there was none to begin with;
\* a role this plan creates counts as having one.
UndoBorrow(st, c) ==
  IF c \in Managed \ st.roles \/ (Me \in st.roles /\ <<Me, c>> \in st.member)
  THEN "return" ELSE "drop"

\* Mutant: the borrow is not undone.
DefaultStatementsNoUndo(st, k) ==
  LET pos(step) == <<5, k[2], k[3], SequenceKind - k[4], k[5], step>>
      missing == MissingDefaults(st, k)
      extra == ExtraDefaults(st, k)
      grant == Statement(k[1], pos(1), "alter default grant", k, missing, FALSE, FALSE)
      revoke == Statement(k[1], pos(2), "alter default revoke", k, extra, TRUE, FALSE)
      borrow == Statement(k[1], pos(0), "borrow", <<k[3]>>, {}, FALSE, FALSE)
      changes == {s \in {grant, revoke} : s.privs # {}}
  IN changes \cup
     (IF changes # {} /\ NeedsCreatorMembership(st, k[3]) THEN {borrow} ELSE {})

\* The statements of one key: borrow, grant, revoke, undo.
DefaultStatements(st, k) ==
  LET pos(step) == <<5, k[2], k[3], SequenceKind - k[4], k[5], step>>
      missing == MissingDefaults(st, k)
      extra == ExtraDefaults(st, k)
      grant == Statement(k[1], pos(1), "alter default grant", k, missing, FALSE, FALSE)
      revoke == Statement(k[1], pos(2), "alter default revoke", k, extra, TRUE, FALSE)
      borrow == Statement(k[1], pos(0), "borrow", <<k[3]>>, {}, FALSE, FALSE)
      undo == Statement(k[1], pos(3), UndoBorrow(st, k[3]), <<k[3]>>, {}, FALSE, FALSE)
      changes == {s \in {grant, revoke} : s.privs # {}}
  IN changes \cup
     (IF changes # {} /\ NeedsCreatorMembership(st, k[3]) THEN {borrow, undo} ELSE {})

DefaultPrivileges(st) == UNION {DefaultStatements(st, k) : k \in DefaultKeys(st)}

----------------------------------------------------------------------------
(* releaseStaleBorrows()                                                   *)

\* Mutant: a membership the plan has a default privilege for is left alone.
StaleBorrowsUnused(st) ==
  IF Exempt(st) \/ Me \in Managed THEN {}
  ELSE {c \in Managed \ {Me} : <<Me, c>> \in st.inherit /\ \A k \in DefaultKeys(st) : k[3] # c}

\* Borrowed memberships nothing declares.  A declared executing user has its
\* memberships reconciled by Memberships.
StaleBorrows(st) ==
  IF Exempt(st) \/ Me \in Managed THEN {}
  ELSE {c \in Managed \ {Me} : <<Me, c>> \in st.inherit}

\* The databases that have a key for the creator, changed or not.
KeyDatabases(st, c) == {k[1] : k \in {j \in DefaultKeys(st) : j[3] = c}}

ReleaseStaleBorrows(st) ==
  {Statement(Max({0} \cup KeyDatabases(st, c)), <<6, c, 0, 0, 0, 0>>, "return", <<c>>, {},
             TRUE, KeyDatabases(st, c) # {}) :
     c \in StaleBorrows(st)}

----------------------------------------------------------------------------
(* The plan and its order.                                                 *)

Diff(st) ==
  CreateRoles(st) \cup AlterRoles(st) \cup Memberships(st) \cup IamStatements(st)
    \cup WideGrants(st) \cup ObjectGrants(st)
    \cup DefaultPrivileges(st) \cup ReleaseStaleBorrows(st)

\* Databases in order, the cluster level first (Plan.Databases); within one,
\* the order of the plan.
Precedes(s, t) ==
  \/ s.db < t.db
  \/ /\ s.db = t.db
     /\ \E i \in DOMAIN s.pos :
          s.pos[i] < t.pos[i] /\ \A j \in 1 .. i - 1 : s.pos[j] = t.pos[j]

IsFirst(plan, s) == s \in plan /\ \A t \in plan \ {s} : Precedes(s, t)
=============================================================================
