------------------------------ MODULE Catalog ------------------------------
(***************************************************************************)
(* The server's catalog, the part of it pgroledef reads, and what the SQL  *)
(* pgroledef emits does to it.                                             *)
(*                                                                         *)
(* Names are numbers in sort order.  A role is a number; 0 is PUBLIC.  A   *)
(* database is a number; 0 is the cluster level.  An object is a tuple     *)
(* <<database, kind, schema, name>>, an ACL entry is                       *)
(* <<object, grantee, privilege>>, a default ACL entry is                  *)
(* <<database, schema, for role, kind, grantee, privilege>>, a membership  *)
(* is <<member, group>> and an IAM mapping <<role, arn>>.                  *)
(*                                                                         *)
(* A catalog is a record with these fields:                                *)
(*   roles, login, super   sets of roles                                   *)
(*   member                all memberships                                 *)
(*   inherit, admin        those that carry INHERIT, those that carry ADMIN *)
(*   iam                   IAM mappings                                    *)
(*   open                  databases that accept connections               *)
(*   owner                 the objects there are, each with its owner      *)
(*   acl, dacl             ACL entries and default ACL entries             *)
(*                                                                         *)
(* A membership is one pair whoever granted it, as in the reader, which    *)
(* merges pg_auth_members over grantors; a server has one for each grantor. *)
(* The executing user is taken to have the ADMIN it needs to grant a role. *)
(***************************************************************************)
EXTENDS Naturals, FiniteSets

CONSTANTS
  Me,           \* current_user, the role pgroledef connects as
  OwnerChecks   \* GRANT and REVOKE need the privileges of the object's owner

Public == 0

\* Kinds of objects, numbered as the planner ranks them; rank 2 is for
\* ALL TABLES and ALL SEQUENCES IN SCHEMA.
DatabaseKind == 0
SchemaKind == 1
TableKind == 3
SequenceKind == 4
RelationKinds == {TableKind, SequenceKind}

Objects(cat) == DOMAIN cat.owner
DatabaseObject(db) == <<db, DatabaseKind, 0, 0>>
SchemaObject(db, schema) == <<db, SchemaKind, schema, 0>>
Relations(cat, db, schema, kind) ==
  {o \in Objects(cat) : o[1] = db /\ o[2] = kind /\ o[3] = schema}

----------------------------------------------------------------------------
(* The snapshot, read one connection after the other.  The ADMIN option is *)
(* not read.                                                               *)

\* The State Build starts with.
NothingRead ==
  [roles |-> {}, login |-> {}, super |-> {}, member |-> {}, inherit |-> {}, admin |-> {},
   iam |-> {}, open |-> {}, owner |-> [o \in {} |-> 0], acl |-> {}, dacl |-> {}]

\* What the snapshot keeps of some objects: the owner, and the privileges of
\* everyone but PUBLIC.
OwnersOf(cat, seen) == [o \in seen |-> cat.owner[o]]
AclOf(cat, seen) == {e \in cat.acl : e[1] \in seen /\ e[2] # Public}

\* ReadCluster, and on DSQL ReadIAMPrincipals: a database shows its own ACL.
ReadCluster(cat, iamPrincipals) ==
  LET seen == {o \in Objects(cat) : o[2] = DatabaseKind} IN
  [cat EXCEPT
     !.owner = OwnersOf(cat, seen), !.acl = AclOf(cat, seen), !.dacl = {},
     !.admin = {}, !.iam = IF iamPrincipals THEN {e \in cat.iam : e[1] \in cat.roles} ELSE {}]

\* ReadDatabase, of each of dbs: schemas, relations and default ACLs.
ReadDatabases(cat, st, dbs) ==
  LET seen == {o \in Objects(cat) : o[1] \in dbs /\ o[2] # DatabaseKind} IN
  [st EXCEPT
     !.owner = [o \in Objects(st) \cup seen |->
                  IF o \in seen THEN cat.owner[o] ELSE st.owner[o]],
     !.acl = @ \cup AclOf(cat, seen),
     !.dacl = @ \cup {e \in cat.dacl : e[1] \in dbs /\ e[5] # Public}]

----------------------------------------------------------------------------
(* The server.                                                             *)

\* b is among the roles a reaches along the memberships in pairs.
Reaches(pairs, a, b) ==
  \A S \in SUBSET ({a} \cup {e[2] : e \in pairs}) :
    a \in S /\ (\A e \in pairs : e[1] \in S => e[2] \in S) => b \in S

\* What the server itself sees to.
WellFormed(cat) ==
  /\ cat.login \cup cat.super \subseteq cat.roles
  /\ cat.member \subseteq cat.roles \X cat.roles
  /\ cat.inherit \cup cat.admin \subseteq cat.member
  /\ \A m \in cat.member : ~Reaches(cat.member, m[2], m[1])
  /\ \A e \in cat.iam : e[1] \in cat.roles
  /\ \A o \in Objects(cat) : cat.owner[o] \in cat.roles
  /\ \A e \in cat.acl : e[1] \in Objects(cat) /\ e[2] \in cat.roles \cup {Public}
  /\ \A e \in cat.dacl : e[3] \in cat.roles /\ e[5] \in cat.roles \cup {Public}

\* The executing user has the privileges of r, directly or through groups.
HasPrivilegesOf(cat, r) == Me \in cat.super \/ Reaches(cat.inherit, Me, r)

MayGrantOn(cat, o) == OwnerChecks => HasPrivilegesOf(cat, cat.owner[o])

\* The statements, as the planner builds them: [op, args, privs] and more.
Permitted(cat, s) ==
  LET a == s.args IN
  CASE s.op = "create role" -> a[1] \notin cat.roles
    [] s.op \in {"alter role", "iam grant", "iam revoke"} -> a[1] \in cat.roles
    [] s.op = "grant role" ->
         /\ {a[1], a[2]} \subseteq cat.roles
         /\ ~Reaches(cat.member, a[1], a[2])
    [] s.op = "revoke role" -> {a[1], a[2]} \subseteq cat.roles
    [] s.op \in {"grant", "revoke"} ->
         /\ <<a[1], a[2], a[3], a[4]>> \in Objects(cat)
         /\ MayGrantOn(cat, <<a[1], a[2], a[3], a[4]>>)
         /\ a[5] \in cat.roles
    [] s.op = "grant all" ->
         /\ \A o \in Relations(cat, a[1], a[3], a[2]) : MayGrantOn(cat, o)
         /\ a[4] \in cat.roles
    [] s.op \in {"alter default grant", "alter default revoke"} ->
         /\ {a[3], a[5]} \subseteq cat.roles
         /\ HasPrivilegesOf(cat, a[3])
    [] s.op = "borrow" -> a[1] \in cat.roles /\ ~Reaches(cat.member, a[1], Me)
    [] s.op \in {"return", "drop"} -> a[1] \in cat.roles

Effect(cat, s) ==
  LET a == s.args
      on(o) == {<<o, a[5], p>> : p \in s.privs}
      onAll == UNION {{<<o, a[4], p>> : p \in s.privs} : o \in Relations(cat, a[1], a[3], a[2])}
      default == {<<a[1], a[2], a[3], a[4], a[5], p>> : p \in s.privs}
      mine == {<<Me, a[1]>>}
  IN
  CASE s.op = "create role" ->
         [cat EXCEPT !.roles = @ \cup {a[1]},
                     !.login = IF a[2] = 1 THEN @ \cup {a[1]} ELSE @,
                     !.member = IF Me \in cat.super THEN @ ELSE @ \cup mine,
                     !.admin = IF Me \in cat.super THEN @ ELSE @ \cup mine]
    [] s.op = "alter role" ->
         [cat EXCEPT !.login = IF a[2] = 1 THEN @ \cup {a[1]} ELSE @ \ {a[1]}]
    [] s.op = "grant role" ->
         [cat EXCEPT !.member = @ \cup {<<a[2], a[1]>>},
                     !.inherit = IF <<a[2], a[1]>> \in cat.member
                                 THEN @ ELSE @ \cup {<<a[2], a[1]>>}]
    [] s.op = "revoke role" ->
         [cat EXCEPT !.member = @ \ {<<a[2], a[1]>>},
                     !.inherit = @ \ {<<a[2], a[1]>>},
                     !.admin = @ \ {<<a[2], a[1]>>}]
    [] s.op = "iam grant" -> [cat EXCEPT !.iam = @ \cup {<<a[1], a[2]>>}]
    [] s.op = "iam revoke" -> [cat EXCEPT !.iam = @ \ {<<a[1], a[2]>>}]
    [] s.op = "grant" -> [cat EXCEPT !.acl = @ \cup on(<<a[1], a[2], a[3], a[4]>>)]
    [] s.op = "revoke" -> [cat EXCEPT !.acl = @ \ on(<<a[1], a[2], a[3], a[4]>>)]
    [] s.op = "grant all" -> [cat EXCEPT !.acl = @ \cup onAll]
    [] s.op = "alter default grant" -> [cat EXCEPT !.dacl = @ \cup default]
    [] s.op = "alter default revoke" -> [cat EXCEPT !.dacl = @ \ default]
    [] s.op = "borrow" ->
         [cat EXCEPT !.member = @ \cup mine, !.inherit = @ \cup mine]
    [] s.op = "return" -> [cat EXCEPT !.inherit = @ \ mine]
    [] s.op = "drop" ->
         [cat EXCEPT !.member = @ \ mine, !.inherit = @ \ mine, !.admin = @ \ mine]

\* CREATE TABLE or CREATE SEQUENCE by role r: the new relation is born with
\* what the default privileges for r say.
Created(cat, r, o) ==
  [cat EXCEPT
     !.owner = [x \in Objects(cat) \cup {o} |-> IF x = o THEN r ELSE cat.owner[x]],
     !.acl = @ \cup {<<o, e[5], e[6]>> :
                       e \in {d \in cat.dacl : <<d[1], d[2], d[3], d[4]>> = <<o[1], o[3], r, o[2]>>}}]

\* DROP TABLE or DROP SEQUENCE.
WithoutRelation(cat, o) ==
  [cat EXCEPT !.owner = [x \in Objects(cat) \ {o} |-> cat.owner[x]],
              !.acl = {e \in @ : e[1] # o}]

\* DROP OWNED BY a role that owns no object, then DROP ROLE.
WithoutRole(cat, r) ==
  LET others(pairs) == {m \in pairs : r \notin {m[1], m[2]}} IN
  [cat EXCEPT !.roles = @ \ {r}, !.login = @ \ {r}, !.super = @ \ {r},
              !.member = others(@), !.inherit = others(@), !.admin = others(@),
              !.iam = {e \in @ : e[1] # r},
              !.acl = {e \in @ : e[2] # r},
              !.dacl = {e \in @ : r \notin {e[3], e[5]}}]
=============================================================================
