---------------------------- MODULE MCReconcile ----------------------------
(* Instances of Reconcile for TLC.                                         *)
EXTENDS Reconcile, TLC

Either == Permutations(Operators)

App == 1
Migrator == 2
Ops == 3       \* never declared
Admin == 9     \* the executing user

\* Database 1 with one schema, a table and the table its creator may add.
Db == DatabaseObject(1)
Schema == SchemaObject(1, 1)
Table == <<1, TableKind, 1, 1>>
NewTable == <<1, TableKind, 1, 2>>

\* An application role reads every table of a schema the migrator fills.
DsqlDecl ==
  [roles |-> <<Migrator, App>>, login |-> {App}, memberOf |-> {}, iam |-> {<<App, 1>>},
   grants |-> {<<Schema, App, "USAGE">>},
   wide |-> {<<1, 1, TableKind, App, "SELECT">>},
   creates |-> {<<Migrator, 1, 1>>},
   defaults |-> {<<1, 1, Migrator, SequenceKind, App, "USAGE">>},
   unmanaged |-> {}]

\* None of the declared roles exists.
Bare ==
  [roles |-> {Ops, Admin}, login |-> {Ops, Admin}, super |-> {},
   member |-> {}, inherit |-> {}, admin |-> {}, iam |-> {<<Ops, 2>>}, open |-> {1},
   owner |-> (Db :> Admin @@ Schema :> Admin @@ Table :> Ops),
   acl |-> {<<Table, Ops, "SELECT">>, <<Table, Public, "SELECT">>, <<Schema, Ops, "USAGE">>},
   dacl |-> {<<1, 1, Ops, TableKind, Public, "SELECT">>, <<1, 1, Ops, TableKind, Ops, "INSERT">>}]

\* They exist, with drift in everything a run reconciles; the executing user
\* created them and has ADMIN on them.
Drifted ==
  [Bare EXCEPT
     !.roles = @ \cup {App, Migrator}, !.login = @ \cup {Migrator},
     !.member = {<<Admin, App>>, <<Admin, Migrator>>, <<App, Ops>>},
     !.inherit = {<<App, Ops>>},
     !.admin = {<<Admin, App>>, <<Admin, Migrator>>},
     !.iam = @ \cup {<<App, 2>>},
     !.owner = [@ EXCEPT ![Table] = Migrator],
     !.acl = @ \cup {<<Table, Migrator, "SELECT">>, <<Table, App, "INSERT">>, <<Schema, Migrator, "CREATE">>},
     !.dacl = @ \cup {<<1, 1, Migrator, TableKind, Ops, "SELECT">>}]

\* Someone else created them: the executing user is a member of neither.
Foreign == [Drifted EXCEPT !.member = {<<App, Ops>>}, !.admin = {}]

DsqlCatalogs == {Bare, Drifted, Foreign}
ForeignOnly == {Foreign}
RaceCatalogs == {Bare, Foreign}

HandChangedGrants == {<<Schema, Migrator, "CREATE">>, <<Table, App, "SELECT">>}
HandChangedDefaults == {<<1, 1, Migrator, TableKind, App, "SELECT">>}
HandChangedMembers == {<<App, Migrator>>, <<Admin, Migrator>>}
MigratorCreates == {<<Migrator, NewTable>>}
AppDropped == {App}
TableDropped == {Table}

----------------------------------------------------------------------------
\* Aurora: two managed databases and an unmanaged one.
Group == 4
In2(object) == [object EXCEPT ![1] = 2]
In3(object) == [object EXCEPT ![1] = 3]

AuroraDecl ==
  [roles |-> <<App, Group, Migrator>>, login |-> {App}, memberOf |-> {<<App, Group>>}, iam |-> {},
   grants |-> {<<Db, Group, "CONNECT">>, <<Schema, Group, "USAGE">>},
   wide |-> {<<1, 1, TableKind, Group, "SELECT">>, <<2, 1, TableKind, App, "SELECT">>},
   creates |-> {<<Migrator, 1, 1>>, <<Migrator, 2, 1>>},
   defaults |-> {},
   unmanaged |-> {3}]

AuroraBare ==
  [Bare EXCEPT
     !.open = {1, 2, 3},
     !.owner = @ @@ (In2(Db) :> Admin @@ In2(Schema) :> Admin @@ In2(Table) :> Ops @@
                     In3(Db) :> Admin @@ In3(Schema) :> Admin @@ In3(Table) :> Ops)]

AuroraDrifted ==
  [AuroraBare EXCEPT
     !.roles = @ \cup {App, Migrator}, !.login = @ \cup {Migrator},
     !.member = {<<Admin, App>>, <<Admin, Migrator>>, <<App, Migrator>>},
     !.inherit = {<<App, Migrator>>},
     !.admin = {<<Admin, App>>, <<Admin, Migrator>>},
     !.acl = @ \cup {<<Table, App, "SELECT">>, <<In2(Db), App, "CONNECT">>,
                     <<In3(Table), App, "SELECT">>},
     !.dacl = @ \cup {<<1, 1, Migrator, TableKind, App, "SELECT">>,
                      <<3, 1, Migrator, TableKind, App, "SELECT">>}]

\* The executing user is a superuser and needs to borrow nothing.
AuroraSuper == [AuroraDrifted EXCEPT !.super = {Admin}]

AuroraCatalogs == {AuroraBare, AuroraDrifted, AuroraSuper}

AuroraHandGrants == {<<In2(Table), App, "SELECT">>, <<In3(Schema), App, "USAGE">>}
AuroraHandDefaults == {<<2, 1, Migrator, TableKind, App, "SELECT">>}
AuroraCreates == {<<Migrator, NewTable>>}

----------------------------------------------------------------------------
\* Where the code and what is said of it part.

\* The migrator owns the table it has a schema-wide grant on.
OwnerDecl == [DsqlDecl EXCEPT !.wide = {<<1, 1, TableKind, Migrator, "SELECT">>},
                              !.creates = {}, !.defaults = {}]

\* An undeclared role has granted a declared one a default privilege.
StrayDefault ==
  {[Foreign EXCEPT !.member = {}, !.inherit = {},
                   !.dacl = {<<1, 1, Ops, TableKind, App, "SELECT">>}]}

\* Nothing is wrong but an inheriting membership somebody granted by hand.
HandGranted ==
  {[Drifted EXCEPT
      !.login = @ \ {Migrator}, !.member = {<<Admin, Migrator>>},
      !.inherit = {<<Admin, Migrator>>}, !.admin = {},
      !.iam = {<<App, 1>>},
      !.acl = {<<Table, App, "SELECT">>, <<Schema, App, "USAGE">>},
      !.dacl = {<<1, 1, Migrator, TableKind, App, "SELECT">>,
                <<1, 1, Migrator, SequenceKind, App, "USAGE">>}]}

\* The declaration turns a membership around.
ReversedDecl == [DsqlDecl EXCEPT !.memberOf = {<<Migrator, App>>}]
Unreversed == {[Drifted EXCEPT !.member = {<<App, Migrator>>}, !.inherit = {<<App, Migrator>>},
                               !.admin = {}]}
=============================================================================
