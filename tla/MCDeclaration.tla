--------------------------- MODULE MCDeclaration ---------------------------
(* Documents for TLC, each an edit or two away from one Validate accepts.  *)
EXTENDS Declaration

Names3 == {"app", "migrator", "reader"}
Arn == "arn:aws:iam::123456789012:role/app"

Public == <<"app", "public">>
Main == <<"postgres", "main">>

NoRole(name) ==
  [name |-> name, login |-> FALSE, member_of |-> {}, iam_principals |-> {},
   creates_objects_in |-> <<>>, grants |-> <<>>, default_privileges |-> <<>>]
NoTarget == [k \in TargetKinds |-> <<>>]
Grant(key, at, privs) == [on |-> [NoTarget EXCEPT ![key] = at], privileges |-> privs]
Default(role, schema, on, privs) ==
  [for_role |-> role, in_schema |-> schema, on |-> on, privileges |-> privs]

Migrator(schema) == [NoRole("migrator") EXCEPT !.creates_objects_in = <<schema>>]
Reader(schema) ==
  [NoRole("reader") EXCEPT
     !.grants = <<Grant("schema", schema, <<"USAGE">>),
                  Grant("all_tables_in_schema", schema, <<"SELECT", "DELETE">>)>>]

NoPolicy == [protected |-> <<>>, unmanaged |-> <<>>]
TargetOf(engine, pg) == [engine |-> engine, identifier |-> "staging", postgres_version |-> pg]
Document(engine, schema) ==
  [version |-> 1, target |-> TargetOf(engine, 0), policy |-> NoPolicy,
   roles |-> <<Reader(schema), Migrator(schema)>>]

MCDocuments == {Document(EngineAuroraPostgres, Public), Document(EngineDSQL, Main)}

MCTargets ==
  {TargetOf(EngineAuroraPostgres, pg) : pg \in {0, 16, 17, 19}} \cup
  {TargetOf(EngineDSQL, pg) : pg \in {0, 17}} \cup {TargetOf("mysql", 0)}

MCPolicies ==
  {NoPolicy, [protected |-> <<{}>>, unmanaged |-> <<{}>>],
   [protected |-> <<{"app"}>>, unmanaged |-> <<>>], [protected |-> <<>>, unmanaged |-> <<{"app"}>>]}

Explicit(privs) == [Reader(Public) EXCEPT !.default_privileges = <<Default("migrator", Public, "tables", privs)>>]

MCRoleBlocks ==
  {Migrator(Public), Migrator(Main), Reader(Main),
   [Migrator(Public) EXCEPT !.creates_objects_in = <<Public, Public>>],
   \* Privileges written out as well: the same, others, twice.
   Explicit(<<"DELETE", "SELECT">>), Explicit(<<"SELECT", "INSERT">>), Explicit(<<"SELECT">>),
   [Explicit(<<"SELECT">>) EXCEPT !.default_privileges = @ \o @],
   \* A privilege of PostgreSQL 17, granted or by default.
   [NoRole("app") EXCEPT !.grants = <<Grant("all_tables_in_schema", Public, <<"MAINTAIN">>)>>],
   [NoRole("app") EXCEPT !.default_privileges = <<Default("migrator", Public, "tables", <<"MAINTAIN">>)>>],
   \* Memberships and principals.
   [NoRole("app") EXCEPT !.login = TRUE, !.member_of = {"reader", RdsIam}],
   [NoRole("app") EXCEPT !.member_of = {RdsIam}],
   [NoRole("app") EXCEPT !.login = TRUE, !.iam_principals = {Arn}],
   [NoRole("app") EXCEPT !.member_of = {"app"}],
   \* Targets: another database, a table, sequences, two at once, one twice.
   [NoRole("app") EXCEPT !.grants = <<Grant("database", <<"app">>, <<"CONNECT">>)>>],
   [NoRole("app") EXCEPT !.grants = <<Grant("table", <<"app", "public", "t">>, <<"SELECT">>),
                                      Grant("all_sequences_in_schema", Public, <<"USAGE">>)>>],
   [NoRole("app") EXCEPT !.grants = <<Grant("sequence", Public, <<"USAGE">>)>>],
   [NoRole("app") EXCEPT !.grants = <<[on |-> [NoTarget EXCEPT !["schema"] = Public, !["database"] = <<"app">>],
                                       privileges |-> <<"CREATE">>]>>],
   [Reader(Public) EXCEPT !.grants = @ \o <<Grant("all_tables_in_schema", Public, <<"INSERT">>)>>]}
=============================================================================
