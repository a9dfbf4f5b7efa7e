----------------------------- MODULE Declaration -----------------------------
(***************************************************************************)
(* The declaration from the file to the planner: internal/config.          *)
(*                                                                         *)
(* A document is decoded and its policy completed (Decode), validated and  *)
(* expanded (Validate), printed (`pgroledef render`), checked against a    *)
(* server's version (CheckServerMajor), edited, and loaded again; what     *)
(* `render` prints is a document too.                                      *)
(*                                                                         *)
(* A document has the fields of Config.  Names are strings; "db.schema" is *)
(* the tuple of its parts; the target of a grant is a function, <<>> for   *)
(* a key that is not set; a list of globs is <<>> when omitted or null, and otherwise    *)
(* holds the set of names the globs match.                                 *)
(***************************************************************************)
EXTENDS Naturals, Sequences, FiniteSets

Seqs == INSTANCE SequencesExt

CONSTANTS
  Documents,   \* what is loaded first
  Targets,     \* what an edit may put in place of the target,
  Policies,    \* of the policy,
  RoleBlocks,  \* and of a role
  Majors,      \* the major versions of the servers around
  RoleNames,   \* the names roleNameRe matches
  Arns,        \* the principals iamArnRe matches
  MaxRoles,    \* an edit leaves at most this many roles
  MaxEdits     \* bound on the edits

----------------------------------------------------------------------------
(* Documents.                                                              *)

TargetKinds ==
  {"database", "schema", "all_tables_in_schema", "all_sequences_in_schema", "table", "sequence"}
GrantTarget == [TargetKinds -> Seq(STRING)]
RoleGrant == [on : GrantTarget, privileges : Seq(STRING)]
RoleDefaultPrivilege ==
  [for_role : STRING, in_schema : Seq(STRING), on : STRING, privileges : Seq(STRING)]
Role ==
  [name : STRING, login : BOOLEAN, member_of : SUBSET STRING, iam_principals : SUBSET STRING,
   creates_objects_in : Seq(Seq(STRING)), grants : Seq(RoleGrant),
   default_privileges : Seq(RoleDefaultPrivilege)]
Target == [engine : STRING, identifier : STRING, postgres_version : Nat]
Policy == [protected : Seq(SUBSET STRING), unmanaged : Seq(SUBSET STRING)]
Config == [version : Nat, target : Target, policy : Policy, roles : Seq(Role)]

\* What json.Decoder lets through: nothing unknown, nothing of another type.
ASSUME DocumentsAssumption ==
  Documents \subseteq Config /\ Targets \subseteq Target /\ Policies \subseteq Policy
  /\ RoleBlocks \subseteq Role
\* String literals are strings, which TLC knows and the provers do not.
ASSUME LiteralsAssumption ==
  {"tables", "sequences", "admin", "dbowner", "postgres", "rdsadmin", "rds_iam", "template1"}
    \subseteq STRING
ASSUME MajorsAssumption == Majors \subseteq Nat

----------------------------------------------------------------------------
VARIABLES
  doc,      \* the document on disk
  stage,    \* "edited", "accepted", "rejected", "rendered", "planning", "refused"
  cfg,      \* the configuration last accepted, <<>> when there is none
  major,    \* the server the configuration was checked against, 0 for none
  edits

vars == <<doc, stage, cfg, major, edits>>

RdsIam == "rds_iam"
EngineAuroraPostgres == "aurora-postgresql"
EngineDSQL == "dsql"
DSQLDatabase == "postgres"
SupportedMajors == 16 .. 18
MinMajor == 16

TablePrivileges ==
  {"SELECT", "INSERT", "UPDATE", "DELETE", "TRUNCATE", "REFERENCES", "TRIGGER", "MAINTAIN"}
SequencePrivileges == {"USAGE", "SELECT", "UPDATE"}
privilegesByKind ==
  [database |-> {"CONNECT", "CREATE", "TEMPORARY"}, schema |-> {"USAGE", "CREATE"},
   all_tables_in_schema |-> TablePrivileges, table |-> TablePrivileges, tables |-> TablePrivileges,
   all_sequences_in_schema |-> SequencePrivileges, sequence |-> SequencePrivileges,
   sequences |-> SequencePrivileges]
dsqlPrivileges == {"SELECT", "INSERT", "UPDATE", "DELETE", "USAGE", "CREATE", "TRIGGER"}
PrivilegeMinMajor(p) == IF p = "MAINTAIN" THEN 17 ELSE MinMajor

\* The default globs, by the names around that they match.
DefaultPolicyFor(engine) ==
  IF engine = EngineDSQL
  THEN [protected |-> <<{"admin", "dbowner"}>>, unmanaged |-> <<>>]
  ELSE [protected |-> <<{"postgres", "rdsadmin", RdsIam, "admin"}>>,
        unmanaged |-> <<{"postgres", "rdsadmin", "template1"}>>]

Matched(globs) == UNION Seqs!ToSet(globs)
Distinct(s) == Seqs!IsInjective(s)
ParseSchema(s) == Len(s) = 2 /\ "" \notin Seqs!ToSet(s)
ParseRelation(s) == Len(s) = 3 /\ "" \notin Seqs!ToSet(s)

----------------------------------------------------------------------------
(* Decode                                                                  *)

applyDefaults(d) ==
  LET default == DefaultPolicyFor(d.target.engine)
      or(given, other) == IF given = <<>> THEN other ELSE given
  IN [d EXCEPT !.policy = [protected |-> or(@.protected, default.protected),
                           unmanaged |-> or(@.unmanaged, default.unmanaged)]]

----------------------------------------------------------------------------
(* Validate.  c is a decoded document.                                     *)

Names(c) == {c.roles[i].name : i \in DOMAIN c.roles}

HeaderOk(c) ==
  LET t == c.target IN
  /\ c.version = 1
  /\ t.engine \in {EngineAuroraPostgres, EngineDSQL}
  /\ t.identifier # ""
  /\ t.postgres_version # 0 => t.engine # EngineDSQL /\ t.postgres_version \in SupportedMajors

\* Mutant: a role may be a member of itself.
MembershipOkItself(c, r, m) ==
  IF m = RdsIam THEN c.target.engine # EngineDSQL /\ r.login ELSE m \in Names(c)

MembershipOk(c, r, m) ==
  IF m = RdsIam THEN c.target.engine # EngineDSQL /\ r.login
  ELSE m \in Names(c) /\ m # r.name

rolesOk(c) ==
  /\ Distinct([i \in DOMAIN c.roles |-> c.roles[i].name])
  /\ Names(c) \subseteq RoleNames \ Matched(c.policy.protected)
  /\ \A i \in DOMAIN c.roles : LET r == c.roles[i] IN
       /\ \A m \in r.member_of : MembershipOk(c, r, m)
       /\ r.iam_principals \subseteq Arns
       /\ r.iam_principals # {} => c.target.engine # EngineAuroraPostgres /\ r.login
       /\ \A j \in DOMAIN r.creates_objects_in : ParseSchema(r.creates_objects_in[j])

\* Mutant: the declared version is not looked at.
checkPrivilegesAnyVersion(c, kind, privs) ==
  /\ privs # <<>> /\ Distinct(privs)
  /\ Seqs!ToSet(privs) \subseteq privilegesByKind[kind]
  /\ c.target.engine = EngineDSQL => Seqs!ToSet(privs) \subseteq dsqlPrivileges

checkPrivileges(c, kind, privs) ==
  /\ privs # <<>> /\ Distinct(privs)
  /\ Seqs!ToSet(privs) \subseteq privilegesByKind[kind]
  /\ c.target.engine = EngineDSQL => Seqs!ToSet(privs) \subseteq dsqlPrivileges
  /\ c.target.postgres_version # 0 =>
       \A p \in Seqs!ToSet(privs) : PrivilegeMinMajor(p) <= c.target.postgres_version

checkDSQLDatabase(c, kind, db) ==
  c.target.engine = EngineDSQL => kind # "database" /\ db = DSQLDatabase

\* Exactly one key is set.
Keys(on) == {k \in TargetKinds : on[k] # <<>>}
Kind(on) == CHOOSE k \in Keys(on) : TRUE
IdentifierOk(on) ==
  /\ Cardinality(Keys(on)) = 1
  /\ CASE Kind(on) = "database" -> Len(on[Kind(on)]) = 1
       [] Kind(on) \in {"table", "sequence"} -> ParseRelation(on[Kind(on)])
       [] OTHER -> ParseSchema(on[Kind(on)])

grantsOk(c) ==
  \A i \in DOMAIN c.roles : LET grants == c.roles[i].grants IN
    /\ \A j \in DOMAIN grants : LET on == grants[j].on IN
         /\ IdentifierOk(on)
         /\ on[Kind(on)][1] \notin Matched(c.policy.unmanaged)
         /\ checkDSQLDatabase(c, Kind(on), on[Kind(on)][1])
         /\ checkPrivileges(c, Kind(on), grants[j].privileges)
    /\ Distinct([j \in DOMAIN grants |-> grants[j].on])

dpKey(d) == <<d.for_role, d.in_schema, d.on>>

defaultPrivilegesOk(c) ==
  \A i \in DOMAIN c.roles : LET defaults == c.roles[i].default_privileges IN
    /\ \A j \in DOMAIN defaults : LET d == defaults[j] IN
         /\ d.for_role \in Names(c)
         /\ ParseSchema(d.in_schema) /\ checkDSQLDatabase(c, "schema", d.in_schema[1])
         /\ d.on \in {"tables", "sequences"} /\ checkPrivileges(c, d.on, d.privileges)
    /\ Distinct([j \in DOMAIN defaults |-> dpKey(defaults[j])])

----------------------------------------------------------------------------
(* expandCreators                                                          *)

\* The schema-wide grants, by what default privileges are on.
Wide == [tables |-> "all_tables_in_schema", sequences |-> "all_sequences_in_schema"]

\* What one role is to receive by default because of its schema-wide grants.
DerivedFor(c, r) ==
  UNION {UNION {
    {[for_role |-> q.name, in_schema |-> g.on[Wide[o]], on |-> o, privileges |-> g.privileges] :
       q \in {creator \in Seqs!ToSet(c.roles) :
               g.on[Wide[o]] \in Seqs!ToSet(creator.creates_objects_in)}} :
    g \in Seqs!ToSet(r.grants)} : o \in DOMAIN Wide}

\* Mutant: two lists are the same if they are equally long.
samePrivilegesByLength(a, b) == Len(a) = Len(b)

samePrivileges(a, b) == Len(a) = Len(b) /\ Seqs!ToSet(b) \subseteq Seqs!ToSet(a)

\* Derived entries disagree neither with an explicit one nor among themselves.
NoConflict(c) ==
  \A i \in DOMAIN c.roles : LET r == c.roles[i] IN
    LET derived == DerivedFor(c, r) IN
    \A e \in Seqs!ToSet(r.default_privileges) \cup derived, d \in derived :
      dpKey(e) = dpKey(d) => samePrivileges(e.privileges, d.privileges)

\* Mutant: what is derived is added although it is written out as well.
expandedTwice(c, r) ==
  Seqs!SetToSeq(Seqs!ToSet(r.default_privileges) \cup DerivedFor(c, r))

\* Sorted, so that only what is in the list matters.
expanded(c, r) ==
  LET explicit == Seqs!ToSet(r.default_privileges) IN
  Seqs!SetToSeq(explicit \cup {d \in DerivedFor(c, r) : \A e \in explicit : dpKey(e) # dpKey(d)})

normalized(c) ==
  [c EXCEPT !.roles = [i \in DOMAIN c.roles |->
     [c.roles[i] EXCEPT !.default_privileges = expanded(c, c.roles[i])]]]

Valid(c) == HeaderOk(c) /\ rolesOk(c) /\ grantsOk(c) /\ defaultPrivilegesOk(c) /\ NoConflict(c)

----------------------------------------------------------------------------
(* CheckServerMajor                                                        *)

\* Mutant: the default privileges are forgotten.
usedPrivilegesOfGrants(c) ==
  UNION {UNION {Seqs!ToSet(g.privileges) : g \in Seqs!ToSet(r.grants)} : r \in Seqs!ToSet(c.roles)}

usedPrivileges(c) ==
  UNION {UNION {Seqs!ToSet(x.privileges) :
                  x \in Seqs!ToSet(r.grants) \cup Seqs!ToSet(r.default_privileges)} :
         r \in Seqs!ToSet(c.roles)}

CheckServerMajor(c, m) ==
  /\ m >= MinMajor
  /\ c.target.postgres_version \in {0, m}
  /\ \A p \in usedPrivileges(c) : PrivilegeMinMajor(p) <= m

----------------------------------------------------------------------------
Init ==
  /\ doc \in Documents
  /\ stage = "edited" /\ cfg = <<>> /\ major = 0 /\ edits = 0

\* loadConfig, with which every command starts.
Load ==
  LET c == applyDefaults(doc) IN
  /\ IF Valid(c) THEN stage' = "accepted" /\ cfg' = normalized(c)
                 ELSE stage' = "rejected" /\ cfg' = <<>>
  /\ major' = 0
  /\ UNCHANGED <<doc, edits>>

\* `pgroledef render`, its output kept as the declaration.
Render ==
  /\ stage = "accepted"
  /\ doc' = cfg
  /\ stage' = "rendered"
  /\ UNCHANGED <<cfg, major, edits>>

\* Build, once it has read the version of the server.
CheckServer ==
  /\ stage = "accepted"
  /\ \E m \in Majors :
       /\ major' = m
       /\ stage' = IF CheckServerMajor(cfg, m) THEN "planning" ELSE "refused"
  /\ UNCHANGED <<doc, cfg, edits>>

\* Somebody changes the target or the policy, or rewrites, adds or removes a role.
Edit ==
  /\ edits < MaxEdits
  /\ \/ \E t \in Targets : doc' = [doc EXCEPT !.target = t]
     \/ \E p \in Policies : doc' = [doc EXCEPT !.policy = p]
     \/ \E i \in DOMAIN doc.roles, r \in RoleBlocks : doc' = [doc EXCEPT !.roles[i] = r]
     \/ \E r \in RoleBlocks :
          Len(doc.roles) < MaxRoles /\ doc' = [doc EXCEPT !.roles = Append(@, r)]
     \/ \E i \in DOMAIN doc.roles : doc' = [doc EXCEPT !.roles = Seqs!RemoveAt(@, i)]
  /\ stage' = "edited" /\ cfg' = <<>> /\ major' = 0
  /\ edits' = edits + 1

Next == Load \/ Render \/ CheckServer \/ Edit

Spec == Init /\ [][Next]_vars

----------------------------------------------------------------------------
(* What the planner is given: FlatGrants, FlatDefaultPrivileges, and the   *)
(* rest of the configuration, in the form module Planner takes it in.      *)

KindNumber == [database |-> 0, schema |-> 1, table |-> 3, sequence |-> 4, tables |-> 3, sequences |-> 4,
               all_tables_in_schema |-> 3, all_sequences_in_schema |-> 4]

\* "db", "db.schema" and "db.schema.name" as an object of module Catalog.
ObjectAt(kind, at) ==
  <<at[1], KindNumber[kind], IF Len(at) > 1 THEN at[2] ELSE 0, IF Len(at) > 2 THEN at[3] ELSE 0>>

\* A role's grants, memberships and so on, one entry for each privilege.
Granted(r) ==
  UNION {{<<r.name, Kind(g.on), g.on[Kind(g.on)], p>> : p \in Seqs!ToSet(g.privileges)} :
         g \in Seqs!ToSet(r.grants)}
Defaulted(r) ==
  UNION {{<<d.in_schema[1], d.in_schema[2], d.for_role, KindNumber[d.on], r.name, p>> :
            p \in Seqs!ToSet(d.privileges)} : d \in Seqs!ToSet(r.default_privileges)}
IsWide(g) == g[2] \in {"all_tables_in_schema", "all_sequences_in_schema"}

DeclOf(c) ==
  LET roles == Seqs!ToSet(c.roles)
      grants == UNION {Granted(r) : r \in roles}
  IN [roles |-> [i \in DOMAIN c.roles |-> c.roles[i].name],
      login |-> {r.name : r \in {q \in roles : q.login}},
      memberOf |-> UNION {{<<r.name, m>> : m \in r.member_of} : r \in roles},
      iam |-> UNION {{<<r.name, a>> : a \in r.iam_principals} : r \in roles},
      grants |-> {<<ObjectAt(g[2], g[3]), g[1], g[4]>> : g \in {h \in grants : ~IsWide(h)}},
      wide |-> {<<g[3][1], g[3][2], KindNumber[g[2]], g[1], g[4]>> : g \in {h \in grants : IsWide(h)}},
      creates |-> UNION {{<<r.name, s[1], s[2]>> : s \in Seqs!ToSet(r.creates_objects_in)} :
                         r \in roles},
      defaults |-> UNION {Defaulted(r) : r \in roles},
      unmanaged |-> Matched(c.policy.unmanaged)]

\* The planner, given the document as it was written.
Written == INSTANCE Planner
  WITH Decl <- DeclOf(applyDefaults(doc)), Dsql <- doc.target.engine = EngineDSQL,
       Me <- "postgres", OwnerChecks <- FALSE

----------------------------------------------------------------------------
(* Properties.                                                             *)

\* What is accepted is what the planner takes for granted: names that are
\* unique and resolve, grants on managed databases the engine has, and, as it
\* keys its maps by target and by creator, one entry for each of them
\* (docs/declaration.md, validation rules).
PlannerCanRely ==
  stage \in {"accepted", "planning"} =>
    /\ Written!ValidDecl
    /\ Names(cfg) \cap Matched(cfg.policy.protected) = {}
    /\ \A r \in Seqs!ToSet(cfg.roles) :
         /\ r.member_of \subseteq Names(cfg) \cup {RdsIam}
         /\ RdsIam \in r.member_of => r.login /\ cfg.target.engine = EngineAuroraPostgres
         /\ \A g, h \in Seqs!ToSet(r.grants) : g.on = h.on => g = h
         /\ \A d, e \in Seqs!ToSet(r.default_privileges) : dpKey(d) = dpKey(e) => d = e
    /\ cfg.target.engine = EngineDSQL =>
         /\ Written!DatabasesNamed \subseteq {DSQLDatabase}
         /\ usedPrivileges(cfg) \subseteq dsqlPrivileges

\* creates_objects_in, whether it is expanded entry by entry with those that are
\* written out left alone (expandCreators), or seen as the planner's rule that a
\* schema-wide grant holds for what a creator adds: the two agree, or the
\* document was rejected for a conflict.
PlannerDerivesTheSame ==
  stage \in {"accepted", "planning"} => DeclOf(cfg).defaults = Written!DesiredDefaults

\* `render` prints the normalized declaration (docs/commands.md): loading that
\* again is accepted and changes nothing.
RenderedLoadsBack ==
  [][stage = "rendered" /\ stage' # "edited" => stage' = "accepted" /\ cfg' = cfg]_vars

\* "Rejects - offline, without a connection - privileges the version does not
\* have" (docs/postgres-versions.md): with a version declared, nothing but
\* another version is left for the server to object to.
PinnedServerAccepted ==
  [][stage = "accepted" /\ major' # 0 /\ major' = cfg.target.postgres_version
       => stage' = "planning"]_vars

\* No plan is made that names a privilege the server does not know, in a grant
\* or in a default privilege, derived ones included.
ServerKnowsPrivileges ==
  stage = "planning" =>
    \A r \in Seqs!ToSet(cfg.roles) :
      \A e \in Seqs!ToSet(r.grants) \cup Seqs!ToSet(r.default_privileges) :
        "MAINTAIN" \in Seqs!ToSet(e.privileges) => major >= 17
=============================================================================
