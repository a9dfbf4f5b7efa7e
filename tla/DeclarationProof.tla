-------------------------- MODULE DeclarationProof --------------------------
(***************************************************************************)
(* Proofs about module Declaration: what a declaration that was accepted   *)
(* can be relied on for, whatever the document, the edits and the servers. *)
(***************************************************************************)
EXTENDS Declaration, FiniteSetTheorems, TLAPS

----------------------------------------------------------------------------
(* Lists and finite sets.                                                  *)

\* A finite set as a list holds each of its elements once.
LEMMA SetAsList ==
  ASSUME NEW S, IsFiniteSet(S)
  PROVE  /\ Seqs!SetToSeq(S) \in Seq(S)
         /\ Seqs!ToSet(Seqs!SetToSeq(S)) = S
         /\ Distinct(Seqs!SetToSeq(S))
<1> DEFINE n == Cardinality(S)
           q == Seqs!SetToSeq(S)
<1>1. n \in Nat /\ ExistsBijection(1 .. n, S)
  BY FS_CardinalityType
<1>2. PICK f : f \in Bijection(1 .. n, S)
  BY <1>1 DEF ExistsBijection
<1>3. f \in [1 .. n -> S] /\ Seqs!IsInjective(f)
  BY <1>2 DEF Bijection, Injection, Surjection, Seqs!IsInjective, IsInjective
<1>4. q \in [1 .. n -> S] /\ Seqs!IsInjective(q)
  <2>1. Seqs!Cardinality(S) = n
    BY DEF Seqs!Cardinality, Cardinality
  <2> QED
    BY <1>3, <2>1 DEF Seqs!SetToSeq
<1>5. q \in Seq(S)
  BY <1>1, <1>4
<1>6. q \in Injection(1 .. n, S)
  BY <1>4 DEF Injection, Seqs!IsInjective, IsInjective
<1>7. IsFiniteSet(1 .. n) /\ Cardinality(1 .. n) = n
  BY <1>1, FS_Interval
<1>8. q \in Surjection(1 .. n, S)
  BY <1>6, <1>7, FS_Injection
<1>9. Seqs!ToSet(q) = S
  BY <1>4, <1>8 DEF Surjection, Seqs!ToSet
<1> QED
  BY <1>4, <1>5, <1>9 DEF Distinct

LEMMA ListIsFinite ==
  ASSUME NEW T, NEW s \in Seq(T)
  PROVE  IsFiniteSet(Seqs!ToSet(s)) /\ Seqs!ToSet(s) \subseteq T
<1>1. s \in Surjection(1 .. Len(s), Seqs!ToSet(s))
  BY DEF Surjection, Seqs!ToSet
<1>2. IsFiniteSet(1 .. Len(s))
  BY FS_Interval
<1> QED
  BY <1>1, <1>2, FS_Surjection DEF Seqs!ToSet
----------------------------------------------------------------------------
(* What Validate leaves of a role.                                         *)

Creates(q, at) == at \in Seqs!ToSet(q.creates_objects_in)
DefaultFor(q, g, o) ==
  [for_role |-> q.name, in_schema |-> g.on[Wide[o]], on |-> o, privileges |-> g.privileges]

\* A derived entry comes from a creator and from a schema-wide grant.
LEMMA DerivedShape ==
  ASSUME NEW c, NEW r, NEW d
  PROVE  d \in DerivedFor(c, r) <=>
           \E o \in {"tables", "sequences"}, g \in Seqs!ToSet(r.grants), q \in Seqs!ToSet(c.roles) :
             Creates(q, g.on[Wide[o]]) /\ d = DefaultFor(q, g, o)
<1>1. DOMAIN Wide = {"tables", "sequences"}
  BY DEF Wide
<1> QED
  BY <1>1 DEF DerivedFor, Creates, DefaultFor

LEMMA RolesTyped ==
  ASSUME NEW c \in Config
  PROVE  /\ c.roles \in Seq(Role)
         /\ \A i \in DOMAIN c.roles : LET r == c.roles[i] IN
              /\ r \in Role
              /\ r.grants \in Seq(RoleGrant)
              /\ r.default_privileges \in Seq(RoleDefaultPrivilege)
              /\ r.creates_objects_in \in Seq(Seq(STRING))
<1>1. c.roles \in Seq(Role)
  BY DEF Config
<1>2. ASSUME NEW i \in DOMAIN c.roles
      PROVE  c.roles[i] \in Role
  BY <1>1
<1>3. \A r \in Role : /\ r.grants \in Seq(RoleGrant)
                     /\ r.default_privileges \in Seq(RoleDefaultPrivilege)
                     /\ r.creates_objects_in \in Seq(Seq(STRING))
  BY DEF Role
<1> QED
  BY <1>1, <1>2, <1>3

LEMMA DerivedFinite ==
  ASSUME NEW c \in Config, NEW i \in DOMAIN c.roles
  PROVE  IsFiniteSet(DerivedFor(c, c.roles[i]))
<1> DEFINE O == {"tables", "sequences"}
           G == Seqs!ToSet(c.roles[i].grants)
           Q == Seqs!ToSet(c.roles)
           P == (O \X G) \X Q
           f == [x \in P |-> DefaultFor(x[2], x[1][2], x[1][1])]
           T == {f[x] : x \in P}
<1>1. c.roles \in Seq(Role) /\ c.roles[i].grants \in Seq(RoleGrant)
  BY RolesTyped
<1>2. IsFiniteSet(Q) /\ IsFiniteSet(G)
  BY <1>1, ListIsFinite
<1>3. IsFiniteSet(O)
  <2>1. O = {"tables"} \cup {"sequences"}
    OBVIOUS
  <2>2. IsFiniteSet({"tables"}) /\ IsFiniteSet({"sequences"})
    BY FS_Singleton
  <2> HIDE DEF O
  <2> QED
    BY <2>1, <2>2, FS_Union
<1>4. IsFiniteSet(O \X G)
  BY <1>2, <1>3, FS_Product
<1>5. IsFiniteSet(P)
  BY <1>2, <1>4, FS_Product
<1>6. f \in Surjection(P, T)
  BY DEF Surjection
<1>7. IsFiniteSet(T)
  BY <1>5, <1>6, FS_Surjection
<1>8. DerivedFor(c, c.roles[i]) \subseteq T
  <2> SUFFICES ASSUME NEW d \in DerivedFor(c, c.roles[i]) PROVE d \in T
    OBVIOUS
  <2>1. PICK o \in O, g \in G, q \in Q : d = DefaultFor(q, g, o)
    BY DerivedShape
  <2>2. <<<<o, g>>, q>> \in P /\ f[<<<<o, g>>, q>>] = d
    BY <2>1
  <2> QED
    BY <2>2
<1> QED
  BY <1>7, <1>8, FS_Subset

\* Validate takes a target for what its only key says.
LEMMA OnlyKey ==
  ASSUME NEW on \in GrantTarget, IdentifierOk(on)
  PROVE  Keys(on) = {Kind(on)} /\ Kind(on) \in TargetKinds /\ on[Kind(on)] # <<>>
<1>1. IsFiniteSet(TargetKinds)
  <2>1. TargetKinds = {"database"} \cup ({"schema"} \cup ({"all_tables_in_schema"} \cup
          ({"all_sequences_in_schema"} \cup ({"table"} \cup {"sequence"}))))
    BY DEF TargetKinds
  <2> QED
    BY <2>1, FS_Singleton, FS_Union
<1>2. IsFiniteSet(Keys(on)) /\ Cardinality(Keys(on)) = 1
  BY <1>1, FS_Subset DEF Keys, IdentifierOk
<1>3. PICK k : Keys(on) = {k}
  BY <1>2, FS_Singleton
<1>4. Kind(on) = k
  BY <1>3 DEF Kind
<1> QED
  BY <1>3, <1>4 DEF Keys
LEMMA GrantRules ==
  ASSUME NEW c \in Config, grantsOk(c), NEW i \in DOMAIN c.roles,
         NEW g \in Seqs!ToSet(c.roles[i].grants)
  PROVE  /\ g \in RoleGrant /\ IdentifierOk(g.on)
         /\ g.on[Kind(g.on)][1] \notin Matched(c.policy.unmanaged)
         /\ checkDSQLDatabase(c, Kind(g.on), g.on[Kind(g.on)][1])
         /\ checkPrivileges(c, Kind(g.on), g.privileges)
         /\ \A h \in Seqs!ToSet(c.roles[i].grants) : g.on = h.on => g = h
<1> DEFINE grants == c.roles[i].grants
           on == [j \in DOMAIN grants |-> grants[j].on]
<1>1. grants \in Seq(RoleGrant)
  BY RolesTyped
<1>2. \A x \in Seqs!ToSet(grants) : \E j \in DOMAIN grants : x = grants[j]
  BY DEF Seqs!ToSet
<1>3. PICK j \in DOMAIN grants : g = grants[j]
  BY <1>2
<1>4. Distinct(on)
  BY DEF grantsOk
<1>5. \A x, y \in DOMAIN grants : on[x] = on[y] => x = y
  BY <1>4 DEF Distinct, Seqs!IsInjective
<1>6. ASSUME NEW h \in Seqs!ToSet(grants), g.on = h.on
      PROVE  g = h
  <2>1. PICK x \in DOMAIN grants : h = grants[x]
    BY <1>2
  <2>2. on[x] = on[j]
    BY <1>3, <1>6, <2>1
  <2> QED
    BY <1>3, <1>5, <2>1, <2>2
<1>7. g \in RoleGrant
  BY <1>1, <1>3
<1>8. /\ IdentifierOk(g.on)
      /\ g.on[Kind(g.on)][1] \notin Matched(c.policy.unmanaged)
      /\ checkDSQLDatabase(c, Kind(g.on), g.on[Kind(g.on)][1])
      /\ checkPrivileges(c, Kind(g.on), g.privileges)
  BY <1>3 DEF grantsOk
<1> QED
  BY <1>6, <1>7, <1>8

LEMMA CreatorRules ==
  ASSUME NEW c \in Config, rolesOk(c), NEW q \in Seqs!ToSet(c.roles),
         NEW at \in Seqs!ToSet(q.creates_objects_in)
  PROVE  /\ q.name \in Names(c)
         /\ at \in Seq(STRING) /\ ParseSchema(at) /\ at # <<>>
<1>1. PICK i \in DOMAIN c.roles : q = c.roles[i]
  BY DEF Seqs!ToSet
<1>2. PICK j \in DOMAIN q.creates_objects_in : at = q.creates_objects_in[j]
  BY DEF Seqs!ToSet
<1>3. q.creates_objects_in \in Seq(Seq(STRING))
  BY <1>1, RolesTyped
<1>4. at \in Seq(STRING)
  BY <1>2, <1>3
<1>5. ParseSchema(at)
  BY <1>1, <1>2 DEF rolesOk
<1>6. at # <<>>
  <2>1. Len(at) = 2
    BY <1>5 DEF ParseSchema
  <2>2. Len(<<>>) = 0
    OBVIOUS
  <2> QED
    BY <2>1, <2>2
<1> QED
  BY <1>1, <1>4, <1>5, <1>6 DEF Names

\* A grant that something is derived from sets nothing but the schema-wide key.
LEMMA DerivedFromWide ==
  ASSUME NEW c \in Config, rolesOk(c), grantsOk(c), NEW i \in DOMAIN c.roles,
         NEW o \in {"tables", "sequences"}, NEW g \in Seqs!ToSet(c.roles[i].grants),
         NEW q \in Seqs!ToSet(c.roles), Creates(q, g.on[Wide[o]])
  PROVE  /\ Kind(g.on) = Wide[o] /\ g.on \in GrantTarget
         /\ \A k \in TargetKinds : k # Wide[o] => g.on[k] = <<>>
<1>1. g \in RoleGrant /\ IdentifierOk(g.on)
  BY GrantRules
<1>2. g.on \in GrantTarget
  BY <1>1 DEF RoleGrant
<1>3. g.on[Wide[o]] # <<>>
  BY CreatorRules DEF Creates
<1>4. Wide[o] \in TargetKinds
  BY DEF Wide, TargetKinds
<1>5. Keys(g.on) = {Kind(g.on)}
  BY <1>1, <1>2, OnlyKey
<1> QED
  BY <1>2, <1>3, <1>4, <1>5 DEF Keys

\* The entry of a default_privileges list as Validate checks it.
EntryOk(c, d) ==
  /\ d \in RoleDefaultPrivilege
  /\ d.for_role \in Names(c)
  /\ ParseSchema(d.in_schema) /\ checkDSQLDatabase(c, "schema", d.in_schema[1])
  /\ d.on \in {"tables", "sequences"} /\ checkPrivileges(c, d.on, d.privileges)

LEMMA DerivedOk ==
  ASSUME NEW c \in Config, rolesOk(c), grantsOk(c), NEW i \in DOMAIN c.roles,
         NEW d \in DerivedFor(c, c.roles[i])
  PROVE  EntryOk(c, d)
<1>1. PICK o \in {"tables", "sequences"}, g \in Seqs!ToSet(c.roles[i].grants),
           q \in Seqs!ToSet(c.roles) : Creates(q, g.on[Wide[o]]) /\ d = DefaultFor(q, g, o)
  BY DerivedShape
<1> DEFINE k == Wide[o]
           at == g.on[k]
<1>2. Kind(g.on) = k
  BY <1>1, DerivedFromWide
<1>3. /\ g \in RoleGrant
      /\ checkDSQLDatabase(c, k, at[1])
      /\ checkPrivileges(c, k, g.privileges)
  BY <1>2, GrantRules
<1>4. q.name \in Names(c) /\ at \in Seq(STRING) /\ ParseSchema(at)
  BY <1>1, CreatorRules DEF Creates
<1>5. q.name \in STRING
  BY <1>4, RolesTyped DEF Names, Role
<1>6. d.for_role = q.name /\ d.in_schema = at /\ d.on = o /\ d.privileges = g.privileges
  BY <1>1 DEF DefaultFor
<1>7. d \in RoleDefaultPrivilege
  <2>1. g.privileges \in Seq(STRING)
    BY <1>3 DEF RoleGrant
  <2>2. d = [for_role |-> q.name, in_schema |-> at, on |-> o, privileges |-> g.privileges]
    BY <1>1 DEF DefaultFor
  <2>3. o \in STRING
    BY LiteralsAssumption
  <2> HIDE DEF at
  <2> QED
    BY <1>4, <1>5, <2>1, <2>2, <2>3 DEF RoleDefaultPrivilege
<1>8. k # "database" /\ privilegesByKind[k] = privilegesByKind[o]
  BY DEF Wide, privilegesByKind
<1>9. checkDSQLDatabase(c, "schema", at[1])
  BY <1>3, <1>8 DEF checkDSQLDatabase
<1>10. checkPrivileges(c, o, g.privileges)
  BY <1>3, <1>8 DEF checkPrivileges
<1> QED
  BY <1>4, <1>6, <1>7, <1>9, <1>10 DEF EntryOk

\* Nothing is derived twice in different ways.
LEMMA DerivedUnique ==
  ASSUME NEW c \in Config, rolesOk(c), grantsOk(c), NEW i \in DOMAIN c.roles,
         NEW d \in DerivedFor(c, c.roles[i]), NEW e \in DerivedFor(c, c.roles[i]),
         dpKey(d) = dpKey(e)
  PROVE  d = e
<1> DEFINE G == Seqs!ToSet(c.roles[i].grants)
           Q == Seqs!ToSet(c.roles)
<1>1. PICK o \in {"tables", "sequences"}, g \in G, q \in Q :
        Creates(q, g.on[Wide[o]]) /\ d = DefaultFor(q, g, o)
  BY DerivedShape
<1>2. PICK p \in {"tables", "sequences"}, h \in G, r \in Q :
        Creates(r, h.on[Wide[p]]) /\ e = DefaultFor(r, h, p)
  BY DerivedShape
<1>3. q.name = r.name /\ g.on[Wide[o]] = h.on[Wide[p]] /\ o = p
  BY <1>1, <1>2 DEF dpKey, DefaultFor
<1>4. /\ g.on \in GrantTarget /\ h.on \in GrantTarget
      /\ \A k \in TargetKinds : k # Wide[o] => g.on[k] = <<>> /\ h.on[k] = <<>>
  BY <1>1, <1>2, <1>3, DerivedFromWide
<1>5. g.on = h.on
  BY <1>3, <1>4 DEF GrantTarget
<1>6. g = h
  BY <1>5, GrantRules
<1> QED
  BY <1>1, <1>2, <1>3, <1>6 DEF DefaultFor

LEMMA ExplicitOk ==
  ASSUME NEW c \in Config, defaultPrivilegesOk(c), NEW i \in DOMAIN c.roles,
         NEW d \in Seqs!ToSet(c.roles[i].default_privileges)
  PROVE  /\ EntryOk(c, d)
         /\ \A e \in Seqs!ToSet(c.roles[i].default_privileges) : dpKey(d) = dpKey(e) => d = e
<1> DEFINE defaults == c.roles[i].default_privileges
           key == [j \in DOMAIN defaults |-> dpKey(defaults[j])]
<1>1. defaults \in Seq(RoleDefaultPrivilege)
  BY RolesTyped
<1>2. \A x \in Seqs!ToSet(defaults) : \E j \in DOMAIN defaults : x = defaults[j]
  BY DEF Seqs!ToSet
<1>3. PICK j \in DOMAIN defaults : d = defaults[j]
  BY <1>2
<1>4. Distinct(key)
  BY DEF defaultPrivilegesOk
<1>5. \A x, y \in DOMAIN defaults : key[x] = key[y] => x = y
  BY <1>4 DEF Distinct, Seqs!IsInjective
<1>6. ASSUME NEW e \in Seqs!ToSet(defaults), dpKey(d) = dpKey(e)
      PROVE  d = e
  <2>1. PICK x \in DOMAIN defaults : e = defaults[x]
    BY <1>2
  <2>2. key[x] = key[j]
    BY <1>3, <1>6, <2>1
  <2> QED
    BY <1>3, <1>5, <2>1, <2>2
<1>7. d \in RoleDefaultPrivilege
  BY <1>1, <1>3
<1>8. /\ d.for_role \in Names(c)
      /\ ParseSchema(d.in_schema) /\ checkDSQLDatabase(c, "schema", d.in_schema[1])
      /\ d.on \in {"tables", "sequences"} /\ checkPrivileges(c, d.on, d.privileges)
  BY <1>3 DEF defaultPrivilegesOk
<1> QED
  BY <1>6, <1>7, <1>8 DEF EntryOk
----------------------------------------------------------------------------
(* The normalized declaration.                                             *)

\* What `expanded` lists.
AllDefaults(c, r) ==
  LET explicit == Seqs!ToSet(r.default_privileges) IN
  explicit \cup {d \in DerivedFor(c, r) : \A e \in explicit : dpKey(e) # dpKey(d)}

LEMMA ExpandedList ==
  ASSUME NEW c \in Config, rolesOk(c), grantsOk(c), defaultPrivilegesOk(c), NEW i \in DOMAIN c.roles
  PROVE  LET r == c.roles[i] IN
         /\ expanded(c, r) = Seqs!SetToSeq(AllDefaults(c, r))
         /\ expanded(c, r) \in Seq(RoleDefaultPrivilege)
         /\ Seqs!ToSet(expanded(c, r)) = AllDefaults(c, r)
         /\ Distinct(expanded(c, r))
<1> DEFINE r == c.roles[i]
           S == AllDefaults(c, r)
<1>1. IsFiniteSet(Seqs!ToSet(r.default_privileges))
  BY RolesTyped, ListIsFinite
<1>2. IsFiniteSet(DerivedFor(c, r))
  BY DerivedFinite
<1>3. IsFiniteSet(Seqs!ToSet(r.default_privileges) \cup DerivedFor(c, r))
  BY <1>1, <1>2, FS_Union
<1>4. S \subseteq Seqs!ToSet(r.default_privileges) \cup DerivedFor(c, r)
  BY DEF AllDefaults
<1>5. IsFiniteSet(S)
  BY <1>3, <1>4, FS_Subset
<1>6. \A d \in S : d \in RoleDefaultPrivilege
  BY <1>4, ExplicitOk, DerivedOk DEF EntryOk
<1>7. expanded(c, r) = Seqs!SetToSeq(S)
  BY DEF expanded, AllDefaults
<1> HIDE DEF S
<1>8. /\ expanded(c, r) \in Seq(S)
      /\ Seqs!ToSet(expanded(c, r)) = S
      /\ Distinct(expanded(c, r))
  BY <1>5, <1>7, SetAsList
<1>9. expanded(c, r) \in Seq(RoleDefaultPrivilege)
  BY <1>6, <1>8
<1> QED
  BY <1>7, <1>8, <1>9 DEF S

\* Every entry of the expanded list is one Validate accepts, and the only one
\* with its key.
LEMMA AllDefaultsOk ==
  ASSUME NEW c \in Config, rolesOk(c), grantsOk(c), defaultPrivilegesOk(c), NEW i \in DOMAIN c.roles
  PROVE  \A d \in AllDefaults(c, c.roles[i]) :
           /\ EntryOk(c, d)
           /\ \A e \in AllDefaults(c, c.roles[i]) : dpKey(d) = dpKey(e) => d = e
<1> DEFINE r == c.roles[i]
           E == Seqs!ToSet(r.default_privileges)
           D == DerivedFor(c, r)
<1>1. \A d \in E : EntryOk(c, d) /\ \A e \in E : dpKey(d) = dpKey(e) => d = e
  BY ExplicitOk
<1>2. \A d \in D : EntryOk(c, d) /\ \A e \in D : dpKey(d) = dpKey(e) => d = e
  BY DerivedOk, DerivedUnique
<1>3. \A d \in AllDefaults(c, r) : d \in E \/ (d \in D /\ \A e \in E : dpKey(e) # dpKey(d))
  BY DEF AllDefaults
<1> HIDE DEF E, D, r
<1> QED
  BY <1>1, <1>2, <1>3 DEF r

\* Normalizing changes nothing but the default privileges.
LEMMA NormalizedFields ==
  ASSUME NEW c \in Config
  PROVE  /\ normalized(c).version = c.version /\ normalized(c).target = c.target
         /\ normalized(c).policy = c.policy
         /\ DOMAIN normalized(c).roles = DOMAIN c.roles
         /\ \A i \in DOMAIN c.roles :
              LET r == c.roles[i]
                  s == normalized(c).roles[i]
              IN  /\ s = [r EXCEPT !.default_privileges = expanded(c, r)]
                  /\ s.name = r.name /\ s.login = r.login /\ s.member_of = r.member_of
                  /\ s.iam_principals = r.iam_principals
                  /\ s.creates_objects_in = r.creates_objects_in /\ s.grants = r.grants
                  /\ s.default_privileges = expanded(c, r)
<1> DEFINE roles == [i \in DOMAIN c.roles |->
              [c.roles[i] EXCEPT !.default_privileges = expanded(c, c.roles[i])]]
<1>1. normalized(c) = [c EXCEPT !.roles = roles]
  BY DEF normalized
<1> HIDE DEF roles
<1>2. /\ normalized(c).version = c.version /\ normalized(c).target = c.target
      /\ normalized(c).policy = c.policy /\ normalized(c).roles = roles
  BY <1>1 DEF Config
<1>3. DOMAIN roles = DOMAIN c.roles
  BY DEF roles
<1>4. ASSUME NEW i \in DOMAIN c.roles
      PROVE  roles[i] = [c.roles[i] EXCEPT !.default_privileges = expanded(c, c.roles[i])]
  BY DEF roles
<1>5. ASSUME NEW r \in Role, NEW list, NEW s, s = [r EXCEPT !.default_privileges = list]
      PROVE  /\ s.name = r.name /\ s.login = r.login /\ s.member_of = r.member_of
             /\ s.iam_principals = r.iam_principals
             /\ s.creates_objects_in = r.creates_objects_in /\ s.grants = r.grants
             /\ s.default_privileges = list
  BY <1>5 DEF Role
<1>6. \A i \in DOMAIN c.roles : c.roles[i] \in Role
  BY RolesTyped
<1>7. ASSUME NEW i \in DOMAIN c.roles
      PROVE  LET r == c.roles[i]
                 s == normalized(c).roles[i]
             IN  /\ s = [r EXCEPT !.default_privileges = expanded(c, r)]
                 /\ s.name = r.name /\ s.login = r.login /\ s.member_of = r.member_of
                 /\ s.iam_principals = r.iam_principals
                 /\ s.creates_objects_in = r.creates_objects_in /\ s.grants = r.grants
                 /\ s.default_privileges = expanded(c, r)
  <2>1. normalized(c).roles[i] = [c.roles[i] EXCEPT !.default_privileges = expanded(c, c.roles[i])]
    BY <1>2, <1>4
  <2>2. c.roles[i] \in Role
    BY <1>6
  <2> QED
    BY <1>5, <2>1, <2>2
<1> QED
  BY <1>2, <1>3, <1>7

\* Derived entries do not depend on what is written out.
LEMMA SameDerived ==
  ASSUME NEW c \in Config, NEW i \in DOMAIN c.roles
  PROVE  DerivedFor(normalized(c), normalized(c).roles[i]) = DerivedFor(c, c.roles[i])
<1> DEFINE n == normalized(c)
<1>1. /\ n.roles[i].grants = c.roles[i].grants /\ DOMAIN n.roles = DOMAIN c.roles
      /\ \A j \in DOMAIN c.roles :
           /\ n.roles[j].name = c.roles[j].name
           /\ n.roles[j].creates_objects_in = c.roles[j].creates_objects_in
  BY NormalizedFields
<1>2. \A q, s, g, o : q.name = s.name => DefaultFor(q, g, o) = DefaultFor(s, g, o)
  BY DEF DefaultFor
<1>3. \A q, s, at : q.creates_objects_in = s.creates_objects_in => (Creates(q, at) <=> Creates(s, at))
  BY DEF Creates
<1>4. /\ \A q : q \in Seqs!ToSet(c.roles) <=> \E j \in DOMAIN c.roles : q = c.roles[j]
      /\ \A q : q \in Seqs!ToSet(n.roles) <=> \E j \in DOMAIN n.roles : q = n.roles[j]
  BY DEF Seqs!ToSet
<1> HIDE DEF n
<1>5. ASSUME NEW o, NEW g, NEW d
      PROVE  (\E q \in Seqs!ToSet(n.roles) : Creates(q, g.on[Wide[o]]) /\ d = DefaultFor(q, g, o))
             <=> \E q \in Seqs!ToSet(c.roles) : Creates(q, g.on[Wide[o]]) /\ d = DefaultFor(q, g, o)
  <2>1. ASSUME NEW j \in DOMAIN c.roles
        PROVE  /\ Creates(n.roles[j], g.on[Wide[o]]) <=> Creates(c.roles[j], g.on[Wide[o]])
               /\ DefaultFor(n.roles[j], g, o) = DefaultFor(c.roles[j], g, o)
    BY <1>1, <1>2, <1>3
  <2> QED
    BY <1>1, <1>4, <2>1
<1>6. ASSUME NEW d
      PROVE  d \in DerivedFor(n, n.roles[i]) <=> d \in DerivedFor(c, c.roles[i])
  <2> DEFINE From(x, o, g) == \E q \in Seqs!ToSet(x.roles) :
                                Creates(q, g.on[Wide[o]]) /\ d = DefaultFor(q, g, o)
             G == Seqs!ToSet(c.roles[i].grants)
  <2>1. d \in DerivedFor(n, n.roles[i]) <=>
          \E o \in {"tables", "sequences"}, g \in Seqs!ToSet(n.roles[i].grants) : From(n, o, g)
    BY DerivedShape
  <2>2. d \in DerivedFor(c, c.roles[i]) <=>
          \E o \in {"tables", "sequences"}, g \in G : From(c, o, g)
    BY DerivedShape
  <2>3. \A o, g : From(n, o, g) <=> From(c, o, g)
    BY <1>5
  <2>4. Seqs!ToSet(n.roles[i].grants) = G
    BY <1>1
  <2> HIDE DEF From, G
  <2> QED
    BY <2>1, <2>2, <2>3, <2>4
<1> QED
  BY <1>6 DEF n
\* The four functions of the validator that look at a document from inside.
LEMMA SameChecks ==
  ASSUME NEW c, NEW n, n.target = c.target, n.policy = c.policy, Names(n) = Names(c)
  PROVE  /\ \A kind, privs : checkPrivileges(n, kind, privs) <=> checkPrivileges(c, kind, privs)
         /\ \A kind, db : checkDSQLDatabase(n, kind, db) <=> checkDSQLDatabase(c, kind, db)
         /\ \A r, m : MembershipOk(n, r, m) <=> MembershipOk(c, r, m)
         /\ \A d : EntryOk(n, d) <=> EntryOk(c, d)
<1>1. \A kind, privs : checkPrivileges(n, kind, privs) <=> checkPrivileges(c, kind, privs)
  BY DEF checkPrivileges
<1>2. \A kind, db : checkDSQLDatabase(n, kind, db) <=> checkDSQLDatabase(c, kind, db)
  BY DEF checkDSQLDatabase
<1>3. \A r, m : MembershipOk(n, r, m) <=> MembershipOk(c, r, m)
  BY DEF MembershipOk
<1> QED
  BY <1>1, <1>2, <1>3 DEF EntryOk

LEMMA SameNames ==
  ASSUME NEW c \in Config
  PROVE  /\ Names(normalized(c)) = Names(c)
         /\ [i \in DOMAIN normalized(c).roles |-> normalized(c).roles[i].name]
              = [i \in DOMAIN c.roles |-> c.roles[i].name]
<1> DEFINE n == normalized(c)
<1>1. DOMAIN n.roles = DOMAIN c.roles /\ \A i \in DOMAIN c.roles : n.roles[i].name = c.roles[i].name
  BY NormalizedFields
<1> HIDE DEF n
<1>2. Names(n) = Names(c)
  BY <1>1 DEF Names
<1>3. [i \in DOMAIN n.roles |-> n.roles[i].name] = [i \in DOMAIN c.roles |-> c.roles[i].name]
  BY <1>1
<1> QED
  BY <1>2, <1>3 DEF n

\* What was accepted is accepted again once it is normalized.
LEMMA NormalizedValid ==
  ASSUME NEW c \in Config, Valid(c)
  PROVE  Valid(normalized(c))
<1> DEFINE n == normalized(c)
<1>1. HeaderOk(c) /\ rolesOk(c) /\ grantsOk(c) /\ defaultPrivilegesOk(c) /\ NoConflict(c)
  BY DEF Valid
<1>2. /\ n.version = c.version /\ n.target = c.target /\ n.policy = c.policy
      /\ DOMAIN n.roles = DOMAIN c.roles
      /\ \A i \in DOMAIN c.roles : LET r == c.roles[i] IN
           /\ n.roles[i].name = r.name /\ n.roles[i].login = r.login
           /\ n.roles[i].member_of = r.member_of /\ n.roles[i].iam_principals = r.iam_principals
           /\ n.roles[i].creates_objects_in = r.creates_objects_in /\ n.roles[i].grants = r.grants
           /\ n.roles[i].default_privileges = expanded(c, r)
  BY NormalizedFields
<1>3. /\ Names(n) = Names(c)
      /\ [i \in DOMAIN n.roles |-> n.roles[i].name] = [i \in DOMAIN c.roles |-> c.roles[i].name]
  BY SameNames
<1>4. \A i \in DOMAIN c.roles : DerivedFor(n, n.roles[i]) = DerivedFor(c, c.roles[i])
  BY SameDerived
<1> HIDE DEF n
<1>5. /\ \A kind, privs : checkPrivileges(n, kind, privs) <=> checkPrivileges(c, kind, privs)
      /\ \A kind, db : checkDSQLDatabase(n, kind, db) <=> checkDSQLDatabase(c, kind, db)
      /\ \A r, m : MembershipOk(n, r, m) <=> MembershipOk(c, r, m)
      /\ \A d : EntryOk(n, d) <=> EntryOk(c, d)
  BY <1>2, <1>3, SameChecks
<1>6. HeaderOk(n)
  BY <1>1, <1>2 DEF HeaderOk
<1>7. rolesOk(n)
  <2>1. ASSUME NEW i \in DOMAIN c.roles
        PROVE  LET r == n.roles[i] IN
               /\ \A m \in r.member_of : MembershipOk(n, r, m)
               /\ r.iam_principals \subseteq Arns
               /\ r.iam_principals # {} => n.target.engine # EngineAuroraPostgres /\ r.login
               /\ \A j \in DOMAIN r.creates_objects_in : ParseSchema(r.creates_objects_in[j])
    <3>1. LET r == c.roles[i] IN
          /\ \A m \in r.member_of : MembershipOk(c, r, m)
          /\ r.iam_principals \subseteq Arns
          /\ r.iam_principals # {} => c.target.engine # EngineAuroraPostgres /\ r.login
          /\ \A j \in DOMAIN r.creates_objects_in : ParseSchema(r.creates_objects_in[j])
      BY <1>1 DEF rolesOk
    <3>2. \A m : MembershipOk(c, c.roles[i], m) => MembershipOk(n, n.roles[i], m)
      BY <1>2, <1>3 DEF MembershipOk
    <3> QED
      BY <1>2, <3>1, <3>2
  <2>2. Distinct([i \in DOMAIN n.roles |-> n.roles[i].name])
    BY <1>1, <1>3 DEF rolesOk
  <2>3. Names(n) \subseteq RoleNames \ Matched(n.policy.protected)
    BY <1>1, <1>2, <1>3 DEF rolesOk
  <2> QED
    BY <1>2, <2>1, <2>2, <2>3 DEF rolesOk
<1>8. grantsOk(n)
  <2> SUFFICES ASSUME NEW i \in DOMAIN n.roles
               PROVE  LET grants == n.roles[i].grants IN
                      /\ \A j \in DOMAIN grants : LET on == grants[j].on IN
                           /\ IdentifierOk(on)
                           /\ on[Kind(on)][1] \notin Matched(n.policy.unmanaged)
                           /\ checkDSQLDatabase(n, Kind(on), on[Kind(on)][1])
                           /\ checkPrivileges(n, Kind(on), grants[j].privileges)
                      /\ Distinct([j \in DOMAIN grants |-> grants[j].on])
    BY DEF grantsOk
  <2> DEFINE grants == c.roles[i].grants
  <2>1. n.roles[i].grants = grants
    BY <1>2
  <2>2. /\ \A j \in DOMAIN grants : LET on == grants[j].on IN
             /\ IdentifierOk(on)
             /\ on[Kind(on)][1] \notin Matched(c.policy.unmanaged)
             /\ checkDSQLDatabase(c, Kind(on), on[Kind(on)][1])
             /\ checkPrivileges(c, Kind(on), grants[j].privileges)
        /\ Distinct([j \in DOMAIN grants |-> grants[j].on])
    BY <1>1, <1>2 DEF grantsOk
  <2> HIDE DEF grants
  <2> QED
    BY <1>2, <1>5, <2>1, <2>2
<1>9. defaultPrivilegesOk(n)
  <2> SUFFICES ASSUME NEW i \in DOMAIN n.roles
               PROVE  LET defaults == n.roles[i].default_privileges IN
                      /\ \A j \in DOMAIN defaults : EntryOk(n, defaults[j])
                      /\ Distinct([j \in DOMAIN defaults |-> dpKey(defaults[j])])
    BY DEF defaultPrivilegesOk, EntryOk
  <2> DEFINE list == n.roles[i].default_privileges
             S == AllDefaults(c, c.roles[i])
  <2>1. i \in DOMAIN c.roles /\ list = expanded(c, c.roles[i])
    BY <1>2
  <2>2. Seqs!ToSet(list) = S /\ Distinct(list)
    BY <1>1, <2>1, ExpandedList
  <2>3. \A d \in S : EntryOk(c, d) /\ \A e \in S : dpKey(d) = dpKey(e) => d = e
    BY <1>1, <2>1, AllDefaultsOk
  <2> HIDE DEF list, S
  <2>4. \A j \in DOMAIN list : list[j] \in S
    BY <2>2 DEF Seqs!ToSet
  <2>5. \A j \in DOMAIN list : EntryOk(n, list[j])
    BY <1>5, <2>3, <2>4
  <2>6. \A j, k \in DOMAIN list : dpKey(list[j]) = dpKey(list[k]) => j = k
    BY <2>2, <2>3, <2>4 DEF Distinct, Seqs!IsInjective
  <2>7. Distinct([j \in DOMAIN list |-> dpKey(list[j])])
    BY <2>6 DEF Distinct, Seqs!IsInjective
  <2> QED
    BY <2>5, <2>7 DEF list
<1>10. NoConflict(n)
  <2> SUFFICES ASSUME NEW i \in DOMAIN n.roles,
                      NEW e \in Seqs!ToSet(n.roles[i].default_privileges)
                                 \cup DerivedFor(n, n.roles[i]),
                      NEW d \in DerivedFor(n, n.roles[i]), dpKey(e) = dpKey(d)
               PROVE  samePrivileges(e.privileges, d.privileges)
    BY DEF NoConflict
  <2> DEFINE r == c.roles[i]
             E == Seqs!ToSet(r.default_privileges)
             D == DerivedFor(c, r)
  <2>1. i \in DOMAIN c.roles /\ n.roles[i].default_privileges = expanded(c, r)
        /\ DerivedFor(n, n.roles[i]) = D
    BY <1>2, <1>4
  <2>2. Seqs!ToSet(n.roles[i].default_privileges) = AllDefaults(c, r)
    BY <1>1, <2>1, ExpandedList
  <2>3. AllDefaults(c, r) \subseteq E \cup D
    BY DEF AllDefaults
  <2>4. \A x \in E \cup D, y \in D : dpKey(x) = dpKey(y) => samePrivileges(x.privileges, y.privileges)
    BY <1>1, <2>1 DEF NoConflict
  <2> HIDE DEF E, D
  <2> QED
    BY <2>1, <2>2, <2>3, <2>4
<1> QED
  BY <1>6, <1>7, <1>8, <1>9, <1>10 DEF Valid, n
\* Expanding what is expanded adds nothing.
LEMMA ExpandedOnce ==
  ASSUME NEW c \in Config, Valid(c), NEW i \in DOMAIN c.roles
  PROVE  expanded(normalized(c), normalized(c).roles[i]) = normalized(c).roles[i].default_privileges
<1> DEFINE n == normalized(c)
           r == c.roles[i]
           E == Seqs!ToSet(r.default_privileges)
           D == DerivedFor(c, r)
           S == AllDefaults(c, r)
<1>1. rolesOk(c) /\ grantsOk(c) /\ defaultPrivilegesOk(c)
  BY DEF Valid
<1>2. n.roles[i].default_privileges = expanded(c, r)
  BY NormalizedFields
<1>3. expanded(c, r) = Seqs!SetToSeq(S) /\ Seqs!ToSet(expanded(c, r)) = S
  BY <1>1, ExpandedList
<1>4. DerivedFor(n, n.roles[i]) = D
  BY SameDerived
<1>5. S = E \cup {d \in D : \A e \in E : dpKey(e) # dpKey(d)}
  BY DEF AllDefaults
<1>6. expanded(n, n.roles[i]) = Seqs!SetToSeq(S \cup {d \in D : \A e \in S : dpKey(e) # dpKey(d)})
  BY <1>2, <1>3, <1>4 DEF expanded
<1> HIDE DEF S, E, D
<1>7. {d \in D : \A e \in S : dpKey(e) # dpKey(d)} = {}
  <2> SUFFICES ASSUME NEW d \in D PROVE \E e \in S : dpKey(e) = dpKey(d)
    OBVIOUS
  <2>1. CASE \E e \in E : dpKey(e) = dpKey(d)
    BY <1>5, <2>1
  <2>2. CASE \A e \in E : dpKey(e) # dpKey(d)
    BY <1>5, <2>2
  <2> QED
    BY <2>1, <2>2
<1>8. expanded(n, n.roles[i]) = Seqs!SetToSeq(S)
  <2>1. S \cup {d \in D : \A e \in S : dpKey(e) # dpKey(d)} = S
    BY <1>7
  <2> QED
    BY <1>6, <2>1
<1> QED
  BY <1>2, <1>3, <1>8 DEF n, r

LEMMA NormalizedTyped ==
  ASSUME NEW c \in Config, Valid(c)
  PROVE  normalized(c) \in Config
<1> DEFINE roles == [i \in DOMAIN c.roles |->
              [c.roles[i] EXCEPT !.default_privileges = expanded(c, c.roles[i])]]
<1>1. c.roles \in Seq(Role) /\ \A i \in DOMAIN c.roles : c.roles[i] \in Role
  BY RolesTyped
<1>2. ASSUME NEW i \in DOMAIN c.roles
      PROVE  [c.roles[i] EXCEPT !.default_privileges = expanded(c, c.roles[i])] \in Role
  <2>1. expanded(c, c.roles[i]) \in Seq(RoleDefaultPrivilege)
    BY ExpandedList DEF Valid
  <2>2. \A r \in Role, list \in Seq(RoleDefaultPrivilege) :
          [r EXCEPT !.default_privileges = list] \in Role
    BY DEF Role
  <2> QED
    BY <1>1, <2>1, <2>2
<1>3. roles \in Seq(Role)
  <2>1. Len(c.roles) \in Nat /\ DOMAIN c.roles = 1 .. Len(c.roles)
    BY <1>1
  <2>2. roles \in [1 .. Len(c.roles) -> Role]
    BY <1>2, <2>1
  <2> HIDE DEF roles
  <2> QED
    BY <2>1, <2>2
<1>4. normalized(c) = [c EXCEPT !.roles = roles]
  BY DEF normalized
<1> HIDE DEF roles
<1> QED
  BY <1>3, <1>4 DEF Config

LEMMA NormalizedStable ==
  ASSUME NEW c \in Config, Valid(c)
  PROVE  normalized(normalized(c)) = normalized(c)
<1> DEFINE n == normalized(c)
<1>1. n \in Config
  BY NormalizedTyped
<1>2. \A i \in DOMAIN c.roles : expanded(n, n.roles[i]) = n.roles[i].default_privileges
  BY ExpandedOnce
<1>3. DOMAIN n.roles = DOMAIN c.roles
  BY NormalizedFields
<1>4. n.roles \in Seq(Role) /\ \A i \in DOMAIN n.roles : n.roles[i] \in Role
  BY <1>1, RolesTyped
<1> HIDE DEF n
<1> DEFINE roles == [i \in DOMAIN n.roles |->
              [n.roles[i] EXCEPT !.default_privileges = expanded(n, n.roles[i])]]
<1>5. ASSUME NEW i \in DOMAIN n.roles
      PROVE  [n.roles[i] EXCEPT !.default_privileges = expanded(n, n.roles[i])] = n.roles[i]
  <2>1. \A r \in Role : [r EXCEPT !.default_privileges = r.default_privileges] = r
    BY DEF Role
  <2> QED
    BY <1>2, <1>3, <1>4, <2>1
<1>6. roles = n.roles
  <2>1. n.roles = [i \in DOMAIN n.roles |-> n.roles[i]]
    BY <1>4
  <2>2. DOMAIN roles = DOMAIN n.roles /\ \A i \in DOMAIN n.roles : roles[i] = n.roles[i]
    BY <1>5
  <2>3. roles = [i \in DOMAIN roles |-> roles[i]]
    OBVIOUS
  <2> HIDE DEF roles
  <2> QED
    BY <2>1, <2>2, <2>3
<1>7. normalized(n) = [n EXCEPT !.roles = roles]
  BY DEF normalized
<1> HIDE DEF roles
<1>8. normalized(n) = n
  BY <1>1, <1>6, <1>7 DEF Config
<1> QED
  BY <1>8 DEF n

----------------------------------------------------------------------------
(* Decode.                                                                 *)

LEMMA PolicyTyped == \A engine : DefaultPolicyFor(engine) \in Policy
<1>1. /\ {"admin", "dbowner"} \in SUBSET STRING
      /\ {"postgres", "rdsadmin", RdsIam, "admin"} \in SUBSET STRING
      /\ {"postgres", "rdsadmin", "template1"} \in SUBSET STRING
  BY LiteralsAssumption DEF RdsIam
<1>2. \A x, y, z \in SUBSET STRING :
        /\ [protected |-> <<x>>, unmanaged |-> <<>>] \in Policy
        /\ [protected |-> <<y>>, unmanaged |-> <<z>>] \in Policy
  BY DEF Policy
<1> QED
  BY <1>1, <1>2 DEF DefaultPolicyFor

\* What a document leaves open is completed; what is complete is left alone.
LEMMA DefaultsApplied ==
  ASSUME NEW d \in Config
  PROVE  LET c == applyDefaults(d) IN
         /\ c \in Config
         /\ c.target = d.target /\ c.roles = d.roles
         /\ \A n \in Config : n.target = c.target /\ n.policy = c.policy => applyDefaults(n) = n
<1> DEFINE default == DefaultPolicyFor(d.target.engine)
           policy == [protected |-> IF d.policy.protected = <<>> THEN default.protected
                                                                ELSE d.policy.protected,
                      unmanaged |-> IF d.policy.unmanaged = <<>> THEN default.unmanaged
                                                                 ELSE d.policy.unmanaged]
           c == applyDefaults(d)
<1>1. d.policy \in Policy /\ default \in Policy
  BY PolicyTyped DEF Config
<1>2. policy \in Policy
  BY <1>1 DEF Policy
<1>3. c = [d EXCEPT !.policy = policy]
  BY DEF applyDefaults, Config
<1>4. /\ policy.protected = <<>> => default.protected = <<>>
      /\ policy.unmanaged = <<>> => default.unmanaged = <<>>
  OBVIOUS
<1> HIDE DEF policy, c
<1>5. c \in Config /\ c.target = d.target /\ c.roles = d.roles /\ c.policy = policy
  BY <1>2, <1>3 DEF Config
<1>6. ASSUME NEW n \in Config, n.target = c.target, n.policy = c.policy
      PROVE  applyDefaults(n) = n
  <2> DEFINE again == [protected |-> IF policy.protected = <<>> THEN default.protected
                                                                ELSE policy.protected,
                       unmanaged |-> IF policy.unmanaged = <<>> THEN default.unmanaged
                                                                ELSE policy.unmanaged]
  <2>1. again = policy
    BY <1>2, <1>4 DEF Policy
  <2>2. n.policy = policy /\ n.target.engine = d.target.engine
    BY <1>5, <1>6
  <2>3. applyDefaults(n) = [n EXCEPT !.policy = again]
    BY <2>2 DEF applyDefaults, Config
  <2> HIDE DEF again
  <2> QED
    BY <2>1, <2>2, <2>3 DEF Config
<1> QED
  BY <1>5, <1>6 DEF c
----------------------------------------------------------------------------
(* The inductive invariant.                                                *)

\* cfg is what Load made of the document.
Accepted(d, c) == Valid(applyDefaults(d)) /\ c = normalized(applyDefaults(d))

\* Loading changes nothing about d any more.
Settled(d) == Valid(d) /\ applyDefaults(d) = d /\ normalized(d) = d

DeclInv ==
  /\ doc \in Config
  /\ stage \in {"accepted", "planning", "refused"} => Accepted(doc, cfg)
  /\ stage = "rendered" => doc = cfg /\ Settled(doc)
  /\ stage \in {"accepted", "rendered"} => major = 0
  /\ stage = "planning" => major \in Nat /\ CheckServerMajor(cfg, major)

\* What is accepted is a document of its own, and one that loads to itself.
LEMMA AcceptedSettled ==
  ASSUME NEW d \in Config, NEW c, Accepted(d, c)
  PROVE  c \in Config /\ Settled(c)
<1> DEFINE e == applyDefaults(d)
<1>1. e \in Config /\ Valid(e) /\ c = normalized(e)
  BY DefaultsApplied DEF Accepted
<1>2. c.target = e.target /\ c.policy = e.policy
  BY <1>1, NormalizedFields
<1>3. c \in Config /\ Valid(c) /\ normalized(c) = c
  BY <1>1, NormalizedTyped, NormalizedValid, NormalizedStable
<1>4. applyDefaults(c) = c
  BY <1>2, <1>3, DefaultsApplied
<1> QED
  BY <1>3, <1>4 DEF Settled

LEMMA RemovedTyped ==
  ASSUME NEW T, NEW s \in Seq(T), NEW i \in DOMAIN s
  PROVE  Seqs!RemoveAt(s, i) \in Seq(T)
<1>1. i \in 1 .. Len(s)
  OBVIOUS
<1>2. SubSeq(s, 1, i - 1) \in Seq(T) /\ SubSeq(s, i + 1, Len(s)) \in Seq(T)
  BY <1>1
<1> QED
  BY <1>2 DEF Seqs!RemoveAt

LEMMA EditTyped ==
  ASSUME doc \in Config, Edit
  PROVE  doc' \in Config
<1> DEFINE roles == doc.roles
<1>1. \A t \in Target : [doc EXCEPT !.target = t] \in Config
  BY DEF Config
<1>2. \A p \in Policy : [doc EXCEPT !.policy = p] \in Config
  BY DEF Config
<1>3. \A s \in Seq(Role) : [doc EXCEPT !.roles = s] \in Config
  BY DEF Config
<1>4. roles \in Seq(Role)
  BY DEF Config
<1>5. CASE \E t \in Targets : doc' = [doc EXCEPT !.target = t]
  BY <1>1, <1>5, DocumentsAssumption
<1>6. CASE \E p \in Policies : doc' = [doc EXCEPT !.policy = p]
  BY <1>2, <1>6, DocumentsAssumption
<1>7. ASSUME NEW i \in DOMAIN roles, NEW r \in RoleBlocks, doc' = [doc EXCEPT !.roles[i] = r]
      PROVE  doc' \in Config
  <2>1. [roles EXCEPT ![i] = r] \in Seq(Role)
    BY <1>4, DocumentsAssumption
  <2>2. doc' = [doc EXCEPT !.roles = [roles EXCEPT ![i] = r]]
    BY <1>7 DEF Config
  <2> QED
    BY <1>3, <2>1, <2>2
<1>8. ASSUME NEW r \in RoleBlocks, doc' = [doc EXCEPT !.roles = Append(@, r)]
      PROVE  doc' \in Config
  <2>1. Append(roles, r) \in Seq(Role)
    BY <1>4, DocumentsAssumption
  <2>2. doc' = [doc EXCEPT !.roles = Append(roles, r)]
    BY <1>8 DEF Config
  <2> QED
    BY <1>3, <2>1, <2>2
<1>9. ASSUME NEW i \in DOMAIN roles, doc' = [doc EXCEPT !.roles = Seqs!RemoveAt(@, i)]
      PROVE  doc' \in Config
  <2>1. Seqs!RemoveAt(roles, i) \in Seq(Role)
    BY <1>4, RemovedTyped
  <2>2. doc' = [doc EXCEPT !.roles = Seqs!RemoveAt(roles, i)]
    BY <1>9 DEF Config
  <2> QED
    BY <1>3, <2>1, <2>2
<1> QED
  BY <1>5, <1>6, <1>7, <1>8, <1>9 DEF Edit

\* The invariant holds of every document and is kept by every step.
THEOREM DeclarationInvariant == Spec => []DeclInv
<1>1. Init => DeclInv
  BY DocumentsAssumption DEF Init, DeclInv
<1>2. DeclInv /\ [Next]_vars => DeclInv'
  <2> SUFFICES ASSUME DeclInv, [Next]_vars PROVE DeclInv'
    OBVIOUS
  <2>1. CASE Load
    <3>1. doc' = doc /\ stage' \in {"accepted", "rejected"} /\ major' = 0
      BY <2>1 DEF Load
    <3>2. stage' = "accepted" => Accepted(doc', cfg')
      BY <2>1, <3>1 DEF Load, Accepted
    <3> QED
      BY <3>1, <3>2 DEF DeclInv
  <2>2. CASE Render
    <3>1. Accepted(doc, cfg) /\ doc' = cfg /\ cfg' = cfg /\ stage' = "rendered" /\ major' = 0
      BY <2>2 DEF Render, DeclInv
    <3>2. cfg \in Config /\ Settled(cfg)
      BY <3>1, AcceptedSettled DEF DeclInv
    <3> QED
      BY <3>1, <3>2 DEF DeclInv
  <2>3. CASE CheckServer
    <3>1. Accepted(doc, cfg) /\ doc' = doc /\ cfg' = cfg
      BY <2>3 DEF CheckServer, DeclInv
    <3>2. /\ stage' \in {"planning", "refused"}
          /\ stage' = "planning" => major' \in Nat /\ CheckServerMajor(cfg, major')
      BY <2>3, MajorsAssumption DEF CheckServer
    <3> QED
      BY <3>1, <3>2 DEF DeclInv
  <2>4. CASE Edit
    <3>1. doc' \in Config
      BY <2>4, EditTyped DEF DeclInv
    <3>2. stage' = "edited"
      BY <2>4 DEF Edit
    <3> QED
      BY <3>1, <3>2 DEF DeclInv
  <2>5. CASE UNCHANGED vars
    BY <2>5 DEF vars, DeclInv
  <2> QED
    BY <2>1, <2>2, <2>3, <2>4, <2>5 DEF Next
<1> QED
  BY <1>1, <1>2, PTL DEF Spec
----------------------------------------------------------------------------
(* Versions.                                                               *)

\* No plan is made that names a privilege the server does not know: what Build
\* checks against the server includes what expandCreators derived.
THEOREM AlwaysServerKnows == Spec => []ServerKnowsPrivileges
<1>1. DeclInv => ServerKnowsPrivileges
  <2> SUFFICES ASSUME DeclInv, stage = "planning", NEW r \in Seqs!ToSet(cfg.roles),
                      NEW e \in Seqs!ToSet(r.grants) \cup Seqs!ToSet(r.default_privileges),
                      "MAINTAIN" \in Seqs!ToSet(e.privileges)
               PROVE  major >= 17
    BY DEF ServerKnowsPrivileges
  <2>1. CheckServerMajor(cfg, major)
    BY DEF DeclInv
  <2>2. "MAINTAIN" \in usedPrivileges(cfg)
    BY DEF usedPrivileges
  <2>3. PrivilegeMinMajor("MAINTAIN") <= major
    BY <2>1, <2>2 DEF CheckServerMajor
  <2> QED
    BY <2>3 DEF PrivilegeMinMajor, DeclInv
<1> QED
  BY <1>1, DeclarationInvariant, PTL

\* Validate has looked at every privilege that Build will look at.
LEMMA UsedChecked ==
  ASSUME NEW c \in Config, Valid(c), NEW p \in usedPrivileges(c)
  PROVE  \E kind, privs : p \in Seqs!ToSet(privs) /\ checkPrivileges(c, kind, privs)
<1>1. PICK r \in Seqs!ToSet(c.roles) :
        \E x \in Seqs!ToSet(r.grants) \cup Seqs!ToSet(r.default_privileges) :
          p \in Seqs!ToSet(x.privileges)
  BY DEF usedPrivileges
<1>2. PICK x \in Seqs!ToSet(r.grants) \cup Seqs!ToSet(r.default_privileges) :
        p \in Seqs!ToSet(x.privileges)
  BY <1>1
<1>3. PICK i \in DOMAIN c.roles : r = c.roles[i]
  BY DEF Seqs!ToSet
<1>4. CASE x \in Seqs!ToSet(r.grants)
  BY <1>2, <1>3, <1>4, GrantRules DEF Valid
<1>5. CASE x \in Seqs!ToSet(r.default_privileges)
  BY <1>2, <1>3, <1>5, ExplicitOk DEF Valid, EntryOk
<1> QED
  BY <1>4, <1>5

\* With a version declared, a server of that version is never refused: what
\* Validate did without a connection leaves nothing for CheckServerMajor to
\* object to, in what was derived as little as in what was written.
THEOREM AlwaysPinnedAccepted == Spec => PinnedServerAccepted
<1>1. DeclInv /\ [Next]_vars =>
        [stage = "accepted" /\ major' # 0 /\ major' = cfg.target.postgres_version
           => stage' = "planning"]_vars
  <2> SUFFICES ASSUME DeclInv, Next, stage = "accepted", major' # 0,
                      major' = cfg.target.postgres_version
               PROVE  stage' = "planning"
    OBVIOUS
  <2>1. CheckServer
    BY DEF Next, Load, Render, Edit, DeclInv
  <2>2. PICK m \in Majors :
          major' = m /\ stage' = IF CheckServerMajor(cfg, m) THEN "planning" ELSE "refused"
    BY <2>1 DEF CheckServer
  <2>3. cfg \in Config /\ Valid(cfg)
    BY AcceptedSettled DEF DeclInv, Settled
  <2>4. m \in Nat /\ m # 0 /\ m = cfg.target.postgres_version
    BY <2>2, MajorsAssumption
  <2>5. m >= MinMajor
    <3>1. m \in SupportedMajors
      BY <2>3, <2>4 DEF Valid, HeaderOk
    <3> QED
      BY <2>4, <3>1 DEF SupportedMajors, MinMajor
  <2>6. ASSUME NEW p \in usedPrivileges(cfg)
        PROVE  PrivilegeMinMajor(p) <= m
    <3>1. PICK kind, privs : p \in Seqs!ToSet(privs) /\ checkPrivileges(cfg, kind, privs)
      BY <2>3, UsedChecked
    <3> QED
      BY <2>4, <3>1 DEF checkPrivileges
  <2>7. CheckServerMajor(cfg, m)
    BY <2>4, <2>5, <2>6 DEF CheckServerMajor
  <2> QED
    BY <2>2, <2>7
<1> QED
  BY <1>1, DeclarationInvariant, PTL DEF Spec, PinnedServerAccepted

----------------------------------------------------------------------------
(* render.                                                                 *)

\* What render prints, kept as the declaration, is accepted and loads to
\* itself: the policy is complete, and nothing is derived from what was expanded
\* that is not there.
THEOREM AlwaysLoadsBack == Spec => RenderedLoadsBack
<1>1. DeclInv /\ [Next]_vars =>
        [stage = "rendered" /\ stage' # "edited" => stage' = "accepted" /\ cfg' = cfg]_vars
  <2> SUFFICES ASSUME DeclInv, Next, stage = "rendered", stage' # "edited"
               PROVE  stage' = "accepted" /\ cfg' = cfg
    OBVIOUS
  <2>1. Load
    BY DEF Next, Render, CheckServer, Edit
  <2>2. doc = cfg /\ Settled(doc)
    BY DEF DeclInv
  <2> QED
    BY <2>1, <2>2 DEF Load, Settled
<1> QED
  BY <1>1, DeclarationInvariant, PTL DEF Spec, RenderedLoadsBack
----------------------------------------------------------------------------
(* What the planner is given, entry by entry.                              *)

IsWideKind(k) == k \in {"all_tables_in_schema", "all_sequences_in_schema"}
At(g) == g.on[Kind(g.on)]
WideEntry(r, g, p) == <<At(g)[1], At(g)[2], KindNumber[Kind(g.on)], r.name, p>>
DefaultEntry(name, d, p) ==
  <<d.in_schema[1], d.in_schema[2], d.for_role, KindNumber[d.on], name, p>>
CreateEntry(q, s) == <<q.name, s[1], s[2]>>

LEMMA GrantedEntries ==
  ASSUME NEW c, NEW x
  PROVE  x \in UNION {Granted(r) : r \in Seqs!ToSet(c.roles)} <=>
           \E r \in Seqs!ToSet(c.roles) : \E g \in Seqs!ToSet(r.grants) :
             \E p \in Seqs!ToSet(g.privileges) : x = <<r.name, Kind(g.on), At(g), p>>
BY DEF Granted, At

LEMMA WideEntries ==
  ASSUME NEW c, NEW x
  PROVE  x \in DeclOf(c).wide <=>
           \E r \in Seqs!ToSet(c.roles) : \E g \in Seqs!ToSet(r.grants) :
             \E p \in Seqs!ToSet(g.privileges) : IsWideKind(Kind(g.on)) /\ x = WideEntry(r, g, p)
<1> DEFINE grants == UNION {Granted(r) : r \in Seqs!ToSet(c.roles)}
<1>1. DeclOf(c).wide = {<<g[3][1], g[3][2], KindNumber[g[2]], g[1], g[4]>> :
                          g \in {h \in grants : IsWide(h)}}
  BY DEF DeclOf
<1>2. \A g : g \in grants <=>
        \E r \in Seqs!ToSet(c.roles) : \E h \in Seqs!ToSet(r.grants) :
          \E p \in Seqs!ToSet(h.privileges) : g = <<r.name, Kind(h.on), At(h), p>>
  BY GrantedEntries
<1> HIDE DEF grants
<1>3. ASSUME x \in DeclOf(c).wide
      PROVE  \E r \in Seqs!ToSet(c.roles) : \E g \in Seqs!ToSet(r.grants) :
               \E p \in Seqs!ToSet(g.privileges) : IsWideKind(Kind(g.on)) /\ x = WideEntry(r, g, p)
  <2>1. PICK y \in grants : IsWide(y) /\ x = <<y[3][1], y[3][2], KindNumber[y[2]], y[1], y[4]>>
    BY <1>1, <1>3
  <2>2. PICK r \in Seqs!ToSet(c.roles) : \E g \in Seqs!ToSet(r.grants) :
          \E p \in Seqs!ToSet(g.privileges) : y = <<r.name, Kind(g.on), At(g), p>>
    BY <1>2
  <2>3. PICK g, p : /\ g \in Seqs!ToSet(r.grants) /\ p \in Seqs!ToSet(g.privileges)
                    /\ y = <<r.name, Kind(g.on), At(g), p>>
    BY <2>2
  <2> QED
    BY <2>1, <2>3 DEF IsWide, IsWideKind, WideEntry
<1>4. ASSUME NEW r \in Seqs!ToSet(c.roles), NEW g \in Seqs!ToSet(r.grants),
             NEW p \in Seqs!ToSet(g.privileges), IsWideKind(Kind(g.on)), x = WideEntry(r, g, p)
      PROVE  x \in DeclOf(c).wide
  <2> DEFINE y == <<r.name, Kind(g.on), At(g), p>>
  <2>1. y \in grants /\ IsWide(y)
    BY <1>2, <1>4 DEF IsWide, IsWideKind
  <2>2. x = <<y[3][1], y[3][2], KindNumber[y[2]], y[1], y[4]>>
    BY <1>4 DEF WideEntry
  <2> HIDE DEF y
  <2> QED
    BY <1>1, <2>1, <2>2
<1> QED
  BY <1>3, <1>4

LEMMA DefaultEntries ==
  ASSUME NEW c, NEW x
  PROVE  x \in DeclOf(c).defaults <=>
           \E r \in Seqs!ToSet(c.roles) : \E d \in Seqs!ToSet(r.default_privileges) :
             \E p \in Seqs!ToSet(d.privileges) : x = DefaultEntry(r.name, d, p)
<1>1. DeclOf(c).defaults = UNION {Defaulted(r) : r \in Seqs!ToSet(c.roles)}
  BY DEF DeclOf
<1> QED
  BY <1>1 DEF Defaulted, DefaultEntry

LEMMA CreateEntries ==
  ASSUME NEW c, NEW x
  PROVE  x \in DeclOf(c).creates <=>
           \E q \in Seqs!ToSet(c.roles) : \E s \in Seqs!ToSet(q.creates_objects_in) :
             x = CreateEntry(q, s)
<1>1. DeclOf(c).creates =
        UNION {{<<r.name, s[1], s[2]>> : s \in Seqs!ToSet(r.creates_objects_in)} :
               r \in Seqs!ToSet(c.roles)}
  BY DEF DeclOf
<1> QED
  BY <1>1 DEF CreateEntry

\* Default privileges as expandCreators adds them, and as the planner's rule
\* derives them.
LEMMA DerivesTheSame ==
  ASSUME NEW c \in Config, Valid(c), NEW x
  PROVE  x \in DeclOf(normalized(c)).defaults <=>
           \/ x \in DeclOf(c).defaults
           \/ \E w \in DeclOf(c).wide : \E k \in DeclOf(c).creates :
                k[2] = w[1] /\ k[3] = w[2] /\ x = <<w[1], w[2], k[1], w[3], w[4], w[5]>>
<1> DEFINE n == normalized(c)
<1>0. rolesOk(c) /\ grantsOk(c) /\ defaultPrivilegesOk(c) /\ NoConflict(c)
  BY DEF Valid
<1>1. /\ DOMAIN n.roles = DOMAIN c.roles
      /\ \A i \in DOMAIN c.roles :
           /\ n.roles[i].name = c.roles[i].name
           /\ Seqs!ToSet(n.roles[i].default_privileges) = AllDefaults(c, c.roles[i])
  <2>1. ASSUME NEW i \in DOMAIN c.roles
        PROVE  Seqs!ToSet(expanded(c, c.roles[i])) = AllDefaults(c, c.roles[i])
    BY <1>0, ExpandedList
  <2> QED
    BY <2>1, NormalizedFields
<1>2. /\ \A q : q \in Seqs!ToSet(c.roles) <=> \E i \in DOMAIN c.roles : q = c.roles[i]
      /\ \A q : q \in Seqs!ToSet(n.roles) <=> \E i \in DOMAIN n.roles : q = n.roles[i]
  BY DEF Seqs!ToSet
<1> HIDE DEF n
<1>3. x \in DeclOf(n).defaults <=>
        \E i \in DOMAIN c.roles : \E d \in AllDefaults(c, c.roles[i]) :
          \E p \in Seqs!ToSet(d.privileges) : x = DefaultEntry(c.roles[i].name, d, p)
  <2>1. x \in DeclOf(n).defaults <=>
          \E r \in Seqs!ToSet(n.roles) : \E d \in Seqs!ToSet(r.default_privileges) :
            \E p \in Seqs!ToSet(d.privileges) : x = DefaultEntry(r.name, d, p)
    BY DefaultEntries
  <2> DEFINE In(r) == \E d \in Seqs!ToSet(r.default_privileges) :
                        \E p \in Seqs!ToSet(d.privileges) : x = DefaultEntry(r.name, d, p)
  <2>2. ASSUME NEW i \in DOMAIN c.roles
        PROVE  In(n.roles[i]) <=>
                 \E d \in AllDefaults(c, c.roles[i]) : \E p \in Seqs!ToSet(d.privileges) :
                   x = DefaultEntry(c.roles[i].name, d, p)
    <3>1. /\ n.roles[i].name = c.roles[i].name
          /\ Seqs!ToSet(n.roles[i].default_privileges) = AllDefaults(c, c.roles[i])
      BY <1>1
    <3> QED
      BY <3>1
  <2>3. x \in DeclOf(n).defaults <=> \E r \in Seqs!ToSet(n.roles) : In(r)
    BY <2>1
  <2> HIDE DEF In
  <2>4. x \in DeclOf(n).defaults <=> \E i \in DOMAIN c.roles : In(n.roles[i])
    BY <1>1, <1>2, <2>3
  <2> QED
    BY <2>2, <2>4
<1>4. ASSUME NEW i \in DOMAIN c.roles, NEW d \in AllDefaults(c, c.roles[i]),
             NEW p \in Seqs!ToSet(d.privileges), x = DefaultEntry(c.roles[i].name, d, p)
      PROVE  \/ x \in DeclOf(c).defaults
             \/ \E w \in DeclOf(c).wide : \E k \in DeclOf(c).creates :
                  k[2] = w[1] /\ k[3] = w[2] /\ x = <<w[1], w[2], k[1], w[3], w[4], w[5]>>
  <2> DEFINE r == c.roles[i]
  <2>1. r \in Seqs!ToSet(c.roles)
    BY <1>2
  <2>2. CASE d \in Seqs!ToSet(r.default_privileges)
    BY <1>4, <2>1, <2>2, DefaultEntries
  <2>3. CASE d \in DerivedFor(c, r)
    <3>1. PICK o \in {"tables", "sequences"}, g \in Seqs!ToSet(r.grants), q \in Seqs!ToSet(c.roles) :
            Creates(q, g.on[Wide[o]]) /\ d = DefaultFor(q, g, o)
      BY <2>3, DerivedShape
    <3>2. Kind(g.on) = Wide[o]
      BY <3>1, DerivedFromWide DEF Valid
    <3>3. IsWideKind(Kind(g.on)) /\ KindNumber[Wide[o]] = KindNumber[o]
      BY <3>2 DEF IsWideKind, Wide, KindNumber
    <3>4. /\ d.in_schema = At(g) /\ d.for_role = q.name /\ d.on = o
          /\ p \in Seqs!ToSet(g.privileges)
      BY <3>1, <3>2 DEF DefaultFor, At
    <3> DEFINE w == WideEntry(r, g, p)
               k == CreateEntry(q, At(g))
    <3>5. w \in DeclOf(c).wide
      BY <2>1, <3>3, <3>4, WideEntries
    <3>6. k \in DeclOf(c).creates
      BY <3>1, <3>2, CreateEntries DEF Creates, At
    <3>7. k[2] = w[1] /\ k[3] = w[2] /\ x = <<w[1], w[2], k[1], w[3], w[4], w[5]>>
      BY <1>4, <3>2, <3>3, <3>4 DEF WideEntry, CreateEntry, DefaultEntry
    <3> QED
      BY <3>5, <3>6, <3>7
  <2> QED
    BY <2>2, <2>3 DEF AllDefaults
<1>5. ASSUME x \in DeclOf(c).defaults
      PROVE  x \in DeclOf(n).defaults
  <2>1. PICK r \in Seqs!ToSet(c.roles) : \E d \in Seqs!ToSet(r.default_privileges) :
          \E p \in Seqs!ToSet(d.privileges) : x = DefaultEntry(r.name, d, p)
    BY <1>5, DefaultEntries
  <2>2. PICK i \in DOMAIN c.roles : r = c.roles[i]
    BY <1>2
  <2>3. Seqs!ToSet(r.default_privileges) \subseteq AllDefaults(c, r)
    BY DEF AllDefaults
  <2> QED
    BY <1>3, <2>1, <2>2, <2>3
<1>6. ASSUME NEW w \in DeclOf(c).wide, NEW k \in DeclOf(c).creates,
             k[2] = w[1], k[3] = w[2], x = <<w[1], w[2], k[1], w[3], w[4], w[5]>>
      PROVE  x \in DeclOf(n).defaults
  <2>1. PICK r \in Seqs!ToSet(c.roles) : \E g \in Seqs!ToSet(r.grants) :
          \E p \in Seqs!ToSet(g.privileges) : IsWideKind(Kind(g.on)) /\ w = WideEntry(r, g, p)
    BY WideEntries
  <2>2. PICK g, p : /\ g \in Seqs!ToSet(r.grants) /\ p \in Seqs!ToSet(g.privileges)
                    /\ IsWideKind(Kind(g.on)) /\ w = WideEntry(r, g, p)
    BY <2>1
  <2>3. PICK q, s : /\ q \in Seqs!ToSet(c.roles) /\ s \in Seqs!ToSet(q.creates_objects_in)
                    /\ k = CreateEntry(q, s)
    BY CreateEntries
  <2>4. PICK i \in DOMAIN c.roles : r = c.roles[i]
    BY <1>2
  <2>5. PICK o \in {"tables", "sequences"} : Kind(g.on) = Wide[o]
    BY <2>2 DEF IsWideKind, Wide
  <2>6. s = At(g)
    <3>1. s \in Seq(STRING) /\ Len(s) = 2
      BY <1>0, <2>3, CreatorRules DEF ParseSchema
    <3>2. g \in RoleGrant /\ IdentifierOk(g.on)
      BY <1>0, <2>2, <2>4, GrantRules
    <3>3. ParseSchema(At(g))
      BY <2>2, <3>2 DEF IdentifierOk, IsWideKind, At
    <3>4. At(g) \in Seq(STRING)
      BY <3>2, OnlyKey DEF RoleGrant, GrantTarget, At
    <3>5. Len(At(g)) = 2
      BY <3>3 DEF ParseSchema
    <3>6. s[1] = At(g)[1] /\ s[2] = At(g)[2]
      BY <1>6, <2>2, <2>3 DEF WideEntry, CreateEntry
    <3> QED
      BY <3>1, <3>4, <3>5, <3>6
  <2> DEFINE d == DefaultFor(q, g, o)
             E == Seqs!ToSet(r.default_privileges)
  <2>7. d \in DerivedFor(c, r)
    <3>1. Creates(q, g.on[Wide[o]])
      BY <2>3, <2>5, <2>6 DEF Creates, At
    <3> QED
      BY <2>2, <2>3, <3>1, DerivedShape
  <2>8. /\ d.in_schema = At(g) /\ d.for_role = q.name /\ d.on = o /\ d.privileges = g.privileges
        /\ KindNumber[Kind(g.on)] = KindNumber[o]
    BY <2>5 DEF DefaultFor, At, Wide, KindNumber
  <2>9. x = DefaultEntry(r.name, d, p)
    BY <1>6, <2>2, <2>3, <2>6, <2>8 DEF DefaultEntry, WideEntry, CreateEntry
  <2> HIDE DEF d
  <2>10. CASE \A e \in E : dpKey(e) # dpKey(d)
    <3>1. d \in AllDefaults(c, r)
      BY <2>7, <2>10 DEF AllDefaults
    <3> QED
      BY <1>3, <2>2, <2>4, <2>8, <2>9, <3>1
  <2>11. ASSUME NEW e \in E, dpKey(e) = dpKey(d)
         PROVE  x \in DeclOf(n).defaults
    <3>1. samePrivileges(e.privileges, d.privileges)
      BY <2>4, <2>7, <2>11 DEF Valid, NoConflict
    <3>2. p \in Seqs!ToSet(e.privileges)
      BY <2>2, <2>8, <3>1 DEF samePrivileges
    <3>3. x = DefaultEntry(r.name, e, p)
      BY <2>9, <2>11 DEF DefaultEntry, dpKey
    <3>4. e \in AllDefaults(c, r)
      BY DEF AllDefaults
    <3> QED
      BY <1>3, <2>4, <3>2, <3>3, <3>4
  <2> QED
    BY <2>10, <2>11
<1> QED
  BY <1>3, <1>4, <1>5, <1>6 DEF n
LEMMA PlannersRule ==
  ASSUME NEW x
  PROVE  LET D == DeclOf(applyDefaults(doc)) IN
         x \in Written!DesiredDefaults <=>
           \/ x \in D.defaults
           \/ \E w \in D.wide : \E k \in D.creates :
                k[2] = w[1] /\ k[3] = w[2] /\ x = <<w[1], w[2], k[1], w[3], w[4], w[5]>>
<1> DEFINE D == DeclOf(applyDefaults(doc))
<1>1. Written!DesiredDefaults = D.defaults \cup Written!Derived
  BY DEF Written!DesiredDefaults
<1>2. Written!Derived =
        UNION {{<<w[1], w[2], k[1], w[3], w[4], w[5]>> :
                  k \in {d \in D.creates : <<d[2], d[3]>> = <<w[1], w[2]>>}} : w \in D.wide}
  BY DEF Written!Derived
<1> HIDE DEF D
<1>3. x \in Written!Derived <=>
        \E w \in D.wide : \E k \in D.creates :
          k[2] = w[1] /\ k[3] = w[2] /\ x = <<w[1], w[2], k[1], w[3], w[4], w[5]>>
  BY <1>2
<1> QED
  BY <1>1, <1>3 DEF D

\* creates_objects_in means the same to the validator, which expands it entry by
\* entry and leaves alone what is written out, and to the planner's rule, for
\* every document that is accepted.
THEOREM AlwaysDerivesTheSame == Spec => []PlannerDerivesTheSame
<1>1. DeclInv => PlannerDerivesTheSame
  <2> SUFFICES ASSUME DeclInv, stage \in {"accepted", "planning"}
               PROVE  DeclOf(cfg).defaults = Written!DesiredDefaults
    BY DEF PlannerDerivesTheSame
  <2> DEFINE c == applyDefaults(doc)
  <2>1. c \in Config /\ Valid(c) /\ cfg = normalized(c)
    BY DefaultsApplied DEF DeclInv, Accepted
  <2>2. ASSUME NEW x
        PROVE  x \in DeclOf(cfg).defaults <=> x \in Written!DesiredDefaults
    <3>1. x \in DeclOf(cfg).defaults <=>
            \/ x \in DeclOf(c).defaults
            \/ \E w \in DeclOf(c).wide : \E k \in DeclOf(c).creates :
                 k[2] = w[1] /\ k[3] = w[2] /\ x = <<w[1], w[2], k[1], w[3], w[4], w[5]>>
      BY <2>1, DerivesTheSame
    <3> QED
      BY <3>1, PlannersRule
  <2> QED
    BY <2>2
<1> QED
  BY <1>1, DeclarationInvariant, PTL
----------------------------------------------------------------------------
(* What the planner takes for granted.                                     *)

GrantEntry(r, g, p) == <<ObjectAt(Kind(g.on), At(g)), r.name, p>>

LEMMA GrantEntries ==
  ASSUME NEW c, NEW x \in DeclOf(c).grants
  PROVE  \E r \in Seqs!ToSet(c.roles) : \E g \in Seqs!ToSet(r.grants) :
           \E p \in Seqs!ToSet(g.privileges) : ~IsWideKind(Kind(g.on)) /\ x = GrantEntry(r, g, p)
<1> DEFINE grants == UNION {Granted(r) : r \in Seqs!ToSet(c.roles)}
<1>1. DeclOf(c).grants = {<<ObjectAt(g[2], g[3]), g[1], g[4]>> : g \in {h \in grants : ~IsWide(h)}}
  BY DEF DeclOf
<1>2. \A g \in grants :
        \E r \in Seqs!ToSet(c.roles) : \E h \in Seqs!ToSet(r.grants) :
          \E p \in Seqs!ToSet(h.privileges) : g = <<r.name, Kind(h.on), At(h), p>>
  BY GrantedEntries
<1> HIDE DEF grants
<1>3. PICK y \in grants : ~IsWide(y) /\ x = <<ObjectAt(y[2], y[3]), y[1], y[4]>>
  BY <1>1
<1>4. PICK r \in Seqs!ToSet(c.roles) : \E g \in Seqs!ToSet(r.grants) :
        \E p \in Seqs!ToSet(g.privileges) : y = <<r.name, Kind(g.on), At(g), p>>
  BY <1>2
<1>5. PICK g, p : /\ g \in Seqs!ToSet(r.grants) /\ p \in Seqs!ToSet(g.privileges)
                  /\ y = <<r.name, Kind(g.on), At(g), p>>
  BY <1>4
<1>6. ~IsWideKind(Kind(g.on)) /\ x = GrantEntry(r, g, p)
  BY <1>3, <1>5 DEF IsWide, IsWideKind, GrantEntry
<1> QED
  BY <1>5, <1>6

\* The number of a kind is that of a database only for a database, and a
\* schema-wide grant is on relations.
LEMMA KindsNumbered ==
  ASSUME NEW k \in TargetKinds
  PROVE  /\ \A at : ObjectAt(k, at)[1] = at[1]
         /\ \A at : ObjectAt(k, at)[2] = Written!DatabaseKind => k = "database"
         /\ IsWideKind(k) => KindNumber[k] \in Written!RelationKinds
<1>1. \A at : ObjectAt(k, at)[1] = at[1] /\ ObjectAt(k, at)[2] = KindNumber[k]
  BY DEF ObjectAt
<1>2. KindNumber[k] = Written!DatabaseKind => k = "database"
  BY DEF TargetKinds, KindNumber, Written!DatabaseKind
<1>3. IsWideKind(k) => KindNumber[k] \in Written!RelationKinds
  BY DEF IsWideKind, KindNumber, Written!RelationKinds, Written!TableKind, Written!SequenceKind
<1> QED
  BY <1>1, <1>2, <1>3

LEMMA RoleRules ==
  ASSUME NEW c \in Config, HeaderOk(c), rolesOk(c), NEW r \in Seqs!ToSet(c.roles)
  PROVE  /\ r.name \in Names(c) /\ r.login \in BOOLEAN
         /\ \A m \in r.member_of : MembershipOk(c, r, m)
         /\ r.iam_principals # {} => c.target.engine = EngineDSQL /\ r.login
<1>1. PICK i \in DOMAIN c.roles : r = c.roles[i]
  BY DEF Seqs!ToSet
<1>2. r \in Role
  BY <1>1, RolesTyped
<1>3. \A m \in r.member_of : MembershipOk(c, r, m)
  BY <1>1 DEF rolesOk
<1>4. r.iam_principals # {} => c.target.engine # EngineAuroraPostgres /\ r.login
  BY <1>1 DEF rolesOk
<1>5. c.target.engine \in {EngineAuroraPostgres, EngineDSQL}
  BY DEF HeaderOk
<1>6. r.name \in Names(c)
  BY <1>1 DEF Names
<1> QED
  BY <1>2, <1>3, <1>4, <1>5, <1>6 DEF Role

LEMMA ReliableDecl ==
  ASSUME NEW c \in Config, Valid(c), c = applyDefaults(doc), c.target = doc.target,
         RdsIam \notin Names(c)
  PROVE  Written!ValidDecl
<1> DEFINE D == DeclOf(c)
           engine == doc.target.engine
<1>1. HeaderOk(c) /\ rolesOk(c) /\ grantsOk(c) /\ defaultPrivilegesOk(c)
  BY DEF Valid
<1>2. /\ D.roles = [i \in DOMAIN c.roles |-> c.roles[i].name]
      /\ D.login = {r.name : r \in {q \in Seqs!ToSet(c.roles) : q.login}}
      /\ D.memberOf = UNION {{<<r.name, m>> : m \in r.member_of} : r \in Seqs!ToSet(c.roles)}
      /\ D.iam = UNION {{<<r.name, a>> : a \in r.iam_principals} : r \in Seqs!ToSet(c.roles)}
      /\ D.unmanaged = Matched(c.policy.unmanaged)
  BY DEF DeclOf
<1>3. \A x \in D.grants : \E r \in Seqs!ToSet(c.roles) : \E g \in Seqs!ToSet(r.grants) :
        \E p \in Seqs!ToSet(g.privileges) : ~IsWideKind(Kind(g.on)) /\ x = GrantEntry(r, g, p)
  BY GrantEntries
<1>4. \A x \in D.wide : \E r \in Seqs!ToSet(c.roles) : \E g \in Seqs!ToSet(r.grants) :
        \E p \in Seqs!ToSet(g.privileges) : IsWideKind(Kind(g.on)) /\ x = WideEntry(r, g, p)
  BY WideEntries
<1>5. \A x \in D.creates : \E q \in Seqs!ToSet(c.roles) :
        \E s \in Seqs!ToSet(q.creates_objects_in) : x = CreateEntry(q, s)
  BY CreateEntries
<1>6. \A x \in D.defaults : \E r \in Seqs!ToSet(c.roles) :
        \E d \in Seqs!ToSet(r.default_privileges) :
          \E p \in Seqs!ToSet(d.privileges) : x = DefaultEntry(r.name, d, p)
  BY DefaultEntries
<1>7. D = DeclOf(applyDefaults(doc))
  OBVIOUS
<1>8. \A r \in Seqs!ToSet(c.roles) :
        /\ r.name \in Names(c) /\ r.login \in BOOLEAN
        /\ \A m \in r.member_of : MembershipOk(c, r, m)
        /\ r.iam_principals # {} => c.target.engine = EngineDSQL /\ r.login
        /\ \E i \in DOMAIN c.roles : r = c.roles[i]
  <2>1. \A r \in Seqs!ToSet(c.roles) : \E i \in DOMAIN c.roles : r = c.roles[i]
    BY DEF Seqs!ToSet
  <2> QED
    BY <1>1, <2>1, RoleRules
<1> HIDE DEF D
<1>9. Written!Managed = Names(c)
  BY <1>2, <1>7 DEF Written!Managed, Names
<1>10. \A i, j \in DOMAIN D.roles : D.roles[i] = D.roles[j] => i = j
  BY <1>1, <1>2 DEF rolesOk, Distinct, Seqs!IsInjective
<1>11. D.login \subseteq Names(c)
  BY <1>2, <1>8
<1>12. ASSUME NEW m \in D.memberOf
       PROVE  m[1] \in Names(c) /\ m[1] # m[2]
  <2>1. PICK r \in Seqs!ToSet(c.roles) : \E x \in r.member_of : m = <<r.name, x>>
    BY <1>2
  <2>2. PICK x \in r.member_of : m = <<r.name, x>>
    BY <2>1
  <2>3. MembershipOk(c, r, x) /\ r.name \in Names(c)
    BY <1>8
  <2> QED
    BY <2>2, <2>3 DEF MembershipOk
<1>13. ASSUME NEW m \in D.iam
       PROVE  engine = EngineDSQL /\ m[1] \in D.login
  <2>1. PICK r \in Seqs!ToSet(c.roles) : \E x \in r.iam_principals : m = <<r.name, x>>
    BY <1>2
  <2>2. c.target.engine = EngineDSQL /\ r.login
    BY <1>8, <2>1
  <2>3. r.name \in D.login
    BY <1>2, <2>2
  <2> QED
    BY <2>1, <2>2, <2>3
<1>14. ASSUME NEW x \in D.grants
       PROVE  /\ x[2] \in Names(c) /\ x[1][1] \notin D.unmanaged
              /\ x[1][2] = Written!DatabaseKind => engine # EngineDSQL
  <2>1. PICK r \in Seqs!ToSet(c.roles) : \E g \in Seqs!ToSet(r.grants) :
          \E p \in Seqs!ToSet(g.privileges) : x = GrantEntry(r, g, p)
    BY <1>3
  <2>2. PICK g, p : g \in Seqs!ToSet(r.grants) /\ x = GrantEntry(r, g, p)
    BY <2>1
  <2>3. PICK i \in DOMAIN c.roles : r = c.roles[i]
    BY <1>8
  <2>4. /\ g \in RoleGrant /\ IdentifierOk(g.on)
        /\ At(g)[1] \notin Matched(c.policy.unmanaged)
        /\ checkDSQLDatabase(c, Kind(g.on), At(g)[1])
    BY <1>1, <2>2, <2>3, GrantRules DEF At
  <2>5. Kind(g.on) \in TargetKinds
    BY <2>4, OnlyKey DEF RoleGrant
  <2>6. x[1] = ObjectAt(Kind(g.on), At(g)) /\ x[2] = r.name
    BY <2>2 DEF GrantEntry
  <2>7. x[1][1] = At(g)[1] /\ (x[1][2] = Written!DatabaseKind => Kind(g.on) = "database")
    BY <2>5, <2>6, KindsNumbered
  <2> QED
    BY <1>2, <1>8, <2>4, <2>6, <2>7 DEF checkDSQLDatabase
<1>15. ASSUME NEW x \in D.wide
       PROVE  x[3] \in Written!RelationKinds /\ x[4] \in Names(c) /\ x[1] \notin D.unmanaged
  <2>1. PICK r \in Seqs!ToSet(c.roles) : \E g \in Seqs!ToSet(r.grants) :
          \E p \in Seqs!ToSet(g.privileges) : IsWideKind(Kind(g.on)) /\ x = WideEntry(r, g, p)
    BY <1>4
  <2>2. PICK g, p : g \in Seqs!ToSet(r.grants) /\ IsWideKind(Kind(g.on)) /\ x = WideEntry(r, g, p)
    BY <2>1
  <2>3. PICK i \in DOMAIN c.roles : r = c.roles[i]
    BY <1>8
  <2>4. At(g)[1] \notin Matched(c.policy.unmanaged)
    BY <1>1, <2>2, <2>3, GrantRules DEF At
  <2>5. x[1] = At(g)[1] /\ x[3] = KindNumber[Kind(g.on)] /\ x[4] = r.name
    BY <2>2 DEF WideEntry
  <2>6. KindNumber[Kind(g.on)] \in Written!RelationKinds
    BY <2>2, KindsNumbered DEF IsWideKind, TargetKinds
  <2> QED
    BY <1>2, <1>8, <2>4, <2>5, <2>6
<1>16. \A x \in D.creates : x[1] \in Names(c)
  BY <1>5, <1>8 DEF CreateEntry
<1>17. ASSUME NEW x \in D.defaults
       PROVE  x[3] \in Names(c) /\ x[5] \in Names(c)
  <2>1. PICK r \in Seqs!ToSet(c.roles) : \E d \in Seqs!ToSet(r.default_privileges) :
          \E p \in Seqs!ToSet(d.privileges) : x = DefaultEntry(r.name, d, p)
    BY <1>6
  <2>2. PICK d, p : d \in Seqs!ToSet(r.default_privileges) /\ x = DefaultEntry(r.name, d, p)
    BY <2>1
  <2>3. PICK i \in DOMAIN c.roles : r = c.roles[i]
    BY <1>8
  <2>4. d.for_role \in Names(c)
    BY <1>1, <2>2, <2>3, ExplicitOk DEF EntryOk
  <2> QED
    BY <1>8, <2>2, <2>4 DEF DefaultEntry
<1> QED
  BY <1>7, <1>9, <1>10, <1>11, <1>12, <1>13, <1>14, <1>15, <1>16, <1>17
  DEF Written!ValidDecl, Written!DatabaseGrants
LEMMA OneDatabase ==
  ASSUME NEW c \in Config, Valid(c), c = applyDefaults(doc), c.target.engine = EngineDSQL
  PROVE  Written!DatabasesNamed \subseteq {DSQLDatabase}
<1> DEFINE D == DeclOf(c)
<1>1. rolesOk(c) /\ grantsOk(c) /\ defaultPrivilegesOk(c)
  BY DEF Valid
<1>2. \A r \in Seqs!ToSet(c.roles) : \E i \in DOMAIN c.roles : r = c.roles[i]
  BY DEF Seqs!ToSet
<1>3. ASSUME NEW r \in Seqs!ToSet(c.roles), NEW g \in Seqs!ToSet(r.grants)
      PROVE  At(g)[1] = DSQLDatabase /\ Kind(g.on) \in TargetKinds
  <2>1. PICK i \in DOMAIN c.roles : r = c.roles[i]
    BY <1>2
  <2>2. checkDSQLDatabase(c, Kind(g.on), At(g)[1]) /\ g \in RoleGrant /\ IdentifierOk(g.on)
    BY <1>1, <2>1, GrantRules DEF At
  <2> QED
    BY <2>2, OnlyKey DEF checkDSQLDatabase, RoleGrant
<1>4. ASSUME NEW x \in D.wide
      PROVE  x[1] = DSQLDatabase
  <2>1. PICK r \in Seqs!ToSet(c.roles) : \E g \in Seqs!ToSet(r.grants) :
          \E p \in Seqs!ToSet(g.privileges) : IsWideKind(Kind(g.on)) /\ x = WideEntry(r, g, p)
    BY WideEntries
  <2>2. PICK g, p : g \in Seqs!ToSet(r.grants) /\ x = WideEntry(r, g, p)
    BY <2>1
  <2> QED
    BY <1>3, <2>2 DEF WideEntry
<1>5. ASSUME NEW x \in D.grants
      PROVE  x[1][1] = DSQLDatabase
  <2>1. PICK r \in Seqs!ToSet(c.roles) : \E g \in Seqs!ToSet(r.grants) :
          \E p \in Seqs!ToSet(g.privileges) : x = GrantEntry(r, g, p)
    BY GrantEntries
  <2>2. PICK g, p : g \in Seqs!ToSet(r.grants) /\ x = GrantEntry(r, g, p)
    BY <2>1
  <2>3. Kind(g.on) \in TargetKinds /\ x[1] = ObjectAt(Kind(g.on), At(g))
    BY <1>3, <2>2 DEF GrantEntry
  <2> QED
    BY <1>3, <2>2, <2>3, KindsNumbered
<1>6. ASSUME NEW x \in D.defaults
      PROVE  x[1] = DSQLDatabase
  <2>1. PICK r \in Seqs!ToSet(c.roles) : \E d \in Seqs!ToSet(r.default_privileges) :
          \E p \in Seqs!ToSet(d.privileges) : x = DefaultEntry(r.name, d, p)
    BY DefaultEntries
  <2>2. PICK d, p : d \in Seqs!ToSet(r.default_privileges) /\ x = DefaultEntry(r.name, d, p)
    BY <2>1
  <2>3. PICK i \in DOMAIN c.roles : r = c.roles[i]
    BY <1>2
  <2>4. checkDSQLDatabase(c, "schema", d.in_schema[1])
    BY <1>1, <2>2, <2>3, ExplicitOk DEF EntryOk
  <2> QED
    BY <2>2, <2>4 DEF checkDSQLDatabase, DefaultEntry
<1>7. D = DeclOf(applyDefaults(doc))
  OBVIOUS
<1> HIDE DEF D
<1>8. \A x \in Written!DesiredDefaults : x[1] = DSQLDatabase
  <2> SUFFICES ASSUME NEW x \in Written!DesiredDefaults PROVE x[1] = DSQLDatabase
    OBVIOUS
  <2>1. \/ x \in D.defaults
        \/ \E w \in D.wide : \E k \in D.creates : x = <<w[1], w[2], k[1], w[3], w[4], w[5]>>
    BY <1>7, PlannersRule
  <2> QED
    BY <1>4, <1>6, <2>1
<1>9. Written!SchemasNamed =
        {<<w[1], w[2]>> : w \in D.wide} \cup
        {<<d[1], d[2]>> : d \in Written!DesiredDefaults} \cup
        {<<g[1][1], g[1][3]>> : g \in {h \in D.grants : h[1][2] # Written!DatabaseKind}}
  BY <1>7 DEF Written!SchemasNamed
<1>10. \A s \in Written!SchemasNamed : s[1] = DSQLDatabase
  BY <1>4, <1>5, <1>8, <1>9
<1>11. Written!DatabasesNamed = {s[1] : s \in Written!SchemasNamed} \cup {g[1][1] : g \in D.grants}
  BY <1>7 DEF Written!DatabasesNamed
<1> QED
  BY <1>5, <1>10, <1>11

\* What is accepted is what the planner takes for granted, as long as no role
\* goes by the name of rds_iam: such a role, which the default policy protects
\* but a policy of one's own may not, may be declared a member of itself.
THEOREM ReliableUnlessRdsIam == Spec => [](RdsIam \notin Names(cfg) => PlannerCanRely)
<1>1. DeclInv => (RdsIam \notin Names(cfg) => PlannerCanRely)
  <2> SUFFICES ASSUME DeclInv, stage \in {"accepted", "planning"}, RdsIam \notin Names(cfg)
               PROVE  PlannerCanRely
    BY DEF PlannerCanRely
  <2> DEFINE c == applyDefaults(doc)
  <2>1. c \in Config /\ Valid(c) /\ c.target = doc.target /\ cfg = normalized(c)
    BY DefaultsApplied DEF DeclInv, Accepted
  <2>2. cfg \in Config /\ Valid(cfg)
    BY AcceptedSettled DEF DeclInv, Settled
  <2>3. Names(cfg) = Names(c) /\ cfg.target = c.target
    BY <2>1, SameNames, NormalizedFields
  <2> HIDE DEF c
  <2>4. Written!ValidDecl
    BY <2>1, <2>3, ReliableDecl DEF c
  <2>5. Names(cfg) \cap Matched(cfg.policy.protected) = {}
    BY <2>2 DEF Valid, rolesOk
  <2>6. ASSUME NEW r \in Seqs!ToSet(cfg.roles)
        PROVE  /\ r.member_of \subseteq Names(cfg) \cup {RdsIam}
               /\ RdsIam \in r.member_of => r.login /\ cfg.target.engine = EngineAuroraPostgres
               /\ \A g, h \in Seqs!ToSet(r.grants) : g.on = h.on => g = h
               /\ \A d, e \in Seqs!ToSet(r.default_privileges) : dpKey(d) = dpKey(e) => d = e
    <3>1. PICK i \in DOMAIN cfg.roles : r = cfg.roles[i]
      BY DEF Seqs!ToSet
    <3>2. \A m \in r.member_of : MembershipOk(cfg, r, m)
      BY <2>2, RoleRules DEF Valid
    <3>3. cfg.target.engine \in {EngineAuroraPostgres, EngineDSQL}
      BY <2>2 DEF Valid, HeaderOk
    <3>4. r.member_of \subseteq Names(cfg) \cup {RdsIam}
      BY <3>2 DEF MembershipOk
    <3>5. RdsIam \in r.member_of => r.login /\ cfg.target.engine = EngineAuroraPostgres
      BY <3>2, <3>3 DEF MembershipOk
    <3>6. \A g, h \in Seqs!ToSet(r.grants) : g.on = h.on => g = h
      BY <2>2, <3>1, GrantRules DEF Valid
    <3>7. \A d, e \in Seqs!ToSet(r.default_privileges) : dpKey(d) = dpKey(e) => d = e
      BY <2>2, <3>1, ExplicitOk DEF Valid
    <3> QED
      BY <3>4, <3>5, <3>6, <3>7
  <2>7. ASSUME cfg.target.engine = EngineDSQL
        PROVE  /\ Written!DatabasesNamed \subseteq {DSQLDatabase}
               /\ usedPrivileges(cfg) \subseteq dsqlPrivileges
    <3>1. Written!DatabasesNamed \subseteq {DSQLDatabase}
      BY <2>1, <2>3, <2>7, OneDatabase DEF c
    <3>2. ASSUME NEW p \in usedPrivileges(cfg)
          PROVE  p \in dsqlPrivileges
      <4>1. PICK kind, privs : p \in Seqs!ToSet(privs) /\ checkPrivileges(cfg, kind, privs)
        BY <2>2, UsedChecked
      <4> QED
        BY <2>7, <4>1 DEF checkPrivileges
    <3> QED
      BY <3>1, <3>2
  <2> QED
    BY <2>4, <2>5, <2>6, <2>7 DEF PlannerCanRely
<1> QED
  BY <1>1, DeclarationInvariant, PTL

\* The same, where no document calls a role rds_iam.
THEOREM AlwaysReliable ==
  ASSUME RdsIam \notin RoleNames
  PROVE  Spec => []PlannerCanRely
<1>1. DeclInv /\ (RdsIam \notin Names(cfg) => PlannerCanRely) => PlannerCanRely
  <2> SUFFICES ASSUME DeclInv, stage \in {"accepted", "planning"}
               PROVE  RdsIam \notin Names(cfg)
    BY DEF PlannerCanRely
  <2>1. Valid(cfg)
    BY AcceptedSettled DEF DeclInv, Settled
  <2> QED
    BY <2>1 DEF Valid, rolesOk
<1> QED
  BY <1>1, DeclarationInvariant, ReliableUnlessRdsIam, PTL
=============================================================================
