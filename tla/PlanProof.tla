------------------------------ MODULE PlanProof ------------------------------
(***************************************************************************)
(* Proofs about what a plan as a whole achieves: it can be executed in its *)
(* order, and when it has been there is nothing left to do.                *)
(*                                                                         *)
(* The argument goes by what is left.  Left(c, rest) says that whatever    *)
(* the catalog c lacks, or has too much, some statement of rest will see   *)
(* to, and that none of rest undoes what another is for; it holds of a     *)
(* catalog and the plan made for it, each statement keeps it, and with     *)
(* nothing left it says that the next plan is empty.                       *)
(***************************************************************************)
EXTENDS BorrowProof, FiniteSetTheorems

\* Which roles may come to own which objects.
Ownable == NewRelations \cup UNION {{<<c.owner[o], o>> : o \in Objects(c)} : c \in InitialCatalogs}

\* Every entry of c has the shape module Catalog gives it.
Tidy(c) ==
  /\ \A o \in Objects(c) : <<c.owner[o], o>> \in Ownable
  /\ \A e \in c.acl : e = <<e[1], e[2], e[3]>>
  /\ \A e \in c.dacl : e = <<e[1], e[2], e[3], e[4], e[5], e[6]>> /\ DefaultKey(e) \in Foreseen
  /\ \A e \in c.iam : e = <<e[1], e[2]>>

\* What s gives and takes, in a catalog c.
Pair(s) == <<s.args[2], s.args[1]>>
OnObject(s) ==
  {<<<<s.args[1], s.args[2], s.args[3], s.args[4]>>, s.args[5], q>> : q \in s.privs}
OnAll(c, s) ==
  UNION {{<<o, s.args[4], q>> : q \in s.privs} : o \in Relations(c, s.args[1], s.args[3], s.args[2])}
OnDefault(s) ==
  {<<s.args[1], s.args[2], s.args[3], s.args[4], s.args[5], q>> : q \in s.privs}

Given(c, s) ==
  IF s.op = "grant" THEN OnObject(s) ELSE IF s.op = "grant all" THEN OnAll(c, s) ELSE {}
Taken(s) == IF s.op = "revoke" THEN OnObject(s) ELSE {}
GivenDefaults(s) == IF s.op = "alter default grant" THEN OnDefault(s) ELSE {}
TakenDefaults(s) == IF s.op = "alter default revoke" THEN OnDefault(s) ELSE {}
Undoes(s, r) == s.op \in {"return", "drop"} /\ s.args[1] = r
Creates(s, r) == s.op = "create role" /\ s.args[1] = r

\* What the planner reconciles of the ACLs and the default ACLs of c.
Held(c) == ActualGrants(Snapshot(c))
HeldDefaults(c) == ActualDefaults(Snapshot(c))

----------------------------------------------------------------------------
RolesLeft(c, rest) ==
  /\ \A r \in Managed : r \in c.roles \/ \E s \in rest : Creates(s, r)
  /\ \A r \in Managed \cap c.roles :
       \/ r \in Decl.login <=> r \in c.login
       \/ \E s \in rest : s.op = "alter role" /\ s.args[1] = r
  /\ \A s \in rest : s.op \in {"create role", "alter role"} =>
       s.args[2] = Flag(s.args[1] \in Decl.login)

MembersLeft(c, rest) ==
  /\ \A m \in Decl.memberOf : m \in c.member \/ \E s \in rest : s.op = "grant role" /\ Pair(s) = m
  /\ \A m \in c.member : m[1] \in Managed =>
       m \in Decl.memberOf \/ \E s \in rest : s.op = "revoke role" /\ Pair(s) = m
  /\ \A s \in rest : /\ s.op = "grant role" => Pair(s) \in Decl.memberOf
                     /\ s.op = "revoke role" => Pair(s) \notin Decl.memberOf

IamLeft(c, rest) ==
  /\ IAMPrincipals =>
       /\ \A m \in Decl.iam : m \in c.iam \/ \E s \in rest : s.op = "iam grant" /\ s.args = m
       /\ \A m \in c.iam : m[1] \in Managed =>
            m \in Decl.iam \/ \E s \in rest : s.op = "iam revoke" /\ s.args = m
  /\ \A s \in rest : /\ s.op = "iam grant" => s.args \in Decl.iam
                     /\ s.op = "iam revoke" => s.args \notin Decl.iam
                     /\ s.op \in {"iam grant", "iam revoke"} => s.args = <<s.args[1], s.args[2]>>

GrantsLeft(c, rest) ==
  /\ \A e \in DesiredGrants(c) : e \in Held(c) \/ \E s \in rest : e \in Given(c, s)
  /\ \A e \in Held(c) : e \in DesiredGrants(c) \/ \E s \in rest : e \in Taken(s)
  /\ \A s \in rest : Given(c, s) \subseteq DesiredGrants(c) /\ Taken(s) \cap DesiredGrants(c) = {}

DefaultsLeft(c, rest) ==
  /\ \A e \in DesiredDefaults : e \in HeldDefaults(c) \/ \E s \in rest : e \in GivenDefaults(s)
  /\ \A e \in HeldDefaults(c) : e \in DesiredDefaults \/ \E s \in rest : e \in TakenDefaults(s)
  /\ \A s \in rest : GivenDefaults(s) \subseteq DesiredDefaults /\ TakenDefaults(s) \cap DesiredDefaults = {}

BorrowsLeft(c, rest) ==
  /\ UndonePlan(rest)
  /\ Me \in c.super \/ \A r \in Managed : <<Me, r>> \in c.inherit => \E u \in rest : Undoes(u, r)

Left(c, rest) ==
  /\ Sound(c) /\ Tidy(c) /\ ~PlanFails(Snapshot(c))
  /\ \A s \in rest : Lawful(s)
  /\ RolesLeft(c, rest) /\ MembersLeft(c, rest) /\ IamLeft(c, rest)
  /\ GrantsLeft(c, rest) /\ DefaultsLeft(c, rest) /\ BorrowsLeft(c, rest)

----------------------------------------------------------------------------
(* What the server asks of each statement, on its turn.                    *)

\* The memberships there may be at any time: those the executing user gets by
\* creating a role or borrows, and those of others.
Own == {<<Me, r>> : r \in (Managed \cup Creators) \ {Me}}
Standing == UNION {c.member : c \in InitialCatalogs}
Possible == Decl.memberOf \cup HandMembers \cup Standing \cup Own

\* The roles s needs.
Needed(s) ==
  LET a == s.args IN
  CASE s.op \in {"grant role", "revoke role"} -> {a[1], a[2]}
    [] s.op \in {"grant", "revoke"} -> {a[5]}
    [] s.op = "grant all" -> {a[4]}
    [] s.op \in {"alter default grant", "alter default revoke"} -> {a[3], a[5]}
    [] s.op = "create role" -> {}
    [] OTHER -> {a[1]}

RolesCome(c, rest) ==
  /\ \A s \in rest : \A r \in Needed(s) :
       r \in c.roles \/ \E t \in rest : Creates(t, r) /\ t # s /\ ~Precedes(s, t)
  /\ \A s, t \in rest : \A r \in Managed : Creates(s, r) => r \notin c.roles /\ (Creates(t, r) => s = t)

Fits(s) ==
  /\ s.op = "grant role" => Pair(s) \in Possible
  /\ s.op \in {"create role", "borrow"} => <<Me, s.args[1]>> \in Possible
MembersFit(c, rest) == c.member \subseteq Possible /\ \A s \in rest : Fits(s)

ObjectsThere(c, rest) ==
  \A s \in rest : s.op \in {"grant", "revoke"} =>
    <<s.args[1], s.args[2], s.args[3], s.args[4]>> \in Objects(c)

Lent(c, rest, s) ==
  LET r == s.args[3] IN
  \/ Me \in c.super \/ r = Me
  \/ <<Me, r>> \in c.inherit /\ \A u \in rest : Undoes(u, r) => ~Precedes(u, s)
  \/ \E b \in rest : /\ b.op = "borrow" /\ b.args[1] = r /\ ~Precedes(s, b)
                    /\ \A u \in rest : Undoes(u, r) => ~(Precedes(b, u) /\ Precedes(u, s))

CreatorsLent(c, rest) ==
  \A s \in rest : s.op \in {"alter default grant", "alter default revoke"} => Lent(c, rest, s)

Executable(c, rest) ==
  RolesCome(c, rest) /\ MembersFit(c, rest) /\ ObjectsThere(c, rest) /\ CreatorsLent(c, rest)

\* The server lets the executing user grant on what it does not own, and no
\* membership there may be closes a cycle.
Orderly == ~OwnerChecks /\ Acyclic(Possible)

\* What a run that nobody disturbs has left, from the catalog it has come to.
Ready(c, rest) == Left(c, rest) /\ (Orderly => Executable(c, rest))

----------------------------------------------------------------------------
(* What a statement does, field by field.                                  *)

LEMMA EffectEntries ==
  ASSUME NEW c, IsCatalog(c), NEW s, Lawful(s)
  PROVE  LET d == Effect(c, s) IN
         /\ d.owner = c.owner /\ d.open = c.open /\ d.super = c.super
         /\ d.acl = (c.acl \cup Given(c, s)) \ Taken(s)
         /\ d.dacl = (c.dacl \cup GivenDefaults(s)) \ TakenDefaults(s)
<1> DEFINE d == Effect(c, s)
<1> USE DEF IsCatalog, Fields
<1>1. CASE s.op \in {"create role", "alter role", "grant role", "revoke role"}
  <2>1. /\ d.owner = c.owner /\ d.open = c.open /\ d.super = c.super
        /\ d.acl = c.acl /\ d.dacl = c.dacl
    BY <1>1 DEF Effect
  <2> HIDE DEF d
  <2> QED
    BY <1>1, <2>1 DEF d, Given, Taken, GivenDefaults, TakenDefaults
<1>2. CASE s.op \in {"iam grant", "iam revoke", "borrow", "return", "drop"}
  <2>1. /\ d.owner = c.owner /\ d.open = c.open /\ d.super = c.super
        /\ d.acl = c.acl /\ d.dacl = c.dacl
    BY <1>2 DEF Effect
  <2> HIDE DEF d
  <2> QED
    BY <1>2, <2>1 DEF d, Given, Taken, GivenDefaults, TakenDefaults
<1>3. CASE s.op \in {"grant", "revoke", "grant all"}
  <2>1. /\ d.owner = c.owner /\ d.open = c.open /\ d.super = c.super /\ d.dacl = c.dacl
        /\ s.op = "grant" => d.acl = c.acl \cup OnObject(s)
        /\ s.op = "revoke" => d.acl = c.acl \ OnObject(s)
        /\ s.op = "grant all" => d.acl = c.acl \cup OnAll(c, s)
    BY <1>3 DEF Effect, OnObject, OnAll
  <2> HIDE DEF d
  <2> QED
    BY <1>3, <2>1 DEF d, Given, Taken, GivenDefaults, TakenDefaults
<1>4. CASE s.op \in {"alter default grant", "alter default revoke"}
  <2>1. /\ d.owner = c.owner /\ d.open = c.open /\ d.super = c.super /\ d.acl = c.acl
        /\ s.op = "alter default grant" => d.dacl = c.dacl \cup OnDefault(s)
        /\ s.op = "alter default revoke" => d.dacl = c.dacl \ OnDefault(s)
    BY <1>4 DEF Effect, OnDefault
  <2> HIDE DEF d
  <2> QED
    BY <1>4, <2>1 DEF d, Given, Taken, GivenDefaults, TakenDefaults
<1> QED
  BY <1>1, <1>2, <1>3, <1>4 DEF Lawful

LEMMA EffectCluster ==
  ASSUME NEW c, IsCatalog(c), NEW s, Lawful(s)
  PROVE  LET d == Effect(c, s) IN
         /\ d.roles = IF s.op = "create role" THEN c.roles \cup {s.args[1]} ELSE c.roles
         /\ d.login = CASE s.op \in {"create role", "alter role"} /\ s.args[2] = 1 -> c.login \cup {s.args[1]}
                        [] s.op = "alter role" /\ s.args[2] # 1 -> c.login \ {s.args[1]}
                        [] OTHER -> c.login
         /\ d.iam = CASE s.op = "iam grant" -> c.iam \cup {<<s.args[1], s.args[2]>>}
                      [] s.op = "iam revoke" -> c.iam \ {<<s.args[1], s.args[2]>>}
                      [] OTHER -> c.iam
<1> DEFINE d == Effect(c, s)
<1> USE DEF IsCatalog, Fields
<1>1. CASE s.op \in {"create role", "alter role"}
  <2>1. /\ d.roles = IF s.op = "create role" THEN c.roles \cup {s.args[1]} ELSE c.roles
        /\ s.args[2] = 1 => d.login = c.login \cup {s.args[1]}
        /\ s.args[2] # 1 /\ s.op = "create role" => d.login = c.login
        /\ s.args[2] # 1 /\ s.op = "alter role" => d.login = c.login \ {s.args[1]}
        /\ d.iam = c.iam
    BY <1>1 DEF Effect
  <2> HIDE DEF d
  <2> QED
    BY <1>1, <2>1 DEF d
<1>2. CASE s.op \in {"iam grant", "iam revoke"}
  <2>1. /\ d.roles = c.roles /\ d.login = c.login
        /\ s.op = "iam grant" => d.iam = c.iam \cup {<<s.args[1], s.args[2]>>}
        /\ s.op = "iam revoke" => d.iam = c.iam \ {<<s.args[1], s.args[2]>>}
    BY <1>2 DEF Effect
  <2> HIDE DEF d
  <2> QED
    BY <1>2, <2>1 DEF d
<1>3. CASE s.op \in {"grant role", "revoke role", "borrow", "return", "drop"}
  <2>1. d.roles = c.roles /\ d.login = c.login /\ d.iam = c.iam
    BY <1>3 DEF Effect
  <2> HIDE DEF d
  <2> QED
    BY <1>3, <2>1 DEF d
<1>4. CASE s.op \in {"grant", "revoke", "grant all", "alter default grant", "alter default revoke"}
  <2>1. d.roles = c.roles /\ d.login = c.login /\ d.iam = c.iam
    BY <1>4 DEF Effect
  <2> HIDE DEF d
  <2> QED
    BY <1>4, <2>1 DEF d
<1> QED
  BY <1>1, <1>2, <1>3, <1>4 DEF Lawful

\* Memberships: those of others are declared, the executing user's own lent.
LEMMA EffectMembers ==
  ASSUME NEW c, IsCatalog(c), NEW s, Lawful(s)
  PROVE  LET d == Effect(c, s) IN
         /\ s.op = "grant role" => d.member = c.member \cup {Pair(s)}
         /\ s.op = "revoke role" => d.member = c.member \ {Pair(s)}
         /\ s.op \in {"create role", "borrow"} => d.member \in {c.member, c.member \cup {<<Me, s.args[1]>>}}
         /\ s.op = "drop" => d.member = c.member \ {<<Me, s.args[1]>>}
         /\ s.op \notin {"grant role", "revoke role", "create role", "borrow", "drop"} => d.member = c.member
<1> DEFINE d == Effect(c, s)
<1> USE DEF IsCatalog, Fields
<1>1. CASE s.op \in {"grant role", "revoke role", "create role", "borrow", "drop"}
  BY <1>1 DEF Effect, Pair
<1>2. CASE s.op \in {"alter role", "iam grant", "iam revoke", "return"}
  BY <1>2 DEF Effect
<1>3. CASE s.op \in {"grant", "revoke", "grant all", "alter default grant", "alter default revoke"}
  BY <1>3 DEF Effect
<1> QED
  BY <1>1, <1>2, <1>3 DEF Lawful

\* What the executing user inherits it keeps until it is taken back.
LEMMA EffectLends ==
  ASSUME Me \notin Managed, NEW c, IsCatalog(c), NEW s, Lawful(s), NEW r
  PROVE  LET d == Effect(c, s) IN
         /\ <<Me, r>> \in c.inherit /\ ~Undoes(s, r) => <<Me, r>> \in d.inherit
         /\ s.op = "borrow" => <<Me, s.args[1]>> \in d.inherit
<1> DEFINE d == Effect(c, s)
<1> USE DEF IsCatalog, Fields
<1>1. CASE s.op \in {"return", "drop"}
  <2>1. d.inherit = c.inherit \ {<<Me, s.args[1]>>}
    BY <1>1 DEF Effect
  <2> HIDE DEF d
  <2> QED
    BY <1>1, <2>1 DEF d, Undoes
<1>2. CASE s.op = "borrow"
  <2>1. d.inherit = c.inherit \cup {<<Me, s.args[1]>>}
    BY <1>2 DEF Effect
  <2> HIDE DEF d
  <2> QED
    BY <1>2, <2>1 DEF d
<1>3. CASE s.op \in {"grant role", "revoke role"}
  <2>1. s.args[2] # Me
    BY <1>3 DEF Lawful
  <2>2. c.inherit \ {Pair(s)} \subseteq d.inherit
    BY <1>3 DEF Effect, Pair
  <2> HIDE DEF d
  <2> QED
    BY <1>3, <2>1, <2>2 DEF d, Pair
<1>4. CASE s.op \in {"create role", "alter role", "iam grant", "iam revoke", "grant", "revoke",
                     "grant all", "alter default grant", "alter default revoke"}
  <2>1. d.inherit = c.inherit
    BY <1>4 DEF Effect
  <2> HIDE DEF d
  <2> QED
    BY <1>4, <2>1 DEF d
<1> QED
  BY <1>1, <1>2, <1>3, <1>4 DEF Lawful

----------------------------------------------------------------------------
(* What a run reads of a catalog.                                          *)

Reached(c) == DatabasesToRead(c) \cap c.open
Seen(c) == {o \in Objects(c) : o[2] = DatabaseKind \/ o[1] \in Reached(c)}

LEMMA SnapshotFields ==
  ASSUME NEW c, IsCatalog(c)
  PROVE  LET st == Snapshot(c) IN
         /\ st.roles = c.roles /\ st.login = c.login /\ st.super = c.super
         /\ st.member = c.member /\ st.inherit = c.inherit /\ st.open = c.open
         /\ st.iam = IF IAMPrincipals THEN {e \in c.iam : e[1] \in c.roles} ELSE {}
         /\ Objects(st) = Seen(c) /\ \A o \in Seen(c) : st.owner[o] = c.owner[o]
         /\ st.acl = {e \in c.acl : e[1] \in Seen(c) /\ e[2] # Public}
         /\ st.dacl = {e \in c.dacl : e[1] \in Reached(c) /\ e[5] # Public}
<1> DEFINE rc == ReadCluster(c, IAMPrincipals)
           dbs == DatabasesToRead(rc) \cap c.open
           st == ReadDatabases(c, rc, dbs)
           first == {o \in Objects(c) : o[2] = DatabaseKind}
           rest == {o \in Objects(c) : o[1] \in dbs /\ o[2] # DatabaseKind}
<1>1. /\ rc.roles = c.roles /\ rc.login = c.login /\ rc.super = c.super
      /\ rc.member = c.member /\ rc.inherit = c.inherit /\ rc.open = c.open
      /\ rc.iam = IF IAMPrincipals THEN {e \in c.iam : e[1] \in c.roles} ELSE {}
      /\ rc.owner = [o \in first |-> c.owner[o]]
      /\ rc.acl = {e \in c.acl : e[1] \in first /\ e[2] # Public}
      /\ rc.dacl = {} /\ IsCatalog(rc)
  BY DEF ReadCluster, OwnersOf, AclOf, IsCatalog, Fields
<1>2. dbs = Reached(c)
  BY <1>1 DEF Reached, DatabasesToRead
<1> HIDE DEF rc, dbs
<1>3. /\ st.roles = rc.roles /\ st.login = rc.login /\ st.super = rc.super
      /\ st.member = rc.member /\ st.inherit = rc.inherit /\ st.open = rc.open /\ st.iam = rc.iam
      /\ st.owner = [o \in Objects(rc) \cup rest |-> IF o \in rest THEN c.owner[o] ELSE rc.owner[o]]
      /\ st.acl = rc.acl \cup {e \in c.acl : e[1] \in rest /\ e[2] # Public}
      /\ st.dacl = rc.dacl \cup {e \in c.dacl : e[1] \in dbs /\ e[5] # Public}
  BY <1>1 DEF ReadDatabases, AclOf, IsCatalog, Fields
<1>4. Snapshot(c) = st
  BY DEF Snapshot, rc, dbs
<1>5. first \cup rest = Seen(c) /\ Objects(rc) = first
  BY <1>1, <1>2 DEF Seen, Objects
<1>6. Objects(st) = Seen(c) /\ \A o \in Seen(c) : st.owner[o] = c.owner[o]
  <2> HIDE DEF st, first, rest
  <2> QED
    BY <1>1, <1>3, <1>5 DEF Objects
<1>7. /\ st.acl = {e \in c.acl : e[1] \in Seen(c) /\ e[2] # Public}
      /\ st.dacl = {e \in c.dacl : e[1] \in Reached(c) /\ e[5] # Public}
  <2> HIDE DEF st, first, rest
  <2> QED
    BY <1>1, <1>2, <1>3, <1>5
<1> HIDE DEF st
<1> QED
  BY <1>1, <1>3, <1>4, <1>6, <1>7

\* An ACL entry, or default ACL entry, the planner reconciles.
Counts(c, e) ==
  /\ e[1] \in Seen(c) /\ e[2] \in Managed /\ e[1][1] \notin Decl.unmanaged
  /\ e[2] # c.owner[e[1]]
  /\ e[1][2] = DatabaseKind => DatabaseGrants
DefaultCounts(c, e) ==
  /\ e[1] \in Reached(c) /\ e[5] # Public
  /\ e[1] \notin Decl.unmanaged /\ (e[3] \in Managed \/ e[5] \in Managed)

LEMMA HeldIs ==
  ASSUME NEW c, IsCatalog(c)
  PROVE  /\ Held(c) = {e \in c.acl : Counts(c, e)}
         /\ HeldDefaults(c) = {e \in c.dacl : DefaultCounts(c, e)}
<1> DEFINE st == Snapshot(c)
<1>1. /\ Objects(st) = Seen(c) /\ \A o \in Seen(c) : st.owner[o] = c.owner[o]
      /\ st.acl = {e \in c.acl : e[1] \in Seen(c) /\ e[2] # Public}
      /\ st.dacl = {e \in c.dacl : e[1] \in Reached(c) /\ e[5] # Public}
  BY SnapshotFields
<1>2. Public \notin Managed
  BY NamesAssumption
<1> HIDE DEF st
<1>3. Held(c) = {e \in c.acl : Counts(c, e)}
  BY <1>1, <1>2 DEF Held, ActualGrants, Counts, st
<1>4. HeldDefaults(c) = {e \in c.dacl : DefaultCounts(c, e)}
  BY <1>1 DEF HeldDefaults, ActualDefaults, DefaultCounts, st
<1> QED
  BY <1>3, <1>4

\* What it wants does not depend on what it could not read.
LEMMA WantedSeen ==
  ASSUME NEW c, IsCatalog(c), ~MissingDatabase(Snapshot(c))
  PROVE  /\ DatabasesNamed \subseteq Reached(c)
         /\ \A w \in Decl.wide :
              Relations(Snapshot(c), w[1], w[2], w[3]) = Relations(c, w[1], w[2], w[3])
         /\ DesiredGrants(Snapshot(c)) = DesiredGrants(c)
<1> DEFINE st == Snapshot(c)
<1>1. Objects(st) = Seen(c) /\ st.open = c.open
  BY SnapshotFields
<1> HIDE DEF st
<1>2. DatabasesNamed \subseteq c.open
  BY <1>1 DEF MissingDatabase, st
<1>3. DatabasesNamed \subseteq Reached(c)
  BY <1>2 DEF Reached, DatabasesToRead
<1>4. ASSUME NEW w \in Decl.wide
      PROVE  Relations(st, w[1], w[2], w[3]) = Relations(c, w[1], w[2], w[3])
  <2>1. w[1] \in DatabasesNamed
    <3>1. <<w[1], w[2]>> \in SchemasNamed /\ <<w[1], w[2]>>[1] = w[1]
      BY DEF SchemasNamed
    <3> QED
      BY <3>1 DEF DatabasesNamed
  <2>2. w[1] \in Reached(c)
    BY <1>3, <2>1
  <2> QED
    BY <1>1, <2>2 DEF Relations, Seen
<1>5. DesiredGrants(st) = DesiredGrants(c)
  BY <1>4 DEF DesiredGrants
<1> QED
  BY <1>3, <1>4, <1>5 DEF st

\* A statement makes nothing the planner looks for disappear.
LEMMA FailsNoMore ==
  ASSUME NEW c, IsCatalog(c), NEW d, IsCatalog(d),
         d.owner = c.owner, d.open = c.open, c.roles \subseteq d.roles, ~PlanFails(Snapshot(c))
  PROVE  ~PlanFails(Snapshot(d))
<1> DEFINE st == Snapshot(c)
           new == Snapshot(d)
<1>1. Objects(d) = Objects(c) /\ Reached(d) = Reached(c)
  BY DEF Objects, Reached, DatabasesToRead
<1>2. Seen(d) = Seen(c)
  BY <1>1 DEF Seen
<1>3. Objects(st) = Seen(c) /\ st.open = c.open /\ st.roles = c.roles
  BY SnapshotFields
<1>4. Objects(new) = Seen(d) /\ new.open = d.open /\ new.roles = d.roles
  BY SnapshotFields
<1> HIDE DEF st, new
<1>5. Objects(new) = Objects(st) /\ new.open = st.open /\ st.roles \subseteq new.roles
  BY <1>2, <1>3, <1>4
<1>6. ~PlanFails(st)
  BY DEF st
<1>7. ~MissingDatabase(new) /\ ~MissingGroup(new)
  BY <1>5, <1>6 DEF PlanFails, MissingDatabase, MissingGroup
<1>8. ~MissingSchema(new) /\ ~MissingRelation(new)
  BY <1>5, <1>6 DEF PlanFails, MissingSchema, MissingRelation
<1> QED
  BY <1>7, <1>8 DEF PlanFails, new

----------------------------------------------------------------------------
(* With nothing left, the next plan is empty.                              *)

LEMMA NothingToChange ==
  ASSUME NEW st, NEW k, MissingDefaults(st, k) = {}, ExtraDefaults(st, k) = {}
  PROVE  DefaultStatements(st, k) = {}
<1> DEFINE pos(step) == <<5, k[2], k[3], SequenceKind - k[4], k[5], step>>
           grant == Statement(k[1], pos(1), "alter default grant", k, MissingDefaults(st, k), FALSE, FALSE)
           revoke == Statement(k[1], pos(2), "alter default revoke", k, ExtraDefaults(st, k), TRUE, FALSE)
<1>1. grant.privs = {} /\ revoke.privs = {}
  BY DEF Statement
<1>2. {s \in {grant, revoke} : s.privs # {}} = {}
  <2> HIDE DEF grant, revoke
  <2> QED
    BY <1>1
<1> QED
  BY <1>2 DEF DefaultStatements

LEMMA NothingLeft ==
  ASSUME NEW c, Left(c, {})
  PROVE  ConvergedAt(c)
<1> DEFINE st == Snapshot(c)
<1>0. IsCatalog(c) /\ WellFormed(c) /\ Me \in c.roles /\ ~PlanFails(st) /\ ~MissingDatabase(st)
  BY DEF Left, Sound, PlanFails
<1>1. /\ st.roles = c.roles /\ st.login = c.login /\ st.super = c.super
      /\ st.member = c.member /\ st.inherit = c.inherit
      /\ st.iam = IF IAMPrincipals THEN {e \in c.iam : e[1] \in c.roles} ELSE {}
      /\ st.acl = {e \in c.acl : e[1] \in Seen(c) /\ e[2] # Public}
  BY <1>0, SnapshotFields
<1>2. DesiredGrants(st) = DesiredGrants(c) /\ DesiredGrants(c) = ActualGrants(st)
  BY <1>0, WantedSeen DEF Left, GrantsLeft, Held
<1>3. ActualGrants(st) \subseteq st.acl
  BY DEF ActualGrants
<1>4. DesiredDefaults = ActualDefaults(st)
  BY DEF Left, DefaultsLeft, HeldDefaults
<1> HIDE DEF st
<1>5. CreateRoles(st) = {} /\ AlterRoles(st) = {}
  <2>1. /\ Managed \ st.roles = {}
        /\ \A r \in Managed \cap st.roles : r \in Decl.login <=> r \in st.login
    BY <1>1 DEF Left, RolesLeft
  <2>2. {q \in Managed \cap st.roles : (q \in Decl.login) # (q \in st.login)} = {}
    <3>1. \A r \in Managed \cap st.roles : (r \in Decl.login) = (r \in st.login)
      BY <2>1
    <3> QED
      BY <3>1
  <2> QED
    BY <2>1, <2>2 DEF CreateRoles, AlterRoles
<1>6. Memberships(st) = {}
  <2>1. Decl.memberOf \ st.member = {} /\ {n \in st.member \ Decl.memberOf : n[1] \in Managed} = {}
    BY <1>1 DEF Left, MembersLeft
  <2> QED
    BY <2>1 DEF Memberships
<1>7. IamStatements(st) = {}
  <2>1. IAMPrincipals => Decl.iam \ st.iam = {} /\ {n \in st.iam \ Decl.iam : n[1] \in Managed} = {}
    BY <1>0, <1>1 DEF Left, IamLeft, WellFormed
  <2> QED
    BY <2>1 DEF IamStatements
<1>8. ASSUME NEW w \in Decl.wide PROVE MissingEverywhere(st, WideKey(w)) = {}
  <2> DEFINE wk == WideKey(w)
  <2> SUFFICES ASSUME NEW q \in MissingEverywhere(st, wk) PROVE FALSE
    OBVIOUS
  <2>1. PICK v \in Decl.wide :
          /\ WideKey(v) = wk /\ Relations(st, wk[1], wk[2], wk[3]) # {}
          /\ \A o \in Relations(st, wk[1], wk[2], wk[3]) : <<o, wk[4], v[5]>> \notin st.acl
    BY DEF MissingEverywhere
  <2>2. v[1] = wk[1] /\ v[2] = wk[2] /\ v[3] = wk[3] /\ v[4] = wk[4]
    BY <2>1 DEF WideKey
  <2>3. PICK o \in Relations(st, v[1], v[2], v[3]) : <<o, v[4], v[5]>> \notin st.acl
    BY <2>1, <2>2
  <2>4. <<o, v[4], v[5]>> \in DesiredGrants(st)
    BY DEF DesiredGrants
  <2> QED
    BY <1>2, <1>3, <2>3, <2>4
<1>9. WideGrants(st) = {}
  BY <1>8 DEF WideGrants
<1>10. ObjectGrants(st) = {}
  <2>1. \A k : Missing(st, k) = {} /\ Extra(st, k) = {}
    BY <1>2 DEF Missing, Extra
  <2> QED
    BY <2>1 DEF ObjectGrants
<1>11. DefaultPrivileges(st) = {}
  <2>1. \A k : MissingDefaults(st, k) = {} /\ ExtraDefaults(st, k) = {}
    BY <1>4 DEF MissingDefaults, ExtraDefaults
  <2>2. \A k : DefaultStatements(st, k) = {}
    BY <2>1, NothingToChange
  <2> QED
    BY <2>2 DEF DefaultPrivileges
<1>12. ReleaseStaleBorrows(st) = {}
  <2>1. StaleBorrows(st) = {}
    BY <1>0, <1>1 DEF StaleBorrows, Exempt, Left, BorrowsLeft
  <2> QED
    BY <2>1 DEF ReleaseStaleBorrows
<1>13. Diff(st) = {}
  BY <1>5, <1>6, <1>7, <1>9, <1>10, <1>11, <1>12 DEF Diff
<1> QED
  BY <1>0, <1>13 DEF ConvergedAt, st

----------------------------------------------------------------------------
(* What is declared can be held.                                           *)

\* No declared role owns what it is declared to be granted.
NobodyOwns ==
  \A w \in Ownable :
    /\ \A g \in Decl.grants : ~(g[1] = w[2] /\ g[2] = w[1])
    /\ \A v \in Decl.wide :
         ~(v[1] = w[2][1] /\ v[2] = w[2][3] /\ v[3] = w[2][2] /\ v[4] = w[1])

\* The tables that grants name are tables, and the sequences sequences.
NamedByKind ==
  \A w \in Ownable : \A g \in Decl.grants :
    /\ g[1][2] \in RelationKinds /\ w[2][2] \in RelationKinds
    /\ g[1][1] = w[2][1] /\ g[1][3] = w[2][3] /\ g[1][4] = w[2][4]
    => g[1][2] = w[2][2]

\* The declaration and the server it is for.
Suited ==
  /\ Me \notin Managed
  /\ \A d \in Decl.defaults : d[1] \notin Decl.unmanaged
  /\ NobodyOwns /\ NamedByKind

LEMMA OwnableShapes ==
  ASSUME NEW w \in Ownable
  PROVE  /\ w[2] = <<w[2][1], w[2][2], w[2][3], w[2][4]>>
         /\ w[2][2] \in RelationKinds \/ w[2] \in {DatabaseObject(w[2][1]), SchemaObject(w[2][1], w[2][3])}
<1>1. CASE w \in NewRelations
  BY <1>1, ShapesAssumption
<1>2. ASSUME NEW c \in InitialCatalogs, w \in {<<c.owner[o], o>> : o \in Objects(c)}
      PROVE  w[2] \in UNION {Objects(x) : x \in InitialCatalogs}
  BY <1>2
<1>3. CASE w \notin NewRelations
  <2>1. w[2] \in UNION {Objects(x) : x \in InitialCatalogs}
    BY <1>2, <1>3 DEF Ownable
  <2> QED
    BY <2>1, ShapesAssumption
<1> QED
  BY <1>1, <1>3

LEMMA GrantNamed ==
  ASSUME NEW g \in Decl.grants
  PROVE  g[1][1] \in DatabasesNamed /\ (g[1][2] # DatabaseKind => <<g[1][1], g[1][3]>> \in SchemasNamed)
BY DEF DatabasesNamed, SchemasNamed

\* A plan that does not fail is about objects that exist.
LEMMA WantedExists ==
  ASSUME Suited, NEW c, IsCatalog(c), Tidy(c), ~PlanFails(Snapshot(c)), NEW e \in DesiredGrants(c)
  PROVE  e[1] \in Objects(c)
<1> DEFINE st == Snapshot(c)
<1>0. Objects(st) \subseteq Objects(c)
  BY SnapshotFields DEF Seen
<1>1. ~MissingDatabase(st) /\ ~MissingSchema(st) /\ ~MissingRelation(st)
  BY DEF PlanFails
<1> HIDE DEF st
<1>2. ASSUME NEW w \in Decl.wide, NEW o \in Relations(c, w[1], w[2], w[3]), e = <<o, w[4], w[5]>>
      PROVE  e[1] \in Objects(c)
  BY <1>2 DEF Relations
<1>3. CASE e \in Decl.grants
  <2> DEFINE o == e[1]
  <2>1. o = <<o[1], o[2], o[3], o[4]>>
        /\ (o[2] \in RelationKinds \/ o \in {DatabaseObject(o[1]), SchemaObject(o[1], o[3])})
    BY <1>3, ShapesAssumption
  <2>2. o[1] \in DatabasesNamed /\ (o[2] # DatabaseKind => <<o[1], o[3]>> \in SchemasNamed)
    BY <1>3, GrantNamed
  <2>3. CASE o[2] \in RelationKinds
    <3>1. PICK k \in RelationKinds : <<o[1], k, o[3], o[4]>> \in Objects(st)
      BY <1>1, <1>3, <2>3 DEF MissingRelation
    <3> DEFINE x == <<o[1], k, o[3], o[4]>>
    <3>2. x \in Objects(c) /\ <<c.owner[x], x>> \in Ownable
      BY <1>0, <3>1 DEF Tidy
    <3>3. x[1] = o[1] /\ x[2] = k /\ x[3] = o[3] /\ x[4] = o[4]
      OBVIOUS
    <3>4. o[2] = k
      <4>1. \A w \in Ownable :
              /\ w[2][2] \in RelationKinds
              /\ o[1] = w[2][1] /\ o[3] = w[2][3] /\ o[4] = w[2][4]
              => o[2] = w[2][2]
        BY <1>3, <2>3 DEF Suited, NamedByKind
      <4>2. <<c.owner[x], x>>[2] = x
        OBVIOUS
      <4> HIDE DEF x
      <4> QED
        BY <3>2, <3>3, <4>1, <4>2
    <3> QED
      BY <2>1, <3>2, <3>4
  <2>4. CASE o = DatabaseObject(o[1])
    BY <1>0, <1>1, <2>2, <2>4 DEF MissingDatabase
  <2>5. CASE o = SchemaObject(o[1], o[3])
    <3>1. o[2] = SchemaKind
      BY <2>5 DEF SchemaObject
    <3>2. <<o[1], o[3]>> \in SchemasNamed
      BY <2>2, <3>1 DEF SchemaKind, DatabaseKind
    <3>3. SchemaObject(<<o[1], o[3]>>[1], <<o[1], o[3]>>[2]) \in Objects(st)
      BY <1>1, <3>2 DEF MissingSchema
    <3> QED
      BY <1>0, <2>5, <3>3
  <2> QED
    BY <2>1, <2>3, <2>4, <2>5
<1> QED
  BY <1>2, <1>3 DEF DesiredGrants

LEMMA WantedCounts ==
  ASSUME Suited, NEW c, IsCatalog(c), Tidy(c), ~PlanFails(Snapshot(c)), NEW e \in DesiredGrants(c)
  PROVE  Counts(c, e)
<1>1. e[1] \in Objects(c)
  BY WantedExists
<1>2. DatabasesNamed \subseteq Reached(c)
  BY WantedSeen DEF PlanFails
<1>3. <<c.owner[e[1]], e[1]>> \in Ownable
  BY <1>1 DEF Tidy
<1>4. CASE e \in Decl.grants
  <2>1. e[1][1] \in DatabasesNamed
    BY <1>4, GrantNamed
  <2>2. e[2] \in Managed /\ e[1][1] \notin Decl.unmanaged /\ (e[1][2] = DatabaseKind => DatabaseGrants)
    BY <1>4, DeclAssumption DEF ValidDecl
  <2>3. e[2] # c.owner[e[1]]
    BY <1>3, <1>4 DEF Suited, NobodyOwns
  <2> QED
    BY <1>1, <1>2, <2>1, <2>2, <2>3 DEF Counts, Seen
<1>5. ASSUME NEW w \in Decl.wide, NEW o \in Relations(c, w[1], w[2], w[3]), e = <<o, w[4], w[5]>>
      PROVE  Counts(c, e)
  <2>1. w[3] \in RelationKinds /\ w[4] \in Managed /\ w[1] \notin Decl.unmanaged
    BY DeclAssumption DEF ValidDecl
  <2>2. o[1] = w[1] /\ o[2] = w[3] /\ o[3] = w[2] /\ e[1] = o /\ e[2] = w[4]
    BY <1>5 DEF Relations
  <2>3. w[1] \in DatabasesNamed
    <3>1. <<w[1], w[2]>> \in SchemasNamed /\ <<w[1], w[2]>>[1] = w[1]
      BY DEF SchemasNamed
    <3> QED
      BY <3>1 DEF DatabasesNamed
  <2>4. e[2] # c.owner[e[1]]
    BY <1>3, <2>2 DEF Suited, NobodyOwns
  <2>5. e[1][2] # DatabaseKind
    BY <2>1, <2>2 DEF RelationKinds, TableKind, SequenceKind, DatabaseKind
  <2> QED
    BY <1>1, <1>2, <2>1, <2>2, <2>3, <2>4, <2>5 DEF Counts, Seen
<1> QED
  BY <1>4, <1>5 DEF DesiredGrants

LEMMA WantedDefaults ==
  ASSUME NEW e \in DesiredDefaults
  PROVE  /\ e = <<e[1], e[2], e[3], e[4], e[5], e[6]>> /\ DefaultKey(e) \in Foreseen
         /\ e[1] \in DatabasesNamed /\ e[3] \in Managed /\ e[5] \in Managed
         /\ Suited => e[1] \notin Decl.unmanaged
<1>1. DefaultKey(e) \in Foreseen
  BY DEF Foreseen
<1>2. e[1] \in DatabasesNamed
  <2>1. <<e[1], e[2]>> \in SchemasNamed /\ <<e[1], e[2]>>[1] = e[1]
    BY DEF SchemasNamed
  <2> QED
    BY <2>1 DEF DatabasesNamed
<1>3. CASE e \in Decl.defaults
  BY <1>1, <1>2, <1>3, ShapesAssumption, DeclAssumption DEF ValidDecl, Suited
<1>4. CASE e \in Derived
  <2>1. PICK w \in Decl.wide, c \in Decl.creates : e = <<w[1], w[2], c[1], w[3], w[4], w[5]>>
    BY <1>4 DEF Derived
  <2>2. w[4] \in Managed /\ c[1] \in Managed /\ w[1] \notin Decl.unmanaged
    BY DeclAssumption DEF ValidDecl
  <2> QED
    BY <1>1, <1>2, <2>1, <2>2
<1> QED
  BY <1>3, <1>4 DEF DesiredDefaults

LEMMA WantedDefaultsCount ==
  ASSUME Suited, NEW c, IsCatalog(c), ~PlanFails(Snapshot(c)), NEW e \in DesiredDefaults
  PROVE  DefaultCounts(c, e)
<1>1. DatabasesNamed \subseteq Reached(c)
  BY WantedSeen DEF PlanFails
<1> QED
  BY <1>1, WantedDefaults, NamesAssumption DEF DefaultCounts

----------------------------------------------------------------------------
(* A statement leaves less to do.                                          *)

LEMMA TidyStep ==
  ASSUME NEW c, IsCatalog(c), Tidy(c), NEW s, Lawful(s),
         \A e \in GivenDefaults(s) : DefaultKey(e) \in Foreseen
  PROVE  Tidy(Effect(c, s))
<1> DEFINE d == Effect(c, s)
<1>1. /\ d.owner = c.owner
      /\ d.acl = (c.acl \cup Given(c, s)) \ Taken(s)
      /\ d.dacl = (c.dacl \cup GivenDefaults(s)) \ TakenDefaults(s)
  BY EffectEntries
<1>2. d.iam \subseteq c.iam \cup {<<s.args[1], s.args[2]>>}
  BY EffectCluster
<1>3. \A e \in Given(c, s) : e = <<e[1], e[2], e[3]>>
  <2>1. \A e \in OnObject(s) : e = <<e[1], e[2], e[3]>>
    BY DEF OnObject
  <2>2. \A e \in OnAll(c, s) : e = <<e[1], e[2], e[3]>>
    <3> SUFFICES ASSUME NEW o, NEW q, NEW e, e = <<o, s.args[4], q>> PROVE e = <<e[1], e[2], e[3]>>
      BY DEF OnAll
    <3> QED
      OBVIOUS
  <2> QED
    BY <2>1, <2>2 DEF Given
<1>4. \A e \in GivenDefaults(s) : e = <<e[1], e[2], e[3], e[4], e[5], e[6]>> /\ DefaultKey(e) \in Foreseen
  <2>1. \A e \in OnDefault(s) : e = <<e[1], e[2], e[3], e[4], e[5], e[6]>>
    BY DEF OnDefault
  <2> QED
    BY <2>1 DEF GivenDefaults
<1> HIDE DEF d
<1>5. /\ \A o \in Objects(d) : <<d.owner[o], o>> \in Ownable
      /\ \A e \in d.acl : e = <<e[1], e[2], e[3]>>
  BY <1>1, <1>3 DEF Tidy, Objects
<1>6. \A e \in d.dacl : e = <<e[1], e[2], e[3], e[4], e[5], e[6]>> /\ DefaultKey(e) \in Foreseen
  BY <1>1, <1>4 DEF Tidy
<1>7. \A e \in d.iam : e = <<e[1], e[2]>>
  BY <1>2 DEF Tidy
<1> QED
  BY <1>5, <1>6, <1>7 DEF Tidy, d

LEMMA NotOne == ASSUME NEW n, n = 0 PROVE n # 1
OBVIOUS

LEMMA RolesStep ==
  ASSUME NEW c, Sound(c), NEW rest, RolesLeft(c, rest), NEW s \in rest, Lawful(s), Permitted(c, s)
  PROVE  RolesLeft(Effect(c, s), rest \ {s})
<1> DEFINE d == Effect(c, s)
<1>1. /\ d.roles = IF s.op = "create role" THEN c.roles \cup {s.args[1]} ELSE c.roles
      /\ d.login = CASE s.op \in {"create role", "alter role"} /\ s.args[2] = 1 -> c.login \cup {s.args[1]}
                     [] s.op = "alter role" /\ s.args[2] # 1 -> c.login \ {s.args[1]}
                     [] OTHER -> c.login
  BY EffectCluster DEF Sound
<1> HIDE DEF d
<1>2. s.op = "create role" => s.args[1] \notin c.roles /\ s.args[1] \notin c.login
  BY DEF Permitted, Sound, WellFormed
<1>3. s.op \in {"create role", "alter role"} => (s.args[2] = 1 <=> s.args[1] \in Decl.login)
  <2> SUFFICES ASSUME s.op \in {"create role", "alter role"}
               PROVE  s.args[2] = 1 <=> s.args[1] \in Decl.login
    OBVIOUS
  <2>1. s.args[2] = Flag(s.args[1] \in Decl.login)
    BY DEF RolesLeft
  <2>2. CASE s.args[1] \in Decl.login
    <3>1. s.args[2] = 1
      BY <2>1, <2>2 DEF Flag
    <3> QED
      BY <2>2, <3>1
  <2>3. CASE s.args[1] \notin Decl.login
    <3>1. s.args[2] # 1
      <4>1. s.args[2] = 0
        BY <2>1, <2>3 DEF Flag
      <4> QED
        BY <4>1, NotOne
    <3> QED
      BY <2>3, <3>1
  <2> QED
    BY <2>2, <2>3
<1>4. \A r : s.op \in {"create role", "alter role"} /\ s.args[1] = r => (r \in d.login <=> r \in Decl.login)
  BY <1>1, <1>2, <1>3
<1>5. \A r : ~(s.op \in {"create role", "alter role"} /\ s.args[1] = r) =>
               (r \in d.login <=> r \in c.login) /\ (r \in d.roles <=> r \in c.roles)
  BY <1>1
<1>6. \A r \in Managed : r \in d.roles \/ \E t \in rest \ {s} : Creates(t, r)
  <2> SUFFICES ASSUME NEW r \in Managed, r \notin d.roles
               PROVE  \E t \in rest \ {s} : Creates(t, r)
    OBVIOUS
  <2>1. r \notin c.roles /\ ~Creates(s, r)
    BY <1>1 DEF Creates
  <2>2. PICK t \in rest : Creates(t, r)
    BY <2>1 DEF RolesLeft
  <2> QED
    BY <2>1, <2>2
<1>7. ASSUME NEW r \in Managed \cap d.roles
      PROVE  \/ r \in Decl.login <=> r \in d.login
             \/ \E t \in rest \ {s} : t.op = "alter role" /\ t.args[1] = r
  <2>1. CASE s.op \in {"create role", "alter role"} /\ s.args[1] = r
    BY <1>4, <2>1
  <2>2. CASE ~(s.op \in {"create role", "alter role"} /\ s.args[1] = r)
    BY <1>5, <2>2 DEF RolesLeft
  <2> QED
    BY <2>1, <2>2
<1> QED
  BY <1>6, <1>7 DEF RolesLeft, d

LEMMA MembersStep ==
  ASSUME Me \notin Managed, NEW c, IsCatalog(c), NEW rest, MembersLeft(c, rest), NEW s \in rest, Lawful(s)
  PROVE  MembersLeft(Effect(c, s), rest \ {s})
<1> DEFINE d == Effect(c, s)
           mine == <<Me, s.args[1]>>
<1>1. /\ s.op = "grant role" => d.member = c.member \cup {Pair(s)}
      /\ s.op = "revoke role" => d.member = c.member \ {Pair(s)}
      /\ s.op \in {"create role", "borrow"} => d.member \in {c.member, c.member \cup {mine}}
      /\ s.op = "drop" => d.member = c.member \ {mine}
      /\ s.op \notin {"grant role", "revoke role", "create role", "borrow", "drop"} => d.member = c.member
  BY EffectMembers
<1>2. mine[1] \notin Managed /\ \A m \in Decl.memberOf : m[1] \in Managed
  BY DeclAssumption DEF ValidDecl
<1> HIDE DEF d, mine
<1>3. ASSUME NEW m \in Decl.memberOf
      PROVE  m \in d.member \/ \E t \in rest \ {s} : t.op = "grant role" /\ Pair(t) = m
  <2>1. m # mine /\ (s.op = "revoke role" => Pair(s) # m)
    BY <1>2 DEF MembersLeft
  <2>2. m \in c.member => m \in d.member
    BY <1>1, <2>1
  <2>3. s.op = "grant role" /\ Pair(s) = m => m \in d.member
    BY <1>1
  <2> QED
    BY <2>2, <2>3 DEF MembersLeft
<1>4. ASSUME NEW m \in d.member, m[1] \in Managed
      PROVE  m \in Decl.memberOf \/ \E t \in rest \ {s} : t.op = "revoke role" /\ Pair(t) = m
  <2>1. m # mine
    BY <1>2, <1>4
  <2>2. CASE m \in c.member
    <3>1. ~(s.op = "revoke role" /\ Pair(s) = m)
      BY <1>1
    <3> QED
      BY <1>4, <2>2, <3>1 DEF MembersLeft
  <2>3. CASE m \notin c.member
    <3>1. s.op = "grant role" /\ m = Pair(s)
      BY <1>1, <2>1, <2>3
    <3> QED
      BY <3>1 DEF MembersLeft
  <2> QED
    BY <2>2, <2>3
<1> QED
  BY <1>3, <1>4 DEF MembersLeft, d

LEMMA IamStep ==
  ASSUME NEW c, IsCatalog(c), NEW rest, IamLeft(c, rest), NEW s \in rest, Lawful(s)
  PROVE  IamLeft(Effect(c, s), rest \ {s})
<1> DEFINE d == Effect(c, s)
<1>1. d.iam = CASE s.op = "iam grant" -> c.iam \cup {<<s.args[1], s.args[2]>>}
                [] s.op = "iam revoke" -> c.iam \ {<<s.args[1], s.args[2]>>}
                [] OTHER -> c.iam
  BY EffectCluster
<1> HIDE DEF d
<1>2. /\ s.op = "iam grant" => s.args \in Decl.iam /\ d.iam = c.iam \cup {s.args}
      /\ s.op = "iam revoke" => s.args \notin Decl.iam /\ d.iam = c.iam \ {s.args}
      /\ s.op \notin {"iam grant", "iam revoke"} => d.iam = c.iam
  BY <1>1 DEF IamLeft
<1>3. ASSUME IAMPrincipals, NEW m \in Decl.iam
      PROVE  m \in d.iam \/ \E t \in rest \ {s} : t.op = "iam grant" /\ t.args = m
  <2>1. CASE m \in c.iam
    BY <1>2, <2>1
  <2>2. CASE m \notin c.iam
    <3>1. PICK t \in rest : t.op = "iam grant" /\ t.args = m
      BY <1>3, <2>2 DEF IamLeft
    <3> QED
      BY <1>2, <3>1
  <2> QED
    BY <2>1, <2>2
<1>4. ASSUME IAMPrincipals, NEW m \in d.iam, m[1] \in Managed
      PROVE  m \in Decl.iam \/ \E t \in rest \ {s} : t.op = "iam revoke" /\ t.args = m
  <2> SUFFICES ASSUME m \notin Decl.iam
               PROVE  \E t \in rest \ {s} : t.op = "iam revoke" /\ t.args = m
    OBVIOUS
  <2>1. m \in c.iam
    BY <1>2, <1>4
  <2>2. PICK t \in rest : t.op = "iam revoke" /\ t.args = m
    BY <1>4, <2>1 DEF IamLeft
  <2> QED
    BY <1>2, <1>4, <2>2
<1> QED
  BY <1>3, <1>4 DEF IamLeft, d

\* What counts is a matter of the objects and of the declaration.
LEMMA SameCounts ==
  ASSUME NEW c, NEW d, d.owner = c.owner, d.open = c.open
  PROVE  /\ \A e : Counts(d, e) <=> Counts(c, e)
         /\ \A e : DefaultCounts(d, e) <=> DefaultCounts(c, e)
         /\ DesiredGrants(d) = DesiredGrants(c)
         /\ \A s : Given(d, s) = Given(c, s)
<1>1. Objects(d) = Objects(c) /\ Reached(d) = Reached(c)
  BY DEF Objects, Reached, DatabasesToRead
<1>2. Seen(d) = Seen(c) /\ \A db, schema, kind : Relations(d, db, schema, kind) = Relations(c, db, schema, kind)
  BY <1>1 DEF Seen, Relations
<1>3. \A e : Counts(d, e) <=> Counts(c, e)
  BY <1>2 DEF Counts
<1>4. \A e : DefaultCounts(d, e) <=> DefaultCounts(c, e)
  BY <1>1 DEF DefaultCounts
<1>5. DesiredGrants(d) = DesiredGrants(c) /\ \A s : Given(d, s) = Given(c, s)
  <2>1. \A w \in Decl.wide : Relations(d, w[1], w[2], w[3]) = Relations(c, w[1], w[2], w[3])
    BY <1>2
  <2>2. DesiredGrants(d) = DesiredGrants(c)
    BY <2>1 DEF DesiredGrants
  <2>3. ASSUME NEW s PROVE Given(d, s) = Given(c, s)
    <3>1. Relations(d, s.args[1], s.args[3], s.args[2]) = Relations(c, s.args[1], s.args[3], s.args[2])
      BY <1>2
    <3> QED
      BY <3>1 DEF Given, OnAll
  <2> QED
    BY <2>2, <2>3
<1> QED
  BY <1>3, <1>4, <1>5

LEMMA GrantsStep ==
  ASSUME Suited, NEW c, IsCatalog(c), Tidy(c), ~PlanFails(Snapshot(c)),
         NEW rest, GrantsLeft(c, rest), NEW s \in rest, Lawful(s)
  PROVE  GrantsLeft(Effect(c, s), rest \ {s})
<1> DEFINE d == Effect(c, s)
<1>1. d.owner = c.owner /\ d.open = c.open /\ d.acl = (c.acl \cup Given(c, s)) \ Taken(s) /\ IsCatalog(d)
  BY EffectEntries, EffectLawful
<1>2. Held(c) = {e \in c.acl : Counts(c, e)} /\ Held(d) = {e \in d.acl : Counts(d, e)}
  BY <1>1, HeldIs
<1> HIDE DEF d
<1>3. /\ \A e : Counts(d, e) <=> Counts(c, e)
      /\ DesiredGrants(d) = DesiredGrants(c) /\ \A t : Given(d, t) = Given(c, t)
  BY <1>1, SameCounts
<1>4. \A e \in DesiredGrants(c) : Counts(c, e)
  BY WantedCounts
<1>5. Given(c, s) \subseteq DesiredGrants(c) /\ Taken(s) \cap DesiredGrants(c) = {}
  BY DEF GrantsLeft
<1>6. ASSUME NEW e \in DesiredGrants(d)
      PROVE  e \in Held(d) \/ \E t \in rest \ {s} : e \in Given(d, t)
  <2>1. e \in DesiredGrants(c) /\ Counts(d, e) /\ e \notin Taken(s)
    BY <1>3, <1>4, <1>5
  <2>2. CASE e \in Held(c) \/ e \in Given(c, s)
    BY <1>1, <1>2, <2>1, <2>2
  <2>3. CASE ~(e \in Held(c) \/ e \in Given(c, s))
    BY <1>3, <2>1, <2>3 DEF GrantsLeft
  <2> QED
    BY <2>2, <2>3
<1>7. ASSUME NEW e \in Held(d)
      PROVE  e \in DesiredGrants(d) \/ \E t \in rest \ {s} : e \in Taken(t)
  <2>1. e \in d.acl /\ Counts(c, e)
    BY <1>2, <1>3
  <2>2. e \notin Taken(s) /\ (e \in Given(c, s) \/ e \in Held(c))
    BY <1>1, <1>2, <2>1
  <2> QED
    BY <1>3, <1>5, <2>2 DEF GrantsLeft
<1>8. ASSUME NEW t \in rest \ {s}
      PROVE  Given(d, t) \subseteq DesiredGrants(d) /\ Taken(t) \cap DesiredGrants(d) = {}
  BY <1>3 DEF GrantsLeft
<1> QED
  BY <1>6, <1>7, <1>8 DEF GrantsLeft, d

LEMMA DefaultsStep ==
  ASSUME Suited, NEW c, IsCatalog(c), ~PlanFails(Snapshot(c)),
         NEW rest, DefaultsLeft(c, rest), NEW s \in rest, Lawful(s)
  PROVE  DefaultsLeft(Effect(c, s), rest \ {s})
<1> DEFINE d == Effect(c, s)
<1>1. /\ d.owner = c.owner /\ d.open = c.open /\ IsCatalog(d)
      /\ d.dacl = (c.dacl \cup GivenDefaults(s)) \ TakenDefaults(s)
  BY EffectEntries, EffectLawful
<1>2. /\ HeldDefaults(c) = {e \in c.dacl : DefaultCounts(c, e)}
      /\ HeldDefaults(d) = {e \in d.dacl : DefaultCounts(d, e)}
  BY <1>1, HeldIs
<1> HIDE DEF d
<1>3. \A e : DefaultCounts(d, e) <=> DefaultCounts(c, e)
  BY <1>1, SameCounts
<1>4. \A e \in DesiredDefaults : DefaultCounts(c, e)
  BY WantedDefaultsCount
<1>5. GivenDefaults(s) \subseteq DesiredDefaults /\ TakenDefaults(s) \cap DesiredDefaults = {}
  BY DEF DefaultsLeft
<1>6. ASSUME NEW e \in DesiredDefaults
      PROVE  e \in HeldDefaults(d) \/ \E t \in rest \ {s} : e \in GivenDefaults(t)
  <2>1. DefaultCounts(d, e) /\ e \notin TakenDefaults(s)
    BY <1>3, <1>4, <1>5
  <2>2. CASE e \in HeldDefaults(c) \/ e \in GivenDefaults(s)
    BY <1>1, <1>2, <2>1, <2>2
  <2>3. CASE ~(e \in HeldDefaults(c) \/ e \in GivenDefaults(s))
    BY <2>3 DEF DefaultsLeft
  <2> QED
    BY <2>2, <2>3
<1>7. ASSUME NEW e \in HeldDefaults(d)
      PROVE  e \in DesiredDefaults \/ \E t \in rest \ {s} : e \in TakenDefaults(t)
  <2>1. e \in d.dacl /\ DefaultCounts(c, e)
    BY <1>2, <1>3
  <2>2. e \notin TakenDefaults(s) /\ (e \in GivenDefaults(s) \/ e \in HeldDefaults(c))
    BY <1>1, <1>2, <2>1
  <2> QED
    BY <1>5, <2>2 DEF DefaultsLeft
<1> QED
  BY <1>6, <1>7 DEF DefaultsLeft, d

LEMMA BorrowsStep ==
  ASSUME Me \notin Managed, NEW c, IsCatalog(c), NEW rest, BorrowsLeft(c, rest),
         NEW s \in rest, Lawful(s), IsFirst(rest, s)
  PROVE  BorrowsLeft(Effect(c, s), rest \ {s})
<1> DEFINE d == Effect(c, s)
<1>1. d.super = c.super
  BY EffectEntries
<1>2. UndonePlan(rest \ {s})
  <2> SUFFICES ASSUME NEW b \in rest \ {s}, b.op = "borrow"
               PROVE  \E u \in rest \ {s} : IsUndo(u, b) /\ ~Precedes(u, b)
    BY DEF UndonePlan
  <2>1. PICK u \in rest : IsUndo(u, b) /\ ~Precedes(u, b)
    BY DEF BorrowsLeft, UndonePlan
  <2>2. u # s
    BY <2>1 DEF IsFirst
  <2> QED
    BY <2>1, <2>2
<1>3. ASSUME Me \notin c.super, NEW r \in Managed, <<Me, r>> \in d.inherit
      PROVE  \E u \in rest \ {s} : Undoes(u, r)
  <2>1. \/ <<Me, r>> \in c.inherit /\ ~(s.op \in {"return", "drop"} /\ <<Me, r>> = <<Me, s.args[1]>>)
        \/ s.op = "borrow" /\ <<Me, r>> = <<Me, s.args[1]>>
    BY <1>3, EffectInherit
  <2>2. CASE <<Me, r>> \in c.inherit /\ ~(s.op \in {"return", "drop"} /\ <<Me, r>> = <<Me, s.args[1]>>)
    <3>1. PICK u \in rest : Undoes(u, r)
      BY <1>3, <2>2 DEF BorrowsLeft
    <3>2. ~Undoes(s, r)
      BY <2>2 DEF Undoes
    <3> QED
      BY <3>1, <3>2
  <2>3. CASE s.op = "borrow" /\ <<Me, r>> = <<Me, s.args[1]>>
    <3>1. r = s.args[1]
      BY <2>3
    <3>2. PICK u \in rest : IsUndo(u, s)
      BY <2>3 DEF BorrowsLeft, UndonePlan
    <3>3. u # s /\ Undoes(u, r)
      BY <2>3, <3>1, <3>2 DEF IsUndo, Undoes
    <3> QED
      BY <3>2, <3>3
  <2> QED
    BY <2>1, <2>2, <2>3
<1> HIDE DEF d
<1> QED
  BY <1>1, <1>2, <1>3 DEF BorrowsLeft, d

LEMMA LeftStep ==
  ASSUME Suited, NEW c, NEW rest, Left(c, rest), NEW s \in rest, IsFirst(rest, s), Permitted(c, s)
  PROVE  Left(Effect(c, s), rest \ {s})
<1> DEFINE d == Effect(c, s)
<1>1. /\ Sound(c) /\ IsCatalog(c) /\ Tidy(c) /\ ~PlanFails(Snapshot(c)) /\ Lawful(s) /\ Me \notin Managed
      /\ RolesLeft(c, rest) /\ MembersLeft(c, rest) /\ IamLeft(c, rest)
      /\ GrantsLeft(c, rest) /\ DefaultsLeft(c, rest) /\ BorrowsLeft(c, rest)
  BY DEF Left, Sound, Suited
<1>2. Sound(d) /\ IsCatalog(d) /\ c.roles \subseteq d.roles
  BY <1>1, PermittedSound DEF Sound
<1>3. d.owner = c.owner /\ d.open = c.open
  BY <1>1, EffectEntries
<1>4. ~PlanFails(Snapshot(d))
  BY <1>1, <1>2, <1>3, FailsNoMore
<1>5. Tidy(d)
  <2>1. \A e \in GivenDefaults(s) : DefaultKey(e) \in Foreseen
    BY <1>1, WantedDefaults DEF DefaultsLeft
  <2> QED
    BY <1>1, <2>1, TidyStep
<1>6. RolesLeft(d, rest \ {s}) /\ MembersLeft(d, rest \ {s}) /\ IamLeft(d, rest \ {s})
  BY <1>1, RolesStep, MembersStep, IamStep
<1>7. GrantsLeft(d, rest \ {s}) /\ DefaultsLeft(d, rest \ {s}) /\ BorrowsLeft(d, rest \ {s})
  BY <1>1, GrantsStep, DefaultsStep, BorrowsStep
<1>8. \A t \in rest \ {s} : Lawful(t)
  BY DEF Left
<1> HIDE DEF d
<1> QED
  BY <1>2, <1>4, <1>5, <1>6, <1>7, <1>8 DEF Left, d

----------------------------------------------------------------------------
(* The statements of a plan, one by one.                                   *)

CreateOf(r) ==
  Statement(0, <<1, Index(r), 0, 0, 0, 0>>, "create role", <<r, Flag(r \in Decl.login)>>, {}, FALSE, FALSE)
AlterOf(r) ==
  Statement(0, <<1, Index(r), 0, 0, 0, 0>>, "alter role", <<r, Flag(r \in Decl.login)>>, {},
            r \notin Decl.login, FALSE)
JoinOf(m) == Statement(0, <<2, Index(m[1]), 0, m[2], 0, 0>>, "grant role", <<m[2], m[1]>>, {}, FALSE, FALSE)
LeaveOf(m) == Statement(0, <<2, Index(m[1]), 1, m[2], 0, 0>>, "revoke role", <<m[2], m[1]>>, {}, TRUE, FALSE)
MapOf(m) == Statement(0, <<3, Index(m[1]), 0, m[2], 0, 0>>, "iam grant", m, {}, FALSE, FALSE)
UnmapOf(m) == Statement(0, <<3, Index(m[1]), 1, m[2], 0, 0>>, "iam revoke", m, {}, TRUE, FALSE)
WideOf(st, wk) ==
  Statement(wk[1], <<4, 2, wk[2], SequenceKind - wk[3], wk[4], 0>>, "grant all",
            <<wk[1], wk[3], wk[2], wk[4]>>, MissingEverywhere(st, wk), FALSE, FALSE)
GrantOf(st, k) ==
  Statement(k[1][1], <<4, k[1][2], k[1][3], k[1][4], k[2], 0>>, "grant",
            ObjectArgs(k), Missing(st, k), FALSE, FALSE)
RevokeOf(st, k) ==
  Statement(k[1][1], <<4, k[1][2], k[1][3], k[1][4], k[2], 1>>, "revoke",
            ObjectArgs(k), Extra(st, k), TRUE, FALSE)
Step(k, step) == <<5, k[2], k[3], SequenceKind - k[4], k[5], step>>
AddOf(st, k) ==
  Statement(k[1], Step(k, 1), "alter default grant", k, MissingDefaults(st, k), FALSE, FALSE)
RemoveOf(st, k) ==
  Statement(k[1], Step(k, 2), "alter default revoke", k, ExtraDefaults(st, k), TRUE, FALSE)
BorrowOf(k) == Statement(k[1], Step(k, 0), "borrow", <<k[3]>>, {}, FALSE, FALSE)
UndoOf(st, k) == Statement(k[1], Step(k, 3), UndoBorrow(st, k[3]), <<k[3]>>, {}, FALSE, FALSE)
ReleaseOf(st, r) ==
  Statement(Max({0} \cup KeyDatabases(st, r)), <<6, r, 0, 0, 0, 0>>, "return", <<r>>, {},
            TRUE, KeyDatabases(st, r) # {})

LEMMA RoleStatements ==
  \A r : /\ CreateOf(r).op = "create role" /\ CreateOf(r).args = <<r, Flag(r \in Decl.login)>>
         /\ CreateOf(r).db = 0 /\ CreateOf(r).pos = <<1, Index(r), 0, 0, 0, 0>>
         /\ AlterOf(r).op = "alter role" /\ AlterOf(r).args = <<r, Flag(r \in Decl.login)>>
         /\ CreateOf(r).args[1] = r /\ AlterOf(r).args[1] = r
BY DEF CreateOf, AlterOf, Statement

LEMMA MemberStatements ==
  \A m : /\ JoinOf(m).op = "grant role" /\ JoinOf(m).args = <<m[2], m[1]>>
         /\ JoinOf(m).db = 0 /\ JoinOf(m).pos = <<2, Index(m[1]), 0, m[2], 0, 0>>
         /\ LeaveOf(m).op = "revoke role" /\ LeaveOf(m).args = <<m[2], m[1]>>
         /\ LeaveOf(m).db = 0 /\ LeaveOf(m).pos = <<2, Index(m[1]), 1, m[2], 0, 0>>
         /\ MapOf(m).op = "iam grant" /\ MapOf(m).args = m
         /\ MapOf(m).db = 0 /\ MapOf(m).pos = <<3, Index(m[1]), 0, m[2], 0, 0>>
         /\ UnmapOf(m).op = "iam revoke" /\ UnmapOf(m).args = m
BY DEF JoinOf, LeaveOf, MapOf, UnmapOf, Statement

LEMMA GrantStatements ==
  \A st, k :
    /\ WideOf(st, k).op = "grant all" /\ WideOf(st, k).args = <<k[1], k[3], k[2], k[4]>>
    /\ WideOf(st, k).db = k[1] /\ WideOf(st, k).pos = <<4, 2, k[2], SequenceKind - k[3], k[4], 0>>
    /\ WideOf(st, k).privs = MissingEverywhere(st, k)
    /\ GrantOf(st, k).op = "grant" /\ GrantOf(st, k).args = ObjectArgs(k)
    /\ GrantOf(st, k).db = k[1][1] /\ GrantOf(st, k).pos = <<4, k[1][2], k[1][3], k[1][4], k[2], 0>>
    /\ GrantOf(st, k).privs = Missing(st, k)
    /\ RevokeOf(st, k).op = "revoke" /\ RevokeOf(st, k).args = ObjectArgs(k)
    /\ RevokeOf(st, k).db = k[1][1] /\ RevokeOf(st, k).pos = <<4, k[1][2], k[1][3], k[1][4], k[2], 1>>
    /\ RevokeOf(st, k).privs = Extra(st, k)
BY DEF WideOf, GrantOf, RevokeOf, Statement

LEMMA ChangeFields ==
  \A st, k :
    /\ AddOf(st, k).op = "alter default grant" /\ AddOf(st, k).args = k
    /\ AddOf(st, k).db = k[1] /\ AddOf(st, k).pos = Step(k, 1)
    /\ AddOf(st, k).privs = MissingDefaults(st, k)
    /\ RemoveOf(st, k).op = "alter default revoke" /\ RemoveOf(st, k).args = k
    /\ RemoveOf(st, k).db = k[1] /\ RemoveOf(st, k).pos = Step(k, 2)
    /\ RemoveOf(st, k).privs = ExtraDefaults(st, k)
BY DEF AddOf, RemoveOf, Statement

LEMMA BorrowFields ==
  \A st, k :
    /\ BorrowOf(k).op = "borrow" /\ BorrowOf(k).args = <<k[3]>>
    /\ BorrowOf(k).db = k[1] /\ BorrowOf(k).pos = Step(k, 0)
    /\ UndoOf(st, k).op \in {"return", "drop"} /\ UndoOf(st, k).args = <<k[3]>>
    /\ UndoOf(st, k).db = k[1] /\ UndoOf(st, k).pos = Step(k, 3)
BY DEF BorrowOf, UndoOf, UndoBorrow, Statement

LEMMA ReleaseFields ==
  \A st, r :
    /\ ReleaseOf(st, r).op = "return" /\ ReleaseOf(st, r).args = <<r>>
    /\ ReleaseOf(st, r).db = Max({0} \cup KeyDatabases(st, r))
    /\ ReleaseOf(st, r).pos = <<6, r, 0, 0, 0, 0>>
BY DEF ReleaseOf, Statement

\* The statements for one key.
LEMMA KeyStatements ==
  ASSUME NEW st, NEW k
  PROVE  /\ \A s \in DefaultStatements(st, k) :
              \/ s = AddOf(st, k) /\ MissingDefaults(st, k) # {}
              \/ s = RemoveOf(st, k) /\ ExtraDefaults(st, k) # {}
              \/ s \in {BorrowOf(k), UndoOf(st, k)} /\ NeedsCreatorMembership(st, k[3])
         /\ MissingDefaults(st, k) # {} => AddOf(st, k) \in DefaultStatements(st, k)
         /\ ExtraDefaults(st, k) # {} => RemoveOf(st, k) \in DefaultStatements(st, k)
         /\ (MissingDefaults(st, k) # {} \/ ExtraDefaults(st, k) # {}) /\ NeedsCreatorMembership(st, k[3]) =>
              {BorrowOf(k), UndoOf(st, k)} \subseteq DefaultStatements(st, k)
<1> DEFINE alters == {s \in {AddOf(st, k), RemoveOf(st, k)} : s.privs # {}}
<1>1. DefaultStatements(st, k) =
        alters \cup (IF alters # {} /\ NeedsCreatorMembership(st, k[3])
                      THEN {BorrowOf(k), UndoOf(st, k)} ELSE {})
  BY DEF DefaultStatements, AddOf, RemoveOf, BorrowOf, UndoOf, Step
<1>2. AddOf(st, k).privs = MissingDefaults(st, k) /\ RemoveOf(st, k).privs = ExtraDefaults(st, k)
  BY ChangeFields
<1> QED
  BY <1>1, <1>2

----------------------------------------------------------------------------
(* A new plan sees to everything.                                          *)

LEMMA PlanRoles ==
  ASSUME NEW c, IsCatalog(c)
  PROVE  RolesLeft(c, Diff(Snapshot(c)))
<1> DEFINE st == Snapshot(c)
           plan == Diff(st)
<1>1. st.roles = c.roles /\ st.login = c.login
  BY SnapshotFields
<1> HIDE DEF st
<1>2. CreateRoles(st) = {CreateOf(r) : r \in Managed \ st.roles}
  BY DEF CreateRoles, CreateOf
<1>3. AlterRoles(st) = {AlterOf(r) : r \in {q \in Managed \cap st.roles : (q \in Decl.login) # (q \in st.login)}}
  BY DEF AlterRoles, AlterOf
<1>4. ASSUME NEW r \in Managed, r \notin c.roles PROVE \E s \in plan : Creates(s, r)
  <2>1. CreateOf(r) \in plan
    BY <1>1, <1>2, <1>4 DEF Diff
  <2>2. CreateOf(r).op = "create role" /\ CreateOf(r).args[1] = r
    BY RoleStatements
  <2> QED
    BY <2>1, <2>2 DEF Creates
<1>5. ASSUME NEW r \in Managed \cap c.roles, ~(r \in Decl.login <=> r \in c.login)
      PROVE  \E s \in plan : s.op = "alter role" /\ s.args[1] = r
  <2>1. AlterOf(r) \in AlterRoles(st)
    <3>1. (r \in Decl.login) # (r \in c.login)
      BY <1>5
    <3> QED
      BY <1>1, <1>3, <3>1
  <2>2. AlterOf(r).op = "alter role" /\ AlterOf(r).args[1] = r
    BY RoleStatements
  <2> QED
    BY <2>1, <2>2 DEF Diff
<1>6. ASSUME NEW s \in plan, s.op \in {"create role", "alter role"}
      PROVE  s.args[2] = Flag(s.args[1] \in Decl.login)
  <2>1. s \in CreateRoles(st) \cup AlterRoles(st)
    BY <1>6, PlanKinds
  <2>2. PICK r : s = CreateOf(r) \/ s = AlterOf(r)
    BY <1>2, <1>3, <2>1
  <2>3. s.args = <<r, Flag(r \in Decl.login)>>
    BY <2>2, RoleStatements
  <2>4. s.args[1] = r /\ s.args[2] = Flag(r \in Decl.login)
    BY <2>3
  <2> QED
    BY <2>4
<1> HIDE DEF plan
<1>7. RolesLeft(c, plan)
  BY <1>4, <1>5, <1>6 DEF RolesLeft
<1> QED
  BY <1>7 DEF plan, st

LEMMA PlanMembers ==
  ASSUME NEW c, Sound(c)
  PROVE  MembersLeft(c, Diff(Snapshot(c)))
<1> DEFINE st == Snapshot(c)
           plan == Diff(st)
<1>1. st.member = c.member
  BY SnapshotFields DEF Sound
<1> HIDE DEF st
<1>2. Memberships(st) = {JoinOf(m) : m \in Decl.memberOf \ c.member}
                          \cup {LeaveOf(m) : m \in {n \in c.member \ Decl.memberOf : n[1] \in Managed}}
  BY <1>1 DEF Memberships, JoinOf, LeaveOf
<1>3. \A m \in Decl.memberOf \cup c.member : m = <<m[1], m[2]>>
  BY ShapesAssumption DEF Sound, WellFormed
<1>4. \A m \in Decl.memberOf \cup c.member : Pair(JoinOf(m)) = m /\ Pair(LeaveOf(m)) = m
  <2> SUFFICES ASSUME NEW m, m = <<m[1], m[2]>> PROVE Pair(JoinOf(m)) = m /\ Pair(LeaveOf(m)) = m
    BY <1>3
  <2>1. JoinOf(m).args = <<m[2], m[1]>> /\ LeaveOf(m).args = <<m[2], m[1]>>
    BY MemberStatements
  <2>2. Pair(JoinOf(m)) = <<m[1], m[2]>> /\ Pair(LeaveOf(m)) = <<m[1], m[2]>>
    BY <2>1 DEF Pair
  <2> QED
    BY <2>2
<1>5. ASSUME NEW m \in Decl.memberOf, m \notin c.member
      PROVE  \E s \in plan : s.op = "grant role" /\ Pair(s) = m
  <2>1. JoinOf(m) \in plan
    BY <1>2, <1>5 DEF Diff
  <2> QED
    BY <1>4, <2>1, MemberStatements
<1>6. ASSUME NEW m \in c.member, m[1] \in Managed, m \notin Decl.memberOf
      PROVE  \E s \in plan : s.op = "revoke role" /\ Pair(s) = m
  <2>1. LeaveOf(m) \in plan
    BY <1>2, <1>6 DEF Diff
  <2> QED
    BY <1>4, <2>1, MemberStatements
<1>7. ASSUME NEW s \in plan
      PROVE  /\ s.op = "grant role" => Pair(s) \in Decl.memberOf
             /\ s.op = "revoke role" => Pair(s) \notin Decl.memberOf
  <2> SUFFICES ASSUME s.op \in {"grant role", "revoke role"}
               PROVE  /\ s.op = "grant role" => Pair(s) \in Decl.memberOf
                      /\ s.op = "revoke role" => Pair(s) \notin Decl.memberOf
    OBVIOUS
  <2>1. s \in Memberships(st)
    BY PlanKinds
  <2>2. \/ \E m \in Decl.memberOf : s = JoinOf(m)
        \/ \E m \in c.member \ Decl.memberOf : s = LeaveOf(m)
    BY <1>2, <2>1
  <2> QED
    BY <1>4, <2>2, MemberStatements
<1> HIDE DEF plan
<1>8. MembersLeft(c, plan)
  BY <1>5, <1>6, <1>7 DEF MembersLeft
<1> QED
  BY <1>8 DEF plan, st

LEMMA PlanIam ==
  ASSUME NEW c, Sound(c), Tidy(c)
  PROVE  IamLeft(c, Diff(Snapshot(c)))
<1> DEFINE st == Snapshot(c)
           plan == Diff(st)
<1>1. IAMPrincipals => st.iam = c.iam
  <2>1. IAMPrincipals => st.iam = {e \in c.iam : e[1] \in c.roles}
    BY SnapshotFields DEF Sound
  <2> HIDE DEF st
  <2> QED
    BY <2>1 DEF Sound, WellFormed
<1> HIDE DEF st
<1>2. IamStatements(st) = IF ~IAMPrincipals THEN {} ELSE
        {MapOf(m) : m \in Decl.iam \ st.iam}
          \cup {UnmapOf(m) : m \in {n \in st.iam \ Decl.iam : n[1] \in Managed}}
  BY DEF IamStatements, MapOf, UnmapOf
<1>3. \A m \in Decl.iam \cup c.iam : m = <<m[1], m[2]>>
  BY ShapesAssumption DEF Tidy
<1>4. ASSUME IAMPrincipals, NEW m \in Decl.iam, m \notin c.iam
      PROVE  \E s \in plan : s.op = "iam grant" /\ s.args = m
  <2>1. MapOf(m) \in plan
    BY <1>1, <1>2, <1>4 DEF Diff
  <2> QED
    BY <2>1, MemberStatements
<1>5. ASSUME IAMPrincipals, NEW m \in c.iam, m[1] \in Managed, m \notin Decl.iam
      PROVE  \E s \in plan : s.op = "iam revoke" /\ s.args = m
  <2>1. UnmapOf(m) \in plan
    BY <1>1, <1>2, <1>5 DEF Diff
  <2> QED
    BY <2>1, MemberStatements
<1>6. ASSUME NEW s \in plan, s.op \in {"iam grant", "iam revoke"}
      PROVE  /\ s.op = "iam grant" => s.args \in Decl.iam
             /\ s.op = "iam revoke" => s.args \notin Decl.iam
             /\ s.args = <<s.args[1], s.args[2]>>
  <2>1. s \in IamStatements(st)
    BY <1>6, PlanKinds
  <2>2. \/ \E m \in Decl.iam : s = MapOf(m)
        \/ \E m \in c.iam \ Decl.iam : s = UnmapOf(m)
    BY <1>1, <1>2, <2>1
  <2>3. PICK m \in Decl.iam \cup c.iam :
          (s = MapOf(m) /\ m \in Decl.iam) \/ (s = UnmapOf(m) /\ m \notin Decl.iam)
    BY <2>2
  <2>4. s.args = m /\ m = <<m[1], m[2]>>
    BY <1>3, <2>3, MemberStatements
  <2> QED
    BY <2>3, <2>4, MemberStatements
<1> HIDE DEF plan
<1>7. IamLeft(c, plan)
  BY <1>4, <1>5, <1>6 DEF IamLeft
<1> QED
  BY <1>7 DEF plan, st

\* What the planner compares are triples, on objects there are.
LEMMA EntryShapes ==
  ASSUME Suited, NEW c, IsCatalog(c), Tidy(c), ~PlanFails(Snapshot(c)), NEW e \in DesiredGrants(c) \cup Held(c)
  PROVE  /\ e = <<e[1], e[2], e[3]>> /\ e[1] \in Objects(c)
         /\ e[1] = <<e[1][1], e[1][2], e[1][3], e[1][4]>>
<1>1. e[1] \in Objects(c)
  BY HeldIs, WantedExists DEF Counts, Seen
<1>2. e[1] = <<e[1][1], e[1][2], e[1][3], e[1][4]>>
  <2>1. <<c.owner[e[1]], e[1]>> \in Ownable /\ <<c.owner[e[1]], e[1]>>[2] = e[1]
    BY <1>1 DEF Tidy
  <2> QED
    BY <2>1, OwnableShapes
<1>3. CASE e \in Held(c)
  BY <1>1, <1>2, <1>3, HeldIs DEF Tidy
<1>4. CASE e \in Decl.grants
  BY <1>1, <1>2, <1>4, ShapesAssumption
<1>5. ASSUME NEW w, NEW o, e = <<o, w[4], w[5]>> PROVE e = <<e[1], e[2], e[3]>>
  BY <1>5
<1>6. CASE e \in DesiredGrants(c) \ Decl.grants
  BY <1>1, <1>2, <1>5, <1>6 DEF DesiredGrants
<1> QED
  BY <1>3, <1>4, <1>6

LEMMA PlanGrants ==
  ASSUME Suited, NEW c, IsCatalog(c), Tidy(c), ~PlanFails(Snapshot(c))
  PROVE  GrantsLeft(c, Diff(Snapshot(c)))
<1> DEFINE st == Snapshot(c)
           plan == Diff(st)
<1>1. /\ DesiredGrants(st) = DesiredGrants(c) /\ ActualGrants(st) = Held(c)
      /\ \A w \in Decl.wide : Relations(st, w[1], w[2], w[3]) = Relations(c, w[1], w[2], w[3])
  BY WantedSeen DEF PlanFails, Held
<1>2. \A e \in DesiredGrants(c) \cup Held(c) :
        /\ e = <<e[1], e[2], e[3]>> /\ e[1] \in Objects(c)
        /\ e[1] = <<e[1][1], e[1][2], e[1][3], e[1][4]>>
  BY EntryShapes
<1> HIDE DEF st
<1> DEFINE keys == {Key(e) : e \in DesiredGrants(c) \cup Held(c)}
<1>3. ObjectGrants(st) = {GrantOf(st, k) : k \in {j \in keys : Missing(st, j) # {}}}
                           \cup {RevokeOf(st, k) : k \in {j \in keys : Extra(st, j) # {}}}
  BY <1>1 DEF ObjectGrants, GrantOf, RevokeOf
<1>4. WideGrants(st) = {WideOf(st, wk) : wk \in {k \in {WideKey(w) : w \in Decl.wide} : MissingEverywhere(st, k) # {}}}
  BY DEF WideGrants, WideOf
<1>5. \A k, e : e \in DesiredGrants(c) \cup Held(c) /\ Key(e) = k =>
        /\ k[1] = e[1] /\ k[2] = e[2] /\ \A q : <<<<k[1][1], k[1][2], k[1][3], k[1][4]>>, k[2], q>> = <<e[1], e[2], q>>
  BY <1>2 DEF Key
<1>6. \A k \in keys :
        /\ OnObject(GrantOf(st, k)) = {<<k[1], k[2], q>> : q \in Missing(st, k)}
        /\ OnObject(RevokeOf(st, k)) = {<<k[1], k[2], q>> : q \in Extra(st, k)}
  <2> SUFFICES ASSUME NEW k \in keys
               PROVE  /\ OnObject(GrantOf(st, k)) = {<<k[1], k[2], q>> : q \in Missing(st, k)}
                      /\ OnObject(RevokeOf(st, k)) = {<<k[1], k[2], q>> : q \in Extra(st, k)}
    OBVIOUS
  <2>1. k[1] = <<k[1][1], k[1][2], k[1][3], k[1][4]>>
    BY <1>2, <1>5
  <2>2. ASSUME NEW s, s.args = ObjectArgs(k)
        PROVE  OnObject(s) = {<<k[1], k[2], q>> : q \in s.privs}
    <3>1. s.args[1] = k[1][1] /\ s.args[2] = k[1][2] /\ s.args[3] = k[1][3] /\ s.args[4] = k[1][4] /\ s.args[5] = k[2]
      BY <2>2 DEF ObjectArgs
    <3>2. <<s.args[1], s.args[2], s.args[3], s.args[4]>> = k[1]
      BY <2>1, <3>1
    <3> QED
      BY <3>1, <3>2 DEF OnObject
  <2>3. GrantOf(st, k).args = ObjectArgs(k) /\ GrantOf(st, k).privs = Missing(st, k)
    BY GrantStatements
  <2>4. RevokeOf(st, k).args = ObjectArgs(k) /\ RevokeOf(st, k).privs = Extra(st, k)
    BY GrantStatements
  <2> QED
    BY <2>2, <2>3, <2>4
<1>7. \A k \in keys : \A q :
        /\ q \in Privileges(DesiredGrants(c), k) <=> <<k[1], k[2], q>> \in DesiredGrants(c)
        /\ q \in Privileges(Held(c), k) <=> <<k[1], k[2], q>> \in Held(c)
  <2> SUFFICES ASSUME NEW k \in keys, NEW q, NEW entries \in {DesiredGrants(c), Held(c)}
               PROVE  q \in Privileges(entries, k) <=> <<k[1], k[2], q>> \in entries
    OBVIOUS
  <2>1. k = <<k[1], k[2]>>
    BY DEF Key
  <2>2. ASSUME NEW f \in entries, Key(f) = k, f[3] = q PROVE <<k[1], k[2], q>> = f
    <3>1. f = <<f[1], f[2], f[3]>>
      BY <1>2
    <3>2. f[1] = k[1] /\ f[2] = k[2]
      BY <2>2, <1>5
    <3> QED
      BY <2>2, <3>1, <3>2
  <2>3. ASSUME <<k[1], k[2], q>> \in entries PROVE q \in Privileges(entries, k)
    <3> DEFINE f == <<k[1], k[2], q>>
    <3>1. f \in entries /\ Key(f) = k /\ f[3] = q
      BY <2>1, <2>3 DEF Key
    <3> HIDE DEF f
    <3> QED
      BY <3>1 DEF Privileges
  <2> QED
    BY <2>2, <2>3 DEF Privileges
<1>8. ASSUME NEW e \in DesiredGrants(c), e \notin Held(c)
      PROVE  \E s \in plan : e \in Given(c, s)
  <2> DEFINE k == Key(e)
             wk == <<k[1][1], k[1][3], k[1][2], k[2]>>
  <2>1. k \in keys /\ k[1] = e[1] /\ k[2] = e[2] /\ e = <<k[1], k[2], e[3]>>
    BY <1>2 DEF Key
  <2>2. CASE e[3] \in MissingEverywhere(st, wk)
    <3>1. wk \in {WideKey(w) : w \in Decl.wide}
      BY <2>2 DEF MissingEverywhere
    <3>2. WideOf(st, wk) \in plan
      BY <1>4, <2>2, <3>1 DEF Diff
    <3>3. /\ WideOf(st, wk).op = "grant all" /\ WideOf(st, wk).privs = MissingEverywhere(st, wk)
          /\ WideOf(st, wk).args = <<wk[1], wk[3], wk[2], wk[4]>>
      BY GrantStatements
    <3>4. wk[1] = e[1][1] /\ wk[2] = e[1][3] /\ wk[3] = e[1][2] /\ wk[4] = e[2]
      BY <2>1
    <3>5. PICK s \in plan : /\ s.op = "grant all" /\ s.privs = MissingEverywhere(st, wk)
                            /\ s.args = <<wk[1], wk[3], wk[2], wk[4]>>
      BY <3>2, <3>3
    <3> HIDE DEF wk, k, plan
    <3>6. s.args[1] = wk[1] /\ s.args[2] = wk[3] /\ s.args[3] = wk[2] /\ s.args[4] = wk[4]
      <4>1. s.args = <<wk[1], wk[3], wk[2], wk[4]>>
        BY <3>5
      <4> QED
        BY <4>1
    <3>7. e[1] \in Relations(c, s.args[1], s.args[3], s.args[2]) /\ e[3] \in s.privs
      BY <1>2, <2>2, <3>4, <3>5, <3>6 DEF Relations
    <3>8. e = <<e[1], s.args[4], e[3]>>
      BY <1>2, <3>4, <3>6
    <3>9. e \in OnAll(c, s)
      BY <3>7, <3>8 DEF OnAll
    <3> QED
      BY <3>5, <3>9 DEF Given
  <2>3. CASE e[3] \notin MissingEverywhere(st, wk)
    <3> HIDE DEF k
    <3>1. e[3] \in Missing(st, k)
      BY <1>1, <1>7, <1>8, <2>1, <2>3 DEF Missing
    <3>2. GrantOf(st, k) \in plan
      BY <1>3, <2>1, <3>1 DEF Diff
    <3>3. e \in OnObject(GrantOf(st, k))
      BY <1>6, <2>1, <3>1
    <3> QED
      BY <3>2, <3>3, GrantStatements DEF Given
  <2> QED
    BY <2>2, <2>3
<1>9. ASSUME NEW e \in Held(c), e \notin DesiredGrants(c)
      PROVE  \E s \in plan : e \in Taken(s)
  <2> DEFINE k == Key(e)
  <2>1. k \in keys /\ e = <<k[1], k[2], e[3]>>
    BY <1>2 DEF Key
  <2> HIDE DEF k
  <2>2. e[3] \in Extra(st, k)
    BY <1>1, <1>7, <1>9, <2>1 DEF Extra
  <2>3. RevokeOf(st, k) \in plan
    BY <1>3, <2>1, <2>2 DEF Diff
  <2>4. e \in OnObject(RevokeOf(st, k))
    BY <1>6, <2>1, <2>2
  <2> QED
    BY <2>3, <2>4, GrantStatements DEF Taken
<1>10. ASSUME NEW s \in plan
       PROVE  Given(c, s) \subseteq DesiredGrants(c) /\ Taken(s) \cap DesiredGrants(c) = {}
  <2>1. CASE s.op = "grant"
    <3>1. s \in ObjectGrants(st)
      BY <2>1, PlanKinds
    <3>2. PICK k \in keys : s = GrantOf(st, k)
      <4>1. PICK k \in keys : s = GrantOf(st, k) \/ s = RevokeOf(st, k)
        BY <1>3, <3>1
      <4> QED
        BY <2>1, <4>1, GrantStatements
    <3>3. \A q \in Missing(st, k) : <<k[1], k[2], q>> \in DesiredGrants(c)
      BY <1>1, <1>7 DEF Missing
    <3>4. OnObject(s) \subseteq DesiredGrants(c)
      BY <1>6, <3>2, <3>3
    <3> QED
      BY <2>1, <3>4 DEF Given, Taken
  <2>2. CASE s.op = "revoke"
    <3>1. s \in ObjectGrants(st)
      BY <2>2, PlanKinds
    <3>2. PICK k \in keys : s = RevokeOf(st, k)
      <4>1. PICK k \in keys : s = GrantOf(st, k) \/ s = RevokeOf(st, k)
        BY <1>3, <3>1
      <4> QED
        BY <2>2, <4>1, GrantStatements
    <3>3. \A q \in Extra(st, k) : <<k[1], k[2], q>> \notin DesiredGrants(c)
      BY <1>1, <1>7 DEF Extra
    <3>4. OnObject(s) \cap DesiredGrants(c) = {}
      BY <1>6, <3>2, <3>3
    <3> QED
      BY <2>2, <3>4 DEF Given, Taken
  <2>3. CASE s.op = "grant all"
    <3>1. s \in WideGrants(st)
      BY <2>3, PlanKinds
    <3>2. PICK w \in Decl.wide : s = WideOf(st, WideKey(w))
      BY <1>4, <3>1
    <3>3. s.privs = MissingEverywhere(st, WideKey(w))
          /\ s.args[1] = w[1] /\ s.args[2] = w[3] /\ s.args[3] = w[2] /\ s.args[4] = w[4]
      <4>1. PICK wk : wk = WideKey(w)
        OBVIOUS
      <4>2. wk[1] = w[1] /\ wk[2] = w[2] /\ wk[3] = w[3] /\ wk[4] = w[4]
        BY <4>1 DEF WideKey
      <4>3. s.privs = MissingEverywhere(st, wk) /\ s.args = <<wk[1], wk[3], wk[2], wk[4]>>
        BY <3>2, <4>1, GrantStatements
      <4>4. s.args[1] = wk[1] /\ s.args[2] = wk[3] /\ s.args[3] = wk[2] /\ s.args[4] = wk[4]
        BY <4>3
      <4> QED
        BY <4>1, <4>2, <4>3, <4>4
    <3>4. ASSUME NEW o \in Relations(c, w[1], w[2], w[3]), NEW q \in s.privs
          PROVE  <<o, w[4], q>> \in DesiredGrants(c)
      <4>1. PICK v \in Decl.wide : WideKey(v) = WideKey(w) /\ q = v[5]
        BY <3>3, <3>4 DEF MissingEverywhere
      <4>2. v[1] = w[1] /\ v[2] = w[2] /\ v[3] = w[3] /\ v[4] = w[4]
        BY <4>1 DEF WideKey
      <4>3. <<o, v[4], v[5]>> \in DesiredGrants(c)
        BY <4>2 DEF DesiredGrants
      <4> QED
        BY <4>1, <4>2, <4>3
    <3>5. OnAll(c, s) \subseteq DesiredGrants(c)
      BY <3>3, <3>4 DEF OnAll
    <3> QED
      BY <2>3, <3>5 DEF Given, Taken
  <2>4. CASE s.op \notin {"grant", "revoke", "grant all"}
    BY <2>4 DEF Given, Taken
  <2> QED
    BY <2>1, <2>2, <2>3, <2>4
<1> HIDE DEF plan
<1>11. GrantsLeft(c, plan)
  BY <1>8, <1>9, <1>10 DEF GrantsLeft
<1> QED
  BY <1>11 DEF plan, st

\* The privileges a key has among some entries.
LEMMA DefaultPrivsAre ==
  ASSUME NEW entries, \A e \in entries : e = <<e[1], e[2], e[3], e[4], e[5], e[6]>>,
         NEW k, k = <<k[1], k[2], k[3], k[4], k[5]>>, NEW q
  PROVE  q \in DefaultPrivs(entries, k) <=> <<k[1], k[2], k[3], k[4], k[5], q>> \in entries
<1> DEFINE new == <<k[1], k[2], k[3], k[4], k[5], q>>
<1>1. ASSUME NEW f \in entries, DefaultKey(f) = k, f[6] = q PROVE new = f
  <2>1. k[1] = f[1] /\ k[2] = f[2] /\ k[3] = f[3] /\ k[4] = f[4] /\ k[5] = f[5]
    BY <1>1 DEF DefaultKey
  <2>2. f = <<f[1], f[2], f[3], f[4], f[5], f[6]>>
    OBVIOUS
  <2> QED
    BY <1>1, <2>1, <2>2
<1>2. ASSUME new \in entries PROVE q \in DefaultPrivs(entries, k)
  <2>1. DefaultKey(new) = k /\ new[6] = q
    BY DEF DefaultKey
  <2> HIDE DEF new
  <2> QED
    BY <1>2, <2>1 DEF DefaultPrivs
<1> QED
  BY <1>1, <1>2 DEF DefaultPrivs

LEMMA PlanDefaults ==
  ASSUME NEW c, IsCatalog(c), Tidy(c)
  PROVE  DefaultsLeft(c, Diff(Snapshot(c)))
<1> DEFINE st == Snapshot(c)
           plan == Diff(st)
           held == ActualDefaults(st)
           tuple(k, q) == <<k[1], k[2], k[3], k[4], k[5], q>>
<1>1. held = HeldDefaults(c) /\ HeldDefaults(c) \subseteq c.dacl
  BY HeldIs DEF HeldDefaults
<1> HIDE DEF st
<1>2. \A e \in DesiredDefaults : e = <<e[1], e[2], e[3], e[4], e[5], e[6]>>
  BY WantedDefaults
<1>3. \A e \in held : e = <<e[1], e[2], e[3], e[4], e[5], e[6]>>
  BY <1>1 DEF Tidy
<1> HIDE DEF held
<1>4. \A k \in DefaultKeys(st) : k = <<k[1], k[2], k[3], k[4], k[5]>>
  BY DEF DefaultKeys, DefaultKey
<1>5. ASSUME NEW k \in DefaultKeys(st), NEW q
      PROVE  /\ q \in MissingDefaults(st, k) <=> tuple(k, q) \in DesiredDefaults \ held
             /\ q \in ExtraDefaults(st, k) <=> tuple(k, q) \in held \ DesiredDefaults
  <2>1. q \in DefaultPrivs(DesiredDefaults, k) <=> tuple(k, q) \in DesiredDefaults
    BY <1>2, <1>4, DefaultPrivsAre
  <2>2. q \in DefaultPrivs(held, k) <=> tuple(k, q) \in held
    BY <1>3, <1>4, DefaultPrivsAre
  <2> HIDE DEF tuple
  <2> QED
    BY <2>1, <2>2 DEF MissingDefaults, ExtraDefaults, held
<1>6. ASSUME NEW e \in DesiredDefaults \cup held
      PROVE  DefaultKey(e) \in DefaultKeys(st) /\ tuple(DefaultKey(e), e[6]) = e
  <2>1. DefaultKey(e) \in DefaultKeys(st)
    BY DEF DefaultKeys, held
  <2>2. PICK k : k = DefaultKey(e)
    OBVIOUS
  <2>3. k[1] = e[1] /\ k[2] = e[2] /\ k[3] = e[3] /\ k[4] = e[4] /\ k[5] = e[5]
    BY <2>2 DEF DefaultKey
  <2>4. e = <<e[1], e[2], e[3], e[4], e[5], e[6]>>
    BY <1>2, <1>3
  <2>5. tuple(k, e[6]) = e
    BY <2>3, <2>4
  <2> QED
    BY <2>1, <2>2, <2>5
<1>7. ASSUME NEW k, NEW s, s.args = k
      PROVE  OnDefault(s) = {tuple(k, q) : q \in s.privs}
  BY <1>7 DEF OnDefault
<1>8. ASSUME NEW k
      PROVE  /\ OnDefault(AddOf(st, k)) = {tuple(k, q) : q \in MissingDefaults(st, k)}
             /\ OnDefault(RemoveOf(st, k)) = {tuple(k, q) : q \in ExtraDefaults(st, k)}
  <2>1. AddOf(st, k).args = k /\ AddOf(st, k).privs = MissingDefaults(st, k)
    BY ChangeFields
  <2>2. RemoveOf(st, k).args = k /\ RemoveOf(st, k).privs = ExtraDefaults(st, k)
    BY ChangeFields
  <2> HIDE DEF tuple
  <2> QED
    BY <1>7, <2>1, <2>2
<1> HIDE DEF tuple
<1>9. ASSUME NEW e \in DesiredDefaults, e \notin held
      PROVE  \E s \in plan : e \in GivenDefaults(s)
  <2>1. PICK k \in DefaultKeys(st) : tuple(k, e[6]) = e
    BY <1>6
  <2>2. e[6] \in MissingDefaults(st, k)
    BY <1>5, <1>9, <2>1
  <2>3. AddOf(st, k) \in plan
    BY <2>2, KeyStatements DEF Diff, DefaultPrivileges
  <2>4. e \in OnDefault(AddOf(st, k))
    BY <1>8, <2>1, <2>2
  <2> QED
    BY <2>3, <2>4, ChangeFields DEF GivenDefaults
<1>10. ASSUME NEW e \in held, e \notin DesiredDefaults
       PROVE  \E s \in plan : e \in TakenDefaults(s)
  <2>1. PICK k \in DefaultKeys(st) : tuple(k, e[6]) = e
    BY <1>6
  <2>2. e[6] \in ExtraDefaults(st, k)
    BY <1>5, <1>10, <2>1
  <2>3. RemoveOf(st, k) \in plan
    BY <2>2, KeyStatements DEF Diff, DefaultPrivileges
  <2>4. e \in OnDefault(RemoveOf(st, k))
    BY <1>8, <2>1, <2>2
  <2> QED
    BY <2>3, <2>4, ChangeFields DEF TakenDefaults
<1>11. ASSUME NEW s \in plan
       PROVE  GivenDefaults(s) \subseteq DesiredDefaults /\ TakenDefaults(s) \cap DesiredDefaults = {}
  <2> SUFFICES ASSUME s.op \in {"alter default grant", "alter default revoke"}
               PROVE  GivenDefaults(s) \subseteq DesiredDefaults /\ TakenDefaults(s) \cap DesiredDefaults = {}
    BY DEF GivenDefaults, TakenDefaults
  <2>1. s \in DefaultPrivileges(st)
    BY PlanKinds
  <2>2. PICK k \in DefaultKeys(st) : s \in DefaultStatements(st, k)
    BY <2>1 DEF DefaultPrivileges
  <2>3. s = AddOf(st, k) \/ s = RemoveOf(st, k) \/ s \in {BorrowOf(k), UndoOf(st, k)}
    BY <2>2, KeyStatements
  <2>4. s = AddOf(st, k) \/ s = RemoveOf(st, k)
    <3>1. BorrowOf(k).op = "borrow" /\ UndoOf(st, k).op \in {"return", "drop"}
      BY BorrowFields
    <3> QED
      BY <2>3, <3>1
  <2>5. CASE s = AddOf(st, k)
    <3>1. OnDefault(s) = {tuple(k, q) : q \in MissingDefaults(st, k)}
      BY <1>8, <2>5
    <3>2. OnDefault(s) \subseteq DesiredDefaults
      BY <1>5, <3>1
    <3>3. s.op = "alter default grant"
      BY <2>5, ChangeFields
    <3> QED
      BY <3>2, <3>3 DEF GivenDefaults, TakenDefaults
  <2>6. CASE s = RemoveOf(st, k)
    <3>1. OnDefault(s) = {tuple(k, q) : q \in ExtraDefaults(st, k)}
      BY <1>8, <2>6
    <3>2. OnDefault(s) \cap DesiredDefaults = {}
      BY <1>5, <3>1
    <3>3. s.op = "alter default revoke"
      BY <2>6, ChangeFields
    <3> QED
      BY <3>2, <3>3 DEF GivenDefaults, TakenDefaults
  <2> QED
    BY <2>4, <2>5, <2>6
<1> HIDE DEF plan
<1>12. DefaultsLeft(c, plan)
  BY <1>1, <1>9, <1>10, <1>11 DEF DefaultsLeft
<1> QED
  BY <1>12 DEF plan, st

LEMMA PlanBorrows ==
  ASSUME Me \notin Managed, NEW c, IsCatalog(c), Tidy(c), Me \in c.roles
  PROVE  BorrowsLeft(c, Diff(Snapshot(c)))
<1> DEFINE st == Snapshot(c)
           plan == Diff(st)
<1>1. /\ st.roles = c.roles /\ st.super = c.super /\ st.inherit = c.inherit /\ st.dacl \subseteq c.dacl
  BY SnapshotFields
<1> HIDE DEF st
<1>2. UndonePlan(plan)
  BY <1>1, DiffUndone DEF Tidy
<1>3. ASSUME Me \notin c.super, NEW r \in Managed, <<Me, r>> \in c.inherit
      PROVE  \E u \in plan : Undoes(u, r)
  <2>1. r \in StaleBorrows(st)
    BY <1>1, <1>3 DEF StaleBorrows, Exempt
  <2>2. ReleaseOf(st, r) \in plan
    BY <2>1 DEF Diff, ReleaseStaleBorrows, ReleaseOf
  <2>3. ReleaseOf(st, r).op = "return" /\ ReleaseOf(st, r).args = <<r>>
    BY ReleaseFields
  <2>4. ReleaseOf(st, r).args[1] = r
    BY <2>3
  <2> QED
    BY <2>2, <2>3, <2>4 DEF Undoes
<1> HIDE DEF plan
<1>4. BorrowsLeft(c, plan)
  BY <1>2, <1>3 DEF BorrowsLeft
<1> QED
  BY <1>4 DEF plan, st

LEMMA LeftPlan ==
  ASSUME Suited, NEW c, Sound(c), Tidy(c), ~PlanFails(Snapshot(c))
  PROVE  Left(c, Diff(Snapshot(c)))
<1>1. IsCatalog(c) /\ Me \in c.roles /\ Me \notin Managed
  BY DEF Sound, Suited
<1>2. \A s \in Diff(Snapshot(c)) : Lawful(s)
  BY PlanLawful
<1>3. /\ RolesLeft(c, Diff(Snapshot(c))) /\ MembersLeft(c, Diff(Snapshot(c)))
      /\ IamLeft(c, Diff(Snapshot(c)))
  BY <1>1, PlanRoles, PlanMembers, PlanIam
<1>4. /\ GrantsLeft(c, Diff(Snapshot(c))) /\ DefaultsLeft(c, Diff(Snapshot(c)))
      /\ BorrowsLeft(c, Diff(Snapshot(c)))
  BY <1>1, PlanGrants, PlanDefaults, PlanBorrows
<1> QED
  BY <1>2, <1>3, <1>4 DEF Left

----------------------------------------------------------------------------
(* The statement whose turn it is, the server permits; and carrying it out *)
(* leaves the others executable.                                           *)

LEMMA ReachesFewer ==
  ASSUME NEW pairs, NEW fewer, fewer \subseteq pairs, NEW a, NEW b, ~Reaches(pairs, a, b)
  PROVE  ~Reaches(fewer, a, b)
<1>1. PICK S : a \in S /\ b \notin S /\ Closed(S, pairs)
  BY Unreachable
<1>2. Closed(S, fewer)
  BY <1>1 DEF Closed
<1> QED
  BY <1>1, <1>2, Unreachable

LEMMA ReachesOne ==
  ASSUME NEW pairs, NEW a, NEW b, a = b \/ <<a, b>> \in pairs
  PROVE  Reaches(pairs, a, b)
<1> SUFFICES ASSUME NEW S, a \in S, b \notin S, Closed(S, pairs) PROVE FALSE
  BY Unreachable
<1>1. \A e \in pairs : e[1] \in S => e[2] \in S
  BY DEF Closed
<1>2. <<a, b>> \in pairs => b \in S
  <2> DEFINE e == <<a, b>>
  <2>1. e[1] = a /\ e[2] = b
    OBVIOUS
  <2> HIDE DEF e
  <2>2. e \in pairs => b \in S
    BY <1>1, <2>1
  <2> QED
    BY <2>2 DEF e
<1> QED
  BY <1>2

LEMMA FirstPermitted ==
  ASSUME ~OwnerChecks, Acyclic(Possible), NEW c, NEW rest, Executable(c, rest),
         NEW s, IsFirst(rest, s), Lawful(s)
  PROVE  Permitted(c, s)
<1>1. s \in rest /\ \A t \in rest : t # s => Precedes(s, t)
  BY DEF IsFirst
<1>2. \A r \in Needed(s) : r \in c.roles
  BY <1>1 DEF Executable, RolesCome
<1>3. \A x, y : <<x, y>> \in Possible => ~Reaches(c.member, y, x)
  <2> SUFFICES ASSUME NEW x, NEW y, <<x, y>> \in Possible PROVE ~Reaches(c.member, y, x)
    OBVIOUS
  <2>1. ~Reaches(Possible, <<x, y>>[2], <<x, y>>[1])
    BY DEF Acyclic
  <2>2. ~Reaches(Possible, y, x)
    BY <2>1
  <2> QED
    BY <2>2, ReachesFewer DEF Executable, MembersFit
<1>4. \A o : MayGrantOn(c, o)
  BY DEF MayGrantOn
<1>5. CASE s.op = "create role"
  <2>1. s.args[1] \in Managed /\ Creates(s, s.args[1])
    BY <1>5 DEF Lawful, Creates
  <2>2. s.args[1] \notin c.roles
    BY <1>1, <2>1 DEF Executable, RolesCome
  <2> QED
    BY <1>5, <2>2 DEF Permitted
<1>6. CASE s.op \in {"alter role", "iam grant", "iam revoke", "return", "drop"}
  <2>1. s.args[1] \in c.roles
    BY <1>2, <1>6 DEF Needed
  <2> QED
    BY <1>6, <2>1 DEF Permitted
<1>7. CASE s.op \in {"grant role", "revoke role"}
  <2>1. {s.args[1], s.args[2]} \subseteq c.roles
    BY <1>2, <1>7 DEF Needed
  <2>2. s.op = "grant role" => ~Reaches(c.member, s.args[1], s.args[2])
    BY <1>1, <1>3 DEF Executable, MembersFit, Fits, Pair
  <2> QED
    BY <1>7, <2>1, <2>2 DEF Permitted
<1>8. CASE s.op \in {"grant", "revoke"}
  <2>1. s.args[5] \in c.roles
    BY <1>2, <1>8 DEF Needed
  <2>2. <<s.args[1], s.args[2], s.args[3], s.args[4]>> \in Objects(c)
    BY <1>1, <1>8 DEF Executable, ObjectsThere
  <2> QED
    BY <1>4, <1>8, <2>1, <2>2 DEF Permitted
<1>9. CASE s.op = "grant all"
  <2>1. s.args[4] \in c.roles
    BY <1>2, <1>9 DEF Needed
  <2> QED
    BY <1>4, <1>9, <2>1 DEF Permitted
<1>10. CASE s.op \in {"alter default grant", "alter default revoke"}
  <2>1. {s.args[3], s.args[5]} \subseteq c.roles
    BY <1>2, <1>10 DEF Needed
  <2>2. Lent(c, rest, s)
    BY <1>1, <1>10 DEF Executable, CreatorsLent
  <2>3. ~\E b \in rest : b.op = "borrow" /\ ~Precedes(s, b)
    BY <1>1, <1>10
  <2>4. Me \in c.super \/ s.args[3] = Me \/ <<Me, s.args[3]>> \in c.inherit
    BY <2>2, <2>3 DEF Lent
  <2>5. HasPrivilegesOf(c, s.args[3])
    BY <2>4, ReachesOne DEF HasPrivilegesOf
  <2> QED
    BY <1>10, <2>1, <2>5 DEF Permitted
<1>11. CASE s.op = "borrow"
  <2>1. s.args[1] \in c.roles
    BY <1>2, <1>11 DEF Needed
  <2>2. ~Reaches(c.member, s.args[1], Me)
    BY <1>1, <1>3, <1>11 DEF Executable, MembersFit, Fits
  <2> QED
    BY <1>11, <2>1, <2>2 DEF Permitted
<1> QED
  BY <1>5, <1>6, <1>7, <1>8, <1>9, <1>10, <1>11 DEF Lawful

LEMMA EffectFits ==
  ASSUME NEW c, IsCatalog(c), NEW s, Lawful(s), Fits(s), c.member \subseteq Possible
  PROVE  Effect(c, s).member \subseteq Possible
<1> DEFINE d == Effect(c, s)
<1>1. /\ s.op = "grant role" => d.member = c.member \cup {Pair(s)}
      /\ s.op \in {"create role", "borrow"} => d.member \in {c.member, c.member \cup {<<Me, s.args[1]>>}}
      /\ s.op \notin {"grant role", "create role", "borrow"} => d.member \subseteq c.member
  BY EffectMembers
<1> HIDE DEF d
<1>2. CASE s.op \in {"create role", "borrow"}
  <2>1. <<Me, s.args[1]>> \in Possible
    BY <1>2 DEF Fits
  <2>2. d.member \in {c.member, c.member \cup {<<Me, s.args[1]>>}}
    BY <1>1, <1>2
  <2>3. d.member \subseteq Possible
    BY <2>1, <2>2
  <2> QED
    BY <2>3 DEF d
<1>3. CASE s.op = "grant role"
  <2>1. d.member \subseteq Possible
    BY <1>1, <1>3 DEF Fits
  <2> QED
    BY <2>1 DEF d
<1>4. CASE s.op \notin {"grant role", "create role", "borrow"}
  <2>1. d.member \subseteq Possible
    BY <1>1, <1>4
  <2> QED
    BY <2>1 DEF d
<1> QED
  BY <1>2, <1>3, <1>4

LEMMA ExecutableStep ==
  ASSUME Me \notin Managed, NEW c, IsCatalog(c), NEW rest, Executable(c, rest),
         NEW s, IsFirst(rest, s), Lawful(s)
  PROVE  Executable(Effect(c, s), rest \ {s})
<1> DEFINE d == Effect(c, s)
<1>1. s \in rest /\ \A t \in rest : t # s => Precedes(s, t)
  BY DEF IsFirst
<1>2. d.roles = IF s.op = "create role" THEN c.roles \cup {s.args[1]} ELSE c.roles
  BY EffectCluster
<1>3. d.owner = c.owner /\ d.super = c.super
  BY EffectEntries
<1>4. d.member \subseteq Possible
  BY <1>1, EffectFits DEF Executable, MembersFit
<1>5. /\ \A r : <<Me, r>> \in c.inherit /\ ~Undoes(s, r) => <<Me, r>> \in d.inherit
      /\ s.op = "borrow" => <<Me, s.args[1]>> \in d.inherit
  BY EffectLends
<1> HIDE DEF d
<1>6. RolesCome(d, rest \ {s})
  <2>1. ASSUME NEW t \in rest \ {s}, NEW r \in Needed(t)
        PROVE  r \in d.roles \/ \E x \in rest \ {s} : Creates(x, r) /\ x # t /\ ~Precedes(t, x)
    <3>1. r \in c.roles \/ \E x \in rest : Creates(x, r) /\ x # t /\ ~Precedes(t, x)
      BY <2>1 DEF Executable, RolesCome
    <3>2. Creates(s, r) => r \in d.roles
      BY <1>2 DEF Creates
    <3> QED
      BY <1>2, <3>1, <3>2
  <2>2. ASSUME NEW t \in rest \ {s}, NEW x \in rest \ {s}, NEW r \in Managed, Creates(t, r)
        PROVE  r \notin d.roles /\ (Creates(x, r) => t = x)
    <3>1. r \notin c.roles /\ (Creates(x, r) => t = x) /\ ~Creates(s, r)
      BY <1>1, <2>2 DEF Executable, RolesCome
    <3> QED
      BY <1>2, <3>1 DEF Creates
  <2> QED
    BY <2>1, <2>2 DEF RolesCome
<1>7. MembersFit(d, rest \ {s})
  BY <1>4 DEF Executable, MembersFit
<1>8. ObjectsThere(d, rest \ {s})
  BY <1>3 DEF Executable, ObjectsThere, Objects
<1>9. CreatorsLent(d, rest \ {s})
  <2> SUFFICES ASSUME NEW t \in rest \ {s}, t.op \in {"alter default grant", "alter default revoke"}
               PROVE  Lent(d, rest \ {s}, t)
    BY DEF CreatorsLent
  <2> DEFINE r == t.args[3]
  <2>1. Lent(c, rest, t) /\ Precedes(s, t)
    BY <1>1 DEF Executable, CreatorsLent
  <2>2. CASE Me \in c.super \/ r = Me
    BY <1>3, <2>2 DEF Lent
  <2>3. CASE <<Me, r>> \in c.inherit /\ \A u \in rest : Undoes(u, r) => ~Precedes(u, t)
    <3>1. <<Me, r>> \in d.inherit
      BY <1>1, <1>5, <2>1, <2>3
    <3> QED
      BY <2>3, <3>1 DEF Lent
  <2>4. ASSUME NEW b \in rest, b.op = "borrow", b.args[1] = r, ~Precedes(t, b),
               \A u \in rest : Undoes(u, r) => ~(Precedes(b, u) /\ Precedes(u, t))
        PROVE  Lent(d, rest \ {s}, t)
    <3>1. CASE b = s
      <4>1. <<Me, r>> \in d.inherit
        BY <1>5, <2>4, <3>1
      <4>2. \A u \in rest \ {s} : Undoes(u, r) => ~Precedes(u, t)
        BY <1>1, <2>4, <3>1
      <4> QED
        BY <4>1, <4>2 DEF Lent
    <3>2. CASE b # s
      BY <2>4, <3>2 DEF Lent
    <3> QED
      BY <3>1, <3>2
  <2> QED
    BY <2>1, <2>2, <2>3, <2>4 DEF Lent
<1> QED
  BY <1>6, <1>7, <1>8, <1>9 DEF Executable, d

----------------------------------------------------------------------------
(* A new plan can be executed.                                             *)

LEMMA OwnPossible ==
  ASSUME NEW r, r # Me, r \in Managed \/ \E k \in Foreseen : r = k[3]
  PROVE  <<Me, r>> \in Possible
<1>1. r \in (Managed \cup Creators) \ {Me}
  BY DEF Creators
<1>2. <<Me, r>> \in Own
  BY <1>1 DEF Own
<1>3. Own \subseteq Possible
  BY DEF Possible
<1> QED
  BY <1>2, <1>3

\* The memberships a plan brings about are among those there may be.
LEMMA DiffFits ==
  ASSUME Me \notin Managed, NEW st, \A e \in st.dacl : DefaultKey(e) \in Foreseen, NEW s \in Diff(st)
  PROVE  Fits(s)
<1>1. ASSUME s.op = "grant role" PROVE Pair(s) \in Possible
  <2>1. s \in Memberships(st)
    BY <1>1, PlanKinds
  <2>2. Memberships(st) = {JoinOf(m) : m \in Decl.memberOf \ st.member}
                           \cup {LeaveOf(m) : m \in {n \in st.member \ Decl.memberOf : n[1] \in Managed}}
    BY DEF Memberships, JoinOf, LeaveOf
  <2>3. PICK m : s = JoinOf(m) /\ m \in Decl.memberOf
    BY <1>1, <2>1, <2>2, MemberStatements
  <2>4. s.args = <<m[2], m[1]>> /\ m = <<m[1], m[2]>>
    BY <2>3, MemberStatements, ShapesAssumption
  <2>5. Pair(s) = m
    BY <2>4 DEF Pair
  <2> QED
    BY <2>3, <2>5 DEF Possible
<1>2. ASSUME s.op = "create role" PROVE <<Me, s.args[1]>> \in Possible
  <2>1. s.args[1] \in Managed
    BY <1>2, PlanShape
  <2> QED
    BY <2>1, OwnPossible
<1>3. ASSUME s.op = "borrow" PROVE <<Me, s.args[1]>> \in Possible
  <2>1. PICK k \in DefaultKeys(st) : s \in DefaultStatements(st, k)
    BY <1>3, PlanShape
  <2>2. s.args = <<k[3]>> /\ NeedsCreatorMembership(st, k[3])
    BY <1>3, <2>1, DefaultShape
  <2>3. s.args[1] = k[3] /\ k[3] # Me
    BY <2>2 DEF NeedsCreatorMembership
  <2>4. k \in Foreseen
    BY KeysForeseen
  <2> QED
    BY <2>3, <2>4, OwnPossible
<1> QED
  BY <1>1, <1>2, <1>3 DEF Fits

\* Roles are created before anything else is done.
LEMMA AfterCreates ==
  ASSUME NEW s, s.db \in Nat, DOMAIN s.pos \subseteq 1 .. 6, s.pos[1] \in Nat, s.pos[1] > 1
  PROVE  \A r : ~Precedes(s, CreateOf(r))
<1> SUFFICES ASSUME NEW r PROVE ~Precedes(s, CreateOf(r))
  OBVIOUS
<1>1. CreateOf(r).db = 0 /\ CreateOf(r).pos = <<1, Index(r), 0, 0, 0, 0>>
  BY RoleStatements
<1>2. CreateOf(r).pos[1] = 1
  BY <1>1
<1>3. ~(s.db < CreateOf(r).db)
  BY <1>1
<1>4. ASSUME NEW i \in DOMAIN s.pos, s.pos[i] < CreateOf(r).pos[i],
             \A j \in 1 .. i - 1 : s.pos[j] = CreateOf(r).pos[j]
      PROVE  FALSE
  <2>1. i \in 1 .. 6
    OBVIOUS
  <2>2. i # 1
    BY <1>2, <1>4
  <2>3. 1 \in 1 .. i - 1
    BY <2>1, <2>2
  <2> QED
    BY <1>2, <1>4, <2>3
<1> QED
  BY <1>3, <1>4 DEF Precedes

LEMMA KeyNumbers ==
  ASSUME NEW c, Tidy(c), NEW st, st.dacl \subseteq c.dacl, NEW k \in DefaultKeys(st)
  PROVE  {k[1], k[2], k[3], k[4], k[5]} \subseteq Nat /\ k = <<k[1], k[2], k[3], k[4], k[5]>> /\ k \in Foreseen
<1>1. k \in Foreseen
  BY KeysForeseen DEF Tidy
<1>2. {k[1], k[2], k[3], k[4], k[5]} \subseteq Nat
  BY <1>1, ForeseenNumbers
<1>3. k = <<k[1], k[2], k[3], k[4], k[5]>>
  BY DEF DefaultKeys, DefaultKey
<1> QED
  BY <1>1, <1>2, <1>3

LEMMA KeyRoles ==
  ASSUME NEW c, Sound(c), NEW k \in DefaultKeys(Snapshot(c))
  PROVE  {k[3], k[5]} \subseteq Managed \/ {k[3], k[5]} \subseteq c.roles
<1> DEFINE st == Snapshot(c)
<1>1. st.dacl = {e \in c.dacl : e[1] \in Reached(c) /\ e[5] # Public}
  BY SnapshotFields DEF Sound
<1> HIDE DEF st
<1>2. PICK e \in DesiredDefaults \cup ActualDefaults(st) : k = DefaultKey(e)
  BY DEF DefaultKeys, st
<1>3. k[3] = e[3] /\ k[5] = e[5]
  BY <1>2 DEF DefaultKey
<1>4. CASE e \in ActualDefaults(st)
  <2>1. e \in c.dacl /\ e[5] # Public
    BY <1>1, <1>4 DEF ActualDefaults
  <2> QED
    BY <1>3, <2>1 DEF Sound, WellFormed
<1>5. CASE e \in DesiredDefaults
  BY <1>3, <1>5, WantedDefaults
<1> QED
  BY <1>2, <1>4, <1>5

LEMMA SixPlaces ==
  ASSUME NEW x, NEW x1, NEW x2, NEW x3, NEW x4, NEW x5, NEW x6, x = <<x1, x2, x3, x4, x5, x6>>
  PROVE  /\ x[1] = x1 /\ x[2] = x2 /\ x[3] = x3 /\ x[4] = x4 /\ x[5] = x5 /\ x[6] = x6
         /\ DOMAIN x \subseteq 1 .. 6
OBVIOUS

LEMMA PairFields ==
  ASSUME NEW x, NEW a, NEW b, x = <<a, b>>
  PROVE  x[1] = a /\ x[2] = b
OBVIOUS

LEMMA ClusterAfterCreates ==
  ASSUME NEW m, NEW s \in {JoinOf(m), MapOf(m)}
  PROVE  \A r : ~Precedes(s, CreateOf(r))
<1>1. CASE s = JoinOf(m)
  <2>1. s.db = 0 /\ s.pos = <<2, Index(m[1]), 0, m[2], 0, 0>>
    BY <1>1, MemberStatements
  <2>2. s.pos[1] = 2 /\ DOMAIN s.pos \subseteq 1 .. 6
    BY <2>1, SixPlaces
  <2> QED
    BY <2>1, <2>2, AfterCreates
<1>2. CASE s = MapOf(m)
  <2>1. s.db = 0 /\ s.pos = <<3, Index(m[1]), 0, m[2], 0, 0>>
    BY <1>2, MemberStatements
  <2>2. s.pos[1] = 3 /\ DOMAIN s.pos \subseteq 1 .. 6
    BY <2>1, SixPlaces
  <2> QED
    BY <2>1, <2>2, AfterCreates
<1> QED
  BY <1>1, <1>2

LEMMA GrantsAfterCreates ==
  ASSUME NEW st, NEW k, NEW s \in {WideOf(st, k), GrantOf(st, k), RevokeOf(st, k)}, s.db \in Nat
  PROVE  \A r : ~Precedes(s, CreateOf(r))
<1>1. \/ s.pos = <<4, 2, k[2], SequenceKind - k[3], k[4], 0>>
      \/ s.pos = <<4, k[1][2], k[1][3], k[1][4], k[2], 0>>
      \/ s.pos = <<4, k[1][2], k[1][3], k[1][4], k[2], 1>>
  <2>1. CASE s = WideOf(st, k)
    BY <2>1, GrantStatements
  <2>2. CASE s = GrantOf(st, k)
    BY <2>2, GrantStatements
  <2>3. CASE s = RevokeOf(st, k)
    BY <2>3, GrantStatements
  <2> QED
    BY <2>1, <2>2, <2>3
<1>2. s.pos[1] = 4 /\ DOMAIN s.pos \subseteq 1 .. 6
  BY <1>1, SixPlaces
<1> QED
  BY <1>2, AfterCreates

LEMMA StepAfterCreates ==
  ASSUME NEW k, NEW n, NEW s, s.db \in Nat, s.pos = Step(k, n)
  PROVE  \A r : ~Precedes(s, CreateOf(r))
<1>1. s.pos = <<5, k[2], k[3], SequenceKind - k[4], k[5], n>>
  BY DEF Step
<1>2. s.pos[1] = 5 /\ DOMAIN s.pos \subseteq 1 .. 6
  BY <1>1, SixPlaces
<1> QED
  BY <1>2, AfterCreates

\* A role that a statement of a plan needs is there, or is to be created first.
Provided(c, s) == \A r \in Needed(s) : r \in c.roles \/ (r \in Managed /\ ~Precedes(s, CreateOf(r)))

LEMMA ClusterProvided ==
  ASSUME NEW c, Sound(c), ~PlanFails(Snapshot(c)), NEW s \in Diff(Snapshot(c)),
         s.op \in {"create role", "alter role", "grant role", "revoke role", "iam grant", "iam revoke"}
  PROVE  Provided(c, s)
<1> DEFINE st == Snapshot(c)
<1>1. st.roles = c.roles /\ st.member = c.member /\ \A e \in st.iam : e[1] \in c.roles
  <2>1. st.roles = c.roles /\ st.member = c.member
    BY SnapshotFields DEF Sound
  <2>2. st.iam = IF IAMPrincipals THEN {e \in c.iam : e[1] \in c.roles} ELSE {}
    BY SnapshotFields DEF Sound
  <2> HIDE DEF st
  <2> QED
    BY <2>1, <2>2
<1>2. ~MissingGroup(st)
  BY DEF PlanFails
<1> HIDE DEF st
<1>3. CASE s.op = "create role"
  BY <1>3 DEF Provided, Needed
<1>4. CASE s.op = "alter role"
  <2>1. s \in AlterRoles(st)
    BY <1>4, PlanKinds DEF st
  <2>2. PICK r \in st.roles : s = AlterOf(r)
    BY <2>1 DEF AlterRoles, AlterOf
  <2>3. s.args[1] = r
    BY <2>2, RoleStatements
  <2> QED
    BY <1>1, <1>4, <2>2, <2>3 DEF Provided, Needed
<1>5. CASE s.op \in {"grant role", "revoke role"}
  <2>1. s \in Memberships(st)
    BY <1>5, PlanKinds DEF st
  <2>2. PICK m : \/ m \in Decl.memberOf /\ s = JoinOf(m)
                 \/ m \in c.member /\ s = LeaveOf(m)
    BY <1>1, <2>1 DEF Memberships, JoinOf, LeaveOf
  <2>3. s.args = <<m[2], m[1]>>
    BY <2>2, MemberStatements
  <2>4. Needed(s) = {m[1], m[2]}
    <3>1. s.args[1] = m[2] /\ s.args[2] = m[1]
      BY <2>3, PairFields
    <3> QED
      BY <1>5, <3>1 DEF Needed
  <2>5. CASE m \in Decl.memberOf /\ s = JoinOf(m)
    <3>1. m[1] \in Managed /\ m[2] \in Managed \cup c.roles
      BY <1>1, <1>2, <2>5, DeclAssumption DEF ValidDecl, MissingGroup
    <3>2. \A r : ~Precedes(s, CreateOf(r))
      BY <2>5, ClusterAfterCreates
    <3> QED
      BY <2>4, <3>1, <3>2 DEF Provided
  <2>6. CASE m \in c.member
    BY <2>4, <2>6 DEF Provided, Sound, WellFormed
  <2> QED
    BY <2>2, <2>5, <2>6
<1>6. CASE s.op \in {"iam grant", "iam revoke"}
  <2>1. s \in IamStatements(st)
    BY <1>6, PlanKinds DEF st
  <2>2. PICK m : \/ m \in Decl.iam /\ s = MapOf(m)
                 \/ m \in st.iam /\ s = UnmapOf(m)
    BY <2>1 DEF IamStatements, MapOf, UnmapOf
  <2>3. s.args = m
    BY <2>2, MemberStatements
  <2>4. Needed(s) = {m[1]}
    BY <1>6, <2>3 DEF Needed
  <2>5. CASE m \in Decl.iam /\ s = MapOf(m)
    <3>1. m[1] \in Managed
      BY <2>5, DeclAssumption DEF ValidDecl
    <3>2. \A r : ~Precedes(s, CreateOf(r))
      BY <2>5, ClusterAfterCreates
    <3> QED
      BY <2>4, <3>1, <3>2 DEF Provided
  <2>6. CASE m \in st.iam
    BY <1>1, <2>4, <2>6 DEF Provided
  <2> QED
    BY <2>2, <2>5, <2>6
<1> QED
  BY <1>3, <1>4, <1>5, <1>6

LEMMA WideArgs ==
  ASSUME NEW x, NEW w, x = <<WideKey(w)[1], WideKey(w)[3], WideKey(w)[2], WideKey(w)[4]>>
  PROVE  x[4] = w[4]
<1>1. x = <<w[1], w[3], w[2], w[4]>>
  BY DEF WideKey
<1> QED
  BY <1>1

LEMMA ObjectFields ==
  ASSUME NEW x, NEW k, x = ObjectArgs(k)
  PROVE  x[1] = k[1][1] /\ x[2] = k[1][2] /\ x[3] = k[1][3] /\ x[4] = k[1][4] /\ x[5] = k[2]
BY DEF ObjectArgs

LEMMA OneProvided ==
  ASSUME NEW c, NEW s, NEW r, Needed(s) = {r},
         r \in c.roles \/ (r \in Managed /\ \A q : ~Precedes(s, CreateOf(q)))
  PROVE  Provided(c, s)
BY DEF Provided

LEMMA GrantsProvided ==
  ASSUME Suited, NEW c, Sound(c), Tidy(c), ~PlanFails(Snapshot(c)), NEW s \in Diff(Snapshot(c)),
         s.op \in {"grant", "revoke", "grant all"}
  PROVE  /\ Provided(c, s)
         /\ s.op # "grant all" => <<s.args[1], s.args[2], s.args[3], s.args[4]>> \in Objects(c)
<1> DEFINE st == Snapshot(c)
<1>1. /\ IsCatalog(c)
      /\ DesiredGrants(st) = DesiredGrants(c) /\ ActualGrants(st) = Held(c) /\ Held(c) \subseteq c.acl
  BY WantedSeen, HeldIs DEF PlanFails, Held, Sound
<1>2. \A e \in DesiredGrants(c) \cup Held(c) : e[1] \in Objects(c) /\ e[1] = <<e[1][1], e[1][2], e[1][3], e[1][4]>>
  BY <1>1, EntryShapes
<1> HIDE DEF st
<1>3. \A e \in DesiredGrants(c) : e[2] \in Managed /\ e[1][1] \in Nat
  <2>1. \A e \in Decl.grants : e[2] \in Managed /\ e[1][1] \in Nat
    BY DeclAssumption, NamesAssumption DEF ValidDecl
  <2>2. ASSUME NEW w \in Decl.wide, NEW o \in Relations(c, w[1], w[2], w[3]), NEW e, e = <<o, w[4], w[5]>>
        PROVE  e[2] \in Managed /\ e[1][1] \in Nat
    <3>1. e[1] = o /\ e[2] = w[4]
      BY <2>2
    <3>2. o[1] = w[1] /\ w[1] \in Nat /\ w[4] \in Managed
      BY DeclAssumption, NamesAssumption DEF ValidDecl, Relations
    <3> QED
      BY <3>1, <3>2
  <2> QED
    BY <2>1, <2>2 DEF DesiredGrants
<1>4. CASE s.op = "grant all"
  <2>1. s \in WideGrants(st)
    BY <1>4, PlanKinds DEF st
  <2>2. PICK w \in Decl.wide : s = WideOf(st, WideKey(w))
    BY <2>1 DEF WideGrants, WideOf
  <2>3. WideKey(w)[1] = w[1] /\ WideKey(w)[4] = w[4] /\ w[1] \in Nat /\ w[4] \in Managed
    BY DeclAssumption, NamesAssumption DEF ValidDecl, WideKey
  <2>4. s.args = <<WideKey(w)[1], WideKey(w)[3], WideKey(w)[2], WideKey(w)[4]>> /\ s.db = WideKey(w)[1]
    BY <2>2, GrantStatements
  <2>5. s.args[4] = w[4] /\ s.db \in Nat
    <3>1. s.args = <<WideKey(w)[1], WideKey(w)[3], WideKey(w)[2], WideKey(w)[4]>>
      BY <2>4
    <3>2. s.args[4] = w[4]
      BY <3>1, WideArgs
    <3> QED
      BY <2>3, <2>4, <3>2
  <2>6. \A r : ~Precedes(s, CreateOf(r))
    BY <2>2, <2>5, GrantsAfterCreates
  <2> QED
    BY <1>4, <2>3, <2>5, <2>6 DEF Provided, Needed
<1>5. ASSUME s.op \in {"grant", "revoke"}
      PROVE  Provided(c, s) /\ <<s.args[1], s.args[2], s.args[3], s.args[4]>> \in Objects(c)
  <2>1. s \in ObjectGrants(st)
    BY <1>5, PlanKinds DEF st
  <2>2. PICK k : \/ Missing(st, k) # {} /\ s = GrantOf(st, k)
                 \/ Extra(st, k) # {} /\ s = RevokeOf(st, k)
    BY <2>1 DEF ObjectGrants, GrantOf, RevokeOf
  <2>3. s.args = ObjectArgs(k) /\ s.db = k[1][1] /\ s \in {WideOf(st, k), GrantOf(st, k), RevokeOf(st, k)}
    <3>1. CASE s = GrantOf(st, k)
      BY <3>1, GrantStatements
    <3>2. CASE s = RevokeOf(st, k)
      BY <3>2, GrantStatements
    <3> QED
      BY <2>2, <3>1, <3>2
  <2>4. /\ s.args[1] = k[1][1] /\ s.args[2] = k[1][2] /\ s.args[3] = k[1][3] /\ s.args[4] = k[1][4]
        /\ s.args[5] = k[2]
    BY <2>3, ObjectFields
  <2>5. PICK e \in DesiredGrants(c) \cup Held(c) :
          Key(e) = k /\ (e \in DesiredGrants(c) \/ (s = RevokeOf(st, k) /\ e \in Held(c)))
    <3>1. CASE Missing(st, k) # {} /\ s = GrantOf(st, k)
      <4>1. Privileges(DesiredGrants(c), k) # {}
        BY <1>1, <3>1 DEF Missing
      <4> QED
        BY <4>1 DEF Privileges
    <3>2. CASE Extra(st, k) # {} /\ s = RevokeOf(st, k)
      <4>1. Privileges(Held(c), k) # {}
        BY <1>1, <3>2 DEF Extra
      <4> QED
        BY <3>2, <4>1 DEF Privileges
    <3> QED
      BY <2>2, <3>1, <3>2
  <2>6. k[1] = e[1] /\ k[2] = e[2]
    BY <2>5 DEF Key
  <2>0. Needed(s) = {k[2]}
    BY <1>5, <2>4 DEF Needed
  <2>7. <<s.args[1], s.args[2], s.args[3], s.args[4]>> \in Objects(c)
    BY <1>2, <2>4, <2>6
  <2>8. ASSUME e \in DesiredGrants(c) PROVE Provided(c, s)
    <3>1. e[2] \in Managed /\ s.db \in Nat
      BY <1>3, <2>3, <2>6, <2>8
    <3>2. \A r : ~Precedes(s, CreateOf(r))
      BY <2>3, <3>1, GrantsAfterCreates
    <3>3. k[2] \in Managed
      BY <2>6, <3>1
    <3> QED
      BY <2>0, <3>2, <3>3, OneProvided
  <2>9. ASSUME e \in Held(c) PROVE Provided(c, s)
    <3>1. e \in c.acl /\ e[2] # Public
      BY <1>1, <2>9, HeldIs, NamesAssumption DEF Counts
    <3>2. e[2] \in c.roles
      BY <3>1 DEF Sound, WellFormed
    <3>3. k[2] \in c.roles
      BY <2>6, <3>2
    <3> QED
      BY <2>0, <3>3, OneProvided
  <2> QED
    BY <2>5, <2>7, <2>8, <2>9
<1> QED
  BY <1>4, <1>5

LEMMA KeyProvided ==
  ASSUME NEW c, Sound(c), Tidy(c), NEW k \in DefaultKeys(Snapshot(c)), NEW s \in DefaultStatements(Snapshot(c), k)
  PROVE  Provided(c, s)
<1> DEFINE st == Snapshot(c)
<1>1. s \in {AddOf(st, k), RemoveOf(st, k), BorrowOf(k), UndoOf(st, k)}
  BY KeyStatements
<1>2. {k[3], k[5]} \subseteq Managed \/ {k[3], k[5]} \subseteq c.roles
  BY KeyRoles
<1>3. k[1] \in Nat
  <2>1. st.dacl \subseteq c.dacl
    BY SnapshotFields DEF Sound
  <2> QED
    BY <2>1, KeyNumbers
<1> HIDE DEF st
<1>4. s.db = k[1] /\ (s.pos = Step(k, 0) \/ s.pos = Step(k, 1) \/ s.pos = Step(k, 2) \/ s.pos = Step(k, 3))
  <2>1. CASE s = AddOf(st, k)
    BY <2>1, ChangeFields
  <2>2. CASE s = RemoveOf(st, k)
    BY <2>2, ChangeFields
  <2>3. CASE s = BorrowOf(k)
    BY <2>3, BorrowFields
  <2>4. CASE s = UndoOf(st, k)
    BY <2>4, BorrowFields
  <2> QED
    BY <1>1, <2>1, <2>2, <2>3, <2>4
<1>5. \A r : ~Precedes(s, CreateOf(r))
  BY <1>3, <1>4, StepAfterCreates
<1>6. Needed(s) \subseteq {k[3], k[5]}
  <2>1. CASE s \in {AddOf(st, k), RemoveOf(st, k)}
    <3>1. CASE s = AddOf(st, k)
      <4>1. s.args = k /\ s.op = "alter default grant"
        BY <3>1, ChangeFields
      <4> QED
        BY <4>1 DEF Needed
    <3>2. CASE s = RemoveOf(st, k)
      <4>1. s.args = k /\ s.op = "alter default revoke"
        BY <3>2, ChangeFields
      <4> QED
        BY <4>1 DEF Needed
    <3> QED
      BY <2>1, <3>1, <3>2
  <2>2. CASE s \in {BorrowOf(k), UndoOf(st, k)}
    <3>1. s.args = <<k[3]>> /\ s.op \in {"borrow", "return", "drop"}
      BY <2>2, BorrowFields
    <3>2. s.args[1] = k[3]
      BY <3>1
    <3> QED
      BY <3>1, <3>2 DEF Needed
  <2> QED
    BY <1>1, <2>1, <2>2
<1> QED
  BY <1>2, <1>5, <1>6 DEF Provided

LEMMA DefaultsProvided ==
  ASSUME NEW c, Sound(c), Tidy(c), NEW s \in Diff(Snapshot(c)),
         s.op \in {"alter default grant", "alter default revoke", "borrow", "return", "drop"}
  PROVE  Provided(c, s)
<1> DEFINE st == Snapshot(c)
<1>1. (\E k \in DefaultKeys(st) : s \in DefaultStatements(st, k)) \/ (s.op = "return" /\ \E r \in StaleBorrows(st) : s.args = <<r>>)
  BY PlanShape
<1>2. ASSUME NEW r \in StaleBorrows(st), s.args = <<r>>, s.op = "return"
      PROVE  Provided(c, s)
  <2>1. <<Me, r>> \in c.inherit
    BY SnapshotFields DEF StaleBorrows, Sound
  <2>2. r \in c.roles
    BY <2>1 DEF Sound, WellFormed
  <2>3. s.args[1] = r
    BY <1>2
  <2> QED
    BY <1>2, <2>2, <2>3 DEF Provided, Needed
<1> QED
  BY <1>1, <1>2, KeyProvided

LEMMA PlanRolesCome ==
  ASSUME Suited, NEW c, Sound(c), Tidy(c), ~PlanFails(Snapshot(c))
  PROVE  RolesCome(c, Diff(Snapshot(c)))
<1> DEFINE st == Snapshot(c)
           plan == Diff(st)
<1>1. st.roles = c.roles
  BY SnapshotFields DEF Sound
<1>2. \A s \in plan : Provided(c, s)
  BY PlanLawful, ClusterProvided, GrantsProvided, DefaultsProvided DEF Lawful
<1> HIDE DEF st
<1>3. CreateRoles(st) = {CreateOf(r) : r \in Managed \ st.roles}
  BY DEF CreateRoles, CreateOf
<1>4. ASSUME NEW s \in plan, NEW r \in Needed(s), r \notin c.roles
      PROVE  \E t \in plan : Creates(t, r) /\ t # s /\ ~Precedes(s, t)
  <2>1. r \in Managed /\ ~Precedes(s, CreateOf(r))
    BY <1>2, <1>4 DEF Provided
  <2>2. CreateOf(r) \in plan
    BY <1>1, <1>3, <1>4, <2>1 DEF Diff
  <2>3. Creates(CreateOf(r), r)
    BY RoleStatements DEF Creates
  <2>4. Needed(CreateOf(r)) = {}
    BY RoleStatements DEF Needed
  <2> QED
    BY <1>4, <2>1, <2>2, <2>3, <2>4
<1>5. ASSUME NEW s \in plan, NEW r, Creates(s, r) PROVE s = CreateOf(r) /\ r \notin c.roles
  <2>1. s \in CreateRoles(st)
    BY <1>5, PlanKinds DEF Creates
  <2>2. PICK q \in Managed \ st.roles : s = CreateOf(q)
    BY <1>3, <2>1
  <2>3. q = r
    BY <1>5, <2>2, RoleStatements DEF Creates
  <2> QED
    BY <1>1, <2>2, <2>3
<1> HIDE DEF plan
<1>6. RolesCome(c, plan)
  BY <1>4, <1>5 DEF RolesCome
<1> QED
  BY <1>6 DEF plan, st

LEMMA PlanObjects ==
  ASSUME Suited, NEW c, Sound(c), Tidy(c), ~PlanFails(Snapshot(c))
  PROVE  ObjectsThere(c, Diff(Snapshot(c)))
BY GrantsProvided DEF ObjectsThere

LEMMA PlanMembersFit ==
  ASSUME Me \notin Managed, NEW c, Sound(c), Tidy(c), c.member \subseteq Possible
  PROVE  MembersFit(c, Diff(Snapshot(c)))
<1>1. \A e \in Snapshot(c).dacl : DefaultKey(e) \in Foreseen
  <2>1. Snapshot(c).dacl \subseteq c.dacl
    BY SnapshotFields DEF Sound
  <2> QED
    BY <2>1 DEF Tidy
<1>2. \A s \in Diff(Snapshot(c)) : Fits(s)
  BY <1>1, DiffFits
<1> QED
  BY <1>2 DEF MembersFit

\* Between two statements that differ in the last place only comes none that
\* has a last place as high.
LEMMA NoneBetween ==
  ASSUME NEW b, NEW u, NEW s, {b.db, u.db, s.db} \subseteq Nat, b.db = s.db,
         DOMAIN b.pos = 1 .. 6, DOMAIN u.pos = 1 .. 6,
         \A i \in 1 .. 6 : {b.pos[i], u.pos[i], s.pos[i]} \subseteq Int,
         \A i \in 1 .. 5 : b.pos[i] = s.pos[i], s.pos[6] <= u.pos[6]
  PROVE  ~(Precedes(b, u) /\ Precedes(u, s))
<1> SUFFICES ASSUME Precedes(b, u), Precedes(u, s) PROVE FALSE
  OBVIOUS
<1>1. b.db = u.db /\ u.db = s.db
  BY DEF Precedes
<1>2. PICK i \in 1 .. 6 : b.pos[i] < u.pos[i] /\ \A l \in 1 .. i - 1 : b.pos[l] = u.pos[l]
  BY <1>1 DEF Precedes
<1>3. PICK j \in 1 .. 6 : u.pos[j] < s.pos[j] /\ \A l \in 1 .. j - 1 : u.pos[l] = s.pos[l]
  BY <1>1 DEF Precedes
<1>4. j \in 1 .. 5
  BY <1>3
<1>5. b.pos[j] = s.pos[j]
  BY <1>4
<1>6. CASE i < j
  <2>1. i \in 1 .. j - 1 /\ i \in 1 .. 5
    BY <1>4, <1>6
  <2>2. u.pos[i] = s.pos[i] /\ b.pos[i] = s.pos[i]
    BY <1>3, <2>1
  <2> QED
    BY <1>2, <2>2
<1>7. CASE j < i
  <2>1. j \in 1 .. i - 1
    BY <1>4, <1>7
  <2>2. b.pos[j] = u.pos[j]
    BY <1>2, <2>1
  <2> QED
    BY <1>3, <1>5, <2>2
<1>8. CASE i = j
  BY <1>2, <1>3, <1>5, <1>8
<1> QED
  BY <1>6, <1>7, <1>8

LEMMA SixExactly ==
  ASSUME NEW x, NEW x1, NEW x2, NEW x3, NEW x4, NEW x5, NEW x6, x = <<x1, x2, x3, x4, x5, x6>>
  PROVE  DOMAIN x = 1 .. 6
OBVIOUS

\* The places of the statements for a key.
LEMMA StepPlaces ==
  ASSUME NEW k, {k[1], k[2], k[3], k[4], k[5]} \subseteq Nat, NEW n \in Nat, NEW x, x = Step(k, n)
  PROVE  /\ DOMAIN x = 1 .. 6 /\ x[1] = 5 /\ x[6] = n
         /\ \A i \in 1 .. 6 : x[i] \in Int
         /\ \A i \in 1 .. 5 : x[i] = Step(k, 0)[i]
<1>1. x = <<5, k[2], k[3], SequenceKind - k[4], k[5], n>>
  BY DEF Step
<1>2. DOMAIN x = 1 .. 6
  BY <1>1, SixExactly
<1>3. x[1] = 5 /\ x[2] = k[2] /\ x[3] = k[3] /\ x[4] = SequenceKind - k[4] /\ x[5] = k[5] /\ x[6] = n
  BY <1>1, SixPlaces
<1> DEFINE y == Step(k, 0)
<1>4. y = <<5, k[2], k[3], SequenceKind - k[4], k[5], 0>>
  BY DEF Step
<1>5. y[1] = 5 /\ y[2] = k[2] /\ y[3] = k[3] /\ y[4] = SequenceKind - k[4] /\ y[5] = k[5]
  <2> HIDE DEF y
  <2> QED
    BY <1>4, SixPlaces
<1>6. SequenceKind - k[4] \in Int
  BY DEF SequenceKind
<1> HIDE DEF y
<1>7. \A i \in 1 .. 6 : x[i] \in Int
  <2> TAKE i \in 1 .. 6
  <2>1. i = 1 \/ i = 2 \/ i = 3 \/ i = 4 \/ i = 5 \/ i = 6
    OBVIOUS
  <2> QED
    BY <1>3, <1>6, <2>1
<1>8. \A i \in 1 .. 5 : x[i] = y[i]
  <2> TAKE i \in 1 .. 5
  <2>1. i = 1 \/ i = 2 \/ i = 3 \/ i = 4 \/ i = 5
    OBVIOUS
  <2> QED
    BY <1>3, <1>5, <2>1
<1> QED
  BY <1>2, <1>3, <1>7, <1>8 DEF y

LEMMA GreatestOf ==
  ASSUME NEW S, S \subseteq Nat, NEW n \in Nat, \A m \in S : m <= n, S # {}
  PROVE  Max(S) \in S /\ \A m \in S : m <= Max(S)
<1> DEFINE P == {i \in Nat : \A m \in S : m <= n - i}
<1> SUFFICES ASSUME ~\E m \in S : \A l \in S : l <= m PROVE FALSE
  BY DEF Max
<1>1. 0 \in P
  OBVIOUS
<1>2. ASSUME NEW i \in 0 .. n + 1, i \in P, i < n + 1 PROVE i + 1 \in P
  <2>1. i \in Nat /\ \A m \in S : m \in Nat /\ m <= n - i
    BY <1>2
  <2>2. \A m \in S : m # n - i
    BY <2>1
  <2>3. \A m \in S : m <= n - (i + 1)
    BY <2>1, <2>2
  <2> QED
    BY <2>1, <2>3
<1>3. n + 1 \in Nat
  OBVIOUS
<1> HIDE DEF P
<1>4. 0 .. n + 1 \subseteq P
  BY <1>1, <1>2, <1>3, UpTo
<1>5. n + 1 \in P
  BY <1>3, <1>4
<1>6. PICK m \in S : m \in Nat /\ m <= n - (n + 1)
  BY <1>5 DEF P
<1> QED
  BY <1>6

\* What may come up is finite, and so are the databases it is in.
LEMMA FiniteImage ==
  ASSUME NEW S, IsFiniteSet(S), NEW f, f = [x \in S |-> f[x]], NEW T, \A y \in T : \E x \in S : y = f[x]
  PROVE  IsFiniteSet(T)
<1> DEFINE R == {f[x] : x \in S}
<1>1. f \in Surjection(S, R)
  BY DEF Surjection
<1>2. IsFiniteSet(R)
  <2> HIDE DEF R
  <2> QED
    BY <1>1, FS_Surjection
<1>3. T \in SUBSET R
  OBVIOUS
<1> HIDE DEF R
<1> QED
  BY <1>2, <1>3, FS_Subset

LEMMA DefaultsFinite == IsFiniteSet(Derived)
<1> DEFINE P == Decl.wide \X Decl.creates
           f == [x \in P |-> <<x[1][1], x[1][2], x[2][1], x[1][3], x[1][4], x[1][5]>>]
<1>1. \A e \in Derived : \E x \in P : e = f[x]
  <2> TAKE e \in Derived
  <2>1. PICK w \in Decl.wide : \E y \in Decl.creates : e = <<w[1], w[2], y[1], w[3], w[4], w[5]>>
    BY DEF Derived
  <2>2. PICK y \in Decl.creates : e = <<w[1], w[2], y[1], w[3], w[4], w[5]>>
    BY <2>1
  <2>3. <<w, y>> \in P /\ e = f[<<w, y>>]
    BY <2>2
  <2> HIDE DEF f
  <2> QED
    BY <2>3
<1>2. f = [x \in P |-> f[x]]
  OBVIOUS
<1>3. IsFiniteSet(P)
  BY FiniteAssumption, FS_Product
<1> HIDE DEF f, P
<1> QED
  BY <1>1, <1>2, <1>3, FiniteImage

LEMMA ForeseenFinite == IsFiniteSet(Foreseen) /\ IsFiniteSet(Creators)
<1> DEFINE D == HandDefaults \cup DesiredDefaults \cup UNION {c.dacl : c \in InitialCatalogs}
           f == [e \in D |-> DefaultKey(e)]
           g == [k \in Foreseen |-> k[3]]
<1>1. IsFiniteSet(D)
  <2>1. D = (HandDefaults \cup Decl.defaults \cup UNION {c.dacl : c \in InitialCatalogs}) \cup Derived
    BY DEF DesiredDefaults
  <2> QED
    BY <2>1, DefaultsFinite, FiniteAssumption, FS_Union
<1>2. f = [e \in D |-> f[e]] /\ \A k \in Foreseen : \E e \in D : k = f[e]
  BY DEF Foreseen
<1>3. IsFiniteSet(Foreseen)
  <2> HIDE DEF f, D
  <2> QED
    BY <1>1, <1>2, FiniteImage
<1>4. g = [k \in Foreseen |-> g[k]] /\ \A r \in Creators : \E k \in Foreseen : r = g[k]
  BY DEF Creators
<1> HIDE DEF g
<1> QED
  BY <1>3, <1>4, FiniteImage

LEMMA FiniteBounded ==
  ASSUME NEW S, IsFiniteSet(S), S \subseteq Nat
  PROVE  \E n \in Nat : \A m \in S : m <= n
<1> DEFINE P == {i \in Nat : \A T \in SUBSET S : Cardinality(T) = i => \E n \in Nat : \A m \in T : m <= n}
<1>1. \A T \in SUBSET S : IsFiniteSet(T)
  BY FS_Subset
<1>2. 0 \in P
  <2>1. ASSUME NEW T \in SUBSET S, Cardinality(T) = 0 PROVE \E n \in Nat : \A m \in T : m <= n
    <3>1. T = {}
      BY <1>1, <2>1, FS_EmptySet
    <3> QED
      BY <3>1
  <2> QED
    BY <2>1
<1>3. ASSUME NEW i \in P PROVE i + 1 \in P
  <2>1. i \in Nat /\ \A T \in SUBSET S : Cardinality(T) = i => \E n \in Nat : \A m \in T : m <= n
    OBVIOUS
  <2>2. ASSUME NEW T \in SUBSET S, Cardinality(T) = i + 1 PROVE \E n \in Nat : \A m \in T : m <= n
    <3>0. T # {}
      <4>1. Cardinality({}) = 0
        BY FS_EmptySet
      <4> QED
        BY <2>1, <2>2, <4>1
    <3>1. PICK x \in T : TRUE
      BY <3>0
    <3>2. IsFiniteSet(T) /\ x \in Nat
      BY <1>1
    <3>3. Cardinality(T \ {x}) = Cardinality(T) - 1
      BY <3>1, <3>2, FS_RemoveElement
    <3>4. PICK n \in Nat : \A m \in T \ {x} : m <= n
      BY <2>1, <2>2, <3>3
    <3>5. n + x \in Nat /\ \A m \in T : m <= n + x
      BY <3>2, <3>4
    <3> QED
      BY <3>5
  <2> QED
    BY <2>1, <2>2
<1> HIDE DEF P
<1>4. P = Nat
  BY <1>2, <1>3, NatInductionOnSets DEF P
<1>5. Cardinality(S) \in P
  BY <1>4, FS_CardinalityType
<1> QED
  BY <1>5 DEF P

LEMMA ForeseenBounded == \E n \in Nat : \A k \in Foreseen : k[1] <= n
<1> DEFINE D == {k[1] : k \in Foreseen}
           f == [k \in Foreseen |-> k[1]]
<1>1. f = [k \in Foreseen |-> f[k]] /\ \A d \in D : \E k \in Foreseen : d = f[k]
  OBVIOUS
<1>2. D \subseteq Nat
  BY ForeseenNumbers
<1>3. IsFiniteSet(D)
  <2> HIDE DEF D, f
  <2> QED
    BY <1>1, ForeseenFinite, FiniteImage
<1>4. PICK n \in Nat : \A d \in D : d <= n
  <2> HIDE DEF D
  <2> QED
    BY <1>2, <1>3, FiniteBounded
<1> QED
  BY <1>4

LEMMA ReleaseLast ==
  ASSUME NEW c, Sound(c), Tidy(c), NEW k \in DefaultKeys(Snapshot(c)),
         NEW u, u = ReleaseOf(Snapshot(c), k[3]), NEW s, s.db = k[1], s.pos[1] = 5
  PROVE  ~Precedes(u, s)
<1> DEFINE st == Snapshot(c)
           S == {0} \cup KeyDatabases(st, k[3])
<1>1. st.dacl \subseteq c.dacl
  BY SnapshotFields DEF Sound
<1>2. \A j \in DefaultKeys(st) : j \in Foreseen /\ j[1] \in Nat
  BY <1>1, KeyNumbers
<1>3. PICK n \in Nat : \A j \in Foreseen : j[1] <= n
  BY ForeseenBounded
<1>4. KeyDatabases(st, k[3]) = {j[1] : j \in {l \in DefaultKeys(st) : l[3] = k[3]}}
  BY DEF KeyDatabases
<1> HIDE DEF st
<1>5. S \subseteq Nat /\ (\A m \in S : m <= n) /\ S # {} /\ k[1] \in S
  BY <1>2, <1>3, <1>4 DEF st
<1> HIDE DEF S
<1>6. Max(S) \in Nat /\ k[1] <= Max(S) /\ k[1] \in Nat
  BY <1>5, GreatestOf
<1>7. u.db = Max(S) /\ u.pos = <<6, k[3], 0, 0, 0, 0>>
  BY ReleaseFields DEF S, st
<1>8. u.pos[1] = 6 /\ DOMAIN u.pos = 1 .. 6
  BY <1>7, SixPlaces, SixExactly
<1>9. ~(u.db < s.db)
  BY <1>6, <1>7
<1>10. ASSUME NEW i \in 1 .. 6, u.pos[i] < s.pos[i], \A j \in 1 .. i - 1 : u.pos[j] = s.pos[j]
       PROVE  FALSE
  <2>1. i # 1
    BY <1>8, <1>10
  <2>2. 1 \in 1 .. i - 1
    BY <2>1
  <2> QED
    BY <1>8, <1>10, <2>2
<1> QED
  BY <1>8, <1>9, <1>10 DEF Precedes

\* What of a plan could undo the membership the statements for a key need.
LEMMA WhatUndoes ==
  ASSUME NEW st, NEW r, NEW u \in Diff(st), Undoes(u, r)
  PROVE  \/ NeedsCreatorMembership(st, r) /\ \E j \in DefaultKeys(st) : j[3] = r /\ u = UndoOf(st, j)
         \/ u = ReleaseOf(st, r) /\ <<Me, r>> \in st.inherit
<1>1. CASE u \in DefaultPrivileges(st)
  <2>1. PICK j \in DefaultKeys(st) : u \in DefaultStatements(st, j)
    BY <1>1 DEF DefaultPrivileges
  <2>2. u \notin {AddOf(st, j), RemoveOf(st, j), BorrowOf(j)}
    <3>1. u.op \in {"return", "drop"}
      BY DEF Undoes
    <3>2. AddOf(st, j).op = "alter default grant" /\ RemoveOf(st, j).op = "alter default revoke"
      BY ChangeFields
    <3>3. BorrowOf(j).op = "borrow"
      BY BorrowFields
    <3> QED
      BY <3>1, <3>2, <3>3
  <2>3. u = UndoOf(st, j) /\ NeedsCreatorMembership(st, j[3])
    BY <2>1, <2>2, KeyStatements
  <2>4. u.args = <<j[3]>>
    BY <2>3, BorrowFields
  <2>5. j[3] = r
    BY <2>4 DEF Undoes
  <2> QED
    BY <2>3, <2>5
<1>2. CASE u \in ReleaseStaleBorrows(st)
  <2>1. PICK q \in StaleBorrows(st) : u = ReleaseOf(st, q)
    BY <1>2 DEF ReleaseStaleBorrows, ReleaseOf
  <2>2. u.args = <<q>>
    BY <2>1, ReleaseFields
  <2>3. q = r
    BY <2>2 DEF Undoes
  <2>4. <<Me, r>> \in st.inherit
    BY <2>3 DEF StaleBorrows
  <2> QED
    BY <2>1, <2>3, <2>4
<1> QED
  BY <1>1, <1>2, PlanKinds DEF Undoes

LEMMA PlanCreatorsLent ==
  ASSUME NEW c, Sound(c), Tidy(c), Me \in c.roles
  PROVE  CreatorsLent(c, Diff(Snapshot(c)))
<1> DEFINE st == Snapshot(c)
           plan == Diff(st)
<1>1. st.roles = c.roles /\ st.super = c.super /\ st.inherit = c.inherit /\ st.dacl \subseteq c.dacl
  BY SnapshotFields DEF Sound
<1> HIDE DEF st
<1>2. ASSUME NEW s \in plan, s.op \in {"alter default grant", "alter default revoke"}
      PROVE  Lent(c, plan, s)
  <2>1. PICK k \in DefaultKeys(st) : s \in DefaultStatements(st, k)
    BY <1>2, PlanShape
  <2>2. {k[1], k[2], k[3], k[4], k[5]} \subseteq Nat
    BY <1>1, KeyNumbers
  <2>3. s.args = k /\ s.db = k[1] /\ (s.pos = Step(k, 1) \/ s.pos = Step(k, 2))
        /\ (MissingDefaults(st, k) # {} \/ ExtraDefaults(st, k) # {})
    <3>1. s \notin {BorrowOf(k), UndoOf(st, k)}
      BY <1>2, BorrowFields
    <3>2. CASE s = AddOf(st, k) /\ MissingDefaults(st, k) # {}
      BY <3>2, ChangeFields
    <3>3. CASE s = RemoveOf(st, k) /\ ExtraDefaults(st, k) # {}
      <4> DEFINE x == RemoveOf(st, k)
      <4>1. x.args = k /\ x.db = k[1] /\ x.pos = Step(k, 2)
        BY ChangeFields
      <4> HIDE DEF x
      <4>2. s = x
        BY <3>3 DEF x
      <4> QED
        BY <3>3, <4>1, <4>2
    <3> QED
      BY <2>1, <3>1, <3>2, <3>3, KeyStatements
  <2> DEFINE r == k[3]
  <2>4. s.args[3] = r
    BY <2>3
  <2>5. CASE Me \in c.super \/ r = Me
    BY <2>4, <2>5 DEF Lent
  <2>6. CASE <<Me, r>> \in c.inherit
    <3>1. ASSUME NEW u \in plan, Undoes(u, r) PROVE ~Precedes(u, s)
      <4>1. u = ReleaseOf(st, r)
        BY <1>1, <2>6, <3>1, WhatUndoes DEF NeedsCreatorMembership
      <4>2. s.pos[1] = 5
        BY <2>2, <2>3, StepPlaces
      <4> QED
        BY <2>3, <4>1, <4>2, ReleaseLast DEF st
    <3> QED
      BY <2>4, <2>6, <3>1 DEF Lent
  <2>7. CASE Me \notin c.super /\ r # Me /\ <<Me, r>> \notin c.inherit
    <3> DEFINE b == BorrowOf(k)
    <3>1. NeedsCreatorMembership(st, r)
      BY <1>1, <2>7 DEF NeedsCreatorMembership, Exempt
    <3>2. b \in plan
      <4>1. b \in DefaultStatements(st, k)
        BY <2>3, <3>1, KeyStatements
      <4> QED
        BY <4>1 DEF Diff, DefaultPrivileges
    <3>3. b.op = "borrow" /\ b.args = <<r>> /\ b.db = k[1] /\ b.pos = Step(k, 0)
      BY BorrowFields
    <3>4. b.args[1] = r
      BY <3>3
    <3> HIDE DEF b, r, plan
    <3>5. /\ DOMAIN b.pos = 1 .. 6 /\ b.pos[6] = 0
          /\ \A i \in 1 .. 6 : b.pos[i] \in Int
          /\ \A i \in 1 .. 5 : b.pos[i] = Step(k, 0)[i]
      BY <2>2, <3>3, StepPlaces
    <3>6. /\ DOMAIN s.pos = 1 .. 6 /\ s.pos[6] \in {1, 2}
          /\ \A i \in 1 .. 6 : s.pos[i] \in Int
          /\ \A i \in 1 .. 5 : s.pos[i] = Step(k, 0)[i]
      <4>1. CASE s.pos = Step(k, 1)
        BY <2>2, <4>1, StepPlaces
      <4>2. CASE s.pos = Step(k, 2)
        BY <2>2, <4>2, StepPlaces
      <4> QED
        BY <2>3, <4>1, <4>2
    <3>7. ~Precedes(s, b)
      <4>1. ~(s.db < b.db)
        BY <2>2, <2>3, <3>3
      <4>2. \A i \in 1 .. 6 : ~(s.pos[i] < b.pos[i])
        <5> TAKE i \in 1 .. 6
        <5>1. CASE i \in 1 .. 5
          BY <3>5, <3>6, <5>1
        <5>2. CASE i = 6
          BY <3>5, <3>6, <5>2
        <5> QED
          BY <5>1, <5>2
      <4> QED
        BY <3>6, <4>1, <4>2 DEF Precedes
    <3>8. ASSUME NEW u \in plan, Undoes(u, r) PROVE ~(Precedes(b, u) /\ Precedes(u, s))
      <4>1. PICK j \in DefaultKeys(st) : u = UndoOf(st, j)
        BY <1>1, <2>7, <3>8, WhatUndoes DEF plan
      <4>2. u.db = j[1] /\ u.pos = Step(j, 3) /\ {j[1], j[2], j[3], j[4], j[5]} \subseteq Nat
        BY <1>1, <4>1, BorrowFields, KeyNumbers
      <4>3. DOMAIN u.pos = 1 .. 6 /\ u.pos[6] = 3 /\ \A i \in 1 .. 6 : u.pos[i] \in Int
        BY <4>2, StepPlaces
      <4>4. {b.db, u.db, s.db} \subseteq Nat /\ b.db = s.db
        BY <2>2, <2>3, <3>3, <4>2
      <4>5. /\ \A i \in 1 .. 6 : {b.pos[i], u.pos[i], s.pos[i]} \subseteq Int
            /\ \A i \in 1 .. 5 : b.pos[i] = s.pos[i]
            /\ s.pos[6] <= u.pos[6]
        BY <3>5, <3>6, <4>3
      <4> QED
        BY <3>5, <4>3, <4>4, <4>5, NoneBetween
    <3> QED
      BY <2>4, <3>2, <3>3, <3>4, <3>7, <3>8 DEF Lent
  <2> QED
    BY <2>5, <2>6, <2>7
<1> HIDE DEF plan
<1>3. CreatorsLent(c, plan)
  BY <1>2 DEF CreatorsLent
<1> QED
  BY <1>3 DEF plan, st

LEMMA ExecutablePlan ==
  ASSUME Suited, NEW c, Sound(c), Tidy(c), c.member \subseteq Possible, ~PlanFails(Snapshot(c))
  PROVE  Executable(c, Diff(Snapshot(c)))
<1>1. Me \in c.roles /\ Me \notin Managed
  BY DEF Sound, Suited
<1> QED
  BY <1>1, PlanRolesCome, PlanMembersFit, PlanObjects, PlanCreatorsLent DEF Executable

----------------------------------------------------------------------------
(* The catalog stays tidy.                                                 *)

LEMMA ForeseenGiven ==
  ASSUME NEW s, s.op = "alter default grant" => s.args \in Foreseen
  PROVE  \A e \in GivenDefaults(s) : DefaultKey(e) \in Foreseen
<1> SUFFICES ASSUME s.op = "alter default grant", NEW q
             PROVE  DefaultKey(<<s.args[1], s.args[2], s.args[3], s.args[4], s.args[5], q>>) \in Foreseen
  BY DEF GivenDefaults, OnDefault
<1>1. ASSUME NEW k \in Foreseen PROVE k = <<k[1], k[2], k[3], k[4], k[5]>>
  <2>1. PICK e : k = DefaultKey(e)
    BY DEF Foreseen
  <2> QED
    BY <2>1 DEF DefaultKey
<1>2. s.args = <<s.args[1], s.args[2], s.args[3], s.args[4], s.args[5]>>
  BY <1>1
<1> QED
  BY <1>2 DEF DefaultKey

LEMMA OthersTidy ==
  ASSUME IsCatalog(cat), Tidy(cat), Others
  PROVE  Tidy(cat')
<1> USE DEF IsCatalog, Fields
<1>0. \A e \in HandDefaults : DefaultKey(e) \in Foreseen
  BY DEF Foreseen
<1>1. CASE HandGrant
  <2>1. PICK e \in HandGrants : cat' = [cat EXCEPT !.acl = Toggle(@, e)]
    BY <1>1 DEF HandGrant
  <2>2. Toggle(cat.acl, e) \subseteq cat.acl \cup {e} /\ e = <<e[1], e[2], e[3]>>
    BY ShapesAssumption DEF Toggle
  <2>3. cat'.acl \subseteq cat.acl \cup {e} /\ cat'.owner = cat.owner /\ cat'.dacl = cat.dacl /\ cat'.iam = cat.iam
    BY <2>1, <2>2
  <2> QED
    BY <2>2, <2>3 DEF Tidy, Objects
<1>2. CASE HandDefault
  <2>1. PICK e \in HandDefaults : cat' = [cat EXCEPT !.dacl = Toggle(@, e)]
    BY <1>2 DEF HandDefault
  <2>2. Toggle(cat.dacl, e) \subseteq cat.dacl \cup {e} /\ e = <<e[1], e[2], e[3], e[4], e[5], e[6]>>
    BY ShapesAssumption DEF Toggle
  <2>3. cat'.dacl \subseteq cat.dacl \cup {e} /\ cat'.owner = cat.owner /\ cat'.acl = cat.acl /\ cat'.iam = cat.iam
    BY <2>1, <2>2
  <2> QED
    BY <1>0, <2>2, <2>3 DEF Tidy, Objects
<1>3. CASE HandMember \/ CloseDatabase
  <2>1. cat'.dacl = cat.dacl /\ cat'.owner = cat.owner /\ cat'.acl = cat.acl /\ cat'.iam = cat.iam
    BY <1>3 DEF HandMember, CloseDatabase
  <2> QED
    BY <2>1 DEF Tidy, Objects
<1>4. CASE CreateRelation
  <2>1. PICK r \in NewRelations : cat' = Created(cat, r[1], r[2])
    BY <1>4 DEF CreateRelation
  <2> DEFINE born == {<<r[2], e[5], e[6]>> : e \in cat.dacl}
  <2>2. /\ cat'.owner = [x \in Objects(cat) \cup {r[2]} |-> IF x = r[2] THEN r[1] ELSE cat.owner[x]]
        /\ cat'.acl \subseteq cat.acl \cup born /\ cat'.dacl = cat.dacl /\ cat'.iam = cat.iam
    BY <2>1 DEF Created
  <2>3. \A e \in born : e = <<e[1], e[2], e[3]>>
    OBVIOUS
  <2>4. <<r[1], r[2]>> \in Ownable
    BY ShapesAssumption DEF Ownable
  <2> HIDE DEF born
  <2> QED
    BY <2>2, <2>3, <2>4 DEF Tidy, Objects
<1>5. CASE DropRelation
  <2>1. PICK o : cat' = WithoutRelation(cat, o)
    BY <1>5 DEF DropRelation
  <2>2. /\ cat'.owner = [x \in Objects(cat) \ {o} |-> cat.owner[x]]
        /\ cat'.acl \subseteq cat.acl /\ cat'.dacl = cat.dacl /\ cat'.iam = cat.iam
    BY <2>1 DEF WithoutRelation
  <2> QED
    BY <2>2 DEF Tidy, Objects
<1>6. CASE DropRole
  <2>1. PICK r : cat' = WithoutRole(cat, r)
    BY <1>6 DEF DropRole
  <2>2. /\ cat'.owner = cat.owner /\ cat'.acl \subseteq cat.acl
        /\ cat'.dacl \subseteq cat.dacl /\ cat'.iam \subseteq cat.iam
    BY <2>1 DEF WithoutRole
  <2> QED
    BY <2>2 DEF Tidy, Objects
<1> QED
  BY <1>1, <1>2, <1>3, <1>4, <1>5, <1>6 DEF Others

\* What a run does, it does to a tidy catalog.
LEMMA RunTidy ==
  ASSUME TypeInv, DefaultsForeseen, Tidy(cat), NEW p \in Operators, RunStep(p)
  PROVE  Tidy(cat')
<1> DEFINE tx == op[p].tx
           P == {i \in Nat : Tidy(Views(tx)[i])}
<1>1. CASE cat' = cat
  BY <1>1
<1>2. CASE Committed(p)
  <2>1. PICK S : tx \in Seq(S) /\ \A t \in S : Lawful(t)
    BY DEF TypeInv, IInv, RunsLawful, RunLawful, TxLawful
  <2>2. Len(tx) \in Nat /\ DOMAIN tx = 1 .. Len(tx) /\ \A i \in 1 .. Len(tx) : Lawful(tx[i])
    BY <2>1
  <2>3. 0 \in P
    BY <2>2, ViewsSteps
  <2>4. \A i \in 0 .. Len(tx) : IsCatalog(Views(tx)[i])
    BY <1>2, <2>1, ReplaysSound DEF TypeInv, Committed, Sound
  <2>5. ASSUME NEW i \in 0 .. Len(tx), i \in P, i < Len(tx) PROVE i + 1 \in P
    <3>1. i + 1 \in 1 .. Len(tx) /\ (i + 1) - 1 = i
      BY <2>2, <2>5
    <3>2. Views(tx)[i + 1] = Effect(Views(tx)[i], tx[i + 1])
      BY <2>2, <3>1, ViewsSteps
    <3>3. tx[i + 1].op = "alter default grant" => tx[i + 1].args \in Foreseen
      BY <2>2, <3>1 DEF DefaultsForeseen, Pending
    <3>4. IsCatalog(Views(tx)[i]) /\ Lawful(tx[i + 1]) /\ Tidy(Views(tx)[i])
      BY <2>2, <2>4, <2>5, <3>1
    <3>5. Tidy(Views(tx)[i + 1])
      BY <3>2, <3>3, <3>4, ForeseenGiven, TidyStep
    <3> QED
      BY <3>5
  <2> HIDE DEF P
  <2>6. 0 .. Len(tx) \subseteq P
    BY <2>2, <2>3, <2>5, UpTo
  <2>7. Tidy(Views(tx)[Len(tx)])
    BY <2>2, <2>6 DEF P
  <2> QED
    BY <1>2, <2>7 DEF Committed, View
<1>3. ASSUME NEW s \in op[p].plan, Done(p, s) PROVE Tidy(cat')
  <2>1. Lawful(s) /\ s \in Pending(p)
    BY PendingLawful DEF TypeInv, Pending
  <2>2. s.op = "alter default grant" => s.args \in Foreseen
    BY <2>1 DEF DefaultsForeseen
  <2> QED
    BY <1>3, <2>1, <2>2, ForeseenGiven, TidyStep DEF Done, TypeInv, Sound
<1> QED
  BY <1>1, <1>2, <1>3 DEF RunStep, Stops, Reads, Plans, Starts, Sends, Lands

----------------------------------------------------------------------------
(* No membership comes up that was not foreseen.                           *)

\* Which is so at all times, whoever does what.
MembersForeseen ==
  /\ cat.member \subseteq Possible
  /\ \A p \in Operators : \A s \in Pending(p) : Fits(s)

LEMMA OthersFit ==
  ASSUME IsCatalog(cat), Others, cat.member \subseteq Possible
  PROVE  cat'.member \subseteq Possible
<1> USE DEF IsCatalog, Fields
<1>1. HandMembers \subseteq Possible
  BY DEF Possible
<1>2. CASE HandMember
  BY <1>1, <1>2 DEF HandMember
<1>3. CASE HandGrant \/ HandDefault \/ CloseDatabase
  <2>1. cat'.member = cat.member
    BY <1>3 DEF HandGrant, HandDefault, CloseDatabase
  <2> QED
    BY <2>1
<1>4. CASE CreateRelation \/ DropRelation
  <2>1. cat'.member = cat.member
    BY <1>4 DEF CreateRelation, Created, DropRelation, WithoutRelation
  <2> QED
    BY <2>1
<1>5. CASE DropRole
  BY <1>5 DEF DropRole, WithoutRole
<1> QED
  BY <1>2, <1>3, <1>4, <1>5 DEF Others

LEMMA RunFits ==
  ASSUME TypeInv, MembersForeseen, NEW p \in Operators, RunStep(p)
  PROVE  cat'.member \subseteq Possible
<1> DEFINE tx == op[p].tx
           P == {i \in Nat : Views(tx)[i].member \subseteq Possible}
<1>1. CASE cat' = cat
  BY <1>1 DEF MembersForeseen
<1>2. CASE Committed(p)
  <2>1. PICK S : tx \in Seq(S) /\ \A t \in S : Lawful(t)
    BY DEF TypeInv, IInv, RunsLawful, RunLawful, TxLawful
  <2>2. Len(tx) \in Nat /\ DOMAIN tx = 1 .. Len(tx) /\ \A i \in 1 .. Len(tx) : Lawful(tx[i])
    BY <2>1
  <2>3. 0 \in P
    BY <2>2, ViewsSteps DEF MembersForeseen
  <2>4. \A i \in 0 .. Len(tx) : IsCatalog(Views(tx)[i])
    BY <1>2, <2>1, ReplaysSound DEF TypeInv, Committed, Sound
  <2>5. ASSUME NEW i \in 0 .. Len(tx), i \in P, i < Len(tx) PROVE i + 1 \in P
    <3>1. i + 1 \in 1 .. Len(tx) /\ (i + 1) - 1 = i
      BY <2>2, <2>5
    <3>2. Views(tx)[i + 1] = Effect(Views(tx)[i], tx[i + 1])
      BY <2>2, <3>1, ViewsSteps
    <3>3. Fits(tx[i + 1])
      BY <2>2, <3>1 DEF MembersForeseen, Pending
    <3>4. IsCatalog(Views(tx)[i]) /\ Lawful(tx[i + 1]) /\ Views(tx)[i].member \subseteq Possible
      BY <2>2, <2>4, <2>5, <3>1
    <3>5. Views(tx)[i + 1].member \subseteq Possible
      BY <3>2, <3>3, <3>4, EffectFits
    <3> QED
      BY <3>5
  <2> HIDE DEF P
  <2>6. 0 .. Len(tx) \subseteq P
    BY <2>2, <2>3, <2>5, UpTo
  <2>7. Views(tx)[Len(tx)].member \subseteq Possible
    BY <2>2, <2>6 DEF P
  <2> QED
    BY <1>2, <2>7 DEF Committed, View
<1>3. ASSUME NEW s \in op[p].plan, Done(p, s) PROVE cat'.member \subseteq Possible
  <2>1. Lawful(s) /\ s \in Pending(p)
    BY PendingLawful DEF TypeInv, Pending
  <2>2. Fits(s)
    BY <2>1 DEF MembersForeseen
  <2> QED
    BY <1>3, <2>1, <2>2, EffectFits DEF Done, TypeInv, Sound, MembersForeseen
<1> QED
  BY <1>1, <1>2, <1>3 DEF RunStep, Stops, Reads, Plans, Starts, Sends, Lands

LEMMA MembersStays ==
  ASSUME Me \notin Managed, TypeInv, DefaultsForeseen, MembersForeseen, [Next]_vars
  PROVE  MembersForeseen'
<1>1. CASE UNCHANGED vars
  BY <1>1 DEF vars, MembersForeseen, Pending
<1>2. CASE Others
  <2>1. op' = op /\ cat'.member \subseteq Possible
    BY <1>2, OthersFit DEF Others, MembersForeseen, TypeInv, Sound
  <2> QED
    BY <2>1 DEF MembersForeseen, Pending
<1>3. ASSUME NEW p \in Operators, Progress(p) \/ Interrupt(p) \/ LoseAnswer(p)
      PROVE  MembersForeseen'
  <2>1. RunStep(p)
    BY <1>3, RunShape DEF TypeInv, RunsTyped, RunTyped, TxAtomic
  <2>2. cat'.member \subseteq Possible
    BY <2>1, RunFits
  <2>3. /\ \A q \in Operators \ {p} : Pending(q)' = Pending(q)
        /\ \A s \in Pending(p)' : Fits(s)
    <3>1. CASE Pending(p)' \subseteq Pending(p)
      BY <2>1, <3>1, PendingStep DEF TypeInv, MembersForeseen
    <3>2. ASSUME NEW st, FreshSnapshot(p, st), Pending(p)' = Diff(st)
          PROVE  \A s \in Pending(p)' : Fits(s)
      BY <3>2, SnapshotForeseen, DiffFits
    <3> QED
      BY <2>1, <3>1, <3>2, PendingStep DEF TypeInv
  <2> QED
    BY <2>2, <2>3 DEF MembersForeseen
<1> QED
  BY <1>1, <1>2, <1>3 DEF Next

LEMMA MembersInit == Init => MembersForeseen
<1> SUFFICES ASSUME Init PROVE MembersForeseen
  OBVIOUS
<1>1. cat.member \subseteq Possible
  BY DEF Init, Possible, Standing
<1>2. \A p \in Operators : op[p].plan = {} /\ op[p].tx = <<>>
  BY DEF Init, Idle
<1>3. \A p \in Operators : Pending(p) = {}
  BY <1>2 DEF Pending
<1> QED
  BY <1>1, <1>3 DEF MembersForeseen

TidyInv == TypeInv /\ DefaultsForeseen /\ MembersForeseen /\ Tidy(cat)

LEMMA TidyNext ==
  ASSUME Me \notin Managed
  PROVE  TidyInv /\ [Next]_vars => TidyInv'
<1> SUFFICES ASSUME TidyInv, [Next]_vars PROVE TidyInv'
  OBVIOUS
<1>1. TypeInv' /\ DefaultsForeseen' /\ MembersForeseen'
  BY TypeStep, ForeseenStep, MembersStays DEF TidyInv
<1>2. Tidy(cat')
  <2>1. CASE UNCHANGED vars
    BY <2>1 DEF vars, TidyInv
  <2>2. CASE Others
    BY <2>2, OthersTidy DEF TidyInv, TypeInv, Sound
  <2>3. ASSUME NEW p \in Operators, Progress(p) \/ Interrupt(p) \/ LoseAnswer(p) PROVE Tidy(cat')
    <3>1. RunStep(p)
      BY <2>3, RunShape DEF TidyInv, TypeInv, RunsTyped, RunTyped, TxAtomic
    <3> QED
      BY <3>1, RunTidy DEF TidyInv
  <2> QED
    BY <2>1, <2>2, <2>3 DEF Next
<1>3. (Tidy(cat))'
  BY <1>2
<1> QED
  BY <1>1, <1>3 DEF TidyInv

LEMMA TidyInit == Init => TidyInv
<1> SUFFICES ASSUME Init PROVE TidyInv
  OBVIOUS
<1>1. Tidy(cat)
  BY ShapesAssumption DEF Init, Tidy, Ownable, Foreseen
<1> QED
  BY <1>1, TypeInit, ForeseenInit, MembersInit DEF TidyInv

----------------------------------------------------------------------------
(* A run that nobody disturbs plans for the catalog as it is.              *)

LEMMA LeastOf ==
  ASSUME NEW S, S \subseteq Nat, S # {}
  PROVE  Min(S) \in S
<1> DEFINE P == {i \in Nat : \A n \in S : n > i}
<1> SUFFICES ASSUME ~\E m \in S : \A n \in S : m <= n PROVE FALSE
  BY DEF Min
<1>1. PICK m \in S : m \in Nat
  OBVIOUS
<1>2. 0 \in P
  <2>1. \A n \in S : n # 0
    OBVIOUS
  <2> QED
    BY <2>1
<1>3. ASSUME NEW i \in 0 .. m, i \in P, i < m PROVE i + 1 \in P
  <2>1. i \in Nat /\ \A n \in S : n \in Nat /\ n > i
    BY <1>3
  <2>2. \A n \in S : n # i + 1
    BY <2>1
  <2> QED
    BY <2>1, <2>2
<1> HIDE DEF P
<1>4. 0 .. m \subseteq P
  BY <1>1, <1>2, <1>3, UpTo
<1> QED
  BY <1>1, <1>4 DEF P

LEMMA NamedNumbers == DatabasesNamed \subseteq Nat
<1>1. \A d \in DesiredDefaults : d[1] \in Nat
  <2> TAKE d \in DesiredDefaults
  <2>1. DefaultKey(d) \in Foreseen /\ DefaultKey(d)[1] = d[1]
    BY DEF Foreseen, DefaultKey
  <2> QED
    BY <2>1, ForeseenNumbers
<1>2. \A x \in SchemasNamed : x[1] \in Nat
  <2>1. \A w \in Decl.wide : <<w[1], w[2]>>[1] \in Nat
    BY NamesAssumption
  <2>2. \A d \in DesiredDefaults : <<d[1], d[2]>>[1] \in Nat
    BY <1>1
  <2>3. \A g \in Decl.grants : <<g[1][1], g[1][3]>>[1] \in Nat
    BY NamesAssumption
  <2> QED
    BY <2>1, <2>2, <2>3 DEF SchemasNamed
<1> QED
  BY <1>2, NamesAssumption DEF DatabasesNamed

LEMMA NextIsLeft ==
  ASSUME NEW left
  PROVE  ReadNext(left) \subseteq left
<1>1. ASSUME left \cap DatabasesNamed # {}
      PROVE  Min(left \cap DatabasesNamed) \in left
  BY <1>1, LeastOf, NamedNumbers
<1> QED
  BY <1>1 DEF ReadNext

\* Reading some databases and then others is reading them all.
LEMMA ReadMore ==
  ASSUME NEW c, NEW rc, IsCatalog(rc), NEW D, NEW E
  PROVE  ReadDatabases(c, ReadDatabases(c, rc, D), E) = ReadDatabases(c, rc, D \cup E)
<1> DEFINE seen(dbs) == {o \in Objects(c) : o[1] \in dbs /\ o[2] # DatabaseKind}
           some == ReadDatabases(c, rc, D)
           more == ReadDatabases(c, some, E)
           all == ReadDatabases(c, rc, D \cup E)
<1>1. ASSUME NEW st, IsCatalog(st), NEW dbs
      PROVE  LET new == ReadDatabases(c, st, dbs) IN
             /\ new.owner = [o \in Objects(st) \cup seen(dbs) |-> IF o \in seen(dbs) THEN c.owner[o] ELSE st.owner[o]]
             /\ new.acl = st.acl \cup AclOf(c, seen(dbs))
             /\ new.dacl = st.dacl \cup {e \in c.dacl : e[1] \in dbs /\ e[5] # Public}
             /\ \A f \in Fields \ {"owner", "acl", "dacl"} : new[f] = st[f]
             /\ IsCatalog(new)
  BY <1>1 DEF ReadDatabases, IsCatalog, Fields
<1>2. /\ some.owner = [o \in Objects(rc) \cup seen(D) |-> IF o \in seen(D) THEN c.owner[o] ELSE rc.owner[o]]
      /\ some.acl = rc.acl \cup AclOf(c, seen(D))
      /\ some.dacl = rc.dacl \cup {e \in c.dacl : e[1] \in D /\ e[5] # Public}
      /\ \A f \in Fields \ {"owner", "acl", "dacl"} : some[f] = rc[f]
      /\ IsCatalog(some)
  BY <1>1
<1> HIDE DEF some
<1>3. /\ more.owner = [o \in Objects(some) \cup seen(E) |-> IF o \in seen(E) THEN c.owner[o] ELSE some.owner[o]]
      /\ more.acl = some.acl \cup AclOf(c, seen(E))
      /\ more.dacl = some.dacl \cup {e \in c.dacl : e[1] \in E /\ e[5] # Public}
      /\ \A f \in Fields \ {"owner", "acl", "dacl"} : more[f] = some[f]
      /\ IsCatalog(more)
  BY <1>1, <1>2
<1>4. /\ all.owner = [o \in Objects(rc) \cup seen(D \cup E) |->
                        IF o \in seen(D \cup E) THEN c.owner[o] ELSE rc.owner[o]]
      /\ all.acl = rc.acl \cup AclOf(c, seen(D \cup E))
      /\ all.dacl = rc.dacl \cup {e \in c.dacl : e[1] \in D \cup E /\ e[5] # Public}
      /\ \A f \in Fields \ {"owner", "acl", "dacl"} : all[f] = rc[f]
      /\ IsCatalog(all)
  BY <1>1
<1> HIDE DEF more, all
<1>5. seen(D \cup E) = seen(D) \cup seen(E)
  OBVIOUS
<1>6. AclOf(c, seen(D \cup E)) = AclOf(c, seen(D)) \cup AclOf(c, seen(E))
  BY <1>5 DEF AclOf
<1> HIDE DEF seen
<1>7. more.acl = all.acl
  BY <1>2, <1>3, <1>4, <1>6
<1>8. more.dacl = all.dacl
  BY <1>2, <1>3, <1>4
<1>9. more.owner = all.owner
  <2>1. Objects(some) = Objects(rc) \cup seen(D)
    BY <1>2 DEF Objects
  <2>2. Objects(some) \cup seen(E) = Objects(rc) \cup seen(D \cup E)
    BY <1>5, <2>1
  <2>3. \A o \in Objects(some) \cup seen(E) :
          (IF o \in seen(E) THEN c.owner[o] ELSE some.owner[o])
            = IF o \in seen(D \cup E) THEN c.owner[o] ELSE rc.owner[o]
    BY <1>2, <1>5, <2>1
  <2> QED
    BY <1>3, <1>4, <2>2, <2>3
<1>10. \A f \in Fields : more[f] = all[f]
  BY <1>2, <1>3, <1>4, <1>7, <1>8, <1>9
<1>11. more = all
  BY <1>3, <1>4, <1>10 DEF IsCatalog
<1> QED
  BY <1>11 DEF some, more, all

LEMMA ReadNone ==
  ASSUME NEW c, NEW rc, IsCatalog(rc), rc.owner = [o \in Objects(rc) |-> rc.owner[o]]
  PROVE  ReadDatabases(c, rc, {}) = rc
<1> DEFINE new == ReadDatabases(c, rc, {})
<1>1. /\ new.owner = [o \in Objects(rc) |-> rc.owner[o]]
      /\ new.acl = rc.acl \cup AclOf(c, {})
      /\ new.dacl = rc.dacl
      /\ \A f \in Fields \ {"owner", "acl", "dacl"} : new[f] = rc[f]
      /\ IsCatalog(new)
  BY DEF ReadDatabases, IsCatalog, Fields
<1>2. AclOf(c, {}) = {}
  BY DEF AclOf
<1> HIDE DEF new
<1>3. \A f \in Fields : new[f] = rc[f]
  BY <1>1, <1>2
<1>4. new = rc
  BY <1>1, <1>3 DEF IsCatalog
<1> QED
  BY <1>4 DEF new

\* What a run has read is the catalog c, as far as it went.
ReadSoFar(c, st, left) ==
  LET rc == ReadCluster(c, IAMPrincipals) IN
  /\ left \subseteq DatabasesToRead(c)
  /\ DatabasesToRead(c) \ left \subseteq c.open
  /\ st = ReadDatabases(c, rc, DatabasesToRead(c) \ left)

LEMMA ReadFirst ==
  ASSUME IsCatalog(cat)
  PROVE  LET rc == ReadCluster(cat, IAMPrincipals) IN
         IsCatalog(rc) /\ DatabasesToRead(rc) = DatabasesToRead(cat) /\ ReadSoFar(cat, rc, DatabasesToRead(rc))
<1> DEFINE rc == ReadCluster(cat, IAMPrincipals)
<1>1. IsCatalog(rc) /\ rc.open = cat.open
      /\ rc.owner = [o \in {x \in Objects(cat) : x[2] = DatabaseKind} |-> cat.owner[o]]
  BY DEF ReadCluster, OwnersOf, IsCatalog, Fields
<1> HIDE DEF rc
<1>2. DatabasesToRead(rc) = DatabasesToRead(cat)
  BY <1>1 DEF DatabasesToRead
<1>3. rc.owner = [o \in Objects(rc) |-> rc.owner[o]]
  BY <1>1 DEF Objects
<1>4. ReadDatabases(cat, rc, {}) = rc
  BY <1>1, <1>3, ReadNone
<1>5. DatabasesToRead(cat) \ DatabasesToRead(rc) = {}
  BY <1>2
<1>6. ReadSoFar(cat, rc, DatabasesToRead(rc))
  BY <1>2, <1>4, <1>5 DEF ReadSoFar, rc
<1> QED
  BY <1>1, <1>2, <1>6 DEF rc

LEMMA ReadOneMore ==
  ASSUME IsCatalog(cat), NEW st, NEW left, ReadSoFar(cat, st, left), NEW db \in ReadNext(left), db \in cat.open
  PROVE  ReadSoFar(cat, ReadDatabases(cat, st, {db}), left \ {db})
<1> DEFINE rc == ReadCluster(cat, IAMPrincipals)
           All == DatabasesToRead(cat)
<1>1. db \in left
  BY NextIsLeft
<1>2. left \subseteq All /\ All \ left \subseteq cat.open /\ st = ReadDatabases(cat, rc, All \ left)
  BY DEF ReadSoFar
<1>3. IsCatalog(rc)
  BY ReadFirst
<1> HIDE DEF rc, All
<1>4. All \ (left \ {db}) = (All \ left) \cup {db}
  BY <1>1, <1>2
<1>5. ReadDatabases(cat, st, {db}) = ReadDatabases(cat, rc, (All \ left) \cup {db})
  BY <1>2, <1>3, ReadMore
<1>6. /\ left \ {db} \subseteq All /\ All \ (left \ {db}) \subseteq cat.open
      /\ ReadDatabases(cat, st, {db}) = ReadDatabases(cat, rc, All \ (left \ {db}))
  BY <1>2, <1>4, <1>5
<1> QED
  BY <1>6 DEF ReadSoFar, rc, All

LEMMA ReadAll ==
  ASSUME IsCatalog(cat), NEW st, ReadSoFar(cat, st, {})
  PROVE  st = Snapshot(cat)
<1> DEFINE rc == ReadCluster(cat, IAMPrincipals)
<1>1. /\ DatabasesToRead(cat) \ {} = DatabasesToRead(cat) /\ DatabasesToRead(cat) \ {} \subseteq cat.open
      /\ st = ReadDatabases(cat, rc, DatabasesToRead(cat) \ {})
  BY DEF ReadSoFar
<1>2. DatabasesToRead(rc) = DatabasesToRead(cat)
  BY ReadFirst
<1> HIDE DEF rc
<1>3. DatabasesToRead(rc) \cap cat.open = DatabasesToRead(cat) \ {}
  BY <1>1, <1>2
<1> QED
  BY <1>1, <1>3 DEF Snapshot, rc

\* What a step of the run of p does with what the run has in hand.
LEMMA HandShape ==
  ASSUME IInv, TxAtomic, NEW p \in Operators, Progress(p) \/ Interrupt(p) \/ LoseAnswer(p)
  PROVE  /\ op'[p].phase \in {"reading", "planned"} =>
              /\ cat' = cat
              /\ \E st, left :
                   /\ \/ st = ReadCluster(cat, IAMPrincipals) /\ left = DatabasesToRead(st)
                      \/ /\ op[p].phase = "reading" /\ (p \notin stale' => p \notin stale)
                         /\ \E db \in ReadNext(op[p].left) \cap cat.open :
                              st = ReadDatabases(cat, op[p].st, {db}) /\ left = op[p].left \ {db}
                   /\ op'[p].phase = "reading" => op'[p].st = st /\ op'[p].left = left
                   /\ op'[p].phase = "planned" =>
                        left = {} /\ ~PlanFails(st) /\ op'[p].plan = Diff(st) /\ op'[p].tx = <<>>
         /\ op'[p].phase \in {"applying", "applied"} =>
              /\ op[p].phase \in {"planned", "applying"} /\ (p \notin stale' => p \notin stale)
              /\ op'[p].phase = "applied" => op'[p].plan = {} /\ op'[p].tx = <<>>
              /\ \/ cat' = cat /\ op'[p].plan = op[p].plan /\ op'[p].tx = op[p].tx
                 \/ \E s \in op[p].plan :
                      /\ NextStatement(p, s) /\ Permitted(View(op[p].tx), s) /\ op'[p].plan = op[p].plan \ {s}
                      /\ \/ cat' = cat /\ op'[p].tx = Append(op[p].tx, s)
                         \/ op[p].tx = <<>> /\ cat' = Effect(cat, s) /\ op'[p].tx = <<>>
                 \/ cat' = View(op[p].tx) /\ op'[p].plan = op[p].plan /\ op'[p].tx = <<>>
<1> DEFINE Planning == op'[p].phase \in {"reading", "planned"}
           Applying == op'[p].phase \in {"applying", "applied"}
           From(st, left) ==
             /\ op'[p].phase = "reading" => op'[p].st = st /\ op'[p].left = left
             /\ op'[p].phase = "planned" =>
                  left = {} /\ ~PlanFails(st) /\ op'[p].plan = Diff(st) /\ op'[p].tx = <<>>
<1>0. op = [q \in Operators |-> op[q]] /\ op[p] = [f \in RunFields |-> op[p][f]]
  BY DEF IInv, RunsLawful, RunLawful
<1>1. ASSUME NEW phase \in {"failed", "refused", "clean"}, End(p, phase) PROVE ~Planning /\ ~Applying
  <2>1. op'[p] = [Idle EXCEPT !.phase = phase]
    BY <1>0, <1>1 DEF End
  <2>2. op'[p].phase = phase
    BY <2>1 DEF Idle
  <2> QED
    BY <1>1, <2>2
<1>2. ASSUME NEW st, NEW left, ReadOn(p, st, left)
      PROVE  ~Applying /\ From(st, left)
  <2>1. CASE op' = [op EXCEPT ![p] = [Idle EXCEPT !.phase = "reading", !.st = st, !.left = left]]
    <3>1. op'[p] = [Idle EXCEPT !.phase = "reading", !.st = st, !.left = left]
      BY <1>0, <2>1
    <3>2. op'[p].phase = "reading" /\ op'[p].st = st /\ op'[p].left = left
      BY <3>1 DEF Idle
    <3> QED
      BY <3>2
  <2>2. CASE left = {} /\ Decide(p, st)
    <3>1. CASE End(p, "failed") \/ End(p, "clean")
      BY <1>1, <3>1
    <3>2. ASSUME ~PlanFails(st), NEW allow,
                 op' = [op EXCEPT ![p] = [Idle EXCEPT !.phase = "planned", !.allow = allow, !.plan = Diff(st)]]
          PROVE  ~Applying /\ From(st, left)
      <4>1. op'[p] = [Idle EXCEPT !.phase = "planned", !.allow = allow, !.plan = Diff(st)]
        BY <1>0, <3>2
      <4>2. op'[p].phase = "planned" /\ op'[p].plan = Diff(st) /\ op'[p].tx = <<>>
        BY <4>1 DEF Idle
      <4> QED
        BY <2>2, <3>2, <4>2
    <3> QED
      BY <2>2, <3>1, <3>2 DEF Decide
  <2> QED
    BY <1>2, <2>1, <2>2 DEF ReadOn
<1>3. ASSUME NEW rest, NEW tx, GoOn(p, rest, tx)
      PROVE  /\ ~Planning /\ op'[p].plan = rest /\ op'[p].tx = tx
             /\ op'[p].phase = "applied" => rest = {} /\ tx = <<>>
  <2> DEFINE r == [op[p] EXCEPT !.plan = rest, !.tx = tx,
                                !.phase = IF rest = {} /\ tx = <<>> THEN "applied" ELSE "applying"]
  <2>1. op' = [op EXCEPT ![p] = r]
    BY <1>0, <1>3 DEF GoOn, RunFields
  <2>2. /\ op'[p] = r /\ r.plan = rest /\ r.tx = tx
        /\ r.phase = IF rest = {} /\ tx = <<>> THEN "applied" ELSE "applying"
    BY <1>0, <2>1 DEF RunFields
  <2> HIDE DEF r
  <2> QED
    BY <2>2
<1>4. CASE StartReading(p)
  <2>1. cat' = cat
    BY <1>4 DEF StartReading
  <2> QED
    BY <1>1, <1>2, <1>4, <2>1 DEF StartReading
<1>5. CASE ReadNextDatabase(p)
  <2>1. cat' = cat /\ stale' = stale /\ op[p].phase = "reading"
    BY <1>5 DEF ReadNextDatabase
  <2>2. PICK db \in ReadNext(op[p].left) :
          \/ End(p, "failed")
          \/ db \in cat.open /\ ReadOn(p, ReadDatabases(cat, op[p].st, {db}), op[p].left \ {db})
    BY <1>5 DEF ReadNextDatabase
  <2>3. CASE End(p, "failed")
    BY <1>1, <2>3
  <2>4. CASE db \in cat.open /\ ReadOn(p, ReadDatabases(cat, op[p].st, {db}), op[p].left \ {db})
    <3> DEFINE st == ReadDatabases(cat, op[p].st, {db})
               left == op[p].left \ {db}
    <3>1. ~Applying /\ From(st, left)
      BY <1>2, <2>4
    <3>2. \E d \in ReadNext(op[p].left) \cap cat.open :
            st = ReadDatabases(cat, op[p].st, {d}) /\ left = op[p].left \ {d}
      BY <2>4
    <3> HIDE DEF st, left
    <3> QED
      BY <2>1, <3>1, <3>2
  <2> QED
    BY <2>2, <2>3, <2>4
<1>6. CASE Confirm(p)
  <2>1. cat' = cat /\ stale' = stale /\ op[p].phase = "planned"
    BY <1>6 DEF Confirm
  <2>2. CASE End(p, "refused")
    BY <1>1, <2>2
  <2>3. CASE op' = [op EXCEPT ![p].phase = "applying"]
    <3>1. op'[p].phase = "applying" /\ op'[p].plan = op[p].plan /\ op'[p].tx = op[p].tx
      BY <1>0, <2>3 DEF RunFields
    <3> QED
      BY <2>1, <3>1
  <2> QED
    BY <1>6, <2>2, <2>3 DEF Confirm
<1>7. CASE Execute(p)
  <2>1. PICK s \in op[p].plan :
          /\ NextStatement(p, s)
          /\ IF Refused(op[p].tx, s) THEN End(p, "failed") /\ UNCHANGED cat
             ELSE \/ /\ Atomic
                     /\ GoOn(p, op[p].plan \ {s}, Append(op[p].tx, s))
                     /\ UNCHANGED cat
                  \/ /\ ~Atomic
                     /\ cat' = Effect(cat, s)
                     /\ GoOn(p, op[p].plan \ {s}, <<>>)
    BY <1>7 DEF Execute
  <2>2. Changed({p}) /\ op[p].phase = "applying"
    BY <1>7, <2>1 DEF Execute, NextStatement
  <2>3. p \notin stale' => p \notin stale
    BY <2>2 DEF Changed
  <2>4. CASE End(p, "failed")
    BY <1>1, <2>4
  <2>5. CASE ~Refused(op[p].tx, s)
    <3>1. Permitted(View(op[p].tx), s) /\ (~Atomic => op[p].tx = <<>>)
      BY <2>5 DEF Refused, TxAtomic
    <3>2. \/ cat' = cat /\ GoOn(p, op[p].plan \ {s}, Append(op[p].tx, s))
          \/ op[p].tx = <<>> /\ cat' = Effect(cat, s) /\ GoOn(p, op[p].plan \ {s}, <<>>)
      BY <2>1, <2>5, <3>1
    <3>3. /\ ~Planning /\ op'[p].plan = op[p].plan \ {s}
          /\ op'[p].phase = "applied" => op'[p].plan = {} /\ op'[p].tx = <<>>
          /\ \/ cat' = cat /\ op'[p].tx = Append(op[p].tx, s)
             \/ op[p].tx = <<>> /\ cat' = Effect(cat, s) /\ op'[p].tx = <<>>
      BY <1>3, <3>2
    <3> QED
      BY <2>1, <2>2, <2>3, <3>1, <3>3
  <2> QED
    BY <2>1, <2>4, <2>5
<1>8. CASE Commit(p)
  <2>1. Changed({p}) /\ op[p].phase = "applying"
    BY <1>8 DEF Commit
  <2>2. p \notin stale' => p \notin stale
    BY <2>1 DEF Changed
  <2>3. CASE End(p, "failed")
    BY <1>1, <2>3
  <2>4. CASE cat' = View(op[p].tx) /\ GoOn(p, op[p].plan, <<>>)
    BY <1>3, <2>1, <2>2, <2>4
  <2> QED
    BY <1>8, <2>3, <2>4 DEF Commit
<1>9. CASE Interrupt(p) \/ LoseAnswer(p)
  BY <1>1, <1>9 DEF Interrupt, LoseAnswer
<1> QED
  BY <1>4, <1>5, <1>6, <1>7, <1>8, <1>9 DEF Progress

----------------------------------------------------------------------------
(* What a run that nobody disturbs has in hand.                            *)

\* c is what the statements of tx make of the catalog b.
Comes(b, tx, c) ==
  \E V : V[0] = b /\ (\A i \in 1 .. Len(tx) : V[i] = Effect(V[i - 1], tx[i])) /\ V[Len(tx)] = c

LEMMA ComesView ==
  ASSUME NEW tx, Len(tx) \in Nat
  PROVE  Comes(cat, tx, View(tx)) /\ \A c : Comes(cat, tx, c) => c = View(tx)
<1>1. Comes(cat, tx, View(tx))
  BY ViewsSteps DEF Comes, View
<1>2. ASSUME NEW c, Comes(cat, tx, c) PROVE c = View(tx)
  <2>1. PICK V : V[0] = cat /\ (\A i \in 1 .. Len(tx) : V[i] = Effect(V[i - 1], tx[i])) /\ V[Len(tx)] = c
    BY <1>2 DEF Comes
  <2> DEFINE P == {i \in Nat : V[i] = Views(tx)[i]}
  <2>2. 0 \in P
    BY <2>1, ViewsSteps
  <2>3. ASSUME NEW i \in 0 .. Len(tx), i \in P, i < Len(tx) PROVE i + 1 \in P
    <3>1. i + 1 \in 1 .. Len(tx) /\ (i + 1) - 1 = i
      BY <2>3
    <3>2. V[i + 1] = Effect(V[i], tx[i + 1]) /\ Views(tx)[i + 1] = Effect(Views(tx)[i], tx[i + 1])
      BY <2>1, <3>1, ViewsSteps
    <3> QED
      BY <2>3, <3>2
  <2> HIDE DEF P
  <2>4. 0 .. Len(tx) \subseteq P
    BY <2>2, <2>3, UpTo
  <2> QED
    BY <2>1, <2>4 DEF P, View
<1> QED
  BY <1>1, <1>2

LEMMA ComesNothing == \A c : Comes(c, <<>>, c)
<1> TAKE c
<1> DEFINE V == [i \in {0} |-> c]
<1>1. V[0] = c /\ (\A i \in 1 .. 0 : V[i] = Effect(V[i - 1], <<>>[i])) /\ V[0] = c
  OBVIOUS
<1> HIDE DEF V
<1>2. Len(<<>>) = 0
  OBVIOUS
<1> QED
  BY <1>1, <1>2 DEF Comes

LEMMA ComesMore ==
  ASSUME NEW b, NEW S, NEW tx \in Seq(S), NEW c, Comes(b, tx, c), NEW s
  PROVE  Comes(b, Append(tx, s), Effect(c, s))
<1> DEFINE new == Append(tx, s)
           n == Len(tx)
<1>1. n \in Nat /\ Len(new) = n + 1 /\ new[n + 1] = s /\ \A i \in 1 .. n : new[i] = tx[i]
  OBVIOUS
<1>2. PICK U : U[0] = b /\ (\A i \in 1 .. n : U[i] = Effect(U[i - 1], tx[i])) /\ U[n] = c
  BY DEF Comes
<1> DEFINE V == [i \in 0 .. n + 1 |-> IF i = n + 1 THEN Effect(c, s) ELSE U[i]]
<1>3. V[0] = b /\ V[n + 1] = Effect(c, s)
  BY <1>1, <1>2
<1>4. \A i \in 1 .. n + 1 : V[i] = Effect(V[i - 1], new[i])
  <2> TAKE i \in 1 .. n + 1
  <2>1. CASE i \in 1 .. n
    <3>1. V[i] = U[i] /\ V[i - 1] = U[i - 1]
      BY <1>1, <2>1
    <3> QED
      BY <1>1, <1>2, <2>1, <3>1
  <2>2. CASE i = n + 1
    <3>1. V[i - 1] = c /\ V[i] = Effect(c, s)
      BY <1>1, <1>2, <2>2
    <3> QED
      BY <1>1, <2>2, <3>1
  <2> QED
    BY <1>1, <2>1, <2>2
<1> HIDE DEF V, new, n
<1>5. \E W : /\ W[0] = b /\ (\A i \in 1 .. Len(new) : W[i] = Effect(W[i - 1], new[i]))
             /\ W[Len(new)] = Effect(c, s)
  BY <1>1, <1>3, <1>4
<1> QED
  BY <1>5 DEF Comes, new

LEMMA ReadyPlan ==
  ASSUME Suited, NEW c, Sound(c), Tidy(c), c.member \subseteq Possible, ~PlanFails(Snapshot(c))
  PROVE  Ready(c, Diff(Snapshot(c)))
BY LeftPlan, ExecutablePlan DEF Ready, Orderly

LEMMA ReadyStep ==
  ASSUME Suited, NEW c, NEW rest, Ready(c, rest), NEW s \in rest, IsFirst(rest, s), Permitted(c, s)
  PROVE  Ready(Effect(c, s), rest \ {s})
<1>1. Left(c, rest) /\ Me \notin Managed
  BY DEF Ready, Suited
<1>2. IsCatalog(c) /\ Lawful(s)
  BY <1>1 DEF Left, Sound
<1>3. Orderly => Executable(Effect(c, s), rest \ {s})
  BY <1>1, <1>2, ExecutableStep DEF Ready
<1> QED
  BY <1>1, <1>3, LeftStep DEF Ready

\* As long as others leave the catalog alone, all that is left to do is in the
\* plan, in the order it is in.
InHand ==
  \A p \in Operators \ stale :
    /\ op[p].phase = "reading" => ReadSoFar(cat, op[p].st, op[p].left)
    /\ op[p].phase \in {"planned", "applying"} => \E c : Comes(cat, op[p].tx, c) /\ Ready(c, op[p].plan)
    /\ op[p].phase = "applied" => Left(cat, {})

\* Planning in the present catalog.
LEMMA InHandPlanned ==
  ASSUME Suited, TidyInv, NEW st, ReadSoFar(cat, st, {}), ~PlanFails(st)
  PROVE  \E c : Comes(cat, <<>>, c) /\ Ready(c, Diff(st))
<1>1. st = Snapshot(cat)
  BY ReadAll DEF TidyInv, TypeInv, Sound
<1>2. Ready(cat, Diff(st))
  BY <1>1, ReadyPlan DEF TidyInv, TypeInv, MembersForeseen
<1> QED
  BY <1>2, ComesNothing

\* Reading on, or planning.
LEMMA InHandReads ==
  ASSUME Suited, TidyInv, InHand, NEW p \in Operators, p \notin stale',
         Progress(p) \/ Interrupt(p) \/ LoseAnswer(p), op'[p].phase \in {"reading", "planned"}
  PROVE  /\ op'[p].phase = "reading" => ReadSoFar(cat', op'[p].st, op'[p].left)
         /\ op'[p].phase = "planned" => \E c : Comes(cat', op'[p].tx, c) /\ Ready(c, op'[p].plan)
<1>1. IInv /\ TxAtomic /\ IsCatalog(cat)
  BY DEF TidyInv, TypeInv, Sound, RunsTyped, RunTyped, TxAtomic
<1>2. cat' = cat
  BY <1>1, HandShape
<1>3. PICK st, left :
        /\ \/ st = ReadCluster(cat, IAMPrincipals) /\ left = DatabasesToRead(st)
           \/ /\ op[p].phase = "reading" /\ (p \notin stale' => p \notin stale)
              /\ \E db \in ReadNext(op[p].left) \cap cat.open :
                   st = ReadDatabases(cat, op[p].st, {db}) /\ left = op[p].left \ {db}
        /\ op'[p].phase = "reading" => op'[p].st = st /\ op'[p].left = left
        /\ op'[p].phase = "planned" =>
             left = {} /\ ~PlanFails(st) /\ op'[p].plan = Diff(st) /\ op'[p].tx = <<>>
  BY <1>1, HandShape
<1>4. ReadSoFar(cat, st, left)
  <2>1. CASE st = ReadCluster(cat, IAMPrincipals) /\ left = DatabasesToRead(st)
    BY <1>1, <2>1, ReadFirst
  <2>2. ASSUME op[p].phase = "reading", p \notin stale, NEW db \in ReadNext(op[p].left) \cap cat.open,
               st = ReadDatabases(cat, op[p].st, {db}), left = op[p].left \ {db}
        PROVE  ReadSoFar(cat, st, left)
    <3>1. ReadSoFar(cat, op[p].st, op[p].left)
      BY <2>2 DEF InHand
    <3> QED
      BY <1>1, <2>2, <3>1, ReadOneMore
  <2> QED
    BY <1>3, <2>1, <2>2
<1>5. ASSUME op'[p].phase = "planned" PROVE \E c : Comes(cat, <<>>, c) /\ Ready(c, Diff(st))
  BY <1>3, <1>4, <1>5, InHandPlanned
<1> QED
  BY <1>2, <1>3, <1>4, <1>5

\* Carrying the plan out.
LEMMA InHandApplies ==
  ASSUME Suited, TidyInv, InHand, NEW p \in Operators, p \notin stale',
         Progress(p) \/ Interrupt(p) \/ LoseAnswer(p), op'[p].phase \in {"applying", "applied"}
  PROVE  /\ \E c : Comes(cat', op'[p].tx, c) /\ Ready(c, op'[p].plan)
         /\ op'[p].phase = "applied" => Left(cat', {})
<1>1. IInv /\ TxAtomic
  BY DEF TidyInv, TypeInv, RunsTyped, RunTyped, TxAtomic
<1>2. /\ op[p].phase \in {"planned", "applying"} /\ p \notin stale
      /\ op'[p].phase = "applied" => op'[p].plan = {} /\ op'[p].tx = <<>>
  BY <1>1, HandShape
<1>3. PICK S : op[p].tx \in Seq(S)
  BY <1>1 DEF IInv, RunsLawful, RunLawful, TxLawful
<1>4. PICK c : Comes(cat, op[p].tx, c) /\ Ready(c, op[p].plan) /\ c = View(op[p].tx)
  <2>1. PICK c : Comes(cat, op[p].tx, c) /\ Ready(c, op[p].plan)
    BY <1>2 DEF InHand
  <2>2. Len(op[p].tx) \in Nat
    BY <1>3
  <2> QED
    BY <2>1, <2>2, ComesView
<1>5. ASSUME cat' = cat, op'[p].plan = op[p].plan, op'[p].tx = op[p].tx
      PROVE  \E d : Comes(cat', op'[p].tx, d) /\ Ready(d, op'[p].plan)
  BY <1>4, <1>5
<1>6. ASSUME NEW s \in op[p].plan, NextStatement(p, s), Permitted(View(op[p].tx), s),
             op'[p].plan = op[p].plan \ {s},
             \/ cat' = cat /\ op'[p].tx = Append(op[p].tx, s)
             \/ op[p].tx = <<>> /\ cat' = Effect(cat, s) /\ op'[p].tx = <<>>
      PROVE  \E d : Comes(cat', op'[p].tx, d) /\ Ready(d, op'[p].plan)
  <2>1. Ready(Effect(c, s), op[p].plan \ {s})
    BY <1>4, <1>6, ReadyStep DEF NextStatement
  <2>2. CASE cat' = cat /\ op'[p].tx = Append(op[p].tx, s)
    <3>1. Comes(cat, Append(op[p].tx, s), Effect(c, s))
      BY <1>3, <1>4, ComesMore
    <3> QED
      BY <1>6, <2>1, <2>2, <3>1
  <2>3. CASE op[p].tx = <<>> /\ cat' = Effect(cat, s) /\ op'[p].tx = <<>>
    <3>1. c = cat
      BY <1>4, <2>3, NothingSeen
    <3>2. Comes(cat', <<>>, Effect(c, s))
      BY <2>3, <3>1, ComesNothing
    <3> QED
      BY <1>6, <2>1, <2>3, <3>2
  <2> QED
    BY <1>6, <2>2, <2>3
<1>7. ASSUME cat' = View(op[p].tx), op'[p].plan = op[p].plan, op'[p].tx = <<>>
      PROVE  \E d : Comes(cat', op'[p].tx, d) /\ Ready(d, op'[p].plan)
  BY <1>4, <1>7, ComesNothing
<1>8. \E d : Comes(cat', op'[p].tx, d) /\ Ready(d, op'[p].plan)
  BY <1>1, <1>5, <1>6, <1>7, HandShape
<1>9. ASSUME op'[p].phase = "applied" PROVE Left(cat', {})
  <2>1. op'[p].plan = {} /\ op'[p].tx = <<>>
    BY <1>2, <1>9
  <2>2. PICK d : Comes(cat', <<>>, d) /\ Ready(d, {})
    BY <1>8, <2>1
  <2>3. d = cat'
    BY <2>2 DEF Comes
  <2> QED
    BY <2>2, <2>3 DEF Ready
<1> QED
  BY <1>8, <1>9

LEMMA InHandStep ==
  ASSUME Suited, TidyInv, InHand, [Next]_vars
  PROVE  InHand'
<1>1. CASE UNCHANGED vars
  BY <1>1 DEF vars, InHand
<1>2. CASE Others
  <2>1. op' = op /\ (cat' # cat => Operators \subseteq stale') /\ (cat' = cat => stale' = stale)
    BY <1>2 DEF Others, Changed
  <2> QED
    BY <2>1 DEF InHand
<1>3. ASSUME NEW p \in Operators, Progress(p) \/ Interrupt(p) \/ LoseAnswer(p)
      PROVE  InHand'
  <2>1. RunStep(p)
    BY <1>3, RunShape DEF TidyInv, TypeInv, RunsTyped, RunTyped, TxAtomic
  <2>2. ASSUME NEW q \in Operators \ {p}, q \notin stale'
        PROVE  /\ op'[q].phase = "reading" => ReadSoFar(cat', op'[q].st, op'[q].left)
               /\ op'[q].phase \in {"planned", "applying"} =>
                    \E c : Comes(cat', op'[q].tx, c) /\ Ready(c, op'[q].plan)
               /\ op'[q].phase = "applied" => Left(cat', {})
    <3>1. op'[q] = op[q] /\ q \notin stale /\ cat' = cat
      BY <1>3, <2>1, <2>2, PlanStep, ReadingShape DEF TidyInv, TypeInv
    <3> QED
      BY <3>1 DEF InHand
  <2>3. ASSUME p \notin stale'
        PROVE  /\ op'[p].phase = "reading" => ReadSoFar(cat', op'[p].st, op'[p].left)
               /\ op'[p].phase \in {"planned", "applying"} =>
                    \E c : Comes(cat', op'[p].tx, c) /\ Ready(c, op'[p].plan)
               /\ op'[p].phase = "applied" => Left(cat', {})
    BY <1>3, <2>3, InHandReads, InHandApplies
  <2> QED
    BY <2>2, <2>3 DEF InHand
<1> QED
  BY <1>1, <1>2, <1>3 DEF Next

LEMMA InHandInit == Init => InHand
BY DEF Init, InHand, Idle

\* "Re-running after success produces: No changes" (docs/how-it-works.md):
\* Diff is complete and no statement of a plan works against another, on any
\* catalog, through any number of databases read one after the other, and
\* whatever else the server holds or others did before the run started.
THEOREM SuccessLeavesNothing ==
  ASSUME Suited
  PROVE  Spec => []Idempotent
<1>1. TidyInv /\ InHand /\ [Next]_vars => TidyInv' /\ InHand'
  BY TidyNext, InHandStep DEF Suited
<1>2. InHand => Idempotent
  BY NothingLeft DEF InHand, Idempotent, Converged
<1>3. Init => TidyInv /\ InHand
  BY TidyInit, InHandInit
<1> QED
  BY <1>1, <1>2, <1>3, PTL DEF Spec

\* The order Diff puts the statements in, and Apply the databases, is one the
\* server can execute: each role is created before it is used, each creator's
\* privileges are at hand when its default privileges are changed, and no
\* membership that is granted closes a cycle.
THEOREM OrderIsExecutable ==
  ASSUME Suited, Orderly
  PROVE  Spec => []PlanExecutable
<1>1. TidyInv /\ InHand /\ [Next]_vars => TidyInv' /\ InHand'
  BY TidyNext, InHandStep DEF Suited
<1>2. TidyInv /\ InHand => PlanExecutable
  <2> SUFFICES ASSUME TidyInv, InHand, NEW p \in Operators, p \notin stale,
                      NEW s \in op[p].plan, NextStatement(p, s)
               PROVE  Permitted(View(op[p].tx), s)
    BY DEF PlanExecutable
  <2>1. op[p].phase = "applying" /\ IsFirst(op[p].plan, s)
    BY DEF NextStatement
  <2>2. PICK c : Comes(cat, op[p].tx, c) /\ Ready(c, op[p].plan)
    BY <2>1 DEF InHand
  <2>3. PICK S : op[p].tx \in Seq(S)
    BY DEF TidyInv, TypeInv, IInv, RunsLawful, RunLawful, TxLawful
  <2>4. c = View(op[p].tx)
    <3>1. Len(op[p].tx) \in Nat
      BY <2>3
    <3> QED
      BY <2>2, <3>1, ComesView
  <2>5. Executable(c, op[p].plan) /\ Lawful(s)
    BY <2>2 DEF Ready, Left
  <2>6. ~OwnerChecks /\ Acyclic(Possible)
    BY DEF Orderly
  <2> QED
    BY <2>1, <2>4, <2>5, <2>6, FirstPermitted
<1>3. Init => TidyInv /\ InHand
  BY TidyInit, InHandInit
<1> QED
  BY <1>1, <1>2, <1>3, PTL DEF Spec

=============================================================================
