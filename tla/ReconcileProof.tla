--------------------------- MODULE ReconcileProof ---------------------------
(***************************************************************************)
(* Proofs about whole runs, for any declaration Validate accepts, any      *)
(* catalogs, any number of operators and of changes by others, on DSQL and *)
(* on Aurora.                                                              *)
(***************************************************************************)
EXTENDS Reconcile, WellFoundedInduction, SequenceTheorems, TLAPS

----------------------------------------------------------------------------
(* What a statement does to a catalog.                                     *)

Fields == {"roles", "login", "super", "member", "inherit", "admin", "iam", "open", "owner", "acl", "dacl"}
IsCatalog(c) == c = [f \in Fields |-> c[f]]

\* A default privilege, or its key, that the declaration may speak of.
Ruled(e) ==
  /\ {e[3], e[5]} \cap Managed # {}
  /\ e[1] \notin Decl.unmanaged \/ \E d \in Decl.defaults : d[1] = e[1]

\* A statement of the kinds the planner emits, about what it may be about.
Lawful(s) ==
  LET a == s.args IN
  \/ s.op \in {"create role", "alter role", "iam grant", "iam revoke"} /\ a[1] \in Managed
  \/ s.op \in {"grant role", "revoke role"} /\ a[2] \in Managed
  \/ s.op \in {"grant", "revoke"} /\ a[5] \in Managed /\ a[1] \notin Decl.unmanaged
  \/ s.op = "grant all" /\ a[4] \in Managed /\ a[1] \notin Decl.unmanaged
  \/ /\ s.op \in {"alter default grant", "alter default revoke"}
     /\ Ruled(a)
  \/ s.op \in {"borrow", "return", "drop"}

\* A statement that takes nothing from anyone but the executing user.
Harmless(s) ==
  /\ s.op \notin {"revoke role", "iam revoke", "revoke", "alter default revoke"}
  /\ s.op = "alter role" => s.args[2] = 1

\* From c to d only what is declared, and the executing user's own
\* memberships, have changed.
Rightful(c, d) ==
  /\ Altered(c.roles, d.roles) \cup Altered(c.login, d.login) \subseteq Managed
  /\ \A m \in Altered(c.member, d.member) \cup Altered(c.inherit, d.inherit) :
       m[1] \in Managed \cup {Me}
  /\ \A e \in Altered(c.iam, d.iam) : e[1] \in Managed
  /\ \A e \in Altered(c.acl, d.acl) : e[2] \in Managed /\ e[1][1] \notin Decl.unmanaged
  /\ \A e \in Altered(c.dacl, d.dacl) : Ruled(e)
  /\ d.owner = c.owner

\* From c to d nobody but the executing user has lost anything.
Keeps(c, d) ==
  /\ c.login \subseteq d.login
  /\ c.iam \subseteq d.iam
  /\ c.acl \subseteq d.acl
  /\ c.dacl \subseteq d.dacl
  /\ \A m \in c.member : m[1] # Me => m \in d.member
  /\ \A m \in c.inherit : m[1] # Me => m \in d.inherit


LEMMA Grown ==
  ASSUME NEW S, NEW E, NEW T, T \in {S, S \cup E}
  PROVE  Altered(S, T) \subseteq E /\ S \subseteq T
BY DEF Altered

LEMMA Shrunk ==
  ASSUME NEW S, NEW E, NEW T, T = S \ E
  PROVE  Altered(S, T) \subseteq E /\ \A x \in S : x \notin E => x \in T
BY DEF Altered

LEMMA Unaltered == \A S : Altered(S, S) = {}
BY DEF Altered

LEMMA EffectLawful ==
  ASSUME NEW c, IsCatalog(c), NEW s, Lawful(s)
  PROVE  /\ IsCatalog(Effect(c, s))
         /\ Rightful(c, Effect(c, s))
         /\ Harmless(s) => Keeps(c, Effect(c, s))
<1> DEFINE d == Effect(c, s)
<1>1. CASE s.op = "create role"
  <2> s.args[1] \in Managed
    BY <1>1 DEF Lawful
  <2> DEFINE role == {s.args[1]}
  <2> DEFINE pairs == {<<Me, s.args[1]>>}
  <2>1. /\ IsCatalog(d)
        /\ d.roles = c.roles \cup role
        /\ d.login \in {c.login, c.login \cup role}
        /\ d.member \in {c.member, c.member \cup pairs}
        /\ d.inherit = c.inherit /\ d.iam = c.iam /\ d.acl = c.acl /\ d.dacl = c.dacl
        /\ d.owner = c.owner
    BY <1>1 DEF Effect, IsCatalog, Fields
  <2>2. /\ role \subseteq Managed
        /\ \A m \in pairs : m[1] \in Managed \cup {Me}
    OBVIOUS
  <2> HIDE DEF d, role, pairs
  <2>3. Altered(c.roles, d.roles) \subseteq role /\ Altered(c.login, d.login) \subseteq role /\ Altered(c.member, d.member) \subseteq pairs
    BY <2>1, Grown, Shrunk
  <2>4. Rightful(c, d)
    BY <2>1, <2>2, <2>3, Unaltered DEF Rightful
  <2>5. Harmless(s) => Keeps(c, d)
    BY <1>1, <2>1 DEF Keeps, Harmless
  <2> QED
    BY <2>1, <2>4, <2>5 DEF d
<1>2. CASE s.op = "alter role"
  <2> s.args[1] \in Managed
    BY <1>2 DEF Lawful
  <2> DEFINE role == {s.args[1]}
  <2>1. /\ IsCatalog(d)
        /\ d.login = IF s.args[2] = 1 THEN c.login \cup role ELSE c.login \ role
        /\ d.roles = c.roles /\ d.member = c.member /\ d.inherit = c.inherit /\ d.iam = c.iam
        /\ d.acl = c.acl /\ d.dacl = c.dacl /\ d.owner = c.owner
    BY <1>2 DEF Effect, IsCatalog, Fields
  <2>2. role \subseteq Managed
    OBVIOUS
  <2> HIDE DEF d, role
  <2>3. Altered(c.login, d.login) \subseteq role
    BY <2>1, Grown, Shrunk
  <2>4. Rightful(c, d)
    BY <2>1, <2>2, <2>3, Unaltered DEF Rightful
  <2>5. Harmless(s) => Keeps(c, d)
    BY <1>2, <2>1 DEF Keeps, Harmless
  <2> QED
    BY <2>1, <2>4, <2>5 DEF d
<1>3. CASE s.op = "grant role"
  <2> s.args[2] \in Managed
    BY <1>3 DEF Lawful
  <2> DEFINE pairs == {<<s.args[2], s.args[1]>>}
  <2>1. /\ IsCatalog(d)
        /\ d.member = c.member \cup pairs
        /\ d.inherit \in {c.inherit, c.inherit \cup pairs}
        /\ d.roles = c.roles /\ d.login = c.login /\ d.iam = c.iam /\ d.acl = c.acl
        /\ d.dacl = c.dacl /\ d.owner = c.owner
    BY <1>3 DEF Effect, IsCatalog, Fields
  <2>2. \A m \in pairs : m[1] \in Managed \cup {Me}
    OBVIOUS
  <2> HIDE DEF d, pairs
  <2>3. Altered(c.member, d.member) \subseteq pairs /\ Altered(c.inherit, d.inherit) \subseteq pairs
    BY <2>1, Grown, Shrunk
  <2>4. Rightful(c, d)
    BY <2>1, <2>2, <2>3, Unaltered DEF Rightful
  <2>5. Harmless(s) => Keeps(c, d)
    BY <1>3, <2>1 DEF Keeps, Harmless
  <2> QED
    BY <2>1, <2>4, <2>5 DEF d
<1>4. CASE s.op = "revoke role"
  <2> s.args[2] \in Managed
    BY <1>4 DEF Lawful
  <2> DEFINE pairs == {<<s.args[2], s.args[1]>>}
  <2>1. /\ IsCatalog(d)
        /\ d.member = c.member \ pairs
        /\ d.inherit = c.inherit \ pairs
        /\ d.roles = c.roles /\ d.login = c.login /\ d.iam = c.iam /\ d.acl = c.acl
        /\ d.dacl = c.dacl /\ d.owner = c.owner
    BY <1>4 DEF Effect, IsCatalog, Fields
  <2>2. \A m \in pairs : m[1] \in Managed \cup {Me}
    OBVIOUS
  <2> HIDE DEF d, pairs
  <2>3. Altered(c.member, d.member) \subseteq pairs /\ Altered(c.inherit, d.inherit) \subseteq pairs
    BY <2>1, Grown, Shrunk
  <2>4. Rightful(c, d)
    BY <2>1, <2>2, <2>3, Unaltered DEF Rightful
  <2>5. Harmless(s) => Keeps(c, d)
    BY <1>4, <2>1 DEF Keeps, Harmless
  <2> QED
    BY <2>1, <2>4, <2>5 DEF d
<1>5. CASE s.op = "iam grant"
  <2> s.args[1] \in Managed
    BY <1>5 DEF Lawful
  <2> DEFINE pairs == {<<s.args[1], s.args[2]>>}
  <2>1. /\ IsCatalog(d)
        /\ d.iam = c.iam \cup pairs
        /\ d.roles = c.roles /\ d.login = c.login /\ d.member = c.member /\ d.inherit = c.inherit
        /\ d.acl = c.acl /\ d.dacl = c.dacl /\ d.owner = c.owner
    BY <1>5 DEF Effect, IsCatalog, Fields
  <2>2. \A e \in pairs : e[1] \in Managed
    OBVIOUS
  <2> HIDE DEF d, pairs
  <2>3. Altered(c.iam, d.iam) \subseteq pairs
    BY <2>1, Grown, Shrunk
  <2>4. Rightful(c, d)
    BY <2>1, <2>2, <2>3, Unaltered DEF Rightful
  <2>5. Harmless(s) => Keeps(c, d)
    BY <1>5, <2>1 DEF Keeps, Harmless
  <2> QED
    BY <2>1, <2>4, <2>5 DEF d
<1>6. CASE s.op = "iam revoke"
  <2> s.args[1] \in Managed
    BY <1>6 DEF Lawful
  <2> DEFINE pairs == {<<s.args[1], s.args[2]>>}
  <2>1. /\ IsCatalog(d)
        /\ d.iam = c.iam \ pairs
        /\ d.roles = c.roles /\ d.login = c.login /\ d.member = c.member /\ d.inherit = c.inherit
        /\ d.acl = c.acl /\ d.dacl = c.dacl /\ d.owner = c.owner
    BY <1>6 DEF Effect, IsCatalog, Fields
  <2>2. \A e \in pairs : e[1] \in Managed
    OBVIOUS
  <2> HIDE DEF d, pairs
  <2>3. Altered(c.iam, d.iam) \subseteq pairs
    BY <2>1, Grown, Shrunk
  <2>4. Rightful(c, d)
    BY <2>1, <2>2, <2>3, Unaltered DEF Rightful
  <2>5. Harmless(s) => Keeps(c, d)
    BY <1>6, <2>1 DEF Keeps, Harmless
  <2> QED
    BY <2>1, <2>4, <2>5 DEF d
<1>7. CASE s.op = "grant"
  <2> s.args[5] \in Managed /\ s.args[1] \notin Decl.unmanaged
    BY <1>7 DEF Lawful
  <2> DEFINE entries == {<<<<s.args[1], s.args[2], s.args[3], s.args[4]>>, s.args[5], p>> : p \in s.privs}
  <2>1. /\ IsCatalog(d)
        /\ d.acl = c.acl \cup entries
        /\ d.roles = c.roles /\ d.login = c.login /\ d.member = c.member /\ d.inherit = c.inherit
        /\ d.iam = c.iam /\ d.dacl = c.dacl /\ d.owner = c.owner
    BY <1>7 DEF Effect, IsCatalog, Fields
  <2>2. \A e \in entries : e[2] \in Managed /\ e[1][1] \notin Decl.unmanaged
    OBVIOUS
  <2> HIDE DEF d, entries
  <2>3. Altered(c.acl, d.acl) \subseteq entries
    BY <2>1, Grown, Shrunk
  <2>4. Rightful(c, d)
    BY <2>1, <2>2, <2>3, Unaltered DEF Rightful
  <2>5. Harmless(s) => Keeps(c, d)
    BY <1>7, <2>1 DEF Keeps, Harmless
  <2> QED
    BY <2>1, <2>4, <2>5 DEF d
<1>8. CASE s.op = "revoke"
  <2> s.args[5] \in Managed /\ s.args[1] \notin Decl.unmanaged
    BY <1>8 DEF Lawful
  <2> DEFINE entries == {<<<<s.args[1], s.args[2], s.args[3], s.args[4]>>, s.args[5], p>> : p \in s.privs}
  <2>1. /\ IsCatalog(d)
        /\ d.acl = c.acl \ entries
        /\ d.roles = c.roles /\ d.login = c.login /\ d.member = c.member /\ d.inherit = c.inherit
        /\ d.iam = c.iam /\ d.dacl = c.dacl /\ d.owner = c.owner
    BY <1>8 DEF Effect, IsCatalog, Fields
  <2>2. \A e \in entries : e[2] \in Managed /\ e[1][1] \notin Decl.unmanaged
    OBVIOUS
  <2> HIDE DEF d, entries
  <2>3. Altered(c.acl, d.acl) \subseteq entries
    BY <2>1, Grown, Shrunk
  <2>4. Rightful(c, d)
    BY <2>1, <2>2, <2>3, Unaltered DEF Rightful
  <2>5. Harmless(s) => Keeps(c, d)
    BY <1>8, <2>1 DEF Keeps, Harmless
  <2> QED
    BY <2>1, <2>4, <2>5 DEF d
<1>9. CASE s.op = "grant all"
  <2> s.args[4] \in Managed /\ s.args[1] \notin Decl.unmanaged
    BY <1>9 DEF Lawful
  <2> DEFINE entries == UNION {{<<o, s.args[4], p>> : p \in s.privs} : o \in Relations(c, s.args[1], s.args[3], s.args[2])}
  <2>1. /\ IsCatalog(d)
        /\ d.acl = c.acl \cup entries
        /\ d.roles = c.roles /\ d.login = c.login /\ d.member = c.member /\ d.inherit = c.inherit
        /\ d.iam = c.iam /\ d.dacl = c.dacl /\ d.owner = c.owner
    BY <1>9 DEF Effect, IsCatalog, Fields
  <2>2. \A e \in entries : e[2] \in Managed /\ e[1][1] \notin Decl.unmanaged
    BY DEF Relations
  <2> HIDE DEF d, entries
  <2>3. Altered(c.acl, d.acl) \subseteq entries
    BY <2>1, Grown, Shrunk
  <2>4. Rightful(c, d)
    BY <2>1, <2>2, <2>3, Unaltered DEF Rightful
  <2>5. Harmless(s) => Keeps(c, d)
    BY <1>9, <2>1 DEF Keeps, Harmless
  <2> QED
    BY <2>1, <2>4, <2>5 DEF d
<1>10. CASE s.op = "alter default grant"
  <2> Ruled(s.args)
    BY <1>10 DEF Lawful
  <2> DEFINE entries == {<<s.args[1], s.args[2], s.args[3], s.args[4], s.args[5], p>> : p \in s.privs}
  <2>1. /\ IsCatalog(d)
        /\ d.dacl = c.dacl \cup entries
        /\ d.roles = c.roles /\ d.login = c.login /\ d.member = c.member /\ d.inherit = c.inherit
        /\ d.iam = c.iam /\ d.acl = c.acl /\ d.owner = c.owner
    BY <1>10 DEF Effect, IsCatalog, Fields
  <2>2. \A e \in entries : Ruled(e)
    BY DEF Ruled
  <2> HIDE DEF d, entries
  <2>3. Altered(c.dacl, d.dacl) \subseteq entries
    BY <2>1, Grown, Shrunk
  <2>4. Rightful(c, d)
    BY <2>1, <2>2, <2>3, Unaltered DEF Rightful
  <2>5. Harmless(s) => Keeps(c, d)
    BY <1>10, <2>1 DEF Keeps, Harmless
  <2> QED
    BY <2>1, <2>4, <2>5 DEF d
<1>11. CASE s.op = "alter default revoke"
  <2> Ruled(s.args)
    BY <1>11 DEF Lawful
  <2> DEFINE entries == {<<s.args[1], s.args[2], s.args[3], s.args[4], s.args[5], p>> : p \in s.privs}
  <2>1. /\ IsCatalog(d)
        /\ d.dacl = c.dacl \ entries
        /\ d.roles = c.roles /\ d.login = c.login /\ d.member = c.member /\ d.inherit = c.inherit
        /\ d.iam = c.iam /\ d.acl = c.acl /\ d.owner = c.owner
    BY <1>11 DEF Effect, IsCatalog, Fields
  <2>2. \A e \in entries : Ruled(e)
    BY DEF Ruled
  <2> HIDE DEF d, entries
  <2>3. Altered(c.dacl, d.dacl) \subseteq entries
    BY <2>1, Grown, Shrunk
  <2>4. Rightful(c, d)
    BY <2>1, <2>2, <2>3, Unaltered DEF Rightful
  <2>5. Harmless(s) => Keeps(c, d)
    BY <1>11, <2>1 DEF Keeps, Harmless
  <2> QED
    BY <2>1, <2>4, <2>5 DEF d
<1>12. CASE s.op = "borrow"
  <2> DEFINE pairs == {<<Me, s.args[1]>>}
  <2>1. /\ IsCatalog(d)
        /\ d.member = c.member \cup pairs
        /\ d.inherit = c.inherit \cup pairs
        /\ d.roles = c.roles /\ d.login = c.login /\ d.iam = c.iam /\ d.acl = c.acl
        /\ d.dacl = c.dacl /\ d.owner = c.owner
    BY <1>12 DEF Effect, IsCatalog, Fields
  <2>2. \A m \in pairs : m[1] \in Managed \cup {Me}
    OBVIOUS
  <2> HIDE DEF d, pairs
  <2>3. Altered(c.member, d.member) \subseteq pairs /\ Altered(c.inherit, d.inherit) \subseteq pairs
    BY <2>1, Grown, Shrunk
  <2>4. Rightful(c, d)
    BY <2>1, <2>2, <2>3, Unaltered DEF Rightful
  <2>5. Harmless(s) => Keeps(c, d)
    BY <1>12, <2>1 DEF Keeps, Harmless
  <2> QED
    BY <2>1, <2>4, <2>5 DEF d
<1>13. CASE s.op = "return"
  <2> DEFINE pairs == {<<Me, s.args[1]>>}
  <2>1. /\ IsCatalog(d)
        /\ d.inherit = c.inherit \ pairs
        /\ d.roles = c.roles /\ d.login = c.login /\ d.member = c.member /\ d.iam = c.iam
        /\ d.acl = c.acl /\ d.dacl = c.dacl /\ d.owner = c.owner
    BY <1>13 DEF Effect, IsCatalog, Fields
  <2>2. \A m \in pairs : m[1] = Me
    OBVIOUS
  <2> HIDE DEF d, pairs
  <2>3. Altered(c.inherit, d.inherit) \subseteq pairs
    BY <2>1, Grown, Shrunk
  <2>4. Rightful(c, d)
    BY <2>1, <2>2, <2>3, Unaltered DEF Rightful
  <2>5. Harmless(s) => Keeps(c, d)
    BY <1>13, <2>1, <2>2 DEF Keeps, Harmless
  <2> QED
    BY <2>1, <2>4, <2>5 DEF d
<1>14. CASE s.op = "drop"
  <2> DEFINE pairs == {<<Me, s.args[1]>>}
  <2>1. /\ IsCatalog(d)
        /\ d.member = c.member \ pairs
        /\ d.inherit = c.inherit \ pairs
        /\ d.roles = c.roles /\ d.login = c.login /\ d.iam = c.iam /\ d.acl = c.acl
        /\ d.dacl = c.dacl /\ d.owner = c.owner
    BY <1>14 DEF Effect, IsCatalog, Fields
  <2>2. \A m \in pairs : m[1] = Me
    OBVIOUS
  <2> HIDE DEF d, pairs
  <2>3. Altered(c.member, d.member) \subseteq pairs /\ Altered(c.inherit, d.inherit) \subseteq pairs
    BY <2>1, Grown, Shrunk
  <2>4. Rightful(c, d)
    BY <2>1, <2>2, <2>3, Unaltered DEF Rightful
  <2>5. Harmless(s) => Keeps(c, d)
    BY <1>14, <2>1, <2>2 DEF Keeps, Harmless
  <2> QED
    BY <2>1, <2>4, <2>5 DEF d
<1> QED
  BY <1>1, <1>2, <1>3, <1>4, <1>5, <1>6, <1>7, <1>8, <1>9, <1>10, <1>11, <1>12, <1>13, <1>14 DEF Lawful

----------------------------------------------------------------------------
(* What the planner emits.                                                 *)

\* The mark on a statement is right: unmarked, or marked as a release of
\* nothing but the executing user's own, it takes nothing from anyone.
Marked(s) == (s.destructive => s.reclaim) => Harmless(s)

LEMMA ClusterStatements ==
  ASSUME NEW st, NEW s \in CreateRoles(st) \cup AlterRoles(st) \cup Memberships(st) \cup IamStatements(st)
  PROVE  Lawful(s) /\ Marked(s)
<1>1. ASSUME s \in CreateRoles(st) PROVE Lawful(s) /\ Marked(s)
  <2>1. PICK r \in Managed : s = Statement(0, <<1, Index(r), 0, 0, 0, 0>>, "create role",
                                           <<r, Flag(r \in Decl.login)>>, {}, FALSE, FALSE)
    BY <1>1 DEF CreateRoles
  <2>2. s.op = "create role" /\ s.args[1] = r
    BY <2>1 DEF Statement
  <2> QED
    BY <2>2 DEF Lawful, Marked, Harmless
<1>2. ASSUME s \in AlterRoles(st) PROVE Lawful(s) /\ Marked(s)
  <2>1. PICK r \in Managed : s = Statement(0, <<1, Index(r), 0, 0, 0, 0>>, "alter role",
                                           <<r, Flag(r \in Decl.login)>>, {}, r \notin Decl.login, FALSE)
    BY <1>2 DEF AlterRoles
  <2>2. s.op = "alter role" /\ s.args[1] = r /\ s.args[2] = Flag(r \in Decl.login)
    BY <2>1 DEF Statement
  <2>3. Lawful(s)
    BY <2>2 DEF Lawful
  <2>4. CASE r \in Decl.login
    <3>1. s.args[2] = 1
      BY <2>2, <2>4 DEF Flag
    <3> QED
      BY <2>2, <2>3, <3>1 DEF Marked, Harmless
  <2>5. CASE r \notin Decl.login
    <3>1. s.destructive /\ ~s.reclaim
      BY <2>1, <2>5 DEF Statement
    <3> QED
      BY <2>3, <3>1 DEF Marked
  <2> QED
    BY <2>4, <2>5
<1>3. ASSUME s \in Memberships(st) PROVE Lawful(s) /\ Marked(s)
  <2> DEFINE grant(m) == Statement(0, <<2, Index(m[1]), 0, m[2], 0, 0>>, "grant role",
                                   <<m[2], m[1]>>, {}, FALSE, FALSE)
             revoke(m) == Statement(0, <<2, Index(m[1]), 1, m[2], 0, 0>>, "revoke role",
                                    <<m[2], m[1]>>, {}, TRUE, FALSE)
  <2>1. PICK m \in Decl.memberOf \cup {n \in st.member : n[1] \in Managed} : s = grant(m) \/ s = revoke(m)
    BY <1>3 DEF Memberships
  <2>2. m[1] \in Managed
    BY DeclAssumption DEF ValidDecl
  <2>3. CASE s = grant(m)
    <3>1. s.op = "grant role" /\ s.args[2] = m[1]
      BY <2>3 DEF Statement
    <3> QED
      BY <2>2, <3>1 DEF Lawful, Marked, Harmless
  <2>4. CASE s = revoke(m)
    <3>1. s.op = "revoke role" /\ s.args[2] = m[1] /\ s.destructive /\ ~s.reclaim
      BY <2>4 DEF Statement
    <3> QED
      BY <2>2, <3>1 DEF Lawful, Marked
  <2> QED
    BY <2>1, <2>3, <2>4
<1>4. ASSUME s \in IamStatements(st) PROVE Lawful(s) /\ Marked(s)
  <2> DEFINE grant(m) == Statement(0, <<3, Index(m[1]), 0, m[2], 0, 0>>, "iam grant", m, {}, FALSE, FALSE)
             revoke(m) == Statement(0, <<3, Index(m[1]), 1, m[2], 0, 0>>, "iam revoke", m, {}, TRUE, FALSE)
  <2>1. PICK m \in Decl.iam \cup {n \in st.iam : n[1] \in Managed} : s = grant(m) \/ s = revoke(m)
    BY <1>4 DEF IamStatements
  <2>2. m[1] \in Managed
    BY DeclAssumption DEF ValidDecl
  <2>3. CASE s = grant(m)
    <3>1. s.op = "iam grant" /\ s.args = m
      BY <2>3 DEF Statement
    <3> QED
      BY <2>2, <3>1 DEF Lawful, Marked, Harmless
  <2>4. CASE s = revoke(m)
    <3>1. s.op = "iam revoke" /\ s.args = m /\ s.destructive /\ ~s.reclaim
      BY <2>4 DEF Statement
    <3> QED
      BY <2>2, <3>1 DEF Lawful, Marked
  <2> QED
    BY <2>1, <2>3, <2>4
<1> QED
  BY <1>1, <1>2, <1>3, <1>4

LEMMA WideStatements ==
  ASSUME NEW st, NEW s \in WideGrants(st)
  PROVE  Lawful(s) /\ Marked(s)
<1>1. PICK k \in {WideKey(w) : w \in Decl.wide} :
        s = Statement(k[1], <<4, 2, k[2], SequenceKind - k[3], k[4], 0>>, "grant all",
                      <<k[1], k[3], k[2], k[4]>>, MissingEverywhere(st, k), FALSE, FALSE)
  BY DEF WideGrants
<1>2. k[4] \in Managed /\ k[1] \notin Decl.unmanaged
  BY DeclAssumption DEF ValidDecl, WideKey
<1> QED
  BY <1>1, <1>2 DEF Statement, Lawful, Marked, Harmless

LEMMA ObjectStatements ==
  ASSUME NEW st, NEW s \in ObjectGrants(st)
  PROVE  Lawful(s) /\ Marked(s)
<1>1. \A e \in DesiredGrants(st) \cup ActualGrants(st) : e[2] \in Managed /\ e[1][1] \notin Decl.unmanaged
  BY DeclAssumption DEF ValidDecl, DesiredGrants, ActualGrants, Relations
<1>2. PICK k \in {Key(e) : e \in DesiredGrants(st) \cup ActualGrants(st)} :
        \/ s = Statement(k[1][1], <<4, k[1][2], k[1][3], k[1][4], k[2], 0>>, "grant",
                         ObjectArgs(k), Missing(st, k), FALSE, FALSE)
        \/ s = Statement(k[1][1], <<4, k[1][2], k[1][3], k[1][4], k[2], 1>>, "revoke",
                         ObjectArgs(k), Extra(st, k), TRUE, FALSE)
  BY DEF ObjectGrants
<1>3. k[2] \in Managed /\ k[1][1] \notin Decl.unmanaged
  BY <1>1 DEF Key
<1>4. /\ s.args = ObjectArgs(k)
      /\ \/ s.op = "grant"
         \/ s.op = "revoke" /\ s.destructive = TRUE /\ s.reclaim = FALSE
  BY <1>2 DEF Statement
<1>5. s.args[5] \in Managed /\ s.args[1] \notin Decl.unmanaged
  BY <1>3, <1>4 DEF ObjectArgs
<1> QED
  BY <1>4, <1>5 DEF Lawful, Marked, Harmless

LEMMA DefaultStatementsLawful ==
  ASSUME NEW st, NEW s \in DefaultPrivileges(st)
  PROVE  Lawful(s) /\ Marked(s)
<1>1. PICK k \in DefaultKeys(st) : s \in DefaultStatements(st, k)
  BY DEF DefaultPrivileges
<1>2. \A e \in DesiredDefaults \cup ActualDefaults(st) : Ruled(e)
  BY DeclAssumption DEF ValidDecl, DesiredDefaults, Derived, ActualDefaults, Ruled
<1>3. Ruled(k)
  BY <1>2 DEF DefaultKeys, DefaultKey, Ruled
<1> DEFINE pos(step) == <<5, k[2], k[3], SequenceKind - k[4], k[5], step>>
           grant == Statement(k[1], pos(1), "alter default grant", k, MissingDefaults(st, k), FALSE, FALSE)
           revoke == Statement(k[1], pos(2), "alter default revoke", k, ExtraDefaults(st, k), TRUE, FALSE)
           borrow == Statement(k[1], pos(0), "borrow", <<k[3]>>, {}, FALSE, FALSE)
           undo == Statement(k[1], pos(3), UndoBorrow(st, k[3]), <<k[3]>>, {}, FALSE, FALSE)
<1>4. s \in {grant, revoke, borrow, undo}
  BY <1>1 DEF DefaultStatements
<1>5. CASE s = grant
  <2>1. s.op = "alter default grant" /\ s.args = k
    BY <1>5 DEF Statement
  <2> QED
    BY <1>3, <2>1 DEF Lawful, Marked, Harmless
<1>6. CASE s = revoke
  <2>1. s.op = "alter default revoke" /\ s.args = k /\ s.destructive /\ ~s.reclaim
    BY <1>6 DEF Statement
  <2> QED
    BY <1>3, <2>1 DEF Lawful, Marked
<1>7. CASE s \in {borrow, undo}
  <2>1. s.op \in {"borrow", "return", "drop"}
    BY <1>7 DEF Statement, UndoBorrow
  <2> QED
    BY <2>1 DEF Lawful, Marked, Harmless
<1> QED
  BY <1>4, <1>5, <1>6, <1>7

LEMMA ReleasesLawful ==
  ASSUME NEW st, NEW s \in ReleaseStaleBorrows(st)
  PROVE  Lawful(s) /\ Marked(s)
<1>1. s.op = "return"
  <2>1. PICK c \in StaleBorrows(st) :
          s = Statement(Max({0} \cup KeyDatabases(st, c)), <<6, c, 0, 0, 0, 0>>, "return", <<c>>, {},
                        TRUE, KeyDatabases(st, c) # {})
    BY DEF ReleaseStaleBorrows
  <2> QED
    BY <2>1 DEF Statement
<1> QED
  BY <1>1 DEF Lawful, Marked, Harmless

LEMMA PlanLawful ==
  ASSUME NEW st, NEW s \in Diff(st)
  PROVE  Lawful(s) /\ Marked(s)
BY ClusterStatements, WideStatements, ObjectStatements, DefaultStatementsLawful, ReleasesLawful DEF Diff

----------------------------------------------------------------------------
(* What an open transaction sees.                                          *)

LEMMA NatInductionOnSets ==
  ASSUME NEW P, P \subseteq Nat, 0 \in P, \A n \in P : n + 1 \in P
  PROVE  P = Nat
<1> DEFINE less == {ss \in Nat \X Nat : ss[1] < ss[2]}
<1>1. IsWellFoundedOn(less, Nat)
  BY NatLessThanWellFounded DEF OpToRel
<1> SUFFICES ASSUME Nat \ P # {} PROVE FALSE
  OBVIOUS
<1>2. PICK x \in Nat \ P : \A y \in Nat \ P : ~(<<y, x>> \in less)
  <2> HIDE DEF less
  <2> QED
    BY <1>1, WFMin
<1>3. x - 1 \in Nat /\ x - 1 < x
  BY SMT
<1>4. x - 1 \in P
  BY <1>2, <1>3
<1> QED
  BY <1>3, <1>4

\* The function Views defines is there.
LEMMA ViewsDefined ==
  ASSUME NEW tx, Len(tx) \in Nat
  PROVE  Views(tx) = [i \in 0 .. Len(tx) |-> IF i = 0 THEN cat ELSE Effect(Views(tx)[i - 1], tx[i])]
<1> DEFINE Def(f, n) == f = [i \in 0 .. n |-> IF i = 0 THEN cat ELSE Effect(f[i - 1], tx[i])]
           P == {n \in Nat : \E f : Def(f, n)}
<1>1. 0 \in P
  <2>1. Def([i \in 0 .. 0 |-> cat], 0)
    OBVIOUS
  <2> QED
    BY <2>1
<1>2. ASSUME NEW n \in P PROVE n + 1 \in P
  <2>1. PICK f : Def(f, n)
    OBVIOUS
  <2> DEFINE g == [i \in 0 .. n + 1 |-> IF i = n + 1 THEN Effect(f[n], tx[n + 1]) ELSE f[i]]
  <2>2. \A i \in 0 .. n + 1 : g[i] = IF i = 0 THEN cat ELSE Effect(g[i - 1], tx[i])
    BY <2>1
  <2>3. Def(g, n + 1)
    BY <2>2
  <2> QED
    BY <2>3
<1>3. P = Nat
  <2> HIDE DEF P
  <2> QED
    BY <1>1, <1>2, NatInductionOnSets DEF P
<1>4. \E f : Def(f, Len(tx))
  BY <1>3
<1> QED
  BY <1>4 DEF Views

LEMMA AlteredTwice == \A S, T, U : Altered(S, U) \subseteq Altered(S, T) \cup Altered(T, U)
BY DEF Altered

LEMMA RightfulTwice ==
  ASSUME NEW c, NEW d, NEW e, Rightful(c, d), Rightful(d, e)
  PROVE  Rightful(c, e)
<1>1. /\ Altered(c.roles, e.roles) \cup Altered(c.login, e.login) \subseteq Managed
      /\ e.owner = c.owner
  BY AlteredTwice DEF Rightful
<1>2. \A m \in Altered(c.member, e.member) \cup Altered(c.inherit, e.inherit) :
        m[1] \in Managed \cup {Me}
  BY AlteredTwice DEF Rightful
<1>3. \A m \in Altered(c.iam, e.iam) : m[1] \in Managed
  BY AlteredTwice DEF Rightful
<1>4. \A m \in Altered(c.acl, e.acl) : m[2] \in Managed /\ m[1][1] \notin Decl.unmanaged
  BY AlteredTwice DEF Rightful
<1>5. \A m \in Altered(c.dacl, e.dacl) : Ruled(m)
  BY AlteredTwice DEF Rightful
<1> QED
  BY <1>1, <1>2, <1>3, <1>4, <1>5 DEF Rightful

LEMMA RightfulNever == \A c : Rightful(c, c) /\ Keeps(c, c)
BY Unaltered DEF Rightful, Keeps

LEMMA KeepsTwice ==
  ASSUME NEW c, NEW d, NEW e, Keeps(c, d), Keeps(d, e)
  PROVE  Keeps(c, e)
BY DEF Keeps

LEMMA ViewsLawful ==
  ASSUME IsCatalog(cat), NEW S, NEW tx \in Seq(S), \A s \in S : Lawful(s)
  PROVE  /\ IsCatalog(View(tx))
         /\ Rightful(cat, View(tx))
         /\ (\A s \in S : Harmless(s)) => Keeps(cat, View(tx))
<1> DEFINE V == Views(tx)
           Fine(c) == /\ IsCatalog(c) /\ Rightful(cat, c)
                      /\ (\A s \in S : Harmless(s)) => Keeps(cat, c)
           P == {n \in Nat : n <= Len(tx) => Fine(V[n])}
<1>1. Len(tx) \in Nat /\ \A i \in 1 .. Len(tx) : tx[i] \in S
  OBVIOUS
<1>2. V[0] = cat /\ \A i \in 1 .. Len(tx) : V[i] = Effect(V[i - 1], tx[i])
  BY <1>1, ViewsDefined
<1> HIDE DEF V
<1>3. 0 \in P
  BY <1>2, RightfulNever
<1>4. ASSUME NEW n \in P PROVE n + 1 \in P
  <2> SUFFICES ASSUME n + 1 <= Len(tx) PROVE Fine(V[n + 1])
    OBVIOUS
  <2>1. Fine(V[n]) /\ V[n + 1] = Effect(V[n], tx[n + 1]) /\ tx[n + 1] \in S
    BY <1>1, <1>2
  <2> QED
    BY <2>1, EffectLawful, RightfulTwice, KeepsTwice
<1>5. P = Nat
  <2> HIDE DEF P
  <2> QED
    BY <1>3, <1>4, NatInductionOnSets DEF P
<1> QED
  BY <1>1, <1>5 DEF View, V

----------------------------------------------------------------------------
(* The inductive invariant.                                                *)

RunFields == {"phase", "st", "left", "allow", "plan", "tx"}

\* What a transaction that nobody allowed to destroy anything may hold.
TxLawful(tx, allow) ==
  \E S : /\ tx \in Seq(S)
         /\ \A s \in S : Lawful(s)
         /\ ~allow => \A s \in S : Harmless(s)

\* The gate has been passed by every statement of a plan under way.
RunLawful(r) ==
  /\ r = [f \in RunFields |-> r[f]]
  /\ \A s \in r.plan : Lawful(s)
  /\ r.phase = "planned" => \A s \in r.plan : Marked(s)
  /\ r.phase = "applying" /\ ~r.allow => \A s \in r.plan : Harmless(s)
  /\ TxLawful(r.tx, r.allow)

RunsLawful == op = [p \in Operators |-> op[p]] /\ \A p \in Operators : RunLawful(op[p])

IInv == IsCatalog(cat) /\ RunsLawful /\ changes \in Nat

\* What every step does.
StepLawful ==
  /\ changes' = changes => Rightful(cat, cat')
  /\ \A p \in Operators : op'[p] # op[p] /\ ~op[p].allow => Keeps(cat, cat')

LEMMA NothingOpen == ASSUME NEW allow PROVE TxLawful(<<>>, allow)
<1> DEFINE S == {}
<1>1. <<>> \in Seq(S) /\ \A s \in S : Lawful(s) /\ Harmless(s)
  OBVIOUS
<1> HIDE DEF S
<1> QED
  BY <1>1 DEF TxLawful

LEMMA SetRun ==
  ASSUME RunsLawful, NEW p \in Operators, NEW r, RunLawful(r), op' = [op EXCEPT ![p] = r]
  PROVE  RunsLawful' /\ \A q \in Operators \ {p} : op'[q] = op[q]
BY DEF RunsLawful

LEMMA EndRun ==
  ASSUME RunsLawful, NEW p \in Operators, NEW phase, End(p, phase)
  PROVE  RunsLawful' /\ \A q \in Operators \ {p} : op'[q] = op[q]
<1> DEFINE r == [Idle EXCEPT !.phase = phase]
<1>1. r = [f \in RunFields |-> r[f]] /\ r.plan = {} /\ r.tx = <<>>
  BY DEF Idle, RunFields
<1>2. RunLawful(r)
  BY <1>1, NothingOpen DEF RunLawful
<1> QED
  BY <1>2, SetRun DEF End

LEMMA GoOnRun ==
  ASSUME RunsLawful, NEW p \in Operators, op[p].phase = "applying",
         NEW rest, rest \subseteq op[p].plan, NEW tx, TxLawful(tx, op[p].allow), GoOn(p, rest, tx)
  PROVE  RunsLawful' /\ \A q \in Operators \ {p} : op'[q] = op[q]
<1> DEFINE r == [op[p] EXCEPT !.plan = rest, !.tx = tx,
                              !.phase = IF rest = {} /\ tx = <<>> THEN "applied" ELSE "applying"]
<1>1. op' = [op EXCEPT ![p] = r]
  BY DEF GoOn, RunsLawful, RunLawful, RunFields
<1>2. /\ r = [f \in RunFields |-> r[f]] /\ r.plan = rest /\ r.tx = tx /\ r.allow = op[p].allow
      /\ r.phase \in {"applied", "applying"}
  BY DEF RunsLawful, RunLawful, RunFields
<1> HIDE DEF r
<1>3. RunLawful(r)
  BY <1>2 DEF RunsLawful, RunLawful
<1> QED
  BY <1>1, <1>3, SetRun

----------------------------------------------------------------------------
(* The steps.                                                              *)

LEMMA DecideStep ==
  ASSUME IInv, NEW p \in Operators, NEW st, Decide(p, st)
  PROVE  RunsLawful' /\ \A q \in Operators \ {p} : op'[q] = op[q]
<1>1. CASE End(p, "failed") \/ End(p, "clean")
  BY <1>1, EndRun DEF IInv
<1>2. ASSUME NEW allow \in AllowDestroy,
             op' = [op EXCEPT ![p] = [Idle EXCEPT !.phase = "planned", !.allow = allow, !.plan = Diff(st)]]
      PROVE  RunsLawful' /\ \A q \in Operators \ {p} : op'[q] = op[q]
  <2> DEFINE r == [Idle EXCEPT !.phase = "planned", !.allow = allow, !.plan = Diff(st)]
  <2>1. r = [f \in RunFields |-> r[f]] /\ r.phase = "planned" /\ r.plan = Diff(st) /\ r.tx = <<>>
    BY DEF Idle, RunFields
  <2> HIDE DEF r
  <2>2. RunLawful(r)
    BY <2>1, PlanLawful, NothingOpen DEF RunLawful
  <2> QED
    BY <1>2, <2>2, SetRun DEF IInv, r
<1> QED
  BY <1>1, <1>2 DEF Decide

LEMMA ReadOnStep ==
  ASSUME IInv, NEW p \in Operators, NEW st, NEW left, ReadOn(p, st, left)
  PROVE  RunsLawful' /\ \A q \in Operators \ {p} : op'[q] = op[q]
<1>1. CASE Decide(p, st)
  BY <1>1, DecideStep
<1>2. CASE op' = [op EXCEPT ![p] = [Idle EXCEPT !.phase = "reading", !.st = st, !.left = left]]
  <2> DEFINE r == [Idle EXCEPT !.phase = "reading", !.st = st, !.left = left]
  <2>1. r = [f \in RunFields |-> r[f]] /\ r.phase = "reading" /\ r.plan = {} /\ r.tx = <<>>
    BY DEF Idle, RunFields
  <2> HIDE DEF r
  <2>2. RunLawful(r)
    BY <2>1, NothingOpen DEF RunLawful
  <2> QED
    BY <1>2, <2>2, SetRun DEF IInv, r
<1> QED
  BY <1>1, <1>2 DEF ReadOn

\* Steps that only read, refuse or ask.
LEMMA ReadingStep ==
  ASSUME IInv, NEW p \in Operators, StartReading(p) \/ ReadNextDatabase(p) \/ Confirm(p)
  PROVE  IInv' /\ StepLawful
<1>1. UNCHANGED <<cat, changes>>
  BY DEF StartReading, ReadNextDatabase, Confirm
<1>2. RunsLawful'
  <2>1. CASE StartReading(p)
    BY <2>1, EndRun, ReadOnStep DEF StartReading, IInv
  <2>2. CASE ReadNextDatabase(p)
    BY <2>2, EndRun, ReadOnStep DEF ReadNextDatabase, IInv
  <2>3. CASE Confirm(p)
    <3>1. CASE End(p, "refused")
      BY <3>1, EndRun DEF IInv
    <3>2. CASE /\ op[p].phase = "planned" /\ (NeedsAllowDestroy(op[p].plan) => op[p].allow)
               /\ op' = [op EXCEPT ![p].phase = "applying"]
      <4> DEFINE r == [op[p] EXCEPT !.phase = "applying"]
      <4>1. op' = [op EXCEPT ![p] = r]
        BY <3>2
      <4>2. r = [f \in RunFields |-> r[f]] /\ r.plan = op[p].plan /\ r.tx = op[p].tx /\ r.allow = op[p].allow
            /\ r.phase = "applying"
        BY DEF IInv, RunsLawful, RunLawful, RunFields
      <4> HIDE DEF r
      <4>3. ~op[p].allow => \A s \in op[p].plan : Harmless(s)
        BY <3>2 DEF NeedsAllowDestroy, Marked, IInv, RunsLawful, RunLawful
      <4>4. RunLawful(r)
        BY <4>2, <4>3 DEF IInv, RunsLawful, RunLawful
      <4> QED
        BY <4>1, <4>4, SetRun DEF IInv
    <3> QED
      BY <2>3, <3>1, <3>2 DEF Confirm
  <2> QED
    BY <2>1, <2>2, <2>3
<1> QED
  BY <1>1, <1>2, RightfulNever DEF IInv, StepLawful, IsCatalog

LEMMA ExecuteStep ==
  ASSUME IInv, NEW p \in Operators, Execute(p)
  PROVE  IInv' /\ StepLawful
<1>1. PICK s \in op[p].plan :
        /\ NextStatement(p, s)
        /\ IF Refused(op[p].tx, s) THEN End(p, "failed") /\ UNCHANGED cat
           ELSE \/ /\ Atomic
                   /\ GoOn(p, op[p].plan \ {s}, Append(op[p].tx, s))
                   /\ UNCHANGED cat
                \/ /\ ~Atomic
                   /\ cat' = Effect(cat, s)
                   /\ GoOn(p, op[p].plan \ {s}, <<>>)
  BY DEF Execute
<1>2. op[p].phase = "applying" /\ changes' = changes
  BY <1>1 DEF NextStatement, Execute
<1>3. Lawful(s) /\ (~op[p].allow => Harmless(s))
  BY <1>2 DEF IInv, RunsLawful, RunLawful
<1>4. CASE End(p, "failed") /\ UNCHANGED cat
  BY <1>2, <1>4, EndRun, RightfulNever DEF IInv, StepLawful, IsCatalog
<1>5. CASE GoOn(p, op[p].plan \ {s}, Append(op[p].tx, s)) /\ UNCHANGED cat
  <2>1. PICK S : /\ op[p].tx \in Seq(S)
                 /\ \A t \in S : Lawful(t)
                 /\ ~op[p].allow => \A t \in S : Harmless(t)
    BY DEF IInv, RunsLawful, RunLawful, TxLawful
  <2>2. Append(op[p].tx, s) \in Seq(S \cup {s})
    BY <2>1
  <2>3. TxLawful(Append(op[p].tx, s), op[p].allow)
    BY <1>3, <2>1, <2>2 DEF TxLawful
  <2>4. RunsLawful'
    BY <1>2, <1>5, <2>3, GoOnRun DEF IInv
  <2> QED
    BY <1>2, <1>5, <2>4, RightfulNever DEF IInv, StepLawful, IsCatalog
<1>6. CASE cat' = Effect(cat, s) /\ GoOn(p, op[p].plan \ {s}, <<>>)
  <2>1. RunsLawful' /\ \A q \in Operators \ {p} : op'[q] = op[q]
    BY <1>2, <1>6, NothingOpen, GoOnRun DEF IInv
  <2>2. IsCatalog(cat') /\ Rightful(cat, cat') /\ (~op[p].allow => Keeps(cat, cat'))
    BY <1>3, <1>6, EffectLawful DEF IInv
  <2> QED
    BY <1>2, <2>1, <2>2 DEF IInv, StepLawful
<1> QED
  BY <1>1, <1>4, <1>5, <1>6

\* What the open transaction of p comes to.
LEMMA OpenTransaction ==
  ASSUME IInv, NEW p \in Operators
  PROVE  /\ IsCatalog(View(op[p].tx))
         /\ Rightful(cat, View(op[p].tx))
         /\ ~op[p].allow => Keeps(cat, View(op[p].tx))
<1>1. PICK S : /\ op[p].tx \in Seq(S)
               /\ \A t \in S : Lawful(t)
               /\ ~op[p].allow => \A t \in S : Harmless(t)
  BY DEF IInv, RunsLawful, RunLawful, TxLawful
<1> QED
  BY <1>1, ViewsLawful DEF IInv

LEMMA CommitStep ==
  ASSUME IInv, NEW p \in Operators, Commit(p)
  PROVE  IInv' /\ StepLawful
<1>1. op[p].phase = "applying" /\ changes' = changes
  BY DEF Commit
<1>2. CASE cat' = View(op[p].tx) /\ GoOn(p, op[p].plan, <<>>)
  <2>1. RunsLawful' /\ \A q \in Operators \ {p} : op'[q] = op[q]
    BY <1>1, <1>2, NothingOpen, GoOnRun DEF IInv
  <2> QED
    BY <1>1, <1>2, <2>1, OpenTransaction DEF IInv, StepLawful
<1>3. CASE End(p, "failed") /\ UNCHANGED cat
  BY <1>1, <1>3, EndRun, RightfulNever DEF IInv, StepLawful, IsCatalog
<1> QED
  BY <1>2, <1>3 DEF Commit

LEMMA InterruptStep ==
  ASSUME IInv, NEW p \in Operators, Interrupt(p)
  PROVE  IInv' /\ StepLawful
<1>1. End(p, "failed") /\ UNCHANGED <<cat, changes>>
  BY DEF Interrupt
<1> QED
  BY <1>1, EndRun, RightfulNever DEF IInv, StepLawful, IsCatalog

LEMMA LoseAnswerStep ==
  ASSUME IInv, NEW p \in Operators, LoseAnswer(p)
  PROVE  IInv' /\ StepLawful
<1>1. End(p, "failed") /\ changes' = changes /\ op[p].phase = "applying"
  BY DEF LoseAnswer
<1>2. RunsLawful' /\ \A q \in Operators \ {p} : op'[q] = op[q]
  BY <1>1, EndRun DEF IInv
<1>3. IsCatalog(cat') /\ Rightful(cat, cat') /\ (~op[p].allow => Keeps(cat, cat'))
  <2>1. CASE cat' = View(op[p].tx)
    BY <2>1, OpenTransaction
  <2>2. ASSUME NEW s \in op[p].plan, cat' = Effect(cat, s)
        PROVE  IsCatalog(cat') /\ Rightful(cat, cat') /\ (~op[p].allow => Keeps(cat, cat'))
    <3>1. Lawful(s) /\ (~op[p].allow => Harmless(s))
      BY <1>1 DEF IInv, RunsLawful, RunLawful
    <3> QED
      BY <2>2, <3>1, EffectLawful DEF IInv
  <2> QED
    BY <2>1, <2>2 DEF LoseAnswer
<1> QED
  BY <1>1, <1>2, <1>3 DEF IInv, StepLawful

LEMMA OthersStep ==
  ASSUME IInv, Others
  PROVE  IInv' /\ StepLawful
<1>1. op' = op /\ changes' = changes + 1
  BY DEF Others
<1>2. IsCatalog(cat')
  <2> USE DEF IInv, IsCatalog, Fields
  <2>1. CASE HandGrant
    BY <2>1 DEF HandGrant
  <2>2. CASE HandDefault
    BY <2>2 DEF HandDefault
  <2>3. CASE HandMember
    BY <2>3 DEF HandMember
  <2>4. CASE CreateRelation
    BY <2>4 DEF CreateRelation, Created
  <2>5. CASE DropRelation
    BY <2>5 DEF DropRelation, WithoutRelation
  <2>6. CASE DropRole
    BY <2>6 DEF DropRole, WithoutRole
  <2>7. CASE CloseDatabase
    BY <2>7 DEF CloseDatabase
  <2> QED
    BY <2>1, <2>2, <2>3, <2>4, <2>5, <2>6, <2>7 DEF Others
<1> QED
  BY <1>1, <1>2 DEF IInv, StepLawful, RunsLawful

LEMMA IInit == Init => IInv
<1> SUFFICES ASSUME Init PROVE IInv
  OBVIOUS
<1>1. IsCatalog(cat)
  BY CatalogsAssumption DEF Init, IsCatalog, Fields, NothingRead
<1>2. RunLawful(Idle)
  BY NothingOpen DEF RunLawful, Idle, RunFields
<1> QED
  BY <1>1, <1>2 DEF Init, IInv, RunsLawful

LEMMA IStep == IInv /\ [Next]_vars => IInv' /\ StepLawful
<1> SUFFICES ASSUME IInv, [Next]_vars PROVE IInv' /\ StepLawful
  OBVIOUS
<1>1. CASE UNCHANGED vars
  BY <1>1, RightfulNever DEF vars, IInv, StepLawful, RunsLawful, IsCatalog
<1>2. ASSUME NEW p \in Operators, Progress(p) \/ Interrupt(p) \/ LoseAnswer(p)
      PROVE  IInv' /\ StepLawful
  BY <1>2, ReadingStep, ExecuteStep, CommitStep, InterruptStep, LoseAnswerStep DEF Progress
<1> QED
  BY <1>1, <1>2, OthersStep DEF Next

----------------------------------------------------------------------------
(* The theorems.                                                           *)

\* applyCmd's gate, NeedsAllowDestroy: what nobody allowed is not done, though
\* the catalog moved since it was checked, on DSQL and within the transactions
\* of Aurora, whatever others do and wherever the run is cut short.
THEOREM NothingIsTakenUnasked == Spec => NothingTakenUnasked
<1>1. StepLawful =>
        \A p \in Operators : op'[p] # op[p] /\ ~op[p].allow =>
          /\ cat.login \subseteq cat'.login
          /\ cat.iam \subseteq cat'.iam
          /\ cat.acl \subseteq cat'.acl
          /\ cat.dacl \subseteq cat'.dacl
          /\ \A m \in cat.member : m[1] # Me => m \in cat'.member
          /\ \A m \in cat.inherit : m[1] # Me => m \in cat'.inherit
  BY DEF StepLawful, Keeps
<1> QED
  BY <1>1, IInit, IStep, PTL DEF Spec, NothingTakenUnasked

\* StaysWithinAuthority but for what is known to break it: the executing user
\* may borrow from a role that is not declared (run undeclared_creator), and a
\* default privilege may be written out for an unmanaged database.
THEOREM AlwaysRightful == Spec => [][changes' = changes => Rightful(cat, cat')]_vars
<1>1. StepLawful => (changes' = changes => Rightful(cat, cat'))
  BY DEF StepLawful
<1> QED
  BY <1>1, IInit, IStep, PTL DEF Spec
=============================================================================
