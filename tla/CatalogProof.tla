---------------------------- MODULE CatalogProof ----------------------------
(***************************************************************************)
(* Proofs about the catalog under runs: what the server keeps well formed  *)
(* stays so, and the type invariant of Reconcile.                          *)
(***************************************************************************)
EXTENDS ReconcileProof

----------------------------------------------------------------------------
(* Reachability, by sets that nothing leads out of.                        *)

Closed(S, pairs) == \A e \in pairs : e[1] \in S => e[2] \in S

\* b cannot be reached from a: a set that a is in and b is not, closed.
LEMMA Unreachable ==
  ASSUME NEW pairs, NEW a, NEW b
  PROVE  ~Reaches(pairs, a, b) <=> \E S : a \in S /\ b \notin S /\ Closed(S, pairs)
<1> DEFINE nodes == {a} \cup {e[2] : e \in pairs}
<1>1. ASSUME NEW S, a \in S, b \notin S, Closed(S, pairs)
      PROVE  ~Reaches(pairs, a, b)
  <2> DEFINE T == S \cap nodes
  <2>1. T \in SUBSET nodes /\ a \in T /\ b \notin T
    BY <1>1
  <2>2. \A e \in pairs : e[1] \in T => e[2] \in T
    BY <1>1 DEF Closed
  <2> HIDE DEF T
  <2> QED
    BY <2>1, <2>2 DEF Reaches
<1> QED
  BY <1>1 DEF Reaches, Closed

Acyclic(pairs) == \A m \in pairs : ~Reaches(pairs, m[2], m[1])

LEMMA AcyclicFewer ==
  ASSUME NEW pairs, Acyclic(pairs), NEW fewer, fewer \subseteq pairs
  PROVE  Acyclic(fewer)
<1> SUFFICES ASSUME NEW m \in fewer PROVE ~Reaches(fewer, m[2], m[1])
  BY DEF Acyclic
<1>1. PICK S : m[2] \in S /\ m[1] \notin S /\ Closed(S, pairs)
  BY Unreachable DEF Acyclic
<1> QED
  BY <1>1, Unreachable DEF Closed

\* The check GRANT makes is enough.
LEMMA AcyclicMore ==
  ASSUME NEW pairs, Acyclic(pairs), NEW x, NEW y, ~Reaches(pairs, y, x)
  PROVE  Acyclic(pairs \cup {<<x, y>>})
<1> DEFINE more == pairs \cup {<<x, y>>}
<1>1. PICK S : y \in S /\ x \notin S /\ Closed(S, pairs)
  BY Unreachable
<1>2. Closed(S, more)
  BY <1>1 DEF Closed
<1> SUFFICES ASSUME NEW m \in more PROVE ~Reaches(more, m[2], m[1])
  BY DEF Acyclic
<1>3. CASE m = <<x, y>>
  BY <1>1, <1>2, <1>3, Unreachable
<1>4. CASE m \in pairs
  <2>1. PICK T : m[2] \in T /\ m[1] \notin T /\ Closed(T, pairs)
    BY <1>4, Unreachable DEF Acyclic
  <2>2. CASE x \notin T \/ y \in T
    <3>1. Closed(T, more)
      BY <2>1, <2>2 DEF Closed
    <3> QED
      BY <2>1, <3>1, Unreachable
  <2>3. CASE m[1] \notin S /\ m[2] \in S
    BY <1>2, <2>3, Unreachable
  <2>4. CASE x \in T /\ m[1] \in S
    <3>1. m[2] \in S \cap T /\ m[1] \notin S \cap T
      BY <1>1, <1>4, <2>1, <2>4 DEF Closed
    <3>2. Closed(S \cap T, more)
      BY <1>1, <2>1 DEF Closed
    <3> QED
      BY <3>1, <3>2, Unreachable
  <2>5. CASE x \in T /\ y \notin T /\ m[1] \notin S /\ m[2] \notin S
    <3>1. m[2] \in S \cup T /\ m[1] \notin S \cup T
      BY <2>1, <2>5
    <3>2. Closed(S \cup T, more)
      BY <1>1, <2>1 DEF Closed
    <3> QED
      BY <3>1, <3>2, Unreachable
  <2> QED
    BY <2>2, <2>3, <2>4, <2>5
<1> QED
  BY <1>3, <1>4

----------------------------------------------------------------------------
(* What the server keeps well formed.                                      *)

\* c is well formed, and the executing user is one of its roles.
Sound(c) == IsCatalog(c) /\ WellFormed(c) /\ Me \in c.roles

\* The memberships of c, one of them added: between roles, and no cycle.
LEMMA MembersMore ==
  ASSUME NEW c, WellFormed(c), NEW d, NEW x, NEW y,
         c.roles \subseteq d.roles, {x, y} \subseteq d.roles, ~Reaches(c.member, y, x),
         d.member \in {c.member, c.member \cup {<<x, y>>}},
         d.inherit \subseteq c.inherit \cup (d.member \cap {<<x, y>>}),
         d.admin \subseteq c.admin \cup (d.member \cap {<<x, y>>})
  PROVE  /\ d.member \subseteq d.roles \X d.roles
         /\ d.inherit \cup d.admin \subseteq d.member
         /\ \A m \in d.member : ~Reaches(d.member, m[2], m[1])
<1>1. d.member \subseteq d.roles \X d.roles /\ d.inherit \cup d.admin \subseteq d.member
  BY DEF WellFormed
<1>2. Acyclic(c.member)
  BY DEF WellFormed, Acyclic
<1>3. Acyclic(d.member)
  BY <1>2, AcyclicMore
<1> QED
  BY <1>1, <1>3 DEF Acyclic

\* A statement the server permits leaves the catalog well formed.
LEMMA PermittedSound ==
  ASSUME NEW c, Sound(c), NEW s, Lawful(s), Permitted(c, s)
  PROVE  Sound(Effect(c, s)) /\ c.roles \subseteq Effect(c, s).roles
<1> DEFINE d == Effect(c, s)
<1>0. IsCatalog(d)
  BY EffectLawful DEF Sound
<1> USE DEF Sound, IsCatalog, Fields
<1>1. CASE s.op = "create role"
  <2>1. s.args[1] \notin c.roles
    BY <1>1 DEF Permitted
  <2>2. /\ d.roles = c.roles \cup {s.args[1]}
        /\ d.login \in {c.login, c.login \cup {s.args[1]}}
        /\ d.member \in {c.member, c.member \cup {<<Me, s.args[1]>>}}
        /\ d.inherit = c.inherit
        /\ d.admin \subseteq c.admin \cup (d.member \cap {<<Me, s.args[1]>>})
        /\ d.super = c.super /\ d.iam = c.iam /\ d.owner = c.owner /\ d.acl = c.acl /\ d.dacl = c.dacl
    BY <1>1 DEF Effect
  <2> HIDE DEF d
  <2>3. ~Reaches(c.member, s.args[1], Me)
    <3>1. Closed({s.args[1]}, c.member) /\ Me # s.args[1]
      BY <2>1 DEF Closed, WellFormed
    <3> QED
      BY <3>1, Unreachable
  <2>4. /\ d.member \subseteq d.roles \X d.roles
        /\ d.inherit \cup d.admin \subseteq d.member
        /\ \A m \in d.member : ~Reaches(d.member, m[2], m[1])
    BY <2>2, <2>3, MembersMore
  <2>5. WellFormed(d)
    BY <2>2, <2>4 DEF WellFormed, Objects
  <2> QED
    BY <1>0, <2>2, <2>5 DEF d
<1>2. CASE s.op = "alter role"
  <2>1. s.args[1] \in c.roles
    BY <1>2 DEF Permitted
  <2>2. d.login \subseteq c.login \cup {s.args[1]} /\ d = [c EXCEPT !.login = d.login]
    BY <1>2 DEF Effect
  <2> HIDE DEF d
  <2>3. WellFormed(d)
    BY <2>1, <2>2 DEF WellFormed, Objects
  <2> QED
    BY <1>0, <2>2, <2>3 DEF d
<1>3. CASE s.op \in {"iam grant", "iam revoke"}
  <2>1. s.args[1] \in c.roles
    BY <1>3 DEF Permitted
  <2>2. d.iam \subseteq c.iam \cup {<<s.args[1], s.args[2]>>} /\ d = [c EXCEPT !.iam = d.iam]
    BY <1>3 DEF Effect
  <2> HIDE DEF d
  <2>3. WellFormed(d)
    BY <2>1, <2>2 DEF WellFormed, Objects
  <2> QED
    BY <1>0, <2>2, <2>3 DEF d
<1>4. CASE s.op = "grant role"
  <2>1. {s.args[1], s.args[2]} \subseteq c.roles /\ ~Reaches(c.member, s.args[1], s.args[2])
    BY <1>4 DEF Permitted
  <2>2. /\ d.member = c.member \cup {<<s.args[2], s.args[1]>>}
        /\ d.inherit \subseteq c.inherit \cup {<<s.args[2], s.args[1]>>}
        /\ d = [c EXCEPT !.member = d.member, !.inherit = d.inherit]
        /\ d.roles = c.roles /\ d.admin = c.admin
    BY <1>4 DEF Effect
  <2> HIDE DEF d
  <2>a. /\ c.roles \subseteq d.roles /\ {s.args[2], s.args[1]} \subseteq d.roles
        /\ d.member \in {c.member, c.member \cup {<<s.args[2], s.args[1]>>}}
        /\ d.inherit \subseteq c.inherit \cup (d.member \cap {<<s.args[2], s.args[1]>>})
        /\ d.admin \subseteq c.admin \cup (d.member \cap {<<s.args[2], s.args[1]>>})
    BY <2>1, <2>2
  <2>3. /\ d.member \subseteq d.roles \X d.roles
        /\ d.inherit \cup d.admin \subseteq d.member
        /\ \A m \in d.member : ~Reaches(d.member, m[2], m[1])
    BY <2>1, <2>a, MembersMore
  <2>4. WellFormed(d)
    BY <2>2, <2>3 DEF WellFormed, Objects
  <2> QED
    BY <1>0, <2>2, <2>4 DEF d
<1>5. CASE s.op \in {"revoke role", "drop", "return"}
  <2> DEFINE pair == IF s.op = "revoke role" THEN <<s.args[2], s.args[1]>> ELSE <<Me, s.args[1]>>
             gone == IF s.op = "return" THEN {} ELSE {pair}
  <2>1. /\ d.member = c.member \ gone
        /\ d.inherit = c.inherit \ {pair}
        /\ d.admin = c.admin \ gone
        /\ d = [c EXCEPT !.member = d.member, !.inherit = d.inherit, !.admin = d.admin]
    BY <1>5 DEF Effect
  <2>2. WellFormed([c EXCEPT !.inherit = c.inherit \ {pair}])
    BY DEF WellFormed, Objects
  <2> HIDE DEF d
  <2>3. /\ d.member \subseteq d.roles \X d.roles
        /\ d.inherit \cup d.admin \subseteq d.member
    BY <2>1 DEF WellFormed
  <2>4. Acyclic(c.member)
    BY DEF WellFormed, Acyclic
  <2>5. Acyclic(d.member)
    BY <2>1, <2>4, AcyclicFewer
  <2>6. WellFormed(d)
    BY <2>1, <2>3, <2>5 DEF WellFormed, Objects, Acyclic
  <2> QED
    BY <1>0, <2>1, <2>6 DEF d
<1>6. CASE s.op \in {"grant", "revoke"}
  <2> DEFINE o == <<s.args[1], s.args[2], s.args[3], s.args[4]>>
  <2>1. o \in Objects(c) /\ s.args[5] \in c.roles
    BY <1>6 DEF Permitted
  <2>2. d.acl \subseteq c.acl \cup {<<o, s.args[5], p>> : p \in s.privs} /\ d = [c EXCEPT !.acl = d.acl]
    BY <1>6 DEF Effect
  <2> HIDE DEF d, o
  <2>3. WellFormed(d)
    BY <2>1, <2>2 DEF WellFormed, Objects
  <2> QED
    BY <1>0, <2>2, <2>3 DEF d
<1>7. CASE s.op = "grant all"
  <2>1. s.args[4] \in c.roles
    BY <1>7 DEF Permitted
  <2>2. /\ d.acl = c.acl \cup UNION {{<<o, s.args[4], p>> : p \in s.privs} :
                                     o \in Relations(c, s.args[1], s.args[3], s.args[2])}
        /\ d = [c EXCEPT !.acl = d.acl]
    BY <1>7 DEF Effect
  <2> HIDE DEF d
  <2>3. WellFormed(d)
    BY <2>1, <2>2 DEF WellFormed, Objects, Relations
  <2> QED
    BY <1>0, <2>2, <2>3 DEF d
<1>8. CASE s.op \in {"alter default grant", "alter default revoke"}
  <2>1. {s.args[3], s.args[5]} \subseteq c.roles
    BY <1>8 DEF Permitted
  <2>2. /\ d.dacl \subseteq c.dacl \cup {<<s.args[1], s.args[2], s.args[3], s.args[4], s.args[5], p>> : p \in s.privs}
        /\ d = [c EXCEPT !.dacl = d.dacl]
    BY <1>8 DEF Effect
  <2> HIDE DEF d
  <2>3. WellFormed(d)
    BY <2>1, <2>2 DEF WellFormed, Objects
  <2> QED
    BY <1>0, <2>2, <2>3 DEF d
<1>9. CASE s.op = "borrow"
  <2>1. s.args[1] \in c.roles /\ ~Reaches(c.member, s.args[1], Me)
    BY <1>9 DEF Permitted
  <2>2. /\ d.member = c.member \cup {<<Me, s.args[1]>>}
        /\ d.inherit = c.inherit \cup {<<Me, s.args[1]>>}
        /\ d = [c EXCEPT !.member = d.member, !.inherit = d.inherit]
        /\ d.roles = c.roles /\ d.admin = c.admin
    BY <1>9 DEF Effect
  <2> HIDE DEF d
  <2>a. /\ c.roles \subseteq d.roles /\ {Me, s.args[1]} \subseteq d.roles
        /\ d.member \in {c.member, c.member \cup {<<Me, s.args[1]>>}}
        /\ d.inherit \subseteq c.inherit \cup (d.member \cap {<<Me, s.args[1]>>})
        /\ d.admin \subseteq c.admin \cup (d.member \cap {<<Me, s.args[1]>>})
    BY <2>1, <2>2
  <2>3. /\ d.member \subseteq d.roles \X d.roles
        /\ d.inherit \cup d.admin \subseteq d.member
        /\ \A m \in d.member : ~Reaches(d.member, m[2], m[1])
    BY <2>1, <2>a, MembersMore
  <2>4. WellFormed(d)
    BY <2>2, <2>3 DEF WellFormed, Objects
  <2> QED
    BY <1>0, <2>2, <2>4 DEF d
<1> QED
  BY <1>1, <1>2, <1>3, <1>4, <1>5, <1>6, <1>7, <1>8, <1>9 DEF Lawful

\* So does what others do.
LEMMA OthersSound ==
  ASSUME Sound(cat), Others
  PROVE  Sound(cat')
<1> USE DEF Sound, IsCatalog, Fields
<1>1. CASE HandGrant
  <2>1. PICK e \in HandGrants : e[1] \in Objects(cat) /\ e[2] \in cat.roles
                              /\ cat' = [cat EXCEPT !.acl = Toggle(@, e)]
    BY <1>1 DEF HandGrant
  <2>2. Toggle(cat.acl, e) \subseteq cat.acl \cup {e}
    BY DEF Toggle
  <2> QED
    BY <2>1, <2>2 DEF WellFormed, Objects
<1>2. CASE HandDefault
  <2>1. PICK e \in HandDefaults : {e[3], e[5]} \subseteq cat.roles /\ cat' = [cat EXCEPT !.dacl = Toggle(@, e)]
    BY <1>2 DEF HandDefault
  <2>2. Toggle(cat.dacl, e) \subseteq cat.dacl \cup {e}
    BY DEF Toggle
  <2> QED
    BY <2>1, <2>2 DEF WellFormed, Objects
<1>3. CASE HandMember
  <2>1. PICK m \in HandMembers :
          /\ {m[1], m[2]} \subseteq cat.roles
          /\ m \in cat.member \/ ~Reaches(cat.member, m[2], m[1])
          /\ cat' = [cat EXCEPT !.inherit = Toggle(@, m), !.member = @ \cup {m}]
    BY <1>3 DEF HandMember
  <2>2. m = <<m[1], m[2]>>
    BY MembersAssumption
  <2>3. Toggle(cat.inherit, m) \subseteq cat.inherit \cup {m}
    BY DEF Toggle
  <2>4. /\ cat'.member = cat.member \cup {<<m[1], m[2]>>}
        /\ cat'.inherit \subseteq cat.inherit \cup {<<m[1], m[2]>>}
        /\ cat'.roles = cat.roles /\ cat'.admin = cat.admin
        /\ cat' = [cat EXCEPT !.member = cat'.member, !.inherit = cat'.inherit]
    BY <2>1, <2>2, <2>3
  <2>5. /\ cat'.member \subseteq cat'.roles \X cat'.roles
        /\ cat'.inherit \cup cat'.admin \subseteq cat'.member
    BY <2>1, <2>4 DEF WellFormed
  <2>6. Acyclic(cat.member)
    BY DEF WellFormed, Acyclic
  <2>7. Acyclic(cat'.member)
    <3>1. CASE m \in cat.member
      BY <2>2, <2>4, <2>6, <3>1, AcyclicFewer
    <3>2. CASE ~Reaches(cat.member, m[2], m[1])
      BY <2>4, <2>6, <3>2, AcyclicMore
    <3> QED
      BY <2>1, <3>1, <3>2
  <2> QED
    BY <2>4, <2>5, <2>7 DEF WellFormed, Objects, Acyclic
<1>4. CASE CreateRelation
  <2>1. PICK r \in NewRelations :
          r[1] \in cat.roles /\ r[2] \notin Objects(cat) /\ cat' = Created(cat, r[1], r[2])
    BY <1>4 DEF CreateRelation
  <2> DEFINE born == {<<r[2], e[5], e[6]>> : e \in cat.dacl}
  <2>2. /\ cat'.owner = [x \in Objects(cat) \cup {r[2]} |-> IF x = r[2] THEN r[1] ELSE cat.owner[x]]
        /\ cat'.acl \subseteq cat.acl \cup born
        /\ cat' = [cat EXCEPT !.owner = cat'.owner, !.acl = cat'.acl]
    BY <2>1 DEF Created
  <2>3. \A e \in born : e[1] = r[2] /\ e[2] \in cat.roles \cup {Public}
    BY DEF WellFormed
  <2> HIDE DEF born
  <2> QED
    BY <2>1, <2>2, <2>3 DEF WellFormed, Objects
<1>5. CASE DropRelation
  <2>1. PICK o \in Objects(cat) : cat' = WithoutRelation(cat, o)
    BY <1>5 DEF DropRelation
  <2>2. /\ cat'.owner = [x \in Objects(cat) \ {o} |-> cat.owner[x]]
        /\ cat'.acl = {e \in cat.acl : e[1] # o}
        /\ cat' = [cat EXCEPT !.owner = cat'.owner, !.acl = cat'.acl]
    BY <2>1 DEF WithoutRelation
  <2> QED
    BY <2>2 DEF WellFormed, Objects
<1>6. CASE DropRole
  <2>1. PICK r \in DroppedRoles \cap cat.roles :
          (\A o \in Objects(cat) : cat.owner[o] # r) /\ cat' = WithoutRole(cat, r)
    BY <1>6 DEF DropRole
  <2> DEFINE others(pairs) == {m \in pairs : r \notin {m[1], m[2]}}
  <2>2. /\ cat'.roles = cat.roles \ {r} /\ cat'.login = cat.login \ {r} /\ cat'.super = cat.super \ {r}
        /\ cat'.member = others(cat.member) /\ cat'.inherit = others(cat.inherit) /\ cat'.admin = others(cat.admin)
        /\ cat'.iam = {e \in cat.iam : e[1] # r} /\ cat'.acl = {e \in cat.acl : e[2] # r}
        /\ cat'.dacl = {e \in cat.dacl : r \notin {e[3], e[5]}} /\ cat'.owner = cat.owner
        /\ cat' = [f \in Fields |-> cat'[f]]
    BY <2>1 DEF WithoutRole
  <2>3. Me # r
    BY MeAssumption
  <2>4. Acyclic(cat.member) /\ cat'.member \subseteq cat.member
    BY <2>2 DEF WellFormed, Acyclic
  <2>5. Acyclic(cat'.member)
    BY <2>4, AcyclicFewer
  <2>6. cat'.member \subseteq cat'.roles \X cat'.roles
    <3> SUFFICES ASSUME NEW m \in cat'.member PROVE m \in cat'.roles \X cat'.roles
      OBVIOUS
    <3>1. m \in cat.roles \X cat.roles /\ r \notin {m[1], m[2]}
      BY <2>2 DEF WellFormed
    <3> QED
      BY <2>2, <3>1
  <2>7. cat'.inherit \cup cat'.admin \subseteq cat'.member
    BY <2>2 DEF WellFormed
  <2>8. /\ \A e \in cat'.acl : e[1] \in Objects(cat') /\ e[2] \in cat'.roles \cup {Public}
        /\ \A e \in cat'.dacl : e[3] \in cat'.roles /\ e[5] \in cat'.roles \cup {Public}
    BY <2>2 DEF WellFormed, Objects
  <2>9. /\ cat'.login \cup cat'.super \subseteq cat'.roles
        /\ \A e \in cat'.iam : e[1] \in cat'.roles
        /\ \A o \in Objects(cat') : cat'.owner[o] \in cat'.roles
    BY <2>1, <2>2 DEF WellFormed, Objects
  <2> QED
    BY <2>2, <2>3, <2>5, <2>6, <2>7, <2>8, <2>9 DEF WellFormed, Acyclic
<1>7. CASE CloseDatabase
  BY <1>7 DEF CloseDatabase, WellFormed, Objects
<1> QED
  BY <1>1, <1>2, <1>3, <1>4, <1>5, <1>6, <1>7 DEF Others

\* Induction up to a bound.
LEMMA UpTo ==
  ASSUME NEW n \in Nat, NEW P, 0 \in P, \A i \in 0 .. n : i \in P /\ i < n => i + 1 \in P
  PROVE  0 .. n \subseteq P
<1> DEFINE Q == {i \in Nat : i <= n => i \in P}
<1>1. 0 \in Q /\ \A i \in Q : i + 1 \in Q
  OBVIOUS
<1>2. Q = Nat
  <2> HIDE DEF Q
  <2> QED
    BY <1>1, NatInductionOnSets DEF Q
<1> QED
  BY <1>2

LEMMA ViewsSteps ==
  ASSUME NEW tx, Len(tx) \in Nat
  PROVE  Views(tx)[0] = cat /\ \A i \in 1 .. Len(tx) : Views(tx)[i] = Effect(Views(tx)[i - 1], tx[i])
BY ViewsDefined

LEMMA NothingSeen == View(<<>>) = cat
BY ViewsSteps DEF View

\* A transaction that could be committed has seen only sound catalogs.
LEMMA ReplaysSound ==
  ASSUME Sound(cat), NEW S, NEW tx \in Seq(S), \A s \in S : Lawful(s), Replays(tx)
  PROVE  \A i \in 0 .. Len(tx) : Sound(Views(tx)[i]) /\ cat.roles \subseteq Views(tx)[i].roles
<1> DEFINE P == {i \in Nat : Sound(Views(tx)[i]) /\ cat.roles \subseteq Views(tx)[i].roles}
<1>1. Len(tx) \in Nat /\ DOMAIN tx = 1 .. Len(tx) /\ \A i \in 1 .. Len(tx) : tx[i] \in S
  OBVIOUS
<1>2. 0 \in P
  BY <1>1, ViewsSteps
<1>3. ASSUME NEW i \in 0 .. Len(tx), i \in P, i < Len(tx) PROVE i + 1 \in P
  <2>1. i + 1 \in 1 .. Len(tx) /\ (i + 1) - 1 = i
    BY <1>1, <1>3
  <2>2. Views(tx)[i + 1] = Effect(Views(tx)[i], tx[i + 1]) /\ Permitted(Views(tx)[i], tx[i + 1])
    BY <1>1, <2>1, ViewsSteps DEF Replays
  <2>3. Sound(Views(tx)[i]) /\ Lawful(tx[i + 1])
    BY <1>1, <1>3, <2>1
  <2>4. Sound(Views(tx)[i + 1]) /\ Views(tx)[i].roles \subseteq Views(tx)[i + 1].roles
    BY <2>2, <2>3, PermittedSound
  <2> QED
    BY <1>3, <2>4
<1> HIDE DEF P
<1>4. 0 .. Len(tx) \subseteq P
  BY <1>1, <1>2, <1>3, UpTo
<1> QED
  BY <1>4 DEF P

----------------------------------------------------------------------------
(* What a step of a run comes to.                                          *)

\* What the run of p has read by its next step.
FreshSnapshot(p, st) ==
  \/ st = ReadCluster(cat, IAMPrincipals)
  \/ op[p].phase = "reading" /\ \E db : st = ReadDatabases(cat, op[p].st, {db})

\* p's transaction is committed, or the statement s takes effect by itself.
Committed(p) ==
  /\ Atomic /\ op[p].tx # <<>> /\ Replays(op[p].tx)
  /\ \A s \in op[p].plan : s.db # op[p].tx[1].db
  /\ cat' = View(op[p].tx)
Done(p, s) == ~Atomic /\ NextStatement(p, s) /\ Permitted(cat, s) /\ cat' = Effect(cat, s)

Stops(p) ==
  /\ \E phase \in Resting : End(p, phase)
  /\ cat' = cat \/ Committed(p) \/ \E s \in op[p].plan : Done(p, s)

Reads(p) ==
  /\ \E st, left : /\ FreshSnapshot(p, st)
                   /\ op' = [op EXCEPT ![p] = [Idle EXCEPT !.phase = "reading", !.st = st, !.left = left]]
  /\ cat' = cat

Plans(p) ==
  /\ \E st, allow : /\ FreshSnapshot(p, st) /\ allow \in AllowDestroy
                    /\ op' = [op EXCEPT ![p] = [Idle EXCEPT !.phase = "planned", !.allow = allow,
                                                            !.plan = Diff(st)]]
  /\ cat' = cat

Starts(p) ==
  /\ op[p].phase = "planned"
  /\ op' = [op EXCEPT ![p].phase = "applying"]
  /\ cat' = cat

Sends(p) ==
  /\ Atomic
  /\ \E s \in op[p].plan : /\ NextStatement(p, s) /\ Permitted(View(op[p].tx), s)
                           /\ GoOn(p, op[p].plan \ {s}, Append(op[p].tx, s))
  /\ cat' = cat

Lands(p) ==
  /\ op[p].phase = "applying"
  /\ \/ Committed(p) /\ GoOn(p, op[p].plan, <<>>)
     \/ \E s \in op[p].plan : Done(p, s) /\ GoOn(p, op[p].plan \ {s}, <<>>)

RunStep(p) == Stops(p) \/ Reads(p) \/ Plans(p) \/ Starts(p) \/ Sends(p) \/ Lands(p)

\* Transactions are Aurora's.
TxAtomic == \A p \in Operators : op[p].tx # <<>> => Atomic

LEMMA DecideShape ==
  ASSUME NEW p \in Operators, NEW st, FreshSnapshot(p, st), NEW left, ReadOn(p, st, left), cat' = cat
  PROVE  Stops(p) \/ Reads(p) \/ Plans(p)
<1>1. CASE left # {}
  BY <1>1 DEF ReadOn, Reads
<1>2. CASE Decide(p, st)
  BY <1>2 DEF Decide, Stops, Plans, Resting, Phases
<1> QED
  BY <1>1, <1>2 DEF ReadOn

LEMMA RunShape ==
  ASSUME TxAtomic, NEW p \in Operators, Progress(p) \/ Interrupt(p) \/ LoseAnswer(p)
  PROVE  RunStep(p) /\ changes' = changes
<1> USE DEF RunStep
<1>0. {"failed", "refused"} \subseteq Resting
  BY DEF Resting, Phases
<1>1. CASE StartReading(p)
  <2>1. FreshSnapshot(p, ReadCluster(cat, IAMPrincipals))
    BY DEF FreshSnapshot
  <2>2. cat' = cat /\ changes' = changes
    BY <1>1 DEF StartReading
  <2>3. CASE End(p, "failed")
    BY <1>0, <2>2, <2>3 DEF Stops
  <2> QED
    BY <1>1, <2>1, <2>2, <2>3, DecideShape DEF StartReading
<1>2. CASE ReadNextDatabase(p)
  <2>1. cat' = cat /\ changes' = changes
    BY <1>2 DEF ReadNextDatabase
  <2>2. CASE End(p, "failed")
    BY <1>0, <2>1, <2>2 DEF Stops
  <2>3. ASSUME NEW db, ReadOn(p, ReadDatabases(cat, op[p].st, {db}), op[p].left \ {db}), op[p].phase = "reading"
        PROVE  RunStep(p)
    <3>1. FreshSnapshot(p, ReadDatabases(cat, op[p].st, {db}))
      BY <2>3 DEF FreshSnapshot
    <3> QED
      BY <2>1, <2>3, <3>1, DecideShape
  <2> QED
    BY <1>2, <2>1, <2>2, <2>3 DEF ReadNextDatabase
<1>3. CASE Confirm(p)
  BY <1>0, <1>3 DEF Confirm, Stops, Starts
<1>4. CASE Execute(p)
  <2>1. PICK s \in op[p].plan :
          /\ NextStatement(p, s)
          /\ IF Refused(op[p].tx, s) THEN End(p, "failed") /\ UNCHANGED cat
             ELSE \/ /\ Atomic
                     /\ GoOn(p, op[p].plan \ {s}, Append(op[p].tx, s))
                     /\ UNCHANGED cat
                  \/ /\ ~Atomic
                     /\ cat' = Effect(cat, s)
                     /\ GoOn(p, op[p].plan \ {s}, <<>>)
    BY <1>4 DEF Execute
  <2>2. changes' = changes
    BY <1>4 DEF Execute
  <2>3. CASE Refused(op[p].tx, s)
    BY <1>0, <2>1, <2>2, <2>3 DEF Stops
  <2>4. CASE ~Refused(op[p].tx, s)
    <3>1. Permitted(View(op[p].tx), s)
      BY <2>4 DEF Refused
    <3>2. ~Atomic => Permitted(cat, s)
      BY <3>1, NothingSeen DEF TxAtomic
    <3>3. op[p].phase = "applying"
      BY <2>1 DEF NextStatement
    <3> QED
      BY <2>1, <2>2, <2>4, <3>1, <3>2, <3>3 DEF Sends, Lands, Done
  <2> QED
    BY <2>3, <2>4
<1>5. CASE Commit(p)
  <2>1. Atomic
    BY <1>5 DEF Commit, TxAtomic
  <2> QED
    BY <1>0, <1>5, <2>1 DEF Commit, Stops, Lands, Committed
<1>6. CASE Interrupt(p)
  BY <1>0, <1>6 DEF Interrupt, Stops
<1>7. CASE LoseAnswer(p)
  BY <1>0, <1>7 DEF LoseAnswer, Stops, Committed, Done
<1> QED
  BY <1>1, <1>2, <1>3, <1>4, <1>5, <1>6, <1>7 DEF Progress

----------------------------------------------------------------------------
(* The type invariant, and with it that the executing user stays.          *)

RunTyped(r) ==
  /\ r.phase \in Phases /\ r.allow \in BOOLEAN
  /\ r.phase \in {"planned", "applying"} \/ r.plan = {}
  /\ r.phase = "reading" \/ (r.st = NothingRead /\ r.left = {})
  /\ r.tx # <<>> => Atomic /\ r.phase = "applying"
  /\ IsCatalog(r.st)

RunsTyped == \A p \in Operators : RunTyped(op[p])

Counted ==
  /\ stale \subseteq Operators
  /\ changes \in Nat /\ faults \in Nat /\ changes + faults <= MaxDisturbances

TypeInv == IInv /\ Sound(cat) /\ RunsTyped /\ Counted

\* The run of p is now r, the others go on as they were.
LEMMA OneRun ==
  ASSUME IInv, RunsTyped, NEW p \in Operators, NEW r, op' = [op EXCEPT ![p] = r], RunTyped(r)
  PROVE  RunsTyped'
BY DEF IInv, RunsLawful, RunsTyped

LEMMA SnapshotTyped ==
  ASSUME IInv, RunsTyped, NEW p \in Operators, NEW st, FreshSnapshot(p, st)
  PROVE  IsCatalog(st)
<1>1. IsCatalog(cat) /\ IsCatalog(op[p].st)
  BY DEF IInv, RunsTyped, RunTyped
<1>2. CASE st = ReadCluster(cat, IAMPrincipals)
  BY <1>1, <1>2 DEF ReadCluster, IsCatalog, Fields
<1>3. ASSUME NEW db, st = ReadDatabases(cat, op[p].st, {db}) PROVE IsCatalog(st)
  BY <1>1, <1>3 DEF ReadDatabases, IsCatalog, Fields
<1> QED
  BY <1>2, <1>3 DEF FreshSnapshot

LEMMA NothingReadTyped == IsCatalog(NothingRead)
BY DEF NothingRead, IsCatalog, Fields

LEMMA RunTypedStep ==
  ASSUME IInv, RunsTyped, NEW p \in Operators, RunStep(p)
  PROVE  RunsTyped'
<1>1. ASSUME NEW phase \in Resting, End(p, phase) PROVE RunsTyped'
  <2> DEFINE r == [Idle EXCEPT !.phase = phase]
  <2>1. RunTyped(r)
    BY <1>1, NothingReadTyped DEF RunTyped, Idle, Resting, Phases
  <2> QED
    BY <1>1, <2>1, OneRun DEF End
<1>2. CASE Reads(p)
  <2>1. PICK st, left :
          /\ FreshSnapshot(p, st)
          /\ op' = [op EXCEPT ![p] = [Idle EXCEPT !.phase = "reading", !.st = st, !.left = left]]
    BY <1>2 DEF Reads
  <2> DEFINE r == [Idle EXCEPT !.phase = "reading", !.st = st, !.left = left]
  <2>2. RunTyped(r)
    BY <2>1, SnapshotTyped DEF RunTyped, Idle, Phases
  <2> QED
    BY <2>1, <2>2, OneRun
<1>3. CASE Plans(p)
  <2>1. PICK st, allow : allow \in AllowDestroy
          /\ op' = [op EXCEPT ![p] = [Idle EXCEPT !.phase = "planned", !.allow = allow, !.plan = Diff(st)]]
    BY <1>3 DEF Plans
  <2> DEFINE r == [Idle EXCEPT !.phase = "planned", !.allow = allow, !.plan = Diff(st)]
  <2>2. RunTyped(r)
    BY <2>1, OperatorsAssumption, NothingReadTyped DEF RunTyped, Idle, Phases
  <2> QED
    BY <2>1, <2>2, OneRun
<1>4. CASE Starts(p)
  <2> DEFINE r == [op[p] EXCEPT !.phase = "applying"]
  <2>1. op' = [op EXCEPT ![p] = r]
    BY <1>4 DEF Starts
  <2>2. op[p] = [f \in RunFields |-> op[p][f]] /\ RunTyped(op[p]) /\ op[p].phase = "planned"
    BY <1>4 DEF Starts, IInv, RunsLawful, RunLawful, RunsTyped
  <2>3. RunTyped(r)
    BY <2>2 DEF RunTyped, RunFields, Phases
  <2> QED
    BY <2>1, <2>3, OneRun
<1>5. ASSUME NEW rest, NEW tx, GoOn(p, rest, tx), op[p].phase = "applying", tx # <<>> => Atomic
      PROVE  RunsTyped'
  <2> DEFINE r == [op[p] EXCEPT !.plan = rest, !.tx = tx,
                                !.phase = IF rest = {} /\ tx = <<>> THEN "applied" ELSE "applying"]
  <2>1. op[p] = [f \in RunFields |-> op[p][f]] /\ RunTyped(op[p])
    BY DEF IInv, RunsLawful, RunLawful, RunsTyped
  <2>2. op' = [op EXCEPT ![p] = r]
    BY <1>5, <2>1 DEF GoOn, IInv, RunsLawful, RunFields
  <2>3. RunTyped(r)
    BY <1>5, <2>1 DEF RunTyped, RunFields, Phases
  <2> QED
    BY <2>2, <2>3, OneRun
<1>6. CASE Sends(p)
  BY <1>5, <1>6 DEF Sends, NextStatement
<1>7. CASE Lands(p)
  BY <1>5, <1>7 DEF Lands
<1> QED
  BY <1>1, <1>2, <1>3, <1>4, <1>6, <1>7 DEF RunStep, Stops

\* What a run does to the catalog, it does to a sound one.
LEMMA RunSound ==
  ASSUME IInv, Sound(cat), NEW p \in Operators, RunStep(p)
  PROVE  Sound(cat') /\ cat.roles \subseteq cat'.roles
<1>1. CASE cat' = cat
  BY <1>1 DEF Sound, IsCatalog, WellFormed
<1>2. CASE Committed(p)
  <2>1. PICK S : op[p].tx \in Seq(S) /\ \A t \in S : Lawful(t)
    BY DEF IInv, RunsLawful, RunLawful, TxLawful
  <2>2. Len(op[p].tx) \in 0 .. Len(op[p].tx)
    BY <2>1
  <2> QED
    BY <1>2, <2>1, <2>2, ReplaysSound DEF Committed, View
<1>3. ASSUME NEW s \in op[p].plan, Done(p, s) PROVE Sound(cat') /\ cat.roles \subseteq cat'.roles
  <2>1. Lawful(s)
    BY DEF IInv, RunsLawful, RunLawful
  <2> QED
    BY <1>3, <2>1, PermittedSound DEF Done
<1> QED
  BY <1>1, <1>2, <1>3 DEF RunStep, Stops, Reads, Plans, Starts, Sends, Lands

LEMMA CountedStep ==
  ASSUME Counted, Next
  PROVE  Counted'
<1> USE BoundAssumption DEF Counted
<1>1. CASE Others
  <2>1. changes' = changes + 1 /\ faults' = faults /\ stale' \subseteq stale \cup Operators /\ changes + faults < MaxDisturbances
    BY <1>1 DEF Others, Changed
  <2> QED
    BY <2>1
<1>2. ASSUME NEW p \in Operators, Progress(p) PROVE Counted'
  <2>1. changes' = changes /\ faults' = faults /\ stale' \subseteq stale \cup Operators
    BY <1>2 DEF Progress, StartReading, ReadNextDatabase, Confirm, Execute, Commit, Changed
  <2> QED
    BY <2>1
<1>3. ASSUME NEW p \in Operators, Interrupt(p) \/ LoseAnswer(p) PROVE Counted'
  <2>1. changes' = changes /\ faults' = faults + 1 /\ stale' \subseteq stale \cup Operators /\ changes + faults < MaxDisturbances
    BY <1>3 DEF Interrupt, LoseAnswer, Changed
  <2> QED
    BY <2>1
<1> QED
  BY <1>1, <1>2, <1>3 DEF Next

LEMMA TypeInit == Init => TypeInv
<1> SUFFICES ASSUME Init PROVE TypeInv
  OBVIOUS
<1>1. Sound(cat)
  BY CatalogsAssumption, MeAssumption DEF Init, Sound, IsCatalog, Fields, NothingRead
<1>2. RunsTyped
  BY NothingReadTyped DEF Init, RunsTyped, RunTyped, Idle, Phases
<1>3. Counted
  BY BoundAssumption DEF Init, Counted
<1> QED
  BY <1>1, <1>2, <1>3, IInit DEF TypeInv

LEMMA TypeStep == TypeInv /\ [Next]_vars => TypeInv'
<1> SUFFICES ASSUME TypeInv, [Next]_vars PROVE TypeInv'
  OBVIOUS
<1>1. IInv'
  BY IStep DEF TypeInv
<1>2. CASE UNCHANGED vars
  BY <1>1, <1>2 DEF vars, TypeInv, Sound, IsCatalog, WellFormed, RunsTyped, RunTyped, Counted
<1>3. CASE Next
  <2>1. Counted'
    BY <1>3, CountedStep DEF TypeInv
  <2>2. CASE Others
    <3>1. Sound(cat') /\ op' = op
      BY <2>2, OthersSound DEF TypeInv, Others
    <3> QED
      BY <1>1, <2>1, <3>1 DEF TypeInv, RunsTyped, RunTyped
  <2>3. ASSUME NEW p \in Operators, Progress(p) \/ Interrupt(p) \/ LoseAnswer(p) PROVE TypeInv'
    <3>1. TxAtomic
      BY DEF TypeInv, RunsTyped, RunTyped, TxAtomic
    <3>2. RunStep(p)
      BY <2>3, <3>1, RunShape
    <3> QED
      BY <1>1, <2>1, <3>2, RunTypedStep, RunSound DEF TypeInv
  <2> QED
    BY <1>3, <2>2, <2>3 DEF Next
<1> QED
  BY <1>2, <1>3

\* The catalog stays well formed under any plans, in whatever state they find
\* it, and under what others do: what no statement of a plan may break, the
\* cycle check of GRANT above all, the checks of Permitted are enough for.
THEOREM TypeCorrect == Spec => []TypeOK
<1>1. TypeInv => TypeOK
  BY DEF TypeInv, RunsTyped, RunTyped, Counted, Sound, TypeOK
<1> QED
  BY <1>1, TypeInit, TypeStep, PTL DEF Spec
=============================================================================
