---------------------------- MODULE OutcomeProof ----------------------------
(***************************************************************************)
(* Proofs about what the catalog becomes: when a declared creator adds a   *)
(* relation to a converged catalog it stays converged, and what the        *)
(* operator is shown before the question is what the plan does.            *)
(*                                                                         *)
(* The second goes by Outcome, which carries a plan out from its end. A    *)
(* plan is finite and no two of its statements have the same place, so     *)
(* there is an end; no statement gives what another takes, so it is known  *)
(* what has become of the catalog after any part of the plan (Told); and   *)
(* both what is shown and what is told are, entry by entry, what was there *)
(* without what is too much and with what is missing.                      *)
(***************************************************************************)
EXTENDS PlanProof, SequenceTheorems

\* A default privilege written out for relations that a declared creator may
\* add, where it is declared to, is one its schema-wide grants stand for.
CreatorsMatched ==
  \A n \in NewRelations : \A d \in Decl.defaults :
    /\ <<d[1], d[2], d[3], d[4]>> = <<n[2][1], n[2][3], n[1], n[2][2]>>
    /\ <<n[1], n[2][1], n[2][3]>> \in Decl.creates
    => <<d[1], d[2], d[4], d[5], d[6]>> \in Decl.wide

\* Only CreateRelation adds an object.
LEMMA WhoAdds ==
  ASSUME IInv, [Next]_vars, Objects(cat)' \ Objects(cat) # {}
  PROVE  \E n \in NewRelations : n[2] \notin Objects(cat) /\ cat' = Created(cat, n[1], n[2])
<1>1. CASE changes' = changes
  <2>1. cat'.owner = cat.owner
    BY <1>1, IStep DEF StepLawful, Rightful
  <2> QED
    BY <2>1 DEF Objects
<1>2. CASE Others
  <2> USE DEF IInv, IsCatalog, Fields, Objects
  <2>1. ~HandGrant /\ ~HandDefault /\ ~HandMember /\ ~CloseDatabase
    BY DEF HandGrant, HandDefault, HandMember, CloseDatabase
  <2>2. ~DropRelation
    <3>1. \A o : DOMAIN WithoutRelation(cat, o).owner \subseteq DOMAIN cat.owner
      BY DEF WithoutRelation
    <3> QED
      BY <3>1 DEF DropRelation
  <2>3. ~DropRole
    <3>1. \A r : WithoutRole(cat, r).owner = cat.owner
      BY DEF WithoutRole
    <3> QED
      BY <3>1 DEF DropRole
  <2>4. CreateRelation
    BY <1>2, <2>1, <2>2, <2>3 DEF Others
  <2> QED
    BY <2>4 DEF CreateRelation
<1>3. \A p \in Operators : Progress(p) \/ Interrupt(p) \/ LoseAnswer(p) => changes' = changes
  BY DEF Progress, StartReading, ReadNextDatabase, Confirm, Execute, Commit, Interrupt, LoseAnswer
<1> QED
  BY <1>1, <1>2, <1>3 DEF Next, vars

\* Nor does a relation that is added make anything disappear.
LEMMA FailsNoMoreGrown ==
  ASSUME NEW c, IsCatalog(c), NEW d, IsCatalog(d),
         Objects(c) \subseteq Objects(d), d.open = c.open, c.roles \subseteq d.roles, ~PlanFails(Snapshot(c))
  PROVE  ~PlanFails(Snapshot(d))
<1> DEFINE st == Snapshot(c)
           new == Snapshot(d)
<1>1. Reached(d) = Reached(c)
  BY DEF Reached, DatabasesToRead
<1>2. Seen(c) \subseteq Seen(d)
  BY <1>1 DEF Seen
<1>3. Objects(st) = Seen(c) /\ st.open = c.open /\ st.roles = c.roles
  BY SnapshotFields
<1>4. Objects(new) = Seen(d) /\ new.open = d.open /\ new.roles = d.roles
  BY SnapshotFields
<1> HIDE DEF st, new
<1>5. Objects(st) \subseteq Objects(new) /\ new.open = st.open /\ st.roles \subseteq new.roles
  BY <1>2, <1>3, <1>4
<1>6. ~PlanFails(st)
  BY DEF st
<1>7. ~MissingDatabase(new) /\ ~MissingGroup(new)
  BY <1>5, <1>6 DEF PlanFails, MissingDatabase, MissingGroup
<1>8. ~MissingSchema(new) /\ ~MissingRelation(new)
  BY <1>5, <1>6 DEF PlanFails, MissingSchema, MissingRelation
<1> QED
  BY <1>7, <1>8 DEF PlanFails, new

\* What the new relation n[2] of n[1] is born with, d being the catalog after.
LEMMA BornWith ==
  ASSUME NEW c, IsCatalog(c), NEW n, NEW d, d = Created(c, n[1], n[2]), n[2] \notin Objects(c)
  PROVE  /\ d = [f \in Fields |-> IF f = "owner" THEN d.owner ELSE IF f = "acl" THEN d.acl ELSE c[f]]
         /\ Objects(d) = Objects(c) \cup {n[2]}
         /\ d.owner[n[2]] = n[1] /\ \A o \in Objects(c) : d.owner[o] = c.owner[o]
         /\ d.acl = c.acl \cup {<<n[2], e[5], e[6]>> :
                       e \in {f \in c.dacl : <<f[1], f[2], f[3], f[4]>> = <<n[2][1], n[2][3], n[1], n[2][2]>>}}
<1>1. c = [f \in Fields |-> c[f]]
  BY DEF IsCatalog
<1>2. d = [c EXCEPT
     !.owner = [x \in Objects(c) \cup {n[2]} |-> IF x = n[2] THEN n[1] ELSE c.owner[x]],
     !.acl = c.acl \cup {<<n[2], e[5], e[6]>> :
                       e \in {f \in c.dacl : <<f[1], f[2], f[3], f[4]>> = <<n[2][1], n[2][3], n[1], n[2][2]>>}}]
  BY DEF Created
<1>3. DOMAIN c = Fields /\ {"owner", "acl"} \subseteq Fields
  BY <1>1 DEF Fields
<1> DEFINE own == [x \in Objects(c) \cup {n[2]} |-> IF x = n[2] THEN n[1] ELSE c.owner[x]]
           acl == c.acl \cup {<<n[2], e[5], e[6]>> :
                       e \in {f \in c.dacl : <<f[1], f[2], f[3], f[4]>> = <<n[2][1], n[2][3], n[1], n[2][2]>>}}
<1>4. d = [c EXCEPT !.owner = own, !.acl = acl]
  BY <1>2
<1>5. DOMAIN own = Objects(c) \cup {n[2]} /\ own[n[2]] = n[1] /\ \A o \in Objects(c) : own[o] = c.owner[o]
  OBVIOUS
<1> HIDE DEF own, acl
<1>6. d = [f \in Fields |-> IF f = "owner" THEN own ELSE IF f = "acl" THEN acl ELSE c[f]]
  BY <1>1, <1>3, <1>4
<1>7. d.owner = own /\ d.acl = acl
  BY <1>3, <1>6
<1> QED
  BY <1>5, <1>6, <1>7 DEF Objects, acl

\* What the relation is born with is what the planner would grant on it.
LEMMA GrownGrants ==
  ASSUME Suited, CreatorsMatched, NEW c, Sound(c), Tidy(c), Left(c, {}), NEW n \in NewRelations,
         n[2] \notin Objects(c), <<n[1], n[2][1], n[2][3]>> \in Decl.creates,
         NEW d, d = Created(c, n[1], n[2]), Sound(d), Tidy(d), ~PlanFails(Snapshot(d))
  PROVE  GrantsLeft(d, {})
<1> DEFINE o == n[2]
           born == {<<o, e[5], e[6]>> :
                      e \in {f \in c.dacl : <<f[1], f[2], f[3], f[4]>> = <<o[1], o[3], n[1], o[2]>>}}
<1>1. Objects(d) = Objects(c) \cup {o} /\ d.owner[o] = n[1] /\ (\A x \in Objects(c) : d.owner[x] = c.owner[x])
  BY BornWith DEF Sound
<1>2. d.acl = c.acl \cup born /\ d.open = c.open /\ d.dacl = c.dacl
  BY BornWith DEF Sound, Fields
<1>3. n = <<n[1], n[2]>> /\ o[2] \in RelationKinds
  BY ShapesAssumption
<1>4. Reached(d) = Reached(c)
  BY <1>2 DEF Reached, DatabasesToRead
<1>5. \A e : e[1] \in Objects(c) => (Counts(d, e) <=> Counts(c, e))
  BY <1>1, <1>4 DEF Counts, Seen
<1>6. \A e \in c.acl : e[1] \in Objects(c)
  BY DEF Sound, WellFormed
<1>7. Held(d) = {e \in d.acl : Counts(d, e)} /\ Held(c) = {e \in c.acl : Counts(c, e)}
      /\ HeldDefaults(c) = {e \in c.dacl : DefaultCounts(c, e)}
  BY HeldIs DEF Sound
<1>8. DesiredGrants(c) \subseteq DesiredGrants(d)
  BY <1>1 DEF DesiredGrants, Relations
<1>9. /\ DesiredGrants(c) \subseteq Held(c) /\ Held(c) \subseteq DesiredGrants(c)
      /\ DesiredDefaults \subseteq HeldDefaults(c) /\ HeldDefaults(c) \subseteq DesiredDefaults
  BY DEF Left, GrantsLeft, DefaultsLeft
<1>10. \A e \in DesiredGrants(d) : e \in DesiredGrants(c) \/
         \E w \in Decl.wide : w[1] = o[1] /\ w[2] = o[3] /\ w[3] = o[2] /\ e = <<o, w[4], w[5]>>
  BY <1>1 DEF DesiredGrants, Relations
<1>11. \A w \in Decl.wide : w[1] = o[1] /\ w[2] = o[3] /\ w[3] = o[2] => <<o, w[4], w[5]>> \in born
  <2> SUFFICES ASSUME NEW w \in Decl.wide, w[1] = o[1], w[2] = o[3], w[3] = o[2]
               PROVE  <<o, w[4], w[5]>> \in born
    OBVIOUS
  <2> DEFINE e == <<w[1], w[2], n[1], w[3], w[4], w[5]>>
             cr == <<n[1], o[1], o[3]>>
  <2>1. cr \in {x \in Decl.creates : <<x[2], x[3]>> = <<w[1], w[2]>>} /\ cr[1] = n[1]
    OBVIOUS
  <2>2. e \in Derived
    BY <2>1 DEF Derived
  <2>3. e \in c.dacl
    BY <1>7, <1>9, <2>2 DEF DesiredDefaults
  <2>4. <<e[1], e[2], e[3], e[4]>> = <<o[1], o[3], n[1], o[2]>> /\ e[5] = w[4] /\ e[6] = w[5]
    OBVIOUS
  <2> HIDE DEF e
  <2> QED
    BY <2>3, <2>4
<1>12. \A e \in born : e[2] \in Managed /\ Counts(d, e) => e \in DesiredGrants(d)
  <2> SUFFICES ASSUME NEW f \in c.dacl, <<f[1], f[2], f[3], f[4]>> = <<o[1], o[3], n[1], o[2]>>,
                      NEW e, e = <<o, f[5], f[6]>>, e[2] \in Managed, Counts(d, e)
               PROVE  e \in DesiredGrants(d)
    OBVIOUS
  <2>1. f[1] = o[1] /\ f[2] = o[3] /\ f[3] = n[1] /\ f[4] = o[2] /\ e[1] = o /\ e[2] = f[5]
    OBVIOUS
  <2>2. o[1] \notin Decl.unmanaged /\ o[1] \in Reached(c)
    BY <1>3, <1>4, <2>1 DEF Counts, Seen, RelationKinds, DatabaseKind, TableKind, SequenceKind
  <2>3. f[5] \in Managed /\ f[5] # Public
    BY <2>1, NamesAssumption
  <2>4. f \in DesiredDefaults
    BY <1>7, <1>9, <2>1, <2>2, <2>3 DEF DefaultCounts
  <2>5. \E w \in Decl.wide : w[1] = o[1] /\ w[2] = o[3] /\ w[3] = o[2] /\ w[4] = f[5] /\ w[5] = f[6]
    <3>1. CASE f \in Decl.defaults
      <4>1. <<f[1], f[2], f[4], f[5], f[6]>> \in Decl.wide
        BY <2>1, <3>1 DEF CreatorsMatched
      <4> DEFINE w == <<f[1], f[2], f[4], f[5], f[6]>>
      <4>2. w[1] = o[1] /\ w[2] = o[3] /\ w[3] = o[2] /\ w[4] = f[5] /\ w[5] = f[6]
        BY <2>1
      <4> QED
        BY <4>1, <4>2
    <3>2. CASE f \in Derived
      <4>1. PICK w \in Decl.wide : \E x \in {y \in Decl.creates : <<y[2], y[3]>> = <<w[1], w[2]>>} :
              f = <<w[1], w[2], x[1], w[3], w[4], w[5]>>
        BY <3>2 DEF Derived
      <4>2. f[1] = w[1] /\ f[2] = w[2] /\ f[4] = w[3] /\ f[5] = w[4] /\ f[6] = w[5]
        BY <4>1
      <4> QED
        BY <2>1, <4>2
    <3> QED
      BY <2>4, <3>1, <3>2 DEF DesiredDefaults
  <2>6. PICK w \in Decl.wide : w[1] = o[1] /\ w[2] = o[3] /\ w[3] = o[2] /\ w[4] = f[5] /\ w[5] = f[6]
    BY <2>5
  <2>7. o \in Relations(d, w[1], w[2], w[3])
    BY <1>1, <2>6 DEF Relations
  <2> QED
    BY <2>6, <2>7 DEF DesiredGrants
<1>13. \A e \in DesiredGrants(d) : Counts(d, e)
  BY WantedCounts DEF Sound
<1> HIDE DEF o, born
<1>14. \A e \in DesiredGrants(d) : e \in Held(d)
  BY <1>2, <1>7, <1>9, <1>10, <1>11, <1>13
<1>15. \A e \in Held(d) : e \in DesiredGrants(d)
  BY <1>2, <1>5, <1>6, <1>7, <1>8, <1>9, <1>12 DEF Counts
<1> QED
  BY <1>14, <1>15 DEF GrantsLeft

LEMMA GrownLeft ==
  ASSUME Suited, CreatorsMatched, NEW c, Left(c, {}), NEW n \in NewRelations,
         n[2] \notin Objects(c), <<n[1], n[2][1], n[2][3]>> \in Decl.creates,
         NEW d, d = Created(c, n[1], n[2]), Sound(d), Tidy(d)
  PROVE  Left(d, {})
<1>1. Sound(c) /\ Tidy(c) /\ ~PlanFails(Snapshot(c))
  BY DEF Left
<1>2. /\ d = [f \in Fields |-> IF f = "owner" THEN d.owner ELSE IF f = "acl" THEN d.acl ELSE c[f]]
      /\ Objects(d) = Objects(c) \cup {n[2]}
  BY <1>1, BornWith DEF Sound
<1>3. /\ d.roles = c.roles /\ d.login = c.login /\ d.super = c.super /\ d.member = c.member
      /\ d.inherit = c.inherit /\ d.iam = c.iam /\ d.open = c.open /\ d.dacl = c.dacl
  BY <1>2 DEF Fields
<1>4. ~PlanFails(Snapshot(d))
  BY <1>1, <1>2, <1>3, FailsNoMoreGrown DEF Sound
<1>5. GrantsLeft(d, {})
  BY <1>1, <1>4, GrownGrants
<1>6. RolesLeft(d, {}) /\ MembersLeft(d, {}) /\ IamLeft(d, {})
  BY <1>3 DEF Left, RolesLeft, MembersLeft, IamLeft
<1>7. BorrowsLeft(d, {})
  BY <1>3 DEF Left, BorrowsLeft
<1>8. HeldDefaults(d) = HeldDefaults(c)
  <2>1. Reached(d) = Reached(c)
    BY <1>3 DEF Reached, DatabasesToRead
  <2>2. \A e : DefaultCounts(d, e) <=> DefaultCounts(c, e)
    BY <2>1 DEF DefaultCounts
  <2> QED
    BY <1>1, <1>3, <2>2, HeldIs DEF Sound
<1>9. DefaultsLeft(d, {})
  BY <1>8 DEF Left, DefaultsLeft
<1> QED
  BY <1>4, <1>5, <1>6, <1>7, <1>9 DEF Left

\* creates_objects_in (expandCreators): what a declared creator adds where it is
\* declared to is born with what the next plan would have granted, whatever else
\* the server holds.  A default privilege written out for such a relation with
\* no grant on all of them would be revoked from it: CreatorsMatched.
THEOREM CreationAlwaysCovered ==
  ASSUME Suited, CreatorsMatched
  PROVE  Spec => CreationCovered
<1>1. ASSUME TidyInv, TidyInv', [Next]_vars, Objects(cat)' \ Objects(cat) # {}, Converged,
             \A o \in Objects(cat)' \ Objects(cat) : <<cat'.owner[o], o[1], o[3]>> \in Decl.creates
      PROVE  ConvergedAt(cat')
  <2>1. PICK n \in NewRelations : n[2] \notin Objects(cat) /\ cat' = Created(cat, n[1], n[2])
    BY <1>1, WhoAdds DEF TidyInv, TypeInv
  <2>2. Sound(cat) /\ Tidy(cat) /\ Sound(cat') /\ Tidy(cat')
    BY <1>1 DEF TidyInv, TypeInv
  <2>3. Left(cat, {})
    <3>1. ~PlanFails(Snapshot(cat)) /\ Diff(Snapshot(cat)) = {}
      BY <1>1 DEF Converged, ConvergedAt
    <3> QED
      BY <2>2, <3>1, LeftPlan
  <2>4. Objects(cat)' = Objects(cat) \cup {n[2]} /\ cat'.owner[n[2]] = n[1]
    BY <2>1, <2>2, BornWith DEF Sound, Objects
  <2>5. <<n[1], n[2][1], n[2][3]>> \in Decl.creates
    BY <1>1, <2>1, <2>4
  <2>6. Left(cat', {})
    BY <2>1, <2>2, <2>3, <2>5, GrownLeft
  <2> QED
    BY <2>6, NothingLeft
<1>2. TidyInv /\ [Next]_vars => TidyInv'
  BY TidyNext DEF Suited
<1>3. TidyInv /\ TidyInv' /\ [Next]_vars =>
        [(/\ Objects(cat)' \ Objects(cat) # {}
          /\ \A o \in Objects(cat)' \ Objects(cat) : <<cat'.owner[o], o[1], o[3]>> \in Decl.creates
          /\ Converged)
         => ConvergedAt(cat')]_vars
  BY <1>1
<1> QED
  BY <1>2, <1>3, TidyInit, PTL DEF Spec, CreationCovered

----------------------------------------------------------------------------
(* A plan is finite.                                                       *)

LEMMA ManagedNumbers ==
  /\ IsFiniteSet(Managed) /\ Managed \subseteq Nat
  /\ \A r \in Managed : Index(r) \in Nat /\ Decl.roles[Index(r)] = r
<1>1. PICK n \in Nat : DOMAIN Decl.roles = 1 .. n
  BY NumbersAssumption
<1>2. \A i \in DOMAIN Decl.roles : i \in Nat /\ Decl.roles[i] \in Nat
  BY NumbersAssumption
<1>3. \A r \in Managed : Index(r) \in DOMAIN Decl.roles /\ Decl.roles[Index(r)] = r
  BY DEF Managed, Index
<1>4. IsFiniteSet(1 .. n)
  BY FS_Interval
<1>5. IsFiniteSet(Managed)
  <2> DEFINE f == [i \in 1 .. n |-> Decl.roles[i]]
  <2>1. f = [i \in 1 .. n |-> f[i]] /\ \A r \in Managed : \E i \in 1 .. n : r = f[i]
    BY <1>1 DEF Managed
  <2> HIDE DEF f
  <2> QED
    BY <1>4, <2>1, FiniteImage
<1> QED
  BY <1>2, <1>3, <1>5 DEF Managed

LEMMA PossibleFinite == IsFiniteSet(Possible)
<1> DEFINE R == (Managed \cup Creators) \ {Me}
           f == [r \in R |-> <<Me, r>>]
<1>1. IsFiniteSet(R)
  BY ManagedNumbers, ForeseenFinite, FS_Union, FS_Difference
<1>2. f = [r \in R |-> f[r]] /\ \A m \in Own : \E r \in R : m = f[r]
  BY DEF Own
<1>3. IsFiniteSet(Own)
  <2> HIDE DEF f, R
  <2> QED
    BY <1>1, <1>2, FiniteImage
<1>4. Possible = (Decl.memberOf \cup HandMembers \cup UNION {c.member : c \in InitialCatalogs}) \cup Own
  BY DEF Possible, Standing
<1> QED
  BY <1>3, <1>4, FiniteAssumption, FS_Union

Places == {w[2] : w \in Ownable} \cup {g[1] : g \in Decl.grants}

LEMMA PlacesFinite == IsFiniteSet(Places)
<1> DEFINE Old == UNION {Objects(c) : c \in InitialCatalogs}
           f == [n \in NewRelations |-> n[2]]
           g == [e \in Decl.grants |-> e[1]]
           New == {n[2] : n \in NewRelations}
           Named == {e[1] : e \in Decl.grants}
<1>1. f = [n \in NewRelations |-> f[n]] /\ \A o \in New : \E n \in NewRelations : o = f[n]
  OBVIOUS
<1>2. g = [n \in Decl.grants |-> g[n]] /\ \A o \in Named : \E n \in Decl.grants : o = g[n]
  OBVIOUS
<1>3. Places \subseteq (Old \cup New) \cup Named
  <2> SUFFICES ASSUME NEW w \in Ownable PROVE w[2] \in Old \cup New
    BY DEF Places
  <2>1. CASE w \in NewRelations
    BY <2>1
  <2>2. ASSUME NEW c \in InitialCatalogs, NEW o \in Objects(c), w = <<c.owner[o], o>> PROVE w[2] \in Old
    BY <2>2
  <2> QED
    BY <2>1, <2>2 DEF Ownable
<1> HIDE DEF f, g, New, Named
<1>4. IsFiniteSet(New) /\ IsFiniteSet(Named) /\ IsFiniteSet(Old)
  BY <1>1, <1>2, FiniteAssumption, FiniteImage
<1> HIDE DEF Old
<1>5. IsFiniteSet((Old \cup New) \cup Named)
  BY <1>4, FS_Union
<1> QED
  BY <1>3, <1>5, FS_Subset

Mapped == Decl.iam \cup UNION {c.iam : c \in InitialCatalogs}

\* What is known of any catalog a run meets.
Known(c) == Sound(c) /\ Tidy(c) /\ c.member \subseteq Possible /\ c.iam \subseteq Mapped

GrantKeys(st) == {Key(e) : e \in DesiredGrants(st) \cup ActualGrants(st)}
WideKeys == {WideKey(w) : w \in Decl.wide}

\* The statements there may be for a key.
OfDefaultKey(st, k) == {AddOf(st, k), RemoveOf(st, k), BorrowOf(k), UndoOf(st, k)}

LEMMA PlanForms ==
  ASSUME NEW st, NEW s \in Diff(st)
  PROVE  \/ \E r \in Managed \ st.roles : s = CreateOf(r)
         \/ \E r \in Managed \cap st.roles : s = AlterOf(r)
         \/ \E m \in Decl.memberOf \ st.member : s = JoinOf(m)
         \/ \E m \in st.member \ Decl.memberOf : m[1] \in Managed /\ s = LeaveOf(m)
         \/ \E m \in Decl.iam \ st.iam : s = MapOf(m)
         \/ \E m \in st.iam \ Decl.iam : m[1] \in Managed /\ s = UnmapOf(m)
         \/ \E k \in WideKeys : s = WideOf(st, k)
         \/ \E k \in GrantKeys(st) : s \in {GrantOf(st, k), RevokeOf(st, k)}
         \/ \E k \in DefaultKeys(st) : s \in OfDefaultKey(st, k)
         \/ \E r \in Managed : s = ReleaseOf(st, r)
<1>1. CASE s \in CreateRoles(st)
  BY <1>1 DEF CreateRoles, CreateOf
<1>2. CASE s \in AlterRoles(st)
  BY <1>2 DEF AlterRoles, AlterOf
<1>3. CASE s \in Memberships(st)
  BY <1>3 DEF Memberships, JoinOf, LeaveOf
<1>4. CASE s \in IamStatements(st)
  BY <1>4 DEF IamStatements, MapOf, UnmapOf
<1>5. CASE s \in WideGrants(st)
  BY <1>5 DEF WideGrants, WideOf, WideKeys
<1>6. CASE s \in ObjectGrants(st)
  BY <1>6 DEF ObjectGrants, GrantOf, RevokeOf, GrantKeys
<1>7. CASE s \in DefaultPrivileges(st)
  <2>1. PICK k \in DefaultKeys(st) : s \in DefaultStatements(st, k)
    BY <1>7 DEF DefaultPrivileges
  <2>2. s \in OfDefaultKey(st, k)
    BY <2>1, KeyStatements DEF OfDefaultKey
  <2> QED
    BY <2>2
<1>8. CASE s \in ReleaseStaleBorrows(st)
  BY <1>8 DEF ReleaseStaleBorrows, StaleBorrows, ReleaseOf
<1> QED
  BY <1>1, <1>2, <1>3, <1>4, <1>5, <1>6, <1>7, <1>8 DEF Diff

LEMMA GrantKeysPlaced ==
  ASSUME NEW c, IsCatalog(c), Tidy(c), NEW k \in GrantKeys(Snapshot(c))
  PROVE  k[1] \in Places /\ k[2] \in Managed /\ k = <<k[1], k[2]>>
<1> DEFINE st == Snapshot(c)
<1>0. \A o \in Objects(c) : o \in Places
  <2> TAKE o \in Objects(c)
  <2>1. <<c.owner[o], o>> \in Ownable /\ <<c.owner[o], o>>[2] = o
    BY DEF Tidy
  <2> QED
    BY <2>1 DEF Places
<1>1. Objects(st) \subseteq Places
  BY <1>0, SnapshotFields DEF Seen
<1>2. \A e \in DesiredGrants(st) : e[1] \in Places /\ e[2] \in Managed
  <2>1. \A e \in Decl.grants : e[1] \in Places /\ e[2] \in Managed
    BY DeclAssumption DEF Places, ValidDecl
  <2>2. ASSUME NEW w \in Decl.wide, NEW o \in Relations(st, w[1], w[2], w[3])
        PROVE  <<o, w[4], w[5]>>[1] \in Places /\ <<o, w[4], w[5]>>[2] \in Managed
    BY <1>1, DeclAssumption DEF Relations, ValidDecl
  <2> QED
    BY <2>1, <2>2 DEF DesiredGrants
<1>3. \A e \in ActualGrants(st) : e[1] \in Places /\ e[2] \in Managed
  <2>1. \A e \in st.acl : e[1] \in Seen(c)
    BY SnapshotFields
  <2> QED
    BY <1>0, <2>1 DEF ActualGrants, Seen
<1> HIDE DEF st
<1>4. PICK e \in DesiredGrants(st) \cup ActualGrants(st) : k = <<e[1], e[2]>>
  BY DEF GrantKeys, Key, st
<1>5. k[1] = e[1] /\ k[2] = e[2]
  BY <1>4
<1> QED
  BY <1>2, <1>3, <1>4, <1>5

LEMMA FiniteImages ==
  ASSUME NEW S, IsFiniteSet(S), NEW f, f = [x \in S |-> f[x]], NEW g, g = [x \in S |-> g[x]],
         NEW T, \A y \in T : \E x \in S : y = f[x] \/ y = g[x]
  PROVE  IsFiniteSet(T)
<1> DEFINE T1 == {y \in T : \E x \in S : y = f[x]}
           T2 == {y \in T : \E x \in S : y = g[x]}
<1>1. T = T1 \cup T2
  OBVIOUS
<1>2. IsFiniteSet(T1)
  <2>1. \A y \in T1 : \E x \in S : y = f[x]
    OBVIOUS
  <2> HIDE DEF T1
  <2> QED
    BY <2>1, FiniteImage
<1>3. IsFiniteSet(T2)
  <2>1. \A y \in T2 : \E x \in S : y = g[x]
    OBVIOUS
  <2> HIDE DEF T2
  <2> QED
    BY <2>1, FiniteImage
<1> HIDE DEF T1, T2
<1> QED
  BY <1>1, <1>2, <1>3, FS_Union

LEMMA ClusterFinite ==
  ASSUME NEW c, Known(c)
  PROVE  LET st == Snapshot(c) IN
         IsFiniteSet(CreateRoles(st) \cup AlterRoles(st)) /\ IsFiniteSet(Memberships(st)) /\ IsFiniteSet(IamStatements(st))
<1> DEFINE st == Snapshot(c)
           Roles == CreateRoles(st) \cup AlterRoles(st)
           creates == [r \in Managed |-> CreateOf(r)]
           alters == [r \in Managed |-> AlterOf(r)]
           joins == [m \in Possible |-> JoinOf(m)]
           leaves == [m \in Possible |-> LeaveOf(m)]
           maps == [m \in Mapped |-> MapOf(m)]
           unmaps == [m \in Mapped |-> UnmapOf(m)]
<1>1. IsFiniteSet(Roles)
  <2>1. \A s \in Roles : \E r \in Managed : s = creates[r] \/ s = alters[r]
    BY DEF CreateRoles, AlterRoles, CreateOf, AlterOf
  <2>2. creates = [r \in Managed |-> creates[r]] /\ alters = [r \in Managed |-> alters[r]]
    OBVIOUS
  <2> HIDE DEF Roles, creates, alters
  <2> QED
    BY <2>1, <2>2, ManagedNumbers, FiniteImages
<1>2. IsFiniteSet(Memberships(st))
  <2>1. st.member \subseteq Possible /\ Decl.memberOf \subseteq Possible
    BY SnapshotFields DEF Known, Sound, Possible
  <2>2. \A s \in Memberships(st) : \E m \in Possible : s = joins[m] \/ s = leaves[m]
    BY <2>1 DEF Memberships, JoinOf, LeaveOf
  <2>3. joins = [m \in Possible |-> joins[m]] /\ leaves = [m \in Possible |-> leaves[m]]
    OBVIOUS
  <2> HIDE DEF st, joins, leaves
  <2> QED
    BY <2>2, <2>3, PossibleFinite, FiniteImages
<1>3. IsFiniteSet(IamStatements(st))
  <2>1. st.iam \subseteq Mapped /\ Decl.iam \subseteq Mapped /\ IsFiniteSet(Mapped)
    BY FiniteAssumption, SnapshotFields DEF Known, Sound, Mapped
  <2>2. \A s \in IamStatements(st) : \E m \in Mapped : s = maps[m] \/ s = unmaps[m]
    BY <2>1 DEF IamStatements, MapOf, UnmapOf
  <2>3. maps = [m \in Mapped |-> maps[m]] /\ unmaps = [m \in Mapped |-> unmaps[m]]
    OBVIOUS
  <2> HIDE DEF st, maps, unmaps
  <2> QED
    BY <2>1, <2>2, <2>3, FiniteImages
<1> QED
  BY <1>1, <1>2, <1>3

LEMMA GrantsFinite ==
  ASSUME NEW c, Known(c)
  PROVE  IsFiniteSet(WideGrants(Snapshot(c))) /\ IsFiniteSet(ObjectGrants(Snapshot(c)))
<1> DEFINE st == Snapshot(c)
           K == Places \X Managed
           wides == [w \in Decl.wide |-> WideOf(st, WideKey(w))]
           grants == [k \in K |-> GrantOf(st, k)]
           revokes == [k \in K |-> RevokeOf(st, k)]
<1>1. IsFiniteSet(WideGrants(st))
  <2>1. \A s \in WideGrants(st) : \E w \in Decl.wide : s = wides[w]
    BY DEF WideGrants, WideOf
  <2>2. wides = [w \in Decl.wide |-> wides[w]]
    OBVIOUS
  <2> HIDE DEF st, wides
  <2> QED
    BY <2>1, <2>2, FiniteAssumption, FiniteImage
<1>2. IsFiniteSet(ObjectGrants(st))
  <2>1. GrantKeys(st) \subseteq K
    BY GrantKeysPlaced DEF Known, Sound
  <2>2. \A s \in ObjectGrants(st) : \E k \in GrantKeys(st) : s = GrantOf(st, k) \/ s = RevokeOf(st, k)
    BY DEF ObjectGrants, GrantOf, RevokeOf, GrantKeys
  <2>3. \A s \in ObjectGrants(st) : \E k \in K : s = grants[k] \/ s = revokes[k]
    BY <2>1, <2>2
  <2>4. grants = [k \in K |-> grants[k]] /\ revokes = [k \in K |-> revokes[k]]
    OBVIOUS
  <2>5. IsFiniteSet(K)
    BY ManagedNumbers, PlacesFinite, FS_Product
  <2> HIDE DEF st, K, grants, revokes
  <2> QED
    BY <2>3, <2>4, <2>5, FiniteImages
<1> QED
  BY <1>1, <1>2

LEMMA DefaultStatementsFinite ==
  ASSUME NEW c, Known(c)
  PROVE  IsFiniteSet(DefaultPrivileges(Snapshot(c))) /\ IsFiniteSet(ReleaseStaleBorrows(Snapshot(c)))
<1> DEFINE st == Snapshot(c)
           adds == [k \in Foreseen |-> AddOf(st, k)]
           removes == [k \in Foreseen |-> RemoveOf(st, k)]
           borrows == [k \in Foreseen |-> BorrowOf(k)]
           undos == [k \in Foreseen |-> UndoOf(st, k)]
           releases == [r \in Managed |-> ReleaseOf(st, r)]
           Changes == {s \in DefaultPrivileges(st) : \E k \in Foreseen : s = adds[k] \/ s = removes[k]}
           Loans == {s \in DefaultPrivileges(st) : \E k \in Foreseen : s = borrows[k] \/ s = undos[k]}
<1>1. DefaultKeys(st) \subseteq Foreseen
  <2>1. st.dacl \subseteq c.dacl
    BY SnapshotFields DEF Known, Sound
  <2> QED
    BY <2>1, KeysForeseen DEF Known, Tidy
<1>2. \A s \in DefaultPrivileges(st) : \E k \in DefaultKeys(st) : s \in OfDefaultKey(st, k)
  BY KeyStatements DEF DefaultPrivileges, OfDefaultKey
<1>3. DefaultPrivileges(st) = Changes \cup Loans
  BY <1>1, <1>2 DEF OfDefaultKey
<1>4. /\ adds = [k \in Foreseen |-> adds[k]] /\ removes = [k \in Foreseen |-> removes[k]]
      /\ borrows = [k \in Foreseen |-> borrows[k]] /\ undos = [k \in Foreseen |-> undos[k]]
      /\ releases = [r \in Managed |-> releases[r]]
  OBVIOUS
<1>5. \A s \in ReleaseStaleBorrows(st) : \E r \in Managed : s = releases[r]
  BY DEF ReleaseStaleBorrows, StaleBorrows, ReleaseOf
<1> HIDE DEF st, adds, removes, borrows, undos, releases
<1>6. IsFiniteSet(Changes)
  <2>1. \A s \in Changes : \E k \in Foreseen : s = adds[k] \/ s = removes[k]
    OBVIOUS
  <2> HIDE DEF Changes
  <2> QED
    BY <1>4, <2>1, ForeseenFinite, FiniteImages
<1>7. IsFiniteSet(Loans)
  <2>1. \A s \in Loans : \E k \in Foreseen : s = borrows[k] \/ s = undos[k]
    OBVIOUS
  <2> HIDE DEF Loans
  <2> QED
    BY <1>4, <2>1, ForeseenFinite, FiniteImages
<1> HIDE DEF Changes, Loans
<1>8. IsFiniteSet(DefaultPrivileges(st))
  BY <1>3, <1>6, <1>7, FS_Union
<1>9. IsFiniteSet(ReleaseStaleBorrows(st))
  BY <1>4, <1>5, ManagedNumbers, FiniteImage
<1> QED
  BY <1>8, <1>9 DEF st

LEMMA PlanFinite ==
  ASSUME NEW c, Known(c)
  PROVE  IsFiniteSet(Diff(Snapshot(c)))
<1> DEFINE st == Snapshot(c)
           A == CreateRoles(st) \cup AlterRoles(st)
           B == Memberships(st)
           C == IamStatements(st)
           D == WideGrants(st)
           E == ObjectGrants(st)
           F == DefaultPrivileges(st)
           G == ReleaseStaleBorrows(st)
<1>1. Diff(st) = A \cup (B \cup (C \cup (D \cup (E \cup (F \cup G)))))
  BY DEF Diff
<1>2. /\ IsFiniteSet(A) /\ IsFiniteSet(B) /\ IsFiniteSet(C) /\ IsFiniteSet(D)
      /\ IsFiniteSet(E) /\ IsFiniteSet(F) /\ IsFiniteSet(G)
  BY ClusterFinite, GrantsFinite, DefaultStatementsFinite
<1> HIDE DEF st, A, B, C, D, E, F, G
<1>3. IsFiniteSet(D \cup (E \cup (F \cup G)))
  BY <1>2, FS_Union
<1>4. IsFiniteSet(A \cup (B \cup (C \cup (D \cup (E \cup (F \cup G))))))
  BY <1>2, <1>3, FS_Union
<1> QED
  BY <1>1, <1>4 DEF st

----------------------------------------------------------------------------
(* No two statements of a plan have the same place in it.                  *)

\* s has a place in the order of a plan.
Placed(s) == s.db \in Nat /\ DOMAIN s.pos = 1 .. 6 /\ \A i \in 1 .. 6 : s.pos[i] \in Int

SamePlace(s, t) == s.db = t.db /\ \A i \in 1 .. 6 : s.pos[i] = t.pos[i]

LEMMA PrecedesThrough ==
  ASSUME NEW s, NEW t, NEW u, Placed(s), Placed(t), Placed(u), Precedes(s, t), Precedes(t, u)
  PROVE  Precedes(s, u)
<1>1. CASE s.db < t.db \/ t.db < u.db
  <2>1. s.db < u.db
    BY <1>1 DEF Precedes, Placed
  <2> QED
    BY <2>1 DEF Precedes
<1>2. ASSUME NEW i \in 1 .. 6, s.pos[i] < t.pos[i], \A j \in 1 .. i - 1 : s.pos[j] = t.pos[j],
             NEW k \in 1 .. 6, t.pos[k] < u.pos[k], \A j \in 1 .. k - 1 : t.pos[j] = u.pos[j],
             s.db = u.db
      PROVE  Precedes(s, u)
  <2> DEFINE l == IF i < k THEN i ELSE k
  <2>1. l \in 1 .. 6 /\ \A j \in 1 .. l - 1 : j \in 1 .. i - 1 /\ j \in 1 .. k - 1
    OBVIOUS
  <2>2. \A j \in 1 .. l - 1 : s.pos[j] = u.pos[j]
    BY <1>2, <2>1
  <2>3. s.pos[l] < u.pos[l]
    <3>1. CASE i < k
      <4>1. l = i /\ i \in 1 .. k - 1
        BY <3>1
      <4> QED
        BY <1>2, <4>1
    <3>2. CASE k < i
      <4>1. l = k /\ k \in 1 .. i - 1
        BY <3>2
      <4> QED
        BY <1>2, <4>1
    <3>3. CASE k = i
      <4>1. l = k /\ {s.pos[i], t.pos[i], u.pos[i]} \subseteq Int
        BY <3>3 DEF Placed
      <4> QED
        BY <1>2, <3>3, <4>1
    <3> QED
      BY <3>1, <3>2, <3>3
  <2> HIDE DEF l
  <2> QED
    BY <1>2, <2>1, <2>2, <2>3 DEF Precedes, Placed
<1> QED
  BY <1>1, <1>2 DEF Precedes, Placed

LEMMA PrecedesEither ==
  ASSUME NEW s, NEW t, Placed(s), Placed(t), ~SamePlace(s, t)
  PROVE  Precedes(s, t) \/ Precedes(t, s)
<1>1. CASE s.db # t.db
  BY <1>1 DEF Precedes, Placed
<1>2. ASSUME s.db = t.db, NEW i \in 1 .. 6, s.pos[i] # t.pos[i], \A j \in 1 .. i - 1 : s.pos[j] = t.pos[j]
      PROVE  Precedes(s, t) \/ Precedes(t, s)
  <2>1. s.pos[i] < t.pos[i] \/ t.pos[i] < s.pos[i]
    BY <1>2 DEF Placed
  <2> QED
    BY <1>2, <2>1 DEF Precedes, Placed
<1>3. ASSUME s.db = t.db
      PROVE  \E i \in 1 .. 6 : s.pos[i] # t.pos[i] /\ \A j \in 1 .. i - 1 : s.pos[j] = t.pos[j]
  <2> DEFINE Same(n) == \A j \in 1 .. n : s.pos[j] = t.pos[j]
  <2>1. Same(0)
    OBVIOUS
  <2>2. ~Same(6)
    BY <1>3 DEF SamePlace
  <2>3. \A n \in 0 .. 5 : Same(n) /\ s.pos[n + 1] = t.pos[n + 1] => Same(n + 1)
    OBVIOUS
  <2>4. \E n \in 0 .. 5 : Same(n) /\ s.pos[n + 1] # t.pos[n + 1]
    <3> HIDE DEF Same
    <3> SUFFICES ASSUME \A n \in 0 .. 5 : Same(n) => s.pos[n + 1] = t.pos[n + 1] PROVE FALSE
      OBVIOUS
    <3>1. \A n \in 0 .. 5 : Same(n) => Same(n + 1)
      BY <2>3
    <3>2. Same(1) /\ Same(2) /\ Same(3)
      BY <2>1, <3>1
    <3>3. Same(4) /\ Same(5) /\ Same(6)
      BY <3>1, <3>2
    <3> QED
      BY <2>2, <3>3
  <2>5. PICK n \in 0 .. 5 : Same(n) /\ s.pos[n + 1] # t.pos[n + 1]
    BY <2>4
  <2>6. n + 1 \in 1 .. 6 /\ (n + 1) - 1 = n
    OBVIOUS
  <2> QED
    BY <2>5, <2>6
<1> QED
  BY <1>1, <1>2, <1>3

\* x comes last in S.
IsLast(S, x) == x \in S /\ \A t \in S \ {x} : Precedes(t, x)

LEMMA LastOf ==
  ASSUME NEW S, IsFiniteSet(S), S # {}, \A s \in S : Placed(s),
         \A s, t \in S : SamePlace(s, t) => s = t
  PROVE  \E x : IsLast(S, x)
<1> DEFINE P == {n \in Nat : \A T \in SUBSET S : Cardinality(T) = n + 1 => \E x : IsLast(T, x)}
<1>1. \A T \in SUBSET S : IsFiniteSet(T)
  BY FS_Subset
<1>2. 0 \in P
  <2>1. ASSUME NEW T \in SUBSET S, Cardinality(T) = 1 PROVE \E x : IsLast(T, x)
    <3>1. PICK x : T = {x}
      BY <1>1, <2>1, FS_Singleton
    <3> QED
      BY <3>1 DEF IsLast
  <2> QED
    BY <2>1
<1>3. ASSUME NEW n \in P PROVE n + 1 \in P
  <2>1. n \in Nat /\ \A T \in SUBSET S : Cardinality(T) = n + 1 => \E x : IsLast(T, x)
    OBVIOUS
  <2>2. ASSUME NEW T \in SUBSET S, Cardinality(T) = n + 2 PROVE \E x : IsLast(T, x)
    <3>1. PICK x \in T : TRUE
      BY <1>1, <2>1, <2>2, FS_EmptySet
    <3>2. Cardinality(T \ {x}) = n + 1 /\ T \ {x} \in SUBSET S
      <4>1. IsFiniteSet(T)
        BY <1>1
      <4>2. Cardinality(T \ {x}) = Cardinality(T) - 1
        BY <3>1, <4>1, FS_RemoveElement
      <4> QED
        BY <2>1, <2>2, <4>2
    <3>3. PICK y : IsLast(T \ {x}, y)
      BY <2>1, <3>2
    <3>4. y \in T /\ y # x /\ {x, y} \subseteq S
      BY <3>1, <3>3 DEF IsLast
    <3>5. CASE Precedes(x, y)
      BY <3>3, <3>4, <3>5 DEF IsLast
    <3>6. CASE Precedes(y, x)
      <4>1. ASSUME NEW t \in T \ {x} PROVE Precedes(t, x)
        <5>1. t = y \/ Precedes(t, y)
          BY <3>3, <4>1 DEF IsLast
        <5> QED
          BY <3>4, <3>6, <4>1, <5>1, PrecedesThrough
      <4> QED
        BY <3>1, <4>1 DEF IsLast
    <3> QED
      BY <3>4, <3>5, <3>6, PrecedesEither
  <2> QED
    BY <2>1, <2>2
<1> HIDE DEF P
<1>4. P = Nat
  BY <1>2, <1>3, NatInductionOnSets DEF P
<1>5. Cardinality(S) \in Nat /\ Cardinality(S) # 0
  BY FS_CardinalityType, FS_EmptySet
<1>6. Cardinality(S) - 1 \in P /\ (Cardinality(S) - 1) + 1 = Cardinality(S)
  BY <1>4, <1>5
<1> QED
  BY <1>6 DEF P

LEMMA PlaceShapes ==
  ASSUME NEW o \in Places
  PROVE  /\ o = <<o[1], o[2], o[3], o[4]>>
         /\ {o[1], o[3], o[4]} \subseteq Nat /\ o[2] \in {DatabaseKind, SchemaKind, TableKind, SequenceKind}
<1> DEFINE All == {g[1] : g \in Decl.grants} \cup {n[2] : n \in NewRelations}
                    \cup UNION {Objects(c) : c \in InitialCatalogs}
<1>1. o \in All
  <2>1. CASE \E g \in Decl.grants : o = g[1]
    BY <2>1
  <2>2. ASSUME NEW n \in NewRelations, o = n[2] PROVE o \in All
    BY <2>2
  <2>3. ASSUME NEW c \in InitialCatalogs, NEW x \in Objects(c), o = <<c.owner[x], x>>[2] PROVE o \in All
    BY <2>3
  <2> QED
    BY <2>1, <2>2, <2>3 DEF Places, Ownable
<1>2. /\ o = <<o[1], o[2], o[3], o[4]>>
      /\ o[2] \in RelationKinds \/ o \in {DatabaseObject(o[1]), SchemaObject(o[1], o[3])}
      /\ {o[1], o[3], o[4]} \subseteq Nat
  BY <1>1, ShapesAssumption, NumbersAssumption
<1>3. DatabaseObject(o[1])[2] = DatabaseKind /\ SchemaObject(o[1], o[3])[2] = SchemaKind
  BY DEF DatabaseObject, SchemaObject
<1> QED
  BY <1>2, <1>3 DEF RelationKinds

LEMMA PossibleShapes ==
  ASSUME NEW m \in Possible, m[1] # Me
  PROVE  m[2] \in Nat
<1>1. m \notin Own
  BY DEF Own
<1> QED
  BY <1>1, NumbersAssumption DEF Possible, Standing

\* A position of six numbers is one, whatever they are.
LEMMA SixPlaced ==
  ASSUME NEW s, s.db \in Nat, NEW x1, NEW x2, NEW x3, NEW x4, NEW x5, NEW x6,
         s.pos = <<x1, x2, x3, x4, x5, x6>>
  PROVE  /\ s.pos[1] = x1 /\ s.pos[2] = x2 /\ s.pos[3] = x3
         /\ s.pos[4] = x4 /\ s.pos[5] = x5 /\ s.pos[6] = x6
         /\ {x1, x2, x3, x4, x5, x6} \subseteq Int => Placed(s)
<1>1. /\ s.pos[1] = x1 /\ s.pos[2] = x2 /\ s.pos[3] = x3
      /\ s.pos[4] = x4 /\ s.pos[5] = x5 /\ s.pos[6] = x6
  BY SixPlaces
<1>2. DOMAIN s.pos = 1 .. 6
  BY SixExactly
<1>3. \A i \in 1 .. 6 : i \in {1, 2, 3, 4, 5, 6}
  OBVIOUS
<1>4. {x1, x2, x3, x4, x5, x6} \subseteq Int => \A i \in 1 .. 6 : s.pos[i] \in Int
  BY <1>1, <1>3
<1> QED
  BY <1>1, <1>2, <1>4 DEF Placed

LEMMA RolePlaces ==
  ASSUME NEW r \in Managed, NEW s \in {CreateOf(r), AlterOf(r)}
  PROVE  Placed(s) /\ s.pos[1] = 1 /\ s.pos[2] = Index(r)
<1>1. CreateOf(r).db = 0 /\ CreateOf(r).pos = <<1, Index(r), 0, 0, 0, 0>>
  BY RoleStatements
<1>2. AlterOf(r).db = 0 /\ AlterOf(r).pos = <<1, Index(r), 0, 0, 0, 0>>
  BY DEF AlterOf, Statement
<1>3. s.db = 0 /\ s.pos = <<1, Index(r), 0, 0, 0, 0>>
  BY <1>1, <1>2
<1> QED
  BY <1>3, ManagedNumbers, SixPlaced

LEMMA PairPlaces ==
  ASSUME NEW m, m[1] \in Managed, m[2] \in Nat
  PROVE  /\ \A s \in {JoinOf(m), LeaveOf(m), MapOf(m), UnmapOf(m)} :
              /\ Placed(s) /\ s.pos[2] = Index(m[1]) /\ s.pos[4] = m[2]
              /\ s.pos[1] = IF s \in {JoinOf(m), LeaveOf(m)} THEN 2 ELSE 3
         /\ JoinOf(m).pos[3] = 0 /\ LeaveOf(m).pos[3] = 1 /\ MapOf(m).pos[3] = 0 /\ UnmapOf(m).pos[3] = 1
<1> DEFINE A == JoinOf(m)
           B == LeaveOf(m)
           C == MapOf(m)
           D == UnmapOf(m)
<1>1. A.db = 0 /\ A.pos = <<2, Index(m[1]), 0, m[2], 0, 0>>
  BY DEF JoinOf, Statement
<1>2. B.db = 0 /\ B.pos = <<2, Index(m[1]), 1, m[2], 0, 0>>
  BY DEF LeaveOf, Statement
<1>3. C.db = 0 /\ C.pos = <<3, Index(m[1]), 0, m[2], 0, 0>>
  BY DEF MapOf, Statement
<1>4. D.db = 0 /\ D.pos = <<3, Index(m[1]), 1, m[2], 0, 0>>
  BY DEF UnmapOf, Statement
<1> HIDE DEF A, B, C, D
<1>5. Index(m[1]) \in Nat
  BY ManagedNumbers
<1>6. Placed(A) /\ A.pos[1] = 2 /\ A.pos[2] = Index(m[1]) /\ A.pos[3] = 0 /\ A.pos[4] = m[2]
  BY <1>1, <1>5, SixPlaced
<1>7. Placed(B) /\ B.pos[1] = 2 /\ B.pos[2] = Index(m[1]) /\ B.pos[3] = 1 /\ B.pos[4] = m[2]
  BY <1>2, <1>5, SixPlaced
<1>8. Placed(C) /\ C.pos[1] = 3 /\ C.pos[2] = Index(m[1]) /\ C.pos[3] = 0 /\ C.pos[4] = m[2]
  BY <1>3, <1>5, SixPlaced
<1>9. Placed(D) /\ D.pos[1] = 3 /\ D.pos[2] = Index(m[1]) /\ D.pos[3] = 1 /\ D.pos[4] = m[2]
  BY <1>4, <1>5, SixPlaced
<1>10. C \notin {A, B} /\ D \notin {A, B}
  BY <1>6, <1>7, <1>8, <1>9
<1> QED
  BY <1>6, <1>7, <1>8, <1>9, <1>10 DEF A, B, C, D

LEMMA WidePlaces ==
  ASSUME NEW st, NEW w \in Decl.wide, NEW s, s = WideOf(st, WideKey(w))
  PROVE  /\ Placed(s) /\ s.pos[1] = 4 /\ s.pos[2] = 2 /\ s.db = w[1] /\ s.pos[3] = w[2]
         /\ s.pos[4] = SequenceKind - w[3] /\ w[3] \in Int /\ s.pos[5] = w[4]
<1> DEFINE k == WideKey(w)
<1>1. k[1] = w[1] /\ k[2] = w[2] /\ k[3] = w[3] /\ k[4] = w[4]
  BY DEF WideKey
<1>2. {w[1], w[2], w[3], w[4]} \subseteq Nat
  BY NamesAssumption
<1> HIDE DEF k
<1>3. s.db = k[1] /\ s.pos = <<4, 2, k[2], SequenceKind - k[3], k[4], 0>>
  BY GrantStatements DEF k
<1>4. SequenceKind - k[3] \in Int
  BY <1>1, <1>2 DEF SequenceKind
<1>5. k[2] \in Int /\ k[4] \in Int
  BY <1>1, <1>2
<1>6. Placed(s) /\ s.pos[1] = 4 /\ s.pos[2] = 2 /\ s.pos[3] = k[2] /\ s.pos[4] = SequenceKind - k[3] /\ s.pos[5] = k[4]
  BY <1>1, <1>2, <1>3, <1>4, <1>5, SixPlaced
<1> QED
  BY <1>1, <1>2, <1>3, <1>6

LEMMA ObjectPlaces ==
  ASSUME NEW st, NEW k, k[1] \in Places, k[2] \in Managed, NEW s \in {GrantOf(st, k), RevokeOf(st, k)}
  PROVE  /\ Placed(s) /\ s.pos[1] = 4 /\ s.db = k[1][1] /\ s.pos[2] = k[1][2] /\ s.pos[2] # 2
         /\ s.pos[3] = k[1][3] /\ s.pos[4] = k[1][4] /\ s.pos[5] = k[2]
         /\ s = IF s.pos[6] = 0 THEN GrantOf(st, k) ELSE RevokeOf(st, k)
<1>1. /\ {k[1][1], k[1][2], k[1][3], k[1][4]} \subseteq Nat /\ k[2] \in Nat /\ k[1][2] # 2
  BY PlaceShapes, ManagedNumbers DEF DatabaseKind, SchemaKind, TableKind, SequenceKind
<1>2. ASSUME NEW n \in {0, 1}, s.db = k[1][1], s.pos = <<4, k[1][2], k[1][3], k[1][4], k[2], n>>
      PROVE  /\ Placed(s) /\ s.pos[1] = 4 /\ s.pos[2] = k[1][2] /\ s.pos[2] # 2
             /\ s.pos[3] = k[1][3] /\ s.pos[4] = k[1][4] /\ s.pos[5] = k[2] /\ s.pos[6] = n
  <2>1. {4, k[1][2], k[1][3], k[1][4], k[2], n} \subseteq Int /\ s.db \in Nat
    BY <1>1, <1>2
  <2> QED
    BY <1>1, <1>2, <2>1, SixPlaced
<1>3. CASE s = GrantOf(st, k)
  <2>1. s.db = k[1][1] /\ s.pos = <<4, k[1][2], k[1][3], k[1][4], k[2], 0>>
    BY <1>3, GrantStatements
  <2> QED
    BY <1>2, <1>3, <2>1
<1>4. CASE s = RevokeOf(st, k)
  <2>1. s.db = k[1][1] /\ s.pos = <<4, k[1][2], k[1][3], k[1][4], k[2], 1>>
    BY <1>4, GrantStatements
  <2>2. s.pos[6] = 1
    BY <1>2, <2>1
  <2> QED
    BY <1>2, <1>4, <2>1, <2>2
<1> QED
  BY <1>3, <1>4

LEMMA KeyPlaces ==
  ASSUME NEW st, NEW k, {k[1], k[2], k[3], k[4], k[5]} \subseteq Nat, NEW s \in OfDefaultKey(st, k)
  PROVE  /\ Placed(s) /\ s.pos[1] = 5 /\ s.db = k[1] /\ s.pos[2] = k[2] /\ s.pos[3] = k[3]
         /\ s.pos[4] = SequenceKind - k[4] /\ s.pos[5] = k[5]
         /\ \/ s.pos[6] = 0 /\ s = BorrowOf(k)
            \/ s.pos[6] = 1 /\ s = AddOf(st, k)
            \/ s.pos[6] = 2 /\ s = RemoveOf(st, k)
            \/ s.pos[6] = 3 /\ s = UndoOf(st, k)
<1>1. \/ s.pos = Step(k, 0) /\ s = BorrowOf(k) /\ s.db = k[1]
      \/ s.pos = Step(k, 1) /\ s = AddOf(st, k) /\ s.db = k[1]
      \/ s.pos = Step(k, 2) /\ s = RemoveOf(st, k) /\ s.db = k[1]
      \/ s.pos = Step(k, 3) /\ s = UndoOf(st, k) /\ s.db = k[1]
  <2>1. CASE s = BorrowOf(k)
    BY <2>1, BorrowFields
  <2>2. CASE s = AddOf(st, k)
    BY <2>2, ChangeFields
  <2>3. CASE s = RemoveOf(st, k)
    BY <2>3, ChangeFields
  <2>4. CASE s = UndoOf(st, k)
    BY <2>4, BorrowFields
  <2> QED
    BY <2>1, <2>2, <2>3, <2>4 DEF OfDefaultKey
<1>2. s.db = k[1]
  BY <1>1
<1>3. SequenceKind - k[4] \in Int
  BY DEF SequenceKind
<1>4. ASSUME NEW n \in 0 .. 3, s.pos = Step(k, n)
      PROVE  /\ Placed(s) /\ s.pos[1] = 5 /\ s.pos[2] = k[2] /\ s.pos[3] = k[3]
             /\ s.pos[4] = SequenceKind - k[4] /\ s.pos[5] = k[5] /\ s.pos[6] = n
  <2>1. s.pos = <<5, k[2], k[3], SequenceKind - k[4], k[5], n>>
    BY <1>4 DEF Step
  <2>2. {5, k[2], k[3], SequenceKind - k[4], k[5], n} \subseteq Int /\ s.db \in Nat
    BY <1>2, <1>3
  <2> QED
    BY <2>1, <2>2, SixPlaced
<1> QED
  BY <1>1, <1>2, <1>4

LEMMA ReleasePlaces ==
  ASSUME NEW c, Sound(c), Tidy(c), NEW r \in Managed, NEW s, s = ReleaseOf(Snapshot(c), r)
  PROVE  Placed(s) /\ s.pos[1] = 6 /\ s.pos[2] = r
<1> DEFINE st == Snapshot(c)
           S == {0} \cup KeyDatabases(st, r)
<1>1. st.dacl \subseteq c.dacl
  BY SnapshotFields DEF Sound
<1>2. \A j \in DefaultKeys(st) : j \in Foreseen /\ j[1] \in Nat
  BY <1>1, KeyNumbers
<1>3. PICK n \in Nat : \A j \in Foreseen : j[1] <= n
  BY ForeseenBounded
<1>4. KeyDatabases(st, r) = {j[1] : j \in {l \in DefaultKeys(st) : l[3] = r}}
  BY DEF KeyDatabases
<1> HIDE DEF st
<1>5. S \subseteq Nat /\ (\A m \in S : m <= n) /\ S # {}
  BY <1>2, <1>3, <1>4 DEF st
<1> HIDE DEF S
<1>6. Max(S) \in Nat
  BY <1>5, GreatestOf
<1>7. s.db = Max(S) /\ s.pos = <<6, r, 0, 0, 0, 0>>
  BY ReleaseFields DEF S, st
<1>8. s.db \in Nat /\ {6, r, 0} \subseteq Int
  BY <1>6, <1>7, ManagedNumbers
<1> QED
  BY <1>7, <1>8, SixPlaced

\* Where the statements of a plan are, and what is there.
RoleAt(st, s) ==
  s.pos[1] = 1 /\ \E r \in Managed : s.pos[2] = Index(r) /\ s = IF r \in st.roles THEN AlterOf(r) ELSE CreateOf(r)
PairAt(s) ==
  \E m : /\ m = <<m[1], m[2]>> /\ m[1] \in Managed /\ s.pos[2] = Index(m[1]) /\ s.pos[4] = m[2]
         /\ \/ s.pos[1] = 2 /\ s.pos[3] = 0 /\ s = JoinOf(m)
            \/ s.pos[1] = 2 /\ s.pos[3] = 1 /\ s = LeaveOf(m)
            \/ s.pos[1] = 3 /\ s.pos[3] = 0 /\ s = MapOf(m)
            \/ s.pos[1] = 3 /\ s.pos[3] = 1 /\ s = UnmapOf(m)
WideAt(st, s) ==
  /\ s.pos[1] = 4 /\ s.pos[2] = 2
  /\ \E w \in Decl.wide :
       /\ s.db = w[1] /\ s.pos[3] = w[2] /\ s.pos[4] = SequenceKind - w[3] /\ w[3] \in Int /\ s.pos[5] = w[4]
       /\ s = WideOf(st, WideKey(w))
ObjectAt(st, s) ==
  /\ s.pos[1] = 4 /\ s.pos[2] # 2
  /\ \E k : /\ k = <<k[1], k[2]>> /\ k[1] = <<k[1][1], k[1][2], k[1][3], k[1][4]>>
            /\ s.db = k[1][1] /\ s.pos[2] = k[1][2] /\ s.pos[3] = k[1][3] /\ s.pos[4] = k[1][4] /\ s.pos[5] = k[2]
            /\ s = IF s.pos[6] = 0 THEN GrantOf(st, k) ELSE RevokeOf(st, k)
KeyAt(st, s) ==
  /\ s.pos[1] = 5
  /\ \E k : /\ k = <<k[1], k[2], k[3], k[4], k[5]>> /\ k[4] \in Int
            /\ s.db = k[1] /\ s.pos[2] = k[2] /\ s.pos[3] = k[3] /\ s.pos[4] = SequenceKind - k[4] /\ s.pos[5] = k[5]
            /\ \/ s.pos[6] = 0 /\ s = BorrowOf(k)
               \/ s.pos[6] = 1 /\ s = AddOf(st, k)
               \/ s.pos[6] = 2 /\ s = RemoveOf(st, k)
               \/ s.pos[6] = 3 /\ s = UndoOf(st, k)
ReleaseAt(st, s) == s.pos[1] = 6 /\ \E r \in Managed : s.pos[2] = r /\ s = ReleaseOf(st, r)

LEMMA DiffPlaced ==
  ASSUME Me \notin Managed, NEW c, Known(c), NEW s \in Diff(Snapshot(c))
  PROVE  LET st == Snapshot(c) IN
         /\ Placed(s)
         /\ RoleAt(st, s) \/ PairAt(s) \/ WideAt(st, s) \/ ObjectAt(st, s) \/ KeyAt(st, s) \/ ReleaseAt(st, s)
<1> DEFINE st == Snapshot(c)
           Goal == /\ Placed(s)
                   /\ RoleAt(st, s) \/ PairAt(s) \/ WideAt(st, s) \/ ObjectAt(st, s) \/ KeyAt(st, s) \/ ReleaseAt(st, s)
<1>0. st.member = c.member /\ st.iam \subseteq c.iam /\ st.dacl \subseteq c.dacl
  BY SnapshotFields DEF Known, Sound
<1>1. \A m \in Decl.memberOf \cup st.member : m = <<m[1], m[2]>> /\ (m[1] \in Managed => m[2] \in Nat)
  <2>1. \A m \in st.member : m = <<m[1], m[2]>>
    BY <1>0 DEF Known, Sound, WellFormed
  <2>2. \A m \in Decl.memberOf : m = <<m[1], m[2]>>
    BY ShapesAssumption
  <2>3. Decl.memberOf \cup st.member \subseteq Possible
    BY <1>0 DEF Known, Possible
  <2> QED
    BY <2>1, <2>2, <2>3, PossibleShapes
<1>2. \A m \in Decl.iam \cup st.iam : m = <<m[1], m[2]>> /\ m[2] \in Nat
  <2>1. Decl.iam \cup st.iam \subseteq Mapped
    BY <1>0 DEF Known, Mapped
  <2> QED
    BY <2>1, ShapesAssumption, NumbersAssumption DEF Mapped
<1>3. \A m \in Decl.memberOf \cup Decl.iam : m[1] \in Managed
  BY DeclAssumption DEF ValidDecl
<1> HIDE DEF st
<1>4. ASSUME NEW r \in Managed, s = IF r \in st.roles THEN AlterOf(r) ELSE CreateOf(r) PROVE Goal
  BY <1>4, RolePlaces DEF RoleAt
<1>5. ASSUME NEW m, m = <<m[1], m[2]>>, m[1] \in Managed, m[2] \in Nat,
             s \in {JoinOf(m), LeaveOf(m), MapOf(m), UnmapOf(m)}
      PROVE  Placed(s) /\ PairAt(s)
  <2>1. Placed(s) /\ s.pos[2] = Index(m[1]) /\ s.pos[4] = m[2]
        /\ s.pos[1] = IF s \in {JoinOf(m), LeaveOf(m)} THEN 2 ELSE 3
    BY <1>5, PairPlaces
  <2>2. JoinOf(m).pos[3] = 0 /\ LeaveOf(m).pos[3] = 1 /\ MapOf(m).pos[3] = 0 /\ UnmapOf(m).pos[3] = 1
        /\ MapOf(m).pos[1] # 2 /\ UnmapOf(m).pos[1] # 2
    <3>1. MapOf(m).pos = <<3, Index(m[1]), 0, m[2], 0, 0>> /\ UnmapOf(m).pos = <<3, Index(m[1]), 1, m[2], 0, 0>>
      BY DEF MapOf, UnmapOf, Statement
    <3>2. MapOf(m).pos[1] = 3 /\ UnmapOf(m).pos[1] = 3
      BY <3>1, SixPlaces
    <3> QED
      BY <1>5, <3>2, PairPlaces
  <2>3. \/ s.pos[1] = 2 /\ s.pos[3] = 0 /\ s = JoinOf(m)
        \/ s.pos[1] = 2 /\ s.pos[3] = 1 /\ s = LeaveOf(m)
        \/ s.pos[1] = 3 /\ s.pos[3] = 0 /\ s = MapOf(m)
        \/ s.pos[1] = 3 /\ s.pos[3] = 1 /\ s = UnmapOf(m)
    <3>1. CASE s = JoinOf(m)
      BY <2>1, <2>2, <3>1
    <3>2. CASE s = LeaveOf(m)
      BY <2>1, <2>2, <3>2
    <3>3. CASE s = MapOf(m) /\ s \notin {JoinOf(m), LeaveOf(m)}
      BY <2>1, <2>2, <3>3
    <3>4. CASE s = UnmapOf(m) /\ s \notin {JoinOf(m), LeaveOf(m)}
      BY <2>1, <2>2, <3>4
    <3> QED
      BY <1>5, <3>1, <3>2, <3>3, <3>4
  <2> QED
    BY <1>5, <2>1, <2>3 DEF PairAt
<1>6. ASSUME NEW w \in Decl.wide, s = WideOf(st, WideKey(w)) PROVE Goal
  BY <1>6, WidePlaces DEF WideAt
<1>7. ASSUME NEW k \in GrantKeys(st), s \in {GrantOf(st, k), RevokeOf(st, k)} PROVE Goal
  <2>1. k[1] \in Places /\ k[2] \in Managed /\ k = <<k[1], k[2]>>
    BY <1>7, GrantKeysPlaced DEF Known, Sound, st
  <2>2. k[1] = <<k[1][1], k[1][2], k[1][3], k[1][4]>>
    BY <2>1, PlaceShapes
  <2> QED
    BY <1>7, <2>1, <2>2, ObjectPlaces DEF ObjectAt
<1>8. ASSUME NEW k \in DefaultKeys(st), s \in OfDefaultKey(st, k) PROVE Goal
  <2>1. {k[1], k[2], k[3], k[4], k[5]} \subseteq Nat /\ k = <<k[1], k[2], k[3], k[4], k[5]>>
    BY <1>0, <1>8, KeyNumbers DEF Known
  <2>2. k[4] \in Int
    BY <2>1
  <2> QED
    BY <1>8, <2>1, <2>2, KeyPlaces DEF KeyAt
<1>9. ASSUME NEW r \in Managed, s = ReleaseOf(st, r) PROVE Goal
  BY <1>9, ReleasePlaces DEF ReleaseAt, Known, st
<1> HIDE DEF Goal
<1>10. Goal
  <2>1. ASSUME NEW m, m \in Decl.memberOf \cup st.member, m[1] \in Managed, s \in {JoinOf(m), LeaveOf(m)} PROVE Goal
    BY <1>1, <1>5, <2>1 DEF Goal
  <2>2. ASSUME NEW m, m \in Decl.iam \cup st.iam, m[1] \in Managed, s \in {MapOf(m), UnmapOf(m)} PROVE Goal
    BY <1>2, <1>5, <2>2 DEF Goal
  <2>3. ASSUME NEW k \in WideKeys, s = WideOf(st, k) PROVE Goal
    BY <1>6, <2>3 DEF WideKeys
  <2> QED
    BY <1>3, <1>4, <1>7, <1>8, <1>9, <2>1, <2>2, <2>3, PlanForms DEF st
<1> QED
  BY <1>10 DEF Goal, st

LEMMA SameRank ==
  ASSUME NEW i \in Int, NEW j \in Int, SequenceKind - i = SequenceKind - j
  PROVE  i = j
BY DEF SequenceKind

LEMMA DiffApart ==
  ASSUME Me \notin Managed, NEW c, Known(c), NEW s \in Diff(Snapshot(c)), NEW t \in Diff(Snapshot(c)), SamePlace(s, t)
  PROVE  s = t
<1> DEFINE st == Snapshot(c)
<1>1. /\ RoleAt(st, s) \/ PairAt(s) \/ WideAt(st, s) \/ ObjectAt(st, s) \/ KeyAt(st, s) \/ ReleaseAt(st, s)
      /\ RoleAt(st, t) \/ PairAt(t) \/ WideAt(st, t) \/ ObjectAt(st, t) \/ KeyAt(st, t) \/ ReleaseAt(st, t)
  BY DiffPlaced
<1> HIDE DEF st
<1>2. /\ s.db = t.db /\ s.pos[1] = t.pos[1] /\ s.pos[2] = t.pos[2] /\ s.pos[3] = t.pos[3]
      /\ s.pos[4] = t.pos[4] /\ s.pos[5] = t.pos[5] /\ s.pos[6] = t.pos[6]
  BY DEF SamePlace
<1>3. \A q, r \in Managed : Index(q) = Index(r) => q = r
  BY ManagedNumbers
<1>4. CASE RoleAt(st, s) /\ RoleAt(st, t)
  <2>1. PICK q \in Managed : s.pos[2] = Index(q) /\ s = IF q \in st.roles THEN AlterOf(q) ELSE CreateOf(q)
    BY <1>4 DEF RoleAt
  <2>2. PICK r \in Managed : t.pos[2] = Index(r) /\ t = IF r \in st.roles THEN AlterOf(r) ELSE CreateOf(r)
    BY <1>4 DEF RoleAt
  <2>3. q = r
    BY <1>2, <1>3, <2>1, <2>2
  <2> QED
    BY <2>1, <2>2, <2>3
<1>5. CASE PairAt(s) /\ PairAt(t)
  <2>1. PICK m : /\ m = <<m[1], m[2]>> /\ m[1] \in Managed /\ s.pos[2] = Index(m[1]) /\ s.pos[4] = m[2]
                 /\ \/ s.pos[1] = 2 /\ s.pos[3] = 0 /\ s = JoinOf(m)
                    \/ s.pos[1] = 2 /\ s.pos[3] = 1 /\ s = LeaveOf(m)
                    \/ s.pos[1] = 3 /\ s.pos[3] = 0 /\ s = MapOf(m)
                    \/ s.pos[1] = 3 /\ s.pos[3] = 1 /\ s = UnmapOf(m)
    BY <1>5 DEF PairAt
  <2>2. PICK n : /\ n = <<n[1], n[2]>> /\ n[1] \in Managed /\ t.pos[2] = Index(n[1]) /\ t.pos[4] = n[2]
                 /\ \/ t.pos[1] = 2 /\ t.pos[3] = 0 /\ t = JoinOf(n)
                    \/ t.pos[1] = 2 /\ t.pos[3] = 1 /\ t = LeaveOf(n)
                    \/ t.pos[1] = 3 /\ t.pos[3] = 0 /\ t = MapOf(n)
                    \/ t.pos[1] = 3 /\ t.pos[3] = 1 /\ t = UnmapOf(n)
    BY <1>5 DEF PairAt
  <2>3. m[1] = n[1] /\ m[2] = n[2]
    BY <1>2, <1>3, <2>1, <2>2
  <2>4. m = n
    BY <2>1, <2>2, <2>3
  <2> QED
    BY <1>2, <2>1, <2>2, <2>4
<1>6. CASE WideAt(st, s) /\ WideAt(st, t)
  <2>1. PICK w \in Decl.wide :
           /\ s.db = w[1] /\ s.pos[3] = w[2] /\ s.pos[4] = SequenceKind - w[3] /\ w[3] \in Int /\ s.pos[5] = w[4]
           /\ s = WideOf(st, WideKey(w))
    BY <1>6 DEF WideAt
  <2>2. PICK v \in Decl.wide :
           /\ t.db = v[1] /\ t.pos[3] = v[2] /\ t.pos[4] = SequenceKind - v[3] /\ v[3] \in Int /\ t.pos[5] = v[4]
           /\ t = WideOf(st, WideKey(v))
    BY <1>6 DEF WideAt
  <2>3. w[1] = v[1] /\ w[2] = v[2] /\ w[4] = v[4] /\ SequenceKind - w[3] = SequenceKind - v[3]
    BY <1>2, <2>1, <2>2
  <2>5. w[3] = v[3]
    BY <2>1, <2>2, <2>3, SameRank
  <2>4. WideKey(w) = WideKey(v)
    BY <2>3, <2>5 DEF WideKey
  <2> QED
    BY <2>1, <2>2, <2>4
<1>7. CASE ObjectAt(st, s) /\ ObjectAt(st, t)
  <2>1. PICK k : /\ k = <<k[1], k[2]>> /\ k[1] = <<k[1][1], k[1][2], k[1][3], k[1][4]>>
                 /\ s.db = k[1][1] /\ s.pos[2] = k[1][2] /\ s.pos[3] = k[1][3] /\ s.pos[4] = k[1][4] /\ s.pos[5] = k[2]
                 /\ s = IF s.pos[6] = 0 THEN GrantOf(st, k) ELSE RevokeOf(st, k)
    BY <1>7 DEF ObjectAt
  <2>2. PICK l : /\ l = <<l[1], l[2]>> /\ l[1] = <<l[1][1], l[1][2], l[1][3], l[1][4]>>
                 /\ t.db = l[1][1] /\ t.pos[2] = l[1][2] /\ t.pos[3] = l[1][3] /\ t.pos[4] = l[1][4] /\ t.pos[5] = l[2]
                 /\ t = IF t.pos[6] = 0 THEN GrantOf(st, l) ELSE RevokeOf(st, l)
    BY <1>7 DEF ObjectAt
  <2>3. k[1] = l[1]
    BY <1>2, <2>1, <2>2
  <2>4. k = l
    BY <1>2, <2>1, <2>2, <2>3
  <2> QED
    BY <1>2, <2>1, <2>2, <2>4
<1>8. CASE KeyAt(st, s) /\ KeyAt(st, t)
  <2>1. PICK k : /\ k = <<k[1], k[2], k[3], k[4], k[5]>> /\ k[4] \in Int
            /\ s.db = k[1] /\ s.pos[2] = k[2] /\ s.pos[3] = k[3] /\ s.pos[4] = SequenceKind - k[4] /\ s.pos[5] = k[5]
            /\ \/ s.pos[6] = 0 /\ s = BorrowOf(k)
               \/ s.pos[6] = 1 /\ s = AddOf(st, k)
               \/ s.pos[6] = 2 /\ s = RemoveOf(st, k)
               \/ s.pos[6] = 3 /\ s = UndoOf(st, k)
    BY <1>8 DEF KeyAt
  <2>2. PICK l : /\ l = <<l[1], l[2], l[3], l[4], l[5]>> /\ l[4] \in Int
            /\ t.db = l[1] /\ t.pos[2] = l[2] /\ t.pos[3] = l[3] /\ t.pos[4] = SequenceKind - l[4] /\ t.pos[5] = l[5]
            /\ \/ t.pos[6] = 0 /\ t = BorrowOf(l)
               \/ t.pos[6] = 1 /\ t = AddOf(st, l)
               \/ t.pos[6] = 2 /\ t = RemoveOf(st, l)
               \/ t.pos[6] = 3 /\ t = UndoOf(st, l)
    BY <1>8 DEF KeyAt
  <2>3. k[4] = l[4]
    <3>1. SequenceKind - k[4] = SequenceKind - l[4]
      BY <1>2, <2>1, <2>2
    <3> QED
      BY <2>1, <2>2, <3>1, SameRank
  <2>4. k[1] = l[1] /\ k[2] = l[2] /\ k[3] = l[3] /\ k[5] = l[5]
    BY <1>2, <2>1, <2>2
  <2>5. k = l
    BY <2>1, <2>2, <2>3, <2>4
  <2> QED
    BY <1>2, <2>1, <2>2, <2>5
<1>9. CASE ReleaseAt(st, s) /\ ReleaseAt(st, t)
  BY <1>2, <1>9 DEF ReleaseAt
<1>10. /\ RoleAt(st, s) <=> RoleAt(st, t)
       /\ PairAt(s) <=> PairAt(t)
       /\ WideAt(st, s) <=> WideAt(st, t)
       /\ ObjectAt(st, s) <=> ObjectAt(st, t)
       /\ KeyAt(st, s) <=> KeyAt(st, t)
       /\ ReleaseAt(st, s) <=> ReleaseAt(st, t)
  <2> DEFINE Here(u) ==
         /\ RoleAt(st, u) => u.pos[1] = 1
         /\ PairAt(u) => u.pos[1] \in {2, 3}
         /\ WideAt(st, u) => u.pos[1] = 4 /\ u.pos[2] = 2
         /\ ObjectAt(st, u) => u.pos[1] = 4 /\ u.pos[2] # 2
         /\ KeyAt(st, u) => u.pos[1] = 5
         /\ ReleaseAt(st, u) => u.pos[1] = 6
  <2>1. Here(s) /\ Here(t)
    BY DEF RoleAt, PairAt, WideAt, ObjectAt, KeyAt, ReleaseAt
  <2> QED
    BY <1>1, <1>2, <2>1
<1> QED
  BY <1>1, <1>4, <1>5, <1>6, <1>7, <1>8, <1>9, <1>10

\* A part of a plan has a last statement, so that the order it is carried out
\* in is one.
LEMMA PlanLast ==
  ASSUME Me \notin Managed, NEW c, Known(c), NEW S \in SUBSET Diff(Snapshot(c)), S # {}
  PROVE  \E x : IsLast(S, x)
<1>1. IsFiniteSet(S)
  BY PlanFinite, FS_Subset
<1>2. (\A s \in S : Placed(s)) /\ \A s, t \in S : SamePlace(s, t) => s = t
  BY DiffPlaced, DiffApart
<1> QED
  BY <1>1, <1>2, LastOf

----------------------------------------------------------------------------
(* What a plan makes of a catalog, statement by statement.                 *)

\* The statement of S that Outcome carries out last, and the catalogs it comes
\* to after each part of a plan.
LastIn(S) == CHOOSE x \in S : \A t \in S \ {x} : Precedes(t, x)
Chronicle(f, c, plan) ==
  f = [S \in SUBSET plan |-> IF S = {} THEN c ELSE Effect(f[S \ {LastIn(S)}], LastIn(S))]

LEMMA ChronicleExists ==
  ASSUME NEW c, NEW plan, IsFiniteSet(plan), \A S \in SUBSET plan : S # {} => \E x : IsLast(S, x)
  PROVE  \E f : Chronicle(f, c, plan)
<1> DEFINE Holds(f, S) == f[S] = IF S = {} THEN c ELSE Effect(f[S \ {LastIn(S)}], LastIn(S))
           P == {n \in Nat : \E f : \A S \in SUBSET plan : Cardinality(S) <= n => Holds(f, S)}
<1>1. \A S \in SUBSET plan : IsFiniteSet(S) /\ Cardinality(S) \in Nat
  BY FS_Subset, FS_CardinalityType
<1>2. \A S \in SUBSET plan : S # {} =>
        /\ S \ {LastIn(S)} \in SUBSET plan
        /\ Cardinality(S \ {LastIn(S)}) = Cardinality(S) - 1
  <2> SUFFICES ASSUME NEW S \in SUBSET plan, S # {}
               PROVE  /\ S \ {LastIn(S)} \in SUBSET plan
                      /\ Cardinality(S \ {LastIn(S)}) = Cardinality(S) - 1
    OBVIOUS
  <2>1. \E x \in S : \A t \in S \ {x} : Precedes(t, x)
    BY DEF IsLast
  <2>2. LastIn(S) \in S
    BY <2>1 DEF LastIn
  <2>3. IsFiniteSet(S)
    BY <1>1
  <2> QED
    BY <2>2, <2>3, FS_RemoveElement
<1>3. 0 \in P
  <2> DEFINE f == [S \in SUBSET plan |-> c]
  <2>1. ASSUME NEW S \in SUBSET plan, Cardinality(S) <= 0 PROVE Holds(f, S)
    <3>1. Cardinality(S) = 0
      BY <1>1, <2>1
    <3>2. S = {}
      BY <1>1, <3>1, FS_EmptySet
    <3> QED
      BY <3>2
  <2> HIDE DEF Holds
  <2> QED
    BY <2>1
<1>4. ASSUME NEW n \in P PROVE n + 1 \in P
  <2>1. n \in Nat /\ \E f : \A S \in SUBSET plan : Cardinality(S) <= n => Holds(f, S)
    OBVIOUS
  <2>2. PICK f : \A S \in SUBSET plan : Cardinality(S) <= n => Holds(f, S)
    BY <2>1
  <2> DEFINE g == [S \in SUBSET plan |->
                     IF S = {} THEN c ELSE IF Cardinality(S) <= n THEN f[S] ELSE Effect(f[S \ {LastIn(S)}], LastIn(S))]
  <2>3. \A S \in SUBSET plan : S # {} /\ Cardinality(S) <= n => g[S] = f[S]
    OBVIOUS
  <2>4. \A S \in SUBSET plan : Cardinality(S) <= n => g[S] = f[S]
    <3> SUFFICES ASSUME NEW S \in SUBSET plan, Cardinality(S) <= n, S = {} PROVE g[S] = f[S]
      BY <2>3
    <3> QED
      BY <2>2
  <2>5. ASSUME NEW S \in SUBSET plan, Cardinality(S) <= n + 1 PROVE Holds(g, S)
    <3>1. CASE S = {}
      BY <3>1
    <3>2. CASE S # {}
      <4>1. /\ S \ {LastIn(S)} \in SUBSET plan
            /\ Cardinality(S \ {LastIn(S)}) = Cardinality(S) - 1
        BY <1>2, <3>2
      <4>2. Cardinality(S \ {LastIn(S)}) <= n
        BY <1>1, <2>1, <2>5, <4>1
      <4>3. g[S \ {LastIn(S)}] = f[S \ {LastIn(S)}]
        BY <2>4, <4>1, <4>2
      <4>4. g[S] = Effect(f[S \ {LastIn(S)}], LastIn(S))
        <5>1. CASE Cardinality(S) <= n
          <6>1. Holds(f, S)
            BY <2>2, <5>1
          <6>2. g[S] = f[S]
            BY <2>4, <5>1
          <6> HIDE DEF g
          <6> QED
            BY <3>2, <6>1, <6>2
        <5>2. CASE ~(Cardinality(S) <= n)
          BY <3>2, <5>2
        <5> QED
          BY <5>1, <5>2
      <4> HIDE DEF g
      <4> QED
        BY <3>2, <4>3, <4>4
    <3> QED
      BY <3>1, <3>2
  <2> HIDE DEF g, Holds
  <2> QED
    BY <2>1, <2>5
<1> HIDE DEF P
<1>5. P = Nat
  BY <1>3, <1>4, NatInductionOnSets DEF P
<1>6. Cardinality(plan) \in P
  BY <1>5, FS_CardinalityType
<1>7. PICK f : \A S \in SUBSET plan : Cardinality(S) <= Cardinality(plan) => Holds(f, S)
  BY <1>6 DEF P
<1>8. \A S \in SUBSET plan : Holds(f, S)
  <2>1. \A S \in SUBSET plan : Cardinality(S) <= Cardinality(plan)
    BY FS_Subset
  <2> QED
    BY <1>7, <2>1
<1> DEFINE h == [S \in SUBSET plan |-> f[S]]
<1>9. \A S \in SUBSET plan : h[S] = IF S = {} THEN c ELSE Effect(h[S \ {LastIn(S)}], LastIn(S))
  BY <1>8
<1>10. h = [S \in SUBSET plan |-> h[S]]
  OBVIOUS
<1> HIDE DEF h
<1>11. Chronicle(h, c, plan)
  BY <1>9, <1>10 DEF Chronicle
<1> QED
  BY <1>11

LEMMA OutcomeIs ==
  ASSUME NEW c, NEW plan, IsFiniteSet(plan), \A S \in SUBSET plan : S # {} => \E x : IsLast(S, x)
  PROVE  \E f : Chronicle(f, c, plan) /\ Outcome(c, plan) = f[plan]
<1> DEFINE f == CHOOSE after : Chronicle(after, c, plan)
<1>1. Chronicle(f, c, plan)
  BY ChronicleExists
<1>2. Outcome(c, plan) = f[plan]
  BY DEF Outcome, Chronicle, LastIn
<1> QED
  BY <1>1, <1>2

----------------------------------------------------------------------------
(* What is shown, entry by entry.                                          *)

\* What the planner gives and takes, entry by entry.
IsGiven(c, st, o, r, q) ==
  \/ \E k \in WideKeys : k[4] = r /\ o \in Relations(c, k[1], k[2], k[3]) /\ q \in MissingEverywhere(st, k)
  \/ <<o, r>> \in GrantKeys(st) /\ q \in Missing(st, <<o, r>>)
IsTaken(st, o, r, q) == <<o, r>> \in GrantKeys(st) /\ q \in Extra(st, <<o, r>>)
DefaultOf(k, q) == <<k[1], k[2], k[3], k[4], k[5], q>>
DefaultGiven(st, e) == \E k \in DefaultKeys(st) : \E q \in MissingDefaults(st, k) : e = DefaultOf(k, q)
DefaultTaken(st, e) == \E k \in DefaultKeys(st) : \E q \in ExtraDefaults(st, k) : e = DefaultOf(k, q)

\* What is shown of a role's privileges, entry by entry.
Shown(st, r) == ShownDiffs(WideDiffs(st, r) \cup ObjectDiffs(st, r) \cup DefaultDiffs(st, r))
ShownGiven(c, st, e, default) ==
  \E r \in Managed : \E d \in Shown(st, r) :
    (d.label[1] = "default") = default /\ e \in Entries(c, d.label, r, d.added)
ShownTaken(c, st, e, default) ==
  \E r \in Managed : \E d \in Shown(st, r) :
    (d.label[1] = "default") = default /\ e \in Entries(c, d.label, r, d.removed)

LEMMA AdjustedIs ==
  ASSUME NEW c, NEW st, NEW entries, NEW default \in BOOLEAN, NEW e
  PROVE  e \in Adjusted(c, entries, Diffs(st), default) <=>
           (e \in entries /\ ~ShownTaken(c, st, e, default)) \/ ShownGiven(c, st, e, default)
<1> DEFINE diffs == Diffs(st)
           shown == {x \in UNION {{r} \X diffs[r].privileges : r \in Managed} :
                       (x[2].label[1] = "default") = default}
<1>1. \A r \in Managed : diffs[r].privileges = Shown(st, r)
  BY DEF Diffs, RoleDiff, Shown
<1> HIDE DEF diffs
<1>2. \A x \in shown : /\ x[1] \in Managed /\ x[2] \in Shown(st, x[1])
                       /\ (x[2].label[1] = "default") = default
  BY <1>1
<1>3. \A r \in Managed : \A d \in Shown(st, r) :
        (d.label[1] = "default") = default => <<r, d>> \in shown
  <2> SUFFICES ASSUME NEW r \in Managed, NEW d \in Shown(st, r), (d.label[1] = "default") = default
               PROVE  <<r, d>> \in shown
    OBVIOUS
  <2>1. <<r, d>> \in {r} \X diffs[r].privileges
    BY <1>1
  <2> QED
    BY <2>1
<1> HIDE DEF shown
<1>4. ASSUME NEW x \in shown, e \in Entries(c, x[2].label, x[1], x[2].removed) PROVE ShownTaken(c, st, e, default)
  BY <1>2, <1>4 DEF ShownTaken
<1>5. ASSUME NEW x \in shown, e \in Entries(c, x[2].label, x[1], x[2].added) PROVE ShownGiven(c, st, e, default)
  BY <1>2, <1>5 DEF ShownGiven
<1>6. ShownTaken(c, st, e, default) => \E x \in shown : e \in Entries(c, x[2].label, x[1], x[2].removed)
  <2> SUFFICES ASSUME NEW r \in Managed, NEW d \in Shown(st, r), (d.label[1] = "default") = default,
                      e \in Entries(c, d.label, r, d.removed)
               PROVE  \E x \in shown : e \in Entries(c, x[2].label, x[1], x[2].removed)
    BY DEF ShownTaken
  <2>1. <<r, d>> \in shown /\ <<r, d>>[1] = r /\ <<r, d>>[2] = d
    BY <1>3
  <2> QED
    BY <2>1
<1>7. ShownGiven(c, st, e, default) => \E x \in shown : e \in Entries(c, x[2].label, x[1], x[2].added)
  <2> SUFFICES ASSUME NEW r \in Managed, NEW d \in Shown(st, r), (d.label[1] = "default") = default,
                      e \in Entries(c, d.label, r, d.added)
               PROVE  \E x \in shown : e \in Entries(c, x[2].label, x[1], x[2].added)
    BY DEF ShownGiven
  <2>1. <<r, d>> \in shown /\ <<r, d>>[1] = r /\ <<r, d>>[2] = d
    BY <1>3
  <2> QED
    BY <2>1
<1>8. Adjusted(c, entries, diffs, default) =
        (entries \ UNION {Entries(c, x[2].label, x[1], x[2].removed) : x \in shown})
          \cup UNION {Entries(c, x[2].label, x[1], x[2].added) : x \in shown}
  BY DEF Adjusted, shown
<1> QED
  BY <1>4, <1>5, <1>6, <1>7, <1>8 DEF diffs

\* The three kinds of PrivDiff.
ForAll(st, r, d) ==
  \E k \in WideKeys : k[4] = r /\ d = PrivDiff(<<"all", k[1], k[2], k[3]>>, MissingEverywhere(st, k), {})
ForObject(st, r, d) ==
  \E k \in GrantKeys(st) : k[2] = r /\ d = PrivDiff(<<"on", k[1]>>, Missing(st, k), Extra(st, k))
ForDefault(st, r, d) ==
  \E k \in DefaultKeys(st) :
    /\ r = IF k[5] \in Managed THEN k[5] ELSE k[3]
    /\ d = PrivDiff(<<"default", k>>, MissingDefaults(st, k), ExtraDefaults(st, k))

LEMMA ShownForms ==
  ASSUME NEW st, NEW r \in Managed, NEW d
  PROVE  d \in Shown(st, r) <=>
           /\ d.added # {} \/ d.removed # {}
           /\ ForAll(st, r, d) \/ ForObject(st, r, d) \/ ForDefault(st, r, d)
<1>1. d \in WideDiffs(st, r) <=> ForAll(st, r, d)
  <2>1. {w \in WideKeys : w[4] = r} = {WideKey(v) : v \in {u \in Decl.wide : u[4] = r}}
    BY DEF WideKeys, WideKey
  <2> QED
    BY <2>1 DEF WideDiffs, ForAll
<1>2. d \in ObjectDiffs(st, r) <=> ForObject(st, r, d)
  BY DEF ObjectDiffs, GrantKeys, ForObject
<1>3. d \in DefaultDiffs(st, r) <=> ForDefault(st, r, d)
  BY DEF DefaultDiffs, ForDefault
<1> QED
  BY <1>1, <1>2, <1>3 DEF Shown, ShownDiffs

LEMMA DiffFields ==
  ASSUME NEW label, NEW added, NEW removed
  PROVE  /\ PrivDiff(label, added, removed).label = label
         /\ PrivDiff(label, added, removed).added = added
         /\ PrivDiff(label, added, removed).removed = removed
BY DEF PrivDiff

LEMMA OneMore ==
  ASSUME NEW k, k = <<k[1], k[2], k[3], k[4], k[5]>>, NEW q
  PROVE  Append(k, q) = <<k[1], k[2], k[3], k[4], k[5], q>>
<1> DEFINE S == {k[1], k[2], k[3], k[4], k[5], q}
           x == Append(k, q)
<1>1. q \in S /\ <<k[1], k[2], k[3], k[4], k[5]>> \in Seq(S) /\ Len(<<k[1], k[2], k[3], k[4], k[5]>>) = 5
  OBVIOUS
<1>2. k \in Seq(S) /\ Len(k) = 5
  BY <1>1
<1> HIDE DEF S, x
<1>3. /\ x \in Seq(S) /\ Len(x) = Len(k) + 1
      /\ \A i \in 1 .. Len(k) : x[i] = k[i]
      /\ x[Len(k) + 1] = q
  <2>1. x \in Seq(S)
    BY <1>1, <1>2, AppendProperties DEF x
  <2>2. Len(x) = Len(k) + 1
    BY <1>1, <1>2, AppendProperties DEF x
  <2>3. \A i \in 1 .. Len(k) : x[i] = k[i]
    <3>1. ASSUME NEW y \in Seq(S), NEW i \in 1 .. Len(y) PROVE Append(y, q)[i] = y[i]
      BY <1>1
    <3> QED
      BY <1>2, <3>1, Zenon DEF x
  <2>4. x[Len(k) + 1] = q
    BY <1>1, <1>2, AppendProperties, Zenon DEF x
  <2> QED
    BY <2>1, <2>2, <2>3, <2>4
<1>4. x \in Seq(S) /\ Len(x) = 6 /\ (\A i \in 1 .. 5 : x[i] = k[i]) /\ x[6] = q
  BY <1>2, <1>3
<1>5. x = <<x[1], x[2], x[3], x[4], x[5], x[6]>>
  BY <1>4
<1>6. x[1] = k[1] /\ x[2] = k[2] /\ x[3] = k[3] /\ x[4] = k[4] /\ x[5] = k[5] /\ x[6] = q
  BY <1>4
<1>7. x = <<k[1], k[2], k[3], k[4], k[5], q>>
  BY <1>5, <1>6
<1> QED
  BY <1>7 DEF x

\* What the entries of a label are.
LEMMA EntriesAre ==
  ASSUME NEW c, NEW r, NEW privs, NEW e
  PROVE  /\ \A a1, a2, a3 : e \in Entries(c, <<"all", a1, a2, a3>>, r, privs) <=>
               \E o \in Relations(c, a1, a2, a3) : \E q \in privs : e = <<o, r, q>>
         /\ \A o : e \in Entries(c, <<"on", o>>, r, privs) <=> \E q \in privs : e = <<o, r, q>>
         /\ \A k : k = <<k[1], k[2], k[3], k[4], k[5]>> =>
               (e \in Entries(c, <<"default", k>>, r, privs) <=> \E q \in privs : e = DefaultOf(k, q))
<1>1. ASSUME NEW a1, NEW a2, NEW a3
      PROVE  e \in Entries(c, <<"all", a1, a2, a3>>, r, privs) <=>
               \E o \in Relations(c, a1, a2, a3) : \E q \in privs : e = <<o, r, q>>
  <2> DEFINE l == <<"all", a1, a2, a3>>
  <2>1. l[1] = "all" /\ l[2] = a1 /\ l[3] = a2 /\ l[4] = a3
    OBVIOUS
  <2> HIDE DEF l
  <2>2. l[1] # "default" /\ l[1] # "on"
    BY <2>1
  <2>3. Entries(c, l, r, privs) = UNION {{<<o, r, p>> : p \in privs} : o \in Relations(c, a1, a2, a3)}
    BY <2>1, <2>2 DEF Entries
  <2> HIDE <2>1, <2>2
  <2>4. e \in Entries(c, l, r, privs) <=> \E o \in Relations(c, a1, a2, a3) : \E q \in privs : e = <<o, r, q>>
    BY <2>3
  <2> QED
    BY <2>4 DEF l
<1>2. ASSUME NEW o
      PROVE  e \in Entries(c, <<"on", o>>, r, privs) <=> \E q \in privs : e = <<o, r, q>>
  <2> DEFINE l == <<"on", o>>
  <2>1. l[1] = "on" /\ l[2] = o
    OBVIOUS
  <2> HIDE DEF l
  <2>2. l[1] # "default"
    BY <2>1
  <2>3. Entries(c, l, r, privs) = UNION {{<<x, r, p>> : p \in privs} : x \in {o}}
    BY <2>1, <2>2 DEF Entries
  <2>4. e \in Entries(c, l, r, privs) <=> \E x \in {o} : \E q \in privs : e = <<x, r, q>>
    BY <2>3
  <2> QED
    BY <2>4 DEF l
<1>3. ASSUME NEW k, k = <<k[1], k[2], k[3], k[4], k[5]>>
      PROVE  e \in Entries(c, <<"default", k>>, r, privs) <=> \E q \in privs : e = DefaultOf(k, q)
  <2> DEFINE l == <<"default", k>>
  <2>1. l[1] = "default" /\ l[2] = k
    OBVIOUS
  <2> HIDE DEF l
  <2>2. Entries(c, l, r, privs) = {Append(k, p) : p \in privs}
    BY <2>1 DEF Entries
  <2>3. \A q : Append(k, q) = DefaultOf(k, q)
    BY <1>3, OneMore DEF DefaultOf
  <2> QED
    BY <2>2, <2>3 DEF l
<1> QED
  BY <1>1, <1>2, <1>3

LEMMA WideKeyIs ==
  ASSUME NEW k \in WideKeys
  PROVE  k = <<k[1], k[2], k[3], k[4]>> /\ k[4] \in Managed /\ \E w \in Decl.wide : k = WideKey(w)
<1>1. PICK w \in Decl.wide : k = WideKey(w)
  BY DEF WideKeys
<1>2. w[4] \in Managed
  BY DeclAssumption DEF ValidDecl
<1> QED
  BY <1>1, <1>2 DEF WideKey

\* What of the ACLs is shown.
LEMMA AclShown ==
  ASSUME NEW c, Known(c), NEW e
  PROVE  LET st == Snapshot(c) IN
         /\ ShownGiven(c, st, e, FALSE) <=> \E o, r, q : e = <<o, r, q>> /\ IsGiven(c, st, o, r, q)
         /\ ShownTaken(c, st, e, FALSE) <=> \E o, r, q : e = <<o, r, q>> /\ IsTaken(st, o, r, q)
<1> DEFINE st == Snapshot(c)
<1>1. \A k \in GrantKeys(st) : k[2] \in Managed /\ k = <<k[1], k[2]>>
  BY GrantKeysPlaced DEF Known, Sound
<1>2. \A k \in DefaultKeys(st) : k = <<k[1], k[2], k[3], k[4], k[5]>>
  <2>1. st.dacl \subseteq c.dacl
    BY SnapshotFields DEF Known, Sound
  <2> QED
    BY <2>1, KeyNumbers DEF Known
<1> HIDE DEF st
<1>3. ASSUME ShownGiven(c, st, e, FALSE) PROVE \E o, r, q : e = <<o, r, q>> /\ IsGiven(c, st, o, r, q)
  <2>0. PICK r \in Managed : \E d \in Shown(st, r) : d.label[1] # "default" /\ e \in Entries(c, d.label, r, d.added)
    BY <1>3 DEF ShownGiven
  <2>1. PICK d \in Shown(st, r) : d.label[1] # "default" /\ e \in Entries(c, d.label, r, d.added)
    BY <2>0
  <2>2. CASE ForAll(st, r, d)
    <3>1. PICK k \in WideKeys : k[4] = r /\ d = PrivDiff(<<"all", k[1], k[2], k[3]>>, MissingEverywhere(st, k), {})
      BY <2>2 DEF ForAll
    <3>2. d.label = <<"all", k[1], k[2], k[3]>> /\ d.added = MissingEverywhere(st, k)
      BY <3>1, DiffFields
    <3>3. PICK o \in Relations(c, k[1], k[2], k[3]) : \E q \in MissingEverywhere(st, k) : e = <<o, r, q>>
      BY <2>1, <3>2, EntriesAre
    <3>6. PICK q \in MissingEverywhere(st, k) : e = <<o, r, q>>
      BY <3>3
    <3>4. IsGiven(c, st, o, r, q)
      BY <3>1, <3>3, <3>6 DEF IsGiven
    <3> QED
      BY <3>6, <3>4
  <2>3. CASE ForObject(st, r, d)
    <3>1. PICK k \in GrantKeys(st) : k[2] = r /\ d = PrivDiff(<<"on", k[1]>>, Missing(st, k), Extra(st, k))
      BY <2>3 DEF ForObject
    <3>2. d.label = <<"on", k[1]>> /\ d.added = Missing(st, k)
      BY <3>1, DiffFields
    <3>3. PICK q \in Missing(st, k) : e = <<k[1], r, q>>
      BY <2>1, <3>2, EntriesAre
    <3>5. k = <<k[1], r>>
      BY <1>1, <3>1
    <3>4. IsGiven(c, st, k[1], r, q)
      BY <3>1, <3>3, <3>5 DEF IsGiven
    <3> QED
      BY <3>3, <3>4
  <2>4. CASE ForDefault(st, r, d)
    <3>1. PICK k \in DefaultKeys(st) : d.label = <<"default", k>>
      BY <2>4, DiffFields DEF ForDefault
    <3> QED
      BY <2>1, <3>1
  <2> QED
    BY <2>2, <2>3, <2>4, ShownForms
<1>4. ASSUME ShownTaken(c, st, e, FALSE) PROVE \E o, r, q : e = <<o, r, q>> /\ IsTaken(st, o, r, q)
  <2>0. PICK r \in Managed : \E d \in Shown(st, r) : d.label[1] # "default" /\ e \in Entries(c, d.label, r, d.removed)
    BY <1>4 DEF ShownTaken
  <2>1. PICK d \in Shown(st, r) : d.label[1] # "default" /\ e \in Entries(c, d.label, r, d.removed)
    BY <2>0
  <2>2. CASE ForAll(st, r, d)
    <3>1. PICK k \in WideKeys : d = PrivDiff(<<"all", k[1], k[2], k[3]>>, MissingEverywhere(st, k), {})
      BY <2>2 DEF ForAll
    <3>2. d.label = <<"all", k[1], k[2], k[3]>> /\ d.removed = {}
      BY <3>1, DiffFields
    <3> QED
      BY <2>1, <3>2, EntriesAre
  <2>3. CASE ForObject(st, r, d)
    <3>1. PICK k \in GrantKeys(st) : k[2] = r /\ d = PrivDiff(<<"on", k[1]>>, Missing(st, k), Extra(st, k))
      BY <2>3 DEF ForObject
    <3>2. d.label = <<"on", k[1]>> /\ d.removed = Extra(st, k)
      BY <3>1, DiffFields
    <3>3. PICK q \in Extra(st, k) : e = <<k[1], r, q>>
      BY <2>1, <3>2, EntriesAre
    <3>5. k = <<k[1], r>>
      BY <1>1, <3>1
    <3>4. IsTaken(st, k[1], r, q)
      BY <3>1, <3>3, <3>5 DEF IsTaken
    <3> QED
      BY <3>3, <3>4
  <2>4. CASE ForDefault(st, r, d)
    <3>1. PICK k \in DefaultKeys(st) : d.label = <<"default", k>>
      BY <2>4, DiffFields DEF ForDefault
    <3> QED
      BY <2>1, <3>1
  <2> QED
    BY <2>2, <2>3, <2>4, ShownForms
<1>5. ASSUME NEW k \in WideKeys, NEW o \in Relations(c, k[1], k[2], k[3]), NEW q \in MissingEverywhere(st, k),
             e = <<o, k[4], q>>
      PROVE  ShownGiven(c, st, e, FALSE)
  <2> DEFINE d == PrivDiff(<<"all", k[1], k[2], k[3]>>, MissingEverywhere(st, k), {})
  <2>1. d.label = <<"all", k[1], k[2], k[3]>> /\ d.added = MissingEverywhere(st, k)
    BY DiffFields
  <2>2. k[4] \in Managed
    BY WideKeyIs
  <2>6. ForAll(st, k[4], d)
    BY <1>5 DEF ForAll
  <2> HIDE DEF d
  <2>3. d \in Shown(st, k[4])
    BY <1>5, <2>1, <2>2, <2>6, ShownForms
  <2>4. e \in Entries(c, d.label, k[4], d.added)
    BY <1>5, <2>1, EntriesAre
  <2>5. (d.label[1] = "default") = FALSE
    BY <2>1
  <2> QED
    BY <2>2, <2>3, <2>4, <2>5 DEF ShownGiven
<1>6. ASSUME NEW k \in GrantKeys(st), NEW q,
             \/ q \in Missing(st, k)
             \/ q \in Extra(st, k),
             e = <<k[1], k[2], q>>
      PROVE  /\ q \in Missing(st, k) => ShownGiven(c, st, e, FALSE)
             /\ q \in Extra(st, k) => ShownTaken(c, st, e, FALSE)
  <2> DEFINE d == PrivDiff(<<"on", k[1]>>, Missing(st, k), Extra(st, k))
  <2>1. d.label = <<"on", k[1]>> /\ d.added = Missing(st, k) /\ d.removed = Extra(st, k)
    BY DiffFields
  <2>2. k[2] \in Managed
    BY <1>1
  <2>6. ForObject(st, k[2], d)
    BY <1>6 DEF ForObject
  <2> HIDE DEF d
  <2>3. d \in Shown(st, k[2])
    BY <1>6, <2>1, <2>2, <2>6, ShownForms
  <2>4. /\ q \in Missing(st, k) => e \in Entries(c, d.label, k[2], d.added)
        /\ q \in Extra(st, k) => e \in Entries(c, d.label, k[2], d.removed)
    BY <1>6, <2>1, EntriesAre
  <2>5. (d.label[1] = "default") = FALSE
    BY <2>1
  <2> QED
    BY <2>2, <2>3, <2>4, <2>5 DEF ShownGiven, ShownTaken
<1>7. ASSUME NEW o, NEW r, NEW q, e = <<o, r, q>>
      PROVE  /\ IsGiven(c, st, o, r, q) => ShownGiven(c, st, e, FALSE)
             /\ IsTaken(st, o, r, q) => ShownTaken(c, st, e, FALSE)
  <2> DEFINE k == <<o, r>>
  <2>1. k[1] = o /\ k[2] = r
    OBVIOUS
  <2> HIDE DEF k
  <2>2. /\ k \in GrantKeys(st) /\ q \in Missing(st, k) => ShownGiven(c, st, e, FALSE)
        /\ k \in GrantKeys(st) /\ q \in Extra(st, k) => ShownTaken(c, st, e, FALSE)
    BY <1>6, <1>7, <2>1
  <2> QED
    BY <1>5, <1>7, <2>2 DEF IsGiven, IsTaken, k
<1>8. ShownGiven(c, st, e, FALSE) <=> \E o, r, q : e = <<o, r, q>> /\ IsGiven(c, st, o, r, q)
  BY <1>3, <1>7
<1>9. ShownTaken(c, st, e, FALSE) <=> \E o, r, q : e = <<o, r, q>> /\ IsTaken(st, o, r, q)
  BY <1>4, <1>7
<1> QED
  BY <1>8, <1>9 DEF st

LEMMA DefaultKeyManaged ==
  ASSUME NEW st, NEW k \in DefaultKeys(st)
  PROVE  k[3] \in Managed \/ k[5] \in Managed
<1>1. PICK e \in DesiredDefaults \cup ActualDefaults(st) : k = DefaultKey(e)
  BY DEF DefaultKeys
<1>2. e[3] \in Managed \/ e[5] \in Managed
  BY <1>1, WantedDefaults DEF ActualDefaults
<1>3. k[3] = e[3] /\ k[5] = e[5]
  BY <1>1 DEF DefaultKey
<1> QED
  BY <1>2, <1>3

\* What of the default ACLs is shown.
LEMMA DefaultsShown ==
  ASSUME NEW c, Known(c), NEW e
  PROVE  LET st == Snapshot(c) IN
         /\ ShownGiven(c, st, e, TRUE) <=> DefaultGiven(st, e)
         /\ ShownTaken(c, st, e, TRUE) <=> DefaultTaken(st, e)
<1> DEFINE st == Snapshot(c)
<1>2. \A k \in DefaultKeys(st) : k = <<k[1], k[2], k[3], k[4], k[5]>>
  <2>1. st.dacl \subseteq c.dacl
    BY SnapshotFields DEF Known, Sound
  <2> QED
    BY <2>1, KeyNumbers DEF Known
<1> HIDE DEF st
<1>3. ASSUME NEW r \in Managed, NEW d \in Shown(st, r), d.label[1] = "default"
      PROVE  \E k \in DefaultKeys(st) :
               d.label = <<"default", k>> /\ d.added = MissingDefaults(st, k) /\ d.removed = ExtraDefaults(st, k)
  <2>1. CASE ForAll(st, r, d)
    <3>1. PICK k \in WideKeys : d.label = <<"all", k[1], k[2], k[3]>>
      BY <2>1, DiffFields DEF ForAll
    <3> QED
      BY <1>3, <3>1
  <2>2. CASE ForObject(st, r, d)
    <3>1. PICK k \in GrantKeys(st) : d.label = <<"on", k[1]>>
      BY <2>2, DiffFields DEF ForObject
    <3> QED
      BY <1>3, <3>1
  <2>3. CASE ForDefault(st, r, d)
    BY <2>3, DiffFields DEF ForDefault
  <2> QED
    BY <2>1, <2>2, <2>3, ShownForms
<1>4. ASSUME ShownGiven(c, st, e, TRUE)
      PROVE  \E k \in DefaultKeys(st) : \E q \in MissingDefaults(st, k) : e = DefaultOf(k, q)
  <2>0. PICK r \in Managed : \E d \in Shown(st, r) : d.label[1] = "default" /\ e \in Entries(c, d.label, r, d.added)
    BY <1>4 DEF ShownGiven
  <2>1. PICK d \in Shown(st, r) : d.label[1] = "default" /\ e \in Entries(c, d.label, r, d.added)
    BY <2>0
  <2>2. PICK k \in DefaultKeys(st) : d.label = <<"default", k>> /\ d.added = MissingDefaults(st, k)
    BY <1>3, <2>1
  <2> QED
    BY <1>2, <2>1, <2>2, EntriesAre
<1>5. ASSUME ShownTaken(c, st, e, TRUE)
      PROVE  \E k \in DefaultKeys(st) : \E q \in ExtraDefaults(st, k) : e = DefaultOf(k, q)
  <2>0. PICK r \in Managed : \E d \in Shown(st, r) : d.label[1] = "default" /\ e \in Entries(c, d.label, r, d.removed)
    BY <1>5 DEF ShownTaken
  <2>1. PICK d \in Shown(st, r) : d.label[1] = "default" /\ e \in Entries(c, d.label, r, d.removed)
    BY <2>0
  <2>2. PICK k \in DefaultKeys(st) : d.label = <<"default", k>> /\ d.removed = ExtraDefaults(st, k)
    BY <1>3, <2>1
  <2> QED
    BY <1>2, <2>1, <2>2, EntriesAre
<1>6. ASSUME NEW k \in DefaultKeys(st), NEW q, e = DefaultOf(k, q),
             q \in MissingDefaults(st, k) \/ q \in ExtraDefaults(st, k)
      PROVE  /\ q \in MissingDefaults(st, k) => ShownGiven(c, st, e, TRUE)
             /\ q \in ExtraDefaults(st, k) => ShownTaken(c, st, e, TRUE)
  <2> DEFINE d == PrivDiff(<<"default", k>>, MissingDefaults(st, k), ExtraDefaults(st, k))
             r == IF k[5] \in Managed THEN k[5] ELSE k[3]
  <2>1. d.label = <<"default", k>> /\ d.added = MissingDefaults(st, k) /\ d.removed = ExtraDefaults(st, k)
    BY DiffFields
  <2>2. r \in Managed
    BY DefaultKeyManaged
  <2>6. ForDefault(st, r, d)
    BY <1>6 DEF ForDefault
  <2> HIDE DEF d, r
  <2>3. d \in Shown(st, r)
    BY <1>6, <2>1, <2>2, <2>6, ShownForms
  <2>4. /\ q \in MissingDefaults(st, k) => e \in Entries(c, d.label, r, d.added)
        /\ q \in ExtraDefaults(st, k) => e \in Entries(c, d.label, r, d.removed)
    BY <1>2, <1>6, <2>1, EntriesAre
  <2>5. (d.label[1] = "default") = TRUE
    BY <2>1
  <2> QED
    BY <2>2, <2>3, <2>4, <2>5 DEF ShownGiven, ShownTaken
<1>8. ShownGiven(c, st, e, TRUE) <=> DefaultGiven(st, e)
  BY <1>4, <1>6 DEF DefaultGiven
<1>9. ShownTaken(c, st, e, TRUE) <=> DefaultTaken(st, e)
  BY <1>5, <1>6 DEF DefaultTaken
<1> QED
  BY <1>8, <1>9 DEF st

----------------------------------------------------------------------------
(* What is planned, entry by entry.                                        *)

\* A statement about entries is one of the planner's.
LEMMA EntryForms ==
  ASSUME NEW st, NEW s \in Diff(st)
  PROVE  /\ s.op = "grant all" => \E k \in WideKeys : s = WideOf(st, k)
         /\ s.op = "grant" => \E k \in GrantKeys(st) : s = GrantOf(st, k)
         /\ s.op = "revoke" => \E k \in GrantKeys(st) : s = RevokeOf(st, k)
         /\ s.op = "alter default grant" => \E k \in DefaultKeys(st) : s = AddOf(st, k)
         /\ s.op = "alter default revoke" => \E k \in DefaultKeys(st) : s = RemoveOf(st, k)
<1> DEFINE Goal == /\ s.op = "grant all" => \E k \in WideKeys : s = WideOf(st, k)
                   /\ s.op = "grant" => \E k \in GrantKeys(st) : s = GrantOf(st, k)
                   /\ s.op = "revoke" => \E k \in GrantKeys(st) : s = RevokeOf(st, k)
                   /\ s.op = "alter default grant" => \E k \in DefaultKeys(st) : s = AddOf(st, k)
                   /\ s.op = "alter default revoke" => \E k \in DefaultKeys(st) : s = RemoveOf(st, k)
           Other == s.op \notin {"grant all", "grant", "revoke", "alter default grant", "alter default revoke"}
<1>1. Other => Goal
  OBVIOUS
<1>2. ASSUME NEW r, s = CreateOf(r) \/ s = AlterOf(r) PROVE Other
  BY <1>2, RoleStatements
<1>3. ASSUME NEW m, s = JoinOf(m) \/ s = LeaveOf(m) \/ s = MapOf(m) \/ s = UnmapOf(m) PROVE Other
  BY <1>3, MemberStatements
<1>4. ASSUME NEW r, s = ReleaseOf(st, r) PROVE Other
  BY <1>4, ReleaseFields
<1>5. ASSUME NEW k \in WideKeys, s = WideOf(st, k) PROVE Goal
  <2>1. s.op = "grant all"
    BY <1>5, GrantStatements
  <2> QED
    BY <1>5, <2>1
<1>6. ASSUME NEW k \in GrantKeys(st), s \in {GrantOf(st, k), RevokeOf(st, k)} PROVE Goal
  <2>1. CASE s = GrantOf(st, k)
    <3>1. s.op = "grant"
      BY <2>1, GrantStatements
    <3> QED
      BY <2>1, <3>1
  <2>2. CASE s = RevokeOf(st, k)
    <3>1. s.op = "revoke"
      BY <2>2, GrantStatements
    <3> QED
      BY <2>2, <3>1
  <2> QED
    BY <1>6, <2>1, <2>2
<1>7. ASSUME NEW k \in DefaultKeys(st), s \in OfDefaultKey(st, k) PROVE Goal
  <2>1. CASE s = AddOf(st, k)
    <3>1. s.op = "alter default grant"
      BY <2>1, ChangeFields
    <3> QED
      BY <2>1, <3>1
  <2>2. CASE s = RemoveOf(st, k)
    <3>1. s.op = "alter default revoke"
      BY <2>2, ChangeFields
    <3> QED
      BY <2>2, <3>1
  <2>3. CASE s = BorrowOf(k) \/ s = UndoOf(st, k)
    <3>1. s.op \in {"borrow", "return", "drop"}
      BY <2>3, BorrowFields
    <3>2. Other
      BY <3>1
    <3> QED
      BY <1>1, <3>2
  <2> QED
    BY <1>7, <2>1, <2>2, <2>3 DEF OfDefaultKey
<1> HIDE DEF Goal, Other
<1>8. Goal
  BY <1>1, <1>2, <1>3, <1>4, <1>5, <1>6, <1>7, PlanForms
<1> QED
  BY <1>8 DEF Goal

\* What a statement about a key of the ACLs gives or takes.
LEMMA OfKey ==
  ASSUME NEW c, IsCatalog(c), Tidy(c), NEW st, st = Snapshot(c), NEW k \in GrantKeys(st)
  PROVE  /\ OnObject(GrantOf(st, k)) = {<<k[1], k[2], q>> : q \in Missing(st, k)}
         /\ OnObject(RevokeOf(st, k)) = {<<k[1], k[2], q>> : q \in Extra(st, k)}
<1>1. k[1] = <<k[1][1], k[1][2], k[1][3], k[1][4]>>
  BY GrantKeysPlaced, PlaceShapes
<1>2. ASSUME NEW s, s.args = ObjectArgs(k)
      PROVE  OnObject(s) = {<<k[1], k[2], q>> : q \in s.privs}
  <2>1. s.args[1] = k[1][1] /\ s.args[2] = k[1][2] /\ s.args[3] = k[1][3] /\ s.args[4] = k[1][4] /\ s.args[5] = k[2]
    BY <1>2, ObjectFields
  <2>2. <<s.args[1], s.args[2], s.args[3], s.args[4]>> = k[1]
    BY <1>1, <2>1
  <2> QED
    BY <2>1, <2>2 DEF OnObject
<1>3. GrantOf(st, k).args = ObjectArgs(k) /\ GrantOf(st, k).privs = Missing(st, k)
  BY GrantStatements
<1>4. RevokeOf(st, k).args = ObjectArgs(k) /\ RevokeOf(st, k).privs = Extra(st, k)
  BY GrantStatements
<1> QED
  BY <1>2, <1>3, <1>4

LEMMA OfWideKey ==
  ASSUME NEW c, NEW st, NEW k \in WideKeys
  PROVE  OnAll(c, WideOf(st, k))
           = UNION {{<<o, k[4], q>> : q \in MissingEverywhere(st, k)} : o \in Relations(c, k[1], k[2], k[3])}
<1> DEFINE s == WideOf(st, k)
<1>1. s.args = <<k[1], k[3], k[2], k[4]>> /\ s.privs = MissingEverywhere(st, k)
  BY GrantStatements
<1> HIDE DEF s
<1>2. s.args[1] = k[1] /\ s.args[2] = k[3] /\ s.args[3] = k[2] /\ s.args[4] = k[4]
  BY <1>1
<1>3. OnAll(c, s) = UNION {{<<o, k[4], q>> : q \in MissingEverywhere(st, k)} : o \in Relations(c, k[1], k[2], k[3])}
  BY <1>1, <1>2 DEF OnAll
<1> QED
  BY <1>3 DEF s

LEMMA AclPlanned ==
  ASSUME NEW c, IsCatalog(c), Tidy(c), NEW e
  PROVE  LET st == Snapshot(c) IN
         /\ (\E s \in Diff(st) : e \in Given(c, s)) <=> \E o, r, q : e = <<o, r, q>> /\ IsGiven(c, st, o, r, q)
         /\ (\E s \in Diff(st) : e \in Taken(s)) <=> \E o, r, q : e = <<o, r, q>> /\ IsTaken(st, o, r, q)
<1> DEFINE st == Snapshot(c)
<1>1. \A k \in GrantKeys(st) :
        /\ OnObject(GrantOf(st, k)) = {<<k[1], k[2], q>> : q \in Missing(st, k)}
        /\ OnObject(RevokeOf(st, k)) = {<<k[1], k[2], q>> : q \in Extra(st, k)}
        /\ k = <<k[1], k[2]>>
  BY OfKey, GrantKeysPlaced
<1> HIDE DEF st
<1>2. ASSUME NEW s \in Diff(st), e \in Given(c, s) PROVE \E o, r, q : e = <<o, r, q>> /\ IsGiven(c, st, o, r, q)
  <2>1. CASE s.op = "grant all"
    <3>1. PICK k \in WideKeys : s = WideOf(st, k)
      BY <2>1, EntryForms
    <3>2. e \in OnAll(c, WideOf(st, k))
      BY <1>2, <2>1, <3>1 DEF Given
    <3>3. \E o \in Relations(c, k[1], k[2], k[3]) : \E q \in MissingEverywhere(st, k) : e = <<o, k[4], q>>
      BY <3>2, OfWideKey
    <3>4. PICK o \in Relations(c, k[1], k[2], k[3]) : \E q \in MissingEverywhere(st, k) : e = <<o, k[4], q>>
      BY <3>3
    <3>5. PICK q \in MissingEverywhere(st, k) : e = <<o, k[4], q>>
      BY <3>4
    <3>6. IsGiven(c, st, o, k[4], q)
      BY <3>4, <3>5 DEF IsGiven
    <3> QED
      BY <3>5, <3>6
  <2>2. CASE s.op = "grant"
    <3>1. PICK k \in GrantKeys(st) : s = GrantOf(st, k)
      BY <2>2, EntryForms
    <3>2. e \in OnObject(GrantOf(st, k))
      BY <1>2, <2>2, <3>1 DEF Given
    <3>3. PICK q \in Missing(st, k) : e = <<k[1], k[2], q>>
      BY <1>1, <3>2
    <3>4. IsGiven(c, st, k[1], k[2], q)
      BY <1>1, <3>3 DEF IsGiven
    <3> QED
      BY <3>3, <3>4
  <2> QED
    BY <1>2, <2>1, <2>2 DEF Given
<1>3. ASSUME NEW s \in Diff(st), e \in Taken(s) PROVE \E o, r, q : e = <<o, r, q>> /\ IsTaken(st, o, r, q)
  <2>1. s.op = "revoke" /\ e \in OnObject(s)
    BY <1>3 DEF Taken
  <2>2. PICK k \in GrantKeys(st) : s = RevokeOf(st, k)
    BY <2>1, EntryForms
  <2>3. PICK q \in Extra(st, k) : e = <<k[1], k[2], q>>
    BY <1>1, <2>1, <2>2
  <2>4. IsTaken(st, k[1], k[2], q)
    BY <1>1, <2>3 DEF IsTaken
  <2> QED
    BY <2>3, <2>4
<1>4. ASSUME NEW k \in WideKeys, NEW o \in Relations(c, k[1], k[2], k[3]), NEW q \in MissingEverywhere(st, k),
             e = <<o, k[4], q>>
      PROVE  \E s \in Diff(st) : e \in Given(c, s)
  <2>1. WideOf(st, k) \in WideGrants(st)
    BY <1>4 DEF WideGrants, WideOf, WideKeys
  <2>2. WideOf(st, k) \in Diff(st)
    BY <2>1 DEF Diff
  <2>3. WideOf(st, k).op = "grant all"
    BY GrantStatements
  <2>4. e \in Given(c, WideOf(st, k))
    <3>1. e \in UNION {{<<x, k[4], p>> : p \in MissingEverywhere(st, k)} : x \in Relations(c, k[1], k[2], k[3])}
      BY <1>4
    <3>2. e \in OnAll(c, WideOf(st, k))
      BY <3>1, OfWideKey
    <3> QED
      BY <2>3, <3>2 DEF Given
  <2> QED
    BY <2>2, <2>4
<1>5. ASSUME NEW k \in GrantKeys(st), NEW q, e = <<k[1], k[2], q>>
      PROVE  /\ q \in Missing(st, k) => \E s \in Diff(st) : e \in Given(c, s)
             /\ q \in Extra(st, k) => \E s \in Diff(st) : e \in Taken(s)
  <2>1. /\ q \in Missing(st, k) => GrantOf(st, k) \in ObjectGrants(st)
        /\ q \in Extra(st, k) => RevokeOf(st, k) \in ObjectGrants(st)
    BY DEF ObjectGrants, GrantOf, RevokeOf, GrantKeys
  <2>2. ObjectGrants(st) \subseteq Diff(st)
    BY DEF Diff
  <2>3. GrantOf(st, k).op = "grant" /\ RevokeOf(st, k).op = "revoke"
    BY GrantStatements
  <2>4. /\ q \in Missing(st, k) => e \in Given(c, GrantOf(st, k))
        /\ q \in Extra(st, k) => e \in Taken(RevokeOf(st, k))
    BY <1>1, <1>5, <2>3 DEF Given, Taken
  <2> QED
    BY <2>1, <2>2, <2>4
<1>6. ASSUME NEW o, NEW r, NEW q, e = <<o, r, q>>
      PROVE  /\ IsGiven(c, st, o, r, q) => \E s \in Diff(st) : e \in Given(c, s)
             /\ IsTaken(st, o, r, q) => \E s \in Diff(st) : e \in Taken(s)
  <2> DEFINE k == <<o, r>>
  <2>1. k[1] = o /\ k[2] = r
    OBVIOUS
  <2> HIDE DEF k
  <2>2. /\ k \in GrantKeys(st) /\ q \in Missing(st, k) => \E s \in Diff(st) : e \in Given(c, s)
        /\ k \in GrantKeys(st) /\ q \in Extra(st, k) => \E s \in Diff(st) : e \in Taken(s)
    BY <1>5, <1>6, <2>1
  <2> QED
    BY <1>4, <1>6, <2>2 DEF IsGiven, IsTaken, k
<1>7. (\E s \in Diff(st) : e \in Given(c, s)) <=> \E o, r, q : e = <<o, r, q>> /\ IsGiven(c, st, o, r, q)
  BY <1>2, <1>6
<1>8. (\E s \in Diff(st) : e \in Taken(s)) <=> \E o, r, q : e = <<o, r, q>> /\ IsTaken(st, o, r, q)
  BY <1>3, <1>6
<1> QED
  BY <1>7, <1>8 DEF st

LEMMA DefaultsPlanned ==
  ASSUME NEW c, IsCatalog(c), Tidy(c), NEW e
  PROVE  LET st == Snapshot(c) IN
         /\ (\E s \in Diff(st) : e \in GivenDefaults(s)) <=> DefaultGiven(st, e)
         /\ (\E s \in Diff(st) : e \in TakenDefaults(s)) <=> DefaultTaken(st, e)
<1> DEFINE st == Snapshot(c)
<1> HIDE DEF st
<1>1. ASSUME NEW k
      PROVE  /\ e \in OnDefault(AddOf(st, k)) <=> \E q \in MissingDefaults(st, k) : e = DefaultOf(k, q)
             /\ e \in OnDefault(RemoveOf(st, k)) <=> \E q \in ExtraDefaults(st, k) : e = DefaultOf(k, q)
             /\ AddOf(st, k).op = "alter default grant" /\ RemoveOf(st, k).op = "alter default revoke"
  <2>1. ASSUME NEW s, s.args = k PROVE e \in OnDefault(s) <=> \E q \in s.privs : e = DefaultOf(k, q)
    BY <2>1 DEF OnDefault, DefaultOf
  <2>2. AddOf(st, k).args = k /\ AddOf(st, k).privs = MissingDefaults(st, k)
    BY ChangeFields
  <2>3. RemoveOf(st, k).args = k /\ RemoveOf(st, k).privs = ExtraDefaults(st, k)
    BY ChangeFields
  <2>4. AddOf(st, k).op = "alter default grant" /\ RemoveOf(st, k).op = "alter default revoke"
    BY ChangeFields
  <2> QED
    BY <2>1, <2>2, <2>3, <2>4
<1>2. ASSUME NEW s \in Diff(st), e \in GivenDefaults(s)
      PROVE  \E k \in DefaultKeys(st) : \E q \in MissingDefaults(st, k) : e = DefaultOf(k, q)
  <2>1. s.op = "alter default grant" /\ e \in OnDefault(s)
    BY <1>2 DEF GivenDefaults
  <2>2. PICK k \in DefaultKeys(st) : s = AddOf(st, k)
    BY <2>1, EntryForms
  <2>3. e \in OnDefault(AddOf(st, k))
    BY <2>1, <2>2
  <2> QED
    BY <1>1, <2>3
<1>3. ASSUME NEW s \in Diff(st), e \in TakenDefaults(s)
      PROVE  \E k \in DefaultKeys(st) : \E q \in ExtraDefaults(st, k) : e = DefaultOf(k, q)
  <2>1. s.op = "alter default revoke" /\ e \in OnDefault(s)
    BY <1>3 DEF TakenDefaults
  <2>2. PICK k \in DefaultKeys(st) : s = RemoveOf(st, k)
    BY <2>1, EntryForms
  <2>3. e \in OnDefault(RemoveOf(st, k))
    BY <2>1, <2>2
  <2> QED
    BY <1>1, <2>3
<1>4. ASSUME NEW k \in DefaultKeys(st), NEW q, e = DefaultOf(k, q)
      PROVE  /\ q \in MissingDefaults(st, k) => \E s \in Diff(st) : e \in GivenDefaults(s)
             /\ q \in ExtraDefaults(st, k) => \E s \in Diff(st) : e \in TakenDefaults(s)
  <2>1. /\ q \in MissingDefaults(st, k) => AddOf(st, k) \in DefaultPrivileges(st)
        /\ q \in ExtraDefaults(st, k) => RemoveOf(st, k) \in DefaultPrivileges(st)
    BY KeyStatements DEF DefaultPrivileges
  <2>2. DefaultPrivileges(st) \subseteq Diff(st)
    BY DEF Diff
  <2>3. /\ q \in MissingDefaults(st, k) => e \in GivenDefaults(AddOf(st, k))
        /\ q \in ExtraDefaults(st, k) => e \in TakenDefaults(RemoveOf(st, k))
    BY <1>1, <1>4 DEF GivenDefaults, TakenDefaults
  <2> QED
    BY <2>1, <2>2, <2>3
<1>5. (\E s \in Diff(st) : e \in GivenDefaults(s)) <=> DefaultGiven(st, e)
  BY <1>2, <1>4 DEF DefaultGiven
<1>6. (\E s \in Diff(st) : e \in TakenDefaults(s)) <=> DefaultTaken(st, e)
  BY <1>3, <1>4 DEF DefaultTaken
<1> QED
  BY <1>5, <1>6 DEF st

----------------------------------------------------------------------------
(* What becomes of a catalog when no statement works against another.      *)

LEMMA SameTriple ==
  ASSUME NEW o, NEW r, NEW q, NEW o2, NEW r2, NEW q2, <<o, r, q>> = <<o2, r2, q2>>
  PROVE  o = o2 /\ r = r2 /\ q = q2
OBVIOUS

\* No entry is both given and taken.
LEMMA AclApart ==
  ASSUME NEW c, IsCatalog(c), Tidy(c), ~MissingDatabase(Snapshot(c)), NEW e
  PROVE  LET plan == Diff(Snapshot(c)) IN
         (\E s \in plan : e \in Given(c, s)) => ~\E s \in plan : e \in Taken(s)
<1> DEFINE st == Snapshot(c)
<1>1. \A w \in Decl.wide : Relations(st, w[1], w[2], w[3]) = Relations(c, w[1], w[2], w[3])
  BY WantedSeen
<1> HIDE DEF st
<1>2. ASSUME NEW o, NEW r, NEW q, IsGiven(c, st, o, r, q), IsTaken(st, o, r, q) PROVE FALSE
  <2> DEFINE k == <<o, r>>
             f == <<o, r, q>>
  <2>1. q \notin Privileges(DesiredGrants(st), k)
    BY <1>2 DEF IsTaken, Extra
  <2>2. Key(f) = k /\ f[3] = q
    BY DEF Key
  <2>3. f \notin DesiredGrants(st)
    <3> HIDE DEF f, k
    <3> QED
      BY <2>1, <2>2 DEF Privileges
  <2>4. CASE \E w \in WideKeys : w[4] = r /\ o \in Relations(c, w[1], w[2], w[3]) /\ q \in MissingEverywhere(st, w)
    <3>1. PICK w \in WideKeys : w[4] = r /\ o \in Relations(c, w[1], w[2], w[3]) /\ q \in MissingEverywhere(st, w)
      BY <2>4
    <3>2. PICK v \in Decl.wide : WideKey(v) = w /\ v[5] = q
      BY <3>1 DEF MissingEverywhere
    <3>3. w[1] = v[1] /\ w[2] = v[2] /\ w[3] = v[3] /\ w[4] = v[4]
      BY <3>2 DEF WideKey
    <3>4. o \in Relations(st, v[1], v[2], v[3])
      BY <1>1, <3>1, <3>3
    <3>5. <<o, v[4], v[5]>> \in DesiredGrants(st)
      BY <3>4 DEF DesiredGrants
    <3> QED
      BY <2>3, <3>1, <3>2, <3>3, <3>5
  <2>5. CASE q \in Missing(st, k)
    <3> HIDE DEF k
    <3> QED
      BY <2>1, <2>5 DEF Missing
  <2> QED
    BY <1>2, <2>4, <2>5 DEF IsGiven
<1>3. ASSUME NEW o, NEW r, NEW q, e = <<o, r, q>>, IsGiven(c, st, o, r, q),
             NEW o2, NEW r2, NEW q2, e = <<o2, r2, q2>>, IsTaken(st, o2, r2, q2)
      PROVE  FALSE
  <2>1. o = o2 /\ r = r2 /\ q = q2
    BY <1>3, SameTriple
  <2> QED
    BY <1>2, <1>3, <2>1
<1>4. ASSUME \E s \in Diff(st) : e \in Given(c, s), \E s \in Diff(st) : e \in Taken(s) PROVE FALSE
  <2>1. \E o, r, q : e = <<o, r, q>> /\ IsGiven(c, st, o, r, q)
    BY <1>4, AclPlanned DEF st
  <2>2. \E o, r, q : e = <<o, r, q>> /\ IsTaken(st, o, r, q)
    BY <1>4, AclPlanned DEF st
  <2> QED
    BY <1>3, <2>1, <2>2
<1> QED
  BY <1>4 DEF st

LEMMA DefaultsApart ==
  ASSUME NEW c, IsCatalog(c), Tidy(c), NEW e
  PROVE  LET plan == Diff(Snapshot(c)) IN
         (\E s \in plan : e \in GivenDefaults(s)) => ~\E s \in plan : e \in TakenDefaults(s)
<1> DEFINE st == Snapshot(c)
<1>1. \A k \in DefaultKeys(st) : k = <<k[1], k[2], k[3], k[4], k[5]>>
  <2>1. st.dacl \subseteq c.dacl
    BY SnapshotFields
  <2> QED
    BY <2>1, KeyNumbers
<1> HIDE DEF st
<1>2. ASSUME NEW k \in DefaultKeys(st), NEW q \in MissingDefaults(st, k), e = DefaultOf(k, q),
             NEW l \in DefaultKeys(st), NEW p \in ExtraDefaults(st, l), e = DefaultOf(l, p)
      PROVE  FALSE
  <2>1. k[1] = l[1] /\ k[2] = l[2] /\ k[3] = l[3] /\ k[4] = l[4] /\ k[5] = l[5] /\ q = p
    BY <1>2 DEF DefaultOf
  <2>2. k = l
    BY <1>1, <2>1
  <2> QED
    BY <2>1, <2>2 DEF MissingDefaults, ExtraDefaults
<1>3. ASSUME \E s \in Diff(st) : e \in GivenDefaults(s), \E s \in Diff(st) : e \in TakenDefaults(s) PROVE FALSE
  <2>1. \E k \in DefaultKeys(st) : \E q \in MissingDefaults(st, k) : e = DefaultOf(k, q)
    BY <1>3, DefaultsPlanned DEF st, DefaultGiven, DefaultTaken
  <2>2. \E k \in DefaultKeys(st) : \E q \in ExtraDefaults(st, k) : e = DefaultOf(k, q)
    BY <1>3, DefaultsPlanned DEF st, DefaultGiven, DefaultTaken
  <2> QED
    BY <1>2, <2>1, <2>2
<1> QED
  BY <1>3 DEF st

\* What has become of c when the statements of S have taken effect.
Logs(s, r) == s.op \in {"create role", "alter role"} /\ s.args[1] = r
ToldRoles(c, S, d) == d.roles = c.roles \cup {r \in Managed : \E s \in S : Creates(s, r)}
ToldLogin(c, S, d) ==
  \A r : r \in d.login <=> IF \E s \in S : Logs(s, r) THEN r \in Decl.login ELSE r \in c.login
ToldMembers(c, S, d) ==
  \A m : m[1] # Me =>
    (m \in d.member <=> /\ m \in c.member \/ \E s \in S : s.op = "grant role" /\ Pair(s) = m
                        /\ ~\E s \in S : s.op = "revoke role" /\ Pair(s) = m)
ToldIam(c, S, d) ==
  \A m : m \in d.iam <=> /\ m \in c.iam \/ \E s \in S : s.op = "iam grant" /\ s.args = m
                         /\ ~\E s \in S : s.op = "iam revoke" /\ s.args = m
ToldEntries(c, S, d) ==
  /\ \A e : e \in d.acl <=> /\ e \in c.acl \/ \E s \in S : e \in Given(c, s)
                            /\ ~\E s \in S : e \in Taken(s)
  /\ \A e : e \in d.dacl <=> /\ e \in c.dacl \/ \E s \in S : e \in GivenDefaults(s)
                             /\ ~\E s \in S : e \in TakenDefaults(s)
Told(c, S, d) ==
  /\ IsCatalog(d) /\ d.owner = c.owner /\ d.open = c.open
  /\ ToldRoles(c, S, d) /\ ToldLogin(c, S, d) /\ ToldMembers(c, S, d) /\ ToldIam(c, S, d)
  /\ ToldEntries(c, S, d)

\* A plan for c in which no statement works against another, in any order.
Consistent(c, plan) ==
  /\ \A s \in plan : Lawful(s)
  /\ \A s \in plan : s.op \in {"create role", "alter role"} => s.args[2] = Flag(s.args[1] \in Decl.login)
  /\ \A s \in plan : s.op = "create role" => s.args[1] \notin c.login
  /\ \A s, t \in plan : s.op = "grant role" /\ t.op = "revoke role" => Pair(s) # Pair(t)
  /\ \A s, t \in plan : s.op = "iam grant" /\ t.op = "iam revoke" => s.args # t.args
  /\ \A s \in plan : s.op \in {"iam grant", "iam revoke"} => s.args = <<s.args[1], s.args[2]>>
  /\ \A s, t \in plan : Given(c, s) \cap Taken(t) = {}
  /\ \A s, t \in plan : GivenDefaults(s) \cap TakenDefaults(t) = {}

LEMMA ToldNothing ==
  ASSUME NEW c, IsCatalog(c)
  PROVE  Told(c, {}, c)
BY DEF Told, ToldRoles, ToldLogin, ToldMembers, ToldIam, ToldEntries

LEMMA ToldRolesStep ==
  ASSUME NEW c, NEW plan, Consistent(c, plan), NEW S \in SUBSET plan, NEW s \in S, NEW d, Told(c, S \ {s}, d)
  PROVE  ToldRoles(c, S, Effect(d, s)) /\ ToldLogin(c, S, Effect(d, s))
<1> DEFINE f == Effect(d, s)
<1>1. IsCatalog(d) /\ Lawful(s)
  BY DEF Told, Consistent
<1>2. /\ f.roles = IF s.op = "create role" THEN d.roles \cup {s.args[1]} ELSE d.roles
      /\ f.login = CASE s.op \in {"create role", "alter role"} /\ s.args[2] = 1 -> d.login \cup {s.args[1]}
                     [] s.op = "alter role" /\ s.args[2] # 1 -> d.login \ {s.args[1]}
                     [] OTHER -> d.login
  BY <1>1, EffectCluster
<1> HIDE DEF f
<1>3. d.roles = c.roles \cup {r \in Managed : \E t \in S \ {s} : Creates(t, r)}
  BY DEF Told, ToldRoles
<1>4. \A r : r \in d.login <=> IF \E t \in S \ {s} : Logs(t, r) THEN r \in Decl.login ELSE r \in c.login
  BY DEF Told, ToldLogin
<1>5. ToldRoles(c, S, f)
  <2>1. CASE s.op = "create role"
    <3>1. s.args[1] \in Managed /\ f.roles = d.roles \cup {s.args[1]}
      BY <1>1, <1>2, <2>1 DEF Lawful
    <3>2. \A r : (\E t \in S : Creates(t, r)) <=> r = s.args[1] \/ \E t \in S \ {s} : Creates(t, r)
      BY <2>1 DEF Creates
    <3> QED
      BY <1>3, <3>1, <3>2 DEF ToldRoles
  <2>2. CASE s.op # "create role"
    <3>1. \A r : (\E t \in S : Creates(t, r)) <=> \E t \in S \ {s} : Creates(t, r)
      BY <2>2 DEF Creates
    <3> QED
      BY <1>2, <1>3, <2>2, <3>1 DEF ToldRoles
  <2> QED
    BY <2>1, <2>2
<1>6. ToldLogin(c, S, f)
  <2>1. CASE s.op \in {"create role", "alter role"}
    <3>1. \A r : (\E t \in S : Logs(t, r)) <=> r = s.args[1] \/ \E t \in S \ {s} : Logs(t, r)
      BY <2>1 DEF Logs
    <3>2. \A r : r # s.args[1] => (r \in f.login <=> r \in d.login)
      BY <1>2, <2>1
    <3>3. s.args[2] = Flag(s.args[1] \in Decl.login)
      BY <2>1 DEF Consistent
    <3>4. s.args[1] \in f.login <=> s.args[1] \in Decl.login
      <4>1. CASE s.args[1] \in Decl.login
        <5>1. s.args[2] = 1
          BY <3>3, <4>1 DEF Flag
        <5> QED
          BY <1>2, <2>1, <4>1, <5>1
      <4>2. CASE s.args[1] \notin Decl.login
        <5>1. s.args[2] # 1
          BY <3>3, <4>2, NotOne DEF Flag
        <5>2. CASE s.op = "alter role"
          BY <1>2, <4>2, <5>1, <5>2
        <5>3. CASE s.op = "create role"
          <6>1. s.args[1] \notin c.login
            BY <5>3 DEF Consistent
          <6>2. s.args[1] \notin d.login
            BY <1>4, <4>2, <6>1
          <6> QED
            BY <1>2, <4>2, <5>1, <5>3, <6>2
        <5> QED
          BY <2>1, <5>2, <5>3
      <4> QED
        BY <4>1, <4>2
    <3>5. ASSUME NEW r
          PROVE  r \in f.login <=> IF \E t \in S : Logs(t, r) THEN r \in Decl.login ELSE r \in c.login
      <4>1. CASE r = s.args[1]
        BY <3>1, <3>4, <4>1
      <4>2. CASE r # s.args[1]
        BY <1>4, <3>1, <3>2, <4>2
      <4> QED
        BY <4>1, <4>2
    <3> QED
      BY <3>5 DEF ToldLogin
  <2>2. CASE s.op \notin {"create role", "alter role"}
    <3>1. \A r : (\E t \in S : Logs(t, r)) <=> \E t \in S \ {s} : Logs(t, r)
      BY <2>2 DEF Logs
    <3>2. f.login = d.login
      BY <1>2, <2>2
    <3>3. ASSUME NEW r
          PROVE  r \in f.login <=> IF \E t \in S : Logs(t, r) THEN r \in Decl.login ELSE r \in c.login
      BY <1>4, <3>1, <3>2
    <3> QED
      BY <3>3 DEF ToldLogin
  <2> QED
    BY <2>1, <2>2
<1> QED
  BY <1>5, <1>6 DEF f

LEMMA ToldPairsStep ==
  ASSUME Me \notin Managed,
         NEW c, NEW plan, Consistent(c, plan), NEW S \in SUBSET plan, NEW s \in S, NEW d, Told(c, S \ {s}, d)
  PROVE  ToldMembers(c, S, Effect(d, s)) /\ ToldIam(c, S, Effect(d, s))
<1> DEFINE f == Effect(d, s)
<1>1. IsCatalog(d) /\ Lawful(s)
  BY DEF Told, Consistent
<1>2. f.iam = CASE s.op = "iam grant" -> d.iam \cup {<<s.args[1], s.args[2]>>}
                [] s.op = "iam revoke" -> d.iam \ {<<s.args[1], s.args[2]>>}
                [] OTHER -> d.iam
  BY <1>1, EffectCluster
<1>3. /\ s.op = "grant role" => f.member = d.member \cup {Pair(s)}
      /\ s.op = "revoke role" => f.member = d.member \ {Pair(s)}
      /\ s.op \in {"create role", "borrow"} => f.member \in {d.member, d.member \cup {<<Me, s.args[1]>>}}
      /\ s.op = "drop" => f.member = d.member \ {<<Me, s.args[1]>>}
      /\ s.op \notin {"grant role", "revoke role", "create role", "borrow", "drop"} => f.member = d.member
  BY <1>1, EffectMembers
<1> HIDE DEF f
<1>4. ASSUME NEW m, m[1] # Me
      PROVE  m \in f.member <=> /\ m \in c.member \/ \E t \in S : t.op = "grant role" /\ Pair(t) = m
                                /\ ~\E t \in S : t.op = "revoke role" /\ Pair(t) = m
  <2>1. m \in d.member <=> /\ m \in c.member \/ \E t \in S \ {s} : t.op = "grant role" /\ Pair(t) = m
                           /\ ~\E t \in S \ {s} : t.op = "revoke role" /\ Pair(t) = m
    BY <1>4 DEF Told, ToldMembers
  <2>2. m # <<Me, s.args[1]>>
    BY <1>4
  <2>3. CASE s.op = "grant role"
    <3>1. \A t \in S : t.op = "revoke role" => Pair(t) # Pair(s)
      BY <2>3 DEF Consistent
    <3> QED
      BY <1>3, <2>1, <2>3, <3>1
  <2>4. CASE s.op = "revoke role"
    BY <1>3, <2>1, <2>4
  <2>5. CASE s.op \notin {"grant role", "revoke role"}
    <3>1. m \in f.member <=> m \in d.member
      BY <1>3, <2>2, <2>5
    <3> QED
      BY <2>1, <2>5, <3>1
  <2> QED
    BY <2>3, <2>4, <2>5
<1>5. ASSUME NEW m
      PROVE  m \in f.iam <=> /\ m \in c.iam \/ \E t \in S : t.op = "iam grant" /\ t.args = m
                             /\ ~\E t \in S : t.op = "iam revoke" /\ t.args = m
  <2>1. m \in d.iam <=> /\ m \in c.iam \/ \E t \in S \ {s} : t.op = "iam grant" /\ t.args = m
                        /\ ~\E t \in S \ {s} : t.op = "iam revoke" /\ t.args = m
    BY DEF Told, ToldIam
  <2>2. s.op \in {"iam grant", "iam revoke"} => s.args = <<s.args[1], s.args[2]>>
    BY DEF Consistent
  <2>3. CASE s.op = "iam grant"
    <3>1. \A t \in S : t.op = "iam revoke" => t.args # s.args
      BY <2>3 DEF Consistent
    <3>2. f.iam = d.iam \cup {s.args}
      BY <1>2, <2>2, <2>3
    <3> QED
      BY <2>1, <2>3, <3>1, <3>2
  <2>4. CASE s.op = "iam revoke"
    <3>1. f.iam = d.iam \ {s.args}
      BY <1>2, <2>2, <2>4
    <3> QED
      BY <2>1, <2>4, <3>1
  <2>5. CASE s.op \notin {"iam grant", "iam revoke"}
    <3>1. f.iam = d.iam
      BY <1>2, <2>5
    <3> QED
      BY <2>1, <2>5, <3>1
  <2> QED
    BY <2>3, <2>4, <2>5
<1> QED
  BY <1>4, <1>5 DEF ToldMembers, ToldIam, f

LEMMA ToldEntriesStep ==
  ASSUME NEW c, NEW plan, Consistent(c, plan), NEW S \in SUBSET plan, NEW s \in S, NEW d, Told(c, S \ {s}, d)
  PROVE  ToldEntries(c, S, Effect(d, s)) /\ Effect(d, s).owner = c.owner /\ Effect(d, s).open = c.open
<1> DEFINE f == Effect(d, s)
<1>1. IsCatalog(d) /\ Lawful(s) /\ d.owner = c.owner /\ d.open = c.open
  BY DEF Told, Consistent
<1>2. /\ f.owner = d.owner /\ f.open = d.open
      /\ f.acl = (d.acl \cup Given(d, s)) \ Taken(s)
      /\ f.dacl = (d.dacl \cup GivenDefaults(s)) \ TakenDefaults(s)
  BY <1>1, EffectEntries
<1>3. Given(d, s) = Given(c, s)
  BY <1>1, SameCounts
<1> HIDE DEF f
<1>4. ASSUME NEW e
      PROVE  e \in f.acl <=> /\ e \in c.acl \/ \E t \in S : e \in Given(c, t)
                             /\ ~\E t \in S : e \in Taken(t)
  <2>1. e \in d.acl <=> /\ e \in c.acl \/ \E t \in S \ {s} : e \in Given(c, t)
                        /\ ~\E t \in S \ {s} : e \in Taken(t)
    BY DEF Told, ToldEntries
  <2>2. e \in Given(c, s) => ~\E t \in S : e \in Taken(t)
    BY DEF Consistent
  <2> QED
    BY <1>2, <1>3, <2>1, <2>2
<1>5. ASSUME NEW e
      PROVE  e \in f.dacl <=> /\ e \in c.dacl \/ \E t \in S : e \in GivenDefaults(t)
                              /\ ~\E t \in S : e \in TakenDefaults(t)
  <2>1. e \in d.dacl <=> /\ e \in c.dacl \/ \E t \in S \ {s} : e \in GivenDefaults(t)
                         /\ ~\E t \in S \ {s} : e \in TakenDefaults(t)
    BY DEF Told, ToldEntries
  <2>2. e \in GivenDefaults(s) => ~\E t \in S : e \in TakenDefaults(t)
    BY DEF Consistent
  <2> QED
    BY <1>2, <2>1, <2>2
<1> QED
  BY <1>1, <1>2, <1>4, <1>5 DEF ToldEntries, f

LEMMA ToldStep ==
  ASSUME Me \notin Managed,
         NEW c, NEW plan, Consistent(c, plan), NEW S \in SUBSET plan, NEW s \in S, NEW d, Told(c, S \ {s}, d)
  PROVE  Told(c, S, Effect(d, s))
<1>1. IsCatalog(Effect(d, s))
  BY EffectLawful DEF Told, Consistent
<1> QED
  BY <1>1, ToldRolesStep, ToldPairsStep, ToldEntriesStep DEF Told

LEMMA PlanConsistent ==
  ASSUME NEW c, Known(c), ~PlanFails(Snapshot(c))
  PROVE  Consistent(c, Diff(Snapshot(c)))
<1> DEFINE st == Snapshot(c)
           plan == Diff(st)
<1>1. Sound(c) /\ IsCatalog(c) /\ Tidy(c) /\ ~MissingDatabase(st)
  BY DEF Known, Sound, PlanFails
<1>2. \A s \in plan : Lawful(s)
  BY PlanLawful
<1>3. RolesLeft(c, plan) /\ MembersLeft(c, plan) /\ IamLeft(c, plan)
  BY <1>1, PlanRoles, PlanMembers, PlanIam
<1>4. \A e : (\E s \in plan : e \in Given(c, s)) => ~\E s \in plan : e \in Taken(s)
  BY <1>1, AclApart
<1>5. \A e : (\E s \in plan : e \in GivenDefaults(s)) => ~\E s \in plan : e \in TakenDefaults(s)
  BY <1>1, DefaultsApart
<1>6. ASSUME NEW s \in plan, s.op = "create role" PROVE s.args[1] \notin c.login
  <2>1. s \in CreateRoles(st)
    BY <1>6, PlanKinds
  <2>2. PICK r \in Managed \ st.roles : s = CreateOf(r)
    BY <2>1 DEF CreateRoles, CreateOf
  <2>4. s.args[1] = r
    BY <2>2, RoleStatements
  <2>3. st.roles = c.roles /\ c.login \subseteq c.roles
    BY <1>1, SnapshotFields DEF Sound, WellFormed
  <2> QED
    BY <2>2, <2>3, <2>4
<1> HIDE DEF plan
<1>7. /\ \A s \in plan : s.op \in {"create role", "alter role"} => s.args[2] = Flag(s.args[1] \in Decl.login)
      /\ \A s, t \in plan : s.op = "grant role" /\ t.op = "revoke role" => Pair(s) # Pair(t)
      /\ \A s, t \in plan : s.op = "iam grant" /\ t.op = "iam revoke" => s.args # t.args
      /\ \A s \in plan : s.op \in {"iam grant", "iam revoke"} => s.args = <<s.args[1], s.args[2]>>
  BY <1>3 DEF RolesLeft, MembersLeft, IamLeft
<1>8. \A s, t \in plan : Given(c, s) \cap Taken(t) = {} /\ GivenDefaults(s) \cap TakenDefaults(t) = {}
  BY <1>4, <1>5
<1>9. \A s \in plan : s.op = "create role" => s.args[1] \notin c.login
  BY <1>6
<1> QED
  BY <1>2, <1>7, <1>8, <1>9 DEF Consistent, plan, st

\* What a plan makes of the catalog it was made for.
LEMMA OutcomeTold ==
  ASSUME Me \notin Managed, NEW c, Known(c), ~PlanFails(Snapshot(c))
  PROVE  LET plan == Diff(Snapshot(c)) IN Told(c, plan, Outcome(c, plan))
<1> DEFINE plan == Diff(Snapshot(c))
<1>1. /\ IsFiniteSet(plan) /\ Consistent(c, plan) /\ IsCatalog(c)
      /\ \A S \in SUBSET plan : S # {} => \E x : IsLast(S, x)
  BY PlanFinite, PlanConsistent, PlanLast DEF Known, Sound
<1> HIDE DEF plan
<1>2. PICK f : Chronicle(f, c, plan) /\ Outcome(c, plan) = f[plan]
  BY <1>1, OutcomeIs
<1> DEFINE P == {n \in Nat : \A S \in SUBSET plan : Cardinality(S) = n => Told(c, S, f[S])}
<1>3. \A S \in SUBSET plan :
        /\ IsFiniteSet(S) /\ Cardinality(S) \in Nat
        /\ f[S] = IF S = {} THEN c ELSE Effect(f[S \ {LastIn(S)}], LastIn(S))
  BY <1>1, <1>2, FS_Subset, FS_CardinalityType DEF Chronicle
<1>4. 0 \in P
  <2>1. ASSUME NEW S \in SUBSET plan, Cardinality(S) = 0 PROVE Told(c, S, f[S])
    <3>1. S = {}
      BY <1>3, <2>1, FS_EmptySet
    <3>2. f[S] = c
      BY <1>3, <3>1
    <3> QED
      BY <1>1, <3>1, <3>2, ToldNothing
  <2> QED
    BY <2>1
<1>5. ASSUME NEW n \in P PROVE n + 1 \in P
  <2>1. n \in Nat /\ \A S \in SUBSET plan : Cardinality(S) = n => Told(c, S, f[S])
    OBVIOUS
  <2>2. ASSUME NEW S \in SUBSET plan, Cardinality(S) = n + 1 PROVE Told(c, S, f[S])
    <3>1. S # {}
      <4>1. Cardinality({}) = 0
        BY FS_EmptySet
      <4> QED
        BY <2>1, <2>2, <4>1
    <3>2. \E x \in S : \A t \in S \ {x} : Precedes(t, x)
      BY <1>1, <3>1 DEF IsLast
    <3>3. LastIn(S) \in S
      BY <3>2 DEF LastIn
    <3>4. IsFiniteSet(S)
      BY <1>3
    <3>5. Cardinality(S \ {LastIn(S)}) = Cardinality(S) - 1
      BY <3>3, <3>4, FS_RemoveElement
    <3>6. Told(c, S \ {LastIn(S)}, f[S \ {LastIn(S)}])
      BY <2>1, <2>2, <3>5
    <3>7. Told(c, S, Effect(f[S \ {LastIn(S)}], LastIn(S)))
      BY <1>1, <3>3, <3>6, ToldStep
    <3> QED
      BY <1>3, <3>1, <3>7
  <2> QED
    BY <2>1, <2>2
<1> HIDE DEF P
<1>6. P = Nat
  BY <1>4, <1>5, NatInductionOnSets DEF P
<1>7. Cardinality(plan) \in P
  BY <1>1, <1>6, FS_CardinalityType
<1>8. Told(c, plan, f[plan])
  BY <1>7 DEF P
<1> QED
  BY <1>2, <1>8 DEF plan

----------------------------------------------------------------------------
(* What is planned is what is shown.                                       *)

LEMMA ChangeIs ==
  ASSUME NEW before, NEW after
  PROVE  /\ Change(before, after) = <<>> <=> before = after
         /\ before # after => Change(before, after)[2] = after
<1>1. <<before, after>> # <<>> /\ <<before, after>>[2] = after
  OBVIOUS
<1> QED
  BY <1>1, Zenon DEF Change

LEMMA ReplacedIs ==
  ASSUME NEW pairs, \A m \in pairs : m = <<m[1], m[2]>>,
         NEW wanted, \A m \in wanted : m = <<m[1], m[2]>>,
         NEW diffs, NEW field, \A r \in Managed : diffs[r][field] = Change(Second(pairs, r), Second(wanted, r)),
         NEW m
  PROVE  m \in Replaced(pairs, diffs, field) <=>
           (m \in pairs /\ m[1] \notin Managed) \/ (m \in wanted /\ m[1] \in Managed)
<1>1. \A r \in Managed :
        /\ diffs[r][field] = <<>> <=> Second(pairs, r) = Second(wanted, r)
        /\ diffs[r][field] # <<>> => diffs[r][field][2] = Second(wanted, r)
  BY ChangeIs
<1>2. \A r, x : /\ x \in Second(pairs, r) <=> <<r, x>> \in pairs
                /\ x \in Second(wanted, r) <=> <<r, x>> \in wanted
  <2>1. ASSUME NEW S, \A n \in S : n = <<n[1], n[2]>>, NEW r, NEW x
        PROVE  x \in Second(S, r) <=> <<r, x>> \in S
    <3>1. ASSUME x \in Second(S, r) PROVE <<r, x>> \in S
      <4>1. PICK n \in S : n[1] = r /\ n[2] = x
        BY <3>1 DEF Second
      <4>2. n = <<r, x>>
        BY <2>1, <4>1
      <4> QED
        BY <4>2
    <3>2. ASSUME <<r, x>> \in S PROVE x \in Second(S, r)
      <4> DEFINE n == <<r, x>>
      <4>1. n \in S /\ n[1] = r /\ n[2] = x
        BY <3>2
      <4> HIDE DEF n
      <4> QED
        BY <4>1 DEF Second
    <3> QED
      BY <3>1, <3>2
  <2> QED
    BY <2>1
<1>3. ASSUME m \in Replaced(pairs, diffs, field)
      PROVE  (m \in pairs /\ m[1] \notin Managed) \/ (m \in wanted /\ m[1] \in Managed)
  <2>1. CASE m \in pairs /\ (m[1] \notin Managed \/ diffs[m[1]][field] = <<>>)
    <3>1. m = <<m[1], m[2]>>
      BY <2>1
    <3>2. m[1] \in Managed => (m[2] \in Second(pairs, m[1]) <=> m[2] \in Second(wanted, m[1]))
      BY <1>1, <2>1
    <3>3. m[1] \in Managed => (<<m[1], m[2]>> \in pairs <=> <<m[1], m[2]>> \in wanted)
      BY <1>2, <3>2
    <3> QED
      BY <2>1, <3>1, <3>3
  <2>2. CASE \E r \in Managed : diffs[r][field] # <<>> /\ m \in {r} \X diffs[r][field][2]
    <3>1. PICK r \in Managed : diffs[r][field] # <<>> /\ m \in {r} \X diffs[r][field][2]
      BY <2>2
    <3>2. m = <<m[1], m[2]>> /\ m[1] = r /\ m[2] \in Second(wanted, r)
      BY <1>1, <3>1
    <3>3. <<r, m[2]>> \in wanted
      BY <1>2, <3>2
    <3> QED
      BY <3>2, <3>3
  <2> QED
    BY <1>3, <2>1, <2>2 DEF Replaced
<1>4. ASSUME m \in pairs, m[1] \notin Managed PROVE m \in Replaced(pairs, diffs, field)
  BY <1>4 DEF Replaced
<1>5. ASSUME m \in wanted, m[1] \in Managed PROVE m \in Replaced(pairs, diffs, field)
  <2>1. m = <<m[1], m[2]>>
    BY <1>5
  <2>2. m[2] \in Second(wanted, m[1])
    BY <1>2, <1>5, <2>1
  <2>3. CASE diffs[m[1]][field] = <<>>
    <3>1. m[2] \in Second(pairs, m[1])
      BY <1>1, <1>5, <2>2, <2>3
    <3>2. m \in pairs
      BY <1>2, <2>1, <3>1
    <3> QED
      BY <2>3, <3>2 DEF Replaced
  <2>4. CASE diffs[m[1]][field] # <<>>
    <3>1. m \in {m[1]} \X diffs[m[1]][field][2]
      <4>1. m[2] \in diffs[m[1]][field][2]
        BY <1>1, <1>5, <2>2, <2>4
      <4> QED
        BY <2>1, <4>1
    <3> QED
      BY <1>5, <2>4, <3>1 DEF Replaced
  <2> QED
    BY <2>3, <2>4
<1> QED
  BY <1>3, <1>4, <1>5

LEMMA WantedPairs ==
  /\ \A m \in Decl.memberOf \cup Decl.iam : m = <<m[1], m[2]>> /\ m[1] \in Managed
BY ShapesAssumption, DeclAssumption DEF ValidDecl

LEMMA RolesAsExpected ==
  ASSUME NEW c, Known(c), NEW d, Told(c, Diff(Snapshot(c)), d)
  PROVE  LET expected == Expected(c, Diffs(Snapshot(c))) IN
         d.roles = expected.roles /\ \A r : r \in d.login <=> r \in expected.login
<1> DEFINE st == Snapshot(c)
           plan == Diff(st)
           diffs == Diffs(st)
           expected == Expected(c, diffs)
           new(r) == r \notin st.roles
           given == {r \in Managed : diffs[r].login # <<>>}
<1>1. st.roles = c.roles /\ st.login = c.login /\ RolesLeft(c, plan) /\ c.login \subseteq c.roles
  BY SnapshotFields, PlanRoles DEF Known, Sound, WellFormed
<1>2. \A s \in plan : Lawful(s)
  BY PlanLawful
<1>3. ToldRoles(c, plan, d) /\ ToldLogin(c, plan, d)
  BY DEF Told
<1>4. /\ expected.roles = c.roles \cup {r \in Managed : diffs[r].created}
      /\ expected.login = (c.login \ given) \cup {r \in given : diffs[r].login[2]}
  BY DEF Expected
<1>5. \A r \in Managed : /\ diffs[r].created = new(r)
                         /\ diffs[r].login = IF new(r) THEN <<FALSE, r \in Decl.login>>
                                             ELSE Change(r \in st.login, r \in Decl.login)
  BY DEF Diffs, RoleDiff
<1> HIDE DEF plan, st, diffs, expected
<1>6. d.roles = expected.roles
  <2>1. \A r \in Managed : r \in c.roles \/ \E s \in plan : Creates(s, r)
    BY <1>1 DEF RolesLeft
  <2>2. d.roles = c.roles \cup Managed
    BY <1>3, <2>1 DEF ToldRoles
  <2>3. expected.roles = c.roles \cup Managed
    BY <1>1, <1>4, <1>5
  <2> QED
    BY <2>2, <2>3
<1>7. ASSUME NEW r \in Managed PROVE r \in expected.login <=> r \in Decl.login
  <2> DEFINE was == r \in c.login
             be == r \in Decl.login
  <2>1. CASE new(r)
    <3>1. diffs[r].login = <<FALSE, be>>
      BY <1>5, <2>1
    <3>2. diffs[r].login # <<>> /\ diffs[r].login[2] = be
      BY <3>1
    <3>3. r \in given
      BY <3>2
    <3>4. r \in expected.login <=> diffs[r].login[2]
      BY <1>4, <3>3, Zenon
    <3> QED
      BY <3>2, <3>4, Zenon
  <2>2. CASE ~new(r)
    <3>1. diffs[r].login = Change(was, be)
      BY <1>1, <1>5, <2>2
    <3>2. CASE was = be
      <4>1. diffs[r].login = <<>>
        BY <3>1, <3>2, ChangeIs
      <4>2. r \notin given
        BY <4>1
      <4>3. r \in expected.login <=> was
        BY <1>4, <4>2, Zenon
      <4> QED
        BY <3>2, <4>3, Zenon
    <3>3. CASE was # be
      <4>1. diffs[r].login # <<>> /\ diffs[r].login[2] = be
        <5> HIDE DEF was, be
        <5>1. Change(was, be) # <<>> /\ Change(was, be)[2] = be
          BY <3>3, ChangeIs
        <5> QED
          BY <3>1, <5>1, Zenon
      <4>2. r \in given
        BY <4>1
      <4>3. r \in expected.login <=> diffs[r].login[2]
        BY <1>4, <4>2, Zenon
      <4> QED
        BY <4>1, <4>3, Zenon
    <3> QED
      BY <3>2, <3>3
  <2> QED
    BY <2>1, <2>2
<1>8. ASSUME NEW r \in Managed PROVE r \in d.login <=> r \in Decl.login
  <2>1. CASE \E s \in plan : Logs(s, r)
    BY <1>3, <2>1 DEF ToldLogin
  <2>2. CASE ~\E s \in plan : Logs(s, r)
    <3>1. r \in d.login <=> r \in c.login
      BY <1>3, <2>2 DEF ToldLogin
    <3>2. r \in c.roles
      BY <1>1, <2>2 DEF RolesLeft, Creates, Logs
    <3>3. r \in Decl.login <=> r \in c.login
      BY <1>1, <2>2, <3>2 DEF RolesLeft, Logs
    <3> QED
      BY <3>1, <3>3
  <2> QED
    BY <2>1, <2>2
<1>9. ASSUME NEW r, r \notin Managed PROVE r \in d.login <=> r \in expected.login
  <2>1. ~\E s \in plan : Logs(s, r)
    <3> SUFFICES ASSUME NEW s \in plan, Logs(s, r) PROVE FALSE
      OBVIOUS
    <3>1. Lawful(s) /\ s.op \in {"create role", "alter role"} /\ s.args[1] = r
      BY <1>2 DEF Logs
    <3>2. s.args[1] \in Managed
      BY <3>1 DEF Lawful
    <3> QED
      BY <1>9, <3>1, <3>2
  <2>2. r \in d.login <=> r \in c.login
    BY <1>3, <2>1 DEF ToldLogin
  <2>3. r \in expected.login <=> r \in c.login
    BY <1>4, <1>9
  <2> QED
    BY <2>2, <2>3
<1>10. \A r : r \in d.login <=> r \in expected.login
  BY <1>7, <1>8, <1>9
<1> QED
  BY <1>6, <1>10 DEF expected, diffs, st

LEMMA MembersAsExpected ==
  ASSUME NEW c, Known(c), NEW d, Told(c, Diff(Snapshot(c)), d), NEW m, m[1] # Me
  PROVE  m \in d.member <=> m \in Expected(c, Diffs(Snapshot(c))).member
<1> DEFINE st == Snapshot(c)
           plan == Diff(st)
           diffs == Diffs(st)
<1>1. /\ st.member = c.member /\ MembersLeft(c, plan) /\ ToldMembers(c, plan, d)
      /\ \A s \in plan : Lawful(s)
  BY SnapshotFields, PlanMembers, PlanLawful DEF Known, Sound, Told
<1>2. \A n \in c.member : n = <<n[1], n[2]>>
  BY DEF Known, Sound, WellFormed
<1>3. Expected(c, diffs).member = Replaced(c.member, diffs, "members")
  BY DEF Expected
<1>4. \A r \in Managed : diffs[r]["members"] = Change(Second(st.member, r), Second(Decl.memberOf, r))
  BY DEF Diffs, RoleDiff
<1> HIDE DEF st, plan, diffs
<1>5. \A r \in Managed : diffs[r]["members"] = Change(Second(c.member, r), Second(Decl.memberOf, r))
  BY <1>1, <1>4
<1>6. m \in Replaced(c.member, diffs, "members") <=>
        (m \in c.member /\ m[1] \notin Managed) \/ (m \in Decl.memberOf /\ m[1] \in Managed)
  BY <1>2, <1>5, WantedPairs, ReplacedIs
<1>7. m \in d.member <=> /\ m \in c.member \/ \E s \in plan : s.op = "grant role" /\ Pair(s) = m
                         /\ ~\E s \in plan : s.op = "revoke role" /\ Pair(s) = m
  BY <1>1 DEF ToldMembers
<1>8. ASSUME NEW s \in plan, s.op = "revoke role", Pair(s) = m PROVE m[1] \in Managed
  <2>1. s.args[2] \in Managed
    BY <1>1, <1>8 DEF Lawful
  <2>2. Pair(s)[1] = s.args[2]
    BY DEF Pair
  <2> QED
    BY <1>8, <2>1, <2>2
<1>9. m \in d.member <=> (m \in c.member /\ m[1] \notin Managed) \/ (m \in Decl.memberOf /\ m[1] \in Managed)
  <2>1. ASSUME m \in d.member
        PROVE  (m \in c.member /\ m[1] \notin Managed) \/ (m \in Decl.memberOf /\ m[1] \in Managed)
    <3>1. CASE m \in c.member
      BY <1>1, <1>7, <2>1, <3>1 DEF MembersLeft
    <3>2. CASE \E s \in plan : s.op = "grant role" /\ Pair(s) = m
      <4>1. m \in Decl.memberOf
        BY <1>1, <3>2 DEF MembersLeft
      <4> QED
        BY <4>1, WantedPairs
    <3> QED
      BY <1>7, <2>1, <3>1, <3>2
  <2>2. ASSUME m \in c.member, m[1] \notin Managed PROVE m \in d.member
    BY <1>7, <1>8, <2>2
  <2>3. ASSUME m \in Decl.memberOf PROVE m \in d.member
    BY <1>1, <1>7, <2>3 DEF MembersLeft
  <2> QED
    BY <2>1, <2>2, <2>3
<1> QED
  BY <1>3, <1>6, <1>9 DEF diffs, st

LEMMA IamAsExpected ==
  ASSUME NEW c, Known(c), NEW d, Told(c, Diff(Snapshot(c)), d), NEW m
  PROVE  m \in d.iam <=> m \in Expected(c, Diffs(Snapshot(c))).iam
<1> DEFINE st == Snapshot(c)
           plan == Diff(st)
           diffs == Diffs(st)
<1>1. /\ IamLeft(c, plan) /\ ToldIam(c, plan, d)
      /\ \A s \in plan : Lawful(s)
  BY PlanIam, PlanLawful DEF Known, Told
<1>2. \A n \in c.iam : n = <<n[1], n[2]>> /\ n[1] \in c.roles
  BY DEF Known, Sound, WellFormed, Tidy
<1>3. Expected(c, diffs).iam = Replaced(c.iam, diffs, "principals")
  BY DEF Expected
<1>4. \A r \in Managed : diffs[r]["principals"]
        = IF IAMPrincipals THEN Change(Second(st.iam, r), Second(Decl.iam, r)) ELSE <<>>
  BY DEF Diffs, RoleDiff
<1>5. st.iam = IF IAMPrincipals THEN {e \in c.iam : e[1] \in c.roles} ELSE {}
  BY SnapshotFields DEF Known, Sound
<1>6. m \in d.iam <=> /\ m \in c.iam \/ \E s \in plan : s.op = "iam grant" /\ s.args = m
                      /\ ~\E s \in plan : s.op = "iam revoke" /\ s.args = m
  BY <1>1 DEF ToldIam
<1>7. \A s \in plan : s.op \in {"iam grant", "iam revoke"} => s \in IamStatements(st)
  BY PlanKinds
<1> HIDE DEF st, plan, diffs
<1>8. CASE IAMPrincipals
  <2>1. st.iam = c.iam
    BY <1>2, <1>5, <1>8
  <2>2. \A r \in Managed : diffs[r]["principals"] = Change(Second(c.iam, r), Second(Decl.iam, r))
    BY <1>4, <1>8, <2>1
  <2>3. m \in Replaced(c.iam, diffs, "principals") <=>
          (m \in c.iam /\ m[1] \notin Managed) \/ (m \in Decl.iam /\ m[1] \in Managed)
    BY <1>2, <2>2, WantedPairs, ReplacedIs
  <2>4. ASSUME NEW s \in plan, s.op = "iam revoke", s.args = m PROVE m[1] \in Managed
    BY <1>1, <2>4 DEF Lawful
  <2>5. ASSUME m \in d.iam
        PROVE  (m \in c.iam /\ m[1] \notin Managed) \/ (m \in Decl.iam /\ m[1] \in Managed)
    <3>1. CASE m \in c.iam
      BY <1>1, <1>6, <1>8, <2>5, <3>1, WantedPairs DEF IamLeft
    <3>2. CASE \E s \in plan : s.op = "iam grant" /\ s.args = m
      <4>1. m \in Decl.iam
        BY <1>1, <3>2 DEF IamLeft
      <4> QED
        BY <4>1, WantedPairs
    <3> QED
      BY <1>6, <2>5, <3>1, <3>2
  <2>6. ASSUME m \in c.iam, m[1] \notin Managed PROVE m \in d.iam
    BY <1>6, <2>4, <2>6
  <2>7. ASSUME m \in Decl.iam PROVE m \in d.iam
    BY <1>1, <1>6, <1>8, <2>7 DEF IamLeft
  <2>8. m \in d.iam <=> m \in Replaced(c.iam, diffs, "principals")
    BY <2>3, <2>5, <2>6, <2>7
  <2> QED
    BY <1>3, <2>8 DEF diffs, st
<1>9. CASE ~IAMPrincipals
  <2>1. IamStatements(st) = {}
    BY <1>9 DEF IamStatements
  <2>2. m \in d.iam <=> m \in c.iam
    BY <1>6, <1>7, <2>1
  <2>3. \A r \in Managed : diffs[r]["principals"] = <<>>
    BY <1>4, <1>9
  <2>4. Replaced(c.iam, diffs, "principals") = c.iam
    BY <2>3 DEF Replaced
  <2> QED
    BY <1>3, <2>2, <2>4 DEF diffs, st
<1> QED
  BY <1>8, <1>9

LEMMA EntriesAsExpected ==
  ASSUME NEW c, Known(c), ~PlanFails(Snapshot(c)), NEW d, Told(c, Diff(Snapshot(c)), d), NEW e
  PROVE  LET expected == Expected(c, Diffs(Snapshot(c))) IN
         (e \in d.acl <=> e \in expected.acl) /\ (e \in d.dacl <=> e \in expected.dacl)
<1> DEFINE st == Snapshot(c)
           plan == Diff(st)
           expected == Expected(c, Diffs(st))
<1>1. IsCatalog(c) /\ Tidy(c) /\ ~MissingDatabase(st) /\ ToldEntries(c, plan, d)
  BY DEF Known, Sound, PlanFails, Told
<1>2. /\ (\E s \in plan : e \in Given(c, s)) <=> ShownGiven(c, st, e, FALSE)
      /\ (\E s \in plan : e \in Taken(s)) <=> ShownTaken(c, st, e, FALSE)
  BY <1>1, AclPlanned, AclShown
<1>3. /\ (\E s \in plan : e \in GivenDefaults(s)) <=> ShownGiven(c, st, e, TRUE)
      /\ (\E s \in plan : e \in TakenDefaults(s)) <=> ShownTaken(c, st, e, TRUE)
  BY <1>1, DefaultsPlanned, DefaultsShown
<1>4. /\ (\E s \in plan : e \in Given(c, s)) => ~\E s \in plan : e \in Taken(s)
      /\ (\E s \in plan : e \in GivenDefaults(s)) => ~\E s \in plan : e \in TakenDefaults(s)
  BY <1>1, AclApart, DefaultsApart
<1>5. /\ e \in Adjusted(c, c.acl, Diffs(st), FALSE) <=>
           (e \in c.acl /\ ~ShownTaken(c, st, e, FALSE)) \/ ShownGiven(c, st, e, FALSE)
      /\ e \in Adjusted(c, c.dacl, Diffs(st), TRUE) <=>
           (e \in c.dacl /\ ~ShownTaken(c, st, e, TRUE)) \/ ShownGiven(c, st, e, TRUE)
  BY AdjustedIs
<1>6. /\ expected.acl = Adjusted(c, c.acl, Diffs(st), FALSE)
      /\ expected.dacl = Adjusted(c, c.dacl, Diffs(st), TRUE)
  BY DEF Expected
<1> HIDE DEF st, plan, expected
<1>7. /\ e \in d.acl <=> /\ e \in c.acl \/ \E s \in plan : e \in Given(c, s)
                         /\ ~\E s \in plan : e \in Taken(s)
      /\ e \in d.dacl <=> /\ e \in c.dacl \/ \E s \in plan : e \in GivenDefaults(s)
                          /\ ~\E s \in plan : e \in TakenDefaults(s)
  BY <1>1 DEF ToldEntries
<1>8. (e \in d.acl <=> e \in expected.acl) /\ (e \in d.dacl <=> e \in expected.dacl)
  BY <1>2, <1>3, <1>4, <1>5, <1>6, <1>7
<1> QED
  BY <1>8 DEF expected, st

\* What the plan makes of the catalog it was made for is what is shown.
AsShown(c, plan) ==
  LET expected == Expected(c, Diffs(Snapshot(c)))
      done == Outcome(c, plan)
      ofOthers(pairs) == {m \in pairs : m[1] # Me}
  IN /\ <<done.roles, done.login, done.iam, done.acl, done.dacl>>
          = <<expected.roles, expected.login, expected.iam, expected.acl, expected.dacl>>
     /\ ofOthers(done.member) = ofOthers(expected.member)

LEMMA OutcomeAsShown ==
  ASSUME Me \notin Managed, NEW c, Known(c), ~PlanFails(Snapshot(c))
  PROVE  AsShown(c, Diff(Snapshot(c)))
<1> DEFINE plan == Diff(Snapshot(c))
           done == Outcome(c, plan)
           expected == Expected(c, Diffs(Snapshot(c)))
<1>1. Told(c, plan, done)
  BY OutcomeTold
<1> HIDE DEF done
<1>2. done.roles = expected.roles /\ \A r : r \in done.login <=> r \in expected.login
  BY <1>1, RolesAsExpected
<1>3. \A m : m[1] # Me => (m \in done.member <=> m \in expected.member)
  BY <1>1, MembersAsExpected
<1>4. \A m : m \in done.iam <=> m \in expected.iam
  BY <1>1, IamAsExpected
<1>5. \A e : (e \in done.acl <=> e \in expected.acl) /\ (e \in done.dacl <=> e \in expected.dacl)
  BY <1>1, EntriesAsExpected
<1> HIDE DEF expected
<1>6. done.login = expected.login /\ done.iam = expected.iam
  BY <1>2, <1>4
<1>7. done.acl = expected.acl /\ done.dacl = expected.dacl
  BY <1>5
<1>8. {m \in done.member : m[1] # Me} = {m \in expected.member : m[1] # Me}
  BY <1>3
<1> QED
  BY <1>2, <1>6, <1>7, <1>8 DEF AsShown, done, expected

----------------------------------------------------------------------------
(* No IAM mapping comes up that was not declared or there.                 *)

Maps(s) == s.op = "iam grant" => <<s.args[1], s.args[2]>> \in Mapped

IamForeseen ==
  /\ cat.iam \subseteq Mapped
  /\ \A p \in Operators : \A s \in Pending(p) : Maps(s)

LEMMA EffectMaps ==
  ASSUME NEW c, IsCatalog(c), c.iam \subseteq Mapped, NEW s, Lawful(s), Maps(s)
  PROVE  Effect(c, s).iam \subseteq Mapped
<1>1. \/ s.op = "iam grant" /\ Effect(c, s).iam = c.iam \cup {<<s.args[1], s.args[2]>>}
      \/ Effect(c, s).iam \subseteq c.iam
  <2>1. CASE s.op = "iam grant"
    BY <2>1, EffectCluster
  <2>2. CASE s.op = "iam revoke"
    BY <2>2, EffectCluster
  <2>3. CASE s.op \notin {"iam grant", "iam revoke"}
    BY <2>3, EffectCluster
  <2> QED
    BY <2>1, <2>2, <2>3
<1> QED
  BY <1>1 DEF Maps

LEMMA OthersMap ==
  ASSUME IsCatalog(cat), Others, cat.iam \subseteq Mapped
  PROVE  cat'.iam \subseteq Mapped
<1> USE DEF IsCatalog, Fields
<1>1. CASE HandGrant \/ HandDefault \/ HandMember \/ CloseDatabase
  <2>1. cat'.iam = cat.iam
    BY <1>1 DEF HandGrant, HandDefault, HandMember, CloseDatabase
  <2> QED
    BY <2>1
<1>2. CASE CreateRelation \/ DropRelation
  <2>1. cat'.iam = cat.iam
    BY <1>2 DEF CreateRelation, Created, DropRelation, WithoutRelation
  <2> QED
    BY <2>1
<1>3. CASE DropRole
  BY <1>3 DEF DropRole, WithoutRole
<1> QED
  BY <1>1, <1>2, <1>3 DEF Others

LEMMA RunMaps ==
  ASSUME TypeInv, IamForeseen, NEW p \in Operators, RunStep(p)
  PROVE  cat'.iam \subseteq Mapped
<1> DEFINE tx == op[p].tx
           P == {i \in Nat : Views(tx)[i].iam \subseteq Mapped}
<1>1. CASE cat' = cat
  BY <1>1 DEF IamForeseen
<1>2. CASE Committed(p)
  <2>1. PICK S : tx \in Seq(S) /\ \A t \in S : Lawful(t)
    BY DEF TypeInv, IInv, RunsLawful, RunLawful, TxLawful
  <2>2. Len(tx) \in Nat /\ DOMAIN tx = 1 .. Len(tx) /\ \A i \in 1 .. Len(tx) : Lawful(tx[i])
    BY <2>1
  <2>3. 0 \in P
    BY <2>2, ViewsSteps DEF IamForeseen
  <2>4. \A i \in 0 .. Len(tx) : IsCatalog(Views(tx)[i])
    BY <1>2, <2>1, ReplaysSound DEF TypeInv, Committed, Sound
  <2>5. ASSUME NEW i \in 0 .. Len(tx), i \in P, i < Len(tx) PROVE i + 1 \in P
    <3>1. i + 1 \in 1 .. Len(tx) /\ (i + 1) - 1 = i
      BY <2>2, <2>5
    <3>2. Views(tx)[i + 1] = Effect(Views(tx)[i], tx[i + 1])
      BY <2>2, <3>1, ViewsSteps
    <3>3. Maps(tx[i + 1])
      BY <2>2, <3>1 DEF IamForeseen, Pending
    <3>4. IsCatalog(Views(tx)[i]) /\ Lawful(tx[i + 1]) /\ Views(tx)[i].iam \subseteq Mapped
      BY <2>2, <2>4, <2>5, <3>1
    <3>5. Views(tx)[i + 1].iam \subseteq Mapped
      BY <3>2, <3>3, <3>4, EffectMaps
    <3> QED
      BY <3>5
  <2> HIDE DEF P
  <2>6. 0 .. Len(tx) \subseteq P
    BY <2>2, <2>3, <2>5, UpTo
  <2>7. Views(tx)[Len(tx)].iam \subseteq Mapped
    BY <2>2, <2>6 DEF P
  <2> QED
    BY <1>2, <2>7 DEF Committed, View
<1>3. ASSUME NEW s \in op[p].plan, Done(p, s) PROVE cat'.iam \subseteq Mapped
  <2>1. Lawful(s) /\ s \in Pending(p)
    BY PendingLawful DEF TypeInv, Pending
  <2>2. Maps(s)
    BY <2>1 DEF IamForeseen
  <2> QED
    BY <1>3, <2>1, <2>2, EffectMaps DEF Done, TypeInv, Sound, IamForeseen
<1> QED
  BY <1>1, <1>2, <1>3 DEF RunStep, Stops, Reads, Plans, Starts, Sends, Lands

LEMMA DiffMaps ==
  ASSUME NEW st, NEW s \in Diff(st)
  PROVE  Maps(s)
<1> SUFFICES ASSUME s.op = "iam grant" PROVE <<s.args[1], s.args[2]>> \in Mapped
  BY DEF Maps
<1>1. s \in IamStatements(st)
  BY PlanKinds
<1>2. PICK m : s = MapOf(m) /\ m \in Decl.iam
  BY <1>1, MemberStatements DEF IamStatements, MapOf, UnmapOf
<1>3. s.args = m /\ m = <<m[1], m[2]>>
  BY <1>2, MemberStatements, ShapesAssumption
<1> QED
  BY <1>2, <1>3 DEF Mapped

LEMMA IamStays ==
  ASSUME TidyInv, IamForeseen, [Next]_vars
  PROVE  IamForeseen'
<1>1. CASE UNCHANGED vars
  BY <1>1 DEF vars, IamForeseen, Pending
<1>2. CASE Others
  <2>1. op' = op /\ cat'.iam \subseteq Mapped
    BY <1>2, OthersMap DEF Others, IamForeseen, TidyInv, TypeInv, Sound
  <2> QED
    BY <2>1 DEF IamForeseen, Pending
<1>3. ASSUME NEW p \in Operators, Progress(p) \/ Interrupt(p) \/ LoseAnswer(p)
      PROVE  IamForeseen'
  <2>1. TypeInv /\ RunStep(p)
    BY <1>3, RunShape DEF TidyInv, TypeInv, RunsTyped, RunTyped, TxAtomic
  <2>2. cat'.iam \subseteq Mapped
    BY <2>1, RunMaps
  <2>3. /\ \A q \in Operators \ {p} : Pending(q)' = Pending(q)
        /\ \A s \in Pending(p)' : Maps(s)
    <3>1. CASE Pending(p)' \subseteq Pending(p)
      BY <2>1, <3>1, PendingStep DEF TypeInv, IamForeseen
    <3>2. ASSUME NEW st, FreshSnapshot(p, st), Pending(p)' = Diff(st)
          PROVE  \A s \in Pending(p)' : Maps(s)
      BY <3>2, DiffMaps
    <3> QED
      BY <2>1, <3>1, <3>2, PendingStep DEF TypeInv
  <2> QED
    BY <2>2, <2>3 DEF IamForeseen
<1> QED
  BY <1>1, <1>2, <1>3 DEF Next

LEMMA IamInit == Init => IamForeseen
<1> SUFFICES ASSUME Init PROVE IamForeseen
  OBVIOUS
<1>1. cat.iam \subseteq Mapped
  BY DEF Init, Mapped
<1>2. \A p \in Operators : op[p].plan = {} /\ op[p].tx = <<>>
  BY DEF Init, Idle
<1>3. \A p \in Operators : Pending(p) = {}
  BY <1>2 DEF Pending
<1> QED
  BY <1>1, <1>3 DEF IamForeseen

----------------------------------------------------------------------------
(* What a run has planned that nobody disturbs.                            *)

\* It is the plan for the catalog as it is.
Fresh ==
  \A p \in Operators \ stale :
    /\ op[p].phase = "reading" => ReadSoFar(cat, op[p].st, op[p].left)
    /\ op[p].phase = "planned" => ~PlanFails(Snapshot(cat)) /\ op[p].plan = Diff(Snapshot(cat))

LEMMA FreshReads ==
  ASSUME TidyInv, Fresh, NEW p \in Operators, p \notin stale',
         Progress(p) \/ Interrupt(p) \/ LoseAnswer(p), op'[p].phase \in {"reading", "planned"}
  PROVE  /\ op'[p].phase = "reading" => ReadSoFar(cat', op'[p].st, op'[p].left)
         /\ op'[p].phase = "planned" =>
              ~PlanFails(Snapshot(cat')) /\ op'[p].plan = Diff(Snapshot(cat'))
<1>1. IInv /\ TxAtomic /\ IsCatalog(cat)
  BY DEF TidyInv, TypeInv, Sound, RunsTyped, RunTyped, TxAtomic
<1>2. cat' = cat
  BY <1>1, HandShape
<1>3. PICK st, left :
        /\ \/ st = ReadCluster(cat, IAMPrincipals) /\ left = DatabasesToRead(st)
           \/ /\ op[p].phase = "reading" /\ (p \notin stale' => p \notin stale)
              /\ \E db \in ReadNext(op[p].left) \cap cat.open :
                   st = ReadDatabases(cat, op[p].st, {db}) /\ left = op[p].left \ {db}
        /\ op'[p].phase = "reading" => op'[p].st = st /\ op'[p].left = left
        /\ op'[p].phase = "planned" =>
             left = {} /\ ~PlanFails(st) /\ op'[p].plan = Diff(st) /\ op'[p].tx = <<>>
  BY <1>1, HandShape
<1>4. ReadSoFar(cat, st, left)
  <2>1. CASE st = ReadCluster(cat, IAMPrincipals) /\ left = DatabasesToRead(st)
    BY <1>1, <2>1, ReadFirst
  <2>2. ASSUME op[p].phase = "reading", p \notin stale, NEW db \in ReadNext(op[p].left) \cap cat.open,
               st = ReadDatabases(cat, op[p].st, {db}), left = op[p].left \ {db}
        PROVE  ReadSoFar(cat, st, left)
    <3>1. ReadSoFar(cat, op[p].st, op[p].left)
      BY <2>2 DEF Fresh
    <3> QED
      BY <1>1, <2>2, <3>1, ReadOneMore
  <2> QED
    BY <1>3, <2>1, <2>2
<1>5. ASSUME op'[p].phase = "planned" PROVE st = Snapshot(cat)
  BY <1>1, <1>3, <1>4, <1>5, ReadAll
<1> QED
  BY <1>2, <1>3, <1>4, <1>5

LEMMA FreshStep ==
  ASSUME TidyInv, Fresh, [Next]_vars
  PROVE  Fresh'
<1>1. CASE UNCHANGED vars
  BY <1>1 DEF vars, Fresh
<1>2. CASE Others
  <2>1. op' = op /\ (cat' # cat => Operators \subseteq stale') /\ (cat' = cat => stale' = stale)
    BY <1>2 DEF Others, Changed
  <2> QED
    BY <2>1 DEF Fresh
<1>3. ASSUME NEW p \in Operators, Progress(p) \/ Interrupt(p) \/ LoseAnswer(p)
      PROVE  Fresh'
  <2>1. RunStep(p)
    BY <1>3, RunShape DEF TidyInv, TypeInv, RunsTyped, RunTyped, TxAtomic
  <2>2. ASSUME NEW q \in Operators \ {p}, q \notin stale'
        PROVE  /\ op'[q].phase = "reading" => ReadSoFar(cat', op'[q].st, op'[q].left)
               /\ op'[q].phase = "planned" =>
                    ~PlanFails(Snapshot(cat')) /\ op'[q].plan = Diff(Snapshot(cat'))
    <3>1. op'[q] = op[q] /\ q \notin stale /\ cat' = cat
      BY <1>3, <2>1, <2>2, PlanStep, ReadingShape DEF TidyInv, TypeInv
    <3> QED
      BY <3>1 DEF Fresh
  <2>3. ASSUME p \notin stale'
        PROVE  /\ op'[p].phase = "reading" => ReadSoFar(cat', op'[p].st, op'[p].left)
               /\ op'[p].phase = "planned" =>
                    ~PlanFails(Snapshot(cat')) /\ op'[p].plan = Diff(Snapshot(cat'))
    BY <1>3, <2>3, FreshReads
  <2> QED
    BY <2>2, <2>3 DEF Fresh
<1> QED
  BY <1>1, <1>2, <1>3 DEF Next

LEMMA FreshInit == Init => Fresh
BY DEF Init, Fresh, Idle

\* "It carries the same information as the statements" (diff_display.go:12-14):
\* whatever is declared and whatever the server holds, what the operator is
\* shown before the question is what the plan does to the catalog, if nobody
\* touched it since the plan was made.
THEOREM ShownIsCarriedOut ==
  ASSUME Me \notin Managed
  PROVE  Spec => []ShownIsDone
<1>1. TidyInv /\ IamForeseen /\ Fresh /\ [Next]_vars => TidyInv' /\ IamForeseen' /\ Fresh'
  BY TidyNext, IamStays, FreshStep
<1>2. TidyInv /\ IamForeseen /\ Fresh => ShownIsDone
  <2> SUFFICES ASSUME TidyInv, IamForeseen, Fresh, NEW p \in Operators \ stale, op[p].phase = "planned"
               PROVE  AsShown(cat, op[p].plan)
    BY DEF ShownIsDone, AsShown
  <2>1. Known(cat)
    BY DEF Known, TidyInv, TypeInv, MembersForeseen, IamForeseen
  <2>2. ~PlanFails(Snapshot(cat)) /\ op[p].plan = Diff(Snapshot(cat))
    BY DEF Fresh
  <2> QED
    BY <2>1, <2>2, OutcomeAsShown
<1>3. Init => TidyInv /\ IamForeseen /\ Fresh
  BY TidyInit, IamInit, FreshInit
<1> QED
  BY <1>1, <1>2, <1>3, PTL DEF Spec

=============================================================================
