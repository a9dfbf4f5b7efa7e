----------------------------- MODULE RoleDiffs -----------------------------
(***************************************************************************)
(* What the operator is shown before the question: the change to each role *)
(* in the shape of the declaration, internal/plan/diff_display.go and the  *)
(* calls in plan.go that fill it.  It is computed beside the statements    *)
(* and not from them.  Order and layout are left out, so the diffs are a   *)
(* function from the managed roles; a default privilege is shown with its  *)
(* grantee, or with its creator if only that is managed.                   *)
(***************************************************************************)
EXTENDS Planner

\* A PrivDiff.  Its label names all relations of a kind in a schema, an object,
\* or the key of a default privilege.
PrivDiff(label, added, removed) == [label |-> label, added |-> added, removed |-> removed]

\* Mutant: nothing is shown unless something is added and something removed.
ShownIfBoth(diffs) == {d \in diffs : d.added # {} /\ d.removed # {}}

\* addPrivDiff
ShownDiffs(diffs) == {d \in diffs : d.added # {} \/ d.removed # {}}

WideDiffs(st, r) ==
  {PrivDiff(<<"all", w[1], w[2], w[3]>>, MissingEverywhere(st, w), {}) :
     w \in {WideKey(v) : v \in {u \in Decl.wide : u[4] = r}}}

ObjectDiffs(st, r) ==
  {PrivDiff(<<"on", k[1]>>, Missing(st, k), Extra(st, k)) :
     k \in {j \in {Key(e) : e \in DesiredGrants(st) \cup ActualGrants(st)} : j[2] = r}}

DefaultDiffs(st, r) ==
  {PrivDiff(<<"default", k>>, MissingDefaults(st, k), ExtraDefaults(st, k)) :
     k \in {j \in DefaultKeys(st) : r = IF j[5] \in Managed THEN j[5] ELSE j[3]}}

Second(pairs, r) == {m[2] : m \in {n \in pairs : n[1] = r}}

\* Before and after, or nothing when the two are the same.
Change(before, after) == IF before = after THEN <<>> ELSE <<before, after>>

\* Mutant: the memberships that are not declared are not shown to go.
RoleDiffKeepsMembers(st, r) ==
  LET created == r \notin st.roles IN
  [created    |-> created,
   login      |-> IF created THEN <<FALSE, r \in Decl.login>>
                  ELSE Change(r \in st.login, r \in Decl.login),
   members    |-> Change(Second(st.member, r), Second(Decl.memberOf \cup st.member, r)),
   principals |-> IF IAMPrincipals THEN Change(Second(st.iam, r), Second(Decl.iam, r)) ELSE <<>>,
   privileges |-> ShownDiffs(WideDiffs(st, r) \cup ObjectDiffs(st, r) \cup DefaultDiffs(st, r))]

\* The RoleDiff of r.
RoleDiff(st, r) ==
  LET created == r \notin st.roles IN
  [created    |-> created,
   login      |-> IF created THEN <<FALSE, r \in Decl.login>>
                  ELSE Change(r \in st.login, r \in Decl.login),
   members    |-> Change(Second(st.member, r), Second(Decl.memberOf, r)),
   principals |-> IF IAMPrincipals THEN Change(Second(st.iam, r), Second(Decl.iam, r)) ELSE <<>>,
   privileges |-> ShownDiffs(WideDiffs(st, r) \cup ObjectDiffs(st, r) \cup DefaultDiffs(st, r))]

Diffs(st) == [r \in Managed |-> RoleDiff(st, r)]

----------------------------------------------------------------------------
(* The catalog somebody expects who knows cat and reads the diffs.         *)

Replaced(pairs, diffs, field) ==
  {m \in pairs : m[1] \notin Managed \/ diffs[m[1]][field] = <<>>} \cup
  UNION {{r} \X diffs[r][field][2] : r \in {q \in Managed : diffs[q][field] # <<>>}}

\* The ACL entries of r, or the default ACL entries, a PrivDiff speaks of.
Entries(cat, label, r, privs) ==
  IF label[1] = "default" THEN {Append(label[2], p) : p \in privs}
  ELSE LET objects == IF label[1] = "on" THEN {label[2]}
                      ELSE Relations(cat, label[2], label[3], label[4])
       IN UNION {{<<o, r, p>> : p \in privs} : o \in objects}

Adjusted(cat, entries, diffs, default) ==
  LET shown == {x \in UNION {{r} \X diffs[r].privileges : r \in Managed} :
                  (x[2].label[1] = "default") = default}
  IN (entries \ UNION {Entries(cat, x[2].label, x[1], x[2].removed) : x \in shown})
       \cup UNION {Entries(cat, x[2].label, x[1], x[2].added) : x \in shown}

Expected(cat, diffs) ==
  LET given == {r \in Managed : diffs[r].login # <<>>} IN
  [roles  |-> cat.roles \cup {r \in Managed : diffs[r].created},
   login  |-> (cat.login \ given) \cup {r \in given : diffs[r].login[2]},
   member |-> Replaced(cat.member, diffs, "members"),
   iam    |-> Replaced(cat.iam, diffs, "principals"),
   acl    |-> Adjusted(cat, cat.acl, diffs, FALSE),
   dacl   |-> Adjusted(cat, cat.dacl, diffs, TRUE)]

\* The catalog after a whole plan.
Outcome(cat, plan) ==
  LET after[S \in SUBSET plan] ==
        IF S = {} THEN cat
        ELSE LET s == CHOOSE x \in S : \A t \in S \ {x} : Precedes(t, x)
             IN Effect(after[S \ {s}], s)
  IN after[plan]
=============================================================================
