----------------------------- MODULE BorrowProof -----------------------------
(***************************************************************************)
(* Proofs about the memberships pgroledef borrows, and about the authority *)
(* it stays within: what a plan may hold, and what is left of it while it  *)
(* is carried out beside others.                                           *)
(***************************************************************************)
EXTENDS CatalogProof

\* What the run of p has still to do, or to commit.
Pending(p) == op[p].plan \cup {op[p].tx[i] : i \in DOMAIN op[p].tx}

\* What a step of a run makes of its plan and of its open transaction.
LEMMA PlanStep ==
  ASSUME IInv, NEW p \in Operators, RunStep(p)
  PROVE  /\ \A q \in Operators \ {p} : op'[q] = op[q]
         /\ \/ /\ op'[p].plan = {} /\ op'[p].tx = <<>>
               /\ op'[p].phase # "reading" \/ (FreshSnapshot(p, op'[p].st) /\ cat' = cat)
            \/ \E st : /\ FreshSnapshot(p, st) /\ cat' = cat /\ op'[p].phase = "planned"
                      /\ op'[p].plan = Diff(st) /\ op'[p].tx = <<>>
            \/ op'[p].plan = op[p].plan /\ op'[p].tx = op[p].tx /\ op'[p].phase = "applying"
            \/ \E s \in op[p].plan :
                 /\ NextStatement(p, s) /\ op'[p].phase # "reading"
                 /\ op'[p].plan = op[p].plan \ {s} /\ op'[p].tx = Append(op[p].tx, s)
            \/ /\ op'[p].plan \subseteq op[p].plan /\ op'[p].tx = <<>> /\ op'[p].phase # "reading"
               /\ Atomic => op'[p].plan = op[p].plan
<1>1. op = [q \in Operators |-> op[q]] /\ op[p] = [f \in RunFields |-> op[p][f]]
  BY DEF IInv, RunsLawful, RunLawful
<1>2. ASSUME NEW r, op' = [op EXCEPT ![p] = r]
      PROVE  op'[p] = r /\ \A q \in Operators \ {p} : op'[q] = op[q]
  BY <1>1, <1>2
<1>3. ASSUME NEW phase \in Resting, End(p, phase)
      PROVE  /\ op'[p].plan = {} /\ op'[p].tx = <<>> /\ op'[p].phase # "reading"
             /\ \A q \in Operators \ {p} : op'[q] = op[q]
  <2>1. op' = [op EXCEPT ![p] = [Idle EXCEPT !.phase = phase]]
    BY <1>3 DEF End
  <2>2. op'[p] = [Idle EXCEPT !.phase = phase]
    BY <1>2, <2>1
  <2>3. op'[p].plan = {} /\ op'[p].tx = <<>> /\ op'[p].phase = phase
    BY <2>2 DEF Idle
  <2> QED
    BY <1>2, <1>3, <2>1, <2>3 DEF Resting
<1>4. ASSUME NEW rest, NEW tx, GoOn(p, rest, tx)
      PROVE  /\ op'[p].plan = rest /\ op'[p].tx = tx /\ op'[p].phase # "reading"
             /\ \A q \in Operators \ {p} : op'[q] = op[q]
  <2> DEFINE r == [op[p] EXCEPT !.plan = rest, !.tx = tx,
                                !.phase = IF rest = {} /\ tx = <<>> THEN "applied" ELSE "applying"]
  <2>1. op' = [op EXCEPT ![p] = r]
    BY <1>1, <1>4 DEF GoOn, RunFields
  <2>2. r.plan = rest /\ r.tx = tx /\ r.phase \in {"applied", "applying"}
    BY <1>1 DEF RunFields
  <2> HIDE DEF r
  <2> QED
    BY <1>2, <2>1, <2>2
<1>5. CASE Stops(p)
  BY <1>3, <1>5 DEF Stops
<1>6. CASE Reads(p)
  <2>1. PICK st, left : FreshSnapshot(p, st)
          /\ op' = [op EXCEPT ![p] = [Idle EXCEPT !.phase = "reading", !.st = st, !.left = left]]
    BY <1>6 DEF Reads
  <2>2. op'[p] = [Idle EXCEPT !.phase = "reading", !.st = st, !.left = left]
    BY <1>2, <2>1
  <2>3. op'[p].st = st /\ op'[p].plan = {} /\ op'[p].tx = <<>> /\ cat' = cat
    BY <1>6, <2>2 DEF Idle, Reads
  <2> QED
    BY <1>2, <2>1, <2>3
<1>7. CASE Plans(p)
  <2>1. PICK st, allow : FreshSnapshot(p, st)
          /\ op' = [op EXCEPT ![p] = [Idle EXCEPT !.phase = "planned", !.allow = allow, !.plan = Diff(st)]]
    BY <1>7 DEF Plans
  <2>2. op'[p] = [Idle EXCEPT !.phase = "planned", !.allow = allow, !.plan = Diff(st)]
    BY <1>2, <2>1
  <2>3. op'[p].phase = "planned" /\ op'[p].plan = Diff(st) /\ op'[p].tx = <<>> /\ cat' = cat
    BY <1>7, <2>2 DEF Idle, Plans
  <2> QED
    BY <1>2, <2>1, <2>3
<1>8. CASE Starts(p)
  <2>1. op' = [op EXCEPT ![p] = [op[p] EXCEPT !.phase = "applying"]]
    BY <1>8 DEF Starts
  <2>2. op'[p] = [op[p] EXCEPT !.phase = "applying"]
    BY <1>2, <2>1
  <2>3. op'[p].plan = op[p].plan /\ op'[p].tx = op[p].tx /\ op'[p].phase = "applying"
    BY <1>1, <2>2 DEF RunFields
  <2> QED
    BY <1>2, <2>1, <2>3
<1>9. CASE Sends(p)
  <2>1. PICK s \in op[p].plan : NextStatement(p, s) /\ GoOn(p, op[p].plan \ {s}, Append(op[p].tx, s))
    BY <1>9 DEF Sends
  <2> QED
    BY <1>4, <2>1
<1>10. CASE Lands(p)
  <2>1. PICK rest \in SUBSET op[p].plan : GoOn(p, rest, <<>>) /\ (Atomic => rest = op[p].plan)
    BY <1>10 DEF Lands, Done
  <2> QED
    BY <1>4, <2>1
<1> QED
  BY <1>5, <1>6, <1>7, <1>8, <1>9, <1>10 DEF RunStep

\* A step of a run leaves it less to do, or all of a new plan, or is a reading one.
LEMMA PendingStep ==
  ASSUME IInv, NEW p \in Operators, RunStep(p)
  PROVE  /\ \A q \in Operators \ {p} : op'[q] = op[q] /\ Pending(q)' = Pending(q)
         /\ \/ Pending(p)' \subseteq Pending(p) /\ op'[p].phase # "reading"
            \/ \E st : /\ FreshSnapshot(p, st) /\ cat' = cat
                      /\ Pending(p)' = Diff(st) /\ op'[p].phase = "planned"
            \/ /\ FreshSnapshot(p, op'[p].st) /\ cat' = cat /\ Pending(p)' = {}
<1>1. \A q \in Operators \ {p} : op'[q] = op[q] /\ Pending(q)' = Pending(q)
  BY PlanStep DEF Pending
<1>2. ASSUME op'[p].tx = <<>> PROVE Pending(p)' = op'[p].plan
  BY <1>2 DEF Pending
<1>3. ASSUME NEW s \in op[p].plan, op'[p].plan = op[p].plan \ {s}, op'[p].tx = Append(op[p].tx, s)
      PROVE  Pending(p)' \subseteq Pending(p)
  <2>1. PICK S : op[p].tx \in Seq(S)
    BY DEF IInv, RunsLawful, RunLawful, TxLawful
  <2>2. \A i \in DOMAIN op'[p].tx :
          op'[p].tx[i] = s \/ (i \in DOMAIN op[p].tx /\ op'[p].tx[i] = op[p].tx[i])
    BY <1>3, <2>1
  <2> QED
    BY <1>3, <2>2 DEF Pending
<1>4. ASSUME op'[p].plan = op[p].plan, op'[p].tx = op[p].tx
      PROVE  Pending(p)' = Pending(p)
  BY <1>4 DEF Pending
<1>5. op[p].plan \subseteq Pending(p)
  BY DEF Pending
<1> QED
  BY <1>1, <1>2, <1>3, <1>4, <1>5, PlanStep

LEMMA PendingLawful ==
  ASSUME IInv, NEW p \in Operators
  PROVE  \A s \in Pending(p) : Lawful(s)
<1>1. PICK S : op[p].tx \in Seq(S) /\ \A s \in S : Lawful(s)
  BY DEF IInv, RunsLawful, RunLawful, TxLawful
<1>2. \A s \in op[p].plan : Lawful(s)
  BY DEF IInv, RunsLawful, RunLawful
<1> QED
  BY <1>1, <1>2 DEF Pending

----------------------------------------------------------------------------
(* What a plan is made of.                                                 *)

LEMMA DefaultShape ==
  ASSUME NEW st, NEW k, NEW s \in DefaultStatements(st, k)
  PROVE  /\ s.db = k[1]
         /\ \/ s.op \in {"alter default grant", "alter default revoke"} /\ s.args = k
            \/ /\ s.op \in {"borrow", UndoBorrow(st, k[3])} /\ s.args = <<k[3]>>
               /\ NeedsCreatorMembership(st, k[3])
         /\ s.op \in {"borrow", "return", "drop", "alter default grant", "alter default revoke"}
<1> DEFINE pos(step) == <<5, k[2], k[3], SequenceKind - k[4], k[5], step>>
           grant == Statement(k[1], pos(1), "alter default grant", k, MissingDefaults(st, k), FALSE, FALSE)
           revoke == Statement(k[1], pos(2), "alter default revoke", k, ExtraDefaults(st, k), TRUE, FALSE)
           borrow == Statement(k[1], pos(0), "borrow", <<k[3]>>, {}, FALSE, FALSE)
           undo == Statement(k[1], pos(3), UndoBorrow(st, k[3]), <<k[3]>>, {}, FALSE, FALSE)
<1>1. s \in {grant, revoke} \/ (s \in {borrow, undo} /\ NeedsCreatorMembership(st, k[3]))
  BY DEF DefaultStatements
<1>2. CASE s \in {grant, revoke}
  <2>1. CASE s = grant
    BY <2>1 DEF Statement
  <2>2. CASE s = revoke
    BY <2>2 DEF Statement
  <2> QED
    BY <1>2, <2>1, <2>2
<1>3. CASE s \in {borrow, undo} /\ NeedsCreatorMembership(st, k[3])
  <2>1. s.op \in {"borrow", UndoBorrow(st, k[3])} /\ s.args = <<k[3]>> /\ s.db = k[1]
    BY <1>3 DEF Statement
  <2>2. UndoBorrow(st, k[3]) \in {"return", "drop"}
    BY DEF UndoBorrow
  <2> QED
    BY <1>3, <2>1, <2>2
<1> QED
  BY <1>1, <1>2, <1>3

\* Which part of the plan a statement is from shows in what it does.
LEMMA PlanKinds ==
  ASSUME NEW st, NEW s \in Diff(st)
  PROVE  /\ s.op = "create role" => s \in CreateRoles(st)
         /\ s.op = "alter role" => s \in AlterRoles(st)
         /\ s.op \in {"grant role", "revoke role"} => s \in Memberships(st)
         /\ s.op \in {"iam grant", "iam revoke"} => s \in IamStatements(st)
         /\ s.op = "grant all" => s \in WideGrants(st)
         /\ s.op \in {"grant", "revoke"} => s \in ObjectGrants(st)
         /\ s.op \in {"alter default grant", "alter default revoke", "borrow", "drop"} =>
              s \in DefaultPrivileges(st)
         /\ s.op = "return" => s \in DefaultPrivileges(st) \cup ReleaseStaleBorrows(st)
<1>1. ASSUME s \in CreateRoles(st)
      PROVE  s.op = "create role"
  <2>1. PICK r \in Managed \ st.roles :
          s = Statement(0, <<1, Index(r), 0, 0, 0, 0>>, "create role", <<r, Flag(r \in Decl.login)>>,
                        {}, FALSE, FALSE)
    BY <1>1 DEF CreateRoles
  <2> QED
    BY <2>1 DEF Statement
<1>2. ASSUME s \in AlterRoles(st) PROVE s.op = "alter role"
  <2>1. PICK r : s = Statement(0, <<1, Index(r), 0, 0, 0, 0>>, "alter role",
                               <<r, Flag(r \in Decl.login)>>, {}, r \notin Decl.login, FALSE)
    BY <1>2 DEF AlterRoles
  <2> QED
    BY <2>1 DEF Statement
<1>3. ASSUME s \in Memberships(st) PROVE s.op \in {"grant role", "revoke role"}
  <2> DEFINE grant(m) == Statement(0, <<2, Index(m[1]), 0, m[2], 0, 0>>, "grant role",
                                   <<m[2], m[1]>>, {}, FALSE, FALSE)
             revoke(m) == Statement(0, <<2, Index(m[1]), 1, m[2], 0, 0>>, "revoke role",
                                    <<m[2], m[1]>>, {}, TRUE, FALSE)
  <2>1. PICK m \in Decl.memberOf \cup st.member : s = grant(m) \/ s = revoke(m)
    BY <1>3 DEF Memberships
  <2>2. grant(m).op = "grant role" /\ revoke(m).op = "revoke role"
    BY DEF Statement
  <2> QED
    BY <2>1, <2>2
<1>4. ASSUME s \in IamStatements(st) PROVE s.op \in {"iam grant", "iam revoke"}
  <2> DEFINE grant(m) == Statement(0, <<3, Index(m[1]), 0, m[2], 0, 0>>, "iam grant", m, {}, FALSE, FALSE)
             revoke(m) == Statement(0, <<3, Index(m[1]), 1, m[2], 0, 0>>, "iam revoke", m, {}, TRUE, FALSE)
  <2>1. PICK m \in Decl.iam \cup st.iam : s = grant(m) \/ s = revoke(m)
    BY <1>4 DEF IamStatements
  <2>2. grant(m).op = "iam grant" /\ revoke(m).op = "iam revoke"
    BY DEF Statement
  <2> QED
    BY <2>1, <2>2
<1>5. ASSUME s \in WideGrants(st) PROVE s.op = "grant all"
  <2>1. PICK db, pos, args, privs : s = Statement(db, pos, "grant all", args, privs, FALSE, FALSE)
    BY <1>5 DEF WideGrants
  <2> QED
    BY <2>1 DEF Statement
<1>6. ASSUME s \in ObjectGrants(st) PROVE s.op \in {"grant", "revoke"}
  <2>1. PICK k : \/ s = Statement(k[1][1], <<4, k[1][2], k[1][3], k[1][4], k[2], 0>>, "grant",
                                  ObjectArgs(k), Missing(st, k), FALSE, FALSE)
                 \/ s = Statement(k[1][1], <<4, k[1][2], k[1][3], k[1][4], k[2], 1>>, "revoke",
                                  ObjectArgs(k), Extra(st, k), TRUE, FALSE)
    BY <1>6 DEF ObjectGrants
  <2> QED
    BY <2>1 DEF Statement
<1>7. ASSUME s \in DefaultPrivileges(st)
      PROVE  s.op \in {"borrow", "return", "drop", "alter default grant", "alter default revoke"}
  BY <1>7, DefaultShape DEF DefaultPrivileges
<1>8. ASSUME s \in ReleaseStaleBorrows(st) PROVE s.op = "return"
  <2>1. PICK c \in StaleBorrows(st) :
          s = Statement(Max({0} \cup KeyDatabases(st, c)), <<6, c, 0, 0, 0, 0>>, "return", <<c>>, {},
                        TRUE, KeyDatabases(st, c) # {})
    BY <1>8 DEF ReleaseStaleBorrows
  <2> QED
    BY <2>1 DEF Statement
<1> QED
  BY <1>1, <1>2, <1>3, <1>4, <1>5, <1>6, <1>7, <1>8 DEF Diff

LEMMA PlanShape ==
  ASSUME NEW st, NEW s \in Diff(st)
  PROVE  /\ s.op = "create role" => s.args[1] \in Managed \ st.roles
         /\ s.op \in {"alter default grant", "alter default revoke", "borrow", "drop"} =>
              \E k \in DefaultKeys(st) : s \in DefaultStatements(st, k)
         /\ s.op = "return" => \/ \E k \in DefaultKeys(st) : s \in DefaultStatements(st, k)
                              \/ \E c \in StaleBorrows(st) : s.args = <<c>>
<1>1. ASSUME s \in CreateRoles(st) PROVE s.args[1] \in Managed \ st.roles
  <2>1. PICK r \in Managed \ st.roles :
          s = Statement(0, <<1, Index(r), 0, 0, 0, 0>>, "create role", <<r, Flag(r \in Decl.login)>>,
                        {}, FALSE, FALSE)
    BY <1>1 DEF CreateRoles
  <2>2. s.args[1] = r
    BY <2>1 DEF Statement
  <2> QED
    BY <2>2
<1>2. ASSUME s \in DefaultPrivileges(st)
      PROVE  \E k \in DefaultKeys(st) : s \in DefaultStatements(st, k)
  BY <1>2 DEF DefaultPrivileges
<1>3. ASSUME s \in ReleaseStaleBorrows(st)
      PROVE  \E c \in StaleBorrows(st) : s.args = <<c>>
  <2>1. PICK c \in StaleBorrows(st) :
          s = Statement(Max({0} \cup KeyDatabases(st, c)), <<6, c, 0, 0, 0, 0>>, "return", <<c>>, {},
                        TRUE, KeyDatabases(st, c) # {})
    BY <1>3 DEF ReleaseStaleBorrows
  <2>2. s.args = <<c>>
    BY <2>1 DEF Statement
  <2> QED
    BY <2>2
<1> QED
  BY <1>1, <1>2, <1>3, PlanKinds

----------------------------------------------------------------------------
(* The default privileges there may be: nobody makes one up.               *)

Foreseen ==
  {DefaultKey(e) : e \in HandDefaults \cup DesiredDefaults \cup UNION {c.dacl : c \in InitialCatalogs}}

DefaultsForeseen ==
  /\ \A e \in cat.dacl : DefaultKey(e) \in Foreseen
  /\ \A p \in Operators :
       /\ op[p].phase = "reading" => \A e \in op[p].st.dacl : DefaultKey(e) \in Foreseen
       /\ \A s \in Pending(p) : s.op = "alter default grant" => s.args \in Foreseen

LEMMA KeysForeseen ==
  ASSUME NEW st, \A e \in st.dacl : DefaultKey(e) \in Foreseen
  PROVE  DefaultKeys(st) \subseteq Foreseen
BY DEF DefaultKeys, ActualDefaults, Foreseen

LEMMA SnapshotForeseen ==
  ASSUME DefaultsForeseen, TypeInv, NEW p \in Operators, NEW st, FreshSnapshot(p, st)
  PROVE  \A e \in st.dacl : DefaultKey(e) \in Foreseen
<1>1. CASE st = ReadCluster(cat, IAMPrincipals)
  <2>1. st.dacl = {}
    BY <1>1 DEF ReadCluster, TypeInv, Sound, IsCatalog, Fields
  <2> QED
    BY <2>1
<1>2. ASSUME op[p].phase = "reading", NEW db, st = ReadDatabases(cat, op[p].st, {db})
      PROVE  \A e \in st.dacl : DefaultKey(e) \in Foreseen
  <2>1. IsCatalog(op[p].st)
    BY DEF TypeInv, RunsTyped, RunTyped
  <2>2. st.dacl \subseteq op[p].st.dacl \cup cat.dacl
    BY <1>2, <2>1 DEF ReadDatabases, IsCatalog, Fields
  <2> QED
    BY <1>2, <2>2 DEF DefaultsForeseen
<1> QED
  BY <1>1, <1>2 DEF FreshSnapshot

\* What a statement adds to the default privileges.
LEMMA EffectDefaults ==
  ASSUME NEW c, IsCatalog(c), NEW s, Lawful(s)
  PROVE  /\ Effect(c, s).dacl \subseteq c.dacl \cup {<<s.args[1], s.args[2], s.args[3], s.args[4], s.args[5], q>> : q \in s.privs}
         /\ s.op # "alter default grant" => Effect(c, s).dacl \subseteq c.dacl
<1> DEFINE new == {<<s.args[1], s.args[2], s.args[3], s.args[4], s.args[5], q>> : q \in s.privs}
<1> USE DEF IsCatalog, Fields
<1>1. CASE s.op = "alter default grant"
  BY <1>1 DEF Effect
<1>2. CASE s.op = "alter default revoke"
  BY <1>2 DEF Effect
<1>3. CASE s.op \in {"create role", "alter role", "iam grant", "iam revoke", "grant role", "revoke role"}
  BY <1>3 DEF Effect
<1>4. CASE s.op \in {"grant", "revoke", "grant all", "borrow", "return", "drop"}
  BY <1>4 DEF Effect
<1> QED
  BY <1>1, <1>2, <1>3, <1>4 DEF Lawful

LEMMA EffectForeseen ==
  ASSUME NEW c, IsCatalog(c), NEW s, Lawful(s), \A e \in c.dacl : DefaultKey(e) \in Foreseen,
         s.op = "alter default grant" => s.args \in Foreseen
  PROVE  \A e \in Effect(c, s).dacl : DefaultKey(e) \in Foreseen
<1>1. CASE s.op = "alter default grant"
  <2>1. ASSUME NEW k \in Foreseen PROVE k = <<k[1], k[2], k[3], k[4], k[5]>>
    <3>1. PICK e : k = DefaultKey(e)
      BY DEF Foreseen
    <3> QED
      BY <3>1 DEF DefaultKey
  <2>2. s.args = <<s.args[1], s.args[2], s.args[3], s.args[4], s.args[5]>>
    BY <1>1, <2>1
  <2>3. \A q : DefaultKey(<<s.args[1], s.args[2], s.args[3], s.args[4], s.args[5], q>>) \in Foreseen
    BY <1>1, <2>2 DEF DefaultKey
  <2> DEFINE new == {<<s.args[1], s.args[2], s.args[3], s.args[4], s.args[5], q>> : q \in s.privs}
  <2>4. \A e \in new : DefaultKey(e) \in Foreseen
    BY <2>3
  <2>5. Effect(c, s).dacl \subseteq c.dacl \cup new
    BY EffectDefaults
  <2> HIDE DEF new
  <2> QED
    BY <2>4, <2>5
<1> QED
  BY <1>1, EffectDefaults

LEMMA ForeseenStep ==
  ASSUME TypeInv, DefaultsForeseen, [Next]_vars
  PROVE  DefaultsForeseen'
<1>1. CASE UNCHANGED vars
  BY <1>1 DEF vars, DefaultsForeseen, Pending
<1>2. CASE Others
  <2>1. op' = op
    BY <1>2 DEF Others
  <2>2. \A e \in cat'.dacl : e \in cat.dacl \cup HandDefaults
    <3> USE DEF TypeInv, Sound, IsCatalog, Fields
    <3>1. CASE HandDefault
      BY <3>1 DEF HandDefault, Toggle
    <3>2. CASE HandGrant \/ HandMember \/ CloseDatabase
      BY <3>2 DEF HandGrant, HandMember, CloseDatabase
    <3>3. CASE CreateRelation \/ DropRelation
      BY <3>3 DEF CreateRelation, Created, DropRelation, WithoutRelation
    <3>4. CASE DropRole
      BY <3>4 DEF DropRole, WithoutRole
    <3> QED
      BY <1>2, <3>1, <3>2, <3>3, <3>4 DEF Others
  <2>3. \A e \in HandDefaults : DefaultKey(e) \in Foreseen
    BY DEF Foreseen
  <2> QED
    BY <2>1, <2>2, <2>3 DEF DefaultsForeseen, Pending
<1>3. ASSUME NEW p \in Operators, Progress(p) \/ Interrupt(p) \/ LoseAnswer(p)
      PROVE  DefaultsForeseen'
  <2>1. RunStep(p)
    BY <1>3, RunShape DEF TypeInv, RunsTyped, RunTyped, TxAtomic
  <2>2. \A e \in cat'.dacl : DefaultKey(e) \in Foreseen
    <3>1. CASE cat' = cat
      BY <3>1 DEF DefaultsForeseen
    <3>2. CASE Committed(p)
      <4>1. PICK S : op[p].tx \in Seq(S) /\ \A t \in S : Lawful(t)
        BY DEF TypeInv, IInv, RunsLawful, RunLawful, TxLawful
      <4> DEFINE tx == op[p].tx
                 P == {i \in Nat : \A e \in Views(tx)[i].dacl : DefaultKey(e) \in Foreseen}
      <4>2. Len(tx) \in Nat /\ DOMAIN tx = 1 .. Len(tx) /\ \A i \in 1 .. Len(tx) : Lawful(tx[i])
        BY <4>1
      <4>3. 0 \in P
        BY <4>2, ViewsSteps DEF DefaultsForeseen
      <4>4. \A i \in 0 .. Len(tx) : IsCatalog(Views(tx)[i])
        BY <3>2, <4>1, ReplaysSound DEF TypeInv, Committed, Sound
      <4>5. ASSUME NEW i \in 0 .. Len(tx), i \in P, i < Len(tx) PROVE i + 1 \in P
        <5>1. i + 1 \in 1 .. Len(tx) /\ (i + 1) - 1 = i
          BY <4>2, <4>5
        <5>2. Views(tx)[i + 1] = Effect(Views(tx)[i], tx[i + 1])
          BY <4>2, <5>1, ViewsSteps
        <5>3. tx[i + 1].op = "alter default grant" => tx[i + 1].args \in Foreseen
          BY <4>2, <5>1 DEF DefaultsForeseen, Pending
        <5>4. IsCatalog(Views(tx)[i]) /\ Lawful(tx[i + 1])
          BY <4>2, <4>4, <5>1
        <5>5. \A e \in Views(tx)[i].dacl : DefaultKey(e) \in Foreseen
          BY <4>5
        <5>6. \A e \in Views(tx)[i + 1].dacl : DefaultKey(e) \in Foreseen
          BY <5>2, <5>3, <5>4, <5>5, EffectForeseen
        <5> QED
          BY <5>6
      <4> HIDE DEF P
      <4>6. 0 .. Len(tx) \subseteq P
        BY <4>2, <4>3, <4>5, UpTo
      <4> QED
        BY <3>2, <4>2, <4>6 DEF P, Committed, View
    <3>3. ASSUME NEW s \in op[p].plan, Done(p, s)
          PROVE  \A e \in cat'.dacl : DefaultKey(e) \in Foreseen
      <4>1. Lawful(s) /\ s \in Pending(p)
        BY PendingLawful DEF TypeInv, Pending
      <4> QED
        BY <3>3, <4>1, EffectForeseen DEF Done, DefaultsForeseen, TypeInv, Sound
    <3> QED
      BY <2>1, <3>1, <3>2, <3>3 DEF RunStep, Stops, Reads, Plans, Starts, Sends, Lands
  <2>3. /\ \A q \in Operators \ {p} : op'[q] = op[q] /\ Pending(q)' = Pending(q)
        /\ op'[p].phase = "reading" => \A e \in op'[p].st.dacl : DefaultKey(e) \in Foreseen
        /\ \A s \in Pending(p)' : s.op = "alter default grant" => s.args \in Foreseen
    <3>1. CASE Pending(p)' \subseteq Pending(p) /\ op'[p].phase # "reading"
      BY <2>1, <3>1, PendingStep DEF TypeInv, DefaultsForeseen
    <3>2. ASSUME NEW st, FreshSnapshot(p, st), Pending(p)' = Diff(st), op'[p].phase = "planned"
          PROVE  <2>3
      <4>1. DefaultKeys(st) \subseteq Foreseen
        BY <3>2, SnapshotForeseen, KeysForeseen
      <4>2. \A s \in Diff(st) : s.op = "alter default grant" => s.args \in DefaultKeys(st)
        <5> SUFFICES ASSUME NEW s \in Diff(st), s.op = "alter default grant" PROVE s.args \in DefaultKeys(st)
          OBVIOUS
        <5>1. PICK k \in DefaultKeys(st) : s \in DefaultStatements(st, k)
          BY PlanShape
        <5>2. UndoBorrow(st, k[3]) \in {"return", "drop"}
          BY DEF UndoBorrow
        <5> QED
          BY <5>1, <5>2, DefaultShape
      <4> QED
        BY <2>1, <3>2, <4>1, <4>2, PendingStep DEF TypeInv
    <3>3. CASE FreshSnapshot(p, op'[p].st) /\ Pending(p)' = {}
      BY <2>1, <3>3, SnapshotForeseen, PendingStep DEF TypeInv
    <3> QED
      BY <2>1, <3>1, <3>2, <3>3, PendingStep DEF TypeInv
  <2> QED
    BY <2>2, <2>3 DEF DefaultsForeseen
<1> QED
  BY <1>1, <1>2, <1>3 DEF Next

LEMMA ForeseenInit == Init => DefaultsForeseen
<1> SUFFICES ASSUME Init PROVE DefaultsForeseen
  OBVIOUS
<1>1. \A e \in cat.dacl : DefaultKey(e) \in Foreseen
  BY DEF Init, Foreseen
<1>2. \A p \in Operators : op[p].phase # "reading" /\ op[p].plan = {} /\ op[p].tx = <<>>
  BY DEF Init, Idle
<1>3. \A p \in Operators : Pending(p) = {}
  BY <1>2 DEF Pending
<1> QED
  BY <1>1, <1>2, <1>3 DEF DefaultsForeseen

----------------------------------------------------------------------------
(* The authority a run has.                                                *)

\* Nobody but a declared role, or the executing user, has granted a declared
\* role a default privilege on a managed database, and none is declared for an
\* unmanaged one.
NoStrays ==
  /\ \A d \in Decl.defaults : d[1] \notin Decl.unmanaged
  /\ \A e \in HandDefaults \cup UNION {c.dacl : c \in InitialCatalogs} :
       e[5] \in Managed /\ e[1] \notin Decl.unmanaged => e[3] \in Managed \cup {Me}

\* s borrows from declared roles only, and leaves unmanaged databases alone.
Ours(s) ==
  /\ s.op \in {"borrow", "return", "drop"} => s.args[1] \in Managed
  /\ s.op \in {"alter default grant", "alter default revoke"} => s.args[1] \notin Decl.unmanaged

PlansOurs == \A p \in Operators : \A s \in Pending(p) : Ours(s)

\* What Rightful leaves open.
Narrow(c, d) ==
  /\ \A m \in Altered(c.member, d.member) \cup Altered(c.inherit, d.inherit) :
       m[1] \in Managed \/ (m[1] = Me /\ m[2] \in Managed)
  /\ \A e \in Altered(c.dacl, d.dacl) : e[1] \notin Decl.unmanaged
  /\ d.super = c.super

LEMMA DiffOurs ==
  ASSUME NoStrays, NEW st, \A e \in st.dacl : DefaultKey(e) \in Foreseen, NEW s \in Diff(st)
  PROVE  Ours(s)
<1>1. \A d \in DesiredDefaults : d[1] \notin Decl.unmanaged /\ d[3] \in Managed
  BY DeclAssumption DEF NoStrays, ValidDecl, DesiredDefaults, Derived
<1>2. ASSUME NEW k \in DefaultKeys(st) PROVE k[1] \notin Decl.unmanaged /\ k[3] \in Managed \cup {Me}
  <2>1. PICK e \in DesiredDefaults \cup ActualDefaults(st) : k = DefaultKey(e)
    BY DEF DefaultKeys
  <2>2. k[1] = e[1] /\ k[3] = e[3] /\ k[5] = e[5]
    BY <2>1 DEF DefaultKey
  <2>3. CASE e \in DesiredDefaults
    BY <1>1, <2>2, <2>3
  <2>4. CASE e \in ActualDefaults(st)
    <3>1. e \in st.dacl /\ e[1] \notin Decl.unmanaged /\ (e[3] \in Managed \/ e[5] \in Managed)
      BY <2>4 DEF ActualDefaults
    <3>2. PICK f \in HandDefaults \cup DesiredDefaults \cup UNION {c.dacl : c \in InitialCatalogs} :
            DefaultKey(e) = DefaultKey(f)
      BY <3>1 DEF Foreseen
    <3>3. f[1] = e[1] /\ f[3] = e[3] /\ f[5] = e[5]
      BY <3>2 DEF DefaultKey
    <3> QED
      BY <1>1, <2>2, <3>1, <3>2, <3>3 DEF NoStrays
  <2> QED
    BY <2>1, <2>3, <2>4
<1>3. ASSUME NEW k \in DefaultKeys(st), s \in DefaultStatements(st, k) PROVE Ours(s)
  <2>1. CASE s.op \in {"alter default grant", "alter default revoke"} /\ s.args = k
    BY <1>2, <1>3, <2>1 DEF Ours
  <2>2. CASE s.op \in {"borrow", UndoBorrow(st, k[3])} /\ s.args = <<k[3]>> /\ NeedsCreatorMembership(st, k[3])
    <3>1. k[3] \in Managed
      BY <1>2, <2>2 DEF NeedsCreatorMembership
    <3>2. s.op \in {"borrow", "return", "drop"}
      BY <2>2 DEF UndoBorrow
    <3>3. s.args[1] = k[3]
      BY <2>2
    <3> QED
      BY <3>1, <3>2, <3>3 DEF Ours
  <2> QED
    BY <1>3, <2>1, <2>2, DefaultShape
<1>4. CASE \E c \in StaleBorrows(st) : s.op = "return" /\ s.args = <<c>>
  BY <1>4 DEF StaleBorrows, Ours
<1> QED
  BY <1>3, <1>4, PlanShape DEF Ours

LEMMA EffectNarrow ==
  ASSUME NEW c, IsCatalog(c), NEW s, Lawful(s), Ours(s)
  PROVE  Narrow(c, Effect(c, s))
<1> DEFINE d == Effect(c, s)
           default == {<<s.args[1], s.args[2], s.args[3], s.args[4], s.args[5], q>> : q \in s.privs}
<1>1. CASE s.op = "create role"
  <2>1. s.args[1] \in Managed
    BY <1>1 DEF Lawful
  <2>2. /\ d.member \in {c.member, c.member \cup {<<Me, s.args[1]>>}} /\ d.inherit = c.inherit
        /\ d.dacl = c.dacl /\ d.super = c.super
    BY <1>1 DEF Effect, IsCatalog, Fields
  <2> HIDE DEF d
  <2> QED
    BY <2>1, <2>2 DEF Narrow, Altered, d
<1>2. CASE s.op \in {"grant role", "revoke role"}
  <2>1. s.args[2] \in Managed
    BY <1>2 DEF Lawful
  <2>2. /\ Altered(c.member, d.member) \subseteq {<<s.args[2], s.args[1]>>}
        /\ Altered(c.inherit, d.inherit) \subseteq {<<s.args[2], s.args[1]>>}
        /\ d.dacl = c.dacl /\ d.super = c.super
    BY <1>2 DEF Effect, Altered, IsCatalog, Fields
  <2> HIDE DEF d
  <2> QED
    BY <2>1, <2>2, Unaltered DEF Narrow, d
<1>3. CASE s.op \in {"borrow", "return", "drop"}
  <2>1. s.args[1] \in Managed
    BY <1>3 DEF Ours
  <2>2. /\ Altered(c.member, d.member) \subseteq {<<Me, s.args[1]>>}
        /\ Altered(c.inherit, d.inherit) \subseteq {<<Me, s.args[1]>>}
        /\ d.dacl = c.dacl /\ d.super = c.super
    BY <1>3 DEF Effect, Altered, IsCatalog, Fields
  <2> HIDE DEF d
  <2> QED
    BY <2>1, <2>2, Unaltered DEF Narrow, d
<1>4. CASE s.op \in {"alter default grant", "alter default revoke"}
  <2>1. \A e \in default : e[1] \notin Decl.unmanaged
    <3>1. s.args[1] \notin Decl.unmanaged
      BY <1>4 DEF Ours
    <3> QED
      BY <3>1
  <2>2. /\ d.dacl \in {c.dacl \cup default, c.dacl \ default} /\ d.member = c.member
        /\ d.inherit = c.inherit /\ d.super = c.super
    BY <1>4 DEF Effect, IsCatalog, Fields
  <2> HIDE DEF d, default
  <2> QED
    BY <2>1, <2>2 DEF Narrow, Altered, d
<1>5. CASE s.op \in {"alter role", "iam grant", "iam revoke", "grant", "revoke", "grant all"}
  <2>1. /\ d.member = c.member /\ d.inherit = c.inherit
        /\ d.dacl = c.dacl /\ d.super = c.super
    BY <1>5 DEF Effect, IsCatalog, Fields
  <2> HIDE DEF d
  <2> QED
    BY <2>1, Unaltered DEF Narrow, d
<1> QED
  BY <1>1, <1>2, <1>3, <1>4, <1>5 DEF Lawful

LEMMA NarrowTwice ==
  ASSUME NEW c, NEW d, NEW e, Narrow(c, d), Narrow(d, e)
  PROVE  Narrow(c, e)
<1>1. /\ Altered(c.member, e.member) \subseteq Altered(c.member, d.member) \cup Altered(d.member, e.member)
      /\ Altered(c.inherit, e.inherit) \subseteq Altered(c.inherit, d.inherit) \cup Altered(d.inherit, e.inherit)
      /\ Altered(c.dacl, e.dacl) \subseteq Altered(c.dacl, d.dacl) \cup Altered(d.dacl, e.dacl)
  BY AlteredTwice
<1> QED
  BY <1>1 DEF Narrow

LEMMA ViewsNarrow ==
  ASSUME IsCatalog(cat), NEW S, NEW tx \in Seq(S), \A s \in S : Lawful(s) /\ Ours(s)
  PROVE  Narrow(cat, View(tx))
<1> DEFINE P == {i \in Nat : IsCatalog(Views(tx)[i]) /\ Narrow(cat, Views(tx)[i])}
<1>1. Len(tx) \in Nat /\ \A i \in 1 .. Len(tx) : tx[i] \in S
  OBVIOUS
<1>2. 0 \in P
  BY <1>1, ViewsSteps, Unaltered DEF Narrow
<1>3. ASSUME NEW i \in 0 .. Len(tx), i \in P, i < Len(tx) PROVE i + 1 \in P
  <2>1. i + 1 \in 1 .. Len(tx) /\ (i + 1) - 1 = i
    BY <1>1, <1>3
  <2>2. Views(tx)[i + 1] = Effect(Views(tx)[i], tx[i + 1]) /\ tx[i + 1] \in S
    BY <1>1, <2>1, ViewsSteps
  <2>3. IsCatalog(Views(tx)[i + 1]) /\ Narrow(Views(tx)[i], Views(tx)[i + 1])
    BY <1>3, <2>2, EffectLawful, EffectNarrow
  <2>4. Narrow(cat, Views(tx)[i + 1])
    BY <1>3, <2>3, NarrowTwice
  <2> QED
    BY <1>3, <2>3, <2>4
<1> HIDE DEF P
<1>4. 0 .. Len(tx) \subseteq P
  BY <1>1, <1>2, <1>3, UpTo
<1> QED
  BY <1>1, <1>4 DEF P, View

\* A run that holds only what is its to do does only that.
LEMMA RunNarrow ==
  ASSUME TypeInv, PlansOurs, NEW p \in Operators, RunStep(p)
  PROVE  Narrow(cat, cat')
<1>1. CASE cat' = cat
  BY <1>1, Unaltered DEF Narrow
<1>2. CASE Committed(p)
  <2>1. PICK S : op[p].tx \in Seq(S)
    BY DEF TypeInv, IInv, RunsLawful, RunLawful, TxLawful
  <2> DEFINE T == {op[p].tx[i] : i \in DOMAIN op[p].tx}
  <2>2. op[p].tx \in Seq(T)
    BY <2>1
  <2>3. \A s \in T : Lawful(s) /\ Ours(s)
    BY PendingLawful DEF TypeInv, PlansOurs, Pending
  <2> HIDE DEF T
  <2> QED
    BY <1>2, <2>2, <2>3, ViewsNarrow DEF Committed, TypeInv, Sound
<1>3. ASSUME NEW s \in op[p].plan, Done(p, s) PROVE Narrow(cat, cat')
  <2>1. Lawful(s) /\ Ours(s)
    BY PendingLawful DEF TypeInv, PlansOurs, Pending
  <2> QED
    BY <1>3, <2>1, EffectNarrow DEF Done, TypeInv, Sound
<1> QED
  BY <1>1, <1>2, <1>3 DEF RunStep, Stops, Reads, Plans, Starts, Sends, Lands

AuthorityInv == TypeInv /\ DefaultsForeseen /\ PlansOurs

LEMMA AuthorityStep ==
  ASSUME NoStrays, AuthorityInv, [Next]_vars
  PROVE  AuthorityInv' /\ (changes' = changes => Rightful(cat, cat') /\ Narrow(cat, cat'))
<1>1. TypeInv' /\ DefaultsForeseen' /\ (changes' = changes => Rightful(cat, cat'))
  BY TypeStep, ForeseenStep, IStep DEF AuthorityInv, StepLawful, TypeInv
<1>2. PlansOurs' /\ (changes' = changes => Narrow(cat, cat'))
  <2>1. CASE UNCHANGED vars
    BY <2>1, Unaltered DEF vars, AuthorityInv, PlansOurs, Pending, Narrow
  <2>2. CASE Others
    <3>1. op' = op /\ changes' = changes + 1 /\ changes \in Nat
      BY <2>2 DEF Others, AuthorityInv, TypeInv, Counted
    <3> QED
      BY <3>1 DEF AuthorityInv, PlansOurs, Pending
  <2>3. ASSUME NEW p \in Operators, Progress(p) \/ Interrupt(p) \/ LoseAnswer(p)
        PROVE  PlansOurs' /\ Narrow(cat, cat')
    <3>1. RunStep(p)
      BY <2>3, RunShape DEF AuthorityInv, TypeInv, RunsTyped, RunTyped, TxAtomic
    <3>2. Narrow(cat, cat')
      BY <3>1, RunNarrow DEF AuthorityInv
    <3>3. \A q \in Operators \ {p} : Pending(q)' = Pending(q)
      BY <3>1, PendingStep DEF AuthorityInv, TypeInv
    <3>4. \A s \in Pending(p)' : Ours(s)
      <4>1. CASE Pending(p)' \subseteq Pending(p)
        BY <4>1 DEF AuthorityInv, PlansOurs
      <4>2. ASSUME NEW st, FreshSnapshot(p, st), Pending(p)' = Diff(st)
            PROVE  \A s \in Pending(p)' : Ours(s)
        BY <4>2, SnapshotForeseen, DiffOurs DEF AuthorityInv
      <4> QED
        BY <3>1, <4>1, <4>2, PendingStep DEF AuthorityInv, TypeInv
    <3>5. PlansOurs'
      BY <3>3, <3>4 DEF AuthorityInv, PlansOurs
    <3> QED
      BY <3>2, <3>5
  <2> QED
    BY <2>1, <2>2, <2>3 DEF Next
<1> QED
  BY <1>1, <1>2 DEF AuthorityInv

LEMMA AuthorityInit == Init => AuthorityInv
<1> SUFFICES ASSUME Init PROVE AuthorityInv
  OBVIOUS
<1>1. \A p \in Operators : Pending(p) = {}
  BY DEF Init, Idle, Pending
<1> QED
  BY <1>1, TypeInit, ForeseenInit DEF AuthorityInv, PlansOurs

\* The plan is bound by the declaration and by what the snapshot could show,
\* and stays so while it waits: whatever others do meanwhile, wherever the run
\* is cut short, nothing outside the declaration is touched.  NoStrays excludes
\* what runs do break it: see the runs undeclared_creator and the README.
THEOREM AlwaysWithinAuthority ==
  ASSUME NoStrays
  PROVE  Spec => StaysWithinAuthority
<1>1. Rightful(cat, cat') /\ Narrow(cat, cat') =>
       /\ Altered(cat.roles, cat'.roles) \cup Altered(cat.login, cat'.login) \subseteq Managed
       /\ \A m \in Altered(cat.member, cat'.member) \cup Altered(cat.inherit, cat'.inherit) :
            m[1] \in Managed \/ (m[1] = Me /\ m[2] \in Managed)
       /\ \A e \in Altered(cat.iam, cat'.iam) : e[1] \in Managed
       /\ \A e \in Altered(cat.acl, cat'.acl) :
            e[2] \in Managed /\ e[1][1] \notin Decl.unmanaged
       /\ \A e \in Altered(cat.dacl, cat'.dacl) :
            {e[3], e[5]} \cap Managed # {} /\ e[1] \notin Decl.unmanaged
       /\ cat'.owner = cat.owner
  BY DEF Rightful, Narrow, Ruled
<1>2. AuthorityInv /\ [Next]_vars =>
        AuthorityInv' /\ (changes' = changes => Rightful(cat, cat') /\ Narrow(cat, cat'))
  BY AuthorityStep
<1> QED
  BY <1>1, <1>2, AuthorityInit, PTL DEF Spec, StaysWithinAuthority

----------------------------------------------------------------------------
(* The ADMIN OPTION.                                                       *)

Alone == \A p, q \in Operators : p = q

\* The roles a run may borrow.
Creators == {k[3] : k \in Foreseen}

\* None of them is dropped by others.
CreatorsStay == DroppedRoles \cap Creators = {}

\* The executing user is not declared, and no role that is borrowed can come
\* back between the plan of one run and the statements of another.
Undisputed == Me \notin Managed /\ (Alone \/ CreatorsStay)

\* What a snapshot knows of the executing user's ADMIN options on creators.
SeesAdmin(st) ==
  \A c \in Creators :
    /\ <<Me, c>> \in cat.admin /\ (c \in st.roles \/ c \notin Managed) => <<Me, c>> \in st.member
    /\ CreatorsStay /\ c \in st.roles => c \in cat.roles

\* s takes no ADMIN OPTION, now or when its turn comes.
SparesAdmin(p, s) ==
  LET c == s.args[1] IN
  s.op = "drop" =>
    /\ c \in Creators /\ <<Me, c>> \notin cat.admin
    /\ c \in Managed =>
         \/ CreatorsStay /\ c \in cat.roles
         \/ Alone /\ \A t \in Pending(p) : t.op = "create role" => t.args[1] # c

AdminSafe ==
  \A p \in Operators :
    /\ op[p].phase = "reading" => SeesAdmin(op[p].st)
    /\ \A s \in Pending(p) : SparesAdmin(p, s)

\* The executing user has the ADMIN options of c in d.
AdminStays(c, d) == \A m \in c.admin : m[1] = Me => m \in d.admin

\* It has more only on roles p has created.
AdminComes(p, c, d) ==
  \A r : <<Me, r>> \in d.admin =>
    \/ <<Me, r>> \in c.admin
    \/ /\ r \in Managed \ c.roles
       /\ \E t \in Pending(p) : t.op = "create role" /\ t.args[1] = r

LEMMA EffectAdmin ==
  ASSUME Me \notin Managed, NEW c, IsCatalog(c), NEW s, Lawful(s), Permitted(c, s)
  PROVE  /\ \A m \in c.admin : m[1] = Me =>
              m \in Effect(c, s).admin \/ (s.op = "drop" /\ m = <<Me, s.args[1]>>)
         /\ \A r : <<Me, r>> \in Effect(c, s).admin =>
              \/ <<Me, r>> \in c.admin
              \/ s.op = "create role" /\ r = s.args[1] /\ r \in Managed \ c.roles
<1> DEFINE d == Effect(c, s)
<1>1. CASE s.op = "create role"
  <2>1. s.args[1] \in Managed \ c.roles
    BY <1>1 DEF Lawful, Permitted
  <2>2. d.admin \in {c.admin, c.admin \cup {<<Me, s.args[1]>>}}
    BY <1>1 DEF Effect, IsCatalog, Fields
  <2> QED
    BY <1>1, <2>1, <2>2
<1>2. CASE s.op = "revoke role"
  <2>1. s.args[2] # Me
    BY <1>2 DEF Lawful
  <2>2. d.admin = c.admin \ {<<s.args[2], s.args[1]>>}
    BY <1>2 DEF Effect, IsCatalog, Fields
  <2>3. \A m : m[1] = Me => m # <<s.args[2], s.args[1]>>
    BY <2>1
  <2> HIDE DEF d
  <2>4. /\ \A m \in c.admin : m[1] = Me => m \in d.admin
        /\ d.admin \subseteq c.admin
    BY <2>2, <2>3
  <2> QED
    BY <2>4 DEF d
<1>3. CASE s.op = "drop"
  <2>1. d.admin = c.admin \ {<<Me, s.args[1]>>}
    BY <1>3 DEF Effect, IsCatalog, Fields
  <2> QED
    BY <1>3, <2>1
<1>4. CASE s.op \in {"alter role", "grant role", "iam grant", "iam revoke"}
  <2>1. d.admin = c.admin
    BY <1>4 DEF Effect, IsCatalog, Fields
  <2> QED
    BY <2>1
<1>5. CASE s.op \in {"grant", "revoke", "grant all", "alter default grant", "alter default revoke", "borrow", "return"}
  <2>1. d.admin = c.admin
    BY <1>5 DEF Effect, IsCatalog, Fields
  <2> QED
    BY <2>1
<1> QED
  BY <1>1, <1>2, <1>3, <1>4, <1>5 DEF Lawful

LEMMA RunAdmin ==
  ASSUME Undisputed, TypeInv, AdminSafe, NEW p \in Operators, RunStep(p)
  PROVE  AdminStays(cat, cat') /\ AdminComes(p, cat, cat')
<1>0. Me \notin Managed
  BY DEF Undisputed
<1>1. CASE cat' = cat
  BY <1>1 DEF AdminStays, AdminComes
<1>2. ASSUME NEW s \in Pending(p) PROVE s.op = "drop" => <<Me, s.args[1]>> \notin cat.admin
  BY <1>2 DEF AdminSafe, SparesAdmin
<1>3. CASE Committed(p)
  <2> DEFINE tx == op[p].tx
             P == {i \in Nat : AdminStays(cat, Views(tx)[i]) /\ AdminComes(p, cat, Views(tx)[i])}
  <2>1. PICK S : tx \in Seq(S) /\ \A s \in S : Lawful(s)
    BY DEF TypeInv, IInv, RunsLawful, RunLawful, TxLawful
  <2>2. Len(tx) \in Nat /\ DOMAIN tx = 1 .. Len(tx)
        /\ \A i \in 1 .. Len(tx) : Lawful(tx[i]) /\ tx[i] \in Pending(p)
    BY <2>1 DEF Pending
  <2>3. \A i \in 0 .. Len(tx) : Sound(Views(tx)[i]) /\ cat.roles \subseteq Views(tx)[i].roles
    BY <1>3, <2>1, ReplaysSound DEF Committed, TypeInv
  <2>4. 0 \in P
    BY <2>2, ViewsSteps DEF AdminStays, AdminComes
  <2>5. ASSUME NEW i \in 0 .. Len(tx), i \in P, i < Len(tx) PROVE i + 1 \in P
    <3>1. i + 1 \in 1 .. Len(tx) /\ (i + 1) - 1 = i /\ i + 1 \in Nat
      BY <2>2, <2>5
    <3> DEFINE c == Views(tx)[i]
               s == tx[i + 1]
    <3>2. Views(tx)[i + 1] = Effect(c, s)
      BY <2>2, <3>1, ViewsSteps
    <3>3. Permitted(c, s)
      BY <1>3, <2>2, <3>1 DEF Committed, Replays
    <3>4. IsCatalog(c) /\ Lawful(s) /\ s \in Pending(p) /\ cat.roles \subseteq c.roles
      BY <2>2, <2>3, <3>1 DEF Sound
    <3>5. AdminStays(cat, c) /\ AdminComes(p, cat, c)
      BY <2>5
    <3> HIDE DEF c, s
    <3>6. AdminStays(cat, Effect(c, s))
      <4> SUFFICES ASSUME NEW m \in cat.admin, m[1] = Me PROVE m \in Effect(c, s).admin
        BY DEF AdminStays
      <4>1. m \in c.admin
        BY <3>5 DEF AdminStays
      <4>2. m \in Effect(c, s).admin \/ (s.op = "drop" /\ m = <<Me, s.args[1]>>)
        BY <1>0, <3>3, <3>4, <4>1, EffectAdmin
      <4>3. s.op = "drop" => m # <<Me, s.args[1]>>
        BY <1>2, <3>4
      <4> QED
        BY <4>2, <4>3
    <3>7. AdminComes(p, cat, Effect(c, s))
      <4> SUFFICES ASSUME NEW r, <<Me, r>> \in Effect(c, s).admin, <<Me, r>> \notin cat.admin
                   PROVE  /\ r \in Managed \ cat.roles
                          /\ \E t \in Pending(p) : t.op = "create role" /\ t.args[1] = r
        BY DEF AdminComes
      <4>1. CASE <<Me, r>> \in c.admin
        BY <3>5, <4>1 DEF AdminComes
      <4>2. CASE s.op = "create role" /\ r = s.args[1] /\ r \in Managed \ c.roles
        BY <3>4, <4>2
      <4> QED
        BY <1>0, <3>3, <3>4, <4>1, <4>2, EffectAdmin
    <3> QED
      BY <3>1, <3>2, <3>6, <3>7
  <2> HIDE DEF P
  <2>6. 0 .. Len(tx) \subseteq P
    BY <2>2, <2>4, <2>5, UpTo
  <2> QED
    BY <1>3, <2>2, <2>6 DEF P, Committed, View
<1>4. ASSUME NEW s \in op[p].plan, Done(p, s) PROVE AdminStays(cat, cat') /\ AdminComes(p, cat, cat')
  <2>1. Lawful(s) /\ s \in Pending(p) /\ IsCatalog(cat)
    BY PendingLawful DEF TypeInv, Sound, Pending
  <2>2. Permitted(cat, s) /\ cat' = Effect(cat, s)
    BY <1>4 DEF Done
  <2>3. AdminStays(cat, Effect(cat, s))
    <3> SUFFICES ASSUME NEW m \in cat.admin, m[1] = Me PROVE m \in Effect(cat, s).admin
      BY DEF AdminStays
    <3>1. m \in Effect(cat, s).admin \/ (s.op = "drop" /\ m = <<Me, s.args[1]>>)
      BY <1>0, <2>1, <2>2, EffectAdmin
    <3>2. s.op = "drop" => m # <<Me, s.args[1]>>
      BY <1>2, <2>1
    <3> QED
      BY <3>1, <3>2
  <2>4. AdminComes(p, cat, Effect(cat, s))
    BY <1>0, <2>1, <2>2, EffectAdmin DEF AdminComes
  <2> QED
    BY <2>2, <2>3, <2>4
<1> QED
  BY <1>1, <1>3, <1>4 DEF RunStep, Stops, Reads, Plans, Starts, Sends, Lands

\* The catalog has been read, so far, as it is or as it was.
LEMMA FreshAdmin ==
  ASSUME TypeInv, AdminSafe, NEW p \in Operators, NEW st, FreshSnapshot(p, st)
  PROVE  SeesAdmin(st)
<1>1. CASE st = ReadCluster(cat, IAMPrincipals)
  <2>1. st.roles = cat.roles /\ st.member = cat.member
    BY <1>1 DEF ReadCluster, TypeInv, Sound, IsCatalog, Fields
  <2> QED
    BY <2>1 DEF SeesAdmin, TypeInv, Sound, WellFormed
<1>2. ASSUME op[p].phase = "reading", NEW db, st = ReadDatabases(cat, op[p].st, {db})
      PROVE  SeesAdmin(st)
  <2>1. st.roles = op[p].st.roles /\ st.member = op[p].st.member
    BY <1>2 DEF ReadDatabases, TypeInv, RunsTyped, RunTyped, IsCatalog, Fields
  <2> QED
    BY <1>2, <2>1 DEF SeesAdmin, AdminSafe
<1> QED
  BY <1>1, <1>2 DEF FreshSnapshot

\* The planner undoes by DROP only where the executing user had nothing.
LEMMA DiffSpares ==
  ASSUME Undisputed, NEW st, SeesAdmin(st), \A e \in st.dacl : DefaultKey(e) \in Foreseen,
         NEW s \in Diff(st), s.op = "drop"
  PROVE  /\ s.args[1] \in Creators /\ <<Me, s.args[1]>> \notin cat.admin
         /\ s.args[1] \in Managed =>
              /\ CreatorsStay => s.args[1] \in cat.roles
              /\ \A t \in Diff(st) : t.op = "create role" => t.args[1] # s.args[1]
<1>1. PICK k \in DefaultKeys(st) : s \in DefaultStatements(st, k)
  BY PlanShape
<1>2. UndoBorrow(st, k[3]) = "drop" /\ s.args = <<k[3]>> /\ NeedsCreatorMembership(st, k[3])
  BY <1>1, DefaultShape
<1>3. /\ s.args[1] = k[3] /\ Me \in st.roles /\ <<Me, k[3]>> \notin st.member
      /\ k[3] \in Managed => k[3] \in st.roles
  BY <1>2 DEF UndoBorrow, NeedsCreatorMembership, Exempt
<1>4. \A t \in Diff(st) : t.op = "create role" => t.args[1] \notin st.roles
  BY PlanShape
<1>5. k[3] \in Creators
  BY <1>1, KeysForeseen DEF Creators
<1> QED
  BY <1>3, <1>4, <1>5 DEF SeesAdmin

LEMMA AdminSafeStep ==
  ASSUME Undisputed, TypeInv, DefaultsForeseen, AdminSafe, NEW p \in Operators, RunStep(p)
  PROVE  AdminSafe'
<1>1. AdminComes(p, cat, cat') /\ cat.roles \subseteq cat'.roles
  BY RunAdmin, RunSound DEF TypeInv
<1>2. ASSUME NEW q \in Operators \ {p}
      PROVE  /\ op'[q].phase = "reading" => SeesAdmin(op[q].st)'
             /\ \A s \in Pending(q)' : SparesAdmin(q, s)'
  <2>1. op'[q] = op[q] /\ Pending(q)' = Pending(q)
    BY <1>2, PendingStep DEF TypeInv
  <2>2. CreatorsStay /\ ~Alone
    BY <1>2 DEF Undisputed, Alone
  <2>3. ASSUME op[q].phase = "reading" PROVE SeesAdmin(op[q].st)'
    <3>1. SeesAdmin(op[q].st)
      BY <2>3 DEF AdminSafe
    <3> QED
      BY <1>1, <2>1, <2>2, <3>1 DEF SeesAdmin, AdminComes
  <2>4. ASSUME NEW s \in Pending(q) PROVE SparesAdmin(q, s)'
    <3>1. SparesAdmin(q, s)
      BY <2>4 DEF AdminSafe
    <3> QED
      BY <1>1, <2>1, <2>2, <3>1 DEF SparesAdmin, AdminComes
  <2> QED
    BY <2>1, <2>3, <2>4
<1>3. /\ op'[p].phase = "reading" => SeesAdmin(op[p].st)'
      /\ \A s \in Pending(p)' : SparesAdmin(p, s)'
  <2>1. CASE Pending(p)' \subseteq Pending(p) /\ op'[p].phase # "reading"
    <3> SUFFICES ASSUME NEW s \in Pending(p)' PROVE SparesAdmin(p, s)'
      BY <2>1
    <3>1. SparesAdmin(p, s)
      BY <2>1 DEF AdminSafe
    <3> QED
      BY <1>1, <2>1, <3>1 DEF SparesAdmin, AdminComes
  <2>2. ASSUME NEW st, FreshSnapshot(p, st), cat' = cat, Pending(p)' = Diff(st), op'[p].phase = "planned"
        PROVE  <1>3
    <3>1. SeesAdmin(st)
      BY <2>2, FreshAdmin
    <3>2. \A e \in st.dacl : DefaultKey(e) \in Foreseen
      BY <2>2, SnapshotForeseen
    <3> SUFFICES ASSUME NEW s \in Diff(st), s.op = "drop" PROVE SparesAdmin(p, s)'
      BY <2>2 DEF SparesAdmin
    <3> QED
      BY <2>2, <3>1, <3>2, DiffSpares DEF SparesAdmin, Undisputed
  <2>3. CASE FreshSnapshot(p, op'[p].st) /\ cat' = cat /\ Pending(p)' = {}
    <3>1. SeesAdmin(op'[p].st)
      BY <2>3, FreshAdmin
    <3> QED
      BY <2>3, <3>1 DEF SeesAdmin
  <2> QED
    BY <2>1, <2>2, <2>3, PendingStep DEF TypeInv
<1> QED
  BY <1>2, <1>3 DEF AdminSafe

LEMMA OthersAdmin ==
  ASSUME TypeInv, AdminSafe, Others
  PROVE  AdminSafe'
<1>1. op' = op
  BY DEF Others
<1>2. cat'.admin \subseteq cat.admin /\ (CreatorsStay => cat.roles \cap Creators \subseteq cat'.roles)
  <2> USE DEF TypeInv, Sound, IsCatalog, Fields
  <2>1. CASE HandGrant \/ HandDefault \/ HandMember \/ CloseDatabase
    BY <2>1 DEF HandGrant, HandDefault, HandMember, CloseDatabase
  <2>2. CASE CreateRelation \/ DropRelation
    BY <2>2 DEF CreateRelation, Created, DropRelation, WithoutRelation
  <2>3. CASE DropRole
    BY <2>3 DEF DropRole, WithoutRole, CreatorsStay
  <2> QED
    BY <2>1, <2>2, <2>3 DEF Others
<1>3. \A p \in Operators : Pending(p)' = Pending(p)
  BY <1>1 DEF Pending
<1>4. \A st : SeesAdmin(st) => SeesAdmin(st)'
  BY <1>2 DEF SeesAdmin
<1>5. \A p \in Operators : \A s : SparesAdmin(p, s) => SparesAdmin(p, s)'
  BY <1>2, <1>3 DEF SparesAdmin
<1> QED
  BY <1>1, <1>3, <1>4, <1>5 DEF AdminSafe

LEMMA AdminStep ==
  ASSUME Undisputed, TypeInv, DefaultsForeseen, AdminSafe, [Next]_vars
  PROVE  AdminSafe' /\ (changes' = changes => AdminStays(cat, cat'))
<1>1. CASE UNCHANGED vars
  <2>1. \A p \in Operators : Pending(p)' = Pending(p)
    BY <1>1 DEF vars, Pending
  <2> QED
    BY <1>1, <2>1 DEF vars, AdminSafe, SeesAdmin, SparesAdmin, AdminStays
<1>2. CASE Others
  <2>1. changes' = changes + 1 /\ changes \in Nat
    BY <1>2 DEF Others, TypeInv, Counted
  <2> QED
    BY <1>2, <2>1, OthersAdmin
<1>3. ASSUME NEW p \in Operators, Progress(p) \/ Interrupt(p) \/ LoseAnswer(p)
      PROVE  AdminSafe' /\ AdminStays(cat, cat')
  <2>1. RunStep(p)
    BY <1>3, RunShape DEF TypeInv, RunsTyped, RunTyped, TxAtomic
  <2> QED
    BY <2>1, RunAdmin, AdminSafeStep
<1> QED
  BY <1>1, <1>2, <1>3 DEF Next

LEMMA AdminInit == Init => AdminSafe
<1> SUFFICES ASSUME Init PROVE AdminSafe
  OBVIOUS
<1>1. \A p \in Operators : Pending(p) = {} /\ op[p].phase # "reading"
  BY DEF Init, Idle, Pending
<1> QED
  BY <1>1 DEF AdminSafe

\* undoBorrow gives back the whole membership only where the snapshot shows
\* none, though it cannot see the ADMIN OPTION and the plan waits.  Two runs
\* and a creator dropped in between do break it, as Undisputed says.
THEOREM AdminAlwaysKept ==
  ASSUME Undisputed
  PROVE  Spec => AdminKept
<1>1. TypeInv /\ DefaultsForeseen /\ AdminSafe /\ [Next]_vars =>
        /\ TypeInv' /\ DefaultsForeseen' /\ AdminSafe'
        /\ changes' = changes => AdminStays(cat, cat')
  BY TypeStep, ForeseenStep, AdminStep
<1>2. AdminStays(cat, cat') => \A m \in cat.admin : m[1] = Me => m \in cat'.admin
  BY DEF AdminStays
<1> QED
  BY <1>1, <1>2, TypeInit, ForeseenInit, AdminInit, PTL DEF Spec, AdminKept

----------------------------------------------------------------------------
(* The borrow.                                                             *)

IsUndo(u, b) == u.op \in {"return", "drop"} /\ u.args = b.args /\ u.db = b.db

\* Every borrow of a plan is undone by the same plan, later and in the same
\* database.
UndonePlan(plan) ==
  \A b \in plan : b.op = "borrow" => \E u \in plan : IsUndo(u, b) /\ ~Precedes(u, b)

\* So is every borrow of an open transaction, by what has been sent or by what
\* is left of the plan.
UndoneTx(plan, tx) ==
  /\ \A i \in DOMAIN tx : tx[i].op = "borrow" =>
       \/ \E j \in DOMAIN tx : j > i /\ IsUndo(tx[j], tx[i])
       \/ \E u \in plan : IsUndo(u, tx[i])
  /\ \A i \in DOMAIN tx : tx[i].db = tx[1].db

BorrowsUndone ==
  \A p \in Operators : UndonePlan(op[p].plan) /\ UndoneTx(op[p].plan, op[p].tx)

LEMMA ForeseenNumbers ==
  ASSUME NEW k \in Foreseen
  PROVE  {k[1], k[2], k[3], k[4], k[5]} \subseteq Nat
<1>1. PICK e \in HandDefaults \cup DesiredDefaults \cup UNION {c.dacl : c \in InitialCatalogs} :
        k = DefaultKey(e)
  BY DEF Foreseen
<1>2. {e[1], e[2], e[3], e[4], e[5]} \subseteq Nat
  <2>1. CASE e \in Derived
    <3>1. PICK w \in Decl.wide, c \in Decl.creates : e = <<w[1], w[2], c[1], w[3], w[4], w[5]>>
      BY <2>1 DEF Derived
    <3>2. {w[1], w[2], w[3], w[4]} \subseteq Nat /\ c[1] \in Nat
      BY NamesAssumption
    <3> QED
      BY <3>1, <3>2
  <2>2. CASE e \in HandDefaults \cup Decl.defaults \cup UNION {c.dacl : c \in InitialCatalogs}
    BY <2>2, NamesAssumption
  <2> QED
    BY <1>1, <2>1, <2>2 DEF DesiredDefaults
<1> QED
  BY <1>1, <1>2 DEF DefaultKey

LEMMA DiffUndone ==
  ASSUME NEW st, \A e \in st.dacl : DefaultKey(e) \in Foreseen
  PROVE  UndonePlan(Diff(st))
<1> SUFFICES ASSUME NEW b \in Diff(st), b.op = "borrow"
             PROVE  \E u \in Diff(st) : IsUndo(u, b) /\ ~Precedes(u, b)
  BY DEF UndonePlan
<1>1. PICK k \in DefaultKeys(st) : b \in DefaultStatements(st, k)
  BY PlanShape
<1> DEFINE pos(step) == <<5, k[2], k[3], SequenceKind - k[4], k[5], step>>
           grant == Statement(k[1], pos(1), "alter default grant", k, MissingDefaults(st, k), FALSE, FALSE)
           revoke == Statement(k[1], pos(2), "alter default revoke", k, ExtraDefaults(st, k), TRUE, FALSE)
           borrow == Statement(k[1], pos(0), "borrow", <<k[3]>>, {}, FALSE, FALSE)
           undo == Statement(k[1], pos(3), UndoBorrow(st, k[3]), <<k[3]>>, {}, FALSE, FALSE)
<1>2. b \in {grant, revoke} \/ (b \in {borrow, undo} /\ {borrow, undo} \subseteq DefaultStatements(st, k))
  BY <1>1 DEF DefaultStatements
<1>3. grant.op = "alter default grant" /\ revoke.op = "alter default revoke"
  BY DEF Statement
<1>4. undo.op \in {"return", "drop"} /\ undo.args = <<k[3]>> /\ undo.db = k[1] /\ undo.pos = pos(3)
  BY DEF Statement, UndoBorrow
<1>5. borrow.args = <<k[3]>> /\ borrow.db = k[1] /\ borrow.pos = pos(0)
  BY DEF Statement
<1>6. k[1] \in Nat /\ k[2] \in Nat /\ k[3] \in Nat /\ SequenceKind - k[4] \in Int /\ k[5] \in Nat
  <2>1. k \in Foreseen
    BY KeysForeseen
  <2> QED
    BY <2>1, ForeseenNumbers DEF SequenceKind
<1> HIDE DEF grant, revoke, borrow, undo
<1>7. b = borrow /\ undo \in DefaultStatements(st, k)
  BY <1>2, <1>3, <1>4
<1>8. undo \in Diff(st)
  BY <1>7 DEF Diff, DefaultPrivileges
<1>9. ~Precedes(undo, borrow)
  <2>1. ~(k[1] < k[1])
    BY <1>6
  <2>2. ASSUME NEW i \in DOMAIN pos(3) PROVE ~(pos(3)[i] < pos(0)[i])
    <3>1. i \in 1 .. 6
      OBVIOUS
    <3> QED
      BY <1>6, <3>1
  <2> QED
    BY <1>4, <1>5, <2>1, <2>2 DEF Precedes
<1> QED
  BY <1>4, <1>5, <1>7, <1>8, <1>9 DEF IsUndo

\* Sending the first statement of a plan leaves every borrow undone.
LEMMA SendUndone ==
  ASSUME NEW plan, UndonePlan(plan), NEW S, NEW tx \in Seq(S), UndoneTx(plan, tx),
         NEW s \in plan, IsFirst(plan, s), tx # <<>> => tx[1].db = s.db
  PROVE  UndonePlan(plan \ {s}) /\ UndoneTx(plan \ {s}, Append(tx, s))
<1> DEFINE next == Append(tx, s)
<1>1. /\ Len(tx) \in Nat /\ DOMAIN tx = 1 .. Len(tx) /\ DOMAIN next = 1 .. Len(tx) + 1
      /\ next[Len(tx) + 1] = s /\ \A i \in DOMAIN tx : next[i] = tx[i]
  OBVIOUS
<1>2. UndonePlan(plan \ {s})
  <2> SUFFICES ASSUME NEW b \in plan \ {s}, b.op = "borrow"
               PROVE  \E u \in plan \ {s} : IsUndo(u, b) /\ ~Precedes(u, b)
    BY DEF UndonePlan
  <2>1. PICK u \in plan : IsUndo(u, b) /\ ~Precedes(u, b)
    BY DEF UndonePlan
  <2>2. u # s
    BY <2>1 DEF IsFirst
  <2> QED
    BY <2>1, <2>2
<1> HIDE DEF next
<1>3. ASSUME NEW i \in DOMAIN next, next[i].op = "borrow"
      PROVE  \/ \E j \in DOMAIN next : j > i /\ IsUndo(next[j], next[i])
             \/ \E u \in plan \ {s} : IsUndo(u, next[i])
  <2>1. CASE i = Len(tx) + 1
    <3>1. PICK u \in plan : IsUndo(u, s)
      BY <1>1, <1>3, <2>1 DEF UndonePlan
    <3>2. u # s
      BY <1>1, <1>3, <2>1, <3>1 DEF IsUndo
    <3> QED
      BY <1>1, <2>1, <3>1, <3>2
  <2>2. ASSUME i \in DOMAIN tx, NEW j \in DOMAIN tx, j > i, IsUndo(tx[j], tx[i])
        PROVE  \E l \in DOMAIN next : l > i /\ IsUndo(next[l], next[i])
    BY <1>1, <2>2
  <2>3. ASSUME i \in DOMAIN tx, NEW u \in plan, IsUndo(u, tx[i])
        PROVE  \/ \E j \in DOMAIN next : j > i /\ IsUndo(next[j], next[i])
               \/ \E v \in plan \ {s} : IsUndo(v, next[i])
    <3>1. Len(tx) + 1 \in DOMAIN next /\ Len(tx) + 1 > i
      BY <1>1, <2>3
    <3> QED
      BY <1>1, <2>3, <3>1
  <2>4. i \in DOMAIN tx \/ i = Len(tx) + 1
    BY <1>1
  <2> QED
    BY <1>1, <1>3, <2>1, <2>2, <2>3, <2>4 DEF UndoneTx
<1>4. ASSUME NEW i \in DOMAIN next PROVE next[i].db = next[1].db
  <2>1. CASE Len(tx) = 0
    BY <1>1, <2>1
  <2>2. CASE Len(tx) # 0
    <3>1. 1 \in DOMAIN tx /\ tx # <<>>
      BY <1>1, <2>2
    <3>2. i \in DOMAIN tx \/ i = Len(tx) + 1
      BY <1>1
    <3> QED
      BY <1>1, <3>1, <3>2 DEF UndoneTx
  <2> QED
    BY <2>1, <2>2
<1> QED
  BY <1>2, <1>3, <1>4 DEF UndoneTx, next

LEMMA BorrowsUndoneStep ==
  ASSUME Atomic, TypeInv, DefaultsForeseen, BorrowsUndone, NEW p \in Operators, RunStep(p)
  PROVE  BorrowsUndone'
<1>1. UndonePlan(op[p].plan) /\ UndoneTx(op[p].plan, op[p].tx)
  BY DEF BorrowsUndone
<1>2. UndonePlan({}) /\ \A plan : UndoneTx(plan, <<>>)
  BY DEF UndonePlan, UndoneTx
<1>3. ASSUME NEW st, FreshSnapshot(p, st) PROVE UndonePlan(Diff(st))
  BY <1>3, SnapshotForeseen, DiffUndone
<1>4. ASSUME NEW s \in op[p].plan, NextStatement(p, s)
      PROVE  UndonePlan(op[p].plan \ {s}) /\ UndoneTx(op[p].plan \ {s}, Append(op[p].tx, s))
  <2>1. PICK S : op[p].tx \in Seq(S)
    BY DEF TypeInv, IInv, RunsLawful, RunLawful, TxLawful
  <2>2. IsFirst(op[p].plan, s) /\ (op[p].tx # <<>> => op[p].tx[1].db = s.db)
    BY <1>4 DEF NextStatement
  <2> QED
    BY <1>1, <2>1, <2>2, SendUndone
<1>5. UndonePlan(op'[p].plan) /\ UndoneTx(op'[p].plan, op'[p].tx)
  BY <1>1, <1>2, <1>3, <1>4, PlanStep DEF TypeInv
<1>6. \A q \in Operators \ {p} : op'[q] = op[q]
  BY PlanStep DEF TypeInv
<1>7. \A q \in Operators : UndonePlan(op'[q].plan) /\ UndoneTx(op'[q].plan, op'[q].tx)
  BY <1>5, <1>6 DEF BorrowsUndone
<1> QED
  BY <1>7 DEF BorrowsUndone, UndonePlan, UndoneTx

LEMMA EffectInherit ==
  ASSUME Me \notin Managed, NEW c, IsCatalog(c), NEW s, Lawful(s), NEW m, m[1] = Me, m \in Effect(c, s).inherit
  PROVE  \/ m \in c.inherit /\ ~(s.op \in {"return", "drop"} /\ m = <<Me, s.args[1]>>)
         \/ s.op = "borrow" /\ m = <<Me, s.args[1]>>
<1> DEFINE d == Effect(c, s)
<1>1. CASE s.op = "borrow"
  <2>1. d.inherit = c.inherit \cup {<<Me, s.args[1]>>}
    BY <1>1 DEF Effect, IsCatalog, Fields
  <2> QED
    BY <1>1, <2>1
<1>2. CASE s.op \in {"return", "drop"}
  <2>1. d.inherit = c.inherit \ {<<Me, s.args[1]>>}
    BY <1>2 DEF Effect, IsCatalog, Fields
  <2> QED
    BY <1>2, <2>1
<1>3. CASE s.op \in {"grant role", "revoke role"}
  <2>1. s.args[2] # Me
    BY <1>3 DEF Lawful
  <2>2. d.inherit \subseteq c.inherit \cup {<<s.args[2], s.args[1]>>}
    BY <1>3 DEF Effect, IsCatalog, Fields
  <2> HIDE DEF d
  <2>3. m \in c.inherit
    BY <2>1, <2>2 DEF d
  <2> QED
    BY <1>3, <2>3
<1>4. CASE s.op \in {"create role", "alter role", "iam grant", "iam revoke", "grant", "revoke",
                     "grant all", "alter default grant", "alter default revoke"}
  <2>1. d.inherit = c.inherit
    BY <1>4 DEF Effect, IsCatalog, Fields
  <2> QED
    BY <1>4, <2>1
<1> QED
  BY <1>1, <1>2, <1>3, <1>4 DEF Lawful

\* What a committed transaction has borrowed, it has given back.
LEMMA CommitReturns ==
  ASSUME Me \notin Managed, TypeInv, BorrowsUndone, NEW p \in Operators, Committed(p),
         NEW m \in cat'.inherit, m[1] = Me
  PROVE  m \in cat.inherit
<1> DEFINE tx == op[p].tx
           Borrows(i) == tx[i].op = "borrow" /\ m = <<Me, tx[i].args[1]>>
           Undoes(i) == tx[i].op \in {"return", "drop"} /\ m = <<Me, tx[i].args[1]>>
           Held(i) == \E j \in 1 .. i : Borrows(j) /\ \A l \in j + 1 .. i : ~Undoes(l)
           P == {i \in Nat : m \in Views(tx)[i].inherit => m \in cat.inherit \/ Held(i)}
<1>1. PICK S : tx \in Seq(S) /\ \A s \in S : Lawful(s)
  BY DEF TypeInv, IInv, RunsLawful, RunLawful, TxLawful
<1>2. Len(tx) \in Nat /\ DOMAIN tx = 1 .. Len(tx) /\ \A i \in 1 .. Len(tx) : Lawful(tx[i])
  BY <1>1
<1>3. \A i \in 0 .. Len(tx) : IsCatalog(Views(tx)[i])
  BY <1>1, ReplaysSound DEF Committed, TypeInv, Sound
<1>4. 0 \in P
  BY <1>2, ViewsSteps
<1>5. ASSUME NEW i \in 0 .. Len(tx), i \in P, i < Len(tx) PROVE i + 1 \in P
  <2> SUFFICES ASSUME m \in Views(tx)[i + 1].inherit, m \notin cat.inherit PROVE Held(i + 1)
    OBVIOUS
  <2>1. i + 1 \in 1 .. Len(tx) /\ (i + 1) - 1 = i /\ i \in Nat
    BY <1>2, <1>5
  <2>2. Views(tx)[i + 1] = Effect(Views(tx)[i], tx[i + 1]) /\ IsCatalog(Views(tx)[i]) /\ Lawful(tx[i + 1])
    BY <1>2, <1>3, <2>1, ViewsSteps
  <2>3. (m \in Views(tx)[i].inherit /\ ~Undoes(i + 1)) \/ Borrows(i + 1)
    BY <2>2, EffectInherit
  <2>4. m \in Views(tx)[i].inherit => Held(i)
    BY <1>5
  <2> HIDE DEF Borrows, Undoes, tx
  <2>5. CASE Borrows(i + 1)
    BY <2>1, <2>5
  <2>6. CASE Held(i) /\ ~Undoes(i + 1)
    <3>1. PICK j \in 1 .. i : Borrows(j) /\ \A l \in j + 1 .. i : ~Undoes(l)
      BY <2>6
    <3>2. j \in 1 .. i + 1 /\ \A l \in j + 1 .. i + 1 : l = i + 1 \/ l \in j + 1 .. i
      BY <2>1
    <3> QED
      BY <2>6, <3>1, <3>2
  <2> QED
    BY <2>3, <2>4, <2>5, <2>6
<1> HIDE DEF P
<1>6. 0 .. Len(tx) \subseteq P
  BY <1>2, <1>4, <1>5, UpTo
<1>7. ASSUME Held(Len(tx)) PROVE FALSE
  <2>1. PICK j \in 1 .. Len(tx) : Borrows(j) /\ \A l \in j + 1 .. Len(tx) : ~Undoes(l)
    BY <1>7
  <2>2. UndoneTx(op[p].plan, tx) /\ tx[j].db = tx[1].db
    BY <1>2 DEF BorrowsUndone, UndoneTx
  <2>3. \A l \in DOMAIN tx : l > j => ~IsUndo(tx[l], tx[j])
    <3> SUFFICES ASSUME NEW l \in DOMAIN tx, l > j, IsUndo(tx[l], tx[j]) PROVE FALSE
      OBVIOUS
    <3>1. l \in j + 1 .. Len(tx)
      BY <1>2
    <3> QED
      BY <2>1, <3>1 DEF IsUndo
  <2>4. \A u \in op[p].plan : ~IsUndo(u, tx[j])
    BY <2>2 DEF Committed, IsUndo
  <2> QED
    BY <1>2, <2>1, <2>2, <2>3, <2>4 DEF UndoneTx
<1>8. Len(tx) \in P
  BY <1>2, <1>6
<1>9. m \in Views(tx)[Len(tx)].inherit
  BY DEF Committed, View
<1> QED
  BY <1>7, <1>8, <1>9 DEF P

BorrowInv == TypeInv /\ DefaultsForeseen /\ BorrowsUndone

LEMMA BorrowStep ==
  ASSUME Atomic, Me \notin Managed, BorrowInv, [Next]_vars
  PROVE  BorrowInv' /\ (changes' = changes => \A m \in cat'.inherit : m[1] = Me => m \in cat.inherit)
<1>1. TypeInv' /\ DefaultsForeseen'
  BY TypeStep, ForeseenStep DEF BorrowInv
<1>2. CASE UNCHANGED vars
  BY <1>1, <1>2 DEF vars, BorrowInv, BorrowsUndone, UndonePlan, UndoneTx
<1>3. CASE Others
  <2>1. op' = op /\ changes' = changes + 1 /\ changes \in Nat
    BY <1>3 DEF Others, BorrowInv, TypeInv, Counted
  <2> QED
    BY <1>1, <2>1 DEF BorrowInv, BorrowsUndone, UndonePlan, UndoneTx
<1>4. ASSUME NEW p \in Operators, Progress(p) \/ Interrupt(p) \/ LoseAnswer(p)
      PROVE  BorrowInv' /\ \A m \in cat'.inherit : m[1] = Me => m \in cat.inherit
  <2>1. RunStep(p)
    BY <1>4, RunShape DEF BorrowInv, TypeInv, RunsTyped, RunTyped, TxAtomic
  <2>2. BorrowsUndone'
    BY <2>1, BorrowsUndoneStep DEF BorrowInv
  <2>3. cat' = cat \/ Committed(p)
    BY <2>1 DEF RunStep, Stops, Reads, Plans, Starts, Sends, Lands, Done
  <2> QED
    BY <1>1, <2>2, <2>3, CommitReturns DEF BorrowInv
<1> QED
  BY <1>2, <1>3, <1>4 DEF Next

LEMMA BorrowInit == Init => BorrowInv
<1> SUFFICES ASSUME Init PROVE BorrowInv
  OBVIOUS
<1>1. \A p \in Operators : op[p].plan = {} /\ op[p].tx = <<>>
  BY DEF Init, Idle
<1> QED
  BY <1>1, TypeInit, ForeseenInit DEF BorrowInv, BorrowsUndone, UndonePlan, UndoneTx

\* On Aurora borrow, ALTER DEFAULT PRIVILEGES and undo run in one transaction:
\* no other session sees a membership borrowed, whatever the plan, the catalog
\* it meets and the point where the run is cut short.  A declared executing
\* user may be granted memberships that are to stay.
THEOREM BorrowNeverOutlivesRun ==
  ASSUME ~Dsql, Me \notin Managed
  PROVE  Spec => BorrowCannotOutliveRun
<1>1. BorrowInv /\ [Next]_vars =>
        BorrowInv' /\ (changes' = changes => \A m \in cat'.inherit : m[1] = Me => m \in cat.inherit)
  BY BorrowStep DEF Atomic
<1> QED
  BY <1>1, BorrowInit, PTL DEF Spec, BorrowCannotOutliveRun

----------------------------------------------------------------------------
(* Clean means returned.                                                   *)

\* The executing user is not declared and is no superuser, and nobody lets it
\* inherit from a role that is not declared.
OnlyDeclared ==
  /\ Me \notin Managed
  /\ \A c \in InitialCatalogs : Me \notin c.super
  /\ \A m \in HandMembers \cup UNION {c.inherit : c \in InitialCatalogs} : m[1] = Me => m[2] \in Managed

MineDeclared == Me \notin cat.super /\ \A m \in cat.inherit : m[1] = Me => m[2] \in Managed

\* st shows the roles and the memberships as they are.
Current(st) == st.roles = cat.roles /\ st.super = cat.super /\ st.inherit = cat.inherit

NothingHeld == \A m \in cat.inherit : m[1] # Me

CleanReturned ==
  \A p \in Operators \ stale :
    /\ op[p].phase = "reading" => Current(op[p].st)
    /\ op[p].phase = "clean" => NothingHeld

\* A run that reads on, or has nothing to do, has read what is there unless
\* others have moved it since the run started.
LEMMA ReadingShape ==
  ASSUME IInv, NEW p \in Operators, Progress(p) \/ Interrupt(p) \/ LoseAnswer(p)
  PROVE  /\ \A q \in Operators \ {p} : q \notin stale' => q \notin stale /\ cat' = cat
         /\ op'[p].phase \in {"reading", "clean"} =>
              /\ cat' = cat
              /\ \E st : /\ \/ st = ReadCluster(cat, IAMPrincipals)
                            \/ /\ op[p].phase = "reading" /\ (p \notin stale' => p \notin stale)
                               /\ \E db : st = ReadDatabases(cat, op[p].st, {db})
                         /\ op'[p].phase = "reading" => op'[p].st = st
                         /\ op'[p].phase = "clean" => Diff(st) = {}
<1>0. op = [q \in Operators |-> op[q]] /\ op[p] = [f \in RunFields |-> op[p][f]]
  BY DEF IInv, RunsLawful, RunLawful
<1>1. ASSUME NEW phase, End(p, phase) PROVE op'[p].phase = phase
  <2>1. op'[p] = [Idle EXCEPT !.phase = phase]
    BY <1>0, <1>1 DEF End
  <2> QED
    BY <2>1 DEF Idle
<1>2. ASSUME NEW st, NEW left, ReadOn(p, st, left)
      PROVE  /\ op'[p].phase = "reading" => op'[p].st = st
             /\ op'[p].phase = "clean" => Diff(st) = {}
  <2>1. CASE op' = [op EXCEPT ![p] = [Idle EXCEPT !.phase = "reading", !.st = st, !.left = left]]
    <3>1. op'[p] = [Idle EXCEPT !.phase = "reading", !.st = st, !.left = left]
      BY <1>0, <2>1
    <3> QED
      BY <3>1 DEF Idle
  <2>2. CASE Decide(p, st)
    <3>1. CASE End(p, "failed")
      BY <1>1, <3>1
    <3>2. CASE Diff(st) = {} /\ End(p, "clean")
      BY <1>1, <3>2
    <3>3. ASSUME NEW allow,
                 op' = [op EXCEPT ![p] = [Idle EXCEPT !.phase = "planned", !.allow = allow, !.plan = Diff(st)]]
          PROVE  op'[p].phase = "planned"
      <4>1. op'[p] = [Idle EXCEPT !.phase = "planned", !.allow = allow, !.plan = Diff(st)]
        BY <1>0, <3>3
      <4> QED
        BY <4>1 DEF Idle
    <3> QED
      BY <2>2, <3>1, <3>2, <3>3 DEF Decide
  <2> QED
    BY <1>2, <2>1, <2>2 DEF ReadOn
<1>3. ASSUME NEW rest, NEW tx, GoOn(p, rest, tx) PROVE op'[p].phase \in {"applied", "applying"}
  <2> DEFINE r == [op[p] EXCEPT !.plan = rest, !.tx = tx,
                                !.phase = IF rest = {} /\ tx = <<>> THEN "applied" ELSE "applying"]
  <2>1. op' = [op EXCEPT ![p] = r]
    BY <1>0, <1>3 DEF GoOn, RunFields
  <2>2. op'[p] = r /\ r.phase \in {"applied", "applying"}
    BY <1>0, <2>1 DEF RunFields
  <2> QED
    BY <2>2
<1>4. CASE StartReading(p)
  <2>1. cat' = cat /\ stale' = stale \ {p}
    BY <1>4 DEF StartReading
  <2> QED
    BY <1>1, <1>2, <1>4, <2>1 DEF StartReading
<1>5. CASE ReadNextDatabase(p)
  <2>1. cat' = cat /\ stale' = stale /\ op[p].phase = "reading"
    BY <1>5 DEF ReadNextDatabase
  <2> QED
    BY <1>1, <1>2, <1>5, <2>1 DEF ReadNextDatabase
<1>6. CASE Confirm(p)
  <2>1. cat' = cat /\ stale' = stale
    BY <1>6 DEF Confirm
  <2>2. CASE End(p, "refused")
    BY <1>1, <2>1, <2>2
  <2>3. CASE op' = [op EXCEPT ![p].phase = "applying"]
    <3>1. op'[p].phase = "applying"
      BY <1>0, <2>3 DEF RunFields
    <3> QED
      BY <2>1, <3>1
  <2> QED
    BY <1>6, <2>2, <2>3 DEF Confirm
<1>7. CASE Execute(p) \/ Commit(p) \/ LoseAnswer(p)
  <2>1. Changed({p})
    BY <1>7 DEF Execute, Commit, LoseAnswer
  <2>2. End(p, "failed") \/ \E rest, tx : GoOn(p, rest, tx)
    BY <1>7 DEF Execute, Commit, LoseAnswer
  <2>3. op'[p].phase \in {"failed", "applied", "applying"}
    BY <1>1, <1>3, <2>2
  <2> QED
    BY <2>1, <2>3 DEF Changed
<1>8. CASE Interrupt(p)
  <2>1. cat' = cat /\ stale' = stale /\ End(p, "failed")
    BY <1>8 DEF Interrupt
  <2> QED
    BY <1>1, <2>1
<1> QED
  BY <1>4, <1>5, <1>6, <1>7, <1>8 DEF Progress

LEMMA CleanStep ==
  ASSUME OnlyDeclared, TypeInv, MineDeclared, CleanReturned, [Next]_vars
  PROVE  CleanReturned'
<1>1. CASE UNCHANGED vars
  BY <1>1 DEF vars, CleanReturned, Current, NothingHeld
<1>2. CASE Others
  <2>1. op' = op /\ (cat' # cat => Operators \subseteq stale') /\ (cat' = cat => stale' = stale)
    BY <1>2 DEF Others, Changed
  <2> QED
    BY <2>1 DEF CleanReturned, Current, NothingHeld
<1>3. ASSUME NEW p \in Operators, Progress(p) \/ Interrupt(p) \/ LoseAnswer(p)
      PROVE  CleanReturned'
  <2>1. RunStep(p)
    BY <1>3, RunShape DEF TypeInv, RunsTyped, RunTyped, TxAtomic
  <2>2. ASSUME NEW q \in Operators \ {p}, q \notin stale'
        PROVE  /\ op'[q].phase = "reading" => Current(op[q].st)'
               /\ op'[q].phase = "clean" => NothingHeld'
    <3>1. op'[q] = op[q] /\ q \notin stale /\ cat' = cat
      BY <1>3, <2>1, <2>2, PlanStep, ReadingShape DEF TypeInv
    <3> QED
      BY <3>1 DEF CleanReturned, Current, NothingHeld
  <2>3. ASSUME p \notin stale', op'[p].phase \in {"reading", "clean"}
        PROVE  /\ op'[p].phase = "reading" => Current(op[p].st)'
               /\ op'[p].phase = "clean" => NothingHeld'
    <3>1. PICK st : /\ \/ st = ReadCluster(cat, IAMPrincipals)
                       \/ /\ op[p].phase = "reading" /\ p \notin stale
                          /\ \E db : st = ReadDatabases(cat, op[p].st, {db})
                    /\ op'[p].phase = "reading" => op'[p].st = st
                    /\ op'[p].phase = "clean" => Diff(st) = {}
      BY <1>3, <2>3, ReadingShape DEF TypeInv
    <3>2. cat' = cat
      BY <1>3, <2>3, ReadingShape DEF TypeInv
    <3>3. Current(st)
      <4>1. CASE st = ReadCluster(cat, IAMPrincipals)
        BY <4>1 DEF ReadCluster, Current, TypeInv, Sound, IsCatalog, Fields
      <4>2. ASSUME op[p].phase = "reading", p \notin stale, NEW db, st = ReadDatabases(cat, op[p].st, {db})
            PROVE  Current(st)
        <5>1. IsCatalog(op[p].st) /\ Current(op[p].st)
          BY <4>2 DEF TypeInv, RunsTyped, RunTyped, CleanReturned
        <5> QED
          BY <4>2, <5>1 DEF ReadDatabases, Current, IsCatalog, Fields
      <4> QED
        BY <3>1, <4>1, <4>2
    <3>4. ASSUME Diff(st) = {}, NEW m \in cat.inherit, m[1] = Me PROVE FALSE
      <4>1. m[2] \in Managed /\ m = <<Me, m[2]>> /\ m[2] # Me
        BY <3>4 DEF MineDeclared, OnlyDeclared, TypeInv, Sound, WellFormed
      <4>2. ~Exempt(st)
        BY <3>3 DEF Exempt, Current, MineDeclared, TypeInv, Sound
      <4>3. m[2] \in StaleBorrows(st)
        BY <3>3, <4>1, <4>2 DEF StaleBorrows, Current, OnlyDeclared
      <4>4. ReleaseStaleBorrows(st) # {}
        BY <4>3 DEF ReleaseStaleBorrows
      <4> QED
        BY <3>4, <4>4 DEF Diff
    <3> QED
      BY <3>1, <3>2, <3>3, <3>4 DEF Current, NothingHeld
  <2> QED
    BY <2>2, <2>3 DEF CleanReturned
<1> QED
  BY <1>1, <1>2, <1>3 DEF Next

LEMMA MineDeclaredStep ==
  ASSUME NoStrays, OnlyDeclared, AuthorityInv, MineDeclared, [Next]_vars
  PROVE  MineDeclared'
<1>1. CASE changes' = changes
  <2>1. Narrow(cat, cat')
    BY <1>1, AuthorityStep
  <2> QED
    BY <2>1 DEF Narrow, Altered, MineDeclared, OnlyDeclared
<1>2. CASE Others
  <2> USE DEF AuthorityInv, TypeInv, Sound, IsCatalog, Fields
  <2>1. cat'.super \subseteq cat.super /\ cat'.inherit \subseteq cat.inherit \cup HandMembers
    <3>1. CASE HandGrant \/ HandDefault \/ CloseDatabase
      BY <3>1 DEF HandGrant, HandDefault, CloseDatabase
    <3>2. CASE HandMember
      BY <3>2 DEF HandMember, Toggle
    <3>3. CASE CreateRelation \/ DropRelation
      BY <3>3 DEF CreateRelation, Created, DropRelation, WithoutRelation
    <3>4. CASE DropRole
      BY <3>4 DEF DropRole, WithoutRole
    <3> QED
      BY <1>2, <3>1, <3>2, <3>3, <3>4 DEF Others
  <2> QED
    BY <2>1 DEF MineDeclared, OnlyDeclared
<1>3. CASE UNCHANGED vars
  BY <1>1, <1>3 DEF vars
<1>4. ASSUME NEW p \in Operators, Progress(p) \/ Interrupt(p) \/ LoseAnswer(p)
      PROVE  changes' = changes
  BY <1>4, RunShape DEF AuthorityInv, TypeInv, RunsTyped, RunTyped, TxAtomic
<1> QED
  BY <1>1, <1>2, <1>3, <1>4 DEF Next

LEMMA CleanInit == OnlyDeclared /\ Init => MineDeclared /\ CleanReturned
BY DEF OnlyDeclared, Init, MineDeclared, CleanReturned, Idle

\* releaseStaleBorrows: what a run that failed left borrowed on DSQL, or what
\* somebody granted, does not go unnoticed, however many databases the run
\* reads one after the other and whatever others do before it starts.
THEOREM CleanAlwaysMeansReturned ==
  ASSUME NoStrays, OnlyDeclared
  PROVE  Spec => []CleanMeansReturned
<1>1. AuthorityInv /\ MineDeclared /\ CleanReturned /\ [Next]_vars =>
        AuthorityInv' /\ MineDeclared' /\ CleanReturned'
  BY AuthorityStep, MineDeclaredStep, CleanStep DEF AuthorityInv
<1>2. CleanReturned => CleanMeansReturned
  BY DEF CleanReturned, NothingHeld, CleanMeansReturned
<1>3. Init => AuthorityInv /\ MineDeclared /\ CleanReturned
  BY AuthorityInit, CleanInit
<1> QED
  BY <1>1, <1>2, <1>3, PTL DEF Spec

=============================================================================
