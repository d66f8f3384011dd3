---------------------------- MODULE DeployProofs ----------------------------
(***************************************************************************)
(* Theorems about DeployEngine: the plan of a Deploy is well-formed for    *)
(* every listing, so a Deploy begins within the inductive invariant; with  *)
(* the steps of DeployStepProofs, it keeps one of the two containers of a  *)
(* replacement, or tells.                                                  *)
(***************************************************************************)
EXTENDS DeployStepProofs, FiniteSetTheorems

-----------------------------------------------------------------------------
(* Induction, with the claim as a set. *)

\* A set of naturals has a least element.
LEMMA Least ==
  ASSUME NEW T, T \subseteq Nat, T # {}
  PROVE  \E x \in T : \A y \in T : x <= y
<1>1. PICK x \in T : \A y \in T : ~(<<y, x>> \in OpToRel(<, Nat))
  BY NatLessThanWellFounded, WFMin, Zenon
<1>2. \A y \in T : ~(y < x)
  BY <1>1, Zenon DEF OpToRel
<1> QED  BY <1>2

\* A set with 0 and every successor has every natural.
LEMMA Induction ==
  ASSUME NEW T, 0 \in T, \A n \in Nat : n \in T => n + 1 \in T
  PROVE  Nat \subseteq T
<1>1. SUFFICES ASSUME Nat \ T # {} PROVE FALSE
  BY Zenon
<1>2. PICK x \in Nat \ T : \A y \in Nat \ T : x <= y
  BY <1>1, Least, Zenon
<1>3. x # 0 /\ x - 1 \in Nat
  BY <1>2
<1>4. x - 1 \in T
  BY <1>2, <1>3
<1> QED  BY <1>2, <1>3, <1>4

-----------------------------------------------------------------------------
(* What Keep returns. *)

KeepFcn(s, S, n, f) ==
  f = [i \in 0..n |-> IF i = 0 THEN <<>>
                      ELSE IF s[i] \in S THEN Append(f[i - 1], s[i]) ELSE f[i - 1]]

KeepStep(s, S, f, i) ==
  f[i] = IF i = 0 THEN <<>>
         ELSE IF s[i] \in S THEN Append(f[i - 1], s[i]) ELSE f[i - 1]

\* Keep returns elements of the set alone, and all of those in the sequence.
LEMMA KeepRange ==
  ASSUME NEW A, NEW s \in Seq(A), NEW S
  PROVE  /\ Keep(s, S) \in Seq(A \cap S)
         /\ \A i \in 1..Len(s) : s[i] \in S =>
              \E j \in 1..Len(Keep(s, S)) : Keep(s, S)[j] = s[i]
\* Keep goes through its sequence one element at a time.
<1>step. ASSUME NEW n, NEW f, KeepFcn(s, S, n, f), NEW i \in 0..n
         PROVE  KeepStep(s, S, f, i)
  BY <1>step, Zenon DEF KeepFcn, KeepStep
\* There is a function with the steps of Keep.
<1>exists. ASSUME NEW n \in Nat
           PROVE  \E f : KeepFcn(s, S, n, f)
  <2> USE <1>exists
  <2> DEFINE T == {k \in Nat : \E f : KeepFcn(s, S, k, f)}
  <2>1. 0 \in T
    <3>1. KeepFcn(s, S, 0, [i \in 0..0 |-> <<>>])
      BY DEF KeepFcn
    <3> QED BY <3>1, Zenon
  <2>2. ASSUME NEW k \in Nat, k \in T PROVE k + 1 \in T
    <3>1. PICK g : KeepFcn(s, S, k, g)
      BY <2>2, Zenon
    <3> DEFINE f == [i \in 0..(k + 1) |->
                       IF i = k + 1
                       THEN IF s[i] \in S THEN Append(g[i - 1], s[i]) ELSE g[i - 1]
                       ELSE g[i]]
    <3>2. \A i \in 0..k : f[i] = g[i]
      OBVIOUS
    <3>3. ASSUME NEW i \in 0..(k + 1) PROVE KeepStep(s, S, f, i)
      <4>1. CASE i = k + 1
        <5>1. i \in 0..(k + 1) /\ i # 0 /\ i - 1 \in 0..k
          BY <4>1
        <5>2. f[i] = IF s[i] \in S THEN Append(g[i - 1], s[i]) ELSE g[i - 1]
          BY <4>1, <5>1, Zenon
        <5> HIDE DEF f
        <5> QED BY <5>1, <5>2, <3>2, Zenon DEF KeepStep
      <4>2. CASE i # k + 1
        <5>1. i \in 0..k /\ (i # 0 => i - 1 \in 0..k)
          BY <4>2
        <5>2. KeepStep(s, S, g, i)
          BY <5>1, <3>1, <1>step, Zenon
        <5> HIDE DEF f
        <5> QED BY <5>1, <5>2, <3>2, Zenon DEF KeepStep
      <4> QED BY <4>1, <4>2, Zenon
    <3>4. f = [i \in 0..(k + 1) |-> f[i]]
      BY Zenon
    <3> HIDE DEF f
    <3>5. KeepFcn(s, S, k + 1, f)
      BY <3>3, <3>4, Zenon DEF KeepFcn, KeepStep
    <3> QED BY <3>5
  <2> HIDE DEF T
  <2>3. Nat \subseteq T
    BY <2>1, <2>2, Induction, ZenonT(30)
  <2> QED BY <2>3, Zenon DEF T
\* Keep is the last value of a function with its steps.
<1>is. ASSUME Len(s) \in Nat
       PROVE  \E f : KeepFcn(s, S, Len(s), f) /\ Keep(s, S) = f[Len(s)]
  <2> USE <1>is
  <2>1. \E f : KeepFcn(s, S, Len(s), f)
    BY <1>exists, Zenon
  <2> QED BY <2>1, Zenon DEF Keep, KeepFcn
<1>1. PICK f : KeepFcn(s, S, Len(s), f) /\ Keep(s, S) = f[Len(s)]
  BY <1>is
<1> DEFINE Good(k) == /\ f[k] \in Seq(A \cap S)
                      /\ \A i \in 1..k : s[i] \in S => \E j \in 1..Len(f[k]) : f[k][j] = s[i]
           T == {k \in Nat : k <= Len(s) => Good(k)}
<1>2. 0 \in T
  <2>1. f[0] = <<>>
    BY <1>1, <1>step DEF KeepStep
  <2>2. f[0] \in Seq(A \cap S)
    BY <2>1
  <2>3. 1..0 = {}
    OBVIOUS
  <2> QED BY <2>2, <2>3, Zenon
<1>3. ASSUME NEW k \in Nat, k \in T, k + 1 <= Len(s) PROVE Good(k + 1)
  <2>1. Good(k)
    BY <1>3
  <2>2. f[k + 1] = IF s[k + 1] \in S THEN Append(f[k], s[k + 1]) ELSE f[k]
    <3>1. k + 1 \in 0..Len(s) /\ k + 1 # 0 /\ k + 1 - 1 = k
      BY <1>3
    <3> QED BY <3>1, <1>1, <1>step, SMTT(30) DEF KeepStep
  <2>3. s[k + 1] \in A
    BY <1>3
  <2>4. CASE s[k + 1] \in S
    <3>1. f[k + 1] = Append(f[k], s[k + 1])
      BY <2>2, <2>4, Zenon
    <3>2. f[k + 1] \in Seq(A \cap S)
      BY <3>1, <2>1, <2>3, <2>4, SMTT(30)
    <3>3. ASSUME NEW i \in 1..(k + 1), s[i] \in S
          PROVE  \E j \in 1..Len(f[k + 1]) : f[k + 1][j] = s[i]
      <4>1. CASE i = k + 1
        <5>1. f[k + 1][Len(f[k]) + 1] = s[i] /\ Len(f[k]) + 1 \in 1..Len(f[k + 1])
          BY <4>1, <3>1, <2>1, SMTT(30)
        <5> QED BY <5>1, Zenon
      <4>2. CASE i # k + 1
        <5>1. PICK j \in 1..Len(f[k]) : f[k][j] = s[i]
          BY <4>2, <3>3, <2>1, SMTT(30)
        <5>2. f[k + 1][j] = f[k][j] /\ j \in 1..Len(f[k + 1])
          BY <5>1, <3>1, <2>1, SMTT(30)
        <5> QED BY <5>1, <5>2, Zenon
      <4> QED BY <4>1, <4>2, Zenon
    <3> QED BY <3>2, <3>3, Zenon
  <2>5. CASE s[k + 1] \notin S
    <3>1. f[k + 1] = f[k]
      BY <2>2, <2>5, Zenon
    <3>2. ASSUME NEW i \in 1..(k + 1), s[i] \in S PROVE i \in 1..k
      BY <3>2, <2>5, SMTT(30)
    <3> QED BY <3>1, <3>2, <2>1, Zenon
  <2> QED BY <2>4, <2>5, Zenon
<1>4. \A k \in Nat : k \in T => k + 1 \in T
  <2> HIDE DEF Good
  <2> QED BY <1>3
<1> HIDE DEF T
<1>5. Nat \subseteq T
  BY <1>2, <1>4, Induction, ZenonT(30)
<1> USE DEF T
<1>6. Good(Len(s))
  BY <1>5
<1> QED BY <1>1, <1>6, Zenon

-----------------------------------------------------------------------------
(* What Joined returns. *)

JoinFcn(ss, n, f) == f = [i \in 0..n |-> IF i = 0 THEN <<>> ELSE f[i - 1] \o ss[i]]

JoinStep(ss, f, i) == f[i] = IF i = 0 THEN <<>> ELSE f[i - 1] \o ss[i]

\* Sequences over A, joined, are a sequence over A.
LEMMA JoinedType ==
  ASSUME NEW A, NEW ss \in Seq(Seq(A))
  PROVE  Joined(ss) \in Seq(A)
\* Joined appends one sequence at a time.
<1>step. ASSUME NEW n, NEW f, JoinFcn(ss, n, f), NEW i \in 0..n
         PROVE  JoinStep(ss, f, i)
  BY <1>step, Zenon DEF JoinFcn, JoinStep
\* There is a function with the steps of Joined.
<1>exists. ASSUME NEW n \in Nat
           PROVE  \E f : JoinFcn(ss, n, f)
  <2> USE <1>exists
  <2> DEFINE T == {k \in Nat : \E f : JoinFcn(ss, k, f)}
  <2>1. 0 \in T
    <3>1. JoinFcn(ss, 0, [i \in 0..0 |-> <<>>])
      BY DEF JoinFcn
    <3> QED BY <3>1, Zenon
  <2>2. ASSUME NEW k \in Nat, k \in T PROVE k + 1 \in T
    <3>1. PICK g : JoinFcn(ss, k, g)
      BY <2>2, Zenon
    <3> DEFINE f == [i \in 0..(k + 1) |-> IF i = k + 1 THEN g[i - 1] \o ss[i] ELSE g[i]]
    <3>2. \A i \in 0..k : f[i] = g[i]
      OBVIOUS
    <3>3. ASSUME NEW i \in 0..(k + 1) PROVE JoinStep(ss, f, i)
      <4>1. CASE i = k + 1
        <5>1. i \in 0..(k + 1) /\ i # 0 /\ i - 1 \in 0..k
          BY <4>1
        <5>2. f[i] = g[i - 1] \o ss[i]
          BY <4>1, <5>1, Zenon
        <5> HIDE DEF f
        <5> QED BY <5>1, <5>2, <3>2, Zenon DEF JoinStep
      <4>2. CASE i # k + 1
        <5>1. i \in 0..k /\ (i # 0 => i - 1 \in 0..k)
          BY <4>2
        <5>2. JoinStep(ss, g, i)
          BY <5>1, <3>1, <1>step, ZenonT(30)
        <5> HIDE DEF f
        <5> QED BY <5>1, <5>2, <3>2, Zenon DEF JoinStep
      <4> QED BY <4>1, <4>2, Zenon
    <3>4. f = [i \in 0..(k + 1) |-> f[i]]
      BY Zenon
    <3> HIDE DEF f
    <3>5. JoinFcn(ss, k + 1, f)
      BY <3>3, <3>4, Zenon DEF JoinFcn, JoinStep
    <3> QED BY <3>5
  <2> HIDE DEF T
  <2>3. Nat \subseteq T
    BY <2>1, <2>2, Induction, Zenon
  <2> QED BY <2>3, Zenon DEF T
<1>1. Len(ss) \in Nat
  OBVIOUS
<1>2. PICK f : JoinFcn(ss, Len(ss), f) /\ Joined(ss) = f[Len(ss)]
  <2>1. \E f : JoinFcn(ss, Len(ss), f)
    BY <1>1, <1>exists, Zenon
  <2> QED BY <2>1, Zenon DEF Joined, JoinFcn
<1> DEFINE T == {k \in Nat : k <= Len(ss) => f[k] \in Seq(A)}
<1>3. 0 \in T
  <2>1. f[0] = <<>>
    BY <1>1, <1>2, <1>step, SMTT(30) DEF JoinStep
  <2>2. f[0] \in Seq(A)
    BY <2>1
  <2> QED BY <2>2, Zenon
<1>4. ASSUME NEW k \in Nat, k \in T, k + 1 <= Len(ss) PROVE f[k + 1] \in Seq(A)
  <2>1. PICK i : i = k + 1
    BY Zenon
  <2>2. i \in 0..Len(ss) /\ i # 0 /\ i - 1 = k /\ ss[i] \in Seq(A) /\ f[k] \in Seq(A)
    BY <1>4, <2>1
  <2>3. JoinStep(ss, f, i)
    BY <1>2, <2>2, <1>step, ZenonT(30)
  <2>4. f[i] = f[k] \o ss[i]
    BY <2>2, <2>3, ZenonT(30) DEF JoinStep
  <2>5. f[k] \o ss[i] \in Seq(A)
    BY <2>2
  <2> QED BY <2>1, <2>4, <2>5, Zenon
<1>5. \A k \in Nat : k \in T => k + 1 \in T
  <2>1. \A k \in Nat : k + 1 \in Nat
    OBVIOUS
  <2> QED BY <1>4, <2>1, Zenon
<1> HIDE DEF T
<1>6. Nat \subseteq T
  BY <1>3, <1>5, Induction, ZenonT(30)
<1> QED BY <1>1, <1>2, <1>6 DEF T

-----------------------------------------------------------------------------
(* The planner. *)

\* The operations the planner makes of a listed container are sane.
LEMMA OpsSane ==
  ASSUME box \in Seq(Boxes)
  PROVE  /\ \A c \in Containers : StopOp(c) \in Sane /\ RemoveOp(c) \in Sane
         /\ \A m \in Machines, rev \in Revisions :
              /\ \A c \in Containers \cup {0} : RunOp(m, c, rev) \in Sane
              /\ \A c \in Served : ReplaceOp(m, c, rev) \in Sane
<1> USE EngineAssumption, ContainersAre
<1>1. <<>> \in Seq(Containers) /\ <<>> \in Seq(Nat)
  OBVIOUS
<1>2. ASSUME NEW c \in Containers PROVE StopOp(c) \in Sane /\ RemoveOp(c) \in Sane
  BY <1>1, Zenon DEF StopOp, RemoveOp, Op, Sane, Ops
<1>3. ASSUME NEW m \in Machines, NEW rev \in Revisions, NEW c \in Containers \cup {0}
      PROVE  RunOp(m, c, rev) \in Sane
  <2>1. c \in Nat /\ rev \in Nat
    OBVIOUS
  <2> QED BY <1>1, <2>1, ZenonT(30) DEF RunOp, Op, Sane, Ops
<1>4. ASSUME NEW m \in Machines, NEW rev \in Revisions, NEW c \in Served
      PROVE  ReplaceOp(m, c, rev) \in Sane
  BY <1>1, Zenon DEF ReplaceOp, Op, Sane, Ops, Served
<1> QED BY <1>2, <1>3, <1>4, Zenon

\* An operation per element of a sequence is a sequence of sane operations.
LEMMA MapsSane ==
  ASSUME box \in Seq(Boxes), NEW s \in Seq(Containers)
  PROVE  Map(StopOp, s) \in Seq(Sane) /\ Map(RemoveOp, s) \in Seq(Sane)
<1>1. \A i \in 1..Len(s) : StopOp(s[i]) \in Sane /\ RemoveOp(s[i]) \in Sane
  BY OpsSane
<1>2. [i \in DOMAIN s |-> StopOp(s[i])] \in Seq(Sane)
  BY <1>1
<1>3. [i \in DOMAIN s |-> RemoveOp(s[i])] \in Seq(Sane)
  BY <1>1
<1> QED BY <1>2, <1>3, Zenon DEF Map

\* What Keep leaves of a sequence over A is one.
LEMMA KeptIn ==
  ASSUME NEW A, NEW s \in Seq(A), NEW S
  PROVE  Keep(s, S) \in Seq(A)
<1>1. Keep(s, S) \in Seq(A \cap S)
  BY KeepRange, Zenon
<1> QED BY <1>1

\* A refused plan is a plan.
LEMMA RefusedSane == Refused \in Plans
BY DEF Refused, Plans

\* The operations that retire what is not used are sane.
LEMMA UnusedSane ==
  ASSUME box \in Seq(Boxes), NEW list \in Seq(Served), NEW used
  PROVE  remove_unused(list, used) \in Seq(Sane)
<1>1. list \in Seq(Containers)
  BY DEF Served
<1>2. Keep(list, Elements(list) \ used) \in Seq(Containers)
  BY <1>1, KeptIn, Zenon
<1> QED BY <1>2, MapsSane, Zenon DEF remove_unused

\* The plan of a global Service is a plan.
LEMMA GlobalSane ==
  ASSUME box \in Seq(Boxes), service \in Services,
         NEW list \in Seq(Served), NEW ms \in Seq(Machines), NEW rev \in Revisions, NEW roomy
  PROVE  plan_global(list, ms, rev, roomy) \in Plans
\* The operations of a global Service on one Machine are sane.
<1>on. ASSUME NEW m \in Machines
       PROVE  GlobalOn(m, list, rev, roomy).ops \in Seq(Sane)
  <2> USE <1>on
  <2> DEFINE here == OnMachine(list, m)
             kept == Keep(here, {c \in Containers : is_up_to_date(c, rev)})
             idle == Keep(here, {c \in Containers : reusable_global(c, rev)})
             act  == ActiveIn(here)
  <2>1. here \in Seq(Served)
    BY KeptIn, Zenon DEF OnMachine
  <2> HIDE DEF here
  <2>2. kept \in Seq(Served) /\ idle \in Seq(Served) /\ act \in Seq(Served)
    BY <2>1, KeptIn, Zenon DEF ActiveIn
  <2> HIDE DEF kept, idle, act
  <2>3. \A c \in Served : c \in Containers
    BY Zenon DEF Served
  <2>4. CASE kept # <<>>
    BY <2>4 DEF GlobalOn, here, kept
  <2>5. CASE kept = <<>> /\ idle # <<>>
    <3>1. idle[1] \in Served
      BY <2>2, <2>5
    <3>2. RunOp(m, idle[1], rev) \in Sane
      BY <3>1, <2>3, OpsSane, Zenon
    <3>3. GlobalOn(m, list, rev, roomy).ops = <<RunOp(m, idle[1], rev)>>
      BY <2>5, Zenon DEF GlobalOn, here, kept, idle
    <3> QED BY <3>2, <3>3
  <2>6. CASE kept = <<>> /\ idle = <<>> /\ act # <<>>
    <3>1. act[1] \in Served /\ Tail(act) \in Seq(Containers)
      BY <2>2, <2>3, <2>6, SMTT(30)
    <3>2. ReplaceOp(m, act[1], rev) \in Sane /\ Map(StopOp, Tail(act)) \in Seq(Sane)
      BY <3>1, OpsSane, MapsSane, ZenonT(30)
    <3>3. GlobalOn(m, list, rev, roomy).ops =
            (IF service.port THEN Map(StopOp, Tail(act)) ELSE <<>>) \o <<ReplaceOp(m, act[1], rev)>>
      BY <2>6, Zenon DEF GlobalOn, here, kept, idle, act
    <3> QED BY <3>2, <3>3, SMTT(30)
  <2>7. CASE kept = <<>> /\ idle = <<>> /\ act = <<>>
    <3>1. RunOp(m, 0, rev) \in Sane
      BY OpsSane, Zenon
    <3>2. GlobalOn(m, list, rev, roomy).ops = <<RunOp(m, 0, rev)>>
      BY <2>7, Zenon DEF GlobalOn, here, kept, idle, act
    <3> QED BY <3>1, <3>2
  <2> QED BY <2>4, <2>5, <2>6, <2>7, Zenon
<1> DEFINE on == [i \in DOMAIN ms |-> GlobalOn(ms[i], list, rev, roomy)]
           used == UNION {on[i].used : i \in DOMAIN ms}
           changed == Keep(ms, {m \in Machines : GlobalOn(m, list, rev, roomy).changes})
           ops == Joined(Map(LAMBDA x : x.ops, on)) \o remove_unused(list, used)
           hook == IF changed = <<>> THEN {} ELSE {changed[1]}
<1>1. ops \in Seq(Sane)
  <2>1. ASSUME NEW i \in DOMAIN ms PROVE on[i].ops \in Seq(Sane)
    <3>1. ms[i] \in Machines
      BY <2>1
    <3>2. on[i] = GlobalOn(ms[i], list, rev, roomy)
      BY <2>1, Zenon
    <3> QED BY <3>1, <3>2, <1>on, Zenon
  <2>2. Map(LAMBDA x : x.ops, on) = [i \in 1..Len(ms) |-> on[i].ops]
    <3>1. DOMAIN on = 1..Len(ms)
      BY DEF on
    <3> HIDE DEF on
    <3> QED BY <3>1, Zenon DEF Map
  <2>3. [i \in 1..Len(ms) |-> on[i].ops] \in Seq(Seq(Sane))
    <3>1. DOMAIN ms = 1..Len(ms)
      OBVIOUS
    <3> HIDE DEF on
    <3> QED BY <2>1, <3>1
  <2>4. Joined(Map(LAMBDA x : x.ops, on)) \in Seq(Sane)
    BY <2>2, <2>3, JoinedType, ZenonT(30)
  <2>5. remove_unused(list, used) \in Seq(Sane)
    BY UnusedSane, Zenon
  <2> HIDE DEF on, used
  <2> QED BY <2>4, <2>5
<1>2. hook \in SUBSET Machines
  <2>1. changed \in Seq(Machines)
    BY KeptIn, Zenon
  <2> HIDE DEF changed
  <2> QED BY <2>1
<1>3. Planned(ops, hook) \in Plans
  <2> HIDE DEF ops, hook
  <2> QED BY <1>1, <1>2, Zenon DEF Planned, Plans
<1>4. plan_global(list, ms, rev, roomy) =
        IF \E i \in DOMAIN ms : on[i].refused THEN Refused ELSE Planned(ops, hook)
  BY Zenon DEF plan_global
<1> HIDE DEF on, ops, hook
<1> QED BY <1>3, <1>4, RefusedSane, Zenon

-----------------------------------------------------------------------------
(* The selection of a replicated Service. *)

Selections == [left : [Machines -> Seq(Served)], claims : [Machines -> SUBSET Nat],
               cursor : Nat, used : SUBSET Nat, ops : Seq(Sane), hook : SUBSET Machines,
               refused : BOOLEAN]

\* A listing of the Service's containers is over those.
LEMMA ServedIs ==
  ASSUME box \in Seq(Boxes)
  PROVE  /\ Served \subseteq Containers /\ Served \subseteq Nat
         /\ \A s \in Seq(Served) : s \in Seq(Containers) /\ Elements(s) \subseteq Nat
BY ContainersAre DEF Served, Elements

\* A selection of the planner keeps its type when a container is taken.
LEMMA SelectionSane ==
  ASSUME box \in Seq(Boxes), NEW list \in Seq(Served), NEW rev
  PROVE  Selection(list, rev) \in Selections
<1>1. ASSUME NEW m \in Machines
      PROVE  /\ Keep(OnMachine(list, m), {c \in Containers : ~is_up_to_date(c, rev)})
                    \o UpToDate(list, m, rev) \in Seq(Served)
             /\ {c \in Elements(ActiveIn(OnMachine(list, m))) : box[c].port} \subseteq Nat
  <2>1. OnMachine(list, m) \in Seq(Served)
    BY KeptIn, Zenon DEF OnMachine
  <2>2. /\ Keep(OnMachine(list, m), {c \in Containers : ~is_up_to_date(c, rev)}) \in Seq(Served)
        /\ UpToDate(list, m, rev) \in Seq(Served)
        /\ ActiveIn(OnMachine(list, m)) \in Seq(Served)
    BY <2>1, KeptIn, Zenon DEF UpToDate, ActiveIn
  <2> QED BY <2>2, ServedIs, SMTT(30)
<1>2. /\ (Selection(list, rev)).left \in [Machines -> Seq(Served)]
      /\ (Selection(list, rev)).claims \in [Machines -> SUBSET Nat]
  BY <1>1, Zenon DEF Selection
<1> QED BY <1>2 DEF Selection, Selections

\* Selecting one replica keeps the type of the selection.
LEMMA SelectOneSane ==
  ASSUME box \in Seq(Boxes), NEW p \in Selections, NEW ms \in Seq(Machines), ms # <<>>,
         NEW rev \in Revisions, NEW roomy
  PROVE  SelectOne(p, ms, rev, roomy) \in Selections
<1> DEFINE n == Len(ms)
           Where(i) == ms[((p.cursor + i) % n) + 1]
           Takes(i) == /\ SocketFits(p, Where(i), rev)
                       /\ Unchanged(p.left[Where(i)], rev) \/ Where(i) \in roomy
           fit == {i \in 0..(n - 1) : Takes(i)}
           i == CHOOSE x \in fit : \A y \in fit : x <= y
           m == Where(i)
           left == p.left[m]
           q == [p EXCEPT !.cursor = @ + i + 1]
           stops == IF left = <<>> THEN <<>> ELSE conflicting_siblings(left)
           freed == Elements(stops) \cup (IF left = <<>> THEN {} ELSE {Last(left)})
           op == IF left = <<>> THEN RunOp(m, 0, rev) ELSE ReplaceOp(m, Last(left), rev)
           kept == [q EXCEPT !.left[m] = Front(@), !.used = @ \cup {Last(left)}]
           new == [q EXCEPT
                    !.left[m]   = Keep(@, Elements(@) \ freed),
                    !.claims[m] = (@ \ freed) \cup {0},
                    !.used      = @ \cup (IF left = <<>> THEN {} ELSE {Last(left)}),
                    !.hook      = IF @ = {} THEN {m} ELSE @,
                    !.ops       = @ \o Map(StopOp, stops) \o <<op>>]
<1>1. SelectOne(p, ms, rev, roomy) =
        IF p.refused \/ fit = {} THEN [p EXCEPT !.refused = TRUE]
        ELSE IF Unchanged(left, rev) THEN kept ELSE new
  BY Zenon DEF SelectOne
<1>2. [p EXCEPT !.refused = TRUE] \in Selections
  BY Zenon DEF Selections
<1>3. ASSUME fit # {} PROVE i \in 0..(n - 1)
  <2>1. fit \subseteq Nat
    OBVIOUS
  <2>2. \E x \in fit : \A y \in fit : x <= y
    <3> HIDE DEF fit
    <3> QED BY <1>3, <2>1, Least, Zenon
  <2>3. i \in fit
    <3> HIDE DEF fit
    <3> QED BY <2>2, Zenon
  <2> QED BY <2>3, Zenon
<1> HIDE DEF fit, i
<1>4. ASSUME fit # {} PROVE m \in Machines /\ left \in Seq(Served) /\ q \in Selections
  <2>1. p.cursor \in Nat /\ i \in Nat /\ n \in Nat \ {0}
    BY <1>3, <1>4, SMTT(30) DEF Selections
  <2>2. ((p.cursor + i) % n) + 1 \in 1..n
    <3> HIDE DEF n
    <3> QED BY <2>1, SMTT(30)
  <2>3. m \in Machines
    <3> HIDE DEF i
    <3> QED BY <2>2
  <2>4. p.left \in [Machines -> Seq(Served)]
    BY Zenon DEF Selections
  <2>5. left \in Seq(Served)
    <3> HIDE DEF m
    <3> QED BY <2>3, <2>4, Zenon
  <2>6. q \in Selections
    <3>1. p.cursor + i + 1 \in Nat
      BY <2>1
    <3> QED BY <3>1, Zenon DEF Selections
  <2> QED BY <2>3, <2>5, <2>6, Zenon
<1> HIDE DEF m, q
<1>5. ASSUME fit # {}, left # <<>> PROVE Last(left) \in Served /\ Front(left) \in Seq(Served)
  <2> HIDE DEF left
  <2> QED BY <1>4, <1>5 DEF Last, Front
<1>6. ASSUME fit # {}, Unchanged(left, rev) PROVE kept \in Selections
  <2>1. left # <<>>
    BY <1>6, Zenon DEF Unchanged
  <2>2. Last(left) \in Served /\ Last(left) \in Nat /\ Front(left) \in Seq(Served)
    BY <1>5, <1>6, <2>1, ServedIs, ZenonT(30)
  <2>3. q.left[m] = left
    <3>1. q.left = p.left
      BY Zenon DEF q, Selections
    <3> QED BY <3>1, Zenon
  <2>4. [q.left EXCEPT ![m] = Front(@)] \in [Machines -> Seq(Served)]
    <3>1. q.left \in [Machines -> Seq(Served)]
      BY <1>4, <1>6, Zenon DEF Selections
    <3> HIDE DEF left
    <3> QED BY <2>2, <2>3, <3>1, <1>4, <1>6, ZenonT(30)
  <2> HIDE DEF left
  <2> QED BY <2>2, <2>4, <1>4, <1>6, Zenon DEF Selections
<1>7. ASSUME fit # {} PROVE new \in Selections
  <2>1. stops \in Seq(Served)
    <3>1. CASE left # <<>>
      <4>1. ActiveIn(Front(left)) \in Seq(Served)
        BY <1>5, <1>7, <3>1, KeptIn, ZenonT(30) DEF ActiveIn
      <4> HIDE DEF left
      <4> QED BY <4>1 DEF conflicting_siblings
    <3> HIDE DEF left
    <3> QED BY <3>1
  <2>2. Map(StopOp, stops) \in Seq(Sane)
    <3> HIDE DEF stops
    <3> QED BY <2>1, ServedIs, MapsSane, Zenon
  <2>3. op \in Sane
    BY <1>4, <1>5, <1>7, OpsSane, ZenonT(30)
  <2>4. (IF left = <<>> THEN {} ELSE {Last(left)}) \subseteq Nat
    BY <1>5, <1>7, ServedIs, Zenon
  <2>5. q.left[m] = left /\ q.left \in [Machines -> Seq(Served)]
    BY <1>4, <1>7, Zenon DEF q, Selections
  <2> HIDE DEF left, stops, op, freed
  <2>6. Keep(left, Elements(left) \ freed) \in Seq(Served)
    BY <1>4, <1>7, KeptIn, Zenon
  <2>7. [q.left EXCEPT ![m] = Keep(@, Elements(@) \ freed)] \in [Machines -> Seq(Served)]
    BY <2>5, <2>6, Zenon
  <2>8. [q.claims EXCEPT ![m] = (@ \ freed) \cup {0}] \in [Machines -> SUBSET Nat]
    BY <1>4, <1>7, SMTT(30) DEF Selections
  <2>9. q.ops \o Map(StopOp, stops) \o <<op>> \in Seq(Sane)
    BY <1>4, <1>7, <2>2, <2>3, SMTT(30) DEF Selections
  <2>10. (IF q.hook = {} THEN {m} ELSE q.hook) \in SUBSET Machines
    BY <1>4, <1>7, Zenon DEF Selections
  <2> QED BY <2>4, <2>7, <2>8, <2>9, <2>10, <1>4, <1>7, Zenon DEF Selections
<1> HIDE DEF kept, new, left
<1> QED BY <1>1, <1>2, <1>6, <1>7, ZenonT(30)

SelectFcn(list, ms, rev, roomy, n, f) ==
  f = [k \in 0..n |-> IF k = 0 THEN Selection(list, rev)
                      ELSE SelectOne(f[k - 1], ms, rev, roomy)]

SelectStep(list, ms, rev, roomy, f, k) ==
  f[k] = IF k = 0 THEN Selection(list, rev) ELSE SelectOne(f[k - 1], ms, rev, roomy)

\* The plan of a replicated Service is a plan.
LEMMA ReplicatedSane ==
  ASSUME box \in Seq(Boxes), service \in Services, NEW list \in Seq(Served),
         NEW ms \in Seq(Machines), ms # <<>>, NEW rev \in Revisions, NEW roomy
  PROVE  plan_replicated(list, ms, rev, roomy) \in Plans
\* The selection goes on one replica at a time.
<1>step. ASSUME NEW n, NEW f, SelectFcn(list, ms, rev, roomy, n, f), NEW k \in 0..n
         PROVE  SelectStep(list, ms, rev, roomy, f, k)
  BY <1>step, Zenon DEF SelectFcn, SelectStep
\* There is a function with the steps of the selection.
<1>exists. ASSUME NEW n \in Nat
           PROVE  \E f : SelectFcn(list, ms, rev, roomy, n, f)
  <2> USE <1>exists
  <2> DEFINE F(k, f) == SelectFcn(list, ms, rev, roomy, k, f)
             S(f, i) == SelectStep(list, ms, rev, roomy, f, i)
             T == {k \in Nat : \E f : F(k, f)}
  <2>1. 0 \in T
    <3>1. F(0, [i \in 0..0 |-> Selection(list, rev)])
      BY DEF SelectFcn
    <3> QED BY <3>1, Zenon
  <2>2. ASSUME NEW k \in Nat, k \in T PROVE k + 1 \in T
    <3>1. PICK g : F(k, g)
      BY <2>2, Zenon
    <3> DEFINE f == [i \in 0..(k + 1) |->
                       IF i = k + 1 THEN SelectOne(g[i - 1], ms, rev, roomy) ELSE g[i]]
    <3>2. \A i \in 0..k : f[i] = g[i]
      OBVIOUS
    <3>3. ASSUME NEW i \in 0..(k + 1) PROVE S(f, i)
      <4>1. CASE i = k + 1
        <5>1. i \in 0..(k + 1) /\ i # 0 /\ i - 1 \in 0..k
          BY <4>1
        <5>2. f[i] = SelectOne(g[i - 1], ms, rev, roomy)
          BY <4>1, <5>1, Zenon
        <5> HIDE DEF f
        <5> QED BY <5>1, <5>2, <3>2, Zenon DEF SelectStep
      <4>2. CASE i # k + 1
        <5>1. i \in 0..k /\ (i # 0 => i - 1 \in 0..k)
          BY <4>2
        <5>2. S(g, i)
          BY <5>1, <3>1, <1>step, Zenon
        <5> HIDE DEF f
        <5> QED BY <5>1, <5>2, <3>2, Zenon DEF SelectStep
      <4> QED BY <4>1, <4>2, Zenon
    <3>4. f = [i \in 0..(k + 1) |-> f[i]]
      BY Zenon
    <3> HIDE DEF f
    <3>5. F(k + 1, f)
      BY <3>3, <3>4, Zenon DEF SelectFcn, SelectStep
    <3> QED BY <3>5
  <2> HIDE DEF T
  <2>3. Nat \subseteq T
    BY <2>1, <2>2, Induction, Zenon
  <2> QED BY <2>3, Zenon DEF T
<1> DEFINE n == service.replicas
<1>1. n \in Nat
  BY PlanAssumption, Zenon
<1>2. PICK f : SelectFcn(list, ms, rev, roomy, n, f) /\
               plan_replicated(list, ms, rev, roomy) =
                 IF f[n].refused THEN Refused
                 ELSE Planned(f[n].ops \o remove_unused(list, f[n].used), f[n].hook)
  <2>1. \E f : SelectFcn(list, ms, rev, roomy, n, f)
    BY <1>1, <1>exists, Zenon
  <2> QED BY <2>1, Zenon DEF plan_replicated, SelectFcn
<1> HIDE DEF n
<1> DEFINE T == {k \in Nat : k <= n => f[k] \in Selections}
<1>3. 0 \in T
  <2>1. 0 \in 0..n
    BY <1>1
  <2>2. f[0] = Selection(list, rev)
    BY <2>1, <1>2, <1>step, Zenon DEF SelectStep
  <2> QED BY <2>2, SelectionSane, Zenon
<1>4. ASSUME NEW k \in Nat, k \in T, k + 1 <= n PROVE f[k + 1] \in Selections
  <2>1. k + 1 \in 0..n /\ k + 1 # 0 /\ k + 1 - 1 = k /\ f[k] \in Selections
    BY <1>1, <1>4
  <2>2. SelectStep(list, ms, rev, roomy, f, k + 1)
    BY <2>1, <1>2, <1>step, Zenon
  <2>3. f[k + 1] = SelectOne(f[k], ms, rev, roomy)
    BY <2>1, <2>2 DEF SelectStep
  <2> QED BY <2>1, <2>3, SelectOneSane, Zenon
<1>5. \A k \in Nat : k \in T => k + 1 \in T
  <2>1. \A k \in Nat : k + 1 \in Nat
    OBVIOUS
  <2> QED BY <1>4, <2>1, Zenon
<1> HIDE DEF T
<1>6. Nat \subseteq T
  BY <1>3, <1>5, Induction, Zenon
<1>7. f[n] \in Selections
  BY <1>1, <1>6 DEF T
<1>8. remove_unused(list, f[n].used) \in Seq(Sane)
  BY UnusedSane, Zenon
<1>9. Planned(f[n].ops \o remove_unused(list, f[n].used), f[n].hook) \in Plans
  BY <1>7, <1>8 DEF Planned, Plans, Selections
<1> QED BY <1>2, <1>9, RefusedSane, Zenon

-----------------------------------------------------------------------------
(* The plan of a Deploy. *)

\* The operations of a pre-deploy hook are sane.
LEMMA HooksSane ==
  ASSUME box \in Seq(Boxes), NEW list \in Seq(Containers), NEW plan \in Plans,
         NEW rev \in Revisions
  PROVE  pre_deploy_operations(list, plan, rev) \in Seq(Sane)
<1> DEFINE halt(c) == Op("stophook", box[c].on, c, 0, <<>>)
           act == ActiveIn(list)
           hook == Op("hook", CHOOSE m \in plan.hook : TRUE, 0, rev, list)
<1>1. act \in Seq(Containers)
  BY KeptIn, Zenon DEF ActiveIn
<1>2. \A c \in Containers : halt(c) \in Sane
  <2>1. <<>> \in Seq(Containers) /\ <<>> \in Seq(Nat)
    OBVIOUS
  <2> QED BY <2>1, ContainersAre, Zenon DEF Op, Sane, Ops
<1>3. [i \in DOMAIN act |-> halt(act[i])] \in Seq(Sane)
  <2> HIDE DEF act, halt
  <2> QED BY <1>1, <1>2, SMTT(30)
<1>4. ASSUME plan.hook # {} PROVE hook \in Sane
  <2>1. (CHOOSE m \in plan.hook : TRUE) \in Machines
    BY <1>4, Zenon DEF Plans
  <2>2. list \in Seq(Nat) /\ rev \in Nat
    BY ContainersAre, EngineAssumption
  <2> QED BY <2>1, <2>2, Zenon DEF Op, Sane, Ops
<1>5. pre_deploy_operations(list, plan, rev) =
        IF ~service.hook \/ plan.hook = {} THEN <<>>
        ELSE [i \in DOMAIN act |-> halt(act[i])] \o <<hook>>
  BY Zenon DEF pre_deploy_operations, Map
<1> HIDE DEF act, halt, hook
<1> QED BY <1>3, <1>4, <1>5

\* A plan with other sane operations is a plan.
LEMMA OpsReplaced ==
  ASSUME NEW p \in Plans, NEW s \in Seq(Sane), NEW t \in Seq(Sane)
  PROVE  [p EXCEPT !.ops = s \o @ \o t] \in Plans
<1>1. p.ops \in Seq(Sane)
  BY Zenon DEF Plans
<1>2. s \o p.ops \o t \in Seq(Sane)
  BY <1>1
<1> QED BY <1>2, Zenon DEF Plans

\* assemble_plan returns a plan of sane operations: a replacement is of a Service Container.
LEMMA PlanSane ==
  ASSUME box \in Seq(Boxes), service \in Services, NEW list \in Seq(Containers),
         NEW ms \in Seq(Machines), NEW rev \in Revisions, NEW roomy, NEW complete, NEW selected
  PROVE  assemble_plan(list, ms, rev, roomy, complete, selected) \in Plans
<1> DEFINE current == Of(list, "web", "service")
           hooks == Of(list, "web", "hook")
           plan == IF ms = <<>> THEN Refused
                   ELSE IF Global THEN plan_global(current, ms, rev, roomy)
                   ELSE plan_replicated(current, ms, rev, roomy)
           gone == Of(list, "gone", "service")
<1>1. current \in Seq(Served)
  <2>1. current \in Seq(Containers \cap
                          {c \in Containers : box[c].svc = "web" /\ box[c].kind = "service"})
    BY KeepRange, Zenon DEF Of
  <2>2. Containers \cap {c \in Containers : box[c].svc = "web" /\ box[c].kind = "service"} = Served
    BY Zenon DEF Served
  <2> QED BY <2>1, <2>2, Zenon
<1>2. hooks \in Seq(Containers) /\ gone \in Seq(Containers)
  BY KeptIn, Zenon DEF Of
<1> HIDE DEF current, hooks, gone
<1>3. plan \in Plans
  BY <1>1, RefusedSane, GlobalSane, ReplicatedSane, Zenon
<1> HIDE DEF plan
<1>4. pre_deploy_operations(hooks, plan, rev) \in Seq(Sane)
  BY <1>2, <1>3, HooksSane, Zenon
<1>5. Map(RemoveOp, gone) \in Seq(Sane)
  BY <1>2, MapsSane, Zenon
<1> DEFINE first == pre_deploy_operations(hooks, plan, rev)
           last == IF prune_allowed(complete, selected) THEN Map(RemoveOp, gone) ELSE <<>>
<1>6. first \in Seq(Sane) /\ last \in Seq(Sane)
  BY <1>4, <1>5, SMTT(30)
<1>7. assemble_plan(list, ms, rev, roomy, complete, selected) =
        [[plan EXCEPT !.ops = first \o @] EXCEPT !.ops = @ \o last]
  BY Zenon DEF assemble_plan, plan_one_service, plan, current, hooks, gone
<1> HIDE DEF first, last
<1>8. [[plan EXCEPT !.ops = first \o @] EXCEPT !.ops = @ \o last] =
        [plan EXCEPT !.ops = first \o @ \o last]
  BY <1>3, Zenon DEF Plans
<1>9. [plan EXCEPT !.ops = first \o @ \o last] \in Plans
  BY <1>3, <1>6, OpsReplaced, ZenonT(30)
<1> QED BY <1>7, <1>8, <1>9, Zenon

\* A listing is a sequence of containers.
LEMMA ListingType ==
  ASSUME box \in Seq(Boxes), NEW ms \in Seq(Machines)
  PROVE  Listing(ms) \in Seq(Containers)
<1> DEFINE newest == [i \in DOMAIN box |-> Len(box) + 1 - i]
           here(m) == Keep(newest, {c \in Managed : box[c].on = m})
<1>1. newest \in Seq(Containers)
  <2>1. \A i \in 1..Len(box) : Len(box) + 1 - i \in 1..Len(box)
    BY ContainersAre
  <2> QED BY <2>1, ContainersAre, SMTT(30)
<1> HIDE DEF newest
<1>2. [i \in DOMAIN ms |-> here(ms[i])] \in Seq(Seq(Containers))
  <2>1. \A i \in DOMAIN ms : here(ms[i]) \in Seq(Containers)
    BY <1>1, KeptIn, Zenon
  <2> HIDE DEF here
  <2> QED BY <2>1
<1>3. Listing(ms) = Joined([i \in DOMAIN ms |-> here(ms[i])])
  BY Zenon DEF Listing, newest
<1> HIDE DEF here
<1> QED BY <1>2, <1>3, JoinedType, ZenonT(30)

-----------------------------------------------------------------------------
(* Where a Deploy begins. *)

\* An order of some Machines is a sequence of Machines.
LEMMA OrdersType ==
  ASSUME NEW S, S \subseteq Machines
  PROVE  Orders(S) \subseteq Seq(Machines) /\ Cardinality(S) \in Nat
<1>1. IsFiniteSet(S)
  BY RuntimeAssumption, FS_Subset, Zenon
<1>2. Cardinality(S) \in Nat
  BY <1>1, FS_CardinalityType, Zenon
<1>3. \A f \in [1..Cardinality(S) -> S] : f \in Seq(Machines)
  BY <1>2
<1> QED BY <1>2, <1>3, Zenon DEF Orders

\* The Deploy before the first one.
LEMMA IdleIs ==
  /\ Idle \in Deploys /\ Idle.pc = "idle" /\ Idle.result = "success" /\ Idle.held = FALSE
  /\ Idle.plan = <<>> /\ Idle.new = 0
<1>1. "idle" \in Pcs /\ <<>> \in Seq(Sane)
  BY DEF Pcs
<1>2. Idle \in Deploys
  BY <1>1, Zenon DEF Idle, Deploys
<1> QED BY <1>2, Zenon DEF Idle

\* A Deploy planned with ops: refused, or about to execute them.
Begun(rev, ops, runs, cancels, seen, sound, refused) ==
  LET next == [Idle EXCEPT !.rev = rev, !.plan = ops, !.runs = runs,
                 !.cancels = cancels, !.seen = seen, !.sound = sound]
  IN IF refused THEN [next EXCEPT !.result = "refused", !.plan = <<>>]
     ELSE [next EXCEPT !.pc = "next", !.result = "running"]

\* A Deploy that begins holds nothing.
LEMMA BegunIs ==
  ASSUME NEW rev \in Nat, NEW ops \in Seq(Sane), NEW runs \in Nat, NEW cancels \in Nat,
         NEW seen \in BOOLEAN, NEW sound \in BOOLEAN, NEW refused,
         d' = Begun(rev, ops, runs, cancels, seen, sound, refused)
  PROVE  /\ d' \in Deploys /\ ~d'.held /\ d'.sound = sound
         /\ \/ d'.pc = "idle" /\ d'.result = "refused"
            \/ d'.pc = "next" /\ d'.result = "running"
<1> DEFINE next == [Idle EXCEPT !.rev = rev, !.plan = ops, !.runs = runs,
                      !.cancels = cancels, !.seen = seen, !.sound = sound]
<1>1. next \in Deploys
  BY IdleIs, Zenon DEF Deploys
<1>2. next.pc = "idle" /\ ~next.held /\ next.sound = sound
  BY IdleIs, Zenon DEF Deploys
<1> HIDE DEF next
<1>3. "next" \in Pcs /\ <<>> \in Seq(Sane)
  BY DEF Pcs
<1>4. CASE refused
  <2>1. d' = [next EXCEPT !.result = "refused", !.plan = <<>>]
    BY <1>4, Zenon DEF Begun, next
  <2>2. d' \in Deploys
    BY <1>1, <1>3, <2>1, ZenonT(30) DEF Deploys
  <2>3. d'.pc = "idle" /\ d'.result = "refused" /\ ~d'.held /\ d'.sound = sound
    BY <1>1, <1>2, <2>1, <2>2, Zenon DEF Deploys
  <2> QED BY <2>2, <2>3, ZenonT(30)
<1>5. CASE ~refused
  <2>1. d' = [next EXCEPT !.pc = "next", !.result = "running"]
    BY <1>5, Zenon DEF Begun, next
  <2>2. d' \in Deploys
    BY <1>1, <1>3, <2>1, Zenon DEF Deploys
  <2>3. d'.pc = "next" /\ d'.result = "running" /\ ~d'.held /\ d'.sound = sound
    BY <1>1, <1>2, <2>1, <2>2, Zenon DEF Deploys
  <2> QED BY <2>2, <2>3, ZenonT(30)
<1> QED BY <1>4, <1>5, Zenon

\* What Begin does with one listing and one order of the Machines.
BegunBy(rev, selected, lost, roomy, list, ms) ==
  LET plan == assemble_plan(list, ms, rev, roomy, lost = {}, selected)
      next == [Idle EXCEPT
                !.rev = rev, !.plan = plan.ops, !.runs = d.runs + 1,
                !.cancels = d.cancels,
                !.seen = d.seen /\ lost = {},
                !.sound = lost = {} /\ ~selected /\ \A m \in Machines : Admitted(m)]
  IN /\ Global \/ Ranked(Of(list, "web", "service"), ms, rev)
     /\ d' = IF plan.refused THEN [next EXCEPT !.result = "refused", !.plan = <<>>]
             ELSE [next EXCEPT !.pc = "next", !.result = "running"]

\* A Deploy that begins keeps the invariant, whatever listing it got.
LEMMA BeginStep ==
  ASSUME EngineInv, NEW rev \in Revisions, NEW selected \in BOOLEAN, Begin(rev, selected)
  PROVE  EngineInv'
<1>1. UNCHANGED <<box, flight, service>> /\ d.pc = "idle"
  BY Zenon DEF Begin
<1>2. PICK lost \in SUBSET Machines :
        /\ faults' = faults + Cardinality(lost) /\ faults' <= MaxFaults
        /\ \E roomy \in {Machines, Machines \ lost},
              list \in {Listing(order) : order \in Orders(Machines \ lost)} :
           \E ms \in Orders(Candidates(Of(list, "web", "service"), rev, roomy)) :
             BegunBy(rev, selected, lost, roomy, list, ms)
  BY Zenon DEF Begin, BegunBy
<1>3. PICK roomy \in {Machines, Machines \ lost},
           list \in {Listing(order) : order \in Orders(Machines \ lost)} :
           \E ms \in Orders(Candidates(Of(list, "web", "service"), rev, roomy)) :
             BegunBy(rev, selected, lost, roomy, list, ms)
  BY <1>2, Zenon
<1>4. PICK ms \in Orders(Candidates(Of(list, "web", "service"), rev, roomy)) :
             BegunBy(rev, selected, lost, roomy, list, ms)
  BY <1>3, Zenon
<1> DEFINE plan == assemble_plan(list, ms, rev, roomy, lost = {}, selected)
           sound == lost = {} /\ ~selected /\ \A m \in Machines : Admitted(m)
           seen == d.seen /\ lost = {}
<1>5. box \in Seq(Boxes) /\ service \in Services /\ d \in Deploys /\ faults \in 0..MaxFaults
  BY Zenon DEF EngineInv, Typed, Base
<1>6. list \in Seq(Containers)
  <2>1. PICK order \in Orders(Machines \ lost) : list = Listing(order)
    BY <1>3, Zenon
  <2>2. order \in Seq(Machines)
    BY <2>1, OrdersType, Zenon
  <2> QED BY <1>5, <2>1, <2>2, ListingType, ZenonT(30)
<1>7. ms \in Seq(Machines)
  <2>1. service.home \in Machines
    BY <1>5, PlanAssumption, ZenonT(30)
  <2>2. Candidates(Of(list, "web", "service"), rev, roomy) \subseteq Machines
    BY <2>1, Zenon DEF Candidates
  <2> QED BY <1>4, <2>2, OrdersType, ZenonT(30)
<1>8. plan \in Plans
  BY <1>5, <1>6, <1>7, PlanSane, Zenon
<1>9. /\ plan.ops \in Seq(Sane) /\ rev \in Nat /\ d.runs + 1 \in Nat /\ d.cancels \in Nat
      /\ seen \in BOOLEAN /\ sound \in BOOLEAN
  <2>1. d.runs \in Nat /\ d.cancels \in Nat
    BY <1>5, Zenon DEF Deploys
  <2>2. plan.ops \in Seq(Sane)
    <3> HIDE DEF plan
    <3> QED BY <1>8, Zenon DEF Plans
  <2>3. rev \in Nat /\ d.runs + 1 \in Nat
    BY <2>1, EngineAssumption
  <2>4. seen \in BOOLEAN /\ sound \in BOOLEAN
    BY Zenon
  <2> QED BY <2>1, <2>2, <2>3, <2>4, Zenon
<1>10. d' = Begun(rev, plan.ops, d.runs + 1, d.cancels, seen, sound, plan.refused)
  BY <1>4, Zenon DEF BegunBy, Begun
<1>11. sound => Settled'
  BY <1>1, Zenon DEF Settled, Admitted
<1> HIDE DEF plan, sound, seen
<1>12. /\ d' \in Deploys /\ ~d'.held /\ d'.sound = sound
       /\ \/ d'.pc = "idle" /\ d'.result = "refused"
          \/ d'.pc = "next" /\ d'.result = "running"
  BY <1>9, <1>10, BegunIs, Zenon
<1>13. d'.pc \notin Fresh \cup {"retire", "clear"}
  BY <1>12, Zenon DEF Fresh
<1>14. Staged' /\ Course' /\ Told'
  BY <1>12, <1>13, ZenonT(30) DEF Staged, Course, Told
<1>15. Own'
  BY <1>11, <1>12, SettledOwn, Zenon
<1>16. faults' \in 0..MaxFaults
  <2>1. Cardinality(lost) \in Nat /\ MaxFaults \in Nat
    BY OrdersType, RuntimeAssumption, Zenon
  <2> QED BY <1>2, <1>5, <2>1, SMTT(30)
<1> QED BY <1>1, <1>12, <1>14, <1>15, <1>16, QuietInv, ZenonT(30) DEF Kept

-----------------------------------------------------------------------------
(* Where it all begins. *)

\* The Machines can be put in an order.
LEMMA OrdersExist ==
  ASSUME NEW m \in Machines
  PROVE  \E f \in Orders(Machines) : f \in Seq(Machines) /\ Len(f) = Cardinality(Machines)
         /\ Len(f) \in Nat \ {0}
<1>1. Cardinality(Machines) \in Nat /\ ExistsBijection(1..Cardinality(Machines), Machines)
  BY RuntimeAssumption, FS_CardinalityType, ZenonT(30)
<1>2. PICK f \in [1..Cardinality(Machines) -> Machines] :
        \A i, j \in DOMAIN f : f[i] = f[j] => i = j
  BY <1>1, Zenon DEF ExistsBijection, Bijection, Injection, IsInjective
<1>3. Cardinality(Machines) # 0
  BY RuntimeAssumption, FS_EmptySet, Zenon
<1>4. f \in Orders(Machines)
  BY <1>2, Zenon DEF Orders
<1>5. f \in Seq(Machines) /\ Len(f) = Cardinality(Machines)
  BY <1>1, <1>2, SMTT(30)
<1> QED BY <1>1, <1>3, <1>4, <1>5, ZenonT(30)

\* Containers from before: none was created for a replacement.
Firsts == {x \in Boxes : x.key.old = 0}

\* The containers from before are well-formed.
LEMMA FirstType ==
  ASSUME NEW s \in Services
  PROVE  First(s) \in Seq(Firsts)
<1> DEFINE Is(svc, kind, m, spec, run, key) ==
             [svc |-> svc, kind |-> kind, on |-> m, spec |-> spec,
              port |-> s.port /\ svc = "web" /\ kind = "service",
              key |-> key, run |-> run, row |-> TRUE, was |-> kind = "service"]
           order == CHOOSE f \in Orders(Machines) : TRUE
           homes == IF s.volume THEN <<s.home>> ELSE order
           count == IF s.mode = "global" THEN Cardinality(Machines) ELSE s.replicas
           key   == IF s.mode = "global" THEN [spec |-> 1, old |-> 0] ELSE NoKey
           at(i) == IF s.mode = "global" THEN order[i]
                    ELSE homes[((i - 1) % Len(homes)) + 1]
           gone  == <<Is("gone", "service", s.home, 1, "healthy", NoKey)>>
           hooks == IF s.hook THEN <<Is("web", "hook", s.home, 1, "done", NoKey)>> ELSE <<>>
           webs  == [i \in 1..count |-> Is("web", "service", at(i), 1, "healthy", key)]
<1>1. s.home \in Machines /\ s.port \in BOOLEAN /\ s.replicas \in Nat
  BY PlanAssumption, Zenon
<1>2. NoKey \in [spec : Nat, old : Nat] /\ NoKey.old = 0
  BY Zenon DEF NoKey
<1>3. key \in [spec : Nat, old : Nat] /\ key.old = 0
  BY <1>2, Zenon
<1>4. ASSUME NEW svc \in {"web", "gone"}, NEW kind \in {"service", "hook"}, NEW m \in Machines,
             NEW run \in {"healthy", "done"}, NEW k \in [spec : Nat, old : Nat], k.old = 0
      PROVE  Is(svc, kind, m, 1, run, k) \in Firsts
  <2>1. run \in State
    BY Zenon DEF State, Active, Running
  <2>2. (s.port /\ svc = "web" /\ kind = "service") \in BOOLEAN /\ (kind = "service") \in BOOLEAN
        /\ 1 \in Revisions \cup {1}
    BY Zenon
  <2>3. Is(svc, kind, m, 1, run, k) \in Boxes
    BY <2>1, <2>2, Zenon DEF Boxes
  <2> QED BY <1>4, <2>3, Zenon DEF Firsts
<1>5. /\ order \in Orders(Machines) /\ order \in Seq(Machines)
      /\ Len(order) = Cardinality(Machines) /\ Len(order) \in Nat \ {0}
  <2>1. \A f \in Orders(Machines) : f \in Seq(Machines) /\ Len(f) = Cardinality(Machines)
    <3>1. Cardinality(Machines) \in Nat
      BY OrdersType, Zenon
    <3>2. \A f \in [1..Cardinality(Machines) -> Machines] :
            f \in Seq(Machines) /\ Len(f) = Cardinality(Machines)
      BY <3>1
    <3> QED BY <3>2, Zenon DEF Orders
  <2>2. PICK f \in Orders(Machines) : Len(f) \in Nat \ {0} /\ Len(f) = Cardinality(Machines)
    BY <1>1, OrdersExist, Zenon
  <2>3. order \in Orders(Machines)
    BY <2>2, Zenon
  <2> HIDE DEF order
  <2> QED BY <2>1, <2>2, <2>3, Zenon
<1> HIDE DEF order, key, Is
<1>6. homes \in Seq(Machines) /\ Len(homes) \in Nat \ {0}
  BY <1>1, <1>5
<1> HIDE DEF homes
<1>7. count \in Nat /\ \A i \in 1..count : at(i) \in Machines
  <2>1. CASE s.mode = "global"
    BY <1>5, <2>1, SMTT(30)
  <2>2. CASE s.mode # "global"
    <3>1. \A i \in 1..count : ((i - 1) % Len(homes)) + 1 \in 1..Len(homes)
      BY <1>1, <1>6, <2>2, SMTT(30)
    <3> QED BY <1>1, <1>6, <2>2, <3>1, SMTT(30)
  <2> QED BY <2>1, <2>2, Zenon
<1> HIDE DEF at, count
<1>8. \A i \in 1..count : Is("web", "service", at(i), 1, "healthy", key) \in Firsts
  BY <1>3, <1>4, <1>7, ZenonT(30)
<1>9. webs \in Seq(Firsts)
  BY <1>7, <1>8
<1>10. gone \in Seq(Firsts) /\ hooks \in Seq(Firsts)
  <2>1. /\ Is("gone", "service", s.home, 1, "healthy", NoKey) \in Firsts
        /\ Is("web", "hook", s.home, 1, "done", NoKey) \in Firsts
    BY <1>1, <1>2, <1>4, Zenon
  <2> QED BY <2>1
<1>11. First(s) = gone \o hooks \o webs
  BY Zenon DEF First, webs, hooks, gone, at, count, homes, key, order, Is
<1> HIDE DEF gone, hooks, webs
<1> QED BY <1>9, <1>10, <1>11, SMTT(30)

\* The invariant holds at first.
LEMMA InitInv ==
  ASSUME Init
  PROVE  EngineInv
<1>1. /\ service \in Services /\ box = First(service) /\ d = Idle /\ faults = 0
      /\ flight = [m \in Machines |-> NoCall(m)]
  BY Zenon DEF Init
<1>2. box \in Seq(Firsts)
  BY <1>1, FirstType, Zenon
<1>3. box \in Seq(Boxes) /\ Older(box)
  <2>1. \A x \in Firsts : x \in Boxes /\ x.key.old = 0
    BY Zenon DEF Firsts
  <2>2. box \in Seq(Boxes)
    BY <1>2, <2>1
  <2>3. \A c \in DOMAIN box : box[c].key.old = 0 /\ 0 < c
    BY <1>2, <2>1
  <2> QED BY <2>2, <2>3, Zenon DEF Older
<1>4. DOMAIN flight = Machines /\ \A m \in Machines : Admitted(m)
  BY <1>1, Zenon DEF Admitted
<1>5. faults \in 0..MaxFaults
  BY <1>1, RuntimeAssumption
<1>6. d \in Deploys /\ d.pc = "idle" /\ d.result = "success" /\ ~d.held
  BY <1>1, IdleIs, Zenon
<1>7. Typed
  BY <1>1, <1>3, <1>4, <1>5, <1>6, Zenon DEF Typed, Base
<1>8. "idle" \notin Fresh
  BY Zenon DEF Fresh
<1>9. Staged /\ Own /\ Course /\ Told
  BY <1>6, <1>8, Zenon DEF Staged, Own, Course, Told
<1> QED BY <1>7, <1>9, Zenon DEF EngineInv

-----------------------------------------------------------------------------

\* Every step keeps the invariant.
LEMMA NextInv ==
  ASSUME EngineInv, [Next]_vars
  PROVE  EngineInv'
<1>1. ASSUME NEW rev \in Revisions, NEW selected \in BOOLEAN, Begin(rev, selected)
      PROVE  EngineInv'
  BY <1>1, BeginStep, Zenon
<1>2. CASE Work
  BY <1>2, AnsweredStep, WaitsStep, NextOperationStep, ZenonT(30) DEF Work
<1>3. CASE Finishes
  BY <1>3, FinishStep, Zenon DEF Finishes
<1>4. CASE Unanswered
  BY <1>4, UnansweredStep, Zenon
<1>5. CASE Uninspected
  BY <1>5, UninspectedStep, Zenon
<1>6. CASE Cancel
  BY <1>6, CancelStep, Zenon
<1>7. CASE Die
  BY <1>7, DieStep, Zenon
<1>8. CASE World
  BY <1>8, CrashStep, EvolveStep, Zenon DEF World
<1>9. CASE UNCHANGED vars
  <2>1. box' = box /\ flight' = flight /\ faults' = faults /\ service' = service /\ d' = d
    BY <1>9, Zenon DEF vars
  <2>2. Drift
    <3>1. Extends(box') /\ DOMAIN flight' = Machines
      BY <2>1, SameBox, Zenon DEF EngineInv, Typed
    <3>2. \A c \in Present : box'[c].run # "gone"
      BY <2>1, Zenon DEF Present
    <3> QED BY <2>1, <3>1, <3>2, ZenonT(30) DEF Drift
  <2> QED BY <2>2, DriftStep, Zenon
<1> QED BY <1>1, <1>2, <1>3, <1>4, <1>5, <1>6, <1>7, <1>8, <1>9, Zenon DEF Next

\* The invariant always holds.
LEMMA EngineInvariant == Spec => []EngineInv
<1>1. Init => EngineInv
  BY InitInv, Zenon
<1>2. EngineInv /\ [Next]_vars => EngineInv'
  BY NextInv, Zenon
<1> QED BY <1>1, <1>2, PTL DEF Spec

\* The variables keep their types, and a Deploy at a call or a wait has an operation, and the
\* container it created where it needs one.
THEOREM DeployTypes == Spec => []TypeOK
<1>1. EngineInv => TypeOK
  <2>1. SUFFICES ASSUME EngineInv PROVE TypeOK
    BY Zenon
  <2>2. Base /\ d \in Deploys /\ faults \in 0..MaxFaults /\ service \in Services /\ Staged
        /\ \A m \in Machines : Admitted(m) \/ flight[m].on = m
    BY <2>1, Zenon DEF EngineInv, Typed
  <2>3. \A c \in Containers : box[c] \in Boxes
    BY <2>2, ContainersAre, Zenon DEF Base
  <2>4. d.pc \in Pcs /\ d.result \in {"running", "success", "failed", "refused", "died"}
    BY <2>2, Zenon DEF Deploys
  <2>5. /\ d.pc \in Fresh => d.new \in Containers
        /\ d.pc \notin {"idle", "next"} => d.plan # <<>>
    BY <2>2, Zenon DEF Staged
  <2> QED BY <2>2, <2>3, <2>4, <2>5, Zenon DEF TypeOK, Boxes, Pcs, Fresh, Admitted
<1> QED BY <1>1, EngineInvariant, PTL

\* Of a replacement that fails, the old or the new container runs, or the Deploy says that
\* the old one was not restarted or that its stop got no answer.
THEOREM DeployKeepsOneOrTells == Spec => []KeepsOneOrTells
<1>1. EngineInv => KeepsOneOrTells
  <2>1. SUFFICES ASSUME EngineInv, d.pc = "idle" /\ d.result = "failed" /\ d.sound,
                        cur.op = "replace" /\ d.held
                 PROVE  \/ is_active_runtime(cur.id)
                        \/ d.new # 0 /\ is_active_runtime(d.new)
                        \/ d.restart = "failed" \/ d.err = "stop"
    BY Zenon DEF KeepsOneOrTells
  <2>2. ToldBy(box, flight, d.new, cur.id, d.err, d.restart)
    BY <2>1, Zenon DEF EngineInv, Told
  <2>3. UpIn(box, d.new) => d.new # 0
    BY <2>1, ContainersAre, Zenon DEF EngineInv, Typed, Base, UpIn, Containers
  <2> QED BY <2>2, <2>3, Zenon DEF ToldBy, UpIn, is_active_runtime
<1> QED BY <1>1, EngineInvariant, PTL

=============================================================================
