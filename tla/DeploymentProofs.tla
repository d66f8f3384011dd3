-------------------------- MODULE DeploymentProofs --------------------------
(* Theorems about Deployment, for every set of nodes, intents and runners. *)
EXTENDS DeploymentRefinement, TLAPS

-----------------------------------------------------------------------------
(* The Node Outcomes are Node Outcomes. *)

\* A Service's outcome is one of the Node Outcomes, whatever the evidence.
LEMMA ServiceOutcomeType ==
    \A s, intent, ev : ServiceOutcome(s, intent, ev) \in NodeStatus
BY Zenon DEF ServiceOutcome, NodeStatus

\* So is a removed Volume's...
LEMMA RemovedVolumeOutcomeType ==
    \A v, ev : RemovedVolumeOutcome(v, ev) \in NodeStatus
BY Zenon DEF RemovedVolumeOutcome, NodeStatus

\* ...and a kept Volume's.
LEMMA KeptVolumeOutcomeType ==
    \A v, nodes, intent, held, ev :
        KeptVolumeOutcome(v, nodes, intent, held, ev) \in NodeStatus
BY DEF KeptVolumeOutcome, NodeStatus

\* node_outcomes gives every node a Node Outcome or leaves it unset.
LEMMA NodeOutcomesType ==
    \A nodes, intent, held, ev :
        NodeOutcomesOf(nodes, intent, held, ev) \in [Node -> NodeStatus \cup {Unset}]
BY ServiceOutcomeType, RemovedVolumeOutcomeType, KeptVolumeOutcomeType, Zenon
   DEF NodeOutcomesOf

\* So does what the preview settles.
LEMMA SettledType ==
    \A nodes, intent, held, planned, confirmed :
        Settled(nodes, intent, held, planned, confirmed)
            \in [Node -> NodeStatus \cup {Unset}]
BY NodeOutcomesType DEF Settled

\* Keeping what advanced keeps the type.
LEMMA KeepAdvancedType ==
    ASSUME NEW prior \in [Node -> NodeStatus \cup {Unset}],
           NEW next \in [Node -> NodeStatus \cup {Unset}]
    PROVE  KeepAdvanced(prior, next) \in [Node -> NodeStatus \cup {Unset}]
BY Zenon DEF KeepAdvanced

-----------------------------------------------------------------------------
(* Type correctness. *)

RunType == [prepared : BOOLEAN, planned : SUBSET Service,
            nodes : [Node -> NodeStatus \cup {Unset}], outcome : Outcome]

RowType == [by : 0..MaxDeployments, value : Value \cup {Absent}]

\* Numbers are naturals, the last one included.
LEMMA NumbersNatural == Number \subseteq Nat /\ (TypeOK => last \in Nat)
<1>1. MaxDeployments \in Nat
  BY DeploymentAssumption, Zenon
<1>2. TypeOK => last \in 0..MaxDeployments
  BY Zenon DEF TypeOK
<1>. QED BY <1>1, <1>2 DEF Number

\* A fresh run, and no row, have their types.
LEMMA DefaultTypes == NewRun \in RunType /\ NoRow \in RowType
BY DeploymentAssumption DEF NewRun, NoRow, RunType, RowType, Outcome

\* A Saved revision some Deployment ships is an intent.
LEMMA SavedAtType ==
    ASSUME TypeOK, NEW d \in Number
    PROVE  SavedAt(saved[d]) \in Intent
<1>1. saved[d] \in 0..Len(revisions) /\ revisions \in Seq(Intent)
  BY Zenon DEF TypeOK
<1>2. CASE saved[d] = 0
  BY <1>2, Zenon DEF SavedAt, Nothing, Intent
<1>3. CASE saved[d] # 0
  <2>1. saved[d] \in 1..Len(revisions)
    BY <1>1, <1>3
  <2>2. revisions[saved[d]] \in Intent
    BY <1>1, <2>1
  <2>. QED BY <1>3, <2>2, Zenon DEF SavedAt
<1>. QED BY <1>2, <1>3, Zenon

\* `advance` leaves Applied State a table of rows.
LEMMA AdvancedType ==
    ASSUME TypeOK, NEW d \in Number, NEW nodes, NEW ok
    PROVE  Advanced(d, nodes, ok) \in [Node -> RowType]
<1>1. SavedAt(saved[d]) \in [Node -> Value \cup {Absent}]
  BY SavedAtType, Zenon DEF Intent
<1>2. applied \in [Node -> RowType]
  BY Zenon DEF TypeOK, RowType
<1>3. d \in 0..MaxDeployments
  BY DeploymentAssumption DEF Number
<1>. QED BY <1>1, <1>2, <1>3, DefaultTypes, Zenon DEF Advanced, RowType

\* Admitting a Deployment keeps the columns admission writes well typed.
LEMMA AdmitType ==
    ASSUME TypeOK, NEW revision, NEW nodes \in SUBSET Node, Admit(revision, nodes),
           revisions' \in Seq(Intent), Len(revisions) <= Len(revisions'),
           revision \in 0..Len(revisions')
    PROVE  /\ last' \in 0..MaxDeployments
           /\ last + 1 \in Number
           /\ saved' \in [Number -> 0..Len(revisions')]
           /\ targets' \in [Number -> SUBSET Node]
<1>1. last \in 0..MaxDeployments /\ saved \in [Number -> 0..Len(revisions)]
      /\ revisions \in Seq(Intent) /\ targets \in [Number -> SUBSET Node]
  BY Zenon DEF TypeOK
<1>2. Len(revisions) \in Nat /\ Len(revisions') \in Nat
  BY <1>1
<1>3. last + 1 \in Number /\ last' \in 0..MaxDeployments
  BY <1>1, DeploymentAssumption DEF Admit, Number
<1>4. saved \in [Number -> 0..Len(revisions')]
  BY <1>1, <1>2
<1>5. saved' \in [Number -> 0..Len(revisions')]
  BY <1>4, Zenon DEF Admit
<1>6. targets' \in [Number -> SUBSET Node]
  BY <1>1, Zenon DEF Admit
<1>. QED BY <1>3, <1>5, <1>6, Zenon

\* The targets `freeze` picks are nodes.
LEMMA FreezeType ==
    ASSUME NEW intent, NEW held, NEW services \in SUBSET Service,
           NEW losses \in SUBSET Volume
    PROVE  Freeze(intent, held, services, losses) \in SUBSET Node
BY Zenon DEF Freeze, Has, Node

\* Publishing only ever adds Saved revisions, and the last one is the published.
LEMMA PublishType ==
    ASSUME TypeOK, NEW intent \in Intents, Publish(intent)
    PROVE  /\ revisions' \in Seq(Intent)
           /\ Len(revisions) <= Len(revisions')
           /\ Len(revisions') \in 0..Len(revisions')
           /\ \A i \in 1..Len(revisions) : revisions'[i] = revisions[i]
<1>1. revisions \in Seq(Intent) /\ intent \in Intent
  BY DeploymentAssumption, Zenon DEF TypeOK
<1>2. Len(revisions) \in Nat
  BY <1>1
<1>3. CASE revisions' = revisions
  BY <1>1, <1>2, <1>3
<1>4. CASE revisions' = Append(revisions, intent)
  BY <1>1, <1>2, <1>4
<1>. QED BY <1>3, <1>4, Zenon DEF Publish

\* Queueing a Deployment keeps what it writes well typed.
LEMMA QueueType ==
    ASSUME TypeOK, NEW revision, NEW nodes \in SUBSET Node, Queue(revision, nodes),
           revisions' \in Seq(Intent), Len(revisions) <= Len(revisions'),
           revision \in 0..Len(revisions'),
           storage' \in [Volume -> {StorageOf[x] : x \in Value} \cup {NoStorage}]
    PROVE  TypeOK'
<1>1. Admit(revision, nodes)
  BY Zenon DEF Queue
<1>2. /\ last' \in 0..MaxDeployments /\ last + 1 \in Number
      /\ saved' \in [Number -> 0..Len(revisions')]
      /\ targets' \in [Number -> SUBSET Node]
  BY <1>1, AdmitType, Zenon
<1>3. status' \in [Number -> Status]
  BY Zenon DEF Queue, Superseding, TypeOK, Status, Claimed, Ended
<1>4. run' \in [Number -> RunType]
  BY <1>2, DefaultTypes, Zenon DEF Queue, TypeOK, RunType
<1>5. UNCHANGED <<runner, lease, started, applied, now>>
  BY <1>1, Zenon DEF Queue, Admit, claims
<1>. QED BY <1>2, <1>3, <1>4, <1>5, Zenon DEF TypeOK, RunType

\* So does forgetting the Environment.
LEMMA ForgetType ==
    ASSUME TypeOK, NEW nodes \in SUBSET Node, NEW outcome \in Outcome,
           Forget(nodes, outcome), UNCHANGED <<revisions, storage>>
    PROVE  TypeOK'
<1>0. revisions' \in Seq(Intent) /\ Len(revisions) <= Len(revisions')
      /\ 0 \in 0..Len(revisions')
  BY DEF TypeOK
<1>1. Admit(0, nodes)
  BY Zenon DEF Forget
<1>2. /\ last' \in 0..MaxDeployments /\ last + 1 \in Number
      /\ saved' \in [Number -> 0..Len(revisions')]
      /\ targets' \in [Number -> SUBSET Node]
  BY <1>0, <1>1, AdmitType, Zenon
<1>3. status' \in [Number -> Status]
  BY Zenon DEF Forget, Superseding, TypeOK, Status, Claimed, Ended
<1>4. run' \in [Number -> RunType]
  <2>1. [n \in Node |-> IF n \in nodes THEN "unknown" ELSE Unset]
            \in [Node -> NodeStatus \cup {Unset}]
    BY Zenon DEF NodeStatus
  <2>2. [NewRun EXCEPT !.nodes = [n \in Node |-> IF n \in nodes THEN "unknown" ELSE Unset],
                       !.outcome = outcome] \in RunType
    BY <2>1, DefaultTypes, Zenon DEF RunType
  <2>. QED BY <2>2, Zenon DEF Forget, TypeOK, RunType
<1>5. applied' \in [Node -> RowType]
  BY DefaultTypes, Zenon DEF Forget
<1>6. UNCHANGED <<runner, lease, started, now>>
  BY <1>1, Zenon DEF Admit, claims
<1>. QED BY <1>0, <1>2, <1>3, <1>4, <1>5, <1>6, Zenon DEF TypeOK, RunType, RowType

\* And so does ending one.
LEMMA FinishType ==
    ASSUME TypeOK, NEW d \in Number, NEW newRun \in RunType,
           NEW end \in {"applied", "failed"}, Finish(d, newRun, end)
    PROVE  TypeOK'
<1>1. applied' \in [Node -> RowType]
  BY AdvancedType, Zenon DEF Finish
<1>2. status' \in [Number -> Status]
  BY Zenon DEF Finish, TypeOK, Status, Ended
<1>3. run' \in [Number -> RunType]
  BY Zenon DEF Finish, TypeOK, RunType
<1>4. lease' \in [Number -> Nat]
  BY DeploymentAssumption DEF Finish, Renew, TypeOK
<1>5. UNCHANGED <<last, revisions, saved, targets, runner, started, storage, now>>
  BY Zenon DEF Finish, frozen
<1>. QED BY <1>1, <1>2, <1>3, <1>4, <1>5, Zenon DEF TypeOK, RunType, RowType

\* Every operation keeps the types.
LEMMA TypeStep == TypeOK /\ [Next]_vars => TypeOK'
<1>. SUFFICES ASSUME TypeOK, [Next]_vars PROVE TypeOK'
  BY Zenon
<1>len. revisions \in Seq(Intent) /\ Len(revisions) \in Nat
  BY DEF TypeOK
<1>1. ASSUME NEW intent \in Intents, NEW services \in SUBSET Service,
             Deploy(intent, services)
      PROVE  TypeOK'
  <2>. DEFINE losses == RemovedVolumes(AppliedState, intent)
              nodes  == Freeze(intent, AppliedState, services, losses)
  <2>1. losses \in SUBSET Volume
    BY Zenon DEF RemovedVolumes
  <2>2. nodes \in SUBSET Node
    BY <2>1, FreezeType, Zenon
  <2>3. /\ revisions' \in Seq(Intent) /\ Len(revisions) <= Len(revisions')
        /\ Len(revisions') \in 0..Len(revisions')
    BY <1>1, PublishType, Zenon DEF Deploy
  <2>4. storage' \in [Volume -> {StorageOf[x] : x \in Value} \cup {NoStorage}]
    <3>1. intent \in [Node -> Value \cup {Absent}]
      BY DeploymentAssumption, Zenon DEF Intent
    <3>2. FixStorage(intent, nodes)
      BY <1>1, Zenon DEF Deploy
    <3>3. \A v \in Volume \cap Has(intent) : intent[v] \in Value
      BY <3>1, Zenon DEF Has, Node
    <3>4. \A v \in Volume \cap Has(intent) : StorageOf[intent[v]] \in {StorageOf[x] : x \in Value}
      BY <3>3, Zenon
    <3>. QED BY <3>2, <3>4, Zenon DEF FixStorage, TypeOK
  <2>5. Queue(Len(revisions'), nodes)
    BY <1>1, Zenon DEF Deploy
  <2>. HIDE DEF nodes
  <2>. QED BY <2>2, <2>3, <2>4, <2>5, QueueType, Zenon
<1>2. ASSUME NEW d \in Number, NEW noServers \in BOOLEAN, Retry(d, noServers)
      PROVE  TypeOK'
  <2>1. UNCHANGED <<revisions, storage>>
    BY <1>2, Zenon DEF Retry
  <2>2. targets[d] \in SUBSET Node /\ saved[d] \in 0..Len(revisions)
    BY Zenon DEF TypeOK
  <2>3. Forgettable(noServers) \in Outcome
    BY Zenon DEF Forgettable, Outcome
  <2>4. CASE Forget(targets[d], Forgettable(noServers))
    BY <2>1, <2>2, <2>3, <2>4, ForgetType, Zenon
  <2>5. CASE Queue(saved[d], targets[d])
    <3>1. /\ revisions' \in Seq(Intent) /\ Len(revisions) <= Len(revisions')
          /\ saved[d] \in 0..Len(revisions')
          /\ storage' \in [Volume -> {StorageOf[x] : x \in Value} \cup {NoStorage}]
      BY <1>len, <2>1, <2>2 DEF TypeOK
    <3>. QED BY <2>2, <2>5, <3>1, QueueType, Zenon
  <2>. QED BY <1>2, <2>4, <2>5, Zenon DEF Retry
<1>3. ASSUME NEW noServers \in BOOLEAN, Remove(noServers)
      PROVE  TypeOK'
  <2>. DEFINE forget == Forgettable(noServers)
              losses == IF forget = "none" THEN RemovedVolumes(AppliedState, Nothing)
                                           ELSE {}
              nodes  == Freeze(Nothing, AppliedState, {}, losses)
  <2>1. UNCHANGED <<revisions, storage>>
    BY <1>3, Zenon DEF Remove
  <2>2. losses \in SUBSET Volume
    BY Zenon DEF RemovedVolumes
  <2>3. nodes \in SUBSET Node
    <3>. HIDE DEF losses
    <3>. QED BY <2>2, FreezeType, Zenon
  <2>4. forget \in Outcome
    BY Zenon DEF Forgettable, Outcome
  <2>5. Forget(nodes, forget) \/ Queue(0, nodes)
    BY <1>3, Zenon DEF Remove
  <2>. HIDE DEF nodes, forget
  <2>6. CASE Forget(nodes, forget)
    BY <2>1, <2>3, <2>4, <2>6, ForgetType, Zenon
  <2>7. CASE Queue(0, nodes)
    <3>1. /\ revisions' \in Seq(Intent) /\ Len(revisions) <= Len(revisions')
          /\ 0 \in 0..Len(revisions')
          /\ storage' \in [Volume -> {StorageOf[x] : x \in Value} \cup {NoStorage}]
      BY <1>len, <2>1 DEF TypeOK
    <3>. QED BY <2>3, <2>7, <3>1, QueueType, Zenon
  <2>. QED BY <2>5, <2>6, <2>7, Zenon
<1>4. ASSUME NEW d \in Number, Cancel(d)
      PROVE  TypeOK'
  <2>1. status' \in [Number -> Status]
    BY <1>4, Zenon DEF Cancel, TypeOK, Status, Claimed, Ended
  <2>. QED BY <1>4, <2>1, Zenon DEF Cancel, TypeOK, frozen, claims
<1>5. CASE ForgetCluster
  <2>1. status' \in [Number -> Status]
    BY <1>5, Zenon DEF ForgetCluster, TypeOK, Status, Ended
  <2>2. applied' \in [Node -> RowType]
    BY <1>5, DefaultTypes, Zenon DEF ForgetCluster
  <2>3. storage' \in [Volume -> {StorageOf[x] : x \in Value} \cup {NoStorage}]
    BY <1>5, Zenon DEF ForgetCluster
  <2>. QED BY <1>5, <2>1, <2>2, <2>3, Zenon DEF ForgetCluster, TypeOK, frozen, claims, RowType
<1>6. CASE Tick
  BY <1>6 DEF Tick, TypeOK, frozen, claims
<1>7. ASSUME NEW d \in Number, NEW r \in Runner, RunnerStep(d, r)
      PROVE  TypeOK'
  <2>run. run[d] \in RunType
    BY Zenon DEF TypeOK, RunType
  <2>nodes. run[d].nodes \in [Node -> NodeStatus \cup {Unset}]
    BY <2>run, Zenon DEF RunType
  <2>lease. Renew(d) => lease' \in [Number -> Nat]
    BY DeploymentAssumption DEF Renew, TypeOK
  <2>1. CASE ClaimQueued(d, r)
    <3>1. status' \in [Number -> Status]
      BY <2>1, Zenon DEF ClaimQueued, TypeOK, Status, Claimed, Ended
    <3>. QED BY <2>1, <2>lease, <3>1, Zenon DEF ClaimQueued, TypeOK, frozen
  <2>2. CASE ClaimAgain(d, r) \/ RecordAlive(d, r)
    BY <2>2, <2>lease, Zenon DEF ClaimAgain, RecordAlive, TypeOK, frozen
  <2>3. CASE ClaimLost(d, r)
    <3>1. status' \in [Number -> Status]
      BY <2>3, Zenon DEF ClaimLost, TypeOK, Status, Ended
    <3>. QED BY <2>3, <3>1, Zenon DEF ClaimLost, TypeOK, frozen, claims
  <2>4. ASSUME NEW planned \in SUBSET Service, RecordPrepared(d, r, planned)
        PROVE  TypeOK'
    <3>1. Settled(targets[d], SavedAt(saved[d]), AppliedState, planned, {})
              \in [Node -> NodeStatus \cup {Unset}]
      BY SettledType, Zenon
    <3>2. run' \in [Number -> RunType]
      BY <2>4, <3>1, <2>run, Zenon DEF RecordPrepared, TypeOK, RunType
    <3>. QED BY <2>4, <2>lease, <3>2, Zenon DEF RecordPrepared, TypeOK, frozen, RunType
  <2>5. ASSUME NEW services \in SUBSET Service, RecordConfirmed(d, r, services)
        PROVE  TypeOK'
    <3>. DEFINE nodes == KeepAdvanced(run[d].nodes,
                      Settled(targets[d], SavedAt(saved[d]), AppliedState,
                              run[d].planned, services \cup ConfirmedServices(d)))
    <3>1. nodes \in [Node -> NodeStatus \cup {Unset}]
      BY <2>nodes, SettledType, KeepAdvancedType, Zenon
    <3>2. run' = [run EXCEPT ![d].nodes = nodes] /\ applied' = Advanced(d, nodes, FALSE)
          /\ Renew(d)
          /\ UNCHANGED <<last, revisions, saved, targets, status, runner, started, storage, now>>
      BY <2>5, Zenon DEF RecordConfirmed, frozen
    <3>. HIDE DEF nodes
    <3>3. run' \in [Number -> RunType]
      <4>1. [run[d] EXCEPT !.nodes = nodes] \in RunType
        BY <3>1, <2>run, Zenon DEF RunType
      <4>2. run' = [run EXCEPT ![d] = [run[d] EXCEPT !.nodes = nodes]]
        BY <3>2, Zenon
      <4>3. run \in [Number -> RunType]
        BY Zenon DEF TypeOK, RunType
      <4>. QED BY <4>1, <4>2, <4>3, Zenon
    <3>4. applied' \in [Node -> RowType]
      BY <3>2, AdvancedType, Zenon
    <3>. QED BY <2>lease, <3>2, <3>3, <3>4, Zenon DEF TypeOK, RunType, RowType
  <2>6. ASSUME NEW ev, RecordExecuted(d, r, ev)
        PROVE  TypeOK'
    <3>. DEFINE nodes == KeepAdvanced(run[d].nodes,
                      NodeOutcomesOf(targets[d], SavedAt(saved[d]), AppliedState, ev))
                new == [run[d] EXCEPT !.nodes = nodes, !.outcome = "executed"]
    <3>1. nodes \in [Node -> NodeStatus \cup {Unset}]
      BY <2>nodes, NodeOutcomesType, KeepAdvancedType, Zenon
    <3>2. PICK end \in {"applied", "failed"} : Finish(d, new, end)
      BY <2>6, Zenon DEF RecordExecuted
    <3>3. new \in RunType
      <4>. HIDE DEF nodes
      <4>. QED BY <3>1, <2>run, Zenon DEF RunType, Outcome
    <3>. HIDE DEF new
    <3>. QED BY <3>2, <3>3, FinishType, Zenon
  <2>7. [run[d] EXCEPT !.outcome = "not_executed"] \in RunType
    BY <2>run, Zenon DEF RunType, Outcome
  <2>8. CASE RecordNotExecuted(d, r)
    BY <2>7, <2>8, FinishType, Zenon DEF RecordNotExecuted
  <2>9. CASE RecordAbandoned(d, r)
    <3>1. CASE Finish(d, [run[d] EXCEPT !.outcome = "not_executed"], "failed")
      BY <2>7, <3>1, FinishType, Zenon
    <3>2. CASE /\ status' = [status EXCEPT ![d] = "unknown"]
               /\ Renew(d)
               /\ UNCHANGED <<last, frozen, runner, started, run, applied, storage, now>>
      <4>1. status' \in [Number -> Status]
        BY <3>2, Zenon DEF TypeOK, Status, Ended
      <4>. QED BY <3>2, <4>1, <2>lease, Zenon DEF TypeOK, frozen
    <3>. QED BY <2>9, <3>1, <3>2, Zenon DEF RecordAbandoned
  <2>. QED BY <1>7, <2>1, <2>2, <2>3, <2>4, <2>5, <2>6, <2>8, <2>9, Zenon DEF RunnerStep
<1>8. CASE UNCHANGED vars
  BY <1>8, Zenon DEF vars, frozen, claims, TypeOK
<1>. QED BY <1>1, <1>2, <1>3, <1>4, <1>5, <1>6, <1>7, <1>8, Zenon DEF Next, Environs

\* The Store's tables are well typed in every reachable state.
THEOREM TypeCorrect == Spec => []TypeOK
<1>1. Init => TypeOK
  BY DefaultTypes, DeploymentAssumption
     DEF Init, TypeOK, RunType, RowType, Status, Number
<1>. QED BY <1>1, TypeStep, PTL DEF Spec

-----------------------------------------------------------------------------
(* What a runner may do, in outline. *)

\* The statuses a record or a claim may leave a held Deployment with.
After(st) ==
    {st} \cup IF st = "running" THEN {"applied", "failed", "unknown"}
                                ELSE {"applied", "cancelled", "unknown"}

\* A step of the runner that holds d: d alone changes, and Applied State only
\* by what d's Node Outcomes advance.
HeldStep(d) ==
    /\ Read(d) \in Claimed
    /\ UNCHANGED <<last, revisions, saved, targets, runner, started, storage, now>>
    /\ \E st \in After(status[d]) : status' = [status EXCEPT ![d] = st]
    /\ \/ lease' = [lease EXCEPT ![d] = now + Lease]
       \/ lease' = lease /\ status'[d] = "unknown"
    /\ \E new \in RunType : run' = [run EXCEPT ![d] = new]
    /\ applied' = applied \/ applied' = Advanced(d, run'[d].nodes, status'[d] = "applied")

\* Ending a Deployment is such a step.
LEMMA FinishHeld ==
    ASSUME TypeOK, NEW d \in Number, NEW newRun \in RunType,
           NEW end \in {"applied", "failed"}, Finish(d, newRun, end),
           Read(d) \in Claimed
    PROVE  HeldStep(d)
<1>1. status[d] \in Claimed
  BY Zenon DEF Read, Claimed
<1>2. \E st \in After(status[d]) : status' = [status EXCEPT ![d] = st]
  BY <1>1, Zenon DEF Finish, After, Claimed
<1>3. run'[d] = newRun
  BY Zenon DEF Finish, TypeOK
<1>4. (status'[d] = "applied") <=> (end = "applied")
  BY <1>1, Zenon DEF Finish, TypeOK, Claimed
<1>5. applied' = Advanced(d, run'[d].nodes, status'[d] = "applied")
  BY <1>3, <1>4, Zenon DEF Finish, Advanced
<1>6. UNCHANGED <<last, revisions, saved, targets, runner, started, storage, now>>
  BY Zenon DEF Finish, frozen
<1>7. lease' = [lease EXCEPT ![d] = now + Lease]
  BY Zenon DEF Finish, Renew
<1>8. \E new \in RunType : run' = [run EXCEPT ![d] = new]
  BY Zenon DEF Finish
<1>. QED BY <1>2, <1>5, <1>6, <1>7, <1>8, Zenon DEF HeldStep

\* A runner either claims the queued Deployment or holds the one it works on.
LEMMA RunnerOutline ==
    ASSUME TypeOK, NEW d \in Number, NEW r \in Runner, RunnerStep(d, r)
    PROVE  ClaimQueued(d, r) \/ HeldStep(d)
<1>run. run[d] \in RunType /\ run \in [Number -> RunType]
  BY Zenon DEF TypeOK, RunType
<1>nodes. run[d].nodes \in [Node -> NodeStatus \cup {Unset}]
  BY <1>run, Zenon DEF RunType
<1>same. /\ run = [run EXCEPT ![d] = run[d]]
         /\ status = [status EXCEPT ![d] = status[d]]
         /\ status[d] \in After(status[d])
  BY Zenon DEF TypeOK, After
<1>1. CASE ClaimAgain(d, r) \/ RecordAlive(d, r)
  BY <1>1, <1>run, <1>same, Zenon DEF ClaimAgain, RecordAlive, Holds, HeldStep, Renew, frozen
<1>2. CASE ClaimLost(d, r)
  <2>1. "unknown" \in After(status[d])
    BY Zenon DEF After
  <2>2. status'[d] = "unknown"
    BY <1>2, Zenon DEF ClaimLost, TypeOK
  <2>3. \E new \in RunType : run' = [run EXCEPT ![d] = new]
    BY <1>2, <1>run, <1>same, Zenon DEF ClaimLost
  <2>. QED BY <1>2, <2>1, <2>2, <2>3, Zenon DEF ClaimLost, Holds, HeldStep, frozen, claims
<1>3. ASSUME NEW planned \in SUBSET Service, RecordPrepared(d, r, planned)
      PROVE  HeldStep(d)
  <2>. DEFINE new == [run[d] EXCEPT !.prepared = TRUE, !.planned = planned,
                        !.nodes = Settled(targets[d], SavedAt(saved[d]),
                                          AppliedState, planned, {})]
  <2>1. new \in RunType
    BY <1>run, SettledType, Zenon DEF RunType
  <2>2. run' = [run EXCEPT ![d] = new]
    BY <1>3, <1>run, Zenon DEF RecordPrepared, RunType
  <2>3. \E st \in After(status[d]) : status' = [status EXCEPT ![d] = st]
    BY <1>3, <1>same, Zenon DEF RecordPrepared
  <2>. HIDE DEF new
  <2>. QED BY <1>3, <2>1, <2>2, <2>3, Zenon DEF RecordPrepared, Holds, HeldStep, Renew, frozen
<1>4. ASSUME NEW services \in SUBSET Service, RecordConfirmed(d, r, services)
      PROVE  HeldStep(d)
  <2>. DEFINE nodes == KeepAdvanced(run[d].nodes,
                      Settled(targets[d], SavedAt(saved[d]), AppliedState,
                              run[d].planned, services \cup ConfirmedServices(d)))
              new == [run[d] EXCEPT !.nodes = nodes]
  <2>1. nodes \in [Node -> NodeStatus \cup {Unset}]
    BY <1>nodes, SettledType, KeepAdvancedType, Zenon
  <2>2. /\ run' = [run EXCEPT ![d].nodes = nodes] /\ applied' = Advanced(d, nodes, FALSE)
        /\ lease' = [lease EXCEPT ![d] = now + Lease] /\ Read(d) \in Claimed
        /\ UNCHANGED <<last, revisions, saved, targets, status, runner, started, storage, now>>
    BY <1>4, Zenon DEF RecordConfirmed, Holds, Renew, frozen
  <2>. HIDE DEF nodes
  <2>3. new \in RunType
    BY <1>run, <2>1, Zenon DEF RunType
  <2>4. run' = [run EXCEPT ![d] = new] /\ run'[d].nodes = nodes
    BY <1>run, <2>2, Zenon DEF RunType
  <2>5. (status'[d] = "applied") = FALSE
    BY <2>2, Zenon DEF Read, Claimed
  <2>6. \E st \in After(status[d]) : status' = [status EXCEPT ![d] = st]
    BY <2>2, <1>same, Zenon
  <2>. HIDE DEF new
  <2>7. applied' = Advanced(d, run'[d].nodes, status'[d] = "applied")
    BY <2>2, <2>4, <2>5, Zenon DEF Advanced
  <2>. QED BY <2>2, <2>3, <2>4, <2>6, <2>7, Zenon DEF HeldStep
<1>5. ASSUME NEW ev, RecordExecuted(d, r, ev)
      PROVE  HeldStep(d)
  <2>. DEFINE nodes == KeepAdvanced(run[d].nodes,
                    NodeOutcomesOf(targets[d], SavedAt(saved[d]), AppliedState, ev))
              new == [run[d] EXCEPT !.nodes = nodes, !.outcome = "executed"]
  <2>1. nodes \in [Node -> NodeStatus \cup {Unset}]
    BY <1>nodes, NodeOutcomesType, KeepAdvancedType, Zenon
  <2>2. PICK end \in {"applied", "failed"} : Finish(d, new, end)
    BY <1>5, Zenon DEF RecordExecuted
  <2>3. new \in RunType
    <3>. HIDE DEF nodes
    <3>. QED BY <2>1, <1>run, Zenon DEF RunType, Outcome
  <2>4. Read(d) \in Claimed
    BY <1>5, Zenon DEF RecordExecuted, Holds
  <2>. HIDE DEF new
  <2>. QED BY <2>2, <2>3, <2>4, FinishHeld, Zenon
<1>6. [run[d] EXCEPT !.outcome = "not_executed"] \in RunType
  BY <1>run, Zenon DEF RunType, Outcome
<1>7. CASE RecordNotExecuted(d, r)
  BY <1>6, <1>7, FinishHeld, Zenon DEF RecordNotExecuted, Holds
<1>8. CASE RecordAbandoned(d, r)
  <2>1. Read(d) \in Claimed
    BY <1>8, Zenon DEF RecordAbandoned, Holds
  <2>2. CASE Finish(d, [run[d] EXCEPT !.outcome = "not_executed"], "failed")
    BY <1>6, <2>1, <2>2, FinishHeld, Zenon
  <2>3. CASE /\ status' = [status EXCEPT ![d] = "unknown"]
             /\ Renew(d)
             /\ UNCHANGED <<last, frozen, runner, started, run, applied, storage, now>>
    <3>1. "unknown" \in After(status[d])
      BY Zenon DEF After
    <3>2. \E new \in RunType : run' = [run EXCEPT ![d] = new]
      BY <2>3, <1>run, <1>same, Zenon
    <3>. QED BY <2>1, <2>3, <3>1, <3>2, Zenon DEF HeldStep, Renew, frozen
  <2>. QED BY <1>8, <2>2, <2>3, Zenon DEF RecordAbandoned
<1>. QED BY <1>1, <1>2, <1>3, <1>4, <1>5, <1>7, <1>8, Zenon DEF RunnerStep

\* An admission, of whatever kind: a new Deployment, the queued one superseded.
AdmitStep(new) ==
    /\ last < MaxDeployments /\ last' = last + 1 /\ last + 1 \in Number
    /\ Superseding(new)
    /\ UNCHANGED <<runner, lease, started, now>>
    /\ \A i \in 1..Len(revisions) : revisions'[i] = revisions[i]
    /\ \A d \in Number \ {last + 1} :
          saved'[d] = saved[d] /\ targets'[d] = targets[d] /\ run'[d] = run[d]
    /\ \/ new = "queued" /\ run'[last + 1] = NewRun /\ UNCHANGED applied
       \/ /\ new = "applied"
          /\ \A n \in Node : run'[last + 1].nodes[n] \in {Unset, "unknown"}
          /\ run'[last + 1].prepared = FALSE
          /\ run'[last + 1].outcome \in {"never_ran", "forgotten"}
          /\ applied' = [n \in Node |-> NoRow]

\* Queueing is an admission.
LEMMA QueueOutline ==
    ASSUME TypeOK, NEW revision, NEW nodes, Queue(revision, nodes),
           \A i \in 1..Len(revisions) : revisions'[i] = revisions[i]
    PROVE  AdmitStep("queued")
<1>1. last + 1 \in Number
  BY DeploymentAssumption DEF TypeOK, Queue, Admit, Number
<1>2. run'[last + 1] = NewRun
  BY <1>1, Zenon DEF Queue, TypeOK
<1>. QED BY <1>1, <1>2, Zenon DEF AdmitStep, Queue, Admit, claims, TypeOK

\* So is forgetting.
LEMMA ForgetOutline ==
    ASSUME TypeOK, NEW nodes, NEW outcome \in {"never_ran", "forgotten"},
           Forget(nodes, outcome), UNCHANGED revisions
    PROVE  AdmitStep("applied")
<1>1. last + 1 \in Number
  BY DeploymentAssumption DEF TypeOK, Forget, Admit, Number
<1>2. /\ \A n \in Node : run'[last + 1].nodes[n] \in {Unset, "unknown"}
      /\ run'[last + 1].prepared = FALSE
      /\ run'[last + 1].outcome = outcome
  BY <1>1, Zenon DEF Forget, TypeOK, NewRun
<1>. QED BY <1>1, <1>2, Zenon DEF AdmitStep, Forget, Admit, claims, TypeOK

\* What users, Cloud and the clock do, in outline.
LEMMA EnvironsOutline ==
    ASSUME TypeOK, Environs
    PROVE  \/ \E new \in {"queued", "applied"} : AdmitStep(new)
           \/ \E d \in Number : Cancel(d)
           \/ ForgetCluster
           \/ Tick
<1>1. ASSUME NEW intent \in Intents, NEW services \in SUBSET Service,
             Deploy(intent, services)
      PROVE  AdmitStep("queued")
  BY <1>1, PublishType, QueueOutline, Zenon DEF Deploy
<1>2. \A noServers : Forgettable(noServers) \in {"none", "never_ran", "forgotten"}
  BY Zenon DEF Forgettable
<1>3. ASSUME NEW d \in Number, NEW noServers \in BOOLEAN, Retry(d, noServers)
      PROVE  AdmitStep("queued") \/ AdmitStep("applied")
  BY <1>2, <1>3, QueueOutline, ForgetOutline, Zenon DEF Retry
<1>4. ASSUME NEW noServers \in BOOLEAN, Remove(noServers)
      PROVE  AdmitStep("queued") \/ AdmitStep("applied")
  BY <1>2, <1>4, QueueOutline, ForgetOutline, Zenon DEF Remove
<1>. QED BY <1>1, <1>3, <1>4, Zenon DEF Environs

\* Every step of the system in outline.
LEMMA StepOutline ==
    ASSUME TypeOK, [Next]_vars
    PROVE  \/ \E new \in {"queued", "applied"} : AdmitStep(new)
           \/ \E d \in Number, r \in Runner : ClaimQueued(d, r)
           \/ \E d \in Number : HeldStep(d)
           \/ \E d \in Number : Cancel(d)
           \/ ForgetCluster
           \/ Tick
           \/ UNCHANGED vars
BY EnvironsOutline, RunnerOutline, Zenon DEF Next

-----------------------------------------------------------------------------
(* The newest runs. *)

\* The order of a history: numbers are handed out in turn, the queued Deployment
\* has the last, and the claimed one is the newest that started.  Whoever wrote
\* a row of Applied State had started.
Order ==
    /\ \A d \in Number : d > last => status[d] = "none" /\ ~started[d]
    /\ \A d \in Number : status[d] = "queued" => d = last
    /\ \A d \in Number : status[d] \in Claimed => started[d]
    /\ \A d, e \in Number : status[d] \in Claimed /\ started[e] => e <= d
    /\ \A n \in Node : applied[n].by # 0 => started[applied[n].by]

\* Every step keeps the order.
LEMMA OrderStep == TypeOK /\ Order /\ [Next]_vars => Order'
<1>. SUFFICES ASSUME TypeOK, Order, [Next]_vars PROVE Order'
  BY Zenon
<1>type. /\ last \in Nat /\ Number \subseteq Nat
         /\ status \in [Number -> Status] /\ started \in [Number -> BOOLEAN]
         /\ applied \in [Node -> RowType]
  <2>1. status \in [Number -> Status] /\ started \in [Number -> BOOLEAN]
    BY Zenon DEF TypeOK
  <2>2. applied \in [Node -> RowType]
    BY Zenon DEF TypeOK, RowType
  <2>. QED BY <2>1, <2>2, NumbersNatural, Zenon
<1>1. ASSUME NEW new \in {"queued", "applied"}, AdmitStep(new)
      PROVE  Order'
  <2>1. last' = last + 1 /\ UNCHANGED started
    BY <1>1, Zenon DEF AdmitStep
  <2>2. \A d \in Number : status'[d] = IF d = last + 1 THEN new
                                ELSE IF status[d] = "queued" THEN "superseded"
                                ELSE status[d]
    BY <1>1, Zenon DEF AdmitStep, Superseding
  <2>3. \A n \in Node : applied'[n].by # 0 => started'[applied'[n].by]
    <3>1. CASE UNCHANGED applied
      BY <2>1, <3>1, Zenon DEF Order
    <3>2. CASE applied' = [n \in Node |-> NoRow]
      BY <3>2, Zenon DEF NoRow
    <3>. QED BY <1>1, <3>1, <3>2, Zenon DEF AdmitStep
  <2>4. \A d \in Number : d > last' => status'[d] = "none" /\ ~started'[d]
    BY <1>type, <2>1, <2>2 DEF Order
  <2>5. \A d \in Number : status'[d] = "queued" => d = last'
    BY <1>type, <2>1, <2>2, Zenon
  <2>6. \A d \in Number : status'[d] \in Claimed => status[d] \in Claimed
    BY <2>2, Zenon DEF Claimed
  <2>7. /\ \A d \in Number : status'[d] \in Claimed => started'[d]
        /\ \A d, e \in Number : status'[d] \in Claimed /\ started'[e] => e <= d
    BY <2>1, <2>6, Zenon DEF Order
  <2>. QED BY <2>3, <2>4, <2>5, <2>7, Zenon DEF Order
<1>2. ASSUME NEW d \in Number, NEW r \in Runner, ClaimQueued(d, r)
      PROVE  Order'
  <2>1. \A e \in Number : status'[e] = IF e = d THEN "running"
                                   ELSE IF status[e] \in Claimed THEN "unknown"
                                   ELSE status[e]
    BY <1>2, Zenon DEF ClaimQueued
  <2>2. \A e \in Number : started'[e] <=> e = d \/ started[e]
    BY <1>2, <1>type, Zenon DEF ClaimQueued
  <2>3. last' = last /\ applied' = applied /\ d = last
    BY <1>2, Zenon DEF ClaimQueued, Order
  <2>4. \A n \in Node : applied'[n].by # 0 => started'[applied'[n].by]
    BY <1>type, <2>2, <2>3 DEF Order, RowType, Number
  <2>. QED BY <1>type, <2>1, <2>2, <2>3, <2>4 DEF Order, Claimed
<1>3. ASSUME NEW d \in Number, HeldStep(d)
      PROVE  Order'
  <2>1. status[d] \in Claimed /\ started[d] /\ UNCHANGED <<last, started>>
    BY <1>3, Zenon DEF HeldStep, Read, Claimed, Order
  <2>2. \A e \in Number \ {d} : status'[e] = status[e]
    BY <1>3, <1>type, Zenon DEF HeldStep
  <2>3. status'[d] \in After(status[d]) /\ status'[d] # "queued" /\ status'[d] # "none"
    BY <1>3, <1>type, <2>1, Zenon DEF HeldStep, After, Claimed
  <2>4. \A n \in Node : applied'[n].by # 0 => started'[applied'[n].by]
    <3>1. CASE applied' = applied
      BY <2>1, <3>1, Zenon DEF Order
    <3>2. CASE applied' = Advanced(d, run'[d].nodes, status'[d] = "applied")
      BY <2>1, <3>2, Zenon DEF Advanced, NoRow, Order
    <3>. QED BY <1>3, <3>1, <3>2, Zenon DEF HeldStep
  <2>. QED BY <1>type, <2>1, <2>2, <2>3, <2>4, Zenon DEF Order, Claimed
<1>4. ASSUME NEW d \in Number, Cancel(d)
      PROVE  Order'
  <2>1. \A e \in Number \ {d} : status'[e] = status[e]
    BY <1>4, <1>type, Zenon DEF Cancel
  <2>2. \/ status[d] = "queued" /\ status'[d] = "cancelled"
        \/ status[d] = "running" /\ status'[d] = "cancelling"
    BY <1>4, <1>type, Zenon DEF Cancel, Read
  <2>3. UNCHANGED <<last, started, applied>>
    BY <1>4, Zenon DEF Cancel, claims
  <2>. QED BY <1>type, <2>1, <2>2, <2>3 DEF Order, Claimed
<1>5. CASE ForgetCluster
  <2>1. \A d \in Number : \/ status'[d] = "cancelled" /\ status[d] # "none"
                          \/ status'[d] = status[d]
    BY <1>5, <1>type, Zenon DEF ForgetCluster, InFlight, Claimed
  <2>2. UNCHANGED <<last, started>> /\ \A n \in Node : applied'[n].by = 0
    BY <1>5, Zenon DEF ForgetCluster, claims, NoRow
  <2>. QED BY <1>type, <2>1, <2>2, Zenon DEF Order, Claimed
<1>6. CASE Tick
  BY <1>6, Zenon DEF Tick, Order, claims
<1>7. CASE UNCHANGED vars
  BY <1>7, Zenon DEF vars, Order, claims
<1>. QED BY <1>1, <1>2, <1>3, <1>4, <1>5, <1>6, <1>7, StepOutline, Zenon

\* The order holds in every reachable state.
LEMMA OrderHolds == Spec => []Order
<1>1. Init => Order
  BY DEF Init, Order, Claimed, NoRow
<1>. QED BY <1>1, OrderStep, TypeCorrect, PTL DEF Spec

\* In every reachable state the waiting Deployment is the newest admitted and the
\* claimed one the newest that started: `queue` and `claim` leave no second one.
THEOREM NewestRunsHolds == Spec => []NewestRuns
<1>1. Order => NewestRuns
  BY Zenon DEF Order, NewestRuns
<1>. QED BY <1>1, OrderHolds, PTL

-----------------------------------------------------------------------------
(* Applied State only moves forward. *)

\* One step never replaces a row by an older Deployment's.
LEMMA AppliedForwardStep ==
    ASSUME TypeOK, Order, [Next]_vars, NEW n \in Node,
           applied[n].by # 0, applied'[n].by # 0
    PROVE  applied[n].by <= applied'[n].by
<1>row. applied \in [Node -> RowType]
  BY Zenon DEF TypeOK, RowType
<1>by. applied[n].by \in 0..MaxDeployments
  BY <1>row, Zenon DEF RowType
<1>type. applied[n].by \in Number
  BY <1>by, DeploymentAssumption DEF Number
<1>nat. applied[n].by \in Nat
  BY <1>type, DeploymentAssumption DEF Number
<1>refl. applied[n].by <= applied[n].by
  <2>. DEFINE b == applied[n].by
  <2>. SUFFICES ASSUME b \in Nat PROVE b <= b
    BY <1>nat, Zenon
  <2>. HIDE DEF b
  <2>. QED OBVIOUS
<1>1. CASE applied' = applied
  BY <1>1, <1>refl, Zenon
<1>2. CASE applied' = [m \in Node |-> NoRow]
  BY <1>2, Zenon DEF NoRow
<1>3. ASSUME NEW d \in Number, HeldStep(d)
      PROVE  applied[n].by <= applied'[n].by
  <2>1. applied[n].by <= d
    BY <1>3, <1>type, Zenon DEF HeldStep, Read, Order, Claimed
  <2>2. CASE applied' = Advanced(d, run'[d].nodes, status'[d] = "applied")
    <3>1. applied'[n].by \in {d, 0, applied[n].by}
      BY <2>2, Zenon DEF Advanced, NoRow
    <3>2. applied'[n].by = d \/ applied'[n].by = applied[n].by
      BY <3>1, Zenon
    <3>. QED BY <2>1, <3>2, <1>refl, Zenon
  <2>. QED BY <1>1, <1>3, <2>2, Zenon DEF HeldStep
<1>. QED BY <1>1, <1>2, <1>3, StepOutline, Zenon
       DEF AdmitStep, ClaimQueued, Cancel, ForgetCluster, Tick, vars

\* No reachable step takes Applied State back to an earlier Deployment: a runner
\* whose Deployment was taken over, lapsed or ended writes nothing any more.
THEOREM AppliedForwardHolds == Spec => AppliedForward
<1>1. TypeOK /\ Order /\ [Next]_vars =>
        [\A n \in Node : applied[n].by # 0 /\ applied'[n].by # 0
                          => applied[n].by <= applied'[n].by]_vars
  BY AppliedForwardStep, Zenon
<1>. QED BY <1>1, TypeCorrect, OrderHolds, PTL DEF Spec, AppliedForward

-----------------------------------------------------------------------------
(* An end is final, and the statuses keep the account. *)

\* What each step does to the status d is read with.
LEMMA ReadStep ==
    ASSUME TypeOK, Order, [Next]_vars
    PROVE  \/ /\ last < MaxDeployments /\ last' = last + 1
              /\ \E new \in {"queued", "applied"} : \A d \in Number :
                    Read(d)' = IF d = last + 1 THEN new
                               ELSE IF Read(d) = "queued" THEN "superseded"
                               ELSE Read(d)
           \/ /\ last' = last
              /\ \E d \in Number :
                    /\ Read(d) = "queued"
                    /\ \A e \in Number :
                          Read(e)' = IF e = d THEN "running"
                                     ELSE IF Read(e) \in Claimed THEN "unknown"
                                     ELSE Read(e)
           \/ /\ last' = last
              /\ \E d \in Number :
                    /\ Read(d) \in Claimed /\ Read(d)' \in After(Read(d))
                    /\ \A e \in Number \ {d} : Read(e)' = Read(e)
           \/ /\ last' = last
              /\ \E d \in Number :
                    /\ \/ Read(d) = "queued" /\ Read(d)' = "cancelled"
                       \/ Read(d) = "running" /\ Read(d)' = "cancelling"
                    /\ \A e \in Number \ {d} : Read(e)' = Read(e)
           \/ /\ last' = last
              /\ \A d \in Number :
                    Read(d)' = IF Read(d) \in {"queued"} \cup Claimed
                               THEN "cancelled" ELSE Read(d)
           \/ last' = last /\ \A d \in Number : Read(d)' = Read(d)
<1>type. /\ last \in Nat /\ Number \subseteq Nat /\ now \in Nat
         /\ status \in [Number -> Status] /\ lease \in [Number -> Nat]
         /\ Lease \in Nat /\ Lease > 0
  BY DeploymentAssumption DEF TypeOK, Number
<1>1. ASSUME NEW new \in {"queued", "applied"}, AdmitStep(new)
      PROVE  \A d \in Number :
                Read(d)' = IF d = last + 1 THEN new
                           ELSE IF Read(d) = "queued" THEN "superseded" ELSE Read(d)
  BY <1>1, <1>type, Zenon DEF AdmitStep, Superseding, Read, Lapsed, Claimed
<1>2. ASSUME NEW d \in Number, NEW r \in Runner, ClaimQueued(d, r)
      PROVE  /\ last' = last /\ Read(d) = "queued"
             /\ \A e \in Number :
                   Read(e)' = IF e = d THEN "running"
                              ELSE IF Read(e) \in Claimed THEN "unknown" ELSE Read(e)
  <2>1. status'[d] = "running" /\ lease'[d] = now + Lease /\ now' = now
    BY <1>2, <1>type, Zenon DEF ClaimQueued, Renew
  <2>2. Read(d)' = "running"
    BY <1>type, <2>1 DEF Read, Lapsed
  <2>3. \A e \in Number \ {d} : Read(e)' = IF Read(e) \in Claimed THEN "unknown" ELSE Read(e)
    BY <1>2, <1>type, Zenon DEF ClaimQueued, Renew, Read, Lapsed, Claimed
  <2>. QED BY <1>2, <2>2, <2>3, Zenon DEF ClaimQueued, Read, Lapsed, Claimed
<1>3. ASSUME NEW d \in Number, HeldStep(d)
      PROVE  /\ last' = last
             /\ Read(d) \in Claimed /\ Read(d)' \in After(Read(d))
             /\ \A e \in Number \ {d} : Read(e)' = Read(e)
  <2>1. Read(d) = status[d] /\ Read(d) \in Claimed /\ now' = now /\ last' = last
    BY <1>3, Zenon DEF HeldStep, Read, Claimed
  <2>2. status'[d] \in After(status[d])
    BY <1>3, <1>type, Zenon DEF HeldStep
  <2>3. Read(d)' = status'[d]
    <3>1. CASE lease' = [lease EXCEPT ![d] = now + Lease]
      <4>1. lease'[d] = now + Lease
        BY <3>1, <1>type, Zenon
      <4>. QED BY <4>1, <2>1, <1>type DEF Read, Lapsed
    <3>2. CASE status'[d] = "unknown"
      BY <3>2, Zenon DEF Read, Lapsed
    <3>. QED BY <1>3, <3>1, <3>2, Zenon DEF HeldStep
  <2>4. \A e \in Number \ {d} : status'[e] = status[e] /\ lease'[e] = lease[e]
    BY <1>3, <1>type, Zenon DEF HeldStep
  <2>. QED BY <2>1, <2>2, <2>3, <2>4, Zenon DEF Read, Lapsed
<1>4. ASSUME NEW d \in Number, Cancel(d)
      PROVE  /\ last' = last
             /\ \/ Read(d) = "queued" /\ Read(d)' = "cancelled"
                \/ Read(d) = "running" /\ Read(d)' = "cancelling"
             /\ \A e \in Number \ {d} : Read(e)' = Read(e)
  BY <1>4, <1>type, Zenon DEF Cancel, Read, Lapsed, Claimed, claims
<1>5. CASE ForgetCluster
  <2>1. \A d \in Number : InFlight(d) <=> Read(d) \in {"queued"} \cup Claimed
    BY <1>type DEF InFlight, Read, Lapsed, Claimed
  <2>2. \A d \in Number : status'[d] = IF InFlight(d) THEN "cancelled" ELSE status[d]
    BY <1>5, Zenon DEF ForgetCluster
  <2>3. UNCHANGED <<last, lease, now>>
    BY <1>5, Zenon DEF ForgetCluster, claims
  <2>4. \A d \in Number :
           Read(d)' = IF Read(d) \in {"queued"} \cup Claimed THEN "cancelled" ELSE Read(d)
    BY <2>1, <2>2, <2>3, Zenon DEF Read, Lapsed, Claimed
  <2>. QED BY <2>3, <2>4, Zenon
<1>6. CASE Tick
  <2>1. UNCHANGED <<last, status, lease>> /\ now' = now + 1
    BY <1>6, Zenon DEF Tick, claims
  <2>2. \A d \in Number : Read(d)' = Read(d) \/ (Read(d) \in Claimed /\ Read(d)' = "unknown")
    BY <2>1, <1>type DEF Read, Lapsed
  <2>3. \A d, e \in Number : Read(d) \in Claimed /\ Read(e) \in Claimed => d = e
    BY <1>type DEF Read, Claimed, Order
  <2>4. CASE \A d \in Number : Read(d)' = Read(d)
    BY <2>1, <2>4, Zenon
  <2>5. ASSUME NEW d \in Number, Read(d)' # Read(d)
        PROVE  /\ Read(d) \in Claimed /\ Read(d)' \in After(Read(d))
               /\ \A e \in Number \ {d} : Read(e)' = Read(e)
    <3>1. Read(d) \in Claimed /\ Read(d)' = "unknown"
      BY <2>2, <2>5, Zenon
    <3>2. \A e \in Number \ {d} : Read(e)' = Read(e)
      BY <2>2, <2>3, <3>1, Zenon
    <3>. QED BY <3>1, <3>2, Zenon DEF After
  <2>. QED BY <2>1, <2>4, <2>5, Zenon
<1>7. CASE UNCHANGED vars
  BY <1>7, Zenon DEF vars, claims, Read, Lapsed
<1>8. ASSUME NEW new \in {"queued", "applied"}, AdmitStep(new)
      PROVE  last < MaxDeployments /\ last' = last + 1
  BY <1>8, Zenon DEF AdmitStep
<1>. QED BY <1>1, <1>2, <1>3, <1>4, <1>5, <1>6, <1>7, <1>8, StepOutline, Zenon

\* How a Deployment reads once it ended never changes: neither a late record, nor
\* a takeover, nor a cancel, nor the loss of the cluster rewrites its end.
THEOREM EndIsFinalHolds == Spec => EndIsFinal
<1>1. ASSUME TypeOK, Order, [Next]_vars, NEW d \in Number, Read(d) \in Ended
      PROVE  Read(d)' = Read(d)
  <2>1. d # last + 1
    <3>1. d > last => Read(d) = "none"
      BY <1>1, Zenon DEF Order, Read, Lapsed, Claimed
    <3>2. Read(d) # "none"
      BY <1>1, Zenon DEF Ended
    <3>. QED BY <1>1, <3>1, <3>2, NumbersNatural
  <2>2. Read(d) # "queued" /\ Read(d) \notin Claimed /\ Read(d) # "running"
    BY <1>1, Zenon DEF Ended, Claimed
  <2>. QED BY <1>1, <2>1, <2>2, ReadStep, Zenon
<1>2. TypeOK /\ Order /\ [Next]_vars =>
         [\A d \in Number : Read(d) \in Ended => Read(d)' = Read(d)]_vars
  BY <1>1, Zenon
<1>. QED BY <1>2, TypeCorrect, OrderHolds, PTL DEF Spec, EndIsFinal

LEMMA PhaseFacts ==
    /\ \A st \in Status : /\ PhaseOf(st) = "waiting" <=> st = "queued"
                          /\ PhaseOf(st) = "active" <=> st = "running"
                          /\ PhaseOf(st) = "stopping" <=> st = "cancelling"
    /\ \A st \in Ended \cup {"none"} : PhaseOf(st) = st
    /\ PhaseOf("queued") = "waiting"
    /\ PhaseOf("running") = "active"
    /\ PhaseOf("cancelling") = "stopping"
BY Zenon DEF PhaseOf, Status, Ended, Claimed

LEMMA LedgerStep ==
    ASSUME TypeOK, Order, [Next]_vars
    PROVE  [Ledger!Next]_<<last, [d \in Number |-> PhaseOf(Read(d))]>>
<1> DEFINE phase == [d \in Number |-> PhaseOf(Read(d))]
<1>type. /\ \A d \in Number : Read(d) \in Status
         /\ Number = Ledger!Entry
  BY Zenon DEF TypeOK, Read, Status, Ended, Number, Ledger!Entry
<1>same. (\A d \in Number : Read(d)' = Read(d)) => phase' = phase
  BY Zenon
<1>one. ASSUME NEW d \in Number, \A e \in Number \ {d} : Read(e)' = Read(e)
        PROVE  phase' = [phase EXCEPT ![d] = PhaseOf(Read(d)')]
  BY <1>one, Zenon
<1>1. ASSUME last < MaxDeployments, last' = last + 1,
             NEW new \in {"queued", "applied"},
             \A d \in Number :
                    Read(d)' = IF d = last + 1 THEN new
                               ELSE IF Read(d) = "queued" THEN "superseded"
                               ELSE Read(d)
      PROVE  Ledger!Next
  <2>1. \A d \in Number :
          PhaseOf(Read(d)') = IF d = last + 1 THEN PhaseOf(new)
                              ELSE IF PhaseOf(Read(d)) = "waiting" THEN "superseded"
                              ELSE PhaseOf(Read(d))
    BY <1>1, <1>type, PhaseFacts DEF Ended
  <2>2. phase' = [d \in Number |-> IF d = last + 1 THEN PhaseOf(new)
                                   ELSE IF phase[d] = "waiting" THEN "superseded"
                                   ELSE phase[d]]
    BY <2>1, Zenon
  <2>3. Ledger!Admit(PhaseOf(new))
    BY <1>1, <2>2, <1>type, Zenon DEF Ledger!Admit
  <2>4. PhaseOf(new) \in {"waiting", "applied"}
    BY PhaseFacts, Zenon DEF Ended
  <2>. QED BY <2>3, <2>4, Zenon DEF Ledger!Next
<1>2. ASSUME last' = last, NEW d \in Number, Read(d) = "queued",
             \A e \in Number :
                    Read(e)' = IF e = d THEN "running"
                               ELSE IF Read(e) \in Claimed THEN "unknown"
                               ELSE Read(e)
      PROVE  Ledger!Next
  <2>1. \A e \in Number :
          PhaseOf(Read(e)') = IF e = d THEN "active"
                              ELSE IF PhaseOf(Read(e)) \in {"active", "stopping"}
                              THEN "unknown" ELSE PhaseOf(Read(e))
    BY <1>2, <1>type, PhaseFacts DEF Claimed, Ended
  <2>2. phase' = [e \in Number |-> IF e = d THEN "active"
                                   ELSE IF phase[e] \in {"active", "stopping"}
                                   THEN "unknown" ELSE phase[e]]
    BY <2>1, Zenon
  <2>3. phase[d] = "waiting"
    BY <1>2, PhaseFacts, Zenon
  <2>4. Ledger!Start(d)
    BY <1>2, <2>2, <2>3, <1>type, Zenon DEF Ledger!Start, Ledger!Working
  <2>. QED BY <2>4, <1>type, Zenon DEF Ledger!Next
<1>3. ASSUME last' = last, NEW d \in Number, Read(d) \in Claimed,
             Read(d)' \in After(Read(d)), \A e \in Number \ {d} : Read(e)' = Read(e)
      PROVE  Ledger!Next \/ (last' = last /\ phase' = phase)
  <2>1. CASE Read(d)' = Read(d)
    BY <1>3, <2>1, Zenon
  <2>2. CASE Read(d)' # Read(d)
    <3>1. /\ Read(d)' \in Ended
          /\ \/ Read(d) = "running" /\ Read(d)' \in {"applied", "failed", "unknown"}
             \/ Read(d) = "cancelling" /\ Read(d)' \in {"applied", "cancelled", "unknown"}
      BY <1>3, <2>2, Zenon DEF After, Claimed, Ended
    <3>2. PhaseOf(Read(d)') = Read(d)'
      BY <3>1, PhaseFacts, Zenon
    <3>3. \/ phase[d] = "active" /\ Read(d)' \in {"applied", "failed", "unknown"}
          \/ phase[d] = "stopping" /\ Read(d)' \in {"applied", "cancelled", "unknown"}
      BY <3>1, PhaseFacts, Zenon
    <3>4. phase' = [phase EXCEPT ![d] = Read(d)']
      BY <1>one, <1>3, <3>2, Zenon
    <3>5. Ledger!End(d, Read(d)')
      BY <1>3, <3>3, <3>4, Zenon DEF Ledger!End
    <3>. QED BY <3>1, <3>5, <1>type, Zenon DEF Ledger!Next, Ledger!Ends, Ended
  <2>. QED BY <2>1, <2>2, Zenon
<1>4. ASSUME last' = last, NEW d \in Number,
             \/ Read(d) = "queued" /\ Read(d)' = "cancelled"
             \/ Read(d) = "running" /\ Read(d)' = "cancelling",
             \A e \in Number \ {d} : Read(e)' = Read(e)
      PROVE  Ledger!Next
  <2>1. phase' = [phase EXCEPT ![d] = PhaseOf(Read(d)')]
    BY <1>one, <1>4, Zenon
  <2>2. \/ phase[d] = "waiting" /\ PhaseOf(Read(d)') = "cancelled"
        \/ phase[d] = "active" /\ PhaseOf(Read(d)') = "stopping"
    BY <1>4, PhaseFacts, Zenon DEF Ended
  <2>3. Ledger!Cancel(d)
    BY <1>4, <2>1, <2>2, Zenon DEF Ledger!Cancel
  <2>. QED BY <2>3, <1>type, Zenon DEF Ledger!Next
<1>5. ASSUME last' = last,
             \A d \in Number :
                    Read(d)' = IF Read(d) \in {"queued"} \cup Claimed
                               THEN "cancelled" ELSE Read(d)
      PROVE  Ledger!Next
  <2>1. \A d \in Number :
          PhaseOf(Read(d)') = IF PhaseOf(Read(d)) \in {"waiting", "active", "stopping"}
                              THEN "cancelled" ELSE PhaseOf(Read(d))
    BY <1>5, <1>type, PhaseFacts DEF Claimed, Ended
  <2>2. phase' = [d \in Number |-> IF phase[d] \in {"waiting", "active", "stopping"}
                                   THEN "cancelled" ELSE phase[d]]
    BY <2>1, Zenon
  <2>3. Ledger!CancelAll
    BY <1>5, <2>2, <1>type, Zenon DEF Ledger!CancelAll, Ledger!Working
  <2>. QED BY <2>3, Zenon DEF Ledger!Next
<1>. QED BY <1>1, <1>2, <1>3, <1>4, <1>5, <1>same, ReadStep, Zenon

\* For any Environment, runners and Lease, what the Store does to the statuses
\* is what the account allows: the initial states agree and every step of the
\* Store is a step of the account or leaves it alone.
THEOREM LedgerImplemented == Spec => ImplementsLedger
<1>1. Init => Ledger!Init
  BY PhaseFacts DEF Init, Ledger!Init, Ledger!Entry, Number, Read, Lapsed, Claimed
<1>. QED BY <1>1, LedgerStep, TypeCorrect, OrderHolds, PTL
           DEF Spec, ImplementsLedger, Ledger!Spec


-----------------------------------------------------------------------------
(* What evidence can say. *)

\* Outcome o of node n is one the Saved revision allows: Deployed when the
\* revision has the node, Removed when it lacks it.
Agrees(o, n, intent) ==
    /\ o = "deployed" => n \in Has(intent)
    /\ o = "removed" => n \notin Has(intent)

\* node_outcomes gives only such outcomes.
LEMMA OutcomesAgree ==
    ASSUME NEW nodes, NEW intent, NEW held, NEW ev, NEW n \in Node
    PROVE  Agrees(NodeOutcomesOf(nodes, intent, held, ev)[n], n, intent)
<1>1. CASE n \in Service
  BY <1>1, Zenon DEF NodeOutcomesOf, ServiceOutcome, Unset, Agrees
<1>2. CASE n \notin Service
  <2>1. KeptVolumeOutcome(n, nodes, intent, held, ev) # "removed"
    BY Zenon DEF KeptVolumeOutcome
  <2>2. RemovedVolumeOutcome(n, ev) # "deployed"
    BY Zenon DEF RemovedVolumeOutcome
  <2>. QED BY <1>2, <2>1, <2>2, Zenon DEF NodeOutcomesOf, Unset, Agrees
<1>. QED BY <1>1, <1>2, Zenon

\* So does what a preview settles.
LEMMA SettledAgrees ==
    ASSUME NEW nodes, NEW intent, NEW held, NEW planned, NEW confirmed, NEW n \in Node
    PROVE  Agrees(Settled(nodes, intent, held, planned, confirmed)[n], n, intent)
BY OutcomesAgree, Zenon DEF Settled, Unset, Agrees

\* A preview of which nothing is confirmed advances no node.
LEMMA NothingConfirmed ==
    ASSUME NEW nodes, NEW intent, NEW held, NEW planned, NEW n \in Node
    PROVE  ~Advances(Settled(nodes, intent, held, planned, {})[n])
<1> DEFINE ev == PlannedEvidence(planned, {})
<1>1. ev.confirmed = {} /\ ev.executed = FALSE
  BY Zenon DEF PlannedEvidence
<1> HIDE DEF ev
<1>2. \A s : ServiceOutcome(s, intent, ev) \notin {"deployed", "removed"}
  BY <1>1, Zenon DEF ServiceOutcome
<1>3. ~Advances(RemovedVolumeOutcome(n, ev))
  BY <1>1, Zenon DEF RemovedVolumeOutcome, Advances
<1>4. ~Advances(KeptVolumeOutcome(n, nodes, intent, held, ev))
  BY <1>1, <1>2, Zenon DEF KeptVolumeOutcome, Advances
<1>5. ~Advances(NodeOutcomesOf(nodes, intent, held, ev)[n])
  BY <1>2, <1>3, <1>4, Zenon DEF NodeOutcomesOf, Advances, Unset
<1>. QED BY <1>5, Zenon DEF Settled, Advances, Unset, ev

-----------------------------------------------------------------------------
(* What a record does to Node Outcomes. *)

\* A Deployment's outcomes agree with its Saved revision, nothing advances before
\* its Deploy Preview, and neither one that waits nor one not admitted has a run.
Grounded ==
    /\ \A d \in Number, n \in Node :
          /\ Agrees(run[d].nodes[n], n, SavedAt(saved[d]))
          /\ Advances(run[d].nodes[n]) => run[d].prepared
    /\ \A d \in Number : status[d] = "queued" => ~run[d].prepared
    /\ \A d \in Number : d > last => run[d].outcome = "none"

\* What the holder of d does to its Node Outcomes and to Applied State: it records
\* a Deploy Preview, or what it advances enters Applied State and stays advanced.
NodesStep(d) ==
    /\ \A n \in Node : Agrees(run'[d].nodes[n], n, SavedAt(saved[d]))
    /\ \A n \in Node : Advances(run'[d].nodes[n]) => run'[d].prepared
    /\ \A n \in Node : Advances(run[d].nodes[n]) => run'[d].nodes[n] = run[d].nodes[n]
    /\ \/ /\ UNCHANGED applied
          /\ \A n \in Node :
                Advances(run'[d].nodes[n]) => run'[d].nodes[n] = run[d].nodes[n]
       \/ applied' = Advanced(d, run'[d].nodes, status'[d] = "applied")

\* Ending a Deployment is such a step when its last Node Outcomes agree.
LEMMA FinishNodes ==
    ASSUME TypeOK, NEW d \in Number, NEW newRun \in RunType,
           NEW end \in {"applied", "failed"}, Finish(d, newRun, end), Read(d) \in Claimed,
           \A n \in Node : Agrees(newRun.nodes[n], n, SavedAt(saved[d])),
           \A n \in Node : Advances(newRun.nodes[n]) => newRun.prepared,
           \A n \in Node : Advances(run[d].nodes[n]) => newRun.nodes[n] = run[d].nodes[n]
    PROVE  NodesStep(d)
<1>1. status[d] \in Claimed
  BY Zenon DEF Read, Claimed
<1>2. run'[d] = newRun
  BY Zenon DEF Finish, TypeOK
<1>3. (status'[d] = "applied") <=> (end = "applied")
  BY <1>1, Zenon DEF Finish, TypeOK, Claimed
<1>4. applied' = Advanced(d, run'[d].nodes, status'[d] = "applied")
  BY <1>2, <1>3, Zenon DEF Finish, Advanced
<1>. QED BY <1>2, <1>4, Zenon DEF NodesStep

\* A runner either claims the queued Deployment or takes such a step.
LEMMA RunnerNodes ==
    ASSUME TypeOK, Grounded, NEW d \in Number, NEW r \in Runner, RunnerStep(d, r)
    PROVE  ClaimQueued(d, r) \/ NodesStep(d)
<1>run. run[d] \in RunType /\ run \in [Number -> RunType]
  BY Zenon DEF TypeOK, RunType
<1>nodes. run[d].nodes \in [Node -> NodeStatus \cup {Unset}]
  BY <1>run, Zenon DEF RunType
<1>grounded. \A n \in Node :
        /\ Agrees(run[d].nodes[n], n, SavedAt(saved[d]))
        /\ Advances(run[d].nodes[n]) => run[d].prepared
  BY Zenon DEF Grounded
<1>1. CASE UNCHANGED <<run, applied>>
  BY <1>1, <1>grounded, Zenon DEF NodesStep
<1>2. ASSUME NEW planned \in SUBSET Service, RecordPrepared(d, r, planned)
      PROVE  NodesStep(d)
  <2> DEFINE nodes == Settled(targets[d], SavedAt(saved[d]), AppliedState, planned, {})
  <2>1. /\ run'[d].nodes = nodes /\ run'[d].prepared /\ UNCHANGED applied
        /\ ~run[d].prepared
    BY <1>2, <1>run, Zenon DEF RecordPrepared, RunType
  <2>2. \A n \in Node : ~Advances(nodes[n]) /\ ~Advances(run[d].nodes[n])
    BY <1>grounded, <2>1, NothingConfirmed, Zenon
  <2>3. \A n \in Node : Agrees(nodes[n], n, SavedAt(saved[d]))
    BY <2>2, Zenon DEF Advances, Agrees
  <2> HIDE DEF nodes
  <2>. QED BY <2>1, <2>2, <2>3, Zenon DEF NodesStep
<1>3. ASSUME NEW services \in SUBSET Service, RecordConfirmed(d, r, services)
      PROVE  NodesStep(d)
  <2> DEFINE next == Settled(targets[d], SavedAt(saved[d]), AppliedState,
                             run[d].planned, services \cup ConfirmedServices(d))
             nodes == KeepAdvanced(run[d].nodes, next)
  <2>0. \A n \in Node : Agrees(next[n], n, SavedAt(saved[d]))
    BY SettledAgrees, Zenon
  <2> HIDE DEF next
  <2>1. /\ run' = [run EXCEPT ![d].nodes = nodes] /\ applied' = Advanced(d, nodes, FALSE)
        /\ UNCHANGED status /\ Read(d) \in Claimed /\ run[d].prepared
    BY <1>3, Zenon DEF RecordConfirmed, Holds, next
  <2>2. /\ \A n \in Node : Agrees(nodes[n], n, SavedAt(saved[d]))
        /\ \A n \in Node : Advances(run[d].nodes[n]) => nodes[n] = run[d].nodes[n]
    BY <1>grounded, <2>0, Zenon DEF KeepAdvanced
  <2> HIDE DEF nodes
  <2>3. run'[d].nodes = nodes /\ run'[d].prepared
    BY <1>run, <2>1, Zenon DEF RunType
  <2>4. (status'[d] = "applied") = FALSE
    BY <2>1, Zenon DEF Read, Claimed
  <2>5. applied' = Advanced(d, run'[d].nodes, status'[d] = "applied")
    BY <2>1, <2>3, <2>4, Zenon DEF Advanced
  <2>. QED BY <2>2, <2>3, <2>5, Zenon DEF NodesStep
<1>4. ASSUME NEW ev, RecordExecuted(d, r, ev)
      PROVE  NodesStep(d)
  <2> DEFINE next == NodeOutcomesOf(targets[d], SavedAt(saved[d]), AppliedState, ev)
             nodes == KeepAdvanced(run[d].nodes, next)
             new == [run[d] EXCEPT !.nodes = nodes, !.outcome = "executed"]
  <2>0. \A n \in Node : Agrees(next[n], n, SavedAt(saved[d]))
    BY OutcomesAgree, Zenon
  <2>t. nodes \in [Node -> NodeStatus \cup {Unset}]
    BY <1>nodes, NodeOutcomesType, KeepAdvancedType, Zenon
  <2>1. PICK end \in {"applied", "failed"} : Finish(d, new, end)
    BY <1>4, Zenon DEF RecordExecuted
  <2>2. Read(d) \in Claimed /\ run[d].prepared
    BY <1>4, Zenon DEF RecordExecuted, Holds
  <2> HIDE DEF next
  <2>3. /\ \A n \in Node : Agrees(nodes[n], n, SavedAt(saved[d]))
        /\ \A n \in Node : Advances(run[d].nodes[n]) => nodes[n] = run[d].nodes[n]
    BY <1>grounded, <2>0, Zenon DEF KeepAdvanced
  <2> HIDE DEF nodes
  <2>4. new \in RunType /\ new.nodes = nodes /\ new.prepared
    BY <1>run, <2>t, <2>2, Zenon DEF RunType, Outcome
  <2> HIDE DEF new
  <2>. QED BY <2>1, <2>2, <2>3, <2>4, FinishNodes, Zenon
<1>5. ASSUME Read(d) \in Claimed,
             Finish(d, [run[d] EXCEPT !.outcome = "not_executed"], "failed")
      PROVE  NodesStep(d)
  <2> DEFINE new == [run[d] EXCEPT !.outcome = "not_executed"]
  <2>1. new \in RunType /\ new.nodes = run[d].nodes /\ new.prepared = run[d].prepared
    BY <1>run, Zenon DEF RunType, Outcome
  <2>2. Finish(d, new, "failed")
    BY <1>5, Zenon
  <2> HIDE DEF new
  <2>. QED BY <1>5, <1>grounded, <2>1, <2>2, FinishNodes, Zenon
<1>6. CASE ClaimAgain(d, r) \/ ClaimLost(d, r) \/ RecordAlive(d, r)
  BY <1>1, <1>6, Zenon DEF ClaimAgain, ClaimLost, RecordAlive
<1>7. CASE RecordNotExecuted(d, r)
  BY <1>5, <1>7, Zenon DEF RecordNotExecuted, Holds
<1>8. CASE RecordAbandoned(d, r)
  BY <1>1, <1>5, <1>8, Zenon DEF RecordAbandoned, Holds
<1>. QED BY <1>2, <1>3, <1>4, <1>6, <1>7, <1>8, Zenon DEF RunnerStep

\* Every step of the system in outline, with what it does to Node Outcomes.
LEMMA EvidenceOutline ==
    ASSUME TypeOK, Grounded, [Next]_vars
    PROVE  \/ \E new \in {"queued", "applied"} : AdmitStep(new)
           \/ \E d \in Number, r \in Runner : ClaimQueued(d, r)
           \/ \E d \in Number : HeldStep(d) /\ NodesStep(d)
           \/ \E d \in Number : Cancel(d)
           \/ ForgetCluster
           \/ Tick
           \/ UNCHANGED vars
BY EnvironsOutline, RunnerOutline, RunnerNodes, Zenon DEF Next

\* An admission leaves what earlier Deployments ship as it was.
LEMMA AdmitKeepsSaved ==
    ASSUME TypeOK, NEW new, AdmitStep(new), NEW d \in Number, d # last + 1
    PROVE  SavedAt(saved[d])' = SavedAt(saved[d])
<1>1. saved'[d] = saved[d] /\ saved[d] \in 0..Len(revisions) /\ Len(revisions) \in Nat
  BY DEF AdmitStep, TypeOK
<1>. QED BY <1>1 DEF AdmitStep, SavedAt

-----------------------------------------------------------------------------
(* The steps keep the evidence grounded. *)

\* Every step keeps outcomes in agreement with what their Deployment ships.
LEMMA GroundedStep == TypeOK /\ Order /\ Grounded /\ [Next]_vars => Grounded'
<1>. SUFFICES ASSUME TypeOK, Order, Grounded, [Next]_vars PROVE Grounded'
  BY Zenon
<1>type. /\ last \in Nat /\ Number \subseteq Nat
         /\ status \in [Number -> Status] /\ run \in [Number -> RunType]
  BY NumbersNatural, Zenon DEF TypeOK, RunType
<1>1. ASSUME NEW new \in {"queued", "applied"}, AdmitStep(new)
      PROVE  Grounded'
  <2>1. \A d \in Number \ {last + 1} :
          run'[d] = run[d] /\ SavedAt(saved[d])' = SavedAt(saved[d])
    BY <1>1, AdmitKeepsSaved, Zenon DEF AdmitStep
  <2>2. \A n \in Node : run'[last + 1].nodes[n] \in {Unset, "unknown"}
    BY <1>1 DEF AdmitStep, NewRun
  <2>3. \A d \in Number, n \in Node :
          /\ Agrees(run'[d].nodes[n], n, SavedAt(saved[d])')
          /\ Advances(run'[d].nodes[n]) => run'[d].prepared
    <3>. TAKE d \in Number, n \in Node
    <3>1. CASE d = last + 1
      BY <2>2, <3>1, Zenon DEF Agrees, Advances, Unset
    <3>2. CASE d # last + 1
      BY <2>1, <3>2, Zenon DEF Grounded
    <3>. QED BY <3>1, <3>2, Zenon
  <2>4. \A d \in Number : status'[d] = "queued" => ~run'[d].prepared
    BY <1>1 DEF AdmitStep, Superseding, NewRun
  <2>5. \A d \in Number : d > last' => run'[d].outcome = "none"
    BY <1>1, <1>type, <2>1 DEF AdmitStep, Grounded
  <2>. QED BY <2>3, <2>4, <2>5, Zenon DEF Grounded
<1>2. ASSUME NEW d \in Number, NEW r \in Runner, ClaimQueued(d, r)
      PROVE  Grounded'
  <2>1. UNCHANGED <<last, revisions, saved, run>>
    BY <1>2, Zenon DEF ClaimQueued, frozen
  <2>2. \A e \in Number : status'[e] = "queued" => status[e] = "queued"
    BY <1>2, Zenon DEF ClaimQueued
  <2>. QED BY <2>1, <2>2, Zenon DEF Grounded, SavedAt
<1>3. ASSUME NEW d \in Number, HeldStep(d), NodesStep(d)
      PROVE  Grounded'
  <2>1. UNCHANGED <<last, revisions, saved>> /\ status[d] \in Claimed
    BY <1>3, Zenon DEF HeldStep, Read, Claimed
  <2>2. \A e \in Number \ {d} : run'[e] = run[e] /\ status'[e] = status[e]
    BY <1>3, <1>type, Zenon DEF HeldStep
  <2>3. status'[d] # "queued" /\ ~(d > last)
    BY <1>3, <1>type, <2>1, Zenon DEF HeldStep, After, Claimed, Order
  <2>4. \A e : SavedAt(saved[e])' = SavedAt(saved[e])
    BY <2>1, Zenon DEF SavedAt
  <2>5. \A e \in Number, n \in Node :
          /\ Agrees(run'[e].nodes[n], n, SavedAt(saved[e]))
          /\ Advances(run'[e].nodes[n]) => run'[e].prepared
    BY <1>3, <2>2, Zenon DEF NodesStep, Grounded
  <2>. QED BY <2>1, <2>2, <2>3, <2>4, <2>5, Zenon DEF Grounded
<1>4. ASSUME NEW d \in Number, Cancel(d)
      PROVE  Grounded'
  <2>1. UNCHANGED <<last, revisions, saved, run>>
    BY <1>4, Zenon DEF Cancel, frozen
  <2>2. \A e \in Number : status'[e] = "queued" => status[e] = "queued"
    BY <1>4, <1>type, Zenon DEF Cancel
  <2>. QED BY <2>1, <2>2, Zenon DEF Grounded, SavedAt
<1>5. CASE ForgetCluster
  <2>1. UNCHANGED <<last, revisions, saved, run>>
    BY <1>5, Zenon DEF ForgetCluster, frozen
  <2>2. \A e \in Number : status'[e] = "queued" => status[e] = "queued"
    BY <1>5, Zenon DEF ForgetCluster
  <2>. QED BY <2>1, <2>2, Zenon DEF Grounded, SavedAt
<1>6. CASE Tick
  BY <1>6, Zenon DEF Tick, frozen, Grounded, SavedAt
<1>7. CASE UNCHANGED vars
  BY <1>7, Zenon DEF vars, frozen, Grounded, SavedAt
<1>. QED BY <1>1, <1>2, <1>3, <1>4, <1>5, <1>6, <1>7, EvidenceOutline, Zenon

\* They agree in every reachable state.
LEMMA GroundedHolds == Spec => []Grounded
<1>1. Init => Grounded
  BY DEF Init, Grounded, NewRun, Agrees, Advances, Unset
<1>. QED BY <1>1, GroundedStep, TypeCorrect, OrderHolds, PTL DEF Spec

-----------------------------------------------------------------------------
(* Every row has its evidence. *)

\* Row w of node n is backed by run u and status st of the Deployment that wrote
\* it, which targets ts and ships intent.
Backed(w, n, u, st, ts, intent) ==
    /\ n \in ts
    /\ u.nodes[n] = "deployed" \/ (u.nodes[n] = "unchanged" /\ st = "applied")
    /\ w.value = intent[n]

\* A row's writer is a Deployment that was admitted.
LEMMA Writer ==
    ASSUME TypeOK, Order, NEW n \in Node, applied[n].by # 0
    PROVE  applied[n].by \in Number /\ applied[n].by <= last
<1>1. applied[n].by \in 0..MaxDeployments /\ MaxDeployments \in Nat
  BY DeploymentAssumption, Zenon DEF TypeOK
<1>2. applied[n].by \in Number
  BY <1>1 DEF Number
<1>3. ~(applied[n].by > last)
  BY <1>2, Zenon DEF Order
<1>4. applied[n].by \in Nat /\ last \in Nat
  BY <1>1, NumbersNatural
<1>. QED BY <1>2, <1>3, <1>4

\* Every step leaves every row backed: the holder writes what its outcomes
\* confirm, and nobody takes back an outcome that a row rests on.
LEMMA EvidenceStep ==
    TypeOK /\ TypeOK' /\ Order /\ Order' /\ Grounded /\ AppliedHasEvidence /\ [Next]_vars
        => AppliedHasEvidence'
<1>. SUFFICES ASSUME TypeOK, Order, Order', Grounded, AppliedHasEvidence, [Next]_vars,
                     NEW n \in Node, NEW d \in Number, applied'[n].by = d
              PROVE  Backed(applied'[n], n, run'[d], status'[d], targets'[d],
                            SavedAt(saved[d])')
  <2>. SUFFICES ASSUME TypeOK', Order', NEW n \in Node, applied'[n].by # 0,
                       \A d \in Number : applied'[n].by = d =>
                          Backed(applied'[n], n, run'[d], status'[d], targets'[d],
                                 SavedAt(saved[d])')
                PROVE  /\ started'[applied'[n].by]
                       /\ Backed(applied'[n], n, run'[applied'[n].by],
                                 status'[applied'[n].by], targets'[applied'[n].by],
                                 (SavedAt(saved[applied[n].by]))')
    BY Zenon DEF AppliedHasEvidence, Backed
  <2>1. applied'[n].by \in Number
    <3>1. applied'[n].by \in 0..MaxDeployments /\ MaxDeployments \in Nat
      BY DeploymentAssumption, Zenon DEF TypeOK
    <3>. QED BY <3>1 DEF Number
  <2>2. PICK d \in Number : applied'[n].by = d
    BY <2>1, Zenon
  <2>3. (SavedAt(saved[applied[n].by]))' = SavedAt(saved[d])'
    BY <2>2, Zenon DEF SavedAt
  <2>. QED BY <2>2, <2>3, Zenon DEF Order
<1>type. /\ last \in Nat /\ Number \subseteq Nat
         /\ status \in [Number -> Status] /\ run \in [Number -> RunType]
  BY NumbersNatural, Zenon DEF TypeOK, RunType
<1>nonzero. d # 0
  BY DEF Number
<1>old. ASSUME applied'[n] = applied[n]
        PROVE  /\ Backed(applied[n], n, run[d], status[d], targets[d], SavedAt(saved[d]))
               /\ d <= last
  BY <1>old, <1>nonzero, Writer DEF AppliedHasEvidence, Backed
<1>kept. ASSUME applied'[n] = applied[n], UNCHANGED <<revisions, saved, targets, run>>,
                status[d] = "applied" => status'[d] = "applied"
         PROVE  Backed(applied'[n], n, run'[d], status'[d], targets'[d],
                       SavedAt(saved[d])')
  BY <1>kept, <1>old, Zenon DEF Backed, SavedAt
<1>1. ASSUME NEW new \in {"queued", "applied"}, AdmitStep(new)
      PROVE  Backed(applied'[n], n, run'[d], status'[d], targets'[d],
                    SavedAt(saved[d])')
  <2>1. applied' = applied
    BY <1>1, <1>nonzero DEF AdmitStep, NoRow
  <2>2. d # last + 1
    BY <1>type, <1>old, <2>1
  <2>3. SavedAt(saved[d])' = SavedAt(saved[d])
    BY <1>1, <2>2, AdmitKeepsSaved, Zenon
  <2>4. /\ run'[d] = run[d] /\ targets'[d] = targets[d]
        /\ status[d] = "applied" => status'[d] = "applied"
    BY <1>1, <2>2, Zenon DEF AdmitStep, Superseding
  <2>. QED BY <1>old, <2>1, <2>3, <2>4, Zenon DEF Backed
<1>2. ASSUME NEW c \in Number, NEW r \in Runner, ClaimQueued(c, r)
      PROVE  Backed(applied'[n], n, run'[d], status'[d], targets'[d],
                    SavedAt(saved[d])')
  BY <1>2, <1>kept, Zenon DEF ClaimQueued, frozen, Claimed
<1>3. ASSUME NEW c \in Number, HeldStep(c), NodesStep(c)
      PROVE  Backed(applied'[n], n, run'[d], status'[d], targets'[d],
                    SavedAt(saved[d])')
  <2>1. UNCHANGED <<revisions, saved, targets>> /\ status[c] \in Claimed
    BY <1>3, Zenon DEF HeldStep, Read, Claimed
  <2>2. \A e \in Number \ {c} : run'[e] = run[e] /\ status'[e] = status[e]
    BY <1>3, <1>type, Zenon DEF HeldStep
  <2>s. SavedAt(saved[d])' = SavedAt(saved[d])
    BY <2>1, Zenon DEF SavedAt
  <2>3. CASE applied'[n] = applied[n]
    <3>1. CASE d # c
      BY <1>old, <2>1, <2>2, <2>s, <2>3, <3>1, Zenon DEF Backed
    <3>2. CASE d = c
      <4>1. run[d].nodes[n] = "deployed"
        BY <1>old, <2>1, <2>3, <3>2, Zenon DEF Backed, Claimed
      <4>2. run'[d].nodes[n] = "deployed"
        BY <1>3, <3>2, <4>1, Zenon DEF NodesStep, Advances
      <4>. QED BY <1>old, <2>1, <2>s, <2>3, <4>2, Zenon DEF Backed
    <3>. QED BY <3>1, <3>2, Zenon
  <2>4. CASE applied'[n] # applied[n]
    <3> DEFINE intent == SavedAt(saved[c])
    <3>1. applied' = Advanced(c, run'[c].nodes, status'[c] = "applied")
      BY <1>3, <2>4, Zenon DEF NodesStep
    <3>2. /\ n \in targets[c]
          /\ \/ Advances(run'[c].nodes[n])
             \/ status'[c] = "applied" /\ run'[c].nodes[n] = "unchanged"
          /\ n \in Has(intent) /\ applied'[n] = [by |-> c, value |-> intent[n]]
      BY <1>nonzero, <2>4, <3>1, Zenon DEF Advanced, NoRow
    <3>3. run'[c].nodes[n] # "removed"
      BY <1>3, <3>2, Zenon DEF NodesStep, Agrees
    <3>4. c = d
      BY <3>2
    <3>. QED BY <2>1, <2>s, <3>2, <3>3, <3>4 DEF Backed, Advances
  <2>. QED BY <2>3, <2>4, Zenon
<1>4. ASSUME NEW c \in Number, Cancel(c)
      PROVE  Backed(applied'[n], n, run'[d], status'[d], targets'[d],
                    SavedAt(saved[d])')
  <2>1. status[d] = "applied" => status'[d] = "applied"
    BY <1>4, <1>type, Zenon DEF Cancel, Read, Lapsed, Claimed
  <2>. QED BY <1>4, <1>kept, <2>1, Zenon DEF Cancel, frozen
<1>5. CASE ForgetCluster
  BY <1>5, <1>nonzero, Zenon DEF ForgetCluster, NoRow
<1>6. CASE Tick
  BY <1>6, <1>kept, Zenon DEF Tick, frozen
<1>7. CASE UNCHANGED vars
  BY <1>7, <1>kept, Zenon DEF vars, frozen
<1>. QED BY <1>1, <1>2, <1>3, <1>4, <1>5, <1>6, <1>7, EvidenceOutline, Zenon

\* In every reachable state each row of Applied State is backed by the Node
\* Outcome its Deployment keeps and holds what its Saved revision says: no
\* record, takeover, cancellation or retry leaves a row nobody confirmed.
THEOREM AppliedHasEvidenceHolds == Spec => []AppliedHasEvidence
<1>1. Init => AppliedHasEvidence
  BY DEF Init, AppliedHasEvidence, NoRow
<1>. QED BY <1>1, EvidenceStep, GroundedHolds, TypeCorrect, OrderHolds, PTL DEF Spec

-----------------------------------------------------------------------------
(* What a runner confirmed is applied at once. *)

\* A later removal forgot the Environment.
ForgottenAfter(d) ==
    \E e \in Number : e > d /\ run[e].outcome \in {"never_ran", "forgotten"}

\* Row w of node n shows what d's outcome o says.
Shows(o, w, d) ==
    /\ o = "deployed" => w.by = d
    /\ o = "removed" => w = NoRow

\* Every step leaves what a held Deployment confirmed in Applied State: its
\* holder writes both at once, and there is no second holder.
LEMMA ConfirmedStep ==
    TypeOK /\ TypeOK' /\ Order /\ Grounded /\ ConfirmedIsApplied /\ [Next]_vars
        => ConfirmedIsApplied'
<1>. SUFFICES ASSUME TypeOK, Order, Grounded, ConfirmedIsApplied, [Next]_vars,
                     NEW d \in Number, Read(d)' \in Claimed, ~ForgottenAfter(d)',
                     NEW n \in Node, n \in targets'[d]
              PROVE  Shows(run'[d].nodes[n], applied'[n], d)
  <2>1. TypeOK' => \A d \in Number : targets'[d] \subseteq Node
    BY Zenon DEF TypeOK
  <2>. QED BY <2>1, Zenon DEF ConfirmedIsApplied, ForgottenAfter, Shows
<1>type. /\ last \in Nat /\ Number \subseteq Nat
         /\ status \in [Number -> Status] /\ run \in [Number -> RunType]
         /\ lease \in [Number -> Nat] /\ now \in Nat
  BY NumbersNatural, Zenon DEF TypeOK, RunType
<1>claimed. status'[d] \in Claimed /\ ~(lease'[d] <= now')
  BY Zenon DEF Read, Lapsed, Claimed
<1>old. ASSUME Read(d) \in Claimed, ~ForgottenAfter(d), n \in targets[d]
        PROVE  Shows(run[d].nodes[n], applied[n], d)
  BY <1>old, Zenon DEF ConfirmedIsApplied, ForgottenAfter, Shows
<1>1. ASSUME NEW new \in {"queued", "applied"}, AdmitStep(new)
      PROVE  Shows(run'[d].nodes[n], applied'[n], d)
  <2>1. d # last + 1 /\ status'[d] = status[d] /\ status[d] \in Claimed
    BY <1>1, <1>claimed, Zenon DEF AdmitStep, Superseding, Claimed
  <2>2. Read(d) \in Claimed
    BY <1>1, <1>claimed, <2>1, Zenon DEF AdmitStep, Read, Lapsed
  <2>3. d <= last
    BY <1>type, <2>1 DEF Order, Claimed
  <2>4. new # "applied"
    <3>1. last + 1 \in Number /\ last + 1 > d
      BY <1>1, <1>type, <2>3 DEF AdmitStep
    <3>. QED BY <1>1, <3>1, Zenon DEF AdmitStep, ForgottenAfter
  <2>5. ~ForgottenAfter(d)
    <3>1. run[last + 1].outcome = "none"
      BY <1>1, <1>type DEF AdmitStep, Grounded
    <3>. QED BY <1>1, <3>1, Zenon DEF AdmitStep, ForgottenAfter
  <2>. QED BY <1>1, <1>old, <2>1, <2>2, <2>4, <2>5, Zenon DEF AdmitStep
<1>kept. ASSUME Read(d) \in Claimed, UNCHANGED <<targets, run, applied>>
         PROVE  Shows(run'[d].nodes[n], applied'[n], d)
  BY <1>kept, <1>old, Zenon DEF ForgottenAfter
<1>2. ASSUME NEW c \in Number, NEW r \in Runner, ClaimQueued(c, r)
      PROVE  Shows(run'[d].nodes[n], applied'[n], d)
  <2>1. d = c
    BY <1>2, <1>claimed, Zenon DEF ClaimQueued, Claimed
  <2>2. run'[d] = run[d] /\ ~run[d].prepared
    BY <1>2, <2>1, Zenon DEF ClaimQueued, Grounded
  <2>. QED BY <2>2, Zenon DEF Grounded, Advances, Shows
<1>3. ASSUME NEW c \in Number, HeldStep(c), NodesStep(c)
      PROVE  Shows(run'[d].nodes[n], applied'[n], d)
  <2>1. /\ UNCHANGED <<revisions, saved, targets, started, now>>
        /\ Read(c) \in Claimed /\ status[c] \in Claimed
    BY <1>3, Zenon DEF HeldStep, Read, Claimed
  <2>2. \A e \in Number \ {c} : /\ run'[e] = run[e] /\ status'[e] = status[e]
                                /\ lease'[e] = lease[e]
    BY <1>3, <1>type, Zenon DEF HeldStep
  <2>3. d = c
    <3>1. d # c => status[d] \in Claimed
      BY <1>claimed, <2>2, Zenon
    <3>2. started[c] /\ (d # c => started[d])
      BY <2>1, <3>1, Zenon DEF Order
    <3>3. d # c => c <= d /\ d <= c
      BY <2>1, <3>1, <3>2, Zenon DEF Order
    <3>. QED BY <1>type, <3>3
  <2>4. ~ForgottenAfter(d)
    BY <1>type, <2>2, <2>3 DEF ForgottenAfter
  <2>5. Shows(run[d].nodes[n], applied[n], d)
    BY <1>old, <2>1, <2>3, <2>4, Zenon
  <2>6. CASE /\ UNCHANGED applied
             /\ Advances(run'[d].nodes[n]) => run'[d].nodes[n] = run[d].nodes[n]
    BY <2>5, <2>6, Zenon DEF Shows, Advances
  <2>7. CASE applied' = Advanced(d, run'[d].nodes, status'[d] = "applied")
    <3>1. Agrees(run'[d].nodes[n], n, SavedAt(saved[d]))
      BY <1>3, <2>3, Zenon DEF NodesStep
    <3>2. n \in targets[d]
      BY <2>1, Zenon
    <3>. QED BY <2>7, <3>1, <3>2, Zenon DEF Advanced, Agrees, Shows, Advances
  <2>. QED BY <1>3, <2>3, <2>6, <2>7, Zenon DEF NodesStep
<1>4. ASSUME NEW c \in Number, Cancel(c)
      PROVE  Shows(run'[d].nodes[n], applied'[n], d)
  <2>1. Read(d) \in Claimed
    BY <1>4, <1>type, <1>claimed, Zenon DEF Cancel, claims, Read, Lapsed, Claimed
  <2>. QED BY <1>4, <1>kept, <2>1, Zenon DEF Cancel, frozen
<1>5. CASE ForgetCluster
  BY <1>5, <1>type, <1>claimed DEF ForgetCluster, InFlight, claims, Claimed
<1>6. CASE Tick
  <2>1. Read(d) \in Claimed
    BY <1>6, <1>type, <1>claimed DEF Tick, claims, Read, Lapsed, Claimed
  <2>. QED BY <1>6, <1>kept, <2>1, Zenon DEF Tick, frozen
<1>7. CASE UNCHANGED vars
  <2>1. Read(d) \in Claimed
    BY <1>7, <1>claimed, Zenon DEF vars, claims, Read, Lapsed
  <2>. QED BY <1>7, <1>kept, <2>1, Zenon DEF vars, frozen
<1>. QED BY <1>1, <1>2, <1>3, <1>4, <1>5, <1>6, <1>7, EvidenceOutline, Zenon

\* In every reachable state the nodes a held Deployment shows as Deployed or
\* Removed are already so in Applied State: `record` writes both in one
\* transaction, so a runner that dies takes none of it along.
THEOREM ConfirmedIsAppliedHolds == Spec => []ConfirmedIsApplied
<1>1. Init => ConfirmedIsApplied
  BY Zenon DEF Init, ConfirmedIsApplied, Read, Lapsed, Claimed
<1>. QED BY <1>1, ConfirmedStep, GroundedHolds, TypeCorrect, OrderHolds, PTL DEF Spec

-----------------------------------------------------------------------------
(* Applied ships all. *)

\* Applied State has no empty row.
NoEmptyRow == \A n \in Node : applied[n].value = Absent => applied[n] = NoRow

\* `advance` drops a row instead of emptying it, so every step keeps it so.
LEMMA NoEmptyRowStep == TypeOK /\ NoEmptyRow /\ [Next]_vars => NoEmptyRow'
<1>. SUFFICES ASSUME TypeOK, NoEmptyRow, [Next]_vars PROVE NoEmptyRow'
  BY Zenon
<1>1. CASE UNCHANGED applied
  BY <1>1, Zenon DEF NoEmptyRow
<1>2. CASE applied' = [n \in Node |-> NoRow]
  BY <1>2, Zenon DEF NoEmptyRow
<1>3. ASSUME NEW d \in Number, HeldStep(d)
      PROVE  NoEmptyRow'
  <2>1. CASE applied' = Advanced(d, run'[d].nodes, status'[d] = "applied")
    BY <2>1, Zenon DEF Advanced, Has, NoEmptyRow
  <2>. QED BY <1>1, <1>3, <2>1, Zenon DEF HeldStep
<1>. QED BY <1>1, <1>2, <1>3, StepOutline, Zenon
         DEF AdmitStep, ClaimQueued, Cancel, ForgetCluster, Tick, vars

\* Applied State never has one.
LEMMA NoEmptyRowHolds == Spec => []NoEmptyRow
<1>1. Init => NoEmptyRow
  BY Zenon DEF Init, NoEmptyRow
<1>. QED BY <1>1, NoEmptyRowStep, TypeCorrect, PTL DEF Spec

\* A success leaves no target undecided but a new Volume that nobody mounts.
LEMMA SuccessOutcome ==
    ASSUME NEW nodes, NEW intent, NEW held, NEW planned, NEW removed,
           NEW ev \in ExecutedEvidence(planned, removed), ev.success,
           NEW n \in Node, n \in nodes
    PROVE  \/ NodeOutcomesOf(nodes, intent, held, ev)[n]
                  \in {"deployed", "removed", "unchanged", "failed"}
           \/ n \in Volume /\ Mounting(n, nodes, intent) = {} /\ held[n] = Absent
<1>1. /\ ev.confirmed = ev.planned /\ ev.failed = {} /\ ev.executed
  BY Zenon DEF ExecutedEvidence
<1>2. \A s : ServiceOutcome(s, intent, ev) \in {"deployed", "removed", "unchanged"}
  BY <1>1, Zenon DEF ServiceOutcome
<1>3. RemovedVolumeOutcome(n, ev) \in {"removed", "failed"}
  BY <1>1, Zenon DEF RemovedVolumeOutcome
<1>4. \/ KeptVolumeOutcome(n, nodes, intent, held, ev) \in {"deployed", "unchanged"}
      \/ Mounting(n, nodes, intent) = {} /\ held[n] = Absent
  <2> DEFINE M == Mounting(n, nodes, intent)
             mounting == {ServiceOutcome(s, intent, ev) : s \in M}
  <2>1. mounting \subseteq {"deployed", "removed", "unchanged"}
    BY <1>2, Zenon
  <2>2. mounting = {} => M = {}
    BY Zenon
  <2>3. KeptVolumeOutcome(n, nodes, intent, held, ev) =
          IF "deployed" \in mounting /\ ~(held[n] = intent[n]) THEN "deployed"
          ELSE IF "failed" \in mounting THEN "failed"
          ELSE IF "not_attempted" \in mounting THEN "not_attempted"
          ELSE IF "pending" \in mounting THEN "pending"
          ELSE IF held[n] = intent[n] THEN "unchanged"
          ELSE IF mounting = {} /\ ~(held[n] # Absent) THEN "not_attempted"
          ELSE IF ~ev.executed /\ "deployed" \notin mounting THEN "pending"
          ELSE IF mounting = {} /\ ~ev.success THEN "not_attempted"
          ELSE "deployed"
    BY Zenon DEF KeptVolumeOutcome
  <2> HIDE DEF mounting, M
  <2>4. \/ KeptVolumeOutcome(n, nodes, intent, held, ev) \in {"deployed", "unchanged"}
        \/ mounting = {} /\ held[n] = Absent
    BY <1>1, <2>1, <2>3, Zenon
  <2>. QED BY <2>2, <2>4, Zenon DEF M
<1>5. CASE n \in Service
  BY <1>2, <1>5, Zenon DEF NodeOutcomesOf
<1>6. CASE n \notin Service
  BY <1>3, <1>4, <1>6, Zenon DEF NodeOutcomesOf, Node
<1>. QED BY <1>5, <1>6, Zenon

\* What a runner that ends d as applied leaves of node n.
Shipped(d, n) ==
    \/ applied'[n].value = SavedAt(saved[d])[n]
    \/ /\ n \in Volume /\ Mounting(n, targets[d], SavedAt(saved[d])) = {}
       /\ applied[n] = NoRow /\ applied'[n] = NoRow

\* So keeps a Deployment's last Node Outcomes, when none of them is failed.
LEMMA SuccessKept ==
    ASSUME NEW prior, NEW nodes, NEW intent, NEW held, NEW planned, NEW removed,
           NEW ev \in ExecutedEvidence(planned, removed), ev.success,
           NEW n \in Node, n \in nodes,
           KeepAdvanced(prior, NodeOutcomesOf(nodes, intent, held, ev))[n] # "failed"
    PROVE  LET o == KeepAdvanced(prior, NodeOutcomesOf(nodes, intent, held, ev))[n] IN
             \/ Advances(o) \/ o = "unchanged"
             \/ n \in Volume /\ Mounting(n, nodes, intent) = {} /\ held[n] = Absent
<1> DEFINE next == NodeOutcomesOf(nodes, intent, held, ev)
<1>1. \/ next[n] \in {"deployed", "removed", "unchanged", "failed"}
      \/ n \in Volume /\ Mounting(n, nodes, intent) = {} /\ held[n] = Absent
  BY SuccessOutcome, Zenon
<1> HIDE DEF next
<1>2. KeepAdvanced(prior, next)[n] = IF Advances(prior[n]) THEN prior[n] ELSE next[n]
  BY Zenon DEF KeepAdvanced
<1>. QED BY <1>1, <1>2, Zenon DEF Advances, next

\* The value of a row, and of none.
LEMMA RowValue ==
    /\ \A d, x : [by |-> d, value |-> x].value = x
    /\ NoRow.value = Absent
BY Zenon DEF NoRow

\* `advance` ships what is so decided.
LEMMA AdvancedShips ==
    ASSUME TypeOK, NoEmptyRow, NEW d \in Number, NEW nodes, NEW n \in targets[d],
           applied' = Advanced(d, nodes, TRUE),
           \/ Advances(nodes[n]) \/ nodes[n] = "unchanged"
           \/ /\ n \in Volume /\ Mounting(n, targets[d], SavedAt(saved[d])) = {}
              /\ AppliedState[n] = Absent
    PROVE  Shipped(d, n)
<1> DEFINE intent == SavedAt(saved[d])
<1>type. n \in Node
  BY Zenon DEF TypeOK
<1> HIDE DEF intent
<1>1. CASE Advances(nodes[n]) \/ nodes[n] = "unchanged"
  <2>1. applied'[n] = IF n \in Has(intent) THEN [by |-> d, value |-> intent[n]] ELSE NoRow
    BY <1>type, <1>1, Zenon DEF Advanced, intent
  <2>2. applied'[n].value = intent[n]
    <3>1. CASE n \in Has(intent)
      <4>1. applied'[n] = [by |-> d, value |-> intent[n]]
        BY <2>1, <3>1, Zenon
      <4>2. [by |-> d, value |-> intent[n]].value = intent[n]
        BY RowValue, Zenon
      <4>. QED BY <4>1, <4>2, Zenon
    <3>2. CASE n \notin Has(intent)
      <4>1. applied'[n] = NoRow /\ intent[n] = Absent
        BY <1>type, <2>1, <3>2, Zenon DEF Has
      <4>. QED BY <4>1, RowValue, Zenon
    <3>. QED BY <3>1, <3>2, Zenon
  <2>. QED BY <2>2, Zenon DEF Shipped, intent
<1>2. CASE ~(Advances(nodes[n]) \/ nodes[n] = "unchanged")
  <2>1. applied'[n] = applied[n]
    BY <1>type, <1>2, Zenon DEF Advanced
  <2>2. applied[n] = NoRow
    BY <1>type, <1>2, Zenon DEF AppliedState, NoEmptyRow
  <2>. QED BY <1>2, <2>1, <2>2, Zenon DEF Shipped
<1>. QED BY <1>1, <1>2, Zenon

\* Executing everything ships every target.
LEMMA ExecutedShips ==
    ASSUME TypeOK, NoEmptyRow, NEW d \in Number, NEW r \in Runner,
           NEW ev \in ExecutedEvidence(run[d].planned, DeletedVolumes(d)),
           RecordExecuted(d, r, ev), status'[d] = "applied", NEW n \in targets[d]
    PROVE  Shipped(d, n)
<1> DEFINE nodes == KeepAdvanced(run[d].nodes,
                      NodeOutcomesOf(targets[d], SavedAt(saved[d]), AppliedState, ev))
           clean == \A m \in Node : nodes[m] # "failed"
           end == IF ev.success /\ clean THEN "applied" ELSE "failed"
           new == [run[d] EXCEPT !.nodes = nodes, !.outcome = "executed"]
<1>type. n \in Node /\ status \in [Number -> Status] /\ run[d] \in RunType
  BY Zenon DEF TypeOK, RunType
<1>1. Finish(d, new, end)
  BY Zenon DEF RecordExecuted
<1> HIDE DEF nodes
<1>2. new.nodes = nodes
  BY <1>type, Zenon DEF RunType
<1> HIDE DEF new
<1>3. end = "applied"
  <2> HIDE DEF end
  <2>. QED BY <1>1, <1>type, Zenon DEF Finish
<1>4. ev.success /\ nodes[n] # "failed"
  BY <1>3, <1>type, Zenon
<1>5. applied' = Advanced(d, nodes, TRUE)
  BY <1>1, <1>2, <1>3, ZenonT(30) DEF Finish, Advanced
<1>6. \/ Advances(nodes[n]) \/ nodes[n] = "unchanged"
      \/ /\ n \in Volume /\ Mounting(n, targets[d], SavedAt(saved[d])) = {}
         /\ AppliedState[n] = Absent
  BY <1>4, <1>type, SuccessKept DEF nodes
<1>. QED BY <1>5, <1>6, AdvancedShips, Zenon

\* Only a success of its runner makes a started Deployment read applied.
LEMMA ShipsStep ==
    ASSUME TypeOK, Order, NoEmptyRow, [Next]_vars, NEW d \in Number, started[d],
           status[d] # "applied", status'[d] = "applied", NEW n \in targets[d]
    PROVE  Shipped(d, n)
<1>type. /\ last \in Nat /\ Number \subseteq Nat
         /\ status \in [Number -> Status]
  BY NumbersNatural, Zenon DEF TypeOK
<1>1. ASSUME NEW new \in {"queued", "applied"}, AdmitStep(new)
      PROVE  FALSE
  <2>1. d # last + 1
    BY <1>type DEF Order
  <2>. QED BY <1>1, <2>1, Zenon DEF AdmitStep, Superseding
<1>2. ASSUME NEW c \in Number, Cancel(c)
      PROVE  FALSE
  BY <1>2, <1>type, Zenon DEF Cancel
<1>3. ~ForgetCluster /\ ~Tick /\ ~UNCHANGED vars
  BY DEF ForgetCluster, Tick, vars
<1>4. PICK c \in Number, r \in Runner : RunnerStep(c, r)
  BY <1>1, <1>2, <1>3, EnvironsOutline, Zenon DEF Next
<1>5. status' = status => FALSE
  BY Zenon
<1>6. ~ClaimQueued(c, r) /\ ~ClaimLost(c, r)
  BY <1>type DEF ClaimQueued, ClaimLost
<1>7. \A u : ~Finish(c, u, "failed")
  BY <1>type, Zenon DEF Finish
<1>8. PICK ev \in ExecutedEvidence(run[c].planned, DeletedVolumes(c)) :
          RecordExecuted(c, r, ev)
  BY <1>4, <1>5, <1>6, <1>7, <1>type, Zenon
     DEF RunnerStep, ClaimAgain, RecordAlive, RecordPrepared, RecordConfirmed,
         RecordNotExecuted, RecordAbandoned
<1>9. c = d
  BY <1>8, <1>type, Zenon DEF RecordExecuted, Finish
<1>. QED BY <1>8, <1>9, ExecutedShips, Zenon

\* A Deployment that its runner ends as applied leaves every node it targeted as
\* its Saved revision has it, whatever earlier records had confirmed of it; only
\* a new Volume no targeted Service mounts stays out (`finish`, `advance`).
THEOREM AppliedShipsAllHolds == Spec => AppliedShipsAll
<1>1. TypeOK /\ Order /\ NoEmptyRow /\ [Next]_vars =>
        [\A d \in Number :
          started[d] /\ status[d] # "applied" /\ status'[d] = "applied" =>
            \A n \in targets[d] :
                \/ applied'[n].value = SavedAt(saved[d])[n]
                \/ /\ n \in Volume /\ Mounting(n, targets[d], SavedAt(saved[d])) = {}
                   /\ applied[n] = NoRow /\ applied'[n] = NoRow]_vars
  BY ShipsStep, Zenon DEF Shipped
<1>. QED BY <1>1, NoEmptyRowHolds, TypeCorrect, OrderHolds, PTL DEF Spec, AppliedShipsAll
=============================================================================
