------------------------- MODULE StoreRunnerProofs -------------------------
(* Theorems about StoreRunner, for any number of runs, attempts and faults. *)
EXTENDS StoreRunner, DeploymentProofs

-----------------------------------------------------------------------------
(* Types, and what the Store sees of the runs. *)

\* A run with a process has begun, and recorded itself.
Begun ==
    \A r \in Runner, k \in Try : proc[r][k] # "none" => step[r] \notin {"new", "record"}

\* An attempt that does something has a Deployment to do it to.
LEMMA HasJob ==
    ASSUME RunnerTypeOK, Begun, NEW r \in Runner
    PROVE  /\ step[r] # "new" => job[r] \in Number
           /\ \A k \in Try : proc[r][k] # "none" => job[r] \in Number
BY Zenon DEF RunnerTypeOK, Begun

\* The attempt Inngest is at is one of those it makes.
LEMMA CurrentTry == RunnerTypeOK => \A r \in Runner : try[r] \in Try
BY Zenon DEF RunnerTypeOK

\* Giving up on an attempt keeps the types, and begins nothing.
LEMMA GiveUpType ==
    ASSUME RunnerTypeOK, NEW r \in Runner, GiveUp(r)
    PROVE  /\ proc' \in [Runner -> [Try -> Phase]] /\ outlived' \subseteq Runner
           /\ \A q \in Runner, k \in Try :
                 proc'[q][k] # "none" => proc[q][k] # "none" \/ q = r
<1>1. proc \in [Runner -> [Try -> Phase]] /\ outlived \subseteq Runner /\ try[r] \in Try
  BY CurrentTry, Zenon DEF RunnerTypeOK
<1>2. "over" \in Phase
  BY Zenon DEF Phase
<1>. QED BY <1>1, <1>2 DEF GiveUp, Turn

\* Every step keeps the types.
LEMMA RunnerTypeStep ==
    RunnerTypeOK /\ Begun /\ [SystemNext]_all => RunnerTypeOK' /\ Begun'
<1>. SUFFICES ASSUME RunnerTypeOK, Begun, [SystemNext]_all
              PROVE  RunnerTypeOK' /\ Begun'
  BY Zenon
<1>type. /\ events \subseteq Number /\ job \in [Runner -> 0..MaxDeployments]
         /\ step \in [Runner -> Step] /\ try \in [Runner -> Try]
         /\ proc \in [Runner -> [Try -> Phase]]
         /\ recorded \subseteq Runner /\ outlived \subseteq Runner
         /\ executions \subseteq Number \X Runner \X Try
         /\ faults \in 0..MaxFaults /\ MaxFaults \in Nat /\ Tries \in Nat
         /\ \A r \in Runner : step[r] # "new" => job[r] \in Number
  BY RunnerAssumption, Zenon DEF RunnerTypeOK
<1>num. Number \subseteq 0..MaxDeployments
  BY DeploymentAssumption DEF Number
<1>1. CASE \E d \in Number : Dispatch(d)
  BY <1>1, <1>type, Zenon DEF Dispatch, work, RunnerTypeOK, Begun
<1>2. CASE Sweep
  BY <1>2, <1>type, Zenon DEF Sweep, Unclaimed, work, RunnerTypeOK, Begun
<1>3. ASSUME NEW r \in Runner, NEW d \in Number, Begin(r, d)
      PROVE  RunnerTypeOK' /\ Begun'
  <2>1. "record" \in Step
    BY Zenon DEF Step, Active
  <2>2. job' \in [Runner -> 0..MaxDeployments] /\ step' \in [Runner -> Step]
    BY <1>3, <1>type, <1>num, <2>1, Zenon DEF Begin, Go
  <2>3. \A q \in Runner : step'[q] # "new" => job'[q] \in Number
    BY <1>3, <1>type, Zenon DEF Begin, Go
  <2>. QED BY <1>3, <1>type, <2>2, <2>3, Zenon DEF Begin, Go, work, RunnerTypeOK, Begun
<1>4. ASSUME NEW r \in Runner,
             \/ RecordRun(r) \/ Returns(r) \/ FailRun(r) \/ ForgetRun(r)
             \/ Stop(r) \/ ReadUnclaimed(r) \/ FailUnclaimed(r) \/ FailRecord(r)
      PROVE  RunnerTypeOK' /\ Begun'
  <2>1. \E s \in Step \ {"new", "record"} : Go(r, s)
    BY <1>4, Zenon DEF RecordRun, Returns, FailRun, ForgetRun, Stop, ReadUnclaimed,
                FailUnclaimed, FailRecord, Step, Active
  <2>2. /\ UNCHANGED <<events, job, try, proc, outlived, executions>>
        /\ recorded' \subseteq Runner
        /\ faults' \in 0..MaxFaults
    BY <1>4, <1>type DEF RecordRun, Returns, FailRun, ForgetRun, Stop, ReadUnclaimed,
                FailUnclaimed, FailRecord, Fault, work
  <2>3. step[r] # "new"
    BY <1>4, Zenon DEF RecordRun, Returns, FailRun, ForgetRun, Stop, ReadUnclaimed,
                FailUnclaimed, FailRecord
  <2>. QED BY <1>type, <2>1, <2>2, <2>3 DEF Go, RunnerTypeOK, Begun
<1>5. ASSUME NEW r \in Runner, StartAttempt(r)
      PROVE  RunnerTypeOK' /\ Begun'
  <2>1. "running" \in Step /\ "claim" \in Phase /\ try[r] \in Try
    BY CurrentTry, Zenon DEF Step, Active, Phase
  <2>2. step' \in [Runner -> Step] /\ proc' \in [Runner -> [Try -> Phase]]
    BY <1>5, <1>type, <2>1, Zenon DEF StartAttempt, Go, Turn
  <2>3. Begun' /\ \A q \in Runner : step'[q] # "new" => job'[q] \in Number
    BY <1>5, <1>type, Zenon DEF StartAttempt, Go, Turn, Begun
  <2>. QED BY <1>5, <1>type, <2>2, <2>3, Zenon DEF StartAttempt, RunnerTypeOK
<1>6. ASSUME NEW r \in Runner, Lose(r)
      PROVE  RunnerTypeOK' /\ Begun'
  <2>1. \E s \in Step \ {"new", "record"} : Go(r, s)
    BY <1>6, Zenon DEF Lose, Step, Active
  <2>2. try' \in [Runner -> Try]
    <3>1. try[r] < Tries => try[r] + 1 \in Try
      BY <1>type DEF Try
    <3>2. \/ try[r] < Tries /\ try' = [try EXCEPT ![r] = try[r] + 1]
          \/ try' = try
      BY <1>6, Zenon DEF Lose
    <3>. QED BY <1>type, <3>1, <3>2, Zenon
  <2>3. faults' \in 0..MaxFaults
    BY <1>6, <1>type DEF Lose, Fault
  <2>4. step[r] # "new" /\ GiveUp(r) /\ UNCHANGED <<events, job, executions, recorded>>
    BY <1>6, Zenon DEF Lose
  <2>5. /\ proc' \in [Runner -> [Try -> Phase]] /\ outlived' \subseteq Runner
        /\ \A q \in Runner, k \in Try :
              proc'[q][k] # "none" => proc[q][k] # "none" \/ q = r
    BY <2>4, GiveUpType, Zenon
  <2>6. PICK s \in Step \ {"new", "record"} : Go(r, s)
    BY <2>1, Zenon
  <2>7. RunnerTypeOK'
    BY <1>type, <2>2, <2>3, <2>4, <2>5, <2>6, Zenon DEF Go, RunnerTypeOK
  <2>8. Begun'
    BY <1>type, <2>5, <2>4, <2>6, Zenon DEF Go, Begun
  <2>. QED BY <2>7, <2>8, Zenon
<1>7. ASSUME NEW r \in Runner, CancelRun(r) \/ DropRun(r)
      PROVE  RunnerTypeOK' /\ Begun'
  <2>1. \E s \in Step \ {"new", "record"} : Go(r, s)
    BY <1>7, Zenon DEF CancelRun, DropRun, Step, Active
  <2>2. faults' \in 0..MaxFaults /\ recorded' \subseteq Runner
    BY <1>7, <1>type DEF CancelRun, DropRun, Fault
  <2>3. /\ step[r] # "new" /\ UNCHANGED <<events, job, try, executions>>
        /\ GiveUp(r) \/ UNCHANGED <<proc, outlived>>
    BY <1>7, Zenon DEF CancelRun, DropRun, GiveUp, Active
  <2>4. /\ proc' \in [Runner -> [Try -> Phase]] /\ outlived' \subseteq Runner
        /\ \A q \in Runner, k \in Try :
              proc'[q][k] # "none" => proc[q][k] # "none" \/ q = r
    BY <1>type, <2>3, GiveUpType, Zenon
  <2>5. PICK s \in Step \ {"new", "record"} : Go(r, s)
    BY <2>1, Zenon
  <2>6. RunnerTypeOK'
    BY <1>type, <2>2, <2>3, <2>4, <2>5, Zenon DEF Go, RunnerTypeOK
  <2>7. Begun'
    BY <1>type, <2>4, <2>3, <2>5, Zenon DEF Go, Begun
  <2>. QED BY <2>6, <2>7, Zenon
<1>8. ASSUME NEW r \in Runner, NEW k \in Try, AttemptStep(r, k)
      PROVE  RunnerTypeOK' /\ Begun'
  <2>1. \E p \in Phase : Turn(r, k, p)
    BY <1>8, Zenon DEF AttemptStep, Claim, Unprepared, Prepared, Report, NotExecuted, Phase
  <2>2. proc[r][k] # "none" /\ step[r] \notin {"new", "record"} /\ job[r] \in Number
    BY <1>8, HasJob, Zenon DEF AttemptStep, Claim, Unprepared, Prepared, Report, NotExecuted, Begun
  <2>3. /\ UNCHANGED <<events, job, step, try, outlived, recorded, faults>>
        /\ executions' \subseteq executions \cup {<<job[r], r, k>>}
    BY <1>8, Zenon DEF AttemptStep, Claim, Unprepared, Prepared, Report, NotExecuted
  <2>4. executions' \subseteq Number \X Runner \X Try
    BY <1>type, <2>2, <2>3
  <2>5. proc' \in [Runner -> [Try -> Phase]]
    BY <1>type, <2>1 DEF Turn
  <2>6. Begun'
    BY <1>type, <2>1, <2>2, <2>3, Zenon DEF Turn, Begun
  <2>. QED BY <1>type, <2>3, <2>4, <2>5, <2>6, Zenon DEF RunnerTypeOK
<1>9. CASE UNCHANGED hand
  BY <1>9, <1>type, Zenon DEF hand, work, RunnerTypeOK, Begun
<1>10. (\E r \in Runner, k \in Try : Renews(r, k) \/ Executing(r, k)) \/ UNCHANGED all
       => UNCHANGED hand
  BY Zenon DEF Renews, Executing, all
<1>. QED BY <1>1, <1>2, <1>3, <1>4, <1>5, <1>6, <1>7, <1>8, <1>9, <1>10, Zenon
         DEF SystemNext, Progress, RunStep

\* Every step is the Store's, or none of its business.
LEMMA StoreStep ==
    RunnerTypeOK /\ Begun /\ [SystemNext]_all => [Next]_vars
<1>. SUFFICES ASSUME RunnerTypeOK, Begun, [SystemNext]_all
              PROVE  [Next]_vars
  BY Zenon
<1>1. CASE \/ \E d \in Number : Dispatch(d)
           \/ Sweep
           \/ \E r \in Runner, d \in Number : Begin(r, d)
           \/ \E r \in Runner : \/ Lose(r) \/ FailRun(r) \/ CancelRun(r) \/ DropRun(r)
                                \/ RecordRun(r) \/ StartAttempt(r) \/ Returns(r)
                                \/ ForgetRun(r) \/ ReadUnclaimed(r)
           \/ \E r \in Runner, k \in Try : Unprepared(r, k)
  BY <1>1, Zenon DEF Dispatch, Sweep, Begin, Lose, FailRun, CancelRun, DropRun, RecordRun,
              StartAttempt, Returns, ForgetRun, ReadUnclaimed, Unprepared
<1>2. ASSUME NEW r \in Runner, Stop(r) \/ FailUnclaimed(r) \/ FailRecord(r)
      PROVE  [Next]_vars
  <2>1. job[r] \in Number
    BY <1>2, HasJob, Zenon DEF Stop, FailUnclaimed, FailRecord
  <2>2. RunnerStep(job[r], r) \/ UNCHANGED vars
    BY <1>2, Zenon DEF Stop, FailUnclaimed, FailRecord, RunnerStep
  <2>. QED BY <2>1, <2>2, Zenon DEF Next
<1>3. ASSUME NEW r \in Runner, NEW k \in Try,
             \/ Claim(r, k) \/ Prepared(r, k) \/ Report(r, k) \/ NotExecuted(r, k)
             \/ Renews(r, k) \/ Executing(r, k)
      PROVE  [Next]_vars
  <2>1. job[r] \in Number
    BY <1>3, HasJob, Zenon DEF Claim, Prepared, Report, NotExecuted, Renews, Executing
  <2>2. RunnerStep(job[r], r) \/ UNCHANGED vars
    BY <1>3, Zenon DEF Claim, Prepared, Report, NotExecuted, Renews, Executing, RunnerStep
  <2>. QED BY <2>1, <2>2, Zenon DEF Next
<1>4. CASE Users
  BY <1>4, Zenon DEF Users, Next, Environs
<1>5. CASE UNCHANGED all
  BY <1>5, Zenon DEF all
<1>. QED BY <1>1, <1>2, <1>3, <1>4, <1>5, Zenon
         DEF SystemNext, Progress, RunStep, AttemptStep

\* Runs, attempts and records are well typed in every reachable state.
THEOREM RunnerTypeCorrect == System => [](RunnerTypeOK /\ Begun)
<1>1. SystemInit => RunnerTypeOK /\ Begun
  BY RunnerAssumption, DeploymentAssumption
     DEF SystemInit, RunnerTypeOK, Begun, Step, Phase, Try
<1>. QED BY <1>1, RunnerTypeStep, PTL DEF System

\* What the worker's runs do to the Store is what Deployment allows: every theorem
\* about Deployment holds of the system with its dispatcher and its runs.
THEOREM StoreImplemented == System => Spec
<1>1. SystemInit => Init
  BY Zenon DEF SystemInit
<1>. QED BY <1>1, StoreStep, RunnerTypeCorrect, PTL DEF System, Spec
-----------------------------------------------------------------------------
(* What a step does to who holds a Deployment and what is on its record. *)

\* A Deployment nobody claimed has no preview, and one in flight has no outcome.
Fence ==
    \A d \in Number :
        /\ status[d] \in {"none", "queued"} => runner[d] = NoRunner
        /\ runner[d] = NoRunner => ~run[d].prepared
        /\ run[d].outcome # "none" => status[d] \in Ended

Same(d) ==
    /\ runner'[d] = runner[d]
    /\ run'[d].prepared = run[d].prepared
    /\ run'[d].outcome = run[d].outcome

\* What the Store knows well enough to judge its next step by.
StoreInv == TypeOK /\ Order /\ Fence

\* A fresh record, whether or not it replaces another.
LEMMA RunFields ==
    ASSUME TypeOK, NEW d \in Number
    PROVE  run[d] \in RunType /\ run \in [Number -> RunType]
BY Zenon DEF TypeOK, RunType

\* Whoever admits, cancels or forgets leaves claims and records as they are: the
\* number an admission takes had neither.
LEMMA UsersKeep ==
    ASSUME StoreInv, Users
    PROVE  \A e \in Number : Same(e)
<1>type. TypeOK /\ Order /\ Fence
  BY Zenon DEF StoreInv
<1>1. ASSUME NEW intent \in Intents, NEW services \in SUBSET Service,
             Deploy(intent, services)
      PROVE  \A e \in Number : Same(e)
  <2>1. AdmitStep("queued")
    BY <1>1, <1>type, PublishType, QueueOutline, Zenon DEF Deploy
  <2>2. /\ last + 1 \in Number /\ runner' = runner /\ run'[last + 1] = NewRun
        /\ \A e \in Number \ {last + 1} : run'[e] = run[e]
    BY <2>1, Zenon DEF AdmitStep
  <2>3. status[last + 1] = "none"
    BY <2>2, <1>type, NumbersNatural DEF Order
  <2>4. /\ ~run[last + 1].prepared /\ run[last + 1].outcome = "none"
        /\ run[last + 1].prepared \in BOOLEAN
    BY <2>2, <2>3, <1>type, RunFields, Zenon DEF Fence, RunType, Ended
  <2>5. run'[last + 1].prepared = FALSE /\ run'[last + 1].outcome = "none"
    BY <2>2 DEF NewRun
  <2>. QED BY <2>2, <2>4, <2>5, Zenon DEF Same
<1>2. CASE (\E d \in Number : Cancel(d)) \/ ForgetCluster \/ Tick
  BY <1>2, Zenon DEF Cancel, ForgetCluster, Tick, claims, Same
<1>. QED BY <1>1, <1>2, Zenon DEF Users

\* The claim of a queued Deployment: the runner is its own, the record as it was.
LEMMA ClaimFate ==
    ASSUME StoreInv, NEW d \in Number, NEW r \in Runner, ClaimQueued(d, r)
    PROVE  /\ runner[d] = NoRunner /\ ~run[d].prepared
           /\ runner'[d] = r /\ run' = run
           /\ \A e \in Number \ {d} : Same(e)
<1>1. runner \in [Number -> Runner \cup {NoRunner}] /\ Fence
  BY Zenon DEF StoreInv, TypeOK
<1>. QED BY <1>1, Zenon DEF ClaimQueued, Fence, Same

\* Claims of what is already claimed, and signs of life, change none of it.
LEMMA QuietFate ==
    ASSUME TypeOK, NEW d \in Number, NEW r \in Runner,
           \/ ClaimAgain(d, r) \/ ClaimLost(d, r) \/ RecordAlive(d, r)
           \/ \E services \in SUBSET Service : RecordConfirmed(d, r, services)
    PROVE  \A e \in Number : Same(e)
<1>1. CASE ClaimAgain(d, r) \/ ClaimLost(d, r) \/ RecordAlive(d, r)
  BY <1>1, Zenon DEF ClaimAgain, ClaimLost, RecordAlive, claims, Same
<1>2. ASSUME NEW services \in SUBSET Service, RecordConfirmed(d, r, services)
      PROVE  \A e \in Number : Same(e)
  <2>1. runner' = runner /\ \E nodes : run' = [run EXCEPT ![d].nodes = nodes]
    BY <1>2, Zenon DEF RecordConfirmed
  <2>2. run \in [Number -> RunType]
    BY RunFields, Zenon
  <2>. QED BY <2>1, <2>2 DEF Same, RunType
<1>. QED BY <1>1, <1>2, Zenon

\* A Deploy Preview is recorded once, of a Deployment held.
LEMMA PreparedFate ==
    ASSUME TypeOK, NEW d \in Number, NEW r \in Runner, NEW planned \in SUBSET Service,
           RecordPrepared(d, r, planned)
    PROVE  /\ Holds(d, r) /\ ~run[d].prepared
           /\ run'[d].prepared /\ run'[d].outcome = run[d].outcome
           /\ runner' = runner
           /\ \A e \in Number \ {d} : Same(e)
<1>1. run \in [Number -> RunType]
  BY RunFields, Zenon
<1>. QED BY <1>1, Zenon DEF RecordPrepared, Same, RunType

\* An end is recorded of a Deployment held; who reports or abandons it records that it
\* wasn't executed only if nothing was prepared.
LEMMA EndFate ==
    ASSUME TypeOK, NEW d \in Number, NEW r \in Runner,
           \/ RecordNotExecuted(d, r) \/ RecordAbandoned(d, r)
           \/ \E ev : RecordExecuted(d, r, ev)
    PROVE  /\ Holds(d, r) /\ runner' = runner
           /\ run'[d].prepared = run[d].prepared
           /\ \A e \in Number \ {d} : Same(e)
           /\ status'[d] \in Ended
           /\ RecordAbandoned(d, r) \/ (\E ev : RecordExecuted(d, r, ev))
                 => \/ run'[d].outcome # "not_executed"
                    \/ run'[d].outcome = run[d].outcome
                    \/ ~run[d].prepared
<1>run. run \in [Number -> RunType] /\ status \in [Number -> Status]
  BY RunFields, Zenon DEF TypeOK
<1>1. ASSUME NEW new \in RunType, NEW end \in {"applied", "failed"}, Finish(d, new, end)
      PROVE  /\ runner' = runner /\ run'[d] = new /\ status'[d] \in Ended
             /\ \A e \in Number \ {d} : Same(e)
  BY <1>1, <1>run, Zenon DEF Finish, Ended, Same
<1>2. ASSUME RecordNotExecuted(d, r)
      PROVE  /\ Holds(d, r) /\ runner' = runner
             /\ run'[d].prepared = run[d].prepared
             /\ \A e \in Number \ {d} : Same(e)
             /\ status'[d] \in Ended
  <2>. DEFINE new == [run[d] EXCEPT !.outcome = "not_executed"]
  <2>1. new \in RunType /\ new.prepared = run[d].prepared
    BY <1>run, Zenon DEF RunType, Outcome
  <2>2. Holds(d, r) /\ Finish(d, new, "failed")
    BY <1>2, Zenon DEF RecordNotExecuted
  <2>. HIDE DEF new
  <2>. QED BY <1>1, <2>1, <2>2, Zenon
<1>3. ASSUME RecordAbandoned(d, r)
      PROVE  /\ Holds(d, r) /\ runner' = runner
             /\ run'[d].prepared = run[d].prepared
             /\ \A e \in Number \ {d} : Same(e)
             /\ status'[d] \in Ended
             /\ run'[d].outcome = run[d].outcome \/ ~run[d].prepared
  <2>. DEFINE new == [run[d] EXCEPT !.outcome = "not_executed"]
  <2>1. new \in RunType /\ new.prepared = run[d].prepared
    BY <1>run, Zenon DEF RunType, Outcome
  <2>2. Holds(d, r)
    BY <1>3, Zenon DEF RecordAbandoned
  <2>3. CASE ~run[d].prepared /\ Finish(d, new, "failed")
    <3>. HIDE DEF new
    <3>. QED BY <1>1, <2>1, <2>2, <2>3, Zenon
  <2>4. CASE status' = [status EXCEPT ![d] = "unknown"] /\ UNCHANGED <<runner, run>>
    BY <1>run, <2>2, <2>4, Zenon DEF Same, Ended
  <2>. QED BY <1>3, <2>3, <2>4, Zenon DEF RecordAbandoned
<1>4. ASSUME NEW ev, RecordExecuted(d, r, ev)
      PROVE  /\ Holds(d, r) /\ runner' = runner
             /\ run'[d].prepared = run[d].prepared
             /\ \A e \in Number \ {d} : Same(e)
             /\ status'[d] \in Ended
             /\ run'[d].outcome = "executed"
  <2>. DEFINE nodes == KeepAdvanced(run[d].nodes,
                    NodeOutcomesOf(targets[d], SavedAt(saved[d]), AppliedState, ev))
              new == [run[d] EXCEPT !.nodes = nodes, !.outcome = "executed"]
  <2>1. nodes \in [Node -> NodeStatus \cup {Unset}]
    BY <1>run, NodeOutcomesType, KeepAdvancedType, Zenon DEF RunType
  <2>2. PICK end \in {"applied", "failed"} : Finish(d, new, end)
    BY <1>4, Zenon DEF RecordExecuted
  <2>3. new \in RunType /\ new.prepared = run[d].prepared /\ new.outcome = "executed"
    <3>. HIDE DEF nodes
    <3>. QED BY <2>1, <1>run, Zenon DEF RunType, Outcome
  <2>4. Holds(d, r)
    BY <1>4, Zenon DEF RecordExecuted
  <2>. HIDE DEF new
  <2>. QED BY <1>1, <2>2, <2>3, <2>4, Zenon
<1>. QED BY <1>2, <1>3, <1>4, Zenon

\* Every step of the Store keeps the fence.
LEMMA FenceStep == StoreInv /\ [Next]_vars => Fence'
<1>. SUFFICES ASSUME StoreInv, [Next]_vars PROVE Fence'
  BY Zenon
<1>type. /\ TypeOK /\ Order /\ Fence
         /\ status \in [Number -> Status] /\ run \in [Number -> RunType]
         /\ runner \in [Number -> Runner \cup {NoRunner}]
  <2>1. TypeOK /\ Order /\ Fence
    BY DEF StoreInv
  <2>2. run \in [Number -> RunType]
    BY <2>1, Zenon DEF TypeOK, RunType
  <2>. QED BY <2>1, <2>2, Zenon DEF TypeOK
<1>1. ASSUME NEW new \in {"queued", "applied"}, AdmitStep(new)
      PROVE  Fence'
  <2>1. /\ last + 1 \in Number /\ runner' = runner
        /\ \A e \in Number \ {last + 1} : run'[e] = run[e]
        /\ ~run'[last + 1].prepared
        /\ run'[last + 1].outcome # "none" => new = "applied"
    BY <1>1 DEF AdmitStep, NewRun
  <2>2. \A e \in Number : status'[e] = IF e = last + 1 THEN new
                                ELSE IF status[e] = "queued" THEN "superseded"
                                ELSE status[e]
    BY <1>1, Zenon DEF AdmitStep, Superseding
  <2>3. status[last + 1] = "none"
    BY <1>type, <2>1, NumbersNatural DEF Order
  <2>. QED BY <1>type, <2>1, <2>2, <2>3, Zenon DEF Fence, Ended
<1>2. ASSUME NEW d \in Number, NEW r \in Runner, ClaimQueued(d, r)
      PROVE  Fence'
  <2>1. \A e \in Number : status'[e] = IF e = d THEN "running"
                                   ELSE IF status[e] \in Claimed THEN "unknown"
                                   ELSE status[e]
    BY <1>2, Zenon DEF ClaimQueued
  <2>2. /\ \A e \in Number \ {d} : runner'[e] = runner[e]
        /\ runner'[d] # NoRunner /\ run' = run /\ run[d].outcome = "none"
    BY <1>2, <1>type, ClaimFate, DeploymentAssumption, Zenon DEF Same, ClaimQueued, Fence, Ended
  <2>. QED BY <1>type, <2>1, <2>2, Zenon DEF Fence, Ended, Claimed
<1>3. ASSUME NEW d \in Number, NEW r \in Runner, RunnerStep(d, r), ~ClaimQueued(d, r)
      PROVE  Fence'
  <2>1. HeldStep(d)
    BY <1>3, <1>type, RunnerOutline, Zenon
  <2>2. /\ status[d] \in Claimed /\ UNCHANGED runner
        /\ status'[d] \in After(status[d])
        /\ \A e \in Number \ {d} : status'[e] = status[e] /\ run'[e] = run[e]
    BY <2>1, <1>type, Zenon DEF HeldStep, Read, Claimed
  <2>3. /\ Holds(d, r)
        /\ run'[d].outcome = run[d].outcome \/ status'[d] \in Ended
    <3>1. CASE \/ ClaimAgain(d, r) \/ ClaimLost(d, r) \/ RecordAlive(d, r)
               \/ \E services \in SUBSET Service : RecordConfirmed(d, r, services)
      BY <3>1, <1>type, QuietFate, Zenon
         DEF Same, ClaimAgain, ClaimLost, RecordAlive, RecordConfirmed
    <3>2. CASE \E planned \in SUBSET Service : RecordPrepared(d, r, planned)
      BY <3>2, <1>type, PreparedFate, Zenon
    <3>3. CASE \/ RecordNotExecuted(d, r) \/ RecordAbandoned(d, r)
               \/ \E ev : RecordExecuted(d, r, ev)
      BY <3>3, <1>type, EndFate, Zenon
    <3>. QED BY <1>3, <3>1, <3>2, <3>3, Zenon DEF RunnerStep
  <2>4. runner[d] # NoRunner
    BY <2>3, DeploymentAssumption, Zenon DEF Holds
  <2>5. run[d].outcome = "none"
    BY <1>type, <2>2, Zenon DEF Fence, Ended, Claimed
  <2>6. status'[d] \notin {"none", "queued"}
    BY <2>2, Zenon DEF After, Claimed
  <2>. QED BY <1>type, <2>2, <2>3, <2>4, <2>5, <2>6, Zenon DEF Fence
<1>4. ASSUME NEW d \in Number, Cancel(d)
      PROVE  Fence'
  <2>1. \A e \in Number \ {d} : status'[e] = status[e]
    BY <1>4, <1>type, Zenon DEF Cancel
  <2>2. \/ status[d] = "queued" /\ status'[d] = "cancelled"
        \/ status[d] = "running" /\ status'[d] = "cancelling"
    BY <1>4, <1>type, Zenon DEF Cancel, Read
  <2>3. UNCHANGED <<runner, run>>
    BY <1>4, Zenon DEF Cancel, claims
  <2>. QED BY <1>type, <2>1, <2>2, <2>3, Zenon DEF Fence, Ended
<1>5. CASE ForgetCluster
  <2>1. \A d \in Number : status'[d] = "cancelled" \/ status'[d] = status[d]
    BY <1>5, Zenon DEF ForgetCluster
  <2>2. UNCHANGED <<runner, run>>
    BY <1>5, Zenon DEF ForgetCluster, claims
  <2>. QED BY <1>type, <2>1, <2>2, Zenon DEF Fence, Ended
<1>6. CASE Tick \/ UNCHANGED vars
  BY <1>6, <1>type, Zenon DEF Tick, vars, claims, Fence
<1>. QED BY <1>type, <1>1, <1>2, <1>3, <1>4, <1>5, <1>6, EnvironsOutline, Zenon DEF Next

\* What the Store knows, it knows in every reachable state.
LEMMA StoreInvHolds == System => []StoreInv
<1>1. SystemInit => Fence
  BY DEF SystemInit, Init, Fence, NewRun
<1>2. System => [](TypeOK /\ Order)
  BY StoreImplemented, TypeCorrect, OrderHolds, PTL
<1>3. TypeOK /\ Order /\ Fence <=> StoreInv
  BY Zenon DEF StoreInv
<1>4. RunnerTypeOK /\ Begun /\ StoreInv /\ [SystemNext]_all => Fence'
  BY StoreStep, FenceStep, Zenon
<1>. QED BY <1>1, <1>2, <1>3, <1>4, RunnerTypeCorrect, PTL DEF System

\* A claim that succeeds, of an attempt or of a stop: it is the runner's, unprepared.
LEMMA ClaimWins ==
    ASSUME StoreInv, NEW d \in Number, NEW r \in Runner,
           ClaimQueued(d, r) \/ ClaimAgain(d, r)
    PROVE  /\ runner'[d] = r /\ ~run[d].prepared
           /\ \A e \in Number : /\ run'[e].prepared = run[e].prepared
                                /\ run'[e].outcome = run[e].outcome
           /\ \A e \in Number : runner[e] # NoRunner => runner'[e] = runner[e]
<1>1. TypeOK
  BY Zenon DEF StoreInv
<1>2. CASE ClaimQueued(d, r)
  BY <1>2, ClaimFate, Zenon DEF Same
<1>3. CASE ClaimAgain(d, r)
  BY <1>1, <1>3, QuietFate, Zenon DEF Same, ClaimAgain, Holds
<1>. QED BY <1>2, <1>3, Zenon

\* What is dispatched, begun, renewed or confirmed, and what users do.
IdleStep ==
    \/ \E d \in Number : Dispatch(d)
    \/ Sweep
    \/ \E r \in Runner, d \in Number : Begin(r, d)
    \/ UNCHANGED hand /\ (Users \/ UNCHANGED vars)
    \/ \E r \in Runner, k \in Try : Renews(r, k) \/ Executing(r, k)

\* None of it touches claims, previews, ends, attempts or records of runs.
LEMMA IdleFate ==
    ASSUME StoreInv, RunnerTypeOK, Begun, IdleStep
    PROVE  /\ \A e \in Number : Same(e)
           /\ UNCHANGED <<try, work, recorded>>
           /\ \/ UNCHANGED <<step, job>>
              \/ \E r \in Runner, d \in Number :
                    /\ step[r] = "new" /\ step' = [step EXCEPT ![r] = "record"]
                    /\ job' = [job EXCEPT ![r] = d]
<1>1. \A e \in Number : Same(e)
  <2>1. ASSUME NEW r \in Runner, NEW k \in Try, Renews(r, k) \/ Executing(r, k)
        PROVE  \A e \in Number : Same(e)
    <3>1. job[r] \in Number
      BY <2>1, HasJob, Zenon DEF Renews, Executing
    <3>. QED BY <2>1, <3>1, QuietFate, Zenon DEF Renews, Executing, StoreInv
  <2>2. UNCHANGED vars => \A e \in Number : Same(e)
    BY Zenon DEF vars, claims, Same
  <2>. QED BY <2>1, <2>2, UsersKeep, Zenon DEF IdleStep, Dispatch, Sweep, Begin
<1>2. UNCHANGED <<try, work, recorded>>
  BY Zenon DEF IdleStep, Dispatch, Sweep, Begin, Renews, Executing, hand
<1>3. \/ UNCHANGED <<step, job>>
      \/ \E r \in Runner, d \in Number :
            /\ step[r] = "new" /\ step' = [step EXCEPT ![r] = "record"]
            /\ job' = [job EXCEPT ![r] = d]
  BY Zenon DEF IdleStep, Dispatch, Sweep, Begin, Go, Renews, Executing, hand
<1>. QED BY <1>1, <1>2, <1>3, Zenon

-----------------------------------------------------------------------------
(***************************************************************************)
(* A Deployment is executed once, what is on its record is true, and none  *)
(* is held for nobody.                                                     *)
(***************************************************************************)
\* Who works on a Deployment claimed it, and until it records a Deploy Preview there
\* is none.
Owned ==
    \A r \in Runner, k \in Try :
        /\ proc[r][k] \in {"prepare", "refuse", "execute"} => runner[job[r]] = r
        /\ proc[r][k] = "prepare" /\ r \notin outlived => ~run[job[r]].prepared

\* Unless one outlived its run's patience, only the current attempt is alive.
Current ==
    \A r \in Runner \ outlived, k \in Try :
        Alive(r, k) => k = try[r] /\ step[r] = "running"

\* What was executed was claimed and prepared before.
Traced ==
    \A x \in executions :
        /\ step[x[2]] # "new" /\ x[1] = job[x[2]]
        /\ runner[x[1]] = x[2] /\ run[x[1]].prepared

\* Who is about to record that nothing ran executed nothing.
Unexecuted ==
    \A r \in Runner \ outlived :
        (step[r] = "failing" \/ \E k \in Try : proc[r][k] = "refuse")
            => \A x \in executions : x[2] # r

WorkInv ==
    Owned /\ Current /\ Traced /\ Unexecuted /\ ExecutedOnce /\ NotExecutedIsTrue

\* A step that executes nothing, claims nothing and records nothing.
LEMMA QuietWork ==
    ASSUME RunnerTypeOK, Begun, WorkInv, Current',
           \A e \in Number : Same(e),
           executions' = executions, outlived \subseteq outlived',
           \A r \in Runner : step[r] # "new" => job'[r] = job[r] /\ step'[r] # "new",
           \A r \in Runner : step'[r] = "failing" => step[r] = "failing",
           \A r \in Runner, k \in Try :
               proc'[r][k] = proc[r][k] \/ proc'[r][k] \in {"none", "claim", "over"}
    PROVE  WorkInv'
<1>1. executions \subseteq Number \X Runner \X Try
  BY Zenon DEF RunnerTypeOK
<1>2. \A r \in Runner, k \in Try :
          proc[r][k] # "none" => job'[r] = job[r] /\ job[r] \in Number
  BY HasJob, Zenon DEF Begun
<1>3. Owned'
  BY <1>2 DEF WorkInv, Owned, Same
<1>4. Traced'
  BY <1>1 DEF WorkInv, Traced, Same
<1>5. Unexecuted'
  BY DEF WorkInv, Unexecuted
<1>6. ExecutedOnce'
  BY DEF WorkInv, ExecutedOnce
<1>7. NotExecutedIsTrue'
  BY <1>1 DEF WorkInv, NotExecutedIsTrue, Same
<1>. QED BY <1>3, <1>4, <1>5, <1>6, <1>7, Zenon DEF WorkInv

\* Inngest's own steps, in outline: the Store keeps what it has.
LEMMA RunWork ==
    ASSUME RunnerTypeOK, Begun, WorkInv, NEW r \in Runner,
           \/ RecordRun(r) \/ StartAttempt(r) \/ Returns(r) \/ Lose(r) \/ FailRun(r)
           \/ ForgetRun(r) \/ CancelRun(r) \/ DropRun(r) \/ ReadUnclaimed(r)
    PROVE  WorkInv'
<1>type. /\ step \in [Runner -> Step] /\ try \in [Runner -> Try] /\ try[r] \in Try
         /\ proc \in [Runner -> [Try -> Phase]]
  BY Zenon DEF RunnerTypeOK
<1>0. \A e \in Number : Same(e)
  BY Zenon DEF RecordRun, StartAttempt, Returns, Lose, FailRun, ForgetRun, CancelRun, DropRun,
         ReadUnclaimed, vars, claims, Same
<1>1. CASE RecordRun(r) \/ FailRun(r) \/ ForgetRun(r) \/ ReadUnclaimed(r) \/ Returns(r)
  <2>1. /\ \E s \in Step \ {"new", "failing"} : Go(r, s)
        /\ UNCHANGED <<job, try, proc, outlived, executions>>
    BY <1>1, Zenon DEF RecordRun, FailRun, ForgetRun, ReadUnclaimed, Returns, work, Step, Active
  <2>2. step[r] # "running" \/ proc[r][try[r]] = "over"
    BY <1>1, Zenon DEF RecordRun, FailRun, ForgetRun, ReadUnclaimed, Returns
  <2>3. Current'
    BY <1>type, <2>1, <2>2 DEF WorkInv, Current, Alive, Go
  <2>4. /\ \A q \in Runner : step[q] # "new" => step'[q] # "new"
        /\ \A q \in Runner : step'[q] = "failing" => step[q] = "failing"
    BY <1>type, <2>1, Zenon DEF Go
  <2>. QED BY <1>0, <2>1, <2>3, <2>4, QuietWork, Zenon
<1>2. CASE StartAttempt(r)
  <2>1. /\ step[r] = "ready" /\ step' = [step EXCEPT ![r] = "running"]
        /\ proc' = [proc EXCEPT ![r][try[r]] = "claim"]
        /\ UNCHANGED <<job, try, outlived, executions>>
    BY <1>2, Zenon DEF StartAttempt, Go, Turn
  <2>2. Current'
    BY <1>type, <2>1 DEF WorkInv, Current, Alive
  <2>3. /\ \A q \in Runner : step[q] # "new" => step'[q] # "new"
        /\ \A q \in Runner : step'[q] = "failing" => step[q] = "failing"
        /\ \A q \in Runner, k \in Try : proc'[q][k] = proc[q][k] \/ proc'[q][k] = "claim"
    BY <1>type, <2>1, Zenon
  <2>. QED BY <1>0, <2>1, <2>2, <2>3, QuietWork, Zenon
<1>3. CASE Lose(r) \/ CancelRun(r) \/ DropRun(r)
  <2>1. /\ \E s \in Step \ {"new", "failing", "running"} : Go(r, s)
        /\ \A q \in Runner \ {r} : try'[q] = try[q]
        /\ UNCHANGED <<job, executions>>
    BY <1>3, <1>type, Zenon DEF Lose, CancelRun, DropRun, Step, Active
  <2>2. \/ GiveUp(r)
        \/ step[r] # "running" /\ UNCHANGED <<proc, outlived>>
    BY <1>3, Zenon DEF Lose, CancelRun, DropRun, GiveUp
  <2>3. /\ outlived \subseteq outlived'
        /\ \A q \in Runner, k \in Try : proc'[q][k] = proc[q][k] \/ proc'[q][k] = "over"
    BY <1>type, <2>2 DEF GiveUp, Turn
  <2>4. /\ \A q \in Runner : step[q] # "new" => step'[q] # "new"
        /\ \A q \in Runner : step'[q] = "failing" => step[q] = "failing"
    BY <1>type, <2>1, Zenon DEF Go
  <2>5. Current'
    <3>. SUFFICES ASSUME NEW q \in Runner, q \notin outlived', NEW k \in Try, Alive(q, k)'
                  PROVE  k = try'[q] /\ step'[q] = "running"
      BY Zenon DEF Current
    <3>1. q \notin outlived /\ Alive(q, k)
      BY <2>3, Zenon DEF Alive
    <3>2. k = try[q] /\ step[q] = "running"
      BY <3>1, Zenon DEF WorkInv, Current
    <3>3. q # r
      BY <1>type, <2>2, <3>2 DEF GiveUp, Turn, Alive
    <3>. QED BY <1>type, <2>1, <3>2, <3>3, Zenon DEF Go
  <2>. QED BY <1>0, <2>1, <2>3, <2>4, <2>5, QuietWork, Zenon
<1>. QED BY <1>1, <1>2, <1>3, Zenon

\* An attempt of r goes on to phase p: that alone keeps the attempts in their order.
LEMMA TurnCurrent ==
    ASSUME RunnerTypeOK, Current, NEW r \in Runner, NEW k \in Try, NEW p \in Phase,
           Alive(r, k), Turn(r, k, p), UNCHANGED <<step, try, outlived>>
    PROVE  /\ Current'
           /\ proc'[r][k] = p
           /\ \A q \in Runner, j \in Try : q # r \/ j # k => proc'[q][j] = proc[q][j]
<1>1. proc \in [Runner -> [Try -> Phase]]
  BY Zenon DEF RunnerTypeOK
<1>. QED BY <1>1 DEF Turn, Current, Alive

\* An attempt claims.
LEMMA ClaimWork ==
    ASSUME StoreInv, RunnerTypeOK, Begun, WorkInv,
           NEW r \in Runner, NEW k \in Try, Claim(r, k)
    PROVE  WorkInv'
<1>type. /\ job[r] \in Number /\ TypeOK /\ Alive(r, k)
         /\ executions \subseteq Number \X Runner \X Try
         /\ UNCHANGED <<job, step, try, outlived, executions>>
  BY HasJob, Zenon DEF Claim, StoreInv, Alive, RunnerTypeOK
<1>turn. Current /\ Alive(r, k) /\ UNCHANGED <<step, try, outlived>>
  BY <1>type, Zenon DEF WorkInv
<1>phase. "prepare" \in Phase /\ "over" \in Phase
  BY Zenon DEF Phase
<1>1. CASE Turn(r, k, "over") /\ (ClaimLost(job[r], r) \/ UNCHANGED vars)
  <2>1. \A e \in Number : Same(e)
    BY <1>1, <1>type, QuietFate, Zenon DEF vars, claims, Same
  <2>2. /\ Current'
        /\ \A q \in Runner, j \in Try : proc'[q][j] = proc[q][j] \/ proc'[q][j] = "over"
    BY <1>1, <1>turn, <1>phase, TurnCurrent
  <2>. QED BY <1>type, <2>1, <2>2, QuietWork, Zenon
<1>2. CASE Turn(r, k, "prepare") /\ (ClaimQueued(job[r], r) \/ ClaimAgain(job[r], r))
  <2>1. /\ runner'[job[r]] = r /\ ~run[job[r]].prepared
        /\ \A e \in Number : /\ run'[e].prepared = run[e].prepared
                             /\ run'[e].outcome = run[e].outcome
        /\ \A e \in Number : runner[e] # NoRunner => runner'[e] = runner[e]
    BY <1>2, <1>type, ClaimWins, Zenon
  <2>2. /\ Current' /\ proc'[r][k] = "prepare"
        /\ \A q \in Runner, j \in Try : q # r \/ j # k => proc'[q][j] = proc[q][j]
    BY <1>2, <1>turn, <1>phase, TurnCurrent
  <2>3. Owned'
    <3>. SUFFICES ASSUME NEW q \in Runner, NEW j \in Try
                  PROVE  /\ proc'[q][j] \in {"prepare", "refuse", "execute"}
                               => runner'[job[q]] = q
                         /\ proc'[q][j] = "prepare" /\ q \notin outlived
                               => ~run'[job[q]].prepared
      BY <1>type, Zenon DEF Owned
    <3>1. CASE q = r /\ j = k
      BY <1>type, <2>1, <3>1, Zenon
    <3>2. CASE q # r \/ j # k
      <4>1. proc'[q][j] = proc[q][j] /\ (proc[q][j] # "none" => job[q] \in Number)
        BY <2>2, <3>2, HasJob, ZenonT(30)
      <4>. QED BY <2>1, <4>1, DeploymentAssumption DEF WorkInv, Owned
    <3>. QED BY <3>1, <3>2, Zenon
  <2>4. Traced'
    BY <1>type, <2>1, DeploymentAssumption DEF WorkInv, Traced
  <2>5. Unexecuted'
    BY <1>type, <2>2 DEF WorkInv, Unexecuted
  <2>6. ExecutedOnce'
    BY <1>type, Zenon DEF WorkInv, ExecutedOnce
  <2>7. NotExecutedIsTrue'
    BY <1>type, <2>1, Zenon DEF WorkInv, NotExecutedIsTrue
  <2>. QED BY <2>2, <2>3, <2>4, <2>5, <2>6, <2>7, Zenon DEF WorkInv
<1>. QED BY <1>1, <1>2, Zenon DEF Claim

\* A stop claims what nobody did, to fail it.
LEMMA FailUnclaimedWork ==
    ASSUME StoreInv, RunnerTypeOK, Begun, WorkInv, NEW r \in Runner, FailUnclaimed(r)
    PROVE  WorkInv'
<1>type. /\ job[r] \in Number /\ TypeOK /\ step[r] = "unclaimed"
         /\ step \in [Runner -> Step]
         /\ executions \subseteq Number \X Runner \X Try
         /\ UNCHANGED <<job, try, proc, outlived, executions>>
  BY HasJob, Zenon DEF FailUnclaimed, StoreInv, RunnerTypeOK, work
<1>1. Current' /\ \A q \in Runner : step[q] # "new" => step'[q] # "new"
  <2>1. \E s \in {"failing", "stop"} : Go(r, s)
    BY Zenon DEF FailUnclaimed
  <2>. QED BY <1>type, <2>1, Zenon DEF WorkInv, Current, Alive, Go
<1>2. CASE Go(r, "stop") /\ (ClaimLost(job[r], r) \/ UNCHANGED vars)
  <2>1. \A e \in Number : Same(e)
    BY <1>2, <1>type, QuietFate, Zenon DEF vars, claims, Same
  <2>2. \A q \in Runner : step'[q] = "failing" => step[q] = "failing"
    BY <1>2, <1>type, Zenon DEF Go
  <2>. QED BY <1>type, <1>1, <2>1, <2>2, QuietWork, Zenon
<1>3. CASE Go(r, "failing") /\ (ClaimQueued(job[r], r) \/ ClaimAgain(job[r], r))
  <2>1. /\ runner'[job[r]] = r /\ ~run[job[r]].prepared
        /\ \A e \in Number : /\ run'[e].prepared = run[e].prepared
                             /\ run'[e].outcome = run[e].outcome
        /\ \A e \in Number : runner[e] # NoRunner => runner'[e] = runner[e]
    BY <1>3, <1>type, ClaimWins, Zenon
  <2>2. Owned'
    <3>1. \A q \in Runner, j \in Try : proc[q][j] # "none" => job[q] \in Number
      BY HasJob, Zenon
    <3>. QED BY <1>type, <2>1, <3>1, DeploymentAssumption DEF WorkInv, Owned
  <2>3. Traced'
    BY <1>type, <1>1, <2>1, DeploymentAssumption, SMTT(30) DEF WorkInv, Traced
  <2>4. \A x \in executions : x[2] # r
    BY <1>type, <2>1 DEF WorkInv, Traced
  <2>5. Unexecuted'
    BY <1>3, <1>type, <2>4, Zenon DEF WorkInv, Unexecuted, Go
  <2>6. ExecutedOnce'
    BY <1>type DEF WorkInv, ExecutedOnce
  <2>7. NotExecutedIsTrue'
    BY <1>type, <2>1, Zenon DEF WorkInv, NotExecutedIsTrue
  <2>. QED BY <1>1, <2>2, <2>3, <2>5, <2>6, <2>7, Zenon DEF WorkInv
<1>. QED BY <1>2, <1>3, Zenon DEF FailUnclaimed

\* The end of a Deployment is recorded by an attempt or a stop of its run; that it
\* wasn't executed only by one that knows.
LEMMA EndWork ==
    ASSUME TypeOK, RunnerTypeOK, Begun, WorkInv, Current', NEW r \in Runner,
           job[r] \in Number,
           \/ RecordAbandoned(job[r], r) \/ \E ev : RecordExecuted(job[r], r, ev)
           \/ /\ RecordNotExecuted(job[r], r)
              /\ r \notin outlived => \A x \in executions : x[2] # r,
           UNCHANGED <<executions, outlived, job>>,
           \A q \in Runner : step[q] # "new" => step'[q] # "new",
           \A q \in Runner : step'[q] = "failing" => step[q] = "failing",
           \A q \in Runner, j \in Try :
               proc'[q][j] = proc[q][j] \/ proc'[q][j] = "over"
    PROVE  WorkInv'
<1>. DEFINE d == job[r]
<1>1. /\ Holds(d, r) /\ runner' = runner
      /\ run'[d].prepared = run[d].prepared
      /\ \A e \in Number \ {d} : Same(e)
      /\ \/ run'[d].outcome # "not_executed"
         \/ run'[d].outcome = run[d].outcome
         \/ ~run[d].prepared
         \/ r \notin outlived => \A x \in executions : x[2] # r
  BY EndFate, Zenon
<1>2. \A e \in Number : run'[e].prepared = run[e].prepared
  BY <1>1, Zenon DEF Same
<1>3. executions \subseteq Number \X Runner \X Try
  BY Zenon DEF RunnerTypeOK
<1>4. Owned'
  <2>1. \A q \in Runner, j \in Try : proc[q][j] # "none" => job[q] \in Number
    BY HasJob, Zenon
  <2>. QED BY <1>1, <1>2, <2>1 DEF WorkInv, Owned
<1>5. Traced'
  BY <1>1, <1>2, <1>3, SMTT(30) DEF WorkInv, Traced
<1>6. Unexecuted'
  BY DEF WorkInv, Unexecuted
<1>7. ExecutedOnce'
  BY DEF WorkInv, ExecutedOnce
<1>8. NotExecutedIsTrue'
  <2>. SUFFICES ASSUME NEW x \in executions
                PROVE  run'[x[1]].outcome # "not_executed" \/ x[2] \in outlived
    BY Zenon DEF NotExecutedIsTrue
  <2>1. /\ x[1] \in Number /\ runner[x[1]] = x[2] /\ run[x[1]].prepared
        /\ run[x[1]].outcome # "not_executed" \/ x[2] \in outlived
    BY <1>3, ZenonT(30) DEF WorkInv, Traced, NotExecutedIsTrue
  <2>2. CASE x[1] # d
    BY <1>1, <2>1, <2>2, Zenon DEF Same
  <2>3. CASE x[1] = d
    <3>1. x[2] = r
      BY <1>1, <2>1, <2>3, Zenon DEF Holds
    <3>. QED BY <1>1, <2>1, <2>3, <3>1
  <2>. QED BY <2>2, <2>3, Zenon
<1>. QED BY <1>4, <1>5, <1>6, <1>7, <1>8, Zenon DEF WorkInv

-----------------------------------------------------------------------------
(* What records and the other steps do to who works on a Deployment. *)

\* An attempt reports, or says that nothing was executed.
LEMMA ReportWork ==
    ASSUME TypeOK, RunnerTypeOK, Begun, WorkInv, NEW r \in Runner, NEW k \in Try,
           Report(r, k) \/ NotExecuted(r, k)
    PROVE  WorkInv'
<1>1. /\ job[r] \in Number /\ Alive(r, k) /\ Turn(r, k, "over")
      /\ UNCHANGED <<job, step, try, outlived, executions>>
  BY HasJob, ZenonT(30) DEF Report, NotExecuted, Alive
<1>2. /\ Current'
      /\ \A q \in Runner, j \in Try : proc'[q][j] = proc[q][j] \/ proc'[q][j] = "over"
  <2>1. "over" \in Phase
    BY Zenon DEF Phase
  <2>2. Current /\ UNCHANGED <<step, try, outlived>>
    BY <1>1, Zenon DEF WorkInv
  <2>. QED BY <1>1, <2>1, <2>2, TurnCurrent
<1>3. CASE UNCHANGED vars
  <2>1. \A e \in Number : Same(e)
    BY <1>3, Zenon DEF vars, claims, Same
  <2>. QED BY <1>1, <1>2, <2>1, QuietWork, Zenon
<1>4. CASE /\ Report(r, k)
           /\ RecordAbandoned(job[r], r) \/ \E ev : RecordExecuted(job[r], r, ev)
  BY <1>1, <1>2, <1>4, EndWork, Zenon
<1>5. CASE NotExecuted(r, k) /\ RecordNotExecuted(job[r], r)
  <2>1. r \notin outlived => \A x \in executions : x[2] # r
    BY <1>5, Zenon DEF NotExecuted, WorkInv, Unexecuted
  <2>. QED BY <1>1, <1>2, <1>5, <2>1, EndWork, Zenon
<1>. QED BY <1>3, <1>4, <1>5, Zenon DEF Report, NotExecuted

\* A stop records that its run was abandoned, or that nothing ran.
LEMMA StopWork ==
    ASSUME TypeOK, RunnerTypeOK, Begun, WorkInv, NEW r \in Runner,
           Stop(r) \/ FailRecord(r)
    PROVE  WorkInv'
<1>1. /\ job[r] \in Number /\ step[r] \notin {"new", "running"}
      /\ step \in [Runner -> Step]
      /\ \E s \in {"stopped", "read", "stop"} : Go(r, s)
      /\ UNCHANGED <<job, try, proc, outlived, executions>>
  BY HasJob, Zenon DEF Stop, FailRecord, work, RunnerTypeOK
<1>2. /\ \A q \in Runner : step[q] # "new" => step'[q] # "new"
      /\ \A q \in Runner : step'[q] = "failing" => step[q] = "failing"
      /\ Current'
  BY <1>1, Zenon DEF Go, WorkInv, Current, Alive
<1>3. CASE UNCHANGED vars
  <2>1. \A e \in Number : Same(e)
    BY <1>3, Zenon DEF vars, claims, Same
  <2>. QED BY <1>1, <1>2, <2>1, QuietWork, Zenon
<1>4. CASE RecordAbandoned(job[r], r)
  BY <1>1, <1>2, <1>4, EndWork, Zenon
<1>5. CASE FailRecord(r) /\ RecordNotExecuted(job[r], r)
  <2>1. r \notin outlived => \A x \in executions : x[2] # r
    BY <1>5, Zenon DEF FailRecord, WorkInv, Unexecuted
  <2>. QED BY <1>1, <1>2, <1>5, <2>1, EndWork, Zenon
<1>. QED BY <1>3, <1>4, <1>5, Zenon DEF Stop, FailRecord

\* An attempt finds that it can't prepare: it executed nothing, and nor did its run.
LEMMA UnpreparedWork ==
    ASSUME TypeOK, RunnerTypeOK, Begun, WorkInv, NEW r \in Runner, NEW k \in Try,
           Unprepared(r, k)
    PROVE  WorkInv'
<1>1. /\ proc[r][k] = "prepare" /\ Alive(r, k) /\ Turn(r, k, "refuse")
      /\ UNCHANGED <<vars, job, step, try, outlived, executions>>
  BY Zenon DEF Unprepared, Alive
<1>2. /\ Current' /\ proc'[r][k] = "refuse"
      /\ \A q \in Runner, j \in Try : q # r \/ j # k => proc'[q][j] = proc[q][j]
  <2>1. "refuse" \in Phase
    BY Zenon DEF Phase
  <2>2. Current /\ UNCHANGED <<step, try, outlived>>
    BY <1>1, Zenon DEF WorkInv
  <2>. QED BY <1>1, <2>1, <2>2, TurnCurrent
<1>3. Owned'
  <2>1. runner' = runner /\ run' = run /\ job' = job /\ outlived' = outlived /\ Owned
    BY <1>1, Zenon DEF WorkInv, vars, claims
  <2>. QED BY <1>1, <1>2, <2>1 DEF Owned
<1>4. Unexecuted'
  <2>1. r \notin outlived => \A x \in executions : x[2] # r
    BY <1>1 DEF WorkInv, Owned, Traced
  <2>. QED BY <1>1, <1>2, <2>1, SMTT(30) DEF WorkInv, Unexecuted
<1>5. Traced' /\ ExecutedOnce' /\ NotExecutedIsTrue'
  BY <1>1, Zenon DEF WorkInv, Traced, ExecutedOnce, NotExecutedIsTrue, vars, claims
<1>. QED BY <1>2, <1>3, <1>4, <1>5, Zenon DEF WorkInv

\* An attempt records its preview and executes, or doesn't.
LEMMA PreparedWork ==
    ASSUME StoreInv, RunnerTypeOK, Begun, WorkInv, NEW r \in Runner, NEW k \in Try,
           Prepared(r, k)
    PROVE  WorkInv'
<1>. DEFINE d == job[r]
<1>type. /\ TypeOK /\ Fence /\ d \in Number
         /\ proc[r][k] = "prepare" /\ Alive(r, k)
         /\ executions \subseteq Number \X Runner \X Try
         /\ UNCHANGED <<job, step, try, outlived>>
  BY HasJob, Zenon DEF Prepared, StoreInv, Alive, RunnerTypeOK
<1>turn. Current /\ Alive(r, k) /\ UNCHANGED <<step, try, outlived>>
  BY <1>type, Zenon DEF WorkInv
<1>phase. {"over", "refuse", "execute"} \subseteq Phase
  BY Zenon DEF Phase
<1>1. CASE Turn(r, k, "over") /\ UNCHANGED <<vars, executions>>
  <2>1. \A e \in Number : Same(e)
    BY <1>1, Zenon DEF vars, claims, Same
  <2>2. /\ Current'
        /\ \A q \in Runner, j \in Try : proc'[q][j] = proc[q][j] \/ proc'[q][j] = "over"
    BY <1>1, <1>turn, <1>phase, TurnCurrent
  <2>. QED BY <1>1, <1>type, <2>1, <2>2, QuietWork, Zenon
<1>2. ASSUME \/ \E planned \in SUBSET Service : RecordPrepared(d, r, planned)
             \/ runner[d] = r /\ run[d].prepared /\ UNCHANGED vars,
             NEW p \in {"execute", "refuse"}, Turn(r, k, p),
             executions' = IF p = "execute" THEN executions \cup {<<d, r, k>>}
                                            ELSE executions
      PROVE  WorkInv'
  <2>1. /\ runner' = runner /\ runner[d] = r
        /\ run'[d].prepared /\ \A e \in Number : run'[e].outcome = run[e].outcome
        /\ \A e \in Number \ {d} : run'[e].prepared = run[e].prepared
        /\ ~run[d].prepared => Holds(d, r)
    <3>1. CASE \E planned \in SUBSET Service : RecordPrepared(d, r, planned)
      BY <1>type, <3>1, PreparedFate, ZenonT(30) DEF Same, Holds
    <3>2. CASE runner[d] = r /\ run[d].prepared /\ UNCHANGED vars
      BY <3>2, Zenon DEF vars, claims
    <3>. QED BY <1>2, <3>1, <3>2, Zenon
  <2>2. /\ Current' /\ proc'[r][k] = p
        /\ \A q \in Runner, j \in Try : q # r \/ j # k => proc'[q][j] = proc[q][j]
    <3>1. p \in Phase /\ Turn(r, k, p)
      BY <1>2, <1>phase, Zenon
    <3>. QED BY <3>1, <1>turn, TurnCurrent
  <2>3. r \notin outlived => /\ ~run[d].prepared /\ Holds(d, r)
                             /\ \A x \in executions : x[2] # r /\ x[1] # d
    BY <1>type, <2>1 DEF WorkInv, Owned, Traced
  <2>4. r \notin outlived => \A j \in Try \ {k} : ~Alive(r, j)
    BY <1>type, Zenon DEF WorkInv, Current
  <2>5. Owned'
    <3>. SUFFICES ASSUME NEW q \in Runner, NEW j \in Try
                  PROVE  /\ proc'[q][j] \in {"prepare", "refuse", "execute"}
                               => runner'[job[q]] = q
                         /\ proc'[q][j] = "prepare" /\ q \notin outlived
                               => ~run'[job[q]].prepared
      BY <1>type, Zenon DEF Owned
    <3>1. CASE q = r /\ j = k
      BY <1>2, <2>1, <2>2, <3>1, ZenonT(30)
    <3>2. CASE q = r /\ j # k
      BY <2>1, <2>2, <2>4, <3>2 DEF Alive, WorkInv, Owned
    <3>3. CASE q # r
      <4>1. proc'[q][j] = proc[q][j] /\ (proc[q][j] # "none" => job[q] \in Number)
        BY <2>2, <3>3, HasJob, Zenon
      <4>2. proc[q][j] \in {"prepare", "refuse", "execute"} => runner[job[q]] = q
        BY Zenon DEF WorkInv, Owned
      <4>. QED BY <2>1, <3>3, <4>1, <4>2, Zenon DEF WorkInv, Owned
    <3>. QED BY <3>1, <3>2, <3>3, Zenon
  <2>6. Traced'
    <3>1. step[r] # "new"
      BY <1>type, Zenon DEF Begun
    <3>2. \A x \in executions : run'[x[1]].prepared
      BY <1>type, <2>1, Zenon DEF WorkInv, Traced
    <3>. QED BY <1>2, <1>type, <2>1, <3>1, <3>2 DEF WorkInv, Traced
  <2>7. Unexecuted'
    <3>. SUFFICES ASSUME NEW q \in Runner, q \notin outlived,
                         step[q] = "failing" \/ \E j \in Try : proc'[q][j] = "refuse"
                  PROVE  \A x \in executions' : x[2] # q
      BY <1>type, Zenon DEF Unexecuted
    <3>1. CASE q # r
      BY <1>2, <2>2, <3>1 DEF WorkInv, Unexecuted
    <3>2. CASE q = r
      <4>1. step[r] # "failing"
        BY <1>type, <3>2, Zenon DEF WorkInv, Current
      <4>2. PICK j \in Try : proc'[r][j] = "refuse"
        BY <3>2, <4>1, Zenon
      <4>3. j = k
        BY <2>2, <2>4, <3>2, <4>2, Zenon DEF Alive
      <4>. QED BY <1>2, <2>2, <2>3, <3>2, <4>2, <4>3, Zenon
    <3>. QED BY <3>1, <3>2, Zenon
  <2>8. ExecutedOnce'
    <3>1. \A x \in executions : x[1] = d => x[2] = r /\ r \in outlived
      BY <2>1, <2>3, Zenon DEF WorkInv, Traced
    <3>2. CASE p = "refuse"
      BY <1>2, <1>type, <3>2, ZenonT(30) DEF WorkInv, ExecutedOnce
    <3>3. CASE p = "execute"
      BY <1>2, <1>type, <3>1, <3>3, SMTT(30) DEF WorkInv, ExecutedOnce
    <3>. QED BY <3>2, <3>3, Zenon
  <2>9. NotExecutedIsTrue'
    <3>1. r \notin outlived => run[d].outcome = "none"
      BY <1>type, <2>3, Zenon DEF Fence, Holds, Read, Ended, Claimed
    <3>. QED BY <1>2, <1>type, <2>1, <3>1 DEF WorkInv, NotExecutedIsTrue
  <2>. QED BY <2>2, <2>5, <2>6, <2>7, <2>8, <2>9, Zenon DEF WorkInv
<1>. QED BY <1>1, <1>2, Zenon DEF Prepared

\* It is no work.
LEMMA IdleWork ==
    ASSUME StoreInv, RunnerTypeOK, Begun, WorkInv, IdleStep
    PROVE  WorkInv'
<1>type. step \in [Runner -> Step] /\ job \in [Runner -> 0..MaxDeployments]
  BY Zenon DEF RunnerTypeOK
<1>1. \A e \in Number : Same(e)
  BY IdleFate, Zenon
<1>2. UNCHANGED <<try, proc, outlived, executions>>
  BY IdleFate, Zenon DEF work
<1>3. \/ UNCHANGED <<step, job>>
      \/ \E r \in Runner, d \in Number :
            /\ step[r] = "new" /\ step' = [step EXCEPT ![r] = "record"]
            /\ job' = [job EXCEPT ![r] = d]
  BY IdleFate, Zenon
<1>4. /\ \A r \in Runner : step[r] # "new" => job'[r] = job[r] /\ step'[r] # "new"
      /\ \A r \in Runner : step'[r] = "failing" => step[r] = "failing"
      /\ \A r \in Runner : step[r] = "running" => step'[r] = "running"
  BY <1>3, <1>type, Zenon
<1>5. Current'
  BY <1>2, <1>4, Zenon DEF WorkInv, Current, Alive
<1>. QED BY <1>1, <1>2, <1>4, <1>5, QuietWork, Zenon

\* Every step keeps it.
LEMMA WorkStep ==
    StoreInv /\ RunnerTypeOK /\ Begun /\ WorkInv /\ [SystemNext]_all => WorkInv'
<1>. SUFFICES ASSUME StoreInv, RunnerTypeOK, Begun, WorkInv, [SystemNext]_all
              PROVE  WorkInv'
  BY Zenon
<1>1. TypeOK
  BY Zenon DEF StoreInv
<1>2. UNCHANGED all => UNCHANGED hand /\ UNCHANGED vars
  BY Zenon DEF all
<1>. QED BY <1>1, <1>2, IdleWork, RunWork, ClaimWork, FailUnclaimedWork, ReportWork,
            StopWork, UnpreparedWork, PreparedWork, Zenon
         DEF SystemNext, Progress, RunStep, AttemptStep, IdleStep

\* It holds in every reachable state.
LEMMA WorkHolds == System => []WorkInv
<1>1. SystemInit => WorkInv
  BY DEF SystemInit, WorkInv, Owned, Current, Alive, Traced, Unexecuted, ExecutedOnce,
         NotExecutedIsTrue
<1>. QED BY <1>1, WorkStep, StoreInvHolds, RunnerTypeCorrect, PTL DEF System

\* In every reachable state no Deployment was executed twice, whatever was delivered
\* twice, retried, failed, cancelled or dropped, but by attempts of one run that
\* overlapped: claim refuses the runs that come late and the attempts that come after.
THEOREM ExecutedOnceHolds == System => []ExecutedOnce
<1>1. WorkInv => ExecutedOnce
  BY Zenon DEF WorkInv
<1>. QED BY <1>1, WorkHolds, PTL

\* In every reachable state what the Store records as not executed wasn't, with the
\* same exception: neither a stop nor a failed attempt says so of what ran.
THEOREM NotExecutedIsTrueHolds == System => []NotExecutedIsTrue
<1>1. WorkInv => NotExecutedIsTrue
  BY Zenon DEF WorkInv
<1>. QED BY <1>1, WorkHolds, PTL

-----------------------------------------------------------------------------
(***************************************************************************)
(* No Deployment is held for nobody.                                       *)
(***************************************************************************)
\* A runner holds no Deployment but its run's, and none before the run is recorded.
Bound ==
    \A d \in Number, r \in Runner :
        runner[d] = r => step[r] \notin {"new", "record"} /\ job[r] = d

\* A run that goes on is on record: its cancellation finds it.
OnRecord == \A r \in Runner : step[r] \in {"ready", "running", "forget"} => r \in recorded

\* Nothing is left to be done for r's Deployment but by its attempts.
Waiting(r) ==
    \/ step[r] \in {"forget", "read", "unclaimed", "stopped", "done"}
    \/ step[r] = "running" /\ proc[r][try[r]] # "claim"

\* There is one that will end it; with a Deploy Preview, one that got past it: an
\* attempt whose preview is refused leaves it to that one.
Attended(r) ==
    Waiting(r) /\ Holds(job[r], r) =>
        /\ \E k \in Try : Alive(r, k)
        /\ run[job[r]].prepared => \E k \in Try : proc[r][k] \in {"refuse", "execute"}

KeepInv == Bound /\ OnRecord /\ \A r \in Runner : Attended(r)

\* Only a claim makes a runner hold a Deployment.
LEMMA HoldsFate ==
    ASSUME StoreInv, [Next]_vars, NEW d \in Number, NEW r \in Runner, Holds(d, r)'
    PROVE  Holds(d, r) \/ runner[d] = NoRunner
<1>type. /\ TypeOK /\ Fence /\ status \in [Number -> Status]
         /\ lease \in [Number -> Nat] /\ now \in Nat
         /\ runner \in [Number -> Runner \cup {NoRunner}]
  BY Zenon DEF StoreInv, TypeOK
<1>0. /\ runner'[d] = r /\ status'[d] \in Claimed /\ ~(lease'[d] <= now')
  BY Zenon DEF Holds, Read, Lapsed, Claimed
<1>same. ASSUME status[d] \in Claimed, lease'[d] = lease[d], runner'[d] = runner[d],
                now' \in Nat, now <= now'
         PROVE  Holds(d, r)
  BY <1>0, <1>type, <1>same DEF Holds, Read, Lapsed, Claimed
<1>1. ASSUME NEW new \in {"queued", "applied"}, AdmitStep(new)
      PROVE  Holds(d, r)
  <2>1. status[d] \in Claimed /\ UNCHANGED <<runner, lease, now>>
    BY <1>0, <1>1, Zenon DEF AdmitStep, Superseding, Claimed
  <2>. QED BY <1>same, <1>type, <2>1
<1>2. ASSUME NEW e \in Number, NEW q \in Runner, ClaimQueued(e, q)
      PROVE  Holds(d, r) \/ runner[d] = NoRunner
  <2>1. status'[d] = IF d = e THEN "running" ELSE IF status[d] \in Claimed THEN "unknown"
                                             ELSE status[d]
    BY <1>2, Zenon DEF ClaimQueued
  <2>2. d = e
    BY <1>0, <2>1, Zenon DEF Claimed
  <2>. QED BY <1>2, <1>type, <2>2, Zenon DEF ClaimQueued, Fence
<1>3. ASSUME NEW e \in Number, HeldStep(e)
      PROVE  Holds(d, r)
  <2>1. CASE e = d
    BY <1>0, <1>3, <2>1, Zenon DEF HeldStep, Holds
  <2>2. CASE e # d
    <3>1. status[d] \in Claimed /\ lease'[d] = lease[d] /\ UNCHANGED <<runner, now>>
      BY <1>0, <1>3, <1>type, <2>2, ZenonT(30) DEF HeldStep
    <3>. QED BY <1>same, <1>type, <3>1
  <2>. QED BY <2>1, <2>2, Zenon
<1>4. ASSUME NEW e \in Number, Cancel(e)
      PROVE  Holds(d, r)
  <2>1. status[d] \in Claimed
    BY <1>0, <1>4, <1>type, Zenon DEF Cancel, Read, Claimed
  <2>. QED BY <1>same, <1>4, <1>type, <2>1 DEF Cancel, claims
<1>5. CASE ForgetCluster
  <2>1. status[d] \in Claimed
    BY <1>0, <1>5, Zenon DEF ForgetCluster, Claimed
  <2>. QED BY <1>same, <1>5, <1>type, <2>1 DEF ForgetCluster, claims
<1>6. CASE Tick \/ UNCHANGED vars
  <2>1. status[d] \in Claimed
    BY <1>0, <1>6, Zenon DEF Tick, vars
  <2>2. now' \in Nat /\ now <= now' /\ UNCHANGED <<lease, runner>>
    BY <1>6, <1>type DEF Tick, vars, claims
  <2>. QED BY <1>same, <2>1, <2>2, Zenon
<1>. QED BY <1>type, <1>1, <1>2, <1>3, <1>4, <1>5, <1>6, StepOutline, Zenon

\* An end, and a claim that comes too late, let go.
LEMMA EndReleases ==
    ASSUME TypeOK, NEW d \in Number, NEW r \in Runner,
           \/ RecordNotExecuted(d, r) \/ RecordAbandoned(d, r) \/ ClaimLost(d, r)
           \/ \E ev : RecordExecuted(d, r, ev)
    PROVE  ~Holds(d, r)' /\ runner' = runner
<1>1. status'[d] \in Ended /\ runner' = runner
  <2>1. CASE ClaimLost(d, r)
    BY <2>1, Zenon DEF ClaimLost, Ended, TypeOK, claims
  <2>2. CASE \/ RecordNotExecuted(d, r) \/ RecordAbandoned(d, r)
             \/ \E ev : RecordExecuted(d, r, ev)
    BY <2>2, EndFate, Zenon
  <2>. QED BY <2>1, <2>2, Zenon
<1>. QED BY <1>1, Zenon DEF Holds, Read, Lapsed, Ended, Claimed

\* What one run's step leaves alone: the other runs, what others hold, and its own
\* Deployment.
Acts(r) ==
    /\ \A q \in Runner \ {r} : /\ step'[q] = step[q] /\ try'[q] = try[q]
                               /\ job'[q] = job[q] /\ proc'[q] = proc[q]
                               /\ q \in recorded => q \in recorded'
    /\ step[r] # "new" => job'[r] = job[r]
    /\ step[r] \notin {"new", "record"} => step'[r] \notin {"new", "record"}
    /\ \A e \in Number :
          /\ \/ runner'[e] = runner[e]
             \/ /\ runner[e] = NoRunner /\ runner'[e] = r
                /\ e = job[r] /\ step[r] \notin {"new", "record"}
          /\ run'[e].prepared = run[e].prepared \/ runner[e] = r

\* The rest of the invariant is about r itself.
LEMMA ActsKeep ==
    ASSUME StoreInv, RunnerTypeOK, Begun, KeepInv, [Next]_vars, NEW r \in Runner, Acts(r),
           step'[r] \in {"ready", "running", "forget"} => r \in recorded',
           Attended(r)'
    PROVE  KeepInv'
<1>1. Bound'
  <2>1. \A d \in Number, q \in Runner :
            runner[d] = q => step[q] \notin {"new", "record"} /\ job[q] = d
    BY Zenon DEF KeepInv, Bound
  <2>. QED BY <2>1, DeploymentAssumption DEF Bound, Acts
<1>2. OnRecord'
  BY Zenon DEF KeepInv, OnRecord, Acts
<1>3. ASSUME NEW q \in Runner, q # r
      PROVE  Attended(q)'
  <2>. SUFFICES ASSUME Waiting(q)', Holds(job[q], q)'
                PROVE  /\ \E k \in Try : Alive(q, k)
                       /\ run'[job[q]].prepared
                             => \E k \in Try : proc[q][k] \in {"refuse", "execute"}
    BY <1>3, Zenon DEF Acts, Attended, Alive
  <2>1. Waiting(q)
    BY <1>3, Zenon DEF Acts, Waiting
  <2>2. job[q] \in Number
    BY <2>1, HasJob, Zenon DEF Waiting
  <2>3. runner'[job[q]] = q /\ runner[job[q]] = q
    BY <1>3, <2>2, Zenon DEF Acts, Holds
  <2>4. Holds(job[q], q)
    <3>1. PICK e \in Number : e = job[q]
      BY <2>2, Zenon
    <3>2. Holds(e, q)'
      BY <1>3, <3>1, Zenon DEF Acts, Holds, Read, Lapsed
    <3>3. Holds(e, q) \/ runner[e] = NoRunner
      BY <3>2, HoldsFate, Zenon
    <3>. QED BY <2>3, <3>1, <3>3, DeploymentAssumption, Zenon
  <2>5. run'[job[q]].prepared = run[job[q]].prepared
    BY <1>3, <2>2, <2>3, Zenon DEF Acts
  <2>. QED BY <2>1, <2>4, <2>5, Zenon DEF KeepInv, Attended
<1>. QED BY <1>1, <1>2, <1>3, Zenon DEF KeepInv

\* A run that keeps its Deployment, and doesn't claim it, holds it only if it did.
LEMMA StillHolds ==
    ASSUME StoreInv, [Next]_vars, NEW r \in Runner, job[r] \in Number, job'[r] = job[r],
           runner'[job[r]] = runner[job[r]], Holds(job[r], r)'
    PROVE  Holds(job[r], r)
<1>1. PICK e \in Number : e = job[r]
  BY Zenon
<1>2. Holds(e, r)' /\ runner[e] = r
  BY <1>1, Zenon DEF Holds, Read, Lapsed
<1>. QED BY <1>1, <1>2, HoldsFate, DeploymentAssumption, Zenon

\* A run that ended its Deployment doesn't hold it.
LEMMA LetGo ==
    ASSUME TypeOK, NEW r \in Runner, job[r] \in Number, job'[r] = job[r],
           \/ RecordNotExecuted(job[r], r) \/ RecordAbandoned(job[r], r)
           \/ ClaimLost(job[r], r) \/ \E ev : RecordExecuted(job[r], r, ev)
    PROVE  ~Holds(job[r], r)'
<1>1. PICK e \in Number : e = job[r]
  BY Zenon
<1>2. ~Holds(e, r)'
  BY <1>1, EndReleases, Zenon
<1>. QED BY <1>1, <1>2, Zenon DEF Holds, Read, Lapsed

\* Steps that leave the Store's claims and previews alone act for nobody else.
LEMMA SameActs ==
    ASSUME NEW r \in Runner, \A e \in Number : Same(e),
           \A q \in Runner \ {r} : /\ step'[q] = step[q] /\ try'[q] = try[q]
                                   /\ job'[q] = job[q] /\ proc'[q] = proc[q]
                                   /\ q \in recorded => q \in recorded',
           step[r] # "new" => job'[r] = job[r],
           step[r] \notin {"new", "record"} => step'[r] \notin {"new", "record"}
    PROVE  Acts(r)
BY Zenon DEF Acts, Same

\* Inngest's own steps: a run is over only when nothing is left to be told.
LEMMA RunKeep ==
    ASSUME StoreInv, RunnerTypeOK, Begun, KeepInv, [Next]_vars, NEW r \in Runner,
           \/ RecordRun(r) \/ StartAttempt(r) \/ Returns(r) \/ Lose(r) \/ FailRun(r)
           \/ ForgetRun(r) \/ CancelRun(r) \/ DropRun(r) \/ ReadUnclaimed(r)
    PROVE  KeepInv'
<1>type. /\ step \in [Runner -> Step] /\ try \in [Runner -> Try] /\ try[r] \in Try
         /\ proc \in [Runner -> [Try -> Phase]]
         /\ step[r] # "new" /\ job[r] \in Number
         /\ UNCHANGED <<vars, job>>
  <2>1. step[r] # "new" /\ UNCHANGED <<vars, job>>
    BY Zenon DEF RecordRun, StartAttempt, Returns, Lose, FailRun, ForgetRun, CancelRun, DropRun,
           ReadUnclaimed, Active
  <2>. QED BY <2>1, HasJob, Zenon DEF RunnerTypeOK
<1>0. \A e \in Number : Same(e)
  BY <1>type, Zenon DEF vars, claims, Same
<1>1. \E s \in Step \ {"new", "record"} : Go(r, s)
  BY Zenon DEF RecordRun, StartAttempt, Returns, Lose, FailRun, ForgetRun, CancelRun, DropRun,
         ReadUnclaimed, Step, Active
<1>2. Acts(r)
  <2>1. /\ \A q \in Runner \ {r} : step'[q] = step[q]
        /\ step'[r] \notin {"new", "record"}
    BY <1>type, <1>1, Zenon DEF Go
  <2>2. \A q \in Runner \ {r} : try'[q] = try[q] /\ proc'[q] = proc[q]
                                /\ (q \in recorded => q \in recorded')
    BY <1>type, Zenon DEF RecordRun, StartAttempt, Returns, Lose, FailRun, ForgetRun, CancelRun,
                   DropRun, ReadUnclaimed, GiveUp, Turn, work
  <2>. QED BY <1>type, <1>0, <2>1, <2>2, SameActs, Zenon
<1>3. step'[r] \in {"ready", "running", "forget"} => r \in recorded'
  BY <1>type, Zenon DEF RecordRun, StartAttempt, Returns, Lose, FailRun, ForgetRun, CancelRun,
         DropRun, ReadUnclaimed, Go, KeepInv, OnRecord
<1>4. Attended(r)'
  <2>. SUFFICES ASSUME Waiting(r)', Holds(job[r], r)'
                PROVE  /\ \E k \in Try : Alive(r, k)'
                       /\ run'[job'[r]].prepared
                             => \E k \in Try : proc'[r][k] \in {"refuse", "execute"}
    BY Zenon DEF Attended
  <2>1. Holds(job[r], r)
    BY <1>type, StillHolds, Zenon DEF vars, claims
  <2>2. CASE Returns(r) \/ ForgetRun(r) \/ ReadUnclaimed(r)
    <3>1. Waiting(r) /\ UNCHANGED proc
      BY <2>2, Zenon DEF Returns, ForgetRun, ReadUnclaimed, work, Waiting
    <3>. QED BY <1>type, <2>1, <3>1, Zenon DEF KeepInv, Attended, Alive, vars
  <2>3. CASE CancelRun(r)
    <3>1. step'[r] \in {"stop", "done"} /\ (step'[r] = "done" => r \notin recorded)
      BY <1>type, <2>3, Zenon DEF CancelRun, Go
    <3>2. step[r] = "record"
      BY <2>3, <3>1, Zenon DEF CancelRun, Active, Waiting, KeepInv, OnRecord
    <3>. QED BY <1>type, <2>1, <3>2, Zenon DEF KeepInv, Bound, Holds
  <2>4. CASE RecordRun(r) \/ StartAttempt(r) \/ Lose(r) \/ FailRun(r) \/ DropRun(r)
    <3>1. CASE StartAttempt(r)
      BY <1>type, <3>1, Zenon DEF StartAttempt, Go, Turn, Waiting
    <3>2. CASE RecordRun(r) \/ Lose(r) \/ FailRun(r) \/ DropRun(r)
      BY <1>type, <3>2, Zenon DEF RecordRun, Lose, FailRun, DropRun, Go, Waiting
    <3>. QED BY <2>4, <3>1, <3>2, Zenon
  <2>. QED BY <2>2, <2>3, <2>4, Zenon
<1>. QED BY <1>2, <1>3, <1>4, ActsKeep, Zenon

\* A stop lets go of its run's Deployment before it is done.
LEMMA StopKeep ==
    ASSUME StoreInv, RunnerTypeOK, Begun, KeepInv, [Next]_vars, NEW r \in Runner,
           Stop(r) \/ FailUnclaimed(r) \/ FailRecord(r)
    PROVE  KeepInv'
<1>type. /\ step \in [Runner -> Step] /\ job[r] \in Number /\ TypeOK
         /\ step[r] \notin {"new", "record"}
         /\ UNCHANGED <<job, try, proc, recorded>>
         /\ \E s \in {"stopped", "read", "stop", "failing"} : Go(r, s)
  BY HasJob, Zenon DEF Stop, FailUnclaimed, FailRecord, work, RunnerTypeOK, StoreInv
<1>1. \A e \in Number :
          /\ \/ runner'[e] = runner[e]
             \/ runner[e] = NoRunner /\ runner'[e] = r /\ e = job[r]
          /\ run'[e].prepared = run[e].prepared
  <2>1. CASE ClaimQueued(job[r], r)
    BY <1>type, <2>1, ClaimFate DEF Same
  <2>2. CASE ClaimAgain(job[r], r) \/ ClaimLost(job[r], r)
    BY <1>type, <2>2, QuietFate, Zenon DEF Same
  <2>3. CASE RecordAbandoned(job[r], r) \/ RecordNotExecuted(job[r], r)
    BY <1>type, <2>3, EndFate, Zenon DEF Same
  <2>4. CASE UNCHANGED vars
    BY <2>4, Zenon DEF vars, claims
  <2>. QED BY <2>1, <2>2, <2>3, <2>4, ZenonT(30) DEF Stop, FailUnclaimed, FailRecord
<1>2. Acts(r)
  BY <1>type, <1>1, Zenon DEF Acts, Go
<1>3. step'[r] \in {"stopped", "read", "stop", "failing"}
  BY <1>type, Zenon DEF Go
<1>4. Attended(r)'
  <2>. SUFFICES ASSUME Waiting(r)', Holds(job[r], r)' PROVE FALSE
    BY Zenon DEF Attended
  <2>1. step'[r] \in {"stopped", "read"}
    BY <1>3, Zenon DEF Waiting
  <2>2. \/ RecordAbandoned(job[r], r) \/ RecordNotExecuted(job[r], r)
        \/ ~Holds(job[r], r) /\ UNCHANGED vars
    BY <1>type, <2>1, Zenon DEF Stop, FailUnclaimed, FailRecord, Accounted, Go
  <2>. QED BY <1>type, <2>2, LetGo, StillHolds, Zenon DEF vars, claims
<1>. QED BY <1>2, <1>3, <1>4, ActsKeep, Zenon

\* An attempt is over only when its Deployment is let go, or another goes on with it.
LEMMA AttemptKeep ==
    ASSUME StoreInv, RunnerTypeOK, Begun, KeepInv, [Next]_vars,
           NEW r \in Runner, NEW k \in Try, AttemptStep(r, k)
    PROVE  KeepInv'
<1>type. /\ proc \in [Runner -> [Try -> Phase]] /\ try[r] \in Try
         /\ job[r] \in Number /\ TypeOK
         /\ proc[r][k] # "none" /\ step[r] \notin {"new", "record"}
         /\ UNCHANGED <<job, step, try, recorded>>
  <2>1. proc[r][k] # "none" /\ UNCHANGED <<job, step, try, recorded>>
    BY Zenon DEF AttemptStep, Claim, Unprepared, Prepared, Report, NotExecuted
  <2>. QED BY <2>1, HasJob, Zenon DEF RunnerTypeOK, StoreInv, Begun
<1>1. \E p \in Phase : Turn(r, k, p)
  BY Zenon DEF AttemptStep, Claim, Unprepared, Prepared, Report, NotExecuted, Phase
<1>2. Acts(r)
  <2>1. \A q \in Runner \ {r} : proc'[q] = proc[q]
    BY <1>type, <1>1, Zenon DEF Turn
  <2>2. \A e \in Number :
            /\ \/ runner'[e] = runner[e]
               \/ runner[e] = NoRunner /\ runner'[e] = r /\ e = job[r]
            /\ run'[e].prepared = run[e].prepared \/ runner[e] = r
    <3>1. CASE ClaimQueued(job[r], r)
      BY <1>type, <3>1, ClaimFate DEF Same
    <3>2. CASE ClaimAgain(job[r], r) \/ ClaimLost(job[r], r)
      BY <1>type, <3>2, QuietFate, ZenonT(30) DEF Same
    <3>3. CASE \E planned \in SUBSET Service : RecordPrepared(job[r], r, planned)
      BY <1>type, <3>3, PreparedFate DEF Same, Holds
    <3>4. CASE \/ RecordAbandoned(job[r], r) \/ RecordNotExecuted(job[r], r)
               \/ \E ev : RecordExecuted(job[r], r, ev)
      BY <1>type, <3>4, EndFate, Zenon DEF Same
    <3>5. CASE UNCHANGED vars
      BY <3>5, Zenon DEF vars, claims
    <3>. QED BY <3>1, <3>2, <3>3, <3>4, <3>5, ZenonT(30)
             DEF AttemptStep, Claim, Unprepared, Prepared, Report, NotExecuted
  <2>. QED BY <1>type, <2>1, <2>2, Zenon DEF Acts
<1>3. step'[r] \in {"ready", "running", "forget"} => r \in recorded'
  BY <1>type, Zenon DEF KeepInv, OnRecord
<1>4. Attended(r)'
  <2>. SUFFICES ASSUME Waiting(r)', Holds(job[r], r)'
                PROVE  /\ \E j \in Try : Alive(r, j)'
                       /\ run'[job'[r]].prepared
                             => \E j \in Try : proc'[r][j] \in {"refuse", "execute"}
    BY Zenon DEF Attended
  <2>1. CASE Turn(r, k, "refuse") \/ Turn(r, k, "execute")
    <3>1. proc'[r][k] \in {"refuse", "execute"}
      BY <1>type, <2>1, Zenon DEF Turn
    <3>. QED BY <3>1, Zenon DEF Alive
  <2>2. CASE /\ Turn(r, k, "prepare")
             /\ ClaimQueued(job[r], r) \/ ClaimAgain(job[r], r)
    <3>1. proc'[r][k] = "prepare"
      BY <1>type, <2>2, Zenon DEF Turn
    <3>2. ~run'[job[r]].prepared
      BY <1>type, <2>2, ClaimWins, Zenon
    <3>. QED BY <1>type, <3>1, <3>2, Zenon DEF Alive
  <2>3. CASE \/ RecordAbandoned(job[r], r) \/ RecordNotExecuted(job[r], r)
             \/ ClaimLost(job[r], r) \/ \E ev : RecordExecuted(job[r], r, ev)
    BY <1>type, <2>3, LetGo, Zenon
  <2>4. CASE ~Holds(job[r], r) /\ UNCHANGED vars
    BY <1>type, <2>4, StillHolds, Zenon DEF vars, claims
  <2>5. CASE /\ proc[r][k] = "prepare" /\ run[job[r]].prepared
             /\ Turn(r, k, "over") /\ UNCHANGED vars
    <3>1. Holds(job[r], r)
      BY <1>type, <2>5, StillHolds, Zenon DEF vars, claims
    <3>2. Waiting(r)
      BY <1>type, <2>5, Zenon DEF Waiting, Turn
    <3>3. PICK j \in Try : proc[r][j] \in {"refuse", "execute"}
      BY <2>5, <3>1, <3>2, Zenon DEF KeepInv, Attended
    <3>4. proc'[r][j] = proc[r][j]
      BY <1>type, <2>5, <3>3, Zenon DEF Turn
    <3>. QED BY <3>3, <3>4, Zenon DEF Alive
  <2>. QED BY <2>1, <2>2, <2>3, <2>4, <2>5, Zenon
           DEF AttemptStep, Claim, Unprepared, Prepared, Report, NotExecuted
<1>. QED BY <1>2, <1>3, <1>4, ActsKeep, Zenon

\* What is no work changes neither what a run holds nor who attends to it.
LEMMA IdleKeep ==
    ASSUME StoreInv, RunnerTypeOK, Begun, KeepInv, [Next]_vars, IdleStep
    PROVE  KeepInv'
<1>type. step \in [Runner -> Step] /\ job \in [Runner -> 0..MaxDeployments]
  BY Zenon DEF RunnerTypeOK
<1>1. \A e \in Number : Same(e)
  BY IdleFate, Zenon
<1>2. UNCHANGED <<try, proc, recorded>>
  BY IdleFate, Zenon DEF work
<1>3. \/ UNCHANGED <<step, job>>
      \/ \E r \in Runner, d \in Number :
            /\ step[r] = "new" /\ step' = [step EXCEPT ![r] = "record"]
            /\ job' = [job EXCEPT ![r] = d]
  BY IdleFate, Zenon
<1>4. \A r \in Runner : \/ step'[r] = step[r] /\ job'[r] = job[r]
                        \/ step[r] = "new" /\ step'[r] = "record"
  BY <1>3, <1>type, ZenonT(30)
<1>5. Bound'
  BY <1>1, <1>4 DEF KeepInv, Bound, Same
<1>6. OnRecord'
  BY <1>2, <1>4, Zenon DEF KeepInv, OnRecord
<1>7. ASSUME NEW r \in Runner PROVE Attended(r)'
  <2>. SUFFICES ASSUME Waiting(r)', Holds(job[r], r)'
                PROVE  /\ \E k \in Try : Alive(r, k)
                       /\ run'[job'[r]].prepared
                             => \E k \in Try : proc[r][k] \in {"refuse", "execute"}
    BY <1>2, Zenon DEF Attended, Alive
  <2>1. step'[r] = step[r] /\ job'[r] = job[r]
    BY <1>4, Zenon DEF Waiting
  <2>2. Waiting(r)
    BY <1>2, <2>1, Zenon DEF Waiting
  <2>3. job[r] \in Number
    BY <2>2, HasJob, Zenon DEF Waiting
  <2>4. Holds(job[r], r)
    BY <1>1, <2>1, <2>3, StillHolds, Zenon DEF Same
  <2>. QED BY <1>1, <2>1, <2>2, <2>3, <2>4, Zenon DEF KeepInv, Attended, Same
<1>. QED BY <1>5, <1>6, <1>7, Zenon DEF KeepInv

\* Every step keeps it.
LEMMA KeepStep ==
    /\ StoreInv /\ RunnerTypeOK /\ Begun /\ KeepInv
    /\ [Next]_vars /\ [SystemNext]_all
    => KeepInv'
<1>. SUFFICES ASSUME StoreInv, RunnerTypeOK, Begun, KeepInv, [Next]_vars, [SystemNext]_all
              PROVE  KeepInv'
  BY Zenon
<1>1. UNCHANGED all => UNCHANGED hand /\ UNCHANGED vars
  BY Zenon DEF all
<1>. QED BY <1>1, IdleKeep, RunKeep, StopKeep, AttemptKeep, Zenon
         DEF SystemNext, Progress, RunStep, IdleStep

\* It holds in every reachable state.
LEMMA KeepHolds == System => []KeepInv
<1>1. SystemInit => KeepInv
  <2> SUFFICES ASSUME SystemInit PROVE KeepInv
    BY Zenon
  <2>1. \A r \in Runner : step[r] = "new"
    BY Zenon DEF SystemInit
  <2>2. \A d \in Number : runner[d] \notin Runner
    BY DeploymentAssumption, Zenon DEF SystemInit, Init
  <2>. QED BY <2>1, <2>2, Zenon DEF KeepInv, Bound, OnRecord, Attended, Waiting
<1>2. System => [][Next]_vars
  BY StoreImplemented, PTL DEF Spec
<1>. QED BY <1>1, <1>2, KeepStep, StoreInvHolds, RunnerTypeCorrect, PTL DEF System

\* In every reachable state a claimed Deployment whose run is over still has an attempt
\* that ends it, however the run came to its end; only a dropped run leaves one behind.
THEOREM RunningForSomebodyHolds == System => []RunningForSomebody
<1>1. KeepInv => RunningForSomebody
  <2>. SUFFICES ASSUME KeepInv, NEW d \in Number, NEW r \in Runner,
                       Holds(d, r), step[r] = "done"
                PROVE  \E k \in Try : Alive(r, k)
    BY Zenon DEF RunningForSomebody
  <2>1. job[r] = d
    BY Zenon DEF KeepInv, Bound, Holds
  <2>. QED BY <2>1, Zenon DEF KeepInv, Attended, Waiting
<1>. QED BY <1>1, KeepHolds, PTL
=============================================================================
