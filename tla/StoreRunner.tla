---------------------------- MODULE StoreRunner ----------------------------
(***************************************************************************)
(* How Cloud gets Deployments run: an event hands a queued one to a worker *)
(* run (Inngest), which records itself, then claims, prepares, executes    *)
(* and reports in one step that Inngest retries; a run that fails or is    *)
(* cancelled is stopped; a sweep hands over again what was lost.  A run is *)
(* one runner of the Store: its retried attempts claim as the same one.    *)
(***************************************************************************)
EXTENDS Deployment

CONSTANTS
    Tries,      \* how often Inngest attempts a step: once and its retries
    MaxFaults   \* bound: attempts lost and runs that fail, are cancelled or dropped

ASSUME RunnerAssumption == Tries \in Nat \ {0} /\ MaxFaults \in Nat

VARIABLES
    events,     \* Deployments with an event on its way to a worker
    job,        \* the Deployment of a run, 0 before it begins
    step,       \* where Inngest is with a run
    try,        \* which attempt it is at
    proc,       \* what each attempt's process does
    outlived,   \* the runs with an attempt that Inngest gave up on and that went on
    recorded,   \* deploymentRun: the runs that recorded themselves
    executions, \* the attempts that ever executed, with what
    faults      \* how many there were

work     == <<proc, outlived, executions>>
hand     == <<events, job, step, try, work, recorded, faults>>
all      == <<vars, hand>>

Try == 1..Tries

Active == {"record", "ready", "running", "forget"}
Step   == {"new", "stop", "read", "unclaimed", "failing", "stopped", "done", "gone"} \cup Active
Phase  == {"none", "claim", "prepare", "execute", "refuse", "over"}

Go(r, s) == step' = [step EXCEPT ![r] = s]

Alive(r, k) == proc[r][k] \notin {"none", "over"}

Turn(r, k, p) == proc' = [proc EXCEPT ![r][k] = p]

-----------------------------------------------------------------------------
(* Dispatch. *)

\* An admission or "Deploy now" sends its event; a send may be lost.
Dispatch(d) ==
    /\ status[d] = "queued"
    /\ events' = events \cup {d}
    /\ UNCHANGED <<vars, job, step, try, work, recorded, faults>>

\* A recorded run holds a Deployment that is still in flight.
Held == \E r \in recorded : InFlight(job[r])

\* The Store's, admitted over a minute ago.
Unclaimed == {d \in Number : status[d] = "queued" /\ runner[d] = NoRunner}

\* Redispatch: unclaimedStoreDeployments go to a worker again.
Sweep ==
    /\ ~Held
    /\ events' = events \cup Unclaimed
    /\ UNCHANGED <<vars, job, step, try, work, recorded, faults>>

\* An event begins a run.
Begin(r, d) ==
    /\ step[r] = "new" /\ d \in events
    /\ events' = events \ {d}
    /\ job' = [job EXCEPT ![r] = d]
    /\ Go(r, "record")
    /\ UNCHANGED <<vars, try, work, recorded, faults>>

-----------------------------------------------------------------------------
(* A run, as Inngest drives it. *)

\* concurrency: the steps of one Environment's runs execute one at a time.
Idle(r) == \A q \in Runner \ {r} : step[q] # "running"

\* "record-run"; what plans and walks the GitHub builds follows, and changes nothing here.
RecordRun(r) ==
    /\ step[r] = "record" /\ Idle(r)
    /\ recorded' = recorded \cup {r}
    /\ Go(r, "ready")
    /\ UNCHANGED <<vars, events, job, try, work, faults>>

Fault == faults < MaxFaults /\ faults' = faults + 1

\* Inngest gives up on the attempt: its process ends, or nobody told it.
GiveUp(r) ==
    \/ Alive(r, try[r]) /\ outlived' = outlived \cup {r} /\ UNCHANGED proc
    \/ Turn(r, try[r], "over") /\ UNCHANGED outlived

\* "run-deployment"
StartAttempt(r) ==
    /\ step[r] = "ready" /\ Idle(r)
    /\ Go(r, "running")
    /\ Turn(r, try[r], "claim")
    /\ UNCHANGED <<vars, events, job, try, outlived, executions, recorded, faults>>

Returns(r) ==
    /\ step[r] = "running" /\ proc[r][try[r]] = "over"
    /\ Go(r, "forget")
    /\ UNCHANGED <<vars, events, job, try, work, recorded, faults>>

\* Mutant: one attempt too many.
LoseOnceMore(r) ==
    /\ Fault
    /\ step[r] = "running"
    /\ GiveUp(r)
    /\ IF try[r] <= Tries
       THEN Go(r, "ready") /\ try' = [try EXCEPT ![r] = @ + 1]
       ELSE Go(r, "stop") /\ UNCHANGED try
    /\ UNCHANGED <<vars, events, job, executions, recorded>>

\* The attempt threw, died or isn't heard of: Inngest retries it, or the run fails.
Lose(r) ==
    /\ Fault
    /\ step[r] = "running"
    /\ GiveUp(r)
    /\ IF try[r] < Tries
       THEN Go(r, "ready") /\ try' = [try EXCEPT ![r] = @ + 1]
       ELSE Go(r, "stop") /\ UNCHANGED try
    /\ UNCHANGED <<vars, events, job, executions, recorded>>

\* Another step failed for good.
FailRun(r) ==
    /\ Fault
    /\ step[r] \in {"record", "ready", "forget"}
    /\ Go(r, "stop")
    /\ UNCHANGED <<vars, events, job, try, work, recorded>>

\* "forget-run", and the end of stopStoreDeploymentRun
ForgetRun(r) ==
    /\ step[r] = "stopped" \/ (step[r] = "forget" /\ Idle(r))
    /\ recorded' = recorded \ {r}
    /\ Go(r, "done")
    /\ UNCHANGED <<vars, events, job, try, work, faults>>

\* Mutant: the cancelled run is only forgotten.
CancelForgetting(r) ==
    /\ Fault
    /\ step[r] \in Active
    /\ Go(r, "done") /\ recorded' = recorded \ {r}
    /\ IF step[r] = "running" THEN GiveUp(r) ELSE UNCHANGED <<proc, outlived>>
    /\ UNCHANGED <<vars, events, job, try, executions>>

\* Someone cancels the run in Inngest.  cancelStoreDeploymentRun stops it if it is
\* recorded; a record on its way may still land.
CancelRun(r) ==
    /\ Fault
    /\ step[r] \in Active
    /\ IF r \in recorded
       THEN Go(r, "stop") /\ UNCHANGED recorded
       ELSE Go(r, "done") /\ \E late \in SUBSET {r} : recorded' = recorded \cup late
    /\ IF step[r] = "running" THEN GiveUp(r) ELSE UNCHANGED <<proc, outlived>>
    /\ UNCHANGED <<vars, events, job, try, executions>>

\* The run is dropped across a Cloud redeploy, and its attempt with it.
DropRun(r) ==
    /\ Fault
    /\ step[r] \in Active
    /\ Go(r, "gone")
    /\ IF step[r] = "running" THEN Turn(r, try[r], "over") ELSE UNCHANGED proc
    /\ UNCHANGED <<vars, events, job, try, outlived, executions, recorded>>

-----------------------------------------------------------------------------
(* stopStoreDeploymentRun *)

\* What became of r's claim on d is on record.
Accounted(d, r) ==
    /\ runner[d] = r /\ ~Holds(d, r)
    /\ run[d].outcome # "none" \/ Read(d) = "unknown"

\* Mutant: the run is stopped, its Deployment isn't told.
StopUntold(r) ==
    /\ step[r] = "stop"
    /\ Go(r, "stopped")
    /\ UNCHANGED <<vars, events, job, try, work, recorded, faults>>

\* abandonDeployment; a conflict asks whether it was ever claimed.
Stop(r) ==
    /\ step[r] = "stop"
    /\ \/ RecordAbandoned(job[r], r) /\ Go(r, "stopped")
       \/ Accounted(job[r], r) /\ Go(r, "stopped") /\ UNCHANGED vars
       \/ ~Holds(job[r], r) /\ ~Accounted(job[r], r) /\ Go(r, "read") /\ UNCHANGED vars
    /\ UNCHANGED <<events, job, try, work, recorded, faults>>

\* failUnclaimed reads...
ReadUnclaimed(r) ==
    /\ step[r] = "read"
    /\ Go(r, IF job[r] \in Unclaimed THEN "unclaimed" ELSE "stopped")
    /\ UNCHANGED <<vars, events, job, try, work, recorded, faults>>

\* ...then claims it, as the run...
FailUnclaimed(r) ==
    /\ step[r] = "unclaimed"
    /\ \/ (ClaimQueued(job[r], r) \/ ClaimAgain(job[r], r)) /\ Go(r, "failing")
       \/ ClaimLost(job[r], r) /\ Go(r, "stop")
       \/ /\ status[job[r]] # "queued" /\ ~Holds(job[r], r)
          /\ Go(r, "stop") /\ UNCHANGED vars
    /\ UNCHANGED <<events, job, try, work, recorded, faults>>

\* ...and records that nothing ran.  A conflict fails the stop, which is retried.
FailRecord(r) ==
    /\ step[r] = "failing"
    /\ \/ RecordNotExecuted(job[r], r) /\ Go(r, "stopped")
       \/ ~Holds(job[r], r) /\ Go(r, "stop") /\ UNCHANGED vars
    /\ UNCHANGED <<events, job, try, work, recorded, faults>>

-----------------------------------------------------------------------------
(* run_deployment, attempt k of run r. *)

\* A conflict means there is nothing to run.
Claim(r, k) ==
    /\ proc[r][k] = "claim"
    /\ \/ (ClaimQueued(job[r], r) \/ ClaimAgain(job[r], r)) /\ Turn(r, k, "prepare")
       \/ ClaimLost(job[r], r) /\ Turn(r, k, "over")
       \/ /\ status[job[r]] # "queued" /\ ~Holds(job[r], r)
          /\ Turn(r, k, "over") /\ UNCHANGED vars
    /\ UNCHANGED <<events, job, step, try, outlived, executions, recorded, faults>>

\* renewing
Renews(r, k) ==
    /\ proc[r][k] \in {"prepare", "execute"}
    /\ RecordAlive(job[r], r)
    /\ UNCHANGED hand

\* No Server, no source, a failed build, an aborted preparation.
Unprepared(r, k) ==
    /\ proc[r][k] = "prepare"
    /\ Turn(r, k, "refuse")
    /\ UNCHANGED <<vars, events, job, step, try, outlived, executions, recorded, faults>>

\* Prepared is recorded, then the Deploy Preview confirmed and executed, unless it was
\* cancelled or can't be.  The same preview again is accepted, whatever became of the
\* Deployment; another one, or a Deployment that isn't held, is refused.
Prepared(r, k) ==
    LET d == job[r] IN
    /\ proc[r][k] = "prepare"
    /\ \/ /\ \/ \E planned \in SUBSET Service : RecordPrepared(d, r, planned)
             \/ runner[d] = r /\ run[d].prepared /\ UNCHANGED vars
          /\ \/ /\ Read(d) # "cancelling"
                /\ Turn(r, k, "execute") /\ executions' = executions \cup {<<d, r, k>>}
             \/ Turn(r, k, "refuse") /\ UNCHANGED executions
       \/ /\ run[d].prepared \/ ~Holds(d, r)
          /\ Turn(r, k, "over") /\ UNCHANGED <<vars, executions>>
    /\ UNCHANGED <<events, job, step, try, outlived, recorded, faults>>

\* executing: a refused record is left to the outcome.
Executing(r, k) ==
    /\ proc[r][k] = "execute"
    /\ \E services \in SUBSET Service : RecordConfirmed(job[r], r, services)
    /\ UNCHANGED hand

\* The outcome, or that the session ended before it.
Report(r, k) ==
    LET d == job[r] IN
    /\ proc[r][k] = "execute"
    /\ \/ \E ev \in ExecutedEvidence(run[d].planned, DeletedVolumes(d)) : RecordExecuted(d, r, ev)
       \/ RecordAbandoned(d, r)
       \/ ~Holds(d, r) /\ UNCHANGED vars
    /\ Turn(r, k, "over")
    /\ UNCHANGED <<events, job, step, try, outlived, executions, recorded, faults>>

\* not_executed and unbuilt
NotExecuted(r, k) ==
    /\ proc[r][k] = "refuse"
    /\ RecordNotExecuted(job[r], r) \/ (~Holds(job[r], r) /\ UNCHANGED vars)
    /\ Turn(r, k, "over")
    /\ UNCHANGED <<events, job, step, try, outlived, executions, recorded, faults>>

-----------------------------------------------------------------------------
\* Deployments are admitted and cancelled, their Servers forgotten, and time passes.
\* (To a runner a retry or a removal is a Deployment like any.)
Users ==
    \/ \E intent \in Intents, services \in SUBSET Service : Deploy(intent, services)
    \/ \E d \in Number : Cancel(d)
    \/ ForgetCluster
    \/ Tick

SystemInit ==
    /\ Init
    /\ events = {} /\ recorded = {} /\ outlived = {} /\ executions = {} /\ faults = 0
    /\ job = [r \in Runner |-> 0]
    /\ step = [r \in Runner |-> "new"]
    /\ try = [r \in Runner |-> 1]
    /\ proc = [r \in Runner |-> [k \in Try |-> "none"]]

RunStep(r) ==
    \/ RecordRun(r) \/ StartAttempt(r) \/ Returns(r) \/ ForgetRun(r)
    \/ Stop(r) \/ ReadUnclaimed(r) \/ FailUnclaimed(r) \/ FailRecord(r)

AttemptStep(r, k) ==
    \/ Claim(r, k) \/ Unprepared(r, k) \/ Prepared(r, k)
    \/ Report(r, k) \/ NotExecuted(r, k)

\* What goes on by itself.
Progress ==
    \/ Sweep
    \/ \E r \in Runner, d \in Number : Begin(r, d)
    \/ \E r \in Runner : RunStep(r)
    \/ \E r \in Runner, k \in Try : AttemptStep(r, k)

SystemNext ==
    \/ Progress
    \/ Users /\ UNCHANGED hand
    \/ \E d \in Number : Dispatch(d)
    \/ \E r \in Runner : Lose(r) \/ FailRun(r) \/ CancelRun(r) \/ DropRun(r)
    \/ \E r \in Runner, k \in Try : Renews(r, k) \/ Executing(r, k)

System == SystemInit /\ [][SystemNext]_all

(***************************************************************************)
(* The sweep comes every minute; Inngest goes on with what it has; a       *)
(* process that runs ends, for builds and operations have deadlines.  It   *)
(* is enough that something goes on whenever something can: no run goes on *)
(* forever by itself.                                                      *)
(***************************************************************************)
FairSystem == System /\ WF_all(Progress)

-----------------------------------------------------------------------------
(* Properties *)

\* Runs, attempts and records hold what the code lets them hold.
RunnerTypeOK ==
    /\ events \subseteq Number
    /\ job \in [Runner -> 0..MaxDeployments]
    /\ step \in [Runner -> Step]
    /\ try \in [Runner -> Try]
    /\ proc \in [Runner -> [Try -> Phase]]
    /\ recorded \subseteq Runner /\ outlived \subseteq Runner
    /\ executions \subseteq Number \X Runner \X Try
    /\ faults \in 0..MaxFaults
    /\ \A r \in Runner : step[r] # "new" => job[r] \in Number

\* A Deployment is executed once, however often its event is delivered, its attempts
\* retried and its hand-off repeated; but for attempts of one run that overlapped.
ExecutedOnce ==
    \A x, y \in executions : x[1] = y[1] => x = y \/ (x[2] = y[2] /\ x[2] \in outlived)

\* A Deployment that ended as not executed wasn't; with the same exception.
NotExecutedIsTrue ==
    \A x \in executions : run[x[1]].outcome # "not_executed" \/ x[2] \in outlived

\* "so the Deployment never reads running ... for nobody" (stopStoreDeploymentRun): a
\* claimed Deployment has a run that goes on, is being stopped or has an attempt alive;
\* or the run was dropped, and its lease is what ends it.
RunningForSomebody ==
    \A d \in Number, r \in Runner :
        Holds(d, r) /\ step[r] = "done" => \E k \in Try : Alive(r, k)

\* No run is left to take d.
NoRunFor(d) ==
    \A r \in Runner : step[r] # "new" /\ (step[r] \in {"done", "gone"} \/ job[r] # d)

\* A record whose run is over.
Orphaned == \E r \in recorded : step[r] \in {"done", "gone"}

\* A Deployment in flight is claimed and ends, though sends and attempts are lost, runs
\* fail and are cancelled; unless a run left its record behind (or run ids ran out).
Settles == \A d \in Number : InFlight(d) ~> (~InFlight(d) \/ Orphaned \/ NoRunFor(d))
=============================================================================
