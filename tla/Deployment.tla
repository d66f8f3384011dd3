----------------------------- MODULE Deployment -----------------------------
(***************************************************************************)
(* The Deployments of one Environment, as the Config Store keeps them.     *)
(* Every operation runs in a transaction that locks the Environment, so    *)
(* each is one atomic step; the interleavings are those of users, runners  *)
(* (claim, record) and the passing of time between them.                   *)
(*                                                                         *)
(* A Deployment is known by its number.  `status`, `runner`, `lease` and   *)
(* `started` are columns of config_deployment; `saved` and `targets` what  *)
(* admission froze; `run` the JSON its runner's evidence is kept in;       *)
(* `applied` is config_applied, with `by` = 0 where there is no row.       *)
(***************************************************************************)
EXTENDS NodeOutcomes, Naturals, Sequences

CONSTANTS
    Intents,        \* the documents Working State may hold when it is deployed
    Runner,         \* runner identities
    NoRunner,
    StorageOf,      \* the storage a Volume's document asks for, by value
    NoStorage,
    Lease,          \* LEASE: how long a record keeps a claim
    MaxDeployments, \* bound: Deployments ever admitted
    MaxTime         \* bound: the clock's last reading

ASSUME DeploymentAssumption ==
    /\ Intents \subseteq Intent
    /\ NoRunner \notin Runner
    /\ NoStorage \notin {StorageOf[x] : x \in Value}
    /\ Lease \in Nat \ {0}
    /\ MaxDeployments \in Nat
    /\ MaxTime \in Nat

VARIABLES
    last,       \* the highest number admitted, 0 when none was
    revisions,  \* config_saved: Saved revisions count from 1
    saved,      \* the Saved revision each Deployment ships, 0 for a removal
    targets,    \* the nodes each Deployment targets
    status,
    runner,
    lease,
    started,
    run,
    applied,
    storage,    \* config_volume_storage: each Volume's fixed storage
    now

frozen == <<revisions, saved, targets>>
claims == <<runner, lease, started>>
vars   == <<last, frozen, status, claims, run, applied, storage, now>>

Number == 1..MaxDeployments

Claimed == {"running", "cancelling"}
Ended   == {"superseded", "applied", "failed", "unknown", "cancelled"}
Status  == {"none", "queued"} \cup Claimed \cup Ended
Outcome == {"none", "executed", "not_executed", "never_ran", "forgotten"}

\* Run::default()
NewRun == [prepared |-> FALSE, planned |-> {},
           nodes |-> [n \in Node |-> Unset], outcome |-> "none"]

NoRow == [by |-> 0, value |-> Absent]

-----------------------------------------------------------------------------
\* saved_at
SavedAt(revision) == IF revision = 0 THEN Nothing ELSE revisions[revision]

\* applied_state, as one document
AppliedState == [n \in Node |-> applied[n].value]

Lapsed(d) == status[d] \in Claimed /\ lease[d] <= now

\* What every read of a Deployment's status shows.
Read(d) == IF Lapsed(d) THEN "unknown" ELSE status[d]

InFlight(d) == status[d] = "queued" \/ (status[d] \in Claimed /\ lease[d] > now)

\* in_flight: the latest one only.
LatestInFlight(d) == InFlight(d) /\ \A e \in Number : InFlight(e) => e <= d

\* last_ran, then teardown::ran
RanOrForgotten(d) == started[d] \/ (status[d] = "applied" /\ saved[d] = 0)
LastRan(d) == RanOrForgotten(d) /\ \A e \in Number : RanOrForgotten(e) => e <= d
Ran == \E d \in Number : LastRan(d) /\ ~(saved[d] = 0 /\ Read(d) = "applied")

\* Which way a removal applies without a runner, "none" when it needs one.
Forgettable(noServers) ==
    IF ~Ran THEN "never_ran" ELSE IF noServers THEN "forgotten" ELSE "none"

-----------------------------------------------------------------------------
\* queue, then the insert: the newest admission replaces the pending one.
Admit(revision, nodes) ==
    /\ last < MaxDeployments
    /\ last' = last + 1
    /\ saved' = [saved EXCEPT ![last + 1] = revision]
    /\ targets' = [targets EXCEPT ![last + 1] = nodes]
    /\ UNCHANGED <<claims, now>>

Superseding(new) ==
    status' = [d \in Number |-> IF d = last + 1 THEN new
                                ELSE IF status[d] = "queued" THEN "superseded"
                                ELSE status[d]]

Queue(revision, nodes) ==
    /\ Admit(revision, nodes)
    /\ Superseding("queued")
    /\ run' = [run EXCEPT ![last + 1] = NewRun]
    /\ UNCHANGED applied

\* Admitted and, in the same transaction, ended by `forget`: it never starts.
Forget(nodes, outcome) ==
    /\ Admit(0, nodes)
    /\ Superseding("applied")
    /\ run' = [run EXCEPT ![last + 1] =
                 [NewRun EXCEPT !.nodes = [n \in Node |->
                      IF n \in nodes THEN "unknown" ELSE Unset],
                      !.outcome = outcome]]
    /\ applied' = [n \in Node |-> NoRow]

\* check_storage
StorageAllows(intent) ==
    \A v \in Volume \cap Has(intent) :
        storage[v] \in {NoStorage, StorageOf[intent[v]]}

\* fix_storage
FixStorage(intent, nodes) ==
    storage' = [v \in Volume |->
                  IF storage[v] = NoStorage /\ v \in nodes \cap Has(intent)
                  THEN StorageOf[intent[v]] ELSE storage[v]]

\* review::publish: a revision only when the document changed.
Publish(intent) ==
    revisions' = IF revisions # <<>> /\ revisions[Len(revisions)] = intent
                 THEN revisions ELSE Append(revisions, intent)

\* Mutant: takes the next revision number though nothing was published.
DeployNextRevision(intent, services) ==
    LET losses == RemovedVolumes(AppliedState, intent)
        nodes  == Freeze(intent, AppliedState, services, losses)
    IN  /\ services \subseteq Service \cap Has(intent)
        /\ StorageAllows(intent)
        /\ Publish(intent)
        /\ FixStorage(intent, nodes)
        /\ Queue(Len(revisions) + 1, nodes)

\* Deploy Working State, `intent`: every node, or the Services named.
Deploy(intent, services) ==
    LET losses == RemovedVolumes(AppliedState, intent)
        nodes  == Freeze(intent, AppliedState, services, losses)
    IN  /\ services \subseteq Service \cap Has(intent)
        /\ StorageAllows(intent)
        /\ Publish(intent)
        /\ FixStorage(intent, nodes)
        /\ Queue(Len(revisions'), nodes)

\* Ship again exactly what Deployment d froze.
Retry(d, noServers) ==
    LET forget == Forgettable(noServers)
    IN  /\ Read(d) \in {"failed", "unknown", "cancelled"}
        /\ ~\E e \in Number : e > d /\ status[e] = "applied"
        /\ IF saved[d] = 0 /\ forget # "none"
           THEN Forget(targets[d], forget)
           ELSE ~noServers /\ Queue(saved[d], targets[d])
        /\ UNCHANGED <<revisions, storage>>

\* Take the Environment off the Servers.
Remove(noServers) ==
    LET forget == Forgettable(noServers)
        losses == IF forget = "none" THEN RemovedVolumes(AppliedState, Nothing)
                                     ELSE {}
        nodes  == Freeze(Nothing, AppliedState, {}, losses)
    IN  /\ ~\E d \in Number : LatestInFlight(d) /\ status[d] \in Claimed
        /\ IF forget # "none" THEN Forget(nodes, forget) ELSE Queue(0, nodes)
        /\ UNCHANGED <<revisions, storage>>

-----------------------------------------------------------------------------
\* Mutant: the lease isn't looked at.
HoldsLapsed(d, r) == status[d] \in Claimed /\ runner[d] = r

\* Runner r holds d: the check every claim and record starts with.
Holds(d, r) == Read(d) \in Claimed /\ runner[d] = r

Renew(d) == lease' = [lease EXCEPT ![d] = now + Lease]

\* Mutant: the Deployment another runner held keeps running.
ClaimBeside(d, r) ==
    /\ status[d] = "queued"
    /\ status' = [status EXCEPT ![d] = "running"]
    /\ runner' = [runner EXCEPT ![d] = r]
    /\ started' = [started EXCEPT ![d] = TRUE]
    /\ Renew(d)
    /\ UNCHANGED <<last, frozen, run, applied, storage, now>>

\* Binding a queued Deployment ends the one another runner still held.
ClaimQueued(d, r) ==
    /\ status[d] = "queued"
    /\ status' = [e \in Number |-> IF e = d THEN "running"
                                   ELSE IF status[e] \in Claimed THEN "unknown"
                                   ELSE status[e]]
    /\ runner' = [runner EXCEPT ![d] = r]
    /\ started' = [started EXCEPT ![d] = TRUE]
    /\ Renew(d)
    /\ UNCHANGED <<last, frozen, run, applied, storage, now>>

\* Mutant: whatever it recorded, the same runner starts over.
ClaimReplays(d, r) ==
    /\ Holds(d, r)
    /\ Renew(d)
    /\ UNCHANGED <<last, frozen, status, runner, started, run, applied, storage, now>>

\* The same runner claims again before it recorded a Deploy Preview...
ClaimAgain(d, r) ==
    /\ Holds(d, r)
    /\ ~run[d].prepared
    /\ Renew(d)
    /\ UNCHANGED <<last, frozen, status, runner, started, run, applied, storage, now>>

\* ...and after: it may have executed, so nothing replays.
ClaimLost(d, r) ==
    /\ Holds(d, r)
    /\ run[d].prepared
    /\ status' = [status EXCEPT ![d] = "unknown"]
    /\ UNCHANGED <<last, frozen, claims, run, applied, storage, now>>

Cancel(d) ==
    /\ Read(d) \in {"queued", "running"}
    /\ status' = [status EXCEPT ![d] = IF status[d] = "queued" THEN "cancelled"
                                                               ELSE "cancelling"]
    /\ UNCHANGED <<last, frozen, claims, run, applied, storage, now>>

\* teardown::forget_cluster: the Servers are gone.
ForgetCluster ==
    /\ status' = [d \in Number |-> IF InFlight(d) THEN "cancelled" ELSE status[d]]
    /\ applied' = [n \in Node |-> NoRow]
    /\ storage' = [v \in Volume |-> NoStorage]
    /\ UNCHANGED <<last, frozen, claims, run, now>>

-----------------------------------------------------------------------------
\* Mutant: an Unchanged node never enters Applied State.
AdvancedDeployed(d, nodes, succeeded) ==
    LET intent == SavedAt(saved[d])
    IN  [n \in Node |->
          IF n \in targets[d] /\ Advances(nodes[n])
          THEN IF n \in Has(intent) THEN [by |-> d, value |-> intent[n]] ELSE NoRow
          ELSE applied[n]]

\* advance: what d confirmed enters Applied State as its Saved revision has it.
Advanced(d, nodes, succeeded) ==
    LET intent == SavedAt(saved[d])
    IN  [n \in Node |->
          IF /\ n \in targets[d]
             /\ Advances(nodes[n]) \/ (succeeded /\ nodes[n] = "unchanged")
          THEN IF n \in Has(intent) THEN [by |-> d, value |-> intent[n]] ELSE NoRow
          ELSE applied[n]]

\* Mutant: a cancelled Deployment reads failed.
FinishUncancelled(d, newRun, end) ==
    /\ applied' = Advanced(d, newRun.nodes, end = "applied")
    /\ status' = [status EXCEPT ![d] = end]
    /\ run' = [run EXCEPT ![d] = newRun]
    /\ Renew(d)
    /\ UNCHANGED <<last, frozen, runner, started, storage, now>>

\* finish and end
Finish(d, newRun, end) ==
    /\ applied' = Advanced(d, newRun.nodes, end = "applied")
    /\ status' = [status EXCEPT ![d] =
                    IF status[d] = "cancelling" /\ end = "failed"
                    THEN "cancelled" ELSE end]
    /\ run' = [run EXCEPT ![d] = newRun]
    /\ Renew(d)
    /\ UNCHANGED <<last, frozen, runner, started, storage, now>>

RecordAlive(d, r) ==
    /\ Holds(d, r)
    /\ Renew(d)
    /\ UNCHANGED <<last, frozen, status, runner, started, run, applied, storage, now>>

RecordPrepared(d, r, planned) ==
    /\ Holds(d, r)
    /\ ~run[d].prepared
    /\ planned \subseteq Service \cap targets[d]
    /\ run' = [run EXCEPT ![d].prepared = TRUE, ![d].planned = planned,
                 ![d].nodes = Settled(targets[d], SavedAt(saved[d]),
                                      AppliedState, planned, {})]
    /\ Renew(d)
    /\ UNCHANGED <<last, frozen, status, runner, started, applied, storage, now>>

\* Target Volumes whose data d deletes: those its Saved revision lacks.
DeletedVolumes(d) == (Volume \cap targets[d]) \ Has(SavedAt(saved[d]))

\* Services of d already in Applied State through it.
ConfirmedServices(d) == {s \in Service \cap targets[d] : Advances(run[d].nodes[s])}

\* Mutant: Applied State waits for the end.
RecordConfirmedLater(d, r, services) ==
    /\ Holds(d, r)
    /\ run[d].prepared /\ run[d].outcome = "none"
    /\ services \subseteq run[d].planned
    /\ run' = [run EXCEPT ![d].nodes = KeepAdvanced(run[d].nodes,
                  Settled(targets[d], SavedAt(saved[d]), AppliedState,
                          run[d].planned, services \cup ConfirmedServices(d)))]
    /\ Renew(d)
    /\ UNCHANGED <<last, frozen, status, runner, started, applied, storage, now>>

RecordConfirmed(d, r, services) ==
    /\ Holds(d, r)
    /\ run[d].prepared /\ run[d].outcome = "none"
    /\ services \subseteq run[d].planned
    /\ LET nodes == KeepAdvanced(run[d].nodes,
                      Settled(targets[d], SavedAt(saved[d]), AppliedState,
                              run[d].planned, services \cup ConfirmedServices(d)))
       IN  /\ run' = [run EXCEPT ![d].nodes = nodes]
           /\ applied' = Advanced(d, nodes, FALSE)
    /\ Renew(d)
    /\ UNCHANGED <<last, frozen, status, runner, started, storage, now>>

\* A runner's evidence covers what it confirmed before.
RecordExecuted(d, r, ev) ==
    /\ Holds(d, r)
    /\ run[d].prepared /\ run[d].outcome = "none"
    /\ ConfirmedServices(d) \subseteq ev.confirmed
    /\ LET nodes == KeepAdvanced(run[d].nodes,
                      NodeOutcomesOf(targets[d], SavedAt(saved[d]),
                                     AppliedState, ev))
           clean == \A n \in Node : nodes[n] # "failed"
       IN  Finish(d, [run[d] EXCEPT !.nodes = nodes, !.outcome = "executed"],
                  IF ev.success /\ clean THEN "applied" ELSE "failed")

\* NotExecuted and UploadNeeded
RecordNotExecuted(d, r) ==
    /\ Holds(d, r)
    /\ run[d].outcome = "none"
    /\ Finish(d, [run[d] EXCEPT !.outcome = "not_executed"], "failed")

\* Mutant: an outcome nobody recorded means that nothing ran.
RecordAbandonedIdle(d, r) ==
    /\ Holds(d, r)
    /\ run[d].outcome = "none"
    /\ Finish(d, [run[d] EXCEPT !.outcome = "not_executed"], "failed")

\* Abandoned
RecordAbandoned(d, r) ==
    /\ Holds(d, r)
    /\ run[d].outcome = "none"
    /\ \/ /\ ~run[d].prepared
          /\ Finish(d, [run[d] EXCEPT !.outcome = "not_executed"], "failed")
       \/ /\ run[d].prepared
          /\ status' = [status EXCEPT ![d] = "unknown"]
          /\ Renew(d)
          /\ UNCHANGED <<last, frozen, runner, started, run, applied, storage, now>>

\* Time passes: now() moves on.
Tick ==
    /\ now < MaxTime
    /\ now' = now + 1
    /\ UNCHANGED <<last, frozen, status, claims, run, applied, storage>>

-----------------------------------------------------------------------------
Init ==
    /\ last = 0
    /\ revisions = <<>>
    /\ saved = [d \in Number |-> 0]
    /\ targets = [d \in Number |-> {}]
    /\ status = [d \in Number |-> "none"]
    /\ runner = [d \in Number |-> NoRunner]
    /\ lease = [d \in Number |-> 0]
    /\ started = [d \in Number |-> FALSE]
    /\ run = [d \in Number |-> NewRun]
    /\ applied = [n \in Node |-> NoRow]
    /\ storage = [v \in Volume |-> NoStorage]
    /\ now = 0

\* What users, Cloud and the clock do.
Environs ==
    \/ \E intent \in Intents, services \in SUBSET Service : Deploy(intent, services)
    \/ \E noServers \in BOOLEAN : Remove(noServers)
    \/ \E d \in Number, noServers \in BOOLEAN : Retry(d, noServers)
    \/ \E d \in Number : Cancel(d)
    \/ ForgetCluster
    \/ Tick

\* What runner r does to Deployment d.
RunnerStep(d, r) ==
    \/ ClaimQueued(d, r)
    \/ ClaimAgain(d, r)
    \/ ClaimLost(d, r)
    \/ RecordAlive(d, r)
    \/ \E planned \in SUBSET Service : RecordPrepared(d, r, planned)
    \/ \E services \in SUBSET Service : RecordConfirmed(d, r, services)
    \/ \E ev \in ExecutedEvidence(run[d].planned, DeletedVolumes(d)) :
          RecordExecuted(d, r, ev)
    \/ RecordNotExecuted(d, r)
    \/ RecordAbandoned(d, r)

Next == Environs \/ \E d \in Number, r \in Runner : RunnerStep(d, r)

Spec == Init /\ [][Next]_vars

-----------------------------------------------------------------------------
(* Properties *)

\* Every variable holds what its column may hold.
TypeOK ==
    /\ last \in 0..MaxDeployments
    /\ revisions \in Seq(Intent)
    /\ saved \in [Number -> 0..Len(revisions)]
    /\ targets \in [Number -> SUBSET Node]
    /\ status \in [Number -> Status]
    /\ runner \in [Number -> Runner \cup {NoRunner}]
    /\ lease \in [Number -> Nat]
    /\ started \in [Number -> BOOLEAN]
    /\ run \in [Number -> [prepared : BOOLEAN, planned : SUBSET Service,
                           nodes : [Node -> NodeStatus \cup {Unset}],
                           outcome : Outcome]]
    /\ applied \in [Node -> [by : 0..MaxDeployments, value : Value \cup {Absent}]]
    /\ storage \in [Volume -> {StorageOf[x] : x \in Value} \cup {NoStorage}]
    /\ now \in Nat

\* `queue` and `claim` keep an Environment to one waiting and one claimed
\* Deployment: the waiting one is the newest of all, the claimed one the newest
\* that ever started, whatever the leases say.
NewestRuns ==
    /\ \A d \in Number : status[d] = "queued" => d = last
    /\ \A d, e \in Number : status[d] \in Claimed /\ started[e] => e <= d

\* A Deployment that reads as ended (superseded, applied, failed, cancelled, or
\* unknown because its lease lapsed) reads the same forever: no late record,
\* claim, cancel or takeover changes how it ended.
EndIsFinal ==
    [][\A d \in Number : Read(d) \in Ended => Read(d)' = Read(d)]_vars

\* Applied State never moves back to an earlier Deployment: a node's row is
\* replaced only by the same or a newer Deployment's, so a runner that lost its
\* Deployment can't overwrite what its successor confirmed.
AppliedForward ==
    [][\A n \in Node : applied[n].by # 0 /\ applied'[n].by # 0
                          => applied[n].by <= applied'[n].by]_vars

\* Every row of Applied State is backed by the Node Outcome its Deployment keeps:
\* Deployed, or Unchanged by a Deployment that applied; and holds the node as
\* that Deployment's Saved revision has it (`advance`, `keep_advanced`).
AppliedHasEvidence ==
    \A n \in Node : LET d == applied[n].by IN
        d # 0 => /\ started[d] /\ n \in targets[d]
                 /\ \/ run[d].nodes[n] = "deployed"
                    \/ run[d].nodes[n] = "unchanged" /\ status[d] = "applied"
                 /\ applied[n].value = SavedAt(saved[d])[n]

\* While a runner holds a Deployment, each Node Outcome it shows as Deployed or
\* Removed is already in Applied State, so it isn't lost when the runner dies;
\* until a later removal forgets the whole Environment (`forget`).
ConfirmedIsApplied ==
    \A d \in Number :
        /\ Read(d) \in Claimed
        /\ ~\E e \in Number : e > d /\ run[e].outcome \in {"never_ran", "forgotten"}
        => \A n \in targets[d] :
            /\ run[d].nodes[n] = "deployed" => applied[n].by = d
            /\ run[d].nodes[n] = "removed" => applied[n] = NoRow

\* A Deployment a runner ends as applied leaves every node it targeted in Applied
\* State exactly as its Saved revision has it, removed ones gone; but for a new
\* Volume no targeted Service mounts, whose storage nothing creates.
AppliedShipsAll ==
    [][\A d \in Number :
          started[d] /\ status[d] # "applied" /\ status'[d] = "applied" =>
            \A n \in targets[d] :
                \/ applied'[n].value = SavedAt(saved[d])[n]
                \/ /\ n \in Volume /\ Mounting(n, targets[d], SavedAt(saved[d])) = {}
                   /\ applied[n] = NoRow /\ applied'[n] = NoRow]_vars
=============================================================================
