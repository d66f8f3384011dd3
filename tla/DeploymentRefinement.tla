------------------------ MODULE DeploymentRefinement ------------------------
(* The Store's Deployments implement the account DeploymentLedger describes. *)
EXTENDS Deployment

PhaseOf(st) ==
    IF st = "queued" THEN "waiting"
    ELSE IF st = "running" THEN "active"
    ELSE IF st = "cancelling" THEN "stopping"
    ELSE st

Ledger == INSTANCE DeploymentLedger
            WITH admitted <- last,
                 phase <- [d \in Number |-> PhaseOf(Read(d))]

\* Read through the lapse of leases, what `admit`, `retry`, `claim`, `cancel`,
\* `record` and `forget_cluster` do to the statuses is what the account allows:
\* one waiting, one active, each ending once.
ImplementsLedger == Ledger!Spec
=============================================================================
