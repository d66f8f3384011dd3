-------------------------- MODULE DeploymentLedger --------------------------
(***************************************************************************)
(* What an Environment promises the people who deploy it: an account of    *)
(* numbered Deployments, one waiting and one active at most, each of which *)
(* ends once.  No runners, leases, evidence or clock: only what the status *)
(* of a Deployment may do, as docs/user/deploy/deployments.md tells it.    *)
(***************************************************************************)
EXTENDS Naturals

CONSTANT MaxDeployments
VARIABLES
    admitted,   \* how many Deployments were admitted
    phase       \* what each one reads as

Entry == 1..MaxDeployments

Working == {"active", "stopping"}
Ends    == {"superseded", "applied", "failed", "unknown", "cancelled"}
Phase   == {"none", "waiting"} \cup Working \cup Ends

Init == admitted = 0 /\ phase = [d \in Entry |-> "none"]

\* A new Deployment waits, or is over at once; it replaces the waiting one.
Admit(new) ==
    /\ admitted < MaxDeployments
    /\ admitted' = admitted + 1
    /\ phase' = [d \in Entry |-> IF d = admitted + 1 THEN new
                                 ELSE IF phase[d] = "waiting" THEN "superseded"
                                 ELSE phase[d]]

\* The waiting Deployment starts; whatever another was doing becomes unknown.
Start(d) ==
    /\ phase[d] = "waiting"
    /\ phase' = [e \in Entry |-> IF e = d THEN "active"
                                 ELSE IF phase[e] \in Working THEN "unknown"
                                 ELSE phase[e]]
    /\ UNCHANGED admitted

Cancel(d) ==
    /\ \/ phase[d] = "waiting" /\ phase' = [phase EXCEPT ![d] = "cancelled"]
       \/ phase[d] = "active" /\ phase' = [phase EXCEPT ![d] = "stopping"]
    /\ UNCHANGED admitted

\* One that was told to stop reads cancelled, never failed.
End(d, end) ==
    /\ \/ phase[d] = "active" /\ end \in {"applied", "failed", "unknown"}
       \/ phase[d] = "stopping" /\ end \in {"applied", "cancelled", "unknown"}
    /\ phase' = [phase EXCEPT ![d] = end]
    /\ UNCHANGED admitted

\* The cluster is gone.
CancelAll ==
    /\ phase' = [d \in Entry |-> IF phase[d] \in {"waiting"} \cup Working
                                 THEN "cancelled" ELSE phase[d]]
    /\ UNCHANGED admitted

Next ==
    \/ \E new \in {"waiting", "applied"} : Admit(new)
    \/ \E d \in Entry : Start(d) \/ Cancel(d)
    \/ \E d \in Entry, end \in Ends : End(d, end)
    \/ CancelAll

Spec == Init /\ [][Next]_<<admitted, phase>>
=============================================================================
