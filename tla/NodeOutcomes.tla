---------------------------- MODULE NodeOutcomes ----------------------------
(***************************************************************************)
(* What a Deployment targets and what its evidence says of each target:    *)
(* the pure part of the Config Store's Deployment code.                    *)
(*                                                                         *)
(* An Environment Node is a Service or a Volume.  An intent (a Saved       *)
(* revision, or Applied State read as one document) gives each node the    *)
(* value it has there, or Absent.  A value stands for everything the       *)
(* node's document holds; two documents are equal iff the values are.      *)
(***************************************************************************)
CONSTANTS
    Service,    \* Services of one Environment
    Volume,     \* its Volumes
    Value,      \* what a node's document may say
    Absent,     \* the node isn't in the intent
    Mounts      \* <<s, v>>: Service s has an attachment to Volume v

ASSUME NodeAssumption ==
    /\ Service \cap Volume = {}
    /\ Absent \notin Value
    /\ Mounts \subseteq Service \X Volume

Node == Service \cup Volume

Intent == [Node -> Value \cup {Absent}]

\* The intent of a removal: Saved revision NOTHING.
Nothing == [n \in Node |-> Absent]

Has(intent) == {n \in Node : intent[n] # Absent}

NodeStatus == {"pending", "deployed", "removed", "unchanged", "failed",
               "not_attempted", "unknown"}

\* A node the run has no entry for yet.
Unset == "unset"

\* NodeStatus::advances
Advances(st) == st \in {"deployed", "removed"}

-----------------------------------------------------------------------------
\* Services of the intent that mount volume v and that nodes targets.
Mounting(v, nodes, saved) ==
    {s \in Service \cap nodes \cap Has(saved) : <<s, v>> \in Mounts}

(***************************************************************************)
(* The target nodes of a Deployment of `saved`.  `services` narrows it;    *)
(* none targets everything, the removal of what Applied State holds and    *)
(* `saved` dropped included.  `losses` are the Volumes whose data it       *)
(* deletes: a target Volume is a deleted one iff `saved` lacks it.         *)
(***************************************************************************)
Freeze(saved, applied, services, losses) ==
    IF services = {}
    THEN Has(saved) \cup (Service \cap Has(applied)) \cup losses
    ELSE services \cup {v \in Volume \cap Has(saved) :
                            Mounting(v, services, saved) # {}}

\* removal::removed: what Applied State holds and `saved` dropped.
RemovedVolumes(applied, saved) == (Volume \cap Has(applied)) \ Has(saved)

-----------------------------------------------------------------------------
(***************************************************************************)
(* Evidence.  `planned` are the Services the Deploy Preview has operations *)
(* for; `confirmed` those whose every operation completed; `failed` those  *)
(* of which some ran; the other planned ones ran nothing.  `gone` are the  *)
(* removed Volumes whose every Docker Volume was deleted.                  *)
(***************************************************************************)
Evidence == [executed : BOOLEAN, success : BOOLEAN, planned : SUBSET Service,
             confirmed : SUBSET Service, failed : SUBSET Service,
             gone : SUBSET Volume]

PlannedEvidence(planned, confirmed) ==
    [executed |-> FALSE, success |-> FALSE, planned |-> planned,
     confirmed |-> confirmed, failed |-> {}, gone |-> {}]

\* What executing a preview can have done: every operation completed, then
\* the Volumes' data deleted or not; or some operation failed, before it.
ExecutedEvidence(planned, removed) ==
    [executed : {TRUE}, success : {TRUE}, planned : {planned},
     confirmed : {planned}, failed : {{}}, gone : SUBSET removed]
    \cup
    {e \in [executed : {TRUE}, success : {FALSE}, planned : {planned},
            confirmed : SUBSET planned, failed : SUBSET planned,
            gone : {{}}] : e.confirmed \cap e.failed = {}}

ServiceOutcome(s, saved, ev) ==
    IF s \in ev.confirmed THEN IF s \in Has(saved) THEN "deployed" ELSE "removed"
    ELSE IF s \in ev.failed THEN "failed"
    ELSE IF s \in ev.planned THEN IF ev.executed THEN "not_attempted" ELSE "pending"
    ELSE "unchanged"

RemovedVolumeOutcome(v, ev) ==
    IF ~ev.executed THEN "pending"
    ELSE IF ~ev.success THEN "not_attempted"
    ELSE IF v \in ev.gone THEN "removed" ELSE "failed"

\* A kept Volume follows the targeted Services that mount it.
KeptVolumeOutcome(v, nodes, saved, applied, ev) ==
    LET mounting == {ServiceOutcome(s, saved, ev) :
                        s \in Mounting(v, nodes, saved)}
        asSaved  == applied[v] = saved[v]
        held     == applied[v] # Absent
    IN  IF "deployed" \in mounting /\ ~asSaved THEN "deployed"
        ELSE IF "failed" \in mounting THEN "failed"
        ELSE IF "not_attempted" \in mounting THEN "not_attempted"
        ELSE IF "pending" \in mounting THEN "pending"
        ELSE IF asSaved THEN "unchanged"
        ELSE IF mounting = {} /\ ~held THEN "not_attempted"
        ELSE IF ~ev.executed /\ "deployed" \notin mounting THEN "pending"
        ELSE IF mounting = {} /\ ~ev.success THEN "not_attempted"
        ELSE "deployed"

\* node_outcomes, with Unset for a node the Deployment doesn't target.
NodeOutcomesOf(nodes, saved, applied, ev) ==
    [n \in Node |->
        IF n \notin nodes THEN Unset
        ELSE IF n \in Service THEN ServiceOutcome(n, saved, ev)
        ELSE IF n \in Has(saved) THEN KeptVolumeOutcome(n, nodes, saved, applied, ev)
        ELSE RemovedVolumeOutcome(n, ev)]

\* settled: the outcomes the preview and the confirmed Services already decide.
Settled(nodes, saved, applied, planned, confirmed) ==
    LET all == NodeOutcomesOf(nodes, saved, applied,
                              PlannedEvidence(planned, confirmed))
    IN  [n \in Node |-> IF all[n] = "pending" THEN Unset ELSE all[n]]

\* Mutant: the latest evidence alone decides.
KeepLatest(prior, next) == next

\* keep_advanced: what already entered Applied State keeps its outcome.
KeepAdvanced(prior, next) ==
    [n \in Node |-> IF Advances(prior[n]) THEN prior[n] ELSE next[n]]
=============================================================================
