--------------------------- MODULE BuildOwnership ---------------------------
(***************************************************************************)
(* Who may use a builder: each build slot of a host has a lock file, locked *)
(* (flock) by the attempt that uses the slot's builder and upload staging, *)
(* and marked while the end of the work in it isn't confirmed.  The lock   *)
(* goes with the process that holds it, the mark survives it.  Attempts    *)
(* come from the daemon, from a CLI that builds on this host and from one  *)
(* that clears the build cache.                                            *)
(***************************************************************************)
EXTENDS Naturals, FiniteSets

CONSTANTS
    Attempt,    \* each is made once
    Slots,      \* how many build slots the host has
    Kind,       \* the kinds of attempts there are
    None

Kinds == {"build", "check", "direct", "clear"}

ASSUME OwnershipAssumption ==
    /\ Slots \in Nat \ {0}
    /\ Kind \subseteq Kinds
    /\ None \notin Attempt \cup Kinds

Slot == 0..(Slots - 1)

VARIABLES
    kind, stage, slot, result,  \* of an attempt
    owner,      \* who has the lock of a slot
    marked,     \* the lock file isn't empty: "termination unconfirmed"
    staging,    \* whose files are in the slot's upload directory
    worker,     \* whose work may run in the slot's build container
    procs,      \* who left a Docker process alive, for each slot
    unclean     \* slots a restarted daemon has yet to clean up

vars == <<kind, stage, slot, result, owner, marked, staging, worker, procs, unclean>>

\* Stages in which a Docker command runs.
Command == {"preflight", "replace", "create", "work", "remove", "undo"}

Stage ==
    Command \cup {"new", "trying", "held", "upload", "mark", "own", "clear", "drop", "unlock", "done"}

Result == {"ok", "failed", "unknown"}

Daemon == {a \in Attempt : kind[a] \in {"build", "check"}}

Running == {a \in Attempt : stage[a] \notin {"new", "done"}}

Go(a, s) == stage' = [stage EXCEPT ![a] = s]

-----------------------------------------------------------------------------
(* Admission. *)

\* Mutant: one slot too many is cleared.
StartBeyond(a, k) ==
    /\ stage[a] = "new"
    /\ k \in {"build", "check"} => unclean = {}
    /\ kind' = [kind EXCEPT ![a] = k]
    /\ \E s \in 0..Slots : (k # "clear" => s = 0) /\ slot' = [slot EXCEPT ![a] = s]
    /\ Go(a, "trying")
    /\ UNCHANGED <<result, owner, marked, staging, worker, procs, unclean>>

\* A request comes; the daemon's wait for its startup cleanup.
Start(a, k) ==
    /\ stage[a] = "new"
    /\ k \in {"build", "check"} => unclean = {}
    /\ kind' = [kind EXCEPT ![a] = k]
    /\ \E s \in Slot : (k # "clear" => s = 0) /\ slot' = [slot EXCEPT ![a] = s]
    /\ Go(a, "trying")
    /\ UNCHANGED <<result, owner, marked, staging, worker, procs, unclean>>

\* A slot that is neither busy nor quarantined.
Free(s) == owner[s] = None /\ ~marked[s]

\* Mutant: whoever gets the lock gets the slot, marked or not.
TakeLocked(a) ==
    /\ stage[a] = "trying" /\ owner[slot[a]] = None
    /\ owner' = [owner EXCEPT ![slot[a]] = a]
    /\ Go(a, "held")
    /\ UNCHANGED <<kind, slot, result, marked, staging, worker, procs, unclean>>

\* try_acquire_slot
TakeSlot(a) ==
    /\ stage[a] = "trying" /\ Free(slot[a])
    /\ owner' = [owner EXCEPT ![slot[a]] = a]
    /\ Go(a, "held")
    /\ UNCHANGED <<kind, slot, result, marked, staging, worker, procs, unclean>>

\* try_acquire_within goes on to the next of the slots it may use, or fails.
\* A local Build only waits for slot 0, while it's busy.
NextSlot(a) ==
    /\ stage[a] = "trying" /\ ~Free(slot[a])
    /\ \/ /\ a \in Daemon /\ slot[a] + 1 \in Slot
          /\ slot' = [slot EXCEPT ![a] = @ + 1]
          /\ UNCHANGED stage
       \/ Go(a, "done") /\ UNCHANGED slot
    /\ UNCHANGED <<kind, result, owner, marked, staging, worker, procs, unclean>>

\* Upload::owned: what an earlier attempt left in the staging is removed.  A
\* request that is gone by now gives the slot back.
Receive(a) ==
    /\ stage[a] = "held" /\ a \in Daemon
    /\ \/ Go(a, "upload") /\ staging' = [staging EXCEPT ![slot[a]] = a]
       \/ Go(a, "unlock") /\ UNCHANGED staging
    /\ UNCHANGED <<kind, slot, result, owner, marked, worker, procs, unclean>>

\* The upload is complete, or a check needs none; or it is cut off.
Uploaded(a) ==
    /\ stage[a] = "upload"
    /\ \/ Go(a, "mark") /\ UNCHANGED result
       \/ Go(a, "drop") /\ result' = [result EXCEPT ![a] = "failed"]
    /\ UNCHANGED <<kind, slot, owner, marked, staging, worker, procs, unclean>>

\* An attempt without an upload starts, or is refused; clear_slot_cache runs its
\* preflight before it marks anything.
Proceed(a) ==
    /\ stage[a] = "held" /\ a \notin Daemon
    /\ \/ Go(a, IF kind[a] = "clear" THEN "preflight" ELSE "mark")
       \/ Go(a, "unlock")
    /\ UNCHANGED <<kind, slot, result, owner, marked, staging, worker, procs, unclean>>

\* quarantine, which may fail before or after the mark is in the file: before the
\* preflight of a Build, and again (a cache clearing's first) in Builder::acquire,
\* whose failure drops the Builder.
Mark(a) ==
    /\ stage[a] \in {"mark", "own"}
    /\ \/ /\ marked' = [marked EXCEPT ![slot[a]] = TRUE]
          /\ Go(a, IF stage[a] = "mark" THEN "preflight" ELSE "replace")
          /\ UNCHANGED result
       \/ /\ \E m \in BOOLEAN : marked' = [marked EXCEPT ![slot[a]] = @ \/ m]
          /\ Go(a, IF stage[a] = "mark" THEN "drop" ELSE "undo")
          /\ result' = [result EXCEPT ![a] = "failed"]
    /\ UNCHANGED <<kind, slot, owner, staging, worker, procs, unclean>>

-----------------------------------------------------------------------------
(* Work. *)

\* A Docker command ended with r: it exited, or it was cut off and seen to end,
\* or nobody saw it end.
Ended(a, r) ==
    /\ result' = [result EXCEPT ![a] = r]
    /\ procs' = IF r = "unknown" THEN [procs EXCEPT ![slot[a]] = @ \cup {a}] ELSE procs

\* Is there a local Docker with Buildx?  If not, nothing was started.
Preflight(a, r) ==
    /\ stage[a] = "preflight"
    /\ Ended(a, r)
    /\ Go(a, IF r = "ok" THEN "own"
             ELSE IF r = "failed" /\ kind[a] # "clear" THEN "clear" ELSE "drop")
    /\ UNCHANGED <<kind, slot, owner, marked, staging, worker, unclean>>

\* Builder::acquire: the container is replaced, never reused.
Replace(a, r) ==
    /\ stage[a] = "replace"
    /\ Ended(a, r)
    /\ worker' = IF r = "ok" THEN [worker EXCEPT ![slot[a]] = None] ELSE worker
    /\ Go(a, IF r = "ok" THEN "create" ELSE "remove")
    /\ UNCHANGED <<kind, slot, owner, marked, staging, unclean>>

\* A create that failed may still have reached Docker.
Create(a, r) ==
    /\ stage[a] = "create"
    /\ Ended(a, r)
    /\ \E w \in IF r = "ok" THEN {a} ELSE {None, a} : worker' = [worker EXCEPT ![slot[a]] = w]
    /\ Go(a, IF r = "ok" THEN "work" ELSE "remove")
    /\ UNCHANGED <<kind, slot, owner, marked, staging, unclean>>

\* The commands of the attempt, one after the other until one fails.
Work(a, r) ==
    /\ stage[a] = "work"
    /\ Ended(a, r)
    /\ Go(a, "remove")
    /\ UNCHANGED <<kind, slot, owner, marked, staging, worker, unclean>>

\* Builder::finish: the container goes; what isn't known to have ended stays marked.
Remove(a, r) ==
    /\ stage[a] = "remove"
    /\ IF r = "ok"
       THEN /\ worker' = [worker EXCEPT ![slot[a]] = None]
            /\ Go(a, IF result[a] = "unknown" THEN "drop" ELSE "clear")
            /\ UNCHANGED <<result, procs>>
       ELSE /\ Go(a, "drop")
            /\ result' = [result EXCEPT ![a] = "unknown"]
            /\ procs' = IF r = "unknown" THEN [procs EXCEPT ![slot[a]] = @ \cup {a}] ELSE procs
            /\ UNCHANGED worker
    /\ UNCHANGED <<kind, slot, owner, marked, staging, unclean>>

\* Builder::drop: the container goes and the mark with it, if that works; what it
\* finds out changes nothing of the attempt's result.
Undo(a, r) ==
    /\ stage[a] = "undo"
    /\ IF r = "ok"
       THEN /\ worker' = [worker EXCEPT ![slot[a]] = None]
            /\ \E m \in BOOLEAN : marked' = [marked EXCEPT ![slot[a]] = m /\ @]
            /\ UNCHANGED procs
       ELSE /\ procs' = IF r = "unknown" THEN [procs EXCEPT ![slot[a]] = @ \cup {a}] ELSE procs
            /\ UNCHANGED <<worker, marked>>
    /\ Go(a, "drop")
    /\ UNCHANGED <<kind, slot, result, owner, staging, unclean>>

\* clear, which may fail to truncate the file.
Clear(a) ==
    /\ stage[a] = "clear"
    /\ \E m \in BOOLEAN : marked' = [marked EXCEPT ![slot[a]] = m /\ @]
    /\ Go(a, "drop")
    /\ UNCHANGED <<kind, slot, result, owner, staging, worker, procs, unclean>>

\* Mutant: the staging is removed however the attempt ended.
DropAlways(a) ==
    /\ stage[a] = "drop"
    /\ staging' = IF staging[slot[a]] = a THEN [staging EXCEPT ![slot[a]] = None] ELSE staging
    /\ Go(a, "unlock")
    /\ UNCHANGED <<kind, slot, result, owner, marked, worker, procs, unclean>>

\* The staging is removed, unless unconfirmed processes may still read it...
Drop(a) ==
    /\ stage[a] = "drop"
    /\ staging' = IF staging[slot[a]] = a /\ result[a] # "unknown"
                  THEN [staging EXCEPT ![slot[a]] = None] ELSE staging
    /\ Go(a, "unlock")
    /\ UNCHANGED <<kind, slot, result, owner, marked, worker, procs, unclean>>

\* Mutant: an attempt of unknown end waits for its processes.
UnlockKnown(a) ==
    /\ stage[a] = "unlock" /\ a \notin procs[slot[a]]
    /\ owner' = [owner EXCEPT ![slot[a]] = None]
    /\ Go(a, "done")
    /\ UNCHANGED <<kind, slot, result, marked, staging, worker, procs, unclean>>

\* ...and only then the lock is given up.
Unlock(a) ==
    /\ stage[a] = "unlock"
    /\ owner' = [owner EXCEPT ![slot[a]] = None]
    /\ Go(a, "done")
    /\ UNCHANGED <<kind, slot, result, marked, staging, worker, procs, unclean>>

-----------------------------------------------------------------------------
(* Crashes, and what happens outside. *)

\* The process of the attempts in A is gone, and its locks with it; the command it
\* waited for may live on.
Gone(A) ==
    /\ stage' = [a \in Attempt |-> IF a \in A THEN "done" ELSE stage[a]]
    /\ owner' = [s \in Slot |-> IF owner[s] \in A THEN None ELSE owner[s]]
    /\ \E L \in SUBSET {a \in A : stage[a] \in Command} :
          procs' = [s \in Slot |-> procs[s] \cup {a \in L : slot[a] = s}]
    /\ UNCHANGED <<kind, slot, result, marked, staging, worker>>

CrashDaemon == Daemon \cap Running # {} /\ Gone(Daemon \cap Running) /\ unclean' = Slot

CrashCLI(a) == a \in Running \ Daemon /\ Gone({a}) /\ UNCHANGED unclean

\* Mutant: the teardown clears the mark, whether or not it worked.
CleanupClearing(s) ==
    /\ s \in unclean
    /\ unclean' = unclean \ {s}
    /\ staging' = IF Free(s) THEN [staging EXCEPT ![s] = None] ELSE staging
    /\ \/ owner[s] = None /\ marked[s] /\ worker' = [worker EXCEPT ![s] = None]
       \/ UNCHANGED worker
    /\ marked' = [marked EXCEPT ![s] = owner[s] # None /\ @]
    /\ UNCHANGED <<kind, stage, slot, result, owner, procs>>

\* cleanup_abandoned_slot, on startup: a slot that isn't marked loses its staging, a
\* marked one its container (if that works), but never the mark.
Cleanup(s) ==
    /\ s \in unclean
    /\ unclean' = unclean \ {s}
    /\ staging' = IF Free(s) THEN [staging EXCEPT ![s] = None] ELSE staging
    /\ \/ owner[s] = None /\ marked[s] /\ worker' = [worker EXCEPT ![s] = None]
       \/ UNCHANGED worker
    /\ UNCHANGED <<kind, stage, slot, result, owner, marked, procs>>

\* Work that was left alone ends.
Dies(a, s) ==
    /\ a \in procs[s] \/ worker[s] = a
    /\ stage[a] \in {"drop", "unlock", "done"}
    /\ procs' = [procs EXCEPT ![s] = @ \ {a}]
    /\ worker' = IF worker[s] = a THEN [worker EXCEPT ![s] = None] ELSE worker
    /\ UNCHANGED <<kind, stage, slot, result, owner, marked, staging, unclean>>

\* The operator, once the builder and its host processes have stopped.
Confirm(s) ==
    /\ marked[s] /\ owner[s] = None /\ procs[s] = {} /\ worker[s] = None
    /\ marked' = [marked EXCEPT ![s] = FALSE]
    /\ UNCHANGED <<kind, stage, slot, result, owner, staging, worker, procs, unclean>>

-----------------------------------------------------------------------------
Init ==
    /\ kind = [a \in Attempt |-> None]
    /\ stage = [a \in Attempt |-> "new"]
    /\ slot = [a \in Attempt |-> 0]
    /\ result = [a \in Attempt |-> "ok"]
    /\ owner = [s \in Slot |-> None]
    /\ marked = [s \in Slot |-> FALSE]
    /\ staging = [s \in Slot |-> None]
    /\ worker = [s \in Slot |-> None]
    /\ procs = [s \in Slot |-> {}]
    /\ unclean = {}

DockerStep(a, r) ==
    \/ Preflight(a, r) \/ Replace(a, r) \/ Create(a, r) \/ Work(a, r) \/ Remove(a, r) \/ Undo(a, r)

AttemptStep(a) ==
    \/ TakeSlot(a) \/ NextSlot(a) \/ Receive(a) \/ Uploaded(a) \/ Proceed(a) \/ Mark(a)
    \/ \E r \in Result : DockerStep(a, r)
    \/ Clear(a) \/ Drop(a) \/ Unlock(a)

Next ==
    \/ \E a \in Attempt : AttemptStep(a) \/ CrashCLI(a)
    \/ \E a \in Attempt, k \in Kind : Start(a, k)
    \/ CrashDaemon
    \/ \E s \in Slot : Cleanup(s) \/ Confirm(s)
    \/ \E a \in Attempt, s \in Slot : Dies(a, s)

Spec == Init /\ [][Next]_vars

(***************************************************************************)
(* An attempt goes on: every command has a deadline, and the wait for its  *)
(* end after that is bounded too.                                          *)
(***************************************************************************)
FairSpec == Spec /\ \A a \in Attempt : WF_vars(AttemptStep(a))

-----------------------------------------------------------------------------
(* Properties *)

\* Every variable holds what the code lets it hold.
TypeOK ==
    /\ kind \in [Attempt -> Kind \cup {None}]
    /\ stage \in [Attempt -> Stage]
    /\ slot \in [Attempt -> Slot]
    /\ result \in [Attempt -> Result]
    /\ owner \in [Slot -> Attempt \cup {None}]
    /\ marked \in [Slot -> BOOLEAN]
    /\ staging \in [Slot -> Attempt \cup {None}]
    /\ worker \in [Slot -> Attempt \cup {None}]
    /\ procs \in [Slot -> SUBSET Attempt]
    /\ unclean \subseteq Slot

\* An attempt has its slot from the lock's taking to its giving up.
Has(a) == stage[a] \notin {"new", "trying", "done"}

\* "Uncertainty blocks competing work" (execute_admitted): nobody has a slot in
\* which the container of another attempt, or the processes of another Build or
\* check, may be alive, whichever of them crashed, timed out or wasn't seen to end.
NoConflict ==
    \A a \in Attempt : Has(a) =>
        /\ worker[slot[a]] \in {None, a}
        /\ \A p \in procs[slot[a]] : p = a \/ kind[p] = "clear"

\* "Mark before any Docker mutation so a killed daemon cannot silently reuse state
\* whose termination was never observed": where a container may run, the mark is
\* on disk.
ContainerMarked == \A s \in Slot : worker[s] # None => marked[s]

\* "Unconfirmed processes may still read private attempt files.  Keep them protected"
\* (upload.retain): no other attempt, no restart and no end but one after a failed
\* Builder::acquire removes the staging while a process of its attempt may be alive.
FilesKept ==
    [][\A s \in Slot, a \in Attempt :
          staging[s] = a /\ a \in procs[s] =>
              \/ staging'[s] = a \/ a \notin procs'[s]
              \/ stage[a] = "drop" /\ result[a] = "failed"]_vars

\* A slot taken is given up, however Docker behaves ("inability to observe
\* termination must not become an unbounded wait").
GivenUp == \A a \in Attempt : Has(a) ~> ~Has(a)
=============================================================================
