----------------------------- MODULE BuildQueue -----------------------------
(***************************************************************************)
(* The build slots of one Server (ployzd): a limit on how many Builds run  *)
(* at once, a FIFO of those that wait, and the debt a lowered limit leaves *)
(* behind.  Builds come and go on the threads of the runtime: a step here  *)
(* is what happens under one lock, the slots' mutex or the semaphore's.    *)
(***************************************************************************)
EXTENDS Naturals, FiniteSets

CONSTANTS
    Build,      \* Builds that come, go and come again
    MaxLimit,   \* bound: the highest build concurrency
    Capacity    \* queue_capacity: how many may wait

ASSUME QueueAssumption ==
    /\ IsFiniteSet(Build)
    /\ MaxLimit \in Nat \ {0}
    /\ Capacity \in Nat

VARIABLES
    size, debt,     \* Slots
    available,      \* free permits of the semaphore `active`
    at,             \* where each Build is
    queued,         \* Builds enrolled in the semaphore's FIFO, without a permit
    ahead,          \* those enrolled before it, for each queued Build
    granted,        \* Builds the semaphore gave a permit that didn't look yet
    stopping        \* the daemon shuts down

vars == <<size, debt, available, at, queued, ahead, granted, stopping>>

\* A Build that overstays its cancellation is "stuck": it keeps its slot and
\* nobody waits for it any more.  One that "leaves" still has to drop its permit.
Place == {"out", "entering", "waiting", "active", "stuck", "leaving"}

At(places) == {b \in Build : at[b] \in places}

\* Builds with a permit, looked at or not.
Holding == granted \cup At({"active", "stuck"})

Using == Holding \cup At({"leaving"})

\* Builds in line for a permit.
InLine == At({"entering", "waiting"}) \ granted

-----------------------------------------------------------------------------
(* The semaphore: fair, so a permit goes to whoever enrolled first. *)

\* The first n in the queue.
IsFirst(G, n) ==
    /\ G \subseteq queued /\ Cardinality(G) = n
    /\ \A b \in G : ahead[b] \subseteq G

Unqueue(G) ==
    /\ queued' = queued \ G
    /\ ahead' = [b \in Build |-> ahead[b] \ G]

\* add_permits, or an OwnedSemaphorePermit dropped: k permits are back.
AddPermits(k) ==
    IF k <= Cardinality(queued)
    THEN /\ \E G \in SUBSET queued :
              IsFirst(G, k) /\ Unqueue(G) /\ granted' = granted \cup G
         /\ UNCHANGED available
    ELSE /\ available' = available + (k - Cardinality(queued))
         /\ granted' = granted \cup queued
         /\ Unqueue(queued)

\* The future of acquire_owned dropped: b leaves the queue, and a permit it was
\* given but never took goes on.
DropAcquire(b) ==
    IF b \in granted
    THEN IF queued = {}
         THEN /\ available' = available + 1
              /\ granted' = granted \ {b}
              /\ UNCHANGED <<queued, ahead>>
         ELSE \E h \in queued :
              /\ ahead[h] = {}
              /\ granted' = (granted \ {b}) \cup {h}
              /\ Unqueue({h})
              /\ UNCHANGED available
    ELSE Unqueue({b}) /\ UNCHANGED <<available, granted>>

-----------------------------------------------------------------------------
Move(b, place) == at' = [at EXCEPT ![b] = place]

\* Mutant: the first poll is left to admit, so a Build that waits isn't enrolled.
EnterUnpolled(b) ==
    /\ at[b] = "out" /\ ~stopping
    /\ IF available > 0
       THEN Move(b, "active") /\ available' = available - 1
       ELSE Move(b, "entering") /\ UNCHANGED available
    /\ UNCHANGED <<size, debt, queued, ahead, granted, stopping>>

\* enter: the first poll takes a free permit, or enrolls b...
Enter(b) ==
    /\ at[b] = "out" /\ ~stopping
    /\ IF available > 0
       THEN /\ Move(b, "active")
            /\ available' = available - 1
            /\ UNCHANGED <<queued, ahead>>
       ELSE /\ Move(b, "entering")
            /\ queued' = queued \cup {b}
            /\ ahead' = [ahead EXCEPT ![b] = queued]
            /\ UNCHANGED available
    /\ UNCHANGED <<size, debt, granted, stopping>>

\* ...which may wait only if there is room, else it is refused as Full.
Room(b) ==
    /\ at[b] = "entering"
    /\ IF Cardinality(At({"waiting"})) < Capacity
       THEN Move(b, "waiting") /\ UNCHANGED <<available, queued, ahead, granted>>
       ELSE Move(b, "out") /\ DropAcquire(b)
    /\ UNCHANGED <<size, debt, stopping>>

\* admit: b sees that it has a permit.
Admit(b) ==
    /\ at[b] = "waiting" /\ b \in granted /\ ~stopping
    /\ Move(b, "active")
    /\ granted' = granted \ {b}
    /\ UNCHANGED <<size, debt, available, queued, ahead, stopping>>

\* Mutant: giving up leaves the acquisition in the semaphore's queue.
AbandonInLine(b) ==
    /\ at[b] = "waiting"
    /\ Move(b, "out")
    /\ UNCHANGED <<size, debt, available, queued, ahead, granted, stopping>>

\* A waiting Build expired, was cancelled or disconnected, or the daemon stops.
Abandon(b) ==
    /\ at[b] = "waiting"
    /\ Move(b, "out")
    /\ DropAcquire(b)
    /\ UNCHANGED <<size, debt, stopping>>

\* A Build was told to stop and didn't within the grace period: the attempt is
\* over, as Unknown, but its thread keeps the slot.
Overstay(b) ==
    /\ at[b] = "active"
    /\ Move(b, "stuck")
    /\ UNCHANGED <<size, debt, available, queued, ahead, granted, stopping>>

\* Mutant: every slot repays, owed or not.
DropSlotRepaying(b) ==
    /\ at[b] \in {"active", "stuck"}
    /\ debt' = debt - 1 /\ Move(b, "out")
    /\ UNCHANGED <<size, available, queued, ahead, granted, stopping>>

\* Slot::drop, under the slots' lock: a permit that is owed is forgotten...
DropSlot(b) ==
    /\ at[b] \in {"active", "stuck"}
    /\ IF debt > 0
       THEN debt' = debt - 1 /\ Move(b, "out")
       ELSE Move(b, "leaving") /\ UNCHANGED debt
    /\ UNCHANGED <<size, available, queued, ahead, granted, stopping>>

\* ...any other is released when the fields drop, after the lock is.
DropPermit(b) ==
    /\ at[b] = "leaving"
    /\ Move(b, "out")
    /\ AddPermits(1)
    /\ UNCHANGED <<size, debt, stopping>>

\* Mutant: a raised limit repays debt and adds the permits all the same.
ResizeUnpaid(limit) ==
    /\ limit # size /\ ~stopping
    /\ size' = limit
    /\ IF limit > size
       THEN LET grow == limit - size
            IN  debt' = (IF grow <= debt THEN debt - grow ELSE 0) /\ AddPermits(grow)
       ELSE LET shrink == size - limit
                forgot == IF shrink <= available THEN shrink ELSE available
            IN  /\ available' = available - forgot
                /\ debt' = debt + (shrink - forgot)
                /\ UNCHANGED <<queued, ahead, granted>>
    /\ UNCHANGED <<at, stopping>>

\* resize to a higher limit repays debt first; to a lower one takes free permits
\* and owes the rest.
Resize(limit) ==
    /\ limit # size /\ ~stopping
    /\ size' = limit
    /\ IF limit > size
       THEN LET grow   == limit - size
                repaid == IF grow <= debt THEN grow ELSE debt
            IN  debt' = debt - repaid /\ AddPermits(grow - repaid)
       ELSE LET shrink == size - limit
                forgot == IF shrink <= available THEN shrink ELSE available
            IN  /\ available' = available - forgot
                /\ debt' = debt + (shrink - forgot)
                /\ UNCHANGED <<queued, ahead, granted>>
    /\ UNCHANGED <<at, stopping>>

Shutdown ==
    /\ ~stopping /\ stopping' = TRUE
    /\ UNCHANGED <<size, debt, available, at, queued, ahead, granted>>

-----------------------------------------------------------------------------
Init ==
    /\ size = 1 /\ debt = 0 /\ available = 1
    /\ at = [b \in Build |-> "out"]
    /\ queued = {} /\ granted = {}
    /\ ahead = [b \in Build |-> {}]
    /\ stopping = FALSE

BuildStep(b) ==
    \/ Enter(b) \/ Room(b) \/ Admit(b) \/ Abandon(b)
    \/ Overstay(b) \/ DropSlot(b) \/ DropPermit(b)

Next ==
    \/ \E b \in Build : BuildStep(b)
    \/ \E limit \in 1..MaxLimit : Resize(limit)
    \/ Shutdown

Spec == Init /\ [][Next]_vars

(***************************************************************************)
(* A Build that runs ends or is told to: it has an active timeout, and the *)
(* grace period after that is bounded too.  A task that was woken is       *)
(* polled, and a drop runs to its end.  Nothing is promised about one that *)
(* is stuck, about arrivals, cancellations, resizes or the shutdown.       *)
(***************************************************************************)
Fairness ==
    \A b \in Build : /\ WF_vars(Room(b))
                     /\ WF_vars(Admit(b))
                     /\ WF_vars(at[b] = "active" /\ (DropSlot(b) \/ Overstay(b)))
                     /\ WF_vars(DropPermit(b))

FairSpec == Spec /\ Fairness

-----------------------------------------------------------------------------
(* Properties *)

\* Every variable holds what the code lets it hold.
TypeOK ==
    /\ size \in 1..MaxLimit /\ debt \in Nat /\ available \in Nat
    /\ at \in [Build -> Place]
    /\ queued \subseteq Build /\ granted \subseteq Build
    /\ ahead \in [Build -> SUBSET Build]
    /\ stopping \in BOOLEAN

\* The comment on Slots, `available + held - debt == size`: no permit is lost or
\* made, whatever Builds come, go and give up while the limit changes.
SlotsBalance == available + Cardinality(Using) = size + debt

\* Whoever gets a permit leaves only later arrivals in line, a Build that enters
\* at that moment and one that has yet to look included (enter, admit, resize).
NoOvertaking ==
    [][\A b \in Holding' \ Holding : \A c \in InLine \cap InLine' : b \in ahead[c]]_vars

\* A Build in line gets a slot or gives up, unless the daemon stops first or
\* stuck Builds have every slot there is: no permit is ever left with nobody.
Served ==
    \A b \in Build :
        at[b] = "waiting" ~> \/ at[b] # "waiting" \/ stopping
                            \/ Cardinality(At({"stuck"})) >= size
=============================================================================
