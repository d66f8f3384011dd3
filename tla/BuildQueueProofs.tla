-------------------------- MODULE BuildQueueProofs --------------------------
(***************************************************************************)
(* What BuildQueue promises for every set of Builds, limit and capacity:   *)
(* the types, the balance of the slots and that nobody overtakes.          *)
(***************************************************************************)
EXTENDS BuildQueue, TLAPS, FiniteSetTheorems

\* Who is in line is who the semaphore queued or gave a permit, and nobody is
\* queued while a permit is free.
Line ==
    /\ queued \cap granted = {}
    /\ queued \cup granted = At({"entering", "waiting"})
    /\ available > 0 => queued = {}

\* `ahead` orders the queue.
Fifo ==
    /\ \A b \in queued : ahead[b] \subseteq queued \ {b}
    /\ \A b, c \in queued : b = c \/ b \in ahead[c] \/ c \in ahead[b]

\* The inductive invariant: the balance alone isn't, for whether a permit that
\* comes back is free or goes to someone in line depends on the line.
IInv == TypeOK /\ Line /\ Fifo /\ SlotsBalance

-----------------------------------------------------------------------------
(* Sets of Builds are finite. *)

\* Every set of Builds has a natural number of members.
LEMMA BuildsFinite ==
    ASSUME NEW S \in SUBSET Build
    PROVE  IsFiniteSet(S) /\ Cardinality(S) \in Nat
BY QueueAssumption, FS_Subset, FS_CardinalityType, Zenon

\* A Build leaves a set of Builds, as Slot::drop lets it.
LEMMA WithoutOne ==
    ASSUME NEW S \in SUBSET Build, NEW b \in S
    PROVE  Cardinality(S \ {b}) = Cardinality(S) - 1
BY BuildsFinite, FS_RemoveElement, Zenon

\* Builds join a set of others, as a raised limit lets them.
LEMMA WithOthers ==
    ASSUME NEW S \in SUBSET Build, NEW G \in SUBSET Build, S \cap G = {}
    PROVE  Cardinality(S \cup G) = Cardinality(S) + Cardinality(G)
<1>1. Cardinality(S \cap G) = 0
  BY FS_EmptySet, Zenon
<1>2. Cardinality(S \cup G) = Cardinality(S) + Cardinality(G) - Cardinality(S \cap G)
  BY BuildsFinite, FS_Union, Zenon
<1>. QED
  BY <1>1, <1>2, BuildsFinite

\* One leaves and others join, as when a permit is passed on.
LEMMA OneForOthers ==
    ASSUME NEW S \in SUBSET Build, NEW b \in S, NEW G \in SUBSET Build, (S \ {b}) \cap G = {}
    PROVE  Cardinality((S \ {b}) \cup G) = (Cardinality(S) - 1) + Cardinality(G)
<1>1. Cardinality(S \ {b}) = Cardinality(S) - 1
  BY WithoutOne, Zenon
<1>2. Cardinality((S \ {b}) \cup G) = Cardinality(S \ {b}) + Cardinality(G)
  BY WithOthers, Zenon
<1>. QED
  BY <1>1, <1>2, Zenon

-----------------------------------------------------------------------------
(* What the semaphore does with permits that come back. *)

\* k permits came back: the first Builds in line, G, are given one each, and what
\* is left is free.
Given(G, k) ==
    /\ G \subseteq queued
    /\ \A b \in G : ahead[b] \subseteq G
    /\ queued' = queued \ G
    /\ ahead' = [b \in Build |-> ahead[b] \ G]
    /\ available' \in Nat
    /\ available' + Cardinality(G) = available + k
    /\ available' > 0 => queued' = {}

\* add_permits gives permits to the first in line, and frees the rest.
LEMMA AddPermitsGives ==
    ASSUME IInv, NEW k \in Nat, AddPermits(k)
    PROVE  \E G : Given(G, k) /\ granted' = granted \cup G
<1>. USE DEF IInv, TypeOK, Line, Fifo
<1>1. Cardinality(queued) \in Nat
  BY BuildsFinite, Zenon
<1>2. CASE k <= Cardinality(queued)
  <2>1. PICK G \in SUBSET queued : IsFirst(G, k) /\ Unqueue(G) /\ granted' = granted \cup G
    BY <1>2, Zenon DEF AddPermits
  <2>2. available' = available
    BY <1>2, Zenon DEF AddPermits
  <2>3. Given(G, k)
    BY <2>1, <2>2, Zenon DEF Given, IsFirst, Unqueue
  <2>. QED
    BY <2>1, <2>3, Zenon
<1>3. CASE ~(k <= Cardinality(queued))
  <2>1. Given(queued, k)
    BY <1>1, <1>3 DEF Given, AddPermits, Unqueue
  <2>. QED
    BY <2>1, <1>3, Zenon DEF AddPermits
<1>. QED
  BY <1>2, <1>3, Zenon

\* Dropping an acquisition that has a permit passes it on; one that has none just
\* leaves the line.
LEMMA DropAcquireGives ==
    ASSUME IInv, NEW b \in At({"entering", "waiting"}), DropAcquire(b)
    PROVE  \/ /\ b \in granted
              /\ \E G : Given(G, 1) /\ granted' = (granted \ {b}) \cup G
           \/ /\ b \in queued
              /\ Unqueue({b})
              /\ UNCHANGED <<available, granted>>
<1>. USE DEF IInv, TypeOK, Line, Fifo
<1>1. CASE b \in granted /\ queued = {}
  <2>1. Given({}, 1)
    BY <1>1, FS_EmptySet DEF Given, DropAcquire
  <2>2. granted' = (granted \ {b}) \cup {}
    BY <1>1, Zenon DEF DropAcquire
  <2>. QED
    BY <1>1, <2>1, <2>2, Zenon
<1>2. CASE b \in granted /\ queued # {}
  <2>1. PICK h \in queued :
          /\ ahead[h] = {}
          /\ granted' = (granted \ {b}) \cup {h}
          /\ Unqueue({h})
          /\ UNCHANGED available
    BY <1>2, Zenon DEF DropAcquire
  <2>2. Given({h}, 1)
    BY <1>2, <2>1, FS_Singleton, Zenon DEF Given, Unqueue
  <2>. QED
    BY <1>2, <2>1, <2>2, Zenon
<1>3. CASE b \notin granted
  BY <1>3, Zenon DEF DropAcquire, At
<1>. QED
  BY <1>1, <1>2, <1>3, Zenon

\* The line stays in order when its first Builds get their permits.
LEMMA GivenKeepsOrder ==
    ASSUME TypeOK, Fifo, NEW G, NEW k, Given(G, k)
    PROVE  Fifo' /\ queued' \subseteq Build /\ ahead' \in [Build -> SUBSET Build]
BY Zenon DEF TypeOK, Fifo, Given

\* Whoever gets a permit that came back was ahead of all who stay in line.
LEMMA GivenInOrder ==
    ASSUME TypeOK, Fifo, NEW G, NEW k, Given(G, k),
           NEW b \in G, NEW c \in queued'
    PROVE  b \in ahead[c]
BY Zenon DEF TypeOK, Fifo, Given

-----------------------------------------------------------------------------
(* The invariant, action by action. *)

\* A fresh Runner has one free slot and no Builds.
LEMMA InitInv ==
    Init => IInv
<1>. SUFFICES ASSUME Init PROVE IInv
  BY Zenon
<1>a. 1 \in 1..MaxLimit
  BY QueueAssumption
<1>b. stopping \in BOOLEAN
  BY Zenon DEF Init
<1>1. TypeOK
  BY <1>a, <1>b, Zenon DEF Init, TypeOK, Place
<1>2. Line
  BY Zenon DEF Init, Line, At
<1>3. Fifo
  BY Zenon DEF Init, Fifo
<1>4. Using = {}
  BY Zenon DEF Init, Using, Holding, At
<1>. QED
  BY <1>1, <1>2, <1>3, <1>4, FS_EmptySet, Zenon DEF IInv, SlotsBalance, Init

\* The Builds with a permit are Builds.
LEMMA UsingBuilds ==
    ASSUME TypeOK
    PROVE  Using \subseteq Build /\ Holding \subseteq Build
BY Zenon DEF TypeOK, Using, Holding, At

\* enter
LEMMA EnterInv ==
    ASSUME IInv, NEW b \in Build, Enter(b)
    PROVE  IInv'
<1>. USE DEF IInv
<1>0. Using \subseteq Build /\ b \notin Using /\ b \notin granted /\ b \notin queued
  BY UsingBuilds, Zenon DEF Enter, Using, Holding, At, Line
<1>1. CASE available > 0
  <2>1. TypeOK' /\ Line' /\ Fifo'
    BY <1>0, <1>1 DEF Enter, Move, TypeOK, Line, Fifo, At, Place
  <2>2. Using' = Using \cup {b}
    BY <1>1, Zenon DEF Enter, Move, Using, Holding, At, TypeOK
  <2>3. Cardinality(Using') = Cardinality(Using) + 1
    BY <1>0, <2>2, BuildsFinite, FS_AddElement, Zenon
  <2>. QED
    BY <1>0, <1>1, <2>1, <2>3, BuildsFinite DEF Enter, SlotsBalance, TypeOK
<1>2. CASE ~(available > 0)
  <2>1. TypeOK'
    BY <1>2 DEF Enter, Move, TypeOK, Place
  <2>2. Line'
    BY <1>0, <1>2 DEF Enter, Move, TypeOK, Line, At
  <2>3. Fifo'
    BY <1>0, <1>2 DEF Enter, TypeOK, Fifo
  <2>4. Using' = Using
    BY <1>2, Zenon DEF Enter, Move, Using, Holding, At, TypeOK
  <2>. QED
    BY <1>2, <2>1, <2>2, <2>3, <2>4, Zenon DEF Enter, SlotsBalance
<1>. QED
  BY <1>1, <1>2, Zenon

\* A Build that leaves the line, because there's no room or because it gives up.
LEMMA LeaveInv ==
    ASSUME IInv, NEW b \in At({"entering", "waiting"}), Move(b, "out"), DropAcquire(b),
           UNCHANGED <<size, debt, stopping>>
    PROVE  IInv'
<1>. USE DEF IInv
<1>0. Using \subseteq Build /\ b \in Build
  BY UsingBuilds, Zenon DEF At
<1>1. CASE b \in granted /\ \E G : Given(G, 1) /\ granted' = (granted \ {b}) \cup G
  <2>1. PICK G : Given(G, 1) /\ granted' = (granted \ {b}) \cup G
    BY <1>1, Zenon
  <2>2. TypeOK'
    BY <2>1, <1>0, GivenKeepsOrder, Zenon DEF TypeOK, Move, Place, Given
  <2>3. Line'
    BY <2>1, <1>0, <1>1 DEF TypeOK, Line, Move, At, Given
  <2>4. Fifo'
    BY <2>1, GivenKeepsOrder, Zenon
  <2>5. Using' = (Using \ {b}) \cup G
    BY <2>1, <1>0, Zenon DEF Using, Holding, At, Move, TypeOK, Line, Given
  <2>6. b \in Using /\ (Using \ {b}) \cap G = {} /\ G \subseteq Build
    BY <2>1, <1>1, Zenon DEF Using, Holding, At, TypeOK, Line, Given
  <2>7. Cardinality(Using') = (Cardinality(Using) - 1) + Cardinality(G)
    BY <1>0, <2>5, <2>6, OneForOthers, Zenon
  <2>8. Cardinality(Using) \in Nat /\ Cardinality(G) \in Nat
    BY <1>0, <2>6, BuildsFinite, Zenon
  <2>9. available' + Cardinality(G) = available + 1 /\ available' \in Nat
    BY <2>1, Zenon DEF Given
  <2>10. SlotsBalance'
    BY <2>7, <2>8, <2>9 DEF SlotsBalance, TypeOK
  <2>. QED
    BY <2>2, <2>3, <2>4, <2>10, Zenon
<1>2. CASE b \in queued /\ Unqueue({b}) /\ UNCHANGED <<available, granted>>
  <2>1. TypeOK'
    BY <1>2, <1>0, Zenon DEF TypeOK, Move, Place, Unqueue
  <2>2. Line'
    BY <1>2, <1>0, Zenon DEF TypeOK, Line, Move, At, Unqueue
  <2>3. Fifo'
    BY <1>2, <1>0, Zenon DEF TypeOK, Fifo, Unqueue
  <2>4. Using' = Using
    BY <1>2, <1>0, Zenon DEF Using, Holding, At, Move, TypeOK, Line
  <2>. QED
    BY <1>2, <2>1, <2>2, <2>3, <2>4, Zenon DEF SlotsBalance
<1>. QED
  BY <1>1, <1>2, DropAcquireGives, Zenon

\* The rest of enter, and admit's failures.
LEMMA RoomInv ==
    ASSUME IInv, NEW b \in Build, Room(b) \/ Abandon(b)
    PROVE  IInv'
<1>1. b \in At({"entering", "waiting"})
  BY Zenon DEF Room, Abandon, At
<1>2. CASE Move(b, "out") /\ DropAcquire(b) /\ UNCHANGED <<size, debt, stopping>>
  BY <1>1, <1>2, LeaveInv, Zenon
<1>3. CASE /\ at[b] = "entering" /\ Move(b, "waiting")
           /\ UNCHANGED <<size, debt, available, queued, ahead, granted, stopping>>
  <2>1. TypeOK' /\ Fifo'
    BY <1>3, Zenon DEF IInv, TypeOK, Fifo, Move, Place
  <2>2. Using' = Using /\ At({"entering", "waiting"})' = At({"entering", "waiting"})
    BY <1>3, Zenon DEF Using, Holding, At, Move, IInv, TypeOK
  <2>. QED
    BY <1>3, <2>1, <2>2, Zenon DEF IInv, Line, SlotsBalance
<1>. QED
  BY <1>2, <1>3, Zenon DEF Room, Abandon

\* admit, and a Build that overstays.
LEMMA AdmitInv ==
    ASSUME IInv, NEW b \in Build, Admit(b) \/ Overstay(b)
    PROVE  IInv'
<1>. USE DEF IInv
<1>1. TypeOK' /\ Fifo'
  BY Zenon DEF TypeOK, Fifo, Admit, Overstay, Move, Place
<1>2. Line'
  BY DEF TypeOK, Line, Admit, Overstay, Move, At
<1>3. Using' = Using
  BY Zenon DEF TypeOK, Using, Holding, Admit, Overstay, Move, At
<1>. QED
  BY <1>1, <1>2, <1>3, Zenon DEF SlotsBalance, Admit, Overstay

\* Slot::drop
LEMMA DropSlotInv ==
    ASSUME IInv, NEW b \in Build, DropSlot(b)
    PROVE  IInv'
<1>. USE DEF IInv
<1>0. Using \subseteq Build /\ b \in Using
  BY UsingBuilds, Zenon DEF DropSlot, Using, Holding, At
<1>1. TypeOK' /\ Fifo'
  BY DEF TypeOK, Fifo, DropSlot, Move, Place
<1>2. Line'
  BY Zenon DEF TypeOK, Line, DropSlot, Move, At
<1>3. CASE debt > 0
  <2>1. Using' = Using \ {b}
    BY <1>3, Zenon DEF TypeOK, Using, Holding, DropSlot, Move, At, Line
  <2>2. Cardinality(Using') = Cardinality(Using) - 1
    BY <1>0, <2>1, WithoutOne, Zenon
  <2>3. Cardinality(Using) \in Nat
    BY <1>0, BuildsFinite, Zenon
  <2>. QED
    BY <1>1, <1>2, <1>3, <2>2, <2>3 DEF SlotsBalance, DropSlot, TypeOK
<1>4. CASE ~(debt > 0)
  <2>1. Using' = Using
    BY <1>4, Zenon DEF TypeOK, Using, Holding, DropSlot, Move, At
  <2>. QED
    BY <1>1, <1>2, <1>4, <2>1, Zenon DEF SlotsBalance, DropSlot
<1>. QED
  BY <1>3, <1>4, Zenon

\* The permit that Slot::drop left goes back to the semaphore.
LEMMA DropPermitInv ==
    ASSUME IInv, NEW b \in Build, DropPermit(b)
    PROVE  IInv'
<1>. USE DEF IInv
<1>0. Using \subseteq Build /\ b \in Using /\ b \notin queued /\ b \notin granted
  BY UsingBuilds, Zenon DEF DropPermit, Using, Holding, At, Line
<1>1. PICK G : Given(G, 1) /\ granted' = granted \cup G
  BY AddPermitsGives, Zenon DEF DropPermit
<1>2. TypeOK'
  BY <1>1, GivenKeepsOrder, Zenon DEF TypeOK, DropPermit, Move, Place, Given
<1>3. Line'
  BY <1>0, <1>1, Zenon DEF TypeOK, Line, DropPermit, Move, At, Given
<1>4. Fifo'
  BY <1>1, GivenKeepsOrder, Zenon
<1>5. Using' = (Using \ {b}) \cup G
  BY <1>0, <1>1, Zenon DEF TypeOK, Using, Holding, DropPermit, Move, At, Given
<1>6. (Using \ {b}) \cap G = {} /\ G \subseteq Build
  BY <1>1, Zenon DEF Using, Holding, At, TypeOK, Line, Given
<1>7. Cardinality(Using') = (Cardinality(Using) - 1) + Cardinality(G)
  BY <1>0, <1>5, <1>6, OneForOthers, Zenon
<1>8. Cardinality(Using) \in Nat /\ Cardinality(G) \in Nat
  BY <1>0, <1>6, BuildsFinite, Zenon
<1>9. available' + Cardinality(G) = available + 1 /\ available' \in Nat
  BY <1>1, Zenon DEF Given
<1>10. SlotsBalance'
  BY <1>7, <1>8, <1>9 DEF SlotsBalance, TypeOK, DropPermit
<1>. QED
  BY <1>2, <1>3, <1>4, <1>10, Zenon

\* resize
LEMMA ResizeInv ==
    ASSUME IInv, NEW limit \in 1..MaxLimit, Resize(limit)
    PROVE  IInv'
<1>. USE DEF IInv
<1>0. Using \subseteq Build /\ Cardinality(Using) \in Nat /\ limit \in Nat /\ size \in Nat
  BY UsingBuilds, BuildsFinite, QueueAssumption DEF TypeOK
<1>1. CASE limit > size
  <2>. DEFINE grow == limit - size
              repaid == IF grow <= debt THEN grow ELSE debt
              k == grow - repaid
  <2>1. k \in Nat /\ debt - repaid \in Nat /\ repaid \in Nat
    BY <1>0, <1>1 DEF TypeOK
  <2>2. size' = limit /\ debt' = debt - repaid /\ AddPermits(k) /\ UNCHANGED <<at, stopping>>
    BY <1>1, Zenon DEF Resize
  <2>. HIDE DEF k
  <2>3. PICK G : Given(G, k) /\ granted' = granted \cup G
    BY <2>1, <2>2, AddPermitsGives, Zenon
  <2>4. TypeOK'
    BY <2>1, <2>2, <2>3, GivenKeepsOrder, Zenon DEF TypeOK, Given
  <2>5. Line'
    BY <2>2, <2>3, Zenon DEF Line, At, Given
  <2>6. Fifo'
    BY <2>3, GivenKeepsOrder, Zenon
  <2>7. Using' = Using \cup G
    BY <2>2, <2>3, Zenon DEF Using, Holding, At
  <2>8. Using \cap G = {} /\ G \subseteq Build
    BY <2>3, Zenon DEF Using, Holding, At, TypeOK, Line, Given
  <2>9. Cardinality(Using') = Cardinality(Using) + Cardinality(G)
    BY <1>0, <2>7, <2>8, WithOthers, Zenon
  <2>10. Cardinality(G) \in Nat
    BY <2>8, BuildsFinite, Zenon
  <2>11. available' + Cardinality(G) = available + k /\ available' \in Nat
    BY <2>3, Zenon DEF Given
  <2>12. k = (limit - size) - repaid
    BY Zenon DEF k
  <2>. HIDE DEF repaid
  <2>13. SlotsBalance'
    BY <1>0, <2>1, <2>2, <2>9, <2>10, <2>11, <2>12 DEF SlotsBalance, TypeOK
  <2>. QED
    BY <2>4, <2>5, <2>6, <2>13, Zenon
<1>2. CASE ~(limit > size)
  <2>. DEFINE shrink == size - limit
              forgot == IF shrink <= available THEN shrink ELSE available
  <2>1. /\ size' = limit /\ available' = available - forgot /\ debt' = debt + (shrink - forgot)
        /\ UNCHANGED <<at, queued, ahead, granted, stopping>>
    BY <1>2, Zenon DEF Resize
  <2>2. shrink \in Nat /\ forgot \in Nat /\ available - forgot \in Nat /\ shrink - forgot \in Nat
    BY <1>0, <1>2 DEF TypeOK
  <2>. HIDE DEF forgot
  <2>3. TypeOK'
    BY <1>0, <2>1, <2>2 DEF TypeOK
  <2>4. Line' /\ Fifo'
    BY <2>1, <2>2 DEF Line, Fifo, At, TypeOK
  <2>5. Using' = Using
    BY <2>1, Zenon DEF Using, Holding, At
  <2>6. SlotsBalance'
    BY <1>0, <2>1, <2>2, <2>5 DEF SlotsBalance, TypeOK
  <2>. QED
    BY <2>3, <2>4, <2>6, Zenon
<1>. QED
  BY <1>1, <1>2, Zenon

\* No step breaks the invariant.
LEMMA NextInv ==
    IInv /\ [Next]_vars => IInv'
<1>. SUFFICES ASSUME IInv, [Next]_vars PROVE IInv'
  BY Zenon
<1>1. ASSUME NEW b \in Build, BuildStep(b) PROVE IInv'
  BY <1>1, EnterInv, RoomInv, AdmitInv, DropSlotInv, DropPermitInv, Zenon DEF BuildStep
<1>2. ASSUME NEW limit \in 1..MaxLimit, Resize(limit) PROVE IInv'
  BY <1>2, ResizeInv, Zenon
<1>3. CASE Shutdown \/ UNCHANGED vars
  BY <1>3, Zenon DEF IInv, TypeOK, Line, Fifo, SlotsBalance, Using, Holding, At, Shutdown, vars
<1>. QED
  BY <1>1, <1>2, <1>3, Zenon DEF Next

\* The inductive invariant holds in every state.
LEMMA InvHolds ==
    Spec => []IInv
BY InitInv, NextInv, PTL DEF Spec

-----------------------------------------------------------------------------
(* The theorems. *)

\* Every variable of the Runner keeps its type; debt and the free permits never
\* go below zero, which in the code would be an overflow.
THEOREM QueueTypeCorrect ==
    Spec => []TypeOK
<1>1. IInv => TypeOK
  BY Zenon DEF IInv
<1>. QED
  BY InvHolds, <1>1, PTL

\* The comment on Slots is an invariant: `available + held - debt == size`.
THEOREM SlotsBalanceHolds ==
    Spec => []SlotsBalance
<1>1. IInv => SlotsBalance
  BY Zenon DEF IInv
<1>. QED
  BY InvHolds, <1>1, PTL

\* No step lets a Build get a permit before one that was in line earlier.
LEMMA OvertakingStep ==
    ASSUME IInv, Next, NEW b \in Holding' \ Holding, NEW c \in InLine \cap InLine'
    PROVE  b \in ahead[c]
<1>00. IInv'
  BY NextInv, Zenon
<1>. USE DEF IInv
<1>0. c \in queued /\ c \in queued'
  BY <1>00, Zenon DEF InLine, Line
<1>1. ASSUME NEW G, NEW k, Given(G, k), b \in G PROVE b \in ahead[c]
  BY <1>0, <1>1, GivenInOrder, Zenon
<1>2. ASSUME NEW d \in Build, Enter(d) PROVE b \in ahead[c]
  BY <1>0, <1>2, Zenon DEF Enter, Move, Line, Holding, At, TypeOK
<1>3. ASSUME NEW d \in Build, Room(d) \/ Abandon(d) PROVE b \in ahead[c]
  <2>1. d \in At({"entering", "waiting"})
    BY <1>3, Zenon DEF Room, Abandon, At
  <2>2. CASE Move(d, "out") /\ DropAcquire(d)
    <3>1. At({"active", "stuck"})' = At({"active", "stuck"})
      BY <2>1, <2>2, Zenon DEF Move, At, TypeOK
    <3>2. CASE d \in granted /\ \E G : Given(G, 1) /\ granted' = (granted \ {d}) \cup G
      BY <1>1, <3>1, <3>2, Zenon DEF Holding
    <3>3. CASE UNCHANGED granted
      BY <3>1, <3>3, Zenon DEF Holding
    <3>. QED
      BY <2>1, <2>2, <3>2, <3>3, DropAcquireGives, Zenon
  <2>3. CASE Move(d, "waiting") /\ at[d] = "entering" /\ UNCHANGED granted
    BY <1>3, <2>3, Zenon DEF Move, Holding, At, TypeOK
  <2>. QED
    BY <1>3, <2>2, <2>3, Zenon DEF Room, Abandon
<1>4. ASSUME NEW d \in Build, Admit(d) \/ Overstay(d) \/ DropSlot(d) PROVE b \in ahead[c]
  BY <1>4, Zenon DEF Admit, Overstay, DropSlot, Move, Holding, At, TypeOK
<1>5. ASSUME NEW d \in Build, DropPermit(d) PROVE b \in ahead[c]
  <2>1. PICK G : Given(G, 1) /\ granted' = granted \cup G
    BY <1>5, AddPermitsGives, Zenon DEF DropPermit
  <2>2. At({"active", "stuck"})' = At({"active", "stuck"})
    BY <1>5, Zenon DEF DropPermit, Move, At, TypeOK
  <2>. QED
    BY <1>1, <2>1, <2>2, Zenon DEF Holding
<1>6. ASSUME NEW limit \in 1..MaxLimit, Resize(limit) PROVE b \in ahead[c]
  <2>1. UNCHANGED at
    BY <1>6, Zenon DEF Resize
  <2>2. CASE UNCHANGED granted
    BY <2>1, <2>2, Zenon DEF Holding, At
  <2>3. ASSUME NEW k \in Nat, AddPermits(k) PROVE b \in ahead[c]
    <3>1. PICK G : Given(G, k) /\ granted' = granted \cup G
      BY <2>3, AddPermitsGives, Zenon
    <3>. QED
      BY <1>1, <2>1, <3>1, Zenon DEF Holding, At
  <2>4. ASSUME limit > size, debt - (limit - size) \in Int
        PROVE  \E k \in Nat : AddPermits(k)
    <3>1. limit \in Nat /\ size \in Nat /\ debt \in Nat
      BY QueueAssumption DEF TypeOK
    <3>2. (limit - size) - (IF limit - size <= debt THEN limit - size ELSE debt) \in Nat
      BY <2>4, <3>1
    <3>. QED
      BY <1>6, <2>4, <3>2, Zenon DEF Resize
  <2>5. debt - (limit - size) \in Int
    BY QueueAssumption DEF TypeOK
  <2>. QED
    BY <1>6, <2>2, <2>3, <2>4, <2>5, Zenon DEF Resize
<1>7. ~Shutdown
  BY Zenon DEF Shutdown, Holding, At
<1>. QED
  BY <1>2, <1>3, <1>4, <1>5, <1>6, <1>7, Zenon DEF Next, BuildStep

\* First come, first served, whatever the limit does (enter, admit, resize).
THEOREM NoOvertakingHolds ==
    Spec => NoOvertaking
<1>1. IInv /\ [Next]_vars =>
        [\A b \in Holding' \ Holding : \A c \in InLine \cap InLine' : b \in ahead[c]]_vars
  BY OvertakingStep, Zenon
<1>. QED
  BY InvHolds, <1>1, PTL DEF Spec, NoOvertaking
=============================================================================
