------------------------ MODULE BuildOwnershipProofs ------------------------
(***************************************************************************)
(* What BuildOwnership promises for every number of attempts and slots:    *)
(* nobody uses a slot where another's work may be alive, where a container *)
(* may run there is a mark, and files that may be in use are kept.         *)
(***************************************************************************)
EXTENDS BuildOwnership, TLAPS

\* Who has a slot has its lock, and nobody else.
Owned ==
    /\ \A a \in Attempt : Has(a) => owner[slot[a]] = a
    /\ \A s \in Slot, a \in Attempt : owner[s] = a => Has(a) /\ slot[a] = s

\* The mark is there before Docker is asked for anything, but for the preflight of
\* a cache clearing and what follows it; it goes when nothing can be alive.
Marks ==
    \A a \in Attempt :
        /\ \/ stage[a] \in {"replace", "create", "work", "remove"}
           \/ stage[a] \in {"preflight", "own", "undo"} /\ kind[a] # "clear"
           => marked[slot[a]]
        /\ stage[a] = "undo" => result[a] = "failed"
        /\ stage[a] = "clear" => worker[slot[a]] = None /\ a \notin procs[slot[a]]

\* Who left a process didn't end well or is gone; a container is its creator's.
Left ==
    \A s \in Slot, a \in Attempt :
        /\ a \in procs[s] =>
               /\ slot[a] = s
               /\ stage[a] \in {"remove", "drop", "unlock", "done"}
               /\ stage[a] = "remove" => result[a] = "unknown"
               /\ stage[a] # "done" => result[a] # "ok"
        /\ worker[s] = a =>
               slot[a] = s /\ stage[a] \in {"work", "remove", "drop", "unlock", "done"}

\* The processes of Builds and checks.
Live(s) == {a \in procs[s] : kind[a] # "clear"}

\* A slot without a mark has no work of theirs.
Covered == \A s \in Slot : ~marked[s] => worker[s] = None /\ Live(s) = {}

\* Who has a slot is alone in it.
Alone == \A a \in Attempt : Has(a) =>
    worker[slot[a]] \in {None, a} /\ Live(slot[a]) \subseteq {a}

\* Only uploads have staging.
Staged == \A s \in Slot, a \in Attempt :
    staging[s] = a => kind[a] # "clear" /\ stage[a] # "new"

\* The inductive invariant.  NoConflict follows from Alone, which needs to know that
\* a free slot without a mark is Covered; that needs the Marks to be there in time,
\* and the lock to make its owner the only one to clear them.
IInv == TypeOK /\ Owned /\ Marks /\ Left /\ Covered /\ Alone /\ Staged

-----------------------------------------------------------------------------
(* Every step keeps the invariant. *)

\* A request comes.
LEMMA StartInv ==
    ASSUME IInv, NEW a \in Attempt, NEW k \in Kind, Start(a, k)
    PROVE  IInv'
<1>. USE OwnershipAssumption DEF IInv, Start, Go
<1>1. TypeOK'
  BY DEF TypeOK, Stage, Command, Result
<1>2. Owned'
  BY DEF TypeOK, Owned, Has
<1>3. Marks'
  BY DEF TypeOK, Marks
<1>4. Left'
  BY DEF TypeOK, Left
<1>5. Covered'
  BY DEF TypeOK, Covered, Live, Left, Command
<1>6. Alone'
  BY DEF TypeOK, Alone, Live, Has, Left, Command
<1>7. Staged'
  BY DEF TypeOK, Staged
<1>. QED
  BY <1>1, <1>2, <1>3, <1>4, <1>5, <1>6, <1>7, Zenon

\* A slot without a mark is taken: nothing of a Build is alive in it.
LEMMA TakeInv ==
    ASSUME IInv, NEW a \in Attempt, TakeSlot(a)
    PROVE  IInv'
<1>. USE OwnershipAssumption DEF IInv, TakeSlot, Free, Go
<1>1. TypeOK'
  BY Zenon DEF TypeOK, Stage, Command, Result
<1>2. Owned'
  BY DEF TypeOK, Owned, Has
<1>3. Marks'
  BY DEF TypeOK, Marks
<1>4. Left'
  BY DEF TypeOK, Left
<1>5. Covered'
  BY Zenon DEF TypeOK, Covered, Live
<1>6. Alone'
  BY DEF TypeOK, Alone, Live, Has, Owned, Covered, Left
<1>7. Staged'
  BY Zenon DEF TypeOK, Staged
<1>. QED
  BY <1>1, <1>2, <1>3, <1>4, <1>5, <1>6, <1>7, Zenon

\* The slot is busy or quarantined.
LEMMA NextSlotInv ==
    ASSUME IInv, NEW a \in Attempt, NextSlot(a)
    PROVE  IInv'
<1>. USE OwnershipAssumption DEF IInv, NextSlot, Go
<1>1. TypeOK'
  BY DEF TypeOK, Stage, Command, Result
<1>2. Owned'
  BY DEF TypeOK, Owned, Has
<1>3. Marks'
  BY DEF TypeOK, Marks
<1>4. Left'
  BY DEF TypeOK, Left
<1>5. Covered'
  BY DEF TypeOK, Covered, Live
<1>6. Alone'
  BY DEF TypeOK, Alone, Live, Has, Marks
<1>7. Staged'
  BY DEF TypeOK, Staged
<1>. QED
  BY <1>1, <1>2, <1>3, <1>4, <1>5, <1>6, <1>7, Zenon

\* The staging is a's.
LEMMA ReceiveInv ==
    ASSUME IInv, NEW a \in Attempt, Receive(a)
    PROVE  IInv'
<1>. USE OwnershipAssumption DEF IInv, Receive, Go, Daemon
<1>1. TypeOK'
  BY DEF TypeOK, Stage, Command, Result
<1>2. Owned'
  BY DEF TypeOK, Owned, Has
<1>3. Marks'
  BY DEF TypeOK, Marks
<1>4. Left'
  BY DEF TypeOK, Left
<1>5. Covered'
  BY DEF TypeOK, Covered, Live
<1>6. Alone'
  BY DEF TypeOK, Alone, Live, Has
<1>7. Staged'
  BY DEF TypeOK, Staged
<1>. QED
  BY <1>1, <1>2, <1>3, <1>4, <1>5, <1>6, <1>7, Zenon

\* The upload ends.
LEMMA UploadedInv ==
    ASSUME IInv, NEW a \in Attempt, Uploaded(a)
    PROVE  IInv'
<1>. USE OwnershipAssumption DEF IInv, Uploaded, Go
<1>1. TypeOK'
  BY DEF TypeOK, Stage, Command, Result
<1>2. Owned'
  BY DEF TypeOK, Owned, Has
<1>3. Marks'
  BY DEF TypeOK, Marks
<1>4. Left'
  BY DEF TypeOK, Left
<1>5. Covered'
  BY DEF TypeOK, Covered, Live
<1>6. Alone'
  BY DEF TypeOK, Alone, Live, Has
<1>7. Staged'
  BY DEF TypeOK, Staged
<1>. QED
  BY <1>1, <1>2, <1>3, <1>4, <1>5, <1>6, <1>7, Zenon

\* No upload is needed.
LEMMA ProceedInv ==
    ASSUME IInv, NEW a \in Attempt, Proceed(a)
    PROVE  IInv'
<1>. USE OwnershipAssumption DEF IInv, Proceed, Go
<1>1. TypeOK'
  BY Zenon DEF TypeOK, Stage, Command, Result
<1>2. Owned'
  BY DEF TypeOK, Owned, Has
<1>3. Marks'
  BY DEF TypeOK, Marks
<1>4. Left'
  BY DEF TypeOK, Left
<1>5. Covered'
  BY DEF TypeOK, Covered, Live
<1>6. Alone'
  BY DEF TypeOK, Alone, Live, Has
<1>7. Staged'
  BY DEF TypeOK, Staged
<1>. QED
  BY <1>1, <1>2, <1>3, <1>4, <1>5, <1>6, <1>7, Zenon

\* The mark is made before the first command.
LEMMA MarkInv ==
    ASSUME IInv, NEW a \in Attempt, Mark(a)
    PROVE  IInv'
<1>. USE OwnershipAssumption DEF IInv, Mark, Go
<1>1. TypeOK'
  <2>1. marked' \in [Slot -> BOOLEAN]
    <3>1. CASE marked' = [marked EXCEPT ![slot[a]] = TRUE]
      BY <3>1, Zenon DEF TypeOK
    <3>2. ASSUME NEW m \in BOOLEAN, marked' = [marked EXCEPT ![slot[a]] = @ \/ m]
          PROVE  marked' \in [Slot -> BOOLEAN]
      BY <3>2, Zenon DEF TypeOK
    <3>. QED
      BY <3>1, <3>2, Zenon DEF Mark
  <2>. QED
    BY <2>1 DEF TypeOK, Mark, Go, Stage, Command, Result
<1>2. Owned'
  BY DEF TypeOK, Owned, Has
<1>3. Marks'
  BY DEF TypeOK, Marks
<1>4. Left'
  BY DEF TypeOK, Left
<1>5. Covered'
  BY DEF TypeOK, Covered, Live
<1>6. Alone'
  BY DEF TypeOK, Alone, Live, Has
<1>7. Staged'
  BY DEF TypeOK, Staged
<1>. QED
  BY <1>1, <1>2, <1>3, <1>4, <1>5, <1>6, <1>7, Zenon

\* The first commands, under the mark or of a cache clearing.
LEMMA PreflightInv ==
    ASSUME IInv, NEW a \in Attempt, NEW r \in Result, Preflight(a, r)
    PROVE  IInv'
<1>. USE OwnershipAssumption DEF IInv, Preflight, Ended, Go
<1>1. TypeOK'
  BY DEF TypeOK, Stage, Command, Result
<1>2. Owned'
  BY DEF TypeOK, Owned, Has
<1>3. Marks'
  BY SMTT(30) DEF TypeOK, Marks, Left, Owned, Has, Covered, Alone, Live
<1>4. Left'
  BY DEF TypeOK, Left
<1>5. Covered'
  BY DEF TypeOK, Covered, Live, Marks
<1>6. Alone'
  BY DEF TypeOK, Alone, Live, Has, Owned
<1>7. Staged'
  BY Zenon DEF TypeOK, Staged
<1>. QED
  BY <1>1, <1>2, <1>3, <1>4, <1>5, <1>6, <1>7, Zenon

\* The old container goes.
LEMMA ReplaceInv ==
    ASSUME IInv, NEW a \in Attempt, NEW r \in Result, Replace(a, r)
    PROVE  IInv'
<1>. USE OwnershipAssumption DEF IInv, Replace, Ended, Go
<1>1. TypeOK'
  BY DEF TypeOK, Stage, Command, Result
<1>2. Owned'
  BY DEF TypeOK, Owned, Has
<1>3. Marks'
  BY DEF TypeOK, Marks
<1>4. Left'
  BY DEF TypeOK, Left
<1>5. Covered'
  BY DEF TypeOK, Covered, Live, Marks
<1>6. Alone'
  BY DEF TypeOK, Alone, Live, Has, Owned
<1>7. Staged'
  BY Zenon DEF TypeOK, Staged
<1>. QED
  BY <1>1, <1>2, <1>3, <1>4, <1>5, <1>6, <1>7, Zenon

\* The new one comes, under the mark.
LEMMA CreateInv ==
    ASSUME IInv, NEW a \in Attempt, NEW r \in Result, Create(a, r)
    PROVE  IInv'
<1>. USE OwnershipAssumption DEF IInv, Create, Ended, Go
<1>1. TypeOK'
  BY DEF TypeOK, Stage, Command, Result
<1>2. Owned'
  BY DEF TypeOK, Owned, Has
<1>3. Marks'
  BY DEF TypeOK, Marks, Owned, Has
<1>4. Left'
  BY DEF TypeOK, Left
<1>5. Covered'
  BY DEF TypeOK, Covered, Live, Marks
<1>6. Alone'
  BY DEF TypeOK, Alone, Live, Has, Owned
<1>7. Staged'
  BY Zenon DEF TypeOK, Staged
<1>. QED
  BY <1>1, <1>2, <1>3, <1>4, <1>5, <1>6, <1>7, Zenon

\* The work, under the mark.
LEMMA WorkInv ==
    ASSUME IInv, NEW a \in Attempt, NEW r \in Result, Work(a, r)
    PROVE  IInv'
<1>. USE OwnershipAssumption DEF IInv, Work, Ended, Go
<1>1. TypeOK'
  BY ZenonT(30) DEF TypeOK, Stage, Command, Result
<1>2. Owned'
  BY DEF TypeOK, Owned, Has
<1>3. Marks'
  BY DEF TypeOK, Marks
<1>4. Left'
  BY DEF TypeOK, Left
<1>5. Covered'
  BY DEF TypeOK, Covered, Live, Marks
<1>6. Alone'
  BY DEF TypeOK, Alone, Live, Has, Owned
<1>7. Staged'
  BY Zenon DEF TypeOK, Staged
<1>. QED
  BY <1>1, <1>2, <1>3, <1>4, <1>5, <1>6, <1>7, Zenon

\* The container goes; only a known end goes on to clear the mark.
LEMMA RemoveInv ==
    ASSUME IInv, NEW a \in Attempt, NEW r \in Result, Remove(a, r)
    PROVE  IInv'
<1>. USE OwnershipAssumption DEF IInv, Remove, Go
<1>1. TypeOK'
  <2>1. CASE r = "ok"
    BY <2>1, Zenon DEF TypeOK, Stage, Command
  <2>2. CASE r # "ok"
    BY <2>2 DEF TypeOK, Stage, Command, Result
  <2>. QED
    BY <2>1, <2>2, Zenon
<1>2. Owned'
  BY DEF TypeOK, Owned, Has
<1>3. Marks'
  BY DEF TypeOK, Marks, Left, Command
<1>4. Left'
  BY DEF TypeOK, Left
<1>5. Covered'
  <2>1. CASE r = "ok"
    BY <2>1 DEF TypeOK, Covered, Live
  <2>2. CASE r # "ok"
    <3>1. marked[slot[a]]
      BY Zenon DEF Marks
    <3>. QED
      BY <2>2, <3>1 DEF TypeOK, Covered, Live
  <2>. QED
    BY <2>1, <2>2, Zenon
<1>6. Alone'
  BY DEF TypeOK, Alone, Live, Has, Owned
<1>7. Staged'
  BY DEF TypeOK, Staged
<1>. QED
  BY <1>1, <1>2, <1>3, <1>4, <1>5, <1>6, <1>7, Zenon

\* The Builder is dropped.
LEMMA UndoInv ==
    ASSUME IInv, NEW a \in Attempt, NEW r \in Result, Undo(a, r)
    PROVE  IInv'
<1>. USE OwnershipAssumption DEF IInv, Undo, Go
<1>1. TypeOK'
  BY DEF TypeOK, Stage, Command, Result
<1>2. Owned'
  BY DEF TypeOK, Owned, Has
<1>3. Marks'
  BY SMTT(30) DEF TypeOK, Marks, Owned, Has
<1>4. Left'
  BY DEF TypeOK, Left, Marks
<1>5. Covered'
  <2>1. CASE r = "ok"
    <3>1. Live(slot[a]) = {}
      BY DEF TypeOK, Alone, Has, Live, Left
    <3>. QED
      BY <2>1, <3>1 DEF TypeOK, Covered, Live
  <2>2. CASE r # "ok"
    <3>1. a \in Live(slot[a])' => marked[slot[a]]
      BY Zenon DEF TypeOK, Marks, Live
    <3>. QED
      BY <2>2, <3>1 DEF TypeOK, Covered, Live
  <2>. QED
    BY <2>1, <2>2, Zenon
<1>6. Alone'
  BY DEF TypeOK, Alone, Live, Has, Owned
<1>7. Staged'
  BY Zenon DEF TypeOK, Staged
<1>. QED
  BY <1>1, <1>2, <1>3, <1>4, <1>5, <1>6, <1>7, Zenon

\* The owner, alone, clears its mark.
LEMMA ClearInv ==
    ASSUME IInv, NEW a \in Attempt, Clear(a)
    PROVE  IInv'
<1>. USE OwnershipAssumption DEF IInv, Clear, Go
<1>1. TypeOK'
  BY Zenon DEF TypeOK, Stage, Command, Result
<1>2. Owned'
  BY DEF TypeOK, Owned, Has
<1>3. Marks'
  BY DEF TypeOK, Marks, Owned, Has
<1>4. Left'
  BY DEF TypeOK, Left
<1>5. Covered'
  BY DEF TypeOK, Covered, Live, Owned, Has, Marks, Alone
<1>6. Alone'
  BY DEF TypeOK, Alone, Live, Has
<1>7. Staged'
  BY Zenon DEF TypeOK, Staged
<1>. QED
  BY <1>1, <1>2, <1>3, <1>4, <1>5, <1>6, <1>7, Zenon

\* The staging goes.
LEMMA DropInv ==
    ASSUME IInv, NEW a \in Attempt, Drop(a)
    PROVE  IInv'
<1>. USE OwnershipAssumption DEF IInv, Drop, Go
<1>1. TypeOK'
  BY Zenon DEF TypeOK, Stage, Command, Result
<1>2. Owned'
  BY DEF TypeOK, Owned, Has
<1>3. Marks'
  BY DEF TypeOK, Marks
<1>4. Left'
  BY DEF TypeOK, Left
<1>5. Covered'
  BY Zenon DEF TypeOK, Covered, Live
<1>6. Alone'
  BY DEF TypeOK, Alone, Live, Has
<1>7. Staged'
  BY Zenon DEF TypeOK, Staged
<1>. QED
  BY <1>1, <1>2, <1>3, <1>4, <1>5, <1>6, <1>7, Zenon

\* The lock goes last.
LEMMA UnlockInv ==
    ASSUME IInv, NEW a \in Attempt, Unlock(a)
    PROVE  IInv'
<1>. USE OwnershipAssumption DEF IInv, Unlock, Go
<1>1. TypeOK'
  BY Zenon DEF TypeOK, Stage, Command, Result
<1>2. Owned'
  BY DEF TypeOK, Owned, Has
<1>3. Marks'
  BY DEF TypeOK, Marks
<1>4. Left'
  BY DEF TypeOK, Left
<1>5. Covered'
  BY Zenon DEF TypeOK, Covered, Live
<1>6. Alone'
  BY DEF TypeOK, Alone, Live, Has
<1>7. Staged'
  BY Zenon DEF TypeOK, Staged
<1>. QED
  BY <1>1, <1>2, <1>3, <1>4, <1>5, <1>6, <1>7, Zenon

\* A process dies: the marks stay.
LEMMA GoneInv ==
    ASSUME IInv, NEW A \in SUBSET Running, unclean' \in SUBSET Slot, Gone(A)
    PROVE  IInv'
<1>. USE OwnershipAssumption DEF IInv, Gone, Running
<1>1. TypeOK'
  BY DEF TypeOK, Stage, Command, Result
<1>2. Owned'
  BY DEF TypeOK, Owned, Has
<1>3. Marks'
  BY DEF TypeOK, Marks
<1>4. Left'
  BY DEF TypeOK, Left
<1>5. Covered'
  BY DEF TypeOK, Covered, Live, Command, Owned, Has, Marks
<1>6. Alone'
  <2>. SUFFICES ASSUME NEW b \in Attempt, Has(b)'
                PROVE  worker[slot[b]]' \in {None, b} /\ Live(slot[b])' \subseteq {b}
    BY Zenon DEF Alone
  <2>1. b \notin A /\ Has(b) /\ slot[b] \in Slot
    BY Zenon DEF TypeOK, Has
  <2>2. \A c \in A : stage[c] \in Command => slot[c] # slot[b]
    <3>1. \A c \in A : stage[c] \in Command => c # b /\ Has(c)
      BY <2>1, Zenon DEF Has, Command
    <3>. QED
      BY <2>1, <3>1 DEF Owned
  <2>3. procs'[slot[b]] = procs[slot[b]]
    BY <2>1, <2>2 DEF TypeOK
  <2>. QED
    BY <2>1, <2>3, Zenon DEF Alone, Live
<1>7. Staged'
  BY Zenon DEF TypeOK, Staged
<1>. QED
  BY <1>1, <1>2, <1>3, <1>4, <1>5, <1>6, <1>7, Zenon

\* The startup cleanup clears no mark.
LEMMA CleanupInv ==
    ASSUME IInv, NEW s \in Slot, Cleanup(s)
    PROVE  IInv'
<1>. USE OwnershipAssumption DEF IInv, Cleanup, Free
<1>1. TypeOK'
  BY Zenon DEF TypeOK, Stage, Command, Result
<1>2. Owned'
  BY Zenon DEF TypeOK, Owned, Has
<1>3. Marks'
  BY DEF TypeOK, Marks
<1>4. Left'
  BY DEF TypeOK, Left
<1>5. Covered'
  BY Zenon DEF TypeOK, Covered, Live
<1>6. Alone'
  BY DEF TypeOK, Alone, Live, Has
<1>7. Staged'
  BY Zenon DEF TypeOK, Staged
<1>. QED
  BY <1>1, <1>2, <1>3, <1>4, <1>5, <1>6, <1>7, Zenon

\* Work that was left alone ends.
LEMMA DiesInv ==
    ASSUME IInv, NEW a \in Attempt, NEW s \in Slot, Dies(a, s)
    PROVE  IInv'
<1>. USE OwnershipAssumption DEF IInv, Dies
<1>1. TypeOK'
  BY Zenon DEF TypeOK, Stage, Command, Result
<1>2. Owned'
  BY Zenon DEF TypeOK, Owned, Has
<1>3. Marks'
  BY Zenon DEF TypeOK, Marks
<1>4. Left'
  BY DEF TypeOK, Left
<1>5. Covered'
  BY DEF TypeOK, Covered, Live
<1>6. Alone'
  BY Zenon DEF TypeOK, Alone, Live, Has
<1>7. Staged'
  BY Zenon DEF TypeOK, Staged
<1>. QED
  BY <1>1, <1>2, <1>3, <1>4, <1>5, <1>6, <1>7, Zenon

\* The operator clears a mark when nothing is alive.
LEMMA ConfirmInv ==
    ASSUME IInv, NEW s \in Slot, Confirm(s)
    PROVE  IInv'
<1>. USE OwnershipAssumption DEF IInv, Confirm
<1>1. TypeOK'
  BY Zenon DEF TypeOK, Stage, Command, Result
<1>2. Owned'
  BY Zenon DEF TypeOK, Owned, Has
<1>3. Marks'
  BY DEF TypeOK, Marks, Owned, Has
<1>4. Left'
  BY DEF TypeOK, Left
<1>5. Covered'
  BY Zenon DEF TypeOK, Covered, Live
<1>6. Alone'
  BY Zenon DEF TypeOK, Alone, Live, Has
<1>7. Staged'
  BY Zenon DEF TypeOK, Staged
<1>. QED
  BY <1>1, <1>2, <1>3, <1>4, <1>5, <1>6, <1>7, Zenon

\* Nothing has happened yet.
LEMMA InitInv ==
    Init => IInv
<1>. SUFFICES ASSUME Init PROVE IInv
  BY Zenon
<1>. USE OwnershipAssumption DEF IInv, Init
<1>1. TypeOK
  <2>1. 0 \in Slot
    BY DEF Slot
  <2>. QED
    BY <2>1, Zenon DEF TypeOK, Stage, Command, Result
<1>2. Owned /\ Marks
  BY Zenon DEF Owned, Marks, Has
<1>3. Left /\ Staged
  BY Zenon DEF Left, Staged
<1>4. Covered /\ Alone
  BY Zenon DEF Covered, Alone, Live, Has
<1>. QED
  BY <1>1, <1>2, <1>3, <1>4, Zenon

\* No step breaks the invariant.
LEMMA NextInv ==
    IInv /\ [Next]_vars => IInv'
<1>. SUFFICES ASSUME IInv, [Next]_vars PROVE IInv'
  BY Zenon
<1>1. ASSUME NEW a \in Attempt, AttemptStep(a) PROVE IInv'
  BY <1>1, TakeInv, NextSlotInv, ReceiveInv, UploadedInv, ProceedInv, MarkInv, PreflightInv,
     ReplaceInv, CreateInv, WorkInv, RemoveInv, UndoInv, ClearInv, DropInv, UnlockInv, Zenon
     DEF AttemptStep, DockerStep
<1>2. ASSUME NEW a \in Attempt, CrashCLI(a) PROVE IInv'
  BY <1>2, GoneInv, Zenon DEF CrashCLI, IInv, TypeOK
<1>3. CASE CrashDaemon
  BY <1>3, GoneInv, Zenon DEF CrashDaemon
<1>4. ASSUME NEW a \in Attempt, NEW k \in Kind, Start(a, k) PROVE IInv'
  BY <1>4, StartInv, Zenon
<1>5. ASSUME NEW s \in Slot, Cleanup(s) \/ Confirm(s) PROVE IInv'
  BY <1>5, CleanupInv, ConfirmInv, Zenon
<1>6. ASSUME NEW a \in Attempt, NEW s \in Slot, Dies(a, s) PROVE IInv'
  BY <1>6, DiesInv, Zenon
<1>7. CASE UNCHANGED vars
  <2>1. TypeOK' /\ Staged'
    BY <1>7, Zenon DEF vars, IInv, TypeOK, Staged
  <2>2. Owned' /\ Alone'
    BY <1>7, Zenon DEF vars, IInv, Owned, Alone, Live, Has
  <2>3. Marks'
    BY <1>7, Zenon DEF vars, IInv, Marks
  <2>4. Left'
    BY <1>7, Zenon DEF vars, IInv, Left
  <2>5. Covered'
    BY <1>7, Zenon DEF vars, IInv, Covered, Live
  <2>. QED
    BY <2>1, <2>2, <2>3, <2>4, <2>5, Zenon DEF IInv
<1>. QED
  BY <1>1, <1>2, <1>3, <1>4, <1>5, <1>6, <1>7, Zenon DEF Next

\* The inductive invariant holds in every state.
LEMMA InvHolds ==
    Spec => []IInv
BY InitInv, NextInv, PTL DEF Spec

-----------------------------------------------------------------------------
(* The theorems. *)

\* Locks, marks and attempts keep their types; no slot beyond the last is tried.
THEOREM OwnershipTypeCorrect ==
    Spec => []TypeOK
<1>1. IInv => TypeOK
  BY Zenon DEF IInv
<1>. QED
  BY InvHolds, <1>1, PTL

\* Where a container may run the mark is on disk, whoever crashes (Builder::acquire).
THEOREM ContainerMarkedHolds ==
    Spec => []ContainerMarked
<1>1. IInv => ContainerMarked
  BY Zenon DEF IInv, Covered, ContainerMarked
<1>. QED
  BY InvHolds, <1>1, PTL

\* Nobody has a slot in which another's container, or the processes of another Build
\* or check, may be alive (try_acquire_slot, quarantine, finish).
THEOREM NoConflictHolds ==
    Spec => []NoConflict
<1>1. IInv => NoConflict
  BY Zenon DEF IInv, TypeOK, Alone, Live, NoConflict
<1>. QED
  BY InvHolds, <1>1, PTL

\* No step but the end of a failed attempt removes staging a process may read.
LEMMA FilesStep ==
    ASSUME IInv, Next, NEW s \in Slot, NEW a \in Attempt,
           staging[s] = a, a \in procs[s]
    PROVE  staging'[s] = a \/ (stage[a] = "drop" /\ result[a] = "failed")
<1>. USE DEF IInv
<1>1. marked[s] /\ a \in Live(s) /\ stage[a] \in {"remove", "drop", "unlock", "done"}
  BY DEF TypeOK, Left, Staged, Covered, Live
<1>2. ASSUME NEW b \in Attempt, Receive(b) PROVE staging'[s] = a
  BY <1>1, <1>2 DEF TypeOK, Receive, Alone, Has
<1>3. ASSUME NEW b \in Attempt, Drop(b)
      PROVE  staging'[s] = a \/ (stage[a] = "drop" /\ result[a] = "failed")
  BY <1>1, <1>3 DEF TypeOK, Drop, Left, Result
<1>4. ASSUME NEW t \in Slot, Cleanup(t) PROVE staging'[s] = a
  BY <1>1, <1>4, Zenon DEF TypeOK, Cleanup, Free
<1>5. CASE UNCHANGED staging
  BY <1>5, Zenon
<1>6. ASSUME NEW b \in Attempt, AttemptStep(b)
      PROVE  Receive(b) \/ Drop(b) \/ UNCHANGED staging
  BY <1>6, Zenon DEF AttemptStep, TakeSlot, NextSlot, Uploaded, Proceed, Mark, DockerStep, Preflight,
     Replace, Create, Work, Remove, Undo, Clear, Unlock
<1>7. ASSUME NEW b \in Attempt,
             \/ CrashCLI(b) \/ CrashDaemon
             \/ \E k \in Kind : Start(b, k)
             \/ \E t \in Slot : Dies(b, t)
      PROVE  UNCHANGED staging
  BY <1>7, Zenon DEF CrashCLI, CrashDaemon, Gone, Start, Dies
<1>8. ASSUME NEW t \in Slot, Confirm(t) PROVE UNCHANGED staging
  BY <1>8, Zenon DEF Confirm
<1>. QED
  BY <1>2, <1>3, <1>4, <1>5, <1>6, <1>7, <1>8, Zenon DEF Next

\* The files of an attempt outlive every process that may read them, unless its
\* Builder::acquire failed (upload.retain, Upload::owned, cleanup_abandoned_slot).
THEOREM FilesKeptHolds ==
    Spec => FilesKept
<1>1. IInv /\ [Next]_vars =>
        [\A s \in Slot, a \in Attempt :
            staging[s] = a /\ a \in procs[s] =>
                \/ staging'[s] = a \/ a \notin procs'[s]
                \/ stage[a] = "drop" /\ result[a] = "failed"]_vars
  BY FilesStep, Zenon
<1>. QED
  BY InvHolds, <1>1, PTL DEF Spec, FilesKept
=============================================================================
