------------------------- MODULE CertificatesProofs -------------------------
(***************************************************************************)
(* What every replica holds is not taken away by a daemon: for any number  *)
(* of Machines, any timing of their loops, and any faults and outages.     *)
(***************************************************************************)
EXTENDS Certificates, TLAPS

-----------------------------------------------------------------------------
(* Shapes: the fields rows and passes have, whatever is in them. *)

\* A row of the certificate table.
IsRow(r) == {"published", "material"} \subseteq DOMAIN r

\* A daemon's pass, with the row it is about to write.
IsTask(t) == {"pc", "held"} \subseteq DOMAIN t /\ IsRow(t.held)

\* What rows, passes and edits look like in every reachable state.
Shape ==
  /\ DOMAIN row = Machines /\ \A m \in Machines : IsRow(row[m])
  /\ DOMAIN task = Machines /\ \A m \in Machines : IsTask(task[m])
  /\ edits \in [set : Nat, clear : Nat, cover : Nat]

\* The rows and passes the model names have their shapes.
LEMMA Constants ==
  /\ IsRow(EmptyRow) /\ IsRow(Published) /\ IsRow(issued) /\ IsTask(Idle)
  /\ HasMaterial(issued) /\ Idle.pc = "idle"
<1>1. IsRow(EmptyRow)
  BY Zenon DEF IsRow, EmptyRow
<1>2. IsRow(Published)
  BY Zenon DEF IsRow, EmptyRow, Published
<1>3. IsRow(issued) /\ HasMaterial(issued)
  BY Zenon DEF IsRow, EmptyRow, issued, HasMaterial
<1>4. IsTask(Idle) /\ Idle.pc = "idle"
  BY <1>1, Zenon DEF IsTask, Idle
<1>. QED BY <1>1, <1>2, <1>3, <1>4, Zenon

\* A challenge, a refusal or the passing of time keep a row a row, and its material.
LEMMA RowsKept ==
  ASSUME NEW r, IsRow(r), NEW t, NEW clock
  PROVE  /\ IsRow(with_challenge(r, t)) /\ IsRow(with_refusal(r, clock)) /\ IsRow(OlderRow(r))
         /\ HasMaterial(r) => HasMaterial(with_challenge(r, t))
         /\ HasMaterial(r) => HasMaterial(with_refusal(r, clock))
         /\ HasMaterial(OlderRow(r)) <=> HasMaterial(r)
         /\ OlderRow(r).published = r.published
<1>1. IsRow(with_challenge(r, t)) /\ (HasMaterial(r) => HasMaterial(with_challenge(r, t)))
  BY Zenon DEF IsRow, with_challenge, HasMaterial
<1>2. IsRow(with_refusal(r, clock)) /\ (HasMaterial(r) => HasMaterial(with_refusal(r, clock)))
  BY Zenon DEF IsRow, with_refusal, HasMaterial
<1>4. /\ IsRow(OlderRow(r)) /\ (HasMaterial(OlderRow(r)) <=> HasMaterial(r))
      /\ OlderRow(r).published = r.published
  BY Zenon DEF IsRow, OlderRow, HasMaterial
<1>. QED BY <1>1, <1>2, <1>4, Zenon

\* Time changes nothing in a pass but ages and waits.
LEMMA OlderTaskKept ==
  ASSUME NEW t, IsTask(t)
  PROVE  /\ IsTask(OlderTask(t)) /\ OlderTask(t).pc = t.pc
         /\ HasMaterial(OlderTask(t).held) <=> HasMaterial(t.held)
BY RowsKept, Zenon DEF IsTask, OlderTask

-----------------------------------------------------------------------------
(* What a step does to rows and passes. *)

\* A daemon's pass goes on; if it is about to write then not over published
\* material, and nothing without material over something with.
Turns ==
  /\ UNCHANGED <<row, edits>>
  /\ \E m \in Machines : \E t :
       /\ task' = [task EXCEPT ![m] = t] /\ IsTask(t)
       /\ t.pc = "writing" =>
            ~row[m].published /\ (HasMaterial(row[m]) => HasMaterial(t.held))

\* A pass writes its row whole.
Writes ==
  /\ UNCHANGED edits
  /\ \E m \in Machines : \E t :
       /\ task[m].pc = "writing"
       /\ row' = [row EXCEPT ![m] = task[m].held]
       /\ task' = [task EXCEPT ![m] = t] /\ IsTask(t) /\ t.pc # "writing"

\* A replica receives another's row.
Copies ==
  /\ UNCHANGED <<task, edits>>
  /\ \E m, n \in Machines : row' = [row EXCEPT ![n] = row[m]]

\* Everything gets older.
Ages ==
  /\ UNCHANGED edits
  /\ row' = [m \in Machines |-> OlderRow(row[m])]
  /\ task' = [m \in Machines |-> OlderTask(task[m])]

\* An operator publishes, clears, or changes what covers the hostname.
Edited ==
  /\ UNCHANGED task
  /\ edits' # edits /\ edits' \in [set : Nat, clear : Nat, cover : Nat]
  /\ row' = row \/ \E m \in Machines, r \in {Published, EmptyRow} : row' = [row EXCEPT ![m] = r]

\* Routes, reachability and the authority change, not rows or passes.
Other == UNCHANGED <<row, task, edits>>

\* Every step is one of these.
Effect == Turns \/ Writes \/ Copies \/ Ages \/ Edited \/ Other

\* A pass that ends.
LEMMA RestTurns ==
  ASSUME NEW m \in Machines, UNCHANGED <<row, edits>>, Step(m, Idle)
  PROVE  Turns
BY Constants, Zenon DEF Turns, Step

\* A pass that goes on to a write that keeps material.
LEMMA WritingTurns ==
  ASSUME NEW m \in Machines, UNCHANGED <<row, edits>>,
         NEW t, IsTask(t), NEW put, IsRow(put), NEW after, Writing(m, t, put, after),
         ~row[m].published, HasMaterial(row[m]) => HasMaterial(put)
  PROVE  Turns
<1> DEFINE u == [t EXCEPT !.pc = "writing", !.held = put, !.after = after]
<1>1. IsTask(u) /\ u.held = put
  BY Zenon DEF IsTask
<1>2. task' = [task EXCEPT ![m] = u]
  BY Zenon DEF Writing, Step
<1> HIDE DEF u
<1>. QED BY <1>1, <1>2, Zenon DEF Turns

\* A pass that goes on without a write.
LEMMA GoesOnTurns ==
  ASSUME NEW m \in Machines, UNCHANGED <<row, edits>>,
         NEW t, IsTask(t), t.pc # "writing", Step(m, t)
  PROVE  Turns
BY Zenon DEF Turns, Step

\* What each step of a daemon's pass does.
LEMMA PassEffect ==
  ASSUME Shape, NEW m \in Machines, Daemon(m)
  PROVE  Effect
<1>0. /\ IsTask(task[m]) /\ IsRow(row[m])
      /\ DOMAIN task = Machines /\ DOMAIN row = Machines
  BY Zenon DEF Shape
<1>1. CASE BeginPass(m)
  <2>1. UNCHANGED <<row, edits>>
    BY <1>1, Zenon DEF BeginPass, store, world
  <2>2. CASE Step(m, Idle)
    BY <2>1, <2>2, RestTurns, Zenon DEF Effect
  <2>3. CASE ~Step(m, Idle)
    <3> DEFINE due == action_due(m, row[m], Waited(m)) = 0
               t == [Idle EXCEPT !.pc = "judging", !.held = row[m],
                                 !.clock = row[m].clock, !.due = due]
    <3>1. Step(m, t)
      BY <1>1, <2>3, Zenon DEF BeginPass, Rest, RestRetry
    <3>2. IsTask(t) /\ t.pc # "writing"
      BY <1>0, Constants, Zenon DEF IsTask
    <3>. QED BY <2>1, <3>1, <3>2, GoesOnTurns, Zenon DEF Effect
  <2>. QED BY <2>2, <2>3, Zenon
<1>2. CASE RefusePolicy(m)
  <2>1. UNCHANGED <<row, edits>>
    BY <1>2, Zenon DEF RefusePolicy, store, world
  <2>2. CASE Step(m, Idle)
    BY <2>1, <2>2, RestTurns, Zenon DEF Effect
  <2>3. CASE ~Step(m, Idle)
    <3>1. /\ Writing(m, Idle, with_refusal(row[m], PolicyRefusal), "retry")
          /\ ~row[m].published
      BY <1>2, <2>3, Zenon DEF RefusePolicy, RestRetry, wanted_certificate_host
    <3>. QED BY <1>0, <2>1, <3>1, RowsKept, Constants, WritingTurns, Zenon DEF Effect
  <2>. QED BY <2>2, <2>3, Zenon
<1>3. CASE Judge(m)
  <2>1. UNCHANGED <<row, edits>>
    BY <1>3, Zenon DEF Judge, store, world
  <2>2. CASE Step(m, Idle)
    BY <2>1, <2>2, RestTurns, Zenon DEF Effect
  <2>3. CASE ~Step(m, Idle)
    <3> DEFINE verdict == hostname_verdict(site)
               a == [task[m] EXCEPT !.pc = "refusing", !.held = EmptyRow,
                                    !.clock = issuance_failure_clock(@, verdict, task[m].since)]
               b == [task[m] EXCEPT !.pc = "obtaining", !.held = EmptyRow, !.route = verdict]
    <3>1. Step(m, a) \/ Step(m, b)
      BY <1>3, <2>3, Zenon DEF Judge, Rest
    <3>2. IsTask(a) /\ a.pc # "writing" /\ IsTask(b) /\ b.pc # "writing"
      BY <1>0, Constants, Zenon DEF IsTask
    <3>. QED BY <2>1, <3>1, <3>2, GoesOnTurns, Zenon DEF Effect
  <2>. QED BY <2>2, <2>3, Zenon
<1>4. CASE RecordRefusal(m) \/ RecordAuthorityFailure(m)
  <2>1. UNCHANGED <<row, edits>> /\ \E clock : RecordFailure(m, clock)
    BY <1>4, Zenon DEF RecordRefusal, RecordAuthorityFailure, store, world
  <2>2. PICK clock : RecordFailure(m, clock)
    BY <2>1, Zenon
  <2>3. CASE HasMaterial(row[m])
    BY <2>1, <2>2, <2>3, RestTurns, Zenon DEF RecordFailure, Rest, Effect
  <2>4. CASE ~HasMaterial(row[m])
    <3>1. Writing(m, Idle, with_refusal(row[m], clock), "rest") /\ ~row[m].published
      BY <2>2, <2>4, Zenon DEF RecordFailure, HasMaterial
    <3>. QED BY <1>0, <2>1, <3>1, RowsKept, Constants, WritingTurns, Zenon DEF Effect
  <2>. QED BY <2>3, <2>4, Zenon
<1>5. CASE NewOrder(m)
  <2>1. UNCHANGED <<row, edits>>
    BY <1>5, Zenon DEF NewOrder, store, world
  <2>2. CASE Step(m, Idle)
    BY <2>1, <2>2, RestTurns, Zenon DEF Effect
  <2>3. CASE ~Step(m, Idle)
    <3> DEFINE a == [task[m] EXCEPT !.pc = "issued"]
               b == [task[m] EXCEPT !.pc = "probing", !.token = FreshToken, !.left = ProbeTimeout]
               c == [task[m] EXCEPT !.token = FreshToken]
    <3>1. \/ Step(m, a) \/ Step(m, b)
          \/ ~row[m].published /\ Writing(m, c, with_challenge(row[m], FreshToken), "probing")
      BY <1>5, <2>3, Zenon DEF NewOrder, Rest
    <3>2. IsTask(a) /\ a.pc # "writing" /\ IsTask(b) /\ b.pc # "writing" /\ IsTask(c)
      BY <1>0, Zenon DEF IsTask
    <3> HIDE DEF a, b, c
    <3>. QED BY <1>0, <2>1, <3>1, <3>2, GoesOnTurns, WritingTurns, RowsKept, Zenon DEF Effect
  <2>. QED BY <2>2, <2>3, Zenon
<1>6. CASE Probe(m) \/ Validate(m)
  <2> DEFINE a == [task[m] EXCEPT !.pc = "validating", !.left = 0]
             b == [task[m] EXCEPT !.pc = "issued", !.token = NoToken]
             c == [Idle EXCEPT !.pc = "failed", !.clock = task[m].clock, !.since = task[m].since]
  <2>1. UNCHANGED <<row, edits>> /\ (Step(m, a) \/ Step(m, b) \/ Step(m, c))
    BY <1>6, Zenon DEF Probe, Validate, Fail, store, world
  <2>2. IsTask(a) /\ a.pc # "writing" /\ IsTask(b) /\ b.pc # "writing"
        /\ IsTask(c) /\ c.pc # "writing"
    BY <1>0, Constants, Zenon DEF IsTask
  <2> HIDE DEF a, b, c
  <2>. QED BY <2>1, <2>2, GoesOnTurns, Zenon DEF Effect
<1>7. CASE PublishIssued(m)
  <2>1. UNCHANGED <<row, edits>>
    BY <1>7, Zenon DEF PublishIssued, store, world
  <2>. QED BY <1>0, <1>7, <2>1, Constants, RestTurns, WritingTurns, Zenon DEF PublishIssued, Rest, Effect
<1>8. CASE Write(m)
  <2> DEFINE u == [task[m] EXCEPT !.pc = "probing", !.held = EmptyRow,
                                  !.after = "none", !.left = ProbeTimeout]
  <2>1. /\ task[m].pc = "writing" /\ row' = [row EXCEPT ![m] = task[m].held]
        /\ UNCHANGED edits /\ (Step(m, u) \/ Step(m, Idle))
    BY <1>8, Zenon DEF Write, Rest, RestRetry, world
  <2>2. IsTask(u) /\ u.pc # "writing" /\ IsTask(Idle) /\ Idle.pc # "writing"
    BY <1>0, Constants, Zenon DEF IsTask
  <2> HIDE DEF u
  <2>3. Writes
    BY <2>1, <2>2, Zenon DEF Writes, Step
  <2>. QED BY <2>3, Zenon DEF Effect
<1>. QED BY <1>1, <1>2, <1>3, <1>4, <1>5, <1>6, <1>7, <1>8, Zenon DEF Daemon

\* What each step of the system does.
LEMMA StepEffect ==
  ASSUME Shape, [Next]_vars
  PROVE  Effect
<1>1. ASSUME NEW m \in Machines, Daemon(m)
      PROVE  Effect
  BY <1>1, PassEffect, Zenon
<1>2. ASSUME NEW m \in Machines, Reconcile(m) \/ Observe(m)
      PROVE  Effect
  BY <1>2, Zenon DEF Reconcile, Observe, Effect, Other, store, world
<1>3. ASSUME NEW m \in Machines, NEW n \in Machines, Replicate(m, n)
      PROVE  Effect
  BY <1>3, Zenon DEF Replicate, Effect, Copies, world
<1>4. ASSUME NEW m \in Machines, AccountError(m) \/ CallError(m) \/ Restart(m)
      PROVE  Effect
  <2> DEFINE t == [Idle EXCEPT !.pc = "failed", !.clock = task[m].clock, !.since = task[m].since]
  <2>1. UNCHANGED <<row, edits>> /\ (Step(m, Idle) \/ Step(m, t))
    BY <1>4, Zenon DEF AccountError, CallError, Restart, Rest, RestRetry, Fail, store
  <2>2. IsTask(t) /\ t.pc # "writing"
    BY Constants, Zenon DEF IsTask
  <2> HIDE DEF t
  <2>. QED BY <2>1, <2>2, RestTurns, GoesOnTurns, Zenon DEF Effect
<1>5. ASSUME NEW m \in Machines, Operator(m)
      PROVE  Effect
  <2>1. ASSUME NEW kind \in {"set", "clear", "cover"}, Edit(kind)
        PROVE  edits' # edits /\ edits' \in [set : Nat, clear : Nat, cover : Nat]
    BY <2>1 DEF Edit, Shape
  <2>2. /\ UNCHANGED task /\ \E kind \in {"set", "clear", "cover"} : Edit(kind)
        /\ row' = row \/ \E r \in {Published, EmptyRow} : row' = [row EXCEPT ![m] = r]
    BY <1>5, Zenon DEF Operator, publish_certificate_material, clear_published_certificate, CoverChanges
  <2>. QED BY <2>1, <2>2, Zenon DEF Effect, Edited
<1>6. CASE Outage
  BY <1>6, Zenon DEF Outage, Effect, Other, store
<1>7. CASE Tick
  BY <1>7, Zenon DEF Tick, Effect, Ages, world
<1>8. CASE UNCHANGED vars
  BY <1>8, Zenon DEF vars, Effect, Other
<1>. QED BY <1>1, <1>2, <1>3, <1>4, <1>5, <1>6, <1>7, <1>8, Zenon DEF Next

\* Whatever it does, it keeps the shapes.
LEMMA ShapeStep ==
  ASSUME Shape, Effect
  PROVE  Shape'
<1>1. CASE Turns
  BY <1>1, Zenon DEF Turns, Shape
<1>2. CASE Writes
  BY <1>2 DEF Writes, Shape, IsTask
<1>3. CASE Copies
  BY <1>3, Zenon DEF Copies, Shape
<1>4. CASE Ages
  BY <1>4, RowsKept, OlderTaskKept, Zenon DEF Ages, Shape
<1>5. CASE Edited
  BY <1>5, Constants, Zenon DEF Edited, Shape
<1>6. CASE Other
  BY <1>6, Zenon DEF Other, Shape
<1>. QED BY <1>1, <1>2, <1>3, <1>4, <1>5, <1>6, Zenon DEF Effect

\* Rows and passes keep their fields.
LEMMA ShapeHolds == Spec => []Shape
<1>1. Init => Shape
  BY Constants DEF Init, Shape, NoEdits
<1>2. Shape /\ [Next]_vars => Shape'
  BY StepEffect, ShapeStep, Zenon
<1>. QED BY <1>1, <1>2, PTL DEF Spec

-----------------------------------------------------------------------------
\* For every Cluster: published material that is on every replica, with no
\* write between its two statements, stays there until an operator clears it,
\* whatever orders are under way and however they end (acme_row).
THEOREM PublishedSettlesHolds == Spec => PublishedSettles
<1>1. ASSUME Shape, [Next]_vars, PublishedEverywhere, edits' = edits
      PROVE  PublishedEverywhere'
  <2>0. Effect
    BY <1>1, StepEffect, Zenon
  <2>1. CASE Turns
    BY <1>1, <2>1, Zenon DEF Turns, Shape, PublishedEverywhere
  <2>2. CASE Writes
    BY <1>1, <2>2, Zenon DEF Writes, PublishedEverywhere
  <2>3. CASE Copies
    BY <1>1, <2>3, Zenon DEF Copies, Shape, PublishedEverywhere
  <2>4. CASE Ages
    BY <1>1, <2>4, RowsKept, OlderTaskKept, Zenon DEF Ages, Shape, PublishedEverywhere
  <2>5. CASE Edited \/ Other
    BY <1>1, <2>5, Zenon DEF Edited, Other, PublishedEverywhere
  <2>. QED BY <2>0, <2>1, <2>2, <2>3, <2>4, <2>5, Zenon DEF Effect
<1>. QED BY <1>1, ShapeHolds, PTL DEF Spec, PublishedSettles

\* For every Cluster: a certificate on every replica, and in every row about to
\* be written, stays through renewals, refusals and failures of other orders
\* (record_certificate_failure, with_challenge, with_error).
THEOREM MaterialKeptHolds == Spec => MaterialKept
<1>1. ASSUME Shape, [Next]_vars, CertifiedEverywhere, edits' = edits
      PROVE  CertifiedEverywhere'
  <2>0. Effect
    BY <1>1, StepEffect, Zenon
  <2>1. CASE Turns
    BY <1>1, <2>1, Zenon DEF Turns, Shape, CertifiedEverywhere
  <2>2. CASE Writes
    BY <1>1, <2>2, Zenon DEF Writes, Shape, CertifiedEverywhere
  <2>3. CASE Copies
    BY <1>1, <2>3, Zenon DEF Copies, Shape, CertifiedEverywhere
  <2>4. CASE Ages
    BY <1>1, <2>4, RowsKept, OlderTaskKept, Zenon DEF Ages, Shape, CertifiedEverywhere
  <2>5. CASE Edited \/ Other
    BY <1>1, <2>5, Zenon DEF Edited, Other, CertifiedEverywhere
  <2>. QED BY <2>0, <2>1, <2>2, <2>3, <2>4, <2>5, Zenon DEF Effect
<1>. QED BY <1>1, ShapeHolds, PTL DEF Spec, MaterialKept
=============================================================================
