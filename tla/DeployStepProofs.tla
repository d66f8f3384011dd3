--------------------------- MODULE DeployStepProofs ---------------------------
(***************************************************************************)
(* The steps of a Deploy and of the Machines under it keep the inductive   *)
(* invariant of DeployEngine.                                              *)
(***************************************************************************)
EXTENDS DeployEngine, TLAPS

-----------------------------------------------------------------------------
(* Operations that a plan may have. *)

Boxes == [svc : {"web", "gone"}, kind : {"service", "hook"}, on : Machines,
          spec : Revisions \cup {1}, port : BOOLEAN, key : [spec : Nat, old : Nat],
          run : State, row : BOOLEAN, was : BOOLEAN]

Ops == [op : {"stop", "stophook", "remove", "run", "replace", "hook"}, on : Machines,
        id : Nat, rev : Nat, olds : Seq(Nat)]

Sane == {o \in Ops :
           /\ o.op \in {"run", "replace", "hook"} => o.rev \in Revisions
           /\ o.op = "replace" => o.id \in Containers /\ box[o.id].kind = "service"
           /\ o.olds \in Seq(Containers)}

Served == {c \in Containers : box[c].svc = "web" /\ box[c].kind = "service"}

\* The ids of the containers are the positions in box.
LEMMA ContainersAre ==
  ASSUME box \in Seq(Boxes)
  PROVE  /\ Containers \subseteq Nat \ {0}
         /\ \A c \in Containers : box[c] \in Boxes /\ box[c].on \in Machines
         /\ Containers = 1..Len(box) /\ Len(box) \in Nat
<1>1. Containers = 1..Len(box) /\ Len(box) \in Nat
  BY DEF Containers
<1>2. \A c \in Containers : box[c] \in Boxes
  BY <1>1
<1>3. \A b \in Boxes : b.on \in Machines
  BY DEF Boxes
<1> QED BY <1>1, <1>2, <1>3

(* What a planner returns: a refusal or operations, and where a hook runs. *)
Plans == [refused : BOOLEAN, ops : Seq(Sane), hook : SUBSET Machines]

-----------------------------------------------------------------------------
(* The inductive invariant. *)

Bodies == [svc : {"web"}, kind : {"service", "hook"}, spec : Revisions, port : BOOLEAN,
           key : [spec : Nat, old : Nat]]

\* A call that changes containers, and whose key names an older container than it makes.
Mutations ==
  {c \in [what : {"create", "start", "stop", "remove"}, on : Machines, id : Nat,
          body : Bodies \cup {NoBody}] :
     c.what = "create" => c.body \in Bodies /\ c.body.key.old <= Len(box)}

Pcs == Calls \cup {"idle", "next", "inspect_old", "monitor", "serve", "dropped", "restored",
                   "await"}

Deploys ==
  [pc : Pcs, result : {"running", "success", "failed", "refused", "died"}, plan : Seq(Sane),
   rev : Nat, new : Nat, stopped : BOOLEAN, held : BOOLEAN,
   err : {"none", "stop", "remove", "create", "cancelled", "start", "health", "inspect",
          "barrier", "hook"},
   restart : {"none", "ok", "failed"}, cancelled : BOOLEAN, sound : BOOLEAN, seen : BOOLEAN,
   runs : Nat, cancels : Nat]

\* A creation key names a container that is older than the one created under it.
Older(b) == \A c \in DOMAIN b : b[c].key.old < c

Base == box \in Seq(Boxes) /\ Older(box)

Typed ==
  /\ Base
  /\ DOMAIN flight = Machines
  /\ \A m \in Machines : Admitted(m) \/ (flight[m] \in Mutations /\ flight[m].on = m)
  /\ faults \in 0..MaxFaults
  /\ service \in Services
  /\ d \in Deploys

\* Which operations a Deploy may be at each of its steps of.
OpsAt(pc) ==
  CASE pc = "stop" -> {"stop", "stophook", "remove"}
    [] pc = "remove" -> {"remove"}
    [] pc \in {"inspect_old", "stop_old", "retire", "remove_old", "stop_new", "restore",
               "restored"} -> {"replace"}
    [] pc \in {"create", "start", "discard"} -> {"run", "replace", "hook"}
    [] pc \in {"monitor", "serve"} -> {"run", "replace"}
    [] pc = "dropped" -> {"remove", "replace"}
    [] pc \in {"clear", "await", "interrupt"} -> {"hook"}

Fresh == {"start", "discard", "monitor", "serve", "stop_new", "await", "interrupt"}

\* The steps of an operation: what it has in hand at each of them.
Staged ==
  /\ d.pc \notin {"idle", "next"} =>
       d.plan # <<>> /\ cur.op \in OpsAt(d.pc) /\ (d.held => cur.op = "replace")
  /\ d.pc = "clear" => cur.olds # <<>>
  /\ d.pc \in Fresh => d.new \in Containers
  /\ d.pc \in Fresh \cup {"retire"} /\ cur.op = "replace" => d.new # cur.id
  /\ d.pc \in Fresh /\ cur.op # "hook" => box[d.new].kind = "service"
  /\ d.pc = "idle" <=> d.result # "running"

\* Among the containers b, c is a Service Container that is active.
UpIn(b, c) == c \in DOMAIN b /\ b[c].kind = "service" /\ b[c].run \in Active

\* What a sound Deploy under way has in flight is the call it waits for, or one it gave
\* up on while undoing the operation.
Own ==
  d.sound /\ d.pc # "idle" =>
    \A m \in Machines : ~Admitted(m) =>
      /\ d.pc \in Calls \ {"create"} /\ m = Request.on
      /\ \/ flight[m] = Request
         \/ d.pc = "discard" /\ flight[m] = StartCall(m, d.new)
         \/ d.pc = "restore" /\ flight[m].id # cur.id

\* A replacement of old by new has the old container up, or the new one, or has stopped
\* the old one and will restore it.
CourseAt(b, pc, new, old, stopped) ==
  /\ pc \in {"next", "monitor", "serve", "retire", "remove_old", "dropped"} => UpIn(b, new)
  /\ pc \in {"inspect_old", "restored"} => UpIn(b, old)
  /\ pc = "stop_old" => old \in DOMAIN b /\ b[old].run # "gone"
  /\ pc \in {"create", "start", "discard", "monitor", "serve", "stop_new"} =>
       stopped \/ UpIn(b, old)

Course == d.sound /\ d.held => CourseAt(box, d.pc, d.new, cur.id, d.stopped)

\* And once it failed no stop in flight can change that.
ToldBy(b, fl, new, old, err, restart) ==
  \/ UpIn(b, old) /\ \A m \in Machines : fl[m].what = "stop" => fl[m].id # old
  \/ UpIn(b, new) /\ \A m \in Machines : fl[m].what # "stop"
  \/ restart = "failed"
  \/ err = "stop"

Told ==
  d.pc = "idle" /\ d.result = "failed" /\ d.sound /\ d.held /\ cur.op = "replace" =>
    ToldBy(box, flight, d.new, cur.id, d.err, d.restart)

EngineInv == Typed /\ Staged /\ Own /\ Course /\ Told

-----------------------------------------------------------------------------
(* What a mutation does to the containers. *)

\* What never changes of a container.
Same(x, y) ==
  /\ x.svc = y.svc /\ x.kind = y.kind /\ x.on = y.on /\ x.spec = y.spec
  /\ x.port = y.port /\ x.key = y.key /\ x.row = y.row

\* b has the containers of box, and maybe more.
Extends(b) ==
  /\ b \in Seq(Boxes)
  /\ Len(box) <= Len(b)
  /\ \A c \in Containers : c \in DOMAIN b /\ Same(b[c], box[c])
  /\ Older(b)

\* The containers extend themselves.
LEMMA SameExtends ==
  ASSUME Base
  PROVE  Extends(box)
<1>1. \A c \in Containers : Same(box[c], box[c])
  BY Zenon DEF Same
<1>2. Len(box) <= Len(box)
  BY DEF Base
<1> QED BY <1>1, <1>2, Zenon DEF Base, Extends, Containers

\* A created container comes after the others, and its key names an older one.
LEMMA AppendExtends ==
  ASSUME Base, NEW m \in Machines, NEW body \in Bodies, body.key.old <= Len(box),
         NEW row \in BOOLEAN
  PROVE  LET b == Append(box, Container(m, body, row)) IN
         /\ Extends(b) /\ Len(box) + 1 \in DOMAIN b
         /\ b[Len(box) + 1].kind = body.kind
         /\ \A x \in Containers : b[x] = box[x]
<1> DEFINE new == Container(m, body, row)
           b == Append(box, new)
<1>1. DOMAIN box = Containers /\ Containers = 1..Len(box) /\ Len(box) \in Nat
  BY ContainersAre, Zenon DEF Base, Containers
<1>2. new \in Boxes /\ new.key = body.key /\ new.kind = body.kind
  BY DEF Container, Bodies, Boxes, State
<1> HIDE DEF new
<1>3. /\ b \in Seq(Boxes) /\ Len(b) = Len(box) + 1 /\ DOMAIN b = 1..(Len(box) + 1)
      /\ b[Len(box) + 1] = new /\ \A x \in Containers : b[x] = box[x]
  BY <1>1, <1>2 DEF Base
<1> HIDE DEF b
<1>4. /\ Len(box) <= Len(b) /\ \A x \in Containers : x \in DOMAIN b
      /\ \A x \in DOMAIN b : x \notin Containers => x = Len(box) + 1
      /\ Len(box) + 1 \in DOMAIN b
      /\ body.key.old < Len(box) + 1
  <2>1. body.key.old \in Nat
    BY DEF Bodies
  <2> QED BY <1>1, <1>3, <2>1
<1>5. \A x \in Containers : Same(b[x], box[x])
  BY <1>3, Zenon DEF Same
<1>6. Older(b)
  BY <1>1, <1>2, <1>3, <1>4, Zenon DEF Base, Older
<1>7. Extends(b)
  BY <1>3, <1>4, <1>5, <1>6, Zenon DEF Extends
<1> QED BY <1>2, <1>3, <1>4, <1>7, Zenon DEF b, new

\* What performing a call comes to.
Effect(call, r) ==
  /\ Extends(r.box)
  /\ \A c \in Containers : is_active_runtime(c) /\ ~(call.what = "stop" /\ call.id = c) =>
       r.box[c].run \in Active
  /\ \A c \in Present : ~(call.what = "remove" /\ call.id = c) => r.box[c].run # "gone"
  /\ r.id \in Nat
  /\ r.res \in {"ok", "error", "notfound"}
  /\ r.res = "notfound" => call.what # "create" /\ call.id \notin Present
  /\ r.res = "ok" /\ call.what = "start" => call.id \in Containers /\ r.box[call.id].run \in Active
  /\ r.res = "ok" /\ call.what = "create" =>
       /\ r.id \in DOMAIN r.box /\ r.box[r.id].kind = call.body.kind
       /\ \/ r.id \notin Containers
          \/ r.id \in Containers /\ call.body.key # NoKey /\ box[r.id].key = call.body.key

\* What a mutation may do: only a stop stops a container, only a remove removes one.
LEMMA PerformEffect ==
  ASSUME Base, NEW call \in Mutations
  PROVE  Effect(call, Perform(call))
\* Nothing happens.
<1>none. ASSUME call.what # "create", NEW res \in {"ok", "error", "notfound"}, call.id \in Nat,
                res = "notfound" => call.id \notin Present,
                res = "ok" /\ call.what = "start" =>
                  call.id \in Containers /\ is_active_runtime(call.id)
         PROVE  Effect(call, Result(box, res, call.id))
  <2> USE <1>none
  <2> DEFINE r == Result(box, res, call.id)
  <2>1. r.box = box /\ r.res = res /\ r.id = call.id
    BY Zenon DEF Result
  <2> HIDE DEF r
  <2>2. \A c \in Present : box[c].run # "gone"
    BY Zenon DEF Present
  <2> QED BY <2>1, <2>2, SameExtends, Zenon DEF Effect, r, is_active_runtime
\* A container in another state is the same one.
<1>set. ASSUME NEW x \in Boxes, NEW run \in State
        PROVE  LET y == [x EXCEPT !.run = run] IN
               y \in Boxes /\ Same(y, x) /\ y.run = run /\ y.key = x.key
  BY <1>set DEF Boxes, Same
\* Putting one container into another state leaves the others alone.
<1>with. ASSUME NEW c \in Containers, NEW run \in State
         PROVE  /\ Extends(With(c, run))
                /\ With(c, run)[c].run = run
                /\ \A x \in Containers : x # c => With(c, run)[x] = box[x]
  <2> USE <1>with
  <2> DEFINE y == [box[c] EXCEPT !.run = run]
             b == [box EXCEPT ![c] = y]
  <2>1. /\ box[c] \in Boxes /\ DOMAIN box = Containers
        /\ Containers = 1..Len(box) /\ Len(box) \in Nat
    BY ContainersAre, Zenon DEF Base, Containers
  <2>2. With(c, run) = b
    BY Zenon DEF With
  <2>3. y \in Boxes /\ Same(y, box[c]) /\ y.run = run /\ y.key = box[c].key
    BY <2>1, <1>set, Zenon
  <2> HIDE DEF y
  <2>4. b \in Seq(Boxes) /\ Len(b) = Len(box) /\ DOMAIN b = Containers
    BY <2>1, <2>3 DEF Base
  <2>5. b[c] = y /\ \A x \in Containers : x # c => b[x] = box[x]
    BY <2>1, Zenon
  <2> HIDE DEF b
  <2>6. \A x \in Containers : Same(b[x], box[x]) /\ b[x].key = box[x].key
    BY <2>3, <2>5, Zenon DEF Same
  <2>7. Older(b)
    BY <2>1, <2>4, <2>6, Zenon DEF Base, Older
  <2>8. Len(box) <= Len(b)
    BY <2>1, <2>4
  <2>9. Extends(b)
    BY <2>4, <2>6, <2>7, <2>8, Zenon DEF Extends
  <2> QED BY <2>2, <2>3, <2>5, <2>9, Zenon
\* One container gets to another state.
<1>run. ASSUME call.what \in {"start", "stop", "remove"}, call.id \in Present, NEW run \in State,
               call.what = "start" => run \in Active,
               call.what = "remove" => ~is_active_runtime(call.id),
               call.what # "remove" => run # "gone"
        PROVE  Effect(call, Result(With(call.id, run), "ok", call.id))
  <2> USE <1>run
  <2> DEFINE b == With(call.id, run)
             r == Result(b, "ok", call.id)
  <2>1. r.box = b /\ r.res = "ok" /\ r.id = call.id
    BY Zenon DEF Result
  <2>2. call.id \in Containers /\ call.id \in Nat /\ Present \subseteq Containers
    BY ContainersAre DEF Present, Base
  <2>3. /\ Extends(b) /\ b[call.id].run = run
        /\ \A x \in Containers : x # call.id => b[x] = box[x]
    BY <2>2, <1>with, Zenon
  <2> HIDE DEF r, b
  <2>4. ASSUME NEW c \in Containers, is_active_runtime(c), ~(call.what = "stop" /\ call.id = c)
        PROVE  b[c].run \in Active
    <3>1. CASE c = call.id
      BY <3>1, <2>3, <2>4, Zenon
    <3>2. CASE c # call.id
      BY <3>2, <2>3, <2>4, Zenon DEF is_active_runtime
    <3> QED BY <3>1, <3>2, Zenon
  <2>5. ASSUME NEW c \in Present, ~(call.what = "remove" /\ call.id = c)
        PROVE  b[c].run # "gone"
    <3>1. CASE c = call.id
      BY <3>1, <2>3, <2>5, Zenon
    <3>2. CASE c # call.id
      BY <3>2, <2>2, <2>3, <2>5, Zenon DEF Present
    <3> QED BY <3>1, <3>2, Zenon
  <2> QED BY <2>1, <2>2, <2>3, <2>4, <2>5, Zenon DEF Effect, r, b
\* A create returns a new container, or the one made under the same key.
<1>create. ASSUME call.what = "create"
           PROVE  Effect(call, create_with_admission(call.on, call.body))
  <2> USE <1>create
  <2> DEFINE m == call.on
             body == call.body
             held == matching_creation(m, body)
             fresh == Append(box, Container(m, body, TRUE))
             c == CHOOSE x \in held : TRUE
  <2>1. m \in Machines /\ body \in Bodies /\ body.key.old <= Len(box)
    BY DEF Mutations
  <2>2. held \subseteq Present /\ Present \subseteq Containers /\ Len(box) + 1 \in Nat
        /\ Len(box) + 1 \notin Containers /\ Containers \subseteq Nat
    BY ContainersAre DEF matching_creation, Present, Base
  <2>3. CASE held = {}
    <3>1. create_with_admission(m, body) = Result(fresh, "ok", Len(box) + 1)
      BY <2>3, Zenon DEF create_with_admission
    <3> DEFINE r == Result(fresh, "ok", Len(box) + 1)
    <3>2. r.box = fresh /\ r.res = "ok" /\ r.id = Len(box) + 1
      BY Zenon DEF Result
    <3>3. /\ Extends(fresh) /\ Len(box) + 1 \in DOMAIN fresh
          /\ fresh[Len(box) + 1].kind = body.kind
          /\ \A x \in Containers : fresh[x] = box[x]
      BY <2>1, AppendExtends, Zenon
    <3> HIDE DEF r, fresh
    <3>4. \A x \in Present : fresh[x].run # "gone"
      BY <2>2, <3>3, Zenon DEF Present
    <3>5. \A x \in Containers : is_active_runtime(x) => fresh[x].run \in Active
      BY <3>3, Zenon DEF is_active_runtime
    <3>6. Effect(call, r)
      BY <2>2, <3>2, <3>3, <3>4, <3>5, Zenon DEF Effect
    <3> QED BY <3>1, <3>6, Zenon DEF r
  <2>4. CASE held # {}
    <3> DEFINE r == IF box[c].row /\ box[c].spec = body.spec THEN Result(box, "ok", c)
                    ELSE Result(box, "error", 0)
    <3>1. create_with_admission(m, body) = r
      BY <2>4, Zenon DEF create_with_admission
    <3>2. c \in held
      BY <2>4, Zenon
    <3>3. c \in Containers /\ body.key # NoKey /\ box[c].key = body.key /\ box[c].kind = body.kind
      BY <3>2, <2>2, Zenon DEF matching_creation
    <3> HIDE DEF c
    <3>4. r.box = box /\ ((r.res = "ok" /\ r.id = c) \/ (r.res = "error" /\ r.id = 0))
      BY Zenon DEF Result
    <3> HIDE DEF r
    <3>5. \A x \in Present : box[x].run # "gone"
      BY Zenon DEF Present
    <3>6. r.id \in Nat /\ DOMAIN box = Containers
      <4>1. c \in Nat /\ 0 \in Nat
        BY <2>2, <3>3
      <4> QED BY <3>4, <4>1, Zenon DEF Containers
    <3>7. Effect(call, r)
      BY <2>2, <3>3, <3>4, <3>5, <3>6, SameExtends, Zenon DEF Effect, is_active_runtime
    <3> QED BY <3>1, <3>7, Zenon
  <2> QED BY <2>3, <2>4, Zenon
<1>1. call.what \in {"create", "start", "stop", "remove"} /\ call.id \in Nat
  BY DEF Mutations
<1>2. CASE call.what = "create"
  BY <1>2, <1>create, Zenon DEF Perform
<1>3. CASE call.what # "create" /\ call.id \notin Present
  <2>1. Perform(call) = Result(box, "notfound", call.id)
    BY <1>3, Zenon DEF Perform
  <2> QED BY <2>1, <1>1, <1>3, <1>none, Zenon
<1>4. CASE call.what # "create" /\ call.id \in Present /\ call.id \notin Managed
  <2>1. Perform(call) = Result(box, "error", call.id)
    BY <1>4, Zenon DEF Perform
  <2> QED BY <2>1, <1>1, <1>4, <1>none, Zenon
<1>5. CASE call.what # "create" /\ call.id \in Managed
  <2>1. call.id \in Present /\ call.id \in Containers
    BY <1>5, Zenon DEF Managed, Present
  <2>2. CASE call.what = "start"
    <3>1. Perform(call) = start(call.id)
      BY <2>1, <2>2, <1>5, Zenon DEF Perform
    <3>2. "starting" \in Active /\ "starting" \in State
      BY DEF Active, State, Running
    <3>3. Effect(call, Result(With(call.id, "starting"), "ok", call.id))
      BY <2>1, <2>2, <3>2, <1>run
    <3>4. Effect(call, Result(box, "error", call.id))
      BY <1>1, <1>5, <1>none
    <3>5. is_active_runtime(call.id) => Effect(call, Result(box, "ok", call.id))
      BY <1>1, <1>5, <2>1, <1>none
    <3> QED BY <3>1, <3>3, <3>4, <3>5, Zenon DEF start
  <2>3. CASE call.what = "stop"
    <3>1. Perform(call) = stop(call.id)
      BY <2>1, <2>3, <1>5 DEF Perform
    <3>2. "exited" \in State
      BY DEF State
    <3>3. Effect(call, Result(With(call.id, "exited"), "ok", call.id))
      BY <2>1, <2>3, <3>2, <1>run
    <3>4. Effect(call, Result(box, "ok", call.id))
      BY <1>1, <1>5, <2>3, <1>none
    <3> QED BY <3>1, <3>3, <3>4, Zenon DEF stop
  <2>4. CASE call.what = "remove"
    <3>1. Perform(call) = remove(call.id)
      BY <2>1, <2>4, <1>5 DEF Perform
    <3>2. "gone" \in State
      BY DEF State
    <3>3. ~is_active_runtime(call.id) =>
             Effect(call, Result(With(call.id, "gone"), "ok", call.id))
      BY <2>1, <2>4, <3>2, <1>run
    <3>4. Effect(call, Result(box, "error", call.id))
      BY <1>1, <1>5, <1>none
    <3> QED BY <3>1, <3>3, <3>4, Zenon DEF remove
  <2> QED BY <1>1, <1>5, <2>2, <2>3, <2>4, Zenon
<1>6. Managed \subseteq Present
  BY Zenon DEF Managed
<1> QED BY <1>2, <1>3, <1>4, <1>5, <1>6, Zenon

-----------------------------------------------------------------------------
(* What more containers do not disturb. *)

\* With more containers what was well-formed stays so.
LEMMA Grown ==
  ASSUME Base, Extends(box')
  PROVE  /\ Base' /\ Containers \subseteq Containers'
         /\ Sane \subseteq Sane' /\ Mutations \subseteq Mutations'
         /\ \A c \in Containers : Same(box'[c], box[c])
<1>1. Base'
  BY Zenon DEF Base, Extends, Older
<1>2. Containers \subseteq Containers' /\ \A c \in Containers : Same(box'[c], box[c])
  BY Zenon DEF Extends, Containers
<1>3. Sane \subseteq Sane'
  <2>1. ASSUME NEW o \in Sane PROVE o \in Sane'
    <3>1. /\ o \in Ops /\ o.olds \in Seq(Containers)
          /\ o.op \in {"run", "replace", "hook"} => o.rev \in Revisions
          /\ o.op = "replace" => o.id \in Containers /\ box[o.id].kind = "service"
      BY <2>1, Zenon DEF Sane
    <3>2. o.olds \in Seq(Containers')
      BY <1>2, <3>1
    <3>3. o.op = "replace" => o.id \in Containers' /\ box'[o.id].kind = "service"
      BY <1>2, <3>1, Zenon DEF Same
    <3> QED BY <3>1, <3>2, <3>3, Zenon DEF Sane
  <2> QED BY <2>1, Zenon
<1>4. Mutations \subseteq Mutations'
  <2>1. Len(box) \in Nat /\ Len(box') \in Nat /\ Len(box) <= Len(box')
    BY <1>1 DEF Base, Extends
  <2>2. \A b \in Bodies : b.key.old \in Nat
    BY DEF Bodies
  <2>3. \A b \in Bodies : b.key.old <= Len(box) => b.key.old <= Len(box')
    BY <2>1, <2>2
  <2> QED BY <2>3, Zenon DEF Mutations
<1> QED BY <1>1, <1>2, <1>3, <1>4, Zenon

\* A container that is up stays so as long as it is active.
LEMMA StaysUp ==
  ASSUME Base, Extends(box'), NEW c, UpIn(box, c), box'[c].run \in Active
  PROVE  UpIn(box', c)
<1>1. c \in Containers /\ box[c].kind = "service"
  BY Zenon DEF UpIn, Containers
<1>2. c \in Containers' /\ Same(box'[c], box[c])
  BY <1>1, Grown, Zenon
<1> QED BY <1>1, <1>2, Zenon DEF UpIn, Same, Containers

-----------------------------------------------------------------------------
(* The operation under way and its calls. *)

\* The operation under way is a sane one.
LEMMA CurIs ==
  ASSUME d \in Deploys, d.plan # <<>>
  PROVE  /\ cur \in Sane /\ cur.on \in Machines /\ cur.id \in Nat /\ cur.olds \in Seq(Containers)
         /\ cur.op \in {"stop", "stophook", "remove", "run", "replace", "hook"}
         /\ cur.op \in {"run", "replace", "hook"} => cur.rev \in Revisions
         /\ cur.op = "replace" => cur.id \in Containers /\ box[cur.id].kind = "service"
         /\ Tail(d.plan) \in Seq(Sane)
<1>1. d.plan \in Seq(Sane)
  BY Zenon DEF Deploys
<1>2. cur \in Sane /\ Tail(d.plan) \in Seq(Sane)
  BY <1>1 DEF cur
<1>3. cur \in Ops
  BY <1>2, Zenon DEF Sane
<1> QED BY <1>2, <1>3, Zenon DEF Sane, Ops

\* What a create asks for: its key, if it replaces a container, names that one.
LEMMA BodyIs ==
  ASSUME Base, service \in Services, d \in Deploys, d.plan # <<>>,
         cur.op \in {"run", "replace", "hook"}
  PROVE  /\ Body \in Bodies /\ Body.key.old <= Len(box)
         /\ Body.kind = IF cur.op = "hook" THEN "hook" ELSE "service"
         /\ Body.key # NoKey /\ cur.op = "replace" => Body.key.old = cur.id
<1>1. cur.rev \in Revisions /\ cur.rev \in Nat /\ cur.id \in Nat
  BY CurIs, EngineAssumption, Zenon
<1>2. NoKey \in [spec : Nat, old : Nat] /\ NoKey.old <= Len(box)
  BY ContainersAre DEF NoKey, Base
<1>3. CASE cur.op = "hook"
  <2>1. Body = [svc |-> "web", kind |-> "hook", spec |-> cur.rev, port |-> FALSE, key |-> NoKey]
    BY <1>3, Zenon DEF Body
  <2>2. Body.key = NoKey /\ Body.kind = "hook"
    BY <2>1, Zenon
  <2>3. Body \in Bodies
    BY <1>1, <1>2, <2>1 DEF Bodies
  <2> QED BY <2>2, <2>3, <1>2, <1>3, Zenon
<1>4. CASE cur.op # "hook"
  <2>1. Body = [svc |-> "web", kind |-> "service", spec |-> cur.rev, port |-> service.port,
                key |-> creation_key]
    BY <1>4, Zenon DEF Body
  <2>2. Body.key = creation_key /\ Body.kind = "service"
    BY <2>1, Zenon
  <2>3. service.port \in BOOLEAN
    BY PlanAssumption
  <2>4. creation_key \in [spec : Nat, old : Nat] /\ creation_key.old <= Len(box)
        /\ (creation_key # NoKey /\ cur.op = "replace" => creation_key.old = cur.id)
    <3> DEFINE same == {c \in Managed :
                          /\ box[c].svc = "web" /\ box[c].kind = "service"
                          /\ box[c].on = cur.on /\ box[c].spec = cur.rev
                          /\ box[c].key # NoKey
                          /\ OrderOf(box[c].key) =
                               IF cur.id = 0 THEN service.volume
                               ELSE OrderOf(box[cur.id].key)}
               newest == {c \in same : \A x \in same : x <= c}
               new == CHOOSE c \in newest : TRUE
    <3>1. /\ ~Global => creation_key = NoKey
          /\ Global /\ cur.op = "replace" => creation_key = [spec |-> cur.rev, old |-> cur.id]
          /\ Global /\ cur.op # "replace" /\ newest = {} =>
               creation_key = [spec |-> cur.rev, old |-> 0]
          /\ Global /\ cur.op # "replace" /\ newest # {} => creation_key = box[new].key
      BY Zenon DEF creation_key
    <3>2. /\ [spec |-> cur.rev, old |-> cur.id] \in [spec : Nat, old : Nat]
          /\ cur.op = "replace" => cur.id <= Len(box)
      <4>1. cur.op = "replace" => cur.id \in Containers
        BY CurIs, Zenon
      <4>2. \A c \in Containers : c <= Len(box)
        BY ContainersAre DEF Base
      <4> QED BY <1>1, <4>1, <4>2, Zenon
    <3>3. [spec |-> cur.rev, old |-> 0] \in [spec : Nat, old : Nat] /\ 0 <= Len(box)
      BY <1>1, ContainersAre DEF Base
    <3>4. newest # {} => new \in Containers
      BY Zenon DEF Managed, Present
    <3> HIDE DEF same, newest, new
    <3>5. newest # {} => box[new].key \in [spec : Nat, old : Nat] /\ box[new].key.old <= Len(box)
      <4>1. \A b \in Boxes : b.key \in [spec : Nat, old : Nat]
        BY DEF Boxes
      <4>2. \A c \in Containers : box[c] \in Boxes /\ box[c].key.old < c /\ c <= Len(box)
                                  /\ c \in Nat /\ Len(box) \in Nat
        BY ContainersAre DEF Base, Older, Containers
      <4>3. \A c \in Containers : box[c].key.old \in Nat
        BY <4>1, <4>2
      <4> QED BY <3>4, <4>1, <4>2, <4>3
    <3>6. [spec |-> cur.rev, old |-> cur.id].old = cur.id /\ [spec |-> cur.rev, old |-> 0].old = 0
      BY Zenon
    <3>7. CASE ~Global
      BY <3>1, <3>7, <1>2, Zenon
    <3>8. CASE Global /\ cur.op = "replace"
      BY <3>1, <3>2, <3>6, <3>8, Zenon
    <3>9. CASE Global /\ cur.op # "replace"
      BY <3>1, <3>3, <3>5, <3>6, <3>9, Zenon
    <3> QED BY <3>7, <3>8, <3>9, Zenon
  <2>5. Body \in Bodies
    BY <1>1, <2>1, <2>3, <2>4 DEF Bodies
  <2> QED BY <2>2, <2>4, <2>5, <1>4, Zenon
<1> QED BY <1>3, <1>4, Zenon

\* The call of a Deploy at each of its steps that makes one.
LEMMA RequestIs ==
  /\ d.pc \in {"stop", "stop_old", "retire"} => Request = StopCall(cur.on, cur.id)
  /\ d.pc \in {"remove", "remove_old"} => Request = RemoveCall(cur.on, cur.id)
  /\ d.pc = "create" => Request = CreateCall(cur.on, Body)
  /\ d.pc = "start" => Request = StartCall(cur.on, d.new)
  /\ d.pc = "discard" => Request = RemoveCall(cur.on, d.new)
  /\ d.pc \in {"stop_new", "interrupt"} => Request = StopCall(cur.on, d.new)
  /\ d.pc = "restore" => Request = StartCall(cur.on, cur.id)
  /\ d.pc = "clear" => Request = RemoveCall(box[Head(cur.olds)].on, Head(cur.olds))
<1>1. d.pc \in {"stop", "stop_old", "retire"} => Request = StopCall(cur.on, cur.id)
  BY Zenon DEF Request
<1>2. d.pc \in {"remove", "remove_old"} => Request = RemoveCall(cur.on, cur.id)
  BY Zenon DEF Request
<1>3. d.pc = "create" => Request = CreateCall(cur.on, Body)
  BY Zenon DEF Request
<1>4. d.pc = "start" => Request = StartCall(cur.on, d.new)
  BY Zenon DEF Request
<1>5. d.pc = "discard" => Request = RemoveCall(cur.on, d.new)
  BY Zenon DEF Request
<1>6. d.pc \in {"stop_new", "interrupt"} => Request = StopCall(cur.on, d.new)
  BY Zenon DEF Request
<1>7. d.pc = "restore" => Request = StartCall(cur.on, cur.id)
  BY Zenon DEF Request
<1>8. d.pc = "clear" => Request = RemoveCall(box[Head(cur.olds)].on, Head(cur.olds))
  BY Zenon DEF Request
<1> QED BY <1>1, <1>2, <1>3, <1>4, <1>5, <1>6, <1>7, <1>8, Zenon

\* What an operation under way needs of the state for its call to make sense.
LEMMA RequestTyped ==
  ASSUME Typed, Staged, d.pc \in Calls
  PROVE  /\ Request \in Mutations /\ Request.on \in Machines
         /\ d.pc # "clear" => Request.on = cur.on
\* The call that stops a container.
<1>stop. ASSUME NEW m \in Machines, NEW c \in Nat
         PROVE  /\ StopCall(m, c) \in Mutations
                /\ StopCall(m, c).what = "stop" /\ StopCall(m, c).on = m /\ StopCall(m, c).id = c
  BY <1>stop, Zenon DEF Mutations, StopCall
\* The call that starts a container.
<1>start. ASSUME NEW m \in Machines, NEW c \in Nat
          PROVE  /\ StartCall(m, c) \in Mutations
                 /\ StartCall(m, c).what = "start" /\ StartCall(m, c).on = m
                 /\ StartCall(m, c).id = c
  BY <1>start, Zenon DEF Mutations, StartCall
\* The call that removes a container.
<1>remove. ASSUME NEW m \in Machines, NEW c \in Nat
           PROVE  /\ RemoveCall(m, c) \in Mutations
                  /\ RemoveCall(m, c).what = "remove" /\ RemoveCall(m, c).on = m
                  /\ RemoveCall(m, c).id = c
  BY <1>remove, Zenon DEF Mutations, RemoveCall
\* The call that creates a container.
<1>create. ASSUME NEW m \in Machines, NEW body \in Bodies, body.key.old <= Len(box)
           PROVE  /\ CreateCall(m, body) \in Mutations
                  /\ CreateCall(m, body).what = "create" /\ CreateCall(m, body).on = m
                  /\ CreateCall(m, body).id = 0 /\ CreateCall(m, body).body = body
  <2> USE <1>create
  <2>1. 0 \in Nat
    OBVIOUS
  <2> QED BY <2>1, Zenon DEF Mutations, CreateCall
<1>1. d.pc \notin {"idle", "next"}
  BY Zenon DEF Calls
<1>2. d \in Deploys /\ d.plan # <<>> /\ cur.op \in OpsAt(d.pc)
  BY <1>1, Zenon DEF Typed, Staged
<1>3. cur.on \in Machines /\ cur.id \in Nat /\ d.new \in Nat
  BY <1>2, CurIs, Zenon DEF Deploys
<1>4. CASE d.pc \in {"stop", "stop_old", "retire"}
  <2>1. Request = StopCall(cur.on, cur.id)
    BY <1>4, RequestIs, Zenon
  <2>2. Request \in Mutations /\ Request.on = cur.on
    BY <1>3, <2>1, <1>stop, Zenon
  <2> QED BY <1>3, <2>2, Zenon
<1>5. CASE d.pc \in {"remove", "remove_old"}
  <2>1. Request = RemoveCall(cur.on, cur.id)
    BY <1>5, RequestIs, Zenon
  <2>2. Request \in Mutations /\ Request.on = cur.on
    BY <1>3, <2>1, <1>remove, Zenon
  <2> QED BY <1>3, <2>2, Zenon
<1>6. CASE d.pc = "create"
  <2>1. cur.op \in {"run", "replace", "hook"}
    BY <1>2, <1>6, Zenon DEF OpsAt
  <2>2. Body \in Bodies /\ Body.key.old <= Len(box)
    BY <1>2, <2>1, BodyIs, Zenon DEF Typed
  <2>3. Request = CreateCall(cur.on, Body)
    BY <1>6, RequestIs, Zenon
  <2>4. Request \in Mutations /\ Request.on = cur.on
    BY <1>3, <2>2, <2>3, <1>create, Zenon
  <2> QED BY <1>3, <2>4, Zenon
<1>7. CASE d.pc \in {"start", "restore"}
  <2>1. Request = StartCall(cur.on, d.new) \/ Request = StartCall(cur.on, cur.id)
    BY <1>7, RequestIs, Zenon
  <2> QED BY <1>3, <2>1, <1>start
<1>8. CASE d.pc \in {"discard", "stop_new", "interrupt"}
  <2>1. Request = RemoveCall(cur.on, d.new) \/ Request = StopCall(cur.on, d.new)
    BY <1>8, RequestIs, Zenon
  <2> QED BY <1>3, <2>1, <1>stop, <1>remove
<1>9. CASE d.pc = "clear"
  <2>1. cur.olds # <<>> /\ cur.olds \in Seq(Containers)
    BY <1>2, <1>9, CurIs, Zenon DEF Staged
  <2>2. Head(cur.olds) \in Containers
    BY <2>1
  <2>3. Head(cur.olds) \in Nat /\ box[Head(cur.olds)].on \in Machines
    BY <2>2, ContainersAre DEF Typed, Base
  <2>4. Request = RemoveCall(box[Head(cur.olds)].on, Head(cur.olds))
    BY <1>9, RequestIs, Zenon
  <2>5. Request \in Mutations /\ Request.on = box[Head(cur.olds)].on
    BY <2>3, <2>4, <1>remove, Zenon
  <2> QED BY <1>9, <2>3, <2>5, Zenon
<1> QED BY <1>4, <1>5, <1>6, <1>7, <1>8, <1>9, Zenon DEF Calls

-----------------------------------------------------------------------------
(* The next value of d. *)

\* p goes on at pc with the operation.
At(p, pc, new, stopped) ==
  /\ p \in Deploys /\ p.pc = pc /\ p.new = new /\ p.stopped = stopped
  /\ p.plan = d.plan /\ p.result = d.result /\ p.held = d.held /\ p.sound = d.sound

\* p ended with a failure.
Failed(p, new, err) ==
  /\ p \in Deploys /\ p.pc = "idle" /\ p.result = "failed" /\ p.new = new /\ p.err = err
  /\ p.plan = d.plan /\ p.held = d.held /\ p.sound = d.sound

Errors == {"none", "stop", "remove", "create", "cancelled", "start", "health", "inspect",
           "barrier", "hook"}

\* Go moves on and changes nothing else.
LEMMA GoIs ==
  ASSUME d \in Deploys, NEW pc \in Pcs
  PROVE  At(Go(pc), pc, d.new, d.stopped)
<1>1. Go(pc) \in Deploys
  BY Zenon DEF Go, Deploys
<1> QED BY <1>1, Zenon DEF At, Go, Deploys

\* Fail ends the Deploy with its error.
LEMMA FailIs ==
  ASSUME d \in Deploys, NEW e \in Errors
  PROVE  Failed(Fail(e), d.new, e)
<1>1. "idle" \in Pcs
  BY Zenon DEF Pcs
<1>2. Fail(e) \in Deploys
  BY <1>1, Zenon DEF Fail, FailFrom, Deploys, Errors
<1> QED BY <1>2, Zenon DEF Failed, Fail, FailFrom, Deploys

\* Done goes on to the next operation.
LEMMA DoneIs ==
  ASSUME d \in Deploys, d.plan # <<>>
  PROVE  /\ Done \in Deploys /\ Done.pc = "next" /\ Done.new = d.new /\ Done.held = d.held
         /\ Done.sound = d.sound /\ Done.result = d.result
<1>1. Tail(d.plan) \in Seq(Sane)
  BY CurIs, Zenon
<1>2. Done = [d EXCEPT !.pc = "next", !.plan = Tail(d.plan)]
  BY Zenon DEF Done
<1>3. "next" \in Pcs
  BY Zenon DEF Pcs
<1>4. Done \in Deploys
  BY <1>1, <1>2, <1>3, Zenon DEF Deploys
<1> QED BY <1>2, <1>4, ZenonT(30) DEF Deploys

\* Undone ends the Deploy with the error it had and how the restart went.
LEMMA UndoneIs ==
  ASSUME d \in Deploys, NEW e \in {"ok", "failed"}
  PROVE  Failed(Undone(e), d.new, d.err) /\ Undone(e).restart = e
<1>1. d.err \in Errors
  BY Zenon DEF Deploys, Errors
<1> DEFINE p == FailFrom(d, d.err)
<1>2. Failed(p, d.new, d.err)
  BY <1>1, FailIs, Zenon DEF Fail
<1>3. Undone(e) = [p EXCEPT !.restart = e]
  BY Zenon DEF Undone
<1> HIDE DEF p
<1>4. Undone(e) \in Deploys
  BY <1>2, <1>3, ZenonT(30) DEF Failed, Deploys
<1> QED BY <1>2, <1>3, <1>4 DEF Failed, Deploys

-----------------------------------------------------------------------------
(* Steps of a Deploy. *)

\* No Machine still runs a call of a caller that is gone.
Settled == \A m \in Machines : Admitted(m)

\* A step of a Deploy keeps what the invariant says of it.
Kept == d' \in Deploys /\ Staged' /\ Own' /\ Course' /\ Told'

\* With nothing in flight there is nothing that is not its own.
LEMMA SettledOwn ==
  ASSUME d'.sound /\ d'.pc # "idle" => Settled'
  PROVE  Own'
BY Zenon DEF Settled, Own

\* With nothing in flight there is no stop in flight.
LEMMA SettledTells ==
  ASSUME Settled
  PROVE  \A m \in Machines : flight[m].what # "stop"
<1>1. \A m \in Machines : NoCall(m).what # "stop"
  BY DEF NoCall
<1> QED BY <1>1, Zenon DEF Settled, Admitted

\* A failure keeps the invariant where one of the containers is kept, or it tells.
LEMMA FailStep ==
  ASSUME NEW new, NEW err, Failed(d', new, err),
         d.sound /\ d.held /\ cur.op = "replace" =>
            ToldBy(box', flight', new, cur.id, err, d'.restart)
  PROVE  Kept
<1>1. /\ d'.pc = "idle" /\ d'.result = "failed" /\ d'.new = new /\ d'.err = err
      /\ d'.plan = d.plan /\ d'.held = d.held /\ d'.sound = d.sound
  BY Zenon DEF Failed
<1>2. cur' = cur
  BY <1>1, Zenon DEF cur
<1>3. Staged'
  <2>1. d'.pc \notin Fresh \cup {"retire"}
    BY <1>1, Zenon DEF Fresh
  <2> QED BY <1>1, <2>1, Zenon DEF Staged
<1>4. Own'
  BY <1>1, Zenon DEF Own
<1>5. Course'
  BY <1>1, Zenon DEF Course, CourseAt
<1>6. Told'
  BY <1>1, <1>2, Zenon DEF Told
<1> QED BY <1>3, <1>4, <1>5, <1>6, Zenon DEF Kept, Failed

\* Going on with an operation keeps the invariant where it has what it needs there.
LEMMA GoStep ==
  ASSUME NEW pc \in Pcs \ {"idle", "next", "clear"}, NEW new, NEW stopped,
         At(d', pc, new, stopped), d.plan # <<>>, d.result = "running",
         cur.op \in OpsAt(pc), d.held => cur.op = "replace",
         pc \in Fresh => new \in Containers' /\ (cur.op # "hook" => box'[new].kind = "service"),
         pc \in Fresh \cup {"retire"} /\ cur.op = "replace" => new # cur.id,
         Own',
         d.sound /\ d.held => CourseAt(box', pc, new, cur.id, stopped)
  PROVE  Kept
<1>1. /\ d'.pc = pc /\ d'.result = "running" /\ d'.new = new /\ d'.stopped = stopped
      /\ d'.plan = d.plan /\ d'.held = d.held /\ d'.sound = d.sound
  BY Zenon DEF At
<1>2. cur' = cur
  BY <1>1, Zenon DEF cur
<1>3. Staged'
  BY <1>1, <1>2, Zenon DEF Staged
<1>4. Course'
  BY <1>1, <1>2, Zenon DEF Course
<1>5. Told'
  BY <1>1, Zenon DEF Told
<1> QED BY <1>3, <1>4, <1>5, Zenon DEF Kept, At

\* The end of an operation keeps the invariant where the new container is up.
LEMMA DoneStep ==
  ASSUME d \in Deploys, d.plan # <<>>, d.result = "running", d' = Done,
         d.sound => Settled',
         d.sound /\ d.held => UpIn(box', d.new)
  PROVE  Kept
<1>1. /\ d'.pc = "next" /\ d'.new = d.new /\ d'.held = d.held /\ d'.sound = d.sound
      /\ d'.result = "running"
  BY DoneIs, Zenon
<1>2. Staged'
  <2>1. d'.pc \notin Fresh \cup {"retire"}
    BY <1>1, Zenon DEF Fresh
  <2> QED BY <1>1, <2>1, Zenon DEF Staged
<1>3. Own'
  BY <1>1, SettledOwn, Zenon
<1>4. Course'
  BY <1>1, Zenon DEF Course, CourseAt
<1>5. Told'
  BY <1>1, Zenon DEF Told
<1> QED BY <1>2, <1>3, <1>4, <1>5, DoneIs, Zenon DEF Kept

\* An operation breaks; c is the new container when it had started.
LEMMA BrokenStep ==
  ASSUME d \in Deploys, d.plan # <<>>, d.result = "running", NEW c \in Nat, NEW e \in Errors,
         d' = Broken(c, e), d.held => cur.op = "replace",
         cur.op = "replace" /\ c # 0 =>
            c \in Containers' /\ box'[c].kind = "service" /\ c # cur.id,
         d.sound /\ d.held => d.stopped \/ UpIn(box', cur.id),
         d.sound /\ cur.op = "replace" /\ c # 0 => Settled',
         d.sound /\ cur.op = "replace" => \A m \in Machines : ~Admitted(m)' =>
            m = cur.on /\ flight'[m].id # cur.id
  PROVE  Kept
\* compensate fails, stops the new container, or restores the old one.
<1>undo. /\ ~d.stopped /\ (e # "health" \/ c = 0) => Failed(compensate(c, e), c, e)
         /\ c # 0 /\ (d.stopped \/ e = "health") => At(compensate(c, e), "stop_new", c, d.stopped)
         /\ c = 0 /\ d.stopped => At(compensate(c, e), "restore", c, d.stopped)
  <2> DEFINE p == [d EXCEPT !.new = c, !.err = e]
  <2>1. {"idle", "stop_new", "restore"} \subseteq Pcs
    BY Zenon DEF Pcs, Calls
  <2>2. /\ p \in Deploys /\ p.new = c /\ p.err = e /\ p.stopped = d.stopped
        /\ p.plan = d.plan /\ p.result = d.result /\ p.held = d.held /\ p.sound = d.sound
    BY Zenon DEF Deploys, Errors
  <2> HIDE DEF p
  <2>3. Failed(FailFrom(p, e), c, e)
    <3>1. FailFrom(p, e) \in Deploys
      BY <2>1, <2>2, Zenon DEF FailFrom, Deploys, Errors
    <3> QED BY <2>2, <3>1 DEF Failed, FailFrom, Deploys
  <2>4. ASSUME NEW pc \in {"stop_new", "restore"} PROVE At([p EXCEPT !.pc = pc], pc, c, d.stopped)
    <3>1. [p EXCEPT !.pc = pc] \in Deploys
      BY <2>1, <2>2, Zenon DEF Deploys
    <3> QED BY <2>2, <3>1, Zenon DEF At, Deploys
  <2>5. compensate(c, e) = IF ~d.stopped /\ e # "health" THEN FailFrom(p, e)
                           ELSE IF c # 0 THEN [p EXCEPT !.pc = "stop_new"]
                           ELSE IF d.stopped THEN [p EXCEPT !.pc = "restore"]
                           ELSE FailFrom(p, e)
    BY Zenon DEF compensate, p
  <2> QED BY <2>3, <2>4, <2>5, Zenon
\* Broken undoes a replacement, and fails any other operation.
<1>broken. /\ cur.op # "replace" => Failed(Broken(c, e), d.new, e)
           /\ cur.op = "replace" =>
                /\ ~d.stopped /\ (e # "health" \/ c = 0) => Failed(Broken(c, e), c, e)
                /\ c # 0 /\ (d.stopped \/ e = "health") =>
                     At(Broken(c, e), "stop_new", c, d.stopped)
                /\ c = 0 /\ d.stopped => At(Broken(c, e), "restore", c, d.stopped)
  BY FailIs, <1>undo, Zenon DEF Broken
<1>1. CASE cur.op # "replace"
  <2>1. Failed(d', d.new, e)
    BY <1>1, <1>broken, Zenon
  <2> QED BY <1>1, <2>1, FailStep, Zenon
<1>2. CASE cur.op = "replace" /\ ~d.stopped /\ (e # "health" \/ c = 0)
  <2>1. Failed(d', c, e)
    BY <1>2, <1>broken, Zenon
  <2>2. d.sound => \A m \in Machines : flight'[m].what = "stop" => flight'[m].id # cur.id
    <3>1. \A m \in Machines : NoCall(m).what # "stop"
      BY DEF NoCall
    <3> QED BY <1>2, <3>1, Zenon DEF Admitted
  <2>3. d.sound /\ d.held => ToldBy(box', flight', c, cur.id, e, d'.restart)
    BY <1>2, <2>2, Zenon DEF ToldBy
  <2> QED BY <2>1, <2>3, FailStep, Zenon
<1>3. CASE cur.op = "replace" /\ c # 0 /\ (d.stopped \/ e = "health")
  <2>1. At(d', "stop_new", c, d.stopped)
    BY <1>3, <1>broken, Zenon
  <2>2. d'.sound = d.sound
    BY <2>1, Zenon DEF At
  <2>3. Own'
    BY <1>3, <2>2, SettledOwn, Zenon
  <2>4. "stop_new" \in Pcs \ {"idle", "next", "clear"} /\ cur.op \in OpsAt("stop_new")
    BY <1>3, Zenon DEF Pcs, Calls, OpsAt
  <2>5. d.sound /\ d.held => CourseAt(box', "stop_new", c, cur.id, d.stopped)
    BY Zenon DEF CourseAt
  <2> QED BY <1>3, <2>1, <2>3, <2>4, <2>5, GoStep, Zenon
<1>4. CASE cur.op = "replace" /\ c = 0 /\ d.stopped
  <2>1. At(d', "restore", c, d.stopped)
    BY <1>4, <1>broken, Zenon
  <2>2. d'.sound = d.sound /\ d'.pc = "restore" /\ cur' = cur
    BY <2>1, Zenon DEF At, cur
  <2>3. Own'
    <3>1. Request' = StartCall(cur.on, cur.id) /\ "restore" \in Calls \ {"create"}
      BY <2>2, Zenon DEF Request, Calls
    <3>2. (Request').on = cur.on
      BY <2>2, <3>1, Zenon DEF StartCall
    <3> QED BY <1>4, <2>2, <3>1, <3>2, Zenon DEF Own
  <2>4. "restore" \in Pcs \ {"idle", "next", "clear"} /\ cur.op \in OpsAt("restore")
        /\ "restore" \notin Fresh \cup {"retire"}
    BY <1>4, Zenon DEF Pcs, Calls, OpsAt, Fresh
  <2>5. CourseAt(box', "restore", c, cur.id, d.stopped)
    BY Zenon DEF CourseAt
  <2> QED BY <1>4, <2>1, <2>3, <2>4, <2>5, GoStep, Zenon
<1> QED BY <1>1, <1>2, <1>3, <1>4, Zenon

\* A container that was created is discarded; the last call in flight may be its start.
LEMMA DiscardStep ==
  ASSUME d \in Deploys, d.plan # <<>>, d.result = "running", NEW c \in Nat, NEW e \in Errors,
         d' = Discard(c, e), d.held => cur.op = "replace", cur.op \in {"run", "replace", "hook"},
         c \in Containers', cur.op # "hook" => box'[c].kind = "service",
         cur.op = "replace" => c # cur.id,
         d.sound /\ d.held => d.stopped \/ UpIn(box', cur.id),
         d.sound => \A m \in Machines : ~Admitted(m)' =>
            m = cur.on /\ flight'[m] = StartCall(m, c)
  PROVE  Kept
<1>1. CASE Keyed
  <2>1. d' = Broken(0, e) /\ 0 \in Nat
    BY <1>1, Zenon DEF Discard
  <2>2. \A m : StartCall(m, c).id = c
    BY Zenon DEF StartCall
  <2> QED BY <2>1, <2>2, BrokenStep, Zenon
<1>2. CASE ~Keyed
  <2>1. d' = [d EXCEPT !.pc = "discard", !.new = c, !.err = e]
    BY <1>2, Zenon DEF Discard
  <2>2. At(d', "discard", c, d.stopped)
    <3>1. "discard" \in Pcs
      BY Zenon DEF Pcs, Calls
    <3>2. d' \in Deploys
      BY <2>1, <3>1, ZenonT(30) DEF Deploys, Errors
    <3> QED BY <2>1, <3>2, ZenonT(30) DEF At, Deploys
  <2>3. d'.sound = d.sound /\ d'.pc = "discard" /\ d'.new = c /\ cur' = cur
    BY <2>2, Zenon DEF At, cur
  <2>4. Own'
    <3>1. "discard" \in Calls \ {"create"}
      BY Zenon DEF Calls
    <3>2. Request' = RemoveCall(cur.on, c)
      BY <2>3, Zenon DEF Request
    <3>3. (Request').on = cur.on
      BY <3>2, Zenon DEF RemoveCall
    <3>4. \A m \in Machines : d'.sound /\ ~Admitted(m)' =>
            m = cur.on /\ flight'[m] = StartCall(m, d'.new)
      BY <2>3, Zenon
    <3> QED BY <2>3, <3>1, <3>3, <3>4, Zenon DEF Own
  <2>5. "discard" \in Pcs \ {"idle", "next", "clear"} /\ cur.op \in OpsAt("discard")
    BY Zenon DEF Pcs, Calls, OpsAt
  <2>6. d.sound /\ d.held => CourseAt(box', "discard", c, cur.id, d.stopped)
    BY Zenon DEF CourseAt
  <2> QED BY <2>2, <2>4, <2>5, <2>6, GoStep, Zenon
<1> QED BY <1>1, <1>2, Zenon

-----------------------------------------------------------------------------
(* A call that is answered. *)

\* The call of a Deploy ends with res and c: what it then knows of the containers, and
\* which calls of a sound Deploy are still in flight.
Outcome(res, c) ==
  /\ d.pc \in Calls /\ d' = Answer(res, c)
  /\ Containers \subseteq Containers'
  /\ \A x \in Containers : box'[x].kind = box[x].kind
  /\ \A x : UpIn(box, x) /\ ~(Request.what = "stop" /\ Request.id = x) => UpIn(box', x)
  /\ res \in {"ok", "error", "notfound"} /\ c \in Nat
  /\ res = "notfound" => Request.what # "create" /\ Request.id \notin Present
  /\ res = "ok" /\ Request.what = "start" =>
       Request.id \in Containers /\ box'[Request.id].run \in Active
  /\ res = "ok" /\ Request.what = "create" =>
       /\ c \in Containers' /\ box'[c].kind = Request.body.kind
       /\ \/ c \notin Containers
          \/ c \in Containers /\ Request.body.key # NoKey /\ box[c].key = Request.body.key
  /\ d.sound => \A m \in Machines : ~Admitted(m)' =>
       /\ m = Request.on /\ res = "error"
       /\ \/ flight'[m] = Request
          \/ d.pc = "discard" /\ flight'[m] = StartCall(m, d.new)
          \/ d.pc = "restore" /\ flight'[m].id # cur.id

\* What holds at every call.
LEMMA AtCall ==
  ASSUME EngineInv, d.pc \in Calls
  PROVE  /\ d \in Deploys /\ d.plan # <<>> /\ d.result = "running" /\ Base
         /\ cur.op \in OpsAt(d.pc) /\ (d.held => cur.op = "replace")
         /\ cur.on \in Machines /\ cur.id \in Nat /\ d.new \in Nat /\ d.err \in Errors
         /\ cur.op = "replace" => cur.id \in Containers /\ box[cur.id].kind = "service"
         /\ d.pc # "clear" => Request.on = cur.on
<1>1. d.pc \notin {"idle", "next"}
  BY Zenon DEF Calls
<1>2. /\ d \in Deploys /\ d.plan # <<>> /\ d.result = "running" /\ Base
      /\ cur.op \in OpsAt(d.pc) /\ (d.held => cur.op = "replace")
  BY <1>1, Zenon DEF EngineInv, Typed, Staged
<1>3. d.new \in Nat /\ d.err \in Errors
  BY <1>2, Zenon DEF Deploys, Errors
<1> QED BY <1>2, <1>3, CurIs, RequestTyped, Zenon DEF EngineInv

\* Every outcome of a call keeps the invariant.
LEMMA OutcomeKept ==
  ASSUME EngineInv, NEW res, NEW c, Outcome(res, c)
  PROVE  Kept
\* Operations that are not replacements.
<1>plain. CASE d.pc \in {"stop", "remove", "interrupt"}
  <2> USE <1>plain
  <2>1. /\ d \in Deploys /\ d.plan # <<>> /\ d.result = "running" /\ cur.op \in OpsAt(d.pc)
        /\ (d.held => cur.op = "replace") /\ d' = Answer(res, c)
        /\ (d.sound /\ res # "error" => Settled')
    BY AtCall, Zenon DEF Outcome, Settled
  <2>2. cur.op # "replace" /\ ~d.held
    BY <2>1, Zenon DEF OpsAt
  <2>3. {"stop", "remove", "hook"} \subseteq Errors
    BY Zenon DEF Errors
  <2>4. ASSUME NEW e \in Errors, d' = Fail(e) PROVE Kept
    BY <2>1, <2>2, <2>4, FailIs, FailStep, Zenon
  <2>5. ASSUME d' = Done, res # "error" PROVE Kept
    BY <2>1, <2>2, <2>5, DoneStep, Zenon
  <2>6. ASSUME NEW pc \in {"remove", "dropped"}, d' = Go(pc), cur.op \in OpsAt(pc), res # "error"
        PROVE  Kept
    <3>1. pc \in Pcs \ {"idle", "next", "clear"} /\ pc \in Pcs /\ pc \notin Fresh \cup {"retire"}
      BY Zenon DEF Pcs, Calls, Fresh
    <3>2. At(d', pc, d.new, d.stopped)
      BY <2>1, <2>6, <3>1, GoIs, Zenon
    <3>3. Own'
      BY <2>1, <2>6, <3>2, SettledOwn, Zenon DEF At
    <3> QED BY <2>1, <2>2, <2>6, <3>1, <3>2, <3>3, GoStep, Zenon
  <2>7. CASE d.pc = "stop"
    <3>1. \/ d' = Fail("stop")
          \/ res # "error" /\ d' = Done
          \/ res # "error" /\ d' = Go("remove") /\ cur.op = "remove"
      BY <2>1, <2>7 DEF Answer
    <3>2. cur.op = "remove" => cur.op \in OpsAt("remove")
      BY Zenon DEF OpsAt
    <3> QED BY <2>3, <2>4, <2>5, <2>6, <3>1, <3>2, Zenon
  <2>8. CASE d.pc = "remove"
    <3>1. d' = Fail("remove") \/ (res # "error" /\ d' = Go("dropped"))
      BY <2>1, <2>8 DEF Answer
    <3>2. cur.op \in OpsAt("dropped")
      BY <2>1, <2>8, Zenon DEF OpsAt
    <3> QED BY <2>3, <2>4, <2>6, <3>1, <3>2, Zenon
  <2>9. CASE d.pc = "interrupt"
    <3>1. d' = Fail("hook")
      BY <2>1, <2>9, Zenon DEF Answer
    <3> QED BY <2>3, <2>4, <3>1, Zenon
  <2> QED BY <2>7, <2>8, <2>9, Zenon
\* The answer to a create keeps the invariant: the container is not the old one.
<1>create. CASE d.pc = "create"
  <2> USE <1>create
  <2>1. /\ d \in Deploys /\ d.plan # <<>> /\ d.result = "running" /\ cur.op \in OpsAt(d.pc)
        /\ (d.held => cur.op = "replace") /\ cur.id \in Nat /\ Request.on = cur.on
        /\ cur.op = "replace" => cur.id \in Containers
    BY AtCall, Zenon DEF Calls
  <2>o. /\ Containers \subseteq Containers' /\ d' = Answer(res, c)
        /\ \A x : UpIn(box, x) /\ ~(Request.what = "stop" /\ Request.id = x) => UpIn(box', x)
        /\ (d.sound /\ res # "error" => Settled')
        /\ d.sound => \A m \in Machines : ~Admitted(m)' => m = cur.on /\ flight'[m] = Request
    BY <2>1, Zenon DEF Outcome, Settled
  <2>2. cur.op \in {"run", "replace", "hook"}
    BY <2>1, Zenon DEF OpsAt
  <2>3. /\ Body \in Bodies /\ Body.key.old <= Len(box)
        /\ Body.kind = IF cur.op = "hook" THEN "hook" ELSE "service"
        /\ Body.key # NoKey /\ cur.op = "replace" => Body.key.old = cur.id
    BY <2>1, <2>2, BodyIs, Zenon DEF EngineInv, Typed
  <2>4. Request = CreateCall(cur.on, Body) /\ cur.on \in Machines
    BY <2>1, RequestIs, CurIs, Zenon
  <2>5. Request.what = "create" /\ Request.body = Body
    <3>1. CreateCall(cur.on, Body).what = "create" /\ CreateCall(cur.on, Body).body = Body
      BY Zenon DEF CreateCall
    <3> QED BY <2>4, <3>1, Zenon
  <2>6. d.sound /\ d.held => d.stopped \/ UpIn(box', cur.id)
    BY <2>o, <2>5, Zenon DEF EngineInv, Course, CourseAt
  <2>7. ASSUME res # "error"
        PROVE  /\ c \in Nat /\ c \in Containers'
               /\ cur.op # "hook" => box'[c].kind = "service"
               /\ cur.op = "replace" => c # cur.id
    <3>1. /\ res = "ok" /\ c \in Nat /\ c \in DOMAIN box'
          /\ box'[c].kind = Body.kind
          /\ \/ c \notin Containers
             \/ c \in Containers /\ Body.key # NoKey /\ box[c].key = Body.key
      BY <2>5, <2>7, Zenon DEF Outcome, Containers
    <3>2. ASSUME cur.op = "replace" PROVE c # cur.id
      <4>1. cur.id \in Containers /\ cur.id \in Nat
        BY <2>1, <3>2, CurIs, Zenon
      <4>2. c \in Containers => box[c].key.old = cur.id
        BY <2>3, <3>1, <3>2, Zenon
      <4>3. c \in Containers => box[c].key.old < c
        BY Zenon DEF EngineInv, Typed, Base, Older, Containers
      <4>4. \A x \in Nat : ~(x < x)
        OBVIOUS
      <4> QED BY <4>1, <4>2, <4>3, <4>4, Zenon
    <3> QED BY <2>1, <2>3, <3>1, <3>2, Zenon DEF Containers
  <2>8. {"create", "cancelled"} \subseteq Errors /\ 0 \in Nat
    BY Zenon DEF Errors
  <2>9. CASE res = "error"
    <3>1. PICK e \in {"create", "cancelled"} : d' = Broken(0, e)
      BY <2>o, <2>9, Zenon DEF Answer
    <3>2. Request.id = 0
      BY <2>4, Zenon DEF CreateCall
    <3>3. cur.op = "replace" => cur.id # 0
      BY <2>1, ContainersAre, Zenon DEF EngineInv, Typed, Base
    <3>4. d.sound /\ cur.op = "replace" => \A m \in Machines : ~Admitted(m)' =>
            m = cur.on /\ flight'[m].id # cur.id
      BY <2>o, <3>2, <3>3, Zenon
    <3> QED BY <2>1, <2>6, <2>8, <3>1, <3>4, BrokenStep, Zenon
  <2>10. CASE res # "error" /\ d.cancelled
    <3>1. d' = Discard(c, "cancelled")
      BY <2>o, <2>10, Zenon DEF Answer
    <3> QED BY <2>1, <2>o, <2>2, <2>6, <2>7, <2>8, <2>10, <3>1, DiscardStep, Zenon DEF Settled
  <2>11. CASE res # "error" /\ ~d.cancelled
    <3>1. d' = [Go("start") EXCEPT !.new = c]
      BY <2>o, <2>11, Zenon DEF Answer
    <3>2. "start" \in Pcs \ {"idle", "next", "clear"} /\ cur.op \in OpsAt("start")
      BY <2>2, Zenon DEF Pcs, Calls, OpsAt
    <3>3. At(d', "start", c, d.stopped)
      <4>1. At(Go("start"), "start", d.new, d.stopped)
        BY <2>1, <3>2, GoIs, Zenon
      <4>2. d' \in Deploys
        BY <2>7, <2>11, <3>1, <4>1, Zenon DEF At, Deploys
      <4> QED BY <3>1, <4>1, <4>2 DEF At, Deploys
    <3>4. Own'
      BY <2>o, <2>11, <3>3, SettledOwn, Zenon DEF At
    <3>5. d.sound /\ d.held => CourseAt(box', "start", c, cur.id, d.stopped)
      BY <2>6, Zenon DEF CourseAt
    <3> QED BY <2>1, <2>7, <2>11, <3>2, <3>3, <3>4, <3>5, GoStep, Zenon
  <2> QED BY <2>9, <2>10, <2>11, Zenon
\* What every call but create and clear knows.
<1>facts. ASSUME d.pc # "clear"
          PROVE  /\ d \in Deploys /\ d.plan # <<>> /\ d.result = "running" /\ cur.op \in OpsAt(d.pc)
                 /\ (d.held => cur.op = "replace")
                 /\ cur.id \in Nat /\ d.new \in Nat /\ d.err \in Errors
                 /\ (cur.op = "replace" =>
                       cur.id \in Containers /\ cur.id \in Containers'
                         /\ box'[cur.id].kind = "service")
                 /\ d' = Answer(res, c) /\ res \in {"ok", "error", "notfound"}
                 /\ (d.sound /\ res # "error" => Settled')
                 /\ (d.sound => \A m \in Machines : ~Admitted(m)' =>
                      /\ m = cur.on
                      /\ \/ flight'[m] = Request
                         \/ d.pc = "discard" /\ flight'[m] = StartCall(m, d.new)
                         \/ d.pc = "restore" /\ flight'[m].id # cur.id)
                 /\ \A x : UpIn(box, x) /\ ~(Request.what = "stop" /\ Request.id = x) =>
                      UpIn(box', x)
                 /\ (d.pc \in Fresh \cup {"retire"} /\ cur.op = "replace" => d.new # cur.id)
                 /\ (d.pc \in Fresh => d.new \in Containers')
                 /\ (d.pc \in Fresh /\ cur.op # "hook" => box'[d.new].kind = "service")
                 /\ (d.sound /\ d.held => CourseAt(box, d.pc, d.new, cur.id, d.stopped))
  <2> USE <1>facts
  <2>1. d.pc \in Calls
    BY Zenon DEF Outcome
  <2>2. /\ d \in Deploys /\ d.plan # <<>> /\ d.result = "running" /\ cur.op \in OpsAt(d.pc)
        /\ (d.held => cur.op = "replace") /\ cur.id \in Nat /\ d.new \in Nat /\ d.err \in Errors
        /\ (cur.op = "replace" => cur.id \in Containers /\ box[cur.id].kind = "service")
        /\ Request.on = cur.on
    BY <2>1, AtCall, Zenon
  <2>3. Containers \subseteq Containers' /\ \A x \in Containers : box'[x].kind = box[x].kind
    BY Zenon DEF Outcome
  <2>4. /\ d' = Answer(res, c) /\ res \in {"ok", "error", "notfound"}
        /\ (d.sound /\ res # "error" => Settled')
        /\ \A x : UpIn(box, x) /\ ~(Request.what = "stop" /\ Request.id = x) => UpIn(box', x)
    BY Zenon DEF Outcome, Settled
  <2>5. d.sound => \A m \in Machines : ~Admitted(m)' =>
                /\ m = cur.on
                /\ \/ flight'[m] = Request
                   \/ d.pc = "discard" /\ flight'[m] = StartCall(m, d.new)
                   \/ d.pc = "restore" /\ flight'[m].id # cur.id
    BY <2>2, Zenon DEF Outcome
  <2>6. /\ (d.pc \in Fresh \cup {"retire"} /\ cur.op = "replace" => d.new # cur.id)
        /\ (d.pc \in Fresh => d.new \in Containers)
        /\ (d.pc \in Fresh /\ cur.op # "hook" => box[d.new].kind = "service")
    BY Zenon DEF EngineInv, Staged
  <2>7. d.sound /\ d.held => CourseAt(box, d.pc, d.new, cur.id, d.stopped)
    BY Zenon DEF EngineInv, Course
  <2> QED BY <2>2, <2>3, <2>4, <2>5, <2>6, <2>7, Zenon
\* An operation goes on at pc once its call was answered.
<1>go. ASSUME d.pc # "clear", NEW pc \in Pcs \ {"idle", "next", "clear"}, NEW stopped,
              At(d', pc, d.new, stopped), cur.op \in OpsAt(pc), pc \in Fresh => d.pc \in Fresh,
              pc = "retire" => d.pc \in Fresh, res # "error" \/ Own',
              d.sound /\ d.held => CourseAt(box', pc, d.new, cur.id, stopped)
       PROVE  Kept
  <2> USE <1>go
  <2>1. /\ d.plan # <<>> /\ d.result = "running"
        /\ (d.held => cur.op = "replace")
        /\ (d.sound /\ res # "error" => Settled')
        /\ (d.pc \in Fresh \cup {"retire"} /\ cur.op = "replace" => d.new # cur.id)
        /\ (d.pc \in Fresh => d.new \in Containers')
        /\ (d.pc \in Fresh /\ cur.op # "hook" => box'[d.new].kind = "service")
    BY <1>facts, Zenon
  <2>2. Own'
    BY <2>1, SettledOwn, Zenon DEF At
  <2>3. /\ (pc \in Fresh =>
               d.new \in Containers' /\ (cur.op # "hook" => box'[d.new].kind = "service"))
        /\ (pc \in Fresh \cup {"retire"} /\ cur.op = "replace" => d.new # cur.id)
    BY <2>1, Zenon
  <2> QED BY <2>1, <2>2, <2>3, GoStep, Zenon
\* The answer to a start keeps the invariant.
<1>start. CASE d.pc = "start"
  <2> USE <1>start
  <2>0. d.pc \in Fresh /\ d.pc # "clear" /\ d.pc # "discard" /\ d.pc # "restore"
    BY Zenon DEF Fresh
  <2>1. /\ d \in Deploys /\ d.plan # <<>> /\ d.result = "running" /\ cur.op \in OpsAt(d.pc)
        /\ (d.held => cur.op = "replace") /\ d.new \in Nat
        /\ d' = Answer(res, c) /\ res \in {"ok", "error", "notfound"}
        /\ (cur.op = "replace" => d.new # cur.id)
        /\ d.new \in Containers' /\ (cur.op # "hook" => box'[d.new].kind = "service")
    BY <2>0, <1>facts, Zenon
  <2>2. cur.op \in {"run", "replace", "hook"}
    BY <2>1, Zenon DEF OpsAt
  <2>3. Request = StartCall(cur.on, d.new)
    BY RequestIs, Zenon
  <2>4. Request.what = "start" /\ Request.id = d.new
    BY <2>3, Zenon DEF StartCall
  <2>5. d.sound /\ d.held => d.stopped \/ UpIn(box', cur.id)
    <3>1. d.sound /\ d.held => d.stopped \/ UpIn(box, cur.id)
      BY <2>0, <1>facts, Zenon DEF CourseAt
    <3> QED BY <2>0, <2>4, <3>1, <1>facts, Zenon
  <2>6. CASE res # "ok"
    <3>1. d' = Discard(d.new, "start") /\ "start" \in Errors
      BY <2>1, <2>6, Zenon DEF Answer, Errors
    <3>2. d.sound => \A m \in Machines : ~Admitted(m)' =>
            m = cur.on /\ flight'[m] = StartCall(m, d.new)
      BY <2>0, <2>3, <1>facts, Zenon
    <3> QED BY <2>1, <2>2, <2>5, <3>1, <3>2, DiscardStep, Zenon
  <2>7. CASE res = "ok"
    <3>1. d' = Go(after_start)
      BY <2>1, <2>7, Zenon DEF Answer
    <3> DEFINE pc == after_start
    <3>2. /\ pc \in Pcs \ {"idle", "next", "clear"} /\ pc \in Pcs /\ pc # "retire"
          /\ cur.op \in OpsAt(pc) /\ pc \in {"await", "monitor"}
          /\ (cur.op = "replace" => pc = "monitor")
      BY <2>2, Zenon DEF after_start, Pcs, OpsAt
    <3>3. At(d', pc, d.new, d.stopped)
      BY <2>1, <3>1, <3>2, GoIs, Zenon
    <3>4. box'[d.new].run \in Active
      BY <2>4, <2>7, Zenon DEF Outcome
    <3>5. d.sound /\ d.held => UpIn(box', d.new)
      BY <2>1, <3>4, Zenon DEF UpIn, Containers
    <3>6. d.sound /\ d.held => CourseAt(box', pc, d.new, cur.id, d.stopped)
      BY <2>5, <3>2, <3>5, Zenon DEF CourseAt
    <3>7. res # "error"
      BY <2>7
    <3> HIDE DEF pc
    <3> QED BY <2>0, <3>2, <3>3, <3>6, <3>7, <1>go, Zenon
  <2> QED BY <2>6, <2>7, Zenon
\* The answer to the removal of a discarded container keeps the invariant.
<1>discard. CASE d.pc = "discard"
  <2> USE <1>discard
  <2>0. d.pc \in Fresh /\ d.pc # "clear" /\ d.pc # "restore"
    BY Zenon DEF Fresh
  <2>1. /\ d \in Deploys /\ d.plan # <<>> /\ d.result = "running"
        /\ (d.held => cur.op = "replace") /\ d.err \in Errors
        /\ d' = Answer(res, c) /\ (cur.op = "replace" => d.new # cur.id)
    BY <2>0, <1>facts, Zenon
  <2>2. Request = RemoveCall(cur.on, d.new)
    BY RequestIs, Zenon
  <2>3. Request.what # "stop" /\ Request.id = d.new /\ \A m : StartCall(m, d.new).id = d.new
    BY <2>2 DEF RemoveCall, StartCall
  <2>4. d.sound /\ d.held => d.stopped \/ UpIn(box', cur.id)
    <3>1. d.sound /\ d.held => d.stopped \/ UpIn(box, cur.id)
      BY <2>0, <1>facts, Zenon DEF CourseAt
    <3> QED BY <2>0, <2>3, <3>1, <1>facts, Zenon
  <2>5. d' = Broken(0, d.err) /\ 0 \in Nat
    BY <2>1, Zenon DEF Answer
  <2>6. d.sound /\ cur.op = "replace" => \A m \in Machines : ~Admitted(m)' =>
          m = cur.on /\ flight'[m].id # cur.id
    <3>1. d.sound => \A m \in Machines : ~Admitted(m)' => m = cur.on /\ flight'[m].id = d.new
      BY <2>0, <2>3, <1>facts, ZenonT(30)
    <3> QED BY <2>1, <3>1, Zenon
  <2> QED BY <2>1, <2>4, <2>5, <2>6, BrokenStep, Zenon
\* The calls of a replacement that concern the old container.
<1>old. CASE d.pc \in {"stop_old", "retire", "remove_old"}
  <2> USE <1>old
  <2>0. d.pc \notin {"clear", "discard", "restore"} /\ {"stop", "remove"} \subseteq Errors
    BY Zenon DEF Errors
  <2>1. /\ d \in Deploys /\ cur.op \in OpsAt(d.pc) /\ (d.held => cur.op = "replace")
        /\ d' = Answer(res, c) /\ res \in {"ok", "error", "notfound"}
        /\ \A x : UpIn(box, x) /\ ~(Request.what = "stop" /\ Request.id = x) => UpIn(box', x)
    BY <2>0, <1>facts, Zenon
  <2>2. cur.op = "replace"
    BY <2>1, Zenon DEF OpsAt
  <2>3. d.sound /\ d.held => CourseAt(box, d.pc, d.new, cur.id, d.stopped)
    BY <2>0, <1>facts, Zenon
  <2>4. ASSUME d' = Fail("stop") PROVE Kept
    BY <2>0, <2>1, <2>4, FailIs, FailStep, Zenon DEF ToldBy
  <2>5. ASSUME NEW pc \in {"create", "remove_old", "dropped"}
        PROVE  /\ pc \in Pcs \ {"idle", "next", "clear"} /\ pc \in Pcs /\ pc \notin Fresh
               /\ pc # "retire" /\ cur.op \in OpsAt(pc)
    BY <2>2, Zenon DEF Pcs, Calls, OpsAt, Fresh
  <2>6. CASE d.pc = "stop_old"
    <3>1. d' = Fail("stop") \/ (res # "error" /\ d' = [Go("create") EXCEPT !.stopped = res = "ok"])
      BY <2>1, <2>6 DEF Answer
    <3>2. ASSUME res # "error", d' = [Go("create") EXCEPT !.stopped = res = "ok"]
          PROVE  Kept
      <4> DEFINE stopped == res = "ok"
      <4>1. stopped \in BOOLEAN
        BY Zenon
      <4>2. At(Go("create"), "create", d.new, d.stopped)
        BY <2>1, <2>5, GoIs, Zenon
      <4>3. At(d', "create", d.new, stopped)
        <5> HIDE DEF stopped
        <5>0. d' = [Go("create") EXCEPT !.stopped = stopped]
          BY <3>2, Zenon DEF stopped
        <5>1. d' \in Deploys
          BY <4>1, <4>2, <5>0, Zenon DEF At, Deploys
        <5> QED BY <4>2, <5>0, <5>1 DEF At, Deploys
      <4>4. d.sound /\ d.held => stopped
        <5>1. Request.id = cur.id
          <6>1. Request = StopCall(cur.on, cur.id)
            BY <2>6, RequestIs, Zenon
          <6> QED BY <6>1, Zenon DEF StopCall
        <5>2. res = "notfound" => cur.id \notin Present
          BY <5>1, Zenon DEF Outcome
        <5>3. d.sound /\ d.held => cur.id \in Present
          BY <2>3, <2>6, Zenon DEF CourseAt, Present, Containers
        <5> QED BY <2>1, <3>2, <5>2, <5>3, Zenon
      <4>5. d.sound /\ d.held => CourseAt(box', "create", d.new, cur.id, stopped)
        BY <4>4, Zenon DEF CourseAt
      <4> HIDE DEF stopped
      <4> QED BY <2>0, <2>5, <3>2, <4>3, <4>5, <1>go, Zenon
    <3> QED BY <2>4, <3>1, <3>2, Zenon
  <2>7. CASE d.pc = "retire"
    <3>1. d' = Fail("stop") \/ (res # "error" /\ d' = Go("remove_old"))
      BY <2>1, <2>7 DEF Answer
    <3>2. ASSUME res # "error", d' = Go("remove_old") PROVE Kept
      <4>1. At(d', "remove_old", d.new, d.stopped)
        BY <2>1, <2>5, <3>2, GoIs, Zenon
      <4>2. d.new # cur.id
        BY <2>0, <2>2, <2>7, <1>facts, Zenon
      <4>3. Request.id = cur.id
        <5>1. Request = StopCall(cur.on, cur.id)
          BY <2>7, RequestIs, Zenon
        <5> QED BY <5>1, Zenon DEF StopCall
      <4>4. d.sound /\ d.held => UpIn(box', d.new)
        BY <2>1, <2>3, <2>7, <4>2, <4>3, Zenon DEF CourseAt
      <4>5. d.sound /\ d.held => CourseAt(box', "remove_old", d.new, cur.id, d.stopped)
        BY <4>4, Zenon DEF CourseAt
      <4> QED BY <2>0, <2>5, <3>2, <4>1, <4>5, <1>go, Zenon
    <3> QED BY <2>4, <3>1, <3>2, Zenon
  <2>8. CASE d.pc = "remove_old"
    <3>1. d' = Fail("remove") \/ (res # "error" /\ d' = Go("dropped"))
      BY <2>1, <2>8 DEF Answer
    <3>2. Request = RemoveCall(cur.on, cur.id)
      BY <2>8, RequestIs, Zenon
    <3>3. Request.what # "stop"
      BY <3>2 DEF RemoveCall
    <3>4. d.sound /\ d.held => UpIn(box', d.new)
      BY <2>1, <2>3, <2>8, <3>3, Zenon DEF CourseAt
    <3>5. CASE d' = Fail("remove")
      <4>1. \A m \in Machines : NoCall(m).what # "stop"
        BY DEF NoCall
      <4>2. d.sound => \A m \in Machines : ~Admitted(m)' => flight'[m] = Request
        BY <2>0, <1>facts, Zenon
      <4>3. d.sound => \A m \in Machines : flight'[m].what # "stop"
        BY <3>3, <4>1, <4>2, Zenon DEF Admitted
      <4> QED BY <2>0, <2>1, <3>4, <3>5, <4>3, FailIs, FailStep, Zenon DEF ToldBy
    <3>6. ASSUME res # "error", d' = Go("dropped") PROVE Kept
      <4>1. At(d', "dropped", d.new, d.stopped)
        BY <2>1, <2>5, <3>6, GoIs, Zenon
      <4>2. d.sound /\ d.held => CourseAt(box', "dropped", d.new, cur.id, d.stopped)
        BY <3>4, Zenon DEF CourseAt
      <4> QED BY <2>0, <2>5, <3>6, <4>1, <4>2, <1>go, Zenon
    <3> QED BY <3>1, <3>5, <3>6, Zenon
  <2> QED BY <2>6, <2>7, <2>8, Zenon
\* The calls that undo a replacement.
<1>undo. CASE d.pc \in {"stop_new", "restore"}
  <2> USE <1>undo
  <2>0. d.pc \notin {"clear", "discard"}
    BY Zenon
  <2>1. /\ d \in Deploys /\ cur.op \in OpsAt(d.pc) /\ (d.held => cur.op = "replace")
        /\ d' = Answer(res, c) /\ d.err \in Errors
        /\ \A x : UpIn(box, x) /\ ~(Request.what = "stop" /\ Request.id = x) => UpIn(box', x)
    BY <2>0, <1>facts, Zenon
  <2>2. cur.op = "replace"
    BY <2>1, Zenon DEF OpsAt
  <2>3. d.sound /\ d.held => CourseAt(box, d.pc, d.new, cur.id, d.stopped)
    BY <2>0, <1>facts, Zenon
  <2>5. ASSUME NEW pc \in {"restore", "restored"}
        PROVE  /\ pc \in Pcs \ {"idle", "next", "clear"} /\ pc \in Pcs /\ pc \notin Fresh
               /\ pc # "retire" /\ cur.op \in OpsAt(pc)
    BY <2>2, Zenon DEF Pcs, Calls, OpsAt, Fresh
  <2>6. CASE d.pc = "stop_new"
    <3>0. d.new # cur.id
      BY <2>0, <2>2, <2>6, <1>facts, Zenon DEF Fresh
    <3>1. Request.id = d.new
      <4>1. Request = StopCall(cur.on, d.new)
        BY <2>6, RequestIs, Zenon
      <4> QED BY <4>1, Zenon DEF StopCall
    <3>2. d.sound => \A m \in Machines : ~Admitted(m)' =>
            m = cur.on /\ flight'[m] = Request /\ flight'[m].id # cur.id
      BY <2>0, <2>6, <3>0, <3>1, <1>facts, Zenon
    <3>3. CASE d.stopped
      <4>1. d' = Go("restore")
        BY <2>1, <2>6, <3>3, Zenon DEF Answer
      <4>2. At(d', "restore", d.new, d.stopped)
        BY <2>1, <2>5, <4>1, GoIs, Zenon
      <4>3. Own'
        <5>1. d'.plan = d.plan /\ d'.sound = d.sound /\ d'.pc = "restore"
          BY <4>2, Zenon DEF At
        <5>2. cur' = cur
          BY <5>1, Zenon DEF cur
        <5>3. Request' = StartCall(cur.on, cur.id)
          BY <5>1, <5>2, Zenon DEF Request
        <5>4. Request'.on = cur.on
          BY <5>3, Zenon DEF StartCall
        <5>5. d'.pc \in Calls \ {"create"}
          BY <5>1, Zenon DEF Calls
        <5> QED BY <3>2, <5>1, <5>2, <5>4, <5>5, Zenon DEF Own
      <4>4. CourseAt(box', "restore", d.new, cur.id, d.stopped)
        BY Zenon DEF CourseAt
      <4> QED BY <2>0, <2>5, <4>2, <4>3, <4>4, <1>go, Zenon
    <3>4. CASE ~d.stopped
      <4>1. d' = Fail(d.err)
        BY <2>1, <2>6, <3>4, Zenon DEF Answer, Fail
      <4>2. d.sound /\ d.held => UpIn(box', cur.id)
        <5>1. d.sound /\ d.held => UpIn(box, cur.id)
          BY <2>3, <2>6, <3>4, Zenon DEF CourseAt
        <5> QED BY <2>1, <3>0, <3>1, <5>1, Zenon
      <4>3. \A m \in Machines : NoCall(m).what # "stop"
        BY DEF NoCall
      <4>4. d.sound => \A m \in Machines : flight'[m].what = "stop" => flight'[m].id # cur.id
        BY <3>2, <4>3, Zenon DEF Admitted
      <4> QED BY <2>1, <4>1, <4>2, <4>4, FailIs, FailStep, Zenon DEF ToldBy
    <3> QED BY <3>3, <3>4, Zenon
  <2>7. CASE d.pc = "restore"
    <3>1. CASE res = "ok"
      <4>0. res # "error"
        BY <3>1
      <4>1. d' = Go("restored")
        BY <2>1, <2>7, <3>1, Zenon DEF Answer
      <4>2. At(d', "restored", d.new, d.stopped)
        BY <2>1, <2>5, <4>1, GoIs, Zenon
      <4>3. Request.id = cur.id /\ Request.what = "start"
        <5>1. Request = StartCall(cur.on, cur.id)
          BY <2>7, RequestIs, Zenon
        <5> QED BY <5>1, Zenon DEF StartCall
      <4>4. box'[cur.id].run \in Active
        BY <3>1, <4>3, Zenon DEF Outcome
      <4>5. cur.id \in Containers' /\ box'[cur.id].kind = "service"
        BY <2>0, <2>2, <1>facts, Zenon
      <4>6. CourseAt(box', "restored", d.new, cur.id, d.stopped)
        BY <4>4, <4>5, Zenon DEF CourseAt, UpIn, Containers
      <4> QED BY <2>0, <2>5, <4>0, <4>2, <4>6, <1>go, Zenon
    <3>2. CASE res # "ok"
      <4>1. d' = Undone("failed")
        BY <2>1, <2>7, <3>2, Zenon DEF Answer
      <4> QED BY <2>1, <4>1, UndoneIs, FailStep, Zenon DEF ToldBy
    <3> QED BY <3>1, <3>2, Zenon
  <2> QED BY <2>6, <2>7, Zenon
\* A hook's operation with one of its old hooks removed.
<1>tail. ASSUME d \in Deploys, d.plan # <<>>, cur.olds # <<>>, cur.op = "hook",
                NEW pc \in {"create", "clear"}
         PROVE  LET o == [cur EXCEPT !.olds = Tail(@)]
                    p == [Go(pc) EXCEPT !.plan[1].olds = Tail(@)]
                IN /\ p \in Deploys /\ p.pc = pc /\ p.result = d.result /\ p.held = d.held
                   /\ p.sound = d.sound /\ p.plan # <<>> /\ Head(p.plan) = o
                   /\ o.op = "hook" /\ o.olds = Tail(cur.olds)
  <2> USE <1>tail
  <2> DEFINE o == [cur EXCEPT !.olds = Tail(cur.olds)]
             plan == [d.plan EXCEPT ![1] = o]
  <2>1. pc \in Pcs
    BY Zenon DEF Pcs, Calls
  <2>2. At(Go(pc), pc, d.new, d.stopped)
    BY <2>1, GoIs, Zenon
  <2>3. d.plan \in Seq(Sane) /\ cur \in Sane /\ cur.olds \in Seq(Containers) /\ cur = d.plan[1]
        /\ 1 \in DOMAIN d.plan
    <3>1. d.plan \in Seq(Sane)
      BY Zenon DEF Deploys
    <3> QED BY <3>1, CurIs DEF cur
  <2>4. Tail(cur.olds) \in Seq(Containers)
    BY <2>3
  <2>5. o \in Sane /\ o.op = "hook" /\ o.olds = Tail(cur.olds)
    <3> DEFINE t == Tail(cur.olds)
    <3>1. cur \in Ops /\ cur.rev \in Revisions
      BY <2>3, Zenon DEF Sane
    <3>2. Tail(cur.olds) \in Seq(Nat)
      <4>1. cur.olds \in Seq(Nat)
        BY <3>1, Zenon DEF Ops
      <4> QED BY <4>1
    <3>3. t \in Seq(Nat) /\ t \in Seq(Containers) /\ o = [cur EXCEPT !.olds = t]
      BY <2>4, <3>2, Zenon
    <3> HIDE DEF o, t
    <3>4. o \in Ops /\ o.op = cur.op /\ o.olds = t /\ o.rev = cur.rev
      BY <3>1, <3>3, SMTT(30) DEF Ops
    <3> QED BY <3>1, <3>3, <3>4, Zenon DEF Sane, t
  <2>6. [Go(pc) EXCEPT !.plan[1].olds = Tail(@)] = [Go(pc) EXCEPT !.plan = plan]
    <3>1. Go(pc).plan = d.plan
      BY <2>2, Zenon DEF At
    <3> QED BY <2>3, <3>1, Zenon
  <2> HIDE DEF o
  <2>7. plan \in Seq(Sane) /\ plan # <<>> /\ Head(plan) = o
    BY <2>3, <2>5
  <2> HIDE DEF plan
  <2> DEFINE p == [Go(pc) EXCEPT !.plan = plan]
  <2>8. p \in Deploys
    BY <2>2, <2>7, Zenon DEF At, Deploys
  <2>9. p.pc = pc /\ p.result = d.result /\ p.held = d.held /\ p.sound = d.sound /\ p.plan = plan
    BY <2>2, <2>8 DEF At, Deploys
  <2> HIDE DEF p
  <2>10. [cur EXCEPT !.olds = Tail(@)] = o
    BY Zenon DEF o
  <2> QED BY <2>5, <2>6, <2>7, <2>8, <2>9, <2>10, Zenon DEF p
\* The answer to the removal of an old hook keeps the invariant.
<1>clear. CASE d.pc = "clear"
  <2> USE <1>clear
  <2>1. /\ d \in Deploys /\ d.plan # <<>> /\ d.result = "running" /\ cur.op \in OpsAt(d.pc)
        /\ (d.held => cur.op = "replace")
    BY AtCall, Zenon DEF Calls
  <2>2. cur.op = "hook" /\ ~d.held
    BY <2>1, Zenon DEF OpsAt
  <2>3. cur.olds # <<>> /\ cur.olds \in Seq(Containers)
    BY <2>1, CurIs, Zenon DEF EngineInv, Staged
  <2>4. d' = Answer(res, c) /\ (d.sound /\ res # "error" => Settled')
    BY Zenon DEF Outcome, Settled
  <2> DEFINE pc == IF Len(cur.olds) = 1 THEN "create" ELSE "clear"
  <2>5. \/ d' = Fail("remove")
        \/ res # "error" /\ d' = [Go(pc) EXCEPT !.plan[1].olds = Tail(@)]
    BY <2>4 DEF Answer
  <2>6. CASE d' = Fail("remove")
    <3>1. "remove" \in Errors
      BY Zenon DEF Errors
    <3> QED BY <2>1, <2>2, <2>6, <3>1, FailIs, FailStep, Zenon
  <2>7. CASE res # "error" /\ d' = [Go(pc) EXCEPT !.plan[1].olds = Tail(@)]
    <3>1. pc \in {"create", "clear"} /\ (pc = "clear" => Tail(cur.olds) # <<>>)
      <4>1. ASSUME NEW s \in Seq(Containers), s # <<>>, Len(s) # 1 PROVE Tail(s) # <<>>
        <5>1. Len(Tail(s)) = Len(s) - 1 /\ Len(s) \in Nat /\ Len(s) # 0
          BY <4>1
        <5>2. Len(Tail(s)) # 0
          BY <4>1, <5>1
        <5>3. Len(<<>>) = 0
          OBVIOUS
        <5> QED BY <5>2, <5>3, Zenon
      <4> QED BY <2>3, <4>1, Zenon
    <3> HIDE DEF pc
    <3>2. /\ d' \in Deploys /\ d'.pc = pc /\ d'.result = "running" /\ d'.held = d.held
          /\ d'.sound = d.sound /\ d'.plan # <<>>
          /\ Head(d'.plan).op = "hook" /\ Head(d'.plan).olds = Tail(cur.olds)
      BY <2>1, <2>2, <2>3, <2>7, <3>1, <1>tail, Zenon
    <3>3. cur'.op = "hook" /\ cur'.olds = Tail(cur.olds)
      BY <3>2, Zenon DEF cur
    <3>4. Own'
      BY <2>4, <2>7, <3>2, SettledOwn, Zenon
    <3>5. pc \notin Fresh \cup {"retire"} /\ cur'.op \in OpsAt(pc) /\ pc # "idle"
      BY <3>1, <3>3, Zenon DEF Fresh, OpsAt
    <3>6. Staged'
      BY <2>2, <3>1, <3>2, <3>3, <3>5, Zenon DEF Staged
    <3>7. Course' /\ Told'
      BY <2>2, <3>2, Zenon DEF Course, Told
    <3> QED BY <3>2, <3>4, <3>6, <3>7, Zenon DEF Kept
  <2> QED BY <2>5, <2>6, <2>7, Zenon
<1>1. d.pc \in Calls
  BY Zenon DEF Outcome
<1> QED BY <1>1, <1>plain, <1>create, <1>start, <1>discard, <1>old, <1>undo,
           <1>clear, Zenon DEF Calls

\* A step of a Deploy after which there are as many containers or more.
LEMMA KeptInv ==
  ASSUME EngineInv, Kept, Extends(box'), DOMAIN flight' = Machines,
         \A m \in Machines : Admitted(m)' \/ (flight'[m] \in Mutations /\ flight'[m].on = m),
         faults' \in 0..MaxFaults, service' = service
  PROVE  EngineInv'
\* With more containers a Deploy keeps its type.
<1>grow. ASSUME Sane \subseteq Sane'
         PROVE  Deploys \subseteq Deploys'
  <2> USE <1>grow
  <2>1. \A s \in Seq(Sane) : s \in Seq(Sane')
    OBVIOUS
  <2> QED BY <2>1, Zenon DEF Deploys
<1>1. Base' /\ Sane \subseteq Sane' /\ Mutations \subseteq Mutations'
  BY Grown, Zenon DEF EngineInv, Typed
<1>2. d' \in Deploys'
  BY <1>1, <1>grow, Zenon DEF Kept
<1>3. Typed'
  BY <1>1, <1>2, Zenon DEF EngineInv, Typed
<1> QED BY <1>3, Zenon DEF Kept, EngineInv

\* Answered keeps the invariant.
LEMMA AnsweredStep ==
  ASSUME EngineInv, Answered
  PROVE  EngineInv'
\* An answered call has an outcome.
<1>answer. \E res, c : Outcome(res, c) /\ Extends(box') /\ UNCHANGED <<flight, faults, service>>
  <2> DEFINE r == Perform(Request)
  <2>1. d.pc \in Calls /\ box' = r.box /\ d' = Answer(r.res, r.id) /\ Admitted(Request.on)
        /\ UNCHANGED <<flight, faults, service>>
    BY Zenon DEF Answered
  <2>2. d.pc # "idle" /\ Base
    BY <2>1, AtCall, Zenon DEF Calls
  <2>4. Effect(Request, r)
    BY <2>1, <2>2, RequestTyped, PerformEffect, Zenon DEF EngineInv
  <2> HIDE DEF r
  <2>5. Extends(box')
    BY <2>1, <2>4, Zenon DEF Effect
  <2>6. Containers \subseteq Containers' /\ \A c \in Containers : box'[c].kind = box[c].kind
    BY <2>2, <2>5, Grown, Zenon DEF Same
  <2>7. ASSUME NEW c, UpIn(box, c), ~(Request.what = "stop" /\ Request.id = c)
        PROVE  UpIn(box', c)
    <3>1. c \in Containers /\ is_active_runtime(c)
      BY <2>7, Zenon DEF UpIn, Containers, is_active_runtime
    <3>2. box'[c].run \in Active
      BY <2>1, <2>4, <2>7, <3>1, Zenon DEF Effect
    <3> QED BY <2>2, <2>5, <2>7, <3>2, StaysUp, Zenon
  <2>8. d.sound => \A m \in Machines : Admitted(m)'
    <3>1. d.sound => \A m \in Machines : Admitted(m)
      BY <2>1, <2>2, Zenon DEF EngineInv, Own
    <3> QED BY <2>1, <3>1, Zenon DEF Admitted
  <2>9. /\ r.res \in {"ok", "error", "notfound"} /\ r.id \in Nat
        /\ r.res = "notfound" => Request.what # "create" /\ Request.id \notin Present
        /\ r.res = "ok" /\ Request.what = "start" =>
             Request.id \in Containers /\ box'[Request.id].run \in Active
        /\ r.res = "ok" /\ Request.what = "create" =>
             /\ r.id \in Containers' /\ box'[r.id].kind = Request.body.kind
             /\ \/ r.id \notin Containers
                \/ r.id \in Containers /\ Request.body.key # NoKey
                     /\ box[r.id].key = Request.body.key
    BY <2>1, <2>4, Zenon DEF Effect, Containers
  <2>10. Outcome(r.res, r.id)
    BY <2>1, <2>6, <2>7, <2>8, <2>9, Zenon DEF Outcome
  <2> QED BY <2>1, <2>5, <2>10, Zenon
<1>1. PICK res, c : Outcome(res, c) /\ Extends(box') /\ UNCHANGED <<flight, faults, service>>
  BY <1>answer, Zenon
<1>2. Kept
  BY <1>1, OutcomeKept, Zenon
<1>3. /\ DOMAIN flight' = Machines /\ faults' \in 0..MaxFaults
      /\ \A m \in Machines : Admitted(m)' \/ (flight'[m] \in Mutations /\ flight'[m].on = m)
  BY <1>1, Zenon DEF EngineInv, Typed, Admitted
<1> QED BY <1>1, <1>2, <1>3, KeptInv, Zenon

-----------------------------------------------------------------------------
(* The other steps of a Deploy. *)

\* Containers that stay as they are.
LEMMA SameBox ==
  ASSUME EngineInv, box' = box
  PROVE  Extends(box') /\ Containers' = Containers
BY SameExtends, Zenon DEF EngineInv, Typed, Containers

\* The faults stay within their bound.
LEMMA Faulted ==
  ASSUME EngineInv, faults < MaxFaults, faults' = faults + 1
  PROVE  faults' \in 0..MaxFaults
<1>1. faults \in 0..MaxFaults /\ MaxFaults \in Nat
  BY RuntimeAssumption, Zenon DEF EngineInv, Typed
<1> QED BY <1>1

\* A call that gets into flight.
LEMMA Launched ==
  ASSUME EngineInv, NEW call \in Mutations, call.on \in Machines,
         UNCHANGED flight \/ flight' = [flight EXCEPT ![call.on] = call]
  PROVE  /\ DOMAIN flight' = Machines
         /\ \A m \in Machines : flight'[m] # flight[m] => m = call.on /\ flight'[m] = call
         /\ \A m \in Machines : Admitted(m)' \/ (flight'[m] \in Mutations /\ flight'[m].on = m)
<1>1. DOMAIN flight = Machines
      /\ \A m \in Machines : Admitted(m) \/ (flight[m] \in Mutations /\ flight[m].on = m)
  BY Zenon DEF EngineInv, Typed
<1>2. /\ DOMAIN flight' = Machines
      /\ \A m \in Machines : flight'[m] # flight[m] => m = call.on /\ flight'[m] = call
  BY <1>1, Zenon
<1>3. \A m \in Machines : flight'[m] = flight[m] => Admitted(m)' = Admitted(m)
  BY Zenon DEF Admitted
<1> QED BY <1>1, <1>2, <1>3, Zenon

\* Unanswered keeps the invariant, whether or not the Machine runs the call.
LEMMA UnansweredStep ==
  ASSUME EngineInv, Unanswered
  PROVE  EngineInv'
<1>1. /\ d.pc \in Calls /\ faults < MaxFaults /\ faults' = faults + 1
      /\ UNCHANGED <<box, service>>
      /\ UNCHANGED flight \/ (Admitted(Request.on)
           /\ flight' = [flight EXCEPT ![Request.on] = Request])
      /\ (d.pc # "create" /\ UNCHANGED d) \/ d' = Answer("error", 0)
  BY Zenon DEF Unanswered, MayRetry
<1>2. Request \in Mutations /\ Request.on \in Machines
  BY <1>1, RequestTyped, Zenon DEF EngineInv
<1>3. /\ DOMAIN flight' = Machines
      /\ \A m \in Machines : flight'[m] # flight[m] => m = Request.on /\ flight'[m] = Request
      /\ \A m \in Machines : Admitted(m)' \/ (flight'[m] \in Mutations /\ flight'[m].on = m)
  BY <1>1, <1>2, Launched, Zenon
<1>4. faults' \in 0..MaxFaults
  BY <1>1, Faulted, Zenon
<1>5. Extends(box') /\ Containers' = Containers
  BY <1>1, SameBox, Zenon
<1>6. d.pc # "idle"
  BY <1>1, Zenon DEF Calls
<1>7. d.sound => \A m \in Machines : ~Admitted(m)' =>
        /\ m = Request.on
        /\ \/ flight'[m] = Request
           \/ d.pc = "discard" /\ flight'[m] = StartCall(m, d.new)
           \/ d.pc = "restore" /\ flight'[m].id # cur.id
  <2>1. d.sound => \A m \in Machines : ~Admitted(m) =>
        /\ m = Request.on
        /\ \/ flight[m] = Request
           \/ d.pc = "discard" /\ flight[m] = StartCall(m, d.new)
           \/ d.pc = "restore" /\ flight[m].id # cur.id
    BY <1>6, Zenon DEF EngineInv, Own
  <2>2. \A m \in Machines : flight'[m] = flight[m] => Admitted(m)' = Admitted(m)
    BY Zenon DEF Admitted
  <2>3. ASSUME d.sound, NEW m \in Machines, ~Admitted(m)'
        PROVE  /\ m = Request.on
               /\ \/ flight'[m] = Request
                  \/ d.pc = "discard" /\ flight'[m] = StartCall(m, d.new)
                  \/ d.pc = "restore" /\ flight'[m].id # cur.id
    <3>1. CASE flight'[m] = flight[m]
      BY <2>1, <2>2, <2>3, <3>1, Zenon
    <3>2. CASE flight'[m] # flight[m]
      BY <1>3, <2>3, <3>2, Zenon
    <3> QED BY <3>1, <3>2, Zenon
  <2> QED BY <2>3, Zenon
<1>8. CASE d' = Answer("error", 0)
  <2>1. 0 \in Nat /\ "error" \notin {"ok", "notfound"}
    OBVIOUS
  <2>2. Outcome("error", 0)
    BY <1>1, <1>5, <1>7, <1>8, <2>1, Zenon DEF Outcome
  <2>3. Kept
    BY <2>2, OutcomeKept, Zenon
  <2> QED BY <1>1, <1>3, <1>4, <1>5, <2>3, KeptInv, Zenon
<1>9. CASE d.pc # "create" /\ UNCHANGED d
  <2>1. Request' = Request /\ cur' = cur
    BY <1>1, <1>9, Zenon DEF Request, cur, Calls
  <2>2. Own'
    BY <1>1, <1>7, <1>9, <2>1, Zenon DEF Own
  <2>3. Staged' /\ Course' /\ d' \in Deploys
    BY <1>1, <1>5, <1>9, <2>1, Zenon DEF EngineInv, Typed, Staged, Course
  <2>4. Told'
    BY <1>6, <1>9, Zenon DEF Told
  <2> QED BY <1>1, <1>3, <1>4, <1>5, <2>2, <2>3, <2>4, KeptInv, Zenon DEF Kept
<1> QED BY <1>1, <1>8, <1>9, Zenon

\* A step of a Deploy that touches neither containers nor calls in flight.
LEMMA QuietInv ==
  ASSUME EngineInv, Kept, UNCHANGED <<box, flight, service>>, faults' \in 0..MaxFaults
  PROVE  EngineInv'
<1>1. /\ DOMAIN flight' = Machines
      /\ \A m \in Machines : Admitted(m)' \/ (flight'[m] \in Mutations /\ flight'[m].on = m)
  BY Zenon DEF EngineInv, Typed, Admitted
<1> QED BY <1>1, SameBox, KeptInv, Zenon

\* What holds while a Deploy waits: no call of a sound one is in flight.
LEMMA Waiting ==
  ASSUME EngineInv, UNCHANGED <<box, flight>>,
         d.pc \in {"inspect_old", "monitor", "serve", "dropped", "restored", "await"}
  PROVE  /\ d \in Deploys /\ d.plan # <<>> /\ d.result = "running" /\ d.new \in Nat
         /\ cur.op \in OpsAt(d.pc) /\ (d.held => cur.op = "replace")
         /\ (d.sound => Settled /\ Settled')
         /\ (cur.op = "replace" =>
               cur.id \in Containers' /\ box'[cur.id].kind = "service")
         /\ (d.pc \in Fresh /\ cur.op = "replace" => d.new # cur.id)
         /\ (d.pc \in Fresh => d.new \in Containers')
         /\ (d.pc \in Fresh /\ cur.op # "hook" => box'[d.new].kind = "service")
         /\ (d.sound /\ d.held => CourseAt(box', d.pc, d.new, cur.id, d.stopped))
         /\ (d.sound => \A m \in Machines : flight'[m].what # "stop")
<1>1. d.pc \notin {"idle", "next"} /\ d.pc \notin Calls
  BY Zenon DEF Calls
<1>2. /\ d \in Deploys /\ d.plan # <<>> /\ d.result = "running"
      /\ cur.op \in OpsAt(d.pc) /\ (d.held => cur.op = "replace")
      /\ (d.pc \in Fresh /\ cur.op = "replace" => d.new # cur.id)
      /\ (d.pc \in Fresh => d.new \in Containers)
      /\ (d.pc \in Fresh /\ cur.op # "hook" => box[d.new].kind = "service")
  BY <1>1, Zenon DEF EngineInv, Typed, Staged
<1>3. d.sound => Settled
  BY <1>1, Zenon DEF EngineInv, Own, Settled
<1>4. d.sound => Settled'
  BY <1>3, Zenon DEF Settled, Admitted
<1>5. d.new \in Nat
  BY <1>2, Zenon DEF Deploys
<1>6. cur.op = "replace" => cur.id \in Containers /\ box[cur.id].kind = "service"
  BY <1>2, CurIs, Zenon
<1>7. Containers' = Containers
  BY Zenon DEF Containers
<1>8. d.sound /\ d.held => CourseAt(box', d.pc, d.new, cur.id, d.stopped)
  BY Zenon DEF EngineInv, Course
<1>9. d.sound => \A m \in Machines : flight'[m].what # "stop"
  BY <1>3, SettledTells, Zenon
<1> QED BY <1>2, <1>3, <1>4, <1>5, <1>6, <1>7, <1>8, <1>9, Zenon

\* A wait for the new container that ends badly.
LEMMA WaitBroken ==
  ASSUME EngineInv, UNCHANGED <<box, flight>>, d.pc \in {"monitor", "serve"},
         NEW e \in Errors, d' = Broken(d.new, e)
  PROVE  Kept
<1>1. d.pc \in Fresh
  BY Zenon DEF Fresh
<1>2. /\ d \in Deploys /\ d.plan # <<>> /\ d.result = "running" /\ d.new \in Nat
      /\ (d.held => cur.op = "replace") /\ (d.sound => Settled')
      /\ (cur.op = "replace" => d.new # cur.id /\ d.new \in Containers')
      /\ (cur.op # "hook" => box'[d.new].kind = "service")
      /\ (d.sound /\ d.held => CourseAt(box', d.pc, d.new, cur.id, d.stopped))
  BY <1>1, Waiting, Zenon
<1>3. d.sound /\ d.held => d.stopped \/ UpIn(box', cur.id)
  BY <1>2, Zenon DEF CourseAt
<1>4. d.sound => \A m \in Machines : Admitted(m)'
  BY <1>2, Zenon DEF Settled
<1> QED BY <1>2, <1>3, <1>4, BrokenStep, Zenon

\* A wait that fails the Deploy and leaves the old container, or the new one.
LEMMA WaitFail ==
  ASSUME EngineInv, UNCHANGED <<box, flight>>,
         d.pc \in {"inspect_old", "dropped", "await"},
         NEW e \in Errors, d' = Fail(e)
  PROVE  Kept
<1>1. /\ d \in Deploys /\ cur.op \in OpsAt(d.pc)
      /\ (d.sound /\ d.held => CourseAt(box', d.pc, d.new, cur.id, d.stopped))
      /\ (d.sound => \A m \in Machines : flight'[m].what # "stop")
  BY Waiting, Zenon
<1>2. cur.op = "replace" => d.pc # "await"
  BY <1>1, Zenon DEF OpsAt
<1>3. d.sound /\ d.held /\ cur.op = "replace" => UpIn(box', cur.id) \/ UpIn(box', d.new)
  BY <1>1, <1>2, Zenon DEF CourseAt
<1> QED BY <1>1, <1>3, FailIs, FailStep, Zenon DEF ToldBy

\* Every wait keeps the invariant.
LEMMA WaitsStep ==
  ASSUME EngineInv, Waits
  PROVE  EngineInv'
\* A wait that ends with the operation going on at pc.
<1>go. ASSUME UNCHANGED <<box, flight>>,
              d.pc \in {"inspect_old", "monitor", "serve", "dropped", "restored", "await"},
              NEW pc \in Pcs \ {"idle", "next", "clear"}, d' = Go(pc), cur.op \in OpsAt(pc),
              pc \in Fresh => d.pc \in Fresh, pc = "retire" => d.pc \in Fresh,
              d.sound /\ d.held => CourseAt(box', pc, d.new, cur.id, d.stopped)
       PROVE  Kept
  <2> USE <1>go
  <2>1. /\ d \in Deploys /\ d.plan # <<>> /\ d.result = "running"
        /\ (d.held => cur.op = "replace") /\ (d.sound => Settled')
        /\ (d.pc \in Fresh /\ cur.op = "replace" => d.new # cur.id)
        /\ (d.pc \in Fresh => d.new \in Containers')
        /\ (d.pc \in Fresh /\ cur.op # "hook" => box'[d.new].kind = "service")
    BY Waiting, Zenon
  <2>2. pc \in Pcs
    OBVIOUS
  <2>3. At(d', pc, d.new, d.stopped)
    BY <2>1, <2>2, GoIs, Zenon
  <2>4. Own'
    BY <2>1, <2>3, SettledOwn, Zenon DEF At
  <2>5. /\ (pc \in Fresh =>
               d.new \in Containers' /\ (cur.op # "hook" => box'[d.new].kind = "service"))
        /\ (pc \in Fresh \cup {"retire"} /\ cur.op = "replace" => d.new # cur.id)
    BY <2>1, Zenon
  <2> QED BY <2>1, <2>3, <2>4, <2>5, GoStep, Zenon
\* inspect_old keeps the invariant.
<1>inspect. ASSUME inspect_old
            PROVE  Kept
  <2> USE <1>inspect
  <2>1. d.pc = "inspect_old" /\ UNCHANGED <<box, flight, faults, service>>
        /\ d' = IF cur.id \in Managed /\ is_active_runtime(cur.id) THEN Go("stop_old")
                ELSE Go("create")
    BY Zenon DEF inspect_old
  <2>2. /\ cur.op \in OpsAt(d.pc)
        /\ (d.sound /\ d.held => CourseAt(box', d.pc, d.new, cur.id, d.stopped))
    BY <2>1, Waiting, Zenon
  <2>3. cur.op = "replace" /\ (d.sound /\ d.held => UpIn(box', cur.id))
    BY <2>1, <2>2, Zenon DEF OpsAt, CourseAt
  <2>4. ASSUME NEW pc \in {"stop_old", "create"}
        PROVE  /\ pc \in Pcs \ {"idle", "next", "clear"} /\ pc \notin Fresh /\ pc # "retire"
               /\ cur.op \in OpsAt(pc)
    BY <2>3, Zenon DEF Pcs, Calls, Fresh, OpsAt
  <2>5. d.sound /\ d.held => CourseAt(box', "create", d.new, cur.id, d.stopped)
    BY <2>3, Zenon DEF CourseAt
  <2>6. cur.id \in Managed => CourseAt(box', "stop_old", d.new, cur.id, d.stopped)
    BY <2>1, Zenon DEF CourseAt, Managed, Present, Containers
  <2> QED BY <2>1, <2>4, <2>5, <2>6, <1>go, Zenon
\* monitor_container keeps the invariant.
<1>monitor. ASSUME monitor_container
            PROVE  Kept
  <2> USE <1>monitor
  <2>1. /\ d.pc = "monitor" /\ UNCHANGED <<box, flight, faults, service>>
        /\ \/ d' = Broken(d.new, "health") \/ d' = Broken(d.new, "inspect")
           \/ d' = Go("serve")
    BY Zenon DEF monitor_container
  <2>2. {"health", "inspect"} \subseteq Errors
    BY Zenon DEF Errors
  <2>3. /\ cur.op \in OpsAt(d.pc)
        /\ (d.sound /\ d.held => CourseAt(box', d.pc, d.new, cur.id, d.stopped))
    BY <2>1, Waiting, Zenon
  <2>4. "serve" \in Pcs \ {"idle", "next", "clear"} /\ cur.op \in OpsAt("serve") /\ d.pc \in Fresh
    BY <2>1, <2>3, Zenon DEF Pcs, Calls, OpsAt, Fresh
  <2>5. d.sound /\ d.held => CourseAt(box', "serve", d.new, cur.id, d.stopped)
    BY <2>1, <2>3, Zenon DEF CourseAt
  <2> QED BY <2>1, <2>2, <2>4, <2>5, <1>go, WaitBroken, Zenon
\* wait_serving keeps the invariant.
<1>serve. ASSUME wait_serving
          PROVE  Kept
  <2> USE <1>serve
  <2>1. /\ d.pc = "serve" /\ UNCHANGED <<box, flight, faults, service>>
        /\ \/ d' = Broken(d.new, "barrier")
           \/ cur.op = "run" /\ d' = Done
           \/ cur.op # "run" /\ d' = Go("remove_old")
           \/ cur.op # "run" /\ d' = Go("retire")
    BY Zenon DEF wait_serving
  <2>2. "barrier" \in Errors
    BY Zenon DEF Errors
  <2>3. /\ cur.op \in OpsAt(d.pc) /\ d \in Deploys /\ d.plan # <<>> /\ d.result = "running"
        /\ (d.held => cur.op = "replace") /\ (d.sound => Settled')
        /\ (d.sound /\ d.held => CourseAt(box', d.pc, d.new, cur.id, d.stopped))
    BY <2>1, Waiting, Zenon
  <2>4. d.sound /\ d.held => UpIn(box', d.new)
    BY <2>1, <2>3, Zenon DEF CourseAt
  <2>5. ASSUME d' = Done PROVE Kept
    BY <2>3, <2>4, <2>5, DoneStep, Zenon
  <2>6. ASSUME NEW pc \in {"remove_old", "retire"}, cur.op # "run", d' = Go(pc) PROVE Kept
    <3>1. pc \in Pcs \ {"idle", "next", "clear"} /\ d.pc \in Fresh /\ cur.op \in OpsAt(pc)
      BY <2>1, <2>3, <2>6, Zenon DEF Pcs, Calls, OpsAt, Fresh
    <3>2. d.sound /\ d.held => CourseAt(box', pc, d.new, cur.id, d.stopped)
      BY <2>4, Zenon DEF CourseAt
    <3> QED BY <2>1, <2>6, <3>1, <3>2, <1>go, Zenon
  <2> QED BY <2>1, <2>2, <2>5, <2>6, WaitBroken, Zenon
\* wait_dropped keeps the invariant.
<1>dropped. ASSUME wait_dropped
            PROVE  Kept
  <2> USE <1>dropped
  <2>1. /\ d.pc = "dropped" /\ UNCHANGED <<box, flight, faults, service>>
        /\ d' = Done \/ d' = Fail("barrier")
    BY Zenon DEF wait_dropped
  <2>2. "barrier" \in Errors
    BY Zenon DEF Errors
  <2>3. /\ d \in Deploys /\ d.plan # <<>> /\ d.result = "running" /\ (d.sound => Settled')
        /\ (d.sound /\ d.held => CourseAt(box', d.pc, d.new, cur.id, d.stopped))
    BY <2>1, Waiting, Zenon
  <2>4. d.sound /\ d.held => UpIn(box', d.new)
    BY <2>1, <2>3, Zenon DEF CourseAt
  <2>5. CASE d' = Done
    BY <2>3, <2>4, <2>5, DoneStep, Zenon
  <2>6. CASE d' = Fail("barrier")
    BY <2>1, <2>2, <2>6, WaitFail, Zenon
  <2> QED BY <2>1, <2>5, <2>6, Zenon
\* wait_restored keeps the invariant.
<1>restored. ASSUME wait_restored
             PROVE  Kept
  <2> USE <1>restored
  <2>1. /\ d.pc = "restored" /\ UNCHANGED <<box, flight, faults, service>>
        /\ d' = Undone("ok") \/ d' = Undone("failed")
    BY Zenon DEF wait_restored
  <2>2. /\ d \in Deploys
        /\ (d.sound /\ d.held => CourseAt(box', d.pc, d.new, cur.id, d.stopped))
        /\ (d.sound => \A m \in Machines : flight'[m].what # "stop")
    BY <2>1, Waiting, Zenon
  <2>3. d.sound /\ d.held => UpIn(box', cur.id)
    BY <2>1, <2>2, Zenon DEF CourseAt
  <2> QED BY <2>1, <2>2, <2>3, UndoneIs, FailStep, Zenon DEF ToldBy
\* await_hook keeps the invariant.
<1>await. ASSUME await_hook
          PROVE  Kept
  <2> USE <1>await
  <2>1. /\ d.pc = "await" /\ UNCHANGED <<box, flight, faults, service>>
        /\ d' = Done \/ d' = Fail("hook") \/ d' = Go("interrupt")
    BY Zenon DEF await_hook
  <2>2. "hook" \in Errors
    BY Zenon DEF Errors
  <2>3. /\ d \in Deploys /\ d.plan # <<>> /\ d.result = "running" /\ (d.sound => Settled')
        /\ cur.op \in OpsAt(d.pc) /\ (d.held => cur.op = "replace")
    BY <2>1, Waiting, Zenon
  <2>4. cur.op = "hook" /\ ~d.held
    BY <2>1, <2>3, Zenon DEF OpsAt
  <2>5. CASE d' = Done
    BY <2>3, <2>4, <2>5, DoneStep, Zenon
  <2>6. CASE d' = Fail("hook")
    BY <2>1, <2>2, <2>6, WaitFail, Zenon
  <2>7. CASE d' = Go("interrupt")
    <3>1. /\ "interrupt" \in Pcs \ {"idle", "next", "clear"} /\ d.pc \in Fresh
          /\ cur.op \in OpsAt("interrupt")
      BY <2>1, <2>4, Zenon DEF Pcs, Calls, OpsAt, Fresh
    <3> QED BY <2>1, <2>4, <2>7, <3>1, <1>go, Zenon
  <2> QED BY <2>1, <2>5, <2>6, <2>7, Zenon
<1>1. Kept
  BY <1>inspect, <1>monitor, <1>serve, <1>dropped, <1>restored, <1>await, Zenon DEF Waits
<1>2. UNCHANGED <<box, flight, faults, service>>
  BY Zenon DEF Waits, inspect_old, monitor_container, wait_serving, wait_dropped, wait_restored,
     await_hook
<1>3. faults' \in 0..MaxFaults
  BY <1>2, Zenon DEF EngineInv, Typed
<1> QED BY <1>1, <1>2, <1>3, QuietInv, Zenon

\* A failed inspection keeps the invariant.
LEMMA UninspectedStep ==
  ASSUME EngineInv, Uninspected
  PROVE  EngineInv'
<1>1. /\ d.pc \in {"inspect_old", "monitor", "await"} /\ faults < MaxFaults
      /\ faults' = faults + 1 /\ UNCHANGED <<box, flight, service>>
      /\ d' = IF d.pc = "monitor" THEN Broken(d.new, "inspect") ELSE Fail("inspect")
  BY Zenon DEF Uninspected
<1>2. "inspect" \in Errors
  BY Zenon DEF Errors
<1>3. Kept
  BY <1>1, <1>2, WaitBroken, WaitFail, Zenon
<1>4. faults' \in 0..MaxFaults
  BY <1>1, Faulted, Zenon
<1> QED BY <1>1, <1>3, <1>4, QuietInv, Zenon

\* The call of a Deploy stays the same while its operation and its new container do.
LEMMA RequestSame ==
  ASSUME d.pc \in Calls \ {"create"}, d'.pc = d.pc, d'.new = d.new, cur' = cur,
         d.pc = "clear" => box'[Head(cur.olds)].on = box[Head(cur.olds)].on
  PROVE  Request' = Request
<1>1. CASE d.pc \in {"stop", "stop_old", "retire"}
  <2>1. Request' = StopCall(cur.on, cur.id)
    BY <1>1, Zenon DEF Request
  <2> QED BY <1>1, <2>1, RequestIs, Zenon
<1>2. CASE d.pc \in {"remove", "remove_old"}
  <2>1. Request' = RemoveCall(cur.on, cur.id)
    BY <1>2, Zenon DEF Request
  <2> QED BY <1>2, <2>1, RequestIs, Zenon
<1>3. CASE d.pc = "start"
  <2>1. Request' = StartCall(cur.on, d.new)
    BY <1>3, Zenon DEF Request
  <2> QED BY <1>3, <2>1, RequestIs, Zenon
<1>4. CASE d.pc = "discard"
  <2>1. Request' = RemoveCall(cur.on, d.new)
    BY <1>4, Zenon DEF Request
  <2> QED BY <1>4, <2>1, RequestIs, Zenon
<1>5. CASE d.pc \in {"stop_new", "interrupt"}
  <2>1. Request' = StopCall(cur.on, d.new)
    BY <1>5, Zenon DEF Request
  <2> QED BY <1>5, <2>1, RequestIs, Zenon
<1>6. CASE d.pc = "restore"
  <2>1. Request' = StartCall(cur.on, cur.id)
    BY <1>6, Zenon DEF Request
  <2> QED BY <1>6, <2>1, RequestIs, Zenon
<1>7. CASE d.pc = "clear"
  <2>1. Request' = RemoveCall(box[Head(cur.olds)].on, Head(cur.olds))
    BY <1>7, Zenon DEF Request
  <2> QED BY <1>7, <2>1, RequestIs, Zenon
<1> QED BY <1>1, <1>2, <1>3, <1>4, <1>5, <1>6, <1>7, Zenon DEF Calls

\* A cancellation keeps the invariant.
LEMMA CancelStep ==
  ASSUME EngineInv, Cancel
  PROVE  EngineInv'
<1>1. /\ d.pc # "idle" /\ UNCHANGED <<box, flight, faults, service>>
      /\ d' = [d EXCEPT !.cancelled = TRUE, !.cancels = d.cancels + 1] /\ d \in Deploys
  BY Zenon DEF Cancel, EngineInv, Typed
<1>2. d.cancels + 1 \in Nat
  BY <1>1 DEF Deploys
<1>3. d' \in Deploys
  BY <1>1, <1>2, Zenon DEF Deploys
<1>4. /\ d'.pc = d.pc /\ d'.result = d.result /\ d'.plan = d.plan /\ d'.new = d.new
      /\ d'.stopped = d.stopped /\ d'.held = d.held /\ d'.sound = d.sound
  BY <1>1, <1>3, ZenonT(30) DEF Deploys
<1>5. cur' = cur /\ Containers' = Containers
  BY <1>1, <1>4, Zenon DEF cur, Containers
<1>6. d.pc \in Calls \ {"create"} => Request' = Request
  BY <1>1, <1>4, <1>5, RequestSame, Zenon
<1>s. Staged
  BY Zenon DEF EngineInv
<1>7. Staged'
  BY <1>1, <1>4, <1>5, <1>s DEF Staged
<1>8. Own'
  BY <1>1, <1>4, <1>5, <1>6, Zenon DEF EngineInv, Own, Admitted
<1>9. Course'
  BY <1>1, <1>4, <1>5, Zenon DEF EngineInv, Course
<1>10. Told'
  BY <1>1, <1>4, Zenon DEF Told
<1>11. faults' \in 0..MaxFaults
  BY <1>1, Zenon DEF EngineInv, Typed
<1> QED BY <1>1, <1>3, <1>7, <1>8, <1>9, <1>10, <1>11, QuietInv, Zenon DEF Kept

\* A Deploy that is over and did not fail.
LEMMA OverKept ==
  ASSUME d' \in Deploys, d'.pc = "idle", d'.result \notin {"running", "failed"},
         d'.sound /\ d'.held => d'.result = "died" \/ d'.result = "success"
  PROVE  Kept
<1>1. "idle" \notin Fresh \cup {"retire"}
  BY Zenon DEF Fresh
<1>2. Staged' /\ Own' /\ Told'
  BY <1>1, Zenon DEF Staged, Own, Told
<1>3. Course'
  BY Zenon DEF Course, CourseAt
<1> QED BY <1>2, <1>3, Zenon DEF Kept

\* A Deploy that dies keeps the invariant, though its call may still run.
LEMMA DieStep ==
  ASSUME EngineInv, Die
  PROVE  EngineInv'
<1>1. /\ faults < MaxFaults /\ faults' = faults + 1 /\ UNCHANGED <<box, service>>
      /\ \/ UNCHANGED flight
         \/ d.pc \in Calls /\ flight' = [flight EXCEPT ![Request.on] = Request]
  BY Zenon DEF Die, EngineInv, Typed
<1>2. "idle" \in Pcs /\ <<>> \in Seq(Sane)
  BY DEF Pcs
<1>d. d' = [d EXCEPT !.pc = "idle", !.result = "died", !.plan = <<>>] /\ d \in Deploys
  BY Zenon DEF Die, EngineInv, Typed
<1>3. d' \in Deploys
  BY <1>d, <1>2, Zenon DEF Deploys
<1>4. d'.pc = "idle" /\ d'.result = "died"
  BY <1>d, Zenon DEF Deploys
<1>5. Kept
  BY <1>3, <1>4, OverKept, Zenon
<1>6. /\ DOMAIN flight' = Machines
      /\ \A m \in Machines : Admitted(m)' \/ (flight'[m] \in Mutations /\ flight'[m].on = m)
  <2>1. CASE UNCHANGED flight
    BY <2>1, Zenon DEF EngineInv, Typed, Admitted
  <2>2. CASE d.pc \in Calls /\ flight' = [flight EXCEPT ![Request.on] = Request]
    <3>1. Request \in Mutations /\ Request.on \in Machines
      BY <2>2, RequestTyped, Zenon DEF EngineInv
    <3> QED BY <2>2, <3>1, Launched, Zenon
  <2> QED BY <1>1, <2>1, <2>2, Zenon
<1> QED BY <1>1, <1>5, <1>6, Faulted, SameBox, KeptInv, Zenon

\* The loop over the operations keeps the invariant.
LEMMA NextOperationStep ==
  ASSUME EngineInv, NextOperation
  PROVE  EngineInv'
\* An operation begins.
<1>start. ASSUME d \in Deploys, d.plan # <<>>
          PROVE  /\ Start(d) \in Deploys /\ Start(d).plan = d.plan /\ Start(d).result = d.result
                 /\ Start(d).sound = d.sound /\ Start(d).stopped = FALSE
                 /\ Start(d).held = (cur.op = "replace" /\ is_active_runtime(cur.id))
                 /\ Start(d).pc \in {"stop", "create", "inspect_old", "clear"}
                 /\ cur.op \in OpsAt(Start(d).pc)
                 /\ (Start(d).pc = "clear" => cur.olds # <<>>)
  <2> USE <1>start
  <2> DEFINE o == cur
             pc == CASE o.op \in {"stop", "stophook", "remove"}      -> "stop"
                     [] o.op = "run"                                 -> "create"
                     [] o.op = "replace" /\ StopFirst                -> "inspect_old"
                     [] o.op = "replace" /\ ~StopFirst               -> "create"
                     [] o.op = "hook" /\ o.olds # <<>>               -> "clear"
                     [] o.op = "hook" /\ o.olds = <<>>               -> "create"
             held == o.op = "replace" /\ is_active_runtime(o.id)
  <2>1. Start(d) = [d EXCEPT !.new = 0, !.stopped = FALSE, !.held = held, !.pc = pc]
    BY Zenon DEF Start, cur
  <2>2. cur.op \in {"stop", "stophook", "remove", "run", "replace", "hook"}
    BY CurIs, Zenon
  <2>3. /\ pc \in {"stop", "create", "inspect_old", "clear"}
        /\ cur.op \in OpsAt(pc)
        /\ (pc = "clear" => cur.olds # <<>>)
    <3>1. CASE cur.op \in {"stop", "stophook", "remove"}
      <4>1. pc = "stop"
        BY <3>1
      <4> QED BY <3>1, <4>1, Zenon DEF OpsAt
    <3>2. CASE cur.op = "run"
      <4>1. pc = "create"
        BY <3>2
      <4> QED BY <3>2, <4>1, Zenon DEF OpsAt
    <3>3. CASE cur.op = "replace"
      <4>1. pc = "inspect_old" \/ pc = "create"
        BY <3>3
      <4> QED BY <3>3, <4>1, Zenon DEF OpsAt
    <3>4. CASE cur.op = "hook"
      <4>1. (pc = "clear" /\ cur.olds # <<>>) \/ pc = "create"
        BY <3>4
      <4> QED BY <3>4, <4>1, Zenon DEF OpsAt
    <3> QED BY <2>2, <3>1, <3>2, <3>3, <3>4, Zenon
  <2>4. held \in BOOLEAN /\ 0 \in Nat /\ pc \in Pcs
    BY <2>3, Zenon DEF Pcs, Calls
  <2>5. held = (cur.op = "replace" /\ is_active_runtime(cur.id))
    BY Zenon
  <2> HIDE DEF pc, held
  <2>6. Start(d) \in Deploys
    BY <2>1, <2>4, ZenonT(30) DEF Deploys
  <2>7. /\ Start(d).plan = d.plan /\ Start(d).result = d.result /\ Start(d).sound = d.sound
        /\ Start(d).stopped = FALSE /\ Start(d).held = held /\ Start(d).pc = pc
    BY <2>1, <2>6, Zenon DEF Deploys
  <2> QED BY <2>3, <2>5, <2>6, <2>7, Zenon
<1>1. /\ d.pc = "next" /\ UNCHANGED <<box, flight, faults, service>> /\ d \in Deploys
      /\ d.result = "running"
      /\ d' = IF d.plan = <<>> THEN [d EXCEPT !.pc = "idle", !.result = "success"]
              ELSE IF d.cancelled THEN Fail("cancelled")
              ELSE Start(d)
  BY Zenon DEF NextOperation, EngineInv, Typed, Staged
<1>2. "next" \notin Calls
  BY Zenon DEF Calls
<1>3. (d.sound => Settled) /\ (d.sound => Settled')
  BY <1>1, <1>2, Zenon DEF EngineInv, Own, Settled, Admitted
<1>4. CASE d.plan = <<>>
  <2>1. d' = [d EXCEPT !.pc = "idle", !.result = "success"] /\ "idle" \in Pcs
    BY <1>1, <1>4, Zenon DEF Pcs
  <2>2. d' \in Deploys
    BY <1>1, <2>1, Zenon DEF Deploys
  <2>3. d'.pc = "idle" /\ d'.result = "success"
    BY <1>1, <2>1, <2>2, Zenon DEF Deploys
  <2>4. Kept
    BY <2>2, <2>3, OverKept, Zenon
  <2> QED BY <1>1, <2>4, QuietInv, Zenon DEF EngineInv, Typed
<1>5. CASE d.plan # <<>> /\ d.cancelled
  <2>1. d' = Fail("cancelled") /\ "cancelled" \in Errors
    BY <1>1, <1>5, Zenon DEF Errors
  <2>2. d.sound /\ d.held => UpIn(box', d.new)
    BY <1>1, Zenon DEF EngineInv, Course, CourseAt
  <2>3. d.sound => \A m \in Machines : flight'[m].what # "stop"
    BY <1>1, <1>3, SettledTells, Zenon
  <2>4. Kept
    BY <1>1, <2>1, <2>2, <2>3, FailIs, FailStep, Zenon DEF ToldBy
  <2> QED BY <1>1, <2>4, QuietInv, Zenon DEF EngineInv, Typed
<1>6. CASE d.plan # <<>> /\ ~d.cancelled
  <2>1. d' = Start(d)
    BY <1>1, <1>6, Zenon
  <2>2. /\ d' \in Deploys /\ d'.plan = d.plan /\ d'.result = "running" /\ d'.sound = d.sound
        /\ d'.held = (cur.op = "replace" /\ is_active_runtime(cur.id))
        /\ d'.pc \in {"stop", "create", "inspect_old", "clear"}
        /\ cur.op \in OpsAt(d'.pc) /\ (d'.pc = "clear" => cur.olds # <<>>)
    BY <1>1, <1>6, <2>1, <1>start, Zenon
  <2>3. cur' = cur
    BY <2>2, Zenon DEF cur
  <2>4. d'.pc \notin Fresh \cup {"retire", "idle", "next"}
    BY <2>2, Zenon DEF Fresh
  <2>5. Staged'
    BY <1>6, <2>2, <2>3, <2>4, Zenon DEF Staged
  <2>6. Own'
    BY <1>3, <2>2, SettledOwn, Zenon
  <2>7. d'.held => UpIn(box', cur.id)
    BY <1>1, <1>6, <2>2, CurIs, Zenon DEF UpIn, is_active_runtime, Containers
  <2>8. Course' /\ Told'
    BY <2>2, <2>3, <2>4, <2>7, Zenon DEF Course, CourseAt, Told
  <2>9. Kept
    BY <2>2, <2>5, <2>6, <2>8, Zenon DEF Kept
  <2> QED BY <1>1, <2>9, QuietInv, Zenon DEF EngineInv, Typed
<1> QED BY <1>4, <1>5, <1>6, Zenon

-----------------------------------------------------------------------------
(* What happens by itself. *)

\* What the calls in flight, crashes and the containers themselves may do.
Drift ==
  /\ Extends(box') /\ DOMAIN flight' = Machines /\ UNCHANGED <<faults, service, d>>
  /\ \A m \in Machines : flight'[m] = flight[m] \/ flight'[m] = NoCall(m)
  /\ \A c : UpIn(box, c) /\ ~UpIn(box', c) =>
       \E m \in Machines : flight[m].what = "stop" /\ flight[m].id = c
  /\ \A c \in Present : box'[c].run = "gone" =>
       \E m \in Machines : flight[m].what = "remove" /\ flight[m].id = c

\* What happens by itself keeps the invariant.
LEMMA DriftStep ==
  ASSUME EngineInv, Drift
  PROVE  EngineInv'
\* A replacement under way keeps a container up, whatever its own call in flight does.
<1>course. Course'
  <2>1. cur' = cur /\ d' = d
    BY Zenon DEF Drift, cur
  <2>2. SUFFICES ASSUME d.sound, d.held PROVE CourseAt(box', d.pc, d.new, cur.id, d.stopped)
    BY <2>1, Zenon DEF Course
  <2>3. CourseAt(box, d.pc, d.new, cur.id, d.stopped)
    BY <2>2, Zenon DEF EngineInv, Course
  <2>u. \A c : UpIn(box, c) /\ ~UpIn(box', c) =>
          \E m \in Machines : flight[m].what = "stop" /\ flight[m].id = c
    BY Zenon DEF Drift
  <2>n. \A m \in Machines : NoCall(m).what # "stop" /\ NoCall(m).what # "remove"
    BY DEF NoCall
  <2>4. d.pc \notin Calls \ {"create"} /\ d.pc # "idle" =>
          \A m \in Machines : flight[m].what # "stop" /\ flight[m].what # "remove"
    BY <2>2, <2>n, Zenon DEF EngineInv, Own, Admitted
  <2>5. ASSUME d.pc \in Calls \ {"create", "discard", "restore"}, NEW m \in Machines
        PROVE  flight[m] = Request \/ flight[m] = NoCall(m)
    BY <2>2, <2>5, Zenon DEF EngineInv, Own, Admitted, Calls
  <2>6. cur.op = "replace" \/ d.pc \in {"idle", "next"}
    BY <2>2, Zenon DEF EngineInv, Staged
  <2>7. d.pc \in Fresh \cup {"retire"} => d.new # cur.id \/ cur.op # "replace"
    BY Zenon DEF EngineInv, Staged
  <2>8. ASSUME d.pc \in {"inspect_old", "restored", "create"}, UpIn(box, cur.id)
        PROVE  UpIn(box', cur.id)
    <3>1. d.pc \notin Calls \ {"create"} /\ d.pc # "idle"
      BY <2>8, Zenon DEF Calls
    <3> QED BY <2>4, <2>8, <3>1, Zenon DEF Drift
  <2>9. ASSUME d.pc \in {"next", "monitor", "serve", "dropped"}, NEW c, UpIn(box, c)
        PROVE  UpIn(box', c)
    <3>1. d.pc \notin Calls \ {"create"} /\ d.pc # "idle"
      BY <2>9, Zenon DEF Calls
    <3> QED BY <2>4, <2>9, <3>1, Zenon DEF Drift
  <2>10. ASSUME d.pc \in {"retire", "remove_old"}, UpIn(box, d.new) PROVE UpIn(box', d.new)
    <3>1. \A m \in Machines : flight[m] = Request \/ flight[m] = NoCall(m)
      BY <2>5, <2>10, Zenon DEF Calls
    <3>2. Request.what = "stop" => Request.id # d.new
      <4>1. CASE d.pc = "retire"
        <5>1. Request = StopCall(cur.on, cur.id) /\ d.new # cur.id
          BY <2>6, <2>7, <4>1, RequestIs, Zenon
        <5> QED BY <5>1, Zenon DEF StopCall
      <4>2. CASE d.pc = "remove_old"
        <5>1. Request = RemoveCall(cur.on, cur.id)
          BY <4>2, RequestIs, Zenon
        <5> QED BY <5>1 DEF RemoveCall
      <4> QED BY <2>10, <4>1, <4>2, Zenon
    <3>3. \A m \in Machines : flight[m].what = "stop" => flight[m].id # d.new
      BY <2>n, <3>1, <3>2, Zenon
    <3> QED BY <2>u, <2>10, <3>3, Zenon
  <2>11. ASSUME d.pc \in {"start", "discard", "stop_new"}, UpIn(box, cur.id)
         PROVE  UpIn(box', cur.id)
    <3>1. \A m \in Machines : flight[m].what = "stop" => flight[m].id # cur.id
      <4>1. CASE d.pc = "start"
        <5>1. Request = StartCall(cur.on, d.new)
          BY <4>1, RequestIs, Zenon
        <5>2. Request.what # "stop"
          BY <5>1 DEF StartCall
        <5> QED BY <2>n, <2>5, <4>1, <5>2, Zenon DEF Calls
      <4>2. CASE d.pc = "stop_new"
        <5>1. Request = StopCall(cur.on, d.new) /\ d.new # cur.id
          BY <2>6, <2>7, <4>2, RequestIs, Zenon DEF Fresh
        <5>2. Request.id # cur.id
          BY <5>1, Zenon DEF StopCall
        <5> QED BY <2>n, <2>5, <4>2, <5>2, Zenon DEF Calls
      <4>3. CASE d.pc = "discard"
        <5>1. Request = RemoveCall(cur.on, d.new)
          BY <4>3, RequestIs, Zenon
        <5>2. Request.what # "stop" /\ \A m : StartCall(m, d.new).what # "stop"
          BY <5>1 DEF RemoveCall, StartCall
        <5>3. \A m \in Machines : \/ flight[m] = Request \/ flight[m] = NoCall(m)
                                  \/ flight[m] = StartCall(m, d.new)
          BY <2>2, <4>3, Zenon DEF EngineInv, Own, Admitted
        <5> QED BY <2>n, <5>2, <5>3, Zenon
      <4> QED BY <2>11, <4>1, <4>2, <4>3, Zenon
    <3> QED BY <2>u, <2>11, <3>1, Zenon
  <2>12. ASSUME d.pc = "stop_old" PROVE cur.id \in DOMAIN box' /\ box'[cur.id].run # "gone"
    <3>1. cur.id \in Present
      BY <2>3, <2>12, Zenon DEF CourseAt, Present, Containers
    <3>2. cur.id \in DOMAIN box'
      BY <3>1, Zenon DEF Drift, Extends, Present
    <3>3. Request = StopCall(cur.on, cur.id)
      BY <2>12, RequestIs, Zenon
    <3>4. Request.what # "remove"
      BY <3>3 DEF StopCall
    <3>5. \A m \in Machines : flight[m].what # "remove"
      BY <2>n, <2>5, <2>12, <3>4, Zenon DEF Calls
    <3> QED BY <3>1, <3>2, <3>5, Zenon DEF Drift
  <2>13. /\ (d.pc \in {"next", "monitor", "serve", "retire", "remove_old", "dropped"} =>
              UpIn(box, d.new))
         /\ (d.pc \in {"inspect_old", "restored"} => UpIn(box, cur.id))
         /\ (d.pc \in {"create", "start", "discard", "monitor", "serve", "stop_new"} =>
               d.stopped \/ UpIn(box, cur.id))
    BY <2>3, Zenon DEF CourseAt
  <2> QED BY <2>8, <2>9, <2>10, <2>11, <2>12, <2>13 DEF CourseAt
\* A replacement that failed keeps a container up.
<1>told. Told'
  <2>1. cur' = cur /\ d' = d
    BY Zenon DEF Drift, cur
  <2>2. SUFFICES ASSUME d.pc = "idle" /\ d.result = "failed" /\ d.sound /\ d.held
                          /\ cur.op = "replace"
                 PROVE  ToldBy(box', flight', d.new, cur.id, d.err, d.restart)
    BY <2>1, Zenon DEF Told
  <2>3. ToldBy(box, flight, d.new, cur.id, d.err, d.restart)
    BY <2>2, Zenon DEF EngineInv, Told
  <2>u. \A c : UpIn(box, c) /\ ~UpIn(box', c) =>
          \E m \in Machines : flight[m].what = "stop" /\ flight[m].id = c
    BY Zenon DEF Drift
  <2>4. \A m \in Machines : NoCall(m).what # "stop"
    BY DEF NoCall
  <2>5. \A m \in Machines : flight'[m] = flight[m] \/ flight'[m].what # "stop"
    <3>1. \A m \in Machines : flight'[m] = flight[m] \/ flight'[m] = NoCall(m)
      BY Zenon DEF Drift
    <3> QED BY <2>4, <3>1
  <2>6. ASSUME UpIn(box, cur.id),
               \A m \in Machines : flight[m].what = "stop" => flight[m].id # cur.id
        PROVE  /\ UpIn(box', cur.id)
               /\ \A m \in Machines : flight'[m].what = "stop" => flight'[m].id # cur.id
    <3>1. UpIn(box', cur.id)
      BY <2>u, <2>6, Zenon
    <3>2. \A m \in Machines : flight'[m].what = "stop" => flight'[m].id # cur.id
      BY <2>5, <2>6
    <3> QED BY <3>1, <3>2, Zenon
  <2>7. ASSUME UpIn(box, d.new), \A m \in Machines : flight[m].what # "stop"
        PROVE  UpIn(box', d.new) /\ \A m \in Machines : flight'[m].what # "stop"
    BY <2>u, <2>5, <2>7, Zenon
  <2> QED BY <2>3, <2>6, <2>7, Zenon DEF ToldBy
<1>1. cur' = cur /\ d' = d /\ UNCHANGED <<faults, service>> /\ DOMAIN flight' = Machines
      /\ Extends(box')
  BY Zenon DEF Drift, cur
<1>2. /\ Containers \subseteq Containers' /\ Mutations \subseteq Mutations'
      /\ \A c \in Containers : box'[c].on = box[c].on /\ box'[c].kind = box[c].kind
  BY <1>1, Grown, Zenon DEF EngineInv, Typed, Same
<1>3. \A m \in Machines : flight'[m] = flight[m] \/ Admitted(m)'
  BY Zenon DEF Drift, Admitted
<1>s. Staged
  BY Zenon DEF EngineInv
<1>4. Staged'
  BY <1>1, <1>2, <1>s, Zenon DEF Staged
<1>5. Own'
  <2>1. SUFFICES ASSUME d.sound, d.pc # "idle", NEW m \in Machines, ~Admitted(m)'
                 PROVE  /\ d.pc \in Calls \ {"create"} /\ m = Request'.on
                        /\ \/ flight'[m] = Request'
                           \/ d.pc = "discard" /\ flight'[m] = StartCall(m, d.new)
                           \/ d.pc = "restore" /\ flight'[m].id # cur.id
    BY <1>1, Zenon DEF Own
  <2>2. flight'[m] = flight[m] /\ ~Admitted(m)
    BY <1>3, <2>1, Zenon DEF Admitted
  <2>3. /\ d.pc \in Calls \ {"create"} /\ m = Request.on
        /\ \/ flight[m] = Request
           \/ d.pc = "discard" /\ flight[m] = StartCall(m, d.new)
           \/ d.pc = "restore" /\ flight[m].id # cur.id
    BY <2>1, <2>2, Zenon DEF EngineInv, Own
  <2>4. d.pc = "clear" => box'[Head(cur.olds)].on = box[Head(cur.olds)].on
    <3>1. SUFFICES ASSUME d.pc = "clear" PROVE Head(cur.olds) \in Containers
      BY <1>2, Zenon
    <3>2. d \in Deploys /\ d.plan # <<>>
      BY <2>3, AtCall, Zenon
    <3>3. cur.olds # <<>> /\ cur.olds \in Seq(Containers)
      BY <1>s, <3>1, <3>2, CurIs, Zenon DEF Staged
    <3> QED BY <3>3
  <2>5. Request' = Request
    BY <1>1, <2>3, <2>4, RequestSame, Zenon
  <2> QED BY <2>2, <2>3, <2>5, Zenon
<1>6. d' \in Deploys
  BY <1>1, Zenon DEF EngineInv, Typed
<1>7. \A m \in Machines : Admitted(m)' \/ (flight'[m] \in Mutations /\ flight'[m].on = m)
  BY <1>3, Zenon DEF EngineInv, Typed, Admitted
<1>8. Kept
  BY <1>4, <1>5, <1>6, <1>course, <1>told, Zenon DEF Kept
<1>9. faults' \in 0..MaxFaults
  BY <1>1, Zenon DEF EngineInv, Typed
<1> QED BY <1>1, <1>7, <1>8, <1>9, KeptInv, Zenon

\* A container that is gone from b was up to then, or one that is up is no longer.
LEMMA DriftIs ==
  ASSUME EngineInv, Extends(box'), UNCHANGED <<faults, service, d>>,
         NEW m \in Machines, UNCHANGED flight \/ flight' = [flight EXCEPT ![m] = NoCall(m)],
         \A c \in Containers : is_active_runtime(c) /\ box[c].kind = "service" =>
            box'[c].run \in Active \/ (flight[m].what = "stop" /\ flight[m].id = c),
         \A c \in Present : box'[c].run # "gone" \/ (flight[m].what = "remove" /\ flight[m].id = c)
  PROVE  Drift
<1>1. Base /\ DOMAIN flight = Machines
  BY Zenon DEF EngineInv, Typed
<1>2. /\ DOMAIN flight' = Machines
      /\ \A x \in Machines : flight'[x] = flight[x] \/ flight'[x] = NoCall(x)
  BY <1>1, Zenon
<1>3. ASSUME NEW c, UpIn(box, c), ~UpIn(box', c)
      PROVE  flight[m].what = "stop" /\ flight[m].id = c
  <2>1. c \in Containers /\ is_active_runtime(c) /\ box[c].kind = "service"
    BY <1>3, Zenon DEF UpIn, Containers, is_active_runtime
  <2>2. box'[c].run \notin Active
    BY <1>1, <1>3, StaysUp, Zenon
  <2> QED BY <2>1, <2>2, Zenon
<1> QED BY <1>2, <1>3, Zenon DEF Drift

\* A call that ends with nobody waiting keeps the invariant.
LEMMA FinishStep ==
  ASSUME EngineInv, NEW m \in Machines, Finish(m), UNCHANGED <<service, d>>
  PROVE  EngineInv'
<1> DEFINE call == flight[m]
<1>1. /\ box' = Perform(call).box /\ UNCHANGED faults /\ ~Admitted(m)
      /\ flight' = [flight EXCEPT ![m] = NoCall(m)]
  BY Zenon DEF Finish, Admitted
<1>2. call \in Mutations /\ Base
  BY <1>1, Zenon DEF EngineInv, Typed
<1> HIDE DEF call
<1>3. Effect(call, Perform(call))
  BY <1>2, PerformEffect, Zenon
<1>4. /\ Extends(box')
      /\ \A c \in Containers : is_active_runtime(c) =>
           box'[c].run \in Active \/ (call.what = "stop" /\ call.id = c)
      /\ \A c \in Present : box'[c].run # "gone" \/ (call.what = "remove" /\ call.id = c)
  BY <1>1, <1>3, Zenon DEF Effect
<1>5. Drift
  BY <1>1, <1>4, DriftIs, Zenon DEF call
<1> QED BY <1>5, DriftStep, Zenon

\* A daemon that dies in a call keeps the invariant.
LEMMA CrashStep ==
  ASSUME EngineInv, NEW m \in Machines, Crash(m), UNCHANGED <<service, d>>
  PROVE  EngineInv'
<1> DEFINE call == flight[m]
<1>1. /\ UNCHANGED faults /\ ~Admitted(m) /\ flight' = [flight EXCEPT ![m] = NoCall(m)]
      /\ \/ UNCHANGED box
         \/ call.what = "create" /\ box' = Append(box, Container(m, call.body, FALSE))
  BY Zenon DEF Crash, Admitted
<1>2. call \in Mutations /\ Base
  BY <1>1, Zenon DEF EngineInv, Typed
<1> HIDE DEF call
<1>3. Extends(box') /\ \A x \in Containers : box'[x] = box[x]
  <2>1. CASE UNCHANGED box
    BY <1>2, <2>1, SameExtends, Zenon
  <2>2. CASE call.what = "create" /\ box' = Append(box, Container(m, call.body, FALSE))
    <3>1. call.body \in Bodies /\ call.body.key.old <= Len(box) /\ FALSE \in BOOLEAN
      BY <1>2, <2>2, Zenon DEF Mutations
    <3> QED BY <1>2, <2>2, <3>1, AppendExtends, Zenon
  <2> QED BY <1>1, <2>1, <2>2, Zenon
<1>4. /\ \A c \in Containers : is_active_runtime(c) => box'[c].run \in Active
      /\ \A c \in Present : box'[c].run # "gone"
  BY <1>3, Zenon DEF is_active_runtime, Present
<1>5. Drift
  BY <1>1, <1>3, <1>4, DriftIs, Zenon
<1> QED BY <1>5, DriftStep, Zenon

\* A container that changes by itself keeps the invariant.
LEMMA EvolveStep ==
  ASSUME EngineInv, NEW c \in Containers, Evolve(c), UNCHANGED <<service, d>>
  PROVE  EngineInv'
<1>1. UNCHANGED <<flight, faults>> /\ Base /\ box[c].on \in Machines /\ box[c] \in Boxes
  BY ContainersAre, Zenon DEF Evolve, EngineInv, Typed, Base
<1>2. PICK run : /\ run \in State \ {"gone"} /\ (box[c].kind = "service" => run \in Active)
                 /\ box' = [box EXCEPT ![c].run = run, ![c].was = @ \/ run = "healthy"]
  <2> DEFINE next ==
               IF box[c].kind = "hook" THEN {"done", "exited"}
               ELSE CASE box[c].run = "starting"   -> {"healthy", "unhealthy", "restarting"}
                      [] box[c].run = "unhealthy"  -> {"healthy"}
                      [] box[c].run = "restarting" -> {"starting"}
  <2>0. box[c].run \in Active \ {"healthy"}
    BY Zenon DEF Evolve
  <2>1. \E run \in next : box' = [box EXCEPT ![c].run = run, ![c].was = @ \/ run = "healthy"]
    BY Zenon DEF Evolve
  <2>2. box[c].kind \in {"service", "hook"}
    BY <1>1, Zenon DEF Boxes
  <2>3. \A run \in next : run \in State \ {"gone"} /\ (box[c].kind = "service" => run \in Active)
    <3>1. CASE box[c].kind = "hook"
      <4>1. next = {"done", "exited"}
        BY <3>1
      <4> QED BY <3>1, <4>1 DEF State, Active, Running
    <3>2. CASE box[c].kind = "service"
      <4>0. box[c].kind # "hook"
        BY <3>2
      <4>1. box[c].run \in {"starting", "unhealthy", "restarting"}
        BY <2>0, Zenon DEF Active, Running
      <4>2. next \subseteq {"healthy", "unhealthy", "restarting", "starting"}
        <5>1. CASE box[c].run = "starting"
          BY <4>0, <5>1
        <5>2. CASE box[c].run = "unhealthy"
          BY <4>0, <5>2
        <5>3. CASE box[c].run = "restarting"
          BY <4>0, <5>3
        <5> QED BY <4>1, <5>1, <5>2, <5>3, Zenon
      <4> QED BY <4>2, Zenon DEF State, Active, Running
    <3> QED BY <2>2, <3>1, <3>2, Zenon
  <2> HIDE DEF next
  <2> QED BY <2>1, <2>3, Zenon
<1> DEFINE y == [box[c] EXCEPT !.run = run, !.was = box[c].was \/ run = "healthy"]
<1>3. box' = [box EXCEPT ![c] = y]
  BY <1>2, Zenon
<1>4. y \in Boxes /\ Same(y, box[c]) /\ y.run = run /\ y.key = box[c].key
  BY <1>1, <1>2, Zenon DEF Boxes, Same
<1> HIDE DEF y
<1>5. /\ DOMAIN box = Containers /\ Containers = 1..Len(box) /\ Len(box) \in Nat
  BY <1>1, ContainersAre, Zenon DEF Base, Containers
<1>6. box' \in Seq(Boxes) /\ Len(box') = Len(box) /\ DOMAIN box' = Containers
  BY <1>1, <1>3, <1>4, <1>5 DEF Base
<1>7. box'[c] = y /\ \A x \in Containers : x # c => box'[x] = box[x]
  BY <1>3, <1>5, Zenon
<1>8. \A x \in Containers : Same(box'[x], box[x]) /\ box'[x].key = box[x].key
  BY <1>4, <1>7, Zenon DEF Same
<1>9. Older(box')
  BY <1>1, <1>5, <1>6, <1>8, Zenon DEF Base, Older
<1>10. Len(box) <= Len(box')
  BY <1>5, <1>6
<1>11. Extends(box')
  BY <1>6, <1>8, <1>9, <1>10, Zenon DEF Extends
<1>12. \A x \in Containers : is_active_runtime(x) /\ box[x].kind = "service" =>
         box'[x].run \in Active
  BY <1>2, <1>4, <1>7, Zenon DEF is_active_runtime
<1>13. \A x \in Present : box'[x].run # "gone"
  BY <1>2, <1>4, <1>7, Zenon DEF Present
<1>14. Drift
  BY <1>1, <1>11, <1>12, <1>13, DriftIs, Zenon
<1> QED BY <1>14, DriftStep, Zenon

=============================================================================
