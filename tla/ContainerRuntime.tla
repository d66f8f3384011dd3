-------------------------- MODULE ContainerRuntime --------------------------
(***************************************************************************)
(* The containers the Machines' daemons keep in Docker, and the calls that *)
(* change them.  A Machine runs one mutation at a time, and runs it to its *)
(* end whether or not its caller still waits: such a call is in flight.    *)
(***************************************************************************)
EXTENDS Naturals, Sequences, FiniteSets

CONSTANTS
    Machines,
    MaxFaults   \* bound: calls without an answer, listings that fail, Deploys that die

ASSUME RuntimeAssumption == MaxFaults \in Nat /\ IsFiniteSet(Machines)

VARIABLES
    box,        \* the containers ever created, in that order; the index is the id
    flight,     \* the mutation each Machine still runs for a caller that is gone
    faults      \* how many there were

\* What Docker says of a container: a container with a healthcheck is "starting" until its
\* first result, "done" is an exit with code 0, "gone" a container that was removed.
Running == {"starting", "healthy", "unhealthy"}
Active  == Running \cup {"restarting"}
State   == Active \cup {"created", "exited", "done", "gone"}

NoKey == [spec |-> 0, old |-> 0]

\* A request to create: the Service, what for, its spec's revision, whether it
\* publishes a host port, and the creation key.
NoBody == [svc |-> "none", kind |-> "none", spec |-> 0, port |-> FALSE, key |-> NoKey]

CreateCall(m, body) == [what |-> "create", on |-> m, id |-> 0, body |-> body]
StartCall(m, c)     == [what |-> "start", on |-> m, id |-> c, body |-> NoBody]
StopCall(m, c)      == [what |-> "stop", on |-> m, id |-> c, body |-> NoBody]
RemoveCall(m, c)    == [what |-> "remove", on |-> m, id |-> c, body |-> NoBody]
NoCall(m)           == [what |-> "none", on |-> m, id |-> 0, body |-> NoBody]

Containers == DOMAIN box

Present == {c \in Containers : box[c].run # "gone"}

is_active_runtime(c) == box[c].run \in Active

\* Listed and accepted as a target only with its spec stored (a container
\* without one is ignored as malformed, and refused).
Managed == {c \in Present : box[c].row}

-----------------------------------------------------------------------------
(* What a mutation does: the containers after it, its result and an id. *)

Result(b, res, c) == [box |-> b, res |-> res, id |-> c]

With(c, run) == [box EXCEPT ![c].run = run]

\* The container that holds the name reserved by this creation key.
matching_creation(m, body) ==
    {c \in Present : /\ body.key # NoKey /\ box[c].key = body.key
                     /\ box[c].on = m /\ box[c].kind = body.kind}

Container(m, body, row) ==
    [svc |-> body.svc, kind |-> body.kind, on |-> m, spec |-> body.spec, port |-> body.port,
     key |-> body.key, run |-> "created", row |-> row, was |-> FALSE]

\* Mutant: a replayed creation answers without the container.
create_unnamed(m, body) ==
    LET held == matching_creation(m, body) IN
    IF held = {} THEN Result(Append(box, Container(m, body, TRUE)), "ok", Len(box) + 1)
    ELSE Result(box, "ok", 0)

\* Creates, or returns what an earlier call with the same key created.
create_with_admission(m, body) ==
    LET held == matching_creation(m, body) IN
    IF held = {} THEN Result(Append(box, Container(m, body, TRUE)), "ok", Len(box) + 1)
    ELSE LET c == CHOOSE x \in held : TRUE IN
         IF box[c].row /\ box[c].spec = body.spec THEN Result(box, "ok", c)
         ELSE Result(box, "error", 0)

\* Docker refuses to start a second container on a published port.
PortTaken(c) ==
    box[c].port /\ \E x \in Present : /\ x # c /\ box[x].on = box[c].on
                                      /\ box[x].port /\ is_active_runtime(x)

\* Idempotent: Docker answers 304 for a container that already runs.
start(c) ==
    IF is_active_runtime(c) THEN Result(box, "ok", c)
    ELSE IF PortTaken(c) THEN Result(box, "error", c)
    ELSE Result(With(c, "starting"), "ok", c)

stop(c) ==
    IF is_active_runtime(c) THEN Result(With(c, "exited"), "ok", c) ELSE Result(box, "ok", c)

\* Without force, Docker refuses to remove a container that runs.
remove(c) ==
    IF is_active_runtime(c) THEN Result(box, "error", c) ELSE Result(With(c, "gone"), "ok", c)

\* ensure_managed precedes start, stop and remove.
Perform(call) ==
    IF call.what = "create" THEN create_with_admission(call.on, call.body)
    ELSE IF call.id \notin Present THEN Result(box, "notfound", call.id)
    ELSE IF call.id \notin Managed THEN Result(box, "error", call.id)
    ELSE CASE call.what = "start"  -> start(call.id)
           [] call.what = "stop"   -> stop(call.id)
           [] call.what = "remove" -> remove(call.id)

-----------------------------------------------------------------------------
(* What happens by itself. *)

\* The Machine's exclusive mutation admission is free.
Admitted(m) == flight[m] = NoCall(m)

\* Mutant: the admission is not given back.
FinishHolding(m) ==
    /\ flight[m] # NoCall(m)
    /\ box' = Perform(flight[m]).box
    /\ UNCHANGED <<flight, faults>>

\* Admitted work is detached from its RPC: it ends although nobody waits.
Finish(m) ==
    /\ flight[m] # NoCall(m)
    /\ box' = Perform(flight[m]).box
    /\ flight' = [flight EXCEPT ![m] = NoCall(m)]
    /\ UNCHANGED faults

\* The daemon dies in the middle of it; after Docker created a container and
\* before its spec was stored, or before Docker did anything.
Crash(m) ==
    /\ flight[m] # NoCall(m)
    /\ flight' = [flight EXCEPT ![m] = NoCall(m)]
    /\ UNCHANGED faults
    /\ \/ UNCHANGED box
       \/ /\ flight[m].what = "create" /\ matching_creation(m, flight[m].body) = {}
          /\ box' = Append(box, Container(m, flight[m].body, FALSE))

\* A Service Container that starts gets healthy, unhealthy, or exits and is
\* restarted; a hook exits.  A healthy one stays so until it is stopped.
Evolve(c) ==
    /\ box[c].run \in Active \ {"healthy"}
    /\ \E run \in IF box[c].kind = "hook" THEN {"done", "exited"}
                 ELSE CASE box[c].run = "starting"   -> {"healthy", "unhealthy", "restarting"}
                        [] box[c].run = "unhealthy"  -> {"healthy"}
                        [] box[c].run = "restarting" -> {"starting"} :
          box' = [box EXCEPT ![c].run = run, ![c].was = @ \/ run = "healthy"]
    /\ UNCHANGED <<flight, faults>>
=============================================================================
