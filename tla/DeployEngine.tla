---------------------------- MODULE DeployEngine ----------------------------
(***************************************************************************)
(* The execution of a Deploy: the operations of its plan one after the     *)
(* other, each a few calls to one Machine with waits between them, and     *)
(* what is undone when a replacement fails.  Deploys follow each other;    *)
(* answers get lost, daemons and Deploys die, and a person cancels.        *)
(***************************************************************************)
EXTENDS DeployPlan

CONSTANTS
    Revisions,      \* the revisions of the Service that are deployed
    MaxDeploys,     \* bound: Deploys after the first
    MaxCancels      \* bound: cancellations

ASSUME EngineAssumption == MaxDeploys \in Nat /\ MaxCancels \in Nat /\ Revisions \subseteq Nat \ {0}

VARIABLE
    d       \* the Deploy: see TypeOK

vars == <<box, flight, faults, service, d>>

Idle == [pc |-> "idle", result |-> "success", plan |-> <<>>, rev |-> 1, new |-> 0,
         stopped |-> FALSE, held |-> FALSE, err |-> "none", restart |-> "none",
         cancelled |-> FALSE, sound |-> TRUE, seen |-> TRUE, runs |-> 0, cancels |-> 0]

cur == Head(d.plan)

-----------------------------------------------------------------------------
(* The course of an operation, as the next value of d. *)

Go(pc) == [d EXCEPT !.pc = pc]

\* Where an operation begins.
Start(p) ==
    [p EXCEPT !.new = 0, !.stopped = FALSE,
        !.held = Head(p.plan).op = "replace" /\ is_active_runtime(Head(p.plan).id),
        !.pc = LET o == Head(p.plan) IN
               CASE o.op \in {"stop", "stophook", "remove"}      -> "stop"
                 [] o.op = "run"                                 -> "create"
                 [] o.op = "replace" /\ StopFirst                -> "inspect_old"
                 [] o.op = "replace" /\ ~StopFirst               -> "create"
                 [] o.op = "hook" /\ o.olds # <<>>               -> "clear"
                 [] o.op = "hook" /\ o.olds = <<>>               -> "create"]

Done == [d EXCEPT !.pc = "next", !.plan = Tail(@)]

\* The failed operation, the ones after it unexecuted; the error and what was undone.
FailFrom(p, e) == [p EXCEPT !.pc = "idle", !.result = "failed", !.err = e]
Fail(e)        == FailFrom(d, e)

\* Mutant: the old container is restored after a health failure alone.
compensate_health(c, e) ==
    LET p == [d EXCEPT !.new = c, !.err = e] IN
    IF e # "health" THEN FailFrom(p, e)
    ELSE IF c # 0 THEN [p EXCEPT !.pc = "stop_new"]
    ELSE IF d.stopped THEN [p EXCEPT !.pc = "restore"]
    ELSE FailFrom(p, e)

\* Mutant: the old container is restored beside the new one.
compensate_beside(c, e) ==
    LET p == [d EXCEPT !.new = c, !.err = e] IN
    IF ~d.stopped /\ e # "health" THEN FailFrom(p, e)
    ELSE IF d.stopped THEN [p EXCEPT !.pc = "restore"]
    ELSE IF c # 0 THEN [p EXCEPT !.pc = "stop_new"]
    ELSE FailFrom(p, e)

\* c: the new container, 0 when it did not start.
compensate(c, e) ==
    LET p == [d EXCEPT !.new = c, !.err = e] IN
    IF ~d.stopped /\ e # "health" THEN FailFrom(p, e)
    ELSE IF c # 0 THEN [p EXCEPT !.pc = "stop_new"]
    ELSE IF d.stopped THEN [p EXCEPT !.pc = "restore"]
    ELSE FailFrom(p, e)

Broken(c, e) == IF cur.op = "replace" THEN compensate(c, e) ELSE Fail(e)

\* The container of this call may belong to an earlier attempt: it is not removed.
Keyed == cur.op # "hook" /\ Global

\* Created and not started: removed again, unless its key may have found it.
Discard(c, e) ==
    IF Keyed THEN Broken(0, e) ELSE [d EXCEPT !.pc = "discard", !.new = c, !.err = e]

Undone(e) == [FailFrom(d, d.err) EXCEPT !.restart = e]

-----------------------------------------------------------------------------
(* The calls. *)

\* A replanned reuse keeps the key of the newest container with this very spec.
creation_key ==
    LET same == {c \in Managed : /\ box[c].svc = "web" /\ box[c].kind = "service"
                                 /\ box[c].on = cur.on /\ box[c].spec = cur.rev
                                 /\ box[c].key # NoKey
                                 /\ OrderOf(box[c].key) =
                                      IF cur.id = 0 THEN service.volume
                                      ELSE OrderOf(box[cur.id].key)}
        newest == {c \in same : \A x \in same : x <= c}
    IN IF ~Global THEN NoKey
       ELSE IF cur.op = "replace" THEN [spec |-> cur.rev, old |-> cur.id]
       ELSE IF newest = {} THEN [spec |-> cur.rev, old |-> 0]
       ELSE box[CHOOSE c \in newest : TRUE].key

Body ==
    IF cur.op = "hook"
    THEN [svc |-> "web", kind |-> "hook", spec |-> cur.rev, port |-> FALSE, key |-> NoKey]
    ELSE [svc |-> "web", kind |-> "service", spec |-> cur.rev, port |-> service.port,
          key |-> creation_key]

Calls == {"stop", "remove", "stop_old", "create", "start", "discard", "retire",
          "remove_old", "stop_new", "restore", "clear", "interrupt"}

Request ==
    CASE d.pc \in {"stop", "stop_old", "retire"}   -> StopCall(cur.on, cur.id)
      [] d.pc \in {"remove", "remove_old"}         -> RemoveCall(cur.on, cur.id)
      [] d.pc = "create"                           -> CreateCall(cur.on, Body)
      [] d.pc = "start"                            -> StartCall(cur.on, d.new)
      [] d.pc = "discard"                          -> RemoveCall(cur.on, d.new)
      [] d.pc \in {"stop_new", "interrupt"}        -> StopCall(cur.on, d.new)
      [] d.pc = "restore"                          -> StartCall(cur.on, cur.id)
      [] d.pc = "clear"                            ->
            RemoveCall(box[Head(cur.olds)].on, Head(cur.olds))

\* serve: a started container is monitored, a hook waited for.
after_start == IF cur.op = "hook" THEN "await" ELSE "monitor"

\* What an answer leads to; "error" is also what a call that got no answer ends with.
Answer(res, c) ==
    LET there == res \in {"ok", "notfound"} IN
    CASE d.pc = "stop" -> (IF ~there THEN Fail("stop")
                           ELSE IF cur.op = "remove" THEN Go("remove") ELSE Done)
      [] d.pc = "remove"     -> IF there THEN Go("dropped") ELSE Fail("remove")
      [] d.pc = "stop_old"   -> (IF there THEN [Go("create") EXCEPT !.stopped = res = "ok"]
                                 ELSE Fail("stop"))
      [] d.pc = "create" -> (IF res = "error"
                             THEN Broken(0, IF d.cancelled THEN "cancelled" ELSE "create")
                             ELSE IF d.cancelled THEN Discard(c, "cancelled")
                             ELSE [Go("start") EXCEPT !.new = c])
      [] d.pc = "start" -> (IF res # "ok" THEN Discard(d.new, "start")
                            ELSE Go(after_start))
      [] d.pc = "discard"    -> Broken(0, d.err)
      [] d.pc = "retire"     -> IF there THEN Go("remove_old") ELSE Fail("stop")
      [] d.pc = "remove_old" -> IF there THEN Go("dropped") ELSE Fail("remove")
      [] d.pc = "stop_new"   -> IF d.stopped THEN Go("restore") ELSE FailFrom(d, d.err)
      [] d.pc = "restore"    -> IF res = "ok" THEN Go("restored") ELSE Undone("failed")
      [] d.pc = "clear" -> (IF ~there THEN Fail("remove")
                            ELSE [Go(IF Len(cur.olds) = 1 THEN "create" ELSE "clear")
                                    EXCEPT !.plan[1].olds = Tail(@)])
      [] d.pc = "interrupt"  -> Fail("hook")

Answered ==
    /\ d.pc \in Calls
    /\ LET call == Request
           r    == Perform(call)
       IN /\ Admitted(call.on)
          /\ box' = r.box
          /\ d' = Answer(r.res, r.id)
    /\ UNCHANGED <<flight, faults, service>>

\* wait_out_restart: a call that got no answer is made again, a create never.
MayRetry == d.pc # "create" /\ ~d.cancelled

\* The answer does not come; the Machine may still run the call.
Unanswered ==
    /\ d.pc \in Calls /\ faults < MaxFaults
    /\ faults' = faults + 1
    /\ LET call == Request IN
       \/ UNCHANGED flight
       \/ Admitted(call.on) /\ flight' = [flight EXCEPT ![call.on] = call]
    /\ \/ MayRetry /\ UNCHANGED d
       \/ d' = Answer("error", 0)
    /\ UNCHANGED <<box, service>>

\* A container cannot be inspected, not even once the daemon should be back.
Uninspected ==
    /\ d.pc \in {"inspect_old", "monitor", "await"} /\ faults < MaxFaults
    /\ faults' = faults + 1
    /\ d' = IF d.pc = "monitor" THEN Broken(d.new, "inspect") ELSE Fail("inspect")
    /\ UNCHANGED <<box, flight, service>>

-----------------------------------------------------------------------------
(* The waits. *)

inspect_old ==
    /\ d.pc = "inspect_old"
    /\ d' = IF cur.id \in Managed /\ is_active_runtime(cur.id) THEN Go("stop_old") ELSE Go("create")
    /\ UNCHANGED <<box, flight, faults, service>>

\* classify_health for a Service with a healthcheck.
ready(c) == box[c].run = "healthy"

\* Until the deadline: ready, or a failure; a Cancelled one is a health failure too.
monitor_container ==
    /\ d.pc = "monitor"
    /\ d' = IF d.cancelled THEN Broken(d.new, "health")
            ELSE IF ready(d.new) THEN Go("serve")
            ELSE IF d.new \in Present THEN Broken(d.new, "health")
            ELSE Broken(d.new, "inspect")
    /\ UNCHANGED <<box, flight, faults, service>>

\* The barrier over the Machines' replicas of the observations; these may be old, so
\* it can pass for a container that was once healthy, and it can time out.
wait_serving ==
    /\ d.pc = "serve"
    /\ \/ /\ ~d.cancelled /\ box[d.new].was
          /\ d' = IF cur.op = "run" THEN Done
                  ELSE Go(IF StopFirst THEN "remove_old" ELSE "retire")
       \/ d' = Broken(d.new, "barrier")
    /\ UNCHANGED <<box, flight, faults, service>>

wait_dropped ==
    /\ d.pc = "dropped"
    /\ (~d.cancelled /\ d' = Done) \/ d' = Fail("barrier")
    /\ UNCHANGED <<box, flight, faults, service>>

\* With a token of its own: a cancellation does not reach it.
wait_restored ==
    /\ d.pc = "restored"
    /\ (box[cur.id].was /\ d' = Undone("ok")) \/ d' = Undone("failed")
    /\ UNCHANGED <<box, flight, faults, service>>

hook_succeeded(c) == box[c].run = "done"

await_hook ==
    /\ d.pc = "await"
    /\ LET run == box[d.new].run IN
       \/ ~d.cancelled /\ hook_succeeded(d.new) /\ d' = Done
       \/ ~d.cancelled /\ run = "exited" /\ ~hook_succeeded(d.new) /\ d' = Fail("hook")
       \/ d' = Go("interrupt")
    /\ UNCHANGED <<box, flight, faults, service>>

Waits == inspect_old \/ monitor_container \/ wait_serving \/ wait_dropped \/ wait_restored \/ await_hook

-----------------------------------------------------------------------------
(* Deploys. *)

\* The managed containers of ms, each Machine's newest first, as Docker lists them.
Listing(ms) ==
    LET newest == [i \in DOMAIN box |-> Len(box) + 1 - i]
    IN Joined([i \in DOMAIN ms |-> Keep(newest, {c \in Managed : box[c].on = ms[i]})])

\* Gathers the snapshot and plans from it.  Machines that do not answer are missing in
\* the listing (lost) and may be missing in the telemetry (roomy has not those).
Begin(rev, selected) ==
    /\ d.pc = "idle" /\ d.runs < MaxDeploys
    /\ \E lost \in SUBSET Machines :
         /\ faults' = faults + Cardinality(lost) /\ faults' <= MaxFaults
         /\ \E roomy \in {Machines, Machines \ lost},
               list \in {Listing(order) : order \in Orders(Machines \ lost)} :
            \E ms \in Orders(Candidates(Of(list, "web", "service"), rev, roomy)) :
              LET plan == assemble_plan(list, ms, rev, roomy, lost = {}, selected)
                  next == [Idle EXCEPT
                            !.rev = rev, !.plan = plan.ops, !.runs = d.runs + 1,
                            !.cancels = d.cancels,
                            !.seen = d.seen /\ lost = {},
                            !.sound = lost = {} /\ ~selected /\ \A m \in Machines : Admitted(m)]
              IN /\ Global \/ Ranked(Of(list, "web", "service"), ms, rev)
                 /\ d' = IF plan.refused THEN [next EXCEPT !.result = "refused", !.plan = <<>>]
                         ELSE [next EXCEPT !.pc = "next", !.result = "running"]
    /\ UNCHANGED <<box, flight, service>>

\* The loop over the operations looks at the cancellation between two of them.
NextOperation ==
    /\ d.pc = "next"
    /\ d' = IF d.plan = <<>> THEN [d EXCEPT !.pc = "idle", !.result = "success"]
            ELSE IF d.cancelled THEN Fail("cancelled")
            ELSE Start(d)
    /\ UNCHANGED <<box, flight, faults, service>>

Cancel ==
    /\ d.pc # "idle" /\ ~d.cancelled /\ d.cancels < MaxCancels
    /\ d' = [d EXCEPT !.cancelled = TRUE, !.cancels = @ + 1]
    /\ UNCHANGED <<box, flight, faults, service>>

\* The process that executes the Deploy dies; its last call may still run.
Die ==
    /\ d.pc # "idle" /\ faults < MaxFaults
    /\ faults' = faults + 1
    /\ d' = [d EXCEPT !.pc = "idle", !.result = "died", !.plan = <<>>]
    /\ \/ UNCHANGED flight
       \/ /\ d.pc \in Calls /\ Admitted(Request.on)
          /\ flight' = [flight EXCEPT ![Request.on] = Request]
    /\ UNCHANGED <<box, service>>

-----------------------------------------------------------------------------

\* A Service that revision 1 was deployed of, and one that is no longer in the target.
First(s) ==
    LET Is(svc, kind, m, spec, run, key) ==
            [svc |-> svc, kind |-> kind, on |-> m, spec |-> spec,
             port |-> s.port /\ svc = "web" /\ kind = "service",
             key |-> key, run |-> run, row |-> TRUE, was |-> kind = "service"]
        order == CHOOSE f \in Orders(Machines) : TRUE
        homes == IF s.volume THEN <<s.home>> ELSE order
        count == IF s.mode = "global" THEN Cardinality(Machines) ELSE s.replicas
        key   == IF s.mode = "global" THEN [spec |-> 1, old |-> 0] ELSE NoKey
        at(i) == IF s.mode = "global" THEN order[i]
                 ELSE homes[((i - 1) % Len(homes)) + 1]
    IN <<Is("gone", "service", s.home, 1, "healthy", NoKey)>>
       \o (IF s.hook THEN <<Is("web", "hook", s.home, 1, "done", NoKey)>> ELSE <<>>)
       \o [i \in 1..count |-> Is("web", "service", at(i), 1, "healthy", key)]

Init ==
    /\ service \in Services
    /\ box = First(service)
    /\ flight = [m \in Machines |-> NoCall(m)]
    /\ faults = 0
    /\ d = Idle

Work == Answered \/ Waits \/ NextOperation

Finishes == \E m \in Machines : Finish(m) /\ UNCHANGED <<service, d>>

World ==
    /\ \/ \E m \in Machines : Crash(m)
       \/ \E c \in Containers : Evolve(c)
    /\ UNCHANGED <<service, d>>

Next ==
    \/ \E rev \in Revisions, selected \in BOOLEAN : Begin(rev, selected)
    \/ Work
    \/ Finishes
    \/ Unanswered
    \/ Uninspected
    \/ Cancel
    \/ Die
    \/ World

Spec == Init /\ [][Next]_vars

\* Every call and every wait of a Deploy is bounded, and admitted work ends.
FairSpec == Spec /\ WF_vars(Work \/ Finishes)

-----------------------------------------------------------------------------
(* Properties. *)

\* The variables have their types, and a Deploy holds the container it waits for.
TypeOK ==
    /\ \A c \in Containers :
         box[c] \in [svc : {"web", "gone"}, kind : {"service", "hook"}, on : Machines,
                    spec : Revisions \cup {1}, port : BOOLEAN, key : [spec : Nat, old : Nat],
                    run : State, row : BOOLEAN, was : BOOLEAN]
    /\ \A m \in Machines : flight[m] = NoCall(m) \/ flight[m].on = m
    /\ faults \in 0..MaxFaults
    /\ service \in Services
    /\ d.pc \in Calls \cup {"idle", "next", "inspect_old", "monitor", "serve", "dropped",
                           "restored", "await"}
    /\ d.result \in {"running", "success", "failed", "refused", "died"}
    /\ d.pc \in {"start", "discard", "monitor", "serve", "stop_new", "await", "interrupt"}
         => d.new \in Containers
    /\ d.pc \notin {"idle", "next"} => d.plan # <<>>

Web == {c \in Managed : box[c].svc = "web" /\ box[c].kind = "service"}

\* A Deploy that succeeds, planned from a complete listing with nothing in flight, leaves
\* exactly the containers that were asked for: all of the deployed revision, all running,
\* one per Machine or as many as replicas, and none of a Service that is not in the target.
Converged ==
    d.pc = "idle" /\ d.result = "success" /\ d.sound =>
        /\ \A c \in Web : box[c].spec = d.rev /\ is_active_runtime(c)
        /\ IF Global THEN \A m \in Machines : Cardinality({c \in Web : box[c].on = m}) = 1
           ELSE Cardinality(Web) = service.replicas
        /\ d.runs > 0 => \A c \in Managed : box[c].svc # "gone"

\* A replacement that fails leaves the old or the new container running, or says that
\* the old one was not restarted or that its stop got no answer.
KeepsOneOrTells ==
    d.pc = "idle" /\ d.result = "failed" /\ d.sound /\ cur.op = "replace" /\ d.held =>
        \/ is_active_runtime(cur.id)
        \/ d.new # 0 /\ is_active_runtime(d.new)
        \/ d.restart = "failed" \/ d.err = "stop"

\* Two hooks of a Service never run at once, unless a Deploy was planned from a listing
\* that missed one.
OneHook ==
    d.seen => Cardinality({c \in Present : box[c].kind = "hook" /\ is_active_runtime(c)}) <= 1

\* A single replica with a volume: without a fault its containers never run together.
OneWriterReplica ==
    faults = 0 /\ ~Global /\ service.volume /\ service.replicas = 1 =>
        Cardinality({c \in Web : is_active_runtime(c)}) <= 1

\* The planner's account of host ports: without a fault no container is started on a
\* port another one holds, though replicas move and siblings are stopped to free it.
PortsFree ==
    faults = 0 /\ d.pc \in {"start", "restore"} =>
        ~PortTaken(IF d.pc = "start" THEN d.new ELSE cur.id)

\* Every Deploy ends.
Ends == d.pc # "idle" ~> d.pc = "idle"

\* docs/user/deploy/deployments.md: where a new replica does not come up, "the old one
\* keeps serving".
KeepsServing ==
    ~StopFirst /\ ~Global /\ d.seen => \E c \in Web : box[c].run = "healthy"
=============================================================================
