----------------------------- MODULE DeployPlan -----------------------------
(***************************************************************************)
(* How a Deploy is planned: from a listing of the containers, the          *)
(* operations that bring one Service ("web") to a revision, and those that *)
(* retire the Service ("gone") its Environment no longer has.              *)
(***************************************************************************)
EXTENDS ContainerRuntime, Lists

CONSTANT
    Services    \* the Services the instance covers: see service

ASSUME PlanAssumption ==
    Services \subseteq [mode : {"global", "replicated"}, replicas : Nat, port : BOOLEAN,
                        volume : BOOLEAN, hook : BOOLEAN, home : Machines]

VARIABLE
    service     \* the requested spec: mode, replicas, host port, volume and where
                \* it is, pre-deploy hook

\* The revision a container runs stands for its Serving Shape: compare_specs.
is_up_to_date(c, rev) == box[c].run \in Running /\ box[c].spec = rev

\* A Global's container of this very spec that does not run, kept under its creation key.
reusable_global(c, rev) ==
    ~is_active_runtime(c) /\ box[c].key # NoKey /\ box[c].spec = rev

Global == service.mode = "global"

\* Mutant: only a host port does.
StopFirstForPorts == service.port

\* A conflicting host port or a mounted volume stops the old container first.
StopFirst == service.port \/ service.volume

\* The update order is part of a resolved spec; a creation key tells it.
OrderOf(key) == service.volume \/ (service.port /\ key.old # 0)

\* An operation: its Machine, the container it is about (for a run, the one it reuses),
\* the revision, and the hooks to remove.
Op(op, m, c, rev, olds) == [op |-> op, on |-> m, id |-> c, rev |-> rev, olds |-> olds]

RunOp(m, c, rev)     == Op("run", m, c, rev, <<>>)
ReplaceOp(m, c, rev) == Op("replace", m, c, rev, <<>>)
StopOp(c)            == Op("stop", box[c].on, c, 0, <<>>)
RemoveOp(c)          == Op("remove", box[c].on, c, 0, <<>>)

Map(f(_), s) == [i \in DOMAIN s |-> f(s[i])]

OnMachine(list, m) == Keep(list, {c \in Containers : box[c].on = m})

ActiveIn(list) == Keep(list, {c \in Containers : is_active_runtime(c)})

\* Mutant: containers the plan does not use are left alone.
keep_unused(list, used) == <<>>

remove_unused(list, used) == Map(RemoveOp, Keep(list, Elements(list) \ used))

Planned(ops, hook) == [refused |-> FALSE, ops |-> ops, hook |-> hook]
Refused            == [refused |-> TRUE, ops |-> <<>>, hook |-> {}]

-----------------------------------------------------------------------------
(* A Global Service: one container on every Machine. *)

\* What becomes of a Machine: the containers it keeps, the operations, whether this
\* is an endpoint change (a hook runs for those alone), and a refusal.
GlobalOn(m, list, rev, roomy) ==
    LET here == OnMachine(list, m)
        kept == Keep(here, {c \in Containers : is_up_to_date(c, rev)})
        idle == Keep(here, {c \in Containers : reusable_global(c, rev)})
        act  == ActiveIn(here)
        Is(used, ops, changes, refused) ==
            [used |-> used, ops |-> ops, changes |-> changes, refused |-> refused]
    IN CASE kept # <<>> -> Is({kept[1]}, <<>>, FALSE, FALSE)
         [] kept = <<>> /\ idle # <<>> ->
              Is({idle[1]}, <<RunOp(m, idle[1], rev)>>, FALSE, service.port /\ act # <<>>)
         [] kept = <<>> /\ idle = <<>> /\ act # <<>> ->
              Is({act[1]},
                 (IF service.port THEN Map(StopOp, Tail(act)) ELSE <<>>)
                    \o <<ReplaceOp(m, act[1], rev)>>, TRUE, m \notin roomy)
         [] OTHER -> Is({}, <<RunOp(m, 0, rev)>>, TRUE, m \notin roomy)

\* ms: the eligible Machines in the order the placement seed shuffled them to.
plan_global(list, ms, rev, roomy) ==
    LET on      == [i \in DOMAIN ms |-> GlobalOn(ms[i], list, rev, roomy)]
        used    == UNION {on[i].used : i \in DOMAIN ms}
        changed == Keep(ms, {m \in Machines : GlobalOn(m, list, rev, roomy).changes})
    IN IF \E i \in DOMAIN ms : on[i].refused THEN Refused
       ELSE Planned(Joined(Map(LAMBDA x : x.ops, on)) \o remove_unused(list, used),
                    IF changed = <<>> THEN {} ELSE {changed[1]})

-----------------------------------------------------------------------------
(* A replicated Service. *)

UpToDate(list, m, rev) ==
    Keep(OnMachine(list, m), {c \in Containers : is_up_to_date(c, rev)})

\* The Machines in the order they are tried: most up-to-date containers first, then
\* most containers; the shuffle orders the rest.
Ranked(list, ms, rev) ==
    \A i, j \in DOMAIN ms : i < j =>
        LET a == Len(UpToDate(list, ms[i], rev))
            b == Len(UpToDate(list, ms[j], rev))
        IN a > b \/ (a = b /\ Len(OnMachine(list, ms[i])) >= Len(OnMachine(list, ms[j])))

\* Selection as it goes: containers left on each Machine, the host port's claims there
\* (0 for a container this plan creates), the cursor, what was chosen.
Selection(list, rev) ==
    [left   |-> [m \in Machines |->
                    Keep(OnMachine(list, m), {c \in Containers : ~is_up_to_date(c, rev)})
                       \o UpToDate(list, m, rev)],
     claims |-> [m \in Machines |-> {c \in Elements(ActiveIn(OnMachine(list, m))) : box[c].port}],
     cursor |-> 0, used |-> {}, ops |-> <<>>, hook |-> {}, refused |-> FALSE]

\* Unselected siblings that hold the host port a replacement needs.
conflicting_siblings(left) ==
    IF service.port THEN ActiveIn(Front(left)) ELSE <<>>

Unchanged(left, rev) == left # <<>> /\ is_up_to_date(Last(left), rev)

\* sockets.fits: no other claim on the port is in the way.
SocketFits(p, m, rev) ==
    LET left == p.left[m] IN
    \/ ~service.port \/ Unchanged(left, rev)
    \/ p.claims[m] \subseteq IF left = <<>> THEN {}
                             ELSE {Last(left)} \cup Elements(conflicting_siblings(left))

\* The next replica goes to the first Machine from the cursor on that takes it.
SelectOne(p, ms, rev, roomy) ==
    LET n     == Len(ms)
        At(i) == ms[((p.cursor + i) % n) + 1]
        Takes(i) == /\ SocketFits(p, At(i), rev)
                    /\ Unchanged(p.left[At(i)], rev) \/ At(i) \in roomy
        fit == {i \in 0..(n - 1) : Takes(i)}
    IN IF p.refused \/ fit = {} THEN [p EXCEPT !.refused = TRUE]
       ELSE LET i    == CHOOSE x \in fit : \A y \in fit : x <= y
                m    == At(i)
                left == p.left[m]
                q    == [p EXCEPT !.cursor = @ + i + 1]
            IN IF Unchanged(left, rev)
               THEN [q EXCEPT !.left[m] = Front(@), !.used = @ \cup {Last(left)}]
               ELSE LET stops == IF left = <<>> THEN <<>> ELSE conflicting_siblings(left)
                        freed == Elements(stops) \cup (IF left = <<>> THEN {} ELSE {Last(left)})
                    IN [q EXCEPT
                         !.left[m]   = Keep(@, Elements(@) \ freed),
                         !.claims[m] = (@ \ freed) \cup {0},
                         !.used      = @ \cup (IF left = <<>> THEN {} ELSE {Last(left)}),
                         !.hook      = IF @ = {} THEN {m} ELSE @,
                         !.ops       = @ \o Map(StopOp, stops)
                                         \o <<IF left = <<>> THEN RunOp(m, 0, rev)
                                              ELSE ReplaceOp(m, Last(left), rev)>>]

plan_replicated(list, ms, rev, roomy) ==
    LET select_replicated[k \in 0..service.replicas] ==
            IF k = 0 THEN Selection(list, rev)
            ELSE SelectOne(select_replicated[k - 1], ms, rev, roomy)
        p == select_replicated[service.replicas]
    IN IF p.refused THEN Refused
       ELSE Planned(p.ops \o remove_unused(list, p.used), p.hook)

\* Eligible Machines: where the volume is, with room for a container or one to keep.
Candidates(list, rev, roomy) ==
    IF Global THEN Machines
    ELSE {m \in (IF service.volume THEN {service.home} ELSE Machines) :
             m \in roomy \/ UpToDate(list, m, rev) # <<>>}

-----------------------------------------------------------------------------
(* The plan of a Deploy. *)

\* Mutant: hooks of earlier Deploys are not looked at.
pre_deploy_alone(list, plan, rev) ==
    IF ~service.hook \/ plan.hook = {} THEN <<>>
    ELSE <<Op("hook", CHOOSE m \in plan.hook : TRUE, 0, rev, <<>>)>>

\* Stop the hooks that run, then run this one, which removes the earlier ones.
pre_deploy_operations(list, plan, rev) ==
    LET StopHookOp(c) == Op("stophook", box[c].on, c, 0, <<>>) IN
    IF ~service.hook \/ plan.hook = {} THEN <<>>
    ELSE Map(StopHookOp, ActiveIn(list))
            \o <<Op("hook", CHOOSE m \in plan.hook : TRUE, 0, rev, list)>>

Of(list, svc, kind) ==
    Keep(list, {c \in Containers : box[c].svc = svc /\ box[c].kind = kind})

\* prune_refusal: nothing is retired from an incomplete listing or a partial Deploy.
prune_allowed(complete, selected) == complete /\ ~selected

\* ms: the order of the eligible Machines; roomy: those whose free endpoints are known.
plan_one_service(list, ms, rev, roomy) ==
    LET current == Of(list, "web", "service")
        hooks   == Of(list, "web", "hook")
        plan    == IF ms = <<>> THEN Refused
                   ELSE IF Global THEN plan_global(current, ms, rev, roomy)
                   ELSE plan_replicated(current, ms, rev, roomy)
    IN [plan EXCEPT !.ops = pre_deploy_operations(hooks, plan, rev) \o @]

\* list: what was observed; the Services the Environment no longer has go last.
assemble_plan(list, ms, rev, roomy, complete, selected) ==
    [plan_one_service(list, ms, rev, roomy) EXCEPT
        !.ops = @ \o (IF prune_allowed(complete, selected)
                      THEN Map(RemoveOp, Of(list, "gone", "service")) ELSE <<>>)]
=============================================================================
