---------------------------- MODULE Certificates ----------------------------
(***************************************************************************)
(* How the Machines of a Cluster obtain the certificate of one Ingress     *)
(* Hostname: every daemon runs the loop of ployzd/src/certificates.rs      *)
(* against its own replica of the certificates table, orders from the      *)
(* certificate authority when its rank and the shared backoff clock allow, *)
(* and writes the whole row back.  The last writer of a row wins on every  *)
(* replica.  Ingress on each Machine serves what its replica holds.        *)
(*                                                                         *)
(* Durations are counted down or up in ticks, never kept as instants, so   *)
(* that the state space is finite without a last instant.                  *)
(***************************************************************************)
EXTENDS Integers, Sequences, FiniteSets

CONSTANTS Machines,      \* Machine ids; their order decides the ranks
          RankStep,      \* RANK_STEP
          ProbeTimeout,  \* policy.probe_timeout()
          BackoffBase,   \* policy.backoff_base()
          BackoffCap,    \* policy.backoff_cap()
          RetryInterval, \* RETRY_INTERVAL
          RenewAt,       \* age at which a Machine's renewal window opens, its
                         \* jitter included
          Sites,         \* what the hostname may resolve to
          Tokens,        \* HTTP-01 tokens the authority hands out
          Prompt,        \* TRUE: waits are the only thing that takes time
          MaxWrites,     \* bound on the versions of the row
          MaxFaults,     \* bound on crashes, authority errors and outages
          MaxAge,        \* age past which material grows no older
          MaxOperator    \* bound on published and cleared material

ASSUME CertificatesAssumption ==
  /\ Machines \subseteq Nat /\ IsFiniteSet(Machines)
  /\ {RankStep, ProbeTimeout, BackoffBase, BackoffCap, RetryInterval,
      MaxWrites, MaxFaults, MaxAge, MaxOperator} \subseteq Nat
  /\ BackoffBase > 0 /\ BackoffBase =< BackoffCap /\ ProbeTimeout > 0
  /\ RenewAt \in [Machines -> Nat]
  /\ Prompt \in BOOLEAN

VARIABLES row,      \* the row of the hostname in each Machine's replica
          stamp,    \* its version: <<causal length, column version, writer>>
          cover,    \* whether the replica holds a published wildcard above it
          elapsed,  \* ticks since first_seen, or Unseen
          task,     \* the pass of the loop each Machine is in
          wake,     \* ticks until the loop polls again
          caddy,    \* token each Machine's Ingress Proxy answers with
          wanted,   \* whether the replica shows a Container that wants https
          site,     \* what the hostname resolves to
          authz,    \* Machines whose account holds a valid authorization
          policy,   \* what resolve_certificate_policy makes of the policy row
          faults,   \* faults so far
          edits     \* published and cleared material so far

store == <<row, stamp, cover, caddy>>
world == <<wanted, site, authz, policy, faults, edits>>
vars == <<row, stamp, cover, elapsed, task, wake, caddy, wanted, site, authz,
          policy, faults, edits>>

Unseen == -1
NoToken == "no token"
(* A refusal with its reason and clock; a policy refusal has no clock. *)
NoRefusal == [failures |-> 0, left |-> 0, last |-> "none"]
PolicyRefusal == [NoRefusal EXCEPT !.last = "policy"]

(* The refusals of hostname_verdict. *)
Refusals == {"DoesNotResolve", "Unreachable", "RedirectsToHttps",
             "ReachesElsewhere"}

(* CertificateRow::default(), also what a missing row decodes to. *)
EmptyRow == [published |-> FALSE, material |-> FALSE, age |-> 0,
             challenge |-> NoToken, clock |-> NoRefusal]

(* A pass of the loop: where it is, the row it read or is about to write,  *)
(* the clock of the row it began with, the ticks since then, whether its   *)
(* turn had come, the verdict, the token and deadline of its order, and    *)
(* what follows a write.                                                   *)
Idle == [pc |-> "idle", held |-> EmptyRow, clock |-> NoRefusal, since |-> 0,
         due |-> FALSE, route |-> "none", token |-> NoToken, left |-> 0,
         after |-> "none"]

NoEdits == [set |-> 0, clear |-> 0, cover |-> 0]

Least(a, b) == IF a < b THEN a ELSE b

\* Mutant: the subtraction does not saturate.
Minus(a, b) == a - b
Less(a, b) == IF a < b THEN 0 ELSE a - b

-----------------------------------------------------------------------------
(* Rows: what each write keeps and what it drops.                          *)

HasMaterial(r) == r.published \/ r.material

issued == [EmptyRow EXCEPT !.material = TRUE]
with_challenge(r, t) ==
  IF r.published THEN r ELSE [r EXCEPT !.challenge = t]
with_refusal(r, clock) ==
  IF r.published THEN r ELSE [r EXCEPT !.clock = clock]
Published == [EmptyRow EXCEPT !.published = TRUE]

(* The versions of a row are ordered as cr-sqlite orders them. *)
Newer(s, t) ==
  \/ s[1] > t[1]
  \/ s[1] = t[1] /\ s[2] > t[2]
  \/ s[1] = t[1] /\ s[2] = t[2] /\ s[3] > t[3]

(* Only the order of the versions in the replicas matters, so counting     *)
(* starts over once all replicas hold the same one.                        *)
Settled(versions) ==
  IF \E m, n \in Machines : versions[m] # versions[n] THEN versions
  ELSE [m \in Machines |-> <<0, 0, 0>>]

-----------------------------------------------------------------------------
(* When a Machine may order: rank, renewal window, verdict and backoff.    *)

\* Mutant: every Machine is the first.
no_rank(m) == 0
machine_rank(m) == Cardinality({n \in Machines : n < m})

issuance_step == IF RankStep < ProbeTimeout THEN ProbeTimeout ELSE RankStep
rank_delay(m) == issuance_step * machine_rank(m)

(* Ticks until the Machine should order or renew; 0 is now. *)
action_due(m, r, waited) ==
  IF ~HasMaterial(r) THEN Less(rank_delay(m), waited)
  ELSE Less(RenewAt[m] + rank_delay(m), r.age)

(* An address that resolves is a Machine's, a proxy's in front of the      *)
(* Cluster, or one of somebody else who redirects, answers or is silent.   *)
judge(address) ==
  CASE address.of = "machine" -> "Direct"
    [] address.of = "proxy" -> "ViaProxy"
    [] address.of = "redirect" -> "RedirectsToHttps"
    [] address.of = "elsewhere" -> "ReachesElsewhere"
    [] address.of = "silent" -> "Unreachable"

Verdicts(addresses) == {judge(addresses[i]) : i \in DOMAIN addresses}

hostname_verdict(addresses) ==
  IF "Direct" \in Verdicts(addresses) THEN "Direct"
  ELSE IF "ViaProxy" \in Verdicts(addresses) THEN "ViaProxy"
  ELSE IF addresses = <<>> THEN "DoesNotResolve"
  ELSE judge(addresses[1])

issuance_backoff(failures) ==
  Least(BackoffBase * 2^(failures - 1), BackoffCap)

(* Failures past the one that reaches the cap all wait the cap, so the     *)
(* count stops there.                                                      *)
FailureCap == CHOOSE n \in 1..BackoffCap + 1 :
                /\ issuance_backoff(n) = BackoffCap
                /\ \A k \in 1..n - 1 : issuance_backoff(k) < BackoffCap

(* "since" is how long ago the pass that failed read its wall clock. *)
issuance_failure_clock(clock, failure, since) ==
  LET failures == IF clock.last = failure
                  THEN Least(clock.failures + 1, FailureCap) ELSE 1
  IN  [failures |-> failures, last |-> failure,
       left |-> Less(issuance_backoff(failures), since)]

\* Mutant: a recorded failure is waited out for ever.
WaitingAlways(clock) == clock.last \notin {"none", "policy"}
Waiting(clock) == clock.left > 0

VerdictChanged(clock, verdict) ==
  clock.last \in Refusals /\ clock.last # verdict

issuance_gate(clock, verdict) ==
  IF Waiting(clock) /\ ~VerdictChanged(clock, verdict) THEN "Nothing"
  ELSE IF verdict \in Refusals THEN "Refuse" ELSE "Order"

wanted_certificate_host(m) == wanted[m] /\ ~row[m].published /\ ~cover[m]

(* How long the loop sleeps after a pass that saw row r. *)
poll_wait(m, r, waited) ==
  IF action_due(m, r, waited) = 0 THEN RankStep
  ELSE Least(action_due(m, r, waited), RetryInterval)

Waited(m) == IF elapsed[m] = Unseen THEN 0 ELSE elapsed[m]

-----------------------------------------------------------------------------
Init ==
  /\ \E r \in {EmptyRow, Published} : row = [m \in Machines |-> r]
  /\ stamp = [m \in Machines |-> <<0, 0, 0>>]
  /\ cover = [m \in Machines |-> FALSE]
  /\ elapsed = [m \in Machines |-> Unseen]
  /\ task = [m \in Machines |-> Idle]
  /\ wake = [m \in Machines |-> 0]
  /\ caddy = [m \in Machines |-> NoToken]
  /\ wanted \in [Machines -> BOOLEAN]
  /\ site \in Sites
  /\ authz = {}
  /\ policy = "usable"
  /\ faults = 0
  /\ edits = NoEdits

Step(m, next) == task' = [task EXCEPT ![m] = next]

(* The end of a pass: the loop sleeps for the wait the row calls for. *)
Rest(m, r, waited) ==
  /\ Step(m, Idle)
  /\ wake' = [wake EXCEPT ![m] = poll_wait(m, r, waited)]
RestRetry(m) ==
  /\ Step(m, Idle)
  /\ wake' = [wake EXCEPT ![m] = RetryInterval]

(* The store reads the row, decides, and writes in a second statement. *)
Writing(m, t, put, after) ==
  /\ Step(m, [t EXCEPT !.pc = "writing", !.held = put, !.after = after])
  /\ UNCHANGED wake

(***************************************************************************)
(* issue_wanted up to its first network call: the policy, the Containers   *)
(* and the rows are read, first_seen is kept or set.                       *)
(***************************************************************************)
BeginPass(m) ==
  LET r == row[m]
      due == action_due(m, r, Waited(m)) = 0
  IN  /\ task[m] = Idle /\ wake[m] = 0
      /\ policy = "usable"
      /\ IF ~wanted_certificate_host(m)
         THEN /\ elapsed' = [elapsed EXCEPT ![m] = Unseen]
              /\ RestRetry(m)
         ELSE /\ elapsed' = [elapsed EXCEPT ![m] = IF HasMaterial(r) THEN Unseen
                                                   ELSE Waited(m)]
              /\ IF HasMaterial(r) /\ ~due
                 THEN Rest(m, r, 0)
                 ELSE /\ Step(m, [Idle EXCEPT !.pc = "judging", !.held = r,
                                              !.clock = r.clock, !.due = due])
                      /\ UNCHANGED wake
      /\ UNCHANGED <<store, world>>

(* A policy row the daemon cannot follow: only the reason is recorded, and *)
(* the refusal it replaces takes the backoff clock with it.  Without a     *)
(* directory there is nothing to do.                                       *)
RefusePolicy(m) ==
  /\ task[m] = Idle /\ wake[m] = 0
  /\ \/ /\ policy = "refused" /\ wanted_certificate_host(m)
        /\ row[m].clock # PolicyRefusal
        /\ Writing(m, Idle, with_refusal(row[m], PolicyRefusal), "retry")
     \/ /\ \/ policy = "off" \/ ~wanted_certificate_host(m)
           \/ row[m].clock = PolicyRefusal
        /\ policy # "usable"
        /\ RestRetry(m)
  /\ UNCHANGED <<store, world, elapsed>>

(* The hostname is fetched from every address and the gate decides. *)
Judge(m) ==
  LET t == task[m]
      verdict == hostname_verdict(site)
      gate == issuance_gate(t.clock, verdict)
  IN  /\ t.pc = "judging"
      /\ \/ /\ gate = "Nothing" \/ (gate = "Order" /\ ~t.due)
            /\ Rest(m, t.held, Waited(m))
            /\ UNCHANGED elapsed
         \/ /\ gate = "Refuse"
            /\ elapsed' = [elapsed EXCEPT ![m] = Unseen]
            /\ IF machine_rank(m) = 0 /\ ~HasMaterial(t.held)
               THEN /\ Step(m, [t EXCEPT !.pc = "refusing", !.held = EmptyRow,
                                         !.clock = issuance_failure_clock(
                                                     @, verdict, t.since)])
                    /\ UNCHANGED wake
               ELSE Rest(m, t.held, 0)
         \/ /\ gate = "Order" /\ t.due
            /\ Step(m, [t EXCEPT !.pc = "obtaining", !.held = EmptyRow,
                                 !.route = verdict])
            /\ UNCHANGED <<elapsed, wake>>
      /\ UNCHANGED <<store, world>>

\* Mutant: a late failure is recorded over material the authority issued.
RecordFailureOver(m, clock) ==
  IF row[m].published THEN Rest(m, row[m], Waited(m))
  ELSE Writing(m, Idle, [EmptyRow EXCEPT !.clock = clock], "rest")

(* record_certificate_failure: nothing for a row that has material, else   *)
(* the clock with the rest of the row it read.                             *)
RecordFailure(m, clock) ==
  IF HasMaterial(row[m]) THEN Rest(m, row[m], Waited(m))
  ELSE Writing(m, Idle, with_refusal(row[m], clock), "rest")

RecordRefusal(m) ==
  /\ task[m].pc = "refusing"
  /\ RecordFailure(m, task[m].clock)
  /\ UNCHANGED <<store, world, elapsed>>

RecordAuthorityFailure(m) ==
  /\ task[m].pc = "failed"
  /\ RecordFailure(m, issuance_failure_clock(task[m].clock, "Authority",
                                             task[m].since))
  /\ UNCHANGED <<store, world, elapsed>>

(* The order of Machine m has failed. *)
Fail(m) == Step(m, [Idle EXCEPT !.pc = "failed", !.clock = task[m].clock,
                                !.since = task[m].since])

TokensInUse ==
  UNION {{row[m].challenge, caddy[m], task[m].token, task[m].held.challenge} :
           m \in Machines}
FreshToken == CHOOSE token \in Tokens : token \notin TokensInUse

(***************************************************************************)
(* obtain and order_certificate up to the written challenge: the row is    *)
(* read again, the authority hands out a token, and the challenge is put   *)
(* in the row as publish_certificate_challenge reads it.  An account that  *)
(* holds a valid authorization for the hostname presents nothing.          *)
(***************************************************************************)
NewOrder(m) ==
  LET t == task[m]
      r == row[m]
  IN  /\ t.pc = "obtaining"
      /\ \/ /\ HasMaterial(r) /\ action_due(m, r, 0) > 0
            /\ Rest(m, r, Waited(m))
         \/ /\ ~HasMaterial(r) \/ action_due(m, r, 0) = 0
            /\ IF m \in authz
               THEN Step(m, [t EXCEPT !.pc = "issued"]) /\ UNCHANGED wake
               ELSE IF r.published
               THEN /\ Step(m, [t EXCEPT !.pc = "probing", !.token = FreshToken,
                                         !.left = ProbeTimeout])
                    /\ UNCHANGED wake
               ELSE Writing(m, [t EXCEPT !.token = FreshToken],
                            with_challenge(r, FreshToken), "probing")
      /\ UNCHANGED <<store, world, elapsed>>

Bump(m) == stamp' = Settled([stamp EXCEPT ![m] =
             <<IF @[1] % 2 = 1 THEN @[1] ELSE @[1] + 1, @[2] + 1, m>>])

(* The second half of every write: the row goes in whole, as the version   *)
(* after the one the replica holds by now.                                 *)
Write(m) ==
  LET t == task[m]
  IN  /\ t.pc = "writing"
      /\ stamp[m][2] < MaxWrites
      /\ row' = [row EXCEPT ![m] = t.held]
      /\ Bump(m)
      /\ CASE t.after = "probing" ->
                /\ Step(m, [t EXCEPT !.pc = "probing", !.held = EmptyRow,
                                     !.after = "none", !.left = ProbeTimeout])
                /\ UNCHANGED wake
           [] t.after = "retry" -> RestRetry(m)
           [] OTHER -> Rest(m, t.held, Waited(m))
      /\ UNCHANGED <<cover, caddy, world, elapsed>>

challenge_probe_addresses(route) ==
  {site[i] : i \in {j \in DOMAIN site : 
                           route = "ViaProxy" \/ site[j].of = "machine"}}

(* A proxy forwards a request to one of the Machines. *)
challenge_is_served(token, address, via) ==
  \/ address.of = "machine" /\ caddy[address.id] = token
  \/ address.of = "proxy" /\ caddy[via] = token

http01_served(token, route, via) ==
  LET addresses == challenge_probe_addresses(route)
  IN  /\ addresses # {}
      /\ IF route = "Direct"
         THEN \A a \in addresses : challenge_is_served(token, a, via)
         ELSE \E a \in addresses : challenge_is_served(token, a, via)

(* wait_for_http01 sees the challenge where it must be, finds no address   *)
(* to probe, or still misses it when its deadline has passed.              *)
Probe(m) ==
  /\ task[m].pc = "probing"
  /\ \E via \in Machines :
       LET served == http01_served(task[m].token, task[m].route, via)
       IN  \/ served /\ Step(m, [task[m] EXCEPT !.pc = "validating", !.left = 0])
           \/ /\ ~served
              /\ \/ task[m].left = 0
                 \/ challenge_probe_addresses(task[m].route) = {}
              /\ Fail(m)
  /\ UNCHANGED <<store, world, elapsed, wake>>

(* The authority fetches the challenge itself, from whichever address it   *)
(* picks, and issues the certificate if it finds it.                       *)
Validate(m) ==
  /\ task[m].pc = "validating"
  /\ \/ /\ \E i \in DOMAIN site, via \in Machines :
              challenge_is_served(task[m].token, site[i], via)
        /\ Step(m, [task[m] EXCEPT !.pc = "issued", !.token = NoToken])
        /\ authz' = authz \cup {m}
     \/ /\ \A i \in DOMAIN site : \E via \in Machines :
              ~challenge_is_served(task[m].token, site[i], via)
        /\ Fail(m)
        /\ UNCHANGED authz
  /\ UNCHANGED <<store, elapsed, wake, wanted, site, policy, faults, edits>>

\* Mutant: what was published meanwhile is not looked at.
PublishOver(m) ==
  /\ task[m].pc = "issued"
  /\ Writing(m, task[m], issued, "rest")
  /\ UNCHANGED <<store, world, elapsed>>

(* publish_certificate, unless the row holds published material by then. *)
PublishIssued(m) ==
  /\ task[m].pc = "issued"
  /\ IF row[m].published THEN Rest(m, row[m], Waited(m))
     ELSE Writing(m, task[m], issued, "rest")
  /\ UNCHANGED <<store, world, elapsed>>

Fault == faults < MaxFaults /\ faults' = faults + 1

(* The account cannot be used: the pass ends with an error, unrecorded. *)
AccountError(m) ==
  /\ Fault
  /\ task[m].pc = "obtaining"
  /\ RestRetry(m)
  /\ UNCHANGED <<store, elapsed, wanted, site, authz, policy, edits>>

(* A call to the authority or to the store fails.  A failure to record a   *)
(* failure is only logged.                                                 *)
CallError(m) ==
  /\ Fault
  /\ \/ /\ \/ task[m].pc \in {"obtaining", "validating", "issued"}
           \/ task[m].pc = "writing" /\ task[m].route # "none"
        /\ Fail(m)
        /\ UNCHANGED wake
     \/ /\ task[m].pc = "writing" /\ task[m].route = "none"
        /\ IF task[m].after = "retry" THEN RestRetry(m)
           ELSE Rest(m, row[m], Waited(m))
  /\ UNCHANGED <<store, elapsed, wanted, site, authz, policy, edits>>

-----------------------------------------------------------------------------
(* Replication, Ingress, operators, faults and time.                       *)

(* A replica takes a newer version of the row from another. *)
Replicate(m, n) ==
  /\ Newer(stamp[m], stamp[n])
  /\ row' = [row EXCEPT ![n] = row[m]]
  /\ stamp' = Settled([stamp EXCEPT ![n] = stamp[m]])
  /\ UNCHANGED <<cover, caddy, world, elapsed, task, wake>>

(* The Ingress Proxy of a Machine is brought up to its replica. *)
Reconcile(m) ==
  /\ caddy[m] # row[m].challenge
  /\ caddy' = [caddy EXCEPT ![m] = row[m].challenge]
  /\ UNCHANGED <<row, stamp, cover, world, elapsed, task, wake>>

Edit(kind) ==
  /\ edits.set + edits.clear + edits.cover < MaxOperator
  /\ edits' = [edits EXCEPT ![kind] = @ + 1]

publish_certificate_material(m) ==
  /\ Edit("set")
  /\ ~row[m].published
  /\ stamp[m][2] < MaxWrites
  /\ row' = [row EXCEPT ![m] = Published]
  /\ Bump(m)
  /\ UNCHANGED <<cover, caddy, elapsed, task, wake, wanted, site, authz,
                 policy, faults>>

clear_published_certificate(m) ==
  /\ Edit("clear")
  /\ row[m].published
  /\ row' = [row EXCEPT ![m] = EmptyRow]
  /\ stamp' = Settled([stamp EXCEPT ![m] = <<@[1] + 1, 0, m>>])
  /\ UNCHANGED <<cover, caddy, elapsed, task, wake, wanted, site, authz,
                 policy, faults>>

(* The published wildcard above the hostname comes or goes. *)
CoverChanges(m) ==
  /\ Edit("cover")
  /\ cover' = [cover EXCEPT ![m] = ~@]
  /\ UNCHANGED <<row, stamp, caddy, elapsed, task, wake, wanted, site, authz,
                 policy, faults>>

(* The Containers of the replica change, the one that wants the hostname   *)
(* or another: the loop wakes.                                             *)
Observe(m) ==
  /\ ~wanted[m] \/ (~Prompt /\ wake[m] > 0)
  /\ wanted' = [wanted EXCEPT ![m] = TRUE]
  /\ wake' = [wake EXCEPT ![m] = 0]
  /\ UNCHANGED <<store, elapsed, task, site, authz, policy, faults, edits>>

(* The hostname's records, or the policy row, change under the Cluster. *)
Outage ==
  /\ Fault
  /\ \/ site' \in Sites \ {site} /\ UNCHANGED policy
     \/ policy' \in {"usable", "refused", "off"} \ {policy} /\ UNCHANGED site
  /\ UNCHANGED <<store, elapsed, task, wake, wanted, authz, edits>>

(* The daemon stops and starts: first_seen and the order are forgotten. *)
Restart(m) ==
  /\ Fault
  /\ elapsed' = [elapsed EXCEPT ![m] = Unseen]
  /\ Step(m, Idle)
  /\ wake' = [wake EXCEPT ![m] = 0]
  /\ UNCHANGED <<store, wanted, site, authz, policy, edits>>

(* Whether Machine m has nothing to do but wait. *)
AtRest(m) ==
  \/ task[m] = Idle /\ wake[m] > 0
  \/ /\ task[m].pc = "probing" /\ task[m].left > 0
     /\ \A via \in Machines : ~http01_served(task[m].token, task[m].route, via)

Quiet ==
  /\ \A m \in Machines : AtRest(m) /\ caddy[m] = row[m].challenge
  /\ \A m, n \in Machines : ~Newer(stamp[m], stamp[n]) /\ wanted[m] = wanted[n]

OlderClock(clock) == [clock EXCEPT !.left = Less(@, 1)]
OlderRow(r) == [r EXCEPT !.clock = OlderClock(@),
                         !.age = IF r.material THEN Least(@ + 1, MaxAge) ELSE @]
OlderTask(t) ==
  IF t = Idle THEN t
  ELSE [t EXCEPT !.held = OlderRow(@), !.clock = OlderClock(@),
                 !.left = Less(@, 1), !.since = Least(@ + 1, BackoffCap)]

LongestDelay == issuance_step * Cardinality(Machines)

Tick ==
  /\ Prompt => Quiet
  /\ row' = [m \in Machines |-> OlderRow(row[m])]
  /\ task' = [m \in Machines |-> OlderTask(task[m])]
  /\ wake' = [m \in Machines |-> Less(wake[m], 1)]
  /\ elapsed' = [m \in Machines |-> IF elapsed[m] = Unseen THEN Unseen
                                    ELSE Least(elapsed[m] + 1, LongestDelay)]
  /\ UNCHANGED <<stamp, cover, caddy, world>>

Daemon(m) ==
  \/ BeginPass(m) \/ RefusePolicy(m) \/ Judge(m) \/ RecordRefusal(m)
  \/ NewOrder(m) \/ Probe(m) \/ Validate(m) \/ PublishIssued(m)
  \/ RecordAuthorityFailure(m) \/ Write(m)

Operator(m) ==
  \/ publish_certificate_material(m) \/ clear_published_certificate(m)
  \/ CoverChanges(m)

Next ==
  \/ \E m \in Machines : Daemon(m) \/ Reconcile(m) \/ Observe(m)
  \/ \E m, n \in Machines : Replicate(m, n)
  \/ \E m \in Machines : AccountError(m) \/ CallError(m) \/ Restart(m)
  \/ \E m \in Machines : Operator(m)
  \/ Outage
  \/ Tick

Spec == Init /\ [][Next]_vars

-----------------------------------------------------------------------------
Pcs == {"idle", "judging", "refusing", "obtaining", "writing", "probing",
        "validating", "issued", "failed"}

Clocks == [failures : 0..FailureCap, left : 0..BackoffCap,
           last : Refusals \cup {"none", "policy", "Authority"}]

Rows == [published : BOOLEAN, material : BOOLEAN, age : 0..MaxAge,
         challenge : Tokens \cup {NoToken}, clock : Clocks]

(* Every field holds what its type allows, and no replica has run into the *)
(* bound on versions when waits are all that takes time.                   *)
TypeOK ==
  /\ row \in [Machines -> Rows]
  /\ stamp \in [Machines -> Nat \X (0..MaxWrites) \X (Machines \cup {0})]
  /\ cover \in [Machines -> BOOLEAN] /\ wanted \in [Machines -> BOOLEAN]
  /\ elapsed \in [Machines -> {Unseen} \cup 0..LongestDelay]
  /\ wake \in [Machines -> Nat]
  /\ caddy \in [Machines -> Tokens \cup {NoToken}]
  /\ authz \subseteq Machines /\ site \in Sites
  /\ policy \in {"usable", "refused", "off"}
  /\ \A m \in Machines :
       /\ task[m].pc \in Pcs /\ task[m].held \in Rows /\ task[m].clock \in Clocks
       /\ task[m].since \in 0..BackoffCap /\ task[m].left \in 0..ProbeTimeout
  /\ Prompt => \A m \in Machines : stamp[m][2] < MaxWrites

Presenting(m) ==
  task[m].pc = "probing" \/ (task[m].pc = "writing" /\ task[m].after = "probing")
Ordering(m) == Presenting(m) \/ task[m].pc \in {"validating", "issued"}

(* While nothing fails, one Machine orders at a time: a later rank starts  *)
(* no order while an earlier one is presenting (issuance_action).          *)
RanksTakeTurns ==
  faults = 0 /\ edits = NoEdits =>
    \A m, n \in Machines :
      m < n /\ Presenting(m) => ~Ordering(n)

(* Published material on every replica, and no daemon between the two      *)
(* statements of a write.                                                  *)
PublishedEverywhere ==
  \A m \in Machines : row[m].published /\ task[m].pc # "writing"

(* Once published material is on every replica, no order still under way   *)
(* and no failure of one takes it away: only an operator does (acme_row).  *)
PublishedSettles ==
  [][PublishedEverywhere /\ edits' = edits => PublishedEverywhere']_vars

(* Material on every replica and in every row about to be written. *)
CertifiedEverywhere ==
  \A m \in Machines :
    HasMaterial(row[m]) /\ (task[m].pc = "writing" => HasMaterial(task[m].held))

(* A certificate that reached every replica is kept through renewals, late *)
(* failures of other orders and refusals; only an operator clears one      *)
(* (record_certificate_failure, with_challenge, with_error).               *)
MaterialKept ==
  [][CertifiedEverywhere /\ edits' = edits => CertifiedEverywhere']_vars

(* While no operator clears it, published material stays: ACME never       *)
(* overwrites it (CertificateRow::Published).                              *)
PublishedStays ==
  [][\A m \in Machines :
       row[m].published /\ edits'.clear = 0 => row'[m].published]_vars

Reachable ==
  /\ policy = "usable"
  /\ hostname_verdict(site) \notin Refusals
  /\ \A m \in Machines : ~cover[m]

(* A hostname that comes to reach the Cluster and stays so gets its        *)
(* certificate on every replica, for good, whatever failed before (run).   *)
Obtained == <>[]Reachable => <>[](\A m \in Machines : HasMaterial(row[m]))

(* The loop goes on, replicas converge, Ingress is reconciled and time     *)
(* passes.                                                                 *)
Fairness ==
  /\ WF_vars(Tick)
  /\ \A m \in Machines :
       WF_vars(Daemon(m)) /\ WF_vars(Reconcile(m)) /\ WF_vars(Observe(m))
  /\ \A m, n \in Machines : WF_vars(Replicate(m, n))

FairSpec == Spec /\ Fairness
=============================================================================
