----------------------------- MODULE BranchSync -----------------------------
(***************************************************************************)
(* Branches of an Environment and what moves between Environments          *)
(* (ployz-store/src/branch): a person's Sync of picked rows, the Follow of *)
(* what a Parent deployed into its Branches, Own Copies, the hints a Branch*)
(* takes, Undo, and the discards and deploys that decide whether what      *)
(* arrived stays.  Every command runs in one transaction under the         *)
(* Project's lock, so each is one action; what a person reviewed is held   *)
(* against the plan's version, so the plan a command lands is the current  *)
(* one.                                                                    *)
(***************************************************************************)
EXTENDS SyncPlan

CONSTANTS
    Environments,
    Parent,       \* [the Environments that are Branches -> their Parents]
    Inputs,       \* [Environments -> the <<row, cell>> a person there may set; a
                  \* node's row to create or remove it]
    Marking,      \* the rows a person may mark Never sync
    Secrets,      \* [Environments -> the secret a person there types]
    First,        \* what a root Environment runs at first
    Refusing,     \* Branches one of whose rules may refuse a Follow
    MaxEdits, MaxSyncs, MaxDeploys

ASSUME BranchSyncAssumption ==
    /\ DOMAIN Parent \subseteq Environments
    /\ \A b \in DOMAIN Parent : Parent[b] \in Environments
    /\ \A s \in SUBSET DOMAIN Parent : s # {} => \E b \in s : Parent[b] \notin s
    /\ Marking \subseteq Rows
    /\ Secrets \in [Environments -> Nat]
    /\ Inputs \in [Environments -> SUBSET (Rows \X Cells)]
    /\ \A e \in Environments : \A i \in Inputs[e] :
         /\ i[1][2] = "source" => i[2][1] = "value"
         /\ i[2][1] = "secret" => i[2] = Secret(Secrets[e])
    /\ WellFormed(First)
    /\ \A r \in Rows : \A e \in Environments \ DOMAIN Parent :
         First[r][1] = "secret" => First[r] = Secret(Secrets[e])
    /\ MaxEdits \in Nat /\ MaxSyncs \in Nat /\ MaxDeploys \in Nat

Branches == DOMAIN Parent
Pairs == UNION {{{a, b} : b \in Environments \ {a}} : a \in Environments}
The(s) == CHOOSE x \in s : TRUE

VARIABLES
    exist,      \* the Environments there are
    working, saved, applied,   \* Working, latest Saved (none or one), Applied State
    shipping,   \* the Saved State of the Deployment in flight, if any
    base,       \* what each pair last shared (none or one)
    made_with,  \* what each Branch was made with
    marks,      \* rows each Environment marks Never sync
    arrivals,   \* rows that arrived from another Environment
    edits, syncs, deploys      \* how many there were

configs == <<working, saved, applied, shipping>>
shared == <<base, made_with, marks, arrivals>>
counts == <<edits, syncs, deploys>>
vars == <<exist, configs, shared, counts>>

\* No Sync's number, as a Follow or an Own Copy records.
NoSync == 0
NoValues == [r \in {} |-> Absent]

-----------------------------------------------------------------------------
(***************************************************************************)
(* Arrivals: one for each receiver, other side and row.                    *)
(***************************************************************************)
Same(a, n) == a.at = n.at /\ a.other = n.other /\ a.row = n.row

\* n as it is kept: a row still pending keeps the base's cell from before its
\* first arrival.
recorded(known, n) ==
    LET old == {a \in known : Same(a, n) /\ a.state = "pending"} IN
    IF n.state = "pending" /\ old # {} THEN [n EXCEPT !.prior = The(old).prior] ELSE n

\* Record new, each replacing what arrived at its row from its side before.
arrive(known, new) ==
    {a \in known : ~\E n \in new : Same(a, n)} \cup {recorded(known, n) : n \in new}

landed(p, e, other, picks, given, how, sync) ==
    {[at |-> e, other |-> other, row |-> r, how |-> how, state |-> "pending",
      value |-> At(next_of(p, picks, given), r), prior |-> At(p.base, r),
      was |-> At(p.into, r), sync |-> sync] : r \in picks}

hint(p, e, other, rows) ==
    {[at |-> e, other |-> other, row |-> r, how |-> "follow", state |-> "hint",
      value |-> At(p.from, r), prior |-> Absent, was |-> Absent, sync |-> NoSync] :
     r \in rows}

delivered(known, p, e, other, r) ==
    \E a \in known : a.at = e /\ a.other = other /\ a.row = r /\ a.value = At(p.from, r)

\* What each pair of e shares once the rows of gone are taken back.
rewind_bases(e, gone) ==
    [pair \in Pairs |->
        LET back == {a \in gone : pair = {e, a.other}} IN
        IF back = {} \/ base[pair] = {} THEN base[pair]
        ELSE {put_back(The(base[pair]),
                       [r \in {a.row : a \in back} |->
                            (CHOOSE a \in back : a.row = r).prior])}]

-----------------------------------------------------------------------------
(***************************************************************************)
(* Moves.                                                                  *)
(***************************************************************************)
\* A sender's marks count unless the receiver is one of its Branches.
from_marks(from, into) ==
    IF into \in Branches /\ Parent[into] = from THEN {} ELSE marks[from]

Move(way, from, over, source, into) ==
    [way |-> way, from |-> from, base |-> over, into |-> working[into],
     from_marks |-> from_marks(source, into), into_marks |-> marks[into],
     live |-> used_live(working[into])]

sync_base(from, into) ==
    CASE base[{from, into}] # {} -> The(base[{from, into}])
      [] base[{from, into}] = {} /\ made_with[from] # {} -> The(made_with[from])
      [] base[{from, into}] = {} /\ made_with[from] = {} /\ made_with[into] # {} ->
            The(made_with[into])
      [] OTHER -> working[into]

Sync_move(from, into) ==
    Move("sync", working[from], sync_base(from, into), from, into)

\* What a Parent runs into its Branch.
Follow_move(runs, b) == Move("follow", runs, The(base[{b, Parent[b]}]), Parent[b], b)

\* Rows of e that hold a reference neither e nor what it branches from provides.
nearest(e, l) ==
    LET above[a \in Environments] ==
            IF Has(applied[a], l) THEN {a}
            ELSE IF a \in Branches THEN above[Parent[a]] ELSE {}
    IN IF e \in Branches THEN above[Parent[e]] ELSE {}

broken(e, c) ==
    {r \in Rows : c[r][1] = "value" /\ \E l \in used_live(c) :
        <<c[r][2], l>> \in Refers /\ nearest(e, l) = {}}

\* A write is refused for what it newly breaks; what its source breaks is not new.
check_write(e, source, next) ==
    broken(e, next) \subseteq broken(e, working[e]) \cup broken(e, source)

\* picks land in e from other.
apply(p, e, other, picks, given, how, sync) ==
    /\ picks # {}
    /\ whole(p, picks) = picks
    /\ check_write(e, p.from, next_of(p, picks, given))
    /\ working' = [working EXCEPT ![e] = next_of(p, picks, given)]
    /\ base' = [base EXCEPT ![{e, other}] = {base_of(p, picks)}]
    /\ arrivals' = arrive(arrivals, landed(p, e, other, picks, given, how, sync))

-----------------------------------------------------------------------------
(***************************************************************************)
(* A person edits, publishes and deploys an Environment.                   *)
(***************************************************************************)
save_working(e, next) ==
    working' = [working EXCEPT ![e] = next]

Edit(e, r, c) ==
    /\ e \in exist /\ edits < MaxEdits
    /\ Has(working[e], r[1]) /\ working[e][r] # c
    /\ LET next == [working[e] EXCEPT ![r] = c] IN
         check_write(e, working[e], next) /\ save_working(e, next)
    /\ edits' = edits + 1
    /\ UNCHANGED <<exist, saved, applied, shipping, shared, syncs, deploys>>

\* The lineages anything still remembers: a new node's is none of them.
used ==
    {l \in Lineages :
        \/ \E e \in Environments :
             \/ Has(working[e], l) \/ Has(applied[e], l)
             \/ \E c \in saved[e] \cup shipping[e] \cup made_with[e] : Has(c, l)
             \/ \E r \in marks[e] : r[1] = l
        \/ \E pair \in Pairs : \E c \in base[pair] : Has(c, l)
        \/ \E a \in arrivals : a.row[1] = l}

create_service(e, l) ==
    /\ e \in exist /\ edits < MaxEdits
    /\ l \notin used
    /\ save_working(e, [working[e] EXCEPT ![<<l, "node">>] = Present,
                                          ![<<l, "source">>] = Value(1)])
    /\ edits' = edits + 1
    /\ UNCHANGED <<exist, saved, applied, shipping, shared, syncs, deploys>>

remove_service(e, l) ==
    /\ e \in exist /\ edits < MaxEdits
    /\ Has(working[e], l)
    /\ LET next == [r \in Rows |-> IF r[1] = l THEN Absent ELSE working[e][r]] IN
         check_write(e, working[e], next) /\ save_working(e, next)
    /\ edits' = edits + 1
    /\ UNCHANGED <<exist, saved, applied, shipping, shared, syncs, deploys>>

\* Saved State becomes next, a revision of its own where it differs.
publishes(e, next) ==
    saved' = [saved EXCEPT ![e] = {next}]

publish(e) ==
    /\ e \in exist
    /\ saved[e] # {working[e]}
    /\ publishes(e, working[e])
    /\ UNCHANGED <<exist, working, applied, shipping, shared, counts>>

needs_secret_values(c) == \E r \in Rows : c[r] = SecretWithoutValue

\* Deploy publishes Working State and ships it.
deploy(e) ==
    /\ e \in exist /\ deploys < MaxDeploys /\ shipping[e] = {}
    /\ ~needs_secret_values(working[e])
    /\ publishes(e, working[e])
    /\ shipping' = [shipping EXCEPT ![e] = {working[e]}]
    /\ deploys' = deploys + 1
    /\ UNCHANGED <<exist, working, applied, shared, edits, syncs>>

\* A push ships what is saved.
deploy_saved(e) ==
    /\ e \in exist /\ deploys < MaxDeploys /\ shipping[e] = {}
    /\ saved[e] # {} /\ ~needs_secret_values(The(saved[e]))
    /\ shipping' = [shipping EXCEPT ![e] = saved[e]]
    /\ deploys' = deploys + 1
    /\ UNCHANGED <<exist, working, saved, applied, shared, edits, syncs>>

\* The nodes a Deployment in flight is about: those it ships, those it removes.
targets(e) == {l \in Lineages : Has(applied[e], l) \/ \E c \in shipping[e] : Has(c, l)}

\* What runs once the nodes of ok are as c has them.
advance(e, c, ok) == [r \in Rows |-> IF r[1] \in ok THEN c[r] ELSE applied[e][r]]

\* What arrived in e and shipped stays.
deployed(known, e, c, lineages) ==
    {IF /\ a.at = e /\ a.state = "pending"
        /\ a.row[1] \in lineages /\ At(c, a.row) = a.value
     THEN [a EXCEPT !.state = "settled", !.prior = Absent, !.was = Absent] ELSE a : a \in known}

\* Mutant: what was delivered once is delivered again.
follow_again(p, known, b, lineages) ==
    {r \in plan(p) : r[1] \in lineages}

\* The rows a Parent's deploy of lineages brings its Branch b.
follow_rows(p, known, b, lineages) ==
    {r \in plan(p) : r[1] \in lineages /\ ~delivered(known, p, b, Parent[b], r)}

\* Those it stages: the Branch's own change wins.
follow_picks(p, rows) == whole(p, {r \in rows : ~conflict(p, r)})

\* Mutant: what a Branch refuses is forgotten.
follow_forgets(runs, known, b, lineages, refuses) ==
    LET p == Follow_move(runs, b)
        rows == follow_rows(p, known, b, lineages)
        taken == IF refuses THEN {} ELSE follow_picks(p, rows)
    IN [working |-> next_of(p, taken, NoValues),
        base |-> base_of(p, taken),
        arrivals |-> arrive(known,
            landed(p, b, Parent[b], taken, NoValues, "follow", NoSync)
                \cup hint(p, b, Parent[b], {r \in rows : conflict(p, r)}))]

\* What following does to Branch b: its Working State, base and arrivals.
follow_into(runs, known, b, lineages, refuses) ==
    LET p == Follow_move(runs, b)
        rows == follow_rows(p, known, b, lineages)
        picks == follow_picks(p, rows)
        taken == IF refuses THEN {} ELSE picks
        hints == {r \in rows : conflict(p, r)} \cup (picks \ taken)
    IN [working |-> next_of(p, taken, NoValues),
        base |-> base_of(p, taken),
        arrivals |-> arrive(known,
            landed(p, b, Parent[b], taken, NoValues, "follow", NoSync)
                \cup hint(p, b, Parent[b], hints))]

\* A Deployment ends with the nodes of ok as it targets them; then each Branch
\* follows.  What a Branch refuses is all a hint there.
end(e, ok, refusing) ==
    /\ shipping[e] # {}
    /\ LET c == The(shipping[e])
           runs == advance(e, c, ok)
           lineages == {l \in ok : Has(c, l)}
           settled == deployed(arrivals, e, c, lineages)
           following == {b \in Branches \cap exist : Parent[b] = e /\ lineages # {}}
           result == [b \in following |->
                        follow_into(runs, settled, b, lineages, b \in refusing)]
       IN /\ refusing \subseteq following \cap Refusing
          /\ applied' = [applied EXCEPT ![e] = runs]
          /\ working' = [b \in Environments |->
                            IF b \in following THEN result[b].working ELSE working[b]]
          /\ base' = [pair \in Pairs |->
                        IF \E b \in following : pair = {b, e}
                        THEN {result[CHOOSE b \in following : pair = {b, e}].base}
                        ELSE base[pair]]
          /\ arrivals' = {a \in settled : a.at \notin following} \cup
                         UNION {{a \in result[b].arrivals : a.at = b} : b \in following}
    /\ shipping' = [shipping EXCEPT ![e] = {}]
    /\ UNCHANGED <<exist, saved, made_with, marks, counts>>

-----------------------------------------------------------------------------
(***************************************************************************)
(* Discards.                                                               *)
(***************************************************************************)
head(e) == IF shipping[e] # {} THEN The(shipping[e]) ELSE applied[e]

\* Mutant: what was discarded still counts as shared.
rewind_arrivals(e, after) ==
    /\ arrivals' = arrivals \ {a \in arrivals : a.at = e /\ a.state = "pending"
                                   /\ At(working[e], a.row) # At(after, a.row)}
    /\ base' = base

\* A discard took e from its Working State to after: what arrived and is gone
\* again returns its base, a Follow's as a hint; a Sync's is forgotten.
rewind(e, after) ==
    LET gone == {a \in arrivals : a.at = e /\ a.state = "pending"
                                   /\ At(working[e], a.row) # At(after, a.row)}
    IN /\ arrivals' = (arrivals \ gone) \cup
                      {[a EXCEPT !.state = "hint", !.prior = Absent, !.was = Absent] :
                       a \in {a \in gone : a.how = "follow"}}
       /\ base' = rewind_bases(e, gone)

discards(e, after, after_saved) ==
    /\ saved' = [saved EXCEPT ![e] = after_saved]
    /\ rewind(e, after)
    /\ save_working(e, after)
    /\ UNCHANGED <<exist, applied, shipping, made_with, marks, counts>>

discard_all(e) ==
    /\ e \in exist
    /\ working[e] # head(e)
    /\ check_write(e, head(e), head(e))
    /\ discards(e, head(e), IF saved[e] = {} THEN {} ELSE {head(e)})

\* One node, restored or removed as Head has it.
discard_node(e, l) ==
    LET as_head(c) == [r \in Rows |-> IF r[1] = l THEN head(e)[r] ELSE c[r]] IN
    /\ e \in exist
    /\ as_head(working[e]) # working[e]
    /\ check_write(e, head(e), as_head(working[e]))
    /\ discards(e, as_head(working[e]), {as_head(c) : c \in saved[e]})

\* One setting or variable of a deployed node; Saved State follows where it has
\* the node.
discard_row(e, r) ==
    LET as_head(c) == IF Has(c, r[1]) THEN [c EXCEPT ![r] = head(e)[r]] ELSE c IN
    /\ e \in exist
    /\ r[2] # "node" /\ Has(working[e], r[1]) /\ Has(head(e), r[1])
    /\ working[e][r] # head(e)[r]
    /\ check_write(e, head(e), as_head(working[e]))
    /\ discards(e, as_head(working[e]), {as_head(c) : c \in saved[e]})

-----------------------------------------------------------------------------
(***************************************************************************)
(* Branches: made of some of a Parent's nodes, the rest used live.         *)
(***************************************************************************)
links(c, l) ==
    {u \in Lineages \ {l} : \E r \in Rows :
        r[1] = l /\ c[r][1] = "value" /\ <<c[r][2], u>> \in Refers}

Closed(c, runs, s) ==
    \A l \in s : \A u \in links(c, l) : Has(c, u) /\ ~Has(runs, u) => u \in s

\* The nodes a Branch copies: the picked and what they use that nothing runs.
own_nodes(c, runs, picked) ==
    CHOOSE s \in SUBSET Lineages :
        /\ picked \subseteq s /\ Closed(c, runs, s)
        /\ \A t \in SUBSET Lineages :
             picked \subseteq t /\ Closed(c, runs, t) => s \subseteq t

live_nodes(c, copies) ==
    (UNION {links(c, l) : l \in copies} \ copies) \cup used_live(c)

create_branch(b, picked) ==
    /\ b \notin exist /\ Parent[b] \in exist
    /\ picked # {} /\ \A l \in picked : Has(working[Parent[b]], l)
    /\ LET from == working[Parent[b]]
           copies == own_nodes(from, applied[Parent[b]], picked)
           live == live_nodes(from, copies)
           over == [r \in Rows |-> IF r[1] \in live THEN Absent ELSE from[r]]
       IN /\ working' = [working EXCEPT ![b] =
                           [r \in Rows |-> IF r[1] \in copies THEN from[r] ELSE Absent]]
          /\ base' = [base EXCEPT ![{b, Parent[b]}] = {over}]
          /\ made_with' = [made_with EXCEPT ![b] = {over}]
    /\ exist' = exist \cup {b}
    /\ UNCHANGED <<saved, applied, shipping, marks, arrivals, counts>>

\* An Own Copy of a Service b uses live, from the nearest that runs it, once b
\* runs its Working State.
copy_node(b, l) ==
    /\ b \in exist
    /\ l \in used_live(working[b]) /\ nearest(b, l) # {}
    /\ shipping[b] = {} /\ working[b] = applied[b]
    /\ LET owner == The(nearest(b, l))
           over == The(base[{b, Parent[b]}])
           lacking == [r \in Rows |-> IF r[1] = l THEN Absent ELSE over[r]]
           p == [Move("copy", applied[owner], lacking, owner, b) EXCEPT !.live = @ \ {l}]
       IN apply(p, b, Parent[b], {r \in plan(p) : r[1] = l}, NoValues, "sync", NoSync)
    /\ UNCHANGED <<exist, saved, applied, shipping, made_with, marks, counts>>

-----------------------------------------------------------------------------
(***************************************************************************)
(* Sync, Undo, taking hints, Never sync.                                   *)
(***************************************************************************)
\* Picked rows move now; given are the secrets the person typed a value for.
sync(from, into, picks, given) ==
    /\ {from, into} \subseteq exist /\ from # into
    /\ LET p == Sync_move(from, into) IN
         /\ picks \subseteq plan(p)
         /\ given \subseteq {r \in picks : needs_value(p, r)}
         /\ apply(p, into, from, picks, [r \in given |-> Secret(Secrets[into])],
                  "sync", syncs + 1)
    /\ syncs' = syncs + 1
    /\ UNCHANGED <<exist, saved, applied, shipping, made_with, marks,
                   edits, deploys>>

undo(s) ==
    LET rows == {a \in arrivals : a.sync = s}
        e == The(rows).at
        back == [r \in {a.row : a \in rows} |-> CHOOSE a \in rows : a.row = r]
    IN /\ rows # {}
       /\ \A a \in rows : a.state = "pending"
       /\ unappliable(working[e], back)
       /\ save_working(e, unapply(working[e], back))
       /\ arrivals' = arrivals \ rows
       /\ base' = rewind_bases(e, rows)
       /\ UNCHANGED <<exist, saved, applied, shipping, made_with, marks, counts>>

\* The hints of Branch b: delivered at the value they carry now, not staged.
hinted(b) ==
    LET p == Follow_move(applied[Parent[b]], b) IN
    {r \in {a.row : a \in arrivals} :
        delivered(arrivals, p, b, Parent[b], r) /\ r \in plan(p)}

take(b, picks) ==
    /\ b \in exist /\ picks \subseteq hinted(b)
    /\ apply(Follow_move(applied[Parent[b]], b), b, Parent[b], picks, NoValues, "follow", NoSync)
    /\ UNCHANGED <<exist, saved, applied, shipping, made_with, marks, counts>>

never_sync(e, r) ==
    /\ e \in exist /\ edits < MaxEdits
    /\ r \in marks[e] \/ Has(working[e], r[1])
    /\ marks' = [marks EXCEPT ![e] = IF r \in @ THEN @ \ {r} ELSE @ \cup {r}]
    /\ edits' = edits + 1
    /\ UNCHANGED <<exist, configs, base, made_with, arrivals, syncs, deploys>>

-----------------------------------------------------------------------------
Roots == Environments \ Branches

Init ==
    /\ exist = Roots
    /\ working = [e \in Environments |-> IF e \in Roots THEN First ELSE Empty]
    /\ applied = working
    /\ saved = [e \in Environments |-> IF e \in Roots THEN {First} ELSE {}]
    /\ shipping = [e \in Environments |-> {}]
    /\ base = [pair \in Pairs |-> {}]
    /\ made_with = [e \in Environments |-> {}]
    /\ marks = [e \in Environments |-> {}]
    /\ arrivals = {}
    /\ edits = 0 /\ syncs = 0 /\ deploys = 0

Next ==
    \/ \E e \in Environments :
         \/ \E i \in Inputs[e] : i[1][2] # "node" /\ Edit(e, i[1], i[2])
         \/ \E i \in Inputs[e] : i[2] = Present /\ create_service(e, i[1][1])
         \/ \E i \in Inputs[e] : i[1][2] = "node" /\ i[2] = Absent /\ remove_service(e, i[1][1])
         \/ \E r \in Marking : never_sync(e, r)
         \/ \E l \in Lineages : discard_node(e, l)
         \/ publish(e) \/ deploy(e) \/ deploy_saved(e) \/ discard_all(e)
         \/ \E ok \in SUBSET targets(e) : \E refusing \in SUBSET Refusing : end(e, ok, refusing)
         \/ \E r \in {r \in Rows : working[e][r] # head(e)[r]} : discard_row(e, r)
    \/ \E from \in exist : \E into \in exist \ {from} :
         /\ syncs < MaxSyncs
         /\ \E picks \in SUBSET plan(Sync_move(from, into)) : \E given \in SUBSET picks :
              sync(from, into, picks, given)
    \/ \E b \in Branches : \E picked \in SUBSET Lineages : create_branch(b, picked)
    \/ \E b \in Branches \cap exist :
         \/ \E l \in Lineages : copy_node(b, l)
         \/ \E picks \in SUBSET hinted(b) : take(b, picks)
    \/ \E s \in 1..MaxSyncs : undo(s)

Spec == Init /\ [][Next]_vars

-----------------------------------------------------------------------------
\* Every configuration holds together (no row without its node, no setting that
\* is a secret), also what a pair shares; at most one arrival is kept for each
\* receiver, side and row; and a Branch always shares a base with its Parent.
TypeOK ==
    /\ \A e \in Environments :
         \A c \in {working[e], applied[e]} \cup saved[e] \cup shipping[e] \cup made_with[e] :
             WellFormed(c)
    /\ \A pair \in Pairs : \A c \in base[pair] : WellFormed(c)
    /\ \A a, n \in arrivals : Same(a, n) => a = n
    /\ \A b \in Branches \cap exist : base[{b, Parent[b]}] # {}

\* e and what it branches from, directly or not.
Line(e) ==
    LET up[a \in Environments] == {a} \cup IF a \in Branches THEN up[Parent[a]] ELSE {}
    IN up[e]

\* A secret's value never syncs: the secret an Environment holds was typed there
\* or in one it branches from (CONTEXT.md, "Sync").
SecretsStay ==
    \A e \in Environments : \A r \in Rows :
        \A c \in {working[e], applied[e]} \cup saved[e] :
            c[r][1] = "secret" => \E a \in Line(e) : c[r][2] = Secrets[a]

\* What a Sync brought and a discard or an Undo took back is offered again, while
\* its sender still holds it, neither side marks it Never sync and the receiver
\* has no secret there: a row of a node the receiver keeps, and a node that went,
\* with its variables (its source comes with it).
OfferedAgain ==
    [][\A a \in arrivals \ arrivals' :
         /\ a.state = "pending" /\ a.sync # NoSync /\ a.value # a.prior
         /\ ~\E n \in arrivals' : Same(a, n)
         /\ ~is_secret(a.value) /\ ~is_secret(At(working'[a.at], a.row))
         /\ At(working'[a.other], a.row) = a.value
         /\ At(working'[a.at], a.row) # a.value
         /\ a.row[1] \notin used_live(working'[a.at])
         /\ \/ Has(working'[a.at], a.row[1]) /\ a.row[2] # "node"
            \/ /\ ~Has(working'[a.at], a.row[1]) /\ a.row[2] # "source"
               /\ \E n \in arrivals \ arrivals' :
                    n.at = a.at /\ n.other = a.other /\ n.row = NodeOf(a.row)
         /\ {a.row, SourceOf(a.row)} \cap (marks[a.at] \cup marks[a.other]) = {}
         => a.row \in plan(Sync_move(a.other, a.at))']_arrivals

\* A Sync or a Follow leaves the rows its receiver marks Never sync as they
\* are, and a Sync anywhere but into a Branch of its sender brings no row the
\* sender marks.
NeverSynced ==
    [][syncs' # syncs \/ shipping' # shipping =>
         /\ \A e \in exist : \A r \in marks[e] : working'[e][r] = working[e][r]
         /\ syncs' # syncs => \A a \in arrivals' \ arrivals :
              a.row \in marks[a.other] => a.at \in Branches /\ Parent[a.at] = a.other]_<<syncs, shipping>>

\* A deploy of a Parent leaves no change it made unaccounted for in a Branch:
\* a row that changed in the Parent and moves is staged there or a hint, also
\* where the Branch refuses what arrives, but for the rows of a new node the
\* Branch does not take.
FollowAccounted ==
    [][\A e \in exist : shipping[e] # {} /\ shipping'[e] = {} =>
         \A b \in Branches \cap exist : Parent[b] = e =>
             \A r \in plan(Follow_move(applied'[e], b)) :
                 /\ At(applied'[e], r) # At(applied[e], r)
                 /\ r[2] = "node" \/ Has(working'[b], r[1])
                 => \E a \in arrivals' : a.at = b /\ a.other = e /\ a.row = r
                                          /\ a.value = At(applied'[e], r)]_shipping

\* Each of the Parent's changes is delivered once: a Follow never stages again
\* what is a hint in the Branch, while the Parent has not changed it, but for the
\* source of a node that comes back whole.
FollowOnce ==
    [][\A e \in exist : shipping[e] # {} /\ shipping'[e] = {} =>
         \A a \in arrivals :
             a.state = "hint" /\ a.other = e /\ At(applied'[e], a.row) = a.value
             => /\ a \in arrivals'
                /\ a.row[2] # "source" \/ Has(working[a.at], a.row[1])
                   => working'[a.at][a.row] = working[a.at][a.row]]_shipping

\* What a Follow stages in a Branch is a change the Parent's deploy made: a row
\* it changes there changed in the Parent too (CONTEXT.md, "Follow").
FollowsChanges ==
    [][\A e \in exist : shipping[e] # {} /\ shipping'[e] = {} =>
         \A b \in Branches \cap exist : \A r \in Rows :
             Parent[b] = e /\ working'[b][r] # working[b][r]
             => applied'[e][r] # applied[e][r]]_shipping
=============================================================================
