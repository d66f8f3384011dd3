------------------------------ MODULE SyncPlan ------------------------------
(***************************************************************************)
(* Comparing two Environments' configurations and moving rows between them *)
(* (ployz-core/src/config/sync): which rows differ, which of them a Sync,  *)
(* a Follow or a copy moves, what landing them does to the receiver and to *)
(* what the two last shared, and what takes a landing back.                *)
(*                                                                         *)
(* A configuration is what it holds at each row.  A node (a Service) has   *)
(* one setting it arrives with, its source, and the rows of Keys.          *)
(***************************************************************************)
EXTENDS Integers

CONSTANTS
    Lineages,   \* the nodes there may be
    Keys,       \* settings and variables that are rows of their own
    Owned,      \* those each Environment keeps as it has them (sizing)
    Values,     \* plain values, numbered
    Refers      \* <<v, l>>: value v references the Service of lineage l

ASSUME SyncPlanAssumption ==
    /\ Owned \subseteq Keys
    /\ Values \subseteq Nat
    /\ Refers \subseteq Values \X Lineages
    /\ Keys \cap {"node", "source"} = {}

Rows == Lineages \X ({"node", "source"} \cup Keys)
NodeOf(r) == <<r[1], "node">>
SourceOf(r) == <<r[1], "source">>

(***************************************************************************)
(* Cells: nothing, a plain value, a secret by its fingerprint (here the    *)
(* number of the Environment it was set in), a secret without its value.   *)
(***************************************************************************)
Absent == <<"absent", 0>>
Value(v) == <<"value", v>>
Secret(e) == <<"secret", e>>
SecretWithoutValue == <<"unset", 0>>
is_secret(c) == c[1] \in {"secret", "unset"}

Present == <<"node", 0>>
Has(c, l) == c[<<l, "node">>] # Absent
Empty == [r \in Rows |-> Absent]

Cells == {"absent", "node", "value", "secret", "unset"} \X Nat

\* A configuration holds together: no row without its node, and a source that is
\* empty, which reads as nothing, or a plain value.
WellFormed(c) ==
    /\ c \in [Rows -> Cells]
    /\ \A r \in Rows :
         /\ r[2] = "node" => c[r] \in {Absent, Present}
         /\ r[2] # "node" /\ ~Has(c, r[1]) => c[r] = Absent
         /\ r[2] = "source" => c[r][1] \in {"absent", "value"}

\* What a plan reads at a row: a node's own row reads as what it arrives with.
At(c, r) ==
    IF r[2] = "node" /\ Has(c, r[1]) THEN <<"node", c[SourceOf(r)]>> ELSE c[r]

\* The Services a configuration references and does not hold.
used_live(c) ==
    {l \in Lineages : ~Has(c, l) /\ \E r \in Rows :
        c[r][1] = "value" /\ <<c[r][2], l>> \in Refers}

(***************************************************************************)
(* The plan of a move p: from p.from into p.into over p.base, the way it   *)
(* travels, each side's Never sync marks and what the receiver uses live.  *)
(***************************************************************************)
\* Mutant: only the sender's marks hold a row back.
marked_sender(p, r) == p.way = "sync" /\ r \in p.from_marks

\* A row that one of the two keeps to itself.
marked(p, r) ==
    r \in CASE p.way = "sync" -> p.from_marks \cup p.into_marks
            [] p.way = "follow" -> p.into_marks
            [] OTHER -> {}

held(f, i) == (is_secret(f) \/ is_secret(i)) /\ i # Absent

\* Whether a row moves when what was shared, the sender and the receiver
\* hold b, f and i there.
moved(p, r, b, f, i) ==
    /\ f # i /\ f # b
    /\ p.way = "sync" => f # Absent /\ ~held(f, i)
    /\ p.way = "follow" /\ held(f, i) => i \in {SecretWithoutValue, b}
    /\ ~marked(p, r)

New(p, l) == Has(p.from, l) /\ ~Has(p.into, l) /\ ~Has(p.base, l) /\ l \notin p.live

plan(p) ==
    {r \in Rows :
        \/ /\ Has(p.from, r[1]) /\ Has(p.into, r[1])
           /\ r[2] # "node" /\ r[2] \notin Owned
           /\ moved(p, r, At(p.base, r), At(p.from, r), At(p.into, r))
        \/ /\ New(p, r[1])
           /\ r[2] = "node"
           /\ ~marked(p, r) /\ ~marked(p, SourceOf(r))
        \/ /\ New(p, r[1])
           /\ r[2] \in Keys
           /\ p.way = "copy" \/ r[2] \notin Owned
           /\ moved(p, r, Absent, p.from[r], Absent)}

\* The receiver changed the row too since the two last shared it.
conflict(p, r) ==
    /\ At(p.into, r) # At(p.base, r)
    /\ ~(p.way = "follow" /\ p.into[r] = SecretWithoutValue)

needs_value(p, r) == p.way = "sync" /\ is_secret(p.from[r])

\* picks without a row whose new node is not picked too.
whole(p, picks) ==
    {r \in picks : r[2] = "node" \/ Has(p.into, r[1]) \/ NodeOf(r) \in picks}

-----------------------------------------------------------------------------
\* Mutant: a Sync carries a secret's value.
landing_sealed(p, given, r) == p.from[r]

\* What a row lands as; given are the secrets a value was typed for.
landing(p, given, r) ==
    IF ~needs_value(p, r) THEN p.from[r]
    ELSE IF r \in DOMAIN given THEN given[r] ELSE SecretWithoutValue

\* The receiver with picks landed; a new node brings its source.
next_of(p, picks, given) ==
    [r \in Rows |->
        IF r \in picks THEN landing(p, given, r)
        ELSE IF r[2] = "source" /\ NodeOf(r) \in picks THEN p.from[r]
        ELSE p.into[r]]

\* A base that predates a row's node starts it from the receiver's.
adopt(p, picks) ==
    [r \in Rows |->
        IF /\ ~Has(p.base, r[1]) /\ Has(p.into, r[1])
           /\ \E q \in picks : q[1] = r[1]
        THEN p.into[r] ELSE p.base[r]]

\* What the two share once picks landed: advanced by exactly them.
base_of(p, picks) ==
    [r \in Rows |->
        IF r \in picks \/ (r[2] = "source" /\ NodeOf(r) \in picks)
        THEN p.from[r] ELSE adopt(p, picks)[r]]

\* Mutant: a node goes and leaves its rows.
put_back_rows(base, back) ==
    [r \in Rows |->
        IF r \in DOMAIN back /\ Has(base, r[1]) /\ (r[2] = "node" => back[r] = Absent)
        THEN back[r] ELSE base[r]]

\* base with the cells of back put back: what rewinds it.  A node that came
\* with the rows goes whole; a row whose node is gone stays as it is.
put_back(base, back) ==
    [r \in Rows |->
        IF NodeOf(r) \in DOMAIN back /\ back[NodeOf(r)] = Absent THEN Absent
        ELSE IF r \in DOMAIN back /\ r[2] # "node" /\ Has(base, r[1]) THEN back[r]
        ELSE base[r]]

\* c may have landed, a function of rows, taken back: nothing changed since.
unappliable(c, landed) ==
    \A r \in DOMAIN landed :
        /\ At(c, r) = landed[r].value
        /\ r[2] = "node" =>
             \A k \in Keys : c[<<r[1], k>>] # Absent => <<r[1], k>> \in DOMAIN landed

unapply(c, landed) ==
    [r \in Rows |->
        IF NodeOf(r) \in DOMAIN landed THEN Absent
        ELSE IF r \in DOMAIN landed THEN landed[r].was ELSE c[r]]
=============================================================================
