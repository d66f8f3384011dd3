-------------------------- MODULE BranchSyncProofs --------------------------
(* What moves between Environments leaves every configuration whole and keeps  *)
(* secrets where they were typed, for any Environments, Branches and rows.     *)
EXTENDS BranchSync, TLAPS

(***************************************************************************)
(* Rows and cells.                                                         *)
(***************************************************************************)
Good == {c \in [Rows -> Cells] : WellFormed(c)}

\* What a plan may read at a row.
Seen == ({"node"} \X Cells) \cup Cells

\* x is what some configuration that holds together reads at r.
Fits(r, x) ==
    /\ x \in Seen
    /\ r[2] = "node" => x = Absent \/ x[1] = "node"
    /\ r[2] # "node" => x \in Cells
    /\ r[2] = "source" => x[1] \in {"absent", "value"}

LEMMA RowFacts ==
    ASSUME NEW r \in Rows
    PROVE  /\ NodeOf(r) \in Rows /\ NodeOf(r)[1] = r[1] /\ NodeOf(r)[2] = "node"
           /\ SourceOf(r) \in Rows /\ SourceOf(r)[1] = r[1] /\ SourceOf(r)[2] = "source"
           /\ r[2] = "node" <=> NodeOf(r) = r
           /\ r[2] = "source" <=> SourceOf(r) = r
           /\ NodeOf(NodeOf(r)) = NodeOf(r) /\ NodeOf(SourceOf(r)) = NodeOf(r)
           /\ SourceOf(NodeOf(r)) = SourceOf(r)
           /\ r[1] \in Lineages
           /\ r[2] \in {"node", "source"} \cup Keys
           /\ r[2] \in Keys <=> r[2] # "node" /\ r[2] # "source"
BY SyncPlanAssumption DEF Rows, NodeOf, SourceOf

LEMMA CellFacts ==
    /\ Absent \in Cells /\ Present \in Cells /\ SecretWithoutValue \in Cells
    /\ Absent # Present /\ Absent # SecretWithoutValue
    /\ Absent[1] = "absent" /\ Present[1] = "node" /\ SecretWithoutValue[1] = "unset"
    /\ \A v \in Nat : Value(v) \in Cells /\ Value(v)[1] = "value"
    /\ \A v \in Nat : Secret(v) \in Cells /\ Secret(v)[1] = "secret" /\ Secret(v)[2] = v
BY Zenon DEF Absent, Present, SecretWithoutValue, Value, Secret, Cells

LEMMA GoodFacts ==
    ASSUME NEW c \in Good, NEW r \in Rows
    PROVE  /\ c[r] \in Cells
           /\ r[2] = "node" => c[r] \in {Absent, Present}
           /\ Has(c, r[1]) <=> c[NodeOf(r)] # Absent
           /\ r[2] # "node" /\ c[NodeOf(r)] = Absent => c[r] = Absent
           /\ r[2] = "source" => c[r][1] \in {"absent", "value"}
           /\ c = [q \in Rows |-> c[q]]
BY Zenon DEF Good, WellFormed, Has, NodeOf

LEMMA GoodIntro ==
    ASSUME NEW c, c = [r \in Rows |-> c[r]],
           \A r \in Rows :
              /\ c[r] \in Cells
              /\ r[2] = "node" => c[r] \in {Absent, Present}
              /\ r[2] # "node" /\ c[NodeOf(r)] = Absent => c[r] = Absent
              /\ r[2] = "source" => c[r][1] \in {"absent", "value"}
    PROVE  c \in Good
BY Zenon DEF Good, WellFormed, Has, NodeOf

LEMMA AtFits ==
    ASSUME NEW c \in Good, NEW r \in Rows
    PROVE  /\ Fits(r, At(c, r))
           /\ r[2] # "node" => At(c, r) = c[r]
           /\ At(c, r) = Absent <=> c[r] = Absent
           /\ r[2] = "node" /\ c[r] # Absent => At(c, r) = <<"node", c[SourceOf(r)]>>
           /\ Fits(r, Absent)
<1>1. /\ r[2] # "node" => At(c, r) = c[r]
      /\ r[2] = "node" /\ c[r] # Absent => At(c, r) = <<"node", c[SourceOf(r)]>>
      /\ r[2] = "node" /\ c[r] = Absent => At(c, r) = Absent
  BY RowFacts, GoodFacts DEF At
<1>2. c[SourceOf(r)] \in Cells /\ c[r] \in Cells
  BY RowFacts, GoodFacts, Zenon
<1>3. \A x : <<"node", x>>[1] = "node" /\ <<"node", x>> # Absent
  BY Zenon DEF Absent
<1>. QED BY <1>1, <1>2, <1>3, CellFacts, GoodFacts DEF Fits, Seen

LEMMA EmptyGood == Empty \in Good
<1>1. \A r \in Rows : Empty[r] = Absent
  BY Zenon DEF Empty
<1>. QED BY <1>1, GoodIntro, CellFacts, RowFacts DEF Empty

-----------------------------------------------------------------------------
(***************************************************************************)
(* Plans, and what landing rows makes of the receiver and of the base.     *)
(***************************************************************************)
Whole(p) == p.from \in Good /\ p.base \in Good /\ p.into \in Good

LEMMA PlanFacts ==
    ASSUME NEW p, Whole(p), NEW r \in plan(p)
    PROVE  /\ r \in Rows /\ p.from[NodeOf(r)] # Absent
           /\ p.into[NodeOf(r)] # Absent =>
                /\ r[2] # "node" /\ r[2] \notin Owned
                /\ moved(p, r, At(p.base, r), At(p.from, r), At(p.into, r))
           /\ p.into[NodeOf(r)] = Absent =>
                /\ r[2] # "source" /\ p.base[NodeOf(r)] = Absent
                /\ r[2] = "node" => ~marked(p, r) /\ ~marked(p, SourceOf(r))
                /\ r[2] # "node" => /\ p.way = "copy" \/ r[2] \notin Owned
                                    /\ moved(p, r, Absent, p.from[r], Absent)
<1>1. r \in Rows
  BY Zenon DEF plan
<1>2. \A c \in Good : Has(c, r[1]) <=> c[NodeOf(r)] # Absent
  BY <1>1, GoodFacts, Zenon
<1>. QED BY <1>1, <1>2, RowFacts, Zenon DEF plan, Whole, New

\* What a row lands as, but for a secret a Sync carries.
LEMMA LandingFacts ==
    ASSUME NEW p, NEW given, Whole(p), NEW r \in Rows
    PROVE  /\ ~needs_value(p, r) => landing(p, given, r) = p.from[r]
           /\ needs_value(p, r) => /\ is_secret(p.from[r]) /\ p.way = "sync"
                                   /\ r[2] # "node" /\ r[2] # "source"
                                   /\ landing(p, given, r) =
                                        IF r \in DOMAIN given THEN given[r] ELSE SecretWithoutValue
<1>1. p.from[r] \in {Absent, Present} \/ p.from[r][1] \in {"absent", "value"} => ~is_secret(p.from[r])
  BY CellFacts, Zenon DEF is_secret
<1>. QED BY <1>1, GoodFacts, Zenon DEF Whole, landing, needs_value

LEMMA NextGood ==
    ASSUME NEW p, NEW picks, NEW given, Whole(p), picks \subseteq plan(p),
           whole(p, picks) = picks, \A r \in DOMAIN given : given[r] \in Cells
    PROVE  next_of(p, picks, given) \in Good
<1> DEFINE next == next_of(p, picks, given)
<1>1. next = [r \in Rows |-> next[r]]
  BY Zenon DEF next_of
<1>2. \A r \in Rows : next[r] = IF r \in picks THEN landing(p, given, r)
                               ELSE IF r[2] = "source" /\ NodeOf(r) \in picks THEN p.from[r]
                               ELSE p.into[r]
  BY Zenon DEF next_of
<1>. HIDE DEF next
<1>3. \A r \in Rows : next[r] \in Cells
  <2>1. \A r \in Rows : landing(p, given, r) \in {p.from[r], SecretWithoutValue} \cup Cells
    BY LandingFacts
  <2>. QED BY <2>1, <1>2, GoodFacts, CellFacts DEF Whole
<1>4. \A r \in Rows : r[2] = "node" => next[r] = IF r \in picks THEN p.from[r] ELSE p.into[r]
  BY <1>2, LandingFacts
<1>5. \A r \in Rows : r[2] = "source" => next[r] \in {p.from[r], p.into[r]}
  BY <1>2, LandingFacts
<1>6. ASSUME NEW r \in Rows, r[2] # "node", next[NodeOf(r)] = Absent
      PROVE  next[r] = Absent
  <2>1. NodeOf(r) \notin picks
    BY <1>4, <1>6, PlanFacts, RowFacts
  <2>2. p.into[NodeOf(r)] = Absent
    BY <2>1, <1>4, <1>6, RowFacts, Zenon
  <2>3. ~Has(p.into, r[1])
    BY <2>2, GoodFacts, Zenon DEF Whole
  <2>4. r \notin picks
    BY <2>1, <2>3, <1>6, Zenon DEF whole
  <2>. QED BY <2>1, <2>2, <2>4, <1>2, <1>6, GoodFacts, Zenon DEF Whole
<1>7. \A r \in Rows : /\ r[2] = "node" => next[r] \in {Absent, Present}
                      /\ r[2] = "source" => next[r][1] \in {"absent", "value"}
  BY <1>4, <1>5, GoodFacts, Zenon DEF Whole
<1>8. next \in Good
  BY <1>1, <1>3, <1>6, <1>7, GoodIntro, Zenon
<1>. QED BY <1>8, Zenon DEF next

LEMMA BaseGood ==
    ASSUME NEW p, NEW picks, Whole(p), picks \subseteq plan(p), whole(p, picks) = picks
    PROVE  base_of(p, picks) \in Good
<1> DEFINE after == base_of(p, picks)
           Adopts(r) == /\ p.base[NodeOf(r)] = Absent /\ p.into[NodeOf(r)] # Absent
                        /\ \E q \in picks : q[1] = r[1]
<1>1. after = [r \in Rows |-> after[r]]
  BY Zenon DEF base_of
<1>2. \A r \in Rows : after[r] = IF r \in picks \/ (r[2] = "source" /\ NodeOf(r) \in picks) THEN p.from[r]
                                ELSE IF Adopts(r) THEN p.into[r] ELSE p.base[r]
  BY GoodFacts, Zenon DEF base_of, adopt, Whole
<1>3. \A r \in Rows : Adopts(NodeOf(r)) <=> Adopts(r)
  BY RowFacts
<1>4. \A r \in Rows : r \in picks /\ p.into[NodeOf(r)] # Absent /\ p.base[NodeOf(r)] = Absent => Adopts(r)
  BY Zenon
<1>. HIDE DEF after, Adopts
<1>5. \A r \in Rows : after[r] \in {p.from[r], p.into[r], p.base[r]}
  BY <1>2, Zenon
<1>6. ASSUME NEW r \in Rows, r[2] # "node", after[NodeOf(r)] = Absent
      PROVE  after[r] = Absent
  <2>1. NodeOf(r) \notin picks
    BY <1>2, <1>6, PlanFacts, RowFacts
  <2>2. after[NodeOf(r)] = IF Adopts(r) THEN p.into[NodeOf(r)] ELSE p.base[NodeOf(r)]
    BY <1>2, <1>3, <2>1, RowFacts, Zenon
  <2>3. ~Adopts(r) /\ p.base[NodeOf(r)] = Absent
    BY <1>6, <2>2, Zenon DEF Adopts
  <2>4. p.into[NodeOf(r)] = Absent => ~Has(p.into, r[1])
    BY GoodFacts, Zenon DEF Whole
  <2>5. r \notin picks
    BY <1>4, <1>6, <2>1, <2>3, <2>4, Zenon DEF whole
  <2>. QED BY <1>2, <1>6, <2>1, <2>3, <2>5, GoodFacts, Zenon DEF Whole
<1>7. \A r \in Rows : /\ after[r] \in Cells
                      /\ r[2] = "node" => after[r] \in {Absent, Present}
                      /\ r[2] = "source" => after[r][1] \in {"absent", "value"}
  BY <1>5, GoodFacts, Zenon DEF Whole
<1>8. after \in Good
  BY <1>1, <1>6, <1>7, GoodIntro, Zenon
<1>. QED BY <1>8, Zenon DEF after

LEMMA PutBackGood ==
    ASSUME NEW over \in Good, NEW back, \A r \in DOMAIN back : r \in Rows /\ Fits(r, back[r])
    PROVE  put_back(over, back) \in Good
<1> DEFINE after == put_back(over, back)
           Gone(r) == NodeOf(r) \in DOMAIN back /\ back[NodeOf(r)] = Absent
<1>1. after = [r \in Rows |-> after[r]]
  BY Zenon DEF put_back
<1>2. \A r \in Rows : after[r] = IF Gone(r) THEN Absent
                                ELSE IF r \in DOMAIN back /\ r[2] # "node" /\ over[NodeOf(r)] # Absent
                                     THEN back[r] ELSE over[r]
  BY GoodFacts, Zenon DEF put_back
<1>3. \A r \in Rows : Gone(NodeOf(r)) <=> Gone(r)
  BY RowFacts, Zenon
<1>. HIDE DEF after, Gone
<1>4. \A r \in Rows : /\ after[r] \in Cells
                      /\ r[2] = "node" => after[r] \in {Absent, Present}
                      /\ r[2] = "source" => after[r][1] \in {"absent", "value"}
  BY <1>2, CellFacts, GoodFacts, Zenon DEF Fits
<1>5. \A r \in Rows : r[2] # "node" /\ after[NodeOf(r)] = Absent => after[r] = Absent
  BY <1>2, <1>3, RowFacts, GoodFacts
<1>6. after \in Good
  BY <1>1, <1>4, <1>5, GoodIntro, Zenon
<1>. QED BY <1>6, Zenon DEF after

LEMMA UnapplyGood ==
    ASSUME NEW c \in Good, NEW back, unappliable(c, back),
           \A r \in DOMAIN back : r \in Rows /\ Fits(r, back[r].was) /\ back[r].value # Absent
    PROVE  unapply(c, back) \in Good
<1> DEFINE after == unapply(c, back)
<1>1. after = [r \in Rows |-> after[r]]
  BY Zenon DEF unapply
<1>2. \A r \in Rows : after[r] = IF NodeOf(r) \in DOMAIN back THEN Absent
                                ELSE IF r \in DOMAIN back THEN back[r].was ELSE c[r]
  BY Zenon DEF unapply
<1>. HIDE DEF after
<1>3. \A r \in DOMAIN back : c[r] # Absent
  BY AtFits DEF unappliable
<1>4. \A r \in Rows : /\ after[r] \in Cells
                      /\ r[2] = "node" => after[r] \in {Absent, Present}
                      /\ r[2] = "source" => after[r][1] \in {"absent", "value"}
  BY <1>2, CellFacts, RowFacts, GoodFacts DEF Fits
<1>5. \A r \in Rows : r[2] # "node" /\ after[NodeOf(r)] = Absent => after[r] = Absent
  BY <1>2, <1>3, RowFacts, GoodFacts
<1>6. after \in Good
  BY <1>1, <1>4, <1>5, GoodIntro, Zenon
<1>. QED BY <1>6, Zenon DEF after

-----------------------------------------------------------------------------
(***************************************************************************)
(* Pairs of Environments, and the line a Branch comes from.                *)
(***************************************************************************)
LEMMA PairFacts ==
    ASSUME NEW a \in Environments, NEW b \in Environments, a # b
    PROVE  {a, b} \in Pairs
BY DEF Pairs

\* Each Environment's line is its own and its Parent's, however Parents are
\* arranged: the function that Line names exists.
LEMMA LineFacts ==
    ASSUME NEW e \in Environments
    PROVE  /\ Line(e) = {e} \cup IF e \in Branches THEN Line(Parent[e]) ELSE {}
<1> DEFINE Above(a) == {x \in Environments : \A S \in SUBSET Environments :
                            a \in S /\ (\A y \in S \cap Branches : Parent[y] \in S) => x \in S}
           g == [a \in Environments |-> Above(a)]
           Is(up) == up = [a \in Environments |->
                              {a} \cup IF a \in Branches THEN up[Parent[a]] ELSE {}]
           Up == CHOOSE up : Is(up)
<1>1. ASSUME NEW a \in Environments
      PROVE  Above(a) = {a} \cup IF a \in Branches THEN Above(Parent[a]) ELSE {}
  <2>1. CASE a \in Branches
    <3>1. Parent[a] \in Environments
      BY <2>1, BranchSyncAssumption, Zenon DEF Branches
    <3>2. Above(a) \subseteq {a} \cup Above(Parent[a])
      <4> SUFFICES ASSUME NEW x \in Above(a), x # a,
                          NEW S \in SUBSET Environments, Parent[a] \in S,
                          \A y \in S \cap Branches : Parent[y] \in S
                   PROVE  x \in S
        BY Zenon
      <4>1. S \cup {a} \in SUBSET Environments /\ \A y \in (S \cup {a}) \cap Branches : Parent[y] \in S \cup {a}
        BY Zenon
      <4>2. x \in S \cup {a}
        BY <4>1, Zenon
      <4>. QED BY <4>2, Zenon
    <3>3. Above(Parent[a]) \subseteq Above(a)
      BY <2>1, Zenon
    <3>4. a \in Above(a)
      BY Zenon
    <3>. QED BY <2>1, <3>2, <3>3, <3>4, Zenon
  <2>2. CASE a \notin Branches
    <3>1. Above(a) \subseteq {a}
      <4>1. {a} \in SUBSET Environments /\ \A y \in {a} \cap Branches : Parent[y] \in {a}
        BY <2>2, Zenon
      <4>. QED BY <4>1, Zenon
    <3>2. a \in Above(a)
      BY Zenon
    <3>. QED BY <2>2, <3>1, <3>2, Zenon
  <2>. QED BY <2>1, <2>2, Zenon
<1>2. Is(g)
  <2>1. \A a \in Environments : g[a] = Above(a)
    BY Zenon
  <2>2. \A a \in Branches : a \in Environments /\ Parent[a] \in Environments
    BY BranchSyncAssumption, Zenon DEF Branches
  <2> HIDE DEF Above
  <2>3. \A a \in Environments : g[a] = {a} \cup IF a \in Branches THEN g[Parent[a]] ELSE {}
    BY <1>1, <2>1, <2>2, Zenon
  <2>. QED BY <2>3, Zenon
<1>3. Is(Up)
  <2> HIDE DEF Is
  <2>. QED BY <1>2, Zenon
<1>4. \A a : Line(a) = Up[a]
  BY Zenon DEF Line
<1>5. Up[e] = {e} \cup IF e \in Branches THEN Up[Parent[e]] ELSE {}
  <2>1. \A f : Is(f) => f[e] = {e} \cup IF e \in Branches THEN f[Parent[e]] ELSE {}
    BY Zenon
  <2> HIDE DEF Is, Up
  <2>. QED BY <1>3, <2>1, Zenon
<1>. QED BY <1>4, <1>5, Zenon

LEMMA ParentFacts ==
    ASSUME NEW b \in Branches
    PROVE  /\ b \in Environments /\ Parent[b] \in Environments /\ Parent[b] # b
           /\ {b, Parent[b]} \in Pairs
           /\ Line(Parent[b]) \subseteq Line(b)
<1>1. b \in Environments /\ Parent[b] \in Environments
  BY BranchSyncAssumption, Zenon DEF Branches
<1>2. Parent[b] # b
  <2>1. {b} \in SUBSET DOMAIN Parent /\ {b} # {}
    BY Zenon DEF Branches
  <2>2. \E x \in {b} : Parent[x] \notin {b}
    BY <2>1, BranchSyncAssumption, Zenon
  <2>. QED BY <2>2
<1>. QED BY <1>1, <1>2, PairFacts, LineFacts, Zenon

\* Who runs a node that a Branch uses is one it branches from.
LEMMA NearestFacts ==
    ASSUME NEW e \in Environments, NEW l
    PROVE  nearest(e, l) \subseteq Environments \cap Line(e)
<1> DEFINE Holds(a) == Has(applied[a], l)
           Above(a) == {x \in Environments : Holds(x) /\ \A S \in SUBSET Environments :
                a \in S /\ (\A y \in S \cap Branches : ~Holds(y) => Parent[y] \in S) => x \in S}
           g == [a \in Environments |-> Above(a)]
           Is(up) == up = [a \in Environments |->
                              IF Has(applied[a], l) THEN {a}
                              ELSE IF a \in Branches THEN up[Parent[a]] ELSE {}]
           Up == CHOOSE up : Is(up)
<1> HIDE DEF Holds
<1>1. ASSUME NEW a \in Environments
      PROVE  Above(a) = IF Holds(a) THEN {a} ELSE IF a \in Branches THEN Above(Parent[a]) ELSE {}
  <2>1. CASE Holds(a)
    <3>1. {a} \in SUBSET Environments /\ \A y \in {a} \cap Branches : ~Holds(y) => Parent[y] \in {a}
      BY <2>1, Zenon
    <3>2. Above(a) \subseteq {a}
      BY <3>1, Zenon
    <3>. QED BY <2>1, <3>2, Zenon
  <2>2. CASE ~Holds(a) /\ a \in Branches
    <3>1. Above(a) \subseteq Above(Parent[a])
      <4> SUFFICES ASSUME NEW x \in Above(a),
                          NEW S \in SUBSET Environments, Parent[a] \in S,
                          \A y \in S \cap Branches : ~Holds(y) => Parent[y] \in S
                   PROVE  x \in S
        BY Zenon
      <4>1. /\ S \cup {a} \in SUBSET Environments
            /\ \A y \in (S \cup {a}) \cap Branches : ~Holds(y) => Parent[y] \in S \cup {a}
        BY Zenon
      <4>2. x \in S \cup {a} /\ x # a
        BY <2>2, <4>1, Zenon
      <4>. QED BY <4>2, Zenon
    <3>2. Above(Parent[a]) \subseteq Above(a)
      BY <2>2, Zenon
    <3>. QED BY <2>2, <3>1, <3>2, Zenon
  <2>3. CASE ~Holds(a) /\ a \notin Branches
    <3>1. {a} \in SUBSET Environments /\ \A y \in {a} \cap Branches : ~Holds(y) => Parent[y] \in {a}
      BY <2>3, Zenon
    <3>2. Above(a) \subseteq {a}
      BY <3>1, Zenon
    <3>. QED BY <2>3, <3>2, Zenon
  <2>. QED BY <2>1, <2>2, <2>3, Zenon
<1>2. Is(g)
  <2>1. \A a \in Environments : g[a] = Above(a)
    BY Zenon
  <2>2. \A a \in Branches : a \in Environments /\ Parent[a] \in Environments
    BY ParentFacts, Zenon
  <2> HIDE DEF Above
  <2>3. \A a \in Environments :
            g[a] = IF Holds(a) THEN {a} ELSE IF a \in Branches THEN g[Parent[a]] ELSE {}
    BY <1>1, <2>1, <2>2, Zenon
  <2>. QED BY <2>3, Zenon DEF Holds
<1>3. Is(Up)
  <2> HIDE DEF Is
  <2>. QED BY <1>2, Zenon
<1>4. nearest(e, l) = IF e \in Branches THEN Up[Parent[e]] ELSE {}
  BY Zenon DEF nearest
<1>5. \A a \in Environments :
         Up[a] = IF Holds(a) THEN {a} ELSE IF a \in Branches THEN Up[Parent[a]] ELSE {}
  <2>1. \A f : Is(f) => \A a \in Environments :
            f[a] = IF Holds(a) THEN {a} ELSE IF a \in Branches THEN f[Parent[a]] ELSE {}
    BY Zenon DEF Holds
  <2> HIDE DEF Is, Up
  <2>. QED BY <1>3, <2>1, Zenon
<1> HIDE DEF Up
<1>6. \A a \in Environments \ Branches : Up[a] \subseteq Environments \cap Line(a)
  BY <1>5, LineFacts, Zenon
<1> DEFINE Bad == {b \in Branches : ~(Up[b] \subseteq Environments \cap Line(b))}
<1>7. Bad = {}
  <2>1. SUFFICES ASSUME Bad # {} PROVE FALSE
    BY Zenon
  <2>2. Bad \in SUBSET DOMAIN Parent
    BY Zenon DEF Branches
  <2>3. PICK b \in Bad : Parent[b] \notin Bad
    BY <2>1, <2>2, BranchSyncAssumption, Zenon
  <2>4. Up[Parent[b]] \subseteq Environments \cap Line(b)
    BY <2>3, <1>6, ParentFacts, Zenon
  <2>5. b \in Environments /\ b \in Line(b) /\ b \in Branches
    <3>1. b \in Branches
      BY Zenon
    <3>2. b \in Environments
      BY <3>1, ParentFacts, Zenon
    <3>3. b \in Line(b)
      BY <3>2, LineFacts, Zenon
    <3>. QED BY <3>1, <3>2, <3>3, Zenon
  <2>6. Up[b] = {b} \/ Up[b] = Up[Parent[b]]
    BY <1>5, <2>5, Zenon
  <2>. QED BY <2>4, <2>5, <2>6, Zenon
<1>8. e \in Branches => Up[Parent[e]] \subseteq Environments \cap Line(e)
  BY <1>6, <1>7, ParentFacts, Zenon
<1>. QED BY <1>4, <1>8, Zenon

-----------------------------------------------------------------------------
(***************************************************************************)
(* Arrivals.                                                               *)
(***************************************************************************)
\* If cell x is a secret, it was typed in e or in one it branches from.
Mine(e, x) == x[1] = "secret" => \E a \in Line(e) : x[2] = Secrets[a]

Arrivals ==
    [at : Environments, other : Environments, row : Rows, how : {"sync", "follow"},
     state : {"pending", "hint", "settled"}, value : Seen, prior : Seen, was : Seen,
     sync : Nat]

\* What an arrival remembers can be put back where it came from: a node that is
\* pending was not there before, and what a Sync brought is something that moves.
Sound(a) ==
    /\ a \in Arrivals /\ a.at # a.other
    /\ Fits(a.row, a.prior) /\ Fits(a.row, a.was)
    /\ Mine(a.at, a.was)
    /\ a.state = "pending" /\ a.row[2] = "node" => a.prior = Absent
    /\ a.sync # NoSync => a.value # Absent /\ a.row[2] \notin Owned

Kept(known) ==
    /\ \A a \in known : Sound(a)
    /\ \A a, n \in known : Same(a, n) => a = n

\* x is n, but for what its row was before.
Like(x, n) ==
    /\ Same(x, n) /\ x.how = n.how /\ x.state = n.state /\ x.value = n.value
    /\ x.was = n.was /\ x.sync = n.sync

LEMMA RecordedFacts ==
    ASSUME NEW known, NEW n \in Arrivals
    PROVE  /\ Like(recorded(known, n), n)
           /\ \/ recorded(known, n) = n
              \/ \E a \in known : /\ Same(a, n) /\ a.state = "pending" /\ n.state = "pending"
                                  /\ recorded(known, n) = [n EXCEPT !.prior = a.prior]
<1> DEFINE old == {a \in known : Same(a, n) /\ a.state = "pending"}
<1>1. Like(n, n)
  BY Zenon DEF Like, Same
<1>2. \A v : Like([n EXCEPT !.prior = v], n)
  BY Zenon DEF Like, Same, Arrivals
<1>3. old # {} => The(old) \in old
  BY Zenon DEF The
<1>4. CASE n.state = "pending" /\ old # {}
  BY <1>2, <1>3, <1>4, Zenon DEF recorded
<1>5. CASE ~(n.state = "pending" /\ old # {})
  BY <1>1, <1>5, Zenon DEF recorded
<1>. QED BY <1>4, <1>5, Zenon

\* Recording new keeps what was known of other rows.
LEMMA ArriveFacts ==
    ASSUME NEW known, NEW new, NEW x \in arrive(known, new), \A n \in new : n \in Arrivals
    PROVE  \/ x \in known /\ \A n \in new : ~Same(x, n)
           \/ \E n \in new : x = recorded(known, n) /\ Like(x, n)
BY RecordedFacts DEF arrive

LEMMA ArriveKept ==
    ASSUME NEW known, NEW new, Kept(known), Kept(new)
    PROVE  Kept(arrive(known, new))
<1>0. \A n \in new : n \in Arrivals
  BY Zenon DEF Kept, Sound
<1>1. ASSUME NEW n \in new
      PROVE  Sound(recorded(known, n))
  <2> DEFINE x == recorded(known, n)
  <2>1. ASSUME NEW a \in known, Same(a, n), a.state = "pending", n.state = "pending",
               x = [n EXCEPT !.prior = a.prior]
        PROVE  Sound(x)
    <3>1. Sound(n) /\ Sound(a)
      BY Zenon DEF Kept
    <3> HIDE DEF x
    <3>2. /\ x \in Arrivals /\ x.prior = a.prior /\ x.at = n.at /\ x.other = n.other /\ x.row = n.row
          /\ x.was = n.was /\ x.state = n.state /\ x.sync = n.sync /\ x.value = n.value
      BY <2>1, <3>1, Zenon DEF Sound, Arrivals
    <3>3. a.row = n.row
      BY <2>1, Zenon DEF Same
    <3>. QED BY <2>1, <3>1, <3>2, <3>3, Zenon DEF Sound
  <2>. QED BY <1>0, <2>1, RecordedFacts, Zenon DEF Kept
<1>2. ASSUME NEW x \in arrive(known, new), NEW y \in arrive(known, new), Same(x, y)
      PROVE  x = y
  <2>1. CASE x \in known /\ y \in known
    BY <1>2, <2>1, Zenon DEF Kept
  <2>2. ASSUME NEW n \in new, Like(x, n), NEW m \in new, Like(y, m)
        PROVE  n = m
    <3>1. Same(n, m)
      BY <1>2, <2>2, Zenon DEF Like, Same
    <3>. QED BY <2>2, <3>1, Zenon DEF Kept
  <2>3. ASSUME NEW n \in new, Like(x, n), \A m \in new : ~Same(y, m) PROVE FALSE
    BY <1>2, <2>3, Zenon DEF Like, Same
  <2>4. ASSUME NEW n \in new, Like(y, n), \A m \in new : ~Same(x, m) PROVE FALSE
    BY <1>2, <2>4, Zenon DEF Like, Same
  <2>. QED BY <1>0, <2>1, <2>2, <2>3, <2>4, ArriveFacts
<1>3. \A x \in arrive(known, new) : Sound(x)
  BY <1>0, <1>1, ArriveFacts DEF Kept
<1>. QED BY <1>2, <1>3, Zenon DEF Kept

\* The fields of what lands.
LEMMA LandedFacts ==
    ASSUME NEW p, NEW e \in Environments, NEW other \in Environments, NEW picks, NEW given,
           NEW how \in {"sync", "follow"}, NEW num \in Nat, Whole(p), picks \subseteq Rows,
           next_of(p, picks, given) \in Good, NEW n \in landed(p, e, other, picks, given, how, num)
    PROVE  /\ n \in Arrivals /\ n.row \in picks
           /\ n.at = e /\ n.other = other /\ n.how = how /\ n.state = "pending" /\ n.sync = num
           /\ n.value = At(next_of(p, picks, given), n.row)
           /\ n.prior = At(p.base, n.row) /\ n.was = At(p.into, n.row)
<1>1. PICK r \in picks :
         n = [at |-> e, other |-> other, row |-> r, how |-> how, state |-> "pending",
              value |-> At(next_of(p, picks, given), r), prior |-> At(p.base, r),
              was |-> At(p.into, r), sync |-> num]
  BY Zenon DEF landed
<1>2. r \in Rows
  BY Zenon
<1>3. \A c \in Good : At(c, r) \in Seen
  BY <1>2, AtFits, Zenon DEF Fits
<1>. QED BY <1>1, <1>2, <1>3, Zenon DEF Arrivals, Whole

LEMMA LandedUnique ==
    ASSUME NEW p, NEW e, NEW other, NEW picks, NEW given, NEW how, NEW num,
           NEW n \in landed(p, e, other, picks, given, how, num),
           NEW m \in landed(p, e, other, picks, given, how, num), n.row = m.row
    PROVE  n = m
BY DEF landed

\* What a landing records is well formed.
LEMMA LandedArrivals ==
    ASSUME NEW p, NEW e \in Environments, NEW other \in Environments, NEW picks, NEW given,
           NEW how \in {"sync", "follow"}, NEW num \in Nat, Whole(p), picks \subseteq Rows,
           next_of(p, picks, given) \in Good
    PROVE  landed(p, e, other, picks, given, how, num) \subseteq Arrivals
<1>1. ASSUME NEW n \in landed(p, e, other, picks, given, how, num)
      PROVE  n \in Arrivals
  BY LandedFacts, ZenonT(30)
<1>. QED BY <1>1, Zenon

LEMMA HintFacts ==
    ASSUME NEW p, NEW e \in Environments, NEW other \in Environments, NEW rows,
           Whole(p), rows \subseteq Rows, NEW n \in hint(p, e, other, rows)
    PROVE  /\ n \in Arrivals /\ n.row \in rows
           /\ n.at = e /\ n.other = other /\ n.how = "follow" /\ n.state = "hint"
           /\ n.value = At(p.from, n.row) /\ n.prior = Absent /\ n.was = Absent /\ n.sync = NoSync
           /\ \A m \in hint(p, e, other, rows) : m.row = n.row => m = n
<1>1. PICK r \in rows :
         n = [at |-> e, other |-> other, row |-> r, how |-> "follow", state |-> "hint",
              value |-> At(p.from, r), prior |-> Absent, was |-> Absent, sync |-> NoSync]
  BY Zenon DEF hint
<1>2. At(p.from, r) \in Seen /\ Absent \in Seen
  BY AtFits, CellFacts, Zenon DEF Fits, Whole, Seen
<1>3. \A m \in hint(p, e, other, rows) : m.row = n.row => m = n
  BY DEF hint
<1>4. NoSync \in Nat
  BY Zenon DEF NoSync
<1>. QED BY <1>1, <1>2, <1>3, <1>4, Zenon DEF Arrivals

\* What lands is sound: a new node was shared by nobody, and a Sync brings nothing
\* that is absent or each Environment's own.
LEMMA LandedKept ==
    ASSUME NEW p, NEW e \in Environments, NEW other \in Environments, e # other, NEW picks, NEW given,
           NEW how \in {"sync", "follow"}, NEW num \in Nat, Whole(p), picks \subseteq plan(p),
           next_of(p, picks, given) \in Good, num # NoSync => p.way = "sync",
           \A r \in DOMAIN given : given[r] # Absent,
           \A r \in Rows : Mine(e, p.into[r])
    PROVE  Kept(landed(p, e, other, picks, given, how, num))
<1> DEFINE new == landed(p, e, other, picks, given, how, num)
           next == next_of(p, picks, given)
<1>0. picks \subseteq Rows
  BY Zenon DEF plan
<1>1. ASSUME NEW n \in new
      PROVE  Sound(n)
  <2>1. /\ n \in Arrivals /\ n.row \in picks
        /\ n.at = e /\ n.other = other /\ n.state = "pending" /\ n.sync = num
        /\ n.value = At(next, n.row)
        /\ n.prior = At(p.base, n.row) /\ n.was = At(p.into, n.row)
    BY <1>0, LandedFacts
  <2> DEFINE r == n.row
  <2>2. r \in Rows /\ r \in plan(p) /\ r \in picks
    BY <1>0, <2>1, Zenon
  <2> HIDE DEF next, r
  <2>3. Fits(r, n.prior) /\ Fits(r, n.was)
    BY <2>1, <2>2, AtFits, Zenon DEF Whole, r
  <2>4. Mine(e, n.was)
    <3>1. r[2] # "node" => n.was = p.into[r]
      BY <2>1, <2>2, AtFits, Zenon DEF Whole, r
    <3>2. r[2] = "node" => n.was[1] # "secret"
      BY <2>3, CellFacts, Zenon DEF Fits
    <3>. QED BY <2>2, <3>1, <3>2, Zenon DEF Mine
  <2>5. r[2] = "node" => n.prior = Absent
    <3>1. r[2] = "node" => p.base[r] = Absent
      <4>1. r[2] = "node" <=> NodeOf(r) = r
        BY <2>2, RowFacts, Zenon
      <4>2. r[2] = "node" => p.into[NodeOf(r)] = Absent /\ p.base[NodeOf(r)] = Absent
        BY <2>2, PlanFacts, Zenon
      <4>. QED BY <4>1, <4>2, Zenon
    <3>. QED BY <2>1, <2>2, <3>1, AtFits, Zenon DEF Whole, r
  <2>6. num # NoSync => n.value # Absent /\ r[2] \notin Owned
    <3> SUFFICES ASSUME p.way = "sync" PROVE n.value # Absent /\ r[2] \notin Owned
      BY Zenon
    <3>1. r[2] \notin Owned
      BY <2>2, PlanFacts, RowFacts, SyncPlanAssumption
    <3>2. p.from[r] # Absent
      <4>1. CASE p.into[NodeOf(r)] # Absent
        <5>1. At(p.from, r) # Absent
          BY <4>1, <2>2, PlanFacts, Zenon DEF moved
        <5>. QED BY <5>1, <2>2, AtFits, Zenon DEF Whole
      <4>2. CASE p.into[NodeOf(r)] = Absent /\ r[2] = "node"
        BY <4>2, <2>2, PlanFacts, RowFacts
      <4>3. CASE p.into[NodeOf(r)] = Absent /\ r[2] # "node"
        BY <4>3, <2>2, PlanFacts, Zenon DEF moved
      <4>. QED BY <4>1, <4>2, <4>3, Zenon
    <3>3. landing(p, given, r) # Absent
      <4>1. \/ landing(p, given, r) \in {p.from[r], SecretWithoutValue}
            \/ r \in DOMAIN given /\ landing(p, given, r) = given[r]
        BY Zenon DEF landing
      <4>. QED BY <3>2, <4>1, CellFacts, Zenon
    <3>4. next[r] = landing(p, given, r)
      BY <2>2, Zenon DEF next, next_of
    <3>. QED BY <3>1, <3>3, <3>4, <2>1, <2>2, AtFits, Zenon DEF r, next
  <2>. QED BY <2>1, <2>2, <2>3, <2>4, <2>5, <2>6, Zenon DEF Sound, r
<1>2. \A n, m \in new : Same(n, m) => n = m
  BY LandedUnique, Zenon DEF Same
<1>. QED BY <1>1, <1>2, Zenon DEF Kept

LEMMA HintKept ==
    ASSUME NEW p, NEW e \in Environments, NEW other \in Environments, e # other, NEW rows,
           Whole(p), rows \subseteq Rows
    PROVE  Kept(hint(p, e, other, rows))
<1>1. \A n \in hint(p, e, other, rows) : Sound(n)
  <2>1. \A r \in Rows : Fits(r, Absent)
    BY CellFacts, Zenon DEF Fits, Seen
  <2>2. Absent[1] # "secret"
    BY CellFacts, Zenon
  <2>. QED BY <2>1, <2>2, HintFacts DEF Sound, Mine
<1>2. \A n, m \in hint(p, e, other, rows) : Same(n, m) => n = m
  BY HintFacts DEF Same
<1>. QED BY <1>1, <1>2, Zenon DEF Kept

-----------------------------------------------------------------------------
(***************************************************************************)
(* The inductive invariant.                                                *)
(***************************************************************************)
\* Every secret of c was typed in e or in one it branches from.
Own(e, c) == \A r \in Rows : Mine(e, c[r])

Configs ==
    /\ exist \subseteq Environments
    /\ working \in [Environments -> Good] /\ applied \in [Environments -> Good]
    /\ saved \in [Environments -> SUBSET Good] /\ shipping \in [Environments -> SUBSET Good]
    /\ made_with \in [Environments -> SUBSET Good]
    /\ marks \in [Environments -> SUBSET Rows]
    /\ \A e \in Environments :
         \A c \in {working[e], applied[e]} \cup saved[e] \cup shipping[e] : Own(e, c)

\* What pairs share: a Branch and its Parent always something.
Bases ==
    /\ base \in [Pairs -> SUBSET Good]
    /\ \A b \in Branches \cap exist : base[{b, Parent[b]}] # {}

\* What arrived did from a side its receiver shares something with, each of num
\* Syncs in one place.
Placed(known, over, num) ==
    /\ \A a \in known : over[{a.at, a.other}] # {} /\ a.sync <= num
    /\ \A a, n \in known :
         a.sync = n.sync /\ a.sync # NoSync => a.at = n.at /\ a.other = n.other

Arrived == Kept(arrivals) /\ syncs \in Nat /\ Placed(arrivals, base, syncs)

Inv == Configs /\ Bases /\ Arrived

\* m has the nodes of S as c does, the others as d does.
Mixes(m, S, c, d) ==
    m = [r \in Rows |-> m[r]] /\ \A r \in Rows : m[r] = IF r[1] \in S THEN c[r] ELSE d[r]

LEMMA MixGood ==
    ASSUME NEW c \in Good, NEW d \in Good, NEW S, NEW m, Mixes(m, S, c, d)
    PROVE  m \in Good /\ \A e : Own(e, c) /\ Own(e, d) => Own(e, m)
<1>0. m = [r \in Rows |-> m[r]] /\ \A r \in Rows : m[r] = IF r[1] \in S THEN c[r] ELSE d[r]
  BY Zenon DEF Mixes
<1>1. \A r \in Rows : NodeOf(r) \in Rows /\ NodeOf(r)[1] = r[1]
  BY RowFacts, Zenon
<1>2. \A r \in Rows : m[NodeOf(r)] = IF r[1] \in S THEN c[NodeOf(r)] ELSE d[NodeOf(r)]
  BY <1>0, <1>1, Zenon
<1>3. m \in Good
  <2>1. \A r \in Rows : /\ m[r] \in Cells
                        /\ r[2] = "node" => m[r] \in {Absent, Present}
                        /\ r[2] = "source" => m[r][1] \in {"absent", "value"}
    BY <1>0, GoodFacts, Zenon
  <2>2. \A r \in Rows : r[2] # "node" /\ m[NodeOf(r)] = Absent => m[r] = Absent
    <3> SUFFICES ASSUME NEW r \in Rows, r[2] # "node", m[NodeOf(r)] = Absent
                 PROVE  m[r] = Absent
      BY Zenon
    <3>1. CASE r[1] \in S
      BY <1>0, <1>2, <3>1, GoodFacts, Zenon
    <3>2. CASE r[1] \notin S
      BY <1>0, <1>2, <3>2, GoodFacts, Zenon
    <3>. QED BY <3>1, <3>2, Zenon
  <2>. QED BY <1>0, <2>1, <2>2, GoodIntro, Zenon
<1>4. \A e : Own(e, c) /\ Own(e, d) => Own(e, m)
  BY <1>0, Zenon DEF Own
<1>. QED BY <1>3, <1>4, Zenon

LEMMA EmptyOwn == \A e : Own(e, Empty)
BY CellFacts, Zenon DEF Own, Mine, Empty

\* One row of a node that is there changes.
LEMMA EditGood ==
    ASSUME NEW c \in Good, NEW r \in Rows, r[2] # "node", Has(c, r[1]), NEW x \in Cells,
           r[2] = "source" => x[1] \in {"absent", "value"}
    PROVE  /\ [c EXCEPT ![r] = x] \in Good
           /\ \A e : Own(e, c) /\ Mine(e, x) => Own(e, [c EXCEPT ![r] = x])
<1> DEFINE m == [c EXCEPT ![r] = x]
<1>1. c = [q \in Rows |-> c[q]]
  BY GoodFacts, Zenon
<1>2. m = [q \in Rows |-> m[q]] /\ \A q \in Rows : m[q] = IF q = r THEN x ELSE c[q]
  BY <1>1, Zenon
<1>3. c[NodeOf(r)] # Absent /\ NodeOf(r) # r /\ NodeOf(r) \in Rows
  BY GoodFacts, RowFacts
<1>. HIDE DEF m
<1>4. \A q \in Rows : m[NodeOf(q)] = c[NodeOf(q)]
  <2>1. \A q \in Rows : NodeOf(q) \in Rows /\ NodeOf(q)[2] = "node"
    BY RowFacts, Zenon
  <2>. QED BY <1>2, <2>1, Zenon
<1>5. m \in Good
  BY <1>2, <1>3, <1>4, GoodFacts, GoodIntro
<1>6. \A e : Own(e, c) /\ Mine(e, x) => Own(e, m)
  BY <1>2, Zenon DEF Own
<1>. QED BY <1>5, <1>6, Zenon DEF m

-----------------------------------------------------------------------------
(***************************************************************************)
(* A person's own changes keep the invariant.                              *)
(***************************************************************************)
LEMMA SaveKeeps ==
    ASSUME Configs, NEW e \in Environments, NEW next \in Good, Own(e, next), save_working(e, next),
           UNCHANGED <<exist, saved, applied, shipping, made_with, marks>>
    PROVE  Configs'
<1>1. working' \in [Environments -> Good]
  BY Zenon DEF Configs, save_working
<1>2. \A f \in Environments : working'[f] = IF f = e THEN next ELSE working[f]
  BY Zenon DEF Configs, save_working
<1>. QED BY <1>1, <1>2, Zenon DEF Configs

LEMMA SharedKeeps ==
    ASSUME Inv, UNCHANGED <<exist, base, arrivals, syncs>>
    PROVE  Bases' /\ Arrived'
BY Zenon DEF Inv, Bases, Arrived

LEMMA EditKeeps ==
    ASSUME Inv, NEW e \in Environments, NEW i \in Inputs[e], i[1][2] # "node", Edit(e, i[1], i[2])
    PROVE  Inv'
<1> DEFINE r == i[1]
           next == [working[e] EXCEPT ![r] = i[2]]
<1>1. /\ r \in Rows /\ i[2] \in Cells
      /\ r[2] = "source" => i[2][1] = "value"
      /\ i[2][1] = "secret" => i[2] = Secret(Secrets[e])
  BY BranchSyncAssumption
<1>2. working[e] \in Good /\ Own(e, working[e])
  BY Zenon DEF Inv, Configs
<1>3. /\ Has(working[e], r[1]) /\ save_working(e, next)
      /\ UNCHANGED <<exist, saved, applied, shipping, shared, syncs>>
  BY Zenon DEF Edit
<1>4. Mine(e, i[2])
  <2>1. e \in Line(e)
    BY LineFacts, Zenon
  <2>2. i[2][1] = "secret" => i[2][2] = Secrets[e]
    BY <1>1, CellFacts, BranchSyncAssumption
  <2>. QED BY <2>1, <2>2, Zenon DEF Mine
<1> HIDE DEF r
<1>5. next \in Good /\ Own(e, next)
  BY <1>1, <1>2, <1>3, <1>4, EditGood, Zenon DEF r
<1> HIDE DEF next
<1>6. Configs'
  BY <1>3, <1>5, SaveKeeps, Zenon DEF Inv, shared
<1>. QED BY <1>3, <1>6, SharedKeeps, Zenon DEF Inv, shared

LEMMA CreateServiceKeeps ==
    ASSUME Inv, NEW e \in Environments, NEW l \in Lineages, create_service(e, l)
    PROVE  Inv'
<1> DEFINE c == working[e]
           next == [c EXCEPT ![<<l, "node">>] = Present, ![<<l, "source">>] = Value(1)]
           n == <<l, "node">>
           s == <<l, "source">>
<1>1. c \in Good /\ Own(e, c) /\ c = [r \in Rows |-> c[r]]
  <2>1. n \in Rows
    BY Zenon DEF Rows
  <2>. QED BY <2>1, GoodFacts, Zenon DEF Inv, Configs
<1>2. /\ save_working(e, next)
      /\ UNCHANGED <<exist, saved, applied, shipping, shared, syncs>>
  BY Zenon DEF create_service
<1> HIDE DEF c
<1>3. /\ n \in Rows /\ s \in Rows /\ n # s /\ \A r \in Rows : NodeOf(r) # s
      /\ n[2] = "node" /\ s[2] = "source" /\ NodeOf(n) = n /\ NodeOf(s) = n
  BY Zenon DEF Rows, NodeOf
<1>4. /\ next = [r \in Rows |-> next[r]]
      /\ \A r \in Rows : next[r] = IF r = n THEN Present ELSE IF r = s THEN Value(1) ELSE c[r]
  BY <1>1, <1>3, Zenon
<1> HIDE DEF next, n, s
<1>5. Value(1) \in Cells /\ Value(1)[1] = "value"
  BY CellFacts, Zenon
<1>6. next \in Good
  <2>1. \A r \in Rows : next[r] \in Cells
    BY <1>1, <1>4, <1>5, CellFacts, GoodFacts, Zenon
  <2>2. \A r \in Rows : r[2] = "node" => next[r] \in {Absent, Present}
    BY <1>1, <1>3, <1>4, GoodFacts, Zenon
  <2>3. \A r \in Rows : r[2] = "source" => next[r][1] \in {"absent", "value"}
    BY <1>1, <1>3, <1>4, <1>5, GoodFacts, Zenon
  <2>4. ASSUME NEW r \in Rows, r[2] # "node", next[NodeOf(r)] = Absent PROVE next[r] = Absent
    <3>1. NodeOf(r) # n
      BY <1>3, <1>4, <2>4, CellFacts, Zenon
    <3>2. c[NodeOf(r)] = Absent
      BY <1>3, <1>4, <2>4, <3>1, RowFacts
    <3>3. r # n /\ r # s
      BY <1>3, <3>1, Zenon
    <3>. QED BY <1>1, <1>4, <2>4, <3>2, <3>3, GoodFacts, Zenon
  <2>. QED BY <1>4, <2>1, <2>2, <2>3, <2>4, GoodIntro, Zenon
<1>7. Own(e, next)
  BY <1>1, <1>4, <1>5, CellFacts DEF Own, Mine
<1>8. Configs'
  BY <1>2, <1>6, <1>7, SaveKeeps, Zenon DEF Inv, shared
<1>. QED BY <1>2, <1>8, SharedKeeps, Zenon DEF Inv, shared

LEMMA RemoveServiceKeeps ==
    ASSUME Inv, NEW e \in Environments, NEW l, remove_service(e, l)
    PROVE  Inv'
<1> DEFINE next == [r \in Rows |-> IF r[1] = l THEN Absent ELSE working[e][r]]
<1>1. working[e] \in Good /\ Own(e, working[e])
  BY Zenon DEF Inv, Configs
<1>2. /\ save_working(e, next)
      /\ UNCHANGED <<exist, saved, applied, shipping, shared, syncs>>
  BY Zenon DEF remove_service
<1>3. Mixes(next, {l}, Empty, working[e])
  BY Zenon DEF Mixes, Empty
<1> HIDE DEF next
<1>4. next \in Good /\ Own(e, next)
  BY <1>1, <1>3, MixGood, EmptyGood, EmptyOwn, Zenon
<1>5. Configs'
  BY <1>2, <1>4, SaveKeeps, Zenon DEF Inv, shared
<1>. QED BY <1>2, <1>5, SharedKeeps, Zenon DEF Inv, shared

LEMMA DeployKeeps ==
    ASSUME Inv, NEW e \in Environments, publish(e) \/ deploy(e) \/ deploy_saved(e)
    PROVE  Inv'
<1>1. UNCHANGED <<exist, working, applied, made_with, base, marks, arrivals, syncs>>
  BY Zenon DEF publish, deploy, deploy_saved, shared, counts
<1>2. saved' = saved \/ saved' = [saved EXCEPT ![e] = {working[e]}]
  BY Zenon DEF publish, deploy, deploy_saved, publishes
<1>3. shipping' = shipping \/ shipping' = [shipping EXCEPT ![e] = {working[e]}]
                          \/ shipping' = [shipping EXCEPT ![e] = saved[e]]
  BY Zenon DEF publish, deploy, deploy_saved
<1>4. Configs'
  <2>1. /\ saved' \in [Environments -> SUBSET Good]
        /\ \A f \in Environments : \A c \in saved'[f] : Own(f, c)
    BY <1>2 DEF Inv, Configs
  <2>2. /\ shipping' \in [Environments -> SUBSET Good]
        /\ \A f \in Environments : \A c \in shipping'[f] : Own(f, c)
    BY <1>3 DEF Inv, Configs
  <2>. QED BY <1>1, <2>1, <2>2, Zenon DEF Inv, Configs
<1>. QED BY <1>1, <1>4, SharedKeeps, Zenon DEF Inv

LEMMA NeverSyncKeeps ==
    ASSUME Inv, NEW e \in Environments, NEW r \in Marking, never_sync(e, r)
    PROVE  Inv'
<1>1. r \in Rows
  BY BranchSyncAssumption, Zenon
<1>2. UNCHANGED <<exist, working, saved, applied, shipping, made_with, base, arrivals, syncs>>
  BY Zenon DEF never_sync, configs
<1>3. marks' \in [Environments -> SUBSET Rows]
  BY <1>1, Zenon DEF Inv, Configs, never_sync
<1>4. Configs'
  BY <1>2, <1>3, Zenon DEF Inv, Configs
<1>. QED BY <1>2, <1>4, SharedKeeps, Zenon DEF Inv

LEMMA OwnUp ==
    ASSUME NEW a, NEW b, Line(a) \subseteq Line(b), NEW c, Own(a, c)
    PROVE  Own(b, c)
BY Zenon DEF Own, Mine

\* The two sides of an arrival are a pair.
LEMMA ArrivalPair ==
    ASSUME NEW a, Sound(a)
    PROVE  /\ a.at \in Environments /\ a.other \in Environments /\ a.row \in Rows
           /\ {a.at, a.other} \in Pairs
BY PairFacts, Zenon DEF Sound, Arrivals

LEMMA CreateBranchKeeps ==
    ASSUME Inv, NEW b \in Branches, NEW picked, create_branch(b, picked)
    PROVE  Inv'
<1> DEFINE from == working[Parent[b]]
           copies == own_nodes(from, applied[Parent[b]], picked)
           live == live_nodes(from, copies)
           over == [r \in Rows |-> IF r[1] \in live THEN Absent ELSE from[r]]
           next == [r \in Rows |-> IF r[1] \in copies THEN from[r] ELSE Absent]
<1>1. /\ working' = [working EXCEPT ![b] = next]
      /\ base' = [base EXCEPT ![{b, Parent[b]}] = {over}]
      /\ made_with' = [made_with EXCEPT ![b] = {over}]
      /\ exist' = exist \cup {b}
      /\ UNCHANGED <<saved, applied, shipping, marks, arrivals, syncs>>
  BY Zenon DEF create_branch, counts
<1>2. from \in Good /\ Own(Parent[b], from)
  BY ParentFacts, Zenon DEF Inv, Configs
<1>3. Mixes(over, live, Empty, from)
  BY Zenon DEF Mixes, Empty
<1>4. Mixes(next, copies, from, Empty)
  BY Zenon DEF Mixes, Empty
<1> HIDE DEF from, copies, live, over, next
<1>5. over \in Good
  BY <1>2, <1>3, MixGood, EmptyGood, Zenon
<1>6. next \in Good /\ Own(b, next)
  <2>1. Own(b, from)
    BY <1>2, OwnUp, ParentFacts, Zenon
  <2>. QED BY <1>2, <1>4, <2>1, MixGood, EmptyGood, EmptyOwn, Zenon
<1>7. Configs'
  <2>1. /\ working' \in [Environments -> Good] /\ made_with' \in [Environments -> SUBSET Good]
        /\ exist' \subseteq Environments
    BY <1>1, <1>5, <1>6, ParentFacts, Zenon DEF Inv, Configs
  <2>2. \A f \in Environments : Own(f, working'[f])
    BY <1>1, <1>6, Zenon DEF Inv, Configs
  <2>. QED BY <1>1, <2>1, <2>2 DEF Inv, Configs
<1>8. base' \in [Pairs -> SUBSET Good] /\ \A pair \in Pairs : base[pair] # {} => base'[pair] # {}
  BY <1>1, <1>5, Zenon DEF Inv, Bases
<1>9. Bases'
  <2>1. base'[{b, Parent[b]}] # {}
    BY <1>1, ParentFacts, Zenon DEF Inv, Bases
  <2>. QED BY <1>1, <1>8, <2>1, ParentFacts, Zenon DEF Inv, Bases
<1>10. Arrived'
  BY <1>1, <1>8, ArrivalPair, Zenon DEF Inv, Arrived, Kept, Placed
<1>. QED BY <1>7, <1>9, <1>10, Zenon DEF Inv

-----------------------------------------------------------------------------
(***************************************************************************)
(* Taking back what arrived.                                               *)
(***************************************************************************)
LEMMA RewindGood ==
    ASSUME Inv, NEW e, NEW gone \in SUBSET arrivals
    PROVE  /\ rewind_bases(e, gone) \in [Pairs -> SUBSET Good]
           /\ \A pair \in Pairs : base[pair] # {} => rewind_bases(e, gone)[pair] # {}
<1> DEFINE back(pair) == {a \in gone : pair = {e, a.other}}
           prior(pair) == [r \in {a.row : a \in back(pair)} |->
                              (CHOOSE a \in back(pair) : a.row = r).prior]
           after(pair) == IF back(pair) = {} \/ base[pair] = {} THEN base[pair]
                          ELSE {put_back(The(base[pair]), prior(pair))}
<1>1. rewind_bases(e, gone) = [pair \in Pairs |-> after(pair)]
  BY Zenon DEF rewind_bases
<1>2. ASSUME NEW pair \in Pairs
      PROVE  after(pair) \in SUBSET Good /\ (base[pair] # {} => after(pair) # {})
  <2>1. base[pair] \in SUBSET Good
    BY Zenon DEF Inv, Bases
  <2>2. base[pair] # {} => The(base[pair]) \in Good
    BY <2>1, Zenon DEF The
  <2>3. \A r \in DOMAIN prior(pair) : r \in Rows /\ Fits(r, prior(pair)[r])
    <3> SUFFICES ASSUME NEW r \in DOMAIN prior(pair)
                 PROVE  r \in Rows /\ Fits(r, prior(pair)[r])
      BY Zenon
    <3>1. PICK a \in back(pair) : a.row = r /\ prior(pair)[r] = a.prior
      <4>1. \E a \in back(pair) : a.row = r
        BY Zenon
      <4>. QED BY <4>1, Zenon
    <3>2. Sound(a)
      BY Zenon DEF Inv, Arrived, Kept
    <3>. QED BY <3>1, <3>2, ArrivalPair, Zenon DEF Sound
  <2> HIDE DEF prior, back
  <2>. QED BY <2>1, <2>2, <2>3, PutBackGood, Zenon
<1> HIDE DEF after
<1>. QED BY <1>1, <1>2, Zenon

\* What a discard leaves of an arrival it takes back.
Hinted(a) == [a EXCEPT !.state = "hint", !.prior = Absent, !.was = Absent]

LEMMA HintedFacts ==
    ASSUME NEW a, Sound(a)
    PROVE  /\ Sound(Hinted(a)) /\ Same(Hinted(a), a) /\ Hinted(a).sync = a.sync
           /\ Hinted(a).state = "hint"
<1>1. a \in Arrivals
  BY Zenon DEF Sound
<1>2. Absent \in Seen /\ Absent[1] # "secret" /\ Fits(a.row, Absent)
  BY CellFacts, <1>1, Zenon DEF Seen, Fits, Arrivals
<1>3. LET h == Hinted(a) IN
         /\ h \in Arrivals /\ h.at = a.at /\ h.other = a.other /\ h.row = a.row /\ h.state = "hint"
         /\ h.prior = Absent /\ h.was = Absent /\ h.value = a.value /\ h.sync = a.sync
  BY <1>1, <1>2, Zenon DEF Hinted, Arrivals
<1>. QED BY <1>2, <1>3, Zenon DEF Sound, Same, Mine

\* What over shares, later does.
Outlast(over, later) == \A pair \in Pairs : over[pair] # {} => later[pair] # {}

\* The arrivals of new are some of known, each told otherwise.
Retold(known, f, new) ==
    /\ \A a \in known : Sound(f[a]) /\ Same(f[a], a) /\ f[a].sync = a.sync
    /\ \A x \in new : \E a \in known : x = f[a]

LEMMA RetoldKept ==
    ASSUME NEW known, NEW f, NEW new, Retold(known, f, new), Kept(known)
    PROVE  Kept(new)
<1>1. \A x \in new : Sound(x)
  BY Zenon DEF Retold
<1>2. ASSUME NEW x \in new, NEW y \in new, Same(x, y) PROVE x = y
  <2>1. PICK a \in known, b \in known : x = f[a] /\ y = f[b]
    BY Zenon DEF Retold
  <2>2. Same(a, b)
    BY <1>2, <2>1, Zenon DEF Same, Retold
  <2>. QED BY <2>1, <2>2, Zenon DEF Kept
<1>. QED BY <1>1, <1>2, Zenon DEF Kept

LEMMA RetoldPlaced ==
    ASSUME NEW known, NEW f, NEW new, Retold(known, f, new), Kept(known),
           NEW over, NEW later, Outlast(over, later), NEW num, Placed(known, over, num)
    PROVE  Placed(new, later, num)
<1>1. ASSUME NEW x \in new
      PROVE  later[{x.at, x.other}] # {} /\ x.sync <= num
  <2>1. PICK a \in known : x = f[a]
    BY Zenon DEF Retold
  <2>2. x.at = a.at /\ x.other = a.other /\ x.sync = a.sync
    BY <2>1, Zenon DEF Retold, Same
  <2>3. {a.at, a.other} \in Pairs
    BY ArrivalPair, Zenon DEF Kept
  <2>. QED BY <2>2, <2>3, Zenon DEF Placed, Outlast
<1>2. ASSUME NEW x \in new, NEW y \in new, x.sync = y.sync, x.sync # NoSync
      PROVE  x.at = y.at /\ x.other = y.other
  <2>1. PICK a \in known, b \in known : x = f[a] /\ y = f[b]
    BY Zenon DEF Retold
  <2>. QED BY <1>2, <2>1 DEF Placed, Same, Retold
<1>. QED BY <1>1, <1>2, Zenon DEF Placed

LEMMA DiscardsKeeps ==
    ASSUME Inv, NEW e \in Environments, NEW after \in Good, Own(e, after),
           NEW after_saved \in SUBSET Good, \A c \in after_saved : Own(e, c),
           discards(e, after, after_saved)
    PROVE  Inv'
<1> DEFINE gone == {a \in arrivals : a.at = e /\ a.state = "pending"
                                      /\ At(working[e], a.row) # At(after, a.row)}
           follows == {a \in gone : a.how = "follow"}
<1>1. /\ saved' = [saved EXCEPT ![e] = after_saved]
      /\ working' = [working EXCEPT ![e] = after]
      /\ arrivals' = (arrivals \ gone) \cup {Hinted(a) : a \in follows}
      /\ base' = rewind_bases(e, gone)
      /\ UNCHANGED <<exist, applied, shipping, made_with, marks, syncs>>
  BY Zenon DEF discards, rewind, save_working, counts, Hinted
<1>2. gone \in SUBSET arrivals /\ follows \subseteq gone
  BY Zenon
<1> HIDE DEF gone, follows
<1>3. Configs'
  <2>1. /\ working' \in [Environments -> Good] /\ saved' \in [Environments -> SUBSET Good]
        /\ \A f \in Environments : Own(f, working'[f]) /\ \A c \in saved'[f] : Own(f, c)
    BY <1>1, Zenon DEF Inv, Configs
  <2>. QED BY <1>1, <2>1, Zenon DEF Inv, Configs
<1>4. base' \in [Pairs -> SUBSET Good] /\ \A pair \in Pairs : base[pair] # {} => base'[pair] # {}
  BY <1>1, <1>2, RewindGood, Zenon
<1>5. Bases'
  BY <1>1, <1>4, ParentFacts, Zenon DEF Inv, Bases
<1>6. Kept(arrivals') /\ Placed(arrivals', base', syncs)
  <2> DEFINE f == [a \in arrivals |-> IF a \in gone THEN Hinted(a) ELSE a]
  <2>1. \A x \in arrivals' : \E a \in arrivals : x = f[a]
    BY <1>1, <1>2, Zenon
  <2>2. \A a \in arrivals : Sound(f[a]) /\ Same(f[a], a) /\ f[a].sync = a.sync
    BY HintedFacts, Zenon DEF Inv, Arrived, Kept, Same
  <2> HIDE DEF f
  <2>3. Retold(arrivals, f, arrivals') /\ Outlast(base, base')
    BY <1>4, <2>1, <2>2, Zenon DEF Retold, Outlast
  <2>. QED BY <2>3, RetoldKept, RetoldPlaced, Zenon DEF Inv, Arrived
<1>. QED BY <1>1, <1>3, <1>5, <1>6, Zenon DEF Inv, Arrived

LEMMA HeadFacts ==
    ASSUME Inv, NEW e \in Environments
    PROVE  head(e) \in Good /\ Own(e, head(e))
<1>1. shipping[e] # {} => The(shipping[e]) \in shipping[e]
  BY Zenon DEF The
<1>. QED BY <1>1, Zenon DEF Inv, Configs, head

LEMMA DiscardAllKeeps ==
    ASSUME Inv, NEW e \in Environments, discard_all(e)
    PROVE  Inv'
<1> DEFINE s == IF saved[e] = {} THEN {} ELSE {head(e)}
<1>1. discards(e, head(e), s)
  BY Zenon DEF discard_all
<1>2. head(e) \in Good /\ Own(e, head(e))
  BY HeadFacts, Zenon
<1>3. s \in SUBSET Good /\ \A c \in s : Own(e, c)
  BY <1>2, Zenon
<1> HIDE DEF s
<1>. QED BY <1>1, <1>2, <1>3, DiscardsKeeps, Zenon

LEMMA DiscardNodeKeeps ==
    ASSUME Inv, NEW e \in Environments, NEW l, discard_node(e, l)
    PROVE  Inv'
<1> DEFINE as_head(c) == [r \in Rows |-> IF r[1] = l THEN head(e)[r] ELSE c[r]]
           s == {as_head(c) : c \in saved[e]}
<1>1. discards(e, as_head(working[e]), s)
  BY Zenon DEF discard_node
<1>2. head(e) \in Good /\ Own(e, head(e))
  BY HeadFacts, Zenon
<1>3. ASSUME NEW c \in Good, Own(e, c) PROVE as_head(c) \in Good /\ Own(e, as_head(c))
  <2> DEFINE m == as_head(c)
  <2>1. Mixes(m, {l}, head(e), c)
    BY Zenon DEF Mixes
  <2> HIDE DEF as_head
  <2>. QED BY <1>2, <1>3, <2>1, MixGood, Zenon
<1> HIDE DEF as_head
<1>4. working[e] \in Good /\ Own(e, working[e]) /\ \A c \in saved[e] : c \in Good /\ Own(e, c)
  BY Zenon DEF Inv, Configs
<1>5. s \in SUBSET Good /\ \A c \in s : Own(e, c)
  BY <1>3, <1>4, Zenon
<1> HIDE DEF s
<1>. QED BY <1>1, <1>3, <1>4, <1>5, DiscardsKeeps, Zenon

LEMMA DiscardRowKeeps ==
    ASSUME Inv, NEW e \in Environments, NEW r \in Rows, discard_row(e, r)
    PROVE  Inv'
<1> DEFINE as_head(c) == IF Has(c, r[1]) THEN [c EXCEPT ![r] = head(e)[r]] ELSE c
           s == {as_head(c) : c \in saved[e]}
<1>1. discards(e, as_head(working[e]), s) /\ r[2] # "node"
  BY Zenon DEF discard_row
<1>2. head(e) \in Good /\ Own(e, head(e))
  BY HeadFacts, Zenon
<1>3. ASSUME NEW c \in Good, Own(e, c) PROVE as_head(c) \in Good /\ Own(e, as_head(c))
  <2>1. head(e)[r] \in Cells /\ (r[2] = "source" => head(e)[r][1] \in {"absent", "value"})
    BY <1>2, GoodFacts, Zenon
  <2>2. Mine(e, head(e)[r])
    BY <1>2, Zenon DEF Own
  <2>. QED BY <1>1, <1>3, <2>1, <2>2, EditGood, Zenon
<1> HIDE DEF as_head
<1>4. working[e] \in Good /\ Own(e, working[e]) /\ \A c \in saved[e] : c \in Good /\ Own(e, c)
  BY Zenon DEF Inv, Configs
<1>5. s \in SUBSET Good /\ \A c \in s : Own(e, c)
  BY <1>3, <1>4, Zenon
<1> HIDE DEF s
<1>. QED BY <1>1, <1>3, <1>4, <1>5, DiscardsKeeps, Zenon

\* Undo takes back a Sync that is all pending, where nothing changed since.
LEMMA UndoKeeps ==
    ASSUME Inv, NEW s, s # NoSync, undo(s)
    PROVE  Inv'
<1> DEFINE rows == {a \in arrivals : a.sync = s}
           e == The(rows).at
           back == [r \in {a.row : a \in rows} |-> CHOOSE a \in rows : a.row = r]
           next == unapply(working[e], back)
<1>1. /\ rows # {} /\ unappliable(working[e], back)
      /\ save_working(e, next) /\ arrivals' = arrivals \ rows
      /\ base' = rewind_bases(e, rows)
      /\ UNCHANGED <<exist, saved, applied, shipping, made_with, marks, syncs>>
  BY Zenon DEF undo, counts
<1>2. ASSUME NEW a \in rows
      PROVE  /\ Sound(a) /\ a.at = e /\ a.row \in Rows /\ Fits(a.row, a.was)
             /\ Mine(e, a.was) /\ a.value # Absent
  <2>1. The(rows) \in rows
    BY <1>1, Zenon DEF The
  <2>2. a.at = e
    BY <2>1, Zenon DEF Inv, Arrived, Placed
  <2>3. Sound(a)
    BY Zenon DEF Inv, Arrived, Kept
  <2> HIDE DEF e
  <2>. QED BY <2>2, <2>3, ArrivalPair, Zenon DEF Sound
<1>3. e \in Environments
  <2>1. The(rows) \in rows
    BY <1>1, Zenon DEF The
  <2>. QED BY <2>1, <1>2, ArrivalPair, Zenon
<1>4. \A r \in DOMAIN back : back[r] \in rows /\ back[r].row = r
  <2>1. \A r \in DOMAIN back : \E a \in rows : a.row = r
    BY Zenon
  <2>. QED BY <2>1, Zenon
<1>5. working[e] \in Good /\ Own(e, working[e])
  BY <1>3, Zenon DEF Inv, Configs
<1>6. rows \in SUBSET arrivals
  BY Zenon
<1>7. \A r \in Rows : next[r] = IF NodeOf(r) \in DOMAIN back THEN Absent
                              ELSE IF r \in DOMAIN back THEN back[r].was ELSE working[e][r]
  BY Zenon DEF unapply
<1> HIDE DEF rows, e, back
<1>8. next \in Good
  BY <1>1, <1>2, <1>4, <1>5, UnapplyGood, Zenon
<1> HIDE DEF next
<1>9. Own(e, next)
  <2>1. Mine(e, Absent)
    BY CellFacts, Zenon DEF Mine
  <2>. QED BY <1>2, <1>4, <1>5, <1>7, <2>1, Zenon DEF Own
<1>10. Configs'
  BY <1>1, <1>3, <1>8, <1>9, SaveKeeps, Zenon DEF Inv
<1>11. base' \in [Pairs -> SUBSET Good] /\ Outlast(base, base')
  BY <1>1, <1>6, RewindGood, Zenon DEF Outlast
<1>12. Bases'
  BY <1>1, <1>11, ParentFacts, Zenon DEF Inv, Bases, Outlast
<1>13. Arrived'
  <2> DEFINE f == [a \in arrivals |-> a]
  <2>1. Retold(arrivals, f, arrivals')
    BY <1>1, Zenon DEF Retold, Inv, Arrived, Kept, Same
  <2> HIDE DEF f
  <2>. QED BY <1>1, <1>11, <2>1, RetoldKept, RetoldPlaced, Zenon DEF Inv, Arrived
<1>. QED BY <1>10, <1>12, <1>13, Zenon DEF Inv

-----------------------------------------------------------------------------
(***************************************************************************)
(* Rows that land.                                                         *)
(***************************************************************************)
\* A Sync lands no secret but those typed for it; any other move comes from where
\* e branches from.
LEMMA NextOwn ==
    ASSUME NEW p, NEW e, NEW picks, NEW given, Whole(p), Own(e, p.into),
           p.way = "sync" \/ Own(e, p.from),
           \A r \in DOMAIN given : Mine(e, given[r])
    PROVE  Own(e, next_of(p, picks, given))
<1> DEFINE next == next_of(p, picks, given)
<1>1. \A r \in Rows : next[r] = IF r \in picks THEN landing(p, given, r)
                               ELSE IF r[2] = "source" /\ NodeOf(r) \in picks THEN p.from[r]
                               ELSE p.into[r]
  BY Zenon DEF next_of
<1>2. \A r \in Rows : r[2] = "source" => Mine(e, p.from[r])
  BY GoodFacts, Zenon DEF Mine, Whole
<1>3. ASSUME NEW r \in Rows PROVE Mine(e, landing(p, given, r))
  <2>1. CASE ~needs_value(p, r)
    <3>1. Mine(e, p.from[r])
      BY <2>1, Zenon DEF needs_value, is_secret, Mine, Own
    <3>. QED BY <2>1, <3>1, Zenon DEF landing
  <2>2. CASE needs_value(p, r)
    <3>1. Mine(e, SecretWithoutValue)
      BY CellFacts, Zenon DEF Mine
    <3>. QED BY <2>2, <3>1, Zenon DEF landing
  <2>. QED BY <2>1, <2>2, Zenon
<1> HIDE DEF next
<1>4. Own(e, next)
  BY <1>1, <1>2, <1>3, Zenon DEF Own
<1>. QED BY <1>4, Zenon DEF next

\* All of new arrived at e from other, by the same Sync if by any.
From(new, e, other, num) == \A n \in new : n.at = e /\ n.other = other /\ n.sync = num

LEMMA PlacedLater ==
    ASSUME NEW known, NEW over, NEW later, NEW num \in Nat, NEW next \in Nat,
           Kept(known), Placed(known, over, num), Outlast(over, later), num <= next
    PROVE  Placed(known, later, next)
<1>1. \A x \in known : later[{x.at, x.other}] # {}
  BY ArrivalPair, Zenon DEF Kept, Placed, Outlast
<1>2. \A x \in known : x.sync \in Nat /\ x.sync <= num
  BY Zenon DEF Kept, Sound, Arrivals, Placed
<1>3. \A x \in known : x.sync <= next
  BY <1>2
<1>. QED BY <1>1, <1>3, Zenon DEF Placed

LEMMA ArrivePlaced ==
    ASSUME NEW known, NEW new, NEW over, NEW num, NEW e, NEW other, NEW mark,
           Kept(new), Placed(known, over, num), From(new, e, other, mark),
           over[{e, other}] # {}, mark <= num, mark = NoSync \/ \A a \in known : a.sync # mark
    PROVE  Placed(arrive(known, new), over, num)
<1>0. \A n \in new : n \in Arrivals
  BY Zenon DEF Kept, Sound
<1>1. ASSUME NEW x \in arrive(known, new)
      PROVE  x \in known \/ (x.at = e /\ x.other = other /\ x.sync = mark)
  BY <1>0, ArriveFacts DEF Like, Same, From
<1>2. ASSUME NEW x \in arrive(known, new)
      PROVE  over[{x.at, x.other}] # {} /\ x.sync <= num
  <2>1. CASE x \in known
    BY <2>1, Zenon DEF Placed
  <2>2. CASE x.at = e /\ x.other = other /\ x.sync = mark
    BY <2>2, Zenon
  <2>. QED BY <1>1, <2>1, <2>2, Zenon
<1>3. \A x, y \in arrive(known, new) :
         x.sync = y.sync /\ x.sync # NoSync => x.at = y.at /\ x.other = y.other
  BY <1>1, Zenon DEF Placed
<1>. QED BY <1>2, <1>3, Zenon DEF Placed

\* A landing has no number, or the next one.
Numbers(num, s, t) ==
    \/ num = NoSync /\ t = s
    \/ num = s + 1 /\ t = s + 1

LEMMA Numbered ==
    ASSUME NEW s \in Nat, NEW t, NEW num, Numbers(num, s, t)
    PROVE  /\ num \in Nat /\ t \in Nat /\ s <= t /\ num <= t
           /\ num = NoSync \/ \A k \in Nat : k <= s => k # num
BY DEF Numbers, NoSync

LEMMA ApplyKeeps ==
    ASSUME Inv, NEW p, NEW e \in Environments, NEW other \in Environments, e # other,
           NEW picks, NEW given, NEW how \in {"sync", "follow"}, NEW num,
           apply(p, e, other, picks, given, how, num),
           Whole(p), p.into = working[e], picks \subseteq plan(p),
           p.way = "sync" \/ Own(e, p.from),
           \A r \in DOMAIN given : given[r] \in Cells /\ given[r] # Absent /\ Mine(e, given[r]),
           \/ num = NoSync /\ syncs' = syncs
           \/ num = syncs + 1 /\ syncs' = syncs + 1 /\ p.way = "sync",
           UNCHANGED <<exist, saved, applied, shipping, made_with, marks>>
    PROVE  Inv'
<1> DEFINE next == next_of(p, picks, given)
           over == base_of(p, picks)
           new == landed(p, e, other, picks, given, how, num)
<1>1. /\ whole(p, picks) = picks /\ save_working(e, next)
      /\ base' = [base EXCEPT ![{e, other}] = {over}]
      /\ arrivals' = arrive(arrivals, new)
  BY Zenon DEF apply, save_working
<1>2. next \in Good /\ over \in Good
  BY <1>1, NextGood, BaseGood, Zenon
<1>3. Own(e, working[e])
  BY Zenon DEF Inv, Configs
<1>4. Own(e, next)
  BY <1>3, NextOwn, Zenon
<1>5. /\ num \in Nat /\ syncs \in Nat /\ syncs' \in Nat /\ syncs <= syncs' /\ num <= syncs'
      /\ num = NoSync \/ \A k \in Nat : k <= syncs => k # num
  <2>1. syncs \in Nat
    BY Zenon DEF Inv, Arrived
  <2>2. Numbers(num, syncs, syncs')
    BY Zenon DEF Numbers
  <2>. QED BY <2>1, <2>2, Numbered, Zenon
<1>6. Kept(new)
  BY <1>2, <1>3, <1>5, LandedKept, Zenon DEF Own, NoSync
<1>7. \A n \in new : n.at = e /\ n.other = other /\ n.sync = num
  <2>1. picks \subseteq Rows
    BY Zenon DEF plan
  <2>. QED BY <1>2, <1>5, <2>1, LandedFacts
<1> HIDE DEF next, over, new
<1>8. Configs'
  BY <1>1, <1>2, <1>4, SaveKeeps, Zenon DEF Inv
<1>9. {e, other} \in Pairs
  BY PairFacts, Zenon
<1>10. /\ base' \in [Pairs -> SUBSET Good] /\ Outlast(base, base')
       /\ base'[{e, other}] # {}
  BY <1>1, <1>2, <1>9, Zenon DEF Inv, Bases, Outlast
<1>11. Bases'
  BY <1>10, ParentFacts, Zenon DEF Inv, Bases, Outlast
<1>12. Kept(arrivals')
  BY <1>1, <1>6, ArriveKept, Zenon DEF Inv, Arrived
<1>13. Placed(arrivals', base', syncs')
  <2>1. syncs' \in Nat /\ syncs <= syncs' /\ num <= syncs'
    BY <1>5, Zenon
  <2>2. Kept(arrivals) /\ Placed(arrivals, base, syncs)
    BY Zenon DEF Inv, Arrived
  <2>3. Placed(arrivals, base', syncs')
    BY <1>5, <1>10, <2>1, <2>2, PlacedLater, Zenon
  <2>4. num = NoSync \/ \A a \in arrivals : a.sync # num
    <3>1. \A a \in arrivals : a.sync \in Nat /\ a.sync <= syncs
      BY Zenon DEF Inv, Arrived, Kept, Sound, Arrivals, Placed
    <3>. QED BY <1>5, <3>1, Zenon
  <2>5. From(new, e, other, num)
    BY <1>7, Zenon DEF From
  <2>6. Placed(arrive(arrivals, new), base', syncs')
    BY <1>6, <1>10, <2>1, <2>3, <2>4, <2>5, ArrivePlaced, Zenon
  <2>. QED BY <1>1, <2>6, Zenon
<1>. QED BY <1>5, <1>8, <1>11, <1>12, <1>13, Zenon DEF Inv, Arrived

LEMMA LineUp ==
    ASSUME NEW e \in Environments, NEW x \in Line(e)
    PROVE  Line(x) \subseteq Line(e)
<1> DEFINE Bad == {b \in Branches : \E y \in Line(b) : ~(Line(y) \subseteq Line(b))}
<1>1. \A a \in Environments \ Branches : Line(a) = {a}
  BY LineFacts, Zenon
<1>2. Bad = {}
  <2>1. SUFFICES ASSUME Bad # {} PROVE FALSE
    BY Zenon
  <2>2. Bad \in SUBSET DOMAIN Parent
    BY Zenon DEF Branches
  <2>3. PICK b \in Bad : Parent[b] \notin Bad
    BY <2>1, <2>2, BranchSyncAssumption, Zenon
  <2>4. b \in Branches /\ b \in Environments /\ Parent[b] \in Environments /\ Line(Parent[b]) \subseteq Line(b)
    BY ParentFacts, Zenon
  <2>5. PICK y \in Line(b) : ~(Line(y) \subseteq Line(b))
    BY Zenon
  <2>6. Line(b) = {b} \cup Line(Parent[b])
    BY <2>4, LineFacts, Zenon
  <2>7. y \in Line(Parent[b])
    BY <2>5, <2>6, Zenon
  <2>8. Line(y) \subseteq Line(Parent[b])
    BY <2>3, <2>4, <2>7, <1>1
  <2>. QED BY <2>4, <2>5, <2>8, Zenon
<1>. QED BY <1>1, <1>2

LEMMA MoveFacts ==
    ASSUME NEW way, NEW from, NEW over, NEW source, NEW into
    PROVE  LET p == Move(way, from, over, source, into) IN
           /\ p.way = way /\ p.from = from /\ p.base = over /\ p.into = working[into]
           /\ p.from_marks = from_marks(source, into) /\ p.into_marks = marks[into]
           /\ p.live = used_live(working[into])
BY Zenon DEF Move

LEMMA SyncWhole ==
    ASSUME Inv, NEW from \in Environments, NEW into \in Environments, from # into
    PROVE  /\ Whole(Sync_move(from, into)) /\ Sync_move(from, into).way = "sync"
           /\ Sync_move(from, into).into = working[into]
           /\ Sync_move(from, into).from = working[from]
           /\ Sync_move(from, into).base = sync_base(from, into)
<1>1. {from, into} \in Pairs
  BY PairFacts, Zenon
<1>2. /\ base[{from, into}] \subseteq Good /\ made_with[from] \subseteq Good /\ made_with[into] \subseteq Good
      /\ working[from] \in Good /\ working[into] \in Good
  BY <1>1, Zenon DEF Inv, Configs, Bases
<1>3. \A s : s # {} /\ s \subseteq Good => The(s) \in Good
  BY Zenon DEF The
<1>4. sync_base(from, into) \in Good
  BY <1>2, <1>3, Zenon DEF sync_base
<1>. QED BY <1>2, <1>4, MoveFacts DEF Sync_move, Whole

LEMMA OwnSecret ==
    ASSUME NEW e \in Environments
    PROVE  Secrets[e] \in Nat /\ e \in Line(e)
BY LineFacts, BranchSyncAssumption

LEMMA SyncKeeps ==
    ASSUME Inv, NEW from, NEW into, NEW picks, NEW given, sync(from, into, picks, given)
    PROVE  Inv'
<1> DEFINE p == Sync_move(from, into)
           typed == [r \in given |-> Secret(Secrets[into])]
<1>1. /\ from \in Environments /\ into \in Environments /\ from # into
      /\ picks \subseteq plan(p) /\ apply(p, into, from, picks, typed, "sync", syncs + 1)
      /\ syncs' = syncs + 1
      /\ UNCHANGED <<exist, saved, applied, shipping, made_with, marks>>
  BY Zenon DEF sync, Inv, Configs
<1>2. Whole(p) /\ p.way = "sync" /\ p.into = working[into]
  BY <1>1, SyncWhole, Zenon
<1>3. \A r \in DOMAIN typed : typed[r] \in Cells /\ typed[r] # Absent /\ Mine(into, typed[r])
  <2>1. Secrets[into] \in Nat /\ into \in Line(into)
    BY <1>1, OwnSecret, Zenon
  <2>2. Secret(Secrets[into]) \in Cells /\ Secret(Secrets[into]) # Absent /\ Mine(into, Secret(Secrets[into]))
    BY <2>1, CellFacts, Zenon DEF Mine
  <2>. QED BY <2>2, Zenon
<1> HIDE DEF p, typed
<1>. QED BY <1>1, <1>2, <1>3, ApplyKeeps, Zenon

LEMMA BranchBase ==
    ASSUME Inv, NEW b \in Branches \cap exist
    PROVE  The(base[{b, Parent[b]}]) \in Good
BY ParentFacts, Zenon DEF Inv, Bases, The

LEMMA FollowWhole ==
    ASSUME Inv, NEW b \in Branches \cap exist, NEW runs \in Good
    PROVE  LET p == Follow_move(runs, b) IN
           /\ Whole(p) /\ p.way = "follow" /\ p.into = working[b] /\ p.from = runs
           /\ p.into_marks = marks[b]
<1>1. working[b] \in Good
  BY ParentFacts, Zenon DEF Inv, Configs
<1>. QED BY <1>1, BranchBase, MoveFacts DEF Follow_move, Whole

LEMMA NoValuesFacts == DOMAIN NoValues = {}
BY Zenon DEF NoValues

LEMMA TakeKeeps ==
    ASSUME Inv, NEW b \in Branches \cap exist, NEW picks, take(b, picks)
    PROVE  Inv'
<1> DEFINE p == Follow_move(applied[Parent[b]], b)
<1>1. /\ picks \subseteq plan(p) /\ apply(p, b, Parent[b], picks, NoValues, "follow", NoSync)
      /\ UNCHANGED <<exist, saved, applied, shipping, made_with, marks, syncs>>
  BY Zenon DEF take, hinted, counts
<1>2. applied[Parent[b]] \in Good /\ Own(Parent[b], applied[Parent[b]])
  BY ParentFacts, Zenon DEF Inv, Configs
<1>3. Whole(p) /\ p.way = "follow" /\ p.into = working[b] /\ p.from = applied[Parent[b]]
  BY <1>2, FollowWhole, Zenon
<1>4. Own(b, p.from)
  BY <1>2, <1>3, ParentFacts, OwnUp, Zenon
<1> HIDE DEF p
<1>. QED BY <1>1, <1>3, <1>4, ApplyKeeps, ParentFacts, NoValuesFacts, Zenon

LEMMA CopyKeeps ==
    ASSUME Inv, NEW b \in Branches \cap exist, NEW l, copy_node(b, l)
    PROVE  Inv'
<1> DEFINE owner == The(nearest(b, l))
           over == The(base[{b, Parent[b]}])
           lacking == [r \in Rows |-> IF r[1] = l THEN Absent ELSE over[r]]
           p == [Move("copy", applied[owner], lacking, owner, b) EXCEPT !.live = @ \ {l}]
           picks == {r \in plan(p) : r[1] = l}
<1>1. /\ nearest(b, l) # {} /\ apply(p, b, Parent[b], picks, NoValues, "sync", NoSync)
      /\ UNCHANGED <<exist, saved, applied, shipping, made_with, marks, syncs>>
  BY Zenon DEF copy_node, counts
<1>2. owner \in Environments /\ owner \in Line(b)
  BY <1>1, NearestFacts, ParentFacts, Zenon DEF The
<1>3. over \in Good
  BY BranchBase, Zenon
<1>4. Mixes(lacking, {l}, Empty, over)
  BY Zenon DEF Mixes, Empty
<1>5. p.way = "copy" /\ p.from = applied[owner] /\ p.base = lacking /\ p.into = working[b]
  BY Zenon DEF Move
<1>6. picks \subseteq plan(p)
  BY Zenon
<1> HIDE DEF owner, over, lacking, p, picks
<1>7. lacking \in Good
  BY <1>3, <1>4, MixGood, EmptyGood, Zenon
<1>8. Whole(p)
  BY <1>2, <1>5, <1>7, ParentFacts, Zenon DEF Whole, Inv, Configs
<1>9. Own(b, p.from)
  <2>1. Own(owner, applied[owner])
    BY <1>2, Zenon DEF Inv, Configs
  <2>2. Line(owner) \subseteq Line(b)
    BY <1>2, LineUp, ParentFacts, Zenon
  <2>. QED BY <1>5, <2>1, <2>2, OwnUp, Zenon
<1>. QED BY <1>1, <1>5, <1>6, <1>8, <1>9, ApplyKeeps, ParentFacts, NoValuesFacts, Zenon

-----------------------------------------------------------------------------
(***************************************************************************)
(* What a Parent deployed follows into its Branches.                       *)
(***************************************************************************)
LEMMA WholePicks ==
    ASSUME NEW p, NEW rows, rows \subseteq plan(p)
    PROVE  LET picks == whole(p, rows) IN
           /\ picks \subseteq rows /\ whole(p, picks) = picks /\ whole(p, {}) = {}
<1>1. \A r \in rows : r \in Rows
  BY Zenon DEF plan
<1>2. \A r \in rows : NodeOf(r)[2] = "node"
  BY <1>1, RowFacts, Zenon
<1>. QED BY <1>2, Zenon DEF whole

\* The rows of a Follow that a Branch takes, and those it keeps as hints.
Taken(p, rows, refuses) == IF refuses THEN {} ELSE follow_picks(p, rows)
Told(p, rows, refuses) ==
    {r \in rows : conflict(p, r)} \cup (follow_picks(p, rows) \ Taken(p, rows, refuses))

\* res is what following the rows of p makes of Branch b.
Follows(p, rows, refuses, b, known, res) ==
    LET taken == Taken(p, rows, refuses)
        told == Told(p, rows, refuses)
    IN /\ Whole(p) /\ p.way = "follow" /\ p.into = working[b] /\ p.into_marks = marks[b]
       /\ Own(b, p.from) /\ rows \subseteq plan(p) /\ taken \subseteq rows /\ told \subseteq rows
       /\ taken \cap told = {} /\ whole(p, taken) = taken
       /\ res.working = next_of(p, taken, NoValues) /\ res.working \in Good
       /\ res.base = base_of(p, taken) /\ res.base \in Good
       /\ res.arrivals = arrive(known, landed(p, b, Parent[b], taken, NoValues, "follow", NoSync)
                                         \cup hint(p, b, Parent[b], told))

LEMMA FollowParts ==
    ASSUME Inv, NEW b \in Branches \cap exist, NEW runs \in Good, Own(Parent[b], runs),
           NEW known, NEW lineages, NEW refuses
    PROVE  LET p == Follow_move(runs, b)
               rows == follow_rows(p, known, b, lineages)
           IN  /\ Follows(p, rows, refuses, b, known, follow_into(runs, known, b, lineages, refuses))
               /\ p.from = runs
<1> DEFINE p == Follow_move(runs, b)
           rows == follow_rows(p, known, b, lineages)
           picks == follow_picks(p, rows)
           taken == Taken(p, rows, refuses)
           told == Told(p, rows, refuses)
           res == follow_into(runs, known, b, lineages, refuses)
<1>1. /\ Whole(p) /\ p.way = "follow" /\ p.into = working[b] /\ p.from = runs
      /\ p.into_marks = marks[b]
  BY FollowWhole, Zenon
<1>2. Own(b, p.from)
  BY <1>1, ParentFacts, OwnUp, Zenon
<1>3. rows \subseteq plan(p)
  BY Zenon DEF follow_rows
<1>4. /\ res.working = next_of(p, taken, NoValues) /\ res.base = base_of(p, taken)
      /\ res.arrivals = arrive(known, landed(p, b, Parent[b], taken, NoValues, "follow", NoSync)
                                         \cup hint(p, b, Parent[b], told))
  BY Zenon DEF follow_into, Taken, Told
<1> HIDE DEF p, rows
<1>5. {r \in rows : ~conflict(p, r)} \subseteq plan(p)
  BY <1>3, Zenon
<1>6. /\ picks \subseteq {r \in rows : ~conflict(p, r)}
      /\ whole(p, picks) = picks /\ whole(p, {}) = {}
  BY <1>5, WholePicks, Zenon DEF follow_picks
<1>7. taken \subseteq rows /\ told \subseteq rows /\ taken \cap told = {} /\ whole(p, taken) = taken
  BY <1>6, Zenon DEF Taken, Told
<1> HIDE DEF picks, taken, told, res
<1>8. next_of(p, taken, NoValues) \in Good /\ base_of(p, taken) \in Good
  BY <1>1, <1>3, <1>7, NextGood, BaseGood, NoValuesFacts, Zenon
<1>9. Follows(p, rows, refuses, b, known, res)
  BY <1>1, <1>2, <1>3, <1>4, <1>7, <1>8, Zenon DEF Follows, taken, told
<1>. QED BY <1>1, <1>9, Zenon DEF p, rows, res

LEMMA UnionKept ==
    ASSUME NEW s, NEW t, Kept(s), Kept(t), \A a \in s : \A n \in t : ~Same(a, n)
    PROVE  Kept(s \cup t)
BY Zenon DEF Kept, Same

\* res leaves Branch b whole, and adds to what was known only what followed.
Followed(res, b, known) ==
    /\ res.working \in Good /\ Own(b, res.working) /\ res.base \in Good
    /\ Kept(res.arrivals)
    /\ \A x \in res.arrivals :
          x \in known \/ (x.at = b /\ x.other = Parent[b] /\ x.sync = NoSync)

LEMMA FollowKeeps ==
    ASSUME Inv, NEW b \in Branches \cap exist, NEW runs \in Good, Own(Parent[b], runs),
           NEW known, Kept(known), NEW lineages, NEW refuses
    PROVE  Followed(follow_into(runs, known, b, lineages, refuses), b, known)
<1> DEFINE p == Follow_move(runs, b)
           rows == follow_rows(p, known, b, lineages)
           taken == Taken(p, rows, refuses)
           hints == Told(p, rows, refuses)
           res == follow_into(runs, known, b, lineages, refuses)
           lands == landed(p, b, Parent[b], taken, NoValues, "follow", NoSync)
           tells == hint(p, b, Parent[b], hints)
<1>0. Follows(p, rows, refuses, b, known, res)
  BY FollowParts, Zenon
<1> HIDE DEF p, rows, res
<1>1. /\ Whole(p) /\ p.way = "follow" /\ p.into = working[b]
      /\ Own(b, p.from) /\ rows \subseteq plan(p) /\ taken \subseteq rows /\ hints \subseteq rows
      /\ taken \cap hints = {} /\ whole(p, taken) = taken
      /\ res.working = next_of(p, taken, NoValues) /\ res.working \in Good
      /\ res.base = base_of(p, taken) /\ res.base \in Good
      /\ res.arrivals = arrive(known, lands \cup tells)
  BY <1>0, Zenon DEF Follows
<1>2. b \in Environments /\ Parent[b] \in Environments /\ b # Parent[b]
  BY ParentFacts, Zenon
<1>3. plan(p) \subseteq Rows /\ NoSync \in Nat
  BY Zenon DEF plan, NoSync
<1>4. Own(b, working[b])
  BY <1>2, Zenon DEF Inv, Configs
<1> HIDE DEF taken, hints
<1>5. Own(b, res.working)
  BY <1>1, <1>4, NextOwn, NoValuesFacts, Zenon
<1>6. Kept(lands)
  BY <1>1, <1>2, <1>3, <1>4, LandedKept, NoValuesFacts, Zenon DEF Own
<1>7. Kept(tells)
  <2>1. hints \subseteq Rows
    BY <1>1, <1>3, Zenon
  <2>. QED BY <1>1, <1>2, <2>1, HintKept, Zenon
<1>8. /\ \A n \in lands : n.at = b /\ n.other = Parent[b] /\ n.sync = NoSync /\ n.row \in taken
      /\ \A n \in tells : n.at = b /\ n.other = Parent[b] /\ n.sync = NoSync /\ n.row \in hints
  <2>1. taken \subseteq Rows /\ hints \subseteq Rows
    BY <1>1, <1>3, Zenon
  <2>2. \A n \in lands : n.at = b /\ n.other = Parent[b] /\ n.sync = NoSync /\ n.row \in taken
    BY <1>1, <1>2, <1>3, <2>1, LandedFacts, SMTT(30)
  <2>3. \A n \in tells : n.at = b /\ n.other = Parent[b] /\ n.sync = NoSync /\ n.row \in hints
    BY <1>1, <1>2, <2>1, HintFacts
  <2>. QED BY <2>2, <2>3, Zenon
<1> HIDE DEF lands, tells
<1>9. Kept(lands \cup tells)
  BY <1>1, <1>6, <1>7, <1>8, UnionKept, Zenon DEF Same
<1>10. Kept(res.arrivals)
  BY <1>1, <1>9, ArriveKept, ZenonT(30)
<1>11. ASSUME NEW x \in res.arrivals
       PROVE  x \in known \/ (x.at = b /\ x.other = Parent[b] /\ x.sync = NoSync)
  <2>1. \A n \in lands \cup tells : n \in Arrivals
    BY <1>9, Zenon DEF Kept, Sound
  <2>. QED BY <1>1, <1>8, <2>1, ArriveFacts DEF Like, Same
<1>. QED BY <1>1, <1>5, <1>10, <1>11, Zenon DEF res, Followed

LEMMA DeployedFacts ==
    ASSUME NEW known, Kept(known), NEW e, NEW c, NEW lineages
    PROVE  LET settled == deployed(known, e, c, lineages) IN
           /\ Kept(settled)
           /\ \A over, num : Placed(known, over, num) => Placed(settled, over, num)
           /\ \A a \in known : a.at # e \/ a.state # "pending" => a \in settled
           /\ \A x \in settled : \E a \in known :
                 /\ Same(x, a) /\ x.sync = a.sync
                 /\ (a.at # e \/ a.state # "pending" => x = a)
<1> DEFINE Ships(a) == /\ a.at = e /\ a.state = "pending"
                       /\ a.row[1] \in lineages /\ At(c, a.row) = a.value
           settle(a) == [a EXCEPT !.state = "settled", !.prior = Absent, !.was = Absent]
           f == [a \in known |-> IF Ships(a) THEN settle(a) ELSE a]
           settled == deployed(known, e, c, lineages)
<1>1. settled = {f[a] : a \in known}
  <2>1. settled = {IF Ships(a) THEN settle(a) ELSE a : a \in known}
    BY Zenon DEF deployed
  <2>. QED BY <2>1, Zenon
<1>2. ASSUME NEW a \in known
      PROVE  Sound(settle(a)) /\ Same(settle(a), a) /\ settle(a).sync = a.sync
  <2>1. Sound(a) /\ a \in Arrivals
    BY Zenon DEF Kept, Sound
  <2>2. Absent \in Seen /\ Absent[1] # "secret" /\ Fits(a.row, Absent)
    BY CellFacts, <2>1, Zenon DEF Seen, Fits, Arrivals
  <2>3. LET h == settle(a) IN
         /\ h \in Arrivals /\ h.at = a.at /\ h.other = a.other /\ h.row = a.row /\ h.state = "settled"
         /\ h.prior = Absent /\ h.was = Absent /\ h.value = a.value /\ h.sync = a.sync
    BY <2>1, <2>2, Zenon DEF Arrivals
  <2>. QED BY <2>1, <2>2, <2>3, Zenon DEF Sound, Same, Mine
<1> HIDE DEF settle, settled
<1>3. \A a \in known : Sound(f[a]) /\ Same(f[a], a) /\ f[a].sync = a.sync
  BY <1>2, Zenon DEF Kept, Same
<1>4. \A a \in known : a.at # e \/ a.state # "pending" => f[a] = a
  BY Zenon
<1> HIDE DEF f
<1>5. Retold(known, f, settled)
  BY <1>1, <1>3, Zenon DEF Retold
<1>6. Kept(settled) /\ \A over, num : Placed(known, over, num) => Placed(settled, over, num)
  <2>1. \A over : Outlast(over, over)
    BY Zenon DEF Outlast
  <2>. QED BY <1>5, <2>1, RetoldKept, RetoldPlaced, Zenon
<1>7. /\ \A a \in known : a.at # e \/ a.state # "pending" => a \in settled
      /\ \A x \in settled : \E a \in known :
            Same(x, a) /\ x.sync = a.sync /\ (a.at # e \/ a.state # "pending" => x = a)
  BY <1>1, <1>3, <1>4
<1>. QED BY <1>6, <1>7, Zenon DEF settled

LEMMA EndGood ==
    ASSUME Inv, NEW e \in Environments, shipping[e] # {}, NEW ok
    PROVE  LET c == The(shipping[e])
               runs == advance(e, c, ok)
           IN c \in Good /\ runs \in Good /\ Own(e, runs)
<1> DEFINE c == The(shipping[e])
           runs == advance(e, c, ok)
<1>1. c \in Good /\ Own(e, c) /\ applied[e] \in Good /\ Own(e, applied[e])
  BY Zenon DEF Inv, Configs, The
<1>2. Mixes(runs, ok, c, applied[e])
  BY Zenon DEF Mixes, advance
<1> HIDE DEF c, runs
<1>3. c \in Good /\ runs \in Good /\ Own(e, runs)
  BY <1>1, <1>2, MixGood, Zenon
<1>. QED BY <1>3, Zenon DEF c, runs

LEMMA EndKeeps ==
    ASSUME Inv, NEW e \in Environments, NEW ok, NEW refusing, end(e, ok, refusing)
    PROVE  Inv'
<1> DEFINE c == The(shipping[e])
           runs == advance(e, c, ok)
           lineages == {l \in ok : Has(c, l)}
           settled == deployed(arrivals, e, c, lineages)
           following == {b \in Branches \cap exist : Parent[b] = e /\ lineages # {}}
           res(b) == follow_into(runs, settled, b, lineages, b \in refusing)
           result == [b \in following |-> res(b)]
<1>1. /\ applied' = [applied EXCEPT ![e] = runs]
      /\ working' = [b \in Environments |->
                        IF b \in following THEN result[b].working ELSE working[b]]
      /\ base' = [pair \in Pairs |->
                    IF \E b \in following : pair = {b, e}
                    THEN {result[CHOOSE b \in following : pair = {b, e}].base}
                    ELSE base[pair]]
      /\ arrivals' = {a \in settled : a.at \notin following} \cup
                     UNION {{a \in result[b].arrivals : a.at = b} : b \in following}
      /\ shipping[e] # {} /\ shipping' = [shipping EXCEPT ![e] = {}]
      /\ UNCHANGED <<exist, saved, made_with, marks, syncs>>
  BY Zenon DEF end, counts
<1>2. runs \in Good /\ Own(e, runs)
  BY <1>1, EndGood, Zenon
<1>3. \A b \in following : /\ b \in Branches \cap exist /\ Parent[b] = e /\ b \in Environments
                           /\ result[b] = res(b)
  BY ParentFacts, Zenon
<1>4. Kept(settled) /\ Placed(settled, base, syncs)
  BY DeployedFacts, Zenon DEF Inv, Arrived
<1> HIDE DEF c, runs, lineages, settled, following
<1>5. ASSUME NEW b \in following
      PROVE  /\ result[b].working \in Good /\ Own(b, result[b].working) /\ result[b].base \in Good
             /\ Kept(result[b].arrivals)
             /\ \A x \in result[b].arrivals : x \in settled \/ (x.at = b /\ x.other = e /\ x.sync = NoSync)
  <2>1. Kept(settled) /\ b \in Branches \cap exist /\ Own(Parent[b], runs)
    BY <1>2, <1>3, <1>4, Zenon
  <2>2. Followed(res(b), b, settled)
    BY <1>2, <2>1, FollowKeeps, Zenon
  <2> HIDE DEF res, result
  <2>. QED BY <1>3, <2>2, Zenon DEF Followed
<1> HIDE DEF res, result
<1>6. Configs'
  <2>1. working' \in [Environments -> Good] /\ \A f \in Environments : Own(f, working'[f])
    BY <1>1, <1>5, Zenon DEF Inv, Configs
  <2>2. applied' \in [Environments -> Good] /\ \A f \in Environments : Own(f, applied'[f])
    BY <1>1, <1>2, Zenon DEF Inv, Configs
  <2>3. /\ shipping' \in [Environments -> SUBSET Good]
        /\ \A f \in Environments : \A d \in shipping'[f] : Own(f, d)
    BY <1>1, Zenon DEF Inv, Configs
  <2>. QED BY <1>1, <2>1, <2>2, <2>3 DEF Inv, Configs
<1>7. base' \in [Pairs -> SUBSET Good] /\ Outlast(base, base')
  <2>1. ASSUME NEW pair \in Pairs
        PROVE  base'[pair] \in SUBSET Good /\ (base[pair] # {} => base'[pair] # {})
    <3>1. CASE \E b \in following : pair = {b, e}
      <4> DEFINE b == CHOOSE b \in following : pair = {b, e}
      <4>1. b \in following
        BY <3>1, Zenon
      <4>2. base'[pair] = {result[b].base}
        BY <1>1, <3>1, Zenon
      <4> HIDE DEF b
      <4>. QED BY <1>5, <4>1, <4>2, Zenon
    <3>2. CASE ~\E b \in following : pair = {b, e}
      BY <1>1, <3>2, Zenon DEF Inv, Bases
    <3>. QED BY <3>1, <3>2, Zenon
  <2>2. base' = [pair \in Pairs |-> base'[pair]]
    BY <1>1, Zenon
  <2>. QED BY <2>1, <2>2, Zenon DEF Outlast
<1>8. Bases'
  BY <1>1, <1>7, ParentFacts, Zenon DEF Inv, Bases, Outlast
<1>9. ASSUME NEW x \in arrivals'
      PROVE  \/ x \in settled /\ x.at \notin following
             \/ x.at \in following /\ x \in result[x.at].arrivals
  BY <1>1, Zenon
<1>10. Kept(arrivals')
  <2>1. \A x \in arrivals' : Sound(x)
    BY <1>4, <1>5, <1>9, Zenon DEF Kept
  <2>2. ASSUME NEW x \in arrivals', NEW y \in arrivals', Same(x, y) PROVE x = y
    <3>1. x.at = y.at
      BY <2>2, Zenon DEF Same
    <3>2. CASE x.at \in following
      BY <1>5, <1>9, <2>2, <3>1, <3>2, Zenon DEF Kept
    <3>3. CASE x.at \notin following
      BY <1>4, <1>9, <2>2, <3>1, <3>3, Zenon DEF Kept
    <3>. QED BY <3>2, <3>3, Zenon
  <2>. QED BY <2>1, <2>2, Zenon DEF Kept
<1>11. Placed(arrivals', base', syncs)
  <2>1. Placed(settled, base', syncs) /\ syncs \in Nat
    BY <1>4, <1>7, PlacedLater DEF Inv, Arrived
  <2>2. ASSUME NEW x \in arrivals' PROVE x \in settled \/ (x.other = e /\ x.at \in following /\ x.sync = NoSync)
    BY <1>5, <1>9
  <2>3. \A b \in following : base'[{b, e}] # {}
    BY <1>3, <1>7, ParentFacts, Zenon DEF Inv, Bases, Outlast
  <2>4. ASSUME NEW x \in arrivals' PROVE base'[{x.at, x.other}] # {} /\ x.sync <= syncs
    <3>1. CASE x \in settled
      BY <2>1, <3>1, Zenon DEF Placed
    <3>2. CASE x.other = e /\ x.at \in following /\ x.sync = NoSync
      BY <2>1, <2>3, <3>2 DEF NoSync
    <3>. QED BY <2>2, <3>1, <3>2, Zenon
  <2>5. \A x, y \in arrivals' : x.sync = y.sync /\ x.sync # NoSync => x.at = y.at /\ x.other = y.other
    BY <2>1, <2>2, Zenon DEF Placed
  <2>. QED BY <2>4, <2>5, Zenon DEF Placed
<1>. QED BY <1>1, <1>6, <1>8, <1>10, <1>11, Zenon DEF Inv, Arrived

-----------------------------------------------------------------------------
(***************************************************************************)
(* The invariants of every reachable state.                                *)
(***************************************************************************)
LEMMA InitInv == Init => Inv
<1> SUFFICES ASSUME Init PROVE Inv
  BY Zenon
<1>1. First \in Good
  BY BranchSyncAssumption, Zenon DEF Good, WellFormed
<1>2. \A e \in Roots : Own(e, First)
  <2>1. ASSUME NEW e \in Roots, NEW r \in Rows PROVE Mine(e, First[r])
    <3>1. e \in Environments /\ e \in Line(e) /\ Secrets[e] \in Nat
      BY LineFacts, BranchSyncAssumption DEF Roots
    <3>2. First[r][1] = "secret" => First[r] = Secret(Secrets[e])
      BY BranchSyncAssumption, Zenon DEF Roots, Branches
    <3>. QED BY <3>1, <3>2, CellFacts, Zenon DEF Mine
  <2>. QED BY <2>1, Zenon DEF Own
<1>3. Configs
  BY <1>1, <1>2, EmptyGood, EmptyOwn, Zenon DEF Init, Configs, Roots
<1>4. Bases
  BY Zenon DEF Init, Bases, Roots
<1>5. Arrived
  BY Zenon DEF Init, Arrived, Kept, Placed
<1>. QED BY <1>3, <1>4, <1>5, Zenon DEF Inv

LEMMA NextInv == Inv /\ [Next]_vars => Inv'
<1> SUFFICES ASSUME Inv, [Next]_vars PROVE Inv'
  BY Zenon
<1>1. CASE UNCHANGED vars
  BY <1>1, Zenon DEF vars, configs, shared, counts, Inv, Configs, Bases, Arrived
<1>2. ASSUME NEW e \in Environments, NEW i \in Inputs[e], i[1][2] # "node", Edit(e, i[1], i[2]) PROVE Inv'
  BY <1>2, EditKeeps, Zenon
<1>3. ASSUME NEW e \in Environments, NEW i \in Inputs[e],
             create_service(e, i[1][1]) \/ remove_service(e, i[1][1])
      PROVE  Inv'
  <2>1. i[1][1] \in Lineages
    <3>1. i[1] \in Rows
      BY BranchSyncAssumption
    <3>. QED BY <3>1, RowFacts, Zenon
  <2>. QED BY <1>3, <2>1, CreateServiceKeeps, RemoveServiceKeeps, Zenon
<1>4. ASSUME NEW e \in Environments, NEW r \in Marking, never_sync(e, r) PROVE Inv'
  BY <1>4, NeverSyncKeeps, Zenon
<1>5. ASSUME NEW e \in Environments, publish(e) \/ deploy(e) \/ deploy_saved(e) PROVE Inv'
  BY <1>5, DeployKeeps, Zenon
<1>6. ASSUME NEW e \in Environments,
             \/ discard_all(e) \/ \E l \in Lineages : discard_node(e, l)
             \/ \E r \in Rows : discard_row(e, r)
      PROVE  Inv'
  BY <1>6, DiscardAllKeeps, DiscardNodeKeeps, DiscardRowKeeps, Zenon
<1>7. ASSUME NEW e \in Environments, NEW ok, NEW refusing, end(e, ok, refusing) PROVE Inv'
  BY <1>7, EndKeeps, Zenon
<1>8. ASSUME NEW from, NEW into, NEW picks, NEW given, sync(from, into, picks, given) PROVE Inv'
  BY <1>8, SyncKeeps, Zenon
<1>9. ASSUME NEW b \in Branches, NEW picked, create_branch(b, picked) PROVE Inv'
  BY <1>9, CreateBranchKeeps, Zenon
<1>10. ASSUME NEW b \in Branches \cap exist, \/ \E l \in Lineages : copy_node(b, l)
                                          \/ \E picks \in SUBSET hinted(b) : take(b, picks)
       PROVE  Inv'
  BY <1>10, CopyKeeps, TakeKeeps, Zenon
<1>11. ASSUME NEW s \in 1..MaxSyncs, undo(s) PROVE Inv'
  <2>1. s # NoSync
    BY BranchSyncAssumption DEF NoSync
  <2>. QED BY <1>11, <2>1, UndoKeeps, Zenon
<1>. QED BY <1>1, <1>2, <1>3, <1>4, <1>5, <1>6, <1>7, <1>8, <1>9, <1>10, <1>11, Zenon DEF Next

LEMMA InvHolds == Spec => []Inv
<1>. QED BY InitInv, NextInv, PTL DEF Spec

LEMMA InvTypeOK == Inv => TypeOK
<1> SUFFICES ASSUME Inv PROVE TypeOK
  BY Zenon
<1>1. \A c \in Good : WellFormed(c)
  BY Zenon DEF Good
<1>2. \A e \in Environments :
         \A c \in {working[e], applied[e]} \cup saved[e] \cup shipping[e] \cup made_with[e] : c \in Good
  BY Zenon DEF Inv, Configs
<1>3. \A pair \in Pairs : \A c \in base[pair] : c \in Good
  BY Zenon DEF Inv, Bases
<1>. QED BY <1>1, <1>2, <1>3, Zenon DEF Inv, Bases, Arrived, Kept, TypeOK

\* Every configuration holds together, whatever is synced, followed, copied,
\* discarded or undone in whatever order, and so does what a pair shares.
THEOREM TypeOKHolds == Spec => []TypeOK
<1>. QED BY InvHolds, InvTypeOK, PTL

\* Every secret an Environment holds, runs or saved was typed there or in one it
\* branches from, however long the line of Branches.
THEOREM SecretsStayHolds == Spec => []SecretsStay
<1>1. Inv => SecretsStay
  BY DEF Inv, Configs, Own, Mine, SecretsStay
<1>. QED BY <1>1, InvHolds, PTL


-----------------------------------------------------------------------------
(***************************************************************************)
(* Never sync.                                                             *)
(***************************************************************************)
LEMMA MarkedFacts ==
    ASSUME NEW p, NEW r
    PROVE  /\ p.way = "sync" => (marked(p, r) <=> r \in p.from_marks \cup p.into_marks)
           /\ p.way = "follow" => (marked(p, r) <=> r \in p.into_marks)
BY Zenon DEF marked

\* A row somebody keeps is in no plan, and nothing that lands touches it.
LEMMA MarkedStays ==
    ASSUME NEW p, Whole(p), NEW picks, picks \subseteq plan(p), NEW r \in Rows, marked(p, r), NEW given
    PROVE  r \notin plan(p) /\ next_of(p, picks, given)[r] = p.into[r]
<1>1. r \notin plan(p)
  <2>1. SUFFICES ASSUME r \in plan(p) PROVE FALSE
    BY Zenon
  <2>. QED BY <2>1, PlanFacts, Zenon DEF moved
<1>2. ~(r[2] = "source" /\ NodeOf(r) \in picks)
  <2> SUFFICES ASSUME r[2] = "source", NodeOf(r) \in plan(p) PROVE FALSE
    BY Zenon
  <2>1. NodeOf(NodeOf(r)) = NodeOf(r) /\ NodeOf(r)[2] = "node" /\ SourceOf(NodeOf(r)) = r
    BY RowFacts
  <2>2. ~marked(p, SourceOf(NodeOf(r)))
    BY <2>1, PlanFacts, Zenon
  <2>. QED BY <2>1, <2>2, Zenon
<1>. QED BY <1>1, <1>2, Zenon DEF next_of

\* Who changes what is synced or in flight.
LEMMA SyncOrShip ==
    ASSUME Next
    PROVE  \/ UNCHANGED <<syncs, shipping>>
           \/ \E e \in Environments : deploy(e) \/ deploy_saved(e)
           \/ \E e \in Environments : \E ok \in SUBSET targets(e) :
                \E refusing \in SUBSET Refusing : end(e, ok, refusing)
           \/ \E from \in exist : \E into \in exist \ {from} :
                \E picks \in SUBSET plan(Sync_move(from, into)) : \E given \in SUBSET picks :
                    sync(from, into, picks, given)
<1>1. ASSUME NEW e, NEW i, Edit(e, i[1], i[2]) PROVE UNCHANGED <<syncs, shipping>>
  BY <1>1, Zenon DEF Edit
<1>2. ASSUME NEW e, NEW l, create_service(e, l) \/ remove_service(e, l) PROVE UNCHANGED <<syncs, shipping>>
  BY <1>2, Zenon DEF create_service, remove_service
<1>3. ASSUME NEW e, NEW r, never_sync(e, r) \/ discard_row(e, r) \/ discard_node(e, r)
      PROVE  UNCHANGED <<syncs, shipping>>
  BY <1>3, Zenon DEF never_sync, configs, discard_row, discard_node, discards, counts
<1>4. ASSUME NEW e, publish(e) \/ discard_all(e) PROVE UNCHANGED <<syncs, shipping>>
  BY <1>4, Zenon DEF publish, discard_all, discards, counts
<1>5. ASSUME NEW b, NEW x, create_branch(b, x) \/ copy_node(b, x) \/ take(b, x)
      PROVE  UNCHANGED <<syncs, shipping>>
  BY <1>5, Zenon DEF create_branch, copy_node, take, counts
<1>6. ASSUME NEW s, undo(s) PROVE UNCHANGED <<syncs, shipping>>
  BY <1>6, Zenon DEF undo, counts
<1>. QED BY <1>1, <1>2, <1>3, <1>4, <1>5, <1>6, Zenon DEF Next

\* The steps of a Deployment's end, and what each Branch that follows makes of it.
Ends(e, ok, refusing) ==
    LET c == The(shipping[e])
        runs == advance(e, c, ok)
        lineages == {l \in ok : Has(c, l)}
        settled == deployed(arrivals, e, c, lineages)
        following == {b \in Branches \cap exist : Parent[b] = e /\ lineages # {}}
        res(b) == follow_into(runs, settled, b, lineages, b \in refusing)
    IN /\ shipping[e] # {} /\ c \in Good /\ runs \in Good
       /\ applied'[e] = runs /\ applied[e] \in Good
       /\ \A b \in Environments :
            working'[b] = IF b \in following THEN res(b).working ELSE working[b]
       /\ \A b \in following :
            LET p == Follow_move(runs, b) IN
            /\ Follows(p, follow_rows(p, settled, b, lineages), b \in refusing, b, settled, res(b))
            /\ p.from = runs
       /\ arrivals' = {a \in settled : a.at \notin following} \cup
                      UNION {{a \in res(b).arrivals : a.at = b} : b \in following}
       /\ shipping' = [shipping EXCEPT ![e] = {}] /\ syncs' = syncs

LEMMA EndParts ==
    ASSUME Inv, NEW e \in Environments, NEW ok, NEW refusing, end(e, ok, refusing)
    PROVE  Ends(e, ok, refusing)
<1> DEFINE c == The(shipping[e])
           runs == advance(e, c, ok)
           lineages == {l \in ok : Has(c, l)}
           settled == deployed(arrivals, e, c, lineages)
           following == {b \in Branches \cap exist : Parent[b] = e /\ lineages # {}}
           res(b) == follow_into(runs, settled, b, lineages, b \in refusing)
           result == [b \in following |-> res(b)]
<1>1. /\ applied' = [applied EXCEPT ![e] = runs]
      /\ working' = [b \in Environments |->
                        IF b \in following THEN result[b].working ELSE working[b]]
      /\ arrivals' = {a \in settled : a.at \notin following} \cup
                     UNION {{a \in result[b].arrivals : a.at = b} : b \in following}
      /\ shipping[e] # {} /\ shipping' = [shipping EXCEPT ![e] = {}]
      /\ syncs' = syncs
  BY Zenon DEF end, counts
<1>2. c \in Good /\ runs \in Good /\ Own(e, runs)
  BY <1>1, EndGood, Zenon
<1>3. \A b \in following : b \in Branches \cap exist /\ Parent[b] = e /\ result[b] = res(b)
  BY Zenon
<1>4. ASSUME NEW b \in following
      PROVE  LET p == Follow_move(runs, b) IN
             /\ Follows(p, follow_rows(p, settled, b, lineages), b \in refusing, b, settled, res(b))
             /\ p.from = runs
  <2>1. b \in Branches \cap exist /\ Own(Parent[b], runs)
    BY <1>2, <1>3, Zenon
  <2> HIDE DEF c, runs, lineages, settled, following, result
  <2>. QED BY <1>2, <2>1, FollowParts, Zenon
<1>5. applied'[e] = runs /\ applied[e] \in Good
  BY <1>1, Zenon DEF Inv, Configs
<1>6. \A b \in Environments : working'[b] = IF b \in following THEN res(b).working ELSE working[b]
  <2> HIDE DEF runs, lineages, settled, following
  <2>. QED BY <1>1, Zenon
<1>7. arrivals' = {a \in settled : a.at \notin following} \cup
                  UNION {{a \in res(b).arrivals : a.at = b} : b \in following}
  <2>1. {{a \in result[b].arrivals : a.at = b} : b \in following}
           = {{a \in res(b).arrivals : a.at = b} : b \in following}
    BY <1>3, Zenon
  <2>. QED BY <1>1, <2>1, Zenon
<1>. QED BY <1>1, <1>2, <1>4, <1>5, <1>6, <1>7, Zenon DEF Ends

\* Neither a Sync nor a Follow touches a row its receiver marks Never sync, and a
\* Sync brings no row its sender marks but into one of the sender's own Branches.
THEOREM NeverSyncedHolds == Spec => NeverSynced
<1>1. ASSUME Inv, Next, syncs' # syncs \/ shipping' # shipping
      PROVE  /\ \A e \in exist : \A r \in marks[e] : working'[e][r] = working[e][r]
             /\ syncs' # syncs => \A a \in arrivals' \ arrivals :
                  a.row \in marks[a.other] => a.at \in Branches /\ Parent[a.at] = a.other
  <2>0. exist \subseteq Environments /\ \A e \in Environments : marks[e] \subseteq Rows
    BY <1>1, Zenon DEF Inv, Configs
  <2>1. CASE \E e \in Environments : deploy(e) \/ deploy_saved(e)
    <3>1. UNCHANGED <<working, syncs>>
      BY <2>1, Zenon DEF deploy, deploy_saved
    <3>. QED BY <3>1, Zenon
  <2>2. ASSUME NEW e \in Environments, NEW ok, NEW refusing, end(e, ok, refusing)
        PROVE  /\ \A b \in exist : \A r \in marks[b] : working'[b][r] = working[b][r]
               /\ syncs' = syncs
    <3>1. Ends(e, ok, refusing)
      BY <1>1, <2>2, EndParts, Zenon
    <3> SUFFICES ASSUME NEW b \in exist, NEW r \in marks[b], working'[b] # working[b]
                 PROVE  working'[b][r] = working[b][r]
      BY <3>1, Zenon DEF Ends
    <3> DEFINE runs == advance(e, The(shipping[e]), ok)
               lineages == {l \in ok : Has(The(shipping[e]), l)}
               known == deployed(arrivals, e, The(shipping[e]), lineages)
               following == {f \in Branches \cap exist : Parent[f] = e /\ lineages # {}}
               refuses == b \in refusing
               res == follow_into(runs, known, b, lineages, refuses)
               p == Follow_move(runs, b)
               rows == follow_rows(p, known, b, lineages)
    <3>2. Follows(p, rows, refuses, b, known, res) /\ working'[b] = res.working
      <4>1. working'[b] = IF b \in following THEN res.working ELSE working[b]
        BY <2>0, <3>1, Zenon DEF Ends
      <4>2. b \in following
        BY <4>1, Zenon
      <4>3. Follows(p, rows, refuses, b, known, res)
        BY <3>1, <4>2, Zenon DEF Ends
      <4>. QED BY <4>1, <4>2, <4>3, Zenon
    <3> HIDE DEF p, rows, res, known
    <3>3. /\ Whole(p) /\ p.way = "follow" /\ p.into = working[b] /\ p.into_marks = marks[b]
          /\ Taken(p, rows, refuses) \subseteq plan(p)
          /\ working'[b] = next_of(p, Taken(p, rows, refuses), NoValues)
      BY <3>2, Zenon DEF Follows
    <3>. QED BY <2>0, <3>3, MarkedFacts, MarkedStays
  <2>3. ASSUME NEW from \in exist, NEW into \in exist \ {from}, NEW picks, NEW given,
               sync(from, into, picks, given)
        PROVE  /\ \A e \in exist : \A r \in marks[e] : working'[e][r] = working[e][r]
               /\ \A a \in arrivals' \ arrivals :
                    a.row \in marks[a.other] => a.at \in Branches /\ Parent[a.at] = a.other
    <3> DEFINE p == Sync_move(from, into)
               typed == [r \in given |-> Secret(Secrets[into])]
               new == landed(p, into, from, picks, typed, "sync", syncs + 1)
    <3>1. /\ from \in Environments /\ into \in Environments /\ from # into
          /\ picks \subseteq plan(p) /\ whole(p, picks) = picks
          /\ working' = [working EXCEPT ![into] = next_of(p, picks, typed)]
          /\ arrivals' = arrive(arrivals, new)
      BY <1>1, <2>0, <2>3, Zenon DEF sync, apply
    <3>2. Whole(p) /\ p.way = "sync" /\ p.into = working[into]
      BY <1>1, <3>1, SyncWhole, Zenon
    <3>3. p.into_marks = marks[into] /\ p.from_marks = from_marks(from, into)
      BY MoveFacts DEF Sync_move
    <3>4. \A r \in DOMAIN typed : typed[r] \in Cells
      BY <3>1, CellFacts, BranchSyncAssumption, Zenon
    <3> HIDE DEF p, typed
    <3>5. \A e \in exist : \A r \in marks[e] : working'[e][r] = working[e][r]
      <4>1. \A r \in marks[into] : next_of(p, picks, typed)[r] = working[into][r]
        BY <2>0, <3>1, <3>2, <3>3, MarkedFacts, MarkedStays
      <4>2. \A e \in exist : working'[e] = IF e = into THEN next_of(p, picks, typed) ELSE working[e]
        BY <1>1, <2>0, <3>1, ZenonT(30) DEF Inv, Configs
      <4>. QED BY <4>1, <4>2, Zenon
    <3>6. next_of(p, picks, typed) \in Good /\ syncs + 1 \in Nat /\ picks \subseteq Rows
      BY <1>1, <3>1, <3>2, <3>4, NextGood, SMTT(30) DEF Inv, Arrived, plan
    <3>7. \A n \in new : n \in Arrivals /\ n.at = into /\ n.other = from /\ n.row \in picks
      BY <3>1, <3>2, <3>6, LandedFacts, SMTT(30)
    <3> HIDE DEF new
    <3>8. \A a \in arrivals' \ arrivals : a.at = into /\ a.other = from /\ a.row \in picks
      BY <3>1, <3>7, ArriveFacts DEF Like, Same
    <3>9. \A r \in picks : r \notin p.from_marks
      BY <3>1, <3>2, <3>6, MarkedFacts, MarkedStays, Zenon
    <3>. QED BY <3>3, <3>5, <3>8, <3>9, Zenon DEF from_marks
  <2>. QED BY <1>1, <2>1, <2>2, <2>3, SyncOrShip, Zenon
<1>2. Inv /\ [Next]_vars =>
        [syncs' # syncs \/ shipping' # shipping =>
         /\ \A e \in exist : \A r \in marks[e] : working'[e][r] = working[e][r]
         /\ syncs' # syncs => \A a \in arrivals' \ arrivals :
              a.row \in marks[a.other] => a.at \in Branches /\ Parent[a.at] = a.other]_<<syncs, shipping>>
  BY <1>1, Zenon DEF vars, configs, counts
<1>. QED BY <1>2, InvHolds, PTL DEF Spec, NeverSynced

-----------------------------------------------------------------------------
(***************************************************************************)
(* What follows, and that it does once.                                    *)
(***************************************************************************)
\* A row that follows lands as its sender has it.
LEMMA LandsAsSent ==
    ASSUME NEW p, Whole(p), p.way = "follow", NEW picks, picks \subseteq plan(p),
           NEW given, NEW r \in picks
    PROVE  At(next_of(p, picks, given), r) = At(p.from, r)
<1> DEFINE next == next_of(p, picks, given)
<1>1. \A q \in picks : q \in Rows /\ next[q] = p.from[q]
  BY PlanFacts, Zenon DEF next_of, landing, needs_value
<1>2. r[2] = "node" => next[SourceOf(r)] = p.from[SourceOf(r)]
  <2> SUFFICES ASSUME r[2] = "node" PROVE next[SourceOf(r)] = p.from[SourceOf(r)]
    BY Zenon
  <2>1. SourceOf(r) \in Rows /\ SourceOf(r)[2] = "source" /\ NodeOf(SourceOf(r)) = r
    BY <1>1, RowFacts
  <2>2. CASE SourceOf(r) \in picks
    BY <1>1, <2>2, Zenon
  <2>3. CASE SourceOf(r) \notin picks
    BY <2>1, <2>3, Zenon DEF next_of
  <2>. QED BY <2>2, <2>3, Zenon
<1>3. r[2] = "node" => r = <<r[1], "node">>
  BY <1>1, RowFacts, Zenon DEF NodeOf
<1> HIDE DEF next
<1>4. At(next, r) = At(p.from, r)
  BY <1>1, <1>2, <1>3, Zenon DEF At, Has
<1>. QED BY <1>4, Zenon DEF next

LEMMA ArriveKeeps ==
    ASSUME NEW known, NEW new, NEW a \in known, \A n \in new : n.row # a.row
    PROVE  a \in arrive(known, new)
BY Zenon DEF arrive, Same

LEMMA ArriveRecords ==
    ASSUME NEW known, NEW new, NEW n \in new, n \in Arrivals
    PROVE  \E x \in arrive(known, new) : Like(x, n)
BY RecordedFacts DEF arrive

\* Every row of rows is known at Branch b as p's sender has it.
Reached(known, b, p, rows) ==
    \A r \in rows : \E x \in known : /\ x.at = b /\ x.other = Parent[b] /\ x.row = r
                                     /\ x.value = At(p.from, r)

\* What a Follow leaves of the rows that arrive, and of those that do not.
LEMMA FollowRecords ==
    ASSUME NEW p, NEW rows, NEW refuses, NEW b \in Branches, NEW known, NEW res,
           Follows(p, rows, refuses, b, known, res)
    PROVE  /\ Reached(res.arrivals, b, p, Taken(p, rows, refuses) \cup Told(p, rows, refuses))
           /\ \A a \in known : a.row \notin rows => a \in res.arrivals
<1> DEFINE taken == Taken(p, rows, refuses)
           told == Told(p, rows, refuses)
           lands == landed(p, b, Parent[b], taken, NoValues, "follow", NoSync)
           tells == hint(p, b, Parent[b], told)
<1>1. /\ Whole(p) /\ p.way = "follow" /\ rows \subseteq plan(p)
      /\ taken \subseteq rows /\ told \subseteq rows
      /\ next_of(p, taken, NoValues) \in Good
      /\ res.arrivals = arrive(known, lands \cup tells)
  BY Zenon DEF Follows
<1>2. b \in Environments /\ Parent[b] \in Environments /\ NoSync \in Nat
  BY ParentFacts, Zenon DEF NoSync
<1>3. taken \subseteq Rows /\ told \subseteq Rows /\ taken \subseteq plan(p)
  BY <1>1, ZenonT(30) DEF plan
<1> HIDE DEF taken, told
<1>4. /\ \A n \in lands : /\ n \in Arrivals /\ n.row \in taken /\ n.at = b /\ n.other = Parent[b]
                          /\ n.value = At(next_of(p, taken, NoValues), n.row)
      /\ \A n \in tells : /\ n \in Arrivals /\ n.row \in told /\ n.at = b /\ n.other = Parent[b]
                          /\ n.value = At(p.from, n.row)
  BY <1>1, <1>2, <1>3, LandedFacts, HintFacts
<1>5. (\A r \in taken : \E n \in lands : n.row = r) /\ (\A r \in told : \E n \in tells : n.row = r)
  <2>1. ASSUME NEW r \in taken PROVE \E n \in lands : n.row = r
    <3> DEFINE n == [at |-> b, other |-> Parent[b], row |-> r, how |-> "follow", state |-> "pending",
                     value |-> At(next_of(p, taken, NoValues), r), prior |-> At(p.base, r),
                     was |-> At(p.into, r), sync |-> NoSync]
    <3>1. n \in lands
      BY Zenon DEF landed
    <3>2. n.row = r
      BY Zenon
    <3>. QED BY <3>1, <3>2, Zenon
  <2>2. ASSUME NEW r \in told PROVE \E n \in tells : n.row = r
    <3> DEFINE n == [at |-> b, other |-> Parent[b], row |-> r, how |-> "follow", state |-> "hint",
                     value |-> At(p.from, r), prior |-> Absent, was |-> Absent, sync |-> NoSync]
    <3>1. n \in tells
      BY Zenon DEF hint
    <3>2. n.row = r
      BY ZenonT(30)
    <3>. QED BY <3>1, <3>2, Zenon
  <2>. QED BY <2>1, <2>2, Zenon
<1>6. \A n \in lands : n.value = At(p.from, n.row)
  BY <1>1, <1>3, <1>4, LandsAsSent
<1> HIDE DEF lands, tells
<1>7. ASSUME NEW r \in taken \cup told
      PROVE  \E x \in res.arrivals : /\ x.at = b /\ x.other = Parent[b] /\ x.row = r
                                     /\ x.value = At(p.from, r)
  <2>1. PICK n \in lands \cup tells : n.row = r
    BY <1>5, Zenon
  <2>2. n \in Arrivals /\ n.at = b /\ n.other = Parent[b] /\ n.value = At(p.from, r)
    BY <1>4, <1>6, <2>1, Zenon
  <2>3. PICK x \in arrive(known, lands \cup tells) : Like(x, n)
    BY <2>2, ArriveRecords, Zenon
  <2>. QED BY <1>1, <2>1, <2>2, <2>3, Zenon DEF Like, Same
<1>8. ASSUME NEW a \in known, a.row \notin rows PROVE a \in res.arrivals
  <2>1. \A n \in lands \cup tells : n.row # a.row
    BY <1>1, <1>4, <1>8, Zenon
  <2>. QED BY <1>1, <2>1, ArriveKeeps
<1>. QED BY <1>7, <1>8, Zenon DEF taken, told, Reached

\* A row the Branch neither takes nor keeps as a hint is one of a new node it does
\* not take.
LEMMA LeftOut ==
    ASSUME NEW p, NEW rows, NEW refuses, NEW b, NEW known, NEW res,
           Follows(p, rows, refuses, b, known, res), NEW r \in rows,
           r \notin Taken(p, rows, refuses) \cup Told(p, rows, refuses)
    PROVE  r[2] # "node" /\ ~Has(res.working, r[1])
<1> DEFINE taken == Taken(p, rows, refuses)
<1>1. /\ Whole(p) /\ rows \subseteq plan(p) /\ taken \subseteq rows
      /\ res.working = next_of(p, taken, NoValues) /\ res.working \in Good
  BY Zenon DEF Follows
<1>2. r \in Rows /\ NodeOf(r) \in Rows /\ NodeOf(r)[2] = "node"
  BY <1>1, RowFacts, Zenon DEF plan
<1>3. ~conflict(p, r) /\ r \notin follow_picks(p, rows)
  BY Zenon DEF Told
<1>4. r[2] # "node" /\ ~Has(p.into, r[1]) /\ NodeOf(r) \notin {q \in rows : ~conflict(p, q)}
  BY <1>3, Zenon DEF follow_picks, whole
<1>5. NodeOf(r) \notin taken
  BY <1>4, Zenon DEF Taken, follow_picks, whole
<1> HIDE DEF taken
<1>6. res.working[NodeOf(r)] = p.into[NodeOf(r)]
  BY <1>1, <1>2, <1>5, Zenon DEF next_of
<1>7. \A c \in Good : Has(c, r[1]) <=> c[NodeOf(r)] # Absent
  BY <1>2, GoodFacts, Zenon
<1>. QED BY <1>1, <1>4, <1>6, <1>7, Zenon DEF Whole

LEMMA ShipEnds ==
    ASSUME Inv, Next, NEW e \in exist, shipping[e] # {}, shipping'[e] = {}
    PROVE  \E ok, refusing : end(e, ok, refusing)
<1>0. e \in Environments /\ shipping \in [Environments -> SUBSET Good]
  BY Zenon DEF Inv, Configs
<1>1. ASSUME NEW f \in Environments, deploy(f) \/ deploy_saved(f) PROVE FALSE
  <2>1. shipping'[e] # {}
    BY <1>0, <1>1, Zenon DEF deploy, deploy_saved
  <2>. QED BY <2>1, Zenon
<1>2. ASSUME NEW f \in Environments, NEW ok, NEW refusing, end(f, ok, refusing)
      PROVE  f = e
  <2>1. shipping' = [shipping EXCEPT ![f] = {}]
    BY <1>2, Zenon DEF end
  <2>. QED BY <1>0, <2>1, Zenon
<1>3. ASSUME NEW from, NEW into, NEW picks, NEW given, sync(from, into, picks, given) PROVE FALSE
  BY <1>3, Zenon DEF sync
<1>4. UNCHANGED <<syncs, shipping>> => FALSE
  BY Zenon
<1>. QED BY <1>1, <1>2, <1>3, <1>4, SyncOrShip, Zenon

\* A deploy of a Parent leaves no change it made unaccounted for in any of its
\* Branches, whatever else arrived there and whichever of them refuse.
THEOREM FollowAccountedHolds == Spec => FollowAccounted
<1>1. Inv /\ [Next]_vars =>
        [\A e \in exist : shipping[e] # {} /\ shipping'[e] = {} =>
         \A b \in Branches \cap exist : Parent[b] = e =>
             \A r \in plan(Follow_move(applied'[e], b)) :
                 /\ At(applied'[e], r) # At(applied[e], r)
                 /\ r[2] = "node" \/ Has(working'[b], r[1])
                 => \E a \in arrivals' : a.at = b /\ a.other = e /\ a.row = r
                                          /\ a.value = At(applied'[e], r)]_shipping
  <2> SUFFICES ASSUME Inv, [Next]_vars, shipping' # shipping
               PROVE \A e \in exist : shipping[e] # {} /\ shipping'[e] = {} =>
         \A b \in Branches \cap exist : Parent[b] = e =>
             \A r \in plan(Follow_move(applied'[e], b)) :
                 /\ At(applied'[e], r) # At(applied[e], r)
                 /\ r[2] = "node" \/ Has(working'[b], r[1])
                 => \E a \in arrivals' : a.at = b /\ a.other = e /\ a.row = r
                                          /\ a.value = At(applied'[e], r)
    BY Zenon
  <2>. TAKE e \in exist
  <2>. HAVE shipping[e] # {} /\ shipping'[e] = {}
  <2>. TAKE b \in Branches \cap exist
  <2>. HAVE Parent[b] = e
  <2>. TAKE r \in plan(Follow_move(applied'[e], b))
  <2>. HAVE At(applied'[e], r) # At(applied[e], r) /\ (r[2] = "node" \/ Has(working'[b], r[1]))
  <2>0. /\ Inv /\ Next /\ shipping[e] # {} /\ shipping'[e] = {}
        /\ b \in Branches \cap exist /\ Parent[b] = e /\ r \in plan(Follow_move(applied'[e], b))
        /\ At(applied'[e], r) # At(applied[e], r)
        /\ (r[2] = "node" \/ Has(working'[b], r[1]))
    BY Zenon DEF vars, configs
  <2>1. PICK ok, refusing : end(e, ok, refusing)
    BY <2>0, ShipEnds, Zenon
  <2>2. e \in Environments /\ b \in Environments /\ b \in Branches
    BY <2>0, ParentFacts, Zenon DEF Inv, Configs
  <2>3. Ends(e, ok, refusing)
    BY <2>0, <2>1, <2>2, EndParts, Zenon
  <2> DEFINE c == The(shipping[e])
             runs == advance(e, c, ok)
             lineages == {l \in ok : Has(c, l)}
             settled == deployed(arrivals, e, c, lineages)
             following == {f \in Branches \cap exist : Parent[f] = e /\ lineages # {}}
             refuses == b \in refusing
             res == follow_into(runs, settled, b, lineages, refuses)
             p == Follow_move(runs, b)
             rows == follow_rows(p, settled, b, lineages)
  <2>4. c \in Good /\ runs \in Good /\ applied'[e] = runs /\ applied[e] \in Good
    BY <2>3, Zenon DEF Ends
  <2>5. r \in plan(p)
    BY <2>0, <2>4, Zenon
  <2>6. r \in Rows /\ NodeOf(r) \in Rows /\ NodeOf(r)[1] = r[1] /\ SourceOf(r) \in Rows
        /\ SourceOf(r)[1] = r[1]
    BY <2>5, RowFacts, ZenonT(30) DEF plan
  <2>7. p.from = runs
    BY MoveFacts DEF Follow_move
  <2>8. Has(runs, r[1])
    BY <2>5, <2>7, Zenon DEF plan, New
  <2>9. r[1] \in ok
    <3>1. SUFFICES ASSUME r[1] \notin ok PROVE At(runs, r) = At(applied[e], r)
      BY <2>0, <2>4, Zenon
    <3>2. runs[r] = applied[e][r] /\ runs[NodeOf(r)] = applied[e][NodeOf(r)]
          /\ runs[SourceOf(r)] = applied[e][SourceOf(r)]
      BY <2>6, <3>1, Zenon DEF advance
    <3> HIDE DEF runs
    <3>. QED BY <3>2, Zenon DEF At, Has, NodeOf
  <2>10. r[1] \in lineages
    <3>1. runs[NodeOf(r)] = c[NodeOf(r)]
      BY <2>6, <2>9, Zenon DEF advance
    <3> HIDE DEF runs, c
    <3>2. Has(c, r[1])
      BY <2>8, <3>1, Zenon DEF Has, NodeOf
    <3>. QED BY <2>9, <3>2, Zenon
  <2> HIDE DEF c, runs
  <2>11. b \in following
    BY <2>0, <2>10, Zenon
  <2>12. working'[b] = res.working
    <3>1. working'[b] = IF b \in following THEN res.working ELSE working[b]
      BY <2>2, <2>3, Zenon DEF Ends, c, runs
    <3>. QED BY <2>11, <3>1, Zenon
  <2>13. Follows(p, rows, refuses, b, settled, res)
    BY <2>3, <2>11, Zenon DEF Ends, c, runs
  <2>14. \A a \in res.arrivals : a.at = b => a \in arrivals'
    <3>1. {a \in res.arrivals : a.at = b} \in
            {{a \in follow_into(runs, settled, f, lineages, f \in refusing).arrivals : a.at = f} :
             f \in following}
      BY <2>11, Zenon
    <3>2. arrivals' = {a \in settled : a.at \notin following} \cup
            UNION {{a \in follow_into(runs, settled, f, lineages, f \in refusing).arrivals : a.at = f} :
                   f \in following}
      BY <2>3, Zenon DEF Ends, c, runs
    <3>. QED BY <3>1, <3>2, Zenon
  <2>15. CASE r \notin rows
    <3>1. delivered(settled, p, b, Parent[b], r)
      BY <2>5, <2>10, <2>15, Zenon DEF follow_rows
    <3> HIDE DEF rows, res, settled, p, refuses, lineages, following
    <3>2. PICK a \in settled : a.at = b /\ a.other = e /\ a.row = r /\ a.value = At(p.from, r)
      BY <2>0, <3>1, Zenon DEF delivered
    <3>3. a \in res.arrivals
      BY <2>2, <2>13, <2>15, <3>2, FollowRecords, Zenon
    <3>. QED BY <2>4, <2>7, <2>14, <3>2, <3>3, Zenon
  <2>16. CASE r \in rows
    <3> HIDE DEF rows, res, settled, p, refuses, lineages, following
    <3>1. r \in Taken(p, rows, refuses) \cup Told(p, rows, refuses)
      BY <2>0, <2>12, <2>13, <2>16, LeftOut, Zenon
    <3>2. Reached(res.arrivals, b, p, Taken(p, rows, refuses) \cup Told(p, rows, refuses))
      BY <2>2, <2>13, FollowRecords, Zenon
    <3>3. PICK x \in res.arrivals : x.at = b /\ x.other = Parent[b] /\ x.row = r /\ x.value = At(p.from, r)
      BY <3>1, <3>2, Zenon DEF Reached
    <3>. QED BY <2>0, <2>4, <2>7, <2>14, <3>3, Zenon
  <2>. QED BY <2>15, <2>16, Zenon
<1>. QED BY <1>1, InvHolds, PTL DEF Spec, FollowAccounted

\* A change of a Parent that is a hint in a Branch stays one while the Parent has
\* not changed it, and no Follow stages it again.
THEOREM FollowOnceHolds == Spec => FollowOnce
<1>1. ASSUME Inv, Next, NEW e \in exist, shipping[e] # {}, shipping'[e] = {},
             NEW a \in arrivals, a.state = "hint", a.other = e, At(applied'[e], a.row) = a.value
      PROVE  /\ a \in arrivals'
             /\ a.row[2] # "source" \/ Has(working[a.at], a.row[1])
                => working'[a.at][a.row] = working[a.at][a.row]
  <2>1. PICK ok, refusing : end(e, ok, refusing)
    BY <1>1, ShipEnds, Zenon
  <2> DEFINE b == a.at
  <2>2. e \in Environments /\ b \in Environments /\ a.row \in Rows /\ a.state # "pending"
    BY <1>1, Zenon DEF Inv, Configs, Arrived, Kept, Sound, Arrivals
  <2>3. Ends(e, ok, refusing)
    BY <1>1, <2>1, <2>2, EndParts, Zenon
  <2> DEFINE c == The(shipping[e])
             runs == advance(e, c, ok)
             lineages == {l \in ok : Has(c, l)}
             settled == deployed(arrivals, e, c, lineages)
             following == {f \in Branches \cap exist : Parent[f] = e /\ lineages # {}}
             res == follow_into(runs, settled, b, lineages, b \in refusing)
             p == Follow_move(runs, b)
             rows == follow_rows(p, settled, b, lineages)
  <2>4. applied'[e] = runs
    BY <2>3, Zenon DEF Ends
  <2>5. a \in settled
    BY <1>1, <2>2, DeployedFacts, ZenonT(30) DEF Inv, Arrived
  <2>6. p.from = runs /\ p.into = working[b]
    BY MoveFacts DEF Follow_move
  <2>7. working'[b] = IF b \in following THEN res.working ELSE working[b]
    BY <2>2, <2>3, Zenon DEF Ends
  <2>8. arrivals' = {x \in settled : x.at \notin following} \cup
          UNION {{x \in follow_into(runs, settled, f, lineages, f \in refusing).arrivals : x.at = f} :
                 f \in following}
    BY <2>3, Zenon DEF Ends
  <2>9. b \in following => Follows(p, rows, b \in refusing, b, settled, res)
    BY <2>3, Zenon DEF Ends
  <2>10. b \in following => a.row \notin rows
    <3>1. b \in following => Parent[b] = e
      BY Zenon
    <3>2. a.value = At(p.from, a.row)
      BY <1>1, <2>4, <2>6, Zenon
    <3> HIDE DEF settled, p, following
    <3>. QED BY <1>1, <2>5, <3>1, <3>2, Zenon DEF follow_rows, delivered
  <2>11. b \in following => b \in Branches
    BY Zenon
  <2> HIDE DEF c, runs, settled, following, rows, p
  <2>12. CASE b \notin following
    BY <2>5, <2>7, <2>8, <2>12, Zenon
  <2>13. CASE b \in following
    <3>1. a \in res.arrivals
      <4> HIDE DEF res, b
      <4>. QED BY <2>5, <2>9, <2>10, <2>11, <2>13, FollowRecords, Zenon
    <3>2. a \in arrivals'
      <4>1. {x \in res.arrivals : x.at = b} \in
              {{x \in follow_into(runs, settled, f, lineages, f \in refusing).arrivals : x.at = f} :
               f \in following}
        BY <2>13, Zenon
      <4>. QED BY <2>8, <3>1, <4>1, Zenon
    <3>3. ASSUME a.row[2] # "source" \/ Has(working[b], a.row[1])
          PROVE  working'[b][a.row] = working[b][a.row]
      <4> DEFINE taken == Taken(p, rows, b \in refusing)
      <4> HIDE DEF res
      <4>1. /\ Whole(p) /\ rows \subseteq plan(p) /\ taken \subseteq rows
            /\ res.working = next_of(p, taken, NoValues)
        BY <2>9, <2>13, Zenon DEF Follows
      <4> HIDE DEF taken
      <4>2. a.row \notin taken /\ taken \subseteq plan(p)
        BY <2>10, <2>13, <4>1, Zenon
      <4>3. ~(a.row[2] = "source" /\ NodeOf(a.row) \in taken)
        <5> SUFFICES ASSUME a.row[2] = "source", NodeOf(a.row) \in plan(p) PROVE FALSE
          BY <4>2, Zenon
        <5>1. NodeOf(NodeOf(a.row)) = NodeOf(a.row) /\ NodeOf(a.row)[2] = "node"
          BY <2>2, RowFacts, Zenon
        <5>2. p.into[NodeOf(a.row)] = Absent
          BY <4>1, <5>1, PlanFacts, Zenon
        <5>. QED BY <2>6, <3>3, <5>2, Zenon DEF Has, NodeOf
      <4>4. res.working[a.row] = p.into[a.row]
        BY <2>2, <4>1, <4>2, <4>3, Zenon DEF next_of
      <4>. QED BY <2>6, <2>7, <2>13, <4>4, Zenon
    <3>. QED BY <3>2, <3>3, Zenon
  <2>. QED BY <2>12, <2>13, Zenon
<1>2. Inv /\ [Next]_vars =>
        [\A e \in exist : shipping[e] # {} /\ shipping'[e] = {} =>
         \A a \in arrivals :
             a.state = "hint" /\ a.other = e /\ At(applied'[e], a.row) = a.value
             => /\ a \in arrivals'
                /\ a.row[2] # "source" \/ Has(working[a.at], a.row[1])
                   => working'[a.at][a.row] = working[a.at][a.row]]_shipping
  <2> SUFFICES ASSUME Inv, [Next]_vars, shipping' # shipping
               PROVE \A e \in exist : shipping[e] # {} /\ shipping'[e] = {} =>
         \A a \in arrivals :
             a.state = "hint" /\ a.other = e /\ At(applied'[e], a.row) = a.value
             => /\ a \in arrivals'
                /\ a.row[2] # "source" \/ Has(working[a.at], a.row[1])
                   => working'[a.at][a.row] = working[a.at][a.row]
    BY Zenon
  <2>1. Next
    BY Zenon DEF vars, configs
  <2>. QED BY <1>1, <2>1, Zenon
<1>. QED BY <1>2, InvHolds, PTL DEF Spec, FollowOnce

-----------------------------------------------------------------------------
(***************************************************************************)
(* What a Sync brought and was taken back is offered again.                *)
(***************************************************************************)
\* The rows of gone, pending in e, are taken back; nothing else arrives or leaves.
Back(e, gone) ==
    /\ gone \subseteq arrivals /\ arrivals \ arrivals' \subseteq gone
    /\ \A a \in gone : a.at = e /\ a.state = "pending"
    /\ base' = rewind_bases(e, gone)
    /\ marks' = marks

\* What arrived at a's row and side is known still.
Lasts(a) == \E n \in arrivals' : Same(a, n)

LEMMA ArriveLasts ==
    ASSUME NEW known, NEW p, NEW e, NEW other, NEW picks, NEW given, NEW how, NEW num, NEW a \in known
    PROVE  \E n \in arrive(known, landed(p, e, other, picks, given, how, num)) : Same(a, n)
<1> DEFINE new == landed(p, e, other, picks, given, how, num)
<1>1. \A n \in new : Same(recorded(known, n), n)
  BY DEF landed, recorded, Same
<1>2. Same(a, a)
  BY Zenon DEF Same
<1> HIDE DEF new
<1>3. \E n \in arrive(known, new) : Same(a, n)
  <2>1. CASE \E n \in new : Same(a, n)
    <3>1. PICK n \in new : Same(a, n)
      BY <2>1, Zenon
    <3>2. recorded(known, n) \in arrive(known, new) /\ Same(a, recorded(known, n))
      BY <1>1, <3>1, Zenon DEF arrive, Same
    <3>. QED BY <3>2, Zenon
  <2>2. CASE ~\E n \in new : Same(a, n)
    BY <1>2, <2>2, Zenon DEF arrive
  <2>. QED BY <2>1, <2>2, Zenon
<1>. QED BY <1>3, Zenon DEF new

LEMMA ArriveLastsAll ==
    ASSUME NEW known, NEW new, \A n \in new : n \in Arrivals, NEW a \in known
    PROVE  \E n \in arrive(known, new) : Same(a, n)
<1>1. \A n \in new : Same(recorded(known, n), n)
  BY RecordedFacts, Zenon DEF Like
<1>2. Same(a, a)
  BY Zenon DEF Same
<1>3. CASE \E n \in new : Same(a, n)
  <2>1. PICK n \in new : Same(a, n)
    BY <1>3, Zenon
  <2>2. recorded(known, n) \in arrive(known, new) /\ Same(a, recorded(known, n))
    BY <1>1, <2>1, Zenon DEF arrive, Same
  <2>. QED BY <2>2, Zenon
<1>4. CASE ~\E n \in new : Same(a, n)
  BY <1>2, <1>4, Zenon DEF arrive
<1>. QED BY <1>3, <1>4, Zenon

LEMMA DeployedLasts ==
    ASSUME NEW known, NEW a \in known, a \in Arrivals, NEW e, NEW c, NEW lineages
    PROVE  \E x \in deployed(known, e, c, lineages) : Same(a, x)
<1> DEFINE Ships(n) == /\ n.at = e /\ n.state = "pending"
                       /\ n.row[1] \in lineages /\ At(c, n.row) = n.value
           settle(n) == [n EXCEPT !.state = "settled", !.prior = Absent, !.was = Absent]
           x == IF Ships(a) THEN settle(a) ELSE a
<1>1. x \in deployed(known, e, c, lineages)
  <2>1. deployed(known, e, c, lineages) = {IF Ships(n) THEN settle(n) ELSE n : n \in known}
    BY Zenon DEF deployed
  <2>. QED BY <2>1, Zenon
<1>2. Same(a, settle(a)) /\ Same(a, a)
  BY Zenon DEF Same, Arrivals
<1> HIDE DEF settle, Ships
<1>3. Same(a, x)
  BY <1>2, Zenon
<1>. QED BY <1>1, <1>3, Zenon

\* What the pair of a row taken back shares once it is.
LEMMA BackBase ==
    ASSUME Inv, NEW e, NEW gone, Back(e, gone), NEW a \in gone
    PROVE  \E over, bk :
             /\ over \in Good /\ base'[{a.other, e}] = {put_back(over, bk)}
             /\ \A n \in gone : n.other = a.other => n.row \in DOMAIN bk /\ bk[n.row] = n.prior
<1> DEFINE pair == {a.other, e}
           back == {n \in gone : pair = {e, n.other}}
           over == The(base[pair])
           bk == [r \in {n.row : n \in back} |-> (CHOOSE n \in back : n.row = r).prior]
<1>1. \A n \in gone : n \in arrivals /\ n.at = e /\ Sound(n) /\ n.at # n.other
  BY Zenon DEF Back, Inv, Arrived, Kept, Sound
<1>2. pair \in Pairs /\ pair = {a.at, a.other} /\ base[pair] # {}
  BY <1>1, ArrivalPair DEF Inv, Arrived, Placed
<1>3. over \in Good
  BY <1>2, Zenon DEF Inv, Bases, The
<1>4. \A n \in gone : n \in back <=> n.other = a.other
  BY <1>1, Zenon
<1>5. base'[pair] = {put_back(over, bk)}
  BY <1>2, <1>4, Zenon DEF Back, rewind_bases
<1>6. ASSUME NEW n \in gone, n.other = a.other PROVE n.row \in DOMAIN bk /\ bk[n.row] = n.prior
  <2>1. n \in back
    BY <1>4, <1>6, Zenon
  <2>2. \A m \in back : m.row = n.row => m = n
    BY <1>1, <1>4, <1>6, Zenon DEF Inv, Arrived, Kept, Same
  <2> HIDE DEF back
  <2>. QED BY <2>1, <2>2, Zenon
<1> HIDE DEF over, bk
<1>. QED BY <1>3, <1>5, <1>6, Zenon

\* It no longer shares what a row taken back brought.
LEMMA BackRow ==
    ASSUME NEW over \in Good, NEW bk, NEW r \in Rows, r \in DOMAIN bk, NEW v, v # Absent
    PROVE  LET after == put_back(over, bk) IN
           /\ r[2] # "node" /\ v # bk[r] => At(after, r) # v
           /\ NodeOf(r) \in DOMAIN bk /\ bk[NodeOf(r)] = Absent => ~Has(after, r[1])
<1> DEFINE after == put_back(over, bk)
<1>1. NodeOf(r) \in Rows /\ NodeOf(NodeOf(r)) = NodeOf(r) /\ NodeOf(r)[1] = r[1]
  BY RowFacts, Zenon
<1>2. over[NodeOf(r)] = Absent /\ r[2] # "node" => over[r] = Absent
  BY GoodFacts, Zenon
<1>3. after[r] = IF NodeOf(r) \in DOMAIN bk /\ bk[NodeOf(r)] = Absent THEN Absent
                 ELSE IF r[2] # "node" /\ over[NodeOf(r)] # Absent THEN bk[r] ELSE over[r]
  BY GoodFacts, Zenon DEF put_back
<1>4. NodeOf(r) \in DOMAIN bk /\ bk[NodeOf(r)] = Absent => after[NodeOf(r)] = Absent
  BY <1>1, Zenon DEF put_back
<1> HIDE DEF after
<1>5. r[2] # "node" /\ v # bk[r] => At(after, r) # v
  BY <1>2, <1>3, Zenon DEF At
<1>6. NodeOf(r) \in DOMAIN bk /\ bk[NodeOf(r)] = Absent => ~Has(after, r[1])
  BY <1>4, Zenon DEF Has, NodeOf
<1>. QED BY <1>5, <1>6, Zenon DEF after

\* A plan of a Sync has what its receiver does not share and has no secret for.
LEMMA Offers ==
    ASSUME NEW p, Whole(p), p.way = "sync", NEW r \in Rows, r[2] \notin Owned,
           At(p.from, r) # Absent, At(p.into, r) # At(p.from, r),
           ~is_secret(At(p.from, r)), ~is_secret(At(p.into, r)),
           r[1] \notin p.live, ~marked(p, r), ~marked(p, SourceOf(r)),
           \/ Has(p.into, r[1]) /\ r[2] # "node" /\ At(p.base, r) # At(p.from, r)
           \/ ~Has(p.into, r[1]) /\ r[2] # "source" /\ ~Has(p.base, r[1])
    PROVE  r \in plan(p)
<1>1. /\ \A c \in Good : Has(c, r[1]) <=> c[NodeOf(r)] # Absent
      /\ \A c \in Good : r[2] # "node" /\ c[NodeOf(r)] = Absent => c[r] = Absent
  BY GoodFacts, Zenon
<1>2. (r[2] = "node" <=> NodeOf(r) = r) /\ (r[2] \in Keys <=> r[2] # "node" /\ r[2] # "source")
  BY RowFacts, Zenon
<1>3. Has(p.from, r[1])
  BY <1>1, <1>2, Zenon DEF At, Whole
<1>4. CASE Has(p.into, r[1]) /\ r[2] # "node" /\ At(p.base, r) # At(p.from, r)
  BY <1>3, <1>4, Zenon DEF plan, moved, held
<1>5. CASE ~Has(p.into, r[1]) /\ r[2] # "source" /\ ~Has(p.base, r[1])
  <2>1. New(p, r[1])
    BY <1>3, <1>5, Zenon DEF New
  <2>2. CASE r[2] = "node"
    BY <2>1, <2>2, Zenon DEF plan
  <2>3. CASE r[2] # "node"
    <3>1. r[2] \in Keys /\ p.from[r] # Absent
      BY <1>2, <1>5, <2>3, Zenon DEF At
    <3>. QED BY <2>1, <3>1, Zenon DEF plan, moved, held
  <2>. QED BY <2>2, <2>3, Zenon
<1>. QED BY <1>4, <1>5, Zenon

\* What OfferedAgain asks of an arrival.
Asked(a) ==
    /\ a.state = "pending" /\ a.sync # NoSync /\ a.value # a.prior
    /\ ~\E n \in arrivals' : Same(a, n)
    /\ ~is_secret(a.value) /\ ~is_secret(At(working'[a.at], a.row))
    /\ At(working'[a.other], a.row) = a.value
    /\ At(working'[a.at], a.row) # a.value
    /\ a.row[1] \notin used_live(working'[a.at])
    /\ \/ Has(working'[a.at], a.row[1]) /\ a.row[2] # "node"
       \/ /\ ~Has(working'[a.at], a.row[1]) /\ a.row[2] # "source"
          /\ \E n \in arrivals \ arrivals' :
               n.at = a.at /\ n.other = a.other /\ n.row = NodeOf(a.row)
    /\ {a.row, SourceOf(a.row)} \cap (marks[a.at] \cup marks[a.other]) = {}

LEMMA BackOffered ==
    ASSUME Inv, Inv', NEW e, NEW gone, Back(e, gone), NEW a \in gone, Asked(a)
    PROVE  a.row \in plan(Sync_move(a.other, a.at))'
<1> DEFINE o == a.other
           r == a.row
           mv == [way |-> "sync", from |-> working'[o], base |-> sync_base(o, e)',
                  into |-> working'[e], from_marks |-> from_marks(o, e)',
                  into_marks |-> marks'[e], live |-> used_live(working'[e])]
<1>1. a.at = e /\ Sound(a) /\ a \in arrivals /\ r \in Rows /\ o \in Environments /\ e \in Environments /\ o # e
  BY ArrivalPair, Zenon DEF Back, Inv, Arrived, Kept, Sound
<1>2. Sync_move(o, e)' = mv
  BY Zenon DEF Sync_move, Move
<1>3. /\ mv.way = "sync" /\ mv.from = working'[o] /\ mv.base = sync_base(o, e)' /\ mv.into = working'[e]
      /\ mv.from_marks = from_marks(o, e)' /\ mv.into_marks = marks'[e]
      /\ mv.live = used_live(working'[e])
  BY Zenon
<1>4. PICK over, bk :
         /\ over \in Good /\ base'[{o, e}] = {put_back(over, bk)}
         /\ \A n \in gone : n.other = o => n.row \in DOMAIN bk /\ bk[n.row] = n.prior
  BY BackBase
<1>5. sync_base(o, e)' = put_back(over, bk)
  <2>1. The(base'[{o, e}]) = put_back(over, bk)
    BY <1>4, Zenon DEF The
  <2>. QED BY <1>4, <2>1, Zenon DEF sync_base
<1>6. r \in DOMAIN bk /\ bk[r] = a.prior
  BY <1>4, Zenon
<1>7. \A n \in arrivals \ arrivals' : n.at = e /\ n.other = o /\ n.row = NodeOf(r) =>
         NodeOf(r) \in DOMAIN bk /\ bk[NodeOf(r)] = Absent
  <2> SUFFICES ASSUME NEW n \in arrivals \ arrivals', n.at = e, n.other = o, n.row = NodeOf(r)
               PROVE  NodeOf(r) \in DOMAIN bk /\ bk[NodeOf(r)] = Absent
    BY Zenon
  <2>1. n \in gone /\ Sound(n) /\ n.state = "pending"
    BY Zenon DEF Back, Inv, Arrived, Kept
  <2>2. n.row[2] = "node"
    BY <1>1, RowFacts
  <2>. QED BY <1>4, <2>1, <2>2, Zenon DEF Sound
<1>8. Whole(mv)
  <2>1. working'[o] \in Good /\ working'[e] \in Good
    BY <1>1, Zenon DEF Inv, Configs
  <2>2. put_back(over, bk) \in Good
    <3>1. {o, e} \in Pairs
      BY <1>1, PairFacts, Zenon
    <3>. QED BY <1>4, <3>1, Zenon DEF Inv, Bases
  <2>. QED BY <1>3, <1>5, <2>1, <2>2, Zenon DEF Whole
<1>9. a.value # Absent /\ r[2] \notin Owned /\ a.value # a.prior
  BY <1>1, Zenon DEF Sound, Asked
<1> HIDE DEF mv
<1>10. ~marked(mv, r) /\ ~marked(mv, SourceOf(r))
  <2>1. r \notin marks[e] /\ SourceOf(r) \notin marks[e] /\ r \notin marks[o] /\ SourceOf(r) \notin marks[o]
    BY <1>1, Zenon DEF Asked
  <2>2. mv.from_marks \subseteq marks[o] /\ mv.into_marks = marks[e]
    BY <1>3, Zenon DEF from_marks, Back
  <2>. QED BY <1>3, <2>1, <2>2, MarkedFacts, Zenon
<1>11. /\ At(mv.from, r) = a.value /\ At(mv.into, r) # a.value /\ r[1] \notin mv.live
       /\ ~is_secret(At(mv.from, r)) /\ ~is_secret(At(mv.into, r))
  <2>1. At(mv.from, r) = a.value /\ ~is_secret(At(mv.from, r))
    BY <1>3, Zenon DEF Asked
  <2>2. At(mv.into, r) # a.value /\ ~is_secret(At(mv.into, r))
    BY <1>1, <1>3, Zenon DEF Asked
  <2>3. r[1] \notin mv.live
    BY <1>1, <1>3, ZenonT(30) DEF Asked
  <2>. QED BY <2>1, <2>2, <2>3, Zenon
<1>12. \/ Has(mv.into, r[1]) /\ r[2] # "node" /\ At(mv.base, r) # a.value
       \/ ~Has(mv.into, r[1]) /\ r[2] # "source" /\ ~Has(mv.base, r[1])
  <2>1. \/ Has(mv.into, r[1]) /\ r[2] # "node"
        \/ /\ ~Has(mv.into, r[1]) /\ r[2] # "source"
           /\ NodeOf(r) \in DOMAIN bk /\ bk[NodeOf(r)] = Absent
    BY <1>1, <1>3, <1>7, Zenon DEF Asked
  <2>2. mv.base = put_back(over, bk)
    BY <1>3, <1>5, Zenon
  <2>. QED BY <1>1, <1>4, <1>6, <1>9, <2>1, <2>2, BackRow, SMTT(30)
<1>13. r \in plan(mv)
  BY <1>1, <1>3, <1>8, <1>9, <1>10, <1>11, <1>12, Offers, Zenon
<1>. QED BY <1>1, <1>2, <1>13, Zenon

LEMMA DiscardsBack ==
    ASSUME Inv, NEW e, NEW after, NEW after_saved, discards(e, after, after_saved)
    PROVE  \E gone : Back(e, gone)
<1> DEFINE gone == {a \in arrivals : a.at = e /\ a.state = "pending"
                                       /\ At(working[e], a.row) # At(after, a.row)}
<1>1. /\ arrivals' = (arrivals \ gone) \cup
                      {[a EXCEPT !.state = "hint", !.prior = Absent, !.was = Absent] :
                       a \in {a \in gone : a.how = "follow"}}
      /\ base' = rewind_bases(e, gone) /\ marks' = marks
  BY Zenon DEF discards, rewind
<1>2. \A a \in gone : a \in arrivals /\ a.at = e /\ a.state = "pending"
  BY Zenon
<1> HIDE DEF gone
<1>3. Back(e, gone)
  BY <1>1, <1>2, Zenon DEF Back
<1>. QED BY <1>3, Zenon

LEMMA UndoBack ==
    ASSUME Inv, NEW s, s # NoSync, undo(s)
    PROVE  \E e, gone : Back(e, gone)
<1> DEFINE rows == {a \in arrivals : a.sync = s}
           e == The(rows).at
<1>1. /\ rows # {} /\ arrivals' = arrivals \ rows /\ base' = rewind_bases(e, rows) /\ marks' = marks
      /\ \A a \in rows : a.state = "pending"
  BY Zenon DEF undo
<1>2. The(rows) \in rows
  BY <1>1, Zenon DEF The
<1>3. \A a \in rows : a.at = e
  BY <1>2, Zenon DEF Inv, Arrived, Placed
<1> HIDE DEF e
<1>4. Back(e, rows)
  BY <1>1, <1>3, Zenon DEF Back
<1>. QED BY <1>4, Zenon

LEMMA EndLasts ==
    ASSUME Inv, NEW e \in Environments, NEW ok, NEW refusing, end(e, ok, refusing), NEW a \in arrivals
    PROVE  Lasts(a)
<1> DEFINE c == The(shipping[e])
           runs == advance(e, c, ok)
           lineages == {l \in ok : Has(c, l)}
           settled == deployed(arrivals, e, c, lineages)
           following == {f \in Branches \cap exist : Parent[f] = e /\ lineages # {}}
           b == a.at
           refuses == b \in refusing
           res == follow_into(runs, settled, b, lineages, refuses)
           p == Follow_move(runs, b)
           rows == follow_rows(p, settled, b, lineages)
           taken == Taken(p, rows, refuses)
           told == Told(p, rows, refuses)
           new == landed(p, b, Parent[b], taken, NoValues, "follow", NoSync)
                    \cup hint(p, b, Parent[b], told)
<1>1. Ends(e, ok, refusing)
  BY EndParts, Zenon
<1>2. a \in Arrivals
  BY Zenon DEF Inv, Arrived, Kept, Sound
<1>3. PICK x \in settled : Same(a, x)
  BY <1>2, DeployedLasts, Zenon
<1>4. arrivals' = {y \in settled : y.at \notin following} \cup
        UNION {{y \in follow_into(runs, settled, f, lineages, f \in refusing).arrivals : y.at = f} :
               f \in following}
  BY <1>1, Zenon DEF Ends
<1>5. b \in following => Follows(p, rows, refuses, b, settled, res)
  BY <1>1, Zenon DEF Ends
<1>6. b \in following => b \in Branches
  BY Zenon
<1>7. x.at = b
  BY <1>3, Zenon DEF Same
<1> HIDE DEF c, runs, settled, following, p, rows
<1>8. CASE b \notin following
  BY <1>3, <1>4, <1>7, <1>8, Zenon DEF Lasts
<1>9. CASE b \in following
  <2>1. {y \in res.arrivals : y.at = b} \in
          {{y \in follow_into(runs, settled, f, lineages, f \in refusing).arrivals : y.at = f} :
           f \in following}
    BY <1>9, Zenon
  <2>2. \A y \in res.arrivals : y.at = b => y \in arrivals'
    BY <1>4, <2>1, Zenon
  <2> HIDE DEF res, refuses
  <2>3. /\ Whole(p) /\ rows \subseteq plan(p) /\ taken \subseteq rows /\ told \subseteq rows
        /\ next_of(p, taken, NoValues) \in Good /\ res.arrivals = arrive(settled, new)
    BY <1>5, <1>9, Zenon DEF Follows
  <2>4. b \in Environments /\ Parent[b] \in Environments /\ NoSync \in Nat
    BY <1>6, <1>9, ParentFacts, Zenon DEF NoSync
  <2>5. taken \subseteq Rows /\ told \subseteq Rows
    BY <2>3, Zenon DEF plan
  <2> HIDE DEF taken, told
  <2>6. \A n \in new : n \in Arrivals
    <3>1. landed(p, b, Parent[b], taken, NoValues, "follow", NoSync) \subseteq Arrivals
      <4>1. "follow" \in {"sync", "follow"}
        BY Zenon
      <4>. QED BY <2>3, <2>4, <2>5, <4>1, LandedArrivals, Zenon
    <3>2. ASSUME NEW n \in hint(p, b, Parent[b], told)
          PROVE  n \in Arrivals
      BY <2>3, <2>4, <2>5, HintFacts, Zenon
    <3>. QED BY <3>1, <3>2, Zenon
  <2> HIDE DEF new
  <2>7. PICK y \in arrive(settled, new) : Same(x, y)
    BY <2>6, ArriveLastsAll, Zenon
  <2>8. y \in arrivals'
    BY <1>7, <2>2, <2>3, <2>7, Zenon DEF Same
  <2>. QED BY <1>3, <2>7, <2>8, Zenon DEF Lasts, Same
<1>. QED BY <1>8, <1>9, Zenon

\* Only a discard and an Undo take what arrived away for good.
LEMMA OnlyBack ==
    ASSUME Inv, Next, NEW a \in arrivals
    PROVE  Lasts(a) \/ \E e, gone : Back(e, gone)
<1>0. arrivals' = arrivals => Lasts(a)
  BY Zenon DEF Lasts, Same
<1>1. ASSUME NEW e, NEW i, Edit(e, i[1], i[2]) PROVE Lasts(a)
  BY <1>0, <1>1, Zenon DEF Edit, shared
<1>2. ASSUME NEW e, NEW l, create_service(e, l) \/ remove_service(e, l) PROVE Lasts(a)
  BY <1>0, <1>2, Zenon DEF create_service, remove_service, shared
<1>3. ASSUME NEW e, NEW r, never_sync(e, r) PROVE Lasts(a)
  BY <1>0, <1>3, Zenon DEF never_sync
<1>4. ASSUME NEW e, publish(e) \/ deploy(e) \/ deploy_saved(e) PROVE Lasts(a)
  BY <1>0, <1>4, Zenon DEF publish, deploy, deploy_saved, shared
<1>5. ASSUME NEW e, discard_all(e) PROVE \E gone : Back(e, gone)
  BY <1>5, DiscardsBack, Zenon DEF discard_all
<1>6. ASSUME NEW e, NEW l, discard_node(e, l) PROVE \E gone : Back(e, gone)
  BY <1>6, DiscardsBack, Zenon DEF discard_node
<1>7. ASSUME NEW e, NEW r, discard_row(e, r) PROVE \E gone : Back(e, gone)
  BY <1>7, DiscardsBack, Zenon DEF discard_row
<1>8. ASSUME NEW e \in Environments, NEW ok, NEW refusing, end(e, ok, refusing) PROVE Lasts(a)
  BY <1>8, EndLasts, Zenon
<1>9. ASSUME NEW p, NEW e, NEW other, NEW picks, NEW given, NEW how, NEW num,
             apply(p, e, other, picks, given, how, num)
      PROVE  Lasts(a)
  <2>1. arrivals' = arrive(arrivals, landed(p, e, other, picks, given, how, num))
    BY <1>9, Zenon DEF apply
  <2>. QED BY <2>1, ArriveLasts, Zenon DEF Lasts
<1>10. ASSUME NEW from, NEW into, NEW picks, NEW given, sync(from, into, picks, given) PROVE Lasts(a)
  BY <1>9, <1>10, Zenon DEF sync
<1>11. ASSUME NEW b, NEW picked, create_branch(b, picked) PROVE Lasts(a)
  BY <1>0, <1>11, Zenon DEF create_branch
<1>12. ASSUME NEW b, NEW l, copy_node(b, l) PROVE Lasts(a)
  BY <1>9, <1>12, Zenon DEF copy_node
<1>13. ASSUME NEW b, NEW picks, take(b, picks) PROVE Lasts(a)
  BY <1>9, <1>13, Zenon DEF take
<1>14. ASSUME NEW s \in 1..MaxSyncs, undo(s) PROVE \E e, gone : Back(e, gone)
  <2>1. s # NoSync
    BY BranchSyncAssumption DEF NoSync
  <2>. QED BY <1>14, <2>1, UndoBack, Zenon
<1>. QED BY <1>1, <1>2, <1>3, <1>4, <1>5, <1>6, <1>7, <1>8, <1>10, <1>11, <1>12, <1>13, <1>14, Zenon
         DEF Next

\* What a Sync brought and a discard or an Undo took back is offered again.
THEOREM OfferedAgainHolds == Spec => OfferedAgain
<1>1. ASSUME Inv, Inv', Next, NEW a \in arrivals \ arrivals', Asked(a)
      PROVE  a.row \in plan(Sync_move(a.other, a.at))'
  <2>1. ~Lasts(a)
    BY <1>1, Zenon DEF Asked, Lasts
  <2>2. PICK e, gone : Back(e, gone)
    BY <1>1, <2>1, OnlyBack, Zenon
  <2>3. a \in gone
    BY <2>2, Zenon DEF Back
  <2>. QED BY <1>1, <2>2, <2>3, BackOffered, Zenon
<1>2. Inv /\ Inv' /\ [Next]_vars =>
        [\A a \in arrivals \ arrivals' : Asked(a) => a.row \in plan(Sync_move(a.other, a.at))']_arrivals
  BY <1>1, Zenon DEF vars, shared
<1>3. [][\A a \in arrivals \ arrivals' :
           Asked(a) => a.row \in plan(Sync_move(a.other, a.at))']_arrivals => OfferedAgain
  BY Zenon DEF OfferedAgain, Asked
<1>. QED BY <1>2, <1>3, InvHolds, PTL DEF Spec
=============================================================================
