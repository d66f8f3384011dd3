------------------------------- MODULE Lists --------------------------------
(* Sequences, as far as planning a Deploy uses them. *)
EXTENDS Naturals, Sequences, FiniteSets

Elements(s) == {s[i] : i \in DOMAIN s}

Last(s) == s[Len(s)]

Front(s) == SubSeq(s, 1, Len(s) - 1)

\* The elements of s that are in S, in their order.
Keep(s, S) ==
    LET keep[i \in 0..Len(s)] ==
            IF i = 0 THEN <<>>
            ELSE IF s[i] \in S THEN Append(keep[i - 1], s[i]) ELSE keep[i - 1]
    IN keep[Len(s)]

\* The sequences of ss one after the other.
Joined(ss) ==
    LET joined[i \in 0..Len(ss)] == IF i = 0 THEN <<>> ELSE joined[i - 1] \o ss[i]
    IN joined[Len(ss)]

\* The ways to put a finite set in order.
Orders(S) ==
    {f \in [1..Cardinality(S) -> S] : \A i, j \in DOMAIN f : f[i] = f[j] => i = j}
=============================================================================
