--------------------------- MODULE MCStoreRunner ---------------------------
(* Small instances of StoreRunner for TLC. *)
EXTENDS StoreRunner, TLC

MCStorageOf == [x \in Value |-> "local"]

MCIntents == {[n \in Node |-> x] : x \in Value}

MCSymmetry == Permutations(Runner)
=============================================================================
