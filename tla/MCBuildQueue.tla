---------------------------- MODULE MCBuildQueue ----------------------------
(* A small instance of BuildQueue for TLC. *)
EXTENDS BuildQueue

CONSTANTS b1, b2, b3, b4

MCBuild == {b1, b2, b3, b4}
=============================================================================
