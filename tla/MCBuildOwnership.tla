-------------------------- MODULE MCBuildOwnership --------------------------
(* Small instances of BuildOwnership for TLC. *)
EXTENDS BuildOwnership

MCAllKinds == Kinds
=============================================================================
