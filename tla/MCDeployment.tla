---------------------------- MODULE MCDeployment ----------------------------
(* Small instances of Deployment for TLC. *)
EXTENDS DeploymentRefinement, TLC

CONSTANTS web, db, data, r1, r2

\* db mounts data; web mounts nothing.
MCMounts == {<<db, data>>}

MCStorageOf == [x \in Value |-> IF x = 1 THEN "local" ELSE "pool"]

Doc(w, d, v) == [n \in Node |-> IF n = web THEN w ELSE IF n = db THEN d ELSE v]

\* Working State first holds web alone, then gains db and its Volume, and
\* drops web.
MCIntents == {Doc(1, Absent, Absent), Doc(2, 1, 1), Doc(Absent, 1, 1)}

\* web alone, in two versions.
MCWebIntents == {[n \in Node |-> x] : x \in Value}

MCSymmetry == Permutations(Runner)
=============================================================================
