---------------------------- MODULE MCBranchSync ----------------------------
(***************************************************************************)
(* Instances of BranchSync: a root Environment, its Branch.  web           *)
(* references db, and has one plain and one secret variable.               *)
(***************************************************************************)
EXTENDS BranchSync, TLC

MCParent == 2 :> 1
MCRefers == {<<2, "db">>}
MCSecrets == 1 :> 11 @@ 2 :> 12

MCFirst ==
    [r \in Rows |->
        CASE r = <<"web", "node">> -> Present
          [] r \in {<<"web", "source">>, <<"web", "K">>, <<"web", "replicas">>} -> Value(1)
          [] OTHER -> Absent]

\* Both set a variable, the Parent to a reference to the db it may create; the
\* Branch may set a secret and remove web.
MCInputs ==
    1 :> {<<<<"web", "K">>, Value(2)>>, <<<<"db", "node">>, Present>>} @@
    2 :> {<<<<"web", "K">>, Value(3)>>, <<<<"web", "S">>, Secret(MCSecrets[2])>>,
          <<<<"web", "node">>, Absent>>}

MCMarking == {<<"web", "K">>}

\* One plain variable, which only the Parent's people set.
MCParentOnly == [e \in Environments |-> IF e = 1 THEN {<<<<"web", "K">>, Value(2)>>} ELSE {}]
=============================================================================
