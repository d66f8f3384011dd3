--------------------------- MODULE MCDeployEngine ---------------------------
EXTENDS DeployEngine

Svc(mode, replicas, port, volume, hook) ==
    [mode |-> mode, replicas |-> replicas, port |-> port, volume |-> volume,
     hook |-> hook, home |-> 1]

MCMachines == 1..2

\* Start first, with a hook; stop first for a host port; for a volume; a Global.
MCServices ==
    {Svc("replicated", 1, FALSE, FALSE, TRUE), Svc("replicated", 1, TRUE, FALSE, FALSE),
     Svc("replicated", 1, FALSE, TRUE, FALSE), Svc("global", 1, TRUE, FALSE, FALSE)}

MCPlain == {Svc("replicated", 1, FALSE, FALSE, FALSE)}
=============================================================================
