--------------------------- MODULE MCCertificates ---------------------------
(* Small instances of Certificates for TLC. *)
EXTENDS Certificates, TLC

MCMachines == 1..2
At(m) == [of |-> "machine", id |-> m]
To(kind) == [of |-> kind, id |-> 0]
Direct == <<At(1), At(2)>>
MCRenewSoon == [m \in MCMachines |-> 1]
MCEverySite == {Direct, <<To("proxy")>>, <<>>}
MCDirectOrLost == {Direct, <<To("silent")>>, <<>>}
=============================================================================
