----------------------------- MODULE MCReadConf -----------------------------
(* Instances of ReadConf for TLC: <<h>> and <<c, c>> join as <<h, c>> and <<c>>. *)
EXTENDS ReadConf

CONSTANTS h, c, s, f1, f2, Default, Other

MCServerkeys == {<<s>>}
MCHosts      == {<<h>>, <<h, c>>}
MCNames      == {<<c>>, <<c, c>>}
MCFqdns      == {f1, f2}
MCPorts      == {Default, Other}
=============================================================================
