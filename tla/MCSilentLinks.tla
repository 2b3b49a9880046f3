---------------------------- MODULE MCSilentLinks ----------------------------
(* SilentLinks on small instances, without symmetry: it checks liveness.   *)
EXTENDS SilentLinks, TLC
=============================================================================
