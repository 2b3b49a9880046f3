---------------------------- MODULE MCClientWindows ----------------------------
(* ClientWindows on small instances.                                       *)
EXTENDS ClientWindows
=============================================================================
