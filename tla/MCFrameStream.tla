----------------------------- MODULE MCFrameStream -----------------------------
(* FrameStream on small instances.                                         *)
EXTENDS FrameStream
=============================================================================
