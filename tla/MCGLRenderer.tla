----------------------------- MODULE MCGLRenderer -----------------------------
(* GLRenderer for TLC. *)
EXTENDS GLRenderer
=============================================================================
