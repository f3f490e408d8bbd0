---------------------------- MODULE MCEglSurfaces ----------------------------
(* EglSurfaces for TLC: one surface of a wl_egl_window and one of a BWindow. *)
EXTENDS EglSurfaces, TLC

CONSTANTS t1, t2, s1, s2

MCKind == s1 :> "wayland" @@ s2 :> "view"

ThreadSymmetry == Permutations({t1, t2})
=============================================================================
