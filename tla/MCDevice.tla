------------------------------ MODULE MCDevice ------------------------------
(***************************************************************************)
(* A small device for TLC: two files of one program, one with contexts on  *)
(* both engines and one with a context on the render engine alone.         *)
(***************************************************************************)
EXTENDS Device

CONSTANTS f1, f2, t1

MCTeam == [f \in Files |-> t1]

MCContexts == [f \in Files |-> IF f = f1 THEN {Engines} ELSE {{"render"}}]
=============================================================================
