---------------------------- MODULE MCRenderClient ----------------------------
(***************************************************************************)
(* RenderClient for TLC.                                                   *)
(***************************************************************************)
EXTENDS RenderClient, TLC

(***************************************************************************)
(* What the rest of a behaviour depends on.  The next handle is set when a *)
(* file is opened.  The page table of an engine that is not ready is never *)
(* written again.  An entry outside the bound buffers is what a failed     *)
(* bind left: no guard reads it, and the property on the tables is about   *)
(* bound buffers, for which the entry is rewritten.                        *)
(***************************************************************************)
Relevant ==
  <<state, buffers, addresses, allocated, bound, engines, render, gtt, vm,
    scheduler, gpu,
    [c \in Clients |-> IF state[c] = "open" THEN nextHandle[c] ELSE 0],
    [c \in Clients |-> [e \in Engines |-> [a \in GttPages |->
       IF e \in Ready(c)
          /\ \E s \in Slots : IsBound(c, s)
                           /\ a \in Run(buffers[c][s].address, buffers[c][s].size)
         THEN table[c][e][a] ELSE Scratch]]]>>
=============================================================================
