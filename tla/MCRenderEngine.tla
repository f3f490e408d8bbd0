---------------------------- MODULE MCRenderEngine ----------------------------
(***************************************************************************)
(* RenderEngine for TLC, and the promise of BatchService it implements.    *)
(***************************************************************************)
EXTENDS RenderEngine

Inside == {"lock", "check", "previous", "take", "taking", "write", "publish",
           "status", "port", "execute", "save"}

Service == INSTANCE BatchService WITH
  pending <- {c \in Contexts : pc[c] \in Inside},
  running <- gpu.ctx,
  done    <- fence,
  acked   <- issued,
  broken  <- faulted[Scheduler]

(***************************************************************************)
(* An engine with its lock, ring, caches and registers does what           *)
(* BatchService promises: one batch at a time, each exactly once, and an   *)
(* answer of B_OK only for a batch that is complete.                       *)
(***************************************************************************)
ImplementsBatchService == Service!Spec
=============================================================================
