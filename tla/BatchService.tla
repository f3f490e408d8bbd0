----------------------------- MODULE BatchService -----------------------------
(***************************************************************************)
(* What an engine promises its contexts, whatever the ring, the caches,    *)
(* the registers and the locks are like: batches run one at a time, each   *)
(* once and in the order its context submitted them; a submission that     *)
(* succeeds has run to the end; and once a batch has been given up as      *)
(* late, no other batch is started.                                        *)
(***************************************************************************)
EXTENDS Integers

CONSTANTS Contexts, None

VARIABLES
  pending,   \* contexts inside Submit
  running,   \* the context whose batch the GPU has, or None
  done,      \* per context, batches the GPU has completed
  acked,     \* per context, batches Submit has reported complete
  broken     \* a batch was given up

vars == <<pending, running, done, acked, broken>>

Init ==
  /\ pending = {}
  /\ running = None
  /\ done = [c \in Contexts |-> 0]
  /\ acked = [c \in Contexts |-> 0]
  /\ broken = FALSE

\* A new context starts a new timeline.
Renew(c) ==
  /\ c \notin pending /\ running # c
  /\ done' = [done EXCEPT ![c] = 0]
  /\ acked' = [acked EXCEPT ![c] = 0]
  /\ UNCHANGED <<pending, running, broken>>

Request(c) ==
  /\ c \notin pending
  /\ pending' = pending \cup {c}
  /\ UNCHANGED <<running, done, acked, broken>>

Start(c) ==
  /\ c \in pending /\ running = None /\ ~broken /\ done[c] = acked[c]
  /\ running' = c
  /\ UNCHANGED <<pending, done, acked, broken>>

\* The batch of the running context completes, even if it is too late.
Complete(c) ==
  /\ running = c /\ done[c] = acked[c]
  /\ done' = [done EXCEPT ![c] = @ + 1]
  /\ UNCHANGED <<pending, running, acked, broken>>

Release ==
  /\ running # None /\ done[running] = acked[running] + 1
  /\ running' = None
  /\ UNCHANGED <<pending, done, acked, broken>>

\* Submit returns B_OK and the fence.
Report(c) ==
  /\ c \in pending /\ running = None /\ ~broken /\ done[c] = acked[c] + 1
  /\ acked' = [acked EXCEPT ![c] = @ + 1]
  /\ pending' = pending \ {c}
  /\ UNCHANGED <<running, done, broken>>

\* Submit gives the batch up; the GPU may still have it.
GiveUp(c) ==
  /\ c \in pending
  /\ pending' = pending \ {c}
  /\ broken' = TRUE
  /\ UNCHANGED <<running, done, acked>>

\* Submit fails with nothing started.
Refuse(c) ==
  /\ c \in pending /\ running # c /\ (broken \/ done[c] = acked[c])
  /\ pending' = pending \ {c}
  /\ UNCHANGED <<running, done, acked, broken>>

Next ==
  \/ \E c \in Contexts : \/ Renew(c) \/ Request(c) \/ Start(c) \/ Complete(c)
                         \/ Report(c) \/ GiveUp(c) \/ Refuse(c)
  \/ Release

Spec == Init /\ [][Next]_vars
=============================================================================
