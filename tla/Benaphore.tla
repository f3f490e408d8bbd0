----------------------------- MODULE Benaphore -----------------------------
(***************************************************************************)
(* struct lock (headers/lock.h): a counter and a semaphore in the memory    *)
(* the accelerants of all teams share.  acquire_lock adds one to the counter *)
(* and waits for the semaphore if somebody was there before; release_lock   *)
(* subtracts one and releases the semaphore if somebody came meanwhile.  A  *)
(* signal may end the wait early, and the counter keeps the one it added.   *)
(*                                                                         *)
(* The engine's lock and the ring buffer's are this struct, and so is       *)
(* accelerant_lock.                                                        *)
(***************************************************************************)
EXTENDS Integers

CONSTANTS
  Threads,       \* the threads of all teams that use the accelerant
  Locks          \* the locks

VARIABLE
  lock           \* for each lock: [count, sem, waiting, holding]

LockTypeOK ==
  lock \in [Locks -> [count : Int, sem : Int,
                      waiting : SUBSET Threads, holding : SUBSET Threads]]

(* init_lock.                                                              *)
LockInit ==
  lock = [l \in Locks |-> [count |-> 0, sem |-> 0, waiting |-> {}, holding |-> {}]]

(* acquire_lock: whoever comes first has the lock, others wait.            *)
EnterFree(l, t) ==
  /\ lock[l].count <= 0
  /\ lock' = [lock EXCEPT ![l].count = @ + 1, ![l].holding = @ \cup {t}]

EnterTaken(l, t) ==
  /\ lock[l].count > 0
  /\ lock' = [lock EXCEPT ![l].count = @ + 1, ![l].waiting = @ \cup {t}]

(* acquire_sem returns: with the semaphore, or because of a signal.        *)
Granted(l, t) ==
  /\ t \in lock[l].waiting /\ lock[l].sem > 0
  /\ lock' = [lock EXCEPT ![l].sem = @ - 1, ![l].waiting = @ \ {t},
                          ![l].holding = @ \cup {t}]

Interrupted(l, t) ==
  /\ t \in lock[l].waiting
  /\ lock' = [lock EXCEPT ![l].waiting = @ \ {t}]

(* release_lock, of a holder or of one who only believes to be.            *)
WakesOneMore(l) == lock[l].count > 0
Wakes(l) == lock[l].count > 1

Leave(l, t) ==
  lock' = [lock EXCEPT ![l].count = @ - 1,
                       ![l].sem = IF Wakes(l) THEN @ + 1 ELSE @,
                       ![l].holding = @ \ {t}]
============================================================================
