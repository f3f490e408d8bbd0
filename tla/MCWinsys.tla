------------------------------- MODULE MCWinsys -------------------------------
(***************************************************************************)
(* Winsys for TLC: the requests a program makes.                           *)
(***************************************************************************)
EXTENDS Winsys, TLC

MCHandles == 1 .. 3
MCSyncs == 1 .. 2

Objects == [handle : MCHandles, offset : 1 .. VirtualSize]

\* One buffer, two, or the same one twice.  Handles differ in nothing but the
\* order they were made in, so two are listed in that order only.
Layouts ==
  {<<o>> : o \in Objects} \cup {<<o, o>> : o \in Objects} \cup
  {list \in Objects \X Objects : list[1].handle < list[2].handle}

Fence == [sync : MCSyncs, wait : BOOLEAN, signal : BOOLEAN]

OneBuffer == <<[handle |-> 1, offset |-> 1]>>

\* One fence, or one to wait for and then the other one.
FenceLists ==
  {<<f>> : f \in {g \in Fence : g.wait \/ g.signal}} \cup
  {list \in Fence \X Fence : /\ list[1].sync # list[2].sync
                            /\ list[1].wait
                            /\ list[1].signal # list[2].signal}

MCRequests ==
  {[layout |-> layout, fences |-> <<>>] : layout \in Layouts} \cup
  {[layout |-> OneBuffer, fences |-> list] : list \in FenceLists}

MCWaitLists == {<<f>> : f \in MCSyncs} \cup {<<1, 2>>}

ThreadSymmetry == Permutations(Threads)
=============================================================================
