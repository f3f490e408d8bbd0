------------------------------- MODULE MCRing -------------------------------
EXTENDS Ring

CONSTANTS p1, p2, v, b1, b2

MCThreads == {p1, p2, v}
MCPainters == {p1, p2}
MCLocks == {"engine", "ring"}
PainterSymmetry == Permutations(MCPainters) \cup Permutations({b1, b2})

(* What happens after a thread went on without its lock is not explored.   *)
NoTrespass == ~trespassed

(* A ring has no first cell: states are the same whose rings are, seen from *)
(* the head.                                                               *)
FromHead ==
  <<lock, [i \in 0 .. Size - 1 |-> cells[(head + i) % Size]],
    (tail - head) % Size, (position - head) % Size, space, unread, overrun,
    todo, trespassed, interrupts, overlayVars>>
=============================================================================
