------------------------------ MODULE FlatTables ------------------------------
(***************************************************************************)
(* What page tables promise their owner, whatever levels they have: a map  *)
(* from addresses to pages which a call changes page by page, in order, at *)
(* the addresses it was called for and nowhere else.  A map may stop at    *)
(* any page; to unmap always goes on to the end.                           *)
(***************************************************************************)
EXTENDS Naturals, Sequences

CONSTANTS
  Addresses,  \* pages of the address space
  After(_),   \* the next page of it
  Lists,      \* lists of pages a call may map
  Scratch,    \* the page at addresses nothing is mapped at
  None

VARIABLES
  map,   \* address -> page
  call   \* the address a call has reached and what is to be there and after

vars == <<map, call>>

Init ==
  /\ map = [a \in Addresses |-> Scratch]
  /\ call = None

Begin(a, pages) ==
  /\ call = None
  /\ call' = [at |-> a, pages |-> pages]
  /\ UNCHANGED map

Write ==
  /\ call # None
  /\ map' = [map EXCEPT ![call.at] = Head(call.pages)]
  /\ call' = IF Len(call.pages) = 1 THEN None
             ELSE [at |-> After(call.at), pages |-> Tail(call.pages)]

\* Only a map may be given up.
Stop ==
  /\ call # None /\ Head(call.pages) # Scratch
  /\ call' = None
  /\ UNCHANGED map

Next ==
  \/ \E a \in Addresses, pages \in Lists :
       Begin(a, pages) \/ Begin(a, [i \in 1 .. Len(pages) |-> Scratch])
  \/ Write \/ Stop

Spec == Init /\ [][Next]_vars
=============================================================================
