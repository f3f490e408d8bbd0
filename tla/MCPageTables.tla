----------------------------- MODULE MCPageTables -----------------------------
(***************************************************************************)
(* PageTables for TLC, and the flat map it implements.                     *)
(***************************************************************************)
EXTENDS PageTables, TLC

CONSTANT MaxCount  \* pages of the largest area

\* The first address, those before the end of a table of each level, and the
\* last.
MCStarts == {<<0, 0, 0, 0>>, <<0, 0, 0, 1>>, <<0, 0, 1, 1>>, <<0, 1, 1, 1>>, <<1, 1, 1, 1>>}

MCAreas == UNION {[1 .. n -> Pages] : n \in 1 .. MaxCount}

Flat == INSTANCE FlatTables WITH
  Lists <- Areas,
  None  <- NoCall,
  map   <- [a \in Addresses |-> Translate(tables, a)],
  call  <- IF call = NoCall THEN NoCall ELSE [at |-> call.at, pages |-> call.pages]

(***************************************************************************)
(* Tables are made, and shared tables are replaced, without any address    *)
(* changing its page; an entry that is written changes that of one, the    *)
(* one the call has reached; addresses without a table read as unmapped.   *)
(***************************************************************************)
ImplementsFlatTables == Flat!Spec
=============================================================================
