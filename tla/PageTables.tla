------------------------------ MODULE PageTables ------------------------------
(***************************************************************************)
(* The four levels of page tables of a context: class PageTables of        *)
(* kernel/PageTables.cpp, after Init succeeded.                            *)
(*                                                                         *)
(* fTables is the sequence tables: the scratch tables 1 (the deepest), 2   *)
(* and 3, each full of the one below it and the first of the scratch page; *)
(* the top 4, full of the scratch table 3; and those made since.  An entry *)
(* is the number of a table or, in the tables of the last level, a page.   *)
(* An address is the tuple of its four indices (IndexAt).                  *)
(*                                                                         *)
(* Calls hold fLock.  Map (of an area, or of physical memory) and Unmap go *)
(* page by page: each table that is made and each entry that is written is *)
(* an action, and a map can stop at a table that cannot be made and at a   *)
(* page that has no physical address.                                      *)
(***************************************************************************)
EXTENDS Integers, Sequences

CONSTANTS
  Radix,      \* kEntriesPerTable
  MaxTables,  \* the length of fTables
  Pages,      \* pages of memory
  Scratch,    \* fScratchPage
  NoCall,     \* no call
  Areas,      \* lists of pages a call may map
  Starts      \* bound: the addresses at which calls begin

Indices   == 0 .. Radix - 1
Addresses == Indices \X Indices \X Indices \X Indices
Top       == 4

ASSUME TablesAssumption ==
  /\ Radix \in Nat \ {0} /\ MaxTables \in Nat /\ MaxTables >= Top
  /\ Scratch \notin Pages
  /\ Starts \subseteq Addresses
  /\ \A area \in Areas : area \in Seq(Pages) /\ area # <<>>
  /\ NoCall \notin [at : Addresses, pages : Seq(Pages \cup {Scratch}), walking : BOOLEAN]
  /\ NoCall \notin [at : Addresses, pages : Seq(Pages \cup {Scratch})]

VARIABLES
  tables,     \* fTables, the first fTableCount of them
  call,       \* the call that holds fLock, or NoCall
  dirty,      \* fDirty
  unflushed   \* the tables whose latest writes are only in the caches

tableVars == <<tables, call, dirty, unflushed>>

\* Scratch tables, and the top: what Init leaves.
Initial(n) == [i \in Indices |-> IF n = 1 THEN Scratch ELSE n - 1]

TablesInit ==
  /\ tables = [n \in 1 .. Top |-> Initial(n)]
  /\ call = NoCall
  /\ dirty = TRUE
  /\ unflushed = 1 .. Top

-----------------------------------------------------------------------------
(***************************************************************************)
(* Walking.                                                                *)
(***************************************************************************)
\* The tables on the way to an address, as the engine walks them.
TableAt(ts, a, level) ==
  LET second == ts[Top][a[1]]
      third  == ts[second][a[2]]
  IN CASE level = 1 -> Top
       [] level = 2 -> second
       [] level = 3 -> third
       [] level = 4 -> ts[third][a[3]]

Translate(ts, a) == ts[TableAt(ts, a, 4)][a[4]]

\* _Walk: one of the first three tables this object made.
IsScratch(n) == n < Top

\* The levels at which an address still shares a scratch table.
Shared(a) == {level \in 2 .. 4 : IsScratch(TableAt(tables, a, level))}

\* The level of the first table an address needs of its own.
Lacking(a) == CHOOSE level \in Shared(a) : \A other \in Shared(a) : level <= other

\* The next page; the last address has none.
After(a) ==
  IF a[4] < Radix - 1 THEN <<a[1], a[2], a[3], a[4] + 1>>
  ELSE IF a[3] < Radix - 1 THEN <<a[1], a[2], a[3] + 1, 0>>
  ELSE IF a[2] < Radix - 1 THEN <<a[1], a[2] + 1, 0, 0>>
  ELSE IF a[1] < Radix - 1 THEN <<a[1] + 1, 0, 0, 0>>
  ELSE NoCall

\* Pages from an address to the end of the address space.
Remaining(a) ==
  LET number == Radix * (Radix * (Radix * a[1] + a[2]) + a[3]) + a[4]
  IN Radix * Radix * Radix * Radix - number

-----------------------------------------------------------------------------
(***************************************************************************)
(* Calls.  call.pages are those still to write from call.at on, and        *)
(* call.walking says that the walk to call.at has made a table.            *)
(***************************************************************************)
\* Variant with a bug: the flag is left to the end of a call that succeeds.
BeginClean(a, pages) ==
  /\ call = NoCall /\ Len(pages) <= Remaining(a)
  /\ call' = [at |-> a, pages |-> pages, walking |-> FALSE]
  /\ UNCHANGED <<tables, dirty, unflushed>>

\* fDirty is set before any entry is written.
Begin(a, pages) ==
  /\ call = NoCall /\ Len(pages) <= Remaining(a)
  /\ call' = [at |-> a, pages |-> pages, walking |-> FALSE]
  /\ dirty' = TRUE
  /\ UNCHANGED <<tables, unflushed>>

Map(a, area) == Begin(a, area)

\* Unmap writes scratch pages.
Unmap(a, count) == Begin(a, [i \in 1 .. count |-> Scratch])

\* Only Unmap writes it.
Unmapping == Head(call.pages) = Scratch

\* On to the next page, or the call returns.
Advance ==
  call' = IF Len(call.pages) = 1 THEN NoCall
          ELSE [at |-> After(call.at), pages |-> Tail(call.pages), walking |-> FALSE]

\* _CreateTable: fTables has room; whether there is memory is seen in Fail.
RoomForATable == Len(tables) < MaxTables

\* A shared scratch table is replaced by one of the address's own, with the
\* same contents.
Grow ==
  LET level == Lacking(call.at)
      above == TableAt(tables, call.at, level - 1)
      child == TableAt(tables, call.at, level)
      new   == Len(tables) + 1
  IN /\ call # NoCall /\ ~Unmapping /\ Shared(call.at) # {}
     /\ RoomForATable
     /\ tables' = Append([tables EXCEPT ![above][call.at[level - 1]] = new], tables[child])
     /\ unflushed' = unflushed \cup {above, new}
     /\ call' = [call EXCEPT !.walking = TRUE]
     /\ UNCHANGED dirty

\* Variant with a bug: the last index is that of the level above.
WriteAbove ==
  LET last == TableAt(tables, call.at, 4)
  IN /\ call # NoCall /\ Shared(call.at) = {}
     /\ tables' = [tables EXCEPT ![last][call.at[3]] = Head(call.pages)]
     /\ unflushed' = unflushed \cup {last}
     /\ Advance
     /\ UNCHANGED dirty

Write ==
  LET last == TableAt(tables, call.at, 4)
  IN /\ call # NoCall /\ Shared(call.at) = {}
     /\ tables' = [tables EXCEPT ![last][call.at[4]] = Head(call.pages)]
     /\ unflushed' = unflushed \cup {last}
     /\ Advance
     /\ UNCHANGED dirty

\* Nothing was ever mapped there.
Skip ==
  /\ call # NoCall /\ Unmapping /\ Shared(call.at) # {}
  /\ Advance
  /\ UNCHANGED <<tables, dirty, unflushed>>

\* No table could be made, or, before the walk, the page has no physical
\* address: what was done is left.
Fail ==
  /\ call # NoCall /\ ~Unmapping
  /\ call.walking => Shared(call.at) # {}
  /\ call' = NoCall
  /\ UNCHANGED <<tables, dirty, unflushed>>

\* Before each submission.
Flush ==
  /\ call = NoCall /\ dirty
  /\ dirty' = FALSE /\ unflushed' = {}
  /\ UNCHANGED <<tables, call>>

TablesNext ==
  \/ \E a \in Starts, area \in Areas : Map(a, area) \/ Unmap(a, Len(area))
  \/ Grow \/ Write \/ Skip \/ Fail \/ Flush

TablesSpec == TablesInit /\ [][TablesNext]_tableVars
-----------------------------------------------------------------------------
(***************************************************************************)
(* Properties.                                                             *)
(***************************************************************************)
(***************************************************************************)
(* When the flag says there is nothing to write back there is not: the     *)
(* engine walks the tables as the driver left them, also those of a call   *)
(* that failed (208-211).                                                  *)
(***************************************************************************)
CleanMeansFlushed == ~dirty => unflushed = {}

=============================================================================
