-------------------------- MODULE RenderClientProofs --------------------------
(***************************************************************************)
(* What the open files let the GPU reach, for every number of files, slots, *)
(* engines and pages: the native address space of a file is exactly what    *)
(* was bound, a native context only reaches memory that exists, the         *)
(* aperture they share has exactly the bound buffers and the contexts, and  *)
(* what each file is charged is what its buffers take.                     *)
(***************************************************************************)
EXTENDS RenderClient, FiniteSetTheorems, WellFoundedInduction, TLAPS

(***************************************************************************)
(* The inductive invariant.                                                *)
(***************************************************************************)
Buffer == [handle : Nat, size : Nat, address : Nat \cup {None}]

TypeInv ==
  /\ buffers \in [Clients -> [Slots -> Buffer]]
  /\ addresses \in [Clients -> [Slots -> Nat]]
  /\ nextHandle \in [Clients -> Nat]
  /\ vm = [c \in Clients |-> [a \in VirtualPages |-> vm[c][a]]]
  /\ engines \in [Clients -> SUBSET Engines]
  /\ contexts \in [Clients -> SUBSET ContextSlots]
  /\ \A c \in Clients : contexts[c] # {} => RenderIndex \in Engines
  /\ nativeFaulted \in [Clients -> BOOLEAN]
  /\ waiting \in [Clients -> [engine : Engines, native : BOOLEAN, objects : SUBSET Slots]
                               \cup {None}]
  /\ gpu = [e \in Engines |-> gpu[e]]

\* Slot s of client c covers the virtual address a.
Covers(c, s, a) ==
  addresses[c][s] # 0 /\ a \in Run(addresses[c][s], buffers[c][s].size)

\* The native address space of a client: buffers that exist, apart from each
\* other, and the entries of the page tables that follow from them.
SpaceInv(c) ==
  /\ \A s \in Slots : addresses[c][s] # 0 => buffers[c][s].handle # 0
  /\ \A s, o \in Slots : s # o /\ addresses[c][s] # 0 /\ addresses[c][o] # 0 =>
       \/ addresses[c][s] + buffers[c][s].size <= addresses[c][o]
       \/ addresses[c][o] + buffers[c][o].size <= addresses[c][s]
  /\ \A a \in VirtualPages :
       /\ \A s \in Slots : Covers(c, s, a) =>
            vm[c][a] = Page(c, buffers[c][s].handle, a - addresses[c][s])
       /\ (\A s \in Slots : ~Covers(c, s, a)) => vm[c][a] = Scratch

\* An engine works for a native context only while its client waits with its
\* lock held, or after a fault that closes the client to every operation.
Kept(c, e) ==
  \/ nativeFaulted[c]
  \/ waiting[c] # None /\ waiting[c].engine = e /\ waiting[c].native

GpuInv ==
  \A e \in Engines : gpu[e] # None =>
    \/ \E c \in Clients : gpu[e] = LegacyContext(c, e)
    \/ \E c \in Clients : \E i \in contexts[c] :
         gpu[e] = NativeContext(c, i) /\ Kept(c, e)

IInv == TypeInv /\ (\A c \in Clients : SpaceInv(c)) /\ GpuInv

-----------------------------------------------------------------------------
(* Address spaces. *)

LEMMA RunIs ==
  ASSUME NEW first \in Nat, NEW count \in Nat, NEW a \in Int
  PROVE  a \in Run(first, count) <=> first <= a /\ a < first + count
BY DEF Run

\* A buffer keeps its handle and its size.
SameBuffers(c) ==
  \A s \in Slots : /\ buffers'[c][s].handle = buffers[c][s].handle
                   /\ buffers'[c][s].size = buffers[c][s].size

LEMMA SpaceFrame ==
  ASSUME NEW c \in Clients, SpaceInv(c), SameBuffers(c),
         addresses'[c] = addresses[c], vm'[c] = vm[c]
  PROVE  SpaceInv(c)'
BY DEF SpaceInv, SameBuffers, Covers, Run, Page

\* The range of a slot is unmapped, and the slot is free, or keeps its buffer.
LEMMA SpaceUnmap ==
  ASSUME NEW c \in Clients, NEW s \in Slots, TypeInv, TypeInv', SpaceInv(c),
         UnmapVirtual(c, s),
         \A o \in Slots \ {s} : buffers'[c][o] = buffers[c][o]
  PROVE  SpaceInv(c)'
<1>1. CASE addresses[c][s] = 0
  <2>1. addresses' = addresses /\ vm' = vm
    BY <1>1 DEF UnmapVirtual
  <2>2. \A o \in Slots, a \in VirtualPages : Covers(c, o, a)' <=> Covers(c, o, a)
    BY <1>1, <2>1 DEF Covers, Run
  <2>3. \A o \in Slots : addresses[c][o] # 0 => buffers'[c][o] = buffers[c][o]
    BY <1>1
  <2>4. \A o \in Slots, a \in VirtualPages :
          Covers(c, o, a) => buffers'[c][o] = buffers[c][o]
    BY <2>3 DEF Covers
  <2> QED
    BY <2>1, <2>2, <2>3, <2>4 DEF SpaceInv
<1>2. CASE addresses[c][s] # 0
  <2>1. /\ addresses'[c] = [addresses[c] EXCEPT ![s] = 0]
        /\ \A a \in VirtualPages : vm'[c][a] =
             IF Covers(c, s, a) THEN Scratch ELSE vm[c][a]
    BY <1>2 DEF UnmapVirtual, Unmapped, TypeInv, Covers
  <2>2. \A a \in VirtualPages : ~Covers(c, s, a)'
    BY <2>1 DEF Covers, TypeInv
  <2>3. \A o \in Slots \ {s}, a \in VirtualPages : Covers(c, o, a)' <=> Covers(c, o, a)
    BY <2>1 DEF Covers, Run, TypeInv
  <2>4. \A o \in Slots \ {s}, a \in VirtualPages : Covers(c, o, a) => ~Covers(c, s, a)
    <3> SUFFICES ASSUME NEW o \in Slots \ {s}, NEW a \in VirtualPages,
                        Covers(c, o, a), Covers(c, s, a)
                 PROVE  FALSE
      OBVIOUS
    <3>1. /\ addresses[c][o] \in Nat /\ buffers[c][o].size \in Nat
          /\ addresses[c][s] \in Nat /\ buffers[c][s].size \in Nat
      BY DEF TypeInv, Buffer
    <3>3. a \in Int
      BY DEF VirtualPages
    <3>2. \/ addresses[c][s] + buffers[c][s].size <= addresses[c][o]
          \/ addresses[c][o] + buffers[c][o].size <= addresses[c][s]
      BY DEF SpaceInv, Covers
    <3> QED
      BY <3>1, <3>2, <3>3 DEF Covers, Run
  <2>5. \A o \in Slots : addresses'[c][o] # 0 =>
          o # s /\ addresses'[c][o] = addresses[c][o] /\ buffers'[c][o] = buffers[c][o]
    BY <2>1 DEF TypeInv, Buffer
  <2>6. (\A o \in Slots : addresses[c][o] # 0 => buffers[c][o].handle # 0)'
    BY <2>5 DEF SpaceInv
  <2>7. (\A p, o \in Slots : p # o /\ addresses[c][p] # 0 /\ addresses[c][o] # 0 =>
           \/ addresses[c][p] + buffers[c][p].size <= addresses[c][o]
           \/ addresses[c][o] + buffers[c][o].size <= addresses[c][p])'
    BY <2>5 DEF SpaceInv
  <2>8. ASSUME NEW a \in VirtualPages
        PROVE  /\ \A o \in Slots : Covers(c, o, a)' =>
                    vm'[c][a] = Page(c, buffers'[c][o].handle, a - addresses'[c][o])
               /\ (\A o \in Slots : ~Covers(c, o, a)') => vm'[c][a] = Scratch
    <3>1. ASSUME NEW o \in Slots, Covers(c, o, a)'
          PROVE  vm'[c][a] = Page(c, buffers'[c][o].handle, a - addresses'[c][o])
      <4>1. o # s
        BY <2>2, <3>1
      <4>2. Covers(c, o, a) /\ ~Covers(c, s, a)
        BY <2>3, <2>4, <3>1, <4>1
      <4>3. addresses'[c][o] = addresses[c][o] /\ buffers'[c][o] = buffers[c][o]
        BY <2>1, <4>1 DEF TypeInv
      <4> QED
        BY <2>1, <4>2, <4>3 DEF SpaceInv
    <3>2. ASSUME \A o \in Slots : ~Covers(c, o, a)'
          PROVE  vm'[c][a] = Scratch
      BY <2>1, <2>3, <3>2 DEF SpaceInv
    <3> QED
      BY <3>1, <3>2
  <2> QED
    BY <2>6, <2>7, <2>8 DEF SpaceInv
<1> QED
  BY <1>1, <1>2

\* A buffer is mapped whole, into a range no other one meets.
LEMMA SpaceBind ==
  ASSUME NEW c \in Clients, NEW s \in Slots, NEW address \in VirtualPages,
         TypeInv, TypeInv', SpaceInv(c), BindVirtual(c, s, address)
  PROVE  SpaceInv(c)'
<1> DEFINE b == buffers[c][s]
<1>1. /\ buffers' = buffers /\ b.handle # 0 /\ addresses[c][s] = 0
      /\ b.size \in Nat /\ address \in Nat \ {0}
      /\ VirtualPages \subseteq Nat \ {0}
  BY ClientAssumption DEF BindVirtual, MayBindVirtual, Used, TypeInv, Buffer, VirtualPages
<1>2. /\ addresses'[c] = [addresses[c] EXCEPT ![s] = address]
      /\ \A a \in VirtualPages : vm'[c][a] =
           IF a \in Run(address, b.size) THEN Page(c, b.handle, a - address) ELSE vm[c][a]
  BY DEF BindVirtual, Mapped, TypeInv
<1>3. \A o \in Slots \ {s} : addresses[c][o] # 0 =>
        \/ addresses[c][o] + buffers[c][o].size <= address
        \/ address + b.size <= addresses[c][o]
  <2> SUFFICES ASSUME NEW o \in Slots \ {s}, addresses[c][o] # 0
               PROVE  \/ addresses[c][o] + buffers[c][o].size <= address
                      \/ address + b.size <= addresses[c][o]
    OBVIOUS
  <2>1. addresses[c][o] \in Nat /\ buffers[c][o].size \in Nat
    BY DEF TypeInv, Buffer
  <2>2. ~ /\ address < addresses[c][o] + buffers[c][o].size
          /\ addresses[c][o] < address + b.size
    BY DEF BindVirtual, MayBindVirtual, Overlaps
  <2> QED
    BY <1>1, <2>1, <2>2
<1>4. \A a \in VirtualPages : Covers(c, s, a)' <=> a \in Run(address, b.size)
  BY <1>1, <1>2 DEF Covers, TypeInv
<1>5. \A o \in Slots \ {s} : addresses'[c][o] = addresses[c][o]
  BY <1>2 DEF TypeInv
<1>6. addresses'[c][s] = address
  BY <1>2 DEF TypeInv
<1>7. \A o \in Slots \ {s}, a \in VirtualPages : Covers(c, o, a)' <=> Covers(c, o, a)
  BY <1>1, <1>5 DEF Covers
<1>8. \A o \in Slots \ {s}, a \in VirtualPages :
        Covers(c, o, a) => a \notin Run(address, b.size)
  <2> SUFFICES ASSUME NEW o \in Slots \ {s}, NEW a \in VirtualPages,
                      Covers(c, o, a), a \in Run(address, b.size)
               PROVE  FALSE
    OBVIOUS
  <2>1. addresses[c][o] \in Nat /\ buffers[c][o].size \in Nat /\ a \in Nat
    BY <1>1 DEF TypeInv, Buffer
  <2>2. \/ addresses[c][o] + buffers[c][o].size <= address
        \/ address + b.size <= addresses[c][o]
    BY <1>3 DEF Covers
  <2> HIDE DEF b
  <2> QED
    BY <1>1, <2>1, <2>2 DEF Covers, Run
<1>9. (\A o \in Slots : addresses[c][o] # 0 => buffers[c][o].handle # 0)'
  BY <1>1, <1>5, <1>6 DEF SpaceInv
<1>10. (\A p, o \in Slots : p # o /\ addresses[c][p] # 0 /\ addresses[c][o] # 0 =>
          \/ addresses[c][p] + buffers[c][p].size <= addresses[c][o]
          \/ addresses[c][o] + buffers[c][o].size <= addresses[c][p])'
  BY <1>1, <1>3, <1>5, <1>6 DEF SpaceInv
<1>11. ASSUME NEW a \in VirtualPages
       PROVE  /\ \A o \in Slots : Covers(c, o, a)' =>
                   vm'[c][a] = Page(c, buffers'[c][o].handle, a - addresses'[c][o])
              /\ (\A o \in Slots : ~Covers(c, o, a)') => vm'[c][a] = Scratch
  <2>1. ASSUME Covers(c, s, a)'
        PROVE  vm'[c][a] = Page(c, buffers'[c][s].handle, a - addresses'[c][s])
    BY <1>1, <1>2, <1>4, <1>6, <2>1
  <2>2. ASSUME NEW o \in Slots \ {s}, Covers(c, o, a)'
        PROVE  vm'[c][a] = Page(c, buffers'[c][o].handle, a - addresses'[c][o])
    <3>1. vm'[c][a] = vm[c][a]
      BY <1>2, <1>7, <1>8, <2>2
    <3> QED
      BY <1>1, <1>5, <1>7, <2>2, <3>1 DEF SpaceInv
  <2>3. ASSUME \A o \in Slots : ~Covers(c, o, a)'
        PROVE  vm'[c][a] = Scratch
    <3>1. vm'[c][a] = vm[c][a]
      BY <1>2, <1>4, <2>3
    <3>2. ~Covers(c, s, a)
      BY <1>1 DEF Covers
    <3>3. \A o \in Slots : ~Covers(c, o, a)
      BY <1>7, <2>3, <3>2
    <3> QED
      BY <3>1, <3>3 DEF SpaceInv
  <2> QED
    BY <2>1, <2>2, <2>3
<1> QED
  BY <1>9, <1>10, <1>11 DEF SpaceInv

\* A map that failed is undone: its range was empty before.
LEMMA SpaceBindFails ==
  ASSUME NEW c \in Clients, NEW s \in Slots, NEW address \in VirtualPages,
         TypeInv, TypeInv', SpaceInv(c), BindVirtualFails(c, s, address)
  PROVE  vm' = vm
<1> DEFINE b == buffers[c][s]
<1>1. /\ addresses[c][s] = 0 /\ b.size \in Nat /\ address \in Nat
      /\ VirtualPages \subseteq Nat
  BY ClientAssumption DEF BindVirtualFails, MayBindVirtual, TypeInv, Buffer, VirtualPages
<1>2. ASSUME NEW a \in VirtualPages, a \in Run(address, b.size)
      PROVE  vm[c][a] = Scratch
  <2>1. ASSUME NEW o \in Slots, Covers(c, o, a)
        PROVE  FALSE
    <3>1. addresses[c][o] \in Nat /\ buffers[c][o].size \in Nat /\ a \in Nat
      BY <1>1 DEF TypeInv, Buffer
    <3>2. ~ /\ address < addresses[c][o] + buffers[c][o].size
            /\ addresses[c][o] < address + b.size
      BY <2>1 DEF BindVirtualFails, MayBindVirtual, Overlaps, Covers
    <3> HIDE DEF b
    <3> QED
      BY <1>1, <1>2, <2>1, <3>1, <3>2 DEF Covers, Run
  <2> QED
    BY <2>1 DEF SpaceInv
<1>3. vm' = [vm EXCEPT ![c] = Unmapped(@, address, b.size)]
  BY DEF BindVirtualFails
<1>4. vm[c] = [a \in VirtualPages |-> vm[c][a]]
  BY DEF TypeInv, Buffer
<1>5. Unmapped(vm[c], address, b.size) = vm[c]
  BY <1>2, <1>4 DEF Unmapped
<1> HIDE DEF b
<1> QED
  BY <1>3, <1>5 DEF TypeInv

-----------------------------------------------------------------------------
(* Types. *)

\* The page tables of every address space are there.
SpaceType(space) == space = [c \in Clients |-> [a \in VirtualPages |-> space[c][a]]]

LEMMA SpaceTypeExcept ==
  ASSUME NEW c \in Clients, NEW space, SpaceType(space), NEW new,
         new = [a \in VirtualPages |-> new[a]]
  PROVE  SpaceType([space EXCEPT ![c] = new])
<1> DEFINE next == [space EXCEPT ![c] = new]
<1>1. DOMAIN space = Clients
  BY DEF SpaceType
<1>2. \A d \in Clients : next[d] = [a \in VirtualPages |-> next[d][a]]
  BY <1>1 DEF SpaceType
<1>3. next = [d \in Clients |-> next[d]]
  BY <1>1
<1> HIDE DEF next
<1> QED
  BY <1>2, <1>3 DEF SpaceType, next

LEMMA UnmapType ==
  ASSUME NEW c \in Clients, NEW s \in Slots, TypeInv, UnmapVirtual(c, s)
  PROVE  SpaceType(vm') /\ addresses' \in [Clients -> [Slots -> Nat]]
<1>1. SpaceType(vm) /\ addresses \in [Clients -> [Slots -> Nat]]
  BY DEF TypeInv, SpaceType
<1>2. CASE addresses[c][s] = 0
  BY <1>1, <1>2 DEF UnmapVirtual
<1>3. CASE addresses[c][s] # 0
  <2>1. vm[c] = [a \in VirtualPages |-> vm[c][a]]
    BY <1>1 DEF SpaceType
  <2>2. vm' = [vm EXCEPT ![c] = Unmapped(vm[c], addresses[c][s], buffers[c][s].size)]
    BY <1>1, <1>3 DEF UnmapVirtual, SpaceType
  <2>3. SpaceType(vm')
    BY <1>1, <2>1, <2>2, SpaceTypeExcept DEF Unmapped
  <2> QED
    BY <1>1, <1>3, <2>3 DEF UnmapVirtual
<1> QED
  BY <1>2, <1>3

LEMMA NextHandleType ==
  ASSUME NEW h \in Nat
  PROVE  (h + 1) % HandleModulus \in Nat
BY ClientAssumption

LEMMA RowType ==
  ASSUME NEW T, NEW f \in [Clients -> [Slots -> T]], NEW c \in Clients, NEW s \in Slots,
         NEW x \in T
  PROVE  /\ [f EXCEPT ![c][s] = x] \in [Clients -> [Slots -> T]]
         /\ [f EXCEPT ![c] = [o \in Slots |-> x]] \in [Clients -> [Slots -> T]]
  OBVIOUS

LEMMA BufferRow ==
  ASSUME TypeInv, NEW c \in Clients, NEW s \in Slots, NEW b \in Buffer
  PROVE  [buffers EXCEPT ![c][s] = b] \in [Clients -> [Slots -> Buffer]]
BY RowType DEF TypeInv

LEMMA AddressRow ==
  ASSUME TypeInv, NEW c \in Clients, NEW s \in Slots, NEW address \in Nat
  PROVE  [addresses EXCEPT ![c][s] = address] \in [Clients -> [Slots -> Nat]]
BY RowType DEF TypeInv

LEMMA BufferType ==
  /\ NoBuffer \in Buffer
  /\ \A h \in Nat, n \in Nat : NewBuffer(h, n) \in Buffer
  /\ \A b \in Buffer, a \in Nat \cup {None} : [b EXCEPT !.address = a] \in Buffer
BY DEF NoBuffer, NewBuffer, Buffer

LEMMA Rebound ==
  ASSUME TypeInv, NEW c \in Clients, NEW s \in Slots, NEW address \in Nat \cup {None}
  PROVE  /\ [buffers EXCEPT ![c][s].address = address] \in [Clients -> [Slots -> Buffer]]
         /\ [buffers EXCEPT ![c][s].address = address] =
              [buffers EXCEPT ![c][s] = [buffers[c][s] EXCEPT !.address = address]]
<1>1. buffers \in [Clients -> [Slots -> Buffer]] /\ buffers[c][s] \in Buffer
  BY DEF TypeInv
<1>2. [buffers EXCEPT ![c][s].address = address] =
        [buffers EXCEPT ![c][s] = [buffers[c][s] EXCEPT !.address = address]]
  BY <1>1
<1>3. [buffers[c][s] EXCEPT !.address = address] \in Buffer
  BY <1>1, BufferType
<1> QED
  BY <1>1, <1>2, <1>3, RowType

LEMMA TypeStep ==
  ASSUME TypeInv, [Next]_vars
  PROVE  TypeInv'
<1> USE ClientAssumption
<1>1. ASSUME NEW c \in Clients, Open(c)
      PROVE  TypeInv'
  BY <1>1 DEF Open, TypeInv, render
<1>2. ASSUME NEW c \in Clients, Close(c)
      PROVE  TypeInv'
  <2>1. CASE Quarantined(c)
    BY <1>2, <2>1 DEF Close, TypeInv, render, memory
  <2>2. CASE ~Quarantined(c)
    <3>1. SpaceType(vm')
      <4>1. SpaceType(vm)
        BY DEF TypeInv, SpaceType
      <4>2. vm' = [vm EXCEPT ![c] = [a \in VirtualPages |-> Scratch]]
        BY <1>2, <2>2 DEF Close
      <4> QED
        BY <4>1, <4>2, SpaceTypeExcept
    <3>2. buffers' \in [Clients -> [Slots -> Buffer]]
      <4>1. buffers' = [buffers EXCEPT ![c] = [o \in Slots |-> NoBuffer]]
        BY <1>2, <2>2 DEF Close
      <4>2. CASE Slots = {}
        BY <4>1, <4>2 DEF TypeInv
      <4>3. CASE Slots # {}
        BY <4>1, <4>3, RowType, BufferType DEF TypeInv
      <4> QED
        BY <4>2, <4>3
    <3>3. addresses' \in [Clients -> [Slots -> Nat]]
      <4>1. addresses' = [addresses EXCEPT ![c] = [s \in Slots |-> 0]]
        BY <1>2, <2>2 DEF Close
      <4>2. addresses \in [Clients -> [Slots -> Nat]] /\ [s \in Slots |-> 0] \in [Slots -> Nat]
        BY DEF TypeInv
      <4> QED
        BY <4>1, <4>2
    <3>4. /\ contexts' \in [Clients -> SUBSET ContextSlots]
          /\ \A d \in Clients : contexts'[d] # {} => RenderIndex \in Engines
          /\ engines' \in [Clients -> SUBSET Engines]
      <4>1. /\ contexts' = [contexts EXCEPT ![c] = {}]
            /\ engines' = [engines EXCEPT ![c] = {}]
        BY <1>2, <2>2 DEF Close
      <4>2. \A d \in Clients : contexts'[d] \subseteq contexts[d]
        BY <4>1 DEF TypeInv
      <4> QED
        BY <4>1, <4>2 DEF TypeInv
    <3>5. /\ nativeFaulted' \in [Clients -> BOOLEAN]
          /\ waiting' = waiting /\ gpu' = gpu /\ nextHandle' = nextHandle
      BY <1>2, <2>2 DEF Close, TypeInv
    <3> QED
      BY <3>1, <3>2, <3>3, <3>4, <3>5 DEF TypeInv, SpaceType
  <2> QED
    BY <2>1, <2>2
<1>3. ASSUME NEW c \in Clients, NEW size \in Sizes, CreateBuffer(c, size)
      PROVE  TypeInv'
  <2>1. nextHandle' \in [Clients -> Nat]
    BY <1>3, NextHandleType DEF CreateBuffer, TypeInv
  <2>2. nextHandle[c] \in Nat /\ size \in Nat
    BY DEF TypeInv
  <2>3. NewBuffer(nextHandle[c], size) \in Buffer
    BY <2>2, BufferType
  <2>4. buffers' \in [Clients -> [Slots -> Buffer]]
    <3>1. PICK s \in Slots : \/ buffers' = [buffers EXCEPT ![c][s] =
                                                 NewBuffer(nextHandle[c], size)]
                             \/ buffers' = buffers
      BY <1>3 DEF CreateBuffer
    <3>2. [buffers EXCEPT ![c][s] = NewBuffer(nextHandle[c], size)]
            \in [Clients -> [Slots -> Buffer]]
      BY <2>3, BufferRow
    <3>3. buffers \in [Clients -> [Slots -> Buffer]]
      BY DEF TypeInv
    <3> QED
      BY <3>1, <3>2, <3>3
  <2> QED
    BY <1>3, <2>1, <2>4 DEF CreateBuffer, TypeInv, render, memory
<1>4. ASSUME NEW c \in Clients, NEW s \in Slots, CloseBuffer(c, s)
      PROVE  TypeInv'
  <2>1. UnmapVirtual(c, s)
    BY <1>4 DEF CloseBuffer
  <2>2. SpaceType(vm') /\ addresses' \in [Clients -> [Slots -> Nat]]
    BY <2>1, UnmapType
  <2>3. buffers' \in [Clients -> [Slots -> Buffer]]
    BY <1>4, RowType, BufferType DEF CloseBuffer, TypeInv
  <2> QED
    BY <1>4, <2>2, <2>3 DEF CloseBuffer, TypeInv, SpaceType, render
<1>5. ASSUME NEW c \in Clients, NEW s \in Slots,
             BindBuffer(c, s) \/ BindBufferFails(c, s) \/ UnbindBuffer(c, s)
      PROVE  TypeInv'
  <2>1. buffers' \in [Clients -> [Slots -> Buffer]]
    <3>1. CASE BindBuffer(c, s)
      <4>1. PICK address \in FirstFit(buffers[c][s].size) :
              buffers' = [buffers EXCEPT ![c][s].address = address]
        BY <3>1 DEF BindBuffer, Bind
      <4>2. address \in Nat
        BY DEF FirstFit, GttPages
      <4> QED
        BY <4>1, <4>2, Rebound
    <3>2. CASE UnbindBuffer(c, s)
      BY <3>2, Rebound DEF UnbindBuffer, Unbind
    <3>3. CASE BindBufferFails(c, s)
      BY <3>3 DEF BindBufferFails, files, TypeInv
    <3> QED
      BY <1>5, <3>1, <3>2, <3>3
  <2> QED
    BY <1>5, <2>1 DEF BindBuffer, BindBufferFails, UnbindBuffer, TypeInv, files, render
<1>6. ASSUME NEW c \in Clients, NEW s \in Slots, UnbindVirtual(c, s)
      PROVE  TypeInv'
  <2>1. SpaceType(vm') /\ addresses' \in [Clients -> [Slots -> Nat]]
    BY <1>6, UnmapType DEF UnbindVirtual
  <2> QED
    BY <1>6, <2>1 DEF UnbindVirtual, TypeInv, SpaceType, render
<1>7. ASSUME NEW c \in Clients, NEW s \in Slots, NEW address \in VirtualPages,
             BindVirtual(c, s, address) \/ BindVirtualFails(c, s, address)
      PROVE  TypeInv'
  <2>1. SpaceType(vm) /\ address \in Nat
    BY DEF TypeInv, SpaceType, VirtualPages
  <2>2. vm[c] = [a \in VirtualPages |-> vm[c][a]]
    BY <2>1 DEF SpaceType
  <2>3. PICK new : vm' = [vm EXCEPT ![c] = new] /\ new = [a \in VirtualPages |-> new[a]]
    BY <1>7, <2>2 DEF BindVirtual, BindVirtualFails, Mapped, Unmapped
  <2>4. SpaceType(vm')
    BY <2>1, <2>3, SpaceTypeExcept
  <2>5. addresses' \in [Clients -> [Slots -> Nat]]
    <3>1. addresses' = addresses \/ addresses' = [addresses EXCEPT ![c][s] = address]
      BY <1>7 DEF BindVirtual, BindVirtualFails, files
    <3>2. [addresses EXCEPT ![c][s] = address] \in [Clients -> [Slots -> Nat]]
      BY <2>1, AddressRow
    <3>3. addresses \in [Clients -> [Slots -> Nat]]
      BY DEF TypeInv
    <3> QED
      BY <2>1, <3>1, <3>2, <3>3
  <2> QED
    BY <1>7, <2>4, <2>5 DEF BindVirtual, BindVirtualFails, TypeInv, SpaceType, files, render
<1>8. ASSUME NEW c \in Clients, CreateContext(c)
      PROVE  TypeInv'
  BY <1>8 DEF CreateContext, TypeInv, files
<1>9. ASSUME NEW c \in Clients, NEW i \in ContextSlots, DestroyContext(c, i)
      PROVE  TypeInv'
  BY <1>9 DEF DestroyContext, TypeInv, files
<1>10. ASSUME NEW c \in Clients, NEW e \in Engines, NEW context,
              NEW objects \in SUBSET Slots, Starts(c, e, context, objects),
              UNCHANGED <<files, faultedIn, nativeFaulted, contexts, completed, memory,
                          scheduler>>
       PROVE  TypeInv'
  <2> DEFINE record == [engine |-> e, native |-> context # LegacyContext(c, e),
                        objects |-> objects]
  <2>1. record \in [engine : Engines, native : BOOLEAN, objects : SUBSET Slots]
    OBVIOUS
  <2>2. waiting' = [waiting EXCEPT ![c] = record] /\ gpu' = [gpu EXCEPT ![e] = context]
    BY <1>10 DEF Starts
  <2> HIDE DEF record
  <2>3. waiting' \in [Clients -> [engine : Engines, native : BOOLEAN, objects : SUBSET Slots]
                                  \cup {None}]
    BY <2>1, <2>2 DEF TypeInv
  <2>4. gpu' = [f \in Engines |-> gpu'[f]]
    BY <2>2 DEF TypeInv
  <2> QED
    BY <1>10, <2>3, <2>4 DEF TypeInv, files, memory
<1>11. ASSUME NEW c \in Clients, NEW i \in ContextSlots, NEW objects \in SUBSET Slots,
              NEW batch \in objects, SubmitObjects(c, i, objects, batch)
       PROVE  TypeInv'
  <2>1. RenderIndex \in Engines
    BY <1>11 DEF SubmitObjects, TypeInv
  <2> QED
    BY <1>10, <1>11, <2>1 DEF SubmitObjects
<1>12. ASSUME NEW c \in Clients, NEW e \in Engines, NEW s \in Slots, SubmitBatch(c, e, s)
       PROVE  TypeInv'
  <2>1. {s} \in SUBSET Slots
    OBVIOUS
  <2>2. /\ Starts(c, e, LegacyContext(c, e), {s})
        /\ UNCHANGED <<files, faultedIn, nativeFaulted, contexts, completed, memory,
                       scheduler>>
    BY <1>12 DEF SubmitBatch
  <2> QED
    BY <1>10, <2>1, <2>2
<1>13. ASSUME NEW c \in Clients, SubmitDone(c) \/ SubmitTimeout(c)
       PROVE  TypeInv'
  <2>1. waiting' \in [Clients -> [engine : Engines, native : BOOLEAN, objects : SUBSET Slots]
                                  \cup {None}]
    BY <1>13 DEF SubmitDone, SubmitTimeout, TypeInv
  <2>2. nativeFaulted' \in [Clients -> BOOLEAN]
    BY <1>13 DEF SubmitDone, SubmitTimeout, TypeInv
  <2> QED
    BY <1>13, <2>1, <2>2 DEF SubmitDone, SubmitTimeout, TypeInv, files, memory
<1>14. ASSUME NEW e \in Engines, GpuFinish(e)
       PROVE  TypeInv'
  <2>1. gpu' = [gpu EXCEPT ![e] = None]
    BY <1>14 DEF GpuFinish
  <2>2. gpu' = [f \in Engines |-> gpu'[f]]
    BY <2>1 DEF TypeInv
  <2> QED
    BY <1>14, <2>2 DEF GpuFinish, TypeInv, files, render, memory
<1>15. CASE UNCHANGED vars
  BY <1>15 DEF vars, files, render, memory, TypeInv
<1> QED
  BY <1>1, <1>2, <1>3, <1>4, <1>5, <1>6, <1>7, <1>8, <1>9, <1>11, <1>12, <1>13, <1>14,
     <1>15 DEF Next, Buffering, Rendering

-----------------------------------------------------------------------------
(* The native address spaces. *)

LEMMA SpaceStep ==
  ASSUME TypeInv, TypeInv', \A c \in Clients : SpaceInv(c), [Next]_vars
  PROVE  \A c \in Clients : SpaceInv(c)'
<1> SUFFICES ASSUME NEW d \in Clients
             PROVE  SpaceInv(d)'
  OBVIOUS
<1>1. ASSUME SameBuffers(d), addresses'[d] = addresses[d], vm'[d] = vm[d]
      PROVE  SpaceInv(d)'
  BY <1>1, SpaceFrame
<1>2. ASSUME NEW c \in Clients,
             \/ Open(c) \/ CreateContext(c) \/ SubmitDone(c) \/ SubmitTimeout(c)
             \/ \E i \in ContextSlots :
                  \/ DestroyContext(c, i)
                  \/ \E objects \in SUBSET Slots : \E batch \in objects :
                       SubmitObjects(c, i, objects, batch)
             \/ \E e \in Engines : \E s \in Slots : SubmitBatch(c, e, s)
      PROVE  SpaceInv(d)'
  <2>1. buffers' = buffers /\ addresses' = addresses /\ vm' = vm
    BY <1>2 DEF Open, CreateContext, SubmitDone, SubmitTimeout, DestroyContext,
                SubmitObjects, SubmitBatch, files, memory
  <2> QED
    BY <1>1, <2>1 DEF SameBuffers
<1>3. ASSUME NEW c \in Clients, Close(c)
      PROVE  SpaceInv(d)'
  <2>1. CASE Quarantined(c)
    BY <1>1, <1>3, <2>1 DEF Close, SameBuffers, memory
  <2>2. CASE ~Quarantined(c)
    <3>1. /\ buffers' = [buffers EXCEPT ![c] = [s \in Slots |-> NoBuffer]]
          /\ addresses' = [addresses EXCEPT ![c] = [s \in Slots |-> 0]]
          /\ vm' = [vm EXCEPT ![c] = [a \in VirtualPages |-> Scratch]]
      BY <1>3, <2>2 DEF Close
    <3>2. CASE d # c
      BY <1>1, <3>1, <3>2 DEF SameBuffers, TypeInv
    <3>3. CASE d = c
      <4>1. \A s \in Slots : addresses'[d][s] = 0
        BY <3>1, <3>3 DEF TypeInv
      <4>2. \A a \in VirtualPages : vm'[d][a] = Scratch
        BY <3>1, <3>3 DEF TypeInv
      <4> QED
        BY <4>1, <4>2 DEF SpaceInv, Covers
    <3> QED
      BY <3>2, <3>3
  <2> QED
    BY <2>1, <2>2
<1>4. ASSUME NEW c \in Clients, NEW size \in Sizes, CreateBuffer(c, size)
      PROVE  SpaceInv(d)'
  <2>1. /\ addresses' = addresses /\ vm' = vm
        /\ \E s \in Slots \ Used(c) :
             \/ buffers' = [buffers EXCEPT ![c][s] = NewBuffer(nextHandle[c], size)]
             \/ buffers' = buffers
    BY <1>4 DEF CreateBuffer, memory
  <2>2. PICK s \in Slots \ Used(c) :
             \/ buffers' = [buffers EXCEPT ![c][s] = NewBuffer(nextHandle[c], size)]
             \/ buffers' = buffers
    BY <2>1
  <2>3. CASE buffers' = buffers \/ d # c
    BY <1>1, <2>1, <2>2, <2>3 DEF SameBuffers, TypeInv
  <2>4. CASE d = c /\ buffers' # buffers
    <3>1. addresses[c][s] = 0
      BY <2>2 DEF SpaceInv, Used
    <3>2. \A o \in Slots : addresses[d][o] # 0 => buffers'[d][o] = buffers[d][o]
      BY <2>2, <2>4, <3>1 DEF TypeInv
    <3>3. \A o \in Slots, a \in VirtualPages :
            /\ Covers(d, o, a)' <=> Covers(d, o, a)
            /\ Covers(d, o, a) => buffers'[d][o] = buffers[d][o]
      BY <2>1, <3>2 DEF Covers
    <3> QED
      BY <2>1, <3>2, <3>3 DEF SpaceInv
  <2> QED
    BY <2>2, <2>3, <2>4
<1>5. ASSUME NEW c \in Clients, NEW s \in Slots,
             CloseBuffer(c, s) \/ UnbindVirtual(c, s)
      PROVE  SpaceInv(d)'
  <2>1. UnmapVirtual(c, s)
    BY <1>5 DEF CloseBuffer, UnbindVirtual
  <2>2. buffers' = buffers \/ buffers' = [buffers EXCEPT ![c][s] = NoBuffer]
    BY <1>5 DEF CloseBuffer, UnbindVirtual
  <2>3. CASE d = c
    <3>1. \A o \in Slots \ {s} : buffers'[c][o] = buffers[c][o]
      BY <2>2 DEF TypeInv
    <3> QED
      BY <2>1, <2>3, <3>1, SpaceUnmap
  <2>4. CASE d # c
    BY <1>1, <2>1, <2>2, <2>4 DEF UnmapVirtual, SameBuffers, TypeInv
  <2> QED
    BY <2>3, <2>4
<1>6. ASSUME NEW c \in Clients, NEW s \in Slots,
             BindBuffer(c, s) \/ BindBufferFails(c, s) \/ UnbindBuffer(c, s)
      PROVE  SpaceInv(d)'
  <2>1. addresses' = addresses /\ vm' = vm
    BY <1>6 DEF BindBuffer, BindBufferFails, UnbindBuffer, files
  <2>2. SameBuffers(d)
    <3>1. CASE BindBufferFails(c, s)
      BY <3>1 DEF BindBufferFails, SameBuffers, files
    <3>2. CASE BindBuffer(c, s) \/ UnbindBuffer(c, s)
      <4>1. PICK address :
              buffers' = [buffers EXCEPT ![c][s].address = address]
        BY <3>2 DEF BindBuffer, UnbindBuffer, Bind, Unbind
      <4> QED
        BY <4>1 DEF SameBuffers, TypeInv, Buffer
    <3> QED
      BY <1>6, <3>1, <3>2
  <2> QED
    BY <1>1, <2>1, <2>2
<1>7. ASSUME NEW c \in Clients, NEW s \in Slots, NEW address \in VirtualPages,
             BindVirtual(c, s, address)
      PROVE  SpaceInv(d)'
  <2>1. CASE d = c
    BY <1>7, <2>1, SpaceBind
  <2>2. CASE d # c
    BY <1>1, <1>7, <2>2 DEF BindVirtual, SameBuffers, TypeInv
  <2> QED
    BY <2>1, <2>2
<1>8. ASSUME NEW c \in Clients, NEW s \in Slots, NEW address \in VirtualPages,
             BindVirtualFails(c, s, address)
      PROVE  SpaceInv(d)'
  <2>1. vm' = vm
    BY <1>8, SpaceBindFails
  <2> QED
    BY <1>1, <1>8, <2>1 DEF BindVirtualFails, SameBuffers, files
<1>9. ASSUME NEW e \in Engines, GpuFinish(e)
      PROVE  SpaceInv(d)'
  BY <1>1, <1>9 DEF GpuFinish, SameBuffers, files, memory
<1>10. CASE UNCHANGED vars
  BY <1>1, <1>10 DEF vars, files, memory, SameBuffers
<1> QED
  BY <1>2, <1>3, <1>4, <1>5, <1>6, <1>7, <1>8, <1>9, <1>10 DEF Next, Buffering, Rendering

-----------------------------------------------------------------------------
(* What the engines work for. *)

\* A native context that an engine works for.
Works(e, c, i) == gpu[e] = NativeContext(c, i) /\ i \in contexts[c] /\ Kept(c, e)

\* Whatever an engine goes on with is still kept.
StillMet(e) ==
  gpu'[e] # None =>
    \/ \E c \in Clients : gpu'[e] = LegacyContext(c, e)
    \/ \E c \in Clients : \E i \in contexts'[c] :
         gpu'[e] = NativeContext(c, i) /\ Kept(c, e)'

LEMMA GpuFrame ==
  ASSUME GpuInv, NEW e \in Engines, gpu'[e] = gpu[e],
         \A c \in Clients : \A i \in contexts[c] :
           gpu[e] # None /\ Works(e, c, i) => i \in contexts'[c] /\ Kept(c, e)'
  PROVE  StillMet(e)
BY DEF GpuInv, StillMet, Works

\* A client whose lock is free and that Ioctl does not refuse has no native
\* context in an engine.
LEMMA LockedIsIdle ==
  ASSUME NEW c \in Clients, Locked(c), NEW e \in Engines
  PROVE  ~Kept(c, e)
BY DEF Locked, Kept

LEMMA GpuStarts ==
  ASSUME TypeInv, GpuInv, NEW c \in Clients, NEW e \in Engines, NEW context,
         NEW objects \in SUBSET Slots, Locked(c), Starts(c, e, context, objects),
         contexts' = contexts, nativeFaulted' = nativeFaulted,
         \/ context = LegacyContext(c, e)
         \/ \E i \in contexts[c] : context = NativeContext(c, i)
  PROVE  GpuInv'
<1> SUFFICES ASSUME NEW f \in Engines
             PROVE  StillMet(f)
  BY DEF GpuInv, StillMet
<1> DEFINE record == [engine |-> e, native |-> context # LegacyContext(c, e),
                      objects |-> objects]
<1>1. waiting' = [waiting EXCEPT ![c] = record] /\ gpu' = [gpu EXCEPT ![e] = context]
  BY DEF Starts
<1>2. CASE f = e
  <2>1. gpu'[e] = context
    BY <1>1 DEF TypeInv
  <2>2. CASE context = LegacyContext(c, e)
    BY <1>2, <2>1, <2>2 DEF StillMet
  <2>3. CASE context # LegacyContext(c, e)
    <3>1. PICK i \in contexts[c] : context = NativeContext(c, i)
      BY <2>3
    <3>2. waiting'[c] = record /\ record.engine = e /\ record.native
      BY <1>1, <2>3 DEF TypeInv
    <3>3. CASE Kept(c, e)'
      BY <1>2, <2>1, <3>1, <3>3 DEF StillMet
    <3>4. record # None
      <4>1. record = [engine |-> e, native |-> TRUE, objects |-> objects]
        BY <2>3
      <4> QED
        <5>1. record \in [engine : Engines, native : BOOLEAN, objects : SUBSET Slots]
          BY <4>1
        <5> HIDE DEF record
        <5> QED
          BY <5>1, ClientAssumption
    <3> HIDE DEF record
    <3>5. Kept(c, e)'
      BY <3>2, <3>4 DEF Kept
    <3> QED
      BY <3>3, <3>5
  <2> QED
    BY <2>2, <2>3
<1>3. CASE f # e
  <2>1. gpu'[f] = gpu[f]
    BY <1>1, <1>3 DEF TypeInv
  <2>2. ASSUME NEW d \in Clients, NEW i \in contexts[d], Works(f, d, i)
        PROVE  i \in contexts'[d] /\ Kept(d, f)'
    <3>1. d # c
      BY <2>2, LockedIsIdle DEF Works
    <3>2. waiting'[d] = waiting[d]
      BY <1>1, <3>1 DEF TypeInv
    <3> QED
      BY <2>2, <3>2 DEF Works, Kept
  <2> QED
    BY <2>1, <2>2, GpuFrame
<1> QED
  BY <1>2, <1>3

LEMMA GpuStep ==
  ASSUME TypeInv, TypeInv', GpuInv, [Next]_vars
  PROVE  GpuInv'
<1>1. ASSUME UNCHANGED <<render, gpu>>
      PROVE  GpuInv'
  BY <1>1 DEF GpuInv, Kept, render
<1>2. ASSUME NEW c \in Clients, Open(c) \/ Buffering(c)
      PROVE  GpuInv'
  <2>1. UNCHANGED <<render, gpu>>
    BY <1>2 DEF Open, Buffering, CreateBuffer, CloseBuffer, BindBuffer, BindBufferFails,
                UnbindBuffer, UnbindVirtual, BindVirtual, BindVirtualFails
  <2> QED
    BY <1>1, <2>1
<1>3. ASSUME NEW c \in Clients, Close(c) \/ CreateContext(c)
      PROVE  GpuInv'
  <2> SUFFICES ASSUME NEW f \in Engines
               PROVE  StillMet(f)
    BY DEF GpuInv, StillMet
  <2>1. gpu' = gpu /\ waiting' = waiting
    BY <1>3 DEF Close, CreateContext, render
  <2>2. ASSUME NEW d \in Clients, NEW i \in contexts[d], Works(f, d, i)
        PROVE  i \in contexts'[d] /\ Kept(d, f)'
    <3>1. CASE Close(c)
      <4>1. CASE Quarantined(c)
        BY <2>2, <3>1, <4>1 DEF Close, render, Works, Kept
      <4>2. CASE ~Quarantined(c)
        <5>1. ~Kept(c, f)
          BY <3>1, <4>2 DEF Close, Kept, Quarantined
        <5>2. d # c
          BY <2>2, <5>1 DEF Works
        <5>3. /\ contexts' = [contexts EXCEPT ![c] = {}]
              /\ nativeFaulted' = [nativeFaulted EXCEPT ![c] = FALSE]
          BY <3>1, <4>2 DEF Close
        <5>4. contexts'[d] = contexts[d] /\ nativeFaulted'[d] = nativeFaulted[d]
          BY <5>2, <5>3 DEF TypeInv
        <5> QED
          BY <2>1, <2>2, <5>4 DEF Works, Kept
      <4> QED
        BY <4>1, <4>2
    <3>2. CASE CreateContext(c)
      <4>1. nativeFaulted' = nativeFaulted /\ i \in contexts'[d]
        BY <3>2 DEF CreateContext, TypeInv
      <4> QED
        BY <2>1, <2>2, <4>1 DEF Works, Kept
    <3> QED
      BY <1>3, <3>1, <3>2
  <2> QED
    BY <2>1, <2>2, GpuFrame
<1>4. ASSUME NEW c \in Clients, NEW j \in ContextSlots, DestroyContext(c, j)
      PROVE  GpuInv'
  <2> SUFFICES ASSUME NEW f \in Engines
               PROVE  StillMet(f)
    BY DEF GpuInv, StillMet
  <2>1. /\ gpu' = gpu /\ waiting' = waiting /\ nativeFaulted' = nativeFaulted
        /\ contexts' = [contexts EXCEPT ![c] = @ \ {j}] /\ Locked(c)
    BY <1>4 DEF DestroyContext
  <2>2. ASSUME NEW d \in Clients, NEW i \in contexts[d], Works(f, d, i)
        PROVE  i \in contexts'[d] /\ Kept(d, f)'
    <3>1. d # c
      BY <2>1, <2>2, LockedIsIdle DEF Works
    <3>2. contexts'[d] = contexts[d]
      BY <2>1, <3>1 DEF TypeInv
    <3> QED
      BY <2>1, <2>2, <3>2 DEF Works, Kept
  <2> QED
    BY <2>1, <2>2, GpuFrame
<1>5. ASSUME NEW c \in Clients, NEW i \in ContextSlots, NEW objects \in SUBSET Slots,
             NEW batch \in objects, SubmitObjects(c, i, objects, batch)
      PROVE  GpuInv'
  <2>1. RenderIndex \in Engines
    BY <1>5 DEF SubmitObjects, TypeInv
  <2>2. /\ Locked(c) /\ i \in contexts[c]
        /\ Starts(c, RenderIndex, NativeContext(c, i), objects)
        /\ contexts' = contexts /\ nativeFaulted' = nativeFaulted
    BY <1>5 DEF SubmitObjects
  <2> QED
    BY <2>1, <2>2, GpuStarts
<1>6. ASSUME NEW c \in Clients, NEW e \in Engines, NEW s \in Slots, SubmitBatch(c, e, s)
      PROVE  GpuInv'
  <2>1. /\ Locked(c) /\ Starts(c, e, LegacyContext(c, e), {s})
        /\ contexts' = contexts /\ nativeFaulted' = nativeFaulted
    BY <1>6 DEF SubmitBatch
  <2>2. {s} \in SUBSET Slots
    OBVIOUS
  <2> QED
    BY <2>1, <2>2, GpuStarts
<1>7. ASSUME NEW c \in Clients, SubmitDone(c) \/ SubmitTimeout(c)
      PROVE  GpuInv'
  <2> SUFFICES ASSUME NEW f \in Engines
               PROVE  StillMet(f)
    BY DEF GpuInv, StillMet
  <2>1. /\ gpu' = gpu /\ contexts' = contexts
        /\ waiting' = [waiting EXCEPT ![c] = None]
    BY <1>7 DEF SubmitDone, SubmitTimeout
  <2>2. ASSUME NEW d \in Clients, NEW i \in contexts[d], gpu[f] # None, Works(f, d, i)
        PROVE  i \in contexts'[d] /\ Kept(d, f)'
    <3>1. CASE d # c
      <4>1. waiting'[d] = waiting[d] /\ nativeFaulted'[d] = nativeFaulted[d]
        BY <1>7, <2>1, <3>1 DEF SubmitDone, SubmitTimeout, TypeInv
      <4> QED
        BY <2>1, <2>2, <4>1 DEF Works, Kept
    <3>2. CASE d = c
      <4>1. nativeFaulted'[c]
        <5>1. CASE SubmitDone(c)
          BY <2>2, <3>2, <5>1 DEF SubmitDone, Works, Kept
        <5>2. CASE SubmitTimeout(c)
          <6>1. nativeFaulted' = [nativeFaulted EXCEPT ![c] = @ \/ waiting[c].native]
            BY <5>2 DEF SubmitTimeout
          <6>2. nativeFaulted'[c] = (nativeFaulted[c] \/ waiting[c].native)
            BY <6>1 DEF TypeInv
          <6> QED
            BY <2>2, <3>2, <6>2 DEF Works, Kept
        <5> QED
          BY <1>7, <5>1, <5>2
      <4> QED
        BY <2>1, <2>2, <3>2, <4>1 DEF Kept
    <3> QED
      BY <3>1, <3>2
  <2> QED
    BY <2>1, <2>2, GpuFrame
<1>8. ASSUME NEW e \in Engines, GpuFinish(e)
      PROVE  GpuInv'
  <2> SUFFICES ASSUME NEW f \in Engines
               PROVE  StillMet(f)
    BY DEF GpuInv, StillMet
  <2>1. gpu' = [gpu EXCEPT ![e] = None] /\ UNCHANGED render
    BY <1>8 DEF GpuFinish
  <2>2. CASE f = e
    BY <2>1, <2>2 DEF TypeInv, StillMet
  <2>3. CASE f # e
    <3>1. gpu'[f] = gpu[f]
      BY <2>1, <2>3 DEF TypeInv
    <3> QED
      BY <2>1, <3>1, GpuFrame DEF render, Works, Kept
  <2> QED
    BY <2>2, <2>3
<1>9. CASE UNCHANGED vars
  BY <1>1, <1>9 DEF vars
<1> QED
  BY <1>2, <1>3, <1>4, <1>5, <1>6, <1>7, <1>8, <1>9 DEF Next, Rendering

-----------------------------------------------------------------------------
(* The aperture. *)

TableType(tables) ==
  tables = [c \in Clients |-> [e \in Engines |-> [a \in GttPages |-> tables[c][e][a]]]]

ApertureType ==
  /\ state \in [Clients -> {"closed", "open", "quarantined"}]
  /\ nextHandle \in [Clients -> 0 .. HandleModulus - 1]
  /\ faultedIn \in [Clients -> SUBSET Engines]
  /\ gtt = [a \in GttPages |-> gtt[a]]
  /\ TableType(table)

\* The handles of a client are apart, and the next one is new.
HandleInv(c) ==
  /\ \A s, o \in Slots :
       s # o /\ buffers[c][s].handle # 0 => buffers[c][s].handle # buffers[c][o].handle
  /\ nextHandle[c] # 0 => \A s \in Slots : buffers[c][s].handle < nextHandle[c]
  /\ state[c] = "closed" =>
       engines[c] = {} /\ contexts[c] = {} /\ \A s \in Slots : buffers[c][s].handle = 0

\* Slot s of client c has the page a of the aperture.
BoundAt(c, s, a) ==
  /\ buffers[c][s].handle # 0 /\ buffers[c][s].address # None
  /\ a \in Run(buffers[c][s].address, buffers[c][s].size)

Placed(c, s, a) == Page(c, buffers[c][s].handle, a - buffers[c][s].address)

ContextPage(x) ==
  \E c \in Clients : \/ \E e \in engines[c] : x = LegacyContext(c, e)
                     \/ \E i \in contexts[c] : x = NativeContext(c, i)

\* A bound buffer is where it is bound, in the global GTT and in the page tables of
\* the engines that may be used; the rest of the GTT is contexts and scratch.
GttInv ==
  \A c \in Clients, s \in Slots, a \in Int :
    BoundAt(c, s, a) => a \in GttPages /\ gtt[a] = Placed(c, s, a)

RestInv ==
  \A a \in GttPages :
    \/ gtt[a] = Scratch \/ ContextPage(gtt[a])
    \/ \E c \in Clients, s \in Slots : BoundAt(c, s, a)

TableInv ==
  \A c \in Clients, s \in Slots, a \in Int :
    BoundAt(c, s, a) => \A e \in Ready(c) : table[c][e][a] = Placed(c, s, a)

ApertureInv == ApertureType /\ (\A c \in Clients : HandleInv(c)) /\ GttInv /\ RestInv /\ TableInv

\* The pages of memory have different names.
LEMMA NamesDiffer ==
  ASSUME NEW c, NEW h, NEW i, NEW d, NEW k, NEW j
  PROVE  /\ Page(c, h, i) = Page(d, k, j) => c = d /\ h = k /\ i = j
         /\ Page(c, h, i) # Scratch /\ Page(c, h, i) # LegacyContext(d, k)
         /\ Page(c, h, i) # NativeContext(d, k)
         /\ Page(c, h, i)[1] = c /\ LegacyContext(d, k)[1] = d /\ NativeContext(d, k)[1] = d
         /\ LegacyContext(d, k) # Scratch /\ NativeContext(d, k) # Scratch
BY DEF Page, Scratch, LegacyContext, NativeContext

\* No page is bound twice.
LEMMA BoundOnce ==
  ASSUME ApertureInv, NEW c \in Clients, NEW s \in Slots, NEW a \in Int, BoundAt(c, s, a),
         NEW d \in Clients, NEW o \in Slots, BoundAt(d, o, a)
  PROVE  c = d /\ s = o
<1>1. Placed(c, s, a) = Placed(d, o, a)
  BY DEF ApertureInv, GttInv
<1>2. c = d /\ buffers[c][s].handle = buffers[d][o].handle
  BY <1>1, NamesDiffer DEF Placed
<1> QED
  BY <1>2 DEF ApertureInv, HandleInv, BoundAt

\* Nothing is bound where the aperture is free.
LEMMA FreeIsUnbound ==
  ASSUME GttInv, NEW a \in FreePages, NEW c \in Clients, NEW s \in Slots
  PROVE  ~BoundAt(c, s, a)
<1>1. a \in GttPages /\ gtt[a] = Scratch /\ GttPages \subseteq Int
  BY DEF FreePages, GttPages
<1> QED
  BY <1>1, NamesDiffer DEF GttInv, Placed

\* A step that binds nothing leaves what is still bound in its place.
LEMMA PlacesStep ==
  ASSUME ApertureInv,
         \A c \in Clients, s \in Slots, a \in Int : BoundAt(c, s, a)' =>
           /\ BoundAt(c, s, a) /\ Placed(c, s, a)' = Placed(c, s, a)
           /\ gtt'[a] = gtt[a]
           /\ \A e \in Ready(c)' : e \in Ready(c) /\ table'[c][e][a] = table[c][e][a]
  PROVE  GttInv' /\ TableInv'
<1> SUFFICES ASSUME NEW c \in Clients, NEW s \in Slots, NEW a \in Int, BoundAt(c, s, a)'
             PROVE  /\ a \in GttPages /\ gtt'[a] = Placed(c, s, a)'
                    /\ \A e \in Ready(c)' : table'[c][e][a] = Placed(c, s, a)'
  BY DEF GttInv, TableInv
<1>1. /\ BoundAt(c, s, a) /\ Placed(c, s, a)' = Placed(c, s, a) /\ gtt'[a] = gtt[a]
      /\ \A e \in Ready(c)' : e \in Ready(c) /\ table'[c][e][a] = table[c][e][a]
  OBVIOUS
<1>2. a \in GttPages /\ gtt[a] = Placed(c, s, a)
  BY <1>1 DEF ApertureInv, GttInv
<1>3. \A e \in Ready(c) : table[c][e][a] = Placed(c, s, a)
  BY <1>1 DEF ApertureInv, TableInv
<1> QED
  BY <1>1, <1>2, <1>3

\* The tables of an engine, after one client's are written.
LEMMA TablesWritten ==
  ASSUME TableType(table), NEW c \in Clients, NEW new,
         table' = [table EXCEPT ![c] = new],
         new = [e \in Engines |-> [a \in GttPages |-> new[e][a]]]
  PROVE  /\ TableType(table') /\ table'[c] = new
         /\ \A d \in Clients \ {c} : table'[d] = table[d]
<1>1. DOMAIN table = Clients
  BY DEF TableType
<1>2. table'[c] = new /\ \A d \in Clients \ {c} : table'[d] = table[d]
  BY <1>1
<1>3. \A d \in Clients : table'[d] = [e \in Engines |-> [a \in GttPages |-> table'[d][e][a]]]
  <2> SUFFICES ASSUME NEW d \in Clients
               PROVE  table'[d] = [e \in Engines |-> [a \in GttPages |-> table'[d][e][a]]]
    OBVIOUS
  <2>1. CASE d = c
    BY <1>2, <2>1
  <2>2. CASE d # c
    <3>1. table'[d] = table[d]
      BY <1>2, <2>2
    <3> QED
      BY <3>1 DEF TableType
  <2> QED
    BY <2>1, <2>2
<1>4. table' = [d \in Clients |-> table'[d]]
  BY <1>1
<1>5. TableType(table')
  BY <1>3, <1>4 DEF TableType
<1> QED
  BY <1>2, <1>5

LEMMA TableIs ==
  ASSUME TableType(table), NEW c \in Clients, NEW e \in Engines
  PROVE  /\ DOMAIN table[c][e] = GttPages
         /\ table[c][e] = [a \in GttPages |-> table[c][e][a]]
BY DEF TableType

LEMMA TablesUnmapped ==
  ASSUME TableType(table), NEW c \in Clients, NEW b,
         table' = [table EXCEPT ![c] = TablesWithout(c, b)]
  PROVE  /\ TableType(table')
         /\ \A d \in Clients \ {c} : table'[d] = table[d]
         /\ \A e \in Engines, a \in GttPages :
              a \notin Run(b.address, b.size) => table'[c][e][a] = table[c][e][a]
<1> DEFINE new == TablesWithout(c, b)
<1>1. \A e \in Engines :
        /\ new[e] = [a \in GttPages |-> new[e][a]]
        /\ \A a \in GttPages :
             a \notin Run(b.address, b.size) => new[e][a] = table[c][e][a]
  <2> SUFFICES ASSUME NEW e \in Engines
               PROVE  /\ new[e] = [a \in GttPages |-> new[e][a]]
                      /\ \A a \in GttPages :
                           a \notin Run(b.address, b.size) => new[e][a] = table[c][e][a]
    OBVIOUS
  <2>1. CASE e \in Ready(c)
    BY <2>1, TableIs DEF TablesWithout, Unmapped
  <2>2. CASE e \notin Ready(c)
    BY <2>2, TableIs DEF TablesWithout
  <2> QED
    BY <2>1, <2>2
<1>2. new = [e \in Engines |-> new[e]]
  BY DEF TablesWithout
<1> HIDE DEF new
<1>3. new = [e \in Engines |-> [a \in GttPages |-> new[e][a]]]
  BY <1>1, <1>2
<1>4. table' = [table EXCEPT ![c] = new]
  BY DEF new
<1>5. /\ TableType(table') /\ table'[c] = new
      /\ \A d \in Clients \ {c} : table'[d] = table[d]
  BY <1>3, <1>4, TablesWritten
<1> QED
  BY <1>1, <1>5

\* The page tables of a client take the buffer of a slot.
Mapping(c, s, address, last, count) ==
  table' = [table EXCEPT ![c] = TablesUpTo(c, buffers[c][s], address, last, count)]

LEMMA TablesMapped ==
  ASSUME TypeInv, TableType(table), NEW c \in Clients, NEW s \in Slots,
         NEW address \in Nat, NEW last \in Nat, NEW count \in Nat,
         count <= buffers[c][s].size, Mapping(c, s, address, last, count)
  PROVE  /\ TableType(table')
         /\ \A d \in Clients \ {c} : table'[d] = table[d]
         /\ \A e \in Engines, a \in GttPages :
              /\ a \notin Run(address, buffers[c][s].size) => table'[c][e][a] = table[c][e][a]
              /\ a \in Run(address, buffers[c][s].size) /\ e \in Ready(c) /\ e < last =>
                   table'[c][e][a] = Page(c, buffers[c][s].handle, a - address)
<1> DEFINE b == buffers[c][s]
<1>6. b.size \in Nat
  BY DEF TypeInv, Buffer
<1>7. /\ count <= b.size
      /\ table' = [table EXCEPT ![c] = TablesUpTo(c, b, address, last, count)]
  BY DEF Mapping
<1> HIDE DEF b
<1> DEFINE new == TablesUpTo(c, b, address, last, count)
<1>1. \A e \in Engines :
        /\ new[e] = [a \in GttPages |-> new[e][a]]
        /\ \A a \in GttPages :
             /\ a \notin Run(address, b.size) => new[e][a] = table[c][e][a]
             /\ a \in Run(address, b.size) /\ e \in Ready(c) /\ e < last =>
                  new[e][a] = Page(c, b.handle, a - address)
  <2> SUFFICES ASSUME NEW e \in Engines
               PROVE  /\ new[e] = [a \in GttPages |-> new[e][a]]
                      /\ \A a \in GttPages :
                           /\ a \notin Run(address, b.size) => new[e][a] = table[c][e][a]
                           /\ a \in Run(address, b.size) /\ e \in Ready(c) /\ e < last =>
                                new[e][a] = Page(c, b.handle, a - address)
    OBVIOUS
  <2>1. CASE e \in Ready(c) /\ ~(e > last)
    <3> DEFINE n == IF e = last THEN count ELSE b.size
    <3>1. new[e] = [a \in GttPages |->
                      IF a \in Run(address, n) THEN Page(c, b.handle, a - address)
                      ELSE table[c][e][a]]
      BY <2>1, TableIs DEF TablesUpTo, Mapped
    <3>2. Run(address, n) \subseteq Run(address, b.size)
      BY <1>6, <1>7 DEF Run
    <3>3. e \in Nat
      BY ClientAssumption
    <3>4. e < last => n = b.size
      BY <3>3
    <3> HIDE DEF n, new
    <3> QED
      BY <3>1, <3>2, <3>4
  <2>2. CASE e \notin Ready(c) \/ e > last
    <3>1. new[e] = table[c][e]
      BY <2>2 DEF TablesUpTo
    <3>2. e \in Nat
      BY ClientAssumption
    <3>3. ~(e \in Ready(c) /\ e < last)
      BY <2>2, <3>2
    <3> HIDE DEF new
    <3> QED
      BY <3>1, <3>3, TableIs
  <2> QED
    BY <2>1, <2>2
<1>2. new = [e \in Engines |-> new[e]]
  BY DEF TablesUpTo
<1> HIDE DEF new
<1>3. new = [e \in Engines |-> [a \in GttPages |-> new[e][a]]]
  BY <1>1, <1>2
<1>4. table' = [table EXCEPT ![c] = new]
  BY <1>7 DEF new
<1>5. /\ TableType(table') /\ table'[c] = new
      /\ \A d \in Clients \ {c} : table'[d] = table[d]
  BY <1>3, <1>4, TablesWritten
<1> QED
  BY <1>1, <1>5 DEF b

LEMMA HandleAdvances ==
  ASSUME NEW h \in 0 .. HandleModulus - 1
  PROVE  (h + 1) % HandleModulus = IF h + 1 = HandleModulus THEN 0 ELSE h + 1
<1>1. HandleModulus \in Nat /\ HandleModulus > 1 /\ h \in Nat /\ h + 1 <= HandleModulus
  BY ClientAssumption
<1> QED
  BY <1>1

LEMMA ApertureTypeStep ==
  ASSUME ApertureType, TypeInv, [Next]_vars
  PROVE  ApertureType'
<1>1. ASSUME UNCHANGED <<nextHandle, gtt, table>>,
             state' \in [Clients -> {"closed", "open", "quarantined"}],
             faultedIn' \in [Clients -> SUBSET Engines]
      PROVE  ApertureType'
  BY <1>1 DEF ApertureType
<1>2. ASSUME NEW c \in Clients, Open(c)
      PROVE  ApertureType'
  <2>1. /\ state' = [state EXCEPT ![c] = "open"] /\ nextHandle' = [nextHandle EXCEPT ![c] = 1]
        /\ faultedIn' = faultedIn /\ table' = table
    BY <1>2 DEF Open, render
  <2>2. gtt' = [a \in GttPages |-> gtt'[a]]
    BY <1>2 DEF Open
  <2>3. 1 \in 0 .. HandleModulus - 1
    BY ClientAssumption
  <2> QED
    BY <2>1, <2>2, <2>3 DEF ApertureType
<1>3. ASSUME NEW c \in Clients, Close(c)
      PROVE  ApertureType'
  <2>1. CASE Quarantined(c)
    BY <1>1, <1>3, <2>1 DEF Close, ApertureType, render, memory
  <2>2. CASE ~Quarantined(c)
    <3>1. /\ state' = [state EXCEPT ![c] = "closed"] /\ nextHandle' = nextHandle
          /\ faultedIn' = faultedIn /\ gtt' = [a \in GttPages |-> gtt'[a]]
      BY <1>3, <2>2 DEF Close
    <3>2. table' = [table EXCEPT ![c] = [e \in Engines |-> [a \in GttPages |-> Scratch]]]
      BY <1>3, <2>2 DEF Close
    <3>3. TableType(table')
      <4> DEFINE new == [e \in Engines |-> [a \in GttPages |-> Scratch]]
      <4>1. new = [e \in Engines |-> [a \in GttPages |-> new[e][a]]]
        OBVIOUS
      <4> HIDE DEF new
      <4>2. table' = [table EXCEPT ![c] = new]
        BY <3>2 DEF new
      <4> QED
        BY <4>1, <4>2, TablesWritten DEF ApertureType
    <3> QED
      BY <3>1, <3>3 DEF ApertureType
  <2> QED
    BY <2>1, <2>2
<1>4. ASSUME NEW c \in Clients, NEW size \in Sizes, CreateBuffer(c, size)
      PROVE  ApertureType'
  <2>1. /\ UNCHANGED <<state, faultedIn, gtt, table>>
        /\ nextHandle' = [nextHandle EXCEPT ![c] = (nextHandle[c] + 1) % HandleModulus]
    BY <1>4 DEF CreateBuffer, render, memory, ApertureType
  <2>2. (nextHandle[c] + 1) % HandleModulus \in 0 .. HandleModulus - 1
    <3>1. nextHandle[c] \in 0 .. HandleModulus - 1
      BY DEF ApertureType
    <3> QED
      BY <3>1, HandleAdvances, ClientAssumption
  <2> QED
    BY <2>1, <2>2 DEF ApertureType
<1>5. ASSUME NEW c \in Clients, NEW s \in Slots, CloseBuffer(c, s)
      PROVE  ApertureType'
  <2>1. /\ UNCHANGED <<state, nextHandle, faultedIn>>
        /\ gtt' = [a \in GttPages |-> gtt'[a]]
    BY <1>5 DEF CloseBuffer, GttUnbound, Unmapped, render, ApertureType
  <2>2. TableType(table')
    BY <1>5, TablesUnmapped DEF CloseBuffer, ApertureType
  <2> QED
    BY <2>1, <2>2 DEF ApertureType
<1>6. ASSUME NEW c \in Clients, NEW s \in Slots, UnbindBuffer(c, s)
      PROVE  ApertureType'
  <2>1. /\ UNCHANGED <<state, nextHandle, faultedIn>>
        /\ gtt' = [a \in GttPages |-> gtt'[a]]
    BY <1>6 DEF UnbindBuffer, Unbind, GttUnbound, Unmapped, render, ApertureType
  <2>2. TableType(table')
    BY <1>6, TablesUnmapped DEF UnbindBuffer, ApertureType
  <2> QED
    BY <2>1, <2>2 DEF ApertureType
<1>7. ASSUME NEW c \in Clients, NEW s \in Slots, BindBuffer(c, s) \/ BindBufferFails(c, s)
      PROVE  ApertureType'
  <2>1. /\ UNCHANGED <<state, nextHandle, faultedIn>>
        /\ gtt' = [a \in GttPages |-> gtt'[a]]
    BY <1>7 DEF BindBuffer, BindBufferFails, Bind, GttBound, Mapped, files, render, ApertureType
  <2>2. buffers[c][s].size \in Nat
    BY DEF TypeInv, Buffer
  <2>3. ASSUME NEW address \in FirstFit(buffers[c][s].size), NEW last \in Ready(c) \cup {2},
               NEW count \in 0 .. buffers[c][s].size, Mapping(c, s, address, last, count)
        PROVE  TableType(table')
    <3>1. address \in Nat
      BY DEF FirstFit, GttPages
    <3>2. last \in Nat
      <4>1. \A e \in Ready(c) : e \in Engines
        BY DEF Ready, TypeInv
      <4>2. \A e \in Engines : e \in {0, 1}
        BY ClientAssumption
      <4>3. last \in {0, 1, 2}
        BY <4>1, <4>2
      <4> QED
        BY <4>3
    <3>3. count \in Nat /\ count <= buffers[c][s].size
      BY <2>2
    <3> QED
      BY <2>2, <2>3, <3>1, <3>2, <3>3, TablesMapped DEF ApertureType
  <2>4. TableType(table')
    <3>1. CASE BindBuffer(c, s)
      <4>1. PICK address \in FirstFit(buffers[c][s].size) :
              Mapping(c, s, address, 2, 0)
        BY <3>1 DEF BindBuffer, Mapping
      <4>2. 0 \in 0 .. buffers[c][s].size /\ 2 \in Ready(c) \cup {2}
        BY <2>2
      <4> QED
        BY <2>3, <4>1, <4>2
    <3>2. CASE BindBufferFails(c, s)
      <4>1. PICK address \in FirstFit(buffers[c][s].size), last \in Ready(c) \cup {2},
                 count \in 0 .. buffers[c][s].size - 1 :
              Mapping(c, s, address, last, count)
        BY <3>2 DEF BindBufferFails, Mapping
      <4>2. count \in 0 .. buffers[c][s].size
        BY <2>2
      <4> QED
        BY <2>3, <4>1, <4>2
    <3> QED
      BY <1>7, <3>1, <3>2
  <2> QED
    BY <2>1, <2>4 DEF ApertureType
<1>8. ASSUME NEW c \in Clients,
             CreateContext(c) \/ \E i \in ContextSlots : DestroyContext(c, i)
      PROVE  ApertureType'
  BY <1>8 DEF CreateContext, DestroyContext, ApertureType, files
<1>9. ASSUME NEW c \in Clients,
             \/ SubmitDone(c)
             \/ \E s \in Slots :
                  \/ UnbindVirtual(c, s)
                  \/ \E address \in VirtualPages :
                       BindVirtual(c, s, address) \/ BindVirtualFails(c, s, address)
             \/ \E i \in ContextSlots : \E objects \in SUBSET Slots : \E batch \in objects :
                  SubmitObjects(c, i, objects, batch)
             \/ \E e \in Engines : \E s \in Slots : SubmitBatch(c, e, s)
      PROVE  ApertureType'
  <2>1. UNCHANGED <<state, nextHandle, faultedIn, gtt, table>>
    BY <1>9 DEF SubmitDone, UnbindVirtual, BindVirtual, BindVirtualFails, SubmitObjects,
                SubmitBatch, files, render, memory
  <2> QED
    BY <2>1 DEF ApertureType
<1>10. ASSUME NEW c \in Clients, SubmitTimeout(c)
       PROVE  ApertureType'
  <2>1. waiting[c].engine \in Engines
    BY <1>10 DEF SubmitTimeout, TypeInv
  <2>2. /\ UNCHANGED <<state, nextHandle, gtt, table>>
        /\ \/ faultedIn' = [faultedIn EXCEPT ![c] = @]
           \/ faultedIn' = [faultedIn EXCEPT ![c] = @ \cup {waiting[c].engine}]
    BY <1>10 DEF SubmitTimeout, files, memory
  <2> QED
    BY <2>1, <2>2 DEF ApertureType
<1>11. CASE UNCHANGED vars \/ \E e \in Engines : GpuFinish(e)
  <2>1. UNCHANGED <<state, nextHandle, faultedIn, gtt, table>>
    BY <1>11 DEF GpuFinish, vars, files, render, memory
  <2> QED
    BY <2>1 DEF ApertureType
<1> QED
  BY <1>2, <1>3, <1>4, <1>5, <1>6, <1>7, <1>8, <1>9, <1>10, <1>11
     DEF Next, Buffering, Rendering

LEMMA HandleStep ==
  ASSUME ApertureType, TypeInv, \A c \in Clients : HandleInv(c), [Next]_vars
  PROVE  \A c \in Clients : HandleInv(c)'
<1> SUFFICES ASSUME NEW d \in Clients
             PROVE  HandleInv(d)'
  OBVIOUS
<1> USE DEF HandleInv
<1>1. ASSUME \A s \in Slots : buffers'[d][s].handle = buffers[d][s].handle,
             nextHandle'[d] = nextHandle[d],
             \/ state'[d] # "closed"
             \/ state'[d] = state[d] /\ engines'[d] = engines[d] /\ contexts'[d] = contexts[d]
      PROVE  HandleInv(d)'
  BY <1>1
<1>2. ASSUME NEW c \in Clients, Open(c)
      PROVE  HandleInv(d)'
  <2>1. /\ state' = [state EXCEPT ![c] = "open"] /\ nextHandle' = [nextHandle EXCEPT ![c] = 1]
        /\ buffers' = buffers /\ contexts' = contexts /\ state[c] = "closed"
        /\ \A e \in Clients \ {c} : engines'[e] = engines[e]
    BY <1>2 DEF Open, render, TypeInv
  <2>2. CASE d = c
    BY <2>1, <2>2 DEF ApertureType, TypeInv
  <2>3. CASE d # c
    BY <1>1, <2>1, <2>3 DEF ApertureType, TypeInv
  <2> QED
    BY <2>2, <2>3
<1>3. ASSUME NEW c \in Clients, Close(c)
      PROVE  HandleInv(d)'
  <2>1. CASE Quarantined(c)
    BY <1>1, <1>3, <2>1 DEF Close, render, ApertureType
  <2>2. CASE ~Quarantined(c)
    <3>1. /\ state' = [state EXCEPT ![c] = "closed"] /\ nextHandle' = nextHandle
          /\ buffers' = [buffers EXCEPT ![c] = [s \in Slots |-> NoBuffer]]
          /\ engines' = [engines EXCEPT ![c] = {}] /\ contexts' = [contexts EXCEPT ![c] = {}]
      BY <1>3, <2>2 DEF Close
    <3>2. CASE d = c
      <4>1. \A s \in Slots : buffers'[d][s].handle = 0
        BY <3>1, <3>2 DEF TypeInv, NoBuffer
      <4>2. engines'[d] = {} /\ contexts'[d] = {} /\ nextHandle'[d] \in Nat
        BY <3>1, <3>2 DEF TypeInv
      <4> QED
        BY <4>1, <4>2
    <3>3. CASE d # c
      BY <1>1, <3>1, <3>3 DEF TypeInv, ApertureType
    <3> QED
      BY <3>2, <3>3
  <2> QED
    BY <2>1, <2>2
<1>4. ASSUME NEW c \in Clients, NEW size \in Sizes, CreateBuffer(c, size)
      PROVE  HandleInv(d)'
  <2>1. /\ state' = state /\ engines' = engines /\ contexts' = contexts
        /\ nextHandle' = [nextHandle EXCEPT ![c] = (nextHandle[c] + 1) % HandleModulus]
        /\ nextHandle[c] # 0 /\ state[c] = "open"
    BY <1>4 DEF CreateBuffer, render, HandlesExhausted, Locked, TypeInv
  <2>2. PICK s \in Slots \ Used(c) :
             \/ buffers' = [buffers EXCEPT ![c][s] = NewBuffer(nextHandle[c], size)]
             \/ buffers' = buffers
    BY <1>4 DEF CreateBuffer
  <2>3. CASE d # c
    BY <1>1, <2>1, <2>2, <2>3 DEF TypeInv
  <2>4. CASE d = c
    <3>1. nextHandle[d] \in 1 .. HandleModulus - 1
      BY <2>1, <2>4 DEF ApertureType
    <3>2. nextHandle'[d] = 0 \/ nextHandle'[d] = nextHandle[d] + 1
      BY <2>1, <2>4, <3>1, HandleAdvances DEF TypeInv
    <3>3. \A o \in Slots : /\ buffers[d][o].handle \in Nat
                           /\ buffers[d][o].handle < nextHandle[d]
      BY <2>1, <2>4 DEF TypeInv, Buffer
    <3>4. /\ \A o \in Slots \ {s} : buffers'[d][o] = buffers[d][o]
          /\ \/ buffers'[d][s].handle = nextHandle[d]
             \/ buffers'[d][s].handle = buffers[d][s].handle
      BY <2>2, <2>4 DEF TypeInv, NewBuffer
    <3>5. nextHandle'[d] # 0 => \A o \in Slots : buffers'[d][o].handle < nextHandle'[d]
      BY <3>1, <3>2, <3>3, <3>4
    <3>6. \A o, p \in Slots :
            o # p /\ buffers'[d][o].handle # 0 => buffers'[d][o].handle # buffers'[d][p].handle
      BY <3>1, <3>3, <3>4
    <3> QED
      BY <2>1, <2>4, <3>5, <3>6
  <2> QED
    BY <2>3, <2>4
<1>5. ASSUME NEW c \in Clients, NEW s \in Slots, CloseBuffer(c, s)
      PROVE  HandleInv(d)'
  <2>1. /\ UNCHANGED <<state, nextHandle, engines, contexts>>
        /\ buffers' = [buffers EXCEPT ![c][s] = NoBuffer]
    BY <1>5 DEF CloseBuffer, render
  <2>2. CASE d # c
    BY <1>1, <2>1, <2>2 DEF TypeInv
  <2>3. CASE d = c
    <3>1. /\ \A o \in Slots \ {s} : buffers'[d][o] = buffers[d][o]
          /\ buffers'[d][s].handle = 0
      BY <2>1, <2>3 DEF TypeInv, NoBuffer
    <3>2. nextHandle[d] \in Nat
      BY DEF TypeInv
    <3> QED
      BY <2>1, <3>1, <3>2
  <2> QED
    BY <2>2, <2>3
<1>6. ASSUME NEW c \in Clients, NEW s \in Slots,
             BindBuffer(c, s) \/ BindBufferFails(c, s) \/ UnbindBuffer(c, s)
      PROVE  HandleInv(d)'
  <2>1. UNCHANGED <<state, nextHandle, engines, contexts>>
    BY <1>6 DEF BindBuffer, BindBufferFails, UnbindBuffer, files, render
  <2>2. \A o \in Slots : buffers'[d][o].handle = buffers[d][o].handle
    <3>1. CASE BindBufferFails(c, s)
      BY <3>1 DEF BindBufferFails, files
    <3>2. CASE BindBuffer(c, s) \/ UnbindBuffer(c, s)
      <4>1. PICK address : buffers' = [buffers EXCEPT ![c][s].address = address]
        BY <3>2 DEF BindBuffer, UnbindBuffer, Bind, Unbind
      <4> QED
        BY <4>1 DEF TypeInv, Buffer
    <3> QED
      BY <1>6, <3>1, <3>2
  <2> QED
    BY <1>1, <2>1, <2>2
<1>7. ASSUME NEW c \in Clients,
             CreateContext(c) \/ \E i \in ContextSlots : DestroyContext(c, i)
      PROVE  HandleInv(d)'
  <2>1. /\ UNCHANGED <<state, nextHandle, engines, buffers>> /\ state[c] = "open"
        /\ \A e \in Clients \ {c} : contexts'[e] = contexts[e]
    BY <1>7 DEF CreateContext, DestroyContext, files, Locked, TypeInv
  <2> QED
    BY <1>1, <2>1
<1>8. ASSUME NEW c \in Clients,
             \/ SubmitDone(c) \/ SubmitTimeout(c)
             \/ \E s \in Slots :
                  \/ UnbindVirtual(c, s)
                  \/ \E address \in VirtualPages :
                       BindVirtual(c, s, address) \/ BindVirtualFails(c, s, address)
             \/ \E i \in ContextSlots : \E objects \in SUBSET Slots : \E batch \in objects :
                  SubmitObjects(c, i, objects, batch)
             \/ \E e \in Engines : \E s \in Slots : SubmitBatch(c, e, s)
      PROVE  HandleInv(d)'
  <2>1. UNCHANGED <<state, nextHandle, engines, contexts, buffers>>
    BY <1>8 DEF SubmitDone, SubmitTimeout, UnbindVirtual, BindVirtual, BindVirtualFails,
                SubmitObjects, SubmitBatch, files, render, memory
  <2> QED
    BY <1>1, <2>1
<1>9. CASE UNCHANGED vars \/ \E e \in Engines : GpuFinish(e)
  <2>1. UNCHANGED <<state, nextHandle, engines, contexts, buffers>>
    BY <1>9 DEF GpuFinish, vars, files, render
  <2> QED
    BY <1>1, <2>1
<1> QED
  BY <1>2, <1>3, <1>4, <1>5, <1>6, <1>7, <1>8, <1>9 DEF Next, Buffering, Rendering

\* What is left of the GTT: contexts that are kept, and buffers that are bound.
LEMMA RestStep ==
  ASSUME NEW a, gtt'[a] = gtt[a],
         ContextPage(gtt[a]),
         \A c \in Clients : /\ \A e \in engines[c] :
                                 gtt[a] = LegacyContext(c, e) => e \in engines'[c]
                            /\ \A i \in contexts[c] :
                                 gtt[a] = NativeContext(c, i) => i \in contexts'[c]
  PROVE  ContextPage(gtt[a])'
<1>1. PICK c \in Clients : \/ \E e \in engines[c] : gtt[a] = LegacyContext(c, e)
                           \/ \E i \in contexts[c] : gtt[a] = NativeContext(c, i)
  BY DEF ContextPage
<1>2. CASE \E e \in engines[c] : gtt[a] = LegacyContext(c, e)
  <2>1. PICK e \in engines[c] : gtt[a] = LegacyContext(c, e)
    BY <1>2
  <2>2. e \in engines'[c] /\ gtt'[a] = LegacyContext(c, e)
    BY <2>1
  <2> QED
    BY <2>2 DEF ContextPage
<1>3. CASE \E i \in contexts[c] : gtt[a] = NativeContext(c, i)
  <2>1. PICK i \in contexts[c] : gtt[a] = NativeContext(c, i)
    BY <1>3
  <2>2. i \in contexts'[c] /\ gtt'[a] = NativeContext(c, i)
    BY <2>1
  <2> QED
    BY <2>2 DEF ContextPage
<1> QED
  BY <1>1, <1>2, <1>3

\* A step that changes no page of the aperture.
LEMMA PlacesFrame ==
  ASSUME ApertureInv, gtt' = gtt, engines' = engines, contexts' = contexts,
         \A c \in Clients, s \in Slots, a \in Int :
           /\ BoundAt(c, s, a)' <=> BoundAt(c, s, a)
           /\ BoundAt(c, s, a) =>
                /\ Placed(c, s, a)' = Placed(c, s, a)
                /\ \A e \in Ready(c)' : e \in Ready(c) /\ table'[c][e][a] = table[c][e][a]
  PROVE  GttInv' /\ RestInv' /\ TableInv'
<1>1. GttInv' /\ TableInv'
  BY PlacesStep
<1>2. ASSUME NEW a \in GttPages
      PROVE  \/ gtt'[a] = Scratch \/ ContextPage(gtt[a])'
             \/ \E c \in Clients, s \in Slots : BoundAt(c, s, a)'
  <2>1. a \in Int
    BY DEF GttPages
  <2>2. CASE gtt[a] = Scratch
    BY <2>2
  <2>3. CASE ContextPage(gtt[a])
    BY <2>3, RestStep
  <2>4. CASE \E c \in Clients, s \in Slots : BoundAt(c, s, a)
    BY <2>1, <2>4
  <2> QED
    BY <2>2, <2>3, <2>4 DEF ApertureInv, RestInv
<1>3. RestInv'
  BY <1>2 DEF RestInv
<1> QED
  BY <1>1, <1>3

\* A step that leaves the buffers, the engines and the memory alone.
LEMMA PlacesIdle ==
  ASSUME ApertureInv, UNCHANGED <<buffers, engines, contexts, gtt, table>>,
         \A c \in Clients : Ready(c)' \subseteq Ready(c)
  PROVE  GttInv' /\ RestInv' /\ TableInv'
BY PlacesFrame DEF BoundAt, Placed

\* A page below the aperture's end that a first fit chose is free.
LEMMA FirstFitIsFree ==
  ASSUME NEW count \in Nat, NEW address \in FirstFit(count)
  PROVE  /\ address \in Nat /\ Run(address, count) \subseteq FreePages
         /\ Run(address, count) \subseteq GttPages
BY DEF FirstFit, FreePages, GttPages

\* The buffer of a slot is unbound, and the slot is free or keeps it.
LEMMA PlacesUnbind ==
  ASSUME ApertureInv, TypeInv, NEW c \in Clients, NEW s \in Slots,
         s \in Used(c), IsBound(c, s),
         gtt' = GttUnbound(buffers[c][s]),
         table' = [table EXCEPT ![c] = TablesWithout(c, buffers[c][s])],
         UNCHANGED <<engines, contexts, faultedIn, scheduler>>,
         buffers'[c][s].handle = 0 \/ buffers'[c][s].address = None,
         \A d \in Clients, o \in Slots : d # c \/ o # s => buffers'[d][o] = buffers[d][o]
  PROVE  GttInv' /\ RestInv' /\ TableInv'
<1> DEFINE there == Run(buffers[c][s].address, buffers[c][s].size)
<1>1. \A a \in GttPages : gtt'[a] = IF a \in there THEN Scratch ELSE gtt[a]
  BY DEF GttUnbound, Unmapped, ApertureInv, ApertureType
<1>2. /\ \A d \in Clients \ {c} : table'[d] = table[d]
      /\ \A e \in Engines, a \in GttPages : a \notin there => table'[c][e][a] = table[c][e][a]
  BY TablesUnmapped DEF ApertureInv, ApertureType
<1>3. \A a \in Int : BoundAt(c, s, a) <=> a \in there
  BY DEF BoundAt, Used, IsBound
<1>4. \A a \in Int : ~BoundAt(c, s, a)'
  BY DEF BoundAt
<1>5. \A d \in Clients : Ready(d)' = Ready(d) /\ Ready(d) \subseteq Engines
  BY DEF Ready, TypeInv
<1> HIDE DEF there
<1>6. ASSUME NEW d \in Clients, NEW o \in Slots, NEW a \in Int, BoundAt(d, o, a)'
      PROVE  /\ BoundAt(d, o, a) /\ Placed(d, o, a)' = Placed(d, o, a)
             /\ gtt'[a] = gtt[a]
             /\ \A e \in Ready(d)' : e \in Ready(d) /\ table'[d][e][a] = table[d][e][a]
  <2>1. d # c \/ o # s
    BY <1>4, <1>6
  <2>2. buffers'[d][o] = buffers[d][o]
    BY <2>1
  <2>3. BoundAt(d, o, a) /\ Placed(d, o, a)' = Placed(d, o, a)
    BY <1>6, <2>2 DEF BoundAt, Placed
  <2>4. a \notin there
    BY <1>3, <2>1, <2>3, BoundOnce
  <2>5. a \in GttPages
    BY <2>3 DEF ApertureInv, GttInv
  <2>6. gtt'[a] = gtt[a]
    BY <1>1, <2>4, <2>5
  <2>7. \A e \in Ready(d) : table'[d][e][a] = table[d][e][a]
    BY <1>2, <1>5, <2>4, <2>5
  <2> QED
    BY <1>5, <2>3, <2>6, <2>7
<1>7. GttInv' /\ TableInv'
  BY <1>6, PlacesStep
<1>8. ASSUME NEW a \in GttPages
      PROVE  \/ gtt'[a] = Scratch \/ ContextPage(gtt[a])'
             \/ \E d \in Clients, o \in Slots : BoundAt(d, o, a)'
  <2>1. a \in Int
    BY DEF GttPages
  <2>2. CASE a \in there
    BY <1>1, <2>2
  <2>3. CASE a \notin there
    <3>1. gtt'[a] = gtt[a]
      BY <1>1, <2>3
    <3>2. CASE gtt[a] = Scratch
      BY <3>1, <3>2
    <3>3. CASE ContextPage(gtt[a])
      BY <3>1, <3>3, RestStep
    <3>4. ASSUME NEW d \in Clients, NEW o \in Slots, BoundAt(d, o, a)
          PROVE  BoundAt(d, o, a)'
      <4>1. d # c \/ o # s
        BY <1>3, <2>1, <2>3, <3>4
      <4>2. buffers'[d][o] = buffers[d][o]
        BY <4>1
      <4> QED
        BY <3>4, <4>2 DEF BoundAt
    <3> QED
      BY <3>2, <3>3, <3>4 DEF ApertureInv, RestInv
  <2> QED
    BY <2>2, <2>3
<1>9. RestInv'
  BY <1>8 DEF RestInv
<1> QED
  BY <1>7, <1>9

\* Opening a file puts the contexts of its engines into free pages.
LEMMA PlacesOpen ==
  ASSUME ApertureInv, TypeInv, NEW c \in Clients, Open(c)
  PROVE  GttInv' /\ RestInv' /\ TableInv'
<1>1. PICK made \in SUBSET (Engines \ scheduler) : \E place \in [made -> FreePages] :
        /\ engines' = [engines EXCEPT ![c] = made]
        /\ gtt' = [a \in GttPages |->
                     IF \E e \in made : place[e] = a
                       THEN LegacyContext(c, CHOOSE e \in made : place[e] = a)
                       ELSE gtt[a]]
  BY DEF Open
<1>2. PICK place \in [made -> FreePages] :
        /\ engines' = [engines EXCEPT ![c] = made]
        /\ gtt' = [a \in GttPages |->
                     IF \E e \in made : place[e] = a
                       THEN LegacyContext(c, CHOOSE e \in made : place[e] = a)
                       ELSE gtt[a]]
  BY <1>1
<1>3. /\ UNCHANGED <<buffers, contexts, faultedIn, scheduler, table>>
      /\ state[c] = "closed"
  BY DEF Open, render
<1>4. /\ \A s \in Slots : buffers[c][s].handle = 0
      /\ engines[c] = {}
  BY <1>3 DEF ApertureInv, HandleInv
<1>5. /\ engines'[c] = made
      /\ \A d \in Clients \ {c} : engines'[d] = engines[d]
  BY <1>2 DEF TypeInv
<1>6. \A d \in Clients, s \in Slots, a \in Int :
        /\ BoundAt(d, s, a)' <=> BoundAt(d, s, a)
        /\ BoundAt(d, s, a) => d # c
        /\ Placed(d, s, a)' = Placed(d, s, a)
  BY <1>3, <1>4 DEF BoundAt, Placed
<1>7. \A d \in Clients \ {c} : Ready(d)' = Ready(d)
  BY <1>3, <1>5 DEF Ready
<1>8. ASSUME NEW d \in Clients, NEW s \in Slots, NEW a \in Int, BoundAt(d, s, a)'
      PROVE  /\ BoundAt(d, s, a) /\ Placed(d, s, a)' = Placed(d, s, a)
             /\ gtt'[a] = gtt[a]
             /\ \A e \in Ready(d)' : e \in Ready(d) /\ table'[d][e][a] = table[d][e][a]
  <2>1. BoundAt(d, s, a) /\ d # c
    BY <1>6, <1>8
  <2>2. a \in GttPages /\ a \notin FreePages
    BY <2>1, FreeIsUnbound DEF ApertureInv, GttInv
  <2>3. gtt'[a] = gtt[a]
    BY <1>2, <2>2
  <2> QED
    BY <1>3, <1>6, <1>7, <2>1, <2>3
<1>9. GttInv' /\ TableInv'
  BY <1>8, PlacesStep
<1>10. ASSUME NEW a \in GttPages
       PROVE  \/ gtt'[a] = Scratch \/ ContextPage(gtt[a])'
              \/ \E d \in Clients, s \in Slots : BoundAt(d, s, a)'
  <2>1. a \in Int
    BY DEF GttPages
  <2>2. CASE \E e \in made : place[e] = a
    <3>1. (CHOOSE e \in made : place[e] = a) \in made
      BY <2>2
    <3>2. gtt'[a] = LegacyContext(c, CHOOSE e \in made : place[e] = a)
      BY <1>2, <2>2
    <3> QED
      BY <1>5, <3>1, <3>2 DEF ContextPage
  <2>3. CASE ~ \E e \in made : place[e] = a
    <3>1. gtt'[a] = gtt[a]
      BY <1>2, <2>3
    <3>2. CASE ContextPage(gtt[a])
      <4>1. \A d \in Clients : engines[d] \subseteq engines'[d] /\ contexts'[d] = contexts[d]
        BY <1>3, <1>4, <1>5
      <4> QED
        BY <3>1, <3>2, <4>1, RestStep
    <3>3. CASE gtt[a] = Scratch
      BY <3>1, <3>3
    <3>4. CASE \E d \in Clients, s \in Slots : BoundAt(d, s, a)
      BY <1>6, <2>1, <3>4
    <3> QED
      BY <3>2, <3>3, <3>4 DEF ApertureInv, RestInv
  <2> QED
    BY <2>2, <2>3
<1>11. RestInv'
  BY <1>10 DEF RestInv
<1> QED
  BY <1>9, <1>11

\* Closing a file takes what it had out of the GTT, or nothing at all.
LEMMA PlacesClose ==
  ASSUME ApertureInv, TypeInv, NEW c \in Clients, Close(c)
  PROVE  GttInv' /\ RestInv' /\ TableInv'
<1>1. CASE Quarantined(c)
  <2>1. /\ UNCHANGED <<buffers, engines, contexts, gtt, table, faultedIn>>
        /\ scheduler' = scheduler
    BY <1>1 DEF Close, render, memory
  <2> QED
    BY <2>1, PlacesIdle DEF Ready
<1>2. CASE ~Quarantined(c)
  <2>1. /\ buffers' = [buffers EXCEPT ![c] = [s \in Slots |-> NoBuffer]]
        /\ engines' = [engines EXCEPT ![c] = {}] /\ contexts' = [contexts EXCEPT ![c] = {}]
        /\ gtt' = [a \in GttPages |-> IF gtt[a][1] = c THEN Scratch ELSE gtt[a]]
        /\ table' = [table EXCEPT ![c] = [e \in Engines |-> [a \in GttPages |-> Scratch]]]
        /\ faultedIn' = faultedIn /\ scheduler' = scheduler
    BY <1>2 DEF Close
  <2>2. \A d \in Clients \ {c} :
          /\ buffers'[d] = buffers[d] /\ engines'[d] = engines[d]
          /\ contexts'[d] = contexts[d] /\ table'[d] = table[d]
    BY <2>1 DEF TypeInv, ApertureInv, ApertureType, TableType
  <2>3. \A s \in Slots, a \in Int : ~BoundAt(c, s, a)'
    BY <2>1 DEF BoundAt, TypeInv, NoBuffer
  <2>4. ASSUME NEW d \in Clients, NEW s \in Slots, NEW a \in Int, d # c
        PROVE  /\ BoundAt(d, s, a)' <=> BoundAt(d, s, a)
               /\ Placed(d, s, a)' = Placed(d, s, a)
               /\ Ready(d)' = Ready(d)
    BY <2>1, <2>2, <2>4 DEF BoundAt, Placed, Ready
  <2>5. ASSUME NEW d \in Clients, NEW s \in Slots, NEW a \in Int, BoundAt(d, s, a)'
        PROVE  /\ BoundAt(d, s, a) /\ Placed(d, s, a)' = Placed(d, s, a)
               /\ gtt'[a] = gtt[a]
               /\ \A e \in Ready(d)' : e \in Ready(d) /\ table'[d][e][a] = table[d][e][a]
    <3>1. d # c
      BY <2>3, <2>5
    <3>2. BoundAt(d, s, a)
      BY <2>4, <2>5, <3>1
    <3>3. a \in GttPages /\ gtt[a] = Placed(d, s, a)
      BY <3>2 DEF ApertureInv, GttInv
    <3>4. gtt[a][1] = d
      BY <3>3, NamesDiffer DEF Placed
    <3>5. gtt'[a] = gtt[a]
      BY <2>1, <3>1, <3>3, <3>4
    <3> QED
      BY <2>2, <2>4, <3>1, <3>2, <3>5
  <2>6. GttInv' /\ TableInv'
    BY <2>5, PlacesStep
  <2>7. ASSUME NEW a \in GttPages
        PROVE  \/ gtt'[a] = Scratch \/ ContextPage(gtt[a])'
               \/ \E d \in Clients, s \in Slots : BoundAt(d, s, a)'
    <3>1. a \in Int
      BY DEF GttPages
    <3>2. CASE gtt[a][1] = c
      BY <2>1, <3>2
    <3>3. CASE gtt[a][1] # c
      <4>1. gtt'[a] = gtt[a]
        BY <2>1, <3>3
      <4>2. CASE gtt[a] = Scratch
        BY <4>1, <4>2
      <4>3. CASE ContextPage(gtt[a])
        <5>1. \A d \in Clients : /\ \A e \in engines[d] :
                                      gtt[a] = LegacyContext(d, e) => e \in engines'[d]
                                 /\ \A i \in contexts[d] :
                                      gtt[a] = NativeContext(d, i) => i \in contexts'[d]
          BY <2>2, <3>3, NamesDiffer
        <5> QED
          BY <4>1, <4>3, <5>1, RestStep
      <4>4. CASE \E d \in Clients, s \in Slots : BoundAt(d, s, a)
        <5>1. PICK d \in Clients, s \in Slots : BoundAt(d, s, a)
          BY <4>4
        <5>2. gtt[a] = Placed(d, s, a)
          BY <3>1, <5>1 DEF ApertureInv, GttInv
        <5>3. d # c
          BY <3>3, <5>2, NamesDiffer DEF Placed
        <5> QED
          BY <2>4, <3>1, <5>1, <5>3
      <4> QED
        BY <4>2, <4>3, <4>4 DEF ApertureInv, RestInv
    <3> QED
      BY <3>2, <3>3
  <2>8. RestInv'
    BY <2>7 DEF RestInv
  <2> QED
    BY <2>6, <2>8
<1> QED
  BY <1>1, <1>2

\* A new buffer is bound nowhere.
LEMMA PlacesCreate ==
  ASSUME ApertureInv, TypeInv, NEW c \in Clients, NEW size \in Sizes, CreateBuffer(c, size)
  PROVE  GttInv' /\ RestInv' /\ TableInv'
<1>1. UNCHANGED <<engines, contexts, gtt, table, faultedIn, scheduler>>
  BY DEF CreateBuffer, render, memory
<1>2. PICK s \in Slots \ Used(c) :
        \/ buffers' = [buffers EXCEPT ![c][s] = NewBuffer(nextHandle[c], size)]
        \/ buffers' = buffers
  BY DEF CreateBuffer
<1>3. /\ buffers[c][s].handle = 0
      /\ buffers' # buffers => buffers'[c][s].address = None
      /\ \A d \in Clients, o \in Slots : d # c \/ o # s => buffers'[d][o] = buffers[d][o]
  BY <1>2 DEF Used, NewBuffer, TypeInv
<1>4. ASSUME NEW d \in Clients, NEW o \in Slots, NEW a \in Int
      PROVE  /\ BoundAt(d, o, a)' <=> BoundAt(d, o, a)
             /\ BoundAt(d, o, a) => Placed(d, o, a)' = Placed(d, o, a)
  <2>1. CASE buffers' = buffers \/ d # c \/ o # s
    BY <1>3, <2>1 DEF BoundAt, Placed
  <2>2. CASE buffers' # buffers /\ d = c /\ o = s
    BY <1>3, <2>2 DEF BoundAt
  <2> QED
    BY <2>1, <2>2
<1>5. \A d \in Clients : Ready(d)' = Ready(d)
  BY <1>1 DEF Ready
<1> QED
  BY <1>1, <1>4, <1>5, PlacesFrame

\* A context comes into a free page.
LEMMA PlacesCreateContext ==
  ASSUME ApertureInv, TypeInv, NEW c \in Clients, CreateContext(c)
  PROVE  GttInv' /\ RestInv' /\ TableInv'
<1>1. UNCHANGED <<buffers, engines, table, faultedIn, scheduler>>
  BY DEF CreateContext, files
<1>2. PICK i \in ContextSlots, address \in FirstFit(1) :
        /\ contexts' = [contexts EXCEPT ![c] = @ \cup {i}]
        /\ gtt' = [gtt EXCEPT ![address] = NativeContext(c, i)]
  BY DEF CreateContext
<1>3. address \in FreePages /\ address \in GttPages
  <2>1. address \in Nat /\ Run(address, 1) \subseteq FreePages
    BY FirstFitIsFree
  <2> QED
    BY <2>1 DEF Run, FreePages
<1>4. /\ gtt'[address] = NativeContext(c, i)
      /\ \A a \in GttPages \ {address} : gtt'[a] = gtt[a]
  BY <1>2, <1>3 DEF ApertureInv, ApertureType
<1>5. /\ i \in contexts'[c]
      /\ \A d \in Clients : contexts[d] \subseteq contexts'[d]
  BY <1>2 DEF TypeInv
<1>6. \A d \in Clients, s \in Slots, a \in Int :
        /\ BoundAt(d, s, a)' <=> BoundAt(d, s, a)
        /\ Placed(d, s, a)' = Placed(d, s, a) /\ Ready(d)' = Ready(d)
  BY <1>1 DEF BoundAt, Placed, Ready
<1>7. ASSUME NEW d \in Clients, NEW s \in Slots, NEW a \in Int, BoundAt(d, s, a)
      PROVE  gtt'[a] = gtt[a]
  <2>1. a \in GttPages
    BY <1>7 DEF ApertureInv, GttInv
  <2>2. a # address
    BY <1>3, <1>7, FreeIsUnbound DEF ApertureInv
  <2> QED
    BY <1>4, <2>1, <2>2
<1>8. GttInv' /\ TableInv'
  BY <1>1, <1>6, <1>7, PlacesStep
<1>9. ASSUME NEW a \in GttPages
      PROVE  \/ gtt'[a] = Scratch \/ ContextPage(gtt[a])'
             \/ \E d \in Clients, s \in Slots : BoundAt(d, s, a)'
  <2>1. a \in Int
    BY DEF GttPages
  <2>2. CASE a = address
    BY <1>4, <1>5, <2>2 DEF ContextPage
  <2>3. CASE a # address
    <3>1. gtt'[a] = gtt[a]
      BY <1>4, <2>3
    <3>2. CASE ContextPage(gtt[a])
      BY <1>1, <1>5, <3>1, <3>2, RestStep
    <3>3. CASE gtt[a] = Scratch
      BY <3>1, <3>3
    <3>4. CASE \E d \in Clients, s \in Slots : BoundAt(d, s, a)
      BY <1>6, <2>1, <3>4
    <3> QED
      BY <3>2, <3>3, <3>4 DEF ApertureInv, RestInv
  <2> QED
    BY <2>2, <2>3
<1>10. RestInv'
  BY <1>9 DEF RestInv
<1> QED
  BY <1>8, <1>10

\* A context goes, and its page with it.
LEMMA PlacesDestroyContext ==
  ASSUME ApertureInv, TypeInv, NEW c \in Clients, NEW i \in ContextSlots, DestroyContext(c, i)
  PROVE  GttInv' /\ RestInv' /\ TableInv'
<1>1. UNCHANGED <<buffers, engines, table, faultedIn, scheduler>>
  BY DEF DestroyContext, files
<1>2. /\ contexts' = [contexts EXCEPT ![c] = @ \ {i}]
      /\ gtt' = [a \in GttPages |-> IF gtt[a] = NativeContext(c, i) THEN Scratch ELSE gtt[a]]
  BY DEF DestroyContext
<1>3. \A d \in Clients : \A j \in contexts[d] : d # c \/ j # i => j \in contexts'[d]
  BY <1>2 DEF TypeInv
<1>4. \A d \in Clients, s \in Slots, a \in Int :
        /\ BoundAt(d, s, a)' <=> BoundAt(d, s, a)
        /\ Placed(d, s, a)' = Placed(d, s, a) /\ Ready(d)' = Ready(d)
  BY <1>1 DEF BoundAt, Placed, Ready
<1>5. ASSUME NEW d \in Clients, NEW s \in Slots, NEW a \in Int, BoundAt(d, s, a)
      PROVE  gtt'[a] = gtt[a]
  <2>1. a \in GttPages /\ gtt[a] = Placed(d, s, a)
    BY <1>5 DEF ApertureInv, GttInv
  <2>2. gtt[a] # NativeContext(c, i)
    BY <2>1, NamesDiffer DEF Placed
  <2> QED
    BY <1>2, <2>1, <2>2
<1>6. GttInv' /\ TableInv'
  BY <1>1, <1>4, <1>5, PlacesStep
<1>7. ASSUME NEW a \in GttPages
      PROVE  \/ gtt'[a] = Scratch \/ ContextPage(gtt[a])'
             \/ \E d \in Clients, s \in Slots : BoundAt(d, s, a)'
  <2>1. a \in Int
    BY DEF GttPages
  <2>2. CASE gtt[a] = NativeContext(c, i)
    BY <1>2, <2>2
  <2>3. CASE gtt[a] # NativeContext(c, i)
    <3>1. gtt'[a] = gtt[a]
      BY <1>2, <2>3
    <3>2. CASE ContextPage(gtt[a])
      <4>1. \A d \in Clients : /\ \A e \in engines[d] :
                                    gtt[a] = LegacyContext(d, e) => e \in engines'[d]
                               /\ \A j \in contexts[d] :
                                    gtt[a] = NativeContext(d, j) => j \in contexts'[d]
        BY <1>1, <1>3, <2>3
      <4> QED
        BY <3>1, <3>2, <4>1, RestStep
    <3>3. CASE gtt[a] = Scratch
      BY <3>1, <3>3
    <3>4. CASE \E d \in Clients, s \in Slots : BoundAt(d, s, a)
      BY <1>4, <2>1, <3>4
    <3> QED
      BY <3>2, <3>3, <3>4 DEF ApertureInv, RestInv
  <2> QED
    BY <2>2, <2>3
<1>8. RestInv'
  BY <1>7 DEF RestInv
<1> QED
  BY <1>6, <1>8

\* A bind that fails leaves page tables written where nothing is bound.
LEMMA PlacesBindFails ==
  ASSUME ApertureInv, TypeInv, NEW c \in Clients, NEW s \in Slots, BindBufferFails(c, s)
  PROVE  GttInv' /\ RestInv' /\ TableInv'
<1> DEFINE b == buffers[c][s]
<1>1. UNCHANGED <<buffers, engines, contexts, gtt, faultedIn, scheduler>>
  BY DEF BindBufferFails, files, render
<1>2. PICK address \in FirstFit(b.size), last \in Ready(c) \cup {2}, count \in 0 .. b.size - 1 :
        Mapping(c, s, address, last, count)
  BY DEF BindBufferFails, Mapping
<1>3. b.size \in Nat
  BY DEF TypeInv, Buffer
<1> HIDE DEF b
<1>4. count \in Nat /\ count <= b.size
  BY <1>3
<1>5. last \in Nat
  <2>1. \A e \in Ready(c) : e \in Engines
    BY DEF Ready, TypeInv
  <2>2. \A e \in Engines : e \in {0, 1}
    BY ClientAssumption
  <2>3. last \in {0, 1, 2}
    BY <2>1, <2>2
  <2> QED
    BY <2>3
<1>6. /\ \A d \in Clients \ {c} : table'[d] = table[d]
      /\ \A e \in Engines, a \in GttPages :
           a \notin Run(address, b.size) => table'[c][e][a] = table[c][e][a]
  <2>1. address \in Nat /\ TableType(table)
    BY <1>3, FirstFitIsFree DEF ApertureInv, ApertureType
  <2> QED
    BY <1>2, <1>3, <1>4, <1>5, <2>1, TablesMapped DEF b
<1>7. ASSUME NEW d \in Clients, NEW o \in Slots, NEW a \in Int
      PROVE  /\ BoundAt(d, o, a)' <=> BoundAt(d, o, a)
             /\ BoundAt(d, o, a) =>
                  /\ Placed(d, o, a)' = Placed(d, o, a)
                  /\ \A e \in Ready(d)' : e \in Ready(d) /\ table'[d][e][a] = table[d][e][a]
  <2>1. /\ BoundAt(d, o, a)' <=> BoundAt(d, o, a)
        /\ Placed(d, o, a)' = Placed(d, o, a)
        /\ Ready(d)' = Ready(d) /\ Ready(d) \subseteq Engines
    BY <1>1 DEF BoundAt, Placed, Ready, TypeInv
  <2>2. ASSUME BoundAt(d, o, a), NEW e \in Ready(d)
        PROVE  table'[d][e][a] = table[d][e][a]
    <3>1. a \in GttPages
      BY <2>2 DEF ApertureInv, GttInv
    <3>2. a \notin FreePages
      BY <2>2, FreeIsUnbound DEF ApertureInv
    <3>3. a \notin Run(address, b.size)
      BY <1>3, <3>2, FirstFitIsFree
    <3> QED
      BY <1>6, <2>1, <3>1, <3>3
  <2> QED
    BY <2>1, <2>2
<1> QED
  BY <1>1, <1>7, PlacesFrame

\* A bind puts the buffer into free pages, and into the page tables of every
\* engine that may be used.
LEMMA PlacesBind ==
  ASSUME ApertureInv, TypeInv, NEW c \in Clients, NEW s \in Slots, BindBuffer(c, s)
  PROVE  GttInv' /\ RestInv' /\ TableInv'
<1> DEFINE b == buffers[c][s]
<1>1. /\ UNCHANGED <<engines, contexts, faultedIn, scheduler>>
      /\ s \in Used(c) /\ ~IsBound(c, s)
  BY DEF BindBuffer, MayBind, render
<1>2. PICK address \in FirstFit(b.size) :
        /\ buffers' = [buffers EXCEPT ![c][s].address = address]
        /\ gtt' = GttBound(c, b, address)
        /\ table' = [table EXCEPT ![c] = TablesUpTo(c, b, address, 2, 0)]
  BY DEF BindBuffer, Bind
<1>3. b.size \in Nat /\ address \in Nat /\ b.handle # 0
  BY <1>1, FirstFitIsFree DEF TypeInv, Buffer, Used
<1> DEFINE there == Run(address, b.size)
<1>4. there \subseteq FreePages /\ there \subseteq GttPages
  BY <1>3, FirstFitIsFree
<1>5. /\ buffers'[c][s].handle = b.handle /\ buffers'[c][s].size = b.size
      /\ buffers'[c][s].address = address
      /\ \A d \in Clients, o \in Slots : d # c \/ o # s => buffers'[d][o] = buffers[d][o]
  BY <1>2 DEF TypeInv, Buffer
<1>6. address # None
  BY <1>3, ClientAssumption
<1>7. \A a \in Int : /\ BoundAt(c, s, a)' <=> a \in there
                     /\ Placed(c, s, a)' = Page(c, b.handle, a - address)
  BY <1>3, <1>5, <1>6 DEF BoundAt, Placed
<1>8. \A d \in Clients, o \in Slots, a \in Int :
        d # c \/ o # s => /\ BoundAt(d, o, a)' <=> BoundAt(d, o, a)
                          /\ Placed(d, o, a)' = Placed(d, o, a)
  BY <1>5 DEF BoundAt, Placed
<1>9. \A a \in Int : ~BoundAt(c, s, a)
  BY <1>1 DEF BoundAt, IsBound
<1>10. \A a \in GttPages :
         gtt'[a] = IF a \in there THEN Page(c, b.handle, a - address) ELSE gtt[a]
  BY <1>2 DEF GttBound, Mapped, ApertureInv, ApertureType
<1> HIDE DEF b
<1>11. /\ \A d \in Clients \ {c} : table'[d] = table[d]
       /\ \A e \in Engines, a \in GttPages :
            /\ a \notin there => table'[c][e][a] = table[c][e][a]
            /\ a \in there /\ e \in Ready(c) /\ e < 2 =>
                 table'[c][e][a] = Page(c, b.handle, a - address)
  <2>1. TableType(table) /\ 0 \in Nat /\ 2 \in Nat /\ 0 <= b.size
    BY <1>3 DEF ApertureInv, ApertureType
  <2>2. Mapping(c, s, address, 2, 0)
    BY <1>2 DEF b, Mapping
  <2> QED
    BY <1>3, <2>1, <2>2, TablesMapped DEF b
<1>12. \A d \in Clients : Ready(d)' = Ready(d) /\ Ready(d) \subseteq Engines
  BY <1>1 DEF Ready, TypeInv
<1>13. \A e \in Engines : e < 2
  <2>1. \A e \in Engines : e \in {0, 1}
    BY ClientAssumption
  <2> QED
    BY <2>1
<1> HIDE DEF there
<1>14. ASSUME NEW d \in Clients, NEW o \in Slots, NEW a \in Int, BoundAt(d, o, a)'
       PROVE  /\ a \in GttPages /\ gtt'[a] = Placed(d, o, a)'
              /\ \A e \in Ready(d)' : table'[d][e][a] = Placed(d, o, a)'
  <2>1. CASE d = c /\ o = s
    BY <1>4, <1>7, <1>10, <1>11, <1>12, <1>13, <1>14, <2>1
  <2>2. CASE d # c \/ o # s
    <3>1. BoundAt(d, o, a) /\ Placed(d, o, a)' = Placed(d, o, a)
      BY <1>8, <1>14, <2>2
    <3>2. a \in GttPages /\ gtt[a] = Placed(d, o, a)
      BY <3>1 DEF ApertureInv, GttInv
    <3>3. \A e \in Ready(d) : table[d][e][a] = Placed(d, o, a)
      BY <3>1 DEF ApertureInv, TableInv
    <3>4. a \notin there
      BY <1>4, <3>1, FreeIsUnbound DEF ApertureInv
    <3>5. \A e \in Ready(d) : table'[d][e][a] = table[d][e][a]
      BY <1>11, <1>12, <3>2, <3>4
    <3> QED
      BY <1>10, <1>12, <3>1, <3>2, <3>3, <3>4, <3>5
  <2> QED
    BY <2>1, <2>2
<1>15. GttInv'
  BY <1>14 DEF GttInv
<1>16. TableInv'
  BY <1>14 DEF TableInv
<1>17. ASSUME NEW a \in GttPages
       PROVE  \/ gtt'[a] = Scratch \/ ContextPage(gtt[a])'
              \/ \E d \in Clients, o \in Slots : BoundAt(d, o, a)'
  <2>1. a \in Int
    BY DEF GttPages
  <2>2. CASE a \in there
    BY <1>7, <2>1, <2>2
  <2>3. CASE a \notin there
    <3>1. gtt'[a] = gtt[a]
      BY <1>10, <2>3
    <3>2. CASE ContextPage(gtt[a])
      BY <1>1, <3>1, <3>2, RestStep
    <3>3. CASE gtt[a] = Scratch
      BY <3>1, <3>3
    <3>4. CASE \E d \in Clients, o \in Slots : BoundAt(d, o, a)
      BY <1>8, <1>9, <2>1, <3>4
    <3> QED
      BY <3>2, <3>3, <3>4 DEF ApertureInv, RestInv
  <2> QED
    BY <2>2, <2>3
<1>18. RestInv'
  BY <1>17 DEF RestInv
<1> QED
  BY <1>15, <1>16, <1>18

LEMMA PlaceStep ==
  ASSUME ApertureInv, TypeInv, [Next]_vars
  PROVE  GttInv' /\ RestInv' /\ TableInv'
<1>1. ASSUME NEW c \in Clients, NEW s \in Slots, CloseBuffer(c, s)
      PROVE  GttInv' /\ RestInv' /\ TableInv'
  <2>1. /\ UNCHANGED <<engines, contexts, faultedIn, scheduler>> /\ s \in Used(c)
        /\ buffers' = [buffers EXCEPT ![c][s] = NoBuffer]
    BY <1>1 DEF CloseBuffer, render
  <2>2. /\ buffers'[c][s].handle = 0
        /\ \A d \in Clients, o \in Slots : d # c \/ o # s => buffers'[d][o] = buffers[d][o]
    BY <2>1 DEF TypeInv, NoBuffer
  <2>3. CASE IsBound(c, s)
    <3>1. /\ gtt' = GttUnbound(buffers[c][s])
          /\ table' = [table EXCEPT ![c] = TablesWithout(c, buffers[c][s])]
      BY <1>1, <2>3 DEF CloseBuffer
    <3> QED
      BY <2>1, <2>2, <2>3, <3>1, PlacesUnbind
  <2>4. CASE ~IsBound(c, s)
    <3>1. gtt' = gtt /\ table' = table
      BY <1>1, <2>4 DEF CloseBuffer
    <3>2. ASSUME NEW d \in Clients, NEW o \in Slots, NEW a \in Int
          PROVE  /\ BoundAt(d, o, a)' <=> BoundAt(d, o, a)
                 /\ BoundAt(d, o, a) => Placed(d, o, a)' = Placed(d, o, a)
      <4>1. CASE d # c \/ o # s
        BY <2>2, <4>1 DEF BoundAt, Placed
      <4>2. CASE d = c /\ o = s
        BY <2>2, <2>4, <4>2 DEF BoundAt, IsBound
      <4> QED
        BY <4>1, <4>2
    <3>3. \A d \in Clients : Ready(d)' = Ready(d)
      BY <2>1 DEF Ready
    <3> QED
      BY <2>1, <3>1, <3>2, <3>3, PlacesFrame
  <2> QED
    BY <2>3, <2>4
<1>2. ASSUME NEW c \in Clients, NEW s \in Slots, UnbindBuffer(c, s)
      PROVE  GttInv' /\ RestInv' /\ TableInv'
  <2>1. /\ UNCHANGED <<engines, contexts, faultedIn, scheduler>>
        /\ s \in Used(c) /\ IsBound(c, s)
        /\ buffers' = [buffers EXCEPT ![c][s].address = None]
        /\ gtt' = GttUnbound(buffers[c][s])
        /\ table' = [table EXCEPT ![c] = TablesWithout(c, buffers[c][s])]
    BY <1>2 DEF UnbindBuffer, Unbind, render
  <2>2. /\ buffers'[c][s].address = None
        /\ \A d \in Clients, o \in Slots : d # c \/ o # s => buffers'[d][o] = buffers[d][o]
    BY <2>1 DEF TypeInv, Buffer
  <2> QED
    BY <2>1, <2>2, PlacesUnbind
<1>3. ASSUME UNCHANGED <<buffers, engines, contexts, gtt, table, faultedIn, scheduler>>
      PROVE  GttInv' /\ RestInv' /\ TableInv'
  BY <1>3, PlacesIdle DEF Ready
<1>4. ASSUME NEW c \in Clients,
             \/ SubmitDone(c)
             \/ \E s \in Slots :
                  \/ UnbindVirtual(c, s)
                  \/ \E address \in VirtualPages :
                       BindVirtual(c, s, address) \/ BindVirtualFails(c, s, address)
             \/ \E i \in ContextSlots : \E objects \in SUBSET Slots : \E batch \in objects :
                  SubmitObjects(c, i, objects, batch)
             \/ \E e \in Engines : \E s \in Slots : SubmitBatch(c, e, s)
      PROVE  GttInv' /\ RestInv' /\ TableInv'
  <2>1. UNCHANGED <<buffers, engines, contexts, gtt, table, faultedIn, scheduler>>
    BY <1>4 DEF SubmitDone, UnbindVirtual, BindVirtual, BindVirtualFails, SubmitObjects,
                SubmitBatch, files, render, memory
  <2> QED
    BY <1>3, <2>1
<1>5. ASSUME NEW c \in Clients, SubmitTimeout(c)
      PROVE  GttInv' /\ RestInv' /\ TableInv'
  <2>1. /\ UNCHANGED <<buffers, engines, contexts, gtt, table>>
        /\ scheduler \subseteq scheduler'
        /\ faultedIn' = [faultedIn EXCEPT ![c] = IF waiting[c].native THEN @
                                                 ELSE @ \cup {waiting[c].engine}]
    BY <1>5 DEF SubmitTimeout, files, memory
  <2>2. \A d \in Clients : faultedIn[d] \subseteq faultedIn'[d]
    BY <2>1 DEF ApertureInv, ApertureType
  <2>3. \A d \in Clients : Ready(d)' \subseteq Ready(d)
    BY <2>1, <2>2 DEF Ready
  <2> QED
    BY <2>1, <2>3, PlacesIdle
<1>6. CASE UNCHANGED vars \/ \E e \in Engines : GpuFinish(e)
  <2>1. UNCHANGED <<buffers, engines, contexts, gtt, table, faultedIn, scheduler>>
    BY <1>6 DEF GpuFinish, vars, files, render, memory
  <2> QED
    BY <1>3, <2>1
<1> QED
  BY <1>1, <1>2, <1>4, <1>5, <1>6, PlacesOpen, PlacesClose, PlacesCreate, PlacesBind,
     PlacesBindFails, PlacesCreateContext, PlacesDestroyContext
     DEF Next, Buffering, Rendering

-----------------------------------------------------------------------------
(* Sums.  What MapThenSumSet computes: each of its folds is a function that *)
(* adds one element of a set to the sum of the rest.                       *)

First(set) == CHOOSE x \in set : TRUE

\* sum gives the sum of F over every subset of S.
Adds(sum, F, S) ==
  sum = [X \in SUBSET S |->
           IF X = {} THEN 0 ELSE F[First(X)] + sum[X \ {First(X)}]]

LEMMA FirstIs ==
  ASSUME NEW X, X # {}
  PROVE  First(X) \in X
BY Zenon DEF First

\* Of a collection of subsets of a finite set, one has no other below it.
LEMMA LeastSubset ==
  ASSUME NEW S, IsFiniteSet(S), NEW Bad \in SUBSET (SUBSET S), Bad # {}
  PROVE  \E X \in Bad : \A Y \in SUBSET X : Y # X => Y \notin Bad
<1>1. IsWellFoundedOn(StrictSubsetOrdering(S), SUBSET S)
  BY FS_StrictSubsetOrderingWellFounded, FS_FiniteSubsetsOfFinite
<1>2. PICK X \in Bad : \A Y \in Bad : ~(<<Y, X>> \in StrictSubsetOrdering(S))
  BY <1>1, WFMin
<1>3. \A Y, Z \in SUBSET S : Y \subseteq Z /\ Y # Z => <<Y, Z>> \in StrictSubsetOrdering(S)
  BY DEF StrictSubsetOrdering
<1> QED
  BY <1>2, <1>3

LEMMA LeastNumber ==
  ASSUME NEW Bad \in SUBSET Nat, Bad # {}
  PROVE  \E n \in Bad : \A m \in Nat : m < n => m \notin Bad
<1>1. PICK n \in Bad : \A m \in Bad : ~(<<m, n>> \in OpToRel(<, Nat))
  BY NatLessThanWellFounded, WFMin
<1>2. \A m, k \in Nat : m < k => <<m, k>> \in OpToRel(<, Nat)
  BY Zenon DEF OpToRel
<1> QED
  BY Zenon, <1>1, <1>2

\* Such a function exists: it can be extended from sets of n elements to sets of one more.
LEMMA SumExists ==
  ASSUME NEW S, IsFiniteSet(S), NEW F
  PROVE  \E sum : Adds(sum, F, S)
<1> DEFINE Small(n) == {X \in SUBSET S : Cardinality(X) <= n}
           Step(g, X) == IF X = {} THEN 0 ELSE F[First(X)] + g[X \ {First(X)}]
           Good(n) == \E g : \A X \in Small(n) : g[X] = Step(g, X)
           Bad == {n \in Nat : ~Good(n)}
<1>1. \A X \in SUBSET S : IsFiniteSet(X) /\ Cardinality(X) \in Nat
  BY FS_Subset, FS_CardinalityType
<1>2. Good(0)
  <2>1. \A X \in Small(0) : X = {}
    BY <1>1, FS_EmptySet
  <2>2. {} \in SUBSET S
    OBVIOUS
  <2> DEFINE g == [X \in SUBSET S |-> 0]
  <2>3. \A X \in Small(0) : g[X] = Step(g, X)
    BY <2>1, <2>2
  <2> HIDE DEF g, Small, Step
  <2> QED
    BY <2>3
<1>3. ASSUME NEW n \in Nat, Good(n)
      PROVE  Good(n + 1)
  <2>1. PICK g : \A X \in Small(n) : g[X] = Step(g, X)
    BY <1>3
  <2> DEFINE h == [X \in SUBSET S |-> Step(g, X)]
  <2>2. \A X \in Small(n) : h[X] = g[X]
    BY <2>1
  <2>3. ASSUME NEW X \in Small(n + 1)
        PROVE  h[X] = Step(h, X)
    <3>1. X \in SUBSET S /\ h[X] = Step(g, X)
      OBVIOUS
    <3>2. CASE X = {}
      BY <3>1, <3>2
    <3>3. CASE X # {}
      <4>1. First(X) \in X
        BY <3>3, FirstIs
      <4>2. Cardinality(X \ {First(X)}) = Cardinality(X) - 1
        BY <1>1, <3>1, <4>1, FS_RemoveElement
      <4>3. X \ {First(X)} \in Small(n)
        BY <1>1, <3>1, <4>2
      <4>4. h[X \ {First(X)}] = g[X \ {First(X)}]
        BY <2>2, <4>3
      <4> HIDE DEF h, Small
      <4> QED
        BY <3>1, <3>3, <4>4
    <3> QED
      BY <3>2, <3>3
  <2> HIDE DEF h, Small, Step
  <2> QED
    BY <2>3
<1>4. ASSUME Bad # {}
      PROVE  FALSE
  <2> HIDE DEF Good
  <2>1. PICK n \in Bad : \A m \in Nat : m < n => m \notin Bad
    BY <1>4, LeastNumber
  <2>2. n \in Nat /\ n # 0
    BY <1>2, <2>1
  <2>3. n - 1 \in Nat /\ n - 1 < n
    BY <2>2
  <2>4. Good(n - 1)
    BY <2>1, <2>3
  <2>5. Good((n - 1) + 1)
    BY <1>3, <2>3, <2>4
  <2>6. (n - 1) + 1 = n
    BY <2>2
  <2> QED
    BY <2>1, <2>5, <2>6
<1>5. Good(Cardinality(S))
  <2> HIDE DEF Good
  <2>1. Cardinality(S) \in Nat
    BY FS_CardinalityType
  <2> QED
    BY <1>4, <2>1
<1>6. PICK g : \A X \in Small(Cardinality(S)) : g[X] = Step(g, X)
  BY <1>5
<1> DEFINE sum == [X \in SUBSET S |-> g[X]]
<1>7. Small(Cardinality(S)) = SUBSET S
  BY FS_Subset
<1>8. \A X \in SUBSET S : X \ {First(X)} \in SUBSET S
  OBVIOUS
<1>9. \A X \in SUBSET S : g[X] = Step(g, X) /\ sum[X] = g[X]
  BY <1>6, <1>7
<1>10. sum = [X \in SUBSET S |-> Step(sum, X)]
  BY <1>8, <1>9
<1> HIDE DEF sum
<1> QED
  BY <1>10 DEF Adds

\* The sum of F over a set.
LEMMA SumStep ==
  ASSUME NEW S, NEW F, NEW sum, Adds(sum, F, S), NEW X \in SUBSET S
  PROVE  sum[X] = IF X = {} THEN 0 ELSE F[First(X)] + sum[X \ {First(X)}]
BY DEF Adds

\* The sum does not depend on what else could have been added up, nor on what F is
\* elsewhere.
LEMMA SumSame ==
  ASSUME NEW S, IsFiniteSet(S), NEW F, NEW sum, Adds(sum, F, S),
         NEW T, NEW G, NEW other, Adds(other, G, T),
         NEW X \in SUBSET S, X \in SUBSET T, \A x \in X : F[x] = G[x]
  PROVE  sum[X] = other[X]
<1> DEFINE Bad == {Y \in SUBSET X : sum[Y] # other[Y]}
<1> SUFFICES ASSUME Bad # {}
             PROVE  FALSE
  OBVIOUS
<1>1. Bad \in SUBSET (SUBSET S)
  OBVIOUS
<1> HIDE DEF Bad
<1>2. PICK Y \in Bad : \A Z \in SUBSET Y : Z # Y => Z \notin Bad
  BY <1>1, LeastSubset
<1> USE DEF Bad
<1>3. Y \in SUBSET X /\ Y \in SUBSET S /\ Y \in SUBSET T /\ sum[Y] # other[Y]
  OBVIOUS
<1>4. Y # {}
  <2>1. {} \in SUBSET S /\ {} \in SUBSET T
    OBVIOUS
  <2>2. sum[{}] = 0 /\ other[{}] = 0
    BY <2>1, SumStep
  <2> QED
    BY <1>3, <2>2
<1>5. First(Y) \in Y
  BY <1>4, FirstIs
<1>6. Y \ {First(Y)} \in SUBSET Y /\ Y \ {First(Y)} # Y
  BY <1>5
<1>7. sum[Y \ {First(Y)}] = other[Y \ {First(Y)}]
  BY <1>2, <1>3, <1>6
<1>8. /\ sum[Y] = F[First(Y)] + sum[Y \ {First(Y)}]
      /\ other[Y] = G[First(Y)] + other[Y \ {First(Y)}]
  BY <1>3, <1>4, SumStep
<1>9. F[First(Y)] = G[First(Y)]
  BY <1>3, <1>5
<1> QED
  BY <1>3, <1>7, <1>8, <1>9

LEMMA SumType ==
  ASSUME NEW S, IsFiniteSet(S), NEW F, \A x \in S : F[x] \in Nat, NEW sum, Adds(sum, F, S),
         NEW X \in SUBSET S
  PROVE  sum[X] \in Nat
<1> DEFINE Bad == {Y \in SUBSET S : sum[Y] \notin Nat}
<1> SUFFICES ASSUME Bad # {}
             PROVE  FALSE
  OBVIOUS
<1>0. \A Z \in SUBSET S :
        sum[Z] = IF Z = {} THEN 0 ELSE F[First(Z)] + sum[Z \ {First(Z)}]
  BY DEF Adds
<1>1. Bad \in SUBSET (SUBSET S)
  OBVIOUS
<1> HIDE DEF Bad
<1>2. PICK Y \in Bad : \A Z \in SUBSET Y : Z # Y => Z \notin Bad
  BY <1>1, LeastSubset
<1> USE DEF Bad
<1>3. Y \in SUBSET S /\ sum[Y] \notin Nat
  OBVIOUS
<1>4. Y # {}
  BY <1>0, <1>3
<1>5. First(Y) \in Y
  BY <1>4, FirstIs
<1>6. Y \ {First(Y)} \in SUBSET Y /\ Y \ {First(Y)} # Y /\ Y \ {First(Y)} \in SUBSET S
  BY <1>3, <1>5
<1>7. sum[Y \ {First(Y)}] \in Nat
  BY <1>2, <1>6
<1>8. sum[Y] = F[First(Y)] + sum[Y \ {First(Y)}]
  BY <1>0, <1>3, <1>4
<1>9. F[First(Y)] \in Nat
  BY <1>3, <1>5
<1> QED
  BY <1>3, <1>7, <1>8, <1>9

\* Any element may be the one that is added last.
LEMMA SumAny ==
  ASSUME NEW S, IsFiniteSet(S), NEW F, \A x \in S : F[x] \in Nat, NEW sum, Adds(sum, F, S),
         NEW X \in SUBSET S, NEW x \in X
  PROVE  sum[X] = F[x] + sum[X \ {x}]
<1> DEFINE Bad == {Y \in SUBSET S : \E y \in Y : sum[Y] # F[y] + sum[Y \ {y}]}
<1> SUFFICES ASSUME Bad # {}
             PROVE  FALSE
  OBVIOUS
<1>0. \A Z \in SUBSET S :
        sum[Z] = IF Z = {} THEN 0 ELSE F[First(Z)] + sum[Z \ {First(Z)}]
  BY DEF Adds
<1>1. Bad \in SUBSET (SUBSET S)
  OBVIOUS
<1> HIDE DEF Bad
<1>2. PICK Y \in Bad : \A Z \in SUBSET Y : Z # Y => Z \notin Bad
  BY <1>1, LeastSubset
<1> USE DEF Bad
<1>3. PICK y \in Y : sum[Y] # F[y] + sum[Y \ {y}]
  OBVIOUS
<1>4. Y \in SUBSET S /\ Y # {}
  OBVIOUS
<1> DEFINE z == First(Y)
<1>5. z \in Y
  BY <1>4, FirstIs
<1>6. sum[Y] = F[z] + sum[Y \ {z}]
  BY <1>0, <1>4
<1> HIDE DEF z
<1>7. y # z
  BY <1>3, <1>6
<1>8. /\ Y \ {z} \in SUBSET Y /\ Y \ {z} # Y /\ y \in Y \ {z} /\ Y \ {z} \in SUBSET S
      /\ Y \ {y} \in SUBSET Y /\ Y \ {y} # Y /\ z \in Y \ {y} /\ Y \ {y} \in SUBSET S
      /\ (Y \ {z}) \ {y} = (Y \ {y}) \ {z} /\ (Y \ {y}) \ {z} \in SUBSET S
  BY <1>4, <1>5, <1>7
<1>9. sum[Y \ {z}] = F[y] + sum[(Y \ {z}) \ {y}]
  BY <1>2, <1>8
<1>10. sum[Y \ {y}] = F[z] + sum[(Y \ {y}) \ {z}]
  BY <1>2, <1>8
<1>11. F[y] \in Nat /\ F[z] \in Nat /\ sum[(Y \ {y}) \ {z}] \in Nat
  BY <1>4, <1>5, <1>8, SumType
<1> DEFINE rest == sum[(Y \ {y}) \ {z}]
<1>12. sum[Y \ {z}] = F[y] + rest /\ sum[Y \ {y}] = F[z] + rest /\ rest \in Nat
  BY <1>8, <1>9, <1>10, <1>11
<1> HIDE DEF rest
<1> QED
  BY <1>3, <1>6, <1>11, <1>12

\* The sum of F over a finite set.
Total(F, X) == (CHOOSE sum : Adds(sum, F, X))[X]

LEMMA TotalIs ==
  ASSUME NEW F, NEW X, IsFiniteSet(X)
  PROVE  \E sum : Adds(sum, F, X) /\ Total(F, X) = sum[X]
<1> DEFINE sum == CHOOSE sum : Adds(sum, F, X)
<1>1. Adds(sum, F, X)
  BY SumExists, Zenon
<1>2. Total(F, X) = sum[X]
  BY DEF Total
<1> HIDE DEF sum
<1> QED
  BY <1>1, <1>2

LEMMA TotalEmpty ==
  ASSUME NEW F
  PROVE  Total(F, {}) = 0
<1>1. PICK sum : Adds(sum, F, {}) /\ Total(F, {}) = sum[{}]
  BY TotalIs, FS_EmptySet
<1> QED
  BY <1>1 DEF Adds

LEMMA TotalType ==
  ASSUME NEW X, IsFiniteSet(X), NEW F, \A x \in X : F[x] \in Nat
  PROVE  Total(F, X) \in Nat
<1>1. PICK sum : Adds(sum, F, X) /\ Total(F, X) = sum[X]
  BY TotalIs
<1>2. sum[X] \in Nat
  BY <1>1, SumType
<1> QED
  BY <1>1, <1>2

LEMMA TotalSame ==
  ASSUME NEW X, IsFiniteSet(X), NEW F, NEW G, \A x \in X : F[x] = G[x]
  PROVE  Total(F, X) = Total(G, X)
<1>1. PICK sum : Adds(sum, F, X) /\ Total(F, X) = sum[X]
  BY TotalIs
<1>2. PICK other : Adds(other, G, X) /\ Total(G, X) = other[X]
  BY TotalIs
<1>3. sum[X] = other[X]
  BY <1>1, <1>2, SumSame
<1> QED
  BY <1>1, <1>2, <1>3

LEMMA TotalDrop ==
  ASSUME NEW X, IsFiniteSet(X), NEW F, \A x \in X : F[x] \in Nat, NEW x \in X, NEW G,
         \A y \in X \ {x} : F[y] = G[y]
  PROVE  Total(F, X) = F[x] + Total(G, X \ {x})
<1>1. PICK sum : Adds(sum, F, X) /\ Total(F, X) = sum[X]
  BY TotalIs
<1>2. IsFiniteSet(X \ {x})
  BY FS_RemoveElement
<1>3. PICK other : Adds(other, G, X \ {x}) /\ Total(G, X \ {x}) = other[X \ {x}]
  BY <1>2, TotalIs
<1>4. sum[X] = F[x] + sum[X \ {x}]
  BY <1>1, SumAny
<1>5. X \ {x} \in SUBSET X /\ X \ {x} \in SUBSET (X \ {x})
  OBVIOUS
<1>6. sum[X \ {x}] = other[X \ {x}]
  BY <1>1, <1>3, <1>5, SumSame
<1> QED
  BY <1>1, <1>3, <1>4, <1>6

LEMMA TotalAdd ==
  ASSUME NEW X, IsFiniteSet(X), NEW F, NEW x, x \notin X, NEW G,
         \A y \in X \cup {x} : G[y] \in Nat, \A y \in X : F[y] = G[y]
  PROVE  Total(G, X \cup {x}) = G[x] + Total(F, X)
<1> DEFINE Y == X \cup {x}
<1>1. IsFiniteSet(Y)
  BY FS_AddElement
<1>2. Y \ {x} = X /\ x \in Y
  OBVIOUS
<1>3. (\A y \in Y : G[y] \in Nat) /\ \A y \in Y \ {x} : G[y] = F[y]
  OBVIOUS
<1> HIDE DEF Y
<1>4. Total(G, Y) = G[x] + Total(F, Y \ {x})
  BY <1>1, <1>2, <1>3, TotalDrop
<1> QED
  BY <1>2, <1>4 DEF Y

-----------------------------------------------------------------------------
(* The accounts. *)

SizesOf(c) == [s \in Slots |-> buffers[c][s].size]
BoundSlots(c) == {s \in Used(c) : IsBound(c, s)}

AccountType == allocated \in [Clients -> Nat] /\ bound \in [Clients -> Nat]

\* The two counters of a client are the sums of its buffers.
AccountInv(c) ==
  /\ allocated[c] = Total(SizesOf(c), Used(c)) /\ allocated[c] <= MemoryLimit
  /\ bound[c] = Total(SizesOf(c), BoundSlots(c)) /\ bound[c] <= ApertureLimit

LEMMA SlotsAreFinite ==
  ASSUME NEW c
  PROVE  /\ IsFiniteSet(Used(c)) /\ IsFiniteSet(BoundSlots(c))
         /\ BoundSlots(c) \subseteq Used(c) /\ Used(c) \subseteq Slots
<1>1. IsFiniteSet(Slots)
  BY ClientAssumption
<1>2. Used(c) \in SUBSET Slots /\ BoundSlots(c) \in SUBSET Used(c)
  BY DEF Used, BoundSlots
<1> QED
  BY <1>1, <1>2, FS_Subset

LEMMA SizesAre ==
  ASSUME TypeInv, NEW c \in Clients
  PROVE  \A s \in Slots : SizesOf(c)[s] = buffers[c][s].size /\ SizesOf(c)[s] \in Nat
BY DEF TypeInv, Buffer, SizesOf

\* A client whose used slots and counters stay as they are.
LEMMA AccountFrame ==
  ASSUME NEW c \in Clients, AccountInv(c), allocated'[c] = allocated[c], bound'[c] = bound[c],
         \A s \in Slots : buffers'[c][s] = buffers[c][s]
  PROVE  AccountInv(c)'
<1>1. Used(c)' = Used(c) /\ BoundSlots(c)' = BoundSlots(c) /\ SizesOf(c)' = SizesOf(c)
  BY DEF Used, BoundSlots, IsBound, SizesOf
<1> QED
  BY <1>1 DEF AccountInv

\* What the slot of a buffer that comes, goes, or is moved means for the sums.
LEMMA AccountSlot ==
  ASSUME TypeInv, TypeInv', NEW c \in Clients, NEW s \in Slots,
         \A o \in Slots \ {s} : buffers'[c][o] = buffers[c][o]
  PROVE  /\ s \in Used(c) /\ s \in Used(c)' /\ buffers'[c][s].size = buffers[c][s].size =>
              Total(SizesOf(c), Used(c))' = Total(SizesOf(c), Used(c))
         /\ s \notin Used(c) /\ s \in Used(c)' =>
              Total(SizesOf(c), Used(c))' = buffers'[c][s].size + Total(SizesOf(c), Used(c))
         /\ s \in Used(c) /\ s \notin Used(c)' =>
              Total(SizesOf(c), Used(c)) = buffers[c][s].size + Total(SizesOf(c), Used(c))'
         /\ s \notin BoundSlots(c) /\ s \notin BoundSlots(c)' =>
              Total(SizesOf(c), BoundSlots(c))' = Total(SizesOf(c), BoundSlots(c))
         /\ s \notin BoundSlots(c) /\ s \in BoundSlots(c)' =>
              Total(SizesOf(c), BoundSlots(c))' =
                buffers'[c][s].size + Total(SizesOf(c), BoundSlots(c))
         /\ s \in BoundSlots(c) /\ s \notin BoundSlots(c)' =>
              Total(SizesOf(c), BoundSlots(c)) =
                buffers[c][s].size + Total(SizesOf(c), BoundSlots(c))'
<1> DEFINE F == SizesOf(c)
           G == SizesOf(c)'
           U == Used(c)
           V == Used(c)'
           B == BoundSlots(c)
           C == BoundSlots(c)'
<1>1. /\ \A o \in Slots : F[o] \in Nat /\ G[o] \in Nat
      /\ F[s] = buffers[c][s].size /\ G[s] = buffers'[c][s].size
      /\ \A o \in Slots \ {s} : F[o] = G[o]
  BY DEF TypeInv, Buffer, SizesOf
<1>2. /\ IsFiniteSet(U) /\ IsFiniteSet(B) /\ B \subseteq Slots /\ U \subseteq Slots
  BY SlotsAreFinite
<1>3. /\ V \ {s} = U \ {s} /\ C \ {s} = B \ {s}
      /\ V \subseteq Slots /\ C \subseteq Slots
  BY DEF Used, BoundSlots, IsBound
<1> HIDE DEF F, G, U, V, B, C
<1>4. ASSUME s \in U, s \in V, F[s] = G[s]
      PROVE  Total(G, V) = Total(F, U)
  <2>1. V = U /\ \A o \in U : F[o] = G[o]
    BY <1>1, <1>2, <1>3, <1>4
  <2> QED
    BY <1>2, <2>1, TotalSame
<1>5. ASSUME s \notin U, s \in V
      PROVE  Total(G, V) = G[s] + Total(F, U)
  <2>1. V = U \cup {s}
    BY <1>3, <1>5
  <2>2. (\A o \in U : F[o] = G[o]) /\ \A o \in U \cup {s} : G[o] \in Nat
    BY <1>1, <1>2, <1>5
  <2> QED
    BY <1>2, <1>5, <2>1, <2>2, TotalAdd
<1>6. ASSUME s \in U, s \notin V
      PROVE  Total(F, U) = F[s] + Total(G, V)
  <2>1. V = U \ {s}
    BY <1>3, <1>6
  <2>2. (\A o \in U \ {s} : F[o] = G[o]) /\ \A o \in U : F[o] \in Nat
    BY <1>1, <1>2
  <2> QED
    BY <1>2, <1>6, <2>1, <2>2, TotalDrop
<1>7. ASSUME s \notin B, s \notin C
      PROVE  Total(G, C) = Total(F, B)
  <2>1. C = B
    BY <1>3, <1>7
  <2>3. \A o \in B : F[o] = G[o]
    BY <1>1, <1>2, <1>7
  <2> QED
    BY <1>2, <2>1, <2>3, TotalSame
<1>8. ASSUME s \notin B, s \in C
      PROVE  Total(G, C) = G[s] + Total(F, B)
  <2>1. C = B \cup {s}
    BY <1>3, <1>8
  <2>2. (\A o \in B : F[o] = G[o]) /\ \A o \in B \cup {s} : G[o] \in Nat
    BY <1>1, <1>2, <1>8
  <2> QED
    BY <1>2, <1>8, <2>1, <2>2, TotalAdd
<1>9. ASSUME s \in B, s \notin C
      PROVE  Total(F, B) = F[s] + Total(G, C)
  <2>1. C = B \ {s}
    BY <1>3, <1>9
  <2>2. (\A o \in B \ {s} : F[o] = G[o]) /\ \A o \in B : F[o] \in Nat
    BY <1>1, <1>2
  <2> QED
    BY <1>2, <1>9, <2>1, <2>2, TotalDrop
<1>10. /\ Total(SizesOf(c), Used(c))' = Total(G, V) /\ Total(SizesOf(c), Used(c)) = Total(F, U)
       /\ Total(SizesOf(c), BoundSlots(c))' = Total(G, C)
       /\ Total(SizesOf(c), BoundSlots(c)) = Total(F, B)
       /\ Used(c) = U /\ Used(c)' = V /\ BoundSlots(c) = B /\ BoundSlots(c)' = C
  BY DEF F, G, U, V, B, C, Total
<1> QED
  BY <1>1, <1>4, <1>5, <1>6, <1>7, <1>8, <1>9, <1>10

LEMMA AccountTypeStep ==
  ASSUME AccountType, TypeInv, \A c \in Clients : AccountInv(c), [Next]_vars
  PROVE  AccountType'
<1>1. ASSUME NEW c \in Clients, NEW s \in Slots, s \in Used(c)
      PROVE  /\ buffers[c][s].size \in Nat
             /\ buffers[c][s].size <= allocated[c]
             /\ IsBound(c, s) => buffers[c][s].size <= bound[c]
  <2>1. /\ Total(SizesOf(c), Used(c)) = SizesOf(c)[s] + Total(SizesOf(c), Used(c) \ {s})
        /\ Total(SizesOf(c), Used(c) \ {s}) \in Nat
    <3>1. \A o \in Used(c) : SizesOf(c)[o] \in Nat
      BY SlotsAreFinite, SizesAre
    <3>2. IsFiniteSet(Used(c)) /\ IsFiniteSet(Used(c) \ {s})
      BY SlotsAreFinite, FS_RemoveElement
    <3> QED
      BY <1>1, <3>1, <3>2, TotalDrop, TotalType
  <2>2. s \in BoundSlots(c) =>
          /\ Total(SizesOf(c), BoundSlots(c)) =
               SizesOf(c)[s] + Total(SizesOf(c), BoundSlots(c) \ {s})
          /\ Total(SizesOf(c), BoundSlots(c) \ {s}) \in Nat
    <3>1. \A o \in BoundSlots(c) : SizesOf(c)[o] \in Nat
      BY SlotsAreFinite, SizesAre
    <3>2. IsFiniteSet(BoundSlots(c)) /\ IsFiniteSet(BoundSlots(c) \ {s})
      BY SlotsAreFinite, FS_RemoveElement
    <3> QED
      BY <3>1, <3>2, TotalDrop, TotalType
  <2>3. SizesOf(c)[s] = buffers[c][s].size /\ buffers[c][s].size \in Nat
    BY SizesAre
  <2>4. IsBound(c, s) => s \in BoundSlots(c)
    BY <1>1 DEF BoundSlots
  <2> QED
    BY <2>1, <2>2, <2>3, <2>4 DEF AccountInv
<1>2. ASSUME NEW c \in Clients, Close(c)
      PROVE  AccountType'
  BY <1>2 DEF Close, AccountType
<1>3. ASSUME NEW c \in Clients, NEW size \in Sizes, CreateBuffer(c, size)
      PROVE  AccountType'
  <2>1. size \in Nat
    BY ClientAssumption
  <2> QED
    BY <1>3, <2>1 DEF CreateBuffer, AccountType
<1>4. ASSUME NEW c \in Clients, NEW s \in Slots, CloseBuffer(c, s)
      PROVE  AccountType'
  <2> DEFINE n == buffers[c][s].size
  <2>1. /\ s \in Used(c) /\ allocated' = [allocated EXCEPT ![c] = @ - n]
        /\ \/ bound' = bound
           \/ IsBound(c, s) /\ bound' = [bound EXCEPT ![c] = @ - n]
    BY <1>4 DEF CloseBuffer
  <2>2. n \in Nat /\ n <= allocated[c] /\ (IsBound(c, s) => n <= bound[c])
    BY <1>1, <2>1
  <2> HIDE DEF n
  <2> QED
    BY <2>1, <2>2 DEF AccountType
<1>5. ASSUME NEW c \in Clients, NEW s \in Slots, UnbindBuffer(c, s)
      PROVE  AccountType'
  <2> DEFINE n == buffers[c][s].size
  <2>1. /\ s \in Used(c) /\ IsBound(c, s) /\ allocated' = allocated
        /\ bound' = [bound EXCEPT ![c] = @ - n]
    BY <1>5 DEF UnbindBuffer
  <2>2. n \in Nat /\ n <= bound[c]
    BY <1>1, <2>1
  <2> HIDE DEF n
  <2> QED
    BY <2>1, <2>2 DEF AccountType
<1>6. ASSUME NEW c \in Clients, NEW s \in Slots, BindBuffer(c, s)
      PROVE  AccountType'
  <2>1. buffers[c][s].size \in Nat
    BY DEF TypeInv, Buffer
  <2> QED
    BY <1>6, <2>1 DEF BindBuffer, AccountType
<1>7. ASSUME UNCHANGED <<allocated, bound>>
      PROVE  AccountType'
  BY <1>7 DEF AccountType
<1>8. ASSUME NEW c \in Clients,
             \/ Open(c) \/ Rendering(c)
             \/ \E s \in Slots :
                  \/ BindBufferFails(c, s) \/ UnbindVirtual(c, s)
                  \/ \E address \in VirtualPages :
                       BindVirtual(c, s, address) \/ BindVirtualFails(c, s, address)
      PROVE  AccountType'
  <2>1. UNCHANGED <<allocated, bound>>
    BY <1>8 DEF Open, Rendering, CreateContext, DestroyContext, SubmitObjects, SubmitBatch,
                SubmitDone, SubmitTimeout, BindBufferFails, UnbindVirtual, BindVirtual,
                BindVirtualFails, files
  <2> QED
    BY <1>7, <2>1
<1>9. CASE UNCHANGED vars \/ \E e \in Engines : GpuFinish(e)
  BY <1>7, <1>9 DEF GpuFinish, vars, files
<1> QED
  BY <1>2, <1>3, <1>4, <1>5, <1>6, <1>8, <1>9 DEF Next, Buffering

LEMMA AccountStep ==
  ASSUME TypeInv, TypeInv', AccountType, \A c \in Clients : AccountInv(c), [Next]_vars
  PROVE  \A c \in Clients : AccountInv(c)'
<1> SUFFICES ASSUME NEW d \in Clients
             PROVE  AccountInv(d)'
  OBVIOUS
<1>1. AccountInv(d) /\ allocated[d] \in Nat /\ bound[d] \in Nat
      /\ MemoryLimit \in Nat /\ ApertureLimit \in Nat
  BY ClientAssumption DEF AccountType
<1>2. ASSUME allocated'[d] = allocated[d], bound'[d] = bound[d], buffers'[d] = buffers[d]
      PROVE  AccountInv(d)'
  BY <1>1, <1>2, AccountFrame
<1>3. ASSUME NEW c \in Clients, Close(c)
      PROVE  AccountInv(d)'
  <2>1. CASE Quarantined(c)
    BY <1>2, <1>3, <2>1 DEF Close
  <2>2. CASE ~Quarantined(c)
    <3>1. /\ buffers' = [buffers EXCEPT ![c] = [s \in Slots |-> NoBuffer]]
          /\ allocated' = [allocated EXCEPT ![c] = 0] /\ bound' = [bound EXCEPT ![c] = 0]
      BY <1>3, <2>2 DEF Close
    <3>2. CASE d # c
      BY <1>2, <3>1, <3>2 DEF AccountType, TypeInv
    <3>3. CASE d = c
      <4>1. allocated'[d] = 0 /\ bound'[d] = 0 /\ \A s \in Slots : buffers'[d][s].handle = 0
        BY <3>1, <3>3 DEF AccountType, TypeInv, NoBuffer
      <4>2. Used(d)' = {}
        BY <4>1 DEF Used
      <4>3. BoundSlots(d)' = {}
        BY <4>2 DEF BoundSlots
      <4>4. Total(SizesOf(d)', {}) = 0
        BY TotalEmpty
      <4>5. Total(SizesOf(d), Used(d))' = 0 /\ Total(SizesOf(d), BoundSlots(d))' = 0
        BY <4>2, <4>3, <4>4 DEF Total
      <4> QED
        BY <1>1, <4>1, <4>5 DEF AccountInv
    <3> QED
      BY <3>2, <3>3
  <2> QED
    BY <2>1, <2>2
<1>4. ASSUME NEW c \in Clients, NEW size \in Sizes, CreateBuffer(c, size)
      PROVE  AccountInv(d)'
  <2>1. PICK s \in Slots \ Used(c) :
          \/ /\ buffers' = [buffers EXCEPT ![c][s] = NewBuffer(nextHandle[c], size)]
             /\ allocated' = [allocated EXCEPT ![c] = @ + size]
          \/ UNCHANGED <<buffers, allocated>>
    BY <1>4 DEF CreateBuffer
  <2>2. /\ bound' = bound /\ nextHandle[c] # 0 /\ size <= MemoryLimit - allocated[c]
        /\ size \in Nat
    BY <1>4, ClientAssumption DEF CreateBuffer, HandlesExhausted, WithinLimit
  <2>3. CASE UNCHANGED <<buffers, allocated>> \/ d # c
    BY <1>2, <2>1, <2>2, <2>3 DEF AccountType, TypeInv
  <2>4. CASE d = c /\ ~UNCHANGED <<buffers, allocated>>
    <3>1. /\ buffers'[c][s] = NewBuffer(nextHandle[c], size)
          /\ \A o \in Slots \ {s} : buffers'[c][o] = buffers[c][o]
          /\ allocated'[c] = allocated[c] + size
      BY <2>1, <2>4 DEF AccountType, TypeInv
    <3>2. /\ s \notin Used(c) /\ s \in Used(c)' /\ buffers'[c][s].size = size
          /\ s \notin BoundSlots(c) /\ s \notin BoundSlots(c)'
      BY <2>1, <2>2, <3>1 DEF Used, BoundSlots, IsBound, NewBuffer
    <3>3. /\ Total(SizesOf(c), Used(c))' = size + Total(SizesOf(c), Used(c))
          /\ Total(SizesOf(c), BoundSlots(c))' = Total(SizesOf(c), BoundSlots(c))
      BY <3>1, <3>2, AccountSlot
    <3> QED
      BY <1>1, <2>2, <2>4, <3>1, <3>3 DEF AccountInv
  <2> QED
    BY <2>3, <2>4
<1>5. ASSUME NEW c \in Clients, NEW s \in Slots, CloseBuffer(c, s)
      PROVE  AccountInv(d)'
  <2>1. /\ buffers' = [buffers EXCEPT ![c][s] = NoBuffer] /\ s \in Used(c)
        /\ allocated' = [allocated EXCEPT ![c] = @ - buffers[c][s].size]
        /\ IF IsBound(c, s) THEN bound' = [bound EXCEPT ![c] = @ - buffers[c][s].size]
                            ELSE bound' = bound
    BY <1>5 DEF CloseBuffer
  <2>2. CASE d # c
    BY <1>2, <2>1, <2>2 DEF AccountType, TypeInv
  <2>3. CASE d = c
    <3>1. /\ buffers'[c][s].handle = 0
          /\ \A o \in Slots \ {s} : buffers'[c][o] = buffers[c][o]
          /\ allocated'[c] = allocated[c] - buffers[c][s].size
          /\ bound'[c] = IF IsBound(c, s) THEN bound[c] - buffers[c][s].size ELSE bound[c]
      BY <2>1 DEF AccountType, TypeInv, NoBuffer
    <3>2. /\ s \in Used(c) /\ s \notin Used(c)' /\ s \notin BoundSlots(c)'
          /\ s \in BoundSlots(c) <=> IsBound(c, s)
      BY <2>1, <3>1 DEF Used, BoundSlots
    <3>3. /\ Total(SizesOf(c), Used(c)) = buffers[c][s].size + Total(SizesOf(c), Used(c))'
          /\ IsBound(c, s) => Total(SizesOf(c), BoundSlots(c)) =
                                buffers[c][s].size + Total(SizesOf(c), BoundSlots(c))'
          /\ ~IsBound(c, s) => Total(SizesOf(c), BoundSlots(c))' =
                                 Total(SizesOf(c), BoundSlots(c))
      BY <3>1, <3>2, AccountSlot
    <3> DEFINE after == Total(SizesOf(c), Used(c))'
               left == Total(SizesOf(c), BoundSlots(c))'
    <3>4. after \in Nat /\ left \in Nat /\ buffers[c][s].size \in Nat
      <4>1. /\ IsFiniteSet(Used(c))' /\ IsFiniteSet(BoundSlots(c))'
            /\ Used(c)' \subseteq Slots /\ BoundSlots(c)' \subseteq Slots
        <5>1. IsFiniteSet(Slots)
          BY ClientAssumption
        <5>2. Used(c)' \in SUBSET Slots /\ BoundSlots(c)' \in SUBSET Slots
          BY DEF Used, BoundSlots
        <5> QED
          BY <5>1, <5>2, FS_Subset
      <4>2. \A o \in Slots : SizesOf(c)'[o] \in Nat
        BY DEF TypeInv, Buffer, SizesOf
      <4>3. Total(SizesOf(c)', Used(c)') \in Nat /\ Total(SizesOf(c)', BoundSlots(c)') \in Nat
        BY <4>1, <4>2, TotalType
      <4> QED
        BY <4>3 DEF Total, TypeInv, Buffer
    <3>5. /\ allocated[c] = buffers[c][s].size + after /\ allocated[c] <= MemoryLimit
          /\ bound[c] = IF IsBound(c, s) THEN buffers[c][s].size + left ELSE left
          /\ bound[c] <= ApertureLimit
      BY <1>1, <2>3, <3>3 DEF AccountInv
    <3> HIDE DEF after, left
    <3>6. /\ allocated'[c] = after /\ allocated'[c] <= MemoryLimit
          /\ bound'[c] = left /\ bound'[c] <= ApertureLimit
      BY <1>1, <3>1, <3>4, <3>5
    <3> QED
      BY <2>3, <3>6 DEF AccountInv, after, left
  <2> QED
    BY <2>2, <2>3
<1>6. ASSUME NEW c \in Clients, NEW s \in Slots, BindBuffer(c, s)
      PROVE  AccountInv(d)'
  <2>1. PICK address \in FirstFit(buffers[c][s].size) :
          buffers' = [buffers EXCEPT ![c][s].address = address]
    BY <1>6 DEF BindBuffer, Bind
  <2>2. /\ allocated' = allocated /\ s \in Used(c) /\ ~IsBound(c, s)
        /\ bound' = [bound EXCEPT ![c] = @ + buffers[c][s].size]
        /\ buffers[c][s].size <= ApertureLimit - bound[c]
    BY <1>6 DEF BindBuffer, MayBind, WithinLimit
  <2>3. CASE d # c
    BY <1>2, <2>1, <2>2, <2>3 DEF AccountType, TypeInv
  <2>4. CASE d = c
    <3>1. address # None /\ buffers[c][s].size \in Nat
      BY ClientAssumption DEF FirstFit, GttPages, TypeInv, Buffer
    <3>2. /\ buffers'[c][s].handle = buffers[c][s].handle
          /\ buffers'[c][s].size = buffers[c][s].size /\ buffers'[c][s].address = address
          /\ \A o \in Slots \ {s} : buffers'[c][o] = buffers[c][o]
          /\ bound'[c] = bound[c] + buffers[c][s].size
      BY <2>1, <2>2 DEF AccountType, TypeInv, Buffer
    <3>3. s \in Used(c)' /\ s \notin BoundSlots(c) /\ s \in BoundSlots(c)'
      BY <2>2, <3>1, <3>2 DEF Used, BoundSlots, IsBound
    <3>4. /\ Total(SizesOf(c), Used(c))' = Total(SizesOf(c), Used(c))
          /\ Total(SizesOf(c), BoundSlots(c))' =
               buffers[c][s].size + Total(SizesOf(c), BoundSlots(c))
      BY <2>2, <3>2, <3>3, AccountSlot
    <3> QED
      BY <1>1, <2>2, <2>4, <3>1, <3>2, <3>4 DEF AccountInv
  <2> QED
    BY <2>3, <2>4
<1>7. ASSUME NEW c \in Clients, NEW s \in Slots, UnbindBuffer(c, s)
      PROVE  AccountInv(d)'
  <2>1. /\ buffers' = [buffers EXCEPT ![c][s].address = None]
        /\ allocated' = allocated /\ s \in Used(c) /\ IsBound(c, s)
        /\ bound' = [bound EXCEPT ![c] = @ - buffers[c][s].size]
    BY <1>7 DEF UnbindBuffer, Unbind
  <2>2. CASE d # c
    BY <1>2, <2>1, <2>2 DEF AccountType, TypeInv
  <2>3. CASE d = c
    <3>1. buffers[c][s].size \in Nat
      BY DEF TypeInv, Buffer
    <3>2. /\ buffers'[c][s].handle = buffers[c][s].handle
          /\ buffers'[c][s].size = buffers[c][s].size /\ buffers'[c][s].address = None
          /\ \A o \in Slots \ {s} : buffers'[c][o] = buffers[c][o]
          /\ bound'[c] = bound[c] - buffers[c][s].size
      BY <2>1 DEF AccountType, TypeInv, Buffer
    <3>3. s \in Used(c)' /\ s \in BoundSlots(c) /\ s \notin BoundSlots(c)'
      BY <2>1, <3>2 DEF Used, BoundSlots, IsBound
    <3> DEFINE left == Total(SizesOf(c), BoundSlots(c))'
    <3>4. /\ Total(SizesOf(c), Used(c))' = Total(SizesOf(c), Used(c))
          /\ Total(SizesOf(c), BoundSlots(c)) = buffers[c][s].size + left
      BY <2>1, <3>2, <3>3, AccountSlot
    <3>5. left \in Nat
      <4>1. IsFiniteSet(Slots)
        BY ClientAssumption
      <4>2. BoundSlots(c)' \in SUBSET Slots
        BY DEF Used, BoundSlots
      <4>3. IsFiniteSet(BoundSlots(c)')
        BY <4>1, <4>2, FS_Subset
      <4>4. \A o \in BoundSlots(c)' : SizesOf(c)'[o] \in Nat
        BY <4>2 DEF TypeInv, Buffer, SizesOf
      <4>5. Total(SizesOf(c)', BoundSlots(c)') \in Nat
        BY <4>3, <4>4, TotalType
      <4> QED
        BY <4>5 DEF Total
    <3>6. /\ allocated[c] = Total(SizesOf(c), Used(c)) /\ allocated[c] <= MemoryLimit
          /\ bound[c] = buffers[c][s].size + left /\ bound[c] <= ApertureLimit
      BY <1>1, <2>3, <3>4 DEF AccountInv
    <3> HIDE DEF left
    <3>7. bound'[c] = left /\ bound'[c] <= ApertureLimit
      BY <1>1, <3>1, <3>2, <3>5, <3>6
    <3> QED
      BY <2>1, <2>3, <3>4, <3>6, <3>7 DEF AccountInv, left
  <2> QED
    BY <2>2, <2>3
<1>8. ASSUME UNCHANGED <<buffers, allocated, bound>>
      PROVE  AccountInv(d)'
  BY <1>2, <1>8
<1>9. ASSUME NEW c \in Clients,
             \/ Open(c) \/ Rendering(c)
             \/ \E s \in Slots :
                  \/ BindBufferFails(c, s) \/ UnbindVirtual(c, s)
                  \/ \E address \in VirtualPages :
                       BindVirtual(c, s, address) \/ BindVirtualFails(c, s, address)
      PROVE  AccountInv(d)'
  <2>1. UNCHANGED <<buffers, allocated, bound>>
    BY <1>9 DEF Open, Rendering, CreateContext, DestroyContext, SubmitObjects, SubmitBatch,
                SubmitDone, SubmitTimeout, BindBufferFails, UnbindVirtual, BindVirtual,
                BindVirtualFails, files
  <2> QED
    BY <1>8, <2>1
<1>10. CASE UNCHANGED vars \/ \E e \in Engines : GpuFinish(e)
  BY <1>8, <1>10 DEF GpuFinish, vars, files
<1> QED
  BY <1>3, <1>4, <1>5, <1>6, <1>7, <1>9, <1>10 DEF Next, Buffering

\* The fold of AccountsBalance is this sum.
LEMMA FoldIsTotal ==
  ASSUME NEW c \in Clients, NEW X \in SUBSET Slots
  PROVE  MapThenSumSet(LAMBDA s : buffers[c][s].size, X) = Total(SizesOf(c), X)
<1> DEFINE Sums(h) == h = [Y \in SUBSET X |->
                             IF Y = {} THEN 0
                             ELSE buffers[c][CHOOSE x \in Y : TRUE].size
                                    + h[Y \ {CHOOSE x \in Y : TRUE}]]
           fold == CHOOSE h : Sums(h)
<1>1. IsFiniteSet(X)
  BY ClientAssumption, FS_Subset
<1>2. \A Y \in SUBSET X : Y # {} =>
        buffers[c][CHOOSE x \in Y : TRUE].size = SizesOf(c)[First(Y)]
  <2>1. \A Y \in SUBSET X : Y # {} => First(Y) \in Slots
    BY FirstIs
  <2>2. \A Y : First(Y) = CHOOSE x \in Y : TRUE
    BY DEF First
  <2>3. \A s \in Slots : SizesOf(c)[s] = buffers[c][s].size
    BY DEF SizesOf
  <2> QED
    BY <2>1, <2>2, <2>3
<1>3. ASSUME NEW h
      PROVE  Sums(h) <=> Adds(h, SizesOf(c), X)
  <2>2. [Y \in SUBSET X |-> IF Y = {} THEN 0
                            ELSE buffers[c][CHOOSE x \in Y : TRUE].size
                                   + h[Y \ {CHOOSE x \in Y : TRUE}]]
        = [Y \in SUBSET X |-> IF Y = {} THEN 0
                              ELSE SizesOf(c)[First(Y)] + h[Y \ {First(Y)}]]
    <3>1. ASSUME NEW Y \in SUBSET X, Y # {}
          PROVE  buffers[c][CHOOSE x \in Y : TRUE].size + h[Y \ {CHOOSE x \in Y : TRUE}]
                   = SizesOf(c)[First(Y)] + h[Y \ {First(Y)}]
      <4>1. buffers[c][CHOOSE x \in Y : TRUE].size = SizesOf(c)[First(Y)]
        BY <1>2, <3>1
      <4>2. h[Y \ {CHOOSE x \in Y : TRUE}] = h[Y \ {First(Y)}]
        BY Zenon DEF First
      <4> QED
        BY <4>1, <4>2, Zenon
    <3> QED
      BY <3>1, Zenon
  <2> QED
    BY <2>2 DEF Adds
<1>4. MapThenSumSet(LAMBDA s : buffers[c][s].size, X) = fold[X]
  BY Zenon DEF MapThenSumSet, MapThenFoldSet
<1> HIDE DEF Sums
<1>5. \E h : Sums(h)
  BY <1>1, <1>3, SumExists
<1>6. Sums(fold)
  BY <1>5, Zenon
<1> HIDE DEF fold
<1>7. PICK sum : Adds(sum, SizesOf(c), X) /\ Total(SizesOf(c), X) = sum[X]
  BY <1>1, TotalIs
<1>8. X \in SUBSET X
  OBVIOUS
<1>9. fold[X] = sum[X]
  BY <1>1, <1>3, <1>6, <1>7, <1>8, SumSame
<1> QED
  BY <1>4, <1>7, <1>9, Zenon

-----------------------------------------------------------------------------
(* The theorems. *)

LEMMA InitIInv == Init => IInv
<1> SUFFICES ASSUME Init
             PROVE  IInv
  OBVIOUS
<1>1. TypeInv
  <2>1. buffers \in [Clients -> [Slots -> Buffer]]
    BY BufferType DEF Init
  <2> QED
    BY <2>1 DEF Init, TypeInv
<1>2. \A c \in Clients : SpaceInv(c)
  BY DEF Init, SpaceInv, Covers
<1>3. GpuInv
  BY DEF Init, GpuInv
<1> QED
  BY <1>1, <1>2, <1>3 DEF IInv

\* A client holds its contexts and the pages of its buffers.
LEMMA HeldIs ==
  ASSUME NEW c \in Clients
  PROVE  /\ \A e \in engines[c] : LegacyContext(c, e) \in Held(c)
         /\ \A i \in contexts[c] : NativeContext(c, i) \in Held(c)
         /\ \A s \in Used(c) : \A i \in 0 .. buffers[c][s].size - 1 :
              Page(c, buffers[c][s].handle, i) \in Held(c)
<1>1. \A s \in Used(c) : PagesOf(c, s) \subseteq Held(c)
  BY DEF Held
<1>2. ContextsOf(c) \subseteq Held(c)
  BY DEF Held
<1>3. \A e \in engines[c] : LegacyContext(c, e) \in Held(c)
  BY DEF Held
<1> QED
  BY <1>1, <1>2, <1>3 DEF PagesOf, ContextsOf

\* No operation, and no failure of one, breaks the invariant.
THEOREM ClientInvariance == Spec => []IInv
<1>1. IInv /\ [Next]_vars => IInv'
  BY TypeStep, SpaceStep, GpuStep DEF IInv
<1> QED
  BY <1>1, InitIInv, PTL DEF Spec

\* The native address space of a file maps its bound buffers, whole and at
\* their own addresses, and scratch everywhere else, whatever was bound,
\* unbound, closed or failed before (kBindVirtual, kUnbindVirtual).
THEOREM VirtualIsExact == Spec => []VirtualExact
<1>1. IInv => VirtualExact
  BY DEF IInv, SpaceInv, VirtualExact, Covers
<1> QED
  BY <1>1, ClientInvariance, PTL

\* What a native context reaches through its page tables exists, even when its
\* submission has timed out and the file was closed: ~RenderClient, and the
\* lock held over RenderEngine::Submit.
THEOREM NativeTargetsLive == Spec => []DmaTargetsLive
<1>1. IInv => DmaTargetsLive
  <2> SUFFICES ASSUME IInv, NEW e \in Engines, gpu[e] # None, gpu[e][2] = "native"
               PROVE  Reached(e) \subseteq Live \cup {Scratch}
    BY DEF DmaTargetsLive
  <2>1. PICK c \in Clients : \E i \in contexts[c] : gpu[e] = NativeContext(c, i)
    BY DEF IInv, GpuInv, LegacyContext
  <2>2. gpu[e][1] = c
    BY <2>1 DEF NativeContext
  <2>3. Held(c) \subseteq Live
    BY DEF Live
  <2>4. gpu[e] \in Live
    <3>1. PICK i \in contexts[c] : gpu[e] = NativeContext(c, i)
      BY <2>1
    <3>2. gpu[e] \in Held(c)
      BY <3>1, HeldIs
    <3> QED
      BY <2>3, <3>2
  <2>5. DOMAIN vm[c] = VirtualPages
    BY DEF IInv, TypeInv
  <2>6. ASSUME NEW a \in VirtualPages
        PROVE  vm[c][a] \in Live \cup {Scratch}
    <3>1. CASE \A s \in Slots : ~Covers(c, s, a)
      BY <3>1 DEF IInv, SpaceInv
    <3>2. CASE \E s \in Slots : Covers(c, s, a)
      <4>1. PICK s \in Slots : Covers(c, s, a)
        BY <3>2
      <4>2. vm[c][a] = Page(c, buffers[c][s].handle, a - addresses[c][s])
        BY <4>1 DEF IInv, SpaceInv
      <4>3. s \in Used(c)
        BY <4>1 DEF IInv, SpaceInv, Covers, Used
      <4>4. addresses[c][s] \in Nat /\ buffers[c][s].size \in Nat /\ a \in Int
        BY DEF IInv, TypeInv, Buffer, VirtualPages
      <4>5. a - addresses[c][s] \in 0 .. buffers[c][s].size - 1
        BY <4>1, <4>4 DEF Covers, Run
      <4>6. vm[c][a] \in Held(c)
        BY <4>2, <4>3, <4>5, HeldIs
      <4> QED
        BY <2>3, <4>6
    <3> QED
      BY <3>1, <3>2
  <2> QED
    BY <2>2, <2>4, <2>5, <2>6 DEF Reached
<1> QED
  BY <1>1, ClientInvariance, PTL
\* Nothing is bound before a file is opened.
LEMMA InitAperture == Init => ApertureInv
<1> SUFFICES ASSUME Init
             PROVE  ApertureInv
  OBVIOUS
<1>1. ApertureType
  <2>1. 1 \in 0 .. HandleModulus - 1
    BY ClientAssumption
  <2>2. TableType(table)
    BY DEF Init, TableType
  <2> QED
    BY <2>1, <2>2 DEF Init, ApertureType, EmptyGtt
<1>2. \A c \in Clients, s \in Slots : buffers[c][s].handle = 0
  BY DEF Init, NoBuffer
<1>3. \A c \in Clients : HandleInv(c)
  BY <1>2 DEF Init, HandleInv
<1>4. GttInv /\ TableInv
  BY <1>2 DEF GttInv, TableInv, BoundAt
<1>5. RestInv
  BY DEF Init, RestInv, EmptyGtt
<1> QED
  BY <1>1, <1>3, <1>4, <1>5 DEF ApertureInv

\* What is bound in the aperture stays in its place, whatever the files do.
THEOREM ApertureInvariance == Spec => []ApertureInv
<1>1. IInv /\ ApertureInv /\ [Next]_vars => ApertureInv'
  BY ApertureTypeStep, HandleStep, PlaceStep DEF IInv, ApertureInv
<1> QED
  BY <1>1, InitAperture, ClientInvariance, PTL DEF Spec

\* The aperture has exactly the bound buffers, each whole and in one place, and
\* the contexts of the files; the page tables of every engine a batch may be
\* submitted to agree with it, after binds that failed, after timeouts and after
\* files were closed (kBindBuffer, kUnbindBuffer, kCloseBuffer, ~RenderClient).
THEOREM ApertureIsExact == Spec => []ApertureExact
<1>1. IInv /\ ApertureInv => ApertureExact
  <2> SUFFICES ASSUME IInv, ApertureInv
               PROVE  ApertureExact
    OBVIOUS
  <2>1. ASSUME NEW c \in Clients, NEW s \in Slots
        PROVE  buffers[c][s].size \in Nat /\ buffers[c][s].address \in Nat \cup {None}
    BY DEF IInv, TypeInv, Buffer
  <2>2. ASSUME NEW a \in GttPages
        PROVE  gtt[a] \in Live \cup {Scratch}
    <3>1. a \in Int
      BY DEF GttPages
    <3>2. CASE ContextPage(gtt[a])
      <4>1. PICK c \in Clients : \/ \E e \in engines[c] : gtt[a] = LegacyContext(c, e)
                                 \/ \E i \in contexts[c] : gtt[a] = NativeContext(c, i)
        BY <3>2 DEF ContextPage
      <4>2. gtt[a] \in Held(c)
        BY <4>1, HeldIs
      <4> QED
        BY <4>2 DEF Live
    <3>3. CASE \E c \in Clients, s \in Slots : BoundAt(c, s, a)
      <4>1. PICK c \in Clients, s \in Slots : BoundAt(c, s, a)
        BY <3>3
      <4>2. gtt[a] = Page(c, buffers[c][s].handle, a - buffers[c][s].address) /\ s \in Used(c)
        BY <3>1, <4>1 DEF ApertureInv, GttInv, Placed, BoundAt, Used
      <4>3. buffers[c][s].size \in Nat /\ buffers[c][s].address \in Nat
        BY <2>1, <4>1 DEF BoundAt
      <4>4. a - buffers[c][s].address \in 0 .. buffers[c][s].size - 1
        BY <3>1, <4>1, <4>3 DEF BoundAt, Run
      <4>5. gtt[a] \in Held(c)
        BY <4>2, <4>4, HeldIs
      <4> QED
        BY <4>5 DEF Live
    <3> QED
      BY <3>2, <3>3 DEF ApertureInv, RestInv
  <2>3. ASSUME NEW c \in Clients, NEW s \in Used(c), IsBound(c, s),
               NEW i \in 0 .. buffers[c][s].size - 1
        PROVE  /\ gtt[buffers[c][s].address + i] = Page(c, buffers[c][s].handle, i)
               /\ \A e \in Ready(c) : table[c][e][buffers[c][s].address + i] =
                                        Page(c, buffers[c][s].handle, i)
    <3>1. s \in Slots /\ buffers[c][s].handle # 0
      BY DEF Used
    <3>2. buffers[c][s].size \in Nat /\ buffers[c][s].address \in Nat
      BY <2>1, <2>3, <3>1 DEF IsBound
    <3>3. PICK a \in Int : a = buffers[c][s].address + i
      BY <3>2
    <3>4. a \in Run(buffers[c][s].address, buffers[c][s].size) /\ a - buffers[c][s].address = i
      BY <3>2, <3>3 DEF Run
    <3>5. BoundAt(c, s, a)
      BY <2>3, <3>1, <3>4 DEF BoundAt, IsBound
    <3>6. Placed(c, s, a) = Page(c, buffers[c][s].handle, i)
      BY <3>4 DEF Placed
    <3>7. gtt[a] = Placed(c, s, a) /\ \A e \in Ready(c) : table[c][e][a] = Placed(c, s, a)
      BY <3>1, <3>5 DEF ApertureInv, GttInv, TableInv
    <3> QED
      BY <3>3, <3>6, <3>7
  <2>4. ASSUME NEW c \in Clients, NEW s \in Used(c), ~IsBound(c, s),
               NEW a \in GttPages, NEW i \in 0 .. buffers[c][s].size - 1
        PROVE  gtt[a] # Page(c, buffers[c][s].handle, i)
    <3> SUFFICES ASSUME gtt[a] = Page(c, buffers[c][s].handle, i)
                 PROVE  FALSE
      OBVIOUS
    <3>1. s \in Slots /\ buffers[c][s].handle # 0 /\ a \in Int
      BY DEF Used, GttPages
    <3>2. gtt[a] # Scratch /\ ~ContextPage(gtt[a])
      BY NamesDiffer DEF ContextPage
    <3>3. PICK d \in Clients, o \in Slots : BoundAt(d, o, a)
      BY <3>2 DEF ApertureInv, RestInv
    <3>4. gtt[a] = Page(d, buffers[d][o].handle, a - buffers[d][o].address)
      BY <3>1, <3>3 DEF ApertureInv, GttInv, Placed
    <3>5. d = c /\ buffers[d][o].handle = buffers[c][s].handle
      BY <3>4 DEF Page
    <3>6. o = s
      BY <3>1, <3>5 DEF ApertureInv, HandleInv
    <3> QED
      BY <2>4, <3>3, <3>5, <3>6 DEF BoundAt, IsBound
  <2>5. {gtt[a] : a \in GttPages} \subseteq Live \cup {Scratch}
    BY <2>2
  <2>6. ASSUME NEW c \in Clients, NEW s \in Used(c), IsBound(c, s)
        PROVE  MappedForItsEngines(c, buffers[c][s])
    BY <2>3, <2>6 DEF MappedForItsEngines
  <2> QED
    BY <2>3, <2>4, <2>5, <2>6 DEF ApertureExact
<1> QED
  BY <1>1, ClientInvariance, ApertureInvariance, PTL
\* A client that has nothing owes nothing.
LEMMA InitAccounts == Init => AccountType /\ \A c \in Clients : AccountInv(c)
<1> SUFFICES ASSUME Init
             PROVE  AccountType /\ \A c \in Clients : AccountInv(c)
  OBVIOUS
<1>1. AccountType
  BY DEF Init, AccountType
<1>2. ASSUME NEW c \in Clients
      PROVE  AccountInv(c)
  <2>1. \A s \in Slots : buffers[c][s].handle = 0
    BY DEF Init, NoBuffer
  <2>2. Used(c) = {} /\ BoundSlots(c) = {}
    BY <2>1 DEF Used, BoundSlots
  <2>3. allocated[c] = 0 /\ bound[c] = 0 /\ 0 <= MemoryLimit /\ 0 <= ApertureLimit
    BY ClientAssumption DEF Init
  <2> QED
    BY <2>2, <2>3, TotalEmpty DEF AccountInv
<1> QED
  BY <1>1, <1>2

\* What a file is charged for memory and for the aperture is what its buffers take,
\* whatever was closed, unbound or failed before, and never more than the ABI
\* allows (fAllocated, fBound, kClientMemoryLimit, kClientApertureLimit).
THEOREM AccountsAreExact == Spec => []AccountsBalance
<1> DEFINE Inv == IInv /\ AccountType /\ \A c \in Clients : AccountInv(c)
<1>1. Init => Inv
  BY InitIInv, InitAccounts
<1>2. Inv /\ [Next]_vars => Inv'
  BY TypeStep, SpaceStep, GpuStep, AccountTypeStep, AccountStep DEF IInv
<1>3. Inv => AccountsBalance
  <2> SUFFICES ASSUME Inv, NEW c \in Clients
               PROVE  /\ allocated[c] = MapThenSumSet(LAMBDA s : buffers[c][s].size, Used(c))
                      /\ bound[c] = MapThenSumSet(LAMBDA s : buffers[c][s].size,
                                                  {s \in Used(c) : IsBound(c, s)})
                      /\ allocated[c] \in 0 .. MemoryLimit /\ bound[c] \in 0 .. ApertureLimit
    BY Zenon DEF AccountsBalance
  <2>1. MapThenSumSet(LAMBDA s : buffers[c][s].size, Used(c)) = Total(SizesOf(c), Used(c))
    BY SlotsAreFinite, FoldIsTotal, Zenon
  <2>2. MapThenSumSet(LAMBDA s : buffers[c][s].size, BoundSlots(c))
          = Total(SizesOf(c), BoundSlots(c))
    BY SlotsAreFinite, FoldIsTotal, Zenon
  <2>3. /\ allocated[c] = Total(SizesOf(c), Used(c)) /\ allocated[c] <= MemoryLimit
        /\ bound[c] = Total(SizesOf(c), BoundSlots(c)) /\ bound[c] <= ApertureLimit
        /\ allocated[c] \in Nat /\ bound[c] \in Nat
    BY DEF AccountInv, AccountType
  <2>4. allocated[c] \in 0 .. MemoryLimit /\ bound[c] \in 0 .. ApertureLimit
    BY <2>3, ClientAssumption
  <2> QED
    BY <2>1, <2>2, <2>3, <2>4, Zenon DEF BoundSlots
<1> QED
  BY <1>1, <1>2, <1>3, PTL DEF Spec
===============================================================================
