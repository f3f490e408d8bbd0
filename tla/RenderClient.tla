----------------------------- MODULE RenderClient -----------------------------
(***************************************************************************)
(* The open files of the render node and the memory they let the GPU reach: *)
(* class RenderClient of kernel/RenderClient.cpp, with the buffers, the    *)
(* shared global GTT and the page tables of each engine context.           *)
(*                                                                         *)
(* An ioctl runs under the lock of its client from its first test to its   *)
(* return, so each is one action, except the two that submit: they hold    *)
(* the lock while the GPU works, and other clients go on.  An engine is    *)
(* what RenderEngine shows it to be: it has one context at a time, and     *)
(* after a timeout (Fault) no other.                                       *)
(*                                                                         *)
(* Addresses and sizes are counted in pages, the range a client may use of *)
(* each address space starting at 1 (an address of 0 means none).  A page  *)
(* of memory is named by who it was allocated for, so memory that is freed *)
(* and allocated again has another name.                                   *)
(***************************************************************************)
EXTENDS Integers, FiniteSets, FiniteSetsExt

CONSTANTS
  Clients,        \* open files of the device
  None,           \* no address, no context
  Engines,        \* {0, 1}: the blitter and the render engine
  Slots,          \* indices of fBuffers
  ContextSlots,   \* indices of NativeState::contexts
  Sizes,          \* sizes of buffers a client may ask for
  GttSize,        \* pages the global GTT manages
  VirtualSize,    \* kVirtualAddressLimit
  MemoryLimit,    \* kClientMemoryLimit
  ApertureLimit,  \* kClientApertureLimit
  HandleModulus,  \* 2^32: the width of a handle
  Legacy, Native, \* the clients that use kSubmit, and kSubmitObjects
  CompletedLimit  \* bound: native submissions of a client

RenderIndex == 1  \* fEngines[1]

ASSUME ClientAssumption ==
  /\ Engines \subseteq {0, 1}
  /\ Sizes \subseteq Nat \ {0} /\ Slots \subseteq Nat /\ IsFiniteSet(Slots)
  /\ GttSize \in Nat /\ VirtualSize \in Nat
  /\ MemoryLimit \in Nat /\ ApertureLimit \in Nat
  /\ HandleModulus \in Nat /\ HandleModulus > 1
  /\ Legacy \subseteq Clients /\ Native \subseteq Clients /\ CompletedLimit \in Nat
  /\ None \notin Nat
  /\ None \notin [engine : Engines, native : BOOLEAN, objects : SUBSET Slots]

VARIABLES
  state,         \* of a file: "closed", "open" or "quarantined"
  buffers,       \* fBuffers, fHandles and the GTT address of each buffer
  addresses,     \* NativeState::addresses
  nextHandle,    \* fNextHandle
  allocated,     \* fAllocated
  bound,         \* fBound
  engines,       \* the engines for which fEngines is not NULL
  faultedIn,     \* engines in whose own context (fEngines) a submit timed out
  nativeFaulted, \* NativeState::faulted
  contexts,      \* the slots of NativeState::contexts in use
  completed,     \* NativeState::completed
  waiting,       \* the submission a client waits for with its lock held
  gtt,           \* the entries of the global GTT
  table,         \* the page tables of fEngines
  vm,            \* the page tables of NativeState
  scheduler,     \* engines whose scheduler has faulted
  gpu            \* the memory of the context each engine works for, or None

files  == <<state, buffers, addresses, nextHandle, allocated, bound, engines>>
render == <<faultedIn, nativeFaulted, contexts, completed, waiting>>
memory == <<gtt, table, vm>>
vars   == <<files, render, memory, scheduler, gpu>>

GttPages     == 1 .. GttSize
VirtualPages == 1 .. VirtualSize
Run(first, count) == first .. first + count - 1

Scratch  == <<None, "scratch", 0, 0>>
NoBuffer == [handle |-> 0, size |-> 0, address |-> None]

\* The page i of a buffer, and the memory of an engine context.
Page(c, handle, i) == <<c, "buffer", handle, i>>
LegacyContext(c, e) == <<c, "legacy", e, 0>>
NativeContext(c, i) == <<c, "native", i, 0>>

\* A buffer with memory of its own, and the GTT with nothing but scratch.
NewBuffer(handle, size) == [handle |-> handle, size |-> size, address |-> None]
EmptyGtt == [a \in GttPages |-> Scratch]

Init ==
  /\ state = [c \in Clients |-> "closed"]
  /\ buffers = [c \in Clients |-> [s \in Slots |-> NoBuffer]]
  /\ addresses = [c \in Clients |-> [s \in Slots |-> 0]]
  /\ nextHandle = [c \in Clients |-> 1]
  /\ allocated = [c \in Clients |-> 0]
  /\ bound = [c \in Clients |-> 0]
  /\ engines = [c \in Clients |-> {}]
  /\ faultedIn = [c \in Clients |-> {}]
  /\ nativeFaulted = [c \in Clients |-> FALSE]
  /\ contexts = [c \in Clients |-> {}]
  /\ completed = [c \in Clients |-> 0]
  /\ waiting = [c \in Clients |-> None]
  /\ gtt = EmptyGtt
  /\ table = [c \in Clients |-> [e \in Engines |-> [a \in GttPages |-> Scratch]]]
  /\ vm = [c \in Clients |-> [a \in VirtualPages |-> Scratch]]
  /\ scheduler = {}
  /\ gpu = [e \in Engines |-> None]

-----------------------------------------------------------------------------
(***************************************************************************)
(* Helpers.                                                                *)
(***************************************************************************)
\* fBuffers[slot] is not NULL, and what _Find finds.
Used(c) == {s \in Slots : buffers[c][s].handle # 0}

IsBound(c, s) == buffers[c][s].address # None

\* The engines that MapBuffer and UnmapBuffer are called for: IsReady().
Ready(c) == {e \in engines[c] : e \notin faultedIn[c] /\ e \notin scheduler}

\* The client's lock is free, and Ioctl does not refuse the operation.
Locked(c) == state[c] = "open" /\ waiting[c] = None /\ ~nativeFaulted[c]

FreePages == {a \in GttPages : gtt[a] = Scratch}

\* Where GlobalGTT::Bind puts count pages, if anywhere: the first fit.
FirstFit(count) ==
  LET fits == {a \in GttPages : Run(a, count) \subseteq FreePages}
  IN {a \in fits : \A other \in fits : a <= other}

\* entries, with the pages of a buffer at an address (MapBuffer), the first
\* count of them, or with scratch pages in a range (Unmap, Unbind).
Mapped(entries, address, c, b, count) ==
  [a \in DOMAIN entries |->
     IF a \in Run(address, count) THEN Page(c, b.handle, a - address) ELSE entries[a]]

Unmapped(entries, address, count) ==
  [a \in DOMAIN entries |-> IF a \in Run(address, count) THEN Scratch ELSE entries[a]]

\* GlobalGTT::Bind of a buffer at an address, and Unbind.
GttBound(c, b, address) == Mapped(gtt, address, c, b, b.size)
GttUnbound(b) == Unmapped(gtt, b.address, b.size)

\* The engine page tables of a client without the buffer in a slot: engines
\* that are not ready are skipped.
TablesWithout(c, b) ==
  [e \in Engines |-> IF e \in Ready(c) THEN Unmapped(table[c][e], b.address, b.size)
                     ELSE table[c][e]]

\* The page tables when the engines were tried in order and the map of
\* engine last stopped after count pages.
TablesUpTo(c, b, address, last, count) ==
  [e \in Engines |->
     IF e \notin Ready(c) \/ e > last THEN table[c][e]
     ELSE Mapped(table[c][e], address, c, b, IF e = last THEN count ELSE b.size)]

-----------------------------------------------------------------------------
(***************************************************************************)
(* Opening and closing the device.  Each engine context that is made binds *)
(* its own memory in the GTT; one that cannot be made is done without.     *)
(***************************************************************************)
Open(c) ==
  /\ state[c] = "closed"
  /\ state' = [state EXCEPT ![c] = "open"]
  /\ \E made \in SUBSET (Engines \ scheduler) :
     \E place \in [made -> FreePages] :
       /\ \A e, f \in made : e < f => place[e] < place[f]
       /\ \A e \in made : \A a \in FreePages : a < place[e] => \E f \in made : place[f] = a
       /\ engines' = [engines EXCEPT ![c] = made]
       /\ gtt' = [a \in GttPages |->
                    IF \E e \in made : place[e] = a
                      THEN LegacyContext(c, CHOOSE e \in made : place[e] = a)
                      ELSE gtt[a]]
  /\ nextHandle' = [nextHandle EXCEPT ![c] = 1]
  /\ UNCHANGED <<buffers, addresses, allocated, bound, render, table, vm,
                 scheduler, gpu>>

\* Variant with a bug: the fault of a native context is forgotten.
QuarantinedLegacyOnly(c) == faultedIn[c] # {}

\* ~RenderClient: a timed out GPU may still access every buffer in its VM.
Quarantined(c) == nativeFaulted[c] \/ faultedIn[c] # {}

\* Everything of the client goes, or nothing does.
Close(c) ==
  /\ state[c] = "open" /\ waiting[c] = None
  /\ IF Quarantined(c)
       THEN /\ state' = [state EXCEPT ![c] = "quarantined"]
            /\ UNCHANGED <<buffers, addresses, nextHandle, allocated, bound,
                           engines, render, memory>>
       ELSE /\ state' = [state EXCEPT ![c] = "closed"]
            /\ buffers' = [buffers EXCEPT ![c] = [s \in Slots |-> NoBuffer]]
            /\ addresses' = [addresses EXCEPT ![c] = [s \in Slots |-> 0]]
            /\ allocated' = [allocated EXCEPT ![c] = 0]
            /\ bound' = [bound EXCEPT ![c] = 0]
            /\ engines' = [engines EXCEPT ![c] = {}]
            /\ contexts' = [contexts EXCEPT ![c] = {}]
            /\ nativeFaulted' = [nativeFaulted EXCEPT ![c] = FALSE]
            /\ completed' = [completed EXCEPT ![c] = 0]
            /\ gtt' = [a \in GttPages |-> IF gtt[a][1] = c THEN Scratch ELSE gtt[a]]
            /\ table' = [table EXCEPT ![c] = [e \in Engines |-> [a \in GttPages |-> Scratch]]]
            /\ vm' = [vm EXCEPT ![c] = [a \in VirtualPages |-> Scratch]]
            /\ UNCHANGED <<nextHandle, faultedIn, waiting>>
  /\ UNCHANGED <<scheduler, gpu>>

-----------------------------------------------------------------------------
(***************************************************************************)
(* Buffers.                                                                *)
(***************************************************************************)
\* kClientMemoryLimit, kClientApertureLimit.
WithinLimit(used, size, limit) == size <= limit - used

\* fNextHandle wrapped to zero.
HandlesExhausted(c) == nextHandle[c] = 0

\* kCreateBuffer, in the first free slot.  A handle that could not be handed
\* out is lost.
CreateBuffer(c, size) ==
  /\ Locked(c)
  /\ ~HandlesExhausted(c) /\ WithinLimit(allocated[c], size, MemoryLimit)
  /\ nextHandle' = [nextHandle EXCEPT ![c] = (@ + 1) % HandleModulus]
  /\ \E s \in Slots \ Used(c) :
       /\ \A other \in Slots \ Used(c) : s <= other
       /\ \/ /\ buffers' = [buffers EXCEPT ![c][s] =
                  NewBuffer(nextHandle[c], size)]
             /\ allocated' = [allocated EXCEPT ![c] = @ + size]
          \/ UNCHANGED <<buffers, allocated>>
  /\ UNCHANGED <<state, addresses, bound, engines, render, memory, scheduler,
                 gpu>>

\* Without a native address there is nothing to do.
UnmapVirtual(c, s) ==
  IF addresses[c][s] = 0 THEN UNCHANGED <<addresses, vm>>
  ELSE /\ addresses' = [addresses EXCEPT ![c][s] = 0]
       /\ vm' = [vm EXCEPT ![c] = Unmapped(@, addresses[c][s], buffers[c][s].size)]

\* Variant with a bug: the buffer is not unbound when it is deleted.
CloseBufferStillBound(c, s) ==
  LET b == buffers[c][s]
  IN /\ Locked(c) /\ s \in Used(c)
     /\ IF IsBound(c, s)
          THEN /\ table' = [table EXCEPT ![c] = TablesWithout(c, b)]
               /\ bound' = [bound EXCEPT ![c] = @ - b.size]
          ELSE UNCHANGED <<table, bound>>
     /\ UnmapVirtual(c, s)
     /\ allocated' = [allocated EXCEPT ![c] = @ - b.size]
     /\ buffers' = [buffers EXCEPT ![c][s] = NoBuffer]
     /\ UNCHANGED <<state, nextHandle, engines, render, gtt, scheduler, gpu>>

\* kCloseBuffer: the mappings go, the buffer unbinds itself, its memory goes.
CloseBuffer(c, s) ==
  LET b == buffers[c][s]
  IN /\ Locked(c) /\ s \in Used(c)
     /\ IF IsBound(c, s)
          THEN /\ table' = [table EXCEPT ![c] = TablesWithout(c, b)]
               /\ gtt' = GttUnbound(b)
               /\ bound' = [bound EXCEPT ![c] = @ - b.size]
          ELSE UNCHANGED <<table, gtt, bound>>
     /\ UnmapVirtual(c, s)
     /\ allocated' = [allocated EXCEPT ![c] = @ - b.size]
     /\ buffers' = [buffers EXCEPT ![c][s] = NoBuffer]
     /\ UNCHANGED <<state, nextHandle, engines, render, scheduler, gpu>>

\* The tests of kBindBuffer.
MayBind(c, s) ==
  /\ Locked(c) /\ s \in Used(c)
  /\ addresses[c][s] = 0 /\ ~IsBound(c, s)
  /\ WithinLimit(bound[c], buffers[c][s].size, ApertureLimit)

\* The buffer object and the GTT agree.
Bind(c, s, address) ==
  /\ buffers' = [buffers EXCEPT ![c][s].address = address]
  /\ gtt' = GttBound(c, buffers[c][s], address)

Unbind(c, s) ==
  /\ gtt' = GttUnbound(buffers[c][s])
  /\ buffers' = [buffers EXCEPT ![c][s].address = None]

BindBuffer(c, s) ==
  LET b == buffers[c][s]
  IN /\ MayBind(c, s)
     /\ \E address \in FirstFit(b.size) :
          /\ Bind(c, s, address)
          /\ table' = [table EXCEPT ![c] = TablesUpTo(c, b, address, 2, 0)]
     /\ bound' = [bound EXCEPT ![c] = @ + b.size]
     /\ UNCHANGED <<state, addresses, nextHandle, allocated, engines, render,
                    vm, scheduler, gpu>>

\* Variant with a bug: what the caller is told fails after the accounting.
BindBufferLeaksRoom(c, s) ==
  LET b == buffers[c][s]
  IN /\ MayBind(c, s)
     /\ \E address \in FirstFit(b.size) : \E last \in Ready(c) \cup {2} :
        \E count \in 0 .. b.size - 1 :
          table' = [table EXCEPT ![c] = TablesUpTo(c, b, address, last, count)]
     /\ bound' = [bound EXCEPT ![c] = @ + b.size]
     /\ UNCHANGED <<state, buffers, addresses, nextHandle, allocated, engines,
                    render, gtt, vm, scheduler, gpu>>

\* The map of an engine fails part way, or the caller cannot be told (last is
\* 2): the buffer is unbound again, and the page tables are left as they are.
BindBufferFails(c, s) ==
  LET b == buffers[c][s]
  IN /\ MayBind(c, s)
     /\ \E address \in FirstFit(b.size) : \E last \in Ready(c) \cup {2} :
        \E count \in 0 .. b.size - 1 :
          table' = [table EXCEPT ![c] = TablesUpTo(c, b, address, last, count)]
     /\ UNCHANGED <<files, render, gtt, vm, scheduler, gpu>>

\* kUnbindBuffer.
UnbindBuffer(c, s) ==
  LET b == buffers[c][s]
  IN /\ Locked(c) /\ s \in Used(c) /\ IsBound(c, s)
     /\ Unbind(c, s)
     /\ table' = [table EXCEPT ![c] = TablesWithout(c, b)]
     /\ bound' = [bound EXCEPT ![c] = @ - b.size]
     /\ UNCHANGED <<state, addresses, nextHandle, allocated, engines, render,
                    vm, scheduler, gpu>>

-----------------------------------------------------------------------------
(***************************************************************************)
(* The native interface: fixed virtual addresses, contexts, submissions of *)
(* several buffers.                                                        *)
(***************************************************************************)
\* Variant with a bug: a range that starts inside another one is taken to be
\* free.
OverlapsStart(c, s, address) ==
  \E other \in Slots : addresses[c][other] = address

\* The requested range meets that of another buffer.
Overlaps(c, s, address) ==
  \E other \in Slots :
    /\ addresses[c][other] # 0
    /\ address < addresses[c][other] + buffers[c][other].size
    /\ addresses[c][other] < address + buffers[c][s].size

\* The tests of kBindVirtual; the address the buffer has already is not new.
MayBindVirtual(c, s, address) ==
  /\ c \in Native /\ Locked(c) /\ s \in Used(c)
  /\ buffers[c][s].size <= VirtualSize + 1 - address
  /\ addresses[c][s] = 0 /\ ~IsBound(c, s)
  /\ ~Overlaps(c, s, address)

BindVirtual(c, s, address) ==
  LET b == buffers[c][s]
  IN /\ MayBindVirtual(c, s, address)
     /\ addresses' = [addresses EXCEPT ![c][s] = address]
     /\ vm' = [vm EXCEPT ![c] = Mapped(@, address, c, b, b.size)]
     /\ UNCHANGED <<state, buffers, nextHandle, allocated, bound, engines,
                    render, gtt, table, scheduler, gpu>>

\* The map fails part way, and the whole range is unmapped.
BindVirtualFails(c, s, address) ==
  LET b == buffers[c][s]
  IN /\ MayBindVirtual(c, s, address)
     /\ vm' = [vm EXCEPT ![c] = Unmapped(@, address, b.size)]
     /\ UNCHANGED <<files, render, gtt, table, scheduler, gpu>>

UnbindVirtual(c, s) ==
  /\ c \in Native /\ Locked(c) /\ s \in Used(c)
  /\ UnmapVirtual(c, s)
  /\ UNCHANGED <<state, buffers, nextHandle, allocated, bound, engines, render,
                 gtt, table, scheduler, gpu>>

\* The context binds its memory in the GTT.
CreateContext(c) ==
  /\ c \in Native /\ Locked(c) /\ RenderIndex \in engines[c]
  /\ \E i \in ContextSlots \ contexts[c] : \E address \in FirstFit(1) :
       /\ \A other \in ContextSlots \ contexts[c] : i <= other
       /\ contexts' = [contexts EXCEPT ![c] = @ \cup {i}]
       /\ gtt' = [gtt EXCEPT ![address] = NativeContext(c, i)]
  /\ UNCHANGED <<files, faultedIn, nativeFaulted, completed, waiting, table, vm,
                 scheduler, gpu>>

DestroyContext(c, i) ==
  /\ c \in Native /\ Locked(c) /\ i \in contexts[c]
  /\ contexts' = [contexts EXCEPT ![c] = @ \ {i}]
  /\ gtt' = [a \in GttPages |-> IF gtt[a] = NativeContext(c, i) THEN Scratch ELSE gtt[a]]
  /\ UNCHANGED <<files, faultedIn, nativeFaulted, completed, waiting, table, vm,
                 scheduler, gpu>>

\* kSubmitObjects: every buffer the request names is found and has an address,
\* and the batch is one of them.
ObjectsMapped(c, objects, batch) ==
  /\ batch \in objects
  /\ \A s \in objects : s \in Used(c) /\ addresses[c][s] # 0

\* RenderEngine::Submit starts a batch: the engine's lock is free and no fault
\* is known to its scheduler.
Starts(c, e, context, objects) ==
  /\ e \notin scheduler /\ gpu[e] = None
  /\ gpu' = [gpu EXCEPT ![e] = context]
  /\ waiting' = [waiting EXCEPT ![c] =
       [engine |-> e, native |-> context # LegacyContext(c, e), objects |-> objects]]

SubmitObjects(c, i, objects, batch) ==
  /\ c \in Native /\ Locked(c) /\ i \in contexts[c]
  /\ completed[c] < CompletedLimit
  /\ ObjectsMapped(c, objects, batch)
  /\ Starts(c, RenderIndex, NativeContext(c, i), objects)
  /\ UNCHANGED <<files, faultedIn, nativeFaulted, contexts, completed, memory,
                 scheduler>>

\* kSubmit.
SubmitBatch(c, e, s) ==
  /\ c \in Legacy /\ Locked(c) /\ e \in Ready(c)
  /\ s \in Used(c) /\ IsBound(c, s)
  /\ Starts(c, e, LegacyContext(c, e), {s})
  /\ UNCHANGED <<files, faultedIn, nativeFaulted, contexts, completed, memory,
                 scheduler>>

\* The engine has run the batch and saved its context; it may do so late.
GpuFinish(e) ==
  /\ gpu[e] # None
  /\ gpu' = [gpu EXCEPT ![e] = None]
  /\ UNCHANGED <<files, render, memory, scheduler>>

\* The submission is complete and the ioctl returns.
SubmitDone(c) ==
  /\ waiting[c] # None /\ gpu[waiting[c].engine] = None
  /\ waiting' = [waiting EXCEPT ![c] = None]
  /\ completed' = [completed EXCEPT ![c] = IF waiting[c].native THEN @ + 1 ELSE @]
  /\ UNCHANGED <<files, faultedIn, nativeFaulted, contexts, memory, scheduler,
                 gpu>>

\* Neither the fence nor the save came in time.
SubmitTimeout(c) ==
  LET w == waiting[c]
  IN /\ w # None /\ gpu[w.engine] # None
     /\ waiting' = [waiting EXCEPT ![c] = None]
     /\ scheduler' = scheduler \cup {w.engine}
     /\ nativeFaulted' = [nativeFaulted EXCEPT ![c] = @ \/ w.native]
     /\ faultedIn' = [faultedIn EXCEPT ![c] = IF w.native THEN @ ELSE @ \cup {w.engine}]
     /\ UNCHANGED <<files, contexts, completed, memory, gpu>>

-----------------------------------------------------------------------------
Buffering(c) ==
  \/ \E size \in Sizes : CreateBuffer(c, size)
  \/ \E s \in Slots : \/ CloseBuffer(c, s)
                      \/ BindBuffer(c, s) \/ BindBufferFails(c, s)
                      \/ UnbindBuffer(c, s) \/ UnbindVirtual(c, s)
                      \/ \E address \in VirtualPages :
                           BindVirtual(c, s, address) \/ BindVirtualFails(c, s, address)

Rendering(c) ==
  \/ CreateContext(c)
  \/ \E i \in ContextSlots :
       \/ DestroyContext(c, i)
       \/ \E objects \in SUBSET Slots : \E batch \in objects :
            SubmitObjects(c, i, objects, batch)
  \/ \E e \in Engines : \E s \in Slots : SubmitBatch(c, e, s)
  \/ SubmitDone(c) \/ SubmitTimeout(c)

Next ==
  \/ \E c \in Clients : Open(c) \/ Close(c) \/ Buffering(c) \/ Rendering(c)
  \/ \E e \in Engines : GpuFinish(e)

Spec == Init /\ [][Next]_vars
-----------------------------------------------------------------------------
(***************************************************************************)
(* Properties.                                                             *)
(***************************************************************************)
\* Everything a client holds in memory: the pages of its buffers, and engine
\* contexts.
PagesOf(c, s) == {Page(c, buffers[c][s].handle, i) : i \in 0 .. buffers[c][s].size - 1}
ContextsOf(c) == {NativeContext(c, i) : i \in contexts[c]}

Held(c) ==
  (UNION {PagesOf(c, s) : s \in Used(c)})
    \cup {LegacyContext(c, e) : e \in engines[c]}
    \cup ContextsOf(c)

Live == UNION {Held(c) : c \in Clients}

\* The memory of the context in an engine, and what it reaches through its page
\* tables.
Reached(e) ==
  LET c == gpu[e][1]
      entries == IF gpu[e][2] = "native" THEN vm[c] ELSE table[c][e]
  IN {gpu[e]} \cup {entries[a] : a \in DOMAIN entries}

(***************************************************************************)
(* A native context in an engine, and whatever it reaches through its page *)
(* tables, has not been freed: not by an ioctl of its client, not by       *)
(* closing the file, and not while a late GPU goes on with what the client *)
(* has given up (RenderClient.cpp:228-250, 314-316).                       *)
(***************************************************************************)
DmaTargetsLive ==
  \A e \in Engines : gpu[e] # None /\ gpu[e][2] = "native" =>
    Reached(e) \subseteq Live \cup {Scratch}

(***************************************************************************)
(* README.md:22-23, "timeout quarantine, so memory reachable by a wedged   *)
(* GPU is retained until reboot instead of being freed underneath DMA".    *)
(***************************************************************************)
WedgedGpuKeepsItsMemory ==
  \A e \in scheduler : gpu[e] # None => Reached(e) \subseteq Live \cup {Scratch}

(***************************************************************************)
(* The native address space is exactly the bindings of the client's        *)
(* buffers: nothing of another buffer, of a closed one or of a map that    *)
(* failed is left in it, and no buffer has a hole.                         *)
(***************************************************************************)
VirtualExact ==
  \A c \in Clients : \A a \in VirtualPages :
    LET there == {s \in Slots : addresses[c][s] # 0
                                /\ a \in Run(addresses[c][s], buffers[c][s].size)}
    IN IF there = {} THEN vm[c][a] = Scratch
       ELSE \A s \in there : vm[c][a] = Page(c, buffers[c][s].handle, a - addresses[c][s])

\* "The same address has to mean the same buffer to commands running against
\* either engine's own page tables" (416-417): a bound buffer is mapped whole
\* for every engine a batch may be submitted to.
MappedForItsEngines(c, b) ==
  \A e \in Ready(c) : \A i \in 0 .. b.size - 1 :
    table[c][e][b.address + i] = Page(c, b.handle, i)

(***************************************************************************)
(* The aperture, which all clients share, has exactly the bound buffers    *)
(* and the engine contexts of the files that are open or quarantined, and  *)
(* the engines' page tables agree with it (RenderClient.cpp:413-458).      *)
(***************************************************************************)
ApertureExact ==
  /\ {gtt[a] : a \in GttPages} \subseteq Live \cup {Scratch}
  /\ \A c \in Clients : \A s \in Used(c) :
       LET b == buffers[c][s]
       IN IF IsBound(c, s)
            THEN /\ \A i \in 0 .. b.size - 1 : gtt[b.address + i] = Page(c, b.handle, i)
                 /\ MappedForItsEngines(c, b)
            ELSE \A a \in GttPages, i \in 0 .. b.size - 1 : gtt[a] # Page(c, b.handle, i)

(***************************************************************************)
(* fAllocated and fBound are the sums they stand for, whatever fails, and  *)
(* stay within the limits of the ABI.                                      *)
(***************************************************************************)
AccountsBalance ==
  \A c \in Clients :
    /\ allocated[c] = MapThenSumSet(LAMBDA s : buffers[c][s].size, Used(c))
    /\ bound[c] = MapThenSumSet(LAMBDA s : buffers[c][s].size,
                                {s \in Used(c) : IsBound(c, s)})
    /\ allocated[c] \in 0 .. MemoryLimit /\ bound[c] \in 0 .. ApertureLimit

=============================================================================
