-------------------------------- MODULE Winsys --------------------------------
(***************************************************************************)
(* The adapter that gives Iris the GEM and syncobj calls it was written    *)
(* for: mesa/overlay/compat/IntelWinsys.cpp (haiku-iris/IntelWinsys.cpp is *)
(* the same text), above one open file of the kernel driver.               *)
(*                                                                         *)
(* A call runs under the one lock of the adapter, and so is one action,    *)
(* except that one which waits for syncobjs gives the lock up while it     *)
(* sleeps: then it is one action for each time it has the lock.            *)
(*                                                                         *)
(* The kernel below is what RenderClient shows it to be, seen by a single  *)
(* client: buffers with at most one virtual address, no two of which       *)
(* overlap, and a fault after which it refuses everything.                 *)
(***************************************************************************)
EXTENDS Integers, FiniteSets, FiniteSetsExt, Sequences, SequencesExt

CONSTANTS
  Threads,       \* threads of the program
  None,          \* no call
  Handles,       \* handles the kernel may give out: 1 .. n
  Sizes,         \* sizes of buffers, in pages
  VirtualSize,   \* kVirtualAddressLimit, in pages
  MemoryLimit,   \* kClientMemoryLimit, in pages
  MaxBuffers,    \* kMaxBuffers of the kernel
  MaxCached,     \* kMaxCached
  ReclaimBatch,  \* kReclaimBatch
  Syncs,         \* syncobj handles the adapter may give out: 1 .. n
  Requests,      \* submissions: [layout, fences], a list of [handle, offset]
                 \* of its objects and one of [sync, wait, signal]
  WaitLists,     \* lists of syncobjs for SYNCOBJ_WAIT
  MaxMade        \* bound: buffers and syncobjs made in a behaviour

ASSUME WinsysAssumption ==
  /\ Handles \subseteq Nat \ {0} /\ IsFiniteSet(Handles)
  /\ Syncs \subseteq Nat \ {0} /\ IsFiniteSet(Syncs)
  /\ Sizes \subseteq Nat \ {0} /\ VirtualSize \in Nat /\ MemoryLimit \in Nat
  /\ MaxBuffers \in Nat /\ MaxCached \in Nat /\ ReclaimBatch \in Nat \ {0}
  /\ MaxMade \in Nat
  /\ \A r \in Requests :
       /\ r.layout \in Seq([handle : Handles, offset : 1 .. VirtualSize]) \ {<<>>}
       /\ r.fences \in Seq([sync : Syncs, wait : BOOLEAN, signal : BOOLEAN])
  /\ WaitLists \subseteq Seq(Syncs) \ {<<>>}
  /\ None \notin [op : {"wait"}, list : WaitLists, all : BOOLEAN]
  /\ None \notin [op : {"exec"}, request : Requests, next : Nat]

VARIABLES
  known,     \* keys of buffers
  purged,    \* those whose memory was given back
  cache,     \* purgeable ones that were not, in the order of their stamps
  address,   \* Buffer::address, 0 for none
  size,      \* Buffer::size
  kernel,    \* the buffers the kernel has
  virtual,   \* and their virtual addresses, 0 for none
  broken,    \* the kernel refuses everything: a submission timed out
  given,     \* handles given out: 1 .. given
  syncs,     \* syncobj -> "absent", "unsignaled", "signaled", "orphan"
  created,   \* nextSync - 1
  call,      \* the call a thread sleeps in, or None
  asleep,    \* threads that sleep on changed
  retained   \* buffers Iris was told it may use

table   == <<known, purged, cache, address, size>>
below   == <<kernel, virtual, broken, given>>
fences  == <<syncs, created>>
threads == <<call, asleep>>
vars    == <<table, below, fences, threads, retained>>

Init ==
  /\ known = {} /\ purged = {} /\ cache = <<>>
  /\ address = [h \in Handles |-> 0] /\ size = [h \in Handles |-> 0]
  /\ kernel = {} /\ virtual = [h \in Handles |-> 0]
  /\ broken = FALSE /\ given = 0
  /\ syncs = [f \in Syncs |-> "absent"] /\ created = 0
  /\ call = [t \in Threads |-> None] /\ asleep = {}
  /\ retained = {}

-----------------------------------------------------------------------------
(***************************************************************************)
(* The kernel.                                                             *)
(***************************************************************************)
SizeOf(handles) == MapThenSumSet(LAMBDA h : size[h], handles)

\* The limits of kCreateBuffer, when it has the buffers in has.
Room(has, pages) ==
  /\ Cardinality(has) < MaxBuffers
  /\ SizeOf(has) + pages <= MemoryLimit

Meet(a, pages, b, other) == a < b + other /\ b < a + pages

\* kBindVirtual of a buffer at an offset, given the addresses so far.
Binds(at, h, offset) ==
  /\ ~broken /\ h \in kernel /\ at[h] = 0
  /\ offset + size[h] <= VirtualSize + 1
  /\ \A other \in kernel : at[other] # 0 => ~Meet(offset, size[h], at[other], size[other])

-----------------------------------------------------------------------------
(***************************************************************************)
(* Buffers.  Some thread is free to make the call.                         *)
(***************************************************************************)
Calls == \E t \in Threads : call[t] = None

Oldest(queue, n) == {queue[i] : i \in 1 .. n}

\* Variant with a bug: enough buffers or enough bytes will do.
ReclaimedEither(queue, bytes, count) ==
  LET enough == {n \in 0 .. Len(queue) : n >= count \/ SizeOf(Oldest(queue, n)) >= bytes}
  IN IF broken THEN 0 ELSE Min(enough \cup {Len(queue)})

\* reclaim: how many of the oldest purgeable buffers are closed, so that count
\* of them and bytes are free again.
Reclaimed(queue, bytes, count) ==
  LET enough == {n \in 0 .. Len(queue) : n >= count /\ SizeOf(Oldest(queue, n)) >= bytes}
  IN IF broken THEN 0 ELSE Min(enough \cup {Len(queue)})

\* Closed in the kernel, and kept in the table as purged.
Reclaim(queue, n) ==
  LET gone == Oldest(queue, n)
  IN /\ purged' = purged \cup gone
     /\ cache' = SubSeq(queue, n + 1, Len(queue))
     /\ address' = [h \in Handles |-> IF h \in gone THEN 0 ELSE address[h]]
     /\ virtual' = [h \in Handles |-> IF h \in gone THEN 0 ELSE virtual[h]]

\* GEM_CREATE that succeeds, at first or after n buffers were reclaimed.
Created(pages, n) ==
  LET h == given + 1
      left == kernel \ Oldest(cache, n)
  IN /\ h \in Handles /\ given + created < MaxMade
     /\ ~broken /\ Room(left, pages)
     /\ given' = h
     /\ known' = known \cup {h}
     /\ Reclaim(cache, n)
     /\ size' = [size EXCEPT ![h] = pages]
     /\ kernel' = left \cup {h}
     /\ retained' = retained \cup {h}
     /\ UNCHANGED <<broken, fences, threads>>

\* The kernel may refuse for want of room or of memory, and the adapter cannot
\* tell which.
Create(pages) ==
  /\ Calls
  /\ \/ Created(pages, 0)
     \/ LET n == Reclaimed(cache, pages, ReclaimBatch) IN n > 0 /\ Created(pages, n)

\* It refuses again, after n buffers were reclaimed.
CreateFails(pages) ==
  LET n == Reclaimed(cache, pages, ReclaimBatch)
  IN /\ Calls /\ n > 0
     /\ Reclaim(cache, n)
     /\ kernel' = kernel \ Oldest(cache, n)
     /\ UNCHANGED <<known, size, broken, given, fences, threads, retained>>

\* GEM_CLOSE.  Of a purged buffer only the record is left.
Close(h) ==
  /\ Calls /\ h \in known
  /\ h \notin purged => ~broken
  /\ known' = known \ {h} /\ purged' = purged \ {h}
  /\ cache' = RemoveFirst(cache, h)
  /\ address' = [address EXCEPT ![h] = 0]
  /\ kernel' = kernel \ {h}
  /\ virtual' = [virtual EXCEPT ![h] = 0]
  /\ retained' = retained \ {h}
  /\ UNCHANGED <<size, broken, given, fences, threads>>

\* GEM_MADVISE(WILLNEED).
WillNeed(h) ==
  /\ Calls /\ h \in known
  /\ cache' = RemoveFirst(cache, h)
  /\ retained' = IF h \in purged THEN retained \ {h} ELSE retained \cup {h}
  /\ UNCHANGED <<known, purged, address, size, below, fences, threads>>

\* GEM_MADVISE(DONTNEED): the cache is trimmed when it is over its watermark.
DontNeed(h) ==
  LET queue == Append(RemoveFirst(cache, h), h)
      n == IF Len(queue) > MaxCached THEN Reclaimed(queue, 0, Len(queue) - MaxCached) ELSE 0
  IN /\ Calls /\ h \in known \ purged
     /\ Reclaim(queue, n)
     /\ kernel' = kernel \ Oldest(queue, n)
     /\ retained' = retained \ {h}
     /\ UNCHANGED <<known, size, broken, given, fences, threads>>

-----------------------------------------------------------------------------
(***************************************************************************)
(* Syncobjs.                                                               *)
(***************************************************************************)
Exists(f) == syncs[f] \in {"unsignaled", "signaled"}

CreateSync(value) ==
  /\ Calls /\ created + 1 \in Syncs /\ given + created < MaxMade
  /\ created' = created + 1
  /\ syncs' = [syncs EXCEPT ![created + 1] = value]
  /\ UNCHANGED <<table, below, threads, retained>>

\* Variant with a bug: nobody is told.
DestroySyncQuietly(f) ==
  /\ Calls /\ Exists(f)
  /\ syncs' = [syncs EXCEPT ![f] = "absent"]
  /\ UNCHANGED <<table, below, created, threads, retained>>

DestroySync(f) ==
  /\ Calls /\ Exists(f)
  /\ syncs' = [syncs EXCEPT ![f] = "absent"]
  /\ asleep' = {}
  /\ UNCHANGED <<table, below, created, call, retained>>

\* SYNCOBJ_SIGNAL and SYNCOBJ_RESET, of several at once.
SetSyncs(handles, value) ==
  /\ Calls /\ handles # {} /\ \A f \in handles : Exists(f)
  /\ syncs' = [f \in Syncs |-> IF f \in handles THEN value ELSE syncs[f]]
  /\ asleep' = {}
  /\ UNCHANGED <<table, below, created, call, retained>>

\* wait_syncs has an answer: one of them does not exist, or enough of them are
\* signaled.
Decided(list, all) ==
  LET states == {syncs[list[i]] : i \in 1 .. Len(list)}
  IN IF all THEN "absent" \in states \/ "orphan" \in states \/ states = {"signaled"}
     ELSE states # {"unsignaled"}

NewCalls ==
  [op : {"wait"}, list : WaitLists, all : BOOLEAN] \cup
  [op : {"exec"}, request : Requests, next : {1}]

\* The calls a thread may make, or the one it goes on with, after it slept,
\* when it has the lock again.
Going(t) ==
  IF call[t] = None THEN NewCalls ELSE IF t \in asleep THEN {} ELSE {call[t]}

Return(t) == call' = [call EXCEPT ![t] = None]

Sleep(t, c) ==
  /\ call' = [call EXCEPT ![t] = c]
  /\ asleep' = asleep \cup {t}

\* SYNCOBJ_WAIT.  Whether it times out when it looks is not known.
Wait(t, c) ==
  /\ c.op = "wait"
  /\ \/ Return(t) /\ UNCHANGED asleep
     \/ ~Decided(c.list, c.all) /\ Sleep(t, c)
  /\ UNCHANGED <<table, below, fences, retained>>

\* It is told, times out, or wakes up for no reason.
Wake(t) ==
  /\ t \in asleep
  /\ asleep' = asleep \ {t}
  /\ UNCHANGED <<table, below, fences, call, retained>>

-----------------------------------------------------------------------------
(***************************************************************************)
(* Submissions.  First the fences are looked at in their order, sleeping   *)
(* for those to wait for; then the buffers are moved to where the request  *)
(* has them and it goes to the kernel.                                     *)
(***************************************************************************)
Passed(f) == Exists(f.sync) /\ (f.wait => syncs[f.sync] = "signaled")

\* The fence of a list that is not passed, from the next one on.
Reached(list, next) ==
  Min({i \in next .. Len(list) : ~Passed(list[i])} \cup {Len(list) + 1})

\* It does not exist, or the submission sleeps for it.
ExecFence(t, c) ==
  /\ c.op = "exec" /\ Reached(c.request.fences, c.next) <= Len(c.request.fences)
  /\ LET i == Reached(c.request.fences, c.next)
     IN IF Exists(c.request.fences[i].sync) THEN Sleep(t, [c EXCEPT !.next = i])
        ELSE Return(t) /\ UNCHANGED asleep
  /\ UNCHANGED <<table, below, fences, retained>>

\* Where the buffers are while a request is carried out; ok becomes FALSE when
\* it fails.
Where == [ok |-> TRUE, address |-> address, virtual |-> virtual]
Failed(s) == [s EXCEPT !.ok = FALSE]
Moved(s, handles, to) ==
  [s EXCEPT !.address = [h \in Handles |-> IF h \in handles THEN to ELSE @[h]],
            !.virtual = [h \in Handles |-> IF h \in handles THEN to ELSE @[h]]]

\* Variant with a bug, the one the code once had: neighbours stay.
EvictNothing(s, o) ==
  IF ~s.ok \/ o.handle \notin known THEN Failed(s) ELSE s

\* Everything that overlaps the new place of a buffer that moves is unbound.
Evict(s, o) ==
  LET others == {h \in known \ {o.handle} :
                   /\ s.address[h] # 0
                   /\ Meet(o.offset, size[o.handle], s.address[h], size[h])}
  IN IF ~s.ok \/ o.handle \notin known THEN Failed(s)
     ELSE IF s.address[o.handle] = o.offset \/ others = {} THEN s
     ELSE IF broken \/ ~(others \subseteq kernel) THEN Failed(s)
     ELSE Moved(s, others, 0)

\* Variant with a bug: a bind that failed is remembered as done.
PlaceForgetful(s, o, short) ==
  IF ~s.ok \/ o.handle \notin known THEN Failed(s)
  ELSE IF s.address[o.handle] = o.offset THEN s
  ELSE IF broken THEN Failed(s)
  ELSE LET unbound == Moved(s, {o.handle}, 0)
           there == [unbound EXCEPT !.address[o.handle] = o.offset]
       IN IF o.handle \notin short /\ Binds(unbound.virtual, o.handle, o.offset)
            THEN Moved(s, {o.handle}, o.offset)
          ELSE Failed(there)

\* A buffer that moves is unbound and bound; for those in short the kernel has
\* no memory for page tables.
Place(s, o, short) ==
  IF ~s.ok \/ o.handle \notin known THEN Failed(s)
  ELSE IF s.address[o.handle] = o.offset THEN s
  ELSE IF broken THEN Failed(s)
  ELSE LET unbound == Moved(s, {o.handle}, 0)
       IN IF o.handle \notin short /\ Binds(unbound.virtual, o.handle, o.offset)
            THEN Moved(s, {o.handle}, o.offset)
          ELSE Failed(unbound)

Arranged(layout, short) ==
  LET swept == FoldLeft(Evict, Where, layout)
  IN FoldLeft(LAMBDA s, o : Place(s, o, short), swept, layout)

\* What kSubmitObjects requires of the objects.
Accepts(s, layout) ==
  /\ ~broken
  /\ \A i, j \in 1 .. Len(layout) : layout[i].handle = layout[j].handle => i = j
  /\ \A i \in 1 .. Len(layout) :
       layout[i].handle \in kernel /\ s.virtual[layout[i].handle] # 0

\* Signaled even if it was destroyed while another fence was waited for: then
\* the table gets a record that belongs to no file.
SignalFences(list) ==
  LET signal == {list[i].sync : i \in {i \in 1 .. Len(list) : list[i].signal}}
  IN syncs' = [f \in Syncs |-> IF f \notin signal THEN syncs[f]
                               ELSE IF Exists(f) THEN "signaled" ELSE "orphan"]

\* The kernel takes the request and completes it, times out, or refuses it (the
\* context is gone, or the engine faulted for another file).
ExecSubmit(t, c) ==
  /\ c.op = "exec" /\ Reached(c.request.fences, c.next) > Len(c.request.fences)
  /\ LET layout == c.request.layout
     IN \E short \in SUBSET {layout[i].handle : i \in 1 .. Len(layout)} :
        LET s == Arranged(layout, short)
        IN /\ address' = s.address /\ virtual' = s.virtual
           /\ \/ /\ s.ok /\ Accepts(s, layout)
                 /\ SignalFences(c.request.fences) /\ asleep' = {}
                 /\ UNCHANGED broken
              \/ /\ s.ok /\ Accepts(s, layout) /\ broken' = TRUE
                 /\ UNCHANGED <<syncs, asleep>>
              \/ UNCHANGED <<broken, syncs, asleep>>
  /\ Return(t)
  /\ UNCHANGED <<known, purged, cache, size, kernel, given, created, retained>>

-----------------------------------------------------------------------------
Next ==
  \/ \E pages \in Sizes : Create(pages) \/ CreateFails(pages)
  \/ \E h \in Handles : Close(h) \/ WillNeed(h) \/ DontNeed(h)
  \/ \E value \in {"unsignaled", "signaled"} :
       CreateSync(value) \/ \E handles \in SUBSET Syncs : SetSyncs(handles, value)
  \/ \E f \in Syncs : DestroySync(f)
  \/ \E t \in Threads :
       \/ Wake(t)
       \/ \E c \in Going(t) : Wait(t, c) \/ ExecFence(t, c) \/ ExecSubmit(t, c)

Spec == Init /\ [][Next]_vars
-----------------------------------------------------------------------------
(***************************************************************************)
(* Properties.                                                             *)
(***************************************************************************)
(***************************************************************************)
(* The table of the adapter and that of the kernel agree, whatever failed  *)
(* half way: each buffer that is not purged is in the kernel, no other is, *)
(* and both have it at the same address.  What is cached is in the kernel, *)
(* and so is what Iris was told is there: "Only an explicit retained = 0   *)
(* makes it let go" (80-81).                                               *)
(***************************************************************************)
TableMatchesKernel ==
  /\ kernel = known \ purged
  /\ Oldest(cache, Len(cache)) \cup retained \subseteq kernel
  /\ \A h \in known : address[h] = virtual[h]

\* The layouts that are asked for.
Requested == {request.layout : request \in Requests}

(***************************************************************************)
(* "which leaves exactly those stale neighbours in place; evict every      *)
(* binding that overlaps the layout this submission asks for" (440-441):   *)
(* whenever a call may begin, buffers that are there may be given any      *)
(* addresses that do not overlap each other.                               *)
(***************************************************************************)
DisjointLayoutAccepted ==
  Calls /\ ~broken => \A layout \in Requested :
    LET indices == 1 .. Len(layout)
        Fits(i) == /\ layout[i].handle \in known \ purged
                   /\ layout[i].offset + size[layout[i].handle] <= VirtualSize + 1
        Apart(i, j) == /\ layout[i].handle # layout[j].handle
                       /\ ~Meet(layout[i].offset, size[layout[i].handle],
                                layout[j].offset, size[layout[j].handle])
        s == Arranged(layout, {})
    IN /\ \A i \in indices : Fits(i)
       /\ \A i, j \in indices : i # j => Apart(i, j)
       => /\ s.ok /\ Accepts(s, layout)
          /\ \A i \in indices : s.virtual[layout[i].handle] = layout[i].offset

(***************************************************************************)
(* An allocation fails for want of room only when nothing is cached any    *)
(* more: "Everything Iris has cached is still charged to this client"      *)
(* (206-211).                                                              *)
(***************************************************************************)
RefusedOnlyWhenCacheEmpty ==
  [][\A pages \in Sizes :
       CreateFails(pages) /\ ~Room(kernel', pages) => cache' = <<>>]_vars

(***************************************************************************)
(* No thread sleeps on while what it waits for is there, or cannot come    *)
(* any more: every change of a syncobj tells those that sleep.             *)
(***************************************************************************)
NoLostWakeup ==
  \A t \in asleep :
    ~Decided(IF call[t].op = "wait" THEN call[t].list
             ELSE <<call[t].request.fences[call[t].next].sync>>,
             call[t].op = "wait" /\ call[t].all)
=============================================================================
