----------------------------- MODULE RenderEngine -----------------------------
(***************************************************************************)
(* One physical engine of the GPU (the blitter or the render engine) and   *)
(* the logical contexts that take turns on it: class RenderEngine of       *)
(* kernel/RenderEngine.cpp.  A context is a RenderEngine made by           *)
(* InitClient; the RenderEngine of the device itself, fScheduler, owns the *)
(* lock, the fault flag and the tick total that the contexts share.        *)
(*                                                                         *)
(* Each context is driven by one thread at a time (its client's lock, see  *)
(* RenderClient), so a context and the thread inside it share a pc.  The   *)
(* GPU is a process of its own: it runs the context named in the submit    *)
(* port, writes the sequence number in the context's fence page, then      *)
(* saves the context and records that in a status page.  It may be late,   *)
(* or never come: every wait of the driver can time out while what it      *)
(* waits for has not happened, and it may still happen afterwards.         *)
(***************************************************************************)
EXTENDS Integers, FiniteSets

CONSTANTS
  Contexts,         \* the logical contexts that clients may create
  None,             \* no context
  Scheduler,        \* the device's own RenderEngine, which never submits
  UsesPipeControl,  \* EngineDescriptor: TRUE for the render engine
  RingSize,         \* fRingSize, in units of the smallest ring write
  CommandSize,      \* kCommandDwords, in the same units
  SeqnoLimit,       \* 0x7fffffff: where a context's timeline ends
  TickModulus,      \* 2^32: the width of the saved timestamp
  RunLengths,       \* ticks a batch may take (less than TickModulus)
  MaxCreated        \* bound: contexts created in a behaviour

(***************************************************************************)
(* A ring that holds at least two commands: with room for one, the tail    *)
(* written after a submission would equal the head the engine stopped at.  *)
(* The code has 16 KiB and 256 or 128 bytes.                               *)
(***************************************************************************)
ASSUME EngineAssumption ==
  /\ None \notin Contexts /\ Scheduler \notin Contexts /\ None # Scheduler
  /\ UsesPipeControl \in BOOLEAN
  /\ CommandSize \in Nat \ {0} /\ RingSize \in Nat /\ RingSize >= 2 * CommandSize
  /\ SeqnoLimit \in Nat \ {0} /\ MaxCreated \in Nat
  /\ TickModulus \in Nat \ {0} /\ RunLengths \subseteq 1 .. TickModulus - 1

Noop == 0                      \* kMiNoop, and the padding of a command
Cells == 0 .. RingSize - 1

VARIABLES
  pc,           \* where the thread inside each context is
  lock,         \* owner of fScheduler->fLock, or None
  faulted,      \* fFaulted, of every context and of the scheduler
  nextSeqno,    \* fNextSeqno
  ring,         \* fRing: per context, the seqno of the command in a cell
  ringTail,     \* fRingTail
  image,        \* fContext: the page of the register image both sides use
  dirty,        \* what the processor wrote and has not flushed yet
  fence,        \* the seqno in fFencePage
  issued,       \* the last fence Submit returned
  ticks,        \* fGpuTicks of a context, fTotalGpuTicks of the scheduler
  lastStamp,    \* fLastTimestamp
  ran,          \* ticks the hardware spent, for runs that were accounted
  statusPage,   \* fStatusPage: contexts whose save the GPU recorded there
  hwsp,         \* kRingHardwareStatusPage: whose status page the GPU uses
  request,      \* the forcewake bit of the kernel
  ack,          \* the forcewake acknowledge of the hardware
  gpu,          \* the context in the engine and how far it is
  created       \* contexts created so far (bound)

timeline  == <<nextSeqno, ringTail, issued, ticks, lastStamp>>
cpuVars   == <<pc, lock, faulted, timeline>>
memory    == <<ring, image, dirty, fence, statusPage>>
registers == <<hwsp, request, ack, gpu>>
vars      == <<cpuVars, memory, registers, ran, created>>

FreshImage == [head |-> 0, tail |-> 0, inhibit |-> TRUE, stamp |-> 0]
IdleGpu    == [ctx |-> None, phase |-> "idle"]

Init ==
  /\ pc = [c \in Contexts |-> "absent"]
  /\ lock = None
  /\ faulted = [c \in Contexts \cup {Scheduler} |-> FALSE]
  /\ nextSeqno = [c \in Contexts |-> 1]
  /\ ring = [c \in Contexts |-> [i \in Cells |-> Noop]]
  /\ ringTail = [c \in Contexts |-> 0]
  /\ image = [c \in Contexts |-> FreshImage]
  /\ dirty = [c \in Contexts |-> {}]
  /\ fence = [c \in Contexts |-> 0]
  /\ issued = [c \in Contexts |-> 0]
  /\ ticks = [c \in Contexts \cup {Scheduler} |-> 0]
  /\ lastStamp = [c \in Contexts |-> 0]
  /\ ran = [c \in Contexts \cup {Scheduler} |-> 0]
  /\ statusPage = [c \in Contexts \cup {Scheduler} |-> {}]
  /\ hwsp = Scheduler
  /\ request = FALSE
  /\ ack = FALSE
  /\ gpu = IdleGpu
  /\ created = 0

Goto(c, from, to) == pc[c] = from /\ pc' = [pc EXCEPT ![c] = to]

\* The MutexLocker of Submit and Status goes out of scope.
Return(c, from) == Goto(c, from, "idle") /\ lock' = None

-----------------------------------------------------------------------------
(***************************************************************************)
(* Creating and destroying contexts.  Init of a render context wakes the   *)
(* engine to read a fuse, and it does so without fScheduler->fLock.        *)
(***************************************************************************)
CreateContext(c) ==
  /\ created < MaxCreated
  /\ Goto(c, "absent", IF UsesPipeControl THEN "initTaking" ELSE "idle")
  /\ created' = IF UsesPipeControl THEN created ELSE created + 1
  /\ request' = (request \/ UsesPipeControl)
  /\ nextSeqno' = [nextSeqno EXCEPT ![c] = 1]
  /\ ring' = [ring EXCEPT ![c] = [i \in Cells |-> Noop]]
  /\ ringTail' = [ringTail EXCEPT ![c] = 0]
  /\ image' = [image EXCEPT ![c] = FreshImage]
  /\ dirty' = [dirty EXCEPT ![c] = {"tables"}]
  /\ fence' = [fence EXCEPT ![c] = 0]
  /\ issued' = [issued EXCEPT ![c] = 0]
  /\ ticks' = [ticks EXCEPT ![c] = 0]
  /\ lastStamp' = [lastStamp EXCEPT ![c] = 0]
  /\ ran' = [ran EXCEPT ![c] = 0]
  /\ statusPage' = [statusPage EXCEPT ![c] = {}]
  /\ UNCHANGED <<lock, faulted, hwsp, ack, gpu>>

InitAwake(c) ==
  /\ ack
  /\ Goto(c, "initTaking", "initRelease")
  /\ UNCHANGED <<lock, faulted, timeline, memory, registers, ran, created>>

InitRelease(c) ==
  /\ Goto(c, "initRelease", "idle")
  /\ request' = FALSE
  /\ created' = created + 1
  /\ UNCHANGED <<lock, faulted, timeline, memory, hwsp, ack, gpu, ran>>

\* The engine did not wake: Init fails and the caller deletes the object.
InitTimeout(c) ==
  /\ ~ack
  /\ Goto(c, "initTaking", "absent")
  /\ request' = FALSE
  /\ UNCHANGED <<lock, faulted, timeline, memory, hwsp, ack, gpu, ran,
                 created>>

\* Variant with a bug: no quarantine.
DestroyFaulted(c) ==
  /\ created < MaxCreated
  /\ Goto(c, "idle", "absent")
  /\ UNCHANGED <<lock, faulted, timeline, memory, registers, ran, created>>

\* Clients never destroy a faulted context: they are quarantined instead.
\* (Bound: the contexts left when MaxCreated is reached are kept.)
DestroyContext(c) ==
  /\ created < MaxCreated
  /\ ~faulted[c]
  /\ Goto(c, "idle", "absent")
  /\ UNCHANGED <<lock, faulted, timeline, memory, registers, ran, created>>

\* A client maps or unmaps a buffer between two submissions: the page tables
\* change, and PageTables only notes that they have to be flushed.
MapBuffer(c) ==
  /\ pc[c] = "idle"
  /\ dirty' = [dirty EXCEPT ![c] = @ \cup {"tables"}]
  /\ UNCHANGED <<cpuVars, ring, image, fence, statusPage, registers, ran,
                 created>>

-----------------------------------------------------------------------------
(***************************************************************************)
(* Submit.                                                                 *)
(***************************************************************************)
Submit(c) ==
  /\ Goto(c, "idle", "lock")
  /\ UNCHANGED <<lock, faulted, timeline, memory, registers, ran, created>>

\* Status is only reached through _Engine(), which wants IsReady().
Status(c) ==
  /\ ~faulted[c] /\ ~faulted[Scheduler]
  /\ Goto(c, "idle", "statusLock")
  /\ UNCHANGED <<lock, faulted, timeline, memory, registers, ran, created>>

Acquire(c) ==
  /\ lock = None
  /\ \/ Goto(c, "lock", "check")
     \/ Goto(c, "statusLock", "statusTake")
  /\ lock' = c
  /\ UNCHANGED <<faulted, timeline, memory, registers, ran, created>>

\* Variant with a bug: the fault of another context is missed.
RefusedOwnFault(c) == faulted[c] \/ nextSeqno[c] >= SeqnoLimit

\* B_DEV_NOT_READY, or B_NO_MEMORY at the end of the timeline.
Refused(c) == faulted[Scheduler] \/ faulted[c] \/ nextSeqno[c] >= SeqnoLimit

Refuse(c) ==
  /\ Refused(c)
  /\ Return(c, "check")
  /\ UNCHANGED <<faulted, timeline, memory, registers, ran, created>>

Admit(c) ==
  /\ ~Refused(c)
  /\ Goto(c, "check", IF nextSeqno[c] > 1 THEN "previous" ELSE "take")
  /\ UNCHANGED <<lock, faulted, timeline, memory, registers, ran, created>>

\* The ring is only refilled once the engine has finished with what was in it.
WaitPrevious(c) ==
  /\ IF fence[c] >= nextSeqno[c] - 1
       THEN Goto(c, "previous", "take") /\ lock' = lock
       ELSE Return(c, "previous")
  /\ UNCHANGED <<faulted, timeline, memory, registers, ran, created>>

TakeForcewake(c) ==
  /\ \/ Goto(c, "take", "taking")
     \/ Goto(c, "statusTake", "statusTaking")
  /\ request' = TRUE
  /\ UNCHANGED <<lock, faulted, timeline, memory, hwsp, ack, gpu, ran,
                 created>>

Awake(c) ==
  /\ ack
  /\ \/ Goto(c, "taking", "write")
     \/ Goto(c, "statusTaking", "statusRead")
  /\ UNCHANGED <<lock, faulted, timeline, memory, registers, ran, created>>

WakeTimeout(c) ==
  /\ ~ack
  /\ Return(c, "taking")
  /\ request' = FALSE
  /\ UNCHANGED <<faulted, timeline, memory, hwsp, ack, gpu, ran, created>>

\* Status returns the error with the request still made.
StatusTimeout(c) ==
  /\ ~ack
  /\ Return(c, "statusTaking")
  /\ UNCHANGED <<faulted, timeline, memory, registers, ran, created>>

ReadStatus(c) ==
  /\ Return(c, "statusRead")
  /\ request' = FALSE
  /\ UNCHANGED <<faulted, timeline, memory, hwsp, ack, gpu, ran, created>>

\* Variant with a bug: a command may run over the end of the ring.
StartUnpadded(tail) == tail % RingSize

\* Where the next command starts: the rest of the ring is padded when the
\* command does not fit in it.
Start(tail) == IF tail + CommandSize > RingSize THEN 0 ELSE tail

CommandCells(tail) == Start(tail) .. Start(tail) + CommandSize - 1

Padding(tail) == IF Start(tail) = tail THEN {} ELSE tail .. RingSize - 1

\* The first cell of a command holds its seqno, the others are no-ops.
Written(cells, tail, seqno) ==
  [i \in Cells |->
     IF i = Start(tail) THEN seqno
     ELSE IF i \in CommandCells(tail) \cup Padding(tail) THEN Noop
     ELSE cells[i]]

\* Only the first run starts from an image that was never saved.
RestoreInhibit(c) == image[c].inhibit /\ nextSeqno[c] = 1

\* The image fetched back from memory, restore inhibit cleared after the first
\* run, the padding, the page tables flushed, and the command in the ring.
WriteCommands(c) ==
  /\ Goto(c, "write", "publish")
  /\ nextSeqno' = [nextSeqno EXCEPT ![c] = @ + 1]
  /\ ring' = [ring EXCEPT ![c] = Written(@, ringTail[c], nextSeqno[c])]
  /\ image' = [image EXCEPT ![c].inhibit = RestoreInhibit(c)]
  /\ dirty' = [dirty EXCEPT ![c] = {"ring", "image"}]
  /\ UNCHANGED <<lock, faulted, ringTail, issued, ticks, lastStamp, fence,
                 statusPage, registers, ran, created>>

\* Variant with a bug: the image is not flushed once its tail is written.
FlushedRingOnly == {"ring"}

\* What is flushed before the engine is pointed at the context.
Flushed == {"ring", "image"}

\* The ring is flushed, then _UpdateTail writes and flushes the image.
PublishTail(c) ==
  LET tail == (Start(ringTail[c]) + CommandSize) % RingSize
  IN /\ Goto(c, "publish", "status")
     /\ ringTail' = [ringTail EXCEPT ![c] = tail]
     /\ image' = [image EXCEPT ![c].tail = tail]
     /\ dirty' = [dirty EXCEPT ![c] = @ \ Flushed]
     /\ UNCHANGED <<lock, faulted, nextSeqno, issued, ticks, lastStamp, ring,
                    fence, statusPage, registers, ran, created>>

\* A register written while the engine sleeps keeps its value.
PointStatusPage(c) ==
  /\ Goto(c, "status", "port")
  /\ statusPage' = [statusPage EXCEPT ![c] = {}]
  /\ hwsp' = IF ack THEN c ELSE hwsp
  /\ UNCHANGED <<lock, faulted, timeline, ring, image, dirty, fence, request,
                 ack, gpu, ran, created>>

WritePort(c) ==
  /\ Goto(c, "port", "execute")
  /\ gpu' = IF ack THEN [ctx |-> c, phase |-> "running"] ELSE gpu
  /\ UNCHANGED <<lock, faulted, timeline, memory, hwsp, request, ack, ran,
                 created>>

Executed(c) ==
  /\ fence[c] >= nextSeqno[c] - 1
  /\ Goto(c, "execute", "save")
  /\ UNCHANGED <<lock, faulted, timeline, memory, registers, ran, created>>

\* Variant with a bug: the timestamp is taken not to wrap.
ElapsedUnwrapped(now, last) == IF now >= last THEN now - last ELSE 0

\* The saved timestamp is 32 bits wide, and so is the subtraction.
Elapsed(now, last) == (now - last) % TickModulus

\* Variant with a bug: the fence is read before the seqno is taken.
FenceOfNext(c) == nextSeqno[c]

\* The fence of the submission in progress.
Seqno(c) == nextSeqno[c] - 1

\* An ACTIVE_IDLE and COMPLETE entry for this context in its status page.
SaveSeen(c) == c \in statusPage[c]

Saved(c) ==
  LET elapsed == Elapsed(image[c].stamp, lastStamp[c])
  IN /\ SaveSeen(c)
     /\ Return(c, "save")
     /\ ticks' = [ticks EXCEPT ![c] = @ + elapsed, ![Scheduler] = @ + elapsed]
     /\ lastStamp' = [lastStamp EXCEPT ![c] = image[c].stamp]
     /\ request' = FALSE
     /\ issued' = [issued EXCEPT ![c] = Seqno(c)]
     /\ UNCHANGED <<faulted, nextSeqno, ringTail, memory, hwsp, ack, gpu, ran,
                    created>>

\* Variant with a bug: the save has no deadline.
FaultInExecuteOnly(c) ==
  /\ fence[c] < nextSeqno[c] - 1 /\ Return(c, "execute")
  /\ request' = FALSE
  /\ faulted' = [faulted EXCEPT ![c] = TRUE, ![Scheduler] = TRUE]
  /\ UNCHANGED <<timeline, memory, hwsp, ack, gpu, ran, created>>

\* Neither the fence nor the save came in time.
Fault(c) ==
  /\ \/ fence[c] < nextSeqno[c] - 1 /\ Return(c, "execute")
     \/ ~SaveSeen(c) /\ Return(c, "save")
  /\ request' = FALSE
  /\ faulted' = [faulted EXCEPT ![c] = TRUE, ![Scheduler] = TRUE]
  /\ UNCHANGED <<timeline, memory, hwsp, ack, gpu, ran, created>>

-----------------------------------------------------------------------------
(***************************************************************************)
(* The hardware.                                                           *)
(***************************************************************************)
Acknowledge ==
  /\ ack # request
  /\ ack' = request
  /\ UNCHANGED <<cpuVars, memory, hwsp, request, gpu, ran, created>>

\* The cells from head up to tail, around the end of the ring.
Between(head, tail) ==
  IF head <= tail THEN head .. tail - 1
                  ELSE (head .. RingSize - 1) \cup (0 .. tail - 1)

\* The seqnos of the commands the engine meets when it runs a context.
Fetched(c) == {ring[c][i] : i \in Between(image[c].head, image[c].tail)} \ {Noop}

\* The batch runs, and each command stores its seqno when it is done.
GpuExecute ==
  LET c == gpu.ctx
  IN /\ gpu.phase = "running"
     /\ gpu' = [gpu EXCEPT !.phase = "saving"]
     /\ fence' = [fence EXCEPT ![c] =
          IF Fetched(c) = {} THEN @
          ELSE CHOOSE s \in Fetched(c) : \A other \in Fetched(c) : other <= s]
     /\ UNCHANGED <<cpuVars, ring, image, dirty, statusPage, hwsp, request,
                    ack, ran, created>>

\* The context is saved, with the time it ran, and the status page says so.
GpuSave(length) ==
  LET c == gpu.ctx
  IN /\ gpu.phase = "saving"
     /\ gpu' = IdleGpu
     /\ image' = [image EXCEPT ![c].head = image[c].tail,
                               ![c].stamp = (@ + length) % TickModulus]
     /\ statusPage' = [statusPage EXCEPT ![hwsp] = @ \cup {c}]
     /\ ran' = IF faulted[c] THEN ran
               ELSE [ran EXCEPT ![c] = @ + length, ![Scheduler] = @ + length]
     /\ UNCHANGED <<cpuVars, ring, dirty, fence, hwsp, request, ack, created>>

-----------------------------------------------------------------------------
Lifecycle(c) == \/ CreateContext(c) \/ DestroyContext(c) \/ MapBuffer(c)

Call(c) == Submit(c) \/ Status(c)

\* What the thread inside a context does until its call returns.
Step(c) ==
  \/ InitAwake(c) \/ InitRelease(c) \/ InitTimeout(c)
  \/ Refuse(c) \/ Admit(c) \/ WaitPrevious(c)
  \/ TakeForcewake(c) \/ Awake(c) \/ WakeTimeout(c)
  \/ StatusTimeout(c) \/ ReadStatus(c)
  \/ WriteCommands(c) \/ PublishTail(c) \/ PointStatusPage(c) \/ WritePort(c)
  \/ Executed(c) \/ Saved(c) \/ Fault(c)

Gpu == GpuExecute \/ \E length \in RunLengths : GpuSave(length)

Next ==
  \/ \E c \in Contexts : Lifecycle(c) \/ Call(c) \/ Acquire(c) \/ Step(c)
  \/ Acknowledge
  \/ Gpu

Spec == Init /\ [][Next]_vars

(***************************************************************************)
(* A kernel thread inside the driver keeps running, and the mutex is a     *)
(* queue, so that a thread that waits for it is not overtaken for ever.    *)
(* Nothing is assumed of the hardware: the waits have deadlines.           *)
(***************************************************************************)
FairSpec ==
  Spec /\ \A c \in Contexts : WF_vars(Step(c)) /\ SF_vars(Acquire(c))
-----------------------------------------------------------------------------
(***************************************************************************)
(* Properties.                                                             *)
(***************************************************************************)
Pcs == {"absent", "initTaking", "initRelease", "idle", "lock", "check",
        "previous", "take", "taking", "write", "publish", "status", "port",
        "execute", "save", "statusLock", "statusTake", "statusTaking",
        "statusRead"}

Everyone == Contexts \cup {Scheduler}

CpuType ==
  /\ pc \in [Contexts -> Pcs]
  /\ lock \in Contexts \cup {None}
  /\ faulted \in [Everyone -> BOOLEAN]
  /\ nextSeqno \in [Contexts -> 1 .. SeqnoLimit]
  /\ ringTail \in [Contexts -> Cells]
  /\ issued \in [Contexts -> 0 .. SeqnoLimit]
  /\ lastStamp \in [Contexts -> 0 .. TickModulus - 1]
  /\ ticks \in [Everyone -> Nat]

\* What the register image says, as far as it matters.
Images == [head : Cells, tail : Cells, inhibit : BOOLEAN,
           stamp : 0 .. TickModulus - 1]

MemoryType ==
  /\ ring \in [Contexts -> [Cells -> 0 .. SeqnoLimit]]
  /\ image \in [Contexts -> Images]
  /\ dirty \in [Contexts -> SUBSET {"ring", "image", "tables"}]
  /\ fence \in [Contexts -> 0 .. SeqnoLimit]
  /\ statusPage \in [Everyone -> SUBSET Contexts]

RegisterType ==
  /\ hwsp \in Everyone
  /\ request \in BOOLEAN
  /\ ack \in BOOLEAN
  /\ gpu \in [ctx : Contexts \cup {None}, phase : {"idle", "running", "saving"}]
  /\ ran \in [Everyone -> Nat]
  /\ created \in Nat

\* The variables have the types of the fields and registers they stand for: in
\* particular a seqno never passes the limit and a tail never leaves the ring.
TypeOK == CpuType /\ MemoryType /\ RegisterType

\* Where a thread is when it owns fScheduler->fLock.
Holding == {"check", "previous", "take", "taking", "write", "publish",
            "status", "port", "execute", "save", "statusTake", "statusTaking",
            "statusRead"}

(***************************************************************************)
(* "All submissions share the physical engine lock, including the complete *)
(* context-save interval" (779-780): until a wait has timed out, the GPU   *)
(* only ever works for the context whose thread holds the lock and waits.  *)
(***************************************************************************)
EngineOwned ==
  gpu.ctx # None /\ ~faulted[Scheduler] =>
    lock = gpu.ctx /\ pc[gpu.ctx] \in {"execute", "save"}

(***************************************************************************)
(* Everything the processor wrote that the GPU fetches (the command, the   *)
(* image, the page tables) has been flushed before the GPU looks.          *)
(***************************************************************************)
NoStaleFetch ==
  gpu.ctx # None /\ ~faulted[Scheduler] => dirty[gpu.ctx] = {}

(***************************************************************************)
(* Wrapping and padding the ring: what the engine meets between the head   *)
(* it saved and the new tail is the command of this submission, alone,     *)
(* whatever earlier laps left in the ring.                                 *)
(***************************************************************************)
RunsOnlyTheNewCommand ==
  gpu.phase = "running" => Fetched(gpu.ctx) = {nextSeqno[gpu.ctx] - 1}

(***************************************************************************)
(* The comment before the wait for the previous submission (665-666): a    *)
(* context only gets there when that submission is complete, so the wait   *)
(* cannot time out (and Submit need not fault the context there).          *)
(***************************************************************************)
PreviousIsComplete ==
  \A c \in Contexts :
    pc[c] \in {"previous", "take", "taking", "write"} =>
      fence[c] = nextSeqno[c] - 1 /\ image[c].head = ringTail[c]

(***************************************************************************)
(* A context that no longer exists is not in the engine: its image and     *)
(* ring are freed by DestroyContext.                                       *)
(***************************************************************************)
FreedContextUnused == \A c \in Contexts : pc[c] = "absent" => gpu.ctx # c

(***************************************************************************)
(* GPU time: what the driver counted for a context is what the hardware    *)
(* spent on it, in spite of the 32-bit timestamp, and the engine's total   *)
(* is over every context it ever ran.                                      *)
(***************************************************************************)
TicksExact ==
  lock = None /\ ~faulted[Scheduler] => ticks = ran

(***************************************************************************)
(* After a timeout the engine is never given another context (644-660),    *)
(* although the GPU may still finish the one it has.                       *)
(***************************************************************************)
NothingStartsAfterAFault ==
  [][faulted[Scheduler] => gpu'.ctx \in {gpu.ctx, None}]_vars

(***************************************************************************)
(* Every call into the engine returns, whatever the hardware does.         *)
(***************************************************************************)
CallsReturn ==
  \A c \in Contexts :
    pc[c] \notin {"idle", "absent"} ~> pc[c] \in {"idle", "absent"}
=============================================================================
