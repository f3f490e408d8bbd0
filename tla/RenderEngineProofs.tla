-------------------------- MODULE RenderEngineProofs --------------------------
(***************************************************************************)
(* What holds of RenderEngine for every set of contexts, every ring, every *)
(* length of the timeline and every width of the timestamp, and that it    *)
(* implements BatchService.                                                *)
(***************************************************************************)
EXTENDS MCRenderEngine, TLAPS

\* Where an admitted submission is, until Submit returns.
Admitted == {"previous", "take", "taking", "write", "publish", "status",
             "port", "execute", "save"}

\* The mutex: the owner is the thread that is between Acquire and Return.
LockOwner == \A c \in Contexts : lock = c <=> pc[c] \in Holding

\* A fault is known to the scheduler at once, and stops admissions; if the
\* GPU is then still busy, it is with the context that faulted.
FaultKnown ==
  /\ \A c \in Contexts : faulted[c] => faulted[Scheduler]
  /\ \A c \in Contexts : pc[c] \in Admitted => ~faulted[Scheduler]
  /\ gpu.ctx # None /\ faulted[Scheduler] => faulted[gpu.ctx]

GpuBusy ==
  /\ gpu.ctx = None <=> gpu.phase = "idle"
  /\ gpu.ctx # None => pc[gpu.ctx] \notin {"absent", "initTaking", "initRelease"}

\* The status page was cleared before the port was written.
StatusFresh ==
  \A c \in Contexts :
    ~faulted[Scheduler] /\ (pc[c] = "port" \/ gpu.ctx = c) => c \notin statusPage[c]

\* What is still in the caches of the processor, at each step of Submit.
CachesFlushed ==
  \A c \in Contexts :
    /\ pc[c] = "publish" => dirty[c] \subseteq {"ring", "image"}
    /\ pc[c] \in {"status", "port", "execute", "save"} => dirty[c] = {}

\* Only an admitted submission takes a seqno.
SeqnoRoom ==
  \A c \in Contexts :
    pc[c] \in {"previous", "take", "taking", "write"} => nextSeqno[c] < SeqnoLimit

\* The lock and the caches.
OwnerInv == /\ LockOwner /\ FaultKnown /\ GpuBusy /\ StatusFresh
            /\ CachesFlushed /\ SeqnoRoom /\ EngineOwned

\* The last submission of a context ran to its end, and was saved.
Complete(c) == fence[c] = nextSeqno[c] - 1 /\ image[c].head = ringTail[c]

\* What the engine met is the submission that its context waits for.
GpuMet ==
  /\ gpu.ctx # None /\ gpu.phase = "running" =>
       /\ Fetched(gpu.ctx) = {nextSeqno[gpu.ctx] - 1}
       /\ fence[gpu.ctx] = nextSeqno[gpu.ctx] - 2
  /\ gpu.ctx # None /\ gpu.phase = "saving" => fence[gpu.ctx] = nextSeqno[gpu.ctx] - 1

\* One submission is in the ring, and the engine has not met it.
Written1(c) ==
  /\ ring[c][Start(ringTail[c])] = nextSeqno[c] - 1
  /\ \A i \in CommandCells(ringTail[c]) \cup Padding(ringTail[c]) :
       i # Start(ringTail[c]) => ring[c][i] = Noop

TimelineOf(c) ==
  /\ pc[c] \notin {"publish", "status", "port", "execute", "save"} => Complete(c)
  /\ pc[c] = "publish" =>
       /\ fence[c] = nextSeqno[c] - 2
       /\ image[c].head = ringTail[c]
       /\ Written1(c)
  /\ pc[c] \in {"status", "port"} => Fetched(c) = {nextSeqno[c] - 1}
  /\ pc[c] \in {"status", "port", "execute", "save"} =>
       /\ image[c].tail = ringTail[c]
       /\ fence[c] \in {nextSeqno[c] - 2, nextSeqno[c] - 1}
  /\ pc[c] \in {"status", "port"} => fence[c] = nextSeqno[c] - 2
  /\ pc[c] = "save" => fence[c] = nextSeqno[c] - 1
  /\ pc[c] \in {"execute", "save"} /\ gpu.ctx # c /\ c \in statusPage[c] => Complete(c)

TimelineInv == \A c \in Contexts : ~faulted[c] => TimelineOf(c)

IInv == TypeOK /\ OwnerInv /\ GpuMet /\ TimelineInv

-----------------------------------------------------------------------------
\* The remainder, as far as the ring needs it.
LEMMA ModSmall ==
  ASSUME NEW a \in Nat, NEW b \in Nat, b > 0
  PROVE  /\ a % b \in 0 .. b - 1
         /\ a < b => a % b = a
         /\ a = b => a % b = 0
OBVIOUS

\* The steps during which a submission is in the ring or in the engine.
Underway == {"publish", "status", "port", "execute", "save"}

\* The command, and the padding before it, are what lies between the old tail
\* and the new one.
LEMMA CommandInWindow ==
  ASSUME NEW t \in Cells, NEW tail, tail = (Start(t) + CommandSize) % RingSize
  PROVE  /\ tail \in Cells /\ Start(t) \in Cells
         /\ Between(t, tail) = CommandCells(t) \cup Padding(t)
         /\ CommandCells(t) \cup Padding(t) \subseteq Cells
         /\ Start(t) \in CommandCells(t)
<1> USE EngineAssumption
<1>1. Start(t) \in Cells /\ Start(t) + CommandSize \in Nat /\ Start(t) + CommandSize <= RingSize
  BY DEF Start, Cells
<1>2. tail = IF Start(t) + CommandSize = RingSize THEN 0 ELSE Start(t) + CommandSize
  BY <1>1, ModSmall
<1>3. Between(t, tail) = CommandCells(t) \cup Padding(t)
  <2>1. CASE Start(t) = t
    <3>1. CASE t + CommandSize = RingSize
      <4>1. tail = 0 /\ CommandCells(t) = t .. RingSize - 1 /\ Padding(t) = {}
        BY <1>1, <1>2, <2>1, <3>1 DEF CommandCells, Padding, Cells
      <4>2. ~(t <= 0)
        BY <3>1 DEF Cells
      <4>3. Between(t, tail) = (t .. RingSize - 1) \cup (0 .. 0 - 1)
        BY <4>1, <4>2 DEF Between
      <4>4. 0 .. 0 - 1 = {}
        OBVIOUS
      <4>5. CommandCells(t) \cup Padding(t) = t .. RingSize - 1
        BY <4>1
      <4>6. Between(t, tail) = t .. RingSize - 1
        BY <4>3, <4>4
      <4>7. QED
        BY <4>5, <4>6
    <3>2. CASE t + CommandSize # RingSize
      BY <1>1, <1>2, <2>1, <3>2 DEF Between, CommandCells, Padding, Cells
    <3>3. QED
      BY <3>1, <3>2
  <2>2. CASE Start(t) # t
    BY <1>1, <1>2, <2>2 DEF Between, CommandCells, Padding, Cells, Start
  <2>3. QED
    BY <2>1, <2>2
<1>4. CommandCells(t) \cup Padding(t) \subseteq Cells /\ Start(t) \in CommandCells(t)
  BY <1>1 DEF CommandCells, Padding, Cells
<1>5. QED
  BY <1>1, <1>2, <1>3, <1>4 DEF Cells

(***************************************************************************)
(* Type correctness.                                                       *)
(***************************************************************************)
LEMMA CpuTypeStep ==
  ASSUME TypeOK, OwnerInv, [Next]_vars
  PROVE  CpuType'
<1> USE EngineAssumption
    DEF TypeOK, CpuType, Everyone, Pcs, Goto, Return, cpuVars, timeline
<1>1. ASSUME NEW c \in Contexts, CreateContext(c) PROVE CpuType'
  BY SMTT(30), <1>1 DEF CreateContext, Cells
<1>2. ASSUME NEW c \in Contexts, InitAwake(c) PROVE CpuType'
  BY <1>2 DEF InitAwake
<1>3. ASSUME NEW c \in Contexts, InitRelease(c) PROVE CpuType'
  BY <1>3 DEF InitRelease
<1>4. ASSUME NEW c \in Contexts, InitTimeout(c) PROVE CpuType'
  BY <1>4 DEF InitTimeout
<1>5. ASSUME NEW c \in Contexts, DestroyContext(c) PROVE CpuType'
  BY <1>5 DEF DestroyContext
<1>6. ASSUME NEW c \in Contexts, MapBuffer(c) PROVE CpuType'
  BY <1>6 DEF MapBuffer
<1>7. ASSUME NEW c \in Contexts, Submit(c) PROVE CpuType'
  BY <1>7 DEF Submit
<1>8. ASSUME NEW c \in Contexts, Status(c) PROVE CpuType'
  BY <1>8 DEF Status
<1>9. ASSUME NEW c \in Contexts, Acquire(c) PROVE CpuType'
  BY <1>9 DEF Acquire
<1>10. ASSUME NEW c \in Contexts, Refuse(c) PROVE CpuType'
  BY <1>10 DEF Refuse
<1>11. ASSUME NEW c \in Contexts, Admit(c) PROVE CpuType'
  BY <1>11 DEF Admit
<1>12. ASSUME NEW c \in Contexts, WaitPrevious(c) PROVE CpuType'
  BY <1>12 DEF WaitPrevious
<1>13. ASSUME NEW c \in Contexts, TakeForcewake(c) PROVE CpuType'
  BY <1>13 DEF TakeForcewake
<1>14. ASSUME NEW c \in Contexts, Awake(c) PROVE CpuType'
  BY <1>14 DEF Awake
<1>15. ASSUME NEW c \in Contexts, WakeTimeout(c) PROVE CpuType'
  BY <1>15 DEF WakeTimeout
<1>16. ASSUME NEW c \in Contexts, StatusTimeout(c) PROVE CpuType'
  BY <1>16 DEF StatusTimeout
<1>17. ASSUME NEW c \in Contexts, ReadStatus(c) PROVE CpuType'
  BY <1>17 DEF ReadStatus
<1>18. ASSUME NEW c \in Contexts, WriteCommands(c) PROVE CpuType'
  <2>1. nextSeqno[c] + 1 \in 1 .. SeqnoLimit
    BY <1>18 DEF WriteCommands, OwnerInv, SeqnoRoom
  <2>2. QED
    BY <1>18, <2>1 DEF WriteCommands
<1>19. ASSUME NEW c \in Contexts, PublishTail(c) PROVE CpuType'
  <2>1. PICK tail : tail = (Start(ringTail[c]) + CommandSize) % RingSize
    OBVIOUS
  <2>2. tail \in Cells
    BY <2>1, CommandInWindow
  <2>3. QED
    BY <1>19, <2>1, <2>2 DEF PublishTail
<1>20. ASSUME NEW c \in Contexts, PointStatusPage(c) PROVE CpuType'
  BY <1>20 DEF PointStatusPage
<1>21. ASSUME NEW c \in Contexts, WritePort(c) PROVE CpuType'
  BY <1>21 DEF WritePort
<1>22. ASSUME NEW c \in Contexts, Executed(c) PROVE CpuType'
  BY <1>22 DEF Executed
<1>23. ASSUME NEW c \in Contexts, Saved(c) PROVE CpuType'
  <2>1. image[c].stamp \in 0 .. TickModulus - 1
    BY DEF MemoryType, Images
  <2>2. Elapsed(image[c].stamp, lastStamp[c]) \in Nat
    <3>1. image[c].stamp - lastStamp[c] \in Int
      BY <2>1
    <3>2. QED
      BY <3>1, ModSmall DEF Elapsed
  <2>3. Seqno(c) \in 0 .. SeqnoLimit
    BY DEF Seqno
  <2>4. ticks' \in [Everyone -> Nat]
    BY <1>23, <2>2 DEF Saved
  <2>5. QED
    BY <1>23, <2>1, <2>3, <2>4 DEF Saved
<1>24. ASSUME NEW c \in Contexts, Fault(c) PROVE CpuType'
  BY <1>24 DEF Fault
<1>25. CASE UNCHANGED cpuVars
  BY <1>25
<1>26. QED
  BY <1>1, <1>2, <1>3, <1>4, <1>5, <1>6, <1>7, <1>8, <1>9, <1>10, <1>11,
     <1>12, <1>13, <1>14, <1>15, <1>16, <1>17, <1>18, <1>19, <1>20, <1>21,
     <1>22, <1>23, <1>24, <1>25
  DEF Next, Lifecycle, Call, Step, Gpu, Acknowledge, GpuExecute, GpuSave,
      vars

LEMMA MemoryTypeStep ==
  ASSUME TypeOK, OwnerInv, GpuMet, [Next]_vars
  PROVE  MemoryType'
<1> USE EngineAssumption DEF TypeOK, MemoryType, Everyone, Goto, Return, memory
<1>1. ASSUME NEW c \in Contexts, CreateContext(c) PROVE MemoryType'
  <2>1. [i \in Cells |-> Noop] \in [Cells -> 0 .. SeqnoLimit]
    BY DEF Noop
  <2>2. FreshImage \in Images
    BY DEF FreshImage, Images, Cells
  <2>3. QED
    BY <1>1, <2>1, <2>2 DEF CreateContext
<1>2. ASSUME NEW c \in Contexts, MapBuffer(c) PROVE MemoryType'
  BY <1>2 DEF MapBuffer
<1>3. ASSUME NEW c \in Contexts, WriteCommands(c) PROVE MemoryType'
  <2>1. nextSeqno[c] \in 0 .. SeqnoLimit
    BY DEF CpuType
  <2>2. Written(ring[c], ringTail[c], nextSeqno[c]) \in [Cells -> 0 .. SeqnoLimit]
    BY <2>1 DEF Written, Noop
  <2>3. [image[c] EXCEPT !.inhibit = RestoreInhibit(c)] \in Images
    BY DEF RestoreInhibit, Images
  <2>4. QED
    BY <1>3, <2>2, <2>3 DEF WriteCommands
<1>4. ASSUME NEW c \in Contexts, PublishTail(c) PROVE MemoryType'
  <2>1. PICK tail : tail = (Start(ringTail[c]) + CommandSize) % RingSize
    OBVIOUS
  <2>2. tail \in Cells
    BY <2>1, CommandInWindow DEF CpuType
  <2>3. [image[c] EXCEPT !.tail = tail] \in Images
    BY <2>2 DEF Images
  <2>4. QED
    BY <1>4, <2>1, <2>3 DEF PublishTail
<1>5. ASSUME NEW c \in Contexts, PointStatusPage(c) PROVE MemoryType'
  BY <1>5 DEF PointStatusPage
<1>6. ASSUME GpuExecute PROVE MemoryType'
  <2>1. gpu.ctx \in Contexts
    BY <1>6 DEF GpuExecute, OwnerInv, GpuBusy, RegisterType
  <2>2. Fetched(gpu.ctx) = {nextSeqno[gpu.ctx] - 1}
    BY <1>6, <2>1 DEF GpuExecute, GpuMet
  <2>3. nextSeqno[gpu.ctx] - 1 \in 0 .. SeqnoLimit
    BY <2>1 DEF CpuType
  <2>4. PICK e : e = CHOOSE s \in Fetched(gpu.ctx) : \A other \in Fetched(gpu.ctx) : other <= s
    OBVIOUS
  <2>5. fence' = [fence EXCEPT ![gpu.ctx] = e]
    BY <1>6, <2>2, <2>4 DEF GpuExecute
  <2>6. e = nextSeqno[gpu.ctx] - 1
    BY <2>2, <2>3, <2>4
  <2>7. QED
    BY <1>6, <2>1, <2>3, <2>5, <2>6 DEF GpuExecute
<1>7. ASSUME NEW length \in RunLengths, GpuSave(length) PROVE MemoryType'
  <2>1. gpu.ctx \in Contexts /\ hwsp \in Everyone
    BY <1>7 DEF GpuSave, OwnerInv, GpuBusy, RegisterType
  <2>2. image[gpu.ctx] \in Images /\ image[gpu.ctx].stamp + length \in Nat
    BY <2>1 DEF Images
  <2>3. (image[gpu.ctx].stamp + length) % TickModulus \in 0 .. TickModulus - 1
    BY <2>2, ModSmall
  <2>4. [image[gpu.ctx] EXCEPT !.head = image[gpu.ctx].tail,
                               !.stamp = (@ + length) % TickModulus] \in Images
    <3>1. ASSUME NEW i \in Images, NEW stamp \in 0 .. TickModulus - 1
          PROVE  [i EXCEPT !.head = i.tail, !.stamp = stamp] \in Images
      BY DEF Images
    <3> QED
      BY <2>2, <2>3, <3>1
  <2>5. QED
    BY <1>7, <2>1, <2>4 DEF GpuSave
<1>8. CASE UNCHANGED memory
  BY <1>8
<1>9. QED
  BY <1>1, <1>2, <1>3, <1>4, <1>5, <1>6, <1>7, <1>8
  DEF Next, Lifecycle, Call, Step, Gpu, InitAwake, InitRelease, InitTimeout,
      DestroyContext, Submit, Status, Acquire, Refuse, Admit, WaitPrevious,
      TakeForcewake, Awake, WakeTimeout, StatusTimeout, ReadStatus,
      WritePort, Executed, Saved, Fault, Acknowledge, vars

LEMMA RegisterTypeStep ==
  ASSUME TypeOK, OwnerInv, [Next]_vars
  PROVE  RegisterType'
<1> USE EngineAssumption
    DEF TypeOK, RegisterType, Everyone, Goto, Return, registers
<1>1. ASSUME NEW c \in Contexts, CreateContext(c) PROVE RegisterType'
  BY <1>1 DEF CreateContext
<1>2. ASSUME NEW c \in Contexts, InitRelease(c) PROVE RegisterType'
  <2>1. created' \in Nat
    BY <1>2 DEF InitRelease
  <2>2. QED
    BY <1>2, <2>1 DEF InitRelease
<1>3. ASSUME NEW c \in Contexts, InitTimeout(c) PROVE RegisterType'
  BY <1>3 DEF InitTimeout
<1>4. ASSUME NEW c \in Contexts, TakeForcewake(c) PROVE RegisterType'
  BY <1>4 DEF TakeForcewake
<1>5. ASSUME NEW c \in Contexts, WakeTimeout(c) PROVE RegisterType'
  BY <1>5 DEF WakeTimeout
<1>6. ASSUME NEW c \in Contexts, ReadStatus(c) PROVE RegisterType'
  BY <1>6 DEF ReadStatus
<1>7. ASSUME NEW c \in Contexts, PointStatusPage(c) PROVE RegisterType'
  BY <1>7 DEF PointStatusPage
<1>8. ASSUME NEW c \in Contexts, WritePort(c) PROVE RegisterType'
  BY <1>8 DEF WritePort
<1>9. ASSUME NEW c \in Contexts, Saved(c) PROVE RegisterType'
  BY <1>9 DEF Saved
<1>10. ASSUME NEW c \in Contexts, Fault(c) PROVE RegisterType'
  BY <1>10 DEF Fault
<1>11. ASSUME Acknowledge PROVE RegisterType'
  BY <1>11 DEF Acknowledge
<1>12. ASSUME GpuExecute PROVE RegisterType'
  BY <1>12 DEF GpuExecute
<1>13. ASSUME NEW length \in RunLengths, GpuSave(length) PROVE RegisterType'
  <2>1. gpu.ctx \in Contexts /\ length \in Nat
    BY <1>13 DEF GpuSave, OwnerInv, GpuBusy
  <2>2. ran' \in [Everyone -> Nat]
    BY <1>13, <2>1 DEF GpuSave, CpuType
  <2>3. QED
    BY <1>13, <2>2 DEF GpuSave, IdleGpu
<1>14. CASE UNCHANGED <<registers, ran, created>>
  BY <1>14
<1>15. QED
  BY <1>1, <1>2, <1>3, <1>4, <1>5, <1>6, <1>7, <1>8, <1>9, <1>10, <1>11,
     <1>12, <1>13, <1>14
  DEF Next, Lifecycle, Call, Step, Gpu, InitAwake, DestroyContext,
      MapBuffer, Submit, Status, Acquire, Refuse, Admit, WaitPrevious,
      Awake, StatusTimeout, WriteCommands, PublishTail, Executed, vars

(***************************************************************************)
(* The lock, the fault, the caches.                                        *)
(***************************************************************************)
LEMMA OwnerStep ==
  ASSUME TypeOK, OwnerInv, [Next]_vars
  PROVE  OwnerInv'
<1> USE EngineAssumption
    DEF TypeOK, CpuType, MemoryType, RegisterType, OwnerInv, Everyone, Pcs,
        Goto, Return, cpuVars, timeline, memory, registers, IdleGpu
<1>1. ASSUME NEW c \in Contexts, CreateContext(c) PROVE OwnerInv'
  BY <1>1
  DEF CreateContext, LockOwner, Holding, FaultKnown, Admitted, GpuBusy,
       StatusFresh, CachesFlushed, SeqnoRoom, EngineOwned
<1>2. ASSUME NEW c \in Contexts, InitAwake(c) PROVE OwnerInv'
  BY <1>2
  DEF InitAwake, LockOwner, Holding, FaultKnown, Admitted, GpuBusy,
       StatusFresh, CachesFlushed, SeqnoRoom, EngineOwned
<1>3. ASSUME NEW c \in Contexts, InitRelease(c) PROVE OwnerInv'
  BY <1>3
  DEF InitRelease, LockOwner, Holding, FaultKnown, Admitted, GpuBusy,
       StatusFresh, CachesFlushed, SeqnoRoom, EngineOwned
<1>4. ASSUME NEW c \in Contexts, InitTimeout(c) PROVE OwnerInv'
  BY <1>4
  DEF InitTimeout, LockOwner, Holding, FaultKnown, Admitted, GpuBusy,
       StatusFresh, CachesFlushed, SeqnoRoom, EngineOwned
<1>5. ASSUME NEW c \in Contexts, DestroyContext(c) PROVE OwnerInv'
  <2>1. LockOwner'
    BY <1>5 DEF DestroyContext, LockOwner, Holding
  <2>2. FaultKnown'
    BY <1>5 DEF DestroyContext, FaultKnown, LockOwner, Admitted, Holding, EngineOwned
  <2>3. GpuBusy'
    BY <1>5 DEF DestroyContext, GpuBusy, EngineOwned, FaultKnown
  <2>4. StatusFresh'
    BY <1>5 DEF DestroyContext, StatusFresh, EngineOwned, LockOwner, Holding
  <2>5. CachesFlushed'
    BY <1>5 DEF DestroyContext, CachesFlushed
  <2>6. SeqnoRoom'
    BY <1>5 DEF DestroyContext, SeqnoRoom
  <2>7. EngineOwned'
    BY <1>5 DEF DestroyContext, EngineOwned, LockOwner, Holding, StatusFresh, FaultKnown, Admitted
  <2>8. QED
    BY <2>1, <2>2, <2>3, <2>4, <2>5, <2>6, <2>7
<1>6. ASSUME NEW c \in Contexts, MapBuffer(c) PROVE OwnerInv'
  BY <1>6
  DEF MapBuffer, LockOwner, Holding, FaultKnown, Admitted, GpuBusy,
       StatusFresh, CachesFlushed, SeqnoRoom, EngineOwned
<1>7. ASSUME NEW c \in Contexts, Submit(c) PROVE OwnerInv'
  BY <1>7
  DEF Submit, LockOwner, Holding, FaultKnown, Admitted, GpuBusy,
       StatusFresh, CachesFlushed, SeqnoRoom, EngineOwned
<1>8. ASSUME NEW c \in Contexts, Status(c) PROVE OwnerInv'
  BY <1>8
  DEF Status, LockOwner, Holding, FaultKnown, Admitted, GpuBusy,
       StatusFresh, CachesFlushed, SeqnoRoom, EngineOwned
<1>9. ASSUME NEW c \in Contexts, Acquire(c) PROVE OwnerInv'
  <2>1. LockOwner'
    BY <1>9 DEF Acquire, LockOwner, Holding
  <2>2. FaultKnown'
    BY <1>9 DEF Acquire, FaultKnown, LockOwner, Admitted, Holding, EngineOwned
  <2>3. GpuBusy'
    BY <1>9 DEF Acquire, GpuBusy, EngineOwned, FaultKnown
  <2>4. StatusFresh'
    BY <1>9 DEF Acquire, StatusFresh, EngineOwned, LockOwner, Holding
  <2>5. \A d \in Contexts : pc'[d] \in Underway => pc[d] = pc'[d]
    BY <1>9 DEF Acquire, Underway
  <2>6. CachesFlushed'
    BY <1>9, <2>5 DEF Acquire, CachesFlushed, Underway
  <2>7. SeqnoRoom'
    BY <1>9 DEF Acquire, SeqnoRoom
  <2>8. EngineOwned'
    BY <1>9 DEF Acquire, EngineOwned, LockOwner, Holding, StatusFresh, FaultKnown, Admitted
  <2>9. QED
    BY <2>1, <2>2, <2>3, <2>4, <2>5, <2>6, <2>7, <2>8
<1>10. ASSUME NEW c \in Contexts, Refuse(c) PROVE OwnerInv'
  BY <1>10
  DEF Refuse, LockOwner, Holding, FaultKnown, Admitted, GpuBusy,
       StatusFresh, CachesFlushed, SeqnoRoom, EngineOwned
<1>11. ASSUME NEW c \in Contexts, Admit(c) PROVE OwnerInv'
  <2>1. LockOwner'
    BY <1>11 DEF Admit, LockOwner, Holding, Refused
  <2>2. FaultKnown'
    BY <1>11 DEF Admit, FaultKnown, LockOwner, Admitted, Holding, EngineOwned, Refused
  <2>3. GpuBusy'
    BY <1>11 DEF Admit, GpuBusy, EngineOwned, FaultKnown, Refused
  <2>4. StatusFresh'
    BY <1>11 DEF Admit, StatusFresh, EngineOwned, LockOwner, Holding, Refused
  <2>5. CachesFlushed'
    BY <1>11 DEF Admit, CachesFlushed, Refused
  <2>6. SeqnoRoom'
    BY <1>11 DEF Admit, SeqnoRoom, Refused
  <2>7. EngineOwned'
    BY <1>11 DEF Admit, EngineOwned, LockOwner, Holding, StatusFresh, FaultKnown, Admitted, Refused
  <2>8. QED
    BY <2>1, <2>2, <2>3, <2>4, <2>5, <2>6, <2>7
<1>12. ASSUME NEW c \in Contexts, WaitPrevious(c) PROVE OwnerInv'
  <2>1. LockOwner'
    BY <1>12 DEF WaitPrevious, LockOwner, Holding
  <2>2. FaultKnown'
    BY <1>12 DEF WaitPrevious, FaultKnown, LockOwner, Admitted, Holding, EngineOwned
  <2>3. GpuBusy'
    BY <1>12 DEF WaitPrevious, GpuBusy, EngineOwned, FaultKnown
  <2>4. StatusFresh'
    BY <1>12 DEF WaitPrevious, StatusFresh, EngineOwned, LockOwner, Holding
  <2>5. \A d \in Contexts : pc'[d] \in Underway => pc[d] = pc'[d]
    BY <1>12 DEF WaitPrevious, Underway
  <2>6. CachesFlushed'
    BY <1>12, <2>5 DEF WaitPrevious, CachesFlushed, Underway
  <2>7. SeqnoRoom'
    BY <1>12 DEF WaitPrevious, SeqnoRoom
  <2>8. EngineOwned'
    BY <1>12 DEF WaitPrevious, EngineOwned, LockOwner, Holding, StatusFresh, FaultKnown, Admitted
  <2>9. QED
    BY <2>1, <2>2, <2>3, <2>4, <2>5, <2>6, <2>7, <2>8
<1>13. ASSUME NEW c \in Contexts, TakeForcewake(c) PROVE OwnerInv'
  <2>1. LockOwner'
    BY <1>13 DEF TakeForcewake, LockOwner, Holding
  <2>2. FaultKnown'
    BY <1>13 DEF TakeForcewake, FaultKnown, LockOwner, Admitted, Holding, EngineOwned
  <2>3. GpuBusy'
    BY <1>13 DEF TakeForcewake, GpuBusy, EngineOwned, FaultKnown
  <2>4. StatusFresh'
    BY <1>13 DEF TakeForcewake, StatusFresh, EngineOwned, LockOwner, Holding
  <2>5. \A d \in Contexts : pc'[d] \in Underway => pc[d] = pc'[d]
    BY <1>13 DEF TakeForcewake, Underway
  <2>6. CachesFlushed'
    BY <1>13, <2>5 DEF TakeForcewake, CachesFlushed, Underway
  <2>7. SeqnoRoom'
    BY <1>13 DEF TakeForcewake, SeqnoRoom
  <2>8. EngineOwned'
    BY <1>13 DEF TakeForcewake, EngineOwned, LockOwner, Holding, StatusFresh, FaultKnown, Admitted
  <2>9. QED
    BY <2>1, <2>2, <2>3, <2>4, <2>5, <2>6, <2>7, <2>8
<1>14. ASSUME NEW c \in Contexts, Awake(c) PROVE OwnerInv'
  <2>1. LockOwner'
    BY <1>14 DEF Awake, LockOwner, Holding
  <2>2. FaultKnown'
    BY <1>14 DEF Awake, FaultKnown, LockOwner, Admitted, Holding, EngineOwned
  <2>3. GpuBusy'
    BY <1>14 DEF Awake, GpuBusy, EngineOwned, FaultKnown
  <2>4. StatusFresh'
    BY <1>14 DEF Awake, StatusFresh, EngineOwned, LockOwner, Holding
  <2>5. \A d \in Contexts : pc'[d] \in Underway => pc[d] = pc'[d]
    BY <1>14 DEF Awake, Underway
  <2>6. CachesFlushed'
    BY <1>14, <2>5 DEF Awake, CachesFlushed, Underway
  <2>7. SeqnoRoom'
    BY <1>14 DEF Awake, SeqnoRoom
  <2>8. EngineOwned'
    BY <1>14 DEF Awake, EngineOwned, LockOwner, Holding, StatusFresh, FaultKnown, Admitted
  <2>9. QED
    BY <2>1, <2>2, <2>3, <2>4, <2>5, <2>6, <2>7, <2>8
<1>15. ASSUME NEW c \in Contexts, WakeTimeout(c) PROVE OwnerInv'
  BY <1>15
  DEF WakeTimeout, LockOwner, Holding, FaultKnown, Admitted, GpuBusy,
       StatusFresh, CachesFlushed, SeqnoRoom, EngineOwned
<1>16. ASSUME NEW c \in Contexts, StatusTimeout(c) PROVE OwnerInv'
  BY <1>16
  DEF StatusTimeout, LockOwner, Holding, FaultKnown, Admitted, GpuBusy,
       StatusFresh, CachesFlushed, SeqnoRoom, EngineOwned
<1>17. ASSUME NEW c \in Contexts, ReadStatus(c) PROVE OwnerInv'
  BY <1>17
  DEF ReadStatus, LockOwner, Holding, FaultKnown, Admitted, GpuBusy,
       StatusFresh, CachesFlushed, SeqnoRoom, EngineOwned
<1>18. ASSUME NEW c \in Contexts, WriteCommands(c) PROVE OwnerInv'
  BY <1>18
  DEF WriteCommands, LockOwner, Holding, FaultKnown, Admitted, GpuBusy,
       StatusFresh, CachesFlushed, SeqnoRoom, EngineOwned
<1>19. ASSUME NEW c \in Contexts, PublishTail(c) PROVE OwnerInv'
  <2>1. LockOwner'
    BY <1>19 DEF PublishTail, LockOwner, Holding, Flushed
  <2>2. FaultKnown'
    BY <1>19 DEF PublishTail, FaultKnown, LockOwner, Admitted, Holding, EngineOwned, Flushed
  <2>3. GpuBusy'
    BY <1>19 DEF PublishTail, GpuBusy, EngineOwned, FaultKnown, Flushed
  <2>4. StatusFresh'
    BY <1>19 DEF PublishTail, StatusFresh, EngineOwned, LockOwner, Holding, Flushed
  <2>5. CachesFlushed'
    BY <1>19 DEF PublishTail, CachesFlushed, Flushed
  <2>6. SeqnoRoom'
    BY <1>19 DEF PublishTail, SeqnoRoom, Flushed
  <2>7. EngineOwned'
    BY <1>19 DEF PublishTail, EngineOwned, LockOwner, Holding, StatusFresh, FaultKnown, Admitted, Flushed
  <2>8. QED
    BY <2>1, <2>2, <2>3, <2>4, <2>5, <2>6, <2>7
<1>20. ASSUME NEW c \in Contexts, PointStatusPage(c) PROVE OwnerInv'
  BY <1>20
  DEF PointStatusPage, LockOwner, Holding, FaultKnown, Admitted, GpuBusy,
       StatusFresh, CachesFlushed, SeqnoRoom, EngineOwned
<1>21. ASSUME NEW c \in Contexts, WritePort(c) PROVE OwnerInv'
  BY <1>21
  DEF WritePort, LockOwner, Holding, FaultKnown, Admitted, GpuBusy,
       StatusFresh, CachesFlushed, SeqnoRoom, EngineOwned
<1>22. ASSUME NEW c \in Contexts, Executed(c) PROVE OwnerInv'
  BY <1>22
  DEF Executed, LockOwner, Holding, FaultKnown, Admitted, GpuBusy,
       StatusFresh, CachesFlushed, SeqnoRoom, EngineOwned
<1>23. ASSUME NEW c \in Contexts, Saved(c) PROVE OwnerInv'
  <2>1. LockOwner'
    BY <1>23 DEF Saved, LockOwner, Holding, Seqno, SaveSeen
  <2>2. FaultKnown'
    BY <1>23 DEF Saved, FaultKnown, LockOwner, Admitted, Holding, EngineOwned, Seqno, SaveSeen
  <2>3. GpuBusy'
    BY <1>23 DEF Saved, GpuBusy, EngineOwned, FaultKnown, Seqno, SaveSeen
  <2>4. StatusFresh'
    BY <1>23 DEF Saved, StatusFresh, EngineOwned, LockOwner, Holding, Seqno, SaveSeen
  <2>5. CachesFlushed'
    BY <1>23 DEF Saved, CachesFlushed, Seqno, SaveSeen
  <2>6. SeqnoRoom'
    BY <1>23 DEF Saved, SeqnoRoom, Seqno, SaveSeen
  <2>7. EngineOwned'
    BY <1>23 DEF Saved, EngineOwned, LockOwner, Holding, StatusFresh, FaultKnown, Admitted, Seqno, SaveSeen
  <2>8. QED
    BY <2>1, <2>2, <2>3, <2>4, <2>5, <2>6, <2>7
<1>24. ASSUME NEW c \in Contexts, Fault(c) PROVE OwnerInv'
  <2>1. pc[c] \in {"execute", "save"} /\ pc' = [pc EXCEPT ![c] = "idle"] /\ lock' = None
    BY <1>24 DEF Fault
  <2>2. faulted' = [faulted EXCEPT ![c] = TRUE, ![Scheduler] = TRUE]
    BY <1>24 DEF Fault
  <2>3. gpu' = gpu /\ dirty' = dirty /\ nextSeqno' = nextSeqno /\ statusPage' = statusPage
    BY <1>24 DEF Fault
  <2>4. LockOwner'
    BY <2>1 DEF LockOwner, Holding
  <2>5. FaultKnown'
    <3>1. \A d \in Contexts : pc'[d] \notin Admitted
      BY <2>1 DEF LockOwner, Holding, Admitted
    <3>2. gpu.ctx # None => faulted'[gpu.ctx]
      BY <2>1, <2>2 DEF FaultKnown, EngineOwned, LockOwner, Holding
    <3>3. QED
      BY <2>2, <2>3, <3>1, <3>2 DEF FaultKnown
  <2>6. GpuBusy' /\ StatusFresh' /\ EngineOwned'
    BY <2>1, <2>2, <2>3 DEF GpuBusy, StatusFresh, EngineOwned
  <2>7. CachesFlushed' /\ SeqnoRoom'
    BY <2>1, <2>3 DEF CachesFlushed, SeqnoRoom
  <2>8. QED
    BY <2>4, <2>5, <2>6, <2>7
<1>25. ASSUME Acknowledge PROVE OwnerInv'
  BY <1>25
  DEF Acknowledge, LockOwner, Holding, FaultKnown, Admitted, GpuBusy,
       StatusFresh, CachesFlushed, SeqnoRoom, EngineOwned
<1>26. ASSUME GpuExecute PROVE OwnerInv'
  BY <1>26
  DEF GpuExecute, LockOwner, Holding, FaultKnown, Admitted, GpuBusy,
       StatusFresh, CachesFlushed, SeqnoRoom, EngineOwned
<1>27. ASSUME NEW length \in RunLengths, GpuSave(length) PROVE OwnerInv'
  BY <1>27
  DEF GpuSave, LockOwner, Holding, FaultKnown, Admitted, GpuBusy,
       StatusFresh, CachesFlushed, SeqnoRoom, EngineOwned
<1>28. ASSUME UNCHANGED vars PROVE OwnerInv'
  BY <1>28 DEF vars, LockOwner, Holding, FaultKnown, Admitted, GpuBusy,
       StatusFresh, CachesFlushed, SeqnoRoom, EngineOwned
<1>29. QED
  BY <1>1, <1>2, <1>3, <1>4, <1>5, <1>6, <1>7, <1>8, <1>9, <1>10, <1>11,
     <1>12, <1>13, <1>14, <1>15, <1>16, <1>17, <1>18, <1>19, <1>20, <1>21,
     <1>22, <1>23, <1>24, <1>25, <1>26, <1>27, <1>28 DEF Next, Lifecycle,
     Call, Step, Gpu

(***************************************************************************)
(* The timeline: what is in the ring, and what the engine meets.           *)
(***************************************************************************)
\* A step that does not concern what the invariants say of context d.
Same(d) ==
  /\ ring'[d] = ring[d] /\ image'[d] = image[d] /\ fence'[d] = fence[d]
  /\ nextSeqno'[d] = nextSeqno[d] /\ ringTail'[d] = ringTail[d]
  /\ d \in statusPage'[d] <=> d \in statusPage[d]

LEMMA TimelineFrame ==
  ASSUME NEW d \in Contexts, ~faulted[d] => TimelineOf(d), Same(d),
         faulted'[d] = faulted[d],
         gpu' = gpu \/ (gpu.ctx # d /\ gpu'.ctx # d),
         pc'[d] = pc[d] \/ (pc[d] \notin Underway /\ pc'[d] \notin Underway)
  PROVE  (~faulted[d] => TimelineOf(d))'
BY DEF TimelineOf, Complete, Written1, Fetched, Same, Underway

LEMMA GpuMetFrame ==
  ASSUME GpuMet, gpu' = gpu, gpu.ctx # None => Same(gpu.ctx)
  PROVE  GpuMet'
BY DEF GpuMet, Fetched, Same

LEMMA GpuMetStep ==
  ASSUME TypeOK, OwnerInv, GpuMet, TimelineInv, [Next]_vars
  PROVE  GpuMet'
<1> USE EngineAssumption
    DEF TypeOK, CpuType, MemoryType, RegisterType, Everyone, Goto, Return,
        cpuVars, timeline, memory, registers
<1>1. ASSUME NEW c \in Contexts, CreateContext(c) PROVE GpuMet'
  <2>1. gpu' = gpu
    BY <1>1 DEF CreateContext
  <2>2. gpu.ctx # c
    BY <1>1 DEF CreateContext, OwnerInv, GpuBusy, EngineOwned, FaultKnown, LockOwner, Holding, Admitted
  <2>3. gpu.ctx # None => Same(gpu.ctx)
    BY <1>1, <2>2 DEF CreateContext, Same
  <2>4. QED
    BY <2>1, <2>3, GpuMetFrame
<1>2. ASSUME NEW c \in Contexts, InitAwake(c) PROVE GpuMet'
  BY <1>2, GpuMetFrame DEF InitAwake, Same
<1>3. ASSUME NEW c \in Contexts, InitRelease(c) PROVE GpuMet'
  BY <1>3, GpuMetFrame DEF InitRelease, Same
<1>4. ASSUME NEW c \in Contexts, InitTimeout(c) PROVE GpuMet'
  BY <1>4, GpuMetFrame DEF InitTimeout, Same
<1>5. ASSUME NEW c \in Contexts, DestroyContext(c) PROVE GpuMet'
  BY <1>5, GpuMetFrame DEF DestroyContext, Same
<1>6. ASSUME NEW c \in Contexts, MapBuffer(c) PROVE GpuMet'
  BY <1>6, GpuMetFrame DEF MapBuffer, Same
<1>7. ASSUME NEW c \in Contexts, Submit(c) PROVE GpuMet'
  BY <1>7, GpuMetFrame DEF Submit, Same
<1>8. ASSUME NEW c \in Contexts, Status(c) PROVE GpuMet'
  BY <1>8, GpuMetFrame DEF Status, Same
<1>9. ASSUME NEW c \in Contexts, Acquire(c) PROVE GpuMet'
  BY <1>9, GpuMetFrame DEF Acquire, Same
<1>10. ASSUME NEW c \in Contexts, Refuse(c) PROVE GpuMet'
  BY <1>10, GpuMetFrame DEF Refuse, Same
<1>11. ASSUME NEW c \in Contexts, Admit(c) PROVE GpuMet'
  BY <1>11, GpuMetFrame DEF Admit, Same
<1>12. ASSUME NEW c \in Contexts, WaitPrevious(c) PROVE GpuMet'
  BY <1>12, GpuMetFrame DEF WaitPrevious, Same
<1>13. ASSUME NEW c \in Contexts, TakeForcewake(c) PROVE GpuMet'
  BY <1>13, GpuMetFrame DEF TakeForcewake, Same
<1>14. ASSUME NEW c \in Contexts, Awake(c) PROVE GpuMet'
  BY <1>14, GpuMetFrame DEF Awake, Same
<1>15. ASSUME NEW c \in Contexts, WakeTimeout(c) PROVE GpuMet'
  BY <1>15, GpuMetFrame DEF WakeTimeout, Same
<1>16. ASSUME NEW c \in Contexts, StatusTimeout(c) PROVE GpuMet'
  BY <1>16, GpuMetFrame DEF StatusTimeout, Same
<1>17. ASSUME NEW c \in Contexts, ReadStatus(c) PROVE GpuMet'
  BY <1>17, GpuMetFrame DEF ReadStatus, Same
<1>18. ASSUME NEW c \in Contexts, WriteCommands(c) PROVE GpuMet'
  <2>1. gpu' = gpu
    BY <1>18 DEF WriteCommands
  <2>2. gpu.ctx # c
    BY <1>18 DEF WriteCommands, OwnerInv, GpuBusy, EngineOwned, FaultKnown, LockOwner, Holding, Admitted
  <2>3. gpu.ctx # None => Same(gpu.ctx)
    BY <1>18, <2>2 DEF WriteCommands, Same
  <2>4. QED
    BY <2>1, <2>3, GpuMetFrame
<1>19. ASSUME NEW c \in Contexts, PublishTail(c) PROVE GpuMet'
  <2>1. gpu' = gpu
    BY <1>19 DEF PublishTail
  <2>2. gpu.ctx # c
    BY <1>19 DEF PublishTail, OwnerInv, GpuBusy, EngineOwned, FaultKnown, LockOwner, Holding, Admitted
  <2>3. gpu.ctx # None => Same(gpu.ctx)
    BY <1>19, <2>2 DEF PublishTail, Same
  <2>4. QED
    BY <2>1, <2>3, GpuMetFrame
<1>20. ASSUME NEW c \in Contexts, PointStatusPage(c) PROVE GpuMet'
  <2>1. gpu' = gpu
    BY <1>20 DEF PointStatusPage
  <2>2. gpu.ctx # c
    BY <1>20 DEF PointStatusPage, OwnerInv, GpuBusy, EngineOwned, FaultKnown, LockOwner, Holding, Admitted
  <2>3. gpu.ctx # None => Same(gpu.ctx)
    BY <1>20, <2>2 DEF PointStatusPage, Same
  <2>4. QED
    BY <2>1, <2>3, GpuMetFrame
<1>21. ASSUME NEW c \in Contexts, WritePort(c) PROVE GpuMet'
  <2>1. ~faulted[c] /\ TimelineOf(c)
    BY <1>21 DEF WritePort, TimelineInv, OwnerInv, FaultKnown, Admitted
  <2>2. \A d \in Contexts : Same(d)
    BY <1>21 DEF WritePort, Same
  <2>3. CASE ack
    <3>1. Fetched(c)' = Fetched(c)
      BY <2>2 DEF Same, Fetched
    <3>2. gpu'.ctx = c /\ gpu'.phase = "running"
      BY <1>21, <2>3 DEF WritePort
    <3>3. Fetched(gpu.ctx)' = Fetched(c)
      BY <3>1, <3>2 DEF Fetched
    <3>4. QED
      BY <1>21, <2>1, <2>2, <3>2, <3>3 DEF WritePort, TimelineOf, GpuMet, Same
  <2>4. CASE ~ack
    BY <1>21, <2>2, <2>4, GpuMetFrame DEF WritePort
  <2>5. QED
    BY <2>3, <2>4
<1>22. ASSUME NEW c \in Contexts, Executed(c) PROVE GpuMet'
  BY <1>22, GpuMetFrame DEF Executed, Same
<1>23. ASSUME NEW c \in Contexts, Saved(c) PROVE GpuMet'
  BY <1>23, GpuMetFrame DEF Saved, Same
<1>24. ASSUME NEW c \in Contexts, Fault(c) PROVE GpuMet'
  BY <1>24, GpuMetFrame DEF Fault, Same
<1>25. ASSUME Acknowledge PROVE GpuMet'
  BY <1>25, GpuMetFrame DEF Acknowledge, Same
<1>26. ASSUME GpuExecute PROVE GpuMet'
  <2>1. Fetched(gpu.ctx) = {nextSeqno[gpu.ctx] - 1} /\ gpu.ctx \in Contexts
    BY <1>26 DEF GpuExecute, GpuMet, OwnerInv, GpuBusy
  <2>2. fence'[gpu.ctx] = nextSeqno[gpu.ctx] - 1
    BY <1>26, <2>1 DEF GpuExecute
  <2>3. QED
    BY <1>26, <2>1, <2>2 DEF GpuExecute, GpuMet
<1>27. ASSUME NEW length \in RunLengths, GpuSave(length) PROVE GpuMet'
  BY <1>27 DEF GpuSave, IdleGpu, GpuMet
<1>28. ASSUME UNCHANGED vars PROVE GpuMet'
  BY <1>28, GpuMetFrame DEF vars, Same
<1>29. QED
  BY <1>1, <1>2, <1>3, <1>4, <1>5, <1>6, <1>7, <1>8, <1>9, <1>10, <1>11, <1>12, <1>13, <1>14, <1>15, <1>16, <1>17, <1>18, <1>19, <1>20, <1>21, <1>22, <1>23, <1>24, <1>25, <1>26, <1>27, <1>28 DEF Next, Lifecycle, Call, Step, Gpu

LEMMA TimelineStep ==
  ASSUME TypeOK, OwnerInv, GpuMet, TimelineInv, [Next]_vars
  PROVE  TimelineInv'
<1> SUFFICES ASSUME NEW d \in Contexts PROVE (~faulted[d] => TimelineOf(d))'
  BY DEF TimelineInv
<1> ~faulted[d] => TimelineOf(d)
  BY DEF TimelineInv
<1> USE EngineAssumption
    DEF TypeOK, CpuType, MemoryType, RegisterType, Everyone, Goto, Return,
        cpuVars, timeline, memory, registers
<1>1. ASSUME NEW c \in Contexts, CreateContext(c) PROVE (~faulted[d] => TimelineOf(d))'
  <2>1. CASE d # c
    BY <1>1, <2>1, TimelineFrame DEF CreateContext, Same, Underway, Everyone
  <2>2. CASE d = c
    BY <1>1, <2>2 DEF CreateContext, TimelineOf, Complete, FreshImage
  <2>3. QED
    BY <2>1, <2>2
<1>2. ASSUME NEW c \in Contexts, InitAwake(c) PROVE (~faulted[d] => TimelineOf(d))'
  <2>1. pc'[d] = pc[d] \/ (pc[d] \notin Underway /\ pc'[d] \notin Underway)
    BY <1>2 DEF InitAwake, Underway
  <2>2. Same(d) /\ faulted' = faulted /\ gpu' = gpu
    BY <1>2 DEF InitAwake, Same
  <2>3. QED
    BY <2>1, <2>2, TimelineFrame
<1>3. ASSUME NEW c \in Contexts, InitRelease(c) PROVE (~faulted[d] => TimelineOf(d))'
  BY <1>3, TimelineFrame DEF InitRelease, Same, Underway
<1>4. ASSUME NEW c \in Contexts, InitTimeout(c) PROVE (~faulted[d] => TimelineOf(d))'
  BY <1>4, TimelineFrame DEF InitTimeout, Same, Underway
<1>5. ASSUME NEW c \in Contexts, DestroyContext(c) PROVE (~faulted[d] => TimelineOf(d))'
  BY <1>5, TimelineFrame DEF DestroyContext, Same, Underway
<1>6. ASSUME NEW c \in Contexts, MapBuffer(c) PROVE (~faulted[d] => TimelineOf(d))'
  BY <1>6, TimelineFrame DEF MapBuffer, Same, Underway
<1>7. ASSUME NEW c \in Contexts, Submit(c) PROVE (~faulted[d] => TimelineOf(d))'
  BY <1>7, TimelineFrame DEF Submit, Same, Underway
<1>8. ASSUME NEW c \in Contexts, Status(c) PROVE (~faulted[d] => TimelineOf(d))'
  BY <1>8, TimelineFrame DEF Status, Same, Underway
<1>9. ASSUME NEW c \in Contexts, Acquire(c) PROVE (~faulted[d] => TimelineOf(d))'
  <2>1. pc'[d] = pc[d] \/ (pc[d] \notin Underway /\ pc'[d] \notin Underway)
    BY <1>9 DEF Acquire, Underway
  <2>2. Same(d) /\ faulted' = faulted /\ gpu' = gpu
    BY <1>9 DEF Acquire, Same
  <2>3. QED
    BY <2>1, <2>2, TimelineFrame
<1>10. ASSUME NEW c \in Contexts, Refuse(c) PROVE (~faulted[d] => TimelineOf(d))'
  BY <1>10, TimelineFrame DEF Refuse, Same, Underway
<1>11. ASSUME NEW c \in Contexts, Admit(c) PROVE (~faulted[d] => TimelineOf(d))'
  <2>1. pc'[d] = pc[d] \/ (pc[d] \notin Underway /\ pc'[d] \notin Underway)
    BY <1>11 DEF Admit, Underway
  <2>2. Same(d) /\ faulted' = faulted /\ gpu' = gpu
    BY <1>11 DEF Admit, Same
  <2>3. QED
    BY <2>1, <2>2, TimelineFrame
<1>12. ASSUME NEW c \in Contexts, WaitPrevious(c) PROVE (~faulted[d] => TimelineOf(d))'
  BY <1>12, TimelineFrame DEF WaitPrevious, Same, Underway
<1>13. ASSUME NEW c \in Contexts, TakeForcewake(c) PROVE (~faulted[d] => TimelineOf(d))'
  <2>1. pc'[d] = pc[d] \/ (pc[d] \notin Underway /\ pc'[d] \notin Underway)
    BY <1>13 DEF TakeForcewake, Underway
  <2>2. Same(d) /\ faulted' = faulted /\ gpu' = gpu
    BY <1>13 DEF TakeForcewake, Same
  <2>3. QED
    BY <2>1, <2>2, TimelineFrame
<1>14. ASSUME NEW c \in Contexts, Awake(c) PROVE (~faulted[d] => TimelineOf(d))'
  <2>1. pc'[d] = pc[d] \/ (pc[d] \notin Underway /\ pc'[d] \notin Underway)
    BY <1>14 DEF Awake, Underway
  <2>2. Same(d) /\ faulted' = faulted /\ gpu' = gpu
    BY <1>14 DEF Awake, Same
  <2>3. QED
    BY <2>1, <2>2, TimelineFrame
<1>15. ASSUME NEW c \in Contexts, WakeTimeout(c) PROVE (~faulted[d] => TimelineOf(d))'
  BY <1>15, TimelineFrame DEF WakeTimeout, Same, Underway
<1>16. ASSUME NEW c \in Contexts, StatusTimeout(c) PROVE (~faulted[d] => TimelineOf(d))'
  BY <1>16, TimelineFrame DEF StatusTimeout, Same, Underway
<1>17. ASSUME NEW c \in Contexts, ReadStatus(c) PROVE (~faulted[d] => TimelineOf(d))'
  BY <1>17, TimelineFrame DEF ReadStatus, Same, Underway
<1>18. ASSUME NEW c \in Contexts, WriteCommands(c) PROVE (~faulted[d] => TimelineOf(d))'
  <2>1. CASE d # c
    BY <1>18, <2>1, TimelineFrame DEF WriteCommands, Same, Underway, Everyone
  <2>2. CASE d = c
    <3>1. pc[c] = "write" /\ pc'[c] = "publish" /\ ringTail' = ringTail /\ fence' = fence
      BY <1>18 DEF WriteCommands
    <3>2. nextSeqno'[c] = nextSeqno[c] + 1 /\ image'[c].head = image[c].head
      BY <1>18 DEF WriteCommands
    <3>3. ring'[c] = Written(ring[c], ringTail[c], nextSeqno[c])
      BY <1>18 DEF WriteCommands
    <3>4. PICK tail : tail = (Start(ringTail[c]) + CommandSize) % RingSize
      OBVIOUS
    <3>5. Written1(c)'
      <4>1. Start(ringTail[c]) \in Cells
            /\ CommandCells(ringTail[c]) \cup Padding(ringTail[c]) \subseteq Cells
        BY <3>4, CommandInWindow
      <4>2. ring'[c][Start(ringTail[c])] = nextSeqno[c]
        BY <3>3, <4>1 DEF Written
      <4>3. \A i \in CommandCells(ringTail[c]) \cup Padding(ringTail[c]) :
              i # Start(ringTail[c]) => ring'[c][i] = Noop
        BY <3>3, <4>1 DEF Written
      <4>4. nextSeqno'[c] - 1 = nextSeqno[c]
        BY <3>2
      <4>5. QED
        BY <3>1, <4>2, <4>3, <4>4 DEF Written1, CommandCells, Padding, Start
    <3>6. faulted' = faulted
      BY <1>18 DEF WriteCommands
    <3>7. QED
      BY <2>2, <3>1, <3>2, <3>5, <3>6 DEF TimelineOf, Complete
  <2>3. QED
    BY <2>1, <2>2
<1>19. ASSUME NEW c \in Contexts, PublishTail(c) PROVE (~faulted[d] => TimelineOf(d))'
  <2>1. CASE d # c
    BY <1>19, <2>1, TimelineFrame DEF PublishTail, Same, Underway, Everyone
  <2>2. CASE d = c
    <3>1. pc[c] = "publish" /\ pc'[c] = "status" /\ ring' = ring /\ fence' = fence
      BY <1>19 DEF PublishTail
    <3>2. nextSeqno' = nextSeqno /\ faulted' = faulted
      BY <1>19 DEF PublishTail
    <3>3. PICK tail : tail = (Start(ringTail[c]) + CommandSize) % RingSize
      OBVIOUS
    <3>4. tail \in Cells /\ Between(ringTail[c], tail) = CommandCells(ringTail[c]) \cup Padding(ringTail[c])
      BY <3>3, CommandInWindow
    <3>5. image'[c].head = image[c].head /\ image'[c].tail = tail /\ ringTail'[c] = tail
      BY <1>19, <3>3 DEF PublishTail
    <3>6. ASSUME ~faulted[c] PROVE Fetched(c)' = {nextSeqno[c] - 1}
      <4>1. Written1(c) /\ image[c].head = ringTail[c]
        BY <2>2, <3>1, <3>6 DEF TimelineOf
      <4>2. Start(ringTail[c]) \in CommandCells(ringTail[c])
        BY <3>3, CommandInWindow
      <4>3. nextSeqno[c] - 1 # Noop
        <5>1. fence[c] = nextSeqno[c] - 2 /\ fence[c] \in Nat
          BY <2>2, <3>1, <3>6 DEF TimelineOf
        <5>2. QED
          BY <5>1 DEF Noop
      <4>4. QED
        BY <3>1, <3>4, <3>5, <4>1, <4>2, <4>3 DEF Fetched, Written1
    <3>7. QED
      BY <2>2, <3>1, <3>2, <3>5, <3>6 DEF TimelineOf
  <2>3. QED
    BY <2>1, <2>2
<1>20. ASSUME NEW c \in Contexts, PointStatusPage(c) PROVE (~faulted[d] => TimelineOf(d))'
  <2>1. CASE d # c
    BY <1>20, <2>1, TimelineFrame DEF PointStatusPage, Same, Underway, Everyone
  <2>2. CASE d = c
    <3>1. Fetched(c)' = Fetched(c)
      BY <1>20 DEF PointStatusPage, Fetched
    <3>2. QED
      BY <1>20, <2>2, <3>1 DEF PointStatusPage, TimelineOf
  <2>3. QED
    BY <2>1, <2>2
<1>21. ASSUME NEW c \in Contexts, WritePort(c) PROVE (~faulted[d] => TimelineOf(d))'
  <2>1. CASE d # c
    <3>1. gpu' = gpu \/ (gpu.ctx # d /\ gpu'.ctx # d)
      BY <1>21, <2>1 DEF WritePort, OwnerInv, LockOwner, Holding, EngineOwned, FaultKnown, Admitted
    <3>2. QED
      BY <1>21, <2>1, <3>1, TimelineFrame DEF WritePort, Same, Underway
  <2>2. CASE d = c
    BY <1>21, <2>2 DEF WritePort, TimelineOf, OwnerInv, StatusFresh, FaultKnown, Admitted
  <2>3. QED
    BY <2>1, <2>2
<1>22. ASSUME NEW c \in Contexts, Executed(c) PROVE (~faulted[d] => TimelineOf(d))'
  <2>1. CASE d # c
    BY <1>22, <2>1, TimelineFrame DEF Executed, Same, Underway, Everyone
  <2>2. CASE d = c
    BY <1>22, <2>2 DEF Executed, TimelineOf, Complete
  <2>3. QED
    BY <2>1, <2>2
<1>23. ASSUME NEW c \in Contexts, Saved(c) PROVE (~faulted[d] => TimelineOf(d))'
  <2>1. CASE d # c
    BY <1>23, <2>1, TimelineFrame DEF Saved, Same, Underway, Everyone
  <2>2. CASE d = c
    BY <1>23, <2>2 DEF Saved, SaveSeen, Seqno, TimelineOf, Complete, OwnerInv, StatusFresh, FaultKnown, Admitted
  <2>3. QED
    BY <2>1, <2>2
<1>24. ASSUME NEW c \in Contexts, Fault(c) PROVE (~faulted[d] => TimelineOf(d))'
  <2>1. CASE d # c
    BY <1>24, <2>1, TimelineFrame DEF Fault, Same, Underway, Everyone
  <2>2. CASE d = c
    BY <1>24, <2>2 DEF Fault
  <2>3. QED
    BY <2>1, <2>2
<1>25. ASSUME Acknowledge PROVE (~faulted[d] => TimelineOf(d))'
  BY <1>25, TimelineFrame DEF Acknowledge, Same
<1>26. ASSUME GpuExecute PROVE (~faulted[d] => TimelineOf(d))'
  <2>1. gpu.ctx \in Contexts /\ gpu'.ctx = gpu.ctx
    BY <1>26 DEF GpuExecute, OwnerInv, GpuBusy
  <2>2. CASE d # gpu.ctx
    BY <1>26, <2>1, <2>2, TimelineFrame DEF GpuExecute, Same
  <2>3. CASE d = gpu.ctx
    <3>1. fence'[d] = nextSeqno[d] - 1
      BY <1>26, <2>1, <2>3, GpuMetStep DEF GpuExecute, GpuMet
    <3>2. ~faulted[d] => pc[d] \in {"execute", "save"}
      BY <1>26, <2>1, <2>3 DEF OwnerInv, EngineOwned, FaultKnown
    <3>3. QED
      BY <1>26, <2>1, <2>3, <3>1, <3>2 DEF GpuExecute, TimelineOf
  <2>4. QED
    BY <2>2, <2>3
<1>27. ASSUME NEW length \in RunLengths, GpuSave(length) PROVE (~faulted[d] => TimelineOf(d))'
  <2>1. gpu.ctx \in Contexts /\ gpu'.ctx = None
    BY <1>27 DEF GpuSave, IdleGpu, OwnerInv, GpuBusy
  <2>2. CASE d # gpu.ctx
    BY <1>27, <2>1, <2>2, TimelineFrame DEF GpuSave, Same
  <2>3. CASE d = gpu.ctx
    <3>1. fence[d] = nextSeqno[d] - 1
      BY <1>27, <2>1, <2>3 DEF GpuSave, GpuMet
    <3>2. ~faulted[d] => pc[d] \in {"execute", "save"}
      BY <1>27, <2>1, <2>3 DEF OwnerInv, EngineOwned, FaultKnown
    <3>3. image'[d].head = image[d].tail /\ image'[d].tail = image[d].tail
      BY <1>27, <2>1, <2>3 DEF GpuSave
    <3>4. QED
      BY <1>27, <2>1, <2>3, <3>1, <3>2, <3>3 DEF GpuSave, TimelineOf, Complete
  <2>4. QED
    BY <2>2, <2>3
<1>28. ASSUME UNCHANGED vars PROVE (~faulted[d] => TimelineOf(d))'
  BY <1>28, TimelineFrame DEF vars, Same
<1>29. QED
  BY <1>1, <1>2, <1>3, <1>4, <1>5, <1>6, <1>7, <1>8, <1>9, <1>10, <1>11, <1>12, <1>13, <1>14, <1>15, <1>16, <1>17, <1>18, <1>19, <1>20, <1>21, <1>22, <1>23, <1>24, <1>25, <1>26, <1>27, <1>28 DEF Next, Lifecycle, Call, Step, Gpu

-----------------------------------------------------------------------------
(***************************************************************************)
(* The inductive invariant.                                                *)
(***************************************************************************)
LEMMA InitIInv ==
  ASSUME Init
  PROVE  IInv
<1> USE EngineAssumption DEF Init, Everyone
<1>1. TypeOK
  <2>1. CpuType
    BY DEF CpuType, Pcs, Cells
  <2>2. MemoryType
    <3>1. [i \in Cells |-> Noop] \in [Cells -> 0 .. SeqnoLimit]
      BY DEF Noop
    <3>2. FreshImage \in Images
      BY DEF FreshImage, Images, Cells
    <3>3. QED
      BY <3>1, <3>2 DEF MemoryType
  <2>3. RegisterType
    BY DEF RegisterType, IdleGpu
  <2>4. QED
    BY <2>1, <2>2, <2>3 DEF TypeOK
<1>2. OwnerInv
  BY DEF OwnerInv, LockOwner, Holding, FaultKnown, Admitted, GpuBusy, IdleGpu,
         StatusFresh, CachesFlushed, SeqnoRoom, EngineOwned
<1>3. GpuMet
  BY DEF GpuMet, IdleGpu
<1>4. TimelineInv
  BY DEF TimelineInv, TimelineOf, Complete, FreshImage
<1>5. QED
  BY <1>1, <1>2, <1>3, <1>4 DEF IInv

LEMMA StepIInv ==
  ASSUME IInv, [Next]_vars
  PROVE  IInv'
BY CpuTypeStep, MemoryTypeStep, RegisterTypeStep, OwnerStep, GpuMetStep,
   TimelineStep
DEF IInv, TypeOK

\* The invariant from which the theorems below follow.
THEOREM Invariance == Spec => []IInv
<1>1. Init => IInv
  BY InitIInv
<1>2. IInv /\ [Next]_vars => IInv'
  BY StepIInv
<1>3. QED
  BY <1>1, <1>2, PTL DEF Spec

-----------------------------------------------------------------------------
(***************************************************************************)
(* What follows from it.                                                   *)
(***************************************************************************)
\* No seqno passes kSeqnoLimit, no tail leaves the ring: for every ring size,
\* every number of contexts and every length of the timeline.
THEOREM TypesKept == Spec => []TypeOK
<1>1. IInv => TypeOK
  BY DEF IInv
<1>2. QED
  BY <1>1, Invariance, PTL

\* Until a wait times out, the GPU only works for the context whose thread
\* holds fScheduler->fLock and waits for it (RenderEngine.cpp:779-780).
THEOREM EngineIsOwned == Spec => []EngineOwned
<1>1. IInv => EngineOwned
  BY DEF IInv, OwnerInv
<1>2. QED
  BY <1>1, Invariance, PTL

\* Ring, image and page tables are flushed before the GPU looks at them
\* (Submit, RenderEngine.cpp:702-769).
THEOREM NothingStaleIsFetched == Spec => []NoStaleFetch
<1>1. IInv => NoStaleFetch
  BY EngineAssumption DEF IInv, OwnerInv, EngineOwned, CachesFlushed, NoStaleFetch,
     TypeOK, RegisterType
<1>2. QED
  BY <1>1, Invariance, PTL

\* Whatever the ring's size and however often it wrapped, the engine meets the
\* command of the submission in progress and no other.
THEOREM OneCommandIsMet == Spec => []RunsOnlyTheNewCommand
<1>1. IInv => RunsOnlyTheNewCommand
  <2>1. SUFFICES ASSUME IInv, gpu.phase = "running"
                 PROVE  Fetched(gpu.ctx) = {nextSeqno[gpu.ctx] - 1}
    BY DEF RunsOnlyTheNewCommand
  <2>2. gpu.ctx # None
    BY <2>1 DEF IInv, OwnerInv, GpuBusy
  <2>3. QED
    BY <2>1, <2>2 DEF IInv, GpuMet
<1>2. QED
  BY <1>1, Invariance, PTL

\* Submit waits for the previous submission (665-671) and never in vain.
THEOREM PreviousAlwaysComplete == Spec => []PreviousIsComplete
<1>1. IInv => PreviousIsComplete
  BY DEF IInv, OwnerInv, FaultKnown, Admitted, TimelineInv, TimelineOf,
         Complete, PreviousIsComplete
<1>2. QED
  BY <1>1, Invariance, PTL

\* A context that DestroyContext freed is not in the engine.
THEOREM FreedContextIsUnused == Spec => []FreedContextUnused
<1>1. IInv => FreedContextUnused
  BY EngineAssumption DEF IInv, OwnerInv, GpuBusy, FreedContextUnused
<1>2. QED
  BY <1>1, Invariance, PTL

\* Once a wait has timed out no context is given to the engine, by any client.
THEOREM FaultStopsSubmissions == Spec => NothingStartsAfterAFault
<1>1. IInv /\ [Next]_vars => [faulted[Scheduler] => gpu'.ctx \in {gpu.ctx, None}]_vars
  <2>1. SUFFICES ASSUME IInv, Next, faulted[Scheduler]
                 PROVE  gpu'.ctx \in {gpu.ctx, None}
    OBVIOUS
  <2>2. ASSUME NEW c \in Contexts, WritePort(c) PROVE FALSE
    BY <2>1, <2>2 DEF WritePort, Goto, IInv, OwnerInv, FaultKnown, Admitted
  <2>3. ASSUME GpuExecute PROVE gpu'.ctx = gpu.ctx
    BY <2>1, <2>3 DEF GpuExecute, IInv, TypeOK, RegisterType
  <2>4. ASSUME NEW length \in RunLengths, GpuSave(length) PROVE gpu'.ctx = None
    BY <2>4 DEF GpuSave, IdleGpu
  <2>5. ASSUME gpu' = gpu PROVE gpu'.ctx = gpu.ctx
    BY <2>5
  <2>6. QED
    BY <2>1, <2>2, <2>3, <2>4, <2>5
    DEF Next, Lifecycle, Call, Step, Gpu, CreateContext, InitAwake,
        InitRelease, InitTimeout, DestroyContext, MapBuffer, Submit, Status,
        Acquire, Refuse, Admit, WaitPrevious, TakeForcewake, Awake,
        WakeTimeout, StatusTimeout, ReadStatus, WriteCommands, PublishTail,
        PointStatusPage, Executed, Saved, Fault, Acknowledge, registers
<1>2. QED
  BY <1>1, Invariance, PTL DEF Spec, NothingStartsAfterAFault

-----------------------------------------------------------------------------
(***************************************************************************)
(* GPU time is counted exactly, for every width of the timestamp: a run is *)
(* shorter than one turn of the counter, so the difference of two stamps,  *)
(* taken modulo its width, is the length of the run.                       *)
(***************************************************************************)

\* What is counted is what was spent, and the stamp is the one counted last.
Settled(c) ==
  ticks[c] = ran[c] /\ lastStamp[c] = image[c].stamp

\* A run of some length was saved and is not counted yet.
Owes(c, length) ==
  /\ image[c].stamp = (lastStamp[c] + length) % TickModulus
  /\ ran[c] = ticks[c] + length
  /\ ran[Scheduler] = ticks[Scheduler] + length

\* Its thread is still inside Submit and the engine has gone on.
Owing(c) ==
  /\ pc[c] \in {"execute", "save"} /\ gpu.ctx # c
  /\ \E length \in RunLengths : Owes(c, length)

Balanced(c) ==
  /\ Settled(c) \/ Owing(c)
  /\ pc[c] \in {"execute", "save"} /\ gpu.ctx # c /\ c \in statusPage[c] => Owing(c)

TickInv ==
  ~faulted[Scheduler] =>
    /\ \A c \in Contexts : Balanced(c)
    /\ ticks[Scheduler] = ran[Scheduler] \/ \E c \in Contexts : Owing(c)

-----------------------------------------------------------------------------
LEMMA ModOnce ==
  ASSUME NEW a \in Int, NEW m \in Nat, m > 0
  PROVE  /\ a \in 0 .. m - 1 => a % m = a
         /\ a \in m .. 2 * m - 1 => a % m = a - m
         /\ a \in -m .. -1 => a % m = a + m
OBVIOUS

\* The subtraction in the width of the register undoes the addition in it.
LEMMA ElapsedIsLength ==
  ASSUME NEW last \in 0 .. TickModulus - 1, NEW length \in RunLengths
  PROVE  /\ Elapsed((last + length) % TickModulus, last) = length
         /\ length \in Nat
<1>1. /\ TickModulus \in Nat /\ TickModulus > 0 /\ last \in Nat
      /\ length \in 1 .. TickModulus - 1
  BY EngineAssumption
<1>2. CASE last + length < TickModulus
  <2>1. (last + length) % TickModulus = last + length
    BY <1>1, <1>2, ModOnce
  <2>2. Elapsed(last + length, last) = length % TickModulus
    BY <1>1 DEF Elapsed
  <2>3. length % TickModulus = length
    BY <1>1, ModOnce
  <2> QED
    BY <1>1, <2>1, <2>2, <2>3
<1>3. CASE ~(last + length < TickModulus)
  <2>1. (last + length) % TickModulus = last + length - TickModulus
    BY <1>1, <1>3, ModOnce
  <2>2. last + length - TickModulus - last = length - TickModulus
    BY <1>1
  <2>3. (length - TickModulus) % TickModulus = length
    <3>1. length - TickModulus \in -TickModulus .. -1
      BY <1>1
    <3>2. length - TickModulus \in Int
      BY <1>1
    <3>3. (length - TickModulus) % TickModulus = length - TickModulus + TickModulus
      BY <1>1, <3>1, <3>2, ModOnce
    <3> QED
      BY <1>1, <3>3
  <2> QED
    BY <1>1, <2>1, <2>2, <2>3 DEF Elapsed
<1> QED
  BY <1>1, <1>2, <1>3

-----------------------------------------------------------------------------
LEMMA TickFrame ==
  ASSUME TickInv, ~faulted[Scheduler], ticks' = ticks, ran' = ran,
         lastStamp' = lastStamp, gpu'.ctx = gpu.ctx,
         \A d \in Contexts :
           /\ image'[d].stamp = image[d].stamp
           /\ pc'[d] \in {"execute", "save"} <=> pc[d] \in {"execute", "save"}
           /\ d \in statusPage'[d] => d \in statusPage[d]
  PROVE  TickInv'
<1>1. ASSUME NEW d \in Contexts
      PROVE  /\ Settled(d) => Settled(d)'
             /\ Owing(d) => Owing(d)'
  BY <1>1 DEF Settled, Owing, Owes
<1>2. \A d \in Contexts : Balanced(d)'
  BY <1>1 DEF TickInv, Balanced
<1> QED
  BY <1>1, <1>2 DEF TickInv

\* Only the owner of the lock may have a run to count.
LEMMA OwingHasLock ==
  ASSUME IInv, NEW c \in Contexts, NEW d \in Contexts, lock = c, d # c
  PROVE  pc[d] \notin {"execute", "save"}
BY EngineAssumption DEF IInv, OwnerInv, LockOwner, Holding

LEMMA TickStep ==
  ASSUME IInv, TickInv, [Next]_vars
  PROVE  TickInv'
<1> SUFFICES ASSUME ~faulted'[Scheduler]
             PROVE  TickInv'
  BY DEF TickInv
<1>1. /\ pc \in [Contexts -> Pcs] /\ faulted \in [Everyone -> BOOLEAN]
      /\ ticks \in [Everyone -> Nat] /\ ran \in [Everyone -> Nat]
      /\ lastStamp \in [Contexts -> 0 .. TickModulus - 1]
      /\ image \in [Contexts -> Images]
      /\ statusPage \in [Everyone -> SUBSET Contexts] /\ hwsp \in Everyone
      /\ gpu \in [ctx : Contexts \cup {None}, phase : {"idle", "running", "saving"}]
      /\ Contexts \subseteq Everyone /\ Scheduler \in Everyone
      /\ Scheduler \notin Contexts /\ None \notin Contexts
  BY EngineAssumption DEF IInv, TypeOK, CpuType, MemoryType, RegisterType, Everyone
<1>2. ~faulted[Scheduler]
  <2>1. CASE faulted' = faulted
    BY <2>1
  <2>2. CASE \E c \in Contexts : Fault(c)
    BY <1>1, <2>2 DEF Fault
  <2> QED
    BY <2>1, <2>2 DEF Next, Lifecycle, Call, Step, Gpu, CreateContext, InitAwake,
       InitRelease, InitTimeout, DestroyContext, MapBuffer, Submit, Status, Acquire,
       Refuse, Admit, WaitPrevious, TakeForcewake, Awake, WakeTimeout, StatusTimeout,
       ReadStatus, WriteCommands, PublishTail, PointStatusPage, WritePort, Executed,
       Saved, Acknowledge, GpuExecute, GpuSave, vars, cpuVars
<1>3. /\ \A d \in Contexts : Balanced(d)
      /\ ticks[Scheduler] = ran[Scheduler] \/ \E d \in Contexts : Owing(d)
  BY <1>2 DEF TickInv
\* Steps of a thread that count nothing.
<1>4. ASSUME NEW c \in Contexts, NEW from \in Pcs, NEW to \in Pcs, Goto(c, from, to),
             from \in {"execute", "save"} <=> to \in {"execute", "save"},
             ticks' = ticks, ran' = ran, lastStamp' = lastStamp, gpu' = gpu,
             \A d \in Contexts : /\ image'[d].stamp = image[d].stamp
                                 /\ d \in statusPage'[d] => d \in statusPage[d]
      PROVE  TickInv'
  <2>1. \A d \in Contexts :
          pc'[d] \in {"execute", "save"} <=> pc[d] \in {"execute", "save"}
    BY <1>1, <1>4 DEF Goto
  <2> QED
    BY <1>2, <1>4, <2>1, TickFrame
<1>5. ASSUME NEW c \in Contexts,
             \/ InitAwake(c) \/ InitRelease(c) \/ InitTimeout(c) \/ DestroyContext(c)
             \/ Submit(c) \/ Status(c) \/ Acquire(c) \/ Refuse(c) \/ Admit(c)
             \/ WaitPrevious(c) \/ TakeForcewake(c) \/ Awake(c) \/ WakeTimeout(c)
             \/ StatusTimeout(c) \/ ReadStatus(c) \/ Executed(c)
      PROVE  TickInv'
  <2>1. UNCHANGED <<ticks, ran, lastStamp, gpu, image, statusPage>>
    BY <1>5 DEF InitAwake, InitRelease, InitTimeout, DestroyContext, Submit, Status,
       Acquire, Refuse, Admit, WaitPrevious, TakeForcewake, Awake, WakeTimeout,
       StatusTimeout, ReadStatus, Executed, timeline, memory, registers
  <2> DEFINE Quiet(from, to) ==
        Goto(c, from, to) /\ (from \in {"execute", "save"} <=> to \in {"execute", "save"})
  <2>2. \E from, to \in Pcs : Quiet(from, to)
    BY <1>5 DEF InitAwake, InitRelease, InitTimeout, DestroyContext, Submit, Status,
       Acquire, Refuse, Admit, WaitPrevious, TakeForcewake, Awake, WakeTimeout,
       StatusTimeout, ReadStatus, Executed, Return, Pcs
  <2> HIDE DEF Quiet
  <2>3. PICK from, to \in Pcs : Quiet(from, to)
    BY <2>2
  <2> USE DEF Quiet
  <2>4. \A d \in Contexts : /\ image'[d].stamp = image[d].stamp
                            /\ d \in statusPage'[d] => d \in statusPage[d]
    BY <2>1
  <2> QED
    BY <1>4, <2>1, <2>3, <2>4
<1>6. ASSUME NEW c \in Contexts, WriteCommands(c) \/ PublishTail(c) \/ PointStatusPage(c)
      PROVE  TickInv'
  <2>1. UNCHANGED <<ticks, ran, lastStamp, gpu>>
    BY <1>6 DEF WriteCommands, PublishTail, PointStatusPage, timeline, registers
  <2>2. \E from, to \in Pcs \ {"execute", "save"} : Goto(c, from, to)
    BY <1>6 DEF WriteCommands, PublishTail, PointStatusPage, Pcs
  <2>3. \A d \in Contexts : image'[d].stamp = image[d].stamp
    <3>1. CASE WriteCommands(c)
      <4>1. image' = [image EXCEPT ![c].inhibit = RestoreInhibit(c)]
        BY <3>1 DEF WriteCommands
      <4> QED
        BY <1>1, <4>1 DEF Images
    <3>2. CASE PublishTail(c)
      <4>1. PICK tail : image' = [image EXCEPT ![c].tail = tail]
        BY <3>2 DEF PublishTail
      <4> QED
        BY <1>1, <4>1 DEF Images
    <3>3. CASE PointStatusPage(c)
      BY <3>3 DEF PointStatusPage
    <3> QED
      BY <1>6, <3>1, <3>2, <3>3
  <2>4. \A d \in Contexts : d \in statusPage'[d] => d \in statusPage[d]
    BY <1>1, <1>6 DEF WriteCommands, PublishTail, PointStatusPage
  <2> QED
    BY <1>4, <2>1, <2>2, <2>3, <2>4
<1>7. ASSUME NEW c \in Contexts, CreateContext(c)
      PROVE  TickInv'
  <2>1. /\ pc[c] = "absent" /\ gpu' = gpu /\ image'[c].stamp = 0 /\ lastStamp'[c] = 0
        /\ ticks' = [ticks EXCEPT ![c] = 0] /\ ran' = [ran EXCEPT ![c] = 0]
        /\ pc'[c] \notin {"execute", "save"}
        /\ \A d \in Contexts \ {c} :
             /\ image'[d] = image[d] /\ lastStamp'[d] = lastStamp[d] /\ pc'[d] = pc[d]
             /\ statusPage'[d] = statusPage[d]
    BY <1>1, <1>7 DEF CreateContext, Goto, FreshImage
  <2>2. /\ ticks'[c] = 0 /\ ran'[c] = 0
        /\ ticks'[Scheduler] = ticks[Scheduler] /\ ran'[Scheduler] = ran[Scheduler]
        /\ \A d \in Contexts \ {c} : ticks'[d] = ticks[d] /\ ran'[d] = ran[d]
    BY <1>1, <2>1
  <2>3. ~Owing(c) /\ Settled(c)'
    BY <2>1, <2>2 DEF Owing, Settled
  <2>4. ASSUME NEW d \in Contexts \ {c}
        PROVE  (Settled(d) => Settled(d)') /\ (Owing(d) => Owing(d)') /\ Balanced(d)'
    <3>1. (Settled(d) => Settled(d)') /\ (Owing(d) => Owing(d)')
      BY <2>1, <2>2 DEF Settled, Owing, Owes
    <3> QED
      BY <1>3, <2>1, <3>1 DEF Balanced
  <2>5. Balanced(c)'
    BY <2>1, <2>3 DEF Balanced
  <2>6. (ticks[Scheduler] = ran[Scheduler] \/ \E d \in Contexts : Owing(d))'
    BY <1>3, <2>2, <2>3, <2>4
  <2> QED
    BY <2>4, <2>5, <2>6 DEF TickInv
<1>8. ASSUME NEW c \in Contexts, WritePort(c)
      PROVE  TickInv'
  <2>1. /\ pc[c] = "port" /\ pc'[c] = "execute" /\ gpu'.ctx \in {c, gpu.ctx}
        /\ UNCHANGED <<ticks, ran, lastStamp, image, statusPage>>
        /\ \A d \in Contexts \ {c} : pc'[d] = pc[d]
    BY <1>1, <1>8 DEF WritePort, Goto, timeline, memory
  <2>2. lock = c
    BY <2>1 DEF IInv, OwnerInv, LockOwner, Holding
  <2>3. \A d \in Contexts : pc[d] \notin {"execute", "save"}
    BY <2>1, <2>2, OwingHasLock
  <2>4. \A d \in Contexts : Settled(d) /\ ~Owing(d)
    BY <1>3, <2>3 DEF Balanced, Owing
  <2>5. \A d \in Contexts : Settled(d)'
    BY <2>1, <2>4 DEF Settled
  <2>6. c \notin statusPage[c]
    BY <1>2, <2>1 DEF IInv, OwnerInv, StatusFresh
  <2>7. \A d \in Contexts : Balanced(d)'
    BY <2>1, <2>3, <2>5, <2>6 DEF Balanced
  <2> QED
    BY <1>3, <2>1, <2>4, <2>7 DEF TickInv
<1>9. ASSUME NEW c \in Contexts, Saved(c)
      PROVE  TickInv'
  <2> DEFINE elapsed == Elapsed(image[c].stamp, lastStamp[c])
  <2>1. /\ pc[c] = "save" /\ pc'[c] = "idle" /\ c \in statusPage[c]
        /\ UNCHANGED <<ran, image, statusPage, gpu>>
        /\ ticks' = [ticks EXCEPT ![c] = @ + elapsed, ![Scheduler] = @ + elapsed]
        /\ lastStamp' = [lastStamp EXCEPT ![c] = image[c].stamp]
        /\ \A d \in Contexts \ {c} : pc'[d] = pc[d]
    BY <1>1, <1>9 DEF Saved, SaveSeen, Return, Goto, memory
  <2>2. lock = c /\ gpu.ctx # c
    BY <1>2, <2>1 DEF IInv, OwnerInv, LockOwner, Holding, StatusFresh
  <2>3. PICK length \in RunLengths : Owes(c, length)
    BY <1>3, <2>1, <2>2 DEF Balanced, Owing
  <2>4. elapsed = length /\ length \in Nat
    BY <1>1, <2>3, ElapsedIsLength DEF Owes
  <2> HIDE DEF elapsed
  <2>5. /\ ticks'[c] = ran'[c] /\ ticks'[Scheduler] = ran'[Scheduler]
        /\ \A d \in Contexts \ {c} : ticks'[d] = ticks[d]
    BY <1>1, <2>1, <2>3, <2>4 DEF Owes
  <2>6. \A d \in Contexts \ {c} : pc[d] \notin {"execute", "save"}
    BY <2>2, OwingHasLock
  <2>7. \A d \in Contexts \ {c} : Settled(d)
    BY <1>3, <2>6 DEF Balanced, Owing
  <2>8. \A d \in Contexts : Settled(d)'
    BY <1>1, <2>1, <2>5, <2>7 DEF Settled
  <2>9. \A d \in Contexts : pc'[d] \notin {"execute", "save"}
    BY <2>1, <2>6
  <2> QED
    BY <2>5, <2>8, <2>9 DEF TickInv, Balanced
<1>10. ASSUME NEW length \in RunLengths, GpuSave(length)
       PROVE  TickInv'
  <2>1. PICK c \in Contexts : c = gpu.ctx
    BY <1>1, <1>10 DEF GpuSave, IInv, OwnerInv, GpuBusy
  <2>2. lock = c /\ pc[c] \in {"execute", "save"}
    BY <1>1, <1>2, <2>1 DEF IInv, OwnerInv, EngineOwned
  <2>3. ~faulted[c]
    BY <1>2 DEF IInv, OwnerInv, FaultKnown
  <2>4. /\ UNCHANGED <<pc, ticks, lastStamp>> /\ gpu'.ctx = None
        /\ ran' = [ran EXCEPT ![c] = @ + length, ![Scheduler] = @ + length]
        /\ statusPage' = [statusPage EXCEPT ![hwsp] = @ \cup {c}]
        /\ image' = [image EXCEPT ![c].head = image[c].tail,
                                  ![c].stamp = (@ + length) % TickModulus]
    BY <1>10, <2>1, <2>3 DEF GpuSave, cpuVars, timeline, IdleGpu
  <2>5. \A d \in Contexts \ {c} : pc[d] \notin {"execute", "save"}
    BY <2>2, OwingHasLock
  <2>6. \A d \in Contexts : ~Owing(d) /\ Settled(d)
    BY <1>3, <2>1, <2>5 DEF Balanced, Owing
  <2>7. length \in Nat
    BY EngineAssumption
  <2>8. /\ ran'[c] = ran[c] + length /\ ran'[Scheduler] = ran[Scheduler] + length
        /\ image'[c].stamp = (image[c].stamp + length) % TickModulus
        /\ \A d \in Contexts \ {c} : ran'[d] = ran[d] /\ image'[d] = image[d]
    BY <1>1, <2>4 DEF Images
  <2>9. Owing(c)'
    <3>1. Owes(c, length)'
      BY <1>3, <2>4, <2>6, <2>8 DEF Owes, Settled
    <3> QED
      BY <1>1, <2>2, <2>4, <3>1 DEF Owing
  <2>10. \A d \in Contexts \ {c} : Balanced(d)'
    BY <2>4, <2>5, <2>6, <2>8 DEF Balanced, Settled
  <2> QED
    BY <2>9, <2>10 DEF TickInv, Balanced
<1>11. CASE Acknowledge \/ GpuExecute \/ (\E c \in Contexts : MapBuffer(c)) \/ UNCHANGED vars
  <2>1. UNCHANGED <<pc, ticks, ran, lastStamp, image, statusPage>> /\ gpu'.ctx = gpu.ctx
    BY <1>1, <1>11 DEF Acknowledge, GpuExecute, MapBuffer, vars, cpuVars, timeline, memory,
       registers
  <2> QED
    BY <1>2, <2>1, TickFrame
<1>12. CASE \E c \in Contexts : Fault(c)
  BY <1>1, <1>12 DEF Fault
<1> QED
  BY <1>5, <1>6, <1>7, <1>8, <1>9, <1>10, <1>11, <1>12
  DEF Next, Lifecycle, Call, Step, Gpu

LEMMA InitTicks == Init => TickInv
BY EngineAssumption DEF Init, TickInv, Balanced, Settled, FreshImage

\* When no submission is under way and none was given up, what was counted for
\* every context and for the engine is what the hardware spent, for any width
\* of the timestamp and any number of runs (RenderEngine.cpp:824-838).
THEOREM TicksAreExact == Spec => []TicksExact
<1>1. TickInv /\ IInv /\ [Next]_vars => TickInv'
  BY TickStep
<1>2. TickInv /\ IInv => TicksExact
  <2> SUFFICES ASSUME TickInv, IInv, lock = None, ~faulted[Scheduler]
               PROVE  ticks = ran
    BY DEF TicksExact
  <2>1. ticks \in [Everyone -> Nat] /\ ran \in [Everyone -> Nat]
    BY DEF IInv, TypeOK, CpuType, RegisterType
  <2>2. \A c \in Contexts : pc[c] \notin {"execute", "save"}
    BY EngineAssumption DEF IInv, OwnerInv, LockOwner, Holding
  <2>3. \A e \in Everyone : ticks[e] = ran[e]
    BY <2>2 DEF TickInv, Balanced, Owing, Settled, Everyone
  <2> QED
    BY <2>1, <2>3
<1> QED
  BY <1>1, <1>2, Invariance, InitTicks, PTL DEF Spec

-----------------------------------------------------------------------------
(***************************************************************************)
(* RenderEngine implements BatchService: every step of the lock, the ring, *)
(* the caches, the registers and the GPU is a step of the service or       *)
(* changes nothing the service knows.                                      *)
(***************************************************************************)

\* What Submit has returned lags behind the seqnos by the submission that is
\* under way, or was given up; a context that faulted is never made again.
IssuedOf(c) ==
  /\ faulted[c] \/ pc[c] \in Underway => issued[c] = nextSeqno[c] - 2
  /\ ~faulted[c] /\ pc[c] \notin Underway => issued[c] = nextSeqno[c] - 1
  /\ faulted[c] => pc[c] \notin {"absent", "initTaking", "initRelease"}

IssuedInv == \A c \in Contexts : IssuedOf(c)

-----------------------------------------------------------------------------
LEMMA IssuedFrame ==
  ASSUME NEW c \in Contexts, IssuedOf(c),
         issued'[c] = issued[c], nextSeqno'[c] = nextSeqno[c],
         faulted'[c] = faulted[c],
         pc'[c] \in Underway <=> pc[c] \in Underway,
         faulted[c] => pc'[c] \notin {"absent", "initTaking", "initRelease"}
  PROVE  IssuedOf(c)'
BY DEF IssuedOf

LEMMA IssuedStep ==
  ASSUME IInv, IssuedInv, [Next]_vars
  PROVE  IssuedInv'
<1> SUFFICES ASSUME NEW d \in Contexts
             PROVE  IssuedOf(d)'
  BY DEF IssuedInv
<1>1. /\ IssuedOf(d) /\ pc[d] \in Pcs
      /\ pc \in [Contexts -> Pcs] /\ faulted \in [Everyone -> BOOLEAN]
      /\ nextSeqno \in [Contexts -> 1 .. SeqnoLimit]
      /\ issued \in [Contexts -> 0 .. SeqnoLimit]
      /\ Contexts \subseteq Everyone /\ Scheduler \notin Contexts
      /\ Scheduler \in Everyone /\ SeqnoLimit \in Nat
      /\ pc[d] \in Admitted => ~faulted[d]
  BY EngineAssumption DEF IssuedInv, IInv, TypeOK, CpuType, Everyone, OwnerInv, FaultKnown
\* Steps that neither take nor return a seqno.
<1>2. ASSUME NEW c \in Contexts, NEW from \in Pcs, NEW to \in Pcs, Goto(c, from, to),
             UNCHANGED <<faulted, nextSeqno, issued>>,
             from \in Underway <=> to \in Underway,
             ~faulted[c] \/ to \notin {"absent", "initTaking", "initRelease"}
      PROVE  IssuedOf(d)'
  <2>1. /\ issued'[d] = issued[d] /\ nextSeqno'[d] = nextSeqno[d]
        /\ faulted'[d] = faulted[d] /\ pc[c] = from
    BY <1>2 DEF Goto
  <2>2. CASE d = c
    <3>1. pc'[d] = to
      BY <1>1, <1>2, <2>2 DEF Goto
    <3> QED
      BY <1>1, <1>2, <2>1, <2>2, <3>1, IssuedFrame
  <2>3. CASE d # c
    <3>1. pc'[d] = pc[d]
      BY <1>1, <1>2, <2>3 DEF Goto
    <3> QED
      BY <1>1, <2>1, <3>1, IssuedFrame DEF IssuedOf
  <2> QED
    BY <2>2, <2>3
<1>3. ASSUME NEW c \in Contexts, CreateContext(c)
      PROVE  IssuedOf(d)'
  <2>1. CASE d = c
    <3>1. /\ issued'[d] = 0 /\ nextSeqno'[d] = 1 /\ faulted'[d] = faulted[d]
          /\ pc'[d] \in {"initTaking", "idle"} /\ pc[d] = "absent"
      BY <1>1, <1>3, <2>1 DEF CreateContext, Goto
    <3> QED
      BY <1>1, <3>1 DEF IssuedOf, Underway
  <2>2. CASE d # c
    BY <1>1, <1>3, <2>2, IssuedFrame DEF CreateContext, Goto, IssuedOf
  <2> QED
    BY <2>1, <2>2
<1>4. ASSUME NEW c \in Contexts, WriteCommands(c)
      PROVE  IssuedOf(d)'
  <2>1. CASE d = c
    <3>1. /\ issued'[d] = issued[d] /\ nextSeqno'[d] = nextSeqno[d] + 1
          /\ faulted'[d] = faulted[d] /\ pc[d] = "write" /\ pc'[d] = "publish"
      BY <1>1, <1>4, <2>1 DEF WriteCommands, Goto
    <3> QED
      BY <1>1, <3>1 DEF IssuedOf, Underway, Admitted
  <2>2. CASE d # c
    BY <1>1, <1>4, <2>2, IssuedFrame DEF WriteCommands, Goto, IssuedOf
  <2> QED
    BY <2>1, <2>2
<1>5. ASSUME NEW c \in Contexts, Saved(c)
      PROVE  IssuedOf(d)'
  <2>1. CASE d = c
    <3>1. /\ issued'[d] = nextSeqno[d] - 1 /\ nextSeqno'[d] = nextSeqno[d]
          /\ faulted'[d] = faulted[d] /\ pc[d] = "save" /\ pc'[d] = "idle"
      BY <1>1, <1>5, <2>1 DEF Saved, Return, Goto, Seqno
    <3> QED
      BY <1>1, <3>1 DEF IssuedOf, Underway, Admitted
  <2>2. CASE d # c
    BY <1>1, <1>5, <2>2, IssuedFrame DEF Saved, Return, Goto, IssuedOf
  <2> QED
    BY <2>1, <2>2
<1>6. ASSUME NEW c \in Contexts, Fault(c)
      PROVE  IssuedOf(d)'
  <2>1. /\ faulted' = [faulted EXCEPT ![c] = TRUE, ![Scheduler] = TRUE]
        /\ UNCHANGED <<nextSeqno, issued>>
        /\ pc[c] \in {"execute", "save"} /\ pc' = [pc EXCEPT ![c] = "idle"]
    BY <1>6 DEF Fault, Return, Goto, timeline
  <2>2. CASE d = c
    <3>1. faulted'[d] /\ pc[d] \in Underway /\ pc'[d] = "idle"
      BY <1>1, <2>1, <2>2 DEF Underway
    <3> QED
      BY <1>1, <2>1, <3>1 DEF IssuedOf, Underway
  <2>3. CASE d # c
    BY <1>1, <2>1, <2>3, IssuedFrame DEF IssuedOf
  <2> QED
    BY <2>2, <2>3
\* Steps of a call, and of an Init.
<1>7. ASSUME NEW c \in Contexts,
             \/ InitAwake(c) \/ InitRelease(c) \/ InitTimeout(c) \/ DestroyContext(c)
             \/ Submit(c) \/ Status(c) \/ Acquire(c) \/ Refuse(c) \/ Admit(c)
             \/ WaitPrevious(c) \/ TakeForcewake(c) \/ Awake(c) \/ WakeTimeout(c)
             \/ StatusTimeout(c) \/ ReadStatus(c)
      PROVE  IssuedOf(d)'
  <2>1. UNCHANGED <<faulted, nextSeqno, issued>>
    BY <1>7 DEF InitAwake, InitRelease, InitTimeout, DestroyContext, Submit, Status,
       Acquire, Refuse, Admit, WaitPrevious, TakeForcewake, Awake, WakeTimeout,
       StatusTimeout, ReadStatus, timeline
  <2>2. \E from, to \in Pcs \ Underway :
          /\ Goto(c, from, to)
          /\ \/ to \notin {"absent", "initTaking", "initRelease"}
             \/ from \in {"initTaking"} \/ ~faulted[c]
    BY <1>7 DEF InitAwake, InitRelease, InitTimeout, DestroyContext, Submit, Status,
       Acquire, Refuse, Admit, WaitPrevious, TakeForcewake, Awake, WakeTimeout,
       StatusTimeout, ReadStatus, Return, Pcs, Underway
  <2>3. PICK from, to \in Pcs \ Underway :
          /\ Goto(c, from, to)
          /\ \/ to \notin {"absent", "initTaking", "initRelease"}
             \/ from \in {"initTaking"} \/ ~faulted[c]
    BY <2>2
  <2>4. from \in {"initTaking"} => ~faulted[c]
    BY <2>3 DEF IssuedInv, IssuedOf, Goto
  <2> QED
    BY <1>2, <2>1, <2>3, <2>4
<1>8. ASSUME NEW c \in Contexts,
             PublishTail(c) \/ PointStatusPage(c) \/ WritePort(c) \/ Executed(c)
      PROVE  IssuedOf(d)'
  <2>1. UNCHANGED <<faulted, nextSeqno, issued>>
    BY <1>8 DEF PublishTail, PointStatusPage, WritePort, Executed, timeline
  <2>2. \E from, to \in Pcs \cap Underway : Goto(c, from, to)
    BY <1>8 DEF PublishTail, PointStatusPage, WritePort, Executed, Pcs, Underway
  <2> QED
    BY <1>2, <2>1, <2>2 DEF Underway
<1>9. ASSUME UNCHANGED <<pc, faulted, nextSeqno, issued>>
      PROVE  IssuedOf(d)'
  BY <1>1, <1>9 DEF IssuedOf
<1>10. CASE Acknowledge \/ Gpu \/ (\E c \in Contexts : MapBuffer(c)) \/ UNCHANGED vars
  BY <1>9, <1>10 DEF Acknowledge, Gpu, GpuExecute, GpuSave, MapBuffer, vars, cpuVars, timeline
<1> QED
  BY <1>3, <1>4, <1>5, <1>6, <1>7, <1>8, <1>10 DEF Next, Lifecycle, Call, Step

LEMMA InitIssued == Init => IssuedInv
BY EngineAssumption DEF Init, IssuedInv, IssuedOf, Underway

-----------------------------------------------------------------------------
\* The submissions inside.
Pending == {c \in Contexts : pc[c] \in Inside}

\* A thread that comes out of Submit, or stays where it was seen from outside.
LEMMA PendingMoves ==
  ASSUME NEW c \in Contexts, NEW from, NEW to, Goto(c, from, to),
         pc \in [Contexts -> Pcs]
  PROVE  /\ from \in Inside /\ to \notin Inside => c \in Pending /\ Pending' = Pending \ {c}
         /\ from \notin Inside /\ to \in Inside => c \notin Pending /\ Pending' = Pending \cup {c}
         /\ (from \in Inside <=> to \in Inside) => Pending' = Pending
BY DEF Goto, Pending

LEMMA ServiceInit == Init => Service!Init
BY EngineAssumption DEF Init, Service!Init, Inside, IdleGpu

LEMMA ServiceStep ==
  ASSUME IInv, IssuedInv, [Next]_vars
  PROVE  [Service!Next]_(Service!vars)
<1>1. /\ pc \in [Contexts -> Pcs] /\ faulted \in [Everyone -> BOOLEAN]
      /\ nextSeqno \in [Contexts -> 1 .. SeqnoLimit]
      /\ issued \in [Contexts -> 0 .. SeqnoLimit]
      /\ fence \in [Contexts -> 0 .. SeqnoLimit]
      /\ gpu \in [ctx : Contexts \cup {None}, phase : {"idle", "running", "saving"}]
      /\ Contexts \subseteq Everyone /\ None \notin Contexts
      /\ Scheduler \in Everyone /\ Scheduler \notin Contexts /\ SeqnoLimit \in Nat
  BY EngineAssumption DEF IInv, TypeOK, CpuType, MemoryType, RegisterType, Everyone
\* The engine is idle, or is with another one, when a thread is in a call.
<1>2. ASSUME NEW c \in Contexts, ~faulted[Scheduler], pc[c] \notin {"execute", "save"}
      PROVE  gpu.ctx # c
  BY <1>1, <1>2 DEF IInv, OwnerInv, EngineOwned
<1>3. ASSUME NEW c \in Contexts, ~faulted[Scheduler],
             pc[c] \notin {"publish", "status", "port", "execute", "save"}
      PROVE  fence[c] = issued[c]
  <2>1. ~faulted[c] /\ fence[c] = nextSeqno[c] - 1
    BY <1>3 DEF IInv, OwnerInv, FaultKnown, TimelineInv, TimelineOf, Complete
  <2> QED
    BY <1>1, <1>3, <2>1 DEF IssuedInv, IssuedOf, Underway
\* Steps the service does not see.
<1>4. ASSUME Pending' = Pending, UNCHANGED <<gpu, fence, issued, faulted>>
      PROVE  UNCHANGED Service!vars
  BY <1>4 DEF Service!vars, Pending
<1>5. ASSUME NEW c \in Contexts,
             \/ InitAwake(c) \/ InitRelease(c) \/ InitTimeout(c) \/ DestroyContext(c)
             \/ Status(c) \/ Acquire(c) \/ Admit(c) \/ TakeForcewake(c) \/ Awake(c)
             \/ StatusTimeout(c) \/ ReadStatus(c) \/ WriteCommands(c)
             \/ PublishTail(c) \/ PointStatusPage(c) \/ Executed(c)
      PROVE  UNCHANGED Service!vars
  <2>1. UNCHANGED <<gpu, fence, issued, faulted>>
    BY <1>5 DEF InitAwake, InitRelease, InitTimeout, DestroyContext, Status, Acquire,
       Admit, TakeForcewake, Awake, StatusTimeout, ReadStatus, WriteCommands,
       PublishTail, PointStatusPage, Executed, timeline, memory, registers
  <2>2. \E from, to \in Pcs : Goto(c, from, to) /\ (from \in Inside <=> to \in Inside)
    BY <1>5 DEF InitAwake, InitRelease, InitTimeout, DestroyContext, Status, Acquire,
       Admit, TakeForcewake, Awake, StatusTimeout, ReadStatus, WriteCommands,
       PublishTail, PointStatusPage, Executed, Return, Pcs, Inside
  <2> QED
    BY <1>1, <1>4, <2>1, <2>2, PendingMoves
<1>6. ASSUME NEW c \in Contexts, CreateContext(c)
      PROVE  [Service!Next]_(Service!vars)
  <2>1. PICK to \in {"initTaking", "idle"} : Goto(c, "absent", to)
    BY <1>6 DEF CreateContext
  <2>2. Pending' = Pending /\ c \notin Pending
    BY <1>1, <2>1, PendingMoves DEF Inside, Goto, Pending
  <2>3. gpu.ctx # c
    BY <1>1, <2>1 DEF IInv, OwnerInv, GpuBusy, Goto
  <2>4. Service!Renew(c)
    BY <1>6, <2>2, <2>3 DEF CreateContext, Service!Renew, Pending
  <2> QED
    BY <2>4 DEF Service!Next
<1>7. ASSUME NEW c \in Contexts, Submit(c)
      PROVE  [Service!Next]_(Service!vars)
  <2>1. c \notin Pending /\ Pending' = Pending \cup {c}
    BY <1>1, <1>7, PendingMoves DEF Submit, Inside
  <2>2. Service!Request(c)
    BY <1>7, <2>1 DEF Submit, Service!Request, Pending, memory, registers, timeline
  <2> QED
    BY <2>2 DEF Service!Next
<1>8. ASSUME NEW c \in Contexts, c \in Pending, Pending' = Pending \ {c},
             UNCHANGED <<gpu, fence, issued, faulted>>,
             faulted[Scheduler] \/ pc[c] \in {"check", "taking"}
      PROVE  [Service!Next]_(Service!vars)
  <2>1. CASE faulted[Scheduler]
    <3>1. Service!GiveUp(c)
      BY <1>8, <2>1 DEF Service!GiveUp, Pending
    <3> QED
      BY <3>1 DEF Service!Next
  <2>2. CASE ~faulted[Scheduler]
    <3>1. gpu.ctx # c /\ fence[c] = issued[c]
      BY <1>2, <1>3, <1>8, <2>2
    <3>2. Service!Refuse(c)
      BY <1>8, <3>1 DEF Service!Refuse, Pending
    <3> QED
      BY <3>2 DEF Service!Next
  <2> QED
    BY <2>1, <2>2
<1>9. ASSUME NEW c \in Contexts, Refuse(c) \/ WakeTimeout(c)
      PROVE  [Service!Next]_(Service!vars)
  <2>1. PICK from \in {"check", "taking"} : Goto(c, from, "idle")
    BY <1>9 DEF Refuse, WakeTimeout, Return
  <2>2. c \in Pending /\ Pending' = Pending \ {c} /\ pc[c] \in {"check", "taking"}
    <3>1. from \in Inside /\ "idle" \notin Inside
      BY DEF Inside
    <3>2. pc[c] = from
      BY <2>1 DEF Goto
    <3> QED
      BY <1>1, <2>1, <3>1, <3>2, PendingMoves
  <2>3. UNCHANGED <<gpu, fence, issued, faulted>>
    BY <1>9 DEF Refuse, WakeTimeout, timeline, memory, registers
  <2> QED
    BY <1>8, <2>2, <2>3
<1>10. ASSUME NEW c \in Contexts, WaitPrevious(c)
       PROVE  UNCHANGED Service!vars
  <2>1. pc[c] = "previous"
    BY <1>10 DEF WaitPrevious, Return, Goto
  <2>2. fence[c] = nextSeqno[c] - 1
    BY <2>1 DEF IInv, OwnerInv, FaultKnown, Admitted, TimelineInv, TimelineOf, Complete
  <2>3. Goto(c, "previous", "take")
    BY <1>1, <1>10, <2>2 DEF WaitPrevious
  <2> QED
    BY <1>1, <1>4, <1>10, <2>3, PendingMoves
    DEF WaitPrevious, Inside, timeline, memory, registers
<1>11. ASSUME NEW c \in Contexts, WritePort(c)
       PROVE  [Service!Next]_(Service!vars)
  <2>1. Pending' = Pending /\ pc[c] = "port" /\ c \in Pending
    BY <1>1, <1>11, PendingMoves DEF WritePort, Inside, Goto, Pending
  <2>2. CASE ~ack
    BY <1>4, <1>11, <2>1, <2>2 DEF WritePort, timeline, memory
  <2>3. CASE ack
    <3>1. ~faulted[Scheduler] /\ ~faulted[c]
      BY <2>1 DEF IInv, OwnerInv, FaultKnown, Admitted
    <3>2. gpu.ctx = None
      BY <2>1, <3>1 DEF IInv, OwnerInv, EngineOwned, LockOwner, Holding
    <3>3. fence[c] = issued[c]
      BY <2>1, <3>1 DEF IInv, TimelineInv, TimelineOf, IssuedInv, IssuedOf, Underway
    <3>4. gpu'.ctx = c
      BY <1>11, <2>3 DEF WritePort
    <3>5. Service!Start(c)
      BY <1>11, <2>1, <3>1, <3>2, <3>3, <3>4
      DEF WritePort, Service!Start, Pending, timeline, memory
    <3> QED
      BY <3>5 DEF Service!Next
  <2> QED
    BY <2>2, <2>3
<1>12. ASSUME NEW c \in Contexts, Saved(c)
       PROVE  [Service!Next]_(Service!vars)
  <2>1. c \in Pending /\ Pending' = Pending \ {c} /\ pc[c] = "save"
    BY <1>1, <1>12, PendingMoves DEF Saved, Return, Inside, Goto
  <2>2. ~faulted[Scheduler] /\ ~faulted[c]
    BY <2>1 DEF IInv, OwnerInv, FaultKnown, Admitted
  <2>3. gpu.ctx = None
    <3>1. gpu.ctx # None => gpu.ctx = c
      BY <1>1, <2>1, <2>2 DEF IInv, OwnerInv, EngineOwned, LockOwner, Holding
    <3>2. gpu.ctx # c
      BY <1>12, <2>2 DEF Saved, SaveSeen, IInv, OwnerInv, StatusFresh
    <3> QED
      BY <3>1, <3>2
  <2>4. /\ fence[c] = nextSeqno[c] - 1 /\ issued[c] = nextSeqno[c] - 2
    BY <2>1, <2>2 DEF IInv, TimelineInv, TimelineOf, IssuedInv, IssuedOf, Underway
  <2>5. issued' = [issued EXCEPT ![c] = @ + 1] /\ fence[c] = issued[c] + 1
    <3>1. nextSeqno[c] - 1 = issued[c] + 1
      BY <1>1, <2>4
    <3>2. issued' = [issued EXCEPT ![c] = nextSeqno[c] - 1]
      BY <1>12 DEF Saved, Seqno
    <3> QED
      BY <2>4, <3>1, <3>2
  <2>6. Service!Report(c)
    BY <1>12, <2>1, <2>2, <2>3, <2>5 DEF Saved, Service!Report, Pending, memory
  <2> QED
    BY <2>6 DEF Service!Next
<1>13. ASSUME NEW c \in Contexts, Fault(c)
       PROVE  [Service!Next]_(Service!vars)
  <2>1. PICK from \in {"execute", "save"} : Goto(c, from, "idle")
    BY <1>13 DEF Fault, Return
  <2>2. c \in Pending /\ Pending' = Pending \ {c}
    BY <1>1, <2>1, PendingMoves DEF Inside
  <2>3. faulted'[Scheduler] = TRUE
    BY <1>1, <1>13 DEF Fault
  <2>4. Service!GiveUp(c)
    BY <1>13, <2>2, <2>3 DEF Fault, Service!GiveUp, Pending, timeline, memory
  <2> QED
    BY <2>4 DEF Service!Next
<1>14. ASSUME UNCHANGED <<pc, issued, faulted>>, gpu.ctx # None
       PROVE  /\ gpu.phase = "running" => fence[gpu.ctx] = issued[gpu.ctx]
              /\ gpu.phase = "saving" => fence[gpu.ctx] = issued[gpu.ctx] + 1
              /\ Pending' = Pending
  <2> DEFINE c == gpu.ctx
  <2>1. c \in Contexts
    BY <1>1, <1>14
  <2>2. faulted[c] \/ pc[c] \in Underway
    BY <1>14, <2>1 DEF IInv, OwnerInv, FaultKnown, EngineOwned, Underway
  <2>3. issued[c] = nextSeqno[c] - 2 /\ nextSeqno[c] \in Int
    BY <1>1, <2>1, <2>2 DEF IssuedInv, IssuedOf
  <2> QED
    BY <1>1, <1>14, <2>1, <2>3 DEF IInv, GpuMet, Pending
<1>15. CASE GpuExecute
  <2> DEFINE c == gpu.ctx
  <2>1. c # None /\ c \in Contexts /\ gpu.phase = "running"
    BY <1>1, <1>15 DEF GpuExecute, IInv, OwnerInv, GpuBusy
  <2>2. UNCHANGED <<pc, issued, faulted>>
    BY <1>15 DEF GpuExecute, cpuVars, timeline
  <2>3. fence[c] = issued[c] /\ Pending' = Pending
    BY <1>14, <2>1, <2>2
  <2>4. Fetched(c) = {nextSeqno[c] - 1} /\ fence[c] = nextSeqno[c] - 2
    BY <2>1 DEF IInv, GpuMet
  <2>5. fence' = [fence EXCEPT ![c] = @ + 1]
    <3>1. fence' = [fence EXCEPT ![c] =
            IF Fetched(c) = {} THEN @
            ELSE CHOOSE s \in Fetched(c) : \A other \in Fetched(c) : other <= s]
      BY <1>15 DEF GpuExecute
    <3>2. (CHOOSE s \in Fetched(c) : \A other \in Fetched(c) : other <= s) = nextSeqno[c] - 1
      BY <1>1, <2>1, <2>4
    <3>3. fence[c] + 1 = nextSeqno[c] - 1
      BY <1>1, <2>1, <2>4
    <3> HIDE DEF c
    <3> QED
      BY <2>4, <3>1, <3>2, <3>3
  <2>6. gpu'.ctx = gpu.ctx
    BY <1>1, <1>15 DEF GpuExecute
  <2>7. Service!Complete(c)
    BY <2>2, <2>3, <2>5, <2>6 DEF Service!Complete, Pending
  <2> QED
    BY <2>1, <2>7 DEF Service!Next
<1>16. ASSUME NEW length, GpuSave(length)
       PROVE  [Service!Next]_(Service!vars)
  <2>1. gpu.ctx # None /\ gpu.phase = "saving"
    BY <1>16 DEF GpuSave, IInv, OwnerInv, GpuBusy
  <2>2. UNCHANGED <<pc, issued, faulted, fence>> /\ gpu' = IdleGpu
    BY <1>16 DEF GpuSave, cpuVars, timeline
  <2>3. fence[gpu.ctx] = issued[gpu.ctx] + 1 /\ Pending' = Pending
    BY <1>14, <2>1, <2>2
  <2>4. Service!Release
    BY <2>1, <2>2, <2>3 DEF Service!Release, Pending, IdleGpu
  <2> QED
    BY <2>4 DEF Service!Next
<1>17. CASE Acknowledge \/ (\E c \in Contexts : MapBuffer(c)) \/ UNCHANGED vars
  <2>1. UNCHANGED <<pc, gpu, fence, issued, faulted>>
    BY <1>17 DEF Acknowledge, MapBuffer, vars, cpuVars, timeline, memory, registers
  <2> QED
    BY <1>4, <2>1 DEF Pending
<1> QED
  BY <1>5, <1>6, <1>7, <1>9, <1>10, <1>11, <1>12, <1>13, <1>15, <1>16, <1>17
  DEF Next, Lifecycle, Call, Step, Gpu

-----------------------------------------------------------------------------
\* Whatever the ring's size, the number of contexts and the length of a
\* timeline: an engine runs one batch at a time and each once, Submit returns
\* B_OK only for a batch that ran, and after a timeout none is started.
THEOREM EngineIsABatchService == Spec => ImplementsBatchService
<1>1. IssuedInv /\ IInv /\ [Next]_vars => IssuedInv'
  BY IssuedStep
<1>2. IssuedInv /\ IInv /\ [Next]_vars => [Service!Next]_(Service!vars)
  BY ServiceStep
<1> QED
  BY <1>1, <1>2, Invariance, InitIssued, ServiceInit, PTL
  DEF Spec, Service!Spec, ImplementsBatchService
=============================================================================
