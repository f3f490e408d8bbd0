# IntelGfx in TLA+

A verification project for the Haiku driver of Intel graphics in this
repository: the kernel driver (`kernel/`), the accelerant (`display/`), and the
adapters that let Mesa's Iris run above it (`mesa/overlay/`).

## The system

| Part | State it keeps | Operations | Properties that make it correct |
|---|---|---|---|
| Render engine (`kernel/RenderEngine.cpp`) | per context: ring, register image, fence page, timeline; per engine: lock, fault, ticks, forcewake, submit port | `Init`, `Submit`, `Status`, destructor; the GPU beside them | the engine meets exactly the new command, nothing stale is fetched, one context at a time, nothing after a fault, calls return |
| Render client (`kernel/RenderClient.cpp`) | buffers in slots, handles, accounts, virtual addresses, contexts, fault | the ioctls; closing a file | the GPU reaches only memory that exists; address spaces are what was bound; accounts balance |
| Global GTT (`GlobalGTT.cpp`), page tables (`PageTables.cpp`) | bitmap and entries; four levels of tables | `Bind`, `Unbind`; `Map`, `Unmap`, `Flush` | no page for two owners, unmapped means scratch |
| Device (`kernel/device.cpp`, `intel_extreme.cpp`, `driver.cpp`) | open count, initialisation, interrupt counters, retrace semaphore | open, free, ioctl, interrupt handler | initialised exactly while open; the activity report is true and ends |
| Winsys (`mesa/overlay/*/IntelWinsys.cpp`) | table of buffers with a cache of purgeable ones, syncobjs | GEM and syncobj calls | the table is what the kernel has, no thread sleeps for ever |
| EGL (`mesa/overlay/egl/egl_haiku.cpp`) | display, contexts, surfaces with reference counts, bindings of threads, shm buffers | the entry points of EGL; callbacks of a `wl_egl_window`; the compositor | nothing is freed in use, callbacks point to what exists, no frame is drawn over |
| Iris for OpenGL (`mesa/overlay/haiku-iris`) | one display and its count, per renderer its locks and direct mode | draw, swap, expose, resize, connect | the display outlives its contexts, no deadlock |
| Vulkan WSI (`mesa/overlay/wsi`) | images of a swapchain | its API calls | an image has one owner |
| Accelerant (`display/`) | shared info, ports, pipes, clocks, 2D ring, overlay | hooks called by the app server | dividers nearest and in range; a probe believes only what was transferred; steps of a mode change in order; no command lost; overlay flips in turn |
| Server, roster, brightness keys, client library, tools, demo, monitor | little or none | messages, keys, commands | |

How they meet: a program calls Mesa, Mesa calls the winsys, the winsys calls
`ioctl` on an open file.  Each file is a `RenderClient` with a lock of its own.
A submission holds that lock while it waits for the lock of the engine, which
all clients share, and for the GPU, which nobody can hurry.  Clients share the
global GTT too.  The GPU reads what the driver wrote: rings, images and page
tables, from memory and not from the caches.  Above Mesa, EGL and the OpenGL kit
present what Mesa drew, to a window or to a Wayland compositor.  Beside all
that, the app server drives the screen through the accelerant, whose clones in
games share its memory and its locks (`headers/lock.h`).

What is hard here: the GPU is a process of its own that may answer late or
never, so every wait has a deadline and every deadline a fault that somebody
else must see; memory handed to the GPU cannot be taken back when it does not
answer; one physical engine with its registers is shared by contexts that each
believe they own it; an ioctl can fail after half of its work; objects with
reference counts cross threads; a mode set is a long sequence of register
writes that another thread may interleave; an AUX channel loses, refuses,
defers and cuts short.  `hazards` in `PROJECT.json` lists each at its line.

## Modules

| Module | Models | Used by |
|---|---|---|
| `RenderEngine` | one engine: contexts, ring, caches, forcewake, port, GPU | `MCRenderEngine` |
| `BatchService` | abstract: what an engine promises its contexts | `MCRenderEngine` |
| `RenderEngineProofs` | theorems about `RenderEngine`; that it implements `BatchService`; EXTENDS `MCRenderEngine`, which has the mapping | |
| `RenderClient` | open files, buffers, GTT, page tables (flat), faults | `MCRenderClient`, `RenderClientProofs` |
| `RenderClientProofs` | theorems about `RenderClient` | |
| `PageTables` | the four levels of page tables of a context | `MCPageTables`, `KernelProofs` |
| `FlatTables` | abstract: the map they stand for | `MCPageTables`, `KernelProofs` |
| `Device` | opening and closing of a device, the list of clients, the activity report | `MCDevice`, `KernelProofs` |
| `KernelProofs` | theorems about `Device`; `PageTables` implements `FlatTables` | |
| `Winsys` | the adapter above one open file | `MCWinsys`, `IrisProofs` |
| `EglSurfaces` | contexts, surfaces and bindings of EGL, presentation | `MCEglSurfaces`, `DisplayProofs` |
| `GLRenderer` | renderers of the OpenGL kit over one display | `MCGLRenderer`, `IrisProofs` |
| `IrisProofs` | theorems about `Winsys` and `GLRenderer` | |
| `Clocks` | searches for divisors, the Tiger Lake PLL, ratios of links | `MCClocks`, `DisplayProofs` |
| `AuxChannel` | I2C transfers over the AUX channel of a DisplayPort | `Probe` |
| `Probe` | ports that are probed and given pipes; EXTENDS `AuxChannel` | `MCProbe`, `DisplayProofs` |
| `DisplayProofs` | theorems about `Probe` with the AUX channel, about `Clocks` and about `EglSurfaces` | |
| `ModeSet` | mode sets, DPMS, moves of the display | `MCModeSet`, `ModeSetProofs` |
| `ModeSetProofs` | theorems about `ModeSet` | |
| `Benaphore` | `struct lock` of `headers/lock.h` | `Ring` |
| `Ring` | the 2D engine's ring and the overlay; EXTENDS `Benaphore` | `MCRing`, `RingProofs` |
| `RingProofs` | theorems about `Ring`: its locks, the ring and the overlay | |
| `Programs` | lemmas about folds and about lists of steps that lead from one state to another | `RingProofs`, `IrisProofs`, `DisplayProofs`, `ModeSetProofs` |
| `MC...` | instances for TLC | the `.cfg` files |

### RenderEngine

A context is a `RenderEngine` made by `InitClient`; `Scheduler` is the object of
the device that owns the lock, the fault flag and the tick total.  `pc` is the
step a thread has reached inside `Submit`, `Status` or `Init`; each step is one
action, cut where another thread or the GPU can see a difference: the lock, the
wait for the previous fence, the forcewake request and its acknowledge, the
ring, the tail in the image, the status page register, the port, the fence, the
save.  `GpuExecute` and `GpuSave` are the GPU; `Acknowledge` is the forcewake
hardware.  `dirty` has what the processor wrote and did not flush.  A wait is
over when its condition holds, or times out when it does not: TLC tries both,
and the GPU may go on afterwards.

Sizes are in units of the smallest ring write.  The workarounds and the layout
of the image that `Init` writes once are abstracted to a fresh image; engine
status beyond forcewake is read only.

### BatchService

Batches run one at a time, each once and in the order its context submitted
them; a submission that succeeds has run; after one that was given up no other
starts.  The mapping: `pending` are the threads inside `Submit`, `running` the
context in the engine, `done` the fence pages, `acked` what `Submit` returned,
`broken` the fault of the scheduler.

### RenderClient

A file is closed, open or quarantined.  An ioctl holds the client's lock from
its tests to its return and so is one action; only the two that submit let
others go on, with `waiting` set while the lock is held.  Each way an ioctl can
fail after it changed something is an action or a disjunct: a map that stops at
any page of any engine, a caller that cannot be told, a handle that is lost.
Pages of memory have names that are never used again, so that a page table
entry to freed memory is told from one to memory that was allocated since.
A file is native (it uses `kSubmitObjects`, on its own address space) or legacy
(`kSubmit`, on the aperture): `Native` and `Legacy` say which.
`gtt`, `table` and `vm` are the entries of the global GTT, of the page tables
of the two engine contexts every file has, and of the native address space.
`gpu` is the part of `RenderEngine` a client can see: the context in the engine,
and a fault after which there is no other.

Of a buffer object the properties tell apart its handle, size and addresses.
Left out: layouts, reading registers and status, `kFramebuffer`'s mappings, and
the identifiers of contexts (a context is its slot; the numbers are not used
again before they wrap).  An engine context is one page in the GTT.

### Winsys

The table of the adapter and that of the kernel are separate variables.  A call
holds the one lock from its first look to its return and so is one action; a
call that waits for syncobjs (`Wait`, `ExecFence`) is one action for each time
it has the lock: it sleeps without it and looks again after it was woken, by a
change or for no reason (`Wake`).  The order of stamps is the sequence `cache`.
A submission is one action for each of its fences and one for the rest
(`ExecSubmit`), which folds the two loops over the objects (`Evict`, `Place`) and
ends with the kernel's answer: done, timed out, refused.  One open file is
modelled; a program that has two has two disjoint sets of keys.

### PageTables

The model begins after `Init` succeeded. `tables` is `fTables`, and a table is its
number there; an entry holds a number instead of an address with flags. Each table
that is made and each entry that is written is an action, so that a call which
fails leaves what it had done. `unflushed` are the tables with writes that may
still be in the caches; `dirty` is the flag that decides whether they are flushed.
Nothing else takes `fLock`, so a call is alone. `FlatTables` is what the tables
are for: a map that a call changes at the addresses it was given, in order.
`RenderClient` builds on it.

### Device

An open is two actions, because it may wait for the list's lock while it has
`gLock`: `Open` does what comes before, `Register` the rest. A close is two as
well: `Unregister` takes the client out of the list and destroys it, `Freed`
takes `gLock` and counts down. The resources of an initialisation are named
after it (`held`), so that the registers a kept page table was built on are told
from those of the next initialisation. A client has contexts on the engines that
were ready when its file was opened, as far as they could be made; `fault` are
the engines given up on, one, the other or both. A report is one action for the
blitter's part of the total (`PollBegin`) and one for the render engine's
(`PollTotal`), each only if the engine is ready when it is looked at; one for
the list's lock (`PollLock`); one for each client (`PollRead`, `PollTimeout`);
and one for the answer (`PollAnswer`), so that a report that is finished is in a
state of its own before the program gets it. `seen` is the last report a file
was given. A client that is busy keeps its lock for as long as the GPU likes,
and the report then uses what the client said last (`told`). `ran` is the truth
a report is compared with. Of a submission only its lock, its engine and its
outcome appear.

### EglSurfaces

An entry point holds `DisplayLock` and so is one action; the swap of a Wayland
surface is several (`SwapWayland`, `Present` or `Retry`, `Attach`), because the
program resizes or destroys its `wl_egl_window`, and the compositor releases
buffers, without it.  `refs` are the references of each object, `linked` the
handles that were not given back, `bound` what each thread has current; `Uses`
counts what ought to be in `refs`.  `server` are the buffers the compositor may
read, `released` its releases that were not dispatched.  `fate` ends a behaviour
at what kills the program: a context released after `eglTerminate`
(`ReleaseAfterTerminate`).  Mesa's part is external: `_eglBindContext` takes a
reference of each object it binds and passes on those of the objects bound
before.  Sizes stand for width and height; pixels are left out.

### GLRenderer

`program` is the step the program's thread is in between creating a renderer and
deleting it, `windowPc` what the window's thread does with its looper locked;
`DirectConnected` is the app_server's.  A lock that is kept over a wait is a
variable (`mutex`, `info`, `looper`); a section that waits for nothing is one
action.  `refs`, `current`, `alive` and `made` are the display that all
renderers share.  A GL call of the program (`Render`) takes no lock of the
renderer, in the code as here.

### Clocks

A machine has one family of generators.  A job is a search; one iteration of the
loop that keeps the best candidate is one step: the outer loop of the analog
generations, the post dividers of Haswell, the divider lists of Skylake, the
list of Tiger Lake and the writes that program its PLL, the ratio of a link.
Errors the code compares as floating point numbers are compared as fractions.
The references are definitions over all candidates at once: `NothingCloser`,
`WrpllBest`, `SkylakeNearest` say that nothing in the generator's range is
nearer, `ProgrammedDivisors`, `SkylakeProgrammed` and `TigerLakeRuns` that the
fields of the registers mean what was found.  A Haswell search counts a million
parts in the code and `WrpllScale` here, because TLC computes in 32 bits.

### AuxChannel and Probe

A step of `AuxChannel` is one transaction on the wire with every answer the
hardware can give: nothing, an invalid count, a native reply, an I2C reply with
some of the bytes.  `call` has the loops: the chunk, its attempt, the retry of
the transfer, the sending of a transaction.  `sink` is what the display at the
other end has seen.  `excuse` names what spoils a transfer that is reported as
complete; see Observations.  `Probe` tries the candidates of `probe_ports` in
order, reads an EDID over wires in one step or through `AuxChannel`, powers the
reference clock where the chipset has one, and assigns the pipes.  What firmware
left in the registers and the VBT is the constant `Machines`.

### ModeSet

A call is a program, a sequence of register writes and accesses to the shared info
in the order of the code, which its thread runs step by step. Each class of port
has its own (`LvdsMode`, `DdiMode`, `DisplayPortMode`, `PlainMode`), by
generation. The server makes one call at a time, as the app_server does; a clone
moves the display. `regs` are the registers of the pipes and planes A to D: the
driver sets base and pitch of planes A and B only (`Based`), and pipe D is enabled
together with the plane of A (`PlaneOf`), because it has no plane offset. `plls`
is what each PLL was last programmed with: the port whose divisors and flags it
got, the mode, and whether it runs. A port programs its PLL each time, also if
another port just did: it is stopped and then started with the settings of this
port (`Clocked`), or written while it runs (`DdiMode`). `memory` is the GART's:
others allocate and free beside the frame buffer. A behaviour begins after a first
mode set succeeded; what that one put into the PLLs is left out, and stands as
`None`. `lost`, `dark` and `overtaken` remember what excuses the screen
afterwards: no memory for any frame buffer, a mode set that failed after it
switched the display off, and a move beside a DPMS change, which takes no lock.

### Ring and Benaphore

`Benaphore` is the counter and the semaphore of `struct lock`, with waits that
a signal ends.  `Ring` has two of them, the engine's and the ring's.  A cell is
the smallest command; a call is the program of what it queues (`Block`: acquire,
put, flush, submit).  `space` is `space_left`, which `Room` computes anew from
head and tail only when it is too small; the engine executes from `head` in the
order it finds, and `Blank` is the retrace a flip waits for.  A ring that is
full looks empty, to the engine and to `MakeSpace`, and a `MakeSpace` that waited
a second goes on without the space: `overrun` says that either happened, and the
model stops there.  `trespassed` says that `QueueCommands` went on without the
lock it did not get.

## Runs

| Run | Question | Bounds |
|---|---|---|
| `engine` | The render engine: padding, caches, faults, timestamps, refinement of `BatchService`, every call returns | two contexts, three created, so one is made again; ring of 5 with commands of 2, so padding at each wrap; timeline of 4; timestamps modulo 3 |
| `client` | A native and a legacy file that share aperture and engines, through failures, timeouts, closing, full tables | two slots, one native context, sizes 1 and 2, two pages of addresses so ranges touch, contain and overlap; aperture of three pages for engine contexts and buffers; memory of 3, so an allocation is refused; handles modulo 3: they run out; one completed submission |
| `client_wedged` | a disagreement, below | |
| `winsys` | Buffers, cache, layouts and syncobjs against the kernel, two threads | what is made in all is three (`MaxMade`): three buffers of sizes 1 and 2 in three pages, or two and a syncobj, or one and two syncobjs; layouts of one or two buffers, so swaps and moves onto a neighbour; lists of one or two fences; watermark of 2, batches of 1; handles in a layout are in the order they were made, in which nothing distinguishes them |
| `page_tables` | Four levels against the flat map | radix 2, so sixteen addresses; ten tables: four of Init, three of the first address and three more, so a second address finds some of its tables and runs out of others; areas of one and two pages that begin where tables of each level end |
| `device` | Open, close and report against each other, with faults | two files of one program, two slots, one with contexts on both engines and one with the render engine alone, so an engine can be given up on beside a ready one and beside none; two initialisations, so one after a fault; both engines can be made, message interrupts are granted and no handler; each file may submit until the program has one unit of time, so two in flight give two; 931,439 states |
| `egl` | References, callbacks and buffers | two threads, one context, a surface of a `wl_egl_window` with one shm buffer and one of a `BWindow`; two sizes, so a resize; one leaked reference (`MaxLeaked`, see Observations) |
| `gl` | The display and the locks, fairly scheduled | two views, two displays one after the other |
| `clocks` | Every search against its reference definition | twelve pixel clocks, usual ones and those at the edges of the tables; eight for Haswell with five budgets; all families |
| `probe` | Transfers and pipes | machines of generations 3 to 12 (`MCProbe`): with and without PCH, with firmware that lit none, one or two pipes; each count of the AUX channel is two, so each retry happens and runs out; a transfer of one byte, then two |
| `modeset` | The order of the steps and what is on the screen between two calls | machines of generations 4, 5, 6, 7, 9 and 12 with analog, digital, LVDS, DisplayPort and DDI ports: two ports on two pipes, two on one pipe and its PLL, one on pipe C, and pipes A and D with one plane; two modes, a memory in which both cannot always have room, so both allocations can fail; server and one clone; 4,899,666 states |
| `ring` | Locks, commands and overlay | two painters and one player, a ring of 7 cells of which the longest program takes 6, so it wraps anywhere and fills; two overlay buffers; one signal |

Two contexts, files or threads are enough for what they can do to each other
through one lock, one engine and one aperture: every property relates at most
two of them.  For engine and ring locks the proofs remove the bounds.

Three runs give TLC help.  `client` has a VIEW (`Relevant`): what no guard and
no property reads any more is not told apart, that is, the next handle of a
closed file and entries of engine page tables outside the bound buffers or of an
engine that is not ready.  `ring` has a VIEW (`FromHead`): a ring has no first
cell, so states are compared as seen from the head; and a CONSTRAINT
(`NoTrespass`): behaviours are followed up to the step in which a thread goes on
without its lock, after which nothing is claimed but what `MutualExclusion` says
of the engine, which is proved without it.  Symmetry is used for threads and
overlay buffers, in runs without liveness properties.

Fairness.  `CallsReturn` in `engine`: weak fairness of every step of a thread
that is inside a call and strong fairness of its getting the mutex, which is a
queue, because the kernel schedules threads and every wait has a deadline; none
for the GPU, for forcewake, or for programs making calls.  A timeout is a step
of the waiting thread.  `ReportsReturn` in `device`: strong fairness of the next
step of a call, because Haiku's mutexes are handed over in the order they were
asked for; none for the end of a submission.  `CallsReturn` in `gl`: the same for
the steps that may wait for a lock and those that end a call; none for the
program's GL calls or for its asking.

Deadlock is checked except where the system may stop: `client` and
`client_wedged` (every file quarantined), `device` (initialisations used up),
`egl` (the display terminated, or the program dead), `gl` (displays used up) and
`ring` (an overrun).

## What the runs showed

One place where the program does not do what its text says:
`client_wedged` (`kernel/RenderClient.cpp:314`).  Operations go on after `kSubmit`
timed out, and `kCloseBuffer` frees a buffer the GPU may still use.  The
quarantine of the destructor comes too late for it.

After a fault the last close keeps the device, with an open count of zero, and
the next open initialises it again: `device` has the mappings of both
initialisations held at once, the engine goes on with those of the first, and
none of the first is ever given back.  It also has message interrupts that stay
enabled when no handler could be installed.

`winsys` also shows a record that belongs to no file in the table of
syncobjs (state `orphan`), when a fence is destroyed while its submission waits
for another one.  No call can see it.

### Observations

Met while the models were written, visible in them or left out of them, and not
the subject of a run.  Where a property has an exception, one of these is it.

* Report: the total is that of the engines that are ready (`RenderClient.cpp:108-115`),
  each with what all its contexts ran.  When one is given up on beside a ready one,
  the next report to an open file has a smaller total than the last, and
  `GpuMonitor.cpp:180` subtracts the larger from the smaller: one sample shows the
  GPU as fully busy.  `ReportWithinTruth` therefore bounds by how much the total can
  fall, and says that it never falls while no engine is given up on.
* Engine: `Status` that times out waiting for forcewake leaves the request made
  (`RenderEngine.cpp:922`; `Submit` and `Init` drop it).  `Init` of a render
  context takes and drops forcewake without the lock of the scheduler
  (`RenderEngine.cpp:392-405`; `GpuHardware.h:59-60` has it with the lock).
* Page tables: `Map` takes an address that is mapped (`PageTables.cpp:235`); the
  header says it is rejected (`PageTables.h:31-32`).  The callers keep ranges
  apart.  `kBindBuffer` that fails after it wrote page tables leaves the entries
  behind (`RenderClient.cpp:423`); `ApertureExact` says nothing of them.
* EGL: when draw and read are the same surface, each unbinding leaks a reference
  (`egl_haiku.cpp:1399-1402`), and a failed `make_current` leaks what it was
  given (1393): `NothingFreedInUse` says at least, and `MaxLeaked` bounds it.  A
  context released after `eglTerminate` dereferences a display that is NULL
  (1386).  A Wayland surface that was resized is validated with the size of
  before (1003-1017), a read surface with the size of draw.  A swap does not
  survive the destruction of its `wl_egl_window` (1023).  The lock of a
  `BWindow` is taken under `DisplayLock` (1187, 1458), in the other order than a
  window thread that calls EGL.
* OpenGL: `Draw`'s `fMutex` does not exclude the program's GL calls, as the
  comment at `GalliumContext.cpp:371-375` supposes.  A display that could not be
  made is counted down twice.
* Clocks: 85x always sets the divide-by-four bit; the pixel multiplier of 96x is
  programmed one too low (`Pipes.cpp:424-428`); `compute_dpll_g4x` returns
  divisors that were never set when none fits; pipe C, and D where a port asks for
  it, programs the PLL of A (`Pipes.cpp:405-416`); Skylake's p = 5 leaves its
  first factor unset, and the fraction is wrong for references of 19.2 and 38.4
  MHz; the truncation at `TigerLakePLL.cpp:112`; links of generations 4 and 8 are
  set up without a look at the lanes (`Ports.cpp:1841-1901`, 2468-2603); every
  Tiger Lake port but G shares PLL 0; the result of the Haswell search is not
  used.
* Probe: a chunk deferred seven times counts as sent (`Ports.cpp:641-668`,
  690-718, 789-803), and one whose reply was lost is sent again (895-931): these
  are the excuses of `OkMeansDelivered`.  The preference for pipe D indexes past
  `assigned` on a chip of three pipes (`accelerant.cpp:445-463`).  The DDI's test
  looks at pipe A only (`Ports.cpp:2440-2458`); the field of generation 12 is read
  with the shift of before (2276), so the firmware's pipe is not recognised and
  `FirmwarePipeKept` leaves generation 12 out.  `bios.cpp:541-546` fills an
  eleventh of ten entries.
* Mode sets: pipes C and D never get base, pitch and colour mode
  (`mode.cpp:166-173`, 498-510), so what a port on pipe C shows, the driver does
  not decide; `ShowsTheFrameBuffer` speaks of planes A and B. Pipe D has no plane
  offset (`Pipes.cpp:82-86`): its port enables and disables plane A, whose own
  pipe may be off, against the comment at `Pipes.cpp:633`; `PlanesNeedPipes` asks
  for a pipe of one of the ports that enable the plane. A port that comes after an
  LVDS port in the list programs its PLL, on the same pipe that of the panel, when
  `LVDSPort` has given the panel its power again (`Ports.cpp:1349-1353`,
  `Pipes.cpp:418-420`, 503-509): `ClocksChangeInOrder` excuses these ports by name
  (`PanelIsBack`). Left out: the PLLs that `set_display_power_mode` would start,
  which run since they were programmed; `ProgramPLL` that finds nothing to change;
  a port of generation 12 that finds no divisors and leaves its PLL as it was.
  Planes are enabled before they have their new base, so they first show memory
  that was freed (`mode.cpp:496`). After both allocations failed the frame buffer
  dangles, and the next mode set frees it again (370-387): `ShowsTheFrameBuffer`
  does not speak of that time (`lost`). A port that failed is reported as success,
  and a clone's mode set programs no port. DPMS off sets a PLL's enable bit
  (`dpms.cpp:159-163`). A cursor's move takes the x of its hotspot for y
  (`cursor.cpp:91`). `enable_lvds_panel` waits without end.
* Ring: a ring that is full looks empty; after a stall `space_left` wraps; one
  `QueueCommands` that is larger than the ring never submits its end; an
  interrupted acquire is ignored and the lock released all the same; the memory
  of an overlay buffer is freed when the command that hides it was only queued,
  so for a moment the overlay shows memory that is free
  (`OverlayShowsWhatIsLive` speaks of the time when everything queued is done).
* Driver: `init_driver` leaks what it had when memory runs out half way
  (`driver.cpp:375-425`).


## What is proved

TLAPS proves these for every value of the constants the assumptions allow, where
TLC checks one small instance.

**`RenderEngineProofs`**, from `EngineAssumption`: `TypeOK`, `EngineOwned`,
`NoStaleFetch`, `RunsOnlyTheNewCommand`, `PreviousIsComplete`,
`FreedContextUnused` and the action property `NothingStartsAfterAFault`.  The
assumption asks that the ring holds two commands (the code: 16 KiB, and 256 or
128 bytes); with room for one only, the tail after a submission equals the head
and the engine would see an empty ring.

None of these is inductive.  The strengthening is
`IInv == TypeOK /\ OwnerInv /\ GpuMet /\ TimelineInv`:

* `OwnerInv` ties the lock to the steps of `Submit`: a thread past the lock owns
  it; the engine is idle, or works for the owner, or a fault is set; a fault of
  a context is a fault of the scheduler.
* `TimelineInv` relates, for each context without a fault, its tail, the tail in
  its image, the cells of its ring, its fence and its next seqno, by the step its
  thread is in: before the ring is written, between ring and tail, after the
  tail, while the GPU runs it, after it.
* `GpuMet` says what the GPU has met so far in the context it works for.

The arithmetic of the ring is in two lemmas: `ModSmall`, and `CommandInWindow`,
that what lies between the old and the new tail is the padding and the command
and nothing else.  Each action has its step in a lemma for each part of `IInv`;
`Frame` lemmas say that a context keeps its part while another one moves.
`TypeOK`, `EngineOwned` and `PreviousIsComplete` are steps to the others and in
no run.

`ImplementsBatchService`, in the same module: every step of the engine is a step
of the abstract service or none, from `EngineAssumption` and `IInv`.
What `IInv` lacks is the link between the seqno the engine will write next and
the one it last gave out.  `IssuedInv` has it: the two are one apart, and two
while a submission is under way or was given up.  Under the mapping the write of
the port starts a batch, the end of its execution completes it, the save releases
the engine, and a refusal or a timeout is the service's refusal or its giving up;
locking, the caches, the ring and the tail are stutters.

`TicksExact`, in the same module: for every width of the timestamp and every
length of run shorter than a turn of it.  `TickInv`: a context is settled, its
ticks being what it ran, or owes one run that its status page holds and the
driver has not yet added; the engine's sum owes the same.  `ElapsedIsLength` is
the arithmetic: the difference modulo the width is the length also where the
counter turned over.

**`RenderClientProofs`**, from `ClientAssumption`: `VirtualExact`,
`DmaTargetsLive`, `ApertureExact` and `AccountsBalance`, for any number of files,
slots, engines, contexts and pages.  None is inductive.  The strengthening of the
first two is `TypeInv`, `SpaceInv` of every file and `GpuInv`, and the other two
build on it:

* `SpaceInv`: a slot with an address has a buffer; the ranges of two slots are
  apart; a page that a slot covers is mapped to the page of its buffer, and one
  that none covers is scratch.  That ranges are apart is what makes an unmap
  leave the neighbours whole (`SpaceUnmap`), what the overlap test of
  `kBindVirtual` establishes (`SpaceBind`), and why the unmap after a map that
  failed leaves things as they were (`SpaceBindFails`).
* `GpuInv`: an engine that works for a native context finds the context there,
  and either its file is faulted, and then closed to every operation and
  quarantined at its end, or its file waits with the lock held.  So no step that
  frees or unmaps anything is one of the same file.
* `ApertureInv` says what each entry of the GTT holds, and what each entry of the
  tables of an engine that is ready holds for a buffer of its file.  For that no
  name may come back: `HandleInv`, that the handles of a file are apart and below
  the next one, or that there is no next one.
* `AccountInv` is that the two counters are the sums over the buffers.  A sum is
  a fold over a set, about which nothing can be proved by induction here.  What a
  slot adds and takes away is proved from its definition instead, by the least
  set for which it would be otherwise: the library has it that the naturals are
  well founded.

**`KernelProofs`** has two parts.  Of `PageTables`, from `TablesAssumption`:
`ImplementsFlatTables` and
`CleanMeansFlushed`, for every number of entries in a table, every number of
tables and every list of pages; the code has 512 entries and 512 tables, TLC's
instance 2 and 10.  The strengthening has five parts beside the types:

* `ScratchInv`: no call changes a shared scratch table.
* `LevelsInv`: what a walk meets at a level is the scratch table of the level or
  a table that was made.
* `ApartInv`: no table is at two levels, and one that was made is met only by the
  addresses that have the indices of its place.  So an entry that is written
  changes one walk (`WriteIs`), and a table that takes the place of a shared one
  changes walks at its level only, and no page (`GrownSecond`, `GrownThird`,
  `GrownLast`; `GrownApart` that it keeps the levels apart).
* `CallInv`: what is left of a call fits before the end of the address space, by
  `AfterIs`, the carry of an address from one index to the next.
* `FlushInv`: the flag is set as long as a call may write.

Of `Device`, from `DeviceAssumption`: `DeviceHeldWhileOpen`,
`NoVisitAfterFree` and `ReportWithinTruth`.

* `FileInv`: the file that is being opened is the one that has `gLock`.
* `DeviceInv`: `count` is the number of files whose `device_free` has not ended;
  while there is one, or one is on its way, everything an initialisation takes is
  held under its number, and what is held under another is message interrupts;
  with none and no fault, nothing else is left.  The registers a page table was
  built on are held in every state, which is what survives a fault with a second
  initialisation after it.
* `ListInv`: a report that has come to a slot has the lock of the list, and what
  the list and the report name is open.  `LeastSlot`, that the first slot of a set is in
  the set, is from the library's theorem that the naturals are well founded.
* `ReportInv`: of a client a report may still be told `Most`, the larger of what
  it has used and what it said last.  What a report has of a program, and `Most` of
  the clients it has not come to, are together no more than the program ran.  The
  sum over those clients is any measure of the sets of files that is additive and
  grows with the set (`Truth` says that there is one); the step to another slot,
  a client that finishes, opens or closes each change the measure at one file.
  That a report walks the list in order and meets no client twice is `PlacesInv`.
* `SeenInv`, of the total: what a report has read of an engine is no more than the
  engine has run, and each engine it has yet to look at is one it can still take.
  The total of the last report to a file is no more than what its engines have run
  by now; those that later reports lack are the ones given up on (`ReadyFollows`).

**`DisplayProofs`** has three parts. Of `EglSurfaces`, from `EglAssumption`:
`NothingFreedInUse`, `CallbacksPointToSurfaces` and `FrameNotOverwritten`, for any
number of threads, contexts, surfaces and buffers. The three are inductive
together with four more: a thread has both surfaces or none, and only beside a
context (`BoundWhole`); a surface is made exactly while it has a reference, and
has buffers only then (`MadeWhileUsed`); what the compositor may read, and what it
released unheard, is busy, and no buffer is both (`BusyKnown`); the buffer of a
swap that waits to be attached is not busy, and its surface is still referenced
(`FrameFree`), which is what the thread's own binding gives it. `PlacesMove`: a
thread that binds something else changes the count of each object by what it held
and holds.

Of `Probe`, from `AuxAssumption` and `MachinesAssumption`:
`TransfersAreWhole` for every length of a message, every size of a chunk and
every number of attempts, retries and sendings, and `PipesAsFound` for every
machine.  `MachinesAssumption` says of the hardware that what has DDI is of
generation 7 at least, and that bit 27 of `PIPE_DDI_FUNC_CTL`, which the field of
generation 12 added, is clear before it.

* `AuxInv`: while nothing spoiled a call, the bytes of the messages before the
  current one are at the display, in order, and no others (`Complete`); a
  transaction joins what an earlier call left open only behind a message that was
  given up (`Apart`).
* `PipesInv`: a port has no pipe before the pipes are given out; then it has the
  one it prefers, and only afterwards one that nobody had; the pipe of a port is
  marked as taken; and when all is done a port without one means that all are.

Of `Clocks`, from `ClocksAssumption`: all four properties of that module,
`NearestDividers`, `RegistersDescribe`, `LinkCarriesMode` and
`ChangedOnlyWhileStopped`, for every set of clocks between 20 and 540 MHz and
every scale, budget and bound of the Haswell search, the code's million parts, 48
and 64 among them.  `ClocksAssumption` asks that the tables of that search have
members: a lower bound of the reference of at most 385, where the code has 48, and
a post divider of two at least.  Without either a search ends with nothing.

* Each search has an invariant that relates the best candidate to those already
  seen: `PllSearchInv` for the divisors within the limits of an analog generator,
  `WrpllInv`, `SkylakeInv`, and `TigerInv` for the list of Tiger Lake.  They say of
  all seen that none is better, so that what is true at the end is the property,
  once the seen are shown to be all that the reference ranges over.  In
  `PllSearchInv` the bar is the clock itself until something is found.  In
  `WrpllInv` the order is `NoWorse`: within the budget by n2/(r2*r2), outside it
  by the error.  That `hsw_wrpll_update_rnp` keeps it is a matter of cross products
  (`CrossProducts`), and one step of the search is a fold of it over the post
  dividers.  `SkylakeInv` says too that the odd dividers are tried only when no
  even one is allowed.
* One step of the analog search, an iteration of its outer loop, keeps the first of
  the best candidates if it is better than what there was; there is a best since
  they are finitely many (`FirstExists`).
* That the registers describe what was found is arithmetic over the limits of each
  generator: a divisor less two, or its bit, fits its field (`FieldOfP`, `BitIs`);
  every divider in the lists of Skylake and Tiger Lake splits into stages that
  multiply to it; and the fraction of the oscillator's frequency is less than
  32768 and loses less than the property allows (`DcoDescribed`, `FieldsFit`).
* `PllInv` is the order in which the Tiger Lake PLL is brought down and up: what
  answers is on or was just told to stop, and the settings are written after it
  lost its lock and before it is enabled.
* `LinkCarriesMode` is inductive by itself: the lanes a mode needs are rounded up,
  and a link with fewer is refused; the two halves of the data ratio are cut down by
  the same power of two, which cannot bring the first above the second.

**`IrisProofs`**, from `WinsysAssumption`: all four properties of `Winsys`,
`NoLostWakeup`, `TableMatchesKernel`, `DisjointLayoutAccepted` and
`RefusedOnlyWhenCacheEmpty`, for any number of threads, buffers, syncobjs and
requests, and lists of any length.

* `SleepInv`: what a thread that sleeps waits for is not there and may still come
  (`Pending`).  A syncobj that is made is none that anyone waits for, because its
  handle was never given out (`MadeIsUnknown`); for the fences of a submission that
  means to remember that those already passed were made once (`Behind`).
* `TableInv`: both tables have the same address for every handle, 0 where the
  kernel has no buffer, and the ranges are apart; the cache is a queue without
  repetitions of buffers that the kernel has and Iris was not told it may use.
* `RoomInv`: the kernel kept its limits.

A submission is two folds over its objects, and nothing can be proved by induction
about a fold. What takes its place: the recursive function of the fold exists
(`FoldExists` of `Programs`, by the least length for which it would not), so
`FoldLeft` is the end of a chain in which each element is one step from the last
(`EvictFold`, `PlaceFold`), and what is true of the first and kept by each step is
true of the end (`FoldType`). Along the first chain, the places of the objects
that were met are clear of other buffers; along the second, all places are clear
and the objects that were met are there (`LayoutTaken`). That the two tables agree
needs only that each step keeps an arrangement an arrangement, whether it failed
or not (`ArrangedIs`). `RefusedOnlyWhenCacheEmpty` needs sums: what `Reclaimed`
closes and what it leaves add up to what there was (`TotalSplit`).

The same module has `DisplayLivesWhileUsed` of `GLRenderer`, which is above `Winsys`.
`CountInv`: the references are as many as the renderers that are not deleted, there
is a display exactly while there is one of them, and a deleted renderer has no
context.  It ends where a display could not be made: the failed renderer counts
down twice.

**`RingProofs`**: that the two locks of the 2D engine exclude each other's
holders (`LocksExclude`: the run's `MutualExclusion`), and the types, for any
number of threads and signals.  The invariant (`Exclusive`) says of a benaphore
that one thread has it at most, that its semaphore has a unit at most and none
while a thread has it, and that its count is above zero as long as either is
the case; `AllBracketed`, that what is left of a call releases a lock only after it
has acquired it.  For the ring's lock both hold until a signal ended a wait.

The same module has `NothingLost`, for a ring of any size.  `LostInv` holds until
the ring was full or a thread wrote it without the lock.  `Filled`: from the head
on the ring holds the commands not yet executed, the position is behind the last
of them, and `space_left` is never more than what is free, though it is not
counted up when the engine goes on.  `Told`: the tail is behind whole commands,
so the engine never finds one of which it was told only a part.  `Shares`: what
the tail does not cover is of the block of the thread that has the lock, and
what is left of that block fits into the ring (`Metered`, which counts the cells
of a program from `enter` to `submit`).  Without that, a block of just the size
of the ring would come round to its own beginning.  It needs `BlocksFit`: what
one `QueueCommands` queues is less than the ring.  The ring is 64 KiB, 8192
cells; the longest block of `overlay.cpp` takes six; but nothing limits the
`count` of `intel_fill_rectangle`, and a call with more rectangles waits in
`MakeSpace` for an engine that was not told of any of them.

It also has the overlay: `OverlayShowsWhatIsLive` and `FlipsInTurn`. Whether a
flip is right depends on commands that three actors have yet to pass on, so
`OverlayInv` says where all of them lead (`Film`, a case of `Runs` of `Programs`):
from what the overlay does now, through the commands that the engine has not yet
executed, then through the rest of the player's program, to a scene in which the
overlay is on, of a buffer that is allocated, exactly when the shared info says
that it is active. `Flow` says of each command from what to what it leads, and
that no flip starts while one may be under way; that commands of different threads
are mixed in the ring does no harm, as what the painters queue leads nowhere
(`Plain`). What is shown follows when no flip is on its way any more (`Settled`).
That the engine meets the commands in the order in which they were queued is
`LostInv`, so these two theorems rest on the one before. They assume that the
player is no painter and, as in the code, that overlay calls are not made side by
side.

**`ModeSetProofs`**, from the assumptions of `ModeSet`: all four properties of
that module, `PlanesNeedPipes`, `LitAsAsked`, `ShowsTheFrameBuffer` and
`ClocksChangeInOrder`, for every generation, every list of ports on pipes A to D
and PLLs 0 to 3, every set of modes and every size of the memory.
`MachinesAssumption` allows one LVDS port, which is how many `probe_ports` makes.
The theorems say what the properties say: of the frame buffer that planes A and B
show it, and of a port behind an LVDS port not that the panel is off.

A call is a list of switches that folds over the ports lay out
(`ForEachPort`, `PortsLaid`).  What it leads to is proved once for any state it
may begin in, from the steps of one port (`Runs` of `Programs`: a sequence and
the values it runs through); the invariant `ModeInv` then only has to say that
what is left of each thread's call still leads there:

* `ShowInv`, of the server: the rest of its call is a film of scenes. A scene is
  which pipes and planes are on and the power of the panel; in every scene planes
  have their pipes, and a PLL is only programmed for a port where the scene allows
  it (`Stopped`), which changes nothing in the scene. The last scene is what DPMS
  asks for (`EndsLit`), except after a mode set that switched off and failed
  (`dark`). A game's clone has no switches: a move writes the base registers only.
* `BaseInv`, of both threads: the rest of a call is a play of stages, which say
  whether the thread has the lock, has read the shared mode (`latched`), which
  planes it has brought up to date, and which memory it has freed and not yet
  taken again.  A latched base is the current one until server and game overtake
  each other (`overtaken`: `intel_set_display_mode` takes the lock and
  `set_display_power_mode` does not).  The frame buffer is without memory only
  after the code could take none, neither new nor as it was before (`lost`).
* `Rest`: while nobody has the lock, the registers of planes A and B are current.

`ClocksInOrder` is from the same invariant: the step that programs a PLL is the
first of the film that is left.

Every safety property of a passing run is a theorem.  Only model-checked: liveness
(`CallsReturn` of `RenderEngine` and of `GLRenderer`, `ReportsReturn` of `Device`),
which like `ENABLED` is out of this prover's reach.

## Plan

Done: the render engine and client, winsys, page tables, opening, closing and
report of the device, EGL, OpenGL, clocks, probing, mode sets, ring, overlay and
locks.  Left, in this order:

1. Vulkan WSI: the images of a swapchain and who owns each.
2. Interrupts of the device: the retrace semaphore and its waiters, against
   `uninit_device` and the mode sets of the accelerant.
3. `kFramebuffer` composed with `ModeSet`: a client's mapping of a frame buffer
   that a mode change has moved.
4. Brightness keys and the backlight; cursor and panel of the accelerant; devices
   and names in `driver.cpp`.

## Not modelled

`components` in `PROJECT.json` gives the reason for each part.  Besides what the
plan has: the VBT parser and the clock gating registers are tables and register
writes; the client library keeps a file descriptor and nothing else; server and
roster answer each message from scratch; demo, monitor, tools and tests use the
driver; the scripts build and install it.

## Checking

In this directory, with TLC and TLAPS: `tlc -workers 2 -config RenderEngine.cfg
MCRenderEngine.tla` and so on for each row of `runs` in `PROJECT.json`; `tlapm
RenderEngineProofs.tla` and so on for `Programs` and the seven modules whose
names end in `Proofs`.
`mutants` names, for each property, a definition and a variant of it with a bug
a programmer could make; with the variant in its place TLC finds the property
violated.
