------------------------------ MODULE ModeSet ------------------------------
(***************************************************************************)
(* The accelerant changing what the screen shows: intel_set_display_mode,   *)
(* intel_set_dpms_mode and intel_move_display (mode.cpp, dpms.cpp), the     *)
(* pipes and planes they switch (Pipes.cpp), the mode set of each class of  *)
(* port (Ports.cpp) and the graphics memory of the frame buffer             *)
(* (memory.cpp).                                                           *)
(*                                                                         *)
(* Each call is a program, the sequence of register writes and of accesses  *)
(* to the shared info it makes; a thread runs the program of its call step  *)
(* by step.  The server is app_server, which makes one call at a time; the  *)
(* clone is a game, which has the accelerant cloned and moves the display.  *)
(* A mode set and a move hold the accelerant's lock (its benaphore is in    *)
(* module Benaphore), a change of the DPMS mode does not.                   *)
(***************************************************************************)
EXTENDS Integers, Sequences, FiniteSets, SequencesExt

CONSTANTS
  Machines,    \* [gen, ports], ports a sequence of [class, pipe, pll]
  Modes,       \* [pitch, height]: what a mode needs of the frame buffer
  MemorySize,  \* the graphics memory, in the unit of pitch
  MaxOthers,   \* allocations of others: overlays, rings, contexts
  Server, Clone, None

Threads == {Server, Clone}
Pipes == {"A", "B", "C", "D"}
DpmsModes == {"on", "standby", "off"}
Classes == {"lvds", "ddi", "dp", "analog", "digital"}
Plls == 0 .. 3
Ports == [class : Classes, pipe : Pipes, pll : Plls]

(* The planes whose address and pitch the driver sets.                     *)
Based == {"A", "B"}

(* Pipe D has no plane offset of its own.                                  *)
PlaneOf(p) == IF p = "D" THEN "A" ELSE p

(* A port has a pipe, a DDI port the PLL the firmware or its number chose   *)
(* for it, and probe_ports makes one LVDSPort at most (accelerant.cpp:366).  *)
ASSUME MachinesAssumption ==
  \A m \in Machines :
    /\ m.gen \in Nat
    /\ m.ports \in Seq(Ports)
    /\ \A i, j \in DOMAIN m.ports :
         m.ports[i].class = "lvds" /\ m.ports[j].class = "lvds" => i = j

ASSUME ModesAssumption == Modes \subseteq [pitch : Nat, height : Nat]
ASSUME MemoryAssumption == MemorySize \in Nat
ASSUME ThreadsAssumption == Server # Clone /\ None \notin Threads
ASSUME NoneAssumption == None \notin [surface : Nat, offset : Nat]

VARIABLES
  machine,     \* the machine, fixed by Init
  memory,      \* the allocations of the GART: [base, size, owner]
  shared,      \* intel_shared_info: frame buffer, mode, start, pitch, dpms
  regs,        \* for each pipe and plane: enabled, address, pitch
  plls,        \* what each PLL was last programmed with, and for which port
  panel,       \* whether the LVDS panel has power
  owner,       \* who holds accelerant_lock
  todo,        \* what is left of the program of each thread
  latch,       \* what a thread has computed for the base registers
  lost,        \* no memory for the new frame buffer, none for the old one
  dark,        \* a mode set failed after it had switched the display off
  overtaken    \* a move and a change of the DPMS mode ran at the same time

vars == <<machine, memory, shared, regs, plls, panel, owner, todo, latch, lost,
          dark, overtaken>>

-----------------------------------------------------------------------------
(* Programs. *)

Op(name, arg) == [op |-> name, arg |-> arg]
Do(name) == Op(name, None)

(* set_frame_buffer_base: both pipes, each from the shared info.           *)
set_frame_buffer_base ==
  <<Op("load", "A"), Op("store", "A"), Op("load", "B"), Op("store", "B")>>

(* Pipe::Enable; generation 6 and later keep their pipe.                   *)
PipeOn(p) == <<Op("pipe on", p), Op("plane on", PlaneOf(p))>>
PipeKept(p) == <<Op("plane off", PlaneOf(p))>>
PipeOffFirst(p) == <<Op("pipe off", p), Op("plane off", PlaneOf(p))>>
PipeOff(p) == <<Op("plane off", PlaneOf(p))>>
              \o (IF machine.gen <= 5 THEN <<Op("pipe off", p)>> ELSE <<>>)

ForEachPort(steps) ==
  FoldLeft(LAMBDA program, port : program \o steps[port], <<>>, machine.ports)

HasPanel == \E i \in DOMAIN machine.ports : machine.ports[i].class = "lvds"

(* set_display_power_mode: on, pipes and then the panel; any other mode,   *)
(* the pipes off.  The PLLs it would start run since they were programmed.  *)
set_display_power_mode(dpms) ==
  LET switched == [port \in Range(machine.ports) |->
                     IF dpms = "on" THEN PipeOn(port.pipe) ELSE PipeOff(port.pipe)]
  IN  ForEachPort(switched) \o set_frame_buffer_base
      \o (IF HasPanel THEN <<Op("panel", dpms = "on")>> ELSE <<>>)

(* Pipe::Configure enables the pipe of generation 6 and later, before the  *)
(* PLL is programmed.                                                      *)
Configured(p) == IF machine.gen >= 6 THEN <<Op("pipe on", p)>> ELSE <<>>

(* ConfigureClocks stops the PLL of its pipe, any pipe but B has that of A, *)
(* and starts it with the divisors and flags of the port that calls.       *)
PllOf(p) == IF p = "B" THEN 1 ELSE 0
Program(n, port, mode, running) ==
  <<Op("clock", [pll |-> n,
                 set |-> [port |-> port, mode |-> mode, running |-> running]])>>
Clocked(port, mode) == Program(PllOf(port.pipe), port, mode, FALSE)
                       \o Program(PllOf(port.pipe), port, mode, TRUE)

(* LVDSPort::SetDisplayMode: the panel is off while its clock changes,     *)
(* except on generation 4.                                                 *)
LvdsMode(port, mode) ==
  LET cycled == machine.gen # 4
  IN  (IF cycled THEN <<Op("panel", FALSE)>> ELSE <<>>)
      \o Configured(port.pipe) \o Clocked(port, mode)
      \o (IF cycled THEN <<Op("panel", TRUE)>> ELSE <<>>)

(* DigitalDisplayInterface::SetDisplayMode: up to generation 8 the clock   *)
(* stays as the firmware programmed it.  ConfigureClocksSKL writes the PLL  *)
(* the firmware chose while it runs, and leaves DPLL0 and those in DP mode, *)
(* which have pll 0 here, alone; ProgramPLL ends with PLL 0 or 1 as asked   *)
(* for.  (That generation 12 may find no divisors is left out.)             *)
DdiMode(port, mode) ==
  LET programmed == machine.gen >= 12 \/ (machine.gen >= 9 /\ port.pll # 0)
  IN  Configured(port.pipe)
      \o (IF programmed THEN Program(port.pll, port, mode, TRUE) ELSE <<>>)

(* DisplayPort::SetDisplayMode: "Pll programming is not needed for (e)DP".  *)
(* Where the link has no room only the size of the image is set.           *)
DisplayPortMode(p) == IF machine.gen <= 4 THEN <<>> ELSE Configured(p)

(* AnalogPort and DigitalPort::SetDisplayMode.                             *)
PlainMode(port, mode) == Configured(port.pipe) \o Clocked(port, mode)

PortMode(port, mode) ==
  CASE port.class = "lvds" -> LvdsMode(port, mode)
    [] port.class = "ddi" -> DdiMode(port, mode)
    [] port.class = "dp" -> DisplayPortMode(port.pipe)
    [] port.class \in {"analog", "digital"} -> PlainMode(port, mode)

(* intel_set_display_mode up to the new frame buffer, and from there on.   *)
UntilMemory(mode) ==
  <<Do("lock")>> \o set_display_power_mode("off")
  \o <<Do("free"), Op("allocate", mode)>>

AfterMemory(mode) ==
  LET set == [port \in Range(machine.ports) |-> PortMode(port, mode)]
  IN  ForEachPort(set) \o <<Do("power"), Op("pitch", mode), Op("adopt", mode)>>
      \o set_frame_buffer_base \o <<Do("unlock")>>

(* Without memory for it: back to a frame buffer of the old mode, in the   *)
(* registers, and nothing else.                                            *)
AfterRestoreInfoOnly == <<Do("unlock")>>
AfterRestore == set_frame_buffer_base \o <<Do("unlock")>>

(* intel_move_display.                                                     *)
MoveDisplay(start) == <<Do("lock"), Op("move", start)>>
AfterMove == set_frame_buffer_base \o <<Do("unlock")>>

-----------------------------------------------------------------------------
(* Graphics memory. *)

Size(mode) == mode.pitch * mode.height

Taken == UNION {a.base .. a.base + a.size - 1 : a \in memory}

(* The GART finds a gap of that size, if there is one.                     *)
Gaps(size) == {b \in 0 .. MemorySize - size :
                 \A x \in b .. b + size - 1 : x \notin Taken}

-----------------------------------------------------------------------------
(* The state after a first mode set that succeeded: what it put into the    *)
(* PLLs is left out (None).  Of planes C and D nothing reads or changes what *)
(* the firmware left as their address and pitch, and 0 stands for it.       *)
Init ==
  /\ machine \in Machines
  /\ \E mode \in Modes :
       /\ memory = {[base |-> 0, size |-> Size(mode), owner |-> "frame"]}
       /\ shared = [frame |-> 0, mode |-> mode, start |-> 0,
                    pitch |-> mode.pitch, dpms |-> "on"]
       /\ LET heads == {machine.ports[i].pipe : i \in DOMAIN machine.ports}
          IN  regs = [p \in Pipes |->
                        [pipe |-> p \in heads,
                         plane |-> p \in {PlaneOf(q) : q \in heads},
                         surface |-> 0, offset |-> 0,
                         pitch |-> IF p \in Based THEN mode.pitch ELSE 0]]
  /\ plls = [n \in Plls |-> None]
  /\ panel = HasPanel
  /\ owner = None
  /\ todo = [t \in Threads |-> <<>>]
  /\ latch = [t \in Threads |-> None]
  /\ lost = FALSE /\ dark = FALSE /\ overtaken = FALSE

-----------------------------------------------------------------------------
(* Calls. *)

Idle(t) == todo[t] = <<>>

Begin(t, program) ==
  /\ Idle(t)
  /\ todo' = [todo EXCEPT ![t] = program]
  /\ UNCHANGED <<machine, memory, regs, plls, panel, owner, latch, lost>>

SetDisplayMode(mode) ==
  /\ Begin(Server, UntilMemory(mode))
  /\ UNCHANGED <<shared, dark, overtaken>>

(* intel_set_dpms_mode, which takes no lock.                               *)
SetDpmsMode(dpms) ==
  /\ Begin(Server, set_display_power_mode(dpms))
  /\ shared' = [shared EXCEPT !.dpms = dpms]
  /\ dark' = FALSE
  /\ overtaken' = (overtaken \/ ~Idle(Clone))

Move(t, start) ==
  /\ Begin(t, MoveDisplay(start))
  /\ overtaken' = (overtaken \/ (t = Clone /\ ~Idle(Server)
                                 /\ owner # Server
                                 /\ Head(todo[Server]).op # "lock"))
  /\ UNCHANGED <<shared, dark>>

-----------------------------------------------------------------------------
(* Steps. *)

At(t, name) == ~Idle(t) /\ Head(todo[t]).op = name
Arg(t) == Head(todo[t]).arg
Then(t, program) == todo' = [todo EXCEPT ![t] = program \o Tail(@)]
Done(t) == Then(t, <<>>)

Lock(t) ==
  /\ At(t, "lock") /\ owner = None
  /\ owner' = t
  /\ Done(t)
  /\ UNCHANGED <<machine, memory, shared, regs, plls, panel, latch, lost,
                 dark, overtaken>>

Unlock(t) ==
  /\ At(t, "unlock")
  /\ owner' = None
  /\ Done(t)
  /\ UNCHANGED <<machine, memory, shared, regs, plls, panel, latch, lost,
                 dark, overtaken>>

SetBit(t, name, field, value) ==
  /\ At(t, name)
  /\ regs' = [regs EXCEPT ![Arg(t)][field] = value]
  /\ Done(t)
  /\ UNCHANGED <<machine, memory, shared, plls, panel, owner, latch, lost,
                 dark, overtaken>>

Enable(t) == \/ SetBit(t, "pipe on", "pipe", TRUE)
             \/ SetBit(t, "plane on", "plane", TRUE)
Disable(t) == \/ SetBit(t, "pipe off", "pipe", FALSE)
              \/ SetBit(t, "plane off", "plane", FALSE)

(* set_frame_buffer_registers: read the shared info, write the registers.  *)
Load(t) ==
  /\ At(t, "load")
  /\ latch' = [latch EXCEPT ![t] = [surface |-> shared.frame,
                                    offset |-> shared.start * shared.pitch]]
  /\ Done(t)
  /\ UNCHANGED <<machine, memory, shared, regs, plls, panel, owner, lost,
                 dark, overtaken>>

Store(t) ==
  /\ At(t, "store")
  /\ regs' = [regs EXCEPT ![Arg(t)].surface = latch[t].surface,
                          ![Arg(t)].offset = latch[t].offset]
  /\ latch' = [latch EXCEPT ![t] = None]
  /\ Done(t)
  /\ UNCHANGED <<machine, memory, shared, plls, panel, owner, lost, dark,
                 overtaken>>

(* enable_lvds_panel, and the panel's power in LVDSPort::SetDisplayMode.   *)
PanelPower(t) ==
  /\ At(t, "panel")
  /\ panel' = Arg(t)
  /\ Done(t)
  /\ UNCHANGED <<machine, memory, shared, regs, plls, owner, latch, lost,
                 dark, overtaken>>

(* intel_free_memory: the GART frees whatever starts at that address.      *)
Free(t) ==
  /\ At(t, "free")
  /\ memory' = {a \in memory : a.base # shared.frame}
  /\ Done(t)
  /\ UNCHANGED <<machine, shared, regs, plls, panel, owner, latch, lost, dark,
                 overtaken>>

Allocated(base, size) ==
  /\ memory' = memory \cup {[base |-> base, size |-> size, owner |-> "frame"]}
  /\ shared' = [shared EXCEPT !.frame = base]

Allocate(t) ==
  /\ At(t, "allocate")
  /\ \E base \in Gaps(Size(Arg(t))) : Allocated(base, Size(Arg(t)))
  /\ lost' = FALSE
  /\ Then(t, AfterMemory(Arg(t)))
  /\ UNCHANGED <<machine, regs, plls, panel, owner, latch, dark, overtaken>>

(* The old size is that of the mode and pitch of the shared info.          *)
OldSize == shared.mode.height * shared.pitch

Restore(t) ==
  /\ At(t, "allocate") /\ Gaps(Size(Arg(t))) = {}
  /\ dark' = TRUE
  /\ \/ /\ \E base \in Gaps(OldSize) : Allocated(base, OldSize)
        /\ lost' = FALSE
        /\ Then(t, AfterRestore)
     \/ /\ Gaps(OldSize) = {}
        /\ lost' = TRUE
        /\ Then(t, <<Do("unlock")>>)
        /\ UNCHANGED <<memory, shared>>
  /\ UNCHANGED <<machine, regs, plls, panel, owner, latch, overtaken>>

(* ConfigureClocks, ConfigureClocksSKL, ProgramPLL.                        *)
Clock(t) ==
  /\ At(t, "clock")
  /\ plls' = [plls EXCEPT ![Arg(t).pll] = Arg(t).set]
  /\ Done(t)
  /\ UNCHANGED <<machine, memory, shared, regs, panel, owner, latch, lost, dark,
                 overtaken>>

PowerOn(t) ==
  /\ At(t, "power")
  /\ Then(t, set_display_power_mode("on"))
  /\ dark' = FALSE
  /\ UNCHANGED <<machine, memory, shared, regs, plls, panel, owner, latch,
                 lost, overtaken>>

(* The display goes back to the DPMS mode asked for.                       *)
Power(t) ==
  /\ At(t, "power")
  /\ Then(t, set_display_power_mode(shared.dpms))
  /\ dark' = FALSE
  /\ UNCHANGED <<machine, memory, shared, regs, plls, panel, owner, latch,
                 lost, overtaken>>

(* INTEL_DISPLAY_A_BYTES_PER_ROW and its B, whatever the pipes are.         *)
Pitch(t) ==
  /\ At(t, "pitch")
  /\ regs' = [p \in Pipes |-> IF p \in Based
                              THEN [regs[p] EXCEPT !.pitch = Arg(t).pitch]
                              ELSE regs[p]]
  /\ Done(t)
  /\ UNCHANGED <<machine, memory, shared, plls, panel, owner, latch, lost,
                 dark, overtaken>>

(* The shared info is updated; the base registers follow under the lock, so *)
(* what a move left there unnoticed is gone.                               *)
Adopt(t) ==
  /\ At(t, "adopt")
  /\ shared' = [shared EXCEPT !.mode = Arg(t), !.pitch = Arg(t).pitch, !.start = 0]
  /\ overtaken' = FALSE
  /\ Done(t)
  /\ UNCHANGED <<machine, memory, regs, plls, panel, owner, latch, lost, dark>>

(* Only as far as the virtual screen reaches; one row of it is shown.      *)
MoveStart(t) ==
  /\ At(t, "move")
  /\ IF Arg(t) + 1 > shared.mode.height
     THEN Then(t, <<Do("unlock")>>) /\ UNCHANGED shared
     ELSE Then(t, AfterMove) /\ shared' = [shared EXCEPT !.start = Arg(t)]
  /\ UNCHANGED <<machine, memory, regs, plls, panel, owner, latch, lost, dark,
                 overtaken>>

(* Others allocate and free, without the accelerant's lock.                *)
Others == {a \in memory : a.owner = "other"}

OtherAllocates ==
  /\ Cardinality(Others) < MaxOthers
  /\ \E base \in Gaps(1) :
       memory' = memory \cup {[base |-> base, size |-> 1, owner |-> "other"]}
  /\ UNCHANGED <<machine, shared, regs, plls, panel, owner, todo, latch, lost,
                 dark, overtaken>>

OtherFrees ==
  /\ \E a \in Others : memory' = memory \ {a}
  /\ UNCHANGED <<machine, shared, regs, plls, panel, owner, todo, latch, lost,
                 dark, overtaken>>

Step(t) ==
  \/ Lock(t) \/ Unlock(t)
  \/ Enable(t) \/ Disable(t)
  \/ Load(t) \/ Store(t)
  \/ PanelPower(t)
  \/ Free(t) \/ Allocate(t) \/ Restore(t)
  \/ Clock(t) \/ Power(t) \/ Pitch(t) \/ Adopt(t)
  \/ MoveStart(t)

Next ==
  \/ \E mode \in Modes : SetDisplayMode(mode)
  \/ \E dpms \in DpmsModes : SetDpmsMode(dpms)
  \/ \E start \in 0 .. 1, t \in Threads : Move(t, start)
  \/ \E t \in Threads : Step(t)
  \/ OtherAllocates \/ OtherFrees

Spec == Init /\ [][Next]_vars

-----------------------------------------------------------------------------
Quiet == \A t \in Threads : Idle(t)

FrameBuffer == [base |-> shared.frame, size |-> OldSize, owner |-> "frame"]

(* Between two calls the frame buffer is memory of its own, of the size of *)
(* the mode, and planes A and B show it from where the display was moved    *)
(* to; what a port on pipe C shows, mode.cpp:166 never sets.                *)
(* Not so after a mode set found no memory for the new mode and none for   *)
(* the old one (mode.cpp:377), and after a move that ran beside a change   *)
(* of the DPMS mode, which computes the same registers without the lock.   *)
ShowsTheFrameBuffer ==
  Quiet /\ ~lost =>
    /\ FrameBuffer \in memory
    /\ ~overtaken =>
         \A p \in Based :
           /\ regs[p].surface = shared.frame
           /\ regs[p].pitch = shared.pitch
           /\ regs[p].offset = shared.start * shared.pitch

(* "Planes always have to operate on an enabled pipe" (Pipes.cpp:633): the *)
(* pipe of the port the plane was enabled for, which for plane A may be D.  *)
PlanesNeedPipes ==
  \A p \in Pipes :
    regs[p].plane => \E q \in Pipes : PlaneOf(q) = p /\ regs[q].pipe

(* A PLL is stopped and programmed for a port while the port's pipe is off  *)
(* up to generation 5 ("must disable PIPE or DPLL programming fails",      *)
(* Pipes.cpp:649), while it is on from generation 6 ("pipe must be enabled  *)
(* before PLL are configured", Pipes.cpp:150), and while no port's plane is *)
(* read.  An LVDS panel is without power meanwhile, until LVDSPort gives it *)
(* power again (Ports.cpp:1349): a port after it in the list programs its   *)
(* own PLL, which may be the panel's, with the panel on.                    *)
PanelIsBack(port) ==
  /\ machine.gen # 4
  /\ \E i, j \in DOMAIN machine.ports :
       i < j /\ machine.ports[i].class = "lvds" /\ machine.ports[j] = port

ClocksChangeInOrder ==
  [][\A n \in Plls : plls'[n] # plls[n] =>
       LET port == plls'[n].port
       IN  /\ (regs[port.pipe].pipe <=> machine.gen >= 6)
           /\ \A i \in DOMAIN machine.ports :
                ~regs[PlaneOf(machine.ports[i].pipe)].plane
           /\ panel => PanelIsBack(port)]_vars

(* Between two calls the display is lit exactly if DPMS asks for it: every *)
(* plane of a port, and the panel.  A mode set that failed leaves it off.  *)
LitAsAsked ==
  Quiet /\ ~dark =>
    /\ \A i \in DOMAIN machine.ports :
         (regs[PlaneOf(machine.ports[i].pipe)].plane <=> shared.dpms = "on")
    /\ (panel <=> HasPanel /\ shared.dpms = "on")
============================================================================
