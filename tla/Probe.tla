------------------------------- MODULE Probe -------------------------------
(* How the accelerant finds the connected displays and gives each a pipe     *)
(* (src/display/accelerant.cpp: probe_ports(), assign_pipes(), and the       *)
(* IsConnected(), GetEDID() and PipePreference() of src/display/Ports.cpp).  *)
(* The candidates of a machine are tried in the order of probe_ports(); a    *)
(* candidate whose answer depends on its EDID reads it over the wires of the *)
(* I2C bus, in one step, or through the AUX channel of AuxChannel, in one    *)
(* step per transaction.  What the firmware left in the registers and the    *)
(* VBT is the constant Machines, of which a behaviour has one.               *)
EXTENDS AuxChannel

CONSTANT Machines

\* port_index and pipe_index: A is 1.
PortA == 1  PortB == 2  PortC == 3  PortD == 4  PortE == 5  PortF == 6  PortG == 7
PipeAny == 0  PipeA == 1  PipeB == 2  PipeC == 3  PipeD == 4

\* HasDDI(): Haswell, which is of generation 7, and later ones.  Before generation 12
\* the ports of PIPE_DDI_FUNC_CTL begin at bit 28, so that bit 27 is clear.
ASSUME MachinesAssumption ==
    \A m \in Machines :
        /\ m.generation \in Nat
        /\ m.ddi => m.generation >= 7
        /\ m.ddi /\ m.generation < 12 =>
              \A pipe \in PipeA .. PipeD : m.transcoder[pipe].field \in {2 * port : port \in 0 .. 7}

VARIABLES
    machine,    \* generation, PCH, VBT and the registers read here
    stage,      \* "probe", "edid", "clock", "pipes", "rest", "done"
    queue,      \* candidates not tried yet
    found,      \* gInfo->ports, each with its class, index, EDID and pipe
    heads,      \* gInfo->head_mode
    clock,      \* PCH_DREF_CONTROL: the spread source and the output to the CPU
    assigned    \* the pipes assign_pipes() has given to a port

probeVars == <<machine, stage, queue, found, heads, clock, assigned>>
portVars == <<probeVars, auxVars>>

HasPch(m) == m.pch # "none"

\* A group of candidates of one class in the order of its loop.
Group(class, first, last) ==
    [i \in 1 .. last - first + 1 |-> [class |-> class, index |-> first + i - 1]]

Candidates(m) ==
    (IF m.ddi
     THEN Group("DDI", PortA, IF m.generation >= 12 THEN PortG ELSE PortF)
     ELSE Group("DP", PortA, PortD) \o Group("HDMI", PortB, PortD)
          \o Group("LVDS", PortC, PortC) \o Group("DVI", PortB, PortC))
    \o IF m.generation <= 8 /\ m.crt THEN Group("Analog", PortA, PortA) ELSE <<>>

has_connected_port(p) == \E i \in DOMAIN found : found[i].index = p.index

\* HDMI leaves out a claimed index; DVI is tried only without any other port.
Skipped(p) ==
    \/ p.class = "HDMI" /\ has_connected_port(p)
    \/ p.class = "DVI" /\ \E i \in DOMAIN found : found[i].class # "DVI"

\* _IsPortInVBT() and what it finds there: vbt maps the ports it lists.
_IsPortInVBT(m, p)        == p.index \in DOMAIN m.vbt
_IsDisplayPortInVBT(m, p) == _IsPortInVBT(m, p) /\ m.vbt[p.index].dp
_IsHdmiInVBT(m, p)        == _IsPortInVBT(m, p) /\ m.vbt[p.index].hdmi
_IsEDPPort(m, p)          == _IsPortInVBT(m, p) /\ m.vbt[p.index].edp
VbtDecides(m)             == m.generation >= 6 /\ DOMAIN m.vbt # {}

\* _PortRegister() of each class; the others have a fixed one.
DisplayPortRegister(m, p) == ~m.valleyview
HdmiRegister(m, p)        == p.index # PortD \/ HasPch(m)
DdiRegister(m, p) ==
    /\ p.index = PortF => m.generation > 8 /\ ~m.skylake
    /\ p.index = PortG => m.generation >= 12

_DDCRegister(m, p) ==
    CASE p.class = "DP"  -> FALSE
      [] p.class = "DDI" -> _IsPortInVBT(m, p) /\ m.vbt[p.index].pin
      [] OTHER -> TRUE

\* The internal panel, which is there without an EDID.
Panel(m, p) == (m.mobile \/ _IsEDPPort(m, p)) /\ p.index = PortA

\* PIPE_DDI_FUNC_CTL of the pipes A to C and of the eDP pipe, 4: bits 27 to 30 hold
\* the port, one bit less and one position higher before generation 12.  The code
\* reads them the older way on every generation.
DdiField(m, port) == IF m.generation >= 12 THEN port ELSE 2 * (port - 1)
DdiSelect(m, pipe) == ((m.transcoder[pipe].field \div 2) % 8) + 1
DdiEnabled(m, pipe) == m.transcoder[pipe].enabled

\* IsConnected() of each class up to HasEDID(): whether the EDID is looked for.
Listed(m, p)   == VbtDecides(m) => _IsPortInVBT(m, p)
HdmiAsks(m, p) == m.hdmi /\ HdmiRegister(m, p) /\ Listed(m, p) /\ p \in m.enabled
DisplayPortAsks(m, p) == DisplayPortRegister(m, p) /\ Listed(m, p) /\ p \in m.enabled
LvdsAsks(m)    == IF HasPch(m) THEN m.lvds ELSE m.generation > 4 \/ m.mobile
DdiAsks(m, p)  == DdiRegister(m, p) /\ Listed(m, p)

Asks(m, p) ==
    CASE p.class = "HDMI" -> HdmiAsks(m, p)
      [] p.class = "DP"   -> DisplayPortAsks(m, p)
      [] p.class = "LVDS" -> LvdsAsks(m)
      [] p.class = "DDI"  -> DdiAsks(m, p)
      [] OTHER            -> TRUE

\* IsConnected() after HasEDID().
LvdsConnected(m, edid) ==
    edid \/ (~HasPch(m) /\ m.generation <= 4 /\ (m.vesa \/ m.gotVbt))

DdiConnected(m, p, edid) ==
    IF Panel(m, p)
    THEN /\ m.generation < 12 => DdiEnabled(m, PipeD)
         /\ edid \/ m.vesa \/ m.gotVbt
    ELSE \/ \E pipe \in PipeA .. PipeC :
               DdiSelect(m, pipe) = p.index /\ DdiEnabled(m, pipe)
         \/ edid /\ DdiEnabled(m, PipeA)

Connected(m, p, edid) ==
    CASE p.class = "DP"   -> TRUE
      [] p.class = "LVDS" -> LvdsConnected(m, edid)
      [] p.class = "DDI"  -> DdiConnected(m, p, edid)
      [] OTHER            -> edid

\* The EDID state afterwards: that of the VESA BIOS is copied for a panel.
VesaTaken(m, p, edid) ==
    /\ ~edid /\ m.vesa
    /\ \/ p.class = "LVDS" /\ ~HasPch(m) /\ m.generation <= 4
       \/ p.class = "DP" /\ Panel(m, p)
       \/ p.class = "DDI" /\ Panel(m, p)
          /\ (m.generation < 12 => DdiEnabled(m, PipeD))

-----------------------------------------------------------------------------
(* GetEDID().                                                                *)

UsesAux(m, p) ==
    p.class \in {"DP", "DDI"} /\ (VbtDecides(m) => _IsDisplayPortInVBT(m, p))

\* _DpAuxTransfer() knows the channel's registers.
AuxKnown(m) == m.generation >= 9 \/ HasPch(m)

HasFallback(m, p) ==
    /\ p.class = "DDI" /\ VbtDecides(m)
    /\ _IsDisplayPortInVBT(m, p) /\ _IsHdmiInVBT(m, p) /\ _DDCRegister(m, p)

ProbeInit ==
    /\ machine \in Machines
    /\ stage = "probe" /\ queue = Candidates(machine)
    /\ found = <<>> /\ heads = {} /\ assigned = {}
    /\ clock = machine.clock
    /\ AuxInit

Candidate == Head(queue)

NextCandidate ==
    /\ queue' = Tail(queue)
    /\ stage' = "probe"

\* A candidate that is claimed, not there or not enabled is deleted.
Pass ==
    /\ stage = "probe" /\ queue # <<>>
    /\ Skipped(Candidate) \/ ~Asks(machine, Candidate)
    /\ NextCandidate
    /\ UNCHANGED <<machine, found, heads, clock, assigned, auxVars>>

\* No memory for the next object: probe_ports() returns with what it has, and its
\* caller goes on with a warning.
NoMemory ==
    /\ stage = "probe" /\ queue # <<>> /\ ~Skipped(Candidate)
    /\ stage' = "pipes" /\ queue' = <<>>
    /\ UNCHANGED <<machine, found, heads, clock, assigned, auxVars>>

\* SetupI2c() and the first transfer of the external ddc2_read_edid1().
AskAux ==
    /\ stage = "probe" /\ queue # <<>> /\ ~Skipped(Candidate)
    /\ Asks(machine, Candidate)
    /\ UsesAux(machine, Candidate) /\ AuxKnown(machine)
    /\ \E writes \in Writes, reads \in Reads : _DpAuxSendReceive(writes, reads)
    /\ stage' = "edid"
    /\ UNCHANGED <<machine, queue, found, heads, clock, assigned>>

AuxStep ==
    /\ stage = "edid"
    /\ Transaction
    /\ UNCHANGED probeVars

\* Everything GetEDID() can end with when it does not use the AUX channel, or after
\* it: an EDID read over the wires is there or not.
WireAnswers(p) == IF _DDCRegister(machine, p) THEN {"OK", "ERROR"} ELSE {"ERROR"}
AfterAux(p, whole) ==
    CASE whole -> {"OK"}
      [] ~whole /\ HasFallback(machine, p) -> {"OK", "ERROR"}
      [] OTHER -> {"ERROR"}

Claim(p, answer) ==
    LET edid == answer = "OK"
    IN  IF Connected(machine, p, edid)
        THEN /\ found' = Append(found,
                    [class |-> p.class, index |-> p.index, pipe |-> PipeAny,
                     edid |-> edid \/ VesaTaken(machine, p, edid)])
             /\ heads' = heads \cup
                  (CASE p.class = "LVDS"   -> {"lvds", "digital"}
                     [] p.class = "DVI"    -> {"digital"}
                     [] p.class = "Analog" -> {"analog"}
                     [] OTHER              -> {})
        ELSE UNCHANGED <<found, heads>>

\* The EDID is taken only when its checksum holds, so with every byte in place.
EndAux ==
    /\ stage = "edid" /\ call.phase = "none"
    /\ LET whole == /\ call.answer = "OK"
                    /\ \A i \in DOMAIN call.got : call.got[i] = i
       IN  \E answer \in AfterAux(Candidate, whole) : Claim(Candidate, answer)
    /\ call' = [call EXCEPT !.writes = 0, !.reads = 0, !.got = <<>>,
                            !.excuse = {}, !.answer = "none", !.bare = FALSE,
                            !.at = 0, !.attempt = 1, !.retry = 1, !.send = 1]
    /\ sink' = [sink EXCEPT !.stored = <<>>, !.given = 0, !.joined = FALSE]
    /\ NextCandidate
    /\ UNCHANGED <<machine, clock, assigned>>

ReadWires ==
    /\ stage = "probe" /\ queue # <<>> /\ ~Skipped(Candidate)
    /\ Asks(machine, Candidate)
    /\ ~(UsesAux(machine, Candidate) /\ AuxKnown(machine))
    /\ \E answer \in IF UsesAux(machine, Candidate)
                     THEN AfterAux(Candidate, FALSE) ELSE WireAnswers(Candidate) :
          Claim(Candidate, answer)
    /\ NextCandidate
    /\ UNCHANGED <<machine, clock, assigned, auxVars>>

-----------------------------------------------------------------------------
(* refclk_activate_ilk() of src/display/pll.cpp.                             *)

WantsSSC == machine.pch = "CPT"
HasPanel == \E i \in DOMAIN found : found[i].class \in {"LVDS", "DP", "DDI"}

\* No port: B_ERROR, without a clock.  Other machines have no such clock, and one
\* whose firmware left it in the state without outputs is left alone.
NoClock ==
    /\ stage = "probe" /\ queue = <<>>
    /\ \/ found = <<>>
       \/ machine.pch \notin {"IBX", "CPT"}
       \/ clock = [nonspread |-> TRUE, source |-> FALSE, spread |-> FALSE, output |-> "off"]
    /\ stage' = "pipes"
    /\ UNCHANGED <<machine, queue, found, heads, clock, assigned, auxVars>>

\* The first write: the sources, the output to the CPU off.
PowerSource ==
    /\ stage = "probe" /\ queue = <<>> /\ found # <<>>
    /\ machine.pch \in {"IBX", "CPT"}
    /\ clock # [nonspread |-> TRUE, source |-> FALSE, spread |-> FALSE, output |-> "off"]
    /\ clock' = [nonspread |-> TRUE, source |-> HasPanel,
                 spread |-> HasPanel /\ WantsSSC, output |-> "off"]
    /\ stage' = IF HasPanel THEN "clock" ELSE "pipes"
    /\ UNCHANGED <<machine, queue, found, heads, assigned, auxVars>>

\* The second: the output, with or without spread.
EnableOutput ==
    /\ stage = "clock"
    /\ clock' = [clock EXCEPT !.output = IF WantsSSC THEN "downspread" ELSE "nonspread"]
    /\ stage' = "pipes"
    /\ UNCHANGED <<machine, queue, found, heads, assigned, auxVars>>

-----------------------------------------------------------------------------
(* assign_pipes().                                                           *)

PipeCount(m) ==
    CASE m.generation >= 12 -> 4
      [] m.generation \in 7 .. 11 -> 3
      [] OTHER -> 2

\* The pipe the firmware chose, by the registers of the port's class.
First(m, index) ==
    LET pipes == {pipe \in PipeA .. PipeD : DdiSelect(m, pipe) = index}
    IN  IF pipes = {} THEN PipeAny ELSE Min(pipes)

DisplayPortPreference(m, p) ==
    CASE m.generation <= 4 -> PipeAny
      [] m.generation > 4 /\ p.index = PortA ->
            IF m.generation \in {6, 7} THEN m.panelPipe ELSE PipeAny
      [] OTHER ->
            LET pipes == {t \in PipeA .. PipeC : m.dpTranscoder[t] = p.index}
            IN  IF pipes = {} THEN PipeAny ELSE Min(pipes)

SelectedPipe(m, p) == IF p \in m.selectsB THEN PipeB ELSE PipeA

LvdsPreference(m, p) ==
    IF m.generation \in 4 .. 7 THEN SelectedPipe(m, p) ELSE PipeB

PipePreference(m, p) ==
    CASE p.class = "DP" -> DisplayPortPreference(m, p)
      [] p.class = "LVDS" -> LvdsPreference(m, p)
      [] p.class \notin {"DP", "LVDS"} /\ m.generation < 4 -> PipeAny
      [] p.class \notin {"DP", "LVDS"} /\ m.generation >= 4 ->
            IF m.ddi THEN First(m, p.index)
            ELSE IF m.generation <= 7 THEN SelectedPipe(m, p) ELSE PipeAny

ClassIndex(p) == [class |-> p.class, index |-> p.index]

SetPipeOnly(i, pipe) ==
    /\ found' = [found EXCEPT ![i].pipe = pipe]
    /\ UNCHANGED assigned

SetPipe(i, pipe) ==
    /\ found' = [found EXCEPT ![i].pipe = pipe]
    /\ assigned' = assigned \cup {pipe}

\* The first pass: every port that has a preference, in order.  IsConnected() gives
\* the same answer again.  A preference for a pipe the chip does not have reads and
\* sets a flag behind the end of the array, in what the stack's alignment leaves
\* there, and SetPipe() refuses the NULL pipe.
AssignPreferred ==
    /\ stage = "pipes"
    /\ LET Wants(i) == PipePreference(machine, ClassIndex(found[i]))
           open == {i \in DOMAIN found : found[i].pipe = PipeAny
                       /\ Wants(i) \in 1 .. PipeCount(machine)}
       IN  IF open # {}
           THEN SetPipe(Min(open), Wants(Min(open))) /\ UNCHANGED stage
           ELSE stage' = "rest" /\ UNCHANGED <<found, assigned>>
    /\ UNCHANGED <<machine, queue, heads, clock, auxVars>>

\* The second: the others, to the pipes left; when none is, they stay without.
AssignRest ==
    /\ stage = "rest"
    /\ LET open == {i \in DOMAIN found : found[i].pipe = PipeAny}
           left == (1 .. PipeCount(machine)) \ assigned
       IN  IF open # {} /\ left # {}
           THEN SetPipe(Min(open), Min(left)) /\ UNCHANGED stage
           ELSE stage' = "done" /\ UNCHANGED <<found, assigned>>
    /\ UNCHANGED <<machine, queue, heads, clock, auxVars>>

Done == stage = "done" /\ UNCHANGED portVars

ProbeNext ==
    \/ Pass \/ NoMemory \/ AskAux \/ AuxStep \/ EndAux \/ ReadWires
    \/ NoClock \/ PowerSource \/ EnableOutput
    \/ AssignPreferred \/ AssignRest
    \/ Done

ProbeSpec == ProbeInit /\ [][ProbeNext]_portVars

-----------------------------------------------------------------------------
\* Two displays are driven by one pipe only when the firmware had set it up so, and
\* no port is left without a pipe while one is free (assign_pipes(), whose comment
\* allows a shared pipe for the same mode only).
SharedOnlyByPreference ==
    /\ \A i, j \in DOMAIN found :
          /\ i # j
          /\ found[i].pipe = found[j].pipe
          /\ found[i].pipe # PipeAny
          => PipePreference(machine, ClassIndex(found[i]))
                = PipePreference(machine, ClassIndex(found[j]))
    /\ stage = "done" /\ (\E i \in DOMAIN found : found[i].pipe = PipeAny)
          => assigned = 1 .. PipeCount(machine)

\* The pipes whose transcoder the firmware connected to port, by the layout of the
\* register on this generation.
FirmwarePipes(m, port) ==
    {pipe \in PipeA .. PipeC :
        m.transcoder[pipe].field = DdiField(m, port) /\ DdiEnabled(m, pipe)}

KeepsFirmwarePipe(p) ==
    LET pipes == FirmwarePipes(machine, p.index)
    IN  p.class = "DDI" /\ Cardinality(pipes) = 1 => p.pipe \in pipes

\* A DDI port is driven by the pipe that drives it since the firmware: the code
\* does not move ports between pipes (SetPipe() of DigitalDisplayInterface).  Only
\* for the register layout of the generations before 12, and when no unused
\* transcoder names the port: one that was never set up names port A.
FirmwarePipeKept ==
    stage \in {"rest", "done"} /\ machine.generation < 12 =>
        \A i \in DOMAIN found :
           \/ \E pipe \in PipeA .. PipeD :
                 /\ DdiSelect(machine, pipe) = found[i].index
                 /\ ~DdiEnabled(machine, pipe)
           \/ KeepsFirmwarePipe(found[i])

\* Pipes are shared, moved or left over only as the firmware had them.
PipesAsFound == SharedOnlyByPreference /\ FirmwarePipeKept
=============================================================================
