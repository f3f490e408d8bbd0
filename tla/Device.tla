-------------------------------- MODULE Device --------------------------------
(***************************************************************************)
(* One graphics device, the files that have it open, and the report of     *)
(* what each program's GPU time was: device_open and device_free of        *)
(* kernel/device.cpp with intel_extreme_init and intel_extreme_uninit, and *)
(* the list of clients of kernel/RenderClient.cpp with _GpuActivity.       *)
(*                                                                         *)
(* Three locks: gLock, held over all of an open and the end of a free; the *)
(* lock of the list, which an open takes while it has gLock, and a report  *)
(* keeps while it goes through the list; and that of each client, which a  *)
(* submission keeps until the GPU answers and a report asks for with a     *)
(* timeout.  Of a submission only its lock and its outcome are of interest *)
(* here: RenderEngine and RenderClient have the rest.                      *)
(***************************************************************************)
EXTENDS Integers, FiniteSets, FiniteSetsExt

CONSTANTS
  Files,      \* open files there may be; each has one client when it is open
  Teams,
  Team,       \* fTeam: the program of a file
  None,
  Interrupts, \* what of the interrupts the machine may grant
  Made,       \* what of the engines can be made
  Contexts,   \* what of its contexts on the engines the client of a file can be given
  Slots,      \* slots of sClients: 1 .. kMaxActivityClients
  MaxInits,   \* bound: times the device is initialised
  MaxTicks    \* bound: GPU time of a program when it submits once more

\* The engines, in the order of fEngines.
Engines == {"blitter", "render"}

ASSUME DeviceAssumption ==
  /\ Team \in [Files -> Teams] /\ None \notin Files
  /\ IsFiniteSet(Files)
  /\ Slots \subseteq Nat \ {0} /\ IsFiniteSet(Slots)
  /\ MaxInits \in Nat /\ MaxTicks \in Nat
  /\ Interrupts \subseteq SUBSET {"messages", "handler"}
  /\ Made \subseteq SUBSET Engines /\ Contexts \in [Files -> SUBSET SUBSET Engines]

\* What intel_extreme_init takes: message interrupts and a handler if it can.
Needed    == {"aperture", "shared", "registers"}
Resources == Needed \cup {"messages", "handler"}

VARIABLES
  file,     \* "closed", "opening" (has gLock, not in the list), "open",
            \* "freed" (the client is gone, open_count is not)
  gLock,    \* the file that is being opened, or None
  count,    \* open_count
  device,   \* of intel_info: [status, current, held, gtt, ready, total]
  inits,    \* initialisations so far
  fault,    \* the engines whose fault flag is set, which nothing clears
  list,     \* sClients
  listLock, \* the file whose report has sClientsLock, or None
  client,   \* of a file's client: [engines, busy, ticks, told]
  poll,     \* the report a file is making, or None
  seen,     \* of the last report a file was given [over, total], or None
  ran       \* GPU time each program used while its contexts were there

opens   == <<file, gLock, count, device, inits>>
clients == <<list, client, fault, ran>>
reports == <<listLock, poll, seen>>
vars    == <<opens, clients, reports>>

\* Not initialised: resources are named after the initialisation they are of.
Fresh == [status |-> "none", current |-> 0, held |-> {}, gtt |-> 0,
          ready |-> {}, total |-> [e \in Engines |-> 0]]

\* A client that has just been built, with a context on each of these engines.
Client(engines) ==
  [engines |-> engines, busy |-> {}, ticks |-> 0, told |-> 0]

Init ==
  /\ file = [f \in Files |-> "closed"] /\ gLock = None /\ count = 0
  /\ device = Fresh /\ inits = 0 /\ fault = {}
  /\ list = [s \in Slots |-> None] /\ listLock = None
  /\ client = [f \in Files |-> Client({})] /\ ran = [t \in Teams |-> 0]
  /\ poll = [f \in Files |-> None] /\ seen = [f \in Files |-> None]

-----------------------------------------------------------------------------
(***************************************************************************)
(* The device.                                                             *)
(***************************************************************************)
\* intel_extreme_init: a failure gives back what was taken, an interrupt
\* handler that cannot be installed leaves the message interrupts enabled.
Initialised(d) ==
  {[d EXCEPT !.status = "failed", !.current = 0]} \cup
  {[d EXCEPT !.status = "ok", !.current = inits + 1,
             !.held = @ \cup ((Needed \cup more) \X {inits + 1})] :
     more \in Interrupts}

\* init_graphics_translation_table: with a table it keeps the one it has; an
\* engine comes with the table or not at all.
Translated(d) ==
  IF d.gtt # 0 THEN {d}
  ELSE {d} \cup {[d EXCEPT !.gtt = d.current, !.ready = ready] : ready \in Made}

\* What intel_extreme_uninit gives back: the message interrupts go with the
\* handler.
Released(d) ==
  {r \in d.held : /\ r[2] = d.current
                  /\ r[1] = "messages" => <<"handler", d.current>> \in d.held}

\* Variant with a bug: a faulted engine is kept, its registers are not.
UninitMappings(d) ==
  IF fault # {} THEN [d EXCEPT !.held = @ \ Released(d)]
  ELSE [Fresh EXCEPT !.held = d.held \ Released(d)]

\* uninit_device: a faulted engine keeps everything.
Uninit(d) ==
  IF fault # {} THEN d ELSE [Fresh EXCEPT !.held = d.held \ Released(d)]

\* device_open, until the client waits for the list or the open has failed.
Open(f) ==
  /\ file[f] = "closed" /\ gLock = None /\ (count = 0 => inits < MaxInits)
  /\ \E d \in IF count = 0 THEN Initialised(device) ELSE {device} :
       /\ inits' = IF count = 0 /\ d.status = "ok" THEN inits + 1 ELSE inits
       /\ \/ d.status # "ok" /\ device' = d /\ UNCHANGED <<file, gLock, client>>
          \/ /\ d.status = "ok"
             /\ \E t \in Translated(d) :
                  \/ /\ device' = IF count = 0 THEN Uninit(t) ELSE t
                     /\ UNCHANGED <<file, gLock, client>>
                  \/ /\ device' = t
                     /\ gLock' = f /\ file' = [file EXCEPT ![f] = "opening"]
                     /\ \E engines \in Contexts[f] :
                          client' = [client EXCEPT
                            ![f] = Client(engines \cap (t.ready \ fault))]
  /\ UNCHANGED <<count, list, fault, ran, reports>>

\* The rest: the first free slot of the list, if there is one, and the count.
Register(f) ==
  LET free == {s \in Slots : list[s] = None}
  IN /\ file[f] = "opening" /\ listLock = None
     /\ list' = IF free = {} THEN list ELSE [list EXCEPT ![Min(free)] = f]
     /\ file' = [file EXCEPT ![f] = "open"]
     /\ count' = count + 1 /\ gLock' = None
     /\ UNCHANGED <<device, inits, client, fault, ran, reports>>

\* device_free: the client leaves the list and is destroyed.  The kernel calls
\* it when no call to the file is running.
Unlist(f) ==
  /\ file[f] = "open" /\ client[f].busy = {} /\ poll[f] = None
  /\ list' = [s \in Slots |-> IF list[s] = f THEN None ELSE list[s]]
  /\ file' = [file EXCEPT ![f] = "freed"]
  /\ seen' = [seen EXCEPT ![f] = None]
  /\ client' = [client EXCEPT ![f] = Client({})]
  /\ UNCHANGED <<gLock, count, device, inits, fault, ran, listLock, poll>>

\* Variant with a bug: the client leaves the list without its lock.
UnregisterUnlocked(f) == Unlist(f)

Unregister(f) == listLock = None /\ Unlist(f)

\* The end of device_free: the last file takes the device with it.
Freed(f) ==
  /\ file[f] = "freed" /\ gLock = None
  /\ count' = count - 1
  /\ device' = IF count = 1 THEN Uninit(device) ELSE device
  /\ file' = [file EXCEPT ![f] = "closed"]
  /\ UNCHANGED <<gLock, inits, clients, reports>>

-----------------------------------------------------------------------------
(***************************************************************************)
(* Submissions, as far as the lock and the clock are concerned.            *)
(***************************************************************************)
\* IsReady of the engines a client has a context on.
Ready(f) == client[f].engines \ fault

BeginSubmit(f) ==
  /\ file[f] = "open" /\ client[f].busy = {}
  /\ ran[Team[f]] < MaxTicks
  /\ \E e \in Ready(f) : client' = [client EXCEPT ![f].busy = {e}]
  /\ UNCHANGED <<opens, list, fault, ran, reports>>

\* The GPU has saved the context, which says how long it ran, or the engine is
\* given up on; a submission that waited for another finds it so.  After a native
\* batch the client refuses further calls: here a program may make none.
EndSubmit(f) ==
  /\ \E e \in client[f].busy :
       \/ /\ e \notin fault
          /\ client' = [client EXCEPT ![f].busy = {}, ![f].ticks = @ + 1]
          /\ device' = [device EXCEPT !.total[e] = @ + 1]
          /\ ran' = [ran EXCEPT ![Team[f]] = @ + 1]
          /\ UNCHANGED fault
       \/ /\ fault' = fault \cup {e}
          /\ client' = [client EXCEPT ![f].busy = {}]
          /\ UNCHANGED <<device, ran>>
  /\ UNCHANGED <<file, gLock, count, inits, list, reports>>

\* kDestroyContext: the time of the context is no longer the client's.
DropContexts(f) ==
  /\ file[f] = "open" /\ client[f].busy = {}
  /\ \E left \in 0 .. client[f].ticks - 1 :
       client' = [client EXCEPT ![f].ticks = left]
  /\ UNCHANGED <<opens, list, fault, ran, reports>>

-----------------------------------------------------------------------------
(***************************************************************************)
(* kGpuActivity: a report goes through the list with the list's lock and   *)
(* asks each client for its lock.                                          *)
(***************************************************************************)
\* What these engines have run, together.
Total(d, over) == (IF "blitter" \in over THEN d.total["blitter"] ELSE 0)
                  + (IF "render" \in over THEN d.total["render"] ELSE 0)

\* The total is read engine by engine and without a lock, of those that are
\* ready.  First the blitter.  With none ready there is nothing to report.
PollBegin(f) ==
  LET over == Ready(f) \cap {"blitter"}
  IN /\ file[f] = "open" /\ poll[f] = None /\ Ready(f) # {}
     /\ poll' = [poll EXCEPT ![f] =
          [stage |-> "totals", at |-> 0, who |-> None, over |-> over,
           total |-> Total(device, over), entries |-> [t \in Teams |-> 0]]]
     /\ UNCHANGED <<opens, clients, listLock, seen>>

\* Then the render engine, unless that was the only one and is given up on.
PollTotal(f) ==
  LET more == Ready(f) \cap {"render"}
      over == poll[f].over \cup more
  IN /\ poll[f] # None /\ poll[f].stage = "totals"
     /\ poll' = [poll EXCEPT ![f] =
          IF over = {} THEN None
          ELSE [poll[f] EXCEPT !.stage = "list", !.over = over,
                               !.total = @ + Total(device, more)]]
     /\ UNCHANGED <<opens, clients, listLock, seen>>

\* The report has these entries: on to the next slot in use, or out of the list.
Onward(f, entries) ==
  LET later == {s \in Slots : s > poll[f].at /\ list[s] # None}
  IN IF later = {}
     THEN /\ poll' = [poll EXCEPT ![f] =
               [poll[f] EXCEPT !.stage = "answer", !.at = 0, !.who = None,
                               !.entries = entries]]
          /\ listLock' = None
     ELSE /\ poll' = [poll EXCEPT ![f] =
               [poll[f] EXCEPT !.stage = "clients", !.at = Min(later),
                               !.who = list[Min(later)], !.entries = entries]]
          /\ listLock' = f

PollLock(f) ==
  /\ poll[f] # None /\ poll[f].stage = "list" /\ listLock = None
  /\ Onward(f, poll[f].entries)
  /\ UNCHANGED <<opens, clients, seen>>

\* The report f is making has come to the client of c.
Visits(f, c) == poll[f] # None /\ poll[f].stage = "clients" /\ poll[f].who = c

\* What the report has with what client c says it used.
Added(f, c, used) == [poll[f].entries EXCEPT ![Team[c]] = @ + used]

\* Variant with a bug: the time a client used is added to what it said before.
PollReadAgain(f, c) ==
  /\ Visits(f, c) /\ client[c].busy = {}
  /\ client' = [client EXCEPT ![c].told = @ + client[c].ticks]
  /\ Onward(f, Added(f, c, client'[c].told))
  /\ UNCHANGED <<opens, list, fault, ran, seen>>

PollRead(f, c) ==
  /\ Visits(f, c) /\ client[c].busy = {}
  /\ client' = [client EXCEPT ![c].told = client[c].ticks]
  /\ Onward(f, Added(f, c, client[c].ticks))
  /\ UNCHANGED <<opens, list, fault, ran, seen>>

\* Variant with a bug: a report waits until the client has its answer.
PollPatient(f, c) == FALSE

\* The client kept its lock for kActivityLockTimeout: what it said last time.
PollTimeout(f, c) ==
  /\ Visits(f, c) /\ client[c].busy # {}
  /\ Onward(f, Added(f, c, client[c].told))
  /\ UNCHANGED <<opens, clients, seen>>

\* The program gets the report.
PollAnswer(f) ==
  /\ poll[f] # None /\ poll[f].stage = "answer"
  /\ seen' = [seen EXCEPT ![f] = [over |-> poll[f].over, total |-> poll[f].total]]
  /\ poll' = [poll EXCEPT ![f] = None]
  /\ UNCHANGED <<opens, clients, listLock>>

-----------------------------------------------------------------------------
\* What a call that file f is in does next.
Continue(f) ==
  \/ Register(f) \/ Freed(f) \/ PollTotal(f) \/ PollLock(f) \/ PollAnswer(f)
  \/ \E c \in Files : PollRead(f, c) \/ PollTimeout(f, c)

Next ==
  \E f \in Files :
    \/ Open(f) \/ Unregister(f) \/ PollBegin(f) \/ Continue(f)
    \/ BeginSubmit(f) \/ EndSubmit(f) \/ DropContexts(f)

Spec == Init /\ [][Next]_vars

\* A thread that has the list's lock goes on, and those that wait for a mutex
\* get it in the order they came.  Nothing is assumed of the GPU.
Fairness == \A f \in Files : SF_vars(Continue(f))

FairSpec == Spec /\ Fairness

-----------------------------------------------------------------------------
\* device_open and device_free: as long as a file is open or on its way the
\* device is initialised, and the registers its page table was built on stay
\* mapped, also when a fault and a second initialisation came between.  After
\* the last file nothing is held but message interrupts that had no handler;
\* a faulted engine keeps what it has.
DeviceHeldWhileOpen ==
  /\ count = Cardinality({f \in Files : file[f] \in {"open", "freed"}})
  /\ count > 0 \/ gLock # None =>
       /\ device.status = "ok"
       /\ Needed \X {device.current} \subseteq device.held
       /\ device.gtt # 0 => <<"registers", device.gtt>> \in device.held
  /\ count = 0 /\ gLock = None /\ fault = {} =>
       /\ device.gtt = 0
       /\ \A r \in device.held : r[1] = "messages"

\* _GpuActivity and ~RenderClient: a report never asks a destroyed client for
\* its lock, and no slot names one.
NoVisitAfterFree ==
  /\ \A f, c \in Files : Visits(f, c) => listLock = f /\ file[c] = "open"
  /\ \A s \in Slots : list[s] # None => file[list[s]] = "open"

\* What a report to f has read of the engines, or one that is begun now would.
Latest(f) ==
  IF poll[f] # None /\ poll[f].stage # "totals"
  THEN [over |-> poll[f].over, total |-> poll[f].total]
  ELSE [over |-> Ready(f), total |-> Total(device, Ready(f))]

\* _GpuActivity: a report, on its way or as the program gets it, never says that
\* a program used more than it did, however many files it opened, closed and
\* opened again, and whatever a busy client is reported with.  Of the total,
\* GpuMonitor.cpp subtracts that of the last report from that of the next.  A
\* later report has no engine that an earlier one to the same file had not, and
\* its total is less by no more than what the engines it lost have run: never
\* less while no engine is given up on.  After a fault beside a ready engine it
\* can be less, and GpuMonitor.cpp:180 does not allow for that.
ReportWithinTruth ==
  \A f \in Files :
    /\ poll[f] # None => \A t \in Teams : poll[f].entries[t] <= ran[t]
    /\ seen[f] # None =>
         /\ Latest(f).over \subseteq seen[f].over
         /\ seen[f].total <=
              Latest(f).total + Total(device, seen[f].over \ Latest(f).over)

\* A file whose report is under way, or whose open or close is.
InCall(f) == poll[f] # None \/ file[f] \in {"opening", "freed"}

\* The comments of _GpuActivity: a report ends although a client keeps its lock
\* for as long as the GPU likes, and so do an open that needs the list and a
\* close that needs gLock.
ReportsReturn == \A f \in Files : InCall(f) ~> ~InCall(f)
=============================================================================
