-------------------------------- MODULE Ring --------------------------------
(***************************************************************************)
(* The 2D engine and the video overlay of the accelerant (engine.cpp,       *)
(* overlay.cpp): commands are queued into one ring buffer that all threads  *)
(* share, under its benaphore, and the overlay is switched by commands.     *)
(*                                                                         *)
(* A cell is a command's smallest size, two words.  Every call is the       *)
(* program of what it queues, which its thread runs step by step: the       *)
(* painters acquire the engine, perhaps wait until it is idle, and fill     *)
(* rectangles; one thread plays videos (overlay.cpp leaves it to its caller *)
(* that overlay calls do not run side by side: "TODO: locking!").           *)
(*                                                                         *)
(* A ring that is full looks empty to the engine and to MakeSpace, and a    *)
(* MakeSpace that has waited for a second goes on without the space.        *)
(* overrun says that either happened; the model stops there.                *)
(***************************************************************************)
EXTENDS Benaphore, Sequences, FiniteSets, SequencesExt

CONSTANTS
  Painters, Player,     \* the threads
  Size,                 \* the ring, in cells
  Fills,                \* how many rectangles one call may fill
  Buffers,              \* overlay buffers
  MaxInterrupts,        \* signals that end a wait for a lock
  None

ASSUME RingAssumption ==
  /\ Size \in Nat /\ Size > 1
  /\ Threads = Painters \cup {Player} /\ Player \notin Painters
  /\ Locks = {"engine", "ring"}
  /\ Fills \subseteq Nat
  /\ None \notin Nat

(* What one QueueCommands queues is less than the ring, which has room for  *)
(* 8192 cells: the engine only learns of it when all of it is there.       *)
ASSUME BlocksFit == Size > 6 /\ \A n \in Fills : 2 * n < Size

VARIABLES
  cells,        \* what the ring holds; None where it was read
  head, tail,   \* the engine's registers
  position,     \* ring_buffer.position
  space,        \* ring_buffer.space_left
  unread,       \* the commands queued and not yet executed, in order
  overrun,      \* the ring was full
  todo,         \* the program of each thread
  trespassed,   \* QueueCommands went on without the lock it did not get
  interrupts,   \* signals so far
  overlay,      \* shared: [active], registers: [enabled, buffer], current
  screen,       \* the overlay engine: [on, showing, flip]
  live          \* overlay buffers allocated

ringVars == <<cells, head, tail, position, space, unread, overrun>>
overlayVars == <<overlay, screen, live>>
vars == <<lock, ringVars, overlayVars, todo, trespassed, interrupts>>

-----------------------------------------------------------------------------
(* Programs. *)

Commands == {"fill", "flush", "wait", "on", "continue", "off"}

ASSUME NoneIsNoCommand == None \notin Commands

Ops == [op : {"enter", "leave"}, arg : Locks]
       \cup [op : {"queue"}, arg : Commands]
       \cup [op : {"current"}, arg : Buffers \cup {None}]
       \cup [op : {"free"}, arg : Buffers]
       \cup [op : {"submit"}, arg : {None}]

Op(name, arg) == [op |-> name, arg |-> arg]
Do(name) == Op(name, None)
Queue(command) == Op("queue", command)

(* Sizes in cells: a rectangle takes more than one.                        *)
Cells(command) == IF command = "fill" THEN 2 ELSE 1

(* A block with a QueueCommands: the lock, the commands, what else the     *)
(* block does, and the tail when the object goes.                          *)
Block(commands, more) ==
  <<Op("enter", "ring")>>
  \o [i \in DOMAIN commands |-> Queue(commands[i])] \o more
  \o <<Do("submit")>>

Queued(commands) == Block(commands, <<>>)

(* It polls head and tail until they agree or a second has passed, so that *)
(* nothing follows from its return.                                        *)
intel_wait_engine_idle == Queued(<<"flush">>)

intel_acquire_engine(sync) ==
  <<Op("enter", "engine")>> \o (IF sync THEN intel_wait_engine_idle ELSE <<>>)

intel_fill_rectangle(count) == Queued([i \in 1 .. count |-> "fill"])

intel_release_engine == <<Op("leave", "engine")>>

(* overlay.cpp: show_overlay, update_overlay, hide_overlay.                *)
show_overlay == Queued(<<"on", "flush">>)
update_overlay == Queued(<<"flush", "wait", "continue", "wait", "flush">>)
hide_overlay_unwaited ==
  Block(<<"flush", "continue", "wait", "off", "wait">>, <<Op("current", None)>>)
hide_overlay ==
  Block(<<"flush", "wait", "continue", "wait", "off", "wait">>,
        <<Op("current", None)>>)

-----------------------------------------------------------------------------
Init ==
  /\ LockInit
  /\ cells = [i \in 0 .. Size - 1 |-> None]
  /\ head = 0 /\ tail = 0 /\ position = 0
  /\ space = Size
  /\ unread = <<>> /\ overrun = FALSE
  /\ todo = [t \in Threads |-> <<>>]
  /\ trespassed = FALSE /\ interrupts = 0
  /\ overlay = [active |-> FALSE, enabled |-> FALSE, buffer |-> None, current |-> None]
  /\ screen = [on |-> FALSE, showing |-> None, flip |-> None]
  /\ live = {}

-----------------------------------------------------------------------------
(* Calls. *)

Idle(t) == todo[t] = <<>>

Begin(t, program) ==
  /\ Idle(t)
  /\ todo' = [todo EXCEPT ![t] = program]
  /\ UNCHANGED <<lock, ringVars, trespassed, interrupts>>

Paint(t, sync, count) ==
  /\ Begin(t, intel_acquire_engine(sync) \o intel_fill_rectangle(count)
              \o intel_release_engine)
  /\ UNCHANGED overlayVars

(* intel_allocate_overlay_buffer.                                          *)
AllocateBuffer(b) ==
  /\ b \notin live
  /\ live' = live \cup {b}
  /\ Begin(Player, <<>>)
  /\ UNCHANGED <<overlay, screen>>

(* intel_configure_overlay of a window that can be seen; current_overlay   *)
(* follows when the commands are queued.                                   *)
Show(b) ==
  /\ b \in live
  /\ overlay' = [overlay EXCEPT !.buffer = b, !.active = TRUE,
                                !.enabled = IF overlay.active THEN @ ELSE TRUE]
  /\ Begin(Player, (IF overlay.active THEN update_overlay ELSE show_overlay)
                   \o <<Op("current", b)>>)
  /\ UNCHANGED <<screen, live>>

Hidden == [overlay EXCEPT !.active = FALSE, !.enabled = FALSE]

(* intel_configure_overlay without a window, or of one out of sight.       *)
Hide ==
  /\ overlay.active
  /\ overlay' = Hidden
  /\ Begin(Player, hide_overlay)
  /\ UNCHANGED <<screen, live>>

MustHideNever(b) == FALSE
MustHide(b) == overlay.current = b /\ overlay.active

(* intel_release_overlay_buffer frees the memory when the commands are     *)
(* queued, not when they were executed.                                    *)
ReleaseBuffer(b) ==
  /\ b \in live
  /\ IF MustHide(b)
     THEN overlay' = Hidden /\ Begin(Player, hide_overlay \o <<Op("free", b)>>)
     ELSE UNCHANGED overlay /\ Begin(Player, <<Op("free", b)>>)
  /\ UNCHANGED <<screen, live>>

-----------------------------------------------------------------------------
(* Steps. *)

At(t, name) == ~Idle(t) /\ Head(todo[t]).op = name
Arg(t) == Head(todo[t]).arg
Done(t) == todo' = [todo EXCEPT ![t] = Tail(@)]

Enter(t) ==
  /\ At(t, "enter") /\ t \notin lock[Arg(t)].waiting
  /\ \/ EnterFree(Arg(t), t) /\ Done(t)
     \/ EnterTaken(Arg(t), t) /\ UNCHANGED todo
  /\ UNCHANGED <<ringVars, overlayVars, trespassed, interrupts>>

Wake(t) ==
  /\ At(t, "enter")
  /\ Granted(Arg(t), t)
  /\ Done(t)
  /\ UNCHANGED <<ringVars, overlayVars, trespassed, interrupts>>

(* intel_acquire_engine answers B_ERROR; QueueCommands does not look.      *)
Signal(t) ==
  /\ At(t, "enter") /\ interrupts < MaxInterrupts
  /\ Interrupted(Arg(t), t)
  /\ interrupts' = interrupts + 1
  /\ IF Arg(t) = "engine"
     THEN todo' = [todo EXCEPT ![t] = <<>>] /\ UNCHANGED trespassed
     ELSE Done(t) /\ trespassed' = TRUE
  /\ UNCHANGED <<ringVars, overlayVars>>

Release(t) ==
  /\ At(t, "leave")
  /\ Leave(Arg(t), t)
  /\ Done(t)
  /\ UNCHANGED <<ringVars, overlayVars, trespassed, interrupts>>

(* MakeSpace: how far the engine's head is in front of the position.  A    *)
(* head at the position counts as an empty ring.  It looks at the head only *)
(* when what it knows is not enough.                                       *)
Free == (IF head <= position THEN head + Size ELSE head) - position

Room(size) == IF space >= size THEN space ELSE Free

(* "engine stalled": a second has passed.                                  *)
Stalled(t) ==
  /\ At(t, "queue") /\ Room(Cells(Arg(t))) < Cells(Arg(t))
  /\ overrun' = TRUE
  /\ UNCHANGED <<lock, cells, head, tail, position, space, unread, overlayVars,
                 todo, trespassed, interrupts>>

(* Put: wait for the space, take it and write the command.                 *)
LeftUnspent(size) == Room(size)
Left(size) == Room(size) - size

Put(t) ==
  LET command == Arg(t)
      size == Cells(command)
  IN  /\ At(t, "queue") /\ Room(size) >= size
      /\ space' = Left(size)
      /\ cells' = [i \in 0 .. Size - 1 |->
                     IF (i - position) % Size < size THEN command ELSE cells[i]]
      /\ position' = (position + size) % Size
      /\ unread' = Append(unread, command)
      /\ overrun' = (space < size /\ head = position /\ unread # <<>>)
      /\ Done(t)
      /\ UNCHANGED <<lock, head, tail, overlayVars, trespassed, interrupts>>

(* ~QueueCommands; a tail that has come round to the head is an empty ring. *)
Submit(t) ==
  /\ At(t, "submit")
  /\ tail' = position
  /\ overrun' = (position = head /\ unread # <<>>)
  /\ Leave("ring", t)
  /\ Done(t)
  /\ UNCHANGED <<cells, head, position, space, unread, overlayVars, trespassed,
                 interrupts>>

SetCurrent(t) ==
  /\ At(t, "current")
  /\ overlay' = [overlay EXCEPT !.current = Arg(t)]
  /\ Done(t)
  /\ UNCHANGED <<lock, ringVars, screen, live, trespassed, interrupts>>

FreeBuffer(t) ==
  /\ At(t, "free")
  /\ live' = live \ {Arg(t)}
  /\ Done(t)
  /\ UNCHANGED <<lock, ringVars, overlay, screen, trespassed, interrupts>>

Step(t) ==
  \/ Enter(t) \/ Wake(t) \/ Signal(t) \/ Release(t)
  \/ Stalled(t) \/ Put(t) \/ Submit(t)
  \/ SetCurrent(t) \/ FreeBuffer(t)

-----------------------------------------------------------------------------
(* The engine and the overlay. *)

Flips == {"on", "continue", "off"}

(* The engine executes what is at its head.  It waits for a flip that is   *)
(* under way only where it is told to.                                     *)
Execute ==
  LET command == cells[head]
  IN  /\ head # tail /\ command # None
      /\ command = "wait" => screen.flip = None
      /\ head' = (head + Cells(command)) % Size
      /\ cells' = [i \in 0 .. Size - 1 |->
                     IF (i - head) % Size < Cells(command) THEN None ELSE cells[i]]
      /\ unread' = Tail(unread)
      /\ screen' = IF command \in Flips THEN [screen EXCEPT !.flip = command]
                                        ELSE screen
      /\ UNCHANGED <<lock, tail, position, space, overrun, overlay, live, todo,
                     trespassed, interrupts>>

(* At the next blank the overlay reads its registers, or stops.            *)
Blank ==
  /\ screen.flip # None
  /\ screen' = [on |-> screen.flip # "off",
                showing |-> IF screen.flip # "off" /\ overlay.enabled
                            THEN overlay.buffer ELSE None,
                flip |-> None]
  /\ UNCHANGED <<lock, ringVars, overlay, live, todo, trespassed, interrupts>>

Next ==
  /\ ~overrun
  /\ \/ \E t \in Painters, sync \in BOOLEAN, count \in Fills : Paint(t, sync, count)
     \/ \E b \in Buffers : AllocateBuffer(b) \/ Show(b) \/ ReleaseBuffer(b)
     \/ Hide
     \/ \E t \in Threads : Step(t)
     \/ Execute
     \/ Blank

Spec == Init /\ [][Next]_vars

-----------------------------------------------------------------------------
(* One thread at a time has the engine, whatever signals it gets; and one  *)
(* at a time writes the ring, until QueueCommands went on without its lock *)
(* (engine.cpp:35, lock.h:39).                                             *)
AtMostOne(S) == \A t, u \in S : t = u

MutualExclusion ==
  /\ AtMostOne(lock["engine"].holding)
  /\ ~trespassed => AtMostOne(lock["ring"].holding)

(* The engine meets the commands that were queued, whole and in order, and *)
(* what is between head and position is exactly them (engine.cpp:112-151). *)
Laid(commands) ==
  FoldLeft(LAMBDA laid, c : laid \o [i \in 1 .. Cells(c) |-> c], <<>>, commands)

NothingLost ==
  ~overrun /\ ~trespassed =>
    LET laid == Laid(unread)
    IN  /\ Len(laid) < Size \/ tail # position
        /\ position = (head + Len(laid)) % Size
        /\ \A i \in DOMAIN laid : cells[(head + i - 1) % Size] = laid[i]

(* The overlay is only told to flip when the flip before is done, to go on *)
(* or off only while it is on, and on only while it is off; the waits that *)
(* overlay.cpp queues are all that orders them (overlay.cpp:240-304).      *)
FlipsInTurn ==
  [][screen'.flip \in Flips /\ screen' # screen /\ ~trespassed =>
       /\ screen.flip = None
       /\ screen'.flip = "on" <=> ~screen.on]_vars

(* When everything queued is done and no call is in progress, the overlay  *)
(* shows the buffer of the last call, which is allocated, or nothing       *)
(* (overlay.cpp:427-445).                                                  *)
OverlayShowsWhatIsLive ==
  unread = <<>> /\ screen.flip = None /\ Idle(Player) /\ ~trespassed =>
    /\ screen.showing = IF overlay.active THEN overlay.current ELSE None
    /\ screen.showing # None => screen.showing \in live
============================================================================
