------------------------------ MODULE GLRenderer ------------------------------
(***************************************************************************)
(* Iris under Haiku's OpenGL kit: IntelRenderer.cpp, GalliumContext.cpp and *)
(* IntelScreen.cpp of mesa/overlay/haiku-iris.  A renderer belongs to one  *)
(* BGLView.  Three threads call it: the program's, which draws and swaps;  *)
(* the window's, which exposes and resizes the view with its looper        *)
(* locked; and the app_server's, which connects the frame buffer.  All     *)
(* renderers share one display, counted by fDisplayRefCount.               *)
(*                                                                         *)
(* A section under a lock that waits for nothing is one action.  What is   *)
(* kept over a wait is in mutex, info and looper.  A renderer has one      *)
(* context, number 0, as the constructor makes no other.                   *)
(***************************************************************************)
EXTENDS Integers, FiniteSets

CONSTANTS
  Renderers, Nobody,
  MaxDisplays  \* bound: displays that may be made

ASSUME GLAssumption ==
  /\ IsFiniteSet(Renderers) /\ Nobody \notin Renderers \cup {"program", "window"}
  /\ MaxDisplays \in Nat \ {0}

VARIABLES
  refs,     \* fDisplayRefCount
  current,  \* fDisplay: its number, or 0 for NULL
  alive,    \* displays that were made and not destroyed
  made,     \* displays made so far
  failed,   \* a display could not be made
  display,  \* per renderer: the display its context was made on, or 0
  program,  \* per renderer: the step its program's thread has reached
  windowPc, \* per renderer: what the window's thread does
  mutex,    \* per renderer: who has fMutex over a wait, or Nobody
  info,     \* per renderer: who has fInfoLocker over a wait, or Nobody
  looper,   \* per renderer: whether the window's thread has its looper
  direct    \* fDirectModeEnabled with a frame buffer in fInfo

displays == <<refs, current, alive, made, failed>>
locks    == <<mutex, info, looper>>
glVars   == <<displays, display, program, windowPc, locks, direct>>

GLInit ==
  /\ refs = 0 /\ current = 0 /\ alive = {} /\ made = 0 /\ failed = FALSE
  /\ display = [r \in Renderers |-> 0]
  /\ program = [r \in Renderers |-> "none"]
  /\ windowPc = [r \in Renderers |-> "idle"]
  /\ mutex = [r \in Renderers |-> Nobody] /\ info = [r \in Renderers |-> Nobody]
  /\ looper = [r \in Renderers |-> FALSE] /\ direct = [r \in Renderers |-> FALSE]

\* The program's thread of r goes on from one step to the next.
Step(r, from, to) == program[r] = from /\ program' = [program EXCEPT ![r] = to]

-----------------------------------------------------------------------------
(***************************************************************************)
(* Building and taking apart.                                              *)
(***************************************************************************)
\* CreateDisplay: the first reference makes the display, or is taken back.  Bound:
\* this fails once.
CreateDisplay(r) ==
  /\ Step(r, "none", "built")
  /\ \/ refs > 0 /\ refs' = refs + 1 /\ UNCHANGED <<current, alive, made, failed>>
     \/ /\ refs <= 0 /\ made < MaxDisplays
        /\ made' = made + 1 /\ current' = made + 1 /\ alive' = alive \cup {made + 1}
        /\ refs' = refs + 1 /\ UNCHANGED failed
     \/ refs <= 0 /\ ~failed /\ failed' = TRUE /\ UNCHANGED <<refs, current, alive, made>>
  /\ UNCHANGED <<display, windowPc, locks, direct>>

\* CreateContext: without a display, or when something of Mesa's fails, none.  Then
\* fContextID is set and the constructor calls LockGL.
CreateContext(r) ==
  /\ program[r] = "built" /\ mutex[r] = Nobody
  /\ \/ /\ current # 0 /\ program' = [program EXCEPT ![r] = "idle"]
        /\ display' = [display EXCEPT ![r] = current]
     \/ program' = [program EXCEPT ![r] = "failed"] /\ UNCHANGED display
  /\ UNCHANGED <<displays, windowPc, locks, direct>>

\* Variant with a bug: the display goes with the second to last reference.
LastButOne(n) == n - 1 <= 1

\* DestroyDisplay goes on when this reference was the last.
LastReference(n) == n <= 1

\* ~IntelRenderer: by instantiate_gl_renderer when the context failed, otherwise by
\* the window's thread, when the program has done.  Contexts go first, then the
\* display reference; also that of a display that could not be made.
Delete(r) ==
  /\ program[r] \in {"failed", "idle"} /\ mutex[r] = Nobody
  /\ windowPc[r] = "idle"
  /\ program' = [program EXCEPT ![r] = "none"]
  /\ display' = [display EXCEPT ![r] = 0]
  /\ direct' = [direct EXCEPT ![r] = FALSE]
  /\ refs' = refs - 1
  /\ IF LastReference(refs) THEN alive' = alive \ {current} /\ current' = 0
     ELSE UNCHANGED <<alive, current>>
  /\ UNCHANGED <<made, failed, windowPc, locks>>

-----------------------------------------------------------------------------
(***************************************************************************)
(* The program's thread.                                                   *)
(***************************************************************************)
\* LockGL with fInfoLocker: the size of the view or of the direct window, which
\* Validate gives the context.
LockGL(r) ==
  /\ info[r] = Nobody /\ Step(r, "idle", "sized")
  /\ info' = [info EXCEPT ![r] = "program"]
  /\ UNCHANGED <<displays, display, windowPc, mutex, looper, direct>>

\* Variant with a bug: fInfoLocker is kept until fMutex is there.
MayDropInfo(r) == mutex[r] = Nobody

\* fInfoLocker is given up before fMutex is asked for.
DropInfo(r) == TRUE

LeaveInfo(r) ==
  /\ DropInfo(r) /\ Step(r, "sized", "unlocked") /\ info' = [info EXCEPT ![r] = Nobody]
  /\ UNCHANGED <<displays, display, windowPc, mutex, looper, direct>>

\* SetCurrentContext(true), under fMutex.
SetCurrent(r) ==
  /\ mutex[r] = Nobody /\ Step(r, "unlocked", "current")
  /\ UNCHANGED <<displays, display, windowPc, locks, direct>>

\* A GL call of the program begins and ends.  It works in the pipe context, with
\* none of the renderer's locks.
Render(r) ==
  /\ Step(r, "current", "rendering") \/ Step(r, "rendering", "current")
  /\ UNCHANGED <<displays, display, windowPc, locks, direct>>

\* SwapBuffers: fMutex, and the frame is finished and read back.
Swap(r) ==
  /\ mutex[r] = Nobody /\ Step(r, "current", "presenting")
  /\ mutex' = [mutex EXCEPT ![r] = "program"]
  /\ UNCHANGED <<displays, display, windowPc, info, looper, direct>>

\* LockLooperWithTimeout: the looper, or a frame that is not shown.
LooperOrTimeout(r) == TRUE

\* Display: a blit under fInfoLocker, or the view's looper.
Display(r) ==
  /\ Step(r, "presenting", "presented")
  /\ \/ direct[r] /\ info[r] = Nobody
     \/ ~direct[r] /\ LooperOrTimeout(r)
  /\ UNCHANGED <<displays, display, windowPc, locks, direct>>

\* The end of SwapBuffers: fMutex is given up.
Swapped(r) ==
  /\ Step(r, "presented", "current")
  /\ mutex' = [mutex EXCEPT ![r] = Nobody]
  /\ UNCHANGED <<displays, display, windowPc, info, looper, direct>>

\* UnlockGL: SetCurrentContext(false).  A single buffered view swaps first.
UnlockGL(r) ==
  /\ mutex[r] = Nobody /\ Step(r, "current", "idle")
  /\ UNCHANGED <<displays, display, windowPc, locks, direct>>

-----------------------------------------------------------------------------
(***************************************************************************)
(* The window's thread, and the app_server's.                              *)
(***************************************************************************)
\* A message to the window: to draw the view or that it was resized.  Before the
\* context is there Draw returns at once.
Message(r, what) ==
  /\ windowPc[r] = "idle" /\ ~looper[r]
  /\ program[r] \notin {"none", "built", "failed"}
  /\ windowPc' = [windowPc EXCEPT ![r] = what]
  /\ looper' = [looper EXCEPT ![r] = TRUE]
  /\ UNCHANGED <<displays, display, program, mutex, info, direct>>

\* FrameResized, under fInfoLocker.
FrameResized(r) ==
  /\ windowPc[r] = "resize" /\ info[r] = Nobody
  /\ windowPc' = [windowPc EXCEPT ![r] = "idle"]
  /\ looper' = [looper EXCEPT ![r] = FALSE]
  /\ UNCHANGED <<displays, display, program, mutex, info, direct>>

\* Draw has fMutex and reads the front buffer back.
Draw(r) ==
  /\ windowPc[r] = "draw" /\ mutex[r] = Nobody
  /\ windowPc' = [windowPc EXCEPT ![r] = "presenting"]
  /\ mutex' = [mutex EXCEPT ![r] = "window"]
  /\ UNCHANGED <<displays, display, program, info, looper, direct>>

\* Display of the window's own thread: it has the looper already.
Drawn(r) ==
  /\ windowPc[r] = "presenting" /\ (direct[r] => info[r] = Nobody)
  /\ windowPc' = [windowPc EXCEPT ![r] = "idle"]
  /\ mutex' = [mutex EXCEPT ![r] = Nobody] /\ looper' = [looper EXCEPT ![r] = FALSE]
  /\ UNCHANGED <<displays, display, program, info, direct>>

\* DirectConnected and EnableDirectMode.
DirectConnected(r) ==
  /\ info[r] = Nobody /\ program[r] \notin {"none", "built", "failed"}
  /\ direct' = [direct EXCEPT ![r] = ~@]
  /\ UNCHANGED <<displays, display, program, windowPc, locks>>

ProgramStep(r) ==
  LeaveInfo(r) \/ SetCurrent(r) \/ Display(r) \/ Swapped(r)

WindowStep(r) == FrameResized(r) \/ Draw(r) \/ Drawn(r)

GLNext == \E r \in Renderers :
  \/ CreateDisplay(r) \/ CreateContext(r) \/ Delete(r)
  \/ LockGL(r) \/ Render(r) \/ Swap(r) \/ UnlockGL(r) \/ ProgramStep(r)
  \/ \E what \in {"draw", "resize"} : Message(r, what)
  \/ WindowStep(r) \/ DirectConnected(r)

GLSpec == GLInit /\ [][GLNext]_glVars

\* Locks are handed over in the order they were asked for, and threads that have
\* begun a call are scheduled.
FairSpec ==
  GLSpec /\ \A r \in Renderers : SF_glVars(ProgramStep(r)) /\ SF_glVars(WindowStep(r))

-----------------------------------------------------------------------------
(***************************************************************************)
(* Properties.                                                             *)
(***************************************************************************)
\* As long as no display failed to be made: each renderer's context is on the one
\* display there is, and the display goes with the last (CreateDisplay and
\* DestroyDisplay of GalliumContext.cpp count a failed one down twice).
DisplayLivesWhileUsed ==
  ~failed =>
    /\ alive = IF current = 0 THEN {} ELSE {current}
    /\ refs = Cardinality({r \in Renderers : program[r] # "none"})
    /\ \A r \in Renderers : display[r] \in alive \cup {0}

\* Draw, SwapBuffers, LockGL and FrameResized return, whatever the two threads hold
\* and wait for: the looper is locked before fMutex by one and after it by the
\* other, fInfoLocker is taken with and without fMutex.
CallsReturn ==
  \A r \in Renderers :
    /\ windowPc[r] # "idle" ~> windowPc[r] = "idle"
    /\ program[r] \in {"sized", "unlocked", "presenting", "presented"} ~>
         program[r] = "current"
=============================================================================
