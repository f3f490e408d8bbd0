----------------------------- MODULE EglSurfaces -----------------------------
(***************************************************************************)
(* EGL on Haiku: mesa/overlay/egl/egl_haiku.cpp.  The contexts and surfaces *)
(* of one display with their reference counts, what each thread has bound, *)
(* and the presentation of window surfaces, to a BView or through shm       *)
(* buffers to a Wayland compositor.                                        *)
(*                                                                         *)
(* An entry point holds DisplayLock from its first look to its return and  *)
(* so is one action.  SwapBuffers of a Wayland surface is several: the     *)
(* application resizes or destroys its wl_egl_window, and the compositor   *)
(* releases buffers, without that lock.  Mesa's part of EGL is external:   *)
(* _eglBindContext takes a reference of each object it binds and passes    *)
(* those of the objects bound before to its caller.                        *)
(***************************************************************************)
EXTENDS Integers, FiniteSets, FiniteSetsExt

CONSTANTS
  Threads, Contexts, Surfaces, None,
  Kind,         \* what each surface is made for: "pbuffer", "view" or "wayland"
  Sizes,        \* sizes a window may have; a size stands for width and height
  BufferCount,  \* HAIKU_WL_BUFFER_COUNT
  MaxLeaked     \* bound: references nobody has, when an object is bound again

ASSUME EglAssumption ==
  /\ None \notin Threads \cup Contexts \cup Surfaces /\ IsFiniteSet(Threads)
  /\ Contexts \cap Surfaces = {}
  /\ Kind \in [Surfaces -> {"pbuffer", "view", "wayland"}]
  /\ Sizes \subseteq Nat \ {0} /\ BufferCount \in Nat \ {0} /\ MaxLeaked \in Nat

Buffers == 0 .. BufferCount - 1
Objects == Contexts \cup Surfaces
Unbound == [ctx |-> None, draw |-> None, read |-> None]

VARIABLES
  display,   \* haiku_egl_display: "live", or "gone" after eglTerminate
  linked,    \* objects with a handle
  refs,      \* references of each object; it exists while there is one
  bound,     \* per thread: the context and surfaces that are current
  surface,   \* per surface: [state, window, size, texture, stale, map, busy]
  hgl,       \* per context: the size its hgl_context has
  swap,      \* the swap of a Wayland surface that is on its way, or None
  window,    \* the wl_egl_window: [exists, size, private]
  server,    \* <<surface, buffer>> the compositor may read
  released,  \* release events that were not dispatched
  fate       \* "runs", or what killed the program

shm    == <<server, released>>
vars   == <<display, linked, refs, bound, surface, hgl, swap, window,
            shm, fate>>

\* A surface that has just been created: nothing drawn, no shm buffers.
\* stale: its stamp is newer than what the state tracker validated.
NewSurface(s, size) ==
  [state |-> "made", window |-> Kind[s] = "wayland", size |-> size, texture |-> 0,
   stale |-> TRUE, map |-> 0, busy |-> {}]

NoSurface ==
  [state |-> "none", window |-> FALSE, size |-> 0, texture |-> 0, stale |-> FALSE,
   map |-> 0, busy |-> {}]

\* A surface that was freed.  Its name is not used again.
Gone == [NoSurface EXCEPT !.state = "gone"]

Init ==
  /\ display = "live" /\ linked = {} /\ swap = None
  /\ refs = [o \in Objects |-> 0] /\ bound = [t \in Threads |-> Unbound]
  /\ surface = [s \in Surfaces |-> NoSurface] /\ hgl = [c \in Contexts |-> 0]
  /\ window \in {[exists |-> TRUE, size |-> n, private |-> None] : n \in Sizes}
  /\ server = {} /\ released = {} /\ fate = "runs"

\* A thread may enter: nobody is inside, and the program is alive.
Enter == swap = None /\ display = "live" /\ fate = "runs"

-----------------------------------------------------------------------------
(***************************************************************************)
(* Objects.                                                                *)
(***************************************************************************)
\* What a binding refers to, with how often: draw and read count each.
Times(b, o) == Cardinality({part \in DOMAIN b : b[part] = o})

\* The references that are accounted for: the handle and what threads have bound.
Uses(o) ==
  (IF o \in linked THEN 1 ELSE 0)
  + Cardinality({p \in Threads \X {"ctx", "draw", "read"} : bound[p[1]][p[2]] = o})

\* haiku_create_context.  One that fails gives everything back.
CreateContext(c) ==
  /\ Enter /\ refs[c] = 0
  /\ refs' = [refs EXCEPT ![c] = 1] /\ linked' = linked \cup {c}
  /\ hgl' = [hgl EXCEPT ![c] = 0]
  /\ UNCHANGED <<display, bound, surface, swap, window, shm, fate>>

\* haiku_create_pbuffer_surface, and haiku_create_window_surface for a BWindow.
CreateSurface(s) ==
  /\ Enter /\ surface[s].state = "none"
  /\ Kind[s] # "wayland"
  /\ \E n \in Sizes : surface' = [surface EXCEPT ![s] = NewSurface(s, n)]
  /\ refs' = [refs EXCEPT ![s] = 1] /\ linked' = linked \cup {s}
  /\ UNCHANGED <<display, bound, hgl, swap, window, shm, fate>>

\* haiku_create_window_surface for a wl_egl_window, which must not be busy.  When
\* init_wayland_display finds no compositor, nothing is changed.
CreateWaylandSurface(s) ==
  /\ Enter /\ surface[s].state = "none" /\ Kind[s] = "wayland"
  /\ window.exists /\ window.private = None
  /\ surface' = [surface EXCEPT ![s] = NewSurface(s, window.size)]
  /\ window' = [window EXCEPT !.private = s]
  /\ refs' = [refs EXCEPT ![s] = 1] /\ linked' = linked \cup {s}
  /\ UNCHANGED <<display, bound, hgl, swap, shm, fate>>

\* The objects whose last reference goes when count are left.
Freed(count) == {o \in Objects : refs[o] > 0 /\ count[o] = 0}

\* Variant with a bug: the window keeps the callbacks of a surface that is gone.
ForgetKeepingCallbacks(count, f) ==
  LET gone == Freed(count) IN
    /\ refs' = count
    /\ surface' = [s \in Surfaces |-> IF s \in gone THEN Gone ELSE f[s]]
    /\ server' = {b \in server : b[1] \notin gone}
    /\ released' = {b \in released : b[1] \notin gone}
    /\ UNCHANGED window

\* haiku_destroy_surface and haiku_destroy_context once count are left: what has
\* no reference goes, with its shm buffers and the callbacks of its window.
Forget(count, f) ==
  LET gone == Freed(count) IN
    /\ refs' = count
    /\ surface' = [s \in Surfaces |-> IF s \in gone THEN Gone ELSE f[s]]
    /\ server' = {b \in server : b[1] \notin gone}
    /\ released' = {b \in released : b[1] \notin gone}
    /\ window' = IF window.private \in gone /\ surface[window.private].window
                 THEN [window EXCEPT !.private = None] ELSE window

\* eglDestroyContext, eglDestroySurface: the handle's reference.
Destroy(o) ==
  /\ Enter /\ o \in linked
  /\ linked' = linked \ {o} /\ Forget([refs EXCEPT ![o] = @ - 1], surface)
  /\ UNCHANGED <<display, bound, hgl, swap, fate>>

\* haiku_terminate: the references of all handles; what is bound stays.
Terminate ==
  /\ Enter
  /\ Forget([o \in Objects |-> refs[o] - (IF o \in linked THEN 1 ELSE 0)], surface)
  /\ linked' = {} /\ display' = "gone"
  /\ UNCHANGED <<bound, hgl, swap, fate>>

-----------------------------------------------------------------------------
(***************************************************************************)
(* Binding.                                                                *)
(***************************************************************************)
\* What _eglBindContext accepts: nothing that another thread has bound.
Bindable(t, b) ==
  /\ b.ctx \in linked \cup {None} /\ {b.draw, b.read} \subseteq linked \cup {None}
  /\ b.draw = None <=> b.read = None
  /\ b.ctx = None => b.draw = None
  /\ \A u \in Threads \ {t}, part \in {"ctx", "draw", "read"} :
       bound[u][part] = None \/ \A p \in {"ctx", "draw", "read"} : bound[u][part] # b[p]

\* The references after a bind: one for each part of b.
Counted(b) == [o \in Objects |-> refs[o] + Times(b, o)]

\* Variant with a bug: the context is given back a second time.
PutsTwice(old) ==
  [o \in Objects |-> Times(old, o) + (IF o # None /\ o = old.ctx THEN 1 ELSE 0)]

\* What haiku_make_current gives back of the old binding: draw and read once when
\* they are the same, although the binding has two references.
Puts(old) ==
  [o \in Objects |-> IF o \in {old.ctx, old.draw, old.read} THEN 1 ELSE 0]

\* The state tracker validates a drawable whose stamp changed: its textures get
\* the size the context has, which need not be that of the surface.
Validated(f, s, size) ==
  IF s # None /\ f[s].stale
  THEN [f EXCEPT ![s].texture = size, ![s].stale = FALSE] ELSE f

\* haiku_make_current.  The state tracker may refuse: the old binding is then put
\* back, with references of its own, and none is given back.
MakeCurrent(t, b) ==
  LET old   == bound[t]
      sizes == IF b.draw = None THEN hgl
               ELSE [hgl EXCEPT ![b.ctx] = surface[b.draw].size]
  IN /\ Enter /\ Bindable(t, b)
     /\ \A o \in Objects : Times(b, o) > 0 => refs[o] - Uses(o) < MaxLeaked
     /\ hgl' = sizes
     /\ \/ /\ bound' = [bound EXCEPT ![t] = b]
           /\ Forget([o \in Objects |-> refs[o] + Times(b, o) - Puts(old)[o]],
                     IF b.ctx = None THEN surface
                     ELSE Validated(Validated(surface, b.draw, sizes[b.ctx]),
                                    b.read, sizes[b.ctx]))
        \/ /\ b.ctx # None /\ \A o \in Objects : Times(old, o) > 0 => refs[o] - Uses(o) < MaxLeaked
           /\ refs' = [o \in Objects |-> refs[o] + Times(b, o) + Times(old, o)]
           /\ UNCHANGED <<bound, surface, window, shm>>
     /\ UNCHANGED <<display, linked, swap, fate>>

\* haiku_make_current of nothing when the display was terminated: DriverData is
\* NULL, and is used.
ReleaseAfterTerminate(t) ==
  /\ display = "gone" /\ fate = "runs" /\ bound[t] # Unbound
  /\ fate' = "no display"
  /\ UNCHANGED <<display, linked, refs, bound, surface, hgl, swap,
                 window, shm>>

\* Any GL call validates the drawables; it takes no lock of EGL's.
Render(t) ==
  /\ display = "live" /\ fate = "runs" /\ bound[t].draw # None
  /\ swap # None => swap.thread # t
  /\ surface' = Validated(Validated(surface, bound[t].draw, hgl[bound[t].ctx]),
                          bound[t].read, hgl[bound[t].ctx])
  /\ UNCHANGED <<display, linked, refs, bound, hgl, swap, window, shm,
                 fate>>

-----------------------------------------------------------------------------
(***************************************************************************)
(* Presentation.  The swap of a pbuffer only flushes.                      *)
(***************************************************************************)
\* haiku_swap_buffers of a BWindow's surface: the frame is copied, and the size
\* the window has now is for the next.
SwapView(t, n) ==
  LET s == bound[t].draw IN
  /\ Enter /\ s \in linked /\ Kind[s] = "view" /\ n # surface[s].size
  /\ surface' = [surface EXCEPT ![s].size = n, ![s].stale = TRUE]
  /\ hgl' = [hgl EXCEPT ![bound[t].ctx] = n]
  /\ UNCHANGED <<display, linked, refs, bound, swap, window, shm, fate>>

\* haiku_swap_buffers of a Wayland surface, up to the frame being finished.
SwapWayland(t) ==
  LET s == bound[t].draw IN
  /\ Enter /\ s \in linked /\ Kind[s] = "wayland" /\ surface[s].window
  /\ surface' = IF window.size = surface[s].size THEN surface
                ELSE [surface EXCEPT ![s].size = window.size, ![s].stale = TRUE]
  /\ hgl' = [hgl EXCEPT ![bound[t].ctx] = window.size]
  /\ swap' = [thread |-> t, surface |-> s, step |-> "present", buffer |-> 0]
  /\ UNCHANGED <<display, linked, refs, bound, window, shm, fate>>

\* The surface with the release events in d dispatched.
Dispatched(s, f, d) == [f EXCEPT !.busy = @ \ {b[2] : b \in {x \in d : x[1] = s}}]

\* Variant with a bug: buffers are taken whether they are busy or not.
AnyBuffer(f) == Buffers

\* The buffers a frame may go into.  The code takes them in turn.
Free(f) == Buffers \ f.busy

\* Goes on with a buffer that is free, or with step else.
Pick(s, f, else) ==
  IF Free(f) = {}
  THEN /\ surface' = [surface EXCEPT ![s] = f]
       /\ swap' = IF else = None THEN None ELSE [swap EXCEPT !.step = else]
  ELSE \E i \in Free(f) :
         /\ surface' = [surface EXCEPT ![s] = f]
         /\ swap' = [swap EXCEPT !.step = "attach", !.buffer = i]

\* present_wayland up to its roundtrip: events that were read are dispatched,
\* buffers of another size replaced (destroy_wayland_buffers, then
\* create_wayland_buffers, which may fail), and a buffer chosen.
Present ==
  LET s == swap.surface
      f == surface[s]
  IN /\ swap # None /\ swap.step = "present" /\ fate = "runs"
     /\ \/ (~f.window \/ f.texture = 0) /\ swap' = None /\ UNCHANGED <<surface, shm>>
        \/ /\ f.window /\ f.texture # 0 /\ f.map = f.texture
           /\ \E d \in SUBSET released :
                /\ released' = released \ d /\ Pick(s, Dispatched(s, f, d), "wait")
           /\ UNCHANGED server
        \/ /\ f.window /\ f.texture # 0 /\ f.map # f.texture
           /\ server' = {b \in server : b[1] # s}
           /\ released' = {b \in released : b[1] # s}
           /\ \/ Pick(s, [f EXCEPT !.map = f.texture, !.busy = {}], "wait")
              \/ /\ surface' = [surface EXCEPT ![s].map = 0, ![s].busy = {}]
                 /\ swap' = None
     /\ UNCHANGED <<display, linked, refs, bound, hgl, window, fate>>

\* The roundtrip with every buffer busy: all releases are dispatched, and there is
\* one more pass.  A roundtrip may fail.
Retry ==
  LET s == swap.surface IN
  /\ swap # None /\ swap.step = "wait" /\ fate = "runs"
  /\ \/ /\ released' = {} /\ Pick(s, Dispatched(s, surface[s], released), None)
     \/ swap' = None /\ UNCHANGED <<surface, released>>
  /\ UNCHANGED <<display, linked, refs, bound, hgl, window, server, fate>>

\* The rest of present_wayland: the readback, which may fail, then attach, damage
\* and commit through wl_window, which nothing has kept.
Attach ==
  LET s == swap.surface IN
  /\ swap # None /\ swap.step = "attach" /\ fate = "runs"
  /\ \/ swap' = None /\ UNCHANGED <<surface, server, fate>>
     \/ /\ surface[s].window /\ swap' = None /\ UNCHANGED fate
        /\ surface' = [surface EXCEPT ![s].busy = @ \cup {swap.buffer}]
        /\ server' = server \cup {<<s, swap.buffer>>}
     \/ ~surface[s].window /\ fate' = "no window" /\ UNCHANGED <<surface, server, swap>>
  /\ UNCHANGED <<display, linked, refs, bound, hgl, window, released>>

-----------------------------------------------------------------------------
(***************************************************************************)
(* The application's windows and the compositor, which wait for no lock.   *)
(***************************************************************************)
\* wl_egl_window_resize, with wayland_window_resized.
Resize(n) ==
  /\ display = "live" /\ fate = "runs" /\ window.exists /\ n # window.size
  /\ window' = [window EXCEPT !.size = n]
  /\ surface' = IF window.private = None THEN surface
                ELSE [surface EXCEPT ![window.private].size = n,
                                     ![window.private].stale = TRUE]
  /\ UNCHANGED <<display, linked, refs, bound, hgl, swap, shm, fate>>

\* wl_egl_window_destroy, with wayland_window_destroyed.
DestroyWindow ==
  /\ display = "live" /\ fate = "runs" /\ window.exists
  /\ window' = [window EXCEPT !.exists = FALSE, !.private = None]
  /\ surface' = IF window.private = None THEN surface
                ELSE [surface EXCEPT ![window.private].window = FALSE]
  /\ UNCHANGED <<display, linked, refs, bound, hgl, swap, shm, fate>>

\* wl_buffer.release: the compositor has done with a buffer.
Release(b) ==
  /\ display = "live" /\ b \in server /\ server' = server \ {b} /\ released' = released \cup {b}
  /\ UNCHANGED <<display, linked, refs, bound, surface, hgl, swap, window,
                 fate>>

Bindings == [ctx : Contexts \cup {None}, draw : Surfaces \cup {None},
             read : Surfaces \cup {None}]

Next ==
  \/ \E c \in Contexts : CreateContext(c)
  \/ \E s \in Surfaces : CreateSurface(s) \/ CreateWaylandSurface(s)
  \/ \E o \in Objects : Destroy(o)
  \/ Terminate
  \/ \E t \in Threads :
       \/ \E b \in Bindings : MakeCurrent(t, b)
       \/ ReleaseAfterTerminate(t) \/ Render(t) \/ SwapWayland(t)
       \/ \E n \in Sizes : SwapView(t, n)
  \/ Present \/ Retry \/ Attach
  \/ \E n \in Sizes : Resize(n)
  \/ DestroyWindow
  \/ \E b \in server : Release(b)

Spec == Init /\ [][Next]_vars

-----------------------------------------------------------------------------
(***************************************************************************)
(* Properties.                                                             *)
(***************************************************************************)
\* An object has a reference for its handle and one for each place in a binding:
\* what a thread has bound outlives eglDestroySurface, eglDestroyContext, failed
\* and repeated calls of haiku_make_current, and eglTerminate.
NothingFreedInUse == \A o \in Objects : refs[o] >= Uses(o)

\* The callbacks of a wl_egl_window get a surface that exists and is the window's:
\* haiku_destroy_surface takes them back, whichever call it was that gave up the
\* last reference.
CallbacksPointToSurfaces ==
  window.private # None =>
    /\ window.exists /\ refs[window.private] > 0
    /\ Kind[window.private] = "wayland" /\ surface[window.private].window

\* present_wayland never reads a frame back into a buffer the compositor still
\* shows, however late its releases are dispatched and whatever was replaced.
FrameNotOverwritten ==
  swap # None /\ swap.step = "attach" => <<swap.surface, swap.buffer>> \notin server
=============================================================================
