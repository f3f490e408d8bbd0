\* Two threads, one context, a surface of a wl_egl_window with one shm buffer, and
\* one of a BWindow.
SPECIFICATION Spec
CONSTANTS
  t1 = t1
  t2 = t2
  s1 = s1
  s2 = s2
  None = None
  Threads = {t1, t2}
  Contexts = {c1}
  Surfaces = {s1, s2}
  Kind <- MCKind
  Sizes = {1, 2}
  BufferCount = 1
  MaxLeaked = 1
SYMMETRY ThreadSymmetry
INVARIANTS
  NothingFreedInUse CallbacksPointToSurfaces FrameNotOverwritten
CHECK_DEADLOCK FALSE
