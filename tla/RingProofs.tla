----------------------------- MODULE RingProofs -----------------------------
(***************************************************************************)
(* The locks of the 2D engine keep threads apart, for every number of      *)
(* threads, of signals and of cells: a wait that a signal ends leaves the  *)
(* counter too high, and a later release then leaves its semaphore to the   *)
(* next who comes.  So one thread at a time writes the ring, and the engine *)
(* meets what was queued: LostInv says what the ring holds, that the engine *)
(* was told of whole commands, and that what is not submitted yet is of the *)
(* block of the one thread that has the lock, and fits.  From there to the  *)
(* overlay: OverlayInv says where the commands on their way and the rest of *)
(* the player's program will leave it.                                     *)
(***************************************************************************)
EXTENDS Ring, Programs

TypeOK ==
  /\ LockTypeOK
  /\ todo \in [Threads -> Seq(Ops)]
  /\ trespassed \in BOOLEAN

\* The benaphore: who has it, what its semaphore holds and what is counted.
Exclusive(l) ==
  /\ AtMostOne(lock[l].holding)
  /\ lock[l].sem \in {0, 1}
  /\ lock[l].count >= 0
  /\ lock[l].holding # {} => lock[l].sem = 0 /\ lock[l].count >= 1
  /\ lock[l].sem = 1 => lock[l].count >= 1

\* A program releases a lock only after it has acquired it.
Enters(x, l) == x = Op("enter", l)
Leaves(x, l) == \/ x = Op("leave", l)
                \/ l = "ring" /\ x.op = "submit"

Bracketed(s, has, l) ==
  \A i \in 1 .. Len(s) : Leaves(s[i], l) =>
    \/ \E j \in 1 .. i - 1 :
         Enters(s[j], l) /\ \A k \in j + 1 .. i - 1 : ~Leaves(s[k], l)
    \/ has /\ \A k \in 1 .. i - 1 : ~Leaves(s[k], l)

AllBracketed(l) == \A t \in Threads : Bracketed(todo[t], t \in lock[l].holding, l)

IInv ==
  /\ TypeOK
  /\ Exclusive("engine") /\ AllBracketed("engine")
  /\ ~trespassed => Exclusive("ring") /\ AllBracketed("ring")

-----------------------------------------------------------------------------
(* Programs. *)

LEMMA OpType ==
  /\ \A l \in Locks : Op("enter", l) \in Ops /\ Op("leave", l) \in Ops
  /\ \A c \in Commands : Queue(c) \in Ops
  /\ \A b \in Buffers \cup {None} : Op("current", b) \in Ops
  /\ \A b \in Buffers : Op("free", b) \in Ops
  /\ Do("submit") \in Ops
BY DEF Op, Queue, Do, Ops

LEMMA TailType ==
  ASSUME NEW s \in Seq(Ops), s # <<>>
  PROVE  /\ Tail(s) \in Seq(Ops) /\ Len(Tail(s)) = Len(s) - 1 /\ Len(s) \in Nat
         /\ Len(s) >= 1 /\ Head(s) = s[1]
         /\ \A i \in 1 .. Len(s) - 1 : Tail(s)[i] = s[i + 1]
  OBVIOUS

\* What is left of a program, when its first step touched no lock ...
LEMMA BracketedTail ==
  ASSUME NEW s \in Seq(Ops), s # <<>>, NEW has \in BOOLEAN, NEW l,
         Bracketed(s, has, l), ~Enters(s[1], l), ~Leaves(s[1], l)
  PROVE  Bracketed(Tail(s), has, l)
<1> SUFFICES ASSUME NEW i \in 1 .. Len(Tail(s)), Leaves(Tail(s)[i], l)
             PROVE  \/ \E j \in 1 .. i - 1 :
                         /\ Enters(Tail(s)[j], l)
                         /\ \A k \in j + 1 .. i - 1 : ~Leaves(Tail(s)[k], l)
                    \/ has /\ \A k \in 1 .. i - 1 : ~Leaves(Tail(s)[k], l)
  BY DEF Bracketed
<1>1. /\ Len(Tail(s)) = Len(s) - 1 /\ Len(s) \in Nat
      /\ \A k \in 1 .. Len(s) - 1 : Tail(s)[k] = s[k + 1]
  BY TailType
<1>2. i + 1 \in 1 .. Len(s) /\ Leaves(s[i + 1], l)
  BY <1>1
<1>3. CASE has /\ \A k \in 1 .. i : ~Leaves(s[k], l)
  BY <1>1, <1>3
<1>4. CASE \E j \in 1 .. i :
             Enters(s[j], l) /\ \A k \in j + 1 .. i : ~Leaves(s[k], l)
  <2>1. PICK j \in 1 .. i :
               Enters(s[j], l) /\ \A k \in j + 1 .. i : ~Leaves(s[k], l)
    BY <1>4
  <2>2. j # 1
    BY <2>1
  <2>3. j - 1 \in 1 .. i - 1 /\ Enters(Tail(s)[j - 1], l)
    BY <1>1, <2>1, <2>2
  <2>4. \A k \in (j - 1) + 1 .. i - 1 : ~Leaves(Tail(s)[k], l)
    BY <1>1, <2>1, <2>2
  <2> QED BY <2>3, <2>4
<1> QED BY <1>2, <1>3, <1>4 DEF Bracketed

\* ... when it acquired the lock ...
LEMMA BracketedEnter ==
  ASSUME NEW s \in Seq(Ops), s # <<>>, NEW has \in BOOLEAN, NEW l,
         Bracketed(s, has, l), ~Leaves(s[1], l)
  PROVE  Bracketed(Tail(s), TRUE, l)
<1> SUFFICES ASSUME NEW i \in 1 .. Len(Tail(s)), Leaves(Tail(s)[i], l)
             PROVE  \/ \E j \in 1 .. i - 1 :
                         /\ Enters(Tail(s)[j], l)
                         /\ \A k \in j + 1 .. i - 1 : ~Leaves(Tail(s)[k], l)
                    \/ \A k \in 1 .. i - 1 : ~Leaves(Tail(s)[k], l)
  BY DEF Bracketed
<1>1. /\ Len(Tail(s)) = Len(s) - 1 /\ Len(s) \in Nat
      /\ \A k \in 1 .. Len(s) - 1 : Tail(s)[k] = s[k + 1]
  BY TailType
<1>2. i + 1 \in 1 .. Len(s) /\ Leaves(s[i + 1], l)
  BY <1>1
<1>3. CASE \A k \in 1 .. i : ~Leaves(s[k], l)
  BY <1>1, <1>3
<1>4. CASE \E j \in 1 .. i :
             Enters(s[j], l) /\ \A k \in j + 1 .. i : ~Leaves(s[k], l)
  <2>1. PICK j \in 1 .. i :
               Enters(s[j], l) /\ \A k \in j + 1 .. i : ~Leaves(s[k], l)
    BY <1>4
  <2>2. CASE j = 1
    BY <1>1, <2>1, <2>2
  <2>3. CASE j # 1
    <3>1. j - 1 \in 1 .. i - 1 /\ Enters(Tail(s)[j - 1], l)
      BY <1>1, <2>1, <2>3
    <3>2. \A k \in (j - 1) + 1 .. i - 1 : ~Leaves(Tail(s)[k], l)
      BY <1>1, <2>1, <2>3
    <3> QED BY <3>1, <3>2
  <2> QED BY <2>2, <2>3
<1> QED BY <1>2, <1>3, <1>4 DEF Bracketed

\* ... and when it released it, which only the one who has it can.
LEMMA BracketedLeave ==
  ASSUME NEW s \in Seq(Ops), s # <<>>, NEW has \in BOOLEAN, NEW l,
         Bracketed(s, has, l), Leaves(s[1], l)
  PROVE  has /\ Bracketed(Tail(s), FALSE, l)
<1>0. ~Enters(s[1], l)
  BY DEF Enters, Leaves, Op
<1>1. /\ Len(Tail(s)) = Len(s) - 1 /\ Len(s) \in Nat /\ Len(s) >= 1
      /\ \A k \in 1 .. Len(s) - 1 : Tail(s)[k] = s[k + 1]
  BY TailType
<1>2. has
  BY <1>1 DEF Bracketed
<1>3. ASSUME NEW i \in 1 .. Len(Tail(s)), Leaves(Tail(s)[i], l)
      PROVE  \E j \in 1 .. i - 1 :
               /\ Enters(Tail(s)[j], l)
               /\ \A k \in j + 1 .. i - 1 : ~Leaves(Tail(s)[k], l)
  <2>1. i + 1 \in 1 .. Len(s) /\ Leaves(s[i + 1], l)
    BY <1>1, <1>3
  <2>2. ~ \A k \in 1 .. i : ~Leaves(s[k], l)
    BY <1>1
  <2>3. PICK j \in 1 .. i :
               Enters(s[j], l) /\ \A k \in j + 1 .. i : ~Leaves(s[k], l)
    BY <2>1, <2>2 DEF Bracketed
  <2>4. j # 1
    BY <1>0, <2>3
  <2>5. j - 1 \in 1 .. i - 1 /\ Enters(Tail(s)[j - 1], l)
    BY <1>1, <2>3, <2>4
  <2>6. \A k \in (j - 1) + 1 .. i - 1 : ~Leaves(Tail(s)[k], l)
    BY <1>1, <2>3, <2>4
  <2> QED BY <2>5, <2>6
<1> QED BY <1>2, <1>3 DEF Bracketed

Quiet(s, l) == \A i \in 1 .. Len(s) : ~Leaves(s[i], l)

LEMMA QuietBracketed ==
  ASSUME NEW s, NEW has, NEW l, Quiet(s, l)
  PROVE  Bracketed(s, has, l)
BY DEF Quiet, Bracketed

LEMMA QuietConcat ==
  ASSUME NEW s \in Seq(Ops), NEW t \in Seq(Ops), NEW l, Quiet(s, l), Quiet(t, l)
  PROVE  s \o t \in Seq(Ops) /\ Quiet(s \o t, l)
BY DEF Quiet

\* What one program brackets and what the next does, both together do.
LEMMA BracketedConcat ==
  ASSUME NEW s \in Seq(Ops), NEW t \in Seq(Ops), NEW l,
         Bracketed(s, FALSE, l), Bracketed(t, FALSE, l)
  PROVE  Bracketed(s \o t, FALSE, l)
<1> DEFINE st == s \o t
<1>1. /\ Len(s) \in Nat /\ Len(t) \in Nat /\ Len(st) = Len(s) + Len(t)
      /\ \A i \in 1 .. Len(s) : st[i] = s[i]
      /\ \A i \in 1 .. Len(t) : st[i + Len(s)] = t[i]
  OBVIOUS
<1> SUFFICES ASSUME NEW i \in 1 .. Len(st), Leaves(st[i], l)
             PROVE  \E j \in 1 .. i - 1 :
                      Enters(st[j], l) /\ \A k \in j + 1 .. i - 1 : ~Leaves(st[k], l)
  BY DEF Bracketed
<1> HIDE DEF st
<1>2. CASE i \in 1 .. Len(s)
  <2>1. PICK j \in 1 .. i - 1 :
               Enters(s[j], l) /\ \A k \in j + 1 .. i - 1 : ~Leaves(s[k], l)
    BY <1>1, <1>2 DEF Bracketed
  <2>2. st[j] = s[j] /\ \A k \in j + 1 .. i - 1 : st[k] = s[k]
    <3>1. 1 .. i - 1 \subseteq 1 .. Len(s) /\ j + 1 .. i - 1 \subseteq 1 .. Len(s)
      BY <1>1, <1>2, <2>1
    <3> QED
      BY <1>1, <2>1, <3>1
  <2> QED BY <2>1, <2>2
<1>3. CASE i \notin 1 .. Len(s)
  <2> DEFINE m == i - Len(s)
  <2>1. m \in 1 .. Len(t) /\ i = m + Len(s) /\ Leaves(t[m], l)
    BY <1>1, <1>3
  <2> HIDE DEF m
  <2>2. PICK j \in 1 .. m - 1 :
               Enters(t[j], l) /\ \A k \in j + 1 .. m - 1 : ~Leaves(t[k], l)
    BY <1>1, <2>1 DEF Bracketed
  <2>3. j + Len(s) \in 1 .. i - 1 /\ j \in 1 .. Len(t)
    BY <1>1, <2>1, <2>2
  <2>5. Enters(st[j + Len(s)], l)
    BY <1>1, <2>2, <2>3
  <2>4. ASSUME NEW k \in j + Len(s) + 1 .. i - 1
        PROVE  ~Leaves(st[k], l)
    <3>1. k - Len(s) \in j + 1 .. m - 1 /\ k - Len(s) \in 1 .. Len(t)
      BY <1>1, <2>1, <2>2
    <3>2. st[(k - Len(s)) + Len(s)] = t[k - Len(s)] /\ (k - Len(s)) + Len(s) = k
      BY <1>1, <3>1
    <3> QED BY <2>2, <3>1, <3>2
  <2> QED BY <2>3, <2>4, <2>5
<1> QED BY <1>2, <1>3

\* A lock acquired, work that does not release it, and its release.
LEMMA Wrapped ==
  ASSUME NEW e \in Ops, NEW s \in Seq(Ops), NEW x \in Ops, NEW l,
         Enters(e, l), Quiet(s, l)
  PROVE  /\ (<<e>> \o s) \o <<x>> \in Seq(Ops)
         /\ Bracketed((<<e>> \o s) \o <<x>>, FALSE, l)
<1> DEFINE w == (<<e>> \o s) \o <<x>>
<1>1. /\ w \in Seq(Ops) /\ Len(s) \in Nat /\ Len(w) = Len(s) + 2 /\ w[1] = e
      /\ \A i \in 2 .. Len(s) + 1 : w[i] = s[i - 1]
  OBVIOUS
<1> HIDE DEF w
<1>2. \A i \in 2 .. Len(s) + 1 : ~Leaves(w[i], l)
  BY <1>1 DEF Quiet
<1>3. ~Leaves(w[1], l)
  BY <1>1 DEF Enters, Leaves, Op
<1>4. Bracketed(w, FALSE, l)
  BY <1>1, <1>2, <1>3 DEF Bracketed
<1> QED BY <1>1, <1>4 DEF w

LEMMA BlockBracketed ==
  ASSUME NEW cs \in Seq(Commands), NEW more \in Seq(Ops),
         Quiet(more, "ring"), Quiet(more, "engine")
  PROVE  /\ Block(cs, more) \in Seq(Ops)
         /\ Bracketed(Block(cs, more), FALSE, "ring")
         /\ Quiet(Block(cs, more), "engine")
<1> DEFINE puts == [i \in DOMAIN cs |-> Queue(cs[i])]
           e == Op("enter", "ring")
           x == Do("submit")
<1>1. /\ e \in Ops /\ x \in Ops
      /\ \A c \in Commands : Queue(c) \in Ops
  BY OpType, RingAssumption
<1>2. puts \in Seq(Ops) /\ Len(puts) = Len(cs)
      /\ \A i \in 1 .. Len(puts) : puts[i] = Queue(cs[i])
  BY <1>1
<1>3. \A l \in {"ring", "engine"} : Quiet(puts, l)
  BY <1>2 DEF Quiet, Leaves, Queue, Op
<1> DEFINE work == puts \o more
<1>4. work \in Seq(Ops) /\ Quiet(work, "ring") /\ Quiet(work, "engine")
  BY <1>2, <1>3, QuietConcat
<1>5. Block(cs, more) = (<<e>> \o work) \o <<x>>
  BY <1>1, <1>2, ConcatAssociative, <<e>> \in Seq(Ops) DEF Block
<1>6. Enters(e, "ring")
  BY DEF Enters
<1> HIDE DEF work, puts
<1>7. /\ (<<e>> \o work) \o <<x>> \in Seq(Ops)
      /\ Bracketed((<<e>> \o work) \o <<x>>, FALSE, "ring")
  BY <1>1, <1>4, <1>6, Wrapped
<1>8. Quiet(<<e>>, "engine") /\ Quiet(<<x>>, "engine")
  BY DEF Quiet, Leaves, Op, Do
<1>9. Quiet((<<e>> \o work) \o <<x>>, "engine")
  BY <1>1, <1>4, <1>8, QuietConcat, <<e>> \in Seq(Ops), <<x>> \in Seq(Ops)
<1> QED BY <1>5, <1>7, <1>9

\* What a call may have queued: it releases what it acquired, and no more.
Fine(p) == /\ p \in Seq(Ops)
           /\ Bracketed(p, FALSE, "ring")
           /\ Bracketed(p, FALSE, "engine")

LEMMA QueuedFine ==
  ASSUME NEW cs \in Seq(Commands)
  PROVE  Fine(Queued(cs)) /\ Quiet(Queued(cs), "engine")
<1>1. Quiet(<<>>, "ring") /\ Quiet(<<>>, "engine")
  BY DEF Quiet
<1> QED BY <1>1, BlockBracketed, QuietBracketed, <<>> \in Seq(Ops) DEF Queued, Fine

LEMMA FineConcat ==
  ASSUME NEW p, NEW q, Fine(p), Fine(q)
  PROVE  Fine(p \o q)
<1>1. p \in Seq(Ops) /\ q \in Seq(Ops)
  BY DEF Fine
<1>2. p \o q \in Seq(Ops)
  BY <1>1
<1>3. \A l \in {"ring", "engine"} : Bracketed(p \o q, FALSE, l)
  BY <1>1, BracketedConcat DEF Fine
<1> QED BY <1>2, <1>3 DEF Fine

LEMMA PaintFine ==
  ASSUME NEW sync \in BOOLEAN, NEW count \in Fills
  PROVE  Fine(intel_acquire_engine(sync) \o intel_fill_rectangle(count)
              \o intel_release_engine)
<1> DEFINE e == Op("enter", "engine")
           x == Op("leave", "engine")
           W == IF sync THEN intel_wait_engine_idle ELSE <<>>
           F == intel_fill_rectangle(count)
<1>1. e \in Ops /\ x \in Ops /\ <<e>> \in Seq(Ops) /\ <<x>> \in Seq(Ops)
  BY OpType, RingAssumption
<1>2. Fine(F) /\ Quiet(F, "engine")
  <2>1. [i \in 1 .. count |-> "fill"] \in Seq(Commands)
    BY RingAssumption DEF Commands
  <2> QED BY <2>1, QueuedFine DEF intel_fill_rectangle
<1>3. Fine(W) /\ Quiet(W, "engine")
  <2>1. Fine(<<>>) /\ Quiet(<<>>, "engine")
    BY <<>> \in Seq(Ops) DEF Fine, Bracketed, Quiet
  <2>2. <<"flush">> \in Seq(Commands)
    BY DEF Commands
  <2> QED BY <2>1, <2>2, QueuedFine DEF intel_wait_engine_idle
<1> HIDE DEF W, F
<1> DEFINE work == W \o F
<1>4. Fine(work) /\ Quiet(work, "engine")
  BY <1>2, <1>3, FineConcat, QuietConcat DEF Fine
<1>5. intel_acquire_engine(sync) \o intel_fill_rectangle(count) \o intel_release_engine
      = (<<e>> \o work) \o <<x>>
  <2>1. (<<e>> \o W) \o F = <<e>> \o work
    BY <1>1, <1>2, <1>3, ConcatAssociative DEF Fine
  <2> QED BY <2>1 DEF intel_acquire_engine, intel_release_engine, W, F
<1> HIDE DEF work
<1>6. (<<e>> \o work) \o <<x>> \in Seq(Ops)
      /\ Bracketed((<<e>> \o work) \o <<x>>, FALSE, "engine")
  BY <1>1, <1>4, Wrapped DEF Fine, Enters
<1>7. Bracketed(<<e>>, FALSE, "ring") /\ Bracketed(<<x>>, FALSE, "ring")
  BY DEF Bracketed, Leaves, Op
<1>8. <<e>> \o work \in Seq(Ops) /\ Bracketed(<<e>> \o work, FALSE, "ring")
  <2>1. work \in Seq(Ops) /\ Bracketed(work, FALSE, "ring")
    BY <1>4 DEF Fine
  <2>2. <<e>> \o work \in Seq(Ops)
    BY <1>1, <2>1
  <2> QED BY <1>1, <1>7, <2>1, <2>2, BracketedConcat
<1>9. Bracketed((<<e>> \o work) \o <<x>>, FALSE, "ring")
  BY <1>1, <1>7, <1>8, BracketedConcat
<1> QED BY <1>5, <1>6, <1>9 DEF Fine

LEMMA SmallFine ==
  /\ Fine(<<>>)
  /\ \A b \in Buffers \cup {None} : Fine(<<Op("current", b)>>)
  /\ \A b \in Buffers : Fine(<<Op("free", b)>>)
<1>1. \A b \in Buffers \cup {None} : <<Op("current", b)>> \in Seq(Ops)
  BY OpType
<1>2. \A b \in Buffers : <<Op("free", b)>> \in Seq(Ops)
  BY OpType
<1> QED BY <1>1, <1>2, <<>> \in Seq(Ops) DEF Fine, Bracketed, Leaves, Op

LEMMA OverlayFine == Fine(show_overlay) /\ Fine(update_overlay) /\ Fine(hide_overlay)
<1>1. /\ <<"on", "flush">> \in Seq(Commands)
      /\ <<"flush", "wait", "continue", "wait", "flush">> \in Seq(Commands)
      /\ <<"flush", "wait", "continue", "wait", "off", "wait">> \in Seq(Commands)
  BY DEF Commands
<1>2. Fine(show_overlay) /\ Fine(update_overlay)
  BY <1>1, QueuedFine DEF show_overlay, update_overlay
<1>3. /\ <<Op("current", None)>> \in Seq(Ops)
      /\ Quiet(<<Op("current", None)>>, "ring") /\ Quiet(<<Op("current", None)>>, "engine")
  BY OpType DEF Quiet, Leaves, Op
<1>4. Fine(hide_overlay)
  BY <1>1, <1>3, BlockBracketed, QuietBracketed DEF hide_overlay, Fine
<1> QED BY <1>2, <1>4

-----------------------------------------------------------------------------
(* The benaphore. *)

Acquires(l, t) == \/ EnterFree(l, t) \/ EnterTaken(l, t)
                  \/ Granted(l, t) \/ Interrupted(l, t)

LEMMA AcquireType ==
  ASSUME LockTypeOK, NEW l \in Locks, NEW t \in Threads, Acquires(l, t)
  PROVE  /\ LockTypeOK'
         /\ \A m \in Locks \ {l} : lock'[m] = lock[m]
         /\ \A u \in Threads \ {t} : u \in lock'[l].holding <=> u \in lock[l].holding
         /\ EnterFree(l, t) \/ Granted(l, t) => t \in lock'[l].holding
         /\ EnterTaken(l, t) => lock'[l].holding = lock[l].holding
<1>0. /\ lock[l].count \in Int /\ lock[l].sem \in Int
      /\ lock[l].waiting \subseteq Threads /\ lock[l].holding \subseteq Threads
  BY DEF LockTypeOK
<1>1. CASE EnterFree(l, t)
  <2>1. lock' = [lock EXCEPT ![l] = [lock[l] EXCEPT !.count = lock[l].count + 1,
                                       !.holding = lock[l].holding \cup {t}]]
    BY <1>1 DEF EnterFree
  <2>2. lock[l].count + 1 \in Int /\ lock[l].holding \cup {t} \subseteq Threads
    BY <1>0
  <2>3. [lock[l] EXCEPT !.count = lock[l].count + 1,
                        !.holding = lock[l].holding \cup {t}]
          \in [count : Int, sem : Int,
              waiting : SUBSET Threads, holding : SUBSET Threads]
    BY <2>2 DEF LockTypeOK
  <2> QED BY <1>1, <2>1, <2>2, <2>3 DEF LockTypeOK, EnterTaken, EnterFree
<1>2. CASE EnterTaken(l, t)
  <2>1. lock' = [lock EXCEPT ![l] = [lock[l] EXCEPT !.count = lock[l].count + 1,
                                       !.waiting = lock[l].waiting \cup {t}]]
    BY <1>2 DEF EnterTaken
  <2>2. lock[l].count + 1 \in Int /\ lock[l].waiting \cup {t} \subseteq Threads
    BY <1>0
  <2>3. [lock[l] EXCEPT !.count = lock[l].count + 1,
                        !.waiting = lock[l].waiting \cup {t}]
          \in [count : Int, sem : Int,
              waiting : SUBSET Threads, holding : SUBSET Threads]
    BY <2>2 DEF LockTypeOK
  <2>4. ~EnterFree(l, t) /\ ~Granted(l, t)
    BY <1>0, <1>2, <2>1, <2>2, <2>3 DEF EnterFree, EnterTaken, Granted, LockTypeOK
  <2> QED BY <2>1, <2>2, <2>3, <2>4 DEF LockTypeOK
<1>3. CASE Granted(l, t)
  <2>1. ~EnterTaken(l, t)
    BY <1>0, <1>3 DEF LockTypeOK, Granted, EnterTaken
  <2> QED BY <1>3, <2>1 DEF LockTypeOK, Granted
<1>4. CASE Interrupted(l, t)
  <2>1. ~EnterTaken(l, t) /\ ~EnterFree(l, t) /\ ~Granted(l, t)
    BY <1>0, <1>4 DEF LockTypeOK, Interrupted, EnterTaken, EnterFree, Granted
  <2> QED BY <1>4, <2>1 DEF LockTypeOK, Interrupted
<1> QED BY <1>1, <1>2, <1>3, <1>4 DEF Acquires

LEMMA AcquireExclusive ==
  ASSUME LockTypeOK, NEW l \in Locks, NEW t \in Threads, Exclusive(l), Acquires(l, t)
  PROVE  Exclusive(l)'
<1>0. lock[l].count \in Int /\ lock[l].sem \in Int
  BY DEF LockTypeOK
<1>1. CASE EnterFree(l, t)
  <2>1. /\ lock'[l].count = lock[l].count + 1 /\ lock'[l].sem = lock[l].sem
        /\ lock'[l].holding = lock[l].holding \cup {t}
    BY <1>1 DEF LockTypeOK, EnterFree
  <2>2. lock[l].holding = {} /\ lock[l].sem = 0 /\ lock[l].count = 0
    BY <1>0, <1>1 DEF EnterFree, Exclusive
  <2> QED BY <2>1, <2>2 DEF Exclusive, AtMostOne
<1>2. CASE EnterTaken(l, t)
  <2>1. /\ lock'[l].count = lock[l].count + 1 /\ lock'[l].sem = lock[l].sem
        /\ lock'[l].holding = lock[l].holding
    BY <1>2 DEF LockTypeOK, EnterTaken
  <2> QED BY <1>0, <2>1 DEF Exclusive, AtMostOne
<1>3. CASE Granted(l, t)
  BY <1>3 DEF LockTypeOK, Granted, Exclusive, AtMostOne
<1>4. CASE Interrupted(l, t)
  BY <1>4 DEF LockTypeOK, Interrupted, Exclusive, AtMostOne
<1> QED BY <1>1, <1>2, <1>3, <1>4 DEF Acquires

LEMMA LeaveExclusive ==
  ASSUME LockTypeOK, NEW l \in Locks, NEW t \in Threads, Exclusive(l),
         t \in lock[l].holding, Leave(l, t)
  PROVE  /\ Exclusive(l)' /\ lock'[l].holding = {}
BY DEF LockTypeOK, Exclusive, AtMostOne, Leave, Wakes

LEMMA LeaveType ==
  ASSUME LockTypeOK, NEW l \in Locks, NEW t \in Threads, Leave(l, t)
  PROVE  /\ LockTypeOK'
         /\ \A m \in Locks \ {l} : lock'[m] = lock[m]
         /\ \A u \in Threads \ {t} : u \in lock'[l].holding <=> u \in lock[l].holding
         /\ t \notin lock'[l].holding
<1> DEFINE sem == IF Wakes(l) THEN lock[l].sem + 1 ELSE lock[l].sem
           left == [lock[l] EXCEPT !.count = lock[l].count - 1, !.sem = sem,
                                   !.holding = lock[l].holding \ {t}]
<1>1. /\ lock[l].count - 1 \in Int /\ sem \in Int
      /\ lock[l].holding \ {t} \subseteq Threads
  BY DEF LockTypeOK
<1>2. lock' = [lock EXCEPT ![l] = left]
  BY DEF Leave
<1> HIDE DEF sem
<1>3. /\ left \in [count : Int, sem : Int,
                   waiting : SUBSET Threads, holding : SUBSET Threads]
      /\ left.holding = lock[l].holding \ {t}
  BY <1>1 DEF LockTypeOK
<1> HIDE DEF left
<1> QED BY <1>2, <1>3 DEF LockTypeOK

-----------------------------------------------------------------------------
(* The steps. *)

\* What one lock contributes to the invariant.
Kept(l) == Exclusive(l) /\ AllBracketed(l)

LEMMA HeadType ==
  ASSUME TypeOK, NEW t \in Threads, ~Idle(t)
  PROVE  /\ todo[t] \in Seq(Ops) /\ todo[t] # <<>> /\ Len(todo[t]) >= 1
         /\ Head(todo[t]) = todo[t][1] /\ todo[t][1] \in Ops
         /\ Tail(todo[t]) \in Seq(Ops)
  <1>1. todo[t] \in Seq(Ops) /\ todo[t] # <<>>
    BY DEF TypeOK, Idle
  <1> QED BY <1>1, TailType

LEMMA DoneType ==
  ASSUME TypeOK, NEW t \in Threads, ~Idle(t), Done(t)
  PROVE  /\ todo' \in [Threads -> Seq(Ops)]
         /\ todo'[t] = Tail(todo[t])
         /\ \A u \in Threads \ {t} : todo'[u] = todo[u]
BY HeadType DEF TypeOK, Done

\* A step that touches no lock.
LEMMA Continues ==
  ASSUME IInv, NEW t \in Threads, ~Idle(t), Done(t),
         Head(todo[t]).op \notin {"enter", "leave", "submit"},
         UNCHANGED <<lock, trespassed>>
  PROVE  IInv'
<1>1. /\ todo' \in [Threads -> Seq(Ops)] /\ todo'[t] = Tail(todo[t])
      /\ \A u \in Threads \ {t} : todo'[u] = todo[u]
  BY DoneType DEF IInv
<1>2. /\ todo[t] \in Seq(Ops) /\ todo[t] # <<>>
      /\ todo[t][1].op \notin {"enter", "leave", "submit"}
  BY HeadType DEF IInv
<1>3. \A l \in Locks : ~Enters(todo[t][1], l) /\ ~Leaves(todo[t][1], l)
  BY <1>2 DEF Enters, Leaves, Op
<1>4. ASSUME NEW l \in Locks, Kept(l)
      PROVE  Kept(l)'
  <2>1. Exclusive(l)'
    BY <1>4 DEF Kept, Exclusive, AtMostOne
  <2>2. ASSUME NEW u \in Threads
        PROVE  Bracketed(todo'[u], u \in lock'[l].holding, l)
    <3>1. Bracketed(todo[u], u \in lock[l].holding, l)
      BY <1>4 DEF Kept, AllBracketed
    <3>2. CASE u = t
      <4> DEFINE has == t \in lock[l].holding
                 s == todo[t]
      <4>1. has \in BOOLEAN
        OBVIOUS
      <4>2. /\ Bracketed(s, has, l) /\ s \in Seq(Ops) /\ s # <<>>
            /\ ~Enters(s[1], l) /\ ~Leaves(s[1], l)
        BY <1>2, <1>3, <3>1, <3>2
      <4> HIDE DEF has, s
      <4>3. Bracketed(Tail(s), has, l)
        BY <4>1, <4>2, BracketedTail
      <4> QED BY <1>1, <3>2, <4>3 DEF has, s
    <3> QED BY <1>1, <3>1, <3>2
  <2> QED BY <2>1, <2>2 DEF Kept, AllBracketed
<1>5. TypeOK'
  BY <1>1 DEF IInv, TypeOK, LockTypeOK
<1> QED BY <1>4, <1>5, RingAssumption DEF IInv, Kept

\* A call begins.
LEMMA Begins ==
  ASSUME IInv, NEW t \in Threads, NEW p, Fine(p), Begin(t, p)
  PROVE  IInv'
<1>1. /\ todo' \in [Threads -> Seq(Ops)] /\ todo'[t] = p
      /\ \A u \in Threads \ {t} : todo'[u] = todo[u]
      /\ UNCHANGED <<lock, trespassed>>
  BY DEF IInv, TypeOK, Fine, Begin
<1>2. ASSUME NEW l \in Locks, Kept(l)
      PROVE  Kept(l)'
  <2>1. Exclusive(l)'
    BY <1>1, <1>2 DEF Kept, Exclusive, AtMostOne
  <2>2. ASSUME NEW u \in Threads
        PROVE  Bracketed(todo'[u], u \in lock'[l].holding, l)
    <3>1. Bracketed(todo[u], u \in lock[l].holding, l)
      BY <1>2 DEF Kept, AllBracketed
    <3>2. Bracketed(p, u \in lock[l].holding, l)
      BY RingAssumption DEF Fine, Bracketed
    <3> QED BY <1>1, <3>1, <3>2
  <2> QED BY <2>1, <2>2 DEF Kept, AllBracketed
<1>3. TypeOK'
  BY <1>1 DEF IInv, TypeOK, LockTypeOK
<1> QED BY <1>1, <1>2, <1>3, RingAssumption DEF IInv, Kept

\* A thread that enters a lock: it has it, or waits for it.
LEMMA Acquired ==
  ASSUME IInv, NEW t \in Threads, Enter(t) \/ Wake(t)
  PROVE  IInv'
<1> DEFINE l == Arg(t)
           took == EnterFree(l, t) \/ Granted(l, t)
<1>1. /\ ~Idle(t) /\ todo[t] \in Seq(Ops) /\ todo[t] # <<>>
      /\ todo[t][1].op = "enter" /\ todo[t][1].arg = l /\ todo[t][1] \in Ops
  BY HeadType DEF IInv, Enter, Wake, At, Arg
<1>2. l \in Locks /\ todo[t][1] = Op("enter", l)
  BY <1>1 DEF Ops, Op
<1>3. /\ \/ took /\ Done(t)
         \/ EnterTaken(l, t) /\ UNCHANGED todo
      /\ UNCHANGED trespassed
  <2>1. CASE Enter(t)
    BY <2>1 DEF Enter
  <2>2. CASE Wake(t)
    BY <2>2 DEF Wake
  <2> QED BY <2>1, <2>2
<1> HIDE DEF l
<1>4. /\ LockTypeOK'
      /\ \A m \in Locks \ {l} : lock'[m] = lock[m]
      /\ \A u \in Threads \ {t} : u \in lock'[l].holding <=> u \in lock[l].holding
      /\ took => t \in lock'[l].holding
      /\ EnterTaken(l, t) => lock'[l].holding = lock[l].holding
      /\ Acquires(l, t)
  BY <1>2, <1>3, AcquireType DEF IInv, TypeOK, Acquires
<1>5. /\ todo' \in [Threads -> Seq(Ops)]
      /\ \A u \in Threads \ {t} : todo'[u] = todo[u]
      /\ Done(t) => todo'[t] = Tail(todo[t])
  BY <1>1, <1>3, DoneType DEF IInv, TypeOK
<1>6. ASSUME NEW m \in Locks, Kept(m)
      PROVE  Kept(m)'
  <2>1. Exclusive(m)'
    <3>1. CASE m = l
      BY <1>4, <1>6, <3>1, AcquireExclusive DEF Kept, IInv, TypeOK
    <3>2. CASE m # l
      BY <1>4, <1>6, <3>2 DEF Kept, Exclusive, AtMostOne
    <3> QED BY <3>1, <3>2
  <2>2. ASSUME NEW u \in Threads
        PROVE  Bracketed(todo'[u], u \in lock'[m].holding, m)
    <3> DEFINE has == u \in lock[m].holding
    <3>1. has \in BOOLEAN /\ Bracketed(todo[u], has, m)
      BY <1>6 DEF Kept, AllBracketed
    <3>2. CASE u # t
      <4>1. u \in lock'[m].holding <=> has
        BY <1>4, <3>2
      <4> QED BY <1>5, <3>1, <3>2, <4>1 DEF Bracketed
    <3>3. CASE u = t /\ EnterTaken(l, t) /\ UNCHANGED todo
      <4>1. lock'[m].holding = lock[m].holding
        BY <1>4, <3>3
      <4> QED BY <3>1, <3>3, <4>1
    <3>4. CASE u = t /\ took /\ Done(t) /\ m = l
      <4>1. ~Leaves(todo[t][1], m)
        BY <1>2 DEF Leaves, Op
      <4> HIDE DEF has
      <4>2. Bracketed(Tail(todo[t]), TRUE, m)
        BY <1>1, <3>1, <3>4, <4>1, BracketedEnter
      <4> QED BY <1>4, <1>5, <3>4, <4>2 DEF Bracketed
    <3>5. CASE u = t /\ took /\ Done(t) /\ m # l
      <4>1. ~Leaves(todo[t][1], m) /\ ~Enters(todo[t][1], m)
        BY <1>2, <3>5 DEF Leaves, Enters, Op
      <4>2. u \in lock'[m].holding <=> has
        BY <1>4, <3>5
      <4> HIDE DEF has
      <4>3. Bracketed(Tail(todo[t]), has, m)
        BY <1>1, <3>1, <3>5, <4>1, BracketedTail
      <4> QED BY <1>5, <3>5, <4>2, <4>3 DEF Bracketed
    <3> QED BY <1>3, <3>2, <3>3, <3>4, <3>5
  <2> QED BY <2>1, <2>2 DEF Kept, AllBracketed
<1>7. TypeOK'
  BY <1>3, <1>4, <1>5 DEF IInv, TypeOK
<1> QED BY <1>3, <1>6, <1>7, RingAssumption DEF IInv, Kept

\* A thread that gives a lock back had it.
LEMMA Released ==
  ASSUME IInv, NEW t \in Threads, NEW l \in Locks, ~Idle(t), Done(t),
         Leave(l, t), Leaves(todo[t][1], l),
         \A m \in Locks \ {l} : ~Leaves(todo[t][1], m),
         UNCHANGED trespassed
  PROVE  IInv'
<1>1. /\ todo[t] \in Seq(Ops) /\ todo[t] # <<>>
      /\ todo' \in [Threads -> Seq(Ops)] /\ todo'[t] = Tail(todo[t])
      /\ \A u \in Threads \ {t} : todo'[u] = todo[u]
  BY HeadType, DoneType DEF IInv
<1>2. \A m \in Locks : ~Enters(todo[t][1], m)
  BY DEF Enters, Leaves, Op
<1>3. /\ LockTypeOK'
      /\ \A m \in Locks \ {l} : lock'[m] = lock[m]
      /\ \A u \in Threads \ {t} : u \in lock'[l].holding <=> u \in lock[l].holding
      /\ t \notin lock'[l].holding
  BY LeaveType DEF IInv, TypeOK
<1>4. ASSUME NEW m \in Locks, Kept(m)
      PROVE  Kept(m)'
  <2> DEFINE has == t \in lock[m].holding
  <2>1. has \in BOOLEAN /\ Bracketed(todo[t], has, m)
    BY <1>4 DEF Kept, AllBracketed
  <2>2. Exclusive(m)'
    <3>1. CASE m = l
      <4> HIDE DEF has
      <4>1. has
        BY <1>1, <2>1, <3>1, BracketedLeave
      <4> QED BY <1>4, <3>1, <4>1, LeaveExclusive DEF has, Kept, IInv, TypeOK
    <3>2. CASE m # l
      BY <1>3, <1>4, <3>2 DEF Kept, Exclusive, AtMostOne
    <3> QED BY <3>1, <3>2
  <2>3. Bracketed(todo'[t], t \in lock'[m].holding, m)
    <3>1. CASE m = l
      <4> HIDE DEF has
      <4>1. Bracketed(Tail(todo[t]), FALSE, m)
        BY <1>1, <2>1, <3>1, BracketedLeave
      <4> QED BY <1>1, <4>1 DEF Bracketed
    <3>2. CASE m # l
      <4>1. t \in lock'[m].holding <=> has
        BY <1>3, <3>2
      <4> HIDE DEF has
      <4>2. Bracketed(Tail(todo[t]), has, m)
        BY <1>1, <1>2, <2>1, <3>2, BracketedTail
      <4> QED BY <1>1, <4>1, <4>2 DEF Bracketed
    <3> QED BY <3>1, <3>2
  <2>4. ASSUME NEW u \in Threads \ {t}
        PROVE  Bracketed(todo'[u], u \in lock'[m].holding, m)
    <3>1. Bracketed(todo[u], u \in lock[m].holding, m)
      BY <1>4 DEF Kept, AllBracketed
    <3>2. u \in lock'[m].holding <=> u \in lock[m].holding
      BY <1>3
    <3> QED BY <1>1, <3>1, <3>2 DEF Bracketed
  <2> QED BY <2>2, <2>3, <2>4 DEF Kept, AllBracketed
<1>5. TypeOK'
  BY <1>1, <1>3 DEF IInv, TypeOK
<1> QED BY <1>4, <1>5, RingAssumption DEF IInv, Kept

LEMMA Interruption ==
  ASSUME IInv, NEW t \in Threads, Signal(t)
  PROVE  IInv'
<1> DEFINE l == Arg(t)
<1>1. /\ ~Idle(t) /\ l \in Locks /\ Interrupted(l, t)
  BY HeadType DEF IInv, Signal, At, Arg, Ops
<1>2. /\ l = "engine" => todo' = [todo EXCEPT ![t] = <<>>] /\ UNCHANGED trespassed
      /\ l # "engine" => Done(t) /\ trespassed'
  BY DEF Signal
<1> HIDE DEF l
<1>3. /\ LockTypeOK'
      /\ \A m \in Locks : lock'[m].holding = lock[m].holding
      /\ Acquires(l, t)
  <2>1. Acquires(l, t) /\ LockTypeOK
    BY <1>1 DEF Acquires, IInv, TypeOK
  <2>2. LockTypeOK' /\ \A m \in Locks \ {l} : lock'[m] = lock[m]
    BY <1>1, <2>1, AcquireType
  <2>3. lock'[l].holding = lock[l].holding
    BY <1>1, <2>1 DEF LockTypeOK, Interrupted
  <2> QED BY <2>1, <2>2, <2>3
<1>4. /\ todo' \in [Threads -> Seq(Ops)]
      /\ \A u \in Threads \ {t} : todo'[u] = todo[u]
      /\ todo'[t] = IF l = "engine" THEN <<>> ELSE Tail(todo[t])
  <2>1. todo \in [Threads -> Seq(Ops)] /\ <<>> \in Seq(Ops)
    BY DEF IInv, TypeOK
  <2>2. CASE l = "engine"
    BY <1>2, <2>1, <2>2
  <2>3. CASE l # "engine"
    BY <1>1, <1>2, <2>3, DoneType DEF IInv
  <2> QED BY <2>2, <2>3
<1>5. ASSUME NEW m \in Locks, Kept(m), m = "engine" \/ l = "engine"
      PROVE  Kept(m)'
  <2>1. Exclusive(m)'
    <3>1. CASE m = l
      BY <1>3, <1>5, <3>1, AcquireExclusive DEF Kept, IInv, TypeOK
    <3>2. CASE m # l
      <4>1. lock'[m] = lock[m]
        BY <1>1, <1>3, <3>2, AcquireType DEF IInv, TypeOK
      <4> QED BY <1>5, <4>1 DEF Kept, Exclusive, AtMostOne
    <3> QED BY <3>1, <3>2
  <2>2. ASSUME NEW u \in Threads
        PROVE  Bracketed(todo'[u], u \in lock'[m].holding, m)
    <3> DEFINE has == u \in lock[m].holding
    <3>1. has \in BOOLEAN /\ Bracketed(todo[u], has, m)
      BY <1>5 DEF Kept, AllBracketed
    <3>2. u \in lock'[m].holding <=> has
      BY <1>3
    <3>3. CASE u # t
      BY <1>4, <3>1, <3>2, <3>3 DEF Bracketed
    <3>4. CASE u = t /\ l = "engine"
      BY <1>4, <3>4 DEF Bracketed
    <3>5. CASE u = t /\ l # "engine"
      <4>1. m = "engine" /\ todo[t] \in Seq(Ops) /\ todo[t] # <<>>
        BY <1>1, <1>5, <3>5, HeadType DEF IInv
      <4>2. todo[t][1].op = "enter" /\ todo[t][1].arg = l
        BY <1>1, HeadType DEF IInv, Signal, At, Arg, l
      <4>3. ~Enters(todo[t][1], m) /\ ~Leaves(todo[t][1], m)
        BY <3>5, <4>1, <4>2 DEF Enters, Leaves, Op
      <4> HIDE DEF has
      <4>4. Bracketed(Tail(todo[t]), has, m)
        BY <3>1, <3>5, <4>1, <4>3, BracketedTail
      <4> QED BY <1>4, <3>2, <3>5, <4>4 DEF Bracketed
    <3> QED BY <3>3, <3>4, <3>5
  <2> QED BY <2>1, <2>2 DEF Kept, AllBracketed
<1>6. TypeOK'
  BY <1>2, <1>3, <1>4 DEF IInv, TypeOK
<1> QED BY <1>2, <1>5, <1>6, RingAssumption DEF IInv, Kept

-----------------------------------------------------------------------------

LEMMA Initially == Init => IInv
<1> SUFFICES ASSUME Init
             PROVE  IInv
  OBVIOUS
<1>1. TypeOK
  <2>1. LockTypeOK
    BY DEF Init, LockInit, LockTypeOK
  <2>2. todo \in [Threads -> Seq(Ops)]
    <3>1. <<>> \in Seq(Ops)
      OBVIOUS
    <3> QED BY <3>1 DEF Init
  <2> QED BY <2>1, <2>2 DEF Init, TypeOK
<1>2. \A l \in Locks : Exclusive(l) /\ AllBracketed(l)
  BY DEF Init, LockInit, Exclusive, AtMostOne, AllBracketed, Bracketed
<1> QED BY <1>1, <1>2, RingAssumption DEF IInv

LEMMA Called ==
  ASSUME IInv,
         \/ \E t \in Painters, sync \in BOOLEAN, count \in Fills : Paint(t, sync, count)
         \/ \E b \in Buffers : AllocateBuffer(b) \/ Show(b) \/ ReleaseBuffer(b)
         \/ Hide
  PROVE  IInv'
<1>0. Player \in Threads /\ Painters \subseteq Threads
  BY RingAssumption
<1>1. ASSUME NEW t \in Painters, NEW sync \in BOOLEAN, NEW count \in Fills,
             Paint(t, sync, count)
      PROVE  IInv'
  BY <1>0, <1>1, PaintFine, Begins DEF Paint
<1>2. ASSUME NEW b \in Buffers, AllocateBuffer(b)
      PROVE  IInv'
  BY <1>0, <1>2, SmallFine, Begins DEF AllocateBuffer
<1>3. ASSUME NEW b \in Buffers, Show(b)
      PROVE  IInv'
  <2> DEFINE p == (IF overlay.active THEN update_overlay ELSE show_overlay)
                  \o <<Op("current", b)>>
  <2>1. Fine(p)
    BY SmallFine, OverlayFine, FineConcat
  <2>2. Begin(Player, p)
    BY <1>3 DEF Show
  <2> QED BY <1>0, <2>1, <2>2, Begins
<1>4. ASSUME NEW b \in Buffers, ReleaseBuffer(b)
      PROVE  IInv'
  <2>1. Fine(hide_overlay \o <<Op("free", b)>>) /\ Fine(<<Op("free", b)>>)
    BY SmallFine, OverlayFine, FineConcat
  <2>2. \/ Begin(Player, hide_overlay \o <<Op("free", b)>>)
        \/ Begin(Player, <<Op("free", b)>>)
    BY <1>4 DEF ReleaseBuffer
  <2> QED BY <1>0, <2>1, <2>2, Begins
<1>5. CASE Hide
  BY <1>0, <1>5, OverlayFine, Begins DEF Hide
<1> QED BY <1>1, <1>2, <1>3, <1>4, <1>5

LEMMA Stepped ==
  ASSUME IInv, NEW t \in Threads, Step(t)
  PROVE  IInv'
<1>1. CASE Enter(t) \/ Wake(t)
  BY <1>1, Acquired
<1>2. CASE Signal(t)
  BY <1>2, Interruption
<1>3. CASE Release(t)
  <2>1. /\ ~Idle(t) /\ Done(t) /\ Leave(Arg(t), t) /\ UNCHANGED trespassed
    BY <1>3 DEF Release, At
  <2>2. /\ todo[t][1].op = "leave" /\ todo[t][1].arg = Arg(t) /\ todo[t][1] \in Ops
    BY <1>3, <2>1, HeadType DEF IInv, Release, At, Arg
  <2>3. Arg(t) \in Locks /\ todo[t][1] = Op("leave", Arg(t))
    BY <2>2 DEF Ops, Op
  <2>4. Leaves(todo[t][1], Arg(t)) /\ \A m \in Locks \ {Arg(t)} : ~Leaves(todo[t][1], m)
    BY <2>3 DEF Leaves, Op
  <2> QED BY <2>1, <2>3, <2>4, Released
<1>4. CASE Submit(t)
  <2>1. /\ ~Idle(t) /\ Done(t) /\ Leave("ring", t) /\ UNCHANGED trespassed
    BY <1>4 DEF Submit, At
  <2>2. todo[t][1].op = "submit"
    BY <1>4, <2>1, HeadType DEF IInv, Submit, At
  <2>3. Leaves(todo[t][1], "ring") /\ \A m \in Locks \ {"ring"} : ~Leaves(todo[t][1], m)
    BY <2>2 DEF Leaves, Op
  <2> QED BY <2>1, <2>3, Released, RingAssumption
<1>5. CASE Stalled(t)
  BY <1>5 DEF Stalled, IInv, TypeOK, LockTypeOK, Exclusive, AtMostOne, AllBracketed
<1>6. CASE Put(t) \/ SetCurrent(t) \/ FreeBuffer(t)
  <2>1. /\ ~Idle(t) /\ Done(t) /\ UNCHANGED <<lock, trespassed>>
        /\ Head(todo[t]).op \notin {"enter", "leave", "submit"}
    BY <1>6 DEF Put, SetCurrent, FreeBuffer, At
  <2> QED BY <2>1, Continues
<1> QED BY <1>1, <1>2, <1>3, <1>4, <1>5, <1>6 DEF Step

LEMMA Untouched ==
  ASSUME IInv, UNCHANGED <<lock, todo, trespassed>>
  PROVE  IInv'
BY DEF IInv, TypeOK, LockTypeOK, Exclusive, AtMostOne, AllBracketed

LEMMA Inductive == IInv /\ [Next]_vars => IInv'
<1> SUFFICES ASSUME IInv, [Next]_vars
             PROVE  IInv'
  OBVIOUS
<1>1. CASE \E t \in Threads : Step(t)
  BY <1>1, Stepped
<1>2. CASE Execute \/ Blank
  BY <1>2, Untouched DEF Execute, Blank
<1>3. CASE UNCHANGED vars
  BY <1>3, Untouched DEF vars
<1> QED BY <1>1, <1>2, <1>3, Called DEF Next

\* The locks and the programs of the threads have their types: a counter is
\* a whole number and a thread waits in it, or holds it (lock.h).
THEOREM RingTypeCorrect == Spec => []TypeOK
<1>1. IInv => TypeOK
  BY DEF IInv
<1> QED BY <1>1, Initially, Inductive, PTL DEF Spec

\* One thread has the engine, however many waits for it signals ended; one
\* writes the ring, as long as no signal ended a wait for it (lock.h:45-62,
\* engine.cpp:32-63, 201-228).
THEOREM LocksExclude == Spec => []MutualExclusion
<1>1. IInv => MutualExclusion
  BY DEF IInv, Exclusive, MutualExclusion
<1> QED BY <1>1, Initially, Inductive, PTL DEF Spec

-----------------------------------------------------------------------------
(* What commands take in the ring. *)

Row(c) == [i \in 1 .. Cells(c) |-> c]

LEMMA RowIs ==
  ASSUME NEW c \in Commands
  PROVE  /\ Cells(c) \in {1, 2} /\ Row(c) \in Seq(Commands) /\ Len(Row(c)) = Cells(c)
         /\ \A i \in 1 .. Cells(c) : Row(c)[i] = c
BY DEF Cells, Row

LEMMA Associates ==
  ASSUME NEW a \in Seq(Commands), NEW b \in Seq(Commands), NEW c \in Seq(Commands)
  PROVE  (a \o b) \o c = a \o (b \o c)
BY ConcatAssociative

\* The commands are laid one after another.
Lays(g, s) ==
  /\ g[0] = <<>>
  /\ \A k \in 1 .. Len(s) : g[k] = g[k - 1] \o Row(s[k])
  /\ \A k \in 0 .. Len(s) : g[k] \in Seq(Commands)

LEMMA LaidFold ==
  ASSUME NEW s \in Seq(Commands)
  PROVE  \E g : Lays(g, s) /\ g[Len(s)] = Laid(s)
<1> DEFINE n == Len(s)
           Put1(laid, c) == laid \o [i \in 1 .. Cells(c) |-> c]
           Sums(h) == h = [Y \in SUBSET (DOMAIN s) |->
                             IF Y = {} THEN <<>>
                             ELSE Put1(h[Y \ {Max(Y)}], s[Max(Y)])]
           fold == CHOOSE h : Sums(h)
           S == Seq(Commands)
           F == [i \in 1 .. n |-> [x \in S |-> Put1(x, s[i])]]
<1>1. n \in Nat /\ DOMAIN s = 1 .. n /\ \A i \in 1 .. n : s[i] \in Commands
  OBVIOUS
<1>2. <<>> \in S /\ \A i \in 1 .. n : \A x \in S : F[i][x] = Put1(x, s[i]) /\ F[i][x] \in S
  <2>1. ASSUME NEW i \in 1 .. n, NEW x \in S
        PROVE  Put1(x, s[i]) \in S
    <3>1. Put1(x, s[i]) = x \o Row(s[i])
      BY DEF Row
    <3>2. Row(s[i]) \in Seq(Commands) /\ x \in Seq(Commands)
      BY <1>1, RowIs
    <3>3. x \o Row(s[i]) \in Seq(Commands)
      BY <3>2
    <3> QED
      BY <3>1, <3>3
  <2> HIDE DEF Put1
  <2>2. \A i \in 1 .. n : \A x \in S : F[i][x] = Put1(x, s[i])
    OBVIOUS
  <2>3. <<>> \in S
    OBVIOUS
  <2> QED
    BY <2>1, <2>2, <2>3
<1> HIDE DEF S, F, n, Put1
<1>3. PICK it \in [SUBSET (1 .. n) -> S] : Iterates(it, <<>>, F, n)
  BY <1>1, <1>2, FoldExists
<1>4. Sums(it)
  <2>1. ASSUME NEW Y \in SUBSET (1 .. n), Y # {}
        PROVE  F[Max(Y)][it[Y \ {Max(Y)}]] = Put1(it[Y \ {Max(Y)}], s[Max(Y)])
    <3>1. Max(Y) \in 1 .. n
      BY <1>1, <2>1, MostIs
    <3>2. it[Y \ {Max(Y)}] \in S
      OBVIOUS
    <3> QED
      BY <1>2, <3>1, <3>2
  <2> QED
    BY <1>1, <1>3, <2>1 DEF Iterates
<1>5. Laid(s) = fold[DOMAIN s]
  BY Zenon DEF Laid, FoldLeft, MapThenFoldSet, Put1
<1> HIDE DEF Sums
<1>6. Sums(fold)
  BY <1>4, Zenon
<1> HIDE DEF fold
<1> DEFINE g == [k \in 0 .. n |-> fold[1 .. k]]
<1>7. g[0] = <<>> /\ g[n] = fold[DOMAIN s]
  <2>1. 1 .. 0 = {} /\ {} \in SUBSET (DOMAIN s) /\ 0 \in 0 .. n /\ n \in 0 .. n
    BY <1>1
  <2> QED
    BY <1>1, <1>6, <2>1 DEF Sums
<1>8. \A k \in 1 .. n : g[k] = Put1(g[k - 1], s[k])
  <2> SUFFICES ASSUME NEW k \in 1 .. n
               PROVE  g[k] = Put1(g[k - 1], s[k])
    OBVIOUS
  <2>1. k - 1 \in Nat /\ k - 1 \in 0 .. n /\ k \in 0 .. n /\ (k - 1) + 1 = k
    BY <1>1
  <2>2. 1 .. k \in SUBSET (DOMAIN s) /\ 1 .. k # {} /\ k \in 1 .. k
    <3>1. k \in 1 .. k /\ 1 .. k \subseteq 1 .. n
      BY <1>1, <2>1
    <3> QED
      BY <1>1, <3>1
  <2>3. Max(1 .. k) = k
    BY <2>1, <2>2, LastIs
  <2>4. (1 .. k) \ {k} = 1 .. k - 1
    BY <2>1
  <2>5. fold[1 .. k] = Put1(fold[1 .. k - 1], s[k])
    BY <1>6, <2>2, <2>3, <2>4 DEF Sums
  <2> QED
    BY <2>1, <2>5
<1> HIDE DEF g
<1>9. \A k \in 0 .. n : g[k] \in S
  <2> DEFINE W == [k \in 0 .. n |-> S]
  <2>1. g[0] \in W[0] /\ \A k \in 1 .. n : g[k - 1] \in W[k - 1] => g[k] \in W[k]
    <3>1. \A k \in 1 .. n : k - 1 \in 0 .. n /\ k \in 0 .. n
      BY <1>1
    <3>2. \A k \in 1 .. n : \A x \in S : Put1(x, s[k]) \in S
      BY <1>2
    <3>3. 0 \in 0 .. n
      BY <1>1
    <3> QED
      BY <1>2, <1>7, <1>8, <3>1, <3>2, <3>3
  <2> HIDE DEF W
  <2>2. \A k \in 0 .. n : g[k] \in W[k]
    BY <1>1, <2>1, FoldType
  <2> QED
    BY <2>2 DEF W
<1>10. \A k \in 1 .. n : g[k] = g[k - 1] \o Row(s[k])
  BY <1>8 DEF Put1, Row
<1> QED
  BY <1>5, <1>7, <1>9, <1>10 DEF n, S, Lays

\* What two sequences begin with alike is laid alike.
LEMMA LaysAlike ==
  ASSUME NEW s \in Seq(Commands), NEW r \in Seq(Commands), NEW g, NEW h,
         Lays(g, s), Lays(h, r), Len(s) <= Len(r), \A i \in 1 .. Len(s) : s[i] = r[i]
  PROVE  g[Len(s)] = h[Len(s)]
<1> DEFINE n == Len(s)
           W == [k \in 0 .. n |-> {h[k]}]
<1>1. n \in Nat /\ Len(r) \in Nat
  OBVIOUS
<1>2. g[0] \in W[0]
  BY <1>1 DEF Lays
<1>3. ASSUME NEW k \in 1 .. n, g[k - 1] \in W[k - 1]
      PROVE  g[k] \in W[k]
  <2>1. k - 1 \in 0 .. n /\ k \in 0 .. n /\ k \in 1 .. Len(r)
    BY <1>1
  <2>2. g[k - 1] = h[k - 1]
    BY <1>3, <2>1
  <2>3. g[k] = g[k - 1] \o Row(s[k]) /\ h[k] = h[k - 1] \o Row(r[k])
    BY <2>1 DEF Lays
  <2> QED
    BY <2>1, <2>2, <2>3
<1> HIDE DEF W
<1>4. \A k \in 0 .. n : g[k] \in W[k]
  BY <1>1, <1>2, <1>3, FoldType
<1> QED
  BY <1>1, <1>4 DEF W

LEMMA LaidType ==
  ASSUME NEW s \in Seq(Commands)
  PROVE  Laid(s) \in Seq(Commands)
<1>1. PICK g : Lays(g, s) /\ g[Len(s)] = Laid(s)
  BY LaidFold
<1>2. Len(s) \in 0 .. Len(s)
  OBVIOUS
<1> QED
  BY <1>1, <1>2 DEF Lays

LEMMA LaidEmpty == Laid(<<>>) = <<>>
<1>1. <<>> \in Seq(Commands) /\ Len(<<>>) = 0
  OBVIOUS
<1>2. PICK g : Lays(g, <<>>) /\ g[0] = Laid(<<>>)
  BY <1>1, LaidFold
<1> QED
  BY <1>2 DEF Lays

\* A command more is laid after the others ...
LEMMA LaidAppend ==
  ASSUME NEW s \in Seq(Commands), NEW c \in Commands
  PROVE  Laid(Append(s, c)) = Laid(s) \o Row(c)
<1> DEFINE r == Append(s, c)
           n == Len(s)
<1>1. /\ r \in Seq(Commands) /\ Len(r) = n + 1 /\ n \in Nat
      /\ r[n + 1] = c /\ \A i \in 1 .. n : s[i] = r[i]
  OBVIOUS
<1> HIDE DEF r
<1>2. PICK g : Lays(g, s) /\ g[n] = Laid(s)
  BY LaidFold
<1>3. PICK h : Lays(h, r) /\ h[n + 1] = Laid(r)
  BY <1>1, LaidFold
<1>4. g[n] = h[n]
  BY <1>1, <1>2, <1>3, LaysAlike
<1>5. h[n + 1] = h[n] \o Row(c)
  <2>1. n + 1 \in 1 .. Len(r) /\ (n + 1) - 1 = n
    BY <1>1
  <2> QED
    BY <1>1, <1>3, <2>1 DEF Lays
<1> QED
  BY <1>2, <1>3, <1>4, <1>5 DEF r

\* ... and the first before them.
LEMMA LaidTail ==
  ASSUME NEW s \in Seq(Commands), s # <<>>
  PROVE  Laid(s) = Row(s[1]) \o Laid(Tail(s))
<1> DEFINE r == Tail(s)
           n == Len(r)
           first == Row(s[1])
<1>1. /\ r \in Seq(Commands) /\ Len(s) = n + 1 /\ n \in Nat
      /\ s[1] \in Commands /\ \A i \in 1 .. n : r[i] = s[i + 1]
  OBVIOUS
<1> HIDE DEF r
<1>2. PICK g : Lays(g, s) /\ g[n + 1] = Laid(s)
  BY <1>1, LaidFold
<1>3. PICK h : Lays(h, r) /\ h[n] = Laid(r)
  BY <1>1, LaidFold
<1> HIDE DEF n
<1>4. first \in Seq(Commands)
  BY <1>1, RowIs
<1> DEFINE later == [k \in 0 .. n |-> g[k + 1]]
           W == [k \in 0 .. n |-> {first \o h[k]}]
<1>5. later[0] \in W[0]
  <2>1. g[1] = <<>> \o first
    <3>1. 1 \in 1 .. Len(s) /\ 1 - 1 = 0
      BY <1>1
    <3> QED
      BY <1>2, <3>1 DEF Lays
  <2>2. h[0] = <<>> /\ 0 \in 0 .. n /\ 0 + 1 = 1
    BY <1>1, <1>3 DEF Lays
  <2>3. <<>> \o first = first /\ first \o <<>> = first
    BY <1>4
  <2> HIDE DEF first
  <2> QED
    BY <2>1, <2>2, <2>3
<1>6. ASSUME NEW k \in 1 .. n, later[k - 1] \in W[k - 1]
      PROVE  later[k] \in W[k]
  <2>1. /\ k - 1 \in 0 .. n /\ k \in 0 .. n /\ k + 1 \in 1 .. Len(s) /\ k \in 1 .. Len(r)
        /\ (k + 1) - 1 = k /\ (k - 1) + 1 = k
    BY <1>1 DEF n
  <2>2. g[k] = first \o h[k - 1]
    BY <1>6, <2>1
  <2>3. g[k + 1] = g[k] \o Row(s[k + 1]) /\ h[k] = h[k - 1] \o Row(s[k + 1])
    BY <1>1, <1>2, <1>3, <2>1 DEF Lays, n
  <2>4. h[k - 1] \in Seq(Commands) /\ Row(s[k + 1]) \in Seq(Commands)
    <3>1. s[k + 1] \in Commands
      BY <2>1
    <3>2. \A i \in 0 .. n : h[i] \in Seq(Commands)
      BY <1>1, <1>3 DEF Lays, n
    <3> QED BY <2>1, <3>1, <3>2, RowIs
  <2> HIDE DEF first
  <2>5. (first \o h[k - 1]) \o Row(s[k + 1]) = first \o (h[k - 1] \o Row(s[k + 1]))
    BY <1>4, <2>4, Associates
  <2> QED
    BY <2>1, <2>2, <2>3, <2>5
<1> HIDE DEF W, later, first
<1>7. \A k \in 0 .. n : later[k] \in W[k]
  BY <1>1, <1>5, <1>6, FoldType
<1>8. g[n + 1] = first \o h[n]
  BY <1>1, <1>7 DEF W, later
<1> QED
  BY <1>2, <1>3, <1>8 DEF r, n, first

-----------------------------------------------------------------------------
(* What a thread has queued and not yet submitted fits into the ring.      *)

\* What one step makes of it; -1: the thread does not have the ring's lock.
Moves(a, x, b) ==
  /\ x.op = "enter" => a = -1 /\ b = IF x.arg = "ring" THEN 0 ELSE -1
  /\ x.op = "queue" => a >= 0 /\ b = a + Cells(x.arg)
  /\ x.op = "submit" => a >= 0 /\ b = -1
  /\ x.op = "leave" => x.arg # "ring"
  /\ x.op \in {"leave", "current", "free"} => b = a

Meters == -1 .. Size - 1
Meter == [x \in Ops |-> {p \in Meters \X Meters : Moves(p[1], x, p[2])}]
Metered(s, a) == Runs(Meter, Meters, s, a, -1)

LEMMA MeterIs ==
  ASSUME NEW x \in Ops, NEW a \in Meters, NEW b \in Meters
  PROVE  <<a, b>> \in Meter[x] <=> Moves(a, x, b)
BY DEF Meter

LEMMA MeteredEmpty ==
  /\ Metered(<<>>, -1)
  /\ \A a : Metered(<<>>, a) => a = -1
<1>1. -1 \in Meters
  BY RingAssumption DEF Meters
<1> QED BY <1>1, RunsEmpty DEF Metered

LEMMA MeteredTail ==
  ASSUME NEW s \in Seq(Ops), s # <<>>, NEW a, Metered(s, a)
  PROVE  \E b \in Meters : Moves(a, s[1], b) /\ Metered(Tail(s), b)
<1>1. s[1] \in Ops
  OBVIOUS
<1>2. a \in Meters /\ \E b \in Meters : <<a, b>> \in Meter[s[1]] /\ Metered(Tail(s), b)
  BY RunsTail DEF Metered
<1> QED BY <1>1, <1>2, MeterIs

LEMMA MeteredConcat ==
  ASSUME NEW s \in Seq(Ops), NEW r \in Seq(Ops), Metered(s, -1), Metered(r, -1)
  PROVE  Metered(s \o r, -1)
BY RunsConcat DEF Metered

LEMMA Joined ==
  ASSUME NEW s \in Seq(Ops), NEW r \in Seq(Ops)
  PROVE  /\ s \o r \in Seq(Ops) /\ Len(s \o r) = Len(s) + Len(r)
         /\ Len(s) \in Nat /\ Len(r) \in Nat
         /\ \A i \in 1 .. Len(s) : (s \o r)[i] = s[i]
         /\ \A i \in 1 .. Len(r) : (s \o r)[i + Len(s)] = r[i]
OBVIOUS

\* A block whose commands are all of one size.
LEMMA MeteredBlock ==
  ASSUME NEW cs \in Seq(Commands), NEW more \in Seq(Ops), NEW size \in {1, 2},
         \A i \in 1 .. Len(cs) : Cells(cs[i]) = size, size * Len(cs) < Size,
         \A i \in 1 .. Len(more) : more[i].op = "current"
  PROVE  Block(cs, more) \in Seq(Ops) /\ Metered(Block(cs, more), -1)
<1> DEFINE puts == [i \in DOMAIN cs |-> Queue(cs[i])]
           e == Op("enter", "ring")
           x == Do("submit")
           n == Len(cs)
           m == Len(more)
           b == Block(cs, more)
<1>1. /\ e \in Ops /\ x \in Ops
      /\ \A c \in Commands : Queue(c) \in Ops
  BY OpType, RingAssumption
<1>2. puts \in Seq(Ops) /\ Len(puts) = n /\ n \in Nat /\ m \in Nat
      /\ \A i \in 1 .. n : puts[i] = Queue(cs[i]) /\ cs[i] \in Commands
  BY <1>1
<1>3. b = <<e>> \o puts \o more \o <<x>>
  BY Zenon DEF Block
<1> HIDE DEF puts, e, x, b
<1>4. /\ b \in Seq(Ops) /\ Len(b) = n + m + 2 /\ b[1] = e /\ b[n + m + 2] = x
      /\ \A i \in 1 .. n : b[i + 1] = puts[i]
      /\ \A i \in 1 .. m : b[i + n + 1] = more[i]
  <2> DEFINE p == <<e>> \o puts
             q == p \o more
             z == <<x>>
  <2>1. p \in Seq(Ops) /\ Len(p) = n + 1 /\ p[1] = e /\ \A i \in 1 .. n : p[i + 1] = puts[i]
    BY <1>1, <1>2
  <2>2. z \in Seq(Ops) /\ Len(z) = 1 /\ z[1] = x
    BY <1>1
  <2>3. b = q \o z
    BY <1>3
  <2> HIDE DEF p, z
  <2>4. /\ q \in Seq(Ops) /\ Len(q) = (n + 1) + m
        /\ \A i \in 1 .. n + 1 : q[i] = p[i]
        /\ \A i \in 1 .. m : q[i + (n + 1)] = more[i]
    <3>1. /\ q \in Seq(Ops) /\ Len(q) = Len(p) + Len(more)
          /\ \A i \in 1 .. Len(p) : q[i] = p[i]
          /\ \A i \in 1 .. Len(more) : q[i + Len(p)] = more[i]
      BY <2>1, Joined
    <3> HIDE DEF q
    <3> QED BY <2>1, <3>1
  <2> HIDE DEF q, n, m
  <2>5. /\ b \in Seq(Ops) /\ Len(b) = (n + 1) + m + 1
        /\ \A i \in 1 .. (n + 1) + m : b[i] = q[i]
        /\ \A i \in 1 .. 1 : b[i + ((n + 1) + m)] = z[i]
    <3>1. /\ b \in Seq(Ops) /\ Len(b) = Len(q) + Len(z)
          /\ \A i \in 1 .. Len(q) : b[i] = q[i]
          /\ \A i \in 1 .. Len(z) : b[i + Len(q)] = z[i]
      BY <2>2, <2>3, <2>4, Joined
    <3> QED BY <2>2, <2>4, <3>1
  <2>6. (n + 1) + m + 1 = n + m + 2 /\ 1 + ((n + 1) + m) = n + m + 2 /\ 1 \in 1 .. 1
    BY <1>2
  <2>7. 1 \in 1 .. n + 1 /\ 1 \in 1 .. (n + 1) + m
    BY <1>2
  <2>8. \A i \in 1 .. n : i + 1 \in 1 .. n + 1 /\ i + 1 \in 1 .. (n + 1) + m
    BY <1>2
  <2>9. \A i \in 1 .. m : i + (n + 1) \in 1 .. (n + 1) + m /\ i + (n + 1) = i + n + 1
    BY <1>2
  <2>10. b[n + m + 2] = x /\ Len(b) = n + m + 2
    BY <2>2, <2>5, <2>6
  <2>11. b[1] = e /\ \A i \in 1 .. n : b[i + 1] = puts[i]
    BY <2>1, <2>4, <2>5, <2>7, <2>8
  <2>12. \A i \in 1 .. m : b[i + n + 1] = more[i]
    BY <2>4, <2>5, <2>9
  <2> QED BY <2>5, <2>10, <2>11, <2>12 DEF n, m
<1>5. /\ size * n \in 0 .. Size - 1
      /\ \A i \in 1 .. n : size * (i - 1) \in 0 .. Size - 1 /\ size * i = size * (i - 1) + size
      /\ size * 0 = 0
  <2>1. CASE size = 1
    BY <1>2, <2>1, RingAssumption
  <2>2. CASE size = 2
    BY <1>2, <2>2, RingAssumption
  <2> QED BY <2>1, <2>2
<1> DEFINE w == [i \in 1 .. n + m + 3 |->
                   IF i = 1 \/ i = n + m + 3 THEN -1
                   ELSE IF i <= n + 1 THEN size * (i - 2) ELSE size * n]
<1>6. /\ w[1] = -1 /\ w[n + m + 3] = -1
      /\ \A i \in 0 .. n : w[i + 2] = size * i
      /\ \A i \in 0 .. m : w[i + n + 2] = size * n
  <2>1. 1 \in 1 .. n + m + 3 /\ n + m + 3 \in 1 .. n + m + 3
    BY <1>2
  <2>2. ASSUME NEW i \in 0 .. n PROVE w[i + 2] = size * i
    <3>1. i + 2 \in 1 .. n + m + 3 /\ i + 2 # 1 /\ i + 2 # n + m + 3 /\ (i + 2) - 2 = i
      BY <1>2
    <3>2. CASE i = n
      <4>1. ~(i + 2 <= n + 1)
        BY <1>2, <3>2
      <4> QED BY <3>1, <3>2, <4>1
    <3>3. CASE i # n
      <4>1. i + 2 <= n + 1
        BY <1>2, <3>3
      <4> QED BY <3>1, <4>1
    <3> QED BY <3>2, <3>3
  <2>3. ASSUME NEW i \in 0 .. m PROVE w[i + n + 2] = size * n
    <3>1. /\ i + n + 2 \in 1 .. n + m + 3 /\ i + n + 2 # 1 /\ i + n + 2 # n + m + 3
          /\ ~(i + n + 2 <= n + 1)
      BY <1>2
    <3> QED BY <3>1
  <2> QED BY <2>1, <2>2, <2>3
<1>7. w \in [1 .. n + m + 3 -> -1 .. Size - 1]
  <2>1. ASSUME NEW i \in 1 .. n + m + 3, i # 1, i # n + m + 3, i <= n + 1
        PROVE  size * (i - 2) \in -1 .. Size - 1
    <3>1. i - 1 \in 1 .. n /\ (i - 1) - 1 = i - 2
      BY <1>2, <2>1
    <3>2. size * ((i - 1) - 1) \in 0 .. Size - 1
      BY <1>5, <3>1
    <3> QED BY <3>1, <3>2, RingAssumption
  <2>2. size * n \in -1 .. Size - 1 /\ -1 \in -1 .. Size - 1
    BY <1>5, RingAssumption
  <2> QED BY <2>1, <2>2
<1> HIDE DEF w
<1>8. Moves(w[1], b[1], w[1 + 1])
  <2>1. w[0 + 2] = size * 0
    BY <1>2, <1>6
  <2> QED BY <1>4, <1>5, <1>6, <2>1 DEF Moves, e, Op
<1>9. ASSUME NEW i \in 1 .. n
      PROVE  Moves(w[i + 1], b[i + 1], w[(i + 1) + 1])
  <2>1. i - 1 \in 0 .. n /\ i \in 0 .. n /\ (i - 1) + 2 = i + 1 /\ (i + 1) + 1 = i + 2
    BY <1>2
  <2>2. w[i + 1] = size * (i - 1) /\ w[(i + 1) + 1] = size * i
    BY <1>6, <2>1
  <2>3. b[i + 1] = Queue(cs[i]) /\ Cells(cs[i]) = size
    BY <1>2, <1>4
  <2>4. size * (i - 1) >= 0 /\ size * i = size * (i - 1) + size
    BY <1>5
  <2> QED BY <2>2, <2>3, <2>4 DEF Moves, Queue, Op
<1>10. ASSUME NEW i \in 1 .. m
       PROVE  Moves(w[i + n + 1], b[i + n + 1], w[(i + n + 1) + 1])
  <2>1. i - 1 \in 0 .. m /\ i \in 0 .. m /\ (i - 1) + n + 2 = i + n + 1
        /\ (i + n + 1) + 1 = i + n + 2
    BY <1>2
  <2>2. w[i + n + 1] = size * n /\ w[(i + n + 1) + 1] = size * n
    BY <1>6, <2>1
  <2>3. b[i + n + 1].op = "current"
    BY <1>4
  <2> QED BY <2>2, <2>3 DEF Moves
<1>11. Moves(w[n + m + 2], b[n + m + 2], w[(n + m + 2) + 1])
  <2>1. m \in 0 .. m /\ m + n + 2 = n + m + 2 /\ (n + m + 2) + 1 = n + m + 3
    BY <1>2
  <2>2. w[n + m + 2] = size * n /\ w[(n + m + 2) + 1] = -1
    BY <1>6, <2>1
  <2>3. size * n >= 0
    BY <1>5
  <2> QED BY <1>4, <2>2, <2>3 DEF Moves, x, Do, Op
<1>12. ASSUME NEW j \in 1 .. n + m + 2
       PROVE  Moves(w[j], b[j], w[j + 1])
  <2>1. CASE j = 1
    BY <1>8, <2>1
  <2>2. CASE j \in 2 .. n + 1
    <3>1. j - 1 \in 1 .. n /\ (j - 1) + 1 = j
      BY <1>2, <2>2
    <3> QED BY <1>9, <3>1
  <2>3. CASE j \in n + 2 .. n + m + 1
    <3>1. j - n - 1 \in 1 .. m /\ (j - n - 1) + n + 1 = j
      BY <1>2, <2>3
    <3> QED BY <1>10, <3>1
  <2>4. CASE j = n + m + 2
    BY <1>11, <2>4
  <2>5. j = 1 \/ j \in 2 .. n + 1 \/ j \in n + 2 .. n + m + 1 \/ j = n + m + 2
    BY <1>2
  <2> QED BY <2>1, <2>2, <2>3, <2>4, <2>5
<1>13. Metered(b, -1)
  <2>1. n + m + 2 + 1 = n + m + 3 /\ w \in [1 .. n + m + 3 -> Meters]
    BY <1>2, <1>7 DEF Meters
  <2>2. ASSUME NEW j \in 1 .. n + m + 2
        PROVE  <<w[j], w[j + 1]>> \in Meter[b[j]]
    <3>1. j \in 1 .. n + m + 3 /\ j + 1 \in 1 .. n + m + 3 /\ b[j] \in Ops
      BY <1>2, <1>4
    <3> QED BY <1>12, <2>1, <3>1, MeterIs
  <2>3. \A j \in 1 .. Len(b) : <<w[j], w[j + 1]>> \in Meter[b[j]]
    BY <1>4, <2>2
  <2>4. Len(b) + 1 = n + m + 3
    BY <1>4, <2>1
  <2> QED BY <1>6, <2>1, <2>3, <2>4 DEF Metered, Runs
<1> QED BY <1>4, <1>13 DEF b

\* The programs of the calls.
Fitting(p) == p \in Seq(Ops) /\ Metered(p, -1)

LEMMA FittingConcat ==
  ASSUME NEW p, NEW q, Fitting(p), Fitting(q)
  PROVE  Fitting(p \o q)
<1>1. p \in Seq(Ops) /\ q \in Seq(Ops)
  BY DEF Fitting
<1>2. p \o q \in Seq(Ops)
  BY <1>1
<1> QED BY <1>1, <1>2, MeteredConcat DEF Fitting

LEMMA FittingOne ==
  ASSUME NEW x \in Ops, Moves(-1, x, -1)
  PROVE  Fitting(<<x>>)
<1>1. -1 \in Meters /\ <<x>> \in Seq(Ops)
  BY RingAssumption DEF Meters
<1> QED BY <1>1, MeterIs, RunsOne DEF Fitting, Metered

LEMMA SmallFitting ==
  /\ Fitting(<<>>)
  /\ \A b \in Buffers \cup {None} : Fitting(<<Op("current", b)>>)
  /\ \A b \in Buffers : Fitting(<<Op("free", b)>>)
  /\ Fitting(<<Op("enter", "engine")>>) /\ Fitting(<<Op("leave", "engine")>>)
<1>1. Fitting(<<>>)
  BY MeteredEmpty, <<>> \in Seq(Ops) DEF Fitting
<1>2. ASSUME NEW b \in Buffers \cup {None} PROVE Fitting(<<Op("current", b)>>)
  BY OpType, FittingOne DEF Moves, Op
<1>3. ASSUME NEW b \in Buffers PROVE Fitting(<<Op("free", b)>>)
  BY OpType, FittingOne DEF Moves, Op
<1>4. /\ Op("enter", "engine") \in Ops /\ Op("leave", "engine") \in Ops
      /\ Moves(-1, Op("enter", "engine"), -1) /\ Moves(-1, Op("leave", "engine"), -1)
  BY OpType, RingAssumption DEF Moves, Op
<1> QED BY <1>1, <1>2, <1>3, <1>4, FittingOne

\* A short block of commands that take a cell each.
LEMMA ShortFitting ==
  ASSUME NEW cs \in Seq(Commands \ {"fill"}), Len(cs) <= 6, NEW more \in Seq(Ops),
         \A i \in 1 .. Len(more) : more[i].op = "current"
  PROVE  Fitting(Block(cs, more))
<1>1. cs \in Seq(Commands) /\ Len(cs) \in Nat /\ \A i \in 1 .. Len(cs) : Cells(cs[i]) = 1
  BY DEF Cells
<1>2. 1 * Len(cs) < Size
  BY <1>1, BlocksFit, RingAssumption
<1> QED BY <1>1, <1>2, MeteredBlock DEF Fitting

LEMMA OverlayFitting ==
  Fitting(show_overlay) /\ Fitting(update_overlay) /\ Fitting(hide_overlay)
<1> DEFINE S == Seq(Commands \ {"fill"})
           one == <<Op("current", None)>>
<1>1. /\ <<"on", "flush">> \in S /\ Len(<<"on", "flush">>) <= 6
      /\ <<"flush", "wait", "continue", "wait", "flush">> \in S
      /\ Len(<<"flush", "wait", "continue", "wait", "flush">>) <= 6
      /\ <<"flush", "wait", "continue", "wait", "off", "wait">> \in S
      /\ Len(<<"flush", "wait", "continue", "wait", "off", "wait">>) <= 6
  BY DEF Commands
<1>2. /\ <<>> \in Seq(Ops) /\ \A i \in 1 .. Len(<<>>) : <<>>[i].op = "current"
  OBVIOUS
<1>3. one \in Seq(Ops) /\ \A i \in 1 .. Len(one) : one[i].op = "current"
  BY OpType DEF Op
<1> HIDE DEF S
<1> QED BY <1>1, <1>2, <1>3, ShortFitting
        DEF show_overlay, update_overlay, hide_overlay, Queued, S

LEMMA PaintFitting ==
  ASSUME NEW sync \in BOOLEAN, NEW count \in Fills
  PROVE  Fitting(intel_acquire_engine(sync) \o intel_fill_rectangle(count)
                 \o intel_release_engine)
<1>1. <<>> \in Seq(Ops) /\ \A i \in 1 .. Len(<<>>) : <<>>[i].op = "current"
  OBVIOUS
<1>2. Fitting(intel_wait_engine_idle)
  <2>1. <<"flush">> \in Seq(Commands \ {"fill"}) /\ Len(<<"flush">>) <= 6
    BY DEF Commands
  <2> QED BY <1>1, <2>1, ShortFitting DEF intel_wait_engine_idle, Queued
<1>3. Fitting(intel_fill_rectangle(count))
  <2> DEFINE cs == [i \in 1 .. count |-> "fill"]
  <2>1. /\ cs \in Seq(Commands) /\ Len(cs) = count /\ count \in Nat
        /\ \A i \in 1 .. count : Cells(cs[i]) = 2
    BY RingAssumption DEF Commands, Cells
  <2> HIDE DEF cs
  <2>2. 2 * Len(cs) < Size
    BY <2>1, BlocksFit
  <2>3. Fitting(Block(cs, <<>>))
    BY <1>1, <2>1, <2>2, MeteredBlock DEF Fitting
  <2> QED BY <2>3 DEF intel_fill_rectangle, Queued, cs
<1>4. Fitting(intel_acquire_engine(sync))
  BY <1>2, SmallFitting, FittingConcat DEF intel_acquire_engine
<1> QED BY <1>3, <1>4, SmallFitting, FittingConcat DEF intel_release_engine

-----------------------------------------------------------------------------
(* Places in the ring. *)

LEMMA Wraps ==
  ASSUME NEW a \in Int
  PROVE  /\ a \in 0 .. Size - 1 => a % Size = a
         /\ a \in Size .. 2 * Size - 1 => a % Size = a - Size
         /\ a \in -Size .. -1 => a % Size = a + Size
BY RingAssumption

LEMMA PlaceIs ==
  ASSUME NEW a \in 0 .. Size - 1, NEW d \in 0 .. Size
  PROVE  /\ (a + d) % Size \in 0 .. Size - 1
         /\ (a + d) % Size = IF a + d < Size THEN a + d ELSE a + d - Size
<1>1. CASE a + d < Size
  BY <1>1, Wraps, RingAssumption
<1>2. CASE ~(a + d < Size)
  <2>1. a + d \in Size .. 2 * Size - 1
    BY <1>2, RingAssumption
  <2> QED BY <2>1, Wraps, RingAssumption
<1> QED BY <1>1, <1>2

LEMMA GapIs ==
  ASSUME NEW a \in 0 .. Size - 1, NEW b \in 0 .. Size - 1
  PROVE  /\ (a - b) % Size \in 0 .. Size - 1
         /\ (a - b) % Size = IF a >= b THEN a - b ELSE a - b + Size
<1>1. CASE a >= b
  BY <1>1, Wraps, RingAssumption
<1>2. CASE ~(a >= b)
  <2>1. a - b \in -Size .. -1
    BY <1>2, RingAssumption
  <2> QED BY <2>1, Wraps, RingAssumption
<1> QED BY <1>1, <1>2

\* How far one place is from another, both seen from the same.
LEMMA Between ==
  ASSUME NEW h \in 0 .. Size - 1, NEW d \in 0 .. Size - 1, NEW e \in 0 .. Size,
         NEW a, a = (h + d) % Size, NEW b, b = (h + e) % Size
  PROVE  (a - b) % Size = IF d >= e THEN d - e ELSE d - e + Size
<1>1. a \in 0 .. Size - 1 /\ a = IF h + d < Size THEN h + d ELSE h + d - Size
  <2>1. d \in 0 .. Size
    BY RingAssumption
  <2> QED BY <2>1, PlaceIs
<1>2. b \in 0 .. Size - 1 /\ b = IF h + e < Size THEN h + e ELSE h + e - Size
  BY PlaceIs
<1>3. (a - b) % Size = IF a >= b THEN a - b ELSE a - b + Size
  BY <1>1, <1>2, GapIs
<1> QED BY <1>1, <1>2, <1>3, RingAssumption

LEMMA Onwards ==
  ASSUME NEW h \in 0 .. Size - 1, NEW d \in Nat, NEW e \in Nat, d + e <= Size
  PROVE  (((h + d) % Size) + e) % Size = (h + (d + e)) % Size
<1> DEFINE a == (h + d) % Size
<1>0. d \in 0 .. Size /\ e \in 0 .. Size /\ d + e \in 0 .. Size
  BY RingAssumption
<1>1. a \in 0 .. Size - 1 /\ a = IF h + d < Size THEN h + d ELSE h + d - Size
  BY <1>0, PlaceIs
<1>2. (h + (d + e)) % Size = IF h + (d + e) < Size THEN h + (d + e) ELSE h + (d + e) - Size
  BY <1>0, PlaceIs
<1> HIDE DEF a
<1>3. (a + e) % Size = IF a + e < Size THEN a + e ELSE a + e - Size
  BY <1>0, <1>1, PlaceIs
<1>4. (a + e) % Size = (h + (d + e)) % Size
  BY <1>0, <1>1, <1>2, <1>3, RingAssumption
<1> QED BY <1>4, Zenon DEF a

-----------------------------------------------------------------------------
(***************************************************************************)
(* What is in the ring: the commands not yet executed, from the head on;   *)
(* the engine was told of the first of them, the others are of the block   *)
(* of the one who has the lock.                                            *)
(***************************************************************************)
Length == Len(Laid(unread))

Filled ==
  /\ head \in 0 .. Size - 1 /\ tail \in 0 .. Size - 1 /\ position \in 0 .. Size - 1
  /\ space \in Nat
  /\ unread \in Seq(Commands)
  /\ space + Length <= Size
  /\ position = (head + Length) % Size
  /\ \A i \in 1 .. Length : cells[(head + (i - 1)) % Size] = Laid(unread)[i]

Submitted == (tail - head) % Size

Told ==
  /\ Submitted <= Length
  /\ \E k \in 0 .. Len(unread) : Len(Laid(SubSeq(unread, 1, k))) = Submitted

Held(t) == IF t \in lock["ring"].holding THEN Length - Submitted ELSE -1

Shares ==
  /\ \A t \in Threads : Metered(todo[t], Held(t))
  /\ lock["ring"].holding = {} => Submitted = Length

Whole == ~overrun /\ ~trespassed

LostInv == Whole => Filled /\ Told /\ Shares

LEMMA LengthIs ==
  ASSUME Filled
  PROVE  /\ Length \in 0 .. Size /\ Submitted \in 0 .. Size - 1
         /\ Laid(unread) \in Seq(Commands)
         /\ unread = <<>> => Length = 0
         /\ unread # <<>> => Length > 0
         /\ position = IF head + Length < Size THEN head + Length ELSE head + Length - Size
         /\ tail = (head + Submitted) % Size
<1>1. Laid(unread) \in Seq(Commands)
  BY LaidType DEF Filled
<1>2. Length \in Nat
  BY <1>1 DEF Length
<1>3. Length \in 0 .. Size
  BY <1>2, RingAssumption DEF Filled
<1>4. unread = <<>> => Length = 0
  BY LaidEmpty DEF Length
<1>5. ASSUME unread # <<>> PROVE Length > 0
  <2>1. /\ unread[1] \in Commands /\ Tail(unread) \in Seq(Commands)
        /\ Laid(unread) = Row(unread[1]) \o Laid(Tail(unread))
    BY <1>5, LaidTail DEF Filled
  <2>2. /\ Row(unread[1]) \in Seq(Commands) /\ Len(Row(unread[1])) \in {1, 2}
        /\ Laid(Tail(unread)) \in Seq(Commands)
    BY <2>1, RowIs, LaidType
  <2>3. Len(Row(unread[1]) \o Laid(Tail(unread)))
          = Len(Row(unread[1])) + Len(Laid(Tail(unread)))
    BY <2>2
  <2>4. Len(Laid(Tail(unread))) \in Nat
    BY <2>2
  <2>5. Length = Len(Row(unread[1])) + Len(Laid(Tail(unread)))
    BY <2>1, <2>3 DEF Length
  <2>6. Len(Row(unread[1])) \in {1, 2}
    BY <2>2
  <2> QED BY <2>4, <2>5, <2>6
<1>6. position = IF head + Length < Size THEN head + Length ELSE head + Length - Size
  BY <1>3, PlaceIs DEF Filled
<1>7. /\ Submitted \in 0 .. Size - 1
      /\ Submitted = IF tail >= head THEN tail - head ELSE tail - head + Size
  BY GapIs DEF Submitted, Filled
<1>8. (head + Submitted) % Size
        = IF head + Submitted < Size THEN head + Submitted ELSE head + Submitted - Size
  <2>1. head \in 0 .. Size - 1 /\ Submitted \in 0 .. Size
    BY <1>7, RingAssumption DEF Filled
  <2> QED BY <2>1, PlaceIs
<1>9. tail = (head + Submitted) % Size
  BY <1>7, <1>8, RingAssumption DEF Filled
<1> QED BY <1>1, <1>3, <1>4, <1>5, <1>6, <1>7, <1>9

\* MakeSpace knows how much room there is, unless the ring is full.
LEMMA FreeIs ==
  ASSUME Filled, head # position \/ unread = <<>>
  PROVE  Free = Size - Length
<1>1. /\ Length \in 0 .. Size
      /\ position = IF head + Length < Size THEN head + Length ELSE head + Length - Size
      /\ unread = <<>> => Length = 0
      /\ head \in 0 .. Size - 1
  BY LengthIs DEF Filled
<1>2. CASE head <= position
  BY <1>1, <1>2, RingAssumption DEF Free
<1>3. CASE ~(head <= position)
  BY <1>1, <1>3, RingAssumption DEF Free
<1> QED BY <1>2, <1>3

LEMMA RoomIs ==
  ASSUME Filled, NEW size \in {1, 2}, Room(size) >= size,
         ~(space < size /\ head = position /\ unread # <<>>)
  PROVE  Room(size) \in Nat /\ Room(size) + Length <= Size
<1>1. Length \in 0 .. Size /\ space \in Nat
  BY LengthIs DEF Filled
<1>2. CASE space >= size
  BY <1>1, <1>2 DEF Room, Filled
<1>3. CASE ~(space >= size)
  <2>1. Free = Size - Length
    BY <1>1, <1>3, FreeIs
  <2> QED BY <1>1, <1>3, <2>1, RingAssumption DEF Room
<1> QED BY <1>2, <1>3

LEMMA PutLaid ==
  ASSUME NEW s \in Seq(Commands), NEW c \in Commands
  PROVE  /\ Len(Laid(s)) \in Nat
         /\ Len(Laid(Append(s, c))) = Len(Laid(s)) + Cells(c)
         /\ \A i \in 1 .. Len(Laid(s)) : Laid(Append(s, c))[i] = Laid(s)[i]
         /\ \A i \in Len(Laid(s)) + 1 .. Len(Laid(s)) + Cells(c) : Laid(Append(s, c))[i] = c
<1> DEFINE a == Laid(s)
           r == Row(c)
<1>1. Laid(Append(s, c)) = a \o r /\ a \in Seq(Commands) /\ r \in Seq(Commands)
      /\ Len(r) = Cells(c) /\ Cells(c) \in {1, 2} /\ \A i \in 1 .. Cells(c) : r[i] = c
  BY LaidAppend, LaidType, RowIs
<1> HIDE DEF a, r
<1>2. /\ Len(a) \in Nat /\ Len(a \o r) = Len(a) + Len(r)
      /\ \A i \in 1 .. Len(a) : (a \o r)[i] = a[i]
      /\ \A i \in Len(a) + 1 .. Len(a) + Len(r) : (a \o r)[i] = r[i - Len(a)]
  BY <1>1
<1>3. \A i \in Len(a) + 1 .. Len(a) + Cells(c) : i - Len(a) \in 1 .. Cells(c)
  BY <1>1, <1>2
<1>4. Len(Laid(Append(s, c))) = Len(a) + Cells(c)
  BY <1>1, <1>2
<1>5. \A i \in 1 .. Len(a) : Laid(Append(s, c))[i] = a[i]
  BY <1>1, <1>2
<1>6. \A i \in Len(a) + 1 .. Len(a) + Cells(c) : Laid(Append(s, c))[i] = c
  BY <1>1, <1>2, <1>3
<1> QED BY <1>2, <1>4, <1>5, <1>6 DEF a

LEMMA TailLaid ==
  ASSUME NEW s \in Seq(Commands), s # <<>>
  PROVE  /\ Tail(s) \in Seq(Commands) /\ s[1] \in Commands /\ Cells(s[1]) \in {1, 2}
         /\ Len(Laid(Tail(s))) \in Nat
         /\ Len(Laid(s)) = Cells(s[1]) + Len(Laid(Tail(s)))
         /\ Laid(s)[1] = s[1]
         /\ \A i \in 1 .. Len(Laid(Tail(s))) : Laid(s)[Cells(s[1]) + i] = Laid(Tail(s))[i]
<1> DEFINE c == s[1]
           a == Laid(Tail(s))
           r == Row(c)
<1>1. Tail(s) \in Seq(Commands) /\ c \in Commands
  OBVIOUS
<1>2. Laid(s) = r \o a /\ a \in Seq(Commands) /\ r \in Seq(Commands)
      /\ Len(r) = Cells(c) /\ Cells(c) \in {1, 2} /\ \A i \in 1 .. Cells(c) : r[i] = c
  BY <1>1, LaidTail, LaidType, RowIs
<1> HIDE DEF a, r, c
<1>3. /\ Len(a) \in Nat /\ Len(r \o a) = Len(r) + Len(a)
      /\ \A i \in 1 .. Len(r) : (r \o a)[i] = r[i]
      /\ \A i \in 1 .. Len(a) : (r \o a)[Len(r) + i] = a[i]
  BY <1>2
<1>4. 1 \in 1 .. Cells(c)
  BY <1>2
<1>5. Len(Laid(s)) = Cells(c) + Len(a)
  BY <1>2, <1>3
<1>6. Laid(s)[1] = c
  BY <1>2, <1>3, <1>4
<1>7. \A i \in 1 .. Len(a) : Laid(s)[Cells(c) + i] = a[i]
  BY <1>2, <1>3
<1> QED BY <1>1, <1>2, <1>3, <1>5, <1>6, <1>7 DEF a, c

\* A command more in the ring: it is where no other is.
LEMMA PutFills ==
  ASSUME Filled, Told, NEW t, Put(t), Arg(t) \in Commands, ~overrun'
  PROVE  Filled' /\ Told' /\ Length' = Length + Cells(Arg(t)) /\ Submitted' = Submitted
<1> DEFINE c == Arg(t)
           size == Cells(c)
<1>1. /\ Room(size) >= size /\ space' = Left(size)
      /\ cells' = [i \in 0 .. Size - 1 |-> IF (i - position) % Size < size THEN c ELSE cells[i]]
      /\ position' = (position + size) % Size
      /\ unread' = Append(unread, c)
      /\ ~(space < size /\ head = position /\ unread # <<>>)
      /\ UNCHANGED <<head, tail>>
  BY DEF Put
<1>2. c \in Commands /\ size \in {1, 2}
  BY RowIs
<1> HIDE DEF c, size
<1>3. Room(size) \in Nat /\ Room(size) + Length <= Size
  BY <1>1, <1>2, RoomIs
<1>4. /\ Length \in 0 .. Size /\ Submitted \in 0 .. Size - 1 /\ unread \in Seq(Commands)
      /\ head \in 0 .. Size - 1 /\ tail \in 0 .. Size - 1 /\ Size \in Nat
  BY LengthIs, RingAssumption DEF Filled
<1>5. position = (head + Length) % Size
  BY DEF Filled
<1>6. /\ Length' = Length + size
      /\ \A i \in 1 .. Length : Laid(unread')[i] = Laid(unread)[i]
      /\ \A i \in Length + 1 .. Length + size : Laid(unread')[i] = c
  <2>1. /\ Len(Laid(Append(unread, c))) = Len(Laid(unread)) + Cells(c)
        /\ \A i \in 1 .. Len(Laid(unread)) : Laid(Append(unread, c))[i] = Laid(unread)[i]
        /\ \A i \in Len(Laid(unread)) + 1 .. Len(Laid(unread)) + Cells(c) :
             Laid(Append(unread, c))[i] = c
    BY <1>2, <1>4, PutLaid
  <2> QED BY <1>1, <2>1 DEF Length, size
<1>7. /\ space' \in Nat /\ space' + (Length + size) <= Size /\ Length + size <= Size
      /\ size \in Nat /\ Length \in Nat
  BY <1>1, <1>2, <1>3, <1>4 DEF Left
<1>8. position' = (head + (Length + size)) % Size /\ position' \in 0 .. Size - 1
  <2>1. (((head + Length) % Size) + size) % Size = (head + (Length + size)) % Size
    BY <1>4, <1>7, Onwards
  <2>2. Length + size \in 0 .. Size
    BY <1>4, <1>7
  <2>3. (head + (Length + size)) % Size \in 0 .. Size - 1
    BY <1>4, <2>2, PlaceIs
  <2> QED BY <1>1, <1>5, <2>1, <2>3
<1>9. ASSUME NEW i \in 1 .. Length + size
      PROVE  cells'[(head + (i - 1)) % Size] = Laid(unread')[i]
  <2>1. i - 1 \in 0 .. Size - 1 /\ i - 1 \in 0 .. Size
    BY <1>4, <1>7
  <2>2. PICK a \in 0 .. Size - 1 : a = (head + (i - 1)) % Size
    BY <1>4, <2>1, PlaceIs
  <2>3. (a - position) % Size = IF i - 1 >= Length THEN i - 1 - Length ELSE i - 1 - Length + Size
    <3>1. head \in 0 .. Size - 1 /\ Length \in 0 .. Size
      BY <1>4
    <3> QED BY <1>5, <2>1, <2>2, <3>1, Between
  <2>4. cells'[a] = IF (a - position) % Size < size THEN c ELSE cells[a]
    BY <1>1, <2>2
  <2>5. CASE i <= Length
    <3>1. ~((a - position) % Size < size)
      BY <1>2, <1>4, <1>7, <2>1, <2>3, <2>5
    <3>2. i \in 1 .. Length
      BY <1>4, <2>5
    <3>3. cells[a] = Laid(unread)[i]
      BY <2>2, <3>2 DEF Filled
    <3> QED BY <1>6, <2>2, <2>4, <3>1, <3>2, <3>3
  <2>6. CASE ~(i <= Length)
    <3>1. (a - position) % Size < size
      BY <1>2, <1>4, <1>7, <2>1, <2>3, <2>6
    <3>2. i \in Length + 1 .. Length + size
      BY <1>2, <1>4, <2>6
    <3> QED BY <1>6, <2>2, <2>4, <3>1, <3>2
  <2> QED BY <2>5, <2>6
<1>10. unread' \in Seq(Commands)
  BY <1>1, <1>2, <1>4
<1>11. Submitted' = Submitted
  BY <1>1 DEF Submitted
<1>12. Filled'
  BY <1>1, <1>4, <1>6, <1>7, <1>8, <1>9, <1>10 DEF Filled
<1>13. Told'
  <2>1. PICK k \in 0 .. Len(unread) : Len(Laid(SubSeq(unread, 1, k))) = Submitted
    BY DEF Told
  <2>2. SubSeq(unread', 1, k) = SubSeq(unread, 1, k) /\ k \in 0 .. Len(unread')
    <3>1. /\ unread' \in Seq(Commands) /\ Len(unread') = Len(unread) + 1 /\ Len(unread) \in Nat
          /\ \A i \in 1 .. Len(unread) : unread'[i] = unread[i]
      BY <1>1, <1>2, <1>4
    <3>2. /\ SubSeq(unread', 1, k) = [i \in 1 .. k |-> unread'[i]]
          /\ SubSeq(unread, 1, k) = [i \in 1 .. k |-> unread[i]]
      BY <1>4, <3>1
    <3>3. \A i \in 1 .. k : i \in 1 .. Len(unread)
      BY <3>1
    <3> QED BY <3>1, <3>2, <3>3
  <2>3. Submitted' <= Length'
    BY <1>2, <1>4, <1>6, <1>11 DEF Told
  <2>4. Len(Laid(SubSeq(unread', 1, k))) = Submitted'
    BY <1>11, <2>1, <2>2
  <2> QED BY <2>2, <2>3, <2>4 DEF Told
<1> QED BY <1>6, <1>11, <1>12, <1>13 DEF size, c

\* The engine is told of all there is.
LEMMA SubmitTells ==
  ASSUME Filled, tail' = position, ~(position = head /\ unread # <<>>),
         UNCHANGED <<cells, head, position, space, unread>>
  PROVE  Filled' /\ Told' /\ Length' = Length /\ Submitted' = Length
<1>1. /\ Length \in 0 .. Size /\ head \in 0 .. Size - 1 /\ position \in 0 .. Size - 1
      /\ unread \in Seq(Commands)
      /\ unread = <<>> => Length = 0
      /\ position = IF head + Length < Size THEN head + Length ELSE head + Length - Size
  BY LengthIs DEF Filled
<1>2. Length < Size
  BY <1>1, RingAssumption
<1>3. (position - head) % Size = Length
  <2>1. (position - head) % Size
          = IF position >= head THEN position - head ELSE position - head + Size
    BY <1>1, GapIs
  <2> QED BY <1>1, <1>2, <2>1, RingAssumption
<1>4. Length' = Length /\ Submitted' = Length
  BY <1>3 DEF Length, Submitted
<1>5. Filled'
  BY <1>1, <1>4 DEF Filled
<1>6. SubSeq(unread, 1, Len(unread)) = unread /\ Len(unread) \in 0 .. Len(unread)
  BY <1>1
<1>7. Len(Laid(SubSeq(unread', 1, Len(unread')))) = Submitted'
  BY <1>4, <1>6 DEF Length
<1>8. Told'
  BY <1>1, <1>4, <1>6, <1>7 DEF Told
<1> QED BY <1>4, <1>5, <1>8

\* The engine finds the first of the commands at its head, and leaves the others there.
LEMMA ExecuteTakes ==
  ASSUME Filled, Told, Execute
  PROVE  /\ unread # <<>> /\ cells[head] = unread[1]
         /\ Filled' /\ Told'
         /\ Length' - Submitted' = Length - Submitted
         /\ Submitted = Length => Submitted' = Length'
<1> DEFINE c == cells[head]
           size == Cells(c)
<1>1. /\ head # tail /\ head' = (head + size) % Size
      /\ cells' = [i \in 0 .. Size - 1 |->
                     IF (i - head) % Size < size THEN None ELSE cells[i]]
      /\ unread' = Tail(unread) /\ UNCHANGED <<tail, position, space>>
  BY DEF Execute
<1>2. /\ Length \in 0 .. Size /\ Submitted \in 0 .. Size - 1 /\ unread \in Seq(Commands)
      /\ head \in 0 .. Size - 1 /\ tail \in 0 .. Size - 1 /\ position \in 0 .. Size - 1
      /\ Size \in Nat /\ space \in Nat /\ space + Length <= Size
      /\ unread = <<>> => Length = 0
      /\ Submitted <= Length
  BY LengthIs, RingAssumption DEF Filled, Told
<1>0. position = (head + Length) % Size /\ tail = (head + Submitted) % Size
  BY LengthIs DEF Filled
<1>3. (head + 0) % Size = head
  <2>1. head + 0 = head /\ head \in Int
    BY <1>2
  <2> QED BY <1>2, <2>1, Wraps
<1>4. Submitted > 0 /\ Length > 0 /\ unread # <<>>
  <2>1. Submitted # 0
    BY <1>0, <1>1, <1>3
  <2> QED BY <1>2, <2>1
<1>5. /\ Tail(unread) \in Seq(Commands) /\ unread[1] \in Commands /\ Cells(unread[1]) \in {1, 2}
      /\ Len(Laid(Tail(unread))) \in Nat
      /\ Len(Laid(unread)) = Cells(unread[1]) + Len(Laid(Tail(unread)))
      /\ Laid(unread)[1] = unread[1]
      /\ \A i \in 1 .. Len(Laid(Tail(unread))) :
           Laid(unread)[Cells(unread[1]) + i] = Laid(Tail(unread))[i]
  BY <1>2, <1>4, TailLaid
<1>6. c = unread[1]
  <2>1. 1 \in 1 .. Length /\ 1 - 1 = 0
    BY <1>2, <1>4
  <2>2. cells[(head + (1 - 1)) % Size] = Laid(unread)[1]
    BY <2>1 DEF Filled
  <2> QED BY <1>3, <1>5, <2>1, <2>2
<1> DEFINE len == Len(Laid(Tail(unread)))
<1>17. len = Length' /\ \A i \in 1 .. len : Laid(unread)[size + i] = Laid(unread')[i]
  BY <1>1, <1>5, <1>6 DEF Length
<1>7. len \in Nat /\ size \in {1, 2} /\ Length = size + len
  BY <1>5, <1>6 DEF Length
<1> HIDE DEF len
<1>8. \E k \in 0 .. Len(unread') : Len(Laid(SubSeq(unread', 1, k))) = Submitted - size
  <2>1. PICK k \in 0 .. Len(unread) : Len(Laid(SubSeq(unread, 1, k))) = Submitted
    BY DEF Told
  <2>2. k # 0
    <3>1. SubSeq(unread, 1, 0) = <<>> /\ Len(<<>>) = 0
      BY <1>2
    <3>2. ASSUME k = 0 PROVE FALSE
      <4>1. Len(Laid(SubSeq(unread, 1, 0))) = Submitted
        BY <2>1, <3>2
      <4>2. Submitted = 0
        BY <3>1, <4>1, LaidEmpty
      <4> QED BY <1>2, <1>4, <4>2
    <3> QED BY <3>2
  <2> DEFINE s == SubSeq(unread, 1, k)
  <2>3. /\ Len(unread) \in Nat /\ s \in Seq(Commands) /\ s # <<>> /\ s[1] = unread[1]
        /\ Len(s) = k /\ \A i \in 1 .. k : s[i] = unread[i]
    BY <1>2, <2>1, <2>2
  <2>4. Tail(s) = SubSeq(unread', 1, k - 1) /\ k - 1 \in 0 .. Len(unread')
    <3>1. /\ Len(unread') = Len(unread) - 1 /\ unread' \in Seq(Commands)
          /\ \A i \in 1 .. Len(unread) - 1 : unread'[i] = unread[i + 1]
      BY <1>1, <1>2, <1>4
    <3>2. k - 1 \in 0 .. Len(unread')
      BY <2>2, <2>3, <3>1
    <3>3. /\ SubSeq(unread', 1, k - 1) \in Seq(Commands)
          /\ Len(SubSeq(unread', 1, k - 1)) = k - 1
          /\ \A i \in 1 .. k - 1 : SubSeq(unread', 1, k - 1)[i] = unread'[i]
      BY <3>1, <3>2
    <3>4. /\ Tail(s) \in Seq(Commands) /\ Len(Tail(s)) = k - 1
          /\ \A i \in 1 .. k - 1 : Tail(s)[i] = s[i + 1]
      <4> HIDE DEF s
      <4> QED BY <2>3
    <3>5. \A i \in 1 .. k - 1 : i + 1 \in 1 .. k /\ i \in 1 .. Len(unread) - 1
      BY <2>2, <2>3
    <3>6. \A i \in 1 .. k - 1 : unread'[i] = s[i + 1]
      BY <2>3, <3>1, <3>5
    <3> HIDE DEF s
    <3>7. Tail(s) = SubSeq(unread', 1, k - 1)
      BY <3>3, <3>4, <3>6, SeqEqual
    <3> QED BY <3>2, <3>7
  <2>5. Len(Laid(s)) = size + Len(Laid(Tail(s))) /\ Len(Laid(Tail(s))) \in Nat
    <3> HIDE DEF s
    <3> QED BY <1>6, <2>3, TailLaid
  <2>6. Len(Laid(Tail(s))) = Submitted - size
    <3> DEFINE long == Len(Laid(s))
               rest == Len(Laid(Tail(s)))
    <3>1. long = Submitted /\ Submitted \in Int /\ size \in Int
      BY <1>2, <1>7, <2>1
    <3>2. long = size + rest /\ rest \in Nat
      BY <2>5
    <3> HIDE DEF long, rest
    <3>3. rest = Submitted - size
      BY <3>1, <3>2
    <3> QED BY <3>3 DEF rest
  <2> QED BY <2>4, <2>6
<1> HIDE DEF c, size
<1>9. Submitted - size \in Nat
  <2>1. PICK k \in 0 .. Len(unread') : Len(Laid(SubSeq(unread', 1, k))) = Submitted - size
    BY <1>8
  <2>2. SubSeq(unread', 1, k) \in Seq(Commands)
    BY <1>1, <1>5, <2>1
  <2>3. Laid(SubSeq(unread', 1, k)) \in Seq(Commands)
    BY <2>2, LaidType
  <2>4. Len(Laid(SubSeq(unread', 1, k))) \in Nat
    BY <2>3
  <2> QED BY <2>1, <2>4
<1>10. head' \in 0 .. Size - 1
  <2>1. size \in 0 .. Size
    BY <1>2, <1>7
  <2> QED BY <1>1, <1>2, <2>1, PlaceIs
<1>11. Submitted' = Submitted - size
  <2>1. Submitted' = (tail - head') % Size
    BY <1>1 DEF Submitted
  <2>2. size \in 0 .. Size
    BY <1>2, <1>7
  <2>3. (tail - head') % Size
          = IF Submitted >= size THEN Submitted - size ELSE Submitted - size + Size
    <3>1. head \in 0 .. Size - 1 /\ Submitted \in 0 .. Size - 1
      BY <1>2
    <3>2. head' = (head + size) % Size
      BY <1>1
    <3> QED BY <1>0, <2>2, <3>1, <3>2, Between
  <2> QED BY <1>2, <1>7, <1>9, <2>1, <2>3
<1>12. position' = (head' + len) % Size
  <2>1. size \in Nat /\ len \in Nat /\ size + len <= Size
    BY <1>2, <1>7
  <2>2. (((head + size) % Size) + len) % Size = (head + (size + len)) % Size
    BY <1>2, <2>1, Onwards
  <2> QED BY <1>0, <1>1, <1>7, <2>2
<1>13. ASSUME NEW i \in 1 .. len
       PROVE  cells'[(head' + (i - 1)) % Size] = Laid(unread')[i]
  <2>1. /\ size + (i - 1) \in 0 .. Size - 1 /\ size + (i - 1) \in 0 .. Size
        /\ size \in Nat /\ i - 1 \in Nat /\ size + (i - 1) <= Size
        /\ size + i \in 1 .. Length /\ (size + i) - 1 = size + (i - 1)
    BY <1>2, <1>7
  <2>2. PICK a \in 0 .. Size - 1 : a = (head + (size + (i - 1))) % Size
    BY <1>2, <2>1, PlaceIs
  <2>3. (head' + (i - 1)) % Size = a
    <3>1. (((head + size) % Size) + (i - 1)) % Size = (head + (size + (i - 1))) % Size
      BY <1>2, <2>1, Onwards
    <3> QED BY <1>1, <2>2, <3>1
  <2>4. (a - head) % Size = size + (i - 1)
    <3>0. head \in 0 .. Size - 1 /\ size + (i - 1) \in 0 .. Size - 1
      BY <1>2, <2>1
    <3>1. head = (head + 0) % Size /\ 0 \in 0 .. Size
      <4>1. 0 \in 0 .. Size
        BY RingAssumption
      <4> QED BY <1>3, <4>1, Zenon
    <3>2. (a - head) % Size = IF size + (i - 1) >= 0 THEN size + (i - 1) - 0
                                                    ELSE size + (i - 1) - 0 + Size
      BY <2>2, <3>0, <3>1, Between
    <3> QED BY <2>1, <3>2
  <2>5. cells'[a] = cells[a]
    <3>1. ~((a - head) % Size < size)
      BY <1>7, <2>1, <2>4
    <3> QED BY <1>1, <2>2, <3>1
  <2>6. cells[a] = Laid(unread)[size + i]
    BY <2>1, <2>2 DEF Filled
  <2> QED BY <1>17, <2>3, <2>5, <2>6
<1>14. Filled'
  <2>1. space + len <= Size
    BY <1>2, <1>7
  <2>2. space' + Length' <= Size /\ space' \in Nat
    BY <1>1, <1>2, <1>17, <2>1
  <2> QED BY <1>1, <1>2, <1>5, <1>10, <1>12, <1>13, <1>17, <2>2 DEF Filled
<1>15. Told'
  <2>1. Submitted - size <= len
    BY <1>2, <1>7, <1>9
  <2>2. Submitted' <= Length'
    BY <1>11, <1>17, <2>1
  <2> QED BY <1>8, <1>11, <2>2 DEF Told
<1>16. Length' - Submitted' = Length - Submitted
  <2>1. len - (Submitted - size) = Length - Submitted
    BY <1>2, <1>7
  <2> QED BY <1>11, <1>17, <2>1
<1>18. Submitted = Length => Submitted' = Length'
  <2>1. Submitted = Length => Submitted - size = len
    BY <1>2, <1>7
  <2> QED BY <1>11, <1>17, <2>1
<1> QED BY <1>4, <1>6, <1>14, <1>15, <1>16, <1>18 DEF c

-----------------------------------------------------------------------------
(* The steps and the ring. *)

LEMMA RingKept ==
  ASSUME Filled, Told, UNCHANGED <<cells, head, tail, position, space, unread>>
  PROVE  Filled' /\ Told' /\ Length' = Length /\ Submitted' = Submitted
BY DEF Filled, Told, Length, Submitted

LEMMA HeldIs ==
  ASSUME Filled, Told, NEW t
  PROVE  /\ t \in lock["ring"].holding => Held(t) = Length - Submitted /\ Held(t) \in Nat
         /\ t \notin lock["ring"].holding => Held(t) = -1
<1>1. Length \in Nat /\ Submitted \in Nat /\ Submitted <= Length
  <2>1. Length \in 0 .. Size /\ Submitted \in 0 .. Size - 1
    BY LengthIs
  <2> QED BY <2>1 DEF Told
<1>2. Length - Submitted \in Nat
  BY <1>1
<1> QED BY <1>2 DEF Held

AllMetered == \A t \in Threads : Metered(todo[t], Held(t))

\* A thread goes on in its program.
LEMMA MetersOn ==
  ASSUME TypeOK, AllMetered, NEW t \in Threads, ~Idle(t), Done(t),
         \A b \in Meters : Moves(Held(t), todo[t][1], b) => Held(t)' = b,
         \A u \in Threads \ {t} : Held(u)' = Held(u)
  PROVE  AllMetered'
<1>1. /\ todo[t] \in Seq(Ops) /\ todo[t] # <<>>
      /\ todo'[t] = Tail(todo[t]) /\ \A u \in Threads \ {t} : todo'[u] = todo[u]
  BY HeadType, DoneType
<1>2. PICK b \in Meters : Moves(Held(t), todo[t][1], b) /\ Metered(Tail(todo[t]), b)
  BY <1>1, MeteredTail DEF AllMetered
<1>3. Metered(todo'[t], Held(t)')
  BY <1>1, <1>2
<1>4. \A u \in Threads \ {t} : Metered(todo'[u], Held(u)')
  BY <1>1 DEF AllMetered
<1> QED BY <1>3, <1>4 DEF AllMetered

\* What the next step of a thread allows.
LEMMA NextMoves ==
  ASSUME TypeOK, AllMetered, NEW t \in Threads, ~Idle(t)
  PROVE  \E b \in Meters : Moves(Held(t), todo[t][1], b)
<1>1. todo[t] \in Seq(Ops) /\ todo[t] # <<>>
  BY HeadType
<1> QED BY <1>1, MeteredTail DEF AllMetered

Parts == Filled /\ Told /\ Shares

LEMMA SharesIs == Shares <=> AllMetered /\ (lock["ring"].holding = {} => Submitted = Length)
BY DEF Shares, AllMetered

\* Nothing of the ring changes, nor who has its lock.
LEMMA PartsOn ==
  ASSUME TypeOK, Parts, NEW t \in Threads, ~Idle(t), Done(t),
         UNCHANGED <<cells, head, tail, position, space, unread>>,
         lock'["ring"].holding = lock["ring"].holding,
         \A b \in Meters : Moves(Held(t), todo[t][1], b) => b = Held(t)
  PROVE  Parts'
<1>1. Filled' /\ Told' /\ Length' = Length /\ Submitted' = Submitted
  BY RingKept DEF Parts
<1>2. \A u : Held(u)' = Held(u)
  BY <1>1 DEF Held
<1>3. AllMetered'
  BY <1>2, MetersOn, SharesIs DEF Parts
<1>4. Shares'
  BY <1>1, <1>3, SharesIs DEF Parts, Shares, AllMetered
<1> QED BY <1>1, <1>4 DEF Parts

LEMMA PartsStay ==
  ASSUME TypeOK, Parts, UNCHANGED <<cells, head, tail, position, space, unread, todo>>,
         lock'["ring"].holding = lock["ring"].holding
  PROVE  Parts'
<1>1. Filled' /\ Told' /\ Length' = Length /\ Submitted' = Submitted
  BY RingKept DEF Parts
<1>2. \A u : Held(u)' = Held(u)
  BY <1>1 DEF Held
<1> QED BY <1>1, <1>2 DEF Parts, Shares

LEMMA BeginParts ==
  ASSUME TypeOK, Parts, NEW t \in Threads, NEW p, Fitting(p), Begin(t, p)
  PROVE  Parts'
<1>1. Filled' /\ Told' /\ Length' = Length /\ Submitted' = Submitted
  BY RingKept DEF Parts, Begin, ringVars
<1>2. UNCHANGED lock /\ todo' = [todo EXCEPT ![t] = p] /\ todo[t] = <<>>
  BY DEF Begin, Idle
<1>3. \A u : Held(u)' = Held(u)
  BY <1>1, <1>2 DEF Held
<1>4. /\ todo'[t] = p /\ \A u \in Threads \ {t} : todo'[u] = todo[u]
  BY <1>2 DEF TypeOK
<1>5. Held(t) = -1
  BY <1>2, MeteredEmpty DEF Parts, Shares
<1>6. \A u \in Threads : Metered(todo'[u], Held(u)')
  BY <1>3, <1>4, <1>5 DEF Parts, Shares, Fitting
<1> QED BY <1>1, <1>2, <1>6 DEF Parts, Shares

\* Who enters the ring finds in it nothing that the engine was not told of.
LEMMA EnterParts ==
  ASSUME IInv, ~trespassed, Parts, NEW t \in Threads, Enter(t) \/ Wake(t)
  PROVE  Parts'
<1> DEFINE l == Arg(t)
           took == EnterFree(l, t) \/ Granted(l, t)
<1>0. TypeOK /\ LockTypeOK /\ Exclusive("ring")
  BY DEF IInv, TypeOK
<1>1. /\ ~Idle(t) /\ todo[t][1].op = "enter" /\ todo[t][1].arg = l /\ todo[t][1] \in Ops
      /\ UNCHANGED ringVars
  BY <1>0, HeadType DEF Enter, Wake, At, Arg
<1>2. l \in Locks
  BY <1>1 DEF Ops
<1>3. \/ took /\ Done(t)
      \/ EnterTaken(l, t) /\ UNCHANGED todo
  <2>1. CASE Enter(t)
    BY <2>1 DEF Enter
  <2>2. CASE Wake(t)
    BY <2>2 DEF Wake
  <2> QED BY <2>1, <2>2
<1> HIDE DEF l
<1>4. UNCHANGED <<cells, head, tail, position, space, unread>>
  BY <1>1 DEF ringVars
<1>5. /\ \A m \in Locks \ {l} : lock'[m] = lock[m]
      /\ \A u \in Threads \ {t} : u \in lock'[l].holding <=> u \in lock[l].holding
      /\ took => t \in lock'[l].holding
      /\ EnterTaken(l, t) => lock'[l].holding = lock[l].holding
  BY <1>0, <1>2, <1>3, AcquireType DEF Acquires
<1>6. CASE EnterTaken(l, t) /\ UNCHANGED todo
  <2>1. lock'["ring"].holding = lock["ring"].holding
    BY <1>2, <1>5, <1>6, RingAssumption
  <2> QED BY <1>0, <1>4, <1>6, <2>1, PartsStay
<1>7. CASE took /\ Done(t) /\ l # "ring"
  <2>1. lock'["ring"].holding = lock["ring"].holding
    BY <1>5, <1>7, RingAssumption
  <2>2. \A b : Moves(Held(t), todo[t][1], b) => b = Held(t)
    BY <1>1, <1>7 DEF Moves
  <2> QED BY <1>0, <1>1, <1>4, <1>7, <2>1, <2>2, PartsOn
<1>8. CASE took /\ Done(t) /\ l = "ring"
  <2>1. lock["ring"].holding = {}
    <3>1. lock["ring"].count <= 0 \/ lock["ring"].sem > 0
      BY <1>8 DEF EnterFree, Granted
    <3>2. lock["ring"].count \in Int /\ lock["ring"].sem \in Int
      BY <1>0, RingAssumption DEF LockTypeOK
    <3> QED BY <1>0, <3>1, <3>2 DEF Exclusive
  <2>2. Filled' /\ Told' /\ Length' = Length /\ Submitted' = Submitted /\ Submitted = Length
    BY <1>4, <2>1, RingKept DEF Parts, Shares
  <2>3. Length \in Nat
    <3>1. Length \in 0 .. Size
      BY LengthIs DEF Parts
    <3> QED BY <3>1
  <2>4. Held(t)' = 0
    <3>1. Held(t)' = Length' - Submitted'
      BY <1>5, <1>8 DEF Held
    <3>2. Held(t)' = Length - Length
      BY <2>2, <3>1
    <3> QED BY <2>3, <3>2
  <2>5. \A u \in Threads \ {t} : Held(u)' = Held(u)
    BY <1>5, <1>8, <2>2 DEF Held
  <2>6. \A b : Moves(Held(t), todo[t][1], b) => Held(t)' = b
    BY <1>1, <1>8, <2>4 DEF Moves
  <2>7. AllMetered'
    BY <1>0, <1>1, <1>8, <2>5, <2>6, MetersOn, SharesIs DEF Parts
  <2>8. t \in lock'["ring"].holding
    BY <1>5, <1>8
  <2>9. Shares'
    BY <2>7, <2>8 DEF Shares, AllMetered
  <2> QED BY <2>2, <2>9 DEF Parts
<1> QED BY <1>3, <1>6, <1>7, <1>8

LEMMA SignalParts ==
  ASSUME IInv, Parts, NEW t \in Threads, Signal(t), ~trespassed'
  PROVE  Parts'
<1>0. TypeOK /\ LockTypeOK
  BY DEF IInv, TypeOK
<1>1. /\ ~Idle(t) /\ todo[t][1].op = "enter" /\ Arg(t) = "engine"
      /\ UNCHANGED ringVars /\ todo' = [todo EXCEPT ![t] = <<>>] /\ Interrupted("engine", t)
  BY <1>0, HeadType DEF Signal, At, Arg
<1>2. lock'["ring"].holding = lock["ring"].holding
  <2>1. \A m \in Locks \ {"engine"} : lock'[m] = lock[m]
    BY <1>0, <1>1, AcquireType, RingAssumption DEF Acquires
  <2> QED BY <2>1, RingAssumption
<1>3. Filled' /\ Told' /\ Length' = Length /\ Submitted' = Submitted
  BY <1>1, RingKept DEF Parts, ringVars
<1>4. \A u : Held(u)' = Held(u)
  BY <1>2, <1>3 DEF Held
<1>5. Held(t) = -1
  BY <1>0, <1>1, NextMoves, SharesIs DEF Moves, Parts
<1>6. todo'[t] = <<>> /\ \A u \in Threads \ {t} : todo'[u] = todo[u]
  BY <1>0, <1>1 DEF TypeOK
<1>7. \A u \in Threads : Metered(todo'[u], Held(u)')
  BY <1>4, <1>5, <1>6, MeteredEmpty DEF Parts, Shares
<1> QED BY <1>2, <1>3, <1>7 DEF Parts, Shares

LEMMA ReleaseParts ==
  ASSUME IInv, Parts, NEW t \in Threads, Release(t)
  PROVE  Parts'
<1>0. TypeOK /\ LockTypeOK
  BY DEF IInv, TypeOK
<1>1. /\ ~Idle(t) /\ todo[t][1].op = "leave" /\ Arg(t) = todo[t][1].arg /\ todo[t][1] \in Ops
      /\ UNCHANGED ringVars /\ Done(t) /\ Leave(Arg(t), t)
  BY <1>0, HeadType DEF Release, At, Arg
<1>2. Arg(t) # "ring" /\ Arg(t) \in Locks
  <2>1. Arg(t) \in Locks
    BY <1>1 DEF Ops
  <2>2. Arg(t) # "ring"
    BY <1>0, <1>1, NextMoves, SharesIs DEF Moves, Parts
  <2> QED BY <2>1, <2>2
<1>3. lock'["ring"].holding = lock["ring"].holding
  BY <1>0, <1>1, <1>2, LeaveType, RingAssumption
<1>4. \A b : Moves(Held(t), todo[t][1], b) => b = Held(t)
  BY <1>1 DEF Moves
<1>5. UNCHANGED <<cells, head, tail, position, space, unread>>
  BY <1>1 DEF ringVars
<1> QED BY <1>0, <1>1, <1>3, <1>4, <1>5, PartsOn

LEMMA PutParts ==
  ASSUME IInv, ~trespassed, Parts, NEW t \in Threads, Put(t), ~overrun'
  PROVE  Parts'
<1>0. TypeOK /\ Exclusive("ring")
  BY DEF IInv
<1>1. /\ ~Idle(t) /\ todo[t][1].op = "queue" /\ Arg(t) = todo[t][1].arg /\ todo[t][1] \in Ops
      /\ UNCHANGED lock /\ Done(t)
  BY <1>0, HeadType DEF Put, At, Arg
<1>2. Arg(t) \in Commands
  BY <1>1 DEF Ops
<1>3. Filled' /\ Told' /\ Length' = Length + Cells(Arg(t)) /\ Submitted' = Submitted
  BY <1>2, PutFills DEF Parts
<1>4. PICK a \in Meters : Moves(Held(t), todo[t][1], a)
  BY <1>0, <1>1, NextMoves, SharesIs DEF Parts
<1>5. Held(t) >= 0
  BY <1>1, <1>4 DEF Moves
<1>6. t \in lock["ring"].holding /\ Held(t) = Length - Submitted
  <2>1. /\ t \in lock["ring"].holding => Held(t) = Length - Submitted
        /\ t \notin lock["ring"].holding => Held(t) = -1
    BY HeldIs DEF Parts
  <2> QED BY <1>5, <2>1
<1>7. Held(t)' = Held(t) + Cells(Arg(t))
  <2>1. Held(t)' = (Length + Cells(Arg(t))) - Submitted
    BY <1>1, <1>3, <1>6 DEF Held
  <2>2. Length \in 0 .. Size /\ Submitted \in 0 .. Size - 1 /\ Cells(Arg(t)) \in {1, 2}
    BY <1>2, LengthIs, RowIs DEF Parts
  <2>3. (Length + Cells(Arg(t))) - Submitted = (Length - Submitted) + Cells(Arg(t))
    BY <2>2
  <2> QED BY <1>6, <2>1, <2>3
<1>8. \A b : Moves(Held(t), todo[t][1], b) => Held(t)' = b
  BY <1>1, <1>7 DEF Moves
<1>9. \A u \in Threads \ {t} : Held(u)' = Held(u)
  BY <1>0, <1>1, <1>6 DEF Exclusive, AtMostOne, Held
<1>10. AllMetered'
  BY <1>0, <1>1, <1>8, <1>9, MetersOn, SharesIs DEF Parts
<1>11. lock'["ring"].holding # {}
  BY <1>1, <1>6
<1>12. Shares'
  BY <1>10, <1>11 DEF Shares, AllMetered
<1> QED BY <1>3, <1>12 DEF Parts

LEMMA SubmitParts ==
  ASSUME IInv, ~trespassed, Parts, NEW t \in Threads, Submit(t), ~overrun'
  PROVE  Parts'
<1>0. TypeOK /\ LockTypeOK /\ Exclusive("ring") /\ "ring" \in Locks
  BY RingAssumption DEF IInv, TypeOK
<1>1. /\ ~Idle(t) /\ todo[t][1].op = "submit" /\ Leave("ring", t) /\ Done(t)
      /\ tail' = position /\ ~(position = head /\ unread # <<>>)
      /\ UNCHANGED <<cells, head, position, space, unread>>
  BY <1>0, HeadType DEF Submit, At
<1>2. PICK a \in Meters : Moves(Held(t), todo[t][1], a)
  BY <1>0, <1>1, NextMoves, SharesIs DEF Parts
<1>3. Held(t) >= 0
  BY <1>1, <1>2 DEF Moves
<1>4. t \in lock["ring"].holding
  <2>1. t \notin lock["ring"].holding => Held(t) = -1
    BY HeldIs DEF Parts
  <2> QED BY <1>3, <2>1
<1>5. lock'["ring"].holding = {}
  BY <1>0, <1>1, <1>4, LeaveExclusive
<1>6. Filled' /\ Told' /\ Length' = Length /\ Submitted' = Length
  BY <1>1, SubmitTells DEF Parts
<1>7. \A u : Held(u)' = -1
  BY <1>5 DEF Held
<1>8. \A u \in Threads \ {t} : Held(u)' = Held(u)
  BY <1>0, <1>4, <1>7 DEF Exclusive, AtMostOne, Held
<1>9. \A b : Moves(Held(t), todo[t][1], b) => Held(t)' = b
  BY <1>1, <1>7 DEF Moves
<1>10. AllMetered'
  BY <1>0, <1>1, <1>8, <1>9, MetersOn, SharesIs DEF Parts
<1>11. Shares'
  BY <1>6, <1>10 DEF Shares, AllMetered
<1> QED BY <1>6, <1>11 DEF Parts

LEMMA ExecuteParts ==
  ASSUME Parts, Execute
  PROVE  Parts'
<1>1. UNCHANGED <<lock, todo>>
  BY DEF Execute
<1>2. /\ Filled' /\ Told' /\ Length' - Submitted' = Length - Submitted
      /\ Submitted = Length => Submitted' = Length'
  BY ExecuteTakes DEF Parts
<1>3. \A u : Held(u)' = Held(u)
  BY <1>1, <1>2 DEF Held
<1>4. lock'["ring"].holding = {} => Submitted' = Length'
  BY <1>1, <1>2 DEF Parts, Shares
<1>5. Shares'
  BY <1>1, <1>3, <1>4 DEF Parts, Shares
<1> QED BY <1>2, <1>5 DEF Parts

LEMMA StepParts ==
  ASSUME IInv, ~trespassed', Parts, ~trespassed, NEW t \in Threads, Step(t), ~overrun'
  PROVE  Parts'
<1>0. TypeOK
  BY DEF IInv
<1>1. CASE Enter(t) \/ Wake(t)
  BY <1>1, EnterParts
<1>2. CASE Signal(t)
  BY <1>2, SignalParts
<1>3. CASE Release(t)
  BY <1>3, ReleaseParts
<1>4. CASE Stalled(t)
  BY <1>4 DEF Stalled
<1>5. CASE Put(t)
  BY <1>5, PutParts
<1>6. CASE Submit(t)
  BY <1>6, SubmitParts
<1>7. CASE SetCurrent(t) \/ FreeBuffer(t)
  <2>1. /\ ~Idle(t) /\ Done(t) /\ UNCHANGED <<lock, ringVars>>
        /\ todo[t][1].op \in {"current", "free"}
    BY <1>0, <1>7, HeadType DEF SetCurrent, FreeBuffer, At
  <2>2. \A b : Moves(Held(t), todo[t][1], b) => b = Held(t)
    BY <2>1 DEF Moves
  <2>3. UNCHANGED <<cells, head, tail, position, space, unread>>
    BY <2>1 DEF ringVars
  <2> QED BY <1>0, <2>1, <2>2, <2>3, PartsOn
<1> QED BY <1>1, <1>2, <1>3, <1>4, <1>5, <1>6, <1>7 DEF Step

LEMMA CallParts ==
  ASSUME IInv, Parts,
         \/ \E t \in Painters, sync \in BOOLEAN, count \in Fills : Paint(t, sync, count)
         \/ \E b \in Buffers : AllocateBuffer(b) \/ Show(b) \/ ReleaseBuffer(b)
         \/ Hide
  PROVE  Parts'
<1>0. Player \in Threads /\ Painters \subseteq Threads /\ TypeOK
  BY RingAssumption DEF IInv
<1>1. ASSUME NEW t \in Painters, NEW sync \in BOOLEAN, NEW count \in Fills,
             Paint(t, sync, count)
      PROVE  Parts'
  BY <1>0, <1>1, PaintFitting, BeginParts DEF Paint
<1>2. ASSUME NEW b \in Buffers, AllocateBuffer(b)
      PROVE  Parts'
  BY <1>0, <1>2, SmallFitting, BeginParts DEF AllocateBuffer
<1>3. ASSUME NEW b \in Buffers, Show(b)
      PROVE  Parts'
  <2> DEFINE p == (IF overlay.active THEN update_overlay ELSE show_overlay)
                  \o <<Op("current", b)>>
  <2>1. Fitting(p)
    BY SmallFitting, OverlayFitting, FittingConcat
  <2>2. Begin(Player, p)
    BY <1>3 DEF Show
  <2> QED BY <1>0, <2>1, <2>2, BeginParts
<1>4. ASSUME NEW b \in Buffers, ReleaseBuffer(b)
      PROVE  Parts'
  <2>1. Fitting(hide_overlay \o <<Op("free", b)>>) /\ Fitting(<<Op("free", b)>>)
    BY SmallFitting, OverlayFitting, FittingConcat
  <2>2. \/ Begin(Player, hide_overlay \o <<Op("free", b)>>)
        \/ Begin(Player, <<Op("free", b)>>)
    BY <1>4 DEF ReleaseBuffer
  <2> QED BY <1>0, <2>1, <2>2, BeginParts
<1>5. CASE Hide
  BY <1>0, <1>5, OverlayFitting, BeginParts DEF Hide
<1> QED BY <1>1, <1>2, <1>3, <1>4, <1>5

LEMMA InitLost == Init => LostInv
<1> SUFFICES ASSUME Init
             PROVE  Parts
  BY DEF LostInv, Parts
<1>1. unread = <<>> /\ head = 0 /\ tail = 0 /\ position = 0 /\ space = Size
  BY DEF Init
<1>2. Length = 0 /\ unread \in Seq(Commands)
  BY <1>1, LaidEmpty DEF Length
<1>3. 0 % Size = 0 /\ 0 \in 0 .. Size - 1
  BY Wraps, RingAssumption
<1>4. Submitted = 0
  <2>1. tail - head = 0
    BY <1>1
  <2> QED BY <1>3, <2>1 DEF Submitted
<1>5. Filled
  <2>1. head + Length = 0 /\ space + Length <= Size /\ 1 .. Length = {} /\ space \in Nat
    BY <1>1, <1>2, RingAssumption
  <2> QED BY <1>1, <1>2, <1>3, <2>1 DEF Filled
<1>6. Told
  <2>1. SubSeq(unread, 1, 0) = <<>> /\ Len(unread) = 0 /\ Len(<<>>) = 0
    BY <1>1
  <2>3. Laid(SubSeq(unread, 1, 0)) = <<>>
    BY <2>1, LaidEmpty, Zenon
  <2>2. Len(Laid(SubSeq(unread, 1, 0))) = 0 /\ 0 \in 0 .. Len(unread)
    BY <2>1, <2>3
  <2> QED BY <1>2, <1>4, <2>2 DEF Told
<1>7. \A t \in Threads : Held(t) = -1 /\ todo[t] = <<>>
  BY RingAssumption DEF Init, LockInit, Held
<1> QED BY <1>2, <1>4, <1>5, <1>6, <1>7, MeteredEmpty DEF Parts, Shares

LEMMA LostInductive == IInv /\ LostInv /\ [Next]_vars => LostInv'
<1> SUFFICES ASSUME IInv, LostInv, [Next]_vars, Whole'
             PROVE  Parts'
  BY DEF LostInv, Parts
<1>1. Whole /\ Parts
  <2>1. CASE UNCHANGED vars
    BY <2>1 DEF vars, ringVars, Whole, LostInv, Parts
  <2>2. CASE Next
    <3>1. trespassed => trespassed'
      BY <2>2 DEF Next, Paint, AllocateBuffer, Show, ReleaseBuffer, Hide, Begin, Step, Enter,
                  Wake, Signal, Release, Stalled, Put, Submit, SetCurrent, FreeBuffer,
                  Execute, Blank
    <3> QED BY <2>2, <3>1 DEF Next, Whole, LostInv, Parts
  <2> QED BY <2>1, <2>2
<1>2. TypeOK /\ ~trespassed /\ ~trespassed' /\ ~overrun'
  BY <1>1 DEF IInv, Whole
<1>3. CASE \E t \in Threads : Step(t)
  BY <1>1, <1>2, <1>3, StepParts
<1>4. CASE Execute
  BY <1>1, <1>4, ExecuteParts
<1>5. CASE Blank
  BY <1>1, <1>2, <1>5, PartsStay DEF Blank, ringVars
<1>6. CASE UNCHANGED vars
  BY <1>1, <1>2, <1>6, PartsStay DEF vars, ringVars
<1> QED BY <1>1, <1>3, <1>4, <1>5, <1>6, CallParts DEF Next

LEMMA LostMeans == IInv /\ LostInv => NothingLost
<1> SUFFICES ASSUME IInv, Parts
             PROVE  /\ Length < Size \/ tail # position
                    /\ position = (head + Length) % Size
                    /\ \A i \in 1 .. Length : cells[(head + i - 1) % Size] = Laid(unread)[i]
  BY DEF LostInv, Whole, Parts, NothingLost, Length
<1>1. /\ Length \in 0 .. Size /\ Submitted \in 0 .. Size - 1
      /\ head \in 0 .. Size - 1 /\ tail \in 0 .. Size - 1
      /\ position = IF head + Length < Size THEN head + Length ELSE head + Length - Size
  BY LengthIs DEF Parts, Filled
<1>2. /\ position = (head + Length) % Size
      /\ \A i \in 1 .. Length : cells[(head + (i - 1)) % Size] = Laid(unread)[i]
  BY DEF Parts, Filled
<1>3. \A i \in 1 .. Length : head + i - 1 = head + (i - 1)
  BY <1>1
<1>4. ASSUME ~(Length < Size), tail = position
      PROVE  FALSE
  <2>1. Length = Size /\ tail = head
    BY <1>1, <1>4, RingAssumption
  <2>2. Submitted = 0
    <3>1. Submitted = IF tail >= head THEN tail - head ELSE tail - head + Size
      BY <1>1, GapIs DEF Submitted
    <3> QED BY <1>1, <2>1, <3>1
  <2>3. PICK t : t \in lock["ring"].holding
    BY <2>1, <2>2, RingAssumption DEF Parts, Shares
  <2>4. t \in Threads /\ todo[t] \in Seq(Ops)
    BY <2>3, RingAssumption DEF IInv, TypeOK, LockTypeOK
  <2>5. Held(t) \in -1 .. Size - 1
    <3>1. 1 \in 1 .. Len(todo[t]) + 1
      BY <2>4
    <3> QED BY <2>4, <3>1 DEF Parts, Shares, Metered, Runs, Meters
  <2>6. Held(t) = Size
    <3>1. Held(t) = Length - Submitted
      BY <2>3 DEF Held
    <3> QED BY <2>1, <2>2, <3>1, RingAssumption
  <2> QED BY <2>5, <2>6, RingAssumption
<1> QED BY <1>2, <1>3, <1>4

\* The engine meets the commands that were queued, whole and in order, however many
\* threads queue them and wherever in the ring they wrap, until the ring was full or
\* a thread wrote without the lock (engine.cpp:112-151).
THEOREM RingLosesNothing == Spec => []NothingLost
<1> QED BY Initially, Inductive, InitLost, LostInductive, LostMeans, PTL DEF Spec

-----------------------------------------------------------------------------
(***************************************************************************)
(* What the overlay does when the engine executes commands: whether it is   *)
(* on after the last flip, and whether a flip may be under way that was not *)
(* waited for.                                                             *)
(***************************************************************************)
Stage == SUBSET {"on", "busy"}

Flow(a, c, b) ==
  /\ c \in Flips => /\ "busy" \notin a /\ "busy" \in b
                    /\ c = "on" <=> "on" \notin a
                    /\ "on" \in b <=> c # "off"
  /\ c = "wait" => b = a \ {"busy"}
  /\ c \in {"fill", "flush"} => b = a

Flows == [c \in Commands |-> {p \in Stage \X Stage : Flow(p[1], c, p[2])}]

(* And what the player's program makes of it, of current_overlay and of the *)
(* memory.                                                                 *)
Scene == [stage : Stage, current : Buffers \cup {None}, live : SUBSET Buffers]

Picture(j, current, rest) == [stage |-> j, current |-> current, live |-> rest]

Acts(e, x, f) ==
  /\ x.op = "queue" => Flow(e.stage, x.arg, f.stage) /\ f = [e EXCEPT !.stage = f.stage]
  /\ x.op = "current" => f = [e EXCEPT !.current = x.arg]
  /\ x.op = "free" => f = [e EXCEPT !.live = e.live \ {x.arg}]
  /\ x.op = "enter" => x.arg = "ring"
  /\ x.op \in {"enter", "submit", "leave"} => f = e

Plans == [x \in Ops |-> {p \in Scene \X Scene : Acts(p[1], x, p[2])}]

Films(s, e, f) == Runs(Plans, Scene, s, e, f)

LEMMA FlowIs ==
  ASSUME NEW c \in Commands, NEW a \in Stage, NEW b \in Stage
  PROVE  <<a, b>> \in Flows[c] <=> Flow(a, c, b)
BY DEF Flows

LEMMA PlanIs ==
  ASSUME NEW x \in Ops, NEW e \in Scene, NEW f \in Scene
  PROVE  <<e, f>> \in Plans[x] <=> Acts(e, x, f)
BY DEF Plans

LEMMA SceneIs ==
  ASSUME NEW j \in Stage, NEW c \in Buffers \cup {None}, NEW r \in SUBSET Buffers
  PROVE  /\ Picture(j, c, r) \in Scene
         /\ Picture(j, c, r).stage = j /\ Picture(j, c, r).current = c /\ Picture(j, c, r).live = r
BY DEF Picture, Scene

LEMMA FilmOne ==
  ASSUME NEW x \in Ops, NEW e \in Scene, NEW f \in Scene, Acts(e, x, f)
  PROVE  Films(<<x>>, e, f)
BY PlanIs, RunsOne DEF Films

LEMMA FilmConcat ==
  ASSUME NEW s \in Seq(Ops), NEW r \in Seq(Ops), NEW e, NEW f, NEW g,
         Films(s, e, f), Films(r, f, g)
  PROVE  Films(s \o r, e, g)
BY RunsConcat DEF Films

\* The commands of a block, queued one after the other.
LEMMA QueuesFilm ==
  ASSUME NEW cs \in Seq(Commands), NEW j, NEW k, Runs(Flows, Stage, cs, j, k),
         NEW c \in Buffers \cup {None}, NEW r \in SUBSET Buffers
  PROVE  /\ [i \in DOMAIN cs |-> Queue(cs[i])] \in Seq(Ops)
         /\ Films([i \in DOMAIN cs |-> Queue(cs[i])], Picture(j, c, r), Picture(k, c, r))
<1> DEFINE puts == [i \in DOMAIN cs |-> Queue(cs[i])]
           n == Len(cs)
<1>1. n \in Nat /\ DOMAIN cs = 1 .. n /\ \A i \in 1 .. n : cs[i] \in Commands
  OBVIOUS
<1>2. PICK w \in [1 .. n + 1 -> Stage] :
             /\ w[1] = j /\ w[n + 1] = k
             /\ \A i \in 1 .. n : <<w[i], w[i + 1]>> \in Flows[cs[i]]
  BY DEF Runs
<1>3. \A d \in Commands : Queue(d) \in Ops /\ Queue(d).op = "queue" /\ Queue(d).arg = d
  BY OpType DEF Queue, Op
<1>4. puts \in Seq(Ops) /\ Len(puts) = n /\ \A i \in 1 .. n : puts[i] = Queue(cs[i])
  BY <1>1, <1>3
<1> HIDE DEF puts, n
<1> DEFINE v == [i \in 1 .. n + 1 |-> Picture(w[i], c, r)]
<1>5. v \in [1 .. n + 1 -> Scene] /\ \A i \in 1 .. n + 1 : v[i] = Picture(w[i], c, r)
  BY <1>2, SceneIs
<1> HIDE DEF v
<1>6. v[1] = Picture(j, c, r) /\ v[n + 1] = Picture(k, c, r)
  <2>1. 1 \in 1 .. n + 1 /\ n + 1 \in 1 .. n + 1
    BY <1>1
  <2> QED BY <1>2, <1>5, <2>1
<1>7. ASSUME NEW i \in 1 .. n
      PROVE  <<v[i], v[i + 1]>> \in Plans[puts[i]]
  <2>1. i \in 1 .. n + 1 /\ i + 1 \in 1 .. n + 1
    BY <1>1
  <2>2. /\ w[i] \in Stage /\ w[i + 1] \in Stage
        /\ <<w[i], w[i + 1]>> \in Flows[cs[i]] /\ cs[i] \in Commands
    BY <1>1, <1>2, <2>1
  <2>3. Flow(w[i], cs[i], w[i + 1])
    BY <2>2, FlowIs
  <2>4. /\ v[i] = Picture(w[i], c, r) /\ v[i] \in Scene
        /\ v[i + 1] = Picture(w[i + 1], c, r) /\ v[i + 1] \in Scene
        /\ puts[i] = Queue(cs[i]) /\ puts[i] \in Ops
    BY <1>3, <1>4, <1>5, <2>1, <2>2
  <2>5. Acts(v[i], puts[i], v[i + 1])
    BY <1>3, <2>2, <2>3, <2>4, SceneIs DEF Acts, Picture
  <2> QED BY <2>4, <2>5, PlanIs
<1>8. Films(puts, Picture(j, c, r), Picture(k, c, r))
  BY <1>4, <1>5, <1>6, <1>7 DEF Films, Runs
<1> QED BY <1>4, <1>8 DEF puts

LEMMA BlockFilm ==
  ASSUME NEW cs \in Seq(Commands), NEW j \in Stage, NEW k \in Stage,
         Runs(Flows, Stage, cs, j, k),
         NEW c \in Buffers \cup {None}, NEW r \in SUBSET Buffers,
         NEW more \in Seq(Ops), NEW f \in Scene, Films(more, Picture(k, c, r), f)
  PROVE  Block(cs, more) \in Seq(Ops) /\ Films(Block(cs, more), Picture(j, c, r), f)
<1> DEFINE puts == [i \in DOMAIN cs |-> Queue(cs[i])]
           in == <<Op("enter", "ring")>>
           out == <<Do("submit")>>
           e == Picture(j, c, r)
           g == Picture(k, c, r)
<1>1. puts \in Seq(Ops) /\ Films(puts, e, g)
  BY QueuesFilm
<1>2. e \in Scene /\ g \in Scene
  BY SceneIs
<1>3. in \in Seq(Ops) /\ Films(in, e, e)
  <2>1. Op("enter", "ring") \in Ops /\ Acts(e, Op("enter", "ring"), e)
    BY OpType, RingAssumption DEF Acts, Op
  <2> QED BY <1>2, <2>1, FilmOne
<1>4. out \in Seq(Ops) /\ Films(out, f, f)
  <2>1. Do("submit") \in Ops /\ Acts(f, Do("submit"), f)
    BY OpType DEF Acts, Do, Op
  <2> QED BY <2>1, FilmOne
<1>5. Block(cs, more) = in \o puts \o more \o out
  BY Zenon DEF Block
<1> HIDE DEF puts, in, out, e, g
<1> DEFINE p == in \o puts
           q == p \o more
           b == q \o out
<1>6. p \in Seq(Ops) /\ Films(p, e, g)
  BY <1>1, <1>3, FilmConcat
<1>7. q \in Seq(Ops) /\ Films(q, e, f)
  <2>1. Films(more, g, f)
    BY DEF g
  <2> HIDE DEF p
  <2>2. q \in Seq(Ops)
    BY <1>6
  <2> QED BY <1>6, <2>1, <2>2, FilmConcat
<1>8. b \in Seq(Ops) /\ Films(b, e, f)
  <2> HIDE DEF q
  <2>1. b \in Seq(Ops)
    BY <1>4, <1>7
  <2> QED BY <1>4, <1>7, <2>1, FilmConcat
<1> QED BY <1>5, <1>8 DEF e

LEMMA FilmEmpty ==
  /\ \A e \in Scene : Films(<<>>, e, e)
  /\ \A e, f : Films(<<>>, e, f) => e = f
BY RunsEmpty DEF Films

LEMMA FilmTail ==
  ASSUME NEW s \in Seq(Ops), s # <<>>, NEW e, NEW f, Films(s, e, f)
  PROVE  e \in Scene /\ \E g \in Scene : Acts(e, s[1], g) /\ Films(Tail(s), g, f)
<1>1. s[1] \in Ops
  OBVIOUS
<1>2. e \in Scene /\ \E g \in Scene : <<e, g>> \in Plans[s[1]] /\ Films(Tail(s), g, f)
  BY RunsTail DEF Films
<1> QED BY <1>1, <1>2, PlanIs

-----------------------------------------------------------------------------
(* What the programs of the calls do to the overlay.                       *)

LEMMA StageIs ==
  /\ {} \in Stage /\ {"on"} \in Stage /\ {"on", "busy"} \in Stage
  /\ \A j \in Stage : "on" \in j => j = {"on"} \/ j = {"on", "busy"}
  /\ \A j \in Stage : "on" \notin j /\ "busy" \notin j => j = {}
BY DEF Stage

LEMMA ShowFlow == Runs(Flows, Stage, <<"on", "flush">>, {}, {"on", "busy"})
<1> DEFINE s == <<"on", "flush">>
           w == [i \in 1 .. 3 |-> IF i = 1 THEN {} ELSE {"on", "busy"}]
<1>1. w \in [1 .. 3 -> Stage] /\ w[1] = {} /\ w[2] = {"on", "busy"} /\ w[3] = {"on", "busy"}
  BY StageIs
<1>2. /\ Len(s) = 2 /\ s[1] = "on" /\ s[2] = "flush"
      /\ 1 .. 2 = {1, 2} /\ 1 + 1 = 2 /\ 2 + 1 = 3
  OBVIOUS
<1> HIDE DEF s, w
<1>3. Flow(w[1], s[1], w[2]) /\ Flow(w[2], s[2], w[3])
  BY <1>1, <1>2 DEF Flow, Flips
<1>4. <<w[1], w[2]>> \in Flows[s[1]] /\ <<w[2], w[3]>> \in Flows[s[2]]
  <2>1. \A i \in 1 .. 3 : w[i] \in Stage
    BY <1>1
  <2> QED BY <1>2, <1>3, <2>1, FlowIs DEF Commands
<1>5. Runs(Flows, Stage, s, {}, {"on", "busy"})
  BY <1>1, <1>2, <1>4 DEF Runs
<1> QED BY <1>5 DEF s

LEMMA UpdateFlow ==
  ASSUME NEW j \in Stage, "on" \in j
  PROVE  Runs(Flows, Stage, <<"flush", "wait", "continue", "wait", "flush">>, j, {"on"})
<1> DEFINE s == <<"flush", "wait", "continue", "wait", "flush">>
           w == [i \in 1 .. 6 |-> IF i <= 2 THEN j
                                 ELSE IF i = 4 THEN {"on", "busy"} ELSE {"on"}]
<1>1. /\ w \in [1 .. 6 -> Stage] /\ w[1] = j /\ w[2] = j /\ w[3] = {"on"}
      /\ w[4] = {"on", "busy"} /\ w[5] = {"on"} /\ w[6] = {"on"}
  BY StageIs
<1>2. /\ Len(s) = 5 /\ s[1] = "flush" /\ s[2] = "wait" /\ s[3] = "continue"
      /\ s[4] = "wait" /\ s[5] = "flush"
      /\ 1 .. 5 = {1, 2, 3, 4, 5}
      /\ 1 + 1 = 2 /\ 2 + 1 = 3 /\ 3 + 1 = 4 /\ 4 + 1 = 5 /\ 5 + 1 = 6
  OBVIOUS
<1>3. j \ {"busy"} = {"on"} /\ {"on", "busy"} \ {"busy"} = {"on"}
  BY StageIs
<1> HIDE DEF s, w
<1>4. /\ Flow(w[1], s[1], w[2]) /\ Flow(w[2], s[2], w[3]) /\ Flow(w[3], s[3], w[4])
      /\ Flow(w[4], s[4], w[5]) /\ Flow(w[5], s[5], w[6])
  BY <1>1, <1>2, <1>3 DEF Flow, Flips
<1>5. /\ <<w[1], w[2]>> \in Flows[s[1]] /\ <<w[2], w[3]>> \in Flows[s[2]]
      /\ <<w[3], w[4]>> \in Flows[s[3]] /\ <<w[4], w[5]>> \in Flows[s[4]]
      /\ <<w[5], w[6]>> \in Flows[s[5]]
  <2>1. \A i \in 1 .. 6 : w[i] \in Stage
    BY <1>1
  <2> QED BY <1>2, <1>4, <2>1, FlowIs DEF Commands
<1>6. \A i \in 1 .. Len(s) : <<w[i], w[i + 1]>> \in Flows[s[i]]
  BY <1>2, <1>5
<1>7. Len(s) + 1 = 6
  BY <1>2
<1>8. Runs(Flows, Stage, s, j, {"on"})
  BY <1>1, <1>6, <1>7 DEF Runs
<1> QED BY <1>8 DEF s

LEMMA HideFlow ==
  ASSUME NEW j \in Stage, "on" \in j
  PROVE  Runs(Flows, Stage, <<"flush", "wait", "continue", "wait", "off", "wait">>, j, {})
<1> DEFINE s == <<"flush", "wait", "continue", "wait", "off", "wait">>
           w == [i \in 1 .. 7 |-> IF i <= 2 THEN j ELSE IF i = 4 THEN {"on", "busy"}
                                 ELSE IF i = 6 THEN {"busy"}
                                 ELSE IF i = 7 THEN {} ELSE {"on"}]
<1>1. /\ w \in [1 .. 7 -> Stage] /\ w[1] = j /\ w[2] = j /\ w[3] = {"on"}
      /\ w[4] = {"on", "busy"} /\ w[5] = {"on"} /\ w[6] = {"busy"} /\ w[7] = {}
  <2>1. {"busy"} \in Stage
    BY DEF Stage
  <2>2. w \in [1 .. 7 -> Stage]
    BY <2>1, StageIs
  <2> QED BY <2>2
<1>2. /\ Len(s) = 6 /\ s[1] = "flush" /\ s[2] = "wait" /\ s[3] = "continue"
      /\ s[4] = "wait" /\ s[5] = "off" /\ s[6] = "wait"
      /\ 1 .. 6 = {1, 2, 3, 4, 5, 6}
      /\ 1 + 1 = 2 /\ 2 + 1 = 3 /\ 3 + 1 = 4 /\ 4 + 1 = 5 /\ 5 + 1 = 6 /\ 6 + 1 = 7
  OBVIOUS
<1>3. j \ {"busy"} = {"on"} /\ {"on", "busy"} \ {"busy"} = {"on"} /\ {"busy"} \ {"busy"} = {}
  BY StageIs
<1> HIDE DEF s, w
<1>4. /\ Flow(w[1], s[1], w[2]) /\ Flow(w[2], s[2], w[3]) /\ Flow(w[3], s[3], w[4])
      /\ Flow(w[4], s[4], w[5]) /\ Flow(w[5], s[5], w[6]) /\ Flow(w[6], s[6], w[7])
  BY <1>1, <1>2, <1>3 DEF Flow, Flips
<1>5. /\ <<w[1], w[2]>> \in Flows[s[1]] /\ <<w[2], w[3]>> \in Flows[s[2]]
      /\ <<w[3], w[4]>> \in Flows[s[3]] /\ <<w[4], w[5]>> \in Flows[s[4]]
      /\ <<w[5], w[6]>> \in Flows[s[5]] /\ <<w[6], w[7]>> \in Flows[s[6]]
  <2>1. \A i \in 1 .. 7 : w[i] \in Stage
    BY <1>1
  <2> QED BY <1>2, <1>4, <2>1, FlowIs DEF Commands
<1>6. \A i \in 1 .. Len(s) : <<w[i], w[i + 1]>> \in Flows[s[i]]
  BY <1>2, <1>5
<1>7. Len(s) + 1 = 7
  BY <1>2
<1>8. Runs(Flows, Stage, s, j, {})
  BY <1>1, <1>6, <1>7 DEF Runs
<1> QED BY <1>8 DEF s

LEMMA OverlayCommands ==
  /\ <<"on", "flush">> \in Seq(Commands)
  /\ <<"flush", "wait", "continue", "wait", "flush">> \in Seq(Commands)
  /\ <<"flush", "wait", "continue", "wait", "off", "wait">> \in Seq(Commands)
BY DEF Commands

LEMMA ShowFilm ==
  ASSUME NEW j \in Stage, NEW c \in Buffers \cup {None}, NEW r \in SUBSET Buffers,
         NEW b \in Buffers
  PROVE  /\ "on" \notin j /\ "busy" \notin j =>
              Films(show_overlay \o <<Op("current", b)>>, Picture(j, c, r),
                    Picture({"on", "busy"}, b, r))
         /\ "on" \in j =>
              Films(update_overlay \o <<Op("current", b)>>, Picture(j, c, r), Picture({"on"}, b, r))
<1> DEFINE x == Op("current", b)
<1>0. b \in Buffers \cup {None}
  OBVIOUS
<1>1. ASSUME NEW k \in Stage
      PROVE  Films(<<x>>, Picture(k, c, r), Picture(k, b, r)) /\ <<x>> \in Seq(Ops)
  <2>1. x \in Ops /\ Picture(k, c, r) \in Scene /\ Picture(k, b, r) \in Scene
    BY <1>0, OpType, SceneIs
  <2>2. Acts(Picture(k, c, r), x, Picture(k, b, r))
    BY DEF Acts, Picture, Op
  <2> HIDE DEF x
  <2> QED BY <2>1, <2>2, FilmOne
<1>2. ASSUME NEW k \in Stage
      PROVE  <<>> \in Seq(Ops) /\ Picture(k, c, r) \in Scene
             /\ Films(<<>>, Picture(k, c, r), Picture(k, c, r))
  BY SceneIs, FilmEmpty
<1> HIDE DEF x
<1>3. ASSUME "on" \notin j, "busy" \notin j
      PROVE  Films(show_overlay \o <<x>>, Picture(j, c, r), Picture({"on", "busy"}, b, r))
  <2>1. j = {} /\ {"on", "busy"} \in Stage
    BY <1>3, StageIs
  <2>2. /\ show_overlay \in Seq(Ops)
        /\ Films(show_overlay, Picture(j, c, r), Picture({"on", "busy"}, c, r))
    BY <1>2, <2>1, ShowFlow, OverlayCommands, BlockFilm DEF show_overlay, Queued
  <2> QED BY <1>1, <2>1, <2>2, FilmConcat
<1>4. ASSUME "on" \in j
      PROVE  Films(update_overlay \o <<x>>, Picture(j, c, r), Picture({"on"}, b, r))
  <2>1. /\ update_overlay \in Seq(Ops)
        /\ Films(update_overlay, Picture(j, c, r), Picture({"on"}, c, r))
    <3> DEFINE cs == <<"flush", "wait", "continue", "wait", "flush">>
    <3>1. cs \in Seq(Commands) /\ Runs(Flows, Stage, cs, j, {"on"}) /\ {"on"} \in Stage
      BY <1>4, StageIs, UpdateFlow, OverlayCommands
    <3>2. update_overlay = Block(cs, <<>>)
      BY DEF update_overlay, Queued
    <3> HIDE DEF cs
    <3> QED BY <1>2, <3>1, <3>2, BlockFilm
  <2> QED BY <1>1, <2>1, StageIs, FilmConcat
<1> QED BY <1>3, <1>4 DEF x

LEMMA HideFilm ==
  ASSUME NEW j \in Stage, "on" \in j, NEW c \in Buffers \cup {None}, NEW r \in SUBSET Buffers
  PROVE  hide_overlay \in Seq(Ops) /\ Films(hide_overlay, Picture(j, c, r), Picture({}, None, r))
<1> DEFINE x == Op("current", None)
           cs == <<"flush", "wait", "continue", "wait", "off", "wait">>
<1>1. /\ x \in Ops /\ Picture({}, c, r) \in Scene /\ Picture({}, None, r) \in Scene
      /\ <<x>> \in Seq(Ops)
  BY OpType, SceneIs, StageIs
<1>2. Acts(Picture({}, c, r), x, Picture({}, None, r))
  BY DEF Acts, Picture, Op
<1>3. cs \in Seq(Commands) /\ Runs(Flows, Stage, cs, j, {})
  BY OverlayCommands, HideFlow
<1>4. hide_overlay = Block(cs, <<x>>)
  BY DEF hide_overlay
<1> HIDE DEF x, cs
<1>5. Films(<<x>>, Picture({}, c, r), Picture({}, None, r))
  BY <1>1, <1>2, FilmOne
<1>6. {} \in Stage
  BY StageIs
<1> QED BY <1>1, <1>3, <1>4, <1>5, <1>6, BlockFilm

LEMMA FreeFilm ==
  ASSUME NEW j \in Stage, NEW c \in Buffers \cup {None}, NEW r \in SUBSET Buffers,
         NEW b \in Buffers
  PROVE  /\ Films(<<Op("free", b)>>, Picture(j, c, r), Picture(j, c, r \ {b}))
         /\ "on" \in j =>
              Films(hide_overlay \o <<Op("free", b)>>, Picture(j, c, r), Picture({}, None, r \ {b}))
<1> DEFINE x == Op("free", b)
<1>1. ASSUME NEW k \in Stage, NEW d \in Buffers \cup {None}
      PROVE  Films(<<x>>, Picture(k, d, r), Picture(k, d, r \ {b})) /\ <<x>> \in Seq(Ops)
  <2>1. x \in Ops /\ Picture(k, d, r) \in Scene /\ Picture(k, d, r \ {b}) \in Scene
    BY OpType, SceneIs
  <2>2. Acts(Picture(k, d, r), x, Picture(k, d, r \ {b}))
    BY DEF Acts, Picture, Op
  <2> HIDE DEF x
  <2> QED BY <2>1, <2>2, FilmOne
<1> HIDE DEF x
<1>2. ASSUME "on" \in j
      PROVE  Films(hide_overlay \o <<x>>, Picture(j, c, r), Picture({}, None, r \ {b}))
  BY <1>1, <1>2, HideFilm, StageIs, FilmConcat
<1> QED BY <1>1, <1>2 DEF x

-----------------------------------------------------------------------------
(* Which programs flip.                                                    *)
Flipping(x) == x.op = "queue" /\ x.arg \in Flips
Flipless(s) == \A i \in 1 .. Len(s) : ~Flipping(s[i])

LEMMA BlockFlips ==
  ASSUME NEW cs \in Seq(Commands), NEW i \in 1 .. Len(cs), cs[i] \in Flips,
         NEW more \in Seq(Ops), NEW rest \in Seq(Ops)
  PROVE  ~Flipless(Block(cs, more)) /\ ~Flipless(Block(cs, more) \o rest)
<1> DEFINE puts == [k \in DOMAIN cs |-> Queue(cs[k])]
           in == <<Op("enter", "ring")>>
           out == <<Do("submit")>>
           n == Len(cs)
           m == Len(more)
           p == in \o puts
           q == p \o more
           b == q \o out
           z == b \o rest
<1>1. /\ \A c \in Commands : Queue(c) \in Ops
      /\ in \in Seq(Ops) /\ out \in Seq(Ops) /\ Len(in) = 1 /\ Len(out) = 1
  BY OpType, RingAssumption
<1>2. puts \in Seq(Ops) /\ Len(puts) = n /\ n \in Nat /\ puts[i] = Queue(cs[i])
  BY <1>1
<1>3. Block(cs, more) = b
  BY Zenon DEF Block
<1> HIDE DEF puts, in, out
<1>4. p \in Seq(Ops) /\ Len(p) = 1 + n /\ p[i + 1] = puts[i]
  <2>1. /\ p \in Seq(Ops) /\ Len(p) = Len(in) + Len(puts)
        /\ \A k \in 1 .. Len(puts) : p[k + Len(in)] = puts[k]
    BY <1>1, <1>2, Joined
  <2> QED BY <1>1, <1>2, <2>1
<1> HIDE DEF p
<1>5. q \in Seq(Ops) /\ Len(q) >= 1 + n /\ q[i + 1] = puts[i]
  <2>1. i + 1 \in 1 .. Len(p)
    BY <1>2, <1>4
  <2> QED BY <1>2, <1>4, <2>1, Joined
<1> HIDE DEF q
<1>6. b \in Seq(Ops) /\ Len(b) >= 1 + n /\ b[i + 1] = puts[i]
  <2>1. i + 1 \in 1 .. Len(q)
    BY <1>2, <1>5
  <2> QED BY <1>1, <1>2, <1>5, <2>1, Joined
<1> HIDE DEF b
<1>7. z \in Seq(Ops) /\ Len(z) >= 1 + n /\ z[i + 1] = puts[i]
  <2>1. i + 1 \in 1 .. Len(b)
    BY <1>2, <1>6
  <2> QED BY <1>2, <1>6, <2>1, Joined
<1>8. Flipping(puts[i])
  BY <1>2 DEF Flipping, Queue, Op
<1>9. i + 1 \in 1 .. Len(b) /\ i + 1 \in 1 .. Len(z)
  BY <1>2, <1>6, <1>7
<1>10. ~Flipless(b)
  BY <1>6, <1>8, <1>9 DEF Flipless
<1>11. ~Flipless(z)
  BY <1>7, <1>8, <1>9 DEF Flipless
<1> QED BY <1>3, <1>10, <1>11

LEMMA OverlayFlips ==
  ASSUME NEW rest \in Seq(Ops)
  PROVE  /\ ~Flipless(show_overlay \o rest) /\ ~Flipless(update_overlay \o rest)
         /\ ~Flipless(hide_overlay) /\ ~Flipless(hide_overlay \o rest)
<1>1. ~Flipless(show_overlay \o rest)
  <2>1. 1 \in 1 .. Len(<<"on", "flush">>) /\ <<"on", "flush">>[1] \in Flips
    BY DEF Flips
  <2> QED BY <2>1, OverlayCommands, <<>> \in Seq(Ops), BlockFlips DEF show_overlay, Queued
<1>2. ~Flipless(update_overlay \o rest)
  <2> DEFINE s == <<"flush", "wait", "continue", "wait", "flush">>
  <2>1. 3 \in 1 .. Len(s) /\ s[3] \in Flips
    BY DEF Flips
  <2> QED BY <2>1, OverlayCommands, <<>> \in Seq(Ops), BlockFlips DEF update_overlay, Queued
<1>3. ~Flipless(hide_overlay) /\ ~Flipless(hide_overlay \o rest)
  <2> DEFINE s == <<"flush", "wait", "continue", "wait", "off", "wait">>
             more == <<Op("current", None)>>
  <2>1. 3 \in 1 .. Len(s) /\ s[3] \in Flips
    BY DEF Flips
  <2>2. more \in Seq(Ops)
    BY OpType
  <2> QED BY <2>1, <2>2, OverlayCommands, BlockFlips DEF hide_overlay
<1> QED BY <1>1, <1>2, <1>3

\* What the painters queue leaves the overlay alone.
Plain(x) == \/ x.op \in {"enter", "leave", "submit"}
            \/ x.op = "queue" /\ x.arg \in {"fill", "flush"}
Painted(p) == p \in Seq(Ops) /\ \A i \in 1 .. Len(p) : Plain(p[i])

LEMMA PaintedConcat ==
  ASSUME NEW p, NEW q, Painted(p), Painted(q)
  PROVE  Painted(p \o q)
<1> DEFINE n == Len(p)
           m == Len(q)
           w == p \o q
<1>1. p \in Seq(Ops) /\ q \in Seq(Ops)
  BY DEF Painted
<1>2. /\ w \in Seq(Ops) /\ n \in Nat /\ m \in Nat /\ Len(w) = n + m
      /\ \A i \in 1 .. n : w[i] = p[i]
      /\ \A i \in 1 .. m : w[i + n] = q[i]
  BY <1>1, Joined
<1> HIDE DEF w, n, m
<1>3. ASSUME NEW i \in 1 .. n + m
      PROVE  Plain(w[i])
  <2>1. CASE i \in 1 .. n
    BY <1>2, <2>1 DEF Painted, n
  <2>2. CASE i \notin 1 .. n
    <3> DEFINE k == i - n
    <3>1. k \in 1 .. m /\ k + n = i
      BY <1>2, <2>2
    <3> HIDE DEF k
    <3>2. w[i] = q[k]
      BY <1>2, <3>1
    <3> QED BY <3>1, <3>2 DEF Painted, m
  <2> QED BY <2>1, <2>2
<1> QED BY <1>2, <1>3 DEF Painted, w

LEMMA QueuedPainted ==
  ASSUME NEW cs \in Seq({"fill", "flush"})
  PROVE  Painted(Queued(cs))
<1> DEFINE puts == [i \in DOMAIN cs |-> Queue(cs[i])]
           in == <<Op("enter", "ring")>>
           out == <<Do("submit")>>
<1>1. \A i \in 1 .. Len(cs) : cs[i] \in {"fill", "flush"} /\ cs[i] \in Commands
  BY DEF Commands
<1>2. Painted(puts)
  <2>1. \A c \in Commands : Queue(c) \in Ops /\ Queue(c).op = "queue" /\ Queue(c).arg = c
    BY OpType DEF Queue, Op
  <2>2. puts \in Seq(Ops) /\ Len(puts) = Len(cs)
        /\ \A i \in 1 .. Len(cs) : puts[i] = Queue(cs[i])
    BY <1>1, <2>1
  <2> HIDE DEF puts
  <2> QED BY <1>1, <2>1, <2>2 DEF Painted, Plain
<1>3. Painted(in)
  BY OpType, RingAssumption DEF Painted, Plain, Op
<1>4. Painted(out)
  BY OpType DEF Painted, Plain, Do, Op
<1>5. Painted(<<>>)
  BY <<>> \in Seq(Ops) DEF Painted
<1>6. Queued(cs) = in \o puts \o <<>> \o out
  BY Zenon DEF Queued, Block
<1> HIDE DEF puts, in, out
<1> QED BY <1>2, <1>3, <1>4, <1>5, <1>6, PaintedConcat

LEMMA PaintPainted ==
  ASSUME NEW sync \in BOOLEAN, NEW count \in Fills
  PROVE  Painted(intel_acquire_engine(sync) \o intel_fill_rectangle(count)
                 \o intel_release_engine)
<1>1. Painted(intel_wait_engine_idle)
  <2>1. <<"flush">> \in Seq({"fill", "flush"})
    OBVIOUS
  <2> QED BY <2>1, QueuedPainted DEF intel_wait_engine_idle
<1>2. Painted(intel_fill_rectangle(count))
  <2>1. [i \in 1 .. count |-> "fill"] \in Seq({"fill", "flush"})
    BY RingAssumption
  <2> QED BY <2>1, QueuedPainted DEF intel_fill_rectangle
<1>3. Painted(<<>>)
  BY <<>> \in Seq(Ops) DEF Painted
<1>4. Painted(<<Op("enter", "engine")>>) /\ Painted(<<Op("leave", "engine")>>)
  BY OpType, RingAssumption DEF Painted, Plain, Op
<1>5. Painted(intel_acquire_engine(sync))
  BY <1>1, <1>3, <1>4, PaintedConcat DEF intel_acquire_engine
<1> QED BY <1>2, <1>4, <1>5, PaintedConcat DEF intel_release_engine

-----------------------------------------------------------------------------
(***************************************************************************)
(* There is a film: from what the overlay does, through the commands not    *)
(* yet executed, to what it will do, and from there through the rest of the *)
(* player's program to a scene in which it is on, of a buffer that is       *)
(* allocated, exactly when the shared info says that it is active.          *)
(***************************************************************************)
OverlayType ==
  /\ overlay \in [active : BOOLEAN, enabled : BOOLEAN,
                  buffer : Buffers \cup {None}, current : Buffers \cup {None}]
  /\ screen \in [on : BOOLEAN, showing : Buffers \cup {None}, flip : Flips \cup {None}]
  /\ live \in SUBSET Buffers
  /\ overlay.active => overlay.enabled

PaintersPaint == \A t \in Painters : Painted(todo[t])

Steered(a, j, e) ==
  /\ "on" \in a <=> IF screen.flip = None THEN screen.on ELSE screen.flip # "off"
  /\ screen.flip # None => "busy" \in a
  /\ Runs(Flows, Stage, unread, a, j)
  /\ Films(todo[Player], Picture(j, overlay.current, live), e)

Directed(e) ==
  /\ "on" \in e.stage <=> overlay.active
  /\ "busy" \in e.stage => overlay.active
  /\ overlay.active => e.current = overlay.buffer /\ overlay.buffer \in e.live

Film == \E a \in Stage, j \in Stage, e \in Scene : Steered(a, j, e) /\ Directed(e)

\* Nothing is on its way that would flip.
NoFlips(s) == \A i \in 1 .. Len(s) : s[i] \notin Flips
Settled == screen.flip = None /\ NoFlips(unread) /\ Flipless(todo[Player])
Shown == IF overlay.active THEN overlay.buffer ELSE None

FilmParts ==
  /\ OverlayType /\ PaintersPaint /\ Film
  /\ Settled => screen.showing = Shown

OverlayInv == IF Whole THEN FilmParts ELSE OverlayShowsWhatIsLive

LEMMA FliplessTail ==
  ASSUME NEW s \in Seq(Ops), s # <<>>, ~Flipping(s[1]), Flipless(Tail(s))
  PROVE  Flipless(s)
<1> SUFFICES ASSUME NEW i \in 1 .. Len(s)
             PROVE  ~Flipping(s[i])
  BY DEF Flipless
<1>1. CASE i = 1
  BY <1>1
<1>2. CASE i # 1
  <2>1. /\ i - 1 \in 1 .. Len(Tail(s)) /\ (i - 1) + 1 = i
        /\ \A k \in 1 .. Len(Tail(s)) : Tail(s)[k] = s[k + 1]
    BY <1>2, TailType
  <2> QED BY <2>1 DEF Flipless
<1> QED BY <1>1, <1>2

LEMMA NoFlipsTail ==
  ASSUME NEW s \in Seq(Commands), s # <<>>, s[1] \notin Flips, NoFlips(Tail(s))
  PROVE  NoFlips(s)
<1> SUFFICES ASSUME NEW i \in 1 .. Len(s)
             PROVE  s[i] \notin Flips
  BY DEF NoFlips
<1>1. CASE i = 1
  BY <1>1
<1>2. CASE i # 1
  <2>1. i - 1 \in 1 .. Len(Tail(s)) /\ Tail(s)[i - 1] = s[i]
    BY <1>2
  <2> QED BY <2>1 DEF NoFlips
<1> QED BY <1>1, <1>2

LEMMA NoFlipsAppend ==
  ASSUME NEW s \in Seq(Commands), NEW c \in Commands, NoFlips(Append(s, c))
  PROVE  NoFlips(s) /\ c \notin Flips
<1>1. /\ Len(Append(s, c)) = Len(s) + 1 /\ Len(s) \in Nat /\ Append(s, c)[Len(s) + 1] = c
      /\ \A i \in 1 .. Len(s) : Append(s, c)[i] = s[i]
  OBVIOUS
<1>2. Len(s) + 1 \in 1 .. Len(s) + 1 /\ \A i \in 1 .. Len(s) : i \in 1 .. Len(s) + 1
  BY <1>1
<1> QED BY <1>1, <1>2 DEF NoFlips

LEMMA StageKept ==
  ASSUME NEW s \in Seq(Commands), NoFlips(s), NEW a \in Stage, NEW b \in Stage,
         Runs(Flows, Stage, s, a, b)
  PROVE  "on" \in a <=> "on" \in b
<1> DEFINE T == {x \in Stage : "on" \in a <=> "on" \in x}
<1>1. ASSUME NEW i \in 1 .. Len(s), NEW p \in T, NEW q \in Stage, <<p, q>> \in Flows[s[i]]
      PROVE  q \in T
  <2>1. s[i] \in Commands /\ s[i] \notin Flips
    BY DEF NoFlips
  <2>2. Flow(p, s[i], q)
    BY <1>1, <2>1, FlowIs
  <2>3. q = p \/ q = p \ {"busy"}
    BY <2>1, <2>2 DEF Flow, Flips, Commands
  <2> QED BY <2>3
<1>2. a \in T /\ T \in SUBSET Stage
  OBVIOUS
<1> HIDE DEF T
<1>3. b \in T
  BY <1>1, <1>2, RunsKeep
<1> QED BY <1>3 DEF T

LEMMA FilmKept ==
  ASSUME NEW s \in Seq(Ops), Flipless(s), NEW e \in Scene, NEW f \in Scene, Films(s, e, f)
  PROVE  "on" \in e.stage <=> "on" \in f.stage
<1> DEFINE T == {x \in Scene : "on" \in e.stage <=> "on" \in x.stage}
<1>1. ASSUME NEW i \in 1 .. Len(s), NEW p \in T, NEW q \in Scene, <<p, q>> \in Plans[s[i]]
      PROVE  q \in T
  <2>1. s[i] \in Ops /\ ~Flipping(s[i])
    BY DEF Flipless
  <2>2. Acts(p, s[i], q)
    BY <1>1, <2>1, PlanIs
  <2>3. CASE s[i].op = "queue"
    <3>1. s[i].arg \in Commands /\ s[i].arg \notin Flips
      BY <2>1, <2>3 DEF Flipping, Ops
    <3>2. Flow(p.stage, s[i].arg, q.stage)
      BY <2>2, <2>3 DEF Acts
    <3>3. q.stage = p.stage \/ q.stage = p.stage \ {"busy"}
      BY <3>1, <3>2 DEF Flow, Flips, Commands
    <3> QED BY <3>3
  <2>4. CASE s[i].op # "queue"
    <3>1. s[i].op \in {"enter", "leave", "submit", "current", "free"}
      BY <2>1, <2>4 DEF Ops
    <3>2. q.stage = p.stage
      BY <2>2, <3>1 DEF Acts, Scene
    <3> QED BY <3>2
  <2> QED BY <2>3, <2>4
<1>2. e \in T /\ T \in SUBSET Scene
  OBVIOUS
<1> HIDE DEF T
<1>3. f \in T
  BY <1>1, <1>2, RunsKeep DEF Films
<1> QED BY <1>3 DEF T

-----------------------------------------------------------------------------
(* The steps and the overlay. *)

LEMMA ProgramIs ==
  ASSUME TypeOK
  PROVE  Player \in Threads /\ Painters = Threads \ {Player} /\ todo[Player] \in Seq(Ops)
BY RingAssumption DEF TypeOK

\* The player begins a call: it ends as the shared info now says.
LEMMA PlayerBegins ==
  ASSUME TypeOK, FilmParts, NEW p, Begin(Player, p), UNCHANGED screen, OverlayType',
         overlay'.current = overlay.current,
         ~Flipless(p) \/ Shown' = Shown,
         \A j \in Stage :
           /\ "on" \in j <=> overlay.active
           /\ "busy" \in j => overlay.active
           /\ overlay.active => overlay.current = overlay.buffer /\ overlay.buffer \in live
           => \E e \in Scene : Films(p, Picture(j, overlay.current, live'), e) /\ Directed(e)'
  PROVE  FilmParts'
<1>1. /\ todo[Player] = <<>> /\ todo'[Player] = p
      /\ \A t \in Painters : todo'[t] = todo[t]
      /\ unread' = unread
  BY ProgramIs DEF Begin, Idle, TypeOK, ringVars
<1>2. PICK a \in Stage, j \in Stage, e \in Scene : Steered(a, j, e) /\ Directed(e)
  BY DEF FilmParts, Film
<1>3. e = Picture(j, overlay.current, live)
  BY <1>1, <1>2, FilmEmpty DEF Steered
<1>4. e.stage = j /\ e.current = overlay.current /\ e.live = live
  BY <1>3 DEF Picture
<1>5. PICK f \in Scene : Films(p, Picture(j, overlay.current, live'), f) /\ Directed(f)'
  BY <1>2, <1>4 DEF Directed
<1>6. Steered(a, j, f)'
  BY <1>1, <1>2, <1>5 DEF Steered
<1>7. Film'
  BY <1>5, <1>6 DEF Film
<1>8. Settled' => screen'.showing = Shown'
  <2>1. SUFFICES ASSUME Settled'
                 PROVE  screen'.showing = Shown'
    OBVIOUS
  <2>2. Flipless(p) /\ NoFlips(unread) /\ screen.flip = None
    BY <1>1, <2>1 DEF Settled
  <2>3. Flipless(<<>>)
    BY DEF Flipless
  <2> QED BY <1>1, <2>2, <2>3 DEF Settled, FilmParts
<1>9. PaintersPaint'
  BY <1>1 DEF FilmParts, PaintersPaint
<1> QED BY <1>7, <1>8, <1>9 DEF FilmParts

\* A painter goes on, and nothing of the film changes.
LEMMA PainterFilm ==
  ASSUME TypeOK, FilmParts, UNCHANGED <<unread, overlay, screen, live>>,
         todo'[Player] = todo[Player],
         \A t \in Painters : Painted(todo'[t])
  PROVE  FilmParts'
<1>1. PICK a \in Stage, j \in Stage, e \in Scene : Steered(a, j, e) /\ Directed(e)
  BY DEF FilmParts, Film
<1>2. Steered(a, j, e)' /\ Directed(e)'
  BY <1>1 DEF Steered, Directed
<1>3. Film'
  BY <1>2 DEF Film
<1>4. OverlayType' /\ Settled' = Settled /\ Shown' = Shown
  BY DEF OverlayType, FilmParts, Settled, Shown
<1> QED BY <1>3, <1>4 DEF FilmParts, PaintersPaint

LEMMA PaintedTail ==
  ASSUME TypeOK, PaintersPaint, NEW t \in Painters, ~Idle(t), Done(t)
  PROVE  /\ \A u \in Painters : Painted(todo'[u])
         /\ todo'[Player] = todo[Player]
         /\ Plain(todo[t][1])
<1>1. t \in Threads /\ t # Player /\ Painters \subseteq Threads /\ Player \in Threads
  BY RingAssumption
<1>2. /\ todo'[t] = Tail(todo[t]) /\ \A u \in Threads \ {t} : todo'[u] = todo[u]
      /\ todo[t] \in Seq(Ops) /\ todo[t] # <<>>
  BY <1>1, DoneType, HeadType
<1>3. Painted(todo[t])
  BY DEF PaintersPaint
<1>4. /\ Tail(todo[t]) \in Seq(Ops) /\ Len(Tail(todo[t])) = Len(todo[t]) - 1
      /\ Len(todo[t]) \in Nat /\ Len(todo[t]) >= 1
      /\ \A i \in 1 .. Len(todo[t]) - 1 : Tail(todo[t])[i] = todo[t][i + 1]
  BY <1>2, TailType
<1>5. /\ 1 \in 1 .. Len(todo[t])
      /\ \A i \in 1 .. Len(todo[t]) - 1 : i + 1 \in 1 .. Len(todo[t])
  BY <1>4
<1>6. Painted(Tail(todo[t]))
  BY <1>3, <1>4, <1>5 DEF Painted
<1>7. Plain(todo[t][1])
  BY <1>3, <1>5 DEF Painted
<1> QED BY <1>1, <1>2, <1>6, <1>7 DEF PaintersPaint

\* What the player does next.
LEMMA PlayerGoes ==
  ASSUME TypeOK, FilmParts, ~Idle(Player), Done(Player)
  PROVE  /\ todo[Player][1] \in Ops
         /\ \A t \in Painters : todo'[t] = todo[t]
         /\ Flipless(todo'[Player]) /\ ~Flipping(todo[Player][1]) => Flipless(todo[Player])
         /\ \E a \in Stage, j \in Stage, e \in Scene, f \in Scene :
              /\ Steered(a, j, e) /\ Directed(e)
              /\ Acts(Picture(j, overlay.current, live), todo[Player][1], f)
              /\ Films(todo'[Player], f, e)
<1>1. /\ todo'[Player] = Tail(todo[Player]) /\ \A u \in Threads \ {Player} : todo'[u] = todo[u]
      /\ todo[Player] \in Seq(Ops) /\ todo[Player] # <<>> /\ todo[Player][1] \in Ops
  BY ProgramIs, DoneType, HeadType
<1>2. PICK a \in Stage, j \in Stage, e \in Scene : Steered(a, j, e) /\ Directed(e)
  BY DEF FilmParts, Film
<1>3. PICK f \in Scene : /\ Acts(Picture(j, overlay.current, live), todo[Player][1], f)
                         /\ Films(Tail(todo[Player]), f, e)
  BY <1>1, <1>2, FilmTail DEF Steered
<1>4. Flipless(Tail(todo[Player])) /\ ~Flipping(todo[Player][1]) => Flipless(todo[Player])
  BY <1>1, FliplessTail
<1> QED BY <1>1, <1>2, <1>3, <1>4, ProgramIs

\* A step of a program that tells the overlay nothing.
LEMMA RestFilm ==
  ASSUME TypeOK, FilmParts, NEW t \in Threads, ~Idle(t), Done(t),
         todo[t][1].op \in {"enter", "leave", "submit"},
         UNCHANGED <<unread, overlay, screen, live>>
  PROVE  FilmParts'
<1>1. CASE t \in Painters
  BY <1>1, PaintedTail, PainterFilm DEF FilmParts
<1>2. CASE t = Player
  <2>1. PICK a \in Stage, j \in Stage, e \in Scene, f \in Scene :
          /\ Steered(a, j, e) /\ Directed(e)
          /\ Acts(Picture(j, overlay.current, live), todo[Player][1], f)
          /\ Films(todo'[Player], f, e)
    BY <1>2, PlayerGoes
  <2>2. f = Picture(j, overlay.current, live) /\ ~Flipping(todo[Player][1])
    BY <1>2, <2>1 DEF Acts, Flipping
  <2>3. Steered(a, j, e)' /\ Directed(e)'
    BY <2>1, <2>2 DEF Steered, Directed
  <2>4. Film'
    BY <2>3 DEF Film
  <2>5. /\ \A u \in Painters : todo'[u] = todo[u]
        /\ Flipless(todo'[Player]) => Flipless(todo[Player])
    BY <1>2, <2>2, PlayerGoes
  <2>6. OverlayType' /\ PaintersPaint' /\ (Settled' => Settled) /\ Shown' = Shown
    BY <2>5 DEF OverlayType, FilmParts, PaintersPaint, Settled, Shown
  <2> QED BY <2>4, <2>6 DEF FilmParts
<1> QED BY <1>1, <1>2, ProgramIs

LEMMA EnterFilm ==
  ASSUME IInv, FilmParts, NEW t \in Threads, Enter(t) \/ Wake(t) \/ Release(t) \/ Submit(t)
  PROVE  FilmParts'
<1>0. TypeOK
  BY DEF IInv
<1>1. /\ UNCHANGED <<unread, overlay, screen, live>> /\ ~Idle(t)
      /\ todo[t][1].op \in {"enter", "leave", "submit"}
      /\ Done(t) \/ UNCHANGED todo
  BY <1>0, HeadType DEF Enter, Wake, Release, Submit, At, ringVars, overlayVars
<1>2. CASE UNCHANGED todo
  BY <1>0, <1>1, <1>2, PainterFilm DEF FilmParts, PaintersPaint
<1>3. CASE Done(t)
  BY <1>0, <1>1, <1>3, RestFilm
<1> QED BY <1>1, <1>2, <1>3

LEMMA SignalFilm ==
  ASSUME IInv, FilmParts, NEW t \in Threads, Signal(t), ~trespassed'
  PROVE  FilmParts'
<1>0. TypeOK
  BY DEF IInv
<1>1. /\ ~Idle(t) /\ todo[t][1].op = "enter" /\ todo[t][1].arg = "engine"
      /\ UNCHANGED <<unread, overlay, screen, live>> /\ todo' = [todo EXCEPT ![t] = <<>>]
  BY <1>0, HeadType DEF Signal, At, Arg, ringVars, overlayVars
<1>2. t # Player
  <2>1. PICK a \in Stage, j \in Stage, e \in Scene : Steered(a, j, e)
    BY DEF FilmParts, Film
  <2>2. \A e1, f1 : todo[Player] # <<>> /\ Films(todo[Player], e1, f1) =>
          \E g \in Scene : Acts(e1, todo[Player][1], g)
    BY <1>0, FilmTail, ProgramIs
  <2>3. t = Player => \E g \in Scene : Acts(Picture(j, overlay.current, live), todo[t][1], g)
    BY <1>1, <2>1, <2>2 DEF Steered, Idle
  <2> QED BY <1>1, <2>3, RingAssumption DEF Acts
<1>3. Painted(<<>>)
  BY <<>> \in Seq(Ops) DEF Painted
<1>4. /\ todo'[Player] = todo[Player]
      /\ \A u \in Painters : Painted(todo'[u])
  BY <1>0, <1>1, <1>2, <1>3, ProgramIs DEF TypeOK, FilmParts, PaintersPaint
<1> QED BY <1>0, <1>1, <1>4, PainterFilm

LEMMA CurrentFilm ==
  ASSUME IInv, FilmParts, NEW t \in Threads, SetCurrent(t) \/ FreeBuffer(t)
  PROVE  FilmParts'
<1> DEFINE x == todo[t][1]
<1>0. TypeOK
  BY DEF IInv
<1>1. /\ ~Idle(t) /\ Arg(t) = x.arg /\ x \in Ops /\ Done(t)
      /\ UNCHANGED <<unread, screen>>
      /\ \/ x.op = "current" /\ overlay' = [overlay EXCEPT !.current = x.arg] /\ live' = live
         \/ x.op = "free" /\ live' = live \ {x.arg} /\ overlay' = overlay
  BY <1>0, HeadType DEF SetCurrent, FreeBuffer, At, Arg, ringVars
<1>2. t = Player
  <2>1. t \in Painters => Plain(x)
    BY <1>0, <1>1, PaintedTail DEF FilmParts
  <2> QED BY <1>0, <1>1, <2>1, ProgramIs DEF Plain
<1>3. PICK a \in Stage, j \in Stage, e \in Scene, f \in Scene :
        /\ Steered(a, j, e) /\ Directed(e)
        /\ Acts(Picture(j, overlay.current, live), x, f)
        /\ Films(todo'[Player], f, e)
  BY <1>0, <1>1, <1>2, PlayerGoes
<1>4. /\ \A u \in Painters : todo'[u] = todo[u]
      /\ Flipless(todo'[Player]) => Flipless(todo[Player])
  BY <1>0, <1>1, <1>2, PlayerGoes DEF Flipping
<1>5. x.op = "current" => x.arg \in Buffers \cup {None}
  BY <1>1 DEF Ops
<1> HIDE DEF x
<1>6. /\ overlay' \in [active : BOOLEAN, enabled : BOOLEAN,
                       buffer : Buffers \cup {None}, current : Buffers \cup {None}]
      /\ overlay'.active = overlay.active /\ overlay'.enabled = overlay.enabled
      /\ overlay'.buffer = overlay.buffer
      /\ x.op = "current" => overlay'.current = x.arg
      /\ live' \in SUBSET Buffers
  BY <1>1, <1>5 DEF FilmParts, OverlayType
<1>7. f = Picture(j, overlay'.current, live')
  BY <1>1, <1>3, <1>6 DEF Acts, Picture
<1>8. Steered(a, j, e)' /\ Directed(e)'
  BY <1>1, <1>3, <1>6, <1>7 DEF Steered, Directed
<1>9. Film'
  BY <1>8 DEF Film
<1>10. OverlayType' /\ PaintersPaint' /\ (Settled' => Settled) /\ Shown' = Shown
  BY <1>1, <1>4, <1>6 DEF OverlayType, FilmParts, PaintersPaint, Settled, Shown
<1> QED BY <1>1, <1>9, <1>10 DEF FilmParts

LEMMA PutFilm ==
  ASSUME IInv, FilmParts, unread \in Seq(Commands), NEW t \in Threads, Put(t)
  PROVE  FilmParts'
<1> DEFINE x == todo[t][1]
<1>0. TypeOK
  BY DEF IInv
<1>1. /\ ~Idle(t) /\ Arg(t) = x.arg /\ x \in Ops /\ x.op = "queue" /\ Done(t)
      /\ UNCHANGED <<overlay, screen, live>> /\ unread' = Append(unread, x.arg)
  BY <1>0, HeadType DEF Put, At, Arg, overlayVars
<1>2. x.arg \in Commands
  BY <1>1 DEF Ops
<1>3. ASSUME NEW a \in Stage, NEW j \in Stage, NEW k \in Stage, Flow(j, x.arg, k),
             Runs(Flows, Stage, unread, a, j)
      PROVE  Runs(Flows, Stage, unread', a, k)
  <2>1. Runs(Flows, Stage, <<x.arg>>, j, k)
    BY <1>2, <1>3, FlowIs, RunsOne
  <2>2. unread' = unread \o <<x.arg>> /\ <<x.arg>> \in Seq(Commands)
    BY <1>1, <1>2
  <2> QED BY <1>3, <2>1, <2>2, RunsConcat
<1>4. OverlayType'
  BY <1>1 DEF FilmParts, OverlayType
<1>5. NoFlips(unread') => NoFlips(unread) /\ x.arg \notin Flips
  BY <1>1, <1>2, NoFlipsAppend
<1> HIDE DEF x
<1>6. CASE t \in Painters
  <2>1. /\ PaintersPaint' /\ todo'[Player] = todo[Player] /\ x.arg \in {"fill", "flush"}
    BY <1>0, <1>1, <1>6, PaintedTail DEF FilmParts, PaintersPaint, Plain, x
  <2>2. PICK a \in Stage, j \in Stage, e \in Scene : Steered(a, j, e) /\ Directed(e)
    BY DEF FilmParts, Film
  <2>3. Flow(j, x.arg, j)
    BY <2>1 DEF Flow, Flips
  <2>4. Runs(Flows, Stage, unread', a, j)
    BY <1>3, <2>2, <2>3 DEF Steered
  <2>5. Steered(a, j, e)' /\ Directed(e)'
    BY <1>1, <2>1, <2>2, <2>4 DEF Steered, Directed
  <2>6. Film'
    BY <2>5 DEF Film
  <2>7. (Settled' => Settled) /\ Shown' = Shown
    BY <1>1, <1>5, <2>1 DEF Settled, Shown
  <2> QED BY <1>1, <1>4, <2>1, <2>6, <2>7 DEF FilmParts
<1>7. CASE t = Player
  <2>1. PICK a \in Stage, j \in Stage, e \in Scene, f \in Scene :
          /\ Steered(a, j, e) /\ Directed(e)
          /\ Acts(Picture(j, overlay.current, live), x, f)
          /\ Films(todo'[Player], f, e)
    BY <1>0, <1>1, <1>7, PlayerGoes DEF x
  <2>2. /\ f.stage \in Stage /\ Flow(j, x.arg, f.stage)
        /\ f = Picture(f.stage, overlay.current, live)
    BY <1>1, <2>1 DEF Acts, Picture, Scene
  <2>3. Runs(Flows, Stage, unread', a, f.stage)
    BY <1>3, <2>1, <2>2 DEF Steered
  <2>4. Steered(a, f.stage, e)' /\ Directed(e)'
    BY <1>1, <2>1, <2>2, <2>3 DEF Steered, Directed
  <2>5. Film'
    BY <2>2, <2>4 DEF Film
  <2>6. /\ \A u \in Painters : todo'[u] = todo[u]
        /\ Flipless(todo'[Player]) /\ ~Flipping(x) => Flipless(todo[Player])
    BY <1>0, <1>1, <1>7, PlayerGoes DEF x
  <2>7. PaintersPaint' /\ (Settled' => Settled) /\ Shown' = Shown
    BY <1>1, <1>5, <2>6 DEF FilmParts, PaintersPaint, Settled, Shown, Flipping
  <2> QED BY <1>1, <1>4, <2>5, <2>7 DEF FilmParts
<1> QED BY <1>0, <1>6, <1>7, ProgramIs

\* What the engine executes next.
LEMMA EngineGoes ==
  ASSUME Parts, FilmParts, Execute
  PROVE  /\ unread \in Seq(Commands) /\ unread # <<>> /\ unread[1] \in Commands
         /\ cells[head] = unread[1] /\ unread' = Tail(unread)
         /\ \E a \in Stage, b \in Stage, j \in Stage, e \in Scene :
              /\ Steered(a, j, e) /\ Directed(e)
              /\ Flow(a, unread[1], b) /\ Runs(Flows, Stage, unread', b, j)
<1>1. unread # <<>> /\ cells[head] = unread[1] /\ unread' = Tail(unread)
  BY ExecuteTakes DEF Parts, Execute
<1>2. unread \in Seq(Commands) /\ unread[1] \in Commands
  BY <1>1 DEF Parts, Filled
<1>3. PICK a \in Stage, j \in Stage, e \in Scene : Steered(a, j, e) /\ Directed(e)
  BY DEF FilmParts, Film
<1>4. PICK b \in Stage : <<a, b>> \in Flows[unread[1]] /\ Runs(Flows, Stage, Tail(unread), b, j)
  BY <1>1, <1>2, <1>3, RunsTail DEF Steered
<1>5. Flow(a, unread[1], b)
  BY <1>2, <1>4, FlowIs
<1> QED BY <1>1, <1>2, <1>3, <1>4, <1>5

LEMMA ExecuteFilm ==
  ASSUME Parts, FilmParts, Execute
  PROVE  FilmParts'
<1> DEFINE c == unread[1]
<1>1. /\ unread \in Seq(Commands) /\ unread # <<>> /\ c \in Commands
      /\ cells[head] = c /\ unread' = Tail(unread)
  BY EngineGoes
<1>2. PICK a \in Stage, b \in Stage, j \in Stage, e \in Scene :
        /\ Steered(a, j, e) /\ Directed(e)
        /\ Flow(a, c, b) /\ Runs(Flows, Stage, unread', b, j)
  BY EngineGoes
<1>3. NoFlips(unread') /\ c \notin Flips => NoFlips(unread)
  BY <1>1, NoFlipsTail
<1>4. /\ UNCHANGED <<overlay, live, todo>>
      /\ c = "wait" => screen.flip = None
      /\ c \in Flips => screen' = [screen EXCEPT !.flip = c]
      /\ c \notin Flips => screen' = screen
  BY <1>1 DEF Execute
<1> HIDE DEF c
<1>5. /\ screen' \in [on : BOOLEAN, showing : Buffers \cup {None}, flip : Flips \cup {None}]
      /\ screen'.showing = screen.showing /\ screen'.on = screen.on
      /\ screen'.flip = IF c \in Flips THEN c ELSE screen.flip
  BY <1>4 DEF FilmParts, OverlayType
<1>6. OverlayType' /\ PaintersPaint'
  BY <1>4, <1>5 DEF FilmParts, OverlayType, PaintersPaint
<1>7. CASE c \in Flips
  <2>1. screen'.flip # None /\ screen'.flip = c
    BY <1>1, <1>5, <1>7, NoneIsNoCommand
  <2>2. "busy" \in b /\ ("on" \in b <=> c # "off")
    BY <1>2, <1>7 DEF Flow
  <2>3. Steered(b, j, e)' /\ Directed(e)'
    BY <1>2, <1>4, <2>1, <2>2 DEF Steered, Directed
  <2>4. Film'
    BY <2>3 DEF Film
  <2> QED BY <1>6, <2>1, <2>4 DEF FilmParts, Settled
<1>8. CASE c \notin Flips
  <2>1. \/ b = a
        \/ b = a \ {"busy"} /\ screen.flip = None
    BY <1>1, <1>2, <1>4, <1>8 DEF Flow, Flips, Commands
  <2>2. screen' = screen
    BY <1>4, <1>8
  <2>3. Steered(b, j, e)' /\ Directed(e)'
    BY <1>2, <1>4, <2>1, <2>2 DEF Steered, Directed
  <2>4. Film'
    BY <2>3 DEF Film
  <2>5. (Settled' => Settled) /\ Shown' = Shown
    BY <1>3, <1>4, <1>8, <2>2 DEF Settled, Shown
  <2> QED BY <1>6, <2>2, <2>4, <2>5 DEF FilmParts
<1> QED BY <1>7, <1>8

LEMMA BlankFilm ==
  ASSUME TypeOK, FilmParts, unread \in Seq(Commands), Blank
  PROVE  FilmParts'
<1>1. /\ UNCHANGED <<unread, overlay, live, todo>> /\ screen.flip # None
      /\ screen' = [on |-> screen.flip # "off",
                    showing |-> IF screen.flip # "off" /\ overlay.enabled
                                THEN overlay.buffer ELSE None,
                    flip |-> None]
  BY DEF Blank, ringVars
<1>2. PICK a \in Stage, j \in Stage, e \in Scene : Steered(a, j, e) /\ Directed(e)
  BY DEF FilmParts, Film
<1>3. /\ screen'.flip = None /\ screen'.on = (screen.flip # "off")
      /\ "on" \in a <=> screen.flip # "off"
  BY <1>1, <1>2 DEF Steered
<1>4. Steered(a, j, e)' /\ Directed(e)'
  BY <1>1, <1>2, <1>3 DEF Steered, Directed
<1>5. Film'
  BY <1>4 DEF Film
<1>6. OverlayType' /\ PaintersPaint'
  BY <1>1 DEF FilmParts, OverlayType, PaintersPaint
<1>7. ASSUME Settled'
      PROVE  screen'.showing = Shown'
  <2>1. NoFlips(unread) /\ Flipless(todo[Player])
    BY <1>1, <1>7 DEF Settled
  <2>2. "on" \in a <=> "on" \in j
    BY <1>2, <2>1, StageKept DEF Steered
  <2>3. "on" \in j <=> "on" \in e.stage
    <3>1. Picture(j, overlay.current, live) \in Scene
          /\ Picture(j, overlay.current, live).stage = j
      BY SceneIs DEF FilmParts, OverlayType
    <3> QED BY <1>2, <2>1, <3>1, FilmKept, ProgramIs DEF Steered
  <2>4. screen.flip # "off" <=> overlay.active
    BY <1>2, <1>3, <2>2, <2>3 DEF Directed
  <2> QED BY <1>1, <2>4 DEF Shown, FilmParts, OverlayType
<1> QED BY <1>5, <1>6, <1>7 DEF FilmParts

LEMMA PlayerCalls ==
  ASSUME TypeOK, FilmParts,
         (\E b \in Buffers : AllocateBuffer(b) \/ Show(b) \/ ReleaseBuffer(b)) \/ Hide
  PROVE  FilmParts'
<1>0. OverlayType
  BY DEF FilmParts
<1>1. ASSUME NEW b \in Buffers, AllocateBuffer(b)
      PROVE  FilmParts'
  <2>1. /\ Begin(Player, <<>>) /\ UNCHANGED <<overlay, screen>> /\ live' = live \cup {b}
        /\ live' \in SUBSET Buffers
    BY <1>0, <1>1 DEF AllocateBuffer, OverlayType
  <2>2. OverlayType' /\ Shown' = Shown
    BY <1>0, <2>1 DEF OverlayType, Shown
  <2>3. ASSUME NEW j \in Stage,
               "on" \in j <=> overlay.active,
               "busy" \in j => overlay.active,
               overlay.active => overlay.current = overlay.buffer /\ overlay.buffer \in live
        PROVE  \E e \in Scene : Films(<<>>, Picture(j, overlay.current, live'), e) /\ Directed(e)'
    <3>1. PICK e \in Scene : /\ e = Picture(j, overlay.current, live') /\ e.stage = j
                            /\ e.current = overlay.current /\ e.live = live'
      <4>1. overlay.current \in Buffers \cup {None}
        BY <1>0 DEF OverlayType
      <4> QED BY <2>1, <4>1, SceneIs
    <3>2. Films(<<>>, e, e) /\ Directed(e)'
      BY <2>1, <2>3, <3>1, FilmEmpty DEF Directed
    <3> QED BY <3>1, <3>2
  <2> QED BY <2>1, <2>2, <2>3, PlayerBegins
<1>2. ASSUME NEW b \in Buffers, Show(b)
      PROVE  FilmParts'
  <2> DEFINE one == <<Op("current", b)>>
             p == (IF overlay.active THEN update_overlay ELSE show_overlay) \o one
  <2>1. /\ Begin(Player, p) /\ UNCHANGED <<screen, live>> /\ b \in live
        /\ overlay' = [overlay EXCEPT !.buffer = b, !.active = TRUE,
                                      !.enabled = IF overlay.active THEN @ ELSE TRUE]
    BY <1>2 DEF Show
  <2>2. /\ overlay' \in [active : BOOLEAN, enabled : BOOLEAN,
                         buffer : Buffers \cup {None}, current : Buffers \cup {None}]
        /\ overlay'.current = overlay.current /\ overlay'.buffer = b
        /\ overlay'.active = TRUE /\ overlay'.enabled = TRUE
    BY <1>0, <2>1 DEF OverlayType
  <2>3. OverlayType'
    BY <1>0, <2>1, <2>2 DEF OverlayType
  <2>4. ~Flipless(p)
    <3>1. one \in Seq(Ops)
      BY OpType
    <3> HIDE DEF one
    <3> QED BY <3>1, OverlayFlips
  <2> HIDE DEF p
  <2>5. ASSUME NEW j \in Stage,
               "on" \in j <=> overlay.active,
               "busy" \in j => overlay.active
        PROVE  \E e \in Scene : Films(p, Picture(j, overlay.current, live'), e) /\ Directed(e)'
    <3> DEFINE k == IF overlay.active THEN {"on"} ELSE {"on", "busy"}
    <3>1. k \in Stage /\ "on" \in k
      BY StageIs
    <3> HIDE DEF k
    <3>2. PICK e \in Scene : /\ e = Picture(k, b, live) /\ e.stage = k
                            /\ e.current = b /\ e.live = live
      BY <1>0, <3>1, SceneIs DEF OverlayType
    <3>3. overlay.current \in Buffers \cup {None} /\ live \in SUBSET Buffers
      BY <1>0 DEF OverlayType
    <3>4. Films(p, Picture(j, overlay.current, live), e)
      <4>1. CASE overlay.active
        BY <2>5, <3>2, <3>3, <4>1, ShowFilm DEF p, k
      <4>2. CASE ~overlay.active
        BY <2>5, <3>2, <3>3, <4>2, ShowFilm DEF p, k
      <4> QED BY <4>1, <4>2
    <3>5. Directed(e)'
      BY <2>1, <2>2, <3>1, <3>2 DEF Directed
    <3> QED BY <2>1, <3>2, <3>4, <3>5
  <2> QED BY <2>1, <2>2, <2>3, <2>4, <2>5, PlayerBegins
<1>3. ASSUME NEW p, Begin(Player, p), overlay' = Hidden, UNCHANGED <<screen, live>>,
             overlay.active, ~Flipless(p), NEW r \in SUBSET Buffers,
             \A j \in Stage : "on" \in j =>
               Films(p, Picture(j, overlay.current, live), Picture({}, None, r))
      PROVE  FilmParts'
  <2>1. /\ overlay' \in [active : BOOLEAN, enabled : BOOLEAN,
                         buffer : Buffers \cup {None}, current : Buffers \cup {None}]
        /\ overlay'.current = overlay.current /\ overlay'.active = FALSE
    BY <1>0, <1>3 DEF OverlayType, Hidden
  <2>2. OverlayType'
    BY <1>0, <1>3, <2>1 DEF OverlayType
  <2> DEFINE e == Picture({}, None, r)
  <2>3. e \in Scene /\ e.stage = {}
    BY StageIs, SceneIs
  <2>4. \A j \in Stage : "on" \in j => Films(p, Picture(j, overlay.current, live'), e)
    BY <1>3
  <2> HIDE DEF e
  <2>5. Directed(e)'
    BY <2>1, <2>3 DEF Directed
  <2> QED BY <1>3, <2>1, <2>2, <2>3, <2>4, <2>5, PlayerBegins
<1>4. overlay.current \in Buffers \cup {None} /\ live \in SUBSET Buffers
  BY <1>0 DEF OverlayType
<1>5. CASE Hide
  <2>1. ~Flipless(hide_overlay)
    BY <<>> \in Seq(Ops), OverlayFlips
  <2>2. \A j \in Stage : "on" \in j =>
          Films(hide_overlay, Picture(j, overlay.current, live), Picture({}, None, live))
    BY <1>4, HideFilm
  <2> QED BY <1>3, <1>4, <1>5, <2>1, <2>2 DEF Hide
<1>6. ASSUME NEW b \in Buffers, ReleaseBuffer(b)
      PROVE  FilmParts'
  <2> DEFINE one == <<Op("free", b)>>
  <2>1. CASE MustHide(b)
    <3>1. ~Flipless(hide_overlay \o one)
      <4>1. one \in Seq(Ops)
        BY OpType
      <4> HIDE DEF one
      <4> QED BY <4>1, OverlayFlips
    <3>2. \A j \in Stage : "on" \in j =>
            Films(hide_overlay \o one, Picture(j, overlay.current, live),
                  Picture({}, None, live \ {b}))
      BY <1>4, FreeFilm
    <3>3. live \ {b} \in SUBSET Buffers
      BY <1>4
    <3> QED BY <1>3, <1>6, <2>1, <3>1, <3>2, <3>3 DEF ReleaseBuffer, MustHide
  <2>2. CASE ~MustHide(b)
    <3>1. Begin(Player, one) /\ UNCHANGED <<overlay, screen, live>>
      BY <1>6, <2>2 DEF ReleaseBuffer
    <3>2. OverlayType' /\ Shown' = Shown
      BY <1>0, <3>1 DEF OverlayType, Shown
    <3>3. ASSUME NEW j \in Stage,
                 "on" \in j <=> overlay.active,
                 "busy" \in j => overlay.active,
                 overlay.active => overlay.current = overlay.buffer /\ overlay.buffer \in live
          PROVE  \E e \in Scene : Films(one, Picture(j, overlay.current, live'), e) /\ Directed(e)'
      <4>1. PICK e \in Scene : /\ e = Picture(j, overlay.current, live \ {b}) /\ e.stage = j
                              /\ e.current = overlay.current /\ e.live = live \ {b}
        BY <1>4, SceneIs
      <4>2. Films(one, Picture(j, overlay.current, live), e)
        BY <1>4, <4>1, FreeFilm
      <4> HIDE DEF one
      <4>3. Directed(e)'
        BY <2>2, <3>1, <3>3, <4>1 DEF Directed, MustHide
      <4> QED BY <3>1, <4>1, <4>2, <4>3
    <3> HIDE DEF one
    <3> QED BY <3>1, <3>2, <3>3, PlayerBegins
  <2> QED BY <2>1, <2>2
<1> QED BY <1>1, <1>2, <1>5, <1>6

LEMMA PainterCalls ==
  ASSUME TypeOK, FilmParts, NEW t \in Painters, NEW sync \in BOOLEAN, NEW count \in Fills,
         Paint(t, sync, count)
  PROVE  FilmParts'
<1> DEFINE p == intel_acquire_engine(sync) \o intel_fill_rectangle(count)
                \o intel_release_engine
<1>1. Painted(p)
  BY PaintPainted
<1>2. /\ todo' = [todo EXCEPT ![t] = p] /\ UNCHANGED <<unread, overlay, screen, live>>
  BY DEF Paint, Begin, ringVars, overlayVars
<1> HIDE DEF p
<1>3. todo'[Player] = todo[Player] /\ \A u \in Painters : Painted(todo'[u])
  BY <1>1, <1>2, ProgramIs DEF TypeOK, FilmParts, PaintersPaint
<1> QED BY <1>2, <1>3, PainterFilm

LEMMA StepFilm ==
  ASSUME IInv, Parts, FilmParts, ~trespassed, ~trespassed', ~overrun',
         NEW t \in Threads, Step(t)
  PROVE  FilmParts'
<1>1. unread \in Seq(Commands)
  BY DEF Parts, Filled
<1>2. CASE Enter(t) \/ Wake(t) \/ Release(t) \/ Submit(t)
  BY <1>2, EnterFilm
<1>3. CASE Signal(t)
  BY <1>3, SignalFilm
<1>4. CASE Stalled(t)
  BY <1>4 DEF Stalled
<1>5. CASE Put(t)
  BY <1>1, <1>5, PutFilm
<1>6. CASE SetCurrent(t) \/ FreeBuffer(t)
  BY <1>6, CurrentFilm
<1> QED BY <1>2, <1>3, <1>4, <1>5, <1>6 DEF Step

LEMMA FilmMeans ==
  ASSUME TypeOK, FilmParts
  PROVE  OverlayShowsWhatIsLive
<1> SUFFICES ASSUME unread = <<>>, screen.flip = None, Idle(Player)
             PROVE  /\ screen.showing = IF overlay.active THEN overlay.current ELSE None
                    /\ screen.showing # None => screen.showing \in live
  BY DEF OverlayShowsWhatIsLive
<1>1. PICK a \in Stage, j \in Stage, e \in Scene : Steered(a, j, e) /\ Directed(e)
  BY DEF FilmParts, Film
<1>2. e = Picture(j, overlay.current, live)
  BY <1>1, FilmEmpty DEF Steered, Idle
<1>3. overlay.active => overlay.current = overlay.buffer /\ overlay.buffer \in live
  BY <1>1, <1>2 DEF Directed, Picture
<1>4. Settled
  BY DEF Settled, NoFlips, Flipless, Idle
<1> QED BY <1>3, <1>4 DEF FilmParts, Shown

LEMMA InitOverlay == Init => OverlayInv
<1> SUFFICES ASSUME Init
             PROVE  FilmParts
  BY DEF OverlayInv, Init, Whole
<1>1. /\ todo = [t \in Threads |-> <<>>] /\ unread = <<>> /\ live = {}
      /\ overlay = [active |-> FALSE, enabled |-> FALSE, buffer |-> None, current |-> None]
      /\ screen = [on |-> FALSE, showing |-> None, flip |-> None]
  BY DEF Init
<1>2. OverlayType
  BY <1>1 DEF OverlayType
<1>3. PaintersPaint
  BY <1>1, RingAssumption, <<>> \in Seq(Ops) DEF PaintersPaint, Painted
<1>4. Film
  <2> DEFINE e == Picture({}, overlay.current, live)
  <2>1. e \in Scene /\ e.stage = {} /\ {} \in Stage
    BY <1>2, StageIs, SceneIs DEF OverlayType
  <2>2. Runs(Flows, Stage, unread, {}, {}) /\ Films(todo[Player], e, e)
    BY <1>1, <2>1, RunsEmpty, FilmEmpty, RingAssumption
  <2>3. Steered({}, {}, e)
    BY <1>1, <2>2 DEF Steered
  <2> HIDE DEF e
  <2>4. Directed(e)
    BY <1>1, <2>1 DEF Directed
  <2> QED BY <2>1, <2>3, <2>4 DEF Film
<1> QED BY <1>1, <1>2, <1>3, <1>4 DEF FilmParts, Shown

\* A step that lets the ring run over changes nothing that the overlay shows.
LEMMA OverrunShows ==
  ASSUME TypeOK, Parts, OverlayShowsWhatIsLive, NEW t \in Threads,
         Stalled(t) \/ Put(t) \/ Submit(t), overrun', ~trespassed
  PROVE  OverlayShowsWhatIsLive'
<1>1. UNCHANGED <<overlay, screen, live, trespassed>>
  BY DEF Stalled, Put, Submit, overlayVars
<1>2. CASE Stalled(t)
  BY <1>1, <1>2 DEF Stalled, OverlayShowsWhatIsLive, Idle
<1>3. CASE Put(t)
  <2>1. unread' # <<>>
    BY <1>3 DEF Put, Parts, Filled
  <2> QED BY <2>1 DEF OverlayShowsWhatIsLive
<1>4. CASE Submit(t)
  <2>1. unread' # <<>>
    BY <1>4 DEF Submit
  <2> QED BY <2>1 DEF OverlayShowsWhatIsLive
<1> QED BY <1>2, <1>3, <1>4

LEMMA OverlayInductive ==
  IInv /\ LostInv /\ OverlayInv /\ [Next]_vars => OverlayInv'
<1> SUFFICES ASSUME IInv, LostInv, OverlayInv, [Next]_vars
             PROVE  OverlayInv'
  OBVIOUS
<1>0. TypeOK
  BY DEF IInv
<1>1. CASE UNCHANGED vars
  BY <1>1 DEF vars, ringVars, overlayVars, OverlayInv, Whole, FilmParts, OverlayType,
              PaintersPaint, Film, Steered, Directed, Settled, Shown,
              OverlayShowsWhatIsLive, Idle
<1>2. CASE Next /\ trespassed'
  BY <1>2 DEF OverlayInv, Whole, OverlayShowsWhatIsLive
<1>3. CASE Next /\ ~trespassed'
  <2>1. trespassed => trespassed'
    BY <1>3 DEF Next, Paint, AllocateBuffer, Show, ReleaseBuffer, Hide, Begin, Step, Enter,
                Wake, Signal, Release, Stalled, Put, Submit, SetCurrent, FreeBuffer,
                Execute, Blank
  <2>2. Whole /\ Parts /\ FilmParts
    BY <1>3, <2>1 DEF Next, LostInv, Whole, Parts, OverlayInv
  <2>3. CASE ~overrun'
    <3>1. unread \in Seq(Commands)
      BY <2>2 DEF Parts, Filled
    <3>2. FilmParts'
      <4>1. CASE \E t \in Painters, sync \in BOOLEAN, count \in Fills : Paint(t, sync, count)
        BY <1>0, <2>2, <4>1, PainterCalls
      <4>2. CASE (\E b \in Buffers : AllocateBuffer(b) \/ Show(b) \/ ReleaseBuffer(b)) \/ Hide
        BY <1>0, <2>2, <4>2, PlayerCalls
      <4>3. CASE \E t \in Threads : Step(t)
        BY <1>3, <2>2, <2>3, <4>3, StepFilm DEF Whole
      <4>4. CASE Execute
        BY <2>2, <4>4, ExecuteFilm
      <4>5. CASE Blank
        BY <1>0, <2>2, <3>1, <4>5, BlankFilm
      <4> QED BY <1>3, <4>1, <4>2, <4>3, <4>4, <4>5 DEF Next
    <3> QED BY <1>3, <2>3, <3>2 DEF OverlayInv, Whole
  <2>4. CASE overrun'
    <3>1. PICK t \in Threads : Stalled(t) \/ Put(t) \/ Submit(t)
      BY <1>3, <2>2, <2>4
         DEF Whole, Next, Paint, AllocateBuffer, Show, ReleaseBuffer, Hide, Begin, Step, Enter,
             Wake, Signal, Release, SetCurrent, FreeBuffer, Execute, Blank, ringVars
    <3>2. OverlayShowsWhatIsLive
      BY <1>0, <2>2, FilmMeans
    <3>3. OverlayShowsWhatIsLive'
      BY <1>0, <2>2, <2>4, <3>1, <3>2, OverrunShows DEF Whole
    <3> QED BY <2>4, <3>3 DEF OverlayInv, Whole
  <2> QED BY <2>3, <2>4
<1> QED BY <1>1, <1>2, <1>3

LEMMA OverlayMeans == IInv /\ OverlayInv => OverlayShowsWhatIsLive
BY FilmMeans DEF IInv, OverlayInv

LEMMA FlipInTurn ==
  ASSUME IInv, LostInv, OverlayInv, Next, screen'.flip \in Flips, screen' # screen, ~trespassed
  PROVE  screen.flip = None /\ (screen'.flip = "on" <=> ~screen.on)
<1>1. ~overrun /\ Parts /\ FilmParts
  BY DEF Next, LostInv, Whole, Parts, OverlayInv
<1>2. Execute
  <2>1. Blank => screen'.flip = None
    BY DEF Blank
  <2>2. None \notin Flips
    BY NoneIsNoCommand DEF Flips, Commands
  <2>3. Execute \/ Blank
    BY DEF Next, Paint, AllocateBuffer, Show, ReleaseBuffer, Hide, Begin, Step, Enter,
           Wake, Signal, Release, Stalled, Put, Submit, SetCurrent, FreeBuffer, overlayVars
  <2> QED BY <2>1, <2>2, <2>3
<1> DEFINE c == unread[1]
<1>3. c \in Commands /\ cells[head] = c
  BY <1>1, <1>2, EngineGoes
<1>4. PICK a \in Stage, b \in Stage, j \in Stage, e \in Scene :
        Steered(a, j, e) /\ Flow(a, c, b)
  BY <1>1, <1>2, EngineGoes
<1> HIDE DEF c
<1>5. c \in Flips /\ screen'.flip = c
  BY <1>1, <1>2, <1>3 DEF Execute, FilmParts, OverlayType
<1>6. "busy" \notin a /\ (c = "on" <=> "on" \notin a)
  BY <1>4, <1>5 DEF Flow
<1>7. screen.flip = None /\ ("on" \in a <=> screen.on)
  BY <1>4, <1>6 DEF Steered
<1> QED BY <1>1, <1>5, <1>6, <1>7 DEF FilmParts, OverlayType

\* When everything queued is done and no call is in progress the overlay shows the buffer
\* of the last call, which is allocated, or nothing (overlay.cpp:427-445).
THEOREM OverlayShowsLiveBuffers == Spec => []OverlayShowsWhatIsLive
<1> QED BY Initially, Inductive, InitLost, LostInductive, InitOverlay, OverlayInductive,
           OverlayMeans, PTL DEF Spec

\* The overlay is told to flip only when the flip before is done, to go on or off only
\* while it is on, and on only while it is off (overlay.cpp:240-304).
THEOREM OverlayFlipsInTurn == Spec => FlipsInTurn
<1>1. IInv /\ LostInv /\ OverlayInv /\ [Next]_vars =>
        [screen'.flip \in Flips /\ screen' # screen /\ ~trespassed =>
           /\ screen.flip = None
           /\ screen'.flip = "on" <=> ~screen.on]_vars
  BY FlipInTurn
<1> QED BY <1>1, Initially, Inductive, InitLost, LostInductive, InitOverlay, OverlayInductive,
           PTL DEF Spec, FlipsInTurn
=============================================================================
