--------------------------- MODULE ModeSetProofs ----------------------------
(***************************************************************************)
(* What a mode set, a change of DPMS and a move of the display do to the   *)
(* registers, for every machine, list of modes and order of the steps of   *)
(* the server and of a game's clone.                                       *)
(*                                                                         *)
(* A program is a list of switches that folds over the ports lay out, so   *)
(* it is proved to lead from any state to one that is as it should be: a   *)
(* film is the scenes the switches run through, a play the stages of the   *)
(* lock, of the latched base and of the memory.  The invariant says that   *)
(* the rest of every thread's program is such a film and such a play.      *)
(***************************************************************************)
EXTENDS ModeSet, Programs

-----------------------------------------------------------------------------
(* The steps of every port, one port after another. *)

\* The programs of the first ports, for each number of them.
Lays(g, s, steps) ==
  /\ g[0] = <<>>
  /\ \A k \in 1 .. Len(s) : g[k] = g[k - 1] \o steps[s[k]]

LEMMA PortsLaid ==
  ASSUME NEW X, NEW Y, machine.ports \in Seq(Y),
         NEW steps, \A i \in DOMAIN machine.ports : steps[machine.ports[i]] \in Seq(X)
  PROVE  \E g : Lays(g, machine.ports, steps)
                /\ g[Len(machine.ports)] = ForEachPort(steps)
<1> DEFINE s == machine.ports
           n == Len(s)
           Put1(program, port) == program \o steps[port]
           Sums(h) == h = [Z \in SUBSET (DOMAIN s) |->
                             IF Z = {} THEN <<>>
                             ELSE Put1(h[Z \ {Max(Z)}], s[Max(Z)])]
           fold == CHOOSE h : Sums(h)
           S == Seq(X)
           F == [i \in 1 .. n |-> [x \in S |-> Put1(x, s[i])]]
<1>1. n \in Nat /\ DOMAIN s = 1 .. n /\ \A i \in 1 .. n : steps[s[i]] \in Seq(X)
  OBVIOUS
<1>5. ForEachPort(steps) = fold[DOMAIN s]
  BY Zenon DEF ForEachPort, FoldLeft, MapThenFoldSet, Put1
<1> HIDE DEF s
<1>2. <<>> \in S /\ \A i \in 1 .. n : \A x \in S : F[i][x] = Put1(x, s[i]) /\ F[i][x] \in S
  <2>1. ASSUME NEW i \in 1 .. n, NEW x \in S
        PROVE  Put1(x, s[i]) \in S
    <3>1. steps[s[i]] \in Seq(X) /\ x \in Seq(X)
      BY <1>1
    <3>2. x \o steps[s[i]] \in Seq(X)
      BY <3>1
    <3> QED
      BY <3>2
  <2> HIDE DEF Put1
  <2>2. \A i \in 1 .. n : \A x \in S : F[i][x] = Put1(x, s[i])
    OBVIOUS
  <2>3. <<>> \in S
    OBVIOUS
  <2> QED
    BY <2>1, <2>2, <2>3
<1> HIDE DEF S, F, n, Put1
<1>3. PICK it \in [SUBSET (1 .. n) -> S] : Iterates(it, <<>>, F, n)
  BY <1>1, <1>2, FoldExists
<1>4. Sums(it)
  <2>1. ASSUME NEW Z \in SUBSET (1 .. n), Z # {}
        PROVE  F[Max(Z)][it[Z \ {Max(Z)}]] = Put1(it[Z \ {Max(Z)}], s[Max(Z)])
    <3>1. Max(Z) \in 1 .. n
      BY <1>1, <2>1, MostIs
    <3>2. it[Z \ {Max(Z)}] \in S
      OBVIOUS
    <3> QED
      BY <1>2, <3>1, <3>2
  <2> QED
    BY <1>1, <1>3, <2>1 DEF Iterates
<1> HIDE DEF Sums
<1>6. Sums(fold)
  BY <1>4, Zenon
<1> HIDE DEF fold
<1> DEFINE g == [k \in 0 .. n |-> fold[1 .. k]]
<1>7. g[0] = <<>> /\ g[n] = fold[DOMAIN s]
  <2>1. 1 .. 0 = {} /\ {} \in SUBSET (DOMAIN s) /\ 0 \in 0 .. n /\ n \in 0 .. n
    BY <1>1
  <2> QED
    BY <1>1, <1>6, <2>1 DEF Sums
<1>8. \A k \in 1 .. n : g[k] = Put1(g[k - 1], s[k])
  <2> SUFFICES ASSUME NEW k \in 1 .. n
               PROVE  g[k] = Put1(g[k - 1], s[k])
    OBVIOUS
  <2>1. k - 1 \in Nat /\ k - 1 \in 0 .. n /\ k \in 0 .. n /\ (k - 1) + 1 = k
    BY <1>1
  <2>2. 1 .. k \in SUBSET (DOMAIN s) /\ 1 .. k # {} /\ k \in 1 .. k
    <3>1. k \in 1 .. k /\ 1 .. k \subseteq 1 .. n
      BY <1>1, <2>1
    <3> QED
      BY <1>1, <3>1
  <2>3. Max(1 .. k) = k
    BY <2>1, <2>2, LastIs
  <2>4. (1 .. k) \ {k} = 1 .. k - 1
    BY <2>1
  <2>5. fold[1 .. k] = Put1(fold[1 .. k - 1], s[k])
    BY <1>6, <2>2, <2>3, <2>4 DEF Sums
  <2> QED
    BY <2>1, <2>5
<1> HIDE DEF g
<1>10. \A k \in 1 .. n : g[k] = g[k - 1] \o steps[s[k]]
  BY <1>8 DEF Put1
<1> QED
  BY <1>5, <1>7, <1>10 DEF n, s, Lays

\* If from each value of T[k - 1] the steps of port k run to one of T[k], the
\* steps of all ports run from each of T[0] to one of the last.
LEMMA PortsRun ==
  ASSUME NEW X, NEW Y, machine.ports \in Seq(Y),
         NEW steps, \A i \in DOMAIN machine.ports : steps[machine.ports[i]] \in Seq(X),
         NEW F, NEW S, NEW T, T[0] \subseteq S,
         \A k \in 1 .. Len(machine.ports) : \A a \in T[k - 1] :
           \E b \in T[k] : Runs(F, S, steps[machine.ports[k]], a, b)
  PROVE  /\ ForEachPort(steps) \in Seq(X)
         /\ \A a \in T[0] : \E b \in T[Len(machine.ports)] :
              Runs(F, S, ForEachPort(steps), a, b)
<1> DEFINE s == machine.ports
           n == Len(s)
           W == [k \in 0 .. n |->
                   {r \in Seq(X) : \A a \in T[0] : \E b \in T[k] : Runs(F, S, r, a, b)}]
<1>1. n \in Nat /\ \A i \in 1 .. n : steps[s[i]] \in Seq(X)
  OBVIOUS
<1>2. PICK g : Lays(g, s, steps) /\ g[n] = ForEachPort(steps)
  BY PortsLaid
<1> HIDE DEF s, n
<1>3. g[0] \in W[0]
  <2>1. <<>> \in Seq(X) /\ 0 \in 0 .. n /\ g[0] = <<>>
    BY <1>1, <1>2 DEF Lays
  <2>2. \A a \in T[0] : Runs(F, S, <<>>, a, a)
    BY RunsEmpty
  <2> QED BY <2>1, <2>2
<1>4. ASSUME NEW k \in 1 .. n, g[k - 1] \in W[k - 1]
      PROVE  g[k] \in W[k]
  <2>1. k - 1 \in 0 .. n /\ k \in 0 .. n /\ g[k] = g[k - 1] \o steps[s[k]]
    <3>1. \A j \in 1 .. n : g[j] = g[j - 1] \o steps[s[j]]
      BY <1>2, Zenon DEF Lays, n
    <3>2. k - 1 \in 0 .. n /\ k \in 0 .. n
      BY <1>1
    <3> QED BY <3>1, <3>2
  <2>2. /\ g[k - 1] \in Seq(X)
        /\ \A a \in T[0] : \E b \in T[k - 1] : Runs(F, S, g[k - 1], a, b)
    BY <1>4, <2>1
  <2>3. steps[s[k]] \in Seq(X)
    BY <1>1
  <2> DEFINE p == g[k - 1]
             q == steps[s[k]]
  <2> HIDE DEF W, p, q
  <2>4. p \o q \in Seq(X)
    BY <2>2, <2>3 DEF p, q
  <2>5. ASSUME NEW a \in T[0] PROVE \E b \in T[k] : Runs(F, S, p \o q, a, b)
    <3>1. PICK c \in T[k - 1] : Runs(F, S, p, a, c)
      BY <2>2 DEF p
    <3>2. PICK b \in T[k] : Runs(F, S, q, c, b)
      BY DEF q, s, n
    <3>3. p \in Seq(X) /\ q \in Seq(X)
      BY <2>2, <2>3 DEF p, q
    <3>4. Runs(F, S, p \o q, a, b)
      BY <3>1, <3>2, <3>3, RunsConcat
    <3> QED BY <3>4
  <2>6. p \o q \in {r \in Seq(X) : \A a \in T[0] : \E b \in T[k] : Runs(F, S, r, a, b)}
    BY <2>4, <2>5
  <2> QED BY <2>1, <2>6 DEF W, p, q
<1> HIDE DEF W
<1>5. \A k \in 0 .. n : g[k] \in W[k]
  BY <1>1, <1>3, <1>4, FoldType
<1>6. n \in 0 .. n
  BY <1>1
<1> QED BY <1>2, <1>5, <1>6 DEF W, n, s

-----------------------------------------------------------------------------
(* The steps of programs. *)

Switches == [op : {"pipe on", "pipe off", "plane on", "plane off"}, arg : Pipes]
Panels == [op : {"panel"}, arg : BOOLEAN]
Settings == [port : Ports, mode : Modes, running : BOOLEAN]
ClockOps == [op : {"clock"}, arg : [pll : Plls, set : Settings]]
BaseOps == [op : {"load", "store"}, arg : Based]
ModeOps == [op : {"allocate", "pitch", "adopt"}, arg : Modes]
LockOps == [op : {"lock", "unlock"}, arg : {None}]
PlainOps == [op : {"free", "power"}, arg : {None}]
MoveOps == [op : {"move"}, arg : Nat]

PowerSteps == Switches \cup Panels \cup BaseOps
PortSteps == Switches \cup Panels \cup ClockOps
MoveSteps == LockOps \cup MoveOps \cup BaseOps
Ops == PowerSteps \cup ClockOps \cup ModeOps \cup PlainOps \cup MoveSteps

(***************************************************************************)
(* A scene: the pipes, the planes and the panel as they are after          *)
(* some steps of the server's program.  "over" follows the allocation of a *)
(* frame buffer, which decides what the rest of the program is.            *)
(***************************************************************************)
Heads(m) == {m.ports[i].pipe : i \in DOMAIN m.ports}
LvdsPorts(m) == {i \in DOMAIN m.ports : m.ports[i].class = "lvds"}
Panelled(m) == LvdsPorts(m) # {}
Planes(H) == {PlaneOf(p) : p \in H}

Shows == [pipe : [Pipes -> BOOLEAN], plane : [Pipes -> BOOLEAN],
          panel : BOOLEAN, dark : BOOLEAN, over : BOOLEAN]
\* Every plane that is on has a pipe that is on.
Fed(s) == \A p \in Pipes : s.plane[p] => \E q \in Pipes : PlaneOf(q) = p /\ s.pipe[q]
Scenes(m) == {s \in Shows : Fed(s) /\ (s.panel => Panelled(m))}

\* The ports on the pipes H switched on or off.
Switched(m, a, on, H) ==
  [a EXCEPT !.pipe = [p \in Pipes |-> IF p \notin H THEN a.pipe[p]
                                      ELSE on \/ (m.gen > 5 /\ a.pipe[p])],
            !.plane = [p \in Pipes |-> IF p \notin Planes(H) THEN a.plane[p] ELSE on]]
Powered(m, a, on) ==
  [Switched(m, a, on, Heads(m)) EXCEPT !.panel = on /\ Panelled(m)]

Dark(m, a) == \A p \in Heads(m) : ~a.plane[PlaneOf(p)] /\ (m.gen <= 5 => ~a.pipe[p])
Off(m, a) == Dark(m, a) /\ ~a.panel
Lit(m, a, dpms) == /\ \A p \in Heads(m) : a.plane[PlaneOf(p)] <=> dpms = "on"
                   /\ a.panel <=> Panelled(m) /\ dpms = "on"

\* The panel has power again, a port after its own is set.
Back(m, port) ==
  /\ m.gen # 4
  /\ \E i, j \in DOMAIN m.ports :
       i < j /\ m.ports[i].class = "lvds" /\ m.ports[j] = port

\* When the PLL of a port may be programmed.
Stopped(m, a, port) == /\ a.pipe[port.pipe] <=> m.gen >= 6
                       /\ \A p \in Heads(m) : ~a.plane[PlaneOf(p)]
                       /\ a.panel => Back(m, port)

Stays == {"lock", "unlock", "load", "store", "free", "pitch", "adopt", "move"}

Shot(m, dpms, a, x, b) ==
  /\ ~a.over
  /\ x.op = "pipe on" => b = [a EXCEPT !.pipe = [@ EXCEPT ![x.arg] = TRUE]]
  /\ x.op = "plane on" => b = [a EXCEPT !.plane = [@ EXCEPT ![x.arg] = TRUE]]
  /\ x.op = "pipe off" => b = [a EXCEPT !.pipe = [@ EXCEPT ![x.arg] = FALSE]]
  /\ x.op = "plane off" => b = [a EXCEPT !.plane = [@ EXCEPT ![x.arg] = FALSE]]
  /\ x.op = "panel" => b = [a EXCEPT !.panel = x.arg]
  /\ x.op = "clock" => Stopped(m, a, x.arg.set.port) /\ b = a
  /\ x.op = "power" => b = [Powered(m, a, dpms = "on") EXCEPT !.dark = FALSE]
  /\ x.op = "allocate" => Off(m, a) /\ b = [a EXCEPT !.over = TRUE]
  /\ x.op \in Stays => b = a

Shots(m, dpms) == [x \in Ops |-> {ab \in Scenes(m) \X Scenes(m) : Shot(m, dpms, ab[1], x, ab[2])}]
Film(m, dpms, s, a, b) == Runs(Shots(m, dpms), Scenes(m), s, a, b)

LEMMA ShotIs ==
  ASSUME NEW m, NEW dpms, NEW x \in Ops, NEW a \in Scenes(m), NEW b \in Scenes(m)
  PROVE  <<a, b>> \in Shots(m, dpms)[x] <=> Shot(m, dpms, a, x, b)
BY Zenon DEF Shots

LEMMA SceneType ==
  ASSUME NEW m, NEW a
  PROVE  a \in Scenes(m) <=>
           a \in Shows /\ Fed(a) /\ (a.panel => Panelled(m))
BY Zenon DEF Scenes

LEMMA PlaneIs ==
  /\ \A p \in Pipes : PlaneOf(p) \in Pipes
  /\ \A H, p : p \in H => PlaneOf(p) \in Planes(H)
  /\ Based \subseteq Pipes
BY DEF PlaneOf, Pipes, Planes, Based

\* A scene with the same pipes on, or more of them, and no more planes.
LEMMA FedStill ==
  ASSUME NEW a, Fed(a), NEW b,
         \A p \in Pipes : (a.pipe[p] => b.pipe[p]) /\ (b.plane[p] => a.plane[p])
  PROVE  Fed(b)
BY DEF Fed

\* One step.
LEMMA FilmOne ==
  ASSUME NEW m, NEW dpms, NEW x \in Ops, NEW a \in Scenes(m), NEW b \in Scenes(m),
         Shot(m, dpms, a, x, b)
  PROVE  Film(m, dpms, <<x>>, a, b)
BY ShotIs, RunsOne DEF Film

LEMMA FilmConcat ==
  ASSUME NEW m, NEW dpms, NEW s \in Seq(Ops), NEW r \in Seq(Ops), NEW a, NEW b, NEW c,
         Film(m, dpms, s, a, b), Film(m, dpms, r, b, c)
  PROVE  Film(m, dpms, s \o r, a, c) /\ s \o r \in Seq(Ops)
<1>1. s \o r \in Seq(Ops)
  OBVIOUS
<1> QED BY <1>1, RunsConcat DEF Film

\* Steps that switch nothing.
LEMMA FilmStay ==
  ASSUME NEW m, NEW dpms, NEW s \in Seq(Ops), NEW a \in Scenes(m), ~a.over,
         \A i \in 1 .. Len(s) : s[i].op \in Stays
  PROVE  Film(m, dpms, s, a, a)
<1>1. ASSUME NEW i \in 1 .. Len(s)
      PROVE  <<a, a>> \in Shots(m, dpms)[s[i]]
  <2>1. s[i] \in Ops
    OBVIOUS
  <2>2. s[i].op \in Stays
    OBVIOUS
  <2> DEFINE x == s[i]
  <2> HIDE DEF x
  <2>3. Shot(m, dpms, a, x, a)
    BY <2>2 DEF Shot, Stays, x
  <2> QED BY <2>1, <2>3, ShotIs DEF x
<1> QED BY <1>1, RunsStay DEF Film

-----------------------------------------------------------------------------
(* Switching the ports. *)

Switch(on, p) == IF on THEN PipeOn(p) ELSE PipeOff(p)

LEMMA SwitchedScene ==
  ASSUME NEW m, NEW a \in Scenes(m), NEW on \in BOOLEAN, NEW H, H \subseteq Pipes
  PROVE  Switched(m, a, on, H) \in Scenes(m)
<1> DEFINE b == Switched(m, a, on, H)
<1>1. a \in Shows /\ Fed(a) /\ (a.panel => Panelled(m))
  BY SceneType
<1>2. b \in Shows
  BY <1>1 DEF Switched, Shows
<1>3. b.panel = a.panel
  BY <1>1 DEF Switched, Shows
<1>4. \A p \in Pipes :
        /\ b.pipe[p] = IF p \notin H THEN a.pipe[p] ELSE on \/ (m.gen > 5 /\ a.pipe[p])
        /\ b.plane[p] = IF p \notin Planes(H) THEN a.plane[p] ELSE on
  BY <1>1 DEF Switched, Shows
<1> HIDE DEF b
<1>5. Fed(b)
  <2> SUFFICES ASSUME NEW p \in Pipes, b.plane[p]
               PROVE  \E q \in Pipes : PlaneOf(q) = p /\ b.pipe[q]
    BY DEF Fed
  <2>1. CASE p \in Planes(H)
    <3>1. PICK q \in H : PlaneOf(q) = p
      BY <2>1 DEF Planes
    <3>2. on
      BY <1>4, <2>1
    <3> QED BY <1>4, <3>1, <3>2
  <2>2. CASE p \notin Planes(H)
    <3>1. a.plane[p]
      BY <1>4, <2>2
    <3>2. PICK q \in Pipes : PlaneOf(q) = p /\ a.pipe[q]
      BY <1>1, <3>1 DEF Fed
    <3>3. q \notin H
      BY <2>2, <3>2, PlaneIs
    <3> QED BY <1>4, <3>2, <3>3
  <2> QED BY <2>1, <2>2
<1>6. b \in Scenes(m)
  BY <1>1, <1>2, <1>3, <1>5, SceneType
<1> QED BY <1>6 DEF b

LEMMA SwitchedMore ==
  ASSUME NEW m, NEW a \in Scenes(m), NEW on \in BOOLEAN, NEW H, NEW p \in Pipes
  PROVE  Switched(m, Switched(m, a, on, H), on, {p}) = Switched(m, a, on, H \cup {p})
<1>1. a \in Shows
  BY SceneType
<1>2. \A q : q \in Planes(H \cup {p}) <=> q \in Planes(H) \/ q \in Planes({p})
  BY DEF Planes
<1> QED BY <1>1, <1>2 DEF Switched, Shows

LEMMA SwitchedNone ==
  ASSUME NEW m, NEW a \in Scenes(m), NEW on \in BOOLEAN
  PROVE  Switched(m, a, on, {}) = a
<1>1. a \in Shows
  BY SceneType
<1>2. Planes({}) = {}
  BY DEF Planes
<1> QED BY <1>1, <1>2 DEF Switched, Shows

\* Pipe::Enable switches one pipe and its plane, the plane only while the pipe is on.
LEMMA SwitchRuns ==
  ASSUME machine \in Machines, NEW dpms, NEW a \in Scenes(machine), ~a.over,
         NEW on \in BOOLEAN, NEW p \in Pipes
  PROVE  /\ Switch(on, p) \in Seq(Switches)
         /\ Film(machine, dpms, Switch(on, p), a, Switched(machine, a, on, {p}))
<1> DEFINE m == machine
           w == PlaneOf(p)
           z == Switched(m, a, on, {p})
<1>1. /\ a \in Shows /\ Fed(a) /\ (a.panel => Panelled(m))
      /\ m.gen \in Nat
  BY SceneType, MachinesAssumption
<1>2. z \in Scenes(m)
  BY SwitchedScene
<1> DEFINE x1 == Op("pipe on", p)
           x2 == Op("plane on", w)
           x3 == Op("plane off", w)
           x4 == Op("pipe off", p)
<1>7. w \in Pipes /\ Planes({p}) = {w}
  BY PlaneIs DEF Planes
<1> HIDE DEF w
<1>3. x1 \in Switches /\ x2 \in Switches /\ x3 \in Switches /\ x4 \in Switches
  BY <1>7 DEF Op, Switches
<1>4. Switches \subseteq Ops
  BY DEF Ops, PowerSteps
<1>5. CASE on
  <2> DEFINE b == [a EXCEPT !.pipe = [@ EXCEPT ![p] = TRUE]]
  <2>1. /\ b \in Shows /\ b.panel = a.panel /\ b.over = a.over
        /\ \A q \in Pipes : (a.pipe[q] => b.pipe[q]) /\ (b.plane[q] => a.plane[q])
    BY <1>1, <1>7 DEF Shows
  <2>2. Shot(m, dpms, a, x1, b)
    BY DEF Shot, Op, Stays
  <2>3. z = [b EXCEPT !.plane = [@ EXCEPT ![w] = TRUE]]
    BY <1>1, <1>5, <1>7 DEF Switched, Shows
  <2> HIDE DEF b, z
  <2>4. b \in Scenes(m)
    BY <1>1, <2>1, FedStill, SceneType
  <2>5. Shot(m, dpms, b, x2, z)
    BY <2>1, <2>3 DEF Shot, Op, Stays
  <2> HIDE DEF x1, x2
  <2>6. <<a, b>> \in Shots(m, dpms)[x1] /\ <<b, z>> \in Shots(m, dpms)[x2]
    BY <1>2, <1>3, <1>4, <2>2, <2>4, <2>5, ShotIs
  <2>7. <<x1, x2>> \in Seq(Switches) /\ Film(m, dpms, <<x1, x2>>, a, z)
    BY <1>2, <1>3, <2>4, <2>6, RunsTwo DEF Film
  <2>8. Switch(on, p) = <<x1, x2>>
    BY <1>5 DEF Switch, PipeOn, x1, x2, w
  <2> QED BY <2>7, <2>8 DEF z
<1>6. CASE ~on
  <2> DEFINE b == [a EXCEPT !.plane = [@ EXCEPT ![w] = FALSE]]
  <2>1. /\ b \in Shows /\ b.panel = a.panel /\ b.over = a.over
        /\ \A q \in Pipes : (a.pipe[q] => b.pipe[q]) /\ (b.plane[q] => a.plane[q])
    BY <1>1, <1>7 DEF Shows
  <2>2. Shot(m, dpms, a, x3, b)
    BY DEF Shot, Op, Stays
  <2>3. IF m.gen <= 5 THEN z = [b EXCEPT !.pipe = [@ EXCEPT ![p] = FALSE]] ELSE z = b
    <3>1. \A q \in Pipes : a.pipe[q] \in BOOLEAN
      BY <1>1 DEF Shows
    <3>2. [q \in Pipes |-> IF q \notin Planes({p}) THEN a.plane[q] ELSE on]
          = [a.plane EXCEPT ![w] = FALSE]
      BY <1>1, <1>6, <1>7 DEF Shows
    <3>3. CASE m.gen <= 5
      <4>1. ~(m.gen > 5)
        BY <1>1, <3>3
      <4>2. \A q \in Pipes : (on \/ (m.gen > 5 /\ a.pipe[q])) = FALSE
        BY <1>6, <4>1
      <4>3. [q \in Pipes |-> IF q \notin {p} THEN a.pipe[q]
                            ELSE on \/ (m.gen > 5 /\ a.pipe[q])]
            = [a.pipe EXCEPT ![p] = FALSE]
        BY <1>1, <4>2 DEF Shows
      <4> QED BY <1>1, <3>2, <3>3, <4>3 DEF Switched, Shows
    <3>4. CASE ~(m.gen <= 5)
      <4>1. m.gen > 5
        BY <1>1, <3>4
      <4>2. \A q \in Pipes : (on \/ (m.gen > 5 /\ a.pipe[q])) = a.pipe[q]
        BY <1>6, <3>1, <4>1, Zenon
      <4>3. [q \in Pipes |-> IF q \notin {p} THEN a.pipe[q]
                            ELSE on \/ (m.gen > 5 /\ a.pipe[q])]
            = a.pipe
        BY <1>1, <4>2 DEF Shows
      <4> QED BY <1>1, <3>2, <3>4, <4>3 DEF Switched, Shows
    <3> QED BY <3>3, <3>4
  <2> HIDE DEF b, z
  <2>4. b \in Scenes(m)
    BY <1>1, <2>1, FedStill, SceneType
  <2>5. CASE m.gen <= 5
    <3>1. Shot(m, dpms, b, x4, z)
      BY <2>1, <2>3, <2>5 DEF Shot, Op, Stays
    <3>2. Switch(on, p) = <<x3>> \o <<x4>>
      BY <1>6, <2>5 DEF Switch, PipeOff, w
    <3> HIDE DEF x3, x4
    <3>3. <<a, b>> \in Shots(m, dpms)[x3] /\ <<b, z>> \in Shots(m, dpms)[x4]
      BY <1>2, <1>3, <1>4, <2>2, <2>4, <3>1, ShotIs
    <3>4. <<x3, x4>> \in Seq(Switches) /\ Film(m, dpms, <<x3, x4>>, a, z)
      BY <1>2, <1>3, <2>4, <3>3, RunsTwo DEF Film
    <3>5. <<x3>> \o <<x4>> = <<x3, x4>>
      BY TwoSteps
    <3> QED BY <3>2, <3>4, <3>5 DEF z
  <2>6. CASE ~(m.gen <= 5)
    <3>2. Switch(on, p) = <<x3>> \o <<>>
      BY <1>6, <2>6 DEF Switch, PipeOff, w
    <3> HIDE DEF x3, x4
    <3>3. <<x3>> \o <<>> = <<x3>> /\ <<x3>> \in Seq(Switches)
      BY <1>3, OneStep
    <3>4. Film(m, dpms, <<x3>>, a, b)
      BY <1>3, <1>4, <2>2, <2>4, FilmOne
    <3> QED BY <2>3, <2>6, <3>2, <3>3, <3>4 DEF z
  <2> QED BY <2>5, <2>6
<1> QED BY <1>5, <1>6

\* set_frame_buffer_base switches nothing.
LEMMA BaseType ==
  /\ set_frame_buffer_base \in Seq(BaseOps)
  /\ \A i \in 1 .. Len(set_frame_buffer_base) : set_frame_buffer_base[i].op \in Stays
<1> DEFINE b == set_frame_buffer_base
<1>1. b \in Seq(BaseOps)
  BY DEF set_frame_buffer_base, BaseOps, Op, Based
<1>2. \A x \in BaseOps : x.op \in Stays
  BY DEF BaseOps, Stays
<1> HIDE DEF b
<1>3. \A i \in 1 .. Len(b) : b[i] \in BaseOps
  BY <1>1
<1> QED BY <1>1, <1>2, <1>3 DEF b

LEMMA OpsHave ==
  /\ Switches \subseteq PowerSteps /\ Panels \subseteq PowerSteps /\ BaseOps \subseteq PowerSteps
  /\ Switches \subseteq PortSteps /\ Panels \subseteq PortSteps /\ ClockOps \subseteq PortSteps
  /\ PowerSteps \subseteq Ops /\ PortSteps \subseteq Ops /\ MoveSteps \subseteq Ops
  /\ ModeOps \subseteq Ops /\ PlainOps \subseteq Ops /\ LockOps \subseteq Ops
  /\ LockOps \subseteq MoveSteps /\ BaseOps \subseteq MoveSteps /\ MoveOps \subseteq MoveSteps
BY DEF Ops, PowerSteps, PortSteps, MoveSteps

LEMMA SeqHas ==
  ASSUME NEW X, NEW Y, X \subseteq Y, NEW s \in Seq(X)
  PROVE  s \in Seq(Y)
OBVIOUS

LEMMA PortsAre ==
  ASSUME machine \in Machines
  PROVE  /\ machine.ports \in Seq(Ports) /\ machine.gen \in Nat
         /\ Len(machine.ports) \in Nat /\ DOMAIN machine.ports = 1 .. Len(machine.ports)
         /\ \A i \in 1 .. Len(machine.ports) :
              /\ machine.ports[i] \in Ports /\ machine.ports[i].pll \in Plls
              /\ machine.ports[i].pipe \in Pipes /\ machine.ports[i].class \in Classes
              /\ machine.ports[i] \in Range(machine.ports)
         /\ \A i, j \in 1 .. Len(machine.ports) :
              machine.ports[i].class = "lvds" /\ machine.ports[j].class = "lvds" => i = j
<1>1. machine.ports \in Seq(Ports) /\ machine.gen \in Nat
      /\ \A i, j \in DOMAIN machine.ports :
           machine.ports[i].class = "lvds" /\ machine.ports[j].class = "lvds" => i = j
  BY MachinesAssumption
<1> DEFINE s == machine.ports
<1>2. Len(s) \in Nat /\ DOMAIN s = 1 .. Len(s) /\ \A i \in 1 .. Len(s) : s[i] \in Ports
  <2>1. s \in Seq(Ports)
    BY <1>1
  <2> HIDE DEF s
  <2> QED BY <2>1
<1>3. \A i \in 1 .. Len(s) : s[i] \in Range(s)
  BY <1>2 DEF Range
<1>4. \A port \in Ports : port.pipe \in Pipes /\ port.class \in Classes /\ port.pll \in Plls
  BY DEF Ports
<1> QED BY <1>1, <1>2, <1>3, <1>4

LEMMA PowerOfScene ==
  ASSUME machine \in Machines, NEW a \in Scenes(machine), NEW on \in BOOLEAN
  PROVE  /\ Powered(machine, a, on) \in Scenes(machine)
         /\ Powered(machine, a, on).over = a.over
         /\ Powered(machine, a, on).dark = a.dark
<1> DEFINE b == Switched(machine, a, on, Heads(machine))
           c == [b EXCEPT !.panel = on /\ Panelled(machine)]
<1>1. b \in Scenes(machine)
  <2>1. Heads(machine) \subseteq Pipes
    BY PortsAre DEF Heads
  <2> QED BY <2>1, SwitchedScene
<1>2. a \in Shows
  BY SceneType
<1>3. b.over = a.over /\ b.dark = a.dark
  BY <1>2 DEF Switched, Shows
<1>4. Panelled(machine) \in BOOLEAN
  BY DEF Panelled
<1>5. b \in Shows /\ Fed(b)
  BY <1>1, SceneType
<1> HIDE DEF b
<1>6. c \in Shows
  BY <1>4, <1>5, Zenon DEF Shows
<1>7. c.plane = b.plane /\ c.pipe = b.pipe /\ c.over = b.over /\ c.dark = b.dark
      /\ (c.panel <=> on /\ Panelled(machine))
  BY <1>4, <1>5 DEF Shows
<1> HIDE DEF c
<1>8. c \in Scenes(machine)
  BY <1>5, <1>6, <1>7, FedStill, SceneType
<1> QED BY <1>3, <1>7, <1>8 DEF b, c, Powered

LEMMA PanelIs == HasPanel <=> Panelled(machine)
BY DEF HasPanel, Panelled, LvdsPorts

\* set_display_power_mode leaves every port switched the same way, and the panel.
LEMMA PowerRuns ==
  ASSUME machine \in Machines, NEW dpms, NEW which \in DpmsModes,
         NEW a \in Scenes(machine), ~a.over
  PROVE  /\ set_display_power_mode(which) \in Seq(PowerSteps)
         /\ Film(machine, dpms, set_display_power_mode(which), a,
                 Powered(machine, a, which = "on"))
         /\ \E first \in Seq(Switches), last \in Seq(Panels) :
              set_display_power_mode(which) = (first \o set_frame_buffer_base) \o last
<1> DEFINE m == machine
           n == Len(m.ports)
           on == which = "on"
           switched == [port \in Range(machine.ports) |->
                          IF which = "on" THEN PipeOn(port.pipe) ELSE PipeOff(port.pipe)]
           H(k) == {m.ports[i].pipe : i \in 1 .. k}
           T == [k \in 0 .. n |-> {Switched(m, a, on, H(k))}]
           b == Switched(m, a, on, H(n))
           c == Powered(m, a, on)
           first == ForEachPort(switched)
           last == IF HasPanel THEN <<Op("panel", which = "on")>> ELSE <<>>
<1>1. n \in Nat /\ on \in BOOLEAN
  BY PortsAre
<1>2. \A i \in 1 .. n : m.ports[i].pipe \in Pipes /\ switched[m.ports[i]] = Switch(on, m.ports[i].pipe)
  BY PortsAre DEF Switch
<1> HIDE DEF switched, n
<1>3. \A i \in DOMAIN m.ports : switched[m.ports[i]] \in Seq(Switches)
  <2>1. ASSUME NEW i \in 1 .. n PROVE switched[m.ports[i]] \in Seq(Switches)
    BY <1>1, <1>2, SwitchRuns
  <2> QED BY <2>1, PortsAre DEF n
<1>4. ASSUME NEW k \in 1 .. n, NEW z \in T[k - 1]
      PROVE  \E y \in T[k] : Runs(Shots(m, dpms), Scenes(m), switched[m.ports[k]], z, y)
  <2> DEFINE p == m.ports[k].pipe
             G == H(k - 1)
  <2>1. k - 1 \in 0 .. n /\ k \in 0 .. n
    BY <1>1
  <2>2. H(k) = G \cup {p}
    <3>1. \A i \in 1 .. k : i \in 1 .. k - 1 \/ i = k
      BY <1>1
    <3>2. k \in 1 .. k /\ \A i \in 1 .. k - 1 : i \in 1 .. k
      BY <1>1
    <3> QED BY <3>1, <3>2
  <2>8. G \subseteq Pipes
    BY <1>1, <1>2
  <2> HIDE DEF H, G
  <2>3. z = Switched(m, a, on, G)
    BY <2>1 DEF G
  <2>4. z \in Scenes(m) /\ ~z.over
    <3>1. z \in Scenes(m)
      BY <1>1, <2>3, <2>8, SwitchedScene
    <3>2. a \in Shows
      BY SceneType
    <3> QED BY <2>3, <3>1, <3>2 DEF Switched, Shows
  <2>5. Film(m, dpms, Switch(on, p), z, Switched(m, z, on, {p}))
    BY <1>1, <1>2, <2>4, SwitchRuns
  <2>6. Switched(m, z, on, {p}) = Switched(m, a, on, G \cup {p})
    <3>1. p \in Pipes
      BY <1>2
    <3> HIDE DEF p, on, m
    <3>2. Switched(m, Switched(m, a, on, G), on, {p}) = Switched(m, a, on, G \cup {p})
      <4>1. a \in Scenes(m) /\ on \in BOOLEAN
        BY <1>1 DEF m
      <4> QED BY <3>1, <4>1, SwitchedMore
    <3> QED BY <2>3, <3>2
  <2>7. T[k] = {Switched(m, a, on, G \cup {p})}
    BY <2>1, <2>2
  <2> HIDE DEF T
  <2> QED BY <1>2, <2>5, <2>6, <2>7 DEF Film
<1>5. T[0] = {a} /\ T[n] = {b}
  <2>1. H(0) = {}
    OBVIOUS
  <2>2. T[0] = {Switched(m, a, on, {})} /\ T[n] = {b}
    BY <1>1, <2>1
  <2>3. Switched(m, a, on, {}) = a
    BY <1>1, SwitchedNone
  <2> HIDE DEF T
  <2> QED BY <2>2, <2>3
<1> HIDE DEF T
<1>6. first \in Seq(Switches) /\ Film(m, dpms, first, a, b)
  <2>1. T[0] \subseteq Scenes(m)
    BY <1>5
  <2>2. m.ports \in Seq(Ports)
    BY PortsAre
  <2>3. /\ first \in Seq(Switches)
        /\ \A z \in T[0] : \E y \in T[n] : Runs(Shots(m, dpms), Scenes(m), first, z, y)
    <3>1. \A k \in 1 .. Len(machine.ports) : \A z \in T[k - 1] :
            \E y \in T[k] : Runs(Shots(m, dpms), Scenes(m), switched[machine.ports[k]], z, y)
      BY <1>4 DEF n
    <3>2. \A i \in DOMAIN machine.ports : switched[machine.ports[i]] \in Seq(Switches)
      BY <1>3
    <3> HIDE DEF first
    <3> QED BY <2>1, <2>2, <3>1, <3>2, PortsRun DEF n, first
  <2> QED BY <1>5, <2>3 DEF Film
<1>7. H(n) = Heads(m)
  BY PortsAre DEF Heads, n
<1>8. b \in Scenes(m) /\ ~b.over /\ c \in Scenes(m) /\ c = [b EXCEPT !.panel = on /\ Panelled(m)]
  <2>5. H(n) \subseteq Pipes
    BY <1>2
  <2>1. b \in Scenes(m)
    BY <1>1, <2>5, SwitchedScene
  <2>2. a \in Shows
    BY SceneType
  <2>3. b.over = a.over
    BY <2>2 DEF Switched, Shows
  <2>4. c \in Scenes(m)
    BY <1>1, PowerOfScene
  <2> QED BY <1>7, <2>1, <2>3, <2>4 DEF Powered
<1> HIDE DEF H, b, c, first, on
<1>9. last \in Seq(Panels) /\ Film(m, dpms, last, b, c)
  <2>1. CASE HasPanel
    <3> DEFINE x == Op("panel", on)
    <3>1. x \in Panels /\ x \in Ops
      BY <1>1, OpsHave DEF Op, Panels
    <3>2. Shot(m, dpms, b, x, c)
      <4>1. (on /\ Panelled(m)) = on
        BY <1>1, <2>1, PanelIs
      <4>2. c = [b EXCEPT !.panel = on]
        BY <1>8, <4>1
      <4> QED BY <1>8, <4>2 DEF Shot, Op, Stays
    <3>3. last = <<x>>
      BY <2>1 DEF on
    <3> HIDE DEF x, last
    <3> QED BY <1>8, <3>1, <3>2, <3>3, OneStep, FilmOne
  <2>2. CASE ~HasPanel
    <3>1. b \in Shows /\ ~b.panel
      BY <1>8, <2>2, PanelIs, SceneType
    <3>2. c = b
      <4>1. (on /\ Panelled(m)) = FALSE
        BY <2>2, PanelIs
      <4>2. b.panel = FALSE
        BY <3>1 DEF Shows
      <4> QED BY <1>8, <3>1, <4>1, <4>2 DEF Shows
    <3>3. last = <<>>
      BY <2>2
    <3>4. <<>> \in Seq(Panels)
      OBVIOUS
    <3> QED BY <1>8, <3>2, <3>3, <3>4, RunsEmpty DEF Film
  <2> QED BY <2>1, <2>2
<1> HIDE DEF last
<1> DEFINE base == set_frame_buffer_base
<1>10. base \in Seq(BaseOps) /\ Film(m, dpms, base, b, b)
  <2>1. base \in Seq(BaseOps) /\ base \in Seq(Ops)
    BY BaseType, OpsHave, SeqHas
  <2> QED BY <1>8, <2>1, BaseType, FilmStay
<1> HIDE DEF base
<1>11. first \in Seq(PowerSteps) /\ base \in Seq(PowerSteps) /\ last \in Seq(PowerSteps)
  BY <1>6, <1>9, <1>10, OpsHave, SeqHas
<1>12. first \in Seq(Ops) /\ base \in Seq(Ops) /\ last \in Seq(Ops)
  BY <1>11, OpsHave, SeqHas
<1> DEFINE fb == first \o base
<1>13. fb \in Seq(Ops) /\ Film(m, dpms, fb, a, b)
  BY <1>6, <1>10, <1>12, FilmConcat
<1>14. fb \in Seq(PowerSteps)
  BY <1>11
<1> HIDE DEF fb
<1>15. Film(m, dpms, fb \o last, a, c)
  BY <1>9, <1>12, <1>13, FilmConcat
<1>16. fb \o last \in Seq(PowerSteps)
  BY <1>11, <1>14
<1>17. set_display_power_mode(which) = fb \o last
  BY Zenon DEF set_display_power_mode, fb, first, base, last, switched
<1>18. set_display_power_mode(which) = (first \o set_frame_buffer_base) \o last
  BY <1>17 DEF fb, base
<1> QED BY <1>6, <1>9, <1>15, <1>16, <1>17, <1>18 DEF c, on

-----------------------------------------------------------------------------
(* The mode set of the ports. *)

\* What holds after the mode sets of the first k ports.
Prepared(m, a, k) ==
  /\ ~a.over
  /\ Dark(m, a)
  /\ a.panel => m.gen # 4 /\ \E i \in 1 .. k : m.ports[i].class = "lvds"

Leads(m, dpms, s, a, k) ==
  /\ s \in Seq(PortSteps)
  /\ \E b \in Scenes(m) : /\ Prepared(m, b, k) /\ b.dark = a.dark
                          /\ Film(m, dpms, s, a, b)

LEMMA PreparedMore ==
  ASSUME NEW m, NEW a, NEW k \in Nat, NEW n \in Nat, k <= n, Prepared(m, a, k)
  PROVE  Prepared(m, a, n)
<1>1. 1 .. k \subseteq 1 .. n
  OBVIOUS
<1> QED BY <1>1 DEF Prepared

LEMMA LeadsConcat ==
  ASSUME NEW m, NEW dpms, NEW k, NEW s \in Seq(PortSteps), NEW r,
         NEW a, NEW b, Film(m, dpms, s, a, b), b.dark = a.dark, Leads(m, dpms, r, b, k)
  PROVE  Leads(m, dpms, s \o r, a, k)
<1>1. r \in Seq(PortSteps)
  BY DEF Leads
<1>2. PICK c \in Scenes(m) : /\ Prepared(m, c, k) /\ c.dark = b.dark
                             /\ Film(m, dpms, r, b, c)
  BY DEF Leads
<1>3. s \in Seq(Ops) /\ r \in Seq(Ops)
  BY <1>1, OpsHave, SeqHas
<1>4. Film(m, dpms, s \o r, a, c)
  BY <1>2, <1>3, FilmConcat
<1>5. s \o r \in Seq(PortSteps)
  BY <1>1
<1> QED BY <1>2, <1>4, <1>5 DEF Leads

LEMMA LeadsNowhere ==
  ASSUME NEW m, NEW dpms, NEW k, NEW a \in Scenes(m), Prepared(m, a, k)
  PROVE  Leads(m, dpms, <<>>, a, k)
<1>1. <<>> \in Seq(PortSteps)
  OBVIOUS
<1> QED BY <1>1, RunsEmpty DEF Leads, Film

\* Pipe::Configure.
LEMMA ConfigureRuns ==
  ASSUME machine \in Machines, NEW dpms, NEW k, NEW a \in Scenes(machine),
         Prepared(machine, a, k), NEW p \in Heads(machine)
  PROVE  /\ Configured(p) \in Seq(PortSteps)
         /\ \E b \in Scenes(machine) :
              /\ Prepared(machine, b, k) /\ b.dark = a.dark /\ b.panel = a.panel
              /\ b.pipe[p] <=> machine.gen >= 6
              /\ Film(machine, dpms, Configured(p), a, b)
<1> DEFINE m == machine
           x == Op("pipe on", p)
           b == [a EXCEPT !.pipe = [@ EXCEPT ![p] = TRUE]]
<1>1. /\ a \in Shows /\ Fed(a) /\ (a.panel => Panelled(m))
      /\ m.gen \in Nat /\ p \in Pipes
  BY SceneType, PortsAre DEF Heads
<1>2. CASE m.gen >= 6
  <2>1. /\ b \in Shows /\ b.panel = a.panel
        /\ \A q \in Pipes : (a.pipe[q] => b.pipe[q]) /\ (b.plane[q] => a.plane[q])
    BY <1>1 DEF Shows
  <2>2. b.dark = a.dark /\ b.over = a.over /\ b.plane = a.plane /\ b.pipe[p]
    BY <1>1 DEF Shows
  <2>3. Shot(m, dpms, a, x, b)
    BY DEF Shot, Op, Stays, Prepared
  <2>4. x \in PortSteps /\ x \in Ops
    BY <1>1, OpsHave DEF Op, Switches
  <2>5. Configured(p) = <<x>>
    BY <1>2 DEF Configured
  <2> HIDE DEF b, x
  <2>6. b \in Scenes(m)
    BY <1>1, <2>1, FedStill, SceneType
  <2>7. ~(m.gen <= 5)
    BY <1>1, <1>2
  <2>8. Prepared(m, b, k)
    BY <2>1, <2>2, <2>7 DEF Prepared, Dark
  <2>9. Film(m, dpms, <<x>>, a, b)
    BY <2>3, <2>4, <2>6, FilmOne
  <2> QED BY <1>2, <2>1, <2>2, <2>4, <2>5, <2>6, <2>8, <2>9, OneStep
<1>3. CASE ~(m.gen >= 6)
  <2>1. Configured(p) = <<>>
    BY <1>3 DEF Configured
  <2>2. m.gen <= 5 /\ ~a.pipe[p]
    BY <1>1, <1>3 DEF Prepared, Dark
  <2>3. <<>> \in Seq(PortSteps) /\ Film(m, dpms, <<>>, a, a)
    BY RunsEmpty DEF Film
  <2> QED BY <1>3, <2>1, <2>2, <2>3
<1> QED BY <1>2, <1>3

\* The programming of the PLL of a port of which the pipe has been configured.
LEMMA ProgramRuns ==
  ASSUME NEW m, NEW dpms, NEW mode \in Modes, NEW a \in Scenes(m), ~a.over,
         NEW port \in Ports, Stopped(m, a, port), NEW n \in Plls, NEW running \in BOOLEAN
  PROVE  /\ Program(n, port, mode, running) \in Seq(PortSteps)
         /\ Film(m, dpms, Program(n, port, mode, running), a, a)
<1> DEFINE x == Op("clock", [pll |-> n,
                             set |-> [port |-> port, mode |-> mode, running |-> running]])
<1>1. x \in PortSteps /\ x \in Ops
  <2>1. [port |-> port, mode |-> mode, running |-> running] \in Settings
    BY DEF Settings
  <2>2. x \in ClockOps
    BY <2>1 DEF Op, ClockOps
  <2> HIDE DEF x
  <2> QED BY <2>2, OpsHave
<1>2. x.op = "clock" /\ x.arg.set.port = port
  BY DEF Op
<1>3. Program(n, port, mode, running) = <<x>>
  BY DEF Program
<1> HIDE DEF x
<1>4. Shot(m, dpms, a, x, a)
  BY <1>2 DEF Shot, Stays
<1>5. Film(m, dpms, <<x>>, a, a)
  BY <1>1, <1>4, FilmOne
<1> QED BY <1>1, <1>3, <1>5, OneStep

LEMMA PllIs == \A p : PllOf(p) \in Plls
BY DEF PllOf, Plls

LEMMA ClockRuns ==
  ASSUME NEW m, NEW dpms, NEW mode \in Modes, NEW a \in Scenes(m), ~a.over,
         NEW port \in Ports, Stopped(m, a, port)
  PROVE  /\ Clocked(port, mode) \in Seq(PortSteps)
         /\ Film(m, dpms, Clocked(port, mode), a, a)
<1> DEFINE s == Program(PllOf(port.pipe), port, mode, FALSE)
           r == Program(PllOf(port.pipe), port, mode, TRUE)
<1>1. s \in Seq(PortSteps) /\ Film(m, dpms, s, a, a)
  BY PllIs, ProgramRuns
<1>2. r \in Seq(PortSteps) /\ Film(m, dpms, r, a, a)
  BY PllIs, ProgramRuns
<1>3. Clocked(port, mode) = s \o r
  BY DEF Clocked
<1> HIDE DEF s, r
<1>4. s \in Seq(Ops) /\ r \in Seq(Ops)
  BY <1>1, <1>2, OpsHave, SeqHas
<1>5. Film(m, dpms, s \o r, a, a)
  BY <1>1, <1>2, <1>4, FilmConcat
<1>6. s \o r \in Seq(PortSteps)
  BY <1>1, <1>2
<1> QED BY <1>3, <1>5, <1>6

\* The panel's power.
LEMMA PanelRuns ==
  ASSUME NEW m, NEW dpms, NEW k, NEW a \in Scenes(m), Prepared(m, a, k), NEW on \in BOOLEAN,
         on => m.gen # 4 /\ Panelled(m) /\ \E i \in 1 .. k : m.ports[i].class = "lvds"
  PROVE  LET x == Op("panel", on) IN
         /\ x \in PortSteps
         /\ \E b \in Scenes(m) :
              /\ Prepared(m, b, k) /\ b.dark = a.dark /\ (b.panel <=> on)
              /\ Film(m, dpms, <<x>>, a, b)
<1> DEFINE x == Op("panel", on)
           b == [a EXCEPT !.panel = on]
<1>1. a \in Shows /\ Fed(a)
  BY SceneType
<1>2. b \in Shows
  BY <1>1 DEF Shows
<1>3. /\ b.plane = a.plane /\ b.pipe = a.pipe
      /\ b.dark = a.dark /\ b.over = a.over /\ b.panel = on
  BY <1>1 DEF Shows
<1>4. Shot(m, dpms, a, x, b)
  BY DEF Shot, Op, Stays, Prepared
<1>5. x \in PortSteps /\ x \in Ops
  BY OpsHave DEF Op, Panels
<1> HIDE DEF b, x
<1>6. b \in Scenes(m)
  BY <1>1, <1>2, <1>3, FedStill, SceneType
<1>7. Prepared(m, b, k)
  BY <1>3 DEF Prepared, Dark
<1>8. Film(m, dpms, <<x>>, a, b)
  BY <1>4, <1>5, <1>6, FilmOne
<1> QED BY <1>3, <1>5, <1>6, <1>7, <1>8 DEF x

\* The PLL of port i may be programmed once its pipe is configured: the panel is off, or an
\* LVDS port before it has powered it.
LEMMA StoppedIs ==
  ASSUME machine \in Machines, NEW i \in 1 .. Len(machine.ports), NEW a,
         Prepared(machine, a, i - 1),
         a.pipe[machine.ports[i].pipe] <=> machine.gen >= 6
  PROVE  Stopped(machine, a, machine.ports[i])
<1>1. Len(machine.ports) \in Nat /\ DOMAIN machine.ports = 1 .. Len(machine.ports)
  BY PortsAre
<1>2. ASSUME NEW j \in 1 .. i - 1
      PROVE  j < i /\ j \in DOMAIN machine.ports /\ i \in DOMAIN machine.ports
  BY <1>1
<1>3. a.panel => Back(machine, machine.ports[i])
  <2> SUFFICES ASSUME a.panel PROVE Back(machine, machine.ports[i])
    OBVIOUS
  <2>1. machine.gen # 4
    BY DEF Prepared
  <2>2. PICK j \in 1 .. i - 1 : machine.ports[j].class = "lvds"
    BY DEF Prepared
  <2> QED BY <1>2, <2>1, <2>2 DEF Back
<1> QED BY <1>3 DEF Stopped, Prepared, Dark

\* AnalogPort, DigitalPort, and the middle of LVDSPort: the pipe, then the PLL.
LEMMA PlainRuns ==
  ASSUME machine \in Machines, NEW dpms, NEW mode \in Modes, NEW a \in Scenes(machine),
         NEW i \in 1 .. Len(machine.ports), Prepared(machine, a, i - 1)
  PROVE  LET port == machine.ports[i]
             s == Configured(port.pipe) \o Clocked(port, mode) IN
         /\ Configured(port.pipe) \in Seq(PortSteps) /\ Clocked(port, mode) \in Seq(PortSteps)
         /\ s \in Seq(PortSteps)
         /\ \E b \in Scenes(machine) :
              /\ Prepared(machine, b, i - 1) /\ b.dark = a.dark /\ b.panel = a.panel
              /\ Film(machine, dpms, s, a, b)
<1> DEFINE m == machine
           port == m.ports[i]
           s == Configured(port.pipe)
           r == Clocked(port, mode)
<1>0. port \in Ports /\ port.pipe \in Heads(m)
  BY PortsAre DEF Heads
<1>1. s \in Seq(PortSteps)
  BY <1>0, ConfigureRuns
<1>2. PICK b \in Scenes(m) :
        /\ Prepared(m, b, i - 1) /\ b.dark = a.dark /\ b.panel = a.panel
        /\ b.pipe[port.pipe] <=> m.gen >= 6
        /\ Film(m, dpms, s, a, b)
  BY <1>0, ConfigureRuns
<1>3. Stopped(m, b, port) /\ ~b.over
  BY <1>2, StoppedIs DEF Prepared
<1>4. r \in Seq(PortSteps) /\ Film(m, dpms, r, b, b)
  BY <1>0, <1>3, ClockRuns
<1> HIDE DEF s, r
<1>5. s \in Seq(Ops) /\ r \in Seq(Ops)
  BY <1>1, <1>4, OpsHave, SeqHas
<1>6. Film(m, dpms, s \o r, a, b)
  BY <1>2, <1>4, <1>5, FilmConcat
<1>7. s \o r \in Seq(PortSteps)
  BY <1>1, <1>4
<1> QED BY <1>1, <1>2, <1>4, <1>6, <1>7 DEF s, r

\* LVDSPort: its clock changes while the panel has no power.
LEMMA LvdsRuns ==
  ASSUME machine \in Machines, NEW dpms, NEW mode \in Modes, NEW a \in Scenes(machine),
         NEW i \in 1 .. Len(machine.ports), Prepared(machine, a, i - 1),
         machine.ports[i].class = "lvds"
  PROVE  Leads(machine, dpms, LvdsMode(machine.ports[i], mode), a, i)
<1> DEFINE m == machine
           port == m.ports[i]
           u == Configured(port.pipe)
           v == Clocked(port, mode)
           r == u \o v
           off == <<Op("panel", FALSE)>>
           on == <<Op("panel", TRUE)>>
<1>1. i - 1 \in Nat /\ i \in Nat /\ i - 1 <= i /\ i \in 1 .. i /\ Panelled(m)
  <2>1. i - 1 \in Nat /\ i \in Nat /\ i - 1 <= i /\ i \in 1 .. i
    BY PortsAre
  <2> QED BY <2>1, PortsAre DEF Panelled, LvdsPorts
<1>2. CASE m.gen = 4
  <2>1. PICK b \in Scenes(m) : /\ Prepared(m, b, i - 1) /\ b.dark = a.dark
                               /\ Film(m, dpms, r, a, b)
    BY PlainRuns
  <2>2. r \in Seq(PortSteps) /\ u \in Seq(PortSteps)
    BY PlainRuns
  <2>3. LvdsMode(port, mode) = ((<<>> \o u) \o v) \o <<>>
    BY <1>2 DEF LvdsMode
  <2>4. Prepared(m, b, i)
    BY <1>1, <2>1, PreparedMore
  <2> HIDE DEF u, v
  <2>5. <<>> \o u = u
    BY <2>2
  <2> HIDE DEF r
  <2>6. r \o <<>> = r
    BY <2>2
  <2>7. LvdsMode(port, mode) = r
    BY <2>3, <2>5, <2>6 DEF r
  <2> QED BY <2>1, <2>2, <2>4, <2>7 DEF Leads
<1>3. CASE m.gen # 4
  <2>1. PICK b \in Scenes(m) : /\ Prepared(m, b, i - 1) /\ b.dark = a.dark
                               /\ Film(m, dpms, off, a, b)
    BY PanelRuns
  <2>2. PICK c \in Scenes(m) : /\ Prepared(m, c, i - 1) /\ c.dark = b.dark
                               /\ Film(m, dpms, r, b, c)
    BY <2>1, PlainRuns
  <2>3. r \in Seq(PortSteps) /\ u \in Seq(PortSteps) /\ v \in Seq(PortSteps)
    BY <2>1, PlainRuns
  <2>4. Prepared(m, c, i)
    BY <1>1, <2>2, PreparedMore
  <2>5. PICK d \in Scenes(m) : /\ Prepared(m, d, i) /\ d.dark = c.dark
                               /\ Film(m, dpms, on, c, d)
    <3>1. \E j \in 1 .. i : m.ports[j].class = "lvds"
      BY <1>1
    <3> QED BY <1>1, <1>3, <2>4, <3>1, PanelRuns
  <2>8. off \in Seq(PortSteps) /\ on \in Seq(PortSteps)
    <3>1. Op("panel", FALSE) \in PortSteps /\ Op("panel", TRUE) \in PortSteps
      BY OpsHave DEF Op, Panels
    <3> QED BY <3>1, OneStep
  <2>9. LvdsMode(port, mode) = ((off \o u) \o v) \o on
    BY <1>3 DEF LvdsMode
  <2> HIDE DEF off, on, u, v
  <2>17. off \in Seq(PortSteps)
    BY <2>8
  <2>18. u \in Seq(PortSteps) /\ v \in Seq(PortSteps)
    BY <2>3
  <2> HIDE DEF r
  <2>10. (off \o u) \o v = off \o (u \o v)
    BY <2>17, <2>18, ConcatAssociative
  <2>16. r \in Seq(PortSteps)
    BY <2>3
  <2>11. LvdsMode(port, mode) = (off \o r) \o on
    BY <2>9, <2>10 DEF r
  <2>12. (off \o r) \o on = off \o (r \o on)
    BY <2>8, <2>16, ConcatAssociative
  <2>13. Leads(m, dpms, on, c, i)
    BY <2>5, <2>8 DEF Leads
  <2>14. Leads(m, dpms, r \o on, b, i)
    BY <2>2, <2>3, <2>13, LeadsConcat
  <2>15. Leads(m, dpms, off \o (r \o on), a, i)
    BY <2>1, <2>8, <2>14, LeadsConcat
  <2> QED BY <2>11, <2>12, <2>15
<1> QED BY <1>2, <1>3

\* A DDI port: the PLL is left as it is, or programmed in one step.
LEMMA DdiRuns ==
  ASSUME machine \in Machines, NEW dpms, NEW mode \in Modes, NEW a \in Scenes(machine),
         NEW i \in 1 .. Len(machine.ports), Prepared(machine, a, i - 1)
  PROVE  Leads(machine, dpms, DdiMode(machine.ports[i], mode), a, i - 1)
<1> DEFINE m == machine
           port == m.ports[i]
           s == Configured(port.pipe)
           programmed == m.gen >= 12 \/ (m.gen >= 9 /\ port.pll # 0)
           q == Program(port.pll, port, mode, TRUE)
           r == IF programmed THEN q ELSE <<>>
<1>0. port \in Ports /\ port.pipe \in Heads(m) /\ port.pll \in Plls
  BY PortsAre DEF Heads
<1>1. s \in Seq(PortSteps)
  BY <1>0, ConfigureRuns
<1>2. PICK b \in Scenes(m) :
        /\ Prepared(m, b, i - 1) /\ b.dark = a.dark
        /\ b.pipe[port.pipe] <=> m.gen >= 6
        /\ Film(m, dpms, s, a, b)
  BY <1>0, ConfigureRuns
<1>3. Stopped(m, b, port) /\ ~b.over
  BY <1>2, StoppedIs DEF Prepared
<1>4. q \in Seq(PortSteps) /\ Film(m, dpms, q, b, b)
  BY <1>0, <1>3, ProgramRuns
<1>5. <<>> \in Seq(PortSteps) /\ Film(m, dpms, <<>>, b, b)
  BY RunsEmpty DEF Film
<1> HIDE DEF q, programmed
<1>6. r \in Seq(PortSteps) /\ Film(m, dpms, r, b, b)
  BY <1>4, <1>5
<1>7. DdiMode(port, mode) = s \o r
  BY Zenon DEF DdiMode, s, r, q, programmed
<1> HIDE DEF s, r
<1>8. s \in Seq(Ops) /\ r \in Seq(Ops)
  BY <1>1, <1>6, OpsHave, SeqHas
<1>9. Film(m, dpms, s \o r, a, b)
  BY <1>2, <1>6, <1>8, FilmConcat
<1>10. s \o r \in Seq(PortSteps)
  BY <1>1, <1>6
<1> QED BY <1>2, <1>7, <1>9, <1>10 DEF Leads

\* The mode set of any port.
LEMMA PortModeRuns ==
  ASSUME machine \in Machines, NEW dpms, NEW mode \in Modes, NEW a \in Scenes(machine),
         NEW i \in 1 .. Len(machine.ports), Prepared(machine, a, i - 1)
  PROVE  Leads(machine, dpms, PortMode(machine.ports[i], mode), a, i)
<1> DEFINE m == machine
           port == m.ports[i]
           p == port.pipe
<1>1. p \in Heads(m) /\ port.class \in Classes
  BY PortsAre DEF Heads
<1>2. ASSUME NEW s, Leads(m, dpms, s, a, i - 1)
      PROVE  Leads(m, dpms, s, a, i)
  <2>1. i - 1 \in Nat /\ i \in Nat /\ i - 1 <= i
    BY PortsAre
  <2>2. PICK b \in Scenes(m) : /\ Prepared(m, b, i - 1) /\ b.dark = a.dark
                               /\ Film(m, dpms, s, a, b)
    BY <1>2 DEF Leads
  <2>3. Prepared(m, b, i)
    BY <2>1, <2>2, PreparedMore
  <2> QED BY <1>2, <2>2, <2>3 DEF Leads
<1>3. Leads(m, dpms, Configured(p), a, i - 1)
  BY <1>1, ConfigureRuns DEF Leads
<1>4. CASE port.class = "lvds"
  <2>3. PortMode(port, mode) = LvdsMode(port, mode)
    BY <1>4 DEF PortMode
  <2> QED BY <1>4, <2>3, LvdsRuns
<1>5. CASE port.class = "ddi"
  <2>1. PortMode(port, mode) = DdiMode(port, mode)
    BY <1>5 DEF PortMode
  <2> QED BY <1>2, <2>1, DdiRuns
<1>6. CASE port.class = "dp"
  <2>1. PortMode(port, mode) = DisplayPortMode(p)
    BY <1>6 DEF PortMode
  <2>2. DisplayPortMode(p) = <<>> \/ DisplayPortMode(p) = Configured(p)
    BY DEF DisplayPortMode
  <2>3. Leads(m, dpms, DisplayPortMode(p), a, i - 1)
    BY <1>3, <2>2, LeadsNowhere
  <2> QED BY <1>2, <2>1, <2>3
<1>7. CASE port.class \in {"analog", "digital"}
  <2>1. PortMode(port, mode) = PlainMode(port, mode)
    BY <1>7 DEF PortMode
  <2> DEFINE r == Configured(p) \o Clocked(port, mode)
  <2>2. PlainMode(port, mode) = r
    BY DEF PlainMode
  <2>3. r \in Seq(PortSteps) /\ \E b \in Scenes(m) : /\ Prepared(m, b, i - 1) /\ b.dark = a.dark
                                                     /\ Film(m, dpms, r, a, b)
    BY PlainRuns
  <2>4. Leads(m, dpms, r, a, i - 1)
    BY <2>3 DEF Leads
  <2> QED BY <1>2, <2>1, <2>2, <2>4
<1> QED BY <1>1, <1>4, <1>5, <1>6, <1>7 DEF Classes

\* After every port's mode set the ports are as prepared as before.
LEMMA PortsPrepared ==
  ASSUME machine \in Machines, NEW dpms, NEW mode \in Modes, NEW a \in Scenes(machine),
         Prepared(machine, a, 0)
  PROVE  LET set == [port \in Range(machine.ports) |-> PortMode(port, mode)] IN
         Leads(machine, dpms, ForEachPort(set), a, Len(machine.ports))
<1> DEFINE m == machine
           n == Len(m.ports)
           set == [port \in Range(machine.ports) |-> PortMode(port, mode)]
           Fine(k) == {s \in Scenes(m) : Prepared(m, s, k) /\ s.dark = a.dark}
           T == [k \in 0 .. n |-> Fine(k)]
           all == ForEachPort(set)
<1>1. n \in Nat
  BY PortsAre
<1>2. \A i \in 1 .. n : set[m.ports[i]] = PortMode(m.ports[i], mode)
  BY PortsAre
<1> HIDE DEF set, n
<1>3. ASSUME NEW i \in 1 .. n, NEW z \in Fine(i - 1)
      PROVE  \E y \in Fine(i) : Runs(Shots(m, dpms), Scenes(m), set[m.ports[i]], z, y)
  <2>1. Leads(m, dpms, PortMode(m.ports[i], mode), z, i)
    BY PortModeRuns DEF n
  <2> QED BY <1>2, <2>1 DEF Leads, Film
<1>4. a \in Fine(0) /\ Fine(0) \subseteq Scenes(m)
  OBVIOUS
<1>11. ASSUME NEW i \in 1 .. n
       PROVE  set[m.ports[i]] \in Seq(PortSteps)
  <2> DEFINE z == [a EXCEPT !.panel = FALSE]
  <2>1. a \in Shows /\ Fed(a)
    BY SceneType
  <2>2. z \in Shows /\ z.plane = a.plane /\ z.pipe = a.pipe /\ z.over = a.over /\ z.panel = FALSE
    BY <2>1 DEF Shows
  <2> HIDE DEF z
  <2>3. z \in Scenes(m)
    BY <2>1, <2>2, FedStill, SceneType
  <2>4. Prepared(m, z, i - 1)
    BY <2>2 DEF Prepared, Dark
  <2>5. Leads(m, dpms, PortMode(m.ports[i], mode), z, i)
    BY <2>3, <2>4, PortModeRuns DEF n
  <2> QED BY <1>2, <2>5 DEF Leads
<1> HIDE DEF Fine
<1>5. T[0] = Fine(0) /\ T[n] = Fine(n) /\ \A k \in 1 .. n : T[k - 1] = Fine(k - 1) /\ T[k] = Fine(k)
  <2>1. 0 \in 0 .. n /\ n \in 0 .. n /\ \A k \in 1 .. n : k - 1 \in 0 .. n /\ k \in 0 .. n
    BY <1>1
  <2> QED BY <2>1
<1> HIDE DEF T
<1>6. \A i \in DOMAIN machine.ports : set[machine.ports[i]] \in Seq(PortSteps)
  BY <1>11, PortsAre DEF n
<1>7. \A k \in 1 .. Len(machine.ports) : \A z \in T[k - 1] :
        \E y \in T[k] : Runs(Shots(m, dpms), Scenes(m), set[machine.ports[k]], z, y)
  <2>1. ASSUME NEW k \in 1 .. n, NEW z \in T[k - 1]
        PROVE  \E y \in T[k] : Runs(Shots(m, dpms), Scenes(m), set[m.ports[k]], z, y)
    BY <1>3, <1>5
  <2> QED BY <2>1 DEF n
<1>8. machine.ports \in Seq(Ports)
  BY PortsAre
<1>9. /\ all \in Seq(PortSteps)
      /\ \A z \in T[0] : \E y \in T[Len(machine.ports)] : Runs(Shots(m, dpms), Scenes(m), all, z, y)
  <2>1. T[0] \subseteq Scenes(m)
    BY <1>4, <1>5
  <2> HIDE DEF all
  <2> QED BY <1>6, <1>7, <1>8, <2>1, PortsRun DEF all
<1> HIDE DEF all
<1>10. \E y \in Fine(n) : Runs(Shots(m, dpms), Scenes(m), all, a, y)
  BY <1>4, <1>5, <1>9 DEF n
<1>12. Leads(m, dpms, all, a, n)
  BY <1>9, <1>10 DEF Leads, Film, Fine
<1> QED BY <1>12 DEF all, set, n

LEMMA PoweredIs ==
  ASSUME machine \in Machines, NEW a \in Scenes(machine), NEW dpms \in DpmsModes
  PROVE  /\ Lit(machine, Powered(machine, a, dpms = "on"), dpms)
         /\ dpms # "on" => Off(machine, Powered(machine, a, dpms = "on"))
<1> DEFINE on == dpms = "on"
           b == Switched(machine, a, on, Heads(machine))
           c == [b EXCEPT !.panel = on /\ Panelled(machine)]
<1>2. machine.gen \in Nat /\ Heads(machine) \subseteq Pipes
  BY PortsAre DEF Heads
<1>1. b \in Shows /\ a \in Shows
  BY <1>2, SwitchedScene, SceneType
<1>3. \A p \in Heads(machine) : b.plane[PlaneOf(p)] = on
  BY <1>1, <1>2, PlaneIs DEF Switched, Shows
<1>4. ~on /\ machine.gen <= 5 => \A p \in Heads(machine) : b.pipe[p] = FALSE
  <2>1. machine.gen <= 5 => ~(machine.gen > 5)
    BY <1>2
  <2> QED BY <1>1, <1>2, <2>1 DEF Switched, Shows
<1> HIDE DEF b, on
<1>5. c.plane = b.plane /\ c.pipe = b.pipe /\ (c.panel <=> on /\ Panelled(machine))
  BY <1>1 DEF Shows
<1>6. c = Powered(machine, a, on)
  BY DEF b, Powered
<1> HIDE DEF c
<1>7. Lit(machine, c, dpms)
  BY <1>3, <1>5 DEF Lit, on
<1>8. ~on => Off(machine, c)
  BY <1>3, <1>4, <1>5 DEF Off, Dark
<1> QED BY <1>6, <1>7, <1>8 DEF on

LEMMA DoType ==
  /\ Do("lock") \in LockOps /\ Do("unlock") \in LockOps
  /\ Do("free") \in PlainOps /\ Do("power") \in PlainOps
  /\ Do("lock").op = "lock" /\ Do("unlock").op = "unlock"
  /\ Do("free").op = "free" /\ Do("power").op = "power"
  /\ \A mode \in Modes : /\ Op("allocate", mode) \in ModeOps
                         /\ Op("pitch", mode) \in ModeOps
                         /\ Op("adopt", mode) \in ModeOps
  /\ \A start \in Nat : Op("move", start) \in MoveOps
  /\ \A name, arg : Op(name, arg).op = name /\ Op(name, arg).arg = arg
BY DEF Do, Op, LockOps, PlainOps, ModeOps, MoveOps

\* The base registers and then the lock.
LEMMA AfterMoveType ==
  /\ AfterMove \in Seq(MoveSteps) /\ AfterRestore = AfterMove
  /\ \A i \in 1 .. Len(AfterMove) : AfterMove[i].op \in Stays
<1> DEFINE b == set_frame_buffer_base
           u == <<Do("unlock")>>
           x == Do("unlock")
<1>1. b \in Seq(BaseOps) /\ b \in Seq(MoveSteps)
  BY BaseType, OpsHave, SeqHas
<1>2. x \in MoveSteps /\ x.op \in Stays
  BY DoType, OpsHave DEF Stays
<1>3. u \in Seq(MoveSteps) /\ Len(u) = 1 /\ u[1] = x
  <2> HIDE DEF x
  <2> QED BY <1>2, OneStep DEF x
<1>4. \A i \in 1 .. Len(b) : b[i].op \in Stays
  BY BaseType
<1> HIDE DEF b, u, x
<1>5. /\ b \o u \in Seq(MoveSteps) /\ Len(b \o u) = Len(b) + Len(u)
      /\ \A i \in 1 .. Len(b) + Len(u) :
           (b \o u)[i] = IF i <= Len(b) THEN b[i] ELSE u[i - Len(b)]
  BY <1>1, <1>3, ConcatProperties
<1>6. ASSUME NEW i \in 1 .. Len(b) + 1 PROVE (b \o u)[i].op \in Stays
  <2>0. Len(b) \in Nat
    BY <1>1
  <2>1. CASE i <= Len(b)
    <3>1. i \in 1 .. Len(b) /\ i \in 1 .. Len(b) + Len(u)
      BY <1>3, <2>0, <2>1
    <3> QED BY <1>4, <1>5, <2>1, <3>1
  <2>2. CASE ~(i <= Len(b))
    <3>1. i - Len(b) = 1 /\ i \in 1 .. Len(b) + Len(u)
      BY <1>3, <2>0, <2>2
    <3> QED BY <1>2, <1>3, <1>5, <2>2, <3>1
  <2> QED BY <2>1, <2>2
<1>7. AfterMove = b \o u /\ AfterRestore = b \o u
  BY DEF AfterMove, AfterRestore, b, u
<1> QED BY <1>3, <1>5, <1>6, <1>7

\* A program of which each step switches nothing, after another.
LEMMA StaysLast ==
  ASSUME NEW m, NEW dpms, NEW s \in Seq(Ops), NEW x \in Ops, x.op \in Stays,
         NEW a \in Scenes(m), NEW b \in Scenes(m), ~b.over, Film(m, dpms, s, a, b)
  PROVE  s \o <<x>> \in Seq(Ops) /\ Film(m, dpms, s \o <<x>>, a, b)
<1>1. <<x>> \in Seq(Ops) /\ Len(<<x>>) = 1 /\ <<x>>[1] = x
  BY OneStep
<1> DEFINE r == <<x>>
<1> HIDE DEF r
<1>2. r \in Seq(Ops) /\ Len(r) = 1 /\ r[1] = x
  BY <1>1 DEF r
<1>3. Film(m, dpms, r, b, b)
  BY <1>2, FilmStay
<1>4. s \o r \in Seq(Ops) /\ Film(m, dpms, s \o r, a, b)
  BY <1>2, <1>3, FilmConcat
<1> QED BY <1>4 DEF r

\* The rest of a mode set, once it has a frame buffer: DPMS has its way.
LEMMA AfterMemoryRuns ==
  ASSUME machine \in Machines, NEW dpms \in DpmsModes, NEW mode \in Modes,
         NEW a \in Scenes(machine), ~a.over, Off(machine, a)
  PROVE  /\ AfterMemory(mode) \in Seq(Ops)
         /\ \E b \in Scenes(machine) : /\ Lit(machine, b, dpms)
                                       /\ Film(machine, dpms, AfterMemory(mode), a, b)
         /\ \E all \in Seq(PortSteps) : AfterMemory(mode) =
              ((all \o <<Do("power"), Op("pitch", mode), Op("adopt", mode)>>)
               \o set_frame_buffer_base) \o <<Do("unlock")>>
<1> DEFINE m == machine
           set == [port \in Range(machine.ports) |-> PortMode(port, mode)]
           all == ForEachPort(set)
           x == Do("power")
           y == Op("pitch", mode)
           z == Op("adopt", mode)
           base == set_frame_buffer_base
           u == Do("unlock")
<1>1. Prepared(m, a, 0)
  BY DEF Off, Prepared
<1>2. Leads(m, dpms, all, a, Len(m.ports))
  BY <1>1, PortsPrepared
<1> HIDE DEF all
<1>3. all \in Seq(PortSteps)
  BY <1>2 DEF Leads
<1>4. PICK b \in Scenes(m) : Prepared(m, b, Len(m.ports)) /\ Film(m, dpms, all, a, b)
  BY <1>2 DEF Leads
<1> DEFINE on == dpms = "on"
           c == Powered(m, b, on)
           d == [c EXCEPT !.dark = FALSE]
<1>5. c \in Scenes(m) /\ c.over = b.over /\ Lit(m, c, dpms)
  <2>1. on \in BOOLEAN
    OBVIOUS
  <2> QED BY <2>1, PowerOfScene, PoweredIs
<1>6. ~b.over
  BY <1>4 DEF Prepared
<1> HIDE DEF c
<1>7. d \in Scenes(m) /\ ~d.over /\ Lit(m, d, dpms)
  <2>1. c \in Shows /\ Fed(c) /\ (c.panel => Panelled(m))
    BY <1>5, SceneType
  <2>2. d \in Shows
    BY <2>1 DEF Shows
  <2>3. d.plane = c.plane /\ d.pipe = c.pipe /\ d.panel = c.panel /\ d.over = c.over
    BY <2>1 DEF Shows
  <2> HIDE DEF d
  <2>4. d \in Scenes(m)
    BY <2>1, <2>2, <2>3, FedStill, SceneType
  <2>5. Lit(m, d, dpms)
    BY <1>5, <2>3 DEF Lit
  <2> QED BY <1>5, <1>6, <2>3, <2>4, <2>5
<1>8. Shot(m, dpms, b, x, d)
  BY <1>6, DoType DEF Shot, Stays, c, on
<1>9. /\ x \in Ops /\ y \in Ops /\ z \in Ops /\ u \in Ops /\ all \in Seq(Ops)
      /\ base \in Seq(Ops)
  BY <1>3, DoType, BaseType, OpsHave, SeqHas
<1>10. y.op \in Stays /\ z.op \in Stays /\ u.op \in Stays
  BY DoType DEF Stays
<1> HIDE DEF d, x, y, z, u, base
<1>11. <<x>> \in Seq(Ops) /\ <<y>> \in Seq(Ops) /\ <<z>> \in Seq(Ops) /\ <<u>> \in Seq(Ops)
  BY <1>9
<1>12. Film(m, dpms, <<x>>, b, d)
  BY <1>7, <1>8, <1>9, FilmOne
<1>13. all \o <<x>> \in Seq(Ops) /\ Film(m, dpms, all \o <<x>>, a, d)
  BY <1>4, <1>9, <1>11, <1>12, FilmConcat
<1> DEFINE s1 == all \o <<x>>
           s2 == s1 \o <<y>>
           s3 == s2 \o <<z>>
           s4 == s3 \o base
           s5 == s4 \o <<u>>
<1>14. s1 \in Seq(Ops) /\ Film(m, dpms, s1, a, d)
  BY <1>13
<1> HIDE DEF s1
<1>15. s2 \in Seq(Ops) /\ Film(m, dpms, s2, a, d)
  BY <1>7, <1>9, <1>10, <1>14, StaysLast
<1> HIDE DEF s2
<1>16. s3 \in Seq(Ops) /\ Film(m, dpms, s3, a, d)
  BY <1>7, <1>9, <1>10, <1>15, StaysLast
<1> HIDE DEF s3
<1>17. s4 \in Seq(Ops) /\ Film(m, dpms, s4, a, d)
  <2>1. Film(m, dpms, base, d, d)
    BY <1>7, <1>9, BaseType, FilmStay DEF base
  <2> QED BY <1>9, <1>16, <2>1, FilmConcat
<1> HIDE DEF s4
<1>18. s5 \in Seq(Ops) /\ Film(m, dpms, s5, a, d)
  BY <1>7, <1>9, <1>10, <1>17, StaysLast
<1>19. s3 = all \o <<x, y, z>>
  <2>1. <<x>> \o <<y>> = <<x, y>> /\ <<x, y>> \in Seq(Ops)
    BY <1>9, TwoSteps
  <2> DEFINE sx == <<x>>
             sy == <<y>>
             sz == <<z>>
             xy == <<x, y>>
  <2>2. xy \o sz = <<x, y, z>>
    BY <1>9, ThreeSteps
  <2> HIDE DEF sx, sy, sz, xy
  <2>3. (all \o sx) \o sy = all \o (sx \o sy)
    BY <1>9, <1>11, ConcatAssociative DEF sx, sy
  <2>4. (all \o xy) \o sz = all \o (xy \o sz)
    BY <1>9, <1>11, <2>1, ConcatAssociative DEF sz, xy
  <2>5. s3 = ((all \o sx) \o sy) \o sz
    BY DEF s3, s2, s1, sx, sy, sz
  <2>6. sx \o sy = xy
    BY <2>1 DEF sx, sy, xy
  <2> QED BY <2>2, <2>3, <2>4, <2>5, <2>6
<1>20. AfterMemory(mode) = s5
  <2>1. AfterMemory(mode) = ((all \o <<x, y, z>>) \o base) \o <<u>>
    BY Zenon DEF AfterMemory, all, set, x, y, z, base, u
  <2> QED BY <1>19, <2>1 DEF s4
<1>21. AfterMemory(mode) = ((all \o <<Do("power"), Op("pitch", mode), Op("adopt", mode)>>)
                             \o set_frame_buffer_base) \o <<Do("unlock")>>
  BY Zenon DEF AfterMemory, all, set
<1> QED BY <1>3, <1>7, <1>18, <1>20, <1>21

\* A mode set up to its frame buffer: it ends with the display off.
LEMMA UntilMemoryRuns ==
  ASSUME machine \in Machines, NEW dpms, NEW mode \in Modes,
         NEW a \in Scenes(machine), ~a.over
  PROVE  /\ UntilMemory(mode) \in Seq(Ops)
         /\ \E b \in Scenes(machine) : b.over /\ Film(machine, dpms, UntilMemory(mode), a, b)
<1> DEFINE m == machine
           power == set_display_power_mode("off")
           x == Do("lock")
           y == Do("free")
           z == Op("allocate", mode)
           c == Powered(m, a, FALSE)
           d == [c EXCEPT !.over = TRUE]
<1>1. power \in Seq(PowerSteps) /\ Film(m, dpms, power, a, c)
  <2>1. "off" \in DpmsModes /\ ("off" = "on") = FALSE
    BY DEF DpmsModes
  <2> HIDE DEF power
  <2> QED BY <2>1, PowerRuns DEF power
<1>2. c \in Scenes(m) /\ ~c.over /\ Off(m, c)
  <2>1. "off" \in DpmsModes /\ ("off" = "on") = FALSE
    BY DEF DpmsModes
  <2>2. Off(m, Powered(m, a, "off" = "on"))
    BY <2>1, PoweredIs
  <2> QED BY <2>1, <2>2, PowerOfScene
<1> HIDE DEF power, c
<1>3. d \in Scenes(m) /\ d.over
  <2>1. c \in Shows /\ Fed(c) /\ (c.panel => Panelled(m))
    BY <1>2, SceneType
  <2>2. d \in Shows
    BY <2>1 DEF Shows
  <2>3. d.plane = c.plane /\ d.pipe = c.pipe /\ d.panel = c.panel /\ d.over
    BY <2>1 DEF Shows
  <2> HIDE DEF d
  <2> QED BY <2>1, <2>2, <2>3, FedStill, SceneType
<1>4. x \in Ops /\ y \in Ops /\ z \in Ops /\ power \in Seq(Ops)
  BY <1>1, DoType, OpsHave, SeqHas
<1>5. Shot(m, dpms, a, x, a) /\ Shot(m, dpms, c, y, c) /\ Shot(m, dpms, c, z, d)
  <2>1. x.op = "lock" /\ y.op = "free" /\ z.op = "allocate"
    BY DoType
  <2> HIDE DEF x, y, z
  <2>2. Shot(m, dpms, a, x, a)
    BY <2>1 DEF Shot, Stays
  <2>3. Shot(m, dpms, c, y, c)
    BY <1>2, <2>1 DEF Shot, Stays
  <2>4. Shot(m, dpms, c, z, d)
    BY <1>2, <2>1 DEF Shot, Stays
  <2> QED BY <2>2, <2>3, <2>4
<1> HIDE DEF d, x, y, z
<1>6. <<x>> \in Seq(Ops) /\ Film(m, dpms, <<x>>, a, a)
  BY <1>4, <1>5, FilmOne
<1>7. <<y, z>> \in Seq(Ops) /\ Film(m, dpms, <<y, z>>, c, d)
  <2>1. <<c, c>> \in Shots(m, dpms)[y] /\ <<c, d>> \in Shots(m, dpms)[z]
    BY <1>2, <1>3, <1>4, <1>5, ShotIs
  <2> QED BY <1>2, <1>3, <1>4, <2>1, RunsTwo DEF Film
<1> DEFINE s1 == <<x>> \o power
           r == <<y, z>>
           s2 == s1 \o r
<1>8. s1 \in Seq(Ops) /\ Film(m, dpms, s1, a, c)
  BY <1>1, <1>4, <1>6, FilmConcat
<1>9. r \in Seq(Ops) /\ Film(m, dpms, r, c, d)
  BY <1>7
<1> HIDE DEF s1, r
<1>10. s2 \in Seq(Ops) /\ Film(m, dpms, s2, a, d)
  BY <1>8, <1>9, FilmConcat
<1>11. UntilMemory(mode) = s2
  BY Zenon DEF UntilMemory, s1, r, x, y, z, power
<1> QED BY <1>3, <1>10, <1>11

-----------------------------------------------------------------------------
(***************************************************************************)
(* The base registers.  The stage of a thread: whether it waits for the     *)
(* lock, holds it or goes without it (free); whether it has loaded what it  *)
(* will store; which base registers are current; the mode whose pitch the   *)
(* registers have and the shared info has not; whether the frame buffer is  *)
(* freed, and the mode for which it is allocated anew.  "over" follows an   *)
(* allocation or a move, which decides what the rest of the program is.    *)
(***************************************************************************)
Phases == {"waiting", "holding", "free", "done", "over"}
StageType == [phase : Phases, latched : BOOLEAN, fresh : SUBSET Based,
              pitch : SUBSET Modes, next : SUBSET Modes, freed : BOOLEAN]
Settled(a) == a.fresh = Based /\ a.pitch = {} /\ a.next = {} /\ ~a.freed
Stages == {a \in StageType : a.phase \notin {"holding", "over"} => Settled(a)}

Acts(a) == a.phase \in {"holding", "free"}
Holds(a) == a.phase = "holding" /\ ~a.latched

Turn(a, x, b) ==
  /\ a.phase \notin {"done", "over"}
  /\ x.op = "lock" <=> a.phase = "waiting"
  /\ x.op = "lock" => b = [a EXCEPT !.phase = "holding"] /\ Settled(a) /\ ~a.latched
  /\ x.op = "unlock" => Holds(a) /\ Settled(a) /\ b = [a EXCEPT !.phase = "done"]
  /\ x.op = "clock" => a.phase = "holding"
  /\ x.op = "load" => ~a.latched /\ b = [a EXCEPT !.latched = TRUE]
  /\ x.op = "store" =>
       a.latched /\ b = [a EXCEPT !.latched = FALSE, !.fresh = a.fresh \cup {x.arg}]
  /\ x.op = "power" => Holds(a) /\ b = [a EXCEPT !.fresh = Based]
  /\ x.op = "pitch" => Holds(a) /\ a.pitch = {} /\ b = [a EXCEPT !.pitch = {x.arg}]
  /\ x.op = "adopt" =>
       /\ Holds(a) /\ a.pitch = {x.arg} /\ a.next = {x.arg} /\ ~a.freed
       /\ b = [a EXCEPT !.pitch = {}, !.next = {}, !.fresh = {}]
  /\ x.op = "free" => Holds(a) /\ Settled(a) /\ b = [a EXCEPT !.freed = TRUE]
  /\ x.op = "allocate" =>
       /\ Holds(a) /\ a.fresh = Based /\ a.pitch = {} /\ a.next = {} /\ a.freed
       /\ b = [a EXCEPT !.phase = "over"]
  /\ x.op = "move" => Holds(a) /\ Settled(a) /\ b = [a EXCEPT !.phase = "over"]
  /\ x.op \in {"pipe on", "pipe off", "plane on", "plane off", "panel", "clock"} => b = a

Turns == [x \in Ops |-> {ab \in Stages \X Stages : Turn(ab[1], x, ab[2])}]
Play(s, a, b) == Runs(Turns, Stages, s, a, b)

LEMMA TurnIs ==
  ASSUME NEW x \in Ops, NEW a \in Stages, NEW b \in Stages
  PROVE  <<a, b>> \in Turns[x] <=> Turn(a, x, b)
BY Zenon DEF Turns

LEMMA StageIs ==
  ASSUME NEW a
  PROVE  a \in Stages <=> a \in StageType /\ (a.phase \notin {"holding", "over"} => Settled(a))
BY Zenon DEF Stages

LEMMA PlayOne ==
  ASSUME NEW x \in Ops, NEW a \in Stages, NEW b \in Stages, Turn(a, x, b)
  PROVE  <<x>> \in Seq(Ops) /\ Play(<<x>>, a, b)
BY TurnIs, RunsOne, OneStep DEF Play

LEMMA PlayConcat ==
  ASSUME NEW s \in Seq(Ops), NEW r \in Seq(Ops), NEW a, NEW b, NEW c,
         Play(s, a, b), Play(r, b, c)
  PROVE  Play(s \o r, a, c) /\ s \o r \in Seq(Ops)
<1>1. s \o r \in Seq(Ops)
  OBVIOUS
<1> QED BY <1>1, RunsConcat DEF Play

LEMMA PlayAppend ==
  ASSUME NEW s \in Seq(Ops), NEW x \in Ops, NEW a, NEW b \in Stages, NEW c \in Stages,
         Play(s, a, b), Turn(b, x, c)
  PROVE  Play(s \o <<x>>, a, c) /\ s \o <<x>> \in Seq(Ops)
BY PlayOne, PlayConcat

\* Switching leaves the stage, with the lock or without.
LEMMA PlaySwitches ==
  ASSUME NEW s, s \in Seq(Switches) \/ s \in Seq(Panels), NEW a \in Stages, Acts(a)
  PROVE  s \in Seq(Ops) /\ Play(s, a, a)
<1> DEFINE names == {"pipe on", "pipe off", "plane on", "plane off", "panel"}
           X == Switches \cup Panels
<1>1. s \in Seq(X) /\ X \subseteq Ops
  BY OpsHave, SeqHas
<1>2. \A x \in X : x.op \in names
  BY DEF Switches, Panels
<1>3. ASSUME NEW x \in X
      PROVE  <<a, a>> \in Turns[x]
  <2>1. Turn(a, x, a)
    BY <1>2 DEF Turn, Acts
  <2> QED BY <1>1, <2>1, TurnIs
<1> HIDE DEF X
<1>4. \A i \in 1 .. Len(s) : s[i] \in X
  BY <1>1
<1>5. s \in Seq(Ops)
  BY <1>1, SeqHas
<1> QED BY <1>3, <1>4, <1>5, RunsStay DEF Play

\* So do the steps of a port, clocks included, with the lock.
LEMMA PlayPorts ==
  ASSUME NEW s \in Seq(PortSteps), NEW a \in Stages, a.phase = "holding"
  PROVE  s \in Seq(Ops) /\ Play(s, a, a)
<1> DEFINE names == {"pipe on", "pipe off", "plane on", "plane off", "panel", "clock"}
<1>1. \A x \in PortSteps : x \in Ops /\ x.op \in names
  BY OpsHave DEF PortSteps, Switches, Panels, ClockOps
<1>2. ASSUME NEW x \in PortSteps
      PROVE  <<a, a>> \in Turns[x]
  <2>1. Turn(a, x, a)
    BY <1>1 DEF Turn
  <2> QED BY <1>1, <2>1, TurnIs
<1>3. \A i \in 1 .. Len(s) : s[i] \in PortSteps
  OBVIOUS
<1>4. s \in Seq(Ops)
  BY OpsHave, SeqHas
<1> QED BY <1>2, <1>3, <1>4, RunsStay DEF Play

\* set_frame_buffer_base makes the registers of both planes current.
LEMMA PlayBase ==
  ASSUME NEW a \in Stages, Acts(a), ~a.latched
  PROVE  LET b == [a EXCEPT !.fresh = Based] IN
         /\ b \in Stages /\ set_frame_buffer_base \in Seq(Ops)
         /\ Play(set_frame_buffer_base, a, b)
<1> DEFINE z == [a EXCEPT !.fresh = Based]
           at(latched, fresh) == [a EXCEPT !.latched = latched, !.fresh = fresh]
           F == a.fresh
           b == at(TRUE, F)
           c == at(FALSE, F \cup {"A"})
           d == at(TRUE, F \cup {"A"})
           e == at(FALSE, (F \cup {"A"}) \cup {"B"})
<1>1. a \in StageType /\ (a.phase = "free" => Settled(a)) /\ a.phase \in {"holding", "free"}
  BY StageIs DEF Acts
<1>2. F \subseteq Based /\ Based = {"A", "B"} /\ (F \cup {"A"}) \cup {"B"} = Based
  BY <1>1 DEF StageType, Based
<1>3. ASSUME NEW latched \in BOOLEAN, NEW fresh \in SUBSET Based, F \subseteq fresh
      PROVE  /\ at(latched, fresh) \in Stages /\ at(latched, fresh).phase = a.phase
             /\ at(latched, fresh).latched = latched /\ at(latched, fresh).fresh = fresh
  <2> DEFINE y == at(latched, fresh)
  <2>1. y \in StageType
    BY <1>1, <1>3 DEF StageType
  <2>2. y.phase = a.phase /\ y.latched = latched /\ y.fresh = fresh /\ y.pitch = a.pitch
        /\ y.next = a.next /\ y.freed = a.freed
    BY <1>1, <1>3 DEF StageType
  <2> HIDE DEF y
  <2>3. a.phase = "free" => y.fresh = Based
    BY <1>1, <1>3, <2>2 DEF Settled
  <2>4. y \in Stages
    BY <1>1, <2>1, <2>2, <2>3, StageIs DEF Settled
  <2> QED BY <2>2, <2>4 DEF y
<1>4. a = at(FALSE, F)
  <2>1. a.latched = FALSE
    BY <1>1 DEF StageType
  <2> QED BY <1>1, <2>1 DEF StageType
<1>5. z = e
  BY <1>1, <1>2, <1>4 DEF StageType
<1> HIDE DEF F
<1>6. b \in Stages /\ c \in Stages /\ d \in Stages /\ e \in Stages
  <2>1. /\ F \cup {"A"} \in SUBSET Based /\ (F \cup {"A"}) \cup {"B"} \in SUBSET Based
        /\ F \in SUBSET Based /\ F \subseteq F \cup {"A"} /\ F \subseteq (F \cup {"A"}) \cup {"B"}
    BY <1>2
  <2> HIDE DEF at
  <2> QED BY <1>3, <2>1
<1> DEFINE x1 == Op("load", "A")
           x2 == Op("store", "A")
           x3 == Op("load", "B")
           x4 == Op("store", "B")
<1>7. x1 \in Ops /\ x2 \in Ops /\ x3 \in Ops /\ x4 \in Ops
  <2>1. x1 \in BaseOps /\ x2 \in BaseOps /\ x3 \in BaseOps /\ x4 \in BaseOps
    BY DEF Op, BaseOps, Based
  <2> QED BY <2>1, OpsHave
<1>8. ASSUME NEW y \in Stages, Acts(y), ~y.latched, NEW p \in Based
      PROVE  Turn(y, Op("load", p), [y EXCEPT !.latched = TRUE])
  BY <1>8 DEF Turn, Op, Acts
<1>9. ASSUME NEW y \in Stages, Acts(y), y.latched, NEW p \in Based
      PROVE  Turn(y, Op("store", p), [y EXCEPT !.latched = FALSE, !.fresh = y.fresh \cup {p}])
  BY <1>9 DEF Turn, Op, Acts
<1>10. Turn(a, x1, b)
  <2>1. b = [a EXCEPT !.latched = TRUE]
    BY <1>1 DEF StageType, F
  <2> QED BY <1>2, <1>8, <2>1
<1>11. Turn(b, x2, c)
  <2>1. c = [b EXCEPT !.latched = FALSE, !.fresh = b.fresh \cup {"A"}] /\ b.latched /\ b.phase = a.phase
    BY <1>1 DEF StageType
  <2> HIDE DEF b, c
  <2> QED BY <1>2, <1>6, <1>9, <2>1 DEF Acts
<1>12. Turn(c, x3, d)
  <2>1. d = [c EXCEPT !.latched = TRUE] /\ ~c.latched /\ c.phase = a.phase
    BY <1>1 DEF StageType
  <2> HIDE DEF d, c
  <2> QED BY <1>2, <1>6, <1>8, <2>1 DEF Acts
<1>13. Turn(d, x4, e)
  <2>1. e = [d EXCEPT !.latched = FALSE, !.fresh = d.fresh \cup {"B"}] /\ d.latched /\ d.phase = a.phase
    BY <1>1 DEF StageType
  <2> HIDE DEF d, e
  <2> QED BY <1>2, <1>6, <1>9, <2>1 DEF Acts
<1> HIDE DEF x1, x2, x3, x4, b, c, d, e
<1>14. <<x1, x2>> \in Seq(Ops) /\ Play(<<x1, x2>>, a, c)
  <2>1. <<a, b>> \in Turns[x1] /\ <<b, c>> \in Turns[x2]
    BY <1>6, <1>7, <1>10, <1>11, TurnIs
  <2> QED BY <1>6, <1>7, <2>1, RunsTwo DEF Play
<1>15. <<x3, x4>> \in Seq(Ops) /\ Play(<<x3, x4>>, c, e)
  <2>1. <<c, d>> \in Turns[x3] /\ <<d, e>> \in Turns[x4]
    BY <1>6, <1>7, <1>12, <1>13, TurnIs
  <2> QED BY <1>6, <1>7, <2>1, RunsTwo DEF Play
<1>16. <<x1, x2>> \o <<x3, x4>> = set_frame_buffer_base
  BY FourSteps DEF set_frame_buffer_base, x1, x2, x3, x4
<1>17. Play(<<x1, x2>> \o <<x3, x4>>, a, e) /\ <<x1, x2>> \o <<x3, x4>> \in Seq(Ops)
  BY <1>14, <1>15, PlayConcat
<1> QED BY <1>5, <1>6, <1>16, <1>17

\* What a stage is after a change of one of its fields.
LEMMA StageHas ==
  ASSUME NEW a \in Stages
  PROVE  /\ a \in StageType /\ (a.phase \notin {"holding", "over"} => Settled(a))
         /\ \A X \in SUBSET Based : LET b == [a EXCEPT !.fresh = X] IN
              /\ b \in StageType /\ b.fresh = X /\ b.phase = a.phase /\ b.latched = a.latched
              /\ b.pitch = a.pitch /\ b.next = a.next /\ b.freed = a.freed
         /\ \A y \in Phases : LET b == [a EXCEPT !.phase = y] IN
              /\ b \in StageType /\ b.phase = y /\ b.fresh = a.fresh /\ b.latched = a.latched
              /\ b.pitch = a.pitch /\ b.next = a.next /\ b.freed = a.freed
         /\ \A y \in BOOLEAN : LET b == [a EXCEPT !.freed = y] IN
              /\ b \in StageType /\ b.freed = y /\ b.phase = a.phase /\ b.fresh = a.fresh
              /\ b.latched = a.latched /\ b.pitch = a.pitch /\ b.next = a.next
         /\ \A X \in SUBSET Modes : LET b == [a EXCEPT !.pitch = X] IN
              /\ b \in StageType /\ b.pitch = X /\ b.phase = a.phase /\ b.fresh = a.fresh
              /\ b.latched = a.latched /\ b.next = a.next /\ b.freed = a.freed
<1>1. a \in StageType /\ (a.phase \notin {"holding", "over"} => Settled(a))
  BY StageIs
<1> QED BY <1>1 DEF StageType

\* The lock is given back once the registers are current.
LEMMA PlayUnlock ==
  ASSUME NEW s \in Seq(Ops), NEW a, NEW b \in Stages, Play(s, a, b), Holds(b), Settled(b)
  PROVE  \E c \in Stages : /\ c.phase = "done" /\ ~c.latched
                           /\ Play(s \o <<Do("unlock")>>, a, c)
<1> DEFINE c == [b EXCEPT !.phase = "done"]
           x == Do("unlock")
<1>1. /\ c \in StageType /\ c.phase = "done" /\ c.fresh = b.fresh /\ c.latched = b.latched
      /\ c.pitch = b.pitch /\ c.next = b.next /\ c.freed = b.freed
  BY StageHas DEF Phases
<1>2. x.op = "unlock" /\ x \in Ops
  BY DoType, OpsHave
<1> HIDE DEF x
<1>3. Turn(b, x, c)
  BY <1>2 DEF Turn, Holds
<1> HIDE DEF c
<1>4. c \in Stages /\ ~c.latched
  BY <1>1, StageIs DEF Settled, Holds
<1>5. Play(s \o <<x>>, a, c)
  BY <1>2, <1>3, <1>4, PlayAppend
<1> QED BY <1>1, <1>4, <1>5 DEF x

\* The registers of both planes and then the lock.
LEMMA PlayAfterMove ==
  ASSUME NEW a \in Stages, Holds(a), a.pitch = {}, a.next = {}, ~a.freed
  PROVE  \E c \in Stages : c.phase = "done" /\ ~c.latched /\ Play(AfterMove, a, c)
<1> DEFINE b == [a EXCEPT !.fresh = Based]
<1>1. b \in Stages /\ set_frame_buffer_base \in Seq(Ops) /\ Play(set_frame_buffer_base, a, b)
  BY PlayBase DEF Acts, Holds
<1>2. /\ b.fresh = Based /\ b.phase = a.phase /\ b.latched = a.latched
      /\ b.pitch = a.pitch /\ b.next = a.next /\ b.freed = a.freed
  BY StageHas
<1> HIDE DEF b
<1>3. Holds(b) /\ Settled(b)
  BY <1>2 DEF Holds, Settled
<1>4. AfterMove = set_frame_buffer_base \o <<Do("unlock")>>
  BY DEF AfterMove
<1> QED BY <1>1, <1>3, <1>4, PlayUnlock

LEMMA PlayGiveBack ==
  ASSUME NEW a \in Stages, Holds(a), Settled(a)
  PROVE  \E c \in Stages : c.phase = "done" /\ ~c.latched /\ Play(<<Do("unlock")>>, a, c)
<1>1. Play(<<>>, a, a) /\ <<>> \in Seq(Ops)
  BY RunsEmpty DEF Play
<1>2. \E c \in Stages : c.phase = "done" /\ ~c.latched /\ Play(<<>> \o <<Do("unlock")>>, a, c)
  BY <1>1, PlayUnlock
<1>3. <<>> \o <<Do("unlock")>> = <<Do("unlock")>>
  <2> DEFINE x == Do("unlock")
  <2> HIDE DEF x
  <2>1. <<>> \o <<x>> = <<x>>
    OBVIOUS
  <2> QED BY <2>1 DEF x
<1> QED BY <1>2, <1>3

\* A change of the power makes the registers current on its way.
LEMMA PlayPower ==
  ASSUME machine \in Machines, NEW which \in DpmsModes,
         NEW scene \in Scenes(machine), ~scene.over,
         NEW a \in Stages, Acts(a), ~a.latched
  PROVE  LET b == [a EXCEPT !.fresh = Based] IN
         /\ b \in Stages /\ set_display_power_mode(which) \in Seq(Ops)
         /\ Play(set_display_power_mode(which), a, b)
<1> DEFINE b == [a EXCEPT !.fresh = Based]
           base == set_frame_buffer_base
           all == set_display_power_mode(which)
<1>1. PICK first \in Seq(Switches), last \in Seq(Panels) : all = (first \o base) \o last
  BY PowerRuns
<1>2. all \in Seq(Ops)
  <2>1. all \in Seq(PowerSteps)
    BY PowerRuns
  <2> HIDE DEF all
  <2> QED BY <2>1, OpsHave, SeqHas
<1>3. b \in Stages /\ base \in Seq(Ops) /\ Play(base, a, b)
  BY PlayBase
<1>4. b.phase = a.phase
  BY StageHas
<1>5. Acts(b)
  BY <1>4 DEF Acts
<1> HIDE DEF b, base, all
<1>7. first \in Seq(Ops) /\ Play(first, a, a)
  BY PlaySwitches
<1>8. last \in Seq(Ops) /\ Play(last, b, b)
  BY <1>3, <1>5, PlaySwitches
<1>9. Play(first \o base, a, b) /\ first \o base \in Seq(Ops)
  BY <1>3, <1>7, PlayConcat
<1>10. Play((first \o base) \o last, a, b)
  BY <1>8, <1>9, PlayConcat
<1> QED BY <1>1, <1>2, <1>3, <1>10 DEF b, all

\* The rest of a mode set, from the new frame buffer on.
LEMMA PlayAfterMemory ==
  ASSUME machine \in Machines, NEW mode \in Modes, NEW dpms \in DpmsModes,
         NEW scene \in Scenes(machine), ~scene.over, Off(machine, scene),
         NEW a \in Stages, Holds(a), a.pitch = {}, a.next = {mode}, ~a.freed
  PROVE  \E c \in Stages : c.phase = "done" /\ ~c.latched /\ Play(AfterMemory(mode), a, c)
<1> DEFINE x == Do("power")
           y == Op("pitch", mode)
           z == Op("adopt", mode)
           base == set_frame_buffer_base
           b1 == [a EXCEPT !.fresh = Based]
           b2 == [b1 EXCEPT !.pitch = {mode}]
           b3 == [b2 EXCEPT !.pitch = {}, !.next = {}, !.fresh = {}]
           b4 == [b3 EXCEPT !.fresh = Based]
<1>1. PICK all \in Seq(PortSteps) :
        AfterMemory(mode) = ((all \o <<x, y, z>>) \o base) \o <<Do("unlock")>>
  BY AfterMemoryRuns
<1>2. x \in Ops /\ y \in Ops /\ z \in Ops /\ base \in Seq(Ops)
  BY DoType, BaseType, OpsHave, SeqHas
<1>3. /\ x.op = "power" /\ y.op = "pitch" /\ y.arg = mode /\ z.op = "adopt" /\ z.arg = mode
  BY DoType
<1> HIDE DEF x, y, z, base
<1>4. a \in StageType /\ a.phase = "holding" /\ ~a.latched
  BY StageHas DEF Holds
<1>5. /\ b1 \in StageType /\ b1.phase = "holding" /\ ~b1.latched /\ b1.pitch = {}
      /\ b1.next = {mode} /\ ~b1.freed
  BY <1>4 DEF StageType
<1> HIDE DEF b1
<1>6. /\ b2 \in StageType /\ b2.phase = "holding" /\ ~b2.latched /\ b2.pitch = {mode}
      /\ b2.next = {mode} /\ ~b2.freed
  BY <1>5 DEF StageType
<1> HIDE DEF b2
<1>7. /\ b3 \in StageType /\ b3.phase = "holding" /\ ~b3.latched /\ b3.pitch = {}
      /\ b3.next = {} /\ ~b3.freed
  BY <1>6 DEF StageType
<1> HIDE DEF b3
<1>8. b1 \in Stages /\ b2 \in Stages /\ b3 \in Stages
  BY <1>5, <1>6, <1>7, StageIs
<1>9. Turn(a, x, b1)
  BY <1>3, <1>4 DEF Turn, Holds, b1
<1>10. Turn(b1, y, b2)
  BY <1>3, <1>5 DEF Turn, Holds, b2
<1>11. Turn(b2, z, b3)
  BY <1>3, <1>6 DEF Turn, Holds, b3
<1>12. all \in Seq(Ops) /\ Play(all, a, a)
  BY <1>4, PlayPorts
<1> DEFINE s1 == all \o <<x>>
           s2 == s1 \o <<y>>
           s3 == s2 \o <<z>>
           s4 == s3 \o base
<1>13. s1 \in Seq(Ops) /\ Play(s1, a, b1)
  BY <1>2, <1>8, <1>9, <1>12, PlayAppend
<1> HIDE DEF s1
<1>14. s2 \in Seq(Ops) /\ Play(s2, a, b2)
  BY <1>2, <1>8, <1>10, <1>13, PlayAppend
<1> HIDE DEF s2
<1>15. s3 \in Seq(Ops) /\ Play(s3, a, b3)
  BY <1>2, <1>8, <1>11, <1>14, PlayAppend
<1> HIDE DEF s3
<1>16. b4 \in Stages /\ Play(base, b3, b4)
  BY <1>7, <1>8, PlayBase DEF Acts, base
<1>17. /\ b4.phase = "holding" /\ ~b4.latched /\ b4.pitch = {} /\ b4.next = {} /\ ~b4.freed
       /\ b4.fresh = Based
  BY <1>7, <1>8, StageHas
<1> HIDE DEF b4
<1>18. s4 \in Seq(Ops) /\ Play(s4, a, b4)
  BY <1>2, <1>15, <1>16, PlayConcat
<1> HIDE DEF s4
<1>19. Holds(b4) /\ Settled(b4)
  BY <1>17 DEF Holds, Settled
<1>20. \E c \in Stages : c.phase = "done" /\ ~c.latched /\ Play(s4 \o <<Do("unlock")>>, a, c)
  BY <1>16, <1>18, <1>19, PlayUnlock
<1>21. s3 = all \o <<x, y, z>>
  <2>1. <<x>> \o <<y>> = <<x, y>> /\ <<x, y>> \in Seq(Ops)
    BY <1>2, TwoSteps
  <2> DEFINE sx == <<x>>
             sy == <<y>>
             sz == <<z>>
             xy == <<x, y>>
  <2>2. xy \o sz = <<x, y, z>>
    BY ThreeSteps
  <2>3. sx \in Seq(Ops) /\ sy \in Seq(Ops) /\ sz \in Seq(Ops)
    BY <1>2
  <2>4. s3 = ((all \o sx) \o sy) \o sz
    BY DEF s3, s2, s1
  <2>5. sx \o sy = xy
    BY <2>1
  <2> HIDE DEF sx, sy, sz, xy
  <2>6. (all \o sx) \o sy = all \o (sx \o sy)
    BY <1>12, <2>3, ConcatAssociative
  <2>7. (all \o xy) \o sz = all \o (xy \o sz)
    BY <1>12, <2>1, <2>3, ConcatAssociative DEF xy
  <2> QED BY <2>2, <2>4, <2>5, <2>6, <2>7
<1>22. AfterMemory(mode) = s4 \o <<Do("unlock")>>
  BY <1>1, <1>21 DEF s4
<1> QED BY <1>20, <1>22

\* A mode set up to its frame buffer.
LEMMA PlayUntilMemory ==
  ASSUME machine \in Machines, NEW mode \in Modes,
         NEW scene \in Scenes(machine), ~scene.over,
         NEW a \in Stages, a.phase = "waiting", ~a.latched
  PROVE  \E c \in Stages : c.phase = "over" /\ ~c.latched /\ Play(UntilMemory(mode), a, c)
<1> DEFINE x == Do("lock")
           y == Do("free")
           z == Op("allocate", mode)
           power == set_display_power_mode("off")
           b1 == [a EXCEPT !.phase = "holding"]
           b2 == [b1 EXCEPT !.fresh = Based]
           b3 == [b2 EXCEPT !.freed = TRUE]
           b4 == [b3 EXCEPT !.phase = "over"]
<1>1. x \in Ops /\ y \in Ops /\ z \in Ops
  BY DoType, OpsHave
<1>2. x.op = "lock" /\ y.op = "free" /\ z.op = "allocate"
  BY DoType
<1> HIDE DEF x, y, z
<1>3. a \in StageType /\ Settled(a)
  BY StageHas
<1>4. /\ b1 \in StageType /\ b1.phase = "holding" /\ ~b1.latched /\ Settled(b1)
  BY <1>3 DEF StageType, Phases, Settled
<1>5. b2 = b1
  BY <1>4 DEF StageType, Settled
<1>6. Turn(a, x, b1)
  BY <1>2, <1>3 DEF Turn, b1
<1> HIDE DEF b1
<1>7. /\ b3 \in StageType /\ b3.phase = "holding" /\ ~b3.latched /\ b3.fresh = Based
      /\ b3.pitch = {} /\ b3.next = {} /\ b3.freed
  BY <1>4, <1>5 DEF StageType, Settled
<1>8. Turn(b2, y, b3)
  BY <1>2, <1>4, <1>5 DEF Turn, Holds, b3
<1> HIDE DEF b2, b3
<1>9. b4 \in StageType /\ b4.phase = "over" /\ ~b4.latched
  BY <1>7 DEF StageType, Phases
<1>10. Turn(b3, z, b4)
  BY <1>2, <1>7 DEF Turn, Holds, b4
<1> HIDE DEF b4
<1>11. b1 \in Stages /\ b2 \in Stages /\ b3 \in Stages /\ b4 \in Stages
  BY <1>4, <1>5, <1>7, <1>9, StageIs
<1>12. <<x>> \in Seq(Ops) /\ Play(<<x>>, a, b1)
  BY <1>1, <1>6, <1>11, PlayOne
<1>13. power \in Seq(Ops) /\ Play(power, b1, b2)
  <2>1. "off" \in DpmsModes
    BY DEF DpmsModes
  <2> QED BY <1>4, <1>11, <2>1, PlayPower DEF Acts, b2
<1>14. <<y, z>> \in Seq(Ops) /\ Play(<<y, z>>, b2, b4)
  <2>1. <<b2, b3>> \in Turns[y] /\ <<b3, b4>> \in Turns[z]
    BY <1>1, <1>8, <1>10, <1>11, TurnIs
  <2> QED BY <1>1, <1>11, <2>1, RunsTwo DEF Play
<1> HIDE DEF power
<1> DEFINE s1 == <<x>> \o power
           r == <<y, z>>
<1>15. s1 \in Seq(Ops) /\ Play(s1, a, b2)
  BY <1>12, <1>13, PlayConcat
<1>16. r \in Seq(Ops) /\ Play(r, b2, b4)
  BY <1>14
<1> HIDE DEF s1, r
<1>17. Play(s1 \o r, a, b4)
  BY <1>15, <1>16, PlayConcat
<1>18. UntilMemory(mode) = s1 \o r
  BY Zenon DEF UntilMemory, s1, r, x, y, z, power
<1> QED BY <1>9, <1>11, <1>17, <1>18

\* A move up to its start.
LEMMA PlayMoveDisplay ==
  ASSUME NEW start \in Nat, NEW a \in Stages, a.phase = "waiting", ~a.latched
  PROVE  /\ MoveDisplay(start) \in Seq(MoveSteps)
         /\ \A i \in 1 .. Len(MoveDisplay(start)) : MoveDisplay(start)[i].op \in Stays
         /\ \E c \in Stages : c.phase = "over" /\ ~c.latched /\ Play(MoveDisplay(start), a, c)
<1> DEFINE x == Do("lock")
           y == Op("move", start)
           b == [a EXCEPT !.phase = "holding"]
           c == [b EXCEPT !.phase = "over"]
<1>1. x \in MoveSteps /\ y \in MoveSteps /\ MoveSteps \subseteq Ops
  BY DoType, OpsHave
<1>2. x.op = "lock" /\ y.op = "move"
  BY DoType
<1>3. MoveDisplay(start) = <<x, y>>
  BY DEF MoveDisplay
<1> HIDE DEF x, y
<1>4. a \in StageType /\ Settled(a)
  BY StageHas
<1>5. /\ b \in StageType /\ b.phase = "holding" /\ ~b.latched /\ Settled(b)
  BY <1>4 DEF StageType, Phases, Settled
<1>6. Turn(a, x, b)
  BY <1>2, <1>4 DEF Turn, b
<1> HIDE DEF b
<1>7. c \in StageType /\ c.phase = "over" /\ ~c.latched
  BY <1>5 DEF StageType, Phases
<1>8. Turn(b, y, c)
  BY <1>2, <1>5 DEF Turn, Holds, c
<1> HIDE DEF c
<1>9. b \in Stages /\ c \in Stages
  BY <1>5, <1>7, StageIs
<1>10. Play(<<x, y>>, a, c)
  <2>1. <<a, b>> \in Turns[x] /\ <<b, c>> \in Turns[y]
    BY <1>1, <1>6, <1>8, <1>9, TurnIs
  <2> QED BY <1>1, <1>9, <2>1, RunsTwo DEF Play
<1>11. <<x, y>> \in Seq(MoveSteps) /\ \A i \in 1 .. Len(<<x, y>>) : <<x, y>>[i].op \in Stays
  BY <1>1, <1>2 DEF Stays
<1> QED BY <1>3, <1>7, <1>9, <1>10, <1>11

-----------------------------------------------------------------------------
(* The inductive invariant. *)

Registers == [pipe : BOOLEAN, plane : BOOLEAN, surface : Nat, offset : Nat, pitch : Nat]
Bases == [surface : Nat, offset : Nat]

ModeTypeOK ==
  /\ machine \in Machines
  /\ memory \subseteq [base : Nat, size : Nat, owner : {"frame", "other"}]
  /\ shared \in [frame : Nat, mode : Modes, start : Nat, pitch : Nat, dpms : DpmsModes]
  /\ regs \in [Pipes -> Registers] /\ plls \in [Plls -> {None} \cup Settings]
  /\ panel \in BOOLEAN /\ owner \in Threads \cup {None}
  /\ todo \in [Threads -> Seq(Ops)] /\ todo[Clone] \in Seq(MoveSteps)
  /\ latch \in [Threads -> {None} \cup Bases]
  /\ lost \in BOOLEAN /\ dark \in BOOLEAN /\ overtaken \in BOOLEAN

\* What is shown now, and that the server's program ends as DPMS asks.
Now == [pipe |-> [p \in Pipes |-> regs[p].pipe], plane |-> [p \in Pipes |-> regs[p].plane],
        panel |-> panel, dark |-> dark, over |-> FALSE]
EndsLit(b) == b.over \/ b.dark \/ Lit(machine, b, shared.dpms)
ShowInv == \E b \in Scenes(machine) :
             Film(machine, shared.dpms, todo[Server], Now, b) /\ EndsLit(b)

\* What the base registers ought to be, and whether those of a plane are.
Current == [surface |-> shared.frame, offset |-> shared.start * shared.pitch]
Fresh(p) == regs[p].surface = Current.surface /\ regs[p].offset = Current.offset

Framed(a) ==
  /\ a.pitch = {} => \A p \in Based : regs[p].pitch = shared.pitch
  /\ \A mode \in a.pitch : \A p \in Based : regs[p].pitch = mode.pitch
  /\ ~a.freed /\ a.next = {} => lost \/ FrameBuffer \in memory
  /\ \A mode \in a.next : [base |-> shared.frame, size |-> Size(mode), owner |-> "frame"] \in memory

\* The stage a thread is at.
Matches(t, a) ==
  /\ a.phase # "over"
  /\ a.phase = "holding" <=> owner = t
  /\ a.latched <=> latch[t] # None
  /\ t = Clone => a.phase # "free" /\ a.pitch = {} /\ a.next = {} /\ ~a.freed
  /\ ~overtaken /\ latch[t] # None => latch[t] = Current
  /\ ~overtaken /\ owner = t => \A p \in a.fresh : Fresh(p)
  /\ a.phase = "free" /\ ~Idle(t) /\ ~overtaken => Idle(Clone)
  /\ t = Server => Framed(a)
Ends(b) == b.phase \in {"done", "free", "over"} /\ ~b.latched
Stands(t) == \E a \in Stages, b \in Stages : Matches(t, a) /\ Play(todo[t], a, b) /\ Ends(b)

\* Nobody holds the lock: the registers are current.
Rest == owner = None /\ ~overtaken => \A p \in Based : Fresh(p)
BaseInv == Rest /\ \A t \in Threads : Stands(t)

ModeInv == ModeTypeOK /\ ShowInv /\ BaseInv

-----------------------------------------------------------------------------
(* One step of a thread. *)

LEMMA Names == Server \in Threads /\ Clone \in Threads /\ Server # Clone
               /\ (\A t \in Threads : t # None /\ (t = Server \/ t = Clone))
BY ThreadsAssumption DEF Threads

LEMMA NextOp ==
  ASSUME ModeTypeOK, NEW t \in Threads, ~Idle(t)
  PROVE  /\ Head(todo[t]) = todo[t][1] /\ Head(todo[t]) \in Ops
         /\ Tail(todo[t]) \in Seq(Ops) /\ todo[t] \in Seq(Ops) /\ todo[t] # <<>>
         /\ t = Clone => Head(todo[t]) \in MoveSteps /\ Tail(todo[t]) \in Seq(MoveSteps)
<1>1. todo[t] \in Seq(Ops) /\ todo[t] # <<>>
  BY DEF ModeTypeOK, Idle
<1>2. t = Clone => todo[t] \in Seq(MoveSteps)
  BY DEF ModeTypeOK
<1> DEFINE s == todo[t]
<1> HIDE DEF s
<1>3. \A X : s \in Seq(X) /\ s # <<>> => Head(s) = s[1] /\ Head(s) \in X /\ Tail(s) \in Seq(X)
  OBVIOUS
<1> QED BY <1>1, <1>2, <1>3 DEF s

LEMMA Goes ==
  ASSUME ModeTypeOK, NEW t \in Threads, NEW u \in Threads, ~Idle(t)
  PROVE  /\ Done(t) => todo'[t] = Tail(todo[t]) /\ (u # t => todo'[u] = todo[u])
         /\ \A s \in Seq(Ops) : Then(t, s) =>
              /\ todo'[t] = s \o Tail(todo[t]) /\ (u # t => todo'[u] = todo[u])
<1>1. todo \in [Threads -> Seq(Ops)] /\ Tail(todo[t]) \in Seq(Ops)
  BY NextOp DEF ModeTypeOK
<1>2. \A s : Then(t, s) => todo'[t] = s \o Tail(todo[t]) /\ (u # t => todo'[u] = todo[u])
  BY <1>1 DEF Then
<1>3. <<>> \o Tail(todo[t]) = Tail(todo[t])
  <2> DEFINE r == Tail(todo[t])
  <2> HIDE DEF r
  <2>1. r \in Seq(Ops) => <<>> \o r = r
    OBVIOUS
  <2> QED BY <1>1, <2>1 DEF r
<1>4. Done(t) => todo'[t] = Tail(todo[t]) /\ (u # t => todo'[u] = todo[u])
  BY <1>2, <1>3 DEF Done
<1> QED BY <1>2, <1>4

\* The programs stay programs.
LEMMA TodoType ==
  ASSUME ModeTypeOK, NEW t \in Threads, NEW s \in Seq(Ops), t = Clone => s \in Seq(MoveSteps),
         \/ Begin(t, s)
         \/ ~Idle(t) /\ (Done(t) \/ Then(t, s))
  PROVE  todo' \in [Threads -> Seq(Ops)] /\ todo'[Clone] \in Seq(MoveSteps)
<1>1. todo \in [Threads -> Seq(Ops)] /\ todo[Clone] \in Seq(MoveSteps) /\ Clone \in Threads
  BY Names DEF ModeTypeOK
<1>2. ASSUME NEW r \in Seq(Ops), t = Clone => r \in Seq(MoveSteps), todo' = [todo EXCEPT ![t] = r]
      PROVE  todo' \in [Threads -> Seq(Ops)] /\ todo'[Clone] \in Seq(MoveSteps)
  BY <1>1, <1>2
<1>3. CASE Begin(t, s)
  BY <1>2, <1>3 DEF Begin
<1>4. ASSUME ~Idle(t), NEW r \in Seq(Ops), t = Clone => r \in Seq(MoveSteps), Then(t, r)
      PROVE  todo' \in [Threads -> Seq(Ops)] /\ todo'[Clone] \in Seq(MoveSteps)
  <2>1. /\ Tail(todo[t]) \in Seq(Ops)
        /\ t = Clone => Tail(todo[t]) \in Seq(MoveSteps)
    BY <1>4, NextOp
  <2> DEFINE z == Tail(todo[t])
  <2>2. todo' = [todo EXCEPT ![t] = r \o z]
    BY <1>1, <1>4 DEF Then
  <2> HIDE DEF z
  <2>3. r \o z \in Seq(Ops) /\ (t = Clone => r \o z \in Seq(MoveSteps))
    BY <1>4, <2>1 DEF z
  <2> QED BY <1>2, <2>2, <2>3
<1>5. CASE ~Idle(t) /\ Done(t)
  <2>1. <<>> \in Seq(Ops) /\ <<>> \in Seq(MoveSteps)
    OBVIOUS
  <2> QED BY <1>4, <1>5, <2>1 DEF Done
<1> QED BY <1>3, <1>4, <1>5

LEMMA NowIs ==
  ASSUME ModeTypeOK, ShowInv
  PROVE  Now \in Scenes(machine) /\ ~Now.over /\ Now.dark = dark /\ Now.panel = panel
         /\ \A p \in Pipes : Now.pipe[p] = regs[p].pipe /\ Now.plane[p] = regs[p].plane
<1>1. Now \in Scenes(machine)
  <2> DEFINE now == Now
             F == Shots(machine, shared.dpms)
             S == Scenes(machine)
             s == todo[Server]
  <2>1. PICK b \in S : Runs(F, S, s, now, b)
    BY DEF ShowInv, Film
  <2>0. s \in Seq(Ops)
    BY Names DEF ModeTypeOK
  <2> HIDE DEF now, F, S, s
  <2>2. now \in S
    BY <2>0, <2>1, RunsFrom
  <2> QED BY <2>2 DEF now, S
<1> QED BY <1>1 DEF Now

\* The next step of the server, and that the rest of its program ends as DPMS asks.
LEMMA FilmNext ==
  ASSUME ModeTypeOK, ShowInv, ~Idle(Server)
  PROVE  \E b \in Scenes(machine), c \in Scenes(machine) :
           /\ Shot(machine, shared.dpms, Now, Head(todo[Server]), c)
           /\ Film(machine, shared.dpms, Tail(todo[Server]), c, b)
           /\ EndsLit(b)
<1> DEFINE m == machine
           d == shared.dpms
           s == todo[Server]
           now == Now
<1>1. PICK b \in Scenes(m) : Film(m, d, s, now, b) /\ EndsLit(b)
  BY DEF ShowInv
<1>2. s \in Seq(Ops) /\ s # <<>> /\ s[1] \in Ops /\ Head(s) = s[1] /\ now \in Scenes(m)
  BY NextOp, Names, NowIs
<1> HIDE DEF m, d, s, now
<1>3. PICK c \in Scenes(m) : <<now, c>> \in Shots(m, d)[s[1]] /\ Film(m, d, Tail(s), c, b)
  BY <1>1, <1>2, RunsTail DEF Film
<1>4. Shot(m, d, now, Head(s), c)
  BY <1>2, <1>3, ShotIs
<1> QED BY <1>1, <1>3, <1>4 DEF m, d, s, now

\* A step that switches nothing.
LEMMA ShowStays ==
  ASSUME ModeTypeOK, ShowInv, machine' = machine, shared'.dpms = shared.dpms, Now' = Now,
         \/ todo'[Server] = todo[Server]
         \/ /\ ~Idle(Server) /\ Head(todo[Server]).op \in Stays
            /\ todo'[Server] = Tail(todo[Server])
  PROVE  ShowInv'
<1> DEFINE r == todo'[Server]
           d == shared.dpms
<1> SUFFICES \E b \in Scenes(machine) : Film(machine, d, r, Now, b)
                                        /\ (b.over \/ b.dark \/ Lit(machine, b, d))
  BY DEF ShowInv, EndsLit
<1>1. CASE todo'[Server] = todo[Server]
  BY <1>1 DEF ShowInv, EndsLit
<1>2. CASE ~Idle(Server) /\ Head(todo[Server]).op \in Stays /\ todo'[Server] = Tail(todo[Server])
  <2>1. PICK b \in Scenes(machine), c \in Scenes(machine) :
           /\ Shot(machine, shared.dpms, Now, Head(todo[Server]), c)
           /\ Film(machine, shared.dpms, Tail(todo[Server]), c, b)
           /\ EndsLit(b)
    BY <1>2, FilmNext
  <2>2. c = Now
    BY <1>2, <2>1 DEF Shot
  <2> QED BY <1>2, <2>1, <2>2 DEF EndsLit
<1> QED BY <1>1, <1>2

\* A step after which the display is what the step makes of it.
LEMMA ShowMoves ==
  ASSUME ModeTypeOK, ShowInv, machine' = machine, shared'.dpms = shared.dpms, ~Idle(Server),
         NEW now, now = Now',
         \A c \in Scenes(machine) : Shot(machine, shared.dpms, Now, Head(todo[Server]), c) => now = c,
         todo'[Server] = Tail(todo[Server])
  PROVE  ShowInv'
<1>1. PICK b \in Scenes(machine), c \in Scenes(machine) :
         /\ Shot(machine, shared.dpms, Now, Head(todo[Server]), c)
         /\ Film(machine, shared.dpms, Tail(todo[Server]), c, b)
         /\ EndsLit(b)
  BY FilmNext
<1>2. now = c
  BY <1>1
<1> DEFINE r == todo'[Server]
           d == shared.dpms
<1> SUFFICES \E e \in Scenes(machine) : Film(machine, d, r, now, e)
                                        /\ (e.over \/ e.dark \/ Lit(machine, e, d))
  BY DEF ShowInv, EndsLit
<1> QED BY <1>1, <1>2 DEF EndsLit

-----------------------------------------------------------------------------
LEMMA StageNext ==
  ASSUME ModeTypeOK, BaseInv, NEW t \in Threads, ~Idle(t)
  PROVE  \E a \in Stages, b \in Stages, c \in Stages :
           /\ Matches(t, a) /\ Turn(a, Head(todo[t]), c)
           /\ Play(Tail(todo[t]), c, b) /\ Ends(b)
<1> DEFINE s == todo[t]
<1>1. PICK a \in Stages, b \in Stages : Matches(t, a) /\ Play(s, a, b) /\ Ends(b)
  BY DEF BaseInv, Stands
<1>2. s \in Seq(Ops) /\ s # <<>> /\ s[1] \in Ops /\ Head(s) = s[1]
  BY NextOp
<1> HIDE DEF s
<1>3. PICK c \in Stages : <<a, c>> \in Turns[s[1]] /\ Play(Tail(s), c, b)
  BY <1>1, <1>2, RunsTail DEF Play
<1>4. Turn(a, Head(s), c)
  BY <1>2, <1>3, TurnIs
<1> QED BY <1>1, <1>3, <1>4 DEF s

\* A thread between two calls.
LEMMA StageIdle ==
  ASSUME ModeTypeOK, BaseInv, NEW t \in Threads, Idle(t)
  PROVE  \E a \in Stages : /\ Matches(t, a) /\ a.phase \in {"done", "free"} /\ Settled(a)
                           /\ ~a.latched
<1>1. PICK a \in Stages, b \in Stages : Matches(t, a) /\ Play(todo[t], a, b) /\ Ends(b)
  BY DEF BaseInv, Stands
<1>2. a = b
  BY <1>1, RunsEmpty DEF Idle, Play
<1>3. a.phase \in {"done", "free"} /\ ~a.latched
  BY <1>1, <1>2 DEF Matches, Ends
<1> QED BY <1>1, <1>3, StageHas

LEMMA IdleHas ==
  ASSUME ModeTypeOK, BaseInv, NEW t \in Threads, Idle(t)
  PROVE  /\ owner # t /\ latch[t] = None
         /\ t = Server => /\ \A p \in Based : regs[p].pitch = shared.pitch
                          /\ lost \/ FrameBuffer \in memory
<1>1. PICK a \in Stages : /\ Matches(t, a) /\ a.phase \in {"done", "free"} /\ Settled(a)
                          /\ ~a.latched
  BY StageIdle
<1> QED BY <1>1 DEF Matches, Framed, Settled

\* Only the server goes on without the lock, and what it has loaded is stale only if it was
\* overtaken.
LEMMA LatchedIs ==
  ASSUME ModeTypeOK, BaseInv, NEW t \in Threads, latch[t] # None, owner # t
  PROVE  t = Server /\ ~Idle(t) /\ (overtaken \/ Idle(Clone))
<1>1. ~Idle(t)
  BY IdleHas
<1>2. PICK a \in Stages, b \in Stages, c \in Stages :
           /\ Matches(t, a) /\ Turn(a, Head(todo[t]), c)
           /\ Play(Tail(todo[t]), c, b) /\ Ends(b)
  BY <1>1, StageNext
<1>3. a.latched /\ a.phase \notin {"holding", "over", "done"}
  BY <1>2 DEF Matches, Turn
<1>4. a.phase # "waiting"
  BY <1>2, <1>3 DEF Turn
<1>5. a.phase = "free"
  BY <1>3, <1>4, StageHas DEF StageType, Phases
<1> QED BY <1>1, <1>2, <1>5, Names DEF Matches

\* What the other thread knows stays true.
LEMMA Keeps ==
  ASSUME NEW u \in Threads, NEW a \in Stages, Matches(u, a),
         latch'[u] = latch[u], owner' = u <=> owner = u,
         ~overtaken' /\ latch[u] # None => latch[u] = Current',
         ~overtaken' /\ owner = u => \A p \in a.fresh : Fresh(p)',
         a.phase = "free" /\ ~Idle(u)' /\ ~overtaken' => Idle(Clone)',
         u = Server => Framed(a)'
  PROVE  Matches(u, a)'
BY DEF Matches

LEMMA FramesKeep ==
  ASSUME NEW a, Framed(a), shared' = shared, lost' = lost,
         \A p \in Based : regs'[p].pitch = regs[p].pitch,
         \A x \in memory : x.owner = "frame" => x \in memory'
  PROVE  Framed(a)'
<1>1. FrameBuffer' = FrameBuffer /\ FrameBuffer.owner = "frame"
  BY DEF FrameBuffer, OldSize
<1>2. \A size : LET x == [base |-> shared.frame, size |-> size, owner |-> "frame"] IN
                x \in memory => x \in memory'
  OBVIOUS
<1>3. \A mode \in a.next : [base |-> shared'.frame, size |-> Size(mode), owner |-> "frame"] \in memory'
  BY <1>2 DEF Framed
<1>4. lost' \/ FrameBuffer' \in memory' \/ ~(~a.freed /\ a.next = {})
  BY <1>1 DEF Framed
<1>5. a.pitch = {} => \A p \in Based : regs'[p].pitch = shared'.pitch
  BY DEF Framed
<1>6. \A mode \in a.pitch : \A p \in Based : regs'[p].pitch = mode.pitch
  BY DEF Framed
<1> QED BY <1>3, <1>4, <1>5, <1>6 DEF Framed

-----------------------------------------------------------------------------
(* What a step does to the display. *)

LEMMA OpArgs ==
  ASSUME NEW x \in Ops
  PROVE  /\ x.op \in {"pipe on", "pipe off", "plane on", "plane off"} => x.arg \in Pipes
         /\ x.op \in {"load", "store"} => x.arg \in Based
         /\ x.op = "panel" => x.arg \in BOOLEAN
         /\ x.op = "clock" => x.arg.pll \in Plls /\ x.arg.set \in Settings
         /\ x.op \in {"allocate", "pitch", "adopt"} => x.arg \in Modes
         /\ x.op = "move" => x.arg \in Nat
         /\ x \in MoveSteps => x.op \in {"lock", "unlock", "move", "load", "store"}
BY DEF Ops, PowerSteps, MoveSteps, Switches, Panels, ClockOps, BaseOps, ModeOps, LockOps,
       PlainOps, MoveOps

\* All but the steps of a move are the server's.
LEMMA ServerOnly ==
  ASSUME ModeTypeOK, NEW t \in Threads, ~Idle(t),
         Head(todo[t]).op \notin {"lock", "unlock", "move", "load", "store"}
  PROVE  t = Server
BY NextOp, OpArgs, Names

LEMMA NowStays ==
  ASSUME panel' = panel, dark' = dark,
         \A p \in Pipes : regs'[p].pipe = regs[p].pipe /\ regs'[p].plane = regs[p].plane
  PROVE  Now' = Now
BY DEF Now

LEMMA BitSet ==
  ASSUME ModeTypeOK, NEW t \in Threads, NEW name, NEW field \in {"pipe", "plane"},
         NEW value \in BOOLEAN, Arg(t) \in Pipes, SetBit(t, name, field, value)
  PROVE  /\ regs' \in [Pipes -> Registers]
         /\ \A p \in Pipes :
              /\ regs'[p].pipe = IF p = Arg(t) /\ field = "pipe" THEN value ELSE regs[p].pipe
              /\ regs'[p].plane = IF p = Arg(t) /\ field = "plane" THEN value ELSE regs[p].plane
              /\ regs'[p].surface = regs[p].surface /\ regs'[p].offset = regs[p].offset
              /\ regs'[p].pitch = regs[p].pitch
<1> DEFINE q == Arg(t)
<1>1. regs \in [Pipes -> Registers]
  BY DEF ModeTypeOK
<1>2. CASE field = "pipe"
  <2>1. regs' = [regs EXCEPT ![q].pipe = value]
    BY <1>2 DEF SetBit
  <2> QED BY <1>1, <1>2, <2>1 DEF Registers
<1>3. CASE field = "plane"
  <2>1. regs' = [regs EXCEPT ![q].plane = value]
    BY <1>3 DEF SetBit
  <2> QED BY <1>1, <1>3, <2>1 DEF Registers
<1> QED BY <1>2, <1>3

LEMMA EnableShows ==
  ASSUME ModeTypeOK, ShowInv, NEW t \in Threads, Enable(t) \/ Disable(t)
  PROVE  ShowInv'
<1> DEFINE x == Head(todo[t])
<1>1. PICK name \in {"pipe on", "plane on", "pipe off", "plane off"},
           field \in {"pipe", "plane"}, value \in BOOLEAN :
        /\ SetBit(t, name, field, value)
        /\ name = "pipe on" => field = "pipe" /\ value = TRUE
        /\ name = "plane on" => field = "plane" /\ value = TRUE
        /\ name = "pipe off" => field = "pipe" /\ value = FALSE
        /\ name = "plane off" => field = "plane" /\ value = FALSE
  BY DEF Enable, Disable
<1>2. ~Idle(t) /\ x.op = name /\ Done(t) /\ machine' = machine /\ shared' = shared
      /\ panel' = panel /\ dark' = dark
  BY <1>1 DEF SetBit, At
<1>3. t = Server /\ x \in Ops /\ x.arg \in Pipes
  BY <1>2, ServerOnly, NextOp, OpArgs
<1>4. Arg(t) = x.arg
  BY DEF Arg
<1>5. todo'[Server] = Tail(todo[Server])
  BY <1>2, <1>3, Goes
<1>6. \A p \in Pipes :
              /\ regs'[p].pipe = IF p = x.arg /\ field = "pipe" THEN value ELSE regs[p].pipe
              /\ regs'[p].plane = IF p = x.arg /\ field = "plane" THEN value ELSE regs[p].plane
  <2>1. Arg(t) \in Pipes
    BY <1>3, <1>4
  <2>2. \A p \in Pipes :
              /\ regs'[p].pipe = IF p = Arg(t) /\ field = "pipe" THEN value ELSE regs[p].pipe
              /\ regs'[p].plane = IF p = Arg(t) /\ field = "plane" THEN value ELSE regs[p].plane
    <3> HIDE DEF x
    <3>1. SetBit(t, name, field, value) /\ field \in {"pipe", "plane"} /\ value \in BOOLEAN
      BY <1>1
    <3> QED BY <2>1, <3>1, BitSet, ZenonT(60)
  <2> QED BY <1>4, <2>2
<1>7. PICK now : now = Now'
  OBVIOUS
<1>8. now = [pipe |-> [p \in Pipes |-> regs'[p].pipe], plane |-> [p \in Pipes |-> regs'[p].plane],
             panel |-> panel, dark |-> dark, over |-> FALSE]
  BY <1>2, <1>7 DEF Now
<1>9. /\ field = "pipe" => /\ [p \in Pipes |-> regs'[p].plane] = [p \in Pipes |-> regs[p].plane]
                           /\ [p \in Pipes |-> regs'[p].pipe]
                              = [[p \in Pipes |-> regs[p].pipe] EXCEPT ![x.arg] = value]
      /\ field = "plane" => /\ [p \in Pipes |-> regs'[p].pipe] = [p \in Pipes |-> regs[p].pipe]
                            /\ [p \in Pipes |-> regs'[p].plane]
                               = [[p \in Pipes |-> regs[p].plane] EXCEPT ![x.arg] = value]
  BY <1>3, <1>6
<1> DEFINE P == [p \in Pipes |-> regs[p].pipe]
           L == [p \in Pipes |-> regs[p].plane]
           P2 == [p \in Pipes |-> regs'[p].pipe]
           L2 == [p \in Pipes |-> regs'[p].plane]
<1>10. Now = [pipe |-> P, plane |-> L, panel |-> panel, dark |-> dark, over |-> FALSE]
  BY DEF Now
<1> HIDE DEF P, L, P2, L2, x
<1>11. ASSUME NEW c, Shot(machine, shared.dpms, Now, x, c)
       PROVE  now = c
  <2>1. CASE field = "pipe"
    <3>1. c = [Now EXCEPT !.pipe = [@ EXCEPT ![x.arg] = value]]
      BY <1>1, <1>2, <1>11, <2>1 DEF Shot
    <3>2. P2 = [P EXCEPT ![x.arg] = value] /\ L2 = L
      BY <1>9, <2>1 DEF P, L, P2, L2
    <3>3. now = [pipe |-> P2, plane |-> L2, panel |-> panel, dark |-> dark, over |-> FALSE]
      BY <1>8 DEF P2, L2
    <3> QED BY <1>10, <3>1, <3>2, <3>3
  <2>2. CASE field = "plane"
    <3>1. c = [Now EXCEPT !.plane = [@ EXCEPT ![x.arg] = value]]
      BY <1>1, <1>2, <1>11, <2>2 DEF Shot
    <3>2. L2 = [L EXCEPT ![x.arg] = value] /\ P2 = P
      BY <1>9, <2>2 DEF P, L, P2, L2
    <3>3. now = [pipe |-> P2, plane |-> L2, panel |-> panel, dark |-> dark, over |-> FALSE]
      BY <1>8 DEF P2, L2
    <3> QED BY <1>10, <3>1, <3>2, <3>3
  <2> QED BY <2>1, <2>2
<1> QED BY <1>2, <1>3, <1>5, <1>7, <1>11, ShowMoves DEF x

LEMMA PanelShows ==
  ASSUME ModeTypeOK, ShowInv, NEW t \in Threads, PanelPower(t)
  PROVE  ShowInv'
<1> DEFINE x == Head(todo[t])
<1>1. ~Idle(t) /\ x.op = "panel" /\ Done(t) /\ machine' = machine /\ shared' = shared
      /\ panel' = x.arg /\ dark' = dark /\ regs' = regs
  BY DEF PanelPower, At, Arg
<1>2. t = Server
  BY <1>1, ServerOnly
<1>3. todo'[Server] = Tail(todo[Server])
  BY <1>1, <1>2, Goes
<1>4. PICK now : now = Now'
  OBVIOUS
<1> DEFINE P == [p \in Pipes |-> regs[p].pipe]
           L == [p \in Pipes |-> regs[p].plane]
<1>7. Now = [pipe |-> P, plane |-> L, panel |-> panel, dark |-> dark, over |-> FALSE]
  BY DEF Now
<1>8. now = [pipe |-> P, plane |-> L, panel |-> x.arg, dark |-> dark, over |-> FALSE]
  BY <1>1, <1>4 DEF Now
<1> HIDE DEF P, L, x
<1>5. now = [Now EXCEPT !.panel = x.arg]
  <2> DEFINE no == FALSE
             shot(y) == [pipe |-> P, plane |-> L, panel |-> y, dark |-> dark, over |-> no]
  <2> HIDE DEF no
  <2>1. shot(x.arg) = [shot(panel) EXCEPT !.panel = x.arg]
    OBVIOUS
  <2>2. Now = shot(panel) /\ now = shot(x.arg)
    BY <1>7, <1>8 DEF no
  <2> HIDE DEF shot
  <2> QED BY <2>1, <2>2
<1>6. ASSUME NEW c, Shot(machine, shared.dpms, Now, x, c)
      PROVE  now = c
  BY <1>1, <1>5, <1>6 DEF Shot
<1> QED BY <1>1, <1>2, <1>3, <1>4, <1>6, ShowMoves DEF x

LEMMA ClockShows ==
  ASSUME ModeTypeOK, ShowInv, NEW t \in Threads, Clock(t)
  PROVE  /\ ShowInv' /\ plls' \in [Plls -> {None} \cup Settings]
         /\ \A n \in Plls : plls'[n] # plls[n] =>
              plls'[n] \in Settings /\ Stopped(machine, Now, plls'[n].port)
<1> DEFINE x == Head(todo[t])
<1>0. PICK n, set : n = x.arg.pll /\ set = x.arg.set
  OBVIOUS
<1>1. ~Idle(t) /\ x.op = "clock" /\ Done(t) /\ machine' = machine /\ shared' = shared
      /\ panel' = panel /\ dark' = dark /\ regs' = regs /\ plls' = [plls EXCEPT ![n] = set]
  BY <1>0 DEF Clock, At, Arg
<1>2. t = Server /\ x \in Ops /\ n \in Plls /\ set \in Settings
  BY <1>0, <1>1, ServerOnly, NextOp, OpArgs
<1>3. todo'[Server] = Tail(todo[Server])
  BY <1>1, <1>2, Goes
<1>4. PICK now : now = Now'
  OBVIOUS
<1>5. now = Now
  BY <1>1, <1>4, NowStays
<1>6. PICK c \in Scenes(machine) : Shot(machine, shared.dpms, Now, x, c)
  BY <1>1, <1>2, FilmNext
<1>7. Stopped(machine, Now, set.port)
  BY <1>0, <1>1, <1>6 DEF Shot
<1>8. \A e : Shot(machine, shared.dpms, Now, x, e) => now = e
  BY <1>1, <1>5 DEF Shot
<1>9. ShowInv'
  BY <1>1, <1>2, <1>3, <1>4, <1>8, ShowMoves DEF x
<1>10. plls \in [Plls -> {None} \cup Settings]
  BY DEF ModeTypeOK
<1>11. /\ plls' \in [Plls -> {None} \cup Settings]
       /\ \A k \in Plls : plls'[k] = IF k = n THEN set ELSE plls[k]
  BY <1>1, <1>2, <1>10
<1> QED BY <1>2, <1>7, <1>9, <1>11

LEMMA QuietShows ==
  ASSUME ModeTypeOK, ShowInv, NEW t \in Threads,
         \/ Lock(t) \/ Unlock(t) \/ Load(t) \/ Store(t) \/ Free(t) \/ Pitch(t) \/ Adopt(t)
  PROVE  ShowInv'
<1>1. /\ machine' = machine /\ panel' = panel /\ dark' = dark /\ ~Idle(t) /\ Done(t)
      /\ Head(todo[t]).op \in Stays
  BY DEF Lock, Unlock, Load, Store, Free, Pitch, Adopt, At, Stays
<1>2. shared'.dpms = shared.dpms
  <2>1. shared' = shared \/ Adopt(t)
    BY DEF Lock, Unlock, Load, Store, Free, Pitch
  <2> QED BY <2>1 DEF Adopt, ModeTypeOK
<1>3. \A p \in Pipes : regs'[p].pipe = regs[p].pipe /\ regs'[p].plane = regs[p].plane
  <2>0. regs \in [Pipes -> Registers]
    BY DEF ModeTypeOK
  <2>1. CASE Store(t)
    <3> DEFINE x == latch[t].surface
               y == latch[t].offset
    <3>1. regs' = [regs EXCEPT ![Arg(t)].surface = x, ![Arg(t)].offset = y]
      BY <2>1 DEF Store
    <3> HIDE DEF x, y
    <3> QED BY <2>0, <3>1 DEF Registers
  <2>2. CASE Pitch(t)
    <3> DEFINE x == Arg(t).pitch
    <3>1. regs' = [p \in Pipes |-> IF p \in Based THEN [regs[p] EXCEPT !.pitch = x]
                                   ELSE regs[p]]
      BY <2>2 DEF Pitch
    <3> HIDE DEF x
    <3> QED BY <2>0, <3>1 DEF Registers
  <2>3. CASE ~Store(t) /\ ~Pitch(t)
    <3>1. regs' = regs
      BY <2>3 DEF Lock, Unlock, Load, Free, Adopt
    <3> QED BY <3>1
  <2> QED BY <2>1, <2>2, <2>3
<1>4. Now' = Now
  BY <1>1, <1>3, NowStays
<1>5. CASE t = Server
  <2>1. todo'[Server] = Tail(todo[Server])
    BY <1>1, <1>5, Goes
  <2> QED BY <1>1, <1>2, <1>4, <1>5, <2>1, ShowStays
<1>6. CASE t # Server
  <2>1. todo'[Server] = todo[Server]
    BY <1>1, <1>6, Goes, Names
  <2> QED BY <1>1, <1>2, <1>4, <2>1, ShowStays
<1> QED BY <1>5, <1>6

LEMMA OthersShow ==
  ASSUME ModeTypeOK, ShowInv, OtherAllocates \/ OtherFrees
  PROVE  ShowInv'
<1>1. /\ machine' = machine /\ panel' = panel /\ dark' = dark /\ todo' = todo /\ regs' = regs
      /\ shared' = shared
  BY DEF OtherAllocates, OtherFrees
<1>2. Now' = Now
  BY <1>1, NowStays
<1> QED BY <1>1, <1>2, ShowStays

\* A step that puts more steps in front of the rest.
LEMMA ShowMore ==
  ASSUME ModeTypeOK, ShowInv, machine' = machine, shared'.dpms = shared.dpms, ~Idle(Server),
         NEW now, now = Now', NEW s \in Seq(Ops),
         \A c \in Scenes(machine) : Shot(machine, shared.dpms, Now, Head(todo[Server]), c)
            => Film(machine, shared.dpms, s, now, c),
         todo'[Server] = s \o Tail(todo[Server])
  PROVE  ShowInv'
<1>1. PICK b \in Scenes(machine), c \in Scenes(machine) :
         /\ Shot(machine, shared.dpms, Now, Head(todo[Server]), c)
         /\ Film(machine, shared.dpms, Tail(todo[Server]), c, b)
         /\ EndsLit(b)
  BY FilmNext
<1>2. Tail(todo[Server]) \in Seq(Ops)
  BY NextOp, Names
<1>3. Film(machine, shared.dpms, s, now, c)
  BY <1>1
<1> DEFINE z == Tail(todo[Server])
           d == shared.dpms
           m == machine
<1> HIDE DEF z
<1>4. Film(m, d, s \o z, now, b)
  BY <1>1, <1>2, <1>3, FilmConcat DEF z
<1> DEFINE r == todo'[Server]
<1> SUFFICES \E e \in Scenes(machine) : Film(m, d, r, now, e)
                                        /\ (e.over \/ e.dark \/ Lit(m, e, d))
  BY DEF ShowInv, EndsLit
<1> QED BY <1>1, <1>4 DEF EndsLit, z

\* The display with another view of whether it is off for good.
LEMMA NowDark ==
  ASSUME ModeTypeOK, ShowInv, regs' = regs, panel' = panel, NEW d \in BOOLEAN, dark' = d,
         NEW now, now = Now'
  PROVE  /\ now = [Now EXCEPT !.dark = d] /\ now \in Scenes(machine) /\ ~now.over
         /\ now.dark = d
<1> DEFINE P == [p \in Pipes |-> regs[p].pipe]
           L == [p \in Pipes |-> regs[p].plane]
           no == FALSE
           shot(y) == [pipe |-> P, plane |-> L, panel |-> panel, dark |-> y, over |-> no]
<1>1. Now = shot(dark) /\ now = shot(d)
  BY DEF Now
<1>2. Now \in Shows /\ Fed(Now) /\ (Now.panel => Panelled(machine))
  BY NowIs, SceneType
<1> HIDE DEF P, L, no
<1>3. shot(d) = [shot(dark) EXCEPT !.dark = d]
  OBVIOUS
<1> HIDE DEF shot
<1>4. now = [Now EXCEPT !.dark = d]
  BY <1>1, <1>3
<1>5. now \in Shows /\ now.plane = Now.plane /\ now.pipe = Now.pipe /\ now.panel = Now.panel
      /\ now.over = Now.over /\ now.dark = d
  BY <1>2, <1>4 DEF Shows
<1>6. now \in Scenes(machine)
  <2>1. Fed(now)
    BY <1>2, <1>5 DEF Fed
  <2> QED BY <1>2, <1>5, <2>1, SceneType
<1> QED BY <1>4, <1>5, <1>6, NowIs

LEMMA PowerShows ==
  ASSUME ModeTypeOK, ShowInv, NEW t \in Threads, Power(t)
  PROVE  ShowInv'
<1> DEFINE x == Head(todo[t])
           d == shared.dpms
           m == machine
           on == d = "on"
           s == set_display_power_mode(d)
<1>1. ~Idle(t) /\ x.op = "power" /\ Then(t, s) /\ machine' = machine /\ shared' = shared
      /\ panel' = panel /\ dark' = FALSE /\ regs' = regs
  BY DEF Power, At
<1>2. t = Server
  BY <1>1, ServerOnly
<1>3. PICK now : now = Now'
  OBVIOUS
<1>4. now = [Now EXCEPT !.dark = FALSE] /\ now \in Scenes(m) /\ ~now.over
  BY <1>1, <1>3, NowDark
<1>5. m \in Machines /\ d \in DpmsModes /\ Now \in Scenes(m)
  BY NowIs DEF ModeTypeOK
<1>6. s \in Seq(Ops) /\ Film(m, d, s, now, Powered(m, now, on))
  <2>1. s \in Seq(PowerSteps) /\ Film(m, d, s, now, Powered(m, now, on))
    BY <1>4, <1>5, PowerRuns
  <2> HIDE DEF s
  <2> QED BY <2>1, OpsHave, SeqHas
<1>7. Powered(m, now, on) = [Powered(m, Now, on) EXCEPT !.dark = FALSE]
  <2>1. Now \in Shows
    BY <1>5, SceneType
  <2> DEFINE a == Now
             P == [p \in Pipes |-> IF p \notin Heads(m) THEN a.pipe[p]
                                   ELSE on \/ (m.gen > 5 /\ a.pipe[p])]
             L == [p \in Pipes |-> IF p \notin Planes(Heads(m)) THEN a.plane[p] ELSE on]
             Q == on /\ Panelled(m)
  <2>2. \A y : y.pipe = a.pipe /\ y.plane = a.plane =>
                 Powered(m, y, on) = [[y EXCEPT !.pipe = P, !.plane = L] EXCEPT !.panel = Q]
    BY Zenon DEF Powered, Switched
  <2> HIDE DEF P, L, Q, a, on, m
  <2>3. a \in Shows /\ now = [a EXCEPT !.dark = FALSE]
    BY <1>4, <2>1 DEF a
  <2>4. now.pipe = a.pipe /\ now.plane = a.plane
    BY <2>3 DEF Shows
  <2>5. [[now EXCEPT !.pipe = P, !.plane = L] EXCEPT !.panel = Q]
        = [[[a EXCEPT !.pipe = P, !.plane = L] EXCEPT !.panel = Q] EXCEPT !.dark = FALSE]
    BY <2>3 DEF Shows
  <2> QED BY <2>2, <2>4, <2>5 DEF a
<1>8. \A c \in Scenes(m) : Shot(m, d, Now, x, c) => Film(m, d, s, now, c)
  BY <1>1, <1>6, <1>7 DEF Shot
<1>9. todo'[Server] = s \o Tail(todo[Server])
  <2> HIDE DEF s
  <2> QED BY <1>1, <1>2, <1>6, Goes
<1> HIDE DEF s
<1> QED BY <1>1, <1>2, <1>3, <1>6, <1>8, <1>9, ShowMore

\* Nothing runs on after an allocation.
LEMMA OverEnds ==
  ASSUME NEW m, NEW dpms, NEW s \in Seq(Ops), NEW a, NEW b, Film(m, dpms, s, a, b), a.over
  PROVE  s = <<>>
<1> SUFFICES ASSUME s # <<>>
             PROVE  FALSE
  OBVIOUS
<1>1. a \in Scenes(m) /\ \E c \in Scenes(m) : <<a, c>> \in Shots(m, dpms)[s[1]]
  BY RunsTail DEF Film
<1>2. s[1] \in Ops
  OBVIOUS
<1>3. PICK c \in Scenes(m) : Shot(m, dpms, a, s[1], c)
  BY <1>1, <1>2, ShotIs
<1> QED BY <1>3 DEF Shot

LEMMA AtAllocate ==
  ASSUME ModeTypeOK, ShowInv, NEW t \in Threads, At(t, "allocate")
  PROVE  /\ t = Server /\ Off(machine, Now) /\ Tail(todo[t]) = <<>> /\ Arg(t) \in Modes
         /\ \A s \in Seq(Ops) : Then(t, s) => todo'[Server] = s
<1>1. ~Idle(t) /\ Head(todo[t]).op = "allocate"
  BY DEF At
<1>2. t = Server /\ Arg(t) \in Modes
  BY <1>1, ServerOnly, NextOp, OpArgs DEF Arg
<1>3. PICK b \in Scenes(machine), c \in Scenes(machine) :
         /\ Shot(machine, shared.dpms, Now, Head(todo[Server]), c)
         /\ Film(machine, shared.dpms, Tail(todo[Server]), c, b)
  BY <1>1, <1>2, FilmNext
<1>4. Off(machine, Now) /\ c = [Now EXCEPT !.over = TRUE]
  BY <1>1, <1>2, <1>3 DEF Shot
<1>5. c.over
  <2>1. Now \in Shows
    BY NowIs, SceneType
  <2> QED BY <1>4, <2>1 DEF Shows
<1>6. Tail(todo[t]) = <<>>
  BY <1>1, <1>2, <1>3, <1>5, NextOp, OverEnds
<1>7. ASSUME NEW s \in Seq(Ops), Then(t, s)
      PROVE  todo'[Server] = s
  <2>1. todo'[Server] = s \o <<>>
    BY <1>1, <1>2, <1>6, <1>7, Goes
  <2> QED BY <2>1
<1> QED BY <1>2, <1>4, <1>6, <1>7

\* The program is what follows the allocation.
LEMMA ShowAnew ==
  ASSUME machine' = machine, shared'.dpms = shared.dpms, NEW now, now = Now', NEW s,
         todo'[Server] = s,
         NEW b \in Scenes(machine), Film(machine, shared.dpms, s, now, b), EndsLit(b)
  PROVE  ShowInv'
<1> DEFINE r == todo'[Server]
           d == shared.dpms
           m == machine
<1> SUFFICES \E e \in Scenes(machine) : Film(m, d, r, now, e)
                                        /\ (e.over \/ e.dark \/ Lit(m, e, d))
  BY DEF ShowInv, EndsLit
<1> QED BY DEF EndsLit

LEMMA AllocateShows ==
  ASSUME ModeTypeOK, ShowInv, NEW t \in Threads, Allocate(t)
  PROVE  ShowInv' /\ AfterMemory(Arg(t)) \in Seq(Ops)
<1> DEFINE s == AfterMemory(Arg(t))
<1>1. At(t, "allocate") /\ Then(t, s) /\ machine' = machine /\ panel' = panel /\ dark' = dark
      /\ regs' = regs
  BY DEF Allocate
<1>2. shared'.dpms = shared.dpms
  BY DEF Allocate, Allocated, ModeTypeOK
<1>3. t = Server /\ Off(machine, Now) /\ Arg(t) \in Modes
  BY <1>1, AtAllocate
<1>4. machine \in Machines /\ shared.dpms \in DpmsModes
  BY DEF ModeTypeOK
<1>5. /\ s \in Seq(Ops)
      /\ \E b \in Scenes(machine) : Lit(machine, b, shared.dpms) /\ Film(machine, shared.dpms, s, Now, b)
  BY <1>3, <1>4, NowIs, AfterMemoryRuns
<1> HIDE DEF s
<1>6. todo'[Server] = s
  BY <1>1, <1>5, AtAllocate
<1>7. PICK now : now = Now'
  OBVIOUS
<1>8. now = Now
  BY <1>1, <1>7, NowStays
<1>9. ShowInv'
  BY <1>1, <1>2, <1>5, <1>6, <1>7, <1>8, ShowAnew DEF EndsLit
<1> QED BY <1>5, <1>9 DEF s

LEMMA RestoreShows ==
  ASSUME ModeTypeOK, ShowInv, NEW t \in Threads, Restore(t)
  PROVE  ShowInv'
<1>1. At(t, "allocate") /\ machine' = machine /\ panel' = panel /\ dark' = TRUE /\ regs' = regs
  BY DEF Restore
<1>2. shared'.dpms = shared.dpms
  BY DEF Restore, Allocated, ModeTypeOK
<1>3. PICK s \in {AfterRestore, <<Do("unlock")>>} : Then(t, s)
  BY DEF Restore
<1>4. s \in Seq(Ops) /\ \A i \in 1 .. Len(s) : s[i].op \in Stays
  <2>1. AfterRestore \in Seq(Ops) /\ \A i \in 1 .. Len(AfterRestore) : AfterRestore[i].op \in Stays
    BY AfterMoveType, OpsHave, SeqHas
  <2> DEFINE x == Do("unlock")
  <2>2. x \in Ops /\ x.op \in Stays
    BY DoType, OpsHave DEF Stays
  <2> HIDE DEF x
  <2>3. <<x>> \in Seq(Ops) /\ \A i \in 1 .. Len(<<x>>) : <<x>>[i].op \in Stays
    BY <2>2
  <2> QED BY <2>1, <2>3 DEF x
<1>5. todo'[Server] = s
  BY <1>1, <1>3, <1>4, AtAllocate
<1>6. PICK now : now = Now'
  OBVIOUS
<1>7. now \in Scenes(machine) /\ ~now.over /\ now.dark
  BY <1>1, <1>6, NowDark
<1>8. Film(machine, shared.dpms, s, now, now)
  BY <1>4, <1>7, FilmStay
<1> QED BY <1>1, <1>2, <1>5, <1>6, <1>7, <1>8, ShowAnew DEF EndsLit

LEMMA MoveShows ==
  ASSUME ModeTypeOK, ShowInv, NEW t \in Threads, MoveStart(t)
  PROVE  ShowInv'
<1>1. ~Idle(t) /\ Head(todo[t]).op = "move" /\ machine' = machine /\ panel' = panel
      /\ dark' = dark /\ regs' = regs
  BY DEF MoveStart, At
<1>2. shared'.dpms = shared.dpms
  BY DEF MoveStart, ModeTypeOK
<1>3. PICK s \in {AfterMove, <<Do("unlock")>>} : Then(t, s)
  BY DEF MoveStart
<1>4. s \in Seq(Ops) /\ \A i \in 1 .. Len(s) : s[i].op \in Stays
  <2>1. AfterMove \in Seq(Ops) /\ \A i \in 1 .. Len(AfterMove) : AfterMove[i].op \in Stays
    BY AfterMoveType, OpsHave, SeqHas
  <2> DEFINE x == Do("unlock")
  <2>2. x \in Ops /\ x.op \in Stays
    BY DoType, OpsHave DEF Stays
  <2> HIDE DEF x
  <2>3. <<x>> \in Seq(Ops) /\ \A i \in 1 .. Len(<<x>>) : <<x>>[i].op \in Stays
    BY <2>2
  <2> QED BY <2>1, <2>3 DEF x
<1>5. PICK now : now = Now'
  OBVIOUS
<1>6. now = Now
  BY <1>1, <1>5, NowStays
<1>7. CASE t # Server
  <2>1. todo'[Server] = todo[Server]
    BY <1>1, <1>3, <1>4, <1>7, Goes, Names
  <2> QED BY <1>1, <1>2, <1>5, <1>6, <2>1, ShowStays
<1>8. CASE t = Server
  <2>1. todo'[Server] = s \o Tail(todo[Server])
    BY <1>1, <1>3, <1>4, <1>8, Goes
  <2>2. Film(machine, shared.dpms, s, Now, Now)
    BY <1>4, NowIs, FilmStay
  <2>3. \A c : Shot(machine, shared.dpms, Now, Head(todo[Server]), c) => c = Now
    BY <1>1, <1>8 DEF Shot, Stays
  <2> QED BY <1>1, <1>2, <1>4, <1>5, <1>6, <1>8, <2>1, <2>2, <2>3, ShowMore
<1> QED BY <1>7, <1>8

-----------------------------------------------------------------------------
(* Calls, and the initial states. *)

LEMMA Begins ==
  ASSUME ModeTypeOK, NEW t \in Threads, NEW s, Begin(t, s)
  PROVE  /\ todo'[t] = s /\ \A u \in Threads \ {t} : todo'[u] = todo[u]
         /\ machine' = machine /\ regs' = regs /\ panel' = panel /\ Idle(t)
BY DEF Begin, ModeTypeOK

LEMMA IdleEnds ==
  ASSUME ModeTypeOK, ShowInv, Idle(Server)
  PROVE  EndsLit(Now)
<1>1. PICK b \in Scenes(machine) : Film(machine, shared.dpms, todo[Server], Now, b) /\ EndsLit(b)
  BY DEF ShowInv
<1>2. b = Now
  <2> DEFINE F == Shots(machine, shared.dpms)
             S == Scenes(machine)
             now == Now
  <2>1. Runs(F, S, <<>>, now, b)
    BY <1>1 DEF Film, Idle
  <2> HIDE DEF F, S, now
  <2>2. now = b
    BY <2>1, RunsEmpty
  <2> QED BY <2>2 DEF now
<1> QED BY <1>1, <1>2

LEMMA SetModeShows ==
  ASSUME ModeTypeOK, ShowInv, NEW mode \in Modes, SetDisplayMode(mode)
  PROVE  ShowInv' /\ UntilMemory(mode) \in Seq(Ops)
<1> DEFINE s == UntilMemory(mode)
<1>1. Begin(Server, s) /\ shared' = shared /\ dark' = dark
  BY DEF SetDisplayMode
<1>2. todo'[Server] = s /\ machine' = machine /\ regs' = regs /\ panel' = panel
  BY <1>1, Begins, Names
<1>3. /\ s \in Seq(Ops)
      /\ \E b \in Scenes(machine) : b.over /\ Film(machine, shared.dpms, s, Now, b)
  BY NowIs, UntilMemoryRuns DEF ModeTypeOK
<1> HIDE DEF s
<1>4. PICK now : now = Now'
  OBVIOUS
<1>5. now = Now
  BY <1>1, <1>2, <1>4, NowStays
<1>6. ShowInv'
  BY <1>1, <1>2, <1>3, <1>4, <1>5, ShowAnew DEF EndsLit
<1> QED BY <1>3, <1>6 DEF s

LEMMA SetDpmsShows ==
  ASSUME ModeTypeOK, ShowInv, NEW dpms \in DpmsModes, SetDpmsMode(dpms)
  PROVE  ShowInv' /\ set_display_power_mode(dpms) \in Seq(Ops)
<1> DEFINE s == set_display_power_mode(dpms)
           m == machine
<1>1. Begin(Server, s) /\ shared'.dpms = dpms /\ dark' = FALSE
  BY DEF SetDpmsMode, ModeTypeOK
<1>2. todo'[Server] = s /\ machine' = machine /\ regs' = regs /\ panel' = panel
  BY <1>1, Begins, Names
<1>3. PICK now : now = Now'
  OBVIOUS
<1>4. now \in Scenes(m) /\ ~now.over
  BY <1>1, <1>2, <1>3, NowDark
<1> DEFINE b == Powered(m, now, dpms = "on")
<1>5. m \in Machines
  BY DEF ModeTypeOK
<1>6. s \in Seq(PowerSteps) /\ Film(m, dpms, s, now, b)
  BY <1>4, <1>5, PowerRuns
<1>7. b \in Scenes(m) /\ Lit(m, b, dpms)
  BY <1>4, <1>5, PowerOfScene, PoweredIs
<1> HIDE DEF s, b
<1>8. s \in Seq(Ops)
  BY <1>6, OpsHave, SeqHas
<1> DEFINE r == todo'[Server]
           d == shared'.dpms
<1>9. \E e \in Scenes(machine) : Film(m, d, r, now, e) /\ (e.over \/ e.dark \/ Lit(m, e, d))
  BY <1>1, <1>2, <1>6, <1>7
<1>10. ShowInv'
  BY <1>2, <1>3, <1>9 DEF ShowInv, EndsLit
<1> QED BY <1>8, <1>10 DEF s

LEMMA MoveBeginShows ==
  ASSUME ModeTypeOK, ShowInv, NEW t \in Threads, NEW start \in Nat, Move(t, start)
  PROVE  ShowInv' /\ MoveDisplay(start) \in Seq(MoveSteps)
<1> DEFINE s == MoveDisplay(start)
<1>1. Begin(t, s) /\ shared' = shared /\ dark' = dark
  BY DEF Move
<1>2. /\ todo'[t] = s /\ machine' = machine /\ regs' = regs /\ panel' = panel /\ Idle(t)
      /\ \A u \in Threads \ {t} : todo'[u] = todo[u]
  BY <1>1, Begins
<1>3. s \in Seq(MoveSteps) /\ \A i \in 1 .. Len(s) : s[i].op \in Stays
  <2> DEFINE x == Do("lock")
             y == Op("move", start)
  <2>1. x \in MoveSteps /\ y \in MoveSteps /\ x.op \in Stays /\ y.op \in Stays
    BY DoType, OpsHave DEF Stays
  <2>2. s = <<x, y>>
    BY DEF MoveDisplay
  <2> HIDE DEF s, x, y
  <2>3. <<x, y>> \in Seq(MoveSteps) /\ \A i \in 1 .. Len(<<x, y>>) : <<x, y>>[i].op \in Stays
    BY <2>1
  <2> QED BY <2>2, <2>3
<1> HIDE DEF s
<1>4. PICK now : now = Now'
  OBVIOUS
<1>5. now = Now
  BY <1>1, <1>2, <1>4, NowStays
<1>6. CASE t = Server
  <2>1. s \in Seq(Ops)
    BY <1>3, OpsHave, SeqHas
  <2>2. Film(machine, shared.dpms, s, now, now) /\ EndsLit(now) /\ now \in Scenes(machine)
    BY <1>2, <1>3, <1>5, <1>6, <2>1, NowIs, FilmStay, IdleEnds
  <2> QED BY <1>1, <1>2, <1>3, <1>4, <1>6, <2>2, ShowAnew DEF s
<1>7. CASE t # Server
  <2>1. todo'[Server] = todo[Server]
    BY <1>2, <1>7, Names
  <2> QED BY <1>1, <1>2, <1>3, <1>4, <1>5, <2>1, ShowStays DEF s
<1> QED BY <1>6, <1>7

LEMMA InitShows ==
  ASSUME Init
  PROVE  ShowInv /\ ModeTypeOK
<1> DEFINE m == machine
           H == Heads(m)
<1>1. PICK mode \in Modes :
       /\ memory = {[base |-> 0, size |-> Size(mode), owner |-> "frame"]}
       /\ shared = [frame |-> 0, mode |-> mode, start |-> 0,
                    pitch |-> mode.pitch, dpms |-> "on"]
       /\ regs = [p \in Pipes |->
                        [pipe |-> p \in H, plane |-> p \in Planes(H),
                         surface |-> 0, offset |-> 0,
                         pitch |-> IF p \in Based THEN mode.pitch ELSE 0]]
  BY Zenon DEF Init, Heads, Planes
<1>2. m \in Machines /\ panel = HasPanel /\ owner = None /\ dark = FALSE /\ lost = FALSE
      /\ overtaken = FALSE /\ todo = [t \in Threads |-> <<>>] /\ latch = [t \in Threads |-> None]
      /\ plls = [n \in Plls |-> None]
  BY DEF Init
<1>3. mode.pitch \in Nat /\ mode.height \in Nat /\ Size(mode) \in Nat
  <2>1. mode.pitch \in Nat /\ mode.height \in Nat
    BY ModesAssumption
  <2> DEFINE x == mode.pitch
             y == mode.height
  <2> HIDE DEF x, y
  <2>2. x \in Nat /\ y \in Nat => x * y \in Nat
    OBVIOUS
  <2> QED BY <2>1, <2>2 DEF Size, x, y
<1>4. (panel <=> Panelled(m)) /\ panel \in BOOLEAN
  BY <1>2, PanelIs DEF HasPanel
<1>5. ModeTypeOK
  <2>1. memory \subseteq [base : Nat, size : Nat, owner : {"frame", "other"}]
    BY <1>1, <1>3
  <2>2. shared \in [frame : Nat, mode : Modes, start : Nat, pitch : Nat, dpms : DpmsModes]
    BY <1>1, <1>3 DEF DpmsModes
  <2>3. regs \in [Pipes -> Registers]
    BY <1>1, <1>3 DEF Registers
  <2>4. todo \in [Threads -> Seq(Ops)] /\ todo[Clone] \in Seq(MoveSteps)
    <3>1. <<>> \in Seq(Ops) /\ <<>> \in Seq(MoveSteps) /\ Clone \in Threads
      BY Names
    <3> QED BY <1>2, <3>1
  <2>5. latch \in [Threads -> {None} \cup Bases]
    BY <1>2
  <2>6. plls \in [Plls -> {None} \cup Settings]
    BY <1>2
  <2> QED BY <1>2, <1>4, <2>1, <2>2, <2>3, <2>4, <2>5, <2>6 DEF ModeTypeOK
<1>6. Now \in Shows /\ Now.panel = panel /\ (\A p \in Pipes : Now.plane[p] <=> p \in Planes(H))
      /\ (\A p \in Pipes : Now.pipe[p] <=> p \in H)
  <2>1. Now \in Shows
    BY <1>2, <1>5 DEF Now, Shows, ModeTypeOK, Registers
  <2>2. \A p \in Pipes : (regs[p].plane <=> p \in Planes(H)) /\ (regs[p].pipe <=> p \in H)
    BY <1>1
  <2>3. /\ Now.panel = panel
        /\ \A p \in Pipes : Now.plane[p] = regs[p].plane /\ Now.pipe[p] = regs[p].pipe
    BY DEF Now
  <2> QED BY <2>1, <2>2, <2>3
<1>10. H \subseteq Pipes
  BY <1>2, PortsAre DEF Heads, Ports
<1>7. Now \in Scenes(m)
  <2>1. ASSUME NEW p \in Pipes, p \in Planes(H)
        PROVE  \E q \in Pipes : PlaneOf(q) = p /\ q \in H
    BY <1>10, <2>1 DEF Planes
  <2>2. Fed(Now)
    BY <1>6, <2>1 DEF Fed
  <2> QED BY <1>4, <1>6, <2>2, SceneType
<1>8. Lit(m, Now, shared.dpms)
  <2>1. \A p \in H : PlaneOf(p) \in Pipes /\ PlaneOf(p) \in Planes(H)
    BY <1>10, PlaneIs
  <2>2. shared.dpms = "on"
    BY <1>1
  <2> QED BY <1>4, <1>6, <2>1, <2>2 DEF Lit
<1>9. Film(m, shared.dpms, todo[Server], Now, Now)
  BY <1>2, <1>7, Names, RunsEmpty DEF Film
<1> QED BY <1>5, <1>7, <1>8, <1>9 DEF ShowInv, EndsLit

-----------------------------------------------------------------------------
(* What a step does to the base registers. *)

\* What holds of a thread, the step being another one's.
LEMMA OthersKeep ==
  ASSUME ModeTypeOK, BaseInv, NEW t \in Threads, NEW u \in Threads, u # t, ~Idle(t),
         todo'[u] = todo[u], latch'[u] = latch[u], owner' = u <=> owner = u,
         overtaken' = overtaken,
         shared' = shared \/ owner = t,
         (\A p \in Based : regs'[p].surface = regs[p].surface /\ regs'[p].offset = regs[p].offset)
           \/ latch[t] # None,
         u = Server => \A a \in Stages : Framed(a) => Framed(a)'
  PROVE  Stands(u)'
<1>1. PICK a \in Stages, b \in Stages : Matches(u, a) /\ Play(todo[u], a, b) /\ Ends(b)
  BY DEF BaseInv, Stands
<1>2. shared' = shared => Current' = Current
  BY DEF Current
<1>3. ~overtaken /\ latch[u] # None => latch[u] = Current'
  <2>1. CASE shared' = shared
    BY <1>1, <1>2, <2>1 DEF Matches
  <2>2. ASSUME owner = t, ~overtaken, latch[u] # None
        PROVE  FALSE
    <3>1. u = Server /\ Idle(Clone)
      BY <2>2, LatchedIs
    <3>2. t = Clone
      BY <3>1, Names
    <3> QED BY <3>1, <3>2
  <2> QED BY <2>1, <2>2
<1>4. ~overtaken /\ owner = u => \A p \in a.fresh : Fresh(p)'
  <2>1. SUFFICES ASSUME ~overtaken, owner = u
                 PROVE  \A p \in a.fresh : Fresh(p)'
    OBVIOUS
  <2>2. shared' = shared
    BY <2>1
  <2>3. latch[t] = None
    <3>1. SUFFICES ASSUME latch[t] # None
                   PROVE  FALSE
      OBVIOUS
    <3>2. t = Server /\ Idle(Clone)
      BY <2>1, <3>1, LatchedIs
    <3>3. u = Clone
      BY <3>2, Names
    <3> QED BY <2>1, <3>2, <3>3, IdleHas
  <2>4. a.fresh \subseteq Based
    BY StageHas DEF StageType
  <2>5. \A p \in Based : regs'[p].surface = regs[p].surface /\ regs'[p].offset = regs[p].offset
    BY <2>3
  <2>6. \A p \in a.fresh : Fresh(p)
    BY <1>1, <2>1 DEF Matches
  <2>7. ASSUME NEW p \in a.fresh
        PROVE  Fresh(p)'
    <3>1. Fresh(p)
      BY <2>6
    <3> QED BY <1>2, <2>2, <2>4, <2>5, <3>1 DEF Fresh
  <2> QED BY <2>7
<1>5. a.phase = "free" /\ ~Idle(u)' /\ ~overtaken' => Idle(Clone)'
  <2>1. SUFFICES ASSUME a.phase = "free", ~Idle(u)', ~overtaken'
                 PROVE  FALSE
    OBVIOUS
  <2>2. ~Idle(u) /\ u = Server /\ ~overtaken
    BY <1>1, <2>1, Names DEF Matches, Idle
  <2>3. Idle(Clone) /\ t = Clone
    BY <1>1, <2>1, <2>2, Names DEF Matches
  <2> QED BY <2>3
<1>6. Matches(u, a)'
  BY <1>1, <1>3, <1>4, <1>5, Keeps DEF Matches
<1> QED BY <1>1, <1>6 DEF Stands

\* Both threads stand: so does everything.
LEMMA BothStand ==
  ASSUME NEW t \in Threads, Stands(t)', \A u \in Threads \ {t} : Stands(u)', Rest'
  PROVE  BaseInv'
BY DEF BaseInv, Threads

\* A step that leaves the base registers, the lock and the memory as they are.
LEMMA SwitchKeeps ==
  ASSUME ModeTypeOK, BaseInv, NEW t \in Threads, ~Idle(t),
         NEW s \in Seq(Ops), todo'[t] = s,
         \A u \in Threads \ {t} : todo'[u] = todo[u],
         shared' = shared, owner' = owner, latch' = latch, lost' = lost, overtaken' = overtaken,
         memory' = memory,
         \A p \in Based : regs'[p].surface = regs[p].surface /\ regs'[p].offset = regs[p].offset
                          /\ regs'[p].pitch = regs[p].pitch,
         \A a \in Stages, c \in Stages : Turn(a, Head(todo[t]), c) /\ Matches(t, a)
            => \A b \in Stages : Play(Tail(todo[t]), c, b) => Play(s, a, b)
  PROVE  BaseInv'
<1>1. PICK a \in Stages, b \in Stages, c \in Stages :
           /\ Matches(t, a) /\ Turn(a, Head(todo[t]), c)
           /\ Play(Tail(todo[t]), c, b) /\ Ends(b)
  BY StageNext
<1>2. Current' = Current
  BY DEF Current
<1>3. \A p \in Based : Fresh(p)' <=> Fresh(p)
  BY <1>2 DEF Fresh
<1>4. \A e \in Stages : Framed(e) => Framed(e)'
  BY FramesKeep
<1>5. Rest'
  BY <1>3 DEF BaseInv, Rest
<1>6. \A u \in Threads \ {t} : Stands(u)'
  BY <1>4, OthersKeep
<1>7. Matches(t, a)'
  <2>1. ~overtaken' /\ latch[t] # None => latch[t] = Current'
    BY <1>1, <1>2 DEF Matches
  <2>2. ~overtaken' /\ owner = t => \A p \in a.fresh : Fresh(p)'
    <3>1. a.fresh \subseteq Based
      BY StageHas DEF StageType
    <3> QED BY <1>1, <1>3, <3>1 DEF Matches
  <2>3. a.phase = "free" /\ ~Idle(t)' /\ ~overtaken' => Idle(Clone)'
    BY <1>1, Names DEF Matches, Idle
  <2>4. t = Server => Framed(a)'
    BY <1>1, <1>4 DEF Matches
  <2> QED BY <1>1, <2>1, <2>2, <2>3, <2>4, Keeps
<1>8. Play(s, a, b)
  BY <1>1
<1>9. Stands(t)'
  BY <1>1, <1>7, <1>8 DEF Stands
<1> QED BY <1>5, <1>6, <1>9, BothStand

LEMMA SwitchStands ==
  ASSUME ModeTypeOK, BaseInv, NEW t \in Threads,
         Enable(t) \/ Disable(t) \/ PanelPower(t) \/ Clock(t)
  PROVE  BaseInv'
<1> DEFINE x == Head(todo[t])
<1>1. /\ ~Idle(t) /\ Done(t) /\ shared' = shared /\ owner' = owner /\ latch' = latch
      /\ lost' = lost /\ overtaken' = overtaken /\ memory' = memory
      /\ x.op \in {"pipe on", "pipe off", "plane on", "plane off", "panel", "clock"}
  BY DEF Enable, Disable, SetBit, PanelPower, Clock, At
<1>2. \A p \in Based : regs'[p].surface = regs[p].surface /\ regs'[p].offset = regs[p].offset
                       /\ regs'[p].pitch = regs[p].pitch
  <2>0. regs \in [Pipes -> Registers] /\ x \in Ops
    BY <1>1, NextOp DEF ModeTypeOK
  <2>1. CASE Enable(t) \/ Disable(t)
    <3>1. PICK name \in {"pipe on", "plane on", "pipe off", "plane off"},
               field \in {"pipe", "plane"}, value \in BOOLEAN : SetBit(t, name, field, value)
      BY <2>1 DEF Enable, Disable
    <3>2. Arg(t) \in Pipes
      BY <2>0, <3>1, OpArgs DEF SetBit, At, Arg
    <3> QED BY <3>1, <3>2, BitSet, PlaneIs
  <2>2. CASE PanelPower(t) \/ Clock(t)
    BY <2>2 DEF PanelPower, Clock
  <2> QED BY <2>1, <2>2
<1>3. todo'[t] = Tail(todo[t]) /\ \A u \in Threads \ {t} : todo'[u] = todo[u]
  BY <1>1, Goes
<1>4. Tail(todo[t]) \in Seq(Ops)
  BY <1>1, NextOp
<1>5. \A a \in Stages, c \in Stages : Turn(a, x, c) => c = a
  BY <1>1 DEF Turn
<1> QED BY <1>1, <1>2, <1>3, <1>4, <1>5, SwitchKeeps

LEMMA PowerStands ==
  ASSUME ModeTypeOK, ShowInv, BaseInv, NEW t \in Threads, Power(t)
  PROVE  BaseInv' /\ set_display_power_mode(shared.dpms) \in Seq(Ops)
<1> DEFINE x == Head(todo[t])
           s == set_display_power_mode(shared.dpms)
           z == Tail(todo[t])
<1>1. /\ ~Idle(t) /\ Then(t, s) /\ shared' = shared /\ owner' = owner /\ latch' = latch
      /\ lost' = lost /\ overtaken' = overtaken /\ memory' = memory /\ regs' = regs
      /\ x.op = "power"
  BY DEF Power, At
<1>2. machine \in Machines /\ shared.dpms \in DpmsModes /\ Now \in Scenes(machine) /\ ~Now.over
  BY NowIs DEF ModeTypeOK
<1>3. s \in Seq(Ops)
  <2>1. s \in Seq(PowerSteps)
    BY <1>2, PowerRuns
  <2> HIDE DEF s
  <2> QED BY <2>1, OpsHave, SeqHas
<1>4. ASSUME NEW a \in Stages, NEW c \in Stages, Turn(a, x, c), NEW b \in Stages, Play(z, c, b)
      PROVE  Play(s \o z, a, b)
  <2>1. Holds(a) /\ c = [a EXCEPT !.fresh = Based]
    BY <1>1, <1>4 DEF Turn
  <2>2. Play(s, a, c)
    BY <1>2, <2>1, PlayPower DEF Acts, Holds
  <2>3. z \in Seq(Ops)
    BY <1>1, NextOp
  <2> HIDE DEF s, z
  <2> QED BY <1>3, <1>4, <2>2, <2>3, PlayConcat
<1>5. s \o z \in Seq(Ops)
  <2>1. z \in Seq(Ops)
    BY <1>1, NextOp
  <2> HIDE DEF s, z
  <2> QED BY <1>3, <2>1
<1> HIDE DEF s
<1>6. todo'[t] = s \o z /\ \A u \in Threads \ {t} : todo'[u] = todo[u]
  BY <1>1, <1>3, Goes
<1>7. BaseInv'
  BY <1>1, <1>4, <1>5, <1>6, SwitchKeeps
<1> QED BY <1>3, <1>7 DEF s

LEMMA LockStands ==
  ASSUME ModeTypeOK, BaseInv, NEW t \in Threads, Lock(t)
  PROVE  BaseInv'
<1> DEFINE x == Head(todo[t])
<1>1. /\ ~Idle(t) /\ Done(t) /\ shared' = shared /\ owner = None /\ owner' = t /\ latch' = latch
      /\ lost' = lost /\ overtaken' = overtaken /\ memory' = memory /\ regs' = regs
      /\ x.op = "lock"
  BY DEF Lock, At
<1>2. PICK a \in Stages, b \in Stages, c \in Stages :
           /\ Matches(t, a) /\ Turn(a, x, c)
           /\ Play(Tail(todo[t]), c, b) /\ Ends(b)
  BY <1>1, StageNext
<1>3. /\ c = [a EXCEPT !.phase = "holding"] /\ Settled(a) /\ ~a.latched /\ a \in StageType
  BY <1>1, <1>2, StageHas DEF Turn
<1>4. /\ c.phase = "holding" /\ c.latched = a.latched /\ c.fresh = a.fresh /\ c.pitch = a.pitch
      /\ c.next = a.next /\ c.freed = a.freed
  BY <1>3 DEF StageType
<1>5. todo'[t] = Tail(todo[t]) /\ \A u \in Threads \ {t} : todo'[u] = todo[u]
  BY <1>1, Goes
<1>6. \A e \in Stages : Framed(e) => Framed(e)'
  BY <1>1, FramesKeep
<1>7. \A p \in Based : Fresh(p)' <=> Fresh(p)
  BY <1>1 DEF Fresh, Current
<1>8. Framed(a) => Framed(c)'
  <2>1. Framed(a) => Framed(c)
    BY <1>4 DEF Framed
  <2> QED BY <1>6, <2>1
<1>9. Matches(t, c)'
  <2>1. ~overtaken => \A p \in c.fresh : Fresh(p)'
    BY <1>1, <1>3, <1>4, <1>7 DEF BaseInv, Rest, Settled
  <2> QED BY <1>1, <1>2, <1>3, <1>4, <1>8, <2>1 DEF Matches
<1>10. Stands(t)'
  BY <1>2, <1>5, <1>9 DEF Stands
<1>11. \A u \in Threads \ {t} : Stands(u)'
  <2>1. \A u \in Threads \ {t} : owner' = u <=> owner = u
    BY <1>1, Names
  <2> QED BY <1>1, <1>5, <1>6, <2>1, OthersKeep
<1>12. Rest'
  BY <1>1, Names DEF Rest
<1> QED BY <1>10, <1>11, <1>12, BothStand

LEMMA UnlockStands ==
  ASSUME ModeTypeOK, BaseInv, NEW t \in Threads, Unlock(t)
  PROVE  BaseInv'
<1> DEFINE x == Head(todo[t])
<1>1. /\ ~Idle(t) /\ Done(t) /\ shared' = shared /\ owner' = None /\ latch' = latch
      /\ lost' = lost /\ overtaken' = overtaken /\ memory' = memory /\ regs' = regs
      /\ x.op = "unlock"
  BY DEF Unlock, At
<1>2. PICK a \in Stages, b \in Stages, c \in Stages :
           /\ Matches(t, a) /\ Turn(a, x, c)
           /\ Play(Tail(todo[t]), c, b) /\ Ends(b)
  BY <1>1, StageNext
<1>3. /\ c = [a EXCEPT !.phase = "done"] /\ Settled(a) /\ Holds(a) /\ a \in StageType
  BY <1>1, <1>2, StageHas DEF Turn
<1>4. /\ c.phase = "done" /\ c.latched = a.latched /\ c.fresh = a.fresh /\ c.pitch = a.pitch
      /\ c.next = a.next /\ c.freed = a.freed /\ owner = t
  BY <1>2, <1>3 DEF StageType, Phases, Holds, Matches
<1>5. todo'[t] = Tail(todo[t]) /\ \A u \in Threads \ {t} : todo'[u] = todo[u]
  BY <1>1, Goes
<1>6. \A e \in Stages : Framed(e) => Framed(e)'
  BY <1>1, FramesKeep
<1>7. \A p \in Based : Fresh(p)' <=> Fresh(p)
  BY <1>1 DEF Fresh, Current
<1>8. Framed(a) => Framed(c)'
  <2>1. Framed(a) => Framed(c)
    BY <1>4 DEF Framed
  <2> QED BY <1>6, <2>1
<1>9. Matches(t, c)'
  BY <1>1, <1>2, <1>3, <1>4, <1>8, Names DEF Matches, Holds
<1>10. Stands(t)'
  BY <1>2, <1>5, <1>9 DEF Stands
<1>11. \A u \in Threads \ {t} : Stands(u)'
  <2>1. \A u \in Threads \ {t} : owner' = u <=> owner = u
    BY <1>1, <1>4, Names
  <2> QED BY <1>1, <1>5, <1>6, <2>1, OthersKeep
<1>12. Rest'
  BY <1>1, <1>2, <1>3, <1>4, <1>7 DEF Rest, Matches, Settled
<1> QED BY <1>10, <1>11, <1>12, BothStand

LEMMA CurrentType ==
  ASSUME ModeTypeOK
  PROVE  /\ Current \in Bases /\ latch \in [Threads -> {None} \cup Bases]
         /\ None \notin Bases /\ Current # None
         /\ regs \in [Pipes -> Registers]
<1>1. shared.frame \in Nat /\ shared.start \in Nat /\ shared.pitch \in Nat
  BY DEF ModeTypeOK
<1> DEFINE y == shared.start
           z == shared.pitch
           o == y * z
<1>2. o \in Nat
  <2> HIDE DEF y, z
  <2>1. y \in Nat /\ z \in Nat => y * z \in Nat
    OBVIOUS
  <2> QED BY <1>1, <2>1 DEF y, z
<1> HIDE DEF o
<1>3. Current = [surface |-> shared.frame, offset |-> o]
  BY DEF Current, o
<1>4. Current \in Bases
  BY <1>1, <1>2, <1>3 DEF Bases
<1>5. None \notin Bases
  BY NoneAssumption DEF Bases
<1> QED BY <1>4, <1>5 DEF ModeTypeOK

LEMMA LoadStands ==
  ASSUME ModeTypeOK, BaseInv, NEW t \in Threads, Load(t)
  PROVE  BaseInv' /\ latch' \in [Threads -> {None} \cup Bases]
<1> DEFINE x == Head(todo[t])
<1>1. /\ ~Idle(t) /\ Done(t) /\ shared' = shared /\ owner' = owner
      /\ latch' = [latch EXCEPT ![t] = Current]
      /\ lost' = lost /\ overtaken' = overtaken /\ memory' = memory /\ regs' = regs
      /\ x.op = "load"
  BY DEF Load, At, Current
<1>2. PICK a \in Stages, b \in Stages, c \in Stages :
           /\ Matches(t, a) /\ Turn(a, x, c)
           /\ Play(Tail(todo[t]), c, b) /\ Ends(b)
  BY <1>1, StageNext
<1>3. c = [a EXCEPT !.latched = TRUE] /\ a \in StageType
  BY <1>1, <1>2, StageHas DEF Turn
<1>4. /\ c.phase = a.phase /\ c.latched /\ c.fresh = a.fresh /\ c.pitch = a.pitch
      /\ c.next = a.next /\ c.freed = a.freed /\ a.fresh \subseteq Based
  BY <1>3 DEF StageType
<1>5. todo'[t] = Tail(todo[t]) /\ \A u \in Threads \ {t} : todo'[u] = todo[u]
  BY <1>1, Goes
<1>6. \A e \in Stages : Framed(e) => Framed(e)'
  BY <1>1, FramesKeep
<1>7. (\A p \in Based : Fresh(p)' <=> Fresh(p)) /\ Current' = Current
  BY <1>1 DEF Fresh, Current
<1>8. latch'[t] = Current /\ (\A u \in Threads \ {t} : latch'[u] = latch[u]) /\ Current # None
      /\ latch' \in [Threads -> {None} \cup Bases]
  <2>1. Current \in Bases /\ latch \in [Threads -> {None} \cup Bases] /\ Current # None
    BY CurrentType
  <2> QED BY <1>1, <2>1
<1>9. Framed(a) => Framed(c)'
  <2>1. Framed(a) => Framed(c)
    BY <1>4 DEF Framed
  <2> QED BY <1>6, <2>1
<1>10. Matches(t, c)'
  <2>1. ~overtaken /\ owner = t => \A p \in c.fresh : Fresh(p)'
    BY <1>2, <1>4, <1>7 DEF Matches
  <2>2. c.phase = "free" /\ ~Idle(t)' /\ ~overtaken' => Idle(Clone)'
    BY <1>1, <1>2, <1>4, <1>5, Names DEF Matches, Idle
  <2> QED BY <1>1, <1>2, <1>4, <1>7, <1>8, <1>9, <2>1, <2>2 DEF Matches
<1>11. Stands(t)'
  BY <1>2, <1>5, <1>10 DEF Stands
<1>12. \A u \in Threads \ {t} : Stands(u)'
  BY <1>1, <1>5, <1>6, <1>8, OthersKeep
<1>13. Rest'
  BY <1>1, <1>7 DEF BaseInv, Rest
<1> QED BY <1>8, <1>11, <1>12, <1>13, BothStand

LEMMA StoreStands ==
  ASSUME ModeTypeOK, BaseInv, NEW t \in Threads, Store(t)
  PROVE  BaseInv' /\ latch' \in [Threads -> {None} \cup Bases] /\ regs' \in [Pipes -> Registers]
<1> DEFINE x == Head(todo[t])
           l == latch[t]
<1>0. PICK q : q = x.arg
  OBVIOUS
<1>1. /\ ~Idle(t) /\ Done(t) /\ shared' = shared /\ owner' = owner
      /\ latch' = [latch EXCEPT ![t] = None]
      /\ regs' = [regs EXCEPT ![q].surface = l.surface, ![q].offset = l.offset]
      /\ lost' = lost /\ overtaken' = overtaken /\ memory' = memory
      /\ x.op = "store"
  BY <1>0 DEF Store, At, Arg
<1>2. PICK a \in Stages, b \in Stages, c \in Stages :
           /\ Matches(t, a) /\ Turn(a, x, c)
           /\ Play(Tail(todo[t]), c, b) /\ Ends(b)
  BY <1>1, StageNext
<1>3. /\ c = [a EXCEPT !.latched = FALSE, !.fresh = a.fresh \cup {q}] /\ a \in StageType
      /\ a.latched /\ q \in Based
  BY <1>0, <1>1, <1>2, StageHas, NextOp, OpArgs DEF Turn
<1>4. /\ c.phase = a.phase /\ ~c.latched /\ c.fresh = a.fresh \cup {q} /\ c.pitch = a.pitch
      /\ c.next = a.next /\ c.freed = a.freed /\ a.fresh \subseteq Based
  BY <1>3 DEF StageType
<1>5. todo'[t] = Tail(todo[t]) /\ \A u \in Threads \ {t} : todo'[u] = todo[u]
  BY <1>1, Goes
<1>6. l \in Bases /\ (~overtaken => l = Current) /\ l # None
  BY <1>2, <1>3, CurrentType DEF Matches
<1>7. /\ latch' \in [Threads -> {None} \cup Bases] /\ latch'[t] = None
      /\ \A u \in Threads \ {t} : latch'[u] = latch[u]
  <2>1. latch \in [Threads -> {None} \cup Bases]
    BY CurrentType
  <2> QED BY <1>1, <2>1
<1>8. /\ regs' \in [Pipes -> Registers]
      /\ \A p \in Pipes : /\ regs'[p].pitch = regs[p].pitch
                          /\ regs'[p].surface = IF p = q THEN l.surface ELSE regs[p].surface
                          /\ regs'[p].offset = IF p = q THEN l.offset ELSE regs[p].offset
  <2>1. regs \in [Pipes -> Registers]
    BY CurrentType
  <2>2. l.surface \in Nat /\ l.offset \in Nat /\ q \in Pipes
    BY <1>3, <1>6, PlaneIs DEF Bases
  <2> HIDE DEF l
  <2> QED BY <1>1, <2>1, <2>2 DEF Registers
<1>9. \A e \in Stages : Framed(e) => Framed(e)'
  BY <1>1, <1>8, FramesKeep, PlaneIs
<1>10. Framed(a) => Framed(c)'
  <2>1. Framed(a) => Framed(c)
    BY <1>4 DEF Framed
  <2> QED BY <1>9, <2>1
<1>11. ~overtaken => Fresh(q)' /\ \A p \in Based : Fresh(p) => Fresh(p)'
  <2>1. Current' = Current
    BY <1>1 DEF Current
  <2> HIDE DEF l
  <2>2. SUFFICES ASSUME ~overtaken
                 PROVE  Fresh(q)' /\ \A p \in Based : Fresh(p) => Fresh(p)'
    OBVIOUS
  <2>3. l = Current
    BY <1>6, <2>2
  <2>4. Fresh(q)'
    <3>1. regs'[q].surface = Current.surface /\ regs'[q].offset = Current.offset
      BY <1>3, <1>8, <2>3, PlaneIs
    <3> QED BY <2>1, <3>1 DEF Fresh
  <2>5. ASSUME NEW p \in Based, Fresh(p)
        PROVE  Fresh(p)'
    <3>1. regs'[p].surface = Current.surface /\ regs'[p].offset = Current.offset
      BY <1>8, <2>3, <2>5, PlaneIs DEF Fresh
    <3> QED BY <2>1, <3>1 DEF Fresh
  <2> QED BY <2>4, <2>5
<1> HIDE DEF l
<1>12. Matches(t, c)'
  <2>1. ~overtaken /\ owner = t => \A p \in c.fresh : Fresh(p)'
    <3>1. ~overtaken /\ owner = t => \A p \in a.fresh : Fresh(p) /\ p \in Based
      BY <1>2, <1>4 DEF Matches
    <3> QED BY <1>4, <1>11, <3>1
  <2>2. c.phase = "free" /\ ~Idle(t)' /\ ~overtaken' => Idle(Clone)'
    BY <1>1, <1>2, <1>4, <1>5, Names DEF Matches, Idle
  <2> QED BY <1>1, <1>2, <1>4, <1>7, <1>10, <2>1, <2>2 DEF Matches
<1>13. Stands(t)'
  BY <1>2, <1>5, <1>12 DEF Stands
<1>14. \A u \in Threads \ {t} : Stands(u)'
  BY <1>1, <1>5, <1>6, <1>7, <1>9, OthersKeep DEF l
<1>15. Rest'
  BY <1>1, <1>11 DEF BaseInv, Rest
<1> QED BY <1>7, <1>8, <1>13, <1>14, <1>15, BothStand

LEMMA FreeStands ==
  ASSUME ModeTypeOK, BaseInv, NEW t \in Threads, Free(t)
  PROVE  BaseInv'
<1> DEFINE x == Head(todo[t])
<1>1. /\ ~Idle(t) /\ Done(t) /\ shared' = shared /\ owner' = owner /\ latch' = latch
      /\ lost' = lost /\ overtaken' = overtaken /\ regs' = regs /\ x.op = "free"
  BY DEF Free, At
<1>2. PICK a \in Stages, b \in Stages, c \in Stages :
           /\ Matches(t, a) /\ Turn(a, x, c)
           /\ Play(Tail(todo[t]), c, b) /\ Ends(b)
  BY <1>1, StageNext
<1>3. c = [a EXCEPT !.freed = TRUE] /\ a \in StageType /\ Holds(a) /\ Settled(a) /\ t = Server
  BY <1>1, <1>2, StageHas, ServerOnly DEF Turn
<1>4. /\ c.phase = a.phase /\ c.latched = a.latched /\ c.fresh = a.fresh /\ c.pitch = {}
      /\ c.next = {} /\ c.freed /\ a.fresh \subseteq Based /\ a.pitch = {} /\ owner = t
  BY <1>2, <1>3 DEF StageType, Settled, Holds, Matches
<1>5. todo'[t] = Tail(todo[t]) /\ \A u \in Threads \ {t} : todo'[u] = todo[u]
  BY <1>1, Goes
<1>6. (\A p \in Based : Fresh(p)' <=> Fresh(p)) /\ Current' = Current
  BY <1>1 DEF Fresh, Current
<1>7. Framed(c)'
  BY <1>1, <1>2, <1>3, <1>4 DEF Framed, Matches
<1>8. Matches(t, c)'
  <2>1. ~overtaken /\ owner = t => \A p \in c.fresh : Fresh(p)'
    BY <1>2, <1>4, <1>6 DEF Matches
  <2> QED BY <1>1, <1>2, <1>3, <1>4, <1>6, <1>7, <2>1, Names DEF Matches, Holds
<1>9. Stands(t)'
  BY <1>2, <1>5, <1>8 DEF Stands
<1>10. \A u \in Threads \ {t} : Stands(u)'
  BY <1>1, <1>3, <1>5, OthersKeep
<1>11. Rest'
  BY <1>1, <1>6 DEF BaseInv, Rest
<1> QED BY <1>9, <1>10, <1>11, BothStand

LEMMA PitchStands ==
  ASSUME ModeTypeOK, BaseInv, NEW t \in Threads, Pitch(t)
  PROVE  BaseInv' /\ regs' \in [Pipes -> Registers]
<1> DEFINE x == Head(todo[t])
<1>0. PICK mode : mode = x.arg
  OBVIOUS
<1>1. /\ ~Idle(t) /\ Done(t) /\ shared' = shared /\ owner' = owner /\ latch' = latch
      /\ lost' = lost /\ overtaken' = overtaken /\ memory' = memory
      /\ regs' = [p \in Pipes |-> IF p \in Based THEN [regs[p] EXCEPT !.pitch = mode.pitch]
                                ELSE regs[p]]
      /\ x.op = "pitch"
  BY <1>0 DEF Pitch, At, Arg
<1>2. PICK a \in Stages, b \in Stages, c \in Stages :
           /\ Matches(t, a) /\ Turn(a, x, c)
           /\ Play(Tail(todo[t]), c, b) /\ Ends(b)
  BY <1>1, StageNext
<1>3. /\ c = [a EXCEPT !.pitch = {mode}] /\ a \in StageType /\ Holds(a) /\ t = Server
      /\ mode \in Modes
  BY <1>0, <1>1, <1>2, StageHas, ServerOnly, NextOp, OpArgs DEF Turn
<1>4. /\ c.phase = a.phase /\ c.latched = a.latched /\ c.fresh = a.fresh /\ c.pitch = {mode}
      /\ c.next = a.next /\ c.freed = a.freed /\ a.fresh \subseteq Based /\ owner = t
  BY <1>2, <1>3 DEF StageType, Holds, Matches
<1>5. todo'[t] = Tail(todo[t]) /\ \A u \in Threads \ {t} : todo'[u] = todo[u]
  BY <1>1, Goes
<1>6. /\ regs' \in [Pipes -> Registers]
      /\ \A p \in Based : /\ regs'[p].pitch = mode.pitch
                          /\ regs'[p].surface = regs[p].surface
                          /\ regs'[p].offset = regs[p].offset
  <2>1. regs \in [Pipes -> Registers] /\ mode.pitch \in Nat
    BY <1>3, CurrentType, ModesAssumption
  <2>2. PICK y : y = mode.pitch
    OBVIOUS
  <2> QED BY <1>1, <2>1, <2>2, PlaneIs DEF Registers
<1>7. \A p \in Based : Fresh(p)' <=> Fresh(p)
  <2>1. Current' = Current
    BY <1>1 DEF Current
  <2> QED BY <1>6, <2>1 DEF Fresh
<1>8. Framed(c)'
  <2>1. FrameBuffer' = FrameBuffer
    BY <1>1 DEF FrameBuffer, OldSize
  <2>2. Framed(a)
    BY <1>2, <1>3 DEF Matches
  <2> QED BY <1>1, <1>4, <1>6, <2>1, <2>2 DEF Framed
<1>9. Matches(t, c)'
  <2>1. ~overtaken /\ owner = t => \A p \in c.fresh : Fresh(p)'
    BY <1>2, <1>4, <1>7 DEF Matches
  <2>2. ~overtaken' /\ latch'[t] # None => latch'[t] = Current'
    BY <1>1, <1>2 DEF Matches, Current
  <2> QED BY <1>1, <1>2, <1>3, <1>4, <1>8, <2>1, <2>2, Names DEF Matches, Holds
<1>10. Stands(t)'
  BY <1>2, <1>5, <1>9 DEF Stands
<1>11. \A u \in Threads \ {t} : Stands(u)'
  BY <1>1, <1>3, <1>5, <1>6, OthersKeep
<1>12. Rest'
  BY <1>1, <1>7 DEF BaseInv, Rest
<1> QED BY <1>6, <1>10, <1>11, <1>12, BothStand

LEMMA AdoptStands ==
  ASSUME ModeTypeOK, BaseInv, NEW t \in Threads, Adopt(t)
  PROVE  BaseInv' /\ shared' \in [frame : Nat, mode : Modes, start : Nat, pitch : Nat,
                                  dpms : DpmsModes]
<1> DEFINE x == Head(todo[t])
<1>0. PICK mode : mode = x.arg
  OBVIOUS
<1>1. /\ ~Idle(t) /\ Done(t) /\ owner' = owner /\ latch' = latch
      /\ shared' = [shared EXCEPT !.mode = mode, !.pitch = mode.pitch, !.start = 0]
      /\ lost' = lost /\ ~overtaken' /\ memory' = memory /\ regs' = regs /\ x.op = "adopt"
  BY <1>0 DEF Adopt, At, Arg
<1>2. PICK a \in Stages, b \in Stages, c \in Stages :
           /\ Matches(t, a) /\ Turn(a, x, c)
           /\ Play(Tail(todo[t]), c, b) /\ Ends(b)
  BY <1>1, StageNext
<1>3. /\ c = [a EXCEPT !.pitch = {}, !.next = {}, !.fresh = {}] /\ a \in StageType /\ Holds(a)
      /\ t = Server /\ mode \in Modes /\ a.pitch = {mode} /\ a.next = {mode}
  BY <1>0, <1>1, <1>2, StageHas, ServerOnly, NextOp, OpArgs DEF Turn
<1>4. /\ c.phase = a.phase /\ ~c.latched /\ c.fresh = {} /\ c.pitch = {}
      /\ c.next = {} /\ c.freed = a.freed /\ owner = t /\ latch[t] = None
  BY <1>2, <1>3 DEF StageType, Holds, Matches
<1>5. todo'[t] = Tail(todo[t]) /\ \A u \in Threads \ {t} : todo'[u] = todo[u]
  BY <1>1, Goes
<1>6. /\ shared' \in [frame : Nat, mode : Modes, start : Nat, pitch : Nat, dpms : DpmsModes]
      /\ shared'.frame = shared.frame /\ shared'.mode = mode /\ shared'.pitch = mode.pitch
  <2>1. mode.pitch \in Nat
    BY <1>3, ModesAssumption
  <2> QED BY <1>1, <1>3, <2>1 DEF ModeTypeOK
<1>7. Framed(c)'
  <2>1. Framed(a)
    BY <1>2, <1>3 DEF Matches
  <2>2. \A p \in Based : regs'[p].pitch = shared'.pitch
    BY <1>1, <1>3, <1>6, <2>1 DEF Framed
  <2>3. FrameBuffer' = [base |-> shared.frame, size |-> Size(mode), owner |-> "frame"]
    <3>1. mode.pitch \in Nat /\ mode.height \in Nat
      BY <1>3, ModesAssumption
    <3> DEFINE y == mode.pitch
               z == mode.height
    <3>2. y \in Nat /\ z \in Nat => y * z = z * y
      <4> HIDE DEF y, z
      <4> QED OBVIOUS
    <3>3. Size(mode) = mode.height * mode.pitch
      BY <3>1, <3>2 DEF Size
    <3>4. OldSize' = mode.height * mode.pitch
      BY <1>6 DEF OldSize
    <3> QED BY <1>6, <3>3, <3>4 DEF FrameBuffer
  <2>4. FrameBuffer' \in memory'
    BY <1>1, <1>3, <2>1, <2>3 DEF Framed
  <2> QED BY <1>4, <2>2, <2>4 DEF Framed
<1>8. Matches(t, c)'
  BY <1>1, <1>2, <1>3, <1>4, <1>7, Names DEF Matches, Holds
<1>9. Stands(t)'
  BY <1>2, <1>5, <1>8 DEF Stands
<1>10. ASSUME NEW u \in Threads, u # t
       PROVE  Stands(u)'
  <2>1. PICK e \in Stages, f \in Stages : Matches(u, e) /\ Play(todo[u], e, f) /\ Ends(f)
    BY DEF BaseInv, Stands
  <2>2. owner # u /\ u = Clone /\ u # Server
    BY <1>3, <1>4, <1>10, Names
  <2>3. latch[u] = None
    BY <2>2, LatchedIs
  <2>4. Matches(u, e)'
    BY <1>1, <2>1, <2>2, <2>3 DEF Matches
  <2> QED BY <1>5, <1>10, <2>1, <2>4 DEF Stands
<1>11. Rest'
  BY <1>1, <1>4, Names DEF Rest
<1> QED BY <1>6, <1>9, <1>10, <1>11, BothStand

\* Nothing runs on after an allocation or a move.
LEMMA TurnEnds ==
  ASSUME NEW s \in Seq(Ops), NEW a, NEW b, Play(s, a, b), a.phase = "over"
  PROVE  s = <<>>
<1> SUFFICES ASSUME s # <<>>
             PROVE  FALSE
  OBVIOUS
<1>1. a \in Stages /\ \E c \in Stages : <<a, c>> \in Turns[s[1]]
  BY RunsTail DEF Play
<1>2. s[1] \in Ops
  OBVIOUS
<1>3. PICK c \in Stages : Turn(a, s[1], c)
  BY <1>1, <1>2, TurnIs
<1> QED BY <1>3 DEF Turn

\* The stage of the holder once its program is decided.
LEMMA StageAnew ==
  ASSUME NEW a \in Stages, Holds(a), NEW X, X \subseteq Based, NEW Y, Y \subseteq Modes
  PROVE  \E e \in Stages : /\ Holds(e) /\ e.phase = "holding" /\ ~e.latched
                           /\ e.fresh = X /\ e.next = Y /\ ~e.freed /\ e.pitch = a.pitch
<1> DEFINE e == [a EXCEPT !.fresh = X, !.next = Y, !.freed = FALSE]
<1>1. a \in StageType
  BY StageHas
<1>2. /\ e \in StageType /\ e.phase = a.phase /\ e.latched = a.latched
      /\ e.fresh = X /\ e.next = Y /\ ~e.freed /\ e.pitch = a.pitch
  BY <1>1 DEF StageType
<1> HIDE DEF e
<1>3. e \in Stages
  BY <1>2, StageIs DEF Holds
<1> QED BY <1>2, <1>3 DEF Holds

LEMMA GapIs ==
  ASSUME NEW size, size \in Nat, NEW base \in Gaps(size)
  PROVE  base \in Nat
BY MemoryAssumption DEF Gaps

LEMMA SizeType ==
  /\ \A mode \in Modes : Size(mode) \in Nat
  /\ ModeTypeOK => OldSize \in Nat
<1>1. \A y, z : y \in Nat /\ z \in Nat => y * z \in Nat
  OBVIOUS
<1>2. \A mode \in Modes : mode.pitch \in Nat /\ mode.height \in Nat
  BY ModesAssumption
<1>3. ModeTypeOK => shared.mode.height \in Nat /\ shared.pitch \in Nat
  BY <1>2 DEF ModeTypeOK
<1>4. \A mode \in Modes : Size(mode) \in Nat
  BY Zenon, <1>1, <1>2 DEF Size
<1>5. ModeTypeOK => OldSize \in Nat
  BY Zenon, <1>1, <1>3 DEF OldSize
<1> QED BY <1>4, <1>5

LEMMA AllocateStands ==
  ASSUME ModeTypeOK, ShowInv, BaseInv, NEW t \in Threads, Allocate(t)
  PROVE  /\ BaseInv'
         /\ shared' \in [frame : Nat, mode : Modes, start : Nat, pitch : Nat, dpms : DpmsModes]
         /\ memory' \subseteq [base : Nat, size : Nat, owner : {"frame", "other"}]
<1> DEFINE x == Head(todo[t])
<1>0. PICK mode : mode = Arg(t)
  OBVIOUS
<1>1. /\ ~Idle(t) /\ owner' = owner /\ latch' = latch /\ ~lost' /\ overtaken' = overtaken
      /\ regs' = regs /\ x.op = "allocate" /\ Then(t, AfterMemory(mode)) /\ At(t, "allocate")
  BY <1>0 DEF Allocate, At
<1>2. PICK base \in Gaps(Size(mode)) :
        /\ memory' = memory \cup {[base |-> base, size |-> Size(mode), owner |-> "frame"]}
        /\ shared' = [shared EXCEPT !.frame = base]
  BY <1>0 DEF Allocate, Allocated
<1>3. /\ t = Server /\ Off(machine, Now) /\ mode \in Modes
      /\ \A s \in Seq(Ops) : Then(t, s) => todo'[Server] = s
  BY <1>0, <1>1, AtAllocate
<1>4. PICK a \in Stages, b \in Stages, c \in Stages :
           /\ Matches(t, a) /\ Turn(a, x, c)
           /\ Play(Tail(todo[t]), c, b) /\ Ends(b)
  BY <1>1, StageNext
<1>5. Holds(a) /\ a.pitch = {} /\ owner = t /\ latch[t] = None
  BY <1>1, <1>4 DEF Turn, Matches, Holds
<1>6. PICK e \in Stages :
      /\ Holds(e) /\ e.phase = "holding" /\ ~e.latched
      /\ e.fresh = {} /\ e.next = {mode} /\ ~e.freed /\ e.pitch = {}
  <2>1. PICK none, new : none = {} /\ new = {mode}
    OBVIOUS
  <2>2. none \subseteq Based /\ new \subseteq Modes
    BY <1>3, <2>1
  <2>3. \E e \in Stages : /\ Holds(e) /\ e.phase = "holding" /\ ~e.latched
                          /\ e.fresh = none /\ e.next = new /\ ~e.freed /\ e.pitch = a.pitch
    BY <1>5, <2>2, StageAnew
  <2> QED BY <1>5, <2>1, <2>3
<1>7. machine \in Machines /\ shared.dpms \in DpmsModes /\ Now \in Scenes(machine) /\ ~Now.over
  BY NowIs DEF ModeTypeOK
<1>8. PICK f \in Stages : f.phase = "done" /\ ~f.latched /\ Play(AfterMemory(mode), e, f)
  BY <1>3, <1>6, <1>7, PlayAfterMemory
<1>9. AfterMemory(mode) \in Seq(Ops)
  BY <1>3, <1>7, AfterMemoryRuns
<1>10. todo'[t] = AfterMemory(mode) /\ \A u \in Threads \ {t} : todo'[u] = todo[u]
  BY <1>1, <1>3, <1>9, Goes
<1>11. base \in Nat /\ Size(mode) \in Nat
  BY <1>3, GapIs, SizeType
<1>12. /\ shared' \in [frame : Nat, mode : Modes, start : Nat, pitch : Nat, dpms : DpmsModes]
       /\ shared'.frame = base /\ shared'.pitch = shared.pitch
       /\ memory' \subseteq [base : Nat, size : Nat, owner : {"frame", "other"}]
  <2>1. /\ memory \subseteq [base : Nat, size : Nat, owner : {"frame", "other"}]
        /\ shared \in [frame : Nat, mode : Modes, start : Nat, pitch : Nat, dpms : DpmsModes]
    BY DEF ModeTypeOK
  <2>2. memory' \subseteq [base : Nat, size : Nat, owner : {"frame", "other"}]
    BY <1>2, <1>11, <2>1
  <2>3. /\ shared' \in [frame : Nat, mode : Modes, start : Nat, pitch : Nat, dpms : DpmsModes]
        /\ shared'.frame = base /\ shared'.pitch = shared.pitch
    BY <1>2, <1>11, <2>1
  <2> QED BY <2>2, <2>3
<1>13. Framed(e)'
  <2>1. \A p \in Based : regs'[p].pitch = shared'.pitch
    BY <1>1, <1>3, <1>4, <1>5, <1>12 DEF Matches, Framed
  <2>2. [base |-> shared'.frame, size |-> Size(mode), owner |-> "frame"] \in memory'
    BY <1>2, <1>12
  <2> QED BY <1>6, <2>1, <2>2 DEF Framed
<1>14. Matches(t, e)'
  BY <1>1, <1>3, <1>5, <1>6, <1>13, Names DEF Matches
<1>15. Stands(t)'
  BY <1>6, <1>8, <1>10, <1>14 DEF Stands, Ends
<1>16. \A u \in Threads \ {t} : Stands(u)'
  BY <1>1, <1>3, <1>5, <1>10, OthersKeep
<1>17. Rest'
  BY <1>1, <1>5, Names DEF Rest
<1> QED BY <1>12, <1>15, <1>16, <1>17, BothStand

LEMMA RestoreStands ==
  ASSUME ModeTypeOK, ShowInv, BaseInv, NEW t \in Threads, Restore(t)
  PROVE  /\ BaseInv'
         /\ shared' \in [frame : Nat, mode : Modes, start : Nat, pitch : Nat, dpms : DpmsModes]
         /\ memory' \subseteq [base : Nat, size : Nat, owner : {"frame", "other"}]
<1> DEFINE x == Head(todo[t])
<1>1. /\ ~Idle(t) /\ owner' = owner /\ latch' = latch /\ overtaken' = overtaken
      /\ regs' = regs /\ x.op = "allocate" /\ At(t, "allocate")
  BY DEF Restore, At
<1>2. /\ t = Server
      /\ \A s \in Seq(Ops) : Then(t, s) => todo'[Server] = s
  BY <1>1, AtAllocate
<1>3. PICK a \in Stages, b \in Stages, c \in Stages :
           /\ Matches(t, a) /\ Turn(a, x, c)
           /\ Play(Tail(todo[t]), c, b) /\ Ends(b)
  BY <1>1, StageNext
<1>4. Holds(a) /\ a.pitch = {} /\ a.next = {} /\ a.fresh = Based /\ owner = t /\ latch[t] = None
  BY <1>1, <1>3 DEF Turn, Matches, Holds
<1>5. /\ AfterRestore = AfterMove /\ AfterMove \in Seq(Ops) /\ <<Do("unlock")>> \in Seq(Ops)
  <2>1. AfterMove \in Seq(Ops)
    BY AfterMoveType, OpsHave, SeqHas
  <2> DEFINE u == Do("unlock")
  <2>2. u \in Ops
    BY DoType, OpsHave
  <2> HIDE DEF u
  <2>3. <<u>> \in Seq(Ops)
    BY <2>2
  <2> QED BY <2>1, <2>3, AfterMoveType DEF u
<1>6. ASSUME NEW e \in Stages, Holds(e), e.phase = "holding", ~e.latched, e.pitch = {}, e.next = {},
             ~e.freed, NEW s \in Seq(Ops), Then(t, s),
             ~overtaken => \A p \in e.fresh : Fresh(p)',
             Framed(e)', shared' = shared \/ owner = t,
             \E f \in Stages : f.phase = "done" /\ ~f.latched /\ Play(s, e, f)
      PROVE  BaseInv'
  <2>1. todo'[t] = s /\ \A u \in Threads \ {t} : todo'[u] = todo[u]
    BY <1>1, <1>2, <1>6, Goes
  <2>2. Matches(t, e)'
    BY <1>1, <1>2, <1>4, <1>6, Names DEF Matches
  <2>3. Stands(t)'
    BY <1>6, <2>1, <2>2 DEF Stands, Ends
  <2>4. \A u \in Threads \ {t} : Stands(u)'
    BY <1>1, <1>2, <1>6, <2>1, OthersKeep
  <2>5. Rest'
    BY <1>1, <1>4, Names DEF Rest
  <2> QED BY <2>3, <2>4, <2>5, BothStand
<1>7. CASE Then(t, AfterRestore) /\ lost' = FALSE /\ \E base \in Gaps(OldSize) : Allocated(base, OldSize)
  <2>1. PICK base \in Gaps(OldSize) :
        /\ memory' = memory \cup {[base |-> base, size |-> OldSize, owner |-> "frame"]}
        /\ shared' = [shared EXCEPT !.frame = base]
    BY <1>7 DEF Allocated
  <2>2. PICK e \in Stages :
        /\ Holds(e) /\ e.phase = "holding" /\ ~e.latched
        /\ e.fresh = {} /\ e.next = {} /\ ~e.freed /\ e.pitch = {}
    <3>1. PICK none, new : none = {} /\ new = {}
      OBVIOUS
    <3>2. none \subseteq Based /\ new \subseteq Modes
      BY <3>1
    <3>3. \E e \in Stages : /\ Holds(e) /\ e.phase = "holding" /\ ~e.latched
                            /\ e.fresh = none /\ e.next = new /\ ~e.freed /\ e.pitch = a.pitch
      BY <1>4, <3>2, StageAnew
    <3> QED BY <1>4, <3>1, <3>3
  <2>3. base \in Nat /\ OldSize \in Nat
    BY GapIs, SizeType
  <2>4. /\ shared' \in [frame : Nat, mode : Modes, start : Nat, pitch : Nat, dpms : DpmsModes]
        /\ shared'.frame = base /\ shared'.pitch = shared.pitch /\ shared'.mode = shared.mode
        /\ memory' \subseteq [base : Nat, size : Nat, owner : {"frame", "other"}]
    <3>1. /\ memory \subseteq [base : Nat, size : Nat, owner : {"frame", "other"}]
          /\ shared \in [frame : Nat, mode : Modes, start : Nat, pitch : Nat, dpms : DpmsModes]
      BY DEF ModeTypeOK
    <3>2. PICK size : size = OldSize
      OBVIOUS
    <3>3. memory' \subseteq [base : Nat, size : Nat, owner : {"frame", "other"}]
      BY <2>1, <2>3, <3>1, <3>2
    <3>4. /\ shared' \in [frame : Nat, mode : Modes, start : Nat, pitch : Nat, dpms : DpmsModes]
          /\ shared'.frame = base /\ shared'.pitch = shared.pitch /\ shared'.mode = shared.mode
      BY <2>1, <2>3, <3>1
    <3> QED BY <3>3, <3>4
  <2>5. Framed(e)'
    <3>1. \A p \in Based : regs'[p].pitch = shared'.pitch
      BY <1>1, <1>2, <1>3, <1>4, <2>4 DEF Matches, Framed
    <3>2. OldSize' = OldSize
      BY <2>4 DEF OldSize
    <3>3. FrameBuffer' = [base |-> base, size |-> OldSize, owner |-> "frame"]
      BY <2>4, <3>2 DEF FrameBuffer
    <3>4. FrameBuffer' \in memory'
      BY <2>1, <3>3
    <3> QED BY <2>2, <3>1, <3>4 DEF Framed
  <2>6. \E f \in Stages : f.phase = "done" /\ ~f.latched /\ Play(AfterMove, e, f)
    BY <2>2, PlayAfterMove
  <2>7. BaseInv'
    BY <1>4, <1>5, <1>6, <1>7, <2>2, <2>5, <2>6
  <2> QED BY <2>4, <2>7
<1>8. CASE Then(t, <<Do("unlock")>>) /\ lost' = TRUE /\ memory' = memory /\ shared' = shared
  <2> DEFINE r == <<Do("unlock")>>
  <2>1. PICK e \in Stages :
        /\ Holds(e) /\ e.phase = "holding" /\ ~e.latched
        /\ e.fresh = Based /\ e.next = {} /\ ~e.freed /\ e.pitch = {}
    <3>1. {} \subseteq Based /\ {} \subseteq Modes /\ Based \subseteq Based
      OBVIOUS
    <3> QED BY <1>4, <3>1, StageAnew
  <2>2. Framed(e)'
    BY <1>1, <1>2, <1>3, <1>4, <1>8, <2>1 DEF Matches, Framed
  <2>3. \E f \in Stages : f.phase = "done" /\ ~f.latched /\ Play(r, e, f)
    BY <2>1, PlayGiveBack DEF Settled
  <2>4. ~overtaken => \A p \in e.fresh : Fresh(p)'
    BY <1>1, <1>3, <1>4, <1>8, <2>1 DEF Matches, Fresh, Current
  <2>5. r \in Seq(Ops) /\ Then(t, r)
    BY <1>5, <1>8
  <2> HIDE DEF r
  <2>6. BaseInv'
    BY <1>6, <1>8, <2>1, <2>2, <2>3, <2>4, <2>5
  <2> QED BY <1>8, <2>6 DEF ModeTypeOK
<1> QED BY <1>7, <1>8 DEF Restore

LEMMA MoveStands ==
  ASSUME ModeTypeOK, BaseInv, NEW t \in Threads, MoveStart(t)
  PROVE  /\ BaseInv'
         /\ shared' \in [frame : Nat, mode : Modes, start : Nat, pitch : Nat, dpms : DpmsModes]
         /\ todo' \in [Threads -> Seq(Ops)] /\ todo'[Clone] \in Seq(MoveSteps)
<1> DEFINE x == Head(todo[t])
<1>0. PICK start : start = Arg(t)
  OBVIOUS
<1>1. /\ ~Idle(t) /\ owner' = owner /\ latch' = latch /\ overtaken' = overtaken
      /\ regs' = regs /\ memory' = memory /\ lost' = lost /\ x.op = "move" /\ x.arg = start
  BY <1>0 DEF MoveStart, At, Arg
<1>2. PICK a \in Stages, b \in Stages, c \in Stages :
           /\ Matches(t, a) /\ Turn(a, x, c)
           /\ Play(Tail(todo[t]), c, b) /\ Ends(b)
  BY <1>1, StageNext
<1>3. Holds(a) /\ Settled(a) /\ owner = t /\ latch[t] = None /\ c = [a EXCEPT !.phase = "over"]
  BY <1>1, <1>2 DEF Turn, Matches, Holds
<1>4. c.phase = "over" /\ start \in Nat
  <2>1. a \in StageType
    BY StageHas
  <2>2. start \in Nat
    BY <1>1, NextOp, OpArgs
  <2> QED BY <1>3, <2>1, <2>2 DEF StageType
<1>5. Tail(todo[t]) = <<>>
  BY <1>1, <1>2, <1>4, NextOp, TurnEnds
<1>6. AfterMove \in Seq(MoveSteps) /\ <<Do("unlock")>> \in Seq(MoveSteps)
  <2> DEFINE u == Do("unlock")
  <2>2. u \in MoveSteps
    BY DoType, OpsHave
  <2> HIDE DEF u
  <2>3. <<u>> \in Seq(MoveSteps)
    BY <2>2
  <2> QED BY <2>3, AfterMoveType DEF u
<1>7. \A s \in Seq(MoveSteps) : s \in Seq(Ops)
  BY OpsHave, SeqHas
<1>8. ASSUME NEW e \in Stages, Holds(e), e.phase = "holding", ~e.latched, e.pitch = {}, e.next = {},
             ~e.freed, NEW s \in Seq(MoveSteps), Then(t, s),
             ~overtaken => \A p \in e.fresh : Fresh(p)', Framed(a) => Framed(e)',
             \E f \in Stages : f.phase = "done" /\ ~f.latched /\ Play(s, e, f),
             \A h \in Stages : Framed(h) => Framed(h)'
      PROVE  BaseInv' /\ todo' \in [Threads -> Seq(Ops)] /\ todo'[Clone] \in Seq(MoveSteps)
  <2>0. s \in Seq(Ops)
    BY <1>7
  <2>1. todo'[t] = s /\ \A u \in Threads \ {t} : todo'[u] = todo[u]
    <3>1. todo'[t] = s \o <<>> /\ \A u \in Threads \ {t} : todo'[u] = todo[u]
      BY <1>1, <1>5, <1>8, <2>0, Goes
    <3>2. s \o <<>> = s
      OBVIOUS
    <3> QED BY <3>1, <3>2
  <2>2. Matches(t, e)'
    BY <1>1, <1>2, <1>3, <1>8, Names DEF Matches
  <2>3. Stands(t)'
    BY <1>8, <2>1, <2>2 DEF Stands, Ends
  <2>4. \A u \in Threads \ {t} : Stands(u)'
    BY <1>1, <1>3, <1>8, <2>1, OthersKeep
  <2>5. Rest'
    BY <1>1, <1>3, Names DEF Rest
  <2>6. todo' \in [Threads -> Seq(Ops)] /\ todo'[Clone] \in Seq(MoveSteps)
    BY <1>1, <1>8, <2>0, TodoType
  <2> QED BY <2>3, <2>4, <2>5, <2>6, BothStand
<1>9. /\ shared' \in [frame : Nat, mode : Modes, start : Nat, pitch : Nat, dpms : DpmsModes]
      /\ shared'.frame = shared.frame /\ shared'.pitch = shared.pitch /\ shared'.mode = shared.mode
  BY <1>0, <1>4 DEF MoveStart, ModeTypeOK
<1>10. FrameBuffer' = FrameBuffer
  BY <1>9 DEF FrameBuffer, OldSize
<1>11. \A h : Framed(h) => Framed(h)'
  BY <1>1, <1>9, <1>10 DEF Framed
<1>12. CASE Then(t, <<Do("unlock")>>) /\ shared' = shared
  <2> DEFINE r == <<Do("unlock")>>
  <2>1. /\ \E f \in Stages : f.phase = "done" /\ ~f.latched /\ Play(r, a, f)
        /\ r \in Seq(MoveSteps) /\ Then(t, r)
    BY <1>3, <1>6, <1>12, PlayGiveBack
  <2>2. ~overtaken => \A p \in a.fresh : Fresh(p)'
    BY <1>1, <1>2, <1>3, <1>12 DEF Matches, Fresh, Current
  <2> HIDE DEF r
  <2> QED BY <1>3, <1>8, <1>9, <1>11, <2>1, <2>2 DEF Holds, Settled
<1>13. CASE Then(t, AfterMove)
  <2>1. PICK e \in Stages :
        /\ Holds(e) /\ e.phase = "holding" /\ ~e.latched
        /\ e.fresh = {} /\ e.next = {} /\ ~e.freed /\ e.pitch = a.pitch
    <3>1. PICK none, new : none = {} /\ new = {}
      OBVIOUS
    <3>2. none \subseteq Based /\ new \subseteq Modes
      BY <3>1
    <3>3. \E e \in Stages : /\ Holds(e) /\ e.phase = "holding" /\ ~e.latched
                            /\ e.fresh = none /\ e.next = new /\ ~e.freed /\ e.pitch = a.pitch
      BY <1>3, <3>2, StageAnew
    <3> QED BY <1>3, <3>1, <3>3
  <2>2. a.pitch = {} /\ a.next = {} /\ ~a.freed
    BY <1>3 DEF Settled
  <2>3. Framed(a) => Framed(e)'
    <3>1. Framed(a) => Framed(e)
      BY <2>1, <2>2 DEF Framed
    <3> QED BY <1>11, <3>1
  <2>4. \E f \in Stages : f.phase = "done" /\ ~f.latched /\ Play(AfterMove, e, f)
    BY <2>1, <2>2, PlayAfterMove
  <2> QED BY <1>6, <1>8, <1>9, <1>11, <1>13, <2>1, <2>2, <2>3, <2>4
<1> QED BY <1>12, <1>13 DEF MoveStart

-----------------------------------------------------------------------------
\* A call begins, where the stages of the caller before and after know as much.
LEMMA BeginStands ==
  ASSUME ModeTypeOK, BaseInv, NEW t \in Threads, NEW s, Begin(t, s),
         shared'.frame = shared.frame, shared'.start = shared.start,
         shared'.pitch = shared.pitch, shared'.mode = shared.mode,
         ~overtaken' => ~overtaken,
         t = Clone /\ ~overtaken' => Idle(Server) \/ owner = Server
                                     \/ Head(todo[Server]).op = "lock",
         NEW phase \in {"waiting", "free"},
         phase = "free" => t = Server /\ (~overtaken' => Idle(Clone)),
         \A a \in Stages : a.phase = phase /\ ~a.latched
            => \E b \in Stages : Play(s, a, b) /\ Ends(b)
  PROVE  BaseInv'
<1>1. /\ todo'[t] = s /\ \A u \in Threads \ {t} : todo'[u] = todo[u]
      /\ regs' = regs /\ Idle(t)
  BY Begins
<1>2. owner' = owner /\ latch' = latch /\ lost' = lost /\ memory' = memory
  BY DEF Begin
<1>3. Current' = Current /\ FrameBuffer' = FrameBuffer
  BY DEF Current, FrameBuffer, OldSize
<1>4. \A p \in Based : Fresh(p)' <=> Fresh(p)
  BY <1>1, <1>3 DEF Fresh
<1>5. \A a : Framed(a) => Framed(a)'
  BY <1>1, <1>2, <1>3 DEF Framed
<1>6. PICK a \in Stages : /\ Matches(t, a) /\ a.phase \in {"done", "free"} /\ Settled(a)
                          /\ ~a.latched
  BY <1>1, StageIdle
<1> DEFINE e == [a EXCEPT !.phase = phase]
<1>7. /\ e \in Stages /\ e.phase = phase /\ ~e.latched /\ e.fresh = a.fresh /\ e.pitch = a.pitch
      /\ e.next = a.next /\ e.freed = a.freed
  <2>1. phase \in Phases
    BY DEF Phases
  <2>2. /\ e \in StageType /\ e.phase = phase /\ e.fresh = a.fresh /\ e.latched = a.latched
        /\ e.pitch = a.pitch /\ e.next = a.next /\ e.freed = a.freed
    BY <2>1, StageHas
  <2> HIDE DEF e
  <2>3. e \in Stages
    BY <1>6, <2>2, StageIs DEF Settled
  <2> QED BY <1>6, <2>2, <2>3
<1> HIDE DEF e
<1>8. Framed(a) => Framed(e)'
  <2>1. Framed(a) => Framed(e)
    BY <1>7 DEF Framed
  <2> QED BY <1>5, <2>1
<1>9. owner # t /\ latch[t] = None
  BY <1>1, IdleHas
<1>10. Matches(t, e)'
  <2>1. e.phase = "free" /\ ~Idle(t)' /\ ~overtaken' => Idle(Clone)'
    BY <1>1, <1>7, Names DEF Idle
  <2>2. t = Clone => e.phase # "free" /\ e.pitch = {} /\ e.next = {} /\ ~e.freed
    BY <1>6, <1>7, Names DEF Settled
  <2> QED BY <1>2, <1>6, <1>7, <1>8, <1>9, <2>1, <2>2 DEF Matches
<1>11. PICK b \in Stages : Play(s, e, b) /\ Ends(b)
  BY <1>7
<1>12. Stands(t)'
  BY <1>1, <1>7, <1>10, <1>11 DEF Stands
<1>13. ASSUME NEW u \in Threads, u # t
       PROVE  Stands(u)'
  <2>1. PICK g \in Stages, h \in Stages : Matches(u, g) /\ Play(todo[u], g, h) /\ Ends(h)
    BY DEF BaseInv, Stands
  <2>2. ~overtaken' /\ latch[u] # None => latch[u] = Current'
    BY <1>3, <2>1 DEF Matches
  <2>3. ~overtaken' /\ owner = u => \A p \in g.fresh : Fresh(p)'
    <3>1. g.fresh \subseteq Based
      BY StageHas DEF StageType
    <3> QED BY <1>4, <2>1, <3>1 DEF Matches
  <2>4. g.phase = "free" /\ ~Idle(u)' /\ ~overtaken' => Idle(Clone)'
    <3>1. SUFFICES ASSUME g.phase = "free", ~Idle(u)', ~overtaken'
                   PROVE  FALSE
      OBVIOUS
    <3>2. ~Idle(u) /\ u = Server /\ t = Clone
      BY <1>1, <1>13, <2>1, <3>1, Names DEF Matches, Idle
    <3>3. owner # Server
      BY <2>1, <3>1, <3>2 DEF Matches
    <3>4. Head(todo[u]).op = "lock"
      BY <3>1, <3>2, <3>3
    <3>5. PICK a1 \in Stages : Turn(g, Head(todo[u]), a1)
      <4> DEFINE r == todo[u]
      <4>1. r \in Seq(Ops) /\ r # <<>> /\ Head(r) = r[1] /\ Head(r) \in Ops
        BY <3>2, NextOp
      <4>2. Play(r, g, h)
        BY <2>1
      <4> HIDE DEF r
      <4>3. PICK a1 \in Stages : <<g, a1>> \in Turns[r[1]]
        BY <4>1, <4>2, RunsTail DEF Play
      <4> QED BY <4>1, <4>3, TurnIs DEF r
    <3> QED BY <3>1, <3>4, <3>5 DEF Turn
  <2>5. Matches(u, g)'
    BY <1>2, <1>5, <2>1, <2>2, <2>3, <2>4, Keeps DEF Matches
  <2> QED BY <1>1, <1>13, <2>1, <2>5 DEF Stands
<1>14. Rest'
  BY <1>2, <1>4 DEF BaseInv, Rest
<1> QED BY <1>12, <1>13, <1>14, BothStand

LEMMA SetModeStands ==
  ASSUME ModeTypeOK, ShowInv, BaseInv, NEW mode \in Modes, SetDisplayMode(mode)
  PROVE  BaseInv'
<1> DEFINE s == UntilMemory(mode)
<1>1. Begin(Server, s) /\ shared' = shared /\ overtaken' = overtaken
  BY DEF SetDisplayMode
<1>2. machine \in Machines /\ Now \in Scenes(machine) /\ ~Now.over
  BY NowIs DEF ModeTypeOK
<1>3. \A a \in Stages : a.phase = "waiting" /\ ~a.latched
        => \E b \in Stages : Play(s, a, b) /\ Ends(b)
  BY <1>2, PlayUntilMemory DEF Ends
<1> HIDE DEF s
<1> QED BY <1>1, <1>3, Names, BeginStands

LEMMA SetDpmsStands ==
  ASSUME ModeTypeOK, ShowInv, BaseInv, NEW dpms \in DpmsModes, SetDpmsMode(dpms)
  PROVE  BaseInv'
<1> DEFINE s == set_display_power_mode(dpms)
<1>1. Begin(Server, s) /\ (~overtaken' => ~overtaken /\ Idle(Clone))
  BY DEF SetDpmsMode
<1>2. shared'.frame = shared.frame /\ shared'.start = shared.start
      /\ shared'.pitch = shared.pitch /\ shared'.mode = shared.mode
  BY DEF SetDpmsMode, ModeTypeOK
<1>3. machine \in Machines /\ Now \in Scenes(machine) /\ ~Now.over
  BY NowIs DEF ModeTypeOK
<1>4. ASSUME NEW a \in Stages, a.phase = "free", ~a.latched
      PROVE  \E b \in Stages : Play(s, a, b) /\ Ends(b)
  <2> DEFINE b == [a EXCEPT !.fresh = Based]
  <2>1. b \in Stages /\ Play(s, a, b)
    BY <1>3, <1>4, PlayPower DEF Acts
  <2>2. b.phase = "free" /\ ~b.latched
    BY <1>4, StageHas
  <2> HIDE DEF b
  <2> QED BY <2>1, <2>2 DEF Ends
<1> HIDE DEF s
<1> QED BY <1>1, <1>2, <1>4, Names, BeginStands

LEMMA MoveBeginStands ==
  ASSUME ModeTypeOK, ShowInv, BaseInv, NEW t \in Threads, NEW start \in Nat, Move(t, start)
  PROVE  BaseInv'
<1> DEFINE s == MoveDisplay(start)
<1>1. /\ Begin(t, s) /\ shared' = shared /\ (~overtaken' => ~overtaken)
      /\ t = Clone /\ ~overtaken' => Idle(Server) \/ owner = Server
                                     \/ Head(todo[Server]).op = "lock"
  BY DEF Move
<1>2. \A a \in Stages : a.phase = "waiting" /\ ~a.latched
        => \E b \in Stages : Play(s, a, b) /\ Ends(b)
  BY PlayMoveDisplay DEF Ends
<1> HIDE DEF s
<1> QED BY <1>1, <1>2, Names, BeginStands

\* What only the memory tells apart keeps every thread's stages.
LEMMA RestStands ==
  ASSUME ModeTypeOK, BaseInv,
         shared' = shared, regs' = regs, owner' = owner, todo' = todo, latch' = latch,
         lost' = lost, overtaken' = overtaken,
         \A x \in memory : x.owner = "frame" => x \in memory'
  PROVE  BaseInv'
<1>3. (\A p \in Based : Fresh(p)' <=> Fresh(p)) /\ Current' = Current
  BY DEF Fresh, Current
<1>4. \A a \in Stages : Framed(a) => Framed(a)'
  BY FramesKeep
<1>5. ASSUME NEW u \in Threads
      PROVE  Stands(u)'
  <2>1. PICK g \in Stages, h \in Stages : Matches(u, g) /\ Play(todo[u], g, h) /\ Ends(h)
    BY DEF BaseInv, Stands
  <2>2. ~overtaken /\ owner = u => \A p \in g.fresh : Fresh(p)'
    <3>1. g.fresh \subseteq Based
      BY StageHas DEF StageType
    <3> QED BY <1>3, <2>1, <3>1 DEF Matches
  <2>3. Matches(u, g)'
    BY <1>3, <1>4, <2>1, <2>2 DEF Matches, Idle
  <2> QED BY <2>1, <2>3 DEF Stands
<1>6. Rest'
  BY <1>3 DEF BaseInv, Rest
<1> QED BY <1>5, <1>6, Names DEF BaseInv

LEMMA OthersStand ==
  ASSUME ModeTypeOK, BaseInv, OtherAllocates \/ OtherFrees
  PROVE  /\ BaseInv'
         /\ memory' \subseteq [base : Nat, size : Nat, owner : {"frame", "other"}]
<1>1. /\ shared' = shared /\ regs' = regs /\ owner' = owner /\ todo' = todo /\ latch' = latch
      /\ lost' = lost /\ overtaken' = overtaken
  BY DEF OtherAllocates, OtherFrees
<1>2. /\ \A x \in memory : x.owner = "frame" => x \in memory'
      /\ memory' \subseteq [base : Nat, size : Nat, owner : {"frame", "other"}]
  <2>0. memory \subseteq [base : Nat, size : Nat, owner : {"frame", "other"}]
    BY DEF ModeTypeOK
  <2>1. CASE OtherAllocates
    <3>1. PICK base \in Gaps(1) :
            memory' = memory \cup {[base |-> base, size |-> 1, owner |-> "other"]}
      BY <2>1 DEF OtherAllocates
    <3>2. base \in Nat
      BY GapIs
    <3> QED BY <2>0, <3>1, <3>2
  <2>2. CASE OtherFrees
    <3>1. PICK a \in memory : a.owner = "other" /\ memory' = memory \ {a}
      BY <2>2 DEF OtherFrees, Others
    <3> QED BY <2>0, <3>1
  <2> QED BY <2>1, <2>2
<1>3. BaseInv'
  BY <1>1, <1>2, RestStands
<1> QED BY <1>2, <1>3

LEMMA InitStands ==
  ASSUME Init
  PROVE  BaseInv
<1>1. PICK mode \in Modes :
       /\ memory = {[base |-> 0, size |-> Size(mode), owner |-> "frame"]}
       /\ shared = [frame |-> 0, mode |-> mode, start |-> 0,
                    pitch |-> mode.pitch, dpms |-> "on"]
       /\ \A p \in Based : regs[p].surface = 0 /\ regs[p].offset = 0 /\ regs[p].pitch = mode.pitch
  <2>1. PICK mode \in Modes :
       /\ memory = {[base |-> 0, size |-> Size(mode), owner |-> "frame"]}
       /\ shared = [frame |-> 0, mode |-> mode, start |-> 0,
                    pitch |-> mode.pitch, dpms |-> "on"]
       /\ regs = [p \in Pipes |->
                        [pipe |-> p \in Heads(machine), plane |-> p \in Planes(Heads(machine)),
                         surface |-> 0, offset |-> 0,
                         pitch |-> IF p \in Based THEN mode.pitch ELSE 0]]
    BY Zenon DEF Init, Heads, Planes
  <2>2. \A p \in Based : regs[p].surface = 0 /\ regs[p].offset = 0 /\ regs[p].pitch = mode.pitch
    BY <2>1, PlaneIs
  <2> QED BY <2>1, <2>2
<1>2. owner = None /\ todo = [t \in Threads |-> <<>>] /\ latch = [t \in Threads |-> None]
  BY DEF Init
<1>3. mode.pitch \in Nat /\ mode.height \in Nat
  BY ModesAssumption
<1>4. \A p \in Based : Fresh(p)
  <2>1. shared.start * shared.pitch = 0
    <3>1. \A y : y \in Nat => 0 * y = 0
      OBVIOUS
    <3>2. shared.start = 0 /\ shared.pitch = mode.pitch
      BY <1>1
    <3> QED BY <1>3, <3>1, <3>2
  <2>2. Current = [surface |-> 0, offset |-> 0]
    BY <1>1, <2>1 DEF Current
  <2> QED BY <1>1, <2>2 DEF Fresh
<1>5. FrameBuffer \in memory
  <2>1. OldSize = Size(mode)
    <3> DEFINE y == mode.pitch
               z == mode.height
    <3>1. y \in Nat /\ z \in Nat => y * z = z * y
      <4> HIDE DEF y, z
      <4> QED OBVIOUS
    <3>2. Size(mode) = mode.height * mode.pitch
      BY <1>3, <3>1 DEF Size
    <3>3. shared.mode = mode /\ shared.pitch = mode.pitch
      BY <1>1
    <3> QED BY <3>2, <3>3 DEF OldSize
  <2> QED BY <1>1, <2>1 DEF FrameBuffer
<1> DEFINE e == [phase |-> "done", latched |-> FALSE, fresh |-> Based, pitch |-> {},
                 next |-> {}, freed |-> FALSE]
<1>6. e \in Stages /\ e.phase = "done" /\ ~e.latched /\ e.pitch = {} /\ e.next = {} /\ ~e.freed
      /\ Ends(e)
  BY DEF Stages, StageType, Phases, Settled, Ends
<1> HIDE DEF e
<1>7. Framed(e)
  BY <1>1, <1>5, <1>6 DEF Framed
<1>8. ASSUME NEW t \in Threads
      PROVE  Stands(t)
  <2>1. Matches(t, e)
    BY <1>2, <1>6, <1>7, <1>8, Names DEF Matches
  <2>2. Play(todo[t], e, e)
    BY <1>2, <1>6, <1>8, RunsEmpty DEF Play
  <2> QED BY <1>6, <2>1, <2>2 DEF Stands
<1> QED BY <1>4, <1>8 DEF BaseInv, Rest

-----------------------------------------------------------------------------
(* The invariant is inductive. *)

LEMMA BeginTypes ==
  ASSUME ModeInv, NEW t \in Threads, NEW s \in Seq(Ops), t = Clone => s \in Seq(MoveSteps),
         Begin(t, s), shared' = shared \/ \E dpms \in DpmsModes : shared' = [shared EXCEPT !.dpms = dpms],
         dark' \in BOOLEAN, overtaken' \in BOOLEAN
  PROVE  ModeTypeOK'
<1>1. todo' \in [Threads -> Seq(Ops)] /\ todo'[Clone] \in Seq(MoveSteps)
  BY TodoType DEF ModeInv
<1>2. shared' \in [frame : Nat, mode : Modes, start : Nat, pitch : Nat, dpms : DpmsModes]
  BY DEF ModeInv, ModeTypeOK
<1> QED BY <1>1, <1>2 DEF Begin, ModeInv, ModeTypeOK

LEMMA CallKeeps ==
  ASSUME ModeInv,
         \/ \E mode \in Modes : SetDisplayMode(mode)
         \/ \E dpms \in DpmsModes : SetDpmsMode(dpms)
         \/ \E start \in 0 .. 1, t \in Threads : Move(t, start)
  PROVE  ModeInv'
<1>1. ASSUME NEW mode \in Modes, SetDisplayMode(mode)
      PROVE  ModeInv'
  <2>1. ShowInv' /\ UntilMemory(mode) \in Seq(Ops) /\ BaseInv'
    BY <1>1, SetModeShows, SetModeStands DEF ModeInv
  <2>2. ModeTypeOK'
    <3>1. /\ Begin(Server, UntilMemory(mode)) /\ shared' = shared
          /\ dark' \in BOOLEAN /\ overtaken' \in BOOLEAN
      BY <1>1 DEF SetDisplayMode, ModeInv, ModeTypeOK
    <3> QED BY <2>1, <3>1, Names, BeginTypes
  <2> QED BY <2>1, <2>2 DEF ModeInv
<1>2. ASSUME NEW dpms \in DpmsModes, SetDpmsMode(dpms)
      PROVE  ModeInv'
  <2>1. ShowInv' /\ set_display_power_mode(dpms) \in Seq(Ops) /\ BaseInv'
    BY <1>2, SetDpmsShows, SetDpmsStands DEF ModeInv
  <2>2. ModeTypeOK'
    <3>1. /\ Begin(Server, set_display_power_mode(dpms)) /\ shared' = [shared EXCEPT !.dpms = dpms]
          /\ dark' \in BOOLEAN /\ overtaken' \in BOOLEAN
      BY <1>2 DEF SetDpmsMode, ModeInv, ModeTypeOK
    <3> QED BY <2>1, <3>1, Names, BeginTypes
  <2> QED BY <2>1, <2>2 DEF ModeInv
<1>3. ASSUME NEW start \in 0 .. 1, NEW t \in Threads, Move(t, start)
      PROVE  ModeInv'
  <2>1. ShowInv' /\ MoveDisplay(start) \in Seq(MoveSteps) /\ BaseInv'
    BY <1>3, MoveBeginShows, MoveBeginStands DEF ModeInv
  <2>2. ModeTypeOK'
    <3>1. /\ Begin(t, MoveDisplay(start)) /\ shared' = shared
          /\ dark' \in BOOLEAN /\ overtaken' \in BOOLEAN
      BY <1>3 DEF Move, ModeInv, ModeTypeOK
    <3>2. MoveDisplay(start) \in Seq(Ops)
      BY <2>1, OpsHave, SeqHas
    <3> QED BY <2>1, <3>1, <3>2, BeginTypes
  <2> QED BY <2>1, <2>2 DEF ModeInv
<1> QED BY <1>1, <1>2, <1>3

LEMMA StepShows ==
  ASSUME ModeInv, NEW t \in Threads, Step(t)
  PROVE  ShowInv'
<1>0. ModeTypeOK /\ ShowInv
  BY DEF ModeInv
<1>1. CASE Lock(t) \/ Unlock(t) \/ Load(t) \/ Store(t) \/ Free(t) \/ Pitch(t) \/ Adopt(t)
  BY <1>0, <1>1, QuietShows
<1>2. CASE Enable(t) \/ Disable(t)
  BY <1>0, <1>2, EnableShows
<1>3. CASE PanelPower(t)
  BY <1>0, <1>3, PanelShows
<1>4. CASE Clock(t)
  BY <1>0, <1>4, ClockShows
<1>5. CASE Allocate(t)
  BY <1>0, <1>5, AllocateShows
<1>6. CASE Restore(t)
  BY <1>0, <1>6, RestoreShows
<1>7. CASE Power(t)
  BY <1>0, <1>7, PowerShows
<1>8. CASE MoveStart(t)
  BY <1>0, <1>8, MoveShows
<1> QED BY <1>1, <1>2, <1>3, <1>4, <1>5, <1>6, <1>7, <1>8 DEF Step

LEMMA StepStands ==
  ASSUME ModeInv, NEW t \in Threads, Step(t)
  PROVE  BaseInv'
<1>0. ModeTypeOK /\ ShowInv /\ BaseInv
  BY DEF ModeInv
<1>1. CASE Enable(t) \/ Disable(t) \/ PanelPower(t) \/ Clock(t)
  BY <1>0, <1>1, SwitchStands
<1>2. CASE Lock(t)
  BY <1>0, <1>2, LockStands
<1>3. CASE Unlock(t)
  BY <1>0, <1>3, UnlockStands
<1>4. CASE Load(t)
  BY <1>0, <1>4, LoadStands
<1>5. CASE Store(t)
  BY <1>0, <1>5, StoreStands
<1>6. CASE Free(t)
  BY <1>0, <1>6, FreeStands
<1>7. CASE Allocate(t)
  BY <1>0, <1>7, AllocateStands
<1>8. CASE Restore(t)
  BY <1>0, <1>8, RestoreStands
<1>9. CASE Power(t)
  BY <1>0, <1>9, PowerStands
<1>10. CASE Pitch(t)
  BY <1>0, <1>10, PitchStands
<1>11. CASE Adopt(t)
  BY <1>0, <1>11, AdoptStands
<1>12. CASE MoveStart(t)
  BY <1>0, <1>12, MoveStands
<1> QED BY <1>1, <1>2, <1>3, <1>4, <1>5, <1>6, <1>7, <1>8, <1>9, <1>10, <1>11, <1>12 DEF Step

LEMMA StepTodo ==
  ASSUME ModeInv, NEW t \in Threads, Step(t)
  PROVE  todo' \in [Threads -> Seq(Ops)] /\ todo'[Clone] \in Seq(MoveSteps)
<1>0. ModeTypeOK /\ ShowInv /\ BaseInv
  BY DEF ModeInv
<1>1. CASE ~Idle(t) /\ Done(t)
  <2>1. <<>> \in Seq(Ops) /\ <<>> \in Seq(MoveSteps)
    OBVIOUS
  <2> QED BY <1>0, <1>1, <2>1, TodoType
<1>2. CASE MoveStart(t)
  BY <1>0, <1>2, MoveStands
<1>3. ASSUME ~Idle(t), t = Server, NEW s \in Seq(Ops), Then(t, s)
      PROVE  todo' \in [Threads -> Seq(Ops)] /\ todo'[Clone] \in Seq(MoveSteps)
  BY <1>0, <1>3, TodoType, Names
<1>4. CASE Allocate(t)
  <2> DEFINE s == AfterMemory(Arg(t))
  <2>1. s \in Seq(Ops) /\ t = Server
    BY <1>0, <1>4, AllocateShows, AtAllocate DEF Allocate
  <2>2. Then(t, s) /\ ~Idle(t)
    BY <1>4 DEF Allocate, At
  <2> HIDE DEF s
  <2> QED BY <1>3, <2>1, <2>2
<1>5. CASE Restore(t)
  <2>1. AfterRestore \in Seq(Ops) /\ t = Server /\ ~Idle(t)
    BY <1>0, <1>5, AtAllocate, AfterMoveType, OpsHave, SeqHas DEF Restore, At
  <2> DEFINE u == Do("unlock")
  <2>2. u \in Ops
    BY DoType, OpsHave
  <2> HIDE DEF u
  <2>3. <<u>> \in Seq(Ops)
    BY <2>2
  <2>4. Then(t, AfterRestore) \/ Then(t, <<u>>)
    BY <1>5 DEF Restore, u
  <2> QED BY <1>3, <2>1, <2>3, <2>4
<1>6. CASE Power(t)
  <2> DEFINE s == set_display_power_mode(shared.dpms)
  <2>1. s \in Seq(Ops)
    BY <1>0, <1>6, PowerStands
  <2>2. Then(t, s) /\ ~Idle(t) /\ Head(todo[t]).op = "power"
    BY <1>6 DEF Power, At
  <2> HIDE DEF s
  <2>3. t = Server
    BY <1>0, <2>2, ServerOnly
  <2> QED BY <1>3, <2>1, <2>2, <2>3
<1> QED BY <1>1, <1>2, <1>4, <1>5, <1>6
        DEF Step, Lock, Unlock, Enable, Disable, SetBit, Load, Store, PanelPower, Free, Clock,
            Pitch, Adopt, At

LEMMA StepTypes ==
  ASSUME ModeInv, NEW t \in Threads, Step(t)
  PROVE  ModeTypeOK'
<1>0. ModeTypeOK /\ ShowInv /\ BaseInv
  BY DEF ModeInv
<1> DEFINE x == Head(todo[t])
           M == [base : Nat, size : Nat, owner : {"frame", "other"}]
           S == [frame : Nat, mode : Modes, start : Nat, pitch : Nat, dpms : DpmsModes]
<1>1. machine' = machine /\ ~Idle(t) /\ x \in Ops
  <2>1. machine' = machine /\ ~Idle(t)
    BY DEF Step, Lock, Unlock, Enable, Disable, SetBit, Load, Store, PanelPower, Free,
           Allocate, Restore, Clock, Power, Pitch, Adopt, MoveStart, At
  <2> QED BY <1>0, <2>1, NextOp
<1>2. memory' \subseteq M
  <2>1. memory \subseteq M
    BY <1>0 DEF ModeTypeOK
  <2>2. CASE Allocate(t) \/ Restore(t)
    BY <1>0, <2>2, AllocateStands, RestoreStands
  <2>3. CASE ~(Allocate(t) \/ Restore(t))
    <3>1. memory' \subseteq memory
      BY <2>3 DEF Step, Lock, Unlock, Enable, Disable, SetBit, Load, Store, PanelPower, Free,
           Clock, Power, Pitch, Adopt, MoveStart
    <3> QED BY <2>1, <3>1
  <2> QED BY <2>2, <2>3
<1>3. shared' \in S
  <2>1. CASE Allocate(t) \/ Restore(t) \/ Adopt(t) \/ MoveStart(t)
    BY <1>0, <2>1, AllocateStands, RestoreStands, AdoptStands, MoveStands
  <2>2. CASE ~(Allocate(t) \/ Restore(t) \/ Adopt(t) \/ MoveStart(t))
    <3>1. shared' = shared
      BY <2>2 DEF Step, Lock, Unlock, Enable, Disable, SetBit, Load, Store, PanelPower, Free,
           Clock, Power, Pitch
    <3> QED BY <1>0, <3>1 DEF ModeTypeOK
  <2> QED BY <2>1, <2>2
<1>4. regs' \in [Pipes -> Registers]
  <2>1. CASE Enable(t) \/ Disable(t)
    <3>1. PICK name \in {"pipe on", "plane on", "pipe off", "plane off"},
               field \in {"pipe", "plane"}, value \in BOOLEAN : SetBit(t, name, field, value)
      BY <2>1 DEF Enable, Disable
    <3>2. Arg(t) \in Pipes
      BY <1>1, <3>1, OpArgs DEF SetBit, At, Arg
    <3> QED BY <1>0, <3>1, <3>2, BitSet
  <2>2. CASE Store(t) \/ Pitch(t)
    BY <1>0, <2>2, StoreStands, PitchStands
  <2>3. CASE ~(Enable(t) \/ Disable(t) \/ Store(t) \/ Pitch(t))
    <3>1. regs' = regs
      BY <2>3 DEF Step, Lock, Unlock, Load, PanelPower, Free, Allocate, Restore, Clock, Power,
                  Adopt, MoveStart
    <3> QED BY <1>0, <3>1 DEF ModeTypeOK
  <2> QED BY <2>1, <2>2, <2>3
<1>9. plls' \in [Plls -> {None} \cup Settings]
  <2>1. CASE Clock(t)
    BY <1>0, <2>1, ClockShows
  <2>2. CASE ~Clock(t)
    <3>1. plls' = plls
      BY <2>2 DEF Step, Lock, Unlock, Enable, Disable, SetBit, Load, Store, PanelPower, Free,
                  Allocate, Restore, Power, Pitch, Adopt, MoveStart
    <3> QED BY <1>0, <3>1 DEF ModeTypeOK
  <2> QED BY <2>1, <2>2
<1>5. panel' \in BOOLEAN
  <2>1. CASE PanelPower(t)
    BY <1>1, <2>1, OpArgs DEF PanelPower, At, Arg
  <2>2. CASE ~PanelPower(t)
    <3>1. panel' = panel
      BY <2>2 DEF Step, Lock, Unlock, Enable, Disable, SetBit, Load, Store, Free, Allocate,
                  Restore, Clock, Power, Pitch, Adopt, MoveStart
    <3> QED BY <1>0, <3>1 DEF ModeTypeOK
  <2> QED BY <2>1, <2>2
<1>6. owner' \in Threads \cup {None}
  <2>1. owner' \in {owner, t, None}
    BY DEF Step, Lock, Unlock, Enable, Disable, SetBit, Load, Store, PanelPower, Free,
           Allocate, Restore, Clock, Power, Pitch, Adopt, MoveStart
  <2> QED BY <1>0, <2>1 DEF ModeTypeOK
<1>7. latch' \in [Threads -> {None} \cup Bases]
  <2>1. CASE Load(t) \/ Store(t)
    BY <1>0, <2>1, LoadStands, StoreStands
  <2>2. CASE ~(Load(t) \/ Store(t))
    <3>1. latch' = latch
      BY <2>2 DEF Step, Lock, Unlock, Enable, Disable, SetBit, PanelPower, Free, Allocate,
                  Restore, Clock, Power, Pitch, Adopt, MoveStart
    <3> QED BY <1>0, <3>1 DEF ModeTypeOK
  <2> QED BY <2>1, <2>2
<1>8. lost' \in BOOLEAN /\ dark' \in BOOLEAN /\ overtaken' \in BOOLEAN
  <2>1. lost \in BOOLEAN /\ dark \in BOOLEAN /\ overtaken \in BOOLEAN
    BY <1>0 DEF ModeTypeOK
  <2>2. /\ lost' = lost \/ lost' = TRUE \/ lost' = FALSE
        /\ dark' = dark \/ dark' = TRUE \/ dark' = FALSE
        /\ overtaken' = overtaken \/ overtaken' = FALSE
    BY DEF Step, Lock, Unlock, Enable, Disable, SetBit, Load, Store, PanelPower, Free,
           Allocate, Restore, Clock, Power, Pitch, Adopt, MoveStart
  <2> QED BY <2>1, <2>2
<1> QED BY <1>0, <1>1, <1>2, <1>3, <1>4, <1>5, <1>6, <1>7, <1>8, <1>9, StepTodo DEF ModeTypeOK

LEMMA NextKeeps ==
  ASSUME ModeInv, [Next]_vars
  PROVE  ModeInv'
<1>1. CASE \/ \E mode \in Modes : SetDisplayMode(mode)
           \/ \E dpms \in DpmsModes : SetDpmsMode(dpms)
           \/ \E start \in 0 .. 1, t \in Threads : Move(t, start)
  BY <1>1, CallKeeps
<1>2. ASSUME NEW t \in Threads, Step(t)
      PROVE  ModeInv'
  BY <1>2, StepShows, StepStands, StepTypes DEF ModeInv
<1>3. CASE OtherAllocates \/ OtherFrees
  <2>1. ShowInv' /\ BaseInv' /\ memory' \subseteq [base : Nat, size : Nat, owner : {"frame", "other"}]
    BY <1>3, OthersShow, OthersStand DEF ModeInv
  <2>2. ModeTypeOK'
    BY <1>3, <2>1 DEF OtherAllocates, OtherFrees, ModeInv, ModeTypeOK
  <2> QED BY <2>1, <2>2 DEF ModeInv
<1>4. CASE UNCHANGED vars
  <2>1. ModeTypeOK'
    BY <1>4 DEF vars, ModeInv, ModeTypeOK
  <2>2. Now' = Now
    BY <1>4, NowStays DEF vars
  <2>3. ShowInv'
    BY <1>4, <2>2, ShowStays DEF vars, ModeInv
  <2>4. BaseInv'
    BY <1>4, RestStands DEF vars, ModeInv
  <2> QED BY <2>1, <2>3, <2>4 DEF ModeInv
<1> QED BY <1>1, <1>2, <1>3, <1>4 DEF Next

-----------------------------------------------------------------------------
(* The theorems. *)

\* The invariant: what each thread's program does with the switches from here on ends as
\* DPMS asks, and what the programs do with the base registers and the memory ends with
\* what the shared mode says (mode.cpp:299-569, dpms.cpp:118-247, memory.cpp:21-96).
THEOREM ModeInvariance == Spec => []ModeInv
<1>1. Init => ModeInv
  BY InitShows, InitStands DEF ModeInv
<1>2. ModeInv /\ [Next]_vars => ModeInv'
  BY NextKeeps
<1> QED BY <1>1, <1>2, PTL DEF Spec

\* Types: a program is a sequence of the steps the accelerant makes, and a game's has only
\* those of a move.
THEOREM ModeTypes == Spec => []ModeTypeOK
<1>1. ModeInv => ModeTypeOK
  BY DEF ModeInv
<1> QED BY <1>1, ModeInvariance, PTL

\* No plane is enabled without a pipe of its own that runs, at any step of a mode set, of a
\* change of DPMS or of a move, and also when they are cut short (Pipe::Enable,
\* Pipe::Disable, intel_set_display_mode).
THEOREM PlanesHavePipes == Spec => []PlanesNeedPipes
<1>1. ModeInv => PlanesNeedPipes
  <2> SUFFICES ASSUME ModeInv, NEW p \in Pipes, regs[p].plane
               PROVE  \E q \in Pipes : PlaneOf(q) = p /\ regs[q].pipe
    BY DEF PlanesNeedPipes
  <2>1. /\ Now \in Scenes(machine)
        /\ \A q \in Pipes : Now.plane[q] = regs[q].plane /\ Now.pipe[q] = regs[q].pipe
    BY NowIs DEF ModeInv
  <2>2. Fed(Now)
    BY <2>1, SceneType
  <2> QED BY <2>1, <2>2 DEF Fed
<1> QED BY <1>1, ModeInvariance, PTL

\* Between two calls the planes of the ports and the panel are on exactly when DPMS says
\* so, for every list of ports and of modes and every order of the calls
\* (intel_set_display_mode, set_display_power_mode).
THEOREM LitAsDpmsAsks == Spec => []LitAsAsked
<1>1. ModeInv => LitAsAsked
  <2> SUFFICES ASSUME ModeInv, Quiet, ~dark
               PROVE  /\ \A i \in DOMAIN machine.ports :
                          (regs[PlaneOf(machine.ports[i].pipe)].plane <=> shared.dpms = "on")
                      /\ (panel <=> HasPanel /\ shared.dpms = "on")
    BY DEF LitAsAsked
  <2>1. Idle(Server)
    BY Names DEF Quiet
  <2>2. EndsLit(Now) /\ ~Now.over /\ ~Now.dark /\ Now.panel = panel
        /\ \A p \in Pipes : Now.plane[p] = regs[p].plane
    BY <2>1, IdleEnds, NowIs DEF ModeInv
  <2>3. Lit(machine, Now, shared.dpms)
    BY <2>2 DEF EndsLit
  <2>4. panel <=> Panelled(machine) /\ shared.dpms = "on"
    BY <2>2, <2>3 DEF Lit
  <2>5. ASSUME NEW i \in DOMAIN machine.ports
        PROVE  regs[PlaneOf(machine.ports[i].pipe)].plane <=> shared.dpms = "on"
    <3>1. /\ machine.ports[i].pipe \in Heads(machine)
          /\ PlaneOf(machine.ports[i].pipe) \in Pipes
      BY PortsAre, PlaneIs DEF Heads, ModeInv, ModeTypeOK
    <3> QED BY <2>2, <2>3, <3>1 DEF Lit
  <2> QED BY <2>4, <2>5, PanelIs
<1> QED BY <1>1, ModeInvariance, PTL

\* Between two calls the frame buffer of the shared mode has its memory, and unless a game
\* and the server overtook each other planes A and B, the only ones the driver bases, show
\* that buffer, from the line it was moved to, for every list of ports and of modes (intel_set_display_mode, intel_move_display, the allocator of the GTT).
THEOREM FrameBufferShown == Spec => []ShowsTheFrameBuffer
<1>1. ModeInv => ShowsTheFrameBuffer
  <2> SUFFICES ASSUME ModeInv, Quiet, ~lost
               PROVE  /\ FrameBuffer \in memory
                      /\ ~overtaken =>
                           \A p \in Based :
                             /\ regs[p].surface = shared.frame
                             /\ regs[p].pitch = shared.pitch
                             /\ regs[p].offset = shared.start * shared.pitch
    BY DEF ShowsTheFrameBuffer
  <2>1. Idle(Server) /\ Idle(Clone)
    BY Names DEF Quiet
  <2>2. owner # Server /\ owner # Clone /\ FrameBuffer \in memory
        /\ \A p \in Based : regs[p].pitch = shared.pitch
    BY <2>1, Names, IdleHas DEF ModeInv
  <2>3. owner = None
    BY <2>2, Names DEF ModeInv, ModeTypeOK
  <2>4. ~overtaken => \A p \in Based : Fresh(p)
    BY <2>3 DEF ModeInv, BaseInv, Rest
  <2> QED BY <2>2, <2>4 DEF Fresh, Current
<1> QED BY <1>1, ModeInvariance, PTL

\* Only one step programs a PLL.
LEMMA PllsStay ==
  ASSUME [Next]_vars, plls' # plls
  PROVE  \E t \in Threads : Clock(t)
BY DEF Next, Step, vars, Lock, Unlock, Enable, Disable, SetBit, Load, Store, PanelPower, Free,
       Allocate, Restore, Power, Pitch, Adopt, MoveStart, SetDisplayMode, SetDpmsMode, Move,
       Begin, OtherAllocates, OtherFrees

\* A PLL is stopped or programmed for a port only with no port's plane on, with the port's
\* pipe on exactly from generation 6 on, and with the panel off until LVDSPort has powered it
\* again; for every list of ports, also where two of them have one PLL or one plane
\* (LVDSPort::SetDisplayMode, the SetDisplayMode of the other ports, Pipe::ConfigureClocks).
THEOREM ClocksInOrder == Spec => ClocksChangeInOrder
<1>1. Init => ModeInv
  BY InitShows, InitStands DEF ModeInv
<1>2. ModeInv /\ [Next]_vars => ModeInv'
  BY NextKeeps
<1>3. ModeInv /\ [Next]_vars
        => [\A n \in Plls : plls'[n] # plls[n] =>
              LET port == plls'[n].port
              IN  /\ (regs[port.pipe].pipe <=> machine.gen >= 6)
                  /\ \A i \in DOMAIN machine.ports :
                       ~regs[PlaneOf(machine.ports[i].pipe)].plane
                  /\ panel => PanelIsBack(port)]_vars
  <2> SUFFICES ASSUME ModeInv, [Next]_vars, NEW n \in Plls, plls'[n] # plls[n],
                      NEW port, port = plls'[n].port
               PROVE  /\ (regs[port.pipe].pipe <=> machine.gen >= 6)
                      /\ \A i \in DOMAIN machine.ports :
                           ~regs[PlaneOf(machine.ports[i].pipe)].plane
                      /\ panel => PanelIsBack(port)
    OBVIOUS
  <2>1. PICK t \in Threads : Clock(t)
    BY PllsStay
  <2>2. plls'[n] \in Settings /\ Stopped(machine, Now, port)
    BY <2>1, ClockShows DEF ModeInv
  <2>3. port.pipe \in Pipes
    BY <2>2 DEF Settings, Ports
  <2>4. /\ Now.panel = panel
        /\ \A p \in Pipes : Now.plane[p] = regs[p].plane /\ Now.pipe[p] = regs[p].pipe
    BY NowIs DEF ModeInv
  <2>5. regs[port.pipe].pipe <=> machine.gen >= 6
    BY <2>2, <2>3, <2>4 DEF Stopped
  <2>6. ASSUME NEW i \in DOMAIN machine.ports
        PROVE  ~regs[PlaneOf(machine.ports[i].pipe)].plane
    <3>1. /\ machine.ports[i].pipe \in Heads(machine)
          /\ PlaneOf(machine.ports[i].pipe) \in Pipes
      BY PortsAre, PlaneIs DEF Heads, ModeInv, ModeTypeOK
    <3> QED BY <2>2, <2>4, <3>1 DEF Stopped
  <2>7. panel => PanelIsBack(port)
    BY <2>2, <2>4 DEF Stopped, Back, PanelIsBack
  <2> QED BY <2>5, <2>6, <2>7
<1> QED BY <1>1, <1>2, <1>3, PTL DEF Spec, ClocksChangeInOrder

=============================================================================
