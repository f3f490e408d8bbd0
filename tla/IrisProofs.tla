------------------------------ MODULE IrisProofs ------------------------------
(***************************************************************************)
(* What holds below Iris: of the adapter under the driver of the screen,   *)
(* for any number of threads, buffers, syncobjs and requests, and of the   *)
(* display the renderers of the OpenGL kit share above it.                 *)
(*                                                                         *)
(* SleepInv says what a thread that sleeps waits for; TableInv that both   *)
(* tables hold the same buffers at the same places, which do not overlap;  *)
(* RoomInv that the kernel kept its limits.                                *)
(***************************************************************************)
EXTENDS Winsys, GLRenderer, FiniteSetTheorems, Programs

-----------------------------------------------------------------------------
(***************************************************************************)
(* Sets and sequences.                                                     *)
(***************************************************************************)
\* Some buffers of a queue, in their order.
Distinct(queue) == \A i, j \in 1 .. Len(queue) : queue[i] = queue[j] => i = j

LEMMA FirstRemoved ==
  ASSUME NEW S, NEW queue \in Seq(S), Distinct(queue), NEW h
  PROVE  /\ RemoveFirst(queue, h) \in Seq(S) /\ Distinct(RemoveFirst(queue, h))
         /\ \A i \in 1 .. Len(RemoveFirst(queue, h)) :
              \E j \in 1 .. Len(queue) : RemoveFirst(queue, h)[i] = queue[j] /\ queue[j] # h
<1>1. CASE ~\E i \in 1 .. Len(queue) : queue[i] = h
  BY <1>1, Zenon DEF RemoveFirst
<1>2. CASE \E i \in 1 .. Len(queue) : queue[i] = h
  <2> DEFINE I == {i \in 1 .. Len(queue) : queue[i] = h}
             k == Min(I)
  <2>1. k \in I
    <3>1. I \in SUBSET Nat /\ I # {}
      BY <1>2
    <3> HIDE DEF I
    <3> QED
      BY <3>1, LeastIs
  <2>2. RemoveFirst(queue, h) = RemoveAt(queue, k)
    <3>1. SelectInSeq(queue, LAMBDA v : v = h) = k
      BY <1>2, Zenon DEF SelectInSeq
    <3> QED
      BY <1>2, <3>1, Zenon DEF RemoveFirst
  <2> HIDE DEF k
  <2>3. k \in 1 .. Len(queue) /\ queue[k] = h /\ Len(queue) \in Nat
    BY <2>1
  <2> DEFINE front == SubSeq(queue, 1, k - 1)
             back == SubSeq(queue, k + 1, Len(queue))
             rest == front \o back
  <2>4. /\ front \in Seq(S) /\ Len(front) = k - 1
        /\ \A i \in 1 .. k - 1 : front[i] = queue[i]
    BY <2>3, SubSeqProperties
  <2>5. /\ back \in Seq(S) /\ Len(back) = Len(queue) - k
        /\ \A i \in 1 .. Len(queue) - k : back[i] = queue[i + k]
    BY <2>3, SubSeqProperties
  <2> HIDE DEF front, back
  <2>6. /\ rest \in Seq(S) /\ Len(rest) = Len(queue) - 1
        /\ \A i \in 1 .. Len(rest) : rest[i] = queue[IF i < k THEN i ELSE i + 1]
    <3>1. /\ rest \in Seq(S) /\ Len(rest) = Len(front) + Len(back)
          /\ \A i \in 1 .. Len(rest) :
               rest[i] = IF i <= Len(front) THEN front[i] ELSE back[i - Len(front)]
      <4>1. front \in Seq(S) /\ back \in Seq(S)
        BY <2>4, <2>5
      <4>2. /\ front \o back \in Seq(S)
            /\ Len(front \o back) = Len(front) + Len(back)
            /\ \A i \in 1 .. Len(front) + Len(back) :
                 (front \o back)[i] = IF i <= Len(front) THEN front[i] ELSE back[i - Len(front)]
        BY <4>1, ConcatProperties, Zenon
      <4> QED
        BY <4>2, Zenon
    <3> HIDE DEF rest
    <3> QED
      BY <2>3, <2>4, <2>5, <3>1
  <2>7. RemoveFirst(queue, h) = rest
    BY <2>2, Zenon DEF RemoveAt, front, back
  <2> HIDE DEF rest
  <2>8. Distinct(rest)
    <3> SUFFICES ASSUME NEW i \in 1 .. Len(rest), NEW j \in 1 .. Len(rest), rest[i] = rest[j]
                 PROVE  i = j
      BY DEF Distinct
    <3> DEFINE from(x) == IF x < k THEN x ELSE x + 1
    <3>1. /\ from(i) \in 1 .. Len(queue) /\ rest[i] = queue[from(i)]
          /\ from(j) \in 1 .. Len(queue) /\ rest[j] = queue[from(j)]
      BY <2>3, <2>6
    <3>2. from(i) = from(j)
      <4> HIDE DEF from
      <4> QED
        BY <3>1 DEF Distinct
    <3>3. i \in Int /\ j \in Int /\ k \in Int
      BY <2>3, <2>6
    <3> QED
      BY <3>2, <3>3
  <2>9. \A i \in 1 .. Len(rest) : \E j \in 1 .. Len(queue) : rest[i] = queue[j] /\ queue[j] # h
    <3> SUFFICES ASSUME NEW i \in 1 .. Len(rest)
                 PROVE  \E j \in 1 .. Len(queue) : rest[i] = queue[j] /\ queue[j] # h
      OBVIOUS
    <3> DEFINE j == IF i < k THEN i ELSE i + 1
    <3>1. j \in 1 .. Len(queue) /\ j # k /\ rest[i] = queue[j]
      BY <2>3, <2>6
    <3> HIDE DEF j
    <3> QED
      BY <2>3, <3>1 DEF Distinct
  <2> QED
    BY <2>6, <2>7, <2>8, <2>9
<1> QED
  BY <1>1, <1>2

-----------------------------------------------------------------------------
(***************************************************************************)
(* Threads that sleep.                                                     *)
(***************************************************************************)
SyncStates == {"absent", "unsignaled", "signaled", "orphan"}

WaitCalls == [op : {"wait"}, list : WaitLists, all : BOOLEAN]
ExecCalls == [op : {"exec"}, request : Requests, next : Nat \ {0}]

Fence == [sync : Syncs, wait : BOOLEAN, signal : BOOLEAN]

LEMMA FencesAre ==
  ASSUME NEW r \in Requests, NEW i \in 1 .. Len(r.fences)
  PROVE  r.fences[i] \in Fence /\ r.fences[i].sync \in Syncs
<1>1. r.fences \in Seq(Fence)
  BY WinsysAssumption DEF Fence
<1> DEFINE list == r.fences
<1> HIDE DEF list
<1>2. \A j \in 1 .. Len(list) : list[j] \in Fence
  BY <1>1 DEF list
<1>3. \A f \in Fence : f.sync \in Syncs
  BY DEF Fence
<1> QED
  BY <1>2, <1>3 DEF list

\* What the call c waits for is not there yet, and may still come.
Pending(c) ==
  \/ c \in WaitCalls /\ ~Decided(c.list, c.all)
  \/ /\ c \in ExecCalls /\ c.next <= Len(c.request.fences)
     /\ syncs[c.request.fences[c.next].sync] = "unsignaled"

\* The fences a submission has passed were made once.
Behind(c) ==
  c \in ExecCalls => \A j \in 1 .. c.next - 1 : c.request.fences[j].sync \in 1 .. created

IsCall(c) == c # None /\ c \in WaitCalls \cup ExecCalls /\ Behind(c)

SleepInv ==
  /\ syncs \in [Syncs -> SyncStates] /\ created \in Nat
  /\ \A f \in Syncs : f > created => syncs[f] = "absent"
  /\ call = [t \in Threads |-> call[t]]
  /\ \A t \in Threads : call[t] = None \/ IsCall(call[t])
  /\ asleep \subseteq Threads
  /\ \A t \in asleep : call[t] # None /\ Pending(call[t])

\* A syncobj that is made is none that a thread waits for.
LEMMA MadeIsUnknown ==
  ASSUME SleepInv, NEW value \in {"unsignaled", "signaled"}, CreateSync(value), NEW c, Pending(c)
  PROVE  Pending(c)'
<1> DEFINE g == created + 1
<1>1. /\ g \in Syncs /\ syncs[g] = "absent" /\ syncs' = [syncs EXCEPT ![g] = value]
      /\ \A f \in Syncs : f # g => syncs'[f] = syncs[f]
  BY DEF CreateSync, SleepInv
<1> HIDE DEF g
<1>2. CASE c \in WaitCalls /\ ~Decided(c.list, c.all)
  <2>1. /\ c.list \in Seq(Syncs) /\ c.list # <<>>
    BY <1>2, WinsysAssumption DEF WaitCalls
  <2> DEFINE states == {syncs[c.list[i]] : i \in 1 .. Len(c.list)}
  <2>2. "absent" \notin states
    BY <1>2 DEF Decided
  <2>3. \A i \in 1 .. Len(c.list) : c.list[i] \in Syncs /\ c.list[i] # g
    BY <1>1, <2>1, <2>2
  <2>4. states' = states
    BY <1>1, <2>3
  <2>5. ~Decided(c.list, c.all)'
    BY <1>2, <2>4 DEF Decided
  <2> QED
    BY <1>2, <2>5 DEF Pending
<1>3. CASE /\ c \in ExecCalls /\ c.next <= Len(c.request.fences)
           /\ syncs[c.request.fences[c.next].sync] = "unsignaled"
  <2> DEFINE f == c.request.fences[c.next].sync
  <2>1. f \in Syncs
    <3>1. c.request \in Requests /\ c.next \in Nat \ {0} /\ Len(c.request.fences) \in Nat
      BY <1>3, WinsysAssumption DEF ExecCalls
    <3> QED
      BY <1>3, <3>1, FencesAre
  <2>2. syncs'[f] = "unsignaled"
    BY <1>1, <1>3, <2>1
  <2> QED
    BY <1>3, <2>2 DEF Pending
<1> QED
  BY <1>2, <1>3 DEF Pending

\* The next fence that is not passed.
LEMMA ReachedIs ==
  ASSUME SleepInv, NEW c \in ExecCalls, NEW i, i = Reached(c.request.fences, c.next),
         i <= Len(c.request.fences)
  PROVE  /\ i \in c.next .. Len(c.request.fences) /\ ~Passed(c.request.fences[i])
         /\ c.request.fences[i] \in Fence /\ c.request.fences[i].sync \in Syncs
         /\ \A j \in c.next .. i - 1 : Passed(c.request.fences[j])
<1> DEFINE list == c.request.fences
           T == {j \in c.next .. Len(list) : ~Passed(list[j])} \cup {Len(list) + 1}
<1>1. list \in Seq([sync : Syncs, wait : BOOLEAN, signal : BOOLEAN]) /\ c.next \in Nat \ {0}
  BY WinsysAssumption DEF ExecCalls
<1> HIDE DEF list
<1>2. T \in SUBSET Nat /\ T # {}
  BY <1>1
<1>3. i = Min(T)
  BY Zenon DEF Reached, list
<1>4. i \in T /\ \A j \in T : i <= j
  BY <1>2, <1>3, LeastIs
<1>5. i \in c.next .. Len(list) /\ ~Passed(list[i])
  BY <1>1, <1>4 DEF list
<1>6. i \in 1 .. Len(list) /\ c.request \in Requests
  BY <1>1, <1>5 DEF ExecCalls
<1>7. \A j \in c.next .. i - 1 : Passed(list[j])
  BY <1>1, <1>4, <1>5
<1> QED
  BY <1>5, <1>6, <1>7, FencesAre DEF list

\* A fence that exists was made.
LEMMA ExistsMeansMade ==
  ASSUME SleepInv, NEW f \in Syncs, Exists(f)
  PROVE  f \in 1 .. created
BY WinsysAssumption DEF SleepInv, Exists

LEMMA PassedMeansMade ==
  ASSUME SleepInv, NEW c \in ExecCalls, Behind(c), NEW n \in Nat,
         n <= Len(c.request.fences) + 1,
         \A j \in c.next .. n - 1 : Passed(c.request.fences[j])
  PROVE  \A j \in 1 .. n - 1 : c.request.fences[j].sync \in 1 .. created
<1> SUFFICES ASSUME NEW j \in 1 .. n - 1
             PROVE  c.request.fences[j].sync \in 1 .. created
  OBVIOUS
<1>1. c.next \in Nat \ {0} /\ c.request \in Requests
  BY DEF ExecCalls
<1>2. Len(c.request.fences) \in Nat
  BY <1>1, WinsysAssumption
<1>3. j \in 1 .. Len(c.request.fences)
  BY <1>2
<1>4. CASE j < c.next
  BY <1>1, <1>4 DEF Behind
<1>5. CASE j >= c.next
  BY <1>1, <1>3, <1>5, FencesAre, ExistsMeansMade DEF Passed
<1> QED
  BY <1>1, <1>4, <1>5

\* A thread falls asleep, or its call ends.
LEMMA SleepMoves ==
  ASSUME SleepInv, NEW t \in Threads, NEW c, IsCall(c), UNCHANGED <<syncs, created>>,
         \/ Return(t) /\ asleep' \subseteq asleep \ {t}
         \/ Sleep(t, c) /\ Pending(c)
  PROVE  SleepInv'
<1>1. \A d : (Pending(d)' <=> Pending(d)) /\ (IsCall(d)' <=> IsCall(d))
  BY DEF Pending, Decided, IsCall, Behind
<1>2. CASE Return(t) /\ asleep' \subseteq asleep \ {t}
  BY <1>1, <1>2 DEF SleepInv, Return
<1>3. CASE Sleep(t, c) /\ Pending(c)
  BY <1>1, <1>3 DEF SleepInv, Sleep, IsCall
<1> QED
  BY <1>2, <1>3

\* Everybody is told.
LEMMA SleepEnds ==
  ASSUME SleepInv, asleep' = {}, created' = created, syncs' \in [Syncs -> SyncStates],
         \A f \in Syncs : f > created => syncs'[f] = "absent",
         call' = call \/ \E t \in Threads : Return(t)
  PROVE  SleepInv'
<1>1. \A d : IsCall(d)' <=> IsCall(d)
  BY DEF IsCall, Behind
<1> QED
  BY <1>1 DEF SleepInv, Return

LEMMA SleepFrame ==
  ASSUME SleepInv, UNCHANGED <<syncs, created, call>>, asleep' \subseteq asleep
  PROVE  SleepInv'
<1>1. \A d : (Pending(d)' <=> Pending(d)) /\ (IsCall(d)' <=> IsCall(d))
  BY DEF Pending, Decided, IsCall, Behind
<1> QED
  BY <1>1 DEF SleepInv

LEMMA CallsAre == None \notin WaitCalls \cup ExecCalls
<1>1. \A c \in ExecCalls : c \in [op : {"exec"}, request : Requests, next : Nat]
  BY DEF ExecCalls
<1>2. /\ None \notin [op : {"wait"}, list : WaitLists, all : BOOLEAN]
      /\ None \notin [op : {"exec"}, request : Requests, next : Nat]
  BY WinsysAssumption
<1> QED
  BY <1>1, <1>2 DEF WaitCalls

LEMMA GoingIs ==
  ASSUME SleepInv, NEW t \in Threads, NEW c \in Going(t)
  PROVE  IsCall(c) /\ t \notin asleep
<1>0. t \notin asleep
  BY DEF Going, SleepInv
<1>1. CASE call[t] = None
  <2>1. c \in NewCalls
    BY <1>1 DEF Going
  <2>2. CASE c \in [op : {"wait"}, list : WaitLists, all : BOOLEAN]
    <3>1. c \in WaitCalls
      BY <2>2, Zenon DEF WaitCalls
    <3>2. c.op = "wait"
      BY <2>2
    <3>3. c \notin ExecCalls
      BY <3>2 DEF ExecCalls
    <3> QED
      BY <1>0, <3>1, <3>3, CallsAre, Zenon DEF IsCall, Behind
  <2>3. CASE c \in [op : {"exec"}, request : Requests, next : {1}]
    <3>1. c \in ExecCalls /\ c.next = 1
      BY <2>3 DEF ExecCalls
    <3>2. Behind(c)
      BY <3>1 DEF Behind
    <3> QED
      BY <1>0, <3>1, <3>2, CallsAre, Zenon DEF IsCall
  <2> QED
    BY <2>1, <2>2, <2>3 DEF NewCalls
<1>2. CASE call[t] # None
  BY <1>2 DEF Going, SleepInv
<1> QED
  BY <1>0, <1>1, <1>2

LEMMA WaitSleep ==
  ASSUME SleepInv, NEW t \in Threads, NEW c \in Going(t), Wait(t, c)
  PROVE  SleepInv'
<1>1. IsCall(c) /\ t \notin asleep
  BY GoingIs
<1>2. UNCHANGED <<syncs, created>>
  BY DEF Wait, fences
<1>3. CASE Return(t) /\ UNCHANGED asleep
  BY <1>1, <1>2, <1>3, SleepMoves
<1>4. CASE ~Decided(c.list, c.all) /\ Sleep(t, c)
  <2>1. c \in WaitCalls
    BY <1>1 DEF Wait, IsCall, ExecCalls
  <2> QED
    BY <1>1, <1>2, <1>4, <2>1, SleepMoves DEF Pending
<1> QED
  BY <1>3, <1>4 DEF Wait

LEMMA FenceSleep ==
  ASSUME SleepInv, NEW t \in Threads, NEW c \in Going(t), ExecFence(t, c)
  PROVE  SleepInv'
<1> DEFINE i == Reached(c.request.fences, c.next)
<1>1. IsCall(c) /\ t \notin asleep
  BY GoingIs
<1>2. UNCHANGED <<syncs, created>>
  BY DEF ExecFence, fences
<1>3. c \in ExecCalls /\ Behind(c)
  BY <1>1 DEF ExecFence, IsCall, WaitCalls
<1>4. i <= Len(c.request.fences)
  BY DEF ExecFence
<1>5. /\ i \in c.next .. Len(c.request.fences) /\ ~Passed(c.request.fences[i])
      /\ c.request.fences[i] \in Fence /\ c.request.fences[i].sync \in Syncs
      /\ \A j \in c.next .. i - 1 : Passed(c.request.fences[j])
  BY <1>3, <1>4, ReachedIs
<1>6. CASE Return(t) /\ UNCHANGED asleep
  BY <1>1, <1>2, <1>6, SleepMoves
<1>7. CASE Exists(c.request.fences[i].sync) /\ Sleep(t, [c EXCEPT !.next = i])
  <2> DEFINE d == [c EXCEPT !.next = i]
  <2>1. Sleep(t, d)
    BY <1>7
  <2>2. c.next \in Nat \ {0} /\ c.request \in Requests
    BY <1>3 DEF ExecCalls
  <2>3. i \in Nat \ {0} /\ i <= Len(c.request.fences) + 1
    BY <1>4, <1>5, <2>2
  <2> HIDE DEF i
  <2>4. d \in ExecCalls /\ d.next = i /\ d.request = c.request
    BY <1>3, <2>3 DEF ExecCalls
  <2> HIDE DEF d
  <2>5. \A j \in 1 .. i - 1 : c.request.fences[j].sync \in 1 .. created
    BY <1>3, <1>5, <2>3, PassedMeansMade
  <2>6. IsCall(d)
    BY <2>4, <2>5, CallsAre DEF IsCall, Behind
  <2>7. syncs[c.request.fences[i].sync] = "unsignaled"
    BY <1>5, <1>7 DEF Passed, Exists
  <2>8. Pending(d)
    BY <1>4, <2>4, <2>7 DEF Pending, i
  <2> QED
    BY <1>2, <2>1, <2>6, <2>8, SleepMoves
<1> QED
  BY <1>6, <1>7 DEF ExecFence

LEMMA SubmitSleep ==
  ASSUME SleepInv, NEW t \in Threads, NEW c \in Going(t), ExecSubmit(t, c)
  PROVE  SleepInv'
<1>1. IsCall(c) /\ t \notin asleep
  BY GoingIs
<1>2. Return(t) /\ created' = created
  BY DEF ExecSubmit
<1>3. c \in ExecCalls /\ Behind(c)
  BY <1>1 DEF ExecSubmit, IsCall, WaitCalls
<1>4. CASE UNCHANGED <<syncs, asleep>>
  BY <1>1, <1>2, <1>4, SleepMoves
<1>5. CASE SignalFences(c.request.fences) /\ asleep' = {}
  <2> DEFINE list == c.request.fences
             n == Len(list)
             signal == {list[i].sync : i \in {i \in 1 .. Len(list) : list[i].signal}}
  <2>1. c.next \in Nat \ {0} /\ c.request \in Requests
    BY <1>3 DEF ExecCalls
  <2>2. n \in Nat
    BY <2>1, WinsysAssumption
  <2>3. \A j \in c.next .. n : Passed(list[j])
    <3> DEFINE T == {j \in c.next .. n : ~Passed(list[j])} \cup {n + 1}
    <3>1. Reached(list, c.next) > n
      BY DEF ExecSubmit
    <3>2. T \in SUBSET Nat /\ T # {}
      BY <2>1, <2>2
    <3>3. Reached(list, c.next) = Min(T)
      BY Zenon DEF Reached
    <3>4. \A j \in T : Min(T) <= j
      BY <3>2, LeastIs
    <3> SUFFICES ASSUME NEW j \in c.next .. n, ~Passed(list[j])
                 PROVE  FALSE
      OBVIOUS
    <3>5. Min(T) <= j
      BY <3>4
    <3>6. Min(T) \in Nat
      BY <3>2, LeastIs
    <3> HIDE DEF T, list, n
    <3> QED
      BY <2>1, <2>2, <3>1, <3>3, <3>5, <3>6
  <2>4. \A j \in 1 .. n : list[j].sync \in 1 .. created
    <3> DEFINE m == n + 1
    <3>1. m \in Nat /\ m <= Len(c.request.fences) + 1
      BY <2>2
    <3>2. \A j \in c.next .. m - 1 : Passed(c.request.fences[j])
      BY <2>1, <2>2, <2>3
    <3> HIDE DEF m
    <3>3. \A j \in 1 .. m - 1 : c.request.fences[j].sync \in 1 .. created
      BY <1>3, <3>1, <3>2, PassedMeansMade
    <3>4. m - 1 = n
      BY <2>2 DEF m
    <3> QED
      BY <3>3, <3>4
  <2>5. \A f \in signal : f \in 1 .. created
    BY <2>4
  <2>6. syncs' = [f \in Syncs |-> IF f \notin signal THEN syncs[f]
                                 ELSE IF Exists(f) THEN "signaled" ELSE "orphan"]
    BY <1>5, Zenon DEF SignalFences
  <2> HIDE DEF signal, list, n
  <2>7. syncs' \in [Syncs -> SyncStates]
    BY <2>6 DEF SleepInv, SyncStates
  <2>8. \A f \in Syncs : f > created => syncs'[f] = "absent"
    <3>1. \A f \in Syncs : f > created => f \notin signal
      BY <2>5, WinsysAssumption DEF SleepInv
    <3> QED
      BY <2>6, <3>1 DEF SleepInv
  <2> QED
    BY <1>2, <1>5, <2>7, <2>8, SleepEnds
<1> QED
  BY <1>4, <1>5 DEF ExecSubmit

LEMMA SleepStep ==
  ASSUME SleepInv, [Next]_vars
  PROVE  SleepInv'
<1>1. ASSUME UNCHANGED <<fences, threads>> PROVE SleepInv'
  BY <1>1, SleepFrame DEF fences, threads, SleepInv
<1>2. ASSUME NEW pages \in Sizes, Create(pages) \/ CreateFails(pages) PROVE SleepInv'
  BY <1>1, <1>2 DEF Create, Created, CreateFails
<1>3. ASSUME NEW h \in Handles, Close(h) \/ WillNeed(h) \/ DontNeed(h) PROVE SleepInv'
  BY <1>1, <1>3 DEF Close, WillNeed, DontNeed
<1>4. ASSUME NEW value \in {"unsignaled", "signaled"}, CreateSync(value) PROVE SleepInv'
  <2>1. /\ created' = created + 1 /\ syncs' = [syncs EXCEPT ![created + 1] = value]
        /\ call' = call /\ asleep' = asleep
    BY <1>4 DEF CreateSync, threads
  <2>2. \A t \in asleep : Pending(call[t])'
    BY <1>4, <2>1, MadeIsUnknown DEF SleepInv
  <2>3. \A t \in Threads : call[t] # None => IsCall(call[t])'
    <3>1. ASSUME NEW c, IsCall(c) PROVE IsCall(c)'
      <4>1. 1 .. created \subseteq 1 .. created'
        BY <2>1 DEF SleepInv
      <4> QED
        BY <3>1, <4>1 DEF IsCall, Behind
    <3> QED
      BY <2>1, <3>1 DEF SleepInv
  <2>4. /\ syncs' \in [Syncs -> SyncStates] /\ created' \in Nat
        /\ \A f \in Syncs : f > created' => syncs'[f] = "absent"
    <3>1. Syncs \subseteq Nat /\ created \in Nat
      BY WinsysAssumption DEF SleepInv
    <3>2. \A f \in Syncs : f > created + 1 => syncs'[f] = syncs[f] /\ f > created
      BY <2>1, <3>1 DEF SleepInv
    <3>3. syncs' \in [Syncs -> SyncStates]
      BY <2>1 DEF SleepInv, SyncStates
    <3> QED
      BY <2>1, <3>1, <3>2, <3>3 DEF SleepInv
  <2> QED
    BY <2>1, <2>2, <2>3, <2>4 DEF SleepInv
<1>5. ASSUME NEW value \in {"unsignaled", "signaled"}, NEW handles \in SUBSET Syncs,
             SetSyncs(handles, value)
      PROVE  SleepInv'
  <2>1. /\ asleep' = {} /\ created' = created /\ call' = call
        /\ \A f \in handles : Exists(f)
        /\ syncs' = [f \in Syncs |-> IF f \in handles THEN value ELSE syncs[f]]
    BY <1>5 DEF SetSyncs
  <2>2. syncs' \in [Syncs -> SyncStates]
    BY <2>1 DEF SleepInv, SyncStates
  <2>3. \A f \in Syncs : f > created => syncs'[f] = "absent"
    BY <2>1 DEF SleepInv, Exists
  <2> QED
    BY <2>1, <2>2, <2>3, SleepEnds
<1>6. ASSUME NEW f \in Syncs, DestroySync(f) PROVE SleepInv'
  <2>1. asleep' = {} /\ created' = created /\ call' = call
        /\ syncs' = [syncs EXCEPT ![f] = "absent"]
    BY <1>6 DEF DestroySync
  <2>2. /\ syncs' \in [Syncs -> SyncStates]
        /\ \A g \in Syncs : g > created => syncs'[g] = "absent"
    BY <2>1 DEF SleepInv, SyncStates
  <2> QED
    BY <2>1, <2>2, SleepEnds
<1>7. ASSUME NEW t \in Threads, Wake(t) PROVE SleepInv'
  BY <1>7, SleepFrame DEF Wake, fences
<1>8. ASSUME NEW t \in Threads, NEW c \in Going(t), Wait(t, c) \/ ExecFence(t, c) \/ ExecSubmit(t, c)
      PROVE  SleepInv'
  BY <1>8, WaitSleep, FenceSleep, SubmitSleep
<1>9. CASE UNCHANGED vars
  BY <1>1, <1>9 DEF vars
<1> QED
  BY <1>2, <1>3, <1>4, <1>5, <1>6, <1>7, <1>8, <1>9 DEF Next

LEMMA InitSleep == Init => SleepInv
BY DEF Init, SleepInv, SyncStates

LEMMA SleepIsPending == SleepInv => NoLostWakeup
<1> SUFFICES ASSUME SleepInv, NEW t \in asleep
             PROVE  ~Decided(IF call[t].op = "wait" THEN call[t].list
                             ELSE <<call[t].request.fences[call[t].next].sync>>,
                             call[t].op = "wait" /\ call[t].all)
  BY Zenon DEF NoLostWakeup
<1> DEFINE c == call[t]
<1>1. Pending(c)
  BY DEF SleepInv
<1> HIDE DEF c
<1>2. CASE c \in WaitCalls /\ ~Decided(c.list, c.all)
  <2>1. c.op = "wait" /\ c.all \in BOOLEAN
    BY <1>2 DEF WaitCalls
  <2>2. (c.op = "wait" /\ c.all) = c.all
    BY <2>1
  <2> QED
    BY <1>2, <2>1, <2>2, Zenon DEF c
<1>3. CASE c \in ExecCalls /\ syncs[c.request.fences[c.next].sync] = "unsignaled"
  <2>1. c.op = "exec"
    BY <1>3 DEF ExecCalls
  <2> DEFINE list == <<c.request.fences[c.next].sync>>
  <2>2. {syncs[list[i]] : i \in 1 .. Len(list)} = {"unsignaled"}
    BY <1>3
  <2>3. ~Decided(list, FALSE)
    BY <2>2 DEF Decided
  <2>4. c.op # "wait" /\ (c.op = "wait" /\ c.all) = FALSE
    BY <2>1
  <2> QED
    BY <2>3, <2>4, Zenon DEF c
<1> QED
  BY <1>1, <1>2, <1>3 DEF Pending

-----------------------------------------------------------------------------
(***************************************************************************)
(* The two tables.                                                         *)
(***************************************************************************)
\* Of the buffers in has, and of no other, at has the addresses, and they are apart.
Apart(at, has) ==
  /\ \A h \in Handles \ has : at[h] = 0
  /\ \A g, h \in Handles :
       g # h /\ at[g] # 0 /\ at[h] # 0 => ~Meet(at[g], size[g], at[h], size[h])

KeysInv ==
  /\ given \in Nat /\ known \subseteq Handles /\ \A h \in known : h <= given
  /\ purged \subseteq known /\ kernel = known \ purged /\ retained \subseteq kernel
  /\ size \in [Handles -> Nat]

\* Buffers of has, each of them once.
IsQueue(queue, has) ==
  /\ queue \in Seq(Handles) /\ Distinct(queue)
  /\ \A i \in 1 .. Len(queue) : queue[i] \in has

PlaceInv ==
  /\ address \in [Handles -> Nat] /\ virtual = address /\ Apart(address, kernel)

TableInv == KeysInv /\ IsQueue(cache, kernel \ retained) /\ PlaceInv

LEMMA OldestLeft ==
  ASSUME NEW has, NEW queue, IsQueue(queue, has), NEW n \in 0 .. Len(queue)
  PROVE  /\ IsQueue(SubSeq(queue, n + 1, Len(queue)), has \ Oldest(queue, n))
         /\ Oldest(queue, n) \subseteq has /\ Oldest(queue, n) \subseteq Handles
<1> DEFINE rest == SubSeq(queue, n + 1, Len(queue))
<1>1. Len(queue) \in Nat /\ n \in Nat /\ queue \in Seq(Handles)
  BY DEF IsQueue
<1>2. /\ rest \in Seq(Handles) /\ Len(rest) = Len(queue) - n
      /\ \A i \in 1 .. Len(queue) - n : rest[i] = queue[i + n]
  BY <1>1, SubSeqProperties
<1> HIDE DEF rest
<1>3. Distinct(rest)
  BY <1>1, <1>2 DEF IsQueue, Distinct
<1>4. \A i \in 1 .. Len(rest) : rest[i] \in has \ Oldest(queue, n)
  BY <1>1, <1>2 DEF IsQueue, Distinct, Oldest
<1>5. Oldest(queue, n) \subseteq has /\ Oldest(queue, n) \subseteq Handles
  BY <1>1 DEF IsQueue, Oldest
<1> QED
  BY <1>2, <1>3, <1>4, <1>5 DEF IsQueue, rest

LEMMA ReclaimedIs ==
  ASSUME NEW queue \in Seq(Handles), NEW bytes, NEW count
  PROVE  Reclaimed(queue, bytes, count) \in 0 .. Len(queue)
<1> DEFINE enough == {n \in 0 .. Len(queue) : n >= count /\ SizeOf(Oldest(queue, n)) >= bytes}
           T == enough \cup {Len(queue)}
<1>1. Len(queue) \in Nat
  OBVIOUS
<1>2. T \in SUBSET (0 .. Len(queue)) /\ T \in SUBSET Nat /\ T # {}
  BY <1>1
<1>3. Reclaimed(queue, bytes, count) = IF broken THEN 0 ELSE Min(T)
  BY Zenon DEF Reclaimed
<1> HIDE DEF T
<1>4. Min(T) \in T
  BY <1>2, LeastIs
<1>5. Min(T) \in 0 .. Len(queue)
  BY <1>2, <1>4
<1>6. 0 \in 0 .. Len(queue)
  BY <1>1
<1> QED
  BY <1>3, <1>5, <1>6

\* What is left when the oldest of a queue were reclaimed; those in kept were not in it.
LEMMA ReclaimLeaves ==
  ASSUME KeysInv, PlaceInv, NEW kept, kept \subseteq kernel, NEW queue, IsQueue(queue, kernel \ kept),
         NEW n \in 0 .. Len(queue), Reclaim(queue, n), NEW left, left = kernel \ Oldest(queue, n)
  PROVE  /\ purged' \subseteq known /\ left = known \ purged' /\ kept \subseteq left
         /\ IsQueue(cache', left \ kept)
         /\ address' \in [Handles -> Nat] /\ virtual' = address' /\ Apart(address', left)
         /\ \A h \in Handles : address'[h] \in {0, address[h]}
<1> DEFINE gone == Oldest(queue, n)
<1>1. /\ IsQueue(cache', (kernel \ kept) \ gone) /\ gone \subseteq kernel \ kept
      /\ gone \subseteq Handles
  BY OldestLeft DEF Reclaim
<1>2. /\ purged' = purged \cup gone
      /\ address' = [h \in Handles |-> IF h \in gone THEN 0 ELSE address[h]]
      /\ virtual' = [h \in Handles |-> IF h \in gone THEN 0 ELSE virtual[h]]
  BY Zenon DEF Reclaim
<1> HIDE DEF gone
<1>3. left = kernel \ gone
  BY DEF gone
<1>4. (kernel \ kept) \ gone = left \ kept
  BY <1>3
<1>5. purged' \subseteq known /\ left = known \ purged' /\ kept \subseteq left
  BY <1>1, <1>2, <1>3 DEF KeysInv
<1>6. /\ address' \in [Handles -> Nat] /\ virtual' = address'
      /\ \A h \in Handles : address'[h] = IF h \in gone THEN 0 ELSE address[h]
  BY <1>2 DEF PlaceInv
<1>7. Apart(address', left)
  BY <1>3, <1>6 DEF Apart, PlaceInv
<1> QED
  BY <1>1, <1>4, <1>5, <1>6, <1>7

LEMMA CreatedTable ==
  ASSUME TableInv, NEW pages \in Sizes, NEW n \in 0 .. Len(cache), Created(pages, n)
  PROVE  TableInv'
<1> DEFINE h == given + 1
           left == kernel \ Oldest(cache, n)
<1>1. /\ h \in Handles /\ given' = h /\ known' = known \cup {h} /\ Reclaim(cache, n)
      /\ size' = [size EXCEPT ![h] = pages] /\ kernel' = left \cup {h}
      /\ retained' = retained \cup {h}
  BY DEF Created
<1>2. retained \subseteq kernel /\ IsQueue(cache, kernel \ retained) /\ KeysInv /\ PlaceInv
  BY DEF TableInv, KeysInv
<1> HIDE DEF left
<1>3. /\ purged' \subseteq known /\ left = known \ purged' /\ retained \subseteq left
      /\ IsQueue(cache', left \ retained)
      /\ address' \in [Handles -> Nat] /\ virtual' = address' /\ Apart(address', left)
      /\ \A g \in Handles : address'[g] \in {0, address[g]}
  BY <1>1, <1>2, ReclaimLeaves DEF left
<1>4. given \in Nat /\ h \in Nat /\ h \notin known /\ \A g \in known : g <= h
  BY <1>2, WinsysAssumption DEF KeysInv
<1>5. pages \in Nat
  BY WinsysAssumption
<1> HIDE DEF h
<1>6. h \notin left /\ h \notin purged'
  BY <1>3, <1>4
<1>7. KeysInv'
  <2>1. size' \in [Handles -> Nat]
    BY <1>1, <1>2, <1>5 DEF KeysInv
  <2>2. \A g \in known' : g <= given'
    BY <1>1, <1>4
  <2> QED
    BY <1>1, <1>2, <1>3, <1>4, <1>6, <2>1, <2>2 DEF KeysInv
<1>8. IsQueue(cache, kernel \ retained)'
  <2>1. left \ retained \subseteq kernel' \ retained'
    BY <1>1, <1>6
  <2> QED
    BY <1>3, <2>1 DEF IsQueue
<1>9. address'[h] = 0
  BY <1>1, <1>3, <1>6 DEF Apart
<1>10. Apart(address, kernel)'
  <2>1. \A g \in Handles : g # h => size'[g] = size[g]
    BY <1>1, <1>2 DEF KeysInv
  <2>2. \A g \in Handles \ kernel' : address'[g] = 0
    BY <1>1, <1>3 DEF Apart
  <2>3. \A g, o \in Handles : g # o /\ address'[g] # 0 /\ address'[o] # 0 =>
          ~Meet(address'[g], size'[g], address'[o], size'[o])
    BY <1>3, <1>9, <2>1 DEF Apart
  <2> QED
    BY <2>2, <2>3 DEF Apart, Meet
<1> QED
  BY <1>3, <1>7, <1>8, <1>10 DEF TableInv, PlaceInv

LEMMA CreateFailsTable ==
  ASSUME TableInv, NEW pages \in Sizes, CreateFails(pages)
  PROVE  TableInv'
<1> DEFINE n == Reclaimed(cache, pages, ReclaimBatch)
           left == kernel \ Oldest(cache, n)
<1>1. Reclaim(cache, n) /\ kernel' = left /\ UNCHANGED <<known, size, given, retained>>
  BY DEF CreateFails
<1>2. retained \subseteq kernel /\ IsQueue(cache, kernel \ retained) /\ KeysInv /\ PlaceInv
  BY DEF TableInv, KeysInv
<1>3. n \in 0 .. Len(cache)
  BY <1>2, ReclaimedIs DEF IsQueue
<1> HIDE DEF left, n
<1>4. /\ purged' \subseteq known /\ left = known \ purged' /\ retained \subseteq left
      /\ IsQueue(cache', left \ retained)
      /\ address' \in [Handles -> Nat] /\ virtual' = address' /\ Apart(address', left)
      /\ \A g \in Handles : address'[g] \in {0, address[g]}
  BY <1>1, <1>2, <1>3, ReclaimLeaves DEF left
<1>5. KeysInv'
  BY <1>1, <1>2, <1>4 DEF KeysInv
<1>6. Apart(address, kernel)'
  BY <1>1, <1>4 DEF Apart
<1> QED
  BY <1>1, <1>4, <1>5, <1>6 DEF TableInv, PlaceInv, IsQueue

LEMMA CloseTable ==
  ASSUME TableInv, NEW h \in Handles, Close(h)
  PROVE  TableInv'
<1>1. /\ known' = known \ {h} /\ purged' = purged \ {h} /\ cache' = RemoveFirst(cache, h)
      /\ address' = [address EXCEPT ![h] = 0] /\ virtual' = [virtual EXCEPT ![h] = 0]
      /\ kernel' = kernel \ {h} /\ retained' = retained \ {h} /\ UNCHANGED <<size, given>>
  BY DEF Close
<1>2. /\ cache' \in Seq(Handles) /\ Distinct(cache')
      /\ \A i \in 1 .. Len(cache') :
           \E j \in 1 .. Len(cache) : cache'[i] = cache[j] /\ cache[j] # h
  BY <1>1, FirstRemoved DEF TableInv, IsQueue
<1>3. IsQueue(cache, kernel \ retained)'
  BY <1>1, <1>2 DEF TableInv, IsQueue
<1>4. KeysInv'
  BY <1>1 DEF TableInv, KeysInv
<1>5. /\ address' \in [Handles -> Nat] /\ virtual' = address'
      /\ \A g \in Handles : address'[g] = IF g = h THEN 0 ELSE address[g]
  BY <1>1 DEF TableInv, PlaceInv
<1>6. Apart(address, kernel)'
  BY <1>1, <1>5 DEF TableInv, PlaceInv, Apart
<1> QED
  BY <1>3, <1>4, <1>5, <1>6 DEF TableInv, PlaceInv

LEMMA WillNeedTable ==
  ASSUME TableInv, NEW h \in Handles, WillNeed(h)
  PROVE  TableInv'
<1>1. /\ h \in known /\ cache' = RemoveFirst(cache, h)
      /\ retained' = IF h \in purged THEN retained \ {h} ELSE retained \cup {h}
      /\ UNCHANGED <<known, purged, address, size, kernel, virtual, given>>
  BY DEF WillNeed, below
<1>2. /\ cache' \in Seq(Handles) /\ Distinct(cache')
      /\ \A i \in 1 .. Len(cache') :
           \E j \in 1 .. Len(cache) : cache'[i] = cache[j] /\ cache[j] # h
  BY <1>1, FirstRemoved DEF TableInv, IsQueue
<1>3. IsQueue(cache, kernel \ retained)'
  BY <1>1, <1>2 DEF TableInv, IsQueue
<1>4. KeysInv'
  BY <1>1 DEF TableInv, KeysInv
<1>5. Apart(address, kernel)'
  BY <1>1 DEF TableInv, PlaceInv, Apart
<1> QED
  BY <1>1, <1>3, <1>4, <1>5 DEF TableInv, PlaceInv

LEMMA DontNeedTable ==
  ASSUME TableInv, NEW h \in Handles, DontNeed(h)
  PROVE  TableInv'
<1> DEFINE rest == RemoveFirst(cache, h)
           queue == Append(rest, h)
           n == IF Len(queue) > MaxCached THEN Reclaimed(queue, 0, Len(queue) - MaxCached) ELSE 0
           left == kernel \ Oldest(queue, n)
           kept == retained \ {h}
<1>1. /\ h \in known \ purged /\ Reclaim(queue, n) /\ kernel' = left /\ retained' = kept
      /\ UNCHANGED <<known, size, given>>
  BY DEF DontNeed
<1>2. KeysInv /\ PlaceInv /\ kept \subseteq kernel /\ h \in kernel /\ h \notin kept
  BY <1>1 DEF TableInv, KeysInv
<1>3. /\ rest \in Seq(Handles) /\ Distinct(rest)
      /\ \A i \in 1 .. Len(rest) :
           \E j \in 1 .. Len(cache) : rest[i] = cache[j] /\ cache[j] # h
  BY FirstRemoved DEF TableInv, IsQueue
<1> HIDE DEF rest
<1>4. /\ queue \in Seq(Handles) /\ Len(queue) = Len(rest) + 1 /\ Len(rest) \in Nat
      /\ queue[Len(rest) + 1] = h /\ \A i \in 1 .. Len(rest) : queue[i] = rest[i]
  BY <1>3, AppendProperties
<1> HIDE DEF queue
<1>5. \A i \in 1 .. Len(rest) : rest[i] \in kernel \ kept /\ rest[i] # h
  BY <1>3 DEF TableInv, IsQueue
<1>6. IsQueue(queue, kernel \ kept)
  <2>1. \A i \in 1 .. Len(queue) : i \in 1 .. Len(rest) \/ i = Len(rest) + 1
    BY <1>4
  <2>2. Distinct(queue)
    BY <1>3, <1>4, <1>5, <2>1 DEF Distinct
  <2> QED
    BY <1>2, <1>4, <1>5, <2>1, <2>2 DEF IsQueue
<1>7. n \in 0 .. Len(queue)
  BY <1>4, ReclaimedIs
<1> HIDE DEF left, n, kept
<1>8. /\ purged' \subseteq known /\ left = known \ purged' /\ kept \subseteq left
      /\ IsQueue(cache', left \ kept)
      /\ address' \in [Handles -> Nat] /\ virtual' = address' /\ Apart(address', left)
      /\ \A g \in Handles : address'[g] \in {0, address[g]}
  BY <1>1, <1>2, <1>6, <1>7, ReclaimLeaves DEF left
<1>9. KeysInv'
  BY <1>1, <1>2, <1>8 DEF KeysInv
<1>10. Apart(address, kernel)'
  BY <1>1, <1>8 DEF Apart
<1> QED
  BY <1>1, <1>8, <1>9, <1>10 DEF TableInv, PlaceInv, IsQueue

LEMMA InitTable == Init => TableInv
BY DEF Init, TableInv, KeysInv, IsQueue, PlaceInv, Apart, Distinct

LEMMA TableIsKernels == TableInv => TableMatchesKernel
BY DEF TableInv, KeysInv, IsQueue, PlaceInv, TableMatchesKernel, Oldest

-----------------------------------------------------------------------------
(***************************************************************************)
(* Where a submission puts its buffers.                                    *)
(***************************************************************************)
Object == [handle : Handles, offset : 1 .. VirtualSize]

\* The places that a submission may go through: in both tables the same, of the buffers
\* of the kernel, apart.
Arrangements ==
  {s \in [ok : BOOLEAN, address : [Handles -> Nat], virtual : [Handles -> Nat]] :
     s.virtual = s.address /\ Apart(s.address, kernel)}

LEMMA WhereIsOne ==
  ASSUME TableInv
  PROVE  Where \in Arrangements
BY DEF TableInv, PlaceInv, Arrangements, Where

LEMMA FailedIs ==
  ASSUME NEW s \in Arrangements
  PROVE  Failed(s) \in Arrangements /\ ~Failed(s).ok
BY DEF Arrangements, Failed

LEMMA MovedIs ==
  ASSUME NEW s \in Arrangements, NEW handles, NEW to \in Nat
  PROVE  /\ Moved(s, handles, to)
              \in [ok : BOOLEAN, address : [Handles -> Nat], virtual : [Handles -> Nat]]
         /\ s.ok => Moved(s, handles, to).ok
         /\ Moved(s, handles, to).virtual = Moved(s, handles, to).address
         /\ \A h \in Handles : Moved(s, handles, to).address[h]
                                 = IF h \in handles THEN to ELSE s.address[h]
<1> DEFINE a == [h \in Handles |-> IF h \in handles THEN to ELSE s.address[h]]
           v == [h \in Handles |-> IF h \in handles THEN to ELSE s.virtual[h]]
<1>1. s \in [ok : BOOLEAN, address : [Handles -> Nat], virtual : [Handles -> Nat]]
      /\ s.virtual = s.address
  BY DEF Arrangements
<1>2. a \in [Handles -> Nat] /\ v = a
  BY <1>1
<1>3. Moved(s, handles, to) = [s EXCEPT !.address = a, !.virtual = v]
  BY DEF Moved
<1>4. \A h \in Handles : a[h] = IF h \in handles THEN to ELSE s.address[h]
  OBVIOUS
<1> HIDE DEF a, v
<1> QED
  BY <1>1, <1>2, <1>3, <1>4

LEMMA UnboundIs ==
  ASSUME NEW s \in Arrangements, NEW handles
  PROVE  Moved(s, handles, 0) \in Arrangements
<1> DEFINE m == Moved(s, handles, 0)
<1>1. /\ m \in [ok : BOOLEAN, address : [Handles -> Nat], virtual : [Handles -> Nat]]
      /\ m.virtual = m.address
      /\ \A h \in Handles : m.address[h] = IF h \in handles THEN 0 ELSE s.address[h]
  BY MovedIs
<1> HIDE DEF m
<1>2. Apart(m.address, kernel)
  BY <1>1 DEF Arrangements, Apart
<1> QED
  BY <1>1, <1>2 DEF Arrangements, m

LEMMA EvictIs ==
  ASSUME NEW s \in Arrangements, NEW o \in Object
  PROVE  Evict(s, o) \in Arrangements
BY FailedIs, UnboundIs DEF Evict

\* A buffer that was bound nowhere is bound apart from the others.
LEMMA PlaceIs ==
  ASSUME TableInv, NEW s \in Arrangements, NEW o \in Object, NEW short
  PROVE  Place(s, o, short) \in Arrangements
<1> DEFINE unbound == Moved(s, {o.handle}, 0)
           m == Moved(s, {o.handle}, o.offset)
<1>1. o.handle \in Handles /\ o.offset \in Nat \ {0}
  BY DEF Object
<1>2. unbound \in Arrangements /\ Failed(unbound) \in Arrangements /\ Failed(s) \in Arrangements
  BY UnboundIs, FailedIs
<1>3. ASSUME Binds(unbound.virtual, o.handle, o.offset) PROVE m \in Arrangements
  <2>1. /\ m \in [ok : BOOLEAN, address : [Handles -> Nat], virtual : [Handles -> Nat]]
        /\ m.virtual = m.address
        /\ \A h \in Handles : m.address[h] = IF h \in {o.handle} THEN o.offset ELSE s.address[h]
    BY <1>1, MovedIs
  <2>2. /\ unbound.virtual = unbound.address
        /\ \A h \in Handles : unbound.address[h] = IF h \in {o.handle} THEN 0 ELSE s.address[h]
    BY <1>1, MovedIs
  <2> HIDE DEF m, unbound
  <2>3. o.handle \in kernel /\ \A h \in kernel : h # o.handle /\ s.address[h] # 0 =>
                                 ~Meet(o.offset, size[o.handle], s.address[h], size[h])
    BY <1>3, <2>2 DEF Binds, TableInv, KeysInv
  <2>4. Apart(s.address, kernel) /\ s.address \in [Handles -> Nat] /\ size \in [Handles -> Nat]
    BY DEF Arrangements, TableInv, KeysInv
  <2>5. \A h \in Handles : h # o.handle /\ s.address[h] # 0 =>
          /\ ~Meet(o.offset, size[o.handle], s.address[h], size[h])
          /\ ~Meet(s.address[h], size[h], o.offset, size[o.handle])
    BY <2>3, <2>4 DEF Apart, Meet
  <2>6. Apart(m.address, kernel)
    BY <2>1, <2>3, <2>4, <2>5 DEF Apart
  <2> QED
    BY <2>1, <2>6 DEF Arrangements
<1>4. Place(s, o, short) = IF ~s.ok \/ o.handle \notin known THEN Failed(s)
                           ELSE IF s.address[o.handle] = o.offset THEN s
                           ELSE IF broken THEN Failed(s)
                           ELSE IF o.handle \notin short /\ Binds(unbound.virtual, o.handle, o.offset)
                                  THEN m
                                ELSE Failed(unbound)
  BY Zenon DEF Place
<1> HIDE DEF unbound, m
<1> QED
  BY <1>2, <1>3, <1>4

LEMMA EvictFold ==
  ASSUME TableInv, NEW layout \in Seq(Object)
  PROVE  \E g : /\ g[0] = Where /\ g[Len(layout)] = FoldLeft(Evict, Where, layout)
                /\ \A k \in 1 .. Len(layout) : g[k] = Evict(g[k - 1], layout[k])
<1> DEFINE n == Len(layout)
           Sums(h) == h = [Y \in SUBSET (DOMAIN layout) |->
                             IF Y = {} THEN Where
                             ELSE Evict(h[Y \ {Max(Y)}], layout[Max(Y)])]
           fold == CHOOSE h : Sums(h)
           S == Arrangements
           F == [i \in 1 .. n |-> [s \in S |-> Evict(s, layout[i])]]
<1>1. n \in Nat /\ DOMAIN layout = 1 .. n /\ \A i \in 1 .. n : layout[i] \in Object
  OBVIOUS
<1>2. Where \in S /\ \A i \in 1 .. n : \A s \in S : F[i][s] = Evict(s, layout[i]) /\ F[i][s] \in S
  BY <1>1, WhereIsOne, EvictIs
<1> HIDE DEF S, F, n
<1>3. PICK it \in [SUBSET (1 .. n) -> S] : Iterates(it, Where, F, n)
  BY <1>1, <1>2, FoldExists
<1>4. Sums(it)
  <2>1. ASSUME NEW Y \in SUBSET (1 .. n), Y # {}
        PROVE  F[Max(Y)][it[Y \ {Max(Y)}]] = Evict(it[Y \ {Max(Y)}], layout[Max(Y)])
    <3>1. Max(Y) \in 1 .. n
      BY <1>1, <2>1, MostIs
    <3>2. it[Y \ {Max(Y)}] \in S
      OBVIOUS
    <3> QED
      BY <1>2, <3>1, <3>2
  <2> QED
    BY <1>1, <1>3, <2>1 DEF Iterates
<1>5. FoldLeft(Evict, Where, layout) = fold[DOMAIN layout]
  BY Zenon DEF FoldLeft, MapThenFoldSet
<1> HIDE DEF Sums
<1>6. Sums(fold)
  BY <1>4, Zenon
<1> HIDE DEF fold
<1> DEFINE g == [k \in 0 .. n |-> fold[1 .. k]]
<1>7. g[0] = Where /\ g[n] = fold[DOMAIN layout]
  <2>1. 1 .. 0 = {} /\ {} \in SUBSET (DOMAIN layout) /\ 0 \in 0 .. n /\ n \in 0 .. n
    BY <1>1
  <2> QED
    BY <1>1, <1>6, <2>1 DEF Sums
<1>8. \A k \in 1 .. n : g[k] = Evict(g[k - 1], layout[k])
  <2> SUFFICES ASSUME NEW k \in 1 .. n
               PROVE  g[k] = Evict(g[k - 1], layout[k])
    OBVIOUS
  <2>1. k - 1 \in Nat /\ k - 1 \in 0 .. n /\ k \in 0 .. n /\ (k - 1) + 1 = k
    BY <1>1
  <2>2. 1 .. k \in SUBSET (DOMAIN layout) /\ 1 .. k # {} /\ k \in 1 .. k
    <3>1. k \in 1 .. k /\ 1 .. k \subseteq 1 .. n
      BY <1>1, <2>1
    <3> QED
      BY <1>1, <3>1
  <2>3. Max(1 .. k) = k
    BY <2>1, <2>2, LastIs
  <2>4. (1 .. k) \ {k} = 1 .. k - 1
    BY <2>1
  <2>5. fold[1 .. k] = Evict(fold[1 .. k - 1], layout[k])
    BY <1>6, <2>2, <2>3, <2>4 DEF Sums
  <2> QED
    BY <2>1, <2>5
<1> HIDE DEF g
<1> QED
  BY <1>5, <1>7, <1>8 DEF n

LEMMA PlaceFold ==
  ASSUME TableInv, NEW layout \in Seq(Object), NEW swept \in Arrangements, NEW short
  PROVE  \E g : /\ g[0] = swept
                /\ g[Len(layout)] = FoldLeft(LAMBDA s, o : Place(s, o, short), swept, layout)
                /\ \A k \in 1 .. Len(layout) : g[k] = Place(g[k - 1], layout[k], short)
<1> DEFINE n == Len(layout)
           Sums(h) == h = [Y \in SUBSET (DOMAIN layout) |->
                             IF Y = {} THEN swept
                             ELSE Place(h[Y \ {Max(Y)}], layout[Max(Y)], short)]
           fold == CHOOSE h : Sums(h)
           S == Arrangements
           F == [i \in 1 .. n |-> [s \in S |-> Place(s, layout[i], short)]]
<1>1. n \in Nat /\ DOMAIN layout = 1 .. n /\ \A i \in 1 .. n : layout[i] \in Object
  OBVIOUS
<1>2. swept \in S /\ \A i \in 1 .. n : \A s \in S :
            F[i][s] = Place(s, layout[i], short) /\ F[i][s] \in S
  BY <1>1, PlaceIs
<1> HIDE DEF S, F, n
<1>3. PICK it \in [SUBSET (1 .. n) -> S] : Iterates(it, swept, F, n)
  BY <1>1, <1>2, FoldExists
<1>4. Sums(it)
  <2>1. ASSUME NEW Y \in SUBSET (1 .. n), Y # {}
        PROVE  F[Max(Y)][it[Y \ {Max(Y)}]] = Place(it[Y \ {Max(Y)}], layout[Max(Y)], short)
    <3>1. Max(Y) \in 1 .. n
      BY <1>1, <2>1, MostIs
    <3>2. it[Y \ {Max(Y)}] \in S
      OBVIOUS
    <3> QED
      BY <1>2, <3>1, <3>2
  <2> QED
    BY <1>1, <1>3, <2>1 DEF Iterates
<1>5. FoldLeft(LAMBDA s, o : Place(s, o, short), swept, layout) = fold[DOMAIN layout]
  BY Zenon DEF FoldLeft, MapThenFoldSet
<1> HIDE DEF Sums
<1>6. Sums(fold)
  BY <1>4, Zenon
<1> HIDE DEF fold
<1> DEFINE g == [k \in 0 .. n |-> fold[1 .. k]]
<1>7. g[0] = swept /\ g[n] = fold[DOMAIN layout]
  <2>1. 1 .. 0 = {} /\ {} \in SUBSET (DOMAIN layout) /\ 0 \in 0 .. n /\ n \in 0 .. n
    BY <1>1
  <2> QED
    BY <1>1, <1>6, <2>1 DEF Sums
<1>8. \A k \in 1 .. n : g[k] = Place(g[k - 1], layout[k], short)
  <2> SUFFICES ASSUME NEW k \in 1 .. n
               PROVE  g[k] = Place(g[k - 1], layout[k], short)
    OBVIOUS
  <2>1. k - 1 \in Nat /\ k - 1 \in 0 .. n /\ k \in 0 .. n /\ (k - 1) + 1 = k
    BY <1>1
  <2>2. 1 .. k \in SUBSET (DOMAIN layout) /\ 1 .. k # {} /\ k \in 1 .. k
    <3>1. k \in 1 .. k /\ 1 .. k \subseteq 1 .. n
      BY <1>1, <2>1
    <3> QED
      BY <1>1, <3>1
  <2>3. Max(1 .. k) = k
    BY <2>1, <2>2, LastIs
  <2>4. (1 .. k) \ {k} = 1 .. k - 1
    BY <2>1
  <2>5. fold[1 .. k] = Place(fold[1 .. k - 1], layout[k], short)
    BY <1>6, <2>2, <2>3, <2>4 DEF Sums
  <2> QED
    BY <2>1, <2>5
<1> HIDE DEF g
<1> QED
  BY <1>5, <1>7, <1>8 DEF n

LEMMA ArrangedIs ==
  ASSUME TableInv, NEW layout \in Seq(Object), NEW short
  PROVE  Arranged(layout, short) \in Arrangements
<1> DEFINE n == Len(layout)
           W == [k \in 0 .. n |-> Arrangements]
           swept == FoldLeft(Evict, Where, layout)
<1>1. n \in Nat /\ \A i \in 1 .. n : layout[i] \in Object
  OBVIOUS
<1> HIDE DEF n
<1>2. swept \in Arrangements
  <2>1. PICK g : /\ g[0] = Where /\ g[n] = swept
                 /\ \A k \in 1 .. n : g[k] = Evict(g[k - 1], layout[k])
    BY EvictFold DEF n
  <2>2. \A k \in 1 .. n : k - 1 \in 0 .. n /\ k \in 0 .. n
    BY <1>1
  <2>3. \A k \in 1 .. n : g[k - 1] \in W[k - 1] => g[k] \in W[k]
    BY <1>1, <2>1, <2>2, EvictIs
  <2>4. 0 \in 0 .. n /\ n \in 0 .. n
    BY <1>1
  <2>5. g[0] \in W[0]
    BY <2>1, <2>4, WhereIsOne
  <2> HIDE DEF W, swept
  <2>6. g[n] \in W[n]
    BY <1>1, <2>3, <2>4, <2>5, FoldType
  <2> QED
    BY <2>1, <2>4, <2>6 DEF W
<1> HIDE DEF swept
<1> DEFINE placed == FoldLeft(LAMBDA s, o : Place(s, o, short), swept, layout)
<1>3. placed \in Arrangements
  <2>1. PICK g : /\ g[0] = swept /\ g[n] = placed
                 /\ \A k \in 1 .. n : g[k] = Place(g[k - 1], layout[k], short)
    <3>1. \E g : /\ g[0] = swept
                 /\ g[Len(layout)] = FoldLeft(LAMBDA s, o : Place(s, o, short), swept, layout)
                 /\ \A k \in 1 .. Len(layout) : g[k] = Place(g[k - 1], layout[k], short)
      BY <1>2, PlaceFold, Zenon
    <3> QED
      BY <3>1, Zenon DEF n
  <2>2. \A k \in 1 .. n : k - 1 \in 0 .. n /\ k \in 0 .. n
    BY <1>1
  <2>3. \A k \in 1 .. n : g[k - 1] \in W[k - 1] => g[k] \in W[k]
    BY <1>1, <2>1, <2>2, PlaceIs
  <2>4. 0 \in 0 .. n /\ n \in 0 .. n
    BY <1>1
  <2>5. g[0] \in W[0]
    BY <1>2, <2>1, <2>4
  <2> HIDE DEF W, placed
  <2>6. g[n] \in W[n]
    BY <1>1, <2>3, <2>4, <2>5, FoldType
  <2> QED
    BY <2>1, <2>4, <2>6 DEF W
<1>4. Arranged(layout, short) = placed
  BY Zenon DEF Arranged, swept
<1> QED
  BY <1>3, <1>4

LEMMA SubmitTable ==
  ASSUME TableInv, SleepInv, NEW t \in Threads, NEW c \in Going(t), ExecSubmit(t, c)
  PROVE  TableInv'
<1> DEFINE layout == c.request.layout
<1>1. layout \in Seq(Object)
  <2>1. c.op = "exec" /\ IsCall(c)
    BY GoingIs DEF ExecSubmit
  <2>2. c.request \in Requests
    BY <2>1 DEF IsCall, WaitCalls, ExecCalls
  <2> QED
    BY <2>2, WinsysAssumption DEF Object
<1> HIDE DEF layout
<1>2. \E short : address' = Arranged(layout, short).address /\ virtual' = Arranged(layout, short).virtual
  BY Zenon DEF ExecSubmit, layout
<1>3. PICK short : address' = Arranged(layout, short).address /\ virtual' = Arranged(layout, short).virtual
  BY <1>2
<1>4. Arranged(layout, short) \in Arrangements
  BY <1>1, ArrangedIs
<1>5. /\ address' \in [Handles -> Nat] /\ virtual' = address' /\ Apart(address', kernel)
  BY <1>3, <1>4 DEF Arrangements
<1>6. UNCHANGED <<known, purged, cache, size, kernel, given, retained>>
  BY DEF ExecSubmit
<1>7. KeysInv'
  BY <1>6 DEF TableInv, KeysInv
<1>8. Apart(address, kernel)'
  BY <1>5, <1>6 DEF Apart
<1> QED
  BY <1>5, <1>6, <1>7, <1>8 DEF TableInv, PlaceInv, IsQueue

LEMMA TableFrame ==
  ASSUME TableInv, UNCHANGED <<table, kernel, virtual, given, retained>>
  PROVE  TableInv'
<1>1. Apart(address, kernel)'
  BY DEF TableInv, PlaceInv, Apart, table
<1> QED
  BY <1>1 DEF TableInv, KeysInv, IsQueue, PlaceInv, table

LEMMA TableStep ==
  ASSUME TableInv, SleepInv, [Next]_vars
  PROVE  TableInv'
<1>1. ASSUME UNCHANGED <<table, below, retained>> PROVE TableInv'
  BY <1>1, TableFrame DEF below
<1>2. ASSUME NEW pages \in Sizes, Create(pages) \/ CreateFails(pages) PROVE TableInv'
  <2>1. CASE Created(pages, 0)
    <3>1. 0 \in 0 .. Len(cache)
      BY DEF TableInv, IsQueue
    <3> QED
      BY <2>1, <3>1, CreatedTable
  <2>2. CASE Created(pages, Reclaimed(cache, pages, ReclaimBatch))
    <3>1. Reclaimed(cache, pages, ReclaimBatch) \in 0 .. Len(cache)
      BY ReclaimedIs DEF TableInv, IsQueue
    <3> QED
      BY <2>2, <3>1, CreatedTable
  <2> QED
    BY <1>2, <2>1, <2>2, CreateFailsTable, Zenon DEF Create
<1>3. ASSUME NEW h \in Handles, Close(h) \/ WillNeed(h) \/ DontNeed(h) PROVE TableInv'
  BY <1>3, CloseTable, WillNeedTable, DontNeedTable
<1>4. ASSUME NEW value \in {"unsignaled", "signaled"},
             CreateSync(value) \/ \E handles \in SUBSET Syncs : SetSyncs(handles, value)
      PROVE  TableInv'
  BY <1>1, <1>4 DEF CreateSync, SetSyncs
<1>5. ASSUME NEW f \in Syncs, DestroySync(f) PROVE TableInv'
  BY <1>1, <1>5 DEF DestroySync
<1>6. ASSUME NEW t \in Threads, Wake(t) PROVE TableInv'
  BY <1>1, <1>6 DEF Wake
<1>7. ASSUME NEW t \in Threads, NEW c \in Going(t), Wait(t, c) \/ ExecFence(t, c)
      PROVE  TableInv'
  BY <1>1, <1>7 DEF Wait, ExecFence
<1>8. ASSUME NEW t \in Threads, NEW c \in Going(t), ExecSubmit(t, c) PROVE TableInv'
  BY <1>8, SubmitTable
<1>9. CASE UNCHANGED vars
  BY <1>1, <1>9 DEF vars
<1> QED
  BY <1>2, <1>3, <1>4, <1>5, <1>6, <1>7, <1>8, <1>9 DEF Next

-----------------------------------------------------------------------------
(***************************************************************************)
(* Layouts that do not overlap.                                            *)
(***************************************************************************)
\* Nothing but the buffer of o itself is where o is to be.
Clear(s, o) ==
  \A h \in Handles \ {o.handle} :
    s.address[h] # 0 => ~Meet(o.offset, size[o.handle], s.address[h], size[h])

Fits(o) == o.handle \in known \ purged /\ o.offset + size[o.handle] <= VirtualSize + 1

Asunder(o, p) ==
  o.handle # p.handle /\ ~Meet(o.offset, size[o.handle], p.offset, size[p.handle])

\* A place that was cleared stays clear while others are.
LEMMA EvictClears ==
  ASSUME TableInv, ~broken, NEW s \in Arrangements, s.ok, NEW o \in Object, Fits(o)
  PROVE  /\ Evict(s, o) \in Arrangements /\ Evict(s, o).ok /\ Clear(Evict(s, o), o)
         /\ \A p : Clear(s, p) => Clear(Evict(s, o), p)
<1> DEFINE others == {h \in known \ {o.handle} :
                        /\ s.address[h] # 0
                        /\ Meet(o.offset, size[o.handle], s.address[h], size[h])}
           m == Moved(s, others, 0)
<1>1. o.handle \in Handles /\ o.offset \in Nat \ {0} /\ o.handle \in known
  BY DEF Object, Fits
<1>2. /\ s.address \in [Handles -> Nat] /\ Apart(s.address, kernel)
      /\ kernel = known \ purged /\ known \subseteq Handles
  BY DEF Arrangements, TableInv, KeysInv
<1>3. others \subseteq kernel
  BY <1>2 DEF Apart
<1>4. Evict(s, o) = IF s.address[o.handle] = o.offset \/ others = {} THEN s ELSE m
  BY <1>1, <1>3 DEF Evict
<1>5. \A h \in Handles \ {o.handle} :
        s.address[h] # 0 /\ h \notin others =>
          ~Meet(o.offset, size[o.handle], s.address[h], size[h])
  BY <1>2 DEF Apart
<1> HIDE DEF others
<1>6. CASE s.address[o.handle] = o.offset
  <2>1. Clear(s, o)
    BY <1>1, <1>2, <1>6 DEF Apart, Clear
  <2> QED
    BY <1>4, <1>6, <2>1
<1>7. CASE s.address[o.handle] # o.offset /\ others = {}
  <2>1. Clear(s, o)
    BY <1>5, <1>7 DEF Clear
  <2> QED
    BY <1>4, <1>7, <2>1
<1>8. CASE s.address[o.handle] # o.offset /\ others # {}
  <2>1. /\ m \in Arrangements /\ m.ok
        /\ \A h \in Handles : m.address[h] = IF h \in others THEN 0 ELSE s.address[h]
    <3>1. /\ m \in [ok : BOOLEAN, address : [Handles -> Nat], virtual : [Handles -> Nat]]
          /\ m.ok /\ m.virtual = m.address
          /\ \A h \in Handles : m.address[h] = IF h \in others THEN 0 ELSE s.address[h]
      BY MovedIs
    <3>2. m \in Arrangements
      BY UnboundIs
    <3> HIDE DEF m
    <3> QED
      BY <3>1, <3>2
  <2>2. Evict(s, o) = m
    BY <1>4, <1>8
  <2> HIDE DEF m
  <2>3. Clear(m, o)
    BY <1>5, <2>1 DEF Clear
  <2>4. \A p : Clear(s, p) => Clear(m, p)
    BY <2>1 DEF Clear
  <2> QED
    BY <2>1, <2>2, <2>3, <2>4
<1> QED
  BY <1>6, <1>7, <1>8

\* A buffer gets a place that is clear, and the others stay where they are.
LEMMA PlaceFits ==
  ASSUME TableInv, ~broken, NEW s \in Arrangements, s.ok, NEW o \in Object, Fits(o), Clear(s, o)
  PROVE  /\ Place(s, o, {}) \in Arrangements /\ Place(s, o, {}).ok
         /\ \A h \in Handles :
              Place(s, o, {}).address[h] = IF h = o.handle THEN o.offset ELSE s.address[h]
<1> DEFINE unbound == Moved(s, {o.handle}, 0)
           m == Moved(s, {o.handle}, o.offset)
<1>1. o.handle \in Handles /\ o.offset \in Nat /\ o.handle \in known /\ o.handle \in kernel
  BY DEF Object, Fits, TableInv, KeysInv
<1>2. /\ unbound.virtual = unbound.address
      /\ \A h \in Handles : unbound.address[h] = IF h \in {o.handle} THEN 0 ELSE s.address[h]
  BY MovedIs
<1>3. /\ m \in [ok : BOOLEAN, address : [Handles -> Nat], virtual : [Handles -> Nat]]
      /\ m.ok /\ m.virtual = m.address
      /\ \A h \in Handles : m.address[h] = IF h \in {o.handle} THEN o.offset ELSE s.address[h]
  BY <1>1, MovedIs
<1> HIDE DEF unbound, m
<1>4. Binds(unbound.virtual, o.handle, o.offset)
  <2>1. o.offset + size[o.handle] <= VirtualSize + 1
    BY DEF Fits
  <2>2. \A other \in kernel : unbound.address[other] # 0 =>
          ~Meet(o.offset, size[o.handle], unbound.address[other], size[other])
    BY <1>1, <1>2 DEF Clear, TableInv, KeysInv
  <2> QED
    BY <1>1, <1>2, <2>1, <2>2 DEF Binds
<1>5. Place(s, o, {}) = IF s.address[o.handle] = o.offset THEN s ELSE m
  BY <1>1, <1>4 DEF Place, unbound, m
<1>6. Place(s, o, {}) \in Arrangements
  BY PlaceIs
<1> QED
  BY <1>3, <1>5, <1>6

\* After the sweep the place of every object is clear.
LEMMA SweepClears ==
  ASSUME TableInv, ~broken, NEW layout \in Seq(Object), \A i \in 1 .. Len(layout) : Fits(layout[i])
  PROVE  /\ FoldLeft(Evict, Where, layout) \in Arrangements
         /\ FoldLeft(Evict, Where, layout).ok
         /\ \A i \in 1 .. Len(layout) : Clear(FoldLeft(Evict, Where, layout), layout[i])
<1> DEFINE n == Len(layout)
           swept == FoldLeft(Evict, Where, layout)
           W == [k \in 0 .. n |->
                   {s \in Arrangements : s.ok /\ \A i \in 1 .. k : Clear(s, layout[i])}]
<1>1. n \in Nat /\ \A i \in 1 .. n : layout[i] \in Object /\ Fits(layout[i])
  OBVIOUS
<1>2. PICK g : /\ g[0] = Where /\ g[n] = swept
               /\ \A k \in 1 .. n : g[k] = Evict(g[k - 1], layout[k])
  BY EvictFold
<1> HIDE DEF n, swept
<1>3. 0 \in 0 .. n /\ n \in 0 .. n
  BY <1>1
<1>4. g[0] \in W[0]
  <2>1. Where \in Arrangements /\ Where.ok
    BY WhereIsOne DEF Where
  <2> QED
    BY <1>2, <1>3, <2>1
<1>5. ASSUME NEW k \in 1 .. n, g[k - 1] \in W[k - 1]
      PROVE  g[k] \in W[k]
  <2>1. k - 1 \in 0 .. n /\ k \in 0 .. n /\ \A i \in 1 .. k : i = k \/ i \in 1 .. k - 1
    BY <1>1
  <2> DEFINE s == g[k - 1]
  <2>2. s \in Arrangements /\ s.ok /\ \A i \in 1 .. k - 1 : Clear(s, layout[i])
    BY <1>5, <2>1
  <2>3. g[k] = Evict(s, layout[k]) /\ layout[k] \in Object /\ Fits(layout[k])
    BY <1>1, <1>2
  <2> HIDE DEF s
  <2>4. /\ g[k] \in Arrangements /\ g[k].ok /\ Clear(g[k], layout[k])
        /\ \A p : Clear(s, p) => Clear(g[k], p)
    BY <2>2, <2>3, EvictClears
  <2>5. \A i \in 1 .. k : Clear(g[k], layout[i])
    BY <2>1, <2>2, <2>4
  <2> QED
    BY <2>1, <2>4, <2>5
<1> HIDE DEF W
<1>6. g[n] \in W[n]
  BY <1>1, <1>3, <1>4, <1>5, FoldType
<1>7. swept \in Arrangements /\ swept.ok /\ \A i \in 1 .. n : Clear(swept, layout[i])
  BY <1>2, <1>3, <1>6 DEF W
<1> QED
  BY <1>7 DEF n, swept

\* Then every object gets its place.
LEMMA LayoutTaken ==
  ASSUME TableInv, ~broken, NEW layout \in Seq(Object),
         \A i \in 1 .. Len(layout) : Fits(layout[i]),
         \A i, j \in 1 .. Len(layout) : i # j => Asunder(layout[i], layout[j])
  PROVE  /\ Arranged(layout, {}) \in Arrangements /\ Arranged(layout, {}).ok
         /\ \A i \in 1 .. Len(layout) :
              Arranged(layout, {}).address[layout[i].handle] = layout[i].offset
<1> DEFINE n == Len(layout)
           swept == FoldLeft(Evict, Where, layout)
           placed == FoldLeft(LAMBDA s, o : Place(s, o, {}), swept, layout)
           At(s, k) == \A i \in 1 .. k : s.address[layout[i].handle] = layout[i].offset
           W == [k \in 0 .. n |->
                   {s \in Arrangements :
                      s.ok /\ (\A i \in 1 .. n : Clear(s, layout[i])) /\ At(s, k)}]
<1>1. n \in Nat /\ \A i \in 1 .. n : layout[i] \in Object /\ Fits(layout[i])
  OBVIOUS
<1>2. \A i, j \in 1 .. n : i # j => Asunder(layout[i], layout[j])
  OBVIOUS
<1>3. swept \in Arrangements /\ swept.ok /\ \A i \in 1 .. n : Clear(swept, layout[i])
  BY SweepClears
<1>4. Arranged(layout, {}) = placed
  BY Zenon DEF Arranged
<1> HIDE DEF swept
<1>5. PICK g : /\ g[0] = swept /\ g[n] = placed
               /\ \A k \in 1 .. n : g[k] = Place(g[k - 1], layout[k], {})
  <2>1. \E g : /\ g[0] = swept
               /\ g[Len(layout)] = FoldLeft(LAMBDA s, o : Place(s, o, {}), swept, layout)
               /\ \A k \in 1 .. Len(layout) : g[k] = Place(g[k - 1], layout[k], {})
    BY <1>3, PlaceFold, Zenon
  <2> QED
    BY <2>1, Zenon DEF n
<1> HIDE DEF n, placed
<1>6. 0 \in 0 .. n /\ n \in 0 .. n
  BY <1>1
<1>7. g[0] \in W[0]
  <2>1. At(swept, 0)
    OBVIOUS
  <2> HIDE DEF At
  <2> QED
    BY <1>3, <1>5, <1>6, <2>1
<1>8. ASSUME NEW k \in 1 .. n, g[k - 1] \in W[k - 1]
      PROVE  g[k] \in W[k]
  <2>1. k - 1 \in 0 .. n /\ k \in 0 .. n /\ \A i \in 1 .. k : i = k \/ i \in 1 .. k - 1
    BY <1>1
  <2> DEFINE s == g[k - 1]
  <2> HIDE DEF At
  <2>2. s \in Arrangements /\ s.ok /\ (\A i \in 1 .. n : Clear(s, layout[i])) /\ At(s, k - 1)
    BY <1>8, <2>1
  <2>3. g[k] = Place(s, layout[k], {}) /\ layout[k] \in Object /\ Fits(layout[k])
    BY <1>1, <1>5
  <2> HIDE DEF s
  <2>4. /\ g[k] \in Arrangements /\ g[k].ok
        /\ \A h \in Handles : g[k].address[h] = IF h = layout[k].handle THEN layout[k].offset
                                                ELSE s.address[h]
    BY <2>2, <2>3, PlaceFits
  <2>5. \A i \in 1 .. n : Clear(g[k], layout[i])
    <3> SUFFICES ASSUME NEW i \in 1 .. n PROVE Clear(g[k], layout[i])
      OBVIOUS
    <3>1. layout[i] \in Object /\ Clear(s, layout[i])
      BY <1>1, <2>2
    <3>2. layout[i].handle = layout[k].handle \/ Asunder(layout[i], layout[k])
      BY <1>2
    <3> QED
      BY <2>4, <3>1, <3>2 DEF Clear, Asunder
  <2>6. At(g[k], k)
    <3>1. ASSUME NEW i \in 1 .. k - 1
          PROVE  g[k].address[layout[i].handle] = layout[i].offset
      <4>1. i \in 1 .. n /\ i # k /\ layout[i].handle \in Handles
        BY <1>1 DEF Object
      <4>2. s.address[layout[i].handle] = layout[i].offset
        BY <2>2 DEF At
      <4>3. layout[i].handle # layout[k].handle
        BY <1>2, <4>1 DEF Asunder
      <4> QED
        BY <2>4, <4>1, <4>2, <4>3
    <3>2. g[k].address[layout[k].handle] = layout[k].offset
      BY <2>3, <2>4 DEF Object
    <3> QED
      BY <2>1, <3>1, <3>2 DEF At
  <2> QED
    BY <2>1, <2>4, <2>5, <2>6
<1> HIDE DEF W
<1>9. g[n] \in W[n]
  BY <1>1, <1>6, <1>7, <1>8, FoldType
<1> HIDE DEF At
<1>10. placed \in Arrangements /\ placed.ok /\ At(placed, n)
  BY <1>5, <1>6, <1>9 DEF W
<1> QED
  BY <1>4, <1>10 DEF At, n

LEMMA TableTakesLayouts == TableInv => DisjointLayoutAccepted
<1> SUFFICES ASSUME TableInv, ~broken, NEW layout \in Requested,
                    \A i \in 1 .. Len(layout) : Fits(layout[i]),
                    \A i, j \in 1 .. Len(layout) : i # j => Asunder(layout[i], layout[j])
             PROVE  /\ Arranged(layout, {}).ok /\ Accepts(Arranged(layout, {}), layout)
                    /\ \A i \in 1 .. Len(layout) :
                         Arranged(layout, {}).virtual[layout[i].handle] = layout[i].offset
  BY DEF DisjointLayoutAccepted, Fits, Asunder
<1>1. layout \in Seq(Object)
  BY WinsysAssumption DEF Requested, Object
<1> DEFINE s == Arranged(layout, {})
<1>2. /\ s \in Arrangements /\ s.ok
      /\ \A i \in 1 .. Len(layout) : s.address[layout[i].handle] = layout[i].offset
  BY <1>1, LayoutTaken
<1> HIDE DEF s
<1>3. \A i \in 1 .. Len(layout) : s.virtual[layout[i].handle] = layout[i].offset
  BY <1>2 DEF Arrangements
<1>4. \A i \in 1 .. Len(layout) : layout[i].offset # 0 /\ layout[i].handle \in kernel
  <2>1. \A i \in 1 .. Len(layout) : layout[i] \in Object
    BY <1>1
  <2>2. \A o \in Object : o.offset # 0
    BY DEF Object
  <2> QED
    BY <2>1, <2>2 DEF Fits, TableInv, KeysInv
<1>5. Accepts(s, layout)
  BY <1>3, <1>4 DEF Accepts, Asunder
<1> QED
  BY <1>2, <1>3, <1>5 DEF s

-----------------------------------------------------------------------------
(***************************************************************************)
(* Sums.  What MapThenSumSet computes: a function that adds one element of *)
(* a set to the sum of the rest.                                           *)
(***************************************************************************)
First(set) == CHOOSE x \in set : TRUE

\* sum gives the sum of F over every subset of S.
Adds(sum, F, S) ==
  sum = [X \in SUBSET S |->
           IF X = {} THEN 0 ELSE F[First(X)] + sum[X \ {First(X)}]]

LEMMA FirstIs ==
  ASSUME NEW X, X # {}
  PROVE  First(X) \in X
BY Zenon DEF First

\* Of a collection of subsets of a finite set, one has no other below it.
LEMMA LeastSubset ==
  ASSUME NEW S, IsFiniteSet(S), NEW Bad \in SUBSET (SUBSET S), Bad # {}
  PROVE  \E X \in Bad : \A Y \in SUBSET X : Y # X => Y \notin Bad
<1>1. IsWellFoundedOn(StrictSubsetOrdering(S), SUBSET S)
  BY FS_StrictSubsetOrderingWellFounded, FS_FiniteSubsetsOfFinite
<1>2. PICK X \in Bad : \A Y \in Bad : ~(<<Y, X>> \in StrictSubsetOrdering(S))
  BY <1>1, WFMin
<1>3. \A Y, Z \in SUBSET S : Y \subseteq Z /\ Y # Z => <<Y, Z>> \in StrictSubsetOrdering(S)
  BY DEF StrictSubsetOrdering
<1> QED
  BY <1>2, <1>3

\* Such a function exists: it can be extended from sets of n elements to sets of one more.
LEMMA SumExists ==
  ASSUME NEW S, IsFiniteSet(S), NEW F
  PROVE  \E sum : Adds(sum, F, S)
<1> DEFINE Small(n) == {X \in SUBSET S : Cardinality(X) <= n}
           Adding(g, X) == IF X = {} THEN 0 ELSE F[First(X)] + g[X \ {First(X)}]
           Good(n) == \E g : \A X \in Small(n) : g[X] = Adding(g, X)
           Bad == {n \in Nat : ~Good(n)}
<1>1. \A X \in SUBSET S : IsFiniteSet(X) /\ Cardinality(X) \in Nat
  BY FS_Subset, FS_CardinalityType
<1>2. Good(0)
  <2>1. \A X \in Small(0) : X = {}
    BY <1>1, FS_EmptySet
  <2>2. {} \in SUBSET S
    OBVIOUS
  <2> DEFINE g == [X \in SUBSET S |-> 0]
  <2>3. \A X \in Small(0) : g[X] = Adding(g, X)
    BY <2>1, <2>2
  <2> HIDE DEF g, Small, Adding
  <2> QED
    BY <2>3
<1>3. ASSUME NEW n \in Nat, Good(n)
      PROVE  Good(n + 1)
  <2>1. PICK g : \A X \in Small(n) : g[X] = Adding(g, X)
    BY <1>3
  <2> DEFINE h == [X \in SUBSET S |-> Adding(g, X)]
  <2>2. \A X \in Small(n) : h[X] = g[X]
    BY <2>1
  <2>3. ASSUME NEW X \in Small(n + 1)
        PROVE  h[X] = Adding(h, X)
    <3>1. X \in SUBSET S /\ h[X] = Adding(g, X)
      OBVIOUS
    <3>2. CASE X = {}
      BY <3>1, <3>2
    <3>3. CASE X # {}
      <4>1. First(X) \in X
        BY <3>3, FirstIs
      <4>2. Cardinality(X \ {First(X)}) = Cardinality(X) - 1
        BY <1>1, <3>1, <4>1, FS_RemoveElement
      <4>3. X \ {First(X)} \in Small(n)
        BY <1>1, <3>1, <4>2
      <4>4. h[X \ {First(X)}] = g[X \ {First(X)}]
        BY <2>2, <4>3
      <4> HIDE DEF h, Small
      <4> QED
        BY <3>1, <3>3, <4>4
    <3> QED
      BY <3>2, <3>3
  <2> HIDE DEF h, Small, Adding
  <2> QED
    BY <2>3
<1>4. ASSUME Bad # {}
      PROVE  FALSE
  <2> HIDE DEF Good
  <2> DEFINE n == Min(Bad)
  <2>1. n \in Bad /\ \A m \in Bad : n <= m
    BY <1>4, LeastIs
  <2> HIDE DEF n
  <2>2. n \in Nat /\ n # 0
    BY <1>2, <2>1
  <2>3. n - 1 \in Nat /\ n - 1 < n
    BY <2>2
  <2>4. Good(n - 1)
    BY <2>1, <2>3
  <2>5. Good((n - 1) + 1)
    BY <1>3, <2>3, <2>4
  <2>6. (n - 1) + 1 = n
    BY <2>2
  <2> QED
    BY <2>1, <2>5, <2>6
<1>5. Good(Cardinality(S))
  <2> HIDE DEF Good
  <2>1. Cardinality(S) \in Nat
    BY FS_CardinalityType
  <2> QED
    BY <1>4, <2>1
<1>6. PICK g : \A X \in Small(Cardinality(S)) : g[X] = Adding(g, X)
  BY <1>5
<1> DEFINE sum == [X \in SUBSET S |-> g[X]]
<1>7. Small(Cardinality(S)) = SUBSET S
  BY FS_Subset
<1>8. \A X \in SUBSET S : X \ {First(X)} \in SUBSET S
  OBVIOUS
<1>9. \A X \in SUBSET S : g[X] = Adding(g, X) /\ sum[X] = g[X]
  BY <1>6, <1>7
<1>10. sum = [X \in SUBSET S |-> Adding(sum, X)]
  BY <1>8, <1>9
<1> HIDE DEF sum
<1> QED
  BY <1>10 DEF Adds

\* The sum of F over a set.
LEMMA SumStep ==
  ASSUME NEW S, NEW F, NEW sum, Adds(sum, F, S), NEW X \in SUBSET S
  PROVE  sum[X] = IF X = {} THEN 0 ELSE F[First(X)] + sum[X \ {First(X)}]
BY DEF Adds

\* The sum does not depend on what else could have been added up, nor on what F is
\* elsewhere.
LEMMA SumSame ==
  ASSUME NEW S, IsFiniteSet(S), NEW F, NEW sum, Adds(sum, F, S),
         NEW T, NEW G, NEW other, Adds(other, G, T),
         NEW X \in SUBSET S, X \in SUBSET T, \A x \in X : F[x] = G[x]
  PROVE  sum[X] = other[X]
<1> DEFINE Bad == {Y \in SUBSET X : sum[Y] # other[Y]}
<1> SUFFICES ASSUME Bad # {}
             PROVE  FALSE
  OBVIOUS
<1>1. Bad \in SUBSET (SUBSET S)
  OBVIOUS
<1> HIDE DEF Bad
<1>2. PICK Y \in Bad : \A Z \in SUBSET Y : Z # Y => Z \notin Bad
  BY <1>1, LeastSubset
<1> USE DEF Bad
<1>3. Y \in SUBSET X /\ Y \in SUBSET S /\ Y \in SUBSET T /\ sum[Y] # other[Y]
  OBVIOUS
<1>4. Y # {}
  <2>1. {} \in SUBSET S /\ {} \in SUBSET T
    OBVIOUS
  <2>2. sum[{}] = 0 /\ other[{}] = 0
    BY <2>1, SumStep
  <2> QED
    BY <1>3, <2>2
<1>5. First(Y) \in Y
  BY <1>4, FirstIs
<1>6. Y \ {First(Y)} \in SUBSET Y /\ Y \ {First(Y)} # Y
  BY <1>5
<1>7. sum[Y \ {First(Y)}] = other[Y \ {First(Y)}]
  BY <1>2, <1>3, <1>6
<1>8. /\ sum[Y] = F[First(Y)] + sum[Y \ {First(Y)}]
      /\ other[Y] = G[First(Y)] + other[Y \ {First(Y)}]
  BY <1>3, <1>4, SumStep
<1>9. F[First(Y)] = G[First(Y)]
  BY <1>3, <1>5
<1> QED
  BY <1>3, <1>7, <1>8, <1>9

LEMMA SumType ==
  ASSUME NEW S, IsFiniteSet(S), NEW F, \A x \in S : F[x] \in Nat, NEW sum, Adds(sum, F, S),
         NEW X \in SUBSET S
  PROVE  sum[X] \in Nat
<1> DEFINE Bad == {Y \in SUBSET S : sum[Y] \notin Nat}
<1> SUFFICES ASSUME Bad # {}
             PROVE  FALSE
  OBVIOUS
<1>0. \A Z \in SUBSET S :
        sum[Z] = IF Z = {} THEN 0 ELSE F[First(Z)] + sum[Z \ {First(Z)}]
  BY DEF Adds
<1>1. Bad \in SUBSET (SUBSET S)
  OBVIOUS
<1> HIDE DEF Bad
<1>2. PICK Y \in Bad : \A Z \in SUBSET Y : Z # Y => Z \notin Bad
  BY <1>1, LeastSubset
<1> USE DEF Bad
<1>3. Y \in SUBSET S /\ sum[Y] \notin Nat
  OBVIOUS
<1>4. Y # {}
  BY <1>0, <1>3
<1>5. First(Y) \in Y
  BY <1>4, FirstIs
<1>6. Y \ {First(Y)} \in SUBSET Y /\ Y \ {First(Y)} # Y /\ Y \ {First(Y)} \in SUBSET S
  BY <1>3, <1>5
<1>7. sum[Y \ {First(Y)}] \in Nat
  BY <1>2, <1>6
<1>8. sum[Y] = F[First(Y)] + sum[Y \ {First(Y)}]
  BY <1>0, <1>3, <1>4
<1>9. F[First(Y)] \in Nat
  BY <1>3, <1>5
<1> QED
  BY <1>3, <1>7, <1>8, <1>9

\* Any element may be the one that is added last.
LEMMA SumAny ==
  ASSUME NEW S, IsFiniteSet(S), NEW F, \A x \in S : F[x] \in Nat, NEW sum, Adds(sum, F, S),
         NEW X \in SUBSET S, NEW x \in X
  PROVE  sum[X] = F[x] + sum[X \ {x}]
<1> DEFINE Bad == {Y \in SUBSET S : \E y \in Y : sum[Y] # F[y] + sum[Y \ {y}]}
<1> SUFFICES ASSUME Bad # {}
             PROVE  FALSE
  OBVIOUS
<1>0. \A Z \in SUBSET S :
        sum[Z] = IF Z = {} THEN 0 ELSE F[First(Z)] + sum[Z \ {First(Z)}]
  BY DEF Adds
<1>1. Bad \in SUBSET (SUBSET S)
  OBVIOUS
<1> HIDE DEF Bad
<1>2. PICK Y \in Bad : \A Z \in SUBSET Y : Z # Y => Z \notin Bad
  BY <1>1, LeastSubset
<1> USE DEF Bad
<1>3. PICK y \in Y : sum[Y] # F[y] + sum[Y \ {y}]
  OBVIOUS
<1>4. Y \in SUBSET S /\ Y # {}
  OBVIOUS
<1> DEFINE z == First(Y)
<1>5. z \in Y
  BY <1>4, FirstIs
<1>6. sum[Y] = F[z] + sum[Y \ {z}]
  BY <1>0, <1>4
<1> HIDE DEF z
<1>7. y # z
  BY <1>3, <1>6
<1>8. /\ Y \ {z} \in SUBSET Y /\ Y \ {z} # Y /\ y \in Y \ {z} /\ Y \ {z} \in SUBSET S
      /\ Y \ {y} \in SUBSET Y /\ Y \ {y} # Y /\ z \in Y \ {y} /\ Y \ {y} \in SUBSET S
      /\ (Y \ {z}) \ {y} = (Y \ {y}) \ {z} /\ (Y \ {y}) \ {z} \in SUBSET S
  BY <1>4, <1>5, <1>7
<1>9. sum[Y \ {z}] = F[y] + sum[(Y \ {z}) \ {y}]
  BY <1>2, <1>8
<1>10. sum[Y \ {y}] = F[z] + sum[(Y \ {y}) \ {z}]
  BY <1>2, <1>8
<1>11. F[y] \in Nat /\ F[z] \in Nat /\ sum[(Y \ {y}) \ {z}] \in Nat
  BY <1>4, <1>5, <1>8, SumType
<1> DEFINE rest == sum[(Y \ {y}) \ {z}]
<1>12. sum[Y \ {z}] = F[y] + rest /\ sum[Y \ {y}] = F[z] + rest /\ rest \in Nat
  BY <1>8, <1>9, <1>10, <1>11
<1> HIDE DEF rest
<1> QED
  BY <1>3, <1>6, <1>11, <1>12

\* The sum of F over a finite set.
Total(F, X) == (CHOOSE sum : Adds(sum, F, X))[X]

LEMMA TotalIs ==
  ASSUME NEW F, NEW X, IsFiniteSet(X)
  PROVE  \E sum : Adds(sum, F, X) /\ Total(F, X) = sum[X]
<1> DEFINE sum == CHOOSE sum : Adds(sum, F, X)
<1>1. Adds(sum, F, X)
  BY SumExists, Zenon
<1>2. Total(F, X) = sum[X]
  BY DEF Total
<1> HIDE DEF sum
<1> QED
  BY <1>1, <1>2

LEMMA TotalEmpty ==
  ASSUME NEW F
  PROVE  Total(F, {}) = 0
<1>1. PICK sum : Adds(sum, F, {}) /\ Total(F, {}) = sum[{}]
  BY TotalIs, FS_EmptySet
<1> QED
  BY <1>1 DEF Adds

LEMMA TotalType ==
  ASSUME NEW X, IsFiniteSet(X), NEW F, \A x \in X : F[x] \in Nat
  PROVE  Total(F, X) \in Nat
<1>1. PICK sum : Adds(sum, F, X) /\ Total(F, X) = sum[X]
  BY TotalIs
<1>2. sum[X] \in Nat
  BY <1>1, SumType
<1> QED
  BY <1>1, <1>2

LEMMA TotalSame ==
  ASSUME NEW X, IsFiniteSet(X), NEW F, NEW G, \A x \in X : F[x] = G[x]
  PROVE  Total(F, X) = Total(G, X)
<1>1. PICK sum : Adds(sum, F, X) /\ Total(F, X) = sum[X]
  BY TotalIs
<1>2. PICK other : Adds(other, G, X) /\ Total(G, X) = other[X]
  BY TotalIs
<1>3. sum[X] = other[X]
  BY <1>1, <1>2, SumSame
<1> QED
  BY <1>1, <1>2, <1>3

LEMMA TotalDrop ==
  ASSUME NEW X, IsFiniteSet(X), NEW F, \A x \in X : F[x] \in Nat, NEW x \in X, NEW G,
         \A y \in X \ {x} : F[y] = G[y]
  PROVE  Total(F, X) = F[x] + Total(G, X \ {x})
<1>1. PICK sum : Adds(sum, F, X) /\ Total(F, X) = sum[X]
  BY TotalIs
<1>2. IsFiniteSet(X \ {x})
  BY FS_RemoveElement
<1>3. PICK other : Adds(other, G, X \ {x}) /\ Total(G, X \ {x}) = other[X \ {x}]
  BY <1>2, TotalIs
<1>4. sum[X] = F[x] + sum[X \ {x}]
  BY <1>1, SumAny
<1>5. X \ {x} \in SUBSET X /\ X \ {x} \in SUBSET (X \ {x})
  OBVIOUS
<1>6. sum[X \ {x}] = other[X \ {x}]
  BY <1>1, <1>3, <1>5, SumSame
<1> QED
  BY <1>1, <1>3, <1>4, <1>6

LEMMA TotalAdd ==
  ASSUME NEW X, IsFiniteSet(X), NEW F, NEW x, x \notin X, NEW G,
         \A y \in X \cup {x} : G[y] \in Nat, \A y \in X : F[y] = G[y]
  PROVE  Total(G, X \cup {x}) = G[x] + Total(F, X)
<1> DEFINE Y == X \cup {x}
<1>1. IsFiniteSet(Y)
  BY FS_AddElement
<1>2. Y \ {x} = X /\ x \in Y
  OBVIOUS
<1>3. (\A y \in Y : G[y] \in Nat) /\ \A y \in Y \ {x} : G[y] = F[y]
  OBVIOUS
<1> HIDE DEF Y
<1>4. Total(G, Y) = G[x] + Total(F, Y \ {x})
  BY <1>1, <1>2, <1>3, TotalDrop
<1> QED
  BY <1>2, <1>4 DEF Y

\* What is left of a set and what was taken away add up to the whole.
LEMMA TotalSplit ==
  ASSUME NEW X, IsFiniteSet(X), NEW F, \A x \in X : F[x] \in Nat, NEW part \in SUBSET X
  PROVE  /\ Total(F, X) = Total(F, X \ part) + Total(F, part)
         /\ Total(F, X \ part) \in Nat /\ Total(F, part) \in Nat
<1> DEFINE Splits(Y) == Total(F, X) = Total(F, X \ Y) + Total(F, Y)
           Bad == {Y \in SUBSET X : ~Splits(Y)}
<1>1. ASSUME NEW Y \in SUBSET X
      PROVE  /\ IsFiniteSet(Y) /\ IsFiniteSet(X \ Y)
             /\ Total(F, Y) \in Nat /\ Total(F, X \ Y) \in Nat
  <2>1. IsFiniteSet(Y) /\ IsFiniteSet(X \ Y)
    BY FS_Subset
  <2> QED
    BY <2>1, TotalType
<1>2. Splits({})
  <2>1. X \ {} = X /\ {} \in SUBSET X
    OBVIOUS
  <2>2. Total(F, {}) = 0 /\ Total(F, X) \in Nat
    BY TotalEmpty, TotalType
  <2> QED
    BY <2>1, <2>2
<1>3. ASSUME NEW Y \in SUBSET X, NEW y \in Y, Splits(Y \ {y})
      PROVE  Splits(Y)
  <2>1. (X \ (Y \ {y})) \ {y} = X \ Y /\ y \in X \ (Y \ {y}) /\ Y \ {y} \in SUBSET X
    OBVIOUS
  <2>2. IsFiniteSet(X \ (Y \ {y})) /\ IsFiniteSet(Y)
    BY <1>1, <2>1
  <2>3. Total(F, Y) = F[y] + Total(F, Y \ {y})
    BY <2>2, TotalDrop
  <2> DEFINE R == X \ (Y \ {y})
  <2>4. \A x \in R : F[x] \in Nat
    OBVIOUS
  <2> HIDE DEF R
  <2>5. Total(F, R) = F[y] + Total(F, R \ {y})
    BY <2>1, <2>2, <2>4, TotalDrop DEF R
  <2>6. /\ Total(F, Y \ {y}) \in Nat /\ Total(F, R) \in Nat /\ Total(F, X \ Y) \in Nat
        /\ F[y] \in Nat /\ Total(F, R \ {y}) = Total(F, X \ Y)
    BY <1>1, <2>1 DEF R
  <2>7. Total(F, X) = Total(F, R) + Total(F, Y \ {y})
    BY <1>3 DEF R
  <2> QED
    BY <2>3, <2>5, <2>6, <2>7
<1>4. Bad = {}
  <2> SUFFICES ASSUME Bad # {} PROVE FALSE
    OBVIOUS
  <2> HIDE DEF Splits
  <2>1. Bad \in SUBSET (SUBSET X)
    OBVIOUS
  <2> HIDE DEF Bad
  <2>2. PICK Y \in Bad : \A Z \in SUBSET Y : Z # Y => Z \notin Bad
    BY <2>1, LeastSubset
  <2>3. Y \in SUBSET X /\ ~Splits(Y) /\ Y # {}
    BY <1>2, <2>2 DEF Bad
  <2>4. PICK y \in Y : TRUE
    BY <2>3
  <2>5. Y \ {y} \in SUBSET Y /\ Y \ {y} # Y /\ Y \ {y} \in SUBSET X
    BY <2>3, <2>4
  <2>6. Splits(Y \ {y})
    BY <2>2, <2>5 DEF Bad
  <2> QED
    BY <1>3, <2>3, <2>4, <2>6
<1>5. Splits(part)
  <2> HIDE DEF Splits
  <2> QED
    BY <1>4
<1> QED
  BY <1>1, <1>5

-----------------------------------------------------------------------------
(***************************************************************************)
(* The limits of the kernel.                                               *)
(***************************************************************************)
RoomInv == Cardinality(kernel) <= MaxBuffers /\ Total(size, kernel) <= MemoryLimit

LEMMA SizeIsTotal ==
  ASSUME TableInv, NEW X \in SUBSET Handles
  PROVE  SizeOf(X) = Total(size, X)
<1> DEFINE Sums(h) == h = [Y \in SUBSET X |->
                             IF Y = {} THEN 0
                             ELSE size[CHOOSE x \in Y : TRUE] + h[Y \ {CHOOSE x \in Y : TRUE}]]
           fold == CHOOSE h : Sums(h)
<1>1. IsFiniteSet(X)
  BY WinsysAssumption, FS_Subset
<1>2. \A h : Sums(h) <=> Adds(h, size, X)
  BY Zenon DEF Adds, First
<1>3. SizeOf(X) = fold[X]
  BY Zenon DEF SizeOf, MapThenSumSet, MapThenFoldSet
<1> HIDE DEF Sums
<1>4. \E h : Sums(h)
  BY <1>1, <1>2, SumExists
<1>5. Sums(fold)
  BY <1>4, Zenon
<1> HIDE DEF fold
<1>6. PICK sum : Adds(sum, size, X) /\ Total(size, X) = sum[X]
  BY <1>1, TotalIs
<1>7. Adds(fold, size, X) /\ X \in SUBSET X
  BY <1>2, <1>5
<1>8. fold[X] = sum[X]
  BY <1>1, <1>6, <1>7, SumSame
<1> QED
  BY <1>3, <1>6, <1>8

LEMMA KernelIs ==
  ASSUME TableInv
  PROVE  /\ kernel \in SUBSET Handles /\ IsFiniteSet(kernel) /\ Cardinality(kernel) \in Nat
         /\ \A h \in Handles : size[h] \in Nat
<1>1. kernel \in SUBSET Handles /\ \A h \in Handles : size[h] \in Nat
  BY DEF TableInv, KeysInv
<1>2. IsFiniteSet(kernel)
  BY <1>1, WinsysAssumption, FS_Subset
<1> QED
  BY <1>1, <1>2, FS_CardinalityType

\* There is no less room when buffers are gone.
LEMMA RoomLeft ==
  ASSUME TableInv, RoomInv, kernel' \subseteq kernel, size' = size
  PROVE  RoomInv'
<1>1. IsFiniteSet(kernel) /\ (\A h \in kernel : size[h] \in Nat) /\ Cardinality(kernel) \in Nat
  BY KernelIs
<1>2. Cardinality(kernel') <= Cardinality(kernel) /\ Cardinality(kernel') \in Nat
  BY <1>1, FS_Subset, FS_CardinalityType
<1> DEFINE part == kernel \ kernel'
<1>3. /\ Total(size, kernel) = Total(size, kernel \ part) + Total(size, part)
      /\ Total(size, kernel \ part) \in Nat /\ Total(size, part) \in Nat
  BY <1>1, TotalSplit
<1>4. kernel \ part = kernel'
  OBVIOUS
<1> HIDE DEF part
<1>5. MaxBuffers \in Nat /\ MemoryLimit \in Nat
  BY WinsysAssumption
<1> QED
  BY <1>1, <1>2, <1>3, <1>4, <1>5 DEF RoomInv

LEMMA CreatedRoom ==
  ASSUME TableInv, RoomInv, NEW pages \in Sizes, NEW n \in 0 .. Len(cache), Created(pages, n)
  PROVE  RoomInv'
<1> DEFINE h == given + 1
           left == kernel \ Oldest(cache, n)
<1>1. /\ h \in Handles /\ Room(left, pages) /\ size' = [size EXCEPT ![h] = pages]
      /\ kernel' = left \cup {h}
  BY DEF Created
<1>2. h \notin left /\ left \in SUBSET Handles /\ left \subseteq kernel
  <2>1. given \in Nat /\ kernel \subseteq Handles /\ \A g \in kernel : g <= given
    BY DEF TableInv, KeysInv
  <2>2. h \notin kernel
    BY <2>1
  <2> QED
    BY <2>1, <2>2
<1> HIDE DEF left, h
<1>3. IsFiniteSet(left) /\ (\A g \in left : size[g] \in Nat) /\ Cardinality(left) \in Nat
  BY <1>2, KernelIs, FS_Subset, FS_CardinalityType
<1>4. Cardinality(kernel') = Cardinality(left) + 1
  BY <1>1, <1>2, <1>3, FS_AddElement
<1>5. SizeOf(left) = Total(size, left) /\ Total(size, left) \in Nat
  BY <1>2, <1>3, SizeIsTotal, TotalType
<1>6. pages \in Nat /\ MaxBuffers \in Nat /\ MemoryLimit \in Nat
  BY WinsysAssumption
<1>7. /\ size'[h] = pages /\ \A g \in left : size[g] = size'[g]
      /\ \A g \in left \cup {h} : size'[g] \in Nat
  BY <1>1, <1>2, <1>3, <1>6 DEF TableInv, KeysInv
<1>8. Total(size', left \cup {h}) = size'[h] + Total(size, left)
  BY <1>2, <1>3, <1>7, TotalAdd
<1>9. Cardinality(left) < MaxBuffers /\ SizeOf(left) + pages <= MemoryLimit
  BY <1>1 DEF Room
<1> QED
  BY <1>1, <1>3, <1>4, <1>5, <1>6, <1>7, <1>8, <1>9 DEF RoomInv

LEMMA RoomStep ==
  ASSUME TableInv, RoomInv, [Next]_vars
  PROVE  RoomInv'
<1>1. ASSUME kernel' \subseteq kernel, size' = size PROVE RoomInv'
  BY <1>1, RoomLeft
<1>2. ASSUME NEW pages \in Sizes, Create(pages) \/ CreateFails(pages) PROVE RoomInv'
  <2>1. CASE Created(pages, 0)
    <3>1. 0 \in 0 .. Len(cache)
      BY DEF TableInv, IsQueue
    <3> QED
      BY <2>1, <3>1, CreatedRoom
  <2>2. CASE Created(pages, Reclaimed(cache, pages, ReclaimBatch))
    <3>1. Reclaimed(cache, pages, ReclaimBatch) \in 0 .. Len(cache)
      BY ReclaimedIs DEF TableInv, IsQueue
    <3> QED
      BY <2>2, <3>1, CreatedRoom
  <2>3. CASE CreateFails(pages)
    BY <1>1, <2>3 DEF CreateFails
  <2> QED
    BY <1>2, <2>1, <2>2, <2>3, Zenon DEF Create
<1>3. ASSUME NEW h \in Handles, Close(h) \/ WillNeed(h) \/ DontNeed(h) PROVE RoomInv'
  BY <1>1, <1>3 DEF Close, WillNeed, DontNeed, below
<1>4. ASSUME NEW value \in {"unsignaled", "signaled"},
             CreateSync(value) \/ \E handles \in SUBSET Syncs : SetSyncs(handles, value)
      PROVE  RoomInv'
  BY <1>1, <1>4 DEF CreateSync, SetSyncs, table, below
<1>5. ASSUME NEW f \in Syncs, DestroySync(f) PROVE RoomInv'
  BY <1>1, <1>5 DEF DestroySync, table, below
<1>6. ASSUME NEW t \in Threads, Wake(t) PROVE RoomInv'
  BY <1>1, <1>6 DEF Wake, table, below
<1>7. ASSUME NEW t \in Threads, NEW c \in Going(t),
             Wait(t, c) \/ ExecFence(t, c) \/ ExecSubmit(t, c)
      PROVE  RoomInv'
  BY <1>1, <1>7 DEF Wait, ExecFence, ExecSubmit, table, below
<1>8. CASE UNCHANGED vars
  BY <1>1, <1>8 DEF vars, table, below
<1> QED
  BY <1>2, <1>3, <1>4, <1>5, <1>6, <1>7, <1>8 DEF Next

LEMMA InitRoom == Init => RoomInv
<1> SUFFICES ASSUME Init PROVE RoomInv
  OBVIOUS
<1>1. kernel = {} /\ Cardinality({}) = 0 /\ Total(size, {}) = 0
  BY TotalEmpty, FS_EmptySet DEF Init
<1> QED
  BY <1>1, WinsysAssumption DEF RoomInv

\* What is reclaimed is all there is, or enough of it.
LEMMA ReclaimedEnough ==
  ASSUME NEW queue \in Seq(Handles), NEW bytes, NEW count, NEW n,
         n = Reclaimed(queue, bytes, count), n # Len(queue), n # 0
  PROVE  n >= count /\ SizeOf(Oldest(queue, n)) >= bytes
<1> DEFINE enough == {i \in 0 .. Len(queue) : i >= count /\ SizeOf(Oldest(queue, i)) >= bytes}
           T == enough \cup {Len(queue)}
<1>1. Len(queue) \in Nat
  OBVIOUS
<1>2. T \in SUBSET Nat /\ T # {}
  BY <1>1
<1>3. n = IF broken THEN 0 ELSE Min(T)
  BY Zenon DEF Reclaimed
<1> HIDE DEF T
<1>4. Min(T) \in T
  BY <1>2, LeastIs
<1>5. n \in enough
  BY <1>3, <1>4 DEF T
<1> QED
  BY <1>5

\* Then there is room for the buffer that was to be made.
LEMMA ReclaimMakesRoom ==
  ASSUME TableInv, RoomInv, NEW pages \in Sizes, CreateFails(pages), cache' # <<>>
  PROVE  Room(kernel', pages)
<1> DEFINE n == Reclaimed(cache, pages, ReclaimBatch)
           gone == Oldest(cache, n)
<1>1. n > 0 /\ Reclaim(cache, n) /\ kernel' = kernel \ gone
  BY DEF CreateFails
<1>2. cache \in Seq(Handles) /\ IsQueue(cache, kernel \ retained)
  BY DEF TableInv, IsQueue
<1>3. n \in 0 .. Len(cache) /\ Len(cache) \in Nat
  BY <1>2, ReclaimedIs
<1>4. n # Len(cache)
  <2> SUFFICES ASSUME n = Len(cache) PROVE FALSE
    OBVIOUS
  <2>1. cache' = SubSeq(cache, n + 1, Len(cache))
    BY <1>1 DEF Reclaim
  <2> HIDE DEF n
  <2>2. SubSeq(cache, n + 1, Len(cache)) = <<>>
    BY <1>2, <1>3
  <2> QED
    BY <2>1, <2>2
<1>5. SizeOf(gone) >= pages
  BY <1>1, <1>2, <1>3, <1>4, ReclaimedEnough
<1> HIDE DEF n
<1>6. gone \subseteq kernel /\ cache[1] \in gone
  <2>1. gone \subseteq kernel
    <3>1. /\ IsQueue(SubSeq(cache, n + 1, Len(cache)), (kernel \ retained) \ gone)
          /\ gone \subseteq kernel \ retained /\ gone \subseteq Handles
      BY <1>2, <1>3, OldestLeft
    <3> QED
      BY <3>1
  <2>2. 1 \in 1 .. n
    BY <1>1, <1>3
  <2> QED
    BY <2>1, <2>2 DEF Oldest
<1> HIDE DEF gone
<1>7. /\ kernel \in SUBSET Handles /\ IsFiniteSet(kernel) /\ Cardinality(kernel) \in Nat
      /\ \A h \in Handles : size[h] \in Nat
  BY KernelIs
<1>8. /\ Total(size, kernel) = Total(size, kernel \ gone) + Total(size, gone)
      /\ Total(size, kernel \ gone) \in Nat /\ Total(size, gone) \in Nat
  BY <1>6, <1>7, TotalSplit
<1>9. SizeOf(gone) = Total(size, gone) /\ SizeOf(kernel \ gone) = Total(size, kernel \ gone)
  BY <1>6, <1>7, SizeIsTotal
<1>10. Cardinality(kernel \ gone) < Cardinality(kernel)
  <2>1. /\ IsFiniteSet(kernel \ {cache[1]})
        /\ Cardinality(kernel \ {cache[1]}) = Cardinality(kernel) - 1
    BY <1>6, <1>7, FS_RemoveElement
  <2>2. kernel \ gone \subseteq kernel \ {cache[1]}
    BY <1>6
  <2>3. Cardinality(kernel \ gone) <= Cardinality(kernel \ {cache[1]})
    BY <2>1, <2>2, FS_Subset
  <2>4. Cardinality(kernel \ gone) \in Nat
    BY <2>1, <2>2, FS_Subset, FS_CardinalityType
  <2> QED
    BY <1>7, <2>1, <2>3, <2>4
<1>11. MaxBuffers \in Nat /\ MemoryLimit \in Nat /\ pages \in Nat
  BY WinsysAssumption
<1>12. Cardinality(kernel \ gone) < MaxBuffers
  <2>1. Cardinality(kernel \ gone) \in Nat
    BY <1>7, FS_Subset, FS_CardinalityType
  <2> QED
    BY <1>7, <1>10, <1>11, <2>1 DEF RoomInv
<1>13. SizeOf(kernel \ gone) + pages <= MemoryLimit
  BY <1>5, <1>8, <1>9, <1>11 DEF RoomInv
<1> QED
  BY <1>1, <1>12, <1>13 DEF Room

-----------------------------------------------------------------------------
IInv == SleepInv /\ TableInv /\ RoomInv

\* Every call keeps it: GEM_CREATE with or without a reclaim, GEM_CLOSE, GEM_MADVISE, the
\* calls for syncobjs, and a submission however far it got (IntelWinsys.cpp).
THEOREM IrisInvariance == Spec => []IInv
<1>1. Init => IInv
  BY InitSleep, InitTable, InitRoom DEF IInv
<1>2. IInv /\ [Next]_vars => IInv'
  BY SleepStep, TableStep, RoomStep DEF IInv
<1> QED
  BY <1>1, <1>2, PTL DEF Spec

\* No thread sleeps on in wait_syncs, called for itself or for a fence of a submission,
\* once what it waits for is there or cannot come any more: every change of a syncobj that
\* a sleeper may wait for is told with notify_all.
THEOREM NoWakeupIsLost == Spec => []NoLostWakeup
<1>1. IInv => NoLostWakeup
  BY SleepIsPending DEF IInv
<1> QED
  BY <1>1, IrisInvariance, PTL

\* The table of the adapter and that of the kernel agree after every call, the ones that
\* failed half way included: the same buffers, at the same addresses.
THEOREM TablesAgree == Spec => []TableMatchesKernel
<1>1. IInv => TableMatchesKernel
  BY TableIsKernels DEF IInv
<1> QED
  BY <1>1, IrisInvariance, PTL

\* Whatever was bound before, a submission whose buffers exist and do not overlap gets
\* them where it asks for: the sweep leaves no neighbour in the way of one of them, and
\* to bind one leaves the others where they are.
THEOREM LayoutsAreTaken == Spec => []DisjointLayoutAccepted
<1>1. IInv => DisjointLayoutAccepted
  BY TableTakesLayouts DEF IInv
<1> QED
  BY <1>1, IrisInvariance, PTL

\* GEM_CREATE fails for want of room only when nothing is cached any more: what reclaim
\* closes is as many pages, and a buffer at the least, below the limits of the kernel.
THEOREM RefusedWithNothingCached == Spec => RefusedOnlyWhenCacheEmpty
<1> DEFINE A == \A pages \in Sizes :
                  CreateFails(pages) /\ ~Room(kernel', pages) => cache' = <<>>
<1>1. IInv /\ [Next]_vars => [A]_vars
  BY ReclaimMakesRoom DEF IInv
<1>2. Spec => [][A]_vars
  <2> HIDE DEF A
  <2> QED
    BY <1>1, IrisInvariance, PTL DEF Spec
<1> QED
  BY <1>2 DEF RefusedOnlyWhenCacheEmpty

-----------------------------------------------------------------------------
(***************************************************************************)
(* The display that the renderers of the OpenGL kit share.                 *)
(***************************************************************************)
\* The renderers that hold a reference.
Holders == {r \in Renderers : program[r] # "none"}

Steps == {"none", "built", "failed", "idle", "sized", "unlocked", "current", "rendering",
          "presenting", "presented"}

TypeInv ==
  /\ refs \in Int /\ current \in Nat /\ made \in Nat /\ failed \in BOOLEAN
  /\ program \in [Renderers -> Steps] /\ display \in [Renderers -> Nat]
  /\ IsFiniteSet(Holders)

\* Until a display could not be made: one reference for each holder, a display
\* while there is one, and the contexts are on it.
CountInv ==
  ~failed =>
    /\ refs = Cardinality(Holders)
    /\ (current = 0) <=> (Holders = {})
    /\ alive = IF current = 0 THEN {} ELSE {current}
    /\ \A r \in Renderers : display[r] \in {0, current}
    /\ \A r \in Renderers : program[r] = "none" => display[r] = 0

DisplayInv == TypeInv /\ CountInv

-----------------------------------------------------------------------------
\* The count says whether anyone holds a reference.
LEMMA HoldersAre ==
  ASSUME IsFiniteSet(Holders)
  PROVE  Cardinality(Holders) \in Nat /\ ((Cardinality(Holders) = 0) <=> (Holders = {}))
BY FS_CardinalityType, FS_EmptySet

LEMMA InitDisplay == GLInit => DisplayInv
<1> SUFFICES ASSUME GLInit PROVE DisplayInv
  OBVIOUS
<1>1. Holders = {} /\ IsFiniteSet(Holders)
  BY FS_EmptySet DEF GLInit, Holders
<1>2. TypeInv
  <2>1. program \in [Renderers -> Steps]
    BY DEF GLInit, Steps
  <2>2. display \in [Renderers -> Nat]
    BY DEF GLInit
  <2>3. refs \in Int /\ current \in Nat /\ made \in Nat
    BY DEF GLInit
  <2>4. failed \in BOOLEAN
    BY Zenon DEF GLInit
  <2> QED
    BY <1>1, <2>1, <2>2, <2>3, <2>4 DEF TypeInv
<1>3. Cardinality(Holders) = 0
  BY <1>1, HoldersAre
<1>4. CountInv
  BY <1>1, <1>3 DEF GLInit, CountInv
<1> QED
  BY <1>2, <1>4 DEF DisplayInv

\* A step of the threads between building and deletion.
LEMMA DisplayFrame ==
  ASSUME DisplayInv, UNCHANGED <<displays, display>>, program' \in [Renderers -> Steps],
         \A r \in Renderers : (program'[r] = "none") <=> (program[r] = "none")
  PROVE  DisplayInv'
<1>1. Holders' = Holders
  BY DEF Holders
<1>2. UNCHANGED <<refs, current, alive, made, failed, display>>
  BY DEF displays
<1>3. TypeInv'
  BY <1>1, <1>2 DEF DisplayInv, TypeInv
<1>4. CountInv'
  BY <1>1, <1>2 DEF DisplayInv, CountInv
<1> QED
  BY <1>3, <1>4 DEF DisplayInv

LEMMA CreateDisplayStep ==
  ASSUME DisplayInv, NEW r \in Renderers, CreateDisplay(r)
  PROVE  DisplayInv'
<1>1. /\ program[r] = "none" /\ program' = [program EXCEPT ![r] = "built"]
      /\ display' = display
  BY DEF CreateDisplay, Step
<1>2. r \notin Holders /\ Holders' = Holders \cup {r}
  BY <1>1 DEF Holders, DisplayInv, TypeInv
<1>3. /\ Cardinality(Holders') = Cardinality(Holders) + 1 /\ Holders' # {}
      /\ IsFiniteSet(Holders')
  BY <1>2, FS_AddElement DEF DisplayInv, TypeInv
<1>4. TypeInv'
  <2>1. program' \in [Renderers -> Steps] /\ display' \in [Renderers -> Nat]
    BY <1>1 DEF DisplayInv, TypeInv, Steps
  <2>2. refs' \in Int /\ current' \in Nat /\ made' \in Nat
    BY DEF CreateDisplay, DisplayInv, TypeInv
  <2>3. failed' \in BOOLEAN
    BY Zenon DEF CreateDisplay, DisplayInv, TypeInv
  <2> QED
    BY <1>3, <2>1, <2>2, <2>3 DEF TypeInv
<1>5. CASE refs > 0 /\ refs' = refs + 1 /\ UNCHANGED <<current, alive, made, failed>>
  <2> SUFFICES ASSUME ~failed PROVE CountInv'
    BY <1>4, <1>5 DEF DisplayInv, CountInv
  <2>1. Holders # {} /\ refs = Cardinality(Holders)
    BY <1>5, HoldersAre DEF DisplayInv, CountInv, TypeInv
  <2> QED
    BY <1>1, <1>3, <1>5, <2>1 DEF DisplayInv, CountInv, TypeInv
<1>6. CASE /\ refs <= 0 /\ made' = made + 1 /\ current' = made + 1
           /\ alive' = alive \cup {made + 1} /\ refs' = refs + 1 /\ failed' = failed
  <2> SUFFICES ASSUME ~failed PROVE CountInv'
    BY <1>4, <1>6 DEF DisplayInv, CountInv
  <2>1. Holders = {} /\ refs = Cardinality(Holders)
    BY <1>6, HoldersAre DEF DisplayInv, CountInv, TypeInv
  <2>2. current = 0 /\ alive = {} /\ current' # 0 /\ alive' = {current'}
    BY <1>6, <2>1 DEF DisplayInv, CountInv, TypeInv
  <2>3. \A s \in Renderers : display[s] = 0
    BY <2>2 DEF DisplayInv, CountInv
  <2> QED
    BY <1>1, <1>3, <1>6, <2>1, <2>2, <2>3 DEF CountInv
<1>7. CASE failed'
  BY <1>4, <1>7 DEF DisplayInv, CountInv
<1> QED
  BY <1>5, <1>6, <1>7 DEF CreateDisplay

LEMMA CreateContextStep ==
  ASSUME DisplayInv, NEW r \in Renderers, CreateContext(r)
  PROVE  DisplayInv'
<1>1. program[r] = "built" /\ UNCHANGED displays
  BY DEF CreateContext
<1>2. CASE current # 0 /\ program' = [program EXCEPT ![r] = "idle"]
           /\ display' = [display EXCEPT ![r] = current]
  <2>1. Holders' = Holders
    BY <1>1, <1>2 DEF Holders, DisplayInv, TypeInv
  <2>2. UNCHANGED <<refs, current, alive, made, failed>>
    BY <1>1 DEF displays
  <2>3. TypeInv'
    BY <1>2, <2>1, <2>2 DEF DisplayInv, TypeInv, Steps
  <2>4. \A s \in Renderers : /\ s # r => display'[s] = display[s] /\ program'[s] = program[s]
                             /\ display'[r] = current /\ program'[r] = "idle"
    BY <1>2 DEF DisplayInv, TypeInv
  <2>5. CountInv'
    BY <2>1, <2>2, <2>4 DEF DisplayInv, CountInv
  <2> QED
    BY <2>3, <2>5 DEF DisplayInv
<1>3. CASE program' = [program EXCEPT ![r] = "failed"] /\ display' = display
  <2>1. /\ program' \in [Renderers -> Steps]
        /\ \A s \in Renderers : (program'[s] = "none") <=> (program[s] = "none")
    BY <1>1, <1>3 DEF DisplayInv, TypeInv, Steps
  <2> QED
    BY <1>1, <1>3, <2>1, DisplayFrame
<1> QED
  BY <1>2, <1>3 DEF CreateContext

LEMMA DeleteStep ==
  ASSUME DisplayInv, NEW r \in Renderers, Delete(r)
  PROVE  DisplayInv'
<1>1. /\ program[r] # "none" /\ program' = [program EXCEPT ![r] = "none"]
      /\ display' = [display EXCEPT ![r] = 0] /\ refs' = refs - 1
      /\ UNCHANGED <<made, failed>>
  BY DEF Delete
<1>2. r \in Holders /\ Holders' = Holders \ {r}
  BY <1>1 DEF Holders, DisplayInv, TypeInv
<1>3. Cardinality(Holders') = Cardinality(Holders) - 1 /\ IsFiniteSet(Holders')
  BY <1>2, FS_RemoveElement DEF DisplayInv, TypeInv
<1>4. (Cardinality(Holders') = 0) <=> (Holders' = {})
  BY <1>3, FS_EmptySet
<1>5. \/ refs <= 1 /\ alive' = alive \ {current} /\ current' = 0
      \/ refs > 1 /\ UNCHANGED <<alive, current>>
  BY DEF Delete, LastReference, DisplayInv, TypeInv
<1>6. TypeInv'
  BY <1>1, <1>3, <1>5 DEF DisplayInv, TypeInv, Steps
<1>7. CountInv'
  <2> SUFFICES ASSUME ~failed PROVE CountInv'
    BY <1>1 DEF CountInv
  <2>1. refs = Cardinality(Holders) /\ current # 0 /\ alive = {current}
    BY <1>2 DEF DisplayInv, CountInv
  <2>2. (refs <= 1) <=> (Holders' = {})
    BY <1>2, <1>3, <1>4, <2>1, HoldersAre DEF DisplayInv, TypeInv
  <2>3. /\ refs' = Cardinality(Holders')
        /\ (current' = 0) <=> (Holders' = {})
        /\ alive' = IF current' = 0 THEN {} ELSE {current'}
    <3>1. refs' = Cardinality(Holders')
      BY <1>1, <1>3, <2>1
    <3>2. CASE Holders' = {}
      BY <1>5, <2>1, <2>2, <3>1, <3>2 DEF DisplayInv, TypeInv
    <3>3. CASE Holders' # {}
      BY <1>5, <2>1, <2>2, <3>1, <3>3 DEF DisplayInv, TypeInv
    <3> QED
      BY <3>2, <3>3
  <2>4. \A s \in Renderers :
          /\ program'[s] = IF s = r THEN "none" ELSE program[s]
          /\ display'[s] = IF s = r THEN 0 ELSE display[s]
    BY <1>1 DEF DisplayInv, TypeInv
  <2>5. \A s \in Renderers : program'[s] = "none" => display'[s] = 0
    BY <2>4 DEF DisplayInv, CountInv
  <2>6. \A s \in Renderers : display'[s] \in {0, current'}
    <3>1. CASE Holders' = {}
      BY <2>5, <3>1 DEF Holders
    <3>2. CASE Holders' # {}
      BY <1>5, <2>2, <2>4, <3>2 DEF DisplayInv, CountInv
    <3> QED
      BY <3>1, <3>2
  <2> QED
    BY <2>3, <2>5, <2>6 DEF CountInv
<1> QED
  BY <1>6, <1>7 DEF DisplayInv

LEMMA DisplayStep == DisplayInv /\ [GLNext]_glVars => DisplayInv'
<1> SUFFICES ASSUME DisplayInv, [GLNext]_glVars PROVE DisplayInv'
  OBVIOUS
<1>1. ASSUME NEW r \in Renderers, NEW from \in Steps, NEW to \in Steps, Step(r, from, to),
             from # "none", to # "none", UNCHANGED <<displays, display>>
      PROVE  DisplayInv'
  <2>1. /\ program' \in [Renderers -> Steps]
        /\ \A s \in Renderers : (program'[s] = "none") <=> (program[s] = "none")
    BY <1>1 DEF Step, DisplayInv, TypeInv
  <2> QED
    BY <1>1, <2>1, DisplayFrame
<1>2. ASSUME UNCHANGED <<displays, display, program>> PROVE DisplayInv'
  BY <1>2, DisplayFrame DEF DisplayInv, TypeInv
<1>3. ASSUME NEW r \in Renderers, CreateDisplay(r) \/ CreateContext(r) \/ Delete(r)
      PROVE  DisplayInv'
  BY <1>3, CreateDisplayStep, CreateContextStep, DeleteStep
<1>4. ASSUME NEW r \in Renderers, LockGL(r) \/ Render(r) \/ Swap(r) \/ UnlockGL(r)
      PROVE  DisplayInv'
  BY <1>1, <1>4 DEF LockGL, Render, Swap, UnlockGL, Steps
<1>5. ASSUME NEW r \in Renderers, ProgramStep(r) PROVE DisplayInv'
  BY <1>1, <1>5 DEF ProgramStep, LeaveInfo, SetCurrent, Display, Swapped, Steps
<1>6. ASSUME NEW r \in Renderers,
             (\E what \in {"draw", "resize"} : Message(r, what)) \/ WindowStep(r)
               \/ DirectConnected(r)
      PROVE  DisplayInv'
  BY <1>2, <1>6 DEF Message, WindowStep, FrameResized, Draw, Drawn,
                  DirectConnected
<1>7. ASSUME UNCHANGED glVars PROVE DisplayInv'
  BY <1>2, <1>7 DEF glVars
<1> QED
  BY <1>3, <1>4, <1>5, <1>6, <1>7 DEF GLNext

\* As long as no display failed to be made: the one display lives while a renderer has a
\* reference to it, and the contexts are on it (CreateDisplay and DestroyDisplay of
\* GalliumContext.cpp).
THEOREM DisplayLives == GLSpec => []DisplayLivesWhileUsed
<1>1. DisplayInv => DisplayLivesWhileUsed
  <2> SUFFICES ASSUME DisplayInv, ~failed
               PROVE  /\ alive = IF current = 0 THEN {} ELSE {current}
                      /\ refs = Cardinality(Holders)
                      /\ \A r \in Renderers : display[r] \in alive \cup {0}
    BY Zenon DEF DisplayLivesWhileUsed, Holders
  <2> QED
    BY DEF DisplayInv, CountInv
<1> QED
  BY <1>1, InitDisplay, DisplayStep, PTL DEF GLSpec
=============================================================================
