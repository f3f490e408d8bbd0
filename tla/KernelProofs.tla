---------------------------- MODULE KernelProofs ----------------------------
(***************************************************************************)
(* What holds in the driver of the kernel outside the render engine: of    *)
(* its device as it is opened and closed, and of a client's page tables.   *)
(***************************************************************************)
EXTENDS Device, MCPageTables, FiniteSetTheorems, Programs

-----------------------------------------------------------------------------
(***************************************************************************)
(* Device.  It is there while a file is open, no report visits a client    *)
(* that has been destroyed, and none says more than the programs used: for *)
(* every number of files, programs, slots and initialisations.             *)
(***************************************************************************)
\* A report that is at a slot.
AtSlot(f) == poll[f] # None /\ poll[f].stage = "clients"

IsPoll(p) ==
  p = [stage |-> p.stage, at |-> p.at, who |-> p.who, over |-> p.over, total |-> p.total,
       entries |-> p.entries]

FileInv ==
  /\ file \in [Files -> {"closed", "opening", "open", "freed"}]
  /\ gLock \in Files \cup {None}
  /\ \A f \in Files : file[f] = "opening" <=> gLock = f

\* Whoever is at a slot has the list's lock, and clients leave the list with it.
ListInv ==
  /\ list \in [Slots -> Files \cup {None}]
  /\ poll = [f \in Files |-> poll[f]]
  /\ \A f \in Files : poll[f] # None =>
       /\ file[f] = "open"
       /\ IsPoll(poll[f])
  /\ \A s \in Slots : list[s] # None => file[list[s]] = "open"
  /\ \A f \in Files : AtSlot(f) =>
       listLock = f /\ poll[f].who \in Files /\ file[poll[f].who] = "open"

Holders == {f \in Files : file[f] \in {"open", "freed"}}

InUse == Holders # {} \/ gLock # None

\* What was left over from earlier initialisations.
LeftOver(d) == \A r \in d.held : r[1] = "messages" \/ r[2] = d.current

DeviceType(d) ==
  /\ d = [status |-> d.status, current |-> d.current, held |-> d.held, gtt |-> d.gtt,
          ready |-> d.ready, total |-> d.total]
  /\ d.gtt # 0 => <<"registers", d.gtt>> \in d.held

\* An initialised device.
Whole(d) == d.status = "ok" /\ Needed \X {d.current} \subseteq d.held

\* A device without files.
Bare(d) == d.gtt = 0 /\ \A r \in d.held : r[1] = "messages"

DeviceInv ==
  /\ count = Cardinality(Holders)
  /\ DeviceType(device)
  /\ InUse => Whole(device)
  /\ InUse /\ fault = {} => LeftOver(device)
  /\ ~InUse /\ fault = {} => Bare(device)

IsClient(k) ==
  k = [engines |-> k.engines, busy |-> k.busy, ticks |-> k.ticks, told |-> k.told]

ClientsInv ==
  /\ client = [c \in Files |-> client[c]] /\ ran \in [Teams -> Nat]
  /\ \A c \in Files : IsClient(client[c]) /\ client[c].ticks \in Nat /\ client[c].told \in Nat

\* A report is at the slot of the client it visits, and visits none twice.
PlacesInv ==
  /\ \A f \in Files : poll[f] # None => poll[f].entries \in [Teams -> Nat]
  /\ \A f \in Files : poll[f] # None /\ poll[f].stage \in {"totals", "list"} =>
       poll[f].entries = [t \in Teams |-> 0]
  /\ \A f \in Files : AtSlot(f) => poll[f].at \in Slots /\ list[poll[f].at] = poll[f].who
  /\ \A s, r \in Slots : list[s] = list[r] /\ list[s] # None => s = r

\* What a report has read of the engines, against what the last one had.
Follows(d, last, over, total) ==
  over \subseteq last.over /\ last.total <= total + Total(d, last.over \ over)

Unread(p) == IF p.stage = "totals" THEN {"render"} ELSE {}

\* What a file knows of the engines: a report has every engine that is ready and was
\* read.
Knows(f) ==
  /\ client[f].engines \subseteq Engines
  /\ seen[f] # None =>
       /\ file[f] = "open" /\ seen[f].total \in Nat
       /\ Ready(f) \subseteq seen[f].over /\ seen[f].total <= Total(device, seen[f].over)
  /\ poll[f] # None =>
       /\ poll[f].total \in Nat /\ poll[f].total <= Total(device, poll[f].over)
       /\ Ready(f) \subseteq poll[f].over \cup Unread(poll[f])
       /\ poll[f].over \cap Unread(poll[f]) = {}
       /\ seen[f] # None => Follows(device, seen[f], poll[f].over, poll[f].total)

\* What each file knows is so; an engine's time only grows while the file is open.
SeenInv ==
  /\ device.total \in [Engines -> Nat] /\ seen = [f \in Files |-> seen[f]]
  /\ \A f \in Files : Knows(f)

\* The most that a report can be told of client c, now or when it is busy.
Most(c) == IF client[c].ticks > client[c].told THEN client[c].ticks ELSE client[c].told

Mine(t) == [c \in Files |-> IF Team[c] = t THEN Most(c) ELSE 0]

\* The clients that the report of f has not asked yet.
Ahead(f) ==
  IF poll[f].stage = "answer" THEN {}
  ELSE IF poll[f].stage # "clients" THEN Files
  ELSE {c \in Files : \E s \in Slots : s >= poll[f].at /\ list[s] = c}

\* sum[X] is what the files of X weigh together.
Measure(weight, sum) ==
  /\ sum[{}] = 0
  /\ \A X \in SUBSET Files : \A c \in X : sum[X] = sum[X \ {c}] + weight[c]
  /\ \A X, Y \in SUBSET Files : Y \subseteq X => sum[Y] <= sum[X]

\* What a report has of program t, with what the clients ahead of it may still
\* tell, is no more than the program used; nor is what all of them may tell.
Covered(t, sum) ==
  /\ sum[Files] <= ran[t]
  /\ \A f \in Files : poll[f] # None => poll[f].entries[t] + sum[Ahead(f)] <= ran[t]

Truth(t) == \E sum \in [SUBSET Files -> Nat] : Measure(Mine(t), sum) /\ Covered(t, sum)

ReportInv == ClientsInv /\ PlacesInv /\ SeenInv /\ \A t \in Teams : Truth(t)

IInv == FileInv /\ ListInv /\ DeviceInv /\ ReportInv

-----------------------------------------------------------------------------
(* Reports and the list. *)

\* The first slot of a set is one of them.
LEMMA LeastSlot ==
  ASSUME NEW T, T \subseteq Slots, T # {}
  PROVE  Min(T) \in T
BY LeastIs, DeviceAssumption

\* A report with these entries that is out of the list, or at slot n of it.
Answering(p, entries) ==
  [stage |-> "answer", at |-> 0, who |-> None, over |-> p.over, total |-> p.total,
   entries |-> entries]
AtNext(p, n, entries) ==
  [stage |-> "clients", at |-> n, who |-> list[n], over |-> p.over, total |-> p.total,
   entries |-> entries]

\* A report that goes on is out of the list, or comes to the next slot in use.
LEMMA OnwardIs ==
  ASSUME ListInv, NEW f \in Files, NEW entries, Onward(f, entries), poll[f] # None
  PROVE  /\ poll' = [g \in Files |-> poll'[g]]
         /\ \A g \in Files : g # f => poll'[g] = poll[g]
         /\ \/ poll'[f] = Answering(poll[f], entries)
            \/ /\ listLock' = f
               /\ \E n \in Slots : /\ n > poll[f].at /\ list[n] # None
                                   /\ poll'[f] = AtNext(poll[f], n, entries)
<1> DEFINE later == {s \in Slots : s > poll[f].at /\ list[s] # None}
<1>0. IsPoll(poll[f]) /\ poll = [g \in Files |-> poll[g]]
  BY DEF ListInv
<1>1. CASE later = {}
  <2>1. poll' = [poll EXCEPT ![f] = [[[[poll[f] EXCEPT !.stage = "answer"] EXCEPT !.at = 0]
                                      EXCEPT !.who = None] EXCEPT !.entries = entries]]
    BY <1>1 DEF Onward
  <2>2. /\ poll' = [g \in Files |-> poll'[g]] /\ \A g \in Files : g # f => poll'[g] = poll[g]
        /\ poll'[f] = [[[[poll[f] EXCEPT !.stage = "answer"] EXCEPT !.at = 0]
                         EXCEPT !.who = None] EXCEPT !.entries = entries]
    BY <1>0, <2>1
  <2>3. poll'[f] = Answering(poll[f], entries)
    BY <1>0, <2>2 DEF IsPoll, Answering
  <2> QED
    BY <2>2, <2>3
<1>2. CASE later # {}
  <2> DEFINE next == Min(later)
  <2>1. /\ poll' = [poll EXCEPT ![f] = [[[[poll[f] EXCEPT !.stage = "clients"] EXCEPT !.at = next]
                                        EXCEPT !.who = list[next]] EXCEPT !.entries = entries]]
        /\ listLock' = f
    BY <1>2 DEF Onward
  <2>2. next \in later
    BY <1>2, LeastSlot
  <2>3. next \in Slots /\ next > poll[f].at /\ list[next] # None
    BY <2>2
  <2> HIDE DEF later, next
  <2>4. /\ poll' = [g \in Files |-> poll'[g]] /\ \A g \in Files : g # f => poll'[g] = poll[g]
        /\ poll'[f] = [[[[poll[f] EXCEPT !.stage = "clients"] EXCEPT !.at = next]
                         EXCEPT !.who = list[next]] EXCEPT !.entries = entries]
    BY <1>0, <2>1
  <2>5. poll'[f] = AtNext(poll[f], next, entries)
    BY <1>0, <2>4 DEF IsPoll, AtNext
  <2> QED
    BY <2>1, <2>3, <2>4, <2>5
<1> QED
  BY <1>1, <1>2

LEMMA OnwardHas ==
  ASSUME ListInv, NEW f \in Files, NEW entries, Onward(f, entries), poll[f] # None
  PROVE  /\ poll'[f].entries = entries /\ poll'[f].over = poll[f].over
         /\ poll'[f].total = poll[f].total /\ poll'[f].stage # "totals"
<1>1. CASE poll'[f] = Answering(poll[f], entries)
  BY <1>1 DEF Answering
<1>2. ASSUME NEW n \in Slots, poll'[f] = AtNext(poll[f], n, entries)
      PROVE  /\ poll'[f].entries = entries /\ poll'[f].over = poll[f].over
             /\ poll'[f].total = poll[f].total /\ poll'[f].stage # "totals"
  BY <1>2 DEF AtNext
<1> QED
  BY <1>1, <1>2, OnwardIs

\* A report that goes on, alone at a slot or as the first.
LEMMA OnwardKeepsList ==
  ASSUME FileInv, ListInv, NEW f \in Files, NEW entries, Onward(f, entries), poll[f] # None,
         \A g \in Files : AtSlot(g) => g = f, UNCHANGED <<file, list>>
  PROVE  ListInv'
<1>1. poll' = [g \in Files |-> poll'[g]] /\ \A g \in Files : g # f => poll'[g] = poll[g]
  BY OnwardIs
<1>2. \A g \in Files : AtSlot(g)' => g = f
  BY <1>1 DEF AtSlot
<1>3. file[f] = "open"
  BY DEF ListInv
<1>4. CASE poll'[f] = Answering(poll[f], entries)
  <2>1. poll'[f].stage = "answer" /\ IsPoll(poll'[f])
    BY <1>4 DEF Answering, IsPoll
  <2>2. \A g \in Files : ~AtSlot(g)'
    BY <1>2, <2>1 DEF AtSlot
  <2> QED
    BY <1>1, <1>3, <2>1, <2>2 DEF ListInv
<1>5. CASE /\ listLock' = f
           /\ \E n \in Slots : list[n] # None /\ poll'[f] = AtNext(poll[f], n, entries)
  <2>1. PICK n \in Slots : list[n] # None /\ poll'[f] = AtNext(poll[f], n, entries)
    BY <1>5
  <2>2. poll'[f].who = list[n] /\ IsPoll(poll'[f])
    BY <2>1 DEF AtNext, IsPoll
  <2>3. list[n] \in Files /\ file[list[n]] = "open"
    BY <2>1 DEF ListInv
  <2> QED
    BY <1>1, <1>2, <1>3, <1>5, <2>2, <2>3 DEF ListInv
<1> QED
  BY <1>4, <1>5, OnwardIs

\* What the other steps make of a report.
LEMMA PollBeginIs ==
  ASSUME ListInv, NEW f \in Files, PollBegin(f)
  PROVE  /\ file[f] = "open" /\ UNCHANGED <<file, device, client, fault, ran, list, listLock, seen>>
         /\ ~AtSlot(f) /\ poll[f] = None
         /\ poll' = [g \in Files |-> poll'[g]] /\ \A g \in Files : g # f => poll'[g] = poll[g]
         /\ IsPoll(poll'[f]) /\ poll'[f].stage = "totals"
         /\ poll'[f].over = Ready(f) \cap {"blitter"}
         /\ poll'[f].total = Total(device, Ready(f) \cap {"blitter"})
         /\ poll'[f].entries = [t \in Teams |-> 0]
<1> DEFINE p == [stage |-> "totals", at |-> 0, who |-> None, over |-> Ready(f) \cap {"blitter"},
                 total |-> Total(device, Ready(f) \cap {"blitter"}),
                 entries |-> [t \in Teams |-> 0]]
<1>1. /\ file[f] = "open" /\ poll[f] = None /\ poll' = [poll EXCEPT ![f] = p]
      /\ UNCHANGED <<file, device, client, fault, ran, list, listLock, seen>>
  BY Zenon DEF PollBegin, opens, clients
<1>2. /\ p.stage = "totals" /\ p.over = Ready(f) \cap {"blitter"}
      /\ p.total = Total(device, Ready(f) \cap {"blitter"}) /\ p.entries = [t \in Teams |-> 0]
      /\ IsPoll(p)
  BY DEF IsPoll
<1> HIDE DEF p
<1>3. poll'[f] = p /\ poll' = [g \in Files |-> poll'[g]] /\ \A g \in Files : g # f => poll'[g] = poll[g]
  BY <1>1 DEF ListInv
<1> QED
  BY <1>1, <1>2, <1>3 DEF AtSlot

LEMMA PollTotalIs ==
  ASSUME ListInv, NEW f \in Files, PollTotal(f)
  PROVE  /\ file[f] = "open" /\ UNCHANGED <<file, device, client, fault, ran, list, listLock, seen>>
         /\ ~AtSlot(f) /\ poll[f] # None /\ poll[f].stage = "totals"
         /\ poll' = [g \in Files |-> poll'[g]] /\ \A g \in Files : g # f => poll'[g] = poll[g]
         /\ poll'[f] # None =>
              /\ IsPoll(poll'[f]) /\ poll'[f].stage = "list"
              /\ poll'[f].over = poll[f].over \cup (Ready(f) \cap {"render"})
              /\ poll'[f].total = poll[f].total + Total(device, Ready(f) \cap {"render"})
              /\ poll'[f].entries = poll[f].entries
<1> DEFINE more == Ready(f) \cap {"render"}
           total == poll[f].total + Total(device, more)
           over == poll[f].over \cup more
           p == [stage |-> "list", at |-> poll[f].at, who |-> poll[f].who, over |-> over,
                 total |-> total, entries |-> poll[f].entries]
<1>1. /\ poll[f] # None /\ poll[f].stage = "totals"
      /\ UNCHANGED <<file, device, client, fault, ran, list, listLock, seen>>
      /\ poll' = [poll EXCEPT ![f] = IF over = {} THEN None
                                     ELSE [poll[f] EXCEPT !.stage = "list", !.over = over,
                                                          !.total = total]]
  BY Zenon DEF PollTotal, opens, clients
<1>2. file[f] = "open" /\ IsPoll(poll[f]) /\ poll = [g \in Files |-> poll[g]]
  BY <1>1 DEF ListInv
<1> HIDE DEF over, more, total
<1>3. [poll[f] EXCEPT !.stage = "list", !.over = over, !.total = total] = p
  <2> DEFINE q == poll[f]
  <2>1. PICK stage, at, who, was, sum, entries :
          q = [stage |-> stage, at |-> at, who |-> who, over |-> was, total |-> sum,
               entries |-> entries]
    BY <1>2 DEF IsPoll
  <2>2. q.at = at /\ q.who = who /\ q.entries = entries
    BY <2>1
  <2> HIDE DEF q
  <2>3. [q EXCEPT !.stage = "list", !.over = over, !.total = total] =
          [stage |-> "list", at |-> at, who |-> who, over |-> over, total |-> total,
           entries |-> entries]
    <3> DEFINE one == [stage |-> "list", at |-> at, who |-> who, over |-> was, total |-> sum,
                       entries |-> entries]
               two == [stage |-> "list", at |-> at, who |-> who, over |-> over, total |-> sum,
                       entries |-> entries]
    <3>1. [q EXCEPT !.stage = "list"] = one
      BY <2>1
    <3>2. [one EXCEPT !.over = over] = two
      OBVIOUS
    <3>3. [two EXCEPT !.total = total] =
            [stage |-> "list", at |-> at, who |-> who, over |-> over, total |-> total,
             entries |-> entries]
      OBVIOUS
    <3> HIDE DEF one, two
    <3> QED
      BY <3>1, <3>2, <3>3
  <2> QED
    BY <2>2, <2>3 DEF q
<1>4. /\ p.stage = "list" /\ p.over = over /\ p.total = total /\ p.entries = poll[f].entries
      /\ IsPoll(p)
  BY DEF IsPoll
<1> HIDE DEF p
<1>5. /\ poll' = [g \in Files |-> poll'[g]] /\ \A g \in Files : g # f => poll'[g] = poll[g]
      /\ poll'[f] # None => poll'[f] = p
  BY <1>1, <1>2, <1>3
<1> QED
  BY <1>1, <1>2, <1>4, <1>5 DEF AtSlot, over, more, total

LEMMA PollAnswerIs ==
  ASSUME ListInv, NEW f \in Files, PollAnswer(f)
  PROVE  /\ file[f] = "open" /\ UNCHANGED <<file, device, client, fault, ran, list, listLock>>
         /\ ~AtSlot(f) /\ poll[f] # None /\ poll[f].stage = "answer" /\ poll'[f] = None
         /\ poll' = [g \in Files |-> poll'[g]] /\ \A g \in Files : g # f => poll'[g] = poll[g]
         /\ seen' = [seen EXCEPT ![f] = [over |-> poll[f].over, total |-> poll[f].total]]
BY DEF PollAnswer, ListInv, opens, clients, AtSlot

\* Nothing that the list or a report depends on changes.
LEMMA ListFrame ==
  ASSUME ListInv, UNCHANGED <<list, poll, listLock>>,
         \A f \in Files : file[f] = "open" => file'[f] = "open"
  PROVE  ListInv'
BY DEF ListInv, AtSlot

LEMMA ListStep ==
  ASSUME FileInv, ListInv, [Next]_vars
  PROVE  ListInv'
<1>1. ASSUME NEW f \in Files, Open(f) PROVE ListInv'
  BY <1>1, ListFrame DEF Open, reports, FileInv
<1>2. ASSUME NEW f \in Files, Register(f) PROVE ListInv'
  <2> DEFINE free == {s \in Slots : list[s] = None}
  <2>1. /\ file[f] = "opening" /\ file' = [file EXCEPT ![f] = "open"] /\ listLock = None
        /\ UNCHANGED <<poll, listLock>>
        /\ list' = IF free = {} THEN list ELSE [list EXCEPT ![Min(free)] = f]
    BY <1>2 DEF Register, reports
  <2>2. file'[f] = "open" /\ \A g \in Files : file[g] = "open" => file'[g] = "open"
    BY <2>1 DEF FileInv
  <2>3. CASE free = {}
    BY <2>1, <2>2, <2>3, ListFrame
  <2>4. CASE free # {}
    <3> DEFINE slot == Min(free)
    <3>1. slot \in free
      BY <2>4, LeastSlot
    <3>2. slot \in Slots /\ list' = [list EXCEPT ![slot] = f]
      BY <2>1, <2>4, <3>1
    <3> HIDE DEF free, slot
    <3>3. list' \in [Slots -> Files \cup {None}]
      BY <3>2 DEF ListInv
    <3>4. \A s \in Slots : list'[s] = IF s = slot THEN f ELSE list[s]
      BY <3>2 DEF ListInv
    <3>5. \A s \in Slots : list'[s] # None => file'[list'[s]] = "open"
      BY <2>2, <3>3, <3>4 DEF ListInv
    <3> QED
      BY <2>1, <2>2, <3>3, <3>5 DEF ListInv, AtSlot
  <2> QED
    BY <2>3, <2>4
<1>3. ASSUME NEW f \in Files, Unregister(f) PROVE ListInv'
  <2>1. /\ listLock = None /\ poll[f] = None /\ UNCHANGED <<poll, listLock>>
        /\ list' = [s \in Slots |-> IF list[s] = f THEN None ELSE list[s]]
        /\ file' = [file EXCEPT ![f] = "freed"]
    BY <1>3 DEF Unregister, Unlist
  <2>2. \A g \in Files : g # f => file'[g] = file[g]
    BY <2>1 DEF FileInv
  <2>3. list' \in [Slots -> Files \cup {None}] /\ \A s \in Slots : list'[s] # f \/ f = None
    BY <2>1 DEF ListInv
  <2>4. None \notin Files
    BY DeviceAssumption
  <2>5. \A s \in Slots : list'[s] # None => file'[list'[s]] = "open"
    BY <2>1, <2>2, <2>3, <2>4 DEF ListInv
  <2>6. \A g \in Files : ~AtSlot(g)
    BY <2>1, <2>4 DEF ListInv
  <2> QED
    BY <2>1, <2>2, <2>3, <2>5, <2>6 DEF ListInv, AtSlot
<1>4. ASSUME NEW f \in Files, Freed(f) PROVE ListInv'
  <2>1. /\ file[f] = "freed" /\ file' = [file EXCEPT ![f] = "closed"]
        /\ UNCHANGED <<list, poll, listLock>>
    BY <1>4 DEF Freed, clients, reports
  <2> QED
    BY <2>1, ListFrame DEF FileInv
<1>5. ASSUME NEW f \in Files, BeginSubmit(f) \/ EndSubmit(f) \/ DropContexts(f)
      PROVE  ListInv'
  BY <1>5, ListFrame DEF BeginSubmit, EndSubmit, DropContexts, opens, reports
<1>6. ASSUME NEW f \in Files, PollBegin(f) \/ PollTotal(f) \/ PollAnswer(f) PROVE ListInv'
  <2>1. /\ file[f] = "open" /\ UNCHANGED <<file, list, listLock>> /\ ~AtSlot(f)
        /\ poll' = [g \in Files |-> poll'[g]] /\ \A g \in Files : g # f => poll'[g] = poll[g]
        /\ poll'[f] # None => poll'[f].stage # "clients" /\ IsPoll(poll'[f])
    BY <1>6, PollBeginIs, PollTotalIs, PollAnswerIs
  <2>2. \A g \in Files : AtSlot(g)' => AtSlot(g) /\ g # f
    BY <2>1 DEF AtSlot
  <2> QED
    BY <2>1, <2>2 DEF ListInv
<1>7. ASSUME NEW f \in Files, PollLock(f) PROVE ListInv'
  <2>1. poll[f] # None /\ listLock = None /\ UNCHANGED <<file, list>>
        /\ Onward(f, poll[f].entries)
    BY <1>7 DEF PollLock, opens, clients
  <2>2. \A g \in Files : ~AtSlot(g)
    BY <2>1, DeviceAssumption DEF ListInv
  <2> QED
    BY <2>1, <2>2, OnwardKeepsList
<1>8. ASSUME NEW f \in Files, NEW c \in Files, PollRead(f, c) \/ PollTimeout(f, c)
      PROVE  ListInv'
  <2>1. AtSlot(f) /\ UNCHANGED <<file, list>>
    BY <1>8 DEF PollRead, PollTimeout, Visits, AtSlot, opens, clients
  <2>2. PICK entries : Onward(f, entries)
    BY <1>8 DEF PollRead, PollTimeout
  <2>3. \A g \in Files : AtSlot(g) => g = f
    BY <2>1 DEF ListInv
  <2> QED
    BY <2>1, <2>2, <2>3, OnwardKeepsList DEF AtSlot
<1>9. ASSUME UNCHANGED vars PROVE ListInv'
  BY <1>9, ListFrame DEF vars, opens, clients, reports
<1> QED
  BY <1>1, <1>2, <1>3, <1>4, <1>5, <1>6, <1>7, <1>8, <1>9 DEF Next, Continue

-----------------------------------------------------------------------------
(* Files and the device. *)

LEMMA HoldersAre ==
  /\ IsFiniteSet(Holders) /\ Cardinality(Holders) \in Nat
  /\ (Cardinality(Holders) = 0) <=> (Holders = {})
<1>1. Holders \subseteq Files /\ IsFiniteSet(Files)
  BY DeviceAssumption DEF Holders
<1>2. IsFiniteSet(Holders)
  BY <1>1, FS_Subset
<1> QED
  BY <1>2, FS_CardinalityType, FS_EmptySet

\* What intel_extreme_init leaves, if it succeeds.
LEMMA InitialisedIs ==
  ASSUME DeviceType(device), NEW d \in Initialised(device)
  PROVE  /\ DeviceType(d) /\ d.gtt = device.gtt /\ d.total = device.total
         /\ d.status = "ok" => Whole(d)
         /\ d.status = "ok" /\ Bare(device) => LeftOver(d)
         /\ d.status # "ok" => d.held = device.held
<1>1. device = [status |-> device.status, current |-> device.current, held |-> device.held,
                gtt |-> device.gtt, ready |-> device.ready, total |-> device.total]
  BY DEF DeviceType
<1>2. CASE d = [device EXCEPT !.status = "failed", !.current = 0]
  <2>1. d = [status |-> "failed", current |-> 0, held |-> device.held,
             gtt |-> device.gtt, ready |-> device.ready, total |-> device.total]
    BY <1>1, <1>2
  <2> QED
    BY <2>1 DEF DeviceType
<1>3. CASE d # [device EXCEPT !.status = "failed", !.current = 0]
  <2>1. PICK more \in Interrupts :
          d = [device EXCEPT !.status = "ok", !.current = inits + 1,
                             !.held = @ \cup ((Needed \cup more) \X {inits + 1})]
    BY <1>3 DEF Initialised
  <2>2. d = [status |-> "ok", current |-> inits + 1,
             held |-> device.held \cup ((Needed \cup more) \X {inits + 1}),
             gtt |-> device.gtt, ready |-> device.ready, total |-> device.total]
    BY <1>1, <2>1
  <2>3. Whole(d)
    BY <2>2 DEF Whole
  <2>4. Bare(device) => LeftOver(d)
    BY <2>2 DEF Bare, LeftOver
  <2>5. DeviceType(d)
    BY <2>2 DEF DeviceType
  <2> QED
    BY <2>2, <2>3, <2>4, <2>5
<1> QED
  BY <1>2, <1>3

\* A table is built on the registers that are mapped now.
LEMMA TranslatedIs ==
  ASSUME NEW d, DeviceType(d), Whole(d), NEW t \in Translated(d)
  PROVE  DeviceType(t) /\ Whole(t) /\ (LeftOver(d) => LeftOver(t)) /\ t.total = d.total
<1>1. CASE t = d
  BY <1>1
<1>2. CASE t # d
  <2>1. PICK ready \in Made : t = [d EXCEPT !.gtt = d.current, !.ready = ready]
    BY <1>2 DEF Translated
  <2>2. d = [status |-> d.status, current |-> d.current, held |-> d.held,
             gtt |-> d.gtt, ready |-> d.ready, total |-> d.total]
    BY DEF DeviceType
  <2>3. t = [status |-> d.status, current |-> d.current, held |-> d.held,
             gtt |-> d.current, ready |-> ready, total |-> d.total]
    BY <2>1, <2>2
  <2>4. <<"registers", d.current>> \in d.held
    BY DEF Whole, Needed
  <2> QED
    BY <2>3, <2>4 DEF DeviceType, Whole, LeftOver
<1> QED
  BY <1>1, <1>2

\* What uninit_device leaves.
LEMMA UninitIs ==
  ASSUME NEW d, DeviceType(d)
  PROVE  /\ DeviceType(Uninit(d)) /\ (fault = {} /\ LeftOver(d) => Bare(Uninit(d)))
         /\ Uninit(d).total \in {[e \in Engines |-> 0], d.total}
<1>1. CASE fault # {}
  BY <1>1 DEF Uninit
<1>2. CASE fault = {}
  <2>1. Uninit(d) = [status |-> "none", current |-> 0, held |-> d.held \ Released(d),
                     gtt |-> 0, ready |-> {}, total |-> [e \in Engines |-> 0]]
    BY <1>2 DEF Uninit, Fresh
  <2>2. \A r \in d.held \ Released(d) : r[2] = d.current => r[1] = "messages"
    BY DEF Released
  <2> QED
    BY <2>1, <2>2 DEF DeviceType, Bare, LeftOver
<1> QED
  BY <1>1, <1>2

\* Neither the files nor what is said of the device changes.
LEMMA FilesFrame ==
  ASSUME FileInv, DeviceInv, UNCHANGED <<file, gLock, count>>, fault \subseteq fault', DeviceType(device'), device'.status = device.status,
         device'.current = device.current, device'.held = device.held,
         device'.gtt = device.gtt
  PROVE  FileInv' /\ DeviceInv'
BY DEF FileInv, DeviceInv, InUse, Whole, LeftOver, Bare, Holders

LEMMA OpenStep ==
  ASSUME FileInv, DeviceInv, NEW f \in Files, Open(f)
  PROVE  FileInv' /\ DeviceInv'
<1>1. file[f] = "closed" /\ gLock = None /\ UNCHANGED <<count, fault>>
  BY DEF Open
<1>2. (count = 0) <=> (Holders = {})
  BY HoldersAre DEF DeviceInv
<1>3. PICK d \in IF count = 0 THEN Initialised(device) ELSE {device} :
        \/ d.status # "ok" /\ device' = d /\ UNCHANGED <<file, gLock, client>>
        \/ /\ d.status = "ok"
           /\ \E t \in Translated(d) :
                \/ /\ device' = IF count = 0 THEN Uninit(t) ELSE t
                   /\ UNCHANGED <<file, gLock, client>>
                \/ /\ device' = t
                   /\ gLock' = f /\ file' = [file EXCEPT ![f] = "opening"]
  BY DEF Open
<1>4. /\ DeviceType(d)
      /\ d.status = "ok" => Whole(d)
      /\ d.status = "ok" /\ fault = {} => LeftOver(d)
  BY <1>1, <1>2, <1>3, InitialisedIs DEF DeviceInv, InUse
<1>5. CASE d.status # "ok" /\ device' = d /\ UNCHANGED <<file, gLock, client>>
  <2>1. count = 0 /\ Holders = {}
    BY <1>2, <1>3, <1>5 DEF DeviceInv, InUse, Whole
  <2>2. d.gtt = device.gtt /\ d.held = device.held
    BY <1>3, <1>5, <2>1, InitialisedIs DEF DeviceInv
  <2>3. Holders' = Holders /\ ~InUse /\ ~InUse'
    BY <1>1, <1>5, <2>1 DEF Holders, InUse
  <2>4. FileInv'
    BY <1>1, <1>5 DEF FileInv
  <2>5. DeviceInv'
    BY <1>1, <1>4, <1>5, <2>2, <2>3 DEF DeviceInv, Bare
  <2> QED
    BY <2>4, <2>5
<1>6. ASSUME d.status = "ok", NEW t \in Translated(d),
             device' = IF count = 0 THEN Uninit(t) ELSE t, UNCHANGED <<file, gLock, client>>
      PROVE  FileInv' /\ DeviceInv'
  <2>1. DeviceType(t) /\ Whole(t) /\ (fault = {} => LeftOver(t))
    BY <1>4, <1>6, TranslatedIs
  <2>2. FileInv'
    BY <1>1, <1>6 DEF FileInv
  <2>3. Holders' = Holders /\ (InUse' <=> InUse) /\ (InUse <=> count # 0)
    BY <1>1, <1>2, <1>6 DEF Holders, InUse
  <2>4. CASE count = 0
    <3>1. DeviceType(device') /\ (fault = {} => Bare(device'))
      BY <1>6, <2>1, <2>4, UninitIs
    <3> QED
      BY <1>1, <2>2, <2>3, <2>4, <3>1 DEF DeviceInv
  <2>5. CASE count # 0
    BY <1>1, <1>6, <2>1, <2>2, <2>3, <2>5 DEF DeviceInv
  <2> QED
    BY <2>4, <2>5
<1>7. ASSUME d.status = "ok", NEW t \in Translated(d), device' = t, gLock' = f,
             file' = [file EXCEPT ![f] = "opening"]
      PROVE  FileInv' /\ DeviceInv'
  <2>1. DeviceType(t) /\ Whole(t) /\ (fault = {} => LeftOver(t))
    BY <1>4, <1>7, TranslatedIs
  <2>2. \A g \in Files : file'[g] = IF g = f THEN "opening" ELSE file[g]
    BY <1>7 DEF FileInv
  <2>3. f # None
    BY DeviceAssumption
  <2>4. FileInv'
    <3>1. file' \in [Files -> {"closed", "opening", "open", "freed"}]
      BY <1>7 DEF FileInv
    <3>2. \A g \in Files : file[g] # "opening"
      BY <1>1, DeviceAssumption DEF FileInv
    <3> QED
      BY <1>1, <1>7, <2>2, <3>1, <3>2 DEF FileInv
  <2>5. Holders' = Holders
    BY <1>1, <2>2 DEF Holders
  <2>6. InUse'
    BY <1>7, <2>3 DEF InUse
  <2> QED
    BY <1>1, <1>7, <2>1, <2>4, <2>5, <2>6 DEF DeviceInv
<1> QED
  BY <1>3, <1>5, <1>6, <1>7

LEMMA RegisterStep ==
  ASSUME FileInv, DeviceInv, NEW f \in Files, Register(f)
  PROVE  FileInv' /\ DeviceInv'
<1>1. /\ file[f] = "opening" /\ file' = [file EXCEPT ![f] = "open"]
      /\ count' = count + 1 /\ gLock' = None /\ UNCHANGED <<device, fault>>
  BY DEF Register
<1>2. \A g \in Files : file'[g] = IF g = f THEN "open" ELSE file[g]
  BY <1>1 DEF FileInv
<1>3. gLock = f /\ f # None
  BY <1>1, DeviceAssumption DEF FileInv
<1>4. FileInv'
  <2>1. file' \in [Files -> {"closed", "opening", "open", "freed"}]
    BY <1>1 DEF FileInv
  <2>2. \A g \in Files : file'[g] # "opening" /\ g # None
    BY <1>2, <1>3, DeviceAssumption DEF FileInv
  <2> QED
    BY <1>1, <2>1, <2>2 DEF FileInv
<1>5. f \notin Holders /\ Holders' = Holders \cup {f}
  BY <1>1, <1>2 DEF Holders
<1>6. Cardinality(Holders') = Cardinality(Holders) + 1
  BY <1>5, HoldersAre, FS_AddElement
<1>7. InUse /\ InUse'
  BY <1>3, <1>5 DEF InUse
<1> QED
  BY <1>1, <1>4, <1>6, <1>7 DEF DeviceInv

LEMMA UnregisterStep ==
  ASSUME FileInv, DeviceInv, NEW f \in Files, Unregister(f)
  PROVE  FileInv' /\ DeviceInv'
<1>1. /\ file[f] = "open" /\ file' = [file EXCEPT ![f] = "freed"]
      /\ UNCHANGED <<gLock, count, device, fault>>
  BY DEF Unregister, Unlist
<1>2. \A g \in Files : file'[g] = IF g = f THEN "freed" ELSE file[g]
  BY <1>1 DEF FileInv
<1>3. FileInv'
  <2>1. file' \in [Files -> {"closed", "opening", "open", "freed"}]
    BY <1>1 DEF FileInv
  <2> QED
    BY <1>1, <1>2, <2>1 DEF FileInv
<1>4. Holders' = Holders
  BY <1>1, <1>2 DEF Holders
<1> QED
  BY <1>1, <1>3, <1>4 DEF DeviceInv, InUse

LEMMA FreedStep ==
  ASSUME FileInv, DeviceInv, NEW f \in Files, Freed(f)
  PROVE  FileInv' /\ DeviceInv'
<1>1. /\ file[f] = "freed" /\ gLock = None /\ file' = [file EXCEPT ![f] = "closed"]
      /\ count' = count - 1 /\ UNCHANGED <<gLock, fault>>
      /\ device' = IF count = 1 THEN Uninit(device) ELSE device
  BY DEF Freed, clients
<1>2. \A g \in Files : file'[g] = IF g = f THEN "closed" ELSE file[g]
  BY <1>1 DEF FileInv
<1>3. FileInv'
  <2>1. file' \in [Files -> {"closed", "opening", "open", "freed"}]
    BY <1>1 DEF FileInv
  <2> QED
    BY <1>1, <1>2, <2>1 DEF FileInv
<1>4. f \in Holders /\ Holders' = Holders \ {f}
  BY <1>1, <1>2 DEF Holders
<1>5. /\ Cardinality(Holders') = Cardinality(Holders) - 1
      /\ (Cardinality(Holders') = 0) <=> (Holders' = {})
  BY <1>4, HoldersAre, FS_RemoveElement, FS_EmptySet
<1>6. InUse /\ (InUse' <=> Holders' # {})
  BY <1>1, <1>4 DEF InUse
<1>7. CASE count = 1
  <2>1. ~InUse'
    BY <1>5, <1>6, <1>7 DEF DeviceInv
  <2>2. DeviceType(device') /\ (fault = {} => Bare(device'))
    BY <1>1, <1>6, <1>7, UninitIs DEF DeviceInv
  <2> QED
    BY <1>1, <1>3, <1>5, <2>1, <2>2 DEF DeviceInv
<1>8. CASE count # 1
  <2>1. InUse'
    BY <1>5, <1>6, <1>8, HoldersAre DEF DeviceInv
  <2> QED
    BY <1>1, <1>3, <1>5, <1>6, <1>8, <2>1 DEF DeviceInv
<1> QED
  BY <1>7, <1>8

LEMMA FilesStep ==
  ASSUME FileInv, DeviceInv, [Next]_vars
  PROVE  FileInv' /\ DeviceInv'
<1>1. ASSUME UNCHANGED <<file, gLock, count, device, fault>> PROVE FileInv' /\ DeviceInv'
  BY <1>1, FilesFrame DEF FileInv, DeviceInv
<1>2. ASSUME NEW f \in Files, EndSubmit(f) PROVE FileInv' /\ DeviceInv'
  <2>1. UNCHANGED <<file, gLock, count>>
    BY <1>2 DEF EndSubmit
  <2>2. ASSUME NEW e, device' = [device EXCEPT !.total[e] = @ + 1], fault' = fault
        PROVE  FileInv' /\ DeviceInv'
    <3> DEFINE total == [device.total EXCEPT ![e] = @ + 1]
    <3>1. device = [status |-> device.status, current |-> device.current,
                    held |-> device.held, gtt |-> device.gtt, ready |-> device.ready,
                    total |-> device.total]
      BY DEF DeviceInv, DeviceType
    <3>2. device' = [device EXCEPT !.total = total]
      BY <2>2
    <3> HIDE DEF total
    <3>3. device' = [status |-> device.status, current |-> device.current,
                     held |-> device.held, gtt |-> device.gtt, ready |-> device.ready,
                     total |-> total]
      BY <3>1, <3>2
    <3>4. DeviceType(device')
      BY <3>3 DEF DeviceType, DeviceInv
    <3> QED
      BY <2>1, <2>2, <3>3, <3>4, FilesFrame DEF FileInv
  <2>3. ASSUME fault \subseteq fault', device' = device PROVE FileInv' /\ DeviceInv'
    BY <2>1, <2>3, FilesFrame DEF DeviceInv
  <2> QED
    BY <1>2, <2>2, <2>3 DEF EndSubmit
<1>3. ASSUME NEW f \in Files,
             \/ BeginSubmit(f) \/ DropContexts(f)
             \/ PollBegin(f) \/ PollTotal(f) \/ PollLock(f) \/ PollAnswer(f)
      PROVE  FileInv' /\ DeviceInv'
  <2>1. UNCHANGED <<file, gLock, count, device, fault>>
    BY Zenon, <1>3 DEF BeginSubmit, DropContexts, PollBegin, PollTotal, PollLock, PollAnswer,
       opens, clients
  <2> QED
    BY <1>1, <2>1
<1>4. ASSUME NEW f \in Files, NEW c \in Files, PollRead(f, c) \/ PollTimeout(f, c)
      PROVE  FileInv' /\ DeviceInv'
  BY <1>1, <1>4 DEF PollRead, PollTimeout, opens, clients
<1>5. ASSUME UNCHANGED vars PROVE FileInv' /\ DeviceInv'
  BY <1>1, <1>5 DEF vars, opens, clients
<1> QED
  BY <1>2, <1>3, <1>4, <1>5, OpenStep, RegisterStep, UnregisterStep, FreedStep DEF Next, Continue

-----------------------------------------------------------------------------
(* What a report says. *)

\* The sums when file c weighs v.
Reweighed(sum, new, c, v) ==
  \A X \in SUBSET Files : new[X] = IF c \in X THEN sum[X \ {c}] + v ELSE sum[X]

\* One file weighs something else: the sums of the others stay.
LEMMA Reweigh ==
  ASSUME NEW w \in [Files -> Nat], NEW sum \in [SUBSET Files -> Nat], Measure(w, sum),
         NEW c \in Files, NEW u \in [Files -> Nat], \A d \in Files : d # c => u[d] = w[d]
  PROVE  \E new \in [SUBSET Files -> Nat] : Measure(u, new) /\ Reweighed(sum, new, c, u[c])
<1> DEFINE v == u[c]
           new == [X \in SUBSET Files |-> IF c \in X THEN sum[X \ {c}] + v ELSE sum[X]]
<1>1. \A X \in SUBSET Files : new[X] = IF c \in X THEN sum[X \ {c}] + v ELSE sum[X]
  OBVIOUS
<1>2. \A X \in SUBSET Files : X \ {c} \in SUBSET Files
  OBVIOUS
<1>3. new \in [SUBSET Files -> Nat]
  <2>1. \A X \in SUBSET Files : (IF c \in X THEN sum[X \ {c}] + v ELSE sum[X]) \in Nat
    BY <1>2
  <2> QED
    BY <2>1
<1>4. u[c] = v /\ \A d \in Files : d # c => u[d] = w[d]
  OBVIOUS
<1> v \in Nat
  OBVIOUS
<1> HIDE DEF new, v
<1>5. new[{}] = 0
  <2>1. {} \in SUBSET Files
    OBVIOUS
  <2> QED
    BY <1>1, <2>1 DEF Measure
<1>6. ASSUME NEW X \in SUBSET Files, NEW d \in X PROVE new[X] = new[X \ {d}] + u[d]
  <2>1. X \ {d} \in SUBSET Files /\ d \in Files
    OBVIOUS
  <2>2. CASE d = c
    <3>1. new[X] = sum[X \ {c}] + v
      BY <1>1, <2>2
    <3>2. new[X \ {d}] = sum[X \ {c}]
      BY <1>1, <2>1, <2>2
    <3> QED
      BY <1>4, <2>2, <3>1, <3>2
  <2>3. CASE d # c /\ c \in X
    <3>1. new[X] = sum[X \ {c}] + v
      BY <1>1, <2>3
    <3>2. new[X \ {d}] = sum[(X \ {d}) \ {c}] + v
      BY <1>1, <2>1, <2>3
    <3>3. (X \ {d}) \ {c} = (X \ {c}) \ {d} /\ d \in X \ {c}
      BY <2>3
    <3>4. sum[X \ {c}] = sum[(X \ {c}) \ {d}] + w[d]
      BY <1>2, <3>3 DEF Measure
    <3>5. sum[(X \ {c}) \ {d}] \in Nat /\ w[d] \in Nat
      OBVIOUS
    <3>6. sum[(X \ {d}) \ {c}] = sum[(X \ {c}) \ {d}]
      BY Zenon, <3>3
    <3>7. u[d] = w[d]
      BY <1>4, <2>1, <2>3
    <3> QED
      BY <3>1, <3>2, <3>4, <3>5, <3>6, <3>7
  <2>4. CASE c \notin X
    <3>1. new[X] = sum[X] /\ new[X \ {d}] = sum[X \ {d}]
      BY <1>1, <2>1, <2>4
    <3>2. sum[X] = sum[X \ {d}] + w[d]
      BY DEF Measure
    <3> QED
      BY <1>4, <2>1, <2>4, <3>1, <3>2
  <2> QED
    BY <2>2, <2>3, <2>4
<1>7. ASSUME NEW X \in SUBSET Files, NEW Y \in SUBSET Files, Y \subseteq X
      PROVE  new[Y] <= new[X]
  <2>1. Y \ {c} \subseteq X \ {c} /\ Y \ {c} \in SUBSET Files /\ X \ {c} \in SUBSET Files
    BY <1>7
  <2>2. sum[Y \ {c}] <= sum[X \ {c}] /\ sum[Y] <= sum[X]
    BY <1>7, <2>1 DEF Measure
  <2>3. sum[Y \ {c}] \in Nat /\ sum[X \ {c}] \in Nat /\ sum[X] \in Nat /\ sum[Y] \in Nat
    BY <2>1
  <2>4. c \notin Y => Y \ {c} = Y
    OBVIOUS
  <2>5. c \notin Y => sum[Y] <= sum[X \ {c}]
    BY <2>2, <2>4
  <2>6. /\ new[X] = IF c \in X THEN sum[X \ {c}] + v ELSE sum[X]
        /\ new[Y] = IF c \in Y THEN sum[Y \ {c}] + v ELSE sum[Y]
    BY <1>1
  <2>7. c \in Y => c \in X
    BY <1>7
  <2> QED
    BY <2>2, <2>3, <2>5, <2>6, <2>7
<1>8. Measure(u, new)
  BY <1>5, <1>6, <1>7 DEF Measure
<1> QED
  BY <1>1, <1>3, <1>4, <1>8 DEF Reweighed

\* Only client c changed, and a report may be told at most extra more of it.
Grown(c, extra) ==
  /\ client' = [d \in Files |-> client'[d]]
  /\ \A d \in Files : d # c => client'[d] = client[d]
  /\ client'[c].ticks \in Nat /\ client'[c].told \in Nat
  /\ Most(c)' <= Most(c) + extra

\* What of it is program t's.
Share(c, t, extra) == IF Team[c] = t THEN extra ELSE 0

\* Sums that grew by no more than that, and only with client c in them.
GrowsBy(sum, new, c, more) ==
  \A X \in SUBSET Files : new[X] <= sum[X] + more /\ (c \notin X => new[X] = sum[X])

LEMMA MineType ==
  ASSUME ClientsInv
  PROVE  \A t \in Teams : Mine(t) \in [Files -> Nat]
BY DEF ClientsInv, Mine, Most

LEMMA MineGrows ==
  ASSUME ClientsInv, NEW c \in Files, NEW extra \in Nat, Grown(c, extra), NEW t \in Teams,
         NEW sum \in [SUBSET Files -> Nat], Measure(Mine(t), sum)
  PROVE  \E new \in [SUBSET Files -> Nat] :
           Measure(Mine(t)', new) /\ GrowsBy(sum, new, c, Share(c, t, extra))
<1> DEFINE v == IF Team[c] = t THEN Most(c)' ELSE 0
<1>1. Most(c) \in Nat /\ Most(c)' \in Nat
  BY DEF ClientsInv, Grown, Most
<1>2. v \in Nat /\ v <= Mine(t)[c] + Share(c, t, extra) /\ Share(c, t, extra) \in Nat
  BY <1>1 DEF Grown, Mine, Share
<1>3. Mine(t) \in [Files -> Nat]
  BY MineType
<1>4. /\ Mine(t)' \in [Files -> Nat] /\ Mine(t)'[c] = v
      /\ \A d \in Files : d # c => Mine(t)'[d] = Mine(t)[d]
  <2>1. \A d \in Files : d # c => Most(d)' = Most(d) /\ Most(d) \in Nat
    BY DEF Grown, Most, ClientsInv
  <2> QED
    BY <1>1, <2>1 DEF Mine
<1> HIDE DEF v
<1>5. PICK new \in [SUBSET Files -> Nat] :
        /\ Measure(Mine(t)', new)
        /\ \A X \in SUBSET Files : new[X] = IF c \in X THEN sum[X \ {c}] + v ELSE sum[X]
  <2> DEFINE w == Mine(t)
             u == Mine(t)'
  <2>1. /\ w \in [Files -> Nat] /\ Measure(w, sum)
        /\ u \in [Files -> Nat] /\ u[c] = v /\ \A d \in Files : d # c => u[d] = w[d]
    BY <1>3, <1>4
  <2> HIDE DEF w, u
  <2>2. \E new \in [SUBSET Files -> Nat] : Measure(u, new) /\ Reweighed(sum, new, c, u[c])
    BY <2>1, Reweigh
  <2> QED
    BY <2>1, <2>2 DEF u, Reweighed
<1>6. ASSUME NEW X \in SUBSET Files
      PROVE  new[X] <= sum[X] + Share(c, t, extra) /\ (c \notin X => new[X] = sum[X])
  <2>1. CASE c \in X
    <3>1. sum[X] = sum[X \ {c}] + Mine(t)[c]
      BY <2>1 DEF Measure
    <3>2. sum[X \ {c}] \in Nat /\ Mine(t)[c] \in Nat
      BY <1>3
    <3>3. new[X] = sum[X \ {c}] + v
      BY <1>5, <2>1
    <3> QED
      BY <1>2, <2>1, <3>1, <3>2, <3>3
  <2>2. CASE c \notin X
    <3>1. new[X] = sum[X] /\ sum[X] \in Nat
      BY <1>5, <2>2
    <3> QED
      BY <1>2, <2>2, <3>1
  <2> QED
    BY <2>1, <2>2
<1> QED
  BY <1>5, <1>6 DEF GrowsBy

\* What program t used has grown by as much.
Used(c, extra) ==
  /\ ran' \in [Teams -> Nat]
  /\ \A t \in Teams : ran'[t] = ran[t] + Share(c, t, extra)

LEMMA ClientsFrom ==
  ASSUME ClientsInv, NEW c \in Files, NEW extra \in Nat, Grown(c, extra), IsClient(client[c])',
         Used(c, extra)
  PROVE  ClientsInv'
BY DEF ClientsInv, IsClient, Grown, Used

\* A file whose client stays as it is.
LEMMA SameClient ==
  ASSUME ClientsInv, NEW c \in Files, client' = client
  PROVE  Grown(c, 0) /\ IsClient(client[c])'
BY DEF ClientsInv, IsClient, Grown, Most

LEMMA SameUse ==
  ASSUME ClientsInv, NEW c \in Files, ran' = ran
  PROVE  Used(c, 0)
BY DEF ClientsInv, Used, Share

\* The client of c is this one now.
Becomes(c, k) == client' = [client EXCEPT ![c] = k]

LEMMA BecomesClient ==
  ASSUME ClientsInv, NEW c \in Files, NEW extra \in Nat, NEW k, IsClient(k), Becomes(c, k),
         k.ticks \in Nat, k.told \in Nat,
         k.ticks <= Most(c) + extra, k.told <= Most(c) + extra
  PROVE  Grown(c, extra) /\ IsClient(client[c])'
<1>1. /\ client' = [d \in Files |-> client'[d]] /\ client'[c] = k
      /\ \A d \in Files : d # c => client'[d] = client[d]
  BY DEF ClientsInv, Becomes
<1>2. Most(c)' <= Most(c) + extra
  BY <1>1 DEF Most
<1>3. IsClient(client'[c])
  BY Zenon, <1>1
<1> QED
  BY <1>1, <1>2, <1>3 DEF Grown

\* Clients in which one field is another.
LEMMA ClientFields ==
  ASSUME NEW k, IsClient(k), NEW v
  PROVE  /\ LET m == [k EXCEPT !.busy = v]
            IN IsClient(m) /\ m.ticks = k.ticks /\ m.told = k.told
         /\ LET m == [k EXCEPT !.ticks = v]
            IN IsClient(m) /\ m.ticks = v /\ m.told = k.told
         /\ LET m == [k EXCEPT !.told = v]
            IN IsClient(m) /\ m.ticks = k.ticks /\ m.told = v
<1>1. k = [engines |-> k.engines, busy |-> k.busy, ticks |-> k.ticks, told |-> k.told]
  BY DEF IsClient
<1>2. /\ [k EXCEPT !.busy = v] =
           [engines |-> k.engines, busy |-> v, ticks |-> k.ticks, told |-> k.told]
      /\ [k EXCEPT !.ticks = v] =
           [engines |-> k.engines, busy |-> k.busy, ticks |-> v, told |-> k.told]
      /\ [k EXCEPT !.told = v] =
           [engines |-> k.engines, busy |-> k.busy, ticks |-> k.ticks, told |-> v]
  BY <1>1
<1> QED
  BY <1>2 DEF IsClient

\* What is known of a client before a step.
LEMMA ClientIs ==
  ASSUME ClientsInv, NEW c \in Files
  PROVE  /\ IsClient(client[c]) /\ Most(c) \in Nat
         /\ client[c].ticks \in Nat /\ client[c].ticks <= Most(c)
         /\ client[c].told \in Nat /\ client[c].told <= Most(c)
BY DEF ClientsInv, Most

LEMMA NewClient ==
  ASSUME ClientsInv, NEW c \in Files, NEW engines, Becomes(c, Client(engines))
  PROVE  Grown(c, 0) /\ IsClient(client[c])'
<1> DEFINE k == Client(engines)
<1>1. IsClient(k) /\ k.ticks = 0 /\ k.told = 0
  BY DEF Client, IsClient
<1>2. Becomes(c, k)
  OBVIOUS
<1> HIDE DEF k
<1> QED
  BY <1>1, <1>2, ClientIs, BecomesClient

LEMMA OpenClient ==
  ASSUME ClientsInv, NEW f \in Files, Open(f)
  PROVE  Grown(f, 0) /\ IsClient(client[f])'
<1>1. CASE client' = client
  BY <1>1, SameClient
<1>2. CASE client' # client
  <2>1. PICK engines : Becomes(f, Client(engines))
    BY <1>2 DEF Open, Becomes
  <2> QED
    BY <2>1, NewClient
<1> QED
  BY <1>1, <1>2

LEMMA SubmitClient ==
  ASSUME ClientsInv, NEW f \in Files, BeginSubmit(f) \/ DropContexts(f)
  PROVE  Grown(f, 0) /\ IsClient(client[f])'
<1>1. CASE BeginSubmit(f)
  <2>0. PICK e : client' = [client EXCEPT ![f].busy = {e}]
    BY Zenon, <1>1 DEF BeginSubmit
  <2> DEFINE k == [client[f] EXCEPT !.busy = {e}]
  <2>1. Becomes(f, k)
    BY Zenon, <2>0 DEF Becomes
  <2>2. IsClient(k) /\ k.ticks = client[f].ticks /\ k.told = client[f].told
    BY Zenon, ClientIs, ClientFields
  <2> HIDE DEF k
  <2> QED
    BY <2>1, <2>2, ClientIs, BecomesClient
<1>2. CASE DropContexts(f)
  <2>1. PICK left \in 0 .. client[f].ticks - 1 :
          client' = [client EXCEPT ![f] = [client[f] EXCEPT !.ticks = left]]
    BY Zenon, <1>2 DEF DropContexts
  <2> DEFINE k == [client[f] EXCEPT !.ticks = left]
  <2>2. Becomes(f, k)
    BY Zenon, <2>1 DEF Becomes
  <2>3. IsClient(k) /\ k.ticks = left /\ k.told = client[f].told
    BY ZenonT(40), ClientIs, ClientFields
  <2>4. left \in Nat /\ left <= Most(f)
    BY <2>1, ClientIs
  <2> HIDE DEF k
  <2> QED
    BY <2>2, <2>3, <2>4, ClientIs, BecomesClient
<1> QED
  BY <1>1, <1>2

LEMMA EndClient ==
  ASSUME ClientsInv, NEW f \in Files, EndSubmit(f)
  PROVE  \E extra \in Nat :
           Grown(f, extra) /\ IsClient(client[f])' /\ Used(f, extra)
<1> DEFINE idle == [client[f] EXCEPT !.busy = {}]
<1>1. IsClient(idle) /\ idle.ticks = client[f].ticks /\ idle.told = client[f].told
  BY ClientIs, ClientFields
<1>2. CASE /\ client' = [client EXCEPT ![f].busy = {}, ![f].ticks = @ + 1]
           /\ ran' = [ran EXCEPT ![Team[f]] = @ + 1]
  <2> DEFINE k == [idle EXCEPT !.ticks = client[f].ticks + 1]
  <2>1. Used(f, 1)
    BY <1>2, DeviceAssumption DEF ClientsInv, Used, Share
  <2>2. Becomes(f, k)
    BY <1>1, <1>2 DEF ClientsInv, Becomes
  <2> HIDE DEF idle
  <2>3. IsClient(k) /\ k.ticks = client[f].ticks + 1 /\ k.told = idle.told
    BY ZenonT(40), <1>1, ClientFields
  <2> HIDE DEF k
  <2>4. /\ k.ticks \in Nat /\ k.ticks <= Most(f) + 1
        /\ k.told \in Nat /\ k.told <= Most(f) + 1
    BY <1>1, <2>3, ClientIs
  <2>5. Grown(f, 1) /\ IsClient(client[f])'
    BY <2>2, <2>3, <2>4, BecomesClient
  <2> QED
    BY <2>1, <2>5
<1>3. CASE /\ client' = [client EXCEPT ![f].busy = {}]
           /\ ran' = ran
  <2>1. Used(f, 0)
    BY <1>3, SameUse
  <2>2. Becomes(f, idle)
    BY Zenon, <1>3 DEF Becomes
  <2> HIDE DEF idle
  <2>3. Grown(f, 0) /\ IsClient(client[f])'
    BY <1>1, <2>2, ClientIs, BecomesClient
  <2> QED
    BY <2>1, <2>3
<1> QED
  BY <1>2, <1>3 DEF EndSubmit

LEMMA ReadClient ==
  ASSUME ClientsInv, NEW f \in Files, NEW c \in Files, PollRead(f, c)
  PROVE  Grown(c, 0) /\ IsClient(client[c])'
<1> DEFINE k == [client[c] EXCEPT !.told = client[c].ticks]
<1>1. Becomes(c, k)
  BY Zenon DEF PollRead, Becomes
<1>2. IsClient(k) /\ k.ticks = client[c].ticks /\ k.told = client[c].ticks
  BY ClientIs, ClientFields
<1> HIDE DEF k
<1> QED
  BY <1>1, <1>2, ClientIs, BecomesClient

\* What a step may do to the report of g: it has nothing yet, it waits, or it
\* has asked client c, which told it no more than it may.
Empty(g, t) == poll'[g].entries[t] = 0

Waits(g, t) ==
  /\ poll[g] # None /\ poll'[g].entries[t] = poll[g].entries[t]
  /\ Ahead(g)' \subseteq Ahead(g)

Asked(g, c, t) ==
  /\ poll[g] # None /\ c \in Ahead(g) /\ Ahead(g)' \subseteq Ahead(g) \ {c}
  /\ poll'[g].entries[t] \in Nat
  /\ poll'[g].entries[t] <= poll[g].entries[t] + Mine(t)[c]

LEMMA TruthKept ==
  ASSUME ClientsInv, PlacesInv, NEW t \in Teams, Truth(t),
         NEW c \in Files, NEW extra \in Nat, Grown(c, extra), Used(c, extra),
         \A g \in Files : poll'[g] # None =>
           Empty(g, t) \/ Waits(g, t) \/ (Asked(g, c, t) /\ extra = 0)
  PROVE  Truth(t)'
<1>1. PICK sum \in [SUBSET Files -> Nat] : Measure(Mine(t), sum) /\ Covered(t, sum)
  BY DEF Truth
<1>2. PICK new \in [SUBSET Files -> Nat] :
        Measure(Mine(t)', new) /\ GrowsBy(sum, new, c, Share(c, t, extra))
  BY <1>1, MineGrows
<1> DEFINE more == Share(c, t, extra)
<1>3. /\ more \in Nat /\ ran[t] \in Nat /\ ran'[t] = ran[t] + more
      /\ extra = 0 => more = 0
  BY DEF ClientsInv, Used, Share
<1> HIDE DEF more
<1>4. \A X \in SUBSET Files : new[X] \in Nat /\ sum[X] \in Nat
  OBVIOUS
<1>5. \A g \in Files : Ahead(g) \in SUBSET Files /\ Ahead(g)' \in SUBSET Files
  BY DEF Ahead
<1>6. sum[Files] <= ran[t] /\ new[Files] <= ran'[t]
  BY <1>1, <1>2, <1>3, <1>4 DEF Covered, GrowsBy, more
<1>7. ASSUME NEW g \in Files, poll'[g] # None
      PROVE  poll'[g].entries[t] + new[Ahead(g)'] <= ran'[t]
  <2> DEFINE A == Ahead(g)
             B == Ahead(g)'
  <2>1. A \in SUBSET Files /\ B \in SUBSET Files
    BY <1>5
  <2>2. CASE Empty(g, t)
    <3>1. sum[B] <= sum[Files]
      BY <1>1, <2>1 DEF Measure
    <3>2. new[B] <= sum[B] + more
      BY <1>2, <2>1 DEF GrowsBy, more
    <3>3. poll'[g].entries[t] = 0
      BY <2>2 DEF Empty
    <3> HIDE DEF A, B
    <3>4. new[B] \in Nat /\ sum[B] \in Nat /\ sum[Files] \in Nat
      BY <1>4, <2>1
    <3>5. 0 + new[B] <= ran'[t]
      BY <1>3, <1>6, <3>1, <3>2, <3>4
    <3> QED
      BY <3>3, <3>5 DEF B
  <2>3. CASE Waits(g, t)
    <3>1. /\ poll[g] # None /\ poll'[g].entries[t] = poll[g].entries[t] /\ B \subseteq A
          /\ poll[g].entries[t] \in Nat
      BY <2>3 DEF Waits, PlacesInv
    <3>2. sum[B] <= sum[A]
      BY <1>1, <2>1, <3>1 DEF Measure
    <3>3. new[B] <= sum[B] + more
      BY <1>2, <2>1 DEF GrowsBy, more
    <3>4. poll[g].entries[t] + sum[A] <= ran[t]
      BY <1>1, <3>1 DEF Covered
    <3> HIDE DEF A, B
    <3>5. new[B] \in Nat /\ sum[B] \in Nat /\ sum[A] \in Nat
      BY <1>4, <2>1
    <3>6. poll'[g].entries[t] + new[B] <= ran'[t]
      BY <1>3, <3>1, <3>2, <3>3, <3>4, <3>5
    <3> QED
      BY <3>6 DEF B
  <2>4. CASE Asked(g, c, t) /\ extra = 0
    <3>1. /\ poll[g] # None /\ c \in A /\ B \subseteq A \ {c}
          /\ poll'[g].entries[t] \in Nat
          /\ poll'[g].entries[t] <= poll[g].entries[t] + Mine(t)[c]
          /\ poll[g].entries[t] \in Nat
      BY <2>4 DEF Asked, PlacesInv
    <3>2. A \ {c} \in SUBSET Files
      BY <2>1
    <3>3. sum[B] <= sum[A \ {c}] /\ sum[A] = sum[A \ {c}] + Mine(t)[c]
      BY <1>1, <2>1, <3>1, <3>2 DEF Measure
    <3>4. c \notin B
      BY <3>1
    <3>5. new[B] = sum[B]
      BY <1>2, <2>1, <3>4 DEF GrowsBy
    <3>6. poll[g].entries[t] + sum[A] <= ran[t]
      BY <1>1, <3>1 DEF Covered
    <3>7. Mine(t)[c] \in Nat
      BY MineType
    <3> HIDE DEF A, B
    <3>8. sum[B] \in Nat /\ sum[A] \in Nat /\ sum[A \ {c}] \in Nat
      BY <1>4, <2>1, <3>2
    <3>9. ran'[t] = ran[t]
      BY <1>3, <2>4
    <3>10. poll'[g].entries[t] + new[B] <= ran'[t]
      BY <1>3, <3>1, <3>3, <3>5, <3>6, <3>7, <3>8, <3>9
    <3> QED
      BY <3>10 DEF B
  <2> QED
    BY <1>7, <2>2, <2>3, <2>4
<1>8. Covered(t, new)'
  BY <1>6, <1>7 DEF Covered
<1>9. Measure(Mine(t), new)'
  BY <1>2
<1> QED
  BY <1>8, <1>9 DEF Truth

\* Reports and the list stay, or no report is at a slot of it.
LEMMA AllWait ==
  ASSUME PlacesInv, UNCHANGED poll, list' = list \/ \A g \in Files : ~AtSlot(g), NEW t \in Teams
  PROVE  \A g \in Files : poll'[g] # None => Waits(g, t)
BY DEF Waits, Ahead, AtSlot

LEMMA BeginTells ==
  ASSUME ListInv, NEW f \in Files, PollBegin(f), NEW t \in Teams
  PROVE  \A g \in Files : poll'[g] # None => Empty(g, t) \/ Waits(g, t)
<1>1. /\ poll'[f].entries = [u \in Teams |-> 0] /\ list' = list
      /\ \A g \in Files : g # f => poll'[g] = poll[g]
  BY PollBeginIs
<1>2. Empty(f, t)
  BY <1>1 DEF Empty
<1>3. \A g \in Files : g # f /\ poll'[g] # None => Waits(g, t)
  BY <1>1 DEF Waits, Ahead
<1> QED
  BY <1>2, <1>3

\* Reports that do not go on.
LEMMA OthersWait ==
  ASSUME NEW f \in Files, list' = list, \A g \in Files : g # f => poll'[g] = poll[g],
         NEW t \in Teams
  PROVE  \A g \in Files : g # f /\ poll'[g] # None => Waits(g, t)
BY DEF Waits, Ahead

LEMMA TotalTells ==
  ASSUME ListInv, NEW f \in Files, PollTotal(f), NEW t \in Teams
  PROVE  \A g \in Files : poll'[g] # None => Waits(g, t)
<1>1. /\ poll[f] # None /\ poll[f].stage = "totals" /\ list' = list
      /\ poll'[f] # None => poll'[f].stage = "list" /\ poll'[f].entries = poll[f].entries
      /\ \A g \in Files : g # f => poll'[g] = poll[g]
  BY PollTotalIs
<1>2. poll'[f] # None => Waits(f, t)
  BY <1>1 DEF Waits, Ahead
<1> QED
  BY <1>1, <1>2, OthersWait

LEMMA AnswerTells ==
  ASSUME ListInv, NEW f \in Files, PollAnswer(f), NEW t \in Teams
  PROVE  \A g \in Files : poll'[g] # None => Waits(g, t)
<1>1. poll'[f] = None /\ list' = list /\ \A g \in Files : g # f => poll'[g] = poll[g]
  BY PollAnswerIs
<1> QED
  BY <1>1, OthersWait

LEMMA LockTells ==
  ASSUME ListInv, PlacesInv, NEW f \in Files, PollLock(f), NEW t \in Teams
  PROVE  \A g \in Files : poll'[g] # None => Empty(g, t) \/ Waits(g, t)
<1>1. poll[f] # None /\ poll[f].stage = "list" /\ list' = list /\ Onward(f, poll[f].entries)
  BY DEF PollLock, clients
<1>2. poll[f].entries = [u \in Teams |-> 0]
  BY <1>1 DEF PlacesInv
<1>3. \A g \in Files : g # f /\ poll'[g] # None => Waits(g, t)
  BY <1>1, OnwardIs, OthersWait
<1>4. poll'[f] # None => Empty(f, t)
  <2> SUFFICES ASSUME poll'[f] # None PROVE Empty(f, t)
    OBVIOUS
  <2>1. poll'[f].entries = poll[f].entries
    BY <1>1, OnwardHas
  <2> QED
    BY <1>2, <2>1 DEF Empty
<1> QED
  BY <1>3, <1>4

\* A report that has asked a client for no more than it may tell.
LEMMA AskedTells ==
  ASSUME ListInv, PlacesInv, ClientsInv, NEW f \in Files, NEW c \in Files, Visits(f, c),
         list' = list, NEW used \in Nat, used <= Most(c), Onward(f, Added(f, c, used)),
         NEW t \in Teams
  PROVE  \A g \in Files : poll'[g] # None => Waits(g, t) \/ Asked(g, c, t)
<1>1. AtSlot(f) /\ poll[f] # None /\ poll[f].who = c
  BY DEF Visits, AtSlot
<1>2. poll[f].at \in Slots /\ list[poll[f].at] = c /\ poll[f].entries \in [Teams -> Nat]
  BY <1>1 DEF PlacesInv
<1>3. \A g \in Files : g # f /\ poll'[g] # None => Waits(g, t)
  BY <1>1, OnwardIs, OthersWait
<1> DEFINE entries == Added(f, c, used)
<1>4. /\ entries[t] \in Nat
      /\ entries[t] <= poll[f].entries[t] + Mine(t)[c]
  BY <1>2, DeviceAssumption DEF Added, Mine, Most, ClientsInv
<1> HIDE DEF entries
<1>5. Ahead(f) = {d \in Files : \E s \in Slots : s >= poll[f].at /\ list[s] = d}
  BY <1>1 DEF Ahead, AtSlot
<1>6. poll[f].at \in Nat /\ Slots \subseteq Nat
  BY <1>2, DeviceAssumption
<1>7. c \in Ahead(f)
  BY <1>2, <1>5, <1>6
<1>8. CASE poll'[f] = Answering(poll[f], entries)
  <2>1. poll'[f].stage = "answer" /\ poll'[f].entries = entries
    BY <1>8 DEF Answering
  <2>2. Ahead(f)' = {}
    BY <2>1 DEF Ahead
  <2>3. Asked(f, c, t)
    BY <1>1, <1>4, <1>7, <2>1, <2>2 DEF Asked
  <2> QED
    BY <1>3, <2>3
<1>9. ASSUME NEW n \in Slots, n > poll[f].at, poll'[f] = AtNext(poll[f], n, entries)
      PROVE  Asked(f, c, t)
  <2>1. poll'[f].stage = "clients" /\ poll'[f].at = n /\ poll'[f].entries = entries
    BY <1>9 DEF AtNext
  <2>2. n \in Nat
    BY <1>6
  <2>3. Ahead(f)' = {d \in Files : \E s \in Slots : s >= n /\ list[s] = d}
    BY <2>1 DEF Ahead
  <2>4. ASSUME NEW d \in Ahead(f)' PROVE d \in Ahead(f) /\ d # c
    <3>1. PICK s \in Slots : s >= n /\ list[s] = d
      BY <2>3
    <3>2. s > poll[f].at /\ s # poll[f].at
      BY <1>6, <1>9, <2>2, <3>1
    <3>3. d \in Files /\ d # None
      BY <2>3, DeviceAssumption
    <3>4. d # c
      BY <1>2, <3>1, <3>2, <3>3 DEF PlacesInv
    <3> QED
      BY <1>5, <1>6, <3>1, <3>2, <3>3, <3>4
  <2> QED
    BY <1>1, <1>4, <1>7, <2>1, <2>4 DEF Asked
<1> QED
  BY <1>1, <1>3, <1>8, <1>9, OnwardIs DEF entries

\* The clients and what the programs used, and with them what reports may say.
LEMMA ClientsStep ==
  ASSUME FileInv, ListInv, ClientsInv, PlacesInv, \A t \in Teams : Truth(t), [Next]_vars
  PROVE  ClientsInv' /\ \A t \in Teams : Truth(t)'
<1>1. ASSUME NEW f \in Files, Open(f) PROVE ClientsInv' /\ \A t \in Teams : Truth(t)'
  <2>1. Grown(f, 0) /\ IsClient(client[f])' /\ Used(f, 0)
    BY <1>1, OpenClient, SameUse DEF Open
  <2>2. UNCHANGED poll /\ list' = list
    BY <1>1 DEF Open, reports
  <2> QED
    BY <2>1, <2>2, ClientsFrom, AllWait, TruthKept
<1>2. ASSUME NEW f \in Files, Register(f) PROVE ClientsInv' /\ \A t \in Teams : Truth(t)'
  <2>1. Grown(f, 0) /\ IsClient(client[f])' /\ Used(f, 0)
    BY <1>2, SameClient, SameUse DEF Register
  <2>2. UNCHANGED poll /\ \A g \in Files : ~AtSlot(g)
    BY <1>2, DeviceAssumption DEF Register, reports, ListInv
  <2> QED
    BY <2>1, <2>2, ClientsFrom, AllWait, TruthKept
<1>3. ASSUME NEW f \in Files, Unregister(f) PROVE ClientsInv' /\ \A t \in Teams : Truth(t)'
  <2>1. Becomes(f, Client({})) /\ ran' = ran /\ UNCHANGED poll
    BY <1>3 DEF Unregister, Unlist, Becomes
  <2>2. Grown(f, 0) /\ IsClient(client[f])' /\ Used(f, 0)
    BY <2>1, NewClient, SameUse
  <2>3. \A g \in Files : ~AtSlot(g)
    BY <1>3, DeviceAssumption DEF Unregister, ListInv
  <2> QED
    BY <2>1, <2>2, <2>3, ClientsFrom, AllWait, TruthKept
<1>4. ASSUME NEW f \in Files, Freed(f) PROVE ClientsInv' /\ \A t \in Teams : Truth(t)'
  <2>1. Grown(f, 0) /\ IsClient(client[f])' /\ Used(f, 0)
    BY <1>4, SameClient, SameUse DEF Freed, clients
  <2>2. UNCHANGED poll /\ list' = list
    BY <1>4 DEF Freed, clients, reports
  <2> QED
    BY <2>1, <2>2, ClientsFrom, AllWait, TruthKept
<1>5. ASSUME NEW f \in Files, BeginSubmit(f) \/ DropContexts(f)
      PROVE  ClientsInv' /\ \A t \in Teams : Truth(t)'
  <2>1. Grown(f, 0) /\ IsClient(client[f])' /\ Used(f, 0)
    BY <1>5, SubmitClient, SameUse DEF BeginSubmit, DropContexts
  <2>2. UNCHANGED poll /\ list' = list
    BY <1>5 DEF BeginSubmit, DropContexts, reports
  <2> QED
    BY <2>1, <2>2, ClientsFrom, AllWait, TruthKept
<1>6. ASSUME NEW f \in Files, EndSubmit(f) PROVE ClientsInv' /\ \A t \in Teams : Truth(t)'
  <2>1. PICK extra \in Nat : Grown(f, extra) /\ IsClient(client[f])' /\ Used(f, extra)
    BY <1>6, EndClient
  <2>2. UNCHANGED poll /\ list' = list
    BY <1>6 DEF EndSubmit, reports
  <2> QED
    BY <2>1, <2>2, ClientsFrom, AllWait, TruthKept
<1>7. ASSUME NEW f \in Files, PollBegin(f) PROVE ClientsInv' /\ \A t \in Teams : Truth(t)'
  <2>1. Grown(f, 0) /\ IsClient(client[f])' /\ Used(f, 0)
    BY <1>7, SameClient, SameUse DEF PollBegin, clients
  <2> QED
    BY <1>7, <2>1, ClientsFrom, BeginTells, TruthKept
<1>12. ASSUME NEW f \in Files, PollTotal(f) PROVE ClientsInv' /\ \A t \in Teams : Truth(t)'
  <2>1. Grown(f, 0) /\ IsClient(client[f])' /\ Used(f, 0)
    BY <1>12, SameClient, SameUse DEF PollTotal, clients
  <2> QED
    BY <1>12, <2>1, ClientsFrom, TotalTells, TruthKept
<1>13. ASSUME NEW f \in Files, PollAnswer(f) PROVE ClientsInv' /\ \A t \in Teams : Truth(t)'
  <2>1. Grown(f, 0) /\ IsClient(client[f])' /\ Used(f, 0)
    BY <1>13, SameClient, SameUse DEF PollAnswer, clients
  <2> QED
    BY <1>13, <2>1, ClientsFrom, AnswerTells, TruthKept
<1>8. ASSUME NEW f \in Files, PollLock(f) PROVE ClientsInv' /\ \A t \in Teams : Truth(t)'
  <2>1. Grown(f, 0) /\ IsClient(client[f])' /\ Used(f, 0)
    BY <1>8, SameClient, SameUse DEF PollLock, clients
  <2> QED
    BY <1>8, <2>1, ClientsFrom, LockTells, TruthKept
<1>9. ASSUME NEW f \in Files, NEW c \in Files, PollRead(f, c)
      PROVE  ClientsInv' /\ \A t \in Teams : Truth(t)'
  <2>1. Grown(c, 0) /\ IsClient(client[c])' /\ Used(c, 0)
    BY <1>9, ReadClient, SameUse DEF PollRead
  <2>2. Visits(f, c) /\ list' = list /\ Onward(f, Added(f, c, client[c].ticks))
    BY <1>9 DEF PollRead
  <2>3. client[c].ticks \in Nat /\ client[c].ticks <= Most(c)
    BY ClientIs
  <2>4. \A t \in Teams : \A g \in Files : poll'[g] # None => Waits(g, t) \/ Asked(g, c, t)
    BY <2>2, <2>3, AskedTells
  <2> QED
    BY <2>1, <2>4, ClientsFrom, TruthKept
<1>10. ASSUME NEW f \in Files, NEW c \in Files, PollTimeout(f, c)
       PROVE  ClientsInv' /\ \A t \in Teams : Truth(t)'
  <2>1. Grown(c, 0) /\ IsClient(client[c])' /\ Used(c, 0)
    BY <1>10, SameClient, SameUse DEF PollTimeout, clients
  <2>2. Visits(f, c) /\ list' = list /\ Onward(f, Added(f, c, client[c].told))
    BY <1>10 DEF PollTimeout, clients
  <2>3. client[c].told \in Nat /\ client[c].told <= Most(c)
    BY ClientIs
  <2>4. \A t \in Teams : \A g \in Files : poll'[g] # None => Waits(g, t) \/ Asked(g, c, t)
    BY <2>2, <2>3, AskedTells
  <2> QED
    BY <2>1, <2>4, ClientsFrom, TruthKept
<1>11. ASSUME UNCHANGED vars PROVE ClientsInv' /\ \A t \in Teams : Truth(t)'
  <2>1. UNCHANGED <<client, ran, poll, list>>
    BY <1>11 DEF vars, clients, reports
  <2>2. ClientsInv'
    BY <2>1 DEF ClientsInv, IsClient
  <2>3. \A t \in Teams : Mine(t)' = Mine(t)
    BY <2>1 DEF Mine, Most
  <2>4. \A f \in Files : Ahead(f)' = Ahead(f)
    BY <2>1 DEF Ahead
  <2>5. ASSUME NEW t \in Teams PROVE Truth(t)'
    <3>1. PICK sum \in [SUBSET Files -> Nat] : Measure(Mine(t), sum) /\ Covered(t, sum)
      BY DEF Truth
    <3>2. Measure(Mine(t)', sum) /\ Covered(t, sum)'
      BY <2>1, <2>3, <2>4, <3>1 DEF Covered
    <3> QED
      BY <3>2 DEF Truth
  <2> QED
    BY <2>2, <2>5
<1> QED
  BY <1>1, <1>2, <1>3, <1>4, <1>5, <1>6, <1>7, <1>8, <1>9, <1>10, <1>11, <1>12, <1>13
     DEF Next, Continue

\* A report that goes on is at the slot of the next client.
LEMMA OnwardPlaces ==
  ASSUME ListInv, PlacesInv, NEW f \in Files, NEW entries \in [Teams -> Nat],
         Onward(f, entries), poll[f] # None, list' = list
  PROVE  PlacesInv'
<1>1. \A g \in Files : g # f => poll'[g] = poll[g]
  BY OnwardIs
<1>2. CASE poll'[f] = Answering(poll[f], entries)
  <2>1. poll'[f].stage = "answer" /\ poll'[f].entries = entries
    BY <1>2 DEF Answering
  <2> QED
    BY <1>1, <2>1 DEF PlacesInv, AtSlot
<1>3. ASSUME NEW n \in Slots, poll'[f] = AtNext(poll[f], n, entries) PROVE PlacesInv'
  <2>1. /\ poll'[f].stage = "clients" /\ poll'[f].entries = entries
        /\ poll'[f].at = n /\ poll'[f].who = list[n]
    BY <1>3 DEF AtNext
  <2> QED
    BY <1>1, <2>1 DEF PlacesInv, AtSlot
<1> QED
  BY <1>2, <1>3, OnwardIs

LEMMA PlacesStep ==
  ASSUME FileInv, ListInv, ClientsInv, PlacesInv, [Next]_vars
  PROVE  PlacesInv'
<1>1. ASSUME UNCHANGED <<poll, list>> PROVE PlacesInv'
  BY <1>1 DEF PlacesInv, AtSlot
<1>2. ASSUME NEW f \in Files, Register(f) PROVE PlacesInv'
  <2> DEFINE free == {s \in Slots : list[s] = None}
  <2>1. /\ file[f] = "opening" /\ listLock = None /\ UNCHANGED poll
        /\ list' = IF free = {} THEN list ELSE [list EXCEPT ![Min(free)] = f]
    BY <1>2 DEF Register, reports
  <2>2. \A g \in Files : ~AtSlot(g)
    BY <2>1, DeviceAssumption DEF ListInv
  <2>3. \A s \in Slots : list[s] # f
    BY <2>1, DeviceAssumption DEF ListInv
  <2>4. CASE free = {}
    BY <1>1, <2>1, <2>4
  <2>5. CASE free # {}
    <3> DEFINE slot == Min(free)
    <3>1. slot \in free
      BY <2>5, LeastSlot
    <3>2. slot \in Slots /\ list' = [list EXCEPT ![slot] = f]
      BY <2>1, <2>5, <3>1
    <3> HIDE DEF free, slot
    <3>3. \A s \in Slots : list'[s] = IF s = slot THEN f ELSE list[s]
      BY <3>2 DEF ListInv
    <3>4. \A s, r \in Slots : list'[s] = list'[r] /\ list'[s] # None => s = r
      BY <2>3, <3>3 DEF PlacesInv
    <3> QED
      BY <2>1, <2>2, <3>4 DEF PlacesInv, AtSlot
  <2> QED
    BY <2>4, <2>5
<1>3. ASSUME NEW f \in Files, Unregister(f) PROVE PlacesInv'
  <2>1. /\ listLock = None /\ UNCHANGED poll
        /\ list' = [s \in Slots |-> IF list[s] = f THEN None ELSE list[s]]
    BY <1>3 DEF Unregister, Unlist
  <2>2. \A g \in Files : ~AtSlot(g)
    BY <2>1, DeviceAssumption DEF ListInv
  <2>3. \A s, r \in Slots : list'[s] = list'[r] /\ list'[s] # None => s = r
    BY <2>1 DEF PlacesInv
  <2> QED
    BY <2>1, <2>2, <2>3 DEF PlacesInv, AtSlot
<1>4. ASSUME NEW f \in Files, PollBegin(f) \/ PollTotal(f) \/ PollAnswer(f) PROVE PlacesInv'
  <2>1. CASE PollBegin(f)
    <3>1. /\ poll'[f].stage = "totals" /\ poll'[f].entries = [t \in Teams |-> 0] /\ list' = list
          /\ \A g \in Files : g # f => poll'[g] = poll[g]
      BY <2>1, PollBeginIs
    <3> QED
      BY <3>1 DEF PlacesInv, AtSlot
  <2>2. CASE PollTotal(f)
    <3>1. /\ poll[f] # None /\ poll[f].stage = "totals" /\ list' = list
          /\ poll'[f] # None => poll'[f].stage = "list" /\ poll'[f].entries = poll[f].entries
          /\ \A g \in Files : g # f => poll'[g] = poll[g]
      BY <2>2, PollTotalIs
    <3> QED
      BY <3>1 DEF PlacesInv, AtSlot
  <2>3. CASE PollAnswer(f)
    <3>1. poll'[f] = None /\ list' = list /\ \A g \in Files : g # f => poll'[g] = poll[g]
      BY <2>3, PollAnswerIs
    <3> QED
      BY <3>1 DEF PlacesInv, AtSlot
  <2> QED
    BY <1>4, <2>1, <2>2, <2>3
<1>5. ASSUME NEW f \in Files, PollLock(f) PROVE PlacesInv'
  <2>1. poll[f] # None /\ list' = list /\ Onward(f, poll[f].entries)
    BY <1>5 DEF PollLock, clients
  <2>2. poll[f].entries \in [Teams -> Nat]
    BY <2>1 DEF PlacesInv
  <2> QED
    BY <2>1, <2>2, OnwardPlaces
<1>6. ASSUME NEW f \in Files, NEW c \in Files, PollRead(f, c) \/ PollTimeout(f, c)
      PROVE  PlacesInv'
  <2>1. PICK used \in Nat : Onward(f, Added(f, c, used))
    BY <1>6, ClientIs DEF PollRead, PollTimeout
  <2>2. poll[f] # None /\ list' = list
    BY <1>6 DEF PollRead, PollTimeout, Visits, clients
  <2>3. poll[f].entries \in [Teams -> Nat]
    BY <2>2 DEF PlacesInv
  <2>4. Added(f, c, used) \in [Teams -> Nat]
    BY <2>3, DeviceAssumption DEF Added
  <2> QED
    BY <2>1, <2>2, <2>4, OnwardPlaces
<1>7. ASSUME NEW f \in Files,
             Open(f) \/ Freed(f) \/ BeginSubmit(f) \/ EndSubmit(f) \/ DropContexts(f)
      PROVE  PlacesInv'
  BY <1>1, <1>7 DEF Open, Freed, BeginSubmit, EndSubmit, DropContexts, clients, reports
<1>8. ASSUME UNCHANGED vars PROVE PlacesInv'
  BY <1>1, <1>8 DEF vars, clients, reports
<1> QED
  BY <1>1, <1>2, <1>3, <1>4, <1>5, <1>6, <1>7, <1>8 DEF Next, Continue

\* What some engines have run is what some of them have and what the others have.
LEMMA TotalSplit ==
  ASSUME NEW d, d.total \in [Engines -> Nat], NEW S, NEW A, A \subseteq S
  PROVE  /\ Total(d, S) \in Nat /\ Total(d, A) \in Nat /\ Total(d, S \ A) \in Nat
         /\ Total(d, S) = Total(d, A) + Total(d, S \ A)
<1>1. d.total["blitter"] \in Nat /\ d.total["render"] \in Nat
  BY DEF Engines
<1> QED
  BY <1>1 DEF Total

LEMMA TotalGrows ==
  ASSUME NEW d, d.total \in [Engines -> Nat], NEW u, u.total \in [Engines -> Nat],
         \A e \in Engines : d.total[e] <= u.total[e], NEW S
  PROVE  /\ Total(d, S) \in Nat /\ Total(u, S) \in Nat
         /\ Total(d, S) <= Total(u, S)
<1>1. /\ d.total["blitter"] \in Nat /\ d.total["render"] \in Nat
      /\ u.total["blitter"] \in Nat /\ u.total["render"] \in Nat
      /\ d.total["blitter"] <= u.total["blitter"] /\ d.total["render"] <= u.total["render"]
  BY DEF Engines
<1> QED
  BY <1>1 DEF Total

\* A report of engines that are ready follows the last, whatever was read before.
LEMMA ReadyFollows ==
  ASSUME SeenInv, NEW f \in Files, seen[f] # None, NEW over, over \subseteq Ready(f)
  PROVE  Follows(device, seen[f], over, Total(device, over))
<1>1. /\ over \subseteq seen[f].over /\ seen[f].total <= Total(device, seen[f].over)
      /\ device.total \in [Engines -> Nat]
  BY DEF SeenInv, Knows
<1>2. Total(device, seen[f].over) =
        Total(device, over) + Total(device, seen[f].over \ over)
  BY <1>1, TotalSplit
<1> QED
  BY <1>1, <1>2 DEF Follows

\* Nothing that a file knows changes but its client, the engines that are ready, of
\* which there may be fewer, and what they have run, which may be more.
LEMMA KnowsStill ==
  ASSUME SeenInv, NEW f \in Files, poll'[f] = poll[f], seen'[f] = seen[f],
         poll[f] # None => file[f] = "open", device'.total \in [Engines -> Nat],
         client'[f].engines \subseteq Engines, fault \subseteq fault',
         file[f] = "open" => /\ file'[f] = "open" /\ client'[f].engines \subseteq client[f].engines
                             /\ \A e \in Engines : device.total[e] <= device'.total[e]
  PROVE  Knows(f)'
<1>1. CASE file[f] # "open"
  BY <1>1 DEF SeenInv, Knows
<1>2. CASE file[f] = "open"
  <2>1. Ready(f)' \subseteq Ready(f)
    BY <1>2 DEF Ready
  <2>2. \A S : /\ Total(device, S) \in Nat /\ Total(device', S) \in Nat
               /\ Total(device, S) <= Total(device', S)
    BY <1>2, TotalGrows DEF SeenInv, Knows
  <2>3. ASSUME NEW last, NEW over, NEW total \in Nat, last.total \in Nat,
               Follows(device, last, over, total)
        PROVE  Follows(device', last, over, total)
    <3>1. last.total <= total + Total(device, last.over \ over) /\ over \subseteq last.over
      BY <2>3 DEF Follows
    <3>2. last.total <= total + Total(device', last.over \ over)
      BY <2>2, <2>3, <3>1
    <3> QED
      BY <3>1, <3>2 DEF Follows
  <2>4. ASSUME seen[f] # None
        PROVE  /\ seen[f].total \in Nat
               /\ Ready(f)' \subseteq seen[f].over /\ seen[f].total <= Total(device', seen[f].over)
    BY <2>1, <2>2, <2>4 DEF SeenInv, Knows
  <2>5. ASSUME poll[f] # None
        PROVE  /\ poll[f].total \in Nat /\ poll[f].total <= Total(device', poll[f].over)
               /\ Ready(f)' \subseteq poll[f].over \cup Unread(poll[f])
               /\ poll[f].over \cap Unread(poll[f]) = {}
    BY <2>1, <2>2, <2>5 DEF SeenInv, Knows
  <2>6. ASSUME poll[f] # None, seen[f] # None
        PROVE  Follows(device', seen[f], poll[f].over, poll[f].total)
    <3>1. Follows(device, seen[f], poll[f].over, poll[f].total)
      BY <2>6 DEF SeenInv, Knows
    <3> QED
      BY <2>3, <2>4, <2>5, <2>6, <3>1
  <2>7. Unread(poll'[f]) = Unread(poll[f])
    OBVIOUS
  <2> QED
    BY <1>2, <2>4, <2>5, <2>6, <2>7 DEF Knows
<1> QED
  BY <1>1, <1>2

\* Neither what the files have seen nor the reports change.
LEMMA SeenFrame ==
  ASSUME ListInv, SeenInv, UNCHANGED <<poll, seen>>, device'.total \in [Engines -> Nat],
         fault \subseteq fault', \A f \in Files : client'[f].engines \subseteq Engines,
         \A f \in Files : file[f] = "open" =>
           /\ file'[f] = "open" /\ client'[f].engines \subseteq client[f].engines
           /\ \A e \in Engines : device.total[e] <= device'.total[e]
  PROVE  SeenInv'
<1>1. \A f \in Files : poll[f] # None => file[f] = "open"
  BY DEF ListInv
<1>2. \A f \in Files : Knows(f)'
  BY <1>1, KnowsStill
<1>3. seen' = [f \in Files |-> seen'[f]]
  BY DEF SeenInv, Knows
<1> QED
  BY <1>2, <1>3 DEF SeenInv

\* The total of a device that is opened.
LEMMA OpenTotal ==
  ASSUME FileInv, DeviceInv, SeenInv, NEW f \in Files, Open(f)
  PROVE  /\ device'.total \in [Engines -> Nat]
         /\ count # 0 => device'.total = device.total
<1>1. PICK d \in IF count = 0 THEN Initialised(device) ELSE {device} :
        \/ d.status # "ok" /\ device' = d
        \/ /\ d.status = "ok"
           /\ \E t \in Translated(d) :
                device' = (IF count = 0 THEN Uninit(t) ELSE t) \/ device' = t
  BY DEF Open
<1>2. d.total = device.total /\ DeviceType(d) /\ (d.status = "ok" => Whole(d))
  BY <1>1, InitialisedIs, HoldersAre DEF DeviceInv, InUse
<1>3. /\ device.total \in [Engines -> Nat]
      /\ [e \in Engines |-> 0] \in [Engines -> Nat]
  BY DEF SeenInv, Knows
<1>4. ASSUME d.status = "ok", NEW t \in Translated(d),
             device' = (IF count = 0 THEN Uninit(t) ELSE t) \/ device' = t
      PROVE  /\ device'.total \in {[e \in Engines |-> 0], device.total}
             /\ count # 0 => device'.total = device.total
  BY <1>2, <1>4, TranslatedIs, UninitIs
<1> QED
  BY <1>1, <1>2, <1>3, <1>4

\* A client that is opened is on engines that there are.
LEMMA OpenEngines ==
  ASSUME ClientsInv, SeenInv, NEW f \in Files, Open(f)
  PROVE  /\ \A g \in Files : client'[g].engines \subseteq Engines
         /\ \A g \in Files : g # f => client'[g] = client[g]
<1>1. CASE client' = client
  BY <1>1 DEF SeenInv, Knows
<1>2. CASE client' # client
  <2>1. PICK engines, ready :
          /\ engines \in Contexts[f]
          /\ client' = [client EXCEPT ![f] = Client(engines \cap (ready \ fault))]
    BY <1>2 DEF Open
  <2>2. engines \subseteq Engines
    BY <2>1, DeviceAssumption
  <2>3. Client(engines \cap (ready \ fault)).engines \subseteq Engines
    BY <2>2 DEF Client
  <2> HIDE DEF Client
  <2>4. /\ client'[f] = Client(engines \cap (ready \ fault))
        /\ \A g \in Files : g # f => client'[g] = client[g]
    BY <2>1 DEF ClientsInv
  <2> QED
    BY <2>3, <2>4 DEF SeenInv, Knows
<1> QED
  BY <1>1, <1>2

\* The engines of a client stay.
LEMMA EnginesStay ==
  ASSUME ClientsInv, NEW f \in Files, NEW c \in Files,
         BeginSubmit(f) \/ EndSubmit(f) \/ DropContexts(f) \/ PollRead(f, c)
  PROVE  \A g \in Files : client'[g].engines = client[g].engines
<1>1. \A g \in Files : client = [h \in Files |-> client[h]] /\ IsClient(client[g])
  BY DEF ClientsInv
<1>2. ASSUME NEW g \in Files, NEW k, NEW v,
             k \in {[client[g] EXCEPT !.busy = v], [client[g] EXCEPT !.ticks = v],
                    [client[g] EXCEPT !.told = v]}
      PROVE  k.engines = client[g].engines
  BY <1>1, <1>2 DEF IsClient
<1>3. ASSUME NEW g \in Files, NEW v,
             \/ client' = [client EXCEPT ![g].busy = v]
             \/ client' = [client EXCEPT ![g].ticks = v]
             \/ client' = [client EXCEPT ![g].told = v]
      PROVE  \A h \in Files : client'[h].engines = client[h].engines
  <2>1. \A h \in Files : h # g => client'[h] = client[h]
    BY <1>1, <1>3
  <2>2. client'[g] \in {[client[g] EXCEPT !.busy = v], [client[g] EXCEPT !.ticks = v],
                        [client[g] EXCEPT !.told = v]}
    BY <1>1, <1>3
  <2> QED
    BY <1>2, <2>1, <2>2
<1>4. CASE BeginSubmit(f)
  BY <1>3, <1>4 DEF BeginSubmit
<1>5. CASE DropContexts(f)
  BY <1>3, <1>5 DEF DropContexts
<1>6. CASE PollRead(f, c)
  BY <1>3, <1>6 DEF PollRead
<1>7. CASE EndSubmit(f)
  <2>1. CASE client' = [client EXCEPT ![f].busy = {}]
    BY <1>3, <2>1
  <2>2. CASE client' = [client EXCEPT ![f].busy = {}, ![f].ticks = @ + 1]
    <3>1. \A h \in Files : h # f => client'[h] = client[h]
      BY <1>1, <2>2
    <3>2. client'[f] = [[client[f] EXCEPT !.busy = {}] EXCEPT !.ticks = client[f].ticks + 1]
      BY <1>1, <2>2 DEF IsClient
    <3>3. client'[f].engines = client[f].engines
      BY <1>1, <3>2 DEF IsClient
    <3> QED
      BY <3>1, <3>3
  <2> QED
    BY <1>7, <2>1, <2>2 DEF EndSubmit
<1> QED
  BY <1>4, <1>5, <1>6, <1>7

\* A file other than f, whose report moved.
LEMMA OthersKnow ==
  ASSUME ListInv, SeenInv, NEW f \in Files, UNCHANGED <<file, device, fault>>,
         \A g \in Files : client'[g].engines = client[g].engines,
         \A g \in Files : g # f => poll'[g] = poll[g] /\ seen'[g] = seen[g],
         seen' = [g \in Files |-> seen'[g]], Knows(f)'
  PROVE  SeenInv'
<1>1. /\ device'.total \in [Engines -> Nat]
      /\ \A e \in Engines : device.total[e] <= device'.total[e]
      /\ \A g \in Files : client[g].engines \subseteq Engines
  BY DEF SeenInv, Knows
<1>2. \A g \in Files : poll[g] # None => file[g] = "open"
  BY DEF ListInv
<1>3. ASSUME NEW g \in Files, g # f PROVE Knows(g)'
  BY <1>1, <1>2, <1>3, KnowsStill
<1> QED
  BY <1>1, <1>3 DEF SeenInv

\* A report that goes on has the total it began with.
LEMMA OnwardSeen ==
  ASSUME ListInv, SeenInv, NEW f \in Files, NEW entries, Onward(f, entries), poll[f] # None,
         poll[f].stage # "totals", UNCHANGED <<file, device, fault, seen>>,
         \A g \in Files : client'[g].engines = client[g].engines
  PROVE  SeenInv'
<1>2. /\ poll'[f].over = poll[f].over /\ poll'[f].total = poll[f].total
      /\ poll'[f].stage # "totals"
  BY OnwardHas
<1>3. Unread(poll'[f]) = {} /\ Unread(poll[f]) = {}
  BY <1>2 DEF Unread
<1>4. Ready(f)' = Ready(f)
  BY DEF Ready
<1>5. Knows(f)'
  BY <1>2, <1>3, <1>4 DEF SeenInv, Knows
<1>6. \A g \in Files : g # f => poll'[g] = poll[g]
  BY OnwardIs
<1>7. seen' = [g \in Files |-> seen'[g]]
  BY DEF SeenInv, Knows
<1> QED
  BY <1>5, <1>6, <1>7, OthersKnow

LEMMA BeginSeen ==
  ASSUME ListInv, SeenInv, NEW f \in Files, PollBegin(f)
  PROVE  SeenInv'
<1> DEFINE over == Ready(f) \cap {"blitter"}
<1>1. /\ file[f] = "open" /\ UNCHANGED <<file, device, client, fault, seen>>
      /\ poll'[f].over = over /\ poll'[f].total = Total(device, over)
      /\ poll'[f].stage = "totals"
      /\ \A g \in Files : g # f => poll'[g] = poll[g]
  BY PollBeginIs
<1>2. over \subseteq Ready(f) /\ over \cap {"render"} = {}
  OBVIOUS
<1>3. Ready(f) \subseteq over \cup {"render"}
  BY DEF SeenInv, Knows, Ready, Engines
<1> HIDE DEF over
<1>4. Total(device, over) \in Nat
  BY TotalSplit DEF SeenInv, Knows
<1>5. seen[f] # None => Follows(device, seen[f], over, Total(device, over))
  BY <1>2, ReadyFollows
<1>6. /\ Ready(f)' = Ready(f)
      /\ seen[f] # None => Follows(device', seen'[f], over, Total(device, over))
  BY <1>1, <1>5 DEF Ready, Follows
<1>7. Unread(poll'[f]) = {"render"}
  BY <1>1 DEF Unread
<1>8. Knows(f)'
  BY <1>1, <1>2, <1>3, <1>4, <1>6, <1>7 DEF SeenInv, Knows
<1>9. seen' = [g \in Files |-> seen'[g]]
  BY <1>1 DEF SeenInv, Knows
<1> QED
  BY <1>1, <1>8, <1>9, OthersKnow

LEMMA TotalSeen ==
  ASSUME ListInv, SeenInv, NEW f \in Files, PollTotal(f)
  PROVE  SeenInv'
<1> DEFINE more == Ready(f) \cap {"render"}
           was == poll[f].over
           over == was \cup more
           total == poll[f].total + Total(device, more)
<1>1. /\ file[f] = "open" /\ UNCHANGED <<file, device, client, fault, seen>>
      /\ poll[f] # None /\ poll[f].stage = "totals"
      /\ poll'[f] # None => /\ poll'[f].over = over /\ poll'[f].total = total
                            /\ poll'[f].stage = "list"
      /\ \A g \in Files : g # f => poll'[g] = poll[g]
  BY PollTotalIs
<1>2. /\ device.total \in [Engines -> Nat]
      /\ poll[f].total \in Nat /\ poll[f].total <= Total(device, was)
      /\ Ready(f) \subseteq was \cup {"render"} /\ was \cap {"render"} = {}
  BY <1>1 DEF SeenInv, Knows, Unread
<1>3. over \ was = more /\ was \subseteq over /\ Ready(f) \subseteq over
  BY <1>2
<1>4. /\ Total(device, more) \in Nat /\ Total(device, was) \in Nat
      /\ Total(device, over) = Total(device, was) + Total(device, more)
  <2> HIDE DEF over, more, was
  <2>1. /\ Total(device, was) \in Nat /\ Total(device, over \ was) \in Nat
        /\ Total(device, over) = Total(device, was) + Total(device, over \ was)
    BY <1>2, <1>3, TotalSplit
  <2> QED
    BY <1>3, <2>1
<1>5. total \in Nat /\ total <= Total(device, over)
  <2> HIDE DEF over, more, was
  <2> QED
    BY <1>2, <1>4
<1>6. ASSUME seen[f] # None PROVE Follows(device, seen[f], over, total)
  <2> DEFINE rest == seen[f].over \ was
  <2>1. /\ was \subseteq seen[f].over /\ Ready(f) \subseteq seen[f].over
        /\ seen[f].total <= poll[f].total + Total(device, rest) /\ seen[f].total \in Nat
    BY <1>1, <1>6 DEF SeenInv, Knows, Follows
  <2>2. more \subseteq rest /\ rest \ more = seen[f].over \ over /\ over \subseteq seen[f].over
    BY <1>2, <2>1
  <2> HIDE DEF over, more, was, rest
  <2>3. /\ Total(device, rest \ more) \in Nat
        /\ Total(device, rest) = Total(device, more) + Total(device, rest \ more)
    BY <1>2, <2>2, TotalSplit
  <2>4. seen[f].total <= total + Total(device, rest \ more)
    BY <1>2, <1>4, <2>1, <2>3
  <2>5. seen[f].total <= total + Total(device, seen[f].over \ over)
    BY <2>2, <2>4
  <2> QED
    BY <2>2, <2>5 DEF Follows
<1> HIDE DEF over, total, was
<1>7. /\ Ready(f)' = Ready(f)
      /\ seen[f] # None => Follows(device', seen'[f], over, total)
  BY <1>1, <1>6 DEF Ready, Follows
<1>8. poll'[f] # None => Unread(poll'[f]) = {}
  BY <1>1 DEF Unread
<1>9. Knows(f)'
  BY <1>1, <1>3, <1>5, <1>7, <1>8 DEF SeenInv, Knows
<1>10. seen' = [g \in Files |-> seen'[g]]
  BY <1>1 DEF SeenInv, Knows
<1> QED
  BY <1>1, <1>9, <1>10, OthersKnow

LEMMA AnswerSeen ==
  ASSUME ListInv, SeenInv, NEW f \in Files, PollAnswer(f)
  PROVE  SeenInv'
<1> DEFINE last == [over |-> poll[f].over, total |-> poll[f].total]
<1>1. /\ file[f] = "open" /\ UNCHANGED <<file, device, client, fault>>
      /\ poll[f] # None /\ poll[f].stage = "answer" /\ poll'[f] = None
      /\ \A g \in Files : g # f => poll'[g] = poll[g]
      /\ seen' = [seen EXCEPT ![f] = last]
  BY PollAnswerIs
<1>2. last.over = poll[f].over /\ last.total = poll[f].total
  OBVIOUS
<1> HIDE DEF last
<1>3. /\ seen' = [g \in Files |-> seen'[g]] /\ seen'[f] = last
      /\ \A g \in Files : g # f => seen'[g] = seen[g]
  BY <1>1 DEF SeenInv, Knows
<1>4. Ready(f)' = Ready(f)
  BY <1>1 DEF Ready
<1>5. Unread(poll[f]) = {}
  BY <1>1 DEF Unread
<1>6. Knows(f)'
  BY <1>1, <1>2, <1>3, <1>4, <1>5 DEF SeenInv, Knows
<1> QED
  BY <1>1, <1>3, <1>6, OthersKnow

LEMMA SeenStep ==
  ASSUME FileInv, ListInv, DeviceInv, ClientsInv, SeenInv, [Next]_vars
  PROVE  SeenInv'
<1>0. /\ device.total \in [Engines -> Nat] /\ \A e \in Engines : device.total[e] <= device.total[e]
      /\ \A f \in Files : client[f].engines \subseteq Engines
  BY DEF SeenInv, Knows
<1>1. ASSUME NEW f \in Files, Open(f) PROVE SeenInv'
  <2>1. UNCHANGED <<poll, seen, count, fault>> /\ device'.total \in [Engines -> Nat]
        /\ (count # 0 => device'.total = device.total)
    BY <1>1, OpenTotal DEF Open, reports
  <2>2. file[f] = "closed" /\ \A g \in Files : file[g] = "open" => file'[g] = "open"
    BY <1>1 DEF Open, FileInv
  <2>3. ASSUME NEW g \in Files, file[g] = "open" PROVE count # 0
    BY <2>3, HoldersAre DEF DeviceInv, Holders
  <2>4. /\ \A g \in Files : client'[g].engines \subseteq Engines
        /\ \A g \in Files : g # f => client'[g] = client[g]
    BY <1>1, OpenEngines
  <2> QED
    BY <1>0, <2>1, <2>2, <2>3, <2>4, SeenFrame
<1>2. ASSUME NEW f \in Files, Register(f) PROVE SeenInv'
  <2>1. /\ UNCHANGED <<poll, seen, device, client, fault>> /\ file[f] = "opening"
        /\ file' = [file EXCEPT ![f] = "open"]
    BY <1>2 DEF Register, reports
  <2>2. \A g \in Files : file[g] = "open" => file'[g] = "open"
    BY <2>1 DEF FileInv
  <2> QED
    BY <1>0, <2>1, <2>2, SeenFrame
<1>3. ASSUME NEW f \in Files, Unregister(f) PROVE SeenInv'
  <2>1. /\ UNCHANGED <<poll, device, fault>> /\ poll[f] = None
        /\ file' = [file EXCEPT ![f] = "freed"] /\ seen' = [seen EXCEPT ![f] = None]
        /\ client' = [client EXCEPT ![f] = Client({})]
    BY <1>3 DEF Unregister, Unlist
  <2>2. /\ \A g \in Files : g # f => file'[g] = file[g] /\ client'[g] = client[g] /\ seen'[g] = seen[g]
        /\ seen' = [g \in Files |-> seen'[g]] /\ seen'[f] = None
        /\ client'[f] = Client({})
    BY <2>1 DEF FileInv, SeenInv, ClientsInv
  <2>3. Client({}).engines = {}
    BY DEF Client
  <2>4. Knows(f)'
    BY <2>1, <2>2, <2>3 DEF Knows
  <2>5. ASSUME NEW g \in Files, g # f PROVE Knows(g)'
    BY <1>0, <2>1, <2>2, <2>5, KnowsStill DEF ListInv
  <2> QED
    BY <1>0, <2>1, <2>2, <2>4, <2>5 DEF SeenInv
<1>4. ASSUME NEW f \in Files, Freed(f) PROVE SeenInv'
  <2>1. /\ file[f] = "freed" /\ file' = [file EXCEPT ![f] = "closed"]
        /\ device' = IF count = 1 THEN Uninit(device) ELSE device
        /\ UNCHANGED <<poll, seen, client, fault>>
    BY <1>4 DEF Freed, reports, clients
  <2>2. \A g \in Files : file[g] = "open" => file'[g] = "open" /\ g # f
    BY <2>1 DEF FileInv
  <2>3. device'.total \in [Engines -> Nat]
    <3>1. /\ Uninit(device).total \in {[e \in Engines |-> 0], device.total}
          /\ [e \in Engines |-> 0] \in [Engines -> Nat]
      BY UninitIs DEF DeviceInv
    <3> QED
      BY <1>0, <2>1, <3>1
  <2>4. ASSUME NEW g \in Files, file[g] = "open" PROVE device' = device
    <3>1. g # f /\ g \in Holders /\ f \in Holders
      BY <2>1, <2>2, <2>4 DEF Holders
    <3>2. Cardinality(Holders \ {f}) = Cardinality(Holders) - 1
          /\ (Cardinality(Holders \ {f}) = 0 <=> Holders \ {f} = {})
      BY <3>1, HoldersAre, FS_RemoveElement, FS_EmptySet
    <3>3. count # 1
      BY <3>1, <3>2 DEF DeviceInv
    <3> QED
      BY <2>1, <3>3
  <2> QED
    BY <1>0, <2>1, <2>2, <2>3, <2>4, SeenFrame
<1>5. ASSUME NEW f \in Files, EndSubmit(f) PROVE SeenInv'
  <2>1. UNCHANGED <<file, poll, seen>> /\ fault \subseteq fault'
    BY <1>5 DEF EndSubmit, reports
  <2>2. /\ device'.total \in [Engines -> Nat]
        /\ \A e \in Engines : device.total[e] <= device'.total[e]
    <3>1. CASE device' = device
      BY <1>0, <3>1
    <3>2. ASSUME NEW e, device' = [device EXCEPT !.total[e] = @ + 1]
          PROVE  /\ device'.total \in [Engines -> Nat]
                 /\ \A n \in Engines : device.total[n] <= device'.total[n]
      <4> DEFINE total == [device.total EXCEPT ![e] = @ + 1]
      <4>1. device = [status |-> device.status, current |-> device.current,
                      held |-> device.held, gtt |-> device.gtt, ready |-> device.ready,
                      total |-> device.total]
        BY DEF DeviceInv, DeviceType
      <4>2. device' = [device EXCEPT !.total = total]
        BY <3>2
      <4>0. total = [n \in Engines |-> IF n = e THEN device.total[n] + 1 ELSE device.total[n]]
        BY <1>0
      <4> HIDE DEF total
      <4>3. /\ total \in [Engines -> Nat]
            /\ \A n \in Engines : device.total[n] <= total[n]
        BY <1>0, <4>0
      <4>4. device'.total = total
        BY <4>1, <4>2
      <4> QED
        BY <4>3, <4>4
    <3> QED
      BY <1>5, <3>1, <3>2 DEF EndSubmit
  <2>3. \A g \in Files : client'[g].engines = client[g].engines
    BY <1>5, EnginesStay
  <2> QED
    BY <1>0, <2>1, <2>2, <2>3, SeenFrame
<1>6. ASSUME NEW f \in Files, BeginSubmit(f) \/ DropContexts(f) PROVE SeenInv'
  <2>1. UNCHANGED <<file, device, fault, poll, seen>>
    BY <1>6 DEF BeginSubmit, DropContexts, opens, reports
  <2>2. \A g \in Files : client'[g].engines = client[g].engines
    BY <1>6, EnginesStay
  <2> QED
    BY <1>0, <2>1, <2>2, SeenFrame
<1>7. ASSUME NEW f \in Files, PollLock(f) PROVE SeenInv'
  <2>1. /\ poll[f] # None /\ poll[f].stage # "totals" /\ Onward(f, poll[f].entries)
        /\ UNCHANGED <<file, device, fault, seen, client>>
    BY <1>7 DEF PollLock, opens, clients
  <2> QED
    BY <2>1, OnwardSeen
<1>8. ASSUME NEW f \in Files, NEW c \in Files, PollRead(f, c) \/ PollTimeout(f, c)
      PROVE  SeenInv'
  <2>1. PICK entries : Onward(f, entries)
    BY <1>8 DEF PollRead, PollTimeout
  <2>2. /\ poll[f] # None /\ poll[f].stage # "totals"
        /\ UNCHANGED <<file, device, fault, seen>>
    BY <1>8 DEF PollRead, PollTimeout, Visits, opens, clients
  <2>3. \A g \in Files : client'[g].engines = client[g].engines
    BY <1>8, EnginesStay DEF PollTimeout, clients
  <2> QED
    BY <2>1, <2>2, <2>3, OnwardSeen
<1>9. ASSUME UNCHANGED vars PROVE SeenInv'
  <2>1. UNCHANGED <<file, device, fault, poll, seen, client>>
    BY <1>9 DEF vars, opens, clients, reports
  <2> QED
    BY <1>0, <2>1, SeenFrame
<1> QED
  BY <1>1, <1>2, <1>3, <1>4, <1>5, <1>6, <1>7, <1>8, <1>9, BeginSeen, TotalSeen, AnswerSeen
     DEF Next, Continue

LEMMA InitReport == Init => ReportInv
<1> SUFFICES ASSUME Init PROVE ReportInv
  OBVIOUS
<1>1. /\ client = [f \in Files |-> Client({})] /\ ran = [t \in Teams |-> 0]
      /\ poll = [f \in Files |-> None] /\ seen = [f \in Files |-> None]
      /\ list = [s \in Slots |-> None] /\ file = [f \in Files |-> "closed"]
      /\ device.total = [e \in Engines |-> 0]
  BY DEF Init, Fresh
<1>2. IsClient(Client({})) /\ Client({}).ticks = 0 /\ Client({}).told = 0 /\ Client({}).engines = {}
  BY DEF IsClient, Client
<1>3. \A c \in Files : client[c] = Client({})
  BY <1>1
<1>4. ClientsInv
  <2>1. \A c \in Files : IsClient(client[c]) /\ client[c].ticks = 0 /\ client[c].told = 0
    BY Zenon, <1>2, <1>3
  <2>2. client = [c \in Files |-> client[c]] /\ ran \in [Teams -> Nat]
    BY <1>1
  <2> QED
    BY <2>1, <2>2 DEF ClientsInv
<1>5. PlacesInv
  BY <1>1 DEF PlacesInv, AtSlot
<1>6. SeenInv
  BY <1>1, <1>2 DEF SeenInv, Knows
<1>7. ASSUME NEW t \in Teams PROVE Truth(t)
  <2> DEFINE sum == [X \in SUBSET Files |-> 0]
  <2>1. \A c \in Files : Mine(t)[c] = 0
    BY <1>2, <1>3 DEF Mine, Most
  <2>2. Measure(Mine(t), sum)
    BY <2>1 DEF Measure
  <2>3. Covered(t, sum)
    BY <1>1 DEF Covered
  <2>4. sum \in [SUBSET Files -> Nat]
    OBVIOUS
  <2> QED
    BY <2>2, <2>3, <2>4 DEF Truth
<1> QED
  BY <1>4, <1>5, <1>6, <1>7 DEF ReportInv

LEMMA ReportStep ==
  ASSUME FileInv, ListInv, DeviceInv, ReportInv, [Next]_vars
  PROVE  ReportInv'
BY ClientsStep, PlacesStep, SeenStep DEF ReportInv

LEMMA InitIInv == Init => IInv
<1> SUFFICES ASSUME Init PROVE IInv
  OBVIOUS
<1>1. FileInv
  BY DeviceAssumption DEF Init, FileInv
<1>2. ListInv
  BY DEF Init, ListInv, AtSlot
<1>3. Holders = {}
  BY DEF Init, Holders
<1>4. DeviceInv
  <2>1. Cardinality(Holders) = 0
    BY <1>3, HoldersAre
  <2> QED
    BY <1>3, <2>1 DEF Init, DeviceInv, DeviceType, Bare, Fresh, InUse
<1> QED
  BY <1>1, <1>2, <1>4, InitReport DEF IInv

LEMMA StepIInv == IInv /\ [Next]_vars => IInv'
BY ListStep, FilesStep, ReportStep DEF IInv

\* The inductive invariant holds.
THEOREM DeviceInvariance == Spec => []IInv
BY InitIInv, StepIInv, PTL DEF Spec

\* As long as a file is open or on its way the device is initialised and the page
\* table's registers are mapped; after the last nothing but message interrupts is
\* held, unless a fault keeps it.
THEOREM DeviceIsHeld == Spec => []DeviceHeldWhileOpen
<1>1. ASSUME IInv PROVE DeviceHeldWhileOpen
  <2>1. (count = 0) <=> (Holders = {})
    BY <1>1, HoldersAre DEF IInv, DeviceInv
  <2>2. count \in Nat
    BY <1>1, HoldersAre DEF IInv, DeviceInv
  <2>3. InUse <=> count > 0 \/ gLock # None
    BY <2>1, <2>2 DEF InUse
  <2> QED
    BY <1>1, <2>2, <2>3 DEF IInv, DeviceInv, DeviceType, DeviceHeldWhileOpen, Whole, Bare, Holders
<1> QED
  BY <1>1, DeviceInvariance, PTL

\* A report asks only clients that are there for their lock, with the list's lock
\* in hand; no slot names a client that is gone.
THEOREM NoVisitOfTheFreed == Spec => []NoVisitAfterFree
<1>1. IInv => NoVisitAfterFree
  BY DEF IInv, ListInv, NoVisitAfterFree, Visits, AtSlot
<1> QED
  BY <1>1, DeviceInvariance, PTL

\* A report, also as the program gets it, never says that a program used more than it
\* did, however many files it opened and closed and however busy its clients are.  The
\* total of the next report of a file, and of one that would be begun now, is less than
\* that of its last by no more than what the engines that were given up on since had run.
THEOREM ReportsTellTheTruth == Spec => []ReportWithinTruth
<1>1. ASSUME IInv PROVE ReportWithinTruth
  <2>1. ASSUME NEW f \in Files, poll[f] # None, NEW t \in Teams
        PROVE  poll[f].entries[t] <= ran[t]
    <3>1. PICK sum \in [SUBSET Files -> Nat] : Covered(t, sum)
      BY <1>1 DEF IInv, ReportInv, Truth
    <3>2. poll[f].entries[t] + sum[Ahead(f)] <= ran[t]
      BY <2>1, <3>1 DEF Covered
    <3>3. Ahead(f) \in SUBSET Files
      BY DEF Ahead
    <3>4. sum[Ahead(f)] \in Nat /\ poll[f].entries[t] \in Nat /\ ran[t] \in Nat
      BY <1>1, <2>1, <3>3 DEF IInv, ReportInv, PlacesInv, ClientsInv
    <3> QED
      BY <3>2, <3>4
  <2>2. ASSUME NEW f \in Files, seen[f] # None
        PROVE  Follows(device, seen[f], Latest(f).over, Latest(f).total)
    <3>1. CASE poll[f] # None /\ poll[f].stage # "totals"
      BY <1>1, <2>2, <3>1 DEF IInv, ReportInv, SeenInv, Knows, Latest
    <3>2. CASE ~(poll[f] # None /\ poll[f].stage # "totals")
      <4>1. Latest(f).over = Ready(f) /\ Latest(f).total = Total(device, Ready(f))
        BY <3>2 DEF Latest
      <4>2. SeenInv
        BY <1>1 DEF IInv, ReportInv
      <4> QED
        BY <2>2, <4>1, <4>2, ReadyFollows
    <3> QED
      BY <3>1, <3>2
  <2> QED
    BY <2>1, <2>2 DEF ReportWithinTruth, Follows
<1> QED
  BY <1>1, DeviceInvariance, PTL

-----------------------------------------------------------------------------
(***************************************************************************)
(* PageTables.  They stand for a flat map, for every size of the tables,   *)
(* every number of them and every list of pages.                           *)
(***************************************************************************)
Entries == Nat \cup Pages \cup {Scratch}
Data    == Pages \cup {Scratch}

\* The three tables below the top on the way to an address.
Second(ts, a) == ts[4][a[1]]
Third(ts, a)  == ts[Second(ts, a)][a[2]]
Fourth(ts, a) == ts[Third(ts, a)][a[3]]

Count == Len(tables)
MadeHere  == 5 .. Count

TypeInv ==
  /\ tables \in Seq([Indices -> Entries]) /\ Count >= 4
  /\ unflushed \subseteq 1 .. Count /\ dirty \in BOOLEAN

\* The scratch tables are as Init left them.
ScratchInv ==
  \A i \in Indices : tables[1][i] = Scratch /\ tables[2][i] = 1 /\ tables[3][i] = 2

\* Each level's tables are the scratch table of the level or were made.
LevelsInv ==
  \A a \in Addresses :
    /\ Second(tables, a) = 3 \/ Second(tables, a) \in MadeHere
    /\ Third(tables, a) = 2 \/ Third(tables, a) \in MadeHere
    /\ Fourth(tables, a) = 1 \/ Fourth(tables, a) \in MadeHere

\* No table is at two levels, and one that was made is on the way to those
\* addresses only that have the indices of its place.
ApartInv ==
  \A a, b \in Addresses :
    /\ Second(tables, a) # Third(tables, b)
    /\ Second(tables, a) # Fourth(tables, b)
    /\ Third(tables, a) # Fourth(tables, b)
    /\ Second(tables, a) = Second(tables, b) /\ Second(tables, a) # 3 => a[1] = b[1]
    /\ Third(tables, a) = Third(tables, b) /\ Third(tables, a) # 2 =>
         a[1] = b[1] /\ a[2] = b[2]
    /\ Fourth(tables, a) = Fourth(tables, b) /\ Fourth(tables, a) # 1 =>
         a[1] = b[1] /\ a[2] = b[2] /\ a[3] = b[3]

\* A call ends before the address space does.
CallInv ==
  call # NoCall =>
    /\ call \in [at : Addresses, pages : Seq(Data), walking : BOOLEAN]
    /\ call.pages # <<>> /\ Len(call.pages) <= Remaining(call.at)

\* The flag is set as long as a call may write.
FlushInv == (call # NoCall => dirty) /\ CleanMeansFlushed

TablesInv == TypeInv /\ ScratchInv /\ LevelsInv /\ ApartInv /\ CallInv /\ FlushInv

-----------------------------------------------------------------------------
(* Addresses. *)

LEMMA AddressIs ==
  /\ \A a \in Addresses : /\ a[1] \in Indices /\ a[2] \in Indices
                          /\ a[3] \in Indices /\ a[4] \in Indices
                          /\ a = <<a[1], a[2], a[3], a[4]>>
  /\ \A i, j, k, l \in Indices : <<i, j, k, l>> \in Addresses
  /\ Indices \subseteq Nat
BY TablesAssumption DEF Addresses, Indices

\* The walk, level by level.
LEMMA WalkIs ==
  ASSUME NEW ts, NEW a
  PROVE  /\ TableAt(ts, a, 1) = 4
         /\ TableAt(ts, a, 2) = Second(ts, a)
         /\ TableAt(ts, a, 3) = Third(ts, a)
         /\ TableAt(ts, a, 4) = Fourth(ts, a)
         /\ Translate(ts, a) = ts[Fourth(ts, a)][a[4]]
<1>1. /\ TableAt(ts, a, 1) = 4
      /\ TableAt(ts, a, 2) = Second(ts, a)
      /\ TableAt(ts, a, 3) = Third(ts, a)
      /\ TableAt(ts, a, 4) = Fourth(ts, a)
  BY DEF TableAt, Top, Second, Third, Fourth
<1> QED
  BY <1>1 DEF Translate

\* The next page is there, and one less remains, unless it was the last.
LEMMA AfterIs ==
  ASSUME NEW a \in Addresses, Remaining(a) >= 2
  PROVE  After(a) \in Addresses /\ Remaining(After(a)) = Remaining(a) - 1
<1> DEFINE R == Radix
           Number(w, x, y, z) == R * (R * (R * w + x) + y) + z
           All == R * R * R * R
<1>1. R \in Nat \ {0} /\ Indices = 0 .. R - 1
  BY TablesAssumption DEF Indices
<1>2. PICK i, j, k, l \in Indices : a = <<i, j, k, l>>
  BY AddressIs
<1>3. i \in Nat /\ j \in Nat /\ k \in Nat /\ l \in Nat
  BY <1>1
<1>4. \A w, x, y, z : Remaining(<<w, x, y, z>>) = All - Number(w, x, y, z)
  BY DEF Remaining
<1>5. After(a) = IF l < R - 1 THEN <<i, j, k, l + 1>>
                 ELSE IF k < R - 1 THEN <<i, j, k + 1, 0>>
                 ELSE IF j < R - 1 THEN <<i, j + 1, 0, 0>>
                 ELSE IF i < R - 1 THEN <<i + 1, 0, 0, 0>>
                 ELSE NoCall
  BY <1>2 DEF After
<1> HIDE DEF R
<1>6. All \in Int /\ Number(i, j, k, l) \in Int
  BY <1>1, <1>3
<1>7. SUFFICES ASSUME NEW w \in Indices, NEW x \in Indices, NEW y \in Indices, NEW z \in Indices,
                      After(a) = <<w, x, y, z>>, Number(w, x, y, z) = Number(i, j, k, l) + 1
               PROVE  After(a) \in Addresses /\ Remaining(After(a)) = Remaining(a) - 1
  <2>1. CASE l < R - 1
    <3>1. l + 1 \in Indices /\ After(a) = <<i, j, k, l + 1>>
      BY <1>1, <1>3, <1>5, <2>1
    <3>2. Number(i, j, k, l + 1) = Number(i, j, k, l) + 1
      BY <1>1, <1>3
    <3> HIDE DEF Number, All
    <3> QED
      BY <1>7, <3>1, <3>2
  <2>2. CASE l = R - 1 /\ k < R - 1
    <3>1. k + 1 \in Indices /\ 0 \in Indices /\ After(a) = <<i, j, k + 1, 0>>
      BY <1>1, <1>3, <1>5, <2>2
    <3>2. Number(i, j, k + 1, 0) = Number(i, j, k, l) + 1
      BY <1>1, <1>3, <2>2
    <3> HIDE DEF Number, All
    <3> QED
      BY <1>7, <3>1, <3>2
  <2>3. CASE l = R - 1 /\ k = R - 1 /\ j < R - 1
    <3>1. j + 1 \in Indices /\ 0 \in Indices /\ After(a) = <<i, j + 1, 0, 0>>
      BY <1>1, <1>3, <1>5, <2>3
    <3>2. Number(i, j + 1, 0, 0) = Number(i, j, k, l) + 1
      BY <1>1, <1>3, <2>3
    <3> HIDE DEF Number, All
    <3> QED
      BY <1>7, <3>1, <3>2
  <2>4. CASE l = R - 1 /\ k = R - 1 /\ j = R - 1 /\ i < R - 1
    <3>1. i + 1 \in Indices /\ 0 \in Indices /\ After(a) = <<i + 1, 0, 0, 0>>
      BY <1>1, <1>3, <1>5, <2>4
    <3>2. Number(i + 1, 0, 0, 0) = Number(i, j, k, l) + 1
      BY <1>1, <1>3, <2>4
    <3> HIDE DEF Number, All
    <3> QED
      BY <1>7, <3>1, <3>2
  <2>5. CASE l = R - 1 /\ k = R - 1 /\ j = R - 1 /\ i = R - 1
    <3>1. Number(i, j, k, l) = All - 1
      BY <1>1, <2>5
    <3>2. Remaining(a) = 1
      BY <1>2, <1>4, <1>6, <3>1
    <3> QED
      BY <3>2
  <2> QED
    BY <1>1, <2>1, <2>2, <2>3, <2>4, <2>5
<1>8. Remaining(After(a)) = All - (Number(i, j, k, l) + 1)
  BY <1>4, <1>7
<1>9. Remaining(a) = All - Number(i, j, k, l)
  BY <1>2, <1>4
<1> HIDE DEF Number, All
<1> QED
  BY <1>6, <1>7, <1>8, <1>9, AddressIs

-----------------------------------------------------------------------------
(* The walk meets tables that are there. *)

LEMMA WalkIsThere ==
  ASSUME TablesInv
  PROVE  \A a \in Addresses :
           /\ Second(tables, a) \in 1 .. Count /\ Second(tables, a) # 4
           /\ Third(tables, a) \in 1 .. Count /\ Third(tables, a) # 4
           /\ Fourth(tables, a) \in 1 .. Count /\ Fourth(tables, a) # 4
           /\ Second(tables, a) = 3 => Third(tables, a) = 2
           /\ Third(tables, a) = 2 => Fourth(tables, a) = 1
           /\ Fourth(tables, a) = 1 => Translate(tables, a) = Scratch
<1> SUFFICES ASSUME NEW a \in Addresses
             PROVE  /\ Second(tables, a) \in 1 .. Count /\ Second(tables, a) # 4
                    /\ Third(tables, a) \in 1 .. Count /\ Third(tables, a) # 4
                    /\ Fourth(tables, a) \in 1 .. Count /\ Fourth(tables, a) # 4
                    /\ Second(tables, a) = 3 => Third(tables, a) = 2
                    /\ Third(tables, a) = 2 => Fourth(tables, a) = 1
                    /\ Fourth(tables, a) = 1 => Translate(tables, a) = Scratch
  OBVIOUS
<1>1. Count \in Nat /\ Count >= 4
  BY DEF TablesInv, TypeInv, Count
<1>2. /\ Second(tables, a) = 3 \/ Second(tables, a) \in MadeHere
      /\ Third(tables, a) = 2 \/ Third(tables, a) \in MadeHere
      /\ Fourth(tables, a) = 1 \/ Fourth(tables, a) \in MadeHere
  BY DEF TablesInv, LevelsInv
<1>3. /\ Second(tables, a) = 3 => Third(tables, a) = 2
      /\ Third(tables, a) = 2 => Fourth(tables, a) = 1
      /\ Fourth(tables, a) = 1 => Translate(tables, a) = Scratch
  BY AddressIs, WalkIs DEF TablesInv, ScratchInv, Third, Fourth
<1> QED
  BY <1>1, <1>2, <1>3 DEF MadeHere

\* The scratch tables an address shares, by level.
LEMMA SharedIs ==
  ASSUME TablesInv, NEW a \in Addresses
  PROVE  /\ Shared(a) = {} <=> Fourth(tables, a) \in MadeHere
         /\ Fourth(tables, a) = 1 <=> Shared(a) # {}
         /\ Shared(a) # {} =>
              \/ Lacking(a) = 2 /\ Second(tables, a) = 3
              \/ Lacking(a) = 3 /\ Second(tables, a) \in MadeHere /\ Third(tables, a) = 2
              \/ /\ Lacking(a) = 4 /\ Third(tables, a) \in MadeHere /\ Fourth(tables, a) = 1
                 /\ Second(tables, a) \in MadeHere
<1>1. /\ Second(tables, a) = 3 \/ Second(tables, a) \in MadeHere
      /\ Third(tables, a) = 2 \/ Third(tables, a) \in MadeHere
      /\ Fourth(tables, a) = 1 \/ Fourth(tables, a) \in MadeHere
      /\ Second(tables, a) = 3 => Third(tables, a) = 2
      /\ Third(tables, a) = 2 => Fourth(tables, a) = 1
  BY WalkIsThere DEF TablesInv, LevelsInv
<1>2. /\ 2 \in Shared(a) <=> Second(tables, a) = 3
      /\ 3 \in Shared(a) <=> Third(tables, a) = 2
      /\ 4 \in Shared(a) <=> Fourth(tables, a) = 1
      /\ Shared(a) \subseteq 2 .. 4
  BY <1>1, WalkIs DEF Shared, IsScratch, Top, MadeHere
<1>3. Shared(a) # {} => Lacking(a) \in Shared(a) /\ \A other \in Shared(a) : Lacking(a) <= other
  <2> SUFFICES ASSUME Shared(a) # {}
               PROVE  \E level \in Shared(a) : \A other \in Shared(a) : level <= other
    BY DEF Lacking
  <2> QED
    BY <1>1, <1>2
<1> QED
  BY <1>1, <1>2, <1>3 DEF MadeHere

\* What Init leaves.
LEMMA InitialWalk ==
  ASSUME TablesInit
  PROVE  /\ tables \in Seq([Indices -> Entries]) /\ Count = 4
         /\ ScratchInv
         /\ \A a \in Addresses : /\ Second(tables, a) = 3 /\ Third(tables, a) = 2
                                 /\ Fourth(tables, a) = 1 /\ Translate(tables, a) = Scratch
<1>1. /\ Count = 4
      /\ \A n \in 1 .. 4 : tables[n] = [i \in Indices |-> IF n = 1 THEN Scratch ELSE n - 1]
      /\ tables = [n \in 1 .. 4 |-> tables[n]]
  BY DEF TablesInit, Initial, Top, Count
<1>2. \A i \in Indices : /\ tables[1][i] = Scratch /\ tables[2][i] = 1
                         /\ tables[3][i] = 2 /\ tables[4][i] = 3
  BY <1>1
<1>3. \A n \in 1 .. 4 : tables[n] \in [Indices -> Entries]
  BY <1>1 DEF Entries
<1>4. ASSUME NEW a \in Addresses
      PROVE  /\ Second(tables, a) = 3 /\ Third(tables, a) = 2
             /\ Fourth(tables, a) = 1 /\ Translate(tables, a) = Scratch
  <2>1. Second(tables, a) = 3
    BY <1>2, AddressIs DEF Second
  <2>2. Third(tables, a) = 2
    BY <1>2, <2>1, AddressIs DEF Third
  <2>3. Fourth(tables, a) = 1
    BY <1>2, <2>2, AddressIs DEF Fourth
  <2>4. Translate(tables, a) = Scratch
    BY <1>2, <2>3, AddressIs, WalkIs
  <2> QED
    BY <2>1, <2>2, <2>3, <2>4
<1> QED
  BY <1>1, <1>2, <1>3, <1>4 DEF ScratchInv

\* Initial states map to initial states.
THEOREM FlatInit == TablesInit => Flat!Init
<1> SUFFICES ASSUME TablesInit PROVE Flat!Init
  OBVIOUS
<1> QED
  BY InitialWalk DEF TablesInit, Flat!Init

-----------------------------------------------------------------------------
(* A table that is made changes the walk at one level, and no page. *)

\* The step of Grow at a given level of an address.
GrowAt(above, index, child) ==
  tables' = Append([tables EXCEPT ![above][index] = Count + 1], tables[child])

LEMMA AppendIs ==
  ASSUME TablesInv, NEW above \in 1 .. Count, NEW index \in Indices, NEW child \in 1 .. Count,
         GrowAt(above, index, child)
  PROVE  /\ tables' \in Seq([Indices -> Entries]) /\ Count' = Count + 1
         /\ tables'[Count + 1] = tables[child]
         /\ \A n \in 1 .. Count : n # above => tables'[n] = tables[n]
         /\ \A i \in Indices :
              tables'[above][i] = IF i = index THEN Count + 1 ELSE tables[above][i]
<1>1. tables \in Seq([Indices -> Entries]) /\ Count \in Nat /\ Count = Len(tables)
  BY DEF TablesInv, TypeInv, Count
<1> DEFINE changed == [tables EXCEPT ![above][index] = Count + 1]
<1>2. \A n \in 1 .. Count : tables[n] \in [Indices -> Entries]
  BY <1>1
<1>3. [tables[above] EXCEPT ![index] = Count + 1] \in [Indices -> Entries]
  BY <1>1, <1>2 DEF Entries
<1>4. /\ changed \in Seq([Indices -> Entries]) /\ Len(changed) = Count
      /\ \A n \in 1 .. Count :
           changed[n] = IF n = above THEN [tables[above] EXCEPT ![index] = Count + 1]
                        ELSE tables[n]
  BY <1>1, <1>3
<1> HIDE DEF changed
<1>5. tables' = Append(changed, tables[child])
  BY DEF GrowAt, changed
<1>6. /\ tables' \in Seq([Indices -> Entries]) /\ Len(tables') = Count + 1
      /\ tables'[Count + 1] = tables[child]
      /\ \A n \in 1 .. Count : tables'[n] = changed[n]
  <2> DEFINE last == tables[child]
             Table == [Indices -> Entries]
  <2>1. last \in Table /\ changed \in Seq(Table) /\ Len(changed) = Count
        /\ tables' = Append(changed, last)
    BY <1>2, <1>4, <1>5
  <2> HIDE DEF last, Table
  <2>2. tables' \in Seq(Table) /\ Len(tables') = Count + 1
    BY <2>1
  <2>3. tables'[Count + 1] = last /\ \A n \in 1 .. Count : tables'[n] = changed[n]
    BY <1>1, <2>1
  <2> QED
    BY <2>2, <2>3 DEF last, Table
<1> QED
  BY SMTT(20), <1>1, <1>2, <1>4, <1>6 DEF Count

\* The addresses below the entry that is replaced.
Below(a, b, level) ==
  /\ b[1] = a[1]
  /\ level >= 3 => b[2] = a[2]
  /\ level = 4 => b[3] = a[3]

\* What Grow does to the walks: at one level the addresses below one entry,
\* which shared the scratch table, have the new one.
GrownTables(a, level) ==
  /\ tables' \in Seq([Indices -> Entries]) /\ Count' = Count + 1
  /\ \A i \in Indices : tables'[1][i] = tables[1][i] /\ tables'[2][i] = tables[2][i]
                        /\ tables'[3][i] = tables[3][i]
  /\ \A b \in Addresses :
       /\ Second(tables', b) = IF level = 2 /\ Below(a, b, 2) THEN Count + 1
                               ELSE Second(tables, b)
       /\ Third(tables', b) = IF level = 3 /\ Below(a, b, 3) THEN Count + 1
                              ELSE Third(tables, b)
       /\ Fourth(tables', b) = IF level = 4 /\ Below(a, b, 4) THEN Count + 1
                             ELSE Fourth(tables, b)
       /\ Translate(tables', b) = Translate(tables, b)

LEMMA GrownSecond ==
  ASSUME TablesInv, NEW a \in Addresses, Second(tables, a) = 3, GrowAt(4, a[1], 3)
  PROVE  GrownTables(a, 2)
<1>1. Count \in Nat /\ Count >= 4
  BY DEF TablesInv, TypeInv, Count
<1>2. /\ tables' \in Seq([Indices -> Entries]) /\ Count' = Count + 1
      /\ tables'[Count + 1] = tables[3]
      /\ \A n \in 1 .. Count : n # 4 => tables'[n] = tables[n]
      /\ \A i \in Indices : tables'[4][i] = IF i = a[1] THEN Count + 1 ELSE tables[4][i]
  <2>1. 4 \in 1 .. Count /\ 3 \in 1 .. Count
    BY <1>1
  <2> QED
    BY <2>1, AddressIs, AppendIs
<1>3. ASSUME NEW b \in Addresses
      PROVE  /\ Second(tables', b) = IF b[1] = a[1] THEN Count + 1 ELSE Second(tables, b)
             /\ Third(tables', b) = Third(tables, b)
             /\ Fourth(tables', b) = Fourth(tables, b)
             /\ Translate(tables', b) = Translate(tables, b)
  <2>1. Second(tables', b) = IF b[1] = a[1] THEN Count + 1 ELSE Second(tables, b)
    BY <1>2, AddressIs DEF Second
  <2>2. b[1] = a[1] => Second(tables, b) = 3
    BY DEF Second
  <2>3. tables'[Second(tables', b)] = tables[Second(tables, b)]
    BY <1>2, <2>1, <2>2, WalkIsThere
  <2>4. Third(tables', b) = Third(tables, b)
    BY <2>3 DEF Third
  <2>5. Fourth(tables', b) = Fourth(tables, b)
    BY <1>2, <2>4, WalkIsThere DEF Fourth
  <2>6. Translate(tables', b) = Translate(tables, b)
    BY <1>2, <2>5, WalkIsThere, WalkIs
  <2> QED
    BY <2>1, <2>4, <2>5, <2>6
<1> QED
  BY <1>1, <1>2, <1>3 DEF GrownTables, Below

LEMMA GrownThird ==
  ASSUME TablesInv, NEW a \in Addresses, Second(tables, a) \in MadeHere, Third(tables, a) = 2,
         GrowAt(Second(tables, a), a[2], 2)
  PROVE  GrownTables(a, 3)
<1> DEFINE above == Second(tables, a)
<1>1. Count \in Nat /\ Count >= 4 /\ above \in 5 .. Count
  BY DEF TablesInv, TypeInv, Count, MadeHere
<1>2. /\ tables' \in Seq([Indices -> Entries]) /\ Count' = Count + 1
      /\ tables'[Count + 1] = tables[2]
      /\ \A n \in 1 .. Count : n # above => tables'[n] = tables[n]
      /\ \A i \in Indices :
           tables'[above][i] = IF i = a[2] THEN Count + 1 ELSE tables[above][i]
  <2>1. above \in 1 .. Count /\ 2 \in 1 .. Count
    BY <1>1
  <2> QED
    BY <2>1, AddressIs, AppendIs
<1>3. ASSUME NEW b \in Addresses
      PROVE  /\ Second(tables', b) = Second(tables, b)
             /\ Third(tables', b) = IF b[1] = a[1] /\ b[2] = a[2] THEN Count + 1
                                    ELSE Third(tables, b)
             /\ Fourth(tables', b) = Fourth(tables, b)
             /\ Translate(tables', b) = Translate(tables, b)
  <2>1. Second(tables', b) = Second(tables, b)
    BY <1>1, <1>2 DEF Second
  <2>2. (Second(tables, b) = above) <=> (b[1] = a[1])
    BY <1>1 DEF TablesInv, ApartInv, Second
  <2>3. Third(tables', b) = IF b[1] = a[1] /\ b[2] = a[2] THEN Count + 1
                            ELSE Third(tables, b)
    <3>1. a[2] \in Indices /\ b[2] \in Indices
      BY AddressIs
    <3>2. Second(tables, b) \in 1 .. Count
      BY WalkIsThere
    <3>3. CASE b[1] = a[1]
      BY <1>2, <2>1, <2>2, <3>1, <3>3 DEF Third
    <3>4. CASE b[1] # a[1]
      BY <1>2, <2>1, <2>2, <3>2, <3>4 DEF Third
    <3> QED
      BY <3>3, <3>4
  <2>4. b[1] = a[1] /\ b[2] = a[2] => Third(tables, b) = 2
    BY DEF Third, Second
  <2>5. Third(tables, b) # above /\ Fourth(tables, b) # above
    BY DEF TablesInv, ApartInv
  <2>6. tables'[Third(tables', b)] = tables[Third(tables, b)]
    BY <1>2, <2>3, <2>4, <2>5, WalkIsThere
  <2>7. Fourth(tables', b) = Fourth(tables, b)
    BY <2>6 DEF Fourth
  <2>8. Translate(tables', b) = Translate(tables, b)
    BY <1>2, <2>5, <2>7, WalkIsThere, WalkIs
  <2> QED
    BY <2>1, <2>3, <2>7, <2>8
<1> QED
  BY <1>1, <1>2, <1>3 DEF GrownTables, Below

LEMMA GrownLast ==
  ASSUME TablesInv, NEW a \in Addresses, Third(tables, a) \in MadeHere, Fourth(tables, a) = 1,
         GrowAt(Third(tables, a), a[3], 1)
  PROVE  GrownTables(a, 4)
<1> DEFINE above == Third(tables, a)
<1>1. Count \in Nat /\ Count >= 4 /\ above \in 5 .. Count
  BY DEF TablesInv, TypeInv, Count, MadeHere
<1>2. /\ tables' \in Seq([Indices -> Entries]) /\ Count' = Count + 1
      /\ tables'[Count + 1] = tables[1]
      /\ \A n \in 1 .. Count : n # above => tables'[n] = tables[n]
      /\ \A i \in Indices :
           tables'[above][i] = IF i = a[3] THEN Count + 1 ELSE tables[above][i]
  <2>1. above \in 1 .. Count /\ 1 \in 1 .. Count
    BY <1>1
  <2> QED
    BY <2>1, AddressIs, AppendIs
<1>3. ASSUME NEW b \in Addresses
      PROVE  /\ Second(tables', b) = Second(tables, b)
             /\ Third(tables', b) = Third(tables, b)
             /\ Fourth(tables', b) = IF b[1] = a[1] /\ b[2] = a[2] /\ b[3] = a[3] THEN Count + 1
                                   ELSE Fourth(tables, b)
             /\ Translate(tables', b) = Translate(tables, b)
  <2>1. Second(tables', b) = Second(tables, b)
    BY <1>1, <1>2 DEF Second
  <2>2. Second(tables, b) # above /\ Fourth(tables, b) # above
    BY DEF TablesInv, ApartInv
  <2>3. Third(tables', b) = Third(tables, b)
    BY <1>2, <2>1, <2>2, WalkIsThere DEF Third
  <2>4. (Third(tables, b) = above) <=> (b[1] = a[1] /\ b[2] = a[2])
    BY <1>1 DEF TablesInv, ApartInv, Third, Second
  <2>5. Fourth(tables', b) = IF b[1] = a[1] /\ b[2] = a[2] /\ b[3] = a[3] THEN Count + 1
                           ELSE Fourth(tables, b)
    <3>1. a[3] \in Indices /\ b[3] \in Indices
      BY AddressIs
    <3>2. Third(tables, b) \in 1 .. Count
      BY WalkIsThere
    <3>3. CASE b[1] = a[1] /\ b[2] = a[2]
      BY <1>2, <2>3, <2>4, <3>1, <3>3 DEF Fourth
    <3>4. CASE ~(b[1] = a[1] /\ b[2] = a[2])
      BY <1>2, <2>3, <2>4, <3>2, <3>4 DEF Fourth
    <3> QED
      BY <3>3, <3>4
  <2>6. b[1] = a[1] /\ b[2] = a[2] /\ b[3] = a[3] => Fourth(tables, b) = 1
    BY DEF Fourth, Third, Second
  <2>7. tables'[Fourth(tables', b)] = tables[Fourth(tables, b)]
    BY <1>2, <2>2, <2>5, <2>6, WalkIsThere
  <2>8. Translate(tables', b) = Translate(tables, b)
    BY <2>7, WalkIs
  <2> QED
    BY <2>1, <2>3, <2>5, <2>8
<1> QED
  BY <1>1, <1>2, <1>3 DEF GrownTables, Below

\* Whatever the level.
LEMMA GrowIs ==
  ASSUME TablesInv, Grow
  PROVE  /\ call.at \in Addresses
         /\ \/ Lacking(call.at) = 2 /\ Second(tables, call.at) = 3 /\ GrownTables(call.at, 2)
            \/ /\ Lacking(call.at) = 3 /\ Third(tables, call.at) = 2 /\ GrownTables(call.at, 3)
               /\ Second(tables, call.at) \in MadeHere
            \/ /\ Lacking(call.at) = 4 /\ Fourth(tables, call.at) = 1 /\ GrownTables(call.at, 4)
               /\ Third(tables, call.at) \in MadeHere
         /\ TableAt(tables, call.at, Lacking(call.at) - 1) \in 1 .. Count
<1> DEFINE a == call.at
           level == Lacking(a)
<1>1. a \in Addresses /\ Shared(a) # {}
  BY DEF Grow, TablesInv, CallInv
<1>2. Count \in Nat /\ Count >= 4
  BY DEF TablesInv, TypeInv, Count
<1>3. GrowAt(TableAt(tables, a, level - 1), a[level - 1], TableAt(tables, a, level))
  BY DEF Grow, GrowAt, Count
<1>4. CASE level = 2 /\ Second(tables, a) = 3
  <2>1. GrowAt(4, a[1], 3) /\ TableAt(tables, a, 1) = 4 /\ level - 1 = 1
    BY <1>3, <1>4, WalkIs
  <2> QED
    BY <1>1, <1>2, <1>4, <2>1, GrownSecond
<1>5. CASE level = 3 /\ Second(tables, a) \in MadeHere /\ Third(tables, a) = 2
  <2>1. /\ GrowAt(Second(tables, a), a[2], 2) /\ level - 1 = 2
        /\ TableAt(tables, a, 2) = Second(tables, a)
    BY <1>3, <1>5, WalkIs
  <2> QED
    BY <1>1, <1>2, <1>5, <2>1, GrownThird, WalkIsThere
<1>6. CASE /\ level = 4 /\ Third(tables, a) \in MadeHere /\ Fourth(tables, a) = 1
           /\ Second(tables, a) \in MadeHere
  <2>1. /\ GrowAt(Third(tables, a), a[3], 1) /\ level - 1 = 3
        /\ TableAt(tables, a, 3) = Third(tables, a)
    BY <1>3, <1>6, WalkIs
  <2> QED
    BY <1>1, <1>2, <1>6, <2>1, GrownLast, WalkIsThere
<1> QED
  BY <1>1, <1>4, <1>5, <1>6, SharedIs

\* A new table keeps the levels apart.
LEMMA GrownApart ==
  ASSUME TablesInv, NEW a \in Addresses, NEW level \in 2 .. 4, GrownTables(a, level)
  PROVE  ScratchInv' /\ LevelsInv' /\ ApartInv'
<1>1. Count \in Nat /\ Count >= 4 /\ Count' = Count + 1 /\ Count' = Len(tables')
  BY DEF TablesInv, TypeInv, Count, GrownTables
<1>2. ScratchInv'
  BY DEF ScratchInv, GrownTables, TablesInv
<1>3. ASSUME NEW b \in Addresses
      PROVE  /\ Second(tables, b) \in 1 .. Count
             /\ Third(tables, b) \in 1 .. Count
             /\ Fourth(tables, b) \in 1 .. Count
             /\ Second(tables', b) = IF level = 2 /\ Below(a, b, 2) THEN Count + 1
                                     ELSE Second(tables, b)
             /\ Third(tables', b) = IF level = 3 /\ Below(a, b, 3) THEN Count + 1
                                    ELSE Third(tables, b)
             /\ Fourth(tables', b) = IF level = 4 /\ Below(a, b, 4) THEN Count + 1
                                   ELSE Fourth(tables, b)
  BY WalkIsThere DEF GrownTables
<1>4. MadeHere' = 5 .. Count + 1 /\ MadeHere = 5 .. Count
  BY <1>1 DEF MadeHere
<1>5. LevelsInv'
  <2> SUFFICES ASSUME NEW b \in Addresses
               PROVE  /\ Second(tables', b) = 3 \/ Second(tables', b) \in MadeHere'
                      /\ Third(tables', b) = 2 \/ Third(tables', b) \in MadeHere'
                      /\ Fourth(tables', b) = 1 \/ Fourth(tables', b) \in MadeHere'
    BY DEF LevelsInv
  <2>1. /\ Second(tables, b) = 3 \/ Second(tables, b) \in MadeHere
        /\ Third(tables, b) = 2 \/ Third(tables, b) \in MadeHere
        /\ Fourth(tables, b) = 1 \/ Fourth(tables, b) \in MadeHere
    BY DEF TablesInv, LevelsInv
  <2> QED
    BY <1>1, <1>3, <1>4, <2>1
<1>6. ApartInv'
  <2> SUFFICES ASSUME NEW b \in Addresses, NEW c \in Addresses
        PROVE  /\ Second(tables', b) # Third(tables', c)
               /\ Second(tables', b) # Fourth(tables', c)
               /\ Third(tables', b) # Fourth(tables', c)
               /\ Second(tables', b) = Second(tables', c) /\ Second(tables', b) # 3 =>
                    b[1] = c[1]
               /\ Third(tables', b) = Third(tables', c) /\ Third(tables', b) # 2 =>
                    b[1] = c[1] /\ b[2] = c[2]
               /\ Fourth(tables', b) = Fourth(tables', c) /\ Fourth(tables', b) # 1 =>
                    b[1] = c[1] /\ b[2] = c[2] /\ b[3] = c[3]
    BY DEF ApartInv
  <2>1. /\ Second(tables, b) # Third(tables, c)
        /\ Second(tables, b) # Fourth(tables, c)
        /\ Third(tables, b) # Fourth(tables, c)
        /\ Second(tables, b) = Second(tables, c) /\ Second(tables, b) # 3 => b[1] = c[1]
        /\ Third(tables, b) = Third(tables, c) /\ Third(tables, b) # 2 =>
             b[1] = c[1] /\ b[2] = c[2]
        /\ Fourth(tables, b) = Fourth(tables, c) /\ Fourth(tables, b) # 1 =>
             b[1] = c[1] /\ b[2] = c[2] /\ b[3] = c[3]
    BY DEF TablesInv, ApartInv
  <2>2. /\ Second(tables', b) # Third(tables', c)
        /\ Second(tables', b) # Fourth(tables', c)
        /\ Third(tables', b) # Fourth(tables', c)
    BY <1>1, <1>3, <2>1
  <2>3. Second(tables', b) = Second(tables', c) /\ Second(tables', b) # 3 => b[1] = c[1]
    BY <1>1, <1>3, <2>1 DEF Below
  <2>4. Third(tables', b) = Third(tables', c) /\ Third(tables', b) # 2 =>
          b[1] = c[1] /\ b[2] = c[2]
    BY <1>1, <1>3, <2>1 DEF Below
  <2>5. Fourth(tables', b) = Fourth(tables', c) /\ Fourth(tables', b) # 1 =>
          b[1] = c[1] /\ b[2] = c[2] /\ b[3] = c[3]
    BY <1>1, <1>3, <2>1 DEF Below
  <2> QED
    BY <2>2, <2>3, <2>4, <2>5
<1> QED
  BY <1>2, <1>5, <1>6

-----------------------------------------------------------------------------
(* An entry of the last level changes one address. *)

LEMMA WriteIs ==
  ASSUME TablesInv, Write
  PROVE  /\ call.at \in Addresses /\ Fourth(tables, call.at) \in MadeHere
         /\ tables' \in Seq([Indices -> Entries]) /\ Count' = Count
         /\ \A i \in Indices : tables'[1][i] = tables[1][i] /\ tables'[2][i] = tables[2][i]
                               /\ tables'[3][i] = tables[3][i]
         /\ \A b \in Addresses :
              /\ Second(tables', b) = Second(tables, b)
              /\ Third(tables', b) = Third(tables, b)
              /\ Fourth(tables', b) = Fourth(tables, b)
              /\ Translate(tables', b) = IF b = call.at THEN Head(call.pages)
                                         ELSE Translate(tables, b)
<1> DEFINE a == call.at
           last == Fourth(tables, a)
           page == Head(call.pages)
<1>1. a \in Addresses /\ last \in MadeHere /\ a[4] \in Indices
  BY SharedIs, AddressIs DEF Write, TablesInv, CallInv
<1>2. page \in Entries
  BY DEF Write, TablesInv, CallInv, Data, Entries
<1>3. tables \in Seq([Indices -> Entries]) /\ Count \in Nat /\ Count = Len(tables) /\ Count >= 4
  BY DEF TablesInv, TypeInv, Count
<1>4. tables' = [tables EXCEPT ![last][a[4]] = page]
  BY WalkIs DEF Write
<1>5. last \in 5 .. Count /\ \A n \in 1 .. Count : tables[n] \in [Indices -> Entries]
  BY <1>1, <1>3 DEF MadeHere
<1>6. [tables[last] EXCEPT ![a[4]] = page] \in [Indices -> Entries]
  <2>1. tables[last] \in [Indices -> Entries]
    BY <1>3, <1>5
  <2> HIDE DEF a, last, page
  <2> QED
    BY <1>2, <2>1
<1>7. /\ tables' \in Seq([Indices -> Entries]) /\ Len(tables') = Count
      /\ \A n \in 1 .. Count :
           tables'[n] = IF n = last THEN [tables[last] EXCEPT ![a[4]] = page] ELSE tables[n]
  <2> HIDE DEF a, last, page
  <2> QED
    BY <1>3, <1>4, <1>5, <1>6
<1>8. ASSUME NEW b \in Addresses
      PROVE  /\ Second(tables', b) = Second(tables, b)
             /\ Third(tables', b) = Third(tables, b)
             /\ Fourth(tables', b) = Fourth(tables, b)
             /\ Translate(tables', b) = IF b = a THEN page ELSE Translate(tables, b)
  <2>1. Second(tables', b) = Second(tables, b)
    BY <1>3, <1>5, <1>7 DEF Second
  <2>2. Second(tables, b) # last /\ Third(tables, b) # last
    BY <1>1 DEF TablesInv, ApartInv
  <2>3. Third(tables', b) = Third(tables, b)
    BY <1>7, <2>1, <2>2, WalkIsThere DEF Third
  <2>4. Fourth(tables', b) = Fourth(tables, b)
    BY <1>7, <2>2, <2>3, WalkIsThere DEF Fourth
  <2>5. last # 1 /\ Fourth(tables, b) = last => b[1] = a[1] /\ b[2] = a[2] /\ b[3] = a[3]
    BY <1>1 DEF TablesInv, ApartInv
  <2>6. Fourth(tables, b) = last /\ b[4] = a[4] <=> b = a
    BY <1>1, <1>5, <2>5, AddressIs
  <2>7. Translate(tables', b) = tables'[Fourth(tables, b)][b[4]]
    BY <2>4, WalkIs
  <2>8. CASE Fourth(tables, b) = last
    <3>1. tables'[Fourth(tables, b)] = [tables[last] EXCEPT ![a[4]] = page]
      BY <1>5, <1>7, <2>8
    <3>2. tables'[Fourth(tables, b)][b[4]] = IF b[4] = a[4] THEN page ELSE tables[last][b[4]]
      BY <1>1, <1>5, <3>1, AddressIs
    <3> QED
      BY <2>1, <2>3, <2>4, <2>6, <2>7, <2>8, <3>2, WalkIs
  <2>9. CASE Fourth(tables, b) # last
    BY <1>7, <2>1, <2>3, <2>4, <2>7, <2>9, WalkIs, WalkIsThere
  <2> QED
    BY <2>8, <2>9
<1>9. \A n \in 1 .. 3 : tables'[n] = tables[n]
  BY <1>3, <1>5, <1>7
<1>10. Count' = Count
  BY <1>7 DEF Count
<1> QED
  BY <1>1, <1>7, <1>8, <1>9, <1>10

-----------------------------------------------------------------------------
(* Calls. *)

\* What is written next, and what is left when it is.
LEMMA CallIs ==
  ASSUME TablesInv, call # NoCall
  PROVE  /\ call.at \in Addresses /\ call.pages \in Seq(Data) /\ call.walking \in BOOLEAN
         /\ Head(call.pages) \in Data /\ Len(call.pages) \in Nat /\ Len(call.pages) >= 1
         /\ Len(call.pages) # 1 =>
              /\ After(call.at) \in Addresses
              /\ Tail(call.pages) \in Seq(Data) /\ Tail(call.pages) # <<>>
              /\ Len(Tail(call.pages)) <= Remaining(After(call.at))
<1>1. /\ call \in [at : Addresses, pages : Seq(Data), walking : BOOLEAN]
      /\ call.pages # <<>> /\ Len(call.pages) <= Remaining(call.at)
  BY DEF TablesInv, CallInv
<1>2. /\ call.at \in Addresses /\ call.pages \in Seq(Data) /\ call.walking \in BOOLEAN
      /\ Head(call.pages) \in Data /\ Len(call.pages) \in Nat /\ Len(call.pages) >= 1
  BY <1>1
<1>3. Remaining(call.at) \in Int
  <2>1. Radix \in Nat /\ Indices \subseteq Nat
    BY TablesAssumption, AddressIs
  <2>2. /\ call.at[1] \in Nat /\ call.at[2] \in Nat
        /\ call.at[3] \in Nat /\ call.at[4] \in Nat
    BY <1>2, <2>1, AddressIs
  <2> DEFINE i == call.at[1]  j == call.at[2]  k == call.at[3]  l == call.at[4]
  <2> HIDE DEF i, j, k, l
  <2>3. Radix * (Radix * (Radix * i + j) + k) + l \in Int /\ Radix * Radix * Radix * Radix \in Int
    BY <2>1, <2>2 DEF i, j, k, l
  <2> QED
    BY <2>3 DEF Remaining, i, j, k, l
<1>4. ASSUME Len(call.pages) # 1
      PROVE  /\ After(call.at) \in Addresses
             /\ Tail(call.pages) \in Seq(Data) /\ Tail(call.pages) # <<>>
             /\ Len(Tail(call.pages)) <= Remaining(After(call.at))
  <2> DEFINE length == Len(call.pages)
             remaining == Remaining(call.at)
             pages == call.pages
  <2>1. Remaining(call.at) >= 2
    <3>1. length \in Nat /\ length >= 1 /\ length # 1 /\ remaining \in Int /\ length <= remaining
      BY <1>1, <1>2, <1>3, <1>4
    <3> HIDE DEF length, remaining
    <3>2. remaining >= 2
      BY <3>1
    <3> QED
      BY <3>2 DEF remaining
  <2>2. After(call.at) \in Addresses /\ Remaining(After(call.at)) = Remaining(call.at) - 1
    BY <1>2, <2>1, AfterIs
  <2>3. /\ Tail(call.pages) \in Seq(Data) /\ Tail(call.pages) # <<>>
        /\ Len(Tail(call.pages)) = Len(call.pages) - 1
    <3>1. pages \in Seq(Data) /\ Len(pages) \in Nat /\ Len(pages) >= 1 /\ Len(pages) # 1
      BY <1>2, <1>4
    <3> HIDE DEF pages
    <3>2. pages # <<>> /\ Len(pages) - 1 # 0
      BY <3>1
    <3>3. Tail(pages) \in Seq(Data) /\ Len(Tail(pages)) = Len(pages) - 1
      BY <3>1, <3>2
    <3>4. Tail(pages) # <<>>
      BY <3>2, <3>3
    <3> QED
      BY <3>3, <3>4 DEF pages
  <2>4. length - 1 <= remaining - 1
    <3>1. length \in Nat /\ remaining \in Int /\ length <= remaining
      BY <1>1, <1>2, <1>3
    <3> HIDE DEF length, remaining
    <3> QED
      BY <3>1
  <2> QED
    BY <2>2, <2>3, <2>4
<1> QED
  BY <1>2, <1>4

LEMMA AdvanceIs ==
  ASSUME TablesInv, call # NoCall, Advance
  PROVE  CallInv'
<1>1. CASE Len(call.pages) = 1
  BY <1>1 DEF Advance, CallInv
<1>2. CASE Len(call.pages) # 1
  <2>1. call' = [at |-> After(call.at), pages |-> Tail(call.pages), walking |-> FALSE]
    BY <1>2 DEF Advance
  <2> QED
    BY <1>2, <2>1, CallIs DEF CallInv
<1> QED
  BY <1>1, <1>2

\* The pages a call begins with.
LEMMA BeginIs ==
  ASSUME NEW a \in Starts, NEW area \in Areas, NEW pages,
         \/ pages = area
         \/ pages = [i \in 1 .. Len(area) |-> Scratch]
  PROVE  a \in Addresses /\ pages \in Seq(Data) /\ pages # <<>>
<1>1. a \in Addresses /\ area \in Seq(Pages) /\ area # <<>>
  BY TablesAssumption
<1>2. CASE pages = area
  BY <1>1, <1>2 DEF Data
<1>3. CASE pages = [i \in 1 .. Len(area) |-> Scratch]
  <2>1. Len(area) \in Nat /\ Len(area) >= 1
    BY <1>1
  <2>2. pages \in Seq(Data) /\ Len(pages) = Len(area)
    BY <1>3, <2>1 DEF Data
  <2> QED
    BY <1>1, <2>1, <2>2
<1> QED
  BY <1>1, <1>2, <1>3

-----------------------------------------------------------------------------
(* The inductive invariant. *)

LEMMA TablesInvInit == TablesInit => TablesInv
<1> SUFFICES ASSUME TablesInit PROVE TablesInv
  OBVIOUS
<1>1. unflushed = 1 .. 4 /\ call = NoCall /\ dirty = TRUE
  BY DEF TablesInit, Top
<1>2. TypeInv
  BY <1>1, InitialWalk DEF TypeInv
<1>3. LevelsInv /\ ApartInv
  BY InitialWalk DEF LevelsInv, ApartInv
<1>4. CallInv /\ FlushInv
  BY <1>1 DEF CallInv, FlushInv, CleanMeansFlushed
<1> QED
  BY <1>2, <1>3, <1>4, InitialWalk DEF TablesInv

\* What the tables are, as long as none is written.
LEMMA TablesKept ==
  ASSUME TablesInv, tables' = tables
  PROVE  ScratchInv' /\ LevelsInv' /\ ApartInv'
<1>1. MadeHere' = MadeHere /\ Count' = Count
  BY DEF MadeHere, Count
<1>2. ASSUME NEW a \in Addresses
      PROVE  /\ Second(tables', a) = Second(tables, a)
             /\ Third(tables', a) = Third(tables, a) /\ Fourth(tables', a) = Fourth(tables, a)
  BY Zenon
<1>3. ScratchInv'
  BY DEF TablesInv, ScratchInv
<1>4. LevelsInv'
  BY <1>1, <1>2 DEF TablesInv, LevelsInv
<1>5. ApartInv'
  BY <1>2 DEF TablesInv, ApartInv
<1> QED
  BY <1>3, <1>4, <1>5

LEMMA TablesInvStep ==
  ASSUME TablesInv, [TablesNext]_tableVars
  PROVE  TablesInv'
<1>1. ASSUME NEW a \in Starts, NEW area \in Areas, Map(a, area) \/ Unmap(a, Len(area))
      PROVE  TablesInv'
  <2>1. PICK pages : Begin(a, pages) /\ (\/ pages = area
                                         \/ pages = [i \in 1 .. Len(area) |-> Scratch])
    BY <1>1 DEF Map, Unmap
  <2>2. call' = [at |-> a, pages |-> pages, walking |-> FALSE] /\ Len(pages) <= Remaining(a)
    BY <2>1 DEF Begin
  <2>3. CallInv'
    BY <2>1, <2>2, BeginIs DEF CallInv
  <2>4. UNCHANGED <<tables, unflushed>> /\ dirty' = TRUE
    BY <2>1 DEF Begin
  <2>5. TypeInv'
    BY <2>4 DEF TablesInv, TypeInv, Count
  <2>6. ScratchInv' /\ LevelsInv' /\ ApartInv'
    BY <2>4, TablesKept
  <2>7. FlushInv'
    BY <2>4 DEF FlushInv, CleanMeansFlushed
  <2> QED
    BY <2>3, <2>5, <2>6, <2>7 DEF TablesInv
<1>2. ASSUME Grow PROVE TablesInv'
  <2>1. PICK level \in 2 .. 4 : GrownTables(call.at, level)
    BY <1>2, GrowIs
  <2>2. ScratchInv' /\ LevelsInv' /\ ApartInv'
    BY <1>2, <2>1, GrownApart, GrowIs
  <2>3. tables' \in Seq([Indices -> Entries]) /\ Count' = Count + 1 /\ Count \in Nat /\ Count >= 4
    BY <2>1 DEF GrownTables, TablesInv, TypeInv, Count
  <2>4. /\ unflushed' = unflushed \cup {TableAt(tables, call.at, Lacking(call.at) - 1), Count + 1}
        /\ dirty' = dirty /\ call' = [call EXCEPT !.walking = TRUE] /\ call # NoCall
    BY <1>2 DEF Grow, Count
  <2>5. unflushed' \subseteq 1 .. Count'
    BY <1>2, <2>3, <2>4, GrowIs DEF TablesInv, TypeInv
  <2>6. CallInv'
    BY <2>4 DEF TablesInv, CallInv
  <2>7. FlushInv'
    BY <2>4 DEF TablesInv, FlushInv, CleanMeansFlushed
  <2> QED
    BY <2>2, <2>3, <2>4, <2>5, <2>6, <2>7 DEF TablesInv, TypeInv
<1>3. ASSUME Write PROVE TablesInv'
  <2>1. /\ Fourth(tables, call.at) \in MadeHere
        /\ tables' \in Seq([Indices -> Entries]) /\ Count' = Count /\ Count \in Nat /\ Count >= 4
        /\ \A i \in Indices : tables'[1][i] = tables[1][i] /\ tables'[2][i] = tables[2][i]
                              /\ tables'[3][i] = tables[3][i]
        /\ \A b \in Addresses :
             /\ Second(tables', b) = Second(tables, b)
             /\ Third(tables', b) = Third(tables, b)
             /\ Fourth(tables', b) = Fourth(tables, b)
    BY <1>3, WriteIs DEF TablesInv, TypeInv, Count
  <2>2. ScratchInv'
    BY <2>1 DEF TablesInv, ScratchInv
  <2>3. LevelsInv'
    BY <2>1 DEF TablesInv, LevelsInv, MadeHere
  <2>4. ApartInv'
    BY <2>1 DEF TablesInv, ApartInv
  <2>5. /\ unflushed' = unflushed \cup {Fourth(tables, call.at)}
        /\ dirty' = dirty /\ call # NoCall /\ Advance
    BY <1>3, WalkIs DEF Write
  <2>6. TypeInv'
    <3>1. Fourth(tables, call.at) \in 1 .. Count
      BY <2>1 DEF MadeHere
    <3>2. unflushed' \subseteq 1 .. Count'
      BY <2>1, <2>5, <3>1 DEF TablesInv, TypeInv
    <3> QED
      BY <2>1, <2>5, <3>2 DEF TablesInv, TypeInv
  <2>7. CallInv'
    BY <2>5, AdvanceIs
  <2>8. FlushInv'
    BY <2>5 DEF TablesInv, FlushInv, CleanMeansFlushed
  <2> QED
    BY <2>2, <2>3, <2>4, <2>6, <2>7, <2>8 DEF TablesInv
<1>4. ASSUME UNCHANGED <<tables, dirty, unflushed>>, CallInv', call = NoCall => call' = NoCall
      PROVE  TablesInv'
  <2>1. TypeInv'
    BY <1>4 DEF TablesInv, TypeInv, Count
  <2>2. ScratchInv' /\ LevelsInv' /\ ApartInv'
    BY <1>4, TablesKept
  <2>3. FlushInv'
    BY <1>4 DEF TablesInv, FlushInv, CleanMeansFlushed
  <2> QED
    BY <1>4, <2>1, <2>2, <2>3 DEF TablesInv
<1>5. ASSUME Skip PROVE TablesInv'
  BY <1>4, <1>5, AdvanceIs DEF Skip
<1>6. ASSUME Fail PROVE TablesInv'
  BY <1>4, <1>6 DEF Fail, CallInv
<1>7. ASSUME Flush PROVE TablesInv'
  <2>1. tables' = tables /\ call' = call /\ call = NoCall /\ unflushed' = {}
    BY <1>7 DEF Flush
  <2>2. TypeInv' /\ CallInv'
    BY <1>7, <2>1 DEF Flush, TablesInv, TypeInv, Count, CallInv
  <2>3. ScratchInv' /\ LevelsInv' /\ ApartInv'
    BY <2>1, TablesKept
  <2>4. FlushInv'
    BY <2>1 DEF FlushInv, CleanMeansFlushed
  <2> QED
    BY <2>2, <2>3, <2>4 DEF TablesInv
<1>8. ASSUME UNCHANGED tableVars PROVE TablesInv'
  BY <1>4, <1>8 DEF tableVars, TablesInv, CallInv
<1> QED
  BY <1>1, <1>2, <1>3, <1>5, <1>6, <1>7, <1>8 DEF TablesNext

\* The inductive invariant holds.
THEOREM TablesInvariance == TablesSpec => []TablesInv
<1> QED
  BY TablesInvInit, TablesInvStep, PTL DEF TablesSpec

\* When fDirty is clear nothing of the tables is only in the caches.
THEOREM CleanIsFlushed == TablesSpec => []CleanMeansFlushed
<1>1. TablesInv => CleanMeansFlushed
  BY DEF TablesInv, FlushInv
<1> QED
  BY <1>1, TablesInvariance, PTL

-----------------------------------------------------------------------------
(* The tables implement the flat map. *)

\* The flat map's variables.
FlatMap(ts) == [a \in Addresses |-> Translate(ts, a)]
FlatCall(c) == IF c = NoCall THEN NoCall ELSE [at |-> c.at, pages |-> c.pages]

LEMMA CallIsSome ==
  ASSUME NEW a \in Addresses, NEW pages \in Seq(Data)
  PROVE  [at |-> a, pages |-> pages] # NoCall /\ [at |-> a, pages |-> pages, walking |-> FALSE] # NoCall
<1>1. [at |-> a, pages |-> pages] \in [at : Addresses, pages : Seq(Pages \cup {Scratch})]
  BY DEF Data
<1>2. [at |-> a, pages |-> pages, walking |-> FALSE]
        \in [at : Addresses, pages : Seq(Pages \cup {Scratch}), walking : BOOLEAN]
  BY DEF Data
<1> QED
  BY <1>1, <1>2, TablesAssumption

\* The same, of the call that is under way.
LEMMA FlatCallIs ==
  ASSUME TablesInv, call # NoCall
  PROVE  /\ FlatCall(call) = [at |-> call.at, pages |-> call.pages] /\ FlatCall(call) # NoCall
         /\ Advance =>
              FlatCall(call') = IF Len(call.pages) = 1 THEN NoCall
                                ELSE [at |-> After(call.at), pages |-> Tail(call.pages)]
<1>1. FlatCall(call) = [at |-> call.at, pages |-> call.pages] /\ FlatCall(call) # NoCall
  BY CallIs, CallIsSome DEF FlatCall
<1>2. CASE Len(call.pages) = 1
  BY <1>1, <1>2 DEF Advance, FlatCall
<1>3. CASE Len(call.pages) # 1
  <2>1. [at |-> After(call.at), pages |-> Tail(call.pages), walking |-> FALSE] # NoCall
    BY <1>3, CallIs, CallIsSome
  <2>2. ASSUME Advance
        PROVE  FlatCall(call') = [at |-> After(call.at), pages |-> Tail(call.pages)]
    <3>1. call' = [at |-> After(call.at), pages |-> Tail(call.pages), walking |-> FALSE]
      BY <1>3, <2>2 DEF Advance
    <3>2. call' # NoCall /\ call'.at = After(call.at) /\ call'.pages = Tail(call.pages)
      BY <2>1, <3>1
    <3> QED
      BY <3>2 DEF FlatCall
  <2> QED
    BY <1>1, <1>3, <2>2
<1> QED
  BY <1>1, <1>2, <1>3

\* Every step is one of the flat map's, or none.
LEMMA FlatStep ==
  ASSUME TablesInv, [TablesNext]_tableVars
  PROVE  [Flat!Next]_(Flat!vars)
<1> DEFINE map == FlatMap(tables)
           map1 == FlatMap(tables')
           at == FlatCall(call)
           at1 == FlatCall(call')
<1>1. /\ Flat!vars = <<map, at>> /\ Flat!vars' = <<map1, at1>>
  BY DEF Flat!vars, FlatMap, FlatCall
<1>2. SUFFICES \/ UNCHANGED Flat!vars
               \/ \E a \in Addresses, pages \in Areas :
                    \/ Flat!Begin(a, pages)
                    \/ Flat!Begin(a, [i \in 1 .. Len(pages) |-> Scratch])
               \/ Flat!Write
               \/ Flat!Stop
  BY DEF Flat!Next
<1>3. ASSUME NEW a \in Starts, NEW area \in Areas, Map(a, area) \/ Unmap(a, Len(area))
      PROVE  \E b \in Addresses, pages \in Areas :
               \/ Flat!Begin(b, pages)
               \/ Flat!Begin(b, [i \in 1 .. Len(pages) |-> Scratch])
  <2>1. PICK pages : Begin(a, pages) /\ (\/ pages = area
                                         \/ pages = [i \in 1 .. Len(area) |-> Scratch])
    BY <1>3 DEF Map, Unmap
  <2>2. a \in Addresses /\ pages \in Seq(Data)
    BY <2>1, BeginIs
  <2>3. at = NoCall /\ at1 = [at |-> a, pages |-> pages] /\ map1 = map
    BY <2>1, <2>2, CallIsSome DEF Begin, FlatCall
  <2>4. Flat!Begin(a, pages)
    BY <2>3 DEF Flat!Begin, FlatMap, FlatCall
  <2> QED
    BY <2>1, <2>2, <2>4
<1>4. ASSUME Grow PROVE UNCHANGED Flat!vars
  <2>1. PICK level \in 2 .. 4 : GrownTables(call.at, level)
    BY <1>4, GrowIs
  <2>2. map1 = map
    BY <2>1 DEF GrownTables, FlatMap
  <2>3. call # NoCall /\ call' = [call EXCEPT !.walking = TRUE]
    BY <1>4 DEF Grow
  <2>4. call' # NoCall /\ call'.at = call.at /\ call'.pages = call.pages
    <3>1. call \in [at : Addresses, pages : Seq(Pages \cup {Scratch}), walking : BOOLEAN]
      BY <2>3 DEF TablesInv, CallInv, Data
    <3>2. call' \in [at : Addresses, pages : Seq(Pages \cup {Scratch}), walking : BOOLEAN]
      BY <2>3, <3>1
    <3> QED
      BY <2>3, <3>1, <3>2, TablesAssumption
  <2>5. at1 = at
    BY <2>3, <2>4 DEF FlatCall
  <2> QED
    BY <1>1, <2>2, <2>5
<1>5. ASSUME Write PROVE Flat!Write
  <2>1. call # NoCall /\ Advance
    BY <1>5 DEF Write
  <2>2. map1 = [map EXCEPT ![call.at] = Head(call.pages)]
    BY <1>5, WriteIs DEF FlatMap
  <2>3. /\ at # NoCall /\ at.at = call.at /\ at.pages = call.pages
        /\ at1 = IF Len(call.pages) = 1 THEN NoCall
                 ELSE [at |-> After(call.at), pages |-> Tail(call.pages)]
    BY <2>1, FlatCallIs
  <2> QED
    BY <2>2, <2>3 DEF Flat!Write, FlatMap, FlatCall
<1>6. ASSUME Skip PROVE Flat!Write
  <2>1. call # NoCall /\ Advance /\ Head(call.pages) = Scratch /\ tables' = tables
    BY <1>6 DEF Skip, Unmapping
  <2>2. call.at \in Addresses /\ Translate(tables, call.at) = Scratch
    BY <1>6, <2>1, CallIs, SharedIs, WalkIsThere DEF Skip
  <2>3. map1 = [map EXCEPT ![call.at] = Head(call.pages)]
    BY <2>1, <2>2 DEF FlatMap
  <2>4. /\ at # NoCall /\ at.at = call.at /\ at.pages = call.pages
        /\ at1 = IF Len(call.pages) = 1 THEN NoCall
                 ELSE [at |-> After(call.at), pages |-> Tail(call.pages)]
    BY <2>1, FlatCallIs
  <2> QED
    BY <2>3, <2>4 DEF Flat!Write, FlatMap, FlatCall
<1>7. ASSUME Fail PROVE Flat!Stop
  <2>1. call # NoCall /\ Head(call.pages) # Scratch /\ call' = NoCall /\ tables' = tables
    BY <1>7 DEF Fail, Unmapping
  <2>2. at # NoCall /\ at.pages = call.pages /\ at1 = NoCall /\ map1 = map
    BY <2>1, FlatCallIs DEF FlatCall
  <2> QED
    BY <2>1, <2>2 DEF Flat!Stop, FlatMap, FlatCall
<1>8. ASSUME Flush \/ UNCHANGED tableVars PROVE UNCHANGED Flat!vars
  <2>1. tables' = tables /\ call' = call
    BY <1>8 DEF Flush, tableVars
  <2> QED
    BY <1>1, <2>1
<1> QED
  BY <1>3, <1>4, <1>5, <1>6, <1>7, <1>8 DEF TablesNext

\* Four levels of shared, growing tables are a flat map.
THEOREM TablesAreFlat == TablesSpec => ImplementsFlatTables
<1>1. TablesInit => Flat!Init
  BY FlatInit
<1>2. TablesInv /\ [TablesNext]_tableVars => [Flat!Next]_(Flat!vars)
  BY FlatStep
<1> QED
  BY <1>1, <1>2, TablesInvariance, PTL DEF TablesSpec, ImplementsFlatTables, Flat!Spec

=============================================================================
