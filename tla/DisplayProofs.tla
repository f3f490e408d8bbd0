--------------------------- MODULE DisplayProofs ----------------------------
(***************************************************************************)
(* What holds on the way to the screen: of the ports that are probed, of   *)
(* the clocks of their pipes, and of the surfaces of EGL.                  *)
(***************************************************************************)
EXTENDS Probe, Clocks, EglSurfaces, FiniteSetTheorems, Programs

-----------------------------------------------------------------------------
(***************************************************************************)
(* Probe, for every machine, every length of a message and every number of *)
(* attempts: a transfer over the AUX channel that answers B_OK moved its   *)
(* bytes and none of another call's, and the ports get the pipes the       *)
(* firmware gave them.                                                     *)
(***************************************************************************)
Phases == {"write", "read"}

\* A call and the number of the message it has come to.
CallType ==
  [phase : Phases \cup {"none"}, bare : BOOLEAN, at : Nat, writes : Nat, reads : Nat,
   attempt : 1 .. Attempts, retry : Nat, send : 1 .. Sends, got : Seq(Nat),
   excuse : SUBSET Excuses, answer : {"none", "OK", "ERROR"}]

SinkType ==
  [open : {"no", "this", "earlier"}, stored : Seq(Nat), given : Nat, joined : BOOLEAN]

Shape(c) ==
  /\ c \in CallType /\ Len(c.got) = c.reads
  /\ c.phase # "none" =>
       /\ c.answer = "none" /\ c.at < Length(c)
       /\ c.bare => c.at = 0

\* The bytes that have moved when the first n of the phase have.
Moved(c, s, n) ==
  IF c.phase = "write"
  THEN s.stored = [i \in 1 .. n |-> i] /\ s.given = 0
  ELSE /\ s.stored = [i \in 1 .. c.writes |-> i] /\ s.given = n
       /\ \A i \in 1 .. n : c.got[i] = i

\* What an earlier call left open is joined only behind a message given up.
Apart(c, s) ==
  "abandoned" \notin c.excuse =>
    /\ ~s.joined
    /\ c.phase # "none" /\ ~c.bare => s.open # "earlier"

\* What has moved, as long as nothing spoiled it.
Complete(c, s) ==
  c.excuse = {} =>
    /\ c.phase # "none" => Moved(c, s, c.at)
    /\ c.answer = "OK" =>
         /\ s.stored = [i \in 1 .. c.writes |-> i]
         /\ \A i \in 1 .. c.reads : c.got[i] = i
         /\ s.open = "no"

AuxInv(c, s) == Shape(c) /\ s \in SinkType /\ Apart(c, s) /\ Complete(c, s)

-----------------------------------------------------------------------------
(* The AUX channel. *)

LEMMA CountsArePositive ==
  Chunk \in Nat \ {0} /\ Attempts \in Nat \ {0} /\ Retries \in Nat \ {0} /\ Sends \in Nat \ {0}
BY AuxAssumption

\* A message has a byte, but for the bare address, and no more than are left.
LEMMA SizeIs ==
  ASSUME NEW c, Shape(c), c.phase # "none"
  PROVE  /\ Size(c) \in 0 .. Chunk /\ c.at + Size(c) <= Length(c) /\ Length(c) \in Nat
         /\ ~c.bare => Size(c) > 0
         /\ MiddleOfTransmission(c) <=> ~c.bare /\ c.at + Size(c) < Length(c)
<1>1. Length(c) \in Nat /\ c.at \in Nat /\ c.at < Length(c) /\ Chunk \in Nat \ {0}
      /\ c.bare \in BOOLEAN
  BY AuxAssumption DEF Shape, CallType, Length
<1> DEFINE left == Length(c) - c.at
<1>2. left \in Nat \ {0}
  BY <1>1
<1>3. Min({Chunk, left}) = IF Chunk <= left THEN Chunk ELSE left
  <2> DEFINE T == {Chunk, left}
  <2>1. \E x \in T : \A y \in T : x <= y
    BY <1>1, <1>2
  <2> HIDE DEF T
  <2>2. Min(T) \in T /\ \A y \in T : Min(T) <= y
    BY <2>1 DEF Min
  <2> USE DEF T
  <2> HIDE DEF left
  <2> QED
    BY <1>1, <1>2, <2>2
<1> QED
  BY <1>1, <1>2, <1>3 DEF Size, MiddleOfTransmission

\* The phase after a phase is well formed, and so is the call when it ends.
LEMMA PhaseShape ==
  ASSUME NEW c, Shape(c), c.phase # "none"
  PROVE  /\ Shape(PhaseDone(c)) /\ PhaseDone(c).excuse = c.excuse
         /\ \A answer \in {"OK", "ERROR"} : Shape(Ended(c, answer))
<1>1. ASSUME NEW answer \in {"OK", "ERROR"} PROVE Shape(Ended(c, answer))
  BY DEF Shape, CallType, Ended
<1>2. ASSUME c.phase = "write", c.reads > 0 PROVE Shape(Bare(c, "read"))
  <2> DEFINE d == Bare(c, "read")
  <2>1. 1 \in 1 .. Attempts /\ 1 \in 1 .. Sends /\ c \in CallType
    BY CountsArePositive DEF Shape
  <2>2. d \in CallType
    BY <2>1 DEF CallType, Bare, Phases
  <2>3. d.phase = "read" /\ d.at = 0 /\ d.reads = c.reads /\ d.got = c.got /\ d.answer = c.answer
    BY <2>1 DEF CallType, Bare
  <2> HIDE DEF d
  <2>4. Shape(d)
    BY <1>2, <2>2, <2>3 DEF Shape, Length
  <2> QED
    BY <2>4 DEF d
<1>3. Bare(c, "read").excuse = c.excuse /\ Ended(c, "OK").excuse = c.excuse
  BY DEF Shape, CallType, Bare, Ended
<1> QED
  BY <1>1, <1>2, <1>3 DEF PhaseDone

LEMMA NextShape ==
  ASSUME NEW c, Shape(c), c.phase # "none"
  PROVE  Shape(NextMessage(c)) /\ NextMessage(c).excuse = c.excuse
<1> DEFINE place == c.at + Size(c)
<1>1. place \in Nat /\ Length(c) \in Nat
  BY SizeIs DEF Shape, CallType
<1>2. CASE place >= Length(c)
  BY <1>2, PhaseShape DEF NextMessage
<1>3. CASE ~(place >= Length(c))
  <2> HIDE DEF place
  <2> DEFINE d == [c EXCEPT !.at = place, !.bare = FALSE, !.attempt = 1, !.retry = 1, !.send = 1]
  <2>1. NextMessage(c) = d
    BY <1>3 DEF NextMessage, place
  <2>2. 1 \in 1 .. Attempts /\ 1 \in 1 .. Sends /\ c \in CallType
    BY CountsArePositive DEF Shape
  <2>3. d \in CallType
    BY <1>1, <2>2 DEF CallType
  <2>4. /\ d.phase = c.phase /\ d.at = place /\ d.reads = c.reads /\ d.writes = c.writes
        /\ d.got = c.got /\ d.answer = c.answer /\ d.bare = FALSE /\ d.excuse = c.excuse
    BY <2>2 DEF CallType
  <2> HIDE DEF d
  <2>5. Length(d) = Length(c) /\ place < Length(c)
    BY <1>1, <1>3, <2>4 DEF Length
  <2>6. Shape(d) /\ d.excuse = c.excuse
    BY <2>3, <2>4, <2>5 DEF Shape
  <2> QED
    BY <2>1, <2>6
<1> QED
  BY <1>2, <1>3

\* A message given up excuses everything.
LEMMA GaveUp ==
  ASSUME NEW c, Shape(c), NEW s \in SinkType
  PROVE  AuxInv([c EXCEPT !.excuse = @ \cup {"abandoned"}], s)
BY DEF Shape, CallType, AuxInv, Apart, Complete, Excuses, Length

\* The next message, when this one arrived as a whole or is excused.
LEMMA NextMessageInv ==
  ASSUME NEW c, Shape(c), c.phase # "none", NEW s \in SinkType,
         "abandoned" \notin c.excuse => ~s.joined /\ s.open # "earlier",
         c.excuse = {} =>
           /\ Moved(c, s, c.at + Size(c))
           /\ ~MiddleOfTransmission(c) => s.open = "no"
  PROVE  AuxInv(NextMessage(c), s)
<1> DEFINE place == c.at + Size(c)
<1>1. place \in Nat /\ Length(c) \in Nat /\ place <= Length(c)
      /\ (MiddleOfTransmission(c) => place < Length(c))
  <2>1. c.at \in Nat
    BY DEF Shape, CallType
  <2>2. Size(c) \in Nat
    BY SizeIs, CountsArePositive
  <2> QED
    BY <2>1, <2>2, SizeIs
<1>2. Shape(NextMessage(c)) /\ NextMessage(c).excuse = c.excuse
  BY NextShape
<1>3. CASE place >= Length(c)
  <2>1. NextMessage(c) = PhaseDone(c)
    BY <1>3 DEF NextMessage
  <2>2. place = Length(c) /\ ~MiddleOfTransmission(c)
    <3> HIDE DEF place
    <3> QED
      BY <1>1, <1>3
  <2>3. c.excuse = {} =>
          /\ c.phase = "write" => s.stored = [i \in 1 .. c.writes |-> i] /\ s.given = 0
          /\ c.phase = "read" => /\ s.stored = [i \in 1 .. c.writes |-> i]
                                 /\ \A i \in 1 .. c.reads : c.got[i] = i
          /\ s.open = "no"
    BY <2>2 DEF Moved, Length
  <2>4. CASE c.phase = "write" /\ c.reads > 0
    <3>1. NextMessage(c) = Bare(c, "read")
      BY <2>1, <2>4 DEF PhaseDone
    <3>2. Apart(Bare(c, "read"), s)
      BY DEF Apart, Bare, Shape, CallType
    <3>3. Complete(Bare(c, "read"), s)
      <4> DEFINE d == Bare(c, "read")
      <4>1. /\ d.phase = "read" /\ d.at = 0 /\ d.writes = c.writes /\ d.answer = "none"
            /\ d.excuse = c.excuse
        BY DEF Bare, Shape, CallType
      <4> HIDE DEF d
      <4>2. d.excuse = {} => Moved(d, s, d.at)
        BY <2>3, <2>4, <4>1 DEF Moved
      <4>3. Complete(d, s)
        BY <4>1, <4>2 DEF Complete
      <4> QED
        BY <4>3 DEF d
    <3> QED
      BY <1>2, <3>1, <3>2, <3>3 DEF AuxInv
  <2>5. CASE ~(c.phase = "write" /\ c.reads > 0)
    <3>1. NextMessage(c) = Ended(c, "OK")
      BY <2>1, <2>5 DEF PhaseDone
    <3>2. Apart(Ended(c, "OK"), s)
      BY DEF Apart, Ended, Shape, CallType
    <3>3. Complete(Ended(c, "OK"), s)
      <4> DEFINE d == Ended(c, "OK")
      <4>1. /\ d.phase = "none" /\ d.writes = c.writes /\ d.reads = c.reads
            /\ d.got = c.got /\ d.excuse = c.excuse
        BY DEF Ended, Shape, CallType
      <4>2. c.phase \in Phases /\ c.reads \in Nat
        BY DEF Shape, CallType
      <4> HIDE DEF d
      <4>3. Complete(d, s)
        BY <2>3, <2>5, <4>1, <4>2 DEF Complete, Phases
      <4> QED
        BY <4>3 DEF d
    <3> QED
      BY <1>2, <3>1, <3>2, <3>3 DEF AuxInv
  <2> QED
    BY <2>4, <2>5
<1>4. CASE ~(place >= Length(c))
  <2> HIDE DEF place
  <2> DEFINE d == [c EXCEPT !.at = place, !.bare = FALSE, !.attempt = 1, !.retry = 1, !.send = 1]
  <2>1. NextMessage(c) = d
    BY <1>4 DEF NextMessage, place
  <2>2. /\ d.at = place /\ d.bare = FALSE /\ d.excuse = c.excuse /\ d.phase = c.phase
        /\ d.answer = c.answer /\ d.got = c.got /\ d.writes = c.writes
    BY <1>1 DEF Shape, CallType
  <2> HIDE DEF d
  <2>3. Apart(d, s)
    BY <2>2 DEF Apart
  <2>4. Complete(d, s)
    BY <2>2 DEF Complete, Moved, Shape, place
  <2> QED
    BY <1>2, <2>1, <2>3, <2>4 DEF AuxInv
<1> QED
  BY <1>3, <1>4

\* The counts of attempts do not matter.
LEMMA SameProgress ==
  ASSUME NEW c, NEW s, AuxInv(c, s), NEW d \in CallType,
         /\ d.phase = c.phase /\ d.bare = c.bare /\ d.at = c.at /\ d.writes = c.writes
         /\ d.reads = c.reads /\ d.got = c.got /\ d.excuse = c.excuse /\ d.answer = c.answer
  PROVE  AuxInv(d, s)
BY DEF AuxInv, Shape, Apart, Complete, Moved, Length

\* A transfer that is tried again, or a transaction that is sent again, changes
\* nothing of what has moved; a call that fails says so.
LEMMA RetryInv ==
  ASSUME NEW c, NEW s, AuxInv(c, s), c.phase # "none"
  PROVE  AuxInv(RetryTransfer(c), s) /\ AuxInv(Ended(c, "ERROR"), s)
<1>1. AuxInv(Ended(c, "ERROR"), s)
  BY DEF AuxInv, Shape, CallType, Ended, Apart, Complete
<1>2. AuxInv([c EXCEPT !.retry = @ + 1, !.send = 1], s)
  <2>1. c \in CallType /\ 1 \in 1 .. Sends
    BY CountsArePositive DEF AuxInv, Shape
  <2> DEFINE d == [c EXCEPT !.retry = @ + 1, !.send = 1]
  <2>2. /\ d.phase = c.phase /\ d.bare = c.bare /\ d.at = c.at /\ d.writes = c.writes
        /\ d.reads = c.reads /\ d.got = c.got /\ d.excuse = c.excuse /\ d.answer = c.answer
    BY <2>1 DEF CallType
  <2>3. c.retry + 1 \in Nat
    BY <2>1 DEF CallType
  <2>4. d \in CallType
    BY <2>1, <2>3 DEF CallType
  <2> HIDE DEF d
  <2>5. AuxInv(d, s)
    BY <2>2, <2>4, SameProgress
  <2> QED
    BY <2>5 DEF d
<1> QED
  BY <1>1, <1>2 DEF RetryTransfer

LEMMA SendAgainInv ==
  ASSUME NEW c, NEW s, AuxInv(c, s), c.phase # "none", NEW done \in BOOLEAN
  PROVE  AuxInv(SendAgain(c, done), s)
<1>1. c.send \in 1 .. Sends /\ Sends \in Nat
  BY AuxAssumption DEF AuxInv, Shape, CallType
<1>2. CASE c.send < Sends
  <2>1. AuxInv([c EXCEPT !.send = @ + 1], s)
    <3>1. c \in CallType
      BY DEF AuxInv, Shape
    <3> DEFINE d == [c EXCEPT !.send = @ + 1]
    <3>2. /\ d \in CallType
          /\ d.phase = c.phase /\ d.bare = c.bare /\ d.at = c.at /\ d.writes = c.writes
          /\ d.reads = c.reads /\ d.got = c.got /\ d.excuse = c.excuse /\ d.answer = c.answer
      BY <1>1, <1>2, <3>1 DEF CallType
    <3> HIDE DEF d
    <3>3. AuxInv(d, s)
      BY <3>2, SameProgress
    <3> QED
      BY <3>3 DEF d
  <2> QED
    BY <1>1, <1>2, <2>1 DEF SendAgain
<1>3. CASE c.send = Sends /\ done
  BY <1>1, <1>3, RetryInv DEF SendAgain
<1>4. CASE c.send = Sends /\ ~done
  BY <1>1, <1>4, RetryInv DEF SendAgain
<1> QED
  BY <1>1, <1>2, <1>3, <1>4

\* What the sink does with a message it gets.
LEMMA SinkActsType ==
  ASSUME AuxInv(call, sink), call.phase # "none", NEW n \in 0 .. Size(call)
  PROVE  LET s == SinkActs(call, n)
         IN  /\ s \in SinkType
             /\ s.open = IF MiddleOfTransmission(call) THEN "this" ELSE "no"
             /\ s.joined <=> sink.joined \/ (~call.bare /\ sink.open = "earlier")
             /\ s.stored = IF call.phase = "write"
                           THEN sink.stored \o [i \in 1 .. n |-> call.at + i] ELSE sink.stored
             /\ s.given = IF call.phase = "write" THEN sink.given ELSE sink.given + n
<1>1. n \in Nat /\ call.at \in Nat
  BY SizeIs, CountsArePositive DEF AuxInv, Shape, CallType
<1>2. sink \in SinkType
  BY DEF AuxInv
<1> DEFINE more == [i \in 1 .. n |-> call.at + i]
           t == IF call.phase = "write" THEN StoreWrite(call, n) ELSE GiveRead(call, n)
<1>3. more \in Seq(Nat)
  BY <1>1
<1> HIDE DEF more
<1>4. sink.stored \o more \in Seq(Nat) /\ sink.given + n \in Nat
  BY <1>1, <1>2, <1>3 DEF SinkType
<1>5. /\ t \in SinkType /\ t.open = sink.open /\ t.joined = sink.joined
      /\ t.stored = IF call.phase = "write" THEN sink.stored \o more ELSE sink.stored
      /\ t.given = IF call.phase = "write" THEN sink.given ELSE sink.given + n
  BY <1>2, <1>4 DEF SinkType, StoreWrite, GiveRead, more
<1>6. SinkActs(call, n) =
        [t EXCEPT !.open = IF MiddleOfTransmission(call) THEN "this" ELSE "no",
                  !.joined = @ \/ (~call.bare /\ sink.open = "earlier")]
  BY DEF SinkActs
<1> HIDE DEF t
<1> QED
  BY <1>5, <1>6 DEF SinkType, more

\* A message the sink acted on though no answer came: unless it is a bare address,
\* the call is excused, since the message is sent again.
LEMMA ActedInv ==
  ASSUME AuxInv(call, sink), call.phase # "none"
  PROVE  AuxInv(IF call.bare THEN call ELSE [call EXCEPT !.excuse = @ \cup {"repeated"}],
                SinkActs(call, Size(call)))
<1> DEFINE s == SinkActs(call, Size(call))
<1>1. Shape(call) /\ call \in CallType /\ call.bare \in BOOLEAN
  BY DEF AuxInv, Shape, CallType
<1>2. Size(call) \in 0 .. Size(call) /\ (call.bare => Size(call) = 0)
  BY <1>1, SizeIs, CountsArePositive DEF Size
<1>3. /\ s \in SinkType
      /\ s.open = IF MiddleOfTransmission(call) THEN "this" ELSE "no"
      /\ s.joined <=> sink.joined \/ (~call.bare /\ sink.open = "earlier")
      /\ s.stored = IF call.phase = "write"
                    THEN sink.stored \o [i \in 1 .. Size(call) |-> call.at + i] ELSE sink.stored
      /\ s.given = IF call.phase = "write" THEN sink.given ELSE sink.given + Size(call)
  BY <1>2, SinkActsType
<1> HIDE DEF s
<1>4. CASE call.bare
  <2>1. s.stored = sink.stored /\ s.given = sink.given
    BY <1>2, <1>3, <1>4 DEF AuxInv, SinkType
  <2>2. Apart(call, s)
    BY <1>3, <1>4 DEF AuxInv, Apart
  <2>3. Complete(call, s)
    BY <2>1 DEF AuxInv, Complete, Moved, Shape
  <2> QED
    BY <1>1, <1>3, <1>4, <2>2, <2>3 DEF AuxInv, s
<1>5. CASE ~call.bare
  <2> DEFINE d == [call EXCEPT !.excuse = @ \cup {"repeated"}]
  <2>1. /\ d \in CallType /\ d.excuse = call.excuse \cup {"repeated"}
        /\ d.phase = call.phase /\ d.bare = call.bare /\ d.at = call.at
        /\ d.writes = call.writes /\ d.reads = call.reads
        /\ d.got = call.got /\ d.answer = call.answer
    BY <1>1 DEF CallType, Excuses
  <2> HIDE DEF d
  <2>2. Shape(d)
    BY <1>1, <2>1 DEF Shape, Length
  <2>3. Apart(d, s) /\ Complete(d, s)
    BY <1>3, <1>5, <2>1 DEF AuxInv, Apart, Complete
  <2> QED
    BY <1>3, <1>5, <2>2, <2>3 DEF AuxInv, s, d
<1> QED
  BY <1>1, <1>4, <1>5

\* An acknowledge for n bytes: they are the next of the phase.
LEMMA AcknowledgedInv ==
  ASSUME AuxInv(call, sink), call.phase # "none", NEW n \in 0 .. Size(call)
  PROVE  AuxInv(NextMessage(Excused(Received(call, n), n, FALSE)), SinkActs(call, n))
<1> DEFINE s == SinkActs(call, n)
           c == Excused(Received(call, n), n, FALSE)
           got == [i \in DOMAIN call.got |-> IF i \in call.at + 1 .. call.at + n
                                            THEN sink.given + i - call.at ELSE call.got[i]]
           spoiled == call.excuse \cup (IF n < Size(call) THEN {"short"} ELSE {})
<1>1. /\ Shape(call) /\ call \in CallType /\ call.bare \in BOOLEAN /\ call.at \in Nat
      /\ call.phase \in Phases /\ Len(call.got) = call.reads /\ call.got \in Seq(Nat)
      /\ call.reads \in Nat /\ call.writes \in Nat
  BY DEF AuxInv, Shape, CallType
<1>2. sink \in SinkType /\ sink.given \in Nat
  BY DEF AuxInv, SinkType
<1>3. n \in Nat /\ Size(call) \in Nat /\ n <= Size(call) /\ (call.bare => Size(call) = 0)
      /\ call.at + Size(call) <= Length(call)
  BY <1>1, SizeIs, CountsArePositive DEF Size
<1>4. /\ s \in SinkType
      /\ s.open = IF MiddleOfTransmission(call) THEN "this" ELSE "no"
      /\ s.joined <=> sink.joined \/ (~call.bare /\ sink.open = "earlier")
      /\ s.stored = IF call.phase = "write"
                    THEN sink.stored \o [i \in 1 .. n |-> call.at + i] ELSE sink.stored
      /\ s.given = IF call.phase = "write" THEN sink.given ELSE sink.given + n
  BY SinkActsType
<1>5. DOMAIN call.got = 1 .. call.reads /\ \A i \in 1 .. call.reads : call.got[i] \in Nat
  BY <1>1
<1>6. got \in Seq(Nat) /\ Len(got) = call.reads
  <2>1. \A i \in 1 .. call.reads :
           (IF i \in call.at + 1 .. call.at + n
            THEN sink.given + i - call.at ELSE call.got[i]) \in Nat
    <3> SUFFICES ASSUME NEW i \in 1 .. call.reads
                 PROVE  i \in call.at + 1 .. call.at + n => sink.given + i - call.at \in Nat
      BY <1>5
    <3> DEFINE a == call.at
               g == sink.given
    <3>1. a \in Nat /\ g \in Nat /\ n \in Nat
      BY <1>1, <1>2, <1>3
    <3> HIDE DEF a, g
    <3>2. i \in a + 1 .. a + n => g + i - a \in Nat
      BY <3>1
    <3> QED
      BY <3>2 DEF a, g
  <2>2. got \in [1 .. call.reads -> Nat]
    BY <1>5, <2>1
  <2> HIDE DEF got
  <2> DEFINE r == call.reads
  <2>3. r \in Nat /\ got \in [1 .. r -> Nat]
    BY <1>1, <2>2
  <2> HIDE DEF r
  <2>4. got \in Seq(Nat) /\ Len(got) = r
    BY <2>3
  <2> QED
    BY <2>4 DEF r
<1>7. /\ c \in CallType /\ c.excuse = spoiled
      /\ c.phase = call.phase /\ c.bare = call.bare /\ c.at = call.at
      /\ c.writes = call.writes /\ c.reads = call.reads /\ c.answer = call.answer
      /\ c.got = IF call.phase = "write" THEN call.got ELSE got
  <2> DEFINE r == Received(call, n)
  <2>1. /\ r \in CallType /\ r.excuse = call.excuse
        /\ r.phase = call.phase /\ r.bare = call.bare /\ r.at = call.at
        /\ r.writes = call.writes /\ r.reads = call.reads /\ r.answer = call.answer
        /\ r.got = IF call.phase = "write" THEN call.got ELSE got
    <3> HIDE DEF got
    <3>1. r = IF call.phase = "write" THEN call ELSE [call EXCEPT !.got = got]
      BY <1>1 DEF Received, got, CallType
    <3> HIDE DEF r
    <3> QED
      BY <1>1, <1>6, <3>1 DEF CallType
  <2> HIDE DEF r, got
  <2>2. Size(r) = Size(call)
    BY <2>1 DEF Size, Length
  <2>3. c = [r EXCEPT !.excuse = spoiled]
    BY <2>1, <2>2 DEF Excused, r, CallType
  <2>4. spoiled \in SUBSET Excuses
    BY <1>1 DEF CallType, Excuses
  <2> HIDE DEF c, spoiled
  <2> QED
    BY <2>1, <2>3, <2>4 DEF CallType
<1> HIDE DEF c, s
<1>8. Size(c) = Size(call) /\ Length(c) = Length(call)
      /\ (MiddleOfTransmission(c) <=> MiddleOfTransmission(call))
  BY <1>7 DEF Size, Length, MiddleOfTransmission
<1>9. Shape(c)
  BY <1>1, <1>6, <1>7, <1>8 DEF Shape
<1>10. ASSUME "abandoned" \notin c.excuse PROVE ~s.joined /\ s.open # "earlier"
  <2>1. ~sink.joined /\ (~call.bare => sink.open # "earlier")
    BY <1>7, <1>10 DEF AuxInv, Apart
  <2> QED
    BY <1>4, <2>1
<1>11. ASSUME c.excuse = {}
       PROVE  Moved(c, s, c.at + Size(c)) /\ (~MiddleOfTransmission(c) => s.open = "no")
  <2>1. call.excuse = {} /\ n = Size(call)
    BY <1>3, <1>7, <1>11
  <2>2. Moved(call, sink, call.at)
    BY <1>1, <2>1 DEF AuxInv, Complete, Phases
  <2>3. CASE call.phase = "write"
    <3>1. s.stored = [i \in 1 .. call.at |-> i] \o [i \in 1 .. n |-> call.at + i]
      BY <1>4, <2>2, <2>3 DEF Moved
    <3>2. [i \in 1 .. call.at |-> i] \o [i \in 1 .. n |-> call.at + i]
             = [i \in 1 .. call.at + n |-> i]
      <4> DEFINE a == call.at
      <4>1. a \in Nat /\ n \in Nat
        BY <1>1, <1>3
      <4> HIDE DEF a
      <4>2. [i \in 1 .. a |-> i] \o [i \in 1 .. n |-> a + i] = [i \in 1 .. a + n |-> i]
        BY <4>1
      <4> QED
        BY <4>2 DEF a
    <3> QED
      BY <1>4, <1>7, <1>8, <2>1, <2>2, <2>3, <3>1, <3>2 DEF Moved
  <2>4. CASE call.phase = "read"
    <3>1. sink.given = call.at /\ \A i \in 1 .. call.at : call.got[i] = i
      BY <2>2, <2>4 DEF Moved
    <3>2. call.at + n <= call.reads
      BY <1>1, <1>3, <2>1, <2>4 DEF Length
    <3>3. \A i \in 1 .. call.at + n : got[i] = i
      <4> SUFFICES ASSUME NEW i \in 1 .. call.at + n PROVE got[i] = i
        OBVIOUS
      <4>1. i \in DOMAIN call.got /\ call.at \in Nat /\ n \in Nat /\ i \in Int
        BY <1>1, <1>3, <1>5, <3>2
      <4>2. CASE i \in call.at + 1 .. call.at + n
        BY <3>1, <4>1, <4>2
      <4>3. CASE i \notin call.at + 1 .. call.at + n
        BY <3>1, <4>1, <4>3
      <4> QED
        BY <4>2, <4>3
    <3> HIDE DEF got
    <3> QED
      BY <1>4, <1>7, <1>8, <2>1, <2>2, <2>4, <3>1, <3>3 DEF Moved
  <2> QED
    BY <1>1, <1>4, <1>8, <2>3, <2>4 DEF Phases
<1>12. AuxInv(NextMessage(c), s)
  BY <1>1, <1>4, <1>7, <1>9, <1>10, <1>11, NextMessageInv
<1> QED
  BY <1>12 DEF c, s

LEMMA DeliveredInv ==
  ASSUME AuxInv(call, sink), NEW reply \in {"ack", "nack", "defer"}, NEW n \in 0 .. Chunk,
         Delivered(reply, n)
  PROVE  AuxInv(call, sink)'
<1>1. /\ call.phase # "none" /\ Shape(call) /\ call \in CallType /\ call.bare \in BOOLEAN
      /\ sink \in SinkType /\ n \in 0 .. Size(call)
  <2>1. n \in Nat /\ Size(call) \in Nat
    BY SizeIs, CountsArePositive DEF Delivered, AuxInv
  <2> QED
    BY <2>1 DEF Delivered, AuxInv, Shape, CallType
<1>2. CASE reply = "ack"
  <2> DEFINE c == Excused(Received(call, n), n, FALSE)
  <2>1. c.bare = call.bare
    BY <1>1 DEF Excused, Received, CallType
  <2>2. call' = I2cReply(c, "ack") /\ sink' = SinkActs(call, n)
    BY <1>2 DEF Delivered
  <2> HIDE DEF c
  <2>3. call' = NextMessage(c)
    BY <1>1, <2>1, <2>2 DEF I2cReply
  <2> QED
    BY <1>1, <2>2, <2>3, AcknowledgedInv DEF c
<1>3. CASE reply = "nack"
  <2>1. CASE call.bare
    <3>1. Size(call) = 0 /\ n = 0
      BY <1>1, <2>1 DEF Size
    <3>2. call' = NextMessage(call) /\ sink' = SinkActs(call, 0)
      BY <1>3, <2>1, <3>1 DEF Delivered, I2cReply
    <3>3. AuxInv(call, sink') /\ sink'.open = "no" /\ ~MiddleOfTransmission(call)
      BY <1>1, <2>1, <3>1, <3>2, ActedInv, SinkActsType DEF MiddleOfTransmission
    <3>4. "abandoned" \notin call.excuse => ~sink'.joined /\ sink'.open # "earlier"
      BY <3>3 DEF AuxInv, Apart
    <3>5. call.excuse = {} => Moved(call, sink', call.at + Size(call))
      <4>1. call.at + Size(call) = call.at
        BY <1>1, <3>1 DEF CallType
      <4> QED
        BY <1>1, <3>3, <4>1 DEF AuxInv, Complete
    <3>6. AuxInv(NextMessage(call), sink')
      BY <1>1, <3>3, <3>4, <3>5, NextMessageInv DEF AuxInv
    <3> QED
      BY <3>2, <3>6
  <2>2. CASE ~call.bare
    <3>1. call' = Ended(call, "ERROR") /\ sink' = sink
      BY <1>3, <2>2 DEF Delivered, I2cReply
    <3> QED
      BY <1>1, <3>1, RetryInv
  <2> QED
    BY <2>1, <2>2
<1>4. CASE reply = "defer"
  <2>1. sink' = sink /\ call' = I2cReply(call, "defer")
    BY <1>4 DEF Delivered
  <2>2. CASE call.bare \/ call.attempt = Attempts
    <3>1. call' = [NextMessage(call) EXCEPT !.excuse = @ \cup {"abandoned"}]
      BY <1>1, <2>1, <2>2, CountsArePositive DEF I2cReply, CallType
    <3> QED
      BY <1>1, <2>1, <3>1, NextShape, GaveUp
  <2>3. CASE ~call.bare /\ call.attempt # Attempts
    <3> DEFINE d == [call EXCEPT !.attempt = @ + 1, !.retry = 1, !.send = 1]
    <3>1. call.attempt < Attempts /\ call.attempt \in Nat /\ Attempts \in Nat
      BY <1>1, <2>3, CountsArePositive DEF CallType
    <3>2. call' = d
      BY <2>1, <2>3, <3>1 DEF I2cReply
    <3>3. /\ d.phase = call.phase /\ d.bare = call.bare /\ d.at = call.at
          /\ d.writes = call.writes /\ d.reads = call.reads /\ d.got = call.got
          /\ d.excuse = call.excuse /\ d.answer = call.answer
      BY <1>1 DEF CallType
    <3>4. call.attempt + 1 \in 1 .. Attempts /\ 1 \in 1 .. Sends
      BY <3>1, CountsArePositive
    <3>5. d \in CallType
      BY <1>1, <3>4 DEF CallType
    <3> HIDE DEF d
    <3> QED
      BY <2>1, <3>2, <3>3, <3>5, SameProgress
  <2> QED
    BY <2>2, <2>3
<1> QED
  BY <1>2, <1>3, <1>4

\* A transaction on the wire.
LEMMA TransactionInv ==
  ASSUME AuxInv(call, sink), Transaction
  PROVE  AuxInv(call, sink)'
<1> DEFINE again == IF call.bare THEN call ELSE [call EXCEPT !.excuse = @ \cup {"repeated"}]
<1>1. CASE ChannelBusy
  BY <1>1, RetryInv DEF ChannelBusy
<1>2. again.phase = call.phase
  BY DEF AuxInv, Shape, CallType
<1>3. ASSUME NEW done \in BOOLEAN, NEW acted \in BOOLEAN, NoAnswer(done, acted)
      PROVE  AuxInv(call, sink)'
  <2>1. CASE acted
    <3>1. call' = SendAgain(again, done) /\ sink' = SinkActs(call, Size(call))
          /\ call.phase # "none"
      BY <1>3, <2>1 DEF NoAnswer
    <3> QED
      BY <1>2, <3>1, ActedInv, SendAgainInv
  <2>2. CASE ~acted
    <3>1. call' = SendAgain(call, done) /\ sink' = sink /\ call.phase # "none"
      BY <1>3, <2>2 DEF NoAnswer
    <3> QED
      BY <3>1, SendAgainInv
  <2> QED
    BY <2>1, <2>2
<1>4. ASSUME NEW acted \in BOOLEAN, BadCount(acted)
      PROVE  AuxInv(call, sink)'
  <2>1. CASE acted
    <3>1. call' = RetryTransfer(again) /\ sink' = SinkActs(call, Size(call))
          /\ call.phase # "none"
      BY <1>4, <2>1 DEF BadCount
    <3> QED
      BY <1>2, <3>1, ActedInv, RetryInv
  <2>2. CASE ~acted
    <3>1. call' = RetryTransfer(call) /\ sink' = sink /\ call.phase # "none"
      BY <1>4, <2>2 DEF BadCount
    <3> QED
      BY <3>1, RetryInv
  <2> QED
    BY <2>1, <2>2
<1>5. ASSUME NEW reply, NativeReply(reply)
      PROVE  AuxInv(call, sink)'
  BY <1>5, RetryInv DEF NativeReply
<1> QED
  BY <1>1, <1>3, <1>4, <1>5, DeliveredInv DEF Transaction

\* A call begins; what an earlier one left open is told apart.
LEMMA CallInv ==
  ASSUME AuxInv(call, sink), NEW writes \in Writes, NEW reads \in Reads,
         _DpAuxSendReceive(writes, reads)
  PROVE  AuxInv(call, sink)'
<1> DEFINE zeros == [i \in 1 .. reads |-> 0]
<1>1. /\ call \in CallType /\ sink \in SinkType /\ writes \in Nat /\ reads \in Nat
      /\ 1 \in 1 .. Attempts /\ 1 \in 1 .. Sends
  BY AuxAssumption, CountsArePositive DEF AuxInv, Shape
<1>2. zeros \in Seq(Nat) /\ Len(zeros) = reads
  BY <1>1
<1> HIDE DEF zeros
<1> DEFINE fresh == [call EXCEPT !.writes = writes, !.reads = reads, !.got = zeros,
                               !.excuse = {}, !.answer = "none"]
           phase == IF writes > 0 THEN "write" ELSE "read"
<1>3. fresh \in CallType /\ fresh.writes = writes /\ fresh.reads = reads /\ fresh.got = zeros
      /\ fresh.excuse = {} /\ fresh.answer = "none"
  BY <1>1, <1>2 DEF CallType
<1>4. call' = Bare(fresh, phase)
  BY DEF _DpAuxSendReceive, zeros
<1> HIDE DEF fresh
<1>5. /\ call' \in CallType /\ call'.phase = phase /\ call'.bare = TRUE /\ call'.at = 0
      /\ call'.writes = writes /\ call'.reads = reads /\ call'.got = zeros
      /\ call'.excuse = {} /\ call'.answer = "none"
  BY <1>1, <1>3, <1>4 DEF CallType, Bare, Phases
<1>6. /\ sink' \in SinkType /\ sink'.stored = <<>> /\ sink'.given = 0 /\ sink'.joined = FALSE
  <2> DEFINE open == IF sink.open = "no" THEN "no" ELSE "earlier"
  <2>1. open \in {"no", "this", "earlier"} /\ <<>> \in Seq(Nat)
    OBVIOUS
  <2>2. sink' = [sink EXCEPT !.open = open, !.stored = <<>>, !.given = 0, !.joined = FALSE]
    BY <1>1 DEF _DpAuxSendReceive, SinkType
  <2> HIDE DEF open
  <2> QED
    BY <1>1, <2>1, <2>2 DEF SinkType
<1>7. writes + reads > 0
  BY DEF _DpAuxSendReceive
<1>8. Shape(call')
  BY <1>1, <1>2, <1>5, <1>7 DEF Shape, Length
<1>9. Apart(call', sink')
  BY <1>5, <1>6 DEF Apart
<1>10. Complete(call', sink')
  BY <1>1, <1>5, <1>6 DEF Complete, Moved
<1> QED
  BY <1>6, <1>8, <1>9, <1>10 DEF AuxInv

\* The end of a call, as Probe takes it.
LEMMA EndCallInv ==
  ASSUME AuxInv(call, sink), call.phase = "none",
         call' = [call EXCEPT !.writes = 0, !.reads = 0, !.got = <<>>, !.excuse = {},
                              !.answer = "none", !.bare = FALSE, !.at = 0, !.attempt = 1,
                              !.retry = 1, !.send = 1],
         sink' = [sink EXCEPT !.stored = <<>>, !.given = 0, !.joined = FALSE]
  PROVE  AuxInv(call, sink)'
<1>1. call \in CallType /\ sink \in SinkType /\ 1 \in 1 .. Attempts /\ 1 \in 1 .. Sends
      /\ <<>> \in Seq(Nat) /\ Len(<<>>) = 0
  BY CountsArePositive DEF AuxInv, Shape
<1>2. /\ call' \in CallType /\ call'.phase = "none" /\ call'.reads = 0 /\ call'.got = <<>>
      /\ call'.answer = "none"
  BY <1>1 DEF CallType
<1>3. sink' \in SinkType /\ sink'.joined = FALSE
  BY <1>1 DEF SinkType
<1> QED
  BY <1>1, <1>2, <1>3 DEF AuxInv, Shape, Apart, Complete

-----------------------------------------------------------------------------
(* The ports and their pipes. *)

Classes == {"DDI", "DP", "HDMI", "LVDS", "DVI", "Analog"}
Ports == [class : Classes, index : PortA .. PortG]

FoundPorts ==
  [class : Classes, index : PortA .. PortG, pipe : PipeAny .. PipeD, edid : BOOLEAN]

\* The classes of a machine: a DDI port is found only on a machine that has them.
Has(m, p) == p.class = "DDI" => m.ddi

PortTypeOK ==
  /\ machine \in Machines
  /\ stage \in {"probe", "edid", "clock", "pipes", "rest", "done"}
  /\ queue \in Seq({p \in Ports : Has(machine, p)})
  /\ found \in Seq(FoundPorts)
  /\ \A i \in DOMAIN found : Has(machine, found[i])
  /\ assigned \subseteq 1 .. PipeCount(machine)
  /\ stage = "edid" => queue # <<>>

\* A port that has a pipe has its preference or shares it with no other, and the pipe
\* is known as taken.
PipesInv ==
  /\ stage \in {"probe", "edid", "clock"} => \A i \in DOMAIN found : found[i].pipe = PipeAny
  /\ \A i \in DOMAIN found :
        found[i].pipe # PipeAny =>
          /\ found[i].pipe \in assigned
          /\ stage = "pipes" => found[i].pipe = PipePreference(machine, ClassIndex(found[i]))
  /\ \A i, j \in DOMAIN found :
        i # j /\ found[i].pipe = found[j].pipe /\ found[i].pipe # PipeAny =>
          found[i].pipe = PipePreference(machine, ClassIndex(found[i]))
  /\ stage = "done" /\ (\E i \in DOMAIN found : found[i].pipe = PipeAny)
        => assigned = 1 .. PipeCount(machine)

ProbeInv == AuxInv(call, sink) /\ PortTypeOK /\ PipesInv /\ FirmwarePipeKept

LEMMA GroupType ==
  ASSUME NEW class, NEW first \in Nat, NEW last \in Nat, NEW S,
         \A i \in first .. last : [class |-> class, index |-> i] \in S
  PROVE  Group(class, first, last) \in Seq(S)
<1> DEFINE n == last - first + 1
           g == [i \in 1 .. n |-> [class |-> class, index |-> first + i - 1]]
<1>1. CASE n \in Nat
  <2>1. \A i \in 1 .. n : first + i - 1 \in first .. last
    BY <1>1
  <2>2. \A i \in 1 .. n : [class |-> class, index |-> first + i - 1] \in S
    BY <2>1
  <2>3. g \in [1 .. n -> S]
    BY <2>2
  <2> QED
    BY <1>1, <2>3 DEF Group
<1>2. CASE n \notin Nat
  <2>1. 1 .. n = 1 .. 0
    BY <1>2
  <2>2. g = <<>>
    BY <2>1
  <2> QED
    BY <2>2 DEF Group
<1> QED
  BY <1>1, <1>2

LEMMA CandidatesType ==
  ASSUME NEW m
  PROVE  Candidates(m) \in Seq({p \in Ports : Has(m, p)})
<1> DEFINE S == {p \in Ports : Has(m, p)}
<1>1. ASSUME NEW class \in Classes, class = "DDI" => m.ddi,
             NEW first \in PortA .. PortG, NEW last \in PortA .. PortG
      PROVE  Group(class, first, last) \in Seq(S)
  <2>1. first \in Nat /\ last \in Nat
    BY DEF PortA, PortG
  <2>2. \A i \in first .. last : [class |-> class, index |-> i] \in S
    BY <1>1 DEF Ports, Has, PortA, PortG
  <2> HIDE DEF S
  <2> QED
    BY <2>1, <2>2, GroupType
<1> HIDE DEF S
<1>2. m.ddi => Group("DDI", PortA, IF m.generation >= 12 THEN PortG ELSE PortF) \in Seq(S)
  <2> SUFFICES ASSUME m.ddi PROVE Group("DDI", PortA, IF m.generation >= 12 THEN PortG ELSE PortF) \in Seq(S)
    OBVIOUS
  <2> DEFINE last == IF m.generation >= 12 THEN PortG ELSE PortF
  <2>1. last \in PortA .. PortG /\ PortA \in PortA .. PortG
    BY DEF PortA, PortF, PortG
  <2> HIDE DEF last
  <2>2. Group("DDI", PortA, last) \in Seq(S)
    BY <1>1, <2>1 DEF Classes
  <2> QED
    BY <2>2 DEF last
<1>3. /\ Group("DP", PortA, PortD) \in Seq(S) /\ Group("HDMI", PortB, PortD) \in Seq(S)
      /\ Group("LVDS", PortC, PortC) \in Seq(S) /\ Group("DVI", PortB, PortC) \in Seq(S)
      /\ Group("Analog", PortA, PortA) \in Seq(S)
  BY <1>1 DEF Classes, PortA, PortB, PortC, PortD, PortG
<1>4. \A s, t \in Seq(S) : s \o t \in Seq(S)
  OBVIOUS
<1>5. (IF m.ddi
       THEN Group("DDI", PortA, IF m.generation >= 12 THEN PortG ELSE PortF)
       ELSE Group("DP", PortA, PortD) \o Group("HDMI", PortB, PortD)
            \o Group("LVDS", PortC, PortC) \o Group("DVI", PortB, PortC)) \in Seq(S)
  BY <1>2, <1>3, <1>4
<1>6. (IF m.generation <= 8 /\ m.crt THEN Group("Analog", PortA, PortA) ELSE <<>>) \in Seq(S)
  BY <1>3
<1> QED
  BY <1>4, <1>5, <1>6 DEF Candidates, S

\* The code reads back the port a transcoder was given.
LEMMA SelectReadsBack ==
  ASSUME NEW m \in Machines, m.ddi, m.generation < 12, NEW pipe \in PipeA .. PipeD,
         NEW port \in PortA .. PortG
  PROVE  DdiSelect(m, pipe) = port <=> m.transcoder[pipe].field = DdiField(m, port)
<1>1. PICK k \in 0 .. 7 : m.transcoder[pipe].field = 2 * k
  BY MachinesAssumption
<1>2. \A n \in 0 .. 7 : ((2 * n) \div 2) % 8 = n
  OBVIOUS
<1>3. DdiSelect(m, pipe) = k + 1
  BY <1>1, <1>2 DEF DdiSelect
<1>4. DdiField(m, port) = 2 * (port - 1)
  BY MachinesAssumption DEF DdiField
<1> QED
  BY <1>1, <1>3, <1>4 DEF PortA, PortG

\* A port prefers the one pipe the firmware drives it with, unless an unused
\* transcoder names it too.
LEMMA PrefersFirmwarePipe ==
  ASSUME NEW m \in Machines, NEW p, p.class = "DDI", Has(m, p), p.index \in PortA .. PortG,
         m.generation < 12,
         \A pipe \in PipeA .. PipeD : DdiSelect(m, pipe) = p.index => DdiEnabled(m, pipe),
         Cardinality(FirmwarePipes(m, p.index)) = 1
  PROVE  PipePreference(m, ClassIndex(p)) \in FirmwarePipes(m, p.index) \cap 1 .. PipeCount(m)
<1> DEFINE set == FirmwarePipes(m, p.index)
           named == {pipe \in PipeA .. PipeD : DdiSelect(m, pipe) = p.index}
<1>1. m.ddi /\ m.generation \in 7 .. 11
  BY MachinesAssumption DEF Has
<1>2. PICK q : set = {q}
  <2>1. set \subseteq PipeA .. PipeC
    BY DEF FirmwarePipes
  <2>2. IsFiniteSet(set)
    BY <2>1, FS_Interval, FS_Subset DEF PipeA, PipeC
  <2> QED
    BY <2>2, FS_Singleton
<1>3. q \in PipeA .. PipeC /\ q \in named
  <2>1. q \in set
    BY <1>2
  <2>2. q \in PipeA .. PipeC /\ m.transcoder[q].field = DdiField(m, p.index)
    BY <2>1 DEF FirmwarePipes
  <2> QED
    BY <1>1, <2>2, SelectReadsBack DEF PipeA, PipeC, PipeD
<1>4. Min(named) \in named /\ Min(named) <= q
  <2>1. named \in SUBSET Nat /\ named # {}
    BY <1>3 DEF PipeA, PipeD
  <2> HIDE DEF named
  <2> QED
    BY <1>3, <2>1, LeastIs
<1>5. Min(named) \in set
  <2> DEFINE least == Min(named)
  <2>1. least \in PipeA .. PipeD /\ DdiSelect(m, least) = p.index /\ least <= q
    BY <1>4
  <2> HIDE DEF least
  <2>2. least \in PipeA .. PipeC
    BY <1>3, <2>1 DEF PipeA, PipeC, PipeD
  <2>3. m.transcoder[least].field = DdiField(m, p.index) /\ DdiEnabled(m, least)
    BY <1>1, <2>1, SelectReadsBack
  <2> QED
    BY <2>2, <2>3 DEF FirmwarePipes, least
<1>6. First(m, p.index) = Min(named)
  BY <1>4 DEF First
<1>7. ClassIndex(p).class = "DDI" /\ ClassIndex(p).index = p.index
  BY DEF ClassIndex
<1>8. PipePreference(m, ClassIndex(p)) = First(m, p.index)
  BY <1>1, <1>7 DEF PipePreference
<1>9. PipeCount(m) = 3
  BY <1>1 DEF PipeCount
<1> QED
  BY <1>5, <1>6, <1>8, <1>9 DEF FirmwarePipes, PipeA, PipeC

PortInv == PortTypeOK /\ PipesInv /\ FirmwarePipeKept

\* Before the pipes are assigned no port has one.
LEMMA UnassignedInv ==
  ASSUME stage' \in {"probe", "edid", "clock", "pipes"},
         \A i \in DOMAIN found' : found'[i].pipe = PipeAny
  PROVE  PipesInv' /\ FirmwarePipeKept'
BY DEF PipesInv, FirmwarePipeKept

LEMMA UnclaimedInv ==
  ASSUME PortInv, stage \in {"probe", "edid", "clock"}, UNCHANGED <<machine, found, assigned>>,
         stage' \in {"probe", "edid", "clock", "pipes"},
         queue' \in Seq({p \in Ports : Has(machine, p)}), stage' = "edid" => queue' # <<>>
  PROVE  PortInv'
<1>1. PortTypeOK'
  BY DEF PortInv, PortTypeOK
<1>2. \A i \in DOMAIN found' : found'[i].pipe = PipeAny
  BY DEF PortInv, PipesInv
<1> QED
  BY <1>1, <1>2, UnassignedInv DEF PortInv

\* A candidate is claimed or deleted.
LEMMA ClaimInv ==
  ASSUME PortInv, stage \in {"probe", "edid"}, queue # <<>>, NEW answer,
         Claim(Candidate, answer), NextCandidate, UNCHANGED <<machine, assigned>>
  PROVE  PortInv'
<1> DEFINE Offered == {p \in Ports : Has(machine, p)}
           p == Candidate
<1>1. queue \in Seq(Offered) /\ queue # <<>>
  BY DEF PortInv, PortTypeOK
<1>2. Candidate \in Offered /\ queue' \in Seq(Offered)
  <2> HIDE DEF Offered
  <2> QED
    BY <1>1 DEF Candidate, NextCandidate
<1>3. stage' = "probe"
  BY DEF NextCandidate
<1>4. CASE found' = found
  BY <1>2, <1>3, <1>4, UnclaimedInv DEF PortInv, PortTypeOK
<1>5. CASE found' # found
  <2> DEFINE edid == answer = "OK"
             seen == edid \/ VesaTaken(machine, p, edid)
             r == [class |-> p.class, index |-> p.index, pipe |-> PipeAny, edid |-> seen]
  <2>1. found' = Append(found, r)
    BY <1>5 DEF Claim
  <2>2. seen \in BOOLEAN
    BY Zenon
  <2>3. p.class \in Classes /\ p.index \in PortA .. PortG /\ Has(machine, p)
    BY <1>2 DEF Ports
  <2> HIDE DEF seen, p
  <2>4. r \in FoundPorts /\ Has(machine, r) /\ r.pipe = PipeAny
    BY <2>2, <2>3 DEF FoundPorts, PipeAny, PipeD, Has
  <2> HIDE DEF r
  <2>5. found \in Seq(FoundPorts) /\ \A i \in DOMAIN found : Has(machine, found[i])
                                                        /\ found[i].pipe = PipeAny
    BY DEF PortInv, PortTypeOK, PipesInv
  <2>6. found' \in Seq(FoundPorts) /\ \A i \in DOMAIN found' : Has(machine, found'[i])
                                                          /\ found'[i].pipe = PipeAny
    BY <2>1, <2>4, <2>5
  <2>7. PortTypeOK'
    BY <1>2, <1>3, <2>6 DEF PortInv, PortTypeOK
  <2> QED
    BY <1>3, <2>6, <2>7, UnassignedInv DEF PortInv
<1> QED
  BY <1>4, <1>5

\* A port without a pipe gets one.
LEMMA SetPipeType ==
  ASSUME PortTypeOK, NEW k \in DOMAIN found, NEW pipe \in 1 .. PipeCount(machine),
         SetPipe(k, pipe), UNCHANGED <<machine, queue, stage>>
  PROVE  /\ PortTypeOK' /\ assigned' = assigned \cup {pipe} /\ DOMAIN found' = DOMAIN found
         /\ \A i \in DOMAIN found :
              /\ ClassIndex(found'[i]) = ClassIndex(found[i])
              /\ found'[i].class = found[i].class /\ found'[i].index = found[i].index
              /\ found'[i].pipe = IF i = k THEN pipe ELSE found[i].pipe
<1>1. pipe \in PipeAny .. PipeD /\ PipeCount(machine) \in Nat
  BY DEF PipeCount, PipeAny, PipeD
<1>2. found \in Seq(FoundPorts) /\ found' = [found EXCEPT ![k].pipe = pipe]
  BY DEF PortTypeOK, SetPipe
<1> DEFINE r == [found[k] EXCEPT !.pipe = pipe]
<1>3. r \in FoundPorts /\ r.class = found[k].class /\ r.index = found[k].index /\ r.pipe = pipe
  <2>1. found[k] \in FoundPorts
    BY <1>2
  <2> QED
    BY <1>1, <2>1 DEF FoundPorts
<1>4. found' = [found EXCEPT ![k] = r]
  BY <1>2
<1> HIDE DEF r
<1>5. found' \in Seq(FoundPorts) /\ DOMAIN found' = DOMAIN found
      /\ \A i \in DOMAIN found : found'[i] = IF i = k THEN r ELSE found[i]
  BY <1>2, <1>3, <1>4
<1>6. \A i \in DOMAIN found :
        /\ ClassIndex(found'[i]) = ClassIndex(found[i])
        /\ found'[i].class = found[i].class /\ found'[i].index = found[i].index
        /\ found'[i].pipe = IF i = k THEN pipe ELSE found[i].pipe
  BY <1>3, <1>5 DEF ClassIndex
<1>7. PortTypeOK'
  BY <1>5, <1>6 DEF PortTypeOK, SetPipe, Has
<1> QED
  BY <1>5, <1>6, <1>7 DEF SetPipe

\* The first pass: every port gets what it prefers; after it, each DDI port that the
\* firmware drove has its pipe.
LEMMA AssignPreferredInv ==
  ASSUME PortInv, AssignPreferred
  PROVE  PortInv'
<1> DEFINE Wants(i) == PipePreference(machine, ClassIndex(found[i]))
           open == {i \in DOMAIN found : found[i].pipe = PipeAny
                                         /\ Wants(i) \in 1 .. PipeCount(machine)}
<1>1. stage = "pipes" /\ UNCHANGED <<machine, queue>>
  BY DEF AssignPreferred
<1>2. found \in Seq(FoundPorts) /\ open \in SUBSET Nat
  BY DEF PortInv, PortTypeOK
<1>3. CASE open # {}
  <2> DEFINE k == Min(open)
  <2>1. k \in open
    <3> HIDE DEF open
    <3> QED
      BY <1>2, <1>3, LeastIs
  <2>2. SetPipe(k, Wants(k)) /\ UNCHANGED stage
    BY <1>3 DEF AssignPreferred
  <2>3. k \in DOMAIN found /\ found[k].pipe = PipeAny /\ Wants(k) \in 1 .. PipeCount(machine)
    BY <2>1
  <2> HIDE DEF k
  <2>4. /\ PortTypeOK' /\ assigned' = assigned \cup {Wants(k)} /\ DOMAIN found' = DOMAIN found
        /\ \A i \in DOMAIN found :
             /\ ClassIndex(found'[i]) = ClassIndex(found[i])
             /\ found'[i].pipe = IF i = k THEN Wants(k) ELSE found[i].pipe
    BY <1>1, <2>2, <2>3, SetPipeType DEF PortInv
  <2>5. \A i \in DOMAIN found :
          found'[i].pipe # PipeAny => found'[i].pipe \in assigned' /\ found'[i].pipe = Wants(i)
    BY <1>1, <2>3, <2>4 DEF PortInv, PipesInv
  <2>6. PipesInv'
    BY <1>1, <2>2, <2>4, <2>5 DEF PipesInv
  <2>7. FirmwarePipeKept'
    BY <1>1, <2>2 DEF FirmwarePipeKept
  <2> QED
    BY <2>4, <2>6, <2>7 DEF PortInv
<1>4. CASE open = {}
  <2>1. stage' = "rest" /\ UNCHANGED <<found, assigned>>
    BY <1>4 DEF AssignPreferred
  <2>2. PortTypeOK'
    BY <1>1, <2>1 DEF PortInv, PortTypeOK
  <2>3. PipesInv'
    BY <1>1, <2>1 DEF PortInv, PipesInv
  <2>4. ASSUME machine.generation < 12, NEW i \in DOMAIN found,
               ~\E pipe \in PipeA .. PipeD :
                   DdiSelect(machine, pipe) = found[i].index /\ ~DdiEnabled(machine, pipe),
               found[i].class = "DDI", Cardinality(FirmwarePipes(machine, found[i].index)) = 1
        PROVE  found[i].pipe \in FirmwarePipes(machine, found[i].index)
    <3>1. found[i].index \in PortA .. PortG /\ Has(machine, found[i]) /\ machine \in Machines
      <4>1. found[i] \in FoundPorts
        BY <1>2
      <4> QED
        BY <4>1 DEF PortInv, PortTypeOK, FoundPorts
    <3>2. Wants(i) \in FirmwarePipes(machine, found[i].index) \cap 1 .. PipeCount(machine)
      BY <2>4, <3>1, PrefersFirmwarePipe
    <3>3. found[i].pipe # PipeAny
      BY <1>4, <3>2
    <3> QED
      BY <1>1, <3>2, <3>3 DEF PortInv, PipesInv
  <2>5. FirmwarePipeKept
    BY <2>4 DEF FirmwarePipeKept, KeepsFirmwarePipe
  <2>6. stage' = "rest" /\ UNCHANGED <<machine, found>>
    BY <1>1, <2>1
  <2>7. FirmwarePipeKept'
    BY <2>4, <2>6 DEF FirmwarePipeKept, KeepsFirmwarePipe
  <2> QED
    BY <2>2, <2>3, <2>7 DEF PortInv
<1> QED
  BY <1>3, <1>4

\* The second: the others get what is left, which no port has.
LEMMA AssignRestInv ==
  ASSUME PortInv, AssignRest
  PROVE  PortInv'
<1> DEFINE open == {i \in DOMAIN found : found[i].pipe = PipeAny}
           left == (1 .. PipeCount(machine)) \ assigned
<1>1. stage = "rest" /\ UNCHANGED <<machine, queue>>
  BY DEF AssignRest
<1>2. found \in Seq(FoundPorts) /\ open \in SUBSET Nat /\ left \in SUBSET Nat
  BY DEF PortInv, PortTypeOK, PipeCount
<1>3. CASE open # {} /\ left # {}
  <2> DEFINE k == Min(open)  pipe == Min(left)
  <2>1. k \in open /\ pipe \in left
    <3> HIDE DEF open, left
    <3> QED
      BY <1>2, <1>3, LeastIs
  <2>2. SetPipe(k, pipe) /\ UNCHANGED stage
    BY <1>3 DEF AssignRest
  <2>3. k \in DOMAIN found /\ found[k].pipe = PipeAny /\ pipe \in 1 .. PipeCount(machine)
        /\ pipe \notin assigned
    BY <2>1
  <2> HIDE DEF k, pipe
  <2>4. /\ PortTypeOK' /\ assigned' = assigned \cup {pipe} /\ DOMAIN found' = DOMAIN found
        /\ \A i \in DOMAIN found :
             /\ ClassIndex(found'[i]) = ClassIndex(found[i])
             /\ found'[i].class = found[i].class /\ found'[i].index = found[i].index
             /\ found'[i].pipe = IF i = k THEN pipe ELSE found[i].pipe
    BY <1>1, <2>2, <2>3, SetPipeType DEF PortInv
  <2>5. \A i \in DOMAIN found :
          /\ found'[i].pipe # PipeAny => found'[i].pipe \in assigned'
          /\ i # k => found'[i].pipe # pipe
    BY <2>3, <2>4 DEF PortInv, PipesInv, PipeAny
  <2>6. PipesInv'
    BY <1>1, <2>2, <2>4, <2>5 DEF PortInv, PipesInv
  <2>7. ASSUME NEW i \in DOMAIN found, KeepsFirmwarePipe(found[i]) PROVE KeepsFirmwarePipe(found'[i])
    <3>1. found'[i].class = found[i].class /\ found'[i].index = found[i].index
      BY <2>4
    <3>2. PipeAny \notin FirmwarePipes(machine, found[i].index)
      BY DEF FirmwarePipes, PipeAny, PipeA, PipeC
    <3>3. CASE i = k
      BY <1>1, <2>3, <2>7, <3>1, <3>2, <3>3 DEF KeepsFirmwarePipe
    <3>4. CASE i # k
      BY <1>1, <2>4, <2>7, <3>1, <3>4 DEF KeepsFirmwarePipe
    <3> QED
      BY <3>3, <3>4
  <2>8. FirmwarePipeKept'
    <3> SUFFICES ASSUME machine.generation < 12, NEW i \in DOMAIN found,
                        ~\E n \in PipeA .. PipeD :
                            DdiSelect(machine, n) = found[i].index /\ ~DdiEnabled(machine, n)
                 PROVE  KeepsFirmwarePipe(found'[i])
      BY <1>1, <2>4 DEF FirmwarePipeKept, KeepsFirmwarePipe
    <3> QED
      BY <1>1, <2>7 DEF PortInv, FirmwarePipeKept
  <2> QED
    BY <2>4, <2>6, <2>8 DEF PortInv
<1>4. CASE ~(open # {} /\ left # {})
  <2>1. stage' = "done" /\ UNCHANGED <<found, assigned>>
    BY <1>4 DEF AssignRest
  <2>2. PortTypeOK'
    BY <1>1, <2>1 DEF PortInv, PortTypeOK
  <2>3. (\E i \in DOMAIN found : found[i].pipe = PipeAny) => assigned = 1 .. PipeCount(machine)
    BY <1>4 DEF PortInv, PortTypeOK
  <2>4. PipesInv'
    BY <1>1, <2>1, <2>3 DEF PortInv, PipesInv
  <2>5. FirmwarePipeKept'
    BY <1>1, <2>1 DEF PortInv, FirmwarePipeKept, KeepsFirmwarePipe
  <2> QED
    BY <2>2, <2>4, <2>5 DEF PortInv
<1> QED
  BY <1>3, <1>4

-----------------------------------------------------------------------------
(* The specification. *)

LEMMA ProbeInvInit == ProbeInit => ProbeInv
<1> SUFFICES ASSUME ProbeInit PROVE ProbeInv
  OBVIOUS
<1>1. /\ call \in CallType /\ sink \in SinkType /\ call.phase = "none" /\ call.answer = "none"
      /\ Len(call.got) = call.reads /\ sink.joined = FALSE
  <2>1. 1 \in 1 .. Attempts /\ 1 \in 1 .. Sends /\ <<>> \in Seq(Nat)
    BY CountsArePositive
  <2> QED
    BY <2>1 DEF ProbeInit, AuxInit, CallType, SinkType
<1>2. AuxInv(call, sink)
  BY <1>1 DEF AuxInv, Shape, Apart, Complete
<1>3. PortTypeOK
  BY CandidatesType DEF ProbeInit, PortTypeOK
<1>4. PipesInv /\ FirmwarePipeKept
  BY DEF ProbeInit, PipesInv, FirmwarePipeKept
<1> QED
  BY <1>2, <1>3, <1>4 DEF ProbeInv

LEMMA ProbeInvStep == ProbeInv /\ [ProbeNext]_portVars => ProbeInv'
<1> SUFFICES ASSUME ProbeInv, [ProbeNext]_portVars PROVE ProbeInv'
  OBVIOUS
<1> USE DEF ProbeInv
<1> DEFINE Offered == {p \in Ports : Has(machine, p)}
<1>1. PortInv /\ queue \in Seq(Offered)
  BY DEF PortInv, PortTypeOK
<1>2. ASSUME PortInv', AuxInv(call, sink)' PROVE ProbeInv'
  BY <1>2 DEF PortInv
<1>3. UNCHANGED auxVars => AuxInv(call, sink)'
  BY DEF auxVars
<1>4. queue # <<>> => Tail(queue) \in Seq(Offered)
  <2> HIDE DEF Offered
  <2> QED
    BY <1>1
<1>5. ASSUME UNCHANGED portVars PROVE ProbeInv'
  <2>1. UNCHANGED <<machine, stage, queue, found, assigned>> /\ UNCHANGED auxVars
    BY <1>5 DEF portVars, probeVars
  <2>2. PortInv'
    BY <1>1, <2>1 DEF PortInv, PortTypeOK, PipesInv, FirmwarePipeKept, KeepsFirmwarePipe
  <2> QED
    BY <1>2, <1>3, <2>1, <2>2
<1>6. CASE Pass
  BY <1>1, <1>2, <1>3, <1>4, <1>6, UnclaimedInv DEF Pass, NextCandidate
<1>7. CASE NoMemory
  <2>1. <<>> \in Seq(Offered)
    OBVIOUS
  <2> QED
    BY <1>1, <1>2, <1>3, <1>7, <2>1, UnclaimedInv DEF NoMemory
<1>8. CASE AskAux
  <2>1. PortInv'
    BY <1>1, <1>8, UnclaimedInv DEF AskAux
  <2>2. AuxInv(call, sink)'
    BY <1>8, CallInv DEF AskAux
  <2> QED
    BY <1>2, <2>1, <2>2
<1>9. CASE AuxStep
  <2>1. UNCHANGED <<machine, stage, queue, found, assigned>>
    BY <1>9 DEF AuxStep, probeVars
  <2>2. PortInv'
    BY <1>1, <2>1 DEF PortInv, PortTypeOK, PipesInv, FirmwarePipeKept, KeepsFirmwarePipe
  <2> QED
    BY <1>2, <1>9, <2>2, TransactionInv DEF AuxStep
<1>10. CASE EndAux
  <2>1. queue # <<>>
    BY <1>10 DEF EndAux, PortTypeOK
  <2>2. PortInv'
    BY <1>1, <1>10, <2>1, ClaimInv DEF EndAux
  <2>3. AuxInv(call, sink)'
    BY <1>10, EndCallInv DEF EndAux
  <2> QED
    BY <1>2, <2>2, <2>3
<1>11. CASE ReadWires
  BY <1>1, <1>2, <1>3, <1>11, ClaimInv DEF ReadWires
<1>12. CASE NoClock \/ PowerSource \/ EnableOutput
  <2>1. UNCHANGED <<machine, queue, found, assigned>> /\ UNCHANGED auxVars
        /\ stage \in {"probe", "clock"} /\ stage' \in {"clock", "pipes"}
    BY <1>12 DEF NoClock, PowerSource, EnableOutput
  <2> QED
    BY <1>1, <1>2, <1>3, <2>1, UnclaimedInv
<1>13. CASE AssignPreferred
  BY <1>1, <1>2, <1>3, <1>13, AssignPreferredInv DEF AssignPreferred
<1>14. CASE AssignRest
  BY <1>1, <1>2, <1>3, <1>14, AssignRestInv DEF AssignRest
<1> QED
  BY <1>5, <1>6, <1>7, <1>8, <1>9, <1>10, <1>11, <1>12, <1>13, <1>14 DEF ProbeNext, Done

-----------------------------------------------------------------------------
\* The parts of the invariant hold for every machine, and for every length and every
\* number of attempts of the AUX channel (probe_ports() and what it calls).
THEOREM ProbeInvariance == ProbeSpec => []ProbeInv
<1>1. ProbeInit => ProbeInv
  BY ProbeInvInit
<1>2. ProbeInv /\ [ProbeNext]_portVars => ProbeInv'
  BY ProbeInvStep
<1> QED
  BY <1>1, <1>2, PTL DEF ProbeSpec

\* A call of _DpAuxSendReceive() that answers B_OK moved every byte once, in order,
\* and none of another call's, unless a message was given up, taken in part or sent
\* twice.
THEOREM TransfersMoveTheirBytes == ProbeSpec => []TransfersAreWhole
<1>1. ProbeInv => TransfersAreWhole
  <2> SUFFICES ASSUME ProbeInv PROVE TransfersAreWhole
    OBVIOUS
  <2>1. AuxInv(call, sink) /\ call.got \in Seq(Nat) /\ Len(call.got) = call.reads
        /\ call.reads \in Nat
    BY DEF ProbeInv, AuxInv, Shape, CallType
  <2>2. NothingJoined
    BY <2>1 DEF AuxInv, Apart, NothingJoined
  <2>3. (\A i \in 1 .. call.reads : call.got[i] = i) => call.got = [i \in 1 .. call.reads |-> i]
    BY <2>1
  <2>4. OkMeansDelivered
    BY <2>1, <2>3 DEF AuxInv, Complete, OkMeansDelivered
  <2> QED
    BY <2>2, <2>4 DEF TransfersAreWhole
<1> QED
  BY <1>1, ProbeInvariance, PTL

\* assign_pipes(): two ports share a pipe only when the firmware had them share it,
\* none is left without while a pipe is free, and before generation 12 a DDI port
\* keeps the pipe that drives it.
THEOREM PipesStayAsFound == ProbeSpec => []PipesAsFound
<1>1. ProbeInv => PipesAsFound
  <2> SUFFICES ASSUME ProbeInv PROVE SharedOnlyByPreference
    BY DEF ProbeInv, PipesAsFound
  <2> QED
    BY DEF ProbeInv, PipesInv, SharedOnlyByPreference
<1> QED
  BY <1>1, ProbeInvariance, PTL

-----------------------------------------------------------------------------
(***************************************************************************)
(* EglSurfaces, for every number of threads, contexts, surfaces and shm    *)
(* buffers: nothing in use is freed, the callbacks of a window get a surface*)
(* that exists, and no frame goes into a buffer the compositor still shows.*)
(***************************************************************************)
Parts == {"ctx", "draw", "read"}
Steps == {"present", "wait", "attach"}

\* A surface, and a swap that is on its way.
SurfaceType ==
  [state : {"none", "made", "gone"}, window : BOOLEAN, size : Nat, texture : Nat,
   stale : BOOLEAN, map : Nat, busy : SUBSET Buffers]

SwapType == [thread : Threads, surface : Surfaces, step : Steps, buffer : Buffers]

TypeOK ==
  /\ display \in {"live", "gone"} /\ linked \subseteq Objects
  /\ refs \in [Objects -> Int]
  /\ bound \in [Threads -> Bindings]
  /\ surface \in [Surfaces -> SurfaceType] /\ hgl \in [Contexts -> Nat]
  /\ swap = None \/ swap \in SwapType
  /\ window \in [exists : BOOLEAN, size : Nat, private : Surfaces \cup {None}]
  /\ server \subseteq Surfaces \X Buffers /\ released \subseteq Surfaces \X Buffers

\* A thread has surfaces bound only together with a context.
BoundWhole ==
  \A t \in Threads :
    /\ bound[t].draw = None <=> bound[t].read = None
    /\ bound[t].ctx = None => bound[t].draw = None

\* A surface is made as long as it has a reference, and only then has buffers.
MadeWhileUsed ==
  \A s \in Surfaces :
    /\ surface[s].state = "made" <=> refs[s] > 0
    /\ surface[s].state # "made" => surface[s].busy = {}

\* What the compositor may read, and what it released unheard, is busy.
BusyKnown ==
  /\ server \cap released = {}
  /\ \A b \in server \cup released : b[2] \in surface[b[1]].busy

\* The buffer of the frame that is on its way is not, and its surface stays.
FrameFree ==
  swap # None =>
    /\ refs[swap.surface] > 0
    /\ swap.step = "attach" => swap.buffer \notin surface[swap.surface].busy

IInv ==
  /\ TypeOK /\ BoundWhole /\ NothingFreedInUse /\ MadeWhileUsed
  /\ CallbacksPointToSurfaces /\ BusyKnown /\ FrameFree

-----------------------------------------------------------------------------
(* References. *)

\* The places of the bindings f that name an object.
Places(f, o) == {p \in Threads \X Parts : f[p[1]][p[2]] = o}
PlacesAt(t, b, o) == {t} \X {part \in Parts : b[part] = o}

LEMMA PartsFinite == IsFiniteSet(Parts)
<1>1. IsFiniteSet({}) /\ Parts = (({} \cup {"ctx"}) \cup {"draw"}) \cup {"read"}
  BY FS_EmptySet DEF Parts
<1>2. IsFiniteSet({} \cup {"ctx"})
  BY <1>1, FS_AddElement
<1>3. IsFiniteSet(({} \cup {"ctx"}) \cup {"draw"})
  BY <1>2, FS_AddElement
<1> QED BY <1>1, <1>3, FS_AddElement

LEMMA TimesIs ==
  ASSUME NEW t \in Threads, NEW b \in Bindings, NEW o
  PROVE  /\ Times(b, o) \in Nat /\ IsFiniteSet(PlacesAt(t, b, o))
         /\ Cardinality(PlacesAt(t, b, o)) = Times(b, o)
<1> DEFINE P == {part \in Parts : b[part] = o}
           f == [part \in P |-> <<t, part>>]
<1>1. DOMAIN b = Parts
  BY DEF Bindings, Parts
<1>2. Times(b, o) = Cardinality(P)
  BY <1>1 DEF Times
<1>3. IsFiniteSet(Parts)
  BY PartsFinite
<1>4. IsFiniteSet(P)
  BY <1>3, FS_Subset
<1>5. f \in Bijection(P, PlacesAt(t, b, o))
  BY DEF Bijection, Injection, Surjection, IsInjective, PlacesAt
<1>6. ExistsBijection(P, PlacesAt(t, b, o))
  BY <1>5 DEF ExistsBijection
<1> HIDE DEF P, f
<1> QED BY <1>2, <1>4, <1>6, FS_Bijection, FS_CardinalityType

LEMMA PlacesFinite ==
  ASSUME NEW f, NEW o
  PROVE  IsFiniteSet(Places(f, o)) /\ Cardinality(Places(f, o)) \in Nat
<1>1. IsFiniteSet(Parts)
  BY PartsFinite
<1>2. IsFiniteSet(Threads \X Parts)
  BY <1>1, EglAssumption, FS_Product
<1>3. Places(f, o) \in SUBSET (Threads \X Parts)
  BY DEF Places
<1> QED BY <1>2, <1>3, FS_Subset, FS_CardinalityType

\* The new binding of a thread counts for the old one.
LEMMA PlacesMove ==
  ASSUME NEW f \in [Threads -> Bindings], NEW t \in Threads, NEW b \in Bindings, NEW o
  PROVE  Cardinality(Places([f EXCEPT ![t] = b], o))
         = Cardinality(Places(f, o)) - Times(f[t], o) + Times(b, o)
<1> DEFINE g == [f EXCEPT ![t] = b]
           Rest == {p \in Places(f, o) : p[1] # t}
<1>1. /\ Places(f, o) = Rest \cup PlacesAt(t, f[t], o)
      /\ Rest \cap PlacesAt(t, f[t], o) = {}
  BY DEF Places, PlacesAt
<1>2. /\ Places(g, o) = Rest \cup PlacesAt(t, b, o)
      /\ Rest \cap PlacesAt(t, b, o) = {}
  BY DEF Places, PlacesAt
<1>3. Rest \in SUBSET Places(f, o) /\ f[t] \in Bindings
  OBVIOUS
<1>4. /\ IsFiniteSet(Rest) /\ Cardinality(Rest) \in Nat
      /\ IsFiniteSet(PlacesAt(t, b, o)) /\ IsFiniteSet(PlacesAt(t, f[t], o))
      /\ Cardinality(PlacesAt(t, b, o)) = Times(b, o)
      /\ Cardinality(PlacesAt(t, f[t], o)) = Times(f[t], o)
      /\ Times(b, o) \in Nat /\ Times(f[t], o) \in Nat
  BY <1>3, PlacesFinite, FS_Subset, FS_CardinalityType, TimesIs
<1>7. Cardinality({}) = 0
  BY FS_EmptySet
<1> HIDE DEF Rest, g
<1>8. ASSUME NEW X, IsFiniteSet(X), Rest \cap X = {}
      PROVE  Cardinality(Rest \cup X) = Cardinality(Rest) + Cardinality(X)
  <2>1. /\ Cardinality(Rest \cup X)
           = Cardinality(Rest) + Cardinality(X) - Cardinality(Rest \cap X)
        /\ Cardinality(X) \in Nat
    BY <1>4, <1>8, FS_Union, FS_CardinalityType
  <2>2. Cardinality(Rest \cap X) = 0
    BY <1>7, <1>8
  <2> QED BY <1>4, <2>1, <2>2
<1>5. Cardinality(Places(f, o)) = Cardinality(Rest) + Times(f[t], o)
  BY <1>1, <1>4, <1>8
<1>6. Cardinality(Places(g, o)) = Cardinality(Rest) + Times(b, o)
  BY <1>2, <1>4, <1>8
<1> QED BY <1>4, <1>5, <1>6 DEF g

LEMMA UsesIs ==
  ASSUME NEW o
  PROVE /\ Uses(o) = (IF o \in linked THEN 1 ELSE 0) + Cardinality(Places(bound, o))
         /\ Uses(o) \in Nat
<1>1. Uses(o) = (IF o \in linked THEN 1 ELSE 0) + Cardinality(Places(bound, o))
  BY Zenon DEF Uses, Places, Parts
<1>2. Cardinality(Places(bound, o)) \in Nat
  BY PlacesFinite
<1> QED BY <1>1, <1>2

LEMMA UsesNext ==
  ASSUME NEW o
  PROVE /\ Uses(o)' = (IF o \in linked' THEN 1 ELSE 0) + Cardinality(Places(bound', o))
         /\ Uses(o)' \in Nat
<1>1. Uses(o)' = (IF o \in linked' THEN 1 ELSE 0) + Cardinality(Places(bound', o))
  BY Zenon DEF Uses, Places, Parts
<1>2. Cardinality(Places(bound', o)) \in Nat
  BY PlacesFinite
<1> QED BY <1>1, <1>2

\* What haiku_make_current gives back was taken.
LEMMA PutsTaken ==
  ASSUME NEW old \in Bindings, NEW o \in Objects, NEW t \in Threads
  PROVE  /\ Puts(old)[o] \in {0, 1} /\ Puts(old)[o] <= Times(old, o)
         /\ Times(old, o) \in Nat
<1>1. Times(old, o) \in Nat
  BY TimesIs
<1>2. ASSUME Puts(old)[o] # 0
      PROVE  Times(old, o) # 0
  <2>1. PICK part \in Parts : old[part] = o
    BY <1>2 DEF Puts, Parts
  <2>2. <<t, part>> \in PlacesAt(t, old, o)
    BY <2>1 DEF PlacesAt
  <2>3. IsFiniteSet(PlacesAt(t, old, o)) /\ Cardinality(PlacesAt(t, old, o)) = Times(old, o)
    BY TimesIs
  <2> QED BY <2>2, <2>3, FS_EmptySet
<1>3. Puts(old)[o] \in {0, 1}
  BY DEF Puts
<1> QED BY <1>1, <1>2, <1>3

\* While handles and bindings stay, references may only be added.
LEMMA UsesFrame ==
  ASSUME NothingFreedInUse, UNCHANGED <<linked, bound>>,
         \A o \in Objects : refs[o] \in Int /\ refs'[o] \in Int /\ refs'[o] >= refs[o]
  PROVE  NothingFreedInUse'
<1> SUFFICES ASSUME NEW o \in Objects
             PROVE  refs'[o] >= Uses(o)'
  BY DEF NothingFreedInUse
<1>1. Uses(o)' = Uses(o) /\ Uses(o) \in Nat
  BY UsesIs, UsesNext
<1> QED BY <1>1 DEF NothingFreedInUse

-----------------------------------------------------------------------------
(* Surfaces. *)

\* f has surfaces that were drawn to, validated or resized: nothing else of them
\* differs from those of g.
SameSurfaces(f, g) ==
  /\ f \in [Surfaces -> SurfaceType]
  /\ \A s \in Surfaces : /\ f[s].state = g[s].state /\ f[s].window = g[s].window
                         /\ f[s].busy = g[s].busy

LEMMA SameTransitive ==
  ASSUME NEW f, NEW g, NEW h, SameSurfaces(f, g), SameSurfaces(g, h)
  PROVE  SameSurfaces(f, h)
BY DEF SameSurfaces

LEMMA ResizedSame ==
  ASSUME NEW f \in [Surfaces -> SurfaceType], NEW s, NEW n \in Nat
  PROVE  SameSurfaces([f EXCEPT ![s].size = n, ![s].stale = TRUE], f)
<1>1. CASE s \notin Surfaces
  BY <1>1 DEF SameSurfaces
<1>2. CASE s \in Surfaces
  <2> DEFINE r == [f[s] EXCEPT !.size = n, !.stale = TRUE]
  <2>1. /\ r \in SurfaceType /\ r.state = f[s].state /\ r.window = f[s].window
        /\ r.busy = f[s].busy
    BY <1>2 DEF SurfaceType
  <2>2. [f EXCEPT ![s].size = n, ![s].stale = TRUE] = [f EXCEPT ![s] = r]
    BY <1>2 DEF SurfaceType
  <2> HIDE DEF r
  <2> QED BY <1>2, <2>1, <2>2 DEF SameSurfaces
<1> QED BY <1>1, <1>2

LEMMA ValidatedSame ==
  ASSUME NEW f \in [Surfaces -> SurfaceType], NEW s \in Surfaces \cup {None},
         NEW size, s # None => size \in Nat
  PROVE  SameSurfaces(Validated(f, s, size), f)
<1>1. CASE ~(s # None /\ f[s].stale)
  BY <1>1 DEF SameSurfaces, Validated
<1>2. CASE s # None /\ f[s].stale
  <2> DEFINE r == [f[s] EXCEPT !.texture = size, !.stale = FALSE]
  <2>1. s \in Surfaces /\ size \in Nat
    BY <1>2
  <2>2. /\ r \in SurfaceType /\ r.state = f[s].state /\ r.window = f[s].window
        /\ r.busy = f[s].busy
    BY <2>1 DEF SurfaceType
  <2>3. Validated(f, s, size) = [f EXCEPT ![s] = r]
    BY <1>2, <2>1 DEF SurfaceType, Validated
  <2> HIDE DEF r
  <2> QED BY <2>1, <2>2, <2>3 DEF SameSurfaces
<1> QED BY <1>1, <1>2

\* The parts of the invariant that do not depend on how objects are counted.
LEMMA SameKeeps ==
  ASSUME IInv, SameSurfaces(surface', surface),
         UNCHANGED <<refs, server, released>>,
         window'.private = window.private, window'.exists = window.exists
  PROVE  MadeWhileUsed' /\ CallbacksPointToSurfaces' /\ BusyKnown'
<1>1. MadeWhileUsed'
  BY DEF IInv, MadeWhileUsed, SameSurfaces
<1>2. CallbacksPointToSurfaces'
  BY EglAssumption DEF IInv, TypeOK, CallbacksPointToSurfaces, SameSurfaces
<1>3. BusyKnown'
  BY DEF IInv, TypeOK, BusyKnown, SameSurfaces
<1> QED BY <1>1, <1>2, <1>3

\* Objects go with their last reference, and nothing else does.
LEMMA ForgetStep ==
  ASSUME IInv, NEW count \in [Objects -> Int], NEW f, SameSurfaces(f, surface),
         \A o \in Objects : count[o] > 0 => refs[o] > 0,
         Forget(count, f), NothingFreedInUse'
  PROVE  /\ refs' = count /\ surface' \in [Surfaces -> SurfaceType]
         /\ window' \in [exists : BOOLEAN, size : Nat, private : Surfaces \cup {None}]
         /\ server' \subseteq Surfaces \X Buffers /\ released' \subseteq Surfaces \X Buffers
         /\ MadeWhileUsed' /\ CallbacksPointToSurfaces' /\ BusyKnown'
<1> DEFINE gone == Freed(count)
<1>1. /\ refs' = count
      /\ surface' = [s \in Surfaces |-> IF s \in gone THEN Gone ELSE f[s]]
      /\ server' = {b \in server : b[1] \notin gone}
      /\ released' = {b \in released : b[1] \notin gone}
      /\ window' = IF window.private \in gone /\ surface[window.private].window
                   THEN [window EXCEPT !.private = None] ELSE window
  BY DEF Forget
<1>2. \A o \in Objects : count[o] >= 0
  BY <1>1, UsesNext DEF NothingFreedInUse
<1>3. Surfaces \subseteq Objects /\ None \notin Objects
  BY EglAssumption DEF Objects
<1>4. Gone \in SurfaceType /\ Gone.state = "gone" /\ Gone.busy = {}
  BY DEF Gone, NoSurface, SurfaceType
<1>5. \A o \in Objects : o \in gone <=> refs[o] > 0 /\ count[o] = 0
  BY DEF Freed
<1>11. refs \in [Objects -> Int]
  BY DEF IInv, TypeOK
<1> HIDE DEF gone
<1>6. surface' \in [Surfaces -> SurfaceType]
  BY <1>1, <1>4 DEF SameSurfaces
<1>7. window' \in [exists : BOOLEAN, size : Nat, private : Surfaces \cup {None}]
  BY <1>1 DEF IInv, TypeOK
<1>8. MadeWhileUsed'
  <2> SUFFICES ASSUME NEW s \in Surfaces
               PROVE  /\ surface'[s].state = "made" <=> count[s] > 0
                      /\ surface'[s].state # "made" => surface'[s].busy = {}
    BY <1>1 DEF MadeWhileUsed
  <2>1. /\ surface[s].state = "made" <=> refs[s] > 0
        /\ surface[s].state # "made" => surface[s].busy = {}
        /\ f[s].state = surface[s].state /\ f[s].busy = surface[s].busy
    BY DEF IInv, MadeWhileUsed, SameSurfaces
  <2>2. s \in Objects /\ count[s] \in Int /\ refs[s] \in Int
    BY <1>3, <1>11
  <2>3. CASE s \in gone
    BY <1>1, <1>4, <1>5, <2>2, <2>3
  <2>4. CASE s \notin gone
    BY <1>1, <1>2, <1>5, <2>1, <2>2, <2>4
  <2> QED BY <2>3, <2>4
<1>9. CallbacksPointToSurfaces'
  <2> SUFFICES ASSUME window'.private # None
               PROVE  /\ window'.exists /\ count[window'.private] > 0
                      /\ Kind[window'.private] = "wayland"
                      /\ surface'[window'.private].window
    BY <1>1 DEF CallbacksPointToSurfaces
  <2> DEFINE s == window.private
  <2>1. window \in [exists : BOOLEAN, size : Nat, private : Surfaces \cup {None}]
    BY DEF IInv, TypeOK
  <2>2. s # None
    BY <1>1, <2>1
  <2>3. /\ window.exists /\ refs[s] > 0 /\ Kind[s] = "wayland" /\ surface[s].window
        /\ s \in Surfaces /\ s \in Objects
    BY <1>3, <2>1, <2>2 DEF IInv, CallbacksPointToSurfaces
  <2>4. s \notin gone /\ window' = window
    BY <1>1, <2>1, <2>3
  <2>5. count[s] > 0
    BY <1>2, <1>5, <2>3, <2>4
  <2> QED BY <1>1, <2>3, <2>4, <2>5 DEF SameSurfaces
<1>10. BusyKnown'
  <2>1. \A b \in server \cup released : b[1] \in Surfaces
    BY DEF IInv, TypeOK
  <2> QED BY <1>1, <2>1 DEF IInv, BusyKnown, SameSurfaces
<1> QED BY <1>1, <1>6, <1>7, <1>8, <1>9, <1>10 DEF IInv, TypeOK

-----------------------------------------------------------------------------
(* Objects are made and given up. *)

LEMMA InitIInv == Init => IInv
<1> SUFFICES ASSUME Init PROVE IInv
  OBVIOUS
<1>1. NoSurface \in SurfaceType /\ NoSurface.state = "none" /\ NoSurface.busy = {}
  BY DEF NoSurface, SurfaceType
<1>2. Unbound \in Bindings /\ Unbound = [ctx |-> None, draw |-> None, read |-> None]
  BY DEF Unbound, Bindings
<1>3. TypeOK
  <2>1. /\ bound \in [Threads -> Bindings] /\ surface \in [Surfaces -> SurfaceType]
        /\ hgl \in [Contexts -> Nat] /\ refs \in [Objects -> Int]
    BY <1>1, <1>2 DEF Init
  <2>2. window \in [exists : BOOLEAN, size : Nat, private : Surfaces \cup {None}]
    <3>1. PICK n \in Sizes : window = [exists |-> TRUE, size |-> n, private |-> None]
      BY DEF Init
    <3> QED BY <3>1, EglAssumption
  <2> QED BY <2>1, <2>2 DEF Init, TypeOK
<1>4. NothingFreedInUse
  <2> SUFFICES ASSUME NEW o \in Objects
               PROVE  refs[o] >= Uses(o)
    BY DEF NothingFreedInUse
  <2>1. Places(bound, o) = {}
    BY <1>2, EglAssumption DEF Init, Places, Parts, Objects
  <2>2. Cardinality(Places(bound, o)) = 0
    BY <2>1, FS_EmptySet
  <2>3. Uses(o) = 0
    BY <2>2, UsesIs DEF Init
  <2> QED BY <2>3 DEF Init
<1>5. BoundWhole /\ MadeWhileUsed
  BY <1>1, <1>2 DEF Init, BoundWhole, MadeWhileUsed, Objects
<1>6. CallbacksPointToSurfaces /\ BusyKnown /\ FrameFree
  BY DEF Init, CallbacksPointToSurfaces, BusyKnown, FrameFree
<1> QED BY <1>3, <1>4, <1>5, <1>6 DEF IInv

\* A new object has the reference of its handle, and none before.
LEMMA NewUses ==
  ASSUME IInv, NEW n \in Objects, refs[n] <= 0,
         refs'[n] = 1, \A o \in Objects \ {n} : refs'[o] = refs[o],
         linked' = linked \cup {n}, bound' = bound
  PROVE  NothingFreedInUse' /\ linked' \subseteq Objects
<1>1. refs \in [Objects -> Int] /\ linked \subseteq Objects
  BY DEF IInv, TypeOK
<1>2. ASSUME NEW o \in Objects
      PROVE  refs'[o] >= Uses(o)'
  <2>1. refs[o] >= Uses(o) /\ Uses(o) \in Nat /\ Uses(n) \in Nat /\ refs[n] >= Uses(n)
    BY UsesIs DEF IInv, NothingFreedInUse
  <2>2. /\ Uses(o) = (IF o \in linked THEN 1 ELSE 0) + Cardinality(Places(bound, o))
        /\ Uses(o)' = (IF o \in linked' THEN 1 ELSE 0) + Cardinality(Places(bound, o))
        /\ Cardinality(Places(bound, o)) \in Nat
    BY UsesIs, UsesNext, PlacesFinite
  <2>3. CASE o = n
    BY <1>1, <2>1, <2>2, <2>3
  <2>4. CASE o # n
    BY <1>1, <2>1, <2>2, <2>4
  <2> QED BY <2>3, <2>4
<1> QED BY <1>1, <1>2 DEF NothingFreedInUse

LEMMA CreateContextStep ==
  ASSUME IInv, NEW c \in Contexts, CreateContext(c)
  PROVE  IInv'
<1>1. c \in Objects /\ c \notin Surfaces
  BY EglAssumption DEF Objects
<1>0. /\ refs' \in [Objects -> Int] /\ refs'[c] = 1 /\ refs[c] <= 0
      /\ \A o \in Objects \ {c} : refs'[o] = refs[o]
      /\ linked' = linked \cup {c} /\ bound' = bound
  BY <1>1 DEF CreateContext, IInv, TypeOK
<1>2. NothingFreedInUse' /\ linked' \subseteq Objects
  BY <1>0, <1>1, NewUses
<1>3. TypeOK'
  BY <1>0, <1>2 DEF IInv, TypeOK, CreateContext, shm
<1>4. \A s \in Surfaces : refs'[s] = refs[s]
  BY <1>1 DEF CreateContext, IInv, TypeOK, Objects
<1>5. BoundWhole' /\ BusyKnown' /\ FrameFree'
  BY DEF IInv, BoundWhole, BusyKnown, FrameFree, CreateContext, shm
<1>6. MadeWhileUsed'
  BY <1>4 DEF IInv, MadeWhileUsed, CreateContext, shm
<1>7. CallbacksPointToSurfaces'
  BY <1>4 DEF IInv, TypeOK, CallbacksPointToSurfaces, CreateContext, shm
<1> QED BY <1>2, <1>3, <1>5, <1>6, <1>7 DEF IInv

LEMMA CreateSurfaceStep ==
  ASSUME IInv, NEW s \in Surfaces, CreateSurface(s) \/ CreateWaylandSurface(s)
  PROVE  IInv'
<1>1. s \in Objects
  BY DEF Objects
<1>2. PICK n \in Nat : surface' = [surface EXCEPT ![s] = NewSurface(s, n)]
  BY EglAssumption DEF CreateSurface, CreateWaylandSurface, IInv, TypeOK
<1>3. /\ surface[s].state = "none" /\ surface[s].busy = {} /\ swap = None /\ swap' = None
      /\ refs' = [refs EXCEPT ![s] = 1] /\ linked' = linked \cup {s}
      /\ UNCHANGED <<display, bound, hgl, server, released>>
  BY DEF CreateSurface, CreateWaylandSurface, Enter, shm, IInv, MadeWhileUsed
<1>4. refs[s] \in Int /\ ~(refs[s] > 0)
  BY <1>1, <1>3 DEF IInv, TypeOK, MadeWhileUsed
<1>0. /\ refs' \in [Objects -> Int] /\ refs'[s] = 1 /\ refs[s] <= 0
      /\ \A o \in Objects \ {s} : refs'[o] = refs[o]
  BY <1>1, <1>3, <1>4 DEF IInv, TypeOK
<1>5. NothingFreedInUse' /\ linked' \subseteq Objects
  BY <1>0, <1>1, <1>3, NewUses
<1>6. /\ NewSurface(s, n) \in SurfaceType /\ NewSurface(s, n).state = "made"
      /\ NewSurface(s, n).window <=> Kind[s] = "wayland"
      /\ NewSurface(s, n).busy = {}
  BY <1>2 DEF NewSurface, SurfaceType
<1>7. /\ window' \in [exists : BOOLEAN, size : Nat, private : Surfaces \cup {None}]
      /\ window' = window \/ (window' = [window EXCEPT !.private = s] /\ window.exists
                              /\ Kind[s] = "wayland")
  BY DEF CreateSurface, CreateWaylandSurface, IInv, TypeOK
<1>8. TypeOK'
  BY <1>0, <1>2, <1>3, <1>5, <1>6, <1>7 DEF IInv, TypeOK
<1>9. \A u \in Surfaces \ {s} : refs'[u] = refs[u] /\ surface'[u] = surface[u]
  BY <1>2, <1>3 DEF IInv, TypeOK, Objects
<1>10. refs'[s] = 1 /\ surface'[s] = NewSurface(s, n)
  BY <1>1, <1>2, <1>3 DEF IInv, TypeOK
<1>11. MadeWhileUsed'
  <2> SUFFICES ASSUME NEW u \in Surfaces
               PROVE  /\ surface'[u].state = "made" <=> refs'[u] > 0
                      /\ surface'[u].state # "made" => surface'[u].busy = {}
    BY DEF MadeWhileUsed
  <2>1. CASE u = s
    BY <1>6, <1>10, <2>1
  <2>2. CASE u # s
    BY <1>9, <2>2 DEF IInv, MadeWhileUsed
  <2> QED BY <2>1, <2>2
<1>12. CallbacksPointToSurfaces'
  <2>1. CASE window'.private = s
    BY <1>4, <1>6, <1>7, <1>10, <2>1, EglAssumption
    DEF CallbacksPointToSurfaces, IInv, TypeOK
  <2>2. CASE window'.private # s
    BY <1>7, <1>9, <2>2 DEF CallbacksPointToSurfaces, IInv, TypeOK
  <2> QED BY <2>1, <2>2
<1>13. BusyKnown'
  <2>1. \A b \in server \cup released : b[1] \in Surfaces \ {s}
    BY <1>3 DEF IInv, TypeOK, BusyKnown
  <2> QED BY <1>3, <1>9, <2>1 DEF IInv, BusyKnown
<1>14. BoundWhole' /\ FrameFree'
  BY <1>3 DEF IInv, BoundWhole, FrameFree
<1> QED BY <1>5, <1>8, <1>11, <1>12, <1>13, <1>14 DEF IInv

\* eglDestroySurface, eglDestroyContext and eglTerminate give up handles.
LEMMA GiveUpStep ==
  ASSUME IInv, NEW gone \in SUBSET linked, swap = None,
         Forget([o \in Objects |-> refs[o] - (IF o \in gone THEN 1 ELSE 0)], surface),
         linked' = linked \ gone, display' \in {"live", "gone"},
         UNCHANGED <<bound, hgl, swap>>
  PROVE  IInv'
<1> DEFINE count == [o \in Objects |-> refs[o] - (IF o \in gone THEN 1 ELSE 0)]
<1>1. refs \in [Objects -> Int] /\ linked \subseteq Objects
  BY DEF IInv, TypeOK
<1>2. count \in [Objects -> Int] /\ \A o \in Objects : count[o] > 0 => refs[o] > 0
  BY <1>1
<1>3. refs' = count
  BY DEF Forget
<1>4. NothingFreedInUse'
  <2> SUFFICES ASSUME NEW o \in Objects
               PROVE  refs'[o] >= Uses(o)'
    BY DEF NothingFreedInUse
  <2>1. /\ refs[o] >= Uses(o)
        /\ Uses(o) = (IF o \in linked THEN 1 ELSE 0) + Cardinality(Places(bound, o))
        /\ Uses(o)' = (IF o \in linked' THEN 1 ELSE 0) + Cardinality(Places(bound, o))
        /\ Cardinality(Places(bound, o)) \in Nat
    BY UsesIs, UsesNext, PlacesFinite DEF IInv, NothingFreedInUse
  <2>2. refs'[o] = refs[o] - (IF o \in gone THEN 1 ELSE 0) /\ refs[o] \in Int
    BY <1>1, <1>3
  <2>3. CASE o \in gone
    BY <2>1, <2>2, <2>3
  <2>4. CASE o \notin gone
    BY <2>1, <2>2, <2>4
  <2> QED BY <2>3, <2>4
<1>5. SameSurfaces(surface, surface)
  BY DEF SameSurfaces, IInv, TypeOK
<1> HIDE DEF count
<1>6. /\ refs' = count /\ surface' \in [Surfaces -> SurfaceType]
      /\ window' \in [exists : BOOLEAN, size : Nat, private : Surfaces \cup {None}]
      /\ server' \subseteq Surfaces \X Buffers /\ released' \subseteq Surfaces \X Buffers
      /\ MadeWhileUsed' /\ CallbacksPointToSurfaces' /\ BusyKnown'
  BY <1>2, <1>4, <1>5, ForgetStep DEF count
<1>7. TypeOK'
  BY <1>1, <1>2, <1>6 DEF IInv, TypeOK
<1>8. BoundWhole' /\ FrameFree'
  BY DEF IInv, BoundWhole, FrameFree
<1> QED BY <1>4, <1>6, <1>7, <1>8 DEF IInv

LEMMA DestroyStep ==
  ASSUME IInv, NEW o \in Objects, Destroy(o)
  PROVE  IInv'
<1> DEFINE count == [x \in Objects |-> refs[x] - (IF x \in {o} THEN 1 ELSE 0)]
<1>1. [refs EXCEPT ![o] = @ - 1] = count
  <2>1. refs \in [Objects -> Int]
    BY DEF IInv, TypeOK
  <2>2. \A x \in Objects : refs[x] \in Int /\ refs[x] - 0 = refs[x]
    BY <2>1
  <2>3. [refs EXCEPT ![o] = @ - 1] = [x \in Objects |-> IF x = o THEN refs[o] - 1 ELSE refs[x]]
    BY <2>1
  <2> QED BY <2>2, <2>3
<1> HIDE DEF count
<1>2. Forget(count, surface)
  BY <1>1 DEF Destroy
<1>3. /\ {o} \in SUBSET linked /\ swap = None /\ linked' = linked \ {o}
      /\ display' \in {"live", "gone"} /\ UNCHANGED <<bound, hgl, swap>>
  BY DEF Destroy, Enter, IInv, TypeOK
<1> QED BY <1>2, <1>3, GiveUpStep DEF count

LEMMA TerminateStep ==
  ASSUME IInv, Terminate
  PROVE  IInv'
BY GiveUpStep DEF Terminate, Enter

-----------------------------------------------------------------------------
(* Bindings. *)

\* Only what has a handle is bound anew.
LEMMA BoundHasHandle ==
  ASSUME NEW t \in Threads, NEW b \in Bindings, Bindable(t, b), NEW o \in Objects,
         Times(b, o) # 0
  PROVE  o \in linked
<1>1. CASE \E part \in Parts : b[part] = o
  BY <1>1, EglAssumption DEF Bindable, Parts, Objects
<1>2. CASE ~ \E part \in Parts : b[part] = o
  <2>1. PlacesAt(t, b, o) = {}
    BY <1>2 DEF PlacesAt
  <2>2. Cardinality(PlacesAt(t, b, o)) = 0
    BY <2>1, FS_EmptySet
  <2> QED BY <2>2, TimesIs
<1> QED BY <1>1, <1>2

LEMMA HandleHasReference ==
  ASSUME IInv, NEW o \in Objects, o \in linked
  PROVE  refs[o] > 0
<1>1. /\ Uses(o) = (IF o \in linked THEN 1 ELSE 0) + Cardinality(Places(bound, o))
      /\ Cardinality(Places(bound, o)) \in Nat
  BY UsesIs, PlacesFinite
<1>2. refs[o] \in Int /\ refs[o] >= Uses(o)
  BY DEF IInv, TypeOK, NothingFreedInUse
<1> QED BY <1>1, <1>2

\* The size a context gets from the surface it draws to.
LEMMA SizesType ==
  ASSUME IInv, NEW t \in Threads, NEW b \in Bindings, Bindable(t, b)
  PROVE  LET sizes == IF b.draw = None THEN hgl
                      ELSE [hgl EXCEPT ![b.ctx] = surface[b.draw].size]
         IN  /\ sizes \in [Contexts -> Nat]
             /\ b.draw # None => sizes[b.ctx] \in Nat
<1>1. b.draw # None => b.ctx \in Contexts /\ surface[b.draw].size \in Nat
  BY DEF Bindable, Bindings, IInv, TypeOK, SurfaceType
<1> QED BY <1>1 DEF IInv, TypeOK

LEMMA BindStep ==
  ASSUME IInv, NEW t \in Threads, NEW b \in Bindings, Bindable(t, b), swap = None,
         hgl' \in [Contexts -> Nat], bound' = [bound EXCEPT ![t] = b],
         NEW f, SameSurfaces(f, surface),
         Forget([o \in Objects |-> refs[o] + Times(b, o) - Puts(bound[t])[o]], f),
         UNCHANGED <<display, linked, swap>>
  PROVE  IInv'
<1> DEFINE old == bound[t]
           count == [o \in Objects |-> refs[o] + Times(b, o) - Puts(old)[o]]
<1>1. old \in Bindings /\ refs \in [Objects -> Int] /\ bound \in [Threads -> Bindings]
  BY DEF IInv, TypeOK
<1> HIDE DEF old
<1>2. \A o \in Objects :
        /\ Times(b, o) \in Nat /\ Times(old, o) \in Nat /\ refs[o] \in Int
        /\ Puts(old)[o] \in {0, 1} /\ Puts(old)[o] <= Times(old, o)
  BY <1>1, PutsTaken, TimesIs
<1>3. \A o \in Objects : count[o] \in Int /\ count[o] = refs[o] + Times(b, o) - Puts(old)[o]
  BY <1>2
<1>4. count \in [Objects -> Int]
  BY <1>3
<1>5. refs' = count
  BY DEF Forget, old
<1> HIDE DEF count
<1>6. \A o \in Objects : count[o] > 0 => refs[o] > 0
  <2> SUFFICES ASSUME NEW o \in Objects, count[o] > 0 PROVE refs[o] > 0
    OBVIOUS
  <2>1. CASE Times(b, o) = 0
    BY <1>2, <1>3, <2>1
  <2>2. CASE Times(b, o) # 0
    BY <2>2, BoundHasHandle, HandleHasReference
  <2> QED BY <2>1, <2>2
<1>7. NothingFreedInUse'
  <2> SUFFICES ASSUME NEW o \in Objects
               PROVE  refs'[o] >= Uses(o)'
    BY DEF NothingFreedInUse
  <2> DEFINE before == Cardinality(Places(bound, o))
             after == Cardinality(Places(bound', o))
             handle == IF o \in linked THEN 1 ELSE 0
  <2>1. /\ refs[o] >= Uses(o) /\ Uses(o) = handle + before /\ Uses(o)' = handle + after
        /\ before \in Nat /\ after \in Nat
    BY UsesIs, UsesNext, PlacesFinite DEF IInv, NothingFreedInUse
  <2>2. after = before - Times(old, o) + Times(b, o)
    BY <1>1, PlacesMove DEF old
  <2>3. handle \in {0, 1}
    OBVIOUS
  <2> HIDE DEF before, after, handle
  <2> QED BY <1>2, <1>3, <1>5, <2>1, <2>2, <2>3
<1>8. Forget(count, f)
  BY DEF count, old
<1>9. /\ surface' \in [Surfaces -> SurfaceType]
      /\ window' \in [exists : BOOLEAN, size : Nat, private : Surfaces \cup {None}]
      /\ server' \subseteq Surfaces \X Buffers /\ released' \subseteq Surfaces \X Buffers
      /\ MadeWhileUsed' /\ CallbacksPointToSurfaces' /\ BusyKnown'
  BY <1>4, <1>6, <1>7, <1>8, ForgetStep
<1>10. TypeOK'
  BY <1>1, <1>4, <1>5, <1>9 DEF IInv, TypeOK
<1>11. BoundWhole'
  BY <1>1 DEF IInv, BoundWhole, Bindable
<1>12. FrameFree'
  BY DEF FrameFree
<1> QED BY <1>7, <1>9, <1>10, <1>11, <1>12 DEF IInv

\* The state tracker refused: both bindings have references more than before.
LEMMA RefusedStep ==
  ASSUME IInv, NEW t \in Threads, NEW b \in Bindings, Bindable(t, b), swap = None,
         hgl' \in [Contexts -> Nat],
         refs' = [o \in Objects |-> refs[o] + Times(b, o) + Times(bound[t], o)],
         UNCHANGED <<display, linked, bound, surface, swap, window, server, released>>
  PROVE  IInv'
<1> DEFINE old == bound[t]
<1>1. old \in Bindings /\ refs \in [Objects -> Int]
  BY DEF IInv, TypeOK
<1> HIDE DEF old
<1>2. \A o \in Objects : /\ Times(b, o) \in Nat /\ Times(old, o) \in Nat /\ refs[o] \in Int
                         /\ refs'[o] = refs[o] + Times(b, o) + Times(old, o)
  BY <1>1, TimesIs DEF old
<1>3. \A o \in Objects : refs'[o] \in Int /\ refs'[o] >= refs[o]
  BY <1>2
<1>4. NothingFreedInUse'
  BY <1>1, <1>3, UsesFrame DEF IInv
<1>5. refs' \in [Objects -> Int]
  BY <1>3
<1>6. \A o \in Objects : refs'[o] > 0 <=> refs[o] > 0
  <2> SUFFICES ASSUME NEW o \in Objects, refs'[o] > 0 PROVE refs[o] > 0
    BY <1>2, <1>3
  <2>1. CASE Times(b, o) = 0 /\ Times(old, o) = 0
    BY <1>2, <2>1
  <2>2. CASE Times(b, o) # 0
    BY <2>2, BoundHasHandle, HandleHasReference
  <2>3. CASE Times(old, o) # 0
    <3>1. PlacesAt(t, old, o) # {}
      BY <1>1, <2>3, TimesIs, FS_EmptySet
    <3>2. Places(bound, o) # {}
      BY <3>1 DEF PlacesAt, Places, old
    <3>3. Cardinality(Places(bound, o)) # 0
      BY <3>2, PlacesFinite, FS_EmptySet
    <3>4. /\ refs[o] >= Uses(o) /\ Cardinality(Places(bound, o)) \in Nat
          /\ Uses(o) = (IF o \in linked THEN 1 ELSE 0) + Cardinality(Places(bound, o))
      BY UsesIs, PlacesFinite DEF IInv, NothingFreedInUse
    <3>5. Uses(o) \in Nat /\ Uses(o) # 0
      BY <3>3, <3>4
    <3>6. refs[o] \in Int /\ refs[o] >= Uses(o)
      BY <1>2, <3>4
    <3> QED BY <3>5, <3>6
  <2> QED BY <2>1, <2>2, <2>3
<1>7. TypeOK'
  BY <1>5 DEF IInv, TypeOK
<1>8. MadeWhileUsed'
  BY <1>6 DEF IInv, MadeWhileUsed, Objects
<1>9. CallbacksPointToSurfaces'
  BY <1>6 DEF IInv, TypeOK, CallbacksPointToSurfaces, Objects
<1>10. BoundWhole' /\ BusyKnown' /\ FrameFree'
  BY DEF IInv, BoundWhole, BusyKnown, FrameFree
<1> QED BY <1>4, <1>7, <1>8, <1>9, <1>10 DEF IInv

LEMMA MakeCurrentStep ==
  ASSUME IInv, NEW t \in Threads, NEW b \in Bindings, MakeCurrent(t, b)
  PROVE  IInv'
<1> DEFINE sizes == IF b.draw = None THEN hgl
                    ELSE [hgl EXCEPT ![b.ctx] = surface[b.draw].size]
           f == IF b.ctx = None THEN surface
                ELSE Validated(Validated(surface, b.draw, sizes[b.ctx]), b.read, sizes[b.ctx])
           count == [o \in Objects |-> refs[o] + Times(b, o) - Puts(bound[t])[o]]
<1>1. /\ Bindable(t, b) /\ swap = None /\ hgl' = sizes
      /\ UNCHANGED <<display, linked, swap>>
  BY DEF MakeCurrent, Enter
<1>2. sizes \in [Contexts -> Nat] /\ (b.draw # None => sizes[b.ctx] \in Nat)
  BY <1>1, SizesType
<1>3. /\ surface \in [Surfaces -> SurfaceType] /\ SameSurfaces(surface, surface)
      /\ b.draw \in Surfaces \cup {None} /\ b.read \in Surfaces \cup {None}
      /\ b.draw = None <=> b.read = None
  BY <1>1 DEF SameSurfaces, IInv, TypeOK, Bindings, Bindable
<1>4. \/ bound' = [bound EXCEPT ![t] = b] /\ Forget(count, f)
      \/ /\ refs' = [o \in Objects |-> refs[o] + Times(b, o) + Times(bound[t], o)]
         /\ UNCHANGED <<bound, surface, window, server, released>>
  BY DEF MakeCurrent, shm
<1>5. SameSurfaces(f, surface)
  <2> DEFINE size == sizes[b.ctx]
             g == Validated(surface, b.draw, size)
  <2> HIDE DEF sizes
  <2>1. SameSurfaces(g, surface)
    BY <1>2, <1>3, ValidatedSame
  <2>2. g \in [Surfaces -> SurfaceType]
    BY <2>1 DEF SameSurfaces
  <2>3. SameSurfaces(Validated(g, b.read, size), g)
    BY <1>2, <1>3, <2>2, ValidatedSame
  <2>4. SameSurfaces(Validated(g, b.read, size), surface)
    BY <2>1, <2>3, SameTransitive
  <2> QED BY <1>3, <2>4
<1> HIDE DEF sizes, f
<1>6. CASE bound' = [bound EXCEPT ![t] = b] /\ Forget(count, f)
  BY <1>1, <1>2, <1>5, <1>6, BindStep
<1>7. CASE /\ refs' = [o \in Objects |-> refs[o] + Times(b, o) + Times(bound[t], o)]
           /\ UNCHANGED <<bound, surface, window, server, released>>
  BY <1>1, <1>2, <1>7, RefusedStep
<1> QED BY <1>4, <1>6, <1>7

LEMMA ReleaseStep ==
  ASSUME IInv, NEW t \in Threads, ReleaseAfterTerminate(t)
  PROVE  IInv'
<1>1. TypeOK' /\ BoundWhole' /\ FrameFree'
  BY DEF ReleaseAfterTerminate, IInv, TypeOK, BoundWhole, FrameFree, shm
<1>4. UNCHANGED <<linked, refs, bound>> /\ refs \in [Objects -> Int]
  BY DEF ReleaseAfterTerminate, IInv, TypeOK
<1>2. NothingFreedInUse'
  BY <1>4, UsesFrame DEF IInv
<1>3. MadeWhileUsed' /\ CallbacksPointToSurfaces' /\ BusyKnown'
  BY DEF ReleaseAfterTerminate, IInv, MadeWhileUsed, CallbacksPointToSurfaces,
         BusyKnown, shm
<1> QED BY <1>1, <1>2, <1>3 DEF IInv

\* A step that draws to surfaces or resizes them, and touches no object.
LEMMA DrawStep ==
  ASSUME IInv, SameSurfaces(surface', surface), display' = display,
         hgl' \in [Contexts -> Nat],
         swap' = None \/ swap' \in SwapType,
         swap' # None => \/ swap' = swap
                         \/ refs[swap'.surface] > 0 /\ swap'.step # "attach",
         window' \in [exists : BOOLEAN, size : Nat, private : Surfaces \cup {None}],
         window'.private = window.private, window'.exists = window.exists,
         UNCHANGED <<linked, refs, bound, server, released>>
  PROVE  IInv'
<1>1. TypeOK'
  BY DEF IInv, TypeOK, SameSurfaces
<1>2. NothingFreedInUse'
  BY UsesFrame DEF IInv, TypeOK
<1>3. MadeWhileUsed' /\ CallbacksPointToSurfaces' /\ BusyKnown'
  BY SameKeeps
<1>4. BoundWhole'
  BY DEF IInv, BoundWhole
<1>5. FrameFree'
  <2> SUFFICES ASSUME swap' # None
               PROVE  /\ refs[swap'.surface] > 0
                      /\ swap'.step = "attach" =>
                           swap'.buffer \notin surface'[swap'.surface].busy
    BY DEF FrameFree
  <2>1. CASE swap' = swap
    BY <2>1 DEF IInv, TypeOK, FrameFree, SameSurfaces, SwapType
  <2>2. CASE swap' # swap
    BY <2>2
  <2> QED BY <2>1, <2>2
<1> QED BY <1>1, <1>2, <1>3, <1>4, <1>5 DEF IInv

LEMMA RenderStep ==
  ASSUME IInv, NEW t \in Threads, Render(t)
  PROVE  IInv'
<1> DEFINE b == bound[t]
           size == hgl[b.ctx]
           f == Validated(surface, b.draw, size)
<1>1. /\ b \in Bindings /\ b.draw # None /\ surface \in [Surfaces -> SurfaceType]
      /\ hgl \in [Contexts -> Nat]
  BY DEF IInv, TypeOK, Render
<1>2. b.ctx # None /\ b.draw \in Surfaces /\ b.read \in Surfaces \cup {None}
  BY <1>1 DEF IInv, BoundWhole, Bindings
<1>3. size \in Nat
  BY <1>1, <1>2 DEF Bindings
<1>4. surface' = Validated(f, b.read, size)
  BY DEF Render
<1> HIDE DEF b, size
<1>5. SameSurfaces(f, surface)
  BY <1>1, <1>2, <1>3, ValidatedSame
<1>6. f \in [Surfaces -> SurfaceType]
  BY <1>5 DEF SameSurfaces
<1> HIDE DEF f
<1>7. SameSurfaces(Validated(f, b.read, size), f)
  BY <1>2, <1>3, <1>6, ValidatedSame
<1>8. SameSurfaces(surface', surface)
  BY <1>4, <1>5, <1>7, SameTransitive
<1> QED BY <1>8, DrawStep DEF Render, shm, IInv, TypeOK

LEMMA SwapViewStep ==
  ASSUME IInv, NEW t \in Threads, NEW n \in Sizes, SwapView(t, n)
  PROVE  IInv'
<1>1. n \in Nat /\ surface \in [Surfaces -> SurfaceType] /\ hgl \in [Contexts -> Nat]
  BY EglAssumption DEF IInv, TypeOK
<1>2. SameSurfaces(surface', surface)
  BY <1>1, ResizedSame DEF SwapView
<1>3. hgl' \in [Contexts -> Nat]
  BY <1>1 DEF SwapView
<1> QED BY <1>2, <1>3, DrawStep DEF SwapView, shm, IInv, TypeOK

LEMMA SwapWaylandStep ==
  ASSUME IInv, NEW t \in Threads, SwapWayland(t)
  PROVE  IInv'
<1> DEFINE s == bound[t].draw
<1>1. /\ window.size \in Nat /\ surface \in [Surfaces -> SurfaceType]
      /\ hgl \in [Contexts -> Nat] /\ s \in Surfaces
  <2>1. s \in linked /\ linked \subseteq Objects /\ s \in Surfaces \cup {None}
    BY DEF SwapWayland, IInv, TypeOK, Bindings
  <2> QED BY <2>1, EglAssumption DEF IInv, TypeOK, Objects
<1>2. SameSurfaces(surface', surface)
  <2>1. CASE window.size = surface[s].size
    BY <1>1, <2>1 DEF SwapWayland, SameSurfaces
  <2>2. CASE window.size # surface[s].size
    <3>1. surface' = [surface EXCEPT ![s].size = window.size, ![s].stale = TRUE]
      BY <2>2 DEF SwapWayland
    <3> HIDE DEF s
    <3> QED BY <1>1, <3>1, ResizedSame
  <2> QED BY <2>1, <2>2
<1>3. hgl' \in [Contexts -> Nat]
  BY <1>1 DEF SwapWayland
<1>4. 0 \in Buffers
  BY EglAssumption DEF Buffers
<1>5. swap' \in SwapType /\ swap'.step = "present" /\ swap'.surface = s
  BY <1>1, <1>4 DEF SwapWayland, SwapType, Steps
<1>7. refs[s] > 0
  BY <1>1, HandleHasReference DEF SwapWayland, Objects
<1>6. /\ display' = display /\ window' = window
      /\ UNCHANGED <<linked, refs, bound, server, released>>
  BY DEF SwapWayland, shm
<1> HIDE DEF s
<1> QED BY <1>2, <1>3, <1>5, <1>6, <1>7, DrawStep DEF IInv, TypeOK

LEMMA ResizeStep ==
  ASSUME IInv, NEW n \in Sizes, Resize(n)
  PROVE  IInv'
<1>1. n \in Nat /\ surface \in [Surfaces -> SurfaceType]
  BY EglAssumption DEF IInv, TypeOK
<1>2. SameSurfaces(surface', surface)
  BY <1>1, ResizedSame DEF Resize, SameSurfaces
<1>3. /\ window' \in [exists : BOOLEAN, size : Nat, private : Surfaces \cup {None}]
      /\ window'.private = window.private /\ window'.exists = window.exists
  BY <1>1 DEF Resize, IInv, TypeOK
<1>4. swap' = swap
  BY DEF Resize
<1> QED BY <1>2, <1>3, <1>4, DrawStep DEF Resize, shm, IInv, TypeOK

LEMMA DestroyWindowStep ==
  ASSUME IInv, DestroyWindow
  PROVE  IInv'
<1> DEFINE p == window.private
<1>1. /\ surface \in [Surfaces -> SurfaceType] /\ p \in Surfaces \cup {None}
      /\ window' \in [exists : BOOLEAN, size : Nat, private : Surfaces \cup {None}]
      /\ window'.private = None
  BY DEF IInv, TypeOK, DestroyWindow
<1>2. /\ surface' \in [Surfaces -> SurfaceType]
      /\ \A s \in Surfaces : /\ surface'[s].state = surface[s].state
                             /\ surface'[s].busy = surface[s].busy
  <2>1. CASE p = None
    BY <1>1, <2>1 DEF DestroyWindow
  <2>2. CASE p # None
    <3> DEFINE r == [surface[p] EXCEPT !.window = FALSE]
    <3>1. r \in SurfaceType /\ r.state = surface[p].state /\ r.busy = surface[p].busy
      BY <1>1, <2>2 DEF SurfaceType
    <3>2. surface' = [surface EXCEPT ![p] = r]
      BY <1>1, <2>2 DEF SurfaceType, DestroyWindow
    <3> HIDE DEF r
    <3> QED BY <1>1, <2>2, <3>1, <3>2
  <2> QED BY <2>1, <2>2
<1>3. TypeOK'
  BY <1>1, <1>2 DEF IInv, TypeOK, DestroyWindow, shm
<1>4. NothingFreedInUse'
  BY UsesFrame DEF DestroyWindow, IInv, TypeOK
<1>5. MadeWhileUsed' /\ BoundWhole'
  BY <1>2 DEF IInv, MadeWhileUsed, BoundWhole, DestroyWindow
<1>6. CallbacksPointToSurfaces'
  BY <1>1 DEF CallbacksPointToSurfaces
<1>7. BusyKnown' /\ FrameFree'
  BY <1>2 DEF IInv, TypeOK, BusyKnown, FrameFree, SwapType, DestroyWindow, shm
<1> QED BY <1>3, <1>4, <1>5, <1>6, <1>7 DEF IInv

LEMMA ReleaseBufferStep ==
  ASSUME IInv, NEW b \in server, Release(b)
  PROVE  IInv'
<1>1. TypeOK' /\ BoundWhole' /\ FrameFree'
  BY DEF Release, IInv, TypeOK, BoundWhole, FrameFree
<1>2. NothingFreedInUse'
  BY UsesFrame DEF Release, IInv, TypeOK
<1>3. MadeWhileUsed' /\ CallbacksPointToSurfaces'
  BY DEF Release, IInv, MadeWhileUsed, CallbacksPointToSurfaces
<1>4. BusyKnown'
  BY DEF Release, IInv, BusyKnown
<1> QED BY <1>1, <1>2, <1>3, <1>4 DEF IInv

-----------------------------------------------------------------------------
(* Presentation. *)

\* A choice of a buffer for a frame, for a surface that g describes.
LEMMA PickStep ==
  ASSUME IInv, swap # None, NEW s, s = swap.surface, NEW g \in SurfaceType,
         NEW else \in {"wait", None}, Pick(s, g, else),
         g.state = surface[s].state, g.window = surface[s].window,
         surface[s].state # "made" => g.busy = {},
         server' \subseteq Surfaces \X Buffers, released' \subseteq Surfaces \X Buffers,
         server' \cap released' = {},
         \A b \in server' \cup released' :
           IF b[1] = s THEN b[2] \in g.busy ELSE b \in server \cup released,
         UNCHANGED <<display, linked, refs, bound, hgl, window>>
  PROVE  IInv'
<1>1. /\ swap \in SwapType /\ s \in Surfaces /\ surface \in [Surfaces -> SurfaceType]
      /\ swap.surface = s
  BY DEF IInv, TypeOK, SwapType
<1>2. surface' = [surface EXCEPT ![s] = g]
  BY DEF Pick
<1>3. /\ surface' \in [Surfaces -> SurfaceType] /\ surface'[s] = g
      /\ \A u \in Surfaces \ {s} : surface'[u] = surface[u]
  BY <1>1, <1>2
<1>4. \/ swap' = None
      \/ swap' = [swap EXCEPT !.step = "wait"]
      \/ \E i \in Free(g) : swap' = [swap EXCEPT !.step = "attach", !.buffer = i]
  BY DEF Pick
<1>5. \/ swap' = None
      \/ /\ swap' \in SwapType /\ swap'.surface = s
         /\ swap'.step = "attach" => swap'.buffer \notin g.busy
  <2>1. CASE swap' = [swap EXCEPT !.step = "wait"]
    BY <1>1, <2>1 DEF SwapType, Steps
  <2>2. CASE \E i \in Free(g) : swap' = [swap EXCEPT !.step = "attach", !.buffer = i]
    <3>1. PICK i \in Free(g) : swap' = [swap EXCEPT !.step = "attach", !.buffer = i]
      BY <2>2
    <3>2. i \in Buffers /\ i \notin g.busy
      BY DEF Free
    <3> QED BY <1>1, <3>1, <3>2 DEF SwapType, Steps
  <2> QED BY <1>4, <2>1, <2>2
<1>6. TypeOK'
  BY <1>3, <1>5 DEF IInv, TypeOK
<1>7. NothingFreedInUse' /\ BoundWhole'
  BY UsesFrame DEF IInv, TypeOK, BoundWhole
<1>8. MadeWhileUsed'
  <2> SUFFICES ASSUME NEW u \in Surfaces
               PROVE  /\ surface'[u].state = "made" <=> refs[u] > 0
                      /\ surface'[u].state # "made" => surface'[u].busy = {}
    BY DEF MadeWhileUsed
  <2>1. CASE u = s
    BY <1>1, <1>3, <2>1 DEF IInv, MadeWhileUsed
  <2>2. CASE u # s
    BY <1>3, <2>2 DEF IInv, MadeWhileUsed
  <2> QED BY <2>1, <2>2
<1>9. CallbacksPointToSurfaces'
  <2>1. window.private \in Surfaces \cup {None}
    BY DEF IInv, TypeOK
  <2> QED BY <1>3, <2>1 DEF IInv, CallbacksPointToSurfaces
<1>10. BusyKnown'
  BY <1>1, <1>3 DEF IInv, BusyKnown
<1>11. FrameFree'
  BY <1>1, <1>3, <1>5 DEF IInv, FrameFree
<1> QED BY <1>6, <1>7, <1>8, <1>9, <1>10, <1>11 DEF IInv

\* The swap ends, and its surface has the buffers of g.
LEMMA EndStep ==
  ASSUME IInv, swap # None, swap' = None, NEW s, s = swap.surface,
         NEW g \in SurfaceType, surface' = [surface EXCEPT ![s] = g],
         g.state = surface[s].state, g.window = surface[s].window,
         surface[s].state # "made" => g.busy = {},
         server' \subseteq Surfaces \X Buffers, released' \subseteq Surfaces \X Buffers,
         server' \cap released' = {},
         \A b \in server' \cup released' :
           IF b[1] = s THEN b[2] \in g.busy ELSE b \in server \cup released,
         UNCHANGED <<display, linked, refs, bound, hgl, window>>
  PROVE  IInv'
<1>1. /\ swap \in SwapType /\ s \in Surfaces /\ surface \in [Surfaces -> SurfaceType]
  BY DEF IInv, TypeOK, SwapType
<1>3. /\ surface' \in [Surfaces -> SurfaceType] /\ surface'[s] = g
      /\ \A u \in Surfaces \ {s} : surface'[u] = surface[u]
  BY <1>1
<1>6. TypeOK'
  BY <1>3 DEF IInv, TypeOK
<1>7. NothingFreedInUse' /\ BoundWhole' /\ FrameFree'
  BY UsesFrame DEF IInv, TypeOK, BoundWhole, FrameFree
<1>8. MadeWhileUsed'
  <2> SUFFICES ASSUME NEW u \in Surfaces
               PROVE  /\ surface'[u].state = "made" <=> refs[u] > 0
                      /\ surface'[u].state # "made" => surface'[u].busy = {}
    BY DEF MadeWhileUsed
  <2>1. CASE u = s
    BY <1>1, <1>3, <2>1 DEF IInv, MadeWhileUsed
  <2>2. CASE u # s
    BY <1>3, <2>2 DEF IInv, MadeWhileUsed
  <2> QED BY <2>1, <2>2
<1>9. CallbacksPointToSurfaces'
  <2>1. window.private \in Surfaces \cup {None}
    BY DEF IInv, TypeOK
  <2> QED BY <1>3, <2>1 DEF IInv, CallbacksPointToSurfaces
<1>10. BusyKnown'
  BY <1>1, <1>3 DEF IInv, BusyKnown
<1> QED BY <1>6, <1>7, <1>8, <1>9, <1>10 DEF IInv

\* A step that leaves surfaces and buffers as they are and ends the swap.
LEMMA LeftStep ==
  ASSUME IInv, swap' = None \/ swap' = swap,
         UNCHANGED <<display, linked, refs, bound, surface, hgl, window, server>>,
         released' = released
  PROVE  IInv'
<1>1. SameSurfaces(surface', surface) /\ hgl' \in [Contexts -> Nat]
  BY DEF SameSurfaces, IInv, TypeOK
<1> QED BY <1>1, DrawStep DEF IInv, TypeOK

\* Releases that are dispatched leave what the compositor still shows busy.
LEMMA DispatchedIs ==
  ASSUME IInv, NEW s \in Surfaces, NEW d \in SUBSET released
  PROVE  LET f == surface[s]
             g == Dispatched(s, f, d)
         IN  /\ g \in SurfaceType /\ g.state = f.state /\ g.window = f.window
             /\ g.busy \subseteq f.busy
             /\ (released \ d) \subseteq Surfaces \X Buffers
             /\ server \cap (released \ d) = {}
             /\ \A b \in server \cup (released \ d) :
                  IF b[1] = s THEN b[2] \in g.busy ELSE b \in server \cup released
<1> DEFINE f == surface[s]
           g == Dispatched(s, f, d)
<1>1. f \in SurfaceType
  BY DEF IInv, TypeOK
<1>2. /\ g \in SurfaceType /\ g.state = f.state /\ g.window = f.window
      /\ g.busy = f.busy \ {b[2] : b \in {x \in d : x[1] = s}}
  BY <1>1 DEF SurfaceType, Dispatched
<1> HIDE DEF g
<1>3. /\ server \cap released = {} /\ released \subseteq Surfaces \X Buffers
      /\ server \subseteq Surfaces \X Buffers
      /\ \A b \in server \cup released : b[2] \in surface[b[1]].busy
  BY DEF IInv, TypeOK, BusyKnown
<1>4. ASSUME NEW b \in server \cup (released \ d), b[1] = s
      PROVE  b[2] \in g.busy
  <2>1. b[2] \in f.busy
    BY <1>3, <1>4
  <2>2. ASSUME NEW x \in d, x[1] = s, x[2] = b[2]
        PROVE  FALSE
    <3>1. x = b
      BY <1>3, <1>4, <2>2
    <3> QED BY <1>3, <2>2, <3>1
  <2> QED BY <1>2, <2>1, <2>2
<1> QED BY <1>2, <1>3, <1>4 DEF g

LEMMA PresentStep ==
  ASSUME IInv, Present
  PROVE  IInv'
<1> DEFINE s == swap.surface
           f == surface[s]
<1>1. /\ swap # None /\ s \in Surfaces /\ f \in SurfaceType
      /\ UNCHANGED <<display, linked, refs, bound, hgl, window>>
  BY DEF Present, IInv, TypeOK, SwapType
<1>2. CASE swap' = None /\ UNCHANGED <<surface, shm>>
  BY <1>1, <1>2, LeftStep DEF shm
<1>3. ASSUME NEW d \in SUBSET released, released' = released \ d, server' = server,
             Pick(s, Dispatched(s, f, d), "wait")
      PROVE  IInv'
  <2> DEFINE g == Dispatched(s, f, d)
  <2>1. /\ g \in SurfaceType /\ g.state = f.state /\ g.window = f.window
        /\ g.busy \subseteq f.busy
        /\ (released \ d) \subseteq Surfaces \X Buffers
        /\ server \cap (released \ d) = {}
        /\ \A b \in server \cup (released \ d) :
             IF b[1] = s THEN b[2] \in g.busy ELSE b \in server \cup released
    BY <1>1, DispatchedIs
  <2>2. f.state # "made" => g.busy = {}
    BY <1>1, <2>1 DEF IInv, MadeWhileUsed
  <2>3. server \subseteq Surfaces \X Buffers
    BY DEF IInv, TypeOK
  <2> HIDE DEF g, s
  <2> QED BY <1>1, <1>3, <2>1, <2>2, <2>3, PickStep DEF g, s
<1>4. ASSUME server' = {b \in server : b[1] # s}, released' = {b \in released : b[1] # s}
      PROVE  /\ server' \subseteq Surfaces \X Buffers
             /\ released' \subseteq Surfaces \X Buffers
             /\ server' \cap released' = {}
             /\ \A b \in server' \cup released' : b[1] # s /\ b \in server \cup released
  BY <1>4 DEF IInv, TypeOK, BusyKnown
<1>5. ASSUME server' = {b \in server : b[1] # s}, released' = {b \in released : b[1] # s},
             Pick(s, [f EXCEPT !.map = f.texture, !.busy = {}], "wait")
      PROVE  IInv'
  <2> DEFINE g == [f EXCEPT !.map = f.texture, !.busy = {}]
  <2>1. g \in SurfaceType /\ g.state = f.state /\ g.window = f.window /\ g.busy = {}
    BY <1>1 DEF SurfaceType
  <2> HIDE DEF g, s
  <2> QED BY <1>1, <1>4, <1>5, <2>1, PickStep DEF g, s
<1>6. ASSUME server' = {b \in server : b[1] # s}, released' = {b \in released : b[1] # s},
             surface' = [surface EXCEPT ![s].map = 0, ![s].busy = {}], swap' = None
      PROVE  IInv'
  <2> DEFINE g == [f EXCEPT !.map = 0, !.busy = {}]
  <2>1. g \in SurfaceType /\ g.state = f.state /\ g.window = f.window /\ g.busy = {}
    BY <1>1 DEF SurfaceType
  <2>2. surface' = [surface EXCEPT ![s] = g]
    BY <1>1, <1>6 DEF SurfaceType, IInv, TypeOK
  <2> HIDE DEF g, s
  <2> QED BY <1>1, <1>4, <1>6, <2>1, <2>2, EndStep DEF g, s
<1> QED BY <1>2, <1>3, <1>5, <1>6 DEF Present

LEMMA RetryStep ==
  ASSUME IInv, Retry
  PROVE  IInv'
<1> DEFINE s == swap.surface
           f == surface[s]
<1>1. /\ swap # None /\ s \in Surfaces /\ f \in SurfaceType
      /\ UNCHANGED <<display, linked, refs, bound, hgl, window, server>>
  BY DEF Retry, IInv, TypeOK, SwapType
<1>2. CASE swap' = None /\ UNCHANGED <<surface, released>>
  BY <1>1, <1>2, LeftStep
<1>3. CASE released' = {} /\ Pick(s, Dispatched(s, f, released), None)
  <2> DEFINE g == Dispatched(s, f, released)
  <2>1. /\ g \in SurfaceType /\ g.state = f.state /\ g.window = f.window
        /\ g.busy \subseteq f.busy
        /\ \A b \in server \cup (released \ released) :
             IF b[1] = s THEN b[2] \in g.busy ELSE b \in server \cup released
    BY <1>1, DispatchedIs
  <2>2. f.state # "made" => g.busy = {}
    BY <1>1, <2>1 DEF IInv, MadeWhileUsed
  <2>3. server \subseteq Surfaces \X Buffers
    BY DEF IInv, TypeOK
  <2>4. \A b \in server' \cup released' :
          IF b[1] = s THEN b[2] \in g.busy ELSE b \in server \cup released
    BY <1>1, <1>3, <2>1
  <2> HIDE DEF g, s
  <2> QED BY <1>1, <1>3, <2>1, <2>2, <2>3, <2>4, PickStep DEF g, s
<1> QED BY <1>2, <1>3 DEF Retry

LEMMA AttachStep ==
  ASSUME IInv, Attach
  PROVE  IInv'
<1> DEFINE s == swap.surface
           f == surface[s]
           buffer == swap.buffer
<1>1. /\ swap # None /\ s \in Surfaces /\ f \in SurfaceType /\ buffer \in Buffers
      /\ UNCHANGED <<display, linked, refs, bound, hgl, window, released>>
  BY DEF Attach, IInv, TypeOK, SwapType
<1>2. refs[s] > 0 /\ f.state = "made" /\ buffer \notin f.busy
  BY <1>1 DEF Attach, IInv, FrameFree, MadeWhileUsed
<1>3. CASE (swap' = None \/ swap' = swap) /\ UNCHANGED <<surface, server>>
  BY <1>1, <1>3, LeftStep
<1>4. ASSUME swap' = None, surface' = [surface EXCEPT ![s].busy = @ \cup {buffer}],
             server' = server \cup {<<s, buffer>>}
      PROVE  IInv'
  <2> DEFINE g == [f EXCEPT !.busy = f.busy \cup {buffer}]
  <2>1. /\ g \in SurfaceType /\ g.state = f.state /\ g.window = f.window
        /\ g.busy = f.busy \cup {buffer}
    BY <1>1 DEF SurfaceType
  <2>2. surface' = [surface EXCEPT ![s] = g]
    BY <1>1, <1>4 DEF SurfaceType, IInv, TypeOK
  <2>3. /\ server' \subseteq Surfaces \X Buffers /\ released' \subseteq Surfaces \X Buffers
    BY <1>1, <1>4 DEF IInv, TypeOK
  <2>4. <<s, buffer>> \notin released
    BY <1>2 DEF IInv, BusyKnown
  <2>5. server' \cap released' = {}
    BY <1>1, <1>4, <2>4 DEF IInv, BusyKnown
  <2>6. \A b \in server' \cup released' :
          IF b[1] = s THEN b[2] \in g.busy ELSE b \in server \cup released
    BY <1>1, <1>4, <2>1 DEF IInv, BusyKnown
  <2> HIDE DEF g, s, buffer
  <2> QED BY <1>1, <1>2, <1>4, <2>1, <2>2, <2>3, <2>5, <2>6, EndStep DEF g, s
<1> QED BY <1>3, <1>4 DEF Attach

-----------------------------------------------------------------------------
(***************************************************************************)
(* The theorems.                                                           *)
(***************************************************************************)
LEMMA StepIInv ==
  ASSUME IInv, [Next]_vars
  PROVE  IInv'
<1>1. ASSUME UNCHANGED vars PROVE IInv'
  <2>1. UNCHANGED <<linked, refs, bound>> /\ refs \in [Objects -> Int]
    BY <1>1 DEF vars, IInv, TypeOK
  <2>2. NothingFreedInUse'
    BY <2>1, UsesFrame DEF IInv
  <2>3. TypeOK' /\ BoundWhole' /\ MadeWhileUsed'
    BY <1>1 DEF vars, shm, IInv, TypeOK, BoundWhole, MadeWhileUsed
  <2>4. CallbacksPointToSurfaces' /\ BusyKnown' /\ FrameFree'
    BY <1>1 DEF vars, shm, IInv, CallbacksPointToSurfaces, BusyKnown, FrameFree
  <2> QED BY <2>2, <2>3, <2>4 DEF IInv
<1>2. ASSUME NEW c \in Contexts, CreateContext(c) PROVE IInv'
  BY <1>2, CreateContextStep
<1>3. ASSUME NEW s \in Surfaces, CreateSurface(s) \/ CreateWaylandSurface(s) PROVE IInv'
  BY <1>3, CreateSurfaceStep
<1>4. ASSUME NEW o \in Objects, Destroy(o) PROVE IInv'
  BY <1>4, DestroyStep
<1>5. ASSUME Terminate PROVE IInv'
  BY <1>5, TerminateStep
<1>6. ASSUME NEW t \in Threads, NEW b \in Bindings, MakeCurrent(t, b) PROVE IInv'
  BY <1>6, MakeCurrentStep
<1>7. ASSUME NEW t \in Threads, ReleaseAfterTerminate(t) PROVE IInv'
  BY <1>7, ReleaseStep
<1>8. ASSUME NEW t \in Threads, Render(t) PROVE IInv'
  BY <1>8, RenderStep
<1>9. ASSUME NEW t \in Threads, SwapWayland(t) PROVE IInv'
  BY <1>9, SwapWaylandStep
<1>10. ASSUME NEW t \in Threads, NEW n \in Sizes, SwapView(t, n) PROVE IInv'
  BY <1>10, SwapViewStep
<1>11. ASSUME Present \/ Retry \/ Attach PROVE IInv'
  BY <1>11, PresentStep, RetryStep, AttachStep
<1>12. ASSUME NEW n \in Sizes, Resize(n) PROVE IInv'
  BY <1>12, ResizeStep
<1>13. ASSUME DestroyWindow PROVE IInv'
  BY <1>13, DestroyWindowStep
<1>14. ASSUME NEW b \in server, Release(b) PROVE IInv'
  BY <1>14, ReleaseBufferStep
<1> QED
  BY <1>1, <1>2, <1>3, <1>4, <1>5, <1>6, <1>7, <1>8, <1>9, <1>10, <1>11, <1>12,
     <1>13, <1>14 DEF Next

\* The invariant from which the three theorems below follow, for any number of
\* threads, contexts, surfaces, sizes and shm buffers of egl_haiku.cpp.
THEOREM SurfacesInvariance == Spec => []IInv
<1>1. Init => IInv
  BY InitIInv
<1>2. IInv /\ [Next]_vars => IInv'
  BY StepIInv
<1> QED BY <1>1, <1>2, PTL DEF Spec

\* What has a handle or is bound keeps its references through every order of
\* eglMakeCurrent, also one that fails, eglDestroySurface, eglDestroyContext and
\* eglTerminate (haiku_make_current, haiku_terminate).
THEOREM NothingInUseIsFreed == Spec => []NothingFreedInUse
<1>1. IInv => NothingFreedInUse
  BY DEF IInv
<1> QED BY <1>1, SurfacesInvariance, PTL

\* wayland_window_resized and wayland_window_destroyed get a surface that exists,
\* whichever call gave up the last reference (haiku_destroy_surface).
THEOREM CallbacksAreSafe == Spec => []CallbacksPointToSurfaces
<1>1. IInv => CallbacksPointToSurfaces
  BY DEF IInv
<1> QED BY <1>1, SurfacesInvariance, PTL

\* present_wayland copies no frame into a buffer the compositor shows, for any
\* number of buffers and however late releases are dispatched.
THEOREM NoFrameIsOverwritten == Spec => []FrameNotOverwritten
<1>1. IInv => FrameNotOverwritten
  BY DEF IInv, FrameFree, BusyKnown, FrameNotOverwritten
<1> QED BY <1>1, SurfacesInvariance, PTL

-----------------------------------------------------------------------------
(***************************************************************************)
(* Clocks, for every list of clocks and every scale: a search ends with    *)
(* the best of what its generator can be set to and its registers describe *)
(* that, a link that is set up carries its mode, and the Tiger Lake PLL is *)
(* told its settings while it is stopped.                                  *)
(***************************************************************************)
(* The Tiger Lake PLL. *)

Programming == {"program", "wait_unlock", "wait_power", "wait_lock"}

\* The fields of the two configuration registers.
WholeField == {n \in Nat : n < 1024}
FractionField == {n \in Nat : n < 32768}

PllSettings == [whole : Nat, fraction : Nat, stages : Nat \X Nat \X Nat]
PllType == [on : BOOLEAN, locked : BOOLEAN, power : BOOLEAN, powered : BOOLEAN, set : PllSettings]
DpllType == [ref : {240, 192}, pll : PllType]

\* What is on answers, and what answers was told to.
PllInv ==
  /\ dpll \in DpllType
  /\ Pll.locked => Pll.powered
  /\ Pll.powered => Pll.power
  /\ Pll.locked /\ pc # "wait_unlock" => Pll.on
  /\ pc \in Programming => family = "tigerlake"
  /\ pc = "wait_unlock" => ~Pll.on
  /\ pc = "wait_power" => ~Pll.on /\ ~Pll.locked /\ Pll.power
  /\ pc = "wait_lock" => Pll.on

\* The best of the first n dividers.
TigerBest(n) ==
  /\ best # Nothing =>
       \E i \in 1 .. n : /\ best = [p |-> DividerList[i], dco |-> AfeClock(job.clock) * DividerList[i]]
                         /\ best.dco \in DcoMin .. DcoMax
  /\ \A i \in 1 .. n : AfeClock(job.clock) * DividerList[i] \in DcoMin .. DcoMax =>
       /\ best # Nothing
       /\ Abs(best.dco - DcoMid) <= Abs(AfeClock(job.clock) * DividerList[i] - DcoMid)

TigerInv ==
  family = "tigerlake" =>
    /\ pc # "ready" => job \in [clock : Clocks, hdmi : BOOLEAN]
    /\ pc = "search" =>
         /\ job.hdmi
         /\ \E k \in 1 .. Len(DividerList) : at = <<k>> /\ TigerBest(k - 1)
    /\ pc \in Programming => best # Nothing
    /\ pc \in Programming \cup {"done"} /\ best # Nothing =>
         IF job.hdmi THEN TigerBest(Len(DividerList)) ELSE best = [p |-> 6, dco |-> 8090]
    /\ pc = "wait_lock" => Pll.set = TglSettings(best, dpll.ref)
    /\ pc = "done" /\ best # Nothing => Pll.locked /\ Pll.set = TglSettings(best, dpll.ref)

\* A machine keeps its family, each search belongs to one, and only Tiger Lake has a PLL.
LEMMA StepsOf ==
  /\ AskPll \/ SearchPll => family \in PllFamilies
  /\ AskWrpll \/ SearchWrpll => family = "haswell"
  /\ AskSkylake \/ SearchSkylake => family = "skylake"
  /\ AskTigerLake \/ SearchTigerLake \/ ProgramPLL \/ PllAnswers => family = "tigerlake"
  /\ AskLink => family = "link"
<1>1. SearchWrpll => family = "haswell"
  BY Zenon DEF SearchWrpll
<1> QED BY <1>1 DEF AskPll, SearchPll, AskWrpll, AskSkylake, SearchSkylake, AskTigerLake,
           SearchTigerLake, ProgramPLL, PllAnswers, AskLink

LEMMA RegistersStay ==
  AskPll \/ SearchPll \/ AskWrpll \/ SearchWrpll \/ AskSkylake \/ SearchSkylake \/ AskLink
    => UNCHANGED <<family, dpll>>
<1>1. SearchWrpll => UNCHANGED <<family, dpll>>
  BY Zenon DEF SearchWrpll
<1> QED BY <1>1 DEF AskPll, SearchPll, AskWrpll, AskSkylake, SearchSkylake, AskLink

LEMMA FamilyStays ==
  ASSUME [ClocksNext]_clockVars
  PROVE  family' = family
<1>1. AskTigerLake \/ SearchTigerLake \/ ProgramPLL \/ Unlocked \/ Configure \/ Locked \/ PllAnswers
        => family' = family
  BY DEF AskTigerLake, SearchTigerLake, ProgramPLL, Unlocked, Configure, Locked, PllAnswers
<1> QED BY <1>1, RegistersStay DEF ClocksNext, clockVars

LEMMA DividersAre ==
  /\ Len(DividerList) = 46
  /\ \A i \in 1 .. 46 : DividerList[i] \in 2 .. 102
  /\ \A i \in 1 .. 46 : DividerList[i] \in {2, 3, 5, 7, 9, 15, 21} \/ DividerList[i] % 4 = 0
        \/ (DividerList[i] % 4 = 2 /\ (DividerList[i] % 6 = 0 \/ DividerList[i] % 10 = 0 \/ DividerList[i] % 14 = 0))
  /\ Range(DividerList) = {DividerList[i] : i \in 1 .. 46}
<1>1. Len(DividerList) = 46 /\ DOMAIN DividerList = 1 .. 46
  BY DEF DividerList
<1>2. \A i \in 1 .. 46 : DividerList[i] \in 2 .. 102
  BY DEF DividerList
<1>3. \A i \in 1 .. 46 : DividerList[i] \in {2, 3, 5, 7, 9, 15, 21} \/ DividerList[i] % 4 = 0
        \/ (DividerList[i] % 4 = 2 /\ (DividerList[i] % 6 = 0 \/ DividerList[i] % 10 = 0 \/ DividerList[i] % 14 = 0))
  BY DEF DividerList
<1>4. Range(DividerList) = {DividerList[i] : i \in 1 .. 46}
  BY <1>1 DEF Range
<1> QED BY <1>1, <1>2, <1>3, <1>4

\* The stages of a divider of the list multiply to it.
LEMMA TglStagesAre ==
  ASSUME NEW i \in 1 .. 46, NEW d, d = DividerList[i], NEW s, s = TglStages(d)
  PROVE  /\ s \in Nat \X Nat \X Nat
         /\ s[1] * s[2] * s[3] = d
         /\ s[1] \in {2, 3, 5, 7} /\ s[3] \in 1 .. 3 /\ (s[2] = 1 \/ s[3] = 2)
<1>1. d \in 2 .. 102
      /\ (d \in {2, 3, 5, 7, 9, 15, 21} \/ d % 4 = 0
          \/ (d % 4 = 2 /\ (d % 6 = 0 \/ d % 10 = 0 \/ d % 14 = 0)))
  BY DividersAre
<1>2. CASE d \in {2, 3, 5, 7, 9, 15, 21}
  BY <1>2 DEF TglStages
<1>3. CASE d % 4 = 0
  <2>1. s = <<2, d \div 4, 2>>
    BY <1>1, <1>3 DEF TglStages
  <2>2. d \div 4 \in Nat /\ 2 * (d \div 4) * 2 = d
    BY <1>1, <1>3
  <2> QED BY <2>1, <2>2
<1>4. CASE d % 4 = 2 /\ d # 2 /\ d % 6 = 0
  <2>1. s = <<3, d \div 6, 2>>
    BY <1>1, <1>4 DEF TglStages
  <2>2. d \div 6 \in Nat /\ 3 * (d \div 6) * 2 = d
    BY <1>1, <1>4
  <2> QED BY <2>1, <2>2
<1>5. CASE d % 4 = 2 /\ d # 2 /\ d % 6 # 0 /\ d % 10 = 0
  <2>1. s = <<5, d \div 10, 2>>
    BY <1>1, <1>5 DEF TglStages
  <2>2. d \div 10 \in Nat /\ 5 * (d \div 10) * 2 = d
    BY <1>1, <1>5
  <2> QED BY <2>1, <2>2
<1>6. CASE d % 4 = 2 /\ d # 2 /\ d % 6 # 0 /\ d % 10 # 0 /\ d % 14 = 0
  <2>1. s = <<7, d \div 14, 2>>
    BY <1>1, <1>6 DEF TglStages
  <2>2. d \div 14 \in Nat /\ 7 * (d \div 14) * 2 = d
    <3>1. d \in Nat /\ d % 14 = 0
      BY <1>1, <1>6
    <3> QED BY <3>1
  <2> QED BY <2>1, <2>2
<1> QED BY <1>1, <1>2, <1>3, <1>4, <1>5, <1>6

\* What is written of an oscillator frequency fits its fields.
WholeOf(dco, ref) == (dco * 10) \div ref
FractionOf(dco, ref) == ((((dco * 10) % ref) * 32768) + ref - 1) \div ref

LEMMA QuotientIs ==
  ASSUME NEW x \in Nat, NEW d \in Nat, d > 0
  PROVE  \E q \in Nat : q = x \div d /\ d * q <= x /\ x < d * q + d
OBVIOUS

LEMMA FieldsFit ==
  ASSUME NEW ref \in {240, 192}, NEW dco \in 0 .. DcoMax
  PROVE  WholeOf(dco, ref) \in WholeField /\ FractionOf(dco, ref) \in FractionField
<1>0. dco \in 0 .. 10000
  BY DEF DcoMax
<1>1. (dco * 10) \div ref \in WholeField
  BY <1>0 DEF WholeField
<1>2. PICK r : r = (dco * 10) % ref
  OBVIOUS
<1>3. r \in 0 .. ref - 1
  BY <1>0, <1>2
<1>4. PICK x \in Nat : x = (r * 32768) + ref - 1
  BY <1>3
<1>5. PICK f \in Nat : f = x \div ref /\ ref * f <= x
  BY <1>4, QuotientIs
<1>6. ref = 240 => f < 32768
  BY <1>3, <1>4, <1>5
<1>7. ref = 192 => f < 32768
  BY <1>3, <1>4, <1>5
<1>8. f < 32768
  <2>1. ref = 240 \/ ref = 192
    OBVIOUS
  <2> QED BY <2>1, <1>6, <1>7
<1>9. f \in FractionField
  <2>1. f \in Nat
    BY <1>5
  <2> QED BY <2>1, <1>8 DEF FractionField
<1>10. f = ((((dco * 10) % ref) * 32768) + ref - 1) \div ref
  BY <1>2, <1>4, <1>5
<1> QED BY <1>1, <1>9, <1>10 DEF WholeOf, FractionOf

LEMMA PllInit == ClocksInit => PllInv /\ TigerInv
<1> SUFFICES ASSUME ClocksInit
             PROVE  PllInv /\ TigerInv
  OBVIOUS
<1>1. PICK ref \in {240, 192} : \E pll \in Bios(ref) : dpll = [ref |-> ref, pll |-> pll]
  BY DEF ClocksInit
<1>2. PICK pll \in Bios(ref) : dpll = [ref |-> ref, pll |-> pll]
  BY <1>1
<1>3. pc = "ready"
  BY DEF ClocksInit
<1>4. /\ pll \in PllType
      /\ (pll.locked => pll.powered) /\ (pll.powered => pll.power) /\ (pll.locked => pll.on)
  <2>1. PICK whole \in Nat : whole = 80900 \div ref
    OBVIOUS
  <2>2. PICK fraction \in Nat : fraction = (((80900 % ref) * 32768) + ref - 1) \div ref
    <3>1. \A r \in {240, 192} : (((80900 % r) * 32768) + r - 1) \div r \in {2731, 11606}
      OBVIOUS
    <3>2. PICK y : y = (((80900 % ref) * 32768) + ref - 1) \div ref
      OBVIOUS
    <3>3. y \in {2731, 11606}
      BY <3>1, <3>2
    <3> QED BY <3>2, <3>3
  <2>3. PICK zero \in PllSettings : zero = [whole |-> 0, fraction |-> 0, stages |-> <<0, 0, 0>>]
    <3>1. <<0, 0, 0>> \in Nat \X Nat \X Nat
      OBVIOUS
    <3>2. [whole |-> 0, fraction |-> 0, stages |-> <<0, 0, 0>>] \in PllSettings
      BY <3>1 DEF PllSettings
    <3> QED BY <3>2
  <2>4. PICK set \in PllSettings :
          set = [whole |-> whole, fraction |-> fraction, stages |-> <<3, 1, 2>>]
    <3>1. <<3, 1, 2>> \in Nat \X Nat \X Nat
      OBVIOUS
    <3>2. [whole |-> whole, fraction |-> fraction, stages |-> <<3, 1, 2>>] \in PllSettings
      BY <3>1 DEF PllSettings
    <3> QED BY <3>2
  <2>5. \/ pll = [on |-> FALSE, locked |-> FALSE, power |-> FALSE, powered |-> FALSE, set |-> zero]
        \/ pll = [on |-> TRUE, locked |-> TRUE, power |-> TRUE, powered |-> TRUE, set |-> set]
    BY <2>1, <2>2, <2>3, <2>4 DEF Bios
  <2>6. CASE pll = [on |-> FALSE, locked |-> FALSE, power |-> FALSE, powered |-> FALSE, set |-> zero]
    BY <2>3, <2>6 DEF PllType
  <2>7. CASE pll = [on |-> TRUE, locked |-> TRUE, power |-> TRUE, powered |-> TRUE, set |-> set]
    BY <2>4, <2>7 DEF PllType
  <2> QED BY <2>5, <2>6, <2>7
<1>6. PllInv
  BY <1>2, <1>3, <1>4 DEF PllInv, DpllType, Pll, Programming
<1>7. TigerInv
  BY <1>3 DEF TigerInv, Programming
<1> QED BY <1>6, <1>7

\* What the PLL will be told.
LEMMA SettingsType ==
  ASSUME PllInv, TigerInv, pc \in Programming \cup {"done"}, family = "tigerlake", best # Nothing
  PROVE  /\ TglSettings(best, dpll.ref) \in PllSettings
         /\ TglSettings(best, dpll.ref).whole \in WholeField
         /\ TglSettings(best, dpll.ref).fraction \in FractionField
         /\ LET s == TglSettings(best, dpll.ref).stages
            IN  /\ s[1] * s[2] * s[3] = best.p
                /\ s[1] \in {2, 3, 5, 7} /\ s[3] \in 1 .. 3 /\ (s[2] = 1 \/ s[3] = 2)
<1>1. dpll.ref \in {240, 192}
  BY DEF PllInv, DpllType
<1>2. IF job.hdmi THEN TigerBest(Len(DividerList)) ELSE best = [p |-> 6, dco |-> 8090]
  BY DEF TigerInv
<1>3. PICK stages : stages = IF job.hdmi THEN TglStages(best.p) ELSE <<3, 1, 2>>
  OBVIOUS
<1>4. /\ best.dco \in 0 .. DcoMax
      /\ stages \in Nat \X Nat \X Nat
      /\ stages[1] * stages[2] * stages[3] = best.p
      /\ stages[1] \in {2, 3, 5, 7} /\ stages[3] \in 1 .. 3 /\ (stages[2] = 1 \/ stages[3] = 2)
  <2>1. CASE job.hdmi
    <3>1. Len(DividerList) = 46
      BY DividersAre
    <3>2. PICK i \in 1 .. 46 :
            /\ best = [p |-> DividerList[i], dco |-> AfeClock(job.clock) * DividerList[i]]
            /\ best.dco \in DcoMin .. DcoMax
      BY <1>2, <2>1, <3>1 DEF TigerBest
    <3>3. best.dco \in DcoMin .. DcoMax
      BY <3>2, Zenon
    <3>4. best.dco \in 0 .. DcoMax
      BY <3>3 DEF DcoMin, DcoMax
    <3>5. PICK d : d = best.p /\ d = DividerList[i]
      BY <3>2
    <3>6. stages = TglStages(d)
      BY <1>3, <2>1, <3>5
    <3>7. /\ stages \in Nat \X Nat \X Nat
          /\ stages[1] * stages[2] * stages[3] = d
          /\ stages[1] \in {2, 3, 5, 7} /\ stages[3] \in 1 .. 3 /\ (stages[2] = 1 \/ stages[3] = 2)
      BY <3>5, <3>6, TglStagesAre
    <3> QED BY <3>4, <3>5, <3>7, Zenon
  <2>2. CASE ~job.hdmi
    <3>1. best.p = 6 /\ best.dco = 8090
      BY <1>2, <2>2
    <3>2. stages = <<3, 1, 2>>
      BY <1>3, <2>2
    <3>3. stages[1] * stages[2] * stages[3] = best.p
      BY <3>1, <3>2
    <3> QED BY <3>1, <3>2, <3>3 DEF DcoMax
  <2> QED BY <2>1, <2>2, Zenon
<1>5. PICK ref \in {240, 192} : ref = dpll.ref
  BY <1>1, Zenon
<1>6. PICK dco \in 0 .. DcoMax : best.dco = dco
  BY <1>4, ZenonT(30)
<1>20. WholeOf(dco, ref) \in WholeField /\ FractionOf(dco, ref) \in FractionField
  BY FieldsFit
<1>21. PICK whole, fraction : whole = WholeOf(dco, ref) /\ fraction = FractionOf(dco, ref)
  OBVIOUS
<1>7. whole \in WholeField /\ fraction \in FractionField
      /\ whole = WholeOf(dco, ref) /\ fraction = FractionOf(dco, ref)
  BY <1>20, <1>21
<1>22. [whole |-> whole, fraction |-> fraction, stages |-> stages] \in PllSettings
  <2>1. WholeField \subseteq Nat /\ FractionField \subseteq Nat
    BY DEF WholeField, FractionField
  <2> QED BY <1>4, <1>7, <2>1 DEF PllSettings
<1>8. PICK settings \in PllSettings :
        settings = [whole |-> whole, fraction |-> fraction, stages |-> stages]
  BY <1>22
<1>9. settings \in PllSettings
  OBVIOUS
<1>10. settings = TglSettings(best, ref)
  BY <1>3, <1>6, <1>7, <1>8 DEF TglSettings, WholeOf, FractionOf
<1>11. settings.whole \in WholeField /\ settings.fraction \in FractionField
       /\ settings.stages = stages
  BY <1>7, <1>8
<1>12. settings = TglSettings(best, dpll.ref)
  BY <1>5, <1>10
<1> QED BY <1>4, <1>9, <1>11, <1>12, Zenon

LEMMA ConfigureType ==
  ASSUME PllInv, TigerInv, Configure
  PROVE  TglSettings(best, dpll.ref) \in PllSettings
<1>1. pc \in Programming
  BY DEF Programming, Configure
<1>2. family = "tigerlake"
  BY <1>1 DEF PllInv
<1>3. best # Nothing
  BY <1>1, <1>2 DEF TigerInv
<1> QED BY <1>1, <1>2, <1>3, SettingsType

LEMMA PllStep ==
  ASSUME PllInv, TigerInv, [ClocksNext]_clockVars
  PROVE  PllInv'
<1> DEFINE set0 == TglSettings(best, dpll.ref)
<1>8. Configure => set0 \in PllSettings
  BY ConfigureType
<1> HIDE DEF set0
<1> USE DEF PllInv, Programming
<1>1. CASE UNCHANGED clockVars
  BY <1>1 DEF clockVars, DpllType, Pll
<1>2. CASE AskPll \/ SearchPll \/ AskWrpll \/ SearchWrpll \/ AskSkylake \/ SearchSkylake \/ AskLink
  <2>1. UNCHANGED dpll
    BY <1>2, RegistersStay
  <2>2. pc \in {"ready", "search", "done"} /\ pc' \in {"search", "done"}
    <3>1. CASE AskPll \/ SearchPll
      BY <3>1 DEF AskPll, SearchPll
    <3>2. CASE AskWrpll \/ SearchWrpll
      <4>1. CASE AskWrpll
        BY <4>1 DEF AskWrpll
      <4>2. CASE SearchWrpll
        BY <4>2, Zenon DEF SearchWrpll
      <4> QED BY <3>2, <4>1, <4>2
    <3>3. CASE AskSkylake \/ SearchSkylake
      BY <3>3 DEF AskSkylake, SearchSkylake
    <3>4. CASE AskLink
      BY <3>4 DEF AskLink
    <3> QED BY <1>2, <3>1, <3>2, <3>3, <3>4
  <2> QED BY <2>1, <2>2 DEF DpllType, Pll
<1>3. CASE AskTigerLake \/ SearchTigerLake \/ Locked
  <2>1. UNCHANGED dpll /\ UNCHANGED family
    BY <1>3 DEF AskTigerLake, SearchTigerLake, Locked
  <2>2. pc # "wait_unlock" /\ pc' \in {"search", "done", "program"}
        /\ (pc' = "program" => family = "tigerlake")
    BY <1>3 DEF AskTigerLake, SearchTigerLake, Locked
  <2> QED BY <2>1, <2>2 DEF DpllType, Pll
<1>4. CASE ProgramPLL
  <2>1. UNCHANGED family
    BY <1>4 DEF ProgramPLL
  <2>2. CASE pc' = "done" /\ dpll' = [dpll EXCEPT !.pll = Pll]
    BY <1>4, <2>1, <2>2 DEF DpllType, Pll, ProgramPLL
  <2>3. CASE pc' = "wait_unlock" /\ dpll' = [dpll EXCEPT !.pll = [Pll EXCEPT !.on = FALSE]]
    <3> DEFINE q == [Pll EXCEPT !.on = FALSE]
    <3>1. q \in PllType
          /\ q.locked = Pll.locked /\ q.powered = Pll.powered /\ q.power = Pll.power /\ ~q.on
      BY DEF DpllType, PllType, Pll
    <3>2. dpll' = [dpll EXCEPT !.pll = q]
      BY <2>3
    <3> HIDE DEF q
    <3>3. dpll' \in DpllType /\ dpll'.pll = q
      BY <3>1, <3>2 DEF DpllType
    <3> QED BY <1>4, <2>1, <2>3, <3>1, <3>3 DEF Pll, ProgramPLL
  <2> QED BY <1>4, <2>2, <2>3 DEF ProgramPLL, WithPll
<1>5. CASE Unlocked
  <3> DEFINE q == [Pll EXCEPT !.power = TRUE]
  <3>1. q \in PllType
        /\ q.locked = Pll.locked /\ q.powered = Pll.powered /\ q.power /\ q.on = Pll.on
    BY DEF DpllType, PllType, Pll
  <3>2. dpll' = [dpll EXCEPT !.pll = q]
    BY <1>5 DEF Unlocked, WithPll
  <3> HIDE DEF q
  <3>3. dpll' \in DpllType /\ dpll'.pll = q
    BY <3>1, <3>2 DEF DpllType
  <3>4. pc = "wait_unlock" /\ ~Pll.locked /\ pc' = "wait_power" /\ family' = family
    BY <1>5 DEF Unlocked
  <3> QED BY <3>1, <3>3, <3>4 DEF Pll
<1>6. CASE Configure
  <3>0. pc = "wait_power" /\ pc' = "wait_lock" /\ family' = family /\ Pll.powered
    BY <1>6 DEF Configure
  <3>1. PICK set \in PllSettings : set = set0
    BY <1>6, <1>8
  <3> DEFINE q == [Pll EXCEPT !.set = set, !.on = TRUE]
  <3>2. q \in PllType
        /\ q.locked = Pll.locked /\ q.powered = Pll.powered /\ q.power = Pll.power /\ q.on
    BY DEF DpllType, PllType, Pll
  <3>3. dpll' = [dpll EXCEPT !.pll = q]
    BY <1>6, <3>1 DEF Configure, WithPll, set0
  <3> HIDE DEF q
  <3>4. dpll' \in DpllType /\ dpll'.pll = q
    BY <3>2, <3>3 DEF DpllType
  <3> QED BY <3>0, <3>2, <3>4 DEF Pll
<1>7. CASE PllAnswers
  <3>0. pc' = pc /\ family' = family
    BY <1>7 DEF PllAnswers
  <3>1. PICK locks \in BOOLEAN : locks = (Pll.on /\ Pll.powered)
    OBVIOUS
  <3> DEFINE q == [Pll EXCEPT !.locked = locks, !.powered = Pll.power]
  <3>2. q \in PllType
        /\ q.locked = locks /\ q.powered = Pll.power /\ q.power = Pll.power
        /\ q.on = Pll.on
    BY DEF DpllType, PllType, Pll
  <3>3. dpll' = [dpll EXCEPT !.pll = q]
    BY <1>7, <3>1 DEF PllAnswers, WithPll
  <3> HIDE DEF q
  <3>4. dpll' \in DpllType /\ dpll'.pll = q
    BY <3>2, <3>3 DEF DpllType
  <3> QED BY <3>0, <3>1, <3>2, <3>4 DEF Pll
<1> QED BY <1>1, <1>2, <1>3, <1>4, <1>5, <1>6, <1>7 DEF ClocksNext

LEMMA SettingsKept ==
  ASSUME UNCHANGED <<job, best>>, dpll'.ref = dpll.ref
  PROVE  TglSettings(best, dpll.ref)' = TglSettings(best, dpll.ref)
BY DEF TglSettings

LEMMA BestKept ==
  ASSUME NEW n, UNCHANGED <<job, best>>
  PROVE  TigerBest(n)' <=> TigerBest(n)
BY DEF TigerBest

\* One more divider.
LEMMA TigerSearchStep ==
  ASSUME NEW k \in 1 .. 46, job.clock \in Clocks, TigerBest(k - 1), SearchTigerLake, at = <<k>>
  PROVE  TigerBest(k)'
<1>1. PICK a \in Int : a = AfeClock(job.clock)
  <2>1. PICK hz \in 200 .. 5400 : hz = job.clock
    BY ClocksAssumption
  <2>2. AfeClock(hz) \in Int
    BY DEF AfeClock
  <2> QED BY <2>1, <2>2
<1>2. PICK d \in 2 .. 102 : d = DividerList[k]
  BY DividersAre
<1>3. PICK dco \in Int : dco = a * d
  OBVIOUS
<1>4. /\ job' = job
      /\ LET closer == /\ dco \in DcoMin .. DcoMax
                       /\ best = Nothing \/ Abs(dco - DcoMid) < Abs(best.dco - DcoMid)
         IN  best' = IF closer THEN [p |-> d, dco |-> dco] ELSE best
  BY <1>1, <1>2, <1>3 DEF SearchTigerLake
<1>5. PICK list : list = DividerList
  OBVIOUS
<1>6. \A i \in 1 .. k : list[i] \in Int
  BY <1>5, DividersAre
<1>7. PICK c : c = [i \in 1 .. k |-> a * list[i]]
  OBVIOUS
<1>8. \A i \in 1 .. k : c[i] = a * list[i] /\ c[i] \in Int
  BY <1>6, <1>7
<1>9. c[k] = dco
  BY <1>2, <1>3, <1>5, <1>8
<1>10. /\ best # Nothing =>
            \E i \in 1 .. k - 1 : best = [p |-> list[i], dco |-> c[i]] /\ best.dco \in DcoMin .. DcoMax
       /\ \A i \in 1 .. k - 1 : c[i] \in DcoMin .. DcoMax =>
            best # Nothing /\ Abs(best.dco - DcoMid) <= Abs(c[i] - DcoMid)
  <2>1. \A i \in 1 .. k - 1 : i \in 1 .. k
    OBVIOUS
  <2> QED BY <1>1, <1>5, <1>8, <2>1, Zenon DEF TigerBest
<1>11. DcoMin \in Int /\ DcoMax \in Int /\ DcoMid \in Int
  BY DEF DcoMin, DcoMax, DcoMid
<1>12. PICK new : new = [p |-> d, dco |-> dco]
  OBVIOUS
<1>13. new # Nothing /\ new.dco = dco
  <2>1. d # 0
    OBVIOUS
  <2> QED BY <1>12, <2>1 DEF Nothing
<1>14. /\ best' # Nothing =>
            \E i \in 1 .. k : best' = [p |-> list[i], dco |-> c[i]] /\ best'.dco \in DcoMin .. DcoMax
  <2>1. CASE best' = best
    <3>1. \A i \in 1 .. k - 1 : i \in 1 .. k
      OBVIOUS
    <3> QED BY <1>10, <2>1, <3>1, Zenon
  <2>2. CASE best' = new /\ dco \in DcoMin .. DcoMax
    <3>1. k \in 1 .. k /\ best' = [p |-> list[k], dco |-> c[k]]
      BY <1>2, <1>5, <1>9, <1>12, <2>2
    <3> QED BY <1>13, <2>2, <3>1
  <2> QED BY <1>4, <1>12, <2>1, <2>2
<1>15. ASSUME NEW i \in 1 .. k, c[i] \in DcoMin .. DcoMax
       PROVE  best' # Nothing /\ Abs(best'.dco - DcoMid) <= Abs(c[i] - DcoMid)
  <2>0. c[i] \in Int
    BY <1>8
  <2>1. best # Nothing => best.dco \in Int
    <3>1. \A j \in 1 .. k - 1 : j \in 1 .. k
      OBVIOUS
    <3> QED BY <1>8, <1>10, <3>1
  <2>2. CASE i = k
    <3>1. c[i] = dco
      BY <1>9, <2>2
    <3>2. CASE best = Nothing \/ Abs(dco - DcoMid) < Abs(best.dco - DcoMid)
      <4>1. best' = new
        BY <1>4, <1>12, <1>15, <3>1, <3>2, Zenon
      <4> QED BY <1>13, <3>1, <4>1, <1>11 DEF Abs
    <3>3. CASE best # Nothing /\ ~(Abs(dco - DcoMid) < Abs(best.dco - DcoMid))
      <4>1. best' = best
        BY <1>4, <3>3, Zenon
      <4> QED BY <2>1, <3>1, <3>3, <4>1, <1>11 DEF Abs
    <3> QED BY <3>2, <3>3
  <2>3. CASE i # k
    <3>1. i \in 1 .. k - 1
      BY <2>3
    <3>2. best # Nothing /\ Abs(best.dco - DcoMid) <= Abs(c[i] - DcoMid)
      BY <1>10, <1>15, <3>1, Zenon
    <3>3. CASE best' = best
      BY <3>2, <3>3
    <3>4. CASE best' = new /\ Abs(dco - DcoMid) < Abs(best.dco - DcoMid)
      BY <1>11, <1>13, <2>0, <2>1, <3>2, <3>4 DEF Abs
    <3> QED BY <1>4, <1>12, <3>2, <3>3, <3>4, Zenon
  <2> QED BY <2>2, <2>3
<1>16. \A i \in 1 .. k : c[i] = AfeClock(job'.clock) * DividerList[i] /\ list[i] = DividerList[i]
  BY <1>1, <1>4, <1>5, <1>8
<1> QED BY <1>14, <1>15, <1>16, Zenon DEF TigerBest

LEMMA TigerStep ==
  ASSUME PllInv, TigerInv, [ClocksNext]_clockVars
  PROVE  TigerInv'
<1> SUFFICES ASSUME family' = "tigerlake"
             PROVE  TigerInv'
  BY DEF TigerInv
<1>0. family = "tigerlake"
  BY FamilyStays
<1> USE DEF Programming
<1>1. CASE UNCHANGED clockVars
  <2>1. UNCHANGED <<family, pc, job, at, best, dpll>>
    BY <1>1 DEF clockVars
  <2> QED BY <2>1, BestKept, SettingsKept DEF TigerInv, Pll
<1>2. CASE AskTigerLake
  <2>1. /\ job' \in [clock : Clocks, hdmi : BOOLEAN] /\ at' = <<1>>
        /\ \/ job'.hdmi /\ best' = Nothing /\ pc' = "search"
           \/ ~job'.hdmi /\ best' = [p |-> 6, dco |-> 8090] /\ pc' = "program"
    BY <1>2 DEF AskTigerLake
  <2>2. best' = Nothing => TigerBest(1 - 1)'
    BY DEF TigerBest
  <2>3. [p |-> 6, dco |-> 8090] # Nothing
    BY DEF Nothing
  <2>4. 1 \in 1 .. Len(DividerList)
    BY DividersAre
  <2> QED BY <2>1, <2>2, <2>3, <2>4 DEF TigerInv
<1>3. CASE SearchTigerLake
  <2>1. PICK k \in 1 .. 46 : at = <<k>> /\ TigerBest(k - 1) /\ job.hdmi
    BY <1>0, <1>3, DividersAre DEF TigerInv, SearchTigerLake
  <2>2. job' = job /\ job \in [clock : Clocks, hdmi : BOOLEAN] /\ pc = "search"
    BY <1>0, <1>3 DEF TigerInv, SearchTigerLake
  <2>3. TigerBest(k)'
    BY <1>3, <2>1, <2>2, TigerSearchStep
  <2>4. /\ k < 46 => at' = <<k + 1>> /\ pc' = "search"
        /\ k = 46 => pc' = IF best' = Nothing THEN "done" ELSE "program"
    BY <1>3, <2>1, DividersAre DEF SearchTigerLake
  <2>5. CASE k < 46
    <3>1. k + 1 \in 1 .. Len(DividerList) /\ (k + 1) - 1 = k
      BY <2>5, DividersAre
    <3>2. TigerBest((k + 1) - 1)'
      BY <2>3, <3>1
    <3> QED BY <2>1, <2>2, <2>4, <2>5, <3>1, <3>2 DEF TigerInv
  <2>6. CASE k = 46
    <3>1. TigerBest(Len(DividerList))'
      BY <2>3, <2>6, DividersAre
    <3> QED BY <2>1, <2>2, <2>4, <2>6, <3>1 DEF TigerInv
  <2> QED BY <2>5, <2>6
<1>4. CASE ProgramPLL
  <2>1. UNCHANGED <<job, best>> /\ dpll'.ref = dpll.ref /\ pc = "program"
        /\ pc' \in {"done", "wait_unlock"}
        /\ (pc' = "done" => dpll'.pll = Pll /\ Pll.locked /\ Pll.set = TglSettings(best, dpll.ref))
    <3>1. dpll = [ref |-> dpll.ref, pll |-> Pll]
      BY DEF PllInv, DpllType, Pll
    <3> QED BY <1>4, <3>1 DEF ProgramPLL, WithPll
  <2> QED BY <1>0, <2>1, BestKept, SettingsKept DEF TigerInv, Pll
<1>5. CASE Unlocked
  <2>1. UNCHANGED <<job, best>> /\ pc = "wait_unlock" /\ pc' = "wait_power"
    BY <1>5 DEF Unlocked
  <2> QED BY <1>0, <2>1, BestKept DEF TigerInv
<1>6. CASE Configure
  <2>1. UNCHANGED <<job, best>> /\ pc = "wait_power" /\ pc' = "wait_lock"
    BY <1>6 DEF Configure
  <2>2. dpll'.ref = dpll.ref /\ dpll'.pll.set = TglSettings(best, dpll.ref)
    <3>1. dpll = [ref |-> dpll.ref, pll |-> Pll] /\ Pll \in PllType
      BY DEF PllInv, DpllType, Pll
    <3>2. PICK set : set = TglSettings(best, dpll.ref)
      OBVIOUS
    <3> DEFINE q == [Pll EXCEPT !.set = set, !.on = TRUE]
    <3>3. q.set = set
      BY <3>1 DEF PllType
    <3>4. dpll' = [dpll EXCEPT !.pll = q]
      BY <1>6, <3>2 DEF Configure, WithPll
    <3> HIDE DEF q
    <3> QED BY <3>1, <3>2, <3>3, <3>4
  <2> QED BY <1>0, <2>1, <2>2, BestKept, SettingsKept DEF TigerInv, Pll
<1>7. CASE Locked
  <2>1. UNCHANGED <<job, best, dpll>> /\ pc = "wait_lock" /\ pc' = "done" /\ Pll.locked
    BY <1>7 DEF Locked
  <2> QED BY <1>0, <2>1, BestKept, SettingsKept DEF TigerInv, Pll
<1>8. CASE PllAnswers
  <2>1. UNCHANGED <<job, best, pc, at>>
    BY <1>8 DEF PllAnswers
  <2>2. dpll'.ref = dpll.ref /\ dpll'.pll.set = Pll.set
        /\ (dpll'.pll.locked <=> Pll.on /\ Pll.powered)
    <3>1. dpll = [ref |-> dpll.ref, pll |-> Pll] /\ Pll \in PllType
      BY DEF PllInv, DpllType, Pll
    <3>2. PICK locks \in BOOLEAN : locks = (Pll.on /\ Pll.powered)
      OBVIOUS
    <3> DEFINE q == [Pll EXCEPT !.locked = locks, !.powered = Pll.power]
    <3>3. q.set = Pll.set /\ q.locked = locks
      BY <3>1 DEF PllType
    <3>4. dpll' = [dpll EXCEPT !.pll = q]
      BY <1>8, <3>2 DEF PllAnswers, WithPll
    <3> HIDE DEF q
    <3> QED BY <3>1, <3>2, <3>3, <3>4
  <2>3. pc = "done" /\ Pll.locked => Pll.on /\ Pll.powered
    BY DEF PllInv
  <2> QED BY <1>0, <2>1, <2>2, <2>3, BestKept, SettingsKept DEF TigerInv, Pll
<1>9. CASE AskPll \/ SearchPll \/ AskWrpll \/ SearchWrpll \/ AskSkylake \/ SearchSkylake \/ AskLink
  BY <1>0, <1>9, StepsOf DEF PllFamilies
<1> QED BY <1>1, <1>2, <1>3, <1>4, <1>5, <1>6, <1>7, <1>8, <1>9 DEF ClocksNext

LEMMA TigerAlways == ClocksSpec => [](PllInv /\ TigerInv)
<1>1. PllInv /\ TigerInv /\ [ClocksNext]_clockVars => (PllInv /\ TigerInv)'
  BY PllStep, TigerStep
<1> QED BY PllInit, <1>1, PTL DEF ClocksSpec

\* The two configuration registers of a Tiger Lake PLL are written only while it is off,
\* without its lock and with its power, for every list of modes and however the PLL's
\* answers fall (ProgramPLL, TigerLakePLL.cpp).
THEOREM SettingsChangeStopped == ClocksSpec => ChangedOnlyWhileStopped
<1>1. PllInv /\ [ClocksNext]_clockVars
        => [Pll'.set # Pll.set => ~Pll.locked /\ ~Pll.on /\ Pll.powered]_clockVars
  <2> SUFFICES ASSUME PllInv, [ClocksNext]_clockVars, Pll'.set # Pll.set
               PROVE  ~Pll.locked /\ ~Pll.on /\ Pll.powered
    OBVIOUS
  <2>1. dpll = [ref |-> dpll.ref, pll |-> Pll] /\ Pll \in PllType
    BY DEF PllInv, DpllType, Pll
  <2>2. dpll' # dpll
    BY DEF Pll
  <2>3. CASE Configure
    BY <2>3 DEF Configure, PllInv
  <2>4. ASSUME NEW q, q.set = Pll.set, dpll' = [dpll EXCEPT !.pll = q]
        PROVE  FALSE
    <3>1. dpll'.pll = q
      BY <2>1, <2>4
    <3> QED BY <2>4, <3>1 DEF Pll
  <2>5. CASE ProgramPLL
    <3>1. \/ dpll' = [dpll EXCEPT !.pll = Pll]
          \/ dpll' = [dpll EXCEPT !.pll = [Pll EXCEPT !.on = FALSE]]
      BY <2>5 DEF ProgramPLL, WithPll
    <3>2. [Pll EXCEPT !.on = FALSE].set = Pll.set
      BY <2>1 DEF PllType
    <3> QED BY <2>4, <3>1, <3>2
  <2>6. CASE Unlocked
    <3>1. dpll' = [dpll EXCEPT !.pll = [Pll EXCEPT !.power = TRUE]]
      BY <2>6 DEF Unlocked, WithPll
    <3>2. [Pll EXCEPT !.power = TRUE].set = Pll.set
      BY <2>1 DEF PllType
    <3> QED BY <2>4, <3>1, <3>2
  <2>7. CASE PllAnswers
    <3>1. PICK locks \in BOOLEAN : locks = (Pll.on /\ Pll.powered)
      OBVIOUS
    <3>2. dpll' = [dpll EXCEPT !.pll = [Pll EXCEPT !.locked = locks, !.powered = Pll.power]]
      BY <2>7, <3>1 DEF PllAnswers, WithPll
    <3>3. [Pll EXCEPT !.locked = locks, !.powered = Pll.power].set = Pll.set
      BY <2>1 DEF PllType
    <3> QED BY <2>4, <3>2, <3>3
  <2>8. Configure \/ ProgramPLL \/ Unlocked \/ PllAnswers
    BY <2>2, RegistersStay DEF ClocksNext, clockVars, AskTigerLake, SearchTigerLake, Locked
  <2> QED BY <2>3, <2>5, <2>6, <2>7, <2>8
<1>2. PllInv /\ TigerInv => PllInv
  OBVIOUS
<1> QED BY <1>1, TigerAlways, PTL DEF ClocksSpec, ChangedOnlyWhileStopped

\* A Tiger Lake PLL ends locked on the divider of the list that is nearest to the middle of
\* its range (ComputeHdmiDpll, ProgramPLL).
LEMMA TigerEnds == PllInv /\ TigerInv => TigerLakeRuns
<1> SUFFICES ASSUME PllInv, TigerInv, pc = "done", family = "tigerlake", best # Nothing
             PROVE  LET s == Pll.set.stages IN
                    /\ Pll.locked /\ Pll.set = TglSettings(best, dpll.ref)
                    /\ s[1] * s[2] * s[3] = best.p
                    /\ s[1] \in {2, 3, 5, 7} /\ s[3] \in 1 .. 3 /\ (s[2] = 1 \/ s[3] = 2)
                    /\ Pll.set.fraction < 32768 /\ Pll.set.whole < 1024
                    /\ job.hdmi => \A d \in Range(DividerList) :
                         AfeClock(job.clock) * d \in DcoMin .. DcoMax =>
                           Abs(best.dco - DcoMid) <= Abs(AfeClock(job.clock) * d - DcoMid)
  BY DEF TigerLakeRuns, Answered
<1>1. Pll.locked /\ Pll.set = TglSettings(best, dpll.ref)
  BY DEF TigerInv
<1>2. pc \in Programming \cup {"done"}
  OBVIOUS
<1>3. PICK set : set = TglSettings(best, dpll.ref)
  OBVIOUS
<1>4. /\ set.whole \in WholeField /\ set.fraction \in FractionField
      /\ LET s == set.stages
         IN  /\ s[1] * s[2] * s[3] = best.p
             /\ s[1] \in {2, 3, 5, 7} /\ s[3] \in 1 .. 3 /\ (s[2] = 1 \/ s[3] = 2)
  BY <1>2, <1>3, SettingsType
<1>5. set.fraction < 32768 /\ set.whole < 1024
  <2>1. PICK whole \in WholeField, fraction \in FractionField :
          whole = set.whole /\ fraction = set.fraction
    BY <1>4, Zenon
  <2>2. whole < 1024
    BY DEF WholeField
  <2>3. fraction < 32768
    BY DEF FractionField
  <2> QED BY <2>1, <2>2, <2>3
<1>6. ASSUME job.hdmi, NEW d \in Range(DividerList), AfeClock(job.clock) * d \in DcoMin .. DcoMax
      PROVE  Abs(best.dco - DcoMid) <= Abs(AfeClock(job.clock) * d - DcoMid)
  <2>1. PICK i \in 1 .. Len(DividerList) : d = DividerList[i]
    BY DividersAre
  <2>2. TigerBest(Len(DividerList))
    BY <1>2, <1>6 DEF TigerInv
  <2> QED BY <1>6, <2>1, <2>2, Zenon DEF TigerBest
<1>7. Pll.set = set
  BY <1>1, <1>3
<1> QED BY <1>1, <1>4, <1>5, <1>6, <1>7

-----------------------------------------------------------------------------
(* The ratio of a link. *)

LEMMA LinkNIs ==
  ASSUME NEW speed \in Nat
  PROVE  LinkN(speed) \in 1 .. NMax
<1> DEFINE T == {NMax} \union {2 ^ k : k \in {i \in 0 .. 14 : 2 ^ i >= speed}}
<1>1. NMax \in Nat \ {0}
  BY ClocksAssumption
<1>2. \A k \in 0 .. 14 : 2 ^ k \in Nat \ {0}
  <2> SUFFICES ASSUME NEW k \in 0 .. 14
               PROVE  2 ^ k \in Nat \ {0}
    OBVIOUS
  <2>1. k \in {0, 1, 2, 3, 4, 5, 6, 7, 8, 9, 10, 11, 12, 13, 14}
    OBVIOUS
  <2>2. /\ 2 ^ 0 \in Nat \ {0} /\ 2 ^ 1 \in Nat \ {0} /\ 2 ^ 2 \in Nat \ {0} /\ 2 ^ 3 \in Nat \ {0}
        /\ 2 ^ 4 \in Nat \ {0} /\ 2 ^ 5 \in Nat \ {0} /\ 2 ^ 6 \in Nat \ {0} /\ 2 ^ 7 \in Nat \ {0}
        /\ 2 ^ 8 \in Nat \ {0} /\ 2 ^ 9 \in Nat \ {0} /\ 2 ^ 10 \in Nat \ {0} /\ 2 ^ 11 \in Nat \ {0}
        /\ 2 ^ 12 \in Nat \ {0} /\ 2 ^ 13 \in Nat \ {0} /\ 2 ^ 14 \in Nat \ {0}
    OBVIOUS
  <2> QED BY <2>1, <2>2, Zenon
<1>3. T \in SUBSET Nat /\ T # {} /\ NMax \in T /\ \A x \in T : x # 0
  BY <1>1, <1>2
<1> HIDE DEF T
<1>4. Min(T) \in T /\ \A x \in T : Min(T) <= x
  BY <1>3, LeastIs
<1>5. Min(T) \in 1 .. NMax
  <2>1. PICK least \in Nat : least = Min(T)
    BY <1>3, <1>4
  <2> QED BY <1>1, <1>3, <1>4, <2>1
<1> QED BY <1>5, Zenon DEF LinkN, T

LEMMA ShiftedIs ==
  ASSUME NEW m \in Nat, NEW n \in 1 .. NMax, m <= n
  PROVE  Shifted(<<m, n>>) = <<m, n>>
<1> DEFINE P(i) == /\ m \div (2 ^ i) < 2 * NMax /\ n \div (2 ^ i) < 2 * NMax
                   /\ \A h \in 0 .. i - 1 : m \div (2 ^ h) >= 2 * NMax
           k == CHOOSE i \in 0 .. 16 : P(i)
<1>1. NMax \in Nat \ {0}
  BY ClocksAssumption
<1>2. 2 ^ 0 = 1 /\ m \div 1 = m /\ n \div 1 = n
  OBVIOUS
<1>3. P(0)
  BY <1>1, <1>2
<1>4. \A i \in 0 .. 16 : P(i) => i = 0
  <2> SUFFICES ASSUME NEW i \in 0 .. 16, P(i), i # 0
               PROVE  FALSE
    OBVIOUS
  <2>1. 0 \in 0 .. i - 1
    OBVIOUS
  <2>2. m \div (2 ^ 0) >= 2 * NMax
    BY <2>1
  <2> QED BY <1>1, <1>2, <2>2
<1>5. 0 \in 0 .. 16
  OBVIOUS
<1> HIDE DEF P
<1>6. k = 0
  BY <1>3, <1>4, <1>5, Zenon
<1>7. Shifted(<<m, n>>) = <<m \div (2 ^ k), n \div (2 ^ k)>>
  BY DEF Shifted, P
<1> HIDE DEF k
<1> QED BY <1>2, <1>6, <1>7

LanesNeeded(c, bits, w) == ((c * bits * 21) \div 20 + w * 8 - 1) \div (w * 8)

\* A mode that needs no more lanes than a link has fits the link.
LEMMA LinkFits ==
  ASSUME NEW c \in Nat, NEW bits \in Nat, NEW lanes \in 1 .. 4, NEW w \in {162, 270, 540},
         LanesNeeded(c, bits, w) <= lanes
  PROVE  c * bits <= lanes * w * 8
<1>1. PICK x \in Nat : x = c * bits
  OBVIOUS
<1>2. PICK rate \in Nat : rate = (x * 21) \div 20
  BY <1>1
<1>3. x <= rate
  BY <1>2
<1>4. PICK need : need = (rate + w * 8 - 1) \div (w * 8)
  OBVIOUS
<1>6. need <= lanes
  <2>1. LanesNeeded(c, bits, w) = need
    BY <1>1, <1>2, <1>4 DEF LanesNeeded
  <2> QED BY <2>1
<1>5. rate <= lanes * w * 8
  BY <1>4, <1>6
<1> QED BY <1>1, <1>3, <1>5

LEMMA LinkMIs ==
  ASSUME NEW c \in Nat, NEW bits \in Nat, NEW n \in Nat, NEW speed \in Nat \ {0},
         c * bits <= speed
  PROVE  LinkM(c, bits, n, speed) \in 0 .. n
<1>1. c * n * bits = (c * bits) * n
  OBVIOUS
<1>2. PICK a \in Nat : a = c * bits
  OBVIOUS
<1>3. (a * n) \div speed \in 0 .. n
  BY <1>2
<1> QED BY <1>1, <1>2, <1>3 DEF LinkM

LEMMA LinkStep ==
  ASSUME PllInv, [ClocksNext]_clockVars, LinkCarriesMode
  PROVE  LinkCarriesMode'
<1> SUFFICES ASSUME pc' = "done", family' = "link", best' # Nothing, job'.kind = "gen6"
             PROVE  best'.data[1] <= best'.data[2]
  BY DEF LinkCarriesMode, Answered
<1>1. CASE UNCHANGED clockVars
  BY <1>1 DEF clockVars, LinkCarriesMode, Answered
<1>2. CASE AskLink
  <2>1. PICK hz \in Clocks, bits \in ColourDepths, lanes \in 1 .. 8, w \in {162, 270, 540} :
          job' = [kind |-> "gen6", clock |-> hz \div 10, bits |-> bits, lanes |-> lanes,
                  bandwidth |-> w]
    BY <1>2 DEF AskLink
  <2>2. PICK c \in Nat : c = hz \div 10
    <3>1. hz \in 200 .. 5400
      BY ClocksAssumption
    <3> QED BY <3>1
  <2>3. best' = _SetPortLinkGen6(job')
    BY <1>2 DEF AskLink
  <2>4. bits # 0 /\ lanes <= 4 /\ RequiredLanes(job') <= lanes
        /\ best' = LinkPair(c, w, lanes, bits)
    <3>1. PICK j : j = job'
      OBVIOUS
    <3>2. j.clock = c /\ j.bits = bits /\ j.lanes = lanes /\ j.bandwidth = w
      BY <2>1, <2>2, <3>1
    <3>3. best' = IF bits = 0 \/ lanes > 4 \/ RequiredLanes(j) > lanes
                  THEN Nothing ELSE LinkPair(c, w, lanes, bits)
      BY <2>3, <3>1, <3>2 DEF _SetPortLinkGen6
    <3>4. ~(bits = 0 \/ lanes > 4 \/ RequiredLanes(j) > lanes)
          /\ best' = LinkPair(c, w, lanes, bits)
      BY <3>3, Zenon
    <3>5. RequiredLanes(j) \in Int
      <4>1. bits \in Nat
        BY DEF ColourDepths
      <4>2. PICK rate \in Nat : rate = (c * bits * 21) \div 20
        BY <4>1
      <4> QED BY <3>2, <4>2 DEF RequiredLanes
    <3>6. RequiredLanes(j) <= lanes
      BY <3>4, <3>5
    <3> QED BY <3>1, <3>4, <3>6
  <2>5. bits \in Nat /\ lanes \in 1 .. 4
    BY <2>4 DEF ColourDepths
  <2>6. c * bits <= lanes * w * 8
    <3>1. PICK j : j = job'
      OBVIOUS
    <3>2. j.clock = c /\ j.bits = bits /\ j.lanes = lanes /\ j.bandwidth = w
      BY <2>1, <2>2, <3>1
    <3>3. RequiredLanes(j) = LanesNeeded(c, bits, w)
      BY <3>2 DEF RequiredLanes, LanesNeeded
    <3>4. LanesNeeded(c, bits, w) <= lanes
      BY <2>4, <3>1, <3>3
    <3> QED BY <2>5, <3>4, LinkFits
  <2>7. PICK data \in Nat \ {0} : data = lanes * w * 8
    BY <2>5
  <2>8. PICK n \in 1 .. NMax : n = LinkN(data)
    BY LinkNIs
  <2>9. PICK m \in 0 .. n : m = LinkM(c, bits, n, data)
    <3>1. PICK e \in Nat, k \in Nat : e = bits /\ k = n
      BY <2>5, <2>8, ClocksAssumption
    <3>2. c * e <= data
      BY <2>6, <2>7, <3>1
    <3>3. LinkM(c, e, k, data) \in 0 .. k
      BY <3>2, LinkMIs
    <3> QED BY <3>1, <3>3
  <2>10. Shifted(<<m, n>>) = <<m, n>>
    BY ShiftedIs, ClocksAssumption
  <2>11. best'.data = Shifted(<<m, n>>)
    BY <2>4, <2>7, <2>8, <2>9 DEF LinkPair
  <2> QED BY <2>10, <2>11
<1>3. ~(AskPll \/ SearchPll \/ AskWrpll \/ SearchWrpll \/ AskSkylake \/ SearchSkylake)
  BY FamilyStays, StepsOf DEF PllFamilies
<1>4. ~(AskTigerLake \/ SearchTigerLake \/ ProgramPLL \/ Unlocked \/ Configure \/ Locked \/ PllAnswers)
  BY DEF AskTigerLake, SearchTigerLake, ProgramPLL, Unlocked, Configure, Locked, PllAnswers,
     PllInv, Programming
<1> QED BY <1>1, <1>2, <1>3, <1>4 DEF ClocksNext

\* A link of generation 6 that is set up carries its mode, for every cap on N and every
\* list of modes (DisplayPort::_SetPortLinkGen6).
THEOREM LinksCarry == ClocksSpec => []LinkCarriesMode
<1>1. ClocksInit => LinkCarriesMode
  BY DEF ClocksInit, LinkCarriesMode, Answered
<1>2. (PllInv /\ TigerInv) /\ LinkCarriesMode /\ [ClocksNext]_clockVars => LinkCarriesMode'
  BY LinkStep
<1> QED BY <1>1, <1>2, TigerAlways, PTL DEF ClocksSpec

-----------------------------------------------------------------------------
(* The Skylake search. *)

\* One of the dividers of a list with one of the central frequencies.
Grid(a) == (1 .. 3) \X (1 .. Len(Dividers[a]))
Tried(a, x) ==
  LET dco == Dividers[a][x[2]] * 5 * job.clock
      central == CentralFrequencies[x[1]]
  IN  [p |-> Dividers[a][x[2]], central |-> central, dco |-> dco,
       deviation |-> Deviation(dco, central)]
Permits(a, x) == Allowed(Dividers[a][x[2]] * 5 * job.clock, CentralFrequencies[x[1]])

\* The best of those that were seen.
SkylakeBest(a, seen) ==
  /\ best # Nothing => \E x \in seen : best = Tried(a, x) /\ Permits(a, x)
  /\ \A x \in seen : Permits(a, x) =>
       best # Nothing /\ best.deviation <= Tried(a, x).deviation
SeenBefore(a, c, k) == {x \in Grid(a) : x[1] < c \/ (x[1] = c /\ x[2] < k)}

SkylakeInv ==
  family = "skylake" =>
    /\ pc # "ready" => job \in [clock : Clocks, ref : {240, 192, 384}]
    /\ pc = "search" => \E a \in 1 .. 2, c \in 1 .. 3 : \E k \in 1 .. Len(Dividers[a]) :
         /\ at = <<a, c, k>> /\ SkylakeBest(a, SeenBefore(a, c, k))
         /\ a = 2 => \A x \in Grid(1) : ~Permits(1, x)
    /\ pc = "done" => \E a \in 1 .. 2 :
         /\ SkylakeBest(a, Grid(a))
         /\ a = 2 => \A x \in Grid(1) : ~Permits(1, x)
         /\ best = Nothing => a = 2

LEMMA SkylakeListsAre ==
  /\ Dividers[1] = EvenDividers /\ Dividers[2] = OddDividers
  /\ \A a \in 1 .. 2 : /\ Len(Dividers[a]) \in 1 .. 36 /\ 1 \in 1 .. Len(Dividers[a])
                       /\ \A i \in 1 .. Len(Dividers[a]) : Dividers[a][i] \in 3 .. 98
  /\ \A e \in 1 .. 3 : CentralFrequencies[e] \in Nat /\ CentralFrequencies[e] > 0
  /\ Range(EvenDividers) = {Dividers[1][i] : i \in 1 .. Len(Dividers[1])}
  /\ Range(OddDividers) = {Dividers[2][i] : i \in 1 .. Len(Dividers[2])}
  /\ Range(CentralFrequencies) = {CentralFrequencies[e] : e \in 1 .. 3}
<1>1. Dividers[1] = EvenDividers /\ Dividers[2] = OddDividers
  BY DEF Dividers
<1>2. Len(EvenDividers) = 36 /\ DOMAIN EvenDividers = 1 .. 36
  BY DEF EvenDividers
<1>3. Len(OddDividers) = 7 /\ DOMAIN OddDividers = 1 .. 7
  BY DEF OddDividers
<1>4. \A i \in 1 .. 36 : EvenDividers[i] \in 3 .. 98
  BY DEF EvenDividers
<1>5. \A i \in 1 .. 7 : OddDividers[i] \in 3 .. 98
  BY DEF OddDividers
<1>6. \A e \in 1 .. 3 : CentralFrequencies[e] \in Nat /\ CentralFrequencies[e] > 0
  BY DEF CentralFrequencies
<1>7. DOMAIN CentralFrequencies = 1 .. 3
  BY DEF CentralFrequencies
<1>8. \A a \in 1 .. 2 : /\ Len(Dividers[a]) \in 1 .. 36 /\ 1 \in 1 .. Len(Dividers[a])
                        /\ \A i \in 1 .. Len(Dividers[a]) : Dividers[a][i] \in 3 .. 98
  <2>1. /\ Len(Dividers[1]) \in 1 .. 36 /\ 1 \in 1 .. Len(Dividers[1])
        /\ \A i \in 1 .. Len(Dividers[1]) : Dividers[1][i] \in 3 .. 98
    BY <1>1, <1>2, <1>4
  <2>2. /\ Len(Dividers[2]) \in 1 .. 36 /\ 1 \in 1 .. Len(Dividers[2])
        /\ \A i \in 1 .. Len(Dividers[2]) : Dividers[2][i] \in 3 .. 98
    BY <1>1, <1>3, <1>5
  <2>3. \A a \in 1 .. 2 : a = 1 \/ a = 2
    OBVIOUS
  <2> QED BY <2>1, <2>2, <2>3, Zenon
<1>9. /\ Range(EvenDividers) = {Dividers[1][i] : i \in 1 .. Len(Dividers[1])}
      /\ Range(OddDividers) = {Dividers[2][i] : i \in 1 .. Len(Dividers[2])}
      /\ Range(CentralFrequencies) = {CentralFrequencies[e] : e \in 1 .. 3}
  BY <1>1, <1>2, <1>3, <1>7 DEF Range
<1> QED BY <1>1, <1>6, <1>8, <1>9

LEMMA DeviationIs ==
  ASSUME NEW dco \in Nat, NEW central \in Nat, central > 0
  PROVE  Deviation(dco, central) \in Nat
<1>1. PICK off \in Nat : off = Abs(dco - central)
  <2>1. Abs(dco - central) \in Nat
    BY DEF Abs
  <2> QED BY <2>1
<1>2. (10000 * off) \div central \in Nat
  OBVIOUS
<1> QED BY <1>1, <1>2 DEF Deviation

LEMMA TriedIs ==
  ASSUME NEW a \in 1 .. 2, NEW x \in Grid(a), job.clock \in Clocks
  PROVE  /\ Tried(a, x).deviation \in Nat
         /\ Tried(a, x) # Nothing
         /\ Tried(a, x).p = Dividers[a][x[2]]
         /\ Tried(a, x).central = CentralFrequencies[x[1]]
         /\ Tried(a, x).dco = Dividers[a][x[2]] * 5 * job.clock
         /\ Tried(a, x).dco \in Nat
         /\ Tried(a, x).deviation = Deviation(Dividers[a][x[2]] * 5 * job.clock, CentralFrequencies[x[1]])
<1>1. PICK hz \in Nat : hz = job.clock
  <2>1. PICK c \in 200 .. 5400 : c = job.clock
    BY ClocksAssumption
  <2>2. c \in Nat
    OBVIOUS
  <2> QED BY <2>1, <2>2
<1>2. PICK e \in 1 .. 3, i \in 1 .. Len(Dividers[a]) : x[1] = e /\ x[2] = i
  BY DEF Grid
<1>3. PICK d \in Nat : d = Dividers[a][i] /\ d > 0
  <2>1. Dividers[a][i] \in 3 .. 98
    BY SkylakeListsAre
  <2>2. \A y \in 3 .. 98 : y \in Nat /\ y > 0
    OBVIOUS
  <2> QED BY <2>1, <2>2, Zenon
<1>4. PICK central \in Nat : central = CentralFrequencies[e] /\ central > 0
  <2>1. CentralFrequencies[e] \in Nat /\ CentralFrequencies[e] > 0
    BY SkylakeListsAre
  <2> QED BY <2>1
<1>5. PICK dco \in Nat : dco = d * 5 * hz
  <2>1. PICK y \in Nat : y = d * 5
    OBVIOUS
  <2>2. y * hz \in Nat
    OBVIOUS
  <2> QED BY <2>1, <2>2
<1>6. Deviation(dco, central) \in Nat
  BY <1>4, DeviationIs
<1>7. Tried(a, x) = [p |-> d, central |-> central, dco |-> dco,
                     deviation |-> Deviation(dco, central)]
  BY <1>1, <1>2, <1>3, <1>4, <1>5 DEF Tried
<1>8. Tried(a, x) # Nothing
  BY <1>3, <1>7 DEF Nothing
<1> QED BY <1>1, <1>2, <1>3, <1>4, <1>5, <1>6, <1>7, <1>8

\* One more divider and central frequency.
LEMMA SkylakeTry ==
  ASSUME NEW a \in 1 .. 2, NEW seen \in SUBSET Grid(a), NEW x \in Grid(a), job.clock \in Clocks,
         SkylakeBest(a, seen), job' = job,
         best' = IF Permits(a, x) /\ (best = Nothing \/ Tried(a, x).deviation < best.deviation)
                 THEN Tried(a, x) ELSE best
  PROVE  SkylakeBest(a, seen \cup {x})'
<1>1. \A y \in Grid(a) : Tried(a, y)' = Tried(a, y) /\ (Permits(a, y)' <=> Permits(a, y))
  BY DEF Tried, Permits
<1>2. \A y \in Grid(a) : Tried(a, y).deviation \in Nat /\ Tried(a, y) # Nothing
  BY TriedIs
<1>3. /\ best # Nothing => \E y \in seen : best = Tried(a, y) /\ Permits(a, y)
      /\ \A y \in seen : Permits(a, y) =>
           best # Nothing /\ best.deviation <= Tried(a, y).deviation
  BY DEF SkylakeBest
<1>4. best # Nothing => best.deviation \in Nat
  BY <1>2, <1>3
<1>5. best' # Nothing => \E y \in seen \cup {x} : best' = Tried(a, y) /\ Permits(a, y)
  BY <1>3
<1>6. ASSUME NEW y \in seen \cup {x}, Permits(a, y)
      PROVE  best' # Nothing /\ best'.deviation <= Tried(a, y).deviation
  <2>1. CASE y \in seen
    <3>1. best # Nothing /\ best.deviation <= Tried(a, y).deviation
      BY <1>3, <1>6, <2>1
    <3>2. CASE best' = best
      BY <3>1, <3>2
    <3>3. CASE best' = Tried(a, x) /\ Tried(a, x).deviation < best.deviation
      <4>1. Tried(a, x).deviation \in Nat /\ Tried(a, y).deviation \in Nat /\ Tried(a, x) # Nothing
        BY <1>2, <2>1
      <4> QED BY <1>4, <3>1, <3>3, <4>1
    <3> QED BY <3>1, <3>2, <3>3
  <2>2. CASE y = x
    <3>1. Tried(a, x).deviation \in Nat /\ Tried(a, x) # Nothing
      BY <1>2
    <3>2. CASE best = Nothing \/ Tried(a, x).deviation < best.deviation
      <4>1. best' = Tried(a, x)
        BY <1>6, <2>2, <3>2
      <4> QED BY <2>2, <3>1, <4>1
    <3>3. CASE best # Nothing /\ ~(Tried(a, x).deviation < best.deviation)
      <4>1. best' = best
        BY <3>3
      <4> QED BY <1>4, <2>2, <3>1, <3>3, <4>1
    <3> QED BY <3>2, <3>3
  <2> QED BY <2>1, <2>2
<1> QED BY <1>1, <1>5, <1>6 DEF SkylakeBest

LEMMA SeenGrows ==
  ASSUME NEW a \in 1 .. 2, NEW c \in 1 .. 3, NEW k \in 1 .. Len(Dividers[a])
  PROVE  /\ <<c, k>> \in Grid(a) /\ SeenBefore(a, c, k) \in SUBSET Grid(a)
         /\ k < Len(Dividers[a]) => SeenBefore(a, c, k) \cup {<<c, k>>} = SeenBefore(a, c, k + 1)
         /\ k = Len(Dividers[a]) /\ c < 3 =>
              SeenBefore(a, c, k) \cup {<<c, k>>} = SeenBefore(a, c + 1, 1)
         /\ k = Len(Dividers[a]) /\ c = 3 => SeenBefore(a, c, k) \cup {<<c, k>>} = Grid(a)
<1>1. PICK n \in 1 .. 36 : n = Len(Dividers[a])
  BY SkylakeListsAre
<1>2. Grid(a) = (1 .. 3) \X (1 .. n)
  BY <1>1 DEF Grid
<1>3. \A x : x \in Grid(a) <=> \E i \in 1 .. 3, j \in 1 .. n : x = <<i, j>>
  BY <1>2
<1>4. \A i \in 1 .. 3, j \in 1 .. n : <<i, j>>[1] = i /\ <<i, j>>[2] = j
  OBVIOUS
<1>5. \A i \in 1 .. 3, j \in 1 .. n : (<<i, j>> = <<c, k>>) <=> (i = c /\ j = k)
  OBVIOUS
<1>6. \A d \in Int, m \in Int : \A i \in 1 .. 3, j \in 1 .. n :
         <<i, j>> \in SeenBefore(a, d, m) <=> i < d \/ (i = d /\ j < m)
  BY <1>3, <1>4 DEF SeenBefore
<1>7. \A d \in Int, m \in Int : SeenBefore(a, d, m) \in SUBSET Grid(a)
  BY DEF SeenBefore
<1>8. <<c, k>> \in Grid(a)
  BY <1>1, <1>3
<1>9. ASSUME NEW T \in SUBSET Grid(a),
             \A i \in 1 .. 3, j \in 1 .. n :
               <<i, j>> \in T <=> i < c \/ (i = c /\ j < k) \/ (i = c /\ j = k)
      PROVE  SeenBefore(a, c, k) \cup {<<c, k>>} = T
  <2>1. ASSUME NEW x \in Grid(a)
        PROVE  x \in SeenBefore(a, c, k) \cup {<<c, k>>} <=> x \in T
    <3>1. PICK i \in 1 .. 3, j \in 1 .. n : x = <<i, j>>
      BY <1>3
    <3> QED BY <1>5, <1>6, <1>9, <3>1
  <2> QED BY <1>7, <1>8, <2>1
<1>10. k < n => SeenBefore(a, c, k) \cup {<<c, k>>} = SeenBefore(a, c, k + 1)
  BY <1>6, <1>7, <1>9
<1>11. k = n /\ c < 3 => SeenBefore(a, c, k) \cup {<<c, k>>} = SeenBefore(a, c + 1, 1)
  BY <1>6, <1>7, <1>9
<1>12. k = n /\ c = 3 => SeenBefore(a, c, k) \cup {<<c, k>>} = Grid(a)
  BY <1>3, <1>9
<1> QED BY <1>1, <1>7, <1>8, <1>10, <1>11, <1>12

LEMMA SkylakeKept ==
  ASSUME UNCHANGED <<job, best>>, NEW a, NEW S
  PROVE  /\ SkylakeBest(a, S)' <=> SkylakeBest(a, S)
         /\ \A x : Permits(a, x)' <=> Permits(a, x)
BY DEF SkylakeBest, Tried, Permits

LEMMA SkylakeStep ==
  ASSUME PllInv, SkylakeInv, [ClocksNext]_clockVars
  PROVE  SkylakeInv'
<1> SUFFICES ASSUME family' = "skylake"
             PROVE  SkylakeInv'
  BY DEF SkylakeInv
<1>0. family = "skylake"
  BY FamilyStays
<1>1. CASE UNCHANGED clockVars
  <2>1. UNCHANGED <<family, pc, job, at, best>>
    BY <1>1 DEF clockVars
  <2> QED BY <2>1, SkylakeKept DEF SkylakeInv
<1>2. CASE AskSkylake
  <2>1. /\ job' \in [clock : Clocks, ref : {240, 192, 384}] /\ at' = <<1, 1, 1>>
        /\ best' = Nothing /\ pc' = "search"
    BY <1>2 DEF AskSkylake
  <2>2. SeenBefore(1, 1, 1) = {}
    BY DEF SeenBefore, Grid
  <2>3. SkylakeBest(1, SeenBefore(1, 1, 1))'
    <3>1. SeenBefore(1, 1, 1)' = {}
      BY <2>2 DEF SeenBefore, Grid
    <3> QED BY <2>1, <3>1 DEF SkylakeBest
  <2>4. 1 \in 1 .. 2 /\ 1 \in 1 .. 3 /\ 1 \in 1 .. Len(Dividers[1])
    <3>1. 1 \in 1 .. 2 /\ 1 \in 1 .. 3
      OBVIOUS
    <3> QED BY <3>1, SkylakeListsAre, Zenon
  <2> QED BY <2>1, <2>3, <2>4 DEF SkylakeInv
<1>3. CASE SearchSkylake
  <2>0. pc = "search" /\ job \in [clock : Clocks, ref : {240, 192, 384}] /\ job' = job
    BY <1>0, <1>3 DEF SearchSkylake, SkylakeInv
  <2>1. PICK a \in 1 .. 2, c \in 1 .. 3 : \E k \in 1 .. Len(Dividers[a]) :
          /\ at = <<a, c, k>> /\ SkylakeBest(a, SeenBefore(a, c, k))
          /\ a = 2 => \A x \in Grid(1) : ~Permits(1, x)
    BY <1>0, <2>0 DEF SkylakeInv
  <2>2. PICK k \in 1 .. Len(Dividers[a]) :
          /\ at = <<a, c, k>> /\ SkylakeBest(a, SeenBefore(a, c, k))
          /\ a = 2 => \A x \in Grid(1) : ~Permits(1, x)
    BY <2>1
  <2>3. PICK x \in Grid(a) : x = <<c, k>>
    BY SeenGrows
  <2>4. PICK n \in 1 .. 36 : n = Len(Dividers[a])
    BY SkylakeListsAre
  <2>5. at[1] = a /\ at[2] = c /\ at[3] = k /\ x[1] = c /\ x[2] = k
    BY <2>2, <2>3
  <2>6. PICK d : d = Dividers[a][k]
    OBVIOUS
  <2>7. PICK dco : dco = d * 5 * job.clock
    OBVIOUS
  <2>8. PICK central : central = CentralFrequencies[c]
    OBVIOUS
  <2>9. best' = skl_wrpll_try_divider(best, central, dco, d)
    BY <1>3, <2>5, <2>6, <2>7, <2>8 DEF SearchSkylake
  <2>10. Permits(a, x) <=> Allowed(dco, central)
    BY <2>5, <2>6, <2>7, <2>8 DEF Permits
  <2>11. Tried(a, x) = [p |-> d, central |-> central, dco |-> dco,
                        deviation |-> Deviation(dco, central)]
    BY <2>5, <2>6, <2>7, <2>8 DEF Tried
  <2>12. best' = IF Permits(a, x) /\ (best = Nothing \/ Tried(a, x).deviation < best.deviation)
                 THEN Tried(a, x) ELSE best
    BY <2>9, <2>10, <2>11 DEF skl_wrpll_try_divider
  <2>13. SkylakeBest(a, SeenBefore(a, c, k) \cup {x})'
    <3>1. SeenBefore(a, c, k) \in SUBSET Grid(a) /\ job.clock \in Clocks
      BY <2>0, SeenGrows
    <3> QED BY <2>0, <2>2, <2>12, <3>1, SkylakeTry
  <2>14. a = 2 => \A y \in Grid(1) : ~Permits(1, y)'
    BY <2>0, <2>2 DEF Permits
  <2> DEFINE last == c = 3 /\ k = n
             through == last \/ (best' # Nothing /\ best'.deviation = 0)
  <2>15. \/ /\ ~through
            /\ at' = IF k < n THEN <<a, c, k + 1>> ELSE <<a, c + 1, 1>>
            /\ pc' = "search"
         \/ through /\ a = 1 /\ best' = Nothing /\ at' = <<2, 1, 1>> /\ pc' = "search"
         \/ through /\ (a = 2 \/ best' # Nothing) /\ pc' = "done"
    BY <1>3, <2>0, <2>4, <2>5 DEF SearchSkylake
  <2>16. /\ k < n => SkylakeBest(a, SeenBefore(a, c, k + 1))'
         /\ k = n /\ c < 3 => SkylakeBest(a, SeenBefore(a, c + 1, 1))'
         /\ last => SkylakeBest(a, Grid(a))'
    BY <2>3, <2>4, <2>13, SeenGrows
  <2>17. CASE ~through /\ at' = (IF k < n THEN <<a, c, k + 1>> ELSE <<a, c + 1, 1>>)
              /\ pc' = "search"
    <3>1. CASE k < n
      <4>1. k + 1 \in 1 .. Len(Dividers[a]) /\ at' = <<a, c, k + 1>>
        BY <2>4, <2>17, <3>1
      <4> QED BY <2>0, <2>14, <2>16, <2>17, <3>1, <4>1 DEF SkylakeInv
    <3>2. CASE k = n /\ c < 3
      <4>1. 1 \in 1 .. Len(Dividers[a]) /\ at' = <<a, c + 1, 1>> /\ c + 1 \in 1 .. 3
        BY <2>4, <2>17, <3>2
      <4> QED BY <2>0, <2>14, <2>16, <2>17, <3>2, <4>1 DEF SkylakeInv
    <3> QED BY <2>4, <2>17, <3>1, <3>2
  <2>18. CASE through /\ a = 1 /\ best' = Nothing /\ at' = <<2, 1, 1>> /\ pc' = "search"
    <3>1. SkylakeBest(1, Grid(1))'
      BY <2>16, <2>18
    <3>2. \A y \in Grid(1) : ~Permits(1, y)'
      BY <2>18, <3>1 DEF SkylakeBest, Grid
    <3>3. SkylakeBest(2, SeenBefore(2, 1, 1))'
      <4>1. SeenBefore(2, 1, 1)' = {}
        BY DEF SeenBefore, Grid
      <4> QED BY <2>18, <4>1 DEF SkylakeBest
    <3>4. 2 \in 1 .. 2 /\ 1 \in 1 .. 3 /\ 1 \in 1 .. Len(Dividers[2])
      <4>1. 2 \in 1 .. 2 /\ 1 \in 1 .. 3
        OBVIOUS
      <4> QED BY <4>1, SkylakeListsAre, Zenon
    <3>5. \A y \in Grid(1)' : ~Permits(1, y)'
      BY <3>2 DEF Grid
    <3> QED BY <2>0, <2>18, <3>3, <3>4, <3>5 DEF SkylakeInv
  <2>19. CASE through /\ (a = 2 \/ best' # Nothing) /\ pc' = "done"
    <3>1. SkylakeBest(a, Grid(a))'
      <4>1. CASE last
        BY <2>16, <4>1
      <4>2. CASE best' # Nothing /\ best'.deviation = 0
        <5>1. \E y \in Grid(a) : best' = Tried(a, y)' /\ Permits(a, y)'
          <6>1. SeenBefore(a, c, k) \in SUBSET Grid(a)
            BY SeenGrows
          <6> QED BY <2>13, <4>2, <6>1 DEF SkylakeBest
        <5>2. \A y \in Grid(a) : Tried(a, y)'.deviation \in Nat
          <6>1. \A y \in Grid(a) : Tried(a, y)' = Tried(a, y)
            BY <2>0 DEF Tried
          <6>2. \A y \in Grid(a) : Tried(a, y).deviation \in Nat
            BY <2>0, TriedIs
          <6> QED BY <6>1, <6>2
        <5> QED BY <4>2, <5>1, <5>2 DEF SkylakeBest, Grid
      <4> QED BY <2>19, <4>1, <4>2
    <3>2. a = 2 => \A y \in Grid(1)' : ~Permits(1, y)'
      BY <2>14 DEF Grid
    <3> QED BY <2>0, <2>19, <3>1, <3>2 DEF SkylakeInv
  <2> QED BY <2>15, <2>17, <2>18, <2>19
<1>4. ~(AskPll \/ SearchPll \/ AskWrpll \/ SearchWrpll \/ AskLink)
  BY <1>0, StepsOf DEF PllFamilies
<1>5. ~(AskTigerLake \/ SearchTigerLake \/ ProgramPLL \/ Unlocked \/ Configure \/ Locked \/ PllAnswers)
  BY <1>0 DEF AskTigerLake, SearchTigerLake, ProgramPLL, Unlocked, Configure, Locked, PllAnswers,
     PllInv, Programming
<1> QED BY <1>1, <1>2, <1>3, <1>4, <1>5 DEF ClocksNext

LEMMA SkylakeInit == ClocksInit => SkylakeInv
BY DEF ClocksInit, SkylakeInv

\* The search of Skylake ends with the divider whose oscillator frequency deviates least
\* from one of the central frequencies, and takes an odd one only where no even one is
\* allowed (skl_ddi_calculate_wrpll), for every list of clocks.
LEMMA SkylakeEnds == PllInv /\ SkylakeInv => SkylakeNearest
<1> SUFFICES ASSUME SkylakeInv, pc = "done", family = "skylake"
             PROVE  LET Allows(list) == {x \in Range(list) \X Range(CentralFrequencies) :
                                           Allowed(x[1] * 5 * job.clock, x[2])}
                        from == IF Allows(EvenDividers) # {} THEN Allows(EvenDividers)
                                                            ELSE Allows(OddDividers)
                    IN  /\ best = Nothing <=> from = {}
                        /\ best # Nothing =>
                             /\ <<best.p, best.central>> \in from
                             /\ \A x \in from : best.deviation <= Deviation(x[1] * 5 * job.clock, x[2])
  BY DEF SkylakeNearest, Answered
<1> DEFINE Allows(list) == {x \in Range(list) \X Range(CentralFrequencies) :
                              Allowed(x[1] * 5 * job.clock, x[2])}
           from == IF Allows(EvenDividers) # {} THEN Allows(EvenDividers) ELSE Allows(OddDividers)
<1>1. PICK a \in 1 .. 2 :
        /\ SkylakeBest(a, Grid(a))
        /\ a = 2 => \A x \in Grid(1) : ~Permits(1, x)
        /\ best = Nothing => a = 2
  BY DEF SkylakeInv
<1>2. job.clock \in Clocks
  BY DEF SkylakeInv
<1>3. ASSUME NEW e \in 1 .. 2
      PROVE  /\ \A x \in Grid(e) : Permits(e, x) =>
                  <<Dividers[e][x[2]], CentralFrequencies[x[1]]>> \in Allows(Dividers[e])
             /\ \A y \in Allows(Dividers[e]) : \E x \in Grid(e) :
                  /\ Permits(e, x)
                  /\ y[1] = Dividers[e][x[2]] /\ y[2] = CentralFrequencies[x[1]]
  <2>1. Range(Dividers[e]) = {Dividers[e][i] : i \in 1 .. Len(Dividers[e])}
    <3>1. /\ Range(Dividers[1]) = {Dividers[1][i] : i \in 1 .. Len(Dividers[1])}
          /\ Range(Dividers[2]) = {Dividers[2][i] : i \in 1 .. Len(Dividers[2])}
      BY SkylakeListsAre
    <3>2. e = 1 \/ e = 2
      OBVIOUS
    <3> QED BY <3>1, <3>2, Zenon
  <2>2. Range(CentralFrequencies) = {CentralFrequencies[i] : i \in 1 .. 3}
    BY SkylakeListsAre
  <2>3. ASSUME NEW x \in Grid(e), Permits(e, x)
        PROVE  <<Dividers[e][x[2]], CentralFrequencies[x[1]]>> \in Allows(Dividers[e])
    <3>1. PICK c \in 1 .. 3, k \in 1 .. Len(Dividers[e]) : x[1] = c /\ x[2] = k
      BY DEF Grid
    <3>2. PICK d \in Range(Dividers[e]) : d = Dividers[e][k]
      BY <2>1
    <3>3. PICK f \in Range(CentralFrequencies) : f = CentralFrequencies[c]
      BY <2>2
    <3>4. Allowed(d * 5 * job.clock, f)
      BY <2>3, <3>1, <3>2, <3>3 DEF Permits
    <3>5. <<d, f>> \in Allows(Dividers[e])
      BY <3>4
    <3> QED BY <3>1, <3>2, <3>3, <3>5
  <2>4. ASSUME NEW y \in Allows(Dividers[e])
        PROVE  \E x \in Grid(e) : /\ Permits(e, x)
                                  /\ y[1] = Dividers[e][x[2]] /\ y[2] = CentralFrequencies[x[1]]
    <3>1. PICK d \in Range(Dividers[e]), f \in Range(CentralFrequencies) :
            y[1] = d /\ y[2] = f /\ Allowed(d * 5 * job.clock, f)
      OBVIOUS
    <3>2. PICK k \in 1 .. Len(Dividers[e]) : d = Dividers[e][k]
      BY <2>1
    <3>3. PICK c \in 1 .. 3 : f = CentralFrequencies[c]
      BY <2>2
    <3>4. PICK x \in Grid(e) : x[1] = c /\ x[2] = k
      <4>1. <<c, k>> \in Grid(e) /\ <<c, k>>[1] = c /\ <<c, k>>[2] = k
        BY DEF Grid
      <4> QED BY <4>1
    <3>5. Permits(e, x)
      BY <3>1, <3>2, <3>3, <3>4 DEF Permits
    <3> QED BY <3>1, <3>2, <3>3, <3>4, <3>5
  <2> QED BY <2>3, <2>4
<1>4. Dividers[1] = EvenDividers /\ Dividers[2] = OddDividers
  BY SkylakeListsAre
<1> HIDE DEF Allows
<1>5. from = Allows(Dividers[a])
  <2>1. CASE a = 1
    <3>1. PICK x \in Grid(1) : Permits(1, x)
      BY <1>1, <2>1 DEF SkylakeBest
    <3>2. 1 \in 1 .. 2
      OBVIOUS
    <3>3. Allows(Dividers[1]) # {}
      BY <1>3, <3>1, <3>2, Zenon
    <3> QED BY <1>4, <2>1, <3>3
  <2>2. CASE a = 2
    <3>1. Allows(Dividers[1]) = {}
      BY <1>1, <1>3, <2>2
    <3> QED BY <1>4, <2>2, <3>1
  <2> QED BY <2>1, <2>2
<1> HIDE DEF from
<1>6. best # Nothing => \E x \in Grid(a) : best = Tried(a, x) /\ Permits(a, x)
  BY <1>1 DEF SkylakeBest
<1>7. \A x \in Grid(a) : Permits(a, x) =>
        best # Nothing /\ best.deviation <= Tried(a, x).deviation
  BY <1>1 DEF SkylakeBest
<1>8. best = Nothing <=> from = {}
  BY <1>3, <1>5, <1>6, <1>7
<1>9. ASSUME best # Nothing
      PROVE  <<best.p, best.central>> \in from
  <2>1. PICK x \in Grid(a) : best = Tried(a, x) /\ Permits(a, x)
    BY <1>6, <1>9
  <2>2. best.p = Dividers[a][x[2]] /\ best.central = CentralFrequencies[x[1]]
    BY <1>2, <2>1, TriedIs
  <2> QED BY <1>3, <1>5, <2>1, <2>2
<1>10. ASSUME best # Nothing, NEW y \in from
       PROVE  best.deviation <= Deviation(y[1] * 5 * job.clock, y[2])
  <2>1. PICK x \in Grid(a) : Permits(a, x) /\ y[1] = Dividers[a][x[2]]
                             /\ y[2] = CentralFrequencies[x[1]]
    BY <1>3, <1>5, <1>10
  <2>2. Tried(a, x).deviation
          = Deviation(Dividers[a][x[2]] * 5 * job.clock, CentralFrequencies[x[1]])
    BY <1>2, TriedIs
  <2> QED BY <1>7, <2>1, <2>2
<1> QED BY <1>8, <1>9, <1>10 DEF from, Allows

\* The stages of a divider of either list but five multiply to it and have codes.
StagesFit(d) ==
  LET s == skl_wrpll_get_multipliers(d)
  IN  /\ s[1] * s[2] * s[3] = d
      /\ s[1] \in {1, 2, 3, 7} /\ s[3] \in {1, 2, 3, 5} /\ s[2] \in 1 .. 49

LEMMA EvenStages ==
  ASSUME NEW h \in 2 .. 49, h \in {2, 3, 5} \/ h % 2 = 0 \/ h % 3 = 0 \/ h % 7 = 0,
         NEW d \in 4 .. 98, d = 2 * h
  PROVE  StagesFit(d)
<1>1. d % 2 = 0 /\ d \div 2 = h
  OBVIOUS
<1>2. PICK s : s = skl_wrpll_get_multipliers(d)
  OBVIOUS
<1>3. s = CASE h \in {1, 2, 3, 5} -> <<2, 1, h>>
         [] h \notin {1, 2, 3, 5} /\ h % 2 = 0 -> <<2, h \div 2, 2>>
         [] h \notin {1, 2, 3, 5} /\ h % 2 # 0 /\ h % 3 = 0 -> <<3, h \div 3, 2>>
         [] h \notin {1, 2, 3, 5} /\ h % 2 # 0 /\ h % 3 # 0 -> <<7, h \div 7, 2>>
  BY <1>1, <1>2 DEF skl_wrpll_get_multipliers
<1>4. CASE h \in {2, 3, 5}
  <2>1. s = <<2, 1, h>>
    BY <1>3, <1>4
  <2> QED BY <1>2, <1>4, <2>1 DEF StagesFit
<1>5. CASE h \notin {2, 3, 5} /\ h % 2 = 0
  <2>1. s = <<2, h \div 2, 2>>
    BY <1>3, <1>5
  <2>2. PICK q \in 1 .. 49 : q = h \div 2 /\ 2 * q * 2 = d
    BY <1>5
  <2> QED BY <1>2, <2>1, <2>2 DEF StagesFit
<1>6. CASE h \notin {2, 3, 5} /\ h % 2 # 0 /\ h % 3 = 0
  <2>1. s = <<3, h \div 3, 2>>
    BY <1>3, <1>6
  <2>2. PICK q \in 1 .. 49 : q = h \div 3 /\ 3 * q * 2 = d
    BY <1>6
  <2> QED BY <1>2, <2>1, <2>2 DEF StagesFit
<1>7. CASE h \notin {2, 3, 5} /\ h % 2 # 0 /\ h % 3 # 0
  <2>1. s = <<7, h \div 7, 2>>
    BY <1>3, <1>7
  <2>2. PICK q \in 1 .. 49 : q = h \div 7 /\ 7 * q * 2 = d
    BY <1>7
  <2> QED BY <1>2, <2>1, <2>2 DEF StagesFit
<1> QED BY <1>4, <1>5, <1>6, <1>7

LEMMA OddStages ==
  ASSUME NEW d \in {3, 7, 9, 15, 21, 35}
  PROVE  StagesFit(d)
<1>1. d % 2 # 0
  OBVIOUS
<1>2. CASE d \in {3, 9}
  <2>1. skl_wrpll_get_multipliers(d) = <<3, 1, d \div 3>>
    BY <1>1, <1>2 DEF skl_wrpll_get_multipliers
  <2> QED BY <1>2, <2>1 DEF StagesFit
<1>3. CASE d = 7
  <2>1. skl_wrpll_get_multipliers(d) = <<7, 1, 1>>
    BY <1>1, <1>3 DEF skl_wrpll_get_multipliers
  <2> QED BY <1>3, <2>1 DEF StagesFit
<1>4. CASE d = 15
  <2>1. skl_wrpll_get_multipliers(d) = <<3, 1, 5>>
    BY <1>1, <1>4 DEF skl_wrpll_get_multipliers
  <2> QED BY <1>4, <2>1 DEF StagesFit
<1>5. CASE d = 21
  <2>1. skl_wrpll_get_multipliers(d) = <<7, 1, 3>>
    BY <1>1, <1>5 DEF skl_wrpll_get_multipliers
  <2> QED BY <1>5, <2>1 DEF StagesFit
<1>6. CASE d = 35
  <2>1. skl_wrpll_get_multipliers(d) = <<7, 1, 5>>
    BY <1>1, <1>6 DEF skl_wrpll_get_multipliers
  <2> QED BY <1>6, <2>1 DEF StagesFit
<1> QED BY <1>2, <1>3, <1>4, <1>5, <1>6

EvenDivider(d) ==
  d % 2 = 0 /\ (d \in {4, 6, 10} \/ d % 4 = 0 \/ d % 6 = 0 \/ d % 14 = 0)

LEMMA EvenDividersAre ==
  \A k \in 1 .. 36 : EvenDividers[k] \in 4 .. 98 /\ EvenDivider(EvenDividers[k])
<1>1. \A k \in 1 .. 36 : EvenDividers[k] \in 4 .. 98
  BY DEF EvenDividers
<1>2. \A k \in 1 .. 36 : EvenDividers[k] % 2 = 0
  BY DEF EvenDividers
<1>3. \A k \in 1 .. 36 : \/ EvenDividers[k] \in {4, 6, 10} \/ EvenDividers[k] % 4 = 0
                         \/ EvenDividers[k] % 6 = 0 \/ EvenDividers[k] % 14 = 0
  BY DEF EvenDividers
<1> QED BY <1>1, <1>2, <1>3 DEF EvenDivider

LEMMA ListedStages ==
  ASSUME NEW a \in 1 .. 2, NEW i \in 1 .. Len(Dividers[a]), Dividers[a][i] # 5
  PROVE  StagesFit(Dividers[a][i])
<1>1. CASE a = 1
  <2>1. Dividers[1] = EvenDividers /\ Len(EvenDividers) = 36
    BY DEF Dividers, EvenDividers
  <2>2. \A k \in 1 .. 36 : EvenDividers[k] \in 4 .. 98 /\ EvenDivider(EvenDividers[k])
    BY EvenDividersAre
  <2>3. PICK d \in 4 .. 98 :
          /\ d = Dividers[a][i] /\ d % 2 = 0
          /\ d \in {4, 6, 10} \/ d % 4 = 0 \/ d % 6 = 0 \/ d % 14 = 0
    BY <1>1, <2>1, <2>2 DEF EvenDivider
  <2>4. PICK h \in 2 .. 49 :
          /\ d = 2 * h
          /\ h \in {2, 3, 5} \/ h % 2 = 0 \/ h % 3 = 0 \/ h % 7 = 0
    <3>0. d % 2 = 0
      BY <2>3, Zenon
    <3>1. d \div 2 \in 2 .. 49 /\ d = 2 * (d \div 2)
      BY <3>0
    <3>2. PICK h \in 2 .. 49 : d = 2 * h
      BY <3>1
    <3>3. h \in {2, 3, 5} \/ h % 2 = 0 \/ h % 3 = 0 \/ h % 7 = 0
      BY <2>3, <3>2
    <3> QED BY <3>2, <3>3
  <2>5. StagesFit(d)
    BY <2>4, EvenStages, Zenon
  <2>6. d = Dividers[a][i]
    BY <2>3, Zenon
  <2> QED BY <2>5, <2>6, Zenon
<1>2. CASE a = 2
  <2>1. Dividers[2] = OddDividers /\ Len(OddDividers) = 7
    BY DEF Dividers, OddDividers
  <2>2. \A k \in 1 .. 7 : OddDividers[k] \in {3, 5, 7, 9, 15, 21, 35}
    BY DEF OddDividers
  <2>3. Dividers[a][i] \in {3, 7, 9, 15, 21, 35}
    BY <1>2, <2>1, <2>2
  <2> QED BY <2>3, OddStages
<1> QED BY <1>1, <1>2

\* The frequency a register pair describes is within a unit of the one it was made of.
Binary(x) == (x * 512) \div 15625
Millionths(dco, whole) ==
  (dco \div 24) * 100000 + ((dco % 24) * 100000) \div 24 - whole * 1000000
DcoFraction(dco) == Binary(Millionths(dco, dco \div 240))

FrequencyIs(whole, fraction, ref, dco) ==
  fraction \in Nat /\ fraction < 32768 /\ Abs(whole * ref + (fraction * ref) \div 32768 - dco) <= 1
DcoIs(whole, fraction, dco) == FrequencyIs(whole, fraction, 240, dco)

LEMMA DcoDescribed ==
  ASSUME NEW dco \in Nat
  PROVE  DcoIs(dco \div 240, DcoFraction(dco), dco)
<1>1. PICK whole \in Nat, r \in 0 .. 239 : dco = 240 * whole + r /\ whole = dco \div 240
  <2>1. dco \div 240 \in Nat /\ dco - 240 * (dco \div 240) \in 0 .. 239
    OBVIOUS
  <2>2. dco = 240 * (dco \div 240) + (dco - 240 * (dco \div 240))
    OBVIOUS
  <2> QED BY <2>1, <2>2
<1>2. PICK t \in Nat : /\ Millionths(dco, whole) = t /\ t < 1000000
                      /\ 24 * t <= 100000 * r /\ 100000 * r <= 24 * t + 23
  <2>1. PICK a \in 0 .. 9, b \in 0 .. 23 : r = 24 * a + b
    <3>1. PICK a \in Nat : 24 * a <= r /\ r < 24 * a + 24
      BY QuotientIs
    <3>2. PICK b \in Int : b = r - 24 * a
      OBVIOUS
    <3>3. a \in 0 .. 9 /\ b \in 0 .. 23 /\ r = 24 * a + b
      BY <3>1, <3>2
    <3> QED BY <3>3
  <2>2. dco \div 24 = 10 * whole + a /\ dco % 24 = b
    BY <1>1, <2>1
  <2>3. PICK c \in Nat : c = (b * 100000) \div 24 /\ 24 * c <= 100000 * b /\ 100000 * b <= 24 * c + 23
    OBVIOUS
  <2>4. Millionths(dco, whole) = (10 * whole + a) * 100000 + c - whole * 1000000
    BY <2>2, <2>3 DEF Millionths
  <2>5. PICK t \in Nat : t = 100000 * a + c
    OBVIOUS
  <2>6. Millionths(dco, whole) = t
    BY <2>4, <2>5
  <2>7. t < 1000000 /\ 24 * t <= 100000 * r /\ 100000 * r <= 24 * t + 23
    BY <2>1, <2>3, <2>5
  <2> QED BY <2>6, <2>7
<1>3. PICK f : f = (t * 512) \div 15625
  OBVIOUS
<1>11. /\ f \in Nat /\ 15625 * f <= t * 512 /\ t * 512 < 15625 * f + 15625
  <2>1. PICK y \in Nat : y = t * 512
    OBVIOUS
  <2>2. f = y \div 15625
    BY <1>3, <2>1
  <2>3. y \div 15625 \in Nat /\ 15625 * (y \div 15625) <= y /\ y < 15625 * (y \div 15625) + 15625
    OBVIOUS
  <2> QED BY <2>1, <2>2, <2>3
<1>12. f \in Nat /\ f < 32768
  BY <1>2, <1>11
<1>4. DcoFraction(dco) = f
  BY <1>1, <1>2, <1>3 DEF DcoFraction, Binary
<1>5. PICK g \in Nat : g = (f * 240) \div 32768
  BY <1>12
<1>7. 32768 * g <= f * 240 /\ f * 240 < 32768 * g + 32768
  BY <1>5, <1>12
<1>8. g <= r /\ r <= g + 1
  BY <1>2, <1>7, <1>11, <1>12
<1>9. Abs(whole * 240 + g - dco) <= 1
  BY <1>1, <1>8 DEF Abs
<1>10. DcoIs(whole, f, dco)
  BY <1>5, <1>9, <1>12 DEF DcoIs, FrequencyIs
<1> QED BY <1>1, <1>4, <1>10

\* The fields, the stages, the reference and the oscillator's frequency agree.
SkylakeAgrees(f, st, ref, b) ==
  /\ f.pdiv # Garbage /\ f.kdiv # Garbage /\ f.qdiv < 256
  /\ st[1] * st[2] * st[3] = b.p
  /\ FrequencyIs(f.dco_integer, f.dco_fraction, ref, b.dco)

\* What the Skylake registers are told multiplies to the divider that was found and to its
\* oscillator frequency (skl_wrpll_params_populate).
LEMMA SkylakeTold == PllInv /\ SkylakeInv => SkylakeProgrammed
<1> SUFFICES ASSUME SkylakeInv, pc = "done", family = "skylake", best # Nothing, best.p # 5,
                    job.ref = 240
             PROVE  SkylakeFields(job, best)
  BY DEF SkylakeProgrammed, Answered
<1>1. PICK a \in 1 .. 2 : SkylakeBest(a, Grid(a))
  BY DEF SkylakeInv
<1>2. PICK x \in Grid(a) : best = Tried(a, x)
  BY <1>1 DEF SkylakeBest
<1>3. job.clock \in Clocks
  BY DEF SkylakeInv
<1>4. PICK k \in 1 .. Len(Dividers[a]) : x[2] = k
  BY DEF Grid
<1>5. PICK d : d = Dividers[a][k] /\ d = best.p
  BY <1>2, <1>3, <1>4, TriedIs
<1>6. PICK dco \in Nat : dco = best.dco /\ dco = d * 5 * job.clock
  BY <1>2, <1>3, <1>4, <1>5, TriedIs
<1>7. PICK s : s = skl_wrpll_get_multipliers(best.p)
  OBVIOUS
<1>8. /\ s[1] * s[2] * s[3] = d
      /\ s[1] \in {1, 2, 3, 7} /\ s[3] \in {1, 2, 3, 5} /\ s[2] \in 1 .. 49
  <2>1. Dividers[a][k] # 5
    BY <1>5
  <2>2. StagesFit(Dividers[a][k])
    BY <2>1, ListedStages
  <2>3. StagesFit(best.p)
    BY <1>5, <2>2, Zenon
  <2> QED BY <1>5, <1>7, <2>3 DEF StagesFit
<1>9. s[1] * s[2] * s[3] * 5 * job.clock = dco
  BY <1>6, <1>8, Zenon
<1>10. PICK codes : codes = [k_1 \in {1, 2, 3, 7} |-> CASE k_1 = 1 -> 0 [] k_1 = 2 -> 1
                                            [] k_1 = 3 -> 2 [] k_1 = 7 -> 4]
  OBVIOUS
<1>11. PICK ratios : ratios = [k_1 \in {1, 2, 3, 5} |-> CASE k_1 = 5 -> 0 [] k_1 = 2 -> 1
                                            [] k_1 = 3 -> 2 [] k_1 = 1 -> 3]
  OBVIOUS
<1>12. s[1] \in DOMAIN codes /\ codes[s[1]] \in {0, 1, 2, 4}
  BY <1>8, <1>10
<1>13. s[3] \in DOMAIN ratios /\ ratios[s[3]] \in {0, 1, 2, 3}
  BY <1>8, <1>11
<1>14. PICK whole : whole = dco \div 240
  OBVIOUS
<1>15. PICK fraction : fraction = Binary(Millionths(dco, whole))
  OBVIOUS
<1>16. fraction = DcoFraction(dco)
  BY <1>14, <1>15, Zenon DEF DcoFraction
<1>17. 240 \div 10 = 24
  OBVIOUS
<1>18. PICK f : f = [pdiv |-> codes[s[1]], kdiv |-> ratios[s[3]], qdiv |-> s[2],
                     dco_integer |-> whole, dco_fraction |-> fraction]
  OBVIOUS
<1>19. skl_wrpll_params_populate(job, best) = f
  BY <1>7, <1>9, <1>10, <1>11, <1>12, <1>13, <1>14, <1>15, <1>17, <1>18, SMTT(30)
     DEF skl_wrpll_params_populate, Binary, Millionths
<1>20. f.pdiv # Garbage /\ f.kdiv # Garbage /\ f.qdiv < 256
  <2>1. f.pdiv = codes[s[1]] /\ f.kdiv = ratios[s[3]] /\ f.qdiv = s[2]
    BY <1>18
  <2>2. s[2] < 256
    <3>1. PICK q \in 1 .. 49 : q = s[2]
      BY <1>8, Zenon
    <3>2. q < 256
      OBVIOUS
    <3> QED BY <3>1, <3>2, Zenon
  <2>3. codes[s[1]] # Garbage /\ ratios[s[3]] # Garbage
    BY <1>12, <1>13 DEF Garbage
  <2> QED BY <2>1, <2>2, <2>3, Zenon
<1>21. DcoIs(whole, fraction, dco)
  BY <1>14, <1>16, DcoDescribed, Zenon
<1>22. f.dco_integer = whole /\ f.dco_fraction = fraction
  BY <1>18
<1>23. s[1] * s[2] * s[3] = best.p
  BY <1>5, <1>8
<1>24. FrequencyIs(f.dco_integer, f.dco_fraction, job.ref, best.dco)
  BY <1>6, <1>21, <1>22 DEF DcoIs
<1> HIDE DEF Garbage
<1>25. SkylakeAgrees(f, s, job.ref, best)
  BY <1>20, <1>23, <1>24 DEF SkylakeAgrees
<1>26. SkylakeAgrees(skl_wrpll_params_populate(job, best), skl_wrpll_get_multipliers(best.p), job.ref, best)
  BY <1>7, <1>19, <1>25
<1> QED BY <1>26, SMTT(60) DEF SkylakeFields, SkylakeAgrees, FrequencyIs


-----------------------------------------------------------------------------
(* The divisor search of generations 2 to 7. *)

PllJobs == [clock : Clocks, lvds : BOOLEAN, channelB : BOOLEAN]

\* What the first iterations have looked at, and the error a candidate has to be below.
FirstOuter == OuterRange(LimitsOf(job))[1]
LastOuter == OuterRange(LimitsOf(job))[2]
Looked(outer) == UNION {PllCandidates(job, LimitsOf(job), o) : o \in FirstOuter .. outer - 1}
Bar(b) == IF b = Nothing THEN <<job.clock * 100, 1>> ELSE PllError(job, b)

\* b is the best of the iterations before outer.
PllBest(b, outer) ==
  /\ b # Nothing => b \in Looked(outer) /\ valid_pll_divisors(b, LimitsOf(job))
  /\ \A d \in Looked(outer) :
       valid_pll_divisors(d, LimitsOf(job)) => ~Less(PllError(job, d), Bar(b))

PllSearchInv ==
  family \in PllFamilies =>
    /\ pc # "ready" => job \in PllJobs
    /\ pc = "search" => \E k \in FirstOuter .. LastOuter + 1 : at = <<k>> /\ PllBest(best, k)
    /\ pc = "done" => PllBest(best, LastOuter + 1)

\* A finite set has an element with none before it in an order that is irreflexive and
\* transitive.
LEMMA FirstExists ==
  ASSUME NEW S, IsFiniteSet(S), S # {}, NEW R,
         \A d \in S : <<d, d>> \notin R,
         \A d, e, f \in S : <<d, e>> \in R /\ <<e, f>> \in R => <<d, f>> \in R
  PROVE  \E d \in S : \A e \in S : <<e, d>> \notin R
<1> DEFINE Before(d) == {e \in S : <<e, d>> \in R}
           Ranks == {Cardinality(Before(d)) : d \in S}
<1>1. \A d \in S : Before(d) \in SUBSET S
  OBVIOUS
<1>2. \A d \in S : IsFiniteSet(Before(d))
  BY <1>1, FS_Subset
<1>3. \A d \in S : Cardinality(Before(d)) \in Nat
  BY <1>2, FS_CardinalityType
<1>4. Ranks \in SUBSET Nat /\ Ranks # {}
  <2> HIDE DEF Before
  <2> QED BY <1>3
<1>5. Min(Ranks) \in Ranks /\ \A x \in Ranks : Min(Ranks) <= x
  BY <1>4, LeastIs
<1>6. PICK d \in S : Cardinality(Before(d)) = Min(Ranks)
  BY <1>5
<1>7. ASSUME NEW e \in S, <<e, d>> \in R
      PROVE  FALSE
  <2>1. Before(e) \in SUBSET Before(d)
    BY <1>7
  <2>2. e \in Before(d) /\ e \notin Before(e)
    BY <1>7
  <2>3. Before(e) # Before(d)
    BY <2>2
  <2> HIDE DEF Before
  <2>4. Cardinality(Before(e)) <= Cardinality(Before(d))
        /\ Cardinality(Before(d)) # Cardinality(Before(e))
    BY <1>2, <2>1, <2>3, FS_Subset
  <2>5. Cardinality(Before(d)) <= Cardinality(Before(e))
    BY <1>5, <1>6
  <2> QED BY <1>3, <2>4, <2>5
<1> QED BY <1>7

\* Pairs that stand for fractions.
Fractions == Nat \X (Nat \ {0})
\* The whole part, and a fraction whose denominator is that of the pair.
LessParts(p, r, n, q, s, m) == p < q \/ (p = q /\ r * m < s * n)

LEMMA PartsOrder ==
  ASSUME NEW p \in Int, NEW r \in Int, NEW n \in Nat, n > 0,
         NEW q \in Int, NEW s \in Int, NEW m \in Nat, m > 0,
         NEW o \in Int, NEW t \in Int, NEW k \in Nat, k > 0
  PROVE  /\ ~LessParts(p, r, n, p, r, n)
         /\ LessParts(p, r, n, q, s, m) => ~LessParts(q, s, m, p, r, n)
         /\ ~LessParts(p, r, n, q, s, m) /\ ~LessParts(q, s, m, o, t, k) => ~LessParts(p, r, n, o, t, k)
<1>1. ~LessParts(p, r, n, p, r, n)
  BY DEF LessParts
<1>2. ASSUME r * m >= s * n, s * k >= t * m
      PROVE  r * k >= t * n
  <2>1. (r * m) * k >= (s * n) * k
    BY <1>2
  <2>2. (s * k) * n >= (t * m) * n
    BY <1>2
  <2>3. (r * k) * m >= (t * n) * m
    BY <2>1, <2>2
  <2>4. ASSUME NEW x \in Int, NEW y \in Int, x * m >= y * m
        PROVE  x >= y
    BY <2>4
  <2> QED BY <2>3, <2>4
<1>3. ASSUME ~LessParts(p, r, n, q, s, m), ~LessParts(q, s, m, o, t, k)
      PROVE  ~LessParts(p, r, n, o, t, k)
  <2>1. p >= q /\ (p = q => r * m >= s * n)
    BY <1>3 DEF LessParts
  <2>2. q >= o /\ (q = o => s * k >= t * m)
    BY <1>3 DEF LessParts
  <2>3. p >= o
    BY <2>1, <2>2
  <2>4. p = o => r * k >= t * n
    BY <1>2, <2>1, <2>2
  <2>5. r * k \in Int /\ t * n \in Int
    OBVIOUS
  <2> QED BY <2>3, <2>4, <2>5 DEF LessParts
<1>4. LessParts(p, r, n, q, s, m) => ~LessParts(q, s, m, p, r, n)
  <2>1. r * m \in Int /\ s * n \in Int
    OBVIOUS
  <2> QED BY <2>1 DEF LessParts
<1> QED BY <1>1, <1>3, <1>4

\* The order of fractions has no smaller value than itself and what is not smaller of
\* what is not smaller is not smaller.
LEMMA LessOrder ==
  ASSUME NEW x \in Fractions, NEW y \in Fractions, NEW z \in Fractions
  PROVE  /\ ~Less(x, x)
         /\ Less(x, y) => ~Less(y, x)
         /\ ~Less(x, y) /\ ~Less(y, z) => ~Less(x, z)
<1>1. PICK a \in Nat, n \in Nat : x = <<a, n>> /\ n > 0
  BY DEF Fractions
<1>2. PICK b \in Nat, m \in Nat : y = <<b, m>> /\ m > 0
  BY DEF Fractions
<1>3. PICK c \in Nat, k \in Nat : z = <<c, k>> /\ k > 0
  BY DEF Fractions
<1>4. PICK p \in Int, r \in Int : p = a \div n /\ r = a % n
  BY <1>1
<1>5. PICK q \in Int, s \in Int : q = b \div m /\ s = b % m
  BY <1>2
<1>6. PICK o \in Int, t \in Int : o = c \div k /\ t = c % k
  BY <1>3
<1>7. Less(x, x) <=> LessParts(p, r, n, p, r, n)
  BY <1>1, <1>4, Zenon DEF Less, LessParts
<1>8. Less(x, y) <=> LessParts(p, r, n, q, s, m)
  BY <1>1, <1>2, <1>4, <1>5, Zenon DEF Less, LessParts
<1>9. Less(y, z) <=> LessParts(q, s, m, o, t, k)
  BY <1>2, <1>3, <1>5, <1>6, Zenon DEF Less, LessParts
<1>10. Less(x, z) <=> LessParts(p, r, n, o, t, k)
  BY <1>1, <1>3, <1>4, <1>6, Zenon DEF Less, LessParts
<1>11. ~LessParts(p, r, n, p, r, n)
  BY <1>1, PartsOrder
<1>12. ~LessParts(p, r, n, q, s, m) /\ ~LessParts(q, s, m, o, t, k) => ~LessParts(p, r, n, o, t, k)
  BY <1>1, <1>2, <1>3, PartsOrder
<1>13. LessParts(p, r, n, q, s, m) => ~LessParts(q, s, m, p, r, n)
  BY <1>1, <1>2, <1>3, PartsOrder
<1>14. Less(y, x) <=> LessParts(q, s, m, p, r, n)
  BY <1>1, <1>2, <1>4, <1>5, Zenon DEF Less, LessParts
<1> QED BY <1>7, <1>8, <1>9, <1>10, <1>11, <1>12, <1>13, <1>14, Zenon

LEMMA LessTransitive ==
  ASSUME NEW x \in Fractions, NEW y \in Fractions, NEW z \in Fractions, Less(x, y), Less(y, z)
  PROVE  Less(x, z)
<1> SUFFICES ASSUME ~Less(x, z)
             PROVE  FALSE
  OBVIOUS
<1>1. ~Less(z, y)
  BY LessOrder
<1>2. ~Less(x, y)
  BY <1>1, LessOrder
<1> QED BY <1>2

\* What the tables of limits have in common.
LimitsLike(l) ==
  /\ l.n \in (3 .. 18) \X (3 .. 18) /\ l.n[1] <= l.n[2]
  /\ l.m1 \in (0 .. 28) \X (0 .. 28) /\ l.m1[1] <= l.m1[2]
  /\ l.m2 \in (0 .. 254) \X (0 .. 254)
  /\ l.p1 \in (1 .. 33) \X (1 .. 33)
  /\ l.p2 \in (2 .. 14) \X (2 .. 14)

PllTables == {kLimits85x, kLimits9xxSdvo, kLimits9xxLvds, kLimitsG4xSdvo, kLimitsG4xLvdsSingle,
              kLimitsG4xLvdsDual, kLimitsIlkDac, kLimitsIlkLvdsSingle, kLimitsIlkLvdsDual,
              kLimitsPinSdvo, kLimitsPinLvds}

LEMMA TablesAre == \A l \in PllTables : LimitsLike(l)
<1>1. LimitsLike(kLimits85x)
  BY DEF LimitsLike, kLimits85x, Limits
<1>2. LimitsLike(kLimits9xxSdvo)
  BY DEF LimitsLike, kLimits9xxSdvo, Limits
<1>3. LimitsLike(kLimits9xxLvds)
  BY DEF LimitsLike, kLimits9xxLvds, Limits
<1>4. LimitsLike(kLimitsG4xSdvo)
  BY DEF LimitsLike, kLimitsG4xSdvo, Limits
<1>5. LimitsLike(kLimitsG4xLvdsSingle)
  BY DEF LimitsLike, kLimitsG4xLvdsSingle, Limits
<1>6. LimitsLike(kLimitsG4xLvdsDual)
  BY DEF LimitsLike, kLimitsG4xLvdsDual, Limits
<1>7. LimitsLike(kLimitsIlkDac)
  BY DEF LimitsLike, kLimitsIlkDac, Limits
<1>8. LimitsLike(kLimitsIlkLvdsSingle)
  BY DEF LimitsLike, kLimitsIlkLvdsSingle, Limits
<1>9. LimitsLike(kLimitsIlkLvdsDual)
  BY DEF LimitsLike, kLimitsIlkLvdsDual, Limits
<1>10. LimitsLike(kLimitsPinSdvo)
  BY DEF LimitsLike, kLimitsPinSdvo, Limits
<1>11. LimitsLike(kLimitsPinLvds)
  BY DEF LimitsLike, kLimitsPinLvds, Limits
<1> QED BY <1>1, <1>2, <1>3, <1>4, <1>5, <1>6, <1>7, <1>8, <1>9, <1>10, <1>11 DEF PllTables

LEMMA LimitsAre ==
  ASSUME NEW j
  PROVE  LimitsOf(j) \in PllTables /\ LimitsLike(LimitsOf(j))
<1>1. LimitsOf(j) \in PllTables
  BY Zenon DEF LimitsOf, PllTables
<1> QED BY <1>1, TablesAre

LEMMA MinOfTwo ==
  ASSUME NEW a \in Int, NEW b \in Int
  PROVE  Min({a, b}) = IF a <= b THEN a ELSE b
<1>1. CASE a <= b
  <2>1. a \in {a, b} /\ \A y \in {a, b} : a <= y
    BY <1>1
  <2>2. Min({a, b}) \in {a, b} /\ \A y \in {a, b} : Min({a, b}) <= y
    BY <2>1, Zenon DEF Min
  <2> HIDE DEF Min
  <2> QED BY <1>1, <2>2
<1>2. CASE ~(a <= b)
  <2>1. b \in {a, b} /\ \A y \in {a, b} : b <= y
    BY <1>2
  <2>2. Min({a, b}) \in {a, b} /\ \A y \in {a, b} : Min({a, b}) <= y
    BY <2>1, Zenon DEF Min
  <2> QED BY <1>2, <2>2
<1> QED BY <1>1, <1>2

\* A candidate is made of four divisors within the limits.
Made(n, m1, m2, p1, p2) ==
  [n |-> n, m1 |-> m1, m2 |-> m2, p1 |-> p1, p2 |-> p2,
   m |-> compute_pll_m(m1, m2), p |-> p1 * p2]

LEMMA CandidateMade ==
  ASSUME NEW j, NEW l, LimitsLike(l), NEW outer \in OuterRange(l)[1] .. OuterRange(l)[2],
         NEW d \in PllCandidates(j, l, outer)
  PROVE  \E n \in l.n[1] .. l.n[2], m1 \in l.m1[1] .. l.m1[2], m2 \in l.m2[1] .. l.m2[2],
            p1 \in l.p1[1] .. l.p1[2] : d = Made(n, m1, m2, p1, compute_pll_p2(j, l))
<1> DEFINE ns == IF G4xSearch THEN {outer} ELSE l.n[1] .. l.n[2]
           m1s == IF G4xSearch THEN l.m1[1] .. l.m1[2] ELSE {outer}
           m2s == IF G4xSearch \/ family = "pineview"
                  THEN l.m2[1] .. l.m2[2] ELSE l.m2[1] .. Min({l.m2[2], outer - 1})
           p1s == l.p1[1] .. l.p1[2]
<1>0. PllCandidates(j, l, outer)
        = {Made(n, m1, m2, p1, compute_pll_p2(j, l)) : n \in ns, m1 \in m1s, m2 \in m2s, p1 \in p1s}
  BY DEF PllCandidates, Made
<1> HIDE DEF ns, m1s, m2s, p1s
<1>1. PICK n \in ns, m1 \in m1s, m2 \in m2s, p1 \in p1s :
        d = Made(n, m1, m2, p1, compute_pll_p2(j, l))
  BY <1>0
<1>2. outer \in Int /\ l.m2[2] \in Int /\ l.m2[1] \in Int
  BY DEF LimitsLike, OuterRange
<1>3. n \in l.n[1] .. l.n[2] /\ m1 \in l.m1[1] .. l.m1[2]
  BY <1>1 DEF OuterRange, ns, m1s
<1>4. m2 \in l.m2[1] .. l.m2[2]
  <2>1. CASE G4xSearch \/ family = "pineview"
    BY <1>1, <2>1 DEF m2s
  <2>2. CASE ~(G4xSearch \/ family = "pineview")
    <3>1. PICK a \in Int, b \in Int, c \in Int : a = l.m2[1] /\ b = l.m2[2] /\ c = outer - 1
      BY <1>2
    <3>2. PICK least \in Int : least = Min({b, c}) /\ least <= b
      BY MinOfTwo
    <3>3. m2s = a .. least
      BY <2>2, <3>1, <3>2 DEF m2s
    <3>4. m2 \in a .. b
      BY <1>1, <3>2, <3>3
    <3> QED BY <3>1, <3>4
  <2> QED BY <2>1, <2>2
<1> QED BY <1>1, <1>3, <1>4 DEF p1s

LEMMA ReferenceIs ==
  ASSUME family \in PllFamilies
  PROVE  PllInfo(family).ref \in Nat
BY DEF PllFamilies, PllInfo

MadeOf(n, m1, m2, p1, p2, d) ==
  /\ d.n = n /\ d.m1 = m1 /\ d.m2 = m2 /\ d.p1 = p1 /\ d.p2 = p2
  /\ d.m = compute_pll_m(m1, m2) /\ d.m \in Nat
  /\ d.p = p1 * p2 /\ d.p \in Nat \ {0}

LEMMA MadeIs ==
  ASSUME NEW n \in 3 .. 18, NEW m1 \in 0 .. 28, NEW m2 \in 0 .. 254, NEW p1 \in 1 .. 33,
         NEW p2 \in 2 .. 14, NEW d, d = Made(n, m1, m2, p1, p2)
  PROVE  MadeOf(n, m1, m2, p1, p2, d)
<1>1. p1 * p2 \in Nat \ {0}
  <2>1. p1 * p2 >= 1 * p2
    OBVIOUS
  <2> QED BY <2>1
<1>2. compute_pll_m(m1, m2) \in Nat
  BY DEF compute_pll_m
<1> QED BY <1>1, <1>2 DEF Made, MadeOf

LEMMA FastDividerIs ==
  ASSUME NEW j, NEW l, LimitsLike(l)
  PROVE  compute_pll_p2(j, l) \in 2 .. 14
<1>1. l.p2[1] \in 2 .. 14 /\ l.p2[2] \in 2 .. 14
  BY DEF LimitsLike
<1> QED BY <1>1, Zenon DEF compute_pll_p2

LEMMA ErrorIs ==
  ASSUME family \in PllFamilies, NEW j, j.clock \in Clocks, NEW d,
         d.n \in Nat \ {0}, d.m \in Nat, d.p \in Nat \ {0}
  PROVE  PllError(j, d) \in Fractions
<1>1. PICK hz \in 200 .. 5400 : hz = j.clock
  BY ClocksAssumption
<1>2. PICK n \in Nat : n = d.n /\ n > 0
  OBVIOUS
<1>3. PICK p \in Nat : p = d.p /\ p > 0
  OBVIOUS
<1>4. PICK m \in Nat : m = d.m
  OBVIOUS
<1>5. PICK ref \in Nat : ref = PllInfo(family).ref
  BY ReferenceIs
<1>6. n * p \in Nat /\ n * p > 0
  <2>1. n * p \in Nat
    OBVIOUS
  <2>2. n >= 1 /\ p >= 1
    BY <1>2, <1>3
  <2>3. n * p >= 1 * p
    BY <2>2
  <2> QED BY <2>1, <2>2, <2>3
<1>7. PICK off : off = hz * 100 * n * p - ref * m
  OBVIOUS
<1>10. off \in Int
  <2>1. PICK x \in Int : x = hz * 100
    OBVIOUS
  <2>2. PICK y \in Int : y = x * n
    OBVIOUS
  <2>3. PICK z \in Int : z = y * p - ref * m
    OBVIOUS
  <2>4. z = off
    BY <1>7, <2>1, <2>2, <2>3
  <2> QED BY <2>4
<1>8. Abs(off) \in Nat
  BY <1>10 DEF Abs
<1>9. PllError(j, d) = <<Abs(off), n * p>>
  BY <1>1, <1>2, <1>3, <1>4, <1>5, <1>7 DEF PllError
<1> QED BY <1>6, <1>8, <1>9 DEF Fractions

Shaped(j, l, d) ==
  \E n \in 3 .. 18, m1 \in 0 .. 28, m2 \in 0 .. 254, p1 \in 1 .. 33, p2 \in 2 .. 14 :
    /\ n \in l.n[1] .. l.n[2] /\ m1 \in l.m1[1] .. l.m1[2]
    /\ m2 \in l.m2[1] .. l.m2[2] /\ p1 \in l.p1[1] .. l.p1[2]
    /\ p2 = compute_pll_p2(j, l) /\ d = Made(n, m1, m2, p1, p2)

LEMMA CandidateIs ==
  ASSUME NEW j, NEW l, LimitsLike(l), NEW outer \in OuterRange(l)[1] .. OuterRange(l)[2],
         NEW d \in PllCandidates(j, l, outer)
  PROVE  Shaped(j, l, d)
<1>1. PICK n \in l.n[1] .. l.n[2], m1 \in l.m1[1] .. l.m1[2], m2 \in l.m2[1] .. l.m2[2],
          p1 \in l.p1[1] .. l.p1[2] : d = Made(n, m1, m2, p1, compute_pll_p2(j, l))
  BY CandidateMade
<1>2. n \in 3 .. 18 /\ m1 \in 0 .. 28 /\ m2 \in 0 .. 254 /\ p1 \in 1 .. 33
  BY DEF LimitsLike
<1>3. compute_pll_p2(j, l) \in 2 .. 14
  BY FastDividerIs
<1> QED BY <1>1, <1>2, <1>3, Zenon DEF Shaped

LEMMA CandidateType ==
  ASSUME family \in PllFamilies, NEW j, j.clock \in Clocks, NEW l, LimitsLike(l),
         NEW outer \in OuterRange(l)[1] .. OuterRange(l)[2], NEW d \in PllCandidates(j, l, outer)
  PROVE  PllError(j, d) \in Fractions /\ Turn(d) \in Int /\ d # Nothing
<1>0. Shaped(j, l, d)
  BY CandidateIs
<1>1. PICK n \in 3 .. 18, m1 \in 0 .. 28, m2 \in 0 .. 254, p1 \in 1 .. 33, p2 \in 2 .. 14 :
        /\ n \in l.n[1] .. l.n[2] /\ m1 \in l.m1[1] .. l.m1[2]
        /\ m2 \in l.m2[1] .. l.m2[2] /\ p1 \in l.p1[1] .. l.p1[2]
        /\ p2 = compute_pll_p2(j, l) /\ d = Made(n, m1, m2, p1, p2)
  BY <1>0, Zenon DEF Shaped
<1>4. /\ d.n = n /\ d.m1 = m1 /\ d.m2 = m2 /\ d.p1 = p1
      /\ d.m \in Nat /\ d.p \in Nat \ {0}
  <2>1. MadeOf(n, m1, m2, p1, p2, d)
    BY <1>1, MadeIs
  <2> QED BY <2>1 DEF MadeOf
<1>5. PllError(j, d) \in Fractions
  BY <1>4, ErrorIs
<1>6. Turn(d) \in Int
  BY <1>4 DEF Turn
<1>7. d # Nothing
  BY <1>4 DEF Nothing
<1> QED BY <1>5, <1>6, <1>7

LEMMA CandidatesFinite ==
  ASSUME NEW j, NEW l, LimitsLike(l), NEW outer \in OuterRange(l)[1] .. OuterRange(l)[2]
  PROVE  IsFiniteSet(PllCandidates(j, l, outer))
<1> DEFINE Pairs == (3 .. 18) \X (0 .. 28)
           Others == (0 .. 254) \X (1 .. 33)
           Quads == Pairs \X Others
<1> DEFINE f == [q \in Quads |-> Made(q[1][1], q[1][2], q[2][1], q[2][2], compute_pll_p2(j, l))]
           T == {f[q] : q \in Quads}
<1>1. IsFiniteSet(Pairs) /\ IsFiniteSet(Others)
  <2>2. \A a, b \in Int : IsFiniteSet(a .. b)
    BY FS_Interval
  <2>3. 3 \in Int /\ 18 \in Int /\ 0 \in Int /\ 28 \in Int /\ 254 \in Int /\ 1 \in Int /\ 33 \in Int
    OBVIOUS
  <2>1. /\ IsFiniteSet(3 .. 18) /\ IsFiniteSet(0 .. 28) /\ IsFiniteSet(0 .. 254)
        /\ IsFiniteSet(1 .. 33)
    BY <2>2, <2>3, Zenon
  <2> QED BY <2>1, FS_Product
<1> HIDE DEF Pairs, Others
<1>2. IsFiniteSet(Quads)
  BY <1>1, FS_Product
<1>3. f \in Surjection(Quads, T)
  BY DEF Surjection
<1>4. IsFiniteSet(T)
  BY <1>2, <1>3, FS_Surjection
<1>5. PllCandidates(j, l, outer) \in SUBSET T
  <2> SUFFICES ASSUME NEW d \in PllCandidates(j, l, outer) PROVE d \in T
    OBVIOUS
  <2>1. PICK n \in l.n[1] .. l.n[2], m1 \in l.m1[1] .. l.m1[2], m2 \in l.m2[1] .. l.m2[2],
          p1 \in l.p1[1] .. l.p1[2] : d = Made(n, m1, m2, p1, compute_pll_p2(j, l))
    BY CandidateMade
  <2>2. n \in 3 .. 18 /\ m1 \in 0 .. 28 /\ m2 \in 0 .. 254 /\ p1 \in 1 .. 33
    BY DEF LimitsLike
  <2>3. PICK q \in Quads : q[1][1] = n /\ q[1][2] = m1 /\ q[2][1] = m2 /\ q[2][2] = p1
    <3>1. PICK x \in Pairs : x[1] = n /\ x[2] = m1
      <4>1. <<n, m1>> \in Pairs /\ <<n, m1>>[1] = n /\ <<n, m1>>[2] = m1
        BY <2>2 DEF Pairs
      <4> QED BY <4>1
    <3>2. PICK y \in Others : y[1] = m2 /\ y[2] = p1
      <4>1. <<m2, p1>> \in Others /\ <<m2, p1>>[1] = m2 /\ <<m2, p1>>[2] = p1
        BY <2>2 DEF Others
      <4> QED BY <4>1
    <3>3. <<x, y>> \in Quads /\ <<x, y>>[1] = x /\ <<x, y>>[2] = y
      OBVIOUS
    <3> QED BY <3>1, <3>2, <3>3
  <2>4. f[q] = d
    BY <2>1, <2>3
  <2> QED BY <2>4
<1> QED BY <1>4, <1>5, FS_Subset

\* What one iteration of the outer loop keeps.
Keeps(j, l, outer, b, bar, k) ==
  \/ /\ k = b
     /\ \A d \in PllCandidates(j, l, outer) : valid_pll_divisors(d, l) => ~Less(PllError(j, d), bar)
  \/ /\ k \in PllCandidates(j, l, outer) /\ valid_pll_divisors(k, l) /\ Less(PllError(j, k), bar)
     /\ \A d \in PllCandidates(j, l, outer) :
          valid_pll_divisors(d, l) => ~Less(PllError(j, d), PllError(j, k))

LEMMA KeptIs ==
  ASSUME family \in PllFamilies, NEW j, j.clock \in Clocks, NEW l, LimitsLike(l),
         NEW outer \in OuterRange(l)[1] .. OuterRange(l)[2], NEW b, NEW bar \in Fractions
  PROVE  Keeps(j, l, outer, b, bar, KeepBelow(j, l, outer, b, bar))
<1> DEFINE S == PllCandidates(j, l, outer)
           Err(d) == PllError(j, d)
           closer == {d \in S : valid_pll_divisors(d, l) /\ Less(Err(d), bar)}
           d0 == CHOOSE d \in closer : \A e \in closer : ~Less(Err(e), Err(d))
           ties == {d \in closer : ~Less(Err(d0), Err(d))}
           k == CHOOSE d \in ties : \A e \in ties : Turn(d) <= Turn(e)
<1>1. \A d \in S : Err(d) \in Fractions /\ Turn(d) \in Int
  BY CandidateType
<1>2. IsFiniteSet(S)
  BY CandidatesFinite
<1>3. closer \in SUBSET S
  OBVIOUS
<1>4. KeepBelow(j, l, outer, b, bar) = IF closer = {} THEN b ELSE k
  BY DEF KeepBelow
<1> HIDE DEF S, Err
<1>5. CASE closer = {}
  <2>1. \A d \in S : valid_pll_divisors(d, l) => ~Less(Err(d), bar)
    BY <1>5
  <2> QED BY <1>4, <1>5, <2>1 DEF Keeps, S, Err
<1>6. CASE closer # {}
  <2> DEFINE Order == {p \in closer \X closer : Less(Err(p[1]), Err(p[2]))}
  <2>1. IsFiniteSet(closer)
    BY <1>2, <1>3, FS_Subset
  <2> HIDE DEF closer
  <2>2. \A d, e \in closer : <<d, e>> \in Order <=> Less(Err(d), Err(e))
    OBVIOUS
  <2>3. \A d \in closer : Err(d) \in Fractions /\ Turn(d) \in Int
    BY <1>1, <1>3
  <2> HIDE DEF Order
  <2>4. \A d \in closer : ~Less(Err(d), Err(d))
    BY <2>3, LessOrder
  <2>5. \A d, e, f \in closer : Less(Err(d), Err(e)) /\ Less(Err(e), Err(f)) => Less(Err(d), Err(f))
    BY <2>3, LessTransitive
  <2>6. \E d \in closer : \A e \in closer : <<e, d>> \notin Order
    BY <1>6, <2>1, <2>2, <2>4, <2>5, FirstExists
  <2>7. d0 \in closer /\ \A e \in closer : ~Less(Err(e), Err(d0))
    <3>1. \E d \in closer : \A e \in closer : ~Less(Err(e), Err(d))
      BY <2>2, <2>6
    <3> QED BY <3>1, Zenon
  <2> HIDE DEF d0
  <2>8. ties \in SUBSET closer /\ d0 \in ties
    BY <2>4, <2>7
  <2>9. \A d \in ties : ~Less(Err(d0), Err(d))
    OBVIOUS
  <2>10. IsFiniteSet(ties)
    BY <2>1, <2>8, FS_Subset
  <2> HIDE DEF ties
  <2> DEFINE Later == {p \in ties \X ties : Turn(p[1]) < Turn(p[2])}
  <2>11. \A d, e \in ties : <<d, e>> \in Later <=> Turn(d) < Turn(e)
    OBVIOUS
  <2> HIDE DEF Later
  <2>12. \A d \in ties : Turn(d) \in Int
    BY <2>3, <2>8
  <2>13. \A d, e, f \in ties : <<d, e>> \in Later /\ <<e, f>> \in Later => <<d, f>> \in Later
    BY <2>11, <2>12
  <2>14. \A d \in ties : <<d, d>> \notin Later
    BY <2>11, <2>12
  <2>15. \E d \in ties : \A e \in ties : <<e, d>> \notin Later
    BY <2>8, <2>10, <2>13, <2>14, FirstExists
  <2>16. \E d \in ties : \A e \in ties : Turn(d) <= Turn(e)
    <3>1. PICK d \in ties : \A e \in ties : <<e, d>> \notin Later
      BY <2>15
    <3>2. ASSUME NEW e \in ties
          PROVE  Turn(d) <= Turn(e)
      <4>1. ~(Turn(e) < Turn(d))
        BY <2>11, <3>1
      <4>2. PICK x \in Int, y \in Int : x = Turn(d) /\ y = Turn(e)
        BY <2>12
      <4>3. ~(y < x)
        BY <4>1, <4>2, Zenon
      <4>4. x <= y
        BY <4>3
      <4> QED BY <4>2, <4>4, Zenon
    <3> QED BY <3>2
  <2>17. k \in ties
    BY <2>16, Zenon
  <2> HIDE DEF k
  <2>18. k \in S /\ valid_pll_divisors(k, l) /\ Less(Err(k), bar)
    BY <2>8, <2>17 DEF closer
  <2>19. ASSUME NEW d \in S, valid_pll_divisors(d, l)
         PROVE  ~Less(Err(d), Err(k))
    <3>1. Err(d) \in Fractions /\ Err(k) \in Fractions /\ Err(d0) \in Fractions
      BY <1>1, <2>3, <2>7, <2>18
    <3>2. CASE d \in closer
      <4>1. ~Less(Err(d), Err(d0)) /\ ~Less(Err(d0), Err(k))
        BY <2>7, <2>9, <2>17, <3>2
      <4> QED BY <3>1, <4>1, LessOrder
    <3>3. CASE d \notin closer
      <4>1. ~Less(Err(d), bar)
        BY <2>19, <3>3 DEF closer
      <4>2. ASSUME Less(Err(d), Err(k))
            PROVE  FALSE
        <5>1. Less(Err(d), bar)
          BY <2>18, <3>1, <4>2, LessTransitive
        <5> QED BY <4>1, <5>1
      <4> QED BY <4>2
    <3> QED BY <3>2, <3>3
  <2>20. KeepBelow(j, l, outer, b, bar) = k
    BY <1>4, <1>6
  <2> QED BY <2>18, <2>19, <2>20 DEF Keeps, S, Err
<1> QED BY <1>5, <1>6

LEMMA OuterIs ==
  ASSUME NEW l, LimitsLike(l)
  PROVE  OuterRange(l)[1] \in 0 .. 28 /\ OuterRange(l)[2] \in 0 .. 28 /\ OuterRange(l)[1] <= OuterRange(l)[2]
BY DEF LimitsLike, OuterRange

\* The search as it is after a step that keeps the job.
LEMMA PllKept ==
  ASSUME family' = family, NEW j, j = job', NEW b, b = best'
  PROVE  /\ LimitsOf(job)' = LimitsOf(j)
         /\ \A l : OuterRange(l)' = OuterRange(l)
         /\ \A l, o : PllCandidates(job, l, o)' = PllCandidates(j, l, o)
         /\ \A d, l : valid_pll_divisors(d, l)' <=> valid_pll_divisors(d, l)
         /\ \A d : PllError(job, d)' = PllError(j, d)
<1>1. LimitsOf(job)' = LimitsOf(j)
  <2>1. lvds_dual_link(job)' <=> lvds_dual_link(j)
    BY DEF lvds_dual_link
  <2> QED BY <2>1 DEF LimitsOf
<1>2. \A l : OuterRange(l)' = OuterRange(l)
  BY Zenon DEF OuterRange, G4xSearch
<1>3. ASSUME NEW l, NEW o
      PROVE  PllCandidates(job, l, o)' = PllCandidates(j, l, o)
  <2>1. \A m1, m2 : compute_pll_m(m1, m2)' = compute_pll_m(m1, m2)
    BY DEF compute_pll_m
  <2>2. PICK p2 : compute_pll_p2(job, l)' = p2 /\ compute_pll_p2(j, l) = p2
    BY DEF compute_pll_p2, lvds_dual_link
  <2>10. PICK ns : ns = IF G4xSearch THEN {o} ELSE l.n[1] .. l.n[2]
    OBVIOUS
  <2>11. PICK m1s : m1s = IF G4xSearch THEN l.m1[1] .. l.m1[2] ELSE {o}
    OBVIOUS
  <2>12. PICK m2s : m2s = IF G4xSearch \/ family = "pineview"
                          THEN l.m2[1] .. l.m2[2] ELSE l.m2[1] .. Min({l.m2[2], o - 1})
    OBVIOUS
  <2>3. PICK p1s : p1s = l.p1[1] .. l.p1[2]
    OBVIOUS
  <2> DEFINE C == {[n |-> n, m1 |-> m1, m2 |-> m2, p1 |-> p1, p2 |-> p2,
                    m |-> compute_pll_m(m1, m2), p |-> p1 * p2] :
                     n \in ns, m1 \in m1s, m2 \in m2s, p1 \in p1s}
  <2>5. PllCandidates(j, l, o) = C
    BY <2>2, <2>3, <2>10, <2>11, <2>12 DEF PllCandidates
  <2>6. G4xSearch' <=> G4xSearch
    BY DEF G4xSearch
  <2>7. /\ ns = IF G4xSearch' THEN {o} ELSE l.n[1] .. l.n[2]
        /\ m1s = IF G4xSearch' THEN l.m1[1] .. l.m1[2] ELSE {o}
        /\ m2s = IF G4xSearch' \/ family' = "pineview"
                  THEN l.m2[1] .. l.m2[2] ELSE l.m2[1] .. Min({l.m2[2], o - 1})
    BY <2>6, <2>10, <2>11, <2>12, Zenon
  <2>8. C = {[n |-> n, m1 |-> m1, m2 |-> m2, p1 |-> p1, p2 |-> p2,
              m |-> compute_pll_m(m1, m2)', p |-> p1 * p2] :
               n \in ns, m1 \in m1s, m2 \in m2s, p1 \in p1s}
    BY <2>1
  <2> HIDE DEF C
  <2>9. PllCandidates(job, l, o)' = C
    BY <2>2, <2>3, <2>7, <2>8 DEF PllCandidates
  <2> QED BY <2>5, <2>9
<1>4. \A d, l : valid_pll_divisors(d, l)' <=> valid_pll_divisors(d, l)
  BY Zenon DEF valid_pll_divisors
<1>5. \A d : PllError(job, d)' = PllError(j, d)
  BY Zenon DEF PllError
<1> QED BY <1>1, <1>2, <1>3, <1>4, <1>5

LEMMA PllBestKept ==
  ASSUME family' = family, job' = job, NEW b, b = best', NEW k
  PROVE  /\ FirstOuter' = FirstOuter /\ LastOuter' = LastOuter
         /\ PllBest(best, k)' <=> PllBest(b, k)
<1>1. /\ LimitsOf(job)' = LimitsOf(job)
      /\ \A l : OuterRange(l)' = OuterRange(l)
      /\ \A l, o : PllCandidates(job, l, o)' = PllCandidates(job, l, o)
      /\ \A d, l : valid_pll_divisors(d, l)' <=> valid_pll_divisors(d, l)
      /\ \A d : PllError(job, d)' = PllError(job, d)
  <2>1. PICK j : j = job'
    OBVIOUS
  <2> QED BY <2>1, PllKept
<1>2. FirstOuter' = FirstOuter /\ LastOuter' = LastOuter
  BY <1>1, Zenon DEF FirstOuter, LastOuter
<1>3. Looked(k)' = Looked(k)
  <2>1. Looked(k)' = UNION {PllCandidates(job, LimitsOf(job), o)' : o \in FirstOuter .. k - 1}
    BY <1>1, <1>2 DEF Looked
  <2> QED BY <1>1, <2>1 DEF Looked
<1>4. Bar(best)' = Bar(b)
  BY <1>1, Zenon DEF Bar
<1> QED BY <1>1, <1>2, <1>3, <1>4, Zenon DEF PllBest

LEMMA PllSearchInit == ClocksInit => PllSearchInv
BY DEF ClocksInit, PllSearchInv

LEMMA LookedType ==
  ASSUME family \in PllFamilies, job.clock \in Clocks, NEW k \in FirstOuter .. LastOuter + 1,
         NEW d \in Looked(k)
  PROVE  PllError(job, d) \in Fractions /\ d # Nothing
<1>1. PICK l : l = LimitsOf(job) /\ LimitsLike(l)
  BY LimitsAre
<1>2. FirstOuter \in Int /\ LastOuter \in Int /\ OuterRange(l)[1] = FirstOuter /\ OuterRange(l)[2] = LastOuter
  BY <1>1, OuterIs DEF FirstOuter, LastOuter
<1>3. PICK o \in FirstOuter .. k - 1 : d \in PllCandidates(job, l, o)
  BY <1>1 DEF Looked
<1>4. o \in FirstOuter .. LastOuter
  BY <1>2
<1> QED BY <1>1, <1>2, <1>3, <1>4, CandidateType

LEMMA BarType ==
  ASSUME family \in PllFamilies, job \in PllJobs, NEW k \in FirstOuter .. LastOuter + 1,
         NEW b, PllBest(b, k)
  PROVE  Bar(b) \in Fractions
<1>4. job.clock \in Clocks
  BY DEF PllJobs
<1>1. CASE b = Nothing
  <2>1. PICK hz \in 200 .. 5400 : hz = job.clock
    BY <1>4, ClocksAssumption
  <2>2. hz * 100 \in Nat
    OBVIOUS
  <2> QED BY <1>1, <2>1, <2>2 DEF Bar, Fractions
<1>2. CASE b # Nothing
  BY <1>2, <1>4, LookedType DEF PllBest, Bar
<1> QED BY <1>1, <1>2

\* One more iteration.
LEMMA PllLooked ==
  ASSUME family \in PllFamilies, job \in PllJobs, NEW k \in FirstOuter .. LastOuter,
         NEW b, PllBest(b, k), NEW c, Keeps(job, LimitsOf(job), k, b, Bar(b), c)
  PROVE  PllBest(c, k + 1)
<1> DEFINE l == LimitsOf(job)
           Valid(d) == valid_pll_divisors(d, l)
           Err(d) == PllError(job, d)
<1>1. LimitsLike(l)
  BY LimitsAre
<1>2. FirstOuter \in Int /\ LastOuter \in Int /\ OuterRange(l)[1] = FirstOuter /\ OuterRange(l)[2] = LastOuter
  BY <1>1, OuterIs DEF FirstOuter, LastOuter
<1>3. Looked(k + 1) = Looked(k) \cup PllCandidates(job, l, k)
  <2>1. FirstOuter .. (k + 1) - 1 = (FirstOuter .. k - 1) \cup {k}
    BY <1>2
  <2> QED BY <2>1 DEF Looked
<1>4. job.clock \in Clocks
  BY DEF PllJobs
<1>5. \A d \in Looked(k + 1) : Err(d) \in Fractions /\ d # Nothing
  <2>1. k + 1 \in FirstOuter .. LastOuter + 1
    BY <1>2
  <2> QED BY <1>4, <2>1, LookedType
<1>6. Bar(b) \in Fractions
  <2>1. k \in FirstOuter .. LastOuter + 1
    BY <1>2
  <2> QED BY <2>1, BarType
<1>7. /\ b # Nothing => b \in Looked(k) /\ Valid(b)
      /\ \A d \in Looked(k) : Valid(d) => ~Less(Err(d), Bar(b))
  BY DEF PllBest
<1> HIDE DEF l
<1>8. CASE c = b /\ \A d \in PllCandidates(job, l, k) : Valid(d) => ~Less(Err(d), Bar(b))
  BY <1>3, <1>7, <1>8 DEF PllBest, l
<1>9. CASE /\ c \in PllCandidates(job, l, k) /\ Valid(c) /\ Less(Err(c), Bar(b))
           /\ \A d \in PllCandidates(job, l, k) : Valid(d) => ~Less(Err(d), Err(c))
  <2>1. c \in Looked(k + 1) /\ Err(c) \in Fractions /\ c # Nothing
    BY <1>3, <1>5, <1>9
  <2>2. Bar(c) = Err(c)
    BY <2>1 DEF Bar
  <2>3. ASSUME NEW d \in Looked(k + 1), Valid(d), Less(Err(d), Err(c))
        PROVE  FALSE
    <3>1. Err(d) \in Fractions
      BY <1>5
    <3>2. d \in Looked(k)
      BY <1>3, <1>9, <2>3
    <3>3. Less(Err(d), Bar(b))
      BY <1>6, <1>9, <2>1, <2>3, <3>1, LessTransitive
    <3> QED BY <1>7, <2>3, <3>2, <3>3
  <2> QED BY <1>9, <2>1, <2>2, <2>3 DEF PllBest, l
<1> QED BY <1>8, <1>9 DEF Keeps, l

LEMMA PllSearchStep ==
  ASSUME PllInv, PllSearchInv, [ClocksNext]_clockVars
  PROVE  PllSearchInv'
<1> SUFFICES ASSUME family' \in PllFamilies
             PROVE  PllSearchInv'
  BY DEF PllSearchInv
<1>0. family' = family
  BY FamilyStays
<1>1. LimitsLike(LimitsOf(job)) /\ FirstOuter \in 0 .. 28 /\ LastOuter \in 0 .. 28 /\ FirstOuter <= LastOuter
  BY LimitsAre, OuterIs DEF FirstOuter, LastOuter
<1>2. CASE UNCHANGED clockVars
  <2>1. UNCHANGED <<family, pc, job, at, best>>
    BY <1>2 DEF clockVars
  <2>2. /\ FirstOuter' = FirstOuter /\ LastOuter' = LastOuter
        /\ \A k : PllBest(best, k)' <=> PllBest(best, k)
    <3>1. PICK b : b = best'
      OBVIOUS
    <3> QED BY <2>1, <3>1, PllBestKept
  <2> QED BY <1>0, <2>1, <2>2 DEF PllSearchInv
<1>3. CASE AskPll
  <2>1. PICK j, b : j = job' /\ b = best'
    OBVIOUS
  <2>2. PICK c \in Clocks, lvds \in BOOLEAN, channelB \in BOOLEAN :
          job' = [clock |-> c, lvds |-> lvds, channelB |-> channelB]
    BY <1>3 DEF AskPll
  <2>3. job' \in PllJobs
    BY <2>2 DEF PllJobs
  <2>4. /\ LimitsOf(job)' = LimitsOf(j)
        /\ \A l : OuterRange(l)' = OuterRange(l)
    BY <1>0, <2>1, PllKept
  <2>5. at' = <<OuterRange(LimitsOf(j))[1]>> /\ best' = Nothing /\ pc' = "search"
    BY <1>3, <2>1 DEF AskPll
  <2>6. FirstOuter' = OuterRange(LimitsOf(j))[1] /\ LastOuter' = OuterRange(LimitsOf(j))[2]
    BY <2>4, Zenon DEF FirstOuter, LastOuter
  <2>7. PICK first \in 0 .. 28, last \in 0 .. 28 :
          first = OuterRange(LimitsOf(j))[1] /\ last = OuterRange(LimitsOf(j))[2] /\ first <= last
    BY LimitsAre, OuterIs
  <2>8. first \in first .. last + 1 /\ first .. first - 1 = {}
    BY <2>7
  <2>9. PllBest(best, first)'
    <3>1. Looked(first)' = {}
      BY <2>6, <2>7, <2>8 DEF Looked
    <3> QED BY <2>5, <3>1 DEF PllBest
  <2> QED BY <2>3, <2>5, <2>6, <2>7, <2>8, <2>9 DEF PllSearchInv
<1>4. CASE SearchPll
  <2>1. pc = "search" /\ job' = job /\ family \in PllFamilies
    BY <1>4 DEF SearchPll
  <2>2. job \in PllJobs
    BY <2>1 DEF PllSearchInv
  <2>3. PICK k \in FirstOuter .. LastOuter + 1 : at = <<k>> /\ PllBest(best, k)
    BY <2>1 DEF PllSearchInv
  <2>4. at[1] = k
    BY <2>3
  <2>5. PICK b : b = best'
    OBVIOUS
  <2>6. /\ FirstOuter' = FirstOuter /\ LastOuter' = LastOuter
        /\ \A i : PllBest(best, i)' <=> PllBest(b, i)
    BY <1>0, <2>1, <2>5, PllBestKept
  <2>7. CASE k <= LastOuter /\ best' = KeepCloser(job, LimitsOf(job), k, best) /\ at' = <<k + 1>>
             /\ pc' = pc
    <3>1. k \in FirstOuter .. LastOuter /\ k + 1 \in FirstOuter .. LastOuter + 1
      BY <1>1, <2>7
    <3>2. b = KeepBelow(job, LimitsOf(job), k, best, Bar(best))
      BY <2>5, <2>7 DEF KeepCloser, Bar
    <3>3. Bar(best) \in Fractions
      BY <1>1, <2>1, <2>2, <2>3, <3>1, BarType
    <3>4. Keeps(job, LimitsOf(job), k, best, Bar(best), b)
      <4>1. k \in OuterRange(LimitsOf(job))[1] .. OuterRange(LimitsOf(job))[2]
        BY <3>1 DEF FirstOuter, LastOuter
      <4>2. job.clock \in Clocks
        BY <2>2 DEF PllJobs
      <4> QED BY <1>1, <2>1, <3>2, <3>3, <4>1, <4>2, KeptIs
    <3>5. PllBest(b, k + 1)
      BY <2>1, <2>2, <2>3, <3>1, <3>4, PllLooked
    <3> QED BY <2>1, <2>2, <2>6, <2>7, <3>1, <3>5 DEF PllSearchInv
  <2>8. CASE k > LastOuter /\ pc' = "done" /\ best' = best
    <3>1. k = LastOuter + 1
      BY <1>1, <2>8
    <3> QED BY <2>1, <2>2, <2>3, <2>5, <2>6, <2>8, <3>1 DEF PllSearchInv
  <2>9. \/ k <= LastOuter /\ best' = KeepCloser(job, LimitsOf(job), k, best) /\ at' = <<k + 1>>
           /\ pc' = pc
        \/ k > LastOuter /\ pc' = "done" /\ best' = best
    BY <1>4, <2>4 DEF SearchPll, LastOuter
  <2> QED BY <2>7, <2>8, <2>9
<1>5. ~(AskWrpll \/ SearchWrpll \/ AskSkylake \/ SearchSkylake \/ AskLink)
  BY <1>0, StepsOf DEF PllFamilies
<1>6. ~(AskTigerLake \/ SearchTigerLake \/ ProgramPLL \/ Unlocked \/ Configure \/ Locked \/ PllAnswers)
  BY <1>0 DEF AskTigerLake, SearchTigerLake, ProgramPLL, Unlocked, Configure, Locked, PllAnswers,
     PllInv, Programming, PllFamilies
<1> QED BY <1>2, <1>3, <1>4, <1>5, <1>6 DEF ClocksNext

\* Which tables the families use.
LEMMA TableOf ==
  ASSUME NEW j
  PROVE  /\ family = "g4x" =>
              LimitsOf(j) \in {kLimitsG4xSdvo, kLimitsG4xLvdsSingle, kLimitsG4xLvdsDual}
         /\ family = "ironlake" =>
              LimitsOf(j) \in {kLimitsIlkDac, kLimitsIlkLvdsSingle, kLimitsIlkLvdsDual}
         /\ family = "pineview" => LimitsOf(j) = IF j.lvds THEN kLimitsPinLvds ELSE kLimitsPinSdvo
         /\ family = "85x" => LimitsOf(j) = kLimits85x
         /\ family \in {"83x", "9xx", "96x"} =>
              LimitsOf(j) = IF j.lvds THEN kLimits9xxLvds ELSE kLimits9xxSdvo
BY DEF LimitsOf

\* Every M between the limits is the sum of five M1 and an M2.
MSplits(l) ==
  \A m \in l.m[1] .. l.m[2] :
    \E m1 \in l.m1[1] .. l.m1[2], m2 \in l.m2[1] .. l.m2[2] : m = 5 * m1 + m2

LEMMA G4xSplits ==
  ASSUME NEW l \in {kLimitsG4xSdvo, kLimitsG4xLvdsSingle, kLimitsG4xLvdsDual}
  PROVE  MSplits(l)
<1>1. l.m = <<104, 138>> /\ l.m1 = <<19, 25>> /\ l.m2 = <<7, 13>>
  BY DEF kLimitsG4xSdvo, kLimitsG4xLvdsSingle, kLimitsG4xLvdsDual, Limits
<1>2. ASSUME NEW m \in 104 .. 138
      PROVE  \E m1 \in 19 .. 25, m2 \in 7 .. 13 : m = 5 * m1 + m2
  <2>1. CASE m <= 136
    <3>1. PICK m1 \in 19 .. 25 : m1 = (m - 7) \div 5
      BY <2>1
    <3>2. m - 5 * m1 \in 7 .. 13
      BY <2>1, <3>1
    <3>3. m = 5 * m1 + (m - 5 * m1)
      OBVIOUS
    <3> QED BY <3>2, <3>3
  <2>2. CASE m \in 137 .. 138
    <3>1. 25 \in 19 .. 25 /\ m - 125 \in 7 .. 13 /\ m = 5 * 25 + (m - 125)
      BY <2>2
    <3> QED BY <3>1
  <2> QED BY <2>1, <2>2
<1> QED BY <1>1, <1>2 DEF MSplits

LEMMA IronlakeSplits ==
  ASSUME NEW l \in {kLimitsIlkDac, kLimitsIlkLvdsSingle, kLimitsIlkLvdsDual}
  PROVE  MSplits(l)
<1>1. l.m[1] = 79 /\ l.m[2] \in 79 .. 127 /\ l.m1 = <<14, 24>> /\ l.m2 = <<7, 11>>
  BY DEF kLimitsIlkDac, kLimitsIlkLvdsSingle, kLimitsIlkLvdsDual, Limits
<1>2. ASSUME NEW m \in 79 .. 127
      PROVE  \E m1 \in 14 .. 24, m2 \in 7 .. 11 : m = 5 * m1 + m2
  <2>1. PICK m1 \in 14 .. 24 : m1 = (m - 7) \div 5
    OBVIOUS
  <2>2. m - 5 * m1 \in 7 .. 11
    BY <2>1
  <2>3. m = 5 * m1 + (m - 5 * m1)
    OBVIOUS
  <2> QED BY <2>2, <2>3
<1> QED BY <1>1, <1>2 DEF MSplits

\* In the tables of the older generations no M2 reaches an M1.
LEMMA SecondBelowFirst ==
  ASSUME family \in {"83x", "85x", "9xx", "96x"}, NEW j
  PROVE  LimitsOf(j).m2[2] < LimitsOf(j).m1[1]
<1>1. LimitsOf(j) \in {kLimits85x, kLimits9xxLvds, kLimits9xxSdvo}
  BY TableOf
<1>2. \A l \in {kLimits85x, kLimits9xxLvds, kLimits9xxSdvo} : l.m2[2] < l.m1[1]
  BY DEF kLimits85x, kLimits9xxLvds, kLimits9xxSdvo, Limits
<1> QED BY <1>1, <1>2

LEMMA MadeLooked ==
  ASSUME family \in PllFamilies, NEW l, l = LimitsOf(job),
         NEW n \in l.n[1] .. l.n[2], NEW m1 \in l.m1[1] .. l.m1[2],
         NEW m2 \in l.m2[1] .. l.m2[2], NEW p1 \in l.p1[1] .. l.p1[2]
  PROVE  Made(n, m1, m2, p1, compute_pll_p2(job, l)) \in Looked(LastOuter + 1)
<1>1. LimitsLike(l)
  BY LimitsAre
<1>2. PICK o \in OuterRange(l)[1] .. OuterRange(l)[2] : o = IF G4xSearch THEN n ELSE m1
  BY DEF OuterRange
<1> DEFINE ns == IF G4xSearch THEN {o} ELSE l.n[1] .. l.n[2]
           m1s == IF G4xSearch THEN l.m1[1] .. l.m1[2] ELSE {o}
           m2s == IF G4xSearch \/ family = "pineview"
                  THEN l.m2[1] .. l.m2[2] ELSE l.m2[1] .. Min({l.m2[2], o - 1})
           p1s == l.p1[1] .. l.p1[2]
<1>3. PllCandidates(job, l, o)
        = {Made(x, y, z, w, compute_pll_p2(job, l)) : x \in ns, y \in m1s, z \in m2s, w \in p1s}
  BY DEF PllCandidates, Made
<1>4. n \in ns /\ m1 \in m1s /\ p1 \in p1s
  BY <1>2
<1>5. m2 \in m2s
  <2>1. CASE G4xSearch \/ family = "pineview"
    BY <2>1
  <2>2. CASE ~G4xSearch /\ family # "pineview"
    <3>1. family \in {"83x", "85x", "9xx", "96x"}
      BY <2>2 DEF G4xSearch, PllFamilies
    <3>2. l.m2[2] < l.m1[1]
      BY <3>1, SecondBelowFirst
    <3>3. PICK a \in Int, b \in Int, c \in Int : a = l.m2[1] /\ b = l.m2[2] /\ c = o - 1
      <4>1. l.m2[1] \in Int /\ l.m2[2] \in Int
        BY <1>1 DEF LimitsLike
      <4>2. o - 1 \in Int
        OBVIOUS
      <4> QED BY <4>1, <4>2, Zenon
    <3>4. b <= c
      BY <1>1, <1>2, <2>2, <3>2, <3>3 DEF LimitsLike
    <3>5. Min({b, c}) = b
      BY <3>4, MinOfTwo
    <3>6. m2s = a .. b
      BY <2>2, <3>3, <3>5
    <3> QED BY <3>3, <3>6
  <2> QED BY <2>1, <2>2
<1> HIDE DEF ns, m1s, m2s, p1s
<1>6. Made(n, m1, m2, p1, compute_pll_p2(job, l)) \in PllCandidates(job, l, o)
  BY <1>3, <1>4, <1>5
<1>7. o \in FirstOuter .. (LastOuter + 1) - 1
  <2>1. LastOuter \in Int /\ FirstOuter = OuterRange(l)[1] /\ LastOuter = OuterRange(l)[2]
    BY <1>1, OuterIs DEF FirstOuter, LastOuter
  <2> QED BY <2>1
<1> QED BY <1>6, <1>7 DEF Looked

\* The divisor search ends within the limits of the generator and nothing within them is
\* closer (compute_dpll_9xx, compute_dpll_g4x).
LEMMA PllEnds == PllInv /\ PllSearchInv => NothingCloser
<1> DEFINE l == LimitsOf(job)
           p2 == compute_pll_p2(job, l)
           ms == IF G4xSearch THEN l.m[1] .. l.m[2]
                 ELSE {compute_pll_m(m1, m2) : m1 \in l.m1[1] .. l.m1[2], m2 \in l.m2[1] .. l.m2[2]}
           ps == {p1 * p2 : p1 \in l.p1[1] .. l.p1[2]}
           all == {d \in [n : l.n[1] .. l.n[2], m : ms, p : ps] : valid_pll_divisors(d, l)}
           bar == IF best = Nothing THEN <<job.clock * 100, 1>> ELSE PllError(job, best)
<1> SUFFICES ASSUME PllSearchInv, pc = "done", family \in PllFamilies
             PROVE  /\ best # Nothing => valid_pll_divisors(best, l)
                    /\ \A d \in all : ~Less(PllError(job, d), bar)
  BY DEF NothingCloser
<1>1. PllBest(best, LastOuter + 1)
  BY DEF PllSearchInv
<1>2. best # Nothing => valid_pll_divisors(best, l)
  BY <1>1 DEF PllBest
<1>3. LimitsLike(l)
  BY LimitsAre
<1>4. bar = Bar(best)
  BY DEF Bar
<1>5. ASSUME NEW d \in all
      PROVE  ~Less(PllError(job, d), bar)
  <2>1. /\ d.n \in l.n[1] .. l.n[2] /\ d.m \in ms /\ d.p \in ps /\ valid_pll_divisors(d, l)
    BY <1>5
  <2> HIDE DEF all
  <2>2. PICK p1 \in l.p1[1] .. l.p1[2] : d.p = p1 * p2
    BY <2>1
  <2> HIDE DEF ps
  <2>3. PICK m1 \in l.m1[1] .. l.m1[2], m2 \in l.m2[1] .. l.m2[2] : d.m = compute_pll_m(m1, m2)
    <3>1. CASE G4xSearch
      <4>1. MSplits(l)
        BY <3>1, TableOf, G4xSplits, IronlakeSplits DEF G4xSearch
      <4>2. PICK m1 \in l.m1[1] .. l.m1[2], m2 \in l.m2[1] .. l.m2[2] : d.m = 5 * m1 + m2
        BY <2>1, <3>1, <4>1 DEF MSplits
      <4>3. compute_pll_m(m1, m2) = 5 * m1 + m2
        BY <3>1 DEF G4xSearch, compute_pll_m
      <4> QED BY <4>2, <4>3
    <3>2. CASE ~G4xSearch
      BY <2>1, <3>2
    <3> QED BY <3>1, <3>2
  <2> HIDE DEF ms
  <2>4. PICK e \in Looked(LastOuter + 1) : e = Made(d.n, m1, m2, p1, p2)
    BY <2>1, MadeLooked
  <2>5. e.n = d.n /\ e.m = d.m /\ e.p = d.p
    BY <2>2, <2>3, <2>4 DEF Made
  <2> HIDE DEF l, p2, bar
  <2>6. valid_pll_divisors(e, l) <=> valid_pll_divisors(d, l)
    BY <2>5, Zenon DEF valid_pll_divisors
  <2>7. PllError(job, e) = PllError(job, d)
    BY <2>5, Zenon DEF PllError
  <2>8. ~Less(PllError(job, e), Bar(best))
    BY <1>1, <2>1, <2>4, <2>6 DEF PllBest, l
  <2> QED BY <1>4, <2>7, <2>8
<1> QED BY <1>2, <1>5

\* Powers of two.
PowersOfTwo == <<1, 2, 4, 8, 16, 32, 64, 128, 256, 512, 1024, 2048, 4096, 8192, 16384, 32768, 65536>>

LEMMA PowersAre ==
  /\ 2 ^ 0 = 1 /\ 2 ^ 1 = 2 /\ 2 ^ 2 = 4 /\ 2 ^ 3 = 8 /\ 2 ^ 4 = 16 /\ 2 ^ 5 = 32 /\ 2 ^ 6 = 64
  /\ 2 ^ 7 = 128 /\ 2 ^ 8 = 256 /\ 2 ^ 9 = 512 /\ 2 ^ 10 = 1024 /\ 2 ^ 11 = 2048 /\ 2 ^ 12 = 4096
  /\ 2 ^ 13 = 8192 /\ 2 ^ 14 = 16384 /\ 2 ^ 15 = 32768 /\ 2 ^ 16 = 65536
OBVIOUS

LEMMA PowerIs ==
  ASSUME NEW k \in 0 .. 16
  PROVE  2 ^ k = PowersOfTwo[k + 1]
<1>1. k \in {0, 1, 2, 3, 4, 5, 6, 7, 8, 9, 10, 11, 12, 13, 14, 15, 16}
  OBVIOUS
<1>2. /\ 2 ^ 0 = PowersOfTwo[0 + 1] /\ 2 ^ 1 = PowersOfTwo[1 + 1] /\ 2 ^ 2 = PowersOfTwo[2 + 1]
      /\ 2 ^ 3 = PowersOfTwo[3 + 1] /\ 2 ^ 4 = PowersOfTwo[4 + 1] /\ 2 ^ 5 = PowersOfTwo[5 + 1]
      /\ 2 ^ 6 = PowersOfTwo[6 + 1] /\ 2 ^ 7 = PowersOfTwo[7 + 1] /\ 2 ^ 8 = PowersOfTwo[8 + 1]
  BY PowersAre DEF PowersOfTwo
<1>3. /\ 2 ^ 9 = PowersOfTwo[9 + 1] /\ 2 ^ 10 = PowersOfTwo[10 + 1] /\ 2 ^ 11 = PowersOfTwo[11 + 1]
      /\ 2 ^ 12 = PowersOfTwo[12 + 1] /\ 2 ^ 13 = PowersOfTwo[13 + 1] /\ 2 ^ 14 = PowersOfTwo[14 + 1]
      /\ 2 ^ 15 = PowersOfTwo[15 + 1] /\ 2 ^ 16 = PowersOfTwo[16 + 1]
  BY PowersAre DEF PowersOfTwo
<1> QED BY <1>1, <1>2, <1>3, Zenon

LEMMA PowersDiffer ==
  ASSUME NEW k \in 0 .. 16, NEW n \in 0 .. 16, 2 ^ k = 2 ^ n
  PROVE  k = n
<1>1. \A i \in 1 .. 17 : PowersOfTwo[i] \in Nat
  BY DEF PowersOfTwo
<1>2. \A i \in 1 .. 16 : PowersOfTwo[i] < PowersOfTwo[i + 1]
  BY DEF PowersOfTwo
<1>3. \A i, j \in 1 .. 17 : i < j => PowersOfTwo[i] < PowersOfTwo[j]
  BY DEF PowersOfTwo
<1>4. PICK i \in 1 .. 17, j \in 1 .. 17 : i = k + 1 /\ j = n + 1
  OBVIOUS
<1>5. PowersOfTwo[i] = PowersOfTwo[j]
  BY <1>4, PowerIs
<1>6. i = j
  BY <1>1, <1>3, <1>5
<1> QED BY <1>4, <1>6

\* The bit a field with one bit set stands for.
LEMMA BitIs ==
  ASSUME NEW n \in 0 .. 8, NEW y, y = 2 ^ n
  PROVE  (CHOOSE k \in 0 .. 16 : 2 ^ k = y) = n
<1>1. n \in 0 .. 16
  OBVIOUS
<1>2. \A k \in 0 .. 16 : 2 ^ k = y <=> k = n
  BY <1>1, PowersDiffer
<1> QED BY <1>1, <1>2, Zenon

LEMMA SmallPower ==
  ASSUME NEW n \in 0 .. 7
  PROVE  /\ 2 ^ n \in 0 .. 128
         /\ (2 ^ n) * (2 ^ 1) = 2 ^ (n + 1)
<1>1. n \in 0 .. 16 /\ n + 1 \in 0 .. 16 /\ 1 \in 0 .. 16
  OBVIOUS
<1>2. 2 ^ n = PowersOfTwo[n + 1] /\ 2 ^ (n + 1) = PowersOfTwo[(n + 1) + 1]
  BY <1>1, PowerIs
<1>3. \A i \in 1 .. 8 : PowersOfTwo[i] \in 0 .. 128
  BY DEF PowersOfTwo
<1>4. \A i \in 1 .. 8 : PowersOfTwo[i] * 2 = PowersOfTwo[i + 1]
  BY DEF PowersOfTwo
<1>5. PICK i \in 1 .. 8 : i = n + 1
  OBVIOUS
<1>6. 2 ^ n = PowersOfTwo[i] /\ 2 ^ (n + 1) = PowersOfTwo[i + 1]
  BY <1>2, <1>5
<1>7. 2 ^ 1 = 2
  BY PowersAre
<1> QED BY <1>3, <1>4, <1>6, <1>7

\* The field of P1 has the bit below the one P1 stands for, and is wide enough.
LEMMA FieldOfP ==
  ASSUME NEW p1 \in 1 .. 8, NEW width \in {256, 512}
  PROVE  ((2 ^ (p1 - 1)) % width) * (2 ^ 1) = 2 ^ p1
<1>1. PICK q \in 0 .. 7 : q = p1 - 1 /\ q + 1 = p1
  OBVIOUS
<1>2. PICK x \in 0 .. 128 : x = 2 ^ q
  BY SmallPower
<1>3. x % 256 = x /\ x % 512 = x
  OBVIOUS
<1>4. (2 ^ (p1 - 1)) % width = 2 ^ q
  <2>1. x % width = x
    BY <1>3
  <2> QED BY <1>1, <1>2, <2>1
<1>5. (2 ^ q) * (2 ^ 1) = 2 ^ (q + 1)
  BY SmallPower
<1> QED BY <1>1, <1>4, <1>5

LEMMA BoundsAre ==
  ASSUME NEW lo \in Int, NEW hi \in Int, NEW x \in (lo .. hi) \X (lo .. hi)
  PROVE  x[1] \in Int /\ x[2] \in Int
OBVIOUS

LEMMA PineviewAre ==
  ASSUME NEW l \in {kLimitsPinLvds, kLimitsPinSdvo}
  PROVE  /\ l.n = <<3, 6>> /\ l.m[1] = 2 /\ l.m2[2] = 254 /\ l.p1 = <<1, 8>>
         /\ l = kLimitsPinLvds => l.p2 = <<14, 14>>
         /\ l = kLimitsPinSdvo => l.p2 = <<5, 10>>
<1>1. /\ kLimitsPinLvds.n = <<3, 6>> /\ kLimitsPinLvds.m[1] = 2 /\ kLimitsPinLvds.m2[2] = 254
      /\ kLimitsPinLvds.p1 = <<1, 8>> /\ kLimitsPinLvds.p2 = <<14, 14>>
  BY DEF kLimitsPinLvds, Limits
<1>2. /\ kLimitsPinSdvo.n = <<3, 6>> /\ kLimitsPinSdvo.m[1] = 2 /\ kLimitsPinSdvo.m2[2] = 254
      /\ kLimitsPinSdvo.p1 = <<1, 8>> /\ kLimitsPinSdvo.p2 = <<5, 10>>
  BY DEF kLimitsPinSdvo, Limits
<1> QED BY <1>1, <1>2, Zenon

\* The tables of the other generations from the third on, for panels and for the rest.
PanelTables == {kLimits9xxLvds, kLimitsG4xLvdsSingle, kLimitsG4xLvdsDual, kLimitsIlkLvdsSingle,
                kLimitsIlkLvdsDual}
OtherTables == {kLimits9xxSdvo, kLimitsG4xSdvo, kLimitsIlkDac}

WithinFields(l) ==
  /\ l.n[1] >= 3 /\ l.n[2] <= 8 /\ l.m1[1] >= 10 /\ l.m1[2] <= 25
  /\ l.m2[1] >= 5 /\ l.m2[2] <= 13 /\ l.p1[1] >= 1 /\ l.p1[2] <= 8

LEMMA OthersAre ==
  /\ \A l \in PanelTables \cup OtherTables : WithinFields(l)
  /\ \A l \in PanelTables : l.p2[1] \in {7, 14} /\ l.p2[2] \in {7, 14}
  /\ \A l \in OtherTables : l.p2[1] \in {5, 10} /\ l.p2[2] \in {5, 10}
<1>1. WithinFields(kLimits9xxLvds) /\ kLimits9xxLvds.p2[1] \in {7, 14} /\ kLimits9xxLvds.p2[2] \in {7, 14}
  BY DEF kLimits9xxLvds, Limits, WithinFields
<1>2. /\ WithinFields(kLimitsG4xLvdsSingle)
      /\ kLimitsG4xLvdsSingle.p2[1] \in {7, 14} /\ kLimitsG4xLvdsSingle.p2[2] \in {7, 14}
  BY DEF kLimitsG4xLvdsSingle, Limits, WithinFields
<1>3. /\ WithinFields(kLimitsG4xLvdsDual)
      /\ kLimitsG4xLvdsDual.p2[1] \in {7, 14} /\ kLimitsG4xLvdsDual.p2[2] \in {7, 14}
  BY DEF kLimitsG4xLvdsDual, Limits, WithinFields
<1>4. /\ WithinFields(kLimitsIlkLvdsSingle)
      /\ kLimitsIlkLvdsSingle.p2[1] \in {7, 14} /\ kLimitsIlkLvdsSingle.p2[2] \in {7, 14}
  BY DEF kLimitsIlkLvdsSingle, Limits, WithinFields
<1>5. /\ WithinFields(kLimitsIlkLvdsDual)
      /\ kLimitsIlkLvdsDual.p2[1] \in {7, 14} /\ kLimitsIlkLvdsDual.p2[2] \in {7, 14}
  BY DEF kLimitsIlkLvdsDual, Limits, WithinFields
<1>6. WithinFields(kLimits9xxSdvo) /\ kLimits9xxSdvo.p2[1] \in {5, 10} /\ kLimits9xxSdvo.p2[2] \in {5, 10}
  BY DEF kLimits9xxSdvo, Limits, WithinFields
<1>7. WithinFields(kLimitsG4xSdvo) /\ kLimitsG4xSdvo.p2[1] \in {5, 10} /\ kLimitsG4xSdvo.p2[2] \in {5, 10}
  BY DEF kLimitsG4xSdvo, Limits, WithinFields
<1>8. WithinFields(kLimitsIlkDac) /\ kLimitsIlkDac.p2[1] \in {5, 10} /\ kLimitsIlkDac.p2[2] \in {5, 10}
  BY DEF kLimitsIlkDac, Limits, WithinFields
<1> QED BY <1>1, <1>2, <1>3, <1>4, <1>5, <1>6, <1>7, <1>8, Zenon DEF PanelTables, OtherTables

\* What is looked at is made of divisors within the limits.
LEMMA LookedShaped ==
  ASSUME NEW k \in FirstOuter .. LastOuter + 1, NEW d \in Looked(k)
  PROVE  Shaped(job, LimitsOf(job), d)
<1>1. PICK l : l = LimitsOf(job) /\ LimitsLike(l)
  BY LimitsAre
<1>2. FirstOuter \in Int /\ LastOuter \in Int /\ OuterRange(l)[1] = FirstOuter /\ OuterRange(l)[2] = LastOuter
  BY <1>1, OuterIs DEF FirstOuter, LastOuter
<1>3. PICK o \in FirstOuter .. k - 1 : d \in PllCandidates(job, l, o)
  BY <1>1 DEF Looked
<1>4. o \in FirstOuter .. LastOuter
  BY <1>2
<1> QED BY <1>1, <1>2, <1>3, <1>4, CandidateIs

\* From generation 3 on the fields of the registers stand for the divisors that were found
\* (Pipe::ConfigureClocks).
LEMMA DivisorsTold == PllInv /\ PllSearchInv => ProgrammedDivisors
<1> SUFFICES ASSUME PllSearchInv, pc = "done", family \in PllFamilies, best # Nothing, Generation >= 3
             PROVE  DecodedDivisors(PllFields(best, job.clock), job.lvds)
                      = [n |-> best.n, m |-> best.m, p |-> best.p]
  BY DEF ProgrammedDivisors
<1>1. PllBest(best, LastOuter + 1) /\ job \in PllJobs
  BY DEF PllSearchInv
<1>2. family \in {"pineview", "9xx", "96x", "g4x", "ironlake"}
  BY DEF Generation, PllFamilies
<1>3. PICK l : l = LimitsOf(job)
  OBVIOUS
<1>4. valid_pll_divisors(best, l) /\ best \in Looked(LastOuter + 1)
  BY <1>1, <1>3 DEF PllBest
<1>5. Shaped(job, l, best)
  <2>1. LastOuter + 1 \in FirstOuter .. LastOuter + 1
    <3>1. FirstOuter \in 0 .. 28 /\ LastOuter \in 0 .. 28 /\ FirstOuter <= LastOuter
      BY LimitsAre, OuterIs DEF FirstOuter, LastOuter
    <3> QED BY <3>1
  <2> QED BY <1>3, <1>4, <2>1, LookedShaped
<1>6. PICK n \in 3 .. 18, m1 \in 0 .. 28, m2 \in 0 .. 254, p1 \in 1 .. 33, p2 \in 2 .. 14 :
        /\ n \in l.n[1] .. l.n[2] /\ m1 \in l.m1[1] .. l.m1[2]
        /\ m2 \in l.m2[1] .. l.m2[2] /\ p1 \in l.p1[1] .. l.p1[2]
        /\ p2 = compute_pll_p2(job, l) /\ best = Made(n, m1, m2, p1, p2)
  BY <1>5, Zenon DEF Shaped
<1>7. /\ best.n = n /\ best.m1 = m1 /\ best.m2 = m2 /\ best.p1 = p1 /\ best.p2 = p2
      /\ best.m = compute_pll_m(m1, m2) /\ best.p = p1 * p2
  <2>1. MadeOf(n, m1, m2, p1, p2, best)
    BY <1>6, MadeIs
  <2> QED BY <2>1 DEF MadeOf
<1>8. p2 \in {l.p2[1], l.p2[2]}
  BY <1>6, Zenon DEF compute_pll_p2
<1>9. PICK r : r = PllFields(best, job.clock)
  OBVIOUS
<1>10. /\ r.m1 = IF family = "pineview" THEN 0 ELSE (m1 - 2) % 32
       /\ r.high <=> p2 \in {5, 7}
  BY <1>7, <1>9 DEF PllFields
<1>11. PICK bit : bit = p1 - 1
  OBVIOUS
<1>12. CASE family = "pineview"
  <2>1. l = IF job.lvds THEN kLimitsPinLvds ELSE kLimitsPinSdvo
    BY <1>3, <1>12, TableOf
  <2>2. /\ l.n = <<3, 6>> /\ l.m[1] = 2 /\ l.m2[2] = 254 /\ l.p1 = <<1, 8>>
        /\ IF job.lvds THEN l.p2 = <<14, 14>> ELSE l.p2 = <<5, 10>>
    BY <2>1, PineviewAre
  <2>3. n \in 3 .. 6 /\ p1 \in 1 .. 8
    BY <1>6, <2>2
  <2>4. p2 = IF p2 \in {5, 7} THEN IF job.lvds THEN 7 ELSE 5 ELSE IF job.lvds THEN 14 ELSE 10
    BY <1>8, <2>2
  <2>5. best.m = m2 /\ m2 >= 2
    <3>1. best.m = m2
      BY <1>7, <1>12 DEF compute_pll_m
    <3>2. best.m \in l.m[1] .. l.m[2]
      BY <1>4 DEF valid_pll_divisors
    <3> QED BY <2>2, <3>1, <3>2
  <2>6. r.m2 = m2 - 2
    <3>1. r.m2 = (m2 - 2) % 256
      BY <1>7, <1>9, <1>12 DEF PllFields
    <3> QED BY <2>5, <3>1
  <2>7. r.n = 2 ^ n
    <3>1. r.n = (2 ^ n) % 256
      BY <1>7, <1>9, <1>12 DEF PllFields
    <3>2. PICK x \in 0 .. 128 : x = 2 ^ n
      <4>1. PICK q \in 0 .. 7 : q = n
        BY <2>3
      <4>2. 2 ^ q \in 0 .. 128
        BY SmallPower
      <4> QED BY <4>1, <4>2, Zenon
    <3>3. x % 256 = x
      OBVIOUS
    <3> QED BY <3>1, <3>2, <3>3
  <2>8. r.p1 = (2 ^ (p1 - 1)) % 512
    BY <1>7, <1>9, <1>12 DEF Generation, PllFields
  <2>9. r.p1 * (2 ^ 1) = 2 ^ p1
    <3>1. 512 \in {256, 512}
      OBVIOUS
    <3>2. p1 \in 1 .. 8
      BY <2>3
    <3>3. ((2 ^ (p1 - 1)) % 512) * (2 ^ 1) = 2 ^ p1
      BY <3>1, <3>2, FieldOfP, Zenon
    <3> QED BY <2>8, <3>3, Zenon
  <2>10. (CHOOSE k \in 0 .. 16 : 2 ^ k = r.p1 * (2 ^ 1)) = p1
    BY <2>3, <2>9, BitIs
  <2>11. (CHOOSE k \in 0 .. 16 : 2 ^ k = r.n * (2 ^ 0)) = n
    <3>1. r.n * (2 ^ 0) = 2 ^ n
      <4>1. PICK x \in 0 .. 128 : x = 2 ^ n
        <5>1. PICK q \in 0 .. 7 : q = n
          BY <2>3
        <5>2. 2 ^ q \in 0 .. 128
          BY SmallPower
        <5> QED BY <5>1, <5>2, Zenon
      <4>2. x * (2 ^ 0) = x
        BY PowersAre
      <4> QED BY <2>7, <4>1, <4>2
    <3> QED BY <2>3, <3>1, BitIs
  <2>12. DecodedDivisors(r, job.lvds) = [n |-> n, m |-> m2, p |-> p1 * p2]
    <3>1. r.m2 + 2 = m2
      BY <2>6
    <3>2. p2 = IF r.high THEN IF job.lvds THEN 7 ELSE 5 ELSE IF job.lvds THEN 14 ELSE 10
      BY <1>10, <2>4
    <3> QED BY <1>12, <2>10, <2>11, <3>1, <3>2, Zenon DEF DecodedDivisors
  <2> QED BY <1>7, <1>9, <2>5, <2>12
<1>13. CASE family # "pineview"
  <2>1. l \in IF job.lvds THEN PanelTables ELSE OtherTables
    BY <1>2, <1>3, <1>13 DEF LimitsOf, PanelTables, OtherTables
  <2>2. WithinFields(l)
    BY <2>1, OthersAre
  <2>3. IF job.lvds THEN l.p2[1] \in {7, 14} /\ l.p2[2] \in {7, 14}
                    ELSE l.p2[1] \in {5, 10} /\ l.p2[2] \in {5, 10}
    BY <2>1, OthersAre
  <2>4. n \in 3 .. 8 /\ m1 \in 10 .. 25 /\ m2 \in 5 .. 13 /\ p1 \in 1 .. 8
    <3>1. LimitsLike(l)
      BY <1>3, LimitsAre
    <3>2. PICK a \in Int, b \in Int : a = l.n[1] /\ b = l.n[2]
      <4>1. l.n \in (3 .. 18) \X (3 .. 18)
        BY <3>1, Zenon DEF LimitsLike
      <4>2. l.n[1] \in Int /\ l.n[2] \in Int
        BY <4>1, BoundsAre
      <4> QED BY <4>2, Zenon
    <3>3. PICK c \in Int, d \in Int : c = l.m1[1] /\ d = l.m1[2]
      <4>1. l.m1 \in (0 .. 28) \X (0 .. 28)
        BY <3>1, Zenon DEF LimitsLike
      <4>2. l.m1[1] \in Int /\ l.m1[2] \in Int
        BY <4>1, BoundsAre
      <4> QED BY <4>2, Zenon
    <3>4. PICK e \in Int, f \in Int : e = l.m2[1] /\ f = l.m2[2]
      <4>1. l.m2 \in (0 .. 254) \X (0 .. 254)
        BY <3>1, Zenon DEF LimitsLike
      <4>2. l.m2[1] \in Int /\ l.m2[2] \in Int
        BY <4>1, BoundsAre
      <4> QED BY <4>2, Zenon
    <3>5. PICK g \in Int, h \in Int : g = l.p1[1] /\ h = l.p1[2]
      <4>1. l.p1 \in (1 .. 33) \X (1 .. 33)
        BY <3>1, Zenon DEF LimitsLike
      <4>2. l.p1[1] \in Int /\ l.p1[2] \in Int
        BY <4>1, BoundsAre
      <4> QED BY <4>2, Zenon
    <3>6. /\ a >= 3 /\ b <= 8 /\ c >= 10 /\ d <= 25
          /\ e >= 5 /\ f <= 13 /\ g >= 1 /\ h <= 8
      BY <2>2, <3>2, <3>3, <3>4, <3>5, Zenon DEF WithinFields
    <3>7. n \in a .. b /\ m1 \in c .. d /\ m2 \in e .. f /\ p1 \in g .. h
      BY <1>6, <3>2, <3>3, <3>4, <3>5, Zenon
    <3> QED BY <3>6, <3>7
  <2>5. p2 = IF p2 \in {5, 7} THEN IF job.lvds THEN 7 ELSE 5 ELSE IF job.lvds THEN 14 ELSE 10
    BY <1>8, <2>3
  <2>6. best.m = 5 * m1 + m2
    BY <1>7, <1>13 DEF compute_pll_m
  <2>7. r.n = n - 2 /\ r.m1 = m1 - 2 /\ r.m2 = m2 - 2
    <3>1. r.n = (n - 2) % 32 /\ r.m2 = (m2 - 2) % 32 /\ r.m1 = (m1 - 2) % 32
      BY <1>7, <1>9, <1>13 DEF PllFields
    <3>2. (n - 2) % 32 = n - 2 /\ (m2 - 2) % 32 = m2 - 2 /\ (m1 - 2) % 32 = m1 - 2
      BY <2>4
    <3> QED BY <3>1, <3>2, Zenon
  <2>8. r.p1 = (2 ^ (p1 - 1)) % 256
    BY <1>7, <1>9, <1>13 DEF PllFields
  <2>9. r.p1 * (2 ^ 1) = 2 ^ p1
    <3>1. 256 \in {256, 512}
      OBVIOUS
    <3>2. p1 \in 1 .. 8
      BY <2>4
    <3>3. ((2 ^ (p1 - 1)) % 256) * (2 ^ 1) = 2 ^ p1
      BY <3>1, <3>2, FieldOfP, Zenon
    <3> QED BY <2>8, <3>3, Zenon
  <2>10. (CHOOSE k \in 0 .. 16 : 2 ^ k = r.p1 * (2 ^ 1)) = p1
    BY <2>4, <2>9, BitIs
  <2>11. DecodedDivisors(r, job.lvds) = [n |-> n, m |-> 5 * m1 + m2, p |-> p1 * p2]
    <3>1. (n - 2) + 2 = n /\ 5 * ((m1 - 2) + 2) + (m2 - 2) + 2 = 5 * m1 + m2
      BY <2>4
    <3>2. r.n + 2 = n /\ 5 * (r.m1 + 2) + r.m2 + 2 = 5 * m1 + m2
      BY <2>7, <3>1
    <3>3. p2 = IF r.high THEN IF job.lvds THEN 7 ELSE 5 ELSE IF job.lvds THEN 14 ELSE 10
      BY <1>10, <2>5
    <3> QED BY <1>13, <2>10, <3>2, <3>3, Zenon DEF DecodedDivisors
  <2> QED BY <1>7, <1>9, <2>6, <2>11
<1> QED BY <1>12, <1>13

-----------------------------------------------------------------------------
(* The Haswell search. *)

WrpllAll ==
  {x \in [p : Range(PostDividers), r2 : R2Range, n2 : 1 .. N2Last(Max(R2Range))] :
     x.n2 \in N2First(x.r2) .. N2Last(x.r2)}
WrpllMade(p, n, r) == [p |-> p, n2 |-> n, r2 |-> r]
WrpllJobs == [clock : WrpllClocks, budget : Budgets]

\* b is no worse than x.
NoWorse(b, x) ==
  \/ /\ WithinBudget(job, b)
     /\ WithinBudget(job, x) => x.n2 * Weight(b) <= b.n2 * Weight(x)
  \/ /\ ~WithinBudget(job, b) /\ ~WithinBudget(job, x)
     /\ b.p * b.r2 * Off(job, x) >= x.p * x.r2 * Off(job, b)

\* b is the best of those that were seen.
WrpllIs(b, seen) ==
  /\ b = Nothing => seen = {}
  /\ b # Nothing => b \in seen /\ \A x \in seen : NoWorse(b, x)
WrpllBefore(r, n) == {x \in WrpllAll : x.r2 < r \/ (x.r2 = r /\ x.n2 < n)}

WrpllInv ==
  family = "haswell" =>
    /\ pc # "ready" => job \in WrpllJobs
    /\ pc = "search" => \E r \in R2Range : \E n \in N2First(r) .. N2Last(r) :
         /\ at = <<r, n>> /\ WrpllIs(best, WrpllBefore(r, n))
    /\ pc = "done" /\ job.clock # 5400 => WrpllIs(best, WrpllAll)

\* What SearchWrpll keeps of a pair with every post divider.
WrpllKept(b) ==
  FoldLeft(LAMBDA c, p : hsw_wrpll_update_rnp(job, c, [p |-> p, n2 |-> at[2], r2 |-> at[1]]),
           b, PostDividers)

\* The order of fractions that are compared by cross products.
LEMMA CrossProducts ==
  ASSUME NEW a \in Nat, NEW b \in Nat, NEW c \in Nat,
         NEW u \in Nat, NEW v \in Nat, NEW w \in Nat, v > 0,
         a * v <= b * u, b * w <= c * v
  PROVE  a * w <= c * u
<1>1. (a * v) * w <= (b * u) * w
  OBVIOUS
<1>2. (b * w) * u <= (c * v) * u
  OBVIOUS
<1>3. (a * w) * v <= (c * u) * v
  BY <1>1, <1>2
<1>4. ASSUME NEW x \in Int, NEW y \in Int, x * v <= y * v
      PROVE  x <= y
  BY <1>4
<1>5. PICK x \in Int, y \in Int : x = a * w /\ y = c * u
  OBVIOUS
<1> QED BY <1>3, <1>4, <1>5

\* The reference dividers, and the feedback dividers of each.
LEMMA ReferencesAre ==
  \E last \in Nat : /\ last >= 14 /\ R2Range = 14 .. last
                    /\ Min(R2Range) = 14 /\ Max(R2Range) = last
<1>1. PICK m \in Nat : m = RefMin /\ m > 0 /\ m <= 385
  <2>1. RefMin \in Nat \ {0} /\ RefMin <= 385
    BY ClocksAssumption
  <2> QED BY <2>1
<1>2. PICK last \in Nat : last = 5400 \div m /\ last >= 14
  BY <1>1
<1>3. R2Range = 14 .. last
  <2>1. (2700 * 2) \div 400 + 1 = 14 /\ 2700 * 2 = 5400
    OBVIOUS
  <2> QED BY <1>1, <1>2, <2>1 DEF R2Range, LC_FREQ, REF_MAX
<1>4. Min(R2Range) = 14
  <2>1. R2Range \in SUBSET Nat /\ R2Range # {} /\ 14 \in R2Range
    BY <1>2, <1>3
  <2>2. Min(R2Range) \in R2Range /\ \A x \in R2Range : Min(R2Range) <= x
    BY <2>1, LeastIs
  <2> QED BY <1>2, <1>3, <2>1, <2>2
<1>5. Max(R2Range) = last
  <2>1. R2Range \in SUBSET (1 .. last) /\ R2Range # {} /\ last \in R2Range
    <3>1. last \in 14 .. last /\ 14 .. last \subseteq 1 .. last
      BY <1>2
    <3> QED BY <1>3, <3>1
  <2>2. Max(R2Range) \in R2Range /\ \A x \in R2Range : Max(R2Range) >= x
    BY <2>1, MostIs
  <2> QED BY <1>2, <1>3, <2>1, <2>2
<1> QED BY <1>2, <1>3, <1>4, <1>5

LEMMA FeedbacksAre ==
  ASSUME NEW r \in Nat, r >= 14
  PROVE  /\ N2First(r) \in Nat /\ N2Last(r) \in Nat
         /\ 1 <= N2First(r) /\ N2First(r) <= N2Last(r)
         /\ \A s \in Nat : s >= r => N2Last(r) <= N2Last(s)
<1>1. N2First(r) = (2400 * r) \div 2700 + 1 /\ \A s \in Nat : N2Last(s) = (4800 * s) \div 2700
  BY DEF N2First, N2Last, VCO_MIN, VCO_MAX, LC_FREQ
<1>2. (2400 * r) \div 2700 + 1 \in Nat /\ (4800 * r) \div 2700 \in Nat
      /\ 1 <= (2400 * r) \div 2700 + 1 /\ (2400 * r) \div 2700 + 1 <= (4800 * r) \div 2700
  OBVIOUS
<1>3. ASSUME NEW s \in Nat, s >= r
      PROVE  (4800 * r) \div 2700 <= (4800 * s) \div 2700
  <2>1. 4800 * r <= 4800 * s
    BY <1>3
  <2> QED BY <2>1
<1> QED BY <1>1, <1>2, <1>3

LEMMA PostDividersAre ==
  \E half \in Nat : /\ half >= 1 /\ Len(PostDividers) = half
                    /\ PostDividers = [k \in 1 .. half |-> 2 * k]
                    /\ Range(PostDividers) = {2 * k : k \in 1 .. half}
                    /\ PostDividers \in Seq(Nat)
<1>1. PICK m \in Nat : m = PMax /\ m >= 2
  <2>1. PMax \in Nat \ {0} /\ PMax >= 2
    BY ClocksAssumption
  <2> QED BY <2>1
<1>2. PICK half \in Nat : half = m \div 2 /\ half >= 1
  BY <1>1
<1>3. PostDividers = [k \in 1 .. half |-> 2 * k]
  BY <1>1, <1>2 DEF PostDividers
<1>4. Range([k \in 1 .. half |-> 2 * k]) = {2 * k : k \in 1 .. half}
  BY DEF Range
<1>5. PICK s : s = [k \in 1 .. half |-> 2 * k]
  OBVIOUS
<1>6. s \in Seq(Nat) /\ Len(s) = half
  BY <1>5
<1> QED BY <1>2, <1>3, <1>4, <1>5, <1>6

\* What a candidate is made of.
LEMMA WrpllParts ==
  ASSUME NEW x \in WrpllAll
  PROVE  /\ x.p \in Nat /\ x.p > 0 /\ x.r2 \in Nat /\ x.r2 > 0 /\ x.n2 \in Nat
         /\ Weight(x) \in Nat /\ Weight(x) > 0
         /\ x # Nothing
         /\ x = WrpllMade(x.p, x.n2, x.r2)
         /\ x.p \in Range(PostDividers) /\ x.r2 \in R2Range
         /\ x.n2 \in N2First(x.r2) .. N2Last(x.r2)
<1>1. /\ x.p \in Range(PostDividers) /\ x.r2 \in R2Range /\ x.n2 \in 1 .. N2Last(Max(R2Range))
      /\ x.n2 \in N2First(x.r2) .. N2Last(x.r2) /\ x = WrpllMade(x.p, x.n2, x.r2)
  BY DEF WrpllAll, WrpllMade
<1>2. x.p \in Nat /\ x.p > 0
  <2>1. PICK half \in Nat : Range(PostDividers) = {2 * k : k \in 1 .. half}
    BY PostDividersAre
  <2>2. PICK k \in 1 .. half : x.p = 2 * k
    BY <1>1, <2>1
  <2> QED BY <2>2
<1>3. x.r2 \in Nat /\ x.r2 > 0
  <2>1. PICK last \in Nat : R2Range = 14 .. last
    BY ReferencesAre
  <2> QED BY <1>1, <2>1
<1>4. x.n2 \in Nat
  BY <1>1
<1>5. Weight(x) \in Nat /\ Weight(x) > 0
  <2>1. PICK r \in Nat : r = x.r2 /\ r > 0
    BY <1>3
  <2>2. r * r \in Nat /\ r * r > 0
    BY <2>1
  <2> QED BY <2>1, <2>2 DEF Weight
<1>6. x # Nothing
  <2>1. Nothing.p = 0
    BY DEF Nothing
  <2> QED BY <1>2, <2>1
<1> QED BY <1>1, <1>2, <1>3, <1>4, <1>5, <1>6

LEMMA WrpllMadeIs ==
  ASSUME NEW p \in Range(PostDividers), NEW r \in R2Range, NEW n \in N2First(r) .. N2Last(r)
  PROVE  /\ WrpllMade(p, n, r) \in WrpllAll
         /\ WrpllMade(p, n, r).p = p /\ WrpllMade(p, n, r).n2 = n /\ WrpllMade(p, n, r).r2 = r
<1>1. PICK last \in Nat : last >= 14 /\ R2Range = 14 .. last /\ Max(R2Range) = last
  BY ReferencesAre
<1>2. r \in Nat /\ r >= 14 /\ last >= r
  BY <1>1
<1>3. 1 <= N2First(r) /\ N2Last(r) <= N2Last(last) /\ N2First(r) \in Nat /\ N2Last(r) \in Nat
  BY <1>1, <1>2, FeedbacksAre
<1>4. N2Last(last) \in Nat
  BY <1>1, FeedbacksAre
<1>5. n \in 1 .. N2Last(Max(R2Range))
  BY <1>1, <1>3, <1>4
<1> QED BY <1>5 DEF WrpllMade, WrpllAll

\* What the code asks of a candidate before it replaces the best one.
Better(x, b) ==
  \/ /\ ~WithinBudget(job, x) /\ ~WithinBudget(job, b)
     /\ b.p * b.r2 * Off(job, x) < x.p * x.r2 * Off(job, b)
  \/ WithinBudget(job, x) /\ ~WithinBudget(job, b)
  \/ /\ WithinBudget(job, x) /\ WithinBudget(job, b)
     /\ x.n2 * Weight(b) > b.n2 * Weight(x)

\* The divisors that the error of a candidate is scaled by, and the error.
LEMMA WrpllErrorIs ==
  ASSUME job \in WrpllJobs, NEW x \in WrpllAll
  PROVE  \E q \in Nat, e \in Nat : q > 0 /\ q = x.p * x.r2 /\ e = Off(job, x)
<1>1. PICK p \in Nat, r \in Nat, n \in Nat : p = x.p /\ r = x.r2 /\ n = x.n2 /\ p > 0 /\ r > 0
  BY WrpllParts
<1>2. PICK hz \in Nat : hz = job.clock
  <2>1. job.clock \in WrpllClocks
    BY DEF WrpllJobs
  <2>2. PICK c \in 200 .. 5400 : c = job.clock
    BY <2>1, ClocksAssumption
  <2>3. c \in Nat
    OBVIOUS
  <2> QED BY <2>2, <2>3
<1>3. p * r \in Nat /\ p * r > 0
  BY <1>1
<1>4. PICK d \in Int : d = hz * p * r - LC_FREQ_2K * n
  <2>1. hz * p * r - (2 * 2700) * n \in Int
    OBVIOUS
  <2> QED BY <2>1 DEF LC_FREQ_2K, LC_FREQ
<1>5. Off(job, x) = Abs(d)
  BY <1>1, <1>2, <1>4 DEF Off
<1>6. Abs(d) \in Nat
  BY DEF Abs
<1> QED BY <1>1, <1>3, <1>5, <1>6

LEMMA NoWorseOrder ==
  ASSUME job \in WrpllJobs, NEW b \in WrpllAll, NEW x \in WrpllAll
  PROVE  /\ NoWorse(b, b)
         /\ ~Better(x, b) => NoWorse(b, x)
         /\ Better(x, b) => NoWorse(x, b)
<1>1. PICK nb \in Nat, wb \in Nat : nb = b.n2 /\ wb = Weight(b)
  BY WrpllParts
<1>2. PICK nx \in Nat, wx \in Nat : nx = x.n2 /\ wx = Weight(x)
  BY WrpllParts
<1>3. PICK qb \in Nat, eb \in Nat : qb = b.p * b.r2 /\ eb = Off(job, b)
  BY WrpllErrorIs
<1>4. PICK qx \in Nat, ex \in Nat : qx = x.p * x.r2 /\ ex = Off(job, x)
  BY WrpllErrorIs
<1>5. PICK ib \in BOOLEAN, ix \in BOOLEAN : (ib <=> WithinBudget(job, b)) /\ (ix <=> WithinBudget(job, x))
  OBVIOUS
<1>6. NoWorse(b, b) <=> (ib /\ (ib => nb * wb <= nb * wb)) \/ (~ib /\ ~ib /\ qb * eb >= qb * eb)
  BY <1>1, <1>3, <1>5, Zenon DEF NoWorse
<1>7. NoWorse(b, x) <=> (ib /\ (ix => nx * wb <= nb * wx)) \/ (~ib /\ ~ix /\ qb * ex >= qx * eb)
  BY <1>1, <1>2, <1>3, <1>4, <1>5, Zenon DEF NoWorse
<1>8. NoWorse(x, b) <=> (ix /\ (ib => nb * wx <= nx * wb)) \/ (~ix /\ ~ib /\ qx * eb >= qb * ex)
  BY <1>1, <1>2, <1>3, <1>4, <1>5, Zenon DEF NoWorse
<1>9. Better(x, b) <=> \/ ~ix /\ ~ib /\ qb * ex < qx * eb
                       \/ ix /\ ~ib
                       \/ ix /\ ib /\ nx * wb > nb * wx
  BY <1>1, <1>2, <1>3, <1>4, <1>5, Zenon DEF Better
<1>10. PICK s \in Int, t \in Int, u \in Int, v \in Int :
         s = nx * wb /\ t = nb * wx /\ u = qb * ex /\ v = qx * eb
  OBVIOUS
<1>11. nb * wb \in Int /\ qb * eb \in Int
  OBVIOUS
<1>12. NoWorse(b, b)
  BY <1>6, <1>11
<1>13. ~Better(x, b) => NoWorse(b, x)
  BY <1>7, <1>9, <1>10
<1>14. Better(x, b) => NoWorse(x, b)
  BY <1>8, <1>9, <1>10
<1> QED BY <1>12, <1>13, <1>14

LEMMA NoWorseTransitive ==
  ASSUME job \in WrpllJobs, NEW x \in WrpllAll, NEW b \in WrpllAll, NEW y \in WrpllAll,
         NoWorse(x, b), NoWorse(b, y)
  PROVE  NoWorse(x, y)
<1>1. PICK nb \in Nat, wb \in Nat : nb = b.n2 /\ wb = Weight(b) /\ wb > 0
  BY WrpllParts
<1>2. PICK nx \in Nat, wx \in Nat : nx = x.n2 /\ wx = Weight(x)
  BY WrpllParts
<1>3. PICK ny \in Nat, wy \in Nat : ny = y.n2 /\ wy = Weight(y)
  BY WrpllParts
<1>4. PICK qb \in Nat, eb \in Nat : qb = b.p * b.r2 /\ eb = Off(job, b) /\ qb > 0
  BY WrpllErrorIs
<1>5. PICK qx \in Nat, ex \in Nat : qx = x.p * x.r2 /\ ex = Off(job, x)
  BY WrpllErrorIs
<1>6. PICK qy \in Nat, ey \in Nat : qy = y.p * y.r2 /\ ey = Off(job, y)
  BY WrpllErrorIs
<1>7. CASE WithinBudget(job, x)
  <2>1. CASE WithinBudget(job, b) /\ WithinBudget(job, y)
    <3>1. nb * wx <= nx * wb
      BY <1>1, <1>2, <1>7, <2>1, Zenon DEF NoWorse
    <3>2. ny * wb <= nb * wy
      BY <1>1, <1>3, <2>1, Zenon DEF NoWorse
    <3>3. ny * wx <= nx * wy
      BY <1>1, <3>1, <3>2, CrossProducts
    <3> QED BY <1>2, <1>3, <1>7, <3>3, Zenon DEF NoWorse
  <2>2. CASE ~WithinBudget(job, y)
    BY <1>7, <2>2, Zenon DEF NoWorse
  <2>3. CASE ~WithinBudget(job, b)
    <3>1. ~WithinBudget(job, y)
      BY <2>3, Zenon DEF NoWorse
    <3> QED BY <1>7, <3>1, Zenon DEF NoWorse
  <2> QED BY <2>1, <2>2, <2>3
<1>8. CASE ~WithinBudget(job, x)
  <2>1. ~WithinBudget(job, b) /\ qx * eb >= qb * ex
    BY <1>4, <1>5, <1>8, Zenon DEF NoWorse
  <2>2. ~WithinBudget(job, y) /\ qb * ey >= qy * eb
    BY <1>4, <1>6, <2>1, Zenon DEF NoWorse
  <2>3. ex * qb <= eb * qx /\ eb * qy <= ey * qb
    BY <2>1, <2>2
  <2>4. ex * qy <= ey * qx
    BY <1>4, <2>3, CrossProducts
  <2>5. qx * ey >= qy * ex
    BY <2>4
  <2> QED BY <1>5, <1>6, <1>8, <2>2, <2>5, Zenon DEF NoWorse
<1> QED BY <1>7, <1>8

\* One more candidate.
LEMMA WrpllTry ==
  ASSUME job \in WrpllJobs, NEW b, NEW seen \in SUBSET WrpllAll, WrpllIs(b, seen), NEW x \in WrpllAll
  PROVE  WrpllIs(hsw_wrpll_update_rnp(job, b, x), seen \cup {x})
<1>1. hsw_wrpll_update_rnp(job, b, x) = IF b = Nothing \/ Better(x, b) THEN x ELSE b
  BY Zenon DEF hsw_wrpll_update_rnp, Better
<1>2. x # Nothing
  BY WrpllParts
<1>3. CASE b = Nothing
  <2>1. seen = {} /\ hsw_wrpll_update_rnp(job, b, x) = x
    BY <1>1, <1>3 DEF WrpllIs
  <2>2. NoWorse(x, x)
    BY NoWorseOrder
  <2> QED BY <1>2, <2>1, <2>2 DEF WrpllIs
<1>4. CASE b # Nothing
  <2>1. b \in seen /\ b \in WrpllAll /\ \A y \in seen : NoWorse(b, y)
    BY <1>4 DEF WrpllIs
  <2>2. CASE Better(x, b)
    <3>1. NoWorse(x, x) /\ NoWorse(x, b)
      BY <2>1, <2>2, NoWorseOrder
    <3>2. \A y \in seen : NoWorse(x, y)
      BY <2>1, <3>1, NoWorseTransitive
    <3>3. hsw_wrpll_update_rnp(job, b, x) = x
      BY <1>1, <2>2
    <3> QED BY <1>2, <3>1, <3>2, <3>3 DEF WrpllIs
  <2>3. CASE ~Better(x, b)
    <3>1. NoWorse(b, x)
      BY <2>1, <2>3, NoWorseOrder
    <3>2. hsw_wrpll_update_rnp(job, b, x) = b
      BY <1>1, <1>4, <2>3
    <3> QED BY <1>4, <2>1, <3>1, <3>2 DEF WrpllIs
  <2> QED BY <2>2, <2>3
<1> QED BY <1>3, <1>4

\* The pair of r and n is tried with one post divider after the other.
LEMMA WrpllFold ==
  ASSUME job \in WrpllJobs, NEW r \in R2Range, NEW n \in N2First(r) .. N2Last(r), at = <<r, n>>,
         NEW b \in WrpllAll \cup {Nothing}
  PROVE  \E g : /\ g[0] = b
                /\ g[Len(PostDividers)] = WrpllKept(b)
                /\ \A k \in 1 .. Len(PostDividers) :
                     g[k] = hsw_wrpll_update_rnp(job, g[k - 1], WrpllMade(PostDividers[k], n, r))
<1> DEFINE Put(c, p) == hsw_wrpll_update_rnp(job, c, [p |-> p, n2 |-> at[2], r2 |-> at[1]])
           half == Len(PostDividers)
           Sums(h) == h = [Y \in SUBSET (DOMAIN PostDividers) |->
                             IF Y = {} THEN b ELSE Put(h[Y \ {Max(Y)}], PostDividers[Max(Y)])]
           fold == CHOOSE h : Sums(h)
           S == WrpllAll \cup {Nothing}
           F == [i \in 1 .. half |-> [c \in S |-> Put(c, PostDividers[i])]]
<1>1. half \in Nat /\ DOMAIN PostDividers = 1 .. half
      /\ \A i \in 1 .. half : PostDividers[i] \in Range(PostDividers)
  <2>1. half \in Nat /\ DOMAIN PostDividers = 1 .. half
    BY PostDividersAre
  <2> QED BY <2>1 DEF Range
<1>2. \A c, p : Put(c, p) = hsw_wrpll_update_rnp(job, c, WrpllMade(p, n, r))
  BY DEF WrpllMade
<1>3. \A i \in 1 .. half : \A c \in S : Put(c, PostDividers[i]) \in S
  <2>1. \A i \in 1 .. half : WrpllMade(PostDividers[i], n, r) \in WrpllAll
    BY <1>1, WrpllMadeIs
  <2> QED BY <1>2, <2>1, Zenon DEF hsw_wrpll_update_rnp
<1>4. b \in S /\ \A i \in 1 .. half : \A c \in S : F[i][c] = Put(c, PostDividers[i]) /\ F[i][c] \in S
  <2> HIDE DEF Put, S
  <2>1. \A i \in 1 .. half : \A c \in S : F[i][c] = Put(c, PostDividers[i])
    OBVIOUS
  <2>2. b \in S
    BY DEF S
  <2> QED BY <1>3, <2>1, <2>2
<1> HIDE DEF S, F, half, Put
<1>5. PICK it \in [SUBSET (1 .. half) -> S] : Iterates(it, b, F, half)
  BY <1>1, <1>4, FoldExists
<1>6. Sums(it)
  <2>1. ASSUME NEW Y \in SUBSET (1 .. half), Y # {}
        PROVE  F[Max(Y)][it[Y \ {Max(Y)}]] = Put(it[Y \ {Max(Y)}], PostDividers[Max(Y)])
    <3>1. Max(Y) \in 1 .. half
      BY <1>1, <2>1, MostIs
    <3>2. it[Y \ {Max(Y)}] \in S
      OBVIOUS
    <3> QED BY <1>4, <3>1, <3>2
  <2> QED BY <1>1, <1>5, <2>1 DEF Iterates
<1>7. WrpllKept(b) = fold[DOMAIN PostDividers]
  BY Zenon DEF WrpllKept, FoldLeft, MapThenFoldSet, Put
<1> HIDE DEF Sums
<1>8. Sums(fold)
  BY <1>6, Zenon
<1> HIDE DEF fold
<1> DEFINE g == [k \in 0 .. half |-> fold[1 .. k]]
<1>9. g[0] = b /\ g[half] = fold[DOMAIN PostDividers]
  <2>1. 1 .. 0 = {} /\ {} \in SUBSET (DOMAIN PostDividers) /\ 0 \in 0 .. half /\ half \in 0 .. half
    BY <1>1
  <2> QED BY <1>1, <1>8, <2>1 DEF Sums
<1>10. \A k \in 1 .. half : g[k] = Put(g[k - 1], PostDividers[k])
  <2> SUFFICES ASSUME NEW k \in 1 .. half
               PROVE  g[k] = Put(g[k - 1], PostDividers[k])
    OBVIOUS
  <2>1. k - 1 \in Nat /\ k - 1 \in 0 .. half /\ k \in 0 .. half /\ (k - 1) + 1 = k
    BY <1>1
  <2>2. 1 .. k \in SUBSET (DOMAIN PostDividers) /\ 1 .. k # {} /\ k \in 1 .. k
    <3>1. k \in 1 .. k /\ 1 .. k \subseteq 1 .. half
      BY <1>1, <2>1
    <3> QED BY <1>1, <3>1
  <2>3. Max(1 .. k) = k
    BY <2>1, <2>2, LastIs
  <2>4. (1 .. k) \ {k} = 1 .. k - 1
    BY <2>1
  <2>5. fold[1 .. k] = Put(fold[1 .. k - 1], PostDividers[k])
    BY <1>8, <2>2, <2>3, <2>4 DEF Sums
  <2> QED BY <2>1, <2>5
<1> HIDE DEF g
<1> QED BY <1>2, <1>7, <1>9, <1>10 DEF half

\* A pair of r and n with every post divider.
WrpllRow(r, n, k) == {WrpllMade(PostDividers[i], n, r) : i \in 1 .. k}

LEMMA WrpllRowKept ==
  ASSUME job \in WrpllJobs, NEW r \in R2Range, NEW n \in N2First(r) .. N2Last(r), at = <<r, n>>,
         WrpllIs(best, WrpllBefore(r, n)),
         best' = WrpllKept(best)
  PROVE  WrpllIs(best', WrpllBefore(r, n) \cup WrpllRow(r, n, Len(PostDividers)))
<1> DEFINE half == Len(PostDividers)
           S == WrpllAll \cup {Nothing}
           Seen(k) == WrpllBefore(r, n) \cup WrpllRow(r, n, k)
           W == [k \in 0 .. half |-> {c \in S : WrpllIs(c, Seen(k))}]
<1>1. half \in Nat /\ DOMAIN PostDividers = 1 .. half
      /\ \A i \in 1 .. half : PostDividers[i] \in Range(PostDividers)
  <2>1. half \in Nat /\ DOMAIN PostDividers = 1 .. half
    BY PostDividersAre
  <2> QED BY <2>1 DEF Range
<1>2. \A i \in 1 .. half : WrpllMade(PostDividers[i], n, r) \in WrpllAll
  BY <1>1, WrpllMadeIs
<1>3. WrpllBefore(r, n) \in SUBSET WrpllAll
  BY DEF WrpllBefore
<1>4. best \in S
  BY <1>3 DEF WrpllIs
<1>5. PICK g : /\ g[0] = best
               /\ g[half] = best'
               /\ \A k \in 1 .. half :
                    g[k] = hsw_wrpll_update_rnp(job, g[k - 1], WrpllMade(PostDividers[k], n, r))
  BY <1>4, WrpllFold
<1>6. \A k \in 0 .. half : Seen(k) \in SUBSET WrpllAll
  BY <1>2, <1>3 DEF WrpllRow
<1>7. \A k \in 1 .. half : Seen(k) = Seen(k - 1) \cup {WrpllMade(PostDividers[k], n, r)}
  <2>1. \A k \in 1 .. half : \A i : i \in 1 .. k <=> i \in 1 .. k - 1 \/ i = k
    BY <1>1
  <2> QED BY <2>1 DEF WrpllRow
<1>8. Seen(0) = WrpllBefore(r, n)
  BY DEF WrpllRow
<1> HIDE DEF half, Seen, S
<1>9. g[0] \in W[0]
  <2>1. 0 \in 0 .. half
    BY <1>1
  <2> QED BY <1>4, <1>5, <1>8, <2>1
<1>10. ASSUME NEW k \in 1 .. half, g[k - 1] \in W[k - 1]
       PROVE  g[k] \in W[k]
  <2>1. k - 1 \in 0 .. half /\ k \in 0 .. half
    BY <1>1
  <2>2. g[k - 1] \in S /\ WrpllIs(g[k - 1], Seen(k - 1))
    BY <1>10, <2>1
  <2>3. PICK x \in WrpllAll : x = WrpllMade(PostDividers[k], n, r)
    BY <1>2
  <2>4. WrpllIs(g[k], Seen(k))
    <3>1. Seen(k - 1) \in SUBSET WrpllAll
      BY <1>6, <2>1
    <3>2. WrpllIs(hsw_wrpll_update_rnp(job, g[k - 1], x), Seen(k - 1) \cup {x})
      BY <2>2, <3>1, WrpllTry
    <3> QED BY <1>5, <1>7, <2>3, <3>2
  <2>5. g[k] \in S
    <3>1. g[k] = hsw_wrpll_update_rnp(job, g[k - 1], x)
      BY <1>5, <2>3
    <3> QED BY <2>2, <2>3, <3>1, Zenon DEF hsw_wrpll_update_rnp, S
  <2> QED BY <2>1, <2>4, <2>5
<1> HIDE DEF W
<1>11. \A k \in 0 .. half : g[k] \in W[k]
  BY <1>1, <1>9, <1>10, FoldType
<1>12. g[half] \in W[half] /\ half \in 0 .. half
  BY <1>1, <1>11
<1>13. WrpllIs(best', Seen(half))
  BY <1>5, <1>12 DEF W
<1> QED BY <1>13 DEF Seen, half

\* What has been seen when the loop is at its next pair, or through.
LEMMA WrpllGrows ==
  ASSUME NEW r \in R2Range, NEW n \in N2First(r) .. N2Last(r)
  PROVE  LET seen == WrpllBefore(r, n) \cup WrpllRow(r, n, Len(PostDividers)) IN
         /\ n < N2Last(r) => n + 1 \in N2First(r) .. N2Last(r) /\ seen = WrpllBefore(r, n + 1)
         /\ n = N2Last(r) /\ r < Max(R2Range) =>
              /\ r + 1 \in R2Range /\ N2First(r + 1) \in N2First(r + 1) .. N2Last(r + 1)
              /\ seen = WrpllBefore(r + 1, N2First(r + 1))
         /\ n = N2Last(r) /\ r = Max(R2Range) => seen = WrpllAll
<1> DEFINE seen == WrpllBefore(r, n) \cup WrpllRow(r, n, Len(PostDividers))
<1>1. PICK last \in Nat : R2Range = 14 .. last /\ Max(R2Range) = last
  BY ReferencesAre
<1>2. r \in Nat /\ r >= 14 /\ r <= last
  BY <1>1
<1>3. PICK first \in Nat, end \in Nat : first = N2First(r) /\ end = N2Last(r) /\ first <= end
  BY <1>2, FeedbacksAre
<1>4. n \in first .. end /\ n \in Nat
  BY <1>3
<1>5. Range(PostDividers) = {PostDividers[i] : i \in 1 .. Len(PostDividers)}
  <2>1. DOMAIN PostDividers = 1 .. Len(PostDividers)
    BY PostDividersAre
  <2> QED BY <2>1 DEF Range
<1>6. WrpllRow(r, n, Len(PostDividers)) = {x \in WrpllAll : x.r2 = r /\ x.n2 = n}
  <2>1. \A p \in Range(PostDividers) :
          /\ WrpllMade(p, n, r) \in WrpllAll
          /\ WrpllMade(p, n, r).n2 = n /\ WrpllMade(p, n, r).r2 = r
    BY WrpllMadeIs
  <2>2. \A x \in WrpllAll : x = WrpllMade(x.p, x.n2, x.r2) /\ x.p \in Range(PostDividers)
    BY WrpllParts
  <2>3. WrpllRow(r, n, Len(PostDividers)) = {WrpllMade(p, n, r) : p \in Range(PostDividers)}
    BY <1>5 DEF WrpllRow
  <2> QED BY <2>1, <2>2, <2>3
<1>7. seen = {x \in WrpllAll : x.r2 < r \/ (x.r2 = r /\ x.n2 <= n)}
  <2>1. \A x \in WrpllAll : x.n2 \in Nat
    BY WrpllParts
  <2>2. \A x \in WrpllAll : x.n2 <= n <=> x.n2 < n \/ x.n2 = n
    BY <1>4, <2>1
  <2> QED BY <1>6, <2>2 DEF WrpllBefore
<1> HIDE DEF seen
<1>8. \A x \in WrpllAll : x.r2 \in Nat /\ x.n2 \in Nat /\ x.r2 \in R2Range
                          /\ x.n2 \in N2First(x.r2) .. N2Last(x.r2)
  BY WrpllParts
<1>9. ASSUME n < N2Last(r)
      PROVE  n + 1 \in N2First(r) .. N2Last(r) /\ seen = WrpllBefore(r, n + 1)
  <2>1. n + 1 \in first .. end
    BY <1>3, <1>4, <1>9
  <2>2. \A x \in WrpllAll : x.n2 <= n <=> x.n2 < n + 1
    BY <1>4, <1>8
  <2> QED BY <1>3, <1>7, <2>1, <2>2 DEF WrpllBefore
<1>10. ASSUME n = N2Last(r)
       PROVE  seen = {x \in WrpllAll : x.r2 <= r}
  <2>1. \A x \in WrpllAll : x.r2 = r => x.n2 <= n
    <3>1. \A x \in WrpllAll : x.r2 = r => x.n2 \in first .. end
      BY <1>3, <1>8
    <3> QED BY <1>3, <1>10, <3>1
  <2>2. \A x \in WrpllAll : x.r2 <= r <=> x.r2 < r \/ (x.r2 = r /\ x.n2 <= n)
    BY <1>2, <1>8, <2>1
  <2> QED BY <1>7, <2>2
<1>11. ASSUME n = N2Last(r), r < Max(R2Range)
       PROVE  /\ r + 1 \in R2Range /\ N2First(r + 1) \in N2First(r + 1) .. N2Last(r + 1)
              /\ seen = WrpllBefore(r + 1, N2First(r + 1))
  <2>1. PICK s \in Nat : s = r + 1 /\ s >= 14 /\ s <= last
    BY <1>1, <1>2, <1>11
  <2>2. s \in R2Range
    BY <1>1, <2>1
  <2>3. PICK f \in Nat, e \in Nat : f = N2First(s) /\ e = N2Last(s) /\ f <= e
    BY <2>1, FeedbacksAre
  <2>4. f \in N2First(s) .. N2Last(s)
    <3>1. f \in f .. e
      BY <2>3
    <3> QED BY <2>3, <3>1
  <2>5. \A x \in WrpllAll : ~(x.r2 = s /\ x.n2 < f)
    <3>1. \A x \in WrpllAll : x.r2 = s => x.n2 \in f .. e
      BY <1>8, <2>3
    <3> QED BY <2>3, <3>1
  <2>6. \A x \in WrpllAll : x.r2 <= r <=> x.r2 < s \/ (x.r2 = s /\ x.n2 < f)
    <3>1. \A x \in WrpllAll : x.r2 <= r <=> x.r2 < s
      BY <1>2, <1>8, <2>1
    <3> QED BY <2>5, <3>1
  <2>7. seen = WrpllBefore(s, f)
    BY <1>10, <1>11, <2>6 DEF WrpllBefore
  <2> QED BY <2>1, <2>2, <2>3, <2>4, <2>7
<1>12. ASSUME n = N2Last(r), r = Max(R2Range)
       PROVE  seen = WrpllAll
  <2>1. \A x \in WrpllAll : x.r2 <= r
    BY <1>1, <1>2, <1>8, <1>12
  <2> QED BY <1>10, <1>12, <2>1
<1> QED BY <1>9, <1>11, <1>12 DEF seen

LEMMA WrpllInit == ClocksInit => WrpllInv
BY DEF ClocksInit, WrpllInv

LEMMA WrpllPrime ==
  ASSUME job' = job, NEW seen, WrpllIs(best', seen)
  PROVE  WrpllIs(best, seen)'
BY DEF WrpllIs, NoWorse, WithinBudget, Off

\* Every step of the Haswell search keeps the best of what it has seen.
LEMMA WrpllStep ==
  ASSUME PllInv, WrpllInv, [ClocksNext]_clockVars
  PROVE  WrpllInv'
<1> SUFFICES ASSUME family' = "haswell"
             PROVE  WrpllInv'
  BY DEF WrpllInv
<1>0. family = "haswell"
  BY FamilyStays
<1>1. CASE UNCHANGED clockVars
  <2>1. UNCHANGED <<family, pc, job, at, best>>
    BY <1>1 DEF clockVars
  <2>2. \A seen : WrpllIs(best, seen) => WrpllIs(best, seen)'
    BY <2>1, WrpllPrime
  <2> QED BY <1>0, <2>1, <2>2 DEF WrpllInv
<1>2. CASE AskWrpll
  <2>1. /\ job' \in WrpllJobs
        /\ at' = <<Min(R2Range), N2First(Min(R2Range))>>
        /\ \/ job'.clock = 5400 /\ pc' = "done"
           \/ best' = Nothing /\ pc' = "search"
    BY <1>2 DEF AskWrpll, WrpllJobs
  <2>2. CASE job'.clock = 5400 /\ pc' = "done"
    BY <2>1, <2>2 DEF WrpllInv
  <2>3. CASE best' = Nothing /\ pc' = "search"
    <3>1. PICK last \in Nat : last >= 14 /\ R2Range = 14 .. last /\ Min(R2Range) = 14
      BY ReferencesAre
    <3>2. PICK r \in R2Range : r = 14 /\ r \in Nat /\ \A s \in R2Range : s >= r
      BY <3>1
    <3>3. PICK f \in Nat, e \in Nat : f = N2First(r) /\ e = N2Last(r) /\ f <= e
      BY <3>2, FeedbacksAre
    <3>4. f \in N2First(r) .. N2Last(r)
      <4>1. f \in f .. e
        BY <3>3
      <4> QED BY <3>3, <4>1
    <3>5. WrpllBefore(r, f) = {}
      <4>1. ASSUME NEW x \in WrpllAll PROVE ~(x.r2 < r) /\ ~(x.r2 = r /\ x.n2 < f)
        <5>1. x.r2 \in R2Range /\ x.r2 \in Nat /\ x.n2 \in N2First(x.r2) .. N2Last(x.r2)
          BY WrpllParts
        <5>2. x.r2 = r => x.n2 \in f .. e
          BY <3>3, <5>1
        <5> QED BY <3>2, <3>3, <5>1, <5>2
      <4> QED BY <4>1 DEF WrpllBefore
    <3>6. WrpllIs(best, WrpllBefore(r, f))'
      <4>1. WrpllBefore(r, f)' = {}
        BY <3>5
      <4> QED BY <2>3, <4>1 DEF WrpllIs
    <3>7. at' = <<r, f>>
      BY <2>1, <3>1, <3>2, <3>3
    <3> QED BY <2>1, <2>3, <3>4, <3>6, <3>7 DEF WrpllInv
  <2> QED BY <2>1, <2>2, <2>3
<1>3. CASE SearchWrpll
  <2>1. pc = "search" /\ job \in WrpllJobs /\ job' = job
    BY <1>0, <1>3 DEF SearchWrpll, WrpllInv
  <2>0. PICK r \in R2Range : \E n \in N2First(r) .. N2Last(r) :
           at = <<r, n>> /\ WrpllIs(best, WrpllBefore(r, n))
    BY <1>0, <2>1 DEF WrpllInv
  <2>2. PICK n \in N2First(r) .. N2Last(r) : at = <<r, n>> /\ WrpllIs(best, WrpllBefore(r, n))
    BY <2>0
  <2>3. best' = WrpllKept(best)
    BY <1>3, Zenon DEF SearchWrpll, WrpllKept
  <2>4. PICK seen : seen = WrpllBefore(r, n) \cup WrpllRow(r, n, Len(PostDividers))
    OBVIOUS
  <2>5. WrpllIs(best', seen)
    BY <2>1, <2>2, <2>3, <2>4, WrpllRowKept
  <2>6. WrpllIs(best, seen)'
    BY <2>1, <2>5, WrpllPrime
  <2>7. /\ n < N2Last(r) => n + 1 \in N2First(r) .. N2Last(r) /\ seen = WrpllBefore(r, n + 1)
        /\ n = N2Last(r) /\ r < Max(R2Range) =>
             /\ r + 1 \in R2Range /\ N2First(r + 1) \in N2First(r + 1) .. N2Last(r + 1)
             /\ seen = WrpllBefore(r + 1, N2First(r + 1))
        /\ n = N2Last(r) /\ r = Max(R2Range) => seen = WrpllAll
    BY <2>4, WrpllGrows
  <2>8. \/ n < N2Last(r) /\ at' = <<r, n + 1>> /\ pc' = "search"
        \/ n = N2Last(r) /\ r < Max(R2Range) /\ at' = <<r + 1, N2First(r + 1)>> /\ pc' = "search"
        \/ n = N2Last(r) /\ r = Max(R2Range) /\ pc' = "done"
    BY <1>3, <2>1, <2>2, Zenon DEF SearchWrpll
  <2>9. CASE n < N2Last(r) /\ at' = <<r, n + 1>> /\ pc' = "search"
    <3>1. PICK k \in N2First(r) .. N2Last(r) : k = n + 1 /\ seen = WrpllBefore(r, k)
      BY <2>7, <2>9
    <3>2. WrpllIs(best, WrpllBefore(r, k))'
      BY <2>6, <3>1
    <3> QED BY <2>1, <2>9, <3>1, <3>2 DEF WrpllInv
  <2>10. CASE n = N2Last(r) /\ r < Max(R2Range) /\ at' = <<r + 1, N2First(r + 1)>> /\ pc' = "search"
    <3>1. PICK s \in R2Range : s = r + 1 /\ N2First(s) \in N2First(s) .. N2Last(s)
                               /\ seen = WrpllBefore(s, N2First(s))
      BY <2>7, <2>10
    <3>2. WrpllIs(best, WrpllBefore(s, N2First(s)))'
      BY <2>6, <3>1
    <3> QED BY <2>1, <2>10, <3>1, <3>2 DEF WrpllInv
  <2>11. CASE n = N2Last(r) /\ r = Max(R2Range) /\ pc' = "done"
    <3>1. WrpllIs(best, WrpllAll)'
      BY <2>6, <2>7, <2>11
    <3> QED BY <2>1, <2>11, <3>1 DEF WrpllInv
  <2> QED BY <2>8, <2>9, <2>10, <2>11
<1>4. CASE \/ AskPll \/ SearchPll \/ AskSkylake \/ SearchSkylake \/ AskTigerLake \/ SearchTigerLake
           \/ ProgramPLL \/ PllAnswers \/ AskLink
  BY <1>0, <1>4, StepsOf DEF PllFamilies
<1>5. CASE Unlocked \/ Configure \/ Locked
  BY <1>0, <1>5 DEF Unlocked, Configure, Locked, PllInv, Programming
<1> QED BY <1>1, <1>2, <1>3, <1>4, <1>5 DEF ClocksNext

\* The Haswell search ends within the budget if anything is, and with the best of what is
\* (hsw_ddi_calculate_wrpll).
LEMMA WrpllEnds == PllInv /\ WrpllInv => WrpllBest
<1>1. SUFFICES ASSUME WrpllIs(best, WrpllAll)
               PROVE  WrpllBest
  BY DEF WrpllBest, Answered, WrpllInv
<1>2. WrpllAll # {}
  <2>1. PICK half \in Nat : half >= 1 /\ Range(PostDividers) = {2 * k : k \in 1 .. half}
    BY PostDividersAre, Zenon
  <2>2. PICK p \in Range(PostDividers) : p = 2 * 1
    <3>1. 1 \in 1 .. half
      BY <2>1
    <3> QED BY <2>1, <3>1
  <2>3. PICK last \in Nat : last >= 14 /\ R2Range = 14 .. last
    BY ReferencesAre
  <2>4. PICK r \in R2Range : r \in Nat /\ r >= 14
    BY <2>3
  <2>5. PICK f \in Nat, e \in Nat : f = N2First(r) /\ e = N2Last(r) /\ f <= e
    BY <2>4, FeedbacksAre
  <2>6. f \in N2First(r) .. N2Last(r)
    <3>1. f \in f .. e
      BY <2>5
    <3> QED BY <2>5, <3>1
  <2> QED BY <2>6, WrpllMadeIs
<1>3. best \in WrpllAll /\ \A x \in WrpllAll : NoWorse(best, x)
  BY <1>1, <1>2 DEF WrpllIs
<1>4. PICK b : b = best
  OBVIOUS
<1>5. ASSUME NEW x \in WrpllAll, WithinBudget(job, x)
      PROVE  WithinBudget(job, b) /\ x.n2 * b.r2 * b.r2 <= b.n2 * x.r2 * x.r2
  <2>1. NoWorse(b, x)
    BY <1>3, <1>4
  <2>2. WithinBudget(job, b) /\ x.n2 * Weight(b) <= b.n2 * Weight(x)
    BY <1>5, <2>1, Zenon DEF NoWorse
  <2>3. PICK nb \in Nat, rb \in Nat : nb = b.n2 /\ rb = b.r2
    BY <1>3, <1>4, WrpllParts
  <2>4. PICK nx \in Nat, rx \in Nat : nx = x.n2 /\ rx = x.r2
    BY WrpllParts
  <2>5. Weight(b) = rb * rb /\ Weight(x) = rx * rx
    BY <2>3, <2>4 DEF Weight
  <2>6. nx * (rb * rb) <= nb * (rx * rx)
    BY <2>2, <2>3, <2>4, <2>5, Zenon
  <2>7. nx * rb * rb <= nb * rx * rx
    BY <2>6
  <2> QED BY <2>2, <2>3, <2>4, <2>7
<1>6. ASSUME \A y \in WrpllAll : ~WithinBudget(job, y), NEW x \in WrpllAll
      PROVE  b.p * b.r2 * Off(job, x) >= x.p * x.r2 * Off(job, b)
  <2>1. NoWorse(b, x) /\ ~WithinBudget(job, b)
    BY <1>3, <1>4, <1>6
  <2> QED BY <2>1, Zenon DEF NoWorse
<1> DEFINE good == {x \in WrpllAll : WithinBudget(job, x)}
<1>7. good # {} => /\ b \in good
                   /\ \A x \in good : x.n2 * b.r2 * b.r2 <= b.n2 * x.r2 * x.r2
  BY <1>3, <1>4, <1>5
<1>8. good = {} => \A x \in WrpllAll : b.p * b.r2 * Off(job, x) >= x.p * x.r2 * Off(job, b)
  <2>1. good = {} => \A y \in WrpllAll : ~WithinBudget(job, y)
    OBVIOUS
  <2> QED BY <1>6, <2>1
<1>9. WrpllAll = {x \in [p : Range(PostDividers), r2 : R2Range, n2 : 1 .. N2Last(Max(R2Range))] :
                    x.n2 \in N2First(x.r2) .. N2Last(x.r2)}
  BY DEF WrpllAll
<1> QED BY <1>3, <1>4, <1>7, <1>8, <1>9 DEF WrpllBest

-----------------------------------------------------------------------------
(* What every search ends with. *)

LEMMA SearchesAlways == ClocksSpec => [](PllInv /\ TigerInv /\ PllSearchInv /\ SkylakeInv /\ WrpllInv)
<1>1. ClocksInit => PllInv /\ TigerInv /\ PllSearchInv /\ SkylakeInv /\ WrpllInv
  BY PllInit, PllSearchInit, SkylakeInit, WrpllInit
<1>2. PllInv /\ TigerInv /\ PllSearchInv /\ SkylakeInv /\ WrpllInv /\ [ClocksNext]_clockVars
        => (PllInv /\ TigerInv /\ PllSearchInv /\ SkylakeInv /\ WrpllInv)'
  BY PllStep, TigerStep, PllSearchStep, SkylakeStep, WrpllStep
<1> QED BY <1>1, <1>2, PTL DEF ClocksSpec

\* Whatever the clocks and the tables of a machine, a search ends with the best of what its
\* generator can be set to (compute_dpll_9xx and compute_dpll_g4x, hsw_ddi_calculate_wrpll and
\* skl_ddi_calculate_wrpll).
THEOREM NearestFound == ClocksSpec => []NearestDividers
<1>1. PllInv /\ TigerInv /\ PllSearchInv /\ SkylakeInv /\ WrpllInv => NearestDividers
  BY PllEnds, WrpllEnds, SkylakeEnds, Zenon DEF NearestDividers
<1> QED BY SearchesAlways, <1>1, PTL

\* The registers describe what the search found: no field is too narrow for a divisor, the three
\* stages of Skylake and Tiger Lake multiply to the divider, and the Tiger Lake PLL is locked on
\* it when a mode is set (Pipe::ConfigureClocks, skl_wrpll_params_populate, ProgramPLL).
THEOREM RegistersTold == ClocksSpec => []RegistersDescribe
<1>1. PllInv /\ TigerInv /\ PllSearchInv /\ SkylakeInv /\ WrpllInv => RegistersDescribe
  BY DivisorsTold, SkylakeTold, TigerEnds, Zenon DEF RegistersDescribe
<1> QED BY SearchesAlways, <1>1, PTL
=============================================================================
