----------------------------- MODULE AuxChannel -----------------------------
(* The I2C transfers of a DisplayPort AUX channel (src/display/Ports.cpp).   *)
(* A call of _DpAuxSendReceive() writes bytes to the sink, then reads bytes  *)
(* from it, in messages of at most Chunk bytes: an address without data,     *)
(* which ends what an earlier call left open, then the data, with the        *)
(* middle-of-transmission flag on every message but the last.  A message     *)
(* the sink defers is repeated Attempts times; a transfer the channel was    *)
(* busy for, or which the sink's AUX side deferred, Retries times; a         *)
(* transaction without an answer is sent Sends times.  A step of the model   *)
(* is one transaction on the wire, with every answer the hardware can give.  *)
EXTENDS Integers, Sequences, FiniteSetsExt, SequencesExt

CONSTANTS
    Chunk,      \* transferLength, 16
    Attempts,   \* of a message of the I2C layer, 7
    Retries,    \* of a transfer, 7
    Sends,      \* of a transaction, 5
    Writes,     \* the lengths a call may write
    Reads       \* the lengths a call may read

ASSUME AuxAssumption ==
    /\ {Chunk, Attempts, Retries, Sends} \subseteq Nat \ {0}
    /\ Writes \cup Reads \subseteq Nat

VARIABLES
    call,   \* the call in progress, or the answer of the last one
    sink    \* what the display at the other end has seen

auxVars == <<call, sink>>

\* What spoils a transfer that the code reports as complete: a message given up
\* after all its attempts, one of which the sink took a part only, and one that
\* was sent again after the sink had acted on it.
Excuses == {"abandoned", "short", "repeated"}

\* A message: its first byte and its length, none for the bare address.
Length(c) == IF c.phase = "write" THEN c.writes ELSE c.reads
Size(c)   == IF c.bare THEN 0 ELSE Min({Chunk, Length(c) - c.at})
\* Variant with a bug: the last chunk of a message has the flag too.
FlagOnEvery(c) == ~c.bare

MiddleOfTransmission(c) == ~c.bare /\ Length(c) - c.at > Chunk

Bare(c, phase) ==
    [c EXCEPT !.phase = phase, !.bare = TRUE, !.at = 0,
              !.attempt = 1, !.retry = 1, !.send = 1]

Ended(c, answer) == [c EXCEPT !.phase = "none", !.answer = answer]

\* After the last byte of a phase the next phase begins, or the call ends.
PhaseDone(c) ==
    IF c.phase = "write" /\ c.reads > 0 THEN Bare(c, "read") ELSE Ended(c, "OK")

\* nextWrite and nextRead: the message counts as sent whether the loop over the
\* attempts was left by an acknowledge or by the last deferral.
NextMessage(c) ==
    LET at == c.at + Size(c)
    IN  IF at >= Length(c)
        THEN PhaseDone(c)
        ELSE [c EXCEPT !.at = at, !.bare = FALSE,
                       !.attempt = 1, !.retry = 1, !.send = 1]

\* The reply of the sink's I2C side to a message the transfer delivered.  That of
\* a bare address is not looked at, so a deferral of it gives it up at once.
I2cReply(c, reply) ==
    CASE c.bare /\ reply # "defer" -> NextMessage(c)
      [] c.bare /\ reply = "defer" ->
            [NextMessage(c) EXCEPT !.excuse = @ \cup {"abandoned"}]
      [] ~c.bare /\ reply = "ack" -> NextMessage(c)
      [] ~c.bare /\ reply = "nack" -> Ended(c, "ERROR")
      [] ~c.bare /\ reply = "defer" /\ c.attempt < Attempts ->
            [c EXCEPT !.attempt = @ + 1, !.retry = 1, !.send = 1]
      [] ~c.bare /\ reply = "defer" /\ c.attempt = Attempts ->
            [NextMessage(c) EXCEPT !.excuse = @ \cup {"abandoned"}]

\* B_BUSY, or a deferral of the AUX side: the transfer is tried again.
RetryTransfer(c) ==
    IF c.retry < Retries
    THEN [c EXCEPT !.retry = @ + 1, !.send = 1]
    ELSE Ended(c, "ERROR")

\* A transaction without a usable answer is sent again.  After the last one the
\* done bit of its status decides between a busy channel and an error.
SendAgain(c, done) ==
    CASE c.send < Sends -> [c EXCEPT !.send = @ + 1]
      [] c.send = Sends /\ done -> Ended(c, "ERROR")
      [] c.send = Sends /\ ~done -> RetryTransfer(c)

\* The sink's side of a message: bytes of a write are stored in the transmission,
\* those of a read are the next ones it holds.  The transmission stays open, for
\* this call, by the flag.
StoreWrite(c, count) ==
    [sink EXCEPT !.stored = @ \o [i \in 1 .. count |-> c.at + i]]

GiveRead(c, count) == [sink EXCEPT !.given = @ + count]

SinkActs(c, count) ==
    LET s == IF c.phase = "write" THEN StoreWrite(c, count) ELSE GiveRead(c, count)
    IN  [s EXCEPT !.open = IF MiddleOfTransmission(c) THEN "this" ELSE "no",
                  !.joined = @ \/ (~c.bare /\ sink.open = "earlier")]

Received(c, count) ==
    IF c.phase = "write" THEN c
    ELSE [c EXCEPT !.got = [i \in DOMAIN @ |->
                               IF i \in c.at + 1 .. c.at + count
                               THEN sink.given + i - c.at ELSE @[i]]]

Excused(c, count, again) ==
    [c EXCEPT !.excuse = @ \cup (IF count < Size(c) THEN {"short"} ELSE {})
                           \cup (IF again THEN {"repeated"} ELSE {})]

AuxInit ==
    /\ call = [phase |-> "none", bare |-> FALSE, at |-> 0, writes |-> 0,
               reads |-> 0, attempt |-> 1, retry |-> 1, send |-> 1,
               got |-> <<>>, excuse |-> {}, answer |-> "none"]
    /\ sink = [open |-> "no", stored |-> <<>>, given |-> 0, joined |-> FALSE]

\* The call: a phase whose buffer is NULL is left out.
_DpAuxSendReceive(writes, reads) ==
    /\ call.phase = "none"
    /\ writes + reads > 0
    /\ LET fresh == [call EXCEPT !.writes = writes, !.reads = reads,
                                 !.got = [i \in 1 .. reads |-> 0],
                                 !.excuse = {}, !.answer = "none"]
       IN  call' = Bare(fresh, IF writes > 0 THEN "write" ELSE "read")
    /\ sink' = [sink EXCEPT !.open = IF @ = "no" THEN "no" ELSE "earlier",
                            !.stored = <<>>, !.given = 0, !.joined = FALSE]

\* The channel stays busy for the four looks before the transaction.
ChannelBusy ==
    /\ call.phase # "none"
    /\ call.send = 1
    /\ call' = RetryTransfer(call)
    /\ UNCHANGED sink

\* No usable answer: a timeout, a receive error, or neither bit.  The sink may
\* have acted on the message all the same.
NoAnswer(done, acted) ==
    /\ call.phase # "none"
    /\ LET again == IF acted /\ ~call.bare
                    THEN [call EXCEPT !.excuse = @ \cup {"repeated"}] ELSE call
       IN  call' = SendAgain(again, done)
    /\ sink' = IF acted THEN SinkActs(call, Size(call)) ELSE sink

\* Done, but with a byte count of zero or above the buffer's size.
BadCount(acted) ==
    /\ call.phase # "none"
    /\ LET again == IF acted /\ ~call.bare
                    THEN [call EXCEPT !.excuse = @ \cup {"repeated"}] ELSE call
       IN  call' = RetryTransfer(again)
    /\ sink' = IF acted THEN SinkActs(call, Size(call)) ELSE sink

\* The AUX side refuses the transfer or defers it; any other reply is refused too.
NativeReply(reply) ==
    /\ call.phase # "none"
    /\ call' = IF reply = "defer" THEN RetryTransfer(call) ELSE Ended(call, "ERROR")
    /\ UNCHANGED sink

\* The AUX side delivered the message and the I2C side answers it, an acknowledge
\* for count bytes of it.
Delivered(reply, count) ==
    /\ call.phase # "none"
    /\ reply = "ack" \/ count = 0
    /\ count <= Size(call)
    /\ LET read == IF reply = "ack" THEN Excused(Received(call, count), count, FALSE)
                   ELSE call
       IN  call' = I2cReply(read, reply)
    /\ sink' = IF reply = "ack" \/ (call.bare /\ reply = "nack")
               THEN SinkActs(call, count) ELSE sink

Transaction ==
    \/ ChannelBusy
    \/ \E done, acted \in BOOLEAN : NoAnswer(done, acted)
    \/ \E acted \in BOOLEAN : BadCount(acted)
    \/ \E reply \in {"nack", "defer"} : NativeReply(reply)
    \/ \E reply \in {"ack", "nack", "defer"}, count \in 0 .. Chunk :
          Delivered(reply, count)

-----------------------------------------------------------------------------
\* Every byte of a call that answers B_OK is where it belongs, in order and once,
\* and the transmission is closed, unless a message was given up, taken in part or
\* sent twice (_DpAuxSendReceive(): the loop over the chunks and its flag).
OkMeansDelivered ==
    call.answer = "OK" /\ call.excuse = {} =>
        /\ sink.stored = [i \in 1 .. call.writes |-> i]
        /\ call.got = [i \in 1 .. call.reads |-> i]
        /\ sink.open = "no"

\* The bytes of a call never continue the transmission an earlier call left open
\* when it failed or gave a message up: the bare address ends that one first, if
\* the sink did not defer it.
NothingJoined == sink.joined => "abandoned" \in call.excuse

\* A transfer that answers B_OK moved its bytes, and none of another call's.
TransfersAreWhole == OkMeansDelivered /\ NothingJoined
=============================================================================
