-------------------------------- MODULE Modbus --------------------------------
(***************************************************************************)
(* One weather read: RK900::read() (rk900.cpp) powers the transceiver and  *)
(* calls ModbusMaster::read_holding() (modbus.cpp), which asks for a span  *)
(* of registers up to Retries + 1 times.  A reply carries neither a        *)
(* sequence number nor a register address, so the master has only the      *)
(* order and the timing of the bytes to tell one attempt's answer from     *)
(* another's.  The sensor is free: it may answer late, in part, damaged,   *)
(* with a refusal, or not at all, and the bus may babble.                  *)
(***************************************************************************)
EXTENDS Integers, Sequences, SequencesExt

CONSTANTS
  Count,       \* kRegisterCount; the last register is the pressure
  Spans,       \* register values the station may report
  Retries,     \* read_holding()'s retries (2)
  MaxDrain,    \* kMaxDrainBytes
  Noise,       \* byte values noise and damage may put on the bus
  Damaged,     \* positions of a reply that may be damaged
  Cuts,        \* lengths a reply may be cut to
  Slots        \* bound: bytes the receive buffer holds before babble is lost

Slave == 1        \* kSlave
ReadHolding == 3  \* the function code of every request
Refused == 128    \* the bit of the function code that marks an exception

Registers == 1..Count
Octet == 0..255
MaxUint16 == 65535
Uint16 == 0..MaxUint16

ASSUME ModbusAssumption ==
  /\ Count \in 1..127
  /\ Spans \subseteq [Registers -> Uint16]
  /\ Retries \in Nat
  /\ MaxDrain \in Nat \ {0}
  /\ Noise \subseteq Octet
  /\ Damaged \subseteq Nat
  /\ Cuts \subseteq Nat
  /\ Slots \in Nat \ {0}

VARIABLES
  phase,     \* "off", or the step of read_holding() that is next
  attempt,   \* attempts finished before this one
  dropped,   \* bytes discarded by this drain
  fifo,      \* bytes in the UART's receive buffer
  line,      \* bytes the sensor has sent and the UART has not received
  owed,      \* requests the sensor has seen and not answered
  got,       \* resp[0..got), the bytes read by this attempt
  expected,  \* how many it waits for
  result,    \* the last attempt's result, m_last after the read
  regs,      \* the registers handed to read()
  reading,   \* the valid fields: a function on their registers
  sent,      \* history: contents of the replies sent during this read
  heard,     \* history: bytes received since this attempt's drain ended
  bounded,   \* history: that drain stopped at its bound, not at silence
  early      \* history: the attempt ended with a received byte unread

busVars == <<fifo, line, owed, sent>>
resultVars == <<result, regs, reading>>
vars == <<phase, attempt, dropped, busVars, got, expected, resultVars, heard, bounded, early>>

-----------------------------------------------------------------------------
(* Bytes and replies.  A byte of the checksum is modelled by what it is a   *)
(* checksum of, so that damage is always seen: modbus_crc16 is not modelled *)
(* bit by bit.                                                             *)

Byte(b) == [v |-> b, of |-> <<>>]
Crc(c) == <<[v |-> 0, of |-> c], [v |-> 1, of |-> c]>>
Framed(c) == [i \in 1..Len(c) |-> Byte(c[i])] \o Crc(c)

\* Two bytes a register, the high one first.
SpanBytes(s) ==
  [i \in 1..2 * Count |-> IF i % 2 = 1 THEN s[(i + 1) \div 2] \div 256 ELSE s[i \div 2] % 256]

Content(s) == <<Slave, ReadHolding, 2 * Count>> \o SpanBytes(s)
Refusal == <<Slave, ReadHolding + Refused, 2>>
Contents == {Content(s) : s \in Spans} \cup {Refusal}
Bytes == [v : Octet, of : Contents \cup {<<>>}]

SpanLength == 5 + 2 * Count  \* a whole reply
RefusalLength == 5           \* a whole exception

\* Values(r, n): the first n bytes as values; Word(r, i): register i of a reply.
Values(r, n) == [i \in 1..n |-> r[i].v]
Word(r, i) == 256 * r[2 * i + 2].v + r[2 * i + 3].v
CrcMatches(r, n) == SubSeq(r, n + 1, n + 2) = Crc(Values(r, n))

-----------------------------------------------------------------------------
(* The sensor and the bus *)

Whole(c) == Framed(c)
Torn(c) ==
  {SubSeq(Whole(c), 1, k) : k \in Cuts \cap 1..Len(Whole(c))} \cup
  {[Whole(c) EXCEPT ![p] = Byte(b)] : p \in Damaged \cap 1..Len(Whole(c)), b \in Noise}

\* The sensor answers a request it has seen, however late, whole or not, one at a time.
Answer ==
  /\ owed > 0 /\ line = <<>> /\ phase # "off"
  /\ owed' = owed - 1
  /\ \E c \in Contents :
       /\ sent' = sent \cup {c}
       /\ \E r \in {Whole(c)} \cup Torn(c) : line' = r
  /\ UNCHANGED <<phase, attempt, dropped, fifo, got, expected, resultVars,
                 heard, bounded, early>>

\* What an attempt has heard, as long as it may still become one whole reply.
Garbled == <<Byte(255)>>
Hear(b) ==
  IF \E c \in Contents : IsPrefix(Append(heard, b), Framed(c)) THEN Append(heard, b) ELSE Garbled

\* A byte reaches the receive buffer.
Receive(b) ==
  /\ phase # "off"
  /\ Len(fifo) < Slots
  /\ fifo' = Append(fifo, b)
  /\ heard' = IF phase \in {"settle", "reply"} THEN Hear(b) ELSE heard
  /\ UNCHANGED <<phase, attempt, dropped, owed, sent, got, expected, resultVars,
                 bounded, early>>

Arrive == line # <<>> /\ Receive(Head(line)) /\ line' = Tail(line)

\* A stuck or babbling driver puts bytes on the bus for as long as it likes.  Bound: one
\* unread byte of it at a time, and none inside a reply, where damage stands for it.
Babble == fifo = <<>> /\ got = <<>> /\ (\E b \in Noise : Receive(Byte(b))) /\ UNCHANGED line

-----------------------------------------------------------------------------
(* The master *)

\* RK900::power_on() and the start of read_holding().
PowerOn ==
  /\ phase = "off"
  /\ phase' = "drain"
  /\ attempt' = 0
  /\ result' = "timeout"
  /\ reading' = <<>>
  /\ sent' = {}
  /\ UNCHANGED <<dropped, fifo, line, owed, got, expected, regs, heard, bounded, early>>

\* A drain done once per read, ahead of the first attempt only.
MutantAvailable == fifo # <<>> /\ attempt = 0

Available == fifo # <<>>

\* A drain that trusts the bus to go quiet.
MutantStops(n) == {FALSE}

\* The test after the n-th discarded byte: the byte ceiling stops the drain, the time
\* ceiling may stop it earlier.
Stops(n) == IF n >= MaxDrain THEN {TRUE} ELSE {TRUE, FALSE}

\* The drain is over and the attempt begins to listen.
Settled(stopped) ==
  /\ phase' = "settle"
  /\ dropped' = 0
  /\ heard' = <<>>
  /\ bounded' = stopped
  /\ early' = FALSE

Drain ==
  /\ phase = "drain"
  /\ Available
  /\ fifo' = Tail(fifo)
  /\ \E stop \in Stops(dropped + 1) :
       IF stop THEN Settled(TRUE)
       ELSE /\ dropped' = IF dropped < MaxDrain THEN dropped + 1 ELSE dropped
            /\ UNCHANGED <<phase, heard, bounded, early>>
  /\ UNCHANGED <<attempt, line, owed, got, expected, resultVars, sent>>

Silent ==
  /\ phase = "drain"
  /\ ~Available
  /\ Settled(FALSE)
  /\ UNCHANGED <<attempt, busVars, got, expected, resultVars>>

\* The request goes out.  Bytes that came during the frame gap are still in the buffer.
Request ==
  /\ phase = "settle"
  /\ phase' = "reply"
  /\ owed' = owed + 1
  /\ UNCHANGED <<attempt, dropped, fifo, line, got, expected, resultVars, sent, heard,
                 bounded, early>>

\* The second byte tells an exception, five bytes long, from a span.
Expect(r) == IF Len(r) = 2 /\ r[2].v >= Refused THEN RefusalLength ELSE expected

Read ==
  /\ phase = "reply"
  /\ fifo # <<>>
  /\ Len(got) < expected
  /\ got' = Append(got, Head(fifo))
  /\ fifo' = Tail(fifo)
  /\ expected' = Expect(got')
  /\ UNCHANGED <<phase, attempt, dropped, line, owed, resultVars, sent, heard,
                 bounded, early>>

\* An exception believed unverified.
MutantRefusalVerdict(r) == IF Len(r) < RefusalLength THEN "bad frame" ELSE "exception"

RefusalVerdict(r) ==
  IF Len(r) >= RefusalLength /\ r[1].v = Slave /\ CrcMatches(r, 3)
  THEN "exception" ELSE "bad frame"

SpanVerdict(r) ==
  IF r[1].v # Slave \/ r[2].v # ReadHolding \/ r[3].v # 2 * Count THEN "bad frame"
  ELSE IF CrcMatches(r, SpanLength - 2) THEN "ok" ELSE "bad crc"

\* What transact() makes of the bytes it ended with.
Verdict(r, want) ==
  CASE Len(r) < 3 -> "timeout"
    [] Len(r) >= 3 /\ r[2].v >= Refused -> RefusalVerdict(r)
    [] Len(r) >= 3 /\ r[2].v < Refused /\ Len(r) < want -> "timeout"
    [] OTHER -> SpanVerdict(r)

Final == {"ok", "exception"}

\* The end of an attempt: a final answer or the last attempt ends the read.
Finish(verdict) ==
  /\ result' = verdict
  /\ regs' = IF verdict = "ok" THEN [i \in Registers |-> Word(got, i)] ELSE regs
  /\ IF verdict \in Final \/ attempt >= Retries
     THEN phase' = "done" /\ UNCHANGED attempt
     ELSE phase' = "drain" /\ attempt' = attempt + 1
  /\ got' = <<>>
  /\ expected' = SpanLength
  /\ early' = (fifo # <<>>)
  /\ UNCHANGED <<dropped, busVars, reading, heard, bounded>>

\* The frame is complete.
Complete ==
  /\ phase = "reply"
  /\ Len(got) >= expected
  /\ Finish(Verdict(got, expected))

\* Silence for longer than a frame gap after the first byte.
Gap ==
  /\ phase = "reply"
  /\ fifo = <<>> /\ got # <<>> /\ Len(got) < expected
  /\ Finish("bad frame")

\* The ceiling on one transaction.
Ceiling ==
  /\ phase = "reply"
  /\ Len(got) < expected
  /\ Finish(Verdict(got, expected))

-----------------------------------------------------------------------------
(* RK900::read() after the transaction *)

\* A template of zeros is no measurement; a zero pressure alone is a dead barometer.
Fields(s) ==
  IF \A i \in Registers : s[i] = 0 THEN {}
  ELSE {i \in Registers : i < Count \/ s[i] # 0}

MutantReadingOf(s) == [i \in {j \in Registers : j < Count \/ s[j] # 0} |-> s[i]]

ReadingOf(s) == [i \in Fields(s) |-> s[i]]

Blank == [i \in Registers |-> 0]

\* power_off(): the UART is closed and the rail dropped before anything is judged.  What
\* the sensor sends after that it sends to a dead line.
PowerOff ==
  /\ phase = "done"
  /\ phase' = "off"
  /\ fifo' = <<>> /\ line' = <<>> /\ owed' = 0
  /\ reading' = IF result = "ok" THEN ReadingOf(regs) ELSE <<>>
  /\ result' = IF result = "ok" /\ reading' = <<>> THEN "unsampled" ELSE result
  /\ regs' = Blank
  /\ heard' = <<>> /\ bounded' = FALSE /\ early' = FALSE
  /\ UNCHANGED <<attempt, dropped, got, expected, sent>>

Init ==
  /\ phase = "off"
  /\ attempt = 0 /\ dropped = 0
  /\ fifo = <<>> /\ line = <<>> /\ owed = 0
  /\ got = <<>> /\ expected = SpanLength
  /\ result = "timeout"
  /\ regs = Blank
  /\ reading = <<>>
  /\ sent = {} /\ heard = <<>>
  /\ bounded = FALSE /\ early = FALSE

Transact == Drain \/ Silent \/ Request \/ Read \/ Complete \/ Gap \/ Ceiling

Next == PowerOn \/ Transact \/ PowerOff \/ Answer \/ Arrive \/ Babble

Spec == Init /\ [][Next]_vars

\* The loop task runs, and time passes for it; nothing is assumed of the bus.
FairSpec ==
  /\ Spec
  /\ WF_vars(Drain) /\ WF_vars(Silent) /\ WF_vars(Request) /\ WF_vars(Complete)
  /\ WF_vars(Ceiling) /\ WF_vars(PowerOff)

-----------------------------------------------------------------------------
(* Properties *)

TypeOK ==
  /\ phase \in {"off", "drain", "settle", "reply", "done"}
  /\ attempt \in 0..Retries
  /\ dropped \in 0..MaxDrain
  /\ fifo \in Seq(Bytes) /\ line \in Seq(Bytes) /\ owed \in Nat
  /\ got \in Seq(Bytes)
  /\ expected \in {SpanLength, RefusalLength}
  /\ result \in {"ok", "timeout", "bad crc", "bad frame", "exception", "unsampled"}
  /\ regs \in [Registers -> Uint16]
  /\ DOMAIN reading \subseteq Registers
  /\ sent \subseteq Contents
  /\ heard \in Seq(Bytes)
  /\ bounded \in BOOLEAN /\ early \in BOOLEAN

\* What the read reports was said to it: every field comes from one and the same reply
\* to this read, never from two attempts' replies run together, from damage or from a
\* template of zeros, and a refusal that ended the attempts was a refusal.
VerdictWasSent ==
  /\ DOMAIN reading # {} =>
       \E s \in Spans :
         /\ Content(s) \in sent
         /\ \A i \in DOMAIN reading : reading[i] = s[i]
         /\ Count \in DOMAIN reading => s[Count] # 0
         /\ \E i \in Registers : s[i] # 0
  /\ result = "exception" => Refusal \in sent

\* An attempt whose drain found silence and which then receives exactly one whole reply
\* ends with what that reply says: nothing an earlier attempt left in the buffer, and no
\* wait for bytes an exception does not have, spoils it.
HeardIsBelieved ==
  phase \in {"drain", "done"} /\ ~bounded /\ ~early =>
    \A c \in Contents :
      heard = Framed(c) => result = (IF c = Refusal THEN "exception" ELSE "ok")

\* A read ends and the rail goes down whatever the bus does, babbling for ever included.
ReadEnds == phase # "off" ~> phase = "off"
=============================================================================
