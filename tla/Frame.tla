--------------------------------- MODULE Frame ---------------------------------
(***************************************************************************)
(* The one-wire frame of the RAK9154 pack, as the codec battery_frame.cpp  *)
(* and the transmit side of battery.cpp see it: sequences of bytes, the    *)
(* first at index 1.  A frame is located by d, the index of its delimiter: *)
(*                                                                         *)
(*   d  delimiter   d+3 type    d+5 dest     d+8  hub type     d+11 body   *)
(*   d+1, d+2       d+4 flag    d+6 source   d+9  hub length   checksum    *)
(*   length                     d+7 sequence d+10 payload type             *)
(***************************************************************************)
EXTENDS Integers, Sequences, FiniteSets

Byte == 0..255
MaxUint16 == 65535
Uint16 == 0..MaxUint16

Delimiter == 126                        \* kDelimiter
SensorHub == 2                          \* kRui3TypeSensorHub
Req == 0                                \* kRui3FlagReq
Rsp == 1                                \* kRui3FlagRsp
Provision == 1                          \* kHubTypeProvision
SendData == 3                           \* kHubTypeSendData
Boot == 2                               \* kPldBoot
DataPayload == 2                        \* kPayloadSendData
Ver3 == 3                               \* kPldProvVer3
Master == 0                             \* kMasterId
ProbeId == 1                            \* kProbeId
Broadcast == 255                        \* kBroadcastId, "no id"
HeaderBytes == 6                        \* kHubHeaderBytes
MinFrame == 1 + 4 + HeaderBytes + 1     \* kMinFrame
Temperature == 103
Capacity == 184
DcCurrent == 185
DcVoltage == 186
BitValues == 243

PayloadLen(b, d) == 256 * b[d + 1] + b[d + 2]
Flag(b, d) == b[d + 4]
Dest(b, d) == b[d + 5]
Source(b, d) == b[d + 6]
Sequence(b, d) == b[d + 7]
HubType(b, d) == b[d + 8]
HubLen(b, d) == b[d + 9]
PayloadType(b, d) == b[d + 10]
Body(d) == d + 5 + HeaderBytes
Cksum(b, d) == d + 5 + PayloadLen(b, d)

-----------------------------------------------------------------------------
(* Locating a frame: next_frame() called again and again visits the members  *)
(* of Verified(b) in ascending order.                                       *)

Bits == [n \in Byte |-> {k \in 0..7 : (n \div 2^k) % 2 = 1}]

\* frame_chksum(): the bits set from the type byte to the end of the payload.
BitsSet(b, d) == UNION {{i} \X Bits[b[i]] : i \in (d + 3)..(Cksum(b, d) - 1)}
Checksum(b, d) == Cardinality(BitsSet(b, d)) % 256

Candidates(b) ==
  {d \in 1..(Len(b) - 4 - HeaderBytes) :
     b[d] = Delimiter /\ b[d + 3] = SensorHub /\ PayloadLen(b, d) >= HeaderBytes}

\* Declared longer than what arrived.
Truncated(b) == {d \in Candidates(b) : Cksum(b, d) > Len(b)}

Arrived(b) == Candidates(b) \ Truncated(b)
Damaged(b) == {d \in Arrived(b) : b[Cksum(b, d)] # Checksum(b, d)}

\* Both lengths agree, in the exact form or in the legacy one a byte short.
LengthsAgree(b, d) == PayloadLen(b, d) - HubLen(b, d) \in {HeaderBytes, HeaderBytes - 1}

Verified(b) == {d \in Arrived(b) \ Damaged(b) : LengthsAgree(b, d)}

First(S) == CHOOSE d \in S : \A e \in S : d <= e

-----------------------------------------------------------------------------
(* What a frame is for *)

\* Matching without the sequence: a late reply to an earlier query passes.
MutantAnswers(b, d, addr, s) ==
  Flag(b, d) = Rsp /\ Dest(b, d) = Master /\ Source(b, d) = addr

\* BatteryMatchMode::Response
Answers(b, d, addr, s) ==
  /\ Flag(b, d) = Rsp
  /\ Dest(b, d) = Master
  /\ Source(b, d) = addr
  /\ Sequence(b, d) = s

\* BatteryMatchMode::Unsolicited
Pushes(b, d) == Flag(b, d) = Req /\ Dest(b, d) = Master

\* A provisioning request of the only version the master acts on, addressed to it.
Announces(b, d) ==
  /\ HubType(b, d) = Provision
  /\ Flag(b, d) = Req
  /\ PayloadType(b, d) = Ver3
  /\ Dest(b, d) = Master

\* provision_ready()
Ready(b) == \E d \in Verified(b) : Announces(b, d)

-----------------------------------------------------------------------------
(* Building frames *)

Compose(flag, dest, source, s, type, hubLen, payloadType, body) ==
  LET n == HeaderBytes + Len(body)
      f == <<Delimiter, n \div 256, n % 256, SensorHub, flag,
             dest, source, s, type, hubLen, payloadType>> \o body \o <<0>>
  IN [f EXCEPT ![Len(f)] = Checksum(f, 1)]

\* send_frame() with no payload, the only form a master sends; the wake bytes ahead of
\* it are left out.
Request(dest, s, type, payloadType) ==
  Compose(Req, dest, Master, s, type, 0, payloadType, <<>>)

\* The announcement at d turned into its answer.
MutantReply(b, d, provId) ==
  [b EXCEPT ![d + 4] = Rsp, ![d + 5] = Source(b, d), ![d + 6] = Master, ![provId] = ProbeId]

Reply(b, d, provId) ==
  LET r == [b EXCEPT ![d + 4] = Rsp, ![d + 5] = Source(b, d), ![d + 6] = Master,
                     ![provId] = ProbeId]
  IN [r EXCEPT ![Cksum(b, d)] = Checksum(r, d)]

-----------------------------------------------------------------------------
(* Records: sensor id, type, value *)

Words == {Temperature, DcCurrent, DcVoltage, BitValues}  \* two value bytes
Measurements == {Temperature, Capacity, DcCurrent, DcVoltage}

\* A response is little-endian, a push big-endian.
Word(b, at, flag) ==
  IF flag = Rsp THEN b[at] + 256 * b[at + 1] ELSE 256 * b[at] + b[at + 1]

Width(type) == IF type = Capacity THEN 3 ELSE 4
=============================================================================
