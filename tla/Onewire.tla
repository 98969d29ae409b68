-------------------------------- MODULE Onewire --------------------------------
(***************************************************************************)
(* The exchanges of Battery::read() (battery.cpp) on the one-wire link,    *)
(* byte by byte: a query and its reply, a push waited for, the window in   *)
(* which announcements are answered, and the record walk of                *)
(* battery_decode_frame() (battery_frame.cpp).  Module Battery says in     *)
(* which order a cycle runs them; here the order is free.                  *)
(*                                                                         *)
(* The pack is free: it answers late or never, cuts a frame short, talks   *)
(* unasked, resets, and a receive ends after any of its bytes.             *)
(***************************************************************************)
EXTENDS Frame, SequencesExt

CONSTANTS
  SeqRange,      \* 2^8, where m_seq wraps
  RxCapacity,    \* kRxCapacity
  ProvIdOffset,  \* kProvIdOffset
  MaxSends,      \* frames one read() sends of its own: three queries and a BOOT
  Reports,       \* what the pack may report: records, and how many bytes of the last
                 \*   one are missing
  PackSeqs,      \* bound: the sequences of what the pack says unasked
  Cuts,          \* lengths at which its frames may break off
  Breaks,        \* bound: a receive or a flush ends after these many bytes, or after all
  MaxSaid,       \* bound: things the pack says in one read, each once
  Backlog        \* bound: bytes on the line beyond which the pack waits

ASSUME OnewireAssumption ==
  /\ SeqRange \in 2..256
  /\ MaxSends \in 1..SeqRange
  /\ RxCapacity \in Nat
  /\ ProvIdOffset \in 0..253
  /\ Reports \subseteq [records : Seq([type : Byte, value : Uint16]), short : 0..2]
  /\ PackSeqs \subseteq Byte
  /\ Cuts \subseteq Nat
  /\ Breaks \subseteq Nat
  /\ MaxSaid \in Nat
  /\ Backlog \in Nat

VARIABLES
  phase,    \* "idle", or what read() is in the middle of
  sends,    \* frames of its own sent in this read
  seq,      \* m_seq
  query,    \* the frame the decoder has to match; <<>> when it waits for a push
  buf,      \* rx[0..n)
  frame,    \* the frame being walked, 0 if none
  at,       \* i, the record walk's position
  out,      \* the candidate reading: a function on the types decoded
  nonzero,  \* any_nonzero
  result,   \* what parse() returned, "none" before
  pid,      \* m_pid
  latched,  \* m_pack_latched
  sent,     \* the last frame on the wire from the master
  line,     \* bytes from the pack that the master has not consumed
  owed,     \* queries the pack has seen and not answered
  held,     \* the id the pack holds
  said,     \* history: what the pack reported in this read, and to which query
  told      \* history: its announcements in this read

walkVars == <<buf, frame, at, out, nonzero>>
packVars == <<line, owed, held, said, told>>
vars == <<phase, sends, seq, query, walkVars, result, pid, latched, sent, packVars>>

-----------------------------------------------------------------------------
(* The pack *)

RecordBytes(rec, flag) ==
  LET hi == rec.value \div 256
      lo == rec.value % 256
      value == CASE rec.type = Capacity -> <<lo>>
                 [] rec.type # Capacity /\ flag = Rsp -> <<lo, hi>>
                 [] OTHER -> <<hi, lo>>
  IN <<21, rec.type>> \o value

ReportBytes(r, flag) ==
  LET whole == FlattenSeq([k \in 1..Len(r.records) |-> RecordBytes(r.records[k], flag)])
  IN SubSeq(whole, 1, Len(whole) - r.short)

\* A report fits a frame whose length field is one byte, and a charge in a byte.
ASSUME ReportAssumption ==
  \A r \in Reports, flag \in {Req, Rsp} :
    /\ ReportBytes(r, flag) \in Seq(Byte) /\ Len(ReportBytes(r, flag)) <= 254
    /\ \A k \in 1..Len(r.records) : r.records[k].type = Capacity => r.records[k].value \in Byte

\* What a report says to a reader that knows only these types: the last value of each
\* type, up to a record it does not know or that is not all there.
Known(r) ==
  {k \in 1..(Len(r.records) - (IF r.short > 0 THEN 1 ELSE 0)) :
     \A j \in 1..k : r.records[j].type \in Words \cup {Capacity}}
LastOf(r, t) ==
  CHOOSE k \in Known(r) :
    r.records[k].type = t /\ \A j \in Known(r) : r.records[j].type = t => j <= k
Meaning(r) ==
  [t \in {r.records[k].type : k \in Known(r)} \cap Measurements |-> r.records[LastOf(r, t)].value]

\* A report in which every measurement is zero is no measurement.
Template(r) == \A k \in Known(r) : r.records[k].type \in Measurements => r.records[k].value = 0

\* What is remembered of a report made in answer to a query, or to none.
Said(to, r) == [to |-> to, values |-> Meaning(r), template |-> Template(r)]

\* The pack's frames declare the legacy length.
PackFrame(flag, source, s, type, payloadType, body) ==
  Compose(flag, Master, source, s, type, Len(body) + 1, payloadType, body)

ReportFrame(flag, source, s, r) ==
  PackFrame(flag, source, s, SendData, DataPayload, ReportBytes(r, flag))

\* On the wire: whole or broken off, behind what is still on its way.
Talk(f) ==
  /\ Len(line) <= Backlog
  /\ <<said', told'>> # <<said, told>>
  /\ Cardinality(said') + Cardinality(told') <= MaxSaid
  /\ \E m \in {f} \cup {SubSeq(f, 1, k) : k \in Cuts \cap 1..Len(f)} :
       line' = line \o m
  /\ UNCHANGED <<phase, sends, seq, query, walkVars, result, pid, latched, sent>>

Report(flag, s, to) ==
  \E r \in Reports :
    /\ said' = said \cup {Said(to, r)}
    /\ Talk(ReportFrame(flag, held, s, r))

\* An answer to a query sent to the id the pack holds now, however old the query is.
PackReplies ==
  \E q \in owed :
    /\ Dest(q, 1) = held
    /\ owed' = owed \ {q}
    /\ UNCHANGED <<held, told>>
    /\ Report(Rsp, Sequence(q, 1), q)

\* What it says unasked carries a count of its own.
PackPushes == UNCHANGED <<owed, held, told>> /\ \E s \in PackSeqs : Report(Req, s, <<>>)

\* An announcement: provId says which id the pack holds.  A short one has no provId.
PackAnnounces ==
  \E n \in {ProvIdOffset, ProvIdOffset + 1}, s \in PackSeqs :
    LET body == [k \in 1..n |-> IF k = ProvIdOffset + 1 THEN held ELSE 0]
        f == PackFrame(Req, held, s, Provision, Ver3, body)
    IN /\ told' = told \cup {f}
       /\ UNCHANGED <<owed, held, said>>
       /\ Talk(f)

ProvId(d) == Body(d) + ProvIdOffset

\* The pack takes the id a response to it assigns.
PackAdopts ==
  /\ sent # <<>> /\ 1 \in Verified(sent)
  /\ Flag(sent, 1) = Rsp /\ Dest(sent, 1) = held
  /\ ProvId(1) < Cksum(sent, 1)
  /\ held' = sent[ProvId(1)]
  /\ UNCHANGED <<phase, sends, seq, query, walkVars, result, pid, latched, sent, line, owed,
                 said, told>>

PackResets ==
  /\ held' = Broadcast
  /\ owed' = {}
  /\ UNCHANGED <<phase, sends, seq, query, walkVars, result, pid, latched, sent, line, said, told>>

\* Bound: the pack acts while the master listens.  What it does between two exchanges
\* reaches the master as if done at the end of the first.
Pack ==
  /\ phase \in {"await", "window"}
  /\ PackReplies \/ PackPushes \/ PackAnnounces \/ PackAdopts \/ PackResets

-----------------------------------------------------------------------------
(* Sending and receiving *)

\* How many of the bytes on the line have come when the master stops listening.
Heard == {n \in Breaks \cup {0, Len(line)} : n <= Len(line)}

\* link.flush(): what has been received is discarded, what is still to come is not.
Flush == \E n \in Heard : line' = SubSeq(line, n + 1, Len(line))

NoWalk == buf' = <<>> /\ frame' = 0 /\ at' = 0 /\ out' = <<>> /\ nonzero' = FALSE

\* link.begin() and the flush after it: nothing of an earlier read is left.
Begin ==
  /\ phase = "idle"
  /\ sends' = 0
  /\ query' = <<>>
  /\ result' = "none"
  /\ NoWalk
  /\ sent' = <<>> /\ line' = <<>> /\ owed' = {} /\ said' = {} /\ told' = {}
  /\ UNCHANGED <<phase, seq, pid, latched, held>>

Send(dest, type, payloadType) ==
  /\ sends < MaxSends
  /\ sends' = sends + 1
  /\ seq' = (seq + 1) % SeqRange
  /\ sent' = Request(dest, seq', type, payloadType)

\* query(), up to the receive.
Query ==
  /\ phase = "idle"
  /\ \E dest \in {ProbeId, Broadcast, pid} : Send(dest, SendData, DataPayload)
  /\ Flush
  /\ owed' = owed \cup {sent'}
  /\ query' = sent'
  /\ result' = "none"
  /\ NoWalk
  /\ phase' = "await"
  /\ UNCHANGED <<pid, latched, held, said, told>>

\* The push listen sends nothing and flushes nothing.
Listen ==
  /\ phase = "idle"
  /\ query' = <<>>
  /\ result' = "none"
  /\ NoWalk
  /\ phase' = "await"
  /\ UNCHANGED <<sends, seq, pid, latched, sent, packVars>>

\* send_boot()
SendBoot ==
  /\ phase = "idle"
  /\ Send(Broadcast, Provision, Boot)
  /\ UNCHANGED <<phase, query, walkVars, result, pid, latched, packVars>>

\* receive(): n bytes have come when the gap after them, or the buffer's end, ends it.
Take(n) == line' = SubSeq(line, n + 1, Len(line))
Capped(n) == IF n < RxCapacity THEN n ELSE RxCapacity

-----------------------------------------------------------------------------
(* parse() *)

\* The frames in b that battery_decode_frame() may decode.
Matches(b) ==
  {d \in Verified(b) :
     /\ HubType(b, d) = SendData
     /\ IF query = <<>> THEN Pushes(b, d)
        ELSE Answers(b, d, Dest(query, 1), Sequence(query, 1))}

Refusal(b) ==
  CASE Len(b) = 0 -> "no reply"
    [] Len(b) \in 1..7 -> "short frame"
    [] OTHER ->
         IF Truncated(b) # {} THEN "truncated"
         ELSE IF \E d \in Verified(b) : HubType(b, d) = SendData THEN "unmatched"
         ELSE IF \E d \in Verified(b) : HubType(b, d) = Provision THEN "provision only"
         ELSE IF Damaged(b) # {} THEN "bad checksum" ELSE "bad frame"

\* A buffer with no matching frame is refused, one with a match is walked.
Parse(b) ==
  IF Matches(b) = {}
  THEN /\ phase' = "idle"
       /\ result' = Refusal(b)
       /\ query' = <<>>
       /\ UNCHANGED <<buf, frame, at>>
  ELSE /\ phase' = "walk"
       /\ buf' = b
       /\ frame' = First(Matches(b))
       /\ at' = Body(frame')
       /\ UNCHANGED <<query, result>>

Receive ==
  /\ phase = "await"
  /\ \E n \in {Capped(h) : h \in Heard} : Take(n) /\ Parse(SubSeq(line, 1, n))
  /\ UNCHANGED <<sends, seq, out, nonzero, pid, latched, sent, owed, held, said, told>>

End == Cksum(buf, frame)
More == at + 2 < End
Type == buf[at + 1]

\* A 16-bit record whose value the frame still holds.
Fits == Type \in Words /\ at + 3 < End

Set(type, value) == [t \in DOMAIN out \cup {type} |-> IF t = type THEN value ELSE out[t]]

Decode(value) ==
  /\ out' = IF Type \in Measurements THEN Set(Type, value) ELSE out
  /\ nonzero' = (nonzero \/ (Type \in Measurements /\ value # 0))
  /\ at' = at + Width(Type)
  /\ UNCHANGED <<phase, sends, seq, query, buf, frame, result, pid, latched, sent, packVars>>

WalkCapacity == phase = "walk" /\ More /\ Type = Capacity /\ Decode(buf[at + 2])

WalkWord == phase = "walk" /\ More /\ Fits /\ Decode(Word(buf, at + 2, Flag(buf, frame)))

\* The frame ends inside a 16-bit record: all of it is refused.
WalkCut ==
  /\ phase = "walk" /\ More
  /\ Type \in Words /\ ~Fits
  /\ phase' = "idle"
  /\ result' = "truncated"
  /\ query' = <<>>
  /\ NoWalk
  /\ UNCHANGED <<sends, seq, pid, latched, sent, packVars>>

Verdict ==
  IF DOMAIN out = {} THEN "no records" ELSE IF nonzero THEN "ok" ELSE "unsampled"

\* The walk is over, at the end or at a type of unknown width.  A reply, with values or
\* without, proves the address it was asked at; a push proves none.
Judge ==
  /\ phase = "walk"
  /\ More => Type \notin Words \cup {Capacity}
  /\ phase' = "idle"
  /\ result' = Verdict
  /\ out' = IF result' = "ok" THEN out ELSE <<>>
  /\ pid' = IF query # <<>> /\ result' \in {"ok", "unsampled"} THEN Dest(query, 1) ELSE pid
  /\ buf' = <<>> /\ frame' = 0 /\ at' = 0 /\ nonzero' = FALSE
  /\ UNCHANGED <<sends, seq, query, latched, sent, packVars>>

-----------------------------------------------------------------------------
(* acquire_pid() *)

OpenWindow ==
  /\ phase = "idle"
  /\ phase' = "window"
  /\ Flush
  /\ result' = "none" /\ query' = <<>>
  /\ NoWalk
  /\ UNCHANGED <<sends, seq, pid, latched, sent, owed, held, said, told>>

Answerable(b) == {d \in Verified(b) : Announces(b, d) /\ ProvId(d) < Cksum(b, d)}

\* The id read out of the buffer after the answer has been written into it.
MutantAnnounced(b, d) == Reply(b, d, ProvId(d))[ProvId(d)]
Announced(b, d) == b[ProvId(d)]

\* provision() and the latch test.  An answer whose announcement names an id ends the window.
Answer(b) ==
  LET d == First(Answerable(b))
      id == Announced(b, d)
  IN /\ sent' = SubSeq(Reply(b, d, ProvId(d)), d, Cksum(b, d))
     /\ latched' = (id \notin {Broadcast, Master})
     /\ pid' = IF latched' THEN id ELSE Broadcast
     /\ phase' = IF latched' THEN "latched" ELSE phase

\* The receive stops at the first byte that completes an announcement, if one does.
Complete(n) == {k \in MinFrame..n : Ready(SubSeq(line, 1, k))}
Stop(n) == IF Complete(n) = {} THEN n ELSE First(Complete(n))

WindowReceive ==
  /\ phase = "window"
  /\ \E h \in Heard \ {0} :
       LET n == Stop(Capped(h))
           b == SubSeq(line, 1, n)
       IN /\ Take(n)
          /\ IF Answerable(b) = {} THEN UNCHANGED <<sent, latched, pid, phase>> ELSE Answer(b)
  /\ UNCHANGED <<sends, seq, query, walkVars, result, owed, held, said, told>>

\* The deadline or the latch ends the window, and read() flushes.
CloseWindow ==
  /\ phase \in {"window", "latched"}
  /\ phase' = "idle"
  /\ Flush
  /\ NoWalk
  /\ UNCHANGED <<sends, seq, query, result, pid, latched, sent, owed, held, said, told>>

Init ==
  /\ phase = "idle"
  /\ sends = 0
  /\ seq = 0
  /\ query = <<>>
  /\ buf = <<>> /\ frame = 0 /\ at = 0 /\ out = <<>> /\ nonzero = FALSE
  /\ result = "none"
  /\ pid = Broadcast
  /\ latched = FALSE
  /\ sent = <<>>
  /\ line = <<>> /\ owed = {} /\ said = {} /\ told = {}
  /\ held \in {ProbeId, Broadcast}

Walk == WalkCapacity \/ WalkWord \/ WalkCut \/ Judge

Next ==
  \/ Begin \/ Query \/ Listen \/ SendBoot \/ Receive \/ Walk
  \/ OpenWindow \/ WindowReceive \/ CloseWindow
  \/ Pack

Spec == Init /\ [][Next]_vars

-----------------------------------------------------------------------------
(* Properties *)

Parsed ==
  {"none", "no reply", "short frame", "truncated", "unmatched", "provision only",
   "bad checksum", "bad frame", "no records", "unsampled", "ok"}

ControlOK ==
  /\ phase \in {"idle", "await", "walk", "window", "latched"}
  /\ sends \in 0..MaxSends /\ seq \in 0..(SeqRange - 1)
  /\ result \in Parsed
  /\ latched \in BOOLEAN /\ pid \in Byte /\ held \in Byte

WireOK ==
  /\ line \in Seq(Byte) /\ sent \in Seq(Byte) /\ told \subseteq Seq(Byte)
  /\ query \in Seq(Byte) /\ (query = <<>> \/ Len(query) = MinFrame)
  /\ \A q \in owed : q \in Seq(Byte) /\ Len(q) = MinFrame

\* The record walk is inside a frame that was verified, and the values it has decoded
\* fit their type.
WalkOK ==
  /\ buf \in Seq(Byte) /\ nonzero \in BOOLEAN
  /\ DOMAIN out \subseteq Measurements /\ \A t \in DOMAIN out : out[t] \in Uint16
  /\ phase = "walk" => frame \in Verified(buf) /\ at \in Nat /\ at >= Body(frame)

TypeOK == ControlOK /\ WireOK /\ WalkOK

\* The frame f is a report of this read: in answer to the query its own fields name, or
\* to none.
Reported(f) ==
  \E r \in Reports :
    /\ f = ReportFrame(Flag(f, 1), Source(f, 1), Sequence(f, 1), r)
    /\ Said(IF Flag(f, 1) = Rsp THEN Request(Source(f, 1), Sequence(f, 1), SendData, DataPayload)
            ELSE <<>>, r) \in said

Cut(b, d) == SubSeq(b, d, Cksum(b, d))

\* What the properties below take for granted of the wire: bytes that pass the checks on
\* a frame are a frame the pack sent in this read.  It is an assumption and no promise of
\* the code, which checks a count of bits (MCOnewire holds two frames that get past it):
\* the run takes it as its constraint, the theorems as their hypothesis.
NoForgery == \A d \in Verified(line) : Cut(line, d) \in told \/ Reported(Cut(line, d))

\* A reading is the meaning of what the pack said, and an address is believed only after
\* the pack answered at it: in answer to this very query and not to an earlier one still
\* under way, or in a push when none was asked; in the sender's byte order, without the
\* record a frame ends inside, and not a template of zeros.
ReadingWasSaid ==
  result \in {"ok", "unsampled"} =>
    \E s \in said :
      /\ s.to = query
      /\ result = "ok" <=> ~s.template
      /\ result = "ok" => out = s.values

\* The window ends early only on an id the pack itself has announced, never on the one
\* the answer has just written over it.
LatchIsAnnounced ==
  phase = "latched" =>
    /\ pid \notin {Broadcast, Master}
    /\ \E a \in told : ProvId(1) < Cksum(a, 1) /\ a[ProvId(1)] = pid

\* Every response on the wire is a whole frame the pack's own checks accept, addressed to
\* the announcer and assigning kProbeId, and otherwise the announcement byte for byte.
ReplyAssigns ==
  sent # <<>> /\ Flag(sent, 1) = Rsp =>
    /\ 1 \in Verified(sent) /\ Cksum(sent, 1) = Len(sent)
    /\ \E a \in told :
         /\ Len(sent) = Len(a)
         /\ Dest(sent, 1) = Source(a, 1) /\ Source(sent, 1) = Master
         /\ sent[ProvId(1)] = ProbeId
         /\ \A k \in 1..Len(a) \ {5, 6, 7, ProvId(1), Len(a)} : sent[k] = a[k]
=============================================================================
