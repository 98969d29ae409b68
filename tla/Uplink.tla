------------------------------- MODULE Uplink -------------------------------
(***************************************************************************)
(* One cycle as the network sees it: which cycles go to the radio and what *)
(* a failed join announces (main.cpp), which fields the uplink carries     *)
(* (payload.cpp), and how the answer gets from the task of the LoRa MAC to *)
(* loop() (radio.cpp).                                                     *)
(*                                                                         *)
(* Two threads share the downlink frame and the flag that announces it.    *)
(* Each of their accesses is a step, the stores of the callback in any     *)
(* order, so what a critical section excludes is excluded here by `lock`   *)
(* and by nothing else.                                                    *)
(***************************************************************************)
EXTENDS Naturals

CONSTANTS
  Readings,    \* bound: the sets of fields the sensors may produce in a cycle
  Allowances,  \* bound: what the MAC may report as its largest payload
  Frames,      \* bound: the application frames a gateway may send
  BufferSize,  \* sizeof(s_rx_buf) (64)
  MaxQuiet     \* bound: quiet cycles in a row

kMaxPayloadBytes == 35
kMinDataRatePayloadBytes == 11
kQuietCyclesPerHeartbeat == 8
kCommandPort == 10
kCmdSetInterval == 1
kCmdRequestStatus == 3

\* The fields in the order build() puts them; put_u8 needs 3 bytes, put_u16 four.
Rank == [soc |-> 1, wind_speed |-> 2, air_temp |-> 3, batt_volts |-> 4, wind_dir |-> 5,
         humidity |-> 6, pressure |-> 7, batt_amps |-> 8, batt_temp |-> 9]
Fields == DOMAIN Rank
Width(f) == IF f = "soc" THEN 3 ELSE 4

\* A frame by what the node can tell: its port, its length, its first byte and the
\* number its next four bytes spell.
AnyFrame == [port : Nat, len : Nat, op : Nat, args : Nat]
NoFrame == [port |-> 0, len |-> 0, op |-> 0, args |-> 0]

ASSUME UplinkAssumption ==
  /\ Readings \subseteq SUBSET Fields
  /\ Allowances \subseteq Nat
  /\ \E a \in Allowances : a = 0 \/ a >= kMinDataRatePayloadBytes
  /\ Frames \subseteq AnyFrame
  /\ \A f \in Frames : f.len > 0
  /\ BufferSize \in Nat
  /\ BufferSize >= 5
  /\ MaxQuiet \in Nat

VARIABLES
  phase,    \* where the loop() thread is
  joined,   \* Radio's m_joined
  quiet,    \* empty_cycles
  held,     \* the brownout gate withheld transmission in the last cycle
  payload,  \* [reading, budget, sent, len]: what build() was given and made of it
  next,     \* m_cycles_until_next_call
  rx,       \* s_have_downlink, s_rx_len, s_rx_port and s_rx_buf
  lock,     \* who is in a critical section: "none", "loop" or "mac"
  mac,      \* the MAC task: the stores on_rx() has left to do, and of which frame
  frame,    \* take_downlink()'s copy
  open,     \* an uplink is on the air and its receive windows have brought nothing
  last,     \* history: the frame on_rx() was given since the cycle began, or NoFrame
  idle,     \* history: cycles in a row that kept off the radio without being held
  due       \* history: cycles until the attempt a failed join announced, or 0

shared == <<rx, lock>>
history == <<last, idle, due>>
vars == <<phase, joined, quiet, held, payload, next, shared, mac, frame, open, history>>

-----------------------------------------------------------------------------
(* payload.cpp.  A definition named Mutant... is a bug this code could have had: *)
(* it is used nowhere, and the run must find what it breaks in place of the one  *)
(* after it.                                                                     *)

MutantRoomFor(p, f) == p.len + Width(f) < p.budget

RoomFor(p, f) == p.len + Width(f) <= p.budget

\* put_u8(), put_u16(), put_s16(), for a field that was read: it is appended, or
\* counted as dropped and left out.
Put(p, f) ==
  IF f \in p.reading /\ RoomFor(p, f)
  THEN [p EXCEPT !.sent = @ \cup {f}, !.len = @ + Width(f)]
  ELSE p

Cleared(reading, budget) ==
  [reading |-> reading, sent |-> {}, len |-> 0,
   budget |-> IF budget = 0 \/ budget > kMaxPayloadBytes THEN kMaxPayloadBytes ELSE budget]

Vital(p) == Put(Put(Put(p, "soc"), "wind_speed"), "air_temp")
Middle(p) == Put(Put(Put(p, "batt_volts"), "wind_dir"), "humidity")
Least(p) == Put(Put(Put(p, "pressure"), "batt_amps"), "batt_temp")

Build(reading, budget) == Least(Middle(Vital(Cleared(reading, budget))))

\* max_payload(): a MAC with nothing to say is taken to be at the slowest rate.
MaxPayload(allowed) ==
  IF allowed = 0 THEN kMinDataRatePayloadBytes
  ELSE IF allowed > kMaxPayloadBytes THEN kMaxPayloadBytes ELSE allowed

NoPayload == Cleared({}, 0)

-----------------------------------------------------------------------------
(* main.cpp: which cycles go to the radio *)

\* The first quiet cycle no longer reported at once.
MutantHeartbeatDue(q) == q % kQuietCyclesPerHeartbeat = 0

HeartbeatDue(q) == q = 1 \/ q % kQuietCyclesPerHeartbeat = 0

\* Only the first quiet cycle reported.
MutantAttempts(keepalive, empty, q) == keepalive \/ ~empty \/ q = 1

Attempts(keepalive, empty, q) == keepalive \/ ~empty \/ HeartbeatDue(q)

\* cycles_until_join_attempt(): the first heartbeat ahead.
CyclesUntilJoinAttempt(q) ==
  LET heartbeats == {n \in 1..kQuietCyclesPerHeartbeat : HeartbeatDue(q + n)}
  IN CHOOSE n \in heartbeats : \A m \in heartbeats : n <= m

\* The rest of a cycle that is over.
EndCycle == phase' = "asleep" /\ payload' = NoPayload

\* The top of loop(): the sensors are read, the gate moves (a hold ends on a
\* valid voltage only, see Brownout), the payload is built, and the cycle goes to
\* the radio or is over.  The windows of the last uplink are long closed.  Of the
\* MAC it is assumed that one without a session, which has no MAC answers to make
\* room for, reports nothing or at least the slowest rate's allowance.
Wake(reading, hold, keepalive, allowed) ==
  /\ phase = "asleep"
  /\ mac.todo = {}
  /\ keepalive => hold
  /\ held /\ ~hold => "batt_volts" \in reading
  /\ joined \/ allowed = 0 \/ allowed >= kMinDataRatePayloadBytes
  /\ LET p == Build(reading, MaxPayload(allowed))
         empty == p.len = 0
         attempts == (hold => keepalive) /\ Attempts(keepalive, empty, quiet')
     IN /\ quiet' = IF empty THEN quiet + 1 ELSE 0
        /\ quiet' <= MaxQuiet
        /\ next' = IF empty /\ ~keepalive THEN CyclesUntilJoinAttempt(quiet') ELSE 1
        /\ IF attempts
           THEN /\ phase' = "ensure_joined"
                /\ payload' = p
                /\ UNCHANGED due
           ELSE /\ EndCycle
                /\ due' = IF hold \/ due = 0 THEN 0 ELSE due - 1
        /\ idle' = IF attempts \/ hold THEN 0 ELSE idle + 1
  /\ held' = hold
  /\ open' = FALSE
  /\ last' = NoFrame
  /\ UNCHANGED <<joined, shared, mac, frame>>

-----------------------------------------------------------------------------
(* radio.cpp: the loop() thread *)

\* ensure_joined(): joined before or now; blocked; or failed, and the next attempt
\* announced.
EnsureJoined ==
  /\ phase = "ensure_joined"
  /\ \/ /\ joined' = TRUE
        /\ phase' = "send"
        /\ due' = 0
        /\ UNCHANGED payload
     \/ /\ ~joined
        /\ due' \in {0, next}
        /\ EndCycle
        /\ UNCHANGED joined
  /\ UNCHANGED <<quiet, held, next, shared, mac, frame, open, last, idle>>

\* taskENTER_CRITICAL() that excludes nobody.
MutantEnter(who) == lock' = who

\* taskENTER_CRITICAL()
Enter(who) == lock = "none" /\ lock' = who

Leave == lock' = "none"

LoopKeeps == UNCHANGED <<joined, quiet, held, next, mac, open, history>>

\* send(): enter the section that discards what an earlier cycle left.
DiscardEnter ==
  /\ phase = "send"
  /\ Enter("loop")
  /\ phase' = "discard"
  /\ UNCHANGED <<payload, rx, frame>>
  /\ LoopKeeps

MutantDiscarded == [rx EXCEPT !.len = 0, !.port = 0]

Discarded == [rx EXCEPT !.have = FALSE, !.len = 0, !.port = 0]

Discard ==
  /\ phase = "discard"
  /\ rx' = Discarded
  /\ Leave
  /\ phase' = "transmit"
  /\ UNCHANGED <<payload, frame>>
  /\ LoopKeeps

\* Refused by counter_headroom_ok() or by lmh_send(), which may cost the session.
Refused ==
  /\ phase = "transmit"
  /\ joined' \in BOOLEAN
  /\ EndCycle
  /\ UNCHANGED <<quiet, held, next, shared, mac, frame, open, history>>

\* lmh_send() takes the payload; loop() waits out the receive windows.
Transmit ==
  /\ phase = "transmit"
  /\ phase' = "listen"
  /\ payload' = NoPayload
  /\ open' = TRUE
  /\ UNCHANGED <<joined, quiet, held, next, shared, mac, frame, history>>

\* take_downlink()
TakeEnter ==
  /\ phase = "listen"
  /\ Enter("loop")
  /\ phase' = "take_have"
  /\ UNCHANGED <<payload, rx, frame>>
  /\ LoopKeeps

TakeHave ==
  /\ phase = "take_have"
  /\ IF rx.have
     THEN phase' = "take_len" /\ UNCHANGED <<lock, payload>>
     ELSE EndCycle /\ Leave
  /\ UNCHANGED <<rx, frame>>
  /\ LoopKeeps

TakeLen ==
  /\ phase = "take_len"
  /\ frame' = [port |-> rx.port, len |-> rx.len, op |-> 0, args |-> 0]
  /\ phase' = "take_buf"
  /\ UNCHANGED <<shared, payload>>
  /\ LoopKeeps

\* memcpy() of len bytes into a zeroed frame, and the flag.
TakeBuf ==
  /\ phase = "take_buf"
  /\ frame' = [frame EXCEPT !.op = rx.op, !.args = IF frame.len >= 5 THEN rx.args ELSE 0]
  /\ rx' = [rx EXCEPT !.have = FALSE]
  /\ Leave
  /\ phase' = "parse"
  /\ UNCHANGED payload
  /\ LoopKeeps

NoCommand == [kind |-> "none", value |-> 0]

\* The parse: exact lengths, on the command port.
Command(f) ==
  IF f.port = kCommandPort /\ f.op = kCmdSetInterval /\ f.len = 5
  THEN [kind |-> "set_interval", value |-> f.args]
  ELSE IF f.port = kCommandPort /\ f.op = kCmdRequestStatus /\ f.len = 1
  THEN [kind |-> "request_status", value |-> 0]
  ELSE NoCommand

\* The end of take_downlink(); what a command changes is the subject of Interval.
Apply ==
  /\ phase = "parse"
  /\ EndCycle
  /\ frame' = NoFrame
  /\ UNCHANGED shared
  /\ LoopKeeps

-----------------------------------------------------------------------------
(* radio.cpp: the MAC task *)

\* What of a frame fits the buffer.
Capped(f) == [f EXCEPT !.len = IF f.len > BufferSize THEN BufferSize ELSE f.len]

MacKeeps == UNCHANGED <<phase, joined, quiet, held, payload, next, frame, idle, due>>

Stores == {"have", "len", "port", "buf"}

\* on_rx(), in the windows of the last uplink or a little after loop() stopped waiting.
OnRx(f) ==
  /\ open
  /\ mac.todo = {}
  /\ Enter("mac")
  /\ mac' = [todo |-> Stores, frame |-> Capped(f)]
  /\ last' = Capped(f)
  /\ open' = FALSE
  /\ UNCHANGED rx
  /\ MacKeeps

\* One of its stores: neither the compiler nor the flag's volatile orders them.
\* Only a frame of five bytes overwrites the argument bytes of the one before.
OnRxStore(part) ==
  /\ part \in mac.todo
  /\ mac' = [mac EXCEPT !.todo = @ \ {part}]
  /\ \/ part = "have" /\ rx' = [rx EXCEPT !.have = TRUE]
     \/ part = "len"  /\ rx' = [rx EXCEPT !.len = mac.frame.len]
     \/ part = "port" /\ rx' = [rx EXCEPT !.port = mac.frame.port]
     \/ part = "buf"  /\ rx' = [rx EXCEPT !.op = mac.frame.op,
                                         !.args = IF mac.frame.len >= 5 THEN mac.frame.args ELSE @]
  /\ IF mac'.todo = {} THEN Leave ELSE UNCHANGED lock
  /\ UNCHANGED <<open, last>>
  /\ MacKeeps

-----------------------------------------------------------------------------
NothingReceived == [have |-> FALSE, len |-> 0, port |-> 0, op |-> 0, args |-> 0]
MacIdle == [todo |-> {}, frame |-> NoFrame]

\* RAM after a reset; Radio::begin() may have resumed a session.
Init ==
  /\ phase = "asleep"
  /\ joined \in BOOLEAN
  /\ quiet = 0
  /\ held \in BOOLEAN
  /\ payload = NoPayload
  /\ next = 1
  /\ rx = NothingReceived
  /\ lock = "none"
  /\ mac = MacIdle
  /\ frame = NoFrame
  /\ open = FALSE
  /\ last = NoFrame
  /\ idle = 0
  /\ due = 0

\* Any reset: everything here is RAM.
Reset ==
  /\ phase' = "asleep"
  /\ joined' \in BOOLEAN
  /\ held' \in BOOLEAN
  /\ quiet' = 0 /\ payload' = NoPayload /\ next' = 1
  /\ rx' = NothingReceived /\ lock' = "none" /\ mac' = MacIdle
  /\ frame' = NoFrame /\ open' = FALSE /\ last' = NoFrame
  /\ idle' = 0 /\ due' = 0

Next ==
  \/ Reset
  \/ \E reading \in Readings, hold, keepalive \in BOOLEAN, allowed \in Allowances :
       Wake(reading, hold, keepalive, allowed)
  \/ EnsureJoined
  \/ DiscardEnter \/ Discard
  \/ Refused \/ Transmit
  \/ TakeEnter \/ TakeHave \/ TakeLen \/ TakeBuf \/ Apply
  \/ \E f \in Frames : OnRx(f)
  \/ \E part \in Stores : OnRxStore(part)

Spec == Init /\ [][Next]_vars

-----------------------------------------------------------------------------
(* Properties *)

Phases == {"asleep", "ensure_joined", "send", "discard", "transmit", "listen",
           "take_have", "take_len", "take_buf", "parse"}

TypeOK ==
  /\ phase \in Phases
  /\ joined \in BOOLEAN
  /\ quiet \in 0..MaxQuiet
  /\ held \in BOOLEAN
  /\ payload \in [reading : SUBSET Fields, budget : 1..kMaxPayloadBytes,
                  sent : SUBSET Fields, len : 0..kMaxPayloadBytes]
  /\ next \in 1..kQuietCyclesPerHeartbeat
  /\ rx \in [have : BOOLEAN, len : 0..BufferSize, port : Nat, op : Nat, args : Nat]
  /\ lock \in {"none", "loop", "mac"}
  /\ mac \in [todo : SUBSET Stores, frame : AnyFrame]
  /\ frame \in AnyFrame
  /\ open \in BOOLEAN
  /\ last \in AnyFrame
  /\ idle \in Nat
  /\ due \in 0..kQuietCyclesPerHeartbeat

\* An uplink fits its budget, leaves out only what no longer fits, and never a
\* field that outranks one it carries; with the slowest rate's 11 bytes the state
\* of charge, the wind and the temperature always go.
MostImportantFirst ==
  phase = "ensure_joined" =>
    /\ payload.sent \subseteq payload.reading
    /\ payload.len <= payload.budget
    /\ \A f \in payload.reading \ payload.sent :
         /\ payload.len + Width(f) > payload.budget
         /\ \A g \in payload.sent : Rank[g] < Rank[f]
         /\ payload.budget >= kMinDataRatePayloadBytes => Rank[f] > 3

\* The command loop() acts on is the one the gateway sent: its length, its port and
\* its bytes come from one frame, whenever the callback ran.
FrameIsWhole == phase = "parse" => Command(frame) = Command(last)

\* A command is acted on in the cycle whose uplink it answers, or never: one that
\* arrives too late for its cycle is not applied as the answer to a later uplink.
CommandIsFresh == phase = "parse" => last # NoFrame

\* A node that is not held goes to the radio at least once in
\* kQuietCyclesPerHeartbeat cycles, however its sensors, holds and sends alternate.
SilenceIsBounded == idle < kQuietCyclesPerHeartbeat

\* A failed join announces the cycle of the next attempt as an upper bound: unless a
\* brownout hold comes between, that cycle does not pass without one.
AnnouncedWaitIsKept == [][phase = "asleep" /\ idle' > idle => due # 1]_vars
=============================================================================
