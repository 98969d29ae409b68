---------------------------- MODULE UplinkProofs ----------------------------
(***************************************************************************)
(* What TLC checks of an uplink and its answer for a few readings, frames  *)
(* and allowances, proved for all of them.                                 *)
(***************************************************************************)
EXTENDS Uplink, TLAPS

-----------------------------------------------------------------------------
(* payload.cpp *)

Payloads == [reading : SUBSET Fields, budget : 1..kMaxPayloadBytes,
             sent : SUBSET Fields, len : 0..kMaxPayloadBytes]

\* What build() has made of its first k fields.
Filled(p, k) ==
  /\ p \in Payloads
  /\ p.sent \subseteq p.reading
  /\ p.len <= p.budget
  /\ p.len <= IF k = 0 THEN 0 ELSE 4 * k - 1
  /\ \A g \in p.sent : Rank[g] <= k /\ 0 < p.len
  /\ \A f \in p.reading \ p.sent :
       Rank[f] <= k => /\ p.len + Width(f) > p.budget
                       /\ \A g \in p.sent : Rank[g] < Rank[f]
                       /\ p.budget >= kMinDataRatePayloadBytes => Rank[f] > 3

(* The priorities are a numbering, and only the first field is a short one. *)
LEMMA RankFacts ==
  /\ Fields = {"soc", "wind_speed", "air_temp", "batt_volts", "wind_dir",
               "humidity", "pressure", "batt_amps", "batt_temp"}
  /\ Rank["soc"] = 1 /\ Rank["wind_speed"] = 2 /\ Rank["air_temp"] = 3
  /\ Rank["batt_volts"] = 4 /\ Rank["wind_dir"] = 5 /\ Rank["humidity"] = 6
  /\ Rank["pressure"] = 7 /\ Rank["batt_amps"] = 8 /\ Rank["batt_temp"] = 9
  BY DEF Fields, Rank

(* So a field is found by its number. *)
LEMMA Numbering ==
  /\ \A f \in Fields : Rank[f] \in 1..9
  /\ \A f, g \in Fields : Rank[f] = Rank[g] => f = g
  /\ \A f \in Fields : Width(f) = IF Rank[f] = 1 THEN 3 ELSE 4
  BY RankFacts DEF Width

(* One more field: it is appended, or it and all after it stay out. *)
LEMMA PutFills ==
  ASSUME NEW p, NEW k \in 0..8, NEW h \in Fields, Rank[h] = k + 1, Filled(p, k)
  PROVE  Filled(Put(p, h), k + 1) /\ Put(p, h).budget = p.budget
                                  /\ Put(p, h).reading = p.reading
  <1> DEFINE q == Put(p, h)
  <1>1. /\ p.reading \subseteq Fields /\ p.sent \subseteq p.reading
        /\ p.budget \in 1..35 /\ p.len \in 0..35 /\ p.len <= p.budget
        /\ Width(h) \in {3, 4} /\ (k > 0 => Width(h) = 4) /\ (k = 0 => Width(h) = 3)
    BY Numbering DEF Filled, Payloads, kMaxPayloadBytes
  <1>2. CASE h \in p.reading /\ RoomFor(p, h)
    <2>1. /\ q.sent = p.sent \cup {h} /\ q.len = p.len + Width(h)
          /\ q.reading = p.reading /\ q.budget = p.budget /\ q \in Payloads
      <3>1. q = [p EXCEPT !.sent = @ \cup {h}, !.len = @ + Width(h)] /\ p \in Payloads
        BY <1>2 DEF Put, Filled
      <3>2. p.len + Width(h) \in 0..35 /\ p.sent \cup {h} \in SUBSET Fields
        BY <1>1, <1>2 DEF RoomFor
      <3> QED BY <3>1, <3>2 DEF Payloads, kMaxPayloadBytes
    <2>2. \A f \in p.reading \ p.sent : ~(Rank[f] <= k)
      <3> SUFFICES ASSUME NEW f \in p.reading \ p.sent, Rank[f] <= k  PROVE FALSE
        OBVIOUS
      <3>1. p.len + Width(f) > p.budget
        BY DEF Filled
      <3>2. Width(f) <= Width(h)
        BY <1>1, Numbering
      <3> QED BY <3>1, <3>2, <1>1, <1>2, Numbering DEF RoomFor
    <2>3. \A f \in q.reading \ q.sent : ~(Rank[f] <= k + 1)
      BY <2>1, <2>2, <1>1, Numbering
    <2>4. q.len <= q.budget /\ q.len <= 4 * (k + 1) - 1 /\ 0 < q.len
      BY <2>1, <1>1, <1>2 DEF RoomFor, Filled
    <2>5. \A g \in q.sent : Rank[g] <= k + 1
      BY <2>1, <1>1, Numbering DEF Filled
    <2>6. q.sent \subseteq q.reading
      BY <2>1, <1>1, <1>2
    <2>7. q.len <= IF k + 1 = 0 THEN 0 ELSE 4 * (k + 1) - 1
      BY <2>4
    <2>8. Filled(q, k + 1)
      <3> HIDE DEF q
      <3> QED BY <2>1, <2>3, <2>4, <2>5, <2>6, <2>7 DEF Filled
    <2> QED BY <2>1, <2>8
  <1>3. CASE ~(h \in p.reading /\ RoomFor(p, h))
    <2>1. q = p
      BY <1>3 DEF Put
    <2>2. p.len <= IF k + 1 = 0 THEN 0 ELSE 4 * (k + 1) - 1
      BY <1>1 DEF Filled
    <2>3. \A g \in p.sent : Rank[g] <= k + 1 /\ 0 < p.len
      BY <1>1, Numbering DEF Filled
    <2>4. ASSUME NEW f \in p.reading \ p.sent, Rank[f] <= k + 1
          PROVE  /\ p.len + Width(f) > p.budget
                 /\ \A g \in p.sent : Rank[g] < Rank[f]
                 /\ p.budget >= kMinDataRatePayloadBytes => Rank[f] > 3
      <3>1. CASE Rank[f] <= k
        BY <3>1 DEF Filled
      <3>2. CASE Rank[f] = k + 1
        <4>1. f = h /\ ~RoomFor(p, h)
          BY <3>2, <1>1, <1>3, Numbering
        <4>2. p.len + Width(h) > p.budget
          BY <4>1, <1>1 DEF RoomFor
        <4>3. \A g \in p.sent : Rank[g] < Rank[f]
          BY <3>2, <1>1, Numbering DEF Filled
        <4>4. p.budget >= 11 => Rank[f] > 3
          BY <4>2, <3>2, <1>1 DEF Filled
        <4> QED BY <4>1, <4>2, <4>3, <4>4 DEF kMinDataRatePayloadBytes
      <3> QED BY <3>1, <3>2, <2>4, <1>1, Numbering
    <2> QED BY <2>1, <2>2, <2>3, <2>4, <1>1 DEF Filled
  <1> QED BY <1>2, <1>3

(* build(): every field has had its turn. *)
LEMMA BuildFills ==
  ASSUME NEW reading \in SUBSET Fields, NEW budget \in Nat
  PROVE  /\ Filled(Build(reading, budget), 9)
         /\ Build(reading, budget).reading = reading
         /\ budget >= kMinDataRatePayloadBytes =>
              Build(reading, budget).budget >= kMinDataRatePayloadBytes
  <1> DEFINE p0 == Cleared(reading, budget)
             p1 == Put(p0, "soc")
             p2 == Put(p1, "wind_speed")
             p3 == Put(p2, "air_temp")
             p4 == Put(p3, "batt_volts")
             p5 == Put(p4, "wind_dir")
             p6 == Put(p5, "humidity")
             p7 == Put(p6, "pressure")
             p8 == Put(p7, "batt_amps")
             p9 == Put(p8, "batt_temp")
  <1>0. /\ Filled(p0, 0) /\ p0.reading = reading
        /\ budget >= 11 => p0.budget >= 11
    BY Numbering DEF Cleared, Filled, Payloads, kMaxPayloadBytes
  <1> HIDE DEF p0
  <1>1. Filled(p1, 1) /\ p1.budget = p0.budget /\ p1.reading = reading
    BY <1>0, PutFills, RankFacts
  <1> HIDE DEF p1
  <1>2. Filled(p2, 2) /\ p2.budget = p0.budget /\ p2.reading = reading
    BY <1>1, PutFills, RankFacts
  <1> HIDE DEF p2
  <1>3. Filled(p3, 3) /\ p3.budget = p0.budget /\ p3.reading = reading
    BY <1>2, PutFills, RankFacts
  <1> HIDE DEF p3
  <1>4. Filled(p4, 4) /\ p4.budget = p0.budget /\ p4.reading = reading
    BY <1>3, PutFills, RankFacts
  <1> HIDE DEF p4
  <1>5. Filled(p5, 5) /\ p5.budget = p0.budget /\ p5.reading = reading
    BY <1>4, PutFills, RankFacts
  <1> HIDE DEF p5
  <1>6. Filled(p6, 6) /\ p6.budget = p0.budget /\ p6.reading = reading
    BY <1>5, PutFills, RankFacts
  <1> HIDE DEF p6
  <1>7. Filled(p7, 7) /\ p7.budget = p0.budget /\ p7.reading = reading
    BY <1>6, PutFills, RankFacts
  <1> HIDE DEF p7
  <1>8. Filled(p8, 8) /\ p8.budget = p0.budget /\ p8.reading = reading
    BY <1>7, PutFills, RankFacts
  <1> HIDE DEF p8
  <1>9. Filled(p9, 9) /\ p9.budget = p0.budget /\ p9.reading = reading
    BY <1>8, PutFills, RankFacts
  <1>10. Build(reading, budget) = p9
    BY DEF Build, Vital, Middle, Least, p0, p1, p2, p3, p4, p5, p6, p7, p8
  <1> HIDE DEF p9
  <1> QED BY <1>0, <1>9, <1>10 DEF kMinDataRatePayloadBytes

-----------------------------------------------------------------------------
(* main.cpp *)

(* Every eighth quiet cycle is a heartbeat, so one of the next eight is. *)
LEMMA HeartbeatAhead ==
  ASSUME NEW q \in Nat
  PROVE  /\ CyclesUntilJoinAttempt(q) \in 1..kQuietCyclesPerHeartbeat
         /\ HeartbeatDue(q + CyclesUntilJoinAttempt(q))
  <1> DEFINE S == {n \in 1..8 : HeartbeatDue(q + n)}
  <1>1. \E n \in 1..8 : (q + n) % 8 = 0
    OBVIOUS
  <1>2. S \subseteq 1..8 /\ S # {}
    BY <1>1 DEF HeartbeatDue, kQuietCyclesPerHeartbeat
  <1>3. CyclesUntilJoinAttempt(q) = CHOOSE n \in S : \A m \in S : n <= m
    BY DEF CyclesUntilJoinAttempt, kQuietCyclesPerHeartbeat
  <1>4. \E n \in S : \A m \in S : n <= m
    <2> HIDE DEF S
    <2>1. CASE 1 \in S
      BY <1>2, <2>1
    <2>2. CASE 1 \notin S /\ 2 \in S
      BY <1>2, <2>2
    <2>3. CASE 1 \notin S /\ 2 \notin S /\ 3 \in S
      BY <1>2, <2>3
    <2>4. CASE (\A n \in 1..3 : n \notin S) /\ 4 \in S
      BY <1>2, <2>4
    <2>5. CASE (\A n \in 1..4 : n \notin S) /\ 5 \in S
      BY <1>2, <2>5
    <2>6. CASE (\A n \in 1..5 : n \notin S) /\ 6 \in S
      BY <1>2, <2>6
    <2>7. CASE (\A n \in 1..6 : n \notin S) /\ 7 \in S
      BY <1>2, <2>7
    <2>8. CASE \A n \in 1..7 : n \notin S
      <3>1. \A m \in S : m = 8
        BY <1>2, <2>8
      <3>2. 8 \in S
        BY <3>1, <1>2
      <3> QED BY <3>1, <3>2
    <2> QED BY <2>1, <2>2, <2>3, <2>4, <2>5, <2>6, <2>7, <2>8
  <1>5. CyclesUntilJoinAttempt(q) \in S
    BY <1>3, <1>4
  <1> QED BY <1>5 DEF kQuietCyclesPerHeartbeat
-----------------------------------------------------------------------------
(* The inductive invariant *)

\* A critical section is entered by whoever the lock names.
SectionsExclude ==
  /\ lock = "loop" <=> phase \in {"discard", "take_have", "take_len", "take_buf"}
  /\ lock = "mac" <=> mac.todo # {}

\* Until the uplink goes out nothing has come, and what came earlier is discarded.
NothingYet ==
  /\ phase \in {"ensure_joined", "send", "discard", "transmit"} =>
       ~open /\ mac.todo = {} /\ last = NoFrame
  /\ phase = "transmit" => ~rx.have

\* What of the last frame has been stored is there to be taken.
Stored ==
  /\ "have" \notin mac.todo => rx.have
  /\ "len" \notin mac.todo => rx.len = last.len
  /\ "port" \notin mac.todo => rx.port = last.port
  /\ "buf" \notin mac.todo => rx.op = last.op /\ (last.len >= 5 => rx.args = last.args)

\* While loop() listens it finds nothing, or a frame of this cycle.
FrameOfThisCycle ==
  phase \in {"listen", "take_have", "take_len", "take_buf"} =>
    \/ open /\ mac.todo = {} /\ last = NoFrame /\ ~rx.have
    \/ ~open /\ mac.frame = last /\ last.len > 0 /\ Stored

\* And it takes that frame field by field.
TakenSoFar ==
  /\ phase \in {"take_len", "take_buf"} => rx.have
  /\ phase = "take_buf" => frame.len = last.len /\ frame.port = last.port
  /\ phase = "parse" => ~open /\ last # NoFrame /\ Command(frame) = Command(last)

\* The wait a failed join announces ends with a heartbeat, or, after the
\* keepalive of a hold, with the reading that ends the hold.
WaitEnds(n) == HeartbeatDue(quiet + n) \/ (held /\ n = 1)

WaitIsSound ==
  /\ phase \notin {"asleep", "ensure_joined"} => due = 0
  /\ phase = "asleep" /\ due # 0 => ~joined /\ WaitEnds(due)
  /\ phase = "ensure_joined" => WaitEnds(next)

IInv ==
  /\ TypeOK
  /\ phase = "ensure_joined" => Filled(payload, 9)
  /\ SectionsExclude
  /\ NothingYet
  /\ FrameOfThisCycle
  /\ TakenSoFar
  /\ WaitIsSound
  /\ idle <= quiet % kQuietCyclesPerHeartbeat
  /\ mac.frame.len <= BufferSize

-----------------------------------------------------------------------------
(* Steps of loop() that start and end a cycle *)

(* The state a reset leaves. *)
LEMMA InitHolds == Init => IInv
  <1> SUFFICES ASSUME Init  PROVE IInv
    OBVIOUS
  <1>1. NoPayload \in Payloads
    BY DEF NoPayload, Cleared, Payloads, kMaxPayloadBytes
  <1>2. /\ NoFrame \in AnyFrame
        /\ MacIdle \in [todo : SUBSET Stores, frame : AnyFrame]
        /\ NothingReceived \in [have : BOOLEAN, len : 0..BufferSize, port : Nat, op : Nat, args : Nat]
        /\ 0 \in 0..MaxQuiet
    BY UplinkAssumption DEF NoFrame, AnyFrame, MacIdle, NothingReceived
  <1>3. TypeOK
    <2>1. open \in BOOLEAN
      BY DEF Init
    <2>2. /\ phase \in Phases /\ joined \in BOOLEAN /\ quiet \in 0..MaxQuiet /\ held \in BOOLEAN
          /\ next \in 1..kQuietCyclesPerHeartbeat /\ due \in 0..kQuietCyclesPerHeartbeat
      BY <1>2 DEF Init, Phases, kQuietCyclesPerHeartbeat
    <2>3. /\ rx \in [have : BOOLEAN, len : 0..BufferSize, port : Nat, op : Nat, args : Nat]
          /\ lock \in {"none", "loop", "mac"} /\ mac \in [todo : SUBSET Stores, frame : AnyFrame]
          /\ frame \in AnyFrame /\ last \in AnyFrame /\ idle \in Nat /\ payload \in Payloads
      BY <1>1, <1>2 DEF Init
    <2> QED BY <2>1, <2>2, <2>3 DEF TypeOK, Payloads
  <1> QED BY <1>1, <1>3, UplinkAssumption
    DEF Init, NoFrame, IInv, SectionsExclude, NothingYet, FrameOfThisCycle, TakenSoFar, WaitIsSound,
        MacIdle, kQuietCyclesPerHeartbeat

(* A reset leaves it too. *)
LEMMA ResetKeeps == Reset => IInv'
  <1> SUFFICES ASSUME Reset  PROVE IInv'
    OBVIOUS
  <1>1. NoPayload \in Payloads
    BY DEF NoPayload, Cleared, Payloads, kMaxPayloadBytes
  <1>2. /\ NoFrame \in AnyFrame
        /\ MacIdle \in [todo : SUBSET Stores, frame : AnyFrame]
        /\ NothingReceived \in [have : BOOLEAN, len : 0..BufferSize, port : Nat, op : Nat, args : Nat]
        /\ 0 \in 0..MaxQuiet
    BY UplinkAssumption DEF NoFrame, AnyFrame, MacIdle, NothingReceived
  <1>3. TypeOK'
    <2>1. open' \in BOOLEAN
      BY DEF Reset
    <2>2. /\ phase' \in Phases /\ joined' \in BOOLEAN /\ quiet' \in 0..MaxQuiet /\ held' \in BOOLEAN
          /\ next' \in 1..kQuietCyclesPerHeartbeat /\ due' \in 0..kQuietCyclesPerHeartbeat
      BY <1>2 DEF Reset, Phases, kQuietCyclesPerHeartbeat
    <2>3. /\ rx' \in [have : BOOLEAN, len : 0..BufferSize, port : Nat, op : Nat, args : Nat]
          /\ lock' \in {"none", "loop", "mac"} /\ mac' \in [todo : SUBSET Stores, frame : AnyFrame]
          /\ frame' \in AnyFrame /\ last' \in AnyFrame /\ idle' \in Nat /\ payload' \in Payloads
      BY <1>1, <1>2 DEF Reset
    <2> QED BY <2>1, <2>2, <2>3 DEF TypeOK, Payloads
  <1> QED BY <1>1, <1>3, UplinkAssumption
    DEF Reset, NoFrame, IInv, SectionsExclude, NothingYet, FrameOfThisCycle, TakenSoFar, WaitIsSound,
        MacIdle, kQuietCyclesPerHeartbeat

(* A valid battery voltage is a field that fits the slowest rate: the payload of a *)
(* node that has yet to join is not empty when a hold ends.                        *)
LEMMA HoldEndsWithAPayload ==
  ASSUME NEW reading \in SUBSET Fields, NEW allowed \in Nat,
         allowed = 0 \/ allowed >= kMinDataRatePayloadBytes, "batt_volts" \in reading
  PROVE  Build(reading, MaxPayload(allowed)).len # 0
  <1> DEFINE p == Build(reading, MaxPayload(allowed))
  <1>1. MaxPayload(allowed) \in Nat /\ MaxPayload(allowed) >= kMinDataRatePayloadBytes
    BY DEF MaxPayload, kMinDataRatePayloadBytes, kMaxPayloadBytes
  <1>2. Filled(p, 9) /\ p.reading = reading /\ p.budget >= 11
    BY <1>1, BuildFills DEF kMinDataRatePayloadBytes
  <1> HIDE DEF p
  <1>3. CASE "batt_volts" \in p.sent
    <2>1. 0 < p.len /\ p.len \in Nat
      BY <1>2, <1>3 DEF Filled, Payloads
    <2> QED BY <2>1 DEF p
  <1>4. CASE "batt_volts" \notin p.sent
    <2>1. p.len + Width("batt_volts") > p.budget
      BY <1>2, <1>4, RankFacts DEF Filled
    <2>2. Width("batt_volts") = 4 /\ p.len \in Nat /\ p.budget \in Nat
      BY <1>2 DEF Width, Filled, Payloads
    <2> QED BY <2>1, <2>2, <1>2 DEF p
  <1> QED BY <1>3, <1>4

(* The top of loop(). *)
LEMMA WakeKeeps ==
  ASSUME IInv, NEW reading \in Readings, NEW hold \in BOOLEAN, NEW keepalive \in BOOLEAN,
         NEW allowed \in Allowances, Wake(reading, hold, keepalive, allowed)
  PROVE  IInv' /\ (idle' > idle => due # 1)
  <1> DEFINE p == Build(reading, MaxPayload(allowed))
             empty == p.len = 0
             attempts == (hold => keepalive) /\ Attempts(keepalive, empty, quiet')
  <1>1. reading \in SUBSET Fields /\ allowed \in Nat /\ MaxPayload(allowed) \in Nat
    BY UplinkAssumption DEF MaxPayload, kMinDataRatePayloadBytes, kMaxPayloadBytes
  <1>2. Filled(p, 9)
    BY <1>1, BuildFills
  <1>3. /\ quiet' = IF empty THEN quiet + 1 ELSE 0
        /\ quiet' <= MaxQuiet
        /\ next' = IF empty /\ ~keepalive THEN CyclesUntilJoinAttempt(quiet') ELSE 1
        /\ attempts => phase' = "ensure_joined" /\ payload' = p /\ due' = due
        /\ ~attempts => /\ phase' = "asleep" /\ payload' = NoPayload
                        /\ due' = IF hold \/ due = 0 THEN 0 ELSE due - 1
        /\ idle' = IF attempts \/ hold THEN 0 ELSE idle + 1
        /\ held' = hold /\ ~open' /\ last' = NoFrame
        /\ joined' = joined /\ rx' = rx /\ lock' = lock /\ mac' = mac /\ frame' = frame
        /\ phase = "asleep" /\ mac.todo = {} /\ (keepalive => hold)
    BY DEF Wake, EndCycle, shared
  <1>4. held /\ ~hold /\ ~joined => ~empty
    BY <1>1, HoldEndsWithAPayload DEF Wake
  <1> HIDE DEF p, empty, attempts
  <1>5. /\ joined \in BOOLEAN /\ quiet \in Nat /\ quiet' \in 0..MaxQuiet /\ held \in BOOLEAN
        /\ idle \in Nat /\ due \in 0..8 /\ MaxQuiet \in Nat
        /\ due # 0 => ~joined /\ WaitEnds(due)
        /\ idle <= quiet % 8
        /\ lock # "loop" /\ lock # "mac"
    BY <1>3, UplinkAssumption
    DEF IInv, TypeOK, WaitIsSound, SectionsExclude, kQuietCyclesPerHeartbeat
  <1>6. next' \in 1..8 /\ WaitEnds(next)'
    <2>1. CASE empty /\ ~keepalive
      BY <2>1, <1>3, <1>5, HeartbeatAhead DEF WaitEnds, kQuietCyclesPerHeartbeat
    <2>2. CASE ~empty
      BY <2>2, <1>3 DEF WaitEnds, HeartbeatDue
    <2>3. CASE keepalive
      BY <2>3, <1>3 DEF WaitEnds
    <2> QED BY <2>1, <2>2, <2>3
  <1>7. ASSUME ~attempts, ~hold
        PROVE  empty /\ quiet' = quiet + 1 /\ ~HeartbeatDue(quiet')
    BY <1>3, <1>7 DEF attempts, Attempts
  <1>8. idle' \in Nat /\ idle' <= quiet' % 8
    <2>1. CASE attempts \/ hold
      BY <2>1, <1>3, <1>5
    <2>2. CASE ~attempts /\ ~hold
      <3>1. quiet' = quiet + 1 /\ (quiet + 1) % 8 # 0
        BY <2>2, <1>7 DEF HeartbeatDue, kQuietCyclesPerHeartbeat
      <3>2. (quiet + 1) % 8 = (quiet % 8) + 1
        BY <3>1, <1>5
      <3> QED BY <3>1, <3>2, <2>2, <1>3, <1>5
    <2> QED BY <2>1, <2>2
  <1>9. ASSUME ~attempts, ~hold, due # 0
        PROVE  due # 1 /\ HeartbeatDue(quiet' + (due - 1))
    <2>1. ~held
      BY <1>4, <1>5, <1>7, <1>9
    <2>2. HeartbeatDue(quiet + due)
      BY <2>1, <1>5, <1>9 DEF WaitEnds
    <2>3. quiet' + (due - 1) = quiet + due
      BY <1>5, <1>7, <1>9
    <2>4. due # 1
      BY <2>2, <1>5, <1>7, <1>9
    <2> QED BY <2>2, <2>3, <2>4
  <1>10. due' \in 0..8 /\ (phase' = "asleep" /\ due' # 0 => ~joined /\ WaitEnds(due)')
    <2>1. CASE attempts
      BY <2>1, <1>3, <1>5
    <2>2. CASE ~attempts /\ (hold \/ due = 0)
      BY <2>2, <1>3
    <2>3. CASE ~attempts /\ ~hold /\ due # 0
      <3>1. due' = due - 1
        BY <2>3, <1>3
      <3> QED BY <3>1, <2>3, <1>9, <1>5 DEF WaitEnds
    <2> QED BY <2>1, <2>2, <2>3
  <1>11. payload' \in Payloads /\ phase' \in {"asleep", "ensure_joined"}
         /\ (phase' = "ensure_joined" => Filled(payload', 9))
    <2>1. NoPayload \in Payloads
      BY DEF NoPayload, Cleared, Payloads, kMaxPayloadBytes
    <2> QED BY <2>1, <1>2, <1>3 DEF Filled
  <1>12. TypeOK'
    <2>1. open' \in BOOLEAN
      BY DEF Wake
    <2>2. last' \in AnyFrame
      BY <1>3 DEF NoFrame, AnyFrame
    <2>3. held' \in BOOLEAN
      BY <1>3
    <2>4. /\ phase' \in Phases /\ payload' \in Payloads
          /\ next' \in 1..kQuietCyclesPerHeartbeat /\ due' \in 0..kQuietCyclesPerHeartbeat
      BY <1>6, <1>10, <1>11 DEF Phases, kQuietCyclesPerHeartbeat
    <2>5. /\ rx \in [have : BOOLEAN, len : 0..BufferSize, port : Nat, op : Nat, args : Nat]
          /\ lock \in {"none", "loop", "mac"} /\ mac \in [todo : SUBSET Stores, frame : AnyFrame]
          /\ frame \in AnyFrame
      BY DEF IInv, TypeOK
    <2> QED BY <2>1, <2>2, <2>3, <2>4, <2>5, <1>3, <1>5, <1>8 DEF TypeOK, Payloads
  <1>13. IInv'
    BY <1>3, <1>5, <1>6, <1>8, <1>10, <1>11, <1>12
    DEF IInv, SectionsExclude, NothingYet, FrameOfThisCycle, TakenSoFar, WaitIsSound,
        kQuietCyclesPerHeartbeat
  <1>14. idle' > idle => due # 1
    BY <1>3, <1>5, <1>9
  <1> QED BY <1>13, <1>14

-----------------------------------------------------------------------------
(* The other steps of loop() *)

(* A join succeeds, is blocked, or fails and announces the next attempt. *)
LEMMA EnsureJoinedKeeps == IInv /\ EnsureJoined => IInv'
  <1> SUFFICES ASSUME IInv, EnsureJoined  PROVE IInv'
    OBVIOUS
  <1>1. /\ NoPayload \in Payloads
        /\ next \in 0..8 /\ due \in 0..8 /\ joined \in BOOLEAN
    BY DEF NoPayload, Cleared, Payloads, kMaxPayloadBytes, IInv, TypeOK, kQuietCyclesPerHeartbeat
  <1>2. /\ phase' \in {"asleep", "send"} /\ due' \in {0, next} /\ joined' \in BOOLEAN
        /\ payload' \in Payloads
    BY <1>1 DEF EnsureJoined, EndCycle, IInv, TypeOK, Payloads
  <1>3. TypeOK'
    BY <1>1, <1>2 DEF IInv, TypeOK, Phases, Payloads, EnsureJoined, shared, kQuietCyclesPerHeartbeat
  <1>4. WaitIsSound'
    BY DEF IInv, WaitIsSound, WaitEnds, EnsureJoined, EndCycle
  <1> QED BY <1>2, <1>3, <1>4
    DEF IInv, SectionsExclude, NothingYet, FrameOfThisCycle, Stored, TakenSoFar, EnsureJoined, shared

(* send() up to lmh_send(). *)
LEMMA SendKeeps == IInv /\ (DiscardEnter \/ Discard \/ Refused \/ Transmit) => IInv'
  <1>1. NoPayload \in Payloads
    BY DEF NoPayload, Cleared, Payloads, kMaxPayloadBytes
  <1>2. ASSUME IInv, DiscardEnter  PROVE IInv'
    BY <1>2 DEF DiscardEnter, Enter, LoopKeeps, history, IInv, TypeOK, Phases, SectionsExclude,
                NothingYet, FrameOfThisCycle, TakenSoFar, WaitIsSound
  <1>3. ASSUME IInv, Discard  PROVE IInv'
    <2>1. /\ Discarded \in [have : BOOLEAN, len : 0..BufferSize, port : Nat, op : Nat, args : Nat]
          /\ ~Discarded.have
      <3>1. rx \in [have : BOOLEAN, len : 0..BufferSize, port : Nat, op : Nat, args : Nat]
            /\ 0 \in 0..BufferSize
        BY <1>3, UplinkAssumption DEF IInv, TypeOK
      <3> QED BY <3>1 DEF Discarded
    <2> QED BY <1>3, <2>1
      DEF Discard, Leave, LoopKeeps, history, IInv, TypeOK, Phases, SectionsExclude,
          NothingYet, FrameOfThisCycle, TakenSoFar, WaitIsSound
  <1>4. ASSUME IInv, Refused  PROVE IInv'
    BY <1>1, <1>4
    DEF Refused, EndCycle, shared, history, IInv, TypeOK, Phases, Payloads, SectionsExclude,
        NothingYet, FrameOfThisCycle, TakenSoFar, WaitIsSound
  <1>5. ASSUME IInv, Transmit  PROVE IInv'
    <2>1. TypeOK' /\ phase = "transmit" /\ phase' = "listen"
      <3>1. open' \in BOOLEAN
        BY <1>5 DEF Transmit
      <3> QED BY <1>1, <1>5, <3>1
        DEF Transmit, shared, history, IInv, TypeOK, Phases, Payloads
    <2>2. open' /\ UNCHANGED <<joined, quiet, held, next, rx, lock, mac, frame, last, idle, due>>
      BY <1>5 DEF Transmit, shared, history
    <2> QED BY <1>5, <2>1, <2>2
      DEF IInv, SectionsExclude, NothingYet, FrameOfThisCycle, TakenSoFar, WaitIsSound
  <1> QED BY <1>2, <1>3, <1>4, <1>5

(* take_downlink(). *)
LEMMA TakeKeeps == IInv /\ (TakeEnter \/ TakeHave \/ TakeLen \/ TakeBuf \/ Apply) => IInv'
  <1>1. NoPayload \in Payloads
    BY DEF NoPayload, Cleared, Payloads, kMaxPayloadBytes
  <1>2. ASSUME IInv, TakeEnter  PROVE IInv'
    BY <1>2 DEF TakeEnter, Enter, LoopKeeps, history, IInv, TypeOK, Phases, SectionsExclude,
                NothingYet, FrameOfThisCycle, Stored, TakenSoFar, WaitIsSound
  <1>3. ASSUME IInv, TakeHave  PROVE IInv'
    <2>1. CASE rx.have
      BY <1>3, <2>1
      DEF TakeHave, LoopKeeps, history, IInv, TypeOK, Phases, SectionsExclude,
          NothingYet, FrameOfThisCycle, Stored, TakenSoFar, WaitIsSound
    <2>2. CASE ~rx.have
      BY <1>1, <1>3, <2>2
      DEF TakeHave, EndCycle, Leave, LoopKeeps, history, IInv, TypeOK, Phases, Payloads,
          SectionsExclude, NothingYet, FrameOfThisCycle, TakenSoFar, WaitIsSound
    <2> QED BY <2>1, <2>2
  <1>4. ASSUME IInv, TakeLen  PROVE IInv'
    <2>1. frame' = [port |-> rx.port, len |-> rx.len, op |-> 0, args |-> 0] /\ frame' \in AnyFrame
      BY <1>4, UplinkAssumption DEF TakeLen, AnyFrame, IInv, TypeOK
    <2>2. ~open /\ last.len = rx.len /\ last.port = rx.port /\ mac.todo = {} /\ rx.have
      BY <1>4 DEF TakeLen, IInv, SectionsExclude, FrameOfThisCycle, Stored, TakenSoFar
    <2> QED BY <1>4, <2>1, <2>2
      DEF TakeLen, LoopKeeps, shared, history, IInv, TypeOK, Phases, SectionsExclude,
          NothingYet, FrameOfThisCycle, Stored, TakenSoFar, WaitIsSound
  <1>5. ASSUME IInv, TakeBuf  PROVE IInv'
    <2>1. /\ mac.todo = {} /\ ~open /\ last.len > 0 /\ last \in AnyFrame
          /\ rx.op = last.op /\ (last.len >= 5 => rx.args = last.args)
          /\ frame.len = last.len /\ frame.port = last.port
      BY <1>5 DEF TakeBuf, IInv, TypeOK, SectionsExclude, FrameOfThisCycle, Stored, TakenSoFar
    <2>2. /\ frame'.op = last.op /\ frame'.len = last.len /\ frame'.port = last.port
          /\ last.len >= 5 => frame'.args = last.args
          /\ frame' \in AnyFrame
      BY <1>5, <2>1, UplinkAssumption DEF TakeBuf, AnyFrame, IInv, TypeOK
    <2>3. Command(frame') = Command(last) /\ last # NoFrame
      BY <2>1, <2>2 DEF Command, NoFrame
    <2>4. rx' \in [have : BOOLEAN, len : 0..BufferSize, port : Nat, op : Nat, args : Nat]
      BY <1>5, UplinkAssumption DEF TakeBuf, IInv, TypeOK
    <2>5. TypeOK'
      BY <1>5, <2>2, <2>4 DEF TakeBuf, Leave, LoopKeeps, history, IInv, TypeOK, Phases
    <2>6. TakenSoFar'
      <3>1. phase' = "parse" /\ open' = open /\ last' = last
        BY <1>5 DEF TakeBuf, LoopKeeps, history
      <3> QED BY <2>1, <2>3, <3>1 DEF TakenSoFar, Command
    <2> QED BY <1>5, <2>1, <2>5, <2>6
      DEF TakeBuf, Leave, LoopKeeps, history, IInv, SectionsExclude, NothingYet,
          FrameOfThisCycle, WaitIsSound
  <1>6. ASSUME IInv, Apply  PROVE IInv'
    <2>1. NoFrame \in AnyFrame
      BY DEF NoFrame, AnyFrame
    <2> QED BY <1>1, <1>6, <2>1
      DEF Apply, EndCycle, LoopKeeps, shared, history, IInv, TypeOK, Phases, Payloads,
          SectionsExclude, NothingYet, FrameOfThisCycle, TakenSoFar, WaitIsSound
  <1> QED BY <1>2, <1>3, <1>4, <1>5, <1>6

-----------------------------------------------------------------------------
(* Steps of the MAC task *)

(* A frame that is cut still has bytes, and every byte a command is read from. *)
LEMMA CappedFits ==
  ASSUME NEW f \in Frames
  PROVE  Capped(f) \in AnyFrame /\ Capped(f).len \in 1..BufferSize
  BY UplinkAssumption DEF Capped, AnyFrame

(* on_rx() begins in open windows, so loop() listens or the cycle is over. *)
LEMMA OnRxKeeps == ASSUME IInv, NEW f \in Frames, OnRx(f)  PROVE IInv'
  <1>1. Capped(f) \in AnyFrame /\ Capped(f).len > 0
    BY CappedFits, UplinkAssumption DEF AnyFrame
  <1>2. /\ open /\ mac.todo = {} /\ lock = "none" /\ lock' = "mac" /\ ~open'
        /\ mac' = [todo |-> Stores, frame |-> Capped(f)] /\ last' = Capped(f) /\ rx' = rx
        /\ UNCHANGED <<phase, joined, quiet, held, payload, next, frame, idle, due>>
    BY DEF OnRx, Enter, MacKeeps
  <1>3. phase \in {"asleep", "listen"}
    BY <1>2 DEF IInv, TypeOK, Phases, SectionsExclude, NothingYet, TakenSoFar
  <1>4. open' \in BOOLEAN
    BY DEF OnRx
  <1>5. TypeOK'
    BY <1>1, <1>2, <1>4 DEF IInv, TypeOK
  <1>6. mac'.todo = Stores /\ mac'.frame = last' /\ last'.len > 0 /\ last'.len <= BufferSize
    BY <1>1, <1>2, CappedFits, UplinkAssumption
  <1>7. FrameOfThisCycle'
    BY <1>2, <1>6 DEF FrameOfThisCycle, Stored, Stores
  <1>8. WaitIsSound'
    BY <1>2 DEF IInv, WaitIsSound, WaitEnds
  <1> QED BY <1>2, <1>3, <1>5, <1>6, <1>7, <1>8
    DEF IInv, SectionsExclude, NothingYet, TakenSoFar, Stores

(* Each of its stores brings one more part of the frame. *)
LEMMA OnRxStoreKeeps == ASSUME IInv, NEW part \in Stores, OnRxStore(part)  PROVE IInv'
  <1>1. /\ mac.todo # {} /\ lock = "mac"
        /\ phase \notin {"discard", "take_have", "take_len", "take_buf"}
    BY DEF OnRxStore, IInv, SectionsExclude
  <1>2. /\ mac' = [mac EXCEPT !.todo = @ \ {part}] /\ part \in mac.todo
        /\ lock' = IF mac'.todo = {} THEN "none" ELSE lock
        /\ UNCHANGED <<phase, joined, quiet, held, payload, next, frame, idle, due, open, last>>
    BY DEF OnRxStore, Leave, MacKeeps
  <1>3. mac'.todo = mac.todo \ {part} /\ mac'.frame = mac.frame /\ mac.frame \in AnyFrame
        /\ mac' \in [todo : SUBSET Stores, frame : AnyFrame]
    BY <1>2 DEF IInv, TypeOK
  <1>4. /\ rx' \in [have : BOOLEAN, len : 0..BufferSize, port : Nat, op : Nat, args : Nat]
        /\ rx'.have = (part = "have" \/ rx.have)
        /\ rx'.len = IF part = "len" THEN mac.frame.len ELSE rx.len
        /\ rx'.port = IF part = "port" THEN mac.frame.port ELSE rx.port
        /\ rx'.op = IF part = "buf" THEN mac.frame.op ELSE rx.op
        /\ rx'.args = IF part = "buf" /\ mac.frame.len >= 5 THEN mac.frame.args ELSE rx.args
    <2>1. /\ rx \in [have : BOOLEAN, len : 0..BufferSize, port : Nat, op : Nat, args : Nat]
          /\ mac.frame.len \in 0..BufferSize /\ mac.frame.port \in Nat
          /\ mac.frame.op \in Nat /\ mac.frame.args \in Nat
      BY <1>3, UplinkAssumption DEF IInv, TypeOK, AnyFrame
    <2>2. CASE part = "have"
      BY <2>1, <2>2 DEF OnRxStore
    <2>3. CASE part = "len"
      BY <2>1, <2>3 DEF OnRxStore
    <2>4. CASE part = "port"
      BY <2>1, <2>4 DEF OnRxStore
    <2>5. CASE part = "buf"
      BY <2>1, <2>5 DEF OnRxStore
    <2> QED BY <2>2, <2>3, <2>4, <2>5 DEF Stores
  <1>5. TypeOK'
    BY <1>2, <1>3, <1>4 DEF IInv, TypeOK
  <1>6. ASSUME phase = "listen", ~open, mac.frame = last, last.len > 0, Stored
        PROVE  Stored'
    BY <1>2, <1>3, <1>4, <1>6 DEF Stored
  <1>7. FrameOfThisCycle'
    BY <1>1, <1>2, <1>3, <1>6 DEF IInv, FrameOfThisCycle
  <1>8. WaitIsSound'
    BY <1>2 DEF IInv, WaitIsSound, WaitEnds
  <1>9. NothingYet' /\ TakenSoFar'
    BY <1>1, <1>2, <1>3 DEF IInv, NothingYet, TakenSoFar
  <1>10. SectionsExclude'
    BY <1>1, <1>2, <1>3 DEF IInv, SectionsExclude
  <1> QED BY <1>2, <1>3, <1>5, <1>7, <1>8, <1>9, <1>10 DEF IInv

-----------------------------------------------------------------------------
(* The theorems *)

(* A step that changes nothing keeps the invariant. *)
LEMMA StutterKeeps == IInv /\ UNCHANGED vars => IInv'
  BY DEF vars, shared, history, IInv, TypeOK, SectionsExclude, NothingYet, FrameOfThisCycle,
         Stored, TakenSoFar, WaitIsSound, WaitEnds

(* Every step keeps the invariant, and none that lets an announced attempt pass. *)
LEMMA StepKeeps == IInv /\ [Next]_vars => IInv' /\ (phase = "asleep" /\ idle' > idle => due # 1)
  <1> SUFFICES ASSUME IInv, [Next]_vars
               PROVE  IInv' /\ (phase = "asleep" /\ idle' > idle => due # 1)
    OBVIOUS
  <1>1. idle \in Nat
    BY DEF IInv, TypeOK
  <1>2. CASE Reset
    BY <1>1, <1>2, ResetKeeps DEF Reset
  <1>3. CASE \E reading \in Readings, hold, keepalive \in BOOLEAN, allowed \in Allowances :
               Wake(reading, hold, keepalive, allowed)
    BY <1>3, WakeKeeps
  <1>4. CASE EnsureJoined
    BY <1>1, <1>4, EnsureJoinedKeeps DEF EnsureJoined
  <1>5. CASE DiscardEnter \/ Discard \/ Refused \/ Transmit
    BY <1>1, <1>5, SendKeeps DEF DiscardEnter, Discard, Refused, Transmit, LoopKeeps, history
  <1>6. CASE TakeEnter \/ TakeHave \/ TakeLen \/ TakeBuf \/ Apply
    BY <1>1, <1>6, TakeKeeps DEF TakeEnter, TakeHave, TakeLen, TakeBuf, Apply, LoopKeeps, history
  <1>7. CASE \E f \in Frames : OnRx(f)
    <2>1. PICK f \in Frames : OnRx(f)
      BY <1>7
    <2>2. IInv' /\ idle' = idle
      BY <2>1, OnRxKeeps DEF OnRx, MacKeeps
    <2> QED BY <1>1, <2>2
  <1>8. CASE \E part \in Stores : OnRxStore(part)
    BY <1>1, <1>8, OnRxStoreKeeps DEF OnRxStore, MacKeeps
  <1>9. CASE UNCHANGED vars
    BY <1>1, <1>9, StutterKeeps DEF vars, history
  <1> QED BY <1>2, <1>3, <1>4, <1>5, <1>6, <1>7, <1>8, <1>9 DEF Next

(* The inductive invariant holds in every state, whatever the sensors produce, the *)
(* MAC allows and the gateway sends.                                               *)
THEOREM Invariant == Spec => []IInv
  <1>1. Init => IInv
    BY InitHolds
  <1>2. IInv /\ [Next]_vars => IInv'
    BY StepKeeps
  <1> QED BY <1>1, <1>2, PTL DEF Spec

(* Every variable keeps its type: no payload outgrows kMaxPayloadBytes and no frame *)
(* the buffer.                                                                      *)
THEOREM TypeCorrect == Spec => []TypeOK
  <1>1. IInv => TypeOK
    BY DEF IInv
  <1> QED BY <1>1, Invariant, PTL

(* Whatever was read and whatever the MAC allows, build() leaves out only what no *)
(* longer fits, least important first.                                            *)
THEOREM TheMostImportantGoFirst == Spec => []MostImportantFirst
  <1>1. IInv => MostImportantFirst
    <2> SUFFICES ASSUME Filled(payload, 9)  PROVE MostImportantFirst
      BY DEF IInv, MostImportantFirst
    <2>1. \A f \in payload.reading \ payload.sent : Rank[f] <= 9
      BY Numbering DEF Filled, Payloads
    <2> QED BY <2>1 DEF Filled, MostImportantFirst
  <1> QED BY <1>1, Invariant, PTL

(* Whenever the callback runs and in whatever order its stores take effect, loop() *)
(* parses one frame, the last one received.                                        *)
THEOREM FramesAreWhole == Spec => []FrameIsWhole
  <1>1. IInv => FrameIsWhole
    BY DEF IInv, TakenSoFar, FrameIsWhole
  <1> QED BY <1>1, Invariant, PTL

(* And that frame came in the windows of this cycle's own uplink. *)
THEOREM CommandsAreFresh == Spec => []CommandIsFresh
  <1>1. IInv => CommandIsFresh
    BY DEF IInv, TakenSoFar, CommandIsFresh
  <1> QED BY <1>1, Invariant, PTL

(* However readings, holds and sends alternate, a node that is not held is silent *)
(* for fewer than kQuietCyclesPerHeartbeat cycles.                                *)
THEOREM SilenceStaysBounded == Spec => []SilenceIsBounded
  <1>1. IInv => SilenceIsBounded
    BY DEF IInv, TypeOK, SilenceIsBounded, kQuietCyclesPerHeartbeat
  <1> QED BY <1>1, Invariant, PTL

(* The cycle a failed join announced does not pass without an attempt, unless a *)
(* hold came between.                                                           *)
THEOREM AnnouncedWaitsAreKept == Spec => AnnouncedWaitIsKept
  <1>1. IInv /\ [Next]_vars => [phase = "asleep" /\ idle' > idle => due # 1]_vars
    BY StepKeeps
  <1> QED BY <1>1, Invariant, PTL DEF Spec, AnnouncedWaitIsKept
=============================================================================
