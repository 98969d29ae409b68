# A TLA+ model of the RAK sensor node firmware

The node is a battery powered LoRaWAN class A device (nRF52840 and SX1262 on a
RAK4630) that wakes, reads a smart battery and a weather sensor over RS-485, may
send one uplink, may receive one downlink, and sleeps. It has one application
thread, `setup()` and `loop()`; the LoRa library adds a task that delivers
downlinks through a callback. There is no operator beside it: what it does after
a reset, with a failing flash, a silent pack or an absent gateway decides whether
anybody ever hears from it again.

That is what this directory is about. Nearly every mechanism of the firmware
exists to balance two failures against each other. Sending, joining or writing
flash on an empty pack browns the node out, in the worst case in the middle of a
flash write; not sending leaves a class A node that cannot be commanded, because
a downlink follows only an uplink. The code therefore holds back, counts, and
lets through one exception at a time. Those counters, permits and exceptions, and
their meeting with resets and failed writes, are what the modules model.

Everything is translated from `src/src/` (paths below are relative to the
repository; `PROJECT.json` maps each definition to its lines).

## The system

| Component | State it keeps | Operations | Modelled by |
|---|---|---|---|
| Session store, `session.cpp` | `/session.bin`; in RAM the ceiling, "have a ceiling", failed-write strikes, "ceiling abandoned", "fresh join blocked", format cooldown | restore, write, forget, prepare_fresh_join, counter_headroom_ok, emergency format | `Session`, abstractly `Reserve` |
| Radio front end, `radio.cpp` | started, joined, failures, the downlink buffer and its ready flag | begin, ensure_joined, send, take_downlink, backoff_seconds | `Session`, `Interval` (the backoff), `Uplink` (the downlink handoff, the allowance) |
| Brownout gate and keepalive clock, `power.cpp` | engaged, missed reads, without evidence; armed, cycles held | begin, update, keepalive_due, note_keepalive_sent | `Brownout`, abstractly `Hold` |
| Configuration, `config.cpp` | `/config.bin`; in RAM the interval, boot count, brownout bit, "boot write pending", mounted | begin, load, save, the setters, rewrite after a format | `Interval`; its brownout bit in `Brownout` |
| Main loop, `main.cpp` | pending interval with its retry budget, cycles without uplink, first cycle | setup, loop, apply_downlink | partly, in the phases of `Session`, `Interval`, `Brownout`, `Uplink` (the heartbeat) |
| Storage, `storage.cpp` | none of its own; littlefs below | mount, atomic_write, read, remove, format | by outcome |
| Battery driver, `sensors/battery.cpp` | last result, remembered pid, three failure counters, cycle count, next full cycle, BOOT spent and its floor | read, ladder_allowed, boot_if_warranted, acquire_pid | `Battery` |
| Battery link and frames, `sensors/battery.cpp`, `sensors/battery_frame.cpp` | the sequence number, the receive buffer | send_frame, query, receive, provision, next_frame, decode, frame_matches_query | `Frame`, `Onewire` |
| Payload, `payload.cpp` | one buffer, its length and budget | build, by the put functions | `Uplink` |
| Weather sensor and Modbus, `sensors/rk900.cpp`, `sensors/modbus.cpp` | the UART's buffer, the last result | read, drain, request, reply, retry | `Modbus` |
| Sleep, `power.cpp` | boot grace expired, the USB pull-up, the radio's bus | sleep_seconds, in_boot_grace | `Sleep` |
| CRC-16, watchdog, reset reason, bus scan, build switches, host tools | | | not modelled |

### How the parts meet

* `main.cpp` reads the battery, hands the reading to `Brownout::update()`, and the
  gate's answer decides everything after it: whether flash may be written
  (`flash_write_allowed()`, asked by `config.cpp` and `session.cpp`), whether the
  radio may be used, whether this cycle is a keepalive.
* A keepalive is a transmission the gate allows once per `KeepaliveCycles` of a
  hold. It needs two exceptions in `session.cpp`, one flash write and one join, and
  `main.cpp` grants them as one-shot permits before it calls the radio.
* The radio asks the session store before a join (is a stale record in the way?)
  and before every frame (is the stored counter still ahead?).
* The session store, when flash has failed it, may format the whole filesystem,
  which erases Config's record; Config then writes its RAM values back.
* The gate stores its bit in Config's record, so every other save of Config writes
  the bit too, and saving the bit writes the interval too.
* Both sensors are read at the top of a cycle, the weather station first. They share
  a switched rail and nothing else; each read is closed before the next begins, so
  `Modbus` and `Onewire` are modules of their own.
* The gate's update after `read()` and the driver's `ladder_allowed()` at the
  start of the next one form a loop: a hold switches off the part of the read that
  could end the hold.

### What is hard

1. **Resets at any point** (brownout, watchdog, power). RAM is gone, flash is what
   the last completed operation left. (`Session`, `Brownout`, `Interval`)
2. **Each flash operation may fail**, and failure of a `remove` or a `format` leaves
   RAM not knowing what flash holds. (`Session`, `Interval`)
3. **The network and the node may disagree** about which session is current: a
   join accept can be lost or late. (`Session`)
4. **Exceptions that outlive their reason**: permits granted but not consumed,
   deadlines that recede, budgets reset by the wrong event. (`Session`, `Battery`)
5. **Circular waiting**: gate, reading and ladder; ceiling, flash and reachability.
   (`Battery`, `SessionLiveness`)
6. **Partial success** of calls that write, roll back, and answer a Boolean.
   (`Interval`, `Brownout`)
7. **A buffer shared with another task**: the downlink, and what an earlier cycle
   left in it. (`Uplink`)
8. **Two evaluations of one rule**: the heartbeat decides which cycles attempt a
   join, and what a failed join announced about them. (`Uplink`)
9. **Answers that come late, torn or to someone else**: a Modbus reply has no
   sequence number at all, a one-wire reply has eight bits of it, and both share the
   wire with whatever was still on its way. (`Modbus`, `Onewire`)
10. **Clocks that wrap**: `millis()` after 49 days, ticks in 32 bits. (`Sleep`)

`PROJECT.json` lists each of these at the line where it bites, under `hazards`,
with the properties that would catch it.

### What makes each part correct

* Session: no frame counter is used twice in a session, whatever resets happen; no
  session the network has replaced is resumed; flash is not written under a hold
  except for the keepalive; nothing makes the node mute for good.
* Gate: a pack known to be low is not charged a transmission; a silent pack is not
  assumed healthy; a hold ends with recovery only, and cannot mute a node for ever.
* Configuration: every sleep is within fair use; a command takes effect even when
  flash refuses it; a failed write does not leave RAM and flash in silent
  disagreement; retries are bounded.
* Battery driver: recovery is always scheduled again, is never bought more often
  than budgeted, searches every address, and believes only the pack itself.
* Uplink and answer: a slow link costs the least important fields first; a command
  is applied whole and in the cycle whose uplink it answers; a silent node keeps its
  heartbeat, and the join attempt it announces is made.
* Sensor links: a reading is what the sensor said, whole, in answer to this question;
  an address is believed only when the pack has shown it; a read ends whatever the
  bus does.
* Sleep: it lasts what was asked for, and what it switches off comes back.

## The modules

The dependencies are few: `Session` implements `Reserve`, `Brownout` implements `Hold`,
`Battery` extends `Hold` and `Onewire` extends `Frame`. The other components see each other through an input chosen freely at each
wake-up, which allows more than the other component does, so a safety property
shown here holds in the composition too.

### Session and Reserve (with SessionLiveness, SessionProofs)

`store` is `/session.bin` (`file`, at most one record) with the file statics of
`session.cpp`; `radio` is the radio's members; `mac` is the MAC's session and next
frame counter; `permits` are the two one-shot tokens; `wake` is what the gate said
in this cycle; `net` is the network's side, the newest session it granted. Each
function of `session.cpp` is an operator that returns the set of its possible
results: `Forget`, `Restore`, `WriteSession`, `FormatAndRebuild`,
`RebuildAndReanchor`, `PrepareFreshJoin`, `CounterHeadroomOk` with its ladder. The
actions are the calls of one cycle in their order: `Setup`, `Wake`, then
`AlreadyJoined`, `BeginAgain` or `NotJoined`, `Prepare`, `JoinAccepted` or
`JoinFailed`, `Headroom`, `SendOk` or `SendFailed`; `Crash` may come between any
two. A crash within a call needs no action: what it leaves in flash is what the
call leaves when its remaining flash operations fail, and RAM is lost either way.

`used`, `excused` and `escaped` are history. The code knowingly lets a frame pass
a ceiling it could not move, and knowingly joins past a file it could not remove,
when the alternative is a mute node. `excused` and `escaped` record exactly that,
and only for as long as the consequence lasts, so the safety properties are
unconditional up to the code's own documented exceptions.

`Reserve` is what all of this promises the network: a counter in use, a copy of it in
storage that survives a reset and is deliberately ahead, the sessions granted, and a
`lapsed` bit for the time in which the promise is off. It has no flash that fails, no gate,
permits, strikes or ladder. Storage changes only to a value ahead of the live counter
(`Renew`, `Grant`) or to nothing (`Lose`, `Erase`, `Lapse`); the counter in use comes from
storage (`Resume`) or from the network (`Grant`); a frame outside a lapse is strictly
below the stored copy (`Send`). `Session!ImplementsReserve` is `R!ReserveSpec` with `stable`
the record in the file, `live` the MAC's session while the radio is joined (`Held`; the
code keeps a MAC that has been given up, and nobody uses it), `newest` the network's session and
`lapsed` the history bit `excused`. So the abstract `NeverBehind` is `NoReplay`, and it
follows from the eight abstract steps alone. Outside a lapse a step of `Session` that sends at or
above the stored counter, resumes from anything else or stores a counter that is not ahead
is a step of no action of `Reserve`.

### Brownout and Hold (with BrownoutProofs)

`Brownout` has one action per way through `Brownout::update()` (`UnreadableOpen`,
`UnreadableHeld`, `UnreadableBlind`, `Engage`, `Healthy`, `Recover`, `StillHeld`),
the cycle's end with or without a keepalive, and what else moves Config's bit:
another save, the emergency format, a reset and the boot. `Hold` is the abstract
gate: open, low (it rests on a measurement) or blind (it rests on none), with no
voltages, clock or flash. `Brownout!ImplementsHold` is `H!HoldSpec` under the
mapping `GateHold`; TLC checks it and `BrownoutProofs!GateImplementsHold` proves it.

### Interval (with IntervalProofs)

Config's record and members, the pending interval of `main.cpp`, and the sleep each
cycle chooses. `SetInterval`, `SetBrownoutEngaged`, `Save`, `ConfigBegin`,
`PersistBootCount` return sets of results as above. The cycle is `WakeUp` (the gate's bit, the
retry of a pending interval, the choice of the sleep) and then one of
`SetIntervalHeard`, `StatusHeard`, `NothingHeard`; `Rebuild` is the emergency
format. The backoff is kept as the seconds it has doubled to, which is what the
number of failures stands for. Two variables remember commands for the properties:
`asked`, the last one in range since boot, and `dropped`, that an invalid one was heard
before it was saved. Only the second ends the reign that `CommandGovernsSleeps` states:
the sleep of every later cycle is the last command's, whatever the record, the pending
value and its retries have gone through since. A status request
shortens one sleep, a backoff overrides it while it stands.

### Battery (with BatteryProofs)

One cycle of `Battery::read()`, step by step: `Wake` is `ladder_allowed()`,
`DirectQuery`, `Acquire` (the BOOT nudge and the announcement window),
`FirstFollowUp`, `SecondFollowUp`, `Listen`, and `Account`, which also performs the
gate's update that follows the read. The pack is free to answer or stay silent at
every step, to announce itself, and to send noise. The gate is `Hold`'s, so the
circular wait between the two components is in the model.

### Uplink (with MCUplink, UplinkProofs)

One cycle as the network sees it. `Wake` is the top of `loop()`: `Build` is
`Payload::build()` with a budget from `MaxPayload`, by field names and widths;
`quiet` counts the empty cycles, and `Attempts` with `HeartbeatDue` decides whether
this one goes to the radio. `EnsureJoined` may announce the next attempt, which
`due` (history) remembers. Then `DiscardEnter`, `Discard`, `Refused` or `Transmit` are
`send()`, and `TakeEnter`, `TakeHave`, `TakeLen`, `TakeBuf`, `Apply` are
`take_downlink()`. The MAC task is `OnRx` and one `OnRxStore` for each of its four
stores. They may take effect in any order, because neither the compiler nor the
flag's `volatile` orders them, and between any two steps of `loop()`; nothing but
`lock`, the critical section, keeps them apart. `open` says that an uplink is on the
air and its windows have brought nothing: a frame may still come when `loop()` has
stopped listening, until the next wake-up. Of the MAC one thing is assumed, in the
guard of `Wake`: without a session it reports an allowance of zero or at least the
slowest rate's 11 bytes, since it has no MAC answers to make room for. Without it a
node that ends a hold unjoined could find that its payload is empty.

### Modbus (with MCModbus, ModbusProofs)

One weather read, byte by byte. `fifo` is the UART's receive buffer, `line` what the
station has sent and the UART has not received, `owed` the requests it has seen. `Drain`
and `Silent` are `drain_and_settle()`, one byte a step, with both of its ceilings;
`Request`, `Read`, `Complete`, `Gap` and `Ceiling` are `transact()`; `Finish` is the
loop of `read_holding()`; `PowerOff` closes the port and judges the registers. A reply
carries no sequence number and no register address, so the only thing that tells one
attempt's answer from another's is when it came, and the station is free to answer any
request it has seen, however late, whole, cut, damaged or with a refusal, while a driver
may babble for ever. The checksum is an uninterpreted function: each of its two bytes
names the content it is the checksum of (`of`), so a checksum matches exactly if
it was computed over these bytes. That makes the model blind to collisions of the
16-bit CRC, and to nothing else. `heard` is history: what one attempt has received, as long
as it may still become one whole reply.

### Frame and Onewire (with MCOnewire, OnewireProofs)

`Frame` is the codec: where frames are in a buffer (`Verified`, which is what
`next_frame()` visits, in ascending order), what each is for, how one is built.
`Onewire` is the exchanges. The buffer, the frames and the checksum are real bytes: the
checksum is the number of set bits, as in the code, so a frame within a frame or a
delimiter among the values is in the model. `Query`, `Listen`, `SendBoot`, `Receive` are
`query()`, the push listen, `send_boot()` and `receive()` with `parse()`; the record walk
is a step for each record (`WalkCapacity`, `WalkWord`, `WalkCut`, `Judge`); `OpenWindow`,
`WindowReceive` and `CloseWindow` are `acquire_pid()` with `provision()`. `Battery` says in
which order a cycle runs them. Here the order is free, which allows more. The pack answers
late or never, breaks off a frame, talks unasked, takes an assigned id and resets. It does
not flip bits: a checksum that counts bits cannot see a damage that keeps their number, so
no property about readings would hold of a bus that does, in the code neither.

What it can do even so is to make the head of a broken frame and the start of the next
one pass the checks together, or to carry a frame within a payload. `MCOnewire` holds one of
each (`TailIsBorrowed`, `PayloadHoldsAFrame`), which TLC evaluates. No receiver that only has these
checks can tell such bytes from a frame. `NoForgery` says that they do not occur in this
read; it is an assumption about the wire and no property of the driver. The properties of
`Onewire` are stated under it: the run takes it as its state constraint, the theorems as their hypothesis.

### Sleep (with SleepProofs)

`sleep_seconds()` from the way down (`SleepSeconds`) through the slices (`SleepSlice`,
with the conversion to ticks in 32 bits) to the way up (`Wake`), with `in_boot_grace()`
on a `millis()` that wraps and a USB host that opens and closes the port when it likes.
The comment at the semaphore says that nothing gives it yet, so a wait runs out.

A definition whose name starts with `Mutant` is a bug the code could have had (some
are bugs its change log says it did have). Nothing refers to them; `PROJECT.json`
says which property notices each.

## The runs

| Run | Configuration | Shows | States |
|---|---|---|---|
| `session` | `MCSession.cfg` | `NoReplay`, `CeilingDescribesFile`, `NoStaleSession`, `EscapeOnlyOnKeepalive`, `FlashHeldByGate`, `ImplementsReserve` | 2,130,198 |
| `session_liveness` | `SessionLiveness.cfg` | `HeldNodeReachable`, `RepairedNodeReachable` | 12,789 |
| `session_dead_flash` | `SessionDeadFlash.cfg` | `DeferralIsBounded` is violated | |
| `brownout` | `MCBrownout.cfg` | `NoKeepaliveWhenLow`, `SilenceHolds`, `HoldIsReachable`, `HoldRunsItsCourse`, `RollbackIsHonest`, `NeverMuted`, `ImplementsHold` | 2,407 |
| `interval` | `MCInterval.cfg` | `FairUse`, `BackoffCannotWrap`, `RetriesAreBounded`, `CommandGovernsSleeps`, `RetryKeepsCadence`, `HeldRecordIsQuiet`, `AgreementKept` | 92,579 |
| `interval_invalid` | `IntervalInvalid.cfg` | `InvalidIsIgnored` is violated | |
| `boot_count` | `IntervalBoots.cfg` | `BootCountKeepsUp` is violated | |
| `battery` | `MCBattery.cfg` | `LadderKeepsComing`, `PidWasHeard`, `EveryAddressIsTried`, `LaddersAreSpaced`, `BootsAreSpaced` | 660,377 |
| `uplink` | `MCUplink.cfg` | `MostImportantFirst`, `FrameIsWhole`, `CommandIsFresh`, `SilenceIsBounded`, `AnnouncedWaitIsKept` | 53,116 |
| `modbus` | `MCModbus.cfg` | `VerdictWasSent`, `HeardIsBelieved`, `ReadEnds` | 184,618 |
| `onewire` | `MCOnewire.cfg` | `ReadingWasSaid`, `LatchIsAnnounced`, `ReplyAssigns`, under the constraint `NoForgery` | 827,550 |
| `sleep` | `MCSleep.cfg` | `SleepIsWhole`, `GraceIsOnce` | 14,956 |

Each module's `TypeOK` is proved for every value of its constants (below) and not
listed in a run; so are `StrictlyBelowStored` (the run checks it at each frame, within
`ImplementsReserve`), `RefusalSpendsStrike`, `KeepaliveIsNotDeferred`,
`OneBootPerEpisode`, `NodeIsReachable`, and what the proof modules state themselves
(`StrikesLastUntilTheAir`, `WaitIsBounded`, `KeepaliveFallsDue`, `LeftIsBounded`, `LeftRunsOut`,
`QueryIsFresh`). Each property is stated in words above its definition.

### Bounds, and why they are enough

* `session`: the reserve is 2 counters rather than 32, two failed writes before the
  ladder rather than 3, a cooldown of one call rather than 96, two failed sends before a
  drop rather than 3, three sessions and counters up to 5. A reserve of 2 still has a
  counter that needs no write and one that does; counters to 5 cross the ceiling
  twice in one session; two strikes distinguish the first, the last and a reset of the
  count; three sessions allow a replaced one, a lost accept and one after it. The
  proofs cover every other value. `MaxSession` and `MaxCounter` only end the
  exploration: a node at its bound can still reset.
* `session_liveness`: constants of 1 and 2, because the state graph is searched for
  cycles. `BoundReached` excuses a node that has used up the model's sessions or
  counters, not one that has met an obstacle of the code's.
* `brownout`: the field thresholds, and the voltages on and one beside each of them:
  the code only compares. Resets are unlimited, flash may fail at every call.
* `interval`: the field limits, requests on and one beyond each of them; the boot
  count is due every second boot and three boots are explored, so a boot that writes
  it comes between two that do not. Deadlock is not checked: after `MaxBoots` a
  reset node stays down.
* `battery`: allowances of 2 and 3, a retry after 4 and a BOOT floor of 6 cycles,
  counters that saturate at 3, twelve cycles between two resets. Twelve cycles hold
  an allowance, a scheduled ladder and the next, and two BOOTs; saturation happens
  within them. The relations between the constants are those of the code (`BatteryAssumption`).
* `uplink`: allowances below the first field, between the fields and at the slowest
  rate, beyond the largest payload, and zero; readings of nothing, one field, one
  sensor, all, and all but one that ranks high. Seventeen quiet cycles hold the
  heartbeats at 1, 8 and 16, so both spans between heartbeats occur. Frames: two commands that
  differ in their argument, a status request, a wrong length, one longer than the
  buffer and one on another port, so that a frame mixed from two of them is seen.

* `modbus`: two registers, of which the second plays the pressure, and spans of zeros, of a
  zero pressure, and one that needs both bytes of a register; two attempts; a drain of two
  bytes rather than 94; a receive buffer of two. With two attempts a late
  answer can meet the next one's drain, its settling time or its reply; two bytes of drain
  are fewer than a reply, so a stale reply may outlast the drain. Damage may hit the
  function code and a value, with a byte that reads as an exception; a reply may break off
  inside its values.
* `onewire`: frames of real bytes, the master's sequence numbers modulo 2 (a third query would
  meet its own number again, and `MaxSends <= SeqRange` is what the code keeps: four frames
  a read against 256); a receive buffer of 40 bytes, room for
  two of the shorter reports; three reports: a template of zeros before a record of unknown width; values that
  contain the delimiter and differ in the two byte orders, before a record of which only
  the type is there; and values of which the last ends in its middle. Two utterances of
  the pack in a read are enough for a late reply and a fresh one, or
  an announcement and a reply, or two announcements in one buffer. `Breaks` bounds where a
  receive may end: within a frame, within the next, or after all. A frame breaks off after 13
  bytes, ahead of the first value of a report and of the checksum of an announcement.
  What the pack says unasked carries the
  sequence 28, for which such a cut before such a push is a forged frame: the run reaches that state and its
  constraint `NoForgery` ends the behaviour there. Without the constraint TLC finds a reading that
  nobody said within seconds. Other cuts, reports and sequences are the theorems' matter.
* `sleep`: slices of 3 seconds, sleeps up to 8, a word of 64 with four "milliseconds" and
  five ticks a second: a slice fits the word, a whole sleep does not. `millis()` wraps
  at 17 seconds and 40 are explored, so it wraps twice. Deadlock is not
  checked: at `MaxAge` time stands still.

### Fairness

`SessionLiveness!Fairness` assumes that resets end; that the loop thread is
scheduled (`WF` of its steps: nothing in `loop()` blocks without a timeout); that
cycles that reach the radio keep coming (`SF`: an open gate lets them through, and
under a hold `Brownout!NeverMuted` provides the keepalive); that the radio starts and a
gateway answers if they are tried for ever (`SF`). None of this is in the code's
hands. Nothing is assumed of flash: `RepairWorks` is a hypothesis of
`RepairedNodeReachable` alone, and `DeferralIsBounded`, without it, is violated.

`Brownout!FairSpec` assumes that resets end, that the loop runs, and that a
keepalive which stays due gets through once, because a failed one is retried on
every later cycle (the clock is cleared only on success). The hypothesis of
`NeverMuted` is a pack that from some time on is not measured low: a low pack is
held silent on purpose.

`Modbus!FairSpec` assumes only that the loop thread runs and that time passes for it: the
drain's byte, the request, the end of a reply and the ceiling come. Nothing is assumed
of the station or the bus, so `ReadEnds` includes a bus that babbles for ever.

## The proofs

`tlapm` checks eight modules. They assume nothing but the named assumptions on the
constants (`SessionAssumption`, `BrownoutAssumption` with `HoldAssumption`,
`IntervalAssumption`, `BatteryAssumption`, `UplinkAssumption`, `ModbusAssumption`,
`OnewireAssumption` with `ReportAssumption`, `SleepAssumption`), which the code's values satisfy and TLC
evaluates on each run.

* **SessionProofs**: the properties of `session` with the refinement of `Reserve`,
  `StrictlyBelowStored`, `TypeOK`, and three that say what a
  held node's cycle can end with: `RefusalSpendsStrike` (past `WriteFailuresBeforeForget`
  strikes every answer lets the frame go), `StrikesLastUntilTheAir` (strikes drop only in a step
  that starts or follows an attempt to send or to join, or in a reset, so at most
  `WriteFailuresBeforeForget` frames are refused between two such attempts) and
  `KeepaliveIsNotDeferred` (a keepalive resumes or joins whatever the flash does).
  They are the safety part of `HeldNodeReachable`. A lemma
  for each function of `session.cpp` says what it may return; one lemma per action
  follows. The properties are not inductive: `NoReplay` needs that the RAM
  ceiling is the stored counter (`StoreKnows`), that a sender holds a session and that a
  cycle held by the gate carries its permits (`PhaseKnows`), and that no address the
  network has not granted is stored or used (`NetworkFirst`). `IInv` is `TypeOK`,
  those three, and the invariants themselves. The center of the argument is
  `HistoryFacts` with `QuietStep`: a step that sends nothing, is granted nothing and
  stores nothing new cannot make a counter or a session lag, and the steps that do
  one of those (`Headroom`, `SendOk`, `JoinAccepted`, `JoinFailed`) are each shown
  to put the record ahead or to be excused.

  `SessionImplementsReserve` maps every action to a step of `Reserve` or a stutter:
  `RestoreRefines`, `BeginRefines`, `PrepareRefines`, `JoinRefines`, `HeadroomRefines`, `SendRefines` and
  `OtherRefines` for the actions, `KeepRefines` for all that leave the counters alone. One step
  of the node is one step of `Reserve` even where the code performs several flash operations
  in a call, because each of these leaves the old record, the new one or none. `ExcuseSettles`
  shows that `excused` ends as `Settle` allows: `Session` keeps it from the headroom check to the frame, when
  nothing has fallen behind yet, and after that for as long as something has. `ReserveIsNeverBehind` is about `Reserve` alone: its own invariant `ReserveIInv` adds to
  `NeverBehind` that no session is known or used before it is granted, which is what makes
  a fresh grant start above everything sent. It does not follow from the refinement but
  says that the specification implemented is worth implementing.
* **BrownoutProofs**: the safety properties of `brownout` and the refinement of
  `Hold`. `IInv` adds that the miss counter counts exactly and a hold is blind from
  the `InvalidLimit`-th miss on (`Evidence`), that a low reading disarms the
  keepalive in the cycle that took it (`LowDisarms`) and nothing else does except the
  misses before a hold turns blind (`OnlyLowDisarms`), and that a node that is down
  remembers nothing (`ResetCleared`).

  `WaitStaysBounded` and `KeepalivesFallDue` are the safety part of `NeverMuted`. `Wait` counts the
  cycles a hold still has to its keepalive if no reading in them is low: the rest of the held
  time and then, for a hold whose clock a low reading has disarmed, the misses that make it
  blind. It is at most `KeepaliveCycles + InvalidLimit`, each cycle that is not measured low lowers
  it or finds the keepalive due, and nothing between two readings raises it. The lemma
  under it is `BlindArms`: the misses that make a hold blind arm its clock, and no miss
  disarms it after that. What fairness adds is that cycles keep coming and that a due keepalive gets
  through once.
* **IntervalProofs**: all properties of `interval`. `IInv` adds that there is at most one
  record (`OneRecord`), that every interval the node could act on is in range
  (`InRangeAlways`: the backoff is why `IntervalMin <= BackoffFirst` is assumed, as
  the code asserts it), the write budget (`BudgetKept`), and what a command leaves behind
  (`Governed`): as long as none has been dropped, the pending value or, when nothing is
  pending, Config's own is the last one asked for, and a cycle in progress has taken it for its
  sleep. `CommandsGovern` rests on `WakeUpIInv` and `RebuildIInv` for the first part (a retry that
  lands moves the value, one that runs out leaves it pending, a save of the gate or a format
  touches neither) and on `AcceptedFacts` for what a new command replaces.
* **BatteryProofs**: all properties of `battery`, and `OneBootPerEpisode`. The argument for
  `LadderKeepsComing` is arithmetic over the episode: every failed cycle is a missed
  voltage, so a measured hold cannot outlive `InvalidLimit` of them (`MissesCount`);
  with no deadline set there is allowance left (`UnarmedHasAllowance`); once it is
  set, it never recedes except when a ladder has run (`IdleIsPaid`). `RetrySchedules`
  and `BootCloses` do the same for the two spacings.
* **UplinkProofs**: all properties of `uplink`. `PutFills` says what one more field
  does to a payload of which the first `k` have had their turn (`Filled`), `BuildFills`
  applies it nine times; `HeartbeatAhead` shows that a heartbeat is among the next
  eight cycles and that the announced one is it. `IInv` adds who is in the critical section when
  (`SectionsExclude`), that what a cycle may find in the buffer is nothing or its own
  frame as far as it has been stored (`NothingYet`, `FrameOfThisCycle`), that the copy agrees
  with it field by field (`TakenSoFar`), and that an announced wait ends in a heartbeat
  or in the cycle after a keepalive (`WaitIsSound`). There the hold either goes on,
  which excuses the wait, or ends with a valid voltage, which is a payload (`HoldEndsWithAPayload`).

* **ModbusProofs**: all properties of `modbus` but `ReadEnds`. `IInv` adds that every byte in the
  buffers is the checksum of nothing or of a reply sent during this very read (`Traced`),
  that nothing outlives its read or its attempt (`Quiet`), that what an attempt waits for
  follows from its second byte (`Waits`), and that the registers of an accepted reply were
  sent (`Accepted`). `MatchIsSent` is the step from a matching checksum to a sent reply,
  `SpanBelieved` and `RefusalBelieved` the two final verdicts. `HeardInv` adds that what an
  attempt that began in silence has heard is what it has read followed by what it has
  still to read, unless it is no reply any more (`Followed`); `FramedIsBelieved` is the
  verdict on one whole reply.

  `ReadsAreBounded` is the safety part of `ReadEnds`. `LeftInRead` counts the steps the
  master has left: those of this attempt (what the drain may still discard, the settling, the bytes
  a span may still have) and `PerAttempt` for each one after it. It is never more
  than `1 + (Retries + 1) * PerAttempt`, each step of the master lowers it, and no step of the station or
  the bus raises it; that some step of the master is taken is what fairness adds. The
  invariant is that a drain under way is below its bound and that an attempt never holds more
  than a span (`Bounded`).
* **OnewireProofs**: `TypeOK`, that the record walk stays inside a verified frame and decodes
  values of 16 bits, and `SentFramesVerify`: whatever the master puts on the wire is one whole
  frame that passes the checks of its own receiver. The lemmas behind it are that the
  checksum does not depend on its own place (`ChecksumIgnoresItself`), that a frame
  cut out of a buffer has the checksum it had there (`ChecksumMoves`), and that an answer
  keeps the length of the announcement it is written over (`ReplyIsWhole`).

  `ReadingWasSaid`, `LatchIsAnnounced` and `ReplyAssigns` are proved of every behaviour
  in which `NoForgery` holds: each piece of the line that passes the checks is a frame the
  pack sent in this read. That is a fact about the wire and not about the driver: the
  checksum counts set bits modulo 256, and of some reports and cuts it is false
  (`MCOnewire!TailIsBorrowed`, `PayloadHoldsAFrame`). Given `NoForgery`, the
  theorems hold for every set of reports, however long, every cut, and every point at which
  a receive may end. The invariant (`Told`) adds what a query, an announcement and a verdict
  not yet reached are (`Asked`) and where the walk stands (`Walking`): in the frame
  of a report made in answer to this query, at the start of its `k`-th record, with
  exactly the first `k` records decoded. Below it are `PrefixVerifies` (a frame verified in what has
  been received is verified on the line), `ReportIsSpread` (where the records of a
  report lie in its bytes, from the library's `FlattenSeq`; the induction over their number
  is a least counterexample, `UpTo`), `RecordReads` (its bytes give back a value in
  either byte order), `NextRecord` (what is left in the frame decides whether
  the next record is all there) and `AllDecoded` (when nothing more is known, what was
  decoded is the report's meaning).

  `QueriesAreFresh` needs no hypothesis: a query goes out with a sequence number that no
  query of this read has which is unanswered or whose answer may still be on the line,
  across the wrap of `m_seq`. `ReadingWasSaid` names a query by its bytes, and this is why two
  queries of one read are never the same. The invariant (`Numbered`) is that these
  numbers are among the last `sends` ones, of which there are fewer than `SeqRange`.
* **SleepProofs**: all properties of `sleep`, and `NodeIsReachable`. The arithmetic is that
  a slice's milliseconds times the tick rate stay below the word, so that its conversion to
  ticks and back loses nothing (`Waited(n) = n`).

Only model-checked: the liveness properties (`HeldNodeReachable`,
`RepairedNodeReachable`, `NeverMuted`, `ReadEnds`), which need fairness and are out of the
prover's reach; and the violated properties, for which a counterexample
is the result. `MaxCycles` appears in `BatteryProofs` only as the type of `cycles`: it may
be any number. `CountMax` likewise, so saturation is covered.

## What was found

Three statements of the repository's comments and documents do not hold of the code.
Each has a run in which TLC exhibits the behaviour, and an entry under `findings`.

* **The stored boot count does not climb.** `begin()` adds one to the stored count in
  RAM and marks a write only when the sum is a multiple of `BootPersistEvery`. What
  is not written is not there at the next boot, so a count of 0 is read for ever,
  unless some other save happens to store a later one (`boot_count`).
* **An invalid command cancels a valid one** that still waits for its write
  (`interval_invalid`).
* **The fresh-join deferral is not bounded by the keepalive cadence** when the gate is
  open and flash stays dead: the escape exists under a hold only
  (`session_dead_flash`).

Met while reading, and not given a run because they are local, follow from the actions as
they stand, or are only wording:

* `set_interval_seconds()` returns true when the requested interval equals the one in RAM,
  which flash may not hold after a failed load or rewrite; config.h says "True therefore
  means one thing only — the value is stored".
* A hold taken blind and later confirmed by a low reading is never stored: only the
  transition into a hold writes the bit, although power.cpp calls that write the one "the
  whole scheme is built around". A reset then opens the gate until the next reading.
  `RollbackIsHonest` is about a write that was tried and does not object; no property asks
  that such a hold survive a reset, because the code does not store it.
* A session dropped after failed sends may be resumed by the retry inside
  `prepare_fresh_join()` when its removal failed; the comment in radio.cpp says that the
  repair comes next. `NoStaleSession` and `RepairedNodeReachable` show it harmless.
* battery_frame.h:136-138 says that a delimiter inside a payload cannot be mistaken for a frame
  start, because "a false start produces a false length and therefore a failed checksum". The
  checksum counts bits, and a payload can hold a false start with lengths and a count that agree:
  `MCOnewire!PayloadHoldsAFrame` is such a frame. It takes eight records and one type that is
  not the pack's, so it is a limit of the check and not something the pack is known to send.
* A reply to an earlier attempt of the same read that comes after the drain is taken as the
  answer to the retry (modbus.cpp). It answers the same question and was said during this read,
  which is all `VerdictWasSent` promises; what it excludes is an answer from before the read
  and a mixture of two.
* modbus.h says "Retries on timeout and CRC failure only"; a bad frame is retried too.
* battery_frame.cpp says that a frame ending inside a record is refused whole; with one or
  two bytes left (`i + 2 < records_end`) the walk ends and what was decoded is returned.
* A join permit that its cycle does not use stays granted (main.cpp, at the
  grant; consumed in `ensure_joined()` only). `EscapeOnlyOnKeepalive` shows it harmless.
* A failed clear of the brownout bit is retried on the next transition only, not by
  itself (FIRMWARE_SPEC, the persistence of the hold, against power.cpp).
* radio.h says the backoff "Never returns zero"; with no failures it is 0.
* FIRMWARE_SPEC says that `read()` asks the pack before it consults the gate;
  `ladder_allowed()` is called first. The direct query is still unconditional.
* `restore()` of an absent file under "blocked" leaves the flag set until the next
  removal or format.
* The comment at `kSilentCyclesBeforeBoot` speaks of three whole cycles with no number;
  the BOOT goes out within the third, before its follow-up queries.
* main.cpp says of a heartbeat that neither sensor produced a single field, and its
  comment on the silence policy speaks of both sensors; a cycle also counts as
  quiet when there are readings and the MAC allows fewer bytes than the first of them takes.
* config.cpp logs "writing defaults" on a path that writes nothing; a read that fails once
  and any save after it replace the stored interval by the default.

## What is not modelled

* What littlefs does inside an atomic rename, and its behaviour across a power cut: a
  write, a removal or a rename either happened or did not.
* The record's checksum and identity fields: one bit, readable and ours, or not.
* The bits of the CRC-16, and of a byte on either bus; the wake bytes ahead of a one-wire
  frame; bench diagnostics and the switched rail under the battery's data line.
* The LoRa library: the MAC answers, refuses or stays silent, as `src/` handles it.
* Registers, the watchdog and the reset reason; the CRC table; build variants
  without radio or battery; scripts and decoders on the host. None of them decides
  anything the node does.
* The whole loop in one module. Its parts are seen from each component with the others'
  answers chosen freely, which allows more than the composition does; what the composition
  would add is liveness across components, and that run is the product of all of
  them.

## The plan

The order is by what a mistake would cost a deployed node.

1. *Done.* `Session`: counters, sessions, permits, resets; its liveness; proofs.
2. *Done.* `Brownout` and the abstract `Hold` it implements; proofs.
3. *Done.* `Interval`: the configuration record and the sleep; proofs.
4. *Done.* `Battery`: the read ladder and its loop with the gate; proofs.
5. *Done.* `Uplink`: fields within a budget, the heartbeat and the announced join
   attempt, the callback's task against `send()` and `take_downlink()`; proofs.
6. *Done.* `Modbus`: the weather read against a free station and bus; proofs.
7. *Done.* `Frame`, `Onewire`: the pack's link byte by byte; proofs of what is sent and of what is heard.
8. *Done.* `Sleep`: slices, ticks and the boot window; proofs.
9. *Done.* `Reserve`: the abstract session store, implemented by `Session`; proofs of
   both.
10. Left out: `Node`, one loop that composes the gate, the session, the configuration and
   the uplink. Each module already lets the others answer freely, so the safety properties
   shown here hold in the composition; it would add only liveness across
   components, such as "a held node's keepalive reaches the air", of which
   `KeepaliveFallsDue`, `KeepaliveIsNotDeferred` and `StrikesLastUntilTheAir` are the safety parts,
   each proved on its side of the interface.
