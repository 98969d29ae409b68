------------------------------ MODULE Brownout ------------------------------
(***************************************************************************)
(* The brownout gate (power.h, power.cpp): hysteresis on the pack voltage, *)
(* a hold that survives a reset through one bit in Config's record, a hold *)
(* taken when the pack stops answering, and the keepalive clock that keeps *)
(* either hold from muting the node for ever.                              *)
(*                                                                         *)
(* One cycle of loop() is two steps: Update, the reading and what the gate *)
(* makes of it, and then what main.cpp does with the answer.               *)
(***************************************************************************)
EXTENDS Naturals

CONSTANTS
  TxInhibit,        \* kTxInhibitCentivolts (960)
  TxResume,         \* kTxResumeCentivolts (1020)
  InvalidLimit,     \* kInvalidReadsBeforeInhibit (4)
  KeepaliveCycles,  \* kNoEvidenceKeepaliveCycles (24)
  Voltages,         \* bound: the centivolts a valid reading may report
  FlashFails        \* whether mounts, reads and writes of Config may fail

ASSUME BrownoutAssumption ==
  /\ TxInhibit \in Nat
  /\ TxResume \in Nat
  /\ TxInhibit < TxResume
  /\ InvalidLimit \in Nat \ {0}
  /\ KeepaliveCycles \in Nat \ {0}
  /\ Voltages \subseteq Nat
  /\ FlashFails \in BOOLEAN

VARIABLES
  phase,    \* "reset", "asleep" between cycles, "decided" after update()
  reading,  \* what this cycle's battery read returned: [valid, cv]
  gate,     \* Brownout: [engaged, invalid, blind]; blind is m_without_evidence
  clock,    \* KeepaliveClock: [armed, held]
  config,   \* Config: [mounted, bit]; bit is m_brownout_engaged
  flash,    \* the bit of the stored record
  silent    \* history: unreadable cycles in a row, up to InvalidLimit

vars == <<phase, reading, gate, clock, config, flash, silent>>

NoReading == [valid |-> FALSE, cv |-> 0]
Readings == {NoReading} \cup [valid : {TRUE}, cv : Voltages]

\* A definition named Mutant... is a bug this code could have had: it is used
\* nowhere, and the runs must find what it breaks in place of the one after it.
MutantIsLow(r) == r.valid /\ r.cv < TxInhibit

IsLow(r) == r.valid /\ r.cv <= TxInhibit

IsRecovered(r) == r.valid /\ r.cv >= TxResume

UpTo(limit, n) == IF n < limit THEN n + 1 ELSE n

MutantTooSilent(invalid) == invalid > InvalidLimit

TooSilent(invalid) == invalid >= InvalidLimit

-----------------------------------------------------------------------------
(* Config, as the gate sees it *)

\* Config::save() through set_brownout_engaged(): nothing to do, the write lands,
\* or it fails and the RAM bit is rolled back.
MutantPersist(bit) ==
  \/ bit = config.bit /\ UNCHANGED <<config, flash>>
  \/ bit # config.bit /\ config' = [config EXCEPT !.bit = bit] /\ flash' \in {bit, flash}

Persist(bit) ==
  \/ bit = config.bit /\ UNCHANGED <<config, flash>>
  \/ bit # config.bit /\ config.mounted
       /\ config' = [config EXCEPT !.bit = bit] /\ flash' = bit
  \/ bit # config.bit /\ (FlashFails \/ ~config.mounted) /\ UNCHANGED <<config, flash>>

-----------------------------------------------------------------------------
(* Brownout::update(), one action per way through it *)

Read(r) ==
  /\ phase = "asleep"
  /\ reading' = r
  /\ phase' = "decided"
  /\ silent' = IF r.valid THEN 0 ELSE UpTo(InvalidLimit, silent)

\* KeepaliveClock::advance(): time held is counted whatever the reading says.
MutantAdvance(permitted) ==
  clock' = [armed |-> permitted, held |-> IF permitted THEN UpTo(KeepaliveCycles, clock.held) ELSE 0]

Advance(permitted) ==
  clock' = [armed |-> permitted, held |-> UpTo(KeepaliveCycles, clock.held)]

StartClock(permitted) == clock' = [armed |-> permitted, held |-> 0]

\* No reading while no hold is active.
UnreadableOpen ==
  /\ Read(NoReading)
  /\ ~gate.engaged
  /\ LET invalid == UpTo(InvalidLimit, gate.invalid)
     IN IF TooSilent(invalid)
        THEN /\ gate' = [engaged |-> TRUE, invalid |-> invalid, blind |-> TRUE]
             /\ StartClock(TRUE)
        ELSE /\ gate' = [gate EXCEPT !.invalid = invalid]
             /\ UNCHANGED clock
  /\ UNCHANGED <<config, flash>>

\* The fourth miss restarted the clock when it turned the hold blind.
MutantAdvanceBlind(blind) ==
  clock' = [armed |-> blind, held |-> IF blind THEN 0 ELSE UpTo(KeepaliveCycles, clock.held)]

\* advance(false), and set_permitted(true) on the miss that makes the hold blind.
AdvanceBlind(blind) == Advance(blind)

\* No reading while a hold that rests on a reading is active.
UnreadableHeld ==
  /\ Read(NoReading)
  /\ gate.engaged
  /\ ~gate.blind
  /\ LET invalid == UpTo(InvalidLimit, gate.invalid)
     IN /\ gate' = [gate EXCEPT !.invalid = invalid, !.blind = TooSilent(invalid)]
        /\ AdvanceBlind(TooSilent(invalid))
  /\ UNCHANGED <<config, flash>>

UnreadableBlind ==
  /\ Read(NoReading)
  /\ gate.engaged
  /\ gate.blind
  /\ Advance(TRUE)
  /\ UNCHANGED <<gate, config, flash>>

\* A reading at or below the floor takes the hold and asks for it to be stored.
Engage(r) ==
  /\ Read(r)
  /\ IsLow(r)
  /\ ~gate.engaged
  /\ gate' = [engaged |-> TRUE, invalid |-> 0, blind |-> FALSE]
  /\ StartClock(FALSE)
  /\ Persist(TRUE)

Healthy(r) ==
  /\ Read(r)
  /\ r.valid
  /\ ~IsLow(r)
  /\ ~gate.engaged
  /\ gate' = [engaged |-> FALSE, invalid |-> 0, blind |-> FALSE]
  /\ StartClock(FALSE)
  /\ UNCHANGED <<config, flash>>

Recover(r) ==
  /\ Read(r)
  /\ IsRecovered(r)
  /\ gate.engaged
  /\ gate' = [engaged |-> FALSE, invalid |-> 0, blind |-> FALSE]
  /\ StartClock(FALSE)
  /\ Persist(FALSE)

\* A reading that neither lifts the hold nor is below the floor arms the keepalive.
StillHeld(r) ==
  /\ Read(r)
  /\ r.valid
  /\ ~IsRecovered(r)
  /\ gate.engaged
  /\ gate' = [gate EXCEPT !.invalid = 0, !.blind = FALSE]
  /\ Advance(~IsLow(r))
  /\ UNCHANGED <<config, flash>>

Update ==
  \/ UnreadableOpen \/ UnreadableHeld \/ UnreadableBlind
  \/ \E r \in Readings : Engage(r) \/ Healthy(r) \/ Recover(r) \/ StillHeld(r)

-----------------------------------------------------------------------------
(* main.cpp *)

MutantKeepaliveDue == gate.engaged /\ clock.armed /\ clock.held > KeepaliveCycles

KeepaliveDue == gate.engaged /\ clock.armed /\ clock.held >= KeepaliveCycles

\* The keepalive reached the air; only then is the clock cleared.
KeepaliveSent ==
  /\ phase = "decided"
  /\ KeepaliveDue
  /\ clock' = [clock EXCEPT !.held = 0]
  /\ phase' = "asleep"
  /\ UNCHANGED <<reading, gate, config, flash, silent>>

\* A cycle that sends nothing, sends an ordinary uplink, or fails to send.
CycleEnds ==
  /\ phase = "decided"
  /\ phase' = "asleep"
  /\ UNCHANGED <<reading, gate, clock, config, flash, silent>>

\* Any other save of Config (an interval, the boot count) writes the RAM bit too;
\* all of them ask the gate first.
OtherSave ==
  /\ phase # "reset"
  /\ ~gate.engaged
  /\ config.mounted
  /\ flash' = config.bit
  /\ UNCHANGED <<phase, reading, gate, clock, config, silent>>

\* session.cpp's emergency format, taken only with the gate open: the record is
\* erased, Config is mounted again, and its rewrite may fail.
Rebuild ==
  /\ phase = "decided"
  /\ ~gate.engaged
  /\ FlashFails
  /\ config' = [config EXCEPT !.mounted = TRUE]
  /\ flash' \in {config.bit, FALSE}
  /\ UNCHANGED <<phase, reading, gate, clock, silent>>

Reset ==
  /\ phase # "reset"
  /\ phase' = "reset"
  /\ reading' = NoReading
  /\ gate' = [engaged |-> FALSE, invalid |-> 0, blind |-> FALSE]
  /\ clock' = [armed |-> FALSE, held |-> 0]
  /\ config' = [mounted |-> FALSE, bit |-> FALSE]
  /\ silent' = 0
  /\ UNCHANGED flash

\* Config::begin() and Brownout::begin(): a record that cannot be read is a gate
\* that starts open.
Boot ==
  /\ phase = "reset"
  /\ phase' = "asleep"
  /\ \/ config' = [mounted |-> TRUE, bit |-> flash]
     \/ FlashFails /\ config' \in [mounted : BOOLEAN, bit : {FALSE}]
  /\ gate' = [gate EXCEPT !.engaged = config'.bit]
  /\ UNCHANGED <<reading, clock, flash, silent>>

Init ==
  /\ phase = "reset"
  /\ reading = NoReading
  /\ gate = [engaged |-> FALSE, invalid |-> 0, blind |-> FALSE]
  /\ clock = [armed |-> FALSE, held |-> 0]
  /\ config = [mounted |-> FALSE, bit |-> FALSE]
  /\ flash = FALSE
  /\ silent = 0

Next == Update \/ KeepaliveSent \/ CycleEnds \/ OtherSave \/ Rebuild \/ Reset \/ Boot

Spec == Init /\ [][Next]_vars

\* Resets end, loop() runs, and a keepalive that stays due gets through once: the
\* radio is retried on every later cycle until it does.
FairSpec ==
  /\ Spec
  /\ <>[][~Reset]_vars
  /\ WF_vars(Boot)
  /\ WF_vars(Update)
  /\ WF_vars(KeepaliveSent \/ CycleEnds)
  /\ SF_vars(KeepaliveSent)

-----------------------------------------------------------------------------
(* Properties *)

TypeOK ==
  /\ phase \in {"reset", "asleep", "decided"}
  /\ reading \in Readings
  /\ gate \in [engaged : BOOLEAN, invalid : 0..InvalidLimit, blind : BOOLEAN]
  /\ clock \in [armed : BOOLEAN, held : 0..KeepaliveCycles]
  /\ config \in [mounted : BOOLEAN, bit : BOOLEAN]
  /\ flash \in BOOLEAN
  /\ silent \in 0..InvalidLimit

\* A pack measured at or below the floor in this cycle is never charged a
\* keepalive, however long the hold has lasted.
NoKeepaliveWhenLow ==
  phase = "decided" /\ reading.valid /\ reading.cv <= TxInhibit => ~KeepaliveDue

\* A pack that has not answered for InvalidLimit cycles is never assumed healthy:
\* the gate is shut, and its hold admits that it rests on no reading.
SilenceHolds == silent >= InvalidLimit => gate.engaged /\ gate.blind

\* Once the hold has lasted KeepaliveCycles, the only things left between the node
\* and a keepalive are a low reading and the few misses that make a hold blind.
HoldIsReachable ==
  (phase = "decided" /\ gate.engaged /\ clock.held >= KeepaliveCycles /\ ~KeepaliveDue)
    => IsLow(reading) \/ (silent > 0 /\ silent < InvalidLimit)

\* Between resets a hold is left only through a reading at or above TxResume, and until
\* then no sequence of readings takes held time back: only a keepalive that was sent does.
HoldRunsItsCourse ==
  [][gate.engaged =>
       IF gate'.engaged
       THEN (phase = "decided" /\ KeepaliveDue) \/ clock'.held >= clock.held
       ELSE phase' = "reset" \/ (reading'.valid /\ reading'.cv >= TxResume)]_vars

\* A set_brownout_engaged() whose write fails leaves Config saying what is stored,
\* so the next attempt is not skipped as already done.
RollbackIsHonest ==
  [][phase = "asleep" /\ (config.bit => flash) => (config'.bit => flash')]_vars

\* A pack that from some time on is not measured low does not mute the node: it
\* recovers, or a keepalive gets out again and again.
NeverMuted ==
  <>[]~IsLow(reading) => []<>~gate.engaged \/ []<><<KeepaliveSent>>_vars

\* What the rest of the node sees of the gate.
GateHold == IF ~gate.engaged THEN "open" ELSE IF gate.blind THEN "blind" ELSE "low"

H == INSTANCE Hold WITH hold <- GateHold, missed <- gate.invalid, voltage <- reading.valid

\* The gate with its clock, its stored bit and its voltages does what module Hold
\* says: any reading ends a blind hold, and InvalidLimit misses in a row make one
\* of whatever was there.
ImplementsHold == H!HoldSpec
=============================================================================
