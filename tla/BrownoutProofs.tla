--------------------------- MODULE BrownoutProofs ---------------------------
(***************************************************************************)
(* What TLC checks of the brownout gate for one set of thresholds, proved  *)
(* for all of them.                                                        *)
(***************************************************************************)
EXTENDS Brownout, TLAPS

-----------------------------------------------------------------------------
(* The inductive invariant *)

\* The gate counts misses exactly; a hold is blind from the InvalidLimit-th on.
Evidence ==
  /\ gate.invalid = silent
  /\ gate.blind <=> silent >= InvalidLimit
  /\ gate.blind => gate.engaged

\* A low reading disarms the keepalive within the cycle that took it.
LowDisarms == phase = "decided" /\ IsLow(reading) => ~clock.armed

\* Nothing else disarms it, except the misses before a hold turns blind.
OnlyLowDisarms ==
  (phase = "decided" /\ gate.engaged /\ ~clock.armed)
    => IsLow(reading) \/ (silent > 0 /\ silent < InvalidLimit)

\* A node that is down remembers neither a hold nor a miss in RAM.
ResetCleared == phase = "reset" => ~gate.engaged /\ silent = 0

IInv == TypeOK /\ Evidence /\ LowDisarms /\ OnlyLowDisarms /\ ResetCleared

-----------------------------------------------------------------------------
(* Counting up to a limit stays within it and never goes back. *)
LEMMA UpToBounds ==
  ASSUME NEW limit \in Nat, NEW n \in 0..limit
  PROVE  /\ UpTo(limit, n) \in 0..limit
         /\ UpTo(limit, n) >= n
         /\ limit > 0 => UpTo(limit, n) > 0
  BY SMT DEF UpTo

(* Handing the bit to Config keeps its types, whatever the flash does. *)
LEMMA PersistTypes ==
  ASSUME NEW bit \in BOOLEAN, Persist(bit), TypeOK
  PROVE  /\ config' \in [mounted : BOOLEAN, bit : BOOLEAN]
         /\ flash' \in BOOLEAN
         /\ (config.bit => flash) => (config'.bit => flash')
  <1>1. CASE bit = config.bit /\ UNCHANGED <<config, flash>>
    BY <1>1 DEF TypeOK
  <1>2. CASE /\ bit # config.bit /\ config.mounted
             /\ config' = [config EXCEPT !.bit = bit] /\ flash' = bit
    BY <1>2 DEF TypeOK
  <1>3. CASE bit # config.bit /\ (FlashFails \/ ~config.mounted) /\ UNCHANGED <<config, flash>>
    BY <1>3 DEF TypeOK
  <1> QED BY <1>1, <1>2, <1>3 DEF Persist

(* Every reading is a record, and a miss is not low. *)
LEMMA ReadingTypes ==
  /\ NoReading \in Readings
  /\ ~NoReading.valid
  /\ \A r \in Readings : r.valid \in BOOLEAN /\ (r.valid => r.cv \in Nat)
  <1>1. NoReading \in Readings /\ ~NoReading.valid
    BY DEF Readings, NoReading
  <1>2. ASSUME NEW r \in Readings
        PROVE  r.valid \in BOOLEAN /\ (r.valid => r.cv \in Nat)
    <2>1. CASE r = NoReading
      BY <2>1 DEF NoReading
    <2>2. CASE r \in [valid : {TRUE}, cv : Voltages]
      BY <2>2, BrownoutAssumption DEF BrownoutAssumption
    <2> QED BY <2>1, <2>2 DEF Readings
  <1> QED BY <1>1, <1>2

(* The two records update() assigns, built from their fields. *)
LEMMA GateRecord ==
  ASSUME NEW e \in BOOLEAN, NEW i \in 0..InvalidLimit, NEW b \in BOOLEAN,
         NEW g, g = [engaged |-> e, invalid |-> i, blind |-> b]
  PROVE  /\ g \in [engaged : BOOLEAN, invalid : 0..InvalidLimit, blind : BOOLEAN]
         /\ g.engaged = e /\ g.invalid = i /\ g.blind = b
  OBVIOUS

(* The clock is the record of its two fields. *)
LEMMA ClockRecord ==
  ASSUME NEW a \in BOOLEAN, NEW h \in 0..KeepaliveCycles, NEW c, c = [armed |-> a, held |-> h]
  PROVE  c \in [armed : BOOLEAN, held : 0..KeepaliveCycles] /\ c.armed = a /\ c.held = h
  OBVIOUS

-----------------------------------------------------------------------------
(* The invariant is inductive *)

(* A node that powers up satisfies the invariant: no hold, nothing spent. *)
LEMMA InitIInv == Init => IInv
  <1> SUFFICES ASSUME Init PROVE IInv
    OBVIOUS
  <1> USE BrownoutAssumption DEF BrownoutAssumption, Init
  <1>1. phase \in {"reset", "asleep", "decided"} /\ reading \in Readings
    BY ReadingTypes
  <1>2. gate \in [engaged : BOOLEAN, invalid : 0..InvalidLimit, blind : BOOLEAN]
    BY GateRecord
  <1>3. clock \in [armed : BOOLEAN, held : 0..KeepaliveCycles]
    OBVIOUS
  <1>4. config \in [mounted : BOOLEAN, bit : BOOLEAN]
    OBVIOUS
  <1>5. flash \in BOOLEAN
    BY Zenon
  <1>6. silent \in 0..InvalidLimit
    OBVIOUS
  <1>7. TypeOK
    BY <1>1, <1>2, <1>3, <1>4, <1>5, <1>6 DEF TypeOK
  <1>8. Evidence
    BY DEF Evidence
  <1>9. LowDisarms /\ OnlyLowDisarms /\ ResetCleared
    BY DEF LowDisarms, OnlyLowDisarms, ResetCleared
  <1> QED BY <1>7, <1>8, <1>9 DEF IInv

(* How the counts move, and what they say of the gate. *)
LEMMA Counting ==
  ASSUME IInv
  PROVE  /\ UpTo(InvalidLimit, silent) \in 1..InvalidLimit
         /\ silent >= InvalidLimit => UpTo(InvalidLimit, silent) = silent
         /\ UpTo(KeepaliveCycles, clock.held) \in 0..KeepaliveCycles
         /\ gate.invalid = silent
         /\ gate.blind <=> silent >= InvalidLimit
         /\ InvalidLimit \in Nat \ {0}
  BY BrownoutAssumption, SMT DEF BrownoutAssumption, IInv, TypeOK, Evidence, UpTo

(* A cycle without a reading preserves the invariant. *)
LEMMA UnreadableIInv ==
  ASSUME IInv, UnreadableOpen \/ UnreadableHeld \/ UnreadableBlind
  PROVE  IInv'
  <1> DEFINE n == UpTo(InvalidLimit, silent)
  <1>1. /\ phase' = "decided"
        /\ reading' \in Readings
        /\ ~reading'.valid
        /\ silent' = n
        /\ UNCHANGED <<config, flash>>
    BY ReadingTypes DEF UnreadableOpen, UnreadableHeld, UnreadableBlind, Read
  <1>2. /\ gate' \in [engaged : BOOLEAN, invalid : 0..InvalidLimit, blind : BOOLEAN]
        /\ gate'.invalid = n
        /\ gate'.blind <=> n >= InvalidLimit
        /\ gate'.blind => gate'.engaged
    <2>1. CASE UnreadableOpen /\ n >= InvalidLimit
      <3>1. gate' = [engaged |-> TRUE, invalid |-> n, blind |-> TRUE]
        BY <2>1, Counting DEF UnreadableOpen, TooSilent
      <3> QED BY <2>1, <3>1, Counting
    <2>2. CASE UnreadableOpen /\ ~(n >= InvalidLimit)
      <3>1. gate' = [gate EXCEPT !.invalid = n] /\ ~gate.engaged
        BY <2>2, Counting DEF UnreadableOpen, TooSilent
      <3>2. ~gate.blind
        BY <3>1 DEF IInv, Evidence
      <3> QED BY <2>2, <3>1, <3>2, Counting DEF IInv, TypeOK
    <2>3. CASE UnreadableHeld
      <3>1. gate' = [gate EXCEPT !.invalid = n, !.blind = n >= InvalidLimit] /\ gate.engaged
        BY <2>3, Counting DEF UnreadableHeld, TooSilent
      <3>2. gate' = [engaged |-> TRUE, invalid |-> n, blind |-> n >= InvalidLimit]
        BY <3>1 DEF IInv, TypeOK
      <3>3. (n >= InvalidLimit) \in BOOLEAN
        OBVIOUS
      <3>4. gate'.engaged /\ gate'.invalid = n /\ (gate'.blind <=> n >= InvalidLimit)
        BY <3>2
      <3> QED BY <3>2, <3>3, <3>4, GateRecord, Counting
    <2>4. CASE UnreadableBlind
      BY <2>4, Counting DEF UnreadableBlind, IInv, TypeOK, Evidence
    <2> QED BY <2>1, <2>2, <2>3, <2>4
  <1>3. /\ clock' \in [armed : BOOLEAN, held : 0..KeepaliveCycles]
        /\ gate'.engaged => (clock'.armed <=> n >= InvalidLimit)
    <2>1. CASE UnreadableOpen /\ n >= InvalidLimit
      <3>1. clock' = [armed |-> TRUE, held |-> 0]
        BY <2>1, Counting DEF UnreadableOpen, TooSilent, StartClock
      <3> QED BY <2>1, <3>1, BrownoutAssumption DEF BrownoutAssumption
    <2>2. CASE UnreadableOpen /\ ~(n >= InvalidLimit)
      <3>1. gate' = [gate EXCEPT !.invalid = n] /\ ~gate.engaged /\ clock' = clock
        BY <2>2, Counting DEF UnreadableOpen, TooSilent
      <3> QED BY <3>1 DEF IInv, TypeOK
    <2>3. CASE UnreadableHeld
      <3>1. clock' = [armed |-> n >= InvalidLimit, held |-> UpTo(KeepaliveCycles, clock.held)]
        BY <2>3, Counting DEF UnreadableHeld, TooSilent, AdvanceBlind, Advance
      <3>2. (n >= InvalidLimit) \in BOOLEAN
        OBVIOUS
      <3> QED BY <3>1, <3>2, ClockRecord, Counting
    <2>4. CASE UnreadableBlind
      <3>1. clock' = [armed |-> TRUE, held |-> UpTo(KeepaliveCycles, clock.held)] /\ gate.blind
        BY <2>4 DEF UnreadableBlind, Advance
      <3> QED BY <3>1, Counting
    <2> QED BY <2>1, <2>2, <2>3, <2>4
  <1>4. TypeOK'
    BY <1>1, <1>2, <1>3, Counting DEF IInv, TypeOK
  <1>5. Evidence'
    BY <1>1, <1>2 DEF Evidence
  <1>6. LowDisarms' /\ OnlyLowDisarms' /\ ResetCleared'
    BY <1>1, <1>3, Counting DEF LowDisarms, OnlyLowDisarms, ResetCleared, IsLow
  <1> QED BY <1>4, <1>5, <1>6 DEF IInv

(* So does a cycle with one. *)
LEMMA ReadableIInv ==
  ASSUME IInv, NEW r \in Readings, Engage(r) \/ Healthy(r) \/ Recover(r) \/ StillHeld(r)
  PROVE  IInv'
  <1>1. r.valid /\ r.cv \in Nat
    BY ReadingTypes DEF Engage, Healthy, Recover, StillHeld, IsLow, IsRecovered
  <1>2. phase' = "decided" /\ reading' = r /\ silent' = 0
    BY <1>1 DEF Engage, Healthy, Recover, StillHeld, Read
  <1>3. config' \in [mounted : BOOLEAN, bit : BOOLEAN] /\ flash' \in BOOLEAN
    <2>1. CASE Engage(r)
      BY <2>1, PersistTypes DEF Engage, IInv
    <2>2. CASE Recover(r)
      BY <2>2, PersistTypes DEF Recover, IInv
    <2>3. CASE Healthy(r) \/ StillHeld(r)
      BY <2>3 DEF Healthy, StillHeld, IInv, TypeOK
    <2> QED BY <2>1, <2>2, <2>3
  <1>4. /\ gate' \in [engaged : BOOLEAN, invalid : 0..InvalidLimit, blind : BOOLEAN]
        /\ gate'.invalid = 0
        /\ ~gate'.blind
    <2>1. CASE Engage(r)
      <3>1. gate' = [engaged |-> TRUE, invalid |-> 0, blind |-> FALSE]
        BY <2>1 DEF Engage
      <3> QED BY <3>1, Counting
    <2>2. CASE Healthy(r) \/ Recover(r)
      <3>1. gate' = [engaged |-> FALSE, invalid |-> 0, blind |-> FALSE]
        BY <2>2 DEF Healthy, Recover
      <3> QED BY <3>1, Counting
    <2>3. CASE StillHeld(r)
      <3>1. gate' = [engaged |-> gate.engaged, invalid |-> 0, blind |-> FALSE]
        BY <2>3 DEF StillHeld, IInv, TypeOK
      <3>2. gate.engaged \in BOOLEAN /\ 0 \in 0..InvalidLimit
        BY Counting DEF IInv, TypeOK
      <3> QED BY <3>1, <3>2, GateRecord
    <2> QED BY <2>1, <2>2, <2>3
  <1>5. /\ clock' \in [armed : BOOLEAN, held : 0..KeepaliveCycles]
        /\ gate'.engaged => (clock'.armed <=> ~IsLow(r))
        /\ IsLow(r) => ~clock'.armed
    <2>1. CASE Engage(r)
      <3>1. clock' = [armed |-> FALSE, held |-> 0] /\ IsLow(r)
        BY <2>1 DEF Engage, StartClock
      <3> QED BY <3>1, BrownoutAssumption DEF BrownoutAssumption
    <2>2. CASE Healthy(r) \/ Recover(r)
      <3>1. clock' = [armed |-> FALSE, held |-> 0]
        BY <2>2 DEF Healthy, Recover, StartClock
      <3>2. gate' = [engaged |-> FALSE, invalid |-> 0, blind |-> FALSE]
        BY <2>2 DEF Healthy, Recover
      <3> QED BY <3>1, <3>2, BrownoutAssumption DEF BrownoutAssumption
    <2>3. CASE StillHeld(r)
      <3>1. clock' = [armed |-> ~IsLow(r), held |-> UpTo(KeepaliveCycles, clock.held)]
        BY <2>3 DEF StillHeld, Advance
      <3>2. IsLow(r) \in BOOLEAN
        BY DEF IsLow
      <3> QED BY <3>1, <3>2, Counting
    <2> QED BY <2>1, <2>2, <2>3
  <1>6. TypeOK'
    BY <1>2, <1>3, <1>4, <1>5, Counting DEF TypeOK
  <1>7. Evidence'
    BY <1>2, <1>4, Counting DEF Evidence
  <1>8. LowDisarms' /\ OnlyLowDisarms' /\ ResetCleared'
    BY <1>2, <1>5 DEF LowDisarms, OnlyLowDisarms, ResetCleared, IsLow
  <1> QED BY <1>6, <1>7, <1>8 DEF IInv

(* And everything main.cpp, Config and a reset do around it. *)
LEMMA NextIInv == IInv /\ [Next]_vars => IInv'
  <1> SUFFICES ASSUME IInv, [Next]_vars PROVE IInv'
    OBVIOUS
  <1>1. CASE Update
    BY <1>1, UnreadableIInv, ReadableIInv DEF Update
  <1>2. CASE KeepaliveSent
    BY <1>2, BrownoutAssumption
    DEF BrownoutAssumption, KeepaliveSent, IInv, TypeOK, Evidence, LowDisarms, OnlyLowDisarms, ResetCleared
  <1>3. CASE CycleEnds
    BY <1>3 DEF CycleEnds, IInv, TypeOK, Evidence, LowDisarms, OnlyLowDisarms, ResetCleared
  <1>4. CASE OtherSave
    BY <1>4 DEF OtherSave, IInv, TypeOK, Evidence, LowDisarms, OnlyLowDisarms, ResetCleared
  <1>5. CASE Rebuild
    BY <1>5 DEF Rebuild, IInv, TypeOK, Evidence, LowDisarms, OnlyLowDisarms, ResetCleared
  <1>6. CASE Reset
    <2>1. /\ gate' = [engaged |-> FALSE, invalid |-> 0, blind |-> FALSE]
          /\ clock' = [armed |-> FALSE, held |-> 0]
          /\ config' = [mounted |-> FALSE, bit |-> FALSE]
          /\ phase' = "reset" /\ reading' = NoReading /\ silent' = 0 /\ flash' = flash
      BY <1>6 DEF Reset
    <2>2. /\ gate' \in [engaged : BOOLEAN, invalid : 0..InvalidLimit, blind : BOOLEAN]
          /\ clock' \in [armed : BOOLEAN, held : 0..KeepaliveCycles]
          /\ config' \in [mounted : BOOLEAN, bit : BOOLEAN]
      BY <2>1, BrownoutAssumption DEF BrownoutAssumption
    <2>3. TypeOK'
      BY <2>1, <2>2, ReadingTypes, Counting DEF IInv, TypeOK
    <2>4. Evidence'
      BY <2>1, Counting DEF Evidence
    <2> QED BY <2>1, <2>3, <2>4 DEF IInv, LowDisarms, OnlyLowDisarms, ResetCleared
  <1>7. CASE Boot
    <2>1. config' \in [mounted : BOOLEAN, bit : BOOLEAN]
      <3>1. CASE config' = [mounted |-> TRUE, bit |-> flash]
        BY <3>1 DEF IInv, TypeOK
      <3>2. CASE config' \in [mounted : BOOLEAN, bit : {FALSE}]
        BY <3>2
      <3> QED BY <1>7, <3>1, <3>2 DEF Boot
    <2>2. /\ gate' = [gate EXCEPT !.engaged = config'.bit]
          /\ phase' = "asleep" /\ UNCHANGED <<reading, clock, flash, silent>>
      BY <1>7 DEF Boot
    <2>3. TypeOK'
      BY <2>1, <2>2 DEF IInv, TypeOK
    <2>4. ~gate.blind
      BY <1>7, Counting DEF Boot, IInv, ResetCleared
    <2>5. Evidence'
      BY <2>1, <2>2, <2>4 DEF IInv, TypeOK, Evidence
    <2> QED BY <2>2, <2>3, <2>5 DEF IInv, LowDisarms, OnlyLowDisarms, ResetCleared
  <1>8. CASE UNCHANGED vars
    BY <1>8 DEF vars, IInv, TypeOK, Evidence, LowDisarms, OnlyLowDisarms, ResetCleared, IsLow
  <1> QED BY <1>1, <1>2, <1>3, <1>4, <1>5, <1>6, <1>7, <1>8 DEF Next

(* The invariant holds in every reachable state. *)
LEMMA Invariance == Spec => []IInv
  BY InitIInv, NextIInv, PTL DEF Spec

-----------------------------------------------------------------------------
(* Theorems *)

(* Every state of the gate, its clock and Config's bit is well formed: the miss   *)
(* counter and the clock saturate at their limits and never pass them.            *)
THEOREM TypeCorrect == Spec => []TypeOK
  BY Invariance, PTL DEF IInv

(* A pack measured at or below the floor is never charged a keepalive.            *)
THEOREM KeepaliveNeverWhenLow == Spec => []NoKeepaliveWhenLow
  <1>1. IInv => NoKeepaliveWhenLow
    BY DEF IInv, LowDisarms, NoKeepaliveWhenLow, KeepaliveDue, IsLow
  <1> QED BY <1>1, Invariance, PTL

(* A pack silent for InvalidLimit cycles is always behind a shut gate.            *)
THEOREM SilenceShutsTheGate == Spec => []SilenceHolds
  <1>1. IInv => SilenceHolds
    BY DEF IInv, Evidence, SilenceHolds
  <1> QED BY <1>1, Invariance, PTL

(* A hold that has lasted long enough is a low reading or a few misses away from  *)
(* a keepalive, whatever sequence of readings led there.                          *)
THEOREM HoldStaysReachable == Spec => []HoldIsReachable
  <1>1. IInv => HoldIsReachable
    BY DEF IInv, OnlyLowDisarms, HoldIsReachable, KeepaliveDue
  <1> QED BY <1>1, Invariance, PTL

(* Only a reading at or above TxResume, or a reset, ends a hold, and until then nothing *)
(* but a keepalive takes held time back.                                            *)
THEOREM HoldsRunTheirCourse == Spec => HoldRunsItsCourse
  <1>1. ASSUME IInv, Next, gate.engaged, ~gate'.engaged
        PROVE  phase' = "reset" \/ (reading'.valid /\ reading'.cv >= TxResume)
    <2>1. CASE Update
      <3>1. CASE UnreadableOpen \/ UnreadableHeld \/ UnreadableBlind
        BY <1>1, <3>1 DEF UnreadableOpen, UnreadableHeld, UnreadableBlind, IInv, TypeOK
      <3>2. ASSUME NEW r \in Readings, Engage(r) \/ Healthy(r) \/ StillHeld(r)
            PROVE  FALSE
        BY <1>1, <3>2 DEF Engage, Healthy, StillHeld, IInv, TypeOK
      <3>3. ASSUME NEW r \in Readings, Recover(r)
            PROVE  reading'.valid /\ reading'.cv >= TxResume
        BY <1>1, <3>3 DEF Recover, Read, IsRecovered
      <3> QED BY <2>1, <3>1, <3>2, <3>3 DEF Update
    <2>2. CASE Boot
      BY <1>1, <2>2 DEF Boot, IInv, ResetCleared
    <2>3. CASE KeepaliveSent \/ CycleEnds \/ OtherSave \/ Rebuild \/ Reset
      BY <1>1, <2>3 DEF KeepaliveSent, CycleEnds, OtherSave, Rebuild, Reset
    <2> QED BY <1>1, <2>1, <2>2, <2>3 DEF Next
  <1>2. ASSUME IInv, Next, gate.engaged, gate'.engaged, ~(phase = "decided" /\ KeepaliveDue)
        PROVE  clock'.held >= clock.held
    <2>0. /\ clock.held \in 0..KeepaliveCycles
          /\ UpTo(KeepaliveCycles, clock.held) >= clock.held
      BY <1>2, BrownoutAssumption, SMT DEF BrownoutAssumption, IInv, TypeOK, UpTo
    <2>1. CASE Update
      <3>1. CASE UnreadableOpen
        BY <1>2, <3>1 DEF UnreadableOpen
      <3>2. CASE UnreadableHeld \/ UnreadableBlind
        BY <1>2, <2>0, <3>2 DEF UnreadableHeld, UnreadableBlind, AdvanceBlind, Advance
      <3>3. ASSUME NEW r \in Readings, Engage(r) \/ Healthy(r) \/ Recover(r)
            PROVE  FALSE
        BY <1>2, <3>3 DEF Engage, Healthy, Recover
      <3>4. ASSUME NEW r \in Readings, StillHeld(r)
            PROVE  clock'.held >= clock.held
        BY <1>2, <2>0, <3>4 DEF StillHeld, Advance
      <3> QED BY <1>2, <2>1, <3>1, <3>2, <3>3, <3>4 DEF Update
    <2>2. CASE KeepaliveSent
      BY <1>2, <2>2 DEF KeepaliveSent
    <2>3. CASE CycleEnds \/ OtherSave \/ Rebuild \/ Boot
      <3>1. clock' = clock
        BY <1>2, <2>3 DEF CycleEnds, OtherSave, Rebuild, Boot
      <3> QED BY <1>2, <2>0, <3>1
    <2>4. CASE Reset
      BY <1>2, <2>4 DEF Reset
    <2> QED BY <1>2, <2>1, <2>2, <2>3, <2>4 DEF Next
  <1>3. IInv /\ [Next]_vars
          => [gate.engaged =>
                IF gate'.engaged
                THEN (phase = "decided" /\ KeepaliveDue) \/ clock'.held >= clock.held
                ELSE phase' = "reset" \/ (reading'.valid /\ reading'.cv >= TxResume)]_vars
    BY <1>1, <1>2
  <1> QED BY <1>3, Invariance, PTL DEF Spec, HoldRunsItsCourse

(* A reading that changes the hold leaves Config saying what is stored, whether   *)
(* the write it asks for lands or fails.                                          *)
THEOREM RollbackKeepsConfigHonest == Spec => RollbackIsHonest
  <1>1. IInv /\ [Next]_vars
          => [phase = "asleep" /\ (config.bit => flash) => (config'.bit => flash')]_vars
    <2> SUFFICES ASSUME IInv, Next, phase = "asleep", config.bit => flash
                 PROVE  config'.bit => flash'
      OBVIOUS
    <2>1. CASE Update
      <3>1. CASE UnreadableOpen \/ UnreadableHeld \/ UnreadableBlind
        BY <3>1 DEF UnreadableOpen, UnreadableHeld, UnreadableBlind
      <3>2. ASSUME NEW r \in Readings, Healthy(r) \/ StillHeld(r)
            PROVE  config'.bit => flash'
        BY <3>2 DEF Healthy, StillHeld
      <3>3. ASSUME NEW r \in Readings, Engage(r) \/ Recover(r)
            PROVE  config'.bit => flash'
        BY <3>3, PersistTypes DEF Engage, Recover, IInv
      <3> QED BY <2>1, <3>1, <3>2, <3>3 DEF Update
    <2>2. CASE KeepaliveSent \/ CycleEnds \/ Rebuild \/ Boot
      BY <2>2 DEF KeepaliveSent, CycleEnds, Rebuild, Boot
    <2>3. CASE OtherSave
      BY <2>3 DEF OtherSave
    <2>4. CASE Reset
      BY <2>4 DEF Reset
    <2> QED BY <2>1, <2>2, <2>3, <2>4 DEF Next
  <1> QED BY <1>1, Invariance, PTL DEF Spec, RollbackIsHonest

-----------------------------------------------------------------------------
(* The gate implements module Hold *)

\* A step of Brownout::update() is a measurement or a miss of the abstract gate.
LEMMA UpdateRefines == IInv /\ Update => H!Measured \/ H!Missed
  <1> SUFFICES ASSUME IInv, Update
               PROVE  H!Measured \/ H!Missed
    OBVIOUS
  <1> USE BrownoutAssumption
  <1>1. /\ gate \in [engaged : BOOLEAN, invalid : 0..InvalidLimit, blind : BOOLEAN]
        /\ gate.blind <=> gate.invalid >= InvalidLimit
        /\ gate.blind => gate.engaged
    BY DEF IInv, TypeOK, Evidence
  <1>2. CASE UnreadableOpen
    <2>1. ~reading'.valid
      BY <1>2, ReadingTypes DEF UnreadableOpen, Read
    <2> DEFINE invalid == UpTo(InvalidLimit, gate.invalid)
    <2>2. CASE TooSilent(invalid)
      <3>1. gate' = [engaged |-> TRUE, invalid |-> invalid, blind |-> TRUE]
        BY <1>2, <2>2 DEF UnreadableOpen
      <3>2. gate'.invalid = invalid /\ GateHold' = "blind"
        BY <3>1 DEF GateHold
      <3> QED BY <2>1, <2>2, <3>2, ReadingTypes DEF H!Missed, UpTo, TooSilent
    <2>3. CASE ~TooSilent(invalid)
      <3>1. gate' = [gate EXCEPT !.invalid = invalid] /\ ~gate.engaged
        BY <1>2, <2>3 DEF UnreadableOpen
      <3>2. gate'.invalid = invalid /\ GateHold' = GateHold
        BY <1>1, <3>1 DEF GateHold
      <3> QED BY <2>1, <2>3, <3>2, ReadingTypes DEF H!Missed, UpTo, TooSilent
    <2> QED BY <2>2, <2>3
  <1>3. CASE UnreadableHeld
    <2>1. ~reading'.valid
      BY <1>3, ReadingTypes DEF UnreadableHeld, Read
    <2>2. gate'.invalid = UpTo(InvalidLimit, gate.invalid)
      BY <1>1, <1>3 DEF UnreadableHeld
    <2>3. GateHold' = IF gate'.invalid >= InvalidLimit THEN "blind" ELSE GateHold
      BY <1>1, <1>3 DEF UnreadableHeld, GateHold, TooSilent
    <2> QED BY <2>1, <2>2, <2>3, <1>1, ReadingTypes DEF H!Missed, UpTo
  <1>4. CASE UnreadableBlind
    <2>1. ~reading'.valid /\ gate' = gate /\ gate.blind /\ gate.engaged
      BY <1>4, ReadingTypes DEF UnreadableBlind, Read
    <2> QED BY <2>1, <1>1, ReadingTypes DEF H!Missed, GateHold
  <1>5. ASSUME NEW r \in Readings, Engage(r) \/ Healthy(r) \/ Recover(r) \/ StillHeld(r)
        PROVE  H!Measured
    <2>1. reading' = r /\ r.valid = TRUE
      BY <1>5, ReadingTypes DEF Engage, Healthy, Recover, StillHeld, Read, IsLow, IsRecovered
    <2>2. gate'.invalid = 0 /\ ~gate'.blind
      <3>1. CASE Engage(r) \/ Healthy(r) \/ Recover(r)
        <4>1. \E b \in BOOLEAN : gate' = [engaged |-> b, invalid |-> 0, blind |-> FALSE]
          BY <3>1 DEF Engage, Healthy, Recover
        <4> QED BY <4>1
      <3>2. CASE StillHeld(r)
        BY <1>1, <3>2 DEF StillHeld
      <3> QED BY <1>5, <3>1, <3>2
    <2> QED BY <2>1, <2>2 DEF H!Measured, GateHold
  <1> QED BY <1>2, <1>3, <1>4, <1>5 DEF Update

\* The rest of a cycle leaves the gate alone; a reset and the boot after it restart it.
LEMMA RestRefines ==
  IInv /\ Next /\ ~Update => H!Restart \/ H!Measured \/ UNCHANGED H!holdVars
  <1> SUFFICES ASSUME IInv, Next, ~Update
               PROVE  H!Restart \/ H!Measured \/ UNCHANGED H!holdVars
    OBVIOUS
  <1>1. CASE KeepaliveSent \/ CycleEnds \/ OtherSave \/ Rebuild
    <2>1. gate' = gate /\ reading' = reading
      BY <1>1 DEF KeepaliveSent, CycleEnds, OtherSave, Rebuild
    <2> QED BY <2>1 DEF H!holdVars, GateHold
  <1>2. CASE Reset
    <2>1. gate' = [engaged |-> FALSE, invalid |-> 0, blind |-> FALSE] /\ reading' = NoReading
      BY <1>2 DEF Reset
    <2> QED BY <2>1 DEF H!Restart, GateHold, NoReading
  <1>3. CASE Boot
    <2>1. /\ gate.invalid = 0
          /\ ~gate.blind
          /\ gate \in [engaged : BOOLEAN, invalid : 0..InvalidLimit, blind : BOOLEAN]
          /\ reading.valid \in BOOLEAN
      BY <1>3, BrownoutAssumption, ReadingTypes
      DEF Boot, IInv, TypeOK, Evidence, ResetCleared
    <2>2. gate'.invalid = 0 /\ ~gate'.blind /\ reading' = reading
      BY <1>3, <2>1 DEF Boot
    <2> QED BY <2>1, <2>2 DEF H!Restart, H!Measured, GateHold
  <1> QED BY <1>1, <1>2, <1>3 DEF Next

(* The gate, with everything power.cpp keeps for it, does what module Hold says:  *)
(* the driver of the pack may be built on the simple gate.                        *)
THEOREM GateImplementsHold == Spec => ImplementsHold
  <1>1. Init => H!HoldInit
    BY DEF Init, H!HoldInit, GateHold, NoReading
  <1>2. IInv /\ [Next]_vars => [H!HoldNext]_(H!holdVars)
    <2>1. CASE Next
      BY <2>1, UpdateRefines, RestRefines DEF H!HoldNext
    <2>2. CASE UNCHANGED vars
      BY <2>2 DEF vars, H!holdVars, GateHold
    <2> QED BY <2>1, <2>2
  <1> QED BY <1>1, <1>2, Invariance, PTL DEF Spec, ImplementsHold, H!HoldSpec

-----------------------------------------------------------------------------
(* How long a hold can keep the node silent *)

\* The cycles a hold may still take before its keepalive is due, if no reading in them
\* is low: the rest of the held time, and then at most the misses that make it blind.
Wait ==
  IF clock.held < KeepaliveCycles THEN (KeepaliveCycles - clock.held) + InvalidLimit
  ELSE IF KeepaliveDue THEN 0 ELSE InvalidLimit - silent

\* Whatever has happened, that is never more than the whole of both.
WaitIsBounded == gate.engaged => Wait \in 0..(KeepaliveCycles + InvalidLimit)

\* While a hold lasts and no keepalive is due, every cycle that is not measured low
\* makes one due or brings it nearer, in whatever order misses and readings alternate;
\* and nothing between two updates puts it off: no save, no format, no ended cycle.
KeepaliveFallsDue ==
  [][gate.engaged /\ gate'.engaged /\ ~KeepaliveDue =>
       IF phase = "asleep" /\ phase' = "decided"
       THEN ~IsLow(reading') => KeepaliveDue' \/ Wait' < Wait
       ELSE Wait' = Wait]_vars

\* A blind hold has its keepalive armed: no miss can disarm it any more.
BlindIsArmed == gate.engaged /\ gate.blind => clock.armed

(* The misses that make a hold blind are the ones that arm it. *)
LEMMA BlindArms == Spec => []BlindIsArmed
  <1>1. Init => BlindIsArmed
    BY DEF Init, BlindIsArmed
  <1>2. IInv /\ BlindIsArmed /\ [Next]_vars => BlindIsArmed'
    <2> SUFFICES ASSUME IInv, BlindIsArmed, [Next]_vars PROVE BlindIsArmed'
      OBVIOUS
    <2>1. CASE UnreadableOpen
      <3>1. CASE TooSilent(UpTo(InvalidLimit, gate.invalid))
        BY <2>1, <3>1 DEF UnreadableOpen, StartClock, BlindIsArmed
      <3>2. CASE ~TooSilent(UpTo(InvalidLimit, gate.invalid))
        <4>1. gate' = [gate EXCEPT !.invalid = UpTo(InvalidLimit, gate.invalid)] /\ ~gate.engaged
          BY <2>1, <3>2 DEF UnreadableOpen
        <4> QED BY <4>1 DEF IInv, TypeOK, BlindIsArmed
      <3> QED BY <3>1, <3>2
    <2>2. CASE UnreadableHeld
      <3> DEFINE b == TooSilent(UpTo(InvalidLimit, gate.invalid))
      <3>1. /\ gate' = [gate EXCEPT !.invalid = UpTo(InvalidLimit, gate.invalid), !.blind = b]
            /\ clock' = [armed |-> b, held |-> UpTo(KeepaliveCycles, clock.held)]
        BY <2>2 DEF UnreadableHeld, AdvanceBlind, Advance
      <3> HIDE DEF b
      <3> QED BY <3>1 DEF IInv, TypeOK, BlindIsArmed
    <2>3. CASE UnreadableBlind
      BY <2>3 DEF UnreadableBlind, Advance, BlindIsArmed
    <2>4. ASSUME NEW r \in Readings, Engage(r) \/ Healthy(r) \/ Recover(r) \/ StillHeld(r)
          PROVE  BlindIsArmed'
      <3>1. CASE Engage(r) \/ Healthy(r) \/ Recover(r)
        <4>1. \/ gate' = [engaged |-> TRUE, invalid |-> 0, blind |-> FALSE]
              \/ gate' = [engaged |-> FALSE, invalid |-> 0, blind |-> FALSE]
          BY <3>1 DEF Engage, Healthy, Recover
        <4> QED BY <4>1 DEF BlindIsArmed
      <3>2. CASE StillHeld(r)
        <4>1. gate' = [gate EXCEPT !.invalid = 0, !.blind = FALSE]
          BY <3>2 DEF StillHeld
        <4> QED BY <4>1 DEF IInv, TypeOK, BlindIsArmed
      <3> QED BY <2>4, <3>1, <3>2
    <2>5. CASE KeepaliveSent
      <3>1. clock'.armed = clock.armed /\ gate' = gate
        BY <2>5 DEF KeepaliveSent, IInv, TypeOK
      <3> QED BY <3>1 DEF BlindIsArmed
    <2>6. CASE Boot
      <3>1. ~gate.blind /\ gate'.blind = gate.blind
        BY <2>6, Counting DEF Boot, IInv, TypeOK, ResetCleared
      <3> QED BY <3>1 DEF BlindIsArmed
    <2>7. CASE Reset
      BY <2>7 DEF Reset, BlindIsArmed
    <2>8. CASE CycleEnds \/ OtherSave \/ Rebuild \/ UNCHANGED vars
      BY <2>8 DEF CycleEnds, OtherSave, Rebuild, vars, BlindIsArmed
    <2> QED BY <2>1, <2>2, <2>3, <2>4, <2>5, <2>6, <2>7, <2>8 DEF Next, Update
  <1> QED BY <1>1, <1>2, Invariance, PTL DEF Spec

(* The wait is bounded by the constants: KeepaliveCycles and InvalidLimit in all. *)
THEOREM WaitStaysBounded == Spec => []WaitIsBounded
  <1>1. IInv => WaitIsBounded
    <2> SUFFICES ASSUME IInv PROVE WaitIsBounded
      OBVIOUS
    <2>1. /\ clock.held \in 0..KeepaliveCycles /\ silent \in 0..InvalidLimit
          /\ KeepaliveCycles \in Nat /\ InvalidLimit \in Nat
      BY BrownoutAssumption DEF BrownoutAssumption, IInv, TypeOK
    <2>2. Wait \in 0..(KeepaliveCycles + InvalidLimit)
      BY <2>1 DEF Wait
    <2> QED BY <2>2 DEF WaitIsBounded
  <1> QED BY <1>1, Invariance, PTL

(* One more cycle of a hold, whatever it read: the held time grows to its limit. *)
LEMMA HoldAdvances ==
  ASSUME IInv, Update, gate.engaged, gate'.engaged
  PROVE  /\ clock' = [armed |-> clock'.armed, held |-> UpTo(KeepaliveCycles, clock.held)]
         /\ \/ /\ ~reading'.valid
               /\ silent' = UpTo(InvalidLimit, silent)
               /\ gate.blind => clock'.armed
            \/ /\ reading'.valid
               /\ clock'.armed <=> ~IsLow(reading')
  <1>1. CASE UnreadableOpen
    BY <1>1 DEF UnreadableOpen
  <1>2. CASE UnreadableHeld
    BY <1>2, ReadingTypes DEF UnreadableHeld, AdvanceBlind, Advance, Read
  <1>3. CASE UnreadableBlind
    BY <1>3, ReadingTypes DEF UnreadableBlind, Advance, Read
  <1>4. ASSUME NEW r \in Readings, Engage(r) \/ Healthy(r) \/ Recover(r) PROVE FALSE
    BY <1>4 DEF Engage, Healthy, Recover
  <1>5. ASSUME NEW r \in Readings, StillHeld(r)
        PROVE  /\ clock' = [armed |-> clock'.armed, held |-> UpTo(KeepaliveCycles, clock.held)]
               /\ reading'.valid
               /\ clock'.armed <=> ~IsLow(reading')
    <2>1. r.valid /\ reading' = r
          /\ clock' = [armed |-> ~IsLow(r), held |-> UpTo(KeepaliveCycles, clock.held)]
      BY <1>5 DEF StillHeld, Read, Advance
    <2> QED BY <2>1 DEF IsLow
  <1> QED BY <1>1, <1>2, <1>3, <1>4, <1>5 DEF Update

(* A held node that is not measured low is at most Wait cycles from its keepalive; what
   NeverMuted adds to this is only that cycles keep coming and one gets through. *)
THEOREM KeepalivesFallDue == Spec => KeepaliveFallsDue
  <1>1. ASSUME IInv, BlindIsArmed, Next, gate.engaged, gate'.engaged, ~KeepaliveDue,
               phase = "asleep", phase' = "decided", ~IsLow(reading')
        PROVE  KeepaliveDue' \/ Wait' < Wait
    <2>1. Update
      BY <1>1 DEF Next, KeepaliveSent, CycleEnds, OtherSave, Rebuild, Reset, Boot
    <2>2. /\ clock' = [armed |-> clock'.armed, held |-> UpTo(KeepaliveCycles, clock.held)]
          /\ \/ /\ ~reading'.valid
                /\ silent' = UpTo(InvalidLimit, silent)
                /\ gate.blind => clock'.armed
             \/ reading'.valid /\ clock'.armed
      BY <1>1, <2>1, HoldAdvances
    <2>3. IInv'
      BY <1>1, NextIInv
    <2>4. /\ clock.held \in 0..KeepaliveCycles /\ silent \in 0..InvalidLimit
          /\ clock'.held \in 0..KeepaliveCycles /\ silent' \in 0..InvalidLimit
          /\ KeepaliveCycles \in Nat /\ InvalidLimit \in Nat
          /\ gate.blind <=> silent >= InvalidLimit
      <3>1. clock.held \in 0..KeepaliveCycles /\ silent \in 0..InvalidLimit
        BY <1>1 DEF IInv, TypeOK
      <3>2. clock'.held \in 0..KeepaliveCycles /\ silent' \in 0..InvalidLimit
        BY <2>3 DEF IInv, TypeOK
      <3>3. KeepaliveCycles \in Nat /\ InvalidLimit \in Nat
        BY BrownoutAssumption DEF BrownoutAssumption
      <3>4. gate.blind <=> silent >= InvalidLimit
        BY <1>1, Counting
      <3> QED BY <3>1, <3>2, <3>3, <3>4
    <2>5. clock'.held = UpTo(KeepaliveCycles, clock.held)
      BY <2>2
    <2>6. CASE clock.held < KeepaliveCycles
      <3>1. clock'.held = clock.held + 1
        BY <2>5, <2>6 DEF UpTo
      <3>2. Wait = (KeepaliveCycles - clock.held) + InvalidLimit
        BY <2>6 DEF Wait
      <3>3. CASE clock'.held < KeepaliveCycles
        <4>1. Wait' = (KeepaliveCycles - clock'.held) + InvalidLimit
          BY <3>3 DEF Wait
        <4> QED BY <2>4, <3>1, <3>2, <4>1
      <3>4. CASE ~(clock'.held < KeepaliveCycles) /\ ~KeepaliveDue'
        <4>1. Wait' = InvalidLimit - silent'
          BY <3>4 DEF Wait
        <4> QED BY <2>4, <2>6, <3>2, <4>1
      <3> QED BY <3>3, <3>4
    <2>7. CASE clock.held = KeepaliveCycles
      <3>1. clock'.held = KeepaliveCycles
        BY <2>4, <2>5, <2>7 DEF UpTo
      <3>2. CASE clock'.armed
        BY <1>1, <2>4, <3>1, <3>2 DEF KeepaliveDue
      <3>3. CASE ~clock'.armed
        <4>1. silent' = UpTo(InvalidLimit, silent) /\ silent < InvalidLimit
          BY <2>2, <2>4, <3>3
        <4>2. silent' = silent + 1
          BY <4>1 DEF UpTo
        <4>3. Wait = InvalidLimit - silent
          BY <1>1, <2>4, <2>7 DEF Wait
        <4>4. ~KeepaliveDue'
          BY <3>3 DEF KeepaliveDue
        <4>5. ~(clock'.held < KeepaliveCycles)
          BY <2>4, <3>1
        <4>6. Wait' = InvalidLimit - silent'
          BY <4>4, <4>5 DEF Wait
        <4> QED BY <2>4, <4>2, <4>3, <4>6
      <3> QED BY <3>2, <3>3
    <2> QED BY <2>4, <2>6, <2>7
  <1>2. ASSUME IInv, Next, gate.engaged, gate'.engaged, ~KeepaliveDue,
               ~(phase = "asleep" /\ phase' = "decided")
        PROVE  Wait' = Wait
    <2>1. ~Update
      <3>1. \A r : Read(r) => phase = "asleep" /\ phase' = "decided"
        BY DEF Read
      <3> QED BY <1>2, <3>1
              DEF Update, UnreadableOpen, UnreadableHeld, UnreadableBlind,
                  Engage, Healthy, Recover, StillHeld
    <2>2. ~Boot
      BY <1>2 DEF Boot, IInv, ResetCleared
    <2>3. CASE CycleEnds \/ OtherSave \/ Rebuild
      BY <2>3 DEF CycleEnds, OtherSave, Rebuild, Wait, KeepaliveDue
    <2>4. CASE KeepaliveSent \/ Reset
      BY <1>2, <2>4 DEF KeepaliveSent, Reset
    <2> QED BY <1>2, <2>1, <2>2, <2>3, <2>4 DEF Next
  <1>3. IInv /\ BlindIsArmed /\ [Next]_vars
          => [gate.engaged /\ gate'.engaged /\ ~KeepaliveDue =>
                IF phase = "asleep" /\ phase' = "decided"
                THEN ~IsLow(reading') => KeepaliveDue' \/ Wait' < Wait
                ELSE Wait' = Wait]_vars
    BY <1>1, <1>2
  <1> QED BY <1>3, Invariance, BlindArms, PTL DEF Spec, KeepaliveFallsDue
=============================================================================
