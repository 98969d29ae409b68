--------------------------- MODULE IntervalProofs ---------------------------
(***************************************************************************)
(* The properties of Interval, proved for every value of its constants:    *)
(* what each method of Config may do first, then the steps of the loop,    *)
(* then the theorems.                                                      *)
(***************************************************************************)
EXTENDS Interval, TLAPS

OneRecord(f) == \A q, r \in f : q = r

\* Every interval the node could act on is one the network allows.
InRangeAlways ==
  /\ InRange(cfg.interval)
  /\ pending.value # 0 => InRange(pending.value)
  /\ doubled # 0 => BackoffFirst <= doubled

\* The writes a command has cost and those it may still cost.
BudgetKept ==
  /\ tries <= WriteAttempts + 1
  /\ pending.value # 0 => tries + pending.left <= WriteAttempts + 1

\* What the last command left in force, and what the cycle has taken from it.
Governed ==
  /\ phase = "reset" => asked = 0
  /\ asked # 0 /\ ~dropped => InForce = asked
  /\ phase = "uplink" => sleepFor = InForce

IInv ==
  /\ TypeOK
  /\ OneRecord(flash)
  /\ InRangeAlways
  /\ BackoffCannotWrap
  /\ FairUse
  /\ BudgetKept
  /\ Governed

-----------------------------------------------------------------------------
(* config.cpp *)

\* What a method of Config leaves: everything as it was, or its members on flash.
Settled(c, f, r) ==
  /\ r.ok \in BOOLEAN
  /\ r.cfg \in Members
  /\ r.flash \in SUBSET Record
  /\ \/ r.flash = f /\ r.cfg = c
     \/ r.flash = {Stored(r.cfg)}

(* A record made of valid members is one. *)
LEMMA StoredFacts ==
  ASSUME NEW c \in Members
  PROVE  Stored(c) \in Record /\ Stored(c).interval = c.interval
  BY DEF Members, Record, Stored

(* save() changes nothing, or stores everything and discharges the boot count. *)
LEMMA SaveFacts ==
  ASSUME NEW c \in Members, NEW f \in SUBSET Record, NEW r \in Save(c, f)
  PROVE  \/ r.ok = FALSE /\ r.cfg = c /\ r.flash = f
         \/ /\ r.ok = TRUE
            /\ r.cfg \in Members
            /\ r.cfg.interval = c.interval
            /\ r.cfg.bit = c.bit
            /\ r.flash = {Stored(r.cfg)}
            /\ r.flash \in SUBSET Record
  <1>1. CASE r = Result(FALSE, c, f)
    BY <1>1 DEF Result
  <1>2. CASE r = Result(TRUE, [c EXCEPT !.due = FALSE], {Stored(c)})
    <2>1. r.ok = TRUE /\ r.cfg = [c EXCEPT !.due = FALSE] /\ r.flash = {Stored(c)}
      BY <1>2 DEF Result
    <2>2. /\ r.cfg \in Members
          /\ r.cfg.interval = c.interval
          /\ r.cfg.boots = c.boots
          /\ r.cfg.bit = c.bit
      BY <2>1 DEF Members
    <2>3. Stored(r.cfg) = Stored(c)
      BY <2>2 DEF Stored
    <2> QED BY <2>1, <2>2, <2>3, StoredFacts
  <1> QED BY <1>1, <1>2 DEF Save

(* set_interval_seconds() answers true with the value live, and otherwise has
   changed nothing. *)
LEMMA SetIntervalFacts ==
  ASSUME NEW c \in Members, NEW f \in SUBSET Record, NEW v \in Nat, NEW r \in SetInterval(c, f, v)
  PROVE  /\ Settled(c, f, r)
         /\ r.ok => r.cfg.interval = v /\ InRange(v)
         /\ ~r.ok => r.cfg = c /\ r.flash = f
         /\ r.cfg.bit = c.bit
  <1>1. CASE ~InRange(v)
    <2>1. r = Result(FALSE, c, f)
      BY <1>1 DEF SetInterval
    <2>2. r.ok = FALSE /\ r.cfg = c /\ r.flash = f
      BY <2>1 DEF Result
    <2> QED BY <2>2 DEF Settled
  <1>2. CASE InRange(v) /\ v = c.interval
    <2>1. r = Result(TRUE, c, f)
      BY <1>2 DEF SetInterval
    <2>2. r.ok = TRUE /\ r.cfg = c /\ r.flash = f
      BY <2>1 DEF Result
    <2> QED BY <1>2, <2>2 DEF Settled
  <1>3. CASE InRange(v) /\ v # c.interval
    <2> DEFINE d == [c EXCEPT !.interval = v]
    <2>1. d \in Members /\ d.interval = v /\ d.bit = c.bit
      BY DEF Members
    <2>2. PICK s \in Save(d, f) : r = IF s.ok THEN s ELSE Result(FALSE, c, f)
      BY <1>3 DEF SetInterval
    <2> HIDE DEF d
    <2>3. CASE s.ok
      <3>1. r = s
        BY <2>2, <2>3
      <3>2. r.ok = TRUE /\ r.cfg \in Members /\ r.cfg.interval = d.interval /\ r.cfg.bit = d.bit
            /\ r.flash = {Stored(r.cfg)} /\ r.flash \in SUBSET Record
        <4>1. s \in Save(d, f)
          BY <2>2
        <4>2. ~(s.ok = FALSE)
          BY <2>3
        <4>3. \/ s.ok = FALSE /\ s.cfg = d /\ s.flash = f
              \/ /\ s.ok = TRUE
                 /\ s.cfg \in Members
                 /\ s.cfg.interval = d.interval
                 /\ s.cfg.bit = d.bit
                 /\ s.flash = {Stored(s.cfg)}
                 /\ s.flash \in SUBSET Record
          BY <2>1, <4>1, SaveFacts
        <4>4. s.ok = TRUE /\ s.cfg \in Members /\ s.cfg.interval = d.interval /\ s.cfg.bit = d.bit
              /\ s.flash = {Stored(s.cfg)} /\ s.flash \in SUBSET Record
          BY <4>2, <4>3
        <4> QED BY <3>1, <4>4
      <3> QED BY <1>3, <2>1, <3>2 DEF Settled
    <2>4. CASE ~s.ok
      <3>1. r = Result(FALSE, c, f)
        BY <2>2, <2>4
      <3>2. r.ok = FALSE /\ r.cfg = c /\ r.flash = f
        BY <3>1 DEF Result
      <3> QED BY <3>2 DEF Settled
    <2> QED BY <2>3, <2>4
  <1> QED BY <1>1, <1>2, <1>3

(* set_brownout_engaged() never touches the interval. *)
LEMMA SetBrownoutFacts ==
  ASSUME NEW c \in Members, NEW f \in SUBSET Record, NEW bit \in BOOLEAN,
         NEW r \in SetBrownoutEngaged(c, f, bit)
  PROVE  /\ Settled(c, f, r)
         /\ r.cfg.interval = c.interval
         /\ r.flash # f => r.cfg.bit # c.bit
  <1>1. CASE bit = c.bit
    <2>1. r = Result(TRUE, c, f)
      BY <1>1 DEF SetBrownoutEngaged
    <2>2. r.ok = TRUE /\ r.cfg = c /\ r.flash = f
      BY <2>1 DEF Result
    <2> QED BY <2>2 DEF Settled
  <1>2. CASE bit # c.bit
    <2> DEFINE d == [c EXCEPT !.bit = bit]
    <2>1. d \in Members /\ d.interval = c.interval /\ d.bit = bit
      BY DEF Members
    <2>2. PICK s \in Save(d, f) : r = IF s.ok THEN s ELSE Result(FALSE, c, f)
      BY <1>2 DEF SetBrownoutEngaged
    <2> HIDE DEF d
    <2>3. CASE s.ok
      <3>1. r = s
        BY <2>2, <2>3
      <3>2. r.ok = TRUE /\ r.cfg \in Members /\ r.cfg.interval = d.interval /\ r.cfg.bit = d.bit
            /\ r.flash = {Stored(r.cfg)} /\ r.flash \in SUBSET Record
        <4>1. s \in Save(d, f)
          BY <2>2
        <4>2. ~(s.ok = FALSE)
          BY <2>3
        <4>3. \/ s.ok = FALSE /\ s.cfg = d /\ s.flash = f
              \/ /\ s.ok = TRUE
                 /\ s.cfg \in Members
                 /\ s.cfg.interval = d.interval
                 /\ s.cfg.bit = d.bit
                 /\ s.flash = {Stored(s.cfg)}
                 /\ s.flash \in SUBSET Record
          BY <2>1, <4>1, SaveFacts
        <4>4. s.ok = TRUE /\ s.cfg \in Members /\ s.cfg.interval = d.interval /\ s.cfg.bit = d.bit
              /\ s.flash = {Stored(s.cfg)} /\ s.flash \in SUBSET Record
          BY <4>2, <4>3
        <4> QED BY <3>1, <4>4
      <3> QED BY <1>2, <2>1, <3>2 DEF Settled
    <2>4. CASE ~s.ok
      <3>1. r = Result(FALSE, c, f)
        BY <2>2, <2>4
      <3>2. r.ok = FALSE /\ r.cfg = c /\ r.flash = f
        BY <3>1 DEF Result
      <3> QED BY <3>2 DEF Settled
    <2> QED BY <2>3, <2>4
  <1> QED BY <1>1, <1>2

(* begin(): whatever it could not read is replaced by a default that is in range. *)
LEMMA BeginFacts ==
  ASSUME NEW f \in SUBSET Record, NEW c \in ConfigBegin(f)
  PROVE  c \in Members /\ InRange(c.interval)
  <1>0. IntervalDefault \in Nat /\ InRange(IntervalDefault)
    BY IntervalAssumption DEF IntervalAssumption, InRange
  <1> DEFINE mounted == [Defaults EXCEPT !.mounted = TRUE]
  <1>1. /\ mounted \in Members /\ InRange(mounted.interval)
        /\ Defaults \in Members /\ InRange(Defaults.interval)
    BY <1>0 DEF Defaults, Members
  <1> HIDE DEF mounted
  <1>2. ASSUME NEW m \in Members, InRange(m.interval)
        PROVE  Counted(m) \in Members /\ InRange(Counted(m).interval)
    <2>1. ((m.boots + 1) % BootPersistEvery = 0) \in BOOLEAN
      OBVIOUS
    <2>2. m.boots + 1 \in Nat
      BY DEF Members
    <2>3. Counted(m).interval = m.interval
      BY DEF Counted, Members
    <2> QED BY <1>2, <2>1, <2>2, <2>3 DEF Counted, Members
  <1>3. ASSUME NEW r \in f
        PROVE  Loaded(mounted, r) \in Members /\ InRange(Loaded(mounted, r).interval)
    <2>1. r.interval \in Nat /\ r.boots \in Nat /\ r.bit \in BOOLEAN
      BY DEF Record
    <2> DEFINE v == IF InRange(r.interval) THEN r.interval ELSE IntervalDefault
    <2>2. v \in Nat /\ InRange(v)
      BY <1>0, <2>1
    <2> HIDE DEF v
    <2>3. Loaded(mounted, r) = [mounted EXCEPT !.interval = v, !.boots = r.boots, !.bit = r.bit]
      BY DEF Loaded, v
    <2> QED BY <1>1, <2>1, <2>2, <2>3 DEF Members
  <1>4. \/ c = Defaults
        \/ c = Counted(mounted)
        \/ \E r \in f : c = Counted(Loaded(mounted, r))
    BY DEF ConfigBegin, mounted
  <1> QED BY <1>1, <1>2, <1>3, <1>4

(* The boot count is written with the interval and the bit it was read with. *)
LEMMA PersistFacts ==
  ASSUME NEW c \in Members, NEW f \in SUBSET Record, NEW r \in PersistBootCount(c, f)
  PROVE  /\ r.cfg \in Members
         /\ r.flash \in SUBSET Record
         /\ r.cfg.interval = c.interval
         /\ r.flash = f \/ (r.flash = {Stored(r.cfg)} /\ ~c.bit)
  <1>1. CASE c.due /\ ~c.bit
    <2> DEFINE d == [c EXCEPT !.due = FALSE]
    <2>1. d \in Members /\ d.interval = c.interval
      BY DEF Members
    <2>2. r \in Save(d, f)
      BY <1>1 DEF PersistBootCount
    <2> HIDE DEF d
    <2> QED BY <1>1, <2>1, <2>2, SaveFacts
  <1>2. CASE ~(c.due /\ ~c.bit)
    <2>1. r = Result(FALSE, c, f)
      BY <1>2 DEF PersistBootCount
    <2> QED BY <2>1 DEF Result
  <1> QED BY <1>1, <1>2

-----------------------------------------------------------------------------
(* The steps *)

(* What a write leaves is one record, if it started from one. *)
LEMMA SettledOneRecord ==
  ASSUME NEW c, NEW f, OneRecord(f), NEW r, Settled(c, f, r)
  PROVE  OneRecord(r.flash)
  BY DEF Settled, OneRecord

(* A value of pending, spent or not. *)
LEMMA PendingFacts ==
  ASSUME IInv, NEW ok \in BOOLEAN, pending.value # 0, pending.left > 0
  PROVE  /\ AfterRetry(ok) \in [value : Nat, left : 0..WriteAttempts]
         /\ AfterRetry(ok).left = pending.left - 1
         /\ AfterRetry(ok).value = IF ok THEN 0 ELSE pending.value
  <1>1. /\ pending \in [value : Nat, left : 0..WriteAttempts]
        /\ pending.left \in 0..WriteAttempts
        /\ WriteAttempts \in Nat
    BY IntervalAssumption DEF IntervalAssumption, IInv, TypeOK
  <1>2. pending.left - 1 \in 0..WriteAttempts
    BY <1>1
  <1>3. AfterRetry(ok) = [value |-> IF ok THEN 0 ELSE pending.value, left |-> pending.left - 1]
    BY <1>1 DEF AfterRetry
  <1> QED BY <1>1, <1>2, <1>3

(* The first power-on satisfies the invariant. *)
LEMMA InitIInv == Init => IInv
  <1> SUFFICES ASSUME Init PROVE IInv
    OBVIOUS
  <1>1. cfg \in Members /\ InRange(cfg.interval)
    BY IntervalAssumption DEF IntervalAssumption, Init, Defaults, Members, InRange
  <1>2. pending \in [value : Nat, left : 0..WriteAttempts] /\ pending.value = 0
    BY IntervalAssumption DEF IntervalAssumption, Init, NothingPending
  <1>3. flash \in SUBSET Record /\ OneRecord(flash)
    <2>1. CASE flash = {}
      BY <2>1 DEF OneRecord
    <2>2. CASE \E i \in Requests : flash = {[interval |-> i, boots |-> 0, bit |-> FALSE]}
      BY <2>2, IntervalAssumption DEF IntervalAssumption, Record, OneRecord
    <2> QED BY <2>1, <2>2 DEF Init
  <1>4. 0 < 2 * BackoffMax /\ 0 <= WriteAttempts + 1
    BY IntervalAssumption DEF IntervalAssumption
  <1> QED BY <1>1, <1>2, <1>3, <1>4
          DEF Init, IInv, TypeOK, InRangeAlways, BackoffCannotWrap, FairUse, BudgetKept, Governed

(* A reset forgets the pending command and the backoff, and keeps the record. *)
LEMMA ResetIInv ==
  ASSUME IInv, Reset
  PROVE  IInv'
  <1>1. cfg' \in Members /\ InRange(cfg'.interval)
    BY IntervalAssumption DEF IntervalAssumption, Reset, Defaults, Members, InRange
  <1>2. pending' \in [value : Nat, left : 0..WriteAttempts] /\ pending'.value = 0
    BY IntervalAssumption DEF IntervalAssumption, Reset, NothingPending
  <1>3. 0 < 2 * BackoffMax /\ 0 <= WriteAttempts + 1
    BY IntervalAssumption DEF IntervalAssumption
  <1> QED BY <1>1, <1>2, <1>3
          DEF Reset, IInv, TypeOK, InRangeAlways, BackoffCannotWrap, FairUse, BudgetKept, OneRecord,
              Governed

(* begin() leaves an interval in range, whatever it could read. *)
LEMMA BootIInv ==
  ASSUME IInv, Boot
  PROVE  IInv'
  <1>0. PICK c \in ConfigBegin(flash) :
          \E r \in PersistBootCount(c, flash) :
            cfg' = r.cfg /\ flash' = r.flash /\ engaged' = c.bit
    BY DEF Boot
  <1>1. PICK r \in PersistBootCount(c, flash) :
          cfg' = r.cfg /\ flash' = r.flash /\ engaged' = c.bit
    BY <1>0
  <1>2. c \in Members /\ InRange(c.interval) /\ c.bit \in BOOLEAN
    BY <1>0, BeginFacts DEF IInv, TypeOK, Members
  <1>3. /\ cfg' \in Members
        /\ InRange(cfg'.interval)
        /\ flash' \in SUBSET Record
        /\ flash' = flash \/ flash' = {Stored(cfg')}
    BY <1>1, <1>2, PersistFacts DEF IInv, TypeOK
  <1>4. OneRecord(flash')
    BY <1>3 DEF OneRecord, IInv
  <1> QED BY <1>1, <1>2, <1>3, <1>4
          DEF Boot, IInv, TypeOK, InRangeAlways, BackoffCannotWrap, FairUse, BudgetKept, OneRecord,
              Governed

\* What the top of the loop does, for the invariant and for the properties.
Woken(held) ==
  \E b, r :
    /\ b.ok \in BOOLEAN /\ r.ok \in BOOLEAN
    /\ b.cfg \in Members /\ b.flash \in SUBSET Record /\ OneRecord(b.flash)
    /\ b.cfg.interval = cfg.interval
    /\ b.flash # flash => b.cfg.bit # cfg.bit
    /\ b.flash = flash \/ b.flash = {Stored(b.cfg)}
    /\ Settled(b.cfg, b.flash, r)
    /\ cfg' = r.cfg
    /\ flash' = r.flash
    /\ r.cfg.bit = b.cfg.bit
    /\ \/ /\ MayRetry(held)
          /\ r.ok => r.cfg.interval = pending.value
          /\ ~r.ok => r.cfg = b.cfg /\ r.flash = b.flash
          /\ pending' = AfterRetry(r.ok)
          /\ tries' \in {tries, tries + 1}
       \/ /\ r.cfg = b.cfg
          /\ r.flash = b.flash
          /\ pending' = pending
          /\ tries' = tries

(* The two saves of a wake-up, in order. *)
LEMMA WakeFacts ==
  ASSUME IInv, NEW held \in BOOLEAN, NEW persisted \in BOOLEAN, WakeUp(held, persisted)
  PROVE  Woken(held)
  <1>0. cfg \in Members /\ flash \in SUBSET Record /\ OneRecord(flash)
        /\ pending.value \in Nat
    BY DEF IInv, TypeOK
  <1>1. PICK b \in IF persisted THEN SetBrownoutEngaged(cfg, flash, held)
                   ELSE {Result(TRUE, cfg, flash)} :
          IF MayRetry(held)
          THEN \E r \in SetInterval(b.cfg, b.flash, pending.value) :
                 /\ cfg' = r.cfg
                 /\ flash' = r.flash
                 /\ pending' = AfterRetry(r.ok)
                 /\ tries' = IF Writes(b.cfg, pending.value) THEN tries + 1 ELSE tries
          ELSE /\ cfg' = b.cfg
               /\ flash' = b.flash
               /\ UNCHANGED <<pending, tries>>
    BY DEF WakeUp
  <1>2. /\ Settled(cfg, flash, b)
        /\ b.cfg.interval = cfg.interval
        /\ b.flash # flash => b.cfg.bit # cfg.bit
    <2>1. CASE persisted
      BY <1>0, <1>1, <2>1, SetBrownoutFacts
    <2>2. CASE ~persisted
      <3>1. b.ok = TRUE /\ b.cfg = cfg /\ b.flash = flash
        BY <1>1, <2>2 DEF Result
      <3> QED BY <1>0, <3>1 DEF Settled
    <2> QED BY <2>1, <2>2
  <1>3. /\ b.ok \in BOOLEAN /\ b.cfg \in Members /\ b.flash \in SUBSET Record
        /\ OneRecord(b.flash)
        /\ b.flash = flash \/ b.flash = {Stored(b.cfg)}
    BY <1>0, <1>2 DEF Settled, OneRecord
  <1>4. CASE MayRetry(held)
    <2>1. PICK r \in SetInterval(b.cfg, b.flash, pending.value) :
                 /\ cfg' = r.cfg
                 /\ flash' = r.flash
                 /\ pending' = AfterRetry(r.ok)
                 /\ tries' = IF Writes(b.cfg, pending.value) THEN tries + 1 ELSE tries
      BY <1>1, <1>4
    <2>2. /\ Settled(b.cfg, b.flash, r)
          /\ r.ok => r.cfg.interval = pending.value
          /\ ~r.ok => r.cfg = b.cfg /\ r.flash = b.flash
          /\ r.cfg.bit = b.cfg.bit
      BY <1>0, <1>3, <2>1, SetIntervalFacts
    <2>3. r.ok \in BOOLEAN /\ tries' \in {tries, tries + 1}
      BY <2>1, <2>2 DEF Settled
    <2> QED BY <1>2, <1>3, <1>4, <2>1, <2>2, <2>3 DEF Woken
  <1>5. CASE ~MayRetry(held)
    <2>1. cfg' = b.cfg /\ flash' = b.flash /\ pending' = pending /\ tries' = tries
      BY <1>1, <1>5
    <2>2. Settled(b.cfg, b.flash, b)
      BY <1>3 DEF Settled
    <2> QED BY <1>2, <1>3, <2>1, <2>2 DEF Woken
  <1> QED BY <1>4, <1>5

(* A wake-up's two saves preserve the invariant: a retry spends one of its budget. *)
LEMMA WakeUpIInv ==
  ASSUME IInv, NEW held \in BOOLEAN, NEW persisted \in BOOLEAN, WakeUp(held, persisted)
  PROVE  IInv' /\ InForce' = InForce
  <1>0. /\ cfg \in Members /\ InRange(cfg.interval)
        /\ pending \in [value : Nat, left : 0..WriteAttempts]
        /\ pending.value \in Nat /\ pending.left \in Nat /\ tries \in Nat
        /\ pending.value # 0 => InRange(pending.value)
        /\ pending.value # 0 => tries + pending.left <= WriteAttempts + 1
        /\ WriteAttempts \in Nat
    BY IntervalAssumption DEF IntervalAssumption, IInv, TypeOK, InRangeAlways, BudgetKept
  <1>1. Woken(held)
    BY WakeFacts
  <1>2. PICK b, r :
    /\ b.ok \in BOOLEAN /\ r.ok \in BOOLEAN
    /\ b.cfg \in Members /\ b.flash \in SUBSET Record /\ OneRecord(b.flash)
    /\ b.cfg.interval = cfg.interval
    /\ b.flash # flash => b.cfg.bit # cfg.bit
    /\ b.flash = flash \/ b.flash = {Stored(b.cfg)}
    /\ Settled(b.cfg, b.flash, r)
    /\ cfg' = r.cfg
    /\ flash' = r.flash
    /\ r.cfg.bit = b.cfg.bit
    /\ \/ /\ MayRetry(held)
          /\ r.ok => r.cfg.interval = pending.value
          /\ ~r.ok => r.cfg = b.cfg /\ r.flash = b.flash
          /\ pending' = AfterRetry(r.ok)
          /\ tries' \in {tries, tries + 1}
       \/ /\ r.cfg = b.cfg
          /\ r.flash = b.flash
          /\ pending' = pending
          /\ tries' = tries
    BY <1>1 DEF Woken
  <1>3. cfg' \in Members /\ flash' \in SUBSET Record /\ OneRecord(flash')
    BY <1>2, SettledOneRecord DEF Settled
  <1>4. /\ pending' \in [value : Nat, left : 0..WriteAttempts]
        /\ tries' \in Nat
        /\ InRange(cfg'.interval)
        /\ pending'.value # 0 => InRange(pending'.value)
        /\ tries' <= WriteAttempts + 1
        /\ pending'.value # 0 => tries' + pending'.left <= WriteAttempts + 1
        /\ InForce' = InForce
    <2>1. CASE pending' = pending /\ tries' = tries /\ r.cfg = b.cfg
      BY <1>0, <1>2, <2>1 DEF InForce, IInv, BudgetKept
    <2>2. CASE /\ MayRetry(held)
               /\ r.ok => r.cfg.interval = pending.value
               /\ ~r.ok => r.cfg = b.cfg
               /\ pending' = AfterRetry(r.ok)
               /\ tries' \in {tries, tries + 1}
      <3>1. pending.value # 0 /\ pending.left > 0
        BY <2>2 DEF MayRetry
      <3>2. /\ pending' \in [value : Nat, left : 0..WriteAttempts]
            /\ pending'.left = pending.left - 1
            /\ pending'.value = IF r.ok THEN 0 ELSE pending.value
        BY <1>2, <2>2, <3>1, PendingFacts
      <3>3. tries' \in Nat /\ tries' + pending'.left <= WriteAttempts + 1
            /\ tries' <= WriteAttempts + 1
        BY <1>0, <2>2, <3>1, <3>2
      <3> QED BY <1>0, <1>2, <2>2, <3>1, <3>2, <3>3 DEF InForce
    <2> QED BY <1>2, <2>1, <2>2
  <1>5. sleepFor' \in Nat /\ sleepFor' \in IntervalMin..IntervalMax
    <2>1. cfg'.interval \in Nat /\ pending'.value \in Nat
      BY <1>3, <1>4 DEF Members
    <2> QED BY <1>4, <2>1, IntervalAssumption
            DEF IntervalAssumption, WakeUp, InForce, InRange
  <1> QED BY <1>3, <1>4, <1>5
          DEF WakeUp, IInv, TypeOK, InRangeAlways, BackoffCannotWrap, FairUse, BudgetKept, Governed

(* A format leaves one record or none, and the interval in force alone. *)
LEMMA RebuildFacts ==
  ASSUME IInv, Rebuild
  PROVE  /\ cfg' \in Members
         /\ cfg'.interval = cfg.interval
         /\ flash' = {} \/ flash' = {Stored(cfg')}
  <1> DEFINE d == [cfg EXCEPT !.mounted = TRUE]
  <1>1. d \in Members /\ d.interval = cfg.interval /\ cfg \in Members
    BY DEF IInv, TypeOK, Members
  <1>2. \/ \E r \in Save(d, {}) : cfg' = r.cfg /\ flash' = r.flash
        \/ flash' = {} /\ cfg' = cfg
    BY DEF Rebuild
  <1> HIDE DEF d
  <1>3. ASSUME NEW r \in Save(d, {}), cfg' = r.cfg, flash' = r.flash
        PROVE  cfg' \in Members /\ cfg'.interval = d.interval
               /\ (flash' = {} \/ flash' = {Stored(cfg')})
    <2>1. {} \in SUBSET Record
      OBVIOUS
    <2> QED BY <1>1, <1>3, <2>1, SaveFacts
  <1> QED BY <1>1, <1>2, <1>3

(* So the invariant survives a format. *)
LEMMA RebuildIInv ==
  ASSUME IInv, Rebuild
  PROVE  IInv' /\ InForce' = InForce
  <1>1. /\ cfg' \in Members
        /\ cfg'.interval = cfg.interval
        /\ flash' = {} \/ flash' = {Stored(cfg')}
    BY RebuildFacts
  <1>2. flash' \in SUBSET Record /\ OneRecord(flash')
    BY <1>1, StoredFacts DEF OneRecord
  <1>3. /\ phase' = phase /\ pending' = pending /\ engaged' = engaged /\ doubled' = doubled
        /\ sleepFor' = sleepFor /\ asked' = asked /\ dropped' = dropped /\ tries' = tries
        /\ booted' = booted
    BY DEF Rebuild
  <1> QED BY <1>1, <1>2, <1>3
          DEF IInv, TypeOK, InRangeAlways, BackoffCannotWrap, FairUse, BudgetKept, InForce,
              Governed

(* What an accepted command leaves: stored, or pending with its whole budget. *)
LEMMA AcceptedFacts ==
  ASSUME IInv, NEW v \in Nat, InRange(v), Accepted(v)
  PROVE  /\ cfg' \in Members
         /\ InRange(cfg'.interval)
         /\ flash' \in SUBSET Record
         /\ OneRecord(flash')
         /\ \/ flash' = flash /\ cfg' = cfg
            \/ flash' = {Stored(cfg')} /\ ~engaged
         /\ pending' \in {NothingPending, [value |-> v, left |-> WriteAttempts]}
         /\ InForce' = v
         /\ sleepFor' = v
  <1>0. cfg \in Members /\ flash \in SUBSET Record /\ OneRecord(flash) /\ InRange(cfg.interval)
    BY DEF IInv, TypeOK, InRangeAlways
  <1>1. CASE /\ ~engaged
             /\ \E r \in SetInterval(cfg, flash, v) : r.ok /\ cfg' = r.cfg /\ flash' = r.flash
             /\ pending' = NothingPending
             /\ sleepFor' = cfg'.interval
    <2>1. PICK r \in SetInterval(cfg, flash, v) : r.ok /\ cfg' = r.cfg /\ flash' = r.flash
      BY <1>1
    <2>2. Settled(cfg, flash, r) /\ r.cfg.interval = v
      BY <1>0, <2>1, SetIntervalFacts
    <2>3. OneRecord(r.flash)
      BY <1>0, <2>2, SettledOneRecord
    <2>4. cfg'.interval = v /\ InForce' = v
      BY <1>1, <2>1, <2>2 DEF InForce, NothingPending
    <2> QED BY <1>1, <2>1, <2>2, <2>3, <2>4 DEF Settled
  <1>2. CASE /\ pending' = [value |-> v, left |-> WriteAttempts]
             /\ sleepFor' = v
             /\ UNCHANGED <<cfg, flash>>
    <2>1. cfg' = cfg /\ flash' = flash
      BY <1>2
    <2>2. pending' \in {NothingPending, [value |-> v, left |-> WriteAttempts]}
      BY <1>2
    <2>3. OneRecord(flash')
      BY <1>0, <2>1
    <2>4. InForce' = v
      <3>1. v # 0
        BY IntervalAssumption DEF IntervalAssumption, InRange
      <3> QED BY <1>2, <3>1 DEF InForce
    <2> QED BY <1>0, <1>2, <2>1, <2>2, <2>3, <2>4
  <1> QED BY <1>1, <1>2 DEF Accepted

(* A set-interval command preserves it, accepted or ignored. *)
LEMMA SetIntervalHeardIInv ==
  ASSUME IInv, NEW v \in Requests, SetIntervalHeard(v)
  PROVE  IInv'
  <1>0. /\ v \in Nat /\ WriteAttempts \in Nat /\ IntervalMin \in Nat \ {0} /\ IntervalMax \in Nat
        /\ 0 < 2 * BackoffMax
    BY IntervalAssumption DEF IntervalAssumption
  <1>1. NothingPending \in [value : Nat, left : 0..WriteAttempts] /\ NothingPending.value = 0
    BY <1>0 DEF NothingPending
  <1>2. CASE InRange(v) /\ Accepted(v) /\ asked' = v /\ dropped' = FALSE
             /\ tries' = IF ~engaged /\ Writes(cfg, v) THEN 1 ELSE 0
    <2>1. /\ cfg' \in Members
          /\ InRange(cfg'.interval)
          /\ flash' \in SUBSET Record
          /\ OneRecord(flash')
          /\ pending' \in {NothingPending, [value |-> v, left |-> WriteAttempts]}
          /\ InForce' = v
          /\ sleepFor' = v
      BY <1>0, <1>2, AcceptedFacts
    <2>2. /\ pending' \in [value : Nat, left : 0..WriteAttempts]
          /\ pending'.value # 0 => InRange(pending'.value) /\ pending'.left = WriteAttempts
      BY <1>0, <1>1, <1>2, <2>1
    <2>3. tries' \in {0, 1}
      BY <1>2
    <2>4. v \in IntervalMin..IntervalMax
      BY <1>0, <1>2 DEF InRange
    <2>5. tries' <= WriteAttempts + 1
          /\ (pending'.value # 0 => tries' + pending'.left <= WriteAttempts + 1)
      BY <1>0, <2>2, <2>3
    <2>6. Governed'
      BY <1>2, <2>1 DEF SetIntervalHeard, Governed
    <2> QED BY <1>0, <1>2, <2>1, <2>2, <2>3, <2>4, <2>5, <2>6
            DEF SetIntervalHeard, IInv, TypeOK, InRangeAlways, BackoffCannotWrap, FairUse, BudgetKept
  <1>3. CASE /\ pending' = NothingPending
             /\ dropped' = (dropped \/ pending.value # 0)
             /\ UNCHANGED <<cfg, flash, sleepFor, asked, tries>>
    <2>1. dropped' \in BOOLEAN
      BY <1>3
    <2>2. InForce' = cfg.interval
      BY <1>1, <1>3 DEF InForce
    <2>3. Governed'
      BY <1>3, <2>2 DEF SetIntervalHeard, IInv, Governed, InForce
    <2> QED BY <1>0, <1>1, <1>3, <2>1, <2>3
            DEF SetIntervalHeard, IInv, TypeOK, InRangeAlways, BackoffCannotWrap, FairUse, BudgetKept,
                OneRecord
  <1> QED BY <1>2, <1>3 DEF SetIntervalHeard

(* A status request preserves it: it only shortens one sleep, within bounds. *)
LEMMA StatusHeardIInv ==
  ASSUME IInv, StatusHeard
  PROVE  IInv'
  <1>0. /\ IntervalMin \in IntervalMin..IntervalMax /\ IntervalMin \in Nat
        /\ 0 < 2 * BackoffMax
    BY IntervalAssumption DEF IntervalAssumption
  <1> QED BY <1>0
          DEF StatusHeard, IInv, TypeOK, InRangeAlways, BackoffCannotWrap, FairUse, BudgetKept,
              OneRecord, Governed, InForce

(* The doubling starts at the floor, stops past the ceiling, and is clamped to it. *)
LEMMA NothingHeardIInv ==
  ASSUME IInv, NothingHeard
  PROVE  IInv'
  <1>0. /\ IntervalMin \in Nat \ {0} /\ IntervalMax \in Nat
        /\ BackoffFirst \in Nat /\ IntervalMin <= BackoffFirst
        /\ BackoffMax \in Nat /\ BackoffFirst <= BackoffMax /\ BackoffMax <= IntervalMax
        /\ doubled \in Nat /\ doubled < 2 * BackoffMax
        /\ doubled # 0 => BackoffFirst <= doubled
        /\ sleepFor \in Nat
    BY IntervalAssumption DEF IntervalAssumption, IInv, TypeOK, BackoffCannotWrap, InRangeAlways
  <1>1. /\ doubled' \in Nat
        /\ doubled' < 2 * BackoffMax
        /\ doubled' # 0 => BackoffFirst <= doubled'
    BY <1>0 DEF NothingHeard, Double
  <1>2. sleepFor' \in Nat /\ (sleepFor' # 0 => sleepFor' \in IntervalMin..IntervalMax)
    <2>1. CASE doubled' = 0
      BY <1>0, <2>1 DEF NothingHeard, IInv, FairUse
    <2>2. CASE doubled' # 0
      <3>1. sleepFor' = IF doubled' > BackoffMax THEN BackoffMax ELSE doubled'
        BY <2>2 DEF NothingHeard, Backoff
      <3> QED BY <1>0, <1>1, <2>2, <3>1
    <2> QED BY <2>1, <2>2
  <1> QED BY <1>1, <1>2
          DEF NothingHeard, IInv, TypeOK, InRangeAlways, BackoffCannotWrap, FairUse, BudgetKept,
              OneRecord, Governed, InForce

(* Every step preserves the invariant. *)
LEMMA Preserved == IInv /\ [Next]_vars => IInv'
  <1> SUFFICES ASSUME IInv, [Next]_vars PROVE IInv'
    OBVIOUS
  <1>1. CASE Reset
    BY <1>1, ResetIInv
  <1>2. CASE Boot
    BY <1>2, BootIInv
  <1>3. ASSUME NEW held \in BOOLEAN, NEW persisted \in BOOLEAN, WakeUp(held, persisted)
        PROVE  IInv'
    BY <1>3, WakeUpIInv
  <1>4. CASE Rebuild
    BY <1>4, RebuildIInv
  <1>5. ASSUME NEW v \in Requests, SetIntervalHeard(v) PROVE IInv'
    BY <1>5, SetIntervalHeardIInv
  <1>6. CASE StatusHeard
    BY <1>6, StatusHeardIInv
  <1>7. CASE NothingHeard
    BY <1>7, NothingHeardIInv
  <1>8. CASE UNCHANGED vars
    BY <1>8 DEF vars, IInv, TypeOK, InRangeAlways, BackoffCannotWrap, FairUse, BudgetKept,
                OneRecord, Governed, InForce
  <1> QED BY <1>1, <1>2, <1>3, <1>4, <1>5, <1>6, <1>7, <1>8 DEF Next

(* The inductive invariant is one. *)
THEOREM Inductive == Spec => []IInv
  BY InitIInv, Preserved, PTL DEF Spec

-----------------------------------------------------------------------------
(* The theorems *)

(* Every variable keeps its type. *)
THEOREM TypeCorrect == Spec => []TypeOK
  <1>1. IInv => TypeOK
    BY DEF IInv
  <1> QED BY <1>1, Inductive, PTL

(* Every sleep the node takes is within the bounds the network's fair use sets. *)
THEOREM SleepsAreFair == Spec => []FairUse
  <1>1. IInv => FairUse
    BY DEF IInv
  <1> QED BY <1>1, Inductive, PTL

(* The doubling of the backoff stays below twice its ceiling. *)
THEOREM BackoffIsBounded == Spec => []BackoffCannotWrap
  <1>1. IInv => BackoffCannotWrap
    BY DEF IInv
  <1> QED BY <1>1, Inductive, PTL

(* A command costs at most its own write and WriteAttempts retries. *)
THEOREM WritesAreBounded == Spec => []RetriesAreBounded
  <1>1. IInv => RetriesAreBounded
    BY DEF IInv, BudgetKept, RetriesAreBounded
  <1> QED BY <1>1, Inductive, PTL

(* Retries and repairs leave the cadence in force alone. *)
THEOREM CadenceSurvivesRetries == Spec => RetryKeepsCadence
  <1>1. IInv /\ [Next]_vars => [phase' = "uplink" => InForce' = InForce]_vars
    <2> SUFFICES ASSUME IInv, [Next]_vars, phase' = "uplink" PROVE InForce' = InForce
      OBVIOUS
    <2>1. ASSUME NEW held \in BOOLEAN, NEW persisted \in BOOLEAN, WakeUp(held, persisted)
          PROVE  InForce' = InForce
      BY <2>1, WakeUpIInv
    <2>2. CASE Rebuild
      BY <2>2, RebuildIInv
    <2>3. CASE UNCHANGED vars
      BY <2>3 DEF vars, InForce
    <2> QED BY <2>1, <2>2, <2>3 DEF Next, Reset, Boot, SetIntervalHeard, StatusHeard, NothingHeard
  <1> QED BY <1>1, Inductive, PTL DEF Spec, RetryKeepsCadence

(* A command governs every sleep until a reset, stored or not, but where a backoff or
   a status request overrides it. *)
THEOREM CommandsGovern == Spec => CommandGovernsSleeps
  <1>1. IInv /\ [Next]_vars =>
          [phase = "uplink" /\ phase' = "idle" /\ asked' # 0 /\ ~dropped'
             => \/ sleepFor' = asked'
                \/ doubled' # 0
                \/ StatusHeard]_vars
    <2> SUFFICES ASSUME IInv, [Next]_vars, phase = "uplink", phase' = "idle", asked' # 0, ~dropped',
                        doubled' = 0, ~StatusHeard
                 PROVE  sleepFor' = asked'
      OBVIOUS
    <2>1. sleepFor = InForce /\ (asked # 0 /\ ~dropped => InForce = asked)
      BY DEF IInv, Governed
    <2>2. ASSUME NEW v \in Requests, SetIntervalHeard(v) PROVE sleepFor' = asked'
      <3>1. CASE InRange(v) /\ Accepted(v) /\ asked' = v
        BY <3>1, AcceptedFacts, IntervalAssumption DEF IntervalAssumption
      <3>2. CASE /\ dropped' = (dropped \/ pending.value # 0)
                 /\ UNCHANGED <<sleepFor, asked>>
        BY <2>1, <3>2
      <3> QED BY <2>2, <3>1, <3>2 DEF SetIntervalHeard
    <2>3. CASE NothingHeard
      BY <2>1, <2>3 DEF NothingHeard
    <2> QED BY <2>2, <2>3 DEF Next, vars, Reset, Boot, WakeUp, Rebuild
  <1> QED BY <1>1, Inductive, PTL DEF Spec, CommandGovernsSleeps

(* Under a hold the record changes only to store the hold. *)
THEOREM HeldRecordStays == Spec => HeldRecordIsQuiet
  <1>1. IInv /\ [Next]_vars =>
          [engaged' /\ flash' # flash => phase = "idle" /\ cfg'.bit # cfg.bit]_vars
    <2> SUFFICES ASSUME IInv, [Next]_vars, engaged', flash' # flash
                 PROVE  phase = "idle" /\ cfg'.bit # cfg.bit
      OBVIOUS
    <2>1. ~Boot
      <3> SUFFICES ASSUME Boot PROVE FALSE
        OBVIOUS
      <3>1. PICK c \in ConfigBegin(flash) :
              \E r \in PersistBootCount(c, flash) : flash' = r.flash /\ engaged' = c.bit
        BY DEF Boot
      <3>2. PICK r \in PersistBootCount(c, flash) : flash' = r.flash /\ engaged' = c.bit
        BY <3>1
      <3>3. c \in Members
        BY <3>1, BeginFacts DEF IInv, TypeOK
      <3>4. r.flash = flash \/ ~c.bit
        BY <3>2, <3>3, PersistFacts DEF IInv, TypeOK
      <3> QED BY <3>2, <3>4
    <2>2. ASSUME NEW held \in BOOLEAN, NEW persisted \in BOOLEAN, WakeUp(held, persisted)
          PROVE  phase = "idle" /\ cfg'.bit # cfg.bit
      <3>1. engaged' = held /\ phase = "idle"
        BY <2>2 DEF WakeUp
      <3>2. ~MayRetry(held)
        BY <3>1 DEF MayRetry
      <3>3. Woken(held)
        BY <2>2, WakeFacts
      <3>4. cfg'.bit # cfg.bit
        BY <3>2, <3>3 DEF Woken
      <3> QED BY <3>1, <3>4
    <2>3. ASSUME NEW v \in Requests, SetIntervalHeard(v) PROVE FALSE
      <3>1. engaged
        BY <2>3 DEF SetIntervalHeard
      <3> QED BY <2>3, <3>1 DEF SetIntervalHeard, Accepted
    <2> QED BY <2>1, <2>2, <2>3 DEF Next, vars, Reset, Rebuild, StatusHeard, NothingHeard
  <1> QED BY <1>1, Inductive, PTL DEF Spec, HeldRecordIsQuiet

(* What a record restores is its interval, when that is in range. *)
LEMMA RestoredFacts ==
  ASSUME NEW c \in Members, InRange(c.interval)
  PROVE  Restored({Stored(c)}) = c.interval
  <1>1. Stored(c).interval = c.interval
    BY StoredFacts
  <1>2. (CHOOSE r \in {Stored(c)} : TRUE) = Stored(c)
    OBVIOUS
  <1> QED BY <1>1, <1>2 DEF Restored

(* Config and a reset agree, outside a boot that cannot read and a format that
   loses the record. *)
THEOREM ConfigReportsTheRecord == Spec => AgreementKept
  <1>1. IInv /\ [Next]_vars =>
          [Agrees /\ ~Agrees' => phase = "reset" \/ phase' = "reset" \/ flash' = {}]_vars
    <2> SUFFICES ASSUME IInv, [Next]_vars, Agrees, phase # "reset", phase' # "reset", flash' # {}
                 PROVE  Agrees'
      OBVIOUS
    <2>0. flash' = {Stored(cfg')} \/ (flash' = flash /\ cfg'.interval = cfg.interval)
      <3>1. ASSUME NEW held \in BOOLEAN, NEW persisted \in BOOLEAN, WakeUp(held, persisted)
            PROVE  flash' = {Stored(cfg')} \/ (flash' = flash /\ cfg'.interval = cfg.interval)
        BY <3>1, WakeFacts DEF Woken, Settled
      <3>2. CASE Rebuild
        BY <3>2, RebuildFacts
      <3>3. ASSUME NEW v \in Requests, SetIntervalHeard(v)
            PROVE  flash' = {Stored(cfg')} \/ (flash' = flash /\ cfg'.interval = cfg.interval)
        <4>1. CASE InRange(v) /\ Accepted(v)
          BY <4>1, AcceptedFacts, IntervalAssumption DEF IntervalAssumption
        <4>2. CASE UNCHANGED <<cfg, flash>>
          BY <4>2
        <4> QED BY <3>3, <4>1, <4>2 DEF SetIntervalHeard
      <3> QED BY <3>1, <3>2, <3>3 DEF Next, vars, Reset, Boot, StatusHeard, NothingHeard
    <2>1. IInv'
      BY Preserved
    <2>2. cfg' \in Members /\ InRange(cfg'.interval)
      BY <2>1 DEF IInv, TypeOK, InRangeAlways
    <2>3. CASE flash' = {Stored(cfg')}
      BY <2>2, <2>3, RestoredFacts DEF Agrees
    <2>4. CASE flash' = flash /\ cfg'.interval = cfg.interval
      BY <2>4 DEF Agrees
    <2> QED BY <2>0, <2>3, <2>4
  <1> QED BY <1>1, Inductive, PTL DEF Spec, AgreementKept
=============================================================================
