------------------------------ MODULE Interval ------------------------------
(***************************************************************************)
(* The reporting interval: Config's record in flash (config.cpp), the      *)
(* command that a brownout hold or a failed write keeps pending in RAM     *)
(* (main.cpp), and the sleep that each cycle chooses from them.            *)
(*                                                                         *)
(* The brownout bit shares the record, so saving one field writes all of   *)
(* them; when the gate changes and when it is persisted is the Brownout    *)
(* module's subject and an input here.  An operator that models a method   *)
(* of Config returns the SET of its possible results: a write may fail at  *)
(* every call.  Power may be lost between any two steps; what it leaves in *)
(* the middle of one is what the remaining writes leave when they fail.    *)
(***************************************************************************)
EXTENDS Naturals

CONSTANTS
  IntervalMin,       \* kIntervalMinSeconds (900)
  IntervalMax,       \* kIntervalMaxSeconds (86400)
  IntervalDefault,   \* kIntervalDefaultSeconds (3600)
  BootPersistEvery,  \* kBootPersistEvery (8)
  WriteAttempts,     \* kPendingIntervalWriteAttempts (3)
  BackoffFirst,      \* kBackoffFirstSeconds (900)
  BackoffMax,        \* kBackoffMaxSeconds (3600)
  Requests,          \* bound: the seconds a set-interval downlink may carry
  MaxBoots,          \* bound: boots
  FlashFails         \* whether mounts, reads, writes and formats may fail

ASSUME IntervalAssumption ==
  /\ IntervalMin \in Nat \ {0}
  /\ IntervalMax \in Nat
  /\ IntervalDefault \in IntervalMin..IntervalMax
  /\ BootPersistEvery \in Nat \ {0}
  /\ WriteAttempts \in Nat
  /\ BackoffFirst \in Nat
  /\ IntervalMin <= BackoffFirst          \* asserted at radio.cpp:80
  /\ BackoffMax \in BackoffFirst..IntervalMax
  /\ Requests \subseteq Nat
  /\ MaxBoots \in Nat
  /\ FlashFails \in BOOLEAN

VARIABLES
  phase,     \* "reset", "idle" between cycles, "uplink" until the cycle sleeps
  flash,     \* Config's record, if there is one
  cfg,       \* Config's members; due is m_boot_write_pending
  pending,   \* main.cpp: [value, left]; value 0 means nothing is pending
  engaged,   \* the brownout hold: flash_write_allowed() is its negation
  doubled,   \* m_failures, as the seconds it has doubled to; 0 for no failure
  sleepFor,  \* the sleep this cycle has chosen; 0 before the first
  asked,     \* history: the last in-range interval commanded since boot, or 0
  dropped,   \* history: an invalid command has dropped that one before it was saved
  tries,     \* history: writes attempted for the command heard last
  booted     \* history: boots of the device

vars == <<phase, flash, cfg, pending, engaged, doubled, sleepFor, asked, dropped, tries,
          booted>>

Record == [interval : Nat, boots : Nat, bit : BOOLEAN]
Members == [mounted : BOOLEAN, interval : Nat, boots : Nat, bit : BOOLEAN, due : BOOLEAN]

\* A definition named Mutant... is a bug this code could have had: it is used
\* nowhere, and the runs must find what it breaks in place of the one after it.
MutantInRange(seconds) == seconds <= IntervalMax

InRange(seconds) == IntervalMin <= seconds /\ seconds <= IntervalMax

-----------------------------------------------------------------------------
(* config.cpp *)

Result(ok, c, f) == [ok |-> ok, cfg |-> c, flash |-> f]

Stored(c) == [interval |-> c.interval, boots |-> c.boots, bit |-> c.bit]

\* save(): every write takes the whole record with it.
Save(c, f) ==
  (IF FlashFails \/ ~c.mounted THEN {Result(FALSE, c, f)} ELSE {})
  \cup (IF c.mounted THEN {Result(TRUE, [c EXCEPT !.due = FALSE], {Stored(c)})} ELSE {})

\* The new value left live after a write that failed.
MutantSetInterval(c, f, seconds) ==
  IF ~InRange(seconds) THEN {Result(FALSE, c, f)}
  ELSE IF seconds = c.interval THEN {Result(TRUE, c, f)}
  ELSE Save([c EXCEPT !.interval = seconds], f)

\* set_interval_seconds(): rolled back when the write does not land.
SetInterval(c, f, seconds) ==
  IF ~InRange(seconds) THEN {Result(FALSE, c, f)}
  ELSE IF seconds = c.interval THEN {Result(TRUE, c, f)}
  ELSE {IF r.ok THEN r ELSE Result(FALSE, c, f) : r \in Save([c EXCEPT !.interval = seconds], f)}

\* A call of SetInterval that goes to flash.
Writes(c, seconds) == InRange(seconds) /\ seconds # c.interval

\* set_brownout_engaged()
SetBrownoutEngaged(c, f, bit) ==
  IF bit = c.bit THEN {Result(TRUE, c, f)}
  ELSE {IF r.ok THEN r ELSE Result(FALSE, c, f) : r \in Save([c EXCEPT !.bit = bit], f)}

\* load(): only the interval of a record is discarded when it is out of range.
Loaded(c, r) ==
  [c EXCEPT !.interval = IF InRange(r.interval) THEN r.interval ELSE IntervalDefault,
            !.boots = r.boots, !.bit = r.bit]

Counted(c) ==
  [c EXCEPT !.boots = @ + 1, !.due = ((c.boots + 1) % BootPersistEvery = 0)]

Defaults ==
  [mounted |-> FALSE, interval |-> IntervalDefault, boots |-> 0, bit |-> FALSE, due |-> FALSE]

\* begin(): the mount may fail, and so may reading the record.
ConfigBegin(f) ==
  LET mounted == [Defaults EXCEPT !.mounted = TRUE]
  IN {Counted(Loaded(mounted, r)) : r \in f}
     \cup (IF FlashFails \/ f = {} THEN {Counted(mounted)} ELSE {})
     \cup (IF FlashFails THEN {Defaults} ELSE {})

\* persist_boot_count_if_due(), under the gate that the stored bit restored.
PersistBootCount(c, f) ==
  IF c.due /\ ~c.bit THEN Save([c EXCEPT !.due = FALSE], f) ELSE {Result(FALSE, c, f)}

\* What a reset would make of the record.
Restored(f) ==
  IF \E r \in f : InRange(r.interval) THEN (CHOOSE r \in f : TRUE).interval ELSE IntervalDefault

-----------------------------------------------------------------------------
(* main.cpp *)

NothingPending == [value |-> 0, left |-> 0]

\* The cadence that governs every cycle that nothing overrides.
InForce == IF pending.value # 0 THEN pending.value ELSE cfg.interval

Init ==
  /\ phase = "reset"
  /\ flash \in {{}} \cup {{[interval |-> i, boots |-> 0, bit |-> FALSE]} : i \in Requests}
  /\ cfg = Defaults
  /\ pending = NothingPending
  /\ engaged = FALSE
  /\ doubled = 0
  /\ sleepFor = 0
  /\ asked = 0
  /\ dropped = FALSE
  /\ tries = 0
  /\ booted = 0

Reset ==
  /\ phase # "reset"
  /\ phase' = "reset"
  /\ cfg' = Defaults
  /\ pending' = NothingPending
  /\ engaged' = FALSE
  /\ doubled' = 0
  /\ sleepFor' = 0
  /\ asked' = 0
  /\ dropped' = FALSE
  /\ tries' = 0
  /\ UNCHANGED <<flash, booted>>

\* setup(): the gate starts from the stored bit.
Boot ==
  /\ phase = "reset"
  /\ booted < MaxBoots
  /\ phase' = "idle"
  /\ booted' = booted + 1
  /\ \E c \in ConfigBegin(flash) : \E r \in PersistBootCount(c, flash) :
       /\ cfg' = r.cfg
       /\ flash' = r.flash
       /\ engaged' = c.bit
  /\ UNCHANGED <<pending, doubled, sleepFor, asked, dropped, tries>>

\* The retry forgetting the command whether or not it landed.
MutantAfterRetry(ok) == NothingPending

\* A failed retry that is not counted: every wake on a broken filesystem writes again.
MutantUncountedRetry(ok) == IF ok THEN NothingPending ELSE pending

\* What the retry leaves pending.
AfterRetry(ok) ==
  IF ok THEN [value |-> 0, left |-> pending.left - 1] ELSE [pending EXCEPT !.left = @ - 1]

\* A retry that the hold does not stop.
MutantMayRetryHeld(held) == pending.value # 0 /\ pending.left > 0

MayRetry(held) == pending.value # 0 /\ pending.left > 0 /\ ~held

\* The top of loop(): the gate follows the reading and may have to be persisted,
\* then a pending interval is retried, then the sleep is chosen.
WakeUp(held, persisted) ==
  /\ phase = "idle"
  /\ phase' = "uplink"
  /\ engaged' = held
  /\ \E b \in IF persisted THEN SetBrownoutEngaged(cfg, flash, held) ELSE {Result(TRUE, cfg, flash)} :
       IF MayRetry(held)
       THEN \E r \in SetInterval(b.cfg, b.flash, pending.value) :
              /\ cfg' = r.cfg
              /\ flash' = r.flash
              /\ pending' = AfterRetry(r.ok)
              /\ tries' = IF Writes(b.cfg, pending.value) THEN tries + 1 ELSE tries
       ELSE /\ cfg' = b.cfg
            /\ flash' = b.flash
            /\ UNCHANGED <<pending, tries>>
  /\ sleepFor' = InForce'
  /\ UNCHANGED <<doubled, asked, dropped, booted>>

\* The session repairs a filesystem that failed it: the format erases the record,
\* and the RAM values are written back.  A format that fails may have erased it too.
Rebuild ==
  /\ FlashFails
  /\ phase = "uplink"
  /\ ~engaged
  /\ \/ \E r \in Save([cfg EXCEPT !.mounted = TRUE], {}) : cfg' = r.cfg /\ flash' = r.flash
     \/ flash' = {} /\ UNCHANGED cfg
  /\ UNCHANGED <<phase, pending, engaged, doubled, sleepFor, asked, dropped, tries, booted>>

\* The command saved, and the one it supersedes left pending: once spent, that one
\* would govern every later cycle.
MutantAccepted(v) ==
  \/ /\ ~engaged
     /\ \E r \in SetInterval(cfg, flash, v) :
          /\ r.ok
          /\ cfg' = r.cfg
          /\ flash' = r.flash
     /\ sleepFor' = cfg'.interval
     /\ UNCHANGED pending
  \/ /\ engaged \/ \E r \in SetInterval(cfg, flash, v) : ~r.ok
     /\ pending' = [value |-> v, left |-> WriteAttempts]
     /\ sleepFor' = v
     /\ UNCHANGED <<cfg, flash>>

\* An in-range command: saved, and the sleep read back from Config; or live in RAM
\* and retried when the gate or the flash will not take it now.
Accepted(v) ==
  \/ /\ ~engaged
     /\ \E r \in SetInterval(cfg, flash, v) :
          /\ r.ok
          /\ cfg' = r.cfg
          /\ flash' = r.flash
     /\ pending' = NothingPending
     /\ sleepFor' = cfg'.interval
  \/ /\ engaged \/ \E r \in SetInterval(cfg, flash, v) : ~r.ok
     /\ pending' = [value |-> v, left |-> WriteAttempts]
     /\ sleepFor' = v
     /\ UNCHANGED <<cfg, flash>>

\* A set-interval downlink after an uplink that went out.
SetIntervalHeard(v) ==
  /\ phase = "uplink"
  /\ phase' = "idle"
  /\ doubled' = 0
  /\ \/ /\ InRange(v)
        /\ Accepted(v)
        /\ asked' = v
        /\ dropped' = FALSE
        /\ tries' = IF ~engaged /\ Writes(cfg, v) THEN 1 ELSE 0
     \/ /\ ~InRange(v)
        /\ pending' = NothingPending
        /\ dropped' = (dropped \/ pending.value # 0)
        /\ UNCHANGED <<cfg, flash, sleepFor, asked, tries>>
  /\ UNCHANGED <<engaged, booted>>

\* A request-status downlink: the next cycle's uplink is the answer.
StatusHeard ==
  /\ phase = "uplink"
  /\ phase' = "idle"
  /\ doubled' = 0
  /\ sleepFor' = IntervalMin
  /\ UNCHANGED <<flash, cfg, pending, engaged, asked, dropped, tries, booted>>

\* The doubling without its bound, which was once taken for a second clamp.
MutantDouble(seconds) == IF seconds = 0 THEN BackoffFirst ELSE 2 * seconds

\* One more failure, as backoff_seconds() counts it: doubling stops at the ceiling.
Double(seconds) ==
  IF seconds = 0 THEN BackoffFirst ELSE IF seconds < BackoffMax THEN 2 * seconds ELSE seconds

\* backoff_seconds()
Backoff(seconds) == IF seconds > BackoffMax THEN BackoffMax ELSE seconds

\* A cycle that heard nothing: it kept off the radio, it failed to join or to send,
\* or it sent and got no answer.  A backoff still standing overrides the interval.
NothingHeard ==
  /\ phase = "uplink"
  /\ phase' = "idle"
  /\ doubled' \in {doubled, Double(doubled), 0}
  /\ sleepFor' = IF doubled' # 0 THEN Backoff(doubled') ELSE sleepFor
  /\ UNCHANGED <<flash, cfg, pending, engaged, asked, dropped, tries, booted>>

Next ==
  \/ Reset
  \/ Boot
  \/ \E held, persisted \in BOOLEAN : WakeUp(held, persisted)
  \/ Rebuild
  \/ \E v \in Requests : SetIntervalHeard(v)
  \/ StatusHeard
  \/ NothingHeard

Spec == Init /\ [][Next]_vars

-----------------------------------------------------------------------------
(* Properties *)

TypeOK ==
  /\ phase \in {"reset", "idle", "uplink"}
  /\ flash \in SUBSET Record
  /\ cfg \in Members
  /\ pending \in [value : Nat, left : 0..WriteAttempts]
  /\ engaged \in BOOLEAN
  /\ doubled \in Nat
  /\ sleepFor \in Nat
  /\ asked \in Nat
  /\ dropped \in BOOLEAN
  /\ tries \in Nat
  /\ booted \in Nat

\* No route to a sleep reports faster than the fair-use floor or goes quiet for
\* longer than the ceiling: not a stored value older than the floor, not a
\* command, a status request or a backoff.
FairUse == sleepFor # 0 => sleepFor \in IntervalMin..IntervalMax

\* However long the network stays away, the doubling never nears the width it is
\* computed in: a wrapped backoff would end the backing off.
BackoffCannotWrap == doubled < 2 * BackoffMax

\* From the cycle that heard it to the next reset, a command governs every sleep that
\* no backoff and no status request overrides: saved at once or only in RAM, over
\* holds, retries that fail and run out, saves of the gate and formats, and never
\* again the value of a command it superseded.  The one thing that ends it is an
\* invalid command heard before it was saved.
CommandGovernsSleeps ==
  [][phase = "uplink" /\ phase' = "idle" /\ asked' # 0 /\ ~dropped'
       => \/ sleepFor' = asked'
          \/ doubled' # 0
          \/ StatusHeard]_vars

\* Retrying a deferred write, saving the gate and repairing the filesystem never
\* change the cadence in force, whether their writes land or fail.
RetryKeepsCadence == [][phase' = "uplink" => InForce' = InForce]_vars

\* A broken filesystem costs one command at most WriteAttempts writes after its own,
\* over all the wakes, holds and repairs until it is superseded: the writes are counted
\* here as they are made, and by the code in what the command has left.
RetriesAreBounded == tries <= WriteAttempts + 1

\* Under a hold nothing but the hold itself is written: no boot count, no interval.
HeldRecordIsQuiet ==
  [][engaged' /\ flash' # flash => phase = "idle" /\ cfg'.bit # cfg.bit]_vars

\* What Config reports is what a reset would restore.
Agrees == Restored(flash) = cfg.interval

\* Only a boot that could not read the record, or a format that could not write
\* it back, makes Config report what is not stored.
AgreementKept == [][Agrees /\ ~Agrees' => phase = "reset" \/ phase' = "reset" \/ flash' = {}]_vars

-----------------------------------------------------------------------------
(* What the repository says of the program and the code does not do *)

\* FIRMWARE_SPEC 4: an invalid downlink is ignored and the previous interval kept.
InvalidIsIgnored == asked # 0 => InForce = asked

\* config.cpp: the stored count under-reports by at most BootPersistEvery.
BootCountKeepsUp == cfg.mounted => booted <= cfg.boots + BootPersistEvery
=============================================================================
