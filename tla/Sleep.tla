--------------------------------- MODULE Sleep ---------------------------------
(***************************************************************************)
(* power::sleep_seconds() (power.cpp): the radio's bus and the USB pull-up *)
(* go down, the interval passes in slices short enough for 32-bit tick     *)
(* arithmetic, and everything comes back.  Around it, millis(), which      *)
(* wraps after 49 days, and the window after boot in which USB stays up.   *)
(* The host is free: it may open and close the port whenever USB is up.    *)
(***************************************************************************)
EXTENDS Integers

CONSTANTS
  Word,        \* 2^32
  Milli,       \* milliseconds in a second (1000)
  TickRate,    \* configTICK_RATE_HZ (1024)
  Slice,       \* kSleepSliceSeconds (60)
  BootGrace,   \* kBootGraceMs, in seconds (180)
  Wrap,        \* seconds after which millis() wraps (2^32 \div 1000)
  MaxSleep,    \* the longest sleep main.cpp asks for, kMaxIntervalSeconds
  MaxAwake,    \* the longest time awake between two sleeps
  MaxAge       \* bound: seconds since boot explored

ASSUME SleepAssumption ==
  /\ Word \in Nat /\ Milli \in Nat \ {0} /\ TickRate \in Nat \ {0}
  /\ Slice \in Nat \ {0}
  /\ Slice * Milli * TickRate < Word
  /\ BootGrace \in Nat /\ MaxSleep \in Nat /\ MaxAwake \in Nat \ {0}
  /\ Wrap \in Nat
  /\ BootGrace + MaxSleep + MaxAwake < Wrap
  /\ MaxAge \in Nat

VARIABLES
  phase,      \* "awake", or "asleep" inside the wait loop
  clock,      \* millis(), in seconds
  expired,    \* s_boot_grace_expired
  requested,  \* the seconds asked for
  remaining,  \* remaining
  inUse,      \* console_in_use, read once on the way down
  grace,      \* in_boot_grace(), as this sleep saw it
  attached,   \* USB pull-up on
  bus,        \* SPI_LORA on
  open,       \* a host has the port open, what (bool)Serial asks
  age,        \* history: seconds since boot, never wrapping
  rested,     \* history: seconds this sleep has lasted
  busy        \* history: seconds awake since the last sleep

vars == <<phase, clock, expired, requested, remaining, inUse, grace, attached, bus, open,
          age, rested, busy>>

\* The conversion done once for the whole interval.
MutantSliceOf(n) == n

SliceOf(n) == IF n > Slice THEN Slice ELSE n

\* pdMS_TO_TICKS(seconds * 1000), in unsigned 32-bit arithmetic.
Ticks(seconds) == ((seconds * Milli * TickRate) % Word) \div Milli
Waited(seconds) == Ticks(seconds) \div TickRate

Pass(seconds) ==
  /\ age + seconds <= MaxAge
  /\ age' = age + seconds
  /\ clock' = (clock + seconds) % Wrap

\* A grace window computed from millis() each time.
MutantInGrace == clock < BootGrace

\* in_boot_grace(): once closed it stays closed.
InGrace == ~expired /\ clock < BootGrace

-----------------------------------------------------------------------------
(* Awake *)

\* setup() and the cycles' work; the node feeds its watchdog well within MaxAwake.
Work ==
  /\ phase = "awake"
  /\ busy < MaxAwake
  /\ Pass(1)
  /\ busy' = busy + 1
  /\ UNCHANGED <<phase, expired, requested, remaining, inUse, grace, attached, bus, open, rested>>

\* The way down.
SleepSeconds ==
  /\ phase = "awake"
  /\ \E seconds \in 1..MaxSleep : requested' = seconds /\ remaining' = seconds
  /\ rested' = 0
  /\ inUse' = open
  /\ grace' = InGrace
  /\ expired' = (expired \/ ~(clock < BootGrace))
  /\ attached' = (attached /\ (inUse' \/ grace'))
  /\ open' = (open /\ attached')
  /\ bus' = FALSE
  /\ phase' = "asleep"
  /\ UNCHANGED <<clock, age, busy>>

\* One slice of the wait.  Nothing gives the semaphore, so a wait runs out its ticks.
SleepSlice ==
  /\ phase = "asleep"
  /\ remaining > 0
  /\ Pass(Waited(SliceOf(remaining)))
  /\ rested' = rested + Waited(SliceOf(remaining))
  /\ remaining' = remaining - SliceOf(remaining)
  /\ UNCHANGED <<phase, expired, requested, inUse, grace, attached, bus, open, busy>>

Reattached == attached \/ ~inUse

\* The way up.
Wake ==
  /\ phase = "asleep"
  /\ remaining = 0
  /\ bus' = TRUE
  /\ attached' = Reattached
  /\ busy' = 0
  /\ phase' = "awake"
  /\ UNCHANGED <<clock, expired, requested, remaining, inUse, grace, open, age, rested>>

-----------------------------------------------------------------------------
(* The host *)

Open ==
  /\ attached /\ ~open
  /\ open' = TRUE
  /\ UNCHANGED <<phase, clock, expired, requested, remaining, inUse, grace, attached, bus,
                 age, rested, busy>>

Close ==
  /\ open
  /\ open' = FALSE
  /\ UNCHANGED <<phase, clock, expired, requested, remaining, inUse, grace, attached, bus,
                 age, rested, busy>>

Init ==
  /\ phase = "awake"
  /\ clock = 0 /\ age = 0 /\ rested = 0 /\ busy = 0
  /\ expired = FALSE
  /\ requested = 0 /\ remaining = 0
  /\ inUse = FALSE /\ grace = FALSE
  /\ attached = TRUE /\ bus = TRUE /\ open = FALSE

Next == Work \/ SleepSeconds \/ SleepSlice \/ Wake \/ Open \/ Close

Spec == Init /\ [][Next]_vars

-----------------------------------------------------------------------------
(* Properties *)

TypeOK ==
  /\ phase \in {"awake", "asleep"}
  /\ clock \in Nat /\ age \in Nat /\ rested \in Nat /\ busy \in 0..MaxAwake
  /\ requested \in 0..MaxSleep /\ remaining \in 0..MaxSleep
  /\ expired \in BOOLEAN /\ inUse \in BOOLEAN /\ grace \in BOOLEAN
  /\ attached \in BOOLEAN /\ bus \in BOOLEAN /\ open \in BOOLEAN

\* A sleep lasts as long as was asked for, whatever that is: no remainder is lost between
\* slices and no product overflows on its way to ticks.
SleepIsWhole == phase = "awake" => rested = requested

\* USB is kept up unattended in the first BootGrace seconds of a boot and never again,
\* on the far side of millis()'s wrap neither.
GraceIsOnce == phase = "asleep" /\ grace => age - rested < BootGrace

\* A node that is awake can be reached over USB and reach its radio, and one that went to
\* sleep with a host watching or inside the window has not dropped off the host's bus.
NodeIsReachable ==
  /\ phase = "awake" => attached /\ bus
  /\ phase = "asleep" /\ (inUse \/ grace) => attached
=============================================================================
