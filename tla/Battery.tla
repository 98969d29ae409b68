------------------------------- MODULE Battery -------------------------------
(***************************************************************************)
(* Battery::read() (battery.cpp), one cycle of the pack driver, step by    *)
(* step: the direct query, the BOOT nudge and the announcement window, the *)
(* two follow-up queries, the push listen, and the accounting that decides *)
(* whether the next cycle may pay for the expensive half of that ladder.   *)
(* The brownout gate is the one of module Hold.  The pack is free: it may  *)
(* answer or stay silent at any step and at any address.                   *)
(***************************************************************************)
EXTENDS Hold

CONSTANTS
  SilentAllowance,     \* kSilentCyclesBeforeProbeOnly (3)
  UnsampledAllowance,  \* kUnsampledCyclesBeforeProbeOnly (6)
  BootSilence,         \* kSilentCyclesBeforeBoot (3)
  BootSpacing,         \* kBootMinSpacingCycles (96)
  LadderRetry,         \* kFullLadderRetryCycles (24)
  CountMax,            \* UINT16_MAX, where the streak counters stop
  MaxCycles            \* bound: cycles explored between two resets

StalledAllowance == UnsampledAllowance  \* kStalledCyclesBeforeProbeOnly

ASSUME BatteryAssumption ==
  /\ SilentAllowance \in Nat \ {0}
  /\ UnsampledAllowance \in Nat \ {0}
  /\ BootSilence \in 1..SilentAllowance
  /\ BootSpacing \in Nat \ {0}
  /\ LadderRetry \in Nat \ {0}
  /\ CountMax \in Nat
  /\ SilentAllowance <= CountMax
  /\ UnsampledAllowance <= CountMax
  /\ InvalidLimit < StalledAllowance + LadderRetry
  /\ MaxCycles \in Nat

VARIABLES
  phase,      \* "asleep", or the step of read() that is next
  ladder,     \* full_ladder, decided at the start of the cycle
  last,       \* m_last; "noise" is every result that is neither a reading nor
              \*   an empty record nor silence
  pid,        \* m_pid, the remembered address
  silent,     \* m_silent_cycles
  unsampled,  \* m_unsampled_cycles
  stalled,    \* m_stalled_cycles
  cycles,     \* m_cycles
  nextFull,   \* m_next_full_cycle, 0 when no retry is scheduled
  bootSpent,  \* m_boot_spent
  nextBoot,   \* m_next_boot_cycle
  seen,       \* history: addresses the pack answered at or announced since the reset
  asked,      \* history: addresses asked in this cycle
  idle,       \* history: cycles since the last full ladder or reading
  failed,     \* history: cycles since the last reading
  retryAt,    \* history: last ladder past the allowance, this episode; 0 if none
  boots,      \* history: BOOTs since the last reading
  bootAt      \* history: cycle of the last BOOT, 0 if none

counters == <<silent, unsampled, stalled>>
bootVars == <<bootSpent, nextBoot, boots, bootAt>>
vars == <<holdVars, phase, ladder, last, pid, counters, cycles, nextFull, bootVars,
          seen, asked, idle, failed, retryAt>>

Addresses == {"probe", "broadcast", "other"}
Results == {"none", "noise", "unsampled", "ok"}
Answers == {"unsampled", "ok"}

\* Saturating increment.
Bump(n) == IF n < CountMax THEN n + 1 ELSE n

-----------------------------------------------------------------------------
(* ladder_allowed() *)

\* The saving of issue #39 applied to every hold, the one of issue #61 too.
MutantMeasuredLow == hold # "open"

MeasuredLow == hold = "low"

\* Only the two streaks were bounded, and a pack that alternates never ends one.
MutantWithinAllowance ==
  IF last = "unsampled" THEN unsampled < UnsampledAllowance ELSE silent < SilentAllowance

WithinAllowance ==
  /\ IF last = "unsampled" THEN unsampled < UnsampledAllowance ELSE silent < SilentAllowance
  /\ stalled < StalledAllowance

\* Start of a cycle: count it and decide, from what the previous one saw, whether
\* it may run the full ladder.  A retry that falls due schedules the next one.
Wake ==
  /\ phase = "asleep"
  /\ cycles < MaxCycles
  /\ cycles' = cycles + 1
  /\ ladder' = (~MeasuredLow /\ (WithinAllowance \/ cycles' >= nextFull))
  /\ nextFull' = IF ladder' /\ ~WithinAllowance THEN cycles' + LadderRetry ELSE nextFull
  /\ last' = "none"
  /\ phase' = "direct"
  /\ asked' = {}
  /\ idle' = IF ladder' THEN 0 ELSE idle + 1
  /\ retryAt' = IF ladder' /\ failed >= StalledAllowance THEN cycles' ELSE retryAt
  /\ UNCHANGED <<holdVars, pid, counters, bootVars, seen, failed>>

-----------------------------------------------------------------------------
(* One cycle of read() *)

\* A reply that matches the query sent to address a; it alone teaches an address.
Answered(a) ==
  /\ last' \in Answers
  /\ pid' = a
  /\ seen' = seen \cup {a}

MutantUnanswered(a) ==
  \/ UNCHANGED <<last, pid>>
  \/ last' = (IF last = "none" THEN "noise" ELSE last) /\ pid' = a

\* Silence, or bytes that answer nothing.
Unanswered(a) == last' \in {last, IF last = "none" THEN "noise" ELSE last} /\ UNCHANGED pid

\* SENDAT to kProbeId; a miss leaves no trace in m_last.
DirectQuery ==
  /\ phase = "direct"
  /\ asked' = asked \cup {"probe"}
  /\ \/ phase' = "listen" /\ Answered("probe")
     \/ phase' = (IF ladder THEN "acquire" ELSE "first") /\ UNCHANGED <<last, pid, seen>>
  /\ UNCHANGED <<holdVars, ladder, counters, cycles, nextFull, bootVars, idle, failed, retryAt>>

BootWarranted ==
  /\ Bump(silent) >= BootSilence
  /\ ~bootSpent
  /\ cycles >= nextBoot

BootIfWarranted ==
  IF BootWarranted
  THEN /\ bootSpent' = TRUE
       /\ nextBoot' = cycles + BootSpacing
       /\ boots' = boots + 1
       /\ bootAt' = cycles
  ELSE UNCHANGED bootVars

\* The announcement window: nothing answerable heard; the last announcement still
\* unprovisioned; or the pack announced the id it holds, which ends the window.
AcquirePid ==
  \/ UNCHANGED <<pid, seen>>
  \/ pid' = "broadcast" /\ UNCHANGED seen
  \/ \E a \in {"probe", "other"} : pid' = a /\ seen' = seen \cup {a}

Acquire ==
  /\ phase = "acquire"
  /\ BootIfWarranted
  /\ AcquirePid
  /\ phase' = "first"
  /\ UNCHANGED <<holdVars, ladder, last, counters, cycles, nextFull, asked, idle, failed, retryAt>>

MutantAlternate(a) == "probe"

\* battery_followup_query_plan(): the other address a pack may be listening at.
Alternate(a) == IF a = "broadcast" THEN "probe" ELSE "broadcast"

FollowUp(a, next) ==
  /\ asked' = asked \cup {a}
  /\ \/ phase' = "listen" /\ Answered(a)
     \/ phase' = next /\ Unanswered(a) /\ UNCHANGED seen
  /\ UNCHANGED <<holdVars, ladder, counters, cycles, nextFull, bootVars, idle, failed, retryAt>>

FirstFollowUp == phase = "first" /\ FollowUp(pid, "second")

SecondFollowUp == phase = "second" /\ FollowUp(Alternate(pid), "listen")

\* The push listen, when the queries brought no reading and the cycle may pay for it.
Listen ==
  /\ phase = "listen"
  /\ IF last # "ok" /\ ladder
     THEN last' \in {last, "ok"} \cup (IF last = "none" THEN {"noise", "unsampled"} ELSE {})
     ELSE UNCHANGED last
  /\ phase' = "account"
  /\ UNCHANGED <<holdVars, ladder, pid, counters, cycles, nextFull, bootVars, seen, asked,
                 idle, failed, retryAt>>

-----------------------------------------------------------------------------
(* The accounting at the end of read(), and the gate's update after it *)

\* Brownout::update() with this cycle's voltage; only a reading can carry one.
Gate == Missed \/ (last = "ok" /\ Measured)

\* Recovery gave back the rate floor along with the allowance.
MutantReadingEndsEpisode ==
  /\ silent' = 0 /\ unsampled' = 0 /\ stalled' = 0
  /\ nextFull' = 0
  /\ bootSpent' = FALSE
  /\ nextBoot' = 0
  /\ boots' = 0
  /\ UNCHANGED bootAt

ReadingEndsEpisode ==
  /\ silent' = 0 /\ unsampled' = 0 /\ stalled' = 0
  /\ nextFull' = 0
  /\ bootSpent' = FALSE
  /\ boots' = 0
  /\ UNCHANGED <<nextBoot, bootAt>>

Spent ==
  \/ unsampled' >= UnsampledAllowance
  \/ silent' >= SilentAllowance
  \/ stalled' >= StalledAllowance

\* The deadline is set once and not moved by further failures.
ArmRetry == nextFull' = IF Spent /\ nextFull = 0 THEN cycles + LadderRetry ELSE nextFull

FailureCounts ==
  /\ IF last = "unsampled"
     THEN silent' = 0 /\ unsampled' = Bump(unsampled)
     ELSE unsampled' = 0 /\ silent' = Bump(silent)
  /\ stalled' = Bump(stalled)
  /\ ArmRetry
  /\ UNCHANGED bootVars

Account ==
  /\ phase = "account"
  /\ phase' = "asleep"
  /\ Gate
  /\ IF last = "ok" THEN ReadingEndsEpisode ELSE FailureCounts
  /\ idle' = IF last = "ok" THEN 0 ELSE idle
  /\ failed' = IF last = "ok" THEN 0 ELSE failed + 1
  /\ retryAt' = IF last = "ok" THEN 0 ELSE retryAt
  /\ UNCHANGED <<ladder, last, pid, cycles, seen, asked>>

\* Every member of Battery is RAM; the gate comes back as Brownout::begin() sets it.
Reset ==
  /\ Restart
  /\ phase' = "asleep"
  /\ ladder' = FALSE
  /\ last' = "none"
  /\ pid' = "broadcast"
  /\ silent' = 0 /\ unsampled' = 0 /\ stalled' = 0
  /\ cycles' = 0
  /\ nextFull' = 0
  /\ bootSpent' = FALSE
  /\ nextBoot' = 0
  /\ seen' = {} /\ asked' = {}
  /\ idle' = 0 /\ failed' = 0 /\ retryAt' = 0 /\ boots' = 0 /\ bootAt' = 0

Init ==
  /\ HoldInit
  /\ phase = "asleep"
  /\ ladder = FALSE
  /\ last = "none"
  /\ pid = "broadcast"
  /\ silent = 0 /\ unsampled = 0 /\ stalled = 0
  /\ cycles = 0
  /\ nextFull = 0
  /\ bootSpent = FALSE
  /\ nextBoot = 0
  /\ seen = {} /\ asked = {}
  /\ idle = 0 /\ failed = 0 /\ retryAt = 0 /\ boots = 0 /\ bootAt = 0

Next ==
  \/ Wake \/ DirectQuery \/ Acquire \/ FirstFollowUp \/ SecondFollowUp \/ Listen \/ Account
  \/ Reset

Spec == Init /\ [][Next]_vars

-----------------------------------------------------------------------------
(* Properties *)

TypeOK ==
  /\ hold \in {"open", "low", "blind"} /\ missed \in 0..InvalidLimit /\ voltage \in BOOLEAN
  /\ phase \in {"asleep", "direct", "acquire", "first", "second", "listen", "account"}
  /\ ladder \in BOOLEAN
  /\ last \in Results
  /\ pid \in Addresses
  /\ silent \in 0..CountMax /\ unsampled \in 0..CountMax /\ stalled \in 0..CountMax
  /\ cycles \in 0..MaxCycles
  /\ nextFull \in Nat
  /\ bootSpent \in BOOLEAN /\ nextBoot \in Nat
  /\ seen \subseteq Addresses /\ asked \subseteq Addresses
  /\ idle \in Nat /\ failed \in Nat /\ retryAt \in Nat /\ boots \in Nat /\ bootAt \in Nat

\* Whatever mix of silence, empty records, noise and brownout holds the node goes
\* through, it is never StalledAllowance + LadderRetry cycles without either a
\* reading or the full ladder, the only thing that can re-latch a lost pack.
LadderKeepsComing == idle < StalledAllowance + LadderRetry

\* However its failures are mixed, a pack that has used up its allowance buys a
\* full ladder at most once every LadderRetry cycles.
LaddersAreSpaced ==
  [][retryAt # 0 /\ retryAt' # 0 /\ retryAt' # retryAt => retryAt' >= retryAt + LadderRetry]_vars

\* A pack is asked to reboot at most once between two readings.
OneBootPerEpisode == boots <= 1

\* Recovery never buys a second BOOT early: two are BootSpacing cycles apart.
BootsAreSpaced ==
  [][bootAt # 0 /\ bootAt' # 0 /\ bootAt' # bootAt => bootAt' >= bootAt + BootSpacing]_vars

\* The remembered address is one the pack was heard at: the announcements and noise
\* a query to a dead address brings back never teach it (issue #36).
PidWasHeard == pid # "broadcast" => pid \in seen

\* No remembered address hides a pack: a cycle that reaches the listen phase with
\* no answer has asked the probe id, the broadcast id and the remembered one.
EveryAddressIsTried ==
  phase = "listen" /\ last \notin Answers => {"probe", "broadcast", pid} \subseteq asked
=============================================================================
