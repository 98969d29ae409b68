---------------------------- MODULE BatteryProofs ----------------------------
(***************************************************************************)
(* What TLC checks of the pack driver for one set of small allowances,     *)
(* proved for all of them: the ladder keeps coming, is never cheap to      *)
(* obtain, and reboots the pack rarely.                                    *)
(***************************************************************************)
EXTENDS Battery, TLAPS

-----------------------------------------------------------------------------
(* The inductive invariant *)

\* Each failed cycle is a missed voltage, so a measured hold cannot outlive
\* InvalidLimit of them.
MissesCount ==
  /\ hold # "blind" => missed < InvalidLimit
  /\ failed <= missed \/ missed = InvalidLimit

\* stalled counts the failures of the episode until it saturates.
StalledCounts == stalled = IF failed <= CountMax THEN failed ELSE CountMax

\* With no deadline set there is still allowance left.
UnarmedHasAllowance == nextFull = 0 => stalled < StalledAllowance

\* The failure-free cycles are not idle ones, and the deadline is never further
\* away than the idle cycles left.
IdleIsPaid ==
  /\ idle <= failed + (IF phase = "asleep" THEN 0 ELSE 1)
  /\ nextFull # 0 => idle + nextFull <= cycles + StalledAllowance + LadderRetry

\* A ladder past the allowance pushes the deadline LadderRetry cycles past it.
RetrySchedules ==
  /\ retryAt <= cycles
  /\ retryAt # 0 => nextFull >= retryAt + LadderRetry

\* A BOOT closes both of its gates.
BootCloses ==
  /\ boots <= 1
  /\ boots # 0 => bootSpent
  /\ bootAt # 0 => nextBoot >= bootAt + BootSpacing

\* What has been asked, step by step.
AskedSoFar ==
  /\ phase \in {"acquire", "first", "second"} => "probe" \in asked
  /\ phase = "second" => pid \in asked

IInv ==
  /\ TypeOK
  /\ MissesCount
  /\ StalledCounts
  /\ UnarmedHasAllowance
  /\ IdleIsPaid
  /\ LadderKeepsComing
  /\ RetrySchedules
  /\ BootCloses
  /\ PidWasHeard
  /\ AskedSoFar
  /\ EveryAddressIsTried

-----------------------------------------------------------------------------
\* A power-on state satisfies the invariant.
LEMMA InitIInv == Init => IInv
  <1> SUFFICES ASSUME Init PROVE IInv
    OBVIOUS
  <1> USE HoldAssumption, BatteryAssumption DEF Init, HoldInit
  <1>1. TypeOK
    <2>0. hold \in {"open", "low", "blind"} /\ missed \in 0..InvalidLimit
      OBVIOUS
    <2>1. voltage \in BOOLEAN /\ ladder \in BOOLEAN /\ bootSpent \in BOOLEAN
      OBVIOUS
    <2>2. /\ phase = "asleep" /\ last \in Results /\ pid \in Addresses
          /\ seen \subseteq Addresses /\ asked \subseteq Addresses
      BY DEF Results, Addresses
    <2>3. /\ silent \in 0..CountMax /\ unsampled \in 0..CountMax /\ stalled \in 0..CountMax
          /\ cycles \in 0..MaxCycles /\ nextFull \in Nat /\ nextBoot \in Nat
      OBVIOUS
    <2>4. idle \in Nat /\ failed \in Nat /\ retryAt \in Nat /\ boots \in Nat /\ bootAt \in Nat
      OBVIOUS
    <2> QED BY <2>0, <2>1, <2>2, <2>3, <2>4 DEF TypeOK
  <1>2. MissesCount /\ StalledCounts /\ UnarmedHasAllowance /\ IdleIsPaid /\ LadderKeepsComing
    BY DEF MissesCount, StalledCounts, UnarmedHasAllowance, IdleIsPaid, LadderKeepsComing,
           StalledAllowance
  <1>3. RetrySchedules /\ BootCloses /\ PidWasHeard /\ AskedSoFar /\ EveryAddressIsTried
    BY DEF RetrySchedules, BootCloses, PidWasHeard, AskedSoFar, EveryAddressIsTried
  <1> QED BY <1>1, <1>2, <1>3 DEF IInv

\* A reset goes back to such a state, whatever was going on.
LEMMA ResetIInv == Reset => IInv'
  <1> SUFFICES ASSUME Reset PROVE IInv'
    OBVIOUS
  <1> USE HoldAssumption, BatteryAssumption DEF Reset, Restart
  <1>1. TypeOK'
    <2>0. hold' \in {"open", "low", "blind"} /\ missed' \in 0..InvalidLimit
      OBVIOUS
    <2>1. voltage' \in BOOLEAN /\ ladder' \in BOOLEAN /\ bootSpent' \in BOOLEAN
      OBVIOUS
    <2>2. /\ phase' = "asleep" /\ last' \in Results /\ pid' \in Addresses
          /\ seen' \subseteq Addresses /\ asked' \subseteq Addresses
      BY DEF Results, Addresses
    <2>3. /\ silent' \in 0..CountMax /\ unsampled' \in 0..CountMax /\ stalled' \in 0..CountMax
          /\ cycles' \in 0..MaxCycles /\ nextFull' \in Nat /\ nextBoot' \in Nat
      OBVIOUS
    <2>4. idle' \in Nat /\ failed' \in Nat /\ retryAt' \in Nat /\ boots' \in Nat /\ bootAt' \in Nat
      OBVIOUS
    <2> QED BY <2>0, <2>1, <2>2, <2>3, <2>4 DEF TypeOK
  <1>2. (MissesCount /\ StalledCounts /\ UnarmedHasAllowance /\ IdleIsPaid /\ LadderKeepsComing)'
    BY DEF MissesCount, StalledCounts, UnarmedHasAllowance, IdleIsPaid, LadderKeepsComing,
           StalledAllowance
  <1>3. (RetrySchedules /\ BootCloses /\ PidWasHeard /\ AskedSoFar /\ EveryAddressIsTried)'
    BY DEF RetrySchedules, BootCloses, PidWasHeard, AskedSoFar, EveryAddressIsTried
  <1> QED BY <1>1, <1>2, <1>3 DEF IInv

\* The start of a cycle: either a ladder is granted, or the deadline is still
\* ahead, or a measured hold has been there for fewer than InvalidLimit misses.
LEMMA WakeIInv == IInv /\ Wake => IInv'
  <1> SUFFICES ASSUME IInv, Wake PROVE IInv'
    OBVIOUS
  <1> USE HoldAssumption, BatteryAssumption
  <1>1. TypeOK'
    BY DEF IInv, TypeOK, Wake, holdVars, counters, bootVars, Results, StalledAllowance
  <1>2. MissesCount' /\ StalledCounts'
    BY DEF IInv, MissesCount, StalledCounts, Wake, holdVars, counters
  <1>3. UnarmedHasAllowance'
    BY DEF IInv, TypeOK, UnarmedHasAllowance, Wake, counters, StalledAllowance
  <1>0. /\ cycles' = cycles + 1 /\ phase = "asleep" /\ phase' = "direct"
        /\ failed' = failed
        /\ idle' = (IF ladder' THEN 0 ELSE idle + 1)
        /\ retryAt' = (IF ladder' /\ failed >= StalledAllowance THEN cycles' ELSE retryAt)
        /\ nextFull' = (IF ladder' /\ ~WithinAllowance THEN cycles' + LadderRetry ELSE nextFull)
        /\ ladder' = (~MeasuredLow /\ (WithinAllowance \/ cycles' >= nextFull))
    BY DEF Wake
  <1>4. IdleIsPaid' /\ LadderKeepsComing'
    <2>0. idle <= failed /\ cycles \in Nat /\ failed \in Nat /\ idle \in Nat /\ nextFull \in Nat
      BY <1>0 DEF IInv, TypeOK, IdleIsPaid
    <2>1. CASE ladder'
      <3>1. idle' = 0 /\ nextFull' \in {cycles + 1 + LadderRetry, nextFull}
        BY <1>0, <2>1
      <3> QED BY <1>0, <2>0, <3>1 DEF IInv, IdleIsPaid, LadderKeepsComing, StalledAllowance
    <2>2. CASE ~ladder'
      <3>1. idle' = idle + 1 /\ nextFull' = nextFull
        BY <1>0, <2>2
      <3>2. CASE MeasuredLow
        <4>1. failed < InvalidLimit
          BY <3>2 DEF IInv, TypeOK, MissesCount, MeasuredLow
        <4> QED BY <1>0, <2>0, <3>1, <4>1 DEF IInv, IdleIsPaid, LadderKeepsComing, StalledAllowance
      <3>3. CASE ~MeasuredLow
        <4>1. ~(cycles' >= nextFull)
          BY <1>0, <2>2, <3>3
        <4>2. cycles + 1 < nextFull
          BY <1>0, <2>0, <4>1
        <4> QED BY <1>0, <2>0, <3>1, <4>2 DEF IInv, IdleIsPaid, LadderKeepsComing, StalledAllowance
      <3> QED BY <3>2, <3>3
    <2> QED BY <2>1, <2>2
  <1>5. RetrySchedules'
    <2>0. cycles \in Nat /\ retryAt \in Nat /\ nextFull \in Nat /\ retryAt <= cycles
          /\ (retryAt # 0 => nextFull >= retryAt + LadderRetry)
      BY DEF IInv, TypeOK, RetrySchedules
    <2>1. CASE ladder' /\ ~WithinAllowance
      <3>1. nextFull' = cycles + 1 + LadderRetry /\ retryAt' \in {cycles + 1, retryAt}
        BY <1>0, <2>1
      <3> QED BY <1>0, <2>0, <3>1 DEF RetrySchedules
    <2>2. CASE ~(ladder' /\ ~WithinAllowance)
      <3>1. nextFull' = nextFull /\ retryAt' = retryAt
        <4>1. failed >= StalledAllowance => ~WithinAllowance
          BY DEF IInv, TypeOK, StalledCounts, WithinAllowance, StalledAllowance
        <4> QED BY <1>0, <2>2, <4>1
      <3> QED BY <1>0, <2>0, <3>1 DEF RetrySchedules
    <2> QED BY <2>1, <2>2
  <1>6. BootCloses' /\ PidWasHeard'
    BY DEF IInv, BootCloses, PidWasHeard, Wake, bootVars
  <1>7. AskedSoFar' /\ EveryAddressIsTried'
    BY DEF AskedSoFar, EveryAddressIsTried, Wake
  <1> QED BY <1>1, <1>2, <1>3, <1>4, <1>5, <1>6, <1>7 DEF IInv

\* What the steps between the start of a cycle and its accounting have in common.
MidCycle ==
  /\ phase # "asleep" /\ phase' # "asleep"
  /\ UNCHANGED <<holdVars, ladder, counters, cycles, nextFull, idle, failed, retryAt>>

\* None of them touches what the ladder's schedule is made of.
LEMMA MidCycleKeeps ==
  ASSUME IInv, MidCycle
  PROVE  (/\ MissesCount /\ StalledCounts /\ UnarmedHasAllowance /\ IdleIsPaid
          /\ LadderKeepsComing /\ RetrySchedules)'
  <1>1. (MissesCount /\ StalledCounts)'
    BY DEF MidCycle, IInv, MissesCount, StalledCounts, holdVars, counters
  <1>2. (UnarmedHasAllowance /\ IdleIsPaid)'
    BY DEF MidCycle, IInv, UnarmedHasAllowance, IdleIsPaid, counters
  <1>3. (LadderKeepsComing /\ RetrySchedules)'
    BY DEF MidCycle, IInv, LadderKeepsComing, RetrySchedules
  <1> QED BY <1>1, <1>2, <1>3

\* The direct query.
LEMMA DirectQueryIInv == IInv /\ DirectQuery => IInv'
  <1> SUFFICES ASSUME IInv, DirectQuery PROVE IInv'
    OBVIOUS
  <1>1. MidCycle
    BY DEF MidCycle, DirectQuery
  <1>2. TypeOK'
    BY DEF IInv, TypeOK, DirectQuery, Answered, holdVars, counters, bootVars, Results,
           Addresses, Answers
  <1>3. BootCloses'
    BY DEF IInv, BootCloses, DirectQuery, bootVars
  <1>4. (PidWasHeard /\ AskedSoFar /\ EveryAddressIsTried)'
    BY DEF IInv, TypeOK, PidWasHeard, AskedSoFar, EveryAddressIsTried, DirectQuery, Answered,
           Answers
  <1> QED BY <1>1, <1>2, <1>3, <1>4, MidCycleKeeps DEF IInv

\* The nudge and the announcement window.
LEMMA AcquireIInv == IInv /\ Acquire => IInv'
  <1> SUFFICES ASSUME IInv, Acquire PROVE IInv'
    OBVIOUS
  <1>1. MidCycle
    BY DEF MidCycle, Acquire
  <1>2. BootCloses' /\ bootSpent' \in BOOLEAN /\ nextBoot' \in Nat /\ boots' \in Nat /\ bootAt' \in Nat
    <2>1. CASE BootWarranted
      BY <2>1, BatteryAssumption
      DEF IInv, TypeOK, BootCloses, Acquire, BootIfWarranted, BootWarranted
    <2>2. CASE ~BootWarranted
      BY <2>2 DEF IInv, TypeOK, BootCloses, Acquire, BootIfWarranted, bootVars
    <2> QED BY <2>1, <2>2
  <1>3. TypeOK'
    BY <1>2 DEF IInv, TypeOK, Acquire, AcquirePid, holdVars, counters, Addresses
  <1>4. (PidWasHeard /\ AskedSoFar /\ EveryAddressIsTried)'
    BY DEF IInv, PidWasHeard, AskedSoFar, EveryAddressIsTried, Acquire, AcquirePid
  <1> QED BY <1>1, <1>2, <1>3, <1>4, MidCycleKeeps DEF IInv

\* The two follow-up queries.
LEMMA FollowUpIInv == IInv /\ (FirstFollowUp \/ SecondFollowUp) => IInv'
  <1> SUFFICES ASSUME IInv, FirstFollowUp \/ SecondFollowUp PROVE IInv'
    OBVIOUS
  <1>1. PICK a \in Addresses, next \in {"second", "listen"} : FollowUp(a, next)
    BY DEF IInv, TypeOK, FirstFollowUp, SecondFollowUp, Alternate, Addresses
  <1>2. MidCycle
    BY <1>1 DEF MidCycle, FirstFollowUp, SecondFollowUp, FollowUp
  <1>3. TypeOK'
    <2>1. last' \in Results /\ pid' \in Addresses /\ seen' \subseteq Addresses
          /\ asked' \subseteq Addresses /\ phase' \in {"second", "listen"}
      <3>1. CASE phase' = "listen" /\ Answered(a)
        BY <1>1, <3>1 DEF IInv, TypeOK, FollowUp, Answered, Results, Answers
      <3>2. CASE phase' = next /\ Unanswered(a) /\ UNCHANGED seen
        BY <1>1, <3>2 DEF IInv, TypeOK, FollowUp, Unanswered, Results
      <3> QED BY <1>1, <3>1, <3>2 DEF FollowUp
    <2> QED BY <1>1, <2>1 DEF IInv, TypeOK, FollowUp, holdVars, counters, bootVars
  <1>4. BootCloses'
    BY <1>1 DEF IInv, BootCloses, FollowUp, bootVars
  <1>5. PidWasHeard'
    BY <1>1 DEF IInv, PidWasHeard, FollowUp, Answered, Unanswered
  <1>6. (AskedSoFar /\ EveryAddressIsTried)'
    <2>1. CASE FirstFollowUp
      BY <2>1 DEF IInv, AskedSoFar, EveryAddressIsTried, FirstFollowUp, FollowUp, Answered,
                  Unanswered
    <2>2. CASE SecondFollowUp
      BY <2>2 DEF IInv, TypeOK, AskedSoFar, EveryAddressIsTried, SecondFollowUp, FollowUp,
                  Answered, Unanswered, Alternate
    <2> QED BY <2>1, <2>2
  <1> QED BY <1>2, <1>3, <1>4, <1>5, <1>6, MidCycleKeeps DEF IInv

\* The push listen.
LEMMA ListenIInv == IInv /\ Listen => IInv'
  <1> SUFFICES ASSUME IInv, Listen PROVE IInv'
    OBVIOUS
  <1>1. MidCycle
    BY DEF MidCycle, Listen
  <1>2. TypeOK'
    BY DEF IInv, TypeOK, Listen, holdVars, counters, bootVars, Results
  <1>3. (BootCloses /\ PidWasHeard /\ AskedSoFar /\ EveryAddressIsTried)'
    BY DEF IInv, BootCloses, PidWasHeard, AskedSoFar, EveryAddressIsTried, Listen, bootVars
  <1> QED BY <1>1, <1>2, <1>3, MidCycleKeeps DEF IInv

\* The accounting and the gate's update: a failed cycle is one more miss, one more
\* failure, and the moment the deadline is set if it was not.
LEMMA AccountIInv == IInv /\ Account => IInv'
  <1> SUFFICES ASSUME IInv, Account PROVE IInv'
    OBVIOUS
  <1> USE HoldAssumption, BatteryAssumption
  <1>1. /\ UNCHANGED <<ladder, last, pid, cycles, seen, asked>>
        /\ phase = "account" /\ phase' = "asleep"
        /\ Gate
    BY DEF Account
  <1>2. /\ hold' \in {"open", "low", "blind"} /\ missed' \in 0..InvalidLimit
        /\ voltage' \in BOOLEAN
        /\ hold' # "blind" => missed' < InvalidLimit
    <2>1. CASE Missed
      <3>1. /\ missed' = (IF missed < InvalidLimit THEN missed + 1 ELSE missed)
            /\ hold' = (IF missed' >= InvalidLimit THEN "blind" ELSE hold)
            /\ missed \in 0..InvalidLimit
            /\ hold \in {"open", "low", "blind"}
        BY <2>1 DEF Missed, IInv, TypeOK
      <3>2. voltage' \in BOOLEAN
        BY <2>1 DEF Missed
      <3> QED BY <3>1, <3>2
    <2>2. CASE Measured
      BY <2>2 DEF Measured
    <2> QED BY <1>1, <2>1, <2>2 DEF Gate
  <1>3. (PidWasHeard /\ AskedSoFar /\ EveryAddressIsTried)'
    BY <1>1 DEF IInv, PidWasHeard, AskedSoFar, EveryAddressIsTried
  <1>4. CASE last = "ok"
    <2>1. /\ ReadingEndsEpisode
          /\ idle' = 0 /\ failed' = 0 /\ retryAt' = 0
      BY <1>4 DEF Account
    <2>2. TypeOK'
      <3>1. /\ silent' = 0 /\ unsampled' = 0 /\ stalled' = 0 /\ nextFull' = 0 /\ boots' = 0
            /\ bootSpent' \in BOOLEAN
            /\ UNCHANGED <<nextBoot, bootAt>>
        BY <2>1 DEF ReadingEndsEpisode
      <3>2. 0 \in 0..CountMax
        OBVIOUS
      <3> QED BY <1>1, <1>2, <2>1, <3>1, <3>2 DEF IInv, TypeOK
    <2>3. (MissesCount /\ StalledCounts /\ UnarmedHasAllowance /\ IdleIsPaid)'
      BY <1>2, <2>1 DEF ReadingEndsEpisode, MissesCount, StalledCounts, UnarmedHasAllowance,
                        IdleIsPaid, StalledAllowance
    <2>4. (LadderKeepsComing /\ RetrySchedules /\ BootCloses)'
      BY <1>1, <2>1 DEF IInv, TypeOK, ReadingEndsEpisode, LadderKeepsComing, RetrySchedules,
                        BootCloses, StalledAllowance
    <2> QED BY <2>2, <2>3, <2>4, <1>3 DEF IInv
  <1>5. CASE last # "ok"
    <2>1. /\ FailureCounts
          /\ idle' = idle /\ failed' = failed + 1 /\ retryAt' = retryAt
          /\ Missed
      BY <1>5 DEF Account, Gate
    <2>2. /\ stalled' = Bump(stalled)
          /\ silent' \in 0..CountMax /\ unsampled' \in 0..CountMax /\ stalled' \in 0..CountMax
      BY <2>1 DEF FailureCounts, Bump, IInv, TypeOK
    <2>3. nextFull' = IF Spent /\ nextFull = 0 THEN cycles + LadderRetry ELSE nextFull
      BY <2>1 DEF FailureCounts, ArmRetry
    <2>4. TypeOK'
      <3>1. UNCHANGED bootVars
        BY <2>1 DEF FailureCounts
      <3> QED BY <1>1, <1>2, <2>1, <2>2, <2>3, <3>1 DEF IInv, TypeOK, bootVars
    <2>5. MissesCount'
      BY <1>2, <2>1 DEF Missed, MissesCount, IInv, TypeOK
    <2>6. StalledCounts'
      BY <2>1, <2>2 DEF StalledCounts, Bump, IInv, TypeOK
    <2>7. UnarmedHasAllowance'
      BY <2>2, <2>3 DEF UnarmedHasAllowance, Spent, IInv, TypeOK, StalledAllowance
    <2>8. IdleIsPaid'
      <3>1. nextFull = 0 => failed + 1 <= StalledAllowance
        BY DEF IInv, TypeOK, UnarmedHasAllowance, StalledCounts, StalledAllowance
      <3>2. idle <= failed + 1 /\ (nextFull # 0 => idle + nextFull <= cycles + StalledAllowance + LadderRetry)
        BY <1>1 DEF IInv, IdleIsPaid
      <3> QED BY <1>1, <2>1, <2>3, <3>1, <3>2 DEF IInv, TypeOK, IdleIsPaid, StalledAllowance
    <2>9. (LadderKeepsComing /\ RetrySchedules /\ BootCloses)'
      <3>1. LadderKeepsComing' /\ BootCloses'
        BY <2>1 DEF IInv, FailureCounts, LadderKeepsComing, BootCloses, bootVars
      <3>2. RetrySchedules'
        BY <1>1, <2>1, <2>3 DEF IInv, TypeOK, RetrySchedules
      <3> QED BY <3>1, <3>2
    <2> QED BY <2>4, <2>5, <2>6, <2>7, <2>8, <2>9, <1>3 DEF IInv
  <1> QED BY <1>4, <1>5

\* Every step keeps the invariant.
LEMMA NextIInv == IInv /\ [Next]_vars => IInv'
  <1> SUFFICES ASSUME IInv, [Next]_vars PROVE IInv'
    OBVIOUS
  <1>1. CASE UNCHANGED vars
    <2>1. (TypeOK /\ MissesCount /\ StalledCounts /\ UnarmedHasAllowance)'
      BY <1>1 DEF IInv, vars, holdVars, counters, bootVars, TypeOK, MissesCount, StalledCounts,
                  UnarmedHasAllowance
    <2>2. (IdleIsPaid /\ LadderKeepsComing /\ RetrySchedules /\ BootCloses)'
      BY <1>1 DEF IInv, vars, bootVars, IdleIsPaid, LadderKeepsComing, RetrySchedules, BootCloses
    <2>3. (PidWasHeard /\ AskedSoFar /\ EveryAddressIsTried)'
      BY <1>1 DEF IInv, vars, PidWasHeard, AskedSoFar, EveryAddressIsTried
    <2> QED BY <2>1, <2>2, <2>3 DEF IInv
  <1> QED BY <1>1, WakeIInv, DirectQueryIInv, AcquireIInv, FollowUpIInv, ListenIInv, AccountIInv,
             ResetIInv DEF Next

(* The invariant holds in every reachable state. *)
LEMMA Invariance == Spec => []IInv
  BY InitIInv, NextIInv, PTL DEF Spec

-----------------------------------------------------------------------------
(* The theorems *)

(* Every variable keeps its type, the saturating counters theirs.                 *)
THEOREM TypeCorrect == Spec => []TypeOK
  BY Invariance, PTL DEF IInv

(* No mix of failures and holds keeps the full ladder away for long.              *)
THEOREM LadderAlwaysComes == Spec => []LadderKeepsComing
  BY Invariance, PTL DEF IInv

(* One BOOT at most between two readings.                                         *)
THEOREM BootsAreRare == Spec => []OneBootPerEpisode
  <1>1. IInv => OneBootPerEpisode
    BY DEF IInv, BootCloses, OneBootPerEpisode
  <1> QED BY <1>1, Invariance, PTL

(* The remembered address was always learnt from the pack itself.                 *)
THEOREM AddressIsLearnt == Spec => []PidWasHeard
  BY Invariance, PTL DEF IInv

(* A cycle gives up only after it has asked everywhere.                           *)
THEOREM SearchIsComplete == Spec => []EveryAddressIsTried
  BY Invariance, PTL DEF IInv

(* Past the allowance, ladders come LadderRetry cycles apart.                     *)
THEOREM LadderStaysCheap == Spec => LaddersAreSpaced
  <1>1. IInv /\ [Next]_vars
          => [retryAt # 0 /\ retryAt' # 0 /\ retryAt' # retryAt
                => retryAt' >= retryAt + LadderRetry]_vars
    <2> SUFFICES ASSUME IInv, Next, retryAt # 0, retryAt' # 0, retryAt' # retryAt
                 PROVE  retryAt' >= retryAt + LadderRetry
      OBVIOUS
    <2>1. CASE Wake
      <3>1. ladder' /\ failed >= StalledAllowance /\ retryAt' = cycles'
        BY <2>1 DEF Wake
      <3>2. ~WithinAllowance
        BY <3>1, BatteryAssumption
        DEF IInv, TypeOK, StalledCounts, WithinAllowance, StalledAllowance
      <3>3. cycles' >= nextFull
        BY <2>1, <3>1, <3>2 DEF Wake
      <3> QED BY <3>1, <3>3, <2>1, BatteryAssumption DEF IInv, TypeOK, RetrySchedules, Wake
    <2>2. CASE DirectQuery \/ Acquire \/ FirstFollowUp \/ SecondFollowUp \/ Listen \/ Account \/ Reset
      <3>1. retryAt' = retryAt \/ retryAt' = 0
        BY <2>2 DEF DirectQuery, Acquire, FirstFollowUp, SecondFollowUp, FollowUp, Listen, Account,
                    Reset
      <3> QED BY <3>1
    <2> QED BY <2>1, <2>2 DEF Next
  <1> QED BY <1>1, Invariance, PTL DEF Spec, LaddersAreSpaced

(* Two BOOTs of one power cycle are BootSpacing cycles apart, readings or not.    *)
THEOREM BootsStayApart == Spec => BootsAreSpaced
  <1>1. IInv /\ [Next]_vars
          => [bootAt # 0 /\ bootAt' # 0 /\ bootAt' # bootAt
                => bootAt' >= bootAt + BootSpacing]_vars
    <2> SUFFICES ASSUME IInv, Next, bootAt # 0, bootAt' # 0, bootAt' # bootAt
                 PROVE  bootAt' >= bootAt + BootSpacing
      OBVIOUS
    <2>1. CASE Acquire
      <3>1. BootWarranted /\ bootAt' = cycles
        BY <2>1 DEF Acquire, BootIfWarranted, bootVars
      <3> QED BY <3>1, BatteryAssumption DEF BootWarranted, IInv, TypeOK, BootCloses
    <2>2. CASE Wake \/ DirectQuery \/ FirstFollowUp \/ SecondFollowUp \/ Listen \/ Account \/ Reset
      <3>1. bootAt' = bootAt \/ bootAt' = 0
        BY <2>2 DEF Wake, DirectQuery, FirstFollowUp, SecondFollowUp, FollowUp, Listen, Account,
                    ReadingEndsEpisode, FailureCounts, Reset, bootVars
      <3> QED BY <3>1
    <2> QED BY <2>1, <2>2 DEF Next
  <1> QED BY <1>1, Invariance, PTL DEF Spec, BootsAreSpaced
=============================================================================
