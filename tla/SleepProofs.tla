------------------------------ MODULE SleepProofs ------------------------------
(* Proofs about module Sleep, for every value of its constants. *)
EXTENDS Sleep, TLAPS

\* A slice's worth of milliseconds times the tick rate stays below the word, so that the
\* conversion is exact.
LEMMA SlicesAreExact ==
  ASSUME NEW n \in 1..MaxSleep
  PROVE  /\ SliceOf(n) \in 1..n /\ SliceOf(n) <= Slice
         /\ Waited(SliceOf(n)) = SliceOf(n)
<1> USE SleepAssumption
<1>1. SliceOf(n) \in 1..n /\ SliceOf(n) <= Slice BY DEF SliceOf
<1> DEFINE k == SliceOf(n)
<1>2. k \in Nat BY <1>1
<1> HIDE DEF k
<1>3. \A a, b, c \in Nat : a <= b => a * c <= b * c BY SMT
<1>4. k * Milli \in Nat /\ Slice * Milli \in Nat BY <1>2
<1>5. k * Milli <= Slice * Milli BY <1>1, <1>2, <1>3 DEF k
<1>6. k * Milli * TickRate <= Slice * Milli * TickRate BY <1>3, <1>4, <1>5
<1>7. k * Milli * TickRate \in Nat BY <1>4
<1>8. k * Milli * TickRate < Word BY <1>4, <1>6, <1>7
<1>9. (k * Milli * TickRate) % Word = k * Milli * TickRate
  <2> DEFINE m == k * Milli * TickRate
  <2>1. m \in Nat /\ m < Word BY <1>7, <1>8
  <2> HIDE DEF m
  <2>2. m % Word = m BY <2>1
  <2> QED BY <2>2 DEF m
<1>10. \A a \in Nat, b \in Nat \ {0} : (a * b) \div b = a BY SMT
<1>11. k * Milli * TickRate = (k * TickRate) * Milli BY <1>2
<1>12. Ticks(k) = k * TickRate
  <2>1. k * TickRate \in Nat BY <1>2
  <2>2. ((k * TickRate) * Milli) \div Milli = k * TickRate BY <2>1, <1>10
  <2> QED BY <2>2, <1>9, <1>11 DEF Ticks
<1>13. Waited(k) = k BY <1>2, <1>10, <1>12 DEF Waited
<1> QED BY <1>1, <1>13 DEF k

-----------------------------------------------------------------------------

\* The slices add up; until it has closed, the window has seen no wrap, because a node
\* that has not slept past the window cannot have reached one.
Bookkeeping ==
  /\ phase = "asleep" => rested + remaining = requested
  /\ phase = "awake" => rested = requested
  /\ ~expired => clock = age
  /\ ~expired /\ phase = "asleep" => age - rested < BootGrace
  /\ ~expired /\ phase = "awake" => age <= BootGrace + MaxSleep + busy
  /\ rested <= age
  /\ GraceIsOnce
  /\ NodeIsReachable
  /\ phase = "asleep" /\ grace => ~expired
  /\ phase = "asleep" /\ ~inUse /\ ~grace => ~attached
  /\ open => attached

Invariant == TypeOK /\ Bookkeeping

LEMMA InitInvariant == Init => Invariant
<1> SUFFICES ASSUME Init PROVE Invariant
  OBVIOUS
<1> USE SleepAssumption DEF Init
<1>1. FALSE \in BOOLEAN /\ TRUE \in BOOLEAN OBVIOUS
<1>2. /\ expired \in BOOLEAN /\ inUse \in BOOLEAN /\ grace \in BOOLEAN
      /\ attached \in BOOLEAN /\ bus \in BOOLEAN /\ open \in BOOLEAN
  BY <1>1, Zenon
<1>3. TypeOK BY <1>2 DEF TypeOK
<1>4. Bookkeeping BY DEF Bookkeeping, GraceIsOnce, NodeIsReachable
<1> QED BY <1>3, <1>4 DEF Invariant

LEMMA NextInvariant == Invariant /\ [Next]_vars => Invariant'
<1> SUFFICES ASSUME Invariant, [Next]_vars PROVE Invariant'
  OBVIOUS
<1> USE SleepAssumption DEF Invariant, TypeOK, Bookkeeping, GraceIsOnce, NodeIsReachable
<1>1. CASE Work
  <2>1. clock + 1 < Wrap => (clock + 1) % Wrap = clock + 1 OBVIOUS
  <2>2. ~expired => clock + 1 < Wrap \/ clock + 1 = Wrap BY <1>1 DEF Work, Pass
  <2> QED BY <1>1, <2>1, <2>2 DEF Work, Pass
<1>2. CASE SleepSeconds
  <2> USE <1>2 DEF SleepSeconds, InGrace
  <2>1. expired' \in BOOLEAN /\ grace' \in BOOLEAN /\ attached' \in BOOLEAN
        /\ open' \in BOOLEAN /\ bus' \in BOOLEAN /\ inUse' \in BOOLEAN
    <3>1. bus' \in BOOLEAN /\ inUse' \in BOOLEAN /\ expired' \in BOOLEAN OBVIOUS
    <3>2. grace' \in BOOLEAN OBVIOUS
    <3>3. attached' \in BOOLEAN BY <3>1, <3>2
    <3> QED BY <3>1, <3>2, <3>3
  <2>2. requested' \in 1..MaxSleep /\ remaining' = requested' OBVIOUS
  <2>3. ~expired' => clock < BootGrace OBVIOUS
  <2>4. grace' => ~expired' OBVIOUS
  <2>5. phase' = "asleep" /\ rested' = 0 /\ clock' = clock /\ age' = age /\ busy' = busy OBVIOUS
  <2>6. ~expired' => clock' = age' BY <2>3, <2>5
  <2>7. (inUse' \/ grace') => attached' OBVIOUS
  <2>8. ~inUse' /\ ~grace' => ~attached' OBVIOUS
  <2>9. open' => attached' OBVIOUS
  <2>10. TypeOK' BY <2>1, <2>2, <2>5 DEF TypeOK
  <2>11. Bookkeeping' BY <2>1, <2>2, <2>3, <2>4, <2>5, <2>6, <2>7, <2>8, <2>9
  <2> QED BY <2>10, <2>11
<1>3. CASE SleepSlice
  <2> DEFINE k == SliceOf(remaining)
  <2>1. remaining \in 1..MaxSleep BY <1>3 DEF SleepSlice
  <2>2. k \in 1..remaining /\ Waited(k) = k BY <2>1, SlicesAreExact
  <2> HIDE DEF k
  <2>3. /\ clock' = (clock + k) % Wrap /\ age' = age + k
        /\ rested' = rested + k /\ remaining' = remaining - k
    BY <1>3, <2>2 DEF SleepSlice, Pass, k
  <2>4. ~expired => clock + k < Wrap BY <1>3, <2>2 DEF SleepSlice
  <2>5. ~expired => (clock + k) % Wrap = clock + k BY <2>2, <2>4
  <2>6. clock' \in Nat BY <2>2, <2>3
  <2> QED BY <1>3, <2>2, <2>3, <2>5, <2>6 DEF SleepSlice
<1>4. CASE Wake
  <2> USE <1>4 DEF Wake, Reattached
  <2>1. attached' \in BOOLEAN /\ bus' \in BOOLEAN OBVIOUS
  <2>2. attached' /\ bus' OBVIOUS
  <2>3. TypeOK' BY <2>1
  <2>4. Bookkeeping' BY <2>2
  <2> QED BY <2>3, <2>4
<1>5. CASE Open BY <1>5 DEF Open
<1>6. CASE Close BY <1>6 DEF Close
<1>7. CASE UNCHANGED vars BY <1>7 DEF vars
<1> QED BY <1>1, <1>2, <1>3, <1>4, <1>5, <1>6, <1>7 DEF Next

LEMMA AlwaysInvariant == Spec => []Invariant
<1> QED BY InitInvariant, NextInvariant, PTL DEF Spec

\* Type correctness.
THEOREM TypeCorrect == Spec => []TypeOK
<1>1. Invariant => TypeOK BY DEF Invariant
<1> QED BY <1>1, AlwaysInvariant, PTL

\* Whatever the interval, a sleep lasts exactly that long.
THEOREM SleepsAreWhole == Spec => []SleepIsWhole
<1>1. Invariant => SleepIsWhole BY DEF Invariant, Bookkeeping, SleepIsWhole
<1> QED BY <1>1, AlwaysInvariant, PTL

\* The window after boot never opens a second time, however often millis() wraps.
THEOREM GraceComesOnce == Spec => []GraceIsOnce
<1>1. Invariant => GraceIsOnce BY DEF Invariant, Bookkeeping
<1> QED BY <1>1, AlwaysInvariant, PTL

\* An awake node has its USB and its radio's bus, a watched one keeps its USB asleep.
THEOREM NodeStaysReachable == Spec => []NodeIsReachable
<1>1. Invariant => NodeIsReachable BY DEF Invariant, Bookkeeping
<1> QED BY <1>1, AlwaysInvariant, PTL
=============================================================================
