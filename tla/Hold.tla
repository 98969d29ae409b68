-------------------------------- MODULE Hold --------------------------------
(***************************************************************************)
(* What the brownout gate promises the rest of the node, with the voltages *)
(* and flash left out: a hold that rests on a measurement ("low"), a hold  *)
(* that rests on none ("blind"), or no hold.  Brownout implements this     *)
(* specification; Battery is built on it.                                  *)
(***************************************************************************)
EXTENDS Naturals

CONSTANT InvalidLimit   \* kInvalidReadsBeforeInhibit (4)

ASSUME HoldAssumption == InvalidLimit \in Nat \ {0}

VARIABLES
  hold,     \* "open", "low" or "blind"
  missed,   \* cycles in a row without a voltage, up to InvalidLimit
  voltage   \* whether the last cycle had one

holdVars == <<hold, missed, voltage>>

\* A voltage settles the question one way or the other, and never blindly.
Measured ==
  /\ hold' \in {"open", "low"}
  /\ missed' = 0
  /\ voltage' = TRUE

\* The miss that makes InvalidLimit in a row makes the hold blind, whatever it was.
Missed ==
  /\ missed' = IF missed < InvalidLimit THEN missed + 1 ELSE missed
  /\ hold' = IF missed' >= InvalidLimit THEN "blind" ELSE hold
  /\ voltage' = FALSE

\* A reset forgets the misses and keeps at most the measured hold.
Restart ==
  /\ hold' \in {"open", "low"}
  /\ missed' = 0
  /\ voltage' = FALSE

HoldInit == hold = "open" /\ missed = 0 /\ voltage = FALSE

HoldNext == Measured \/ Missed \/ Restart

HoldSpec == HoldInit /\ [][HoldNext]_holdVars
=============================================================================
