-------------------------- MODULE SessionLiveness --------------------------
(***************************************************************************)
(* Who can still be heard.  A class A node that does not transmit cannot   *)
(* be commanded, so every hold of session.cpp must end by itself.          *)
(***************************************************************************)
EXTENDS Session

\* The loop() thread: it is scheduled whenever the node is powered.
NodeStep ==
  \/ Setup
  \/ \E gate, keepalive, silent \in BOOLEAN : Wake(gate, keepalive, silent)
  \/ AlreadyJoined \/ BeginAgain \/ NotJoined \/ Prepare
  \/ JoinAccepted \/ JoinFailed
  \/ Headroom \/ SendOk \/ SendFailed

\* A cycle that reaches the radio.  One keeps coming: an open gate lets every
\* cycle with data through and the others at the heartbeat, and under a closed
\* gate the keepalive of the Brownout module falls due again and again.
TransmittingWake ==
  \E gate, keepalive, silent \in BOOLEAN :
    Wake(gate, keepalive, silent) /\ phase' = "ensure_joined"

RadioStarts == BeginAgain /\ radio'.started

\* Resets end, the loop runs, the radio starts if it is retried, and a gateway
\* answers if it is asked forever.  Nothing is assumed of flash or of the MIB.
Fairness ==
  /\ <>[][\A gate \in BOOLEAN : ~Crash(gate)]_vars
  /\ WF_vars(NodeStep)
  /\ SF_vars(TransmittingWake)
  /\ SF_vars(RadioStarts)
  /\ SF_vars(JoinAccepted)

FairSpec == Spec /\ Fairness

\* The model's own limits stop a node too; a run is only about what happens
\* before they are reached.
BoundReached == net = MaxSession \/ mac.up >= MaxCounter

Transmits == phase = "tx" \/ BoundReached

\* A preparation retried forever is not deferred forever: a removal, a format or
\* the stored session itself succeeds in the end.
RepairWorks == SF_vars(Prepare /\ phase' # "asleep")

\* A node held by the brownout gate for good is still heard from, whatever its
\* flash and its MAC do: the join escape and the checkpoint ladder need neither.
HeldNodeReachable == <>[]~wake.gate => []<>Transmits

\* With any repair that works in the end the node is heard from again and again:
\* neither the counter ceiling nor the fresh-join deferral is terminal.
RepairedNodeReachable == RepairWorks => []<>Transmits

\* The documented bound of the fresh-join deferral (FIRMWARE_SPEC 7.1): the node
\* is heard from again, with no condition on the flash.
DeferralIsBounded == []<>Transmits
=============================================================================
