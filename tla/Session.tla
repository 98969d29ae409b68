------------------------------ MODULE Session ------------------------------
(***************************************************************************)
(* The LoRaWAN session of the node: what session.cpp keeps in flash and in *)
(* its file statics, and the part of radio.cpp and main.cpp that decides   *)
(* whether a cycle joins, resumes, transmits or stays quiet.               *)
(*                                                                         *)
(* The stored record holds a frame counter deliberately ahead of the live  *)
(* one, so that a reset resumes above everything already sent.  Writes,    *)
(* removals, formats, reads and MAC queries may fail at every call; power  *)
(* may be lost between any two steps; the brownout gate, which the         *)
(* Brownout module explains, is an input here, chosen anew on every wake.  *)
(*                                                                         *)
(* A function of session.cpp is an operator that returns the SET of its    *)
(* possible results.  A result carries the new value of `store`, so one    *)
(* step performs everything the call does.  A crash in the middle of a     *)
(* call needs no step of its own: RAM is lost, and the flash left behind   *)
(* by the completed prefix is also left behind when the remaining flash    *)
(* operations of the call fail.                                            *)
(***************************************************************************)
EXTENDS Naturals

CONSTANTS
  Margin,                     \* session.h kCounterMargin (32)
  WriteFailuresBeforeForget,  \* kCeilingWriteFailuresBeforeForget (3)
  RecoveryRetryCalls,         \* kFilesystemRecoveryRetryCalls (96)
  FailuresBeforeRejoin,       \* radio.cpp kFailuresBeforeRejoin (3)
  MaxSession,                 \* bound: sessions the network ever grants
  MaxCounter                  \* bound: counters at which a session is still used

ASSUME SessionAssumption ==
  /\ Margin \in Nat \ {0}
  /\ WriteFailuresBeforeForget \in Nat
  /\ RecoveryRetryCalls \in Nat
  /\ FailuresBeforeRejoin \in Nat \ {0}
  /\ MaxSession \in Nat \ {0}
  /\ MaxCounter \in Nat

VARIABLES
  phase,    \* where the one loop() thread is
  wake,     \* [gate, keepalive]: flash_write_allowed() and keepalive_due()
  store,    \* /session.bin and the file statics of session.cpp
  radio,    \* Radio's members [started, joined, failures]
  mac,      \* the session in the MAC: [addr, up], up the next FCntUp
  permits,  \* the one-shot tokens [join, checkpoint]
  net,      \* the newest session the network has granted: the one it honors
  used,     \* history: used[a] exceeds every counter sent under session a
  excused,  \* history: a frame was knowingly let past the stored ceiling
  escaped   \* history: a join was knowingly made past a stale stored session

vars == <<phase, wake, store, radio, mac, permits, net, used, excused, escaped>>

Phases == {"reset", "asleep", "ensure_joined", "prepare", "otaa", "send", "tx"}
Sessions == 0..MaxSession
Record == [addr : Sessions, up : Nat]   \* Stored: the fields resuming depends on
NoSession == [addr |-> 0, up |-> 0]

Stores == [file : SUBSET Record, ceiling : Nat, have : BOOLEAN, strikes : Nat,
           abandoned : BOOLEAN, blocked : BOOLEAN, cooldown : Nat]

\* The statics as a reset leaves them, beside whatever is in flash.
ColdStore(file) ==
  [file |-> file, ceiling |-> 0, have |-> FALSE, strikes |-> 0,
   abandoned |-> FALSE, blocked |-> FALSE, cooldown |-> 0]

-----------------------------------------------------------------------------
(* session.cpp.  A definition named Mutant... is a bug this code could have had: *)
(* it is used nowhere, and the runs must find what it breaks when it replaces   *)
(* the definition after it.                                                     *)

\* remove() without a proof of removal: the statics are cleared whatever happened.
MutantForget(s) == {[ok |-> TRUE, s |-> ColdStore(left)] : left \in {s.file, {}}}

\* forget(): only a removal that is proven clears the statics.
Forget(s) ==
  {[ok |-> TRUE,  s |-> ColdStore({})],
   [ok |-> FALSE, s |-> [s EXCEPT !.blocked = TRUE]]}

MutantRejectStoredSession(s) == {f.s : f \in Forget(s)}

\* reject_stored_session(): under a closed gate the file is kept and blocks.
RejectStoredSession(s) ==
  IF wake.gate THEN {f.s : f \in Forget(s)} ELSE {[s EXCEPT !.blocked = TRUE]}

\* restore(): a present record is applied, or some read or MIB call fails.  The
\* partly applied MAC state of a failed restore is never looked at again: the
\* MAC is not joined, and the next restore or join overwrites it.
Restore(s) ==
  {[joined |-> TRUE, mac |-> r,
    s |-> [s EXCEPT !.ceiling = r.up, !.have = TRUE, !.blocked = FALSE]] : r \in s.file}
  \cup {[joined |-> FALSE, mac |-> mac, s |-> t] :
          t \in RejectStoredSession(s) \cup (IF s.file = {} THEN {s} ELSE {})}

MutantResumePoint(m) == m

\* What is stored for a live session: a counter deliberately ahead of it.
ResumePoint(m) == [m EXCEPT !.up = @ + Margin]

Anchored(r) == [ColdStore({r}) EXCEPT !.ceiling = r.up, !.have = TRUE]

\* The ceiling advanced on the way to a write that then does not land.
MutantWriteSession(s, m, permitted) ==
  IF ~permitted /\ ~wake.gate
  THEN {[out |-> "GateWithheld", s |-> s]}
  ELSE {[out |-> "Failed", s |-> [s EXCEPT !.ceiling = ResumePoint(m).up]],
        [out |-> "Ok", s |-> Anchored(ResumePoint(m))]}

\* write_session(): the gate withholds, something fails and nothing changes, or
\* the record lands and the ceiling follows it.
WriteSession(s, m, permitted) ==
  IF ~permitted /\ ~wake.gate
  THEN {[out |-> "GateWithheld", s |-> s]}
  ELSE {[out |-> "Failed", s |-> s], [out |-> "Ok", s |-> Anchored(ResumePoint(m))]}

\* format_filesystem_and_rebuild_config(): a failed format may or may not have
\* erased the record, and RAM cannot tell.
FormatAndRebuild(s) ==
  IF ~wake.gate THEN {[ok |-> FALSE, s |-> s]}
  ELSE IF s.cooldown > 0 THEN {[ok |-> FALSE, s |-> [s EXCEPT !.cooldown = @ - 1]]}
  ELSE {[ok |-> TRUE, s |-> [ColdStore({}) EXCEPT !.cooldown = RecoveryRetryCalls]]}
       \cup {[ok |-> FALSE, s |-> [s EXCEPT !.cooldown = RecoveryRetryCalls, !.file = left]] :
               left \in {s.file, {}}}

\* rebuild_filesystem_and_reanchor(): true means the old file is gone, whether
\* or not the live session could be stored again.
RebuildAndReanchor(s) ==
  UNION {IF f.ok THEN {[ok |-> TRUE, s |-> w.s] : w \in WriteSession(f.s, mac, FALSE)}
                 ELSE {f} : f \in FormatAndRebuild(s)}

Prepared(prep, s, m, escape) == [prep |-> prep, s |-> s, mac |-> m, escape |-> escape]

\* The token asked before the gate: a leftover one escapes on a healthy cycle.
MutantClearTheWay(s, permitted) ==
  IF permitted
  THEN {Prepared("ReadyToJoin", f.s, mac, ~f.ok) : f \in Forget(s)}
  ELSE {Prepared(IF f.ok THEN "ReadyToJoin" ELSE "Blocked", f.s, mac, FALSE) :
          f \in FormatAndRebuild(s)}

\* The deferral as it was before the escape existed.
MutantNoEscape(s, permitted) ==
  {Prepared(IF f.ok THEN "ReadyToJoin" ELSE "Blocked", f.s, mac, FALSE) :
     f \in FormatAndRebuild(s)}

\* The last branches of prepare_fresh_join(), once the retry has failed too.
ClearTheWay(s, permitted) ==
  IF wake.gate
  THEN {Prepared(IF f.ok THEN "ReadyToJoin" ELSE "Blocked", f.s, mac, FALSE) :
          f \in FormatAndRebuild(s)}
  ELSE IF permitted
  THEN {Prepared("ReadyToJoin", f.s, mac, ~f.ok) : f \in Forget(s)}
  ELSE {Prepared("Blocked", s, mac, FALSE)}

PrepareFreshJoin(s, permitted) ==
  IF ~s.blocked THEN {Prepared("ReadyToJoin", s, mac, FALSE)}
  ELSE UNION {IF r.joined THEN {Prepared("SessionRestored", r.s, r.mac, FALSE)}
              ELSE IF r.s.blocked THEN ClearTheWay(r.s, permitted)
              ELSE {Prepared("ReadyToJoin", r.s, mac, FALSE)} : r \in Restore(s)}

Go(s, past) == [go |-> TRUE, past |-> past, s |-> s]
Refuse(s) == [go |-> FALSE, past |-> FALSE, s |-> s]

\* counter_headroom_ok() once the ceiling has been abandoned.
AbandonedHeadroom(s, permitted) ==
  IF permitted
  THEN UNION {IF w.out = "Ok" THEN {Go(w.s, FALSE)} ELSE {Go(f.s, ~f.ok) : f \in Forget(w.s)} :
                w \in WriteSession(s, mac, TRUE)}
  ELSE {Go(r.s, ~r.ok) : r \in RebuildAndReanchor(s)}

\* The exit of the ladder: remove, else repair, else transmit for reachability.
EscapeLadder(s, permitted) ==
  UNION {IF f.ok THEN {Go(f.s, FALSE)}
         ELSE IF permitted THEN {Go([f.s EXCEPT !.abandoned = TRUE], TRUE)}
         ELSE {IF r.ok THEN Go(r.s, FALSE) ELSE Go([r.s EXCEPT !.abandoned = TRUE], TRUE) :
                 r \in RebuildAndReanchor(f.s)} : f \in Forget(s)}

\* The ceiling refusal as it was before the ladder had an exit.
MutantAfterWrite(w, permitted) == {IF w.out = "Ok" THEN Go(w.s, FALSE) ELSE Refuse(w.s)}

\* The rest of counter_headroom_ok(), once the write it needs has been tried.
AfterWrite(w, permitted) ==
  CASE w.out = "Ok" -> {Go(w.s, FALSE)}
    [] w.out = "GateWithheld" -> {Refuse(w.s)}
    [] w.out = "Failed" /\ w.s.strikes < WriteFailuresBeforeForget ->
         {Refuse([w.s EXCEPT !.strikes = @ + 1])}
    [] w.out = "Failed" /\ w.s.strikes >= WriteFailuresBeforeForget ->
         EscapeLadder(w.s, permitted)

MutantBelowCeiling(s) == mac.up <= s.ceiling

\* Strictly: the stored counter is the one a reset resumes from.
BelowCeiling(s) == mac.up < s.ceiling

\* counter_headroom_ok(): `past` marks the answers that let a frame go although
\* the stored counter is not known to be ahead of it.
CounterHeadroomOk(s, permitted) ==
  IF ~s.have THEN {Go(s, FALSE)}
  ELSE {Go(s, TRUE)}                                \* the MAC cannot be read
       \cup (IF BelowCeiling(s) THEN {Go(s, FALSE)}
             ELSE IF s.abandoned THEN AbandonedHeadroom(s, permitted)
             ELSE UNION {AfterWrite(w, permitted) : w \in WriteSession(s, mac, permitted)})

-----------------------------------------------------------------------------
(* History: what the excuses above have done to the counters and sessions. *)

\* A stored or live counter has fallen behind a counter already on the air.
Overrun ==
  \/ \E r \in store.file : r.up < used[r.addr]
  \/ radio.joined /\ mac.up < used[mac.addr]

\* A stored or live session is one the network has since replaced.
Stale ==
  \/ \E r \in store.file : r.addr # net
  \/ radio.joined /\ mac.addr # net

\* An excuse lasts exactly as long as what it excuses.
History(past, escape) ==
  /\ excused' = ((excused \/ past) /\ (phase' = "tx" \/ Overrun'))
  /\ escaped' = ((escaped \/ escape) /\ (phase' = "otaa" \/ Stale'))

-----------------------------------------------------------------------------
(* radio.cpp and main.cpp *)

Init ==
  /\ phase = "reset"
  /\ wake \in [gate : BOOLEAN, keepalive : {FALSE}]
  /\ store = ColdStore({})
  /\ radio = [started |-> FALSE, joined |-> FALSE, failures |-> 0]
  /\ mac = NoSession
  /\ permits = [join |-> FALSE, checkpoint |-> FALSE]
  /\ net = 0
  /\ used = [a \in Sessions |-> 0]
  /\ excused = FALSE
  /\ escaped = FALSE

\* Any reset: watchdog, brownout, power loss.  The gate the next boot starts
\* under is the brownout bit in flash.
Crash(gate) ==
  /\ phase # "reset"
  /\ phase' = "reset"
  /\ wake' = [gate |-> gate, keepalive |-> FALSE]
  /\ store' = ColdStore(store.file)
  /\ radio' = [started |-> FALSE, joined |-> FALSE, failures |-> 0]
  /\ mac' = NoSession
  /\ permits' = [join |-> FALSE, checkpoint |-> FALSE]
  /\ UNCHANGED <<net, used>>
  /\ History(FALSE, FALSE)

\* Radio::begin(): the transceiver or the MAC may refuse to start; otherwise the
\* stored session is tried at once.
Begin ==
  \/ /\ UNCHANGED <<store, radio, mac>>
  \/ \E r \in Restore(store) :
       /\ store' = r.s
       /\ mac' = r.mac
       /\ radio' = [radio EXCEPT !.started = TRUE, !.joined = r.joined]

\* setup()
Setup ==
  /\ phase = "reset"
  /\ Begin
  /\ phase' = "asleep"
  /\ UNCHANGED <<wake, permits, net, used>>
  /\ History(FALSE, FALSE)

\* The top of loop(): a new reading moves the gate.  A held cycle and a cycle
\* with nothing to say end here; a keepalive is granted its join token first.
Wake(gate, keepalive, silent) ==
  /\ phase = "asleep"
  /\ keepalive => ~gate
  /\ wake' = [gate |-> gate, keepalive |-> keepalive]
  /\ permits' = [permits EXCEPT !.join = @ \/ keepalive]
  /\ phase' = IF (gate /\ ~silent) \/ keepalive THEN "ensure_joined" ELSE "asleep"
  /\ UNCHANGED <<store, radio, mac, net, used>>
  /\ History(FALSE, FALSE)

\* Returning from ensure_joined() with a session: main.cpp grants a keepalive its
\* checkpoint token immediately before radio.send().
EnterSend ==
  /\ phase' = "send"
  /\ permits' = [permits EXCEPT !.checkpoint = @ \/ wake.keepalive]

\* ensure_joined() with a session already held.
AlreadyJoined ==
  /\ phase = "ensure_joined"
  /\ radio.started
  /\ radio.joined
  /\ EnterSend
  /\ UNCHANGED <<wake, store, radio, mac, net, used>>
  /\ History(FALSE, FALSE)

\* ensure_joined() after a radio that failed to start in setup().
BeginAgain ==
  /\ phase = "ensure_joined"
  /\ ~radio.started
  /\ Begin
  /\ \/ radio'.joined /\ EnterSend
     \/ /\ ~radio'.joined
        /\ phase' = IF radio'.started THEN "prepare" ELSE "asleep"
        /\ UNCHANGED permits
  /\ UNCHANGED <<wake, net, used>>
  /\ History(FALSE, FALSE)

NotJoined ==
  /\ phase = "ensure_joined"
  /\ radio.started
  /\ ~radio.joined
  /\ phase' = "prepare"
  /\ UNCHANGED <<wake, store, radio, mac, permits, net, used>>
  /\ History(FALSE, FALSE)

\* The prepare_fresh_join() call of ensure_joined(), which consumes the token.
Prepare ==
  /\ phase = "prepare"
  /\ \E p \in PrepareFreshJoin(store, permits.join) :
       /\ store' = p.s
       /\ mac' = p.mac
       /\ \/ /\ p.prep = "SessionRestored"
             /\ radio' = [radio EXCEPT !.joined = TRUE, !.failures = 0]
             /\ phase' = "send"
             /\ permits' = [join |-> FALSE, checkpoint |-> wake.keepalive]
          \/ /\ p.prep # "SessionRestored"
             /\ phase' = IF p.prep = "ReadyToJoin" THEN "otaa" ELSE "asleep"
             /\ permits' = [permits EXCEPT !.join = FALSE]
             /\ UNCHANGED radio
       /\ UNCHANGED <<wake, net, used>>
       /\ History(FALSE, p.escape)

\* lmh_join() answered in time: a new session, stored at once if it can be.
JoinAccepted ==
  /\ phase = "otaa"
  /\ net < MaxSession
  /\ net' = net + 1
  /\ mac' = [addr |-> net + 1, up |-> 0]
  /\ \E w \in WriteSession(store, [addr |-> net + 1, up |-> 0], FALSE) : store' = w.s
  /\ radio' = [radio EXCEPT !.joined = TRUE, !.failures = 0]
  /\ EnterSend
  /\ UNCHANGED <<wake, used>>
  /\ History(FALSE, FALSE)

\* m_failures, saturated where the code stops telling its values apart.
CountFailure(n) == IF n < FailuresBeforeRejoin THEN n + 1 ELSE n

\* lmh_join() failed or outlasted its 30 s.  The network may have granted the
\* session all the same: the accept was lost, or it comes too late.
JoinFailed ==
  /\ phase = "otaa"
  /\ net' \in {net, net + 1} \cap Sessions
  /\ radio' = [radio EXCEPT !.failures = CountFailure(@)]
  /\ phase' = "asleep"
  /\ UNCHANGED <<wake, store, mac, permits, used>>
  /\ History(FALSE, FALSE)

\* The counter_headroom_ok() call of Radio::send(), which consumes its token.
Headroom ==
  /\ phase = "send"
  /\ mac.up < MaxCounter
  /\ permits' = [permits EXCEPT !.checkpoint = FALSE]
  /\ \E h \in CounterHeadroomOk(store, permits.checkpoint) :
       /\ store' = h.s
       /\ phase' = IF h.go THEN "tx" ELSE "asleep"
       /\ UNCHANGED <<wake, radio, mac, net, used>>
       /\ History(h.past, FALSE)

\* lmh_send() takes the frame: it goes out under the live counter.
SendOk ==
  /\ phase = "tx"
  /\ used' = [used EXCEPT ![mac.addr] = IF mac.up >= @ THEN mac.up + 1 ELSE @]
  /\ mac' = [mac EXCEPT !.up = @ + 1]
  /\ radio' = [radio EXCEPT !.failures = 0]
  /\ phase' = "asleep"
  /\ UNCHANGED <<wake, store, permits, net>>
  /\ History(FALSE, FALSE)

\* lmh_send() refuses: after FailuresBeforeRejoin in a row the session is dropped.
\* lmh_reset_mac() leaves the frame counters alone.
SendFailed ==
  /\ phase = "tx"
  /\ LET failures == CountFailure(radio.failures)
         drop == failures >= FailuresBeforeRejoin
     IN /\ radio' = [radio EXCEPT !.failures = failures, !.joined = @ /\ ~drop]
        /\ store' \in IF drop THEN {f.s : f \in Forget(store)} ELSE {store}
  /\ phase' = "asleep"
  /\ UNCHANGED <<wake, mac, permits, net, used>>
  /\ History(FALSE, FALSE)

Next ==
  \/ \E gate \in BOOLEAN : Crash(gate)
  \/ Setup
  \/ \E gate, keepalive, silent \in BOOLEAN : Wake(gate, keepalive, silent)
  \/ AlreadyJoined
  \/ BeginAgain
  \/ NotJoined
  \/ Prepare
  \/ JoinAccepted
  \/ JoinFailed
  \/ Headroom
  \/ SendOk
  \/ SendFailed

Spec == Init /\ [][Next]_vars

-----------------------------------------------------------------------------
(* Properties *)

TypeOK ==
  /\ phase \in Phases
  /\ wake \in [gate : BOOLEAN, keepalive : BOOLEAN]
  /\ store \in Stores
  /\ radio \in [started : BOOLEAN, joined : BOOLEAN, failures : Nat]
  /\ mac \in Record
  /\ permits \in [join : BOOLEAN, checkpoint : BOOLEAN]
  /\ net \in Sessions
  /\ used \in [Sessions -> Nat]
  /\ excused \in BOOLEAN
  /\ escaped \in BOOLEAN

\* Whatever happens next, a reset resumes at or above every counter this session
\* has put on the air, and the live counter never repeats one, unless a frame was
\* let past the ceiling on purpose and nothing has repaired that since.
NoReplay == Overrun => excused

\* A frame handed to the MAC is strictly below the stored counter: were it equal,
\* a reset after the transmission would send the same counter again.
StrictlyBelowStored ==
  (phase = "tx" /\ ~excused) => \A r \in store.file : r.addr = mac.addr => mac.up < r.up

\* The RAM ceiling and the file never disagree while a session is in use, and a
\* node that believes nothing is stored has no file of its own session to run past.
CeilingDescribesFile ==
  radio.joined => \A r \in store.file :
                    IF store.have THEN r.up = store.ceiling ELSE r.addr # mac.addr

\* The counter in use, if there is one.
Held == IF radio.joined THEN {mac} ELSE {}

R == INSTANCE Reserve WITH stable <- store.file, live <- Held, newest <- net, lapsed <- excused

\* Every step of the node is a step of module Reserve or none: whatever gate, permits,
\* ladder, format and resets do, the stored counter changes only to what is ahead of the
\* live one or to nothing, RAM resumes from it alone, and a frame goes out strictly below
\* it unless the ladder's exit has given that up.
ImplementsReserve == R!ReserveSpec

\* The stored and the live session are the one the network honors, unless a
\* keepalive joined past a file that could not be removed: a fresh join never
\* leaves a replaced session behind for the next reset to resume.
NoStaleSession == Stale => escaped

\* The join escape is taken on a keepalive cycle only, even though its token may
\* have been granted many cycles before it is consumed.
EscapeOnlyOnKeepalive == [][~escaped /\ escaped' => wake.keepalive]_vars

\* While the gate withholds flash writes nothing formats, and the record changes
\* only on a keepalive cycle.
FlashHeldByGate ==
  [][~wake'.gate => /\ store'.cooldown <= store.cooldown
                    /\ store'.file # store.file => wake'.keepalive]_vars

\* An uplink refused at the ceiling spends one of its strikes, and with the last of them
\* spent none is refused: neither a gate skip nor a failing flash silences the node there.
RefusalSpendsStrike ==
  [][phase = "send" /\ phase' = "asleep" =>
       /\ store.strikes < WriteFailuresBeforeForget
       /\ store'.strikes = store.strikes + 1]_vars

\* A keepalive of a held node is not deferred: once the transceiver has started, its
\* cycle resumes the stored session or joins, whatever the file and the flash do.
KeepaliveIsNotDeferred ==
  [][~wake.gate /\ phase \in {"ensure_joined", "prepare"} /\ phase' = "asleep" =>
       phase = "ensure_joined" /\ ~radio'.started]_vars
=============================================================================
