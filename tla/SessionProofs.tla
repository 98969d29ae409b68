--------------------------- MODULE SessionProofs ---------------------------
(***************************************************************************)
(* The properties of Session, proved for every value of its constants.     *)
(* The functions of session.cpp come first: one lemma says what each of    *)
(* them may return.  The steps of the loop follow, and then the theorems.  *)
(***************************************************************************)
EXTENDS Session, TLAPS

OneRecord(s) == \A q, r \in s.file : q = r

\* The RAM ceiling is the stored counter whenever something is known to be stored.
CeilingIsStored(s) == s.have => \A r \in s.file : r.up = s.ceiling

\* Where the loop is says what it knows.
PhaseKnows ==
  /\ phase \in {"send", "tx"} => radio.joined
  /\ phase \in {"prepare", "otaa"} => radio.started /\ ~radio.joined
  /\ radio.joined => radio.started
  /\ phase = "reset" => ~radio.started
  /\ phase \in {"ensure_joined", "prepare", "otaa", "send", "tx"} => wake.gate \/ wake.keepalive
  /\ phase \in {"ensure_joined", "prepare"} => wake.gate \/ permits.join
  /\ phase = "send" => wake.gate \/ permits.checkpoint

StoreKnows ==
  /\ OneRecord(store)
  /\ CeilingIsStored(store)
  /\ radio.joined /\ ~store.have => \A r \in store.file : r.addr # mac.addr
  /\ radio.started /\ ~radio.joined /\ ~store.blocked => store.file = {}
  /\ phase = "otaa" /\ ~escaped => store.file = {}

\* Nothing precedes the network: no address it has not granted is known or used.
NetworkFirst ==
  /\ \A r \in store.file : r.addr <= net
  /\ radio.joined => mac.addr <= net
  /\ \A a \in Sessions : a > net => used[a] = 0

IInv ==
  /\ TypeOK
  /\ PhaseKnows
  /\ StoreKnows
  /\ NetworkFirst
  /\ NoReplay
  /\ StrictlyBelowStored
  /\ NoStaleSession

-----------------------------------------------------------------------------
(* What the functions of session.cpp return *)

\* A call that stores nothing new: it may remove the record, and it may clear the
\* statics only together with the record.
Keeps(s, t) ==
  /\ t \in Stores
  /\ t.file \subseteq s.file
  /\ CeilingIsStored(t)
  /\ ~t.have => ~s.have \/ t.file = {}

(* Two such calls in a row are one. *)
LEMMA KeepsTransitive ==
  ASSUME NEW s, NEW t, NEW u, Keeps(s, t), Keeps(t, u)
  PROVE  Keeps(s, u)
  BY DEF Keeps

(* A call that does nothing keeps everything. *)
LEMMA KeepsReflexive ==
  ASSUME NEW s \in Stores, CeilingIsStored(s)
  PROVE  Keeps(s, s)
  BY DEF Keeps

(* The statics after a reset, or after a proven removal. *)
LEMMA ColdFacts ==
  ASSUME NEW file \in SUBSET Record
  PROVE  /\ ColdStore(file) \in Stores
         /\ ColdStore(file).file = file
         /\ ~ColdStore(file).have
         /\ ~ColdStore(file).blocked
         /\ ColdStore(file).strikes = 0
         /\ ColdStore(file).cooldown = 0
  BY DEF ColdStore, Stores

(* With no record stored, the cold statics are right about the file. *)
LEMMA ColdEmpty ==
  ASSUME NEW s
  PROVE  Keeps(s, ColdStore({}))
  BY ColdFacts DEF Keeps, CeilingIsStored

(* Blocking the next join changes nothing else. *)
LEMMA BlockFacts ==
  ASSUME NEW s \in Stores, CeilingIsStored(s), NEW t, t = [s EXCEPT !.blocked = TRUE]
  PROVE  /\ Keeps(s, t)
         /\ t.file = s.file
         /\ t.blocked
         /\ t.have = s.have
         /\ t.cooldown = s.cooldown
  BY DEF Stores, Keeps, CeilingIsStored

(* forget() clears only what it has proved gone. *)
LEMMA ForgetFacts ==
  ASSUME NEW s \in Stores, CeilingIsStored(s), NEW f \in Forget(s)
  PROVE  /\ f.ok \in BOOLEAN
         /\ Keeps(s, f.s)
         /\ f.ok => f.s.file = {} /\ ~f.s.have /\ ~f.s.blocked
         /\ ~f.ok => f.s.file = s.file /\ f.s.blocked
         /\ f.s.cooldown <= s.cooldown
  <1>1. CASE f = [ok |-> TRUE, s |-> ColdStore({})]
    <2>1. f.ok = TRUE /\ f.s = ColdStore({})
      BY <1>1
    <2>2. f.s.cooldown <= s.cooldown
      BY <2>1, ColdFacts DEF Stores
    <2> QED BY <2>1, <2>2, ColdFacts, ColdEmpty
  <1>2. CASE f = [ok |-> FALSE, s |-> [s EXCEPT !.blocked = TRUE]]
    <2>1. f.ok = FALSE /\ f.s = [s EXCEPT !.blocked = TRUE]
      BY <1>2
    <2>2. Keeps(s, f.s) /\ f.s.file = s.file /\ f.s.blocked /\ f.s.cooldown = s.cooldown
      BY <2>1, BlockFacts
    <2>3. f.s.cooldown <= s.cooldown
      BY <2>2 DEF Stores
    <2> QED BY <2>1, <2>2, <2>3
  <1> QED BY <1>1, <1>2 DEF Forget

(* reject_stored_session() removes the record or blocks the join it would spoil. *)
LEMMA RejectFacts ==
  ASSUME NEW s \in Stores, CeilingIsStored(s), NEW t \in RejectStoredSession(s)
  PROVE  /\ Keeps(s, t)
         /\ t.blocked \/ t.file = {}
         /\ t.cooldown <= s.cooldown
         /\ ~wake.gate => t.file = s.file
  <1>1. CASE wake.gate
    <2>1. PICK f \in Forget(s) : t = f.s
      BY <1>1 DEF RejectStoredSession
    <2> QED BY <1>1, <2>1, ForgetFacts
  <1>2. CASE ~wake.gate
    <2>1. t = [s EXCEPT !.blocked = TRUE]
      BY <1>2 DEF RejectStoredSession
    <2>2. s.cooldown \in Nat
      BY DEF Stores
    <2> QED BY <2>1, <2>2, BlockFacts
  <1> QED BY <1>1, <1>2

(* restore() resumes a stored record or leaves none that could be resumed later. *)
LEMMA RestoreFacts ==
  ASSUME NEW s \in Stores, CeilingIsStored(s), OneRecord(s), NEW r \in Restore(s)
  PROVE  /\ r.joined \in BOOLEAN
         /\ Keeps(s, r.s)
         /\ r.s.cooldown <= s.cooldown
         /\ ~wake.gate => r.s.file = s.file
         /\ r.joined => r.mac \in s.file /\ r.s.file = s.file /\ r.s.have
         /\ ~r.joined => r.mac = mac /\ (r.s.blocked \/ r.s.file = {})
  <1>0. s.cooldown \in Nat
    BY DEF Stores
  <1>1. ASSUME NEW q \in s.file,
               r = [joined |-> TRUE, mac |-> q,
                    s |-> [s EXCEPT !.ceiling = q.up, !.have = TRUE, !.blocked = FALSE]]
        PROVE  /\ r.joined = TRUE
               /\ r.mac = q
               /\ r.s \in Stores
               /\ r.s.file = s.file
               /\ r.s.ceiling = q.up
               /\ r.s.have
               /\ r.s.cooldown = s.cooldown
    <2>1. q.up \in Nat
      BY DEF Stores, Record
    <2> QED BY <1>1, <2>1 DEF Stores
  <1>2. ASSUME NEW q \in s.file,
               r = [joined |-> TRUE, mac |-> q,
                    s |-> [s EXCEPT !.ceiling = q.up, !.have = TRUE, !.blocked = FALSE]]
        PROVE  Keeps(s, r.s)
    BY <1>1, <1>2 DEF Keeps, CeilingIsStored, OneRecord
  <1>3. ASSUME NEW t \in RejectStoredSession(s) \cup (IF s.file = {} THEN {s} ELSE {}),
               r = [joined |-> FALSE, mac |-> mac, s |-> t]
        PROVE  /\ r.joined = FALSE
               /\ r.mac = mac
               /\ Keeps(s, r.s)
               /\ r.s.cooldown <= s.cooldown
               /\ ~wake.gate => r.s.file = s.file
               /\ r.s.blocked \/ r.s.file = {}
    <2>1. r.joined = FALSE /\ r.mac = mac /\ r.s = t
      BY <1>3
    <2>2. CASE t \in RejectStoredSession(s)
      BY <2>1, <2>2, RejectFacts
    <2>3. CASE s.file = {} /\ t = s
      BY <1>0, <2>1, <2>3, KeepsReflexive
    <2> QED BY <2>1, <2>2, <2>3
  <1>4. CASE \E q \in s.file :
               r = [joined |-> TRUE, mac |-> q,
                    s |-> [s EXCEPT !.ceiling = q.up, !.have = TRUE, !.blocked = FALSE]]
    <2>1. PICK q \in s.file :
               r = [joined |-> TRUE, mac |-> q,
                    s |-> [s EXCEPT !.ceiling = q.up, !.have = TRUE, !.blocked = FALSE]]
      BY <1>4
    <2>2. r.joined = TRUE /\ r.mac = q /\ r.s.have /\ Keeps(s, r.s)
          /\ r.s.file = s.file /\ r.s.cooldown = s.cooldown
      BY <1>1, <1>2, <2>1
    <2>3. r.s.cooldown <= s.cooldown
      BY <1>0, <2>2
    <2> QED BY <2>1, <2>2, <2>3
  <1>5. CASE \E t \in RejectStoredSession(s) \cup (IF s.file = {} THEN {s} ELSE {}) :
               r = [joined |-> FALSE, mac |-> mac, s |-> t]
    BY <1>3, <1>5
  <1> QED BY <1>4, <1>5 DEF Restore

(* The record that a write leaves: ahead of the live counter by the margin. *)
LEMMA AnchoredFacts ==
  ASSUME NEW m \in Record, NEW t, t = Anchored(ResumePoint(m))
  PROVE  /\ t \in Stores
         /\ t.file = {ResumePoint(m)}
         /\ ResumePoint(m) \in Record
         /\ ResumePoint(m).addr = m.addr
         /\ ResumePoint(m).up > m.up
         /\ OneRecord(t) /\ CeilingIsStored(t) /\ t.have
         /\ t.cooldown = 0
  <1>1. /\ ResumePoint(m) \in Record
        /\ ResumePoint(m).addr = m.addr
        /\ ResumePoint(m).up > m.up
        /\ ResumePoint(m).up \in Nat
    BY SessionAssumption DEF SessionAssumption, ResumePoint, Record
  <1>2. /\ t \in Stores
        /\ t.file = {ResumePoint(m)}
        /\ t.ceiling = ResumePoint(m).up
        /\ t.have
        /\ t.cooldown = 0
    BY <1>1 DEF Anchored, ColdStore, Stores
  <1> QED BY <1>1, <1>2 DEF OneRecord, CeilingIsStored

(* write_session() anchors the session or changes nothing. *)
LEMMA WriteFacts ==
  ASSUME NEW s, NEW m, NEW p \in BOOLEAN, NEW w \in WriteSession(s, m, p)
  PROVE  \/ w.out = "Ok" /\ w.s = Anchored(ResumePoint(m))
         \/ w.out = "Failed" /\ w.s = s
         \/ w.out = "GateWithheld" /\ w.s = s /\ ~p /\ ~wake.gate
  BY DEF WriteSession

(* format_filesystem_and_rebuild_config() never touches anything under a closed gate. *)
LEMMA FormatFacts ==
  ASSUME NEW s \in Stores, CeilingIsStored(s), NEW f \in FormatAndRebuild(s)
  PROVE  /\ f.ok \in BOOLEAN
         /\ Keeps(s, f.s)
         /\ f.ok => f.s.file = {} /\ ~f.s.have /\ ~f.s.blocked
         /\ ~f.ok => f.s.blocked = s.blocked /\ f.s.strikes = s.strikes
         /\ ~wake.gate => ~f.ok /\ f.s = s
  <1>1. CASE f = [ok |-> FALSE, s |-> s] /\ ~wake.gate
    <2>1. f.ok = FALSE /\ f.s = s
      BY <1>1
    <2> QED BY <1>1, <2>1, KeepsReflexive
  <1>2. CASE f = [ok |-> FALSE, s |-> [s EXCEPT !.cooldown = @ - 1]] /\ s.cooldown > 0 /\ wake.gate
    <2>1. f.ok = FALSE /\ f.s = [s EXCEPT !.cooldown = @ - 1]
      BY <1>2
    <2>2. s.cooldown - 1 \in Nat
      BY <1>2 DEF Stores
    <2>3. f.s \in Stores /\ f.s.file = s.file /\ f.s.have = s.have /\ f.s.ceiling = s.ceiling
          /\ f.s.blocked = s.blocked /\ f.s.strikes = s.strikes
      BY <2>1, <2>2 DEF Stores
    <2>4. Keeps(s, f.s)
      BY <2>3 DEF Keeps, CeilingIsStored
    <2> QED BY <1>2, <2>1, <2>3, <2>4
  <1>3. CASE f = [ok |-> TRUE, s |-> [ColdStore({}) EXCEPT !.cooldown = RecoveryRetryCalls]] /\ wake.gate
    <2>1. f.ok = TRUE /\ f.s = [ColdStore({}) EXCEPT !.cooldown = RecoveryRetryCalls]
      BY <1>3
    <2>0. f.s = [file |-> {}, ceiling |-> 0, have |-> FALSE, strikes |-> 0, abandoned |-> FALSE,
                 blocked |-> FALSE, cooldown |-> RecoveryRetryCalls]
      BY <2>1 DEF ColdStore
    <2>2. f.s \in Stores /\ f.s.file = {} /\ f.s.have = FALSE /\ f.s.blocked = FALSE
      BY <2>0, SessionAssumption DEF SessionAssumption, Stores
    <2>3. Keeps(s, f.s)
      BY <2>2 DEF Keeps, CeilingIsStored
    <2> QED BY <1>3, <2>1, <2>2, <2>3
  <1>4. ASSUME NEW left \in {s.file, {}}, wake.gate,
               f = [ok |-> FALSE, s |-> [s EXCEPT !.cooldown = RecoveryRetryCalls, !.file = left]]
        PROVE  /\ f.ok = FALSE
               /\ Keeps(s, f.s)
               /\ f.s.blocked = s.blocked /\ f.s.strikes = s.strikes
    <2>1. f.ok = FALSE /\ f.s = [s EXCEPT !.cooldown = RecoveryRetryCalls, !.file = left]
      BY <1>4
    <2>2. left \in SUBSET Record /\ left \subseteq s.file
      BY DEF Stores
    <2>3. f.s \in Stores /\ f.s.file = left /\ f.s.have = s.have /\ f.s.ceiling = s.ceiling
          /\ f.s.blocked = s.blocked /\ f.s.strikes = s.strikes
      BY <2>1, <2>2, SessionAssumption DEF SessionAssumption, Stores
    <2>4. Keeps(s, f.s)
      BY <2>2, <2>3 DEF Keeps, CeilingIsStored
    <2> QED BY <2>1, <2>3, <2>4
  <1>5. CASE wake.gate /\ \E left \in {s.file, {}} :
               f = [ok |-> FALSE, s |-> [s EXCEPT !.cooldown = RecoveryRetryCalls, !.file = left]]
    <2>1. f.ok = FALSE /\ Keeps(s, f.s) /\ f.s.blocked = s.blocked /\ f.s.strikes = s.strikes
      BY <1>4, <1>5
    <2> QED BY <1>5, <2>1
  <1> QED BY <1>1, <1>2, <1>3, <1>5 DEF FormatAndRebuild

\* A call that keeps the record, or anchors the live session.
KeepsOrAnchors(s, t) == Keeps(s, t) \/ t = Anchored(ResumePoint(mac))

(* rebuild_filesystem_and_reanchor(): without a repair nothing is anchored. *)
LEMMA UnrepairedFacts ==
  ASSUME NEW s \in Stores, CeilingIsStored(s), NEW r \in RebuildAndReanchor(s), ~r.ok
  PROVE  Keeps(s, r.s)
  <1>1. PICK f \in FormatAndRebuild(s) :
          r \in IF f.ok THEN {[ok |-> TRUE, s |-> w.s] : w \in WriteSession(f.s, mac, FALSE)} ELSE {f}
    BY DEF RebuildAndReanchor
  <1>2. CASE f.ok
    <2>1. PICK w \in WriteSession(f.s, mac, FALSE) : r = [ok |-> TRUE, s |-> w.s]
      BY <1>1, <1>2
    <2>2. r.ok = TRUE
      BY <2>1
    <2> QED BY <2>2
  <1>3. CASE ~f.ok
    <2>1. r = f
      BY <1>1, <1>3
    <2> QED BY <1>1, <2>1, FormatFacts
  <1> QED BY <1>2, <1>3

(* rebuild_filesystem_and_reanchor(): after TRUE, the old record is gone. *)
LEMMA RebuildFacts ==
  ASSUME NEW s \in Stores, CeilingIsStored(s), NEW r \in RebuildAndReanchor(s)
  PROVE  /\ r.ok \in BOOLEAN
         /\ KeepsOrAnchors(s, r.s)
         /\ r.ok => r.s.file = {} \/ r.s = Anchored(ResumePoint(mac))
         /\ ~wake.gate => ~r.ok /\ r.s = s
  <1>1. PICK f \in FormatAndRebuild(s) :
          r \in IF f.ok THEN {[ok |-> TRUE, s |-> w.s] : w \in WriteSession(f.s, mac, FALSE)} ELSE {f}
    BY DEF RebuildAndReanchor
  <1>2. CASE f.ok
    <2>1. PICK w \in WriteSession(f.s, mac, FALSE) : r = [ok |-> TRUE, s |-> w.s]
      BY <1>1, <1>2
    <2>2. r.ok = TRUE /\ r.s = w.s
      BY <2>1
    <2>3. w.s = f.s \/ w.s = Anchored(ResumePoint(mac))
      BY <2>1, WriteFacts
    <2>4. Keeps(s, f.s) /\ f.s.file = {} /\ wake.gate
      BY <1>1, <1>2, FormatFacts
    <2> QED BY <2>2, <2>3, <2>4 DEF KeepsOrAnchors
  <1>3. CASE ~f.ok
    <2>1. r = f
      BY <1>1, <1>3
    <2> QED BY <1>1, <1>3, <2>1, FormatFacts DEF KeepsOrAnchors
  <1> QED BY <1>2, <1>3

-----------------------------------------------------------------------------
(* prepare_fresh_join() *)

\* What every answer of prepare_fresh_join() but "SessionRestored" leaves behind.
JoinDecision(s, p) ==
  /\ p.prep \in {"ReadyToJoin", "Blocked"}
  /\ p.mac = mac
  /\ p.escape \in BOOLEAN
  /\ p.escape => ~wake.gate /\ p.prep = "ReadyToJoin"
  /\ Keeps(s, p.s)
  /\ ~wake.gate => p.s.cooldown <= s.cooldown
  /\ p.prep = "ReadyToJoin" /\ ~p.escape => p.s.file = {}
  /\ p.s.blocked \/ p.s.file = {}

(* The last branches: a record survives "ReadyToJoin" only when the escape is marked. *)
LEMMA ClearFacts ==
  ASSUME NEW s \in Stores, CeilingIsStored(s), s.blocked,
         NEW permitted \in BOOLEAN, NEW p \in ClearTheWay(s, permitted)
  PROVE  JoinDecision(s, p)
  <1>0. s.cooldown \in Nat
    BY DEF Stores
  <1>1. CASE wake.gate
    <2>1. PICK f \in FormatAndRebuild(s) :
            p = Prepared(IF f.ok THEN "ReadyToJoin" ELSE "Blocked", f.s, mac, FALSE)
      BY <1>1 DEF ClearTheWay
    <2>2. /\ p.prep = IF f.ok THEN "ReadyToJoin" ELSE "Blocked"
          /\ p.s = f.s
          /\ p.mac = mac
          /\ p.escape = FALSE
      BY <2>1 DEF Prepared
    <2>3. /\ f.ok \in BOOLEAN
          /\ Keeps(s, f.s)
          /\ f.ok => f.s.file = {}
          /\ ~f.ok => f.s.blocked
      BY <2>1, FormatFacts
    <2> QED BY <1>1, <2>2, <2>3 DEF JoinDecision
  <1>2. CASE ~wake.gate /\ permitted
    <2>1. PICK f \in Forget(s) : p = Prepared("ReadyToJoin", f.s, mac, ~f.ok)
      BY <1>2 DEF ClearTheWay
    <2>2. p.prep = "ReadyToJoin" /\ p.s = f.s /\ p.mac = mac /\ p.escape = ~f.ok
      BY <2>1 DEF Prepared
    <2>3. /\ f.ok \in BOOLEAN
          /\ Keeps(s, f.s)
          /\ f.s.cooldown <= s.cooldown
          /\ f.ok => f.s.file = {}
          /\ ~f.ok => f.s.blocked
      BY <2>1, ForgetFacts
    <2> QED BY <1>2, <2>2, <2>3 DEF JoinDecision
  <1>3. CASE ~wake.gate /\ ~permitted
    <2>1. p = Prepared("Blocked", s, mac, FALSE)
      BY <1>3 DEF ClearTheWay
    <2>2. p.prep = "Blocked" /\ p.s = s /\ p.mac = mac /\ p.escape = FALSE
      BY <2>1 DEF Prepared
    <2>3. Keeps(s, p.s) /\ p.s.cooldown <= s.cooldown
      BY <1>0, <2>2, KeepsReflexive
    <2> QED BY <1>0, <1>3, <2>2, <2>3 DEF JoinDecision
  <1> QED BY <1>1, <1>2, <1>3

(* prepare_fresh_join(): the stored session is resumed, or the join is decided. *)
LEMMA PrepareFacts ==
  ASSUME NEW s \in Stores, CeilingIsStored(s), OneRecord(s), s.blocked \/ s.file = {},
         NEW permitted \in BOOLEAN, NEW p \in PrepareFreshJoin(s, permitted)
  PROVE  \/ JoinDecision(s, p)
         \/ /\ p.prep = "SessionRestored"
            /\ p.mac \in s.file
            /\ p.escape = FALSE
            /\ Keeps(s, p.s)
            /\ p.s.file = s.file
            /\ p.s.have
            /\ p.s.cooldown <= s.cooldown
  <1>0. s.cooldown \in Nat
    BY DEF Stores
  <1>1. CASE ~s.blocked
    <2>1. p = Prepared("ReadyToJoin", s, mac, FALSE)
      BY <1>1 DEF PrepareFreshJoin
    <2>2. p.prep = "ReadyToJoin" /\ p.s = s /\ p.mac = mac /\ p.escape = FALSE
      BY <2>1 DEF Prepared
    <2>3. Keeps(s, p.s) /\ p.s.cooldown <= s.cooldown /\ p.s.file = {}
      BY <1>0, <1>1, <2>2, KeepsReflexive
    <2> QED BY <2>2, <2>3 DEF JoinDecision
  <1>2. CASE s.blocked
    <2>1. PICK r \in Restore(s) :
            p \in IF r.joined THEN {Prepared("SessionRestored", r.s, r.mac, FALSE)}
                  ELSE IF r.s.blocked THEN ClearTheWay(r.s, permitted)
                  ELSE {Prepared("ReadyToJoin", r.s, mac, FALSE)}
      BY <1>2 DEF PrepareFreshJoin
    <2>2. /\ Keeps(s, r.s)
          /\ r.s.cooldown <= s.cooldown
          /\ r.joined => r.mac \in s.file /\ r.s.file = s.file /\ r.s.have
          /\ ~r.joined => r.s.blocked \/ r.s.file = {}
      BY <2>1, RestoreFacts
    <2>3. CASE r.joined
      <3>1. p = Prepared("SessionRestored", r.s, r.mac, FALSE)
        BY <2>1, <2>3
      <3>2. p.prep = "SessionRestored" /\ p.s = r.s /\ p.mac = r.mac /\ p.escape = FALSE
        BY <3>1 DEF Prepared
      <3> QED BY <2>2, <2>3, <3>2
    <2>4. CASE ~r.joined /\ r.s.blocked
      <3>1. p \in ClearTheWay(r.s, permitted)
        BY <2>1, <2>4
      <3>2. r.s \in Stores /\ CeilingIsStored(r.s)
        BY <2>2 DEF Keeps
      <3>3. JoinDecision(r.s, p)
        BY <2>4, <3>1, <3>2, ClearFacts
      <3>4. Keeps(s, p.s)
        BY <2>2, <3>3, KeepsTransitive DEF JoinDecision
      <3>5. ~wake.gate => p.s.cooldown <= s.cooldown
        BY <1>0, <2>2, <3>2, <3>3 DEF JoinDecision, Keeps, Stores
      <3> QED BY <3>3, <3>4, <3>5 DEF JoinDecision
    <2>5. CASE ~r.joined /\ ~r.s.blocked
      <3>1. p = Prepared("ReadyToJoin", r.s, mac, FALSE)
        BY <2>1, <2>5
      <3>2. p.prep = "ReadyToJoin" /\ p.s = r.s /\ p.mac = mac /\ p.escape = FALSE
        BY <3>1 DEF Prepared
      <3> QED BY <2>2, <2>5, <3>2 DEF JoinDecision
    <2> QED BY <2>3, <2>4, <2>5
  <1> QED BY <1>1, <1>2

-----------------------------------------------------------------------------
(* counter_headroom_ok() *)

\* The live counter is strictly below the counter stored for its session.
Below(t) == \A r \in t.file : r.addr = mac.addr => mac.up < r.up

\* What counter_headroom_ok() may answer.
HeadroomAnswer(s, h) ==
  /\ h.go \in BOOLEAN
  /\ h.past \in BOOLEAN
  /\ KeepsOrAnchors(s, h.s)
  /\ h.go /\ ~h.past => Below(h.s)
  /\ h.past => h.go /\ Keeps(s, h.s)
  /\ ~h.go => /\ ~h.past
              /\ s.strikes < WriteFailuresBeforeForget
              /\ h.s.strikes = s.strikes + 1
              /\ h.s.file = s.file
  /\ ~wake.gate => h.s.cooldown <= s.cooldown

(* The two shapes of an answer. *)
LEMMA GoFacts ==
  ASSUME NEW t, NEW past \in BOOLEAN, NEW h, h = Go(t, past)
  PROVE  h.go = TRUE /\ h.past = past /\ h.s = t
  BY DEF Go

(* What a refusal carries. *)
LEMMA RefuseFacts ==
  ASSUME NEW t, NEW h, h = Refuse(t)
  PROVE  h.go = FALSE /\ h.past = FALSE /\ h.s = t
  BY DEF Refuse

(* Anchoring the live session leaves the headroom the answer claims. *)
LEMMA AnchorFacts ==
  ASSUME mac \in Record, NEW s \in Stores, NEW t, t = Anchored(ResumePoint(mac))
  PROVE  KeepsOrAnchors(s, t) /\ Below(t) /\ t.cooldown <= s.cooldown
  <1>1. t.file = {ResumePoint(mac)} /\ ResumePoint(mac).up > mac.up /\ t.cooldown = 0
    BY AnchoredFacts
  <1>2. s.cooldown \in Nat
    BY DEF Stores
  <1> QED BY <1>1, <1>2 DEF KeepsOrAnchors, Below

(* With no record there is nothing a reset could resume. *)
LEMMA EmptyIsBelow ==
  ASSUME NEW t, t.file = {}
  PROVE  Below(t)
  BY DEF Below

(* After a repair the counter is anchored or nothing is stored; without one the
   answer says so. *)
LEMMA RepairedFacts ==
  ASSUME mac \in Record, NEW s \in Stores, CeilingIsStored(s),
         NEW r \in RebuildAndReanchor(s)
  PROVE  /\ r.ok \in BOOLEAN
         /\ KeepsOrAnchors(s, r.s)
         /\ r.ok => Below(r.s)
         /\ ~wake.gate => r.s.cooldown <= s.cooldown
  <1>1. s.cooldown \in Nat
    BY DEF Stores
  <1> QED BY <1>1, RebuildFacts, AnchorFacts, EmptyIsBelow

(* Giving the ceiling up changes nothing that is stored. *)
LEMMA AbandonFacts ==
  ASSUME NEW s \in Stores, CeilingIsStored(s), NEW t, t = [s EXCEPT !.abandoned = TRUE]
  PROVE  Keeps(s, t) /\ t.cooldown = s.cooldown
  BY DEF Stores, Keeps, CeilingIsStored

(* Past an abandoned ceiling every frame goes; the answer says what it costs. *)
LEMMA AbandonedFacts ==
  ASSUME mac \in Record, NEW s \in Stores, CeilingIsStored(s), NEW permitted \in BOOLEAN,
         NEW h \in AbandonedHeadroom(s, permitted)
  PROVE  HeadroomAnswer(s, h)
  <1>0. s.cooldown \in Nat
    BY DEF Stores
  <1>1. CASE permitted
    <2>1. PICK w \in WriteSession(s, mac, TRUE) :
            h \in IF w.out = "Ok" THEN {Go(w.s, FALSE)} ELSE {Go(f.s, ~f.ok) : f \in Forget(w.s)}
      BY <1>1 DEF AbandonedHeadroom
    <2>2. \/ w.out = "Ok" /\ w.s = Anchored(ResumePoint(mac))
          \/ w.out # "Ok" /\ w.s = s
      BY <2>1, WriteFacts
    <2>3. CASE w.out = "Ok"
      <3>1. h = Go(w.s, FALSE)
        BY <2>1, <2>3
      <3>2. h.go = TRUE /\ h.past = FALSE /\ h.s = w.s
        BY <3>1, GoFacts
      <3> QED BY <2>2, <2>3, <3>2, AnchorFacts DEF HeadroomAnswer
    <2>4. CASE w.out # "Ok"
      <3>1. PICK f \in Forget(s) : h = Go(f.s, ~f.ok)
        BY <2>1, <2>2, <2>4
      <3>2. f.ok \in BOOLEAN /\ Keeps(s, f.s) /\ f.s.cooldown <= s.cooldown
            /\ (f.ok => f.s.file = {})
        BY <3>1, ForgetFacts
      <3>3. (~f.ok) \in BOOLEAN
        OBVIOUS
      <3>4. h.go = TRUE /\ (h.past <=> ~f.ok) /\ h.past \in BOOLEAN /\ h.s = f.s
        BY <3>1, <3>3, GoFacts
      <3> QED BY <3>2, <3>4, EmptyIsBelow DEF HeadroomAnswer, KeepsOrAnchors
    <2> QED BY <2>3, <2>4
  <1>2. CASE ~permitted
    <2>1. PICK r \in RebuildAndReanchor(s) : h = Go(r.s, ~r.ok)
      BY <1>2 DEF AbandonedHeadroom
    <2>2. r.ok \in BOOLEAN /\ KeepsOrAnchors(s, r.s) /\ (r.ok => Below(r.s))
          /\ (~wake.gate => r.s.cooldown <= s.cooldown)
      BY <2>1, RepairedFacts
    <2>3. (~r.ok) \in BOOLEAN
      OBVIOUS
    <2>4. h.go = TRUE /\ (h.past <=> ~r.ok) /\ h.past \in BOOLEAN /\ h.s = r.s
      BY <2>1, <2>3, GoFacts
    <2>5. h.past => Keeps(s, h.s)
      BY <2>1, <2>4, UnrepairedFacts
    <2> QED BY <2>2, <2>4, <2>5 DEF HeadroomAnswer
  <1> QED BY <1>1, <1>2

(* The exit of the ladder never refuses. *)
LEMMA LadderFacts ==
  ASSUME mac \in Record, NEW s \in Stores, CeilingIsStored(s), NEW permitted \in BOOLEAN,
         NEW h \in EscapeLadder(s, permitted)
  PROVE  HeadroomAnswer(s, h)
  <1>0. s.cooldown \in Nat
    BY DEF Stores
  <1>1. PICK f \in Forget(s) :
          h \in IF f.ok THEN {Go(f.s, FALSE)}
                ELSE IF permitted THEN {Go([f.s EXCEPT !.abandoned = TRUE], TRUE)}
                ELSE {IF r.ok THEN Go(r.s, FALSE) ELSE Go([r.s EXCEPT !.abandoned = TRUE], TRUE) :
                        r \in RebuildAndReanchor(f.s)}
    BY DEF EscapeLadder
  <1>2. /\ f.ok \in BOOLEAN
        /\ Keeps(s, f.s)
        /\ f.s.cooldown <= s.cooldown
        /\ f.ok => f.s.file = {}
        /\ f.s \in Stores
        /\ CeilingIsStored(f.s)
    BY <1>1, ForgetFacts DEF Keeps
  <1>3. CASE f.ok
    <2>1. h = Go(f.s, FALSE)
      BY <1>1, <1>3
    <2>2. h.go = TRUE /\ h.past = FALSE /\ h.s = f.s
      BY <2>1, GoFacts
    <2> QED BY <1>2, <1>3, <2>2, EmptyIsBelow DEF HeadroomAnswer, KeepsOrAnchors
  <1>4. CASE ~f.ok /\ permitted
    <2>1. h = Go([f.s EXCEPT !.abandoned = TRUE], TRUE)
      BY <1>1, <1>4
    <2>2. h.go = TRUE /\ h.past = TRUE /\ h.s = [f.s EXCEPT !.abandoned = TRUE]
      BY <2>1, GoFacts
    <2>3. Keeps(f.s, h.s) /\ h.s.cooldown = f.s.cooldown
      BY <1>2, <2>2, AbandonFacts
    <2>4. Keeps(s, h.s)
      BY <1>2, <2>3, KeepsTransitive
    <2> QED BY <1>2, <2>2, <2>3, <2>4 DEF HeadroomAnswer, KeepsOrAnchors
  <1>5. CASE ~f.ok /\ ~permitted
    <2>1. PICK r \in RebuildAndReanchor(f.s) :
            h = IF r.ok THEN Go(r.s, FALSE) ELSE Go([r.s EXCEPT !.abandoned = TRUE], TRUE)
      BY <1>1, <1>5
    <2>2. /\ r.ok \in BOOLEAN
          /\ KeepsOrAnchors(f.s, r.s)
          /\ r.ok => Below(r.s)
          /\ ~wake.gate => r.s.cooldown <= f.s.cooldown
      BY <1>2, <2>1, RepairedFacts
    <2>3. KeepsOrAnchors(s, r.s) /\ r.s \in Stores /\ CeilingIsStored(r.s)
      BY <1>2, <2>2, KeepsTransitive, AnchoredFacts DEF KeepsOrAnchors, Keeps
    <2>4. ~wake.gate => r.s.cooldown <= s.cooldown
      BY <1>0, <1>2, <2>2, <2>3 DEF Stores
    <2>5. CASE r.ok
      <3>1. h.go = TRUE /\ h.past = FALSE /\ h.s = r.s
        BY <2>1, <2>5, GoFacts
      <3> QED BY <2>2, <2>3, <2>4, <2>5, <3>1 DEF HeadroomAnswer
    <2>6. CASE ~r.ok
      <3>1. h.go = TRUE /\ h.past = TRUE /\ h.s = [r.s EXCEPT !.abandoned = TRUE]
        BY <2>1, <2>6, GoFacts
      <3>2. Keeps(r.s, h.s) /\ h.s.cooldown = r.s.cooldown
        BY <2>3, <3>1, AbandonFacts
      <3>3. Keeps(s, r.s)
        BY <1>2, <2>1, <2>6, UnrepairedFacts, KeepsTransitive
      <3>4. Keeps(s, h.s)
        BY <3>2, <3>3, KeepsTransitive
      <3> QED BY <2>4, <3>1, <3>2, <3>4 DEF HeadroomAnswer, KeepsOrAnchors
    <2> QED BY <2>5, <2>6
  <1> QED BY <1>3, <1>4, <1>5

(* A ceiling refusal happens only below the ladder, and it costs a strike. *)
LEMMA AfterWriteFacts ==
  ASSUME mac \in Record, NEW s \in Stores, CeilingIsStored(s), NEW permitted \in BOOLEAN,
         permitted \/ wake.gate,
         NEW w \in WriteSession(s, mac, permitted), NEW h \in AfterWrite(w, permitted)
  PROVE  HeadroomAnswer(s, h)
  <1>0. s.cooldown \in Nat /\ s.strikes \in Nat
    BY DEF Stores
  <1>1. CASE w.out = "Ok" /\ w.s = Anchored(ResumePoint(mac))
    <2>1. h = Go(w.s, FALSE)
      BY <1>1 DEF AfterWrite
    <2>2. h.go = TRUE /\ h.past = FALSE /\ h.s = w.s
      BY <2>1, GoFacts
    <2> QED BY <1>1, <2>2, AnchorFacts DEF HeadroomAnswer
  <1>2. CASE w.out = "Failed" /\ w.s = s
    <2>1. CASE s.strikes < WriteFailuresBeforeForget
      <3>1. h = Refuse([s EXCEPT !.strikes = @ + 1])
        <4>1. ~(s.strikes >= WriteFailuresBeforeForget)
          BY <1>0, <2>1, SessionAssumption DEF SessionAssumption
        <4> QED BY <1>2, <2>1, <4>1 DEF AfterWrite
      <3>2. h.go = FALSE /\ h.past = FALSE /\ h.s = [s EXCEPT !.strikes = @ + 1]
        BY <3>1, RefuseFacts
      <3>3. /\ h.s \in Stores
            /\ h.s.file = s.file
            /\ h.s.have = s.have
            /\ h.s.ceiling = s.ceiling
            /\ h.s.strikes = s.strikes + 1
            /\ h.s.cooldown = s.cooldown
        BY <1>0, <3>2 DEF Stores
      <3>4. Keeps(s, h.s)
        BY <3>3 DEF Keeps, CeilingIsStored
      <3>5. h.s.cooldown <= s.cooldown
        BY <1>0, <3>3
      <3> QED BY <2>1, <3>2, <3>3, <3>4, <3>5 DEF HeadroomAnswer, KeepsOrAnchors
    <2>2. CASE s.strikes >= WriteFailuresBeforeForget
      <3>1. h \in EscapeLadder(s, permitted)
        <4>1. ~(s.strikes < WriteFailuresBeforeForget)
          BY <1>0, <2>2, SessionAssumption DEF SessionAssumption
        <4> QED BY <1>2, <2>2, <4>1 DEF AfterWrite
      <3> QED BY <3>1, LadderFacts
    <2> QED BY <1>0, <2>1, <2>2, SessionAssumption DEF SessionAssumption
  <1> QED BY <1>1, <1>2, WriteFacts

(* counter_headroom_ok(), for a live session the store knows about. *)
LEMMA HeadroomFacts ==
  ASSUME mac \in Record, NEW s \in Stores, CeilingIsStored(s),
         ~s.have => \A r \in s.file : r.addr # mac.addr,
         NEW permitted \in BOOLEAN, permitted \/ wake.gate,
         NEW h \in CounterHeadroomOk(s, permitted)
  PROVE  HeadroomAnswer(s, h)
  <1>0. s.cooldown \in Nat
    BY DEF Stores
  <1>1. CASE ~s.have
    <2>1. h = Go(s, FALSE)
      BY <1>1 DEF CounterHeadroomOk
    <2>2. h.go = TRUE /\ h.past = FALSE /\ h.s = s
      BY <2>1, GoFacts
    <2>3. Keeps(s, h.s) /\ Below(h.s) /\ h.s.cooldown <= s.cooldown
      BY <1>0, <1>1, <2>2, KeepsReflexive DEF Below
    <2> QED BY <2>2, <2>3 DEF HeadroomAnswer, KeepsOrAnchors
  <1>2. CASE s.have /\ h = Go(s, TRUE)
    <2>1. h.go = TRUE /\ h.past = TRUE /\ h.s = s
      BY <1>2, GoFacts
    <2>2. Keeps(s, h.s) /\ h.s.cooldown <= s.cooldown
      BY <1>0, <2>1, KeepsReflexive
    <2> QED BY <2>1, <2>2 DEF HeadroomAnswer, KeepsOrAnchors
  <1>3. CASE s.have /\ BelowCeiling(s) /\ h = Go(s, FALSE)
    <2>1. h.go = TRUE /\ h.past = FALSE /\ h.s = s
      BY <1>3, GoFacts
    <2>2. Keeps(s, h.s) /\ h.s.cooldown <= s.cooldown
      BY <1>0, <2>1, KeepsReflexive
    <2>3. Below(h.s)
      BY <1>3, <2>1 DEF Below, BelowCeiling, CeilingIsStored
    <2> QED BY <2>1, <2>2, <2>3 DEF HeadroomAnswer, KeepsOrAnchors
  <1>4. CASE h \in AbandonedHeadroom(s, permitted)
    BY <1>4, AbandonedFacts
  <1>5. CASE \E w \in WriteSession(s, mac, permitted) : h \in AfterWrite(w, permitted)
    BY <1>5, AfterWriteFacts
  <1> QED BY <1>1, <1>2, <1>3, <1>4, <1>5 DEF CounterHeadroomOk

-----------------------------------------------------------------------------
(* The steps *)

\* The conjuncts a step has to answer for itself; QuietStep answers for the others.
Local ==
  /\ TypeOK
  /\ PhaseKnows
  /\ radio.joined /\ ~store.have => \A r \in store.file : r.addr # mac.addr
  /\ radio.started /\ ~radio.joined /\ ~store.blocked => store.file = {}
  /\ phase = "otaa" /\ ~escaped => store.file = {}
  /\ StrictlyBelowStored

\* What the history variables promise, and the rest of IInv with it.
Remembered ==
  /\ OneRecord(store)
  /\ CeilingIsStored(store)
  /\ NetworkFirst
  /\ NoReplay
  /\ NoStaleSession

(* The invariant is its two halves. *)
LEMMA Split == Local' /\ Remembered' => IInv'
  BY DEF IInv, Local, Remembered, StoreKnows

(* The history variables stay honest when every new lag was there before or is
   excused by the step itself. *)
LEMMA HistoryFacts ==
  ASSUME excused \in BOOLEAN, escaped \in BOOLEAN, NEW past \in BOOLEAN, NEW escape \in BOOLEAN,
         History(past, escape),
         Overrun' => excused \/ past,
         Stale' => escaped \/ escape
  PROVE  NoReplay' /\ NoStaleSession' /\ excused' \in BOOLEAN /\ escaped' \in BOOLEAN
  <1>1. NoReplay' /\ NoStaleSession'
    BY DEF History, NoReplay, NoStaleSession
  <1>2. ((excused \/ past) /\ (phase' = "tx" \/ Overrun')) \in BOOLEAN
    OBVIOUS
  <1>3. ((escaped \/ escape) /\ (phase' = "otaa" \/ Stale')) \in BOOLEAN
    OBVIOUS
  <1> QED BY <1>1, <1>2, <1>3 DEF History

(* A step that sends nothing, is granted nothing and stores nothing new creates no
   lag: whatever is live or stored after it was live or stored before. *)
LEMMA QuietStepOfFile ==
  ASSUME IInv, store'.file \subseteq store.file, CeilingIsStored(store'), used' = used, net' = net,
         radio'.joined => (radio.joined /\ mac' = mac) \/ mac' \in store.file,
         NEW past \in BOOLEAN, NEW escape \in BOOLEAN, History(past, escape)
  PROVE  Remembered' /\ excused' \in BOOLEAN /\ escaped' \in BOOLEAN
  <1>1. store'.file \subseteq store.file /\ CeilingIsStored(store)' /\ OneRecord(store)'
    BY DEF IInv, StoreKnows, OneRecord, CeilingIsStored
  <1>2. Overrun' => excused
    BY <1>1 DEF IInv, NoReplay, Overrun
  <1>3. Stale' => escaped
    BY <1>1 DEF IInv, NoStaleSession, Stale
  <1>4. NetworkFirst'
    BY <1>1 DEF IInv, NetworkFirst
  <1>5. NoReplay' /\ NoStaleSession' /\ excused' \in BOOLEAN /\ escaped' \in BOOLEAN
    BY <1>2, <1>3, HistoryFacts DEF IInv, TypeOK
  <1> QED BY <1>1, <1>4, <1>5 DEF Remembered

(* The same, for a step whose calls keep the record or remove it. *)
LEMMA QuietStep ==
  ASSUME IInv, Keeps(store, store'), used' = used, net' = net,
         radio'.joined => (radio.joined /\ mac' = mac) \/ mac' \in store.file,
         NEW past \in BOOLEAN, NEW escape \in BOOLEAN, History(past, escape)
  PROVE  Remembered' /\ excused' \in BOOLEAN /\ escaped' \in BOOLEAN
  BY QuietStepOfFile DEF Keeps

(* What IInv says of the store, for the lemmas above. *)
LEMMA StoreFacts ==
  ASSUME IInv
  PROVE  /\ store \in Stores
         /\ CeilingIsStored(store)
         /\ OneRecord(store)
         /\ mac \in Record
         /\ store.file \in SUBSET Record
         /\ Keeps(store, store)
  <1>1. store \in Stores /\ CeilingIsStored(store) /\ OneRecord(store) /\ mac \in Record
    BY DEF IInv, TypeOK, StoreKnows
  <1> QED BY <1>1, KeepsReflexive DEF Stores

(* The first power-on satisfies the invariant. *)
LEMMA InitIInv == Init => IInv
  <1> SUFFICES ASSUME Init PROVE IInv
    OBVIOUS
  <1>1. store \in Stores /\ store.file = {} /\ store.have = FALSE
    BY ColdFacts DEF Init
  <1>2. mac \in Record /\ 0 \in Sessions
    BY SessionAssumption DEF SessionAssumption, Init, NoSession, Record, Sessions
  <1>3. TypeOK
    <2>1. used \in [Sessions -> Nat]
      BY DEF Init
    <2>2. wake \in [gate : BOOLEAN, keepalive : BOOLEAN]
      BY DEF Init
    <2> QED BY <1>1, <1>2, <2>1, <2>2 DEF Init, TypeOK, Phases
  <1>4. PhaseKnows
    BY DEF Init, PhaseKnows
  <1>5. StoreKnows
    BY <1>1 DEF StoreKnows, OneRecord, CeilingIsStored
  <1>6. NetworkFirst
    BY <1>1 DEF Init, NetworkFirst
  <1>7. NoReplay /\ NoStaleSession /\ StrictlyBelowStored
    BY <1>1 DEF Init, NoReplay, NoStaleSession, StrictlyBelowStored, Overrun, Stale
  <1> QED BY <1>3, <1>4, <1>5, <1>6, <1>7 DEF IInv

(* A reset keeps the record and forgets the rest. *)
LEMMA CrashIInv ==
  ASSUME IInv, NEW gate \in BOOLEAN, Crash(gate)
  PROVE  IInv'
  <1>1. store' \in Stores /\ store'.file = store.file /\ CeilingIsStored(store')
    <2>1. store' = ColdStore(store.file) /\ store.file \in SUBSET Record
      BY StoreFacts DEF Crash
    <2> QED BY <2>1, ColdFacts DEF CeilingIsStored
  <1>2. radio' = [started |-> FALSE, joined |-> FALSE, failures |-> 0]
    BY DEF Crash
  <1>3. Remembered' /\ excused' \in BOOLEAN /\ escaped' \in BOOLEAN
    <2>1. /\ store'.file \subseteq store.file
          /\ used' = used
          /\ net' = net
          /\ History(FALSE, FALSE)
      BY <1>1 DEF Crash
    <2>2. radio'.joined = FALSE
      BY <1>2
    <2> QED BY <1>1, <2>1, <2>2, QuietStepOfFile
  <1>4. TypeOK'
    <2>1. mac' \in Record
      BY SessionAssumption DEF SessionAssumption, Crash, NoSession, Record, Sessions
    <2> QED BY <1>1, <1>2, <1>3, <2>1 DEF Crash, TypeOK, IInv, Phases
  <1>5. PhaseKnows'
    BY <1>2 DEF Crash, PhaseKnows
  <1>6. Local'
    BY <1>1, <1>2, <1>4, <1>5 DEF Local, Crash, StrictlyBelowStored
  <1> QED BY <1>3, <1>6, Split

(* What Begin does, in a started radio or not. *)
LEMMA BeginFacts ==
  ASSUME IInv, Begin, ~radio.started
  PROVE  /\ Keeps(store, store')
         /\ store'.cooldown <= store.cooldown
         /\ ~wake.gate => store'.file = store.file
         /\ mac' \in Record
         /\ radio' \in [started : BOOLEAN, joined : BOOLEAN, failures : Nat]
         /\ radio'.joined => /\ radio'.started
                              /\ mac' \in store.file
                              /\ store'.file = store.file
                              /\ store'.have
         /\ radio'.started /\ ~radio'.joined => store'.blocked \/ store'.file = {}
  <1>0. /\ ~radio.joined
        /\ store.cooldown \in Nat
        /\ radio \in [started : BOOLEAN, joined : BOOLEAN, failures : Nat]
    BY DEF IInv, PhaseKnows, TypeOK, Stores
  <1>1. CASE UNCHANGED <<store, radio, mac>>
    BY <1>0, <1>1, StoreFacts
  <1>2. CASE \E r \in Restore(store) :
               /\ store' = r.s
               /\ mac' = r.mac
               /\ radio' = [radio EXCEPT !.started = TRUE, !.joined = r.joined]
    <2>1. PICK r \in Restore(store) :
               /\ store' = r.s
               /\ mac' = r.mac
               /\ radio' = [radio EXCEPT !.started = TRUE, !.joined = r.joined]
      BY <1>2
    <2>2. /\ r.joined \in BOOLEAN
          /\ Keeps(store, r.s)
          /\ r.s.cooldown <= store.cooldown
          /\ ~wake.gate => r.s.file = store.file
          /\ r.joined => r.mac \in store.file /\ r.s.file = store.file /\ r.s.have
          /\ ~r.joined => r.mac = mac /\ (r.s.blocked \/ r.s.file = {})
      BY <2>1, RestoreFacts, StoreFacts
    <2>3. mac' \in Record
      BY <2>1, <2>2, StoreFacts
    <2>4. /\ radio' \in [started : BOOLEAN, joined : BOOLEAN, failures : Nat]
          /\ radio'.started
          /\ radio'.joined <=> r.joined
      BY <1>0, <2>1, <2>2
    <2> QED BY <2>1, <2>2, <2>3, <2>4
  <1> QED BY <1>1, <1>2 DEF Begin

(* setup(): the boot's restore resumes only what is stored. *)
LEMMA SetupIInv ==
  ASSUME IInv, Setup
  PROVE  IInv'
  <1>1. ~radio.started
    BY DEF IInv, PhaseKnows, Setup
  <1>2. /\ Keeps(store, store')
        /\ mac' \in Record
        /\ radio' \in [started : BOOLEAN, joined : BOOLEAN, failures : Nat]
        /\ radio'.joined => radio'.started /\ mac' \in store.file /\ store'.have
        /\ radio'.started /\ ~radio'.joined => store'.blocked \/ store'.file = {}
    BY <1>1, BeginFacts DEF Setup
  <1>3. Remembered' /\ excused' \in BOOLEAN /\ escaped' \in BOOLEAN
    BY <1>2, QuietStep DEF Setup
  <1>4. TypeOK'
    BY <1>2, <1>3 DEF Setup, TypeOK, IInv, Phases, Keeps
  <1>5. PhaseKnows'
    BY <1>2 DEF Setup, PhaseKnows
  <1>6. Local'
    BY <1>2, <1>4, <1>5 DEF Local, Setup, StrictlyBelowStored
  <1> QED BY <1>3, <1>6, Split

(* The start of a cycle decides what the cycle may do, and no more. *)
LEMMA WakeIInv ==
  ASSUME IInv, NEW gate \in BOOLEAN, NEW keepalive \in BOOLEAN, NEW silent \in BOOLEAN,
         Wake(gate, keepalive, silent)
  PROVE  IInv'
  <1>1. Remembered' /\ excused' \in BOOLEAN /\ escaped' \in BOOLEAN
    BY StoreFacts, QuietStep DEF Wake
  <1>2. permits' \in [join : BOOLEAN, checkpoint : BOOLEAN]
    <2>1. (permits.join \/ keepalive) \in BOOLEAN
      OBVIOUS
    <2> QED BY <2>1 DEF Wake, IInv, TypeOK
  <1>3. wake' \in [gate : BOOLEAN, keepalive : BOOLEAN]
        /\ (wake'.gate <=> gate) /\ (wake'.keepalive <=> keepalive)
    BY DEF Wake
  <1>4. TypeOK'
    BY <1>1, <1>2, <1>3 DEF Wake, TypeOK, IInv, Phases
  <1>5. PhaseKnows'
    BY <1>3 DEF Wake, PhaseKnows, IInv
  <1>6. Local'
    BY <1>4, <1>5 DEF Local, Wake, StrictlyBelowStored, IInv, StoreKnows
  <1> QED BY <1>1, <1>6, Split

(* Going to "send" with a session, from a cycle that may transmit. *)
LEMMA EnterSendFacts ==
  ASSUME permits \in [join : BOOLEAN, checkpoint : BOOLEAN], EnterSend,
         wake' = wake, wake.gate \/ wake.keepalive
  PROVE  /\ permits' \in [join : BOOLEAN, checkpoint : BOOLEAN]
         /\ phase' = "send"
         /\ wake'.gate \/ permits'.checkpoint
  <1>1. (permits.checkpoint \/ wake.keepalive) \in BOOLEAN
    OBVIOUS
  <1> QED BY <1>1 DEF EnterSend

(* A cycle that is already joined goes straight to its send. *)
LEMMA AlreadyJoinedIInv ==
  ASSUME IInv, AlreadyJoined
  PROVE  IInv'
  <1>1. Remembered' /\ excused' \in BOOLEAN /\ escaped' \in BOOLEAN
    BY StoreFacts, QuietStep DEF AlreadyJoined
  <1>2. /\ permits' \in [join : BOOLEAN, checkpoint : BOOLEAN]
        /\ phase' = "send"
        /\ wake'.gate \/ permits'.checkpoint
    BY EnterSendFacts DEF AlreadyJoined, IInv, TypeOK, PhaseKnows
  <1>3. TypeOK'
    BY <1>1, <1>2 DEF AlreadyJoined, TypeOK, IInv, Phases
  <1>4. PhaseKnows'
    BY <1>2 DEF AlreadyJoined, PhaseKnows, IInv
  <1>5. Local'
    BY <1>2, <1>3, <1>4 DEF Local, AlreadyJoined, StrictlyBelowStored, IInv, StoreKnows
  <1> QED BY <1>1, <1>5, Split

(* A radio that did not start at boot starts in the cycle, and may resume then. *)
LEMMA BeginAgainIInv ==
  ASSUME IInv, BeginAgain
  PROVE  IInv'
  <1>1. /\ Keeps(store, store')
        /\ mac' \in Record
        /\ radio' \in [started : BOOLEAN, joined : BOOLEAN, failures : Nat]
        /\ radio'.joined => radio'.started /\ mac' \in store.file /\ store'.have
        /\ radio'.started /\ ~radio'.joined => store'.blocked \/ store'.file = {}
    BY BeginFacts DEF BeginAgain
  <1>2. Remembered' /\ excused' \in BOOLEAN /\ escaped' \in BOOLEAN
    BY <1>1, QuietStep DEF BeginAgain
  <1>3. CASE radio'.joined /\ EnterSend
    <2>1. /\ permits' \in [join : BOOLEAN, checkpoint : BOOLEAN]
          /\ phase' = "send"
          /\ wake'.gate \/ permits'.checkpoint
      BY <1>3, EnterSendFacts DEF BeginAgain, IInv, TypeOK, PhaseKnows
    <2>2. TypeOK'
      BY <1>1, <1>2, <2>1 DEF BeginAgain, TypeOK, IInv, Phases, Keeps
    <2>3. PhaseKnows'
      BY <1>1, <1>3, <2>1 DEF BeginAgain, PhaseKnows, IInv
    <2>4. Local'
      BY <1>1, <1>3, <2>1, <2>2, <2>3 DEF Local, StrictlyBelowStored
    <2> QED BY <1>2, <2>4, Split
  <1>4. CASE /\ ~radio'.joined
             /\ phase' = IF radio'.started THEN "prepare" ELSE "asleep"
             /\ UNCHANGED permits
    <2>1. TypeOK'
      BY <1>1, <1>2, <1>4 DEF BeginAgain, TypeOK, IInv, Phases, Keeps
    <2>2. PhaseKnows'
      BY <1>1, <1>4 DEF BeginAgain, PhaseKnows, IInv
    <2>3. Local'
      BY <1>1, <1>4, <2>1, <2>2 DEF Local, StrictlyBelowStored
    <2> QED BY <1>2, <2>3, Split
  <1> QED BY <1>3, <1>4 DEF BeginAgain

(* A cycle without a session goes to prepare_fresh_join(). *)
LEMMA NotJoinedIInv ==
  ASSUME IInv, NotJoined
  PROVE  IInv'
  <1>1. Remembered' /\ excused' \in BOOLEAN /\ escaped' \in BOOLEAN
    BY StoreFacts, QuietStep DEF NotJoined
  <1>2. TypeOK'
    BY <1>1 DEF NotJoined, TypeOK, IInv, Phases
  <1>3. PhaseKnows'
    BY DEF NotJoined, PhaseKnows, IInv
  <1>4. Local'
    BY <1>2, <1>3 DEF Local, NotJoined, StrictlyBelowStored, IInv, StoreKnows
  <1> QED BY <1>1, <1>4, Split

(* What the prepare_fresh_join() call of ensure_joined() leaves. *)
LEMMA PrepareIInv ==
  ASSUME IInv, Prepare
  PROVE  IInv'
  <1>1. PICK p \in PrepareFreshJoin(store, permits.join) :
       /\ store' = p.s
       /\ mac' = p.mac
       /\ \/ /\ p.prep = "SessionRestored"
             /\ radio' = [radio EXCEPT !.joined = TRUE, !.failures = 0]
             /\ phase' = "send"
             /\ permits' = [join |-> FALSE, checkpoint |-> wake.keepalive]
          \/ /\ p.prep # "SessionRestored"
             /\ phase' = IF p.prep = "ReadyToJoin" THEN "otaa" ELSE "asleep"
             /\ permits' = [permits EXCEPT !.join = FALSE]
             /\ UNCHANGED radio
       /\ UNCHANGED <<wake, net, used>>
       /\ History(FALSE, p.escape)
    BY DEF Prepare
  <1>2. /\ radio.started /\ ~radio.joined
        /\ store.blocked \/ store.file = {}
        /\ permits \in [join : BOOLEAN, checkpoint : BOOLEAN]
        /\ permits.join \in BOOLEAN
        /\ wake.keepalive \in BOOLEAN
        /\ wake.gate \/ wake.keepalive
        /\ radio \in [started : BOOLEAN, joined : BOOLEAN, failures : Nat]
    BY DEF Prepare, IInv, TypeOK, PhaseKnows, StoreKnows
  <1>3. \/ JoinDecision(store, p)
        \/ /\ p.prep = "SessionRestored"
           /\ p.mac \in store.file
           /\ p.escape = FALSE
           /\ Keeps(store, p.s)
           /\ p.s.have
    BY <1>1, <1>2, PrepareFacts, StoreFacts
  <1>4. CASE /\ p.prep = "SessionRestored"
             /\ p.mac \in store.file
             /\ p.escape = FALSE
             /\ Keeps(store, p.s)
             /\ p.s.have
    <2>0. /\ radio' = [radio EXCEPT !.joined = TRUE, !.failures = 0]
          /\ phase' = "send"
          /\ permits' = [join |-> FALSE, checkpoint |-> wake.keepalive]
      BY <1>1, <1>4
    <2>1. /\ radio' \in [started : BOOLEAN, joined : BOOLEAN, failures : Nat]
          /\ radio'.started
          /\ radio'.joined
          /\ permits' \in [join : BOOLEAN, checkpoint : BOOLEAN]
          /\ permits'.checkpoint <=> wake.keepalive
          /\ phase' = "send"
      BY <1>2, <2>0
    <2>2. Remembered' /\ excused' \in BOOLEAN /\ escaped' \in BOOLEAN
      BY <1>1, <1>4, QuietStep
    <2>3. TypeOK'
      BY <1>1, <1>4, <2>1, <2>2, StoreFacts DEF TypeOK, IInv, Phases, Keeps
    <2>4. PhaseKnows'
      BY <1>1, <1>2, <2>1 DEF PhaseKnows
    <2>5. Local'
      BY <1>1, <1>4, <2>1, <2>3, <2>4 DEF Local, StrictlyBelowStored
    <2> QED BY <2>2, <2>5, Split
  <1>5. CASE JoinDecision(store, p)
    <2>1. /\ p.prep \in {"ReadyToJoin", "Blocked"}
          /\ p.mac = mac
          /\ p.escape \in BOOLEAN
          /\ Keeps(store, p.s)
          /\ p.prep = "ReadyToJoin" /\ ~p.escape => p.s.file = {}
          /\ p.escape => p.prep = "ReadyToJoin"
          /\ p.s.blocked \/ p.s.file = {}
      BY <1>5 DEF JoinDecision
    <2>2. /\ phase' = IF p.prep = "ReadyToJoin" THEN "otaa" ELSE "asleep"
          /\ permits' = [permits EXCEPT !.join = FALSE]
          /\ radio' = radio
      BY <1>1, <2>1
    <2>3. permits' \in [join : BOOLEAN, checkpoint : BOOLEAN]
      BY <1>2, <2>2
    <2>4. Remembered' /\ excused' \in BOOLEAN /\ escaped' \in BOOLEAN
      BY <1>1, <1>2, <2>1, <2>2, QuietStep
    <2>5. TypeOK'
      BY <1>1, <2>1, <2>2, <2>3, <2>4 DEF TypeOK, IInv, Phases, Keeps
    <2>6. PhaseKnows'
      BY <1>1, <1>2, <2>2 DEF PhaseKnows
    <2>7. phase' = "otaa" /\ ~escaped' => store'.file = {}
      BY <1>1, <2>1, <2>2 DEF History
    <2>8. Local'
      BY <1>1, <1>2, <2>1, <2>2, <2>5, <2>6, <2>7 DEF Local, StrictlyBelowStored
    <2> QED BY <2>4, <2>8, Split
  <1> QED BY <1>3, <1>4, <1>5

(* A granted session is newer than everything stored, and no counter of it is used. *)
LEMMA JoinAcceptedIInv ==
  ASSUME IInv, JoinAccepted
  PROVE  IInv'
  <1>0. net \in Nat /\ net + 1 \in Sessions
    BY SessionAssumption DEF SessionAssumption, JoinAccepted, IInv, TypeOK, Sessions
  <1>1. /\ mac' = [addr |-> net + 1, up |-> 0]
        /\ mac' \in Record
        /\ mac'.addr = net + 1
        /\ mac'.up = 0
        /\ net' = net + 1
        /\ used' = used
    BY <1>0 DEF JoinAccepted, Record
  <1>2. PICK w \in WriteSession(store, mac', FALSE) : store' = w.s
    BY <1>1 DEF JoinAccepted
  <1>3. store' = store \/ store' = Anchored(ResumePoint(mac'))
    BY <1>2, WriteFacts
  <1>4. used[net + 1] = 0
    BY <1>0 DEF IInv, NetworkFirst
  <1>5. /\ store' \in Stores
        /\ OneRecord(store)'
        /\ CeilingIsStored(store)'
        /\ \A r \in store'.file : r.addr <= net + 1
        /\ ~store'.have => \A r \in store'.file : r.addr # net + 1
        /\ \A r \in store'.file : r.addr # net + 1 => escaped
        /\ \A r \in store'.file : r.up < used[r.addr] => excused
    <2>1. CASE store' = store
      <3>1. OneRecord(store)' /\ CeilingIsStored(store)' /\ store' \in Stores
        BY <2>1, StoreFacts DEF OneRecord, CeilingIsStored
      <3>2. \A r \in store'.file : r.addr <= net /\ r.addr \in Nat
        BY <2>1, StoreFacts DEF IInv, NetworkFirst, Record, Sessions
      <3>3. \A r \in store'.file : r.addr # net + 1 /\ r.addr <= net + 1
        BY <1>0, <3>2
      <3>4. store'.file # {} => escaped
        BY <2>1 DEF JoinAccepted, IInv, StoreKnows
      <3>5. \A r \in store'.file : r.up < used[r.addr] => excused
        BY <2>1 DEF IInv, NoReplay, Overrun
      <3> QED BY <3>1, <3>3, <3>4, <3>5
    <2>2. CASE store' = Anchored(ResumePoint(mac'))
      <3>1. /\ store' \in Stores
            /\ store'.file = {ResumePoint(mac')}
            /\ ResumePoint(mac').addr = net + 1
            /\ ResumePoint(mac').up > 0
            /\ ResumePoint(mac') \in Record
            /\ OneRecord(store)' /\ CeilingIsStored(store)' /\ store'.have
        BY <1>1, <2>2, AnchoredFacts DEF OneRecord, CeilingIsStored
      <3> QED BY <1>0, <1>4, <3>1 DEF Record
    <2> QED BY <1>3, <2>1, <2>2
  <1>6. /\ radio' \in [started : BOOLEAN, joined : BOOLEAN, failures : Nat]
        /\ radio'.joined
        /\ radio'.started
    BY DEF JoinAccepted, IInv, TypeOK, PhaseKnows
  <1>7. /\ permits' \in [join : BOOLEAN, checkpoint : BOOLEAN]
        /\ phase' = "send"
        /\ wake'.gate \/ permits'.checkpoint
        /\ wake'.gate \/ wake'.keepalive
    BY EnterSendFacts DEF JoinAccepted, IInv, TypeOK, PhaseKnows
  <1>8. NoReplay' /\ NoStaleSession' /\ excused' \in BOOLEAN /\ escaped' \in BOOLEAN
    <2>1. Overrun' => excused
      BY <1>1, <1>4, <1>5 DEF Overrun
    <2>2. Stale' => escaped
      BY <1>1, <1>5 DEF Stale
    <2> QED BY <2>1, <2>2, HistoryFacts DEF JoinAccepted, IInv, TypeOK
  <1>9. NetworkFirst'
    <2>1. \A a \in Sessions : a > net + 1 => used[a] = 0
      BY <1>0 DEF IInv, NetworkFirst, Sessions
    <2> QED BY <1>0, <1>1, <1>5, <2>1 DEF NetworkFirst
  <1>10. TypeOK'
    BY <1>0, <1>1, <1>5, <1>6, <1>7, <1>8 DEF JoinAccepted, IInv, TypeOK, Phases
  <1>11. PhaseKnows'
    BY <1>6, <1>7 DEF PhaseKnows
  <1>12. Local'
    BY <1>1, <1>5, <1>6, <1>7, <1>10, <1>11 DEF Local, StrictlyBelowStored
  <1> QED BY <1>5, <1>8, <1>9, <1>12, Split DEF Remembered

(* Counting failures up to the limit stays within it. *)
LEMMA CountFacts ==
  ASSUME NEW n \in Nat
  PROVE  CountFailure(n) \in Nat
  BY DEF CountFailure

(* A join that failed may still have replaced the session: what is stored by then is
   there only because a keepalive escaped past it. *)
LEMMA JoinFailedIInv ==
  ASSUME IInv, JoinFailed
  PROVE  IInv'
  <1>1. /\ net \in Nat /\ net' \in Sessions /\ net' \in Nat /\ net <= net'
        /\ store' = store /\ mac' = mac /\ used' = used /\ wake' = wake /\ permits' = permits
        /\ phase' = "asleep"
    BY SessionAssumption DEF SessionAssumption, JoinFailed, IInv, TypeOK, Sessions
  <1>2. /\ radio' \in [started : BOOLEAN, joined : BOOLEAN, failures : Nat]
        /\ radio'.joined = FALSE
        /\ radio'.started
    BY CountFacts DEF JoinFailed, IInv, TypeOK, PhaseKnows
  <1>3. NoReplay' /\ NoStaleSession' /\ excused' \in BOOLEAN /\ escaped' \in BOOLEAN
    <2>1. Overrun' => excused
      BY <1>1, <1>2 DEF Overrun, IInv, NoReplay
    <2>2. Stale' => escaped
      BY <1>1, <1>2 DEF Stale, JoinFailed, IInv, StoreKnows
    <2> QED BY <2>1, <2>2, HistoryFacts DEF JoinFailed, IInv, TypeOK
  <1>4. NetworkFirst'
    <2>1. \A r \in store.file : r.addr <= net'
      BY <1>1, StoreFacts DEF IInv, NetworkFirst, Record, Sessions
    <2>2. \A a \in Sessions : a > net' => used[a] = 0
      BY <1>1 DEF IInv, NetworkFirst, Sessions
    <2> QED BY <1>1, <1>2, <2>1, <2>2 DEF NetworkFirst
  <1>5. OneRecord(store)' /\ CeilingIsStored(store)'
    BY <1>1, StoreFacts DEF OneRecord, CeilingIsStored
  <1>6. TypeOK'
    BY <1>1, <1>2, <1>3 DEF IInv, TypeOK, Phases
  <1>7. PhaseKnows'
    BY <1>1, <1>2 DEF PhaseKnows
  <1>8. radio'.started /\ ~radio'.joined /\ ~store'.blocked => store'.file = {}
    BY <1>1 DEF JoinFailed, IInv, PhaseKnows, StoreKnows
  <1>9. Local'
    BY <1>1, <1>2, <1>6, <1>7, <1>8 DEF Local, StrictlyBelowStored
  <1> QED BY <1>3, <1>4, <1>5, <1>9, Split DEF Remembered

(* Headroom: anchoring stores a counter above the live one, for the live session. *)
LEMMA HeadroomIInv ==
  ASSUME IInv, Headroom
  PROVE  IInv'
  <1>1. PICK h \in CounterHeadroomOk(store, permits.checkpoint) :
          /\ store' = h.s
          /\ phase' = IF h.go THEN "tx" ELSE "asleep"
          /\ UNCHANGED <<wake, radio, mac, net, used>>
          /\ History(h.past, FALSE)
    BY DEF Headroom
  <1>2. /\ permits.checkpoint \in BOOLEAN
        /\ permits.checkpoint \/ wake.gate
        /\ wake.gate \/ wake.keepalive
        /\ radio.joined /\ radio.started
        /\ ~store.have => \A r \in store.file : r.addr # mac.addr
    BY DEF Headroom, IInv, TypeOK, PhaseKnows, StoreKnows
  <1>3. HeadroomAnswer(store, h)
    BY <1>1, <1>2, HeadroomFacts, StoreFacts
  <1>4. /\ h.go \in BOOLEAN
        /\ h.past \in BOOLEAN
        /\ Keeps(store, store') \/ store' = Anchored(ResumePoint(mac))
        /\ h.go /\ ~h.past => \A r \in store'.file : r.addr = mac.addr => mac.up < r.up
    BY <1>1, <1>3 DEF HeadroomAnswer, KeepsOrAnchors, Below
  <1>5. Remembered' /\ excused' \in BOOLEAN /\ escaped' \in BOOLEAN
    <2>1. CASE Keeps(store, store')
      BY <1>1, <1>4, <2>1, QuietStep
    <2>2. CASE store' = Anchored(ResumePoint(mac))
      <3>1. /\ store'.file = {ResumePoint(mac)}
            /\ ResumePoint(mac) \in Record
            /\ ResumePoint(mac).addr = mac.addr
            /\ ResumePoint(mac).up > mac.up
            /\ mac.up \in Nat
            /\ OneRecord(store)' /\ CeilingIsStored(store)'
        BY <2>2, StoreFacts, AnchoredFacts DEF OneRecord, CeilingIsStored, Record
      <3>2. used[mac.addr] \in Nat
        BY StoreFacts DEF IInv, TypeOK, Record
      <3>3. Overrun' => excused
        <4>1. Overrun' => mac.up < used[mac.addr]
          BY <1>1, <3>1, <3>2 DEF Overrun, Record
        <4> QED BY <1>2, <4>1 DEF IInv, NoReplay, Overrun
      <3>4. Stale' => escaped
        BY <1>1, <1>2, <3>1 DEF Stale, IInv, NoStaleSession
      <3>5. NetworkFirst'
        BY <1>1, <1>2, <3>1 DEF NetworkFirst, IInv
      <3>6. NoReplay' /\ NoStaleSession' /\ excused' \in BOOLEAN /\ escaped' \in BOOLEAN
        BY <1>1, <1>4, <3>3, <3>4, HistoryFacts DEF IInv, TypeOK
      <3> QED BY <3>1, <3>5, <3>6 DEF Remembered
    <2> QED BY <1>4, <2>1, <2>2
  <1>6. store' \in Stores /\ (~store'.have => \A r \in store'.file : r.addr # mac.addr)
    <2>1. CASE Keeps(store, store')
      BY <1>2, <2>1 DEF Keeps
    <2>2. CASE store' = Anchored(ResumePoint(mac))
      BY <2>2, StoreFacts, AnchoredFacts
    <2> QED BY <1>4, <2>1, <2>2
  <1>7. TypeOK'
    <2>1. permits' \in [join : BOOLEAN, checkpoint : BOOLEAN]
      BY DEF Headroom, IInv, TypeOK
    <2> QED BY <1>1, <1>4, <1>5, <1>6, <2>1 DEF IInv, TypeOK, Phases
  <1>8. PhaseKnows'
    BY <1>1, <1>2, <1>4 DEF PhaseKnows
  <1>9. StrictlyBelowStored'
    BY <1>1, <1>4 DEF StrictlyBelowStored, History
  <1>10. Local'
    BY <1>1, <1>2, <1>6, <1>7, <1>8, <1>9 DEF Local
  <1> QED BY <1>5, <1>10, Split

(* A frame goes out under a counter below the stored one: its successor is at most
   the counter a reset would resume from. *)
LEMMA SendOkIInv ==
  ASSUME IInv, SendOk
  PROVE  IInv'
  <1>1. /\ store' = store /\ wake' = wake /\ permits' = permits /\ net' = net
        /\ phase = "tx" /\ phase' = "asleep"
        /\ mac \in Record /\ mac.up \in Nat /\ mac.addr \in Sessions
        /\ used \in [Sessions -> Nat] /\ used[mac.addr] \in Nat
        /\ radio.joined /\ radio.started
    BY StoreFacts DEF SendOk, IInv, TypeOK, PhaseKnows, Record
  <1>2. mac' = [mac EXCEPT !.up = @ + 1] /\ mac'.addr = mac.addr /\ mac'.up = mac.up + 1
        /\ mac' \in Record
    BY <1>1 DEF SendOk, Record
  <1>3. DEFINE seen == IF mac.up >= used[mac.addr] THEN mac.up + 1 ELSE used[mac.addr]
  <1>4. seen \in Nat
    BY <1>1
  <1>5. /\ used' \in [Sessions -> Nat]
        /\ used'[mac.addr] = seen
        /\ \A a \in Sessions : a # mac.addr => used'[a] = used[a]
    BY <1>1, <1>4 DEF SendOk
  <1>6. /\ radio' \in [started : BOOLEAN, joined : BOOLEAN, failures : Nat]
        /\ radio'.joined
        /\ radio'.started
    BY <1>1 DEF SendOk, IInv, TypeOK
  <1>7. Overrun' => excused
    <2>1. CASE mac.up < used[mac.addr]
      BY <1>1, <2>1 DEF IInv, NoReplay, Overrun
    <2>2. CASE mac.up >= used[mac.addr] /\ ~excused
      <3>1. seen = mac.up + 1
        BY <2>2
      <3>2. ASSUME NEW r \in store.file PROVE ~(r.up < used'[r.addr])
        <4>1. r.up \in Nat /\ r.addr \in Sessions /\ used[r.addr] \in Nat
          BY <1>1, StoreFacts DEF Record
        <4>2. CASE r.addr = mac.addr
          BY <1>1, <1>5, <2>2, <3>1, <4>1, <4>2 DEF IInv, StrictlyBelowStored
        <4>3. CASE r.addr # mac.addr
          BY <1>5, <2>2, <4>1, <4>3 DEF IInv, NoReplay, Overrun
        <4> QED BY <4>2, <4>3
      <3>3. ~(mac'.up < used'[mac'.addr])
        BY <1>1, <1>2, <1>5, <3>1
      <3> QED BY <1>1, <3>2, <3>3 DEF Overrun
    <2> QED BY <1>1, <2>1, <2>2
  <1>8. Stale' => escaped
    BY <1>1, <1>2 DEF Stale, IInv, NoStaleSession
  <1>9. NoReplay' /\ NoStaleSession' /\ excused' \in BOOLEAN /\ escaped' \in BOOLEAN
    BY <1>7, <1>8, HistoryFacts DEF SendOk, IInv, TypeOK
  <1>10. NetworkFirst'
    <2>1. mac.addr <= net /\ mac.addr \in Nat /\ net \in Nat
      BY <1>1 DEF IInv, NetworkFirst, TypeOK, Sessions
    <2>2. \A a \in Sessions : a > net => a # mac.addr
      BY <2>1 DEF Sessions
    <2> QED BY <1>1, <1>2, <1>5, <2>1, <2>2 DEF IInv, NetworkFirst
  <1>11. OneRecord(store)' /\ CeilingIsStored(store)'
    BY <1>1, StoreFacts DEF OneRecord, CeilingIsStored
  <1>12. TypeOK'
    BY <1>1, <1>2, <1>5, <1>6, <1>9 DEF IInv, TypeOK, Phases
  <1>13. PhaseKnows'
    BY <1>1, <1>6 DEF PhaseKnows
  <1>14. Local'
    BY <1>1, <1>2, <1>6, <1>12, <1>13 DEF Local, StrictlyBelowStored, IInv, StoreKnows
  <1> QED BY <1>9, <1>10, <1>11, <1>14, Split DEF Remembered

(* A refused frame changes no counter; the dropped session's record is removed or
   blocks the next join. *)
LEMMA SendFailedIInv ==
  ASSUME IInv, SendFailed
  PROVE  IInv'
  <1>1. DEFINE failures == CountFailure(radio.failures)
               drop == failures >= FailuresBeforeRejoin
  <1>2. /\ radio' = [radio EXCEPT !.failures = failures, !.joined = @ /\ ~drop]
        /\ store' \in IF drop THEN {f.s : f \in Forget(store)} ELSE {store}
        /\ phase' = "asleep"
        /\ UNCHANGED <<wake, mac, permits, net, used>>
        /\ History(FALSE, FALSE)
    BY DEF SendFailed
  <1>3. radio.joined = TRUE /\ radio.started
        /\ radio \in [started : BOOLEAN, joined : BOOLEAN, failures : Nat]
    BY DEF SendFailed, IInv, TypeOK, PhaseKnows
  <1>4. failures \in Nat /\ (radio.joined /\ ~drop) \in BOOLEAN
    BY <1>3, CountFacts
  <1> HIDE DEF failures
  <1>5. /\ radio' \in [started : BOOLEAN, joined : BOOLEAN, failures : Nat]
        /\ radio'.started
        /\ radio'.joined <=> (radio.joined /\ ~drop)
    BY <1>2, <1>3, <1>4
  <1> HIDE DEF drop
  <1>6. /\ Keeps(store, store')
        /\ drop => store'.blocked \/ store'.file = {}
        /\ ~drop => store' = store
    <2>1. CASE drop
      <3>1. PICK f \in Forget(store) : store' = f.s
        BY <1>2, <2>1
      <3> QED BY <2>1, <3>1, ForgetFacts, StoreFacts
    <2>2. CASE ~drop
      BY <1>2, <2>2, StoreFacts
    <2> QED BY <2>1, <2>2
  <1>7. Remembered' /\ excused' \in BOOLEAN /\ escaped' \in BOOLEAN
    BY <1>2, <1>3, <1>5, <1>6, QuietStep
  <1>8. TypeOK'
    BY <1>2, <1>5, <1>6, <1>7 DEF IInv, TypeOK, Phases, Keeps
  <1>9. PhaseKnows'
    BY <1>2, <1>5 DEF PhaseKnows
  <1>10. Local'
    BY <1>2, <1>3, <1>5, <1>6, <1>8, <1>9 DEF Local, StrictlyBelowStored, IInv, StoreKnows
  <1> QED BY <1>7, <1>10, Split

(* A step that changes nothing preserves the invariant. *)
LEMMA StutterIInv ==
  ASSUME IInv, UNCHANGED vars
  PROVE  IInv'
  <1>1. TypeOK' /\ PhaseKnows'
    BY DEF vars, IInv, TypeOK, PhaseKnows
  <1>2. StoreKnows' /\ NetworkFirst'
    BY DEF vars, IInv, StoreKnows, OneRecord, CeilingIsStored, NetworkFirst
  <1>3. NoReplay' /\ StrictlyBelowStored' /\ NoStaleSession'
    BY DEF vars, IInv, NoReplay, StrictlyBelowStored, NoStaleSession, Overrun, Stale
  <1> QED BY <1>1, <1>2, <1>3 DEF IInv

(* Every step preserves the invariant. *)
LEMMA NextPreserves ==
  ASSUME IInv, [Next]_vars
  PROVE  IInv'
  <1>1. ASSUME NEW gate \in BOOLEAN, Crash(gate) PROVE IInv'
    BY <1>1, CrashIInv
  <1>2. CASE Setup
    BY <1>2, SetupIInv
  <1>3. ASSUME NEW gate \in BOOLEAN, NEW keepalive \in BOOLEAN, NEW silent \in BOOLEAN,
               Wake(gate, keepalive, silent)
        PROVE  IInv'
    BY <1>3, WakeIInv
  <1>4. CASE AlreadyJoined
    BY <1>4, AlreadyJoinedIInv
  <1>5. CASE BeginAgain
    BY <1>5, BeginAgainIInv
  <1>6. CASE NotJoined
    BY <1>6, NotJoinedIInv
  <1>7. CASE Prepare
    BY <1>7, PrepareIInv
  <1>8. CASE JoinAccepted
    BY <1>8, JoinAcceptedIInv
  <1>9. CASE JoinFailed
    BY <1>9, JoinFailedIInv
  <1>10. CASE Headroom
    BY <1>10, HeadroomIInv
  <1>11. CASE SendOk
    BY <1>11, SendOkIInv
  <1>12. CASE SendFailed
    BY <1>12, SendFailedIInv
  <1>13. CASE UNCHANGED vars
    BY <1>13, StutterIInv
  <1> QED BY <1>1, <1>2, <1>3, <1>4, <1>5, <1>6, <1>7, <1>8, <1>9, <1>10, <1>11, <1>12, <1>13
          DEF Next

(* The inductive invariant is one. *)
THEOREM Inductive == Spec => []IInv
  <1>1. IInv /\ [Next]_vars => IInv'
    BY NextPreserves
  <1> QED BY <1>1, InitIInv, PTL DEF Spec

-----------------------------------------------------------------------------
(* The theorems *)

(* Every variable keeps its type: the functions of session.cpp return stores. *)
THEOREM TypeCorrect == Spec => []TypeOK
  <1>1. IInv => TypeOK
    BY DEF IInv
  <1> QED BY <1>1, Inductive, PTL

(* No reset and no next frame repeats a counter, save after a frame that was
   knowingly let past the ceiling and until that is repaired. *)
THEOREM CountersNeverRepeat == Spec => []NoReplay
  <1>1. IInv => NoReplay
    BY DEF IInv
  <1> QED BY <1>1, Inductive, PTL

(* A frame handed to the MAC is strictly below the stored counter of its session. *)
THEOREM FramesStayBelowTheStore == Spec => []StrictlyBelowStored
  <1>1. IInv => StrictlyBelowStored
    BY DEF IInv
  <1> QED BY <1>1, Inductive, PTL

(* The RAM ceiling and the file agree whenever a session is in use. *)
THEOREM CeilingMatchesFile == Spec => []CeilingDescribesFile
  <1>1. IInv => CeilingDescribesFile
    BY DEF IInv, StoreKnows, CeilingIsStored, CeilingDescribesFile
  <1> QED BY <1>1, Inductive, PTL

(* The node holds and stores only the session the network honors, save after a
   keepalive escaped past a record it could not remove. *)
THEOREM SessionsAreNeverStale == Spec => []NoStaleSession
  <1>1. IInv => NoStaleSession
    BY DEF IInv
  <1> QED BY <1>1, Inductive, PTL

(* A leftover join token cannot open the escape: the cycle that takes it is a
   keepalive cycle. *)
THEOREM OnlyKeepalivesEscape == Spec => EscapeOnlyOnKeepalive
  <1>1. IInv /\ [Next]_vars => [~escaped /\ escaped' => wake.keepalive]_vars
    <2> SUFFICES ASSUME IInv, [Next]_vars, ~escaped, escaped' PROVE wake.keepalive
      OBVIOUS
    <2>1. CASE Prepare
      <3>1. PICK p \in PrepareFreshJoin(store, permits.join) : History(FALSE, p.escape)
        BY <2>1 DEF Prepare
      <3>2. p.escape
        BY <3>1 DEF History
      <3>3. permits.join \in BOOLEAN /\ (store.blocked \/ store.file = {})
            /\ (wake.gate \/ wake.keepalive)
        BY <2>1 DEF Prepare, IInv, TypeOK, PhaseKnows, StoreKnows
      <3>4. JoinDecision(store, p)
        BY <3>1, <3>2, <3>3, PrepareFacts, StoreFacts
      <3> QED BY <3>2, <3>3, <3>4 DEF JoinDecision
    <2>2. CASE \E past \in {TRUE, FALSE} : History(past, FALSE)
      BY <2>2 DEF History
    <2>3. CASE Headroom
      BY <2>3 DEF Headroom, History
    <2> QED BY <2>1, <2>2, <2>3 DEF Next, vars, Crash, Setup, Wake, AlreadyJoined, BeginAgain,
                                    NotJoined, JoinAccepted, JoinFailed, SendOk, SendFailed
  <1> QED BY <1>1, Inductive, PTL DEF Spec, EscapeOnlyOnKeepalive

(* A refusal at the ceiling spends one of WriteFailuresBeforeForget strikes: a cycle
   that the gate closed to writes but that transmits anyway carries the token, so the
   gate never refuses it, and past the last strike every answer lets the frame go. *)
THEOREM RefusalsAreCounted == Spec => RefusalSpendsStrike
  <1>1. IInv /\ [Next]_vars =>
          [phase = "send" /\ phase' = "asleep" =>
             /\ store.strikes < WriteFailuresBeforeForget
             /\ store'.strikes = store.strikes + 1]_vars
    <2> SUFFICES ASSUME IInv, [Next]_vars, phase = "send", phase' = "asleep"
                 PROVE  /\ store.strikes < WriteFailuresBeforeForget
                        /\ store'.strikes = store.strikes + 1
      OBVIOUS
    <2>1. CASE Headroom
      <3>1. PICK h \in CounterHeadroomOk(store, permits.checkpoint) :
              store' = h.s /\ phase' = IF h.go THEN "tx" ELSE "asleep"
        BY <2>1 DEF Headroom
      <3>2. /\ permits.checkpoint \in BOOLEAN
            /\ permits.checkpoint \/ wake.gate
            /\ ~store.have => \A r \in store.file : r.addr # mac.addr
        BY <2>1 DEF Headroom, IInv, TypeOK, PhaseKnows, StoreKnows
      <3>3. HeadroomAnswer(store, h)
        BY <3>1, <3>2, HeadroomFacts, StoreFacts
      <3> QED BY <3>1, <3>3 DEF HeadroomAnswer
    <2> QED BY <2>1 DEF Next, vars, Crash, Setup, Wake, AlreadyJoined, BeginAgain,
                        NotJoined, Prepare, JoinAccepted, JoinFailed, SendOk, SendFailed
  <1> QED BY <1>1, Inductive, PTL DEF Spec, RefusalSpendsStrike

\* The strikes of a refused node are not forgiven before it has been on the air again,
\* or about to be: they drop only in a step that starts or follows an attempt to send or
\* to join, or in a reset.  So at most WriteFailuresBeforeForget refusals lie between two.
StrikesLastUntilTheAir ==
  [][store'.strikes < store.strikes =>
       phase \in {"otaa", "tx"} \/ phase' \in {"otaa", "tx", "reset"}]_vars

\* Before the radio has started nothing has been refused.
NothingRefusedYet == ~radio.started => store.strikes = 0

(* A restore that leaves a blocked record has not touched the strikes. *)
LEMMA RestoreStrikes ==
  ASSUME NEW s \in Stores, NEW r \in Restore(s), r.joined \/ r.s.blocked
  PROVE  r.s.strikes = s.strikes
  <1>1. CASE \E q \in s.file :
               r = [joined |-> TRUE, mac |-> q,
                    s |-> [s EXCEPT !.ceiling = q.up, !.have = TRUE, !.blocked = FALSE]]
    <2>1. PICK q \in s.file :
               r = [joined |-> TRUE, mac |-> q,
                    s |-> [s EXCEPT !.ceiling = q.up, !.have = TRUE, !.blocked = FALSE]]
      BY <1>1
    <2>2. r.s = [s EXCEPT !.ceiling = q.up, !.have = TRUE, !.blocked = FALSE]
      BY <2>1
    <2> QED BY <2>2 DEF Stores
  <1>2. ASSUME NEW t \in RejectStoredSession(s) \cup (IF s.file = {} THEN {s} ELSE {}),
               r = [joined |-> FALSE, mac |-> mac, s |-> t]
        PROVE  r.s.strikes = s.strikes
    <2>1. r.s = t /\ t.blocked
      BY <1>2
    <2>2. t \in {ColdStore({}), [s EXCEPT !.blocked = TRUE], s}
      BY <1>2 DEF RejectStoredSession, Forget
    <2>3. t # ColdStore({})
      BY <2>1, ColdFacts
    <2> QED BY <2>1, <2>2, <2>3 DEF Stores
  <1> QED BY <1>1, <1>2 DEF Restore

(* A join that is put off, or spared by a restore, keeps the strikes. *)
LEMMA PrepareStrikes ==
  ASSUME NEW s \in Stores, CeilingIsStored(s), OneRecord(s), NEW permitted \in BOOLEAN,
         NEW p \in PrepareFreshJoin(s, permitted)
  PROVE  p.s.strikes = s.strikes \/ p.prep = "ReadyToJoin"
  <1>1. CASE ~s.blocked
    BY <1>1 DEF PrepareFreshJoin, Prepared
  <1>2. CASE s.blocked
    <2>1. PICK r \in Restore(s) :
            p \in IF r.joined THEN {Prepared("SessionRestored", r.s, r.mac, FALSE)}
                  ELSE IF r.s.blocked THEN ClearTheWay(r.s, permitted)
                  ELSE {Prepared("ReadyToJoin", r.s, mac, FALSE)}
      BY <1>2 DEF PrepareFreshJoin
    <2>2. CASE r.joined
      <3>1. p.s = r.s
        BY <2>1, <2>2 DEF Prepared
      <3> QED BY <2>2, <3>1, RestoreStrikes
    <2>3. CASE ~r.joined /\ ~r.s.blocked
      BY <2>1, <2>3 DEF Prepared
    <2>4. CASE ~r.joined /\ r.s.blocked
      <3>1. p \in ClearTheWay(r.s, permitted) /\ r.s.strikes = s.strikes
        BY <2>1, <2>4, RestoreStrikes
      <3>2. r.s \in Stores /\ CeilingIsStored(r.s)
        BY <2>1, RestoreFacts DEF Keeps
      <3>3. CASE wake.gate
        <4>1. PICK f \in FormatAndRebuild(r.s) :
                p = Prepared(IF f.ok THEN "ReadyToJoin" ELSE "Blocked", f.s, mac, FALSE)
          BY <3>1, <3>3 DEF ClearTheWay
        <4>2. p.s = f.s /\ p.prep = IF f.ok THEN "ReadyToJoin" ELSE "Blocked"
          BY <4>1 DEF Prepared
        <4>3. f.ok \/ f.s.strikes = r.s.strikes
          BY <3>2, <4>1, FormatFacts
        <4> QED BY <3>1, <4>2, <4>3
      <3>4. CASE ~wake.gate /\ permitted
        BY <3>1, <3>4 DEF ClearTheWay, Prepared
      <3>5. CASE ~wake.gate /\ ~permitted
        <4>1. p.s = r.s
          BY <3>1, <3>5 DEF ClearTheWay, Prepared
        <4> QED BY <3>1, <4>1
      <3> QED BY <3>3, <3>4, <3>5
    <2> QED BY <2>2, <2>3, <2>4
  <1> QED BY <1>1, <1>2

(* No refusal comes before the radio has started. *)
LEMMA UnstartedIsUnrefused == Spec => []NothingRefusedYet
  <1>1. Init => NothingRefusedYet
    BY ColdFacts DEF Init, NothingRefusedYet
  <1>2. IInv /\ NothingRefusedYet /\ [Next]_vars => NothingRefusedYet'
    <2> SUFFICES ASSUME IInv, NothingRefusedYet, [Next]_vars PROVE NothingRefusedYet'
      OBVIOUS
    <2>1. ASSUME NEW gate \in BOOLEAN, Crash(gate) PROVE NothingRefusedYet'
      BY <2>1, StoreFacts, ColdFacts DEF Crash, NothingRefusedYet
    <2>2. CASE Setup \/ BeginAgain
      <3>1. \/ UNCHANGED <<store, radio>>
            \/ \E b \in BOOLEAN : radio' = [radio EXCEPT !.started = TRUE, !.joined = b]
        <4>1. Begin
          BY <2>2 DEF Setup, BeginAgain
        <4>2. ASSUME NEW r \in Restore(store),
                     radio' = [radio EXCEPT !.started = TRUE, !.joined = r.joined]
              PROVE  \E b \in BOOLEAN : radio' = [radio EXCEPT !.started = TRUE, !.joined = b]
          BY <4>2, RestoreFacts, StoreFacts
        <4> QED BY <4>1, <4>2 DEF Begin
      <3> QED BY <3>1 DEF NothingRefusedYet, IInv, TypeOK
    <2>3. CASE radio.started /\ radio'.started = radio.started
      BY <2>3 DEF NothingRefusedYet
    <2>4. CASE UNCHANGED <<store, radio>>
      BY <2>4 DEF NothingRefusedYet
    <2>5. Prepare \/ JoinAccepted \/ JoinFailed \/ Headroom \/ SendOk \/ SendFailed
            => radio.started /\ radio'.started = radio.started
      BY DEF Prepare, JoinAccepted, JoinFailed, Headroom, SendOk, SendFailed,
             IInv, PhaseKnows, TypeOK
    <2> QED BY <2>1, <2>2, <2>3, <2>4, <2>5 DEF Next, vars, Wake, AlreadyJoined, NotJoined
  <1> QED BY <1>1, <1>2, Inductive, PTL DEF Spec

(* With RefusalsAreCounted: however the flash fails and the gate moves, a started node
   that holds a session is refused at most WriteFailuresBeforeForget times in a row. *)
THEOREM StrikesLast == Spec => StrikesLastUntilTheAir
  <1>1. IInv /\ NothingRefusedYet /\ [Next]_vars =>
          [store'.strikes < store.strikes =>
             phase \in {"otaa", "tx"} \/ phase' \in {"otaa", "tx", "reset"}]_vars
    <2> SUFFICES ASSUME IInv, NothingRefusedYet, Next, store'.strikes < store.strikes
                 PROVE  phase \in {"otaa", "tx"} \/ phase' \in {"otaa", "tx", "reset"}
      OBVIOUS
    <2>0. store.strikes \in Nat /\ store'.strikes \in Nat
      <3>1. IInv'
        BY NextPreserves
      <3> QED BY <3>1 DEF IInv, TypeOK, Stores
    <2>1. store.strikes # 0 /\ store.strikes # store'.strikes
      BY <2>0
    <2>2. radio.started
      BY <2>1 DEF NothingRefusedYet
    <2>3. ~Setup /\ ~BeginAgain
      BY <2>2 DEF Setup, BeginAgain, IInv, PhaseKnows
    <2>4. CASE Prepare
      <3>1. PICK p \in PrepareFreshJoin(store, permits.join) :
              /\ store' = p.s
              /\ \/ p.prep = "SessionRestored"
                 \/ phase' = IF p.prep = "ReadyToJoin" THEN "otaa" ELSE "asleep"
        BY <2>4 DEF Prepare
      <3>2. permits.join \in BOOLEAN
        BY DEF IInv, TypeOK
      <3> QED BY <2>1, <3>1, <3>2, PrepareStrikes, StoreFacts
    <2>5. CASE Headroom
      <3>1. PICK h \in CounterHeadroomOk(store, permits.checkpoint) :
              store' = h.s /\ phase' = IF h.go THEN "tx" ELSE "asleep"
        BY <2>5 DEF Headroom
      <3>2. /\ permits.checkpoint \in BOOLEAN
            /\ permits.checkpoint \/ wake.gate
            /\ ~store.have => \A r \in store.file : r.addr # mac.addr
        BY <2>5 DEF Headroom, IInv, TypeOK, PhaseKnows, StoreKnows
      <3>3. HeadroomAnswer(store, h)
        BY <3>1, <3>2, HeadroomFacts, StoreFacts
      <3>4. ~h.go => store'.strikes = store.strikes + 1
        BY <3>1, <3>3 DEF HeadroomAnswer
      <3> QED BY <2>0, <3>1, <3>4
    <2>6. CASE \E gate \in BOOLEAN : Crash(gate)
      BY <2>6 DEF Crash
    <2>7. CASE JoinAccepted \/ JoinFailed \/ SendOk \/ SendFailed
      BY <2>7 DEF JoinAccepted, JoinFailed, SendOk, SendFailed
    <2> QED BY <2>1, <2>3, <2>4, <2>5, <2>6, <2>7 DEF Next, Wake, AlreadyJoined, NotJoined
  <1> QED BY <1>1, UnstartedIsUnrefused, Inductive, PTL DEF Spec, StrikesLastUntilTheAir

(* With the token and under a closed gate the join is never put off. *)
LEMMA PermittedJoin ==
  ASSUME ~wake.gate, NEW s, NEW p \in PrepareFreshJoin(s, TRUE)
  PROVE  p.prep # "Blocked"
  <1>1. CASE p = Prepared("ReadyToJoin", s, mac, FALSE)
    BY <1>1 DEF Prepared
  <1>2. ASSUME NEW r, p \in IF r.joined THEN {Prepared("SessionRestored", r.s, r.mac, FALSE)}
                            ELSE IF r.s.blocked THEN ClearTheWay(r.s, TRUE)
                            ELSE {Prepared("ReadyToJoin", r.s, mac, FALSE)}
        PROVE  p.prep # "Blocked"
    <2>1. CASE p = Prepared("SessionRestored", r.s, r.mac, FALSE)
      BY <2>1 DEF Prepared
    <2>2. CASE p = Prepared("ReadyToJoin", r.s, mac, FALSE)
      BY <2>2 DEF Prepared
    <2>3. CASE p \in ClearTheWay(r.s, TRUE)
      <3>1. PICK f \in Forget(r.s) : p = Prepared("ReadyToJoin", f.s, mac, ~f.ok)
        BY <2>3 DEF ClearTheWay
      <3> QED BY <3>1 DEF Prepared
    <2> QED BY <1>2, <2>1, <2>2, <2>3
  <1> QED BY <1>1, <1>2 DEF PrepareFreshJoin

(* main.cpp grants the join token before ensure_joined(), and no cycle of a closed gate
   comes that far without it: prepare_fresh_join() then removes the record or escapes
   past it, and the deferral that mutes a healthy node never mutes a held one. *)
THEOREM KeepalivesAreNotDeferred == Spec => KeepaliveIsNotDeferred
  <1>1. IInv /\ [Next]_vars =>
          [~wake.gate /\ phase \in {"ensure_joined", "prepare"} /\ phase' = "asleep" =>
             phase = "ensure_joined" /\ ~radio'.started]_vars
    <2> SUFFICES ASSUME IInv, [Next]_vars, ~wake.gate,
                        phase \in {"ensure_joined", "prepare"}, phase' = "asleep"
                 PROVE  phase = "ensure_joined" /\ ~radio'.started
      OBVIOUS
    <2>1. CASE BeginAgain
      BY <2>1 DEF BeginAgain, EnterSend
    <2>2. CASE Prepare
      <3>1. permits.join = TRUE
        BY <2>2 DEF Prepare, IInv, TypeOK, PhaseKnows
      <3>2. PICK p \in PrepareFreshJoin(store, TRUE) :
              \/ phase' = "send"
              \/ /\ p.prep # "SessionRestored"
                 /\ phase' = IF p.prep = "ReadyToJoin" THEN "otaa" ELSE "asleep"
        BY <2>2, <3>1 DEF Prepare
      <3>3. p.prep \in {"ReadyToJoin", "SessionRestored"}
        <4>1. permits.join \in BOOLEAN /\ (store.blocked \/ store.file = {})
          BY <2>2 DEF Prepare, IInv, TypeOK, PhaseKnows, StoreKnows
        <4>2. JoinDecision(store, p) \/ p.prep = "SessionRestored"
          BY <3>2, <4>1, PrepareFacts, StoreFacts
        <4> QED BY <3>2, <4>2, PermittedJoin DEF JoinDecision
      <3> QED BY <3>2, <3>3
    <2>3. CASE AlreadyJoined
      BY <2>3 DEF AlreadyJoined, EnterSend
    <2> QED BY <2>1, <2>2, <2>3 DEF Next, vars, Crash, Setup, Wake, NotJoined, JoinAccepted,
                                    JoinFailed, Headroom, SendOk, SendFailed
  <1> QED BY <1>1, Inductive, PTL DEF Spec, KeepaliveIsNotDeferred

(* While the gate is closed nothing formats, and the record changes only on a
   keepalive cycle. *)
THEOREM GateHoldsTheFlash == Spec => FlashHeldByGate
  <1>1. IInv /\ [Next]_vars =>
          [~wake'.gate => /\ store'.cooldown <= store.cooldown
                          /\ store'.file # store.file => wake'.keepalive]_vars
    <2> SUFFICES ASSUME IInv, [Next]_vars, ~wake'.gate
                 PROVE  /\ store'.cooldown <= store.cooldown
                        /\ store'.file # store.file => wake'.keepalive
      OBVIOUS
    <2>0. store.cooldown \in Nat /\ store.file \in SUBSET Record
      BY StoreFacts DEF Stores
    <2>1. ASSUME NEW gate \in BOOLEAN, Crash(gate)
          PROVE  store'.cooldown <= store.cooldown /\ store'.file = store.file
      BY <2>0, <2>1, ColdFacts DEF Crash
    <2>2. CASE Setup
      BY <2>2, BeginFacts DEF Setup, IInv, PhaseKnows
    <2>3. CASE store' = store
      BY <2>0, <2>3
    <2>4. CASE BeginAgain
      BY <2>4, BeginFacts DEF BeginAgain, IInv, PhaseKnows
    <2>5. CASE Prepare
      <3>1. PICK p \in PrepareFreshJoin(store, permits.join) : store' = p.s /\ wake' = wake
        BY <2>5 DEF Prepare
      <3>2. permits.join \in BOOLEAN /\ (store.blocked \/ store.file = {})
            /\ (wake.gate \/ wake.keepalive)
        BY <2>5 DEF Prepare, IInv, TypeOK, PhaseKnows, StoreKnows
      <3> QED BY <3>1, <3>2, PrepareFacts, StoreFacts DEF JoinDecision
    <2>6. CASE JoinAccepted
      <3> DEFINE m == [addr |-> net + 1, up |-> 0]
      <3>1. m \in Record
        BY <2>6, SessionAssumption
           DEF SessionAssumption, JoinAccepted, IInv, TypeOK, Record, Sessions
      <3>2. PICK w \in WriteSession(store, m, FALSE) : store' = w.s
        BY <2>6 DEF JoinAccepted
      <3> HIDE DEF m
      <3>3. store' = store \/ store' = Anchored(ResumePoint(m))
        BY <3>2, WriteFacts
      <3>4. store'.cooldown <= store.cooldown
        BY <2>0, <3>1, <3>3, AnchoredFacts
      <3> QED BY <2>6, <3>4 DEF JoinAccepted, IInv, PhaseKnows
    <2>7. CASE Headroom
      <3>1. PICK h \in CounterHeadroomOk(store, permits.checkpoint) : store' = h.s /\ wake' = wake
        BY <2>7 DEF Headroom
      <3>2. /\ permits.checkpoint \in BOOLEAN
            /\ permits.checkpoint \/ wake.gate
            /\ wake.gate \/ wake.keepalive
            /\ ~store.have => \A r \in store.file : r.addr # mac.addr
        BY <2>7 DEF Headroom, IInv, TypeOK, PhaseKnows, StoreKnows
      <3>3. HeadroomAnswer(store, h)
        BY <3>1, <3>2, HeadroomFacts, StoreFacts
      <3> QED BY <3>1, <3>2, <3>3 DEF HeadroomAnswer
    <2>8. CASE SendFailed
      <3>1. store' = store \/ \E f \in Forget(store) : store' = f.s
        BY <2>8 DEF SendFailed
      <3>2. store'.cooldown <= store.cooldown
        BY <2>0, <3>1, ForgetFacts, StoreFacts
      <3> QED BY <2>8, <3>2 DEF SendFailed, IInv, PhaseKnows
    <2> QED BY <2>1, <2>2, <2>3, <2>4, <2>5, <2>6, <2>7, <2>8
            DEF Next, vars, Wake, AlreadyJoined, NotJoined, JoinFailed, SendOk
  <1> QED BY <1>1, Inductive, PTL DEF Spec, FlashHeldByGate

-----------------------------------------------------------------------------
(* The session store implements module Reserve *)

(* To be behind in module Reserve is to have overrun here. *)
LEMMA BehindIsOverrun == (R!Behind <=> Overrun) /\ (R!Behind' <=> Overrun')
  BY DEF R!Behind, R!Spent, Overrun, Held

(* The excuse is mended as module Reserve allows, unless the step itself excuses. *)
LEMMA ExcuseSettles ==
  ASSUME IInv, NEW escape \in BOOLEAN, History(FALSE, escape)
  PROVE  R!Settle
  <1>1. excused \in BOOLEAN
    BY DEF IInv, TypeOK
  <1>2. CASE phase' = "tx" \/ Overrun'
    <2>1. excused' = excused
      BY <1>1, <1>2 DEF History
    <2> QED BY <2>1 DEF R!Settle
  <1>3. CASE ~(phase' = "tx" \/ Overrun')
    <2>1. excused' = FALSE
      BY <1>3 DEF History
    <2>2. (excused /\ R!Behind') = FALSE
      BY <1>3, BehindIsOverrun
    <2> QED BY <2>1, <2>2 DEF R!Settle
  <1> QED BY <1>2, <1>3

(* A step that leaves the live session alone or gives it up, and keeps or removes the
   record, is one that loses, erases or only mends. *)
LEMMA KeepRefines ==
  ASSUME IInv, store'.file \subseteq store.file, Held' = Held \/ Held' = {},
         used' = used, net' = net, NEW escape \in BOOLEAN, History(FALSE, escape)
  PROVE  R!ReserveNext
  <1>1. R!Settle
    BY ExcuseSettles
  <1>2. CASE Held' = {}
    <2>1. store'.file \in SUBSET store.file
      OBVIOUS
    <2> QED BY <1>1, <1>2, <2>1 DEF R!ReserveNext, R!Lose
  <1>3. CASE Held' = Held /\ store'.file = store.file
    BY <1>1, <1>3 DEF R!ReserveNext, R!Mend
  <1>4. CASE Held' = Held /\ store'.file = {}
    BY <1>1, <1>4 DEF R!ReserveNext, R!Erase
  <1>5. store'.file = store.file \/ store'.file = {}
    BY StoreFacts DEF OneRecord
  <1> QED BY <1>2, <1>3, <1>4, <1>5

(* A restore that joins resumes the stored counter. *)
LEMMA RestoreRefines ==
  ASSUME IInv, ~radio.joined, radio'.joined, mac' \in store.file, store'.file = store.file,
         used' = used, net' = net, NEW escape \in BOOLEAN, History(FALSE, escape)
  PROVE  R!ReserveNext
  <1>1. R!Settle
    BY ExcuseSettles
  <1>2. Held = {} /\ Held' = {mac'}
    BY DEF Held
  <1> QED BY <1>1, <1>2 DEF R!ReserveNext, R!Resume

(* Radio::begin(), in setup() or in a cycle, resumes or goes without. *)
LEMMA BeginRefines ==
  ASSUME IInv, Begin, ~radio.started, used' = used, net' = net, History(FALSE, FALSE)
  PROVE  R!ReserveNext
  <1>1. /\ store'.file \subseteq store.file
        /\ radio'.joined => mac' \in store.file /\ store'.file = store.file
    BY BeginFacts DEF Keeps
  <1>2. ~radio.joined
    BY DEF IInv, PhaseKnows
  <1>3. CASE radio'.joined
    BY <1>1, <1>2, <1>3, RestoreRefines
  <1>4. CASE ~radio'.joined
    BY <1>1, <1>4, KeepRefines DEF Held
  <1> QED BY <1>3, <1>4

(* ensure_joined(): the record is resumed, removed, blocked or escaped past. *)
LEMMA PrepareRefines ==
  ASSUME IInv, Prepare
  PROVE  R!ReserveNext
  <1>1. PICK p \in PrepareFreshJoin(store, permits.join) :
       /\ store' = p.s
       /\ mac' = p.mac
       /\ \/ /\ p.prep = "SessionRestored"
             /\ radio' = [radio EXCEPT !.joined = TRUE, !.failures = 0]
          \/ /\ p.prep # "SessionRestored"
             /\ UNCHANGED radio
       /\ UNCHANGED <<wake, net, used>>
       /\ History(FALSE, p.escape)
    BY DEF Prepare
  <1>2. /\ ~radio.joined
        /\ store.blocked \/ store.file = {}
        /\ permits.join \in BOOLEAN
        /\ radio \in [started : BOOLEAN, joined : BOOLEAN, failures : Nat]
    BY DEF Prepare, IInv, TypeOK, PhaseKnows, StoreKnows
  <1>3. \/ JoinDecision(store, p)
        \/ /\ p.prep = "SessionRestored"
           /\ p.mac \in store.file
           /\ p.escape = FALSE
           /\ p.s.file = store.file
    BY <1>1, <1>2, PrepareFacts, StoreFacts
  <1>4. CASE JoinDecision(store, p)
    <2>1. store'.file \subseteq store.file /\ p.escape \in BOOLEAN /\ radio' = radio
      BY <1>1, <1>4 DEF JoinDecision, Keeps
    <2> QED BY <1>1, <1>2, <2>1, KeepRefines DEF Held
  <1>5. CASE /\ p.prep = "SessionRestored"
             /\ p.mac \in store.file
             /\ p.escape = FALSE
             /\ p.s.file = store.file
    <2>1. radio'.joined
      BY <1>1, <1>2, <1>5
    <2> QED BY <1>1, <1>2, <1>5, <2>1, RestoreRefines
  <1> QED BY <1>3, <1>4, <1>5

(* A join the network granted takes the next session, heard of or not. *)
LEMMA JoinRefines ==
  ASSUME IInv, JoinAccepted \/ JoinFailed
  PROVE  R!ReserveNext
  <1>1. ~radio.joined /\ History(FALSE, FALSE) /\ used' = used /\ phase = "otaa"
    BY DEF JoinAccepted, JoinFailed, IInv, PhaseKnows
  <1>2. R!Settle
    BY <1>1, ExcuseSettles
  <1>3. Held = {}
    BY <1>1 DEF Held
  <1>4. net \in Nat
    BY SessionAssumption DEF SessionAssumption, IInv, TypeOK, Sessions
  <1>5. CASE JoinAccepted
    <2> DEFINE m == [addr |-> net + 1, up |-> 0]
    <2>1. net < MaxSession /\ net' = net + 1 /\ mac' = m /\ radio'.joined
      BY <1>5 DEF JoinAccepted, IInv, TypeOK
    <2>2. PICK w \in WriteSession(store, m, FALSE) : store' = w.s
      BY <1>5 DEF JoinAccepted
    <2>3. Held' = {[addr |-> net', up |-> 0]}
      BY <2>1 DEF Held
    <2>4. m \in Record
      BY <1>4, <2>1, SessionAssumption DEF SessionAssumption, Record, Sessions
    <2> HIDE DEF m
    <2>5. store' = store \/ store' = Anchored(ResumePoint(m))
      BY <2>2, WriteFacts
    <2>6. store'.file = store.file \/ store'.file = {ResumePoint(m)}
      BY <2>4, <2>5, AnchoredFacts
    <2>7. store'.file \in {store.file, {R!Ahead([addr |-> net', up |-> 0])}}
      BY <2>1, <2>6 DEF m, R!Ahead, ResumePoint
    <2> QED BY <1>1, <1>2, <1>3, <2>1, <2>3, <2>7 DEF R!ReserveNext, R!Grant
  <1>6. CASE JoinFailed
    <2>1. store' = store /\ Held' = Held /\ (net' = net \/ (net' = net + 1 /\ net' \in Sessions))
      BY <1>1, <1>6 DEF JoinFailed, Held, IInv, TypeOK
    <2>2. CASE net' = net
      BY <1>1, <1>2, <2>1, <2>2 DEF R!ReserveNext, R!Mend
    <2>3. CASE net' = net + 1 /\ net' \in Sessions
      <3>1. net < MaxSession
        BY <1>4, <2>3, SessionAssumption DEF SessionAssumption, Sessions
      <3> QED BY <1>1, <1>2, <2>1, <2>3, <3>1 DEF R!ReserveNext, R!Grant
    <2> QED BY <2>1, <2>2, <2>3
  <1> QED BY <1>5, <1>6

(* counter_headroom_ok() renews the reserve, removes it, or gives the promise up. *)
LEMMA HeadroomRefines ==
  ASSUME IInv, Headroom
  PROVE  R!ReserveNext
  <1>1. PICK h \in CounterHeadroomOk(store, permits.checkpoint) :
          /\ store' = h.s
          /\ phase' = IF h.go THEN "tx" ELSE "asleep"
          /\ UNCHANGED <<wake, radio, mac, net, used>>
          /\ History(h.past, FALSE)
    BY DEF Headroom
  <1>2. /\ permits.checkpoint \in BOOLEAN
        /\ permits.checkpoint \/ wake.gate
        /\ radio.joined
        /\ ~store.have => \A r \in store.file : r.addr # mac.addr
    BY DEF Headroom, IInv, TypeOK, PhaseKnows, StoreKnows
  <1>3. HeadroomAnswer(store, h)
    BY <1>1, <1>2, HeadroomFacts, StoreFacts
  <1>4. Held = {mac} /\ Held' = Held
    BY <1>1, <1>2 DEF Held
  <1>5. CASE h.past
    <2>1. store'.file = store.file \/ store'.file = {}
      BY <1>1, <1>3, <1>5, StoreFacts DEF HeadroomAnswer, Keeps, OneRecord
    <2>2. excused' = TRUE
      BY <1>1, <1>3, <1>5 DEF HeadroomAnswer, History
    <2> QED BY <1>1, <1>4, <2>1, <2>2 DEF R!ReserveNext, R!Lapse
  <1>6. CASE ~h.past
    <2>1. h.past = FALSE
      BY <1>3, <1>6 DEF HeadroomAnswer
    <2>2. R!Settle
      BY <1>1, <2>1, ExcuseSettles
    <2>3. CASE Keeps(store, store')
      BY <1>1, <1>4, <2>1, <2>3, KeepRefines DEF Keeps
    <2>4. CASE store' = Anchored(ResumePoint(mac))
      <3>1. store'.file = {R!Ahead(mac)}
        BY <2>4, StoreFacts, AnchoredFacts DEF R!Ahead, ResumePoint
      <3> QED BY <1>1, <1>4, <2>2, <3>1 DEF R!ReserveNext, R!Renew
    <2> QED BY <1>1, <1>3, <2>3, <2>4 DEF HeadroomAnswer, KeepsOrAnchors
  <1> QED BY <1>5, <1>6

(* lmh_send(): the frame on the air is below the stored counter, or excused. *)
LEMMA SendRefines ==
  ASSUME IInv, SendOk
  PROVE  R!Send
  <1>1. /\ store' = store /\ net' = net /\ phase = "tx" /\ History(FALSE, FALSE)
        /\ mac' = [mac EXCEPT !.up = @ + 1]
        /\ radio.joined /\ radio'.joined
        /\ mac.up \in Nat /\ used[mac.addr] \in Nat
        /\ used' = [used EXCEPT ![mac.addr] = IF mac.up >= @ THEN mac.up + 1 ELSE @]
    BY StoreFacts DEF SendOk, IInv, TypeOK, PhaseKnows, Record
  <1>2. Held = {mac} /\ Held' = {[mac EXCEPT !.up = @ + 1]}
    BY <1>1 DEF Held
  <1>3. used' = [used EXCEPT ![mac.addr] = IF R!Spent(mac) THEN @ ELSE mac.up + 1]
    <2>1. R!Spent(mac) <=> ~(mac.up >= used[mac.addr])
      BY <1>1 DEF R!Spent
    <2>2. CASE R!Spent(mac)
      BY <1>1, <2>1, <2>2
    <2>3. CASE ~R!Spent(mac)
      BY <1>1, <2>1, <2>3
    <2> QED BY <2>2, <2>3
  <1>4. ~excused => \A q \in store.file : q.addr = mac.addr => mac.up < q.up
    BY <1>1 DEF IInv, StrictlyBelowStored
  <1>5. R!Settle
    BY <1>1, ExcuseSettles
  <1> QED BY <1>1, <1>2, <1>3, <1>4, <1>5 DEF R!Send

(* What the steps that leave both sides of the reserve alone have in common. *)
LEMMA OtherRefines ==
  ASSUME IInv, NEW gate \in BOOLEAN, NEW keepalive \in BOOLEAN, NEW silent \in BOOLEAN,
         Crash(gate) \/ Wake(gate, keepalive, silent) \/ AlreadyJoined \/ NotJoined \/ SendFailed
  PROVE  R!ReserveNext
  <1>1. used' = used /\ net' = net /\ History(FALSE, FALSE)
    BY DEF Crash, Wake, AlreadyJoined, NotJoined, SendFailed
  <1>2. store'.file \subseteq store.file
    <2>1. CASE Crash(gate)
      BY <2>1, StoreFacts, ColdFacts DEF Crash
    <2>2. CASE SendFailed
      <3>1. store' = store \/ \E f \in Forget(store) : store' = f.s
        BY <2>2 DEF SendFailed
      <3> QED BY <3>1, ForgetFacts, StoreFacts DEF Keeps
    <2> QED BY <2>1, <2>2 DEF Wake, AlreadyJoined, NotJoined
  <1>3. Held' = Held \/ Held' = {}
    <2>1. CASE Crash(gate)
      BY <2>1 DEF Crash, Held
    <2>2. CASE SendFailed
      <3>1. mac' = mac /\ (radio'.joined => radio.joined)
        BY <2>2 DEF SendFailed, IInv, TypeOK
      <3> QED BY <3>1 DEF Held
    <2> QED BY <2>1, <2>2 DEF Wake, AlreadyJoined, NotJoined, Held
  <1> QED BY <1>1, <1>2, <1>3, KeepRefines

(* The node with its flash, its gate, its permits and its ladder is a counter with a
   reserve: each of its steps is a step of module Reserve or none. *)
THEOREM SessionImplementsReserve == Spec => ImplementsReserve
  <1>1. Init => R!ReserveInit
    <2> SUFFICES ASSUME Init PROVE R!ReserveInit
      OBVIOUS
    <2>1. store.file = {}
      BY ColdFacts DEF Init
    <2>2. Held = {}
      BY DEF Init, Held
    <2>3. Sessions = R!Addresses
      BY DEF Sessions, R!Addresses
    <2> QED BY <2>1, <2>2, <2>3 DEF Init, R!ReserveInit
  <1>2. IInv /\ [Next]_vars => [R!ReserveNext]_(R!reserveVars)
    <2> SUFFICES ASSUME IInv, [Next]_vars PROVE R!ReserveNext \/ UNCHANGED R!reserveVars
      OBVIOUS
    <2>1. ASSUME NEW gate \in BOOLEAN, Crash(gate) PROVE R!ReserveNext
      BY <2>1, OtherRefines
    <2>2. ASSUME NEW gate \in BOOLEAN, NEW keepalive \in BOOLEAN, NEW silent \in BOOLEAN,
                 Wake(gate, keepalive, silent)
          PROVE  R!ReserveNext
      BY <2>2, OtherRefines
    <2>3. CASE AlreadyJoined \/ NotJoined \/ SendFailed
      BY <2>3, OtherRefines
    <2>4. CASE Setup
      BY <2>4, BeginRefines DEF Setup, IInv, PhaseKnows
    <2>5. CASE BeginAgain
      BY <2>5, BeginRefines DEF BeginAgain
    <2>6. CASE Prepare
      BY <2>6, PrepareRefines
    <2>7. CASE JoinAccepted \/ JoinFailed
      BY <2>7, JoinRefines
    <2>8. CASE Headroom
      BY <2>8, HeadroomRefines
    <2>9. CASE SendOk
      BY <2>9, SendRefines DEF R!ReserveNext
    <2>10. CASE UNCHANGED vars
      BY <2>10 DEF vars, R!reserveVars, Held
    <2> QED BY <2>1, <2>2, <2>3, <2>4, <2>5, <2>6, <2>7, <2>8, <2>9, <2>10 DEF Next
  <1> QED BY <1>1, <1>2, Inductive, PTL DEF Spec, ImplementsReserve, R!ReserveSpec

-----------------------------------------------------------------------------
(* Module Reserve keeps its promise.  Nothing below uses what the variables of  *)
(* Reserve are in Session.                                                     *)

(* An honest lapse stays honest over a step that makes nothing fall behind. *)
LEMMA SettleKeeps ==
  ASSUME excused \in BOOLEAN, R!Settle, R!Behind' => excused
  PROVE  R!NeverBehind' /\ excused' \in BOOLEAN
  <1>1. CASE excused' = excused
    BY <1>1 DEF R!NeverBehind
  <1>2. CASE excused' = (excused /\ R!Behind')
    <2>1. excused' \in BOOLEAN
      BY <1>2
    <2>2. R!Behind' => excused'
      BY <1>2
    <2> QED BY <2>1, <2>2 DEF R!NeverBehind
  <1> QED BY <1>1, <1>2 DEF R!Settle

(* Counters that were there before, with nothing sent and nothing granted, are as far
   ahead as they were. *)
LEMMA OldCountersKeep ==
  ASSUME R!ReserveIInv, store'.file \cup Held' \subseteq store.file \cup Held,
         UNCHANGED <<net, used>>, R!Settle
  PROVE  R!ReserveIInv'
  <1>1. R!Behind' => excused
    BY DEF R!ReserveIInv, R!NeverBehind, R!Behind, R!Spent
  <1>2. R!NeverBehind' /\ excused' \in BOOLEAN
    BY <1>1, SettleKeeps DEF R!ReserveIInv
  <1>3. store'.file \in SUBSET R!Counters /\ Held' \in SUBSET R!Counters
    BY DEF R!ReserveIInv
  <1>4. \A r \in store'.file \cup Held' : r.addr <= net
    BY DEF R!ReserveIInv
  <1> QED BY <1>2, <1>3, <1>4 DEF R!ReserveIInv

(* The stored copy of a counter is that of its session, ahead of it. *)
LEMMA AheadFacts ==
  ASSUME NEW r \in R!Counters
  PROVE  R!Ahead(r) \in R!Counters /\ R!Ahead(r).addr = r.addr /\ R!Ahead(r).up >= r.up
  BY SessionAssumption DEF SessionAssumption, R!Ahead, R!Counters

(* A session just granted has no counter used, live or stored. *)
LEMMA GrantKeeps ==
  ASSUME R!ReserveIInv, R!Grant
  PROVE  R!ReserveIInv'
  <1>1. net \in Nat /\ net' = net + 1 /\ net' \in R!Addresses /\ used' = used
    BY SessionAssumption DEF SessionAssumption, R!Grant, R!ReserveIInv, R!Addresses
  <1>2. DEFINE m == [addr |-> net', up |-> 0]
  <1>3. m \in R!Counters /\ m.addr = net' /\ m.up = 0 /\ used[m.addr] = 0
    BY <1>1 DEF R!Counters, R!ReserveIInv
  <1>4. R!Ahead(m) \in R!Counters /\ R!Ahead(m).addr = net' /\ R!Ahead(m).up \in Nat
    BY <1>3, AheadFacts DEF R!Counters
  <1>5. \/ store'.file = store.file /\ Held' = Held
        \/ Held' = {m} /\ (store'.file = store.file \/ store'.file = {R!Ahead(m)})
    BY DEF R!Grant
  <1> HIDE DEF m
  <1>6. \A r \in store'.file \cup Held' :
          /\ r \in R!Counters
          /\ r \in store.file \cup Held \/ (r.addr = net' /\ ~(r.up < used[r.addr]))
    <2>1. ~(m.up < used[m.addr])
      BY <1>3
    <2>2. ~(R!Ahead(m).up < used[R!Ahead(m).addr])
      BY <1>3, <1>4
    <2> QED BY <1>3, <1>4, <1>5, <2>1, <2>2 DEF R!ReserveIInv
  <1>7. R!Behind' => excused
    BY <1>1, <1>6 DEF R!ReserveIInv, R!NeverBehind, R!Behind, R!Spent
  <1>8. R!NeverBehind' /\ excused' \in BOOLEAN
    BY <1>7, SettleKeeps DEF R!Grant, R!ReserveIInv
  <1>9. \A r \in store'.file \cup Held' : r.addr <= net'
    <2>1. \A r \in store.file \cup Held : r.addr <= net /\ r.addr \in Nat
      BY SessionAssumption
         DEF SessionAssumption, R!ReserveIInv, R!Counters, R!Addresses
    <2> QED BY <1>1, <1>6, <2>1
  <1>10. \A a \in R!Addresses : a > net' => used'[a] = 0
    BY <1>1 DEF R!ReserveIInv, R!Addresses
  <1> QED BY <1>1, <1>6, <1>8, <1>9, <1>10 DEF R!ReserveIInv

(* A renewed reserve is at or above the live counter, and no further behind than it. *)
LEMMA RenewKeeps ==
  ASSUME R!ReserveIInv, R!Renew
  PROVE  R!ReserveIInv'
  <1>1. PICK r \in Held : store'.file = {R!Ahead(r)}
    BY DEF R!Renew
  <1>2. r \in R!Counters /\ UNCHANGED <<Held, net, used>> /\ R!Settle
    BY <1>1 DEF R!Renew, R!ReserveIInv
  <1>3. R!Ahead(r) \in R!Counters /\ R!Ahead(r).addr = r.addr /\ R!Ahead(r).up >= r.up
    BY <1>2, AheadFacts
  <1>4. R!Spent(R!Ahead(r)) => R!Spent(r)
    <2>1. used[r.addr] \in Nat /\ r.up \in Nat /\ R!Ahead(r).up \in Nat
      BY <1>2, <1>3 DEF R!ReserveIInv, R!Counters
    <2> QED BY <1>3, <2>1 DEF R!Spent
  <1>5. R!Behind' => excused
    BY <1>1, <1>2, <1>4 DEF R!ReserveIInv, R!NeverBehind, R!Behind, R!Spent
  <1>6. R!NeverBehind' /\ excused' \in BOOLEAN
    BY <1>2, <1>5, SettleKeeps DEF R!ReserveIInv
  <1>7. \A q \in store'.file \cup Held' : q.addr <= net
    BY <1>1, <1>2, <1>3 DEF R!ReserveIInv
  <1> QED BY <1>1, <1>2, <1>3, <1>6, <1>7 DEF R!ReserveIInv

(* A frame below the stored counter leaves both counters at or above what is used. *)
LEMMA SendKeeps ==
  ASSUME R!ReserveIInv, R!Send
  PROVE  R!ReserveIInv'
  <1>1. PICK r \in Held :
          /\ ~excused => \A q \in store.file : q.addr = r.addr => r.up < q.up
          /\ Held' = {[r EXCEPT !.up = @ + 1]}
          /\ used' = [used EXCEPT ![r.addr] = IF R!Spent(r) THEN @ ELSE r.up + 1]
    BY DEF R!Send
  <1>2. /\ store'.file = store.file /\ net' = net /\ R!Settle
        /\ r \in R!Counters /\ r.addr \in R!Addresses /\ r.up \in Nat /\ r.addr <= net
        /\ used \in [R!Addresses -> Nat] /\ used[r.addr] \in Nat
    BY <1>1 DEF R!Send, R!ReserveIInv, R!Counters
  <1>3. DEFINE seen == IF R!Spent(r) THEN used[r.addr] ELSE r.up + 1
               next == [r EXCEPT !.up = @ + 1]
  <1>4. seen \in Nat
    BY <1>2
  <1>5. /\ used' \in [R!Addresses -> Nat]
        /\ used'[r.addr] = seen
        /\ \A a \in R!Addresses : a # r.addr => used'[a] = used[a]
    BY <1>1, <1>2, <1>4
  <1>6. next \in R!Counters /\ next.addr = r.addr /\ next.up = r.up + 1 /\ Held' = {next}
    BY <1>1, <1>2 DEF R!Counters
  <1> HIDE DEF next
  <1>7. R!Behind' => excused
    <2> SUFFICES ASSUME ~excused PROVE ~R!Behind'
      BY DEF R!ReserveIInv
    <2>1. seen = r.up + 1
      BY <1>1 DEF R!ReserveIInv, R!NeverBehind, R!Behind
    <2>2. ASSUME NEW q \in store.file PROVE ~(q.up < used'[q.addr])
      <3>1. q.up \in Nat /\ q.addr \in R!Addresses /\ used[q.addr] \in Nat
        BY <1>2 DEF R!ReserveIInv, R!Counters
      <3>2. ~(q.up < used[q.addr])
        BY DEF R!ReserveIInv, R!NeverBehind, R!Behind, R!Spent
      <3>3. CASE q.addr = r.addr
        BY <1>1, <1>2, <1>5, <2>1, <3>1, <3>3
      <3>4. CASE q.addr # r.addr
        BY <1>5, <3>1, <3>2, <3>4
      <3> QED BY <3>3, <3>4
    <2>3. ~(next.up < used'[next.addr])
      BY <1>2, <1>5, <1>6, <2>1
    <2> QED BY <1>2, <1>6, <2>2, <2>3 DEF R!Behind, R!Spent
  <1>8. R!NeverBehind' /\ excused' \in BOOLEAN
    BY <1>2, <1>7, SettleKeeps DEF R!ReserveIInv
  <1>9. \A a \in R!Addresses : a > net => used'[a] = 0
    <2>1. r.addr \in Nat /\ net \in Nat
      BY <1>2, SessionAssumption DEF SessionAssumption, R!ReserveIInv, R!Addresses
    <2>2. \A a \in R!Addresses : a > net => a # r.addr
      BY <1>2, <2>1 DEF R!Addresses
    <2> QED BY <1>5, <2>2 DEF R!ReserveIInv
  <1>10. store'.file \in SUBSET R!Counters /\ Held' \in SUBSET R!Counters
    BY <1>2, <1>6 DEF R!ReserveIInv
  <1>11. \A q \in store'.file \cup Held' : q.addr <= net'
    BY <1>2, <1>6 DEF R!ReserveIInv
  <1> QED BY <1>2, <1>5, <1>8, <1>9, <1>10, <1>11 DEF R!ReserveIInv

(* Whatever loses RAM, resumes, renews or is granted: until a lapse is declared nothing
   stored or in use is behind a counter on the air.  NoReplay is this, for the node. *)
THEOREM ReserveIsNeverBehind == R!ReserveSpec => []R!NeverBehind
  <1>1. R!ReserveInit => R!ReserveIInv
    <2> SUFFICES ASSUME R!ReserveInit PROVE R!ReserveIInv
      OBVIOUS
    <2>1. net \in R!Addresses /\ used \in [R!Addresses -> Nat]
      BY SessionAssumption DEF SessionAssumption, R!ReserveInit, R!Addresses
    <2>2. ~R!Behind
      BY DEF R!ReserveInit, R!Behind
    <2> QED BY <2>1, <2>2 DEF R!ReserveInit, R!ReserveIInv, R!NeverBehind
  <1>2. R!ReserveIInv /\ [R!ReserveNext]_(R!reserveVars) => R!ReserveIInv'
    <2> SUFFICES ASSUME R!ReserveIInv, [R!ReserveNext]_(R!reserveVars)
                 PROVE  R!ReserveIInv'
      OBVIOUS
    <2>1. CASE R!Lose \/ R!Erase \/ R!Mend
      BY <2>1, OldCountersKeep DEF R!Lose, R!Erase, R!Mend
    <2>2. CASE R!Resume
      BY <2>2, OldCountersKeep DEF R!Resume
    <2>3. CASE R!Grant
      BY <2>3, GrantKeeps
    <2>4. CASE R!Renew
      BY <2>4, RenewKeeps
    <2>5. CASE R!Send
      BY <2>5, SendKeeps
    <2>6. CASE R!Lapse
      <3>1. R!NeverBehind' /\ excused' \in BOOLEAN
        BY <2>6 DEF R!Lapse, R!NeverBehind
      <3>2. /\ store'.file \in SUBSET R!Counters /\ Held' \in SUBSET R!Counters
            /\ \A r \in store'.file \cup Held' : r.addr <= net'
            /\ net' = net /\ used' = used
        BY <2>6 DEF R!Lapse, R!ReserveIInv
      <3> QED BY <3>1, <3>2 DEF R!ReserveIInv
    <2>7. CASE UNCHANGED R!reserveVars
      <3>1. UNCHANGED <<store.file, Held, net, used, excused>>
        BY <2>7 DEF R!reserveVars
      <3>2. R!NeverBehind'
        BY <3>1 DEF R!ReserveIInv, R!NeverBehind, R!Behind, R!Spent
      <3> QED BY <3>1, <3>2 DEF R!ReserveIInv
    <2> QED BY <2>1, <2>2, <2>3, <2>4, <2>5, <2>6, <2>7 DEF R!ReserveNext
  <1>3. R!ReserveIInv => R!NeverBehind
    BY DEF R!ReserveIInv
  <1> QED BY <1>1, <1>2, <1>3, PTL DEF R!ReserveSpec
============================================================================
