------------------------------- MODULE Reserve -------------------------------
(***************************************************************************)
(* What the session store promises the network, with flash, gate, permits  *)
(* and recovery ladder left out: a counter in RAM and, in storage that     *)
(* survives a reset, a copy deliberately ahead of it.  A frame that is     *)
(* sent before a lapse was declared uses a counter below the stored one,   *)
(* so whatever is resumed later is above everything on the air.  Session   *)
(* implements this specification.                                          *)
(***************************************************************************)
EXTENDS Naturals

CONSTANTS
  Margin,     \* session.h kCounterMargin (32): how far ahead the copy is
  MaxSession  \* bound: sessions the network ever grants

VARIABLES
  stable,  \* the stored counter: at most one [addr, up], survives a reset
  live,    \* the counter in use: at most one [addr, up]
  newest,  \* the newest session the network has granted
  used,    \* used[a] exceeds every counter sent under session a
  lapsed   \* the promise is off: a frame may pass the stored counter

reserveVars == <<stable, live, newest, used, lapsed>>

Addresses == 0..MaxSession
Ahead(r) == [r EXCEPT !.up = @ + Margin]

\* A counter that would be used a second time if it were used now.
Spent(r) == r.up < used[r.addr]
Behind == \E r \in stable \cup live : Spent(r)

\* A lapse may end when nothing is behind, and nothing but Lapse begins one.
Settle == lapsed' \in {lapsed, lapsed /\ Behind'}

\* RAM is lost or the session given up; the stored copy may go with it.
Lose ==
  /\ live' = {}
  /\ stable' \in SUBSET stable
  /\ UNCHANGED <<newest, used>>
  /\ Settle

\* The stored copy alone is removed.
Erase ==
  /\ stable' = {}
  /\ UNCHANGED <<live, newest, used>>
  /\ Settle

\* The stored copy becomes the counter in use.
Resume ==
  /\ live = {}
  /\ \E r \in stable : live' = {r}
  /\ UNCHANGED <<stable, newest, used>>
  /\ Settle

\* The network grants a session.  The node may never hear of it; if it does, the
\* new counter may or may not be stored at once.
Grant ==
  /\ newest < MaxSession
  /\ newest' = newest + 1
  /\ \/ UNCHANGED <<stable, live>>
     \/ /\ live = {}
        /\ live' = {[addr |-> newest', up |-> 0]}
        /\ stable' \in {stable, {Ahead([addr |-> newest', up |-> 0])}}
  /\ UNCHANGED used
  /\ Settle

\* The reserve is renewed.
Renew ==
  /\ \E r \in live : stable' = {Ahead(r)}
  /\ UNCHANGED <<live, newest, used>>
  /\ Settle

\* A frame goes out, strictly below the stored copy of its session if there is one.
Send ==
  /\ \E r \in live :
       /\ ~lapsed => \A q \in stable : q.addr = r.addr => r.up < q.up
       /\ live' = {[r EXCEPT !.up = @ + 1]}
       /\ used' = [used EXCEPT ![r.addr] = IF Spent(r) THEN @ ELSE r.up + 1]
  /\ UNCHANGED <<stable, newest>>
  /\ Settle

\* The holder of a counter gives the promise up rather than fall silent.
Lapse ==
  /\ live # {}
  /\ stable' \in {stable, {}}
  /\ lapsed' = TRUE
  /\ UNCHANGED <<live, newest, used>>

\* The end of a lapse by itself.
Mend ==
  /\ UNCHANGED <<stable, live, newest, used>>
  /\ Settle

ReserveInit ==
  /\ stable = {}
  /\ live = {}
  /\ newest = 0
  /\ used = [a \in Addresses |-> 0]
  /\ lapsed = FALSE

ReserveNext == Lose \/ Erase \/ Resume \/ Grant \/ Renew \/ Send \/ Lapse \/ Mend

ReserveSpec == ReserveInit /\ [][ReserveNext]_reserveVars

\* What the steps add up to: without a lapse nothing stored or in use is behind.
NeverBehind == Behind => lapsed

\* And what holds with it: no session is known or used before it is granted.
Counters == [addr : Addresses, up : Nat]

ReserveIInv ==
  /\ stable \in SUBSET Counters /\ live \in SUBSET Counters
  /\ newest \in Addresses
  /\ used \in [Addresses -> Nat]
  /\ lapsed \in BOOLEAN
  /\ \A r \in stable \cup live : r.addr <= newest
  /\ \A a \in Addresses : a > newest => used[a] = 0
  /\ NeverBehind
=============================================================================
