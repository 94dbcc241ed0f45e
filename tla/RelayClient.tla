----------------------------- MODULE RelayClient -----------------------------
(***************************************************************************)
(* RelayClient (lib/p2p/relay/client.ts): the registrations with relay     *)
(* servers and the passes that renew them.  The interval begins a pass     *)
(* whether or not the one before has ended, so several may be under way,   *)
(* each waiting for one dial.  Relays are numbered in the order in which   *)
(* the map lists them, which is that of the configuration.                 *)
(***************************************************************************)
EXTENDS Integers

CONSTANTS
  RelayCount,   \* number of relayServers
  Passes        \* the renewal passes that may be under way together

Relays == 1 .. RelayCount

ASSUME RelayAssumption == RelayCount \in Nat \ {0}

VARIABLES
  relayPhase,  \* off, registering, up, stopped
  relayLibp2p, \* libp2p is set
  active,      \* active[r], for the relays registrations holds
  relayTimer,  \* keepAliveInterval is set
  linked,      \* External: the relays libp2p has a connection to
  registering, \* the relay start() waits for; zero when it waits for none
  pass         \* pass[k]: the relay pass k waits for; zero when it is not running

relayVars == <<relayPhase, relayLibp2p, active, relayTimer, linked, registering, pass>>

SetActive(f, r, value) == [s \in DOMAIN f \cup {r} |-> IF s = r THEN value ELSE f[s]]

-----------------------------------------------------------------------------
\* start() up to its first dial; registrationInterval is positive.
RelayStart(autoRegister) ==
  /\ relayPhase = "off"
  /\ relayLibp2p' = TRUE
  /\ IF autoRegister
     THEN relayPhase' = "registering" /\ registering' = 1 /\ UNCHANGED relayTimer
     ELSE relayPhase' = "up" /\ relayTimer' = TRUE /\ UNCHANGED registering
  /\ UNCHANGED <<active, linked, pass>>

\* The outcome of registerWithRelay's dial.
Dialled(r, success) ==
  /\ active' = SetActive(active, r, success)
  /\ linked' = IF success THEN linked \cup {r} ELSE linked

\* A dial of start() ends; after the last one the keep-alive timer is set.
Registered(success) ==
  /\ registering # 0
  /\ Dialled(registering, success)
  /\ IF registering < RelayCount
     THEN registering' = registering + 1 /\ UNCHANGED <<relayPhase, relayTimer>>
     ELSE registering' = 0 /\ relayPhase' = "up" /\ relayTimer' = TRUE
  /\ UNCHANGED <<relayLibp2p, pass>>

\* A pass that renews what is active and leaves the rest.
DueActive(f, r, links) == {s \in DOMAIN f : s > r /\ f[s] /\ s \notin links}

\* The relays after r that a pass has to dial: inactive ones and those whose
\* connection is lost.
Due(f, r, links) == {s \in DOMAIN f : s > r /\ (~f[s] \/ s \notin links)}

\* Pass k goes on after relay r, with the registrations f, to the next dial.
GoOn(k, r, f, links) ==
  LET due == Due(f, r, links)
      next == CHOOSE s \in due : \A t \in due : s <= t
  IN  IF due = {} \/ ~relayLibp2p
      THEN pass' = [pass EXCEPT ![k] = 0] /\ active' = f
      ELSE pass' = [pass EXCEPT ![k] = next] /\ active' = SetActive(f, next, FALSE)

\* renewRegistrations up to its first dial.
BeginRenewal(k) ==
  /\ relayTimer /\ pass[k] = 0
  /\ GoOn(k, 0, active, linked)
  /\ UNCHANGED <<relayPhase, relayLibp2p, relayTimer, linked, registering>>

\* A dial of pass k ends; its relay is registered again even if stop() has
\* cleared the registrations meanwhile.
RenewalDialled(k, success) ==
  /\ pass[k] # 0
  /\ linked' = IF success THEN linked \cup {pass[k]} ELSE linked
  /\ GoOn(k, pass[k], SetActive(active, pass[k], success), linked')
  /\ UNCHANGED <<relayPhase, relayLibp2p, relayTimer, registering>>

\* External: a connection is lost.
LoseLink(r) ==
  /\ r \in linked
  /\ linked' = linked \ {r}
  /\ UNCHANGED <<relayPhase, relayLibp2p, active, relayTimer, registering, pass>>

Disowned == relayLibp2p' = FALSE

RelayStop ==
  /\ relayPhase = "up"
  /\ relayPhase' = "stopped"
  /\ relayTimer' = FALSE
  /\ active' = <<>>
  /\ Disowned
  /\ UNCHANGED <<linked, registering, pass>>

\* getRelayAddresses
Advertised == IF relayLibp2p THEN {r \in DOMAIN active : active[r]} ELSE {}

-----------------------------------------------------------------------------
RelayInit ==
  /\ relayPhase = "off"
  /\ relayLibp2p = FALSE
  /\ active = <<>>
  /\ relayTimer = FALSE
  /\ linked = {}
  /\ registering = 0
  /\ pass = [k \in Passes |-> 0]

RelayDial(success) == Registered(success) \/ \E k \in Passes : RenewalDialled(k, success)

\* What runs once start() is called, stop() aside.
RelayStep ==
  \/ \E success \in BOOLEAN : RelayDial(success)
  \/ \E k \in Passes : BeginRenewal(k)
  \/ \E r \in Relays : LoseLink(r)

\* Dials end, and the interval fires.
RelayFairness ==
  /\ WF_relayVars(\E success \in BOOLEAN : Registered(success))
  /\ \A k \in Passes : WF_relayVars(\E success \in BOOLEAN : RenewalDialled(k, success))
  /\ \A k \in Passes : WF_relayVars(BeginRenewal(k))

-----------------------------------------------------------------------------
(***************************************************************************)
(* Properties                                                              *)
(***************************************************************************)

\* When from some time on dials succeed and connections last, every relay is
\* registered in the end and stays so, whatever passes still overlap.
Disturbed == RelayDial(FALSE) \/ \E r \in Relays : LoseLink(r)
RelaysRecover ==
  (<>[][~Disturbed]_relayVars /\ <>[](relayPhase = "up" /\ DOMAIN active # {})) =>
    <>[](Advertised = Relays)

\* A stopped client advertises no relay, although a dial that was under way
\* registers its relay afterwards.
StoppedAdvertisesNothing == relayPhase = "stopped" => Advertised = {}
=============================================================================
