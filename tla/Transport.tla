------------------------------ MODULE Transport ------------------------------
(***************************************************************************)
(* The carriers of hosts/browser/src/network: webrtc-transport.ts over two *)
(* data channels, and steam-transport.ts over the P2P calls of steam.cjs.  *)
(* Input packets take the realtime channel, which may lose and reorder     *)
(* them; every other kind takes the reliable one, which delivers in order  *)
(* for as long as it is open and loses what is in flight when it closes.   *)
(* A packet is its kind and the fields its receiver decides upon.  Of a    *)
(* delta, intact says whether the bytes its fingerprint is about were kept,*)
(* and declared whether the fingerprint it carries was.                    *)
(***************************************************************************)
EXTENDS Integers, FiniteSets, SequencesExt

CONSTANTS
  Peers,      \* the peer ids of the session
  Games,      \* the sets of uses of the session that games make
  MaxFaults   \* bound on the faults: closings, damaged packets, failed reports and loads

\* A game sends inputs, predicts ticks on its peers and records them, or syncs
\* chunks, which it may apply in promises that other packets overtake.
Uses == {"inputs", "predicts", "records", "chunks", "waits"}

ASSUME TransportAssumption ==
  /\ IsFiniteSet(Peers)
  /\ Games \subseteq SUBSET Uses
  /\ MaxFaults \in Nat

VARIABLES
  game,      \* what the game makes of the session
  open,      \* the peers whose channels have readyState "open"
  toPeer,    \* toPeer[p]: reliable packets on their way from the host
  toHost,    \* toHost[p]: reliable packets on their way to the host
  realtime,  \* realtime[p]: the sequences of the inputs on their way to the host
  faults     \* history: the faults so far

carriers == <<open, toPeer, toHost, realtime>>

TransportInit ==
  /\ game \in Games
  /\ open = {}
  /\ toPeer = [p \in Peers |-> <<>>]
  /\ toHost = [p \in Peers |-> <<>>]
  /\ realtime = [p \in Peers |-> {}]
  /\ faults = 0

\* What send makes of a direction: a carrier that is not open refuses the packet
\* with NETWORK_TRANSPORT_UNAVAILABLE, the others still get theirs.
Sent(direction, receivers, packets) ==
  [p \in Peers |-> IF p \in receivers \intersect open
                   THEN direction[p] \o packets[p] ELSE direction[p]]

SentTo(direction, p, packet) == Sent(direction, {p}, [q \in Peers |-> <<packet>>])

Hello == [kind |-> "handshake"]

\* A carrier opens, and the game greets with the hello of room-bridge.ts first.
Open(p) ==
  /\ p \notin open
  /\ open' = open \union {p}
  /\ toHost' = [toHost EXCEPT ![p] = <<Hello>>]
  /\ UNCHANGED <<toPeer, realtime>>

Close(p) ==
  /\ p \in open /\ faults < MaxFaults
  /\ open' = open \ {p}
  /\ toPeer' = [toPeer EXCEPT ![p] = <<>>]
  /\ toHost' = [toHost EXCEPT ![p] = <<>>]
  /\ realtime' = [realtime EXCEPT ![p] = {}]
  /\ faults' = faults + 1

LoseInput(p) ==
  /\ \E sequence \in realtime[p] :
       realtime' = [realtime EXCEPT ![p] = @ \ {sequence}]
  /\ UNCHANGED <<open, toPeer, toHost>>

\* The bytes of a delta change on the way, or the fingerprint that is there to tell.
Damage(p) ==
  /\ faults < MaxFaults
  /\ \E i \in DOMAIN toPeer[p] :
       /\ toPeer[p][i].kind = "delta"
       /\ \/ toPeer' = [toPeer EXCEPT ![p][i].intact = FALSE]
          \/ toPeer' = [toPeer EXCEPT ![p][i].declared = FALSE]
  /\ faults' = faults + 1
  /\ UNCHANGED <<open, toHost, realtime>>
=============================================================================
