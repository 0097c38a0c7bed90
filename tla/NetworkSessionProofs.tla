-------------------------- MODULE NetworkSessionProofs --------------------------
(***************************************************************************)
(* What a session promises, for any peers, chunks and bounds: the host     *)
(* forgets a delta only when its peer applied or misread it, the replicas  *)
(* of the peers implement ChunkReplicas, and a peer goes back behind what  *)
(* it was restored to only in a handler that waited for its report.        *)
(*                                                                         *)
(* The argument is about the packets on their way.  An acknowledgement     *)
(* that matches is of a revision that was applied, or that came whole and  *)
(* was refused; the deltas of a chunk come in the order of their           *)
(* revisions, none before what the replica has, none beyond what was       *)
(* offered; and what is pending is what was offered.                       *)
(* The snapshots come in the order of their ticks, none before what the    *)
(* peer was restored to, nor before what its handlers hold.                *)
(***************************************************************************)
EXTENDS NetworkSession, FiniteSetTheorems, TLAPS

InOrderApplies == "waits" \notin game

Deltas ==
  [kind : {"delta"}, chunk : Chunks, revision : Nat, intact : BOOLEAN, declared : BOOLEAN]

IsASequence(s) == \E S : s \in Seq(S)

\* What a peer may acknowledge with the fingerprint of the host.
Answered(p) == applied[p] \union misread[p]

\* The packets of a peer on their way to the host, when known is what it answered.
Acknowledged(s, known) ==
  /\ IsASequence(s)
  /\ \A i \in 1..Len(s) :
       s[i].kind = "ack" /\ s[i].matches => <<s[i].chunk, s[i].revision>> \in known

\* The packets on their way to a peer that was offered some revisions and has others.
InFlight(s, offers, has, ordered) ==
  /\ IsASequence(s)
  /\ \A i \in 1..Len(s) : s[i].kind = "delta" =>
       /\ s[i] \in Deltas /\ s[i].revision \in 1..offers[s[i].chunk]
       /\ ordered => has[s[i].chunk] <= s[i].revision
  /\ \A i, j \in 1..Len(s) :
       i < j /\ s[i].kind = "delta" /\ s[j].kind = "delta" /\ s[i].chunk = s[j].chunk
         => s[i].revision <= s[j].revision

Types ==
  /\ revision \in Revisions
  /\ pending \in [Peers -> Revisions]
  /\ replica \in [Peers -> Revisions]
  /\ offered \in [Peers -> Revisions]
  /\ DOMAIN applying = Peers /\ DOMAIN applied = Peers /\ DOMAIN misread = Peers
  /\ DOMAIN toPeer = Peers /\ DOMAIN toHost = Peers

CarriersAreSound ==
  \A p \in Peers :
    /\ Acknowledged(toHost[p], Answered(p))
    /\ InFlight(toPeer[p], offered[p], replica[p], InOrderApplies)

QueuesAreOffers ==
  \A p \in Peers, c \in Chunks :
    /\ pending[p][c] \in {0, offered[p][c]}
    /\ offered[p][c] <= revision[c]
    /\ replica[p][c] <= offered[p][c]

AppliesAreOffers ==
  \A p \in Peers :
    /\ InOrderApplies => applying[p] = {}
    /\ \A d \in applying[p] : d[1] \in Chunks /\ d[2] \in 1..offered[p][d[1]]

SessionInvariant ==
  Types /\ CarriersAreSound /\ QueuesAreOffers /\ AppliesAreOffers /\ SettledIsApplied

-----------------------------------------------------------------------------
(* Sequences of packets *)

LEMMA Concatenations ==
  ASSUME NEW s, NEW b, IsASequence(s), IsASequence(b)
  PROVE  /\ IsASequence(s \o b) /\ Len(s) \in Nat /\ Len(b) \in Nat
         /\ Len(s \o b) = Len(s) + Len(b)
         /\ \A i \in 1..Len(s) : (s \o b)[i] = s[i]
         /\ \A i \in (Len(s) + 1)..(Len(s) + Len(b)) : (s \o b)[i] = b[i - Len(s)]
<1>1. PICK S : s \in Seq(S)
  BY DEF IsASequence
<1>2. PICK T : b \in Seq(T)
  BY DEF IsASequence
<1>3. s \in Seq(S \union T) /\ b \in Seq(S \union T)
  BY <1>1, <1>2
<1>4. s \o b \in Seq(S \union T)
  BY <1>3
<1> QED BY <1>3, <1>4 DEF IsASequence

LEMMA Singletons ==
  ASSUME NEW x
  PROVE  IsASequence(<<x>>) /\ Len(<<x>>) = 1 /\ <<x>>[1] = x
<1>1. <<x>> \in Seq({x})
  OBVIOUS
<1> QED BY <1>1 DEF IsASequence

LEMMA Tails ==
  ASSUME NEW s, IsASequence(s), s # <<>>
  PROVE  /\ IsASequence(Tail(s)) /\ Len(s) \in Nat \ {0} /\ Len(Tail(s)) = Len(s) - 1
         /\ Head(s) = s[1]
         /\ \A i \in 1..Len(Tail(s)) : Tail(s)[i] = s[i + 1]
<1>1. PICK S : s \in Seq(S)
  BY DEF IsASequence
<1>2. Tail(s) \in Seq(S)
  BY <1>1
<1> QED BY <1>1, <1>2 DEF IsASequence

LEMMA NoPackets ==
  ASSUME NEW known, NEW offers, NEW has, NEW ordered
  PROVE  Acknowledged(<<>>, known) /\ InFlight(<<>>, offers, has, ordered)
<1>1. <<>> \in Seq({}) /\ Len(<<>>) = 0
  OBVIOUS
<1> QED BY <1>1 DEF IsASequence, Acknowledged, InFlight

LEMMA AcknowledgedTail ==
  ASSUME NEW s, NEW known, Acknowledged(s, known), s # <<>>
  PROVE  /\ Acknowledged(Tail(s), known)
         /\ Head(s).kind = "ack" /\ Head(s).matches => <<Head(s).chunk, Head(s).revision>> \in known
<1>1. /\ IsASequence(Tail(s)) /\ Len(s) \in Nat \ {0} /\ Len(Tail(s)) = Len(s) - 1
      /\ Head(s) = s[1]
      /\ \A i \in 1..Len(Tail(s)) : Tail(s)[i] = s[i + 1]
  BY Tails DEF Acknowledged
<1> QED BY <1>1 DEF Acknowledged

LEMMA AcknowledgedAppend ==
  ASSUME NEW s, NEW known, NEW more, Acknowledged(s, known), known \subseteq more, NEW x,
         x.kind = "ack" /\ x.matches => <<x.chunk, x.revision>> \in more
  PROVE  Acknowledged(s, more) /\ Acknowledged(s \o <<x>>, more)
<1>1. Acknowledged(s, more)
  BY DEF Acknowledged
<1>2. /\ IsASequence(s \o <<x>>) /\ Len(s) \in Nat /\ Len(s \o <<x>>) = Len(s) + 1
      /\ \A i \in 1..Len(s) : (s \o <<x>>)[i] = s[i]
      /\ (s \o <<x>>)[Len(s) + 1] = x
  <2>1. IsASequence(s) /\ IsASequence(<<x>>) /\ Len(<<x>>) = 1 /\ <<x>>[1] = x
    BY Singletons DEF Acknowledged
  <2> QED BY <2>1, Concatenations
<1> QED BY <1>1, <1>2 DEF Acknowledged

LEMMA InFlightTail ==
  ASSUME NEW s, NEW offers, NEW has, NEW ordered, InFlight(s, offers, has, ordered), s # <<>>
  PROVE  InFlight(Tail(s), offers, has, ordered)
<1>1. /\ IsASequence(Tail(s)) /\ Len(s) \in Nat \ {0} /\ Len(Tail(s)) = Len(s) - 1
      /\ \A i \in 1..Len(Tail(s)) : Tail(s)[i] = s[i + 1]
  BY Tails DEF InFlight
<1>2. \A i \in 1..Len(Tail(s)) : i + 1 \in 1..Len(s)
  BY <1>1
<1>3. \A i, j \in 1..Len(Tail(s)) : i < j => i + 1 < j + 1
  BY <1>1
<1> QED BY <1>1, <1>2, <1>3 DEF InFlight

\* Packets that are sent now are of what is offered now.
LEMMA InFlightAppend ==
  ASSUME NEW s, NEW offers, NEW later \in Revisions, NEW has \in Revisions, NEW ordered,
         InFlight(s, offers, has, ordered),
         \A c \in Chunks : offers[c] \in Nat /\ offers[c] <= later[c] /\ has[c] <= later[c],
         NEW b, IsASequence(b),
         \A i \in 1..Len(b) : b[i].kind = "delta" =>
           b[i] \in Deltas /\ b[i].revision = later[b[i].chunk] /\ b[i].revision # 0
  PROVE  InFlight(s, later, has, ordered) /\ InFlight(s \o b, later, has, ordered)
<1> DEFINE t == s \o b
<1>1. /\ IsASequence(t) /\ Len(s) \in Nat /\ Len(b) \in Nat
      /\ Len(t) = Len(s) + Len(b)
      /\ \A i \in 1..Len(s) : t[i] = s[i]
      /\ \A i \in (Len(s) + 1)..(Len(s) + Len(b)) : t[i] = b[i - Len(s)]
  BY Concatenations DEF InFlight
<1>2. \A i \in 1..Len(s) : s[i].kind = "delta" =>
        /\ s[i] \in Deltas /\ s[i].chunk \in Chunks /\ s[i].revision \in Nat
        /\ s[i].revision \in 1..later[s[i].chunk]
        /\ ordered => has[s[i].chunk] <= s[i].revision
  BY DEF InFlight, Deltas, Revisions
<1>3. \A i \in (Len(s) + 1)..(Len(s) + Len(b)) : t[i].kind = "delta" =>
        /\ t[i] \in Deltas /\ t[i].chunk \in Chunks /\ t[i].revision = later[t[i].chunk]
        /\ t[i].revision \in 1..later[t[i].chunk]
        /\ has[t[i].chunk] <= t[i].revision
  <2> SUFFICES ASSUME NEW i \in (Len(s) + 1)..(Len(s) + Len(b)), t[i].kind = "delta"
               PROVE  /\ t[i] \in Deltas /\ t[i].chunk \in Chunks
                      /\ t[i].revision = later[t[i].chunk]
                      /\ t[i].revision \in 1..later[t[i].chunk]
                      /\ has[t[i].chunk] <= t[i].revision
    OBVIOUS
  <2>1. i - Len(s) \in 1..Len(b) /\ t[i] = b[i - Len(s)]
    BY <1>1
  <2>2. t[i] \in Deltas /\ t[i].revision = later[t[i].chunk] /\ t[i].revision # 0
    BY <2>1
  <2>3. t[i].chunk \in Chunks /\ t[i].revision \in Nat
    BY <2>2 DEF Deltas
  <2> QED BY <2>2, <2>3 DEF Revisions
<1> HIDE DEF t
<1>4. \A i, j \in 1..Len(t) :
        i < j /\ t[i].kind = "delta" /\ t[j].kind = "delta" /\ t[i].chunk = t[j].chunk
          => t[i].revision <= t[j].revision
  <2> SUFFICES ASSUME NEW i \in 1..Len(t), NEW j \in 1..Len(t), i < j, t[i].kind = "delta",
                      t[j].kind = "delta", t[i].chunk = t[j].chunk
               PROVE  t[i].revision <= t[j].revision
    OBVIOUS
  <2>1. CASE j \in 1..Len(s)
    <3>1. i \in 1..Len(s)
      BY <1>1, <2>1
    <3> QED BY <1>1, <2>1, <3>1 DEF InFlight
  <2>2. CASE j \notin 1..Len(s)
    <3>1. j \in (Len(s) + 1)..(Len(s) + Len(b))
      BY <1>1, <2>2
    <3>2. t[j].revision = later[t[j].chunk] /\ later[t[j].chunk] \in Nat
      BY <1>3, <3>1 DEF Revisions
    <3>3. t[i].revision \in 1..later[t[i].chunk]
      <4>1. i \in 1..Len(s) \/ i \in (Len(s) + 1)..(Len(s) + Len(b))
        BY <1>1
      <4> QED BY <1>1, <1>2, <1>3, <4>1
    <3> QED BY <3>2, <3>3
  <2> QED BY <2>1, <2>2
<1>5. InFlight(s, later, has, ordered)
  BY <1>2 DEF InFlight
<1>6. InFlight(t, later, has, ordered)
  <2>1. \A i \in 1..Len(t) : i \in 1..Len(s) \/ i \in (Len(s) + 1)..(Len(s) + Len(b))
    BY <1>1
  <2>2. \A i \in 1..Len(t) : t[i].kind = "delta" =>
          /\ t[i] \in Deltas /\ t[i].revision \in 1..later[t[i].chunk]
          /\ ordered => has[t[i].chunk] <= t[i].revision
    BY <1>1, <1>2, <1>3, <2>1
  <2> QED BY <1>1, <1>4, <2>2 DEF InFlight
<1> QED BY <1>5, <1>6 DEF t

\* A delta arrives with other bytes or another fingerprint.
LEMMA InFlightDamaged ==
  ASSUME NEW s, NEW offers, NEW has, NEW ordered, InFlight(s, offers, has, ordered),
         NEW k \in 1..Len(s), s[k].kind = "delta", NEW damaged \in Deltas,
         damaged.chunk = s[k].chunk, damaged.revision = s[k].revision
  PROVE  InFlight([s EXCEPT ![k] = damaged], offers, has, ordered)
<1> DEFINE t == [s EXCEPT ![k] = damaged]
<1>1. PICK S : s \in Seq(S)
  BY DEF InFlight, IsASequence
<1>2. Len(s) \in Nat /\ s \in [1..Len(s) -> S]
  BY <1>1
<1>3. damaged.kind = "delta"
  BY DEF Deltas
<1>4. t \in [1..Len(s) -> S \union {damaged}]
  BY <1>2
<1>5. t \in Seq(S \union {damaged}) /\ Len(t) = Len(s)
  BY <1>2, <1>4
<1>6. \A i \in 1..Len(s) : t[i] = IF i = k THEN damaged ELSE s[i]
  BY <1>2
<1> HIDE DEF t
<1>7. \A i \in 1..Len(s) : t[i].kind = s[i].kind /\ (t[i].kind = "delta" =>
        /\ t[i] \in Deltas /\ t[i].chunk = s[i].chunk /\ t[i].revision = s[i].revision)
  BY <1>3, <1>6 DEF InFlight
<1> QED BY <1>5, <1>7 DEF InFlight, IsASequence, t

-----------------------------------------------------------------------------
(* Carriers *)

\* A step that changes packets, and neither queues nor replicas.
LEMMA CarriersKeepSession ==
  ASSUME SessionInvariant, UNCHANGED <<game, chunkVars>>,
         DOMAIN toPeer' = Peers, DOMAIN toHost' = Peers,
         \A p \in Peers : /\ Acknowledged(toHost'[p], Answered(p))
                          /\ InFlight(toPeer'[p], offered[p], replica[p], InOrderApplies)
  PROVE  SessionInvariant'
<1>1. UNCHANGED <<game, revision, pending, replica, applying, offered, applied, misread>>
  BY DEF chunkVars
<1>2. Types'
  BY <1>1 DEF SessionInvariant, Types
<1>3. CarriersAreSound'
  BY <1>1 DEF CarriersAreSound, InOrderApplies, Answered
<1>4. QueuesAreOffers' /\ AppliesAreOffers' /\ SettledIsApplied'
  BY <1>1 DEF SessionInvariant, QueuesAreOffers, AppliesAreOffers, SettledIsApplied,
              InOrderApplies
<1> QED BY <1>2, <1>3, <1>4 DEF SessionInvariant

\* The host takes a packet of p that is no acknowledgement, or none at all.
LEMMA TakenByHost ==
  ASSUME SessionInvariant, NEW p \in Peers, toHost[p] # <<>>,
         toHost' = [toHost EXCEPT ![p] = Tail(@)]
  PROVE  /\ DOMAIN toHost' = Peers
         /\ \A q \in Peers : Acknowledged(toHost'[q], Answered(q))
<1>1. toHost'[p] = Tail(toHost[p]) /\ \A q \in Peers : q # p => toHost'[q] = toHost[q]
  BY DEF SessionInvariant, Types
<1>2. DOMAIN toHost' = Peers
  BY DEF SessionInvariant, Types
<1> QED BY <1>1, <1>2, AcknowledgedTail DEF SessionInvariant, CarriersAreSound

LEMMA TakenByPeer ==
  ASSUME SessionInvariant, NEW p \in Peers, toPeer[p] # <<>>,
         toPeer' = [toPeer EXCEPT ![p] = Tail(@)]
  PROVE  /\ DOMAIN toPeer' = Peers
         /\ \A q \in Peers : InFlight(toPeer'[q], offered[q], replica[q], InOrderApplies)
<1>1. toPeer'[p] = Tail(toPeer[p]) /\ \A q \in Peers : q # p => toPeer'[q] = toPeer[q]
  BY DEF SessionInvariant, Types
<1>2. DOMAIN toPeer' = Peers
  BY DEF SessionInvariant, Types
<1> QED BY <1>1, <1>2, InFlightTail DEF SessionInvariant, CarriersAreSound

\* Anything but an acknowledgement that matches is sent to the host.
LEMMA SentToHost ==
  ASSUME SessionInvariant, NEW p \in Peers, NEW x, toHost' = SentTo(toHost, p, x),
         x.kind = "ack" => ~x.matches
  PROVE  /\ DOMAIN toHost' = Peers
         /\ \A q \in Peers : Acknowledged(toHost'[q], Answered(q))
<1> SUFFICES ASSUME NEW q \in Peers
             PROVE  DOMAIN toHost' = Peers /\ Acknowledged(toHost'[q], Answered(q))
  BY DEF SentTo, Sent
<1>1. DOMAIN toHost' = Peers /\ toHost'[q] \in {toHost[q], toHost[q] \o <<x>>}
  BY DEF SentTo, Sent
<1>2. Acknowledged(toHost[q], Answered(q))
  BY DEF SessionInvariant, CarriersAreSound
<1>3. Acknowledged(toHost[q] \o <<x>>, Answered(q))
  BY <1>2, AcknowledgedAppend
<1> QED BY <1>1, <1>2, <1>3

\* Packets that are no deltas are sent to peers.
LEMMA SentToPeers ==
  ASSUME SessionInvariant, NEW receivers, NEW x, x.kind # "delta",
         toPeer' = Sent(toPeer, receivers, [p \in Peers |-> <<x>>])
  PROVE  /\ DOMAIN toPeer' = Peers
         /\ \A q \in Peers : InFlight(toPeer'[q], offered[q], replica[q], InOrderApplies)
<1>1. ASSUME NEW q \in Peers
      PROVE  toPeer'[q] \in {toPeer[q], toPeer[q] \o <<x>>}
  BY DEF Sent
<1>2. DOMAIN toPeer' = Peers
  BY DEF Sent
<1> SUFFICES ASSUME NEW q \in Peers
             PROVE  InFlight(toPeer'[q], offered[q], replica[q], InOrderApplies)
  BY <1>2
<1>3. InFlight(toPeer[q], offered[q], replica[q], InOrderApplies)
  BY DEF SessionInvariant, CarriersAreSound
<1>4. /\ offered[q] \in Revisions /\ replica[q] \in Revisions
      /\ \A c \in Chunks : /\ offered[q][c] \in Nat /\ offered[q][c] <= offered[q][c]
                           /\ replica[q][c] <= offered[q][c]
  BY DEF SessionInvariant, Types, Revisions, QueuesAreOffers
<1>5. IsASequence(<<x>>) /\ \A i \in 1..Len(<<x>>) : <<x>>[i] = x
  BY Singletons
<1>6. InFlight(toPeer[q] \o <<x>>, offered[q], replica[q], InOrderApplies)
  BY <1>3, <1>4, <1>5, InFlightAppend
<1> QED BY <1>1, <1>3, <1>6

-----------------------------------------------------------------------------
(* The steps of rooms and carriers *)

LEMMA SessionStartsInvariant ==
  Init => SessionInvariant
<1> SUFFICES ASSUME Init PROVE SessionInvariant
  OBVIOUS
<1> USE DEF Init, TransportInit, ChunkInit
<1>1. Types
  BY DEF Types, Revisions, Nothing
<1>2. CarriersAreSound
  BY NoPackets DEF CarriersAreSound
<1>3. QueuesAreOffers /\ AppliesAreOffers /\ SettledIsApplied
  BY DEF QueuesAreOffers, AppliesAreOffers, SettledIsApplied, Nothing
<1> QED BY <1>1, <1>2, <1>3 DEF SessionInvariant

LEMMA RoomsKeepSession ==
  ASSUME SessionInvariant, RoomNext, UNCHANGED <<game, faults, chunkVars>>
  PROVE  SessionInvariant'
<1> DEFINE HostSide == /\ DOMAIN toHost' = Peers
                       /\ \A q \in Peers : Acknowledged(toHost'[q], Answered(q))
           PeerSide == /\ DOMAIN toPeer' = Peers
                       /\ \A q \in Peers :
                            InFlight(toPeer'[q], offered[q], replica[q], InOrderApplies)
<1>1. UNCHANGED toHost => HostSide
  BY DEF SessionInvariant, Types, CarriersAreSound
<1>2. UNCHANGED toPeer => PeerSide
  BY DEF SessionInvariant, Types, CarriersAreSound
<1>3. Snapshot.kind = "snapshot" /\ [kind |-> "snapshot", tick |-> tick + 1].kind = "snapshot"
  BY DEF Snapshot
<1>4. ASSUME NEW p \in Peers, toHost[p] # <<>>, toHost' = [toHost EXCEPT ![p] = Tail(@)]
      PROVE  HostSide
  BY <1>4, TakenByHost
<1>5. ASSUME NEW p \in Peers, toPeer[p] # <<>>, toPeer' = [toPeer EXCEPT ![p] = Tail(@)]
      PROVE  PeerSide
  BY <1>5, TakenByPeer
<1>6. ASSUME NEW p \in Peers, toPeer' = SentTo(toPeer, p, Snapshot)
      PROVE  PeerSide
  <2>1. toPeer' = Sent(toPeer, {p}, [q \in Peers |-> <<Snapshot>>])
    BY <1>6 DEF SentTo
  <2> QED BY <1>3, <2>1, SentToPeers
<1>7. HostSide /\ PeerSide
  <2>1. CASE Advance
    BY <1>1, <1>3, <2>1, SentToPeers DEF Advance
  <2>2. ASSUME NEW p \in Peers, ReceiveHandshake(p) PROVE HostSide /\ PeerSide
    BY <1>4, <1>6, <2>2 DEF ReceiveHandshake, ReceivedHello
  <2>3. ASSUME NEW p \in Peers, ReceiveHashReport(p) PROVE HostSide /\ PeerSide
    <3>1. HostSide
      BY <1>4, <2>3 DEF ReceiveHashReport, ReceivedReport
    <3>2. toPeer' = toPeer \/ toPeer' = SentTo(toPeer, p, Snapshot)
      BY <2>3 DEF ReceiveHashReport, Correction
    <3> QED BY <1>2, <1>6, <3>1, <3>2
  <2>4. ASSUME NEW p \in Peers, PublishSnapshot(p) PROVE HostSide /\ PeerSide
    BY <1>1, <1>6, <2>4 DEF PublishSnapshot
  <2>5. ASSUME NEW p \in Peers,
               ReceiveInput(p) \/ Predict(p) \/ SendInput(p) \/ LoadAfterReport(p)
        PROVE  HostSide /\ PeerSide
    BY <1>1, <1>2, <2>5 DEF ReceiveInput, Predict, SendInput, LoadAfterReport, carriers
  <2>6. ASSUME NEW p \in Peers, LoadSnapshot(p) \/ RefuseReport(p) PROVE HostSide /\ PeerSide
    BY <1>1, <1>5, <2>6 DEF LoadSnapshot, RefuseReport, ReceivedSnapshot
  <2>7. ASSUME NEW p \in Peers, ReportMismatch(p) PROVE HostSide /\ PeerSide
    <3>1. PeerSide
      BY <1>5, <2>7 DEF ReportMismatch, ReceivedSnapshot
    <3>2. \E samples : toHost' = SentTo(toHost, p, [kind |-> "correction", samples |-> samples])
      BY <2>7 DEF ReportMismatch
    <3>3. PICK samples : toHost' = SentTo(toHost, p, [kind |-> "correction", samples |-> samples])
      BY <3>2
    <3> QED BY <3>1, <3>3, SentToHost
  <2> QED BY <2>1, <2>2, <2>3, <2>4, <2>5, <2>6, <2>7 DEF RoomNext
<1> QED BY <1>7, CarriersKeepSession

LEMMA DamageIsOfOne ==
  ASSUME SessionInvariant, NEW p \in Peers, Damage(p)
  PROVE  /\ DOMAIN toPeer' = Peers
         /\ \A q \in Peers : InFlight(toPeer'[q], offered[q], replica[q], InOrderApplies)
         /\ \A q \in Peers : q # p => toPeer'[q] = toPeer[q]
         /\ \E i \in 1..Len(toPeer[p]), damaged \in Deltas :
              toPeer'[p] = [toPeer[p] EXCEPT ![i] = damaged]
<1>1. InFlight(toPeer[p], offered[p], replica[p], InOrderApplies) /\ DOMAIN toPeer = Peers
  BY DEF SessionInvariant, CarriersAreSound, Types
<1>2. DOMAIN toPeer[p] = 1..Len(toPeer[p])
  <2>1. PICK S : toPeer[p] \in Seq(S)
    BY <1>1 DEF InFlight, IsASequence
  <2> QED BY <2>1
<1>3. PICK i \in 1..Len(toPeer[p]) :
        /\ toPeer[p][i].kind = "delta"
        /\ \/ toPeer' = [toPeer EXCEPT ![p][i].intact = FALSE]
           \/ toPeer' = [toPeer EXCEPT ![p][i].declared = FALSE]
  BY <1>2 DEF Damage
<1>4. toPeer[p][i] \in Deltas
  BY <1>1, <1>3 DEF InFlight
<1>5. PICK damaged \in {[toPeer[p][i] EXCEPT !.intact = FALSE],
                        [toPeer[p][i] EXCEPT !.declared = FALSE]} :
        toPeer' = [toPeer EXCEPT ![p] = [toPeer[p] EXCEPT ![i] = damaged]]
  BY <1>3
<1>6. /\ damaged \in Deltas /\ damaged.chunk = toPeer[p][i].chunk
      /\ damaged.revision = toPeer[p][i].revision
  BY <1>4, <1>5 DEF Deltas
<1>7. /\ DOMAIN toPeer' = Peers /\ toPeer'[p] = [toPeer[p] EXCEPT ![i] = damaged]
      /\ \A q \in Peers : q # p => toPeer'[q] = toPeer[q]
  BY <1>1, <1>5
<1>8. InFlight(toPeer'[p], offered[p], replica[p], InOrderApplies)
  <2>1. toPeer[p][i].kind = "delta"
    BY <1>3
  <2>2. InFlight([toPeer[p] EXCEPT ![i] = damaged], offered[p], replica[p], InOrderApplies)
    BY <1>1, <1>6, <2>1, InFlightDamaged
  <2> QED BY <1>7, <2>2
<1> QED BY <1>6, <1>7, <1>8 DEF SessionInvariant, CarriersAreSound

LEMMA FaultsKeepSession ==
  ASSUME SessionInvariant, NEW p \in Peers, UNCHANGED <<game, chunkVars>>,
         Open(p) \/ LoseInput(p) \/ Close(p) \/ Damage(p) \/ ReportFails(p) \/ LoadFails(p)
  PROVE  SessionInvariant'
<1>1. Types /\ CarriersAreSound
  BY DEF SessionInvariant
<1>2. CASE Open(p)
  <2>1. UNCHANGED toPeer /\ toHost' = [toHost EXCEPT ![p] = <<Hello>>]
    BY <1>2 DEF Open
  <2>2. Acknowledged(<<Hello>>, Answered(p))
    BY Singletons DEF Acknowledged, Hello
  <2> QED BY <1>1, <2>1, <2>2, CarriersKeepSession DEF Types, CarriersAreSound
<1>3. CASE LoseInput(p) \/ ReportFails(p)
  BY <1>1, <1>3, CarriersKeepSession DEF LoseInput, ReportFails, carriers, Types, CarriersAreSound
<1>4. CASE Close(p)
  <2>1. toHost' = [toHost EXCEPT ![p] = <<>>] /\ toPeer' = [toPeer EXCEPT ![p] = <<>>]
    BY <1>4 DEF Close
  <2> QED BY <1>1, <2>1, NoPackets, CarriersKeepSession DEF Types, CarriersAreSound
<1>5. CASE Damage(p)
  <2>1. UNCHANGED toHost
    BY <1>5 DEF Damage
  <2>2. DOMAIN toPeer' = Peers
        /\ \A q \in Peers : InFlight(toPeer'[q], offered[q], replica[q], InOrderApplies)
    BY <1>5, DamageIsOfOne
  <2> QED BY <1>1, <2>1, <2>2, CarriersKeepSession DEF Types, CarriersAreSound
<1>6. CASE LoadFails(p)
  <2>1. /\ UNCHANGED toHost /\ toPeer[p] # <<>> /\ toPeer' = [toPeer EXCEPT ![p] = Tail(@)]
    BY <1>6 DEF LoadFails, ReceivedSnapshot
  <2> QED BY <1>1, <2>1, TakenByPeer, CarriersKeepSession DEF Types, CarriersAreSound
<1> QED BY <1>2, <1>3, <1>4, <1>5, <1>6

-----------------------------------------------------------------------------
(* The steps of chunks *)

LEMMA EnumeratedIsMember ==
  ASSUME NEW S, IsFiniteSet(S)
  PROVE  /\ Cardinality(S) \in Nat /\ SetToSeq(S) \in Seq(S) /\ Len(SetToSeq(S)) = Cardinality(S)
         /\ \A i \in 1..Cardinality(S) : SetToSeq(S)[i] \in S
<1>1. Cardinality(S) \in Nat /\ ExistsBijection(1..Cardinality(S), S)
  BY FS_CardinalityType, FS_NatBijection
<1>2. \E f \in [1..Cardinality(S) -> S] : IsInjective(f)
  BY <1>1 DEF ExistsBijection, Bijection, Injection, IsInjective
<1>3. SetToSeq(S) \in [1..Cardinality(S) -> S]
  BY <1>2 DEF SetToSeq
<1> QED BY <1>1, <1>3

\* Deltas of what is offered are sent to p, whatever was in flight.
LEMMA DeltasAreSent ==
  ASSUME SessionInvariant, NEW p \in Peers, NEW later \in Revisions, NEW b, IsASequence(b),
         \A c \in Chunks : offered[p][c] <= later[c],
         \A i \in 1..Len(b) : /\ b[i] \in Deltas /\ b[i].revision # 0
                              /\ b[i].revision = later[b[i].chunk],
         toPeer'[p] = toPeer[p] \/ toPeer'[p] = toPeer[p] \o b
  PROVE  InFlight(toPeer'[p], later, replica[p], InOrderApplies)
<1>1. InFlight(toPeer[p], offered[p], replica[p], InOrderApplies) /\ replica[p] \in Revisions
  BY DEF SessionInvariant, CarriersAreSound, Types
<1>2. \A c \in Chunks : /\ offered[p][c] \in Nat /\ offered[p][c] <= later[c]
                        /\ replica[p][c] <= later[c]
  <2> SUFFICES ASSUME NEW c \in Chunks
               PROVE  /\ offered[p][c] \in Nat /\ offered[p][c] <= later[c]
                      /\ replica[p][c] <= later[c]
    OBVIOUS
  <2>1. offered[p][c] \in Nat /\ replica[p][c] \in Nat /\ later[c] \in Nat
    BY DEF SessionInvariant, Types, Revisions
  <2> QED BY <2>1 DEF SessionInvariant, QueuesAreOffers
<1>3. InFlight(toPeer[p], later, replica[p], InOrderApplies)
      /\ InFlight(toPeer[p] \o b, later, replica[p], InOrderApplies)
  BY <1>1, <1>2, InFlightAppend
<1> QED BY <1>3

LEMMA CommitsKeepSession ==
  ASSUME SessionInvariant, NEW c \in Chunks, CommitChunk(c), UNCHANGED game
  PROVE  SessionInvariant'
<1> USE DEF SessionInvariant
<1>1. /\ revision' = [revision EXCEPT ![c] = @ + 1]
      /\ UNCHANGED <<game, pending, replica, applying, offered, applied, misread, toPeer, toHost>>
  BY DEF CommitChunk, carriers
<1>2. revision' \in Revisions /\ \A d \in Chunks : revision[d] <= revision'[d]
  BY <1>1 DEF Types, Revisions
<1>3. Types' /\ CarriersAreSound' /\ AppliesAreOffers' /\ SettledIsApplied'
  BY <1>1, <1>2
     DEF Types, CarriersAreSound, Answered, AppliesAreOffers, SettledIsApplied, InOrderApplies
<1>4. QueuesAreOffers'
  <2> SUFFICES ASSUME NEW p \in Peers, NEW d \in Chunks
               PROVE  /\ pending[p][d] \in {0, offered[p][d]} /\ offered[p][d] <= revision'[d]
                      /\ replica[p][d] <= offered[p][d]
    BY <1>1 DEF QueuesAreOffers
  <2>1. offered[p][d] \in Nat /\ revision[d] \in Nat /\ revision'[d] \in Nat
    BY <1>2 DEF Types, Revisions
  <2> QED BY <1>2, <2>1 DEF QueuesAreOffers
<1> QED BY <1>3, <1>4

LEMMA PublishesKeepSession ==
  ASSUME SessionInvariant, NEW peers \in SUBSET Peers, NEW chunks \in SUBSET Chunks,
         Publish(peers, chunks), UNCHANGED game
  PROVE  SessionInvariant'
<1> USE DEF SessionInvariant
<1> DEFINE batch == [i \in 1..Cardinality(chunks) |->
                      LET c == SetToSeq(chunks)[i] IN Delta(c, revision[c])]
<1>1. /\ pending' = [p \in Peers |-> [c \in Chunks |-> IF p \in peers /\ c \in chunks
                                                       THEN revision[c] ELSE pending[p][c]]]
      /\ offered' = [p \in Peers |-> [c \in Chunks |-> IF p \in peers /\ c \in chunks
                                                       THEN revision[c] ELSE offered[p][c]]]
      /\ toPeer' = Sent(toPeer, peers, [p \in Peers |-> batch])
      /\ UNCHANGED <<game, toHost, revision, replica, applying, applied, misread>>
      /\ \A c \in chunks : revision[c] > 0
  BY DEF Publish, Queued
<1>2. /\ IsASequence(batch)
      /\ \A i \in 1..Len(batch) : /\ batch[i] \in Deltas /\ batch[i].chunk \in chunks
                                  /\ batch[i].revision = revision[batch[i].chunk]
  <2>1. IsFiniteSet(chunks)
    BY ChunkAssumption, FS_Subset
  <2>2. /\ Cardinality(chunks) \in Nat
        /\ \A i \in 1..Cardinality(chunks) : SetToSeq(chunks)[i] \in chunks
    BY <2>1, EnumeratedIsMember
  <2>3. \A c \in chunks : /\ Delta(c, revision[c]) \in Deltas /\ Delta(c, revision[c]).chunk = c
                          /\ Delta(c, revision[c]).revision = revision[c]
    BY DEF Delta, Deltas, Types, Revisions
  <2>4. batch \in [1..Cardinality(chunks) -> Deltas]
    BY <2>2, <2>3
  <2>5. batch \in Seq(Deltas) /\ Len(batch) = Cardinality(chunks)
    BY <2>2, <2>4
  <2> QED BY <2>2, <2>3, <2>5 DEF IsASequence
<1> HIDE DEF batch
<1>3. Types'
  BY <1>1 DEF Types, Revisions, Sent
<1>4. \A p \in Peers, c \in Chunks :
        /\ offered'[p][c] = IF p \in peers /\ c \in chunks THEN revision[c] ELSE offered[p][c]
        /\ pending'[p][c] = IF p \in peers /\ c \in chunks THEN revision[c] ELSE pending[p][c]
        /\ offered[p][c] \in Nat /\ revision[c] \in Nat /\ replica[p][c] \in Nat
        /\ offered[p][c] <= revision[c] /\ offered[p][c] <= offered'[p][c]
  BY <1>1 DEF Types, Revisions, QueuesAreOffers
<1>5. QueuesAreOffers'
  <2> SUFFICES ASSUME NEW p \in Peers, NEW c \in Chunks
               PROVE  /\ pending'[p][c] \in {0, offered'[p][c]} /\ offered'[p][c] <= revision[c]
                      /\ replica[p][c] <= offered'[p][c]
    BY <1>1 DEF QueuesAreOffers
  <2> QED BY <1>4 DEF QueuesAreOffers
<1>6. SettledIsApplied'
  BY <1>1, <1>4 DEF SettledIsApplied
<1>7. AppliesAreOffers'
  <2> SUFFICES ASSUME NEW p \in Peers
               PROVE  /\ InOrderApplies => applying[p] = {}
                      /\ \A d \in applying[p] : d[1] \in Chunks /\ d[2] \in 1..offered'[p][d[1]]
    BY <1>1 DEF AppliesAreOffers, InOrderApplies
  <2> SUFFICES ASSUME NEW d \in applying[p]
               PROVE  d[1] \in Chunks /\ d[2] \in 1..offered'[p][d[1]]
    BY DEF AppliesAreOffers
  <2>1. d[1] \in Chunks /\ d[2] \in 1..offered[p][d[1]]
    BY DEF AppliesAreOffers
  <2>2. offered[p][d[1]] \in Nat /\ offered'[p][d[1]] \in Nat
        /\ offered[p][d[1]] <= offered'[p][d[1]]
    BY <1>4, <2>1
  <2> QED BY <2>1, <2>2
<1>8. CarriersAreSound'
  <2> SUFFICES ASSUME NEW p \in Peers
               PROVE  InFlight(toPeer'[p], offered'[p], replica[p], InOrderApplies)
    BY <1>1 DEF CarriersAreSound, Answered, InOrderApplies
  <2>1. CASE p \in peers
    <3>1. offered'[p] \in Revisions /\ toPeer'[p] \in {toPeer[p], toPeer[p] \o batch}
      BY <1>1, <1>3 DEF Types, Sent
    <3>2. \A c \in Chunks : offered[p][c] <= offered'[p][c]
      BY <1>4
    <3>3. \A i \in 1..Len(batch) : /\ batch[i] \in Deltas /\ batch[i].revision # 0
                                   /\ batch[i].revision = offered'[p][batch[i].chunk]
      BY <1>1, <1>2, <1>4, <2>1
    <3> QED BY <1>2, <3>1, <3>2, <3>3, DeltasAreSent
  <2>2. CASE p \notin peers
    <3>1. toPeer'[p] = toPeer[p]
      BY <1>1, <2>2 DEF Sent
    <3>2. offered'[p] = offered[p]
      BY <1>1, <2>2 DEF Types, Revisions
    <3> QED BY <3>1, <3>2 DEF CarriersAreSound
  <2> QED BY <2>1, <2>2
<1> QED BY <1>3, <1>5, <1>6, <1>7, <1>8

LEMMA ResendsKeepSession ==
  ASSUME SessionInvariant, NEW p \in Peers, Resend(p), UNCHANGED game
  PROVE  SessionInvariant'
<1> USE DEF SessionInvariant
<1> DEFINE chunks == SetToSeq(PendingChunks(p))
           batch == [i \in DOMAIN chunks |-> Delta(chunks[i], pending[p][chunks[i]])]
<1>1. /\ toPeer' = Sent(toPeer, {p}, [q \in Peers |-> batch])
      /\ UNCHANGED <<game, toHost, chunkVars>>
  BY DEF Resend
<1>2. /\ IsASequence(batch)
      /\ \A i \in 1..Len(batch) : /\ batch[i] \in Deltas /\ batch[i].revision # 0
                                  /\ batch[i].revision = offered[p][batch[i].chunk]
  <2>1. PendingChunks(p) \in SUBSET Chunks /\ IsFiniteSet(PendingChunks(p))
    BY ChunkAssumption, FS_Subset DEF PendingChunks
  <2>2. /\ Cardinality(PendingChunks(p)) \in Nat /\ chunks \in Seq(PendingChunks(p))
        /\ Len(chunks) = Cardinality(PendingChunks(p))
        /\ \A i \in 1..Cardinality(PendingChunks(p)) : chunks[i] \in PendingChunks(p)
    BY <2>1, EnumeratedIsMember
  <2>3. \A c \in PendingChunks(p) :
          /\ Delta(c, pending[p][c]) \in Deltas /\ Delta(c, pending[p][c]).chunk = c
          /\ Delta(c, pending[p][c]).revision = offered[p][c]
          /\ Delta(c, pending[p][c]).revision # 0
    BY DEF Delta, Deltas, Types, Revisions, PendingChunks, QueuesAreOffers
  <2>4. DOMAIN chunks = 1..Cardinality(PendingChunks(p))
    BY <2>2
  <2> HIDE DEF chunks
  <2>5. batch \in [1..Cardinality(PendingChunks(p)) -> Deltas]
    BY <2>2, <2>3, <2>4
  <2>6. batch \in Seq(Deltas) /\ Len(batch) = Cardinality(PendingChunks(p))
    BY <2>2, <2>5
  <2> QED BY <2>2, <2>3, <2>4, <2>6 DEF IsASequence
<1> HIDE DEF batch, chunks
<1>3. DOMAIN toPeer' = Peers /\ DOMAIN toHost' = Peers
  BY <1>1 DEF Types, Sent
<1>4. \A q \in Peers : InFlight(toPeer'[q], offered[q], replica[q], InOrderApplies)
  <2> SUFFICES ASSUME NEW q \in Peers
               PROVE  InFlight(toPeer'[q], offered[q], replica[q], InOrderApplies)
    OBVIOUS
  <2>1. CASE q = p
    <3>1. offered[p] \in Revisions /\ toPeer'[p] \in {toPeer[p], toPeer[p] \o batch}
      BY <1>1 DEF Types, Sent
    <3>2. \A c \in Chunks : offered[p][c] <= offered[p][c]
      BY <3>1 DEF Revisions
    <3> QED BY <1>2, <2>1, <3>1, <3>2, DeltasAreSent
  <2>2. CASE q # p
    <3>1. toPeer'[q] = toPeer[q]
      BY <1>1, <2>2 DEF Sent
    <3> QED BY <3>1 DEF CarriersAreSound
  <2> QED BY <2>1, <2>2
<1>5. \A q \in Peers : Acknowledged(toHost'[q], Answered(q))
  BY <1>1 DEF CarriersAreSound
<1> QED BY <1>1, <1>3, <1>4, <1>5, CarriersKeepSession

LEMMA AcksKeepSession ==
  ASSUME SessionInvariant, NEW p \in Peers, ReceiveAck(p), UNCHANGED game
  PROVE  SessionInvariant'
<1> USE DEF SessionInvariant
<1> DEFINE ack == Head(toHost[p])
<1>1. /\ toHost[p] # <<>> /\ ack.kind = "ack"
      /\ toHost' = [toHost EXCEPT ![p] = Tail(@)]
      /\ pending' = IF Settles(p, ack) THEN [pending EXCEPT ![p][ack.chunk] = 0] ELSE pending
      /\ UNCHANGED <<game, toPeer, revision, replica, applying, offered, applied, misread>>
  BY DEF ReceiveAck, ReceivedAck
<1>2. DOMAIN toHost' = Peers /\ \A q \in Peers : Acknowledged(toHost'[q], Answered(q))
  BY <1>1, TakenByHost
<1>3. ack.matches => <<ack.chunk, ack.revision>> \in Answered(p)
  BY <1>1, AcknowledgedTail DEF CarriersAreSound
<1> HIDE DEF ack
<1>4. pending' \in [Peers -> Revisions]
  BY <1>1 DEF Types, Revisions
<1>5. \A q \in Peers, c \in Chunks :
        \/ pending'[q][c] = pending[q][c]
        \/ q = p /\ c = ack.chunk /\ Settles(p, ack) /\ pending'[q][c] = 0
  BY <1>1 DEF Types, Revisions
<1>6. Types' /\ CarriersAreSound' /\ AppliesAreOffers'
  BY <1>1, <1>2, <1>4 DEF Types, CarriersAreSound, Answered, AppliesAreOffers, InOrderApplies
<1>7. QueuesAreOffers'
  BY <1>1, <1>5 DEF QueuesAreOffers
<1>8. SettledIsApplied'
  <2> SUFFICES ASSUME NEW q \in Peers, NEW c \in Chunks, offered[q][c] # 0, pending'[q][c] = 0
               PROVE  <<c, offered[q][c]>> \in Answered(q)
    BY <1>1 DEF SettledIsApplied, Answered
  <2>1. CASE pending'[q][c] = pending[q][c]
    BY <2>1 DEF SettledIsApplied, Answered
  <2>2. CASE q = p /\ c = ack.chunk /\ Settles(p, ack)
    <3>1. offered[p][c] = ack.revision /\ ack.matches
      BY <2>2 DEF Settles, QueuesAreOffers
    <3> QED BY <1>3, <2>2, <3>1
  <2> QED BY <1>5, <2>1, <2>2
<1> QED BY <1>6, <1>7, <1>8

\* A peer answers p's packet with an acknowledgement of what it now has answered.
LEMMA AnswersAreKept ==
  ASSUME SessionInvariant, NEW p \in Peers, NEW c, NEW r, NEW matches,
         toHost' = SentTo(toHost, p, Ack(c, r, matches)),
         \A q \in Peers : Answered(q) \subseteq Answered(q)',
         matches => <<c, r>> \in Answered(p)'
  PROVE  \A q \in Peers : Acknowledged(toHost'[q], Answered(q)')
<1> SUFFICES ASSUME NEW q \in Peers PROVE Acknowledged(toHost'[q], Answered(q)')
  OBVIOUS
<1>1. Acknowledged(toHost[q], Answered(q)) /\ Answered(q) \subseteq Answered(q)'
  BY DEF SessionInvariant, CarriersAreSound
<1>2. Acknowledged(toHost[q], Answered(q)')
  BY <1>1 DEF Acknowledged
<1>3. CASE q = p
  <2> DEFINE x == Ack(c, r, matches)
  <2>1. toHost'[p] \in {toHost[p], toHost[p] \o <<x>>}
    BY DEF SentTo, Sent
  <2>2. x.kind = "ack" /\ x.matches => <<x.chunk, x.revision>> \in Answered(p)'
    BY DEF Ack
  <2> HIDE DEF x
  <2>3. Acknowledged(toHost[p] \o <<x>>, Answered(p)')
    BY <1>1, <1>3, <2>2, AcknowledgedAppend
  <2> QED BY <1>2, <1>3, <2>1, <2>3
<1>4. CASE q # p
  BY <1>2, <1>4 DEF SentTo, Sent
<1> QED BY <1>3, <1>4

LEMMA RefusalsKeepSession ==
  ASSUME SessionInvariant, NEW p \in Peers, RefuseDelta(p), UNCHANGED game
  PROVE  SessionInvariant'
<1> USE DEF SessionInvariant
<1> DEFINE delta == Head(toPeer[p])
<1>1. /\ toPeer[p] # <<>> /\ toPeer' = [toPeer EXCEPT ![p] = Tail(@)]
      /\ toHost' = SentTo(toHost, p, Ack(delta.chunk, delta.revision, delta.intact))
      /\ misread' = IF delta.intact
                    THEN [misread EXCEPT ![p] = @ \union {<<delta.chunk, delta.revision>>}]
                    ELSE misread
      /\ UNCHANGED <<game, revision, pending, replica, applying, offered, applied>>
  BY DEF RefuseDelta, ReceivedDelta
<1> HIDE DEF delta
<1>2. /\ DOMAIN misread' = Peers /\ \A q \in Peers : misread[q] \subseteq misread'[q]
      /\ delta.intact => <<delta.chunk, delta.revision>> \in misread'[p]
  BY <1>1 DEF Types
<1>3. /\ \A q \in Peers : Answered(q) \subseteq Answered(q)'
      /\ delta.intact => <<delta.chunk, delta.revision>> \in Answered(p)'
  BY <1>1, <1>2 DEF Answered
<1>4. \A q \in Peers : Acknowledged(toHost'[q], Answered(q)')
  BY <1>1, <1>3, AnswersAreKept
<1>5. DOMAIN toPeer' = Peers
      /\ \A q \in Peers : InFlight(toPeer'[q], offered[q], replica[q], InOrderApplies)
  BY <1>1, TakenByPeer
<1>6. Types'
  BY <1>1, <1>2, <1>5 DEF Types, SentTo, Sent
<1>7. CarriersAreSound'
  BY <1>1, <1>4, <1>5 DEF CarriersAreSound, InOrderApplies
<1>8. QueuesAreOffers' /\ AppliesAreOffers' /\ SettledIsApplied'
  BY <1>1, <1>2 DEF QueuesAreOffers, AppliesAreOffers, SettledIsApplied, InOrderApplies
<1> QED BY <1>6, <1>7, <1>8

-----------------------------------------------------------------------------
(* Replicas *)

LEMMA ReceivedIsOffered ==
  ASSUME SessionInvariant, NEW p \in Peers, ReceivedDelta(p)
  PROVE  /\ Head(toPeer[p]).chunk \in Chunks
         /\ Head(toPeer[p]).revision \in 1..offered[p][Head(toPeer[p]).chunk]
         /\ InOrderApplies => replica[p][Head(toPeer[p]).chunk] <= Head(toPeer[p]).revision
<1>1. InFlight(toPeer[p], offered[p], replica[p], InOrderApplies) /\ toPeer[p] # <<>>
      /\ Head(toPeer[p]).kind = "delta"
  BY DEF SessionInvariant, CarriersAreSound, ReceivedDelta
<1>2. Len(toPeer[p]) \in Nat \ {0} /\ Head(toPeer[p]) = toPeer[p][1]
  BY <1>1, Tails DEF InFlight
<1> QED BY <1>1, <1>2 DEF InFlight, Deltas

\* What comes after a delta that is applied is not behind it.
LEMMA InFlightApplied ==
  ASSUME NEW s, NEW offers, NEW has \in Revisions, NEW ordered,
         InFlight(s, offers, has, ordered), s # <<>>, Head(s).kind = "delta"
  PROVE  InFlight(Tail(s), offers, [has EXCEPT ![Head(s).chunk] = Head(s).revision], ordered)
<1> DEFINE now == [has EXCEPT ![Head(s).chunk] = Head(s).revision]
<1>1. /\ IsASequence(Tail(s)) /\ Len(s) \in Nat \ {0} /\ Len(Tail(s)) = Len(s) - 1
      /\ Head(s) = s[1]
      /\ \A i \in 1..Len(Tail(s)) : Tail(s)[i] = s[i + 1]
  BY Tails DEF InFlight
<1>2. InFlight(Tail(s), offers, has, ordered)
  BY InFlightTail
<1>3. ASSUME NEW i \in 1..Len(Tail(s)), Tail(s)[i].kind = "delta", ordered
      PROVE  now[Tail(s)[i].chunk] <= Tail(s)[i].revision
  <2>1. has[Tail(s)[i].chunk] <= Tail(s)[i].revision /\ Tail(s)[i].chunk \in Chunks
    BY <1>2, <1>3 DEF InFlight, Deltas
  <2>2. CASE Tail(s)[i].chunk = Head(s).chunk
    <3>1. 1 \in 1..Len(s) /\ i + 1 \in 1..Len(s) /\ 1 < i + 1
      BY <1>1
    <3>2. s[1].revision <= s[i + 1].revision
      BY <1>1, <1>3, <2>2, <3>1 DEF InFlight
    <3> QED BY <1>1, <2>1, <2>2, <3>2 DEF Revisions
  <2>3. CASE Tail(s)[i].chunk # Head(s).chunk
    BY <2>1, <2>3 DEF Revisions
  <2> QED BY <2>2, <2>3
<1> HIDE DEF now
<1>4. InFlight(Tail(s), offers, now, ordered)
  BY <1>2, <1>3 DEF InFlight
<1> QED BY <1>4 DEF now

LEMMA AppliesKeepSession ==
  ASSUME SessionInvariant, NEW p \in Peers, NEW c \in Chunks, NEW r \in 1..offered[p][c],
         Apply(p, c, r), UNCHANGED <<game, revision, pending, offered, misread>>,
         DOMAIN toPeer' = Peers, DOMAIN applying' = Peers,
         \A q \in Peers : /\ InFlight(toPeer'[q], offered[q], replica'[q], InOrderApplies)
                          /\ applying'[q] \subseteq applying[q]
  PROVE  SessionInvariant'
<1> USE DEF SessionInvariant
<1>1. /\ replica' = [replica EXCEPT ![p][c] = r]
      /\ applied' = [applied EXCEPT ![p] = @ \union {<<c, r>>}]
      /\ toHost' = SentTo(toHost, p, Ack(c, r, TRUE))
  BY DEF Apply
<1>2. offered[p][c] \in Nat /\ r \in Nat /\ r <= offered[p][c]
  BY DEF Types, Revisions
<1>3. Types'
  <2>1. replica' \in [Peers -> Revisions]
    BY <1>1, <1>2 DEF Types, Revisions
  <2> QED BY <1>1, <2>1 DEF Types, SentTo, Sent
<1>4. \A q \in Peers : applied[q] \subseteq applied'[q]
  BY <1>1 DEF Types
<1>5. \A q \in Peers : Acknowledged(toHost'[q], Answered(q)')
  <2>1. <<c, r>> \in applied'[p]
    BY <1>1 DEF Types
  <2>2. /\ \A q \in Peers : Answered(q) \subseteq Answered(q)'
        /\ <<c, r>> \in Answered(p)'
    BY <1>4, <2>1 DEF Answered
  <2> QED BY <1>1, <2>2, AnswersAreKept
<1>6. CarriersAreSound'
  BY <1>5 DEF CarriersAreSound, InOrderApplies
<1>7. QueuesAreOffers'
  <2> SUFFICES ASSUME NEW q \in Peers, NEW d \in Chunks
               PROVE  /\ pending[q][d] \in {0, offered[q][d]} /\ offered[q][d] <= revision[d]
                      /\ replica'[q][d] <= offered[q][d]
    BY DEF QueuesAreOffers
  <2>1. replica'[q][d] = IF q = p /\ d = c THEN r ELSE replica[q][d]
    BY <1>1 DEF Types, Revisions
  <2> QED BY <1>2, <2>1 DEF QueuesAreOffers
<1>8. AppliesAreOffers' /\ SettledIsApplied'
  BY <1>4 DEF AppliesAreOffers, SettledIsApplied, InOrderApplies
<1> QED BY <1>3, <1>6, <1>7, <1>8

LEMMA ApplyDeltaKeepsSession ==
  ASSUME SessionInvariant, NEW p \in Peers, ApplyDelta(p), UNCHANGED game
  PROVE  SessionInvariant'
<1> DEFINE delta == Head(toPeer[p])
<1>1. /\ ReceivedDelta(p) /\ Apply(p, delta.chunk, delta.revision)
      /\ toPeer' = [toPeer EXCEPT ![p] = Tail(@)]
      /\ UNCHANGED <<revision, pending, applying, offered, misread>>
  BY DEF ApplyDelta
<1>2. delta.chunk \in Chunks /\ delta.revision \in 1..offered[p][delta.chunk]
  BY <1>1, ReceivedIsOffered
<1>3. toPeer[p] # <<>> /\ delta.kind = "delta"
  BY <1>1 DEF ReceivedDelta
<1> HIDE DEF delta
<1>4. /\ DOMAIN toPeer' = Peers /\ toPeer'[p] = Tail(toPeer[p]) /\ DOMAIN applying' = Peers
      /\ replica'[p] = [replica[p] EXCEPT ![delta.chunk] = delta.revision]
      /\ \A q \in Peers : q # p => toPeer'[q] = toPeer[q] /\ replica'[q] = replica[q]
  BY <1>1 DEF SessionInvariant, Types, Apply
<1>5. \A q \in Peers : InFlight(toPeer'[q], offered[q], replica'[q], InOrderApplies)
  <2>1. InFlight(toPeer[p], offered[p], replica[p], InOrderApplies) /\ replica[p] \in Revisions
    BY DEF SessionInvariant, CarriersAreSound, Types
  <2>2. InFlight(toPeer'[p], offered[p], replica'[p], InOrderApplies)
    BY <1>3, <1>4, <2>1, InFlightApplied DEF delta
  <2> QED BY <1>4, <2>2 DEF SessionInvariant, CarriersAreSound
<1> QED BY <1>1, <1>2, <1>4, <1>5, AppliesKeepSession

LEMMA StartApplyKeepsSession ==
  ASSUME SessionInvariant, NEW p \in Peers, StartApply(p), UNCHANGED game
  PROVE  SessionInvariant'
<1> USE DEF SessionInvariant
<1> DEFINE delta == Head(toPeer[p])
<1>1. /\ ReceivedDelta(p) /\ ~InOrderApplies
      /\ applying' = [applying EXCEPT ![p] = @ \union {<<delta.chunk, delta.revision>>}]
      /\ toPeer' = [toPeer EXCEPT ![p] = Tail(@)]
      /\ UNCHANGED <<game, toHost, revision, pending, replica, offered, applied, misread>>
  BY DEF StartApply, InOrderApplies
<1>2. delta.chunk \in Chunks /\ delta.revision \in 1..offered[p][delta.chunk]
  BY <1>1, ReceivedIsOffered
<1>3. /\ DOMAIN toPeer' = Peers
      /\ \A q \in Peers : InFlight(toPeer'[q], offered[q], replica[q], InOrderApplies)
  BY <1>1, TakenByPeer DEF ReceivedDelta
<1> HIDE DEF delta
<1>4. Types' /\ CarriersAreSound' /\ QueuesAreOffers' /\ SettledIsApplied'
  BY <1>1, <1>3
     DEF Types, CarriersAreSound, Answered, QueuesAreOffers, SettledIsApplied, InOrderApplies
<1>5. AppliesAreOffers'
  <2>1. /\ applying'[p] = applying[p] \union {<<delta.chunk, delta.revision>>}
        /\ \A q \in Peers : q # p => applying'[q] = applying[q]
    BY <1>1 DEF Types
  <2> QED BY <1>1, <1>2, <2>1 DEF AppliesAreOffers, InOrderApplies
<1> QED BY <1>4, <1>5

LEMMA EndApplyKeepsSession ==
  ASSUME SessionInvariant, NEW p \in Peers, EndApply(p), UNCHANGED game
  PROVE  SessionInvariant'
<1>1. PICK d \in applying[p] :
        /\ Apply(p, d[1], d[2]) /\ applying' = [applying EXCEPT ![p] = @ \ {d}]
        /\ UNCHANGED <<toPeer, revision, pending, offered, misread>>
  BY DEF EndApply
<1>2. d[1] \in Chunks /\ d[2] \in 1..offered[p][d[1]] /\ ~InOrderApplies
  BY <1>1 DEF SessionInvariant, AppliesAreOffers
<1>3. DOMAIN applying' = Peers /\ \A q \in Peers : applying'[q] \subseteq applying[q]
  BY <1>1 DEF SessionInvariant, Types
<1>4. DOMAIN toPeer' = Peers
      /\ \A q \in Peers : InFlight(toPeer'[q], offered[q], replica'[q], InOrderApplies)
  BY <1>1, <1>2 DEF SessionInvariant, Types, CarriersAreSound, InFlight
<1> QED BY <1>1, <1>2, <1>3, <1>4, AppliesKeepSession

LEMMA StepKeepsSession ==
  SessionInvariant /\ [Next]_vars => SessionInvariant'
<1> SUFFICES ASSUME SessionInvariant, [Next]_vars PROVE SessionInvariant'
  OBVIOUS
<1>1. CASE RoomNext /\ UNCHANGED <<game, faults, chunkVars>>
  BY <1>1, RoomsKeepSession
<1>2. CASE ChunkNext /\ UNCHANGED <<game, faults, bridges>>
  <2>1. UNCHANGED game
    BY <1>2
  <2>2. ASSUME NEW c \in Chunks, CommitChunk(c) PROVE SessionInvariant'
    BY <2>1, <2>2, CommitsKeepSession
  <2>3. ASSUME NEW peers \in (SUBSET admitted) \ {{}}, NEW chunks \in (SUBSET Chunks) \ {{}},
               Publish(peers, chunks)
        PROVE  SessionInvariant'
    <3>1. Publish(peers \intersect Peers, chunks)
      BY <2>3 DEF Publish, FitsBacklog, Queued, Sent
    <3> QED BY <2>1, <3>1, PublishesKeepSession
  <2>4. ASSUME NEW p \in Peers,
               Resend(p) \/ ReceiveAck(p) \/ RefuseDelta(p) \/ ApplyDelta(p) \/ StartApply(p)
                 \/ EndApply(p)
        PROVE  SessionInvariant'
    BY <2>1, <2>4, ResendsKeepSession, AcksKeepSession, RefusalsKeepSession,
       ApplyDeltaKeepsSession, StartApplyKeepsSession, EndApplyKeepsSession
  <2> QED BY <1>2, <2>2, <2>3, <2>4 DEF ChunkNext
<1>3. ASSUME NEW p \in Peers, UNCHANGED <<game, chunkVars>>,
             Open(p) \/ LoseInput(p) \/ Close(p) \/ Damage(p) \/ ReportFails(p)
               \/ LoadFails(p)
      PROVE  SessionInvariant'
  BY <1>3, FaultsKeepSession
<1>4. CASE UNCHANGED vars
  <2>1. UNCHANGED <<game, chunkVars, toPeer, toHost>>
    BY <1>4 DEF vars, carriers
  <2> QED BY <2>1, CarriersKeepSession DEF SessionInvariant, Types, CarriersAreSound
<1> QED BY <1>1, <1>2, <1>3, <1>4 DEF Next

LEMMA SessionInvariantHolds ==
  Spec => []SessionInvariant
BY SessionStartsInvariant, StepKeepsSession, PTL DEF Spec

\* In every session a revision leaves the queue of the host only when its peer has applied
\* it, or refused it whole for a damaged fingerprint, whatever carriers close, packets are
\* damaged or applies are overtaken.
THEOREM SettledIsAlwaysApplied ==
  Spec => []SettledIsApplied
<1>1. SessionInvariant => SettledIsApplied
  BY DEF SessionInvariant
<1> QED BY <1>1, SessionInvariantHolds, PTL

-----------------------------------------------------------------------------
(* Refinement *)

LEMMA AppliesAreReceived ==
  ASSUME SessionInvariant, NEW p \in Peers, NEW c \in Chunks, NEW r \in 1..offered[p][c],
         InOrderApplies => r >= replica[p][c], Apply(p, c, r), UNCHANGED <<game, revision>>
  PROVE  Replicas!Next
<1>1. r \in 1..revision[c]
  <2>1. offered[p][c] \in Nat /\ revision[c] \in Nat /\ offered[p][c] <= revision[c]
    BY DEF SessionInvariant, Types, Revisions, QueuesAreOffers
  <2> QED BY <2>1
<1>2. Replicas!Receive(p, c)
  BY <1>1 DEF Replicas!Receive, Apply, InOrderApplies
<1> QED BY <1>2 DEF Replicas!Next

LEMMA StepRefinesReplicas ==
  SessionInvariant /\ [Next]_vars => [Replicas!Next]_<<"waits" \notin game, revision, replica>>
<1> SUFFICES ASSUME SessionInvariant, [Next]_vars
             PROVE  [Replicas!Next]_<<"waits" \notin game, revision, replica>>
  OBVIOUS
<1>1. UNCHANGED <<game, revision, replica>>
        => [Replicas!Next]_<<"waits" \notin game, revision, replica>>
  OBVIOUS
<1>2. CASE ChunkNext /\ UNCHANGED <<game, faults, bridges>>
  <2>1. UNCHANGED game
    BY <1>2
  <2>2. ASSUME NEW c \in Chunks, CommitChunk(c) PROVE Replicas!Next
    BY <2>1, <2>2 DEF CommitChunk, Replicas!Next, Replicas!Commit
  <2>3. ASSUME NEW p \in Peers, ApplyDelta(p) PROVE Replicas!Next
    <3>1. ReceivedDelta(p) /\ Apply(p, Head(toPeer[p]).chunk, Head(toPeer[p]).revision)
          /\ UNCHANGED revision
      BY <2>3 DEF ApplyDelta
    <3>2. /\ Head(toPeer[p]).chunk \in Chunks
          /\ Head(toPeer[p]).revision \in 1..offered[p][Head(toPeer[p]).chunk]
          /\ InOrderApplies => replica[p][Head(toPeer[p]).chunk] <= Head(toPeer[p]).revision
      BY <3>1, ReceivedIsOffered
    <3>3. replica[p][Head(toPeer[p]).chunk] \in Nat /\ Head(toPeer[p]).revision \in Nat
      BY <3>2 DEF SessionInvariant, Types, Revisions
    <3> QED BY <2>1, <3>1, <3>2, <3>3, AppliesAreReceived
  <2>4. ASSUME NEW p \in Peers, EndApply(p) PROVE Replicas!Next
    <3>1. PICK d \in applying[p] : Apply(p, d[1], d[2]) /\ UNCHANGED revision
      BY <2>4 DEF EndApply
    <3>2. d[1] \in Chunks /\ d[2] \in 1..offered[p][d[1]] /\ ~InOrderApplies
      BY <3>1 DEF SessionInvariant, AppliesAreOffers
    <3> QED BY <2>1, <3>1, <3>2, AppliesAreReceived
  <2>5. ASSUME NEW p \in Peers, Resend(p) \/ ReceiveAck(p) \/ RefuseDelta(p) \/ StartApply(p)
        PROVE  UNCHANGED <<revision, replica>>
    BY <2>5 DEF Resend, ReceiveAck, RefuseDelta, StartApply, chunkVars
  <2>6. ASSUME NEW peers, NEW chunks, Publish(peers, chunks)
        PROVE  UNCHANGED <<revision, replica>>
    BY <2>6 DEF Publish
  <2> QED BY <1>1, <1>2, <2>1, <2>2, <2>3, <2>4, <2>5, <2>6 DEF ChunkNext
<1>3. CASE UNCHANGED <<game, chunkVars>>
  BY <1>1, <1>3 DEF chunkVars
<1> QED BY <1>2, <1>3 DEF Next, vars

\* The replicas of the peers are those of ChunkReplicas: each step of a session moves one
\* of them, forward unless applying waits, commits a revision, or changes none.
THEOREM RefinesChunkReplicas ==
  Spec => ImplementsReplicas
<1>1. Init => Replicas!Init
  BY DEF Init, ChunkInit, Nothing, Replicas!Init
<1> QED BY <1>1, SessionInvariantHolds, StepRefinesReplicas, PTL
        DEF Spec, ImplementsReplicas, Replicas!Spec

-----------------------------------------------------------------------------
(* What peers are restored to.  The snapshots on their way to a peer come   *)
(* in the order of their ticks, none before what the peer was restored to   *)
(* nor before the snapshots that its handlers hold, none beyond the host.   *)

\* Packets on their way to a peer, behind some ticks and up to one.
Arriving(s, ticks, last) ==
  /\ IsASequence(s)
  /\ last \in Nat /\ ticks \subseteq 0..last
  /\ \A i \in 1..Len(s) : s[i].kind = "snapshot" =>
       s[i].tick \in 0..last /\ \A t \in ticks : t <= s[i].tick
  /\ \A i, j \in 1..Len(s) :
       i < j /\ s[i].kind = "snapshot" /\ s[j].kind = "snapshot" => s[i].tick <= s[j].tick

Behind(p) == {restored[p]} \union {reporting[p][k] : k \in DOMAIN reporting[p]}

BridgeInvariant ==
  /\ DOMAIN toPeer = Peers
  /\ local \in [Peers -> [tick : Nat, agrees : BOOLEAN]]
  /\ DOMAIN restored = Peers /\ DOMAIN reporting = Peers
  /\ \A p \in Peers : IsASequence(reporting[p]) /\ Arriving(toPeer[p], Behind(p), tick)

LEMMA ArrivingNothing ==
  ASSUME NEW s, NEW ticks, NEW last, Arriving(s, ticks, last)
  PROVE  Arriving(<<>>, ticks, last)
<1>1. <<>> \in Seq({}) /\ Len(<<>>) = 0
  OBVIOUS
<1> QED BY <1>1 DEF IsASequence, Arriving

LEMMA ArrivingFewer ==
  ASSUME NEW s, NEW ticks, NEW last, Arriving(s, ticks, last), NEW fewer \in SUBSET ticks
  PROVE  Arriving(s, fewer, last)
BY DEF Arriving

\* What is received leaves only later snapshots behind.
LEMMA ArrivingTail ==
  ASSUME NEW s, NEW ticks, NEW last, Arriving(s, ticks, last), s # <<>>
  PROVE  /\ Arriving(Tail(s), ticks, last)
         /\ Head(s).kind = "snapshot" =>
              /\ Head(s).tick \in Nat /\ \A t \in ticks : t <= Head(s).tick
              /\ Arriving(Tail(s), ticks \union {Head(s).tick}, last)
<1>1. /\ IsASequence(Tail(s)) /\ Len(s) \in Nat \ {0} /\ Len(Tail(s)) = Len(s) - 1
      /\ Head(s) = s[1]
      /\ \A i \in 1..Len(Tail(s)) : Tail(s)[i] = s[i + 1]
  BY Tails DEF Arriving
<1>2. \A i \in 1..Len(Tail(s)) : i + 1 \in 1..Len(s) /\ 1 < i + 1
  BY <1>1
<1>3. \A i, j \in 1..Len(Tail(s)) : i < j => i + 1 < j + 1
  BY <1>1
<1>4. Arriving(Tail(s), ticks, last)
  BY <1>1, <1>2, <1>3 DEF Arriving
<1>5. ASSUME Head(s).kind = "snapshot"
      PROVE  /\ Head(s).tick \in 0..last /\ \A t \in ticks : t <= Head(s).tick
             /\ \A i \in 1..Len(Tail(s)) : Tail(s)[i].kind = "snapshot" =>
                  Head(s).tick <= Tail(s)[i].tick
  <2>1. 1 \in 1..Len(s)
    BY <1>1
  <2> QED BY <1>1, <1>2, <1>5, <2>1 DEF Arriving
<1>6. ASSUME Head(s).kind = "snapshot"
      PROVE  Arriving(Tail(s), ticks \union {Head(s).tick}, last)
  <2>1. ticks \union {Head(s).tick} \subseteq 0..last
    BY <1>5, <1>6 DEF Arriving
  <2>2. \A i \in 1..Len(Tail(s)) : Tail(s)[i].kind = "snapshot" =>
          /\ Tail(s)[i].tick \in 0..last
          /\ \A t \in ticks \union {Head(s).tick} : t <= Tail(s)[i].tick
    BY <1>4, <1>5, <1>6 DEF Arriving
  <2> QED BY <1>4, <2>1, <2>2 DEF Arriving
<1> QED BY <1>4, <1>5, <1>6

LEMMA ArrivingOthers ==
  ASSUME NEW s, NEW ticks, NEW last, Arriving(s, ticks, last),
         NEW b, IsASequence(b), \A i \in 1..Len(b) : b[i].kind # "snapshot"
  PROVE  Arriving(s \o b, ticks, last)
<1> DEFINE u == s \o b
<1>1. /\ IsASequence(u) /\ Len(s) \in Nat /\ Len(b) \in Nat /\ Len(u) = Len(s) + Len(b)
      /\ \A i \in 1..Len(s) : u[i] = s[i]
      /\ \A i \in (Len(s) + 1)..(Len(s) + Len(b)) : u[i] = b[i - Len(s)]
  BY Concatenations DEF Arriving
<1>2. \A i \in (Len(s) + 1)..(Len(s) + Len(b)) : i - Len(s) \in 1..Len(b)
  BY <1>1
<1>3. \A i \in 1..Len(u) : i \in 1..Len(s) \/ i \in (Len(s) + 1)..(Len(s) + Len(b))
  BY <1>1
<1> HIDE DEF u
<1>4. \A i \in 1..Len(u) : u[i].kind = "snapshot" => i \in 1..Len(s) /\ u[i] = s[i]
  BY <1>1, <1>2, <1>3
<1>5. Arriving(u, ticks, last)
  BY <1>1, <1>4 DEF Arriving
<1> QED BY <1>5 DEF u

\* The snapshot of the moment is sent last.
LEMMA ArrivingSnapshot ==
  ASSUME NEW s, NEW ticks, NEW last, Arriving(s, ticks, last), NEW t \in Nat, last <= t
  PROVE  /\ Arriving(s, ticks, t)
         /\ Arriving(s \o <<[kind |-> "snapshot", tick |-> t]>>, ticks, t)
<1> DEFINE x == [kind |-> "snapshot", tick |-> t]
           u == s \o <<x>>
<1>1. Arriving(s, ticks, t)
  BY DEF Arriving
<1>2. IsASequence(<<x>>) /\ Len(<<x>>) = 1 /\ <<x>>[1] = x
  BY Singletons
<1>3. /\ IsASequence(u) /\ Len(s) \in Nat /\ Len(u) = Len(s) + 1
      /\ \A i \in 1..Len(s) : u[i] = s[i]
      /\ u[Len(s) + 1] = x
  BY <1>2, Concatenations DEF Arriving
<1>4. x.tick = t /\ \A e \in ticks : e <= t
  BY <1>1 DEF Arriving
<1> HIDE DEF x, u
<1>5. \A i \in 1..Len(u) : i \in 1..Len(s) \/ i = Len(s) + 1
  BY <1>3
<1>6. \A i \in 1..Len(u) : u[i].kind = "snapshot" =>
        u[i].tick \in 0..t /\ \A e \in ticks : e <= u[i].tick
  BY <1>1, <1>3, <1>4, <1>5 DEF Arriving
<1>7. \A i, j \in 1..Len(u) :
        i < j /\ u[i].kind = "snapshot" /\ u[j].kind = "snapshot" => u[i].tick <= u[j].tick
  <2> SUFFICES ASSUME NEW i \in 1..Len(u), NEW j \in 1..Len(u), i < j,
                      u[i].kind = "snapshot", u[j].kind = "snapshot"
               PROVE  u[i].tick <= u[j].tick
    OBVIOUS
  <2>1. i \in 1..Len(s)
    BY <1>3
  <2>2. CASE j \in 1..Len(s)
    BY <1>1, <1>3, <2>1, <2>2 DEF Arriving
  <2>3. CASE j = Len(s) + 1
    BY <1>3, <1>4, <1>6, <2>3
  <2> QED BY <1>5, <2>2, <2>3
<1>8. Arriving(u, ticks, t)
  BY <1>1, <1>3, <1>6, <1>7 DEF Arriving
<1> QED BY <1>1, <1>8 DEF u, x

LEMMA ArrivingDamaged ==
  ASSUME NEW s, NEW ticks, NEW last, Arriving(s, ticks, last), NEW k \in 1..Len(s),
         NEW damaged \in Deltas
  PROVE  Arriving([s EXCEPT ![k] = damaged], ticks, last)
<1> DEFINE u == [s EXCEPT ![k] = damaged]
<1>1. PICK S : s \in Seq(S)
  BY DEF Arriving, IsASequence
<1>2. Len(s) \in Nat /\ s \in [1..Len(s) -> S]
  BY <1>1
<1>3. damaged.kind = "delta"
  BY DEF Deltas
<1>4. u \in [1..Len(s) -> S \union {damaged}]
  BY <1>2
<1>5. u \in Seq(S \union {damaged}) /\ Len(u) = Len(s)
  BY <1>2, <1>4
<1>6. \A i \in 1..Len(s) : u[i] = IF i = k THEN damaged ELSE s[i]
  BY <1>2
<1> HIDE DEF u
<1>7. \A i \in 1..Len(s) : u[i].kind = "snapshot" => u[i] = s[i]
  BY <1>3, <1>6
<1> QED BY <1>5, <1>7 DEF Arriving, IsASequence, u

\* A handler that waits adds its tick.
LEMMA Appends ==
  ASSUME NEW s, IsASequence(s), NEW x
  PROVE  /\ IsASequence(Append(s, x))
         /\ \A i \in DOMAIN Append(s, x) :
              Append(s, x)[i] \in {x} \union {s[j] : j \in DOMAIN s}
<1>1. PICK S : s \in Seq(S)
  BY DEF IsASequence
<1>2. s \in Seq(S \union {x}) /\ x \in S \union {x}
  BY <1>1
<1>3. /\ Append(s, x) \in Seq(S \union {x}) /\ Len(s) \in Nat /\ DOMAIN s = 1..Len(s)
      /\ DOMAIN Append(s, x) = 1..(Len(s) + 1)
      /\ Append(s, x)[Len(s) + 1] = x
      /\ \A i \in 1..Len(s) : Append(s, x)[i] = s[i]
  BY <1>2
<1>4. ASSUME NEW i \in 1..(Len(s) + 1)
      PROVE  Append(s, x)[i] \in {x} \union {s[j] : j \in DOMAIN s}
  <2>1. i = Len(s) + 1 \/ i \in 1..Len(s)
    BY <1>3
  <2> QED BY <1>3, <2>1
<1> QED BY <1>3, <1>4 DEF IsASequence

\* A handler that ends takes its tick away.
LEMMA Removals ==
  ASSUME NEW s, IsASequence(s), NEW k \in DOMAIN s
  PROVE  /\ IsASequence(RemoveAt(s, k)) /\ Len(RemoveAt(s, k)) < Len(s)
         /\ \A i \in DOMAIN RemoveAt(s, k) : \E j \in DOMAIN s : RemoveAt(s, k)[i] = s[j]
<1>1. PICK S : s \in Seq(S)
  BY DEF IsASequence
<1>2. k \in 1..Len(s) /\ Len(s) \in Nat
  BY <1>1
<1> DEFINE a == SubSeq(s, 1, k - 1)
           b == SubSeq(s, k + 1, Len(s))
<1>3. /\ a \in Seq(S) /\ Len(a) = k - 1 /\ \A i \in 1..(k - 1) : a[i] = s[i]
  BY <1>1, <1>2
<1>4. /\ b \in Seq(S) /\ Len(b) = Len(s) - k /\ \A i \in 1..(Len(s) - k) : b[i] = s[k + i]
  BY <1>1, <1>2
<1> HIDE DEF a, b
<1>5. IsASequence(a) /\ IsASequence(b)
  BY <1>3, <1>4 DEF IsASequence
<1>6. /\ IsASequence(a \o b) /\ Len(a \o b) = Len(s) - 1
      /\ \A i \in 1..Len(a) : (a \o b)[i] = a[i]
      /\ \A i \in (Len(a) + 1)..(Len(a) + Len(b)) : (a \o b)[i] = b[i - Len(a)]
  <2>1. /\ IsASequence(a \o b) /\ Len(a \o b) = Len(a) + Len(b)
        /\ \A i \in 1..Len(a) : (a \o b)[i] = a[i]
        /\ \A i \in (Len(a) + 1)..(Len(a) + Len(b)) : (a \o b)[i] = b[i - Len(a)]
    BY <1>5, Concatenations
  <2>2. Len(a) + Len(b) = Len(s) - 1
    BY <1>2, <1>3, <1>4
  <2> QED BY <2>1, <2>2
<1>7. DOMAIN (a \o b) = 1..(Len(s) - 1) /\ DOMAIN s = 1..Len(s)
  <2>1. PICK T : a \o b \in Seq(T)
    BY <1>6 DEF IsASequence
  <2> QED BY <1>1, <1>6, <2>1
<1>8. ASSUME NEW i \in 1..(Len(s) - 1) PROVE \E j \in 1..Len(s) : (a \o b)[i] = s[j]
  <2>1. CASE i <= k - 1
    <3>1. i \in 1..Len(a) /\ i \in 1..(k - 1) /\ i \in 1..Len(s)
      BY <1>2, <1>3, <2>1
    <3> QED BY <1>3, <1>6, <3>1
  <2>2. CASE i > k - 1
    <3>1. /\ i \in (Len(a) + 1)..(Len(a) + Len(b)) /\ i - Len(a) \in 1..(Len(s) - k)
          /\ k + (i - Len(a)) \in 1..Len(s)
      BY <1>2, <1>3, <1>4, <2>2
    <3> QED BY <1>4, <1>6, <3>1
  <2>3. i <= k - 1 \/ i > k - 1
    BY <1>2
  <2> QED BY <2>1, <2>2, <2>3
<1>9. RemoveAt(s, k) = a \o b
  BY DEF RemoveAt, a, b
<1>10. Len(a \o b) < Len(s)
  BY <1>2, <1>6
<1>11. \A i \in DOMAIN (a \o b) : \E j \in DOMAIN s : (a \o b)[i] = s[j]
  BY <1>7, <1>8
<1> QED BY <1>6, <1>9, <1>10, <1>11

LEMMA BridgeStartsInvariant ==
  Init => BridgeInvariant
<1> SUFFICES ASSUME Init PROVE BridgeInvariant
  OBVIOUS
<1> USE DEF Init, TransportInit, BridgeInit
<1>1. IsASequence(<<>>) /\ Len(<<>>) = 0 /\ DOMAIN <<>> = {}
  <2>1. <<>> \in Seq({})
    OBVIOUS
  <2> QED BY <2>1 DEF IsASequence
<1>2. local \in [Peers -> [tick : Nat, agrees : BOOLEAN]]
  BY DEF HostSample
<1>3. \A p \in Peers : Behind(p) = {0}
  BY <1>1 DEF Behind
<1>4. Arriving(<<>>, {0}, 0)
  BY <1>1 DEF Arriving
<1> QED BY <1>1, <1>2, <1>3, <1>4 DEF BridgeInvariant

\* Packets move, and no peer is restored.
LEMMA PacketsKeepBridge ==
  ASSUME BridgeInvariant, UNCHANGED <<local, restored, reporting>>, DOMAIN toPeer' = Peers,
         \A p \in Peers : Arriving(toPeer'[p], Behind(p), tick')
  PROVE  BridgeInvariant'
<1>1. \A p \in Peers : Behind(p)' = Behind(p)
  BY DEF Behind
<1> QED BY <1>1 DEF BridgeInvariant

LEMMA TailsKeepBridge ==
  ASSUME BridgeInvariant, NEW p \in Peers, toPeer[p] # <<>>,
         toPeer' = [toPeer EXCEPT ![p] = Tail(@)],
         UNCHANGED <<tick, local, restored, reporting>>
  PROVE  BridgeInvariant'
<1>1. /\ DOMAIN toPeer' = Peers /\ toPeer'[p] = Tail(toPeer[p])
      /\ \A q \in Peers : q # p => toPeer'[q] = toPeer[q]
  BY DEF BridgeInvariant
<1> QED BY <1>1, ArrivingTail, PacketsKeepBridge DEF BridgeInvariant

\* The host sends snapshots of its tick, to whom it may.
LEMMA SnapshotsKeepBridge ==
  ASSUME BridgeInvariant, NEW receivers, NEW t \in Nat, tick <= t, tick' = t,
         UNCHANGED <<local, restored, reporting>>,
         toPeer' = Sent(toPeer, receivers, [p \in Peers |-> <<[kind |-> "snapshot", tick |-> t]>>])
  PROVE  BridgeInvariant'
<1> DEFINE x == [kind |-> "snapshot", tick |-> t]
<1>1. DOMAIN toPeer' = Peers /\ \A p \in Peers : toPeer'[p] \in {toPeer[p], toPeer[p] \o <<x>>}
  BY DEF Sent
<1>2. \A p \in Peers : Arriving(toPeer[p], Behind(p), t)
                       /\ Arriving(toPeer[p] \o <<x>>, Behind(p), t)
  BY ArrivingSnapshot DEF BridgeInvariant
<1> QED BY <1>1, <1>2, PacketsKeepBridge

\* The host sends packets that are no snapshots.
LEMMA OthersKeepBridge ==
  ASSUME BridgeInvariant, NEW receivers, NEW b, IsASequence(b),
         \A i \in 1..Len(b) : b[i].kind # "snapshot",
         UNCHANGED <<tick, local, restored, reporting>>,
         toPeer' = Sent(toPeer, receivers, [p \in Peers |-> b])
  PROVE  BridgeInvariant'
<1>1. DOMAIN toPeer' = Peers /\ \A p \in Peers : toPeer'[p] \in {toPeer[p], toPeer[p] \o b}
  BY DEF Sent
<1>2. \A p \in Peers : Arriving(toPeer[p] \o b, Behind(p), tick)
  BY ArrivingOthers DEF BridgeInvariant
<1> QED BY <1>1, <1>2, PacketsKeepBridge DEF BridgeInvariant

LEMMA LoadKeepsBridge ==
  ASSUME BridgeInvariant, NEW p \in Peers, LoadSnapshot(p)
  PROVE  /\ BridgeInvariant'
         /\ local'[p].tick >= restored[p]
         /\ \A q \in Peers \ {p} : local'[q] = local[q]
<1> DEFINE t == Head(toPeer[p]).tick
<1>1. /\ toPeer[p] # <<>> /\ Head(toPeer[p]).kind = "snapshot"
      /\ toPeer' = [toPeer EXCEPT ![p] = Tail(@)]
      /\ local' = [local EXCEPT ![p] = HostSample(t)]
      /\ restored' = [restored EXCEPT ![p] = IF @ < t THEN t ELSE @]
      /\ UNCHANGED <<tick, reporting>>
  BY DEF LoadSnapshot, ReceivedSnapshot, Restore
<1>2. /\ t \in Nat /\ restored[p] <= t /\ restored[p] \in Nat
      /\ Arriving(Tail(toPeer[p]), Behind(p) \union {t}, tick)
  <2>1. Arriving(toPeer[p], Behind(p), tick) /\ restored[p] \in Behind(p)
    BY DEF BridgeInvariant, Behind
  <2>2. restored[p] \in Nat
    BY <2>1 DEF Arriving
  <2> QED BY <1>1, <2>1, <2>2, ArrivingTail
<1> HIDE DEF t
<1>3. /\ DOMAIN toPeer' = Peers /\ toPeer'[p] = Tail(toPeer[p])
      /\ \A q \in Peers \ {p} : toPeer'[q] = toPeer[q]
  BY <1>1 DEF BridgeInvariant
<1>4. /\ local' \in [Peers -> [tick : Nat, agrees : BOOLEAN]] /\ local'[p].tick = t
      /\ \A q \in Peers \ {p} : local'[q] = local[q]
  BY <1>1, <1>2 DEF BridgeInvariant, HostSample
<1>5. /\ DOMAIN restored' = Peers /\ restored'[p] \in {restored[p], t}
      /\ \A q \in Peers \ {p} : restored'[q] = restored[q]
  BY <1>1 DEF BridgeInvariant
<1>6. Behind(p)' \subseteq Behind(p) \union {t} /\ \A q \in Peers \ {p} : Behind(q)' = Behind(q)
  BY <1>1, <1>5 DEF Behind
<1>7. Arriving(toPeer'[p], Behind(p)', tick')
  BY <1>1, <1>2, <1>3, <1>6, ArrivingFewer
<1>8. \A q \in Peers : IsASequence(reporting'[q]) /\ Arriving(toPeer'[q], Behind(q)', tick')
  BY <1>1, <1>3, <1>6, <1>7 DEF BridgeInvariant
<1>9. BridgeInvariant'
  BY <1>1, <1>3, <1>4, <1>5, <1>8 DEF BridgeInvariant
<1> QED BY <1>2, <1>4, <1>9

LEMMA ReportKeepsBridge ==
  ASSUME BridgeInvariant, NEW p \in Peers, ReportMismatch(p)
  PROVE  BridgeInvariant'
<1> DEFINE t == Head(toPeer[p]).tick
<1>1. /\ toPeer[p] # <<>> /\ Head(toPeer[p]).kind = "snapshot"
      /\ toPeer' = [toPeer EXCEPT ![p] = Tail(@)]
      /\ reporting' = [reporting EXCEPT ![p] = Append(@, t)]
      /\ UNCHANGED <<tick, local, restored>>
  BY DEF ReportMismatch, ReceivedSnapshot
<1>2. Arriving(Tail(toPeer[p]), Behind(p) \union {t}, tick)
  BY <1>1, ArrivingTail DEF BridgeInvariant
<1> HIDE DEF t
<1>3. /\ DOMAIN toPeer' = Peers /\ toPeer'[p] = Tail(toPeer[p])
      /\ \A q \in Peers \ {p} : toPeer'[q] = toPeer[q]
  BY <1>1 DEF BridgeInvariant
<1>4. /\ DOMAIN reporting' = Peers /\ reporting'[p] = Append(reporting[p], t)
      /\ \A q \in Peers \ {p} : reporting'[q] = reporting[q]
  BY <1>1 DEF BridgeInvariant
<1>5. /\ IsASequence(reporting'[p])
      /\ \A k \in DOMAIN reporting'[p] :
           reporting'[p][k] \in {t} \union {reporting[p][j] : j \in DOMAIN reporting[p]}
  BY <1>4, Appends DEF BridgeInvariant
<1>6. Behind(p)' \subseteq Behind(p) \union {t} /\ \A q \in Peers \ {p} : Behind(q)' = Behind(q)
  BY <1>1, <1>4, <1>5 DEF Behind
<1>7. Arriving(toPeer'[p], Behind(p)', tick')
  BY <1>1, <1>2, <1>3, <1>6, ArrivingFewer
<1>8. \A q \in Peers : IsASequence(reporting'[q]) /\ Arriving(toPeer'[q], Behind(q)', tick')
  BY <1>1, <1>3, <1>4, <1>5, <1>6, <1>7 DEF BridgeInvariant
<1> QED BY <1>1, <1>3, <1>4, <1>8 DEF BridgeInvariant

\* A handler that waited ends: its tick was behind already.
LEMMA EndedReportKeepsBridge ==
  ASSUME BridgeInvariant, NEW p \in Peers, LoadAfterReport(p) \/ ReportFails(p)
  PROVE  /\ BridgeInvariant'
         /\ Len(reporting'[p]) < Len(reporting[p])
         /\ \A q \in Peers \ {p} : local'[q] = local[q]
<1>1. PICK k \in DOMAIN reporting[p] :
        /\ reporting' = [reporting EXCEPT ![p] = RemoveAt(@, k)]
        /\ \/ UNCHANGED <<local, restored>>
           \/ /\ local' = [local EXCEPT ![p] = HostSample(reporting[p][k])]
              /\ restored' = [restored EXCEPT ![p] = IF @ < reporting[p][k] THEN reporting[p][k]
                                                     ELSE @]
  BY DEF LoadAfterReport, ReportFails, Restore
<1>2. UNCHANGED <<tick, toPeer>>
  BY DEF LoadAfterReport, ReportFails, carriers
<1>3. /\ IsASequence(RemoveAt(reporting[p], k))
      /\ Len(RemoveAt(reporting[p], k)) < Len(reporting[p])
      /\ \A i \in DOMAIN RemoveAt(reporting[p], k) : \E j \in DOMAIN reporting[p] :
           RemoveAt(reporting[p], k)[i] = reporting[p][j]
  BY Removals DEF BridgeInvariant
<1>4. /\ DOMAIN reporting' = Peers /\ reporting'[p] = RemoveAt(reporting[p], k)
      /\ \A q \in Peers \ {p} : reporting'[q] = reporting[q]
  BY <1>1 DEF BridgeInvariant
<1>5. reporting[p][k] \in Nat
  BY DEF BridgeInvariant, Arriving, Behind
<1>6. /\ local' \in [Peers -> [tick : Nat, agrees : BOOLEAN]]
      /\ \A q \in Peers \ {p} : local'[q] = local[q]
  <2>1. HostSample(reporting[p][k]) \in [tick : Nat, agrees : BOOLEAN]
    BY <1>5 DEF HostSample
  <2>2. local \in [Peers -> [tick : Nat, agrees : BOOLEAN]]
    BY DEF BridgeInvariant
  <2> QED BY <1>1, <2>1, <2>2
<1>7. /\ DOMAIN restored' = Peers /\ restored'[p] \in {restored[p], reporting[p][k]}
      /\ \A q \in Peers \ {p} : restored'[q] = restored[q]
  BY <1>1 DEF BridgeInvariant
<1>8. Behind(p)' \subseteq Behind(p) /\ \A q \in Peers \ {p} : Behind(q)' = Behind(q)
  BY <1>3, <1>4, <1>7 DEF Behind
<1>9. Arriving(toPeer'[p], Behind(p)', tick')
  BY <1>2, <1>8, ArrivingFewer DEF BridgeInvariant
<1>10. \A q \in Peers : IsASequence(reporting'[q]) /\ Arriving(toPeer'[q], Behind(q)', tick')
  BY <1>2, <1>3, <1>4, <1>8, <1>9 DEF BridgeInvariant
<1>11. BridgeInvariant'
  BY <1>2, <1>4, <1>6, <1>7, <1>10 DEF BridgeInvariant
<1> QED BY <1>3, <1>4, <1>6, <1>11

LEMMA PredictKeepsBridge ==
  ASSUME BridgeInvariant, NEW p \in Peers, Predict(p)
  PROVE  /\ BridgeInvariant'
         /\ \A q \in Peers : local'[q].tick >= local[q].tick
<1>1. PICK agrees \in {FALSE, local[p].agrees} :
        local' = [local EXCEPT ![p] = [tick |-> @.tick + 1, agrees |-> agrees]]
  BY DEF Predict
<1>2. UNCHANGED <<tick, toPeer, restored, reporting>>
  BY DEF Predict, carriers
<1>3. local[p].tick \in Nat /\ agrees \in BOOLEAN
  BY DEF BridgeInvariant
<1>4. local' \in [Peers -> [tick : Nat, agrees : BOOLEAN]]
  BY <1>1, <1>3 DEF BridgeInvariant
<1>5. \A q \in Peers : local[q].tick \in Nat
  BY DEF BridgeInvariant
<1>6. \A q \in Peers : local'[q].tick = IF q = p THEN local[q].tick + 1 ELSE local[q].tick
  BY <1>1 DEF BridgeInvariant
<1>7. \A q \in Peers : Behind(q)' = Behind(q)
  BY <1>2 DEF Behind
<1> QED BY <1>2, <1>4, <1>5, <1>6, <1>7 DEF BridgeInvariant

LEMMA FunctionsAreSequences ==
  ASSUME NEW n \in Nat, NEW b, b = [i \in 1..n |-> b[i]]
  PROVE  IsASequence(b) /\ Len(b) = n
<1> DEFINE S == {b[i] : i \in 1..n}
<1>1. b \in [1..n -> S]
  <2>1. [i \in 1..n |-> b[i]] \in [1..n -> S]
    OBVIOUS
  <2> QED BY <2>1
<1>2. b \in Seq(S) /\ Len(b) = n
  BY <1>1
<1> QED BY <1>2 DEF IsASequence

LEMMA RoomsKeepBridge ==
  ASSUME BridgeInvariant, RoomNext,
         \A p \in Peers : ~(LoadSnapshot(p) \/ ReportMismatch(p) \/ Predict(p) \/ LoadAfterReport(p))
  PROVE  BridgeInvariant' /\ UNCHANGED local
<1>1. \A p \in Peers : Arriving(toPeer[p], Behind(p), tick)
  BY DEF BridgeInvariant
<1>2. tick \in Nat \/ Peers = {}
  BY <1>1 DEF Arriving
<1>3. ASSUME NEW p \in Peers, toPeer' = SentTo(toPeer, p, Snapshot),
             UNCHANGED <<tick, local, restored, reporting>>
      PROVE  BridgeInvariant'
  <2>1. toPeer' = Sent(toPeer, {p}, [q \in Peers |-> <<[kind |-> "snapshot", tick |-> tick]>>])
    BY <1>3 DEF SentTo, Snapshot
  <2>2. tick \in Nat /\ tick <= tick
    BY <1>2
  <2> QED BY <1>3, <2>1, <2>2, SnapshotsKeepBridge
<1>4. ASSUME UNCHANGED <<tick, toPeer, local, restored, reporting>> PROVE BridgeInvariant'
  BY <1>1, <1>4, PacketsKeepBridge DEF BridgeInvariant
<1>5. CASE Advance
  <2>1. /\ tick' = tick + 1 /\ UNCHANGED <<local, restored, reporting>>
        /\ toPeer' = Sent(toPeer, admitted,
                          [p \in Peers |-> <<[kind |-> "snapshot", tick |-> tick + 1]>>])
    BY <1>5 DEF Advance
  <2>2. CASE Peers = {}
    <3>1. DOMAIN toPeer' = Peers
      BY <2>1 DEF Sent
    <3> QED BY <2>1, <2>2, <3>1, PacketsKeepBridge
  <2>3. CASE tick \in Nat
    <3>1. tick + 1 \in Nat /\ tick <= tick + 1
      BY <2>3
    <3> QED BY <2>1, <3>1, SnapshotsKeepBridge
  <2> QED BY <1>2, <2>1, <2>2, <2>3
<1>6. ASSUME NEW p \in Peers, ReceiveHandshake(p) \/ PublishSnapshot(p)
      PROVE  BridgeInvariant' /\ UNCHANGED local
  BY <1>3, <1>6 DEF ReceiveHandshake, PublishSnapshot, bridges
<1>7. ASSUME NEW p \in Peers, ReceiveHashReport(p)
      PROVE  BridgeInvariant' /\ UNCHANGED local
  <2>1. /\ toPeer' = toPeer \/ toPeer' = SentTo(toPeer, p, Snapshot)
        /\ UNCHANGED bridges
    BY <1>7 DEF ReceiveHashReport, Correction
  <2> QED BY <1>3, <1>4, <2>1 DEF bridges
<1>8. ASSUME NEW p \in Peers, ReceiveInput(p) \/ SendInput(p)
      PROVE  BridgeInvariant' /\ UNCHANGED local
  BY <1>4, <1>8 DEF ReceiveInput, SendInput, bridges
<1>9. ASSUME NEW p \in Peers, RefuseReport(p)
      PROVE  BridgeInvariant' /\ UNCHANGED local
  BY <1>9, TailsKeepBridge DEF RefuseReport, ReceivedSnapshot
<1> QED BY <1>5, <1>6, <1>7, <1>8, <1>9 DEF RoomNext

LEMMA ChunksKeepBridge ==
  ASSUME SessionInvariant, BridgeInvariant, ChunkNext, UNCHANGED bridges
  PROVE  BridgeInvariant'
<1>1. UNCHANGED <<tick, local, restored, reporting>>
  BY DEF bridges
<1>2. ASSUME UNCHANGED toPeer PROVE BridgeInvariant'
  BY <1>1, <1>2, PacketsKeepBridge DEF BridgeInvariant
<1>3. ASSUME NEW p \in Peers, toPeer[p] # <<>>, toPeer' = [toPeer EXCEPT ![p] = Tail(@)]
      PROVE  BridgeInvariant'
  BY <1>1, <1>3, TailsKeepBridge
<1>4. ASSUME NEW c \in Chunks, CommitChunk(c) PROVE BridgeInvariant'
  BY <1>2, <1>4 DEF CommitChunk, carriers
<1>5. ASSUME NEW peers, NEW chunks \in SUBSET Chunks, Publish(peers, chunks)
      PROVE  BridgeInvariant'
  <2> DEFINE batch == [i \in 1..Cardinality(chunks) |->
                        LET c == SetToSeq(chunks)[i] IN Delta(c, revision[c])]
  <2>1. toPeer' = Sent(toPeer, peers, [p \in Peers |-> batch])
    BY <1>5 DEF Publish
  <2>2. Cardinality(chunks) \in Nat
    BY ChunkAssumption, FS_Subset, FS_CardinalityType
  <2>3. \A i \in 1..Cardinality(chunks) : batch[i].kind = "delta"
    BY DEF Delta
  <2>4. IsASequence(batch) /\ Len(batch) = Cardinality(chunks)
    BY <2>2, FunctionsAreSequences
  <2> HIDE DEF batch
  <2> QED BY <1>1, <2>1, <2>3, <2>4, OthersKeepBridge
<1>6. ASSUME NEW p \in Peers, Resend(p) PROVE BridgeInvariant'
  <2> DEFINE chunks == SetToSeq(PendingChunks(p))
             batch == [i \in DOMAIN chunks |-> Delta(chunks[i], pending[p][chunks[i]])]
  <2>1. toPeer' = Sent(toPeer, {p}, [q \in Peers |-> batch])
    BY <1>6 DEF Resend
  <2>2. PendingChunks(p) \in SUBSET Chunks /\ IsFiniteSet(PendingChunks(p))
    BY ChunkAssumption, FS_Subset DEF PendingChunks
  <2>3. chunks \in Seq(PendingChunks(p)) /\ Len(chunks) \in Nat /\ DOMAIN chunks = 1..Len(chunks)
    BY <2>2, EnumeratedIsMember
  <2>4. \A i \in DOMAIN chunks : batch[i].kind = "delta"
    BY DEF Delta
  <2>5. IsASequence(batch) /\ Len(batch) = Len(chunks)
    <3> HIDE DEF chunks
    <3> QED BY <2>3, FunctionsAreSequences
  <2>6. \A i \in 1..Len(batch) : batch[i].kind # "snapshot"
    BY <2>3, <2>4, <2>5
  <2> HIDE DEF batch
  <2> QED BY <1>1, <2>1, <2>5, <2>6, OthersKeepBridge
<1>7. ASSUME NEW p \in Peers, ReceiveAck(p) \/ EndApply(p) PROVE BridgeInvariant'
  BY <1>2, <1>7 DEF ReceiveAck, EndApply
<1>8. ASSUME NEW p \in Peers, RefuseDelta(p) \/ ApplyDelta(p) \/ StartApply(p)
      PROVE  BridgeInvariant'
  BY <1>3, <1>8 DEF RefuseDelta, ApplyDelta, StartApply, ReceivedDelta
<1> QED BY <1>4, <1>5, <1>6, <1>7, <1>8 DEF ChunkNext

LEMMA FaultsKeepBridge ==
  ASSUME SessionInvariant, BridgeInvariant, NEW p \in Peers, UNCHANGED bridges,
         Open(p) \/ LoseInput(p) \/ Close(p) \/ Damage(p)
  PROVE  BridgeInvariant'
<1>1. UNCHANGED <<tick, local, restored, reporting>>
  BY DEF bridges
<1>2. \A q \in Peers : Arriving(toPeer[q], Behind(q), tick)
  BY DEF BridgeInvariant
<1>3. CASE Open(p) \/ LoseInput(p)
  BY <1>1, <1>2, <1>3, PacketsKeepBridge DEF Open, LoseInput, BridgeInvariant
<1>4. CASE Close(p)
  <2>1. toPeer' = [toPeer EXCEPT ![p] = <<>>]
    BY <1>4 DEF Close
  <2>2. /\ DOMAIN toPeer' = Peers /\ toPeer'[p] = <<>>
        /\ \A q \in Peers : q # p => toPeer'[q] = toPeer[q]
    BY <2>1 DEF BridgeInvariant
  <2> QED BY <1>1, <1>2, <2>2, ArrivingNothing, PacketsKeepBridge
<1>5. CASE Damage(p)
  <2>1. /\ DOMAIN toPeer' = Peers /\ \A q \in Peers : q # p => toPeer'[q] = toPeer[q]
        /\ \E i \in 1..Len(toPeer[p]), damaged \in Deltas :
             toPeer'[p] = [toPeer[p] EXCEPT ![i] = damaged]
    BY <1>5, DamageIsOfOne
  <2>2. Arriving(toPeer'[p], Behind(p), tick)
    BY <1>2, <2>1, ArrivingDamaged
  <2> QED BY <1>1, <1>2, <2>1, <2>2, PacketsKeepBridge
<1> QED BY <1>3, <1>4, <1>5

Forward(p) ==
  \/ local'[p].tick >= restored[p]
  \/ local'[p].tick >= local[p].tick
  \/ Len(reporting'[p]) < Len(reporting[p])

LEMMA StepKeepsBridge ==
  ASSUME SessionInvariant, BridgeInvariant, [Next]_vars
  PROVE  BridgeInvariant' /\ \A p \in Peers : Forward(p)
<1>1. \A p \in Peers : local[p].tick \in Nat
  BY DEF BridgeInvariant
<1>2. \A q \in Peers : local'[q] = local[q] => Forward(q)
  BY <1>1 DEF Forward
<1>3. ASSUME NEW p \in Peers, LoadSnapshot(p)
      PROVE  BridgeInvariant' /\ \A q \in Peers : Forward(q)
  BY <1>2, <1>3, LoadKeepsBridge DEF Forward
<1>4. ASSUME NEW p \in Peers, LoadAfterReport(p) \/ ReportFails(p) \/ LoadFails(p)
      PROVE  BridgeInvariant' /\ \A q \in Peers : Forward(q)
  <2>1. CASE LoadAfterReport(p) \/ ReportFails(p)
    BY <1>2, <2>1, EndedReportKeepsBridge DEF Forward
  <2>2. CASE LoadFails(p)
    <3>1. /\ toPeer[p] # <<>> /\ toPeer' = [toPeer EXCEPT ![p] = Tail(@)]
          /\ UNCHANGED <<tick, local, restored, reporting>>
      BY <2>2 DEF LoadFails, ReceivedSnapshot
    <3> QED BY <1>2, <3>1, TailsKeepBridge
  <2> QED BY <1>4, <2>1, <2>2
<1>5. ASSUME NEW p \in Peers, Predict(p)
      PROVE  BridgeInvariant' /\ \A q \in Peers : Forward(q)
  BY <1>5, PredictKeepsBridge DEF Forward
<1>6. ASSUME NEW p \in Peers, ReportMismatch(p)
      PROVE  BridgeInvariant' /\ \A q \in Peers : Forward(q)
  <2>1. UNCHANGED local
    BY <1>6 DEF ReportMismatch
  <2> QED BY <1>2, <1>6, <2>1, ReportKeepsBridge
<1>7. CASE RoomNext
  BY <1>2, <1>3, <1>4, <1>5, <1>6, <1>7, RoomsKeepBridge
<1>8. ASSUME UNCHANGED bridges PROVE \A q \in Peers : Forward(q)
  BY <1>2, <1>8 DEF bridges
<1>9. CASE ChunkNext /\ UNCHANGED bridges
  BY <1>8, <1>9, ChunksKeepBridge
<1>10. ASSUME NEW p \in Peers, UNCHANGED bridges, Open(p) \/ LoseInput(p) \/ Close(p) \/ Damage(p)
       PROVE  BridgeInvariant' /\ \A q \in Peers : Forward(q)
  BY <1>8, <1>10, FaultsKeepBridge
<1>11. CASE UNCHANGED vars
  <2>1. UNCHANGED <<tick, toPeer, local, restored, reporting, bridges>>
    BY <1>11 DEF vars, carriers, bridges
  <2> QED BY <1>8, <2>1, PacketsKeepBridge DEF BridgeInvariant
<1> QED BY <1>4, <1>7, <1>9, <1>10, <1>11 DEF Next

\* Only a handler that waited for its report takes a peer behind a tick it was restored to,
\* whatever is published, corrected, damaged or lost when carriers close.
THEOREM LoadsAlwaysGoForward ==
  Spec => LoadsGoForward
<1>1. SessionInvariant /\ BridgeInvariant /\ [Next]_vars => BridgeInvariant'
  BY StepKeepsBridge
<1>2. SessionInvariant /\ BridgeInvariant /\ [Next]_vars =>
        [\A p \in Peers : local'[p].tick >= restored[p] \/ local'[p].tick >= local[p].tick
                          \/ Len(reporting'[p]) < Len(reporting[p])]_bridges
  BY StepKeepsBridge DEF Forward
<1> QED BY <1>1, <1>2, BridgeStartsInvariant, SessionInvariantHolds, PTL
        DEF Spec, LoadsGoForward

=============================================================================
