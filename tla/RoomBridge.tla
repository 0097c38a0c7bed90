------------------------------ MODULE RoomBridge ------------------------------
(***************************************************************************)
(* hosts/browser/src/network/room-bridge.ts: HostedRoomBridge between the  *)
(* carriers and the authoritative room, and RemoteRoomClientBridge beside  *)
(* the runtime of a peer, which predicts ticks and is restored from the    *)
(* snapshots of the host.                                                  *)
(*                                                                         *)
(* The room (LoopbackRoom) has one state per tick, so the hash of a peer   *)
(* is right or wrong: a sample is a tick and whether the peer agrees with  *)
(* the host about it.  What room.connect and room.submit_input refuse is   *)
(* in LoopbackRoom; a peer never sends the kinds only a host may send.     *)
(*                                                                         *)
(* A handler runs to its first await that really waits: the host's have    *)
(* none before their effects, and a peer's has one, between reporting a    *)
(* divergence and loading the snapshot (Reporting).                        *)
(***************************************************************************)
EXTENDS Transport

CONSTANTS
  HistoryTicks,  \* historyTicks of both bridges
  MaxTick,       \* bound on the ticks of the host and of the predictions
  MaxInputs,     \* bound on the inputs a peer sends
  MaxInFlight    \* bound on the packets and reports of a peer when more is published

ASSUME BridgeAssumption ==
  /\ HistoryTicks \in 1..255
  /\ {MaxTick, MaxInputs, MaxInFlight} \subseteq Nat

VARIABLES
  admitted,   \* the keys of HostedRoomBridge.clients
  tick,       \* the tick of the room
  history,    \* HostedRoomBridge.history: samples in insertion order
  inputs,     \* inputs[p]: sequences submitted to the room for its next tick
  local,      \* local[p]: the tick of the peer's runtime, and whether it agrees
  recorded,   \* RemoteRoomClientBridge.history: samples in insertion order
  reporting,  \* reporting[p]: ticks of the snapshots whose handlers wait for a report
  restored    \* history: restored[p] is the highest tick the peer was restored to

bridges == <<admitted, tick, history, inputs, local, recorded, reporting, restored>>

Samples == [tick : 0..MaxTick, agrees : BOOLEAN]

HostSample(t) == [tick |-> t, agrees |-> TRUE]

BridgeInit ==
  /\ admitted = {}
  /\ tick = 0
  /\ history = <<HostSample(0)>>
  /\ inputs = [p \in Peers |-> {}]
  /\ local = [p \in Peers |-> HostSample(0)]
  /\ recorded = [p \in Peers |-> IF "records" \in game THEN <<HostSample(0)>> ELSE <<>>]
  /\ reporting = [p \in Peers |-> <<>>]
  /\ restored = [p \in Peers |-> 0]

\* Map.set keeps the place of a key it already has; the oldest insertion goes first.
Remember(samples, sample) ==
  LET known == {i \in DOMAIN samples : samples[i].tick = sample.tick}
      longer == Append(samples, sample)
  IN IF known # {} THEN [i \in DOMAIN samples |-> IF i \in known THEN sample ELSE samples[i]]
     ELSE IF Len(longer) > HistoryTicks THEN Tail(longer) ELSE longer

Snapshot == [kind |-> "snapshot", tick |-> tick]

\* The bound on what a peer and the host have still to do for one another when the
\* host publishes more.
Uncrowded(p) ==
  Len(toPeer[p]) + Len(toHost[p]) + Len(reporting[p]) < MaxInFlight

-----------------------------------------------------------------------------
(* HostedRoomBridge *)

ReceivedHello(p) == toHost[p] # <<>> /\ Head(toHost[p]).kind = "handshake"

\* Another handshake of a known peer only sends it a fresh snapshot.
ReceiveHandshake(p) ==
  /\ ReceivedHello(p)
  /\ admitted' = admitted \union {p}
  /\ toHost' = [toHost EXCEPT ![p] = Tail(@)]
  /\ toPeer' = SentTo(toPeer, p, Snapshot)
  /\ UNCHANGED <<open, realtime>>
  /\ UNCHANGED <<tick, history, inputs, local, recorded, reporting, restored>>

\* An input of a peer that has not been admitted is NETWORK_CLIENT_UNKNOWN.
ReceiveInput(p) ==
  /\ \E sequence \in realtime[p] :
       /\ realtime' = [realtime EXCEPT ![p] = @ \ {sequence}]
       /\ inputs' = IF p \in admitted THEN [inputs EXCEPT ![p] = @ \union {sequence}]
                    ELSE inputs
  /\ UNCHANGED <<open, toPeer, toHost>>
  /\ UNCHANGED <<admitted, tick, history, local, recorded, reporting, restored>>

\* findFirstDivergence: a tick the host no longer remembers tells nothing.
Diverges(samples) ==
  \E i \in DOMAIN samples, j \in DOMAIN history :
    samples[i].tick = history[j].tick /\ samples[i].agrees # history[j].agrees

\* Defect: the correction is the snapshot remembered for the first divergent tick.
CorrectionFromHistory(samples) ==
  LET first == CHOOSE i \in DOMAIN samples :
                 /\ ~samples[i].agrees
                 /\ \A j \in 1..(i - 1) : samples[j].agrees
  IN [kind |-> "snapshot", tick |-> samples[first].tick]

\* The room's snapshot of the moment, whichever tick diverged.
Correction(samples) == Snapshot

ReceivedReport(p) == toHost[p] # <<>> /\ Head(toHost[p]).kind = "correction"

ReceiveHashReport(p) ==
  /\ ReceivedReport(p)
  /\ toHost' = [toHost EXCEPT ![p] = Tail(@)]
  /\ LET samples == Head(toHost[p]).samples IN
     toPeer' = IF p \in admitted /\ Diverges(samples)
               THEN SentTo(toPeer, p, Correction(samples)) ELSE toPeer
  /\ UNCHANGED <<open, realtime>>
  /\ UNCHANGED bridges

\* Bound: a session about chunks stays in one tick, and its snapshots are published.
\* Every admitted peer is sent the snapshot; a carrier that is closed makes the
\* promise of advance reject, with the tick committed all the same.
Advance ==
  /\ tick < MaxTick /\ "chunks" \notin game
  /\ \A p \in admitted : Uncrowded(p)
  /\ tick' = tick + 1
  /\ history' = Remember(history, HostSample(tick + 1))
  /\ inputs' = [p \in Peers |-> {}]
  /\ toPeer' = Sent(toPeer, admitted, [p \in Peers |-> <<[kind |-> "snapshot", tick |-> tick + 1]>>])
  /\ UNCHANGED <<open, toHost, realtime>>
  /\ UNCHANGED <<admitted, local, recorded, reporting, restored>>

PublishSnapshot(p) ==
  /\ p \in admitted /\ Uncrowded(p)
  /\ toPeer' = SentTo(toPeer, p, Snapshot)
  /\ UNCHANGED <<open, toHost, realtime>>
  /\ UNCHANGED bridges

-----------------------------------------------------------------------------
(* RemoteRoomClientBridge and the game beside it *)

\* The peer's runtime predicts a tick; once it disagrees with the host, it keeps
\* disagreeing.
Predict(p) ==
  /\ "predicts" \in game
  /\ local[p].tick < MaxTick
  /\ \E agrees \in {FALSE, local[p].agrees} :
       local' = [local EXCEPT ![p] = [tick |-> @.tick + 1, agrees |-> agrees]]
  /\ recorded' = IF "records" \in game THEN [recorded EXCEPT ![p] = Remember(@, local'[p])]
                 ELSE recorded
  /\ UNCHANGED <<admitted, tick, history, inputs, reporting, restored>>
  /\ UNCHANGED carriers

SendInput(p) ==
  /\ "inputs" \in game /\ p \in open
  /\ \E sequence \in 1..MaxInputs :
       /\ sequence \notin realtime[p] \union inputs[p]
       /\ realtime' = [realtime EXCEPT ![p] = @ \union {sequence}]
  /\ UNCHANGED <<open, toPeer, toHost>>
  /\ UNCHANGED bridges

\* encodeNetworkHashReport takes samples in strict order of their ticks.
InOrder(samples) ==
  \A i \in 1..(Len(samples) - 1) : samples[i].tick < samples[i + 1].tick

\* What loadSave and the last recordLocalState leave of a peer.
Restore(p, t, samples) ==
  /\ local' = [local EXCEPT ![p] = HostSample(t)]
  /\ recorded' = [recorded EXCEPT ![p] = Remember(samples, HostSample(t))]
  /\ restored' = [restored EXCEPT ![p] = IF @ < t THEN t ELSE @]

ReceivedSnapshot(p) == toPeer[p] # <<>> /\ Head(toPeer[p]).kind = "snapshot"

Mismatch(p, t) == local[p].tick = t /\ ~local[p].agrees

Reported(p, t) ==
  SelectSeq(Remember(recorded[p], local[p]), LAMBDA sample : sample.tick <= t)

\* Defect: a peer ahead of the host takes the snapshot for an old one.
LoadNewerSnapshot(p) ==
  /\ ReceivedSnapshot(p)
  /\ LET t == Head(toPeer[p]).tick IN
     /\ ~Mismatch(p, t)
     /\ IF t < local[p].tick THEN UNCHANGED <<local, recorded, restored>>
        ELSE Restore(p, t, Remember(recorded[p], local[p]))
  /\ toPeer' = [toPeer EXCEPT ![p] = Tail(@)]
  /\ UNCHANGED <<open, toHost, realtime>>
  /\ UNCHANGED <<admitted, tick, history, inputs, reporting>>

\* A snapshot that does not contradict the peer is loaded at once.
LoadSnapshot(p) ==
  /\ ReceivedSnapshot(p)
  /\ LET t == Head(toPeer[p]).tick IN
     /\ ~Mismatch(p, t)
     /\ Restore(p, t, Remember(recorded[p], local[p]))
  /\ toPeer' = [toPeer EXCEPT ![p] = Tail(@)]
  /\ UNCHANGED <<open, toHost, realtime>>
  /\ UNCHANGED <<admitted, tick, history, inputs, reporting>>

\* One that does is reported first, and its handler waits for the report.  Until one
\* is loaded, the correction of each report is reported again, so MaxInFlight bounds
\* the handlers that wait.
ReportMismatch(p) ==
  /\ ReceivedSnapshot(p) /\ Len(reporting[p]) < MaxInFlight
  /\ LET t == Head(toPeer[p]).tick
         samples == Reported(p, t)
     IN /\ Mismatch(p, t) /\ InOrder(samples)
        /\ toHost' = SentTo(toHost, p, [kind |-> "correction", samples |-> samples])
        /\ reporting' = [reporting EXCEPT ![p] = Append(@, t)]
  /\ recorded' = [recorded EXCEPT ![p] = Remember(@, local[p])]
  /\ toPeer' = [toPeer EXCEPT ![p] = Tail(@)]
  /\ UNCHANGED <<open, realtime>>
  /\ UNCHANGED <<admitted, tick, history, inputs, local, restored>>

\* Samples out of order end the handler with NETWORK_PAYLOAD_INVALID: nothing is
\* reported and nothing is loaded.
RefuseReport(p) ==
  /\ ReceivedSnapshot(p)
  /\ LET t == Head(toPeer[p]).tick IN
     Mismatch(p, t) /\ ~InOrder(Reported(p, t))
  /\ recorded' = [recorded EXCEPT ![p] = Remember(@, local[p])]
  /\ toPeer' = [toPeer EXCEPT ![p] = Tail(@)]
  /\ UNCHANGED <<open, toHost, realtime>>
  /\ UNCHANGED <<admitted, tick, history, inputs, local, reporting, restored>>

\* The report was sent and the observer told: the snapshot is loaded, whatever was
\* loaded meanwhile.
LoadAfterReport(p) ==
  /\ \E i \in DOMAIN reporting[p] :
       /\ Restore(p, reporting[p][i], recorded[p])
       /\ reporting' = [reporting EXCEPT ![p] = RemoveAt(@, i)]
  /\ UNCHANGED <<admitted, tick, history, inputs>>
  /\ UNCHANGED carriers

\* loadSave rejects the archive, and with it the handler, NETWORK_SNAPSHOT_INVALID: the
\* peer has recorded where it is, and stays there.
LoadFails(p) ==
  /\ ReceivedSnapshot(p) /\ ~Mismatch(p, Head(toPeer[p]).tick)
  /\ faults < MaxFaults
  /\ recorded' = [recorded EXCEPT ![p] = Remember(@, local[p])]
  /\ toPeer' = [toPeer EXCEPT ![p] = Tail(@)]
  /\ faults' = faults + 1
  /\ UNCHANGED <<open, toHost, realtime>>
  /\ UNCHANGED <<admitted, tick, history, inputs, local, reporting, restored>>

\* The send, onDivergence or loadSave rejects, and with it the handler that reported:
\* nothing is loaded.
ReportFails(p) ==
  /\ faults < MaxFaults
  /\ \E i \in DOMAIN reporting[p] : reporting' = [reporting EXCEPT ![p] = RemoveAt(@, i)]
  /\ faults' = faults + 1
  /\ UNCHANGED <<admitted, tick, history, inputs, local, recorded, restored>>
  /\ UNCHANGED carriers

-----------------------------------------------------------------------------
(* Properties *)

BridgeTypeOK ==
  /\ admitted \subseteq Peers
  /\ tick \in 0..MaxTick
  /\ history \in Seq(Samples) /\ Len(history) \in 1..HistoryTicks
  /\ inputs \in [Peers -> SUBSET (1..MaxInputs)]
  /\ local \in [Peers -> Samples]
  /\ recorded \in [Peers -> Seq(Samples)]
  /\ \A p \in Peers : Len(recorded[p]) <= HistoryTicks
  /\ reporting \in [Peers -> Seq(0..MaxTick)]
  /\ restored \in [Peers -> 0..MaxTick]

\* A peer goes back behind a tick it was restored to only in a handler that waited for
\* its hash report: every other snapshot it loads, corrections of earlier divergences
\* included, is at least as late as those before it (RemoteRoomClientBridge.receive,
\* HostedRoomBridge.sendSnapshot).
LoadsGoForward ==
  [][\A p \in Peers : local'[p].tick >= restored[p] \/ local'[p].tick >= local[p].tick
                      \/ Len(reporting'[p]) < Len(reporting[p])]_bridges

\* A peer that has lost the state of the host gets it back for as long as the host
\* publishes (reports and corrections of room-bridge.ts), whatever is reported, lost or
\* overtaken meanwhile and however often a load fails, if not for ever; unless what it
\* remembers has come out of order.
DivergenceIsCorrected ==
  \A p \in Peers :
    p \in admitted /\ ~local[p].agrees
      ~> local[p].agrees \/ ~InOrder(Reported(p, local[p].tick))
=============================================================================
