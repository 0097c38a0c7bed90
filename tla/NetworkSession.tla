---------------------------- MODULE NetworkSession ----------------------------
(***************************************************************************)
(* A session of a host and its peers: the room bridge and chunk sync over  *)
(* one carrier per peer.  Snapshots, hash reports, deltas and              *)
(* acknowledgements share the reliable channel; onChunkPacket of either    *)
(* bridge hands the chunk packets on.                                      *)
(***************************************************************************)
EXTENDS RoomBridge, ChunkSync

vars == <<game, faults, carriers, bridges, chunkVars>>

Init == TransportInit /\ BridgeInit /\ ChunkInit

RoomNext ==
  \/ Advance
  \/ \E p \in Peers :
       \/ ReceiveHandshake(p)
       \/ ReceiveInput(p)
       \/ ReceiveHashReport(p)
       \/ PublishSnapshot(p)
       \/ Predict(p)
       \/ SendInput(p)
       \/ LoadSnapshot(p)
       \/ ReportMismatch(p)
       \/ RefuseReport(p)
       \/ LoadAfterReport(p)

\* The game publishes to any of the peers of peerIds(), and resends.  Of a peer that
\* is not admitted the bridge refuses chunk packets; the reliable channel carries its
\* hello first, so there are none.
ChunkNext ==
  \/ \E c \in Chunks : CommitChunk(c)
  \/ \E peers \in (SUBSET admitted) \ {{}}, chunks \in (SUBSET Chunks) \ {{}} :
       (\A p \in peers : Uncrowded(p)) /\ Publish(peers, chunks)
  \/ \E p \in Peers :
       \/ Uncrowded(p) /\ Resend(p)
       \/ ReceiveAck(p)
       \/ RefuseDelta(p)
       \/ ApplyDelta(p)
       \/ StartApply(p)
       \/ EndApply(p)

Next ==
  \/ RoomNext /\ UNCHANGED <<game, faults, chunkVars>>
  \/ ChunkNext /\ UNCHANGED <<game, faults, bridges>>
  \/ \E p \in Peers : (Open(p) \/ LoseInput(p)) /\ UNCHANGED <<game, faults, bridges, chunkVars>>
  \/ \E p \in Peers : (Close(p) \/ Damage(p)) /\ UNCHANGED <<game, bridges, chunkVars>>
  \/ \E p \in Peers : (ReportFails(p) \/ LoadFails(p)) /\ UNCHANGED <<game, chunkVars>>

Spec == Init /\ [][Next]_vars

-----------------------------------------------------------------------------
\* Packets on an open carrier arrive, promises settle, and the game reconnects a peer,
\* publishes snapshots and resends deltas again and again; nothing else must happen.
HostReceives(p) ==
  \/ (ReceiveHandshake(p) \/ ReceiveHashReport(p)) /\ UNCHANGED <<game, faults, chunkVars>>
  \/ ReceiveAck(p) /\ UNCHANGED <<game, faults, bridges>>

PeerReceives(p) ==
  \/ (LoadSnapshot(p) \/ ReportMismatch(p) \/ RefuseReport(p))
     /\ UNCHANGED <<game, faults, chunkVars>>
  \/ (RefuseDelta(p) \/ ApplyDelta(p) \/ StartApply(p)) /\ UNCHANGED <<game, faults, bridges>>

Fairness ==
  \A p \in Peers :
    /\ WF_vars(HostReceives(p)) /\ WF_vars(PeerReceives(p))
    /\ WF_vars(LoadAfterReport(p) /\ UNCHANGED <<game, faults, chunkVars>>)
    /\ WF_vars(EndApply(p) /\ UNCHANGED <<game, faults, bridges>>)
    /\ WF_vars(Open(p) /\ UNCHANGED <<game, faults, bridges, chunkVars>>)
    /\ WF_vars(PublishSnapshot(p) /\ UNCHANGED <<game, faults, chunkVars>>)
    /\ SF_vars(Uncrowded(p) /\ Resend(p)
               /\ UNCHANGED <<game, faults, bridges>>)

FairSpec == Spec /\ Fairness

-----------------------------------------------------------------------------
TypeOK == BridgeTypeOK /\ ChunkTypeOK

Replicas == INSTANCE ChunkReplicas WITH inOrder <- "waits" \notin game

\* The replicas of the peers are the ones ChunkReplicas promises: every step of the
\* session moves one of them forward, or to a revision the host had when applying
\* waits, commits a revision, or changes none (chunk-sync.ts).
ImplementsReplicas == Replicas!Spec
=============================================================================
