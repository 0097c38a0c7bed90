------------------------------ MODULE ChunkSync ------------------------------
(***************************************************************************)
(* hosts/browser/src/network/chunk-sync.ts: HostedChunkSync keeps, for each*)
(* peer, the deltas it has not acknowledged, a bounded number of them and  *)
(* one per chunk; RemoteChunkSync applies a delta whose fingerprint is     *)
(* right and acknowledges it.                                              *)
(*                                                                         *)
(* The content of a chunk is its revision: fingerprints cover both.  The   *)
(* apply callback is the game's and may be a promise ("waits"); then      *)
(* another delta may be received, and applied, before it ends.             *)
(***************************************************************************)
EXTENDS Transport

CONSTANTS
  Chunks,            \* the keys of the chunks the session touches
  MaxPendingDeltas,  \* maximumPendingDeltas
  MaxCommits         \* bound on the changes of chunks that are committed

ASSUME ChunkAssumption ==
  /\ IsFiniteSet(Chunks)
  /\ MaxPendingDeltas \in 1..1024
  /\ MaxCommits \in Nat

VARIABLES
  revision,   \* revision[c]: how often the runtime committed a change to the chunk
  pending,    \* pending[p][c]: the revision p has to acknowledge, 0 when there is none
  replica,    \* replica[p][c]: the revision last applied by p, 0 when there is none
  applying,   \* applying[p]: the deltas whose apply has not ended
  offered,    \* history: offered[p][c] is the last revision published to p
  applied,    \* history: applied[p] are the <<c, r>> that p ever applied
  misread     \* history: misread[p] are the <<c, r>> that p refused though they
              \* came whole, for the fingerprint beside them

chunkVars == <<revision, pending, replica, applying, offered, applied, misread>>

Nothing == [c \in Chunks |-> 0]

ChunkInit ==
  /\ revision = Nothing
  /\ pending = [p \in Peers |-> Nothing]
  /\ replica = [p \in Peers |-> Nothing]
  /\ applying = [p \in Peers |-> {}]
  /\ offered = [p \in Peers |-> Nothing]
  /\ applied = [p \in Peers |-> {}]
  /\ misread = [p \in Peers |-> {}]

Delta(c, r) ==
  [kind |-> "delta", chunk |-> c, revision |-> r, intact |-> TRUE, declared |-> TRUE]

\* matches: whether the acknowledged fingerprint is the one of that revision.
Ack(c, r, matches) == [kind |-> "ack", chunk |-> c, revision |-> r, matches |-> matches]

\* The runtime commits an overlay of a chunk in a tick.
CommitChunk(c) ==
  /\ "chunks" \in game
  /\ FoldFunction(+, 0, revision) < MaxCommits
  /\ revision' = [revision EXCEPT ![c] = @ + 1]
  /\ UNCHANGED <<pending, replica, applying, offered, applied, misread>>
  /\ UNCHANGED carriers

PendingChunks(p) == {c \in Chunks : pending[p][c] # 0}

\* A publication that would not fit the queue of one of its peers is refused as a
\* whole, with NETWORK_CHUNK_DELTA_BACKLOG, before any queue changes.
FitsBacklog(peers, chunks) ==
  \A p \in peers : Cardinality(PendingChunks(p) \union chunks) <= MaxPendingDeltas

\* Defect: the delta already queued for a chunk stays until it is acknowledged.
QueuedOnce(peers, chunks) ==
  [p \in Peers |-> [c \in Chunks |-> IF p \in peers /\ c \in chunks /\ pending[p][c] = 0
                                     THEN revision[c] ELSE pending[p][c]]]

\* A newer revision takes the place of the pending one.
Queued(peers, chunks) ==
  [p \in Peers |-> [c \in Chunks |-> IF p \in peers /\ c \in chunks
                                     THEN revision[c] ELSE pending[p][c]]]

\* What cannot be sent stays pending, and publish reports it.
Publish(peers, chunks) ==
  /\ "chunks" \in game
  /\ \A c \in chunks : revision[c] > 0
  /\ FitsBacklog(peers, chunks)
  /\ pending' = Queued(peers, chunks)
  /\ offered' = [p \in Peers |-> [c \in Chunks |-> IF p \in peers /\ c \in chunks
                                                   THEN revision[c] ELSE offered[p][c]]]
  /\ toPeer' = Sent(toPeer, peers, [p \in Peers |-> [i \in 1..Cardinality(chunks) |->
                      LET c == SetToSeq(chunks)[i] IN Delta(c, revision[c])]])
  /\ UNCHANGED <<open, toHost, realtime>>
  /\ UNCHANGED <<revision, replica, applying, applied, misread>>

Resend(p) ==
  /\ PendingChunks(p) # {}
  /\ LET chunks == SetToSeq(PendingChunks(p)) IN
     toPeer' = Sent(toPeer, {p}, [q \in Peers |-> [i \in DOMAIN chunks |->
                 Delta(chunks[i], pending[p][chunks[i]])]])
  /\ UNCHANGED <<open, toHost, realtime>>
  /\ UNCHANGED chunkVars

\* Defect: an acknowledgement settles the chunk whatever revision it names.
SettlesChunk(p, ack) == pending[p][ack.chunk] # 0 /\ ack.matches

\* Only an acknowledgement of the pending revision, with its fingerprint, settles it:
\* another revision is NETWORK_CHUNK_ACK_UNKNOWN, another fingerprint a divergence.
Settles(p, ack) ==
  /\ pending[p][ack.chunk] # 0
  /\ pending[p][ack.chunk] = ack.revision
  /\ ack.matches

ReceivedAck(p) == toHost[p] # <<>> /\ Head(toHost[p]).kind = "ack"

ReceiveAck(p) ==
  /\ ReceivedAck(p)
  /\ LET ack == Head(toHost[p]) IN
     pending' = IF Settles(p, ack) THEN [pending EXCEPT ![p][ack.chunk] = 0] ELSE pending
  /\ toHost' = [toHost EXCEPT ![p] = Tail(@)]
  /\ UNCHANGED <<open, toPeer, realtime>>
  /\ UNCHANGED <<revision, replica, applying, offered, applied, misread>>

-----------------------------------------------------------------------------
(* RemoteChunkSync *)

ReceivedDelta(p) == toPeer[p] # <<>> /\ Head(toPeer[p]).kind = "delta"

\* The fingerprint of the bytes that came is the one that came with them.
Verified(delta) == delta.intact /\ delta.declared

\* It is not: nothing is applied, and what is acknowledged is the fingerprint of the
\* bytes that came, which is the host's when only the one beside them was damaged.
RefuseDelta(p) ==
  /\ ReceivedDelta(p) /\ ~Verified(Head(toPeer[p]))
  /\ LET delta == Head(toPeer[p]) IN
     /\ toHost' = SentTo(toHost, p, Ack(delta.chunk, delta.revision, delta.intact))
     /\ misread' = IF delta.intact
                   THEN [misread EXCEPT ![p] = @ \union {<<delta.chunk, delta.revision>>}]
                   ELSE misread
  /\ toPeer' = [toPeer EXCEPT ![p] = Tail(@)]
  /\ UNCHANGED <<open, realtime>>
  /\ UNCHANGED <<revision, pending, replica, applying, offered, applied>>

Apply(p, c, r) ==
  /\ replica' = [replica EXCEPT ![p][c] = r]
  /\ applied' = [applied EXCEPT ![p] = @ \union {<<c, r>>}]
  /\ toHost' = SentTo(toHost, p, Ack(c, r, TRUE))

\* Defect: a delta that was applied before is dropped without an acknowledgement.
ApplyNewDelta(p) ==
  /\ ReceivedDelta(p) /\ Verified(Head(toPeer[p]))
  /\ "waits" \notin game
  /\ LET delta == Head(toPeer[p]) IN
     IF <<delta.chunk, delta.revision>> \in applied[p]
     THEN UNCHANGED <<replica, applied, toHost>>
     ELSE Apply(p, delta.chunk, delta.revision)
  /\ toPeer' = [toPeer EXCEPT ![p] = Tail(@)]
  /\ UNCHANGED <<open, realtime>>
  /\ UNCHANGED <<revision, pending, applying, offered, misread>>

\* An apply that returns at once.
ApplyDelta(p) ==
  /\ ReceivedDelta(p) /\ Verified(Head(toPeer[p]))
  /\ "waits" \notin game
  /\ Apply(p, Head(toPeer[p]).chunk, Head(toPeer[p]).revision)
  /\ toPeer' = [toPeer EXCEPT ![p] = Tail(@)]
  /\ UNCHANGED <<open, realtime>>
  /\ UNCHANGED <<revision, pending, applying, offered, misread>>

\* An apply that waits, and may end after the ones that started later.
StartApply(p) ==
  /\ ReceivedDelta(p) /\ Verified(Head(toPeer[p]))
  /\ "waits" \in game
  /\ applying' = [applying EXCEPT ![p] =
                    @ \union {<<Head(toPeer[p]).chunk, Head(toPeer[p]).revision>>}]
  /\ toPeer' = [toPeer EXCEPT ![p] = Tail(@)]
  /\ UNCHANGED <<open, toHost, realtime>>
  /\ UNCHANGED <<revision, pending, replica, offered, applied, misread>>

EndApply(p) ==
  /\ \E delta \in applying[p] :
       /\ Apply(p, delta[1], delta[2])
       /\ applying' = [applying EXCEPT ![p] = @ \ {delta}]
  /\ UNCHANGED <<open, toPeer, realtime>>
  /\ UNCHANGED <<revision, pending, offered, misread>>

-----------------------------------------------------------------------------
(* Properties *)

Revisions == [Chunks -> Nat]

ChunkTypeOK ==
  /\ revision \in Revisions
  /\ pending \in [Peers -> Revisions]
  /\ replica \in [Peers -> Revisions]
  /\ applying \in [Peers -> SUBSET (Chunks \X Nat)]
  /\ offered \in [Peers -> Revisions]
  /\ applied \in [Peers -> SUBSET (Chunks \X Nat)]
  /\ misread \in [Peers -> SUBSET (Chunks \X Nat)]
  /\ \A p \in Peers : Cardinality(PendingChunks(p)) <= MaxPendingDeltas

\* What the host holds no longer for a peer, the peer has applied: a revision leaves
\* the queue of HostedChunkSync only once the peer acknowledged that very revision
\* with its fingerprint, through resends, closed carriers and overtaken applies.  The
\* exception is a delta whose fingerprint alone was damaged: RemoteChunkSync refuses
\* it, and its acknowledgement settles it all the same (chunk-sync.ts:293-295).
SettledIsApplied ==
  \A p \in Peers, c \in Chunks :
    offered[p][c] # 0 /\ pending[p][c] = 0 =>
      <<c, offered[p][c]>> \in applied[p] \union misread[p]

\* A delta that waits for its acknowledgement is settled in the end, by its own or a
\* newer revision's (HostedChunkSync.resend): closed carriers and damaged packets
\* only delay it.
PendingIsSettled ==
  \A p \in Peers, c \in Chunks : pending[p][c] # 0 ~> pending[p][c] = 0
=============================================================================
