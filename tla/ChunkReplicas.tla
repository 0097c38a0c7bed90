---------------------------- MODULE ChunkReplicas ----------------------------
(***************************************************************************)
(* What chunk sync promises to the game of a peer: each replica of a chunk *)
(* is a revision the host had, and when applying ends at once, it moves    *)
(* only to newer ones.  Queues, carriers, acknowledgements and resends are *)
(* how.                                                                    *)
(***************************************************************************)
EXTENDS Integers

CONSTANTS Peers, Chunks

VARIABLES
  inOrder,   \* whether applying a delta ends before the next one is received
  revision,  \* revision[c]: the revision of the chunk at the host
  replica    \* replica[p][c]: the revision of the chunk at the peer

Init ==
  /\ inOrder \in BOOLEAN
  /\ revision = [c \in Chunks |-> 0]
  /\ replica = [p \in Peers |-> [c \in Chunks |-> 0]]

Commit(c) ==
  /\ revision' = [revision EXCEPT ![c] = @ + 1]
  /\ UNCHANGED <<inOrder, replica>>

Receive(p, c) ==
  /\ \E r \in 1..revision[c] :
       /\ inOrder => r >= replica[p][c]
       /\ replica' = [replica EXCEPT ![p][c] = r]
  /\ UNCHANGED <<inOrder, revision>>

Next ==
  \/ \E c \in Chunks : Commit(c)
  \/ \E p \in Peers, c \in Chunks : Receive(p, c)

Spec == Init /\ [][Next]_<<inOrder, revision, replica>>
=============================================================================
