----------------------------- MODULE KernelProofs -----------------------------
(***************************************************************************)
(* Theorems about what the kernel keeps above one runtime: the room that   *)
(* feeds peers' inputs to a host (LoopbackRoom), and the world whose       *)
(* chunks are generated and meshed by jobs (WorldRuntime).                 *)
(*                                                                         *)
(* The room: every input it took in is counted where it is, in the replay  *)
(* of the host, in the host's pending inputs, in a peer's queue, or among  *)
(* the dropped.  An advance moves the peers' queues to the host in one     *)
(* total order, and the host commits them all or keeps them all.           *)
(*                                                                         *)
(* The world, first its jobs: one that did not finish leaves one job of    *)
(* the same kind, chunk and sequence, and a generation that did finish     *)
(* leaves one meshing, with a sequence nobody had.  Then their order:      *)
(* worlds that differ in nothing but the sequences of their jobs, which    *)
(* no two jobs of a place need to tell apart, do the same work in a tick.  *)
(***************************************************************************)
EXTENDS LoopbackRoom, WorldRuntime, RuntimeCoreProofs, FiniteSetTheorems, SequenceTheorems, TLAPS

-----------------------------------------------------------------------------
(* Counting inputs *)

Places(action, inputs) == {i \in DOMAIN inputs : inputs[i].action = action}

LEMMA CountIsNatural ==
  ASSUME NEW S, NEW inputs \in Seq(S), NEW a
  PROVE  /\ IsFiniteSet(Places(a, inputs)) /\ Count(a, inputs) = Cardinality(Places(a, inputs))
         /\ Count(a, inputs) \in Nat
<1>1. PICK n \in Nat : DOMAIN inputs = 1..n
  BY LenProperties
<1>2. Places(a, inputs) \in SUBSET (1..n) /\ IsFiniteSet(1..n)
  BY <1>1, FS_Interval DEF Places
<1>3. Count(a, inputs) = Cardinality(Places(a, inputs))
  BY DEF Count, Places
<1> QED BY <1>2, <1>3, FS_Subset, FS_CardinalityType

LEMMA CountOfNothing ==
  ASSUME NEW a
  PROVE  Count(a, <<>>) = 0
<1>1. {i \in DOMAIN <<>> : <<>>[i].action = a} = {}
  BY NothingIsSeq
<1> QED BY <1>1, FS_EmptySet DEF Count

LEMMA CountOfJoined ==
  ASSUME NEW S, NEW s \in Seq(S), NEW t \in Seq(S), NEW a
  PROVE  Count(a, s \o t) = Count(a, s) + Count(a, t)
<1> DEFINE both == s \o t
<1>1. PICK m \in Nat, n \in Nat :
        /\ DOMAIN s = 1..m /\ DOMAIN t = 1..n /\ DOMAIN both = 1..(m + n)
        /\ \A i \in 1..m : both[i] = s[i]
        /\ \A i \in 1..n : both[m + i] = t[i]
  <2>1. /\ Len(s) \in Nat /\ Len(t) \in Nat /\ DOMAIN s = 1..Len(s) /\ DOMAIN t = 1..Len(t)
        /\ both \in Seq(S) /\ Len(both) = Len(s) + Len(t)
        /\ \A i \in 1..(Len(s) + Len(t)) :
             both[i] = IF i <= Len(s) THEN s[i] ELSE t[i - Len(s)]
    BY LenProperties, ConcatProperties
  <2>2. DOMAIN both = 1..(Len(s) + Len(t))
    BY <2>1, LenProperties
  <2> HIDE DEF both
  <2>3. \A i \in 1..Len(s) : both[i] = s[i]
    BY <2>1
  <2>4. \A i \in 1..Len(t) : both[Len(s) + i] = t[i]
    BY <2>1
  <2> QED BY <2>1, <2>2, <2>3, <2>4
<1> HIDE DEF both
<1> DEFINE A == Places(a, s)
           B == Places(a, t)
           C == {i \in (m + 1)..(m + n) : both[i].action = a}
           f == [i \in B |-> m + i]
<1>2. Places(a, both) = A \cup C /\ A \cap C = {}
  BY <1>1 DEF Places
<1>3. IsFiniteSet(A) /\ IsFiniteSet(B) /\ Cardinality(A) \in Nat /\ Cardinality(B) \in Nat
  BY CountIsNatural
<1>4. f \in Bijection(B, C)
  <2>1. \A i \in B : i \in 1..n /\ m + i \in C
    BY <1>1 DEF Places
  <2>2. \A i \in C : i - m \in B /\ m + (i - m) = i
    BY <1>1 DEF Places
  <2>3. \A i, j \in B : m + i = m + j => i = j
    BY <2>1
  <2> HIDE DEF B, C
  <2>4. f \in [B -> C] /\ \A i \in B : f[i] = m + i
    BY <2>1
  <2>5. f \in Injection(B, C)
    BY <2>3, <2>4 DEF Injection, IsInjective
  <2>6. f \in Surjection(B, C)
    BY <2>2, <2>4 DEF Surjection
  <2> QED BY <2>5, <2>6 DEF Bijection
<1>5. IsFiniteSet(C) /\ Cardinality(C) = Cardinality(B)
  <2> HIDE DEF B, C, f
  <2> QED BY <1>3, <1>4, FS_Bijection DEF ExistsBijection
<1>6. Cardinality(A \cup C) = Cardinality(A) + Cardinality(B)
  <2> HIDE DEF A, B, C
  <2>1. Cardinality(A \cup C) = Cardinality(A) + Cardinality(C) - Cardinality({})
    BY <1>2, <1>3, <1>5, FS_Union
  <2> QED BY <1>3, <1>5, <2>1, FS_EmptySet
<1>7. Count(a, s) = Cardinality(A) /\ Count(a, t) = Cardinality(B)
  BY CountIsNatural
<1>8. Count(a, both) = Cardinality(Places(a, both))
  BY DEF Count, Places
<1> QED BY <1>2, <1>6, <1>7, <1>8 DEF both

-----------------------------------------------------------------------------
(* The order of host sequences *)

Increasing(inputs, next) ==
  /\ \A i, j \in DOMAIN inputs : i < j => inputs[i].sequence < inputs[j].sequence
  /\ \A i \in DOMAIN inputs : inputs[i].sequence < next

\* Inputs numbered from the next sequence on keep the order.
LEMMA NumberedKeepOrder ==
  ASSUME NEW s \in Seq(LogicalInputs), NEW t \in Seq(LogicalInputs), NEW next \in Nat, NEW used \in Nat,
         Increasing(s, next), Len(t) <= used,
         \A i \in 1..Len(t) : t[i].sequence = next + i - 1
  PROVE  Increasing(s \o t, next + used)
<1> DEFINE both == s \o t
<1>1. PICK m \in Nat, n \in Nat :
        /\ m = Len(s) /\ n = Len(t) /\ DOMAIN s = 1..m /\ DOMAIN both = 1..(m + n)
        /\ \A i \in 1..(m + n) : both[i] = IF i <= m THEN s[i] ELSE t[i - m]
  BY LenProperties, ConcatProperties
<1>2. \A i \in 1..m : s[i].sequence \in Nat /\ s[i].sequence < next
  <2>1. \A i \in 1..m : s[i] \in LogicalInputs
    BY <1>1
  <2> QED BY <1>1, <2>1 DEF Increasing, LogicalInputs
<1> HIDE DEF both
<1>3. \A i \in 1..m : both[i].sequence = s[i].sequence
  BY <1>1
<1>4. \A i \in (m + 1)..(m + n) : both[i].sequence = next + (i - m) - 1
  <2>1. \A i \in (m + 1)..(m + n) : i - m \in 1..n /\ both[i] = t[i - m]
    BY <1>1
  <2>2. \A k \in 1..n : t[k].sequence = next + k - 1
    BY <1>1
  <2> QED BY <2>1, <2>2
<1>5. \A i, j \in 1..m : i < j => s[i].sequence < s[j].sequence
  BY <1>1 DEF Increasing
<1>6. \A i \in 1..(m + n) : i \in 1..m \/ i \in (m + 1)..(m + n)
  OBVIOUS
<1>7. \A i \in 1..(m + n) : both[i].sequence < next + used
  BY <1>1, <1>2, <1>3, <1>4, <1>6
<1>8. ASSUME NEW i \in 1..(m + n), NEW j \in 1..(m + n), i < j
      PROVE  both[i].sequence < both[j].sequence
  <2>1. CASE i \in 1..m /\ j \in 1..m
    BY <1>3, <1>5, <1>8, <2>1
  <2>2. CASE i \in 1..m /\ j \in (m + 1)..(m + n)
    BY <1>2, <1>3, <1>4, <2>2
  <2>3. CASE i \in (m + 1)..(m + n) /\ j \in (m + 1)..(m + n)
    BY <1>4, <1>8, <2>3
  <2> QED BY <1>6, <1>8, <2>1, <2>2, <2>3
<1> QED BY <1>1, <1>7, <1>8 DEF Increasing, both

\* The pending inputs of a host whose sequences increase are in order already.
LEMMA IncreasingEnds ==
  ASSUME NEW s \in Seq(LogicalInputs), NEW t \in Seq(LogicalInputs), NEW next, Increasing(s \o t, next)
  PROVE  SortedInputs(t) = t /\ Increasing(s, next)
<1> DEFINE both == s \o t
<1>1. PICK m \in Nat, n \in Nat :
        /\ DOMAIN s = 1..m /\ DOMAIN t = 1..n /\ DOMAIN both = 1..(m + n)
        /\ m = Len(s) /\ n = Len(t)
        /\ \A i \in 1..(m + n) : both[i] = IF i <= m THEN s[i] ELSE t[i - m]
  BY LenProperties, ConcatProperties
<1> HIDE DEF both
<1>2. \A i \in 1..m : i \in 1..(m + n) /\ both[i] = s[i]
  BY <1>1
<1>3. \A i \in 1..n : m + i \in 1..(m + n) /\ both[m + i] = t[i]
  <2>1. \A i \in 1..n : m + i \in 1..(m + n) /\ ~(m + i <= m) /\ (m + i) - m = i
    OBVIOUS
  <2> QED BY <1>1, <2>1
<1>4. /\ \A i, j \in 1..(m + n) : i < j => both[i].sequence < both[j].sequence
      /\ \A i \in 1..(m + n) : both[i].sequence < next
  BY <1>1 DEF Increasing, both
<1>5. \A i, j \in 1..n : i < j => t[i].sequence < t[j].sequence
  <2>1. \A i, j \in 1..n : i < j => m + i < m + j
    OBVIOUS
  <2> QED BY <1>3, <1>4, <2>1
<1>6. Increasing(s, next)
  BY <1>1, <1>2, <1>4 DEF Increasing
<1> QED BY <1>1, <1>5, <1>6, IncreasingAreSorted

-----------------------------------------------------------------------------
(* The peers and their queues *)

Backlogs == {inputs \in Seq(ClientInputs) : Len(inputs) <= MaxClientInputs}

\* A peer that is not connected has nothing pending.
GoodClients ==
  {c \in [connected : BOOLEAN, pending : Backlogs] : c.connected \/ c.pending = <<>>}

Peers == {room \in Seq(GoodClients) : Len(room) <= MaxClients}

LEMMA ClientIsGood ==
  ASSUME NEW c \in GoodClients
  PROVE  /\ c = [connected |-> c.connected, pending |-> c.pending] /\ c.connected \in BOOLEAN
         /\ c.pending \in Seq(ClientInputs) /\ Len(c.pending) \in Nat
         /\ DOMAIN c.pending = 1..Len(c.pending) /\ Len(c.pending) <= MaxClientInputs
         /\ c.connected \/ c.pending = <<>>
<1>1. /\ c = [connected |-> c.connected, pending |-> c.pending] /\ c.connected \in BOOLEAN
      /\ c.pending \in Backlogs /\ (c.connected \/ c.pending = <<>>)
  <2> DEFINE B == Backlogs
  <2> HIDE DEF B
  <2>1. c \in [connected : BOOLEAN, pending : B]
    BY DEF GoodClients, B
  <2>2. /\ c = [connected |-> c.connected, pending |-> c.pending] /\ c.connected \in BOOLEAN
        /\ c.pending \in B
    BY <2>1
  <2> QED BY <2>2 DEF GoodClients, B
<1> QED BY <1>1, LenProperties DEF Backlogs

LEMMA PeersAreGood ==
  ASSUME NEW room \in Peers
  PROVE  /\ Len(room) \in Nat /\ DOMAIN room = 1..Len(room) /\ Len(room) <= MaxClients
         /\ \A id \in DOMAIN room : room[id] \in GoodClients
BY LenProperties DEF Peers

LEMMA IsQueuedAt ==
  ASSUME NEW room, NEW a, NEW q
  PROVE  q \in QueuedAt(room, a) <=>
           \E id \in DOMAIN room : \E i \in DOMAIN room[id].pending :
             q = <<id, i>> /\ room[id].pending[i].action = a
BY DEF QueuedAt

LEMMA QueuedIsFinite ==
  ASSUME NEW room \in Peers, NEW a
  PROVE  IsFiniteSet(QueuedAt(room, a)) /\ Cardinality(QueuedAt(room, a)) \in Nat
<1>1. QueuedAt(room, a) \in SUBSET ((1..MaxClients) \X (1..MaxClientInputs))
  <2> SUFFICES ASSUME NEW q \in QueuedAt(room, a)
               PROVE  q \in (1..MaxClients) \X (1..MaxClientInputs)
    OBVIOUS
  <2>1. PICK id \in DOMAIN room : \E i \in DOMAIN room[id].pending : q = <<id, i>>
    BY IsQueuedAt
  <2>2. PICK i \in DOMAIN room[id].pending : q = <<id, i>>
    BY <2>1
  <2>3. id \in 1..MaxClients
    BY PeersAreGood, RoomAssumption
  <2>4. i \in 1..MaxClientInputs
    <3>1. room[id] \in GoodClients
      BY PeersAreGood
    <3>2. /\ DOMAIN room[id].pending = 1..Len(room[id].pending) /\ Len(room[id].pending) \in Nat
          /\ Len(room[id].pending) <= MaxClientInputs
      BY <3>1, ClientIsGood
    <3> QED BY <3>2, RoomAssumption
  <2> QED BY <2>2, <2>3, <2>4
<1>2. IsFiniteSet((1..MaxClients) \X (1..MaxClientInputs))
  <2>1. MaxClients \in Int /\ MaxClientInputs \in Int
    BY RoomAssumption
  <2>2. IsFiniteSet(1..MaxClients) /\ IsFiniteSet(1..MaxClientInputs)
    BY <2>1, FS_Interval
  <2> QED BY <2>2, FS_Product
<1> QED BY <1>1, <1>2, FS_Subset, FS_CardinalityType

\* Where nothing is pending nothing is queued.
LEMMA NothingIsQueued ==
  ASSUME NEW room, \A id \in DOMAIN room : room[id].pending = <<>>, NEW a
  PROVE  QueuedAt(room, a) = {}
<1>1. DOMAIN <<>> = {}
  BY NothingIsSeq
<1>2. \A q : q \notin QueuedAt(room, a)
  BY <1>1, IsQueuedAt
<1> QED BY <1>2

LEMMA CountOfAppended ==
  ASSUME NEW S, NEW inputs \in Seq(S), NEW input \in S, NEW a
  PROVE  Count(a, Append(inputs, input)) =
           IF input.action = a THEN Count(a, inputs) + 1 ELSE Count(a, inputs)
<1> DEFINE more == Append(inputs, input)
           P == Places(a, inputs)
<1>1. PICK n \in Nat :
        /\ DOMAIN inputs = 1..n /\ DOMAIN more = 1..(n + 1)
        /\ more[n + 1] = input /\ \A i \in 1..n : more[i] = inputs[i]
  OBVIOUS
<1>2. IsFiniteSet(P) /\ Count(a, inputs) = Cardinality(P)
  BY CountIsNatural
<1>3. Count(a, more) = Cardinality(Places(a, more))
  BY DEF Count, Places
<1> HIDE DEF more
<1>4. Places(a, more) = IF input.action = a THEN P \cup {n + 1} ELSE P
  BY <1>1 DEF Places
<1>5. n + 1 \notin P
  BY <1>1 DEF Places
<1> HIDE DEF P
<1>6. Cardinality(P \cup {n + 1}) = Cardinality(P) + 1
  BY <1>2, <1>5, FS_AddElement
<1> QED BY <1>2, <1>3, <1>4, <1>6 DEF more

\* What is queued is queued by one peer or by the others.
ElsewhereQueued(room, id, a) == {q \in QueuedAt(room, a) : q[1] # id}

LEMMA QueuedIsSplit ==
  ASSUME NEW room \in Peers, NEW id \in DOMAIN room, NEW a
  PROVE  /\ Cardinality(ElsewhereQueued(room, id, a)) \in Nat
         /\ Cardinality(QueuedAt(room, a))
              = Cardinality(ElsewhereQueued(room, id, a)) + Count(a, room[id].pending)
<1> DEFINE Q == QueuedAt(room, a)
           E == ElsewhereQueued(room, id, a)
           P == Places(a, room[id].pending)
           H == {q \in Q : q[1] = id}
           f == [i \in P |-> <<id, i>>]
<1>1. room[id].pending \in Seq(ClientInputs)
  BY PeersAreGood, ClientIsGood
<1>2. IsFiniteSet(P) /\ Count(a, room[id].pending) = Cardinality(P) /\ Cardinality(P) \in Nat
  BY <1>1, CountIsNatural
<1>3. IsFiniteSet(Q)
  BY QueuedIsFinite
<1>4. Q = E \cup H /\ E \cap H = {} /\ E \in SUBSET Q
  BY DEF ElsewhereQueued
<1>5. IsFiniteSet(E) /\ Cardinality(E) \in Nat
  <2> HIDE DEF Q, E
  <2> QED BY <1>3, <1>4, FS_Subset, FS_CardinalityType
<1>6. f \in Bijection(P, H)
  <2>1. ASSUME NEW i \in P PROVE <<id, i>> \in H
    BY IsQueuedAt DEF Places
  <2>2. ASSUME NEW q \in H PROVE \E i \in P : q = <<id, i>>
    <3>1. PICK d \in DOMAIN room : \E i \in DOMAIN room[d].pending :
                 q = <<d, i>> /\ room[d].pending[i].action = a
      BY IsQueuedAt
    <3>2. d = id
      BY <3>1
    <3> QED BY <3>1, <3>2 DEF Places
  <2>3. \A i, j \in P : <<id, i>> = <<id, j>> => i = j
    OBVIOUS
  <2> HIDE DEF P, H
  <2>4. f \in [P -> H] /\ \A i \in P : f[i] = <<id, i>>
    BY <2>1
  <2>5. f \in Injection(P, H)
    BY <2>3, <2>4 DEF Injection, IsInjective
  <2>6. f \in Surjection(P, H)
    BY <2>2, <2>4 DEF Surjection
  <2> QED BY <2>5, <2>6 DEF Bijection
<1>7. IsFiniteSet(H) /\ Cardinality(H) = Cardinality(P)
  <2> HIDE DEF P, H, f
  <2> QED BY <1>2, <1>6, FS_Bijection DEF ExistsBijection
<1>8. Cardinality(E \cup H) = Cardinality(E) + Cardinality(H)
  <2> HIDE DEF Q, E, H, P
  <2>1. Cardinality(E \cup H) = Cardinality(E) + Cardinality(H) - Cardinality({})
    BY <1>4, <1>5, <1>7, FS_Union
  <2> QED BY <1>2, <1>5, <1>7, <2>1, FS_EmptySet
<1> QED BY <1>2, <1>4, <1>5, <1>7, <1>8

\* One peer changes.
LEMMA PeerChanges ==
  ASSUME NEW room \in Peers, NEW id \in DOMAIN room, NEW c \in GoodClients
  PROVE  LET after == [room EXCEPT ![id] = c]
         IN /\ after \in Peers /\ DOMAIN after = DOMAIN room
            /\ \A a : Cardinality(QueuedAt(after, a)) + Count(a, room[id].pending)
                        = Cardinality(QueuedAt(room, a)) + Count(a, c.pending)
<1> DEFINE after == [room EXCEPT ![id] = c]
<1>1. room \in Seq(GoodClients) /\ Len(room) <= MaxClients
  BY DEF Peers
<1>2. after \in Seq(GoodClients) /\ Len(after) = Len(room) /\ DOMAIN after = DOMAIN room
  BY <1>1
<1>3. after \in Peers
  BY <1>1, <1>2 DEF Peers
<1>4. after[id] = c /\ \A d \in DOMAIN room : d # id => after[d] = room[d]
  OBVIOUS
<1> HIDE DEF after
<1>5. ASSUME NEW a
      PROVE  Cardinality(QueuedAt(after, a)) + Count(a, room[id].pending)
               = Cardinality(QueuedAt(room, a)) + Count(a, c.pending)
  <2>1. ElsewhereQueued(after, id, a) = ElsewhereQueued(room, id, a)
    <3>1. ASSUME NEW q PROVE q \in ElsewhereQueued(after, id, a) <=> q \in ElsewhereQueued(room, id, a)
      <4>1. q \in ElsewhereQueued(after, id, a) <=>
              \E d \in DOMAIN room : d # id /\ \E i \in DOMAIN after[d].pending :
                q = <<d, i>> /\ after[d].pending[i].action = a
        BY <1>2, IsQueuedAt DEF ElsewhereQueued
      <4>2. q \in ElsewhereQueued(room, id, a) <=>
              \E d \in DOMAIN room : d # id /\ \E i \in DOMAIN room[d].pending :
                q = <<d, i>> /\ room[d].pending[i].action = a
        BY IsQueuedAt DEF ElsewhereQueued
      <4> QED BY <1>4, <4>1, <4>2
    <3> QED BY <3>1
  <2>2. /\ Cardinality(ElsewhereQueued(room, id, a)) \in Nat
        /\ Cardinality(QueuedAt(room, a))
             = Cardinality(ElsewhereQueued(room, id, a)) + Count(a, room[id].pending)
    BY QueuedIsSplit
  <2>3. Cardinality(QueuedAt(after, a))
          = Cardinality(ElsewhereQueued(after, id, a)) + Count(a, after[id].pending)
    BY <1>2, <1>3, QueuedIsSplit
  <2>4. Count(a, room[id].pending) \in Nat /\ Count(a, c.pending) \in Nat
    BY PeersAreGood, ClientIsGood, CountIsNatural
  <2> QED BY <1>4, <2>1, <2>2, <2>3, <2>4
<1> QED BY <1>2, <1>3, <1>5 DEF after

LEMMA PeerIsAdmitted ==
  ASSUME NEW room \in Peers, Len(room) < MaxClients,
         NEW c \in GoodClients, c.pending = <<>>
  PROVE  /\ Append(room, c) \in Peers
         /\ \A a : QueuedAt(Append(room, c), a) = QueuedAt(room, a)
<1> DEFINE after == Append(room, c)
<1>1. PICK n \in Nat :
        /\ n = Len(room) /\ DOMAIN room = 1..n /\ DOMAIN after = 1..(n + 1)
        /\ after[n + 1] = c /\ \A d \in 1..n : after[d] = room[d]
  BY DEF Peers
<1>2. after \in Peers
  <2>1. after \in Seq(GoodClients) /\ Len(after) = Len(room) + 1
    BY DEF Peers
  <2> QED BY <1>1, <2>1, RoomAssumption DEF Peers
<1> HIDE DEF after
<1>3. ASSUME NEW a PROVE QueuedAt(after, a) = QueuedAt(room, a)
  <2>1. ASSUME NEW q PROVE q \in QueuedAt(after, a) <=> q \in QueuedAt(room, a)
    <3>1. q \in QueuedAt(after, a) <=>
            \E d \in 1..(n + 1) : \E i \in DOMAIN after[d].pending :
              q = <<d, i>> /\ after[d].pending[i].action = a
      BY <1>1, IsQueuedAt
    <3>2. q \in QueuedAt(room, a) <=>
            \E d \in 1..n : \E i \in DOMAIN room[d].pending :
              q = <<d, i>> /\ room[d].pending[i].action = a
      BY <1>1, IsQueuedAt
    <3>3. DOMAIN after[n + 1].pending = {}
      BY <1>1, NothingIsSeq
    <3>4. \A d \in 1..(n + 1) : d \in 1..n \/ d = n + 1
      OBVIOUS
    <3>5. 1..n \subseteq 1..(n + 1)
      OBVIOUS
    <3> QED BY <1>1, <3>1, <3>2, <3>3, <3>4, <3>5
  <2> QED BY <2>1
<1> QED BY <1>2, <1>3 DEF after

LEMMA EmptyPeer ==
  \A connected \in BOOLEAN : [connected |-> connected, pending |-> <<>>] \in GoodClients
<1>1. <<>> \in Backlogs
  <2>1. <<>> \in Seq(ClientInputs) /\ Len(<<>>) = 0
    BY EmptySequence
  <2> QED BY <2>1, RoomAssumption DEF Backlogs
<1> QED BY <1>1 DEF GoodClients

\* Every queue is cleared.
LEMMA QueuesAreCleared ==
  ASSUME NEW room \in Peers
  PROVE  LET after == [id \in DOMAIN room |-> [room[id] EXCEPT !.pending = <<>>]]
         IN after \in Peers /\ \A id \in DOMAIN after : after[id].pending = <<>>
<1> DEFINE after == [id \in DOMAIN room |-> [room[id] EXCEPT !.pending = <<>>]]
<1>1. PICK n \in Nat : n = Len(room) /\ DOMAIN room = 1..n
  BY PeersAreGood
<1>2. ASSUME NEW id \in DOMAIN room
      PROVE  after[id] \in GoodClients /\ after[id].pending = <<>>
  <2>1. after[id] = [connected |-> room[id].connected, pending |-> <<>>]
    <3>1. /\ room[id] = [connected |-> room[id].connected, pending |-> room[id].pending]
      BY PeersAreGood, ClientIsGood
    <3>2. [room[id] EXCEPT !.pending = <<>>] = [connected |-> room[id].connected, pending |-> <<>>]
      BY <3>1
    <3> QED BY <3>2
  <2>2. room[id].connected \in BOOLEAN
    BY PeersAreGood, ClientIsGood
  <2> QED BY <2>1, <2>2, EmptyPeer
<1>3. after \in [1..n -> GoodClients]
  BY <1>1, <1>2
<1>4. after \in Seq(GoodClients) /\ Len(after) = n /\ DOMAIN after = DOMAIN room
  <2> HIDE DEF after
  <2> QED BY <1>1, <1>3
<1> HIDE DEF after
<1>5. after \in Peers
  BY <1>1, <1>4, PeersAreGood DEF Peers
<1> QED BY <1>2, <1>4, <1>5 DEF after

-----------------------------------------------------------------------------
(* The order of the peers' inputs *)

PlacedInputs == [client : Nat, place : Nat, input : ClientInputs]

PeerOrder == {pair \in PlacedInputs \X PlacedInputs : PeerInputBefore(pair[1], pair[2])}

LEMMA PlacedInputIsIn ==
  ASSUME NEW x \in PlacedInputs
  PROVE  x.input \in ClientInputs
<1> DEFINE I == ClientInputs
<1> HIDE DEF I
<1>1. x \in [client : Nat, place : Nat, input : I]
  BY DEF PlacedInputs, I
<1> QED BY <1>1 DEF I

LEMMA PlacedInputIs ==
  ASSUME NEW x \in PlacedInputs
  PROVE  /\ x = [client |-> x.client, place |-> x.place, input |-> x.input]
         /\ x.client \in Nat /\ x.place \in Nat
         /\ x.input = [sequence |-> x.input.sequence, action |-> x.input.action]
         /\ x.input.sequence \in Nat /\ x.input.action \in Nat /\ x.input.action \in Actions
<1>1. /\ x = [client |-> x.client, place |-> x.place, input |-> x.input]
      /\ x.client \in Nat /\ x.place \in Nat /\ x.input \in ClientInputs
  <2> DEFINE I == ClientInputs
  <2> HIDE DEF I
  <2>1. x \in [client : Nat, place : Nat, input : I]
    BY DEF PlacedInputs, I
  <2> QED BY <2>1 DEF I
<1>2. /\ x.input = [sequence |-> x.input.sequence, action |-> x.input.action]
      /\ x.input.sequence \in 1..MaxClientSequence /\ x.input.action \in Actions
  BY <1>1 DEF ClientInputs
<1>3. x.input.sequence \in Nat
  BY <1>2, BoundsAssumption
<1> QED BY <1>1, <1>2, <1>3, ActionsAssumption

LEMMA SamePlacedInput ==
  ASSUME NEW a \in PlacedInputs, NEW b \in PlacedInputs,
         a.client = b.client, a.place = b.place,
         a.input.sequence = b.input.sequence, a.input.action = b.input.action
  PROVE  a = b
<1> DEFINE I == ClientInputs
<1>1. a.input \in I /\ b.input \in I
  BY PlacedInputIsIn
<1>2. \A x, y \in I : x.sequence = y.sequence /\ x.action = y.action => x = y
  BY DEF ClientInputs
<1> HIDE DEF I
<1>3. a.input = b.input
  BY <1>1, <1>2
<1>4. a \in [client : Nat, place : Nat, input : I] /\ b \in [client : Nat, place : Nat, input : I]
  BY DEF PlacedInputs, I
<1> QED BY <1>3, <1>4

LEMMA PeerOrderOrders ==
  Orders(PeerOrder, PlacedInputs)
<1>1. \A a, b \in PlacedInputs : <<a, b>> \in PeerOrder <=> PeerInputBefore(a, b)
  BY DEF PeerOrder
<1>2. ASSUME NEW a \in PlacedInputs, NEW b \in PlacedInputs
      PROVE  /\ PeerInputBefore(a, b) => ~PeerInputBefore(b, a)
             /\ a = b \/ PeerInputBefore(a, b) \/ PeerInputBefore(b, a)
  <2>1. /\ a.client \in Nat /\ a.place \in Nat /\ a.input.sequence \in Nat /\ a.input.action \in Nat
        /\ b.client \in Nat /\ b.place \in Nat /\ b.input.sequence \in Nat /\ b.input.action \in Nat
    BY PlacedInputIs
  <2>2. (a.client = b.client /\ a.place = b.place /\ a.input.sequence = b.input.sequence
         /\ a.input.action = b.input.action) => a = b
    BY SamePlacedInput
  <2>3. /\ PeerInputBefore(a, b) => ~PeerInputBefore(b, a)
        /\ \/ PeerInputBefore(a, b) \/ PeerInputBefore(b, a)
           \/ /\ a.client = b.client /\ a.place = b.place
              /\ a.input.sequence = b.input.sequence /\ a.input.action = b.input.action
    BY ONLY <2>1 DEF PeerInputBefore
  <2> QED BY <2>2, <2>3
<1>3. ASSUME NEW a \in PlacedInputs, NEW b \in PlacedInputs, NEW c \in PlacedInputs,
             PeerInputBefore(a, b), PeerInputBefore(b, c)
      PROVE  PeerInputBefore(a, c)
  <2>1. /\ a.client \in Nat /\ a.place \in Nat /\ a.input.sequence \in Nat /\ a.input.action \in Nat
        /\ b.client \in Nat /\ b.place \in Nat /\ b.input.sequence \in Nat /\ b.input.action \in Nat
        /\ c.client \in Nat /\ c.place \in Nat /\ c.input.sequence \in Nat /\ c.input.action \in Nat
    BY PlacedInputIs
  <2> QED BY ONLY <1>3, <2>1 DEF PeerInputBefore
<1> HIDE DEF PeerOrder
<1> QED BY <1>1, <1>2, <1>3 DEF Orders

LEMMA SortedPeersAreRanked ==
  ASSUME NEW n \in Nat, NEW seq \in [1..n -> PlacedInputs]
  PROVE  Sorted(seq, PeerInputBefore) = Ranked(seq, PeerOrder)
<1> DEFINE rank == [i \in DOMAIN seq |-> Cardinality(NoLater(seq, PeerOrder, i))]
           place == [i \in DOMAIN seq |->
                       Cardinality({j \in DOMAIN seq :
                                      PeerInputBefore(seq[j], seq[i]) \/ (seq[j] = seq[i] /\ j <= i)})]
<1>1. DOMAIN seq = 1..n /\ \A i \in 1..n : seq[i] \in PlacedInputs
  OBVIOUS
<1>2. \A i, j \in 1..n : <<seq[j], seq[i]>> \in PeerOrder <=> PeerInputBefore(seq[j], seq[i])
  BY <1>1 DEF PeerOrder
<1>3. rank = place
  <2> HIDE DEF PeerOrder
  <2> QED BY <1>1, <1>2 DEF NoLater
<1>4. Sorted(seq, PeerInputBefore) = Placed(seq, place)
  BY Zenon DEF Sorted, Placed
<1>5. Ranked(seq, PeerOrder) = Placed(seq, rank)
  BY Zenon DEF Ranked
<1> QED BY <1>3, <1>4, <1>5

PeerInput(id, i) == [client |-> id, place |-> i, input |-> clients[id].pending[i]]

LEMMA IsPeerInput ==
  ASSUME NEW x
  PROVE  x \in PeerInputs <=>
           \E id \in DOMAIN clients : \E i \in DOMAIN clients[id].pending :
             clients[id].connected /\ x = PeerInput(id, i)
BY DEF PeerInputs, PeerInput

LEMMA PeerInputsArePlaced ==
  ASSUME clients \in Peers
  PROVE  /\ PeerInputs \subseteq PlacedInputs /\ IsFiniteSet(PeerInputs)
<1>1. ASSUME NEW id \in DOMAIN clients, NEW i \in DOMAIN clients[id].pending
      PROVE  id \in 1..MaxClients /\ i \in 1..MaxClientInputs /\ clients[id].pending[i] \in ClientInputs
  <2>1. clients[id] \in GoodClients /\ id \in 1..MaxClients
    BY PeersAreGood, RoomAssumption
  <2>2. /\ DOMAIN clients[id].pending = 1..Len(clients[id].pending)
        /\ Len(clients[id].pending) \in Nat
        /\ Len(clients[id].pending) <= MaxClientInputs
        /\ clients[id].pending \in Seq(ClientInputs)
    BY <2>1, ClientIsGood
  <2> QED BY <2>1, <2>2, RoomAssumption
<1>2. ASSUME NEW x \in PeerInputs
      PROVE  x \in PlacedInputs /\ x.client \in 1..MaxClients /\ x.place \in 1..MaxClientInputs
             /\ x = PeerInput(x.client, x.place)
  <2>1. PICK id \in DOMAIN clients : \E i \in DOMAIN clients[id].pending : x = PeerInput(id, i)
    BY IsPeerInput
  <2>2. PICK i \in DOMAIN clients[id].pending : x = PeerInput(id, i)
    BY <2>1
  <2>3. x.client = id /\ x.place = i
    BY <2>2 DEF PeerInput
  <2>4. id \in 1..MaxClients /\ i \in 1..MaxClientInputs /\ clients[id].pending[i] \in ClientInputs
    BY <1>1
  <2>5. id \in Nat /\ i \in Nat
    BY <2>4
  <2> QED BY <2>2, <2>3, <2>4, <2>5 DEF PlacedInputs, PeerInput
<1> DEFINE Where == (1..MaxClients) \X (1..MaxClientInputs)
           at == [x \in PeerInputs |-> <<x.client, x.place>>]
<1>3. IsFiniteSet(Where)
  <2>1. MaxClients \in Int /\ MaxClientInputs \in Int
    BY RoomAssumption
  <2>2. IsFiniteSet(1..MaxClients) /\ IsFiniteSet(1..MaxClientInputs)
    BY <2>1, FS_Interval
  <2> QED BY <2>2, FS_Product
<1>4. at \in Injection(PeerInputs, Where)
  <2>1. \A x \in PeerInputs : <<x.client, x.place>> \in Where
    BY <1>2
  <2>2. \A x, y \in PeerInputs : <<x.client, x.place>> = <<y.client, y.place>> => x = y
    <3> SUFFICES ASSUME NEW x \in PeerInputs, NEW y \in PeerInputs,
                        <<x.client, x.place>> = <<y.client, y.place>>
                 PROVE  x = y
      OBVIOUS
    <3>1. x = PeerInput(x.client, x.place) /\ y = PeerInput(y.client, y.place)
      BY <1>2
    <3>2. x.client = y.client /\ x.place = y.place
      OBVIOUS
    <3> QED BY <3>1, <3>2
  <2> HIDE DEF Where
  <2>3. at \in [PeerInputs -> Where] /\ \A x \in PeerInputs : at[x] = <<x.client, x.place>>
    BY <2>1
  <2> QED BY <2>2, <2>3 DEF Injection, IsInjective
<1>5. IsFiniteSet(PeerInputs)
  <2> HIDE DEF Where, at
  <2> QED BY <1>3, <1>4, FS_Injection
<1> QED BY <1>2, <1>5

\* Each peer input has one place in the order.
LEMMA OrderedArePeerInputs ==
  ASSUME clients \in Peers
  PROVE  /\ Len(Ordered) \in Nat /\ DOMAIN Ordered = 1..Len(Ordered)
         /\ \A i \in 1..Len(Ordered) : Ordered[i] \in PeerInputs
         /\ \A i, j \in 1..Len(Ordered) : Ordered[i] = Ordered[j] => i = j
         /\ \A x \in PeerInputs : \E i \in 1..Len(Ordered) : Ordered[i] = x
<1> DEFINE S == PeerInputs
           n == Cardinality(S)
           seq == SetToSeq(S)
<1>1. S \subseteq PlacedInputs /\ IsFiniteSet(S)
  BY PeerInputsArePlaced
<1> HIDE DEF S
<1>2. n \in Nat /\ ExistsBijection(1..n, S)
  BY <1>1, FS_CardinalityType
<1>3. \E f \in [1..n -> S] : IsInjective(f)
  BY <1>2 DEF ExistsBijection, Bijection, Injection
<1>4. seq \in [1..n -> S] /\ IsInjective(seq)
  BY <1>3, Zenon DEF SetToSeq
<1> HIDE DEF seq
<1>5. \A x \in S : \E i \in 1..n : seq[i] = x
  <2>1. IsFiniteSet(1..n) /\ Cardinality(1..n) = n
    BY <1>2, FS_Interval
  <2>2. seq \in Injection(1..n, S)
    BY <1>4 DEF Injection
  <2>3. seq \in Surjection(1..n, S)
    BY <1>1, <2>1, <2>2, FS_Injection
  <2> QED BY <2>3 DEF Surjection
<1> HIDE DEF n
<1>6. seq \in [1..n -> PlacedInputs]
  BY <1>1, <1>4
<1>7. Ordered = Ranked(seq, PeerOrder)
  BY <1>2, <1>6, SortedPeersAreRanked DEF Ordered, S, seq
<1>8. PICK p \in Bijection(1..n, 1..n) : Ordered = [k \in 1..n |-> seq[p[k]]]
  BY <1>2, <1>6, <1>7, PeerOrderOrders, RankedIsOrdered
<1>9. /\ \A k \in 1..n : p[k] \in 1..n
      /\ \A k, l \in 1..n : p[k] = p[l] => k = l
      /\ \A m \in 1..n : \E k \in 1..n : p[k] = m
  BY DEF Bijection, Injection, Surjection, IsInjective
<1>10. Ordered \in [1..n -> S] /\ Len(Ordered) = n /\ DOMAIN Ordered = 1..n
  <2>1. Ordered \in [1..n -> S]
    BY <1>4, <1>8, <1>9
  <2>2. Ordered \in Seq(S)
    BY <1>2, <2>1
  <2> QED BY <1>2, <2>1, <2>2
<1>11. \A i, j \in 1..n : Ordered[i] = Ordered[j] => i = j
  <2>1. \A i, j \in 1..n : seq[i] = seq[j] => i = j
    BY <1>4 DEF IsInjective
  <2> QED BY <1>8, <1>9, <2>1
<1>12. \A x \in S : \E i \in 1..n : Ordered[i] = x
  BY <1>5, <1>8, <1>9
<1> QED BY <1>2, <1>10, <1>11, <1>12 DEF S

\* As many inputs of an action are ordered as are queued.
LEMMA OrderedAreQueued ==
  ASSUME clients \in Peers, NEW a
  PROVE  Cardinality({i \in 1..Len(Ordered) : Ordered[i].input.action = a}) = Queued(a)
<1> DEFINE n == Len(Ordered)
           P == {i \in 1..n : Ordered[i].input.action = a}
           Q == QueuedAt(clients, a)
           f == [i \in P |-> <<Ordered[i].client, Ordered[i].place>>]
<1>1. /\ n \in Nat
      /\ \A i \in 1..n : Ordered[i] \in PeerInputs
      /\ \A i, j \in 1..n : Ordered[i] = Ordered[j] => i = j
      /\ \A x \in PeerInputs : \E i \in 1..n : Ordered[i] = x
  BY OrderedArePeerInputs
<1>2. ASSUME NEW x \in PeerInputs
      PROVE  /\ x = PeerInput(x.client, x.place)
             /\ x.client \in DOMAIN clients /\ x.place \in DOMAIN clients[x.client].pending
             /\ x.input = clients[x.client].pending[x.place]
  <2>1. PICK id \in DOMAIN clients : \E i \in DOMAIN clients[id].pending : x = PeerInput(id, i)
    BY IsPeerInput
  <2>2. PICK i \in DOMAIN clients[id].pending : x = PeerInput(id, i)
    BY <2>1
  <2>3. x.client = id /\ x.place = i /\ x.input = clients[id].pending[i]
    BY <2>2 DEF PeerInput
  <2> QED BY <2>2, <2>3
<1>3. ASSUME NEW i \in P PROVE f[i] \in Q
  <2>1. i \in 1..n /\ Ordered[i] \in PeerInputs /\ Ordered[i].input.action = a
    BY <1>1
  <2> QED BY <1>2, <2>1, IsQueuedAt
<1>4. ASSUME NEW i \in P, NEW j \in P, f[i] = f[j] PROVE i = j
  <2>1. /\ i \in 1..n /\ j \in 1..n /\ Ordered[i] \in PeerInputs /\ Ordered[j] \in PeerInputs
    BY <1>1
  <2>2. Ordered[i].client = Ordered[j].client /\ Ordered[i].place = Ordered[j].place
    BY <1>4
  <2>3. /\ Ordered[i] = PeerInput(Ordered[i].client, Ordered[i].place)
        /\ Ordered[j] = PeerInput(Ordered[j].client, Ordered[j].place)
    BY <1>2, <2>1
  <2>4. Ordered[i] = Ordered[j]
    BY <2>2, <2>3
  <2> QED BY <1>1, <2>1, <2>4
<1>5. ASSUME NEW q \in Q PROVE \E i \in P : f[i] = q
  <2>1. PICK id \in DOMAIN clients : \E i \in DOMAIN clients[id].pending :
               q = <<id, i>> /\ clients[id].pending[i].action = a
    BY IsQueuedAt
  <2>2. PICK i \in DOMAIN clients[id].pending : q = <<id, i>> /\ clients[id].pending[i].action = a
    BY <2>1
  <2>3. clients[id].connected
    <3>1. clients[id].connected \/ clients[id].pending = <<>>
      BY PeersAreGood, ClientIsGood
    <3> QED BY <2>2, <3>1, NothingIsSeq
  <2>4. PeerInput(id, i) \in PeerInputs
    BY <2>3, IsPeerInput
  <2>5. PICK k \in 1..n : Ordered[k] = PeerInput(id, i)
    BY <1>1, <2>4
  <2>6. Ordered[k].client = id /\ Ordered[k].place = i /\ Ordered[k].input = clients[id].pending[i]
    BY <2>5 DEF PeerInput
  <2>7. k \in P
    BY <2>2, <2>6
  <2> QED BY <2>2, <2>6, <2>7
<1>6. IsFiniteSet(P)
  <2>1. P \in SUBSET (1..n) /\ IsFiniteSet(1..n)
    BY <1>1, FS_Interval
  <2> QED BY <2>1, FS_Subset
<1>7. f = [i \in P |-> f[i]]
  OBVIOUS
<1> HIDE DEF P, Q, f
<1>8. f \in Bijection(P, Q)
  <2>1. f \in [P -> Q]
    BY <1>3, <1>7
  <2> QED BY <1>4, <1>5, <2>1 DEF Bijection, Injection, Surjection, IsInjective
<1> QED BY <1>6, <1>8, FS_Bijection DEF ExistsBijection, Queued, P, Q

-----------------------------------------------------------------------------
(* What an advance submits *)

Numbered(k) ==
  [i \in 1..k |-> [sequence |-> nextHostSequence + i - 1, action |-> Ordered[i].input.action]]

LEMMA NumberedAreInputs ==
  ASSUME clients \in Peers, nextHostSequence \in Nat \ {0}, NEW k \in Nat, k <= Len(Ordered)
  PROVE  /\ Numbered(k) \in Seq(LogicalInputs) /\ Len(Numbered(k)) = k
         /\ \A i \in 1..k : Numbered(k)[i].sequence = nextHostSequence + i - 1
         /\ \A a : k = Len(Ordered) => Count(a, Numbered(k)) = Queued(a)
<1> DEFINE new == Numbered(k)
<1>1. \A i \in 1..k : i \in 1..Len(Ordered)
  BY OrderedArePeerInputs
<1>2. \A i \in 1..k : Ordered[i].input.action \in Actions
  BY <1>1, OrderedArePeerInputs, PeerInputsArePlaced, PlacedInputIs
<1>3. /\ DOMAIN new = 1..k
      /\ \A i \in 1..k : /\ new[i] = [sequence |-> nextHostSequence + i - 1,
                                      action |-> Ordered[i].input.action]
  BY DEF Numbered
<1>4. new \in [1..k -> LogicalInputs]
  <2>1. \A i \in 1..k : nextHostSequence + i - 1 \in Nat
    OBVIOUS
  <2>2. \A i \in 1..k : [sequence |-> nextHostSequence + i - 1,
                         action |-> Ordered[i].input.action] \in LogicalInputs
    BY <1>2, <2>1 DEF LogicalInputs
  <2> QED BY <2>2 DEF Numbered
<1>5. new \in Seq(LogicalInputs) /\ Len(new) = k
  <2> HIDE DEF new
  <2> QED BY <1>4
<1>6. \A i \in 1..k : new[i].sequence = nextHostSequence + i - 1
                      /\ new[i].action = Ordered[i].input.action
  <2> HIDE DEF new
  <2> QED BY <1>3
<1> HIDE DEF new
<1>7. ASSUME NEW a, k = Len(Ordered) PROVE Count(a, new) = Queued(a)
  <2>1. Count(a, new) = Cardinality({i \in 1..k : Ordered[i].input.action = a})
    <3>1. {i \in DOMAIN new : new[i].action = a} = {i \in 1..k : Ordered[i].input.action = a}
      BY <1>3, <1>6
    <3> QED BY <3>1 DEF Count
  <2> QED BY <1>7, <2>1, OrderedAreQueued
<1> QED BY <1>5, <1>6, <1>7 DEF new

\* What a host becomes by taking the first k inputs.
HavingTaken(k) == [host EXCEPT !.pending = host.pending \o Numbered(k)]

LEMMA TakingIsGood ==
  ASSUME GoodRuntime(host), clients \in Peers, nextHostSequence \in Nat \ {0},
         NEW k \in Nat, k <= Len(Ordered), Len(host.pending) + k <= MaxPendingInputs
  PROVE  /\ GoodRuntime(HavingTaken(k)) /\ HavingTaken(k).hash = host.hash
         /\ HavingTaken(k).pending = host.pending \o Numbered(k)
<1> DEFINE new == Numbered(k)
           more == host.pending \o new
           s == [host EXCEPT !.pending = more]
<1>1. new \in Seq(LogicalInputs) /\ Len(new) = k
  BY NumberedAreInputs
<1> HIDE DEF new
<1>2. more \in Seq(LogicalInputs) /\ Len(more) <= MaxPendingInputs
  <2>1. host.pending \in Seq(LogicalInputs)
    BY DEF GoodRuntime
  <2>2. more \in Seq(LogicalInputs) /\ Len(more) = Len(host.pending) + k
    BY <1>1, <2>1, ConcatProperties
  <2> QED BY <2>2
<1>3. s = HavingTaken(k)
  BY DEF HavingTaken, new
<1> HIDE DEF more
<1>4. /\ IsRuntime(s) /\ s.tick = host.tick /\ s.hash = host.hash /\ s.pending = more
      /\ s.integers = host.integers /\ s.draws = host.draws
      /\ s.timers = host.timers /\ s.chart = host.chart
      /\ s.events = host.events /\ s.nextSequence = host.nextSequence
  BY DEF GoodRuntime, IsRuntime, Fields
<1> HIDE DEF s
<1>5. GoodRuntime(s)
  BY <1>2, <1>4 DEF GoodRuntime, GoodState
<1> QED BY <1>3, <1>4, <1>5 DEF more, new

-----------------------------------------------------------------------------
(* The invariant *)

Sequenced(hash, pending, next) ==
  /\ CommittedInputs(hash) \in Seq(LogicalInputs) /\ pending \in Seq(LogicalInputs)
  /\ next \in Nat \ {0} /\ Increasing(CommittedInputs(hash) \o pending, next)

Tallies == [Actions -> Nat]

\* What a room took in is committed, queued or dropped; exactly, if nothing went wrong.
Balanced(room, hash, taken, dropped, errors) ==
  \A a \in Actions :
    LET total == Committed(a, hash) + Cardinality(QueuedAt(room, a)) + dropped[a]
    IN taken[a] <= total /\ (errors = 0 => taken[a] = total)

GoodEnvelope(e) ==
  /\ GoodSave(e.archive) /\ Sequenced(e.archive.hash, <<>>, e.nextHostSequence)
  /\ e.clients \in Peers /\ \A id \in DOMAIN e.clients : e.clients[id].pending = <<>>
  /\ e.accepted \in Tallies /\ e.discarded \in Tallies /\ e.faults \in Nat
  /\ Balanced(e.clients, e.archive.hash, e.accepted, e.discarded, e.faults)

RoomInvariant ==
  /\ GoodRuntime(host) /\ Sequenced(host.hash, host.pending, nextHostSequence)
  /\ clients \in Peers
  /\ accepted \in Tallies /\ discarded \in Tallies /\ faults \in Nat
  /\ Balanced(clients, host.hash, accepted, discarded, faults)
  /\ faults = 0 => host.pending = <<>>
  /\ envelope # NoEnvelope => GoodEnvelope(envelope)

LEMMA CommittedIsNatural ==
  ASSUME NEW hash, CommittedInputs(hash) \in Seq(LogicalInputs), NEW a
  PROVE  Committed(a, hash) \in Nat
BY CountIsNatural DEF Committed

LEMMA RoomStarts == RoomInit => RoomInvariant
<1> SUFFICES ASSUME RoomInit PROVE RoomInvariant
  OBVIOUS
<1>1. /\ host = NewRuntime /\ clients = <<>> /\ nextHostSequence = 1 /\ envelope = NoEnvelope
      /\ accepted = [a \in Actions |-> 0] /\ discarded = [a \in Actions |-> 0] /\ faults = 0
  BY DEF RoomInit
<1>2. GoodRuntime(host) /\ host.pending = <<>> /\ host.hash = <<>>
  BY <1>1, NewRuntimeIsGood DEF NewRuntime
<1>3. CommittedInputs(host.hash) = <<>>
  BY <1>2, NothingIsCommitted
<1>4. Sequenced(host.hash, host.pending, nextHostSequence)
  <2>1. <<>> \in Seq(LogicalInputs) /\ <<>> \o <<>> = <<>>
    BY EmptySequence, ConcatEmptySeq
  <2>2. Increasing(<<>>, 1)
    BY NothingIsSeq DEF Increasing
  <2>3. CommittedInputs(host.hash) \o host.pending = <<>>
    BY <1>2, <1>3, <2>1
  <2>4. CommittedInputs(host.hash) \in Seq(LogicalInputs) /\ host.pending \in Seq(LogicalInputs)
    BY <1>2, <1>3, <2>1
  <2>5. Increasing(CommittedInputs(host.hash) \o host.pending, nextHostSequence)
    BY <1>1, <2>2, <2>3
  <2>6. nextHostSequence \in Nat \ {0}
    BY <1>1
  <2> QED BY <2>4, <2>5, <2>6, Zenon DEF Sequenced
<1>5. clients \in Peers
  <2>1. <<>> \in Seq(GoodClients) /\ Len(<<>>) = 0
    BY EmptySequence
  <2> QED BY <1>1, <2>1, RoomAssumption DEF Peers
<1>6. Balanced(clients, host.hash, accepted, discarded, faults)
  <2> SUFFICES ASSUME NEW a \in Actions
               PROVE  0 = Committed(a, host.hash) + Cardinality(QueuedAt(clients, a)) + 0
    BY <1>1 DEF Balanced
  <2>1. Committed(a, host.hash) = 0
    BY <1>3, CountOfNothing DEF Committed
  <2>2. QueuedAt(clients, a) = {}
    BY <1>1, NothingIsSeq, NothingIsQueued
  <2> QED BY <2>1, <2>2, FS_EmptySet
<1>7. accepted \in Tallies /\ discarded \in Tallies
  BY <1>1 DEF Tallies
<1> QED BY <1>1, <1>2, <1>4, <1>5, <1>6, <1>7 DEF RoomInvariant

LEMMA ConnectKeeps ==
  ASSUME RoomInvariant, NEW hello, Connect(hello)
  PROVE  RoomInvariant'
<1> DEFINE c == [connected |-> TRUE, pending |-> <<>>]
<1>1. /\ Len(clients) < MaxClients /\ clients' = Append(clients, c)
      /\ UNCHANGED <<host, nextHostSequence, envelope, accepted, discarded, faults>>
  BY DEF Connect
<1>2. c \in GoodClients /\ c.pending = <<>>
  BY EmptyPeer
<1> HIDE DEF c
<1>3. clients' \in Peers /\ \A a : QueuedAt(clients', a) = QueuedAt(clients, a)
  BY <1>1, <1>2, PeerIsAdmitted DEF RoomInvariant
<1>4. Balanced(clients', host.hash, accepted, discarded, faults)
  BY <1>3 DEF RoomInvariant, Balanced
<1> QED BY <1>1, <1>3, <1>4 DEF RoomInvariant

LEMMA DisconnectKeeps ==
  ASSUME RoomInvariant, NEW id \in DOMAIN clients, Disconnect(id)
  PROVE  RoomInvariant'
<1> DEFINE c == [connected |-> FALSE, pending |-> <<>>]
<1>1. /\ discarded' = [a \in Actions |-> discarded[a] + Count(a, clients[id].pending)]
      /\ UNCHANGED <<host, nextHostSequence, envelope, accepted, faults>>
  BY DEF Disconnect
<1>3. clients' = [clients EXCEPT ![id] = c]
  BY DEF Disconnect
<1>4. c \in GoodClients /\ c.pending = <<>>
  BY EmptyPeer
<1> HIDE DEF c
<1>5. clients \in Peers
  BY DEF RoomInvariant
<1>6. /\ clients' \in Peers
      /\ \A a : Cardinality(QueuedAt(clients', a)) + Count(a, clients[id].pending)
                  = Cardinality(QueuedAt(clients, a)) + Count(a, c.pending)
  BY <1>3, <1>4, <1>5, PeerChanges
<1>7. ASSUME NEW a \in Actions
      PROVE  /\ discarded'[a] \in Nat
             /\ Committed(a, host.hash) + Cardinality(QueuedAt(clients', a)) + discarded'[a]
                  = Committed(a, host.hash) + Cardinality(QueuedAt(clients, a)) + discarded[a]
  <2>1. Count(a, c.pending) = 0 /\ Count(a, clients[id].pending) \in Nat
    BY <1>4, <1>5, CountOfNothing, PeersAreGood, ClientIsGood, CountIsNatural
  <2>2. Cardinality(QueuedAt(clients', a)) \in Nat /\ Cardinality(QueuedAt(clients, a)) \in Nat
    BY <1>5, <1>6, QueuedIsFinite
  <2>3. Committed(a, host.hash) \in Nat /\ discarded[a] \in Nat
    BY CommittedIsNatural DEF RoomInvariant, Sequenced, Tallies
  <2>4. discarded'[a] = discarded[a] + Count(a, clients[id].pending)
    BY <1>1
  <2>5. Cardinality(QueuedAt(clients', a)) + Count(a, clients[id].pending)
          = Cardinality(QueuedAt(clients, a)) + Count(a, c.pending)
    BY <1>6
  <2> QED BY ONLY <2>1, <2>2, <2>3, <2>4, <2>5
<1>8. Balanced(clients', host.hash, accepted, discarded', faults)
  BY <1>7 DEF RoomInvariant, Balanced
<1>9. discarded' \in Tallies
  <2>1. discarded' = [a \in Actions |-> discarded'[a]]
    BY <1>1
  <2> QED BY <1>7, <2>1 DEF Tallies
<1> QED BY <1>1, <1>6, <1>8, <1>9 DEF RoomInvariant

LEMMA ReconnectKeeps ==
  ASSUME RoomInvariant, NEW id \in DOMAIN clients, NEW hello, Reconnect(id, hello)
  PROVE  RoomInvariant'
<1> DEFINE c == [connected |-> TRUE, pending |-> <<>>]
<1>1. /\ ~clients[id].connected
      /\ UNCHANGED <<host, nextHostSequence, envelope, accepted, discarded, faults>>
  BY DEF Reconnect
<1>8. clients' = [clients EXCEPT ![id] = c]
  BY DEF Reconnect
<1>2. c \in GoodClients /\ c.pending = <<>>
  BY EmptyPeer
<1> HIDE DEF c
<1>3. clients \in Peers
  BY DEF RoomInvariant
<1>4. clients[id].pending = <<>>
  BY <1>1, <1>3, PeersAreGood, ClientIsGood
<1>5. /\ clients' \in Peers
      /\ \A a : Cardinality(QueuedAt(clients', a)) + Count(a, clients[id].pending)
                  = Cardinality(QueuedAt(clients, a)) + Count(a, c.pending)
  BY <1>2, <1>3, <1>8, PeerChanges
<1>6. \A a : Cardinality(QueuedAt(clients', a)) = Cardinality(QueuedAt(clients, a))
  <2> SUFFICES ASSUME NEW a
               PROVE  Cardinality(QueuedAt(clients', a)) = Cardinality(QueuedAt(clients, a))
    OBVIOUS
  <2>1. Count(a, <<>>) = 0
    BY CountOfNothing
  <2>2. Cardinality(QueuedAt(clients', a)) \in Nat /\ Cardinality(QueuedAt(clients, a)) \in Nat
    BY <1>3, <1>5, QueuedIsFinite
  <2>3. Cardinality(QueuedAt(clients', a)) + Count(a, <<>>)
          = Cardinality(QueuedAt(clients, a)) + Count(a, <<>>)
    BY <1>2, <1>4, <1>5
  <2> QED BY ONLY <2>1, <2>2, <2>3
<1>7. Balanced(clients', host.hash, accepted, discarded, faults)
  BY <1>6 DEF RoomInvariant, Balanced
<1> QED BY <1>1, <1>5, <1>7 DEF RoomInvariant

LEMMA SubmitKeeps ==
  ASSUME RoomInvariant, NEW id \in DOMAIN clients, NEW input \in ClientInputs, SubmitInput(id, input)
  PROVE  RoomInvariant'
<1> DEFINE more == Append(clients[id].pending, input)
           c == [connected |-> clients[id].connected, pending |-> more]
<1>1. /\ clients[id].connected /\ Len(clients[id].pending) < MaxClientInputs
      /\ clients' = [clients EXCEPT ![id].pending = Append(@, input)]
      /\ accepted' = [accepted EXCEPT ![input.action] = @ + 1]
      /\ UNCHANGED <<host, nextHostSequence, envelope, discarded, faults>>
  BY DEF SubmitInput
<1>2. clients \in Peers
  BY DEF RoomInvariant
<1>3. /\ clients[id] = [connected |-> clients[id].connected, pending |-> clients[id].pending]
      /\ clients[id].connected \in BOOLEAN
      /\ clients[id].pending \in Seq(ClientInputs) /\ Len(clients[id].pending) \in Nat
  BY <1>2, PeersAreGood, ClientIsGood
<1>4. clients' = [clients EXCEPT ![id] = c]
  <2>1. [clients[id] EXCEPT !.pending = more] = c
    BY <1>3
  <2>2. [clients EXCEPT ![id].pending = Append(@, input)]
          = [clients EXCEPT ![id] = [clients[id] EXCEPT !.pending = more]]
    OBVIOUS
  <2> QED BY <1>1, <2>1, <2>2
<1>5. more \in Backlogs
  <2>1. more \in Seq(ClientInputs) /\ Len(more) = Len(clients[id].pending) + 1
    BY <1>3
  <2>2. Len(clients[id].pending) + 1 <= MaxClientInputs
    BY <1>1, <1>3, RoomAssumption
  <2> QED BY <2>1, <2>2 DEF Backlogs
<1>6. \A a : Count(a, more) = IF input.action = a THEN Count(a, clients[id].pending) + 1
                              ELSE Count(a, clients[id].pending)
  BY <1>3, CountOfAppended
<1> HIDE DEF more
<1>7. c \in GoodClients /\ c.pending = more
  BY <1>1, <1>3, <1>5 DEF GoodClients
<1> HIDE DEF c
<1>8. /\ clients' \in Peers
      /\ \A a : Cardinality(QueuedAt(clients', a)) + Count(a, clients[id].pending)
                  = Cardinality(QueuedAt(clients, a)) + Count(a, c.pending)
  BY <1>2, <1>4, <1>7, PeerChanges
<1>9. input.action \in Actions /\ accepted \in [Actions -> Nat]
  BY DEF ClientInputs, RoomInvariant, Tallies
<1>10. ASSUME NEW a \in Actions
       PROVE  LET more_ == IF input.action = a THEN 1 ELSE 0
              IN /\ accepted'[a] = accepted[a] + more_ /\ accepted'[a] \in Nat
                 /\ Committed(a, host.hash) + Cardinality(QueuedAt(clients', a)) + discarded[a]
                      = Committed(a, host.hash) + Cardinality(QueuedAt(clients, a)) + discarded[a]
                        + more_
  <2>1. Count(a, clients[id].pending) \in Nat
    BY <1>3, CountIsNatural
  <2>2. Cardinality(QueuedAt(clients', a)) \in Nat /\ Cardinality(QueuedAt(clients, a)) \in Nat
    BY <1>2, <1>8, QueuedIsFinite
  <2>3. Committed(a, host.hash) \in Nat /\ discarded[a] \in Nat
    BY CommittedIsNatural DEF RoomInvariant, Sequenced, Tallies
  <2>4. Cardinality(QueuedAt(clients', a)) + Count(a, clients[id].pending)
          = Cardinality(QueuedAt(clients, a)) + Count(a, more)
    BY <1>7, <1>8
  <2>5. Count(a, more) = IF input.action = a THEN Count(a, clients[id].pending) + 1
                         ELSE Count(a, clients[id].pending)
    BY <1>6
  <2>6. accepted'[a] = (IF input.action = a THEN accepted[a] + 1 ELSE accepted[a])
        /\ accepted[a] \in Nat
    BY <1>1, <1>9
  <2> QED BY ONLY <2>1, <2>2, <2>3, <2>4, <2>5, <2>6
<1>11. Balanced(clients', host.hash, accepted', discarded, faults)
  <2> SUFFICES ASSUME NEW a \in Actions
               PROVE  LET total == Committed(a, host.hash) + Cardinality(QueuedAt(clients', a)) + discarded[a]
                      IN accepted'[a] <= total /\ (faults = 0 => accepted'[a] = total)
    BY DEF Balanced
  <2> DEFINE before == Committed(a, host.hash) + Cardinality(QueuedAt(clients, a)) + discarded[a]
  <2>1. accepted[a] <= before /\ (faults = 0 => accepted[a] = before)
    BY DEF RoomInvariant, Balanced
  <2>2. before \in Nat
    <3>1. Cardinality(QueuedAt(clients, a)) \in Nat
      BY <1>2, QueuedIsFinite
    <3>2. Committed(a, host.hash) \in Nat /\ discarded[a] \in Nat
      BY CommittedIsNatural DEF RoomInvariant, Sequenced, Tallies
    <3> QED BY <3>1, <3>2
  <2>3. accepted[a] \in Nat
    BY <1>9
  <2> HIDE DEF before
  <2>4. LET more_ == IF input.action = a THEN 1 ELSE 0
        IN /\ accepted'[a] = accepted[a] + more_
           /\ Committed(a, host.hash) + Cardinality(QueuedAt(clients', a)) + discarded[a]
                = before + more_
    BY <1>10 DEF before
  <2> QED BY ONLY <2>1, <2>2, <2>3, <2>4
<1>12. accepted' \in Tallies
  BY <1>1, <1>9 DEF Tallies
<1> QED BY <1>1, <1>8, <1>11, <1>12 DEF RoomInvariant

-----------------------------------------------------------------------------
(* LoopbackRoom::advance *)

\* Inputs the host took keep their places, whatever became of the tick.
LEMMA TakingKeepsOrder ==
  ASSUME RoomInvariant, NEW k \in Nat, k <= Len(Ordered), NEW used \in Nat, k <= used
  PROVE  Sequenced(host.hash, host.pending \o Numbered(k), nextHostSequence + used)
<1> DEFINE C == CommittedInputs(host.hash)
           p == host.pending
           t == Numbered(k)
<1>1. /\ C \in Seq(LogicalInputs) /\ p \in Seq(LogicalInputs) /\ nextHostSequence \in Nat \ {0}
      /\ Increasing(C \o p, nextHostSequence)
  BY DEF RoomInvariant, Sequenced
<1>2. /\ t \in Seq(LogicalInputs) /\ Len(t) = k
      /\ \A i \in 1..k : t[i].sequence = nextHostSequence + i - 1
  BY <1>1, NumberedAreInputs DEF RoomInvariant
<1> HIDE DEF C, p, t
<1>3. C \o p \in Seq(LogicalInputs) /\ p \o t \in Seq(LogicalInputs)
  BY <1>1, <1>2, ConcatProperties
<1>4. Increasing((C \o p) \o t, nextHostSequence + used)
  BY <1>1, <1>2, <1>3, NumberedKeepOrder
<1>5. (C \o p) \o t = C \o (p \o t)
  BY <1>1, <1>2, ConcatAssociative
<1>6. Increasing(C \o (p \o t), nextHostSequence + used)
  BY <1>4, <1>5
<1>7. nextHostSequence + used \in Nat \ {0}
  BY <1>1
<1> QED BY <1>1, <1>3, <1>6, <1>7, Zenon DEF Sequenced, C, p, t

\* An advance that returns an error commits nothing: the host keeps what it took.
LEMMA FailingKeeps ==
  ASSUME RoomInvariant, NEW r, GoodRuntime(r), NEW k \in Nat, k <= Len(Ordered), NEW used \in Nat,
         k <= used, CommittedInputs(r.hash) = CommittedInputs(host.hash),
         r.pending = host.pending \o Numbered(k),
         nextHostSequence' = nextHostSequence + used, AdvanceFails(r)
  PROVE  RoomInvariant'
<1>1. /\ host' = r /\ faults' = faults + 1
      /\ UNCHANGED <<clients, envelope, accepted, discarded>>
  BY DEF AdvanceFails
<1>2. Sequenced(host.hash, r.pending, nextHostSequence')
  BY TakingKeepsOrder
<1>3. Sequenced(r.hash, r.pending, nextHostSequence')
  BY <1>2 DEF Sequenced
<1>4. faults' \in Nat /\ faults' # 0
  BY <1>1 DEF RoomInvariant
<1>5. Balanced(clients, r.hash, accepted, discarded, faults')
  <2>1. \A a : Committed(a, r.hash) = Committed(a, host.hash)
    BY DEF Committed
  <2>2. Balanced(clients, host.hash, accepted, discarded, faults)
    BY DEF RoomInvariant
  <2> QED BY <1>4, <2>1, <2>2 DEF Balanced
<1> QED BY <1>1, <1>3, <1>4, <1>5 DEF RoomInvariant

\* One that succeeds commits everything the peers and the host had queued.
LEMMA CommittingKeeps ==
  ASSUME RoomInvariant, NEW r, GoodRuntime(r), NEW used \in Nat, Len(Ordered) <= used,
         CommittedInputs(r.hash)
           = CommittedInputs(host.hash) \o (host.pending \o Numbered(Len(Ordered))),
         r.pending = <<>>,
         nextHostSequence' = nextHostSequence + used, AdvanceCommits(r)
  PROVE  RoomInvariant'
<1> DEFINE C == CommittedInputs(host.hash)
           p == host.pending
           t == Numbered(Len(Ordered))
<1>1. /\ host' = r
      /\ clients' = [id \in DOMAIN clients |-> [clients[id] EXCEPT !.pending = <<>>]]
      /\ UNCHANGED <<envelope, accepted, discarded, faults>>
  BY DEF AdvanceCommits
<1>2. clients \in Peers /\ nextHostSequence \in Nat \ {0} /\ Len(Ordered) \in Nat
  BY OrderedArePeerInputs DEF RoomInvariant, Sequenced
<1>3. /\ C \in Seq(LogicalInputs) /\ p \in Seq(LogicalInputs) /\ t \in Seq(LogicalInputs)
      /\ \A a : Count(a, t) = Queued(a)
  BY <1>2, NumberedAreInputs DEF RoomInvariant, Sequenced
<1>4. Sequenced(host.hash, p \o t, nextHostSequence')
  <2>1. Len(Ordered) \in Nat /\ Len(Ordered) <= Len(Ordered)
    BY <1>2
  <2>2. Sequenced(host.hash, host.pending \o Numbered(Len(Ordered)), nextHostSequence + used)
    BY <2>1, TakingKeepsOrder
  <2> QED BY <2>2
<1>5. CommittedInputs(r.hash) = C \o (p \o t)
  OBVIOUS
<1>6. clients' \in Peers /\ \A id \in DOMAIN clients' : clients'[id].pending = <<>>
  BY <1>1, <1>2, QueuesAreCleared
<1> HIDE DEF C, p, t
<1>7. Sequenced(r.hash, r.pending, nextHostSequence')
  <2> DEFINE all == C \o (p \o t)
  <2>1. Increasing(all, nextHostSequence') /\ nextHostSequence' \in Nat \ {0}
    BY <1>4 DEF Sequenced, C
  <2>2. all \in Seq(LogicalInputs)
    BY <1>3, ConcatProperties
  <2>3. CommittedInputs(r.hash) = all
    BY <1>5
  <2> HIDE DEF all
  <2>4. all \o <<>> = all
    BY <2>2, ConcatEmptySeq
  <2>5. <<>> \in Seq(LogicalInputs)
    BY EmptySequence
  <2>6. Increasing(CommittedInputs(r.hash) \o r.pending, nextHostSequence')
    BY <2>1, <2>3, <2>4
  <2>7. CommittedInputs(r.hash) \in Seq(LogicalInputs) /\ r.pending \in Seq(LogicalInputs)
    BY <2>2, <2>3, <2>5
  <2> QED BY <2>1, <2>6, <2>7, Zenon DEF Sequenced
<1>8. ASSUME NEW a \in Actions
      PROVE  LET total == Committed(a, r.hash) + Cardinality(QueuedAt(clients', a)) + discarded[a]
             IN accepted[a] <= total /\ (faults = 0 => accepted[a] = total)
  <2>1. Committed(a, r.hash) = Count(a, C) + (Count(a, p) + Count(a, t))
    <3>1. p \o t \in Seq(LogicalInputs)
      BY <1>3, ConcatProperties
    <3>2. Count(a, C \o (p \o t)) = Count(a, C) + Count(a, p \o t)
      BY <1>3, <3>1, CountOfJoined
    <3>3. Count(a, p \o t) = Count(a, p) + Count(a, t)
      BY <1>3, CountOfJoined
    <3> QED BY <1>5, <3>2, <3>3 DEF Committed
  <2>2. Cardinality(QueuedAt(clients', a)) = 0
    BY <1>6, NothingIsQueued, FS_EmptySet
  <2>3. Count(a, t) = Cardinality(QueuedAt(clients, a))
    BY <1>3 DEF Queued
  <2>4. /\ accepted[a] <= Count(a, C) + Cardinality(QueuedAt(clients, a)) + discarded[a]
        /\ faults = 0 => accepted[a] = Count(a, C) + Cardinality(QueuedAt(clients, a)) + discarded[a]
    BY DEF RoomInvariant, Balanced, Committed, C
  <2>5. faults = 0 => Count(a, p) = 0
    BY CountOfNothing DEF RoomInvariant, p
  <2>6. /\ Count(a, C) \in Nat /\ Count(a, p) \in Nat /\ Cardinality(QueuedAt(clients, a)) \in Nat
        /\ discarded[a] \in Nat /\ accepted[a] \in Nat
    <3>1. discarded[a] \in Nat /\ accepted[a] \in Nat
      BY DEF RoomInvariant, Tallies
    <3> QED BY <1>2, <1>3, <3>1, CountIsNatural, QueuedIsFinite
  <2> QED BY ONLY <2>1, <2>2, <2>3, <2>4, <2>5, <2>6
<1>9. Balanced(clients', r.hash, accepted, discarded, faults)
  BY <1>8 DEF Balanced
<1> QED BY <1>1, <1>6, <1>7, <1>9 DEF RoomInvariant

LEMMA AdvanceKeeps ==
  ASSUME RoomInvariant, AdvanceRoom
  PROVE  RoomInvariant'
<1> DEFINE n == Len(Ordered)
           k == SubmittedCount
           used == UsedSequences
           taken == HavingTaken(k)
<1>1. /\ GoodRuntime(host) /\ clients \in Peers /\ nextHostSequence \in Nat \ {0}
      /\ Sequenced(host.hash, host.pending, nextHostSequence)
  BY DEF RoomInvariant, Sequenced
<1>2. n \in Nat
  BY <1>1, OrderedArePeerInputs
<1>3. /\ k \in Nat /\ used \in Nat /\ k <= n /\ k <= used /\ Len(host.pending) + k <= MaxPendingInputs
  <2>1. Len(host.pending) \in Nat /\ Len(host.pending) <= MaxPendingInputs /\ MaxPendingInputs \in Nat
    BY <1>1, LimitsAssumption, LenProperties DEF GoodRuntime
  <2>2. Room \in Nat /\ Len(host.pending) + Room <= MaxPendingInputs
    BY <2>1 DEF Room
  <2>3. CASE n <= Room
    <3>1. k = n /\ used = n
      BY <2>3 DEF SubmittedCount, UsedSequences
    <3> HIDE DEF n, k, used
    <3> QED BY <1>2, <2>1, <2>2, <2>3, <3>1
  <2>4. CASE ~(n <= Room)
    <3>1. k = Room /\ used = Room + 1
      BY <2>4 DEF SubmittedCount, UsedSequences
    <3> HIDE DEF n, k, used
    <3> QED BY <1>2, <2>1, <2>2, <2>4, <3>1
  <2> QED BY <2>3, <2>4
<1>4. Submitted = taken
  BY DEF Submitted, HavingTaken, Numbered
<1>5. nextHostSequence' = nextHostSequence + used
  BY DEF AdvanceRoom
<1>6. \/ k < n /\ AdvanceFails(Submitted)
      \/ /\ k = n
         /\ \E stepped \in {CommitTick(Submitted)} :
              IF stepped.error = "none" THEN AdvanceCommits(stepped.runtime)
              ELSE AdvanceFails(stepped.runtime)
  BY DEF AdvanceRoom
<1>7. GoodRuntime(taken) /\ taken.hash = host.hash /\ taken.pending = host.pending \o Numbered(k)
  BY <1>1, <1>3, TakingIsGood
<1> HIDE DEF n, k, used, taken
<1>8. CASE k < n /\ AdvanceFails(Submitted)
  BY <1>3, <1>4, <1>5, <1>7, <1>8, FailingKeeps DEF n
<1>9. CASE k = n /\ \E stepped \in {CommitTick(Submitted)} :
                      IF stepped.error = "none" THEN AdvanceCommits(stepped.runtime)
                      ELSE AdvanceFails(stepped.runtime)
  <2> DEFINE ticked == CommitTick(taken)
  <2>1. IF ticked.error = "none" THEN AdvanceCommits(ticked.runtime) ELSE AdvanceFails(ticked.runtime)
    BY <1>4, <1>9
  <2>2. SortedInputs(taken.pending) = taken.pending
    <3>1. Sequenced(host.hash, taken.pending, nextHostSequence + used)
      BY <1>3, <1>7, TakingKeepsOrder DEF n
    <3> QED BY <3>1, IncreasingEnds DEF Sequenced
  <2>3. /\ GoodRuntime(ticked.runtime)
        /\ ticked.error = "none" =>
             /\ CommittedInputs(ticked.runtime.hash) = CommittedInputs(host.hash) \o taken.pending
             /\ ticked.runtime.pending = <<>>
        /\ ticked.error # "none" =>
             /\ CommittedInputs(ticked.runtime.hash) = CommittedInputs(host.hash)
             /\ ticked.runtime.pending = taken.pending
    BY <1>7, <2>2, TickKeeps DEF SameCommitted
  <2> HIDE DEF ticked
  <2>4. CASE ticked.error = "none"
    <3>1. AdvanceCommits(ticked.runtime)
      BY <2>1, <2>4
    <3>2. /\ CommittedInputs(ticked.runtime.hash)
               = CommittedInputs(host.hash) \o (host.pending \o Numbered(Len(Ordered)))
          /\ ticked.runtime.pending = <<>> /\ Len(Ordered) <= used
      BY <1>3, <1>7, <1>9, <2>3, <2>4 DEF n
    <3> QED BY <1>3, <1>5, <2>3, <3>1, <3>2, CommittingKeeps
  <2>5. CASE ticked.error # "none"
    <3>1. AdvanceFails(ticked.runtime)
      BY <2>1, <2>5
    <3> QED BY <1>3, <1>5, <1>7, <2>3, <2>5, <3>1, FailingKeeps DEF n
  <2> QED BY <2>4, <2>5
<1> QED BY <1>6, <1>8, <1>9

LEMMA DrainKeeps ==
  ASSUME RoomInvariant, DrainEvents
  PROVE  RoomInvariant'
<1> DEFINE s == [host EXCEPT !.events = <<>>]
<1>1. host' = s /\ UNCHANGED <<clients, nextHostSequence, envelope, accepted, discarded, faults>>
  BY DEF DrainEvents
<1>2. /\ IsRuntime(s) /\ s.tick = host.tick /\ s.hash = host.hash /\ s.pending = host.pending
      /\ s.integers = host.integers /\ s.draws = host.draws
      /\ s.timers = host.timers /\ s.chart = host.chart
      /\ s.events = <<>> /\ s.nextSequence = host.nextSequence
  BY DEF RoomInvariant, GoodRuntime, IsRuntime, Fields
<1> HIDE DEF s
<1>3. GoodRuntime(s)
  <2>1. IsSeq(<<>>) /\ Len(<<>>) <= MaxPresentationEvents
    BY NothingIsSeq, LimitsAssumption
  <2> QED BY <1>2, <2>1 DEF RoomInvariant, GoodRuntime, GoodState
<1> QED BY <1>1, <1>2, <1>3 DEF RoomInvariant

-----------------------------------------------------------------------------
(* Host migration *)

LEMMA PrepareKeeps ==
  ASSUME RoomInvariant, PrepareHostMigration
  PROVE  RoomInvariant'
<1> DEFINE e == [archive |-> SaveOf(host), clients |-> clients,
                 nextHostSequence |-> nextHostSequence,
                 accepted |-> accepted, discarded |-> discarded, faults |-> faults]
<1>1. /\ \A id \in DOMAIN clients : clients[id].pending = <<>>
      /\ envelope' = e
      /\ UNCHANGED <<host, clients, nextHostSequence, accepted, discarded, faults>>
  BY DEF PrepareHostMigration
<1>2. GoodSave(SaveOf(host)) /\ SaveOf(host).hash = host.hash
  BY SaveIsGood DEF RoomInvariant, SaveOf
<1>3. Sequenced(host.hash, <<>>, nextHostSequence)
  <2> DEFINE C == CommittedInputs(host.hash)
  <2>1. /\ C \in Seq(LogicalInputs) /\ host.pending \in Seq(LogicalInputs)
        /\ nextHostSequence \in Nat \ {0} /\ Increasing(C \o host.pending, nextHostSequence)
    BY DEF RoomInvariant, Sequenced
  <2> HIDE DEF C
  <2>2. Increasing(C, nextHostSequence)
    BY <2>1, IncreasingEnds
  <2>3. C \o <<>> = C /\ <<>> \in Seq(LogicalInputs)
    BY <2>1, ConcatEmptySeq, EmptySequence
  <2>4. Increasing(C \o <<>>, nextHostSequence)
    BY <2>2, <2>3
  <2> QED BY <2>1, <2>3, <2>4, Zenon DEF Sequenced, C
<1>4. /\ e.archive = SaveOf(host) /\ e.clients = clients /\ e.nextHostSequence = nextHostSequence
      /\ e.accepted = accepted /\ e.discarded = discarded /\ e.faults = faults
  OBVIOUS
<1> HIDE DEF e
<1>5. GoodEnvelope(e)
  BY <1>1, <1>2, <1>3, <1>4 DEF RoomInvariant, GoodEnvelope
<1> QED BY <1>1, <1>5 DEF RoomInvariant

LEMMA AdoptKeeps ==
  ASSUME RoomInvariant, NEW candidate \in {host, NewRuntime}, AdoptHostMigration(candidate)
  PROVE  RoomInvariant'
<1> DEFINE e == envelope
           s == LoadSaveInto(candidate, e.archive).runtime
<1>1. /\ e # NoEnvelope /\ LoadSaveInto(candidate, e.archive).error = "none"
      /\ host' = s
      /\ clients' = [id \in DOMAIN e.clients |-> [e.clients[id] EXCEPT !.pending = <<>>]]
      /\ nextHostSequence' = e.nextHostSequence /\ accepted' = e.accepted
      /\ discarded' = e.discarded /\ faults' = e.faults /\ envelope' = e
  BY DEF AdoptHostMigration
<1>2. GoodEnvelope(e)
  BY <1>1 DEF RoomInvariant
<1>3. GoodRuntime(candidate)
  BY NewRuntimeIsGood DEF RoomInvariant
<1>4. candidate.pending = <<>>
  BY <1>1 DEF LoadSaveInto, Outcome
<1>5. GoodRuntime(s) /\ SaveOf(s) = e.archive /\ s.pending = <<>>
  BY <1>2, <1>3, <1>4, LoadIsGood DEF GoodEnvelope
<1>6. s.hash = e.archive.hash
  BY <1>5 DEF SaveOf
<1> HIDE DEF s
<1>7. clients' \in Peers /\ \A id \in DOMAIN clients' : clients'[id].pending = <<>>
  BY <1>1, <1>2, QueuesAreCleared DEF GoodEnvelope
<1>8. \A a : QueuedAt(clients', a) = QueuedAt(e.clients, a)
  BY <1>2, <1>7, NothingIsQueued DEF GoodEnvelope
<1>9. Balanced(clients', s.hash, e.accepted, e.discarded, e.faults)
  BY <1>2, <1>6, <1>8 DEF GoodEnvelope, Balanced
<1>10. Sequenced(s.hash, s.pending, e.nextHostSequence)
  BY <1>2, <1>5, <1>6 DEF GoodEnvelope
<1>11. e.accepted \in Tallies /\ e.discarded \in Tallies /\ e.faults \in Nat
  BY <1>2 DEF GoodEnvelope
<1> QED BY <1>1, <1>2, <1>5, <1>7, <1>9, <1>10, <1>11 DEF RoomInvariant

LEMMA RoomKeeps == RoomInvariant /\ [RoomNext]_roomVars => RoomInvariant'
<1> SUFFICES ASSUME RoomInvariant, [RoomNext]_roomVars PROVE RoomInvariant'
  OBVIOUS
<1>1. CASE \E hello \in Hellos : Connect(hello)
  BY <1>1, ConnectKeeps
<1>2. CASE \E id \in DOMAIN clients : Disconnect(id)
  BY <1>2, DisconnectKeeps
<1>3. CASE \E id \in DOMAIN clients, hello \in Hellos : Reconnect(id, hello)
  BY <1>3, ReconnectKeeps
<1>4. CASE \E id \in DOMAIN clients, input \in ClientInputs : SubmitInput(id, input)
  BY <1>4, SubmitKeeps
<1>5. CASE AdvanceRoom
  BY <1>5, AdvanceKeeps
<1>6. CASE DrainEvents
  BY <1>6, DrainKeeps
<1>7. CASE PrepareHostMigration
  BY <1>7, PrepareKeeps
<1>8. CASE \E candidate \in {host, NewRuntime} : AdoptHostMigration(candidate)
  BY <1>8, AdoptKeeps
<1>9. CASE UNCHANGED roomVars
  BY <1>9 DEF roomVars, RoomInvariant
<1> QED BY <1>1, <1>2, <1>3, <1>4, <1>5, <1>6, <1>7, <1>8, <1>9 DEF RoomNext

\* Every reachable room satisfies the invariant: after any submits, disconnects, ticks
\* that fail half-way and migrations, what it took in is accounted for.
THEOREM RoomIsSound == RoomSpec => []RoomInvariant
BY RoomStarts, RoomKeeps, PTL DEF RoomSpec

-----------------------------------------------------------------------------
(* What the room promises *)

\* Every reachable room is well typed: RoomTypeOK of LoopbackRoom.tla.
THEOREM RoomTypeCorrect == RoomSpec => []RoomTypeOK
<1>1. RoomInvariant => RoomTypeOK
  <2> SUFFICES ASSUME RoomInvariant PROVE RoomTypeOK
    OBVIOUS
  <2>1. clients \in Peers /\ \A id \in DOMAIN clients : clients[id] \in GoodClients
    BY PeersAreGood DEF RoomInvariant
  <2>2. clients \in Seq(Clients) /\ Len(clients) <= MaxClients
    <3>1. GoodClients \subseteq Clients
      BY DEF GoodClients, Backlogs, Clients
    <3>2. clients \in Seq(GoodClients) /\ Len(clients) <= MaxClients
      BY <2>1 DEF Peers
    <3> QED BY <3>1, <3>2, SeqMonotonic
  <2>3. \A id \in DOMAIN clients : Len(clients[id].pending) <= MaxClientInputs
    BY <2>1, ClientIsGood
  <2>4. Len(host.pending) <= MaxPendingInputs /\ nextHostSequence \in Nat \ {0}
    BY DEF RoomInvariant, GoodRuntime, Sequenced
  <2>5. accepted \in [Actions -> Nat] /\ discarded \in [Actions -> Nat] /\ faults \in Nat
    BY DEF RoomInvariant, Tallies
  <2> QED BY <2>2, <2>3, <2>4, <2>5 DEF RoomTypeOK
<1> QED BY <1>1, RoomIsSound, PTL

\* An input a peer was told is accepted is committed, queued or dropped with its peer,
\* also when an advance fails after it submitted it to the host, and host sequences
\* increase, whatever the gameplay and however many actions, peers and migrations there
\* are: NoInputIsLost.
THEOREM InputsAreNeverLost == RoomSpec => []NoInputIsLost
<1>1. RoomInvariant => NoInputIsLost
  BY DEF RoomInvariant, Sequenced, Increasing, Balanced, NoInputIsLost, SequencesIncrease, Queued
<1> QED BY <1>1, RoomIsSound, PTL

\* As long as no advance failed, none is committed twice: of each action, as many are
\* committed, queued or dropped as were accepted (CleanRoomCommitsOnce).
THEOREM CleanRoomsCommitOnce == RoomSpec => []CleanRoomCommitsOnce
<1>1. RoomInvariant => CleanRoomCommitsOnce
  BY DEF RoomInvariant, Balanced, CleanRoomCommitsOnce, Queued
<1> QED BY <1>1, RoomIsSound, PTL

\* prepare_host_migration leaves no accepted input behind in a queue: the envelope the
\* next host starts from has all of them in its archive: EnvelopeIsSettled.
THEOREM EnvelopesAreSettled == RoomSpec => []EnvelopeIsSettled
<1>1. RoomInvariant => EnvelopeIsSettled
  <2> SUFFICES ASSUME RoomInvariant, envelope # NoEnvelope, NEW a \in Actions
               PROVE  envelope.accepted[a]
                        <= Committed(a, envelope.archive.hash) + envelope.discarded[a]
    BY DEF EnvelopeIsSettled
  <2> DEFINE e == envelope
  <2>1. GoodEnvelope(e)
    BY DEF RoomInvariant
  <2>2. QueuedAt(e.clients, a) = {}
    BY <2>1, NothingIsQueued DEF GoodEnvelope
  <2>3. e.accepted[a] <= Committed(a, e.archive.hash) + 0 + e.discarded[a]
    BY <2>1, <2>2, FS_EmptySet DEF GoodEnvelope, Balanced
  <2>4. Committed(a, e.archive.hash) \in Nat /\ e.discarded[a] \in Nat
    BY <2>1, CommittedIsNatural DEF GoodEnvelope, Sequenced, Tallies
  <2> QED BY <2>3, <2>4
<1> QED BY <1>1, RoomIsSound, PTL

-----------------------------------------------------------------------------
Worlds == [state : [Chunks -> ChunkStates], pending : SUBSET Jobs,
           nextSequence : Nat \ {0}]

WellFormed(w) ==
  /\ w \in Worlds
  /\ \A j \in w.pending : Applies(w, j) /\ j.sequence < w.nextSequence
  /\ \A i, j \in w.pending : i.chunk = j.chunk => i = j
  /\ \A i, j \in w.pending : i.sequence = j.sequence => i = j
  /\ \A c \in Chunks :
       w.state[c] \in {"generating", "meshing"} => \E j \in w.pending : j.chunk = c

-----------------------------------------------------------------------------
(* Jobs and their order *)

\* A world has at most one job per chunk, and finitely many chunks.
LEMMA PendingJobsAreFinite ==
  ASSUME NEW w, WellFormed(w)
  PROVE  IsFiniteSet(w.pending)
<1> DEFINE chunkOf == [j \in w.pending |-> j.chunk]
<1>1. chunkOf \in [w.pending -> Chunks]
  BY DEF WellFormed, Worlds, Jobs
<1>2. \A i, j \in w.pending : chunkOf[i] = chunkOf[j] => i = j
  BY DEF WellFormed
<1>3. chunkOf \in Injection(w.pending, Chunks)
  BY <1>1, <1>2 DEF Injection, IsInjective
<1> QED BY <1>3, FS_Injection, ChunksAssumption

\* Kind, place and sequence order any two jobs with different sequences.
LEMMA BeforeIsTotal ==
  ASSUME NEW i \in Jobs, NEW j \in Jobs, i.sequence # j.sequence
  PROVE  Before(i, j) \/ Before(j, i)
<1>1. /\ i.kind \in {"generate", "mesh"} /\ j.kind \in {"generate", "mesh"}
      /\ i.sequence \in Nat /\ j.sequence \in Nat
      /\ Place[i.chunk] \in Int /\ Place[j.chunk] \in Int
  BY ChunksAssumption DEF Jobs
<1> QED BY <1>1 DEF Before

LEMMA BeforeIsStrict ==
  ASSUME NEW i \in Jobs, NEW j \in Jobs, NEW k \in Jobs
  PROVE  /\ ~Before(i, i)
         /\ Before(i, j) /\ Before(j, k) => Before(i, k)
<1>1. /\ i.kind \in {"generate", "mesh"} /\ j.kind \in {"generate", "mesh"}
      /\ k.kind \in {"generate", "mesh"}
      /\ i.sequence \in Nat /\ j.sequence \in Nat /\ k.sequence \in Nat
      /\ Place[i.chunk] \in Int /\ Place[j.chunk] \in Int /\ Place[k.chunk] \in Int
  BY ChunksAssumption DEF Jobs
<1> QED BY <1>1 DEF Before

LEMMA RanksAreBounded ==
  ASSUME NEW jobs \in SUBSET Jobs, IsFiniteSet(jobs), NEW j \in jobs
  PROVE  Rank(jobs, j) \in Nat /\ Rank(jobs, j) < Cardinality(jobs)
<1> DEFINE earlier == {i \in jobs : Before(i, j)}
<1>1. earlier \in SUBSET jobs /\ j \notin earlier
  BY BeforeIsStrict
<1>2. IsFiniteSet(earlier) /\ Cardinality(earlier) <= Cardinality(jobs)
      /\ Cardinality(earlier) # Cardinality(jobs)
  BY <1>1, FS_Subset
<1>3. Cardinality(earlier) \in Nat /\ Cardinality(jobs) \in Nat
  BY <1>2, FS_CardinalityType
<1> QED BY <1>2, <1>3 DEF Rank

LEMMA EarlierRanksLower ==
  ASSUME NEW jobs \in SUBSET Jobs, IsFiniteSet(jobs), NEW i \in jobs, NEW j \in jobs,
         Before(i, j)
  PROVE  Rank(jobs, i) < Rank(jobs, j)
<1> DEFINE first == {k \in jobs : Before(k, i)}
           second == {k \in jobs : Before(k, j)}
<1>1. first \in SUBSET second /\ i \in second /\ i \notin first
  BY BeforeIsStrict
<1>2. IsFiniteSet(second)
  BY FS_Subset, second \in SUBSET jobs
<1>3. IsFiniteSet(first) /\ Cardinality(first) <= Cardinality(second)
      /\ Cardinality(first) # Cardinality(second)
  BY <1>1, <1>2, FS_Subset
<1>4. Cardinality(first) \in Nat /\ Cardinality(second) \in Nat
  BY <1>2, <1>3, FS_CardinalityType
<1> QED BY <1>3, <1>4 DEF Rank

\* No two jobs of a set with distinct sequences have the same rank.
LEMMA RanksAreDistinct ==
  ASSUME NEW jobs \in SUBSET Jobs, IsFiniteSet(jobs), NEW i \in jobs, NEW j \in jobs,
         i.sequence # j.sequence
  PROVE  Rank(jobs, i) # Rank(jobs, j)
<1>1. Rank(jobs, i) \in Nat /\ Rank(jobs, j) \in Nat
  BY RanksAreBounded
<1>2. CASE Before(i, j)
  BY <1>1, <1>2, EarlierRanksLower
<1>3. CASE Before(j, i)
  BY <1>1, <1>3, EarlierRanksLower
<1> QED BY <1>2, <1>3, BeforeIsTotal

-----------------------------------------------------------------------------
(* Requests and ticks *)

LEMMA RequestKeepsWorld ==
  ASSUME NEW w, WellFormed(w), NEW c \in Chunks, w.state[c] = "unloaded"
  PROVE  WellFormed(RequestIn(w, c))
<1> DEFINE new == Job("generate", c, w.nextSequence, GenerationSteps)
           v == RequestIn(w, c)
<1>1. w \in Worlds
  BY DEF WellFormed
<1>2. new \in Jobs
  BY <1>1, ConfigAssumption DEF Job, Jobs, Worlds
<1>3. /\ v.state = [w.state EXCEPT ![c] = "generating"]
      /\ v.pending = w.pending \union {new}
      /\ v.nextSequence = w.nextSequence + 1
      /\ v \in Worlds
  <2> DEFINE state == [w.state EXCEPT ![c] = "generating"]
             pending == w.pending \union {new}
  <2>1. v = [w EXCEPT !.state = state, !.pending = pending, !.nextSequence = @ + 1]
    BY <1>1 DEF RequestIn, Worlds
  <2>2. state \in [Chunks -> ChunkStates] /\ pending \subseteq Jobs
        /\ w.nextSequence + 1 \in Nat \ {0}
    BY <1>1, <1>2 DEF Worlds, ChunkStates
  <2> HIDE DEF v, state, pending, new
  <2>3. v \in Worlds /\ v.state = state /\ v.pending = pending
        /\ v.nextSequence = w.nextSequence + 1
    BY <1>1, <2>1, <2>2 DEF Worlds
  <2> QED BY <2>3 DEF state, pending
<1>4. \A j \in w.pending : j \in Jobs /\ j.chunk # c
  BY <1>1 DEF WellFormed, Applies, Worlds, Jobs
<1>5. new.chunk = c /\ new.kind = "generate" /\ new.sequence = w.nextSequence
  BY DEF Job
<1> HIDE DEF new, v
<1>6. \A j \in v.pending : Applies(v, j) /\ j.sequence < v.nextSequence
  BY <1>1, <1>3, <1>4, <1>5 DEF WellFormed, Applies, Worlds, Jobs
<1>7. \A i, j \in v.pending : i.chunk = j.chunk => i = j
  BY <1>3, <1>4, <1>5 DEF WellFormed
<1>8. \A i, j \in v.pending : i.sequence = j.sequence => i = j
  BY <1>1, <1>3, <1>4, <1>5 DEF WellFormed, Worlds, Jobs
<1>9. \A d \in Chunks : v.state[d] \in {"generating", "meshing"} =>
        \E j \in v.pending : j.chunk = d
  BY <1>1, <1>3, <1>5 DEF WellFormed, Worlds
<1> QED BY <1>3, <1>6, <1>7, <1>8, <1>9 DEF WellFormed, v

\* In a well-formed world every result applies.
LEMMA EveryResultApplies ==
  ASSUME NEW w, WellFormed(w)
  PROVE  AppliedResults(w) = Finished(w)
BY DEF AppliedResults, Finished, Worked, WellFormed

\* The jobs after a tick: those it did not finish, and a meshing per generation.
LEMMA JobsAfterTick ==
  ASSUME NEW w, WellFormed(w), NEW j \in AdvanceIn(w).pending
  PROVE  /\ j \in Jobs
         /\ \/ \E p \in w.pending \ Finished(w) :
                 /\ j.kind = p.kind /\ j.chunk = p.chunk /\ j.sequence = p.sequence
                 /\ j = IF p \in Worked(w) THEN [p EXCEPT !.remaining = @ - 1] ELSE p
            \/ \E p \in Generated(w) :
                 j = Job("mesh", p.chunk, w.nextSequence + Rank(Generated(w), p), MeshSteps)
<1>1. j \in (w.pending \ Worked(w)) \union Yielding(w) \union MeshJobs(w)
  BY DEF AdvanceIn
<1>2. w.pending \subseteq Jobs /\ w.nextSequence \in Nat \ {0}
  BY DEF WellFormed, Worlds
<1>3. CASE j \in w.pending \ Worked(w)
  BY <1>2, <1>3 DEF Finished
<1>4. CASE j \in Yielding(w)
  <2>1. PICK p \in Worked(w) \ Finished(w) : j = [p EXCEPT !.remaining = @ - 1]
    BY <1>4 DEF Yielding
  <2>2. p \in w.pending /\ p \in Jobs /\ p.remaining # 1
    BY <1>2, <2>1 DEF Worked, Finished
  <2>3. j \in Jobs
    BY <2>1, <2>2, ConfigAssumption DEF Jobs
  <2>4. j.kind = p.kind /\ j.chunk = p.chunk /\ j.sequence = p.sequence
    BY <2>1, <2>2 DEF Jobs
  <2> QED BY <2>1, <2>2, <2>3, <2>4
<1>5. CASE j \in MeshJobs(w)
  <2>1. PICK p \in Generated(w) :
          j = Job("mesh", p.chunk, w.nextSequence + Rank(Generated(w), p), MeshSteps)
    BY <1>5 DEF MeshJobs
  <2>2. Generated(w) \subseteq w.pending
    BY DEF Generated, AppliedResults, Finished, Worked
  <2>3. IsFiniteSet(Generated(w))
    BY <2>2, PendingJobsAreFinite, FS_Subset
  <2>4. Rank(Generated(w), p) \in Nat
    BY <1>2, <2>2, <2>3, RanksAreBounded
  <2>5. j \in Jobs
    BY <1>2, <2>1, <2>2, <2>4, ConfigAssumption DEF Job, Jobs
  <2> QED BY <2>1, <2>5
<1> QED BY <1>1, <1>3, <1>4, <1>5

LEMMA TickKeepsWorld ==
  ASSUME NEW w, WellFormed(w)
  PROVE  WellFormed(AdvanceIn(w))
<1> DEFINE v == AdvanceIn(w)
<1>1. w \in Worlds /\ w.pending \subseteq Jobs /\ w.nextSequence \in Nat \ {0}
  BY DEF WellFormed, Worlds
<1>2. Generated(w) = {j \in Finished(w) : j.kind = "generate"}
  BY EveryResultApplies DEF Generated
<1>3. Finished(w) \subseteq w.pending /\ Generated(w) \subseteq Finished(w)
  BY <1>2 DEF Finished, Worked
<1>4. IsFiniteSet(Generated(w))
  BY <1>3, PendingJobsAreFinite, FS_Subset
<1>5. Cardinality(Generated(w)) \in Nat
  BY <1>4, FS_CardinalityType
<1>6. \A p \in Generated(w) : Rank(Generated(w), p) \in Nat
                             /\ Rank(Generated(w), p) < Cardinality(Generated(w))
  BY <1>1, <1>3, <1>4, RanksAreBounded
<1>7. \A c \in Chunks :
        v.state[c] = IF \E j \in Finished(w) : j.chunk = c
                     THEN IF w.state[c] = "generating" THEN "meshing" ELSE "resident"
                     ELSE w.state[c]
  BY EveryResultApplies DEF AdvanceIn
<1>8. v.nextSequence = w.nextSequence + Cardinality(Generated(w))
  BY DEF AdvanceIn
<1>9. v.pending = (w.pending \ Worked(w)) \union Yielding(w) \union MeshJobs(w)
  BY DEF AdvanceIn
<1>10. v \in Worlds
  <2>1. v.pending \subseteq Jobs
    BY JobsAfterTick
  <2>2. v.state \in [Chunks -> ChunkStates]
    BY <1>1 DEF AdvanceIn, Worlds, ChunkStates
  <2>3. v.nextSequence \in Nat \ {0}
    BY <1>1, <1>5, <1>8
  <2>4. v = [state |-> v.state, pending |-> v.pending, nextSequence |-> v.nextSequence]
    BY DEF AdvanceIn
  <2> QED BY <2>1, <2>2, <2>3, <2>4 DEF Worlds
<1> DEFINE Carries(j, p) ==
             /\ p \in w.pending \ Finished(w)
             /\ j.kind = p.kind /\ j.chunk = p.chunk /\ j.sequence = p.sequence
             /\ j = IF p \in Worked(w) THEN [p EXCEPT !.remaining = @ - 1] ELSE p
           Follows(j, p) ==
             /\ p \in Generated(w)
             /\ j = Job("mesh", p.chunk, w.nextSequence + Rank(Generated(w), p), MeshSteps)
<1>11. \A j \in v.pending : j \in Jobs /\ \E p : Carries(j, p) \/ Follows(j, p)
  BY JobsAfterTick
<1>12. \A j, p : Follows(j, p) =>
         j.kind = "mesh" /\ j.chunk = p.chunk
         /\ j.sequence = w.nextSequence + Rank(Generated(w), p)
  BY DEF Job
<1>13. \A j, p : Carries(j, p) \/ Follows(j, p) => p \in w.pending /\ p \in Jobs
                                                  /\ j.chunk = p.chunk
  BY <1>1, <1>3, <1>12
<1>14. \A p, q \in w.pending : p.chunk = q.chunk \/ p.sequence = q.sequence => p = q
  BY DEF WellFormed
<1>15. \A p \in w.pending : /\ Applies(w, p) /\ p.sequence < w.nextSequence
                            /\ p.sequence \in Nat /\ p.chunk \in Chunks
                            /\ p.kind \in {"generate", "mesh"}
  BY <1>1 DEF WellFormed, Jobs
<1> HIDE DEF v, Carries, Follows
<1>16. \A j \in v.pending : Applies(v, j) /\ j.sequence < v.nextSequence
  <2> SUFFICES ASSUME NEW j \in v.pending
               PROVE  Applies(v, j) /\ j.sequence < v.nextSequence
    OBVIOUS
  <2>1. PICK p : Carries(j, p) \/ Follows(j, p)
    BY <1>11
  <2>2. CASE Carries(j, p)
    <3>1. v.state[p.chunk] = w.state[p.chunk]
      BY <1>3, <1>7, <1>14, <1>15, <2>2 DEF Carries
    <3>2. Applies(v, j)
      BY <1>15, <2>2, <3>1 DEF Applies, Carries
    <3>3. j.sequence < v.nextSequence
      BY <1>1, <1>5, <1>8, <1>15, <2>2 DEF Carries
    <3> QED BY <3>2, <3>3
  <2>3. CASE Follows(j, p)
    <3>1. p \in Finished(w) /\ p \in w.pending /\ p.kind = "generate"
      BY <1>2, <1>3, <2>3 DEF Follows
    <3>2. v.state[p.chunk] = "meshing"
      BY <1>7, <1>15, <3>1 DEF Applies
    <3>3. Applies(v, j)
      BY <1>12, <2>3, <3>2 DEF Applies
    <3>4. p \in Generated(w)
      BY <2>3 DEF Follows
    <3>5. j.sequence < v.nextSequence
      BY <1>1, <1>5, <1>6, <1>8, <1>12, <2>3, <3>4
    <3> QED BY <3>3, <3>5
  <2> QED BY <2>1, <2>2, <2>3
<1>17. \A i, j \in v.pending : i.chunk = j.chunk => i = j
  <2> SUFFICES ASSUME NEW i \in v.pending, NEW j \in v.pending, i.chunk = j.chunk
               PROVE  i = j
    OBVIOUS
  <2>1. PICK p : Carries(i, p) \/ Follows(i, p)
    BY <1>11
  <2>2. PICK q : Carries(j, q) \/ Follows(j, q)
    BY <1>11
  <2>3. p = q
    BY <1>13, <1>14, <2>1, <2>2
  <2> QED BY <1>3, <2>1, <2>2, <2>3 DEF Carries, Follows
<1>18. \A i, j \in v.pending : i.sequence = j.sequence => i = j
  <2> SUFFICES ASSUME NEW i \in v.pending, NEW j \in v.pending, i.sequence = j.sequence
               PROVE  i = j
    OBVIOUS
  <2>1. PICK p : Carries(i, p) \/ Follows(i, p)
    BY <1>11
  <2>2. PICK q : Carries(j, q) \/ Follows(j, q)
    BY <1>11
  <2>3. p \in w.pending /\ q \in w.pending
    BY <1>13, <2>1, <2>2
  <2>4. CASE Carries(i, p) /\ Carries(j, q)
    BY <1>14, <2>3, <2>4 DEF Carries
  <2>5. CASE Follows(i, p) /\ Follows(j, q)
    <3>1. p \in Generated(w) /\ q \in Generated(w)
      BY <2>5 DEF Follows
    <3>2. Rank(Generated(w), p) = Rank(Generated(w), q)
      BY <1>1, <1>6, <1>12, <2>5, <3>1
    <3>3. p.sequence = q.sequence
      BY <1>1, <1>3, <1>4, <3>1, <3>2, RanksAreDistinct
    <3>4. p = q
      BY <1>14, <2>3, <3>3
    <3> QED BY <2>5, <3>4 DEF Follows
  <2>6. CASE Carries(i, p) /\ Follows(j, q)
    <3>1. i.sequence < w.nextSequence /\ i.sequence \in Nat
      BY <1>15, <2>6 DEF Carries
    <3>2. q \in Generated(w) /\ j.sequence = w.nextSequence + Rank(Generated(w), q)
      BY <1>12, <2>6 DEF Follows
    <3> QED BY <1>1, <1>6, <3>1, <3>2
  <2>7. CASE Follows(i, p) /\ Carries(j, q)
    <3>1. j.sequence < w.nextSequence /\ j.sequence \in Nat
      BY <1>15, <2>7 DEF Carries
    <3>2. p \in Generated(w) /\ i.sequence = w.nextSequence + Rank(Generated(w), p)
      BY <1>12, <2>7 DEF Follows
    <3> QED BY <1>1, <1>6, <3>1, <3>2
  <2> QED BY <2>1, <2>2, <2>4, <2>5, <2>6, <2>7
<1>19. \A c \in Chunks :
         v.state[c] \in {"generating", "meshing"} => \E j \in v.pending : j.chunk = c
  <2> SUFFICES ASSUME NEW c \in Chunks, v.state[c] \in {"generating", "meshing"}
               PROVE  \E j \in v.pending : j.chunk = c
    OBVIOUS
  <2>1. CASE \E p \in Finished(w) : p.chunk = c
    <3>1. PICK p \in Finished(w) : p.chunk = c
      BY <2>1
    <3>2. w.state[c] = "generating"
      BY <1>7, <3>1
    <3>3. p \in Generated(w)
      BY <1>2, <1>3, <1>15, <3>1, <3>2 DEF Applies
    <3>4. Job("mesh", p.chunk, w.nextSequence + Rank(Generated(w), p), MeshSteps) \in v.pending
      BY <1>9, <3>3 DEF MeshJobs
    <3> QED BY <3>1, <3>4 DEF Job
  <2>2. CASE \A p \in Finished(w) : p.chunk # c
    <3>1. PICK p \in w.pending : p.chunk = c
      BY <1>7, <2>2 DEF WellFormed
    <3>2. p \in Jobs /\ p \notin Finished(w)
      BY <1>1, <2>2, <3>1
    <3>3. CASE p \in Worked(w)
      <4>1. [p EXCEPT !.remaining = @ - 1] \in v.pending
        BY <1>9, <3>2, <3>3 DEF Yielding
      <4> QED BY <3>1, <3>2, <4>1 DEF Jobs
    <3>4. CASE p \notin Worked(w)
      BY <1>9, <3>1, <3>4
    <3> QED BY <3>3, <3>4
  <2> QED BY <2>1, <2>2
<1> QED BY <1>10, <1>16, <1>17, <1>18, <1>19 DEF WellFormed, v

-----------------------------------------------------------------------------
(* The inductive invariant *)

Records == [detail : Details \union {"none"}, last : 0..TickLimit]

WorldInvariant ==
  /\ WellFormed(world)
  /\ tick \in 0..TickLimit
  /\ simulation \in [Chunks -> Records]
  /\ UpdatesKeepCadence

LEMMA CadencesArePositive ==
  /\ DOMAIN Cadence = {"active", "simplified", "aggregated"}
  /\ \A detail \in DOMAIN Cadence : Cadence[detail] \in Nat \ {0}
BY DEF Cadence

LEMMA WorldInvariantInitially == Init => WorldInvariant
<1> SUFFICES ASSUME Init PROVE WorldInvariant
  OBVIOUS
<1>1. WellFormed(world)
  BY DEF Init, NewWorld, WellFormed, Worlds, ChunkStates
<1>2. tick \in 0..TickLimit /\ simulation \in [Chunks -> Records]
  BY ConfigAssumption DEF Init, Records
<1>3. UpdatesKeepCadence
  BY CadencesArePositive DEF Init, UpdatesKeepCadence
<1> QED BY <1>1, <1>2, <1>3 DEF WorldInvariant

\* An update brings a detail up to the present tick in the tick that completes its
\* cadence, so what is left after a tick is less than the cadence.
LEMMA UpdateKeepsCadence ==
  ASSUME WorldInvariant, NEW c \in Chunks, NEW now \in 0..TickLimit,
         now \in {tick, tick + 1},
         NEW record, record = Updated(simulation[c], now)
  PROVE  /\ record \in Records
         /\ record.detail \in DOMAIN Cadence =>
              now - record.last \in 0..(Cadence[record.detail] - 1)
<1> DEFINE old == simulation[c]
<1>1. old \in Records /\ tick \in 0..TickLimit /\ TickLimit \in Nat
  BY ConfigAssumption DEF WorldInvariant
<1>2. old.detail \in DOMAIN Cadence => tick - old.last \in 0..(Cadence[old.detail] - 1)
  BY DEF WorldInvariant, UpdatesKeepCadence
<1>3. old.last \in Nat /\ now \in Nat
  BY <1>1 DEF Records
<1> HIDE DEF old
<1>4. CASE old.detail \in DOMAIN Cadence /\ now - old.last >= Cadence[old.detail]
  <2>1. record = [old EXCEPT !.last = now]
    BY <1>4 DEF Updated, old
  <2>2. record \in Records /\ record.last = now /\ record.detail = old.detail
    BY <1>1, <2>1 DEF Records
  <2> QED BY <1>3, <1>4, <2>2, CadencesArePositive
<1>5. CASE ~(old.detail \in DOMAIN Cadence /\ now - old.last >= Cadence[old.detail])
  <2>1. record = old
    BY <1>5 DEF Updated, old
  <2>2. old.detail \in DOMAIN Cadence =>
          now - old.last \in 0..(Cadence[old.detail] - 1)
    BY <1>1, <1>2, <1>3, <1>5, CadencesArePositive
  <2> QED BY <1>1, <2>1, <2>2
<1> QED BY <1>4, <1>5

LEMMA WorldInvariantSteps == WorldInvariant /\ [Next]_vars => WorldInvariant'
<1> SUFFICES ASSUME WorldInvariant, [Next]_vars
             PROVE  WorldInvariant'
  OBVIOUS
<1>1. ASSUME NEW c \in Chunks, Request(c)
      PROVE  WorldInvariant'
  <2>1. WellFormed(world)'
    BY <1>1, RequestKeepsWorld DEF Request, WorldInvariant
  <2> QED BY <1>1, <2>1 DEF Request, WorldInvariant, UpdatesKeepCadence
<1>2. ASSUME NEW c \in Simulated, NEW detail \in Details, SetSimulationDetail(c, detail)
      PROVE  WorldInvariant'
  <2> DEFINE new == [detail |-> detail, last |-> tick]
  <2>1. new \in Records /\ new.last = tick /\ tick \in Int
    BY ConfigAssumption DEF WorldInvariant, Records
  <2>2. simulation' = [simulation EXCEPT ![c] = new] /\ tick' = tick /\ world' = world
    BY <1>2 DEF SetSimulationDetail
  <2> HIDE DEF new
  <2>3. simulation' \in [Chunks -> Records]
    BY <2>1, <2>2 DEF WorldInvariant
  <2>4. \A d \in Chunks : simulation'[d] = IF d = c THEN new ELSE simulation[d]
    BY <2>2 DEF WorldInvariant
  <2>5. new.detail \in DOMAIN Cadence => tick - new.last \in 0..(Cadence[new.detail] - 1)
    BY <2>1, CadencesArePositive
  <2>6. UpdatesKeepCadence'
    BY <2>2, <2>4, <2>5 DEF WorldInvariant, UpdatesKeepCadence
  <2> QED BY <2>2, <2>3, <2>6 DEF WorldInvariant, WellFormed, Applies
<1>3. CASE Advance
  <2>1. WellFormed(world)'
    BY <1>3, TickKeepsWorld DEF Advance, WorldInvariant
  <2>2. tick' \in 0..TickLimit /\ tick' \in {tick, tick + 1}
    BY <1>3, ConfigAssumption DEF Advance, TickAfter, WorldInvariant
  <2>3. simulation' = [c \in Chunks |-> Updated(simulation[c], tick')]
    BY <1>3 DEF Advance
  <2>4. \A c \in Chunks :
          /\ simulation'[c] \in Records
          /\ simulation'[c].detail \in DOMAIN Cadence =>
               tick' - simulation'[c].last \in 0..(Cadence[simulation'[c].detail] - 1)
    BY <2>2, <2>3, UpdateKeepsCadence
  <2>5. simulation' \in [Chunks -> Records]
    BY <2>3, <2>4
  <2> QED BY <2>1, <2>2, <2>4, <2>5 DEF WorldInvariant, UpdatesKeepCadence
<1>4. CASE UNCHANGED vars
  BY <1>4 DEF vars, WorldInvariant, UpdatesKeepCadence, WellFormed, Applies
<1> QED BY <1>1, <1>2, <1>3, <1>4 DEF Next

LEMMA WorldInvariantHolds == Spec => []WorldInvariant
<1> QED BY WorldInvariantInitially, WorldInvariantSteps, PTL DEF Spec

-----------------------------------------------------------------------------
(* What follows from it *)

\* Every reachable world is well typed: TypeOK of WorldRuntime.tla.
THEOREM WorldTypeCorrect == Spec => []TypeOK
<1>1. WorldInvariant => TypeOK
  BY DEF WorldInvariant, WellFormed, Worlds, Records, TypeOK
<1> QED BY <1>1, WorldInvariantHolds, PTL

\* No chunk is left without the job that would finish it, and none has two, whatever
\* the budget and however requests and ticks alternate: JobsMatchChunks.
THEOREM JobsAlwaysMatchChunks == Spec => []JobsMatchChunks
<1>1. WorldInvariant => JobsMatchChunks
  <2> SUFFICES ASSUME WorldInvariant, NEW c \in Chunks
               PROVE  IF world.state[c] \in {"generating", "meshing"}
                      THEN \E j \in world.pending : JobsOf(c) = {j} /\ Applies(world, j)
                      ELSE JobsOf(c) = {}
    BY DEF JobsMatchChunks
  <2>1. WellFormed(world)
    BY DEF WorldInvariant
  <2>2. CASE world.state[c] \in {"generating", "meshing"}
    <3>1. PICK j \in world.pending : j.chunk = c
      BY <2>1, <2>2 DEF WellFormed
    <3>2. JobsOf(c) = {j} /\ Applies(world, j)
      BY <2>1, <3>1 DEF WellFormed, JobsOf
    <3> QED BY <2>2, <3>2
  <2>3. CASE world.state[c] \notin {"generating", "meshing"}
    <3>1. \A j \in world.pending : j.chunk # c
      BY <2>1, <2>3 DEF WellFormed, Applies
    <3> QED BY <2>3, <3>1 DEF JobsOf
  <2> QED BY <2>2, <2>3
<1> QED BY <1>1, WorldInvariantHolds, PTL

\* Sorting the pending jobs, or the results of a tick, has a single outcome, for any
\* number of generators in one place: OrderIsTotal.
THEOREM OrderIsAlwaysTotal == Spec => []OrderIsTotal
<1>1. WorldInvariant => OrderIsTotal
  BY BeforeIsTotal DEF WorldInvariant, WellFormed, Worlds, OrderIsTotal
<1> QED BY <1>1, WorldInvariantHolds, PTL

\* No simulated chunk is as much as a cadence behind, also when the clock has stopped
\* at its limit: UpdatesKeepCadence.
THEOREM UpdatesAlwaysKeepCadence == Spec => []UpdatesKeepCadence
<1>1. WorldInvariant => UpdatesKeepCadence
  BY DEF WorldInvariant
<1> QED BY <1>1, WorldInvariantHolds, PTL

-----------------------------------------------------------------------------
(* Worlds that differ in nothing but the sequences of their jobs *)

Twin(p, q) == p.kind = q.kind /\ p.chunk = q.chunk /\ p.remaining = q.remaining

\* The same jobs, in the same order.
Alike(P, Q) ==
  /\ \A p \in P : \E q \in Q : Twin(p, q)
  /\ \A q \in Q : \E p \in P : Twin(p, q)
  /\ \A p, p2 \in P, q, q2 \in Q :
       Twin(p, q) /\ Twin(p2, q2) => (Before(p, p2) <=> Before(q, q2))

Similar(w, v) == w.state = v.state /\ Alike(w.pending, v.pending)

OneJobEach(P) == \A i, j \in P : i.chunk = j.chunk => i = j

LEMMA AlikeBothWays ==
  ASSUME NEW P, NEW Q, Alike(P, Q)
  PROVE  Alike(Q, P)
<1>1. \A p, q : Twin(p, q) <=> Twin(q, p)
  BY DEF Twin
<1> QED BY <1>1 DEF Alike

LEMMA AlikeIsTransitive ==
  ASSUME NEW P, NEW Q, NEW R, Alike(P, Q), Alike(Q, R)
  PROVE  Alike(P, R)
<1>1. \A p, q, r : Twin(p, q) /\ Twin(q, r) => Twin(p, r)
  BY DEF Twin
<1>2. \A p, q, r : Twin(p, q) /\ Twin(p, r) => Twin(q, r)
  BY DEF Twin
<1>3. ASSUME NEW p \in P, NEW p2 \in P, NEW r \in R, NEW r2 \in R,
             Twin(p, r), Twin(p2, r2)
      PROVE  Before(p, p2) <=> Before(r, r2)
  <2>1. PICK q \in Q : Twin(p, q)
    BY DEF Alike
  <2>2. PICK q2 \in Q : Twin(p2, q2)
    BY DEF Alike
  <2>3. Twin(q, r) /\ Twin(q2, r2)
    BY <1>2, <1>3, <2>1, <2>2
  <2>4. Before(p, p2) <=> Before(q, q2)
    BY <2>1, <2>2 DEF Alike
  <2>5. Before(q, q2) <=> Before(r, r2)
    BY <2>3 DEF Alike
  <2> QED BY <2>4, <2>5
<1>4. \A p \in P : \E r \in R : Twin(p, r)
  BY <1>1 DEF Alike
<1>5. \A r \in R : \E p \in P : Twin(p, r)
  BY <1>1 DEF Alike
<1> QED BY <1>3, <1>4, <1>5 DEF Alike

\* A job and its twin are as far from the front.
LEMMA TwinsHaveOneRank ==
  ASSUME NEW P, NEW Q, Alike(P, Q), OneJobEach(P), OneJobEach(Q), IsFiniteSet(P),
         IsFiniteSet(Q), NEW p \in P, NEW q \in Q, Twin(p, q)
  PROVE  Rank(P, p) = Rank(Q, q)
<1> DEFINE A == {i \in P : Before(i, p)}
           B == {i \in Q : Before(i, q)}
           twinOf == [i \in A |-> CHOOSE k \in Q : Twin(i, k)]
<1>1. \A i \in P : (CHOOSE k \in Q : Twin(i, k)) \in Q
                   /\ Twin(i, CHOOSE k \in Q : Twin(i, k))
  BY DEF Alike
<1>2. \A i \in A : twinOf[i] \in B /\ Twin(i, twinOf[i])
  <2> SUFFICES ASSUME NEW i \in A PROVE twinOf[i] \in B /\ Twin(i, twinOf[i])
    OBVIOUS
  <2>1. twinOf[i] \in Q /\ Twin(i, twinOf[i])
    BY <1>1
  <2>2. i \in P /\ Before(i, p)
    OBVIOUS
  <2> HIDE DEF twinOf
  <2>3. Before(twinOf[i], q)
    BY <2>1, <2>2 DEF Alike
  <2> QED BY <2>1, <2>3
<1>3. twinOf = [i \in A |-> twinOf[i]]
  OBVIOUS
<1> HIDE DEF twinOf
<1>4. \A i, j \in A : twinOf[i] = twinOf[j] => i = j
  BY <1>2 DEF Twin, OneJobEach
<1>5. \A k \in B : \E i \in A : twinOf[i] = k
  <2> SUFFICES ASSUME NEW k \in B PROVE \E i \in A : twinOf[i] = k
    OBVIOUS
  <2>1. PICK i \in P : Twin(i, k)
    BY DEF Alike
  <2>2. i \in A
    BY <2>1 DEF Alike
  <2>3. twinOf[i] \in Q /\ twinOf[i].chunk = k.chunk
    BY <1>2, <2>1, <2>2 DEF Twin
  <2> QED BY <2>2, <2>3 DEF OneJobEach
<1>6. IsFiniteSet(A) /\ IsFiniteSet(B)
  BY FS_Subset, A \subseteq P, B \subseteq Q
<1>7. Rank(P, p) = Cardinality(A) /\ Rank(Q, q) = Cardinality(B)
  BY DEF Rank
<1> HIDE DEF A, B
<1>8. twinOf \in Bijection(A, B)
  <2>1. twinOf \in [A -> B]
    BY <1>2, <1>3
  <2> QED BY <1>4, <1>5, <2>1 DEF Bijection, Injection, Surjection, IsInjective
<1>9. Cardinality(A) = Cardinality(B)
  BY <1>6, <1>8, FS_Bijection DEF ExistsBijection
<1> QED BY <1>7, <1>9

\* What is chosen by what twins share is alike.
LEMMA AlikeInPart ==
  ASSUME NEW P, NEW Q, Alike(P, Q), NEW P0 \in SUBSET P, NEW Q0 \in SUBSET Q,
         \A p \in P, q \in Q : Twin(p, q) => (p \in P0 <=> q \in Q0)
  PROVE  Alike(P0, Q0)
<1>1. \A p \in P0 : \E q \in Q0 : Twin(p, q)
  BY DEF Alike
<1>2. \A q \in Q0 : \E p \in P0 : Twin(p, q)
  BY DEF Alike
<1>3. \A p, p2 \in P0, q, q2 \in Q0 :
        Twin(p, q) /\ Twin(p2, q2) => (Before(p, p2) <=> Before(q, q2))
  BY DEF Alike
<1> QED BY <1>1, <1>2, <1>3 DEF Alike

\* Two similar worlds work on, finish and generate the same.
LEMMA SimilarWorldsDoTheSame ==
  ASSUME NEW w, NEW v, WellFormed(w), WellFormed(v), Similar(w, v),
         NEW p \in w.pending, NEW q \in v.pending, Twin(p, q)
  PROVE  /\ p \in Worked(w) <=> q \in Worked(v)
         /\ p \in Finished(w) <=> q \in Finished(v)
         /\ p \in Generated(w) <=> q \in Generated(v)
<1>1. OneJobEach(w.pending) /\ OneJobEach(v.pending)
  BY DEF WellFormed, OneJobEach
<1>2. Rank(w.pending, p) = Rank(v.pending, q)
  BY <1>1, TwinsHaveOneRank, PendingJobsAreFinite DEF Similar
<1>3. p \in Worked(w) <=> q \in Worked(v)
  BY <1>2 DEF Worked
<1>4. p \in Finished(w) <=> q \in Finished(v)
  BY <1>3 DEF Finished, Twin
<1>5. p \in Generated(w) <=> q \in Generated(v)
  BY <1>4, EveryResultApplies DEF Generated, Twin
<1> QED BY <1>3, <1>4, <1>5

\* What a tick leaves of a job: a meshing, a shorter job, or the job.
Heir(w, p) ==
  IF p \in Generated(w)
  THEN Job("mesh", p.chunk, w.nextSequence + Rank(Generated(w), p), MeshSteps)
  ELSE IF p \in Worked(w) THEN [p EXCEPT !.remaining = @ - 1] ELSE p

Leaving(w) == {p \in w.pending : p \in Finished(w) => p \in Generated(w)}

LEMMA PartsOfPending ==
  ASSUME NEW w, WellFormed(w)
  PROVE  /\ w.pending \subseteq Jobs /\ w.nextSequence \in Nat
         /\ Generated(w) = {p \in Finished(w) : p.kind = "generate"}
         /\ Finished(w) \subseteq Worked(w) /\ Worked(w) \subseteq w.pending
         /\ IsFiniteSet(w.pending) /\ IsFiniteSet(Generated(w))
         /\ OneJobEach(w.pending)
<1>1. w.pending \subseteq Jobs /\ w.nextSequence \in Nat
  BY DEF WellFormed, Worlds
<1>2. Generated(w) = {p \in Finished(w) : p.kind = "generate"}
  BY EveryResultApplies DEF Generated
<1>3. Finished(w) \subseteq Worked(w) /\ Worked(w) \subseteq w.pending
  BY DEF Finished, Worked
<1>4. IsFiniteSet(w.pending)
  BY PendingJobsAreFinite
<1>5. IsFiniteSet(Generated(w))
  BY <1>2, <1>3, <1>4, FS_Subset
<1>6. OneJobEach(w.pending)
  BY DEF WellFormed, OneJobEach
<1> QED BY <1>1, <1>2, <1>3, <1>4, <1>5, <1>6

LEMMA PendingAreHeirs ==
  ASSUME NEW w, WellFormed(w)
  PROVE  AdvanceIn(w).pending = {Heir(w, p) : p \in Leaving(w)}
<1> DEFINE after == AdvanceIn(w).pending
<1>1. after = (w.pending \ Worked(w)) \union Yielding(w) \union MeshJobs(w)
  BY DEF AdvanceIn
<1>2. /\ Generated(w) = {p \in Finished(w) : p.kind = "generate"}
      /\ Finished(w) \subseteq Worked(w) /\ Worked(w) \subseteq w.pending
  BY PartsOfPending
<1> HIDE DEF after
<1>3. ASSUME NEW j \in after
      PROVE  \E p \in Leaving(w) : j = Heir(w, p)
  <2>1. CASE j \in w.pending \ Worked(w)
    BY <1>2, <2>1 DEF Heir, Leaving
  <2>2. CASE j \in Yielding(w)
    <3>1. PICK p \in Worked(w) \ Finished(w) : j = [p EXCEPT !.remaining = @ - 1]
      BY <2>2 DEF Yielding
    <3>2. p \in Leaving(w) /\ p \notin Generated(w)
      BY <1>2, <3>1 DEF Leaving
    <3>3. Heir(w, p) = [p EXCEPT !.remaining = @ - 1]
      BY <3>1, <3>2 DEF Heir
    <3> QED BY <3>1, <3>2, <3>3
  <2>3. CASE j \in MeshJobs(w)
    <3>1. PICK p \in Generated(w) :
            j = Job("mesh", p.chunk, w.nextSequence + Rank(Generated(w), p), MeshSteps)
      BY <2>3 DEF MeshJobs
    <3>2. p \in Leaving(w)
      BY <1>2, <3>1 DEF Leaving
    <3> QED BY <3>1, <3>2 DEF Heir
  <2> QED BY <1>1, <1>3, <2>1, <2>2, <2>3
<1>4. ASSUME NEW p \in Leaving(w)
      PROVE  Heir(w, p) \in after
  <2>1. CASE p \in Generated(w)
    <3>1. Heir(w, p) \in MeshJobs(w)
      BY <2>1 DEF Heir, MeshJobs
    <3> QED BY <1>1, <3>1
  <2>2. CASE p \notin Generated(w) /\ p \in Worked(w)
    <3>1. p \notin Finished(w)
      BY <2>2 DEF Leaving
    <3>2. Heir(w, p) \in Yielding(w)
      BY <2>2, <3>1 DEF Heir, Yielding
    <3> QED BY <1>1, <3>2
  <2>3. CASE p \notin Generated(w) /\ p \notin Worked(w)
    <3>1. Heir(w, p) = p /\ p \in w.pending
      BY <2>3 DEF Heir, Leaving
    <3> QED BY <1>1, <2>3, <3>1
  <2> QED BY <2>1, <2>2, <2>3
<1>5. after = {Heir(w, p) : p \in Leaving(w)}
  BY <1>3, <1>4
<1> QED BY <1>5 DEF after

\* The fields of an heir.
LEMMA HeirsFields ==
  ASSUME NEW w, WellFormed(w), NEW p \in Leaving(w)
  PROVE  /\ Heir(w, p) \in Jobs /\ Heir(w, p).chunk = p.chunk
         /\ p \in Generated(w) =>
              /\ Heir(w, p).kind = "mesh" /\ Heir(w, p).remaining = MeshSteps
              /\ Rank(Generated(w), p) \in Nat
              /\ Heir(w, p).sequence = w.nextSequence + Rank(Generated(w), p)
         /\ p \notin Generated(w) =>
              /\ Heir(w, p).kind = p.kind /\ Heir(w, p).sequence = p.sequence
              /\ p.sequence < w.nextSequence
              /\ Heir(w, p).remaining = IF p \in Worked(w) THEN p.remaining - 1
                                        ELSE p.remaining
<1>1. /\ w.pending \subseteq Jobs /\ w.nextSequence \in Nat
      /\ Generated(w) \subseteq w.pending /\ IsFiniteSet(Generated(w))
  BY PartsOfPending
<1>2. p \in w.pending /\ p \in Jobs /\ p.sequence < w.nextSequence
  BY <1>1 DEF Leaving, WellFormed
<1>3. Heir(w, p) \in Jobs
  <2>1. Heir(w, p) \in AdvanceIn(w).pending
    BY PendingAreHeirs
  <2> QED BY <2>1, JobsAfterTick
<1>4. CASE p \in Generated(w)
  <2>1. Rank(Generated(w), p) \in Nat
    BY <1>1, <1>4, RanksAreBounded
  <2> QED BY <1>3, <1>4, <2>1 DEF Heir, Job
<1>5. CASE p \notin Generated(w)
  <2>1. CASE p \in Worked(w)
    <3>1. Heir(w, p) = [p EXCEPT !.remaining = @ - 1]
      BY <1>5, <2>1 DEF Heir
    <3> QED BY <1>2, <1>3, <1>5, <2>1, <3>1 DEF Jobs
  <2>2. CASE p \notin Worked(w)
    <3>1. Heir(w, p) = p
      BY <1>5, <2>2 DEF Heir
    <3> QED BY <1>2, <1>5, <2>2, <3>1
  <2> QED BY <2>1, <2>2
<1> QED BY <1>4, <1>5

\* Two heirs are in the order of the kinds, places and sequences they get.
LEMMA HeirsKeepOrder ==
  ASSUME NEW w, NEW v, WellFormed(w), WellFormed(v), Similar(w, v),
         NEW p \in Leaving(w), NEW p2 \in Leaving(w),
         NEW q \in Leaving(v), NEW q2 \in Leaving(v), Twin(p, q), Twin(p2, q2)
  PROVE  Before(Heir(w, p), Heir(w, p2)) <=> Before(Heir(v, q), Heir(v, q2))
<1> DEFINE a == Heir(w, p)
           a2 == Heir(w, p2)
           b == Heir(v, q)
           b2 == Heir(v, q2)
<1>1. /\ p \in w.pending /\ p2 \in w.pending /\ q \in v.pending /\ q2 \in v.pending
      /\ w.pending \subseteq Jobs /\ v.pending \subseteq Jobs
      /\ w.nextSequence \in Nat /\ v.nextSequence \in Nat
  BY PartsOfPending DEF Leaving
<1>2. (p \in Generated(w) <=> q \in Generated(v))
      /\ (p2 \in Generated(w) <=> q2 \in Generated(v))
  BY <1>1, SimilarWorldsDoTheSame
<1>3. Before(p, p2) <=> Before(q, q2)
  BY <1>1 DEF Similar, Alike
<1>4. p \in Generated(w) => Rank(Generated(w), p) = Rank(Generated(v), q)
  <2> SUFFICES ASSUME p \in Generated(w)
               PROVE  Rank(Generated(w), p) = Rank(Generated(v), q)
    OBVIOUS
  <2>1. Generated(w) \in SUBSET w.pending /\ Generated(v) \in SUBSET v.pending
        /\ IsFiniteSet(Generated(w)) /\ IsFiniteSet(Generated(v))
        /\ OneJobEach(Generated(w)) /\ OneJobEach(Generated(v))
    BY PartsOfPending DEF OneJobEach
  <2>2. Alike(Generated(w), Generated(v))
    BY <2>1, AlikeInPart, SimilarWorldsDoTheSame DEF Similar
  <2> QED BY <1>2, <2>1, <2>2, TwinsHaveOneRank
<1>5. p2 \in Generated(w) => Rank(Generated(w), p2) = Rank(Generated(v), q2)
  <2> SUFFICES ASSUME p2 \in Generated(w)
               PROVE  Rank(Generated(w), p2) = Rank(Generated(v), q2)
    OBVIOUS
  <2>1. Generated(w) \in SUBSET w.pending /\ Generated(v) \in SUBSET v.pending
        /\ IsFiniteSet(Generated(w)) /\ IsFiniteSet(Generated(v))
        /\ OneJobEach(Generated(w)) /\ OneJobEach(Generated(v))
    BY PartsOfPending DEF OneJobEach
  <2>2. Alike(Generated(w), Generated(v))
    BY <2>1, AlikeInPart, SimilarWorldsDoTheSame DEF Similar
  <2> QED BY <1>2, <2>1, <2>2, TwinsHaveOneRank
<1>6. /\ a \in Jobs /\ a.chunk = p.chunk
      /\ a2 \in Jobs /\ a2.chunk = p2.chunk
      /\ b \in Jobs /\ b.chunk = q.chunk
      /\ b2 \in Jobs /\ b2.chunk = q2.chunk
  BY HeirsFields
<1>7. p.kind = q.kind /\ p.chunk = q.chunk /\ p2.kind = q2.kind /\ p2.chunk = q2.chunk
  BY DEF Twin
<1>8. Place[p.chunk] \in Int /\ Place[p2.chunk] \in Int
      /\ p.sequence \in Nat /\ p2.sequence \in Nat /\ q.sequence \in Nat /\ q2.sequence \in Nat
  BY <1>1, ChunksAssumption DEF Jobs
<1>9. /\ p \in Generated(w) =>
           /\ a.kind = "mesh" /\ Rank(Generated(w), p) \in Nat
           /\ a.sequence = w.nextSequence + Rank(Generated(w), p)
      /\ p \notin Generated(w) =>
           a.kind = p.kind /\ a.sequence = p.sequence /\ p.sequence < w.nextSequence
  BY HeirsFields
<1>10. /\ p2 \in Generated(w) =>
           /\ a2.kind = "mesh" /\ Rank(Generated(w), p2) \in Nat
           /\ a2.sequence = w.nextSequence + Rank(Generated(w), p2)
       /\ p2 \notin Generated(w) =>
           a2.kind = p2.kind /\ a2.sequence = p2.sequence /\ p2.sequence < w.nextSequence
  BY HeirsFields
<1>11. /\ q \in Generated(v) =>
           /\ b.kind = "mesh" /\ Rank(Generated(v), q) \in Nat
           /\ b.sequence = v.nextSequence + Rank(Generated(v), q)
       /\ q \notin Generated(v) =>
           b.kind = q.kind /\ b.sequence = q.sequence /\ q.sequence < v.nextSequence
  BY HeirsFields
<1>12. /\ q2 \in Generated(v) =>
           /\ b2.kind = "mesh" /\ Rank(Generated(v), q2) \in Nat
           /\ b2.sequence = v.nextSequence + Rank(Generated(v), q2)
       /\ q2 \notin Generated(v) =>
           b2.kind = q2.kind /\ b2.sequence = q2.sequence /\ q2.sequence < v.nextSequence
  BY HeirsFields
<1> HIDE DEF a, a2, b, b2
<1>13. Before(a, a2) <=> Before(b, b2)
  <2>1. CASE p \in Generated(w) /\ p2 \in Generated(w)
    BY <1>1, <1>2, <1>4, <1>5, <1>6, <1>7, <1>8, <1>9, <1>10, <1>11, <1>12, <2>1 DEF Before
  <2>2. CASE p \in Generated(w) /\ p2 \notin Generated(w)
    BY <1>1, <1>2, <1>4, <1>6, <1>7, <1>8, <1>9, <1>10, <1>11, <1>12, <2>2 DEF Before
  <2>3. CASE p \notin Generated(w) /\ p2 \in Generated(w)
    BY <1>1, <1>2, <1>5, <1>6, <1>7, <1>8, <1>9, <1>10, <1>11, <1>12, <2>3 DEF Before
  <2>4. CASE p \notin Generated(w) /\ p2 \notin Generated(w)
    BY <1>2, <1>3, <1>6, <1>7, <1>8, <1>9, <1>10, <1>11, <1>12, <2>4 DEF Before
  <2> QED BY <2>1, <2>2, <2>3, <2>4
<1> QED BY <1>13 DEF a, a2, b, b2

LEMMA TicksKeepOneSide ==
  ASSUME NEW w, NEW v, WellFormed(w), WellFormed(v), Similar(w, v),
         NEW p \in Leaving(w)
  PROVE  \E q \in Leaving(v) : Twin(p, q) /\ Twin(Heir(w, p), Heir(v, q))
<1>1. p \in w.pending /\ (p \in Finished(w) => p \in Generated(w))
  BY DEF Leaving
<1>2. PICK q \in v.pending : Twin(p, q)
  BY <1>1 DEF Similar, Alike
<1>3. /\ p \in Worked(w) <=> q \in Worked(v)
      /\ p \in Finished(w) <=> q \in Finished(v)
      /\ p \in Generated(w) <=> q \in Generated(v)
  BY <1>1, <1>2, SimilarWorldsDoTheSame
<1>4. q \in Leaving(v)
  BY <1>1, <1>2, <1>3 DEF Leaving
<1>5. Twin(Heir(w, p), Heir(v, q))
  <2>1. CASE p \in Generated(w)
    BY <1>2, <1>3, <1>4, <2>1, HeirsFields DEF Twin
  <2>2. CASE p \notin Generated(w)
    BY <1>2, <1>3, <1>4, <2>2, HeirsFields DEF Twin
  <2> QED BY <2>1, <2>2
<1> QED BY <1>2, <1>4, <1>5

\* A tick leaves similar worlds similar.
LEMMA TicksKeepSimilar ==
  ASSUME NEW w, NEW v, WellFormed(w), WellFormed(v), Similar(w, v)
  PROVE  Similar(AdvanceIn(w), AdvanceIn(v))
<1>0. Similar(v, w)
  BY AlikeBothWays DEF Similar
<1>1. AdvanceIn(w).pending = {Heir(w, p) : p \in Leaving(w)}
      /\ AdvanceIn(v).pending = {Heir(v, q) : q \in Leaving(v)}
  BY PendingAreHeirs
<1>2. \A j \in AdvanceIn(w).pending : \E k \in AdvanceIn(v).pending : Twin(j, k)
  BY <1>1, TicksKeepOneSide
<1>3. \A k \in AdvanceIn(v).pending : \E j \in AdvanceIn(w).pending : Twin(k, j)
  BY <1>0, <1>1, TicksKeepOneSide
<1>4. \A k, j : Twin(k, j) => Twin(j, k)
  BY DEF Twin
<1>5. ASSUME NEW p \in Leaving(w), NEW q \in Leaving(v), Twin(Heir(w, p), Heir(v, q))
      PROVE  Twin(p, q)
  <2>1. p.chunk = q.chunk
    BY <1>5, HeirsFields DEF Twin
  <2>2. PICK q0 \in Leaving(v) : Twin(p, q0)
    BY TicksKeepOneSide
  <2>3. q0 = q
    BY <2>1, <2>2, PartsOfPending DEF Twin, OneJobEach, Leaving
  <2> QED BY <2>2, <2>3
<1>6. ASSUME NEW j \in AdvanceIn(w).pending, NEW j2 \in AdvanceIn(w).pending,
             NEW k \in AdvanceIn(v).pending, NEW k2 \in AdvanceIn(v).pending,
             Twin(j, k), Twin(j2, k2)
      PROVE  Before(j, j2) <=> Before(k, k2)
  <2>1. PICK p \in Leaving(w) : j = Heir(w, p)
    BY <1>1
  <2>2. PICK p2 \in Leaving(w) : j2 = Heir(w, p2)
    BY <1>1
  <2>3. PICK q \in Leaving(v) : k = Heir(v, q)
    BY <1>1
  <2>4. PICK q2 \in Leaving(v) : k2 = Heir(v, q2)
    BY <1>1
  <2>5. Twin(p, q) /\ Twin(p2, q2)
    BY <1>5, <1>6, <2>1, <2>2, <2>3, <2>4
  <2> QED BY <2>1, <2>2, <2>3, <2>4, <2>5, HeirsKeepOrder
<1>7. AdvanceIn(w).state = AdvanceIn(v).state
  <2>1. \A c \in Chunks : (\E j \in Finished(w) : j.chunk = c)
                          <=> (\E k \in Finished(v) : k.chunk = c)
    <3>1. Finished(w) \subseteq w.pending /\ Finished(v) \subseteq v.pending
      BY PartsOfPending
    <3>2. ASSUME NEW j \in Finished(w)
          PROVE  \E k \in Finished(v) : j.chunk = k.chunk
      <4>1. PICK k \in v.pending : Twin(j, k)
        BY <3>1 DEF Similar, Alike
      <4>2. k \in Finished(v)
        BY <3>1, <4>1, SimilarWorldsDoTheSame
      <4> QED BY <4>1, <4>2 DEF Twin
    <3>3. ASSUME NEW k \in Finished(v)
          PROVE  \E j \in Finished(w) : j.chunk = k.chunk
      <4>1. PICK j \in w.pending : Twin(j, k)
        BY <3>1 DEF Similar, Alike
      <4>2. j \in Finished(w)
        BY <3>1, <4>1, SimilarWorldsDoTheSame
      <4> QED BY <4>1, <4>2 DEF Twin
    <3> QED BY <3>2, <3>3
  <2>2. w.state = v.state
    BY DEF Similar
  <2> QED BY <2>1, <2>2, EveryResultApplies DEF AdvanceIn
<1>8. Alike(AdvanceIn(w).pending, AdvanceIn(v).pending)
  BY <1>2, <1>3, <1>4, <1>6 DEF Alike
<1> QED BY <1>7, <1>8 DEF Similar

-----------------------------------------------------------------------------
(* Requests in whatever order *)

LEMMA RequestAnywhere ==
  ASSUME NEW w, WellFormed(w), NEW c \in Chunks
  PROVE  /\ RequestIn(w, c).state = [w.state EXCEPT ![c] = "generating"]
         /\ RequestIn(w, c).pending =
              w.pending \union {Job("generate", c, w.nextSequence, GenerationSteps)}
         /\ RequestIn(w, c).nextSequence = w.nextSequence + 1
BY DEF RequestIn, WellFormed, Worlds

\* The same request keeps two similar worlds similar.
LEMMA RequestsKeepSimilar ==
  ASSUME NEW w, NEW v, WellFormed(w), WellFormed(v), Similar(w, v),
         NEW c \in Chunks, w.state[c] = "unloaded"
  PROVE  Similar(RequestIn(w, c), RequestIn(v, c))
<1> DEFINE a == Job("generate", c, w.nextSequence, GenerationSteps)
           b == Job("generate", c, v.nextSequence, GenerationSteps)
           P == w.pending \union {a}
           Q == v.pending \union {b}
<1>1. /\ RequestIn(w, c).state = [w.state EXCEPT ![c] = "generating"]
      /\ RequestIn(v, c).state = [v.state EXCEPT ![c] = "generating"]
      /\ RequestIn(w, c).pending = P /\ RequestIn(v, c).pending = Q
  BY RequestAnywhere
<1>2. /\ a.kind = "generate" /\ a.chunk = c /\ a.sequence = w.nextSequence
      /\ a.remaining = GenerationSteps
      /\ b.kind = "generate" /\ b.chunk = c /\ b.sequence = v.nextSequence
      /\ b.remaining = GenerationSteps
  BY DEF Job
<1>3. /\ \A p \in w.pending : p \in Jobs /\ p.chunk # c /\ p.sequence < w.nextSequence
      /\ \A q \in v.pending : q \in Jobs /\ q.chunk # c /\ q.sequence < v.nextSequence
  BY DEF WellFormed, Worlds, Applies, Similar
<1>4. w.nextSequence \in Nat /\ v.nextSequence \in Nat /\ Place[c] \in Int
  BY ChunksAssumption DEF WellFormed, Worlds
<1>5. Twin(a, b)
  BY <1>2 DEF Twin
<1>6. /\ \A p \in w.pending, q \in v.pending : ~Twin(p, b) /\ ~Twin(a, q)
      /\ ~Before(a, a) /\ ~Before(b, b)
  BY <1>2, <1>3, <1>4 DEF Twin, Before
<1>7. ASSUME NEW p \in w.pending, NEW q \in v.pending, Twin(p, q)
      PROVE  (Before(p, a) <=> Before(q, b)) /\ (Before(a, p) <=> Before(b, q))
  <2>1. /\ p.kind = q.kind /\ p.chunk = q.chunk /\ Place[p.chunk] \in Int
        /\ p.sequence \in Nat /\ q.sequence \in Nat /\ p.kind \in {"generate", "mesh"}
        /\ p.sequence < w.nextSequence /\ q.sequence < v.nextSequence
    BY <1>3, <1>7, ChunksAssumption DEF Twin, Jobs
  <2> HIDE DEF a, b
  <2> QED BY <1>2, <1>4, <2>1 DEF Before
<1> HIDE DEF a, b
<1>8. \A p \in P : \E q \in Q : Twin(p, q)
  BY <1>5 DEF Similar, Alike
<1>9. \A q \in Q : \E p \in P : Twin(p, q)
  BY <1>5 DEF Similar, Alike
<1>10. ASSUME NEW p \in P, NEW p2 \in P, NEW q \in Q, NEW q2 \in Q, Twin(p, q), Twin(p2, q2)
       PROVE  Before(p, p2) <=> Before(q, q2)
  <2>1. (p = a <=> q = b) /\ (p2 = a <=> q2 = b)
    BY <1>2, <1>3, <1>10 DEF Twin
  <2>2. CASE p # a /\ p2 # a
    <3>1. p \in w.pending /\ p2 \in w.pending /\ q \in v.pending /\ q2 \in v.pending
      BY <2>1, <2>2
    <3> QED BY <1>10, <3>1 DEF Similar, Alike
  <2>3. CASE p = a /\ p2 # a
    BY <1>7, <1>10, <2>1, <2>3
  <2>4. CASE p # a /\ p2 = a
    BY <1>7, <1>10, <2>1, <2>4
  <2>5. CASE p = a /\ p2 = a
    BY <1>6, <2>1, <2>5
  <2> QED BY <2>2, <2>3, <2>4, <2>5
<1>11. Alike(P, Q)
  BY <1>8, <1>9, <1>10 DEF Alike
<1> QED BY <1>1, <1>11 DEF Similar

\* How many of the chunks have a lower identity.
Lower(chunks, c) == Cardinality({d \in chunks : d < c})

LEMMA LowerCounts ==
  ASSUME NEW A \in SUBSET Chunks
  PROVE  /\ IsFiniteSet(A) /\ Cardinality(A) \in Nat
         /\ \A c \in Chunks : Lower(A, c) \in Nat
         /\ \A c \in A : Lower(A, c) < Cardinality(A)
         /\ \A c, d \in A : c < d => Lower(A, c) < Lower(A, d)
<1>1. IsFiniteSet(A) /\ Cardinality(A) \in Nat /\ A \subseteq Int
  BY ChunksAssumption, FS_Subset, FS_CardinalityType
<1>2. ASSUME NEW c \in Chunks
      PROVE  IsFiniteSet({d \in A : d < c}) /\ Lower(A, c) \in Nat
  <2>1. IsFiniteSet({d \in A : d < c})
    BY <1>1, FS_Subset, {d \in A : d < c} \subseteq A
  <2> QED BY <2>1, FS_CardinalityType DEF Lower
<1>3. ASSUME NEW c \in A
      PROVE  Lower(A, c) < Cardinality(A)
  <2> DEFINE below == {d \in A : d < c}
  <2>1. below \in SUBSET A /\ c \notin below
    BY <1>1
  <2> HIDE DEF below
  <2>2. Cardinality(below) <= Cardinality(A) /\ Cardinality(below) # Cardinality(A)
    BY <1>1, <2>1, FS_Subset
  <2>3. Cardinality(below) = Lower(A, c) /\ Lower(A, c) \in Nat
    BY <1>2 DEF below, Lower
  <2> QED BY <1>1, <2>2, <2>3
<1>4. ASSUME NEW c \in A, NEW e \in A, c < e
      PROVE  Lower(A, c) < Lower(A, e)
  <2> DEFINE below == {d \in A : d < c}
             under == {d \in A : d < e}
  <2>1. below \in SUBSET under /\ c \notin below /\ c \in under
    <3>1. c \in Int /\ e \in Int /\ \A d \in A : d \in Int
      BY <1>1
    <3>2. \A d \in A : d < c => d < e
      BY <1>4, <3>1
    <3>3. ~(c < c)
      BY <3>1
    <3> QED BY <1>4, <3>2, <3>3
  <2>2. IsFiniteSet(under)
    BY <1>2
  <2> HIDE DEF below, under
  <2>3. Cardinality(below) <= Cardinality(under) /\ Cardinality(below) # Cardinality(under)
    BY <2>1, <2>2, FS_Subset
  <2>4. Cardinality(below) = Lower(A, c) /\ Lower(A, c) \in Nat
        /\ Cardinality(under) = Lower(A, e) /\ Lower(A, e) \in Nat
    BY <1>2 DEF below, under, Lower
  <2> QED BY <2>3, <2>4
<1> QED BY <1>1, <1>2, <1>3, <1>4

\* A world with the chunks of a tick requested.
AskedJob(w, A, c) == Job("generate", c, w.nextSequence + Lower(A, c), GenerationSteps)

LEMMA AskedJobs ==
  ASSUME NEW w, WellFormed(w), NEW A \in SUBSET Chunks, NEW c \in A
  PROVE  /\ AskedJob(w, A, c) \in Jobs
         /\ AskedJob(w, A, c).kind = "generate" /\ AskedJob(w, A, c).chunk = c
         /\ AskedJob(w, A, c).remaining = GenerationSteps
         /\ AskedJob(w, A, c).sequence = w.nextSequence + Lower(A, c)
<1>1. w.nextSequence \in Nat \ {0} /\ c \in Chunks
  BY DEF WellFormed, Worlds
<1>2. Lower(A, c) \in Nat
  BY <1>1, LowerCounts
<1>3. w.nextSequence + Lower(A, c) \in Nat \ {0}
  BY <1>1, <1>2
<1> QED BY <1>1, <1>3, ConfigAssumption DEF AskedJob, Job, Jobs

LEMMA AllRequested ==
  ASSUME NEW w, NEW A
  PROVE  /\ RequestAll(w, A).state =
              [c \in Chunks |-> IF c \in A THEN "generating" ELSE w.state[c]]
         /\ RequestAll(w, A).pending = w.pending \union {AskedJob(w, A, c) : c \in A}
         /\ RequestAll(w, A).nextSequence = w.nextSequence + Cardinality(A)
<1>1. RequestAll(w, A).pending = w.pending \union {AskedJob(w, A, c) : c \in A}
  BY DEF RequestAll, AskedJob, Lower
<1> QED BY <1>1 DEF RequestAll

LEMMA RequestingAllKeepsWorld ==
  ASSUME NEW w, WellFormed(w), NEW A \in SUBSET Chunks,
         \A c \in A : w.state[c] = "unloaded"
  PROVE  WellFormed(RequestAll(w, A))
<1> DEFINE v == RequestAll(w, A)
<1>1. /\ v.state = [c \in Chunks |-> IF c \in A THEN "generating" ELSE w.state[c]]
      /\ v.pending = w.pending \union {AskedJob(w, A, c) : c \in A}
      /\ v.nextSequence = w.nextSequence + Cardinality(A)
      /\ v = [state |-> v.state, pending |-> v.pending, nextSequence |-> v.nextSequence]
  <2>1. v = [state |-> v.state, pending |-> v.pending, nextSequence |-> v.nextSequence]
    BY DEF RequestAll
  <2> HIDE DEF v
  <2>2. /\ v.state = [c \in Chunks |-> IF c \in A THEN "generating" ELSE w.state[c]]
        /\ v.pending = w.pending \union {AskedJob(w, A, c) : c \in A}
        /\ v.nextSequence = w.nextSequence + Cardinality(A)
    BY AllRequested DEF v
  <2> QED BY <2>1, <2>2
<1>2. \A c \in A :
        /\ AskedJob(w, A, c) \in Jobs
        /\ AskedJob(w, A, c).kind = "generate" /\ AskedJob(w, A, c).chunk = c
        /\ AskedJob(w, A, c).sequence = w.nextSequence + Lower(A, c)
        /\ Lower(A, c) \in Nat /\ Lower(A, c) < Cardinality(A)
  <2>1. \A c \in A : Lower(A, c) \in Nat /\ Lower(A, c) < Cardinality(A)
    BY LowerCounts
  <2>2. \A c \in A :
          /\ AskedJob(w, A, c) \in Jobs
          /\ AskedJob(w, A, c).kind = "generate" /\ AskedJob(w, A, c).chunk = c
          /\ AskedJob(w, A, c).sequence = w.nextSequence + Lower(A, c)
    BY AskedJobs
  <2> QED BY <2>1, <2>2
<1>3. /\ w \in Worlds /\ w.pending \subseteq Jobs /\ w.nextSequence \in Nat \ {0}
      /\ w.state \in [Chunks -> ChunkStates] /\ Cardinality(A) \in Nat
  BY LowerCounts DEF WellFormed, Worlds
<1>4. \A j \in w.pending : /\ j \in Jobs /\ j.chunk \in Chunks /\ j.chunk \notin A
                           /\ Applies(w, j) /\ j.sequence < w.nextSequence
                           /\ j.sequence \in Nat
  BY DEF WellFormed, Worlds, Applies, Jobs
<1>5. \A c, d \in A : Lower(A, c) = Lower(A, d) => c = d
  <2> SUFFICES ASSUME NEW c \in A, NEW d \in A, c # d
               PROVE  Lower(A, c) # Lower(A, d)
    OBVIOUS
  <2>1. c \in Int /\ d \in Int /\ Lower(A, c) \in Nat /\ Lower(A, d) \in Nat
    BY ChunksAssumption, LowerCounts
  <2>2. c < d \/ d < c
    BY <2>1
  <2> QED BY <2>1, <2>2, LowerCounts
<1> HIDE DEF v
<1>6. v \in Worlds
  <2>1. v.pending \subseteq Jobs
    BY <1>1, <1>2, <1>3
  <2>2. v.state \in [Chunks -> ChunkStates]
    BY <1>1, <1>3 DEF ChunkStates
  <2>3. v.nextSequence \in Nat \ {0}
    BY <1>1, <1>3
  <2> QED BY <1>1, <2>1, <2>2, <2>3 DEF Worlds
<1>7. ASSUME NEW j \in v.pending
      PROVE  Applies(v, j) /\ j.sequence < v.nextSequence
  <2>1. CASE j \in w.pending
    <3>1. v.state[j.chunk] = w.state[j.chunk]
      BY <1>1, <1>4, <2>1
    <3> QED BY <1>1, <1>3, <1>4, <2>1, <3>1 DEF Applies
  <2>2. CASE j \notin w.pending
    <3>1. PICK c \in A : j = AskedJob(w, A, c)
      BY <1>1, <2>2
    <3>2. j.kind = "generate" /\ j.chunk = c /\ c \in Chunks /\ v.state[c] = "generating"
      BY <1>1, <1>2, <3>1
    <3>3. j.sequence < v.nextSequence
      BY <1>1, <1>2, <1>3, <3>1
    <3> QED BY <3>2, <3>3 DEF Applies
  <2> QED BY <2>1, <2>2
<1>8. \A i, j \in v.pending : i.chunk = j.chunk => i = j
  BY <1>1, <1>2, <1>4 DEF WellFormed
<1>9. \A i, j \in v.pending : i.sequence = j.sequence => i = j
  <2>1. \A c \in A : AskedJob(w, A, c).sequence >= w.nextSequence
    BY <1>2, <1>3
  <2>2. \A i, j \in w.pending : i.sequence = j.sequence => i = j
    BY DEF WellFormed
  <2>3. \A c, d \in A : AskedJob(w, A, c).sequence = AskedJob(w, A, d).sequence => c = d
    BY <1>2, <1>3, <1>5
  <2> QED BY <1>1, <1>2, <1>3, <1>4, <2>1, <2>2, <2>3
<1>10. ASSUME NEW c \in Chunks, v.state[c] \in {"generating", "meshing"}
       PROVE  \E j \in v.pending : j.chunk = c
  <2>1. CASE c \in A
    BY <1>1, <1>2, <2>1
  <2>2. CASE c \notin A
    <3>1. w.state[c] \in {"generating", "meshing"}
      BY <1>1, <1>10, <2>2
    <3> QED BY <1>1, <3>1 DEF WellFormed
  <2> QED BY <2>1, <2>2
<1> QED BY <1>6, <1>7, <1>8, <1>9, <1>10 DEF WellFormed, v

\* Jobs, and a generation for each of the chunks that have none, submitted later.
Extends(P, jobs, chunks, n) ==
  /\ jobs \subseteq P /\ P \subseteq Jobs /\ OneJobEach(P)
  /\ \A j \in jobs : j.sequence < n /\ j.chunk \notin chunks
  /\ \A j \in P \ jobs :
       /\ j.kind = "generate" /\ j.remaining = GenerationSteps
       /\ j.chunk \in chunks /\ j.sequence >= n
  /\ \A c \in chunks : \E j \in P \ jobs : j.chunk = c

DistinctPlaces(chunks) == \A c, d \in chunks : Place[c] = Place[d] => c = d

\* In whatever order they are submitted, if no two are for one place.
LEMMA ExtendedAlike ==
  ASSUME NEW jobs, NEW chunks \in SUBSET Chunks, DistinctPlaces(chunks),
         NEW n \in Nat, NEW P, Extends(P, jobs, chunks, n), NEW Q, Extends(Q, jobs, chunks, n)
  PROVE  Alike(P, Q)
<1>1. ASSUME NEW R, NEW T, Extends(R, jobs, chunks, n), Extends(T, jobs, chunks, n),
             NEW p \in R
      PROVE  \E q \in T : Twin(p, q)
  <2>1. CASE p \in jobs
    BY <1>1, <2>1 DEF Extends, Twin
  <2>2. CASE p \notin jobs
    <3>1. /\ p.kind = "generate" /\ p.remaining = GenerationSteps /\ p.chunk \in chunks
      BY <1>1, <2>2 DEF Extends
    <3>2. PICK q \in T \ jobs : q.chunk = p.chunk
      BY <1>1, <3>1 DEF Extends
    <3>3. q.kind = "generate" /\ q.remaining = GenerationSteps
      BY <1>1, <3>2 DEF Extends
    <3> QED BY <3>1, <3>2, <3>3 DEF Twin
  <2> QED BY <2>1, <2>2
<1>2. \A p \in P : \E q \in Q : Twin(p, q)
  BY <1>1
<1>3. \A q \in Q : \E p \in P : Twin(p, q)
  <2>1. \A q \in Q : \E p \in P : Twin(q, p)
    BY <1>1
  <2> QED BY <2>1 DEF Twin
<1>4. ASSUME NEW p \in P, NEW p2 \in P, NEW q \in Q, NEW q2 \in Q, Twin(p, q), Twin(p2, q2)
      PROVE  Before(p, p2) <=> Before(q, q2)
  <2>1. /\ p.kind = q.kind /\ p.chunk = q.chunk /\ p2.kind = q2.kind /\ p2.chunk = q2.chunk
        /\ p \in Jobs /\ p2 \in Jobs /\ q \in Jobs /\ q2 \in Jobs
    BY <1>4 DEF Twin, Extends
  <2>2. /\ p.sequence \in Nat /\ p2.sequence \in Nat
        /\ q.sequence \in Nat /\ q2.sequence \in Nat
        /\ Place[p.chunk] \in Int /\ Place[p2.chunk] \in Int
    BY <2>1, ChunksAssumption DEF Jobs
  <2>3. (p \in jobs => q \in jobs) /\ (p2 \in jobs => q2 \in jobs)
        /\ (q \in jobs => p \in jobs) /\ (q2 \in jobs => p2 \in jobs)
    BY <2>1 DEF Extends
  <2>4. CASE p \in jobs /\ p2 \in jobs
    <3>1. p = q /\ p2 = q2
      BY <2>1, <2>3, <2>4 DEF Extends, OneJobEach
    <3> QED BY <3>1
  <2>5. CASE p \in jobs /\ p2 \notin jobs
    <3>1. p = q
      BY <2>1, <2>3, <2>5 DEF Extends, OneJobEach
    <3>2. p.sequence < p2.sequence /\ q.sequence < q2.sequence
      <4>1. p.sequence < n /\ q.sequence < n /\ p2.sequence >= n /\ q2.sequence >= n
        BY <2>3, <2>5 DEF Extends
      <4> QED BY <2>2, <4>1
    <3> QED BY <2>1, <2>2, <3>1, <3>2 DEF Before
  <2>6. CASE p \notin jobs /\ p2 \in jobs
    <3>1. p2 = q2
      BY <2>1, <2>3, <2>6 DEF Extends, OneJobEach
    <3>2. ~(p.sequence < p2.sequence) /\ ~(q.sequence < q2.sequence)
      <4>1. p2.sequence < n /\ q2.sequence < n /\ p.sequence >= n /\ q.sequence >= n
        BY <2>3, <2>6 DEF Extends
      <4> QED BY <2>2, <4>1
    <3> QED BY <2>1, <2>2, <3>1, <3>2 DEF Before
  <2>7. CASE p \notin jobs /\ p2 \notin jobs
    <3>1. p.chunk \in chunks /\ p2.chunk \in chunks
      BY <2>7 DEF Extends
    <3>2. CASE p.chunk = p2.chunk
      <4>1. p = p2 /\ q = q2
        <5>1. OneJobEach(P) /\ OneJobEach(Q)
          BY DEF Extends
        <5> QED BY <2>1, <3>2, <5>1 DEF OneJobEach
      <4> QED BY <2>1, <4>1, BeforeIsStrict
    <3>3. CASE p.chunk # p2.chunk
      <4>1. Place[p.chunk] # Place[p2.chunk]
        BY <3>1, <3>3 DEF DistinctPlaces
      <4> QED BY <2>1, <2>2, <4>1 DEF Before
    <3> QED BY <3>2, <3>3
  <2> QED BY <2>4, <2>5, <2>6, <2>7
<1> QED BY <1>2, <1>3, <1>4 DEF Alike

\* One more chunk requested last, or in its place among the others.
LEMMA RequestsMayMove ==
  ASSUME NEW w, WellFormed(w), NEW A \in SUBSET Chunks, NEW c \in Chunks \ A,
         \A d \in A \union {c} : w.state[d] = "unloaded", DistinctPlaces(A \union {c})
  PROVE  Similar(RequestIn(RequestAll(w, A), c), RequestAll(w, A \union {c}))
<1>0. PICK B : B = A \union {c}
  OBVIOUS
<1> DEFINE v == RequestAll(w, A)
           n == w.nextSequence
           last == Job("generate", c, v.nextSequence, GenerationSteps)
<1>1. B \in SUBSET Chunks /\ n \in Nat /\ w.pending \subseteq Jobs /\ OneJobEach(w.pending)
  BY <1>0, PartsOfPending
<1>2. /\ v.state = [d \in Chunks |-> IF d \in A THEN "generating" ELSE w.state[d]]
      /\ v.pending = w.pending \union {AskedJob(w, A, d) : d \in A}
      /\ v.nextSequence = n + Cardinality(A)
  BY AllRequested
<1>12. /\ RequestAll(w, B).state =
            [d \in Chunks |-> IF d \in B THEN "generating" ELSE w.state[d]]
      /\ RequestAll(w, B).pending = w.pending \union {AskedJob(w, B, d) : d \in B}
  BY AllRequested
<1>3. WellFormed(v) /\ Cardinality(A) \in Nat
  BY RequestingAllKeepsWorld, LowerCounts
<1>4. /\ RequestIn(v, c).state = [v.state EXCEPT ![c] = "generating"]
      /\ RequestIn(v, c).pending = v.pending \union {last}
  BY <1>3, RequestAnywhere
<1>5. last \in Jobs /\ last.kind = "generate" /\ last.chunk = c
      /\ last.remaining = GenerationSteps /\ last.sequence >= n
  <2>1. v.nextSequence \in Nat \ {0} /\ v.nextSequence >= n
    BY <1>1, <1>2, <1>3 DEF WellFormed, Worlds
  <2> QED BY <2>1, ConfigAssumption DEF Job, Jobs
<1>6. \A j \in w.pending : j.sequence < n /\ j.chunk \notin B
  BY <1>0 DEF WellFormed, Applies
<1> HIDE DEF v, n, last
<1>7. ASSUME NEW D \in SUBSET B, NEW d \in D
      PROVE  /\ AskedJob(w, D, d) \in Jobs
             /\ AskedJob(w, D, d).kind = "generate" /\ AskedJob(w, D, d).chunk = d
             /\ AskedJob(w, D, d).remaining = GenerationSteps
             /\ AskedJob(w, D, d).sequence >= n
  <2>1. D \in SUBSET Chunks
    BY <1>1
  <2>2. /\ AskedJob(w, D, d) \in Jobs
        /\ AskedJob(w, D, d).kind = "generate" /\ AskedJob(w, D, d).chunk = d
        /\ AskedJob(w, D, d).remaining = GenerationSteps
        /\ AskedJob(w, D, d).sequence = w.nextSequence + Lower(D, d)
    BY <2>1, AskedJobs
  <2>3. Lower(D, d) \in Nat
    BY <2>1, LowerCounts
  <2> QED BY <1>1, <2>2, <2>3 DEF n
<1>8. Extends(RequestIn(v, c).pending, w.pending, B, n)
  <2> DEFINE P == RequestIn(v, c).pending
  <2>1. P = w.pending \union {AskedJob(w, A, d) : d \in A} \union {last}
    BY <1>2, <1>4
  <2>2. \A d \in A : AskedJob(w, A, d) \notin w.pending
    BY <1>0, <1>6, <1>7
  <2>3. last \notin w.pending
    BY <1>0, <1>5, <1>6
  <2> HIDE DEF P
  <2>4. w.pending \subseteq P /\ P \subseteq Jobs
    BY <1>0, <1>1, <1>5, <1>7, <2>1
  <2>7. OneJobEach(P)
    <3>1. WellFormed(RequestIn(v, c))
      <4>1. v.state[c] = "unloaded"
        BY <1>2
      <4> QED BY <1>3, <4>1, RequestKeepsWorld
    <3> QED BY <3>1, PartsOfPending DEF P
  <2>5. \A j \in P \ w.pending :
          /\ j.kind = "generate" /\ j.remaining = GenerationSteps
          /\ j.chunk \in B /\ j.sequence >= n
    BY <1>0, <1>5, <1>7, <2>1
  <2>6. \A d \in B : \E j \in P \ w.pending : j.chunk = d
    BY <1>0, <1>5, <1>7, <2>1, <2>2, <2>3
  <2> QED BY <1>6, <2>4, <2>5, <2>6, <2>7 DEF Extends, P
<1>9. Extends(RequestAll(w, B).pending, w.pending, B, n)
  <2> DEFINE P == RequestAll(w, B).pending
  <2>1. P = w.pending \union {AskedJob(w, B, d) : d \in B}
    BY <1>12
  <2>2. \A d \in B : AskedJob(w, B, d) \notin w.pending
    BY <1>6, <1>7
  <2> HIDE DEF P
  <2>4. w.pending \subseteq P /\ P \subseteq Jobs
    BY <1>1, <1>7, <2>1
  <2>7. OneJobEach(P)
    <3>1. WellFormed(RequestAll(w, B))
      BY <1>0, <1>1, RequestingAllKeepsWorld
    <3> QED BY <3>1, PartsOfPending DEF P
  <2>5. \A j \in P \ w.pending :
          /\ j.kind = "generate" /\ j.remaining = GenerationSteps
          /\ j.chunk \in B /\ j.sequence >= n
    BY <1>7, <2>1
  <2>6. \A d \in B : \E j \in P \ w.pending : j.chunk = d
    BY <1>7, <2>1, <2>2
  <2> QED BY <1>6, <2>4, <2>5, <2>6, <2>7 DEF Extends, P
<1>10. Alike(RequestIn(v, c).pending, RequestAll(w, B).pending)
  <2>1. DistinctPlaces(B)
    BY <1>0
  <2> QED BY <1>1, <1>8, <1>9, <2>1, ExtendedAlike
<1>11. RequestIn(v, c).state = RequestAll(w, B).state
  BY <1>0, <1>2, <1>4, <1>12
<1> QED BY <1>0, <1>10, <1>11 DEF Similar, v

\* No request at all leaves a world as it is.
LEMMA NothingRequested ==
  ASSUME NEW w \in Worlds
  PROVE  RequestAll(w, {}) = w
<1> DEFINE v == RequestAll(w, {})
<1>1. v = [state |-> v.state, pending |-> v.pending, nextSequence |-> v.nextSequence]
  BY DEF RequestAll
<1>2. /\ v.state = [c \in Chunks |-> IF c \in {} THEN "generating" ELSE w.state[c]]
      /\ v.pending = w.pending \union {AskedJob(w, {}, c) : c \in {}}
      /\ v.nextSequence = w.nextSequence + Cardinality({})
  BY AllRequested
<1> HIDE DEF v
<1>3. Cardinality({}) = 0 /\ w.nextSequence \in Nat /\ w.state \in [Chunks -> ChunkStates]
  BY FS_EmptySet DEF Worlds
<1>4. v.state = w.state /\ v.pending = w.pending /\ v.nextSequence = w.nextSequence
  BY <1>2, <1>3
<1>5. w = [state |-> w.state, pending |-> w.pending, nextSequence |-> w.nextSequence]
  BY DEF Worlds
<1>6. v = w
  BY <1>1, <1>4, <1>5
<1> QED BY <1>6 DEF v

\* The order of identities is the order in which a set is requested.
THEOREM RequestedInOrder ==
  ASSUME NEW w, WellFormed(w), NEW A \in SUBSET Chunks, NEW c \in Chunks,
         \A d \in A : d < c, \A d \in A : w.state[d] = "unloaded"
  PROVE  RequestAll(w, A \union {c}) = RequestIn(RequestAll(w, A), c)
<1>0. PICK B : B = A \union {c}
  OBVIOUS
<1> DEFINE v == RequestAll(w, A)
           u == RequestAll(w, B)
           r == RequestIn(v, c)
<1>1. B \in SUBSET Chunks /\ \A d \in B : d \in Int
  BY <1>0, ChunksAssumption
<1>2. c \notin A
  BY <1>0, <1>1
<1>3. /\ v.state = [d \in Chunks |-> IF d \in A THEN "generating" ELSE w.state[d]]
      /\ v.pending = w.pending \union {AskedJob(w, A, d) : d \in A}
      /\ v.nextSequence = w.nextSequence + Cardinality(A)
      /\ u.state = [d \in Chunks |-> IF d \in B THEN "generating" ELSE w.state[d]]
      /\ u.pending = w.pending \union {AskedJob(w, B, d) : d \in B}
      /\ u.nextSequence = w.nextSequence + Cardinality(B)
  BY AllRequested
<1>4. WellFormed(v) /\ w.nextSequence \in Nat
  BY RequestingAllKeepsWorld, PartsOfPending
<1>5. /\ r.state = [v.state EXCEPT ![c] = "generating"]
      /\ r.pending = v.pending \union {Job("generate", c, v.nextSequence, GenerationSteps)}
      /\ r.nextSequence = v.nextSequence + 1
  BY <1>4, RequestAnywhere
<1>6. /\ u = [state |-> u.state, pending |-> u.pending, nextSequence |-> u.nextSequence]
      /\ r = [state |-> r.state, pending |-> r.pending, nextSequence |-> r.nextSequence]
  <2>1. u = [state |-> u.state, pending |-> u.pending, nextSequence |-> u.nextSequence]
    BY DEF RequestAll
  <2>2. v \in Worlds
    BY <1>4 DEF WellFormed
  <2> HIDE DEF v
  <2> DEFINE state == [v.state EXCEPT ![c] = "generating"]
             pending == v.pending \union {Job("generate", c, v.nextSequence, GenerationSteps)}
  <2>4. r = [v EXCEPT !.state = state, !.pending = pending, !.nextSequence = @ + 1]
    BY <2>2 DEF RequestIn, Worlds
  <2> HIDE DEF state, pending, r
  <2>3. r = [state |-> r.state, pending |-> r.pending, nextSequence |-> r.nextSequence]
    BY <2>2, <2>4 DEF Worlds
  <2> QED BY <2>1, <2>3
<1>7. IsFiniteSet(A) /\ Cardinality(A) \in Nat /\ Cardinality(B) = Cardinality(A) + 1
  BY <1>0, <1>2, LowerCounts, FS_AddElement
<1>8. Lower(B, c) = Cardinality(A)
  <2>1. {d \in B : d < c} = A
    BY <1>0, <1>1
  <2> QED BY <2>1 DEF Lower
<1>9. \A d \in A : Lower(B, d) = Lower(A, d)
  <2> SUFFICES ASSUME NEW d \in A PROVE Lower(B, d) = Lower(A, d)
    OBVIOUS
  <2>1. {e \in B : e < d} = {e \in A : e < d}
    BY <1>0, <1>1
  <2> QED BY <2>1 DEF Lower
<1> HIDE DEF v, u, r
<1>10. u.pending = r.pending
  <2>1. \A d \in A : AskedJob(w, B, d) = AskedJob(w, A, d)
    BY <1>9 DEF AskedJob
  <2>2. AskedJob(w, B, c) = Job("generate", c, v.nextSequence, GenerationSteps)
    BY <1>3, <1>8 DEF AskedJob
  <2>3. {AskedJob(w, B, d) : d \in B}
          = {AskedJob(w, A, d) : d \in A} \union {AskedJob(w, B, c)}
    BY <1>0, <2>1
  <2> QED BY <1>3, <1>5, <2>2, <2>3
<1>11. u.state = r.state
  BY <1>0, <1>3, <1>5
<1>12. u.nextSequence = r.nextSequence
  BY <1>3, <1>4, <1>5, <1>7
<1>13. u = r
  BY <1>6, <1>10, <1>11, <1>12
<1> QED BY <1>0, <1>13 DEF u, r, v

-----------------------------------------------------------------------------
(* The world re-executed *)

Replays == INSTANCE FoldLemmas WITH Op <- Reexecute

\* What became of the ticks before n.
Replayed(requests, n) == Replays!Folded(requests, NewWorld, Ticks(n))

LEMMA ReexecutedIsReplayed == Reexecuted = Replayed(asked, tick + 1)
BY Zenon DEF Reexecuted, FoldLeft, MapThenFoldSet, Max, Replayed, Replays!Folded,
   Replays!FoldLeft, Replays!MapThenFoldSet, Replays!Max

LEMMA TicksAreNumbered ==
  ASSUME NEW n \in Nat
  PROVE  Ticks(n) \in Seq(Nat) /\ Ticks(n + 1) = Append(Ticks(n), n)
<1>1. Ticks(n) \in Seq(Nat) /\ Len(Ticks(n)) = n /\ \A i \in 1..n : Ticks(n)[i] = i - 1
  BY DEF Ticks
<1>2. Ticks(n + 1) \in Seq(Nat) /\ Len(Ticks(n + 1)) = n + 1
      /\ \A i \in 1..(n + 1) : Ticks(n + 1)[i] = i - 1
  BY DEF Ticks
<1>3. Append(Ticks(n), n) \in Seq(Nat) /\ Len(Append(Ticks(n), n)) = n + 1
      /\ \A i \in 1..(n + 1) : Append(Ticks(n), n)[i] = i - 1
  BY <1>1
<1> QED BY <1>1, <1>2, <1>3, SeqEqual

LEMMA ReplayedSteps ==
  ASSUME NEW requests, NEW n \in Nat
  PROVE  Replayed(requests, n + 1) = Reexecute(requests, Replayed(requests, n), n)
<1>1. Ticks(n) \in Seq(Nat) /\ Ticks(n + 1) = Append(Ticks(n), n)
  BY TicksAreNumbered
<1>2. Replays!Folded(requests, NewWorld, Append(Ticks(n), n))
        = Reexecute(requests, Replays!Folded(requests, NewWorld, Ticks(n)), n)
  BY <1>1, Replays!FoldOfMore
<1> QED BY <1>1, <1>2 DEF Replayed

LEMMA ReplayedOfNothing ==
  ASSUME NEW requests
  PROVE  Replayed(requests, 0) = NewWorld
<1>1. Ticks(0) = <<>>
  BY DEF Ticks
<1> QED BY <1>1, Replays!FoldOfNothing DEF Replayed

\* Requests of one tick say nothing of the ticks before.
LEMMA ReplayedBefore ==
  ASSUME NEW requests, NEW n \in Nat, NEW c
  PROVE  Replayed(requests \union {<<n, c>>}, n) = Replayed(requests, n)
<1>0. PICK more : more = requests \union {<<n, c>>}
  OBVIOUS
<1>1. DOMAIN Ticks(n) = 1..n /\ \A i \in 1..n : Ticks(n)[i] = i - 1
  BY DEF Ticks
<1>2. ASSUME NEW i \in 1..n, NEW so
      PROVE  Reexecute(requests, so, Ticks(n)[i]) = Reexecute(more, so, Ticks(n)[i])
  <2>1. Ticks(n)[i] # n
    BY <1>1
  <2>2. AskedAt(requests, Ticks(n)[i]) = AskedAt(more, Ticks(n)[i])
    BY <1>0, <2>1 DEF AskedAt
  <2> QED BY <2>2 DEF Reexecute
<1>3. Replays!Folded(requests, NewWorld, Ticks(n)) = Replays!Folded(more, NewWorld, Ticks(n))
  BY <1>1, <1>2, Replays!FoldOfAgreeing
<1> QED BY <1>0, <1>3 DEF Replayed

\* The world that the requests of a tick come upon.
Start(requests, t) ==
  IF t = 0 THEN NewWorld ELSE AdvanceIn(Replayed(requests, t))

LEMMA ReexecutedFromStart ==
  ASSUME NEW requests, NEW t \in Nat
  PROVE  Replayed(requests, t + 1) = RequestAll(Start(requests, t), AskedAt(requests, t))
<1>1. Replayed(requests, t + 1) = Reexecute(requests, Replayed(requests, t), t)
  BY ReplayedSteps
<1>2. CASE t = 0
  BY <1>1, <1>2, ReplayedOfNothing DEF Reexecute, Start
<1>3. CASE t # 0
  BY <1>1, <1>3 DEF Reexecute, Start
<1> QED BY <1>2, <1>3

-----------------------------------------------------------------------------
(* What the order of submission cannot change *)

\* As long as the clock runs, and no tick requests two chunks of one place.
Comparable ==
  /\ tick < TickLimit
  /\ \A a, b \in asked : a[1] = b[1] /\ Place[a[2]] = Place[b[2]] => a = b

OrderInvariant ==
  /\ asked \subseteq (0..tick) \X Chunks
  /\ Comparable =>
       /\ WellFormed(Start(asked, tick))
       /\ \A c \in AskedAt(asked, tick) : Start(asked, tick).state[c] = "unloaded"
       /\ Similar(world, Replayed(asked, tick + 1))

LEMMA SimilarToItself ==
  ASSUME NEW w, OneJobEach(w.pending)
  PROVE  Similar(w, w)
<1>1. \A p, q \in w.pending : Twin(p, q) => p = q
  BY DEF Twin, OneJobEach
<1>2. \A p : Twin(p, p)
  BY DEF Twin
<1> QED BY <1>1, <1>2 DEF Similar, Alike

LEMMA OrderInvariantInitially == Init => OrderInvariant
<1> SUFFICES ASSUME Init PROVE OrderInvariant
  OBVIOUS
<1>1. tick = 0 /\ world = NewWorld /\ asked = {}
  BY DEF Init
<1>2. WellFormed(NewWorld)
  BY WorldInvariantInitially, <1>1 DEF WorldInvariant
<1>3. Start(asked, tick) = NewWorld /\ AskedAt(asked, tick) = {}
  BY <1>1 DEF Start, AskedAt
<1>4. Replayed(asked, tick + 1) = NewWorld
  <2>1. Replayed(asked, 0 + 1) = RequestAll(NewWorld, {})
    BY <1>1, <1>3, ReexecutedFromStart
  <2>2. RequestAll(NewWorld, {}) = NewWorld
    BY <1>2, NothingRequested DEF WellFormed
  <2> QED BY <1>1, <2>1, <2>2
<1>5. Similar(world, Replayed(asked, tick + 1))
  BY <1>1, <1>2, <1>4, SimilarToItself, PartsOfPending
<1>6. asked \subseteq (0..tick) \X Chunks
  BY <1>1
<1> QED BY <1>2, <1>3, <1>5, <1>6 DEF OrderInvariant

LEMMA OrderKeptByRequest ==
  ASSUME WorldInvariant, OrderInvariant, NEW c \in Chunks, Request(c)
  PROVE  OrderInvariant'
<1>1. /\ world.state[c] = "unloaded" /\ world' = RequestIn(world, c)
      /\ asked' = asked \union {<<tick, c>>} /\ tick' = tick
  BY DEF Request
<1>2. tick \in Nat /\ tick \in 0..TickLimit
  BY ConfigAssumption DEF WorldInvariant
<1>3. asked' \subseteq (0..tick') \X Chunks
  BY <1>1, <1>2 DEF OrderInvariant
<1> SUFFICES ASSUME Comparable'
             PROVE  /\ WellFormed(Start(asked', tick))
                    /\ \A d \in AskedAt(asked', tick) :
                         Start(asked', tick).state[d] = "unloaded"
                    /\ Similar(world', Replayed(asked', tick + 1))
  BY <1>1, <1>3 DEF OrderInvariant
<1>4. Comparable
  BY <1>1 DEF Comparable
<1>5. PICK A : A = AskedAt(asked, tick)
  OBVIOUS
<1>6. PICK s : s = Start(asked, tick)
  OBVIOUS
<1>7. A \in SUBSET Chunks /\ AskedAt(asked', tick) = A \union {c}
  BY <1>1, <1>5 DEF AskedAt
<1>8. Start(asked', tick) = s
  BY <1>1, <1>2, <1>6, ReplayedBefore DEF Start
<1>9. WellFormed(s) /\ (\A d \in A : s.state[d] = "unloaded")
      /\ Similar(world, Replayed(asked, tick + 1))
  BY <1>4, <1>5, <1>6 DEF OrderInvariant
<1>10. Replayed(asked, tick + 1) = RequestAll(s, A)
       /\ Replayed(asked', tick + 1) = RequestAll(s, A \union {c})
  BY <1>2, <1>5, <1>6, <1>7, <1>8, ReexecutedFromStart
<1>11. c \notin A /\ s.state[c] = "unloaded"
  <2>1. RequestAll(s, A).state[c] = "unloaded"
    BY <1>1, <1>9, <1>10 DEF Similar
  <2>2. RequestAll(s, A).state =
          [d \in Chunks |-> IF d \in A THEN "generating" ELSE s.state[d]]
    BY AllRequested
  <2> QED BY <2>1, <2>2
<1>12. DistinctPlaces(A \union {c})
  <2>1. \A d \in A \union {c} : <<tick, d>> \in asked'
    BY <1>1, <1>5 DEF AskedAt
  <2>2. \A a, b \in asked' : a[1] = b[1] /\ Place[a[2]] = Place[b[2]] => a = b
    BY DEF Comparable
  <2> QED BY <2>1, <2>2 DEF DistinctPlaces
<1>13. Similar(RequestIn(RequestAll(s, A), c), RequestAll(s, A \union {c}))
  BY <1>7, <1>9, <1>11, <1>12, RequestsMayMove
<1>14. Similar(RequestIn(world, c), RequestIn(RequestAll(s, A), c))
  <2>1. WellFormed(RequestAll(s, A))
    BY <1>7, <1>9, RequestingAllKeepsWorld
  <2> QED BY <1>1, <1>9, <1>10, <2>1, RequestsKeepSimilar DEF WorldInvariant
<1>15. Similar(world', Replayed(asked', tick + 1))
  BY <1>1, <1>10, <1>13, <1>14, AlikeIsTransitive DEF Similar
<1> QED BY <1>7, <1>8, <1>9, <1>11, <1>15

LEMMA OrderKeptByTick ==
  ASSUME WorldInvariant, OrderInvariant, Advance
  PROVE  OrderInvariant'
<1>1. world' = AdvanceIn(world) /\ asked' = asked /\ tick' = TickAfter(tick)
  BY DEF Advance
<1>2. tick \in Nat /\ tick \in 0..TickLimit /\ TickLimit \in Nat
  BY ConfigAssumption DEF WorldInvariant
<1>3. asked' \subseteq (0..tick') \X Chunks
  BY <1>1, <1>2 DEF OrderInvariant, TickAfter
<1> SUFFICES ASSUME Comparable'
             PROVE  /\ WellFormed(Start(asked', tick'))
                    /\ \A c \in AskedAt(asked', tick') :
                         Start(asked', tick').state[c] = "unloaded"
                    /\ Similar(world', Replayed(asked', tick' + 1))
  BY <1>3 DEF OrderInvariant
<1>4. tick' = tick + 1 /\ Comparable
  BY <1>1, <1>2 DEF Comparable, TickAfter
<1>5. PICK v : v = Replayed(asked, tick + 1)
  OBVIOUS
<1>6. WellFormed(v)
  <2>1. AskedAt(asked, tick) \in SUBSET Chunks
    BY DEF AskedAt
  <2>2. v = RequestAll(Start(asked, tick), AskedAt(asked, tick))
    BY <1>2, <1>5, ReexecutedFromStart
  <2> QED BY <1>4, <2>1, <2>2, RequestingAllKeepsWorld DEF OrderInvariant
<1>7. Similar(world, v)
  BY <1>4, <1>5 DEF OrderInvariant
<1>8. Start(asked, tick + 1) = AdvanceIn(v)
  BY <1>2, <1>5 DEF Start
<1>9. WellFormed(AdvanceIn(v))
  BY <1>6, TickKeepsWorld
<1>10. AskedAt(asked, tick + 1) = {}
  BY <1>2 DEF AskedAt, OrderInvariant
<1>11. Replayed(asked, (tick + 1) + 1) = AdvanceIn(v)
  <2>1. Replayed(asked, (tick + 1) + 1) = RequestAll(AdvanceIn(v), {})
    <3>1. tick + 1 \in Nat
      BY <1>2
    <3> QED BY <1>8, <1>10, <3>1, ReexecutedFromStart
  <2> QED BY <1>9, <2>1, NothingRequested DEF WellFormed
<1>12. Similar(AdvanceIn(world), AdvanceIn(v))
  BY <1>6, <1>7, TicksKeepSimilar DEF WorldInvariant
<1> QED BY <1>1, <1>4, <1>8, <1>9, <1>10, <1>11, <1>12

LEMMA OrderInvariantSteps ==
  WorldInvariant /\ OrderInvariant /\ [Next]_vars => OrderInvariant'
<1> SUFFICES ASSUME WorldInvariant, OrderInvariant, [Next]_vars
             PROVE  OrderInvariant'
  OBVIOUS
<1>1. ASSUME NEW c \in Chunks, Request(c)
      PROVE  OrderInvariant'
  BY <1>1, OrderKeptByRequest
<1>2. ASSUME UNCHANGED <<tick, world, asked>>
      PROVE  OrderInvariant'
  BY <1>2 DEF OrderInvariant, Comparable
<1>3. ASSUME NEW c \in Simulated, NEW detail \in Details, SetSimulationDetail(c, detail)
      PROVE  OrderInvariant'
  BY <1>2, <1>3 DEF SetSimulationDetail
<1>4. CASE Advance
  BY <1>4, OrderKeptByTick
<1>5. CASE UNCHANGED vars
  BY <1>2, <1>5 DEF vars
<1> QED BY <1>1, <1>3, <1>4, <1>5 DEF Next

\* ADR 0019's promise, for any chunks, places, budget and job lengths: a world is what
\* the requests of each tick in the order of identities would have made of it,
\* whatever the order they came in: SubmissionOrderIsIrrelevant.
THEOREM SubmissionOrderNeverMatters == Spec => []SubmissionOrderIsIrrelevant
<1>1. OrderInvariant => SubmissionOrderIsIrrelevant
  BY ReexecutedIsReplayed DEF OrderInvariant, Comparable, Similar,
     SubmissionOrderIsIrrelevant
<1>2. Init => OrderInvariant
  BY OrderInvariantInitially
<1>3. WorldInvariant /\ OrderInvariant /\ [Next]_vars => OrderInvariant'
  BY OrderInvariantSteps
<1> QED BY <1>1, <1>2, <1>3, WorldInvariantHolds, PTL DEF Spec

=============================================================================
