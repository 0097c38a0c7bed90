---------------------------- MODULE LoopbackRoom ----------------------------
(***************************************************************************)
(* kernel/src/network_session.cpp: a room of peers around one authoritative*)
(* Runtime.  Peers enqueue logical inputs; advance orders them, gives each *)
(* a host sequence, submits them to the runtime and commits one tick.      *)
(* Authority moves to another process by an envelope made when no peer has *)
(* an input pending.                                                       *)
(*                                                                         *)
(* The host runtime is the record of RuntimeCore, and a step of it is that *)
(* module's CommitTick.  Client ids are the positions of clients: ids are  *)
(* given in order and clients_ never shrinks.  A hello is its protocol     *)
(* version and whether its world is the room's.  The version a peer was    *)
(* admitted with and its count of reconnections are only reported, and are *)
(* left out; submit_client_state only ever returns an error; and           *)
(* apply_snapshot acts on a peer's own runtime.                            *)
(***************************************************************************)
EXTENDS RuntimeCore

CONSTANTS
  ProtocolVersion,    \* NetworkRoomConfig.protocol_version
  MaxClients,         \* NetworkRoomConfig.maximum_clients
  MaxClientInputs,    \* NetworkRoomConfig.maximum_inputs_per_client
  NoEnvelope,         \* no migration has been prepared
  MaxTick,            \* bound on the ticks of a behaviour
  MaxFaults,          \* bound on the advances that return an error
  MaxSubmissions,     \* bound on the inputs accepted from peers
  MaxClientSequence,  \* bound on the sequences peers give to inputs
  MaxEvents           \* bound on the presentation events numbered before an adoption

ASSUME RoomAssumption ==
  /\ ProtocolVersion \in Nat /\ ProtocolVersion >= 2
  /\ MaxClients \in Nat \ {0} /\ MaxClientInputs \in Nat \ {0}

ASSUME BoundsAssumption ==
  {MaxTick, MaxFaults, MaxSubmissions, MaxClientSequence, MaxEvents} \subseteq Nat

VARIABLES
  host,              \* the authoritative Runtime
  clients,           \* clients_: one record per client id
  nextHostSequence,  \* next_host_sequence_
  envelope,          \* the last migration envelope a host prepared, or NoEnvelope
  accepted,          \* history: accepted[a] inputs of action a, in this timeline
  discarded,         \* history: those that a disconnection threw away
  faults             \* history: advances that returned an error, in this timeline

roomVars == <<host, clients, nextHostSequence, envelope, accepted, discarded, faults>>

Hellos == [version : 0..(ProtocolVersion + 1), sameWorld : BOOLEAN]

ClientInputs == [sequence : 1..MaxClientSequence, action : Actions]

Clients == [connected : BOOLEAN, pending : Seq(ClientInputs)]

\* Versions N and N-1 of the protocol are admitted, and only the room's world.
Compatible(hello) ==
  /\ hello.version \in {ProtocolVersion, ProtocolVersion - 1}
  /\ hello.sameWorld

Count(action, inputs) == Cardinality({i \in DOMAIN inputs : inputs[i].action = action})

RoomInit ==
  /\ host = NewRuntime
  /\ clients = <<>>
  /\ nextHostSequence = 1
  /\ envelope = NoEnvelope
  /\ accepted = [a \in Actions |-> 0]
  /\ discarded = [a \in Actions |-> 0]
  /\ faults = 0

-----------------------------------------------------------------------------
(* Peers *)

\* The room is full once it ever admitted maximum_clients peers.
Connect(hello) ==
  /\ Compatible(hello)
  /\ Len(clients) < MaxClients
  /\ clients' = Append(clients, [connected |-> TRUE, pending |-> <<>>])
  /\ UNCHANGED <<host, nextHostSequence, envelope, accepted, discarded, faults>>

\* A disconnected peer keeps its place and loses its pending inputs.
Disconnect(id) ==
  /\ clients' = [clients EXCEPT ![id] = [connected |-> FALSE, pending |-> <<>>]]
  /\ discarded' = [a \in Actions |-> discarded[a] + Count(a, clients[id].pending)]
  /\ UNCHANGED <<host, nextHostSequence, envelope, accepted, faults>>

Reconnect(id, hello) ==
  /\ ~clients[id].connected
  /\ Compatible(hello)
  /\ clients' = [clients EXCEPT ![id] = [connected |-> TRUE, pending |-> <<>>]]
  /\ UNCHANGED <<host, nextHostSequence, envelope, accepted, discarded, faults>>

Submissions(counts) == FoldFunction(LAMBDA n, total : n + total, 0, counts)

\* LoopbackRoom::submit_input, within the peer's backlog.
SubmitInput(id, input) ==
  /\ clients[id].connected
  /\ Len(clients[id].pending) < MaxClientInputs
  /\ Submissions(accepted) < MaxSubmissions
  /\ clients' = [clients EXCEPT ![id].pending = Append(@, input)]
  /\ accepted' = [accepted EXCEPT ![input.action] = @ + 1]
  /\ UNCHANGED <<host, nextHostSequence, envelope, discarded, faults>>

-----------------------------------------------------------------------------
(* LoopbackRoom::advance *)

PeerInputBefore(left, right) ==
  \/ left.input.sequence < right.input.sequence
  \/ left.input.sequence = right.input.sequence /\ left.client < right.client
  \/ /\ left.input.sequence = right.input.sequence /\ left.client = right.client
     /\ \/ left.input.action < right.input.action
        \/ left.input.action = right.input.action /\ left.place < right.place

\* The pending inputs of every connected client. Of two that are the same, the place
\* in the client's queue tells which is which; the sort may leave them either way.
PeerInputs ==
  UNION {{[client |-> id, place |-> i, input |-> clients[id].pending[i]] :
            i \in DOMAIN clients[id].pending} :
         id \in {c \in DOMAIN clients : clients[c].connected}}

Ordered == Sorted(SetToSeq(PeerInputs), PeerInputBefore)

\* The inputs are submitted one by one until the runtime refuses one; the refused
\* one has used a host sequence too.
Room == MaxPendingInputs - Len(host.pending)

SubmittedCount == IF Len(Ordered) <= Room THEN Len(Ordered) ELSE Room

UsedSequences == IF Len(Ordered) <= Room THEN Len(Ordered) ELSE Room + 1

Submitted ==
  [host EXCEPT !.pending = @ \o
     [i \in 1..SubmittedCount |-> [sequence |-> nextHostSequence + i - 1,
                                   action |-> Ordered[i].input.action]]]

\* Defect: the peers' queues are cleared whether or not the call succeeded.
AdvanceFailsClearing(runtime) ==
  /\ host' = runtime
  /\ faults' = faults + 1
  /\ clients' = [id \in DOMAIN clients |-> [clients[id] EXCEPT !.pending = <<>>]]
  /\ UNCHANGED <<envelope, accepted, discarded>>

\* An error of the runtime ends the call: the inputs stay with the peers, and those
\* already submitted stay with the host too.
AdvanceFails(runtime) ==
  /\ host' = runtime
  /\ faults' = faults + 1
  /\ UNCHANGED <<clients, envelope, accepted, discarded>>

\* Defect: the inputs just committed stay queued.
AdvanceCommitsKeeping(runtime) ==
  /\ host' = runtime
  /\ UNCHANGED <<clients, envelope, accepted, discarded, faults>>

AdvanceCommits(runtime) ==
  /\ host' = runtime
  /\ clients' = [id \in DOMAIN clients |-> [clients[id] EXCEPT !.pending = <<>>]]
  /\ UNCHANGED <<envelope, accepted, discarded, faults>>

AdvanceRoom ==
  /\ host.tick < MaxTick
  /\ faults < MaxFaults
  /\ nextHostSequence' = nextHostSequence + UsedSequences
  /\ \/ /\ SubmittedCount < Len(Ordered)
        /\ AdvanceFails(Submitted)
     \/ /\ SubmittedCount = Len(Ordered)
        /\ \E stepped \in {CommitTick(Submitted)} :
             IF stepped.error = "none" THEN AdvanceCommits(stepped.runtime)
             ELSE AdvanceFails(stepped.runtime)

\* The application drains the presentation events of the host runtime.
DrainEvents ==
  /\ host.events # <<>>
  /\ host' = [host EXCEPT !.events = <<>>]
  /\ UNCHANGED <<clients, nextHostSequence, envelope, accepted, discarded, faults>>

-----------------------------------------------------------------------------
(* Host migration *)

\* Defect: the envelope is made whatever is pending.
PrepareUnsettled ==
  /\ envelope' = [archive |-> SaveOf(host), clients |-> clients,
                  nextHostSequence |-> nextHostSequence,
                  accepted |-> accepted, discarded |-> discarded, faults |-> faults]
  /\ UNCHANGED <<host, clients, nextHostSequence, accepted, discarded, faults>>

\* prepare_host_migration: refused while any peer has an input pending.
PrepareHostMigration ==
  /\ \A id \in DOMAIN clients : clients[id].pending = <<>>
  /\ envelope' = [archive |-> SaveOf(host), clients |-> clients,
                  nextHostSequence |-> nextHostSequence,
                  accepted |-> accepted, discarded |-> discarded, faults |-> faults]
  /\ UNCHANGED <<host, clients, nextHostSequence, accepted, discarded, faults>>

\* adopt_host_migration, by a candidate in a new process or by the host that made
\* the envelope: refused if the runtime has inputs pending.
AdoptHostMigration(candidate) ==
  /\ envelope # NoEnvelope
  /\ candidate.nextSequence <= MaxEvents
  /\ LoadSaveInto(candidate, envelope.archive).error = "none"
  /\ host' = LoadSaveInto(candidate, envelope.archive).runtime
  /\ clients' = [id \in DOMAIN envelope.clients |->
                   [envelope.clients[id] EXCEPT !.pending = <<>>]]
  /\ nextHostSequence' = envelope.nextHostSequence
  /\ accepted' = envelope.accepted
  /\ discarded' = envelope.discarded
  /\ faults' = envelope.faults
  /\ UNCHANGED envelope

RoomNext ==
  \/ \E hello \in Hellos : Connect(hello)
  \/ \E id \in DOMAIN clients : Disconnect(id)
  \/ \E id \in DOMAIN clients, hello \in Hellos : Reconnect(id, hello)
  \/ \E id \in DOMAIN clients, input \in ClientInputs : SubmitInput(id, input)
  \/ AdvanceRoom
  \/ DrainEvents
  \/ PrepareHostMigration
  \/ \E candidate \in {host, NewRuntime} : AdoptHostMigration(candidate)

RoomSpec == RoomInit /\ [][RoomNext]_roomVars

-----------------------------------------------------------------------------
(* Correctness *)

Committed(action, hash) == Count(action, CommittedInputs(hash))

\* Where inputs of an action wait in the queues of a room's peers.
QueuedAt(room, action) ==
  UNION {{<<id, i>> : i \in {j \in DOMAIN room[id].pending : room[id].pending[j].action = action}} :
         id \in DOMAIN room}

Queued(action) == Cardinality(QueuedAt(clients, action))

\* There are never more peers than maximum_clients, and neither a peer's backlog nor
\* the host's queue outgrows its limit, even when failed advances leave inputs in
\* the host's queue.
RoomTypeOK ==
  /\ clients \in Seq(Clients) /\ Len(clients) <= MaxClients
  /\ \A id \in DOMAIN clients : Len(clients[id].pending) <= MaxClientInputs
  /\ Len(host.pending) <= MaxPendingInputs
  /\ nextHostSequence \in Nat \ {0}
  /\ accepted \in [Actions -> Nat] /\ discarded \in [Actions -> Nat]
  /\ faults \in Nat

\* The host sequences of the inputs committed so far, and of those waiting in the
\* host's queue, increase without repetition and are below the next one to give:
\* no retry, reconnection or migration makes two inputs compete for one place.
SequencesIncrease ==
  LET inputs == CommittedInputs(host.hash) \o host.pending
  IN /\ \A i, j \in DOMAIN inputs : i < j => inputs[i].sequence < inputs[j].sequence
     /\ \A i \in DOMAIN inputs : inputs[i].sequence < nextHostSequence

\* Every input a peer was told was accepted is committed, still queued, or was
\* discarded with its peer's disconnection, however often advance failed, and no other
\* input takes its place in the order of the host.
NoInputIsLost ==
  /\ \A a \in Actions :
       accepted[a] <= Committed(a, host.hash) + Queued(a) + discarded[a]
  /\ SequencesIncrease

\* While no advance has failed, none is committed twice: of each action, the host has
\* committed, queued or discarded as many inputs as it accepted.
CleanRoomCommitsOnce ==
  faults = 0 =>
    \A a \in Actions : accepted[a] = Committed(a, host.hash) + Queued(a) + discarded[a]

\* An envelope leaves no accepted input behind: what it moves to the next host has
\* committed everything its peers were not disconnected from.
EnvelopeIsSettled ==
  envelope # NoEnvelope =>
    \A a \in Actions :
      envelope.accepted[a] <= Committed(a, envelope.archive.hash) + envelope.discarded[a]

\* tests/kernel/kernel_test.cpp: "host commits ordered peer inputs once": the host
\* commits no input more often than peers submitted it.
HostCommitsOnce == \A a \in Actions : Committed(a, host.hash) <= accepted[a]

=============================================================================
