----------------------------- MODULE RuntimeHandles -----------------------------
(***************************************************************************)
(* The objects through which a host uses the kernel (runtime-web/src/      *)
(* index.ts): a runtime, the rooms made on it, and what is drained from    *)
(* it.  A method is one step of the single thread that calls it, and       *)
(* throws where a call into the module fails; what it reads, submits,      *)
(* saves or verifies leaves what is modelled here as it is.                *)
(*                                                                         *)
(* What a tick raises is its number.                                       *)
(***************************************************************************)
EXTENDS Integers, Sequences

CONSTANTS
  Rooms,     \* the rooms a host may create
  MaxRaised  \* bound on the ticks of a behaviour

ASSUME HandlesAssumption == MaxRaised \in Nat /\ "runtime" \notin Rooms

VARIABLES
  runtimeHandle, \* "none", "live" or "destroyed"
  roomHandles,   \* roomHandles[r]: the same, of a room
  networkRooms,  \* the rooms the runtime destroys with itself
  memory,        \* what is alive in the module
  handlers,      \* whether the handlers of the statechart are declared
  chart,         \* whether it is installed
  stepped,       \* the ticks that raised something so far
  queues,        \* queues[q]: what waits in the kernel to be drained
  drained        \* history: drained[q]: what drains have returned; since a load only

handles == <<runtimeHandle, roomHandles, networkRooms, memory, handlers, chart, stepped,
             queues, drained>>

\* Presentation events, traces of the statechart, and deltas of regions.
Queues == {"events", "traces", "deltas"}
Empty == [q \in Queues |-> <<>>]

HandlesInit ==
  /\ runtimeHandle = "none"
  /\ roomHandles = [r \in Rooms |-> "none"]
  /\ networkRooms = {} /\ memory = {}
  /\ handlers = FALSE /\ chart = FALSE
  /\ stepped = 0
  /\ queues = Empty /\ drained = Empty

-----------------------------------------------------------------------------
CreateRuntime ==
  /\ runtimeHandle = "none"
  /\ runtimeHandle' = "live" /\ memory' = {"runtime"}
  /\ UNCHANGED <<roomHandles, networkRooms, handlers, chart, stepped, queues, drained>>

\* The handlers are declared before the chart, which may still be refused.
InstallStatechart ==
  /\ runtimeHandle = "live" /\ stepped = 0
  /\ handlers' = TRUE
  /\ chart' \in {chart, TRUE}
  /\ UNCHANGED <<runtimeHandle, roomHandles, networkRooms, memory, stepped, queues, drained>>

\* A tick raises events, traces when there is a chart, and deltas in place of those of
\* the tick before.
Raised(q) ==
  CASE q = "deltas" -> <<stepped + 1>>
    [] q = "traces" /\ ~chart -> queues[q]
    [] OTHER -> Append(queues[q], stepped + 1)

\* The timers are committed before the inputs: when these fail, what the timers raised
\* stays, and only what the chart traced is taken back.
TimersRaised(q) == IF q = "traces" THEN queues[q] ELSE Raised(q)

\* A tick succeeds, fails behind its timers (which an earlier tick has started), or
\* fails before them, having cleared the deltas of the one before.
StepKernel ==
  /\ stepped < MaxRaised
  /\ \/ stepped' = stepped + 1 /\ queues' = [q \in Queues |-> Raised(q)]
     \/ stepped > 0 /\ stepped' = stepped + 1 /\ queues' = [q \in Queues |-> TimersRaised(q)]
     \/ queues' = [queues EXCEPT !["deltas"] = <<>>] /\ UNCHANGED stepped
  /\ UNCHANGED <<runtimeHandle, roomHandles, networkRooms, memory, handlers, chart, drained>>

StepRuntime == runtimeHandle = "live" /\ StepKernel

\* The runtime is advanced through a room of it.
AdvanceRoom == (\E r \in Rooms : roomHandles[r] = "live") /\ StepKernel

\* Defect: the queue is cleared before what it held is converted.
DrainCleared(q) ==
  /\ queues' = [queues EXCEPT ![q] = <<>>]
  /\ \/ drained' = [drained EXCEPT ![q] = @ \o queues[q]]
     \/ UNCHANGED drained

\* What was copied is converted, and then the queue is cleared: a record that is not
\* understood throws before that, and everything is drained again.
DrainOf(q) ==
  \/ queues' = [queues EXCEPT ![q] = <<>>] /\ drained' = [drained EXCEPT ![q] = @ \o queues[q]]
  \/ UNCHANGED <<queues, drained>>

Drain ==
  /\ runtimeHandle = "live"
  /\ \E q \in Queues : DrainOf(q)
  /\ UNCHANGED <<runtimeHandle, roomHandles, networkRooms, memory, handlers, chart, stepped>>

\* A save that is loaded clears what waits.
LoadArchive ==
  /\ runtimeHandle = "live"
  /\ stepped' \in 0..MaxRaised
  /\ queues' = Empty /\ drained' = Empty
  /\ UNCHANGED <<runtimeHandle, roomHandles, networkRooms, memory, handlers, chart>>

-----------------------------------------------------------------------------
CreateNetworkRoom ==
  /\ runtimeHandle = "live"
  /\ \E r \in Rooms :
       /\ roomHandles[r] = "none"
       /\ roomHandles' = [roomHandles EXCEPT ![r] = "live"]
       /\ networkRooms' = networkRooms \union {r} /\ memory' = memory \union {r}
  /\ UNCHANGED <<runtimeHandle, handlers, chart, stepped, queues, drained>>

\* A room that is destroyed is forgotten by its runtime; twice is once.
DestroyRoom ==
  /\ \E r \in Rooms :
       /\ roomHandles[r] = "live"
       /\ roomHandles' = [roomHandles EXCEPT ![r] = "destroyed"]
       /\ networkRooms' = networkRooms \ {r} /\ memory' = memory \ {r}
  /\ UNCHANGED <<runtimeHandle, handlers, chart, stepped, queues, drained>>

\* The rooms of the runtime first.
DestroyRuntime ==
  /\ runtimeHandle = "live"
  /\ runtimeHandle' = "destroyed"
  /\ roomHandles' = [r \in Rooms |-> IF r \in networkRooms THEN "destroyed" ELSE roomHandles[r]]
  /\ networkRooms' = {}
  /\ memory' = memory \ ({"runtime"} \union networkRooms)
  /\ UNCHANGED <<handlers, chart, stepped, queues, drained>>

HandlesNext ==
  \/ CreateRuntime \/ InstallStatechart \/ StepRuntime \/ Drain \/ LoadArchive
  \/ CreateNetworkRoom \/ AdvanceRoom \/ DestroyRoom \/ DestroyRuntime

HandlesSpec == HandlesInit /\ [][HandlesNext]_handles

-----------------------------------------------------------------------------
\* A room never outlives, in the memory of the module, the runtime it refers to, and
\* what is drained is every event since the last load, once and in order, whichever
\* drains threw (runtime-web/src/index.ts, destroy and drainPresentationEvents).
HandlesAreSound ==
  /\ memory # {} => "runtime" \in memory
  /\ \A r \in Rooms : roomHandles[r] = "live" <=> r \in memory
  /\ \E before \in 0..stepped :
       drained["events"] \o queues["events"] = [i \in 1..(stepped - before) |-> before + i]
=============================================================================
