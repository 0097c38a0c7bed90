---------------------------- MODULE ControlSession ----------------------------
(***************************************************************************)
(* A scenario or a replay the command line plays in a worker process:      *)
(* control-client.ts and process-runner.ts around control-worker.ts, as    *)
(* scenario-harness.ts drives them.                                        *)
(*                                                                         *)
(* The client has one request on its way at most.  The worker takes as     *)
(* long as it likes, and either process may end at any moment.  What a     *)
(* scenario does is its requests; what they answer is PASS or FAIL.        *)
(***************************************************************************)
EXTENDS Integers, Sequences

VARIABLES
  control,    \* "simulate" or "replay"
  script,     \* the requests the harness still has to make
  phase,      \* how far the command is with its client
  requestSequence,  \* requestSequence
  pending,    \* the requests of the client that wait: [id, operation]
  stdin,      \* requests the worker has not read
  stdout,     \* answers [id, to, status] the client has not read; to, history, is the
              \* id of the request an answer was made for
  worker,     \* "none", "running", or "gone"
  exited,     \* whether the client has seen the worker exit
  runtime,    \* the runtime of the worker
  commands,   \* the records of commands.json: [id, operation, to, status]
  interrupted \* whether a signal has reached the command line

controlled == <<control, script, phase, requestSequence, pending, stdin, stdout, worker, exited,
              runtime, commands, interrupted>>

ControlInit ==
  /\ control \in {"simulate", "replay"}
  /\ script = IF control = "simulate"
              THEN <<"load_scenario", "act", "wait_for", "inspect", "metrics", "verify_replay">>
              ELSE <<"load_scenario", "verify_replay">>
  /\ phase = "off"
  /\ requestSequence = 0
  /\ pending = {}
  /\ stdin = <<>> /\ stdout = <<>>
  /\ worker = "none" /\ exited = FALSE
  /\ runtime = "none"
  /\ commands = {}
  /\ interrupted = FALSE

-----------------------------------------------------------------------------
(* The client, and the command that drives it *)

Written(operation) ==
  /\ requestSequence' = requestSequence + 1
  /\ pending' = pending \union {[id |-> requestSequence + 1, operation |-> operation]}
  /\ stdin' = Append(stdin, [id |-> requestSequence + 1, operation |-> operation])

\* The worker is spawned, in a process group of its own, and asked for its health.
StartWorker ==
  /\ phase = "off"
  /\ phase' = "running"
  /\ worker' = "running"
  /\ Written("health")
  /\ UNCHANGED <<control, script, stdout, exited, runtime, commands, interrupted>>

Ask ==
  /\ phase = "running" /\ pending = {} /\ script # <<>> /\ ~exited
  /\ Written(Head(script))
  /\ script' = Tail(script)
  /\ UNCHANGED <<control, phase, stdout, worker, exited, runtime, commands, interrupted>>

\* Everything has been asked, or the worker is gone: the client is closed.
BeginClose ==
  /\ phase = "running" /\ pending = {} /\ (script = <<>> \/ exited)
  /\ IF exited THEN phase' = "closed" /\ UNCHANGED <<requestSequence, pending, stdin>>
     ELSE phase' = "shutting down" /\ Written("shutdown")
  /\ script' = <<>>
  /\ UNCHANGED <<control, stdout, worker, exited, runtime, commands, interrupted>>

\* What the harness has still to ask after an answer: a step that fails is the last one,
\* and a replay is verified whether its scenario could be loaded or not.
Remaining(operation, status) ==
  IF status = "PASS" \/ control = "replay" THEN script
  ELSE CASE operation \in {"load_scenario", "inspect"} -> <<>>
         [] operation \in {"act", "wait_for"} -> <<"inspect", "metrics", "verify_replay">>
         [] OTHER -> script

\* A request that is rejected: the worker is terminated when it never was healthy, and
\* the client is closed in any other case.
Rejected(operation) ==
  /\ script' = <<>>
  /\ phase' = CASE operation = "health" -> "terminating"
                [] phase = "shutting down" -> "leaving"
                [] OTHER -> phase

\* Defect: the answer settles whatever request waits.
SettledByAny(answer) == pending

\* The request it names waits: it may have run out of time.
SettledBy(answer) == {request \in pending : request.id = answer.id}

ReceiveResponse ==
  /\ stdout # <<>> /\ phase \in {"running", "shutting down"}
  /\ stdout' = Tail(stdout)
  /\ LET answer == Head(stdout)
         settled == SettledBy(answer) IN
     /\ pending' = pending \ settled
     /\ commands' = commands \union
          {[id |-> r.id, operation |-> r.operation, to |-> answer.to, status |-> answer.status]
           : r \in settled}
     /\ IF settled = {} THEN UNCHANGED <<script, phase>>
        ELSE \E r \in settled :
               /\ script' = Remaining(r.operation, answer.status)
               /\ phase' = IF r.operation = "shutdown" THEN "leaving" ELSE phase
  /\ UNCHANGED <<control, requestSequence, stdin, worker, exited, runtime, interrupted>>

RequestTimesOut ==
  /\ \E request \in pending : pending' = pending \ {request} /\ Rejected(request.operation)
  /\ UNCHANGED <<control, requestSequence, stdin, stdout, worker, exited, runtime, commands, interrupted>>

\* The handlers of the exit of the worker: requests that wait are rejected, and close and
\* terminate return.
SeeExit ==
  /\ worker = "gone" /\ ~exited
  /\ exited' = TRUE
  /\ pending' = {}
  /\ IF pending # {} THEN \E request \in pending :
          /\ script' = <<>>
          /\ phase' = IF phase = "shutting down" \/ request.operation = "health" THEN "closed" ELSE phase
     ELSE /\ phase' = IF phase \in {"leaving", "terminating"} THEN "closed" ELSE phase
          /\ UNCHANGED script
  /\ UNCHANGED <<control, requestSequence, stdin, stdout, worker, runtime, commands, interrupted>>

\* The worker has half a second to leave.
Escalate ==
  /\ phase = "leaving"
  /\ phase' = "terminating"
  /\ UNCHANGED <<control, script, requestSequence, pending, stdin, stdout, worker, exited, runtime,
                 commands, interrupted>>

\* The worker dies of SIGTERM or, after the period of grace, of SIGKILL.
Killed ==
  /\ worker = "running" /\ (phase = "terminating" \/ interrupted)
  /\ worker' = "gone"
  /\ UNCHANGED <<control, script, phase, requestSequence, pending, stdin, stdout, exited, runtime,
                 commands, interrupted>>

Interrupt ==
  /\ phase \notin {"off", "over"} /\ ~interrupted
  /\ interrupted' = TRUE
  /\ UNCHANGED <<control, script, phase, requestSequence, pending, stdin, stdout, worker, exited, runtime,
                 commands>>

\* The command ends, in its own time, by the signal, or of a write to a worker that is
\* gone; its exit handler kills the children it still has.
EndCommand ==
  /\ \/ phase = "closed"
     \/ interrupted /\ exited /\ phase # "over"
     \/ worker = "gone" /\ ~exited /\ stdin # <<>> /\ phase \in {"running", "shutting down"}
  /\ phase' = "over"
  /\ worker' = "gone" /\ exited' = TRUE
  /\ UNCHANGED <<control, script, requestSequence, pending, stdin, stdout, runtime, commands, interrupted>>

-----------------------------------------------------------------------------
(* The worker *)

\* A load destroys the runtime before it creates the next one, and may fail before or
\* after that; a shutdown leaves none.
RuntimesAfter(operation) ==
  CASE operation = "load_scenario" ->
         {<<"ready", "PASS">>, <<"partial", "FAIL">>,
          <<IF runtime = "none" THEN "none" ELSE "destroyed", "FAIL">>}
    [] operation = "shutdown" -> {<<"none", "PASS">>}
    [] operation \in {"health", "metrics"} -> {<<runtime, "PASS">>}
    [] OTHER -> {<<runtime, "FAIL">>} \union
                (IF runtime \in {"ready", "partial"} THEN {<<runtime, "PASS">>} ELSE {})

\* Requests are handled one after the other, each with an answer of its own.
HandleRequest ==
  /\ worker = "running" /\ stdin # <<>>
  /\ \E after \in RuntimesAfter(Head(stdin).operation) :
       /\ runtime' = after[1]
       /\ stdout' = Append(stdout, [id |-> Head(stdin).id, to |-> Head(stdin).id, status |-> after[2]])
  /\ stdin' = Tail(stdin)
  /\ UNCHANGED <<control, script, phase, requestSequence, pending, worker, exited, commands, interrupted>>

\* It leaves after a shutdown or at the end of its input, or crashes.
WorkerExits ==
  /\ worker = "running"
  /\ worker' = "gone"
  /\ UNCHANGED <<control, script, phase, requestSequence, pending, stdin, stdout, exited, runtime,
                 commands, interrupted>>

ControlNext ==
  \/ StartWorker \/ Ask \/ BeginClose \/ ReceiveResponse \/ RequestTimesOut \/ SeeExit
  \/ Escalate \/ Killed \/ Interrupt \/ EndCommand
  \/ HandleRequest \/ WorkerExits

ControlSpec == ControlInit /\ [][ControlNext]_controlled

-----------------------------------------------------------------------------
\* What commands.json says a request answered is what the worker answered to that
\* request, and once close has returned no worker is left, whatever was late, crashed or
\* was interrupted (control-client.ts, request and close).
SessionIsSettled ==
  /\ \A record \in commands : record.to = record.id
  /\ phase = "closed" => worker = "gone"
=============================================================================
