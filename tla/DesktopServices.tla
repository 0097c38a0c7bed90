---------------------------- MODULE DesktopServices ----------------------------
(***************************************************************************)
(* Two services of the desktop host that answer late: the update checks of *)
(* updates.cjs, which share the events of one autoUpdater, and the packets *)
(* of Steam, which steam.cjs sends and polls and steam-transport.ts puts   *)
(* into its envelope.                                                      *)
(*                                                                         *)
(* A packet is its kind, its bytes and whether they decode.  Steam keeps   *)
(* the packets of everybody in one queue.                                  *)
(***************************************************************************)
EXTENDS Integers, SequencesExt

CONSTANTS
  Checks,     \* the update checks a page asks for
  MaxPackets  \* bound on the packets in each direction

ASSUME ServicesAssumption == MaxPackets \in Nat

VARIABLES
  feed,        \* whether the update service is available
  checks,      \* what each check has been answered
  listeners,   \* the checks whose listeners the autoUpdater has
  timers,      \* the checks whose 30 seconds run
  outstanding, \* the checks the updater has not answered
  firstWord,   \* history: what each check learned first
  networking,  \* whether there is a Steam client with P2P networking
  outbox,      \* the packets Steam took
  inbox,       \* the packets Steam has for the game
  arrived,     \* history: all it ever had
  received     \* the packets the game was given

services == <<feed, checks, listeners, timers, outstanding, firstWord,
              networking, outbox, inbox, arrived, received>>

updating == <<feed, checks, listeners, timers, outstanding, firstWord>>
carrying == <<networking, outbox, inbox, arrived, received>>

MaximumReliable == 1024 * 1024
MaximumRealtime == 1200
Envelope == 6

\* Around each limit: no payload, the longest input, and the longest snapshot, with one
\* byte more.
Payloads == {0, MaximumRealtime - Envelope, MaximumRealtime - Envelope + 1,
             MaximumReliable - Envelope, MaximumReliable - Envelope + 1}

ServicesInit ==
  /\ feed \in BOOLEAN
  /\ checks = [c \in Checks |-> "unasked"]
  /\ listeners = {} /\ timers = {}
  /\ outstanding = 0
  /\ firstWord = [c \in Checks |-> "none"]
  /\ networking \in BOOLEAN
  /\ outbox = <<>> /\ inbox = <<>> /\ arrived = <<>> /\ received = <<>>

-----------------------------------------------------------------------------
(* Updates *)

Told(told, word) ==
  firstWord' = [c \in Checks |-> IF c \in told /\ firstWord[c] = "none" THEN word ELSE firstWord[c]]

CheckForUpdates(c) ==
  /\ checks[c] = "unasked"
  /\ \/ /\ ~feed
        /\ checks' = [checks EXCEPT ![c] = "disabled"] /\ Told({c}, "disabled")
        /\ UNCHANGED <<listeners, timers, outstanding>>
     \/ /\ feed
        /\ checks' = [checks EXCEPT ![c] = "waiting"]
        /\ listeners' = listeners \union {c} /\ timers' = timers \union {c}
        /\ outstanding' = outstanding + 1
        /\ UNCHANGED firstWord
     \/ /\ feed  \* checkForUpdates throws: the promise is rejected, and the rest stays
        /\ checks' = [checks EXCEPT ![c] = "rejected"] /\ Told({c}, "rejected")
        /\ listeners' = listeners \union {c} /\ timers' = timers \union {c}
        /\ UNCHANGED outstanding
  /\ UNCHANGED feed

\* Defect: the promises are resolved, and timers and listeners left as they are.
FinishAlone(told, status) ==
  /\ checks' = [c \in Checks |-> IF c \in told /\ checks[c] # "rejected" THEN status ELSE checks[c]]
  /\ UNCHANGED <<listeners, timers>>
  /\ Told(told, status)

\* A check is settled once, by whichever of its listeners or its timer is first.
Finish(told, status) ==
  /\ checks' = [c \in Checks |-> IF c \in told /\ checks[c] = "waiting" THEN status ELSE checks[c]]
  /\ listeners' = listeners \ told /\ timers' = timers \ told
  /\ Told(told, status)

\* The updater answers one check, and everybody who waits hears it.  When nobody does any
\* more, an error is thrown in the main process instead.
UpdaterSays ==
  /\ outstanding > 0 /\ outstanding' = outstanding - 1
  /\ \E status \in {"available", "current", "error"} : Finish(listeners, status)
  /\ UNCHANGED feed

CheckTimesOut(c) ==
  /\ c \in timers
  /\ Finish({c}, "error")
  /\ UNCHANGED <<feed, outstanding>>

-----------------------------------------------------------------------------
(* Steam *)

ModeOf(kind) == IF kind = "input" THEN "realtime" ELSE "reliable"

MaximumOf(mode) == IF mode = "realtime" THEN MaximumRealtime ELSE MaximumReliable

\* What does not fit is refused before Steam sees it, and Steam may refuse the rest.
SteamSend ==
  /\ networking /\ Len(outbox) < MaxPackets
  /\ \E kind \in {"input", "snapshot"}, payload \in Payloads :
       /\ payload + Envelope <= MaximumOf(ModeOf(kind))
       /\ outbox' = Append(outbox, [kind |-> kind, mode |-> ModeOf(kind), bytes |-> payload + Envelope])
  /\ UNCHANGED <<networking, inbox, arrived, received>>

SteamArrives ==
  /\ networking /\ Len(arrived) < MaxPackets
  /\ \E bytes \in {Envelope, MaximumRealtime, MaximumReliable, MaximumReliable + 1}, decodes \in BOOLEAN :
       /\ inbox' = Append(inbox, [bytes |-> bytes, decodes |-> decodes])
       /\ arrived' = Append(arrived, [bytes |-> bytes, decodes |-> decodes])
  /\ UNCHANGED <<networking, outbox, received>>

\* A packet longer than was asked for is an error, and stays where it is; one that does
\* not decode is taken, and is an error as well.
SteamRead ==
  /\ networking /\ inbox # <<>>
  /\ \E maximum \in {0, MaximumRealtime, MaximumReliable, MaximumReliable + 1} :
       /\ maximum \in 1..MaximumReliable
       /\ Head(inbox).bytes <= maximum
  /\ inbox' = Tail(inbox)
  /\ received' = IF Head(inbox).decodes THEN Append(received, Head(inbox)) ELSE received
  /\ UNCHANGED <<networking, outbox, arrived>>

ServicesNext ==
  \/ /\ \/ UpdaterSays
        \/ \E c \in Checks : CheckForUpdates(c) \/ CheckTimesOut(c)
     /\ UNCHANGED carrying
  \/ (SteamSend \/ SteamArrives \/ SteamRead) /\ UNCHANGED updating

ServicesSpec == ServicesInit /\ [][ServicesNext]_services

-----------------------------------------------------------------------------
(* Properties *)

Decoding(packets) ==
  FoldLeft(LAMBDA found, p : IF p.decodes THEN Append(found, p) ELSE found, <<>>, packets)

\* Whatever order the updater's events and the timers come in, a check is answered what it
\* learned first and never waits with nobody to wake it; what Steam took fits its mode; and
\* the game is given the packets that decode, whole and in the order they came.
ServicesAnswerOnce ==
  /\ \A c \in Checks :
       /\ checks[c] \notin {"unasked", "waiting"} => checks[c] = firstWord[c]
       /\ checks[c] = "waiting" => c \in listeners /\ c \in timers
       /\ checks[c] \in {"available", "current", "error"} => c \notin listeners \union timers
  /\ \A i \in DOMAIN outbox : outbox[i].bytes <= MaximumOf(outbox[i].mode)
  /\ received \o Decoding(inbox) = Decoding(arrived)
=============================================================================
