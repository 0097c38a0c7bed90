---------------------------- MODULE AudioFeedback ----------------------------
(***************************************************************************)
(* The sounds of the browser host (audio-feedback.ts): sources that loop   *)
(* or end by themselves, sounds that have to be fetched first, and the     *)
(* first input, without which a browser plays nothing.                     *)
(*                                                                         *)
(* Suspending and resuming the audio context is left out: it changes what  *)
(* is heard and not what plays.                                            *)
(***************************************************************************)
EXTENDS HostDiagnostics

CONSTANTS
  Sounds,    \* the event ids of the declared sounds
  Loops,     \* those that loop
  Autoplays, \* those that start with the first input
  Fetched,   \* those that are a file
  Synths     \* those an oscillator plays when there is no buffer

ASSUME SoundsAssumption ==
  IsFiniteSet(Sounds) /\ Loops \union Autoplays \union Fetched \union Synths \subseteq Sounds

VARIABLES
  unlocked,
  buffers,      \* the files fetched and decoded
  unfetched,    \* the files whose request failed
  mixer,        \* active: the loops with an active source; sources[s]: the sources of
                \* loop s that play; deferred: what is played when loading has settled
  lastSequence,
  heard         \* history: what the last event about each loop, handled after the first
                \* input and the loading, left it: "plays", "stopped" or "unknown"

audio == <<unlocked, buffers, unfetched, mixer, lastSequence, heard>>

AudioInit ==
  /\ unlocked = FALSE
  /\ buffers = {} /\ unfetched = {}
  /\ mixer = [active |-> {}, sources |-> [s \in Loops |-> 0], deferred |-> <<>>]
  /\ lastSequence = 0
  /\ heard = [s \in Loops |-> "unknown"]

\* One failed request settles the loading, while the others go on.
Loading == unfetched = {} /\ buffers # Fetched
Available == buffers \union Synths

Stopped(m, s) ==
  IF s \in m.active
  THEN [m EXCEPT !.active = @ \ {s}, !.sources[s] = @ - 1]
  ELSE m

Started(m, s) ==
  IF s \in Loops
  THEN [m EXCEPT !.active = @ \union {s}, !.sources[s] = @ + 1]
  ELSE m

\* Defect: a loop is started beside the source it has.
PlayedBeside(m, s, available, loading) ==
  IF s \in available THEN Started(m, s)
  ELSE IF loading THEN [m EXCEPT !.deferred = Append(@, s)]
  ELSE m

\* A loop is stopped before it is known whether it can start again.
Played(m, s, available, loading) ==
  LET quiet == IF s \in Loops THEN Stopped(m, s) ELSE m
  IN  IF s \in available THEN Started(quiet, s)
      ELSE IF loading THEN [quiet EXCEPT !.deferred = Append(@, s)]
      ELSE quiet

PlayedAll(m, sounds, available) ==
  FoldLeft(LAMBDA x, s : Played(x, s, available, FALSE), m, sounds)

Unavailable(sounds, available) ==
  [i \in 1..Cardinality({i \in DOMAIN sounds : sounds[i] \notin available}) |->
     "HOST_AUDIO_ASSET_UNAVAILABLE"]

\* What waits for the loading plays when it settles, whatever was stopped meanwhile.
LoadingSettles(available, codes) ==
  /\ mixer' = [PlayedAll(mixer, mixer.deferred, available) EXCEPT !.deferred = <<>>]
  /\ Report(codes \o Unavailable(mixer.deferred, available))

SoundLoads ==
  /\ \E s \in Fetched \ (buffers \union unfetched) :
       /\ buffers' = buffers \union {s}
       /\ IF Loading /\ buffers' = Fetched
          THEN LoadingSettles(Available \union {s}, <<>>)
          ELSE UNCHANGED <<mixer, listed>>
  /\ UNCHANGED <<unlocked, unfetched, lastSequence, heard>>

\* Only the first of the requests that fail is reported.
SoundFails ==
  /\ \E s \in Fetched \ (buffers \union unfetched) :
       /\ unfetched' = unfetched \union {s}
       /\ IF Loading THEN LoadingSettles(Available, <<"HOST_AUDIO_ASSET_FAILED">>)
          ELSE UNCHANGED <<mixer, listed>>
  /\ UNCHANGED <<unlocked, buffers, lastSequence, heard>>

\* The sounds that play by themselves start once the loading has settled.
Unlock ==
  /\ unlocked' = TRUE
  /\ mixer' = IF unlocked THEN mixer
              ELSE IF Loading THEN [mixer EXCEPT !.deferred = @ \o SetToSeq(Autoplays)]
              ELSE PlayedAll(mixer, SetToSeq(Autoplays), Available)
  /\ UNCHANGED <<buffers, unfetched, lastSequence, heard>>

UnlockReports ==
  IF unlocked \/ Loading THEN <<>> ELSE Unavailable(SetToSeq(Autoplays), Available)

\* Nothing plays before the first input.
PlayEvent(s) ==
  IF unlocked
  THEN /\ mixer' = Played(mixer, s, Available, Loading)
       /\ Report(IF Loading THEN <<>> ELSE Unavailable(<<s>>, Available))
  ELSE UNCHANGED <<mixer, listed>>

StopEvent(s) ==
  /\ mixer' = Stopped(mixer, s)
  /\ UNCHANGED listed

Heard(event) ==
  IF event.id \in Loops
  THEN [heard EXCEPT ![event.id] =
          IF Loading \/ ~unlocked THEN "unknown"
          ELSE IF event.type = "audio-play" /\ event.id \in Available THEN "plays" ELSE "stopped"]
  ELSE heard

\* An event is handled once, however often it is drained.
HandleSound(event) ==
  /\ IF event.sequence <= lastSequence THEN UNCHANGED <<mixer, lastSequence, heard, listed>>
     ELSE /\ lastSequence' = event.sequence
          /\ IF event.id \notin Sounds
             THEN Report(<<"HOST_AUDIO_EVENT_UNRESOLVED">>) /\ UNCHANGED <<mixer, heard>>
             ELSE /\ IF event.type = "audio-stop" THEN StopEvent(event.id) ELSE PlayEvent(event.id)
                  /\ heard' = Heard(event)
  /\ UNCHANGED <<unlocked, buffers, unfetched>>

\* What waits for the loading may still start, on a context that is closed.
DestroyAudio ==
  /\ mixer' = [mixer EXCEPT !.active = {}, !.sources = [s \in Loops |-> 0], !.deferred = <<>>]
  /\ heard' = [s \in Loops |-> "unknown"]
  /\ UNCHANGED <<unlocked, buffers, unfetched, lastSequence>>
=============================================================================
