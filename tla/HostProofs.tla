------------------------------- MODULE HostProofs -------------------------------
(***************************************************************************)
(* Theorems about the hosts of a game: the frames of the browser host and  *)
(* what it shows (GameHost), the memory of the module they call (Runtime-  *)
(* Handles), the saves of the desktop host (DesktopCheckpoint), its update *)
(* checks and packets (DesktopServices), the regions of a Runtime that a   *)
(* process has and loses (RegionalRuntime), and the files they are stored  *)
(* in, for every set of regions and contents, every directory found at the *)
(* start and every placement of crashes and I/O errors (RegionStorage).    *)
(***************************************************************************)
EXTENDS GameHost, RuntimeHandles, DesktopCheckpoint, DesktopServices, RegionalRuntime,
  RegionStorage, FiniteSetTheorems, SequenceTheorems, TLAPS

-----------------------------------------------------------------------------
(* Sounds and failures of the browser host *)

\* A loop has a source exactly when it is active.
Deferrals == Seq(Sounds)
Mixers == [active : SUBSET Loops, sources : [Loops -> 0..1], deferred : Deferrals]
Mixed == {m \in Mixers : \A s \in Loops : m.sources[s] = IF s \in m.active THEN 1 ELSE 0}

With(m, active, sources) == [m EXCEPT !.active = active, !.sources = sources]

LEMMA MixerWith ==
  ASSUME NEW m \in Mixers, NEW a \in SUBSET Loops, NEW f \in [Loops -> 0..1]
  PROVE  /\ With(m, a, f) \in Mixers
         /\ With(m, a, f).active = a /\ With(m, a, f).sources = f
         /\ With(m, a, f).deferred = m.deferred
BY DEF Mixers, With

LEMMA StoppedIsMixed ==
  ASSUME NEW m \in Mixed, NEW s \in Sounds
  PROVE  /\ Stopped(m, s) \in Mixed
         /\ Stopped(m, s).active = m.active \ {s}
         /\ Stopped(m, s).deferred = m.deferred
<1>1. m \in Mixers /\ \A r \in Loops : m.sources[r] = IF r \in m.active THEN 1 ELSE 0
  BY DEF Mixed
<1>2. CASE s \in m.active
  <2> DEFINE after == With(m, m.active \ {s}, [m.sources EXCEPT ![s] = 0])
  <2>1. s \in Loops /\ m.sources[s] = 1
    BY <1>1, <1>2 DEF Mixers
  <2>2. Stopped(m, s) = after
    BY <1>1, <1>2, <2>1 DEF Stopped, Mixers, With
  <2>3. /\ after \in Mixers /\ after.active = m.active \ {s} /\ after.deferred = m.deferred
        /\ after.sources = [m.sources EXCEPT ![s] = 0]
    <3>1. m.active \ {s} \in SUBSET Loops /\ [m.sources EXCEPT ![s] = 0] \in [Loops -> 0..1]
      <4>1. m.active \in SUBSET Loops /\ m.sources \in [Loops -> 0..1]
        BY <1>1 DEF Mixers
      <4>2. m.active \ {s} \in SUBSET Loops
        BY <4>1
      <4>3. [m.sources EXCEPT ![s] = 0] \in [Loops -> 0..1]
        <5>1. 0 \in 0..1
          OBVIOUS
        <5> QED BY <4>1, <5>1, Zenon
      <4> QED BY <4>2, <4>3
    <3> QED BY <1>1, <3>1, MixerWith
  <2>4. after \in Mixed
    <3> HIDE DEF after
    <3> QED BY <1>1, <2>1, <2>3 DEF Mixed, Mixers
  <2> QED BY <2>2, <2>3, <2>4
<1>3. CASE s \notin m.active
  BY <1>1, <1>3 DEF Stopped
<1> QED BY <1>2, <1>3

LEMMA StartedIsMixed ==
  ASSUME NEW m \in Mixed, NEW s \in Sounds, s \notin m.active
  PROVE  /\ Started(m, s) \in Mixed
         /\ Started(m, s).active = m.active \union (IF s \in Loops THEN {s} ELSE {})
         /\ Started(m, s).deferred = m.deferred
<1>1. m \in Mixers /\ \A r \in Loops : m.sources[r] = IF r \in m.active THEN 1 ELSE 0
  BY DEF Mixed
<1>2. CASE s \in Loops
  <2> DEFINE after == With(m, m.active \union {s}, [m.sources EXCEPT ![s] = 1])
  <2>1. m.sources[s] = 0
    BY <1>1, <1>2
  <2>2. Started(m, s) = after
    BY <1>1, <1>2, <2>1 DEF Started, Mixers, With
  <2>3. /\ after \in Mixers /\ after.active = m.active \union {s} /\ after.deferred = m.deferred
        /\ after.sources = [m.sources EXCEPT ![s] = 1]
    <3>1. m.active \union {s} \in SUBSET Loops /\ [m.sources EXCEPT ![s] = 1] \in [Loops -> 0..1]
      BY <1>1, <1>2 DEF Mixers
    <3> QED BY <1>1, <3>1, MixerWith
  <2>4. after \in Mixed
    <3> HIDE DEF after
    <3> QED BY <1>1, <1>2, <2>3 DEF Mixed, Mixers
  <2> QED BY <1>2, <2>2, <2>3, <2>4
<1>3. CASE s \notin Loops
  BY <1>1, <1>3 DEF Started
<1> QED BY <1>2, <1>3

\* A loop that is asked for is stopped; the sound plays now, or when loading has settled.
Quiet(m, s) == IF s \in Loops THEN Stopped(m, s) ELSE m
NowPlayed(m, s, available) == IF s \in available THEN Started(Quiet(m, s), s) ELSE Quiet(m, s)
LaterPlayed(m, s) == [Quiet(m, s) EXCEPT !.deferred = Append(@, s)]

LEMMA QuietIsMixed ==
  ASSUME NEW m \in Mixed, NEW s \in Sounds
  PROVE  /\ Quiet(m, s) \in Mixed /\ Quiet(m, s).deferred = m.deferred
         /\ Quiet(m, s).active = IF s \in Loops THEN m.active \ {s} ELSE m.active
         /\ s \notin Quiet(m, s).active
<1>1. CASE s \in Loops
  BY <1>1, StoppedIsMixed DEF Quiet
<1>2. CASE s \notin Loops
  BY <1>2 DEF Mixed, Mixers, Quiet
<1> QED BY <1>1, <1>2

\* A sound that is played leaves a loop active exactly when it can be had.
LEMMA NowPlayedIsMixed ==
  ASSUME NEW m \in Mixed, NEW s \in Sounds, NEW available
  PROVE  /\ NowPlayed(m, s, available) \in Mixed
         /\ NowPlayed(m, s, available).deferred = m.deferred
         /\ \A r \in Loops \ {s} : r \in NowPlayed(m, s, available).active <=> r \in m.active
         /\ s \in Loops => (s \in NowPlayed(m, s, available).active <=> s \in available)
<1> DEFINE quiet == Quiet(m, s)
           after == NowPlayed(m, s, available)
<1>1. /\ quiet \in Mixed /\ quiet.deferred = m.deferred
      /\ quiet.active = IF s \in Loops THEN m.active \ {s} ELSE m.active
      /\ s \notin quiet.active
  BY QuietIsMixed
<1>2. after = IF s \in available THEN Started(quiet, s) ELSE quiet
  BY DEF NowPlayed
<1> HIDE DEF quiet, after
<1>3. CASE s \in available
  <2>1. after = Started(quiet, s)
    BY <1>2, <1>3
  <2>2. /\ after \in Mixed /\ after.deferred = m.deferred
        /\ after.active = quiet.active \union (IF s \in Loops THEN {s} ELSE {})
    BY <1>1, <2>1, StartedIsMixed
  <2> QED BY <1>1, <1>3, <2>2 DEF after
<1>4. CASE s \notin available
  BY <1>1, <1>2, <1>4 DEF after
<1> QED BY <1>3, <1>4

LEMMA LaterPlayedIsMixed ==
  ASSUME NEW m \in Mixed, NEW s \in Sounds
  PROVE  LaterPlayed(m, s) \in Mixed /\ LaterPlayed(m, s).active = Quiet(m, s).active
<1> DEFINE quiet == Quiet(m, s)
           after == LaterPlayed(m, s)
<1>1. quiet \in Mixed
  BY QuietIsMixed
<1>2. after = [quiet EXCEPT !.deferred = Append(quiet.deferred, s)]
  BY DEF LaterPlayed
<1> HIDE DEF quiet, after
<1>3. quiet \in Mixers /\ Append(quiet.deferred, s) \in Deferrals
  BY <1>1 DEF Mixed, Mixers, Deferrals
<1>4. after \in Mixers /\ after.active = quiet.active /\ after.sources = quiet.sources
  BY <1>2, <1>3 DEF Mixers
<1>5. after \in Mixed
  BY <1>1, <1>4 DEF Mixed
<1> QED BY <1>4, <1>5 DEF quiet, after

-----------------------------------------------------------------------------
PlayedNow(available, m, s) == Played(m, s, available, FALSE)
Plays == INSTANCE FoldLemmas WITH Op <- PlayedNow

LEMMA PlayedAllIsFolded ==
  ASSUME NEW m, NEW sounds, NEW available
  PROVE  PlayedAll(m, sounds, available) = Plays!Folded(available, m, sounds)
BY Zenon DEF PlayedAll, FoldLeft, Plays!Folded, Plays!FoldLeft, MapThenFoldSet,
  Plays!MapThenFoldSet, Max, Plays!Max, PlayedNow

LEMMA PlayedAllIsMixed ==
  ASSUME NEW m \in Mixed, NEW sounds \in Seq(Sounds), NEW available
  PROVE  /\ PlayedAll(m, sounds, available) \in Mixed
         /\ PlayedAll(m, sounds, available).deferred = m.deferred
<1> DEFINE T == {x \in Mixed : x.deferred = m.deferred}
<1>1. ASSUME NEW x \in T, NEW s \in Sounds
      PROVE  PlayedNow(available, x, s) \in T
  <2>1. x \in Mixed /\ x.deferred = m.deferred
    OBVIOUS
  <2>2. PlayedNow(available, x, s) = NowPlayed(x, s, available)
    BY DEF PlayedNow, Played, NowPlayed, Quiet
  <2>3. /\ NowPlayed(x, s, available) \in Mixed
        /\ NowPlayed(x, s, available).deferred = x.deferred
    BY <2>1, NowPlayedIsMixed, Zenon
  <2> QED BY <2>1, <2>2, <2>3, Zenon
<1>2. m \in T
  OBVIOUS
<1> HIDE DEF T
<1>3. Plays!Folded(available, m, sounds) \in T
  BY <1>1, <1>2, Plays!FoldStaysIn
<1> QED BY <1>3, PlayedAllIsFolded DEF T

\* A finite set has an order, which SetToSeq takes.
LEMMA SequenceOfSet ==
  ASSUME NEW S, IsFiniteSet(S)
  PROVE  SetToSeq(S) \in Seq(S)
<1>1. Cardinality(S) \in Nat /\ \E f : ExistsBijection(1..Cardinality(S), S)
  BY FS_CardinalityType
<1>2. PICK f \in [1..Cardinality(S) -> S] : IsInjective(f)
  BY <1>1, FS_CardinalityType DEF ExistsBijection, Bijection, Injection, Surjection, IsInjective
<1>3. SetToSeq(S) \in [1..Cardinality(S) -> S]
  BY <1>2, Zenon DEF SetToSeq
<1> QED BY <1>1, <1>3

LEMMA AutoplaysAreSounds ==
  SetToSeq(Autoplays) \in Seq(Sounds)
<1>1. IsFiniteSet(Autoplays) /\ Autoplays \subseteq Sounds
  BY SoundsAssumption, FS_Subset
<1> QED BY <1>1, SequenceOfSet

-----------------------------------------------------------------------------
Events == [type : EventTypes, id : Sounds \union {Unresolved}, sequence : Nat]

SoundsInvariant ==
  /\ mixer \in Mixed
  /\ heard \in [Loops -> {"plays", "stopped", "unknown"}]
  /\ \A s \in Loops :
       /\ heard[s] = "stopped" => s \notin mixer.active
       /\ heard[s] = "plays" => s \in mixer.active
       /\ Loading \/ ~unlocked => heard[s] = "unknown"
  /\ ~Loading => mixer.deferred = <<>>
  /\ sequence \in Nat /\ emitted \in Seq(Events) /\ batch \in Seq(Events)

LEMMA SoundsStart ==
  PresentationInit => SoundsInvariant
<1> SUFFICES ASSUME PresentationInit PROVE SoundsInvariant
  OBVIOUS
<1>1. mixer \in Mixed /\ mixer.deferred = <<>>
  <2>1. mixer = [active |-> {}, sources |-> [s \in Loops |-> 0], deferred |-> <<>>]
    BY DEF PresentationInit, AudioInit
  <2>2. <<>> \in Deferrals /\ [s \in Loops |-> 0] \in [Loops -> 0..1]
    BY DEF Deferrals
  <2> QED BY <2>1, <2>2 DEF Mixed, Mixers
<1>2. heard = [s \in Loops |-> "unknown"] /\ sequence = 0 /\ emitted = <<>> /\ batch = <<>>
  BY DEF PresentationInit, AudioInit
<1> QED BY <1>1, <1>2 DEF SoundsInvariant

\* What a file that arrives, or does not, makes of the loading.
LEMMA LoadingSettlesMixed ==
  ASSUME SoundsInvariant, NEW available, NEW codes, LoadingSettles(available, codes)
  PROVE  mixer' \in Mixed /\ mixer'.deferred = <<>>
<1> DEFINE after == PlayedAll(mixer, mixer.deferred, available)
<1>1. mixer.deferred \in Seq(Sounds)
  BY DEF SoundsInvariant, Mixed, Mixers, Deferrals
<1>2. after \in Mixed
  BY <1>1, PlayedAllIsMixed DEF SoundsInvariant
<1>3. mixer' = [after EXCEPT !.deferred = <<>>]
  BY DEF LoadingSettles
<1> HIDE DEF after
<1>4. <<>> \in Deferrals
  BY DEF Deferrals
<1> QED BY <1>2, <1>3, <1>4 DEF Mixed, Mixers

LEMMA SoundLoadsKeeps ==
  ASSUME SoundsInvariant, SoundLoads, UNCHANGED <<emitted, batch, sequence>>
  PROVE  SoundsInvariant'
<1>1. UNCHANGED <<unlocked, unfetched, heard>>
  BY DEF SoundLoads
<1>2. PICK s \in Fetched \ (buffers \union unfetched) :
        /\ buffers' = buffers \union {s}
        /\ IF Loading /\ buffers' = Fetched
           THEN LoadingSettles(Available \union {s}, <<>>)
           ELSE UNCHANGED <<mixer, listed>>
  BY DEF SoundLoads
<1>3. Loading' => Loading
  BY <1>1, <1>2 DEF Loading
<1>4. CASE Loading /\ buffers' = Fetched
  <2>1. mixer' \in Mixed /\ mixer'.deferred = <<>>
    BY <1>2, <1>4, LoadingSettlesMixed
  <2> QED BY <1>1, <1>3, <1>4, <2>1 DEF SoundsInvariant
<1>5. CASE ~(Loading /\ buffers' = Fetched)
  <2>1. mixer' = mixer /\ (Loading <=> Loading')
    BY <1>1, <1>2, <1>5 DEF Loading
  <2> QED BY <1>1, <2>1 DEF SoundsInvariant
<1> QED BY <1>4, <1>5

LEMMA SoundFailsKeeps ==
  ASSUME SoundsInvariant, SoundFails, UNCHANGED <<emitted, batch, sequence>>
  PROVE  SoundsInvariant'
<1>1. UNCHANGED <<unlocked, buffers, heard>>
  BY DEF SoundFails
<1>2. PICK s \in Fetched \ (buffers \union unfetched) :
        /\ unfetched' = unfetched \union {s}
        /\ IF Loading THEN LoadingSettles(Available, <<"HOST_AUDIO_ASSET_FAILED">>)
           ELSE UNCHANGED <<mixer, listed>>
  BY DEF SoundFails
<1>3. ~Loading'
  BY <1>2 DEF Loading
<1>4. CASE Loading
  <2>1. mixer' \in Mixed /\ mixer'.deferred = <<>>
    BY <1>2, <1>4, LoadingSettlesMixed
  <2> QED BY <1>1, <1>3, <1>4, <2>1 DEF SoundsInvariant
<1>5. CASE ~Loading
  BY <1>1, <1>2, <1>3, <1>5 DEF SoundsInvariant
<1> QED BY <1>4, <1>5

LEMMA UnlockKeeps ==
  ASSUME SoundsInvariant, Unlock, UNCHANGED <<emitted, batch, sequence>>
  PROVE  SoundsInvariant'
<1>1. unlocked' = TRUE /\ UNCHANGED <<buffers, unfetched, heard>> /\ (Loading <=> Loading')
  BY DEF Unlock, Loading
<1>2. CASE unlocked
  BY <1>1, <1>2 DEF SoundsInvariant, Unlock
<1>3. CASE ~unlocked /\ Loading
  <2>1. mixer' = [mixer EXCEPT !.deferred = mixer.deferred \o SetToSeq(Autoplays)]
    BY <1>3 DEF Unlock
  <2>2. mixer.deferred \o SetToSeq(Autoplays) \in Deferrals
    BY AutoplaysAreSounds DEF SoundsInvariant, Mixed, Mixers, Deferrals
  <2>3. mixer' \in Mixed
    BY <2>1, <2>2 DEF SoundsInvariant, Mixed, Mixers
  <2> QED BY <1>1, <1>3, <2>3 DEF SoundsInvariant
<1>4. CASE ~unlocked /\ ~Loading
  <2>1. mixer' = PlayedAll(mixer, SetToSeq(Autoplays), Available)
    BY <1>4 DEF Unlock
  <2>2. mixer' \in Mixed /\ mixer'.deferred = mixer.deferred
    BY <2>1, AutoplaysAreSounds, PlayedAllIsMixed DEF SoundsInvariant
  <2> QED BY <1>1, <1>4, <2>2 DEF SoundsInvariant
<1> QED BY <1>2, <1>3, <1>4

LEMMA HandleSoundKeeps ==
  ASSUME SoundsInvariant, NEW event \in Events, event.type # "effect-spawn", HandleSound(event),
         UNCHANGED <<emitted, sequence>>, batch' \in Seq(Events)
  PROVE  SoundsInvariant'
<1>1. UNCHANGED <<unlocked, buffers, unfetched>> /\ (Loading <=> Loading')
  BY DEF HandleSound, Loading
<1>2. CASE event.sequence <= lastSequence \/ event.id \notin Sounds
  <2>1. UNCHANGED <<mixer, heard>>
    BY <1>2 DEF HandleSound
  <2> QED BY <1>1, <2>1 DEF SoundsInvariant
<1>3. CASE ~(event.sequence <= lastSequence) /\ event.id \in Sounds
  <2>1. heard' = Heard(event)
    BY <1>3 DEF HandleSound
  <2>2. event.type \in {"audio-play", "audio-stop"}
    BY DEF Events, EventTypes
  <2>3. /\ mixer' \in Mixed
        /\ \A s \in Loops \ {event.id} : s \in mixer.active <=> s \in mixer'.active
        /\ ~Loading => mixer'.deferred = mixer.deferred
        /\ event.id \in Loops /\ ~Loading /\ unlocked =>
             (event.id \in mixer'.active <=>
                event.type = "audio-play" /\ event.id \in Available)
    <3>1. CASE event.type = "audio-stop"
      <4>1. mixer' = Stopped(mixer, event.id)
        BY <1>3, <3>1 DEF HandleSound, StopEvent
      <4> QED BY <1>3, <3>1, <4>1, StoppedIsMixed DEF SoundsInvariant
    <3>2. CASE event.type = "audio-play" /\ unlocked
      <4>1. mixer' = Played(mixer, event.id, Available, Loading)
        BY <1>3, <3>2 DEF HandleSound, PlayEvent
      <4>2. CASE event.id \in Available \/ ~Loading
        <5>1. mixer' = NowPlayed(mixer, event.id, Available)
          BY <4>1, <4>2 DEF Played, NowPlayed, Quiet
        <5>2. mixer \in Mixed
          BY DEF SoundsInvariant
        <5>3. mixer' \in Mixed /\ mixer'.deferred = mixer.deferred
          BY <1>3, <5>1, <5>2, NowPlayedIsMixed, Zenon
        <5>4. \A r \in Loops \ {event.id} : r \in mixer'.active <=> r \in mixer.active
          BY <1>3, <5>1, <5>2, NowPlayedIsMixed, Zenon
        <5>5. event.id \in Loops => (event.id \in mixer'.active <=> event.id \in Available)
          BY <1>3, <5>1, <5>2, NowPlayedIsMixed, Zenon
        <5> QED BY <3>2, <5>3, <5>4, <5>5
      <4>3. CASE event.id \notin Available /\ Loading
        <5>1. mixer' = LaterPlayed(mixer, event.id)
          BY <4>1, <4>3 DEF Played, LaterPlayed, Quiet
        <5>2. mixer \in Mixed
          BY DEF SoundsInvariant
        <5>3. mixer' \in Mixed /\ mixer'.active = Quiet(mixer, event.id).active
          BY <1>3, <5>1, <5>2, LaterPlayedIsMixed, Zenon
        <5>4. Quiet(mixer, event.id).active
                = IF event.id \in Loops THEN mixer.active \ {event.id} ELSE mixer.active
          BY <1>3, <5>2, QuietIsMixed, Zenon
        <5> QED BY <4>3, <5>3, <5>4
      <4> QED BY <4>2, <4>3
    <3>3. CASE event.type = "audio-play" /\ ~unlocked
      <4>1. mixer' = mixer
        BY <1>3, <3>3 DEF HandleSound, PlayEvent
      <4> QED BY <3>3, <4>1 DEF SoundsInvariant
    <3> QED BY <2>2, <3>1, <3>2, <3>3
  <2>4. \A s \in Loops : s # event.id => heard'[s] = heard[s]
    BY <2>1 DEF Heard, SoundsInvariant
  <2>5. event.id \in Loops =>
          heard'[event.id] = IF Loading \/ ~unlocked THEN "unknown"
                             ELSE IF event.type = "audio-play" /\ event.id \in Available
                                  THEN "plays" ELSE "stopped"
    BY <2>1 DEF Heard, SoundsInvariant
  <2>6. heard' \in [Loops -> {"plays", "stopped", "unknown"}]
    BY <2>1 DEF Heard, SoundsInvariant
  <2>7. ASSUME NEW s \in Loops
        PROVE  /\ heard'[s] = "stopped" => s \notin mixer'.active
               /\ heard'[s] = "plays" => s \in mixer'.active
               /\ Loading \/ ~unlocked => heard'[s] = "unknown"
    <3>1. CASE s = event.id
      BY <2>3, <2>5, <3>1
    <3>2. CASE s # event.id
      BY <2>3, <2>4, <3>2 DEF SoundsInvariant
    <3> QED BY <3>1, <3>2
  <2> QED BY <1>1, <2>3, <2>6, <2>7 DEF SoundsInvariant
<1> QED BY <1>2, <1>3

LEMMA DestroyAudioKeeps ==
  ASSUME SoundsInvariant, DestroyAudio, UNCHANGED <<emitted, batch, sequence>>
  PROVE  SoundsInvariant'
<1>1. mixer' = [mixer EXCEPT !.active = {}, !.sources = [s \in Loops |-> 0], !.deferred = <<>>]
  BY DEF DestroyAudio
<1>2. <<>> \in Deferrals /\ [s \in Loops |-> 0] \in [Loops -> 0..1]
  BY DEF Deferrals
<1>3. mixer' \in Mixed /\ mixer'.deferred = <<>>
  BY <1>1, <1>2 DEF SoundsInvariant, Mixed, Mixers
<1>4. heard' = [s \in Loops |-> "unknown"]
  BY DEF DestroyAudio
<1> QED BY <1>3, <1>4 DEF SoundsInvariant

LEMMA SoundsStep ==
  SoundsInvariant /\ [PresentationNext]_presentation => SoundsInvariant'
<1> SUFFICES ASSUME SoundsInvariant, [PresentationNext]_presentation PROVE SoundsInvariant'
  OBVIOUS
<1>1. ASSUME UNCHANGED audio, sequence' \in Nat, emitted' \in Seq(Events), batch' \in Seq(Events)
      PROVE  SoundsInvariant'
  BY <1>1 DEF SoundsInvariant, audio, Loading
<1>2. CASE LoadGame \/ StartPresentation \/ StartFrame \/ StepFails \/ EndDrain \/ Present
           \/ EndFrame \/ HostEvent \/ UNCHANGED presentation
  <2>1. UNCHANGED <<audio, emitted, batch, sequence>>
    BY <1>2 DEF LoadGame, StartPresentation, StartFrame, StepFails, EndDrain, Present, EndFrame,
       HostEvent, presentation, loop
  <2> QED BY <1>1, <2>1 DEF SoundsInvariant
<1>3. CASE StepTick
  <2>1. UNCHANGED audio /\ batch' = batch
    BY <1>3 DEF StepTick
  <2>2. CASE UNCHANGED <<emitted, sequence>>
    BY <1>1, <2>1, <2>2 DEF SoundsInvariant
  <2>3. CASE \E type \in EventTypes, id \in Sounds \union {Unresolved} :
               /\ sequence' = sequence + 1
               /\ emitted' = Append(emitted, [type |-> type, id |-> id, sequence |-> sequence'])
    <3>1. PICK type \in EventTypes, id \in Sounds \union {Unresolved} :
               /\ sequence' = sequence + 1
               /\ emitted' = Append(emitted, [type |-> type, id |-> id, sequence |-> sequence'])
      BY <2>3
    <3>2. sequence' \in Nat
      BY <3>1 DEF SoundsInvariant
    <3>3. [type |-> type, id |-> id, sequence |-> sequence'] \in Events
      BY <3>1, <3>2 DEF Events
    <3>4. emitted' \in Seq(Events)
      BY <3>1, <3>3 DEF SoundsInvariant
    <3> QED BY <1>1, <2>1, <3>2, <3>4 DEF SoundsInvariant
  <2> QED BY <1>3, <2>2, <2>3 DEF StepTick
<1>4. CASE DrainPresentationEvents
  BY <1>1, <1>4 DEF DrainPresentationEvents, SoundsInvariant
<1>5. CASE HandleEvent
  <2>1. batch # <<>> /\ batch' = Tail(batch) /\ UNCHANGED <<emitted, sequence>>
    BY <1>5 DEF HandleEvent
  <2>2. Head(batch) \in Events /\ batch' \in Seq(Events)
    BY <2>1 DEF SoundsInvariant
  <2>3. CASE Head(batch).type = "effect-spawn"
    <3>1. UNCHANGED audio
      BY <1>5, <2>3 DEF HandleEvent, PresentEffect
    <3> QED BY <1>1, <2>1, <2>2, <3>1 DEF SoundsInvariant
  <2>4. CASE Head(batch).type # "effect-spawn"
    <3>1. HandleSound(Head(batch))
      BY <1>5, <2>4 DEF HandleEvent
    <3> QED BY <2>1, <2>2, <2>4, <3>1, HandleSoundKeeps
  <2> QED BY <2>3, <2>4
<1>6. CASE Submit
  BY <1>6, UnlockKeeps DEF Submit
<1>7. CASE Arrival
  <2>1. UNCHANGED <<emitted, batch, sequence>>
    BY <1>7 DEF Arrival, loop
  <2>2. CASE SoundLoads
    BY <2>1, <2>2, SoundLoadsKeeps
  <2>3. CASE SoundFails
    BY <2>1, <2>3, SoundFailsKeeps
  <2>4. CASE UNCHANGED audio
    BY <1>1, <2>1, <2>4 DEF SoundsInvariant
  <2> QED BY <1>7, <2>2, <2>3, <2>4 DEF Arrival
<1>8. CASE Unload
  BY <1>8, DestroyAudioKeeps DEF Unload
<1> QED BY <1>2, <1>3, <1>4, <1>5, <1>6, <1>7, <1>8 DEF PresentationNext

\* Whatever loops are asked for and stopped while their files are still on the way, a loop
\* plays at most once, and once settled exactly when its last event was a play
\* (audio-feedback.ts, play and handle).
THEOREM LoopsStayTrue ==
  PresentationSpec => []LoopsFollowEvents
<1>1. SoundsInvariant => LoopsFollowEvents
  BY DEF SoundsInvariant, LoopsFollowEvents, Mixed, Mixers
<1> QED BY <1>1, SoundsStart, SoundsStep, PTL DEF PresentationSpec

Codes ==
  {"HOST_SCRIPT_ERROR", "UI_PROJECTOR_FAILED", "HOST_ASSET_MISSING", "HOST_AUDIO_ASSET_FAILED",
   "HOST_AUDIO_ASSET_UNAVAILABLE", "HOST_AUDIO_EVENT_UNRESOLVED", "RENDER_INITIALIZATION_FAILED",
   "RENDER_FEATURE_TIER_UNAVAILABLE", "RENDER_PROFILE_UNDECLARED",
   "RENDER_FEATURE_REQUIRED_UNAVAILABLE", "RENDER_PROFILE_UNSUPPORTED", "RENDER_METHOD_FALLBACK",
   "RENDER_GPU_TIMESTAMPS_UNAVAILABLE", "RENDER_VISUAL_DUPLICATE", "RENDER_ASSET_UNDECLARED",
   "RENDER_VISUAL_NOT_FOUND", "RENDER_VISUAL_MATERIAL_UNSUPPORTED",
   "RENDER_PARTICLE_CREATE_FAILED", "RENDER_ASSET_LOAD_FAILED", "RENDER_FRAME_FAILED",
   "RENDER_RESIZE_FAILED", "RENDER_CONTEXT_LOST"}

\* The codes a player can see, or would if the list were not full.
Shown == {code \in Codes : Listed(code)}

ListIsSound == listed \in Seq(Codes) /\ Len(listed) <= MaximumRecorded

LEMMA ReportShows ==
  ASSUME ListIsSound, NEW codes \in Seq(Codes), Report(codes)
  PROVE  ListIsSound' /\ Shown \subseteq Shown' /\ \A i \in 1..Len(codes) : codes[i] \in Shown'
<1> DEFINE all == listed \o codes
<1>1. PICK n \in Nat, k \in Nat : n = Len(listed) /\ k = Len(codes) /\ n <= MaximumRecorded
  BY DEF ListIsSound
<1>2. /\ all \in Seq(Codes) /\ Len(all) = n + k
      /\ \A i \in 1..n : all[i] = listed[i]
      /\ \A i \in 1..k : all[n + i] = codes[i]
  BY <1>1 DEF ListIsSound
<1> HIDE DEF all
<1>3. CASE n + k < MaximumRecorded
  <2>1. listed' = SubSeq(all, 1, n + k)
    BY <1>2, <1>3 DEF Report, all
  <2>2. listed' = all
    BY <1>1, <1>2, <2>1
  <2>3. ListIsSound'
    BY <1>2, <1>3, <2>2, RecordedAssumption DEF ListIsSound
  <2>4. \A i \in 1..(n + k) : all[i] \in Shown'
    BY <1>1, <1>2, <2>2 DEF Shown, Listed, ToSet
  <2>5. \A i \in 1..k : n + i \in 1..(n + k)
    BY <1>1
  <2>6. \A i \in 1..n : i \in 1..(n + k)
    BY <1>1
  <2>7. Len(listed) # MaximumRecorded
    BY <1>1, <1>3, RecordedAssumption
  <2>8. Shown = {listed[i] : i \in 1..n}
    BY <1>1, <2>7 DEF Shown, Listed, ToSet, ListIsSound
  <2> QED BY <1>1, <1>2, <2>3, <2>4, <2>5, <2>6, <2>8
<1>4. CASE ~(n + k < MaximumRecorded)
  <2>1. listed' = SubSeq(all, 1, MaximumRecorded)
    BY <1>1, <1>2, <1>4 DEF Report, all
  <2>2. listed' \in Seq(Codes) /\ Len(listed') = MaximumRecorded
    BY <1>1, <1>2, <1>4, <2>1, RecordedAssumption
  <2>3. Shown' = Codes
    BY <2>2 DEF Shown, Listed
  <2> QED BY <1>1, <2>2, <2>3, RecordedAssumption DEF ListIsSound, Shown
<1> QED BY <1>3, <1>4

-----------------------------------------------------------------------------
SceneIsSound ==
  /\ intent \in Intents /\ profile \in Profiles \union {"none"}
  /\ visuals \in [Visuals -> {"none", "shape"} \union Assets]
  /\ templates \in [Assets -> {"none", "loading", "loaded", "failed"}]
  /\ awaiting \subseteq Visuals /\ IsFiniteSet(awaiting)

EndIsShown == frame = "failed" => cause \in Shown
SilenceIsShown == unfetched # {} => "HOST_AUDIO_ASSET_FAILED" \in Shown
MethodIsShown ==
  /\ profile \notin {"none", intent.profile} => "RENDER_METHOD_FALLBACK" \in Shown
  /\ profile = "desktop-high" /\ ~telemetry => "RENDER_GPU_TIMESTAMPS_UNAVAILABLE" \in Shown
AssetsAreShown ==
  \A v \in Visuals \ awaiting :
    visuals[v] \in Assets /\ templates[visuals[v]] = "failed"
      => "RENDER_ASSET_LOAD_FAILED" \in Shown

ListedInvariant ==
  ListIsSound /\ SceneIsSound /\ EndIsShown /\ SilenceIsShown /\ MethodIsShown /\ AssetsAreShown

LEMMA ListedStarts ==
  PresentationInit => ListedInvariant
<1> SUFFICES ASSUME PresentationInit PROVE ListedInvariant
  OBVIOUS
<1>1. ListIsSound
  BY RecordedAssumption DEF PresentationInit, DiagnosticsInit, ListIsSound
<1>2. SceneIsSound
  BY FS_EmptySet DEF PresentationInit, SceneInit, SceneIsSound
<1>3. frame = "loading" /\ unfetched = {} /\ profile = "none"
      /\ \A v \in Visuals : visuals[v] = "none"
  BY DEF PresentationInit, AudioInit, SceneInit
<1>4. "none" \notin Assets
  BY VisualsAssumption
<1> QED BY <1>1, <1>2, <1>3, <1>4
        DEF ListedInvariant, EndIsShown, SilenceIsShown, MethodIsShown, AssetsAreShown

\* More is shown, and nothing that must be shown has changed.
LEMMA NothingNewToShow ==
  ASSUME ListedInvariant, ListIsSound', Shown \subseteq Shown',
         UNCHANGED <<unfetched, intent, profile, telemetry, visuals, templates, awaiting>>, EndIsShown'
  PROVE  ListedInvariant'
BY DEF ListedInvariant, SceneIsSound, SilenceIsShown, MethodIsShown, AssetsAreShown

LEMMA ShownOfListed ==
  UNCHANGED listed => (ListIsSound' <=> ListIsSound) /\ Shown' = Shown
BY DEF ListIsSound, Shown, Listed

LEMMA SequenceOfOne ==
  ASSUME NEW S, NEW x \in S
  PROVE  <<x>> \in Seq(S)
OBVIOUS

LEMMA ReportOne ==
  ASSUME ListIsSound, NEW code \in Codes, Report(<<code>>)
  PROVE  ListIsSound' /\ Shown \subseteq Shown' /\ code \in Shown'
<1>1. PICK codes \in Seq(Codes) : codes = <<code>>
  <2>1. <<code>> \in Seq(Codes)
    BY SequenceOfOne
  <2> QED BY <2>1
<1>2. Len(codes) = 1 /\ codes[1] = code
  BY <1>1
<1>3. 1 \in 1..Len(codes)
  BY <1>2
<1>4. Report(codes)
  BY <1>1, Zenon
<1> QED BY <1>2, <1>3, <1>4, ReportShows

-----------------------------------------------------------------------------
\* The profile that is selected is the first of the manifest that fits.
LEMMA SelectionIsUsable ==
  ASSUME SceneIsSound, NEW backends, Selection(backends) \in Profiles
  PROVE  Method(Selection(backends)) \in backends
<1>1. intent.fallbacks \in Seq(Profiles) /\ intent.profile \in Profiles
  BY IntentsAssumption DEF SceneIsSound
<1>2. Candidates \in Seq(Profiles)
  BY <1>1 DEF Candidates
<1>3. Selection(backends) = Candidates[Min(Usable(backends))] /\ Usable(backends) # {}
  BY DEF Selection, Profiles
<1>4. Usable(backends) \subseteq Nat
  BY <1>2 DEF Usable, Compatible
<1>5. \E x \in Usable(backends) : \A y \in Usable(backends) : x <= y
  BY <1>3, <1>4, Plays!LeastMember
<1>6. Min(Usable(backends)) \in Usable(backends)
  BY <1>5, Zenon DEF Min
<1> QED BY <1>3, <1>6 DEF Usable

Refusals == {"RENDER_PROFILE_UNDECLARED", "RENDER_FEATURE_REQUIRED_UNAVAILABLE", "RENDER_PROFILE_UNSUPPORTED"}

LEMMA SelectionIsKnown ==
  ASSUME SceneIsSound, NEW backends
  PROVE  Selection(backends) \in Profiles \union Refusals
<1>1. intent.fallbacks \in Seq(Profiles) /\ intent.profile \in Profiles
  BY IntentsAssumption DEF SceneIsSound
<1>2. Candidates \in Seq(Profiles)
  BY <1>1 DEF Candidates
<1>3. CASE Selection(backends) = Candidates[Min(Usable(backends))] /\ Usable(backends) # {}
  <2>1. Usable(backends) \subseteq Nat
    BY <1>2 DEF Usable, Compatible
  <2>2. \E x \in Usable(backends) : \A y \in Usable(backends) : x <= y
    BY <1>3, <2>1, Plays!LeastMember
  <2>3. Min(Usable(backends)) \in Usable(backends)
    BY <2>2, Zenon DEF Min
  <2>4. Min(Usable(backends)) \in DOMAIN Candidates
    BY <2>3 DEF Usable, Compatible
  <2> QED BY <1>2, <1>3, <2>4
<1>4. CASE Selection(backends) \in Refusals
  BY <1>4
<1>5. \/ Selection(backends) = Candidates[Min(Usable(backends))] /\ Usable(backends) # {}
      \/ Selection(backends) \in Refusals
  BY DEF Selection, Refusals
<1> QED BY <1>3, <1>4, <1>5

LEMMA EffectiveIsKnown ==
  ASSUME SceneIsSound, NEW backends, NEW device
  PROVE  Effective(backends, device) \in Profiles \union Refusals
<1>1. /\ Selection(backends) \in Profiles \union Refusals
      /\ Selection(backends \ {"webgpu"}) \in Profiles \union Refusals
  BY SelectionIsKnown
<1> QED BY <1>1 DEF Effective, Refusals

\* Only a device makes the better method the one in use.
LEMMA EffectiveHasDevice ==
  ASSUME SceneIsSound, NEW backends, NEW device, Effective(backends, device) = "desktop-high"
  PROVE  device # "failed"
<1>1. SUFFICES ASSUME device = "failed" PROVE FALSE
  OBVIOUS
<1>2. Method("desktop-high") = "webgpu" /\ "desktop-high" \in Profiles
  BY DEF Method, Profiles
<1>3. Selection(backends \ {"webgpu"}) = "desktop-high"
  BY <1>1, <1>2 DEF Effective
<1>4. Method("desktop-high") \in backends \ {"webgpu"}
  BY <1>2, <1>3, SelectionIsUsable
<1> QED BY <1>2, <1>4

LEMMA ReportTwo ==
  ASSUME ListIsSound, NEW a \in Seq(Codes), NEW b \in Seq(Codes), Report(a \o b)
  PROVE  /\ ListIsSound' /\ Shown \subseteq Shown'
         /\ \A i \in 1..Len(a) : a[i] \in Shown'
         /\ \A i \in 1..Len(b) : b[i] \in Shown'
<1>1. PICK codes \in Seq(Codes) : codes = a \o b
  <2>1. a \o b \in Seq(Codes)
    OBVIOUS
  <2> QED BY <2>1
<1>2. Report(codes)
  BY <1>1, Zenon
<1>3. ListIsSound' /\ Shown \subseteq Shown' /\ \A i \in 1..Len(codes) : codes[i] \in Shown'
  BY <1>2, ReportShows
<1>4. \A i \in 1..Len(a) : i \in 1..Len(codes) /\ codes[i] = a[i]
  BY <1>1
<1>5. \A i \in 1..Len(b) : Len(a) + i \in 1..Len(codes) /\ codes[Len(a) + i] = b[i]
  BY <1>1
<1> QED BY <1>3, <1>4, <1>5

LEMMA ConcatenationHas ==
  ASSUME NEW S, NEW a \in Seq(S), NEW b \in Seq(S), NEW T, \A i \in 1..Len(a \o b) : (a \o b)[i] \in T
  PROVE  /\ \A i \in 1..Len(a) : a[i] \in T
         /\ \A i \in 1..Len(b) : b[i] \in T
<1>1. PICK c \in Seq(S) : c = a \o b
  <2>1. a \o b \in Seq(S)
    OBVIOUS
  <2> QED BY <2>1
<1>2. \A i \in 1..Len(a) : i \in 1..Len(c) /\ c[i] = a[i]
  BY <1>1
<1>3. \A i \in 1..Len(b) : Len(a) + i \in 1..Len(c) /\ c[Len(a) + i] = b[i]
  BY <1>1
<1> QED BY <1>1, <1>2, <1>3

When(condition, code) == IF condition THEN <<code>> ELSE <<>>

LEMMA StartReportsAre ==
  ASSUME NEW p, NEW device
  PROVE  StartReports(p, device)
           = When(Method(p) = "webgpu" /\ device = "plain", "RENDER_GPU_TIMESTAMPS_UNAVAILABLE")
             \o When(p # intent.profile, "RENDER_METHOD_FALLBACK")
BY DEF StartReports, When

LEMMA StartKeeps ==
  ASSUME ListedInvariant, NEW backends, NEW device \in Devices, NEW outcome \in Codes \union {"started"},
         StartRenderer(backends, device, outcome),
         IF outcome = "started" THEN frame' = "waiting" ELSE frame' = "failed" /\ cause' = outcome,
         UNCHANGED unfetched
  PROVE  ListedInvariant'
<1> DEFINE p == Effective(backends, device)
           told == IF p \in Profiles THEN StartReports(p, device) ELSE <<>>
           end == IF outcome = "started" THEN <<>> ELSE <<outcome>>
           plain == When(Method(p) = "webgpu" /\ device = "plain", "RENDER_GPU_TIMESTAMPS_UNAVAILABLE")
           fallback == When(p # intent.profile, "RENDER_METHOD_FALLBACK")
<1>1. ListIsSound /\ SceneIsSound
  BY DEF ListedInvariant
<1>2. p \in Profiles \union Refusals
  BY <1>1, EffectiveIsKnown
<1>3. plain \in Seq(Codes) /\ fallback \in Seq(Codes)
  <2>1. /\ plain = <<>> \/ plain = <<"RENDER_GPU_TIMESTAMPS_UNAVAILABLE">>
        /\ fallback = <<>> \/ fallback = <<"RENDER_METHOD_FALLBACK">>
    BY DEF When
  <2>2. "RENDER_GPU_TIMESTAMPS_UNAVAILABLE" \in Codes /\ "RENDER_METHOD_FALLBACK" \in Codes
    BY DEF Codes
  <2>3. <<>> \in Seq(Codes)
    OBVIOUS
  <2>4. <<"RENDER_GPU_TIMESTAMPS_UNAVAILABLE">> \in Seq(Codes)
    BY <2>2, SequenceOfOne, Zenon
  <2>5. <<"RENDER_METHOD_FALLBACK">> \in Seq(Codes)
    BY <2>2, SequenceOfOne, Zenon
  <2> HIDE DEF plain, fallback
  <2> QED BY <2>1, <2>3, <2>4, <2>5
<1>4. told \in Seq(Codes)
  <2>1. p \in Profiles => told = plain \o fallback
    BY StartReportsAre
  <2>2. plain \o fallback \in Seq(Codes)
    BY <1>3
  <2>3. told = plain \o fallback \/ told = <<>>
    BY <2>1
  <2>4. <<>> \in Seq(Codes)
    OBVIOUS
  <2> HIDE DEF told, plain, fallback
  <2> QED BY <2>2, <2>3, <2>4
<1>5. end \in Seq(Codes)
  <2>1. CASE outcome = "started"
    BY <2>1
  <2>2. CASE outcome # "started"
    BY <2>2, SequenceOfOne
  <2> QED BY <2>1, <2>2
<1>6. Report(told \o end)
  BY DEF StartRenderer
<1>7. /\ ListIsSound' /\ Shown \subseteq Shown'
      /\ \A i \in 1..Len(told) : told[i] \in Shown'
      /\ \A i \in 1..Len(end) : end[i] \in Shown'
  <2> HIDE DEF told, end
  <2> QED BY <1>1, <1>4, <1>5, <1>6, ReportTwo
<1>8. UNCHANGED <<intent, visuals, templates, awaiting>>
  BY DEF StartRenderer
<1>9. SilenceIsShown' /\ AssetsAreShown'
  BY <1>7, <1>8 DEF ListedInvariant, SilenceIsShown, AssetsAreShown
<1>10. CASE outcome # "started"
  <2>1. profile' = "none" /\ frame' = "failed" /\ cause' = outcome
    BY <1>10 DEF StartRenderer
  <2>2. end = <<outcome>>
    BY <1>10
  <2>3. outcome \in Shown'
    <3>1. Len(end) = 1 /\ end[1] = outcome
      BY <2>2
    <3> HIDE DEF end
    <3> QED BY <1>7, <3>1
  <2> QED BY <1>1, <1>7, <1>8, <1>9, <2>1, <2>3
          DEF ListedInvariant, SceneIsSound, EndIsShown, MethodIsShown
<1>11. CASE outcome = "started"
  <2>1. p \in Profiles
    BY <1>2, <1>11 DEF StartRenderer, Refusals, Profiles
  <2>2. profile' = p /\ frame' = "waiting"
        /\ (telemetry' <=> Method(p) = "webgpu" /\ device = "timestamps")
    BY <1>11 DEF StartRenderer
  <2>3. told = plain \o fallback
    BY <2>1, StartReportsAre
  <2>4. /\ \A i \in 1..Len(plain) : plain[i] \in Shown'
        /\ \A i \in 1..Len(fallback) : fallback[i] \in Shown'
    <3>1. \A i \in 1..Len(plain \o fallback) : (plain \o fallback)[i] \in Shown'
      BY <1>7, <2>3
    <3> HIDE DEF plain, fallback
    <3> QED BY <1>3, <3>1, ConcatenationHas
  <2>5. p # intent.profile => "RENDER_METHOD_FALLBACK" \in Shown'
    <3>1. p # intent.profile => Len(fallback) = 1 /\ fallback[1] = "RENDER_METHOD_FALLBACK"
      BY DEF When
    <3> HIDE DEF fallback
    <3> QED BY <2>4, <3>1
  <2>6. p = "desktop-high" /\ ~telemetry' => "RENDER_GPU_TIMESTAMPS_UNAVAILABLE" \in Shown'
    <3> SUFFICES ASSUME p = "desktop-high", ~telemetry'
                 PROVE  "RENDER_GPU_TIMESTAMPS_UNAVAILABLE" \in Shown'
      OBVIOUS
    <3>1. Method(p) = "webgpu"
      BY DEF Method
    <3>2. device # "failed"
      BY <1>1, EffectiveHasDevice
    <3>3. device = "plain"
      BY <2>2, <3>1, <3>2 DEF Devices
    <3>4. Len(plain) = 1 /\ plain[1] = "RENDER_GPU_TIMESTAMPS_UNAVAILABLE"
      BY <3>1, <3>3 DEF When
    <3> HIDE DEF plain
    <3> QED BY <2>4, <3>4
  <2>7. MethodIsShown' /\ EndIsShown'
    BY <1>8, <2>2, <2>5, <2>6 DEF MethodIsShown, EndIsShown
  <2> QED BY <1>1, <1>7, <1>8, <1>9, <2>1, <2>2, <2>7 DEF ListedInvariant, SceneIsSound
<1> QED BY <1>10, <1>11

-----------------------------------------------------------------------------
LEMMA UnavailableIsSequence ==
  ASSUME NEW sounds \in Seq(Sounds), NEW available
  PROVE  Unavailable(sounds, available) \in Seq(Codes)
<1> DEFINE missing == {i \in DOMAIN sounds : sounds[i] \notin available}
<1>1. PICK n \in Nat : DOMAIN sounds = 1..n
  OBVIOUS
<1>2. IsFiniteSet(1..n)
  BY FS_Interval
<1>3. IsFiniteSet(missing)
  BY <1>1, <1>2, FS_Subset
<1>4. Cardinality(missing) \in Nat
  BY <1>3, FS_CardinalityType
<1>5. "HOST_AUDIO_ASSET_UNAVAILABLE" \in Codes
  BY DEF Codes
<1>6. Unavailable(sounds, available) = [i \in 1..Cardinality(missing) |-> "HOST_AUDIO_ASSET_UNAVAILABLE"]
  BY DEF Unavailable
<1> HIDE DEF missing
<1> QED BY <1>4, <1>5, <1>6

\* What a step does that shows more and has to show nothing else.
ShowsMore == ListIsSound' /\ Shown \subseteq Shown'

LEMMA ReportShowsMore ==
  ASSUME ListIsSound, NEW codes \in Seq(Codes), Report(codes)
  PROVE  ShowsMore
BY ReportShows DEF ShowsMore

LEMMA NothingShowsMore ==
  ASSUME ListIsSound, UNCHANGED listed
  PROVE  ShowsMore
BY ShownOfListed DEF ShowsMore

LEMMA SettlingShowsMore ==
  ASSUME SoundsInvariant, ListIsSound, NEW available, NEW codes \in Seq(Codes),
         LoadingSettles(available, codes)
  PROVE  ShowsMore /\ \A i \in 1..Len(codes) : codes[i] \in Shown'
<1>1. mixer.deferred \in Seq(Sounds)
  BY DEF SoundsInvariant, Mixed, Mixers, Deferrals
<1>2. Unavailable(mixer.deferred, available) \in Seq(Codes)
  BY <1>1, UnavailableIsSequence
<1>3. Report(codes \o Unavailable(mixer.deferred, available))
  BY DEF LoadingSettles
<1> QED BY <1>2, <1>3, ReportTwo DEF ShowsMore

LEMMA SoundLoadsShows ==
  ASSUME SoundsInvariant, ListIsSound, SoundLoads
  PROVE  ShowsMore /\ UNCHANGED unfetched
<1>1. PICK s \in Fetched \ (buffers \union unfetched) :
        \/ LoadingSettles(Available \union {s}, <<>>)
        \/ UNCHANGED <<mixer, listed>>
  BY DEF SoundLoads
<1>2. <<>> \in Seq(Codes)
  OBVIOUS
<1>3. UNCHANGED unfetched
  BY DEF SoundLoads
<1> QED BY <1>1, <1>2, <1>3, SettlingShowsMore, NothingShowsMore

LEMMA SoundFailsShows ==
  ASSUME SoundsInvariant, ListedInvariant, SoundFails
  PROVE  ShowsMore /\ SilenceIsShown'
<1>1. PICK s \in Fetched \ (buffers \union unfetched) :
        IF Loading THEN LoadingSettles(Available, <<"HOST_AUDIO_ASSET_FAILED">>)
        ELSE UNCHANGED <<mixer, listed>>
  BY DEF SoundFails
<1>2. ListIsSound /\ SilenceIsShown
  BY DEF ListedInvariant
<1>3. CASE Loading
  <2>1. "HOST_AUDIO_ASSET_FAILED" \in Codes
    BY DEF Codes
  <2>2. PICK codes \in Seq(Codes) : codes = <<"HOST_AUDIO_ASSET_FAILED">>
    BY <2>1, SequenceOfOne, Zenon
  <2>3. ShowsMore /\ \A i \in 1..Len(codes) : codes[i] \in Shown'
    <3>1. LoadingSettles(Available, codes)
      BY <1>1, <1>3, <2>2, Zenon
    <3> QED BY <1>2, <3>1, SettlingShowsMore
  <2>4. 1 \in 1..Len(codes) /\ codes[1] = "HOST_AUDIO_ASSET_FAILED"
    BY <2>2
  <2> QED BY <2>3, <2>4 DEF SilenceIsShown
<1>4. CASE ~Loading
  <2>1. unfetched # {}
    BY <1>1, <1>4 DEF Loading
  <2>2. UNCHANGED listed
    BY <1>1, <1>4
  <2>3. ShowsMore
    BY <1>2, <2>2, NothingShowsMore
  <2> QED BY <1>2, <2>1, <2>3 DEF SilenceIsShown, ShowsMore
<1> QED BY <1>3, <1>4

LEMMA HandleSoundShows ==
  ASSUME ListIsSound, NEW event \in Events, HandleSound(event)
  PROVE  ShowsMore
<1>1. CASE UNCHANGED listed
  BY <1>1, NothingShowsMore
<1>2. CASE Report(<<"HOST_AUDIO_EVENT_UNRESOLVED">>)
  <2>1. "HOST_AUDIO_EVENT_UNRESOLVED" \in Codes
    BY DEF Codes
  <2> QED BY <1>2, <2>1, ReportOne, Zenon DEF ShowsMore
<1>3. CASE Report(<<>>)
  <2>1. <<>> \in Seq(Codes)
    OBVIOUS
  <2> QED BY <1>3, <2>1, ReportShowsMore, Zenon
<1>4. CASE event.id \in Sounds /\ Report(Unavailable(<<event.id>>, Available))
  <2>1. <<event.id>> \in Seq(Sounds)
    BY <1>4, SequenceOfOne
  <2>2. Unavailable(<<event.id>>, Available) \in Seq(Codes)
    BY <2>1, UnavailableIsSequence
  <2> QED BY <1>4, <2>2, ReportShowsMore, Zenon
<1> QED BY <1>1, <1>2, <1>3, <1>4 DEF HandleSound, StopEvent, PlayEvent

LEMMA UnlockReportsAre ==
  UnlockReports \in Seq(Codes)
<1>1. Unavailable(SetToSeq(Autoplays), Available) \in Seq(Codes)
  BY AutoplaysAreSounds, UnavailableIsSequence
<1>2. <<>> \in Seq(Codes)
  OBVIOUS
<1> QED BY <1>1, <1>2 DEF UnlockReports

-----------------------------------------------------------------------------
\* What the presenter asks for keeps the scene, and what is shown of its assets.
LEMMA OperationKeeps ==
  ASSUME SceneIsSound, AssetsAreShown, NEW outcome, Operation(outcome), Shown \subseteq Shown'
  PROVE  SceneIsSound' /\ AssetsAreShown' /\ UNCHANGED <<intent, profile, telemetry>>
<1> DEFINE Kept == SceneIsSound' /\ AssetsAreShown' /\ UNCHANGED <<intent, profile, telemetry>>
<1>1. CASE UNCHANGED <<intent, profile, telemetry, visuals, templates, awaiting>>
  BY <1>1 DEF SceneIsSound, AssetsAreShown
<1>2. ASSUME NEW v \in Visuals, CreateVisual(v, outcome) PROVE Kept
  <2>1. UNCHANGED <<intent, profile, telemetry, templates, awaiting>>
    BY <1>2 DEF CreateVisual
  <2>2. CASE visuals[v] # "none"
    <3>1. UNCHANGED visuals
      BY <1>2, <2>2 DEF CreateVisual
    <3> QED BY <1>1, <2>1, <3>1
  <2>3. CASE visuals[v] = "none"
    <3>1. visuals' = [visuals EXCEPT ![v] = "shape"]
      BY <1>2, <2>3 DEF CreateVisual
    <3>2. visuals' \in [Visuals -> {"none", "shape"} \union Assets]
      BY <3>1 DEF SceneIsSound
    <3>3. \A w \in Visuals : w # v => visuals'[w] = visuals[w]
      BY <3>1 DEF SceneIsSound
    <3>4. visuals'[v] = "shape" /\ "shape" \notin Assets
      BY <3>1, VisualsAssumption DEF SceneIsSound
    <3>5. AssetsAreShown'
      BY <2>1, <3>3, <3>4 DEF AssetsAreShown
    <3> QED BY <2>1, <3>2, <3>5 DEF SceneIsSound
  <2> QED BY <2>2, <2>3
<1>3. ASSUME NEW v \in Visuals, NEW a \in Assets \union {UndeclaredAsset},
             CreateAssetVisual(v, a, outcome)
      PROVE  Kept
  <2>1. UNCHANGED <<intent, profile, telemetry>>
    BY <1>3 DEF CreateAssetVisual
  <2>2. CASE UNCHANGED <<visuals, templates, awaiting>>
    BY <1>1, <2>1, <2>2
  <2>3. CASE a \in Assets /\ ~UNCHANGED <<visuals, templates, awaiting>>
    <3>1. /\ visuals' = [visuals EXCEPT ![v] = a]
          /\ awaiting' = awaiting \union {v}
          /\ templates' = [templates EXCEPT ![a] = IF templates[a] = "none" THEN "loading"
                                                   ELSE templates[a]]
      BY <1>3, <2>3 DEF CreateAssetVisual
    <3>2. /\ visuals' \in [Visuals -> {"none", "shape"} \union Assets]
          /\ \A w \in Visuals : w # v => visuals'[w] = visuals[w]
      BY <2>3, <3>1 DEF SceneIsSound
    <3>3. templates' \in [Assets -> {"none", "loading", "loaded", "failed"}]
      BY <2>3, <3>1 DEF SceneIsSound
    <3>4. \A b \in Assets : templates'[b] = "failed" => templates[b] = "failed"
      BY <2>3, <3>1 DEF SceneIsSound
    <3>5. awaiting' \subseteq Visuals /\ IsFiniteSet(awaiting')
      BY <3>1, FS_AddElement DEF SceneIsSound
    <3>6. ASSUME NEW w \in Visuals \ awaiting', visuals'[w] \in Assets,
                 templates'[visuals'[w]] = "failed"
          PROVE  "RENDER_ASSET_LOAD_FAILED" \in Shown'
      <4>1. w \in Visuals \ awaiting /\ w # v
        BY <3>1
      <4>2. visuals[w] \in Assets /\ templates[visuals[w]] = "failed"
        BY <3>2, <3>4, <3>6, <4>1
      <4> QED BY <4>1, <4>2 DEF AssetsAreShown
    <3>7. AssetsAreShown'
      BY <3>6 DEF AssetsAreShown
    <3> QED BY <2>1, <3>2, <3>3, <3>5, <3>7 DEF SceneIsSound
  <2> QED BY <1>3, <2>2, <2>3 DEF CreateAssetVisual
<1>4. ASSUME SpawnParticles(outcome) PROVE Kept
  BY <1>1, <1>4 DEF SpawnParticles
<1>5. ASSUME NEW v \in Visuals, SetTransform(v, outcome) \/ SetColor(v, outcome) \/ SetVisible(v, outcome)
      PROVE  Kept
  BY <1>1, <1>5 DEF SetTransform, SetColor, SetVisible, scene
<1> HIDE DEF Kept
<1>6. Kept
  BY <1>2, <1>3, <1>4, <1>5 DEF Operation
<1> QED BY <1>6 DEF Kept

LEMMA DeliverTemplateKeeps ==
  ASSUME ListedInvariant, DeliverTemplate
  PROVE  ShowsMore /\ SceneIsSound' /\ AssetsAreShown' /\ UNCHANGED <<intent, profile, telemetry>>
<1>1. UNCHANGED <<intent, profile, telemetry, visuals>> /\ ListIsSound /\ SceneIsSound
  BY DEF DeliverTemplate, ListedInvariant
<1>2. PICK a \in Assets, outcome \in Assets \union {"loaded", "failed"} :
        /\ outcome \in {"loaded", "failed"} /\ Waiting(a) # {}
        /\ templates' = [templates EXCEPT ![a] = outcome]
        /\ awaiting' = awaiting \ Waiting(a)
        /\ Report([i \in 1..(IF outcome = "failed" THEN Cardinality(Waiting(a)) ELSE 0)
                     |-> "RENDER_ASSET_LOAD_FAILED"])
  BY DEF DeliverTemplate
<1> DEFINE n == IF outcome = "failed" THEN Cardinality(Waiting(a)) ELSE 0
           codes == [i \in 1..n |-> "RENDER_ASSET_LOAD_FAILED"]
<1>3. /\ IsFiniteSet(Waiting(a)) /\ Cardinality(Waiting(a)) \in Nat /\ Cardinality(Waiting(a)) # 0
      /\ IsFiniteSet(awaiting')
  <2>1. Waiting(a) \subseteq awaiting /\ awaiting' \subseteq awaiting
    BY <1>2 DEF Waiting
  <2>2. IsFiniteSet(Waiting(a)) /\ IsFiniteSet(awaiting')
    BY <1>1, <2>1, FS_Subset DEF SceneIsSound
  <2> QED BY <1>2, <2>2, FS_CardinalityType, FS_EmptySet
<1>4. n \in Nat /\ (outcome = "failed" => n # 0)
  BY <1>3
<1>5. codes \in Seq(Codes) /\ Len(codes) = n /\ \A i \in 1..n : codes[i] = "RENDER_ASSET_LOAD_FAILED"
  <2> HIDE DEF n
  <2>1. "RENDER_ASSET_LOAD_FAILED" \in Codes
    BY DEF Codes
  <2> QED BY <1>4, <2>1
<1>6. Report(codes)
  BY <1>2
<1>7. ShowsMore /\ \A i \in 1..Len(codes) : codes[i] \in Shown'
  <2> HIDE DEF codes
  <2> QED BY <1>1, <1>5, <1>6, ReportShows DEF ShowsMore
<1>8. outcome = "failed" => "RENDER_ASSET_LOAD_FAILED" \in Shown'
  <2> HIDE DEF n, codes
  <2> QED BY <1>4, <1>5, <1>7
<1> HIDE DEF n, codes
<1>9. templates' \in [Assets -> {"none", "loading", "loaded", "failed"}]
  BY <1>1, <1>2 DEF SceneIsSound
<1>10. SceneIsSound'
  BY <1>1, <1>2, <1>3, <1>9 DEF SceneIsSound
<1>11. ASSUME NEW v \in Visuals \ awaiting', visuals'[v] \in Assets,
              templates'[visuals'[v]] = "failed"
       PROVE  "RENDER_ASSET_LOAD_FAILED" \in Shown'
  <2>1. CASE visuals[v] = a
    BY <1>1, <1>2, <1>8, <1>11, <2>1 DEF SceneIsSound
  <2>2. CASE visuals[v] # a
    <3>1. v \notin awaiting
      BY <1>2, <1>11, <2>2 DEF Waiting
    <3>2. templates[visuals[v]] = "failed" /\ visuals[v] \in Assets
      BY <1>1, <1>2, <1>11, <2>2 DEF SceneIsSound
    <3> QED BY <1>7, <3>1, <3>2 DEF ListedInvariant, AssetsAreShown, ShowsMore
  <2> QED BY <2>1, <2>2
<1>12. AssetsAreShown'
  BY <1>11 DEF AssetsAreShown
<1> QED BY <1>1, <1>7, <1>10, <1>12

LEMMA ResolveTimestampsKeeps ==
  ASSUME ListedInvariant, ResolveTimestamps
  PROVE  ShowsMore /\ SceneIsSound' /\ AssetsAreShown' /\ MethodIsShown'
<1>1. /\ UNCHANGED <<intent, profile, visuals, templates, awaiting>>
      /\ ListIsSound /\ SceneIsSound /\ AssetsAreShown /\ MethodIsShown
  BY DEF ResolveTimestamps, ListedInvariant
<1>2. CASE UNCHANGED <<telemetry, listed>>
  <2>1. ShowsMore
    BY <1>1, <1>2, NothingShowsMore
  <2> QED BY <1>1, <1>2, <2>1 DEF ShowsMore, SceneIsSound, AssetsAreShown, MethodIsShown
<1>3. CASE Report(<<"RENDER_GPU_TIMESTAMPS_UNAVAILABLE">>)
  <2>1. "RENDER_GPU_TIMESTAMPS_UNAVAILABLE" \in Codes
    BY DEF Codes
  <2>2. ShowsMore /\ "RENDER_GPU_TIMESTAMPS_UNAVAILABLE" \in Shown'
    BY <1>1, <1>3, <2>1, ReportOne, Zenon DEF ShowsMore
  <2> QED BY <1>1, <2>2 DEF ShowsMore, SceneIsSound, AssetsAreShown, MethodIsShown
<1> QED BY <1>2, <1>3 DEF ResolveTimestamps

LEMMA DestroyRendererKeeps ==
  ASSUME ListedInvariant, DestroyRenderer, Shown \subseteq Shown'
  PROVE  SceneIsSound' /\ AssetsAreShown' /\ UNCHANGED <<intent, profile, telemetry>>
<1>1. /\ UNCHANGED <<intent, profile, telemetry, templates>> /\ SceneIsSound
      /\ visuals' = [v \in Visuals |-> "none"] /\ awaiting' = {}
  BY DEF DestroyRenderer, ListedInvariant
<1>2. "none" \notin Assets /\ IsFiniteSet({})
  BY VisualsAssumption, FS_EmptySet
<1> QED BY <1>1, <1>2 DEF SceneIsSound, AssetsAreShown

-----------------------------------------------------------------------------
\* The step ends the frames with the code it reports, or does not end them.
LEMMA FailureIsShown ==
  ASSUME ListedInvariant, NEW code \in Codes, Report(<<code>>), Fails(code)
  PROVE  ShowsMore /\ EndIsShown'
<1>1. ShowsMore /\ code \in Shown'
  BY ReportOne, Zenon DEF ListedInvariant, ShowsMore
<1> QED BY <1>1 DEF EndIsShown, Fails

LEMMA EndStaysShown ==
  ASSUME ListedInvariant, ShowsMore, UNCHANGED <<frame, cause>> \/ frame' # "failed"
  PROVE  EndIsShown'
BY DEF ListedInvariant, EndIsShown, ShowsMore

\* The scene is as it was.
LEMMA StillScene ==
  ASSUME ListedInvariant, ShowsMore, EndIsShown', UNCHANGED <<unfetched, scene>>
  PROVE  ListedInvariant'
BY NothingNewToShow DEF ShowsMore, scene

LEMMA MethodStaysShown ==
  ASSUME ListedInvariant, Shown \subseteq Shown', UNCHANGED <<intent, profile, telemetry>>
  PROVE  MethodIsShown'
BY DEF ListedInvariant, MethodIsShown

LEMMA StartStep ==
  ASSUME ListedInvariant, LoadGame \/ StartPresentation \/ StartFrame
  PROVE  ListedInvariant'
<1>1. ListIsSound
  BY DEF ListedInvariant
<1>2. CASE LoadGame
  <2>1. UNCHANGED <<unfetched, scene>>
    BY <1>2 DEF LoadGame, audio
  <2>2. CASE frame' = "rendering" /\ UNCHANGED listed
    BY <1>1, <2>1, <2>2, NothingShowsMore, EndStaysShown, StillScene
  <2>3. CASE Fails("HOST_SCRIPT_ERROR") /\ Report(<<"HOST_SCRIPT_ERROR">>)
    <3>1. "HOST_SCRIPT_ERROR" \in Codes
      BY DEF Codes
    <3>2. ShowsMore /\ EndIsShown'
      BY <2>3, <3>1, FailureIsShown, Zenon
    <3> QED BY <2>1, <3>2, StillScene
  <2> QED BY <1>2, <2>2, <2>3 DEF LoadGame
<1>3. CASE StartPresentation
  <2>1. PICK backends \in {{"webgl2"}, {"webgl2", "webgpu"}}, device \in Devices,
             outcome \in {"started", "RENDER_INITIALIZATION_FAILED",
                         "RENDER_FEATURE_TIER_UNAVAILABLE", "RENDER_PROFILE_UNDECLARED",
                         "RENDER_FEATURE_REQUIRED_UNAVAILABLE", "RENDER_PROFILE_UNSUPPORTED"} :
          /\ StartRenderer(backends, device, outcome)
          /\ IF outcome = "started" THEN frame' = "waiting" /\ UNCHANGED cause ELSE Fails(outcome)
    BY <1>3 DEF StartPresentation
  <2>2. outcome \in Codes \union {"started"}
    BY DEF Codes
  <2>3. IF outcome = "started" THEN frame' = "waiting" ELSE frame' = "failed" /\ cause' = outcome
    BY <2>1 DEF Fails
  <2>4. UNCHANGED unfetched
    BY <1>3 DEF StartPresentation, audio
  <2>5. StartRenderer(backends, device, outcome)
    BY <2>1
  <2> QED BY <2>2, <2>3, <2>4, <2>5, StartKeeps
<1>4. CASE StartFrame
  <2>1. UNCHANGED <<listed, unfetched, scene>> /\ frame' # "failed"
    BY <1>4 DEF StartFrame, audio
  <2> QED BY <1>1, <2>1, NothingShowsMore, EndStaysShown, StillScene
<1> QED BY <1>2, <1>3, <1>4

LEMMA TickStep ==
  ASSUME ListedInvariant, StepTick \/ StepFails \/ DrainPresentationEvents \/ EndDrain \/ HostEvent
  PROVE  ListedInvariant'
<1>1. ListIsSound
  BY DEF ListedInvariant
<1>2. UNCHANGED <<unfetched, scene>>
  BY DEF StepTick, StepFails, DrainPresentationEvents, EndDrain, HostEvent, audio
<1>3. CASE UNCHANGED listed /\ (UNCHANGED <<frame, cause>> \/ frame' # "failed")
  BY <1>1, <1>2, <1>3, NothingShowsMore, EndStaysShown, StillScene
<1>4. ASSUME NEW code \in Codes, Report(<<code>>), UNCHANGED <<frame, cause>>
      PROVE  ListedInvariant'
  <2>1. ShowsMore
    BY <1>1, <1>4, ReportOne, Zenon DEF ShowsMore
  <2> QED BY <1>2, <1>4, <2>1, EndStaysShown, StillScene
<1>5. CASE StepTick
  <2>1. "UI_PROJECTOR_FAILED" \in Codes
    BY DEF Codes
  <2>2. UNCHANGED <<frame, cause>> /\ (UNCHANGED listed \/ Report(<<"UI_PROJECTOR_FAILED">>))
    BY <1>5 DEF StepTick
  <2>3. CASE UNCHANGED listed
    BY <1>3, <2>2, <2>3
  <2>4. CASE Report(<<"UI_PROJECTOR_FAILED">>)
    BY <1>4, <2>1, <2>2, <2>4, Zenon
  <2> QED BY <2>2, <2>3, <2>4
<1>6. CASE StepFails
  <2>1. "HOST_SCRIPT_ERROR" \in Codes
    BY DEF Codes
  <2>2. Fails("HOST_SCRIPT_ERROR") /\ Report(<<"HOST_SCRIPT_ERROR">>)
    BY <1>6 DEF StepFails
  <2>3. ShowsMore /\ EndIsShown'
    BY <2>1, <2>2, FailureIsShown, Zenon
  <2> QED BY <1>2, <2>3, StillScene
<1>7. CASE DrainPresentationEvents \/ EndDrain
  <2>1. UNCHANGED listed /\ frame' # "failed"
    BY <1>7 DEF DrainPresentationEvents, EndDrain
  <2> QED BY <1>3, <2>1
<1>8. CASE HostEvent
  <2>1. PICK code \in {"RENDER_RESIZE_FAILED", "RENDER_CONTEXT_LOST", "HOST_ASSET_MISSING"} :
          Report(<<code>>)
    BY <1>8 DEF HostEvent
  <2>2. code \in Codes
    BY DEF Codes
  <2>3. UNCHANGED <<frame, cause>>
    BY <1>8 DEF HostEvent, loop
  <2> QED BY <1>4, <2>1, <2>2, <2>3
<1> QED BY <1>5, <1>6, <1>7, <1>8

\* What may fail while the frame is presented, and ends the frames then.
LEMMA OutcomeIsShown ==
  ASSUME ListedInvariant, NEW outcome \in Codes \union {"done"},
         IF outcome = "done" THEN UNCHANGED listed /\ (UNCHANGED <<frame, cause>> \/ frame' # "failed")
         ELSE Fails(outcome) /\ Report(<<outcome>>)
  PROVE  ShowsMore /\ EndIsShown'
<1>1. ListIsSound
  BY DEF ListedInvariant
<1>2. CASE outcome = "done"
  BY <1>1, <1>2, NothingShowsMore, EndStaysShown
<1>3. CASE outcome # "done"
  BY <1>3, FailureIsShown, Zenon
<1> QED BY <1>2, <1>3

LEMMA EventStep ==
  ASSUME SoundsInvariant, ListedInvariant, HandleEvent
  PROVE  ListedInvariant'
<1> DEFINE event == Head(batch)
<1>1. batch # <<>> /\ event \in Events
  BY DEF HandleEvent, SoundsInvariant
<1>2. ListIsSound
  BY DEF ListedInvariant
<1>3. CASE event.type = "effect-spawn"
  <2>1. PresentEffect(event)
    BY <1>3 DEF HandleEvent
  <2>2. UNCHANGED unfetched
    BY <2>1 DEF PresentEffect, audio
  <2>3. CASE event.id = Unresolved
    <3>1. UNCHANGED <<listed, scene, frame, cause>>
      BY <2>1, <2>3 DEF PresentEffect
    <3> QED BY <1>2, <2>2, <3>1, NothingShowsMore, EndStaysShown, StillScene
  <2>4. CASE event.id # Unresolved
    <3>1. PICK outcome \in {"done", "RENDER_PARTICLE_CREATE_FAILED"} :
            /\ SpawnParticles(outcome)
            /\ IF outcome = "done" THEN UNCHANGED <<listed, frame, cause>>
               ELSE Fails(outcome) /\ Report(<<outcome>>)
      BY <2>1, <2>4 DEF PresentEffect
    <3>2. outcome \in Codes \union {"done"}
      BY DEF Codes
    <3>3. ShowsMore /\ EndIsShown'
      BY <3>1, <3>2, OutcomeIsShown
    <3>4. UNCHANGED <<unfetched, intent, profile, telemetry, visuals, templates, awaiting>>
      BY <2>2, <3>1 DEF SpawnParticles
    <3> QED BY <3>3, <3>4, NothingNewToShow DEF ShowsMore
  <2> QED BY <2>3, <2>4
<1>4. CASE event.type # "effect-spawn"
  <2>1. HandleSound(event) /\ UNCHANGED <<scene, frame, cause>>
    BY <1>4 DEF HandleEvent
  <2>2. UNCHANGED unfetched
    BY <2>1 DEF HandleSound
  <2>3. ShowsMore
    BY <1>1, <1>2, <2>1, HandleSoundShows
  <2> QED BY <2>1, <2>2, <2>3, EndStaysShown, StillScene
<1> QED BY <1>3, <1>4

LEMMA PresentStep ==
  ASSUME ListedInvariant, Present \/ EndFrame
  PROVE  ListedInvariant'
<1>1. ListIsSound /\ SceneIsSound /\ AssetsAreShown /\ SilenceIsShown /\ UNCHANGED unfetched
  BY DEF ListedInvariant, Present, EndFrame, audio
<1>2. CASE Present
  <2>1. PICK outcome \in PresenterOutcomes :
          /\ Operation(outcome)
          /\ IF outcome = "done" THEN UNCHANGED <<listed, frame, cause>>
             ELSE Fails(outcome) /\ Report(<<outcome>>)
    BY <1>2 DEF Present
  <2>2. outcome \in Codes \union {"done"}
    BY DEF Codes, PresenterOutcomes
  <2>3. ShowsMore /\ EndIsShown'
    BY <2>1, <2>2, OutcomeIsShown
  <2>4. SceneIsSound' /\ AssetsAreShown' /\ UNCHANGED <<intent, profile, telemetry>>
    BY <1>1, <2>1, <2>3, OperationKeeps DEF ShowsMore
  <2>5. MethodIsShown'
    BY <2>3, <2>4, MethodStaysShown DEF ShowsMore
  <2> QED BY <1>1, <2>3, <2>4, <2>5 DEF ListedInvariant, ShowsMore, SilenceIsShown
<1>3. CASE EndFrame
  <2>1. PICK outcome \in {"done", "RENDER_FRAME_FAILED"}, ui \in {"done", "HOST_SCRIPT_ERROR"} :
          /\ Render(outcome)
          /\ IF outcome # "done" THEN Fails(outcome) /\ Report(<<outcome>>)
             ELSE IF ui # "done" THEN Fails(ui) /\ Report(<<ui>>)
             ELSE frame' = "waiting" /\ UNCHANGED <<listed, cause>>
    BY <1>3 DEF EndFrame
  <2>2. outcome \in Codes \union {"done"} /\ ui \in Codes \union {"done"}
    BY DEF Codes
  <2>3. ShowsMore /\ EndIsShown'
    BY <2>1, <2>2, OutcomeIsShown
  <2>4. UNCHANGED <<unfetched, intent, profile, telemetry, visuals, templates, awaiting>>
    BY <1>1, <2>1 DEF Render
  <2> QED BY <2>3, <2>4, NothingNewToShow DEF ShowsMore
<1> QED BY <1>2, <1>3

LEMMA BetweenStep ==
  ASSUME SoundsInvariant, ListedInvariant, Submit \/ Arrival \/ Unload
  PROVE  ListedInvariant'
<1>1. ListIsSound /\ SilenceIsShown
  BY DEF ListedInvariant
<1>2. CASE Submit
  <2>1. UNCHANGED <<unfetched, scene, frame, cause>>
    BY <1>2 DEF Submit, Unlock
  <2>2. PICK first \in Seq(Codes) : first = <<"HOST_SCRIPT_ERROR">>
    <3>1. "HOST_SCRIPT_ERROR" \in Codes
      BY DEF Codes
    <3> QED BY <3>1, SequenceOfOne, Zenon
  <2>3. ShowsMore
    <3>1. CASE Report(UnlockReports)
      BY <1>1, <3>1, UnlockReportsAre, ReportShowsMore
    <3>2. CASE Report(first \o UnlockReports)
      BY <1>1, <3>2, UnlockReportsAre, ReportTwo DEF ShowsMore
    <3> QED BY <1>2, <2>2, <3>1, <3>2 DEF Submit
  <2> QED BY <2>1, <2>3, EndStaysShown, StillScene
<1>3. CASE Arrival
  <2>1. UNCHANGED <<frame, cause>>
    BY <1>3 DEF Arrival, loop
  <2>2. CASE SoundLoads /\ UNCHANGED scene
    BY <1>1, <2>1, <2>2, SoundLoadsShows, EndStaysShown, StillScene
  <2>3. CASE SoundFails /\ UNCHANGED scene
    <3>1. ShowsMore /\ SilenceIsShown' /\ EndIsShown'
      BY <2>1, <2>3, SoundFailsShows, EndStaysShown
    <3>2. UNCHANGED <<intent, profile, telemetry, visuals, templates, awaiting>>
      BY <2>3 DEF scene
    <3> QED BY <3>1, <3>2
            DEF ListedInvariant, ShowsMore, SceneIsSound, MethodIsShown, AssetsAreShown
  <2>4. CASE DeliverTemplate /\ UNCHANGED audio
    <3>1. ShowsMore /\ SceneIsSound' /\ AssetsAreShown' /\ UNCHANGED <<intent, profile, telemetry>>
      BY <2>4, DeliverTemplateKeeps
    <3>2. MethodIsShown' /\ EndIsShown'
      BY <2>1, <3>1, MethodStaysShown, EndStaysShown DEF ShowsMore
    <3>3. SilenceIsShown'
      BY <1>1, <2>4, <3>1 DEF SilenceIsShown, ShowsMore, audio
    <3> QED BY <3>1, <3>2, <3>3 DEF ListedInvariant, ShowsMore
  <2>5. CASE ResolveTimestamps /\ UNCHANGED audio
    <3>1. ShowsMore /\ SceneIsSound' /\ AssetsAreShown' /\ MethodIsShown'
      BY <2>5, ResolveTimestampsKeeps
    <3>2. EndIsShown'
      BY <2>1, <3>1, EndStaysShown
    <3>3. SilenceIsShown'
      BY <1>1, <2>5, <3>1 DEF SilenceIsShown, ShowsMore, audio
    <3> QED BY <3>1, <3>2, <3>3 DEF ListedInvariant, ShowsMore
  <2> QED BY <1>3, <2>2, <2>3, <2>4, <2>5 DEF Arrival
<1>4. CASE Unload
  <2>1. UNCHANGED listed /\ frame' # "failed" /\ UNCHANGED unfetched /\ DestroyRenderer
    BY <1>4 DEF Unload, DestroyAudio
  <2>2. ShowsMore
    BY <1>1, <2>1, NothingShowsMore
  <2>3. EndIsShown'
    BY <2>1 DEF EndIsShown
  <2>4. SceneIsSound' /\ AssetsAreShown' /\ UNCHANGED <<intent, profile, telemetry>>
    BY <2>1, <2>2, DestroyRendererKeeps DEF ShowsMore
  <2>5. MethodIsShown'
    BY <2>2, <2>4, MethodStaysShown DEF ShowsMore
  <2> QED BY <1>1, <2>1, <2>2, <2>3, <2>4, <2>5 DEF ListedInvariant, ShowsMore, SilenceIsShown
<1> QED BY <1>2, <1>3, <1>4

LEMMA ListedStep ==
  SoundsInvariant /\ ListedInvariant /\ [PresentationNext]_presentation => ListedInvariant'
<1> SUFFICES ASSUME SoundsInvariant, ListedInvariant, [PresentationNext]_presentation
             PROVE  ListedInvariant'
  OBVIOUS
<1>1. CASE UNCHANGED presentation
  <2>1. UNCHANGED <<listed, unfetched, scene, frame, cause>>
    BY <1>1 DEF presentation, audio, loop
  <2>2. ListIsSound
    BY DEF ListedInvariant
  <2> QED BY <2>1, <2>2, NothingShowsMore, EndStaysShown, StillScene
<1>2. CASE PresentationNext
  BY <1>2, StartStep, TickStep, EventStep, PresentStep, BetweenStep DEF PresentationNext
<1> QED BY <1>1, <1>2

\* Whatever fails and in whatever order it is noticed, what the player misses is among the
\* diagnostics of the host as long as it is missed, or the list is full (host-diagnostics.ts).
THEOREM FailuresStayListed ==
  PresentationSpec => []FailuresAreListed
<1>1. ListedInvariant => FailuresAreListed
  <2> SUFFICES ASSUME ListedInvariant PROVE FailuresAreListed
    OBVIOUS
  <2>1. \A code \in Shown : Listed(code)
    BY DEF Shown
  <2> QED BY <2>1 DEF ListedInvariant, EndIsShown, SilenceIsShown, MethodIsShown, AssetsAreShown,
                     FailuresAreListed
<1> QED BY <1>1, SoundsStart, SoundsStep, ListedStarts, ListedStep, PTL DEF PresentationSpec

-----------------------------------------------------------------------------
(* Runtime handles *)

\* The module holds what the runtime and the live rooms of it are, and nothing else.
MemoryIsTrue ==
  /\ DOMAIN roomHandles = Rooms
  /\ networkRooms = {r \in Rooms : roomHandles[r] = "live"}
  /\ runtimeHandle # "live" => networkRooms = {}
  /\ memory = networkRooms \union (IF runtimeHandle = "live" THEN {"runtime"} ELSE {})

Drainable ==
  /\ stepped \in Nat
  /\ queues \in [Queues -> Seq(Nat)] /\ drained \in [Queues -> Seq(Nat)]
  /\ \E before \in 0..stepped :
       drained["events"] \o queues["events"] = [i \in 1..(stepped - before) |-> before + i]

HandlesInvariant == MemoryIsTrue /\ Drainable

LEMMA NoEventsYet ==
  ASSUME NEW n \in Nat
  PROVE  <<>> \o <<>> = [i \in 1..(n - n) |-> n + i]
<1>1. 1..(n - n) = {}
  OBVIOUS
<1> QED BY <1>1

LEMMA AppendToBoth ==
  ASSUME NEW s \in Seq(Nat), NEW t \in Seq(Nat), NEW x \in Nat
  PROVE  s \o Append(t, x) = Append(s \o t, x)
OBVIOUS

LEMMA OneEventMore ==
  ASSUME NEW n \in Nat, NEW before \in 0..n, NEW all \in Seq(Nat),
         all = [i \in 1..(n - before) |-> before + i]
  PROVE  Append(all, n + 1) = [i \in 1..(n + 1 - before) |-> before + i]
<1>1. PICK k \in Nat : k = n - before
  OBVIOUS
<1>2. Len(all) = k /\ \A i \in 1..k : all[i] = before + i
  BY <1>1
<1>3. /\ DOMAIN Append(all, n + 1) = 1..(k + 1) /\ Append(all, n + 1)[k + 1] = n + 1
      /\ \A i \in 1..k : Append(all, n + 1)[i] = before + i
  BY <1>2
<1>4. \A i \in 1..(k + 1) : i \in 1..k \/ i = k + 1
  BY <1>1
<1>5. before + (k + 1) = n + 1 /\ n + 1 - before = k + 1
  BY <1>1
<1>6. \A i \in 1..(k + 1) : Append(all, n + 1)[i] = before + i
  BY <1>3, <1>4, <1>5
<1>7. Append(all, n + 1) = [i \in DOMAIN Append(all, n + 1) |-> Append(all, n + 1)[i]]
  OBVIOUS
<1> QED BY <1>3, <1>5, <1>6, <1>7

LEMMA HandlesStart ==
  HandlesInit => HandlesInvariant
<1> SUFFICES ASSUME HandlesInit PROVE HandlesInvariant
  OBVIOUS
<1>1. MemoryIsTrue
  BY DEF HandlesInit, MemoryIsTrue
<1>2. stepped = 0 /\ queues = Empty /\ drained = Empty /\ "events" \in Queues
  BY DEF HandlesInit, Queues
<1>3. Empty \in [Queues -> Seq(Nat)] /\ Empty["events"] = <<>>
  BY DEF Empty, Queues
<1>4. 0 \in 0..stepped /\ drained["events"] \o queues["events"] = [i \in 1..(stepped - 0) |-> 0 + i]
  BY <1>2, <1>3, NoEventsYet
<1>5. Drainable
  BY <1>2, <1>3, <1>4 DEF Drainable
<1> QED BY <1>1, <1>5 DEF HandlesInvariant

LEMMA RaisedIsDrainable ==
  ASSUME Drainable, StepKernel
  PROVE  Drainable'
<1>1. drained' = drained /\ "events" \in Queues /\ "deltas" \in Queues
  BY DEF StepKernel, Queues
<1>2. CASE /\ stepped' = stepped + 1
           /\ \/ queues' = [q \in Queues |-> Raised(q)]
              \/ queues' = [q \in Queues |-> TimersRaised(q)]
  <2>1. \A q \in Queues : Raised(q) \in Seq(Nat)
    <3> SUFFICES ASSUME NEW q \in Queues PROVE Raised(q) \in Seq(Nat)
      OBVIOUS
    <3>1. stepped + 1 \in Nat /\ queues[q] \in Seq(Nat)
      BY DEF Drainable
    <3>2. <<stepped + 1>> \in Seq(Nat) /\ Append(queues[q], stepped + 1) \in Seq(Nat)
      BY <3>1
    <3> QED BY <3>1, <3>2 DEF Raised
  <2>11. \A q \in Queues : TimersRaised(q) \in Seq(Nat)
    <3> SUFFICES ASSUME NEW q \in Queues PROVE TimersRaised(q) \in Seq(Nat)
      OBVIOUS
    <3> QED BY <2>1 DEF TimersRaised, Drainable
  <2>2. queues'["events"] = Append(queues["events"], stepped + 1)
    BY <1>1, <1>2 DEF Raised, TimersRaised
  <2>3. PICK before \in 0..stepped :
          drained["events"] \o queues["events"] = [i \in 1..(stepped - before) |-> before + i]
    BY DEF Drainable
  <2>4. drained["events"] \in Seq(Nat) /\ queues["events"] \in Seq(Nat) /\ stepped \in Nat
    BY <1>1 DEF Drainable
  <2>5. PICK x \in Nat : x = stepped + 1
    BY <2>4
  <2>6. drained["events"] \o Append(queues["events"], x) = Append(drained["events"] \o queues["events"], x)
    BY <2>4, AppendToBoth
  <2>7. Append(drained["events"] \o queues["events"], x) = [i \in 1..(x - before) |-> before + i]
    <3>1. drained["events"] \o queues["events"] \in Seq(Nat)
      BY <2>4
    <3> QED BY <2>3, <2>4, <2>5, <3>1, OneEventMore
  <2>8. before \in 0..stepped' /\ stepped' \in Nat
    BY <1>2, <2>3, <2>4
  <2>9. drained'["events"] \o queues'["events"] = [i \in 1..(stepped' - before) |-> before + i]
    BY <1>1, <1>2, <2>2, <2>5, <2>6, <2>7
  <2>10. queues' \in [Queues -> Seq(Nat)] /\ drained' \in [Queues -> Seq(Nat)]
    BY <1>1, <1>2, <2>1, <2>11 DEF Drainable
  <2> QED BY <2>8, <2>9, <2>10 DEF Drainable
<1>3. CASE queues' = [queues EXCEPT !["deltas"] = <<>>] /\ UNCHANGED stepped
  <2>1. queues' \in [Queues -> Seq(Nat)] /\ queues'["events"] = queues["events"]
    <3>1. <<>> \in Seq(Nat)
      OBVIOUS
    <3> QED BY <1>1, <1>3, <3>1 DEF Drainable
  <2> QED BY <1>1, <1>3, <2>1 DEF Drainable
<1> QED BY <1>2, <1>3 DEF StepKernel

LEMMA DrainedIsDrainable ==
  ASSUME Drainable, Drain
  PROVE  Drainable'
<1>1. stepped' = stepped /\ "events" \in Queues
  BY DEF Drain, Queues
<1>2. PICK q \in Queues :
        \/ /\ queues' = [queues EXCEPT ![q] = <<>>]
           /\ drained' = [drained EXCEPT ![q] = drained[q] \o queues[q]]
        \/ UNCHANGED <<queues, drained>>
  BY DEF Drain, DrainOf, Drainable
<1>3. CASE UNCHANGED <<queues, drained>>
  BY <1>1, <1>3 DEF Drainable
<1>4. CASE /\ queues' = [queues EXCEPT ![q] = <<>>]
           /\ drained' = [drained EXCEPT ![q] = drained[q] \o queues[q]]
  <2>1. queues \in [Queues -> Seq(Nat)] /\ drained \in [Queues -> Seq(Nat)]
    BY DEF Drainable
  <2>2. drained[q] \o queues[q] \in Seq(Nat) /\ <<>> \in Seq(Nat)
    <3>1. drained[q] \in Seq(Nat) /\ queues[q] \in Seq(Nat)
      BY <2>1
    <3> QED BY <3>1
  <2>3. queues' \in [Queues -> Seq(Nat)] /\ drained' \in [Queues -> Seq(Nat)]
    BY <1>4, <2>1, <2>2
  <2>4. drained'["events"] \o queues'["events"] = drained["events"] \o queues["events"]
    <3>1. CASE q = "events"
      <4>1. drained'["events"] = drained["events"] \o queues["events"] /\ queues'["events"] = <<>>
        BY <1>1, <1>4, <2>1, <3>1
      <4> QED BY <2>2, <3>1, <4>1
    <3>2. CASE q # "events"
      BY <1>1, <1>4, <2>1, <3>2
    <3> QED BY <3>1, <3>2
  <2> QED BY <1>1, <2>3, <2>4 DEF Drainable
<1> QED BY <1>2, <1>3, <1>4

LEMMA LoadedIsDrainable ==
  ASSUME LoadArchive
  PROVE  Drainable'
<1>1. queues' = Empty /\ drained' = Empty /\ stepped' \in Nat
  BY HandlesAssumption DEF LoadArchive
<1>2. Empty \in [Queues -> Seq(Nat)] /\ Empty["events"] = <<>>
  BY DEF Empty, Queues
<1>3. stepped' \in 0..stepped'
  BY <1>1
<1>4. drained'["events"] \o queues'["events"] = [i \in 1..(stepped' - stepped') |-> stepped' + i]
  BY <1>1, <1>2, NoEventsYet
<1> QED BY <1>1, <1>2, <1>3, <1>4 DEF Drainable

LEMMA StepKeepsMemory ==
  ASSUME MemoryIsTrue, [HandlesNext]_handles
  PROVE  MemoryIsTrue'
<1>1. CASE CreateRuntime
  BY <1>1 DEF CreateRuntime, MemoryIsTrue
<1>2. CASE CreateNetworkRoom
  BY <1>2 DEF CreateNetworkRoom, MemoryIsTrue
<1>3. CASE DestroyRoom
  BY <1>3, HandlesAssumption DEF DestroyRoom, MemoryIsTrue
<1>4. CASE DestroyRuntime
  BY <1>4 DEF DestroyRuntime, MemoryIsTrue
<1>5. CASE UNCHANGED <<runtimeHandle, roomHandles, networkRooms, memory>>
  BY <1>5 DEF MemoryIsTrue
<1> QED BY <1>1, <1>2, <1>3, <1>4, <1>5
        DEF HandlesNext, handles, InstallStatechart, StepRuntime, StepKernel, AdvanceRoom, Drain, LoadArchive

LEMMA StepKeepsDrainable ==
  ASSUME Drainable, [HandlesNext]_handles
  PROVE  Drainable'
<1>1. CASE StepRuntime \/ AdvanceRoom
  BY <1>1, RaisedIsDrainable DEF StepRuntime, AdvanceRoom
<1>2. CASE UNCHANGED <<stepped, queues, drained>>
  BY <1>2 DEF Drainable
<1> QED BY <1>1, <1>2, DrainedIsDrainable, LoadedIsDrainable
        DEF HandlesNext, handles, CreateRuntime, InstallStatechart, CreateNetworkRoom, DestroyRoom, DestroyRuntime

\* For any rooms and any number of ticks, no room outlives its runtime in the memory of the
\* module, and drains return every event once and in order (runtime-web/src/index.ts).
THEOREM HandlesStaySound == HandlesSpec => []HandlesAreSound
<1>1. HandlesInvariant => HandlesAreSound
  BY HandlesAssumption DEF HandlesInvariant, MemoryIsTrue, Drainable, HandlesAreSound
<1>2. HandlesInvariant /\ [HandlesNext]_handles => HandlesInvariant'
  BY StepKeepsMemory, StepKeepsDrainable DEF HandlesInvariant
<1> QED BY <1>1, <1>2, HandlesStart, PTL DEF HandlesSpec

-----------------------------------------------------------------------------
(* Regions of a Runtime *)

Deltas == [place : RegionPlaces, piece : Pieces, payload : DeltaPayloads]
Kept == [generator : Generators \union {0}, deltas : [Pieces -> DeltaPayloads \union {0}]]

\* What is known of some of the regions.
Mappings == UNION {[S -> Kept] : S \in SUBSET RegionPlaces}

LEMMA MappingsAre ==
  /\ NoReferences \in Mappings /\ DOMAIN NoReferences = {}
  /\ \A m \in Mappings : DOMAIN m \subseteq RegionPlaces /\ \A r \in DOMAIN m : m[r] \in Kept
  /\ \A S \in SUBSET RegionPlaces : \A m \in [S -> Kept] : m \in Mappings /\ DOMAIN m = S
<1>1. \A S \in SUBSET RegionPlaces : \A m \in [S -> Kept] : m \in Mappings /\ DOMAIN m = S
  BY DEF Mappings
<1>2. \A m \in Mappings : DOMAIN m \subseteq RegionPlaces /\ \A r \in DOMAIN m : m[r] \in Kept
  BY DEF Mappings
<1>3. NoReferences \in [{} -> Kept]
  BY DEF NoReferences
<1> QED BY <1>1, <1>2, <1>3

-----------------------------------------------------------------------------
\* One delta of a batch, over the regions there are.
Written(nothing, regions, delta) ==
  [regions EXCEPT ![delta.place].deltas[delta.piece] = delta.payload]
Writes == INSTANCE FoldLemmas WITH Op <- Written

LEMMA WriteOne ==
  ASSUME NEW S, NEW regions \in [S -> Kept], NEW delta \in Deltas, delta.place \in S
  PROVE  /\ Written(0, regions, delta) \in [S -> Kept]
         /\ Written(0, regions, delta)[delta.place].deltas[delta.piece] = delta.payload
         /\ \A r \in S, c \in Pieces : <<r, c>> # <<delta.place, delta.piece>> =>
              Written(0, regions, delta)[r].deltas[c] = regions[r].deltas[c]
<1> DEFINE old == regions[delta.place]
           new == [old EXCEPT !.deltas = [old.deltas EXCEPT ![delta.piece] = delta.payload]]
<1>1. old \in Kept /\ delta.piece \in Pieces /\ delta.payload \in DeltaPayloads
  BY DEF Deltas
<1>2. [old.deltas EXCEPT ![delta.piece] = delta.payload] \in [Pieces -> DeltaPayloads \union {0}]
  BY <1>1 DEF Kept
<1>3. /\ new \in Kept /\ new.deltas[delta.piece] = delta.payload
      /\ \A c \in Pieces : c # delta.piece => new.deltas[c] = old.deltas[c]
  BY <1>1, <1>2 DEF Kept
<1>4. Written(0, regions, delta) = [regions EXCEPT ![delta.place] = new]
  BY DEF Written
<1> HIDE DEF new
<1>5. /\ [regions EXCEPT ![delta.place] = new] \in [S -> Kept]
      /\ [regions EXCEPT ![delta.place] = new][delta.place] = new
      /\ \A r \in S : r # delta.place => [regions EXCEPT ![delta.place] = new][r] = regions[r]
  BY <1>3
<1> QED BY <1>3, <1>4, <1>5

LEMMA ChangedIsFolded ==
  ASSUME NEW seq
  PROVE  Changed(seq) = Writes!Folded(0, [r \in PlacesOf(seq) |-> Known(r)], seq)
BY Zenon DEF Changed, FoldLeft, Writes!Folded, Writes!FoldLeft, MapThenFoldSet,
  Writes!MapThenFoldSet, Max, Writes!Max, Written

ChunksOf(seq) == {<<delta.place, delta.piece>> : delta \in ToSet(seq)}

\* The last delta of its chunk.
IsLast(seq, j) ==
  \A k \in DOMAIN seq : k > j => seq[k].place # seq[j].place \/ seq[k].piece # seq[j].piece

\* What a batch changes: the regions it names, each chunk by the last of its deltas.
LEMMA ChangedIs ==
  ASSUME NEW seq \in Seq(Deltas), \A r \in RegionPlaces : Known(r) \in Kept
  PROVE  /\ PlacesOf(seq) \subseteq RegionPlaces
         /\ Changed(seq) \in [PlacesOf(seq) -> Kept]
         /\ \A r \in PlacesOf(seq), c \in Pieces : <<r, c>> \notin ChunksOf(seq) =>
              Changed(seq)[r].deltas[c] = Known(r).deltas[c]
         /\ \A j \in DOMAIN seq : IsLast(seq, j) =>
              Changed(seq)[seq[j].place].deltas[seq[j].piece] = seq[j].payload
<1> DEFINE D == ToSet(seq)
           P == PlacesOf(seq)
           base == [r \in P |-> Known(r)]
           T == {m \in [P -> Kept] : \A r \in P, c \in Pieces : <<r, c>> \notin ChunksOf(seq) =>
                                       m[r].deltas[c] = Known(r).deltas[c]}
<1>1. D \subseteq Deltas /\ seq \in Seq(D) /\ \A i \in DOMAIN seq : seq[i] \in D
  BY DEF ToSet
<1>2. P \subseteq RegionPlaces /\ \A delta \in D : delta.place \in P /\ delta \in Deltas
  BY <1>1 DEF PlacesOf, Deltas
<1>3. base \in T
  BY <1>2
<1>4. ASSUME NEW m \in T, NEW delta \in D PROVE Written(0, m, delta) \in T
  <2>1. m \in [P -> Kept] /\ delta \in Deltas /\ delta.place \in P
    BY <1>2
  <2>2. <<delta.place, delta.piece>> \in ChunksOf(seq)
    BY DEF ChunksOf
  <2>3. /\ Written(0, m, delta) \in [P -> Kept]
        /\ \A r \in P, c \in Pieces : <<r, c>> # <<delta.place, delta.piece>> =>
             Written(0, m, delta)[r].deltas[c] = m[r].deltas[c]
    <3> HIDE DEF P
    <3> QED BY <2>1, WriteOne
  <2>4. \A r \in P, c \in Pieces : <<r, c>> \notin ChunksOf(seq) =>
          m[r].deltas[c] = Known(r).deltas[c]
    OBVIOUS
  <2> HIDE DEF P
  <2> QED BY <2>2, <2>3, <2>4
<1>5. PICK n \in Nat : n = Len(seq) /\ DOMAIN seq = 1..n
  OBVIOUS
<1>6. PICK f : Writes!IsProgress(f, 0, base, seq, n) /\ Writes!Folded(0, base, seq) = f[n]
  <2> HIDE DEF base
  <2> QED BY <1>5, Writes!FoldIsProgress
<1> HIDE DEF T, base, D
<1>7. \A i \in 0..n : f[i] \in T
  BY <1>1, <1>3, <1>4, <1>5, <1>6, Writes!ProgressStaysIn
<1>8. Changed(seq) = f[n]
  BY <1>6, ChangedIsFolded DEF base
<1>9. Changed(seq) \in T
  BY <1>5, <1>7, <1>8
<1>10. ASSUME NEW j \in DOMAIN seq, IsLast(seq, j)
       PROVE  f[n][seq[j].place].deltas[seq[j].piece] = seq[j].payload
  <2> DEFINE Holds(m) == m[seq[j].place].deltas[seq[j].piece] = seq[j].payload
             Since == {i \in Nat : j <= i /\ i <= n => Holds(f[i])}
  <2>1. \A i \in Nat : i + 1 <= n => f[i + 1] = Written(0, f[i], seq[i + 1])
    <3>1. \A i \in Nat : i + 1 <= n => i + 1 \in 0..n /\ i + 1 # 0 /\ (i + 1) - 1 = i
      OBVIOUS
    <3>2. f = [i \in 0..n |-> IF i = 0 THEN base ELSE Written(0, f[i - 1], seq[i])]
      BY <1>6 DEF Writes!IsProgress
    <3> QED BY <3>1, <3>2
  <2>2. j \in 1..n
    BY <1>5
  <2>3. 0 \in Since
    BY <2>2
  <2>4. ASSUME NEW i \in Nat, i \in Since PROVE i + 1 \in Since
    <3> SUFFICES ASSUME j <= i + 1, i + 1 <= n PROVE Holds(f[i + 1])
      OBVIOUS
    <3>1. i \in 0..n /\ i + 1 \in 1..n
      OBVIOUS
    <3>2. f[i] \in [P -> Kept] /\ seq[i + 1] \in Deltas /\ seq[i + 1].place \in P
      BY <1>1, <1>2, <1>5, <1>7, <3>1 DEF T
    <3>3. f[i + 1] = Written(0, f[i], seq[i + 1])
      BY <2>1
    <3>4. CASE i + 1 = j
      <4> HIDE DEF P
      <4> QED BY <3>2, <3>3, <3>4, WriteOne
    <3>5. CASE i + 1 # j
      <4>1. Holds(f[i])
        BY <2>2, <2>4, <3>1, <3>5
      <4>2. i + 1 > j /\ i + 1 \in DOMAIN seq
        BY <1>5, <2>2, <3>1, <3>5
      <4>3. <<seq[j].place, seq[j].piece>> # <<seq[i + 1].place, seq[i + 1].piece>>
        BY <1>10, <4>2 DEF IsLast
      <4>4. seq[j] \in Deltas /\ seq[j].place \in P
        BY <1>1, <1>2
      <4>5. seq[j].piece \in Pieces
        BY <4>4 DEF Deltas
      <4>6. f[i + 1][seq[j].place].deltas[seq[j].piece] = f[i][seq[j].place].deltas[seq[j].piece]
        <5> HIDE DEF P
        <5> QED BY <3>2, <3>3, <4>3, <4>4, <4>5, WriteOne
      <4> QED BY <4>1, <4>6
    <3> QED BY <3>4, <3>5
  <2> HIDE DEF Since
  <2>5. Nat \subseteq Since
    BY <2>3, <2>4, Writes!Induction
  <2> QED BY <2>2, <2>5 DEF Since
<1> QED BY <1>2, <1>8, <1>9, <1>10 DEF T

-----------------------------------------------------------------------------
Engines ==
  [at : {"idle", "inputs"}, generator : Generators \union {0}, loaded : Mappings,
   references : Mappings, committed : SUBSET Deltas, initial : Mappings, played : BOOLEAN]

\* The deltas that are reported are those of the regions referred to, as long as the tick
\* goes on; afterwards the storage may be configured anew.
ReportsAgree ==
  /\ engine.at = "inputs" =>
       \A delta \in engine.committed : delta.place \in DOMAIN engine.references
  /\ \A delta \in engine.committed : delta.place \in DOMAIN engine.references
       => engine.references[delta.place].deltas[delta.piece] = delta.payload

RegionsInvariant ==
  /\ regionFiles \in [RegionPlaces -> Kept]
  /\ journaled \in Mappings /\ envelope \in Mappings /\ engine \in Engines
  /\ engine.loaded = engine.references
  /\ \A r \in DOMAIN engine.references \ DOMAIN journaled : regionFiles[r] = engine.references[r]
  /\ \A r \in DOMAIN envelope \ touched : regionFiles[r] = envelope[r]
  /\ DOMAIN journaled \subseteq touched
  /\ ReportsAgree

LEMMA NewEngineIs ==
  /\ NewEngine \in Engines /\ NewEngine.loaded = NewEngine.references
  /\ NewEngine.committed = {} /\ DOMAIN NewEngine.references = {}
<1>1. NoReferences \in Mappings /\ DOMAIN NoReferences = {}
  BY MappingsAre
<1>2. NewEngine = [at |-> "idle", generator |-> 0, loaded |-> NoReferences,
                   references |-> NoReferences, committed |-> {}, initial |-> NoReferences,
                   played |-> FALSE]
  BY DEF NewEngine
<1> QED BY <1>1, <1>2 DEF Engines

LEMMA RegionsStart ==
  RegionalInit => RegionsInvariant
<1> SUFFICES ASSUME RegionalInit PROVE RegionsInvariant
  OBVIOUS
<1>1. NoRegion \in Kept
  BY DEF NoRegion, Kept
<1>2. regionFiles = [r \in RegionPlaces |-> NoRegion] /\ journaled = NoReferences
      /\ engine = NewEngine /\ envelope = NoReferences /\ touched = {}
  BY DEF RegionalInit
<1> QED BY <1>1, <1>2, NewEngineIs, MappingsAre DEF RegionsInvariant, ReportsAgree

\* Recovery writes over regions that the journal names, all of them or the first.
LEMMA WrittenOverIs ==
  ASSUME regionFiles \in [RegionPlaces -> Kept], NEW m \in Mappings, NEW places, places \subseteq DOMAIN m
  PROVE  /\ WrittenOver(regionFiles, m, places) \in [RegionPlaces -> Kept]
         /\ \A r \in RegionPlaces : WrittenOver(regionFiles, m, places)[r]
                                    = IF r \in places THEN m[r] ELSE regionFiles[r]
<1>1. \A r \in places : m[r] \in Kept
  BY MappingsAre
<1> QED BY <1>1 DEF WrittenOver

LEMMA WrittenFirstAre ==
  ASSUME NEW all, NEW places \in WrittenFirst(all)
  PROVE  places \subseteq all
BY DEF WrittenFirst

LEMMA KnownIsKept ==
  ASSUME RegionsInvariant, NEW r \in RegionPlaces
  PROVE  Known(r) \in Kept
<1>1. regionFiles[r] \in Kept /\ engine.loaded \in Mappings /\ engine.generator \in Generators \union {0}
  BY DEF RegionsInvariant, Engines
<1>2. [NoRegion EXCEPT !.generator = engine.generator] \in Kept
  BY <1>1 DEF NoRegion, Kept
<1>3. r \in DOMAIN engine.loaded => engine.loaded[r] \in Kept
  BY <1>1, MappingsAre
<1> QED BY <1>1, <1>2, <1>3 DEF Known

LEMMA ConfigureKeeps ==
  ASSUME RegionsInvariant, NEW generator \in Generators, Configure(generator)
  PROVE  RegionsInvariant'
<1>1. NoReferences \in Mappings /\ DOMAIN NoReferences = {}
  BY MappingsAre
<1>2. /\ engine.at = "idle" /\ UNCHANGED <<envelope, touched>>
      /\ engine' = [engine EXCEPT !.generator = generator,
                              !.loaded = NoReferences, !.references = NoReferences,
                              !.initial = IF engine.played THEN engine.initial ELSE NoReferences]
  BY DEF Configure
<1>3. /\ engine' \in Engines /\ engine'.at = "idle" /\ engine'.loaded = NoReferences
      /\ engine'.references = NoReferences
  BY <1>1, <1>2 DEF RegionsInvariant, Engines
<1>4. ReportsAgree'
  BY <1>1, <1>3 DEF ReportsAgree
<1>5. CASE UNCHANGED <<regionFiles, journaled>>
  BY <1>1, <1>2, <1>3, <1>4, <1>5 DEF RegionsInvariant
<1>6. CASE /\ regionFiles' = WrittenOver(regionFiles, journaled, DOMAIN journaled)
           /\ journaled' = NoReferences
  <2>1. /\ regionFiles' \in [RegionPlaces -> Kept]
        /\ \A r \in RegionPlaces \ DOMAIN journaled : regionFiles'[r] = regionFiles[r]
    BY <1>6, WrittenOverIs DEF RegionsInvariant
  <2>2. DOMAIN envelope \subseteq RegionPlaces /\ DOMAIN journaled \subseteq touched
    BY MappingsAre DEF RegionsInvariant
  <2>3. \A r \in DOMAIN envelope \ touched : regionFiles'[r] = envelope[r]
    BY <2>1, <2>2 DEF RegionsInvariant
  <2> QED BY <1>1, <1>2, <1>3, <1>4, <1>6, <2>1, <2>3 DEF RegionsInvariant
<1> QED BY <1>5, <1>6 DEF Configure

LEMMA ConfigureFailsKeeps ==
  ASSUME RegionsInvariant, ConfigureFails
  PROVE  RegionsInvariant'
<1>1. PICK places \in WrittenFirst(DOMAIN journaled) :
        regionFiles' = WrittenOver(regionFiles, journaled, places)
  BY DEF ConfigureFails
<1>2. places \subseteq DOMAIN journaled
  BY WrittenFirstAre
<1>3. /\ regionFiles' \in [RegionPlaces -> Kept]
      /\ \A r \in RegionPlaces \ DOMAIN journaled : regionFiles'[r] = regionFiles[r]
  BY <1>1, <1>2, WrittenOverIs DEF RegionsInvariant
<1>4. /\ DOMAIN envelope \subseteq RegionPlaces /\ DOMAIN journaled \subseteq touched
      /\ DOMAIN engine.references \subseteq RegionPlaces
  BY MappingsAre DEF RegionsInvariant, Engines
<1>5. UNCHANGED <<journaled, engine, envelope, touched>>
  BY DEF ConfigureFails
<1> QED BY <1>3, <1>4, <1>5 DEF RegionsInvariant, ReportsAgree

LEMMA LoadKeeps ==
  ASSUME RegionsInvariant, LoadRegions
  PROVE  RegionsInvariant'
<1>1. /\ engine' = [engine EXCEPT !.loaded = envelope, !.references = envelope,
                              !.committed = {}, !.initial = envelope, !.played = FALSE]
      /\ UNCHANGED <<regionFiles, journaled, envelope, touched>>
      /\ \A r \in DOMAIN envelope : regionFiles[r] = envelope[r]
  BY DEF LoadRegions, Restorable
<1>2. /\ engine' \in Engines /\ engine'.loaded = envelope /\ engine'.references = envelope
      /\ engine'.committed = {}
  BY <1>1 DEF RegionsInvariant, Engines
<1> QED BY <1>1, <1>2 DEF RegionsInvariant, ReportsAgree

\* A tick begins, or ends, or its regions are drained: nothing else of the engine changes.
LEMMA EngineGoesOn ==
  ASSUME RegionsInvariant, engine' \in Engines, engine'.loaded = engine.loaded,
         engine'.references = engine.references,
         engine'.committed = {} \/ (engine'.committed = engine.committed /\ engine'.at = "idle"),
         UNCHANGED <<regionFiles, journaled, envelope, touched>>
  PROVE  RegionsInvariant'
BY DEF RegionsInvariant, ReportsAgree

LEMMA ApplyFailsKeeps ==
  ASSUME RegionsInvariant, NEW seq \in CommandBatches, NEW after \in Engines, ApplyFails(seq, after),
         after.loaded = engine.loaded, after.references = engine.references,
         after.committed = {} \/ (after.committed = engine.committed /\ after.at = "idle"),
         UNCHANGED envelope
  PROVE  RegionsInvariant'
<1>1. engine' = after /\ touched' = touched \union DOMAIN journaled'
  BY DEF ApplyFails
<1>2. ReportsAgree'
  BY <1>1 DEF RegionsInvariant, ReportsAgree
<1>3. CASE UNCHANGED <<regionFiles, journaled>>
  BY <1>1, <1>2, <1>3 DEF RegionsInvariant
<1>4. CASE StoreLogs(Changed(seq))
  <2>1. PICK places \in WrittenFirst(DOMAIN Changed(seq)) :
          /\ journaled = NoReferences /\ journaled' = Changed(seq)
          /\ regionFiles' = WrittenOver(regionFiles, Changed(seq), places)
    BY <1>4 DEF StoreLogs
  <2>2. seq \in Seq(Deltas)
    BY RegionalAssumption DEF Deltas
  <2>3. Changed(seq) \in Mappings
    BY <2>2, KnownIsKept, ChangedIs, MappingsAre
  <2>4. places \subseteq DOMAIN Changed(seq)
    BY WrittenFirstAre
  <2>5. /\ regionFiles' \in [RegionPlaces -> Kept]
        /\ \A r \in RegionPlaces \ DOMAIN journaled' : regionFiles'[r] = regionFiles[r]
    BY <2>1, <2>3, <2>4, WrittenOverIs DEF RegionsInvariant
  <2>6. /\ DOMAIN envelope \subseteq RegionPlaces /\ DOMAIN engine.references \subseteq RegionPlaces
        /\ DOMAIN journaled = {}
    BY <2>1, MappingsAre DEF RegionsInvariant, Engines
  <2> QED BY <1>1, <1>2, <2>1, <2>3, <2>5, <2>6 DEF RegionsInvariant
<1> QED BY <1>3, <1>4 DEF ApplyFails

LEMMA OverridingIs ==
  ASSUME NEW m \in Mappings, NEW n \in Mappings
  PROVE  /\ Overriding(m, n) \in Mappings /\ DOMAIN Overriding(m, n) = DOMAIN m \union DOMAIN n
         /\ \A r \in DOMAIN m : Overriding(m, n)[r] = m[r]
         /\ \A r \in DOMAIN n \ DOMAIN m : Overriding(m, n)[r] = n[r]
<1>1. DOMAIN m \union DOMAIN n \in SUBSET RegionPlaces
  BY MappingsAre
<1>2. Overriding(m, n) \in [DOMAIN m \union DOMAIN n -> Kept]
  BY MappingsAre DEF Overriding
<1>3. Overriding(m, n) \in Mappings
  BY <1>1, <1>2, MappingsAre
<1> QED BY <1>2, <1>3 DEF Overriding

LEMMA ReportedIs ==
  ASSUME NEW seq \in Seq(Deltas), NEW committed \in SUBSET Deltas, NEW delta \in Reported(seq, committed)
  PROVE  \/ delta \in committed /\ <<delta.place, delta.piece>> \notin ChunksOf(seq)
         \/ \E j \in DOMAIN seq : delta = seq[j] /\ IsLast(seq, j)
BY DEF Reported, ChunksOf, IsLast

LEMMA ApplyDeltasKeeps ==
  ASSUME RegionsInvariant, NEW seq \in CommandBatches, NEW after \in Engines, ApplyDeltas(seq, after),
         after.loaded = engine.loaded, after.references = engine.references,
         after.committed = {} \/ (after.committed = engine.committed /\ engine.at = "inputs"),
         UNCHANGED envelope
  PROVE  RegionsInvariant'
<1> DEFINE changed == Changed(seq)
<1>1. seq \in Seq(Deltas) /\ \A r \in RegionPlaces : Known(r) \in Kept
  BY RegionalAssumption, KnownIsKept DEF Deltas
<1>2. /\ PlacesOf(seq) \subseteq RegionPlaces
      /\ changed \in [PlacesOf(seq) -> Kept]
      /\ \A r \in PlacesOf(seq), c \in Pieces : <<r, c>> \notin ChunksOf(seq) =>
           changed[r].deltas[c] = Known(r).deltas[c]
      /\ \A j \in DOMAIN seq : IsLast(seq, j) =>
           changed[seq[j].place].deltas[seq[j].piece] = seq[j].payload
  BY <1>1, ChangedIs
<1> HIDE DEF changed
<1>3. changed \in Mappings /\ DOMAIN changed = PlacesOf(seq)
  BY <1>2, MappingsAre
<1>4. /\ engine' = [after EXCEPT !.loaded = Overriding(changed, after.loaded),
                                !.references = Overriding(changed, after.references),
                                !.committed = Reported(seq, after.committed)]
      /\ touched' = touched \union PlacesOf(seq)
  BY DEF ApplyDeltas, changed
<1> DEFINE references == Overriding(changed, engine.references)
<1>5. engine.references \in Mappings /\ engine.references = engine.loaded
  BY DEF RegionsInvariant, Engines
<1>6. /\ references \in Mappings /\ DOMAIN references = PlacesOf(seq) \union DOMAIN engine.references
      /\ \A r \in PlacesOf(seq) : references[r] = changed[r]
      /\ \A r \in DOMAIN engine.references \ PlacesOf(seq) : references[r] = engine.references[r]
  <2>1. /\ references \in Mappings /\ DOMAIN references = DOMAIN changed \union DOMAIN engine.references
        /\ \A r \in DOMAIN changed : references[r] = changed[r]
        /\ \A r \in DOMAIN engine.references \ DOMAIN changed : references[r] = engine.references[r]
    BY <1>3, <1>5, OverridingIs, Zenon
  <2> HIDE DEF references
  <2> QED BY <1>3, <2>1
<1> HIDE DEF references
<1>7. Reported(seq, after.committed) \subseteq Deltas
  <2>1. after.committed \in SUBSET Deltas
    BY DEF Engines
  <2>2. ASSUME NEW delta \in Reported(seq, after.committed) PROVE delta \in Deltas
    <3>1. delta \in after.committed \/ \E j \in DOMAIN seq : delta = seq[j]
      BY <1>1, <2>1, ReportedIs, Zenon
    <3>2. \A j \in DOMAIN seq : seq[j] \in Deltas
      BY <1>1
    <3> QED BY <2>1, <3>1, <3>2
  <2> QED BY <2>2
<1>8. /\ engine' \in Engines /\ engine'.loaded = references /\ engine'.references = references
      /\ engine'.committed = Reported(seq, after.committed) /\ engine'.at = after.at
  BY <1>4, <1>5, <1>6, <1>7 DEF Engines, references
<1>9. /\ regionFiles' \in [RegionPlaces -> Kept] /\ UNCHANGED journaled
      /\ \A r \in PlacesOf(seq) : regionFiles'[r] = changed[r]
      /\ \A r \in RegionPlaces \ PlacesOf(seq) : regionFiles'[r] = regionFiles[r]
  <2>1. CASE seq = <<>>
    <3>1. PlacesOf(seq) = {}
      BY <2>1 DEF PlacesOf, ToSet
    <3> QED BY <2>1, <3>1 DEF ApplyDeltas, RegionsInvariant
  <2>2. CASE seq # <<>>
    <3>1. UNCHANGED journaled /\ regionFiles' = WrittenOver(regionFiles, changed, DOMAIN changed)
      BY <2>2 DEF ApplyDeltas, Store, changed
    <3> QED BY <1>2, <1>3, <3>1, WrittenOverIs DEF RegionsInvariant
  <2> QED BY <2>1, <2>2
<1>10. DOMAIN envelope \subseteq RegionPlaces /\ DOMAIN engine.references \subseteq RegionPlaces
  BY MappingsAre DEF RegionsInvariant, Engines
<1>11. \A r \in DOMAIN references \ DOMAIN journaled : regionFiles'[r] = references[r]
  BY <1>6, <1>9, <1>10 DEF RegionsInvariant
<1>12. \A r \in DOMAIN envelope \ touched' : regionFiles'[r] = envelope[r]
  BY <1>4, <1>9, <1>10 DEF RegionsInvariant
<1>13. ASSUME NEW delta \in engine'.committed
       PROVE  /\ delta.place \in DOMAIN references
              /\ references[delta.place].deltas[delta.piece] = delta.payload
  <2>1. delta \in Reported(seq, after.committed) /\ after.committed \in SUBSET Deltas
    BY <1>8 DEF Engines
  <2>2. CASE delta \in after.committed /\ <<delta.place, delta.piece>> \notin ChunksOf(seq)
    <3>1. /\ delta \in engine.committed /\ delta.place \in DOMAIN engine.references
          /\ engine.references[delta.place].deltas[delta.piece] = delta.payload
      BY <2>2 DEF RegionsInvariant, ReportsAgree
    <3>2. delta.piece \in Pieces
      BY <2>1, <2>2 DEF Deltas
    <3>3. CASE delta.place \in PlacesOf(seq)
      <4>1. Known(delta.place) = engine.references[delta.place]
        BY <1>5, <3>1 DEF Known
      <4>2. changed[delta.place].deltas[delta.piece] = Known(delta.place).deltas[delta.piece]
        BY <1>2, <2>2, <3>2, <3>3
      <4> QED BY <1>6, <3>1, <3>3, <4>1, <4>2
    <3>4. CASE delta.place \notin PlacesOf(seq)
      BY <1>6, <3>1, <3>4
    <3> QED BY <3>3, <3>4
  <2>3. ASSUME NEW j \in DOMAIN seq, delta = seq[j], IsLast(seq, j)
        PROVE  /\ delta.place \in DOMAIN references
               /\ references[delta.place].deltas[delta.piece] = delta.payload
    <3>1. delta.place \in PlacesOf(seq)
      BY <2>3 DEF PlacesOf, ToSet
    <3>2. changed[delta.place].deltas[delta.piece] = delta.payload
      BY <1>2, <2>3
    <3> QED BY <1>6, <3>1, <3>2
  <2> QED BY <1>1, <2>1, <2>2, <2>3, ReportedIs
<1>14. ReportsAgree'
  BY <1>8, <1>13 DEF ReportsAgree
<1> QED BY <1>4, <1>8, <1>9, <1>11, <1>12, <1>14 DEF RegionsInvariant

LEMMA RegionsStep ==
  RegionsInvariant /\ [RegionalNext]_regional => RegionsInvariant'
<1> SUFFICES ASSUME RegionsInvariant, [RegionalNext]_regional PROVE RegionsInvariant'
  OBVIOUS
<1>1. engine \in Engines
  BY DEF RegionsInvariant
<1>2. ASSUME NEW generator \in Generators, Configure(generator) PROVE RegionsInvariant'
  BY <1>2, ConfigureKeeps
<1>3. CASE SaveRegions
  <2>1. /\ envelope' = engine.references /\ touched' = DOMAIN journaled
        /\ UNCHANGED <<regionFiles, journaled, engine>>
    BY <1>3 DEF SaveRegions
  <2> QED BY <1>1, <2>1 DEF RegionsInvariant, ReportsAgree, Engines
<1>4. CASE EndProcess
  BY <1>4, NewEngineIs DEF EndProcess, RegionsInvariant, ReportsAgree
<1>5. CASE DrainRegionDeltas
  <2>1. engine' = [engine EXCEPT !.committed = {}] /\ UNCHANGED <<regionFiles, journaled, envelope, touched>>
    BY <1>5 DEF DrainRegionDeltas
  <2>2. /\ engine' \in Engines /\ engine'.committed = {} /\ engine'.loaded = engine.loaded
        /\ engine'.references = engine.references
    BY <1>1, <2>1 DEF Engines
  <2>3. UNCHANGED <<regionFiles, journaled, envelope, touched>>
    BY <2>1
  <2> QED BY <2>2, <2>3, EngineGoesOn
<1>6. ASSUME NEW seq \in CommandBatches, FireTimers(seq) PROVE RegionsInvariant'
  <2> DEFINE cleared == [engine EXCEPT !.committed = {}]
             begun == [cleared EXCEPT !.at = "inputs"]
  <2>1. cleared \in Engines /\ cleared.loaded = engine.loaded
        /\ cleared.references = engine.references /\ cleared.committed = {}
    BY <1>1 DEF Engines
  <2>2. begun \in Engines /\ begun.loaded = engine.loaded
        /\ begun.references = engine.references /\ begun.committed = {}
    BY <1>1 DEF Engines
  <2>3. UNCHANGED envelope /\ (ApplyDeltas(seq, begun) \/ ApplyFails(seq, cleared))
    BY <1>6 DEF FireTimers
  <2> HIDE DEF cleared, begun
  <2>4. CASE ApplyDeltas(seq, begun)
    BY <1>6, <2>2, <2>3, <2>4, ApplyDeltasKeeps, Zenon
  <2>5. CASE ApplyFails(seq, cleared)
    BY <1>6, <2>1, <2>3, <2>5, ApplyFailsKeeps, Zenon
  <2> QED BY <2>3, <2>4, <2>5
<1>7. ASSUME NEW seq \in CommandBatches, HandleInputs(seq) PROVE RegionsInvariant'
  <2> DEFINE ended == [engine EXCEPT !.at = "idle"]
             played == [ended EXCEPT !.played = TRUE]
  <2>1. ended \in Engines /\ ended.loaded = engine.loaded /\ ended.at = "idle"
        /\ ended.references = engine.references /\ ended.committed = engine.committed
    BY <1>1 DEF Engines
  <2>2. played \in Engines /\ played.loaded = engine.loaded
        /\ played.references = engine.references /\ played.committed = engine.committed
    BY <1>1 DEF Engines
  <2>3. UNCHANGED envelope /\ (ApplyDeltas(seq, played) \/ ApplyFails(seq, ended))
        /\ engine.at = "inputs"
    BY <1>7 DEF HandleInputs
  <2> HIDE DEF ended, played
  <2> QED BY <2>1, <2>2, <2>3, ApplyDeltasKeeps, ApplyFailsKeeps
<1>8. CASE UNCHANGED regional
  BY <1>8 DEF regional, RegionsInvariant, ReportsAgree
<1> QED BY <1>2, <1>3, <1>4, <1>5, <1>6, <1>7, <1>8, ConfigureFailsKeeps, LoadKeeps DEF RegionalNext

\* What a Runtime and the last save refer to is what the files hold, whatever fails or
\* ends in between (runtime.cpp, apply_region_deltas, restore_region_references).
THEOREM ReferencesStayTrue ==
  RegionalSpec => []ReferencesHold
<1>1. RegionsInvariant => ReferencesHold
  BY DEF RegionsInvariant, ReportsAgree, ReferencesHold
<1> QED BY <1>1, RegionsStart, RegionsStep, PTL DEF RegionalSpec

-----------------------------------------------------------------------------
(* Desktop checkpoints *)

Busy == {"staging", "staged", "copying", "copied", "renamed"}

SavesAreKept ==
  /\ kept # {} => files["primary"] \in kept
  /\ writer \in Busy => archive \in Archives /\ (kept # {} => archive \in kept)
  /\ writer \in {"copied", "renamed"} /\ kept # {} => files["backup"] \in kept
  /\ writer \in {"renamed", "cloud"} => files["primary"] = archive

\* Requests are numbered in their order, so none takes the number of another.
RequestsAreNumbered ==
  /\ \E n \in 0..MaxRequests : \A i \in Requests : asked[i] # 0 <=> i <= n
  /\ \A id \in requests : asked[id] # 0
  /\ \A i \in DOMAIN chain : chain[i] # 0 => asked[chain[i]] # 0
  /\ \A answer \in answers : asked[answer[1]] # 0

\* The tick of a game that is played is not before what was asked of it.
TicksAreAsked ==
  /\ session \in {"off", "restoring"} => answers = {} /\ \A id \in Requests : asked[id] <= 1
  /\ session = "playing" => \A id \in Requests : asked[id] <= savedTick + 1

\* An archive serves a request when it was made for it, or later.
Serves(a, id) == a.version = CurrentVersion /\ a.tick + 1 >= asked[id]

\* What is written serves the request it is written for, and those that were answered.
AnswersAreServed ==
  /\ session = "playing" /\ writer # "idle" =>
       chain # <<>> /\ (Head(chain) # 0 => Serves(archive, Head(chain)))
  /\ \A id \in Requests : <<id, TRUE>> \in answers =>
       /\ Serves(files["primary"], id)
       /\ writer \in Busy => Serves(archive, id)

DesktopInvariant ==
  /\ DesktopTypeOK /\ SavesAreKept /\ RequestsAreNumbered /\ TicksAreAsked
  /\ AnswersAreServed

-----------------------------------------------------------------------------
LEMMA NoFileIsNoArchive ==
  NoFile \notin Archives /\ HalfWritten \notin Archives
<1>1. NoFile.tick = -1 /\ HalfWritten.tick = -2
  BY DEF NoFile, HalfWritten
<1> QED BY <1>1, CheckpointAssumption DEF Archives

LEMMA CheckpointsAreArchives ==
  ASSUME savedTick \in 0..MaxSavedTick
  PROVE  [tick |-> savedTick, version |-> CurrentVersion] \in Archives
BY DEF Archives, CurrentVersion

LEMMA AppendedChains ==
  ASSUME NEW s \in Seq(0..MaxRequests), NEW id \in 0..MaxRequests
  PROVE  /\ Append(s, id) \in Seq(0..MaxRequests) /\ Append(s, id) # <<>>
         /\ s # <<>> => Head(Append(s, id)) = Head(s)
         /\ \A i \in DOMAIN Append(s, id) : (i \in DOMAIN s /\ Append(s, id)[i] = s[i])
                                            \/ Append(s, id)[i] = id
<1>1. Append(s, id) \in Seq(0..MaxRequests) /\ Len(Append(s, id)) = Len(s) + 1 /\ Len(s) \in Nat
  OBVIOUS
<1>2. \A i \in 1..(Len(s) + 1) : Append(s, id)[i] = IF i = Len(s) + 1 THEN id ELSE s[i]
  OBVIOUS
<1>3. s # <<>> => Head(Append(s, id)) = Head(s)
  OBVIOUS
<1>4. DOMAIN Append(s, id) = 1..(Len(s) + 1) /\ DOMAIN s = 1..Len(s)
  BY <1>1
<1>5. Append(s, id) # <<>>
  BY <1>1
<1>6. ASSUME NEW i \in DOMAIN Append(s, id)
      PROVE  (i \in DOMAIN s /\ Append(s, id)[i] = s[i]) \/ Append(s, id)[i] = id
  BY <1>1, <1>2, <1>4
<1> QED BY <1>1, <1>3, <1>5, <1>6

LEMMA ElementsOfSequences ==
  ASSUME NEW S, NEW s \in Seq(S), NEW i \in 1..Len(s)
  PROVE  s[i] \in S
OBVIOUS

LEMMA ShortenedChains ==
  ASSUME NEW s \in Seq(0..MaxRequests), s # <<>>
  PROVE  /\ Head(s) \in 0..MaxRequests /\ Tail(s) \in Seq(0..MaxRequests)
         /\ 1 \in DOMAIN s /\ Head(s) = s[1]
         /\ \A i \in DOMAIN Tail(s) : i + 1 \in DOMAIN s /\ Tail(s)[i] = s[i + 1]
<1>1. Len(s) \in Nat /\ Len(s) # 0 /\ DOMAIN s = 1..Len(s)
  OBVIOUS
<1>2. Head(s) \in 0..MaxRequests /\ Head(s) = s[1]
  <2>1. Head(s) = s[1]
    OBVIOUS
  <2>2. 1 \in 1..Len(s)
    BY <1>1
  <2> QED BY <2>1, <2>2, ElementsOfSequences
<1>3. Tail(s) \in Seq(0..MaxRequests) /\ Len(Tail(s)) = Len(s) - 1
  OBVIOUS
<1>4. DOMAIN Tail(s) = 1..(Len(s) - 1)
  BY <1>1, <1>3
<1>5. \A i \in 1..(Len(s) - 1) : Tail(s)[i] = s[i + 1]
  OBVIOUS
<1>6. 1 \in DOMAIN s /\ \A i \in DOMAIN Tail(s) : i + 1 \in DOMAIN s
  BY <1>1, <1>4
<1> QED BY <1>2, <1>3, <1>4, <1>5, <1>6

LEMMA EmptyChain == <<>> \in Seq(0..MaxRequests) /\ DOMAIN <<>> = {}
OBVIOUS

LEMMA DesktopStartsInvariant ==
  DesktopInit => DesktopInvariant
<1> SUFFICES ASSUME DesktopInit PROVE DesktopInvariant
  OBVIOUS
<1>1. MaxSavedTick \in Nat \ {0} /\ MaxRequests \in Nat
  BY CheckpointAssumption
<1>2. files \in [Files -> Archives \union {NoFile, HalfWritten}]
  BY <1>1 DEF DesktopInit, Archives
<1>3. DesktopTypeOK
  <2>1. savedTick \in 0..MaxSavedTick /\ asked \in [Requests -> 0..(MaxSavedTick + 1)]
    BY <1>1 DEF DesktopInit
  <2>2. chain \in Seq(0..MaxRequests)
    BY EmptyChain DEF DesktopInit
  <2>3. /\ candidates \subseteq Files \X Archives /\ answers \subseteq Requests \X BOOLEAN
        /\ requests \union awaited \subseteq Requests /\ kept \subseteq Archives
    BY DEF DesktopInit
  <2>4. /\ session \in {"off", "restoring", "playing", "unmanaged", "gone"}
        /\ writer \in {"idle", "staging", "staged", "copying", "copied", "renamed", "cloud"}
        /\ archive \in Archives \union {NoFile} /\ {cloud, approved} \subseteq BOOLEAN
    BY DEF DesktopInit
  <2> QED BY <1>2, <2>1, <2>2, <2>3, <2>4 DEF DesktopTypeOK
<1>4. SavesAreKept /\ TicksAreAsked /\ AnswersAreServed
  BY DEF DesktopInit, SavesAreKept, TicksAreAsked, AnswersAreServed, Busy
<1>5. RequestsAreNumbered
  <2>1. \A i \in Requests : asked[i] # 0 <=> i <= 0
    BY <1>1 DEF DesktopInit, Requests
  <2> QED BY <1>1, <2>1 DEF DesktopInit, RequestsAreNumbered
<1> QED BY <1>3, <1>4, <1>5 DEF DesktopInvariant

-----------------------------------------------------------------------------
(* Types *)

LEMMA EndedIsTyped ==
  ASSUME Ended
  PROVE  /\ session' = "off" /\ savedTick' \in 0..MaxSavedTick
         /\ candidates' \subseteq Files \X Archives /\ chain' \in Seq(0..MaxRequests)
         /\ writer' = "idle" /\ archive' \in Archives \union {NoFile}
         /\ requests' \union awaited' \subseteq Requests
         /\ answers' \subseteq Requests \X BOOLEAN /\ approved' \in BOOLEAN
         /\ asked' \in [Requests -> 0..(MaxSavedTick + 1)]
<1>1. savedTick' \in 0..MaxSavedTick /\ asked' \in [Requests -> 0..(MaxSavedTick + 1)]
  BY CheckpointAssumption DEF Ended
<1>2. chain' \in Seq(0..MaxRequests)
  BY EmptyChain DEF Ended
<1> QED BY <1>1, <1>2 DEF Ended, Idle

LEMMA SettledIsTyped ==
  ASSUME chain \in Seq(0..MaxRequests), chain # <<>>, answers \subseteq Requests \X BOOLEAN,
         NEW succeeded \in BOOLEAN, Settled(succeeded)
  PROVE  chain' \in Seq(0..MaxRequests) /\ answers' \subseteq Requests \X BOOLEAN
<1>1. Head(chain) \in 0..MaxRequests /\ chain' \in Seq(0..MaxRequests)
  BY ShortenedChains DEF Settled
<1>2. CASE Head(chain) = 0
  BY <1>1, <1>2 DEF Settled
<1>3. CASE Head(chain) # 0
  <2>1. Head(chain) \in Requests
    BY <1>1, <1>3, CheckpointAssumption DEF Requests
  <2> QED BY <1>1, <1>3, <2>1 DEF Settled
<1> QED BY <1>2, <1>3

LEMMA WritingIsTyped ==
  ASSUME NEW a \in Archives, kept \subseteq Archives, Writing(a)
  PROVE  writer' = "staging" /\ archive' \in Archives /\ kept' \subseteq Archives
BY DEF Writing

LEMMA DesktopTypesAreKept ==
  ASSUME DesktopInvariant, DesktopNext
  PROVE  DesktopTypeOK'
<1> USE DEF DesktopTypeOK
<1>0. DesktopTypeOK /\ AnswersAreServed /\ SavesAreKept
  BY DEF DesktopInvariant
<1>1. CASE Launch
  <2>1. candidates' \subseteq Files \X Archives
    BY <1>1 DEF Launch, Readable
  <2>2. savedTick' \in 0..MaxSavedTick
    BY <1>1, CheckpointAssumption DEF Launch
  <2> QED BY <1>0, <1>1, <2>1, <2>2 DEF Launch
<1>2. CASE LaunchFails
  <2>1. savedTick' \in 0..MaxSavedTick
    BY <1>2, CheckpointAssumption DEF LaunchFails
  <2> QED BY <1>0, <1>2, <2>1 DEF LaunchFails
<1>3. CASE Quit
  BY <1>0, <1>3, EndedIsTyped DEF Quit
<1>4. CASE ProcessDies
  BY <1>0, <1>4, EndedIsTyped DEF ProcessDies
<1>5. CASE PowerLoss
  <2>1. files' \in [Files -> Archives \union {NoFile, HalfWritten}]
    BY <1>0, <1>5 DEF PowerLoss, Files
  <2>2. Ended /\ UNCHANGED <<cloud, kept>>
    BY <1>5 DEF PowerLoss
  <2> QED BY <1>0, <2>1, <2>2, EndedIsTyped
<1>6. CASE PageGone
  <2>1. savedTick' \in 0..MaxSavedTick /\ chain' \in Seq(0..MaxRequests)
    BY <1>6, EmptyChain, CheckpointAssumption DEF PageGone
  <2> QED BY <1>0, <1>6, <2>1 DEF PageGone
<1>7. CASE WriteStep
  <2>1. ASSUME Stage \/ StartCopy \/ EndCopy \/ Rename
        PROVE  writer' \in {"staged", "copying", "copied", "renamed"}
    BY <2>1 DEF Stage, StartCopy, EndCopy, Rename
  <2>2. files' \in [Files -> Archives \union {NoFile, HalfWritten}]
    <3>1. CASE Stage
      BY <1>0, <3>1 DEF Stage
    <3>2. CASE StartCopy
      <4>1. files' = files \/ files' = [files EXCEPT !["backup"] = HalfWritten]
        BY <3>2 DEF StartCopy
      <4> QED BY <1>0, <4>1
    <3>3. CASE EndCopy
      BY <1>0, <3>3 DEF EndCopy, Files
    <3>4. CASE Rename
      BY <1>0, <3>4 DEF Rename
    <3> QED BY <1>7, <3>1, <3>2, <3>3, <3>4 DEF WriteStep
  <2> QED BY <1>0, <1>7, <2>1, <2>2 DEF WriteStep
<1>8. CASE RestoreBest
  <2>1. PICK c \in candidates :
          /\ savedTick' = c[2].tick
          /\ IF c[1] = "primary"
             THEN session' = "playing" /\ candidates' = {} /\ UNCHANGED <<writer, archive, kept>>
             ELSE candidates' = candidates \ {c} /\ Writing(c[2]) /\ UNCHANGED session
    BY <1>8 DEF RestoreBest
  <2>2. c[2] \in Archives /\ savedTick' \in 0..MaxSavedTick
    BY <1>0, <2>1 DEF Archives
  <2>3. UNCHANGED <<files, cloud, chain, requests, answers, awaited, approved, asked>>
    BY <1>8 DEF RestoreBest
  <2>4. CASE c[1] = "primary"
    BY <1>0, <2>1, <2>2, <2>3, <2>4
  <2>5. CASE c[1] # "primary"
    <3>1. Writing(c[2]) /\ candidates' \subseteq candidates /\ session' = session
      BY <2>1, <2>5
    <3> QED BY <1>0, <2>2, <2>3, <3>1, WritingIsTyped
  <2> QED BY <2>4, <2>5
<1>9. CASE RejectBest
  <2>1. candidates' \subseteq candidates
    BY <1>9 DEF RejectBest
  <2> QED BY <1>0, <1>9, <2>1 DEF RejectBest
<1>10. CASE NothingToRestore
  BY <1>0, <1>10 DEF NothingToRestore
<1>11. CASE PlayTick
  <2>1. savedTick' \in 0..MaxSavedTick
    BY <1>0, <1>11, CheckpointAssumption DEF PlayTick
  <2> QED BY <1>0, <1>11, <2>1 DEF PlayTick
<1>12. CASE Autosave
  <2>1. chain' \in Seq(0..MaxRequests)
    BY <1>0, <1>12, AppendedChains, CheckpointAssumption DEF Autosave
  <2> QED BY <1>0, <1>12, <2>1 DEF Autosave
<1>13. CASE BeginCheckpoint
  BY <1>0, <1>13, CheckpointsAreArchives, WritingIsTyped DEF BeginCheckpoint
<1>14. CASE WriteEnds
  <2>1. archive \in Archives
    BY <1>0, <1>14 DEF WriteEnds, SavesAreKept, Busy
  <2>2. chain' \in Seq(0..MaxRequests) /\ answers' \subseteq Requests \X BOOLEAN
    <3>1. CASE session = "playing" /\ ~cloud
      BY <1>0, <1>14, <3>1, SettledIsTyped DEF WriteEnds, AnswersAreServed
    <3>2. CASE ~(session = "playing" /\ ~cloud)
      BY <1>0, <1>14, <3>2 DEF WriteEnds
    <3> QED BY <3>1, <3>2
  <2>3. writer' \in {"cloud", "idle"} /\ archive' \in {archive, NoFile}
    BY <1>14 DEF WriteEnds, Idle
  <2>4. session' \in {"playing", session} /\ candidates' = {} /\ kept' = {archive}
    BY <1>14 DEF WriteEnds
  <2> QED BY <1>0, <1>14, <2>1, <2>2, <2>3, <2>4 DEF WriteEnds
<1>15. CASE WriteFails
  <2>1. chain' \in Seq(0..MaxRequests) /\ answers' \subseteq Requests \X BOOLEAN
    <3>1. CASE session = "playing"
      BY <1>0, <1>15, <3>1, SettledIsTyped DEF WriteFails, AnswersAreServed
    <3>2. CASE session # "playing"
      BY <1>0, <1>15, <3>2 DEF WriteFails
    <3> QED BY <3>1, <3>2
  <2> QED BY <1>0, <1>15, <2>1 DEF WriteFails, Idle
<1>16. CASE CloudWrite
  <2>1. chain' \in Seq(0..MaxRequests) /\ answers' \subseteq Requests \X BOOLEAN
    <3>1. CASE session = "playing"
      BY <1>0, <1>16, <3>1, SettledIsTyped DEF CloudWrite, AnswersAreServed
    <3>2. CASE session # "playing"
      BY <1>0, <1>16, <3>2 DEF CloudWrite
    <3> QED BY <3>1, <3>2
  <2>2. files' \in [Files -> Archives \union {NoFile, HalfWritten}]
    BY <1>0, <1>16 DEF CloudWrite
  <2> QED BY <1>0, <1>16, <2>1, <2>2 DEF CloudWrite, Idle
<1>17. CASE RequestClose
  <2>1. PICK id \in Requests :
          /\ awaited' = awaited \union {id}
          /\ requests' = IF session = "gone" THEN requests ELSE requests \union {id}
          /\ asked' = [asked EXCEPT ![id] = 1 + IF session = "playing" THEN savedTick ELSE 0]
    BY <1>17 DEF RequestClose
  <2>2. asked' \in [Requests -> 0..(MaxSavedTick + 1)]
    BY <1>0, <2>1, CheckpointAssumption
  <2>3. requests' \union awaited' \subseteq Requests
    BY <1>0, <2>1
  <2> QED BY <1>0, <1>17, <2>2, <2>3 DEF RequestClose
<1>18. CASE ReceiveRequest
  <2>1. PICK id \in requests :
          /\ requests' = requests \ {id}
          /\ chain' = IF session = "playing" THEN Append(chain, id) ELSE chain
    BY <1>18 DEF ReceiveRequest
  <2>2. id \in 0..MaxRequests
    BY <1>0 DEF Requests
  <2>3. chain' \in Seq(0..MaxRequests)
    BY <1>0, <2>1, <2>2, AppendedChains
  <2> QED BY <1>0, <1>18, <2>1, <2>3 DEF ReceiveRequest
<1>19. CASE ReceiveAnswer
  <2>1. answers' \subseteq answers /\ awaited' \subseteq awaited /\ approved' \in BOOLEAN
    BY <1>0, <1>19 DEF ReceiveAnswer
  <2> QED BY <1>0, <1>19, <2>1 DEF ReceiveAnswer
<1>20. CASE Timeout
  <2>1. awaited' \subseteq awaited
    BY <1>20 DEF Timeout
  <2> QED BY <1>0, <1>20, <2>1 DEF Timeout
<1> QED BY <1>1, <1>2, <1>3, <1>4, <1>5, <1>6, <1>7, <1>8, <1>9, <1>10, <1>11, <1>12, <1>13,
           <1>14, <1>15, <1>16, <1>17, <1>18, <1>19, <1>20 DEF DesktopNext

-----------------------------------------------------------------------------
(* What is saved *)

\* A step that leaves the files and what is written alone.
LEMMA SavesAreLeft ==
  ASSUME SavesAreKept, UNCHANGED <<files, writer, archive, kept>>
  PROVE  SavesAreKept'
BY DEF SavesAreKept

LEMMA WritingKeepsSaves ==
  ASSUME SavesAreKept, NEW a \in Archives, Writing(a), UNCHANGED files
  PROVE  SavesAreKept'
BY DEF SavesAreKept, Writing, Busy

LEMMA IdleKeepsSaves ==
  ASSUME SavesAreKept, kept' = kept, writer' = "idle",
         kept # {} => files'["primary"] \in kept
  PROVE  SavesAreKept'
BY DEF SavesAreKept, Busy

LEMMA WriteStepKeepsSaves ==
  ASSUME DesktopTypeOK, SavesAreKept, WriteStep
  PROVE  SavesAreKept'
<1> USE DEF SavesAreKept, Busy
<1>0. UNCHANGED <<archive, kept>> /\ kept \subseteq Archives
  BY DEF WriteStep, DesktopTypeOK
<1>1. files \in [Files -> Archives \union {NoFile, HalfWritten}]
  BY DEF DesktopTypeOK
<1>2. CASE Stage
  BY <1>0, <1>2 DEF Stage
<1>3. CASE StartCopy
  <2>1. CASE files["primary"] = NoFile
    <3>1. kept = {}
      BY <1>0, <2>1, NoFileIsNoArchive
    <3> QED BY <1>0, <1>3, <2>1, <3>1 DEF StartCopy
  <2>2. CASE files["primary"] # NoFile
    <3>1. writer' = "copying" /\ files' = [files EXCEPT !["backup"] = HalfWritten] /\ writer = "staged"
      BY <1>3, <2>2 DEF StartCopy
    <3>2. files'["primary"] = files["primary"]
      BY <1>1, <3>1
    <3> QED BY <1>0, <3>1, <3>2
  <2> QED BY <2>1, <2>2
<1>4. CASE EndCopy
  <2>1. files'["primary"] = files["primary"] /\ files'["backup"] = files["primary"]
    BY <1>1, <1>4 DEF EndCopy, Files
  <2> QED BY <1>0, <1>4, <2>1 DEF EndCopy
<1>5. CASE Rename
  <2>1. files'["primary"] = archive /\ files'["backup"] = files["backup"]
    BY <1>1, <1>5 DEF Rename, Files
  <2> QED BY <1>0, <1>5, <2>1 DEF Rename
<1> QED BY <1>2, <1>3, <1>4, <1>5 DEF WriteStep

LEMMA SavesStayKept ==
  ASSUME DesktopInvariant, DesktopNext
  PROVE  SavesAreKept'
<1>0. DesktopTypeOK /\ SavesAreKept
  BY DEF DesktopInvariant
<1>1. CASE Launch \/ LaunchFails
  BY <1>0, <1>1, SavesAreLeft DEF Launch, LaunchFails
<1>2. CASE Quit \/ ProcessDies
  <2>1. writer' = "idle" /\ UNCHANGED <<files, kept>>
    BY <1>2 DEF Quit, ProcessDies, Ended, Idle
  <2> QED BY <1>0, <2>1, IdleKeepsSaves DEF SavesAreKept
<1>3. CASE PowerLoss
  <2>1. writer' = "idle" /\ kept' = kept
    BY <1>3 DEF PowerLoss, Ended, Idle
  <2>2. PICK primary \in {files["primary"]} \union
                         (IF writer = "renamed" THEN {files["backup"]} ELSE {}),
             backup \in {files["backup"], HalfWritten} :
          files' = [files EXCEPT !["primary"] = primary, !["backup"] = backup]
    BY <1>3 DEF PowerLoss
  <2>3. kept # {} => primary \in kept
    BY <1>0, <2>2 DEF SavesAreKept
  <2>4. files'["primary"] = primary
    BY <1>0, <2>2 DEF DesktopTypeOK, Files
  <2> QED BY <1>0, <2>1, <2>3, <2>4, IdleKeepsSaves
<1>4. CASE WriteStep
  BY <1>0, <1>4, WriteStepKeepsSaves
<1>5. CASE RestoreBest
  <2>1. PICK c \in candidates :
          IF c[1] = "primary" THEN UNCHANGED <<writer, archive, kept>> ELSE Writing(c[2])
    BY <1>5 DEF RestoreBest
  <2>2. c[2] \in Archives /\ files' = files
    BY <1>0, <1>5 DEF DesktopTypeOK, RestoreBest
  <2>3. CASE c[1] = "primary"
    BY <1>0, <2>1, <2>2, <2>3, SavesAreLeft
  <2>4. CASE c[1] # "primary"
    BY <1>0, <2>1, <2>2, <2>4, WritingKeepsSaves
  <2> QED BY <2>3, <2>4
<1>6. CASE PageGone \/ RejectBest \/ NothingToRestore \/ PlayTick \/ Autosave
  BY <1>0, <1>6, SavesAreLeft DEF PageGone, RejectBest, NothingToRestore, PlayTick, Autosave
<1>7. CASE BeginCheckpoint
  <2>1. savedTick \in 0..MaxSavedTick
    BY <1>0 DEF DesktopTypeOK
  <2> QED BY <1>0, <1>7, <2>1, CheckpointsAreArchives, WritingKeepsSaves DEF BeginCheckpoint
<1>8. CASE WriteEnds
  <2>1. files["primary"] = archive /\ kept' = {archive} /\ files' = files
    BY <1>0, <1>8 DEF WriteEnds, SavesAreKept
  <2>2. (writer' = "cloud" /\ archive' = archive) \/ writer' = "idle"
    BY <1>8 DEF WriteEnds, Idle
  <2> QED BY <2>1, <2>2 DEF SavesAreKept, Busy
<1>9. CASE WriteFails
  BY <1>0, <1>9, IdleKeepsSaves DEF WriteFails, Idle, SavesAreKept
<1>10. CASE CloudWrite
  <2>1. files'["primary"] = files["primary"]
    BY <1>0, <1>10 DEF CloudWrite, DesktopTypeOK, Files
  <2> QED BY <1>0, <1>10, <2>1, IdleKeepsSaves DEF CloudWrite, Idle, SavesAreKept
<1>11. CASE RequestClose \/ ReceiveRequest \/ ReceiveAnswer \/ Timeout
  BY <1>0, <1>11, SavesAreLeft DEF RequestClose, ReceiveRequest, ReceiveAnswer, Timeout
<1> QED BY <1>1, <1>2, <1>3, <1>4, <1>5, <1>6, <1>7, <1>8, <1>9, <1>10, <1>11 DEF DesktopNext

-----------------------------------------------------------------------------
(* Requests and the ticks they ask for *)

LEMMA NumbersAreLeft ==
  ASSUME RequestsAreNumbered, asked' = asked, requests' \subseteq requests,
         \/ chain' = chain
         \/ chain' = <<>>
         \/ chain \in Seq(0..MaxRequests) /\ chain # <<>> /\ chain' = Tail(chain),
         \A answer \in answers' : answer \in answers \/ asked[answer[1]] # 0
  PROVE  RequestsAreNumbered'
<1>1. \A i \in DOMAIN chain' : chain'[i] # 0 => asked[chain'[i]] # 0
  <2>1. CASE chain' = chain
    BY <2>1 DEF RequestsAreNumbered
  <2>2. CASE chain' = <<>>
    BY <2>2, EmptyChain
  <2>3. CASE chain \in Seq(0..MaxRequests) /\ chain # <<>> /\ chain' = Tail(chain)
    BY <2>3, ShortenedChains DEF RequestsAreNumbered
  <2> QED BY <2>1, <2>2, <2>3
<1>2. \A answer \in answers' : asked[answer[1]] # 0
  BY DEF RequestsAreNumbered
<1> QED BY <1>1, <1>2 DEF RequestsAreNumbered

LEMMA EndedIsNumbered ==
  ASSUME Ended
  PROVE  RequestsAreNumbered' /\ TicksAreAsked' /\ AnswersAreServed'
<1>1. \A i \in Requests : asked'[i] = 0
  BY DEF Ended
<1>2. \A i \in Requests : asked'[i] # 0 <=> i <= 0
  BY <1>1, CheckpointAssumption DEF Requests
<1>3. RequestsAreNumbered'
  BY <1>2, EmptyChain, CheckpointAssumption DEF Ended, RequestsAreNumbered
<1>4. TicksAreAsked'
  BY <1>1 DEF Ended, TicksAreAsked
<1>5. AnswersAreServed'
  BY DEF Ended, AnswersAreServed
<1> QED BY <1>3, <1>4, <1>5

\* A request that settles was asked for.
LEMMA SettledIsNumbered ==
  ASSUME RequestsAreNumbered, chain \in Seq(0..MaxRequests), chain # <<>>, NEW succeeded,
         Settled(succeeded), UNCHANGED <<asked, requests>>
  PROVE  RequestsAreNumbered'
<1>1. chain' = Tail(chain)
  BY DEF Settled
<1>2. Head(chain) # 0 => asked[Head(chain)] # 0
  BY ShortenedChains DEF RequestsAreNumbered
<1>3. \A answer \in answers' : answer \in answers \/ asked[answer[1]] # 0
  BY <1>2 DEF Settled
<1> QED BY <1>1, <1>3, NumbersAreLeft

\* The id of a new request is the first that was not asked for yet.
LEMMA NewRequestsAreUnasked ==
  ASSUME RequestsAreNumbered, NEW id \in Requests,
         id = 1 + Cardinality({i \in Requests : asked[i] # 0})
  PROVE  asked[id] = 0 /\ \A i \in Requests : i # id => (asked[i] # 0 <=> i <= id)
<1>1. PICK n \in 0..MaxRequests : \A i \in Requests : asked[i] # 0 <=> i <= n
  BY DEF RequestsAreNumbered
<1>2. {i \in Requests : asked[i] # 0} = 1..n
  BY <1>1, CheckpointAssumption DEF Requests
<1>3. Cardinality(1..n) = n
  BY <1>1, FS_Interval
<1>4. Cardinality({i \in Requests : asked[i] # 0}) = n
  BY <1>2, <1>3, Zenon
<1>5. id = n + 1 /\ n \in Nat
  BY <1>1, <1>4, CheckpointAssumption
<1>6. asked[id] = 0
  BY <1>1, <1>5
<1>7. \A i \in Requests : i # id => (i <= n <=> i <= id)
  BY <1>5, CheckpointAssumption DEF Requests
<1> QED BY <1>1, <1>6, <1>7

LEMMA NumbersAreKept ==
  ASSUME DesktopInvariant, DesktopNext
  PROVE  RequestsAreNumbered'
<1>0. /\ RequestsAreNumbered /\ AnswersAreServed /\ asked \in [Requests -> 0..(MaxSavedTick + 1)]
      /\ chain \in Seq(0..MaxRequests) /\ requests \subseteq Requests /\ savedTick \in Nat
  BY CheckpointAssumption DEF DesktopInvariant, DesktopTypeOK
<1>1. CASE Quit \/ ProcessDies \/ PowerLoss
  BY <1>1, EndedIsNumbered DEF Quit, ProcessDies, PowerLoss
<1>2. CASE PageGone
  BY <1>0, <1>2, NumbersAreLeft DEF PageGone
<1>3. CASE \/ Launch \/ LaunchFails \/ WriteStep \/ RestoreBest \/ RejectBest \/ NothingToRestore
           \/ PlayTick \/ BeginCheckpoint
  <2>1. UNCHANGED <<asked, requests, chain, answers>>
    BY <1>3 DEF Launch, LaunchFails, WriteStep, RestoreBest, RejectBest, NothingToRestore, PlayTick,
                BeginCheckpoint
  <2> QED BY <1>0, <2>1, NumbersAreLeft
<1>4. CASE Autosave
  <2>1. chain' = Append(chain, 0) /\ UNCHANGED <<asked, requests, answers>> /\ 0 \in 0..MaxRequests
    BY <1>4, CheckpointAssumption DEF Autosave
  <2>2. \A i \in DOMAIN chain' : chain'[i] # 0 => asked[chain'[i]] # 0
    BY <1>0, <2>1, AppendedChains DEF RequestsAreNumbered
  <2> QED BY <1>0, <2>1, <2>2 DEF RequestsAreNumbered
<1>5. CASE WriteEnds
  <2>1. UNCHANGED <<asked, requests>>
    BY <1>5 DEF WriteEnds
  <2>2. CASE session = "playing" /\ ~cloud
    BY <1>0, <1>5, <2>1, <2>2, SettledIsNumbered DEF WriteEnds, AnswersAreServed
  <2>3. CASE ~(session = "playing" /\ ~cloud)
    BY <1>0, <1>5, <2>1, <2>3, NumbersAreLeft DEF WriteEnds
  <2> QED BY <2>2, <2>3
<1>6. CASE WriteFails
  <2>1. UNCHANGED <<asked, requests>>
    BY <1>6 DEF WriteFails
  <2>2. CASE session = "playing"
    BY <1>0, <1>6, <2>1, <2>2, SettledIsNumbered DEF WriteFails, AnswersAreServed
  <2>3. CASE session # "playing"
    BY <1>0, <1>6, <2>1, <2>3, NumbersAreLeft DEF WriteFails
  <2> QED BY <2>2, <2>3
<1>7. CASE CloudWrite
  <2>1. UNCHANGED <<asked, requests>>
    BY <1>7 DEF CloudWrite
  <2>2. CASE session = "playing"
    BY <1>0, <1>7, <2>1, <2>2, SettledIsNumbered DEF CloudWrite, AnswersAreServed
  <2>3. CASE session # "playing"
    BY <1>0, <1>7, <2>1, <2>3, NumbersAreLeft DEF CloudWrite
  <2> QED BY <2>2, <2>3
<1>8. CASE RequestClose
  <2>1. PICK id \in Requests :
          /\ id = 1 + Cardinality({i \in Requests : asked[i] # 0})
          /\ requests' = IF session = "gone" THEN requests ELSE requests \union {id}
          /\ asked' = [asked EXCEPT ![id] = 1 + IF session = "playing" THEN savedTick ELSE 0]
    BY <1>8 DEF RequestClose
  <2>2. UNCHANGED <<chain, answers>>
    BY <1>8 DEF RequestClose
  <2>3. \A i \in Requests : i # id => (asked[i] # 0 <=> i <= id)
    BY <1>0, <2>1, NewRequestsAreUnasked
  <2>4. asked'[id] # 0 /\ \A x : x # id => asked'[x] = asked[x]
    BY <1>0, <2>1
  <2>5. \A i \in Requests : asked'[i] # 0 <=> i <= id
    BY <2>1, <2>3, <2>4, CheckpointAssumption DEF Requests
  <2>6. id \in 0..MaxRequests
    BY CheckpointAssumption DEF Requests
  <2>7. \A x \in requests' : asked'[x] # 0
    BY <1>0, <2>1, <2>4 DEF RequestsAreNumbered
  <2>8. /\ \A i \in DOMAIN chain' : chain'[i] # 0 => asked'[chain'[i]] # 0
        /\ \A answer \in answers' : asked'[answer[1]] # 0
    BY <1>0, <2>2, <2>4 DEF RequestsAreNumbered
  <2> QED BY <2>5, <2>6, <2>7, <2>8 DEF RequestsAreNumbered
<1>9. CASE ReceiveRequest
  <2>1. PICK id \in requests :
          /\ requests' = requests \ {id}
          /\ chain' = IF session = "playing" THEN Append(chain, id) ELSE chain
    BY <1>9 DEF ReceiveRequest
  <2>2. UNCHANGED <<asked, answers>> /\ id \in 0..MaxRequests /\ asked[id] # 0
    BY <1>0, <1>9 DEF ReceiveRequest, RequestsAreNumbered, Requests
  <2>3. \A i \in DOMAIN chain' : chain'[i] # 0 => asked[chain'[i]] # 0
    BY <1>0, <2>1, <2>2, AppendedChains DEF RequestsAreNumbered
  <2> QED BY <1>0, <2>1, <2>2, <2>3 DEF RequestsAreNumbered
<1>10. CASE ReceiveAnswer \/ Timeout
  <2>1. UNCHANGED <<asked, requests, chain>> /\ answers' \subseteq answers
    BY <1>10 DEF ReceiveAnswer, Timeout
  <2> QED BY <1>0, <2>1, NumbersAreLeft
<1> QED BY <1>1, <1>2, <1>3, <1>4, <1>5, <1>6, <1>7, <1>8, <1>9, <1>10 DEF DesktopNext

LEMMA TicksStayAsked ==
  ASSUME DesktopInvariant, DesktopNext
  PROVE  TicksAreAsked'
<1>0. /\ TicksAreAsked /\ asked \in [Requests -> 0..(MaxSavedTick + 1)]
      /\ savedTick \in Nat /\ candidates \subseteq Files \X Archives
      /\ session \in {"off", "restoring", "playing", "unmanaged", "gone"}
  BY CheckpointAssumption DEF DesktopInvariant, DesktopTypeOK
<1>1. CASE Quit \/ ProcessDies \/ PowerLoss
  BY <1>1, EndedIsNumbered DEF Quit, ProcessDies, PowerLoss
<1>2. CASE LaunchFails \/ PageGone
  <2>1. session' \in {"unmanaged", "gone"}
    BY <1>2 DEF LaunchFails, PageGone
  <2> QED BY <2>1 DEF TicksAreAsked
<1>3. CASE Launch
  BY <1>0, <1>3 DEF Launch, TicksAreAsked
<1>4. CASE WriteStep \/ RejectBest \/ Autosave \/ BeginCheckpoint \/ ReceiveRequest
  <2>1. UNCHANGED <<session, answers, asked, savedTick>>
    BY <1>4 DEF WriteStep, RejectBest, Autosave, BeginCheckpoint, ReceiveRequest
  <2> QED BY <1>0, <2>1 DEF TicksAreAsked
<1>5. CASE RestoreBest
  <2>1. PICK c \in candidates : savedTick' = c[2].tick /\ session' \in {"playing", "restoring"}
    BY <1>5 DEF RestoreBest
  <2>2. savedTick' \in Nat
    BY <1>0, <2>1, CheckpointAssumption DEF Archives
  <2>3. session = "restoring" /\ UNCHANGED <<answers, asked>>
    BY <1>5 DEF RestoreBest
  <2>4. answers' = {} /\ \A id \in Requests : asked'[id] <= 1
    BY <1>0, <2>3 DEF TicksAreAsked
  <2>5. \A id \in Requests : asked'[id] <= savedTick' + 1
    BY <1>0, <2>2, <2>3, <2>4, CheckpointAssumption
  <2> QED BY <2>4, <2>5 DEF TicksAreAsked
<1>6. CASE NothingToRestore
  <2>1. /\ session = "restoring" /\ session' = "playing"
        /\ UNCHANGED <<answers, asked, savedTick>>
    BY <1>6 DEF NothingToRestore
  <2>2. \A id \in Requests : asked'[id] <= savedTick' + 1
    BY <1>0, <2>1, CheckpointAssumption DEF TicksAreAsked
  <2> QED BY <2>1, <2>2 DEF TicksAreAsked
<1>7. CASE PlayTick
  <2>1. session = "playing" /\ savedTick' = savedTick + 1 /\ UNCHANGED <<session, answers, asked>>
    BY <1>7 DEF PlayTick
  <2>2. \A id \in Requests : asked'[id] <= savedTick' + 1
    BY <1>0, <2>1, CheckpointAssumption DEF TicksAreAsked
  <2> QED BY <2>1, <2>2 DEF TicksAreAsked
<1>8. CASE WriteEnds
  <2>1. UNCHANGED <<asked, savedTick>>
    BY <1>8 DEF WriteEnds
  <2>2. CASE session = "restoring"
    <3>1. session' = "playing"
      BY <1>8, <2>2 DEF WriteEnds
    <3>2. \A id \in Requests : asked'[id] <= savedTick' + 1
      BY <1>0, <2>1, <2>2, CheckpointAssumption DEF TicksAreAsked
    <3> QED BY <3>1, <3>2 DEF TicksAreAsked
  <2>3. CASE session # "restoring"
    <3>1. session' = session
      BY <1>8, <2>3 DEF WriteEnds
    <3>2. session # "playing" => answers' = answers
      BY <1>8 DEF WriteEnds
    <3> QED BY <1>0, <2>1, <2>3, <3>1, <3>2 DEF TicksAreAsked
  <2> QED BY <2>2, <2>3
<1>9. CASE WriteFails \/ CloudWrite
  <2>1. UNCHANGED <<asked, savedTick, session>>
    BY <1>9 DEF WriteFails, CloudWrite
  <2>2. session # "playing" => answers' = answers
    BY <1>9 DEF WriteFails, CloudWrite
  <2> QED BY <1>0, <2>1, <2>2 DEF TicksAreAsked
<1>10. CASE RequestClose
  <2>1. PICK id \in Requests :
          asked' = [asked EXCEPT ![id] = 1 + IF session = "playing" THEN savedTick ELSE 0]
    BY <1>10 DEF RequestClose
  <2>2. session' = session /\ session # "off" /\ UNCHANGED <<answers, savedTick>>
    BY <1>10 DEF RequestClose
  <2>3. CASE session = "playing"
    <3>1. asked' = [asked EXCEPT ![id] = 1 + savedTick]
      BY <2>1, <2>3
    <3>2. \A i \in Requests : asked'[i] <= savedTick + 1
      BY <1>0, <2>3, <3>1, CheckpointAssumption DEF TicksAreAsked
    <3> QED BY <2>2, <2>3, <3>2 DEF TicksAreAsked
  <2>4. CASE session # "playing"
    <3>1. asked' = [asked EXCEPT ![id] = 1]
      BY <2>1, <2>4
    <3>2. session = "restoring" => \A i \in Requests : asked'[i] <= 1
      BY <1>0, <3>1, CheckpointAssumption DEF TicksAreAsked
    <3> QED BY <1>0, <2>2, <2>4, <3>2 DEF TicksAreAsked
  <2> QED BY <2>3, <2>4
<1>11. CASE ReceiveAnswer \/ Timeout
  <2>1. UNCHANGED <<asked, savedTick, session>> /\ answers' \subseteq answers
    BY <1>11 DEF ReceiveAnswer, Timeout
  <2> QED BY <1>0, <2>1 DEF TicksAreAsked
<1> QED BY <1>1, <1>2, <1>3, <1>4, <1>5, <1>6, <1>7, <1>8, <1>9, <1>10, <1>11 DEF DesktopNext

-----------------------------------------------------------------------------
(* What was answered is saved *)

LEMMA ServedIsLeft ==
  ASSUME AnswersAreServed, asked' = asked, answers' \subseteq answers,
         files'["primary"] = files["primary"],
         archive' = archive \/ writer' \notin Busy,
         writer' \in Busy => writer \in Busy,
         session' = "playing" /\ writer' # "idle" =>
           /\ session = "playing" /\ writer # "idle" /\ archive' = archive
           /\ chain' # <<>> /\ Head(chain') = Head(chain)
  PROVE  AnswersAreServed'
<1>1. session' = "playing" /\ writer' # "idle" =>
        chain' # <<>> /\ (Head(chain') # 0 => Serves(archive, Head(chain))')
  BY DEF AnswersAreServed, Serves
<1>2. ASSUME NEW id \in Requests, <<id, TRUE>> \in answers'
      PROVE  Serves(files["primary"], id)' /\ (writer' \in Busy => Serves(archive, id)')
  BY <1>2 DEF AnswersAreServed, Serves
<1> QED BY <1>1, <1>2 DEF AnswersAreServed, Serves

\* The head of the chain is answered when what was written for it is saved.
LEMMA SettledIsServed ==
  ASSUME AnswersAreServed, session = "playing", writer # "idle", writer' = "idle",
         files'["primary"] = files["primary"], asked' = asked, NEW succeeded \in BOOLEAN,
         succeeded => files["primary"] = archive, Settled(succeeded)
  PROVE  AnswersAreServed'
<1>1. Head(chain) # 0 /\ succeeded => Serves(files["primary"], Head(chain))
  BY DEF AnswersAreServed
<1>2. ASSUME NEW id \in Requests, <<id, TRUE>> \in answers'
      PROVE  Serves(files["primary"], id)'
  <2>1. CASE <<id, TRUE>> \in answers
    BY <2>1 DEF AnswersAreServed, Serves
  <2>2. CASE <<id, TRUE>> \notin answers
    <3>1. Head(chain) # 0 /\ succeeded /\ id = Head(chain)
      BY <1>2, <2>2 DEF Settled
    <3> QED BY <1>1, <3>1 DEF Serves
  <2> QED BY <2>1, <2>2
<1> QED BY <1>2 DEF AnswersAreServed, Serves, Busy

LEMMA AnswersStayServed ==
  ASSUME DesktopInvariant, DesktopNext
  PROVE  AnswersAreServed'
<1>0. /\ AnswersAreServed /\ TicksAreAsked /\ SavesAreKept /\ RequestsAreNumbered
      /\ asked \in [Requests -> 0..(MaxSavedTick + 1)] /\ chain \in Seq(0..MaxRequests)
      /\ savedTick \in 0..MaxSavedTick /\ requests \subseteq Requests
      /\ files \in [Files -> Archives \union {NoFile, HalfWritten}]
  BY DEF DesktopInvariant, DesktopTypeOK
<1>1. CASE Quit \/ ProcessDies \/ PowerLoss
  BY <1>1, EndedIsNumbered DEF Quit, ProcessDies, PowerLoss
<1>2. CASE \/ Launch \/ LaunchFails \/ PageGone \/ RejectBest \/ NothingToRestore \/ PlayTick
           \/ ReceiveAnswer \/ Timeout
  <2>1. /\ UNCHANGED <<asked, files, archive, writer>> /\ answers' \subseteq answers
        /\ session' = "playing" /\ writer' # "idle" =>
             session = "playing" /\ chain' = chain
    BY <1>2 DEF Launch, LaunchFails, PageGone, RejectBest, NothingToRestore, PlayTick,
                ReceiveAnswer, Timeout
  <2>2. session' = "playing" /\ writer' # "idle" => chain' # <<>>
    BY <1>0, <2>1 DEF AnswersAreServed
  <2> QED BY <1>0, <2>1, <2>2, ServedIsLeft
<1>3. CASE Autosave \/ ReceiveRequest
  <2>1. PICK id \in 0..MaxRequests : chain' = Append(chain, id) \/ chain' = chain
    BY <1>0, <1>3, CheckpointAssumption DEF Autosave, ReceiveRequest, Requests
  <2>2. UNCHANGED <<asked, files, archive, writer, session, answers>>
    BY <1>3 DEF Autosave, ReceiveRequest
  <2>3. session' = "playing" /\ writer' # "idle" => chain' # <<>> /\ Head(chain') = Head(chain)
    BY <1>0, <2>1, <2>2, AppendedChains DEF AnswersAreServed
  <2> QED BY <1>0, <2>2, <2>3, ServedIsLeft
<1>4. CASE WriteStep
  <2>1. /\ UNCHANGED <<asked, session, chain, answers, archive>>
        /\ writer \in Busy /\ writer' \in Busy
    BY <1>4 DEF WriteStep, Stage, StartCopy, EndCopy, Rename, Busy
  <2>2. files'["primary"] = files["primary"] \/ files'["primary"] = archive
    <3>1. CASE Stage
      BY <3>1 DEF Stage
    <3>2. CASE StartCopy
      <4>1. files' = files \/ files' = [files EXCEPT !["backup"] = HalfWritten]
        BY <3>2 DEF StartCopy
      <4>2. "primary" \in Files /\ "primary" # "backup"
        BY DEF Files
      <4> QED BY <1>0, <4>1, <4>2
    <3>3. CASE EndCopy
      BY <1>0, <3>3 DEF EndCopy, Files
    <3>4. CASE Rename
      BY <1>0, <3>4 DEF Rename, Files
    <3> QED BY <1>4, <3>1, <3>2, <3>3, <3>4 DEF WriteStep
  <2>3. writer # "idle" /\ writer' # "idle"
    BY <2>1 DEF Busy
  <2>4. ASSUME NEW id \in Requests, <<id, TRUE>> \in answers'
        PROVE  Serves(files["primary"], id)' /\ Serves(archive, id)'
    BY <1>0, <2>1, <2>2, <2>4 DEF AnswersAreServed, Serves
  <2>5. session' = "playing" =>
          chain' # <<>> /\ (Head(chain') # 0 => Serves(archive, Head(chain))')
    BY <1>0, <2>1, <2>3 DEF AnswersAreServed, Serves
  <2> QED BY <2>4, <2>5 DEF AnswersAreServed, Serves
<1>5. CASE RestoreBest
  <2>1. answers' = {}
    BY <1>0, <1>5 DEF RestoreBest, TicksAreAsked
  <2>2. session' # "playing" \/ writer' = "idle"
    BY <1>5 DEF RestoreBest
  <2> QED BY <2>1, <2>2 DEF AnswersAreServed
<1>6. CASE BeginCheckpoint
  <2>1. /\ session = "playing" /\ chain # <<>> /\ archive' = [tick |-> savedTick, version |-> CurrentVersion]
        /\ UNCHANGED <<asked, session, chain, answers, files>>
    BY <1>6 DEF BeginCheckpoint, Writing
  <2>2. \A id \in Requests : Serves(archive, id)'
    BY <1>0, <2>1, CheckpointAssumption DEF TicksAreAsked, Serves
  <2>3. Head(chain) # 0 => Head(chain) \in Requests
    BY <1>0, <2>1, ShortenedChains, CheckpointAssumption DEF Requests
  <2>4. \A id \in Requests : <<id, TRUE>> \in answers' => Serves(files["primary"], id)'
    BY <1>0, <2>1 DEF AnswersAreServed, Serves
  <2> QED BY <2>1, <2>2, <2>3, <2>4 DEF AnswersAreServed, Serves
<1>7. CASE WriteEnds
  <2>1. UNCHANGED <<asked, files>> /\ writer = "renamed" /\ files["primary"] = archive
    BY <1>0, <1>7 DEF WriteEnds, SavesAreKept
  <2>2. CASE session = "playing" /\ ~cloud
    <3>1. writer' = "idle" /\ Settled(TRUE)
      BY <1>7, <2>2 DEF WriteEnds, Idle
    <3> QED BY <1>0, <2>1, <2>2, <3>1, SettledIsServed
  <2>3. CASE session = "playing" /\ cloud
    <3>1. writer' = "cloud" /\ UNCHANGED <<archive, chain, answers, session>>
      BY <1>7, <2>3 DEF WriteEnds
    <3>2. chain # <<>>
      BY <1>0, <2>1, <2>3 DEF AnswersAreServed
    <3> QED BY <1>0, <2>1, <2>3, <3>1, <3>2, ServedIsLeft DEF Busy
  <2>4. CASE session # "playing"
    <3>1. writer' = "idle" /\ answers' = answers
      BY <1>7, <2>4 DEF WriteEnds, Idle
    <3> QED BY <1>0, <2>1, <3>1, ServedIsLeft DEF Busy
  <2> QED BY <2>2, <2>3, <2>4
<1>8. CASE WriteFails
  <2>1. /\ UNCHANGED <<asked, files>> /\ writer # "idle" /\ writer' = "idle"
    BY <1>8 DEF WriteFails, Idle
  <2>2. CASE session = "playing"
    BY <1>0, <1>8, <2>1, <2>2, SettledIsServed DEF WriteFails
  <2>3. CASE session # "playing"
    <3>1. answers' = answers
      BY <1>8, <2>3 DEF WriteFails
    <3> QED BY <1>0, <2>1, <3>1, ServedIsLeft DEF Busy
  <2> QED BY <2>2, <2>3
<1>9. CASE CloudWrite
  <2>1. files' = files \/ files' = [files EXCEPT !["cloud"] = archive]
    BY <1>9 DEF CloudWrite
  <2>2. /\ asked' = asked /\ writer = "cloud" /\ writer' = "idle"
        /\ files["primary"] = archive /\ files'["primary"] = files["primary"]
    <3>1. asked' = asked /\ writer = "cloud" /\ writer' = "idle"
      BY <1>9 DEF CloudWrite, Idle
    <3>2. files'["primary"] = files["primary"]
      BY <1>0, <2>1 DEF Files
    <3> QED BY <1>0, <3>1, <3>2 DEF SavesAreKept
  <2>3. CASE session = "playing"
    BY <1>0, <1>9, <2>2, <2>3, SettledIsServed DEF CloudWrite
  <2>4. CASE session # "playing"
    <3>1. answers' = answers
      BY <1>9, <2>4 DEF CloudWrite
    <3> QED BY <1>0, <2>2, <3>1, ServedIsLeft DEF Busy
  <2> QED BY <2>3, <2>4
<1>10. CASE RequestClose
  <2>1. PICK id \in Requests :
          /\ id = 1 + Cardinality({i \in Requests : asked[i] # 0})
          /\ asked' = [asked EXCEPT ![id] = 1 + IF session = "playing" THEN savedTick ELSE 0]
    BY <1>10 DEF RequestClose
  <2>2. UNCHANGED <<files, session, chain, writer, archive, answers>>
    BY <1>10 DEF RequestClose
  <2>3. asked[id] = 0 /\ \A x : x # id => asked'[x] = asked[x]
    BY <1>0, <2>1, NewRequestsAreUnasked
  <2>4. \A x \in Requests : <<x, TRUE>> \in answers => x # id
    BY <1>0, <2>3 DEF RequestsAreNumbered
  <2>5. chain # <<>> /\ Head(chain) # 0 => Head(chain) # id
    <3>1. chain # <<>> => 1 \in DOMAIN chain /\ Head(chain) = chain[1]
      BY <1>0, ShortenedChains
    <3> QED BY <2>3, <3>1, <1>0 DEF RequestsAreNumbered
  <2>6. \A x \in Requests : <<x, TRUE>> \in answers' =>
          Serves(files["primary"], x)' /\ (writer' \in Busy => Serves(archive, x)')
    BY <1>0, <2>2, <2>3, <2>4 DEF AnswersAreServed, Serves
  <2>7. session' = "playing" /\ writer' # "idle" =>
          chain' # <<>> /\ (Head(chain') # 0 => Serves(archive, Head(chain))')
    BY <1>0, <2>2, <2>3, <2>5 DEF AnswersAreServed, Serves
  <2> QED BY <2>6, <2>7 DEF AnswersAreServed, Serves
<1> QED BY <1>1, <1>2, <1>3, <1>4, <1>5, <1>6, <1>7, <1>8, <1>9, <1>10 DEF DesktopNext

-----------------------------------------------------------------------------
(* The theorems *)

LEMMA DesktopInvariantHolds ==
  DesktopSpec => []DesktopInvariant
<1>1. DesktopInvariant /\ [DesktopNext]_saves => DesktopInvariant'
  <2> SUFFICES ASSUME DesktopInvariant, [DesktopNext]_saves PROVE DesktopInvariant'
    OBVIOUS
  <2>1. CASE DesktopNext
    BY <2>1, DesktopTypesAreKept, SavesStayKept, NumbersAreKept, TicksStayAsked, AnswersStayServed
    DEF DesktopInvariant
  <2>2. CASE UNCHANGED saves
    <3>1. DesktopTypeOK' /\ SavesAreKept'
      BY <2>2 DEF DesktopInvariant, saves, DesktopTypeOK, SavesAreKept
    <3>2. RequestsAreNumbered' /\ TicksAreAsked'
      BY <2>2 DEF DesktopInvariant, saves, RequestsAreNumbered, TicksAreAsked
    <3>3. AnswersAreServed'
      BY <2>2 DEF DesktopInvariant, saves, AnswersAreServed, Serves
    <3> QED BY <3>1, <3>2, <3>3 DEF DesktopInvariant
  <2> QED BY <2>1, <2>2
<1> QED BY <1>1, DesktopStartsInvariant, PTL DEF DesktopSpec

\* Whatever stops the application or the computer, and wherever in a write, the last
\* save that was reported can be read from the save or its backup (storage.cjs, write).
THEOREM SavesStayReadable ==
  DesktopSpec => []SavedIsReadable
<1>1. DesktopInvariant => SavedIsReadable
  BY DEF DesktopInvariant, SavesAreKept, SavedIsReadable
<1> QED BY <1>1, DesktopInvariantHolds, PTL

\* A window that closes because its page answered that it saved has saved the game as
\* it was when the close was requested, or later (main.cjs, requestCheckpoint).
THEOREM ClosedGamesAreSaved ==
  DesktopSpec => []ClosedIsSaved
<1>1. DesktopInvariant => ClosedIsSaved
  BY DEF DesktopInvariant, AnswersAreServed, Serves, ClosedIsSaved
<1> QED BY <1>1, DesktopInvariantHolds, PTL

-----------------------------------------------------------------------------
(* Update checks and packets *)

\* What FoldLeft does with the next packet, in Decoding.
Decoded(c, found, p) == IF p.decodes THEN Append(found, p) ELSE found

Decodes == INSTANCE FoldLemmas WITH Op <- Decoded

PacketsOfPeers == [bytes : Int, decodes : BOOLEAN]

Answered == {"available", "current", "error"}

\* Until a check is answered it has learned nothing.
ChecksAreTrue ==
  /\ checks \in [Checks -> {"unasked", "waiting", "disabled", "rejected"} \union Answered]
  /\ DOMAIN firstWord = Checks
  /\ \A c \in Checks :
       /\ checks[c] \in {"unasked", "waiting"} => firstWord[c] = "none"
       /\ checks[c] \notin {"unasked", "waiting"} => checks[c] = firstWord[c]
       /\ checks[c] = "waiting" => c \in listeners /\ c \in timers
       /\ checks[c] \in {"unasked", "disabled"} \union Answered => c \notin listeners \union timers

OutboxFits == \A i \in DOMAIN outbox : outbox[i].bytes <= MaximumOf(outbox[i].mode)

InboxIsTrue ==
  /\ inbox \in Seq(PacketsOfPeers) /\ arrived \in Seq(PacketsOfPeers) /\ received \in Seq(PacketsOfPeers)
  /\ received \o Decoding(inbox) = Decoding(arrived)

ServicesInvariant ==
  ChecksAreTrue /\ outbox \in Seq([kind : {"input", "snapshot"}, mode : {"realtime", "reliable"}, bytes : Int]) /\ OutboxFits /\ InboxIsTrue

LEMMA DecodingIsFolded ==
  \A packets : Decoding(packets) = Decodes!Folded(0, <<>>, packets)
BY Zenon DEF Decoding, FoldLeft, Decodes!Folded, Decodes!FoldLeft, MapThenFoldSet,
   Decodes!MapThenFoldSet, Max, Decodes!Max, Decoded

LEMMA DecodingMore ==
  ASSUME NEW s \in Seq(PacketsOfPeers), NEW p \in PacketsOfPeers
  PROVE  Decoding(Append(s, p)) = IF p.decodes THEN Append(Decoding(s), p) ELSE Decoding(s)
<1>1. Decodes!Folded(0, <<>>, Append(s, p)) = Decoded(0, Decodes!Folded(0, <<>>, s), p)
  BY Decodes!FoldOfMore
<1> QED BY <1>1, DecodingIsFolded, Zenon DEF Decoded

LEMMA DecodingIsOfPackets ==
  ASSUME NEW s \in Seq(PacketsOfPeers)
  PROVE  Decoding(s) \in Seq(PacketsOfPeers)
<1>1. <<>> \in Seq(PacketsOfPeers)
  OBVIOUS
<1>2. \A found \in Seq(PacketsOfPeers), p \in PacketsOfPeers : Decoded(0, found, p) \in Seq(PacketsOfPeers)
  BY DEF Decoded
<1> DEFINE T == Seq(PacketsOfPeers)
<1> HIDE DEF T
<1>3. s \in Seq(PacketsOfPeers) /\ <<>> \in T /\ \A found \in T, p \in PacketsOfPeers : Decoded(0, found, p) \in T
  BY <1>1, <1>2 DEF T
<1>4. Decodes!Folded(0, <<>>, s) \in T
  BY <1>3, Decodes!FoldStaysIn
<1> QED BY <1>4, DecodingIsFolded DEF T

LEMMA DecodingNothing ==
  Decoding(<<>>) = <<>>
BY DecodingIsFolded, Decodes!FoldOfNothing

\* The packets of two sequences, one after the other.
LEMMA DecodingBoth ==
  ASSUME NEW s \in Seq(PacketsOfPeers), NEW t \in Seq(PacketsOfPeers)
  PROVE  Decoding(s \o t) = Decoding(s) \o Decoding(t)
<1> DEFINE Splits == {n \in Nat : \A u \in Seq(PacketsOfPeers) :
                                    Len(u) = n => Decoding(s \o u) = Decoding(s) \o Decoding(u)}
<1>1. 0 \in Splits
  <2> SUFFICES ASSUME NEW u \in Seq(PacketsOfPeers), Len(u) = 0
               PROVE  Decoding(s \o u) = Decoding(s) \o Decoding(u)
    OBVIOUS
  <2>1. u = <<>>
    OBVIOUS
  <2>2. s \o <<>> = s
    OBVIOUS
  <2>3. Decoding(s) \o <<>> = Decoding(s)
    BY DecodingIsOfPackets
  <2> QED BY <2>1, <2>2, <2>3, DecodingNothing
<1>2. ASSUME NEW n \in Nat, n \in Splits PROVE n + 1 \in Splits
  <2> SUFFICES ASSUME NEW u \in Seq(PacketsOfPeers), Len(u) = n + 1
               PROVE  Decoding(s \o u) = Decoding(s) \o Decoding(u)
    OBVIOUS
  <2>1. PICK v \in Seq(PacketsOfPeers), p \in PacketsOfPeers : u = Append(v, p) /\ Len(v) = n
    <3> DEFINE v == SubSeq(u, 1, n)
    <3>1. v \in Seq(PacketsOfPeers) /\ Len(v) = n /\ u[n + 1] \in PacketsOfPeers
      OBVIOUS
    <3>2. u = Append(v, u[n + 1])
      OBVIOUS
    <3> QED BY <3>1, <3>2
  <2>2. s \o u = Append(s \o v, p)
    BY <2>1
  <2>3. Decoding(s \o v) = Decoding(s) \o Decoding(v)
    BY <1>2, <2>1
  <2>4. s \o v \in Seq(PacketsOfPeers)
    OBVIOUS
  <2>5. CASE p.decodes
    <3>1. Decoding(u) = Append(Decoding(v), p) /\ Decoding(s \o u) = Append(Decoding(s \o v), p)
      BY <2>1, <2>2, <2>4, <2>5, DecodingMore
    <3>2. Decoding(s) \o Append(Decoding(v), p) = Append(Decoding(s) \o Decoding(v), p)
      BY DecodingIsOfPackets
    <3> QED BY <2>3, <3>1, <3>2
  <2>6. CASE ~p.decodes
    BY <2>1, <2>2, <2>3, <2>4, <2>6, DecodingMore
  <2> QED BY <2>5, <2>6
<1> HIDE DEF Splits
<1>3. Nat \subseteq Splits
  BY <1>1, <1>2, Decodes!Induction
<1> QED BY <1>3 DEF Splits

LEMMA ServicesStart ==
  ServicesInit => ServicesInvariant
<1> SUFFICES ASSUME ServicesInit PROVE ServicesInvariant
  OBVIOUS
<1>1. ChecksAreTrue
  BY DEF ServicesInit, ChecksAreTrue, Answered
<1>2. inbox = <<>> /\ arrived = <<>> /\ received = <<>> /\ outbox = <<>>
  BY DEF ServicesInit
<1>3. InboxIsTrue
  BY <1>2, DecodingNothing DEF InboxIsTrue
<1> QED BY <1>1, <1>2, <1>3 DEF ServicesInvariant, OutboxFits

LEMMA FinishKeepsChecks ==
  ASSUME ChecksAreTrue, NEW told, told \subseteq listeners \union timers,
         NEW status \in Answered, Finish(told, status)
  PROVE  ChecksAreTrue'
<1>1. /\ DOMAIN firstWord' = Checks
      /\ checks' \in [Checks -> {"unasked", "waiting", "disabled", "rejected"} \union Answered]
  BY DEF ChecksAreTrue, Finish, Told
<1>2. ASSUME NEW c \in Checks
      PROVE  /\ checks'[c] = IF c \in told /\ checks[c] = "waiting" THEN status ELSE checks[c]
             /\ firstWord'[c] = IF c \in told /\ firstWord[c] = "none" THEN status ELSE firstWord[c]
             /\ c \in listeners' <=> c \in listeners /\ c \notin told
             /\ c \in timers' <=> c \in timers /\ c \notin told
  BY DEF Finish, Told
<1>3. ASSUME NEW c \in Checks, c \in told
      PROVE  /\ checks[c] \in {"waiting", "rejected"}
             /\ checks'[c] = "rejected" \/ checks'[c] \in Answered
             /\ checks'[c] = firstWord'[c] /\ c \notin listeners' \union timers'
  BY <1>2, <1>3 DEF ChecksAreTrue, Answered
<1>4. ASSUME NEW c \in Checks, c \notin told
      PROVE  /\ checks'[c] = checks[c] /\ firstWord'[c] = firstWord[c]
             /\ c \in listeners' <=> c \in listeners
             /\ c \in timers' <=> c \in timers
  BY <1>2, <1>4
<1> QED BY <1>1, <1>3, <1>4 DEF ChecksAreTrue, Answered

LEMMA CheckKeepsChecks ==
  ASSUME ChecksAreTrue, NEW c \in Checks, CheckForUpdates(c)
  PROVE  ChecksAreTrue'
BY DEF ChecksAreTrue, CheckForUpdates, Told, Answered

LEMMA SendFits ==
  ASSUME SteamSend, ServicesInvariant
  PROVE  OutboxFits' /\ outbox' \in Seq([kind : {"input", "snapshot"}, mode : {"realtime", "reliable"}, bytes : Int])
<1>1. PICK kind \in {"input", "snapshot"}, payload \in Payloads :
       /\ payload + Envelope <= MaximumOf(ModeOf(kind))
       /\ outbox' = Append(outbox, [kind |-> kind, mode |-> ModeOf(kind), bytes |-> payload + Envelope])
  BY DEF SteamSend
<1> DEFINE P == [kind : {"input", "snapshot"}, mode : {"realtime", "reliable"}, bytes : Int]
           p == [kind |-> kind, mode |-> ModeOf(kind), bytes |-> payload + Envelope]
<1>2. p \in P /\ p.bytes <= MaximumOf(p.mode)
  BY <1>1 DEF ModeOf, Payloads, MaximumRealtime, MaximumReliable, Envelope
<1>3. outbox \in Seq(P)
  BY DEF ServicesInvariant
<1> HIDE DEF p, P
<1>4. /\ outbox' \in Seq(P) /\ DOMAIN outbox' = 1..(Len(outbox) + 1) /\ DOMAIN outbox = 1..Len(outbox)
      /\ outbox'[Len(outbox) + 1] = p /\ \A i \in DOMAIN outbox : outbox'[i] = outbox[i]
  BY <1>1, <1>2, <1>3 DEF p
<1>5. \A i \in DOMAIN outbox' : i \in DOMAIN outbox \/ i = Len(outbox) + 1
  BY <1>3, <1>4
<1> QED BY <1>2, <1>4, <1>5 DEF ServicesInvariant, OutboxFits, P

LEMMA ArrivalsStayWhole ==
  ASSUME SteamArrives, InboxIsTrue
  PROVE  InboxIsTrue'
<1>1. PICK bytes \in Int, decodes \in BOOLEAN :
        /\ inbox' = Append(inbox, [bytes |-> bytes, decodes |-> decodes])
        /\ arrived' = Append(arrived, [bytes |-> bytes, decodes |-> decodes])
  BY DEF SteamArrives, Envelope, MaximumRealtime, MaximumReliable
<1>2. PICK p \in PacketsOfPeers : inbox' = Append(inbox, p) /\ arrived' = Append(arrived, p)
  BY <1>1 DEF PacketsOfPeers
<1>3. received' = received
  BY DEF SteamArrives
<1>4. inbox' \in Seq(PacketsOfPeers) /\ arrived' \in Seq(PacketsOfPeers)
  BY <1>2 DEF InboxIsTrue
<1>5. /\ Decoding(inbox') = IF p.decodes THEN Append(Decoding(inbox), p) ELSE Decoding(inbox)
      /\ Decoding(arrived') = IF p.decodes THEN Append(Decoding(arrived), p) ELSE Decoding(arrived)
  BY <1>2, DecodingMore DEF InboxIsTrue
<1>6. received \o Append(Decoding(inbox), p) = Append(received \o Decoding(inbox), p)
  <2>1. Decoding(inbox) \in Seq(PacketsOfPeers) /\ received \in Seq(PacketsOfPeers)
    BY DecodingIsOfPackets DEF InboxIsTrue
  <2> QED BY <2>1
<1> QED BY <1>3, <1>4, <1>5, <1>6 DEF InboxIsTrue

LEMMA ReadsStayWhole ==
  ASSUME SteamRead, InboxIsTrue
  PROVE  InboxIsTrue'
<1> DEFINE p == Head(inbox)
<1>1. inbox # <<>> /\ inbox \in Seq(PacketsOfPeers) /\ received \in Seq(PacketsOfPeers)
  BY DEF SteamRead, InboxIsTrue
<1>2. /\ p \in PacketsOfPeers /\ inbox' \in Seq(PacketsOfPeers) /\ inbox' = Tail(inbox)
      /\ inbox = <<p>> \o Tail(inbox) /\ <<p>> = Append(<<>>, p) /\ <<p>> \in Seq(PacketsOfPeers)
  BY <1>1 DEF SteamRead
<1>3. received' = IF p.decodes THEN Append(received, p) ELSE received
  BY DEF SteamRead
<1>4. arrived' = arrived
  BY DEF SteamRead
<1> HIDE DEF p
<1>5. Decoding(inbox) = Decoding(<<p>>) \o Decoding(inbox')
  BY <1>2, DecodingBoth
<1>6. Decoding(<<p>>) = IF p.decodes THEN <<p>> ELSE <<>>
  <2>1. <<>> \in Seq(PacketsOfPeers)
    OBVIOUS
  <2>2. Decoding(Append(<<>>, p)) = IF p.decodes THEN Append(<<>>, p) ELSE <<>>
    BY <1>2, <2>1, DecodingMore, DecodingNothing
  <2> QED BY <1>2, <2>2
<1>7. Decoding(inbox') \in Seq(PacketsOfPeers)
  BY <1>2, DecodingIsOfPackets
<1>8. received' \in Seq(PacketsOfPeers) /\ received' \o Decoding(inbox') = received \o Decoding(inbox)
  <2>1. CASE p.decodes
    <3>1. received' = Append(received, p) /\ Decoding(inbox) = <<p>> \o Decoding(inbox')
      BY <1>3, <1>5, <1>6, <2>1
    <3>2. Append(received, p) \o Decoding(inbox') = received \o (<<p>> \o Decoding(inbox'))
      BY <1>1, <1>2, <1>7
    <3>3. Append(received, p) \in Seq(PacketsOfPeers)
      BY <1>1, <1>2
    <3> QED BY <3>1, <3>2, <3>3
  <2>2. CASE ~p.decodes
    <3>1. received' = received /\ Decoding(inbox) = <<>> \o Decoding(inbox')
      BY <1>3, <1>5, <1>6, <2>2
    <3> QED BY <1>1, <1>7, <3>1
  <2> QED BY <2>1, <2>2
<1> QED BY <1>2, <1>4, <1>8 DEF InboxIsTrue

LEMMA StepKeepsServices ==
  ASSUME ServicesInvariant, [ServicesNext]_services
  PROVE  ServicesInvariant'
<1>1. CASE UNCHANGED carrying
  <2>1. UNCHANGED <<outbox, inbox, arrived, received>>
    BY <1>1 DEF carrying
  <2>2. OutboxFits' /\ InboxIsTrue' /\ outbox' = outbox
    BY <2>1 DEF ServicesInvariant, OutboxFits, InboxIsTrue
  <2>3. ASSUME UpdaterSays PROVE ChecksAreTrue'
    <3>1. PICK status \in Answered : Finish(listeners, status)
      BY <2>3 DEF UpdaterSays, Answered
    <3> QED BY <3>1, FinishKeepsChecks DEF ServicesInvariant
  <2>4. ASSUME NEW c \in Checks, CheckForUpdates(c) PROVE ChecksAreTrue'
    BY <2>4, CheckKeepsChecks DEF ServicesInvariant
  <2>5. ASSUME NEW c \in Checks, CheckTimesOut(c) PROVE ChecksAreTrue'
    <3>1. {c} \subseteq timers /\ Finish({c}, "error") /\ "error" \in Answered
      BY <2>5 DEF CheckTimesOut, Answered
    <3> QED BY <3>1, FinishKeepsChecks DEF ServicesInvariant
  <2>6. ASSUME UNCHANGED updating PROVE ChecksAreTrue'
    BY <2>6 DEF updating, ServicesInvariant, ChecksAreTrue
  <2> QED BY <2>2, <2>3, <2>4, <2>5, <2>6 DEF ServicesInvariant, ServicesNext, services, updating
<1>2. CASE UNCHANGED updating
  <2>1. ChecksAreTrue'
    BY <1>2 DEF updating, ServicesInvariant, ChecksAreTrue
  <2>2. CASE SteamSend
    <3>1. InboxIsTrue'
      BY <2>2 DEF SteamSend, ServicesInvariant, InboxIsTrue
    <3> QED BY <2>1, <2>2, <3>1, SendFits DEF ServicesInvariant
  <2>3. CASE SteamArrives
    BY <2>1, <2>3, ArrivalsStayWhole DEF ServicesInvariant, SteamArrives, OutboxFits
  <2>4. CASE SteamRead
    BY <2>1, <2>4, ReadsStayWhole DEF ServicesInvariant, SteamRead, OutboxFits
  <2>5. CASE UNCHANGED services
    BY <2>1, <2>5 DEF services, ServicesInvariant, InboxIsTrue, OutboxFits
  <2>6. CASE UNCHANGED carrying
    BY <1>1, <2>6
  <2> QED BY <2>2, <2>3, <2>4, <2>5, <2>6 DEF ServicesNext
<1> QED BY <1>1, <1>2 DEF ServicesNext, services, updating, carrying

\* However many checks are made, whatever the updater says and however long it takes, a
\* check is answered once, with what it learned first; and whatever packets Steam has, those
\* that decode reach the game whole and in order (updates.cjs, check; steam.cjs, networkRead).
THEOREM ServicesAnswer == ServicesSpec => []ServicesAnswerOnce
<1>1. ServicesInvariant => ServicesAnswerOnce
  BY DEF ServicesInvariant, ChecksAreTrue, OutboxFits, InboxIsTrue, ServicesAnswerOnce, Answered
<1> QED BY <1>1, ServicesStart, StepKeepsServices, PTL DEF ServicesSpec

-----------------------------------------------------------------------------
(* The files of the regions *)

LEMMA NothingIsABatch == Nothing \in Batches /\ Named(Nothing) = {}
  BY DEF Nothing, Batches, Named

LEMMA SingleIsATransaction ==
  ASSUME NEW key \in Keys, NEW value \in Values
  PROVE  Single(key, value) \in Transactions /\ Named(Single(key, value)) = {key}
  BY ValuesAssumption DEF Single, Transactions, Batches, Named

LEMMA WithoutIsABatch ==
  ASSUME NEW bundle \in Batches, NEW key \in Keys
  PROVE  /\ Without(bundle, key) \in Batches
         /\ Named(Without(bundle, key)) = Named(bundle) \ {key}
         /\ \A k \in Keys : k # key => Without(bundle, key)[k] = bundle[k]
         /\ Without(bundle, key)[key] = Absent
  BY DEF Without, Batches, Named

LEMMA NamedHoldsAValue ==
  ASSUME NEW bundle \in Batches, NEW key \in Named(bundle)
  PROVE  key \in Keys /\ bundle[key] \in Values /\ Encoded(bundle[key]) \in Stored
  BY DEF Batches, Named, Encoded, Stored, Formats

LEMMA TransactionsAreBatches == Transactions \subseteq Batches
  BY DEF Transactions

(* A call always ends with its working state put back. *)
LEMMA ReturnIsWellTyped ==
  ASSUME NEW outcome \in Results, Return(outcome)
  PROVE  /\ op' \in Operations /\ pc' \in Steps /\ request' \in Batches
         /\ work' \in Batches /\ target' \in Paths /\ discarded' \in BOOLEAN
         /\ result' \in Results
  BY NothingIsABatch DEF Return, Operations, Steps, Paths

LEMMA CallIsWellTyped ==
  ASSUME NEW name \in Operations, NEW step \in Steps, NEW bundle \in Batches,
         TypeOK, Call(name, step, bundle)
  PROVE  /\ op' \in Operations /\ pc' \in Steps /\ request' \in Batches
         /\ work' \in Batches /\ discarded' \in BOOLEAN /\ result' \in Results
  BY DEF Call, TypeOK, Results

(* Every call starts well typed: only the working state of the handle changes. *)
LEMMA StartIsWellTyped == TypeOK /\ Start => TypeOK'
<1> SUFFICES ASSUME TypeOK, Start PROVE TypeOK'
  OBVIOUS
<1> USE DEF Operations, Steps
<1>1. ASSUME NEW key \in Keys, NEW value \in Values, WriteRegion(key, value)
      PROVE  TypeOK'
  <2>1. Single(key, value) \in Batches
    BY SingleIsATransaction, TransactionsAreBatches
  <2> QED BY <1>1, <2>1, CallIsWellTyped DEF WriteRegion, TypeOK, disk, Paths
<1>2. ASSUME NEW bundle \in Transactions, BeginTransaction(bundle) \/ WriteTransaction(bundle)
      PROVE  TypeOK'
  BY <1>2, CallIsWellTyped, TransactionsAreBatches
     DEF BeginTransaction, WriteTransaction, TypeOK, disk
<1>3. ASSUME CommitPendingTransaction \/ Recover PROVE TypeOK'
  BY <1>3, CallIsWellTyped, NothingIsABatch
     DEF CommitPendingTransaction, Recover, TypeOK, disk
<1>4. ASSUME NEW outcome \in Results, AnswerAtOnce(outcome) PROVE TypeOK'
  BY <1>4, ReturnIsWellTyped DEF AnswerAtOnce, TypeOK, disk
<1>5. ASSUME NEW key \in Keys, CompactRegion(key) \/ MigrateRegion(key) PROVE TypeOK'
  <2>1. ReadError(key) \in Results /\ "none" \in Results
    BY DEF ReadError, Results
  <2>2. ASSUME file[key] \in Stored, NEW name \in {"compact", "migrate"},
               Call(name, "stage", Single(key, file[key].value)),
               target' = key, UNCHANGED disk
        PROVE  TypeOK'
    <3>1. Single(key, file[key].value) \in Batches
      BY <2>2, SingleIsATransaction, TransactionsAreBatches DEF Stored
    <3> QED BY <2>2, <3>1, CallIsWellTyped DEF TypeOK, disk, Paths
  <2> QED BY <1>4, <1>5, <2>1, <2>2 DEF CompactRegion, MigrateRegion
<1> QED BY <1>1, <1>2, <1>3, <1>5 DEF Start

(* Type correctness leans on the invariant: what a rename installs is a record
   only because work names the region the call stands at. *)
LEMMA ContinueIsWellTyped == TypeOK /\ StoreInvariant /\ Continue => TypeOK'
<1> SUFFICES ASSUME TypeOK, StoreInvariant, Continue PROVE TypeOK'
  OBVIOUS
<1> USE DEF Steps, Paths
<1>1. CASE CheckJournalIsAbsent
  BY <1>1, ReturnIsWellTyped DEF CheckJournalIsAbsent, TypeOK, disk, Results
<1>2. CASE StageTemporary
  BY <1>2 DEF StageTemporary, TypeOK
<1>3. CASE SynchronizeTemporary
  BY <1>3 DEF SynchronizeTemporary, TypeOK
<1>4. CASE RenameJournal
  <2>1. work \in Transactions
    BY <1>4 DEF RenameJournal, StoreInvariant, JournalIsNew, CallsMatchSteps, Renaming
  <2>2. /\ temporary' \subseteq Paths
        /\ unflushed' \subseteq Paths
        /\ exposed' \subseteq Paths
        /\ file' = file
    BY <1>4 DEF RenameJournal, MoveTemporary, TypeOK
  <2> QED BY <1>4, <2>1, <2>2, ReturnIsWellTyped DEF RenameJournal, TypeOK, Results
<1>5. CASE RenameRegion
  <2>1. target \in Keys /\ target \in Named(work)
    BY <1>5 DEF RenameRegion, StoreInvariant, RegionCallsNameOne, AppliedSoFar, Applying,
                Renaming, RegionCalls, LoggedCalls, TypeOK
  <2>2. file' \in [Keys -> Stored \union {Absent, Torn}]
    BY <1>5, <2>1, NamedHoldsAValue DEF RenameRegion, TypeOK
  <2>3. /\ temporary' \subseteq Paths
        /\ unflushed' \subseteq Paths
        /\ exposed' \subseteq Paths
        /\ journal' = journal
    BY <1>5 DEF RenameRegion, MoveTemporary, TypeOK
  <2>4. CASE op \in {"write", "compact", "migrate"}
    BY <1>5, <2>2, <2>3, <2>4, ReturnIsWellTyped DEF RenameRegion, TypeOK, Results
  <2>5. CASE op \in {"transaction", "commit", "recover"}
    BY <1>5, <2>1, <2>2, <2>3, <2>5, WithoutIsABatch DEF RenameRegion, TypeOK
  <2> QED BY <1>5, <2>4, <2>5 DEF RenameRegion
<1>6. CASE LoadJournal
  BY <1>6, ReturnIsWellTyped, TransactionsAreBatches DEF LoadJournal, TypeOK, disk, Results
<1>7. CASE EraseJournal
  BY <1>7, ReturnIsWellTyped DEF EraseJournal, TypeOK, Results
<1>8. CASE ScanTemporary
  BY <1>8 DEF ScanTemporary, TypeOK
<1>9. CASE ProbeJournal
  BY <1>9, ReturnIsWellTyped DEF ProbeJournal, NoJournalFound, TypeOK, disk, Results
<1> QED BY <1>1, <1>2, <1>3, <1>4, <1>5, <1>6, <1>7, <1>8, <1>9 DEF Continue

LEMMA FaultIsWellTyped == TypeOK /\ Fault => TypeOK'
<1> SUFFICES ASSUME TypeOK, Fault PROVE TypeOK'
  OBVIOUS
<1> USE DEF Steps, Paths, Results
<1>1. CASE SystemCallFails
  BY <1>1, ReturnIsWellTyped DEF SystemCallFails, TypeOK
<1>2. CASE ExistsFails
  BY <1>2, ReturnIsWellTyped DEF ExistsFails, NoJournalFound, TypeOK, disk
<1>3. CASE Crash
  BY <1>3, ReturnIsWellTyped DEF Crash, TypeOK
<1> QED BY <1>1, <1>2, <1>3 DEF Fault

-----------------------------------------------------------------------------
(* The invariant.                                                          *)

(* A handle at rest satisfies everything the invariant says of calls. *)
LEMMA RestSatisfiesTheInvariant ==
  ASSUME op = "none", pc = "idle", target = Journal, Synchronises => exposed = {}
  PROVE  StoreInvariant
  BY DEF StoreInvariant, CallsMatchSteps, JournalIsNew, RegionCallsNameOne, AppliedSoFar,
         Applying, LoggedIsRequested, LeftoverIsCleared, BytesAreSynchronised, Renaming, RegionCalls, LoggedCalls

LEMMA ReturnRestores ==
  ASSUME NEW outcome, Return(outcome), Synchronises => exposed' = {}
  PROVE  StoreInvariant'
  BY DEF Return, StoreInvariant, CallsMatchSteps, JournalIsNew, RegionCallsNameOne,
         AppliedSoFar, Applying, LoggedIsRequested, LeftoverIsCleared, BytesAreSynchronised, Renaming,
         RegionCalls, LoggedCalls

LEMMA StartKeepsTheInvariant == TypeOK /\ StoreInvariant /\ Start => StoreInvariant'
<1> SUFFICES ASSUME TypeOK, StoreInvariant, Start PROVE StoreInvariant'
  OBVIOUS
<1> USE DEF StoreInvariant, CallsMatchSteps, JournalIsNew, RegionCallsNameOne, AppliedSoFar,
            Applying, LoggedIsRequested, LeftoverIsCleared, BytesAreSynchronised, Renaming, RegionCalls,
            LoggedCalls, Call, disk
<1>1. ASSUME NEW key \in Keys, NEW value \in Values, WriteRegion(key, value)
      PROVE  StoreInvariant'
  <2>1. Named(Single(key, value)) = {key} /\ key # Journal
    BY SingleIsATransaction, KeysAssumption
  <2> QED BY <1>1, <2>1 DEF WriteRegion, Named
<1>2. ASSUME NEW bundle \in Transactions, BeginTransaction(bundle) \/ WriteTransaction(bundle)
      PROVE  StoreInvariant'
  BY <1>2 DEF BeginTransaction, WriteTransaction, TypeOK
<1>3. ASSUME CommitPendingTransaction \/ Recover PROVE StoreInvariant'
  BY <1>3, NothingIsABatch DEF CommitPendingTransaction, Recover, Named
<1>4. ASSUME NEW outcome, AnswerAtOnce(outcome) PROVE StoreInvariant'
  BY <1>4, ReturnRestores DEF AnswerAtOnce
<1>5. ASSUME NEW key \in Keys, CompactRegion(key) \/ MigrateRegion(key)
      PROVE  StoreInvariant'
  <2>1. ASSUME file[key] \in Stored, NEW name \in {"compact", "migrate"},
               Call(name, "stage", Single(key, file[key].value)),
               target' = key, UNCHANGED disk
        PROVE  StoreInvariant'
    <3>1. file[key].value \in Values
      BY <2>1 DEF Stored
    <3>2. /\ Named(Single(key, file[key].value)) = {key} 
          /\ Single(key, file[key].value)[key] = file[key].value
          /\ key # Journal
      BY <3>1, SingleIsATransaction, KeysAssumption DEF Single
    <3> QED BY <2>1, <3>2 DEF Named
  <2> QED BY <1>4, <1>5, <2>1 DEF CompactRegion, MigrateRegion
<1> QED BY <1>1, <1>2, <1>3, <1>5 DEF Start

LEMMA ContinueKeepsTheInvariant == TypeOK /\ StoreInvariant /\ Continue => StoreInvariant'
<1> SUFFICES ASSUME TypeOK, StoreInvariant, Continue PROVE StoreInvariant'
  OBVIOUS
<1> USE DEF StoreInvariant, CallsMatchSteps, JournalIsNew, RegionCallsNameOne, AppliedSoFar,
            Applying, LoggedIsRequested, LeftoverIsCleared, BytesAreSynchronised, Renaming, RegionCalls,
            LoggedCalls, disk
<1>1. CASE CheckJournalIsAbsent
  BY <1>1, ReturnRestores DEF CheckJournalIsAbsent, TypeOK
<1>2. CASE StageTemporary
  BY <1>2 DEF StageTemporary, Named
<1>3. CASE SynchronizeTemporary
  BY <1>3 DEF SynchronizeTemporary, Named
<1>4. CASE RenameJournal
  <2>1. Synchronises => exposed' = {}
    BY <1>4 DEF RenameJournal, MoveTemporary
  <2>2. CASE op = "begin"
    BY <1>4, <2>1, <2>2, ReturnRestores DEF RenameJournal
  <2>3. CASE op = "transaction"
    BY <1>4, <2>1, <2>3 DEF RenameJournal
  <2> QED BY <1>4, <2>2, <2>3 DEF RenameJournal
<1>5. CASE RenameRegion
  <2>1. Synchronises => exposed' = {}
    BY <1>5 DEF RenameRegion, MoveTemporary
  <2>2. CASE op \in {"write", "compact", "migrate"}
    BY <1>5, <2>1, <2>2, ReturnRestores DEF RenameRegion
  <2>3. CASE op \in {"transaction", "commit", "recover"}
    <3>1. /\ Applying
          /\ target \in Named(work) /\ target \in Keys
          /\ work' = Without(work, target)
          /\ file' = [file EXCEPT ![target] = Encoded(work[target])]
          /\ UNCHANGED <<journal, op, request>>
      BY <1>5, <2>3 DEF RenameRegion, TypeOK, Paths
    <3>2. work \in Batches /\ file \in [Keys -> Stored \union {Absent, Torn}]
      BY DEF TypeOK
    <3>3. /\ Named(work') = Named(work) \ {target}
          /\ \A k \in Keys : k # target => work'[k] = work[k]
          /\ work'[target] = Absent
      BY <3>1, <3>2, WithoutIsABatch
    <3>4. \A k \in Keys : work'[k] \in {journal'[k], Absent}
      BY <3>1, <3>3
    <3>5. work[target] = journal[target]
      BY <3>1 DEF Named
    <3>6. \A k \in Named(journal') \ Named(work') : file'[k] = Encoded(journal'[k])
      BY <3>1, <3>2, <3>3, <3>5 DEF Named
    <3>7. \/ pc' = "erase" /\ Named(work') = {} /\ target' = target
          \/ pc' = "stage" /\ target' \in Named(work') /\ target' \in Keys
      BY <1>5, <2>3 DEF RenameRegion, IsFirst, Named
    <3>8. target' # Journal
      BY <3>1, <3>7, KeysAssumption
    <3>9. journal' \in Transactions /\ (op' = "transaction" => journal' = request')
      BY <3>1
    <3>10. temporary' \subseteq temporary
      BY <1>5 DEF RenameRegion, MoveTemporary
    <3> QED BY <1>5, <2>1, <2>3, <3>1, <3>4, <3>6, <3>7, <3>8, <3>9, <3>10 DEF RenameRegion
  <2> QED BY <1>5, <2>2, <2>3 DEF RenameRegion
<1>6. CASE LoadJournal
  <2>1. CASE journal \in {Absent, Torn}
    BY <1>6, <2>1, ReturnRestores, StoredAssumption, TransactionsAreBatches DEF LoadJournal
  <2>2. CASE journal \in Transactions
    <3>1. /\ work' = journal
          /\ target' \in Named(journal) /\ target' \in Keys /\ target' # Journal
          /\ pc' = "stage"
          /\ UNCHANGED <<journal, file, op, request, exposed, unflushed>>
      BY <1>6, <2>2, StoredAssumption, TransactionsAreBatches, KeysAssumption
         DEF LoadJournal, IsFirst
    <3> QED BY <1>6, <2>2, <3>1 DEF LoadJournal, Named
  <2> QED BY <2>1, <2>2 DEF TypeOK
<1>7. CASE EraseJournal
  BY <1>7, ReturnRestores DEF EraseJournal
<1>8. CASE ScanTemporary
  BY <1>8 DEF ScanTemporary
<1>9. CASE ProbeJournal
  BY <1>9, ReturnRestores DEF ProbeJournal, NoJournalFound
<1> QED BY <1>1, <1>2, <1>3, <1>4, <1>5, <1>6, <1>7, <1>8, <1>9 DEF Continue

LEMMA FaultKeepsTheInvariant == TypeOK /\ StoreInvariant /\ Fault => StoreInvariant'
<1> SUFFICES ASSUME TypeOK, StoreInvariant, Fault PROVE StoreInvariant'
  OBVIOUS
<1> USE DEF StoreInvariant, BytesAreSynchronised, disk
<1>1. CASE SystemCallFails
  BY <1>1, ReturnRestores DEF SystemCallFails
<1>2. CASE ExistsFails
  BY <1>2, ReturnRestores DEF ExistsFails, NoJournalFound
<1>3. CASE Crash
  BY <1>3, ReturnRestores DEF Crash
<1> QED BY <1>1, <1>2, <1>3 DEF Fault

LEMMA InitSatisfiesTheInvariant == Init => TypeOK /\ StoreInvariant
<1> SUFFICES ASSUME Init PROVE TypeOK /\ StoreInvariant
  OBVIOUS
<1>1. TypeOK
  BY NothingIsABatch DEF Init, TypeOK, Operations, Steps, Results, Paths
<1>2. StoreInvariant
  BY RestSatisfiesTheInvariant DEF Init
<1> QED BY <1>1, <1>2

LEMMA NextKeepsTheInvariant ==
  TypeOK /\ StoreInvariant /\ [Next]_vars => TypeOK' /\ StoreInvariant'
<1> SUFFICES ASSUME TypeOK, StoreInvariant, [Next]_vars PROVE TypeOK' /\ StoreInvariant'
  OBVIOUS
<1>1. CASE Start
  BY <1>1, StartIsWellTyped, StartKeepsTheInvariant
<1>2. CASE Continue
  BY <1>2, ContinueIsWellTyped, ContinueKeepsTheInvariant
<1>3. CASE Fault
  BY <1>3, FaultIsWellTyped, FaultKeepsTheInvariant
<1>4. CASE UNCHANGED vars
  BY <1>4 DEF vars, TypeOK, StoreInvariant, CallsMatchSteps, JournalIsNew,
              RegionCallsNameOne, AppliedSoFar, Applying, LoggedIsRequested,
              LeftoverIsCleared, BytesAreSynchronised, Named
<1> QED BY <1>1, <1>2, <1>3, <1>4 DEF Next

(* Every reachable state is well typed, wherever crashes and errors fall. *)
THEOREM TypeCorrect == Spec => []TypeOK
<1>1. Init => TypeOK /\ StoreInvariant
  BY InitSatisfiesTheInvariant
<1>2. TypeOK /\ StoreInvariant /\ [Next]_vars => TypeOK' /\ StoreInvariant'
  BY NextKeepsTheInvariant
<1> QED BY <1>1, <1>2, PTL DEF Spec

(* The step a call has reached tells what the journal and the files hold. *)
THEOREM StoreInvariantHolds == Spec => []StoreInvariant
<1>1. Init => TypeOK /\ StoreInvariant
  BY InitSatisfiesTheInvariant
<1>2. TypeOK /\ StoreInvariant /\ [Next]_vars => TypeOK' /\ StoreInvariant'
  BY NextKeepsTheInvariant
<1> QED BY <1>1, <1>2, PTL DEF Spec

-----------------------------------------------------------------------------
(* What follows from it, step by step.                                     *)

(* With fsync before each rename, a crash finds nothing left to tear. *)
LEMMA NothingIsExposed ==
  ASSUME Synchronises, StoreInvariant
  PROVE  exposed = {}
  BY DEF StoreInvariant, BytesAreSynchronised

(* The only steps that change a region file or the journal. *)
LEMMA WhoWritesFiles ==
  ASSUME Synchronises, TypeOK, StoreInvariant, [Next]_vars
  PROVE  \/ RenameRegion
         \/ RenameJournal
         \/ EraseJournal
         \/ UNCHANGED <<file, journal>>
<1>1. CASE Start
  BY <1>1 DEF Start, WriteRegion, BeginTransaction, WriteTransaction,
              CommitPendingTransaction, Recover, CompactRegion, MigrateRegion,
              AnswerAtOnce, disk
<1>2. CASE Continue
  BY <1>2 DEF Continue, CheckJournalIsAbsent, StageTemporary, SynchronizeTemporary,
              LoadJournal, ScanTemporary, ProbeJournal, disk
<1>3. CASE SystemCallFails \/ ExistsFails
  BY <1>3 DEF SystemCallFails, ExistsFails, disk
<1>4. CASE Crash
  <2>1. file' = [k \in Keys |-> file[k]] /\ journal' = journal
    BY <1>4, NothingIsExposed DEF Crash
  <2> QED BY <2>1 DEF TypeOK
<1>5. CASE UNCHANGED vars
  BY <1>5 DEF vars
<1> QED BY <1>1, <1>2, <1>3, <1>4, <1>5 DEF Next, Fault

(* What a region rename installs. *)
LEMMA RenameRegionInstalls ==
  ASSUME TypeOK, StoreInvariant, RenameRegion
  PROVE  /\ target \in Keys /\ target \in Named(work) /\ work[target] \in Values
         /\ file' = [file EXCEPT ![target] = Encoded(work[target])]
         /\ journal' = journal
         /\ Encoded(work[target]) \in Stored
<1>1. target \in Keys /\ target \in Named(work)
  BY DEF RenameRegion, StoreInvariant, RegionCallsNameOne, AppliedSoFar, Applying,
         Renaming, RegionCalls, LoggedCalls, TypeOK, Paths
<1> QED BY <1>1, NamedHoldsAValue DEF RenameRegion, TypeOK

(* The journal is erased only after every region it names was written. *)
LEMMA EraseFindsItApplied ==
  ASSUME TypeOK, StoreInvariant, EraseJournal
  PROVE  /\ journal \in Transactions
         /\ journal' = Absent
         /\ file' = file
         /\ \A k \in Named(journal) : file[k] = Encoded(journal[k])
  BY DEF EraseJournal, StoreInvariant, CallsMatchSteps, AppliedSoFar, Applying, Renaming,
         LoggedCalls

(* A journal is only ever renamed into place where there is none. *)
LEMMA RenameJournalCommits ==
  ASSUME TypeOK, StoreInvariant, RenameJournal
  PROVE  /\ journal = Absent
         /\ journal' = request
         /\ request \in Transactions
         /\ file' = file
         /\ op \in {"begin", "transaction"}
         /\ target = Journal
         /\ pc = "rename"
  BY DEF RenameJournal, StoreInvariant, CallsMatchSteps, JournalIsNew, Renaming

(* No fault and no call makes a readable file unreadable (on platforms with fsync). *)
THEOREM FilesNeverTear == Synchronises => (Spec => NeverTears)
<1> SUFFICES ASSUME Synchronises PROVE Spec => NeverTears
  OBVIOUS
<1>1. ASSUME TypeOK, StoreInvariant, [Next]_vars
      PROVE  /\ \A k \in Keys : file'[k] = Torn => file[k] = Torn
             /\ journal' = Torn => journal = Torn
  <2>1. CASE RenameRegion
    BY <1>1, <2>1, RenameRegionInstalls, StoredAssumption DEF TypeOK
  <2>2. CASE RenameJournal
    BY <1>1, <2>2, RenameJournalCommits, TransactionsAreBatches, StoredAssumption
  <2>3. CASE EraseJournal
    BY <1>1, <2>3, EraseFindsItApplied, ValuesAssumption
  <2> QED BY <1>1, <2>1, <2>2, <2>3, WhoWritesFiles
<1>2. TypeOK /\ StoreInvariant /\ [Next]_vars =>
        [/\ \A k \in Keys : file'[k] = Torn => file[k] = Torn
         /\ journal' = Torn => journal = Torn]_vars
  BY <1>1
<1> QED BY <1>2, TypeCorrect, StoreInvariantHolds, PTL DEF Spec, NeverTears

(* A logged intent survives everything but its own completion. *)
THEOREM LoggedIntentsSurvive == Synchronises => (Spec => IntentOutlivesFaults)
<1> SUFFICES ASSUME Synchronises PROVE Spec => IntentOutlivesFaults
  OBVIOUS
<1>1. ASSUME TypeOK, StoreInvariant, [Next]_vars,
             journal \in Transactions, journal' # journal
      PROVE  /\ journal' = Absent
             /\ \A k \in Named(journal) : file[k] = Encoded(journal[k])
  <2>1. CASE RenameJournal
    BY <1>1, <2>1, RenameJournalCommits, TransactionsAreBatches, StoredAssumption
  <2>2. CASE EraseJournal
    BY <1>1, <2>2, EraseFindsItApplied
  <2>3. CASE RenameRegion
    BY <1>1, <2>3, RenameRegionInstalls
  <2> QED BY <1>1, <2>1, <2>2, <2>3, WhoWritesFiles
<1>2. TypeOK /\ StoreInvariant /\ [Next]_vars =>
        [(journal \in Transactions /\ journal' # journal) =>
           /\ journal' = Absent
           /\ \A k \in Named(journal) : file[k] = Encoded(journal[k])]_vars
  BY <1>1
<1> QED BY <1>2, TypeCorrect, StoreInvariantHolds, PTL DEF Spec, IntentOutlivesFaults

(* "none" is never answered for regions that are not stored. *)
THEOREM AcknowledgementsAreStored == Spec => AcknowledgedIsStored
<1>1. ASSUME TypeOK, StoreInvariant, [Next]_vars,
             op # "none", op' = "none", result' = "none"
      PROVE  /\ op = "begin" => journal' = request
             /\ op # "begin" => \A k \in Named(request) : file'[k] = Encoded(request[k])
             /\ op = "transaction" => journal' = Absent
  <2>1. CASE RenameJournal
    BY <1>1, <2>1, RenameJournalCommits DEF RenameJournal
  <2>2. CASE RenameRegion
    <3>1. op \in {"write", "compact", "migrate"}
      BY <1>1, <2>2 DEF RenameRegion
    <3>2. work = request /\ Named(request) = {target}
      BY <1>1, <2>2, <3>1 DEF RenameRegion, StoreInvariant, RegionCallsNameOne, Renaming,
                              RegionCalls
    <3> QED BY <1>1, <2>2, <3>1, <3>2, RenameRegionInstalls DEF TypeOK
  <2>3. CASE EraseJournal
    <3>1. op \in LoggedCalls /\ pc = "erase" /\ Applying
      BY <1>1, <2>3 DEF EraseJournal, StoreInvariant, CallsMatchSteps, Applying
    <3>2. op = "transaction" => journal = request
      BY <1>1, <3>1 DEF StoreInvariant, LoggedIsRequested
    <3>3. op # "transaction" => Named(request) = {}
      BY <1>1, <3>1 DEF StoreInvariant, CallsMatchSteps, LoggedCalls
    <3> QED BY <1>1, <2>3, <3>1, <3>2, <3>3, EraseFindsItApplied DEF LoggedCalls
  <2>4. CASE ProbeJournal \/ ExistsFails
    <3>1. op = "recover" /\ Named(request) = {}
      BY <1>1, <2>4 DEF ProbeJournal, ExistsFails, Return, StoreInvariant, CallsMatchSteps
    <3> QED BY <3>1
  <2>5. CASE \/ Start \/ CheckJournalIsAbsent \/ StageTemporary \/ SynchronizeTemporary
             \/ LoadJournal \/ ScanTemporary
    BY <1>1, <2>5 DEF Start, WriteRegion, BeginTransaction, WriteTransaction,
         CommitPendingTransaction, Recover, CompactRegion, MigrateRegion, AnswerAtOnce,
         Call, CheckJournalIsAbsent, StageTemporary, SynchronizeTemporary, LoadJournal,
         ScanTemporary, Return
  <2>6. CASE SystemCallFails \/ Crash \/ UNCHANGED vars
    BY <1>1, <2>6 DEF SystemCallFails, Crash, Return, vars
  <2> QED BY <1>1, <2>1, <2>2, <2>3, <2>4, <2>5, <2>6 DEF Next, Continue, Fault
<1>2. TypeOK /\ StoreInvariant /\ [Next]_vars =>
        [op # "none" /\ op' = "none" /\ result' = "none" =>
           /\ op = "begin" => journal' = request
           /\ op # "begin" => \A k \in Named(request) : file'[k] = Encoded(request[k])
           /\ op = "transaction" => journal' = Absent]_vars
  BY <1>1
<1> QED BY <1>2, TypeCorrect, StoreInvariantHolds, PTL DEF Spec, AcknowledgedIsStored

(* As long as exists() gives true answers, a recover that reports success leaves
   neither a journal nor its temporary. *)
THEOREM RecoveryLeavesNothing == ~StatFailures => (Spec => RecoverySettles)
<1> SUFFICES ASSUME ~StatFailures PROVE Spec => RecoverySettles
  OBVIOUS
<1>1. ASSUME TypeOK, StoreInvariant, [Next]_vars, op = "recover", op' = "none",
             result' \in {"none", "journal_incomplete"}
      PROVE  journal' = Absent /\ Journal \notin temporary'
  <2>1. CASE EraseJournal \/ ProbeJournal
    BY <1>1, <2>1 DEF EraseJournal, ProbeJournal, NoJournalFound, Return, StoreInvariant,
                      LeftoverIsCleared, disk
  <2>2. CASE \/ Start \/ CheckJournalIsAbsent \/ StageTemporary \/ SynchronizeTemporary
             \/ RenameJournal \/ RenameRegion \/ LoadJournal \/ ScanTemporary
    BY <1>1, <2>2 DEF Start, WriteRegion, BeginTransaction, WriteTransaction,
         CommitPendingTransaction, Recover, CompactRegion, MigrateRegion, AnswerAtOnce,
         Call, CheckJournalIsAbsent, StageTemporary, SynchronizeTemporary, RenameJournal,
         RenameRegion, LoadJournal, ScanTemporary, Return, StoreInvariant, CallsMatchSteps
  <2>3. CASE Fault \/ UNCHANGED vars
    BY <1>1, <2>3 DEF Fault, SystemCallFails, ExistsFails, Crash, Return, vars
  <2> QED BY <1>1, <2>1, <2>2, <2>3 DEF Next, Continue
<1>2. TypeOK /\ StoreInvariant /\ [Next]_vars =>
        [op = "recover" /\ op' = "none" /\ result' \in {"none", "journal_incomplete"} =>
           journal' = Absent /\ Journal \notin temporary']_vars
  BY <1>1
<1> QED BY <1>2, TypeCorrect, StoreInvariantHolds, PTL DEF Spec, RecoverySettles

-----------------------------------------------------------------------------
(* The refinement: a directory and its journal implement AtomicRegions.    *)

LEMMA WorldIsWellTyped ==
  ASSUME TypeOK
  PROVE  World \in [Keys -> Values \union {Absent, Torn}]
<1>1. ASSUME NEW k \in Keys, journal \in Transactions, k \in Named(journal)
      PROVE  journal[k] \in Values
  BY <1>1, NamedHoldsAValue, TransactionsAreBatches
<1>2. ASSUME NEW k \in Keys, file[k] \in Stored
      PROVE  file[k].value \in Values
  BY <1>2 DEF Stored
<1> QED BY <1>1, <1>2 DEF World, TypeOK

LEMMA WorldDependsOnFiles ==
  ASSUME UNCHANGED <<file, journal>>
  PROVE  World' = World
  BY DEF World

LEMMA NothingAskedAtRest ==
  ASSUME op' = "none"
  PROVE  Asked' = Absent
  BY DEF Asked

(* A step that leaves the files alone and ends a call drops the request, if any. *)
LEMMA EndingIsDropping ==
  ASSUME UNCHANGED <<file, journal>>, op' = "none"
  PROVE  [Abstract!Next]_(Abstract!vars)
  BY WorldDependsOnFiles, NothingAskedAtRest DEF Abstract!Next, Abstract!Drop, Abstract!vars

LEMMA InitRefines == Init => Abstract!Init
<1> SUFFICES ASSUME Init PROVE Abstract!Init
  OBVIOUS
<1>1. TypeOK
  BY InitSatisfiesTheInvariant
<1> QED BY <1>1, WorldIsWellTyped, NothingAskedAtRest DEF Init, Abstract!Init, Asked

LEMMA StartRefines ==
  ASSUME TypeOK, StoreInvariant, Start
  PROVE  [Abstract!Next]_(Abstract!vars)
<1>1. UNCHANGED <<file, journal>> /\ World' = World
  BY WorldDependsOnFiles
     DEF Start, WriteRegion, BeginTransaction, WriteTransaction, CommitPendingTransaction,
         Recover, CompactRegion, MigrateRegion, AnswerAtOnce, disk
<1>2. Asked = Absent /\ target = Journal
  BY DEF Start, WriteRegion, BeginTransaction, WriteTransaction, CommitPendingTransaction,
         Recover, CompactRegion, MigrateRegion, AnswerAtOnce, Call, Asked, StoreInvariant,
         CallsMatchSteps
<1>3. ASSUME NEW key \in Keys, NEW value \in Values, WriteRegion(key, value)
      PROVE  [Abstract!Next]_(Abstract!vars)
  <2>1. Asked' \in {Single(key, value), Absent}
    BY <1>3 DEF WriteRegion, Call, Asked
  <2>2. Single(key, value) \in Abstract!Transactions
    BY SingleIsATransaction DEF Transactions, Batches, Named, Abstract!Transactions,
                                Abstract!Batches, Abstract!Named
  <2> QED BY <1>1, <1>2, <2>1, <2>2 DEF Abstract!Next, Abstract!Ask, Abstract!vars
<1>4. ASSUME NEW bundle \in Transactions, BeginTransaction(bundle) \/ WriteTransaction(bundle)
      PROVE  [Abstract!Next]_(Abstract!vars)
  <2>1. Asked' = bundle
    BY <1>2, <1>4 DEF BeginTransaction, WriteTransaction, Call, Asked
  <2>2. bundle \in Abstract!Transactions
    BY <1>4 DEF Transactions, Batches, Named, Abstract!Transactions, Abstract!Batches,
                Abstract!Named
  <2> QED BY <1>1, <1>2, <2>1, <2>2 DEF Abstract!Next, Abstract!Ask, Abstract!vars
<1>5. ASSUME op' \in {"none", "compact", "migrate", "commit", "recover"}
      PROVE  [Abstract!Next]_(Abstract!vars)
  BY <1>1, <1>2, <1>5 DEF Asked, Abstract!vars
<1> QED BY <1>3, <1>4, <1>5 DEF Start, CommitPendingTransaction, Recover, CompactRegion,
                                MigrateRegion, AnswerAtOnce, Call, Return

LEMMA RenameJournalRefines ==
  ASSUME TypeOK, StoreInvariant, RenameJournal
  PROVE  [Abstract!Next]_(Abstract!vars)
<1>1. /\ journal = Absent /\ journal' = request /\ request \in Transactions
      /\ file' = file /\ op \in {"begin", "transaction"}
      /\ target = Journal /\ pc = "rename"
  BY RenameJournalCommits
<1>2. Asked = request /\ Asked # Absent
  BY <1>1, TransactionsAreBatches, StoredAssumption DEF Asked, Renaming
<1>3. Asked' = Absent
  BY <1>1 DEF RenameJournal, Return, Asked, Renaming
<1>4. journal \notin Transactions
  BY <1>1, TransactionsAreBatches, StoredAssumption
<1>5. World' = Abstract!Overlay(request, World)
  BY <1>1, <1>4 DEF World, Abstract!Overlay, Abstract!Named, Named
<1> QED BY <1>2, <1>3, <1>5 DEF Abstract!Next, Abstract!Apply

LEMMA RenameRegionRefines ==
  ASSUME TypeOK, StoreInvariant, RenameRegion
  PROVE  [Abstract!Next]_(Abstract!vars)
<1>1. /\ target \in Keys /\ target \in Named(work) /\ work[target] \in Values
      /\ file' = [file EXCEPT ![target] = Encoded(work[target])]
      /\ journal' = journal /\ Encoded(work[target]) \in Stored
      /\ target # Journal
  BY RenameRegionInstalls, KeysAssumption
<1>2. pc = "rename"
  BY DEF RenameRegion
<1>3. \A k \in Keys : World'[k] =
        IF k = target /\ ~(journal \in Transactions /\ k \in Named(journal))
        THEN work[target] ELSE World[k]
  BY <1>1 DEF World, Encoded, TypeOK, Named
<1>4. World' = [k \in Keys |-> World'[k]] /\ World = [k \in Keys |-> World[k]]
  BY DEF World
<1>5. CASE op \in {"compact", "migrate"}
  <2>1. file[target] \in Stored /\ file[target].value = work[target]
    BY <1>2, <1>5 DEF StoreInvariant, RegionCallsNameOne, Renaming, RegionCalls
  <2>2. World' = World
    BY <1>1, <1>3, <1>4, <2>1 DEF World
  <2> QED BY <1>5, <2>2, NothingAskedAtRest DEF RenameRegion, Return, Asked, Abstract!vars
<1>6. CASE op = "write"
  <2>1. work = request /\ Named(request) = {target}
    BY <1>2, <1>6 DEF StoreInvariant, RegionCallsNameOne, Renaming, RegionCalls
  <2>2. op' = "none" /\ Asked' = Absent
    BY <1>6, NothingAskedAtRest DEF RenameRegion, Return
  <2>3. CASE Superseded
    <3>1. Asked = Absent
      BY <1>6, <2>3 DEF Asked
    <3>2. World' = World
      BY <1>3, <1>4, <2>1, <2>3 DEF Superseded
    <3> QED BY <2>2, <3>1, <3>2 DEF Abstract!vars
  <2>4. CASE ~Superseded
    <3>1. Asked = request /\ Asked # Absent
      BY <1>6, <2>4, StoredAssumption DEF Asked, TypeOK
    <3>2. World' = Abstract!Overlay(request, World)
      BY <1>1, <1>3, <1>4, <2>1, <2>4
         DEF Superseded, Named, Abstract!Overlay, Abstract!Named
    <3> QED BY <2>2, <3>1, <3>2 DEF Abstract!Next, Abstract!Apply
  <2> QED BY <2>3, <2>4
<1>7. CASE op \in {"transaction", "commit", "recover"}
  <2>1. journal \in Transactions /\ work[target] \in {journal[target], Absent}
    BY <1>1, <1>2, <1>7 DEF StoreInvariant, AppliedSoFar, Applying, Renaming, LoggedCalls
  <2>2. target \in Named(journal)
    BY <1>1, <2>1 DEF Named
  <2>3. World' = World
    BY <1>3, <1>4, <2>1, <2>2
  <2>4. op' = op /\ target' # Journal
    BY <1>1, <1>7, KeysAssumption DEF RenameRegion
  <2> QED BY <1>1, <1>7, <2>3, <2>4 DEF Asked, Abstract!vars
<1> QED BY <1>5, <1>6, <1>7 DEF RenameRegion

LEMMA EraseJournalRefines ==
  ASSUME TypeOK, StoreInvariant, EraseJournal
  PROVE  [Abstract!Next]_(Abstract!vars)
<1>1. /\ journal \in Transactions /\ journal' = Absent /\ file' = file
      /\ \A k \in Named(journal) : file[k] = Encoded(journal[k])
  BY EraseFindsItApplied
<1>2. journal' \notin Transactions
  BY <1>1, TransactionsAreBatches, StoredAssumption
<1>3. ASSUME NEW k \in Named(journal)
      PROVE  file[k] \in Stored /\ file[k].value = journal[k]
  <2>1. Encoded(journal[k]) \in Stored
    BY <1>1, NamedHoldsAValue, TransactionsAreBatches
  <2> QED BY <1>1, <2>1 DEF Encoded
<1>4. World' = World
  BY <1>1, <1>2, <1>3 DEF World
<1>5. op \in LoggedCalls /\ target # Journal /\ pc = "erase"
  BY DEF EraseJournal, StoreInvariant, CallsMatchSteps
<1> QED BY <1>4, <1>5, NothingAskedAtRest DEF EraseJournal, Return, Asked, LoggedCalls,
                                              Abstract!vars

(* The steps between commit points change neither the world nor the request. *)
LEMMA QuietStepsRefine ==
  ASSUME TypeOK, StoreInvariant,
         \/ CheckJournalIsAbsent \/ StageTemporary \/ SynchronizeTemporary
         \/ LoadJournal \/ ScanTemporary \/ ProbeJournal
  PROVE  [Abstract!Next]_(Abstract!vars)
<1>1. UNCHANGED <<file, journal>> /\ World' = World
  BY WorldDependsOnFiles DEF CheckJournalIsAbsent, StageTemporary, SynchronizeTemporary,
                             LoadJournal, ScanTemporary, ProbeJournal, disk
<1>2. CASE op' = "none"
  BY <1>1, <1>2, EndingIsDropping
<1>3. CASE op' # "none"
  <2>1. op' = op /\ request' = request
    BY <1>3 DEF CheckJournalIsAbsent, StageTemporary, SynchronizeTemporary, LoadJournal,
                ScanTemporary, ProbeJournal, NoJournalFound, Return
  <2>2. CASE CheckJournalIsAbsent
    BY <1>1, <1>3, <2>1, <2>2
       DEF CheckJournalIsAbsent, Return, Asked, Superseded, Renaming, StoreInvariant,
           CallsMatchSteps, Abstract!vars
  <2>3. CASE StageTemporary \/ SynchronizeTemporary
    BY <1>1, <2>1, <2>3 DEF StageTemporary, SynchronizeTemporary, Asked, Superseded, Renaming,
                            Abstract!vars
  <2>4. CASE LoadJournal
    <3>1. pc = "load" /\ op \in LoggedCalls /\ target' # Journal
      BY <1>3, <2>4, KeysAssumption DEF LoadJournal, Return, StoreInvariant, CallsMatchSteps
    <3> QED BY <1>1, <2>1, <3>1 DEF Asked, Renaming, LoggedCalls, Abstract!vars
  <2>5. CASE ScanTemporary \/ ProbeJournal
    BY <1>1, <2>1, <2>5 DEF ScanTemporary, ProbeJournal, StoreInvariant, CallsMatchSteps,
                            Asked, Abstract!vars
  <2> QED BY <2>2, <2>3, <2>4, <2>5
<1> QED BY <1>2, <1>3

LEMMA FaultsRefine ==
  ASSUME Synchronises, TypeOK, StoreInvariant, Fault
  PROVE  [Abstract!Next]_(Abstract!vars)
<1>1. op' = "none"
  BY DEF Fault, SystemCallFails, ExistsFails, NoJournalFound, Crash, Return
<1>2. UNCHANGED <<file, journal>>
  <2>1. CASE SystemCallFails \/ ExistsFails
    BY <2>1 DEF SystemCallFails, ExistsFails, disk
  <2>2. CASE Crash
    <3>1. file' = [k \in Keys |-> file[k]] /\ journal' = journal
      BY <2>2, NothingIsExposed DEF Crash
    <3> QED BY <3>1 DEF TypeOK
  <2> QED BY <2>1, <2>2 DEF Fault
<1> QED BY <1>1, <1>2, EndingIsDropping

(* Files, journal and recovery implement a world that changes by whole requests. *)
THEOREM RefinesAtomicRegions == Synchronises => (Spec => ImplementsAtomicRegions)
<1> SUFFICES ASSUME Synchronises PROVE Spec => ImplementsAtomicRegions
  OBVIOUS
<1>1. Init => Abstract!Init
  BY InitRefines
<1>2. TypeOK /\ StoreInvariant /\ [Next]_vars => [Abstract!Next]_(Abstract!vars)
  <2> SUFFICES ASSUME TypeOK, StoreInvariant, [Next]_vars
               PROVE  [Abstract!Next]_(Abstract!vars)
    OBVIOUS
  <2>1. CASE Start
    BY <2>1, StartRefines
  <2>2. CASE Continue
    BY <2>2, RenameJournalRefines, RenameRegionRefines, EraseJournalRefines, QuietStepsRefine
       DEF Continue
  <2>3. CASE Fault
    BY <2>3, FaultsRefine
  <2>4. CASE UNCHANGED vars
    BY <2>4 DEF vars, World, Asked, Superseded, Abstract!vars, Named
  <2> QED BY <2>1, <2>2, <2>3, <2>4 DEF Next
<1> QED BY <1>1, <1>2, TypeCorrect, StoreInvariantHolds, PTL
        DEF Spec, ImplementsAtomicRegions, Abstract!Spec

=============================================================================
