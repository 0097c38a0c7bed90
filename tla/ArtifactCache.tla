----------------------------- MODULE ArtifactCache -----------------------------
(***************************************************************************)
(* The cache of build outputs (artifact-cache.ts) and the watch session    *)
(* that keeps them up to date (build-runner.ts, commands/build.ts).  A     *)
(* family of artifacts has inputs of its own, its outputs live in one      *)
(* place, and entries record which key they were built for.                *)
(*                                                                         *)
(* A key is the version of the family's inputs with the keys of the        *)
(* families it depends on.  What a build produces is of the inputs and the *)
(* outputs it read, in the form of a key, and may embed artefacts of the   *)
(* project that no key names: outputs are what a key describes when they   *)
(* are of it, whatever they embed.                                         *)
(***************************************************************************)
EXTENDS Integers, FiniteSets, SequencesExt

CONSTANTS
  Families,  \* the families, in the order they are declared
  DependsOn, \* the families a family depends on
  Bundles,   \* those whose tool also reads artefacts of the project that no key names
  Flushes,   \* what may build at the same time: the first run of a session, and flushes
  MaxEdits,  \* bound on the edits of a behaviour
  MaxBuilds  \* bound on its builds

FamilySet == {Families[i] : i \in DOMAIN Families}

ASSUME CacheAssumption ==
  /\ Families \in Seq(FamilySet) \ {<<>>}
  /\ DependsOn \in [FamilySet -> SUBSET FamilySet] /\ \A f \in FamilySet : f \notin DependsOn[f]
  /\ Bundles \subseteq FamilySet /\ \A f \in FamilySet : DependsOn[f] \intersect Bundles = {}
  /\ {MaxEdits, MaxBuilds} \subseteq Nat

VARIABLES
  edited,   \* edited[f]: the version of the inputs of f
  artefacts, \* the version of the content pack, the asset index and the cooked assets
  edits,    \* the edits so far, and the times those were made again
  begun,    \* the builds so far
  output,   \* output[f]: what the output directory of f holds: [of, artefacts]
  entries,  \* the entry files: [key, outputs, sound]; sound is history
  latest,   \* latest[f]: the key in latest.json
  builds,   \* builds[r]: what flush r is doing
  reused    \* history: the <<entry, output>> that the last hit was about

cache == <<edited, artefacts, edits, begun, output, entries, latest, builds, reused>>

Missing == [family |-> "none", version |-> 0, from |-> {}]
TornEntry == [family |-> "torn", version |-> 0, from |-> {}]

\* What is built of k embeds version n of the artefacts, or none.
Bundled(k, n) == [of |-> k, artefacts |-> n]

Embedded(f) == IF f \in Bundles THEN artefacts ELSE 0

Partial == Bundled([family |-> "partial", version |-> 0, from |-> {}], 0)

\* No build, or a build that was stopped: the next one starts anew.
NoBuild == [left |-> {}, force |-> FALSE, doing |-> "nothing", resolved |-> {},
            key |-> Missing, sound |-> TRUE]

\* What a build of the first inputs leaves.
First ==
  FoldLeft(LAMBDA keys, f : keys \union {[family |-> f, version |-> 1,
                               from |-> {k \in keys : k.family \in DependsOn[f]}]},
           {}, Families)

FirstOf(f) == CHOOSE k \in First : k.family = f

\* Nothing has been built yet, or everything once.
CacheInit ==
  /\ edited = [f \in FamilySet |-> 1] /\ artefacts = 1 /\ edits = 0 /\ begun = 0
  /\ \/ /\ output = [f \in FamilySet |-> Bundled(Missing, 0)]
        /\ latest = [f \in FamilySet |-> Missing]
        /\ entries = {}
     \/ /\ output = [f \in FamilySet |-> Bundled(FirstOf(f), Embedded(f))]
        /\ latest = [f \in FamilySet |-> FirstOf(f)]
        /\ entries = {[key |-> k, outputs |-> Bundled(k, Embedded(k.family)), sound |-> TRUE] : k \in First}
  /\ builds = [r \in Flushes |-> NoBuild]
  /\ reused = {}

\* The families that are left are built in the order they are declared.
FirstDeclared(left) == Families[Min({i \in DOMAIN Families : Families[i] \in left})]

Family(r) == FirstDeclared(builds[r].left)

\* Only one flush builds f.
Alone(r) == \A other \in Flushes \ {r} : builds[other] = NoBuild

\* The families that are rebuilt when f was.
Dependents(f) ==
  FoldLeft(LAMBDA found, g : IF g = f \/ DependsOn[g] \intersect ({f} \union found) # {}
                             THEN found \union {g} ELSE found,
           {}, Families)

-----------------------------------------------------------------------------
\* An editor writes an input; builds that have read it go on.
Edit ==
  /\ edits < MaxEdits
  /\ edits' = edits + 1 /\ UNCHANGED begun
  /\ \E f \in FamilySet : edited' = [edited EXCEPT ![f] = 3 - @]
  /\ builds' = [r \in Flushes |-> IF builds[r] = NoBuild THEN NoBuild
                                  ELSE [builds[r] EXCEPT !.sound = FALSE]]
  /\ UNCHANGED <<artefacts, output, entries, latest>> /\ reused' = {}

\* A forge makes the content pack or cooks an asset again, after an edit of a scene or
\* a model: no input of a family has changed.
Recook ==
  /\ Bundles # {} /\ edits < MaxEdits /\ edits' = edits + 1
  /\ artefacts' = 3 - artefacts
  /\ UNCHANGED <<edited, begun, output, entries, latest, builds>> /\ reused' = {}

\* A flush does not wait for the one before it.
StartBuild(r, wanted, force) ==
  builds' = [o \in Flushes |->
       IF o = r THEN [NoBuild EXCEPT !.left = wanted, !.force = force, !.sound = Alone(r)]
       ELSE IF builds[o] = NoBuild THEN NoBuild ELSE [builds[o] EXCEPT !.sound = FALSE]]

\* Everything is asked for, by a build or the first run of a watch session; or what an
\* edit of f affects, by a flush of its watcher.
Start ==
  /\ \E r \in Flushes : builds[r] = NoBuild
  /\ LET r == CHOOSE r \in Flushes : builds[r] = NoBuild IN
       \/ \E force \in BOOLEAN : Alone(r) /\ StartBuild(r, FamilySet, force)
       \/ \E f \in FamilySet : StartBuild(r, Dependents(f), FALSE)
  /\ begun < MaxBuilds /\ begun' = begun + 1
  /\ UNCHANGED <<edited, artefacts, edits, output, entries, latest>> /\ reused' = {}

\* A dependency that was not asked for has the key of its latest.json.
DependencyKeys(r) ==
  {IF \E k \in builds[r].resolved : k.family = d
   THEN CHOOSE k \in builds[r].resolved : k.family = d ELSE latest[d]
   : d \in DependsOn[Family(r)]}

\* What is hashed: the inputs of the family, of the project and of the environment, and
\* the keys of its dependencies.
Key(r) ==
  [family |-> Family(r), version |-> edited[Family(r)], from |-> DependencyKeys(r)]

EntryOf(k) == {e \in entries : e.key = k}

\* Defect: an entry is enough.
HitsEntry(r, e) == e.key = Key(r) /\ e.outputs.of # TornEntry

\* The entry of the key says what the outputs are, and they still are that.
Hits(r, e) == e.key = Key(r) /\ e.outputs = output[Family(r)]

\* A file that is half written throws; with force, the entry is not read.
Unreadable(r) ==
  \/ TornEntry \in {latest[f] : f \in {Family(r)} \union DependsOn[Family(r)]}
  \/ ~builds[r].force /\ \E e \in EntryOf(Key(r)) : e.outputs.of = TornEntry

\* The build goes on with its next family, or ends.
Continued(b, k) ==
  IF b.left = {k.family} THEN NoBuild
  ELSE [b EXCEPT !.left = @ \ {k.family}, !.doing = "nothing", !.key = Missing,
                 !.resolved = @ \union {k}]

\* The outputs its dependencies have now are not those of the keys.
Astray(r) == {output[d].of : d \in DependsOn[Family(r)]} # DependencyKeys(r)

\* Inputs and outputs are hashed before the tool of the family runs and opens its
\* outputs: what is edited after this is not in the key.
Ensure ==
  /\ \E r \in Flushes :
       /\ builds[r] # NoBuild /\ builds[r].doing = "nothing"
       /\ LET hits == {e \in entries : ~builds[r].force /\ Hits(r, e)} IN
          IF Unreadable(r) THEN builds' = [builds EXCEPT ![r] = NoBuild] /\ UNCHANGED <<output, reused>>
          ELSE IF hits # {}
          THEN /\ reused' = {<<e, output[Family(r)]>> : e \in hits}
               /\ builds' = [builds EXCEPT ![r] = Continued(@, Key(r))]
               /\ UNCHANGED output
          ELSE /\ reused' = {}
               /\ output' = [output EXCEPT ![Family(r)] = Partial]
               /\ builds' = [builds EXCEPT ![r] =
                    [@ EXCEPT !.doing = "running", !.key = Key(r),
                              !.sound = builds[r].sound /\ ~Astray(r)]]
  /\ UNCHANGED <<edited, artefacts, edits, begun, entries, latest>>

\* It reads what is there now, the artefacts among it.
ToolEnds ==
  /\ \E r \in Flushes :
       /\ builds[r].doing = "running"
       /\ output' = [output EXCEPT ![Family(r)] =
            Bundled([family |-> Family(r), version |-> edited[Family(r)],
                     from |-> {output[d].of : d \in DependsOn[Family(r)]}],
                    Embedded(Family(r)))]
       /\ builds' = [builds EXCEPT ![r].doing = "built"]
  /\ UNCHANGED <<edited, artefacts, edits, begun, entries, latest>> /\ reused' = {}

\* A tool that fails or runs out of time, or whose outputs are not all there, ends the
\* build: nothing is recorded.
ToolFails ==
  /\ \E r \in Flushes :
       /\ builds[r].doing = "running"
       /\ builds' = [builds EXCEPT ![r] = NoBuild]
  /\ UNCHANGED <<edited, artefacts, edits, begun, output, entries, latest>> /\ reused' = {}

\* The outputs are hashed again, and the entry and latest.json are written.
Recorded(b, outputs) ==
  entries' = (entries \ EntryOf(b.key)) \union {[key |-> b.key, outputs |-> outputs, sound |-> b.sound]}

Record ==
  /\ \E r \in Flushes :
       /\ builds[r].doing = "built"
       /\ Recorded(builds[r], output[Family(r)])
       /\ latest' = [latest EXCEPT ![Family(r)] = builds[r].key]
       /\ builds' = [builds EXCEPT ![r] = Continued(@, builds[r].key)]
  /\ UNCHANGED <<edited, artefacts, edits, begun, output>> /\ reused' = {}

\* The process is stopped, while one of its builds writes the two files or not.
Stop ==
  /\ builds # [r \in Flushes |-> NoBuild]
  /\ builds' = [r \in Flushes |-> NoBuild]
  /\ \/ UNCHANGED <<entries, latest>>
     \/ \E r \in Flushes :
          /\ builds[r].doing = "built"
          /\ \/ UNCHANGED entries
             \/ \E outputs \in {Bundled(TornEntry, 0), output[Family(r)]} : Recorded(builds[r], outputs)
          /\ \E written \in {latest[Family(r)], TornEntry, builds[r].key} :
               latest' = [latest EXCEPT ![Family(r)] = written]
  /\ UNCHANGED <<edited, artefacts, edits, begun, output>> /\ reused' = {}

\* Somebody deletes .ludivra/cache, or a file of it that cannot be read.
Clear ==
  /\ \E f \in FamilySet :
       /\ latest[f] = TornEntry \/ \E e \in entries : e.key.family = f /\ e.outputs.of = TornEntry
       /\ latest' = [latest EXCEPT ![f] = Missing]
       /\ entries' = {e \in entries : e.key.family # f}
  /\ UNCHANGED <<edited, artefacts, edits, begun, output, builds>> /\ reused' = {}

CacheNext ==
  \/ Edit \/ Recook \/ Start \/ Ensure \/ ToolEnds \/ ToolFails \/ Record \/ Stop \/ Clear

CacheSpec == CacheInit /\ [][CacheNext]_cache

-----------------------------------------------------------------------------
\* What a build reuses is of the inputs its key names, for every order of edits, failed
\* and interrupted builds, reverts and flushes, unless the entry was recorded by a build
\* whose inputs were edited, whose dependencies were not those of its key, or that
\* another flush overlapped (artifact-cache.ts, ensureFamily).  Not stated, as it is not
\* so: that a bundle embeds the artefacts there are now, which no key names.
ReusedIsCurrent ==
  \A hit \in reused : hit[1].sound => hit[2].of = hit[1].key
=============================================================================
