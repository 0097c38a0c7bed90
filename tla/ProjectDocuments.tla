--------------------------- MODULE ProjectDocuments ---------------------------
(***************************************************************************)
(* The documents of a game project, and the commands that read them: game  *)
(* validate (validate.ts), game content build (content-forge.ts), and game *)
(* simulate, which builds the pack, starts a worker on it and plays the    *)
(* first scenario (scenario-harness.ts, control-worker.ts, statechart.ts   *)
(* of runtime-web).                                                        *)
(*                                                                         *)
(* The three read the same documents with rules of their own, and an       *)
(* author trusts the first to say what the others will do.                 *)
(*                                                                         *)
(* A project is a record of its declarations.  A file is named by its      *)
(* place: inside of the project, outside of it, linked to the outside, or  *)
(* missing.  Whether gameplay meets the assertions of a scenario is left   *)
(* out: it is not in the documents.                                        *)
(***************************************************************************)
EXTENDS Integers, SequencesExt, FiniteSets, ContentCompiler, UserInterface

CONSTANTS
  Projects,          \* the projects an author works on, from the first
  MaxRewrites,       \* bound: how often one becomes another
  RegisteredSchemas  \* the schemas of content validate knows

\* A list in a document is a sequence.
IsList(s) == s \in Seq(Members(s))

\* What the readers of a manifest and of its documents take for granted: lists are lists,
\* there is a scenario to play, charts come with the events and guards they are declared
\* by, and None is nobody's identifier.
WellRead(p) ==
  /\ IsList(p.content) /\ IsList(p.scenes) /\ IsList(p.prefabs) /\ IsList(p.charts)
  /\ IsList(p.scenarios) /\ p.scenarios # <<>>
  /\ p.charted \/ p.charts = <<>>
  /\ \A projector \in Members(p.projectors) : IsList(projector.order)
  /\ \A source \in Members(p.scenes) \union Members(p.prefabs) :
       IsList(source.document.nodes) /\ None \notin Ids(source.document.nodes)
  /\ \A source \in Members(p.prefabs) : source.document.id # None

ASSUME ProjectsAssumption ==
  IsList(Projects) /\ Projects # <<>> /\ \A p \in Members(Projects) : WellRead(p)

VARIABLES
  authored,  \* which of the projects is on the disk
  rewrites,  \* how often it was rewritten
  verdict,   \* the codes of the last validate of it, or Unknown before one
  compiled,  \* the codes of the last build of it, or Unknown before one
  packed,    \* the project the pack on the disk was built from, or Unbuilt
  played    \* the codes the last play of it met, or Unknown before one

documents == <<authored, rewrites, verdict, compiled, packed, played>>

\* The codes before a command, and where there is no pack yet.
Unknown == {"unknown"}
Unbuilt == 0

SpatialWorld == "spatial-world"

\* The code for two members of a document with one identifier, by its schema.
MemberCode(schema) ==
  CASE schema = SpatialWorld -> "SPATIAL_ENTITY_ID_DUPLICATE"
    [] schema = "motion" -> "MOTION_ID_DUPLICATE"
    [] schema = "physics-world" -> "PHYSICS_BODY_ID_DUPLICATE"
    [] schema = "mass-population" -> "MASS_AGENT_ID_DUPLICATE"
    [] OTHER -> "CONTENT_ROOM_ID_DUPLICATE"

\* What a reader that stops at the first stage with a fault meets.
Earliest(stages) ==
  LET failed == {i \in DOMAIN stages : stages[i] # {}} IN
  IF failed = {} THEN {} ELSE stages[CHOOSE i \in failed : \A j \in failed : i <= j]

InShape(source) == source.place = "inside" /\ source.parses /\ source.document.shaped

Firsts(s) == {s[i] : i \in {j \in DOMAIN s : \A k \in 1..(j - 1) : s[k].id # s[j].id}}

-----------------------------------------------------------------------------
(* game validate *)

ContractFaults(p) ==
  LET actions == {input.action : input \in Members(p.inputs)}
      keys == {state.key : state \in Members(p.states)}
  IN Check(~Distinct(p.inputs) \/ Cardinality(actions) # Len(p.inputs), "INPUT_CONTRACT_DUPLICATE")
     \union Check(~Distinct(p.states) \/ Cardinality(keys) # Len(p.states), "INSPECTION_STATE_DUPLICATE")

AllLabels(p) ==
  {StatusKey} \union {StateKey(id) : id \in Ids(p.states)} \union {InputKey(id) : id \in Ids(p.inputs)}

\* Defect: only the default locale is asked for its labels.
UiPolicyFaultsOfDefault(p) ==
  LET b == p.ui.breakpoints
      names == {table.locale : table \in Members(p.ui.locales)}
  IN Check(Cardinality(names) # Len(p.ui.locales), "UI_LOCALE_DUPLICATE")
       \union Check(p.ui.default \notin names \union {"base"}, "UI_LOCALE_UNDECLARED")
       \union Check(\E table \in Members(p.ui.locales) :
                      table.locale = p.ui.default /\ StatusKey \notin table.keys,
                    "UI_LOCALE_KEY_MISSING")
       \union Check(~Distinct(b), "UI_BREAKPOINT_DUPLICATE")
       \union Check(\/ \E i \in DOMAIN b : b[i].max # Open /\ b[i].max < b[i].min
                    \/ \E i \in 2..Len(b) : b[i - 1].max = Open \/ b[i].min # b[i - 1].max + 1
                    \/ b[Len(b)].max # Open,
                    "UI_BREAKPOINT_INVALID")

\* Every locale has every label, and the breakpoints follow each other to the last,
\* which is open.
UiPolicyFaults(p) ==
  LET b == p.ui.breakpoints
      names == {table.locale : table \in Members(p.ui.locales)}
  IN Check(Cardinality(names) # Len(p.ui.locales), "UI_LOCALE_DUPLICATE")
       \union Check(p.ui.default \notin names \union {"base"}, "UI_LOCALE_UNDECLARED")
       \union Check(\E table \in Members(p.ui.locales) : ~(AllLabels(p) \subseteq table.keys),
                    "UI_LOCALE_KEY_MISSING")
       \union Check(~Distinct(b), "UI_BREAKPOINT_DUPLICATE")
       \union Check(\/ \E i \in DOMAIN b : b[i].max # Open /\ b[i].max < b[i].min
                    \/ \E i \in 2..Len(b) : b[i - 1].max = Open \/ b[i].min # b[i - 1].max + 1
                    \/ b[Len(b)].max # Open,
                    "UI_BREAKPOINT_INVALID")

DeclarationFaults(p) ==
  Check(~Distinct(p.projectors), "PROJECTOR_ID_DUPLICATE")
    \union Check(\E j \in Members(p.projectors) : ~(j.states \subseteq Ids(p.states)), "PROJECTOR_STATE_UNKNOWN")
    \union Check(\E j \in Members(p.projectors) : ~(j.inputs \subseteq Ids(p.inputs)), "PROJECTOR_INPUT_UNKNOWN")

\* A document of content, from the place of its file to the members it has.
DescriptorFaults(p, d) ==
  Earliest(<<
    Check(d.place \in {"outside", "linked"}, "CONTENT_PATH_OUTSIDE_PROJECT"),
    Check(d.place = "missing", "CONTENT_UNREADABLE"),
    Check(d.target \notin RegisteredSchemas, "CONTENT_SCHEMA_UNKNOWN"),
    Check(~d.parses, "CONTENT_SCHEMA_INVALID"),
    MigrationFaults(d.document, d.target),
    Check(~d.document.shaped, "CONTENT_SCHEMA_INVALID"),
    Check(d.document.id # d.id, "CONTENT_DESCRIPTOR_MISMATCH")
      \union Check(\/ ~Distinct(d.document.cards)
                   \/ \E i, j \in DOMAIN d.document.cards :
                        i # j /\ d.document.cards[i].action = d.document.cards[j].action
                   \/ \E card \in Members(d.document.cards) : card.action \notin Ids(p.inputs),
                   "CONTENT_CARD_CONTRACT_INVALID")
      \union Check(~Distinct(d.document.members), MemberCode(d.target))>>)

ContentFaults(p) ==
  Check(~Distinct(p.content), "CONTENT_ID_DUPLICATE")
    \union UNION {DescriptorFaults(p, d) : d \in Firsts(p.content)}

\* A regional world needs the content that describes it.
SpatialFaults(p) ==
  Check(/\ p.regional \/ p.world # None
        /\ ~\E d \in Members(p.content) : d.id = p.world /\ d.target = SpatialWorld,
        "SPATIAL_WORLD_CONTENT_MISSING")

\* The graph is compiled when every one of its documents could be read.
CompositionFaults(p) ==
  LET sources == p.scenes \o p.prefabs IN
  Earliest(<<
    Check(~Distinct(sources), "SCENE_ID_UNSTABLE")
      \union Check(\E source \in Firsts(sources) : ~InShape(source), "SCENE_SCHEMA_INVALID"),
    SceneGraphFaults(p.scenes, p.prefabs)>>)

EventFaults(p) ==
  Check(\E list \in {p.audio, p.effects} :
          ~Distinct(list) \/ \E i, j \in DOMAIN list : i # j /\ list[i].event = list[j].event,
        "PRESENTATION_EVENT_ID_DUPLICATE")

\* A sound that is linked to the outside is read like any other; a model is not.
MediaFaults(p) ==
  Check(\E a \in Members(p.audio) : a.place = "outside", "AUDIO_SOURCE_OUTSIDE_PROJECT")
    \union Check(\E a \in Members(p.audio) : a.place = "missing", "AUDIO_SOURCE_MISSING")
    \union Check(~Distinct(p.assets), "ASSET_ID_DUPLICATE")
    \union Check(\E a \in Members(p.assets) : a.place # "inside", "ASSET_SOURCE_UNDECLARED")

ScenarioFaultsOf(p, s) ==
  Earliest(<<
    Check(s.place \in {"outside", "linked"}, "SCENARIO_PATH_OUTSIDE_PROJECT"),
    Check(s.place = "missing", "SCENARIO_UNREADABLE"),
    Check(~s.parses \/ ~s.document.shaped, "SCENARIO_SCHEMA_INVALID"),
    Check(~(s.acts \subseteq Ids(p.inputs)), "SCENARIO_ACTION_UNKNOWN")
      \union Check(~(s.keys \subseteq {state.key : state \in Members(p.states)}),
                   "SCENARIO_STATE_KEY_UNKNOWN")>>)

ScenarioFaults(p) == UNION {ScenarioFaultsOf(p, s) : s \in Members(p.scenarios)}

\* The generated state of a project is in RunEvidence.tla.
ValidateFaults(p) ==
  Earliest(<<
    Check(p.manifest = "missing", "GAME_MANIFEST_UNREADABLE"),
    Check(p.manifest = "unparsable", "GAME_JSONC_INVALID"),
    Check(p.manifest = "unshaped", "GAME_SCHEMA_INVALID"),
    ContractFaults(p) \union UiPolicyFaults(p) \union DeclarationFaults(p) \union ContentFaults(p)
      \union SpatialFaults(p) \union CompositionFaults(p) \union EventFaults(p) \union MediaFaults(p)
      \union ScenarioFaults(p)>>)

-----------------------------------------------------------------------------
(* game content build *)

\* Of the sources in their order, those that can be read and parsed.
Keeping(kept, source) ==
  IF source.place # "missing" /\ source.parses THEN Append(kept, source) ELSE kept

Parsed(sources) == FoldLeft(Keeping, <<>>, sources)

\* The documents of the pack; those the compiler makes have no schema to be migrated to.
Entry(symbols, target, document) ==
  [symbols |-> symbols, target |-> target, schema |-> document.schema, field |-> document.field]

PackEntryOf(source, target) == Entry(source.document.symbols \union {source.id}, target, source.document)
EntriesOf(sources, target) == [i \in DOMAIN sources |-> PackEntryOf(sources[i], target)]

Generated(name) == Entry({name}, None, [schema |-> None, field |-> "old"])

GraphFaults(p) ==
  IF Parsed(p.scenes) \o Parsed(p.prefabs) = <<>> THEN {}
  ELSE SceneGraphFaults(Parsed(p.scenes), Parsed(p.prefabs))

ChartsFaults(p) ==
  IF ~p.charted THEN {} ELSE StatechartFaults(Parsed(p.charts), p.guards, p.actions)

\* What is reported, and leaves the document it is about out of the pack.
Diagnosed(p) ==
  Check(\E d \in Members(p.content) : ~d.parses, "CONTENT_UNREADABLE")
    \union Check(Len(Parsed(p.scenes \o p.prefabs)) # Len(p.scenes \o p.prefabs), "SCENE_SCHEMA_INVALID")
    \union Check(Len(Parsed(p.charts)) # Len(p.charts), "STATECHART_SCHEMA_INVALID")
    \union GraphFaults(p) \union ChartsFaults(p)

PackEntries(p) ==
  LET content == Parsed(p.content) IN
  [i \in DOMAIN content |-> PackEntryOf(content[i], content[i].target)]
    \o EntriesOf(Parsed(p.scenes), "scene") \o EntriesOf(Parsed(p.prefabs), "prefab")
    \o (IF GraphFaults(p) = {} /\ Parsed(p.scenes \o p.prefabs) # <<>>
        THEN <<Generated("ludivra.scene-graph")>> ELSE <<>>)
    \o EntriesOf(Parsed(p.charts), "statechart")
    \o (IF p.charted /\ ChartsFaults(p) = {} THEN <<Generated("ludivra.statecharts")>> ELSE <<>>)
    \o <<Generated("ludivra.game")>>

\* What ends a build without a pack.
Thrown(p) ==
  Earliest(<<
    Check(p.manifest \in {"missing", "unparsable"}, "GAME_MANIFEST_INVALID_JSONC"),
    Check(\E d \in Members(p.content) : d.place = "missing", "CONTENT_UNREADABLE"),
    PackFaults(PackEntries(p))>>)

\* The graph of scenes and prefabs in a pack, and its charts.
PackOf(p) ==
  [scenes |-> IF GraphFaults(p) = {} THEN Parsed(p.scenes) ELSE <<>>,
   prefabs |-> IF GraphFaults(p) = {} THEN Parsed(p.prefabs) ELSE <<>>,
   charts |-> IF ChartsFaults(p) = {} THEN Parsed(p.charts) ELSE <<>>]

\* A pack with a document left out is written all the same.
PackAfter(p) == IF Thrown(Projects[p]) = {} THEN p ELSE packed

-----------------------------------------------------------------------------
(* game simulate *)

\* Gameplay hosts install the only chart a pack has, whose events the manifest declares.
InstallFaults(p, charts) ==
  IF ~p.charted THEN {}
  ELSE Earliest(<<
    Check(Len(charts) # 1 \/ Len(p.charts) # 1, "STATECHART_SCHEMA_INVALID"),
    Check(\E chart \in Documents(charts) : chart.id # p.charts[1].id, "STATECHART_SCHEMA_INVALID"),
    Check(\E chart \in Documents(charts) : ~(chart.actions \subseteq p.actions),
          "STATECHART_ACTION_UNREGISTERED"),
    Check(\E chart \in Documents(charts) : \E t \in Members(chart.transitions) :
            (t.event \notin p.events) = (t.after = 0) \/ t.guard \notin p.guards \union {None},
          "STATECHART_SCHEMA_INVALID")>>)

\* A scenario is read, the pack is built, its diagnostics not looked at, and a worker
\* loads it, projects the screen, and acts; then the screen is validated.
PlayFaults(p) ==
  LET s == p.scenarios[1] IN
  Earliest(<<
    Check(p.manifest \in {"missing", "unparsable"}, "GAME_MANIFEST_INVALID_JSONC"),
    Check(s.place \in {"outside", "linked"}, "SCENARIO_PATH_ESCAPE"),
    Check(s.place = "missing" \/ ~s.parses, "SCENARIO_JSONC_INVALID"),
    Check(~s.document.shaped, "SCENARIO_SCHEMA_INVALID"),
    Thrown(p),
    InstallFaults(p, PackOf(p).charts),
    ScreenFaults(p, None),
    Check(~\E b \in Members(p.ui.breakpoints) : Matches(b, HeadlessWidth), "UI_BREAKPOINT_UNDECLARED"),
    Check(~(s.acts \subseteq Ids(p.inputs)), "CONTROL_ACTION_UNKNOWN"),
    InspectionFaults(p)>>)

-----------------------------------------------------------------------------

DocumentsInit ==
  /\ authored = 1 /\ rewrites = 0
  /\ verdict = Unknown /\ compiled = Unknown /\ played = Unknown
  /\ packed = Unbuilt

Author ==
  /\ rewrites < MaxRewrites /\ rewrites' = rewrites + 1
  /\ authored' \in DOMAIN Projects
  /\ verdict' = Unknown /\ compiled' = Unknown /\ played' = Unknown
  /\ UNCHANGED packed

Validate ==
  /\ verdict' = ValidateFaults(Projects[authored])
  /\ UNCHANGED <<authored, rewrites, compiled, packed, played>>

BuildContent ==
  /\ compiled' = Earliest(<<Thrown(Projects[authored]), Diagnosed(Projects[authored])>>)
  /\ packed' = PackAfter(authored)
  /\ UNCHANGED <<authored, rewrites, verdict, played>>

\* A command that does not get as far as the build leaves the pack as it is.
Play ==
  LET p == Projects[authored] IN
  /\ played' = PlayFaults(p)
  /\ packed' = IF p.manifest \in {"missing", "unparsable"} \/ ~InShape(p.scenarios[1])
               THEN packed ELSE PackAfter(authored)
  /\ UNCHANGED <<authored, rewrites, verdict, compiled>>

DocumentsNext == Author \/ Validate \/ BuildContent \/ Play

DocumentsSpec == DocumentsInit /\ [][DocumentsNext]_documents

-----------------------------------------------------------------------------
(* Properties *)

\* What validate does not look at: charts, which only the build compiles and only a
\* session installs; identifiers that two kinds of documents share; a screen of the
\* game; the parameters of labels; the width and the buttons of the headless renderer.
Unvalidated(p) ==
  \/ p.charted /\ (ChartsFaults(p) # {} \/ InstallFaults(p, p.charts) # {} \/ Parsed(p.charts) # p.charts)
  \/ PackFaults(PackEntries(p)) # {}
  \/ ~\E j \in Members(p.projectors) : j.screen = "game"
  \/ \E j \in Members(p.projectors) : LabelFaults(p.ui, None, j) # {}
  \/ BreakpointFaults(p.ui, HeadlessWidth) # {} \/ p.ui.touch > HeadlessButton

\* A project that validates builds without a diagnostic and plays its scenario up to
\* what its gameplay does, unless something validate does not look at is in the way:
\* the rules of validate.ts and those of the commands behind it agree on the rest.
ValidatedProjectsPlay ==
  verdict = {} /\ ~Unvalidated(Projects[authored]) =>
    /\ compiled \in {Unknown, {}}
    /\ played \in {Unknown, {}}

\* What grows down from a root, a generation at a time.
Grown(up, root) ==
  LET grown[k \in 0..Cardinality(DOMAIN up)] ==
        IF k = 0 THEN {root}
        ELSE grown[k - 1] \union {x \in DOMAIN up : up[x] \in grown[k - 1]}
  IN grown[Cardinality(DOMAIN up)]

\* Every node of a graph in a pack comes up to the root of its document, every base to
\* a prefab without one, and every instance to a prefab of the graph: nothing a host
\* instantiates goes in a circle or leads out of the pack.
GraphsAreTrees ==
  packed # Unbuilt =>
    LET pack == PackOf(Projects[packed])
        prefabs == Documents(pack.prefabs)
        base == BaseOf(prefabs)
    IN /\ \A document \in Documents(pack.scenes) \union prefabs :
            Grown(ParentOf(document), document.root) = Ids(document.nodes)
       /\ Grown(base, None) = DOMAIN base \union {None}
       /\ \A document \in Documents(pack.scenes) : \A node \in Members(document.nodes) :
            node.prefab \in DOMAIN base \union {None}

\* What is validated plays, and what is packed, validated or not, is sound.
DocumentsAreSound == ValidatedProjectsPlay /\ GraphsAreTrees
=============================================================================
