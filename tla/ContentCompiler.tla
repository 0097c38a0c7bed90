---------------------------- MODULE ContentCompiler ----------------------------
(***************************************************************************)
(* What the content compiler does with the documents of a game             *)
(* (content-compiler: scene-graph.ts, statechart.ts, migrations.ts,        *)
(* pack.ts): scenes and prefabs become one graph, charts are checked,      *)
(* older documents are migrated, and all of them become one pack.          *)
(*                                                                         *)
(* A compilation that refuses its input is the set of the codes it could   *)
(* refuse it with; which one of them it meets first is left out.  A        *)
(* document is its identifiers and references: whether it has the shape of *)
(* its schema, patterns of identifiers included, is the field "shaped",    *)
(* and a value is its type.                                                *)
(***************************************************************************)
EXTENDS Integers, Sequences, FiniteSets

CONSTANT Migrations  \* the registry: [from, to] schemas, each at its version

None == "none"

Members(s) == {s[i] : i \in DOMAIN s}
Ids(s) == {member.id : member \in Members(s)}
Distinct(s) == \A i, j \in DOMAIN s : s[i].id = s[j].id => i = j

\* The code of a check that fails.
Check(fails, code) == IF fails THEN {code} ELSE {}

\* The way up from x, a step for each x there is: one that has not ended goes in a circle.
Above(up, x) ==
  LET at[k \in 0..Cardinality(DOMAIN up)] ==
        IF k = 0 THEN x ELSE IF at[k - 1] \in DOMAIN up THEN up[at[k - 1]] ELSE None
  IN at[Cardinality(DOMAIN up)]

HasCycle(up) == \E x \in DOMAIN up : Above(up, x) # None /\ Above(up, x) \in DOMAIN up

TypedValue(type, value) ==
  CASE type = "number" -> value \in {"integer", "number"}
    [] OTHER -> value = type

-----------------------------------------------------------------------------
(* Scenes and prefabs *)

NodeWith(document, id) == CHOOSE node \in Members(document.nodes) : node.id = id
ParentOf(document) == [id \in Ids(document.nodes) |-> NodeWith(document, id).parent]

DocumentFaults(source) ==
  LET document == source.document IN
  Check(~document.shaped \/ document.nodes = <<>>, "SCENE_SCHEMA_INVALID")
    \union Check(document.id # source.id \/ Cardinality(Members(document.resources)) # Len(document.resources),
                 "SCENE_ID_UNSTABLE")

\* Defect: the way up from a node is not followed.
NodeFaultsUnclimbed(document) ==
  LET ids == Ids(document.nodes) IN
  Check(~Distinct(document.nodes), "SCENE_ID_UNSTABLE")
    \union Check(document.root \notin ids
                 \/ \E node \in Members(document.nodes) :
                      \/ node.id # document.root /\ node.parent = None
                      \/ node.parent # None /\ node.parent \notin ids, "SCENE_REFERENCE_NOT_FOUND")
    \union Check(\E node \in Members(document.nodes) : node.id = document.root /\ node.parent # None,
                 "SCENE_REFERENCE_CYCLE")

\* One root without a parent; every other node has a parent that is declared, and comes
\* to an end above itself.
NodeFaults(document) ==
  LET ids == Ids(document.nodes) IN
  Check(~Distinct(document.nodes), "SCENE_ID_UNSTABLE")
    \union Check(document.root \notin ids
                 \/ \E node \in Members(document.nodes) :
                      \/ node.id # document.root /\ node.parent = None
                      \/ node.parent # None /\ node.parent \notin ids, "SCENE_REFERENCE_NOT_FOUND")
    \union Check(\/ \E node \in Members(document.nodes) : node.id = document.root /\ node.parent # None
                 \/ HasCycle(ParentOf(document)),
                 "SCENE_REFERENCE_CYCLE")

ComponentFaults(document, resources) ==
  Check(\E node \in Members(document.nodes) : ~node.public, "SCENE_COMPONENT_UNSUPPORTED")
    \union Check(\E node \in Members(document.nodes) : ~(node.uses \subseteq resources), "SCENE_REFERENCE_NOT_FOUND")

MetadataFaults(prefab) ==
  Check(\E p \in Members(prefab.parameters) : ~TypedValue(p.type, p.default), "SCENE_SCHEMA_INVALID")
    \union Check(~Distinct(prefab.parameters) \/ ~Distinct(prefab.overrides) \/ ~Distinct(prefab.slots),
                 "SCENE_ID_UNSTABLE")

\* An override marks a field of a node the prefab has, of the type it says.
OverrideFaults(prefab) ==
  Check(\E o \in Members(prefab.overrides) : o.target \notin Ids(prefab.nodes), "SCENE_REFERENCE_NOT_FOUND")
    \union Check(\E o \in Members(prefab.overrides) : ~TypedValue(o.type, o.field), "PREFAB_OVERRIDE_FORBIDDEN")

PrefabFaults(prefab, resources) ==
  MetadataFaults(prefab) \union NodeFaults(prefab) \union OverrideFaults(prefab)
    \union ComponentFaults(prefab, resources)
    \union Check(\E node \in Members(prefab.nodes) : node.prefab # None, "SCENE_SCHEMA_INVALID")

BaseOf(prefabs) == [id \in {p.id : p \in prefabs} |-> (CHOOSE p \in prefabs : p.id = id).base]

BaseFaults(prefabs) ==
  LET base == BaseOf(prefabs) IN
  Check(\E p \in prefabs : p.base \notin DOMAIN base \union {None}, "SCENE_REFERENCE_NOT_FOUND")
    \union Check(HasCycle(base), "SCENE_REFERENCE_CYCLE")

\* What a node gives a prefab, it declares, at most once; it fills the slots that have
\* to be filled with prefabs there are.
BindingFaults(node, prefab, prefabs) ==
  Check(\E given \in node.gives :
          ~\E p \in Members(prefab.parameters) : p.id = given.id /\ TypedValue(p.type, given.value),
        "SCENE_SCHEMA_INVALID")
    \union Check(~Distinct(node.sets) \/ \E set \in Members(node.sets) :
                   ~\E o \in Members(prefab.overrides) : o.id = set.id /\ TypedValue(o.type, set.value),
                 "PREFAB_OVERRIDE_FORBIDDEN")
    \union Check(\/ ~Distinct(node.fills) \/ ~(Ids(node.fills) \subseteq Ids(prefab.slots))
                 \/ \E fill \in Members(node.fills) : fill.prefab \notin {p.id : p \in prefabs}
                 \/ \E slot \in Members(prefab.slots) : slot.required /\ slot.id \notin Ids(node.fills),
                 "PREFAB_SLOT_UNRESOLVED")

InstanceFaults(scene, prefabs) ==
  UNION {IF node.prefab = None
         THEN Check(node.gives # {} \/ node.sets # <<>> \/ node.fills # <<>>, "SCENE_SCHEMA_INVALID")
         ELSE IF node.prefab \notin {p.id : p \in prefabs} THEN {"SCENE_REFERENCE_NOT_FOUND"}
         ELSE BindingFaults(node, CHOOSE p \in prefabs : p.id = node.prefab, prefabs)
         : node \in Members(scene.nodes)}

Documents(sources) == {source.document : source \in Members(sources)}

\* compileSceneGraph: documents, then resources, then prefabs, then their bases, then the
\* scenes that use them.
SceneGraphFaults(scenes, prefabs) ==
  LET sources == scenes \o prefabs
      read == UNION {DocumentFaults(source) : source \in Members(sources)}
      shared == Check(\E i, j \in DOMAIN sources : i # j /\
                        \/ sources[i].document.id = sources[j].document.id
                        \/ Members(sources[i].document.resources) \cap Members(sources[j].document.resources) # {},
                      "SCENE_ID_UNSTABLE")
      resources == UNION {Members(document.resources) : document \in Documents(sources)}
  IN IF read # {} THEN read
     ELSE IF shared # {} THEN shared
     ELSE (UNION {PrefabFaults(p, resources) : p \in Documents(prefabs)})
          \union BaseFaults(Documents(prefabs))
          \union UNION {NodeFaults(s) \union ComponentFaults(s, resources)
                          \union InstanceFaults(s, Documents(prefabs)) : s \in Documents(scenes)}

-----------------------------------------------------------------------------
(* Charts *)

Trigger(transition) == <<transition.from, transition.event, transition.after, transition.priority>>

\* Two transitions from a state for the same event or time have an order.
TransitionFaults(chart, guards, actions) ==
  Check(\E t \in Members(chart.transitions) :
          \/ ~({t.from, t.to} \subseteq Ids(chart.states))
          \/ t.event # None /\ t.event \notin chart.events, "STATECHART_SCHEMA_INVALID")
    \union Check(~Distinct(chart.transitions), "STATECHART_SCHEMA_INVALID")
    \union Check(\E t \in Members(chart.transitions) : (t.event = None) = (t.after = 0),
                 "STATECHART_LOGICAL_TIME_REQUIRED")
    \union Check(\E t \in Members(chart.transitions) : t.guard \notin guards \union {None},
                 "STATECHART_GUARD_UNREGISTERED")
    \union Check(\E i, j \in DOMAIN chart.transitions :
                   i # j /\ Trigger(chart.transitions[i]) = Trigger(chart.transitions[j]),
                 "STATECHART_TRANSITION_AMBIGUOUS")
    \union Check(~(chart.actions \subseteq actions), "STATECHART_ACTION_UNREGISTERED")

ChartFaults(source, guards, actions) ==
  LET chart == source.document
      parent == [id \in Ids(chart.states) |-> (CHOOSE s \in Members(chart.states) : s.id = id).parent]
  IN IF ~chart.shaped THEN {"STATECHART_SCHEMA_INVALID"}
     ELSE Check(chart.id # source.id \/ ~Distinct(chart.states) \/ HasCycle(parent)
                 \/ \E s \in Members(chart.states) : s.parent \notin DOMAIN parent \union {None},
                "STATECHART_SCHEMA_INVALID")
            \union Check(chart.initial \notin DOMAIN parent, "STATECHART_INITIAL_STATE_MISSING")
          \union TransitionFaults(chart, guards, actions)

StatechartFaults(charts, guards, actions) ==
  (UNION {ChartFaults(source, guards, actions) : source \in Members(charts)})
    \union Check(~Distinct(charts), "STATECHART_SCHEMA_INVALID")

-----------------------------------------------------------------------------
(* Older documents, and the pack *)

\* A rename of a field that is not there, or onto one that is, is an error.
RenameFaults(document) ==
  Check(document.field = "absent", "CONTENT_MIGRATION_POINTER_UNKNOWN")
    \union Check(document.field = "both", "CONTENT_MIGRATION_CONFLICT")

\* From the schema of a document to the one its descriptor names, a transition at a time,
\* each the only one from where it starts.
MigrationFaults(document, target) ==
  LET candidates(schema) == {m \in Migrations : m.from = schema}
      at[k \in 0..Cardinality(Migrations)] ==
        IF k = 0 THEN document.schema
        ELSE IF at[k - 1] # target /\ Cardinality(candidates(at[k - 1])) = 1
             THEN (CHOOSE m \in candidates(at[k - 1]) : TRUE).to ELSE at[k - 1]
      last == at[Cardinality(Migrations)]
  IN IF document.schema = None THEN {"CONTENT_MIGRATION_REQUIRED"}
     ELSE IF document.schema = target THEN {}
     ELSE IF last = target THEN RenameFaults(document)
     ELSE CASE candidates(last) = {} -> {"CONTENT_MIGRATION_REQUIRED"}
            [] Cardinality(candidates(last)) > 1 -> {"CONTENT_MIGRATION_AMBIGUOUS"}
            [] OTHER -> {"CONTENT_MIGRATION_CYCLE"}

\* compileContentPack throws for a symbol, the id of a document or one declared inside of
\* it, that two documents have, and for a document that cannot be migrated.
PackFaults(entries) ==
  Check(\E i, j \in DOMAIN entries : i # j /\ entries[i].symbols \cap entries[j].symbols # {},
        "CONTENT_PACK_SYMBOL_DUPLICATE")
    \union UNION {IF entry.target = None THEN {} ELSE MigrationFaults(entry, entry.target)
                  : entry \in Members(entries)}
=============================================================================
