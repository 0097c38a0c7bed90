------------------------------ MODULE MCProjects ------------------------------
(* A project with a document of each kind, and projects that differ from it where a  *)
(* command has something to find.                                                    *)
EXTENDS ProjectDocuments

MCMigrations ==
  {[from |-> "cards-1", to |-> "cards-2"], [from |-> "toys-1", to |-> "toys-2"],
   [from |-> "toys-1", to |-> "toys-3"], [from |-> "loop-1", to |-> "loop-2"],
   [from |-> "loop-2", to |-> "loop-1"]}

MCSchemas == {"cards-1", "cards-2", "toys-2", "loop-3", SpatialWorld, "motion", "physics-world", "mass-population"}

At(id, document) == [id |-> id, place |-> "inside", parses |-> TRUE, document |-> document]

Content(id, target, schema, cards, members) ==
  [id |-> id, place |-> "inside", parses |-> TRUE, target |-> target,
   document |-> [id |-> id, shaped |-> TRUE, schema |-> schema, field |-> "old", symbols |-> {id},
                 cards |-> cards, members |-> members]]

Thing(id, parent, prefab) ==
  [id |-> id, parent |-> parent, public |-> TRUE, uses |-> {}, prefab |-> prefab,
   gives |-> {}, sets |-> <<>>, fills |-> <<>>]

Graph(id, schema, nodes) ==
  [id |-> id, shaped |-> TRUE, schema |-> schema, field |-> "old", symbols |-> {id},
   root |-> "a", nodes |-> nodes, resources |-> <<>>]

Lamp ==
  [id |-> "prefab.lamp", shaped |-> TRUE, schema |-> "prefab", field |-> "old", symbols |-> {"prefab.lamp"},
   root |-> "a", nodes |-> <<Thing("a", None, None), Thing("b", "a", None)>>, resources |-> <<"glow">>,
   base |-> None, parameters |-> <<[id |-> "power", type |-> "number", default |-> "integer"]>>,
   overrides |-> <<[id |-> "tint", target |-> "b", type |-> "string", field |-> "string"]>>,
   slots |-> <<[id |-> "bulb", required |-> TRUE], [id |-> "shade", required |-> FALSE]>>]

Plain(id, base) ==
  [Lamp EXCEPT !.id = id, !.symbols = {id}, !.base = base, !.resources = <<>>, !.parameters = <<>>,
               !.overrides = <<>>, !.slots = <<>>]

Lit ==
  [Thing("c", "a", "prefab.lamp") EXCEPT !.gives = {[id |-> "power", value |-> "integer"]},
     !.sets = <<[id |-> "tint", value |-> "string"]>>, !.uses = {"glow"},
     !.fills = <<[id |-> "bulb", prefab |-> "prefab.bulb"]>>]

Hall == Graph("scene.hall", "scene", <<Thing("a", None, None), Thing("b", "a", None), Lit>>)

Doors ==
  [id |-> "statechart.doors", shaped |-> TRUE, schema |-> "statechart", field |-> "old",
   symbols |-> {"statechart.doors"}, events |-> {"push"}, initial |-> "shut", actions |-> {"creak"},
   states |-> <<[id |-> "shut", parent |-> None], [id |-> "open", parent |-> "shut"]>>,
   transitions |-> <<[id |-> "t1", from |-> "shut", to |-> "open", event |-> "push", after |-> 0,
                      priority |-> 0, guard |-> "free"],
                     [id |-> "t2", from |-> "open", to |-> "shut", event |-> None, after |-> 2,
                      priority |-> 0, guard |-> None]>>]

Labels == {StatusKey, StateKey("score"), InputKey("go"), InputKey("stop")}

Table(locale) == [locale |-> locale, keys |-> Labels, names |-> [k \in Labels |-> Parameter(k)]]

Good ==
  [manifest |-> "valid",
   inputs |-> <<[id |-> "go", action |-> 1], [id |-> "stop", action |-> 2]>>,
   states |-> <<[id |-> "score", key |-> 1]>>,
   ui |-> [default |-> "pt", locales |-> <<Table("pt"), Table("en")>>, touch |-> 44,
           breakpoints |-> <<[id |-> "small", min |-> 1, max |-> 700], [id |-> "wide", min |-> 701, max |-> Open]>>],
   projectors |-> <<[id |-> "main", screen |-> "game", states |-> {"score"}, inputs |-> {"go", "stop"},
                     order |-> <<"go", "stop">>]>>,
   content |-> <<Content("deck", "cards-2", "cards-1", <<[id |-> "ace", action |-> "go"], [id |-> "two", action |-> "stop"]>>, <<>>),
                 Content("world.old", SpatialWorld, SpatialWorld, <<>>, <<[id |-> 1], [id |-> 2]>>)>>,
   regional |-> TRUE, world |-> "world.old",
   scenes |-> <<At("scene.hall", Hall)>>,
   prefabs |-> <<At("prefab.lamp", Lamp), At("prefab.bulb", Plain("prefab.bulb", None)),
                 At("prefab.led", Plain("prefab.led", "prefab.bulb"))>>,
   charted |-> TRUE, charts |-> <<At("statechart.doors", Doors)>>, events |-> {"push"}, guards |-> {"free"},
   actions |-> {"creak"},
   audio |-> <<[id |-> "ping", event |-> 1, place |-> "inside"], [id |-> "hum", event |-> 2, place |-> "none"]>>,
   effects |-> <<[id |-> "spark", event |-> 1]>>,
   assets |-> <<[id |-> "crate", place |-> "inside"]>>,
   scenarios |-> <<[place |-> "inside", parses |-> TRUE, document |-> [shaped |-> TRUE], acts |-> {"go"}, keys |-> {1}]>>]

Elsewhere == <<"outside", "linked", "missing">>
Twice(s) == s \o s

\* Every way to hang three nodes, one of them under what there is not.
Trees ==
  LET one == <<None, "a", "b">>
      other == <<None, "a", "b", "c", "z">>
      last == <<None, "a", "b", "c">>
  IN [i \in 1..60 |->
        [Good EXCEPT !.scenes[1].document.nodes =
           <<Thing("a", one[1 + (i % 3)], None), Thing("b", other[1 + ((i \div 3) % 5)], None),
             [Lit EXCEPT !.parent = last[1 + ((i \div 15) % 4)]]>>]]

Bases ==
  LET one == <<None, "prefab.bulb", "prefab.led", "prefab.gone">>
      other == <<None, "prefab.bulb", "prefab.lamp">>
  IN [i \in 1..12 |->
        [Good EXCEPT !.prefabs[2].document.base = one[1 + (i % 4)],
                     !.prefabs[3].document.base = other[1 + ((i \div 4) % 3)]]]

Instances ==
  LET nodes == <<
        [Lit EXCEPT !.gives = {[id |-> "power", value |-> "string"]}], [Lit EXCEPT !.gives = {[id |-> "size", value |-> "integer"]}],
        [Lit EXCEPT !.sets = Twice(@)], [Lit EXCEPT !.sets[1].id = "size"], [Lit EXCEPT !.sets[1].value = "number"],
        [Lit EXCEPT !.fills = <<>>], [Lit EXCEPT !.fills[1].prefab = "prefab.gone"], [Lit EXCEPT !.fills = Twice(@)],
        [Lit EXCEPT !.fills[1].id = "hook"], [Lit EXCEPT !.prefab = "prefab.gone"], [Lit EXCEPT !.prefab = None],
        [Lit EXCEPT !.public = FALSE], [Lit EXCEPT !.uses = {"dust"}], [Lit EXCEPT !.id = "b"], Thing("c", "b", None)>>
      lamps == <<
        [Lamp EXCEPT !.parameters[1].default = "string"], [Lamp EXCEPT !.parameters = Twice(@)],
        [Lamp EXCEPT !.overrides[1].target = "z"], [Lamp EXCEPT !.overrides[1].field = "number"],
        [Lamp EXCEPT !.nodes[2].prefab = "prefab.bulb"], [Lamp EXCEPT !.nodes[2].parent = "b"],
        [Lamp EXCEPT !.id = "prefab.bulb"], [Lamp EXCEPT !.resources = Twice(@)]>>
  IN [i \in DOMAIN nodes |-> [Good EXCEPT !.scenes[1].document.nodes[3] = nodes[i]]]
     \o [i \in DOMAIN lamps |-> [Good EXCEPT !.prefabs[1].document = lamps[i]]]

Charted ==
  LET charts == <<
        [Doors EXCEPT !.shaped = FALSE], [Doors EXCEPT !.id = "statechart.gates"], [Doors EXCEPT !.initial = "ajar"],
        [Doors EXCEPT !.states = Twice(@)], [Doors EXCEPT !.states[1].parent = "open"], [Doors EXCEPT !.actions = {"slam"}],
        [Doors EXCEPT !.transitions[1].to = "ajar"], [Doors EXCEPT !.transitions[1].event = "pull"],
        [Doors EXCEPT !.transitions[1].after = 3], [Doors EXCEPT !.transitions[1].guard = "locked"],
        [Doors EXCEPT !.transitions[2].id = "t1"],
        [Doors EXCEPT !.transitions = Append(@, [@[2] EXCEPT !.id = "t3"])]>>
      lids == At("statechart.lids", [Doors EXCEPT !.id = "statechart.lids", !.symbols = {}])
  IN [i \in DOMAIN charts |-> [Good EXCEPT !.charts[1].document = charts[i]]]
     \o <<[Good EXCEPT !.events = {}], [Good EXCEPT !.charts = <<>>], [Good EXCEPT !.charts = Append(@, lids)],
          [Good EXCEPT !.charted = FALSE, !.charts = <<>>], [Good EXCEPT !.charts[1].parses = FALSE]>>

Screens ==
  LET pt(table) == [Good EXCEPT !.ui.locales[1] = table]
      en(table) == [Good EXCEPT !.ui.locales[2] = table]
  IN <<[Good EXCEPT !.ui.default = "fr"], [Good EXCEPT !.ui.default = "base"], [Good EXCEPT !.ui.touch = 60],
      pt([Table("pt") EXCEPT !.keys = {StatusKey}]), en([Table("en") EXCEPT !.keys = {StatusKey}]),
      pt([Table("pt") EXCEPT !.keys = Labels \ {InputKey("go")}]), en(Table("pt")),
      pt([Table("pt") EXCEPT !.names[InputKey("go")] = "tick"]),
      [Good EXCEPT !.ui.breakpoints[1].min = 2000, !.ui.breakpoints[1].max = 2400, !.ui.breakpoints[2].min = 2401],
      [Good EXCEPT !.ui.breakpoints[1].max = 800], [Good EXCEPT !.ui.breakpoints[2].max = 900],
      [Good EXCEPT !.ui.breakpoints[2].id = "small"], [Good EXCEPT !.projectors[1].screen = "menu"],
      [Good EXCEPT !.projectors[1].states = {"lives"}], [Good EXCEPT !.projectors[1].inputs = {"jump"}],
      [Good EXCEPT !.projectors[1].inputs = {}], [Good EXCEPT !.projectors = Twice(@)],
      [Good EXCEPT !.inputs[2].action = 1], [Good EXCEPT !.states = Append(@, [id |-> "lives", key |-> 1])]>>

Misplaced ==
  [i \in 1..3 |-> [Good EXCEPT !.content[1].place = Elsewhere[i]]]
  \o [i \in 1..3 |-> [Good EXCEPT !.scenes[1].place = Elsewhere[i]]]
  \o [i \in 1..3 |-> [Good EXCEPT !.scenarios[1].place = Elsewhere[i]]]
  \o [i \in 1..3 |-> [Good EXCEPT !.audio[1].place = Elsewhere[i]]]
  \o [i \in 1..3 |-> [Good EXCEPT !.assets[1].place = Elsewhere[i]]]
  \o [i \in 1..3 |-> [Good EXCEPT !.manifest = <<"missing", "unparsable", "unshaped">>[i]]]
  \o <<[Good EXCEPT !.content[1].parses = FALSE], [Good EXCEPT !.prefabs[3].parses = FALSE],
       [Good EXCEPT !.scenes[1].parses = FALSE], [Good EXCEPT !.scenes[1].document.shaped = FALSE],
       [Good EXCEPT !.scenes[1].document.resources = <<"glow">>], [Good EXCEPT !.scenes = <<>>, !.prefabs = <<>>],
       [Good EXCEPT !.scenarios[1].parses = FALSE], [Good EXCEPT !.scenarios[1].document.shaped = FALSE],
       [Good EXCEPT !.scenarios[1].acts = {"jump"}], [Good EXCEPT !.scenarios[1].keys = {7}]>>

Contents ==
  LET deck == Good.content[1]
      world == Good.content[2]
      documentsOf == <<
        [deck EXCEPT !.target = "cards-9"], [deck EXCEPT !.document.schema = None], [deck EXCEPT !.document.field = "absent"],
        [deck EXCEPT !.document.field = "both"], [deck EXCEPT !.document.schema = "toys-1"],
        [deck EXCEPT !.target = "loop-3", !.document.schema = "loop-1"], [deck EXCEPT !.document.schema = "cards-2"],
        [deck EXCEPT !.document.shaped = FALSE], [deck EXCEPT !.document.id = "pack"],
        [deck EXCEPT !.document.cards[2].action = "go"], [deck EXCEPT !.document.cards[2].action = "jump"],
        [deck EXCEPT !.document.cards[2].id = "ace"], [deck EXCEPT !.document.members = Twice(<<[id |-> "room"]>>)],
        [deck EXCEPT !.id = "world.old", !.document.id = "world.old"],
        [deck EXCEPT !.id = "scene.hall", !.document.id = "scene.hall"],
        [deck EXCEPT !.id = "ludivra.game", !.document.id = "ludivra.game"],
        Content("moves", "motion", "motion", <<>>, Twice(<<[id |-> 1]>>)),
        Content("mass", "physics-world", "physics-world", <<>>, Twice(<<[id |-> 1]>>)),
        Content("crowd", "mass-population", "mass-population", <<>>, Twice(<<[id |-> 1]>>))>>
  IN [i \in DOMAIN documentsOf |-> [Good EXCEPT !.content[1] = documentsOf[i]]]
     \o <<[Good EXCEPT !.content[2].document.members = Twice(@)], [Good EXCEPT !.world = None],
          [Good EXCEPT !.world = "deck"], [Good EXCEPT !.regional = FALSE, !.world = None],
          [Good EXCEPT !.content = <<world>>], [Good EXCEPT !.audio[2].event = 1],
          [Good EXCEPT !.effects = Twice(@)], [Good EXCEPT !.assets = Twice(@)]>>

MCProjectsOf ==
  <<Good>> \o Trees \o Bases \o Instances \o Charted \o Screens \o Misplaced \o Contents
=============================================================================
