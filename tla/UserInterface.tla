---------------------------- MODULE UserInterface ----------------------------
(***************************************************************************)
(* The user interface a project declares: projectors that turn committed   *)
(* state into a view model (ui-inspection-projector.ts, ui-projection.ts), *)
(* tables of labels, the nodes a renderer makes of it (control-worker.ts,  *)
(* ui-renderer.ts), and the policy they are checked against                *)
(* (ui-validation.ts).                                                     *)
(*                                                                         *)
(* A project is a record with its inputs [id, action], states [id, key],   *)
(* projectors [id, screen, states, inputs] and ui [default, locales,       *)
(* breakpoints, touch].  Text is the key it is looked up by; pixels,       *)
(* colours and values are left out, but for the height of a button.        *)
(***************************************************************************)
EXTENDS Integers, SequencesExt, FiniteSets, ContentCompiler

CONSTANTS
  HeadlessWidth,  \* the width of the headless viewport: 1280
  HeadlessButton  \* the height of the buttons of its layout: 56

ASSUME HeadlessAssumption == {HeadlessWidth, HeadlessButton} \subseteq Nat

\* The label of an element, and the parameters it is given.
NoKey == <<None, None>>
StatusKey == <<"runtime", "status">>
StateKey(id) == <<"state", id>>
InputKey(id) == <<"input", id>>
Parameter(key) == CASE key = StatusKey -> "tick" [] key[1] = "state" -> "value" [] OTHER -> None

LabelKeys(projector) ==
  {StatusKey} \union {StateKey(id) : id \in projector.states} \union {InputKey(id) : id \in projector.inputs}

\* A renderer never falls back to another table: a locale has to be declared, and to have
\* every label of the projector.
LocaleFaults(ui, requested, projector) ==
  LET locale == IF requested = None THEN ui.default ELSE requested
      declared == {table \in Members(ui.locales) : table.locale = locale}
  IN IF locale = "base" THEN {}
     ELSE Check(declared = {}, "UI_LOCALE_UNDECLARED")
            \union Check(\E table \in declared : ~(LabelKeys(projector) \subseteq table.keys),
                         "UI_LOCALE_KEY_MISSING")

\* A label that names a parameter its element does not have cannot be resolved.
LabelFaults(ui, requested, projector) ==
  LET locale == IF requested = None THEN ui.default ELSE requested IN
  Check(\E table \in Members(ui.locales), key \in LabelKeys(projector) :
          table.locale = locale /\ key \in DOMAIN table.names
          /\ table.names[key] \notin {None, Parameter(key)},
        "UI_LOCALE_PARAM_MISSING")

\* A projector knows the states and inputs it selects when it is created.
ProjectorFaults(project, projector) ==
  Check(~(projector.states \subseteq Ids(project.states)), "UI_PROJECTOR_STATE_UNKNOWN")
    \union Check(~(projector.inputs \subseteq Ids(project.inputs)), "UI_PROJECTOR_INPUT_UNKNOWN")

-----------------------------------------------------------------------------
(* The view model, and its rendering *)

Node(role, id, next, previous) == [role |-> role, id |-> id, next |-> next, previous |-> previous]

\* Of the ids in their order, the chosen.
Selecting(chosen, ids, id) == IF id \in chosen THEN Append(ids, id) ELSE ids

Ring(projector) ==
  FoldLeft(LAMBDA ids, id : Selecting(projector.inputs, ids, id), <<>>, projector.order)

\* The actions of a screen are a ring, in the order they are declared in, and the first
\* of them has the focus.
ViewModel(projector) ==
  LET actions == Ring(projector)
      n == Len(actions)
      at(i) == InputKey(actions[i])
  IN [focus |-> IF n = 0 THEN NoKey ELSE at(1),
      nodes |-> {Node("status", StatusKey, NoKey, NoKey)}
                \union {Node("status", StateKey(id), NoKey, NoKey) : id \in projector.states}
                \union {Node("button", at(i), at((i % n) + 1), at(((i + n - 2) % n) + 1)) : i \in 1..n}]

\* The nodes of the headless adapter: everything visible, each with the role of its node.
HeadlessSnapshot(model) ==
  {[id |-> node.id, role |-> node.role, focused |-> model.focus = node.id,
    height |-> IF node.role = "button" THEN HeadlessButton ELSE 0] : node \in model.nodes}

\* The width a breakpoint that is open at its end reaches to.
Open == 0

Matches(breakpoint, width) ==
  width >= breakpoint.min /\ (breakpoint.max = Open \/ width <= breakpoint.max)

BreakpointFaults(ui, width) ==
  Check(~\E b \in Members(ui.breakpoints) : Matches(b, width), "UI_BREAKPOINT_UNDECLARED")

\* validateRenderedUi: semantic intent against what was rendered.
RenderedFaults(model, snapshot, touch) ==
  LET rendered(id) == {r \in snapshot : r.id = id}
      buttons == {node.id : node \in {n \in model.nodes : n.role = "button"}}
  IN Check(\E r \in snapshot : r.id \notin {n.id : n \in model.nodes}, "UI_NODE_UNDECLARED")
       \union Check(\E n \in model.nodes : rendered(n.id) = {}, "UI_NODE_NOT_RENDERED")
       \union Check(\E n \in model.nodes : \E r \in rendered(n.id) : r.role # n.role,
                    "UI_ACCESSIBILITY_ROLE_MISMATCH")
       \union Check(\E n \in model.nodes : n.role = "button" /\ ~({n.next, n.previous} \subseteq buttons),
                    "UI_NAVIGATION_UNDECLARED")
       \union Check(\E n \in model.nodes : n.role = "button" /\ \E r \in rendered(n.id) : r.height < touch,
                    "UI_TOUCH_TARGET_TOO_SMALL")
       \union Check(\E r \in snapshot : r.focused # (model.focus = r.id), "UI_FOCUS_MISMATCH")

\* What a host meets when it projects and renders the screen of the game.
ScreenFaults(project, requested) ==
  LET screens == {p \in Members(project.projectors) : p.screen = "game"} IN
  (UNION {ProjectorFaults(project, p) : p \in Members(project.projectors)})
    \union Check(screens = {}, "UI_PROJECTOR_GAME_MISSING")
    \union (UNION {LocaleFaults(project.ui, requested, p) : p \in Members(project.projectors)})
    \union (UNION {LabelFaults(project.ui, requested, p) : p \in screens})

\* What a scenario finds in an inspection of it (validateUiContracts).
InspectionFaults(project) ==
  BreakpointFaults(project.ui, HeadlessWidth)
    \union UNION {RenderedFaults(ViewModel(p), HeadlessSnapshot(ViewModel(p)), project.ui.touch)
                  : p \in {q \in Members(project.projectors) : q.screen = "game"}}
=============================================================================
