---------------------------- MODULE WorkspaceGraph ----------------------------
(***************************************************************************)
(* game validate on the engine itself (validate.ts, scope "engine"): the   *)
(* files it needs, who may import what, and the walks over the             *)
(* dependencies between packages and between build targets.                *)
(*                                                                         *)
(* A workspace is a record: files [lists, state] by the lists they are on, *)
(* sources [top, below, kernel, uses] with the directory they are in and   *)
(* what they use, packages [name, directory, uses] in                      *)
(* the order they are found in, targets with aliases and links, and the    *)
(* packages the CLI needs and those its build script builds.  A directory  *)
(* is a sequence of names; comments of the kernel count for nothing.       *)
(***************************************************************************)
EXTENDS Integers, SequencesExt, FiniteSets

CONSTANT Workspaces  \* the workspaces that are validated, as a sequence

VARIABLES
  checked,   \* which workspace it is
  stage,     \* where the command is: idle, packages, targets or done
  stack,     \* the calls of visit that have not returned: a name, and what it has left
  visiting,  \* the names on the stack, to the command
  visited,   \* the names whose visit has returned
  found      \* the codes of its diagnostics

workspace == <<checked, stage, stack, visiting, visited, found>>

Inspected == Workspaces[checked]

When(fails, code) == IF fails THEN {code} ELSE {}

-----------------------------------------------------------------------------
(* Files *)

FileFaults(w) ==
  When(\E f \in w.files : "required" \in f.lists /\ f.state = "missing", "REQUIRED_FILE_MISSING")
    \union When(\E f \in w.files : "json" \in f.lists /\ f.state # "good", "JSON_INVALID")
    \union When(\E f \in w.files : "schema" \in f.lists /\ f.state # "good", "CONTRACT_SCHEMA_INVALID")
    \union When(\E f \in w.files : "generated" \in f.lists /\ f.state = "stale", "GENERATED_FILE_STALE")

\* What the simulation may not use.
KernelFaults(w) ==
  LET kernel == {s \in w.sources : s.kernel} IN
  UNION {When(\E s \in kernel : rule.thing \in s.uses, rule.code) : rule \in {
    [thing |-> "three", code |-> "KERNEL_IMPORTS_RENDERER"],
    [thing |-> "electron", code |-> "KERNEL_IMPORTS_ELECTRON"],
    [thing |-> "capacitor", code |-> "KERNEL_IMPORTS_CAPACITOR"],
    [thing |-> "steamworks", code |-> "KERNEL_IMPORTS_PLATFORM_SDK"],
    [thing |-> "random", code |-> "KERNEL_USES_NONDETERMINISTIC_RNG"]}}

Generic == {"common", "helpers", "utils"}

\* Each thing has the directories it may be used from.
BoundaryRules ==
  {[thing |-> "three", homes |-> {"renderer-three"}, code |-> "THREE_IMPORT_OUTSIDE_ADAPTER"],
   [thing |-> "electron", homes |-> {"hosts/electron"}, code |-> "ELECTRON_IMPORT_OUTSIDE_HOST"],
   [thing |-> "steamworks", homes |-> {"hosts/electron"}, code |-> "STEAMWORKS_IMPORT_OUTSIDE_ADAPTER"],
   [thing |-> "capacitor", homes |-> {"hosts/capacitor"}, code |-> "CAPACITOR_IMPORT_OUTSIDE_HOST"],
   [thing |-> "deep import", homes |-> {}, code |-> "DEEP_IMPORT_FORBIDDEN"],
   [thing |-> "control", homes |-> {"cli", "tools"}, code |-> "CONTROL_PROTOCOL_OUTSIDE_TOOLING"],
   [thing |-> "lua host", homes |-> {}, code |-> "LUA_HOST_ACCESS_FORBIDDEN"]}

BoundaryFaults(w) ==
  LET scripts == {s \in w.sources : ~s.kernel} IN
  (UNION {When(\E s \in scripts : rule.thing \in s.uses /\ s.top \notin rule.homes, rule.code)
          : rule \in BoundaryRules})
    \union When(\E s \in w.sources : ToSet(s.below) \cap Generic # {}, "GENERIC_MODULE_FORBIDDEN")

-----------------------------------------------------------------------------
(* Packages and targets *)

Names(w) == {p.name : p \in ToSet(w.packages)}

\* Of two packages with one name, the last that is found stays.
PackageOf(w, name) ==
  w.packages[CHOOSE i \in DOMAIN w.packages :
    w.packages[i].name = name /\ \A j \in DOMAIN w.packages : w.packages[j].name = name => j <= i]

DeclaredFaults(w) ==
  When(Cardinality(Names(w)) # Len(w.packages), "WORKSPACE_PACKAGE_DUPLICATE")
    \union When(\E name \in Names(w) : ~(PackageOf(w, name).uses \subseteq Names(w)),
                "WORKSPACE_DEPENDENCY_MISSING")

\* The package of a source is the one deepest in the directories above it.
Owners(w, s) ==
  LET above == {name \in Names(w) : IsPrefix(PackageOf(w, name).directory, s.below)} IN
  {name \in above : \A other \in above :
     Len(PackageOf(w, other).directory) <= Len(PackageOf(w, name).directory)}

\* What the sources of a package import of the workspace, itself left out.
Imports(w, name) ==
  (UNION {s.uses \cap Names(w) : s \in {t \in w.sources : ~t.kernel /\ name \in Owners(w, t)}}) \ {name}

ImportFaults(w) ==
  When(\E name \in Names(w) : ~(Imports(w, name) \subseteq PackageOf(w, name).uses),
       "WORKSPACE_DEPENDENCY_UNDECLARED")
    \union When(~(w.needed \subseteq w.built), "BUILD_SCRIPT_DEPENDENCY_MISSING")

\* The graph a stage walks.  A package that is not there has no dependencies, and a link
\* names a target or an alias of one.
Roots(w) == IF stage = "packages" THEN Names(w) ELSE w.targets

Resolved(w, token) == IF token \in DOMAIN w.aliases THEN w.aliases[token] ELSE token

Needs(w, name) ==
  IF stage = "packages"
  THEN IF name \in Names(w) THEN PackageOf(w, name).uses ELSE {}
  ELSE {Resolved(w, link[2]) : link \in {l \in w.links : l[1] = name}} \cap w.targets

CycleCode == IF stage = "packages" THEN "WORKSPACE_DEPENDENCY_CYCLE" ELSE "CMAKE_DEPENDENCY_CYCLE"

-----------------------------------------------------------------------------

WorkspaceInit ==
  /\ checked \in DOMAIN Workspaces
  /\ stage = "idle"
  /\ stack = <<>> /\ visiting = {} /\ visited = {} /\ found = {}

\* A package.json that cannot be read ends the command, whatever it had found.
ReadFiles ==
  /\ stage = "idle"
  /\ IF \E f \in Inspected.files : "package" \in f.lists /\ f.state # "good"
     THEN stage' = "done" /\ found' = {"CLI_INTERNAL_ERROR"}
     ELSE /\ stage' = "packages"
          /\ found' = FileFaults(Inspected) \union KernelFaults(Inspected)
                        \union BoundaryFaults(Inspected) \union DeclaredFaults(Inspected)
  /\ UNCHANGED <<checked, stack, visiting, visited>>

\* Defect: whoever was visited is asked for first, and marked on arrival.
VisitMarked(name, calls) ==
  IF name \in visited
  THEN stack' = calls /\ UNCHANGED <<visiting, visited, found>>
  ELSE /\ stack' = Append(calls, [name |-> name, left |-> Needs(Inspected, name)])
       /\ visited' = visited \union {name}
       /\ UNCHANGED <<visiting, found>>

\* A call of visit, with the calls that are under it: a name on the stack closes a
\* cycle, one that was visited has nothing new below it.
Visit(name, calls) ==
  IF name \in visiting
  THEN /\ found' = found \union {CycleCode}
       /\ stack' = calls
       /\ UNCHANGED <<visiting, visited>>
  ELSE IF name \in visited
  THEN stack' = calls /\ UNCHANGED <<visiting, visited, found>>
  ELSE /\ stack' = Append(calls, [name |-> name, left |-> Needs(Inspected, name)])
       /\ visiting' = visiting \union {name}
       /\ UNCHANGED <<visited, found>>

VisitRoot ==
  /\ stage \in {"packages", "targets"} /\ stack = <<>>
  /\ \E name \in Roots(Inspected) \ visited : Visit(name, <<>>)
  /\ UNCHANGED <<checked, stage>>

\* The dependencies of a name are tried in the order they are declared, whatever it is.
VisitNext ==
  /\ stack # <<>> /\ Last(stack).left # {}
  /\ \E name \in Last(stack).left :
       Visit(name, Append(Front(stack), [Last(stack) EXCEPT !.left = @ \ {name}]))
  /\ UNCHANGED <<checked, stage>>

ReturnVisit ==
  /\ stack # <<>> /\ Last(stack).left = {}
  /\ visiting' = visiting \ {Last(stack).name}
  /\ visited' = visited \union {Last(stack).name}
  /\ stack' = Front(stack)
  /\ UNCHANGED <<checked, stage, found>>

EndWalk ==
  /\ stage \in {"packages", "targets"} /\ stack = <<>> /\ Roots(Inspected) \subseteq visited
  /\ stage' = IF stage = "packages" THEN "targets" ELSE "done"
  /\ found' = found \union (IF stage = "packages" THEN ImportFaults(Inspected) ELSE {})
  /\ visited' = {}
  /\ UNCHANGED <<checked, stack, visiting>>

WorkspaceNext == ReadFiles \/ VisitRoot \/ VisitNext \/ ReturnVisit \/ EndWalk

WorkspaceSpec == WorkspaceInit /\ [][WorkspaceNext]_workspace

-----------------------------------------------------------------------------
(* Properties *)

\* Names each of which needs one of them: none can come first.
Circular(next, names) ==
  \E around \in (SUBSET names) \ {{}} : \A n \in around : next[n] \intersect around # {}

\* Whatever order the walk took, it reports a cycle exactly when there is one, on the
\* packages and on the targets; and where it reports nothing, the packages can be built
\* one after the other, each after those it declares and those its sources import.
CleanWorkspacesBuild ==
  stage = "done" /\ found # {"CLI_INTERNAL_ERROR"} =>
    LET uses == [n \in Names(Inspected) |-> PackageOf(Inspected, n).uses]
        links == [t \in Inspected.targets |-> {Resolved(Inspected, l[2]) : l \in {m \in Inspected.links : m[1] = t}}]
        needs == [n \in Names(Inspected) |-> uses[n] \union Imports(Inspected, n)]
    IN /\ "WORKSPACE_DEPENDENCY_CYCLE" \in found <=> Circular(uses, Names(Inspected))
       /\ "CMAKE_DEPENDENCY_CYCLE" \in found <=> Circular(links, Inspected.targets)
       /\ found = {} => ~Circular(needs, Names(Inspected))
=============================================================================
