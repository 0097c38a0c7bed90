---------------------------- MODULE MCGameProject ----------------------------
(* A page has a loop to fetch and an effect to synthesise; the bundle of the web is *)
(* built from packages.                                                             *)
EXTENDS GameProject, MCProjects

CONSTANTS r1, r2, music, blip, v1, v2, crate, missing

MCFamilies == <<"packages", "web-bundle">>
MCDependsOn == [f \in {"packages", "web-bundle"} |-> IF f = "web-bundle" THEN {"packages"} ELSE {}]
MCBundles == {"web-bundle"}

\* A batch that writes nothing, one delta, two of the same chunk, and a transaction of two
\* regions.
RegionDelta(place, piece, payload) == [place |-> place, piece |-> piece, payload |-> payload]

MCBatches ==
  {<<>>, <<RegionDelta(1, 1, 1)>>, <<RegionDelta(1, 1, 1), RegionDelta(1, 1, 2)>>,
   <<RegionDelta(1, 2, 1), RegionDelta(2, 1, 1)>>}

MCIntents ==
  {[profile |-> "desktop-high", required |-> {"common"}, fallbacks |-> <<"desktop-compatible">>,
    enhanced |-> TRUE],
   [profile |-> "desktop-high", required |-> {"gpu-timestamps"},
    fallbacks |-> <<"desktop-compatible">>, enhanced |-> FALSE],
   [profile |-> "web-compatible", required |-> {"common"}, fallbacks |-> <<>>, enhanced |-> TRUE],
   [profile |-> "desktop-compatible", required |-> {"common"}, fallbacks |-> <<"web-compatible">>,
    enhanced |-> FALSE],
   [profile |-> "web-compatible", required |-> {"common"}, fallbacks |-> <<>>, enhanced |-> FALSE]}

-----------------------------------------------------------------------------
(* Workspaces of three packages, and one with two targets: imports and links that *)
(* cross the boundaries, and every way the packages can depend on each other.      *)

Bit(i, k) == (i \div 2^k) % 2 = 1

Member(name, directory, uses) == [name |-> name, directory |-> directory, uses |-> uses]

SourceOf(top, below, uses) == [top |-> top, below |-> below, kernel |-> FALSE, uses |-> uses]

Workspace ==
  [files |-> {[lists |-> {"required", "json", "schema"}, state |-> "good"], [lists |-> {"generated"}, state |-> "good"]},
   sources |-> {SourceOf("cli", <<"cli", "src">>, {"core", "control"}), SourceOf("renderer-three", <<"core", "web">>, {"three"})},
   packages |-> <<Member("cli", <<"cli">>, {"core"}), Member("core", <<"core">>, {}), Member("web", <<"core", "web">>, {"core"})>>,
   targets |-> {"kernel", "tests"}, aliases |-> [token \in {"ludivra-kernel"} |-> "kernel"],
   links |-> {<<"tests", "ludivra-kernel">>, <<"kernel", "system">>}, needed |-> {"core"}, built |-> {"core"}]

\* Every way three packages can need each other; every seventh also needs itself, and
\* every fourth one that is not there.
Uses(i) ==
  [core |-> {n \in {"cli", "web"} : Bit(i, IF n = "cli" THEN 0 ELSE 1)} \union (IF i % 7 = 0 THEN {"core"} ELSE {}),
   cli |-> {n \in {"core", "web"} : Bit(i, IF n = "core" THEN 2 ELSE 3)} \union (IF i % 4 = 0 THEN {"gone"} ELSE {}),
   web |-> {n \in {"core", "cli"} : Bit(i, IF n = "core" THEN 4 ELSE 5)}]

Dependencies ==
  [i \in 1..64 |->
     [Workspace EXCEPT !.packages = <<Member("cli", <<"cli">>, Uses(i).cli), Member("core", <<"core">>, Uses(i).core),
                                      Member("web", <<"core", "web">>, Uses(i).web)>>]]

Importing == <<
  [Workspace EXCEPT !.sources = @ \union {SourceOf("core", <<"core">>, {"cli"})}],
  [Workspace EXCEPT !.sources = @ \union {SourceOf("core", <<"core", "web", "src">>, {"cli", "core"})}],
  [Workspace EXCEPT !.sources = @ \union {SourceOf("core", <<"core", "web", "src">>, {"core"})}],
  [Workspace EXCEPT !.sources = @ \union {SourceOf("docs", <<"docs">>, {"cli", "core"})}],
  [Workspace EXCEPT !.sources = @ \union {SourceOf("core", <<"core", "utils">>, {"three", "lua host", "deep import", "capacitor"})}],
  [Workspace EXCEPT !.sources = @ \union {[SourceOf("kernel", <<"kernel">>, {"random", "electron"}) EXCEPT !.kernel = TRUE]}],
  [Workspace EXCEPT !.links = @ \union {<<"kernel", "tests">>}],
  [Workspace EXCEPT !.links = @ \union {<<"kernel", "ludivra-kernel">>}],
  [Workspace EXCEPT !.packages = Append(@, Member("core", <<"old">>, {"web"}))],
  [Workspace EXCEPT !.built = {}],
  [Workspace EXCEPT !.files = {[lists |-> {"required", "json", "schema"}, state |-> "missing"]}],
  [Workspace EXCEPT !.files = {[lists |-> {"required", "json"}, state |-> "unparsable"], [lists |-> {"generated"}, state |-> "stale"]}],
  [Workspace EXCEPT !.files = {[lists |-> {"required", "json", "package"}, state |-> "unparsable"]}]>>

MCWorkspacesOf == <<Workspace>> \o Importing \o Dependencies
=============================================================================
