--------------------------- MODULE MCLoopbackRoom ---------------------------
(* Two peers and a game in which every tick with a move may fail: a second sound *)
(* before the application drains the first is refused, and is not later.         *)
EXTENDS LoopbackRoom

MCTimers == {}

MCMinInteger == 0

Reply(commands) == [ok |-> TRUE, draws |-> 0, commands |-> commands]

Command(kind, id, value) == [kind |-> kind, id |-> id, value |-> value]

\* Action 1 plays a sound; action 2 scores, once.
MCOnInput ==
  <<[v \in Views |-> Reply(<<Command("present", 1, 0)>>)],
    [v \in Views |-> Reply(<<Command("add_integer", 1, 1)>>)]>>

MCOnTimer == <<>>

Declines == [v \in Views |-> [outcome |-> "unhandled", draws |-> 0, commands |-> <<>>]]

MCOnEvent == <<[only |-> Declines], [only |-> Declines]>>

MCOnElapsed == [only |-> <<>>]
=============================================================================
