------------------------------ MODULE MCRuntime ------------------------------
(* A small game: one integer, two timers, a two-state chart. *)
EXTENDS Runtime, TLC

MCTimers == 1..2

MCMinInteger == -1

Reply(ok, draws, commands) == [ok |-> ok, draws |-> draws, commands |-> commands]

Command(kind, id, value) == [kind |-> kind, id |-> id, value |-> value]

\* Action 1 scores and arms timer 1.
Score(view) ==
  Reply(TRUE, 0, <<Command("add_integer", 1, 1), Command("start_timer", 1, 2)>>)

\* Action 2 draws; with a positive score it plays a sound and arms timer 2,
\* without one it cancels timer 1.
Charm(view) ==
  Reply(TRUE, 1, IF view.integers[1] > 0
                 THEN <<Command("present", 1, 0), Command("start_timer", 2, 1)>>
                 ELSE <<Command("cancel_timer", 1, 0)>>)

\* Action 3 draws and fails, or with a positive score asks for a region delta.
Build(view) ==
  IF view.integers[1] > 0
  THEN Reply(TRUE, 0, <<Command("present", 2, 0), Command("set_region_delta", 1, 0)>>)
  ELSE Reply(FALSE, 1, <<Command("add_integer", 1, 1)>>)

MCOnInput == <<[v \in Views |-> Score(v)], [v \in Views |-> Charm(v)],
               [v \in Views |-> Build(v)]>>

\* Timer 1 draws, and plays a sound on one side of the coin; timer 2 re-arms timer 1.
MCOnTimer ==
  <<[v \in Views |-> Reply(TRUE, 1, IF v.coin = 0 THEN <<>>
                                    ELSE <<Command("present", 1, 0)>>)],
    [v \in Views |-> Reply(TRUE, 0, <<Command("start_timer", 1, 1)>>)]>>

Stay(outcome, draws) == [outcome |-> outcome, draws |-> draws, commands |-> <<>>]

Move(to, commands) ==
  [outcome |-> "moved", draws |-> 0, commands |-> commands, to |-> to]

Always(reply) == [v \in Views |-> reply]

\* Action 1 makes an idle chart busy; a guard draws before it declines action 2;
\* the handler of action 3's transition out of "busy" fails.
MCOnEvent ==
  <<[idle |-> Always(Move("busy", <<>>)), busy |-> Always(Stay("unhandled", 0))],
    [idle |-> Always(Stay("unhandled", 1)), busy |-> Always(Stay("unhandled", 0))],
    [idle |-> Always(Stay("unhandled", 0)), busy |-> Always(Stay("failed", 0))]>>

\* Two ticks after it became busy the chart is idle again, and takes a point back.
MCOnElapsed ==
  [idle |-> <<>>,
   busy |-> 2 :> Always(Move("idle", <<Command("add_integer", 1, -1)>>))]
=============================================================================
