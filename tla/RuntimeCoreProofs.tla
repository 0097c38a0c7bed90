--------------------------- MODULE RuntimeCoreProofs ---------------------------
(***************************************************************************)
(* What the operators of RuntimeCore do to a runtime, for every gameplay   *)
(* script, statechart and limit; whoever drives the runtime cites this.    *)
(*                                                                         *)
(* The first part needs nothing of what handlers and commands do: they     *)
(* replace named fields of the runtime, and never the tick, the frames or  *)
(* the state the replay starts from.  The second follows them through the  *)
(* folds of a tick, command by command and handler by handler: the fields  *)
(* stay in their ranges, the hash tells the integers and the timers, and   *)
(* it takes the pending inputs of a tick exactly when that is committed.   *)
(***************************************************************************)
EXTENDS RuntimeCore, FiniteSetTheorems, TLAPS

Fields == {"tick", "hash", "integers", "draws", "timers", "chart", "pending", "events",
           "nextSequence", "initial", "frames"}

IsRuntime(r) == r = [f \in Fields |-> r[f]]

\* Two states of a runtime with the same replay behind them.
SameReplay(r, s) ==
  /\ IsRuntime(s)
  /\ s.tick = r.tick /\ s.frames = r.frames /\ s.initial = r.initial
  /\ s.pending = r.pending

LEMMA ApplyKeepsReplay ==
  ASSUME NEW r, IsRuntime(r), NEW commands
  PROVE  /\ SameReplay(r, ApplyCommands(r, commands).runtime)
         /\ ApplyCommands(r, commands).runtime.chart = r.chart
<1> DEFINE applied == CommandsApplied(r, commands)
           committed == [r EXCEPT !.integers = applied.runtime.integers,
                                  !.timers = applied.runtime.timers,
                                  !.events = applied.runtime.events,
                                  !.nextSequence = applied.runtime.nextSequence,
                                  !.hash = applied.runtime.hash]
<1>1. SameReplay(r, r)
  BY DEF SameReplay
<1>2. SameReplay(r, committed) /\ committed.chart = r.chart
  <2> HIDE DEF applied
  <2> QED BY DEF SameReplay, IsRuntime, Fields
<1>3. ApplyCommands(r, commands).runtime \in {r, committed}
  BY DEF ApplyCommands, CommitCommands, Outcome
<1> QED BY <1>1, <1>2, <1>3

LEMMA AppliedKeepsReplay ==
  ASSUME NEW r, IsRuntime(r), NEW handling
  PROVE  /\ SameReplay(r, Applied(r, handling).runtime)
         /\ Applied(r, handling).runtime.chart = r.chart
BY ApplyKeepsReplay DEF Applied, Outcome, SameReplay

LEMMA EmptySequence ==
  Len(<<>>) = 0 /\ \A S : <<>> \in Seq(S)
OBVIOUS

LEMMA AppendCounts ==
  ASSUME NEW S, NEW frames \in Seq(S), NEW frame
  PROVE  \E T : Append(frames, frame) \in Seq(T)
                /\ Len(Append(frames, frame)) = Len(frames) + 1
<1> DEFINE T == S \union {frame}
<1>1. frames \in Seq(T) /\ frame \in T
  OBVIOUS
<1>2. Append(frames, frame) \in Seq(T) /\ Len(Append(frames, frame)) = Len(frames) + 1
  <2> HIDE DEF T
  <2> QED BY <1>1
<1> QED BY <1>2

-----------------------------------------------------------------------------
(* The two outcomes of a tick *)

\* A tick that fails: only the statechart is put back, and pending may be sorted.
Failed(r, s) ==
  /\ IsRuntime(s)
  /\ s.tick = r.tick /\ s.frames = r.frames /\ s.initial = r.initial /\ s.chart = r.chart
  /\ s.pending \in {r.pending, SortedInputs(r.pending)}

\* A tick that is committed: one more tick, one more frame.
Confirmed(r, frame, s) ==
  /\ IsRuntime(s)
  /\ s.tick = r.tick + 1 /\ s.initial = r.initial
  /\ s.frames = Append(r.frames, frame)

LEMMA TimersKeepReplay ==
  ASSUME NEW r, IsRuntime(r)
  PROVE  /\ SameReplay(r, FireExpiredTimers(r).runtime)
         /\ FireExpiredTimers(r).runtime.chart = r.chart
<1> DEFINE advanced == [r EXCEPT !.timers = AdvanceTimers(@)]
           handling == TimersHandled(advanced, Expired(r.timers))
           drawn == [advanced EXCEPT !.draws = handling.draws]
<1>1. SameReplay(r, advanced) /\ advanced.chart = r.chart
  <2> DEFINE timers == AdvanceTimers(r.timers)
  <2>1. advanced = [r EXCEPT !.timers = timers]
    OBVIOUS
  <2> HIDE DEF timers
  <2>2. SameReplay(r, [r EXCEPT !.timers = timers]) /\ [r EXCEPT !.timers = timers].chart = r.chart
    BY DEF SameReplay, IsRuntime, Fields
  <2> QED BY <2>1, <2>2
<1>2. FireExpiredTimers(r) = Applied(drawn, handling)
  BY DEF FireExpiredTimers, FireTimers, AfterTimers
<1> HIDE DEF advanced, handling
<1>3. SameReplay(advanced, drawn) /\ drawn.chart = advanced.chart
  BY <1>1 DEF SameReplay, IsRuntime, Fields
<1> HIDE DEF drawn
<1>4. /\ SameReplay(drawn, Applied(drawn, handling).runtime)
      /\ Applied(drawn, handling).runtime.chart = drawn.chart
  BY <1>3, AppliedKeepsReplay DEF SameReplay
<1> QED BY <1>1, <1>2, <1>3, <1>4 DEF SameReplay

LEMMA InputsKeepReplay ==
  ASSUME NEW r, IsRuntime(r), NEW handling
  PROVE  SameReplay(r, AfterInputs(r, handling).runtime)
<1> DEFINE drawn == [r EXCEPT !.draws = handling.draws, !.chart = handling.chart,
                              !.hash = handling.hash]
<1>1. SameReplay(r, drawn)
  BY DEF SameReplay, IsRuntime, Fields
<1>2. AfterInputs(r, handling) = Applied(drawn, handling)
  BY DEF AfterInputs
<1> HIDE DEF drawn
<1>3. SameReplay(drawn, Applied(drawn, handling).runtime)
  BY <1>1, AppliedKeepsReplay DEF SameReplay
<1> QED BY <1>1, <1>2, <1>3 DEF SameReplay

LEMMA FinishDecides ==
  ASSUME NEW r, IsRuntime(r), NEW applied, SameReplay(r, applied.runtime)
  PROVE  /\ Finish(r.chart, applied).error = "none" =>
              Confirmed(r, r.pending, Finish(r.chart, applied).runtime)
         /\ Finish(r.chart, applied).error # "none" =>
              /\ Failed(r, Finish(r.chart, applied).runtime)
              /\ Finish(r.chart, applied).runtime.pending = r.pending
<1> DEFINE s == applied.runtime
<1>1. CASE applied.error = "none"
  <2> DEFINE mark == <<"tick", s.tick + 1, s.pending, s.timers, s.draws, s.chart>>
             confirmed == [s EXCEPT !.tick = s.tick + 1,
                                    !.frames = Append(s.frames, s.pending),
                                    !.hash = Append(s.hash, mark),
                                    !.pending = <<>>]
  <2>1. Finish(r.chart, applied) = Outcome("none", confirmed)
    BY <1>1 DEF Finish, Confirm
  <2> HIDE DEF s, mark
  <2>2. /\ IsRuntime(confirmed) /\ confirmed.tick = s.tick + 1
        /\ confirmed.frames = Append(s.frames, s.pending) /\ confirmed.initial = s.initial
    BY DEF s, SameReplay, IsRuntime, Fields
  <2> HIDE DEF confirmed
  <2>3. Confirmed(r, r.pending, confirmed)
    BY <2>2 DEF s, SameReplay, Confirmed
  <2> QED BY <2>1, <2>3 DEF Outcome
<1>2. CASE applied.error # "none"
  <2> DEFINE restored == [s EXCEPT !.chart = r.chart]
  <2>1. Finish(r.chart, applied) = Outcome(applied.error, restored)
    BY <1>2 DEF Finish
  <2> HIDE DEF s
  <2>2. /\ IsRuntime(restored) /\ restored.chart = r.chart /\ restored.tick = s.tick
        /\ restored.frames = s.frames /\ restored.initial = s.initial
        /\ restored.pending = s.pending
    BY DEF s, SameReplay, IsRuntime, Fields
  <2> HIDE DEF restored
  <2>3. Failed(r, restored) /\ restored.pending = r.pending
    BY <2>2 DEF s, SameReplay, Failed
  <2> QED BY <1>2, <2>1, <2>3 DEF Outcome
<1> QED BY <1>1, <1>2

\* Whatever the handlers do, a tick is confirmed or leaves the replay as it was.
LEMMA TickDecides ==
  ASSUME NEW r, IsRuntime(r)
  PROVE  /\ CommitTick(r).error = "none" => Confirmed(r, SortedInputs(r.pending), CommitTick(r).runtime)
         /\ CommitTick(r).error # "none" => Failed(r, CommitTick(r).runtime)
<1> DEFINE fired == FireExpiredTimers(r)
           sorted == [fired.runtime EXCEPT !.pending = SortedInputs(fired.runtime.pending)]
           applied == AfterInputs(sorted, InputsHandled(sorted))
<1>1. SameReplay(r, fired.runtime) /\ fired.runtime.chart = r.chart
  BY TimersKeepReplay
<1>2. CASE fired.error # "none"
  <2>1. CommitTick(r) = fired
    BY <1>2 DEF CommitTick, CommitInputs
  <2> HIDE DEF fired
  <2> QED BY <1>1, <1>2, <2>1 DEF SameReplay, Failed
<1>3. CASE fired.error = "none"
  <2>1. CommitTick(r) = Finish(sorted.chart, applied)
    BY <1>3 DEF CommitTick, CommitInputs, CommitSorted
  <2> HIDE DEF fired
  <2>2. /\ IsRuntime(sorted) /\ sorted.tick = r.tick /\ sorted.frames = r.frames
        /\ sorted.initial = r.initial /\ sorted.chart = r.chart
        /\ sorted.pending = SortedInputs(r.pending)
    BY <1>1 DEF SameReplay, IsRuntime, Fields
  <2>3. SameReplay(sorted, applied.runtime)
    <3> HIDE DEF sorted
    <3> QED BY <2>2, InputsKeepReplay
  <2> HIDE DEF sorted, applied
  <2> DEFINE done == Finish(sorted.chart, applied)
  <2>4. /\ done.error = "none" => Confirmed(sorted, sorted.pending, done.runtime)
        /\ done.error # "none" => Failed(sorted, done.runtime)
                                  /\ done.runtime.pending = sorted.pending
    BY <2>2, <2>3, FinishDecides
  <2> HIDE DEF done
  <2>5. done.error = "none" => Confirmed(r, SortedInputs(r.pending), done.runtime)
    BY <2>2, <2>4 DEF Confirmed
  <2>6. done.error # "none" => Failed(r, done.runtime)
    BY <2>2, <2>4 DEF Failed
  <2> QED BY <2>1, <2>5, <2>6 DEF done
<1> QED BY <1>2, <1>3

LEMMA NewRuntimeReplay ==
  /\ IsRuntime(NewRuntime)
  /\ NewRuntime.tick = 0 /\ NewRuntime.initial.tick = 0 /\ NewRuntime.frames = <<>>
BY DEF NewRuntime, InitialSave, IsRuntime, Fields

LEMMA LoadStartsReplay ==
  ASSUME NEW r, IsRuntime(r), NEW save, LoadSaveInto(r, save).error = "none"
  PROVE  /\ IsRuntime(LoadSaveInto(r, save).runtime)
         /\ LoadSaveInto(r, save).runtime.tick = save.tick
         /\ LoadSaveInto(r, save).runtime.initial = save
         /\ LoadSaveInto(r, save).runtime.frames = <<>>
<1> DEFINE loaded == [r EXCEPT !.tick = save.tick, !.hash = save.hash,
                               !.integers = save.integers, !.draws = save.draws,
                               !.timers = save.timers, !.chart = save.chart,
                               !.initial = save, !.frames = <<>>, !.events = <<>>]
<1>1. LoadSaveInto(r, save).runtime = loaded
  BY DEF LoadSaveInto, Outcome
<1>2. /\ IsRuntime(loaded) /\ loaded.tick = save.tick /\ loaded.initial = save
      /\ loaded.frames = <<>>
  BY DEF IsRuntime, Fields
<1> QED BY <1>1, <1>2

\* Nothing is pending in a new runtime, so it takes any save.
LEMMA RestartLoads ==
  ASSUME NEW save
  PROVE  /\ IsRuntime(LoadSaveInto(NewRuntime, save).runtime)
         /\ LoadSaveInto(NewRuntime, save).runtime.tick = save.tick
         /\ LoadSaveInto(NewRuntime, save).runtime.initial = save
         /\ LoadSaveInto(NewRuntime, save).runtime.frames = <<>>
<1> DEFINE loaded == [NewRuntime EXCEPT !.tick = save.tick, !.hash = save.hash,
                                        !.integers = save.integers, !.draws = save.draws,
                                        !.timers = save.timers, !.chart = save.chart,
                                        !.initial = save, !.frames = <<>>, !.events = <<>>]
<1>1. NewRuntime.pending = <<>>
  BY DEF NewRuntime
<1>2. LoadSaveInto(NewRuntime, save) = Outcome("none", loaded)
  BY <1>1 DEF LoadSaveInto
<1>3. LoadSaveInto(NewRuntime, save).error = "none"
  <2> HIDE DEF loaded
  <2> QED BY <1>2 DEF Outcome
<1> QED BY <1>3, NewRuntimeReplay, LoadStartsReplay

-----------------------------------------------------------------------------
(* Putting a sequence in order *)

\* less puts the members of S in one order.
Orders(less, S) ==
  /\ \A a, b \in S : <<a, b>> \in less => <<b, a>> \notin less
  /\ \A a, b, c \in S : <<a, b>> \in less /\ <<b, c>> \in less => <<a, c>> \in less
  /\ \A a, b \in S : a = b \/ <<a, b>> \in less \/ <<b, a>> \in less

InOrder(seq, less) ==
  \A i, j \in DOMAIN seq : i < j => <<seq[i], seq[j]>> \in less \/ seq[i] = seq[j]

\* What comes no later than i, and where that puts i.
NoLater(seq, less, i) ==
  {j \in DOMAIN seq : <<seq[j], seq[i]>> \in less \/ (seq[j] = seq[i] /\ j <= i)}

\* Each member goes to its place.
Placed(seq, place) == [k \in DOMAIN seq |-> seq[CHOOSE i \in DOMAIN seq : place[i] = k]]

Ranked(seq, less) ==
  Placed(seq, [i \in DOMAIN seq |-> Cardinality(NoLater(seq, less, i))])

LEMMA NoLaterOrders ==
  ASSUME NEW S, NEW less, Orders(less, S), NEW n \in Nat, NEW seq \in [1..n -> S],
         NEW i \in 1..n, NEW j \in 1..n
  PROVE  /\ i \in NoLater(seq, less, i)
         /\ i \in NoLater(seq, less, j) => NoLater(seq, less, i) \subseteq NoLater(seq, less, j)
         /\ i \in NoLater(seq, less, j) /\ j \in NoLater(seq, less, i) => i = j
         /\ i \in NoLater(seq, less, j) \/ j \in NoLater(seq, less, i)
<1>1. DOMAIN seq = 1..n /\ \A k \in 1..n : seq[k] \in S
  OBVIOUS
<1>2. i \in NoLater(seq, less, i)
  BY DEF NoLater
<1>3. ASSUME i \in NoLater(seq, less, j), NEW k \in NoLater(seq, less, i)
      PROVE  k \in NoLater(seq, less, j)
  <2>1. k \in 1..n /\ seq[k] \in S /\ seq[i] \in S /\ seq[j] \in S
    BY <1>1 DEF NoLater
  <2>2. k <= i /\ i <= j => k <= j
    BY <2>1
  <2> QED BY <1>3, <2>1, <2>2 DEF NoLater, Orders
<1>4. seq[i] \in S /\ seq[j] \in S /\ (i <= j /\ j <= i => i = j) /\ (i <= j \/ j <= i)
  BY <1>1
<1>5. i \in NoLater(seq, less, j) /\ j \in NoLater(seq, less, i) => i = j
  BY <1>4 DEF NoLater, Orders
<1>6. i \in NoLater(seq, less, j) \/ j \in NoLater(seq, less, i)
  BY <1>1, <1>4 DEF NoLater, Orders
<1> QED BY <1>2, <1>3, <1>5, <1>6

\* Every sequence can be put in order, each of its places moving to one other.
THEOREM RankedIsOrdered ==
  ASSUME NEW S, NEW less, Orders(less, S), NEW n \in Nat, NEW seq \in [1..n -> S]
  PROVE  /\ \E p \in Bijection(1..n, 1..n) : Ranked(seq, less) = [k \in 1..n |-> seq[p[k]]]
         /\ Ranked(seq, less) \in [1..n -> S]
         /\ InOrder(Ranked(seq, less), less)
<1> DEFINE B(i) == NoLater(seq, less, i)
           rank == [i \in 1..n |-> Cardinality(B(i))]
<1>1. IsFiniteSet(1..n) /\ Cardinality(1..n) = n /\ DOMAIN seq = 1..n
  BY FS_Interval
<1>2. ASSUME NEW i \in 1..n
      PROVE  /\ IsFiniteSet(B(i)) /\ Cardinality(B(i)) \in Nat
             /\ rank[i] = Cardinality(B(i)) /\ rank[i] \in 1..n
  <2>1. B(i) \in SUBSET (1..n) /\ i \in B(i)
    BY <1>1, NoLaterOrders DEF NoLater
  <2>2. IsFiniteSet(B(i)) /\ Cardinality(B(i)) <= n
    BY <1>1, <2>1, FS_Subset
  <2>3. Cardinality(B(i)) \in Nat /\ Cardinality(B(i)) # 0
    BY <2>1, <2>2, FS_CardinalityType, FS_EmptySet
  <2>4. rank[i] = Cardinality(B(i))
    OBVIOUS
  <2> HIDE DEF B, rank
  <2> QED BY <2>2, <2>3, <2>4
<1>3. ASSUME NEW i \in 1..n, NEW j \in 1..n, i \in B(j), i # j
      PROVE  rank[i] < rank[j]
  <2>1. B(i) \in SUBSET B(j) /\ j \in B(j) /\ j \notin B(i)
    <3>1. i \in NoLater(seq, less, j)
      BY <1>3
    <3>2. NoLater(seq, less, i) \subseteq NoLater(seq, less, j) /\ j \notin NoLater(seq, less, i)
      BY <1>3, <3>1, NoLaterOrders
    <3>3. j \in NoLater(seq, less, j)
      BY NoLaterOrders
    <3> QED BY <3>2, <3>3
  <2>2. /\ IsFiniteSet(B(j)) /\ Cardinality(B(i)) \in Nat /\ Cardinality(B(j)) \in Nat
        /\ rank[i] = Cardinality(B(i)) /\ rank[j] = Cardinality(B(j))
    BY <1>2
  <2> HIDE DEF B, rank
  <2>3. Cardinality(B(i)) <= Cardinality(B(j)) /\ (Cardinality(B(j)) = Cardinality(B(i)) => B(j) = B(i))
    BY <2>1, <2>2, FS_Subset
  <2> QED BY <2>1, <2>2, <2>3
<1>4. \A i, j \in 1..n : rank[i] = rank[j] => i = j
  <2> SUFFICES ASSUME NEW i \in 1..n, NEW j \in 1..n, rank[i] = rank[j], i # j PROVE FALSE
    OBVIOUS
  <2>1. i \in B(j) \/ j \in B(i)
    BY NoLaterOrders
  <2>2. rank[i] \in Int /\ rank[j] \in Int
    BY <1>2
  <2> HIDE DEF B, rank
  <2> QED BY <1>3, <2>1, <2>2
<1>5. \A k \in 1..n : \E i \in 1..n : rank[i] = k
  <2>1. rank \in Injection(1..n, 1..n)
    <3>1. rank \in [1..n -> 1..n]
      BY <1>2 DEF rank
    <3> HIDE DEF rank
    <3> QED BY <3>1, <1>4 DEF Injection, IsInjective
  <2> HIDE DEF rank
  <2>2. rank \in Surjection(1..n, 1..n)
    BY <1>1, <2>1, FS_Injection
  <2> QED BY <2>2 DEF Surjection
<1> DEFINE p == [k \in 1..n |-> CHOOSE i \in 1..n : rank[i] = k]
<1>6. ASSUME NEW k \in 1..n PROVE p[k] \in 1..n /\ rank[p[k]] = k
  <2>1. \E i \in 1..n : rank[i] = k
    BY <1>5
  <2> HIDE DEF rank
  <2>2. p[k] = CHOOSE i \in 1..n : rank[i] = k
    OBVIOUS
  <2> QED BY <2>1, <2>2
<1>7. Ranked(seq, less) = [k \in 1..n |-> seq[p[k]]]
  <2>1. Ranked(seq, less) = Placed(seq, rank)
    BY <1>1 DEF Ranked
  <2> HIDE DEF rank
  <2> QED BY <1>1, <2>1 DEF Placed
<1> HIDE DEF p, B, rank
<1>8. p \in Bijection(1..n, 1..n)
  <2>1. p \in [1..n -> 1..n]
    BY <1>6 DEF p
  <2>2. \A i \in 1..n : \E k \in 1..n : p[k] = i
    <3> SUFFICES ASSUME NEW i \in 1..n PROVE \E k \in 1..n : p[k] = i
      OBVIOUS
    <3>1. rank[i] \in 1..n
      BY <1>2
    <3>2. p[rank[i]] \in 1..n /\ rank[p[rank[i]]] = rank[i]
      BY <1>6, <3>1
    <3> QED BY <1>4, <3>1, <3>2
  <2>3. \A k, l \in 1..n : p[k] = p[l] => k = l
    BY <1>6
  <2> QED BY <2>1, <2>2, <2>3 DEF Bijection, Injection, Surjection, IsInjective
<1>9. Ranked(seq, less) \in [1..n -> S]
  BY <1>6, <1>7
<1>10. InOrder(Ranked(seq, less), less)
  <2> SUFFICES ASSUME NEW k \in 1..n, NEW l \in 1..n, k < l
               PROVE  <<seq[p[k]], seq[p[l]]>> \in less \/ seq[p[k]] = seq[p[l]]
    BY <1>7 DEF InOrder
  <2>1. p[k] \in 1..n /\ p[l] \in 1..n /\ rank[p[k]] = k /\ rank[p[l]] = l
    BY <1>6
  <2>2. p[k] # p[l]
    BY <2>1
  <2>3. p[l] \notin B(p[k])
    <3>1. ~(l < k)
      OBVIOUS
    <3> QED BY <1>3, <2>1, <2>2, <3>1
  <2>4. p[k] \in NoLater(seq, less, p[l])
    BY <2>1, <2>3, NoLaterOrders DEF B
  <2> QED BY <2>4 DEF NoLater
<1> QED BY <1>7, <1>8, <1>9, <1>10

\* What is in order stays as it is.
THEOREM OrderedIsRanked ==
  ASSUME NEW S, NEW less, Orders(less, S), NEW n \in Nat, NEW seq \in [1..n -> S],
         InOrder(seq, less)
  PROVE  Ranked(seq, less) = seq
<1>1. DOMAIN seq = 1..n /\ \A i \in 1..n : seq[i] \in S
  OBVIOUS
<1>2. ASSUME NEW i \in 1..n PROVE Cardinality(NoLater(seq, less, i)) = i
  <2>1. NoLater(seq, less, i) = 1..i
    <3>1. ASSUME NEW j \in 1..i PROVE j \in NoLater(seq, less, i)
      <4>1. j \in 1..n /\ (j < i \/ j = i) /\ j <= i
        OBVIOUS
      <4> QED BY <1>1, <4>1 DEF NoLater, InOrder
    <3>2. ASSUME NEW j \in NoLater(seq, less, i) PROVE j \in 1..i
      <4>1. j \in 1..n /\ (i < j \/ j \in 1..i)
        BY <1>1 DEF NoLater
      <4>2. i < j => FALSE
        <5> SUFFICES ASSUME i < j PROVE FALSE
          OBVIOUS
        <5>1. ~(j <= i) /\ seq[i] \in S /\ seq[j] \in S
          BY <1>1, <4>1
        <5>2. <<seq[j], seq[i]>> \in less
          BY <3>2, <5>1 DEF NoLater
        <5>3. <<seq[i], seq[j]>> \in less \/ seq[i] = seq[j]
          BY <1>1, <4>1 DEF InOrder
        <5> QED BY <5>1, <5>2, <5>3 DEF Orders
      <4> QED BY <4>1, <4>2
    <3> QED BY <3>1, <3>2
  <2>2. i \in Int /\ 1 \in Int /\ ~(1 > i) /\ i - 1 + 1 = i
    OBVIOUS
  <2> QED BY <2>1, <2>2, FS_Interval
<1> DEFINE rank == [i \in 1..n |-> Cardinality(NoLater(seq, less, i))]
<1>3. \A i \in 1..n : rank[i] = i
  BY <1>2
<1>4. Ranked(seq, less) = Placed(seq, rank)
  BY <1>1 DEF Ranked
<1> HIDE DEF rank
<1>5. \A k \in 1..n : (CHOOSE i \in 1..n : rank[i] = k) = k
  BY <1>3
<1>6. Placed(seq, rank) = [k \in 1..n |-> seq[k]]
  BY <1>1, <1>5 DEF Placed
<1>7. seq = [k \in 1..n |-> seq[k]]
  OBVIOUS
<1> QED BY <1>4, <1>6, <1>7

-----------------------------------------------------------------------------
(* Sequences of anything: a history of the marks mixed into a hash *)

IsSeq(s) == \E S : s \in Seq(S)

LEMMA SeqGrows ==
  ASSUME NEW s, IsSeq(s), NEW e
  PROVE  /\ IsSeq(Append(s, e))
         /\ Len(s) \in Nat /\ DOMAIN s = 1..Len(s)
         /\ Len(Append(s, e)) = Len(s) + 1 /\ DOMAIN Append(s, e) = 1..(Len(s) + 1)
         /\ \A i \in 1..Len(s) : Append(s, e)[i] = s[i]
         /\ Append(s, e)[Len(s) + 1] = e
         /\ Append(s, e) # <<>>
<1>1. PICK S : s \in Seq(S)
  BY DEF IsSeq
<1> DEFINE T == S \union {e}
<1>2. s \in Seq(T) /\ e \in T
  BY <1>1
<1> HIDE DEF T
<1>3. Append(s, e) \in Seq(T)
  BY <1>2
<1>4. IsSeq(Append(s, e))
  BY <1>3, Zenon DEF IsSeq
<1>5. Append(s, e) # <<>>
  <2>1. Len(Append(s, e)) = Len(s) + 1 /\ Len(s) \in Nat
    BY <1>2
  <2>2. Len(<<>>) = 0
    OBVIOUS
  <2> QED BY <2>1, <2>2
<1> QED BY <1>2, <1>4, <1>5

LEMMA NothingIsSeq ==
  IsSeq(<<>>) /\ Len(<<>>) = 0 /\ DOMAIN <<>> = {}
<1>1. \E S : <<>> \in Seq(S)
  BY EmptySequence
<1>2. Len(<<>>) = 0 /\ DOMAIN <<>> = {}
  OBVIOUS
<1> QED BY <1>1, <1>2 DEF IsSeq

-----------------------------------------------------------------------------
(* What a hash tells of the integers and the timers *)

IsSet(mark, k) == mark[1] = "integer" /\ mark[2] = k
IsStart(mark, t) == mark[1] = "start" /\ mark[2] = t

\* An integer is what it was last set to.
Integer(value, hash, k) ==
  \/ value = 0 /\ \A i \in DOMAIN hash : ~IsSet(hash[i], k)
  \/ \E i \in DOMAIN hash :
       /\ IsSet(hash[i], k) /\ value = hash[i][3]
       /\ \A j \in DOMAIN hash : j > i => ~IsSet(hash[j], k)

TicksAfter(hash, i) == {j \in DOMAIN hash : j > i /\ hash[j][1] = "tick"}

\* A timer has left what it was started with, less the ticks since; one more between ticks.
Timer(left, hash, extra, t) ==
  \E i \in DOMAIN hash :
    /\ IsStart(hash[i], t) /\ hash[i][3] \in Nat
    /\ \A j \in DOMAIN hash : IsStart(hash[j], t) => j <= i
    /\ left + Cardinality(TicksAfter(hash, i)) = hash[i][3] + extra

TellsIntegers(integers, hash) == \A k \in Keys : Integer(integers[k], hash, k)

TellsTimers(timers, hash, extra) ==
  \A t \in Timers : timers[t] # 0 => Timer(timers[t], hash, extra, t)

LEMMA IntegerStays ==
  ASSUME NEW hash, IsSeq(hash), NEW mark, NEW k, NEW value, Integer(value, hash, k),
         ~IsSet(mark, k)
  PROVE  Integer(value, Append(hash, mark), k)
<1> DEFINE more == Append(hash, mark)
<1>1. PICK n \in Nat : n = Len(hash) /\ DOMAIN hash = 1..n
  BY SeqGrows
<1>2. /\ DOMAIN more = 1..(n + 1) /\ more[n + 1] = mark
      /\ \A i \in 1..n : more[i] = hash[i]
  BY <1>1, SeqGrows
<1> HIDE DEF more
<1>3. \A i \in 1..(n + 1) : i \in 1..n \/ i = n + 1
  BY <1>1
<1>4. 1..n \subseteq 1..(n + 1)
  BY <1>1
<1>5. CASE value = 0 /\ \A i \in DOMAIN hash : ~IsSet(hash[i], k)
  <2>1. \A i \in DOMAIN more : ~IsSet(more[i], k)
    BY <1>1, <1>2, <1>3, <1>5 DEF IsSet
  <2> QED BY <1>5, <2>1 DEF Integer, more
<1>6. ASSUME NEW i \in DOMAIN hash, IsSet(hash[i], k), value = hash[i][3],
             \A j \in DOMAIN hash : j > i => ~IsSet(hash[j], k)
      PROVE  Integer(value, more, k)
  <2>1. i \in DOMAIN more /\ more[i] = hash[i]
    BY <1>1, <1>2, <1>4
  <2>2. \A j \in DOMAIN more : j > i => ~IsSet(more[j], k)
    BY <1>1, <1>2, <1>3, <1>6
  <2> QED BY <1>6, <2>1, <2>2 DEF Integer
<1> QED BY <1>5, <1>6 DEF Integer, more

LEMMA IntegerIsSet ==
  ASSUME NEW hash, IsSeq(hash), NEW k, NEW value
  PROVE  Integer(value, Append(hash, <<"integer", k, value>>), k)
<1> DEFINE mark == <<"integer", k, value>>
           more == Append(hash, mark)
<1>1. PICK n \in Nat : n = Len(hash) /\ DOMAIN more = 1..(n + 1) /\ more[n + 1] = mark
  BY SeqGrows
<1>2. IsSet(mark, k) /\ mark[3] = value
  BY DEF IsSet
<1> HIDE DEF more, mark
<1>3. n + 1 \in 1..(n + 1) /\ \A j \in 1..(n + 1) : ~(j > n + 1)
  BY <1>1
<1>4. Integer(value, more, k)
  BY <1>1, <1>2, <1>3 DEF Integer
<1> QED BY <1>4 DEF more, mark

\* The same hash tells the same of an integer.
LEMMA IntegerIsTold ==
  ASSUME NEW hash, IsSeq(hash), NEW k, NEW a, NEW b, Integer(a, hash, k), Integer(b, hash, k)
  PROVE  a = b
<1>1. PICK n \in Nat : DOMAIN hash = 1..n
  BY SeqGrows
<1>2. ASSUME NEW i \in 1..n, NEW j \in 1..n, IsSet(hash[i], k), IsSet(hash[j], k),
             \A l \in 1..n : l > i => ~IsSet(hash[l], k),
             \A l \in 1..n : l > j => ~IsSet(hash[l], k)
      PROVE  i = j
  BY <1>2
<1> QED BY <1>1, <1>2 DEF Integer

LEMMA TicksAreFinite ==
  ASSUME NEW hash, IsSeq(hash), NEW i
  PROVE  IsFiniteSet(TicksAfter(hash, i)) /\ Cardinality(TicksAfter(hash, i)) \in Nat
<1>1. PICK n \in Nat : DOMAIN hash = 1..n
  BY SeqGrows
<1>2. TicksAfter(hash, i) \in SUBSET (1..n) /\ IsFiniteSet(1..n)
  BY <1>1, FS_Interval DEF TicksAfter
<1> QED BY <1>2, FS_Subset, FS_CardinalityType

\* A mark that does not start a timer leaves it what it has, but that a tick counts.
LEMMA TimerStays ==
  ASSUME NEW hash, IsSeq(hash), NEW mark, NEW t, NEW left \in Nat, NEW extra \in Nat,
         Timer(left, hash, extra, t), ~IsStart(mark, t)
  PROVE  Timer(left, Append(hash, mark), IF mark[1] = "tick" THEN extra + 1 ELSE extra, t)
<1> DEFINE more == Append(hash, mark)
           then == IF mark[1] = "tick" THEN extra + 1 ELSE extra
<1>1. PICK n \in Nat : n = Len(hash) /\ DOMAIN hash = 1..n
  BY SeqGrows
<1>2. /\ DOMAIN more = 1..(n + 1) /\ more[n + 1] = mark
      /\ \A i \in 1..n : more[i] = hash[i]
  BY <1>1, SeqGrows
<1> HIDE DEF more
<1>3. PICK i \in 1..n :
        /\ IsStart(hash[i], t) /\ hash[i][3] \in Nat
        /\ \A j \in 1..n : IsStart(hash[j], t) => j <= i
        /\ left + Cardinality(TicksAfter(hash, i)) = hash[i][3] + extra
  BY <1>1 DEF Timer
<1>4. i \in 1..(n + 1) /\ more[i] = hash[i] /\ n + 1 > i
  BY <1>1, <1>2
<1>5. \A j \in 1..(n + 1) : j \in 1..n \/ j = n + 1
  BY <1>1
<1>6. \A j \in 1..(n + 1) : IsStart(more[j], t) => j <= i
  BY <1>2, <1>3, <1>5
<1>7. TicksAfter(more, i) =
        IF mark[1] = "tick" THEN TicksAfter(hash, i) \union {n + 1} ELSE TicksAfter(hash, i)
  <2>1. \A j \in 1..n : j \in 1..(n + 1)
    BY <1>1
  <2>2. n + 1 \in 1..(n + 1)
    BY <1>1
  <2> QED BY <1>1, <1>2, <1>4, <1>5, <2>1, <2>2 DEF TicksAfter
<1>8. n + 1 \notin TicksAfter(hash, i)
  BY <1>1 DEF TicksAfter
<1>9. left + Cardinality(TicksAfter(more, i)) = hash[i][3] + then
  <2>1. IsFiniteSet(TicksAfter(hash, i)) /\ Cardinality(TicksAfter(hash, i)) \in Nat
    BY TicksAreFinite
  <2>2. Cardinality(TicksAfter(hash, i) \union {n + 1}) = Cardinality(TicksAfter(hash, i)) + 1
    BY <1>8, <2>1, FS_AddElement
  <2> QED BY <1>3, <1>7, <2>1, <2>2
<1> HIDE DEF then
<1>10. Timer(left, more, then, t)
  BY <1>2, <1>3, <1>4, <1>6, <1>9 DEF Timer
<1> QED BY <1>10 DEF more, then

LEMMA TimerIsStarted ==
  ASSUME NEW hash, IsSeq(hash), NEW t, NEW left \in Nat
  PROVE  Timer(left, Append(hash, <<"start", t, left>>), 0, t)
<1> DEFINE mark == <<"start", t, left>>
           more == Append(hash, mark)
<1>1. PICK n \in Nat : n = Len(hash) /\ DOMAIN more = 1..(n + 1) /\ more[n + 1] = mark
  BY SeqGrows
<1>2. IsStart(mark, t) /\ mark[3] = left
  BY DEF IsStart
<1> HIDE DEF more, mark
<1>3. n + 1 \in 1..(n + 1) /\ \A j \in 1..(n + 1) : j <= n + 1 /\ ~(j > n + 1)
  BY <1>1
<1>4. TicksAfter(more, n + 1) = {}
  BY <1>1, <1>3 DEF TicksAfter
<1>5. Cardinality(TicksAfter(more, n + 1)) = 0
  BY <1>4, FS_EmptySet
<1>6. Timer(left, more, 0, t)
  BY <1>1, <1>2, <1>3, <1>5 DEF Timer
<1> QED BY <1>6 DEF more, mark

-----------------------------------------------------------------------------
(* The inputs a hash records *)

TakingTick(c, inputs, mark) == TakeTick(inputs, mark)

Commits == INSTANCE FoldLemmas WITH Op <- TakingTick

LEMMA CommittedInputsIsFolded ==
  ASSUME NEW hash
  PROVE  CommittedInputs(hash) = Commits!Folded(0, <<>>, hash)
BY Zenon DEF CommittedInputs, FoldLeft, Commits!Folded, Commits!FoldLeft, MapThenFoldSet,
  Commits!MapThenFoldSet, Max, Commits!Max, TakingTick

\* A mark of a tick adds its inputs, any other mark none.
LEMMA MarksCommit ==
  ASSUME NEW hash, IsSeq(hash), NEW mark
  PROVE  CommittedInputs(Append(hash, mark)) =
           IF mark[1] = "tick" THEN CommittedInputs(hash) \o mark[3] ELSE CommittedInputs(hash)
<1>1. PICK S : hash \in Seq(S)
  BY DEF IsSeq
<1> DEFINE T == S \union {mark}
<1>2. hash \in Seq(T) /\ mark \in T
  BY <1>1
<1> HIDE DEF T
<1>3. Commits!Folded(0, <<>>, Append(hash, mark))
        = TakingTick(0, Commits!Folded(0, <<>>, hash), mark)
  BY <1>2, Commits!FoldOfMore
<1> QED BY <1>3, CommittedInputsIsFolded, Zenon DEF TakingTick, TakeTick

LEMMA OtherMarksCommitNothing ==
  ASSUME NEW hash, IsSeq(hash), NEW mark, mark[1] # "tick"
  PROVE  CommittedInputs(Append(hash, mark)) = CommittedInputs(hash)
BY MarksCommit

LEMMA NothingIsCommitted ==
  CommittedInputs(<<>>) = <<>>
BY CommittedInputsIsFolded, Commits!FoldOfNothing

\* The hash of y records the inputs that the hash of x does.
SameCommitted(x, y) == CommittedInputs(y.hash) = CommittedInputs(x.hash)

-----------------------------------------------------------------------------
Charts == [active : ChartStates, ticks : Nat]
Integers == [Keys -> MinInteger..MaxInteger]
Stores == [Timers -> Nat]

\* The fields a save has, of a save or of a runtime.
GoodState(x) ==
  /\ x.tick \in Nat /\ IsSeq(x.hash) /\ x.integers \in Integers /\ x.draws \in Nat
  /\ x.timers \in Stores /\ x.chart \in Charts

\* Inputs as a host submits them, in whatever sequences it numbers them with.
LogicalInputs == [sequence : Nat, action : Actions]

GoodRuntime(r) ==
  /\ IsRuntime(r) /\ GoodState(r)
  /\ r.pending \in Seq(LogicalInputs) /\ Len(r.pending) <= MaxPendingInputs
  /\ IsSeq(r.events) /\ Len(r.events) <= MaxPresentationEvents /\ r.nextSequence \in Nat

Told(x, extra) == TellsIntegers(x.integers, x.hash) /\ TellsTimers(x.timers, x.hash, extra)

-----------------------------------------------------------------------------
(* One command *)

SetIntegers(r, integers, hash) == [r EXCEPT !.integers = integers, !.hash = hash]
SetTimers(r, timers, hash) == [r EXCEPT !.timers = timers, !.hash = hash]
SetEvents(r, events, next, hash) ==
  [r EXCEPT !.events = events, !.nextSequence = next, !.hash = hash]

LEMMA WithIntegers ==
  ASSUME NEW r, GoodRuntime(r), NEW integers \in Integers, NEW hash, IsSeq(hash)
  PROVE  LET s == SetIntegers(r, integers, hash)
         IN /\ GoodRuntime(s)
            /\ s.integers = integers /\ s.hash = hash /\ s.timers = r.timers
            /\ s.events = r.events
<1> DEFINE s == SetIntegers(r, integers, hash)
<1>1. /\ IsRuntime(s) /\ s.integers = integers /\ s.hash = hash
      /\ s.tick = r.tick /\ s.draws = r.draws /\ s.timers = r.timers /\ s.chart = r.chart
      /\ s.pending = r.pending /\ s.events = r.events /\ s.nextSequence = r.nextSequence
  BY DEF SetIntegers, GoodRuntime, IsRuntime, Fields
<1> HIDE DEF s
<1>2. GoodRuntime(s)
  BY <1>1 DEF GoodRuntime, GoodState
<1> QED BY <1>1, <1>2 DEF s

LEMMA WithTimers ==
  ASSUME NEW r, GoodRuntime(r), NEW timers \in Stores, NEW hash, IsSeq(hash)
  PROVE  LET s == SetTimers(r, timers, hash)
         IN /\ GoodRuntime(s)
            /\ s.timers = timers /\ s.hash = hash /\ s.integers = r.integers
            /\ s.events = r.events
<1> DEFINE s == SetTimers(r, timers, hash)
<1>1. /\ IsRuntime(s) /\ s.timers = timers /\ s.hash = hash
      /\ s.tick = r.tick /\ s.draws = r.draws /\ s.integers = r.integers /\ s.chart = r.chart
      /\ s.pending = r.pending /\ s.events = r.events /\ s.nextSequence = r.nextSequence
  BY DEF SetTimers, GoodRuntime, IsRuntime, Fields
<1> HIDE DEF s
<1>2. GoodRuntime(s)
  BY <1>1 DEF GoodRuntime, GoodState
<1> QED BY <1>1, <1>2 DEF s

LEMMA WithEvents ==
  ASSUME NEW r, GoodRuntime(r), NEW events, IsSeq(events), Len(events) <= MaxPresentationEvents,
         NEW next \in Nat, NEW hash, IsSeq(hash)
  PROVE  LET s == SetEvents(r, events, next, hash)
         IN /\ GoodRuntime(s)
            /\ s.events = events /\ s.hash = hash /\ s.integers = r.integers
            /\ s.timers = r.timers
<1> DEFINE s == SetEvents(r, events, next, hash)
<1>1. /\ IsRuntime(s) /\ s.events = events /\ s.nextSequence = next /\ s.hash = hash
      /\ s.tick = r.tick /\ s.draws = r.draws /\ s.integers = r.integers /\ s.chart = r.chart
      /\ s.pending = r.pending /\ s.timers = r.timers
  BY DEF SetEvents, GoodRuntime, IsRuntime, Fields
<1> HIDE DEF s
<1>2. GoodRuntime(s)
  BY <1>1 DEF GoodRuntime, GoodState
<1> QED BY <1>1, <1>2 DEF s

\* What one command comes to.
LEMMA AddIntegerIs ==
  ASSUME NEW r, GoodRuntime(r), NEW c, c.kind = "add_integer"
  PROVE  LET sum == r.integers[c.id] + c.value
         IN ApplyTo(r, c) =
              IF sum \notin MinInteger..MaxInteger THEN Outcome("integer_overflow", r)
              ELSE Outcome("none", SetIntegers(r, [r.integers EXCEPT ![c.id] = sum],
                                               Append(r.hash, <<"integer", c.id, sum>>)))
<1> DEFINE sum == r.integers[c.id] + c.value
           mark == <<"integer", c.id, sum>>
<1>1. ApplyTo(r, c) = AddInteger(r, c)
  BY DEF ApplyTo
<1>2. AddInteger(r, c) =
        IF sum \notin MinInteger..MaxInteger THEN Outcome("integer_overflow", r)
        ELSE Outcome("none", Mix([r EXCEPT !.integers[c.id] = sum], mark))
  BY DEF AddInteger
<1> HIDE DEF sum, mark
<1>3. Mix([r EXCEPT !.integers[c.id] = sum], mark)
        = SetIntegers(r, [r.integers EXCEPT ![c.id] = sum], Append(r.hash, mark))
  <2> DEFINE integers == [r.integers EXCEPT ![c.id] = sum]
  <2>1. [r EXCEPT !.integers[c.id] = sum] = [r EXCEPT !.integers = integers]
    OBVIOUS
  <2> HIDE DEF integers
  <2>2. Mix([r EXCEPT !.integers = integers], mark) = SetIntegers(r, integers, Append(r.hash, mark))
    BY DEF Mix, SetIntegers, GoodRuntime, IsRuntime, Fields
  <2> QED BY <2>1, <2>2 DEF integers
<1> QED BY <1>1, <1>2, <1>3 DEF sum, mark

LEMMA StartTimerIs ==
  ASSUME NEW r, GoodRuntime(r), NEW c, c.kind = "start_timer"
  PROVE  ApplyTo(r, c) =
           Outcome("none", SetTimers(r, [r.timers EXCEPT ![c.id] = c.value],
                                     Append(r.hash, <<"start", c.id, c.value>>)))
<1> DEFINE mark == <<"start", c.id, c.value>>
<1>1. ApplyTo(r, c) = StartTimer(r, c)
  BY DEF ApplyTo
<1>2. StartTimer(r, c) = Outcome("none", Mix([r EXCEPT !.timers[c.id] = c.value], mark))
  BY DEF StartTimer
<1> HIDE DEF mark
<1>3. Mix([r EXCEPT !.timers[c.id] = c.value], mark)
        = SetTimers(r, [r.timers EXCEPT ![c.id] = c.value], Append(r.hash, mark))
  <2> DEFINE timers == [r.timers EXCEPT ![c.id] = c.value]
  <2>1. [r EXCEPT !.timers[c.id] = c.value] = [r EXCEPT !.timers = timers]
    OBVIOUS
  <2> HIDE DEF timers
  <2>2. Mix([r EXCEPT !.timers = timers], mark) = SetTimers(r, timers, Append(r.hash, mark))
    BY DEF Mix, SetTimers, GoodRuntime, IsRuntime, Fields
  <2> QED BY <2>1, <2>2 DEF timers
<1> QED BY <1>1, <1>2, <1>3 DEF mark

LEMMA CancelTimerIs ==
  ASSUME NEW r, GoodRuntime(r), NEW c, c.kind = "cancel_timer"
  PROVE  ApplyTo(r, c) =
           Outcome("none",
             IF r.timers[c.id] = 0 THEN r
             ELSE SetTimers(r, [r.timers EXCEPT ![c.id] = 0],
                            Append(r.hash, <<"cancel", c.id>>)))
<1> DEFINE mark == <<"cancel", c.id>>
<1>1. ApplyTo(r, c) = CancelTimer(r, c)
  BY DEF ApplyTo
<1>2. CancelTimer(r, c) =
        Outcome("none", IF r.timers[c.id] = 0 THEN r ELSE Mix([r EXCEPT !.timers[c.id] = 0], mark))
  BY DEF CancelTimer
<1> HIDE DEF mark
<1>3. Mix([r EXCEPT !.timers[c.id] = 0], mark)
        = SetTimers(r, [r.timers EXCEPT ![c.id] = 0], Append(r.hash, mark))
  <2> DEFINE timers == [r.timers EXCEPT ![c.id] = 0]
  <2>1. [r EXCEPT !.timers[c.id] = 0] = [r EXCEPT !.timers = timers]
    OBVIOUS
  <2> HIDE DEF timers
  <2>2. Mix([r EXCEPT !.timers = timers], mark) = SetTimers(r, timers, Append(r.hash, mark))
    BY DEF Mix, SetTimers, GoodRuntime, IsRuntime, Fields
  <2> QED BY <2>1, <2>2 DEF timers
<1> QED BY <1>1, <1>2, <1>3 DEF mark

LEMMA PresentIs ==
  ASSUME NEW r, GoodRuntime(r), NEW c, c.kind = "present"
  PROVE  ApplyTo(r, c) =
           IF Len(r.events) >= MaxPresentationEvents THEN Outcome("presentation_limit", r)
           ELSE Outcome("none",
                  SetEvents(r, Append(r.events, [id |-> c.id, sequence |-> r.nextSequence]),
                            r.nextSequence + 1, Append(r.hash, <<"present", c.id>>)))
<1> DEFINE mark == <<"present", c.id>>
           event == [id |-> c.id, sequence |-> r.nextSequence]
           shown == [r EXCEPT !.events = Append(r.events, event),
                              !.nextSequence = r.nextSequence + 1]
<1>1. ApplyTo(r, c) = Present(r, c)
  BY DEF ApplyTo
<1>2. Present(r, c) =
        IF Len(r.events) >= MaxPresentationEvents THEN Outcome("presentation_limit", r)
        ELSE Outcome("none", Mix(shown, mark))
  BY DEF Present
<1> HIDE DEF mark, event
<1>3. Mix(shown, mark) = SetEvents(r, Append(r.events, event), r.nextSequence + 1,
                                   Append(r.hash, mark))
  BY DEF Mix, SetEvents, GoodRuntime, IsRuntime, Fields
<1> QED BY <1>1, <1>2, <1>3 DEF mark, event

LEMMA RegionDeltaIs ==
  ASSUME NEW r, NEW c, c.kind = "set_region_delta"
  PROVE  ApplyTo(r, c) = Outcome("none", r)
BY DEF ApplyTo

LEMMA CommandKinds ==
  ASSUME NEW c \in Commands
  PROVE  \/ c.kind = "add_integer" /\ c.id \in Keys /\ c.value \in Int
         \/ c.kind = "start_timer" /\ c.id \in Timers /\ c.value \in Nat \ {0}
         \/ c.kind = "cancel_timer" /\ c.id \in Timers
         \/ c.kind = "present"
         \/ c.kind = "set_region_delta"
BY DEF Commands

\* What a hash tells stays told when a mark sets one integer, or starts one timer, or neither.
LEMMA IntegersStayTold ==
  ASSUME NEW hash, IsSeq(hash), NEW integers \in Integers, TellsIntegers(integers, hash), NEW mark,
         mark[1] # "integer"
  PROVE  TellsIntegers(integers, Append(hash, mark))
BY IntegerStays DEF TellsIntegers, IsSet

LEMMA TimersStayTold ==
  ASSUME NEW hash, IsSeq(hash), NEW timers \in Stores, NEW extra \in Nat,
         TellsTimers(timers, hash, extra), NEW mark, mark[1] # "start"
  PROVE  TellsTimers(timers, Append(hash, mark), IF mark[1] = "tick" THEN extra + 1 ELSE extra)
<1> SUFFICES ASSUME NEW t \in Timers, timers[t] # 0
             PROVE  Timer(timers[t], Append(hash, mark), IF mark[1] = "tick" THEN extra + 1 ELSE extra, t)
  BY DEF TellsTimers
<1>1. timers[t] \in Nat /\ Timer(timers[t], hash, extra, t) /\ ~IsStart(mark, t)
  BY DEF TellsTimers, IsStart, Stores
<1> QED BY <1>1, TimerStays

LEMMA IntegersAreSet ==
  ASSUME NEW hash, IsSeq(hash), NEW integers \in Integers, TellsIntegers(integers, hash),
         NEW k \in Keys, NEW value
  PROVE  TellsIntegers([integers EXCEPT ![k] = value], Append(hash, <<"integer", k, value>>))
<1> DEFINE after == [integers EXCEPT ![k] = value]
           mark == <<"integer", k, value>>
<1>1. /\ after[k] = value /\ \A l \in Keys : l # k => after[l] = integers[l]
      /\ \A l : l # k => ~IsSet(mark, l)
  BY DEF Integers, IsSet
<1>2. Integer(value, Append(hash, mark), k)
  BY IntegerIsSet
<1> HIDE DEF after, mark
<1>3. ASSUME NEW l \in Keys PROVE Integer(after[l], Append(hash, mark), l)
  <2>1. CASE l = k
    BY <1>1, <1>2, <2>1
  <2>2. CASE l # k
    <3>1. Integer(integers[l], hash, l)
      BY DEF TellsIntegers
    <3>2. Integer(integers[l], Append(hash, mark), l)
      BY <1>1, <2>2, <3>1, IntegerStays
    <3> QED BY <1>1, <2>2, <3>2
  <2> QED BY <2>1, <2>2
<1>4. TellsIntegers(after, Append(hash, mark))
  BY <1>3 DEF TellsIntegers
<1> QED BY <1>4 DEF after, mark

LEMMA TimersAreStarted ==
  ASSUME NEW hash, IsSeq(hash), NEW timers \in Stores, TellsTimers(timers, hash, 0),
         NEW t \in Timers, NEW value \in Nat
  PROVE  TellsTimers([timers EXCEPT ![t] = value], Append(hash, <<"start", t, value>>), 0)
<1> DEFINE after == [timers EXCEPT ![t] = value]
           mark == <<"start", t, value>>
<1>1. /\ after[t] = value /\ \A l \in Timers : l # t => after[l] = timers[l]
      /\ \A l : l # t => ~IsStart(mark, l)
      /\ mark[1] # "tick"
  BY DEF Stores, IsStart
<1>2. Timer(value, Append(hash, mark), 0, t)
  BY TimerIsStarted
<1> HIDE DEF after, mark
<1>3. ASSUME NEW l \in Timers, after[l] # 0 PROVE Timer(after[l], Append(hash, mark), 0, l)
  <2>1. CASE l = t
    BY <1>1, <1>2, <2>1
  <2>2. CASE l # t
    <3>1. Timer(timers[l], hash, 0, l) /\ timers[l] \in Nat
      BY <1>1, <1>3, <2>2 DEF TellsTimers, Stores
    <3>2. Timer(timers[l], Append(hash, mark), 0, l)
      BY <1>1, <2>2, <3>1, TimerStays
    <3> QED BY <1>1, <2>2, <3>2
  <2> QED BY <2>1, <2>2
<1>4. TellsTimers(after, Append(hash, mark), 0)
  BY <1>3 DEF TellsTimers
<1> QED BY <1>4 DEF after, mark

LEMMA TimerIsCancelled ==
  ASSUME NEW hash, NEW timers \in Stores, NEW extra, TellsTimers(timers, hash, extra), NEW t \in Timers
  PROVE  TellsTimers([timers EXCEPT ![t] = 0], hash, extra)
BY DEF TellsTimers, Stores

\* A command keeps a runtime good, and what its hash tells of it.
LEMMA CommandKeeps ==
  ASSUME NEW r, GoodRuntime(r), NEW c \in Commands
  PROVE  /\ GoodRuntime(ApplyTo(r, c).runtime)
         /\ Told(r, 0) => Told(ApplyTo(r, c).runtime, 0)
         /\ SameCommitted(r, ApplyTo(r, c).runtime)
<1> DEFINE o == ApplyTo(r, c)
<1>1. /\ IsSeq(r.hash) /\ r.integers \in Integers /\ r.timers \in Stores /\ IsSeq(r.events)
      /\ r.nextSequence \in Nat /\ Len(r.events) <= MaxPresentationEvents
  BY DEF GoodRuntime, GoodState
<1>2. CASE c.kind = "add_integer" /\ c.id \in Keys /\ c.value \in Int
  <2> DEFINE sum == r.integers[c.id] + c.value
             integers == [r.integers EXCEPT ![c.id] = sum]
             hash == Append(r.hash, <<"integer", c.id, sum>>)
  <2>1. \/ o = Outcome("integer_overflow", r)
        \/ sum \in MinInteger..MaxInteger /\ o = Outcome("none", SetIntegers(r, integers, hash))
    BY <1>2, AddIntegerIs
  <2>2. sum \in MinInteger..MaxInteger => integers \in Integers
    BY <1>1, <1>2 DEF Integers
  <2>3. IsSeq(hash) /\ CommittedInputs(hash) = CommittedInputs(r.hash)
    <3> DEFINE mark == <<"integer", c.id, sum>>
    <3>1. mark[1] # "tick"
      OBVIOUS
    <3> HIDE DEF mark
    <3> QED BY <1>1, <3>1, SeqGrows, OtherMarksCommitNothing DEF mark
  <2>4. Told(r, 0) => TellsIntegers(integers, hash)
    BY <1>1, <1>2, IntegersAreSet DEF Told
  <2>5. Told(r, 0) => TellsTimers(r.timers, hash, 0)
    <3> DEFINE mark == <<"integer", c.id, sum>>
    <3>1. mark[1] # "start" /\ mark[1] # "tick"
      OBVIOUS
    <3> HIDE DEF mark
    <3> QED BY <1>1, <3>1, TimersStayTold DEF Told, mark
  <2> HIDE DEF sum, integers, hash, o
  <2>6. o = Outcome("none", SetIntegers(r, integers, hash)) /\ sum \in MinInteger..MaxInteger
        => /\ GoodRuntime(o.runtime) /\ (Told(r, 0) => Told(o.runtime, 0))
           /\ SameCommitted(r, o.runtime)
    <3> SUFFICES ASSUME o = Outcome("none", SetIntegers(r, integers, hash)), integers \in Integers
                 PROVE  /\ GoodRuntime(o.runtime) /\ (Told(r, 0) => Told(o.runtime, 0))
                        /\ SameCommitted(r, o.runtime)
      BY <2>2
    <3>1. o.runtime = SetIntegers(r, integers, hash)
      BY DEF Outcome
    <3>2. /\ GoodRuntime(o.runtime) /\ o.runtime.integers = integers /\ o.runtime.hash = hash
          /\ o.runtime.timers = r.timers
      BY <2>3, <3>1, WithIntegers
    <3> QED BY <2>3, <2>4, <2>5, <3>2 DEF Told, SameCommitted
  <2>7. o = Outcome("integer_overflow", r) => o.runtime = r
    BY DEF Outcome
  <2> QED BY <2>1, <2>6, <2>7 DEF o, SameCommitted
<1>3. CASE c.kind = "start_timer" /\ c.id \in Timers /\ c.value \in Nat \ {0}
  <2> DEFINE timers == [r.timers EXCEPT ![c.id] = c.value]
             mark == <<"start", c.id, c.value>>
             hash == Append(r.hash, mark)
  <2>1. o.runtime = SetTimers(r, timers, hash)
    BY <1>3, StartTimerIs DEF Outcome
  <2>2. timers \in Stores /\ IsSeq(hash) /\ mark[1] # "integer" /\ mark[1] # "tick"
    BY <1>1, <1>3, SeqGrows DEF Stores
  <2>3. Told(r, 0) => TellsTimers(timers, hash, 0)
    BY <1>1, <1>3, TimersAreStarted DEF Told
  <2> HIDE DEF mark
  <2>4. /\ Told(r, 0) => TellsIntegers(r.integers, hash)
        /\ CommittedInputs(hash) = CommittedInputs(r.hash)
    BY <1>1, <2>2, IntegersStayTold, OtherMarksCommitNothing DEF Told
  <2> HIDE DEF timers, hash, o
  <2>5. /\ GoodRuntime(o.runtime) /\ o.runtime.timers = timers /\ o.runtime.hash = hash
        /\ o.runtime.integers = r.integers
    BY <2>1, <2>2, WithTimers
  <2> QED BY <2>3, <2>4, <2>5 DEF Told, SameCommitted, o
<1>4. CASE c.kind = "cancel_timer" /\ c.id \in Timers
  <2> DEFINE timers == [r.timers EXCEPT ![c.id] = 0]
             mark == <<"cancel", c.id>>
             hash == Append(r.hash, mark)
  <2>1. o.runtime \in {r, SetTimers(r, timers, hash)}
    BY <1>4, CancelTimerIs DEF Outcome
  <2>2. timers \in Stores /\ IsSeq(hash)
        /\ mark[1] # "integer" /\ mark[1] # "start" /\ mark[1] # "tick"
    BY <1>1, <1>4, SeqGrows DEF Stores
  <2>3. Told(r, 0) => TellsTimers(timers, r.hash, 0)
    BY <1>1, <1>4, TimerIsCancelled DEF Told
  <2> HIDE DEF mark, timers
  <2>4. /\ Told(r, 0) => TellsTimers(timers, hash, 0) /\ TellsIntegers(r.integers, hash)
        /\ CommittedInputs(hash) = CommittedInputs(r.hash)
    BY <1>1, <2>2, <2>3, IntegersStayTold, TimersStayTold, OtherMarksCommitNothing DEF Told
  <2> HIDE DEF hash, o
  <2>5. o.runtime = SetTimers(r, timers, hash) =>
          /\ GoodRuntime(o.runtime) /\ o.runtime.timers = timers /\ o.runtime.hash = hash
          /\ o.runtime.integers = r.integers
    BY <2>2, WithTimers
  <2> QED BY <2>1, <2>4, <2>5 DEF Told, SameCommitted, o
<1>5. CASE c.kind = "present"
  <2> DEFINE events == Append(r.events, [id |-> c.id, sequence |-> r.nextSequence])
             mark == <<"present", c.id>>
             hash == Append(r.hash, mark)
  <2>1. \/ o.runtime = r
        \/ /\ ~(Len(r.events) >= MaxPresentationEvents)
           /\ o.runtime = SetEvents(r, events, r.nextSequence + 1, hash)
    BY <1>5, PresentIs DEF Outcome
  <2>2. IsSeq(hash) /\ mark[1] # "integer" /\ mark[1] # "start" /\ mark[1] # "tick"
    BY <1>1, SeqGrows
  <2>3. IsSeq(events) /\ Len(events) = Len(r.events) + 1 /\ Len(r.events) \in Nat
    BY <1>1, SeqGrows
  <2> HIDE DEF mark, events
  <2>4. /\ Told(r, 0) => TellsTimers(r.timers, hash, 0) /\ TellsIntegers(r.integers, hash)
        /\ CommittedInputs(hash) = CommittedInputs(r.hash)
    BY <1>1, <2>2, IntegersStayTold, TimersStayTold, OtherMarksCommitNothing DEF Told
  <2> HIDE DEF hash, o
  <2>5. ASSUME ~(Len(r.events) >= MaxPresentationEvents),
               o.runtime = SetEvents(r, events, r.nextSequence + 1, hash)
        PROVE  /\ GoodRuntime(o.runtime) /\ o.runtime.hash = hash
               /\ o.runtime.integers = r.integers /\ o.runtime.timers = r.timers
    <3> DEFINE next == r.nextSequence + 1
    <3>1. Len(events) <= MaxPresentationEvents /\ next \in Nat /\ IsSeq(events) /\ IsSeq(hash)
      BY <1>1, <2>2, <2>3, <2>5, LimitsAssumption
    <3>2. o.runtime = SetEvents(r, events, next, hash)
      BY <2>5
    <3> HIDE DEF next
    <3> QED BY ONLY GoodRuntime(r), <3>1, <3>2, WithEvents
  <2> QED BY <2>1, <2>4, <2>5 DEF Told, SameCommitted, o
<1>6. CASE c.kind = "set_region_delta"
  BY <1>6, RegionDeltaIs DEF Outcome, SameCommitted
<1> QED BY <1>2, <1>3, <1>4, <1>5, <1>6, CommandKinds

-----------------------------------------------------------------------------
(* The commands of a tick *)

Applying(c, outcome, command) == ApplyCommand(outcome, command)

Outcomes == INSTANCE FoldLemmas WITH Op <- Applying

LEMMA CommandsAppliedIsFolded ==
  ASSUME NEW r, NEW commands
  PROVE  CommandsApplied(r, commands) = Outcomes!Folded(0, Outcome("none", r), commands)
BY Zenon DEF CommandsApplied, FoldLeft, Outcomes!Folded, Outcomes!FoldLeft, MapThenFoldSet,
  Outcomes!MapThenFoldSet, Max, Outcomes!Max, Applying

LEMMA CommandsKeep ==
  ASSUME NEW r, GoodRuntime(r), NEW commands \in Seq(Commands)
  PROVE  /\ GoodRuntime(CommandsApplied(r, commands).runtime)
         /\ Told(r, 0) => Told(CommandsApplied(r, commands).runtime, 0)
         /\ SameCommitted(r, CommandsApplied(r, commands).runtime)
<1> DEFINE base == Outcome("none", r)
           Kept(o) == /\ GoodRuntime(o.runtime) /\ (Told(r, 0) => Told(o.runtime, 0))
                      /\ SameCommitted(r, o.runtime)
<1>1. PICK n \in Nat : n = Len(commands) /\ DOMAIN commands = 1..n
  OBVIOUS
<1>2. PICK f : Outcomes!IsProgress(f, 0, base, commands, n) /\ CommandsApplied(r, commands) = f[n]
  BY <1>1, CommandsAppliedIsFolded, Outcomes!FoldIsProgress
<1>3. f[0] = base /\ \A i \in Nat : i + 1 <= n => f[i + 1] = Applying(0, f[i], commands[i + 1])
  <2> HIDE DEF base
  <2> QED BY <1>2, Outcomes!ProgressSteps
<1>4. Kept(base)
  BY DEF Outcome, SameCommitted
<1>5. ASSUME NEW o, Kept(o), NEW c \in Commands PROVE Kept(ApplyCommand(o, c))
  <2>1. CASE o.error # "none"
    BY <1>5, <2>1 DEF ApplyCommand
  <2>2. CASE o.error = "none"
    <3>1. ApplyCommand(o, c) = ApplyTo(o.runtime, c)
      BY <2>2 DEF ApplyCommand
    <3>2. /\ GoodRuntime(ApplyTo(o.runtime, c).runtime)
          /\ Told(o.runtime, 0) => Told(ApplyTo(o.runtime, c).runtime, 0)
          /\ SameCommitted(o.runtime, ApplyTo(o.runtime, c).runtime)
      BY <1>5, CommandKeeps
    <3> QED BY <1>5, <3>1, <3>2 DEF SameCommitted
  <2> QED BY <2>1, <2>2
<1> HIDE DEF Kept, base
<1> DEFINE Reached == {i \in Nat : i <= n => Kept(f[i])}
<1>6. 0 \in Reached
  BY <1>3, <1>4
<1>7. ASSUME NEW i \in Nat, i \in Reached PROVE i + 1 \in Reached
  <2> SUFFICES ASSUME i + 1 <= n PROVE Kept(f[i + 1])
    OBVIOUS
  <2>1. f[i + 1] = ApplyCommand(f[i], commands[i + 1])
    BY <1>3 DEF Applying
  <2>2. commands[i + 1] \in Commands /\ i <= n
    <3> HIDE DEF Reached
    <3> QED BY <1>1
  <2> QED BY <1>5, <1>7, <2>1, <2>2
<1> HIDE DEF Reached
<1>8. Nat \subseteq Reached
  BY <1>6, <1>7, Outcomes!Induction
<1>9. Kept(f[n])
  BY <1>8 DEF Reached
<1> QED BY <1>2, <1>9 DEF Kept

\* What is taken from the copies the commands were applied to.
WithCommitted(r, s) ==
  [r EXCEPT !.integers = s.integers, !.timers = s.timers, !.events = s.events,
            !.nextSequence = s.nextSequence, !.hash = s.hash]

LEMMA CommittedIsGood ==
  ASSUME NEW r, GoodRuntime(r), NEW s, GoodRuntime(s)
  PROVE  /\ GoodRuntime(WithCommitted(r, s))
         /\ WithCommitted(r, s).integers = s.integers /\ WithCommitted(r, s).timers = s.timers
         /\ WithCommitted(r, s).hash = s.hash /\ WithCommitted(r, s).events = s.events
         /\ WithCommitted(r, s).tick = r.tick /\ WithCommitted(r, s).draws = r.draws
         /\ WithCommitted(r, s).chart = r.chart /\ WithCommitted(r, s).pending = r.pending
<1> DEFINE q == WithCommitted(r, s)
<1>1. /\ IsRuntime(q) /\ q.integers = s.integers /\ q.hash = s.hash
      /\ q.tick = r.tick /\ q.draws = r.draws /\ q.timers = s.timers /\ q.chart = r.chart
      /\ q.pending = r.pending /\ q.events = s.events /\ q.nextSequence = s.nextSequence
  BY DEF WithCommitted, GoodRuntime, IsRuntime, Fields
<1> HIDE DEF q
<1>2. GoodRuntime(q)
  BY <1>1 DEF GoodRuntime, GoodState
<1> QED BY <1>1, <1>2 DEF q

LEMMA ApplyCommandsIs ==
  ASSUME NEW r, NEW commands
  PROVE  LET applied == CommandsApplied(r, commands)
         IN \/ /\ CommandError(commands, applied) # "none"
               /\ ApplyCommands(r, commands) = Outcome(CommandError(commands, applied), r)
            \/ /\ CommandError(commands, applied) = "none" /\ applied.error = "none"
               /\ ApplyCommands(r, commands) = Outcome("none", WithCommitted(r, applied.runtime))
<1> DEFINE applied == CommandsApplied(r, commands)
<1>1. ApplyCommands(r, commands) = CommitCommands(r, commands, applied)
  BY DEF ApplyCommands
<1> HIDE DEF applied
<1>2. CommandError(commands, applied) = "none" => applied.error = "none"
  BY DEF CommandError
<1> QED BY <1>1, <1>2 DEF CommitCommands, WithCommitted, applied

LEMMA ApplyKeeps ==
  ASSUME NEW r, GoodRuntime(r), NEW commands \in Seq(Commands)
  PROVE  /\ GoodRuntime(ApplyCommands(r, commands).runtime)
         /\ Told(r, 0) => Told(ApplyCommands(r, commands).runtime, 0)
         /\ SameCommitted(r, ApplyCommands(r, commands).runtime)
<1> DEFINE s == CommandsApplied(r, commands).runtime
<1>1. GoodRuntime(s) /\ (Told(r, 0) => Told(s, 0)) /\ SameCommitted(r, s)
  BY CommandsKeep
<1>2. ApplyCommands(r, commands).runtime \in {r, WithCommitted(r, s)}
  BY ApplyCommandsIs DEF Outcome
<1> HIDE DEF s
<1>3. /\ GoodRuntime(WithCommitted(r, s)) /\ (Told(r, 0) => Told(WithCommitted(r, s), 0))
      /\ SameCommitted(r, WithCommitted(r, s))
  BY <1>1, CommittedIsGood DEF Told, SameCommitted
<1>4. SameCommitted(r, r)
  BY DEF SameCommitted
<1> QED BY <1>2, <1>3, <1>4

-----------------------------------------------------------------------------
(* Sorting *)

Below == {pair \in Nat \X Nat : pair[1] < pair[2]}
Earlier == {pair \in LogicalInputs \X LogicalInputs : InputBefore(pair[1], pair[2])}

LEMMA BelowOrders ==
  \A S : S \subseteq Nat => Orders(Below, S)
BY DEF Orders, Below

LEMMA BeforeOrders ==
  Orders(Earlier, LogicalInputs)
<1>1. ASSUME NEW a \in LogicalInputs
      PROVE  a.sequence \in Nat /\ a.action \in Nat /\ a = [sequence |-> a.sequence, action |-> a.action]
  <2>1. /\ a.sequence \in Nat /\ a.action \in Actions
        /\ a = [sequence |-> a.sequence, action |-> a.action]
    BY DEF LogicalInputs
  <2> QED BY <2>1, ActionsAssumption
<1>2. \A a, b \in LogicalInputs : <<a, b>> \in Earlier <=> InputBefore(a, b)
  BY DEF Earlier
<1>3. ASSUME NEW a \in LogicalInputs, NEW b \in LogicalInputs
      PROVE  /\ InputBefore(a, b) => ~InputBefore(b, a)
             /\ a = b \/ InputBefore(a, b) \/ InputBefore(b, a)
  <2>1. /\ a.sequence \in Nat /\ b.sequence \in Nat /\ a.action \in Nat /\ b.action \in Nat
        /\ (a.sequence = b.sequence /\ a.action = b.action => a = b)
    BY <1>1
  <2> QED BY <2>1 DEF InputBefore
<1>4. ASSUME NEW a \in LogicalInputs, NEW b \in LogicalInputs, NEW c \in LogicalInputs,
             InputBefore(a, b), InputBefore(b, c)
      PROVE  InputBefore(a, c)
  <2>1. /\ a.sequence \in Nat /\ b.sequence \in Nat /\ a.action \in Nat /\ b.action \in Nat
        /\ c.sequence \in Nat /\ c.action \in Nat
    BY <1>1
  <2> QED BY <1>4, <2>1 DEF InputBefore
<1> HIDE DEF Earlier
<1> QED BY <1>2, <1>3, <1>4 DEF Orders

LEMMA SortedTimersAreRanked ==
  ASSUME NEW n \in Nat, NEW seq \in [1..n -> Nat]
  PROVE  Sorted(seq, TimerBefore) = Ranked(seq, Below)
<1> DEFINE rank == [i \in DOMAIN seq |-> Cardinality(NoLater(seq, Below, i))]
           place == [i \in DOMAIN seq |->
                       Cardinality({j \in DOMAIN seq :
                                      TimerBefore(seq[j], seq[i]) \/ (seq[j] = seq[i] /\ j <= i)})]
<1>1. DOMAIN seq = 1..n /\ \A i \in 1..n : seq[i] \in Nat
  OBVIOUS
<1>2. \A i, j \in 1..n : <<seq[j], seq[i]>> \in Below <=> TimerBefore(seq[j], seq[i])
  BY <1>1 DEF Below, TimerBefore
<1>3. rank = place
  BY <1>1, <1>2 DEF NoLater
<1>4. Sorted(seq, TimerBefore) = Placed(seq, place)
  BY Zenon DEF Sorted, Placed
<1>5. Ranked(seq, Below) = Placed(seq, rank)
  BY Zenon DEF Ranked
<1> QED BY <1>3, <1>4, <1>5

LEMMA SortedInputsAreRanked ==
  ASSUME NEW seq \in Seq(LogicalInputs)
  PROVE  SortedInputs(seq) = Ranked(seq, Earlier)
<1> DEFINE rank == [i \in DOMAIN seq |-> Cardinality(NoLater(seq, Earlier, i))]
           place == [i \in DOMAIN seq |->
                       Cardinality({j \in DOMAIN seq :
                                      InputBefore(seq[j], seq[i]) \/ (seq[j] = seq[i] /\ j <= i)})]
<1>1. PICK n \in Nat : DOMAIN seq = 1..n /\ \A i \in 1..n : seq[i] \in LogicalInputs
  OBVIOUS
<1>2. \A i, j \in 1..n : <<seq[j], seq[i]>> \in Earlier <=> InputBefore(seq[j], seq[i])
  BY <1>1 DEF Earlier
<1>3. rank = place
  <2> HIDE DEF Earlier
  <2> QED BY <1>1, <1>2 DEF NoLater
<1>4. SortedInputs(seq) = Placed(seq, place)
  BY Zenon DEF SortedInputs, Sorted, Placed
<1>5. Ranked(seq, Earlier) = Placed(seq, rank)
  BY Zenon DEF Ranked
<1> QED BY <1>3, <1>4, <1>5

\* Sorted inputs are as many, and sorting them again changes nothing.
LEMMA SortedInputsAreInputs ==
  ASSUME NEW S, S \subseteq LogicalInputs, NEW seq \in Seq(S)
  PROVE  /\ SortedInputs(seq) \in Seq(S)
         /\ Len(SortedInputs(seq)) = Len(seq)
         /\ SortedInputs(SortedInputs(seq)) = SortedInputs(seq)
<1> DEFINE sorted == SortedInputs(seq)
<1>1. PICK n \in Nat : n = Len(seq) /\ seq \in [1..n -> S]
  OBVIOUS
<1>2. sorted = Ranked(seq, Earlier)
  <2>1. seq \in Seq(LogicalInputs)
    OBVIOUS
  <2> QED BY <2>1, SortedInputsAreRanked
<1>3. sorted \in [1..n -> S] /\ InOrder(sorted, Earlier) /\ Orders(Earlier, S)
  <2>1. Orders(Earlier, S)
    BY BeforeOrders DEF Orders
  <2> QED BY <1>1, <1>2, <2>1, RankedIsOrdered
<1> HIDE DEF sorted
<1>4. sorted \in Seq(S) /\ sorted \in Seq(LogicalInputs) /\ Len(sorted) = n
  BY <1>3
<1>5. SortedInputs(sorted) = Ranked(sorted, Earlier)
  BY <1>4, SortedInputsAreRanked
<1>6. Ranked(sorted, Earlier) = sorted
  BY <1>3, OrderedIsRanked
<1> QED BY <1>1, <1>4, <1>5, <1>6 DEF sorted

\* Inputs whose sequences increase are sorted.
LEMMA IncreasingAreSorted ==
  ASSUME NEW seq \in Seq(LogicalInputs),
         \A i, j \in DOMAIN seq : i < j => seq[i].sequence < seq[j].sequence
  PROVE  SortedInputs(seq) = seq
<1>1. PICK n \in Nat : n = Len(seq) /\ seq \in [1..n -> LogicalInputs]
  OBVIOUS
<1>2. InOrder(seq, Earlier)
  <2> SUFFICES ASSUME NEW i \in DOMAIN seq, NEW j \in DOMAIN seq, i < j
               PROVE  <<seq[i], seq[j]>> \in Earlier
    BY DEF InOrder
  <2>1. seq[i] \in LogicalInputs /\ seq[j] \in LogicalInputs /\ seq[i].sequence < seq[j].sequence
    OBVIOUS
  <2> QED BY <2>1 DEF Earlier, InputBefore
<1>3. SortedInputs(seq) = Ranked(seq, Earlier)
  BY SortedInputsAreRanked
<1> QED BY <1>1, <1>2, <1>3, BeforeOrders, OrderedIsRanked

\* The timers that expire, in the order of their keys.
LEMMA ExpiredAreTimers ==
  ASSUME NEW timers
  PROVE  Sorted(SetToSeq(Expired(timers)), TimerBefore) \in Seq(Timers)
<1> DEFINE expired == Expired(timers)
           n == Cardinality(expired)
           seq == SetToSeq(expired)
<1>1. expired \in SUBSET Timers /\ IsFiniteSet(expired)
  <2>1. expired \in SUBSET Timers
    BY DEF Expired
  <2> QED BY <2>1, TimersAssumption, FS_Subset
<1> HIDE DEF expired
<1>2. n \in Nat /\ ExistsBijection(1..n, expired)
  BY <1>1, FS_CardinalityType
<1>3. \E f \in [1..n -> expired] : IsInjective(f)
  BY <1>2 DEF ExistsBijection, Bijection, Injection
<1>4. seq \in [1..n -> expired]
  BY <1>3, Zenon DEF SetToSeq
<1> HIDE DEF n, seq
<1>5. n \in Nat /\ seq \in [1..n -> Timers] /\ seq \in [1..n -> Nat]
  <2>1. n \in Nat
    BY <1>2
  <2> QED BY <1>1, <1>4, <2>1, TimersAssumption
<1>6. Sorted(seq, TimerBefore) = Ranked(seq, Below)
  BY <1>5, SortedTimersAreRanked
<1>7. Ranked(seq, Below) \in [1..n -> Timers]
  <2>1. Orders(Below, Timers)
    BY BelowOrders, TimersAssumption
  <2> QED BY <1>5, <2>1, RankedIsOrdered
<1>8. Ranked(seq, Below) \in Seq(Timers)
  BY <1>5, <1>7
<1> QED BY <1>6, <1>8 DEF seq, expired

-----------------------------------------------------------------------------
(* The handlers of a tick *)

HandlingFields == {"error", "commands", "draws", "chart", "hash"}

GoodHandling(h) ==
  /\ h = [f \in HandlingFields |-> h[f]]
  /\ h.commands \in Seq(Commands) /\ h.draws \in Nat /\ h.chart \in Charts /\ IsSeq(h.hash)

\* The hash of a handling tells the integers and timers of the runtime it is handled for.
ToldBy(r, h) == TellsIntegers(r.integers, h.hash) /\ TellsTimers(r.timers, h.hash, 0)

LEMMA ViewIsView ==
  ASSUME NEW r, GoodRuntime(r), NEW draws \in Nat
  PROVE  View(r, draws) \in Views
<1>1. r.integers \in [Keys -> MinInteger..MaxInteger]
  BY DEF GoodRuntime, GoodState, Integers
<1>2. draws % 2 \in {0, 1}
  OBVIOUS
<1>3. {t \in Timers : r.timers[t] # 0} \in SUBSET Timers
  OBVIOUS
<1> QED BY <1>1, <1>2, <1>3 DEF View, Views

LEMMA HandlingIsGood ==
  ASSUME NEW r, GoodRuntime(r)
  PROVE  /\ GoodHandling(Handling(r))
         /\ Handling(r).hash = r.hash /\ Handling(r).chart = r.chart
<1> DEFINE h == Handling(r)
<1>1. h = [f \in HandlingFields |-> h[f]]
  BY DEF Handling, HandlingFields
<1>2. /\ h.commands = <<>> /\ h.draws = r.draws /\ h.chart = r.chart /\ h.hash = r.hash
      /\ <<>> \in Seq(Commands)
  BY DEF Handling
<1> HIDE DEF h
<1>3. GoodHandling(h)
  BY <1>1, <1>2 DEF GoodHandling, GoodRuntime, GoodState
<1> QED BY <1>2, <1>3 DEF h

LEMMA HandledIsGood ==
  ASSUME NEW h, GoodHandling(h), NEW reply, reply.draws \in Nat, reply.commands \in Seq(Commands)
  PROVE  /\ GoodHandling(Handled(h, reply))
         /\ Handled(h, reply).hash = h.hash /\ Handled(h, reply).chart = h.chart
<1> DEFINE g == Handled(h, reply)
<1>1. /\ g = [f \in HandlingFields |-> g[f]]
      /\ g.commands = h.commands \o reply.commands /\ g.draws = h.draws + reply.draws
      /\ g.chart = h.chart /\ g.hash = h.hash
  BY DEF GoodHandling, Handled, HandlingFields
<1>2. h.commands \o reply.commands \in Seq(Commands) /\ h.draws + reply.draws \in Nat
  BY DEF GoodHandling
<1> HIDE DEF g
<1>3. GoodHandling(g)
  BY <1>1, <1>2 DEF GoodHandling
<1> QED BY <1>1, <1>3 DEF g

LEMMA RepliesAre ==
  ASSUME NEW reply \in Replies \union ChartReplies
  PROVE  reply.draws \in Nat /\ reply.commands \in Seq(Commands)
<1> DEFINE All == Seq(Commands)
<1>1. CASE reply \in Replies
  <2>1. Replies = [ok : BOOLEAN, draws : Nat, commands : All]
    BY DEF Replies
  <2> HIDE DEF All
  <2>2. reply.draws \in Nat /\ reply.commands \in All
    BY <1>1, <2>1
  <2> QED BY <2>2 DEF All
<1>2. CASE reply \in ChartReplies
  <2>1. ChartReplies =
          [outcome : {"stayed", "unhandled", "failed"}, draws : Nat, commands : All]
            \union [outcome : {"moved"}, draws : Nat, commands : All, to : ChartStates]
    BY DEF ChartReplies
  <2> HIDE DEF All
  <2>2. reply.draws \in Nat /\ reply.commands \in All
    BY <1>2, <2>1
  <2> QED BY <2>2 DEF All
<1> QED BY <1>1, <1>2

LEMMA MovesAreCharts ==
  ASSUME NEW reply \in ChartReplies, reply.outcome = "moved"
  PROVE  reply.to \in ChartStates
<1> DEFINE All == Seq(Commands)
<1>1. ChartReplies =
        [outcome : {"stayed", "unhandled", "failed"}, draws : Nat, commands : All]
          \union [outcome : {"moved"}, draws : Nat, commands : All, to : ChartStates]
  BY DEF ChartReplies
<1> HIDE DEF All
<1> QED BY <1>1

LEMMA ChartReplyIsReply ==
  ASSUME NEW event \in Actions \union {Elapsed}, NEW chart \in Charts, NEW view \in Views
  PROVE  ChartReply(event, chart, view) \in ChartReplies
<1>1. chart.active \in ChartStates
  BY DEF Charts
<1>2. [outcome |-> "stayed", draws |-> 0, commands |-> <<>>] \in ChartReplies
  <2> DEFINE All == Seq(Commands)
  <2>1. /\ <<>> \in All
        /\ ChartReplies =
             [outcome : {"stayed", "unhandled", "failed"}, draws : Nat, commands : All]
               \union [outcome : {"moved"}, draws : Nat, commands : All, to : ChartStates]
    BY DEF ChartReplies
  <2> HIDE DEF All
  <2> QED BY <2>1
<1>3. CASE event # Elapsed
  <2>1. event \in Actions /\ ChartReply(event, chart, view) = OnEvent[event][chart.active][view]
    BY <1>3 DEF ChartReply
  <2> QED BY <1>1, <2>1, HandlersAssumption
<1>4. CASE event = Elapsed /\ chart.ticks \in DOMAIN OnElapsed[chart.active]
  <2>1. ChartReply(event, chart, view) = OnElapsed[chart.active][chart.ticks][view]
    BY <1>4 DEF ChartReply
  <2> QED BY <1>1, <1>4, <2>1, HandlersAssumption
<1>5. CASE event = Elapsed /\ chart.ticks \notin DOMAIN OnElapsed[chart.active]
  <2>1. ChartReply(event, chart, view) = [outcome |-> "stayed", draws |-> 0, commands |-> <<>>]
    BY <1>5 DEF ChartReply
  <2> QED BY <1>2, <2>1
<1> QED BY <1>3, <1>4, <1>5

Ringing(r, handling, timer) == HandleTimer(r, handling, timer)

Rings == INSTANCE FoldLemmas WITH Op <- Ringing

LEMMA TimersHandledIsFolded ==
  ASSUME NEW r, NEW expired
  PROVE  TimersHandled(r, expired)
           = Rings!Folded(r, Handling(r), Sorted(SetToSeq(expired), TimerBefore))
BY Zenon DEF TimersHandled, FoldLeft, Rings!Folded, Rings!FoldLeft, MapThenFoldSet,
  Rings!MapThenFoldSet, Max, Rings!Max, Ringing

LEMMA TimersHandledIsGood ==
  ASSUME NEW r, GoodRuntime(r), NEW timers
  PROVE  /\ GoodHandling(TimersHandled(r, Expired(timers)))
         /\ TimersHandled(r, Expired(timers)).hash = r.hash
<1> DEFINE seq == Sorted(SetToSeq(Expired(timers)), TimerBefore)
           base == Handling(r)
           Kept(h) == GoodHandling(h) /\ h.hash = r.hash
<1>1. seq \in Seq(Timers)
  BY ExpiredAreTimers
<1> HIDE DEF seq
<1>2. PICK n \in Nat : n = Len(seq) /\ DOMAIN seq = 1..n /\ \A i \in 1..n : seq[i] \in Timers
  BY <1>1
<1>3. PICK f : Rings!IsProgress(f, r, base, seq, n) /\ TimersHandled(r, Expired(timers)) = f[n]
  BY <1>2, TimersHandledIsFolded, Rings!FoldIsProgress DEF seq
<1>4. f[0] = base /\ \A i \in Nat : i + 1 <= n => f[i + 1] = Ringing(r, f[i], seq[i + 1])
  <2> HIDE DEF base
  <2>1. n \in Nat
    BY <1>2
  <2> QED BY ONLY <2>1, <1>3, Rings!ProgressSteps, SMTT(30)
<1>5. Kept(base)
  BY HandlingIsGood
<1>6. ASSUME NEW h, Kept(h), NEW t \in Timers PROVE Kept(HandleTimer(r, h, t))
  <2>1. CASE h.error # "none"
    BY <1>6, <2>1 DEF HandleTimer
  <2>2. CASE h.error = "none"
    <3> DEFINE reply == OnTimer[t][View(r, h.draws)]
    <3>1. HandleTimer(r, h, t) = Handled(h, reply)
      BY <2>2 DEF HandleTimer
    <3>2. reply \in Replies
      <4>1. View(r, h.draws) \in Views
        BY <1>6, ViewIsView DEF GoodHandling
      <4> QED BY <4>1, HandlersAssumption
    <3> HIDE DEF reply
    <3> QED BY <1>6, <3>1, <3>2, RepliesAre, HandledIsGood
  <2> QED BY <2>1, <2>2
<1> HIDE DEF Kept, base
<1> DEFINE Reached == {i \in Nat : i <= n => Kept(f[i])}
<1>7. 0 \in Reached
  BY <1>4, <1>5
<1>8. ASSUME NEW i \in Nat, i \in Reached PROVE i + 1 \in Reached
  <2> SUFFICES ASSUME i + 1 <= n PROVE Kept(f[i + 1])
    OBVIOUS
  <2>1. f[i + 1] = HandleTimer(r, f[i], seq[i + 1])
    BY <1>4 DEF Ringing
  <2>2. seq[i + 1] \in Timers /\ i <= n
    <3> HIDE DEF Reached
    <3> QED BY <1>2
  <2> QED BY <1>6, <1>8, <2>1, <2>2
<1> HIDE DEF Reached
<1>9. Nat \subseteq Reached
  BY <1>7, <1>8, Rings!Induction
<1>10. Kept(f[n])
  BY <1>9 DEF Reached
<1> QED BY <1>3, <1>10 DEF Kept

\* A transition moves the chart and marks the hash, and tells nothing of integers or timers.
LEMMA StatechartIsGood ==
  ASSUME NEW r, GoodRuntime(r), NEW h, GoodHandling(h), NEW event \in Actions \union {Elapsed}
  PROVE  /\ GoodHandling(RunStatechart(r, h, event))
         /\ ToldBy(r, h) => ToldBy(r, RunStatechart(r, h, event))
         /\ SameCommitted(h, RunStatechart(r, h, event))
<1> DEFINE view == View(r, h.draws)
           reply == ChartReply(event, h.chart, view)
<1>1. reply \in ChartReplies
  <2>1. view \in Views /\ h.chart \in Charts
    BY ViewIsView DEF GoodHandling
  <2> QED BY <2>1, ChartReplyIsReply
<1>2. RunStatechart(r, h, event) = TakeTransition(h, event, reply)
  BY DEF RunStatechart
<1> HIDE DEF reply, view
<1> DEFINE mark == <<"transition", event, h.chart.active, reply.to>>
           chart == [active |-> reply.to, ticks |-> 0]
           moved == [h EXCEPT !.chart = chart, !.hash = Append(h.hash, mark)]
           so == IF reply.outcome # "moved" THEN h ELSE moved
           rest == [ok |-> reply.outcome # "failed", draws |-> reply.draws,
                    commands |-> reply.commands]
<1>3. TakeTransition(h, event, reply) = Handled(so, rest)
  BY Zenon DEF TakeTransition
<1>4. rest.draws \in Nat /\ rest.commands \in Seq(Commands)
  BY <1>1, RepliesAre
<1>5. GoodHandling(so) /\ (ToldBy(r, h) => ToldBy(r, so)) /\ SameCommitted(h, so)
  <2>1. CASE reply.outcome = "moved"
    <3>1. chart \in Charts
      BY <1>1, <2>1, MovesAreCharts DEF Charts
    <3>2. IsSeq(h.hash) /\ IsSeq(Append(h.hash, mark))
      BY SeqGrows DEF GoodHandling
    <3>3. mark[1] # "integer" /\ mark[1] # "start" /\ mark[1] # "tick"
      OBVIOUS
    <3> HIDE DEF mark, chart
    <3>4. /\ moved = [f \in HandlingFields |-> moved[f]] /\ moved.chart = chart
          /\ moved.hash = Append(h.hash, mark) /\ moved.commands = h.commands
          /\ moved.draws = h.draws
      BY DEF GoodHandling, HandlingFields
    <3>5. so = moved
      BY <2>1
    <3> HIDE DEF so, moved
    <3>6. GoodHandling(moved)
      BY <3>1, <3>2, <3>4 DEF GoodHandling
    <3>7. ToldBy(r, h) => ToldBy(r, moved)
      <4>1. r.integers \in Integers /\ r.timers \in Stores
        BY DEF GoodRuntime, GoodState
      <4> QED BY <3>2, <3>3, <3>4, <4>1, IntegersStayTold, TimersStayTold DEF ToldBy
    <3>8. SameCommitted(h, moved)
      BY <3>2, <3>3, <3>4, OtherMarksCommitNothing DEF SameCommitted
    <3> QED BY <3>5, <3>6, <3>7, <3>8
  <2>2. CASE reply.outcome # "moved"
    BY <2>2 DEF SameCommitted
  <2> QED BY <2>1, <2>2
<1> HIDE DEF so, rest
<1>6. GoodHandling(Handled(so, rest)) /\ Handled(so, rest).hash = so.hash
  BY <1>4, <1>5, HandledIsGood
<1> QED BY <1>2, <1>3, <1>5, <1>6 DEF ToldBy, SameCommitted

LEMMA InputIsHandled ==
  ASSUME NEW r, GoodRuntime(r), NEW h, GoodHandling(h), NEW input \in LogicalInputs
  PROVE  /\ GoodHandling(HandleInput(r, h, input))
         /\ ToldBy(r, h) => ToldBy(r, HandleInput(r, h, input))
         /\ SameCommitted(h, HandleInput(r, h, input))
<1>1. CASE h.error # "none"
  BY <1>1 DEF HandleInput, SameCommitted
<1>2. CASE h.error = "none"
  <2> DEFINE action == input.action
             g == RunStatechart(r, h, action)
             reply == OnInput[action][View(r, g.draws)]
  <2>1. action \in Actions
    BY DEF LogicalInputs
  <2>2. HandleInput(r, h, input) = CallOnInput(r, g, action)
    BY <1>2 DEF HandleInput
  <2> HIDE DEF action
  <2>3. GoodHandling(g) /\ (ToldBy(r, h) => ToldBy(r, g)) /\ SameCommitted(h, g)
    BY <2>1, StatechartIsGood
  <2> HIDE DEF g
  <2>4. CASE g.error # "none"
    BY <2>2, <2>3, <2>4 DEF CallOnInput
  <2>5. CASE g.error = "none"
    <3>1. CallOnInput(r, g, action) = Handled(g, reply)
      BY <2>5 DEF CallOnInput
    <3>2. reply \in Replies
      <4>1. View(r, g.draws) \in Views
        BY <2>3, ViewIsView DEF GoodHandling
      <4> QED BY <2>1, <4>1, HandlersAssumption
    <3> HIDE DEF reply
    <3>3. GoodHandling(Handled(g, reply)) /\ Handled(g, reply).hash = g.hash
      BY <2>3, <3>2, RepliesAre, HandledIsGood
    <3> QED BY <2>2, <2>3, <3>1, <3>3 DEF ToldBy, SameCommitted
  <2> QED BY <2>4, <2>5
<1> QED BY <1>1, <1>2

Taking(r, handling, input) == HandleInput(r, handling, input)

Takes == INSTANCE FoldLemmas WITH Op <- Taking

LEMMA InputsHandledIsFolded ==
  ASSUME NEW r
  PROVE  InputsHandled(r) = Takes!Folded(r, ChartAdvanced(r), r.pending)
BY Zenon DEF InputsHandled, FoldLeft, Takes!Folded, Takes!FoldLeft, MapThenFoldSet,
  Takes!MapThenFoldSet, Max, Takes!Max, Taking

LEMMA ChartAdvancedIsGood ==
  ASSUME NEW r, GoodRuntime(r)
  PROVE  /\ GoodHandling(ChartAdvanced(r))
         /\ Told(r, 0) => ToldBy(r, ChartAdvanced(r))
         /\ SameCommitted(r, ChartAdvanced(r))
<1> DEFINE h == Handling(r)
           chart == [h.chart EXCEPT !.ticks = @ + 1]
           g == [h EXCEPT !.chart = chart]
<1>1. GoodHandling(h) /\ h.hash = r.hash
  BY HandlingIsGood
<1>2. ChartAdvanced(r) = RunStatechart(r, g, Elapsed)
  <2>1. [h EXCEPT !.chart.ticks = @ + 1] = g
    OBVIOUS
  <2> QED BY <2>1 DEF ChartAdvanced
<1> HIDE DEF h
<1>3. chart \in Charts
  BY <1>1 DEF GoodHandling, Charts
<1> HIDE DEF chart
<1>4. /\ g = [f \in HandlingFields |-> g[f]] /\ g.chart = chart
      /\ g.hash = h.hash /\ g.commands = h.commands /\ g.draws = h.draws
  BY <1>1 DEF GoodHandling, HandlingFields
<1> HIDE DEF g
<1>5. GoodHandling(g) /\ (Told(r, 0) => ToldBy(r, g)) /\ SameCommitted(r, g)
  BY <1>1, <1>3, <1>4 DEF GoodHandling, Told, ToldBy, SameCommitted
<1>6. SameCommitted(g, RunStatechart(r, g, Elapsed))
  BY <1>5, StatechartIsGood
<1> QED BY <1>2, <1>5, <1>6, StatechartIsGood DEF SameCommitted

LEMMA InputsHandledIsGood ==
  ASSUME NEW r, GoodRuntime(r)
  PROVE  /\ GoodHandling(InputsHandled(r))
         /\ Told(r, 0) => ToldBy(r, InputsHandled(r))
         /\ SameCommitted(r, InputsHandled(r))
<1> DEFINE seq == r.pending
           base == ChartAdvanced(r)
           Kept(h) == GoodHandling(h) /\ (Told(r, 0) => ToldBy(r, h)) /\ SameCommitted(r, h)
<1>2. PICK n \in Nat : n = Len(seq) /\ DOMAIN seq = 1..n /\ \A i \in 1..n : seq[i] \in LogicalInputs
  BY DEF GoodRuntime
<1>3. PICK f : Takes!IsProgress(f, r, base, seq, n) /\ InputsHandled(r) = f[n]
  BY <1>2, InputsHandledIsFolded, Takes!FoldIsProgress
<1>4. f[0] = base /\ \A i \in Nat : i + 1 <= n => f[i + 1] = Taking(r, f[i], seq[i + 1])
  <2> HIDE DEF base, seq
  <2>1. n \in Nat
    BY <1>2
  <2> QED BY ONLY <2>1, <1>3, Takes!ProgressSteps, SMTT(30)
<1>5. Kept(base)
  BY ChartAdvancedIsGood
<1>6. ASSUME NEW h, Kept(h), NEW input \in LogicalInputs PROVE Kept(HandleInput(r, h, input))
  BY <1>6, InputIsHandled DEF SameCommitted
<1> HIDE DEF Kept, base, seq
<1> DEFINE Reached == {i \in Nat : i <= n => Kept(f[i])}
<1>7. 0 \in Reached
  BY <1>4, <1>5
<1>8. ASSUME NEW i \in Nat, i \in Reached PROVE i + 1 \in Reached
  <2> SUFFICES ASSUME i + 1 <= n PROVE Kept(f[i + 1])
    OBVIOUS
  <2>1. f[i + 1] = HandleInput(r, f[i], seq[i + 1])
    BY <1>4 DEF Taking
  <2>2. seq[i + 1] \in LogicalInputs /\ i <= n
    <3> HIDE DEF Reached
    <3> QED BY <1>2
  <2> QED BY <1>6, <1>8, <2>1, <2>2
<1> HIDE DEF Reached
<1>9. Nat \subseteq Reached
  BY <1>7, <1>8, Takes!Induction
<1>10. Kept(f[n])
  BY <1>9 DEF Reached
<1> QED BY <1>3, <1>10 DEF Kept

-----------------------------------------------------------------------------
(* One tick *)

\* The last mark of a hash is that of the last tick, with what it left.
EndsIn(x) ==
  IF x.hash = <<>>
  THEN /\ x.tick = 0 /\ x.draws = 0 /\ x.timers = [t \in Timers |-> 0]
       /\ x.chart = [active |-> InitialChartState, ticks |-> 0]
  ELSE LET last == x.hash[Len(x.hash)]
       IN /\ last[1] = "tick" /\ last[2] = x.tick /\ last[4] = x.timers
          /\ last[5] = x.draws /\ last[6] = x.chart

LEMMA TimersAdvance ==
  ASSUME NEW timers \in Stores, NEW hash, IsSeq(hash)
  PROVE  /\ AdvanceTimers(timers) \in Stores
         /\ TellsTimers(timers, hash, 1) => TellsTimers(AdvanceTimers(timers), hash, 0)
<1> DEFINE after == AdvanceTimers(timers)
<1>1. \A t \in Timers : /\ timers[t] \in Nat /\ after[t] \in Nat
                        /\ after[t] # 0 => timers[t] # 0 /\ after[t] = timers[t] - 1
  BY DEF AdvanceTimers, Stores
<1>2. after \in Stores
  <2>1. after = [t \in Timers |-> after[t]]
    BY DEF AdvanceTimers
  <2> HIDE DEF after
  <2> QED BY <1>1, <2>1 DEF Stores
<1> HIDE DEF after
<1>3. ASSUME TellsTimers(timers, hash, 1), NEW t \in Timers, after[t] # 0
      PROVE  Timer(after[t], hash, 0, t)
  <2>1. Timer(timers[t], hash, 1, t)
    BY <1>1, <1>3 DEF TellsTimers
  <2>2. PICK i \in DOMAIN hash :
          /\ IsStart(hash[i], t) /\ hash[i][3] \in Nat
          /\ \A j \in DOMAIN hash : IsStart(hash[j], t) => j <= i
          /\ timers[t] + Cardinality(TicksAfter(hash, i)) = hash[i][3] + 1
    BY <2>1 DEF Timer
  <2>3. Cardinality(TicksAfter(hash, i)) \in Nat
    BY TicksAreFinite
  <2>4. after[t] + Cardinality(TicksAfter(hash, i)) = hash[i][3] + 0
    BY <1>1, <1>3, <2>2, <2>3
  <2> QED BY <2>2, <2>4 DEF Timer
<1> QED BY <1>2, <1>3 DEF TellsTimers, after

LEMMA AppliedKeeps ==
  ASSUME NEW r, GoodRuntime(r), NEW h, GoodHandling(h)
  PROVE  /\ GoodRuntime(Applied(r, h).runtime)
         /\ Told(r, 0) => Told(Applied(r, h).runtime, 0)
         /\ SameCommitted(r, Applied(r, h).runtime)
<1>1. CASE h.error # "none"
  BY <1>1 DEF Applied, Outcome, SameCommitted
<1>2. CASE h.error = "none"
  <2>1. Applied(r, h) = ApplyCommands(r, h.commands)
    BY <1>2 DEF Applied
  <2>2. h.commands \in Seq(Commands)
    BY DEF GoodHandling
  <2> QED BY <2>1, <2>2, ApplyKeeps
<1> QED BY <1>1, <1>2

\* The streams as the handlers left them, and with them the chart and the hash.
LEMMA DrawsAreMade ==
  ASSUME NEW r, GoodRuntime(r), NEW draws \in Nat
  PROVE  LET s == [r EXCEPT !.draws = draws]
         IN GoodRuntime(s) /\ (Told(r, 0) => Told(s, 0)) /\ SameCommitted(r, s)
<1> DEFINE s == [r EXCEPT !.draws = draws]
<1>1. /\ IsRuntime(s) /\ s.integers = r.integers /\ s.hash = r.hash /\ s.tick = r.tick
      /\ s.draws = draws /\ s.timers = r.timers /\ s.chart = r.chart
      /\ s.pending = r.pending /\ s.events = r.events /\ s.nextSequence = r.nextSequence
  BY DEF GoodRuntime, IsRuntime, Fields
<1> HIDE DEF s
<1>2. GoodRuntime(s)
  BY <1>1 DEF GoodRuntime, GoodState
<1> QED BY <1>1, <1>2 DEF Told, SameCommitted, s

LEMMA HandlingIsTaken ==
  ASSUME NEW r, GoodRuntime(r), NEW h, GoodHandling(h)
  PROVE  LET s == [r EXCEPT !.draws = h.draws, !.chart = h.chart, !.hash = h.hash]
         IN GoodRuntime(s) /\ (ToldBy(r, h) => Told(s, 0)) /\ SameCommitted(h, s)
<1> DEFINE s == [r EXCEPT !.draws = h.draws, !.chart = h.chart, !.hash = h.hash]
<1>1. /\ IsRuntime(s) /\ s.integers = r.integers /\ s.hash = h.hash /\ s.tick = r.tick
      /\ s.draws = h.draws /\ s.timers = r.timers /\ s.chart = h.chart
      /\ s.pending = r.pending /\ s.events = r.events /\ s.nextSequence = r.nextSequence
  BY DEF GoodRuntime, IsRuntime, Fields
<1> HIDE DEF s
<1>2. GoodRuntime(s)
  BY <1>1 DEF GoodRuntime, GoodState, GoodHandling
<1> QED BY <1>1, <1>2 DEF Told, ToldBy, SameCommitted, s

\* The expiring timers: told of one tick more before, as told after.
LEMMA FiringKeeps ==
  ASSUME NEW r, GoodRuntime(r)
  PROVE  /\ GoodRuntime(FireExpiredTimers(r).runtime)
         /\ Told(r, 1) => Told(FireExpiredTimers(r).runtime, 0)
         /\ SameCommitted(r, FireExpiredTimers(r).runtime)
<1> DEFINE timers == AdvanceTimers(r.timers)
           advanced == [r EXCEPT !.timers = timers]
           h == TimersHandled(advanced, Expired(r.timers))
           drawn == [advanced EXCEPT !.draws = h.draws]
<1>1. timers \in Stores /\ (Told(r, 1) => TellsTimers(timers, r.hash, 0))
  BY TimersAdvance DEF GoodRuntime, GoodState, Told
<1>2. FireExpiredTimers(r) = Applied(drawn, h)
  <2>1. [r EXCEPT !.timers = AdvanceTimers(@)] = advanced
    OBVIOUS
  <2> QED BY <2>1 DEF FireExpiredTimers, FireTimers, AfterTimers
<1> HIDE DEF timers
<1>3. GoodRuntime(advanced) /\ (Told(r, 1) => Told(advanced, 0)) /\ SameCommitted(r, advanced)
  <2>1. advanced = SetTimers(r, timers, r.hash)
    BY DEF SetTimers, GoodRuntime, IsRuntime, Fields
  <2>2. IsSeq(r.hash)
    BY DEF GoodRuntime, GoodState
  <2> HIDE DEF advanced
  <2>3. /\ GoodRuntime(advanced) /\ advanced.timers = timers /\ advanced.hash = r.hash
        /\ advanced.integers = r.integers
    BY <1>1, <2>1, <2>2, WithTimers
  <2> QED BY <1>1, <2>3 DEF Told, SameCommitted
<1> HIDE DEF advanced
<1>4. GoodHandling(h)
  BY <1>3, TimersHandledIsGood
<1> HIDE DEF h
<1>5. GoodRuntime(drawn) /\ (Told(advanced, 0) => Told(drawn, 0)) /\ SameCommitted(advanced, drawn)
  <2>1. h.draws \in Nat
    BY <1>4 DEF GoodHandling
  <2> QED BY <1>3, <2>1, DrawsAreMade
<1> HIDE DEF drawn
<1>6. /\ GoodRuntime(Applied(drawn, h).runtime)
      /\ Told(drawn, 0) => Told(Applied(drawn, h).runtime, 0)
      /\ SameCommitted(drawn, Applied(drawn, h).runtime)
  BY <1>4, <1>5, AppliedKeeps
<1> QED BY <1>2, <1>3, <1>5, <1>6 DEF SameCommitted

LEMMA InputsKeep ==
  ASSUME NEW r, GoodRuntime(r)
  PROVE  LET applied == AfterInputs(r, InputsHandled(r))
         IN /\ GoodRuntime(applied.runtime)
            /\ Told(r, 0) => Told(applied.runtime, 0)
            /\ SameCommitted(r, applied.runtime)
<1> DEFINE h == InputsHandled(r)
           drawn == [r EXCEPT !.draws = h.draws, !.chart = h.chart, !.hash = h.hash]
<1>1. GoodHandling(h) /\ (Told(r, 0) => ToldBy(r, h)) /\ SameCommitted(r, h)
  BY InputsHandledIsGood
<1>2. AfterInputs(r, h) = Applied(drawn, h)
  BY DEF AfterInputs
<1> HIDE DEF h
<1>3. GoodRuntime(drawn) /\ (Told(r, 0) => Told(drawn, 0)) /\ SameCommitted(r, drawn)
  BY <1>1, HandlingIsTaken DEF SameCommitted
<1> HIDE DEF drawn
<1>4. /\ GoodRuntime(Applied(drawn, h).runtime)
      /\ Told(drawn, 0) => Told(Applied(drawn, h).runtime, 0)
      /\ SameCommitted(drawn, Applied(drawn, h).runtime)
  BY <1>1, <1>3, AppliedKeeps
<1> QED BY <1>2, <1>3, <1>4 DEF h, SameCommitted

\* A confirmed tick marks itself last, with what it leaves.
LEMMA ConfirmKeeps ==
  ASSUME NEW r, GoodRuntime(r)
  PROVE  /\ GoodRuntime(Confirm(r)) /\ EndsIn(Confirm(r))
         /\ Told(r, 0) => Told(Confirm(r), 1)
         /\ CommittedInputs(Confirm(r).hash) = CommittedInputs(r.hash) \o r.pending
         /\ Confirm(r).pending = <<>>
<1> DEFINE mark == <<"tick", r.tick + 1, r.pending, r.timers, r.draws, r.chart>>
           hash == Append(r.hash, mark)
           s == Confirm(r)
<1>1. /\ mark[1] = "tick" /\ mark[2] = r.tick + 1 /\ mark[3] = r.pending /\ mark[4] = r.timers
      /\ mark[5] = r.draws /\ mark[6] = r.chart
  OBVIOUS
<1>2. /\ IsRuntime(s) /\ s.tick = r.tick + 1 /\ s.hash = hash /\ s.pending = <<>>
      /\ s.integers = r.integers /\ s.draws = r.draws
      /\ s.timers = r.timers /\ s.chart = r.chart
      /\ s.events = r.events /\ s.nextSequence = r.nextSequence
  <2> HIDE DEF mark
  <2>1. s = [r EXCEPT !.tick = r.tick + 1, !.frames = Append(r.frames, r.pending),
                      !.hash = hash, !.pending = <<>>]
    BY DEF Confirm, mark
  <2> HIDE DEF s, hash
  <2> QED BY <2>1 DEF GoodRuntime, IsRuntime, Fields
<1> HIDE DEF mark, s
<1>3. /\ IsSeq(hash) /\ hash # <<>> /\ hash[Len(hash)] = mark
      /\ CommittedInputs(hash) = CommittedInputs(r.hash) \o r.pending
  <2>1. IsSeq(r.hash)
    BY DEF GoodRuntime, GoodState
  <2>2. /\ IsSeq(hash) /\ hash # <<>> /\ Len(hash) = Len(r.hash) + 1
        /\ hash[Len(r.hash) + 1] = mark
    BY <2>1, SeqGrows
  <2>3. CommittedInputs(hash) = CommittedInputs(r.hash) \o r.pending
    BY <1>1, <2>1, MarksCommit
  <2> QED BY <2>2, <2>3
<1>4. Told(r, 0) => TellsIntegers(r.integers, hash) /\ TellsTimers(r.timers, hash, 1)
  <2> SUFFICES ASSUME Told(r, 0)
               PROVE  TellsIntegers(r.integers, hash) /\ TellsTimers(r.timers, hash, 1)
    OBVIOUS
  <2>1. /\ IsSeq(r.hash) /\ r.integers \in Integers /\ r.timers \in Stores
        /\ TellsIntegers(r.integers, r.hash) /\ TellsTimers(r.timers, r.hash, 0)
    BY DEF GoodRuntime, GoodState, Told
  <2>2. TellsIntegers(r.integers, hash)
    BY <1>1, <2>1, IntegersStayTold
  <2>3. TellsTimers(r.timers, hash, IF mark[1] = "tick" THEN 0 + 1 ELSE 0)
    BY <1>1, <2>1, TimersStayTold
  <2>4. (IF mark[1] = "tick" THEN 0 + 1 ELSE 0) = 1
    BY <1>1
  <2> QED BY <2>2, <2>3, <2>4
<1> HIDE DEF hash
<1>5. EndsIn(s)
  BY <1>1, <1>2, <1>3 DEF EndsIn
<1>6. GoodRuntime(s)
  <2>1. r.tick + 1 \in Nat /\ <<>> \in Seq(LogicalInputs) /\ Len(<<>>) <= MaxPendingInputs
    BY LimitsAssumption, EmptySequence DEF GoodRuntime, GoodState
  <2> QED BY <1>2, <1>3, <2>1 DEF GoodRuntime, GoodState
<1> QED BY <1>2, <1>3, <1>4, <1>5, <1>6 DEF Told, s

LEMMA ChartIsRestored ==
  ASSUME NEW r, GoodRuntime(r), NEW chart \in Charts
  PROVE  LET s == [r EXCEPT !.chart = chart]
         IN GoodRuntime(s) /\ s.pending = r.pending /\ SameCommitted(r, s)
<1> DEFINE s == [r EXCEPT !.chart = chart]
<1>1. /\ IsRuntime(s) /\ s.tick = r.tick /\ s.hash = r.hash /\ s.pending = r.pending
      /\ s.integers = r.integers /\ s.draws = r.draws
      /\ s.timers = r.timers /\ s.chart = chart
      /\ s.events = r.events /\ s.nextSequence = r.nextSequence
  BY DEF GoodRuntime, IsRuntime, Fields
<1> HIDE DEF s
<1>2. GoodRuntime(s)
  BY <1>1 DEF GoodRuntime, GoodState
<1> QED BY <1>1, <1>2 DEF s, SameCommitted

LEMMA PendingIsSorted ==
  ASSUME NEW r, GoodRuntime(r)
  PROVE  LET s == [r EXCEPT !.pending = SortedInputs(@)]
         IN /\ GoodRuntime(s) /\ s.integers = r.integers /\ s.timers = r.timers
            /\ s.hash = r.hash /\ s.chart = r.chart /\ s.draws = r.draws /\ s.tick = r.tick
            /\ s.events = r.events /\ s.pending = SortedInputs(r.pending)
<1> DEFINE sorted == SortedInputs(r.pending)
           s == [r EXCEPT !.pending = sorted]
<1>1. sorted \in Seq(LogicalInputs) /\ Len(sorted) <= MaxPendingInputs
  BY SortedInputsAreInputs DEF GoodRuntime
<1>2. [r EXCEPT !.pending = SortedInputs(@)] = s
  OBVIOUS
<1> HIDE DEF sorted
<1>3. /\ IsRuntime(s) /\ s.tick = r.tick /\ s.hash = r.hash /\ s.pending = sorted
      /\ s.integers = r.integers /\ s.draws = r.draws
      /\ s.timers = r.timers /\ s.chart = r.chart
      /\ s.events = r.events /\ s.nextSequence = r.nextSequence
  BY DEF GoodRuntime, IsRuntime, Fields
<1> HIDE DEF s
<1>4. GoodRuntime(s)
  BY <1>1, <1>3 DEF GoodRuntime, GoodState
<1> QED BY <1>2, <1>3, <1>4 DEF sorted

\* A tick keeps a runtime good; one that is committed, what its hash tells, and the hash
\* takes exactly the pending inputs: a tick that fails records none.
LEMMA TickKeeps ==
  ASSUME NEW r, GoodRuntime(r)
  PROVE  LET ticked == CommitTick(r)
         IN /\ GoodRuntime(ticked.runtime)
            /\ ticked.error = "none" =>
                 /\ EndsIn(ticked.runtime) /\ (Told(r, 1) => Told(ticked.runtime, 1))
                 /\ CommittedInputs(ticked.runtime.hash)
                      = CommittedInputs(r.hash) \o SortedInputs(r.pending)
                 /\ ticked.runtime.pending = <<>>
            /\ ticked.error # "none" =>
                 /\ SameCommitted(r, ticked.runtime)
                 /\ ticked.runtime.pending \in {r.pending, SortedInputs(r.pending)}
<1> DEFINE fired == FireExpiredTimers(r)
           sorted == [fired.runtime EXCEPT !.pending = SortedInputs(@)]
           applied == AfterInputs(sorted, InputsHandled(sorted))
<1>1. /\ GoodRuntime(fired.runtime) /\ (Told(r, 1) => Told(fired.runtime, 0))
      /\ SameCommitted(r, fired.runtime)
  BY FiringKeeps
<1>2. fired.runtime.pending = r.pending
  BY TimersKeepReplay DEF GoodRuntime, SameReplay
<1>3. CASE fired.error # "none"
  <2>1. CommitTick(r) = fired
    BY <1>3 DEF CommitTick, CommitInputs
  <2> QED BY <1>1, <1>2, <1>3, <2>1
<1>4. CASE fired.error = "none"
  <2>1. CommitTick(r) = Finish(sorted.chart, applied)
    BY <1>4 DEF CommitTick, CommitInputs, CommitSorted
  <2> HIDE DEF fired
  <2>2. /\ GoodRuntime(sorted) /\ (Told(r, 1) => Told(sorted, 0))
        /\ SameCommitted(r, sorted) /\ sorted.pending = SortedInputs(r.pending)
    BY <1>1, <1>2, PendingIsSorted DEF Told, SameCommitted
  <2> HIDE DEF sorted
  <2>3. /\ GoodRuntime(applied.runtime) /\ (Told(r, 1) => Told(applied.runtime, 0))
        /\ SameCommitted(r, applied.runtime)
    BY <2>2, InputsKeep DEF SameCommitted
  <2>4. sorted.chart \in Charts /\ applied.runtime.pending = SortedInputs(r.pending)
    <3>1. SameReplay(sorted, applied.runtime)
      BY <2>2, InputsKeepReplay DEF GoodRuntime
    <3> QED BY <2>2, <3>1 DEF GoodRuntime, GoodState, SameReplay
  <2> HIDE DEF applied
  <2>5. CASE applied.error = "none"
    <3>1. CommitTick(r).runtime = Confirm(applied.runtime) /\ CommitTick(r).error = "none"
      BY <2>1, <2>5 DEF Finish, Outcome
    <3>2. /\ GoodRuntime(Confirm(applied.runtime)) /\ EndsIn(Confirm(applied.runtime))
          /\ Told(applied.runtime, 0) => Told(Confirm(applied.runtime), 1)
          /\ CommittedInputs(Confirm(applied.runtime).hash)
               = CommittedInputs(applied.runtime.hash) \o applied.runtime.pending
          /\ Confirm(applied.runtime).pending = <<>>
      BY <2>3, ConfirmKeeps
    <3> QED BY <2>3, <2>4, <3>1, <3>2 DEF SameCommitted
  <2>6. CASE applied.error # "none"
    <3> DEFINE restored == [applied.runtime EXCEPT !.chart = sorted.chart]
    <3>1. CommitTick(r).runtime = restored /\ CommitTick(r).error # "none"
      BY <2>1, <2>6 DEF Finish, Outcome
    <3>2. /\ GoodRuntime(restored) /\ restored.pending = applied.runtime.pending
          /\ SameCommitted(applied.runtime, restored)
      BY <2>3, <2>4, ChartIsRestored
    <3> HIDE DEF restored
    <3> QED BY <2>3, <2>4, <3>1, <3>2 DEF SameCommitted
  <2> QED BY <2>5, <2>6
<1> QED BY <1>3, <1>4

-----------------------------------------------------------------------------
(* Saves, and the re-execution of a replay *)

SaveFields == {"tick", "hash", "integers", "draws", "timers", "chart"}

GoodSave(save) == save = [f \in SaveFields |-> save[f]] /\ GoodState(save)

LEMMA SaveIsGood ==
  ASSUME NEW r, GoodRuntime(r)
  PROVE  /\ GoodSave(SaveOf(r))
         /\ \A extra : Told(r, extra) => Told(SaveOf(r), extra)
         /\ EndsIn(r) => EndsIn(SaveOf(r))
<1> DEFINE save == SaveOf(r)
<1>1. /\ save = [f \in SaveFields |-> save[f]]
      /\ save.tick = r.tick /\ save.hash = r.hash /\ save.integers = r.integers
      /\ save.draws = r.draws /\ save.timers = r.timers /\ save.chart = r.chart
  BY DEF SaveOf, SaveFields
<1> HIDE DEF save
<1>2. GoodSave(save)
  BY <1>1 DEF GoodSave, GoodRuntime, GoodState
<1>3. \A extra : Told(r, extra) => Told(save, extra)
  BY <1>1 DEF Told
<1>4. EndsIn(r) => EndsIn(save)
  BY <1>1 DEF EndsIn
<1> QED BY <1>2, <1>3, <1>4 DEF save

\* Two saves of the same fields are the same.
LEMMA SameSaves ==
  ASSUME NEW save, GoodSave(save), NEW r, GoodRuntime(r),
         r.tick = save.tick, r.hash = save.hash, r.integers = save.integers,
         r.draws = save.draws, r.timers = save.timers, r.chart = save.chart
  PROVE  SaveOf(r) = save
BY DEF GoodSave, SaveOf, SaveFields

LEMMA NewRuntimeIsGood ==
  /\ GoodRuntime(NewRuntime) /\ Told(NewRuntime, 1) /\ EndsIn(NewRuntime)
  /\ GoodSave(InitialSave) /\ SaveOf(NewRuntime) = InitialSave
  /\ NewRuntime.pending = <<>> /\ NewRuntime.events = <<>> /\ NewRuntime.frames = <<>>
  /\ NewRuntime.initial = InitialSave
<1> DEFINE r == NewRuntime
<1>1. /\ r.tick = 0 /\ r.hash = <<>> /\ r.integers = [k \in Keys |-> 0] /\ r.draws = 0
      /\ r.timers = [t \in Timers |-> 0]
      /\ r.chart = [active |-> InitialChartState, ticks |-> 0]
      /\ r.pending = <<>> /\ r.events = <<>> /\ r.nextSequence = 1
      /\ r.initial = InitialSave /\ r.frames = <<>>
  BY DEF NewRuntime
<1>2. IsRuntime(r) /\ SaveOf(r) = InitialSave
  <2>1. IsRuntime(r)
    BY NewRuntimeReplay
  <2> QED BY <1>1, <2>1 DEF SaveOf, InitialSave
<1> HIDE DEF r
<1>3. r.integers \in Integers /\ r.timers \in Stores /\ r.chart \in Charts
  <2>1. 0 \in MinInteger..MaxInteger
    BY LimitsAssumption
  <2> QED BY <1>1, <2>1, ChartAssumption DEF Integers, Stores, Charts
<1>4. GoodRuntime(r)
  <2>1. IsSeq(<<>>) /\ <<>> \in Seq(LogicalInputs) /\ Len(<<>>) = 0
    BY NothingIsSeq, EmptySequence
  <2>2. 0 <= MaxPendingInputs /\ 0 <= MaxPresentationEvents
    BY LimitsAssumption
  <2> QED BY <1>1, <1>2, <1>3, <2>1, <2>2 DEF GoodRuntime, GoodState
<1>5. Told(r, 1)
  <2>1. DOMAIN <<>> = {}
    BY NothingIsSeq
  <2>2. \A k \in Keys : r.integers[k] = 0
    BY <1>1
  <2>3. \A t \in Timers : r.timers[t] = 0
    BY <1>1
  <2>4. TellsIntegers(r.integers, r.hash)
    BY <1>1, <2>1, <2>2 DEF TellsIntegers, Integer
  <2>5. TellsTimers(r.timers, r.hash, 1)
    BY <2>3 DEF TellsTimers
  <2> QED BY <2>4, <2>5 DEF Told
<1>6. EndsIn(r)
  BY <1>1 DEF EndsIn
<1>7. GoodSave(InitialSave)
  BY <1>2, <1>4, SaveIsGood
<1> QED BY <1>1, <1>2, <1>4, <1>5, <1>6, <1>7 DEF r

LEMMA LoadIsGood ==
  ASSUME NEW r, GoodRuntime(r), r.pending = <<>>, NEW save, GoodSave(save)
  PROVE  LET s == LoadSaveInto(r, save).runtime
         IN /\ LoadSaveInto(r, save).error = "none"
            /\ GoodRuntime(s) /\ SaveOf(s) = save
            /\ s.events = <<>> /\ s.frames = <<>> /\ s.initial = save /\ s.pending = <<>>
<1> DEFINE s == [r EXCEPT !.tick = save.tick, !.hash = save.hash,
                          !.integers = save.integers, !.draws = save.draws,
                          !.timers = save.timers, !.chart = save.chart,
                          !.initial = save, !.frames = <<>>, !.events = <<>>]
<1>1. LoadSaveInto(r, save) = Outcome("none", s)
  BY DEF LoadSaveInto
<1>2. /\ IsRuntime(s) /\ s.tick = save.tick /\ s.hash = save.hash /\ s.integers = save.integers
      /\ s.draws = save.draws /\ s.timers = save.timers /\ s.chart = save.chart
      /\ s.initial = save /\ s.frames = <<>> /\ s.events = <<>>
      /\ s.pending = r.pending /\ s.nextSequence = r.nextSequence
  BY DEF GoodRuntime, IsRuntime, Fields
<1> HIDE DEF s
<1>3. GoodRuntime(s)
  <2>1. IsSeq(<<>>) /\ Len(<<>>) <= MaxPresentationEvents
    BY NothingIsSeq, LimitsAssumption
  <2> QED BY <1>2, <2>1 DEF GoodRuntime, GoodState, GoodSave
<1>4. SaveOf(s) = save
  BY <1>2, <1>3, SameSaves
<1> QED BY <1>1, <1>2, <1>3, <1>4 DEF Outcome

=============================================================================
