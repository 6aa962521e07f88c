------------------------- MODULE VisualizerThreads_proofs -------------------------
(***************************************************************************)
(* For any number of timers, so for any nesting of callbacks, for any      *)
(* speeds, Stop events and length of the simulation:                       *)
(*   TypeCorrect     the variables keep their types                        *)
(*   ViewKeepsUp     the simulation is ahead of the view by no more than   *)
(*                   the sample period in force when the view was shown    *)
(*   PlayingHasTimer while playing, the remembered timer is alive          *)
(*   GoIsNotLost     a go stays until a run that serves it has ended       *)
(*   JoinNeverBlocks, JoinIsShort   _quit does not wait for ever           *)
(* The second is not inductive alone: the simulation runs to target, which *)
(* TargetClose keeps within that period of what the view has shown.        *)
(***************************************************************************)
EXTENDS VisualizerThreads, SequenceTheorems, TLAPS

\* Both what the simulation has reached and what it may go to.
TargetClose == now <= shown + step /\ target <= shown + step

-----------------------------------------------------------------------------
(* Numbers. *)

LEMMA Numbers ==
  TypeOK => /\ MaxTime \in Nat /\ Stops \subseteq Nat
            /\ now \in 0 .. MaxTime /\ target \in 0 .. MaxTime /\ shown \in 0 .. MaxTime
            /\ idles \in Nat
            /\ period \in Nat /\ period > 0 /\ step \in Nat
<1> SUFFICES ASSUME TypeOK
             PROVE  /\ MaxTime \in Nat /\ Stops \subseteq Nat
                    /\ now \in 0 .. MaxTime /\ target \in 0 .. MaxTime
                    /\ shown \in 0 .. MaxTime
                    /\ idles \in Nat
                    /\ period \in Nat /\ period > 0 /\ step \in Nat
  OBVIOUS
<1>1. MaxTime \in Nat /\ Stops \subseteq Nat /\ Periods \subseteq Nat \ {0}
  BY Zenon, VisualizerAssumption DEF VisualizerAssumption
<1>2. now \in 0 .. MaxTime /\ target \in 0 .. MaxTime /\ shown \in 0 .. MaxTime
  BY Zenon DEF TypeOK
<1>3. period \in Periods /\ step \in Periods /\ idles \in Nat
  BY Zenon DEF TypeOK
<1>4. period \in Nat \ {0} /\ step \in Nat
  BY <1>1, <1>3
<1> QED
  BY <1>1, <1>2, <1>3, <1>4

\* A run ends where it began, or no later than the target; short of the target
\* only when there has been a Stop of the scenario.
LEMMA RunEndsAt ==
  ASSUME TypeOK, NEW e \in RunEnds
  PROVE  /\ e \in 0 .. MaxTime
         /\ e = now \/ e <= target
         /\ e >= target \/ \E x \in Stops : x <= e
<1>1. CASE now >= target
  <2>1. e = now
    BY <1>1 DEF RunEnds
  <2> QED
    BY <1>1, <2>1, Numbers
<1>2. CASE ~(now >= target)
  <2>1. \/ e = target
        \/ e \in Stops /\ now <= e /\ e < target
        \/ e = now /\ \E x \in Stops : x <= e
    BY <1>2 DEF RunEnds
  <2>2. CASE e = target
    BY <2>2, Numbers
  <2>3. CASE e \in Stops /\ now <= e /\ e < target
    BY <2>3, Numbers
  <2>4. CASE e = now /\ \E x \in Stops : x <= e
    BY <2>4, Numbers
  <2> QED
    BY <2>1, <2>2, <2>3, <2>4
<1> QED
  BY <1>1, <1>2

-----------------------------------------------------------------------------
(* Types. *)

\* The innermost callback can be taken off the stack and changed.
LEMMA FramesTyped ==
  ASSUME frames \in Seq(Frames), frames # <<>>
  PROVE  /\ Top \in Frames
         /\ Pop \in Seq(Frames)
         /\ \A f \in Frames : WithTop(f) \in Seq(Frames)
<1>1. Len(frames) \in Nat \ {0}
  BY EmptySeq, LenProperties
<1>2. Top \in Frames
  BY <1>1, ElementOfSeq DEF Top
<1>3. Pop \in Seq(Frames)
  BY <1>1, ElementOfSeq, SubSeqProperties DEF Pop
<1>4. ASSUME NEW f \in Frames
      PROVE  WithTop(f) \in Seq(Frames)
  BY <1>3, <1>4, AppendProperties DEF WithTop
<1> QED
  BY <1>2, <1>3, <1>4

\* Its place and its pause flag are changed without leaving the type.
LEMMA FrameChanged ==
  ASSUME NEW f \in Frames, NEW at \in {"try", "spin", "after"}, NEW p \in BOOLEAN
  PROVE  /\ [f EXCEPT !.at = at] \in Frames
         /\ [f EXCEPT !.at = at, !.pause = p] \in Frames
  BY Zenon DEF Frames

LEMMA InitTypes == VisualizerAssumption /\ Init => TypeOK
<1> SUFFICES ASSUME VisualizerAssumption, Init PROVE TypeOK
  OBVIOUS
<1>1. frames \in Seq(Frames)
  BY EmptySeq DEF Init
<1>2. timers \subseteq TimerIds /\ timerId \in TimerIds
  BY DEF Init
<1>3. {now, target, shown} \subseteq 0 .. MaxTime /\ idles \in Nat
  BY DEF VisualizerAssumption, Init
<1>6. {period, step} \subseteq Periods
  BY DEF VisualizerAssumption, Init
<1>4. {go, quit, play, messages} \subseteq BOOLEAN
  BY DEF Init
<1>5. locked \in BOOLEAN /\ (locked <=> sim \in {"run", "release"})
  BY DEF Init
<1> QED
  BY <1>1, <1>2, <1>3, <1>4, <1>5, <1>6 DEF Init, TypeOK

LEMMA NextTypes == VisualizerAssumption /\ TypeOK /\ [Next]_vars => TypeOK'
<1> SUFFICES ASSUME VisualizerAssumption, TypeOK, [Next]_vars PROVE TypeOK'
  OBVIOUS
<1> USE DEF VisualizerAssumption, TypeOK
<1>1. CASE Wake
  BY <1>1 DEF Wake, viewVars
<1>2. CASE Clear
  BY <1>2 DEF Clear, viewVars
<1>3. CASE CheckQuit
  BY <1>3 DEF CheckQuit, viewVars
<1>4. CASE Acquire
  BY <1>4 DEF Acquire, viewVars
<1>5. CASE RunUntil
  <2>1. now' \in RunEnds /\ idles' = idles + 1 /\ UNCHANGED <<target, shown>>
    BY <1>5 DEF RunUntil, viewVars
  <2>2. now' \in 0 .. MaxTime /\ idles' \in Nat
    BY <2>1, RunEndsAt, Numbers
  <2>3. {now, target, shown}' \subseteq 0 .. MaxTime
    BY <2>1, <2>2
  <2>4. messages' \in BOOLEAN
    BY <1>5 DEF RunUntil
  <2>5. UNCHANGED <<locked, viewVars, go, quit>> /\ sim = "run" /\ sim' = "release"
    BY <1>5 DEF RunUntil
  <2> QED
    BY <2>2, <2>3, <2>4, <2>5 DEF viewVars
<1>6. CASE Release
  BY <1>6 DEF Release, viewVars
<1>7. CASE UpdateModel
  BY <1>7 DEF UpdateModel
<1>8. CASE Spin
  <2>1. frames' \in Seq(Frames)
    BY <1>8, FramesTyped, FrameChanged DEF Spin, Inside
  <2> QED
    BY <1>8, <2>1 DEF Spin, simVars
<1>9. CASE UpdateView
  <2>1. frames' \in Seq(Frames)
    BY <1>9, FramesTyped, FrameChanged DEF UpdateView, Inside
  <2>2. target' \in 0 .. MaxTime
    BY <1>9 DEF UpdateView, NextTarget
  <2> QED
    BY <1>9, <2>1, <2>2 DEF UpdateView, simVars
<1>10. CASE EndTick
  <2>1. frames' \in Seq(Frames)
    BY <1>10, FramesTyped DEF EndTick, Inside
  <2>2. play' \in BOOLEAN
    BY <1>10 DEF EndTick
  <2>3. timers' \subseteq TimerIds /\ timerId' \in TimerIds \cup {NoTimer} /\ go' \in BOOLEAN
    BY <1>10 DEF EndTick
  <2> QED
    BY <1>10, <2>1, <2>2, <2>3 DEF EndTick, simVars
<1>11. ASSUME NEW t \in TimerIds, Tick(t)
       PROVE  TypeOK'
  <2>1. [timer |-> t, at |-> "try", pause |-> FALSE] \in Frames
    BY DEF Frames
  <2>2. frames' \in Seq(Frames)
    BY <1>11, <2>1, AppendProperties DEF Tick
  <2> QED
    BY <1>11, <2>2 DEF Tick, simVars
<1>12. CASE PlayToggled
  BY <1>12 DEF PlayToggled, StartUpdateTimer, simVars
<1>13. CASE SpeedChanged
  <2>1. period' \in Periods
    BY <1>13 DEF SpeedChanged
  <2> QED
    BY <1>13, <2>1 DEF SpeedChanged, StartUpdateTimer, simVars
<1>14. CASE Quit
  BY <1>14 DEF Quit, simVars
<1>15. CASE QuitGoes
  BY <1>15 DEF QuitGoes, simVars
<1>16. CASE Joined
  BY <1>16 DEF Joined, simVars
<1>17. CASE UNCHANGED vars
  BY <1>17 DEF vars, simVars, viewVars
<1> QED
  BY <1>1, <1>2, <1>3, <1>4, <1>5, <1>6, <1>7, <1>8, <1>9, <1>10, <1>11,
     <1>12, <1>13, <1>14, <1>15, <1>16, <1>17 DEF Next, SimStep

\* The variables have their types in every reachable state, however deep the
\* callbacks of update_view_timeout nest.
THEOREM TypeCorrect == Spec => []TypeOK
<1> USE VisualizerAssumption
<1>1. Init => TypeOK
  BY InitTypes
<1>2. TypeOK /\ [Next]_vars => TypeOK'
  BY NextTypes
<1> QED
  BY <1>1, <1>2, PTL DEF Spec

-----------------------------------------------------------------------------
(* The simulation and the view. *)

\* A step that leaves now, target, shown and step alone leaves TargetClose alone.
LEMMA NextClose == TypeOK /\ TargetClose /\ [Next]_vars => TargetClose'
<1> SUFFICES ASSUME TypeOK, TargetClose, [Next]_vars PROVE TargetClose'
  OBVIOUS
<1> USE DEF TargetClose
<1>1. CASE RunUntil
  <2>1. now' \in RunEnds /\ UNCHANGED <<target, shown, step>>
    BY <1>1 DEF RunUntil, viewVars
  <2>2. now' = now \/ now' <= target
    BY <2>1, RunEndsAt
  <2>3. now' \in 0 .. MaxTime
    BY <2>1, RunEndsAt
  <2> QED
    BY <2>1, <2>2, <2>3, Numbers
<1>2. CASE UpdateView
  <2>1. shown' = now /\ step' = period /\ now' = now /\ target' = NextTarget
    BY <1>2 DEF UpdateView, simVars
  <2> QED
    BY <2>1, Numbers DEF NextTarget
<1>3. CASE Wake \/ Clear \/ CheckQuit \/ Acquire \/ Release
  BY <1>3 DEF Wake, Clear, CheckQuit, Acquire, Release, viewVars
<1>4. CASE UpdateModel \/ Spin \/ EndTick \/ PlayToggled \/ SpeedChanged
  BY <1>4 DEF UpdateModel, Spin, EndTick, PlayToggled, SpeedChanged, simVars
<1>5. CASE (\E t \in TimerIds : Tick(t)) \/ Quit \/ QuitGoes \/ Joined
  BY <1>5 DEF Tick, Quit, QuitGoes, Joined, simVars
<1>6. CASE UNCHANGED vars
  BY <1>6 DEF vars, simVars, viewVars
<1> QED
  BY <1>1, <1>2, <1>3, <1>4, <1>5, <1>6 DEF Next, SimStep

\* The simulation is never further ahead of the view than the sample period that
\* was in force when the view was shown, whatever the speed is by now.
THEOREM ViewKeepsUp == Spec => []NeverAhead
<1>1. Init => TargetClose
  BY VisualizerAssumption DEF Init, TargetClose, VisualizerAssumption
<1>2. TypeOK /\ TargetClose /\ [Next]_vars => TargetClose'
  BY NextClose
<1>3. TargetClose => NeverAhead
  BY DEF TargetClose, NeverAhead
<1> QED
  BY <1>1, <1>2, <1>3, TypeCorrect, PTL DEF Spec

-----------------------------------------------------------------------------
(* The timer. *)

LEMMA NextPlaying == PlayingTicks /\ [Next]_vars => PlayingTicks'
<1> SUFFICES ASSUME PlayingTicks, [Next]_vars PROVE PlayingTicks'
  OBVIOUS
<1> USE DEF PlayingTicks
<1>1. CASE SimStep
  <2>1. UNCHANGED viewVars
    BY <1>1 DEF SimStep, Wake, Clear, CheckQuit, Acquire, RunUntil, Release
  <2> QED
    BY <2>1 DEF viewVars
<1>2. CASE UpdateModel \/ Spin \/ UpdateView
  <2>1. UNCHANGED <<view, play, timers, timerId>>
    BY Zenon, <1>2 DEF UpdateModel, Spin, UpdateView
  <2> QED
    BY <2>1
<1>3. CASE EndTick
  BY <1>3 DEF EndTick
<1>4. CASE \E t \in TimerIds : Tick(t)
  BY <1>4 DEF Tick
<1>5. CASE PlayToggled
  BY <1>5 DEF PlayToggled, StartUpdateTimer
<1>6. CASE SpeedChanged
  BY <1>6 DEF SpeedChanged, StartUpdateTimer
<1>7. CASE Quit \/ QuitGoes \/ Joined
  BY <1>7 DEF Quit, QuitGoes, Joined
<1>8. CASE UNCHANGED vars
  BY <1>8 DEF vars, viewVars
<1> QED
  BY <1>1, <1>2, <1>3, <1>4, <1>5, <1>6, <1>7, <1>8 DEF Next

\* While the button is on, the timer that pausing would stop is alive.
THEOREM PlayingHasTimer == Spec => []PlayingTicks
<1>1. Init => PlayingTicks
  BY DEF Init, PlayingTicks
<1> QED
  BY <1>1, NextPlaying, PTL DEF Spec

-----------------------------------------------------------------------------
(* The safety part of GoHonoured. *)

\* The simulation thread is on its way to a run: it was given a go that it
\* has not taken, or has taken one.
Owed == go \/ sim \in {"clear", "check", "lock", "run"}

\* What a step may do when the simulation has a go and a target ahead: the go
\* stays, with a target ahead, until a run has ended, at the target or after a
\* Stop event.
KeepsGo ==
  Owed /\ now < target =>
    \/ Owed' /\ now' = now /\ now < target'
    \/ RunDone'
    \/ quit

\* A go that was given stays given, for a target ahead, until the simulation
\* has run to it or a Stop of the scenario has come between, or the window is
\* closed: Event.clear() never clears a go whose run is not about to come.
THEOREM GoIsNotLost == Spec => [][KeepsGo]_vars
<1>1. ASSUME TypeOK, Next PROVE KeepsGo
  <2> SUFFICES ASSUME Owed, now < target, ~quit
               PROVE  (Owed' /\ now' = now /\ now < target') \/ RunDone'
    BY DEF KeepsGo
  <2>1. /\ now \in Int /\ target \in Int /\ MaxTime \in Int /\ target <= MaxTime
        /\ period \in Nat /\ period > 0
    BY <1>1, Numbers
  <2>2. CASE Wake \/ Clear \/ CheckQuit \/ Acquire \/ Release
    <3>1. target' = target /\ now' = now
      BY <2>2 DEF Wake, Clear, CheckQuit, Acquire, Release
    <3>2. Owed'
      BY <2>2 DEF Owed, Wake, Clear, CheckQuit, Acquire, Release
    <3> QED
      BY <2>1, <3>1, <3>2
  <2>3. CASE RunUntil
    <3>1. sim' = "release" /\ locked' = locked /\ target' = target /\ now' \in RunEnds
      BY <2>3 DEF RunUntil
    <3>2. locked
      BY <1>1, <2>3 DEF TypeOK, RunUntil
    <3>3. now' >= target \/ \E x \in Stops : x <= now'
      BY <1>1, <3>1, RunEndsAt
    <3> QED
      BY <3>1, <3>2, <3>3 DEF RunDone
  <2>4. CASE UpdateView
    <3>1. target' = NextTarget /\ now' = now /\ Owed'
      BY <2>4 DEF UpdateView, simVars, Owed
    <3>2. now < NextTarget
      BY <2>1 DEF NextTarget
    <3> QED
      BY <3>1, <3>2
  <2>5. CASE UpdateModel \/ Spin \/ EndTick \/ PlayToggled \/ SpeedChanged
    <3>1. UNCHANGED <<target, now, sim>> /\ (UNCHANGED go \/ go')
      BY <2>5 DEF UpdateModel, Spin, EndTick, PlayToggled, SpeedChanged, simVars
    <3> QED
      BY <2>1, <3>1 DEF Owed
  <2>6. CASE (\E t \in TimerIds : Tick(t)) \/ Quit \/ QuitGoes \/ Joined
    <3>1. UNCHANGED <<target, now, sim>> /\ (UNCHANGED go \/ go')
      BY <2>6 DEF Tick, Quit, QuitGoes, Joined, simVars
    <3> QED
      BY <2>1, <3>1 DEF Owed
  <2> QED
    BY <1>1, <2>2, <2>3, <2>4, <2>5, <2>6 DEF Next, SimStep
<1>2. TypeOK /\ [Next]_vars => [KeepsGo]_vars
  BY <1>1
<1> QED
  BY <1>2, TypeCorrect, PTL DEF Spec

-----------------------------------------------------------------------------
(* The safety part of JoinReturns. *)

\* Steps of the simulation thread to its end, once quit is set.
StepsToEnd ==
  CASE sim \in {"wait", "lock"} -> 3
    [] sim \in {"clear", "run"} -> 2
    [] sim \in {"check", "release"} -> 1
    [] OTHER -> 0

\* quit is set before the last go, and join() comes after both; the calls of
\* update_view_timeout that _quit was clicked in wait until it returns.
QuitIsKnown ==
  /\ view # "main" => quit
  /\ view = "joining" => sim # "wait" \/ go
  /\ view \in {"quitting", "joining"} => ~Inside("try")

\* While the view waits in join() only the simulation thread moves, towards its
\* end.
OnlyEnds ==
  view = "joining" => view' = "over" \/ (view' = "joining" /\ StepsToEnd' < StepsToEnd)

LEMMA NextQuitIsKnown == QuitIsKnown /\ [Next]_vars => QuitIsKnown'
<1> SUFFICES ASSUME QuitIsKnown, [Next]_vars PROVE QuitIsKnown'
  OBVIOUS
<1> USE DEF QuitIsKnown
<1>1. CASE Wake \/ Clear \/ CheckQuit \/ Acquire \/ RunUntil \/ Release
  BY <1>1 DEF Wake, Clear, CheckQuit, Acquire, RunUntil, Release, viewVars, Inside, Top
<1>2. CASE UpdateModel \/ PlayToggled \/ SpeedChanged
  <2>1. UNCHANGED <<view, quit, go, sim, frames>>
    BY Zenon, <1>2 DEF UpdateModel, PlayToggled, SpeedChanged, simVars
  <2> QED
    BY <2>1 DEF Inside, Top
<1>3. CASE Spin \/ UpdateView
  <2>1. UNCHANGED <<view, quit, go, sim>> /\ view \notin {"quitting", "joining"}
    BY Zenon, <1>3 DEF Spin, UpdateView, simVars
  <2> QED
    BY <2>1
<1>4. CASE EndTick
  <2>1. UNCHANGED <<view, quit, sim>> /\ view \in {"main", "over"}
    BY <1>4 DEF EndTick, simVars
  <2> QED
    BY <2>1
<1>5. CASE \E t \in TimerIds : Tick(t)
  <2>1. UNCHANGED <<view, quit, sim, go>> /\ view \notin {"quitting", "joining"}
    BY <1>5 DEF Tick, Dispatches, InLoop, simVars
  <2> QED
    BY <2>1
<1>6. CASE Quit
  <2>1. /\ view' = "quitting" /\ quit' = TRUE /\ frames' = frames
        /\ frames = <<>> \/ Inside("spin")
    BY <1>6 DEF Quit, Dispatches, InLoop
  <2> QED
    BY <2>1 DEF Inside, Top
<1>7. CASE QuitGoes \/ Joined
  BY <1>7 DEF QuitGoes, Joined, simVars, Inside, Top
<1>8. CASE UNCHANGED vars
  BY <1>8 DEF vars, simVars, viewVars, Inside, Top
<1> QED
  BY <1>1, <1>2, <1>3, <1>4, <1>5, <1>6, <1>7, <1>8 DEF Next, SimStep

\* The simulation thread is never blocked while _quit joins it: it has the
\* last go if it waits for one, and the lock is free if it wants it.
THEOREM JoinNeverBlocks ==
  Spec => [](view = "joining" => (sim = "wait" => go) /\ (sim = "lock" => ~locked))
<1>1. TypeOK /\ QuitIsKnown =>
        (view = "joining" => (sim = "wait" => go) /\ (sim = "lock" => ~locked))
  BY DEF TypeOK, QuitIsKnown
<1>2. Init => QuitIsKnown
  BY DEF Init, QuitIsKnown
<1> QED
  BY <1>1, <1>2, NextQuitIsKnown, TypeCorrect, PTL DEF Spec

\* And it is at its end after three steps at most, each of which leaves fewer:
\* it does not start another period, and nothing else moves meanwhile.
THEOREM JoinIsShort == Spec => [][OnlyEnds]_vars
<1>1. ASSUME QuitIsKnown, Next, view = "joining"
      PROVE  view' = "over" \/ (view' = "joining" /\ StepsToEnd' < StepsToEnd)
  <2>1. quit
    BY <1>1 DEF QuitIsKnown
  <2>2. ~InLoop
    BY <1>1 DEF InLoop
  <2>3. SimStep \/ Joined
    BY <1>1, <2>2, Zenon DEF QuitIsKnown, Spin, Next, Dispatches, UpdateModel,
                             UpdateView, EndTick, Tick, PlayToggled, SpeedChanged, Quit, QuitGoes
  <2>4. CASE Joined
    BY <2>4 DEF Joined
  <2>5. CASE SimStep
    <3>1. view' = view
      BY <2>5 DEF SimStep, Wake, Clear, CheckQuit, Acquire, RunUntil, Release, viewVars
    <3>2. \/ sim = "wait" /\ sim' = "clear"
          \/ sim = "clear" /\ sim' = "check"
          \/ sim = "check" /\ sim' = "end"
          \/ sim = "lock" /\ sim' = "run"
          \/ sim = "run" /\ sim' = "release"
          \/ sim = "release" /\ sim' = "end"
      BY <2>1, <2>5 DEF SimStep, Wake, Clear, CheckQuit, Acquire, RunUntil, Release
    <3>3. StepsToEnd' < StepsToEnd
      BY <3>2 DEF StepsToEnd
    <3> QED
      BY <1>1, <3>1, <3>3
  <2> QED
    BY <2>3, <2>4, <2>5
<1>2. QuitIsKnown /\ [Next]_vars => [OnlyEnds]_vars
  BY <1>1 DEF OnlyEnds
<1>3. Init => QuitIsKnown
  BY DEF Init, QuitIsKnown
<1> QED
  BY <1>2, <1>3, NextQuitIsKnown, PTL DEF Spec
=============================================================================
