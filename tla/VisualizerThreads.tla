------------------------- MODULE VisualizerThreads -------------------------
(***************************************************************************)
(* The two threads of the PyViz visualizer, visualizer/core.py:            *)
(*   SimulationThread  waits for "go", runs the simulator up to            *)
(*                     target_time under the lock, queues update_model     *)
(*   Visualizer        the GTK main loop: the update timer, the idle       *)
(*                     callback update_model, the play button, the speed   *)
(*                     control and the closing of the window               *)
(* update_view_timeout runs the main loop again while the simulator is     *)
(* busy, so callbacks nest: frames is the stack of those that wait.        *)
(* A callback that takes the lock for its whole body is one step, taken    *)
(* when the lock is free.                                                  *)
(***************************************************************************)
EXTENDS Integers, Sequences

CONSTANTS
  Pauses,       \* the simulation calls PyViz::Pause now and then
  SamplePeriod, \* SAMPLE_PERIOD, simulated time at speed 1
  Periods,      \* SAMPLE_PERIOD times the speeds that the user may choose
  Stops,        \* times of the Simulator::Stop events in the scenario
  TimerIds,     \* bound: GLib sources alive at once; a removed id comes back
  MaxTime       \* bound: the simulation has no more events after this time

ASSUME VisualizerAssumption ==
  /\ Pauses \in BOOLEAN
  /\ Periods \subseteq Nat \ {0} /\ SamplePeriod \in Periods
  /\ Stops \subseteq Nat
  /\ TimerIds \subseteq Nat \ {0}
  /\ MaxTime \in Nat

NoTimer == 0

VARIABLES
  sim,        \* what the simulation thread is about to do
  locked,     \* simulation.lock is taken, by the simulation thread
  go, quit, target,   \* the members of SimulationThread
  now,        \* Simulator::Now()
  messages,   \* pause_messages is not empty
  idles,      \* update_model callbacks that are queued
  view,       \* what the view thread does
  frames,     \* the calls of update_view_timeout, innermost last
  play,       \* play_button.get_active()
  timers,     \* sources that are alive
  timerId,    \* _update_timeout_id
  period,     \* sample_period
  shown,      \* history: simulated time of the last update_view
  step        \* history: sample_period at that update_view

simVars == <<sim, locked, now, idles>>
viewVars == <<view, frames, play, timers, timerId, period, shown, step>>
vars == <<simVars, viewVars, go, quit, target, messages>>

Init ==
  /\ sim = "wait" /\ locked = FALSE
  /\ go = FALSE /\ quit = FALSE /\ target = 0
  /\ now = 0 /\ messages = FALSE
  /\ idles = 0
  /\ view = "main" /\ frames = <<>>
  /\ play = FALSE
  /\ timerId \in TimerIds /\ timers = {timerId}
  /\ period = SamplePeriod
  /\ shown = 0 /\ step = SamplePeriod

-----------------------------------------------------------------------------
(* SimulationThread.run *)

Wake ==
  /\ sim = "wait" /\ go
  /\ sim' = "clear"
  /\ UNCHANGED <<locked, now, idles, viewVars, go, quit, target, messages>>

Clear ==
  /\ sim = "clear"
  /\ go' = FALSE
  /\ sim' = "check"
  /\ UNCHANGED <<locked, now, idles, viewVars, quit, target, messages>>

CheckQuit ==
  /\ sim = "check"
  /\ sim' = IF quit THEN "end" ELSE "lock"
  /\ UNCHANGED <<locked, now, idles, viewVars, go, quit, target, messages>>

Acquire ==
  /\ sim = "lock" /\ ~locked
  /\ locked' = TRUE
  /\ sim' = "run"
  /\ UNCHANGED <<now, idles, viewVars, go, quit, target, messages>>

\* Where SimulatorRunUntil(target_time) ends: at once when that time is over,
\* else there, or before, at a Stop of the scenario; after one of these, a Stop
\* of PyViz's own that is left in the queue may end a run where it begins.
RunEnds ==
  IF now >= target THEN {now}
  ELSE {target} \cup {t \in Stops : now <= t /\ t < target}
                \cup {t \in {now} : \E s \in Stops : s <= t}

\* The run, the pause messages and the idle callback.
RunUntil ==
  /\ sim = "run"
  /\ now' \in RunEnds
  /\ \/ UNCHANGED messages
     \/ Pauses /\ now < target /\ messages' = TRUE
  /\ idles' = idles + 1
  /\ sim' = "release"
  /\ UNCHANGED <<locked, viewVars, go, quit, target>>

\* Mutant: the event is cleared after the period, when the lock is free.
ReleaseThenClear ==
  /\ sim = "release"
  /\ locked' = FALSE
  /\ \/ locked /\ UNCHANGED <<sim, go>>
     \/ ~locked /\ go' = FALSE /\ sim' = IF quit THEN "end" ELSE "wait"
  /\ UNCHANGED <<now, idles, viewVars, quit, target, messages>>

\* Mutant: a thread that ends keeps the lock.
ReleaseIfGoing ==
  /\ sim = "release"
  /\ locked' = quit
  /\ sim' = IF quit THEN "end" ELSE "wait"
  /\ UNCHANGED <<now, idles, viewVars, go, quit, target, messages>>

\* The lock is released, and the loop condition is tested.
Release ==
  /\ sim = "release"
  /\ locked' = FALSE
  /\ sim' = IF quit THEN "end" ELSE "wait"
  /\ UNCHANGED <<now, idles, viewVars, go, quit, target, messages>>

SimStep == Wake \/ Clear \/ CheckQuit \/ Acquire \/ RunUntil \/ Release

-----------------------------------------------------------------------------
(* Callbacks of the view thread. *)

Top == frames[Len(frames)]
Pop == SubSeq(frames, 1, Len(frames) - 1)
WithTop(f) == Append(Pop, f)
Inside(at) == frames # <<>> /\ Top.at = at

\* The main loop is looking for events: the outer one, or the one inside the
\* innermost update_view_timeout, which has found the lock taken.
InLoop ==
  \/ view = "main" /\ frames = <<>>
  \/ view \in {"main", "over"} /\ Inside("spin")

\* update_model has a higher priority than every other callback here.
Dispatches == InLoop /\ idles = 0

UpdateModel ==
  /\ InLoop /\ idles > 0 /\ ~locked
  /\ idles' = idles - 1
  /\ UNCHANGED <<sim, locked, now, view, frames, play, timers, timerId,
                 period, shown, step, go, quit, target, messages>>

\* The source of a timer fires: update_view_timeout is entered.
Tick(t) ==
  /\ Dispatches
  /\ t \in timers /\ \A i \in DOMAIN frames : frames[i].timer # t
  /\ frames' = Append(frames, [timer |-> t, at |-> "try", pause |-> FALSE])
  /\ UNCHANGED <<simVars, view, play, timers, timerId, period, shown, step,
                 go, quit, target, messages>>

\* lock.acquire(False) fails: the main loop runs until it succeeds.
Spin ==
  /\ Inside("try") /\ locked
  /\ frames' = WithTop([Top EXCEPT !.at = "spin"])
  /\ UNCHANGED <<simVars, view, play, timers, timerId, period, shown, step,
                 go, quit, target, messages>>

\* Mutant: the target moves on from the last one.
NextTargetAdds ==
  IF target + period < MaxTime THEN target + period ELSE MaxTime

NextTarget == IF now + period < MaxTime THEN now + period ELSE MaxTime

\* Its part under the lock.
UpdateView ==
  /\ view \in {"main", "over"} /\ ~locked
  /\ Inside("try") \/ Inside("spin")
  /\ frames' = WithTop([Top EXCEPT !.at = "after", !.pause = messages])
  /\ messages' = FALSE
  /\ shown' = now /\ step' = period
  /\ target' = NextTarget
  /\ UNCHANGED <<simVars, view, play, timers, timerId, period, go, quit>>

\* Its end: pause messages turn the play button off, which removes the timer;
\* when the button is off this source ends, else the simulation gets its go.
EndTick ==
  /\ view \in {"main", "over"} /\ Inside("after")
  /\ frames' = Pop
  /\ play' = (play /\ ~Top.pause)
  /\ \/ /\ play'
        /\ go' = TRUE
        /\ UNCHANGED <<timers, timerId>>
     \/ /\ ~play'
        /\ timers' = timers \ ({Top.timer} \cup IF play THEN {timerId} ELSE {})
        /\ timerId' = NoTimer
        /\ UNCHANGED go
  /\ UNCHANGED <<simVars, view, period, shown, step, quit, target, messages>>

\* Mutant: a timer that is remembered is taken to be alive.
StartUpdateTimerOnce ==
  IF timerId # NoTimer THEN UNCHANGED <<timers, timerId>>
  ELSE \E t \in TimerIds \ timers :
         /\ \A i \in DOMAIN frames : frames[i].timer # t
         /\ timers' = timers \cup {t}
         /\ timerId' = t

\* _start_update_timer: the timer it remembers, if it is still alive, makes
\* room for a new one.
StartUpdateTimer ==
  \E t \in TimerIds \ (timers \cup {timerId}) :
    /\ \A i \in DOMAIN frames : frames[i].timer # t
    /\ timers' = (timers \ {timerId}) \cup {t}
    /\ timerId' = t

PlayToggled ==
  /\ Dispatches
  /\ play' = ~play
  /\ \/ ~play /\ StartUpdateTimer
     \/ play /\ timers' = timers \ {timerId} /\ UNCHANGED timerId
  /\ UNCHANGED <<simVars, view, frames, period, shown, step, go, quit, target,
                 messages>>

\* _speed_changed, with the button on or off; a target that is set stays.
SpeedChanged ==
  /\ Dispatches
  /\ period' \in Periods \ {period}
  /\ StartUpdateTimer
  /\ UNCHANGED <<simVars, view, frames, play, shown, step, go, quit, target,
                 messages>>

\* _quit, in three steps.
Quit ==
  /\ Dispatches /\ view = "main"
  /\ timers' = timers \ {timerId} /\ timerId' = NoTimer
  /\ quit' = TRUE
  /\ view' = "quitting"
  /\ UNCHANGED <<simVars, frames, play, period, shown, step, go, target, messages>>

\* Mutant: the thread is not woken.
QuitGoesSilent ==
  /\ view = "quitting"
  /\ view' = "joining"
  /\ UNCHANGED <<simVars, frames, play, timers, timerId, period, shown, step,
                 go, quit, target, messages>>

QuitGoes ==
  /\ view = "quitting"
  /\ go' = TRUE
  /\ view' = "joining"
  /\ UNCHANGED <<simVars, frames, play, timers, timerId, period, shown, step,
                 quit, target, messages>>

Joined ==
  /\ view = "joining" /\ sim = "end"
  /\ view' = "over"
  /\ UNCHANGED <<simVars, frames, play, timers, timerId, period, shown, step,
                 go, quit, target, messages>>

-----------------------------------------------------------------------------
Next ==
  \/ SimStep
  \/ UpdateModel \/ Spin \/ UpdateView \/ EndTick
  \/ \E t \in TimerIds : Tick(t)
  \/ PlayToggled \/ SpeedChanged \/ Quit \/ QuitGoes \/ Joined

Spec == Init /\ [][Next]_vars

\* Both threads are scheduled, and a callback runs to its end.  Nobody has to
\* press a button.
FairSpec == /\ Spec
            /\ WF_vars(SimStep)
            /\ WF_vars(QuitGoes \/ Joined)

-----------------------------------------------------------------------------
Frames == [timer : TimerIds, at : {"try", "spin", "after"}, pause : BOOLEAN]

TypeOK ==
  /\ sim \in {"wait", "clear", "check", "lock", "run", "release", "end"}
  /\ locked \in BOOLEAN /\ (locked <=> sim \in {"run", "release"})
  /\ {go, quit, play, messages} \subseteq BOOLEAN
  /\ {now, target, shown} \subseteq 0 .. MaxTime
  /\ idles \in Nat
  /\ view \in {"main", "quitting", "joining", "over"}
  /\ frames \in Seq(Frames)
  /\ timers \subseteq TimerIds
  /\ timerId \in TimerIds \cup {NoTimer}
  /\ {period, step} \subseteq Periods

\* The simulation is never further ahead of what the view has shown than the
\* sample period that was in force when it was shown, however "go", the timer
\* and the speed control interleave.  After the speed is turned down that can be
\* many of the new periods.
NeverAhead == now <= shown + step

\* While the play button is on, the timer that _update_timeout_id tells of is
\* alive: whatever the user clicked inside the nested main loops, playing
\* cannot stall, and pausing stops that timer.
PlayingTicks == play /\ view = "main" => timerId \in timers

\* The simulation has run as far as target said; after a Stop of the scenario a
\* run may have ended short of it.
RunDone ==
  sim = "release" /\ locked /\ (now >= target \/ \E s \in Stops : s <= now)

\* A go that is given with a target ahead is never lost: whatever is clicked
\* meanwhile, the simulation runs to a target ahead: the one it was given with,
\* or the one that a later update_view_timeout puts in its place, which is an
\* earlier one when the speed was turned down.
GoHonoured == (go /\ now < target) ~> (RunDone \/ quit)

\* Closing the window ends the simulation thread, so join() returns.
JoinReturns == (view = "joining") ~> (view = "over")
=============================================================================
