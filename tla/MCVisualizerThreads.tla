------------------------ MODULE MCVisualizerThreads ------------------------
(* VisualizerThreads with three timer sources, enough for two nested calls  *)
(* and a new timer.                                                         *)
EXTENDS VisualizerThreads

ThreeTimers == {1, 2, 3}
=============================================================================
