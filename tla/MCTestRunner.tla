---------------------------- MODULE MCTestRunner ----------------------------
(* TestRunner with a suite, an example and a Python example. *)
EXTENDS TestRunner

CONSTANTS suite, example, python

OneSuite == {suite}
OneExample == {example}
OnePython == {python}
AllCodes == {0, 1, 2, -11}
TwoWorkers == {1, 2}
=============================================================================
