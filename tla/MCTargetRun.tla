---------------------------- MODULE MCTargetRun ----------------------------
(* A manage.py with two children, and a check that may report. *)
EXTENDS TargetRun

CONSTANTS leader, c1, c2, m1
=============================================================================
