---------------------------- MODULE MCDebugPrep ----------------------------
(* Small instances of the debug preparation for TLC.                          *)
EXTENDS DebugPrep

CONSTANTS p1, p2, p3

MCThree == {p1, p2, p3}
MCTwo == {p1, p2}
=============================================================================
