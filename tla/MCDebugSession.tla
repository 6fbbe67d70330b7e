--------------------------- MODULE MCDebugSession ---------------------------
(* Small instances of the debug session for TLC.                              *)
EXTENDS DebugSession, TLC

CONSTANTS A, B, T, o1, o2, s0, s1

MCOps == {o1, o2}

\* A was made by /simulate, B is for a start.
MCLive == {A, B}
MCSimulated == {A}

MCTraces == {T}
MCSnaps == {s0, s1}

\* The operations of a page differ only by what they do.
MCSymmetry == Permutations(MCOps)
=============================================================================
