------------------------- MODULE MCSimulatorBridge -------------------------
(* Small instances of the bridge for TLC.                                     *)
EXTENDS SimulatorBridge

CONSTANTS a, c

\* a is a /simulate request, c a preparation job.
MCRuns == {a, c}
MCSimulates == {a}
MCPrepares == {c}
=============================================================================
