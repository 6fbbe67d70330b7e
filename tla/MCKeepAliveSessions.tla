------------------------ MODULE MCKeepAliveSessions ------------------------
(* Small instances of the keep-alive sessions for TLC.                        *)
EXTENDS KeepAliveSessions

CONSTANTS a, b, c

MCRuns == {a, b, c}
MCTwoRuns == {a, b}
=============================================================================
