----------------------- MODULE MCSimulationSemaphore -----------------------
(* Small instances of the semaphore for TLC.                                  *)
EXTENDS SimulationSemaphore

CONSTANTS r1, r2, r3, r4, r5

MCRequests == {r1, r2, r3, r4, r5}

\* r1, r2 and r3 come from /simulate and carry a signal, r4 and r5 from the
\* debug endpoints, which pass none.
MCSignalled == {r1, r2, r3}
=============================================================================
