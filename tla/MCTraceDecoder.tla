---------------------------- MODULE MCTraceDecoder ----------------------------
EXTENDS TraceDecoder, TLC
CONSTANTS r1, r2, r3
MCRuns == {r1, r2, r3}
MCDecodes == {0, 1}
MCRaw == (r1 :> "full") @@ (r2 :> "none") @@ (r3 :> "opcodes")
MCRendered == {r3}
===============================================================================
