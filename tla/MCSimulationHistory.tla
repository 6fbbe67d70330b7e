-------------------------- MODULE MCSimulationHistory --------------------------
EXTENDS SimulationHistory, TLC
CONSTANTS r1, r2, r3, r4, i1, i2, i3, p1, p2
MCRuns == {r1, r2, r3, r4}
MCIds == {i1, i2, i3}
\* r4 replays the transaction of r1
MCIdOf == (r1 :> i1) @@ (r2 :> i2) @@ (r3 :> i3) @@ (r4 :> i1)
MCPersists == {p1, p2}
\* one decode with internal info and a longer one of stripped data, of one simulation
MCIdDecoded == (p1 :> i1) @@ (p2 :> i1)
MCDecoded ==
  (p1 :> [rows |-> 1, jumps |-> 1, internals |-> 0, parents |-> 0, mapped |-> 0, info |-> 1])
  @@ (p2 :> [rows |-> 2, jumps |-> 0, internals |-> 0, parents |-> 0, mapped |-> 1, info |-> 0])
\* three saves, one of them perhaps a replay, or two saves and two decoded traces
MCScopes == {{r1, r2, r3}, {r1, r2, r4}, {r1, r2, p1, p2}}
===============================================================================
