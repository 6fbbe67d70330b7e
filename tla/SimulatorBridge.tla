-------------------------- MODULE SimulatorBridge --------------------------
(***************************************************************************)
(* scripts/simulator-bridge.mjs: the HTTP handlers that put the semaphore  *)
(* (SimulationSemaphore) in front of the keep-alive runs                   *)
(* (KeepAliveSessions), and the life of the bridge process: graceful       *)
(* shutdown, exit, crash, restart with its clean-up of stale children.     *)
(*                                                                         *)
(* A request r is one POST that starts a keep-alive simulation:            *)
(*   Simulates  /simulate, which gives acquire() a signal made from the    *)
(*              request                                                    *)
(*   Prepares   /debug/prepare, answered before its simulation starts      *)
(*   the others /debug/start                                               *)
(*                                                                         *)
(*   stage[r]   new; receiving (its body); waiting (in acquire); running   *)
(*              (in runSimulationWithKeepAlive); done                      *)
(*   reply[r]   what its client was sent, or the outcome of its job        *)
(*   gone[r]    the client closed its connection before the reply          *)
(*   bridge     up, stopping (gracefulShutdown was called), down           *)
(***************************************************************************)
EXTENDS KeepAliveSessions

CONSTANTS Simulates, Prepares, MaxConcurrent, MaxQueueSize,
          MaxStops   \* bound: how often the bridge is told to stop or crashes

\* The bounds of the semaphore are those of bridge-config.mjs:44-45.
ASSUME BridgeAssumption ==
    /\ Simulates \subseteq Runs /\ Prepares \subseteq Runs
    /\ Simulates \cap Prepares = {}
    /\ MaxConcurrent \in Nat \ {0}
    /\ MaxQueueSize \in Nat
    /\ MaxStops \in Nat

VARIABLES activeCount, queue, promise, timer, listening, released
VARIABLES stage, reply, gone, bridge, stops

semVars == <<activeCount, queue, promise, timer, listening, released>>
ownVars == <<stage, reply, gone, bridge, stops>>
bridgeVars == <<kaVars, semVars, ownVars>>

Sem == INSTANCE SimulationSemaphore
         WITH Requests <- Runs, Signalled <- Simulates

BridgeTypeOK ==
    /\ KATypeOK
    /\ Sem!TypeOK
    /\ stage \in [Runs -> {"new", "receiving", "waiting", "running", "done"}]
    /\ reply \in [Runs -> {"none", "ok", "busy", "error"}]
    /\ gone \in [Runs -> BOOLEAN]
    /\ bridge \in {"up", "stopping", "down"}
    /\ stops \in 0 .. MaxStops

BridgeInit ==
    /\ KAInit
    /\ Sem!Init
    /\ stage = [r \in Runs |-> "new"]
    /\ reply = [r \in Runs |-> "none"]
    /\ gone = [r \in Runs |-> FALSE]
    /\ bridge = "up"
    /\ stops = 0

Alive == bridge # "down"

\* The stages in which the response of r is still open.
Open(r) == stage[r] = "receiving"
           \/ (stage[r] \in {"waiting", "running"} /\ r \notin Prepares)

Finish(r, answer) ==
    /\ stage' = [stage EXCEPT ![r] = "done"]
    /\ reply' = [reply EXCEPT ![r] = answer]
    /\ UNCHANGED <<gone, bridge, stops>>

-----------------------------------------------------------------------------
(***************************************************************************)
(* A request                                                               *)
(***************************************************************************)

\* A connection is accepted; server.close() of the shutdown ends that.
Arrive(r) ==
    /\ bridge = "up"
    /\ stage[r] = "new"
    /\ stage' = [stage EXCEPT ![r] = "receiving"]
    /\ UNCHANGED <<kaVars, semVars, reply, gone, bridge, stops>>

\* readBody() has read the whole request.  abortSignalFromReq() is called only
\* now, so that req.complete is set when its listener runs and the signal it
\* returns has not fired.
Enter(r) ==
    /\ Alive
    /\ stage[r] = "receiving"
    /\ ~gone[r]
    /\ \/ Sem!AcquireSlot(r)
       \/ Sem!AcquireQueueFull(r)
       \/ Sem!AcquireEnqueue(r)
    /\ stage' = [stage EXCEPT ![r] = "waiting"]
    /\ UNCHANGED <<kaVars, reply, gone, bridge, stops>>

\* The client closes the connection.  Before the body is complete readBody()
\* rejects; after that "close" finds req.complete set and aborts nothing.
Disconnect(r) ==
    /\ Alive
    /\ Open(r)
    /\ ~gone[r]
    /\ gone' = [gone EXCEPT ![r] = TRUE]
    /\ IF stage[r] = "receiving"
         THEN /\ stage' = [stage EXCEPT ![r] = "done"]
              /\ reply' = [reply EXCEPT ![r] = "error"]
         ELSE UNCHANGED <<stage, reply>>
    /\ UNCHANGED <<kaVars, semVars, bridge, stops>>

QueueTimeout(r) ==
    /\ Alive
    /\ Sem!QueueTimeout(r)
    /\ UNCHANGED <<kaVars, ownVars>>

\* acquire() rejected: 503 with the code of the error.
Refused(r) ==
    /\ Alive
    /\ stage[r] = "waiting"
    /\ promise[r] \in Sem!Refusals
    /\ Finish(r, "busy")
    /\ UNCHANGED <<kaVars, semVars>>

\* Mutant: the slot is given back when the child starts, not when it ends.
BeginReleases(r) ==
    /\ Alive
    /\ stage[r] = "waiting"
    /\ promise[r] = "granted"
    /\ Start(r)
    /\ Sem!Release(r)
    /\ stage' = [stage EXCEPT ![r] = "running"]
    /\ UNCHANGED <<reply, gone, bridge, stops>>

\* The caller resumes with its slot and memory allows the run to start.
Begin(r) ==
    /\ Alive
    /\ stage[r] = "waiting"
    /\ promise[r] = "granted"
    /\ Start(r)
    /\ stage' = [stage EXCEPT ![r] = "running"]
    /\ UNCHANGED <<semVars, reply, gone, bridge, stops>>

\* It does not: release(), 503, and release() again in the finally block.
BeginRefused(r) ==
    /\ Alive
    /\ stage[r] = "waiting"
    /\ promise[r] = "granted"
    /\ StartRefused(r)
    /\ Sem!Release(r)
    /\ Finish(r, "busy")

\* The run has settled: the answer is sent and the finally block releases.
\* /simulate sends whatever object it got; the debug endpoints ask for a
\* session.
End(r) ==
    /\ Alive
    /\ stage[r] = "running"
    /\ call[r] # "pending"
    /\ Sem!Release(r)
    /\ Finish(r, IF \/ call[r] = "session"
                    \/ call[r] \in {"bare", "empty"} /\ r \in Simulates
                 THEN "ok" ELSE "error")
    /\ UNCHANGED kaVars

\* A step of the run, of its child, or /debug/end for its session.  A child
\* lives on when the bridge is down; everything else needs the bridge.  RPC
\* calls to a session touch no state of this module and are left to
\* KeepAliveSessions.
Run(r) ==
    /\ \/ Alive /\ (RunStep(r) \/ DebugEnd(r))
       \/ ~Alive /\ ChildExit(r)
    /\ UNCHANGED <<semVars, ownVars>>

IdleSweep == Alive /\ Sweep /\ UNCHANGED <<semVars, ownVars>>

-----------------------------------------------------------------------------
(***************************************************************************)
(* The bridge process                                                      *)
(***************************************************************************)

\* gracefulShutdown, on the first signal or on a later one.
Shutdown ==
    /\ Alive
    /\ stops < MaxStops
    /\ stops' = stops + 1
    /\ Sem!DrainAndRejectAll
    /\ EndOldest(Len(lru))
    /\ bridge' = "stopping"
    /\ UNCHANGED <<call, out, busy, stage, reply, gone>>

\* server.close() calls back once no connection is open, and the process
\* exits, whatever the preparation jobs are doing.
Exit ==
    /\ bridge = "stopping"
    /\ \A r \in Runs : ~Open(r)
    /\ bridge' = "down"
    /\ UNCHANGED <<kaVars, semVars, stage, reply, gone, stops>>

Crash ==
    /\ Alive
    /\ stops < MaxStops
    /\ stops' = stops + 1
    /\ bridge' = "down"
    /\ UNCHANGED <<kaVars, semVars, stage, reply, gone>>

\* Mutant: the new bridge does not look for stale children.
RestartKeepsStale ==
    /\ bridge = "down"
    /\ bridge' = "up"
    /\ call' = [r \in Runs |-> IF stage[r] = "new" THEN "idle" ELSE "failed"]
    /\ stage' = [r \in Runs |-> IF stage[r] = "new" THEN "new" ELSE "done"]
    /\ lru' = <<>>
    /\ busy' = [r \in Runs |-> FALSE]
    /\ activeCount' = 0
    /\ queue' = <<>>
    /\ promise' = [r \in Runs |-> "none"]
    /\ timer' = [r \in Runs |-> FALSE]
    /\ listening' = [r \in Runs |-> FALSE]
    /\ released' = [r \in Runs |-> FALSE]
    /\ UNCHANGED <<out, tmp, proc, reply, gone, stops>>

\* A new bridge starts with empty maps; cleanupStaleKeepAliveProcesses signals
\* every simulator child that is still there before a request can come in.
\* The requests of its predecessor are lost, and so are their children's
\* "close" events.
Restart ==
    /\ bridge = "down"
    /\ bridge' = "up"
    /\ proc' = Terminated(proc, Runs)
    /\ call' = [r \in Runs |-> IF stage[r] = "new" THEN "idle" ELSE "failed"]
    /\ stage' = [r \in Runs |-> IF stage[r] = "new" THEN "new" ELSE "done"]
    /\ lru' = <<>>
    /\ busy' = [r \in Runs |-> FALSE]
    /\ activeCount' = 0
    /\ queue' = <<>>
    /\ promise' = [r \in Runs |-> "none"]
    /\ timer' = [r \in Runs |-> FALSE]
    /\ listening' = [r \in Runs |-> FALSE]
    /\ released' = [r \in Runs |-> FALSE]
    /\ UNCHANGED <<out, tmp, reply, gone, stops>>

BridgeNext ==
    \/ \E r \in Runs :
          \/ Arrive(r) \/ Enter(r) \/ Disconnect(r) \/ QueueTimeout(r)
          \/ Refused(r) \/ Begin(r) \/ BeginRefused(r) \/ Run(r) \/ End(r)
    \/ IdleSweep
    \/ Shutdown \/ Exit \/ Crash \/ Restart

BridgeSpec == BridgeInit /\ [][BridgeNext]_bridgeVars

\* The event loop runs the continuations of settled promises, the timers of
\* the runs fire, and the events of the children are delivered.
BridgeFairness ==
    \A r \in Runs :
        /\ WF_bridgeVars(Refused(r))
        /\ WF_bridgeVars(Begin(r) \/ BeginRefused(r))
        /\ WF_bridgeVars(End(r))
        /\ WF_bridgeVars(Alive /\ Timeout(r) /\ UNCHANGED <<semVars, ownVars>>)
        /\ WF_bridgeVars(Alive /\ FinalParse(r) /\ UNCHANGED <<semVars, ownVars>>)

BridgeFairSpec == BridgeSpec /\ BridgeFairness

-----------------------------------------------------------------------------
(***************************************************************************)
(* Properties                                                              *)
(***************************************************************************)

\* A slot of the semaphore is held for exactly as long as its request is on
\* its way to a child or waits for one: never by a request that was answered,
\* always by one whose run is pending (simulator-bridge.mjs:290-461,
\* keep-alive-manager.mjs:546-555).
SlotsCoverRuns ==
    Alive =>
        /\ \A r \in Runs : call[r] = "pending" => r \in Sem!Holders
        /\ \A r \in Sem!Holders : stage[r] \in {"waiting", "running"}
        /\ activeCount = Cardinality(Sem!Holders)

\* The state of the bridge and its parts is well formed, and its slots are sound.
BridgeInv == BridgeTypeOK /\ SlotsCoverRuns

\* While the bridge is up every child that was not told to stop is known to
\* it, children of an earlier bridge that crashed included
\* (simulator-bridge.mjs:705-706, keep-alive-manager.mjs:151-179).
NoStrays ==
    bridge = "up" => ChildrenOwned

\* A request that asks for a slot is answered, by the end of its run, a queue
\* timeout or the shutdown, whatever its child does (the timeout of the run and
\* the finally block, simulator-bridge.mjs:459-461).
NobodyWaitsForever ==
    \A r \in Runs : (stage[r] = "waiting") ~> (stage[r] = "done" \/ bridge = "down")
=============================================================================
