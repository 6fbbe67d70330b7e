---------------------------- MODULE DebugSession ----------------------------
(***************************************************************************)
(* The debug session of a page: opening, replacing and ending it, and the  *)
(* navigation between its snapshots (src/contexts/debug/useDebugSession.ts,*)
(* useDebugNavigation.ts, useDebugWindow.ts).                              *)
(*                                                                         *)
(* Every operation runs up to an await and resumes with what it captured   *)
(* when it was called: the session id, sessionInvalid and its tokens of    *)
(* the two OperationGenerations.  A token is modelled by whether it is     *)
(* still current, so begin() and invalidate() take it from everyone else.  *)
(*                                                                         *)
(*   op[o]      a pending operation: its kind, where it waits (pc), the    *)
(*              session and snapshot it is for, mine and newest (its       *)
(*              session and navigation tokens are current) and inv (the    *)
(*              sessionInvalid its goToSnapshotInternal has closed over)   *)
(*   session    the session of the page: one of the bridge (Live), one     *)
(*              made from a decoded trace (Traces), or None                *)
(*   shown      currentSnapshotId                                          *)
(*   cache      snapshotCache: whose snapshot is kept under an id; Rows    *)
(*              stands for the decoded trace rows                          *)
(*   invalid, pending     sessionInvalid and pendingSnapshotRef            *)
(*   alive      the sessions the bridge has                                *)
(*   born, owed, wanted, asked     history: the sessions given to a start, *)
(*              those the bridge made that are neither installed nor       *)
(*              ended, the open and the navigation asked for last          *)
(*                                                                         *)
(* Left out: isLoading and the error text, source files, breakpoints, and  *)
(* the contents of snapshots.                                              *)
(***************************************************************************)
EXTENDS Integers, FiniteSets

CONSTANTS Ops, Live, Traces, Snaps, First, None, Rows,
          Simulated   \* sessions /simulate has made, which can be connected to

ASSUME SessionAssumption == Simulated \subseteq Live /\ First \in Snaps

VARIABLES op, session, shown, cache, invalid, pending, alive
VARIABLES born, owed, wanted, asked

viewVars == <<session, shown, cache, invalid, pending>>
history  == <<born, owed, wanted, asked>>
dsVars   == <<op, viewVars, alive, history>>

Sessions == Live \cup Traces
Opens == {"connect", "start"}

Idle == [kind |-> "none", pc |-> "idle", sid |-> None, snap |-> First,
         mine |-> FALSE, newest |-> FALSE, inv |-> FALSE]

\* A call; only an open looks at its session token before its first navigation.
Call(kind, pc, sid, snap) ==
    [kind |-> kind, pc |-> pc, sid |-> sid, snap |-> snap,
     mine |-> kind \in Opens, newest |-> FALSE, inv |-> invalid]

DSTypeOK ==
    /\ op \in [Ops -> [kind : {"none", "nav", "loop", "end"} \cup Opens,
                       pc : {"idle", "trace", "starting", "started", "batch", "query",
                             "fetch", "diff", "next", "ending"},
                       sid : Live \cup {None}, snap : Snaps,
                       mine : BOOLEAN, newest : BOOLEAN, inv : BOOLEAN]]
    /\ session \in Sessions \cup {None}
    /\ shown \in Snaps \cup {None}
    /\ cache \in [Snaps -> Live \cup {Rows, None}]
    /\ invalid \in BOOLEAN
    /\ pending \in Snaps \cup {None}
    /\ {alive, born, owed} \subseteq SUBSET Live
    /\ wanted \in Sessions \cup {None}
    /\ asked \in Snaps \cup {None}
    /\ Cardinality({o \in Ops : op[o].kind = "loop"}) <= 1

DSInit ==
    /\ op = [o \in Ops |-> Idle]
    /\ session = None
    /\ shown = None
    /\ cache = [s \in Snaps |-> None]
    /\ invalid = FALSE
    /\ pending = None
    /\ alive = Simulated
    /\ born = Simulated
    /\ owed = {}
    /\ wanted = None /\ asked = None

-----------------------------------------------------------------------------
(***************************************************************************)
(* Generations                                                             *)
(***************************************************************************)

\* sessionGeneration.begin() or invalidate(), which always comes with
\* navigationGeneration.invalidate().
NoSession(ops) == [o \in Ops |-> [ops[o] EXCEPT !.mine = FALSE, !.newest = FALSE]]

\* navigationGeneration.begin() or invalidate() alone.
NoNavigation(ops) == [o \in Ops |-> [ops[o] EXCEPT !.newest = FALSE]]

Current(o) == op[o].mine /\ op[o].newest

\* goToSnapshotInternal returns to its caller; the loop of openDebugAtSnapshot
\* looks for the next target.
Return(r) ==
    IF r.kind = "loop"
      THEN [r EXCEPT !.pc = "next", !.snap = First, !.mine = FALSE, !.newest = FALSE]
      ELSE Idle

\* currentSnapshotId is set: an open, which asks for no storage diff, is over.
Displayed(r) == IF r.kind \in Opens THEN Idle ELSE [r EXCEPT !.pc = "diff"]

-----------------------------------------------------------------------------
(***************************************************************************)
(* goToSnapshotInternal                                                    *)
(***************************************************************************)

\* Up to its first await, called by operation o with record r.  It takes the
\* navigation token even if it then finds the session invalid.
GoToSnapshot(o, r) ==
    LET ops == NoNavigation(op)
        nav == [r EXCEPT !.mine = TRUE, !.newest = TRUE]
    IN  \/ /\ r.inv
           /\ op' = [ops EXCEPT ![o] = Return(r)]
           /\ asked' = None
           /\ UNCHANGED shown
        \/ /\ ~r.inv /\ cache[r.snap] # None
           /\ op' = [ops EXCEPT ![o] = Displayed(nav)]
           /\ asked' = r.snap /\ shown' = r.snap
        \/ /\ ~r.inv /\ cache[r.snap] = None
           /\ op' = [ops EXCEPT ![o] = [nav EXCEPT !.pc = "fetch"]]
           /\ asked' = r.snap
           /\ UNCHANGED shown

\* Mutant: a superseded answer is shown too.
FetchedAlways(o) ==
    /\ op[o].pc = "fetch"
    /\ op[o].sid \in alive
    /\ shown' = op[o].snap
    /\ cache' = [cache EXCEPT ![op[o].snap] = op[o].sid]
    /\ op' = [op EXCEPT ![o] = Displayed(@)]
    /\ UNCHANGED <<session, invalid, pending, alive, history>>

\* getSnapshot resolves.
Fetched(o) ==
    /\ op[o].pc = "fetch"
    /\ op[o].sid \in alive
    /\ IF Current(o)
         THEN /\ shown' = op[o].snap
              /\ cache' = [cache EXCEPT ![op[o].snap] = op[o].sid]
              /\ op' = [op EXCEPT ![o] = Displayed(@)]
         ELSE /\ op' = [op EXCEPT ![o] = Return(@)]
              /\ UNCHANGED <<shown, cache>>
    /\ UNCHANGED <<session, invalid, pending, alive, history>>

\* getStorageDiff resolves.
Diffed(o) ==
    /\ op[o].pc = "diff"
    /\ op[o].sid \in alive
    /\ op' = [op EXCEPT ![o] = Return(@)]
    /\ UNCHANGED <<viewVars, alive, history>>

\* One of the two rejects; the answer may be that the session is gone.
NavigationFails(o) ==
    /\ op[o].pc \in {"fetch", "diff"}
    /\ op' = [op EXCEPT ![o] = Return(@)]
    /\ invalid' \in {invalid, invalid \/ (Current(o) /\ op[o].sid \notin alive)}
    /\ asked' = IF Current(o) THEN None ELSE asked
    /\ UNCHANGED <<session, shown, cache, pending, alive, born, owed, wanted>>

-----------------------------------------------------------------------------
(***************************************************************************)
(* Navigation by the user                                                  *)
(***************************************************************************)

\* goToSnapshot and openDebugWindow, for a snapshot the trace rows lack.
Navigate(o, s) ==
    /\ op[o] = Idle
    /\ session \in Live
    /\ GoToSnapshot(o, Call("nav", "fetch", session, s))
    /\ UNCHANGED <<session, cache, invalid, pending, alive, born, owed, wanted>>

\* stepNextCall, stepPrevCall, continueToBreakpoint and openDebugAtRevert ask
\* the bridge for the target first (the last one if sessionInvalid, too).
Query(o) ==
    /\ op[o] = Idle
    /\ session \in Live
    /\ op' = [op EXCEPT ![o] = Call("nav", "query", session, First)]
    /\ UNCHANGED <<viewVars, alive, history>>

\* The target is known, or the call fails or finds none.  The generations are
\* taken only now.
QueryAnswered(o, s) ==
    /\ op[o].pc = "query"
    /\ \/ /\ op[o].sid \in alive
          /\ GoToSnapshot(o, [op[o] EXCEPT !.snap = s])
       \/ /\ op' = [op EXCEPT ![o] = Idle]
          /\ UNCHANGED <<shown, asked>>
    /\ UNCHANGED <<session, cache, invalid, pending, alive, born, owed, wanted>>

\* openDebugAtSnapshot: a click while a loop runs only leaves its target.
OpenAtSnapshot(o, s) ==
    /\ session \in Live
    /\ IF \E x \in Ops : op[x].kind = "loop"
         THEN /\ pending' = s
              /\ UNCHANGED <<op, asked, shown>>
         ELSE /\ op[o] = Idle
              /\ pending' = None
              /\ GoToSnapshot(o, Call("loop", "fetch", session, s))
    /\ UNCHANGED <<session, cache, invalid, alive, born, owed, wanted>>

\* The loop goes on with the session it was called in.
LoopNext(o) ==
    /\ op[o].pc = "next"
    /\ pending' = None
    /\ IF pending = None
         THEN /\ op' = [op EXCEPT ![o] = Idle]
              /\ UNCHANGED <<asked, shown>>
         ELSE GoToSnapshot(o, [op[o] EXCEPT !.snap = pending])
    /\ UNCHANGED <<session, cache, invalid, alive, born, owed, wanted>>

\* goToSnapshotFromTrace, in a trace session or in a live one with trace rows.
NavigateTrace(s) ==
    /\ session # None
    /\ op' = NoNavigation(op)
    /\ shown' = s /\ asked' = s
    /\ cache' = [cache EXCEPT ![s] = Rows]
    /\ UNCHANGED <<session, invalid, pending, alive, born, owed, wanted>>

-----------------------------------------------------------------------------
(***************************************************************************)
(* Opening                                                                 *)
(***************************************************************************)

\* The page's session is replaced; the snapshot on display is not reset.
Install(s) ==
    /\ session' = s
    /\ cache' = [x \in Snaps |-> None]
    /\ owed' = owed \ {s}

\* connectToSession; without full hydration there is no await before the
\* session is installed.
Connect(o, s, hydrate) ==
    /\ op[o] = Idle
    /\ s \in born
    /\ op' = [NoSession(op) EXCEPT ![o] =
                 Call("connect", IF hydrate = "full" THEN "trace" ELSE "batch", s, First)]
    /\ invalid' = FALSE
    /\ wanted' = s /\ asked' = None
    /\ IF hydrate = "full" THEN UNCHANGED <<session, cache, owed>> ELSE Install(s)
    /\ UNCHANGED <<shown, pending, alive, born>>

\* getTrace and getSourceCode answer, with nothing when the session is gone or
\* the call fails: a connect to a dead session is installed all the same.
TraceLoaded(o) ==
    /\ op[o].pc = "trace"
    /\ IF op[o].mine
         THEN /\ Install(op[o].sid)
              /\ op' = [op EXCEPT ![o].pc = "batch"]
         ELSE /\ op' = [op EXCEPT ![o] = Idle]
              /\ UNCHANGED <<session, cache, owed>>
    /\ UNCHANGED <<shown, invalid, pending, alive, born, wanted, asked>>

\* startSession; the bridge will give it session s.
Start(o, s) ==
    /\ op[o] = Idle
    /\ s \notin born
    /\ born' = born \cup {s}
    /\ op' = [NoSession(op) EXCEPT ![o] = Call("start", "starting", s, First)]
    /\ invalid' = FALSE
    /\ wanted' = s /\ asked' = None
    /\ UNCHANGED <<session, shown, cache, pending, alive, owed>>

BridgeStarts(o) ==
    /\ op[o].pc = "starting"
    /\ op' = [op EXCEPT ![o].pc = "started"]
    /\ alive' = alive \cup {op[o].sid}
    /\ owed' = owed \cup {op[o].sid}
    /\ UNCHANGED <<viewVars, born, wanted, asked>>

\* Mutant: a superseded start takes the page over.
StartReturnsAnyway(o) ==
    /\ op[o].pc = "started"
    /\ Install(op[o].sid)
    /\ op' = [op EXCEPT ![o].pc = "batch"]
    /\ UNCHANGED <<shown, invalid, pending, alive, born, wanted, asked>>

\* Mutant: a superseded start forgets its session.
StartReturnsForgets(o) ==
    /\ op[o].pc = "started"
    /\ IF op[o].mine
         THEN /\ Install(op[o].sid)
              /\ op' = [op EXCEPT ![o].pc = "batch"]
         ELSE /\ op' = [op EXCEPT ![o] = Idle]
              /\ UNCHANGED <<session, cache, owed>>
    /\ UNCHANGED <<shown, invalid, pending, alive, born, wanted, asked>>

\* The service resolves (and the source files are there): a superseded start
\* ends the session it made.
StartReturns(o) ==
    /\ op[o].pc = "started"
    /\ IF op[o].mine
         THEN /\ Install(op[o].sid)
              /\ op' = [op EXCEPT ![o].pc = "batch"]
         ELSE /\ op' = [op EXCEPT ![o] = [@ EXCEPT !.kind = "end", !.pc = "ending"]]
              /\ UNCHANGED <<session, cache, owed>>
    /\ UNCHANGED <<shown, invalid, pending, alive, born, wanted, asked>>

\* getSnapshotBatch resolves; the open ends with a navigation.
BatchLoaded(o) ==
    /\ op[o].pc = "batch"
    /\ op[o].sid \in alive
    /\ IF op[o].mine
         THEN GoToSnapshot(o, op[o])
         ELSE /\ op' = [op EXCEPT ![o] = Idle]
              /\ UNCHANGED <<asked, shown>>
    /\ UNCHANGED <<session, cache, invalid, pending, alive, born, owed, wanted>>

\* An open rejects.  When a start failed or timed out the bridge may still make
\* its session, of which no one is told.
OpenFails(o) ==
    /\ \/ op[o].pc = "batch" /\ UNCHANGED alive
       \/ op[o].pc = "starting" /\ alive' \in {alive, alive \cup {op[o].sid}}
    /\ op' = [op EXCEPT ![o] = Idle]
    /\ wanted' = IF op[o].mine THEN session ELSE wanted
    /\ UNCHANGED <<viewVars, born, owed, asked>>

\* initFromTraceData, all in one turn.
InitFromTrace(t) ==
    /\ op' = NoSession(op)
    /\ session' = t /\ wanted' = t
    /\ invalid' = FALSE
    /\ shown' = First /\ asked' = First
    /\ cache' = [x \in Snaps |-> IF x = First THEN Rows ELSE None]
    /\ UNCHANGED <<pending, alive, born, owed>>

\* invalidatePendingSessionOpen, of cancelDebugPrep.
InvalidatePending ==
    /\ op' = NoSession(op)
    /\ wanted' = session /\ asked' = None
    /\ UNCHANGED <<viewVars, alive, born, owed>>

\* endSession, up to its await of the bridge, with a session or without.  The
\* page asks the bridge to end a trace session too, which it does not have:
\* nothing comes of it.
EndSession(o) ==
    /\ op[o] = Idle
    /\ op' = [NoSession(op) EXCEPT ![o] =
                 IF session \in Live THEN Call("end", "ending", session, First) ELSE Idle]
    /\ session' = None /\ wanted' = None
    /\ shown' = None /\ asked' = None
    /\ cache' = [x \in Snaps |-> None]
    /\ invalid' = FALSE
    /\ UNCHANGED <<pending, alive, born, owed>>

\* /debug/end is answered or is not.
Ended(o) ==
    /\ op[o].pc = "ending"
    /\ op' = [op EXCEPT ![o] = Idle]
    /\ alive' \in {alive, alive \ {op[o].sid}}
    /\ owed' = owed \ {op[o].sid}
    /\ UNCHANGED <<viewVars, born, wanted, asked>>

\* The bridge sweeps or evicts a session, or its simulator dies.
Expire(s) ==
    /\ s \in alive
    /\ alive' = alive \ {s}
    /\ UNCHANGED <<op, viewVars, history>>

DSNext ==
    \/ \E o \in Ops :
          \/ Fetched(o) \/ Diffed(o) \/ NavigationFails(o)
          \/ Query(o) \/ LoopNext(o)
          \/ \E s \in Snaps : Navigate(o, s) \/ QueryAnswered(o, s) \/ OpenAtSnapshot(o, s)
          \/ \E s \in Live :
                \/ Start(o, s)
                \/ \E hydrate \in {"full", "minimal"} : Connect(o, s, hydrate)
          \/ TraceLoaded(o) \/ BridgeStarts(o) \/ StartReturns(o) \/ BatchLoaded(o)
          \/ OpenFails(o) \/ EndSession(o) \/ Ended(o)
    \/ \E s \in Snaps : NavigateTrace(s)
    \/ \E t \in Traces : InitFromTrace(t)
    \/ InvalidatePending
    \/ \E s \in Live : Expire(s)

DSSpec == DSInit /\ [][DSNext]_dsVars

-----------------------------------------------------------------------------
(***************************************************************************)
(* Properties                                                              *)
(***************************************************************************)

\* Whatever the order in which the bridge answers, once no open is pending the
\* page has the session that was asked for last, or the one it had when that
\* open failed or was cancelled (the isCurrentSession guards,
\* useDebugSession.ts:307-493).
LatestOpenWins ==
    (\A o \in Ops : op[o].kind \in Opens => ~op[o].mine) => session = wanted

\* The state is well formed, one loop runs at most, and the latest open wins.
DSInv == DSTypeOK /\ LatestOpenWins

\* "A superseded start still created a bridge session; end it instead of
\* leaking it" (useDebugSession.ts:414): a session a start was answered with is
\* gone, or the page had it, or an operation still has it in hand.
SupersededStartsEnd ==
    \A s \in alive \cap owed :
        \E o \in Ops : op[o].kind \in {"start", "end"} /\ op[o].sid = s

\* However many navigations overlap, once none is current the snapshot asked
\* for last is the one on display (isCurrentOperation, useDebugSession.ts:183-250).
NewestNavigationWins ==
    asked # None /\ (\A o \in Ops : op[o].pc = "fetch" => ~Current(o)) => shown = asked
=============================================================================
