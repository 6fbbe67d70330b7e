------------------------- MODULE KeepAliveSessions -------------------------
(***************************************************************************)
(* scripts/keep-alive-manager.mjs: runs of the edb-simulator child with    *)
(* --keep-alive, the map of debug sessions whose child stays up to serve   *)
(* RPC calls, and everything that ends a session: /debug/end, the idle     *)
(* sweep, the capacity limit, memory pressure, the exit of the child.      *)
(*                                                                         *)
(* A run r is one call of runSimulationWithKeepAlive and its child:        *)
(*   call[r]   the promise it returned: pending, resolved with a session,  *)
(*             with a result that has none ("bare"), with the object that  *)
(*             parsing an empty output gives ("empty"), or rejected        *)
(*   proc[r]   its child: running, dying (SIGTERM sent), exited, or closed *)
(*             (the "close" event has been handled)                        *)
(*   out[r]    what the bridge has received on stdout: nothing, text that  *)
(*             is not yet JSON, a complete result with or without a debug  *)
(*             session, or one longer than a string may be ("huge")        *)
(*   tmp[r]    whether its temporary file exists                           *)
(*   busy[r]   whether an RPC call to its session is in flight             *)
(*   lru       the sessions of the map, least recently accessed first      *)
(***************************************************************************)
EXTENDS Naturals, FiniteSets, SequencesExt

CONSTANTS Runs,          \* calls of runSimulationWithKeepAlive
          MaxSessions    \* KEEP_ALIVE_MAX_SESSIONS

\* Math.max(1, ...) in bridge-config.mjs:32.
ASSUME SessionAssumption == IsFiniteSet(Runs) /\ MaxSessions \in Nat \ {0}

VARIABLES call, proc, out, tmp, busy, lru

kaVars == <<call, proc, out, tmp, busy, lru>>

Complete == {"session", "bare", "huge"}

KATypeOK ==
    /\ call \in [Runs -> {"idle", "pending", "session", "bare", "empty", "failed"}]
    /\ proc \in [Runs -> {"none", "running", "dying", "exited", "closed"}]
    /\ out \in [Runs -> {"none", "partial"} \cup Complete]
    /\ tmp \in [Runs -> BOOLEAN]
    /\ busy \in [Runs -> BOOLEAN]
    /\ lru \in Seq(Runs)
    /\ Len(lru) <= MaxSessions

KAInit ==
    /\ call = [r \in Runs |-> "idle"]
    /\ proc = [r \in Runs |-> "none"]
    /\ out = [r \in Runs |-> "none"]
    /\ tmp = [r \in Runs |-> FALSE]
    /\ busy = [r \in Runs |-> FALSE]
    /\ lru = <<>>

Sessions == ToSet(lru)

Oldest(k) == {lru[i] : i \in 1 .. k}

\* keepAliveSessions.delete: q without r, if it is there.
Without(q, r) ==
    IF \E i \in DOMAIN q : q[i] = r
      THEN RemoveAt(q, CHOOSE i \in DOMAIN q : q[i] = r)
      ELSE q

\* terminatePidWithFallback: SIGTERM now, SIGKILL 1.2 s later if it is still
\* there; a child that has gone is not affected.
Terminated(p, S) == [r \in Runs |-> IF r \in S /\ p[r] = "running" THEN "dying" ELSE p[r]]

\* The first k sessions of lru end: endKeepAliveSession for each of them.
EndOldest(k) ==
    /\ lru' = SubSeq(lru, k + 1, Len(lru))
    /\ proc' = Terminated(proc, Oldest(k))
    /\ tmp' = [r \in Runs |-> tmp[r] /\ r \notin Oldest(k)]

-----------------------------------------------------------------------------
(***************************************************************************)
(* Ending sessions                                                         *)
(***************************************************************************)

\* POST /debug/end: endKeepAliveSession.
DebugEnd(r) ==
    /\ r \in Sessions
    /\ lru' = Without(lru, r)
    /\ proc' = Terminated(proc, {r})
    /\ tmp' = [tmp EXCEPT ![r] = FALSE]
    /\ UNCHANGED <<call, out, busy>>

\* sweepIdleKeepAliveSessions: the sessions idle for longer than the TTL are
\* the k least recently accessed ones.
Sweep ==
    \E k \in 1 .. Len(lru) : EndOldest(k) /\ UNCHANGED <<call, out, busy>>

-----------------------------------------------------------------------------
(***************************************************************************)
(* A run                                                                   *)
(***************************************************************************)

\* The slot is granted.  checkMemoryPressure evicts the least recently accessed
\* sessions one by one until enough memory is free (k of them, perhaps none),
\* then the child is spawned and its output goes to a temporary file.
Start(r) ==
    /\ call[r] = "idle"
    /\ \E k \in 0 .. Len(lru) :
          /\ lru' = SubSeq(lru, k + 1, Len(lru))
          /\ proc' = [Terminated(proc, Oldest(k)) EXCEPT ![r] = "running"]
          /\ tmp' = [q \in Runs |-> q = r \/ (tmp[q] /\ q \notin Oldest(k))]
    /\ call' = [call EXCEPT ![r] = "pending"]
    /\ UNCHANGED <<out, busy>>

\* Memory is below the hard limit with every session evicted: no child is
\* spawned and the caller gets a "memory_pressure" error.
StartRefused(r) ==
    /\ call[r] = "idle"
    /\ EndOldest(Len(lru))
    /\ call' = [call EXCEPT ![r] = "failed"]
    /\ UNCHANGED <<out, busy>>

\* The child could not be started: its "error" event rejects the call and
\* removes the file, which comes back if the write stream opens only afterwards.
SpawnFails(r) ==
    /\ call[r] = "pending"
    /\ proc[r] = "running"
    /\ out[r] = "none"
    /\ call' = [call EXCEPT ![r] = "failed"]
    /\ proc' = [proc EXCEPT ![r] = "none"]
    /\ \E back \in BOOLEAN : tmp' = [tmp EXCEPT ![r] = back]
    /\ UNCHANGED <<out, busy, lru>>

\* Mutant: a new session ends all the others.
SurplusAll == Len(lru)

\* How many sessions enforceKeepAliveCapacity evicts before a new one is put
\* in the map.
Surplus == IF Len(lru) >= MaxSessions THEN Len(lru) + 1 - MaxSessions ELSE 0

\* resolveParsedKeepAliveResult: a result with a usable debug session makes a
\* session of this run, after evicting the least recently accessed ones; any
\* other object resolves the call without one and removes the file.
Resolve(r, result, keepFile) ==
    LET evicted == IF result = "session" THEN Oldest(Surplus) ELSE {}
    IN /\ call' = [call EXCEPT ![r] = result]
       /\ lru' = IF result = "session"
                   THEN Append(SubSeq(lru, Surplus + 1, Len(lru)), r)
                   ELSE lru
       /\ proc' = Terminated(proc, evicted)
       /\ tmp' = [q \in Runs |->
                    IF q = r THEN tmp[r] /\ keepFile /\ result = "session"
                             ELSE tmp[q] /\ q \notin evicted]

\* Text arrives on stdout that does not complete the JSON.
StdoutPartial(r) ==
    /\ call[r] = "pending"
    /\ proc[r] # "closed"
    /\ out[r] = "none"
    /\ out' = [out EXCEPT ![r] = "partial"]
    /\ UNCHANGED <<call, proc, tmp, busy, lru>>

\* The chunk that completes it arrives while the output is below
\* KEEP_ALIVE_INCREMENTAL_PARSE_MAX_BYTES, and is parsed at once.
StdoutParsed(r) ==
    /\ call[r] = "pending"
    /\ proc[r] # "closed"
    /\ out[r] \in {"none", "partial"}
    /\ \E result \in {"session", "bare"} :
          /\ out' = [out EXCEPT ![r] = result]
          /\ Resolve(r, result, TRUE)
    /\ UNCHANGED busy

\* It arrives above that limit: the output is left to the parse timers.
StdoutLarge(r) ==
    /\ call[r] = "pending"
    /\ proc[r] # "closed"
    /\ out[r] \in {"none", "partial"}
    /\ \E result \in Complete : out' = [out EXCEPT ![r] = result]
    /\ UNCHANGED <<call, proc, tmp, busy, lru>>

\* tryParseFromTempFile, on the interval of file-parse mode or on the idle
\* timer; the "close" handler clears both.
FileParse(r) ==
    /\ call[r] = "pending"
    /\ proc[r] # "closed"
    /\ out[r] \in {"session", "bare"}
    /\ Resolve(r, out[r], TRUE)
    /\ UNCHANGED <<out, busy>>

\* The same on an output that does not fit in a string: the call is rejected,
\* the child and the file are left as they are.
FileParseTooLarge(r) ==
    /\ call[r] = "pending"
    /\ proc[r] # "closed"
    /\ out[r] = "huge"
    /\ call' = [call EXCEPT ![r] = "failed"]
    /\ UNCHANGED <<proc, out, tmp, busy, lru>>

\* Mutant: the timer is never armed.
TimeoutNever(r) == FALSE /\ UNCHANGED kaVars

\* Mutant: the call is rejected and the child forgotten.
TimeoutForgetsChild(r) ==
    /\ call[r] = "pending"
    /\ call' = [call EXCEPT ![r] = "failed"]
    /\ tmp' = [tmp EXCEPT ![r] = FALSE]
    /\ UNCHANGED <<out, busy, lru, proc>>

\* KEEP_ALIVE_SIM_TIMEOUT_MS after the spawn.
Timeout(r) ==
    /\ call[r] = "pending"
    /\ call' = [call EXCEPT ![r] = "failed"]
    /\ proc' = Terminated(proc, {r})
    /\ tmp' = [tmp EXCEPT ![r] = FALSE]
    /\ UNCHANGED <<out, busy, lru>>

\* The child exits: by itself, or because of the signal it was sent.
ChildExit(r) ==
    /\ proc[r] \in {"running", "dying"}
    /\ proc' = [proc EXCEPT ![r] = "exited"]
    /\ UNCHANGED <<call, out, tmp, busy, lru>>

\* Mutant: the "close" handler removes the session and keeps its file.
CloseKeepsFile(r) ==
    /\ proc[r] = "exited"
    /\ proc' = [proc EXCEPT ![r] = "closed"]
    /\ lru' = Without(lru, r)
    /\ UNCHANGED <<call, out, tmp, busy>>

\* The "close" event: a session of this child leaves the map with its file.
Close(r) ==
    /\ proc[r] = "exited"
    /\ proc' = [proc EXCEPT ![r] = "closed"]
    /\ lru' = Without(lru, r)
    /\ tmp' = [tmp EXCEPT ![r] = @ /\ r \notin Sessions]
    /\ UNCHANGED <<call, out, busy>>

\* Mutant: the parse after "close" does not test whether the call has settled.
FinalParseAfterTimeout(r) ==
    /\ call[r] \in {"pending", "failed"}
    /\ proc[r] = "closed"
    /\ out[r] = "session"
    /\ r \notin Sessions
    /\ lru' = Append(SubSeq(lru, Surplus + 1, Len(lru)), r)
    /\ proc' = Terminated(proc, Oldest(Surplus))
    /\ tmp' = [q \in Runs |-> tmp[q] /\ q \notin Oldest(Surplus) \cup {r}]
    /\ call' = [call EXCEPT ![r] = IF @ = "pending" THEN "session" ELSE @]
    /\ UNCHANGED <<out, busy>>

\* What the "close" handler reads in the file when nothing was parsed before,
\* once the write stream has ended.  The exit code is not looked at, and
\* extractJsonFromOutput turns an empty output into the empty object.
FinalParse(r) ==
    /\ call[r] = "pending"
    /\ proc[r] = "closed"
    /\ \/ out[r] \in {"session", "bare"} /\ Resolve(r, out[r], FALSE)
       \/ out[r] = "none" /\ Resolve(r, "empty", FALSE)
       \/ /\ out[r] \in {"partial", "huge"}
          /\ call' = [call EXCEPT ![r] = "failed"]
          /\ tmp' = [tmp EXCEPT ![r] = FALSE]
          /\ UNCHANGED <<lru, proc>>
    /\ UNCHANGED <<out, busy>>

-----------------------------------------------------------------------------
(***************************************************************************)
(* RPC calls to a session (/debug/rpc, makeKeepAliveRpcCall)               *)
(***************************************************************************)

RpcStart(r) ==
    /\ r \in Sessions
    /\ ~busy[r]
    /\ busy' = [busy EXCEPT ![r] = TRUE]
    /\ lru' = Append(Without(lru, r), r)
    /\ UNCHANGED <<call, proc, out, tmp>>

\* The child answers, or the connection to it breaks.
RpcEnd(r) ==
    /\ busy[r]
    /\ busy' = [busy EXCEPT ![r] = FALSE]
    /\ UNCHANGED <<call, proc, out, tmp, lru>>

-----------------------------------------------------------------------------
\* One step of the run r or of its child.
RunStep(r) ==
    \/ StdoutPartial(r) \/ StdoutParsed(r) \/ StdoutLarge(r)
    \/ FileParse(r) \/ FileParseTooLarge(r) \/ Timeout(r)
    \/ SpawnFails(r) \/ ChildExit(r) \/ Close(r) \/ FinalParse(r)

KANext ==
    \/ \E r \in Runs :
          \/ Start(r) \/ StartRefused(r) \/ RunStep(r)
          \/ DebugEnd(r) \/ RpcStart(r) \/ RpcEnd(r)
    \/ Sweep

KASpec == KAInit /\ [][KANext]_kaVars

\* The timers of the bridge fire and its event loop delivers the events of the
\* children; a child that was signalled exits (SIGKILL follows SIGTERM).
\* Nothing makes a child exit by itself, write anything, or a client call.
KAFairness ==
    \A r \in Runs :
        /\ WF_kaVars(Timeout(r))
        /\ WF_kaVars(Close(r))
        /\ WF_kaVars(FinalParse(r))
        /\ WF_kaVars(proc[r] = "dying" /\ ChildExit(r))

KAFairSpec == KASpec /\ KAFairness

-----------------------------------------------------------------------------
(***************************************************************************)
(* Properties                                                              *)
(***************************************************************************)

\* The map holds each session once, and only runs whose caller was told of the
\* session: a run that timed out or failed never appears in it later
\* (keep-alive-manager.mjs:342-380, 473-506).
MapIsSound ==
    /\ \A i, j \in DOMAIN lru : lru[i] = lru[j] => i = j
    /\ \A r \in Sessions : call[r] = "session"

\* The state is well formed, the map within its bound, and sound.
KAInv == KATypeOK /\ MapIsSound

\* Two ways out leave a child that nobody owns: a result without a debug
\* session, and an output too large to parse, which also leaves its file
\* (keep-alive-manager.mjs:371-398).  A timeout removes the file.
Abandoned(r) == call[r] = "bare" \/ (call[r] = "failed" /\ out[r] = "huge" /\ tmp[r])

\* Apart from those, a child that has not been signalled serves a pending call
\* or a session of the map: ending, evicting, sweeping and timing out never
\* lose track of a child.
ChildrenOwned ==
    \A r \in Runs : proc[r] = "running" =>
        call[r] = "pending" \/ r \in Sessions \/ Abandoned(r)

\* The call of a child that never started: its file may have come back.
NeverStarted(r) == call[r] = "failed" /\ proc[r] = "none"

\* A temporary file belongs to a pending call or to a session; the output too
\* large to parse and the child that never started may leave one behind.
FilesOwned ==
    \A r \in Runs : tmp[r] =>
        call[r] = "pending" \/ r \in Sessions \/ Abandoned(r) \/ NeverStarted(r)

\* Nothing ends or evicts its way to the file of a call that is still pending,
\* which the parse timers and the "close" handler are going to read.
PendingFilesStay == \A r \in Runs : call[r] = "pending" => tmp[r]

\* Nothing that has to be given back is lost track of.
ResourcesOwned == ChildrenOwned /\ FilesOwned /\ PendingFilesStay

\* Making a session ends others only when the map is full, and then only the
\* ones accessed longest ago.
EvictsOldestWhenFull ==
    [][\A r \in Runs : (call[r] = "pending" /\ call'[r] = "session") =>
          /\ Len(lru) < MaxSessions => Sessions \subseteq ToSet(lru')
          /\ \A i, j \in DOMAIN lru :
                (i < j /\ lru[i] \in ToSet(lru')) => lru[j] \in ToSet(lru')]_kaVars

\* Every call is answered although its child may hang.
CallsAnswered == \A r \in Runs : (call[r] = "pending") ~> (call[r] # "pending")

\* A child whose session left the map does not stay, nor does one whose call
\* timed out or failed in any other way than by the size of its output
\* (terminatePidWithFallback, keep-alive-manager.mjs:121, 414).
EndedChildrenExit ==
    \A r \in Runs :
        (/\ proc[r] # "none"
         /\ \/ call[r] = "session" /\ r \notin Sessions
            \/ call[r] = "failed" /\ ~Abandoned(r)) ~> (proc[r] = "closed")
=============================================================================
