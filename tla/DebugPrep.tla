------------------------------ MODULE DebugPrep ------------------------------
(***************************************************************************)
(* Asynchronous debug preparation: the jobs the bridge keeps               *)
(* (scripts/debug-sessions.mjs, GET and POST /debug/prepare of             *)
(* scripts/simulator-bridge.mjs) and one page that starts, watches and     *)
(* cancels them (src/contexts/debug/useDebugPrep.ts).                      *)
(*                                                                         *)
(* The page hears of a job on two paths at once: an event stream that ends *)
(* with the job and is reconnected by the browser, and a poll every 1.5 s. *)
(*                                                                         *)
(*   prepareJobs   the bridge's map, and when its jobs were created        *)
(*   createdAt                                                             *)
(*   jobStatus     the status of the job objects, in the map or not        *)
(*   sseClients    jobs the page's event stream is subscribed to           *)
(*   wire          events written to the page's stream, not yet dispatched *)
(*   current       the start whose prepGeneration is current               *)
(*   post          POST /debug/prepare: idle, sent, answered, done; foreign*)
(*                 if the job is that of another page                      *)
(*   prepareIdRef, readyHandled, prepState     as in the hook              *)
(*   source        the EventSource of a job                                *)
(*   poll          the chain of polls of a job: none, asked, timer, or the *)
(*                 answer under way                                        *)
(*   connects      how often connectToSession was called for a job         *)
(***************************************************************************)
EXTENDS Integers, FiniteSets, Sequences

CONSTANTS Preps, NoPrep,
          Own,            \* the jobs of this page; the others are those of other pages
          PrepareJobMax,  \* PREPARE_JOB_MAX
          MaxWire         \* bound: events under way on a stream

ASSUME PrepAssumption ==
    NoPrep \notin Preps /\ Own \subseteq Preps /\ PrepareJobMax \in Nat \ {0} /\ MaxWire \in Nat

VARIABLES prepareJobs, createdAt, jobStatus, sseClients, wire
VARIABLES current, post, prepareIdRef, readyHandled, prepState, source, poll, connects

jobVars  == <<prepareJobs, createdAt, jobStatus, sseClients>>
pageVars == <<current, prepareIdRef, readyHandled, prepState, source, poll, connects>>
prepVars == <<jobVars, wire, post, pageVars>>

Outcomes == {"ready", "failed"}

PrepTypeOK ==
    /\ prepareJobs \subseteq Preps /\ Cardinality(prepareJobs) <= PrepareJobMax + 1
    /\ createdAt \in [Preps -> Nat]
    /\ jobStatus \in [Preps -> {"none", "preparing"} \cup Outcomes]
    /\ sseClients \subseteq Preps
    /\ wire \in [Preps -> Seq({"stage", "end"} \cup Outcomes)]
    /\ current \in Preps \cup {NoPrep}
    /\ post \in [Preps -> {"idle", "sent", "answered", "done", "foreign"}]
    /\ {prepareIdRef, readyHandled} \subseteq Preps \cup {NoPrep}
    /\ prepState \in {"idle", "queued", "preparing"} \cup Outcomes
    /\ source \in [Preps -> {"none", "connecting", "open", "closed"}]
    /\ poll \in [Preps -> {"none", "asked", "timer", "preparing", "missing"} \cup Outcomes]
    /\ connects \in [Preps -> Nat]

PrepInit ==
    /\ prepareJobs = {}
    /\ createdAt = [p \in Preps |-> 0]
    /\ jobStatus = [p \in Preps |-> "none"]
    /\ sseClients = {}
    /\ wire = [p \in Preps |-> <<>>]
    /\ current = NoPrep
    /\ post = [p \in Preps |-> "idle"]
    /\ prepareIdRef = NoPrep
    /\ readyHandled = NoPrep
    /\ prepState = "idle"
    /\ source = [p \in Preps |-> "none"]
    /\ poll = [p \in Preps |-> "none"]
    /\ connects = [p \in Preps |-> 0]

-----------------------------------------------------------------------------
(***************************************************************************)
(* The bridge                                                              *)
(***************************************************************************)

\* The jobs there have been.
Created == {p \in Preps : jobStatus[p] # "none"}

\* pruneStalePrepareSessions: completed jobs past their TTL go, then the oldest
\* ones above the limit, completed or not.  The TTL is 30 minutes and a page
\* polls every 1.5 s, so the job a page watches does not expire under it.
Pruned(expired, kept) ==
    LET rest == prepareJobs \ expired
    IN  /\ Cardinality(kept) <= PrepareJobMax
        /\ kept = rest \/ Cardinality(kept) = PrepareJobMax
        /\ \A p \in kept, q \in rest \ kept : createdAt[q] < createdAt[p]

\* POST /debug/prepare.  runAsyncDebugPrep runs up to its first await before
\* the answer is sent: nobody sees the status "queued".
Create(p) ==
    /\ post[p] = IF p \in Own THEN "sent" ELSE "idle"
    /\ post' = [post EXCEPT ![p] = IF post[p] = "sent" THEN "answered" ELSE "foreign"]
    /\ \E expired \in SUBSET {q \in prepareJobs : jobStatus[q] \in Outcomes /\ q # current} :
          \E kept \in SUBSET (prepareJobs \ expired) :
              /\ Pruned(expired, kept)
              /\ prepareJobs' = kept \cup {p}
    /\ createdAt' = [createdAt EXCEPT ![p] = Cardinality(Created)]
    /\ jobStatus' = [jobStatus EXCEPT ![p] = "preparing"]
    /\ UNCHANGED <<sseClients, wire, pageVars>>

InMap(p) == p \in prepareJobs

\* onProgress: broadcastPrepareEvent writes to the clients of a job in the map.
Progress(p) ==
    /\ jobStatus[p] = "preparing"
    /\ InMap(p) /\ p \in sseClients
    /\ Len(wire[p]) < MaxWire
    /\ wire' = [wire EXCEPT ![p] = Append(@, "stage")]
    /\ UNCHANGED <<jobVars, post, pageVars>>

\* The gated run has settled.  The outcome is broadcast if the job is still in
\* the map; its streams are ended in any case.
JobEnds(p, outcome) ==
    /\ jobStatus[p] = "preparing"
    /\ jobStatus' = [jobStatus EXCEPT ![p] = outcome]
    /\ sseClients' = sseClients \ {p}
    /\ LET last == IF InMap(p) THEN <<outcome, "end">> ELSE <<"end">>
       IN  wire' = [wire EXCEPT ![p] = IF p \in sseClients THEN @ \o last ELSE @]
    /\ UNCHANGED <<prepareJobs, createdAt, post, pageVars>>

\* GET /debug/prepare/:id/events: 404 closes an EventSource for good.
SseConnect(p) ==
    /\ source[p] = "connecting"
    /\ source' = [source EXCEPT ![p] = IF InMap(p) THEN "open" ELSE "closed"]
    /\ wire' = [wire EXCEPT ![p] =
                  IF ~InMap(p) THEN <<>>
                  ELSE IF jobStatus[p] \in Outcomes THEN <<jobStatus[p], "end">> ELSE <<"stage">>]
    /\ sseClients' = IF InMap(p) /\ jobStatus[p] = "preparing"
                       THEN sseClients \cup {p} ELSE sseClients
    /\ UNCHANGED <<prepareJobs, createdAt, jobStatus, post, current, prepareIdRef, readyHandled,
                   prepState, poll, connects>>

\* GET /debug/prepare/:id.
PollAnswer(p) ==
    /\ poll[p] = "asked"
    /\ poll' = [poll EXCEPT ![p] = IF InMap(p) THEN jobStatus[p] ELSE "missing"]
    /\ UNCHANGED <<jobVars, wire, post, current, prepareIdRef, readyHandled, prepState,
                   source, connects>>

-----------------------------------------------------------------------------
(***************************************************************************)
(* The page                                                                *)
(***************************************************************************)

\* stopPrepWatchers, seen from both ends: the stream is closed, the bridge's
\* "close" listener drops the client, the poll timer is cleared.  A poll that
\* is under way goes on.
Watched == {p \in Preps : source[p] \in {"connecting", "open"}}
StopPrepWatchers(polls) ==
    /\ source' = [p \in Preps |-> IF p \in Watched THEN "closed" ELSE source[p]]
    /\ wire' = [p \in Preps |-> IF p \in Watched THEN <<>> ELSE wire[p]]
    /\ sseClients' = sseClients \ Watched
    /\ poll' = [p \in Preps |-> IF polls[p] = "timer" THEN "none" ELSE polls[p]]

\* Mutant: the id is not reset.
CancelKeepsId ==
    /\ current' = NoPrep
    /\ StopPrepWatchers(poll)
    /\ readyHandled' = NoPrep
    /\ prepState' = "idle"
    /\ UNCHANGED <<prepareIdRef, prepareJobs, createdAt, jobStatus, post, connects>>

\* cancelDebugPrep.  The job goes on, and so does its session.
CancelDebugPrep ==
    /\ current' = NoPrep
    /\ StopPrepWatchers(poll)
    /\ prepareIdRef' = NoPrep
    /\ readyHandled' = NoPrep
    /\ prepState' = "idle"
    /\ UNCHANGED <<prepareJobs, createdAt, jobStatus, post, connects>>

\* startDebugPrep, up to the await of prepareDebug: cancels what there is.
StartDebugPrep(p) ==
    /\ p \in Own
    /\ post[p] = "idle"
    /\ post' = [post EXCEPT ![p] = "sent"]
    /\ current' = p
    /\ StopPrepWatchers(poll)
    /\ prepareIdRef' = NoPrep
    /\ readyHandled' = NoPrep
    /\ prepState' = "queued"
    /\ UNCHANGED <<prepareJobs, createdAt, jobStatus, connects>>

\* prepareDebug resolves; nothing happens in a page that has moved on.
PostAnswered(p) ==
    /\ post[p] = "answered"
    /\ post' = [post EXCEPT ![p] = "done"]
    /\ IF current = p
         THEN /\ prepareIdRef' = p
              /\ readyHandled' = NoPrep
              /\ prepState' = "preparing"
              /\ source' = [source EXCEPT ![p] = "connecting"]
              /\ poll' = [poll EXCEPT ![p] = "asked"]
         ELSE UNCHANGED <<prepareIdRef, readyHandled, prepState, source, poll>>
    /\ UNCHANGED <<jobVars, wire, current, connects>>

\* prepareDebug rejects: the request or its answer is lost, or it timed out.
PostFails(p) ==
    /\ post[p] \in {"sent", "answered"}
    /\ post' = [post EXCEPT ![p] = "done"]
    /\ prepState' = IF current = p THEN "failed" ELSE prepState
    /\ UNCHANGED <<jobVars, wire, current, prepareIdRef, readyHandled, source, poll, connects>>

\* Mutant: whoever hears of the session first or second connects.
HandleReadyAgain(p, polls) ==
    /\ prepState' = "ready"
    /\ readyHandled' = p
    /\ connects' = [connects EXCEPT ![p] = @ + 1]
    /\ StopPrepWatchers(polls)

HandleReady(p, polls) ==
    /\ prepState' = "ready"
    /\ readyHandled' = p
    /\ connects' = [connects EXCEPT ![p] = IF readyHandled = p THEN @ ELSE @ + 1]
    /\ StopPrepWatchers(polls)

HandleFailed(polls) ==
    /\ prepState' = "failed"
    /\ StopPrepWatchers(polls)
    /\ UNCHANGED <<readyHandled, connects>>

\* Mutant: once events come in the poll is given up.
SseEventStopsPoll(p) ==
    /\ source[p] = "open"
    /\ wire[p] # <<>>
    /\ Head(wire[p]) = "stage"
    /\ wire' = [wire EXCEPT ![p] = Tail(@)]
    /\ poll' = [poll EXCEPT ![p] = "none"]
    /\ UNCHANGED <<jobVars, current, post, prepareIdRef, readyHandled, prepState, source,
                   connects>>

\* The next event of a stream.  An EventSource that was closed dispatches
\* nothing, so the id is that of the current job; one whose stream ended
\* connects again.
SseEvent(p) ==
    /\ source[p] = "open"
    /\ wire[p] # <<>>
    /\ \/ /\ Head(wire[p]) = "stage"
          /\ prepState' = IF prepareIdRef = p THEN "preparing" ELSE prepState
          /\ wire' = [wire EXCEPT ![p] = Tail(@)]
          /\ UNCHANGED <<sseClients, readyHandled, source, poll, connects>>
       \/ /\ Head(wire[p]) = "end"
          /\ source' = [source EXCEPT ![p] = "connecting"]
          /\ wire' = [wire EXCEPT ![p] = <<>>]
          /\ UNCHANGED <<sseClients, readyHandled, prepState, poll, connects>>
       \/ /\ Head(wire[p]) = "ready" /\ prepareIdRef = p
          /\ HandleReady(p, poll)
       \/ /\ Head(wire[p]) = "failed" /\ prepareIdRef = p
          /\ HandleFailed(poll)
    /\ UNCHANGED <<prepareJobs, createdAt, jobStatus, current, post, prepareIdRef>>

\* The connection breaks and the browser tries again.
SseDrop(p) ==
    /\ source[p] = "open"
    /\ source' = [source EXCEPT ![p] = "connecting"]
    /\ wire' = [wire EXCEPT ![p] = <<>>]
    /\ sseClients' = sseClients \ {p}
    /\ UNCHANGED <<prepareJobs, createdAt, jobStatus, post, current, prepareIdRef, readyHandled,
                   prepState, poll, connects>>

\* Mutant: the answer is not compared with the current id.
PollResultAnyJob(p) ==
    /\ poll[p] \in {"preparing", "missing"} \cup Outcomes
    /\ \/ /\ poll[p] = "ready"
          /\ HandleReady(p, [poll EXCEPT ![p] = "none"])
       \/ /\ poll[p] = "failed"
          /\ HandleFailed([poll EXCEPT ![p] = "none"])
       \/ /\ poll[p] \in {"preparing", "missing"}
          /\ prepState' = IF poll[p] = "preparing" THEN "preparing" ELSE prepState
          /\ poll' = [poll EXCEPT ![p] = "timer"]
          /\ UNCHANGED <<sseClients, wire, readyHandled, source, connects>>
    /\ UNCHANGED <<prepareJobs, createdAt, jobStatus, current, post, prepareIdRef>>

\* getPrepareStatus resolves or, for a job that is not there, rejects; network
\* errors take the path of the rejection.  applyPolledStatus, then the timer.
PollResult(p) ==
    /\ poll[p] \in {"preparing", "missing"} \cup Outcomes
    /\ \/ /\ prepareIdRef # p
          /\ poll' = [poll EXCEPT ![p] = "none"]
          /\ UNCHANGED <<sseClients, wire, readyHandled, prepState, source, connects>>
       \/ /\ prepareIdRef = p /\ poll[p] = "ready"
          /\ HandleReady(p, [poll EXCEPT ![p] = "none"])
       \/ /\ prepareIdRef = p /\ poll[p] = "failed"
          /\ HandleFailed([poll EXCEPT ![p] = "none"])
       \/ /\ prepareIdRef = p /\ poll[p] \in {"preparing", "missing"}
          /\ prepState' = IF poll[p] = "preparing" THEN "preparing" ELSE prepState
          /\ poll' = [poll EXCEPT ![p] = "timer"]
          /\ UNCHANGED <<sseClients, wire, readyHandled, source, connects>>
    /\ UNCHANGED <<prepareJobs, createdAt, jobStatus, current, post, prepareIdRef>>

PollTimer(p) ==
    /\ poll[p] = "timer"
    /\ poll' = [poll EXCEPT ![p] = "asked"]
    /\ UNCHANGED <<jobVars, wire, post, current, prepareIdRef, readyHandled, prepState,
                   source, connects>>

PrepNext ==
    \/ CancelDebugPrep
    \/ \E p \in Preps :
          \/ Create(p) \/ Progress(p) \/ SseConnect(p) \/ PollAnswer(p)
          \/ \E outcome \in Outcomes : JobEnds(p, outcome)
          \/ StartDebugPrep(p) \/ PostAnswered(p) \/ PostFails(p)
          \/ SseEvent(p) \/ SseDrop(p) \/ PollResult(p) \/ PollTimer(p)

PrepSpec == PrepInit /\ [][PrepNext]_prepVars

\* The gated run of a job settles, requests are answered or time out, timers
\* fire.  Nothing is assumed of the event stream.
PrepFairness ==
    \A p \in Preps :
        /\ WF_prepVars(\E outcome \in Outcomes : JobEnds(p, outcome))
        /\ WF_prepVars(PostAnswered(p)) /\ WF_prepVars(PollAnswer(p))
        /\ WF_prepVars(PollResult(p)) /\ WF_prepVars(PollTimer(p))

PrepFairSpec == PrepSpec /\ PrepFairness

-----------------------------------------------------------------------------
(***************************************************************************)
(* Properties                                                              *)
(***************************************************************************)

\* However the stream and the polls overlap, a page connects to the session of
\* a job at most once (readyHandledForPrepareRef, useDebugPrep.ts:121-127).
ConnectsOnce == \A p \in Preps : connects[p] <= 1

\* An outcome is shown for the job that had it, never that of a job the page
\* left (the prepareIdRef guards, useDebugPrep.ts:108,153,166,178).
OutcomeIsOwn ==
    prepareIdRef # NoPrep /\ prepState \in Outcomes =>
        jobStatus[prepareIdRef] = prepState

\* No client stays on the stream of a job that has ended, also when the job was
\* pruned while it ran (debug-sessions.mjs:469-475, simulator-bridge.mjs:206-237).
NoStreamOutlivesJob == \A p \in sseClients : jobStatus[p] = "preparing"

\* The job map stays within its bound, streams end with their jobs, and a page
\* connects once.
PrepInv == PrepTypeOK /\ ConnectsOnce /\ NoStreamOutlivesJob

\* A job the page cancelled or replaced is never connected
\* (cancelDebugPrep, useDebugPrep.ts:80-87).
AbandonedNeverConnects ==
    [][\A p \in Preps : current # p => connects'[p] = connects[p]]_prepVars

\* A page that watches a job learns its outcome, from the polls alone if need be,
\* as long as the bridge keeps the job (pollPrepareStatus, useDebugPrep.ts:208-229).
PrepSettlesWhileKept ==
    \A p \in Preps :
        (prepareIdRef = p) ~> (prepareIdRef # p \/ prepState \in Outcomes \/ ~InMap(p))
=============================================================================
