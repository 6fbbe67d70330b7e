---------------------------- MODULE ContractResolver ----------------------------
(***************************************************************************)
(* The resolution of one contract (utils/resolver/ContractResolver.ts):     *)
(* look into the cache of two layers (ContractCache.ts), join a resolution  *)
(* that is under way, or ask the sources together.  A request for speed     *)
(* ends with the first ABI and aborts the other fetches, one for            *)
(* completeness waits for all.  The first call of Sourcify is shared        *)
(* between all requests (cache/sourcifyCache.ts) and is bound to the signal *)
(* of the request that made it; the repository is asked when it gives       *)
(* nothing (sources/sourcify.ts).                                           *)
(***************************************************************************)
EXTENDS Naturals, FiniteSets

CONSTANTS Requests,    \* calls of resolve for this contract
          Modes,       \* bound: the priorities the requests may have, as functions
          Signalled,   \* the requests with a signal: their caller may cancel
          Sources,     \* the sources asked
          Offer,       \* what a source has: [rank |-> score, complete |-> sources and settings]
          MaxClears,   \* bound: how often entries are cleared or expire
          Repo,        \* what Sourcify's repository has: the metadata alone
          None

ASSUME ResolverAssumption ==
  /\ Modes \subseteq [Requests -> {"speed", "completeness"}] /\ Signalled \subseteq Requests
  /\ "sourcify" \in Sources /\ DOMAIN Offer = Sources
  /\ \A s \in Sources : Offer[s].rank \in Nat /\ Offer[s].complete \in BOOLEAN
  /\ Repo.rank \in Nat /\ ~Repo.complete
  /\ None \notin Requests /\ Repo # None /\ \A s \in Sources : Offer[s] # None

VARIABLES
  mode,       \* the priority of each request
  has,        \* external: the sources where the contract is verified
  memory,     \* memoryCache
  store,      \* the entry in IndexedDB
  touch,      \* the entry updateAccessStats is about to put
  clears,     \* how often entries were cleared or expired
  clearing,   \* clearAll has emptied the memory, not yet the database
  pc,         \* where a request is
  inflight,   \* inflightRequests: the requests whose promise is in the map
  joined,     \* the request whose promise a request awaits
  fetch,      \* fetch[r][s]: the fetch of a source by a request
  best,       \* bestResult
  cancelled,  \* the caller aborted its signal
  v2,         \* the request that made the shared call of Sourcify, or None
  v2Cached,   \* the shared response is kept
  lost        \* history: sources a request lost to an error or its own timer

inputs == <<mode, has>>
cacheVars == <<memory, store, touch, clears, clearing>>
v2Vars == <<v2, v2Cached>>
runVars == <<inflight, joined, fetch, best, v2Vars, lost>>
resolverVars == <<inputs, cacheVars, pc, runVars, cancelled>>

InFlight == {"flying", "riding", "repo"}
Settled(r) == \A s \in Sources : fetch[r][s] \notin InFlight

Init ==
  /\ mode \in Modes /\ has \in SUBSET Sources
  /\ memory = None /\ store = None /\ touch = None /\ clears = 0 /\ clearing = FALSE
  /\ pc = [r \in Requests |-> "off"] /\ inflight = {} /\ joined = [r \in Requests |-> None]
  /\ fetch = [r \in Requests |-> [s \in Sources |-> "off"]]
  /\ best = [r \in Requests |-> None]
  /\ cancelled = {} /\ v2 = None /\ v2Cached = FALSE
  /\ lost = [r \in Requests |-> {}]

-----------------------------------------------------------------------------
(* The cache                                                                *)

Serves(entry, r) == entry # None /\ (mode[r] = "completeness" => entry.complete)

\* resolve: the memory is read first
Ask(r) ==
  /\ pc[r] = "off"
  /\ pc' = [pc EXCEPT ![r] = IF Serves(memory, r) THEN "done" ELSE IF memory = None THEN "reading" ELSE "asking"]
  /\ best' = [best EXCEPT ![r] = IF Serves(memory, r) THEN memory ELSE None]
  /\ UNCHANGED <<inputs, cacheVars, inflight, joined, fetch, v2Vars, lost, cancelled>>

\* then the database; a hit goes to the memory and its use is noted
ReadStore(r) ==
  /\ pc[r] = "reading"
  /\ \/ /\ store # None /\ memory' = store /\ touch' = store
        /\ pc' = [pc EXCEPT ![r] = IF Serves(store, r) THEN "done" ELSE "asking"]
        /\ best' = [best EXCEPT ![r] = IF Serves(store, r) THEN store ELSE None]
     \/ pc' = [pc EXCEPT ![r] = "asking"] /\ UNCHANGED <<memory, touch, best>>  \* missing, or the read fails
  /\ UNCHANGED <<inputs, store, clears, clearing, inflight, joined, fetch, v2Vars, lost, cancelled>>

Touch ==
  /\ touch # None /\ store' = touch /\ touch' = None
  /\ UNCHANGED <<inputs, memory, clears, clearing, pc, runVars, cancelled>>

\* the user clears the cache; in-flight requests are not told
Clear ==
  /\ ~clearing /\ (memory # None \/ store # None) /\ memory' = None /\ clearing' = TRUE
  /\ clears < MaxClears /\ clears' = clears + 1
  /\ UNCHANGED <<inputs, store, touch, pc, runVars, cancelled>>
ClearStore ==
  /\ clearing /\ store' = None /\ clearing' = FALSE
  /\ UNCHANGED <<inputs, memory, touch, clears, pc, runVars, cancelled>>

\* the oldest of 200 contracts leaves the memory, or 24 hours have passed
Expire ==
  /\ memory # None /\ memory' = None /\ store' \in {store, None}
  /\ clears < MaxClears /\ clears' = clears + 1
  /\ UNCHANGED <<inputs, touch, clearing, pc, runVars, cancelled>>

-----------------------------------------------------------------------------
(* Joining and starting                                                     *)

\* Mutant: requests with a signal are shared like the others
SameKeyUnsigned(r, o) == mode[r] = mode[o]

\* requestKey: a request with a signal has a key of its own
SameKey(r, o) == mode[r] = mode[o] /\ (r \in Signalled \/ o \in Signalled => r = o)

Join(r) ==
  /\ pc[r] = "asking"
  /\ \E o \in inflight :
       /\ SameKey(r, o)
       /\ IF pc[o] = "saving"
          THEN /\ pc' = [pc EXCEPT ![r] = "done"] /\ best' = [best EXCEPT ![r] = best[o]]
               /\ lost' = [lost EXCEPT ![r] = lost[o]] /\ UNCHANGED joined
          ELSE pc' = [pc EXCEPT ![r] = "joined"] /\ joined' = [joined EXCEPT ![r] = o] /\ UNCHANGED <<best, lost>>
  /\ UNCHANGED <<inputs, cacheVars, inflight, fetch, v2Vars, cancelled>>

\* doResolve: all sources are asked together; an aborted request asks none,
\* but takes what Sourcify's cache holds
FirstState(r, s) ==
  IF s = "sourcify" /\ v2Cached THEN "flying"
  ELSE IF r \in cancelled THEN "over"
  ELSE IF s = "sourcify" /\ v2 # None THEN "riding" ELSE "flying"
Start(r) ==
  /\ pc[r] = "asking" /\ \A o \in inflight : ~SameKey(r, o)
  /\ pc' = [pc EXCEPT ![r] = "running"] /\ inflight' = inflight \cup {r}
  /\ fetch' = [fetch EXCEPT ![r] = [s \in Sources |-> FirstState(r, s)]]
  /\ v2' = IF ~v2Cached /\ r \notin cancelled /\ v2 = None THEN r ELSE v2
  /\ UNCHANGED <<inputs, cacheVars, joined, best, v2Cached, lost, cancelled>>

-----------------------------------------------------------------------------
(* The fetches                                                              *)

Better(offer, r) == IF best[r] = None \/ offer.rank > best[r].rank THEN offer ELSE best[r]
Gets(r, s, offer) ==
  /\ fetch' = [fetch EXCEPT ![r][s] = "over"] /\ best' = [best EXCEPT ![r] = Better(offer, r)]
  /\ UNCHANGED lost
Loses(r, s) ==
  /\ fetch' = [fetch EXCEPT ![r][s] = "over"] /\ lost' = [lost EXCEPT ![r] = @ \cup {s}]
  /\ UNCHANGED best

\* a source answers, with an error or with what it has
Answer(r, s) ==
  /\ pc[r] = "running" /\ fetch[r][s] = "flying" /\ s # "sourcify"
  /\ \/ s \in has /\ Gets(r, s, Offer[s])
     \/ Loses(r, s)
  /\ UNCHANGED <<inputs, cacheVars, pc, inflight, joined, v2Vars, cancelled>>

\* a fetch of Sourcify is answered from the kept response
FromV2Cache(r) ==
  /\ pc[r] = "running" /\ fetch[r]["sourcify"] = "flying" /\ v2 # r
  /\ Gets(r, "sourcify", Offer["sourcify"])
  /\ UNCHANGED <<inputs, cacheVars, pc, inflight, joined, v2Vars, cancelled>>

\* Who was waiting for the shared call, and what it is to each when it ends
\* with nothing: an aborted request gives up, the others ask the repository.
OnV2 == {r \in Requests :
           /\ pc[r] = "running"
           /\ \/ fetch[r]["sourcify"] = "riding"
              \/ v2 = r /\ fetch[r]["sourcify"] = "flying"}
\* Mutant: a shared call that ends with nothing counts as Sourcify's answer
V2GivesUp(f, gone) ==
  [r \in Requests |-> IF r \in OnV2 THEN [f[r] EXCEPT !["sourcify"] = "over"] ELSE f[r]]

V2Nothing(f, gone) ==
  [r \in Requests |->
     IF r \in OnV2 THEN [f[r] EXCEPT !["sourcify"] = IF r \in gone THEN "over" ELSE "repo"] ELSE f[r]]

V2Answers ==
  /\ v2 # None /\ v2' = None
  /\ \/ /\ "sourcify" \in has /\ v2Cached' = TRUE
        /\ fetch' = [r \in Requests |-> IF r \notin OnV2 THEN fetch[r]
                       ELSE [fetch[r] EXCEPT !["sourcify"] = "over"]]
        /\ best' = [r \in Requests |-> IF r \in OnV2 \ cancelled THEN Better(Offer["sourcify"], r) ELSE best[r]]
     \/ fetch' = V2Nothing(fetch, cancelled) /\ UNCHANGED <<v2Cached, best>>
  /\ UNCHANGED <<inputs, cacheVars, pc, inflight, joined, lost, cancelled>>

RepoAnswers(r) ==
  /\ pc[r] = "running" /\ fetch[r]["sourcify"] = "repo"
  /\ \/ "sourcify" \in has /\ Gets(r, "sourcify", Repo)
     \/ Loses(r, "sourcify")
  /\ UNCHANGED <<inputs, cacheVars, pc, inflight, joined, v2Vars, cancelled>>

\* Mutant: a request for completeness waits as long as its sources take
SpeedTimesOut(r, s) ==
  /\ pc[r] = "running" /\ fetch[r][s] \in InFlight /\ mode[r] = "speed" /\ Loses(r, s)
  /\ UNCHANGED <<inputs, cacheVars, pc, inflight, joined, v2Vars, cancelled>>

\* the timer of the source, which an abort stops; the call goes on behind it
TimesOut(r, s) ==
  /\ pc[r] = "running" /\ fetch[r][s] \in InFlight /\ r \notin cancelled /\ Loses(r, s)
  /\ UNCHANGED <<inputs, cacheVars, pc, inflight, joined, v2Vars, cancelled>>

\* abort(): the fetches of the request reject, a shared call it made ends for
\* everybody, one it waits for goes on
AfterAbort(r) ==
  LET own == [fetch EXCEPT ![r] = [s \in Sources |->
                 IF \/ fetch[r][s] = "repo"
                    \/ fetch[r][s] = "flying" /\ s # "sourcify" THEN "over" ELSE fetch[r][s]]]
  IN IF v2 = r THEN V2Nothing(own, cancelled \cup {r}) ELSE own
Abort(r) == fetch' = AfterAbort(r) /\ v2' = IF v2 = r THEN None ELSE v2

\* the listener stays: a call the request left behind is aborted, too
Cancel(r) ==
  /\ r \in Signalled \ cancelled /\ pc[r] # "off" /\ (pc[r] = "done" => v2 = r)
  /\ cancelled' = cancelled \cup {r}
  /\ IF pc[r] \in {"running", "saving", "done"} THEN Abort(r) ELSE UNCHANGED <<fetch, v2>>
  /\ UNCHANGED <<inputs, cacheVars, pc, inflight, joined, best, v2Cached, lost>>

-----------------------------------------------------------------------------
(* The result                                                               *)

Ready(r) == pc[r] = "running" /\ (Settled(r) \/ (mode[r] = "speed" /\ best[r] # None))

\* the best result so far goes to the request and to those that joined it; an
\* ABI is cached, in the memory first
Finish(r) ==
  /\ Ready(r)
  /\ fetch' = [(IF mode[r] = "speed" THEN AfterAbort(r) ELSE fetch) EXCEPT ![r] = [s \in Sources |-> "off"]]
  /\ v2' = IF v2 = r /\ mode[r] = "speed" THEN None ELSE v2
  /\ LET got == best[r]
         told == {q \in Requests : pc[q] = "joined" /\ joined[q] = r} \cup {r}
     IN /\ pc' = [q \in Requests |-> IF q = r /\ got # None THEN "saving" ELSE IF q \in told THEN "done" ELSE pc[q]]
        /\ best' = [q \in Requests |-> IF q \in told THEN got ELSE best[q]]
        /\ lost' = [q \in Requests |-> IF q \in told THEN (IF got = None THEN lost[r] ELSE {}) ELSE lost[q]]
        /\ joined' = [q \in Requests |-> IF q \in told THEN None ELSE joined[q]]
        /\ memory' = IF got = None THEN memory ELSE got
        /\ inflight' = IF got = None THEN inflight \ {r} ELSE inflight
  /\ UNCHANGED <<inputs, store, touch, clears, clearing, v2Cached, cancelled>>

Save(r) ==
  /\ pc[r] = "saving" /\ pc' = [pc EXCEPT ![r] = "done"] /\ inflight' = inflight \ {r}
  /\ store' \in {best[r], store}  \* the write may fail
  /\ UNCHANGED <<inputs, memory, touch, clears, clearing, joined, fetch, best, v2Vars, lost, cancelled>>

Next ==
  \/ Touch \/ Clear \/ ClearStore \/ Expire \/ V2Answers
  \/ \E r \in Requests :
       \/ Ask(r) \/ ReadStore(r) \/ Join(r) \/ Start(r) \/ FromV2Cache(r) \/ RepoAnswers(r)
       \/ Cancel(r) \/ Finish(r) \/ Save(r)
       \/ \E s \in Sources : Answer(r, s) \/ TimesOut(r, s)

(* Timers fire and the database answers; a source may never answer.         *)
Fairness ==
  \A r \in Requests :
    /\ WF_resolverVars(ReadStore(r)) /\ WF_resolverVars(Join(r) \/ Start(r))
    /\ WF_resolverVars(Finish(r)) /\ WF_resolverVars(Save(r)) /\ WF_resolverVars(FromV2Cache(r))
    /\ \A s \in Sources : WF_resolverVars(TimesOut(r, s))

Spec == Init /\ [][Next]_resolverVars /\ Fairness

-----------------------------------------------------------------------------
(* Whoever waits, waits for something: at most one resolution runs under a  *)
(* key, a joined request for one in the map that nobody can cancel, and a   *)
(* fetch rides on a shared call that is under way (the map is read and      *)
(* written without an await between, ContractResolver.ts:146-156).          *)
ResolverInv ==
  /\ pc \in [Requests -> {"off", "reading", "asking", "running", "joined", "saving", "done"}]
  /\ inflight = {r \in Requests : pc[r] \in {"running", "saving"}}
  /\ \A r, o \in inflight : SameKey(r, o) => r = o
  /\ \A r \in Requests : pc[r] = "joined" => joined[r] \in inflight \ Signalled
  /\ \A r \in Requests : pc[r] = "running" /\ fetch[r]["sourcify"] = "riding" => v2 # None
  /\ v2 # None => v2 \notin cancelled

(* "Not found" is true: a request whose caller did not cancel it is told    *)
(* that there is no ABI only if each source that has one failed the         *)
(* resolution itself, by an error or by its timer.  Neither another         *)
(* request's abort, nor a cancelled one it could have joined, nor a clear   *)
(* hides an ABI (the signal in the key, ContractResolver.ts:117; the        *)
(* fallback, sourcify.ts:175).                                              *)
NotFoundIsHonest ==
  \A r \in Requests : pc[r] = "done" /\ best[r] = None /\ r \notin cancelled => has \subseteq lost[r]

(* Every request is answered unless its caller cancels it, even when no     *)
(* source ever answers and whoever it joined (fetchWithTimeout,             *)
(* ContractResolver.ts:327).                                                *)
RequestsAnswered ==
  \A r \in Requests : (pc[r] # "off") ~> (pc[r] = "done" \/ r \in cancelled)
=============================================================================
