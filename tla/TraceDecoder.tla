----------------------------- MODULE TraceDecoder -----------------------------
(***************************************************************************)
(* The results page of a simulation: its result (SimulationContext.tsx),   *)
(* the decoding of its trace in a worker (useDecodedTrace.ts) and what the *)
(* page does with the rows (useSimulationPageState.ts).  What becomes of a *)
(* decoded trace in the stores is SimulationHistory; here, a simulation    *)
(* that is opened again comes with the rows last handed to them.           *)
(*                                                                         *)
(* Effects run in a commit of their own, after the render that made them   *)
(* due: an answer of the worker may come in between.  In a commit every    *)
(* effect sees the state of its render, not what the others set.           *)
(***************************************************************************)
EXTENDS Naturals, Sequences

CONSTANTS Runs,       \* simulations, each with an id of its own
          Decodes,    \* what decoding may give: numbers of internal calls
          Raw,        \* Raw[r]: the raw trace of run r has snapshots ("full"),
                      \* opcodes only ("opcodes"), or is missing ("none")
          Rendered,   \* runs whose rows the engine rendered (schema version 3)
          MaxCache,   \* MAX_DECODE_CACHE
          MaxAsked,   \* bound on the requests to the worker
          NoResult, NoRows

ASSUME PageAssumption ==
  /\ Raw \in [Runs -> {"full", "opcodes", "none"}] /\ Rendered \subseteq Runs
  /\ MaxCache \in Nat \ {0} /\ MaxAsked \in Nat /\ NoResult \notin Runs
  /\ Decodes \subseteq Nat /\ 0 \in Decodes

VARIABLES
  stored,    \* stored[r]: the rows the stores have for run r, or NoRows
  result,    \* currentSimulation: a run, or NoResult
  rows,      \* decodedTraceRows of the context
  mounted,   \* whether the results page is
  hookDue,   \* the effect of useDecodedTrace has a change to see
  pageDue,   \* and the effect of the page that keeps the rows
  cache,     \* cacheRef: [id, rows], oldest first
  pending,   \* pendingRequestRef: a request's number, 0 for none
  fallback,  \* workerFallbackRef: the run to decode instead, or NoResult
  worker,    \* "up", or "down" once it failed
  inbox,     \* requests posted to the worker: [n, of]
  shown,     \* decodedTrace
  decoding,  \* isDecoding
  asked      \* number of the last request

workVars == <<cache, pending, fallback, worker, inbox, asked>>
hookVars == <<workVars, shown, decoding>>
pageVars == <<result, rows, mounted, hookDue, pageDue>>
vars == <<stored, hookVars, pageVars>>

Init ==
  /\ stored = [r \in Runs |-> NoRows]
  /\ cache = << >> /\ pending = 0 /\ fallback = NoResult /\ worker = "up"
  /\ inbox = << >> /\ shown = NoRows /\ decoding = FALSE /\ asked = 0
  /\ result = NoResult /\ rows = NoRows
  /\ mounted = FALSE /\ hookDue = FALSE /\ pageDue = FALSE

\* the references, the state and the worker of the hook go with the page
Unmount ==
  /\ mounted' = FALSE /\ hookDue' = FALSE /\ pageDue' = FALSE
  /\ cache' = << >> /\ pending' = 0 /\ fallback' = NoResult /\ worker' = "up"
  /\ inbox' = << >> /\ shown' = NoRows /\ decoding' = FALSE /\ UNCHANGED asked

\* decoding a trace without snapshots finds no internal calls
Decoded(r) ==
  {[of |-> r, internal |-> d] :
     d \in {e \in Decodes : Raw[r] = "full" \/ r \in Rendered \/ e = 0}}

CachedIds == {cache[k].id : k \in 1..Len(cache)}
CachedRows(i) == cache[CHOOSE k \in 1..Len(cache) : cache[k].id = i].rows
updateCache(i, new) ==
  LET all == Append(SelectSeq(cache, LAMBDA e : e.id # i), [id |-> i, rows |-> new])
  IN cache' = IF Len(all) > MaxCache THEN Tail(all) ELSE all

\* onDecoded: persistDecodedTrace does not replace internal calls by none
onDecoded(i, new) ==
  LET keeps == stored[i] # NoRows /\ stored[i].internal > 0 /\ new.internal = 0
  IN stored' = IF keeps THEN stored ELSE [stored EXCEPT ![i] = new]

Cancel == pending' = 0 /\ fallback' = NoResult
Show(new) == shown' = new /\ decoding' = FALSE

-----------------------------------------------------------------------------
(* The effect of useDecodedTrace for the result r and the rows it now has   *)

FromCache(r) ==
  /\ r \in CachedIds
  /\ Show(CachedRows(r))
  /\ UNCHANGED <<stored, workVars>>

FromEngine(r) ==
  /\ r \in Rendered
  /\ \E new \in Decoded(r) :
       onDecoded(r, new) /\ updateCache(r, new) /\ Show(new)
  /\ Cancel
  /\ UNCHANGED <<worker, inbox, asked>>

\* rows restored from the history, unless the opcodes promise better ones
FromHistory(r) ==
  /\ Raw[r] # "full" /\ rows # NoRows
  /\ updateCache(r, rows) /\ Show(rows)
  /\ Cancel
  /\ UNCHANGED <<stored, worker, inbox, asked>>

NothingToDecode(r) ==
  /\ Raw[r] = "none" /\ rows = NoRows
  /\ Show(NoRows)
  /\ IF r \in Rendered THEN Cancel ELSE UNCHANGED <<pending, fallback>>
  /\ UNCHANGED <<stored, cache, worker, inbox, asked>>

AskWorker(r) ==
  /\ Raw[r] # "none" /\ worker = "up" /\ asked < MaxAsked
  /\ asked' = asked + 1
  /\ pending' = asked + 1 /\ fallback' = r
  /\ inbox' = Append(inbox, [n |-> asked + 1, of |-> r])
  /\ shown' = NoRows /\ decoding' = TRUE
  /\ UNCHANGED <<stored, cache, worker>>

DecodeOnMain(r) ==
  \/ \E new \in Decoded(r) :
       onDecoded(r, new) /\ updateCache(r, new) /\ Show(new)
  \/ Show(NoRows) /\ UNCHANGED <<stored, cache>>

Effect(r) ==
  \/ FromCache(r)
  \/ r \notin CachedIds /\ FromEngine(r)
  \/ /\ r \notin CachedIds   \* also when the rows of the engine do not parse
     /\ \/ FromHistory(r) \/ NothingToDecode(r) \/ AskWorker(r)
        \/ /\ Raw[r] # "none" /\ worker = "down" /\ DecodeOnMain(r)
           /\ UNCHANGED <<pending, fallback, worker, inbox, asked>>

\* no result and nothing to load: the hook has nothing to show
NoTrace == Show(NoRows) /\ UNCHANGED <<stored, workVars>>

(* A commit runs the effects that are due.  The page keeps the rows shown   *)
(* in the context, the ones its render showed.                              *)
Commit ==
  /\ mounted /\ (hookDue \/ pageDue)
  /\ CASE hookDue /\ result # NoResult -> Effect(result)
       [] hookDue /\ result = NoResult -> NoTrace
       [] OTHER -> UNCHANGED <<stored, hookVars>>
  /\ rows' = IF shown # NoRows THEN shown ELSE rows
  /\ hookDue' = (rows' # rows)
  /\ pageDue' = (rows' # rows \/ shown' # shown)
  /\ UNCHANGED <<result, mounted>>

-----------------------------------------------------------------------------
(* The worker                                                              *)

\* handleMessage: only the answer to the pending request counts, and it is
\* taken for a trace of the simulation the page shows now
Answer ==
  LET req == Head(inbox) IN
  /\ inbox # << >>
  /\ inbox' = Tail(inbox)
  /\ \/ pending # req.n /\ UNCHANGED <<stored, cache, pending, fallback, shown, decoding, pageDue>>
     \/ /\ pending = req.n
        /\ Cancel
        /\ \/ \E new \in Decoded(req.of) :
                onDecoded(result, new) /\ updateCache(result, new) /\ Show(new)
           \/ Show(NoRows) /\ UNCHANGED <<stored, cache>>
        /\ pageDue' = TRUE
  /\ UNCHANGED <<worker, asked, result, rows, mounted, hookDue>>

\* Mutant: a worker that failed leaves its request to nobody
WorkerFailsSilently ==
  /\ mounted /\ worker = "up"
  /\ worker' = "down" /\ inbox' = << >>
  /\ Cancel
  /\ UNCHANGED <<stored, cache, shown, decoding, pageDue>>
  /\ UNCHANGED <<asked, result, rows, mounted, hookDue>>

\* handleWorkerFailure: the pending request is decoded on the main thread
WorkerFails ==
  /\ mounted /\ worker = "up"
  /\ worker' = "down" /\ inbox' = << >>
  /\ Cancel
  /\ \/ fallback # NoResult /\ DecodeOnMain(fallback) /\ pageDue' = TRUE
     \/ fallback = NoResult /\ UNCHANGED <<stored, cache, shown, decoding, pageDue>>
  /\ UNCHANGED <<asked, result, rows, mounted, hookDue>>

-----------------------------------------------------------------------------
(* The page                                                                *)

\* setSimulation of a simulation that finished, wherever the user is by then
Finish(r) ==
  /\ result # r
  /\ result' = r /\ rows' = NoRows
  /\ hookDue' = TRUE /\ pageDue' = TRUE
  /\ UNCHANGED <<stored, hookVars, mounted>>

\* a stored simulation is opened from the list, or by a page that has no result
Restore(r) ==
  /\ ~ mounted \/ result = NoResult
  /\ result' = r /\ rows' = stored[r]
  /\ hookDue' = TRUE /\ pageDue' = TRUE
  /\ UNCHANGED <<stored, hookVars, mounted>>

Mount ==
  /\ ~ mounted
  /\ mounted' = TRUE /\ hookDue' = TRUE /\ pageDue' = TRUE
  /\ UNCHANGED <<stored, hookVars, result, rows>>

Leave == mounted /\ Unmount /\ UNCHANGED <<stored, result, rows>>

\* clearSimulation, and the page is left in the same turn
Back ==
  /\ result # NoResult
  /\ result' = NoResult /\ rows' = NoRows
  /\ Unmount
  /\ UNCHANGED stored

Next ==
  \/ Commit \/ Answer \/ WorkerFails
  \/ \E r \in Runs : Finish(r) \/ Restore(r)
  \/ Mount \/ Leave \/ Back

(* Effects are run, and the worker answers or fails: "a worker killed       *)
(* without an error event" is left out.                                     *)
Fairness == WF_vars(Commit) /\ WF_vars(Answer)

Spec == Init /\ [][Next]_vars /\ Fairness

-----------------------------------------------------------------------------
(* The spinner ends: whatever results, clears and failures of the worker    *)
(* come in between, a page that decodes stops decoding.                     *)
DecodingEnds == decoding ~> ~ decoding

(* What the page shows, once its effects have run, is the trace of the      *)
(* simulation it shows.                                                     *)
TraceIsOwn ==
  mounted /\ ~ hookDue /\ ~ pageDue /\ result # NoResult /\ shown # NoRows
    => shown.of = result
=============================================================================
