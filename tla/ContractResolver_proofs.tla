------------------------ MODULE ContractResolver_proofs ------------------------
(***************************************************************************)
(* For every set of requests, priorities and sources: whoever waits, waits  *)
(* for something, and "not found" is told only when every source that has   *)
(* an ABI failed the resolution itself.                                     *)
(***************************************************************************)
EXTENDS ContractResolver, TLAPS

Entries == {None, Repo} \cup {Offer[s] : s \in Sources}
Fetches == {"off", "over", "flying", "riding", "repo"}
Places == {"off", "reading", "asking", "running", "joined", "saving", "done"}

Typed ==
  /\ has \subseteq Sources /\ cancelled \subseteq Signalled
  /\ memory \in Entries /\ store \in Entries /\ touch \in Entries
  /\ pc \in [Requests -> Places] /\ joined \in [Requests -> Requests \cup {None}]
  /\ fetch \in [Requests -> [Sources -> Fetches]]
  /\ best \in [Requests -> Entries] /\ lost \in [Requests -> SUBSET Sources]
  /\ v2 \in Requests \cup {None}

\* What makes ResolverInv inductive: nobody is left waiting for a resolution
\* that only has to be saved, and a shared call belongs to a request whose
\* abort would end it.
Waits ==
  /\ ResolverInv
  /\ \A r \in Requests : pc[r] = "joined" => pc[joined[r]] = "running"
  /\ v2 # None => pc[v2] \in {"running", "saving", "done"}

\* A source that has an ABI is lost to a running request only by its own
\* failure; otherwise it is still being asked.
Honest ==
  /\ \A r \in Requests : pc[r] = "saving" => best[r] # None
  /\ \A r \in Requests \ cancelled :
       pc[r] = "running" /\ best[r] = None =>
         \A s \in has : s \in lost[r] \/ fetch[r][s] \in InFlight
  /\ NotFoundIsHonest

-----------------------------------------------------------------------------
\* isBetterResult keeps or replaces a result, and never forgets one.
LEMMA BetterIsSome ==
  ASSUME Typed, NEW r \in Requests, NEW offer \in Entries \ {None}
  PROVE  Better(offer, r) \in Entries \ {None}
BY DEF Better, Typed

\* Whatever a source offers is an entry.
LEMMA OffersAreSome ==
  Repo \in Entries \ {None} /\ \A s \in Sources : Offer[s] \in Entries \ {None}
BY ResolverAssumption DEF Entries

\* The end of the shared call leaves nobody riding on it, and changes the fetch
\* of Sourcify only: to the repository for whoever was not aborted.
LEMMA V2NothingEffect ==
  ASSUME Typed, NEW f \in [Requests -> [Sources -> Fetches]], NEW gone
  PROVE  /\ V2Nothing(f, gone) \in [Requests -> [Sources -> Fetches]]
         /\ \A r \in Requests \ OnV2 : V2Nothing(f, gone)[r] = f[r]
         /\ \A r \in OnV2 :
              /\ V2Nothing(f, gone)[r]["sourcify"] = IF r \in gone THEN "over" ELSE "repo"
              /\ \A s \in Sources \ {"sourcify"} : V2Nothing(f, gone)[r][s] = f[r][s]
BY ResolverAssumption DEF V2Nothing, OnV2, Fetches

\* abort() disturbs other requests only if they wait for the call it ends, and
\* then they ask the repository.
LEMMA AbortEffect ==
  ASSUME Typed, NEW r \in Requests
  PROVE  /\ AfterAbort(r) \in [Requests -> [Sources -> Fetches]]
         /\ \A q \in Requests \ {r}, s \in Sources :
              \/ AfterAbort(r)[q][s] = fetch[q][s]
              \/ s = "sourcify" /\ v2 = r /\ q \in OnV2
                 /\ AfterAbort(r)[q][s] = IF q \in cancelled THEN "over" ELSE "repo"
         /\ v2 = r => \A q \in Requests :
                        pc[q] = "running" => AfterAbort(r)[q]["sourcify"] # "riding"
         /\ \A q \in Requests : AfterAbort(r)[q]["sourcify"] = "riding" => fetch[q]["sourcify"] = "riding"
<1> DEFINE own == [fetch EXCEPT ![r] = [s \in Sources |->
                     IF \/ fetch[r][s] = "repo"
                        \/ fetch[r][s] = "flying" /\ s # "sourcify" THEN "over" ELSE fetch[r][s]]]
<1> USE ResolverAssumption
<1>1. AfterAbort(r) = IF v2 = r THEN V2Nothing(own, cancelled \cup {r}) ELSE own
  BY DEF AfterAbort
<1>2. /\ own \in [Requests -> [Sources -> Fetches]]
      /\ \A q \in Requests \ {r} : own[q] = fetch[q]
      /\ own[r]["sourcify"] = "riding" => fetch[r]["sourcify"] = "riding"
  BY DEF Typed, Fetches
<1> HIDE DEF own
<1>3. CASE v2 # r
  BY <1>1, <1>2, <1>3
<1>4. CASE v2 = r
  <2> DEFINE new == V2Nothing(own, cancelled \cup {r})
  <2>1. /\ new \in [Requests -> [Sources -> Fetches]]
        /\ \A q \in Requests \ OnV2 : new[q] = own[q]
        /\ \A q \in OnV2 :
             /\ new[q]["sourcify"] = IF q \in cancelled \cup {r} THEN "over" ELSE "repo"
             /\ \A s \in Sources \ {"sourcify"} : new[q][s] = own[q][s]
    BY <1>2, V2NothingEffect
  <2>2. AfterAbort(r) = new
    BY <1>1, <1>4
  <2>3. \A q \in Requests \ OnV2 : pc[q] = "running" => fetch[q]["sourcify"] # "riding"
    BY DEF OnV2
  <2> HIDE DEF new
  <2>4. \A q \in Requests \ {r}, s \in Sources :
           \/ new[q][s] = fetch[q][s]
           \/ s = "sourcify" /\ v2 = r /\ q \in OnV2
              /\ new[q][s] = IF q \in cancelled THEN "over" ELSE "repo"
    BY <1>2, <1>4, <2>1
  <2>5. \A q \in Requests : new[q]["sourcify"] = "riding" => q \notin OnV2 /\ fetch[q]["sourcify"] = "riding"
    BY <1>2, <2>1
  <2> QED
    BY <2>1, <2>2, <2>3, <2>4, <2>5, <1>4
<1> QED
  BY <1>3, <1>4

-----------------------------------------------------------------------------
\* All three parts hold before the first request.
LEMMA InitResolver == Init => Typed /\ Waits /\ Honest
BY ResolverAssumption DEF Init, Typed, Waits, Honest, ResolverInv, NotFoundIsHonest, Entries, Fetches, Places

\* Every step keeps the types.
LEMMA TypedStep == Typed /\ ResolverInv /\ [Next]_resolverVars => Typed'
<1> SUFFICES ASSUME Typed, ResolverInv, [Next]_resolverVars PROVE Typed'
  OBVIOUS
<1> USE ResolverAssumption, BetterIsSome, OffersAreSome DEF Typed
<1>1. CASE Touch \/ Clear \/ ClearStore \/ Expire
  BY <1>1 DEF Touch, Clear, ClearStore, Expire, inputs, runVars, v2Vars, Entries
<1>2. CASE V2Answers
  <2>1. fetch' \in [Requests -> [Sources -> Fetches]]
    <3>1. CASE fetch' = V2Nothing(fetch, cancelled)
      BY <3>1, V2NothingEffect
    <3>2. CASE fetch' = [r \in Requests |-> IF r \notin OnV2 THEN fetch[r]
                                            ELSE [fetch[r] EXCEPT !["sourcify"] = "over"]]
      BY <3>2 DEF Fetches
    <3> QED
      BY <1>2, <3>1, <3>2 DEF V2Answers
  <2>2. best' \in [Requests -> Entries]
    BY <1>2, SMTT(30) DEF V2Answers
  <2> QED
    BY <1>2, <2>1, <2>2 DEF V2Answers, inputs, cacheVars
<1>3. ASSUME NEW r \in Requests, Ask(r) PROVE Typed'
  <2>1. best' \in [Requests -> Entries] /\ pc' \in [Requests -> Places]
    BY <1>3 DEF Ask, Entries, Places
  <2> QED
    BY <1>3, <2>1 DEF Ask, inputs, cacheVars, v2Vars
<1>4. ASSUME NEW r \in Requests, ReadStore(r) PROVE Typed'
  <2>1. best' \in [Requests -> Entries] /\ pc' \in [Requests -> Places]
        /\ memory' \in Entries /\ touch' \in Entries
    BY <1>4 DEF ReadStore, Entries, Places
  <2> QED
    BY <1>4, <2>1 DEF ReadStore, inputs, v2Vars
<1>5. ASSUME NEW r \in Requests, Join(r) PROVE Typed'
  <2>1. PICK o \in inflight :
          /\ best' = best \/ best' = [best EXCEPT ![r] = best[o]]
          /\ lost' = lost \/ lost' = [lost EXCEPT ![r] = lost[o]]
          /\ joined' = joined \/ joined' = [joined EXCEPT ![r] = o]
          /\ pc' = [pc EXCEPT ![r] = "done"] \/ pc' = [pc EXCEPT ![r] = "joined"]
    BY <1>5 DEF Join
  <2>2. o \in Requests
    BY DEF ResolverInv
  <2>3. UNCHANGED <<inputs, cacheVars, inflight, fetch, v2Vars, cancelled>>
    BY <1>5 DEF Join
  <2>4. best' \in [Requests -> Entries]
    BY <2>1, <2>2
  <2>5. lost' \in [Requests -> SUBSET Sources]
    BY <2>1, <2>2
  <2>6. joined' \in [Requests -> Requests \cup {None}]
    BY <2>1, <2>2
  <2>7. pc' \in [Requests -> Places]
    BY <2>1 DEF Places
  <2> QED
    BY <2>3, <2>4, <2>5, <2>6, <2>7 DEF inputs, cacheVars, v2Vars
<1>6. ASSUME NEW r \in Requests, Start(r) PROVE Typed'
  <2>1. \A s \in Sources : FirstState(r, s) \in Fetches
    BY DEF FirstState, Fetches
  <2> QED
    BY <1>6, <2>1 DEF Start, inputs, cacheVars, Places
<1>7. ASSUME NEW r \in Requests, NEW s \in Sources, NEW offer \in Entries \ {None}, Gets(r, s, offer)
      PROVE  fetch' \in [Requests -> [Sources -> Fetches]] /\ best' \in [Requests -> Entries] /\ lost' = lost
  BY <1>7 DEF Gets, Fetches
<1>8. ASSUME NEW r \in Requests, NEW s \in Sources, Loses(r, s)
      PROVE  fetch' \in [Requests -> [Sources -> Fetches]] /\ lost' \in [Requests -> SUBSET Sources] /\ best' = best
  BY <1>8 DEF Loses, Fetches
<1>9. ASSUME NEW r \in Requests, FromV2Cache(r) \/ RepoAnswers(r) PROVE Typed'
  BY <1>7, <1>8, <1>9 DEF FromV2Cache, RepoAnswers, inputs, cacheVars, v2Vars
<1>10. ASSUME NEW r \in Requests, NEW s \in Sources, Answer(r, s) \/ TimesOut(r, s) PROVE Typed'
  BY <1>7, <1>8, <1>10 DEF Answer, TimesOut, inputs, cacheVars, v2Vars
<1>11. ASSUME NEW r \in Requests, Cancel(r) PROVE Typed'
  BY <1>11, AbortEffect DEF Cancel, Abort, inputs, cacheVars
<1>12. ASSUME NEW r \in Requests, Finish(r) PROVE Typed'
  <2>1. fetch' \in [Requests -> [Sources -> Fetches]]
    BY <1>12, AbortEffect DEF Finish, Fetches
  <2>2. /\ best' \in [Requests -> Entries] /\ pc' \in [Requests -> Places] /\ memory' \in Entries
        /\ lost' \in [Requests -> SUBSET Sources] /\ joined' \in [Requests -> Requests \cup {None}]
    BY <1>12 DEF Finish, Places
  <2> QED
    BY <1>12, <2>1, <2>2 DEF Finish, inputs
<1>13. ASSUME NEW r \in Requests, Save(r) PROVE Typed'
  BY <1>13 DEF Save, inputs, v2Vars, Places
<1>14. ASSUME UNCHANGED resolverVars PROVE Typed'
  BY <1>14 DEF resolverVars, inputs, cacheVars, runVars, v2Vars
<1> QED
  BY <1>1, <1>2, <1>3, <1>4, <1>5, <1>6, <1>9, <1>10, <1>11, <1>12, <1>13, <1>14 DEF Next

-----------------------------------------------------------------------------
\* Every step keeps Waits: a resolution leaves the table only together with
\* those that joined it, a shared call ends only with all its riders.
LEMMA WaitsStep == Typed /\ Waits /\ [Next]_resolverVars => Waits'
<1> SUFFICES ASSUME Typed, Waits, [Next]_resolverVars PROVE Waits'
  OBVIOUS
<1> USE ResolverAssumption
<1>0. /\ pc \in [Requests -> Places] /\ fetch \in [Requests -> [Sources -> Fetches]]
      /\ v2 \in Requests \cup {None} /\ joined \in [Requests -> Requests \cup {None}]
      /\ inflight = {r \in Requests : pc[r] \in {"running", "saving"}}
      /\ \A r, o \in inflight : SameKey(r, o) => r = o
      /\ \A r \in Requests : pc[r] = "joined" =>
           joined[r] \in inflight \ Signalled /\ pc[joined[r]] = "running"
      /\ \A r \in Requests : pc[r] = "running" /\ fetch[r]["sourcify"] = "riding" => v2 # None
      /\ v2 # None => v2 \notin cancelled /\ pc[v2] \in {"running", "saving", "done"}
  BY DEF Waits, ResolverInv, Typed
<1>1. ASSUME UNCHANGED <<mode, pc, inflight, joined, cancelled>>, v2' = v2 \/ v2' = None,
             \A r \in Requests : pc[r] = "running" /\ fetch'[r]["sourcify"] = "riding" => v2' # None
      PROVE  Waits'
  BY <1>0, <1>1 DEF Waits, ResolverInv, SameKey, Places
<1>2. ASSUME NEW r \in Requests, NEW s \in Sources,
             UNCHANGED <<mode, pc, inflight, joined, cancelled, v2>>,
             fetch' = fetch \/ fetch' = [fetch EXCEPT ![r][s] = "over"]
      PROVE  Waits'
  <2>1. \A q \in Requests : fetch'[q]["sourcify"] = "riding" => fetch[q]["sourcify"] = "riding"
    BY <1>0, <1>2
  <2> QED
    BY <1>0, <1>1, <1>2, <2>1
<1>3. CASE Touch \/ Clear \/ ClearStore \/ Expire
  BY <1>0, <1>1, <1>3 DEF Touch, Clear, ClearStore, Expire, inputs, runVars, v2Vars
<1>4. CASE V2Answers
  <2>1. \A r \in Requests : pc[r] = "running" => fetch'[r]["sourcify"] # "riding"
    <3>1. CASE fetch' = V2Nothing(fetch, cancelled)
      BY <1>0, <3>1, V2NothingEffect DEF OnV2
    <3>2. CASE fetch' = [r \in Requests |-> IF r \notin OnV2 THEN fetch[r]
                                            ELSE [fetch[r] EXCEPT !["sourcify"] = "over"]]
      BY <1>0, <3>2 DEF OnV2
    <3> QED
      BY <1>4, <3>1, <3>2 DEF V2Answers
  <2> QED
    BY <1>1, <1>4, <2>1 DEF V2Answers, inputs, cacheVars
<1>5. ASSUME NEW r \in Requests, Ask(r) \/ ReadStore(r) PROVE Waits'
  <2>1. /\ pc[r] \in {"off", "reading"} /\ UNCHANGED <<mode, inflight, joined, fetch, v2, cancelled>>
        /\ \E p \in {"reading", "asking", "done"} : pc' = [pc EXCEPT ![r] = p]
    BY <1>5 DEF Ask, ReadStore, inputs, v2Vars
  <2>2. pc' \in [Requests -> Places] /\ pc'[r] \in {"reading", "asking", "done"}
        /\ \A q \in Requests \ {r} : pc'[q] = pc[q]
    BY <1>0, <2>1 DEF Places
  <2> QED
    BY <1>0, <2>1, <2>2 DEF Waits, ResolverInv, SameKey, Places
<1>6. ASSUME NEW r \in Requests, Join(r) PROVE Waits'
  <2>1. PICK o \in inflight :
          /\ SameKey(r, o) /\ pc[r] = "asking"
          /\ UNCHANGED <<mode, inflight, fetch, v2, cancelled>>
          /\ \/ pc' = [pc EXCEPT ![r] = "done"] /\ joined' = joined
             \/ pc[o] # "saving" /\ pc' = [pc EXCEPT ![r] = "joined"] /\ joined' = [joined EXCEPT ![r] = o]
    BY <1>6 DEF Join, inputs, v2Vars
  <2>2. o \in Requests /\ o # r /\ o \notin Signalled /\ pc[o] \in {"running", "saving"}
    BY <1>0, <2>1 DEF SameKey
  <2>3. CASE pc' = [pc EXCEPT ![r] = "done"] /\ joined' = joined
    BY <1>0, <2>1, <2>2, <2>3 DEF Waits, ResolverInv, SameKey, Places
  <2>4. CASE pc[o] # "saving" /\ pc' = [pc EXCEPT ![r] = "joined"] /\ joined' = [joined EXCEPT ![r] = o]
    BY <1>0, <2>1, <2>2, <2>4 DEF Waits, ResolverInv, SameKey, Places
  <2> QED
    BY <2>1, <2>3, <2>4
<1>7. ASSUME NEW r \in Requests, Start(r) PROVE Waits'
  <2>1. /\ pc[r] = "asking" /\ \A o \in inflight : ~SameKey(r, o)
        /\ pc' = [pc EXCEPT ![r] = "running"] /\ inflight' = inflight \cup {r}
        /\ fetch' = [fetch EXCEPT ![r] = [s \in Sources |-> FirstState(r, s)]]
        /\ v2' = IF ~v2Cached /\ r \notin cancelled /\ v2 = None THEN r ELSE v2
        /\ UNCHANGED <<mode, joined, cancelled>>
    BY <1>7 DEF Start, inputs
  <2>2. fetch'[r]["sourcify"] = "riding" => v2 # None
    BY <1>0, <2>1 DEF FirstState
  <2>3. \A q \in Requests \ {r} : pc'[q] = pc[q] /\ fetch'[q] = fetch[q]
    BY <1>0, <2>1
  <2>4. \A q, o \in inflight' : SameKey(q, o) => q = o
    BY <1>0, <2>1 DEF SameKey
  <2>5. inflight' = {q \in Requests : pc'[q] \in {"running", "saving"}} /\ pc' \in [Requests -> Places]
    BY <1>0, <2>1, <2>3 DEF Places
  <2> QED
    BY <1>0, <2>1, <2>2, <2>3, <2>4, <2>5 DEF Waits, ResolverInv, SameKey, Places
<1>8. ASSUME NEW r \in Requests, FromV2Cache(r) \/ RepoAnswers(r) PROVE Waits'
  BY <1>2, <1>8 DEF FromV2Cache, RepoAnswers, Gets, Loses, inputs, v2Vars
<1>9. ASSUME NEW r \in Requests, NEW s \in Sources, Answer(r, s) \/ TimesOut(r, s) PROVE Waits'
  BY <1>2, <1>9 DEF Answer, TimesOut, Gets, Loses, inputs, v2Vars
<1>10. ASSUME NEW r \in Requests, Cancel(r) PROVE Waits'
  <2>1. UNCHANGED <<mode, pc, inflight, joined>> /\ cancelled' = cancelled \cup {r}
    BY <1>10 DEF Cancel, inputs
  <2>2. CASE UNCHANGED <<fetch, v2>> /\ pc[r] \notin {"running", "saving", "done"}
    BY <1>0, <2>1, <2>2 DEF Waits, ResolverInv, SameKey, Places
  <2>3. CASE fetch' = AfterAbort(r) /\ v2' = IF v2 = r THEN None ELSE v2
    <3>1. \A q \in Requests : pc[q] = "running" /\ fetch'[q]["sourcify"] = "riding" => v2' # None
      BY <1>0, <2>3, AbortEffect
    <3> QED
      BY <1>0, <2>1, <2>3, <3>1 DEF Waits, ResolverInv, SameKey, Places
  <2> QED
    BY <1>10, <2>2, <2>3 DEF Cancel, Abort
<1>11. ASSUME NEW r \in Requests, Finish(r) PROVE Waits'
  <2> DEFINE told == {q \in Requests : pc[q] = "joined" /\ joined[q] = r} \cup {r}
  <2>1. /\ pc[r] = "running" /\ UNCHANGED <<mode, cancelled>>
        /\ pc' = [q \in Requests |-> IF q = r /\ best[r] # None THEN "saving"
                                     ELSE IF q \in told THEN "done" ELSE pc[q]]
        /\ joined' = [q \in Requests |-> IF q \in told THEN None ELSE joined[q]]
        /\ inflight' = IF best[r] = None THEN inflight \ {r} ELSE inflight
        /\ v2' = IF v2 = r /\ mode[r] = "speed" THEN None ELSE v2
    BY <1>11 DEF Finish, Ready, inputs
  <2>2. \A q \in Requests : pc'[q] = "running" /\ fetch'[q]["sourcify"] = "riding" => v2' # None
    <3>1. SUFFICES ASSUME NEW q \in Requests \ {r}, pc[q] = "running", fetch'[q]["sourcify"] = "riding"
                   PROVE  v2' # None
      BY <2>1
    <3>2. fetch'[q] = (IF mode[r] = "speed" THEN AfterAbort(r) ELSE fetch)[q]
      BY <1>0, <1>11, AbortEffect DEF Finish
    <3> QED
      BY <1>0, <2>1, <3>1, <3>2, AbortEffect
  <2>3. pc'[r] \in {"saving", "done"} /\ (pc'[r] = "saving" <=> best[r] # None)
        /\ \A q \in Requests \ {r} : pc'[q] = IF pc[q] = "joined" /\ joined[q] = r THEN "done" ELSE pc[q]
    BY <2>1
  <2>4. inflight' = {q \in Requests : pc'[q] \in {"running", "saving"}} /\ pc' \in [Requests -> Places]
    BY <1>0, <2>1, <2>3 DEF Places
  <2>5. \A q, o \in inflight' : SameKey(q, o) => q = o
    BY <1>0, <2>1
  <2>6. \A q \in Requests : pc'[q] = "joined" =>
          joined'[q] \in inflight' \ Signalled /\ pc'[joined'[q]] = "running"
    <3>1. SUFFICES ASSUME NEW q \in Requests, pc'[q] = "joined"
                   PROVE  joined'[q] \in inflight' \ Signalled /\ pc'[joined'[q]] = "running"
      OBVIOUS
    <3>2. q # r /\ pc[q] = "joined" /\ joined[q] # r /\ joined'[q] = joined[q]
      BY <2>1, <2>3, <3>1
    <3> QED
      BY <1>0, <2>1, <2>3, <3>2
  <2>7. v2' # None => v2' \notin cancelled' /\ pc'[v2'] \in {"running", "saving", "done"}
    BY <1>0, <2>1, <2>3
  <2> QED
    BY <2>1, <2>2, <2>4, <2>5, <2>6, <2>7 DEF Waits, ResolverInv, SameKey, Places
<1>12. ASSUME NEW r \in Requests, Save(r) PROVE Waits'
  <2>1. /\ pc[r] = "saving" /\ pc' = [pc EXCEPT ![r] = "done"] /\ inflight' = inflight \ {r}
        /\ UNCHANGED <<mode, joined, fetch, v2, cancelled>>
    BY <1>12 DEF Save, inputs, v2Vars
  <2>2. pc' \in [Requests -> Places] /\ pc'[r] = "done" /\ \A q \in Requests \ {r} : pc'[q] = pc[q]
    BY <1>0, <2>1 DEF Places
  <2> QED
    BY <1>0, <2>1, <2>2 DEF Waits, ResolverInv, SameKey, Places
<1>13. ASSUME UNCHANGED resolverVars PROVE Waits'
  BY <1>0, <1>1, <1>13 DEF resolverVars, inputs, runVars, v2Vars
<1> QED
  BY <1>3, <1>4, <1>5, <1>6, <1>7, <1>8, <1>9, <1>10, <1>11, <1>12, <1>13 DEF Next

-----------------------------------------------------------------------------
\* Every step keeps Honest: an abort, or the end of a shared call, sends the
\* others to the repository instead of ending their fetch.
LEMMA HonestStep == Typed /\ Waits /\ Honest /\ [Next]_resolverVars => Honest'
<1> SUFFICES ASSUME Typed, Waits, Honest, [Next]_resolverVars PROVE Honest'
  OBVIOUS
<1> USE ResolverAssumption
<1>0. /\ pc \in [Requests -> Places] /\ fetch \in [Requests -> [Sources -> Fetches]]
      /\ best \in [Requests -> Entries] /\ lost \in [Requests -> SUBSET Sources] /\ has \subseteq Sources
      /\ v2 \in Requests \cup {None} /\ cancelled \subseteq Signalled
      /\ memory \in Entries /\ store \in Entries
      /\ \A r \in Requests : pc[r] = "joined" => pc[joined[r]] = "running" /\ joined[r] \in Requests \ Signalled
      /\ v2 # None => v2 \notin cancelled
  BY DEF Typed, Waits, ResolverInv
\* what holds of a request, whatever the others do
<1> DEFINE Own(r) ==
             /\ pc[r] = "saving" => best[r] # None
             /\ r \notin cancelled /\ pc[r] = "running" /\ best[r] = None =>
                  \A s \in has : s \in lost[r] \/ fetch[r][s] \in InFlight
             /\ r \notin cancelled /\ pc[r] = "done" /\ best[r] = None => has \subseteq lost[r]
<1>1. Honest <=> \A r \in Requests : Own(r)
  BY DEF Honest, NotFoundIsHonest
<1>2. Honest' <=> \A r \in Requests : Own(r)'
  BY DEF Honest, NotFoundIsHonest
<1> HIDE DEF Own
<1>3. ASSUME NEW r \in Requests, has' = has, cancelled \subseteq cancelled',
             pc'[r] = pc[r], best'[r] = best[r], lost'[r] = lost[r],
             \A s \in Sources : fetch[r][s] \in InFlight /\ r \notin cancelled' => fetch'[r][s] \in InFlight
      PROVE  Own(r)'
  BY <1>0, <1>1, <1>3 DEF Own
<1>4. ASSUME NEW r \in Requests, UNCHANGED <<has, cancelled, pc, lost>>, fetch'[r] = fetch[r], best'[r] = best[r]
      PROVE  Own(r)'
  BY <1>3, <1>4
<1>5. CASE Touch \/ Clear \/ ClearStore \/ Expire \/ UNCHANGED resolverVars
  BY <1>2, <1>4, <1>5 DEF Touch, Clear, ClearStore, Expire, resolverVars, inputs, runVars
<1>6. CASE V2Answers
  <2>1. UNCHANGED <<has, cancelled, pc, lost>>
    BY <1>6 DEF V2Answers, inputs
  <2>2. CASE fetch' = V2Nothing(fetch, cancelled) /\ best' = best
    <3>1. ASSUME NEW r \in Requests PROVE Own(r)'
      <4>1. \A s \in Sources : fetch[r][s] \in InFlight /\ r \notin cancelled => fetch'[r][s] \in InFlight
        <5> DEFINE new == V2Nothing(fetch, cancelled)
        <5>1. /\ r \notin OnV2 => new[r] = fetch[r]
              /\ r \in OnV2 => /\ new[r]["sourcify"] = IF r \in cancelled THEN "over" ELSE "repo"
                               /\ \A s \in Sources \ {"sourcify"} : new[r][s] = fetch[r][s]
          BY <1>0, V2NothingEffect
        <5> HIDE DEF new
        <5>2. fetch' = new
          BY <2>2 DEF new
        <5> QED
          BY <5>1, <5>2 DEF InFlight
      <4> QED
        BY <1>3, <2>1, <2>2, <4>1
    <3> QED
      BY <1>2, <3>1
  <2>3. CASE /\ fetch' = [r \in Requests |-> IF r \notin OnV2 THEN fetch[r]
                                            ELSE [fetch[r] EXCEPT !["sourcify"] = "over"]]
             /\ best' = [r \in Requests |-> IF r \in OnV2 \ cancelled THEN Better(Offer["sourcify"], r) ELSE best[r]]
    <3>1. ASSUME NEW r \in Requests PROVE Own(r)'
      <4>1. CASE r \in OnV2 \ cancelled
        <5>1. best'[r] # None /\ pc[r] = "running"
          BY <2>3, <4>1, BetterIsSome, OffersAreSome DEF OnV2
        <5> QED
          BY <2>1, <5>1 DEF Own
      <4>2. CASE r \in OnV2 /\ r \in cancelled
        BY <1>0, <1>1, <2>1, <2>3, <4>2 DEF Own, OnV2
      <4>3. CASE r \notin OnV2
        BY <1>4, <2>1, <2>3, <4>3
      <4> QED
        BY <4>1, <4>2, <4>3
    <3> QED
      BY <1>2, <3>1
  <2> QED
    BY <1>6, <2>2, <2>3 DEF V2Answers
<1>7. ASSUME NEW r \in Requests,
             UNCHANGED <<has, cancelled, lost, fetch>>, \A q \in Requests \ {r} : pc'[q] = pc[q] /\ best'[q] = best[q],
             pc'[r] \in {"reading", "asking"} \/ (pc'[r] = "done" /\ best'[r] # None)
      PROVE  Honest'
  <2>1. Own(r)'
    BY <1>7 DEF Own
  <2>2. \A q \in Requests \ {r} : Own(q)'
    BY <1>3, <1>7
  <2> QED
    BY <1>2, <2>1, <2>2
<1>8. ASSUME NEW r \in Requests, Ask(r) PROVE Honest'
  BY <1>0, <1>7, <1>8 DEF Ask, Serves, inputs, v2Vars
<1>9. ASSUME NEW r \in Requests, ReadStore(r) PROVE Honest'
  BY <1>0, <1>7, <1>9 DEF ReadStore, Serves, inputs, v2Vars
<1>10. ASSUME NEW r \in Requests, Join(r) PROVE Honest'
  <2>1. PICK o \in inflight :
          /\ UNCHANGED <<has, cancelled, fetch>>
          /\ \/ /\ pc[o] = "saving" /\ pc' = [pc EXCEPT ![r] = "done"]
                /\ best' = [best EXCEPT ![r] = best[o]] /\ lost' = [lost EXCEPT ![r] = lost[o]]
             \/ pc' = [pc EXCEPT ![r] = "joined"] /\ UNCHANGED <<best, lost>>
    BY <1>10 DEF Join, inputs
  <2>2. o \in Requests
    BY DEF Waits, ResolverInv
  <2>3. Own(r)'
    BY <1>0, <1>1, <2>1, <2>2 DEF Own
  <2>4. \A q \in Requests \ {r} : pc'[q] = pc[q] /\ best'[q] = best[q] /\ lost'[q] = lost[q]
    BY <1>0, <2>1
  <2>5. \A q \in Requests \ {r} : Own(q)'
    BY <1>3, <2>1, <2>4
  <2> QED
    BY <1>2, <2>3, <2>5
<1>11. ASSUME NEW r \in Requests, Start(r) PROVE Honest'
  <2>1. /\ pc' = [pc EXCEPT ![r] = "running"] /\ UNCHANGED <<has, best, lost, cancelled>>
        /\ fetch' = [fetch EXCEPT ![r] = [s \in Sources |-> FirstState(r, s)]]
    BY <1>11 DEF Start, inputs
  <2>2. r \notin cancelled => \A s \in Sources : FirstState(r, s) \in InFlight
    BY DEF FirstState, InFlight
  <2>3. Own(r)'
    BY <1>0, <2>1, <2>2 DEF Own
  <2>4. \A q \in Requests \ {r} : pc'[q] = pc[q] /\ fetch'[q] = fetch[q]
    BY <1>0, <2>1
  <2>5. \A q \in Requests \ {r} : Own(q)'
    BY <1>3, <2>1, <2>4
  <2> QED
    BY <1>2, <2>3, <2>5
<1>12. ASSUME NEW r \in Requests, NEW s \in Sources, pc[r] = "running", UNCHANGED <<has, cancelled, pc>>,
              Loses(r, s) \/ \E offer \in Entries \ {None} : Gets(r, s, offer)
       PROVE  Honest'
  <2>1. fetch' = [fetch EXCEPT ![r][s] = "over"]
    BY <1>12 DEF Loses, Gets
  <2>2. \A q \in Requests \ {r} : fetch'[q] = fetch[q] /\ best'[q] = best[q] /\ lost'[q] = lost[q]
    BY <1>0, <1>12, <2>1 DEF Loses, Gets
  <2>3. Own(r)'
    <3>1. CASE Loses(r, s)
      <4>1. best' = best /\ lost'[r] = lost[r] \cup {s}
            /\ \A t \in Sources \ {s} : fetch'[r][t] = fetch[r][t]
        BY <1>0, <2>1, <3>1 DEF Loses
      <4> QED
        BY <1>0, <1>1, <1>12, <4>1 DEF Own
    <3>2. ASSUME NEW offer \in Entries \ {None}, Gets(r, s, offer) PROVE Own(r)'
      <4>1. best'[r] # None
        BY <1>0, <3>2, BetterIsSome DEF Gets
      <4> QED
        BY <1>12, <4>1 DEF Own
    <3> QED
      BY <1>12, <3>1, <3>2
  <2>4. \A q \in Requests \ {r} : Own(q)'
    BY <1>3, <1>12, <2>2
  <2> QED
    BY <1>2, <2>3, <2>4
<1>13. ASSUME NEW r \in Requests, FromV2Cache(r) \/ RepoAnswers(r) PROVE Honest'
  BY <1>12, <1>13, OffersAreSome DEF FromV2Cache, RepoAnswers, inputs
<1>14. ASSUME NEW r \in Requests, NEW s \in Sources, Answer(r, s) \/ TimesOut(r, s) PROVE Honest'
  BY <1>12, <1>14, OffersAreSome DEF Answer, TimesOut, inputs
<1>15. ASSUME NEW r \in Requests, NEW q \in Requests \ {r}, NEW s \in Sources,
              q \notin cancelled, fetch[q][s] \in InFlight
       PROVE  AfterAbort(r)[q][s] \in InFlight
  BY <1>15, AbortEffect DEF InFlight
<1>16. ASSUME NEW r \in Requests, Cancel(r) PROVE Honest'
  <2>1. /\ UNCHANGED <<has, pc, best, lost>> /\ cancelled' = cancelled \cup {r}
        /\ fetch' = AfterAbort(r) \/ fetch' = fetch
    BY <1>16 DEF Cancel, Abort, inputs
  <2>2. \A q \in Requests, s \in Sources :
           fetch[q][s] \in InFlight /\ q \notin cancelled' => fetch'[q][s] \in InFlight
    BY <1>15, <2>1
  <2> QED
    BY <1>2, <1>3, <2>1, <2>2
<1>17. ASSUME NEW r \in Requests, Finish(r) PROVE Honest'
  <2> DEFINE told == {q \in Requests : pc[q] = "joined" /\ joined[q] = r} \cup {r}
  <2>1. /\ Ready(r) /\ UNCHANGED <<has, cancelled>>
        /\ pc' = [q \in Requests |-> IF q = r /\ best[r] # None THEN "saving"
                                     ELSE IF q \in told THEN "done" ELSE pc[q]]
        /\ best' = [q \in Requests |-> IF q \in told THEN best[r] ELSE best[q]]
        /\ lost' = [q \in Requests |-> IF q \in told THEN (IF best[r] = None THEN lost[r] ELSE {}) ELSE lost[q]]
    BY <1>17 DEF Finish, inputs
  <2>2. best[r] = None /\ r \notin cancelled => has \subseteq lost[r]
    <3>1. SUFFICES ASSUME best[r] = None, r \notin cancelled PROVE has \subseteq lost[r]
      OBVIOUS
    <3>2. pc[r] = "running" /\ \A s \in Sources : fetch[r][s] \notin InFlight
      BY <2>1, <3>1 DEF Ready, Settled
    <3> QED
      BY <1>0, <1>1, <3>1, <3>2 DEF Own
  <2>3. ASSUME NEW q \in told PROVE Own(q)'
    <3>1. q \in Requests /\ best'[q] = best[r] /\ (best[r] = None => lost'[q] = lost[r])
          /\ pc'[q] \in {"saving", "done"} /\ (pc'[q] = "saving" => best[r] # None)
      BY <2>1
    <3>2. q # r => r \notin cancelled
      BY <1>0
    <3> QED
      BY <2>1, <2>2, <3>1, <3>2 DEF Own
  <2>4. ASSUME NEW q \in Requests \ told PROVE Own(q)'
    <3>1. pc'[q] = pc[q] /\ best'[q] = best[q] /\ lost'[q] = lost[q] /\ q # r
      BY <2>1
    <3>2. fetch'[q] = (IF mode[r] = "speed" THEN AfterAbort(r) ELSE fetch)[q]
      BY <1>0, <1>17, <3>1, AbortEffect DEF Finish
    <3>3. \A s \in Sources : fetch[q][s] \in InFlight /\ q \notin cancelled => fetch'[q][s] \in InFlight
      BY <1>15, <3>1, <3>2
    <3> QED
      BY <1>3, <2>1, <3>1, <3>3
  <2> QED
    BY <1>2, <2>3, <2>4
<1>18. ASSUME NEW r \in Requests, Save(r) PROVE Honest'
  <2>1. /\ pc[r] = "saving" /\ pc' = [pc EXCEPT ![r] = "done"]
        /\ UNCHANGED <<has, fetch, best, lost, cancelled>>
    BY <1>18 DEF Save, inputs
  <2>2. Own(r)'
    BY <1>0, <1>1, <2>1 DEF Own
  <2>3. \A q \in Requests \ {r} : pc'[q] = pc[q]
    BY <1>0, <2>1
  <2>4. \A q \in Requests \ {r} : Own(q)'
    BY <1>3, <2>1, <2>3
  <2> QED
    BY <1>2, <2>2, <2>4
<1> QED
  BY <1>5, <1>6, <1>8, <1>9, <1>10, <1>11, <1>13, <1>14, <1>16, <1>17, <1>18 DEF Next

-----------------------------------------------------------------------------
\* The three parts are inductive together.
THEOREM ResolverInductive == Spec => [](Typed /\ Waits /\ Honest)
<1>1. Init => Typed /\ Waits /\ Honest
  BY InitResolver
<1>2. Typed /\ Waits /\ Honest /\ [Next]_resolverVars => (Typed /\ Waits /\ Honest)'
  BY TypedStep, WaitsStep, HonestStep DEF Waits
<1> QED
  BY <1>1, <1>2, PTL DEF Spec

\* Whoever waits, waits for something that is under way (ContractResolver.ts:146-156).
THEOREM ResolverWaitsForSomething == Spec => []ResolverInv
<1>1. Waits => ResolverInv
  BY DEF Waits
<1> QED
  BY <1>1, ResolverInductive, PTL

\* Not found is told only when every source that has an ABI failed the
\* resolution itself (ContractResolver.ts:117, sourcify.ts:175).
THEOREM NotFoundIsTrue == Spec => []NotFoundIsHonest
<1>1. Honest => NotFoundIsHonest
  BY DEF Honest
<1> QED
  BY <1>1, ResolverInductive, PTL
=============================================================================
