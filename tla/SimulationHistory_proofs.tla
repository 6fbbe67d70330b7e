----------------------- MODULE SimulationHistory_proofs -----------------------
(***************************************************************************)
(* For every set of saves, persisted traces, ids and every limit: the list  *)
(* in memory is the list of the store, rows with internal info stay         *)
(* loadable, pruning takes the oldest records, and the history exceeds its *)
(* limit only by saves that have not pruned.                               *)
(***************************************************************************)
EXTENDS SimulationHistory, FiniteSetTheorems, WellFoundedInduction, TLAPS

Rows == Decodes \cup {NoRows}
Records == [run : Runs, at : Nat, rows : Rows]

\* What a step may rely on: the stores are functions, of records and rows.
HInv ==
  /\ clock \in Nat
  /\ save \in [Runs -> {"off", "count", "list", "done"}]
  /\ Stored \subseteq Ids /\ db \in [Stored -> Records]
  /\ \A i \in Stored : IdOf[db[i].run] = i /\ db[i].at < clock
  /\ DOMAIN vault \subseteq Ids /\ vault \in [DOMAIN vault -> Rows]
  /\ metaCache = NoCache \/ metaCache = Stored

-----------------------------------------------------------------------------
\* The empty stores satisfy the invariant.
LEMMA InitHolds == HistInit => HInv
<1> SUFFICES ASSUME HistInit PROVE HInv
  OBVIOUS
<1>1. DOMAIN db = {} /\ DOMAIN vault = {}
  BY DEF HistInit
<1>2. db = [i \in {} |-> i] /\ vault = [i \in {} |-> i]
  BY DEF HistInit
<1> QED
  BY <1>1, <1>2 DEF HistInit, HInv, Stored

\* Every step keeps it, whatever other calls are half way.
LEMMA StepHolds == HInv /\ [Next]_histVars => HInv'
<1> SUFFICES ASSUME HInv, [Next]_histVars PROVE HInv'
  OBVIOUS
<1> USE DecodesAssumption, BoundsAssumption
<1>1. ASSUME NEW r \in Runs, Put(r) PROVE HInv'
  <2> DEFINE i == IdOf[r]
             n == [run |-> r, at |-> clock, rows |-> NoRows]
  <2>1. i \in Ids /\ n \in Records
    BY DEF HInv, Records, Rows
  <2>2. db' = [j \in Stored \cup {i} |-> IF j = i THEN n ELSE db[j]]
    BY <1>1 DEF Put
  <2>3. Stored' = Stored \cup {i}
    BY <2>2 DEF Stored
  <2>4. db' \in [Stored' -> Records]
    BY <2>1, <2>2, <2>3 DEF HInv
  <2>5. clock' = clock + 1 /\ vault' = vault
        /\ save' = [save EXCEPT ![r] = "count"]
        /\ metaCache' = IF metaCache = NoCache THEN NoCache ELSE metaCache \cup {i}
    BY <1>1 DEF Put
  <2>6. \A j \in Stored' : IdOf[db'[j].run] = j /\ db'[j].at < clock'
    <3> TAKE j \in Stored'
    <3>1. CASE j = i
      BY <2>2, <2>3, <2>5, <3>1 DEF HInv
    <3>2. CASE j # i
      <4>1. j \in Stored /\ db'[j] = db[j]
        BY <2>2, <2>3, <3>2
      <4>2. db[j].at \in Nat /\ db[j].at < clock
        BY <4>1 DEF HInv, Records
      <4> QED
        BY <2>5, <4>1, <4>2 DEF HInv
    <3> QED
      BY <3>1, <3>2
  <2> HIDE DEF i, n
  <2> QED
    BY <2>1, <2>3, <2>4, <2>5, <2>6 DEF HInv
<1>2. ASSUME NEW r \in Runs, PutFails(r) \/ CountRecords(r) \/ ListOldest(r) PROVE HInv'
  <2>1. UNCHANGED <<db, vault, metaCache, clock>>
    BY <1>2 DEF PutFails, CountRecords, ListOldest
  <2>2. save' \in [Runs -> {"off", "count", "list", "done"}]
    BY <1>2 DEF PutFails, CountRecords, ListOldest, HInv
  <2> QED
    BY <2>1, <2>2 DEF HInv, Stored
<1>3. ASSUME UNCHANGED <<storeVars, vault, clock, save>> PROVE HInv'
  BY <1>3 DEF HInv, storeVars, Stored
<1>4. ASSUME NEW ids \in SUBSET Ids \ {{}}, UserDeletes(ids) PROVE HInv'
  BY <1>3, <1>4 DEF UserDeletes, calls
<1>5. ASSUME UNCHANGED <<clock, save, storeVars>>,
             DOMAIN vault' \subseteq Ids /\ vault' \in [DOMAIN vault' -> Rows]
      PROVE  HInv'
  BY <1>5 DEF HInv, storeVars, Stored
<1>6. ASSUME NEW S, UNCHANGED <<clock, save, vault>>, db' = Without(db, S),
             metaCache' = NoCache \/ metaCache' = (IF metaCache = NoCache THEN NoCache ELSE metaCache \ S)
      PROVE  HInv'
  <2>1. db' = [i \in Stored \ S |-> db[i]] /\ Stored' = Stored \ S
    BY <1>6 DEF Stored, Without, Restrict
  <2> QED
    BY <1>6, <2>1 DEF HInv
<1>7. ASSUME NEW j \in Droppers, DropRecords(j) PROVE HInv'
  BY <1>6, <1>7 DEF DropRecords
<1>8. ASSUME NEW j \in Droppers, NEW i \in Ids, DropTrace(j, i) PROVE HInv'
  <2>1. UNCHANGED <<clock, save, storeVars>>
    BY <1>8 DEF DropTrace, saveVars, calls
  <2>2. vault' = vault \/ vault' = [k \in DOMAIN vault \ {i} |-> vault[k]]
    BY <1>8 DEF DropTrace, Without, Restrict
  <2> QED
    BY <1>5, <2>1, <2>2 DEF HInv
<1>9. ASSUME ClearRecords PROVE HInv'
  BY <1>6, <1>9 DEF ClearRecords, calls, HInv
<1>10. ASSUME ClearTraces PROVE HInv'
  <2>1. UNCHANGED <<clock, save, storeVars>>
    BY <1>10 DEF ClearTraces, calls
  <2>2. vault' = [k \in DOMAIN vault \ DOMAIN vault |-> vault[k]]
    BY <1>10 DEF ClearTraces, Without, Restrict
  <2> QED
    BY <1>5, <2>1, <2>2
<1>11. ASSUME List PROVE HInv'
  BY <1>11 DEF List, HInv, Stored, saveVars, calls
<1>12. ASSUME NEW p \in Persists, PersistStep(p) \/ BeginPersist(p) PROVE HInv'
  <2> DEFINE i == IdDecoded[p]
  <2>1. i \in Ids /\ Decoded[p] \in Decodes
    BY DEF Decodes
  <2>2. Opened(i) \in [DOMAIN Opened(i) -> Rows] /\ DOMAIN Opened(i) \subseteq Ids
    BY <2>1 DEF Opened, InVault, HInv, Rows
  <2>3. CASE ReadExisting(p) \/ OpenTrace(p)
    BY <1>5, <2>2, <2>3 DEF ReadExisting, OpenTrace, saveVars, calls
  <2>4. CASE BeginPersist(p) \/ ReadFails(p) \/ WriteRest(p) \/ TryAgain(p)
    BY <1>3, <2>4 DEF BeginPersist, ReadFails, WriteRest, TryAgain, saveVars, calls
  <2>5. CASE WriteLite(p)
    <3>1. UNCHANGED <<clock, save, storeVars>>
      BY <2>5 DEF WriteLite, saveVars, calls
    <3>2. vault' = vault \/ vault' = [vault EXCEPT ![i] = Decoded[p]]
      BY <2>5 DEF WriteLite
    <3>3. DOMAIN vault' \subseteq Ids /\ vault' \in [DOMAIN vault' -> Rows]
      BY <2>1, <3>2 DEF HInv, Rows
    <3> QED
      BY <1>5, <3>1, <3>3
  <2>6. CASE UpdateRows(p)
    <3>1. i \in Stored /\ UNCHANGED <<vault, metaCache, clock, save>>
      BY <2>6 DEF UpdateRows, saveVars, calls
    <3>2. PICK new \in Rows : db' = [db EXCEPT ![i].rows = new]
      <4>1. db[i].rows \in Rows /\ Decoded[p] \in Rows
        BY <2>1, <3>1 DEF HInv, Records, Rows
      <4> QED
        BY <2>6, <4>1 DEF UpdateRows
    <3>3. Stored' = Stored
      BY <3>2 DEF HInv, Stored
    <3>4. /\ db'[i] = [db[i] EXCEPT !.rows = new]
          /\ \A k \in Stored \ {i} : db'[k] = db[k]
      BY <3>1, <3>2 DEF HInv
    <3>5. db[i] \in Records
      BY <3>1 DEF HInv
    <3>6. db'[i] \in Records /\ db'[i].run = db[i].run /\ db'[i].at = db[i].at
      BY <3>2, <3>4, <3>5 DEF Records
    <3>7. db' \in [Stored' -> Records]
      BY <3>2, <3>3, <3>4, <3>6 DEF HInv
    <3>8. \A k \in Stored' : IdOf[db'[k].run] = k /\ db'[k].at < clock'
      <4> TAKE k \in Stored'
      <4>1. k \in Stored /\ IdOf[db[k].run] = k /\ db[k].at < clock /\ clock' = clock
        BY <3>1, <3>3 DEF HInv
      <4>2. db'[k].run = db[k].run /\ db'[k].at = db[k].at
        BY <3>4, <3>6, <4>1
      <4> QED
        BY <4>1, <4>2
    <3> QED
      BY <3>1, <3>3, <3>7, <3>8 DEF HInv
  <2> QED
    BY <1>12, <2>3, <2>4, <2>5, <2>6 DEF PersistStep
<1>13. ASSUME Crash PROVE HInv'
  <2>1. UNCHANGED <<db, vault, clock>> /\ metaCache' = NoCache
    BY <1>13 DEF Crash
  <2>2. save' \in [Runs -> {"off", "count", "list", "done"}]
    BY <1>13 DEF Crash
  <2> QED
    BY <2>1, <2>2 DEF HInv, Stored
<1>14. ASSUME UNCHANGED histVars PROVE HInv'
  BY <1>3, <1>14 DEF histVars, storeVars
<1> QED
  BY <1>1, <1>2, <1>4, <1>7, <1>8, <1>9, <1>10, <1>11, <1>12, <1>13, <1>14
  DEF Next, SaveStep, DropStep

-----------------------------------------------------------------------------
\* The conjunction is inductive, so it holds of every behaviour.
THEOREM HistoryInductive == Spec => []HInv
<1>1. HistInit => HInv
  BY InitHolds
<1>2. HInv /\ [Next]_histVars => HInv'
  BY StepHolds
<1> QED
  BY <1>1, <1>2, PTL DEF Spec

-----------------------------------------------------------------------------
\* The vault of an id of `rich' has rows with internal info and no stripped
\* call may still write; the record of an id of `kept' has such rows.
RichInv ==
  /\ kept \subseteq rich /\ rich \subseteq Ids
  /\ persist \in [Persists -> [pc : {"off", "read", "open", "lite", "rest", "update", "over"}, tries : Nat]]
  /\ \A i \in rich : i \in DOMAIN vault /\ internalInfoCount(vault[i]) > 0 /\ Stale(i) = {}
  /\ \A i \in kept : i \in Stored /\ internalInfoCount(db[i].rows) > 0

\* The counts of rows, of none too, are numbers, and those of
\* summarizeTraceRows that speak of internal info are part of it.
LEMMA RowCounts ==
  ASSUME NEW rows \in Rows
  PROVE  /\ summarizeTraceRows(rows) \in
              [rows : Nat, jumps : Nat, internals : Nat, parents : Nat, mapped : Nat, info : Nat]
         /\ internalInfoCount(rows) \in Nat /\ Counted(rows) \in Nat
         /\ Counted(rows) > 0 => internalInfoCount(rows) > 0
<1>1. PICK s : s = summarizeTraceRows(rows)
  OBVIOUS
<1>2. /\ s \in [rows : Nat, jumps : Nat, internals : Nat, parents : Nat, mapped : Nat, info : Nat]
      /\ s.jumps <= s.info /\ s.internals <= s.info /\ s.parents <= s.info
  BY <1>1, DecodesAssumption DEF Rows, summarizeTraceRows
<1>3. Counted(rows) = s.jumps + s.internals + s.parents /\ internalInfoCount(rows) = s.info
  BY <1>1 DEF Counted, internalInfoCount
<1> QED
  BY <1>1, <1>2, <1>3

\* Rows that stay are no worse than the incoming ones in what
\* summarizeTraceRows counts of the internal info.
LEMMA KeepingIsSafe ==
  ASSUME NEW existing \in Rows, NEW incoming \in Rows,
         shouldKeepExistingTraceRows(existing, incoming), Counted(incoming) > 0
  PROVE  internalInfoCount(existing) > 0
<1> DEFINE old == summarizeTraceRows(existing)
           new == summarizeTraceRows(incoming)
<1>1. /\ old \in [rows : Nat, jumps : Nat, internals : Nat, parents : Nat, mapped : Nat, info : Nat]
      /\ new \in [rows : Nat, jumps : Nat, internals : Nat, parents : Nat, mapped : Nat, info : Nat]
  BY RowCounts
<1>2. new.jumps + new.internals + new.parents > 0
  BY DEF Counted
<1>3. new.rows # 0
  <2>1. new.info <= new.rows
    BY DecodesAssumption DEF Rows, summarizeTraceRows
  <2>2. new.info > 0
    BY RowCounts DEF internalInfoCount
  <2> QED
    BY <1>1, <2>1, <2>2
<1>4. new.jumps <= old.jumps /\ new.internals <= old.internals /\ new.parents <= old.parents
  BY <1>3 DEF shouldKeepExistingTraceRows
<1>5. Counted(existing) > 0
  <2>1. old.jumps + old.internals + old.parents > 0
    <3> HIDE DEF old, new
    <3> QED
      BY <1>1, <1>2, <1>4
  <2> QED
    BY <2>1 DEF Counted
<1> QED
  BY <1>5, RowCounts

\* A call that moves, and is not stripped or does not come past its read,
\* adds nothing to the stale calls.
LEMMA StaleMoves ==
  ASSUME RichInv, NEW p \in Persists, NEW i,
         \A q \in Persists \ {p} : persist'[q] = persist[q],
         \/ ~Stripped(p) \/ IdDecoded[p] # i \/ p \in Stale(i)
         \/ persist'[p].pc \notin {"open", "lite", "rest", "update"}
  PROVE  Stale(i)' \subseteq Stale(i)
  BY DEF Stale, Stripped

\* The invariant without its conjunct on the calls depends on these alone.
LEMMA RichRests ==
  ASSUME RichInv, UNCHANGED <<vault, persist, rich>>, kept' \subseteq kept,
         \A i \in kept' : i \in Stored' /\ db'[i].rows = db[i].rows
  PROVE  RichInv'
<1>1. \A i : Stale(i)' = Stale(i)
  BY DEF Stale, Stripped
<1>2. \A i \in rich' : i \in DOMAIN vault' /\ internalInfoCount(vault'[i]) > 0 /\ Stale(i)' = {}
  BY <1>1 DEF RichInv
<1>3. \A i \in kept' : internalInfoCount(db'[i].rows) > 0
  BY DEF RichInv
<1> QED
  BY <1>2, <1>3 DEF RichInv

\* A step of a call of persistDecodedTrace keeps the invariant.
LEMMA PersistStepIsRich ==
  ASSUME HInv, RichInv, NEW p \in Persists, PersistStep(p) \/ BeginPersist(p)
  PROVE  RichInv'
<1> USE DecodesAssumption, BoundsAssumption
<1> DEFINE i == IdDecoded[p]
           Phases == {"off", "read", "open", "lite", "rest", "update", "over"}
<1>1. i \in Ids /\ Decoded[p] \in Decodes /\ Decoded[p] \in Rows
  BY DEF Decodes, Rows
<1>2. ~Stripped(p) => internalInfoCount(Decoded[p]) > 0
  BY <1>1, RowCounts DEF Stripped
\* the phases of the other calls stay, and the own one is known
<1>3. ASSUME NEW c \in Phases, PersistTo(p, c)
      PROVE  /\ persist' \in [Persists -> [pc : Phases, tries : Nat]] /\ persist'[p].pc = c
             /\ \A q \in Persists \ {p} : persist'[q] = persist[q]
  BY <1>3 DEF PersistTo, RichInv
<1>4. ASSUME PersistOver(p)
      PROVE  /\ persist' \in [Persists -> [pc : Phases, tries : Nat]] /\ persist'[p].pc = "over"
             /\ \A q \in Persists \ {p} : persist'[q] = persist[q]
  BY <1>4 DEF PersistOver, RichInv
\* a step that leaves rows and the history alone, and makes no call stale for a rich id
<1>5. ASSUME UNCHANGED <<db, rich, kept>>,
             \A k \in DOMAIN vault : k \in DOMAIN vault' /\ vault'[k] = vault[k],
             persist' \in [Persists -> [pc : Phases, tries : Nat]],
             \A k \in rich : Stale(k)' = {}
      PROVE  RichInv'
  <2>1. \A k \in rich' : k \in DOMAIN vault' /\ internalInfoCount(vault'[k]) > 0 /\ Stale(k)' = {}
    BY <1>5 DEF RichInv
  <2>2. \A k \in kept' : k \in Stored' /\ internalInfoCount(db'[k].rows) > 0
    BY <1>5 DEF RichInv, Stored
  <2> QED
    BY <1>5, <2>1, <2>2 DEF RichInv
<1>6. \A k \in DOMAIN vault : k \in DOMAIN Opened(i) /\ Opened(i)[k] = vault[k]
  BY DEF Opened, InVault
<1>7. CASE BeginPersist(p)
  <2>1. PersistTo(p, "read") /\ UNCHANGED <<db, rich, kept, vault>>
    BY <1>7 DEF BeginPersist, storeVars, richVars
  <2>2. \A k \in rich : Stale(k)' = {}
    BY <1>3, <2>1, StaleMoves DEF RichInv
  <2> QED
    BY <1>3, <1>5, <2>1, <2>2
<1>8. CASE ReadExisting(p)
  <2>1. UNCHANGED <<db, rich, kept>> /\ vault' = Opened(i) /\ (PersistOver(p) \/ PersistTo(p, "open"))
    BY <1>8 DEF ReadExisting, storeVars, richVars
  <2>2. persist' \in [Persists -> [pc : Phases, tries : Nat]]
        /\ \A q \in Persists \ {p} : persist'[q] = persist[q]
    BY <1>3, <1>4, <2>1
  <2>3. \A k \in rich : Stale(k)' = {}
    <3> TAKE k \in rich
    <3>1. Stale(k) = {} /\ k \in DOMAIN vault /\ internalInfoCount(vault[k]) > 0
      BY DEF RichInv
    <3>2. CASE Stripped(p) /\ i = k
      <4>1. InVault(i) = vault[k]
        BY <3>1, <3>2 DEF InVault
      <4>2. PersistOver(p)
        BY <1>8, <3>1, <3>2, <4>1 DEF ReadExisting
      <4> QED
        BY <1>4, <3>1, <4>2, StaleMoves
    <3>3. CASE ~(Stripped(p) /\ i = k)
      BY <2>2, <3>1, <3>3, StaleMoves
    <3> QED
      BY <3>2, <3>3
  <2> QED
    BY <1>5, <1>6, <2>1, <2>2, <2>3
<1>9. CASE ReadFails(p)
  <2>1. /\ UNCHANGED <<db, vault>> /\ PersistTo(p, "open")
        /\ rich' = (IF Stripped(p) THEN rich \ {i} ELSE rich)
        /\ kept' = (IF Stripped(p) THEN kept \ {i} ELSE kept)
    BY <1>9 DEF ReadFails, storeVars
  <2>2. \A k \in rich' : k \in rich /\ Stale(k)' = {}
    <3> TAKE k \in rich'
    <3>1. k \in rich /\ Stale(k) = {} /\ (~Stripped(p) \/ i # k)
      BY <2>1 DEF RichInv
    <3> QED
      BY <1>3, <2>1, <3>1, StaleMoves
  <2>3. \A k \in rich' : k \in DOMAIN vault' /\ internalInfoCount(vault'[k]) > 0
    BY <2>1, <2>2 DEF RichInv
  <2>4. \A k \in kept' : k \in Stored' /\ internalInfoCount(db'[k].rows) > 0
    BY <2>1 DEF RichInv, Stored
  <2>5. kept' \subseteq rich' /\ rich' \subseteq Ids
    BY <2>1 DEF RichInv
  <2> QED
    BY <1>3, <2>1, <2>2, <2>3, <2>4, <2>5 DEF RichInv
\* a call that is past its read stays stale or was none
<1>10. ASSUME persist[p].pc \in {"open", "lite", "rest", "update"}, NEW k,
              \A q \in Persists \ {p} : persist'[q] = persist[q], Stale(k) = {}
       PROVE  Stale(k)' = {}
  <2>1. ~Stripped(p) \/ i # k
    BY <1>10 DEF Stale
  <2> QED
    BY <1>10, <2>1, StaleMoves
<1>11. CASE OpenTrace(p) \/ WriteRest(p) \/ TryAgain(p)
  <2>1. UNCHANGED <<db, rich, kept>> /\ (vault' = vault \/ vault' = Opened(i))
        /\ persist[p].pc \in {"open", "lite", "rest", "update"}
    BY <1>11 DEF OpenTrace, WriteRest, TryAgain, PersistAt, storeVars, richVars
  <2>2. persist' \in [Persists -> [pc : Phases, tries : Nat]]
        /\ \A q \in Persists \ {p} : persist'[q] = persist[q]
    <3>1. CASE OpenTrace(p) \/ WriteRest(p)
      BY <1>3, <1>4, <3>1 DEF OpenTrace, WriteRest
    <3>2. CASE TryAgain(p)
      <4>1. PersistOver(p) \/ persist' = [persist EXCEPT ![p].tries = @ + 1]
        BY <3>2 DEF TryAgain
      <4> QED
        BY <1>4, <4>1 DEF RichInv
    <3> QED
      BY <1>11, <3>1, <3>2
  <2>3. \A k \in rich : Stale(k)' = {}
    BY <1>10, <2>1, <2>2 DEF RichInv
  <2> QED
    BY <1>5, <1>6, <2>1, <2>2, <2>3
<1>12. CASE WriteLite(p)
  <2>1. UNCHANGED <<db, kept>> /\ persist[p].pc = "lite"
    BY <1>12 DEF WriteLite, PersistAt, storeVars
  <2>2. persist' \in [Persists -> [pc : Phases, tries : Nat]]
        /\ \A q \in Persists \ {p} : persist'[q] = persist[q]
    BY <1>3, <1>4, <1>12 DEF WriteLite
  <2>3. CASE i \notin DOMAIN vault
    <3>1. UNCHANGED <<vault, rich>>
      BY <1>12, <2>3 DEF WriteLite
    <3>2. \A k \in rich : Stale(k)' = {}
      BY <1>10, <2>1, <2>2 DEF RichInv
    <3> QED
      BY <1>5, <2>1, <2>2, <3>1, <3>2
  <2>4. CASE i \in DOMAIN vault
    <3>1. /\ vault' = [vault EXCEPT ![i] = Decoded[p]]
          /\ rich' = IF ~Stripped(p) /\ Stale(i) = {} THEN rich \cup {i} ELSE rich
      BY <1>12, <2>4 DEF WriteLite
    <3>2. DOMAIN vault' = DOMAIN vault /\ vault'[i] = Decoded[p]
          /\ \A k \in DOMAIN vault \ {i} : vault'[k] = vault[k]
      BY <2>4, <3>1 DEF HInv
    <3>3. \A k \in rich' : Stale(k) = {} /\ k \in DOMAIN vault /\ (k = i => ~Stripped(p))
      <4> TAKE k \in rich'
      <4>1. CASE k \in rich
        <5>1. Stale(k) = {} /\ k \in DOMAIN vault
          BY <4>1 DEF RichInv
        <5> QED
          BY <2>1, <5>1 DEF Stale
      <4>2. CASE k \notin rich
        BY <2>4, <3>1, <4>2
      <4> QED
        BY <4>1, <4>2
    <3>4. \A k \in rich' : internalInfoCount(vault'[k]) > 0
      <4> TAKE k \in rich'
      <4>1. CASE k = i
        BY <1>2, <3>2, <3>3, <4>1
      <4>2. CASE k # i
        <5>1. k \in rich /\ vault'[k] = vault[k]
          BY <3>1, <3>2, <3>3, <4>2
        <5> QED
          BY <5>1 DEF RichInv
      <4> QED
        BY <4>1, <4>2
    <3>5. \A k \in rich' : Stale(k)' = {}
      BY <1>10, <2>1, <2>2, <3>3
    <3>6. kept' \subseteq rich' /\ rich' \subseteq Ids
      BY <1>1, <2>1, <3>1 DEF RichInv
    <3>7. \A k \in kept' : k \in Stored' /\ internalInfoCount(db'[k].rows) > 0
      BY <2>1 DEF RichInv, Stored
    <3> QED
      BY <2>2, <3>2, <3>3, <3>4, <3>5, <3>6, <3>7 DEF RichInv
  <2> QED
    BY <2>3, <2>4
<1>13. CASE UpdateRows(p)
  <2> DEFINE old == db[i].rows
             after == IF shouldKeepExistingTraceRows(old, Decoded[p]) THEN old ELSE Decoded[p]
             took == i \in rich /\ (Counted(Decoded[p]) > 0 \/ internalInfoCount(after) > 0)
  <2>1. /\ i \in Stored /\ UNCHANGED <<vault, rich>> /\ PersistOver(p) /\ persist[p].pc = "update"
        /\ db' = [db EXCEPT ![i].rows = after] /\ kept' = IF took THEN kept \cup {i} ELSE kept
    BY <1>13 DEF UpdateRows, PersistAt
  <2>2. old \in Rows
    BY <2>1 DEF HInv, Records
  <2>3. i \in rich => ~Stripped(p)
    <3>1. i \in rich => Stale(i) = {}
      BY DEF RichInv
    <3> QED
      BY <2>1, <3>1 DEF Stale
  <2>4. i \in kept' => internalInfoCount(after) > 0
    <3> SUFFICES ASSUME i \in kept' PROVE internalInfoCount(after) > 0
      OBVIOUS
    <3>1. i \in rich /\ (i \in kept \/ took)
      BY <2>1 DEF RichInv
    <3>2. CASE shouldKeepExistingTraceRows(old, Decoded[p])
      <4>1. i \in kept => internalInfoCount(old) > 0
        BY DEF RichInv
      <4>2. Counted(Decoded[p]) > 0 => internalInfoCount(old) > 0
        BY <1>1, <2>2, <3>2, KeepingIsSafe
      <4> QED
        BY <3>1, <3>2, <4>1, <4>2
    <3>3. CASE ~shouldKeepExistingTraceRows(old, Decoded[p])
      BY <1>2, <2>3, <3>1, <3>3
    <3> QED
      BY <3>2, <3>3
  <2> HIDE DEF after, took, old
  <2>5. Stored' = Stored /\ db'[i].rows = after /\ \A k \in Stored \ {i} : db'[k] = db[k]
    <3>1. Stored' = Stored /\ \A k \in Stored \ {i} : db'[k] = db[k]
      BY <2>1 DEF HInv, Stored
    <3>2. db'[i] = [db[i] EXCEPT !.rows = after] /\ db[i] \in Records
      BY <2>1 DEF HInv
    <3> QED
      BY <3>1, <3>2 DEF Records
  <2>6. \A k \in kept' : k \in Stored' /\ internalInfoCount(db'[k].rows) > 0
    <3> TAKE k \in kept'
    <3>1. CASE k = i
      BY <2>1, <2>4, <2>5, <3>1
    <3>2. CASE k # i
      BY <2>1, <2>5, <3>2 DEF RichInv
    <3> QED
      BY <3>1, <3>2
  <2>7. \A k \in rich' : k \in DOMAIN vault' /\ internalInfoCount(vault'[k]) > 0 /\ Stale(k)' = {}
    BY <1>4, <1>10, <2>1 DEF RichInv
  <2>8. kept' \subseteq rich' /\ rich' \subseteq Ids
    BY <2>1 DEF RichInv, took
  <2> QED
    BY <1>4, <2>1, <2>6, <2>7, <2>8 DEF RichInv
<1> QED
  BY <1>7, <1>8, <1>9, <1>11, <1>12, <1>13 DEF PersistStep

\* The other calls delete a trace or a record, or replace a record.
LEMMA StepIsRich == HInv /\ RichInv /\ [Next]_histVars => RichInv'
<1> SUFFICES ASSUME HInv, RichInv, [Next]_histVars PROVE RichInv'
  OBVIOUS
<1> USE BoundsAssumption
<1>1. ASSUME NEW r \in Runs, Put(r) PROVE RichInv'
  <2>1. UNCHANGED <<vault, persist, rich>> /\ kept' = kept \ {IdOf[r]}
    BY <1>1 DEF Put
  <2>2. \A i \in Stored \ {IdOf[r]} : i \in Stored' /\ db'[i] = db[i]
    BY <1>1 DEF Put, Stored
  <2> QED
    BY <2>1, <2>2, RichRests DEF RichInv
<1>2. ASSUME UNCHANGED <<db, vault, persist, richVars>> PROVE RichInv'
  BY <1>2, RichRests DEF RichInv, richVars, Stored
<1>3. ASSUME NEW r \in Runs, PutFails(r) \/ SaveStep(r) PROVE RichInv'
  BY <1>2, <1>3 DEF PutFails, SaveStep, CountRecords, ListOldest
<1>4. ASSUME NEW ids \in SUBSET Ids \ {{}}, UserDeletes(ids) PROVE RichInv'
  BY <1>2, <1>4 DEF UserDeletes, storeVars
<1>5. ASSUME NEW S, db' = Without(db, S), kept' = kept \ S, UNCHANGED <<vault, persist, rich>>
      PROVE  RichInv'
  <2>1. \A i \in Stored \ S : i \in Stored' /\ db'[i] = db[i]
    BY <1>5 DEF Stored, Without, Restrict
  <2> QED
    BY <1>5, <2>1, RichRests DEF RichInv
<1>6. ASSUME NEW j \in Droppers, DropRecords(j) PROVE RichInv'
  BY <1>5, <1>6 DEF DropRecords
<1>7. ASSUME NEW S, vault' = Without(vault, S), rich' = rich \ S, kept' = kept \ S,
             UNCHANGED <<db, persist>>
      PROVE  RichInv'
  <2>1. \A i \in DOMAIN vault \ S : i \in DOMAIN vault' /\ vault'[i] = vault[i]
    BY <1>7 DEF Without, Restrict
  <2>2. \A i : Stale(i)' = Stale(i)
    BY <1>7 DEF Stale, Stripped
  <2>3. \A i \in rich' : i \in DOMAIN vault' /\ internalInfoCount(vault'[i]) > 0 /\ Stale(i)' = {}
    BY <1>7, <2>1, <2>2 DEF RichInv
  <2>4. \A i \in kept' : i \in Stored' /\ internalInfoCount(db'[i].rows) > 0
    BY <1>7 DEF RichInv, Stored
  <2> QED
    BY <1>7, <2>3, <2>4 DEF RichInv
<1>8. ASSUME NEW j \in Droppers, NEW i \in Ids, DropTrace(j, i) PROVE RichInv'
  <2>1. UNCHANGED <<db, persist>>
    BY <1>8 DEF DropTrace, storeVars
  <2>2. CASE vault' = Without(vault, {i}) /\ rich' = rich \ {i} /\ kept' = kept \ {i}
    BY <1>7, <2>1, <2>2
  <2>3. CASE UNCHANGED <<vault, richVars>>
    BY <1>2, <2>1, <2>3
  <2> QED
    BY <1>8, <2>2, <2>3 DEF DropTrace
<1>9. ASSUME ClearRecords PROVE RichInv'
  <2>1. db' = Without(db, Stored) /\ kept' = {} /\ UNCHANGED <<vault, persist, rich>>
    BY <1>9 DEF ClearRecords
  <2>2. kept' = kept \ Stored
    BY <2>1 DEF RichInv
  <2> QED
    BY <1>5, <2>1, <2>2
<1>10. ASSUME ClearTraces PROVE RichInv'
  <2>1. vault' = Without(vault, DOMAIN vault) /\ rich' = {} /\ kept' = {} /\ UNCHANGED <<db, persist>>
    BY <1>10 DEF ClearTraces, storeVars
  <2>2. rich' = rich \ DOMAIN vault /\ kept' = kept \ DOMAIN vault
    BY <2>1 DEF RichInv
  <2> QED
    BY <1>7, <2>1, <2>2
<1>11. ASSUME List PROVE RichInv'
  BY <1>2, <1>11 DEF List
<1>12. ASSUME NEW p \in Persists, PersistStep(p) \/ BeginPersist(p) PROVE RichInv'
  BY <1>12, PersistStepIsRich
<1>13. ASSUME Crash PROVE RichInv'
  <2>1. /\ UNCHANGED <<db, vault, rich, kept>>
        /\ persist' = [p \in Persists |-> IF persist[p].pc = "off" THEN persist[p] ELSE [pc |-> "over", tries |-> 0]]
    BY <1>13 DEF Crash, richVars
  <2>2. persist' \in [Persists -> [pc : {"off", "read", "open", "lite", "rest", "update", "over"}, tries : Nat]]
    BY <2>1 DEF RichInv
  <2>3. \A i : Stale(i)' = {}
    BY <2>1 DEF Stale
  <2>4. \A i \in kept' : i \in Stored' /\ internalInfoCount(db'[i].rows) > 0
    BY <2>1 DEF RichInv, Stored
  <2>5. \A i \in rich' : i \in DOMAIN vault' /\ internalInfoCount(vault'[i]) > 0
    BY <2>1 DEF RichInv
  <2> QED
    BY <2>1, <2>2, <2>3, <2>4, <2>5 DEF RichInv
<1>14. ASSUME UNCHANGED histVars PROVE RichInv'
  BY <1>2, <1>14 DEF histVars, richVars
<1> QED
  BY <1>1, <1>3, <1>4, <1>6, <1>8, <1>9, <1>10, <1>11, <1>12, <1>13, <1>14
  DEF Next, DropStep

\* Both invariants hold of every behaviour.
LEMMA HistoryIsRich == Spec => [](HInv /\ RichInv)
<1>1. HistInit => HInv /\ RichInv
  <2>1. HistInit => RichInv
    BY DEF HistInit, RichInv
  <2> QED
    BY <2>1, InitHolds
<1>2. HInv /\ RichInv /\ [Next]_histVars => (HInv /\ RichInv)'
  BY StepHolds, StepIsRich
<1> QED
  BY <1>1, <1>2, PTL DEF Spec

-----------------------------------------------------------------------------
\* What one step of a save, a deletion or a clear does to the store it does to
\* the list kept in memory (SimulationHistoryService.ts:586).
THEOREM ListIsTheStore == Spec => []StoresAgree
<1>1. HInv /\ RichInv => StoresAgree
  BY DEF HInv, RichInv, StoresAgree, Records, Rows, Stored
<1> QED
  BY <1>1, HistoryIsRich, PTL

\* Rows with internal info stay loadable whatever stripped decode is persisted
\* later, shorter or longer (persistDecodedTrace, pickTraceRows).
THEOREM RichRowsAreKept == Spec => []RichRowsStay
<1>1. HInv /\ RichInv => RichRowsStay
  <2> SUFFICES ASSUME HInv, RichInv PROVE RichRowsStay
    OBVIOUS
  <2>1. ASSUME NEW i \in rich
        PROVE  pickTraceRows(i) = vault[i] /\ internalInfoCount(vault[i]) > 0
    <3>1. i \in DOMAIN vault /\ internalInfoCount(vault[i]) > 0
      BY <2>1 DEF RichInv
    <3>2. InVault(i) = vault[i] /\ internalInfoCount(vault[i]) # 0
      BY <3>1 DEF InVault
    <3> QED
      BY <3>1, <3>2 DEF pickTraceRows
  <2>2. ASSUME NEW i \in kept
        PROVE  InRecord(i) = db[i].rows /\ internalInfoCount(db[i].rows) > 0 /\ i \in rich
    BY <2>2 DEF RichInv, InRecord
  <2>3. \A i \in rich \cap Stored : internalInfoCount(pickTraceRows(i)) > 0
    BY <2>1
  <2>4. \A i \in kept : \A rows \in Loadable(i) : internalInfoCount(rows) > 0
    BY <2>1, <2>2 DEF Loadable
  <2> QED
    BY <2>3, <2>4 DEF RichRowsStay
<1> QED
  BY <1>1, HistoryIsRich, PTL

-----------------------------------------------------------------------------
\* What a deletion in progress holds: ids chosen at the time `since', and of
\* the records that are older than that none is younger than one that stays.
Pending(j) ==
  \A i \in Stored \cap drop[j].records, k \in Stored \ drop[j].records :
     db[i].at < drop[j].since => db[i].at < db[k].at

PruneInv ==
  /\ IsFiniteSet(Stored) /\ surplus \in [Runs -> Nat]
  /\ drop \in [Droppers -> [records : SUBSET Ids, traces : SUBSET Ids, since : Nat]]
  /\ \A r \in Runs : drop[r].since <= clock /\ Pending(r)

\* getOldestIds: a record that is not among the oldest is younger than each
\* that is.
LEMMA OldestAreOlder ==
  ASSUME IsFiniteSet(Stored), \A i \in Stored : db[i].at \in Nat, NEW n \in Nat,
         NEW i \in Oldest(n), NEW k \in Stored \ Oldest(n)
  PROVE  db[i].at < db[k].at
<1> DEFINE Older(x) == {j \in Stored : db[j].at < db[x].at}
<1>1. SUFFICES ASSUME db[k].at <= db[i].at PROVE FALSE
  BY DEF Oldest
<1>2. Older(k) \subseteq Older(i) /\ Older(i) \subseteq Stored
  BY <1>1 DEF Oldest
<1>3. IsFiniteSet(Older(i)) /\ IsFiniteSet(Older(k))
  BY <1>2, FS_Subset
<1>4. Cardinality(Older(k)) <= Cardinality(Older(i))
  BY <1>2, <1>3, FS_Subset
<1>5. Cardinality(Older(k)) \in Nat /\ Cardinality(Older(i)) \in Nat
  BY <1>3, FS_CardinalityType
<1>6. Cardinality(Older(i)) < n /\ ~(Cardinality(Older(k)) < n)
  BY DEF Oldest
<1> QED
  BY <1>4, <1>5, <1>6

\* Nothing is pending in the empty stores.
LEMMA InitPrunes == HistInit => PruneInv
<1> SUFFICES ASSUME HistInit PROVE PruneInv
  OBVIOUS
<1>1. Stored = {} /\ clock = 1 /\ surplus \in [Runs -> Nat] /\ drop = [j \in Droppers |-> NoDrop]
  BY DEF HistInit, Stored
<1>2. NoDrop \in [records : SUBSET Ids, traces : SUBSET Ids, since : Nat] /\ NoDrop.since = 0
  BY DEF NoDrop
<1>3. \A r \in Runs : drop[r].since <= clock /\ Pending(r)
  BY <1>1, <1>2 DEF Pending, Droppers
<1> QED
  BY <1>1, <1>2, <1>3, FS_EmptySet DEF PruneInv

\* A smaller store keeps what pending deletions rely on.
LEMMA FewerRecords ==
  ASSUME HInv, PruneInv, NEW S, db' = Without(db, S), UNCHANGED <<clock, surplus>>,
         drop' \in [Droppers -> [records : SUBSET Ids, traces : SUBSET Ids, since : Nat]],
         \A r \in Runs : \/ drop'[r].records = drop[r].records /\ drop'[r].since = drop[r].since
                         \/ drop'[r].records = {} /\ drop'[r].since <= clock
  PROVE  PruneInv'
<1>1. Stored' = Stored \ S /\ \A i \in Stored' : db'[i] = db[i]
  BY DEF Stored, Without, Restrict
<1>2. IsFiniteSet(Stored')
  BY <1>1, FS_Subset DEF PruneInv
<1>3. ASSUME NEW r \in Runs PROVE drop'[r].since <= clock' /\ Pending(r)'
  BY <1>1 DEF PruneInv, Pending
<1> QED
  BY <1>2, <1>3 DEF PruneInv

\* Every step keeps what pending deletions rely on: a record that comes after
\* the listing is younger, and one saved again counts as such.
LEMMA StepPrunes == HInv /\ PruneInv /\ [Next]_histVars => PruneInv'
<1> SUFFICES ASSUME HInv, PruneInv, [Next]_histVars PROVE PruneInv'
  OBVIOUS
<1> USE BoundsAssumption
<1> DEFINE DropType == [records : SUBSET Ids, traces : SUBSET Ids, since : Nat]
<1>0. /\ IsFiniteSet(Stored) /\ surplus \in [Runs -> Nat] /\ drop \in [Droppers -> DropType]
      /\ clock \in Nat /\ Stored \subseteq Ids
      /\ \A i \in Stored : db[i].at \in Nat /\ db[i].at < clock
  BY DEF PruneInv, HInv, Records
<1>1. ASSUME NEW r \in Runs, Put(r) PROVE PruneInv'
  <2> DEFINE i == IdOf[r]
  <2>1. /\ Stored' = Stored \cup {i} /\ db'[i].at = clock
        /\ \A j \in Stored \ {i} : db'[j] = db[j]
        /\ clock' = clock + 1 /\ UNCHANGED <<surplus, drop>>
    BY <1>1 DEF Put, Stored
  <2>2. IsFiniteSet(Stored')
    BY <1>0, <2>1, FS_AddElement
  <2>3. ASSUME NEW q \in Runs PROVE drop'[q].since <= clock' /\ Pending(q)'
    <3>1. drop[q].since \in Nat /\ drop[q].since <= clock /\ Pending(q) /\ q \in Droppers
      BY <1>0 DEF PruneInv, Droppers
    <3>2. ASSUME NEW j \in Stored' \cap drop[q].records, NEW k \in Stored' \ drop[q].records,
                 db'[j].at < drop[q].since
          PROVE  db'[j].at < db'[k].at
      <4>1. j # i /\ j \in Stored /\ db'[j] = db[j]
        BY <1>0, <2>1, <3>1, <3>2
      <4>2. CASE k = i
        BY <1>0, <2>1, <4>1, <4>2
      <4>3. CASE k # i
        BY <2>1, <3>1, <3>2, <4>1, <4>3 DEF Pending
      <4> QED
        BY <4>2, <4>3
    <3> QED
      BY <1>0, <2>1, <3>1, <3>2 DEF Pending
  <2> QED
    BY <1>0, <2>1, <2>2, <2>3 DEF PruneInv
<1>2. ASSUME UNCHANGED <<db, clock, drop>>, surplus' \in [Runs -> Nat] PROVE PruneInv'
  BY <1>2 DEF PruneInv, Stored, Pending
<1>3. ASSUME NEW r \in Runs, CountRecords(r) PROVE PruneInv'
  <2>1. Cardinality(Stored) \in Nat
    BY <1>0, FS_CardinalityType
  <2>2. surplus' \in [Runs -> Nat]
    BY <1>0, <1>3, <2>1 DEF CountRecords
  <2> QED
    BY <1>2, <1>3, <2>2 DEF CountRecords
<1>4. ASSUME NEW r \in Runs, ListOldest(r) PROVE PruneInv'
  <2> DEFINE o == Oldest(surplus[r])
  <2>1. /\ drop' = [drop EXCEPT ![r] = [records |-> o, traces |-> o, since |-> clock]]
        /\ surplus' = [surplus EXCEPT ![r] = 0] /\ UNCHANGED <<db, clock>>
    BY <1>4 DEF ListOldest, Deletion
  <2>2. o \subseteq Stored
    BY DEF Oldest
  <2>3. drop' \in [Droppers -> DropType] /\ surplus' \in [Runs -> Nat] /\ r \in Droppers
    BY <1>0, <2>1, <2>2 DEF Droppers
  <2>4. \A i \in Stored \cap o, k \in Stored \ o : db[i].at < db[k].at
    BY <1>0, OldestAreOlder
  <2> HIDE DEF o
  <2>5. ASSUME NEW q \in Runs PROVE drop'[q].since <= clock' /\ Pending(q)'
    <3>1. CASE q = r
      <4>1. drop'[q].records = o /\ drop'[q].since = clock
        BY <1>0, <2>1, <2>3, <3>1
      <4> QED
        BY <1>0, <2>1, <2>4, <4>1 DEF Pending, Stored
    <3>2. CASE q # r
      <4>1. drop'[q] = drop[q]
        BY <1>0, <2>1, <3>2 DEF Droppers
      <4> QED
        BY <2>1, <4>1 DEF PruneInv, Pending, Stored
    <3> QED
      BY <3>1, <3>2
  <2> QED
    BY <1>0, <2>1, <2>3, <2>5 DEF PruneInv, Stored
<1>5. ASSUME NEW ids \in SUBSET Ids \ {{}}, UserDeletes(ids) PROVE PruneInv'
  <2>1. drop' = [drop EXCEPT ![User] = [records |-> ids, traces |-> ids, since |-> clock]]
        /\ UNCHANGED <<db, clock, surplus>>
    BY <1>5 DEF UserDeletes, Deletion, storeVars, calls
  <2>2. drop' \in [Droppers -> DropType] /\ \A q \in Runs : drop'[q] = drop[q]
    BY <1>0, <2>1 DEF Droppers
  <2> QED
    BY <2>1, <2>2 DEF PruneInv, Pending, Stored
<1>6. ASSUME NEW j \in Droppers, DropRecords(j) PROVE PruneInv'
  <2> DEFINE left == [records |-> {}, traces |-> drop[j].traces, since |-> 0]
  <2>1. drop' = [drop EXCEPT ![j] = left] /\ UNCHANGED <<clock, surplus>>
    BY <1>6 DEF DropRecords
  <2>2. left \in DropType
    BY <1>0
  <2>3. drop'[j] = left /\ \A k \in Droppers \ {j} : drop'[k] = drop[k]
    BY <1>0, <2>1
  <2>4. drop' \in [Droppers -> DropType]
    BY <1>0, <2>1, <2>2
  <2>5. \A r \in Runs : \/ drop'[r].records = drop[r].records /\ drop'[r].since = drop[r].since
                        \/ drop'[r].records = {} /\ drop'[r].since <= clock
    BY <1>0, <2>3 DEF Droppers
  <2> QED
    BY <1>6, <2>1, <2>4, <2>5, FewerRecords DEF DropRecords
<1>7. ASSUME NEW j \in Droppers, NEW i \in Ids, DropTrace(j, i) PROVE PruneInv'
  <2>1. drop' = [drop EXCEPT ![j].traces = @ \ {i}] /\ UNCHANGED <<db, clock, surplus>>
    BY <1>7 DEF DropTrace, storeVars, saveVars, calls
  <2>2. drop[j] \in DropType
    BY <1>0
  <2>3. drop' \in [Droppers -> DropType]
        /\ \A r \in Runs : drop'[r].records = drop[r].records /\ drop'[r].since = drop[r].since
    BY <1>0, <2>1, <2>2 DEF Droppers
  <2> QED
    BY <2>1, <2>3 DEF PruneInv, Pending, Stored
<1>8. ASSUME ClearRecords PROVE PruneInv'
  BY <1>0, <1>8, FewerRecords DEF ClearRecords, calls
<1>9. ASSUME Crash PROVE PruneInv'
  <2>1. drop' = [j \in Droppers |-> NoDrop] /\ UNCHANGED <<db, clock, surplus>>
    BY <1>9 DEF Crash
  <2>2. drop' \in [Droppers -> DropType]
        /\ \A r \in Runs : drop'[r].records = {} /\ drop'[r].since = 0
    BY <2>1 DEF NoDrop, Droppers
  <2> QED
    BY <1>0, <2>1, <2>2 DEF PruneInv, Pending, Stored
<1>10. ASSUME NEW r \in Runs, PutFails(r) PROVE PruneInv'
  BY <1>0, <1>2, <1>10 DEF PutFails
<1>11. ASSUME ClearTraces \/ List PROVE PruneInv'
  BY <1>0, <1>2, <1>11 DEF ClearTraces, List, storeVars, saveVars, calls
<1>12. ASSUME NEW p \in Persists, PersistStep(p) \/ BeginPersist(p) PROVE PruneInv'
  <2>1. CASE UpdateRows(p)
    <3> DEFINE i == IdDecoded[p]
    <3>1. UNCHANGED <<clock, surplus, drop>> /\ i \in Stored
          /\ \E rows : db' = [db EXCEPT ![i].rows = rows]
      BY <2>1 DEF UpdateRows, saveVars, calls
    <3>2. Stored' = Stored /\ \A k \in Stored : db'[k].at = db[k].at
      BY <3>1 DEF HInv, Stored, Records
    <3> QED
      BY <3>1, <3>2 DEF PruneInv, Pending
  <2>2. CASE ~UpdateRows(p)
    BY <1>0, <1>2, <1>12, <2>2 DEF PersistStep, BeginPersist, ReadExisting, ReadFails, OpenTrace,
       WriteLite, WriteRest, TryAgain, storeVars, saveVars, calls
  <2> QED
    BY <2>1, <2>2
<1>13. ASSUME UNCHANGED histVars PROVE PruneInv'
  BY <1>0, <1>2, <1>13 DEF histVars
<1> QED
  BY <1>1, <1>3, <1>4, <1>5, <1>6, <1>7, <1>8, <1>9, <1>10, <1>11, <1>12, <1>13
  DEF Next, SaveStep, DropStep

\* Of the records that stay none is older than one that pruning removes
\* (SimulationHistoryService.ts:761, simulationStore.ts:112).
THEOREM PruningTakesTheOldest == Spec => PrunesOldest
<1> DEFINE Prunes(r) == drop[r].records # {} /\ drop'[r].records = {} /\ acts' = acts
           Right(r) == \A i \in Stored \ Stored', j \in Stored' :
                          db[i].at < drop[r].since => db[i].at < db[j].at
<1>1. HInv /\ PruneInv /\ [Next]_histVars => [\A r \in Runs : Prunes(r) => Right(r)]_histVars
  <2> SUFFICES ASSUME PruneInv, Next, NEW r \in Runs, Prunes(r), Stored' # Stored
               PROVE  Right(r)
    <3>1. ASSUME Stored' = Stored, NEW r \in Runs PROVE Right(r)
      BY <3>1
    <3> QED
      BY <3>1
  <2> USE BoundsAssumption
  <2>1. DropRecords(r)
    <3>1. ASSUME NEW q \in Runs, Put(q) PROVE FALSE
      BY <3>1 DEF Put
    <3>2. ASSUME NEW j \in Droppers, DropRecords(j), j # r PROVE FALSE
      <4>1. drop'[r] = drop[r]
        BY <3>2 DEF DropRecords, PruneInv, Droppers
      <4> QED
        BY <4>1
    <3>3. acts' = acts /\ db' # db
      BY DEF Stored
    <3>4. \A ids \in SUBSET Ids : ~UserDeletes(ids)
      BY <3>3 DEF UserDeletes, storeVars
    <3>5. ~ClearRecords /\ ~Crash /\ ~ClearTraces /\ ~List
      BY <3>3 DEF ClearRecords, Crash, ClearTraces, List, storeVars
    <3>6. \A q \in Runs : ~PutFails(q) /\ ~CountRecords(q) /\ ~ListOldest(q)
      BY <3>3 DEF PutFails, CountRecords, ListOldest
    <3>7. \A j \in Droppers, i \in Ids : ~DropTrace(j, i)
      BY <3>3 DEF DropTrace, storeVars
    <3>8. \A p \in Persists : ~BeginPersist(p) /\ ~PersistStep(p)
      BY <3>3 DEF BeginPersist, PersistStep, ReadExisting, ReadFails, OpenTrace,
         WriteLite, WriteRest, TryAgain, UpdateRows, storeVars
    <3> QED
      BY <3>1, <3>2, <3>4, <3>5, <3>6, <3>7, <3>8 DEF Next, SaveStep, DropStep
  <2>2. Stored' = Stored \ drop[r].records
    BY <2>1 DEF DropRecords, Stored, Without, Restrict
  <2> QED
    BY <2>2 DEF PruneInv, Pending
<1>2. Spec => [](HInv /\ PruneInv)
  <2>1. HistInit => HInv /\ PruneInv
    BY InitHolds, InitPrunes
  <2>2. HInv /\ PruneInv /\ [Next]_histVars => (HInv /\ PruneInv)'
    BY StepHolds, StepPrunes
  <2> QED
    BY <2>1, <2>2, PTL DEF Spec
<1>3. [][\A r \in Runs : Prunes(r) => Right(r)]_histVars => PrunesOldest
  BY DEF PrunesOldest
<1> QED
  BY <1>1, <1>2, <1>3, PTL DEF Spec

-----------------------------------------------------------------------------
\* Saves past their count, which have taken the surplus they saw on themselves.
Due == {r \in Runs : save[r] = "list" \/ drop[r].records # {}}

\* What the history holds when such a save has pruned, if nothing else happens.
Left(r) == IF save[r] = "list" THEN Cardinality(Stored) - surplus[r]
           ELSE Cardinality(Stored \ drop[r].records)

\* later[r] are saves that came after the count of r and are not over: r leaves
\* MaxKept records and theirs, and a save that came later has fewer behind it.
Covers(later) ==
  \A r \in Due :
     /\ r \notin later[r]
     /\ Left(r) <= MaxKept + Cardinality(later[r])
     /\ \A q \in later[r] \cap Due : later[q] \subseteq later[r]

Covered == \E later \in [Due -> SUBSET Unfinished] : Covers(later)

\* A save is unfinished once, and one a crash cut short is no longer.
Tidy ==
  /\ IsFiniteSet(Unfinished) /\ IsFiniteSet(unpruned) /\ unpruned \subseteq Runs
  /\ \A r \in Runs :
       /\ save[r] # "done" => drop[r].records = {} /\ r \notin unpruned
       /\ r \in unpruned => drop[r].records = {}
       /\ save[r] = "list" => surplus[r] > 0

\* Why overlapping saves keep the bound: each has its surplus covered.
SurplusInv == Tidy /\ Covered /\ HistoryIsBounded

\* Of some numbers one is the smallest.
LEMMA Smallest ==
  ASSUME NEW S \in SUBSET Nat, S # {}
  PROVE  \E a \in S : \A b \in S : a <= b
<1>1. PICK a \in S : \A b \in S : <<b, a>> \notin OpToRel(<, Nat)
  BY WFMin, NatLessThanWellFounded, Zenon
<1>2. \A b \in S : ~(b < a)
  BY <1>1, Zenon DEF OpToRel
<1> QED
  BY <1>2

\* getOldestIds lists as many records as it is asked for, or all there are.
LEMMA OldestAreEnough ==
  ASSUME IsFiniteSet(Stored), \A i \in Stored : db[i].at \in Nat, NEW n \in Nat
  PROVE  /\ IsFiniteSet(Oldest(n)) /\ Oldest(n) \subseteq Stored
         /\ Oldest(n) = Stored \/ n <= Cardinality(Oldest(n))
<1> DEFINE Older(x) == {j \in Stored : db[j].at < db[x].at}
           rest == Stored \ Oldest(n)
           ages == {db[i].at : i \in rest}
<1>1. Oldest(n) \subseteq Stored /\ IsFiniteSet(Oldest(n))
  BY FS_Subset DEF Oldest
<1>2. ASSUME rest # {} PROVE n <= Cardinality(Oldest(n))
  <2>1. ages \subseteq Nat /\ ages # {}
    BY <1>2
  <2>2. PICK a \in ages : \A b \in ages : a <= b
    BY <2>1, Smallest
  <2>3. PICK k \in rest : db[k].at = a
    OBVIOUS
  <2>4. Older(k) \subseteq Oldest(n)
    <3> SUFFICES ASSUME NEW j \in Stored, db[j].at < db[k].at, j \in rest PROVE FALSE
      OBVIOUS
    <3> QED
      BY <2>1, <2>2, <2>3
  <2>5. Cardinality(Older(k)) <= Cardinality(Oldest(n))
    BY <1>1, <2>4, FS_Subset
  <2>6. ~(Cardinality(Older(k)) < n)
    BY <2>3 DEF Oldest
  <2>7. Cardinality(Older(k)) \in Nat /\ Cardinality(Oldest(n)) \in Nat
    BY <1>1, <2>4, FS_Subset, FS_CardinalityType
  <2> QED
    BY <2>5, <2>6, <2>7
<1> QED
  BY <1>1, <1>2

\* A store within the limit covers every save, however many are on their way.
LEMMA SmallStore ==
  ASSUME IsFiniteSet(Stored'), Cardinality(Stored') <= MaxKept,
         IsFiniteSet(Unfinished'), IsFiniteSet(unpruned'), surplus' \in [Runs -> Nat]
  PROVE  Covered' /\ HistoryIsBounded'
<1> USE BoundsAssumption
<1>1. Cardinality(Stored') \in Nat /\ Cardinality(Unfinished') \in Nat /\ Cardinality(unpruned') \in Nat
  BY FS_CardinalityType
<1>2. HistoryIsBounded'
  BY <1>1 DEF HistoryIsBounded
<1>3. PICK nobody \in [Due' -> SUBSET Unfinished'] : \A r \in Due' : nobody[r] = {}
  <2>1. [r \in Due' |-> {}] \in [Due' -> SUBSET Unfinished']
    OBVIOUS
  <2> QED
    BY <2>1
<1>4. ASSUME NEW r \in Due' PROVE Left(r)' <= MaxKept + Cardinality(nobody[r])
  <2>1. Cardinality(nobody[r]) = 0 /\ r \in Runs
    BY <1>3, FS_EmptySet DEF Due
  <2>2. Cardinality(Stored' \ drop'[r].records) <= Cardinality(Stored')
        /\ Cardinality(Stored' \ drop'[r].records) \in Nat
    BY FS_Subset, FS_CardinalityType
  <2>3. Left(r)' <= Cardinality(Stored') /\ Left(r)' \in Int
    BY <1>1, <2>1, <2>2 DEF Left
  <2> QED
    BY <1>1, <2>1, <2>3
<1>5. Covers(nobody)'
  BY <1>3, <1>4 DEF Covers
<1> QED
  BY <1>2, <1>3, <1>5 DEF Covered

\* What a step leaves to a save it does not concern.
SameSave(r) == save'[r] = save[r] /\ drop'[r].records = drop[r].records /\ surplus'[r] = surplus[r]

\* Fewer records are left to such a save if fewer are stored.
LEMMA FewerLeft ==
  ASSUME IsFiniteSet(Stored), Stored' \subseteq Stored, surplus \in [Runs -> Nat],
         NEW r \in Runs, SameSave(r)
  PROVE  Left(r) \in Int /\ Left(r)' \in Int /\ Left(r)' <= Left(r)
<1>1. /\ IsFiniteSet(Stored') /\ Cardinality(Stored') <= Cardinality(Stored)
      /\ Cardinality(Stored) \in Nat /\ Cardinality(Stored') \in Nat
  BY FS_Subset, FS_CardinalityType
<1> DEFINE stays == Stored \ drop[r].records
           stayAfter == Stored' \ drop[r].records
<1>2. /\ IsFiniteSet(stays) /\ stayAfter \subseteq stays
      /\ Cardinality(stayAfter) <= Cardinality(stays)
      /\ Cardinality(stays) \in Nat /\ Cardinality(stayAfter) \in Nat
  BY FS_Subset, FS_CardinalityType
<1> HIDE DEF stays, stayAfter
<1>3. Left(r) = IF save[r] = "list" THEN Cardinality(Stored) - surplus[r] ELSE Cardinality(stays)
  BY DEF Left, stays
<1>4. Left(r)' = IF save[r] = "list" THEN Cardinality(Stored') - surplus[r] ELSE Cardinality(stayAfter)
  BY DEF Left, stayAfter, SameSave
<1> QED
  BY <1>1, <1>2, <1>3, <1>4

\* Nothing is uncovered by a step that saves nothing and ends no save.
LEMMA NoSaveEnds ==
  ASSUME SurplusInv, PruneInv, Stored' \subseteq Stored, UNCHANGED unpruned,
         \A r \in Runs : SameSave(r) \/ (r \notin Due /\ r \notin Due'),
         Unfinished' = Unfinished
  PROVE  Covered' /\ HistoryIsBounded'
<1> USE BoundsAssumption
<1>1. /\ IsFiniteSet(Stored) /\ IsFiniteSet(Stored') /\ surplus \in [Runs -> Nat]
      /\ Cardinality(Stored') <= Cardinality(Stored)
      /\ Cardinality(Stored) \in Nat /\ Cardinality(Stored') \in Nat
      /\ Cardinality(Unfinished) \in Nat /\ Cardinality(unpruned) \in Nat
  BY FS_Subset, FS_CardinalityType DEF PruneInv, SurplusInv, Tidy
<1>2. HistoryIsBounded'
  BY <1>1 DEF SurplusInv, HistoryIsBounded
<1>3. Due' = Due
  BY DEF Due, SameSave
<1>4. PICK later \in [Due -> SUBSET Unfinished] : Covers(later)
  BY DEF SurplusInv, Covered
<1>5. ASSUME NEW r \in Due PROVE Left(r)' <= MaxKept + Cardinality(later[r])
  <2>1. r \in Runs /\ SameSave(r)
    BY <1>3 DEF Due
  <2>2. Left(r) <= MaxKept + Cardinality(later[r])
    BY <1>4 DEF Covers
  <2>3. Cardinality(later[r]) \in Nat
    BY <1>4, FS_Subset, FS_CardinalityType DEF SurplusInv, Tidy
  <2> QED
    BY <1>1, <2>1, <2>2, <2>3, FewerLeft
<1>6. Covers(later)'
  BY <1>3, <1>4, <1>5 DEF Covers
<1> QED
  BY <1>2, <1>3, <1>4, <1>6 DEF Covered

\* Nothing is stored and nothing on its way in the empty stores.
LEMMA InitIsCovered == HistInit => SurplusInv
<1> SUFFICES ASSUME HistInit PROVE SurplusInv
  OBVIOUS
<1> USE BoundsAssumption
<1>1. /\ Stored = {} /\ unpruned = {} /\ save = [r \in Runs |-> "off"]
      /\ drop = [j \in Droppers |-> NoDrop] /\ NoDrop.records = {}
  BY DEF HistInit, Stored, NoDrop
<1>2. \A r \in Runs : drop[r].records = {} /\ save[r] = "off"
  BY <1>1 DEF Droppers
<1>3. Unfinished = {} /\ Due = {}
  BY <1>2 DEF Unfinished, Due
<1>4. Tidy
  BY <1>1, <1>2, <1>3, FS_EmptySet DEF Tidy
<1>5. HistoryIsBounded
  BY <1>1, <1>3, FS_EmptySet DEF HistoryIsBounded
<1>6. [r \in {} |-> {}] \in [Due -> SUBSET Unfinished] /\ Covers([r \in {} |-> {}])
  BY <1>3 DEF Covers
<1> QED
  BY <1>4, <1>5, <1>6 DEF SurplusInv, Covered

\* A save that puts its record comes later than each that has counted.
LEMMA PutIsCovered ==
  ASSUME HInv, PruneInv, SurplusInv, NEW r \in Runs, Put(r)
  PROVE  SurplusInv'
<1> USE BoundsAssumption
<1> DEFINE i == IdOf[r]
<1>1. /\ save[r] = "off" /\ save' = [save EXCEPT ![r] = "count"] /\ Stored' = Stored \cup {i}
      /\ UNCHANGED <<surplus, drop, unpruned>>
  BY DEF Put, Stored
<1>2. save'[r] = "count" /\ \A q \in Runs \ {r} : save'[q] = save[q]
  BY <1>1 DEF HInv
<1>3. drop[r].records = {} /\ r \notin unpruned
  BY <1>1 DEF SurplusInv, Tidy
<1>4. r \notin Unfinished /\ r \notin Due /\ Unfinished' = Unfinished \cup {r} /\ Due' = Due
  BY <1>1, <1>2, <1>3 DEF Unfinished, Due
<1>5. /\ IsFiniteSet(Unfinished) /\ Cardinality(Unfinished) \in Nat
      /\ IsFiniteSet(Unfinished') /\ Cardinality(Unfinished') = Cardinality(Unfinished) + 1
  BY <1>4, FS_AddElement, FS_CardinalityType DEF SurplusInv, Tidy
<1>6. /\ IsFiniteSet(Stored) /\ Cardinality(Stored) \in Nat
      /\ Cardinality(Stored') \in Nat /\ Cardinality(Stored') <= Cardinality(Stored) + 1
  <2>1. IsFiniteSet(Stored)
    BY DEF PruneInv
  <2>2. /\ IsFiniteSet(Stored \cup {i})
        /\ Cardinality(Stored \cup {i}) = IF i \in Stored THEN Cardinality(Stored) ELSE Cardinality(Stored) + 1
    BY <2>1, FS_AddElement
  <2>3. Cardinality(Stored) \in Nat
    BY <2>1, FS_CardinalityType
  <2> QED
    BY <1>1, <2>1, <2>2, <2>3
<1>7. Tidy'
  BY <1>1, <1>2, <1>3, <1>5 DEF Tidy, SurplusInv
<1>8. HistoryIsBounded'
  <2>1. Cardinality(unpruned) \in Nat
    BY FS_CardinalityType DEF SurplusInv, Tidy
  <2> QED
    BY <1>1, <1>5, <1>6, <2>1 DEF SurplusInv, HistoryIsBounded
<1>9. PICK later \in [Due -> SUBSET Unfinished] : Covers(later)
  BY DEF SurplusInv, Covered
<1>10. PICK next \in [Due' -> SUBSET Unfinished'] : \A q \in Due : next[q] = later[q] \cup {r}
  <2>1. [q \in Due |-> later[q] \cup {r}] \in [Due' -> SUBSET Unfinished']
    BY <1>4, <1>9
  <2> QED
    BY <2>1
<1>11. ASSUME NEW q \in Due PROVE Left(q)' <= MaxKept + Cardinality(next[q])
  <2>1. r \notin later[q] /\ IsFiniteSet(later[q])
    BY <1>4, <1>5, <1>9, FS_Subset
  <2>2. Cardinality(next[q]) = Cardinality(later[q]) + 1 /\ Cardinality(later[q]) \in Nat
    BY <1>10, <2>1, FS_AddElement, FS_CardinalityType
  <2>3. q \in Runs /\ save'[q] = save[q] /\ surplus[q] \in Nat
    BY <1>2, <1>4 DEF Due, PruneInv
  <2>4. Left(q) <= MaxKept + Cardinality(later[q])
    BY <1>9 DEF Covers
  <2> DEFINE stays == Stored \ drop[q].records
             stayAfter == Stored' \ drop[q].records
  <2>5. /\ IsFiniteSet(stays) /\ Cardinality(stays) \in Nat /\ stayAfter \subseteq stays \cup {i}
        /\ IsFiniteSet(stays \cup {i}) /\ Cardinality(stays \cup {i}) <= Cardinality(stays) + 1
    <3>1. stays \subseteq Stored /\ stayAfter \subseteq stays \cup {i}
      BY <1>1
    <3> HIDE DEF stays, stayAfter
    <3>2. IsFiniteSet(stays) /\ Cardinality(stays) \in Nat
      BY <1>6, <3>1, FS_Subset, FS_CardinalityType
    <3>3. /\ IsFiniteSet(stays \cup {i})
          /\ Cardinality(stays \cup {i}) = IF i \in stays THEN Cardinality(stays) ELSE Cardinality(stays) + 1
      BY <3>2, FS_AddElement
    <3> QED
      BY <3>1, <3>2, <3>3
  <2> HIDE DEF stays, stayAfter
  <2>6. Cardinality(stays \cup {i}) \in Nat /\ Cardinality(stayAfter) \in Nat /\ Cardinality(stayAfter) <= Cardinality(stays) + 1
    BY <2>5, FS_Subset, FS_CardinalityType
  <2>7. Left(q) = IF save[q] = "list" THEN Cardinality(Stored) - surplus[q] ELSE Cardinality(stays)
    BY DEF Left, stays
  <2>8. Left(q)' = IF save[q] = "list" THEN Cardinality(Stored') - surplus[q] ELSE Cardinality(stayAfter)
    BY <1>1, <2>3 DEF Left, stayAfter
  <2> QED
    BY <1>6, <2>2, <2>3, <2>4, <2>5, <2>6, <2>7, <2>8
<1>12. Covers(next)'
  <2>1. ASSUME NEW q \in Due PROVE r # q /\ r \notin Due /\ q \notin later[q]
    BY <1>4, <1>9 DEF Covers
  <2>2. ASSUME NEW q \in Due, NEW p \in next[q] \cap Due PROVE next[p] \subseteq next[q]
    BY <1>9, <1>10, <2>1 DEF Covers
  <2> QED
    BY <1>4, <1>10, <1>11, <2>1, <2>2 DEF Covers
<1> QED
  BY <1>7, <1>8, <1>10, <1>12 DEF SurplusInv, Covered

\* A save that deletes what it listed leaves what those behind it will cover.
LEMMA PruneIsCovered ==
  ASSUME HInv, PruneInv, SurplusInv, NEW r \in Runs, DropRecords(r)
  PROVE  SurplusInv'
<1> USE BoundsAssumption
<1> DEFINE mine == drop[r].records
<1>1. /\ mine # {} /\ Stored' = Stored \ mine /\ unpruned' = {}
      /\ drop' = [drop EXCEPT ![r] = [records |-> {}, traces |-> drop[r].traces, since |-> 0]]
      /\ UNCHANGED <<save, surplus>>
  BY DEF DropRecords, Stored, Without, Restrict
<1>2. drop'[r].records = {} /\ \A q \in Runs \ {r} : drop'[q] = drop[q]
  BY <1>1 DEF PruneInv, Droppers
<1>3. save[r] = "done"
  BY <1>1 DEF SurplusInv, Tidy
<1>4. r \in Due /\ Due' = Due \ {r} /\ r \in Unfinished /\ Unfinished' = Unfinished \ {r}
  BY <1>1, <1>2, <1>3 DEF Due, Unfinished
<1>5. /\ IsFiniteSet(Unfinished) /\ IsFiniteSet(Unfinished') /\ Cardinality(Unfinished') \in Nat
      /\ IsFiniteSet(Stored) /\ IsFiniteSet(Stored') /\ Cardinality(Stored') \in Nat
      /\ Cardinality(unpruned') = 0
  BY <1>1, <1>4, FS_Subset, FS_CardinalityType, FS_EmptySet DEF SurplusInv, Tidy, PruneInv
<1>6. Tidy'
  BY <1>1, <1>2, <1>5, FS_EmptySet DEF Tidy, SurplusInv
<1>7. PICK later \in [Due -> SUBSET Unfinished] : Covers(later)
  BY DEF SurplusInv, Covered
<1>8. later[r] \subseteq Unfinished' /\ Cardinality(Stored') <= MaxKept + Cardinality(later[r])
  BY <1>1, <1>3, <1>4, <1>7 DEF Covers, Left
<1>9. IsFiniteSet(later[r]) /\ Cardinality(later[r]) \in Nat /\ Cardinality(later[r]) <= Cardinality(Unfinished')
  BY <1>5, <1>8, FS_Subset, FS_CardinalityType
<1>10. HistoryIsBounded'
  BY <1>5, <1>8, <1>9 DEF HistoryIsBounded
<1>11. PICK next \in [Due' -> SUBSET Unfinished'] : \A q \in Due' : next[q] = later[q] \ {r}
  <2>1. [q \in Due' |-> later[q] \ {r}] \in [Due' -> SUBSET Unfinished']
    BY <1>4, <1>7
  <2> QED
    BY <2>1
<1>12. ASSUME NEW q \in Due' PROVE Left(q)' <= MaxKept + Cardinality(next[q])
  <2>1. q \in Due /\ q \in Runs /\ q # r /\ SameSave(q) /\ next[q] \subseteq Unfinished'
    BY <1>1, <1>2, <1>4, <1>11 DEF Due, SameSave
  <2>2. Left(q)' <= Left(q) /\ Left(q) \in Int /\ Left(q)' \in Int
    BY <1>1, <1>5, <2>1, FewerLeft DEF PruneInv
  <2>3. IsFiniteSet(next[q]) /\ Cardinality(next[q]) \in Nat
    BY <1>5, <2>1, FS_Subset, FS_CardinalityType
  <2>4. CASE r \notin later[q]
    <3>1. later[q] \ {r} = later[q]
      BY <2>4
    <3>2. next[q] = later[q]
      BY <1>11, <3>1
    <3> QED
      BY <1>7, <2>1, <2>2, <2>3, <3>2 DEF Covers
  <2>5. CASE r \in later[q]
    <3>1. later[r] \subseteq later[q] /\ r \notin later[r]
      BY <1>4, <1>7, <2>1, <2>5 DEF Covers
    <3>2. Cardinality(later[r]) <= Cardinality(next[q])
      BY <1>11, <2>3, <3>1, FS_Subset
    <3>3. Left(q)' <= Cardinality(Stored')
      <4>1. Left(q)' = IF save'[q] = "list" THEN Cardinality(Stored') - surplus'[q]
                       ELSE Cardinality(Stored' \ drop'[q].records)
        BY DEF Left
      <4>2. surplus'[q] \in Nat
        BY <1>1, <2>1 DEF PruneInv
      <4>3. /\ Cardinality(Stored' \ drop'[q].records) <= Cardinality(Stored')
            /\ Cardinality(Stored' \ drop'[q].records) \in Nat
        BY <1>5, FS_Subset, FS_CardinalityType
      <4> QED
        BY <1>5, <4>1, <4>2, <4>3
    <3> QED
      BY <1>5, <1>8, <1>9, <2>2, <2>3, <3>2, <3>3
  <2> QED
    BY <2>4, <2>5
<1>13. Covers(next)'
  <2>1. ASSUME NEW q \in Due' PROVE q \notin next[q]
    BY <1>4, <1>7, <1>11 DEF Covers
  <2>2. ASSUME NEW q \in Due', NEW p \in next[q] \cap Due' PROVE next[p] \subseteq next[q]
    BY <1>4, <1>7, <1>11 DEF Covers
  <2> QED
    BY <1>12, <2>1, <2>2 DEF Covers
<1> QED
  BY <1>6, <1>10, <1>11, <1>13 DEF SurplusInv, Covered

\* A save that counts is over within the limit, or has just its surplus to take.
LEMMA CountIsCovered ==
  ASSUME HInv, PruneInv, SurplusInv, NEW r \in Runs, CountRecords(r)
  PROVE  SurplusInv'
<1> USE BoundsAssumption
<1> DEFINE n == Cardinality(Stored)
<1>1. save[r] = "count" /\ Stored' = Stored /\ UNCHANGED drop /\ drop[r].records = {}
      /\ surplus' = [surplus EXCEPT ![r] = IF n <= MaxKept THEN 0 ELSE n - MaxKept]
      /\ save' = [save EXCEPT ![r] = IF n <= MaxKept THEN "done" ELSE "list"]
      /\ unpruned' = IF n <= MaxKept THEN {} ELSE unpruned
  BY DEF CountRecords, Stored, SurplusInv, Tidy
<1>2. IsFiniteSet(Stored) /\ n \in Nat
  BY FS_CardinalityType DEF PruneInv
<1> HIDE DEF n
<1>3. \A q \in Runs \ {r} : save'[q] = save[q] /\ surplus'[q] = surplus[q]
  BY <1>1 DEF HInv, PruneInv
<1>4. surplus' \in [Runs -> Nat] /\ IsFiniteSet(unpruned') /\ unpruned' \subseteq Runs
  BY <1>1, <1>2, FS_EmptySet DEF PruneInv, SurplusInv, Tidy
<1>5. CASE n <= MaxKept
  <2>1. save'[r] = "done" /\ unpruned' = {}
    BY <1>1, <1>5 DEF HInv
  <2>2. Unfinished' \subseteq Unfinished
    BY <1>1, <1>3, <2>1 DEF Unfinished
  <2>3. IsFiniteSet(Unfinished')
    BY <2>2, FS_Subset DEF SurplusInv, Tidy
  <2>4. Tidy'
    BY <1>1, <1>3, <1>4, <2>1, <2>3 DEF SurplusInv, Tidy
  <2>5. Covered' /\ HistoryIsBounded'
    BY <1>1, <1>2, <1>4, <1>5, <2>3, SmallStore DEF n
  <2> QED
    BY <2>4, <2>5 DEF SurplusInv
<1>6. CASE ~(n <= MaxKept)
  <2>1. save'[r] = "list" /\ surplus'[r] = n - MaxKept /\ unpruned' = unpruned
    BY <1>1, <1>6 DEF HInv, PruneInv
  <2>2. Unfinished' = Unfinished /\ r \notin Due /\ Due' = Due \cup {r}
    BY <1>1, <1>3, <2>1 DEF Unfinished, Due
  <2>3. surplus'[r] > 0
    BY <1>2, <1>6, <2>1
  <2>4. Tidy'
    BY <1>1, <1>3, <1>4, <2>1, <2>2, <2>3 DEF SurplusInv, Tidy
  <2>5. HistoryIsBounded'
    BY <1>1, <2>1, <2>2 DEF SurplusInv, HistoryIsBounded
  <2>6. PICK later \in [Due -> SUBSET Unfinished] : Covers(later)
    BY DEF SurplusInv, Covered
  <2>7. PICK next \in [Due' -> SUBSET Unfinished'] : next[r] = {} /\ \A q \in Due : next[q] = later[q]
    <3>1. [q \in Due' |-> IF q = r THEN {} ELSE later[q]] \in [Due' -> SUBSET Unfinished']
      BY <2>2, <2>6
    <3> QED
      BY <2>2, <3>1
  <2>8. ASSUME NEW q \in Due' PROVE Left(q)' <= MaxKept + Cardinality(next[q])
    <3>1. CASE q = r
      <4>1. Left(r)' = Cardinality(Stored') - surplus'[r] /\ Cardinality(Stored') = n
        BY <1>1, <2>1 DEF Left, n
      <4>2. Left(r)' = MaxKept /\ Cardinality(next[r]) = 0
        BY <1>2, <2>1, <2>7, <4>1, FS_EmptySet
      <4> QED
        BY <3>1, <4>2
    <3>2. CASE q # r
      <4>1. q \in Due /\ q \in Runs /\ Left(q)' = Left(q)
        BY <1>1, <1>3, <2>2, <3>2 DEF Left, Due
      <4> QED
        BY <2>6, <2>7, <4>1 DEF Covers
    <3> QED
      BY <3>1, <3>2
  <2>9. Covers(next)'
    BY <2>2, <2>6, <2>7, <2>8 DEF Covers
  <2> QED
    BY <2>4, <2>5, <2>7, <2>9 DEF SurplusInv, Covered
<1> QED
  BY <1>5, <1>6

\* What a save lists, and then deletes, is the surplus it counted.
LEMMA ListIsCovered ==
  ASSUME HInv, PruneInv, SurplusInv, NEW r \in Runs, ListOldest(r)
  PROVE  SurplusInv'
<1> USE BoundsAssumption
<1> DEFINE oldest == Oldest(surplus[r])
<1>1. /\ save[r] = "list" /\ save' = [save EXCEPT ![r] = "done"] /\ Stored' = Stored
      /\ drop' = [drop EXCEPT ![r] = [records |-> oldest, traces |-> oldest, since |-> clock]]
      /\ surplus' = [surplus EXCEPT ![r] = 0] /\ UNCHANGED unpruned
  BY DEF ListOldest, Deletion, Stored
<1>2. /\ IsFiniteSet(Stored) /\ surplus[r] \in Nat /\ surplus[r] > 0
      /\ drop[r].records = {} /\ r \notin unpruned /\ surplus' \in [Runs -> Nat]
  BY <1>1 DEF PruneInv, SurplusInv, Tidy
<1>3. /\ IsFiniteSet(oldest) /\ oldest \subseteq Stored
      /\ oldest = Stored \/ surplus[r] <= Cardinality(oldest)
  BY <1>2, OldestAreEnough DEF HInv, Records
<1> HIDE DEF oldest
<1>4. /\ save'[r] = "done" /\ drop'[r].records = oldest
      /\ \A q \in Runs \ {r} : SameSave(q)
  BY <1>1 DEF HInv, PruneInv, SameSave, Droppers
<1>5. r \in Due /\ Due' \subseteq Due /\ Unfinished' \subseteq Unfinished
      /\ (oldest # {} => Due' = Due /\ Unfinished' = Unfinished)
  BY <1>1, <1>4 DEF Due, Unfinished, SameSave
<1>6. IsFiniteSet(Unfinished')
  BY <1>5, FS_Subset DEF SurplusInv, Tidy
<1>7. Tidy'
  <2>1. IsFiniteSet(unpruned') /\ unpruned' \subseteq Runs
    BY <1>1 DEF SurplusInv, Tidy
  <2>2. ASSUME NEW q \in Runs
        PROVE /\ save'[q] # "done" => drop'[q].records = {} /\ q \notin unpruned'
              /\ q \in unpruned' => drop'[q].records = {}
              /\ save'[q] = "list" => surplus'[q] > 0
    BY <1>1, <1>2, <1>4 DEF SurplusInv, Tidy, SameSave
  <2> QED
    BY <1>6, <2>1, <2>2 DEF Tidy
<1>8. CASE oldest = Stored
  <2>1. CASE Stored = {}
    <3>1. Cardinality(Stored') <= MaxKept
      BY <1>1, <2>1, FS_EmptySet
    <3> QED
      BY <1>1, <1>2, <1>6, <1>7, <3>1, SmallStore DEF SurplusInv, Tidy
  <2>2. CASE Stored # {}
    <3>1. PICK later \in [Due -> SUBSET Unfinished] : Covers(later)
      BY DEF SurplusInv, Covered
    <3>2. Due' = Due /\ Unfinished' = Unfinished
      BY <1>5, <1>8, <2>2
    <3>3. HistoryIsBounded'
      BY <1>1, <3>2 DEF SurplusInv, HistoryIsBounded
    <3>4. Left(r)' = 0
      <4>1. Stored' \ drop'[r].records = {}
        BY <1>1, <1>4, <1>8
      <4> QED
        BY <1>4, <4>1, FS_EmptySet DEF Left
    <3>5. Cardinality(later[r]) \in Nat
      BY <1>5, <3>1, FS_Subset, FS_CardinalityType DEF SurplusInv, Tidy
    <3>6. \A q \in Due \ {r} : Left(q)' = Left(q)
      BY <1>1, <1>4 DEF Left, Due, SameSave
    <3>7. Covers(later)'
      BY <3>1, <3>2, <3>4, <3>5, <3>6 DEF Covers
    <3> QED
      BY <1>7, <3>1, <3>2, <3>3, <3>7 DEF SurplusInv, Covered
  <2> QED
    BY <2>1, <2>2
<1>9. CASE oldest # Stored
  <2>1. PICK later \in [Due -> SUBSET Unfinished] : Covers(later)
    BY DEF SurplusInv, Covered
  <2>2. oldest # {}
    BY <1>2, <1>3, <1>9, FS_EmptySet
  <2>3. Due' = Due /\ Unfinished' = Unfinished
    BY <1>5, <2>2
  <2>4. HistoryIsBounded'
    BY <1>1, <2>3 DEF SurplusInv, HistoryIsBounded
  <2>5. Left(r)' <= Left(r) /\ Left(r) \in Int /\ Left(r)' \in Int
    <3>1. Stored \cap oldest = oldest
      BY <1>3
    <3>2. Cardinality(Stored \ oldest) = Cardinality(Stored) - Cardinality(oldest)
      BY <1>2, <3>1, FS_Difference
    <3>3. Cardinality(Stored) \in Nat /\ Cardinality(oldest) \in Nat
      BY <1>2, <1>3, FS_CardinalityType
    <3>4. Left(r) = Cardinality(Stored) - surplus[r] /\ Left(r)' = Cardinality(Stored \ oldest)
      BY <1>1, <1>4 DEF Left
    <3> QED
      BY <1>2, <1>3, <1>9, <3>2, <3>3, <3>4
  <2>6. Cardinality(later[r]) \in Nat
    BY <1>5, <2>1, FS_Subset, FS_CardinalityType DEF SurplusInv, Tidy
  <2>7. \A q \in Due \ {r} : Left(q)' = Left(q)
    BY <1>1, <1>4 DEF Left, Due, SameSave
  <2>8. Left(r)' <= MaxKept + Cardinality(later[r])
    BY <1>5, <2>1, <2>5, <2>6 DEF Covers
  <2>9. Covers(later)'
    BY <2>1, <2>3, <2>7, <2>8 DEF Covers
  <2> QED
    BY <1>7, <2>1, <2>3, <2>4, <2>9 DEF SurplusInv, Covered
<1> QED
  BY <1>8, <1>9

\* What a crash cuts short is counted as such until the next save has pruned.
LEMMA CrashIsCovered ==
  ASSUME HInv, PruneInv, SurplusInv, Crash
  PROVE  SurplusInv'
<1> USE BoundsAssumption
<1>1. /\ unpruned' = unpruned \cup Unfinished /\ Stored' = Stored
      /\ save' = [r \in Runs |-> IF save[r] = "off" THEN "off" ELSE "done"]
      /\ drop' = [j \in Droppers |-> NoDrop] /\ NoDrop.records = {}
  BY DEF Crash, Stored, NoDrop
<1>2. \A r \in Runs : save'[r] \in {"off", "done"} /\ drop'[r].records = {}
  BY <1>1 DEF Droppers
<1>3. Unfinished' = {} /\ Due' = {}
  BY <1>2 DEF Unfinished, Due
<1>4. unpruned \cap Unfinished = {}
  BY DEF SurplusInv, Tidy, Unfinished
<1>5. IsFiniteSet(unpruned) /\ IsFiniteSet(Unfinished)
  BY DEF SurplusInv, Tidy
<1>6. /\ IsFiniteSet(unpruned')
      /\ Cardinality(unpruned') = Cardinality(unpruned) + Cardinality(Unfinished) - Cardinality(unpruned \cap Unfinished)
  BY <1>1, <1>5, FS_Union
<1>7. /\ Cardinality(unpruned \cap Unfinished) = 0 /\ Cardinality(Unfinished') = 0
      /\ Cardinality(unpruned) \in Nat /\ Cardinality(Unfinished) \in Nat
  BY <1>3, <1>4, <1>5, FS_EmptySet, FS_CardinalityType
<1>8. HistoryIsBounded'
  <2>1. Cardinality(Stored) \in Nat
    BY FS_CardinalityType DEF PruneInv
  <2> QED
    BY <1>1, <1>6, <1>7, <2>1 DEF SurplusInv, HistoryIsBounded
<1>9. Tidy'
  <2>1. \A r \in Runs : save'[r] # "done" => r \notin unpruned'
    BY <1>1 DEF SurplusInv, Tidy, Unfinished
  <2> QED
    BY <1>1, <1>2, <1>3, <1>6, <2>1, FS_EmptySet DEF SurplusInv, Tidy, Unfinished
<1>10. [r \in {} |-> {}] \in [Due' -> SUBSET Unfinished']
  BY <1>3
<1>11. Covers([r \in {} |-> {}])'
  BY <1>3 DEF Covers
<1> QED
  BY <1>8, <1>9, <1>10, <1>11 DEF SurplusInv, Covered

\* Every step stayAfter the surplus of the overlapping saves covered.
LEMMA StepIsCovered == HInv /\ PruneInv /\ SurplusInv /\ [Next]_histVars => SurplusInv'
<1> SUFFICES ASSUME HInv, PruneInv, SurplusInv, [Next]_histVars PROVE SurplusInv'
  OBVIOUS
<1> USE BoundsAssumption
<1>0. drop \in [Droppers -> [records : SUBSET Ids, traces : SUBSET Ids, since : Nat]]
  BY DEF PruneInv
<1>1. ASSUME Stored' \subseteq Stored, UNCHANGED <<unpruned, save, surplus>>,
             \A r \in Runs : drop'[r].records = drop[r].records
      PROVE  SurplusInv'
  <2>1. \A r \in Runs : SameSave(r) \/ (r \notin Due /\ r \notin Due')
    BY <1>1 DEF SameSave
  <2>2. Unfinished' = Unfinished
    BY <1>1 DEF Unfinished
  <2>3. Tidy'
    BY <1>1, <2>2 DEF SurplusInv, Tidy
  <2>4. Covered' /\ HistoryIsBounded'
    BY <1>1, <2>1, <2>2, NoSaveEnds, Zenon
  <2> QED
    BY <2>3, <2>4 DEF SurplusInv
<1>2. ASSUME NEW r \in Runs, PutFails(r) PROVE SurplusInv'
  <2>1. /\ save[r] = "off" /\ save' = [save EXCEPT ![r] = "done"] /\ Stored' = Stored
        /\ UNCHANGED <<unpruned, drop, surplus>>
    BY <1>2 DEF PutFails, Stored
  <2>2. save'[r] = "done" /\ drop[r].records = {} /\ r \notin unpruned
        /\ \A q \in Runs \ {r} : save'[q] = save[q]
    BY <2>1 DEF HInv, SurplusInv, Tidy
  <2>3. \A q \in Runs : SameSave(q) \/ (q \notin Due /\ q \notin Due')
    BY <2>1, <2>2 DEF Due, SameSave
  <2>4. Unfinished' = Unfinished
    BY <2>1, <2>2 DEF Unfinished
  <2>5. Tidy'
    BY <2>1, <2>2, <2>4 DEF SurplusInv, Tidy
  <2>6. Stored' \subseteq Stored /\ UNCHANGED unpruned
    BY <2>1
  <2>7. Covered' /\ HistoryIsBounded'
    BY <2>3, <2>4, <2>6, NoSaveEnds, Zenon
  <2> QED
    BY <2>5, <2>7 DEF SurplusInv
<1>3. ASSUME NEW ids \in SUBSET Ids \ {{}}, UserDeletes(ids) PROVE SurplusInv'
  <2>1. /\ drop' = [drop EXCEPT ![User] = Deletion(ids)]
        /\ UNCHANGED <<db, unpruned, save, surplus>>
    BY <1>3 DEF UserDeletes, storeVars, calls
  <2>2. \A r \in Runs : drop'[r] = drop[r]
    BY <1>0, <2>1 DEF Droppers
  <2> QED
    BY <1>1, <2>1, <2>2 DEF Stored
<1>4. ASSUME NEW j \in Droppers, DropRecords(j) PROVE SurplusInv'
  <2>1. CASE j = User
    <3>1. /\ Stored' \subseteq Stored /\ UNCHANGED <<unpruned, save, surplus>>
          /\ drop' = [drop EXCEPT ![j] = [records |-> {}, traces |-> drop[j].traces, since |-> 0]]
      BY <1>4, <2>1 DEF DropRecords, Stored, Without, Restrict
    <3>2. \A r \in Runs : drop'[r] = drop[r]
      BY <1>0, <2>1, <3>1 DEF Droppers
    <3> QED
      BY <1>1, <3>1, <3>2
  <2>2. CASE j \in Runs
    BY <1>4, <2>2, PruneIsCovered
  <2> QED
    BY <2>1, <2>2 DEF Droppers
<1>5. ASSUME NEW j \in Droppers, NEW i \in Ids, DropTrace(j, i) PROVE SurplusInv'
  <2>1. drop' = [drop EXCEPT ![j].traces = @ \ {i}] /\ UNCHANGED <<db, unpruned, save, surplus>>
    BY <1>5 DEF DropTrace, storeVars, saveVars, calls
  <2>2. \A r \in Runs : drop'[r].records = drop[r].records
    BY <1>0, <2>1 DEF Droppers
  <2> QED
    BY <1>1, <2>1, <2>2 DEF Stored
<1>6. ASSUME ClearRecords \/ ClearTraces \/ List PROVE SurplusInv'
  <2>1. Stored' \subseteq Stored /\ UNCHANGED <<unpruned, save, surplus, drop>>
    BY <1>6 DEF ClearRecords, ClearTraces, List, storeVars, saveVars, calls, Stored, Without, Restrict
  <2> QED
    BY <1>1, <2>1
<1>7. ASSUME NEW p \in Persists, PersistStep(p) \/ BeginPersist(p) PROVE SurplusInv'
  <2>1. UNCHANGED <<unpruned, save, surplus, drop>>
    BY <1>7 DEF PersistStep, BeginPersist, ReadExisting, ReadFails, OpenTrace,
       WriteLite, WriteRest, UpdateRows, TryAgain, saveVars, calls
  <2>2. CASE UpdateRows(p)
    <3>1. Stored' = Stored
      BY <2>2 DEF UpdateRows, HInv, Stored
    <3> QED
      BY <1>1, <2>1, <3>1
  <2>3. CASE ~UpdateRows(p)
    <3>1. UNCHANGED db
      BY <1>7, <2>3 DEF PersistStep, BeginPersist, ReadExisting, ReadFails, OpenTrace,
         WriteLite, WriteRest, TryAgain, storeVars
    <3> QED
      BY <1>1, <2>1, <3>1 DEF Stored
  <2> QED
    BY <2>2, <2>3
<1>8. ASSUME UNCHANGED histVars PROVE SurplusInv'
  BY <1>1, <1>8 DEF histVars, Stored
<1> QED
  BY <1>2, <1>3, <1>4, <1>5, <1>6, <1>7, <1>8, PutIsCovered, CountIsCovered, ListIsCovered, CrashIsCovered
  DEF Next, SaveStep, DropStep

\* The history exceeds its limit only by saves that have not pruned and by what
\* a crash cut short, however saves, deletions and crashes overlap
\* (simulationStore.ts:112, SimulationHistoryService.ts:717).
THEOREM HistoryStaysBounded == Spec => []HistoryIsBounded
<1>1. HistInit => HInv /\ PruneInv /\ SurplusInv
  BY InitHolds, InitPrunes, InitIsCovered
<1>2. HInv /\ PruneInv /\ SurplusInv /\ [Next]_histVars => (HInv /\ PruneInv /\ SurplusInv)'
  BY StepHolds, StepPrunes, StepIsCovered
<1>3. SurplusInv => HistoryIsBounded
  BY DEF SurplusInv
<1> QED
  BY <1>1, <1>2, <1>3, PTL DEF Spec
=============================================================================
