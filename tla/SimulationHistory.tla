--------------------------- MODULE SimulationHistory ---------------------------
(***************************************************************************)
(* The stored simulations of the browser: the history in IndexedDB         *)
(* (SimulationHistoryService.ts), the decoded traces in the origin private *)
(* file system (TraceVaultService.ts) and the functions that write both    *)
(* (simulationStore.ts).  Every await is a point where the other calls,    *)
(* all fired without waiting for each other, take their steps; a           *)
(* transaction of IndexedDB is one step.                                   *)
(*                                                                         *)
(* A run is one simulation that finished.  Its id is given by IdOf: a      *)
(* replay reuses the hash of its transaction.  A decoded trace stands for  *)
(* its rows by what the code counts of them: all, those of jumps, of        *)
(* internal calls, with an internal parent and with a source file (see      *)
(* summarizeTraceRows), and those with any sign of internal calls, its      *)
(* internal info (internalInfoCount).  A trace decoded from stripped data   *)
(* has no internal info; it may be shorter or longer than one that has.     *)
(***************************************************************************)
EXTENDS Naturals, FiniteSets, Functions

CONSTANTS Runs,         \* simulations that may finish
          Ids,          \* the ids they are stored under
          IdOf,         \* [Runs -> Ids]
          Persists,     \* calls of persistDecodedTrace
          IdDecoded,    \* [Persists -> Ids], the id a call is for
          Decoded,      \* the counts of its rows
          MaxKept,      \* MAX_SIMULATIONS
          MaxTries,     \* tries of the update of the rows
          Scopes,       \* bound: sets of saves and persists that happen together
          MaxActs,      \* bound on what the user does and on crashes
          NoRows, NoCache, User

\* null is a parent to internalInfoCount and none to summarizeTraceRows
Decodes == {Decoded[p] : p \in Persists}
ASSUME DecodesAssumption == \A d \in Decodes :
  /\ d \in [rows : Nat, jumps : Nat, internals : Nat, parents : Nat, mapped : Nat, info : Nat]
  /\ d.info <= d.rows /\ d.mapped <= d.rows
  /\ d.jumps <= d.info /\ d.internals <= d.info /\ d.parents <= d.info
ASSUME BoundsAssumption ==
  /\ IdOf \in [Runs -> Ids] /\ IdDecoded \in [Persists -> Ids]
  /\ MaxKept \in Nat \ {0} /\ MaxTries \in Nat \ {0} /\ MaxActs \in Nat
  /\ User \notin Runs /\ Scopes \subseteq SUBSET (Runs \cup Persists)

Droppers == Runs \cup {User}

VARIABLES
  db,        \* both object stores: id to [run, at, rows]
  vault,     \* directories of the vault: id to the rows of the lite file
  metaCache, \* ids of the list kept in memory, or NoCache
  clock,     \* Date.now(): the next timestamp
  save,      \* save[r]: where saveStoredSimulation of run r is
  surplus,   \* surplus[r]: how many records that call counted above the limit
  drop,      \* drop[j]: the deletions a save or the user has in progress
  persist,   \* persist[p]: where a call of persistDecodedTrace is
  scope,     \* bound: the saves and persists of this behaviour
  acts,      \* bound: deletions, clears and crashes so far
  unpruned,  \* history: saves a crash cut short and no later save made good
  rich,      \* history: ids whose vault took rows with internal info, see Stale
  kept       \* history: those of them whose record took such rows too

histVars == <<db, vault, metaCache, clock, save, surplus, drop, persist, unpruned, rich, kept, acts, scope>>
calls == <<clock, save, surplus, unpruned, scope>>
saveVars == <<calls, acts>>
richVars == <<rich, kept>>
storeVars == <<db, metaCache>>

\* `since' is a history field: the clock when the ids were chosen
NoDrop == [records |-> {}, traces |-> {}, since |-> 0]

Deletion(ids) == [records |-> ids, traces |-> ids, since |-> clock]
HistInit ==
  /\ db = << >> /\ vault = << >> /\ metaCache = NoCache /\ clock = 1
  /\ save = [r \in Runs |-> "off"] /\ surplus = [r \in Runs |-> 0]
  /\ drop = [j \in Droppers |-> NoDrop]
  /\ persist = [p \in Persists |-> [pc |-> "off", tries |-> 0]]
  /\ unpruned = {} /\ acts = 0 /\ scope \in Scopes /\ rich = {} /\ kept = {}

Stored == DOMAIN db
Without(f, S) == Restrict(f, DOMAIN f \ S)
summarizeTraceRows(rows) ==
  IF rows = NoRows
  THEN [rows |-> 0, jumps |-> 0, internals |-> 0, parents |-> 0, mapped |-> 0, info |-> 0]
  ELSE rows
internalInfoCount(rows) == summarizeTraceRows(rows).info

-----------------------------------------------------------------------------
(* saveStoredSimulation                                                     *)

\* saveSimulation: one transaction over both stores; its completion updates the list
Put(r) ==
  /\ save[r] = "off" /\ r \in scope
  /\ db' = [i \in Stored \cup {IdOf[r]} |->
              IF i = IdOf[r] THEN [run |-> r, at |-> clock, rows |-> NoRows] ELSE db[i]]
  /\ metaCache' = IF metaCache = NoCache THEN NoCache ELSE metaCache \cup {IdOf[r]}
  /\ kept' = kept \ {IdOf[r]}
  /\ clock' = clock + 1
  /\ save' = [save EXCEPT ![r] = "count"]
  /\ UNCHANGED <<vault, surplus, drop, persist, unpruned, rich, acts, scope>>

PutFails(r) ==
  /\ save[r] = "off" /\ r \in scope
  /\ save' = [save EXCEPT ![r] = "done"]
  /\ UNCHANGED <<db, vault, metaCache, clock, surplus, drop, persist, unpruned, richVars, acts, scope>>

\* Mutant: the limit itself counts as too many only when it is passed by two
CountLate(r) ==
  LET n == Cardinality(Stored) IN
  /\ save[r] = "count"
  /\ surplus' = [surplus EXCEPT ![r] = IF n <= MaxKept + 1 THEN 0 ELSE n - MaxKept]
  /\ save' = [save EXCEPT ![r] = IF n <= MaxKept + 1 THEN "done" ELSE "list"]
  /\ unpruned' = IF n <= MaxKept + 1 THEN {} ELSE unpruned
  /\ UNCHANGED <<db, vault, metaCache, clock, drop, persist, richVars, acts, scope>>

\* getRetentionCandidates, its first transaction
CountRecords(r) ==
  LET n == Cardinality(Stored) IN
  /\ save[r] = "count"
  /\ surplus' = [surplus EXCEPT ![r] = IF n <= MaxKept THEN 0 ELSE n - MaxKept]
  /\ save' = [save EXCEPT ![r] = IF n <= MaxKept THEN "done" ELSE "list"]
  /\ unpruned' = IF n <= MaxKept THEN {} ELSE unpruned
  /\ UNCHANGED <<db, vault, metaCache, clock, drop, persist, richVars, acts, scope>>

Oldest(n) ==
  {i \in Stored : Cardinality({j \in Stored : db[j].at < db[i].at}) < n}

\* Mutant: the cursor runs from the newest record
Newest(n) ==
  {i \in Stored : Cardinality({j \in Stored : db[j].at > db[i].at}) < n}
ListNewest(r) ==
  /\ save[r] = "list"
  /\ drop' = [drop EXCEPT ![r] = Deletion(Newest(surplus[r]))]
  /\ save' = [save EXCEPT ![r] = "done"]
  /\ surplus' = [surplus EXCEPT ![r] = 0]
  /\ UNCHANGED <<db, vault, metaCache, clock, persist, unpruned, richVars, acts, scope>>

\* getRetentionCandidates, its second transaction; then both deletions start
ListOldest(r) ==
  /\ save[r] = "list"
  /\ drop' = [drop EXCEPT ![r] = Deletion(Oldest(surplus[r]))]
  /\ save' = [save EXCEPT ![r] = "done"]
  /\ surplus' = [surplus EXCEPT ![r] = 0]
  /\ UNCHANGED <<db, vault, metaCache, clock, persist, unpruned, richVars, acts, scope>>

-----------------------------------------------------------------------------
(* deleteStoredSimulation(s), clearStoredSimulations, clearStoredTraces     *)

Act == acts < MaxActs /\ acts' = acts + 1

UserDeletes(ids) ==
  /\ ids \subseteq {IdOf[r] : r \in {q \in Runs : save[q] # "off"}}
  /\ drop[User].records = {} /\ drop[User].traces = {}
  /\ drop' = [drop EXCEPT ![User] = Deletion(ids)]
  /\ Act
  /\ UNCHANGED <<storeVars, vault, calls, persist, richVars>>

\* Mutant: the list in memory keeps what was deleted
DropRecordsOnly(j) ==
  /\ drop[j].records # {}
  /\ db' = Without(db, drop[j].records)
  /\ kept' = kept \ drop[j].records
  /\ drop' = [drop EXCEPT ![j] = [records |-> {}, traces |-> drop[j].traces, since |-> 0]]
  /\ unpruned' = IF j = User THEN unpruned ELSE {}
  /\ UNCHANGED <<vault, metaCache, clock, save, surplus, scope, acts, persist, rich>>

\* deleteSimulation(s): one transaction over both stores
DropRecords(j) ==
  /\ drop[j].records # {}
  /\ db' = Without(db, drop[j].records)
  /\ kept' = kept \ drop[j].records
  /\ metaCache' = IF metaCache = NoCache THEN NoCache ELSE metaCache \ drop[j].records
  /\ drop' = [drop EXCEPT ![j] = [records |-> {}, traces |-> drop[j].traces, since |-> 0]]
  /\ unpruned' = IF j = User THEN unpruned ELSE {}
  /\ UNCHANGED <<vault, clock, save, surplus, scope, acts, persist, rich>>

BeingWritten(i) == \E p \in Persists : persist[p].pc \in {"lite", "rest"} /\ IdDecoded[p] = i

\* deleteDecodedTrace: a directory with a file open for writing cannot be removed
DropTrace(j, i) ==
  /\ i \in drop[j].traces
  /\ \/ vault' = Without(vault, {i}) /\ rich' = rich \ {i} /\ kept' = kept \ {i}
     \/ BeingWritten(i) /\ UNCHANGED <<vault, richVars>>
  /\ drop' = [drop EXCEPT ![j].traces = @ \ {i}]
  /\ UNCHANGED <<storeVars, saveVars, persist>>

ClearRecords ==
  /\ db' = Without(db, Stored) /\ metaCache' = NoCache /\ kept' = {}
  /\ Act
  /\ UNCHANGED <<vault, calls, drop, persist, rich>>

ClearTraces ==
  /\ vault' = Without(vault, DOMAIN vault) /\ rich' = {} /\ kept' = {}
  /\ ~ \E i \in Ids : BeingWritten(i)
  /\ Act
  /\ UNCHANGED <<storeVars, calls, drop, persist>>

\* listStoredSimulations: the first call reads the store and keeps the list
List ==
  /\ metaCache = NoCache
  /\ metaCache' = Stored
  /\ UNCHANGED <<db, vault, saveVars, drop, persist, richVars>>

-----------------------------------------------------------------------------
(* loadStoredSimulation                                                     *)

InVault(i) == IF i \in DOMAIN vault THEN vault[i] ELSE NoRows
InRecord(i) == IF i \in Stored THEN db[i].rows ELSE NoRows
\* getTraceDirectory creates the directory it is asked for
Opened(i) == [j \in DOMAIN vault \cup {i} |-> InVault(j)]

pickTraceRows(i) ==
  CASE internalInfoCount(InVault(i)) > 0 -> InVault(i)
    [] internalInfoCount(InVault(i)) = 0 /\ internalInfoCount(InRecord(i)) > 0 -> InRecord(i)
    [] OTHER -> IF summarizeTraceRows(InVault(i)).rows > 0 THEN InVault(i) ELSE InRecord(i)

\* the rows a load of the simulation gives; a failed read leaves those of the record
Loadable(i) == {pickTraceRows(i), InRecord(i)}

-----------------------------------------------------------------------------
(* persistDecodedTrace                                                      *)

PersistAt(p, pc) == persist[p].pc = pc
PersistTo(p, pc) == persist' = [persist EXCEPT ![p].pc = pc]
PersistOver(p) == persist' = [persist EXCEPT ![p] = [pc |-> "over", tries |-> 0]]

\* Stripped: without internal info.  Stale: stripped calls for i that may still
\* write, because they read the vault before or could not
Stripped(p) == internalInfoCount(Decoded[p]) = 0
Stale(i) ==
  {p \in Persists : /\ IdDecoded[p] = i /\ Stripped(p)
                    /\ persist[p].pc \in {"open", "lite", "rest", "update"}}

\* the results page hands over the rows of a run it decoded, and does not wait
BeginPersist(p) ==
  /\ persist[p].pc = "off" /\ p \in scope
  /\ PersistTo(p, "read")
  /\ UNCHANGED <<storeVars, vault, saveVars, drop, richVars>>

\* Mutant: the stored trace stays when it is the longer one
ReadByLength(p) ==
  LET i == IdDecoded[p]
      stays == summarizeTraceRows(InVault(i)).rows > summarizeTraceRows(Decoded[p]).rows
  IN /\ PersistAt(p, "read")
     /\ vault' = Opened(i)
     /\ IF stays THEN PersistOver(p) ELSE PersistTo(p, "open")
     /\ UNCHANGED <<storeVars, saveVars, drop, richVars>>

\* the stored trace is read; one with internal info is not replaced by one without
ReadExisting(p) ==
  LET i == IdDecoded[p]
      stays == internalInfoCount(InVault(i)) > 0 /\ Stripped(p)
  IN /\ PersistAt(p, "read")
     /\ vault' = Opened(i)
     /\ IF stays THEN PersistOver(p) ELSE PersistTo(p, "open")
     /\ UNCHANGED <<storeVars, saveVars, drop, richVars>>

\* "A failed read should not prevent a fresh trace from being persisted."
ReadFails(p) ==
  LET i == IdDecoded[p] IN
  /\ PersistAt(p, "read")
  /\ PersistTo(p, "open")
  /\ rich' = IF Stripped(p) THEN rich \ {i} ELSE rich
  /\ kept' = IF Stripped(p) THEN kept \ {i} ELSE kept
  /\ UNCHANGED <<storeVars, vault, saveVars, drop>>

OpenTrace(p) ==
  /\ PersistAt(p, "open")
  /\ vault' = Opened(IdDecoded[p])
  /\ PersistTo(p, "lite")
  /\ UNCHANGED <<storeVars, saveVars, drop, richVars>>

\* a file in a directory that was removed meanwhile cannot be written
WriteLite(p) ==
  LET i == IdDecoded[p] IN
  /\ PersistAt(p, "lite")
  /\ \/ /\ i \in DOMAIN vault
        /\ vault' = [vault EXCEPT ![i] = Decoded[p]]
        /\ rich' = IF ~Stripped(p) /\ Stale(i) = {} THEN rich \cup {i} ELSE rich
        /\ PersistTo(p, "rest")
     \/ i \notin DOMAIN vault /\ PersistOver(p) /\ UNCHANGED <<vault, rich>>
  /\ UNCHANGED <<storeVars, saveVars, drop, kept>>

\* the heavy and the meta file, which no property looks at
WriteRest(p) ==
  /\ PersistAt(p, "rest")
  /\ IF IdDecoded[p] \in DOMAIN vault THEN PersistTo(p, "update") ELSE PersistOver(p)
  /\ UNCHANGED <<storeVars, vault, saveVars, drop, richVars>>

\* Mutant: the longer rows stay, whatever they are
KeepLonger(existing, incoming) ==
  summarizeTraceRows(existing).rows > summarizeTraceRows(incoming).rows

\* kept when the incoming rows are fewer and no count of theirs is higher
shouldKeepExistingTraceRows(existing, incoming) ==
  LET old == summarizeTraceRows(existing)
      new == summarizeTraceRows(incoming)
  IN /\ old.rows > 0
     /\ \/ new.rows = 0
        \/ /\ new.rows < old.rows /\ new.jumps <= old.jumps
           /\ new.internals <= old.internals /\ new.parents <= old.parents
           /\ new.mapped <= old.mapped

\* what summarizeTraceRows counts of the internal info
Counted(rows) == LET s == summarizeTraceRows(rows) IN s.jumps + s.internals + s.parents

\* updateSimulationDecodedRows: one try is one transaction
UpdateRows(p) ==
  LET i == IdDecoded[p]
      rows == Decoded[p]
      after == IF shouldKeepExistingTraceRows(db[i].rows, rows) THEN db[i].rows ELSE rows
  IN /\ PersistAt(p, "update")
     /\ i \in Stored
     /\ db' = [db EXCEPT ![i].rows = after]
     /\ kept' = IF i \in rich /\ (Counted(rows) > 0 \/ internalInfoCount(after) > 0)
                THEN kept \cup {i} ELSE kept
     /\ PersistOver(p)
     /\ UNCHANGED <<vault, metaCache, saveVars, drop, rich>>

\* the record is not there (yet): again after a delay, or never
TryAgain(p) ==
  /\ PersistAt(p, "update")
  /\ IdDecoded[p] \notin Stored
  /\ IF persist[p].tries + 1 < MaxTries
     THEN persist' = [persist EXCEPT ![p].tries = @ + 1]
     ELSE PersistOver(p)
  /\ UNCHANGED <<storeVars, vault, saveVars, drop, richVars>>

-----------------------------------------------------------------------------
\* saves whose record is in but whose pruning is not over
Unfinished == {r \in Runs : save[r] \in {"count", "list"} \/ drop[r].records # {}}

\* the tab is closed or reloaded: the stores stay, every call is gone
Crash ==
  /\ metaCache' = NoCache
  /\ unpruned' = unpruned \cup Unfinished
  /\ save' = [r \in Runs |-> IF save[r] = "off" THEN "off" ELSE "done"]
  /\ drop' = [j \in Droppers |-> NoDrop]
  /\ persist' = [p \in Persists |-> IF persist[p].pc = "off" THEN persist[p] ELSE [pc |-> "over", tries |-> 0]]
  /\ Act
  /\ UNCHANGED <<db, vault, clock, surplus, richVars, scope>>

SaveStep(r) == CountRecords(r) \/ ListOldest(r)
DropStep(j) == \/ DropRecords(j) \/ \E i \in Ids : DropTrace(j, i)
PersistStep(p) ==
  \/ ReadExisting(p) \/ ReadFails(p) \/ OpenTrace(p) \/ WriteLite(p)
  \/ WriteRest(p) \/ UpdateRows(p) \/ TryAgain(p)

Next ==
  \/ \E r \in Runs : Put(r) \/ PutFails(r) \/ SaveStep(r)
  \/ \E ids \in SUBSET Ids \ {{}} : UserDeletes(ids)
  \/ \E j \in Droppers : DropStep(j)
  \/ ClearRecords \/ ClearTraces \/ List
  \/ \E p \in Persists : PersistStep(p) \/ BeginPersist(p)
  \/ Crash

Spec == HistInit /\ [][Next]_histVars

-----------------------------------------------------------------------------
(* The state has its type, and the list kept in memory is the list of the  *)
(* store: what one step of a save, a deletion or a clear does to the store  *)
(* it does to the list, whatever other calls are half way.                  *)
StoresAgree ==
  /\ Stored \subseteq Ids /\ DOMAIN vault \subseteq Ids
  /\ \A i \in Stored : /\ IdOf[db[i].run] = i /\ db[i].at < clock
                       /\ db[i].rows \in Decodes \cup {NoRows}
  /\ \A i \in DOMAIN vault : vault[i] \in Decodes \cup {NoRows}
  /\ save \in [Runs -> {"off", "count", "list", "done"}]
  /\ kept \subseteq rich /\ rich \subseteq Ids
  /\ metaCache = NoCache \/ metaCache = Stored

(* "Keep last 100 simulations": however saves, deletions and crashes        *)
(* overlap, the history holds at most MaxKept records more than the saves   *)
(* that have not pruned yet, and the next save makes good what a crash left. *)
HistoryIsBounded ==
  Cardinality(Stored) <= MaxKept + Cardinality(Unfinished) + Cardinality(unpruned)

(* Pruning takes the old end of the history: of the records that stay, none *)
(* is older than one it removes, whatever was saved or deleted between the  *)
(* listing and the deletion -- but for an id that was saved again meanwhile. *)
PrunesOldest ==
  [][\A r \in Runs :
       drop[r].records # {} /\ drop'[r].records = {} /\ acts' = acts
       => \A i \in Stored \ Stored', j \in Stored' :
            db[i].at < drop[r].since => db[i].at < db[j].at]_histVars

(* Rows with internal info are not lost to a decode of stripped data,       *)
(* shorter or longer, before or after.  Once the vault took them and no     *)
(* stripped call has its read behind it, a load gives such rows until a     *)
(* stripped call cannot read the vault or the trace is deleted.  Once a     *)
(* call whose rows summarizeTraceRows counts internal info of updated the   *)
(* record too, the record has such rows, for a load that cannot read the    *)
(* vault.                                                                  *)
RichRowsStay ==
  /\ \A i \in rich \cap Stored : internalInfoCount(pickTraceRows(i)) > 0
  /\ \A i \in kept : \A rows \in Loadable(i) : internalInfoCount(rows) > 0
=============================================================================
