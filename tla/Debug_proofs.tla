------------------------------ MODULE Debug_proofs ------------------------------
(***************************************************************************)
(* For every number of operations, sessions, traces and snapshots of a     *)
(* page: the last open and the last navigation win and no started session  *)
(* is forgotten (DebugSession).  For every number of jobs and every size   *)
(* of the job map: a page connects to a job once, shows the outcome of its *)
(* own job only, and leaves no stream behind (DebugPrep).                  *)
(***************************************************************************)
EXTENDS DebugPrep, DebugSession, FiniteSetTheorems, SequenceTheorems, TLAPS

-----------------------------------------------------------------------------
(***************************************************************************)
(* DebugSession: the inductive invariant                                   *)
(***************************************************************************)

\* What op[o] may be.
Operation ==
    [kind : {"none", "nav", "loop", "end"} \cup Opens,
     pc : {"idle", "trace", "starting", "started", "batch", "query",
           "fetch", "diff", "next", "ending"},
     sid : Live \cup {None}, snap : Snaps,
     mine : BOOLEAN, newest : BOOLEAN, inv : BOOLEAN]

PageTyped ==
    /\ op \in [Ops -> Operation]
    /\ session \in Sessions \cup {None} /\ wanted \in Sessions \cup {None}
    /\ shown \in Snaps \cup {None} /\ asked \in Snaps \cup {None}
    /\ pending \in Snaps \cup {None}
    /\ cache \in [Snaps -> Live \cup {Rows, None}] /\ invalid \in BOOLEAN
    /\ alive \subseteq Live /\ born \subseteq Live /\ owed \subseteq Live

OneLoop == \A x, y \in Ops : op[x].kind = "loop" /\ op[y].kind = "loop" => x = y

\* An operation waits only where one of its kind can.
Fits(r) ==
    /\ r.pc \in {"trace", "batch"} => r.kind \in Opens
    /\ r.pc \in {"starting", "started"} => r.kind = "start"
    /\ r.pc = "ending" => r.kind = "end"
    /\ r.pc = "query" => r.kind = "nav"
    /\ r.pc = "next" => r.kind = "loop"
    /\ r.newest => r.pc \in {"fetch", "diff"}
    /\ r.kind \in Opens => r.sid \in Live
Shaped == \A o \in Ops : Fits(op[o])

\* An open that has not been superseded is the only one, it is for the session
\* asked for last, and past its installation that is the session of the page.
Opening(o) == op[o].kind \in Opens /\ op[o].mine
OpensInOrder ==
    /\ \A x, y \in Ops : Opening(x) /\ Opening(y) => x = y
    /\ \A o \in Ops : Opening(o) =>
          /\ wanted = op[o].sid
          /\ op[o].pc \in {"trace", "starting", "started"} \/ session = wanted
    /\ LatestOpenWins

\* A session the bridge made for a start is in the hands of the start that
\* waits for it, or of the call that ends it.
InHand(s) == \E o \in Ops : op[o].pc \in {"started", "ending"} /\ op[o].sid = s
Handed == \A s \in owed : InHand(s)

\* One operation at most has the newest navigation, and it is fetching what was
\* asked for last.
AskedFor ==
    /\ \A x, y \in Ops : op[x].newest /\ op[y].newest => x = y
    /\ \A o \in Ops : op[o].pc = "fetch" /\ Current(o) => asked = op[o].snap
    /\ NewestNavigationWins

SInv == PageTyped /\ OneLoop /\ Shaped /\ OpensInOrder /\ Handed /\ AskedFor

-----------------------------------------------------------------------------
(***************************************************************************)
(* DebugSession: lemmas about its operators                                *)
(***************************************************************************)

\* begin() and invalidate() take tokens from everybody and change nothing else.
LEMMA TokensTaken ==
    ASSUME PageTyped
    PROVE  /\ NoSession(op) \in [Ops -> Operation]
           /\ NoNavigation(op) \in [Ops -> Operation]
           /\ \A o \in Ops :
                 /\ NoSession(op)[o].kind = op[o].kind /\ NoNavigation(op)[o].kind = op[o].kind
                 /\ NoSession(op)[o].pc = op[o].pc /\ NoNavigation(op)[o].pc = op[o].pc
                 /\ NoSession(op)[o].sid = op[o].sid /\ NoNavigation(op)[o].sid = op[o].sid
                 /\ NoSession(op)[o].snap = op[o].snap /\ NoNavigation(op)[o].snap = op[o].snap
                 /\ ~NoSession(op)[o].newest /\ ~NoNavigation(op)[o].newest
                 /\ ~NoSession(op)[o].mine /\ NoNavigation(op)[o].mine = op[o].mine
<1>1. ASSUME NEW o \in Ops
      PROVE  /\ NoSession(op)[o] \in Operation /\ NoNavigation(op)[o] \in Operation
             /\ NoSession(op)[o].kind = op[o].kind /\ NoNavigation(op)[o].kind = op[o].kind
             /\ NoSession(op)[o].pc = op[o].pc /\ NoNavigation(op)[o].pc = op[o].pc
             /\ NoSession(op)[o].sid = op[o].sid /\ NoNavigation(op)[o].sid = op[o].sid
             /\ NoSession(op)[o].snap = op[o].snap /\ NoNavigation(op)[o].snap = op[o].snap
             /\ ~NoSession(op)[o].newest /\ ~NoNavigation(op)[o].newest
             /\ ~NoSession(op)[o].mine /\ NoNavigation(op)[o].mine = op[o].mine
  <2> PICK r \in Operation : r = op[o]
    BY DEF PageTyped
  <2>1. NoSession(op)[o] = [r EXCEPT !.mine = FALSE, !.newest = FALSE]
    BY DEF NoSession
  <2>2. NoNavigation(op)[o] = [r EXCEPT !.newest = FALSE]
    BY DEF NoNavigation
  <2> QED
    BY <2>1, <2>2 DEF Operation
<1>2. NoSession(op) \in [Ops -> Operation] /\ NoNavigation(op) \in [Ops -> Operation]
  BY <1>1 DEF NoSession, NoNavigation
<1> QED
  BY <1>1, <1>2

\* goToSnapshotInternal up to its first await: everybody else loses the
\* navigation, and the caller has returned, shows what it was asked for, or
\* fetches it.
LEMMA GoToEffect ==
    ASSUME PageTyped, NEW o \in Ops, NEW r \in Operation, GoToSnapshot(o, r)
    PROVE  /\ op' \in [Ops -> Operation]
           /\ \A x \in Ops \ {o} :
                 /\ op'[x].kind = op[x].kind /\ op'[x].pc = op[x].pc
                 /\ op'[x].sid = op[x].sid /\ op'[x].snap = op[x].snap
                 /\ op'[x].mine = op[x].mine /\ ~op'[x].newest
           /\ op'[o].kind \in {r.kind, "none"}
           /\ op'[o].kind \in Opens => op'[o].pc = "fetch" /\ op'[o].sid = r.sid
           /\ op'[o].pc \in {"fetch", "diff", "next", "idle"}
           /\ op'[o].pc = "next" => op'[o].kind = "loop"
           /\ op'[o].newest => op'[o].pc \in {"fetch", "diff"}
           /\ op'[o].pc = "fetch" => asked' = op'[o].snap
           /\ asked' \in Snaps \cup {None} /\ shown' \in Snaps \cup {None}
           /\ \/ asked' = None \/ shown' = asked'
              \/ op'[o].pc = "fetch" /\ op'[o].mine /\ op'[o].newest
<1>1. Idle \in Operation /\ Idle.kind = "none" /\ Idle.pc = "idle" /\ ~Idle.newest
  BY SessionAssumption DEF Idle, Operation
<1>2. Return(r) \in Operation /\ Return(r).kind \in {r.kind, "none"} \ Opens
      /\ Return(r).pc \in {"next", "idle"} /\ (Return(r).pc = "next" => Return(r).kind = "loop")
      /\ ~Return(r).newest
  BY <1>1, SessionAssumption DEF Return, Operation, Opens
<1> DEFINE nav == [r EXCEPT !.mine = TRUE, !.newest = TRUE]
<1>3. /\ nav \in Operation /\ nav.kind = r.kind /\ nav.sid = r.sid /\ nav.snap = r.snap
      /\ nav.mine /\ nav.newest
  BY DEF Operation
<1> HIDE DEF nav
<1>4. /\ Displayed(nav) \in Operation /\ Displayed(nav).kind \in {r.kind, "none"} \ Opens
      /\ Displayed(nav).pc \in {"diff", "idle"} /\ (Displayed(nav).newest => Displayed(nav).pc = "diff")
  BY <1>1, <1>3 DEF Displayed, Operation, Opens
<1>5. LET f == [nav EXCEPT !.pc = "fetch"] IN
      /\ f \in Operation /\ f.kind = r.kind /\ f.pc = "fetch" /\ f.sid = r.sid
      /\ f.snap = r.snap /\ f.mine /\ f.newest
  BY <1>3 DEF Operation
<1>6. ASSUME NEW x \in Operation, op' = [NoNavigation(op) EXCEPT ![o] = x]
      PROVE  /\ op' \in [Ops -> Operation] /\ op'[o] = x
             /\ \A y \in Ops \ {o} :
                 /\ op'[y].kind = op[y].kind /\ op'[y].pc = op[y].pc
                 /\ op'[y].sid = op[y].sid /\ op'[y].snap = op[y].snap
                 /\ op'[y].mine = op[y].mine /\ ~op'[y].newest
  BY <1>6, TokensTaken
<1>7. CASE r.inv
  <2>1. op' = [NoNavigation(op) EXCEPT ![o] = Return(r)] /\ asked' = None /\ shown' = shown
    BY <1>7 DEF GoToSnapshot
  <2> QED
    BY <1>2, <1>6, <2>1 DEF PageTyped
<1>8. CASE ~r.inv /\ cache[r.snap] # None
  <2>1. op' = [NoNavigation(op) EXCEPT ![o] = Displayed(nav)] /\ asked' = r.snap /\ shown' = r.snap
    BY <1>8 DEF GoToSnapshot, nav
  <2> QED
    BY <1>4, <1>6, <2>1 DEF PageTyped, Operation
<1>9. CASE ~r.inv /\ cache[r.snap] = None
  <2>1. op' = [NoNavigation(op) EXCEPT ![o] = [nav EXCEPT !.pc = "fetch"]]
        /\ asked' = r.snap /\ shown' = shown
    BY <1>9 DEF GoToSnapshot, nav
  <2>2. asked' \in Snaps /\ shown' \in Snaps \cup {None}
    BY <2>1 DEF PageTyped, Operation
  <2> QED
    BY <1>5, <1>6, <2>1, <2>2
<1> QED
  BY <1>7, <1>8, <1>9

-----------------------------------------------------------------------------
(***************************************************************************)
(* DebugSession: the steps                                                 *)
(***************************************************************************)

\* An empty page satisfies the invariant.
LEMMA SInvInit == DSInit => SInv
<1> SUFFICES ASSUME DSInit PROVE SInv
  OBVIOUS
<1>1. \A o \in Ops : op[o] = Idle
  BY DEF DSInit
<1>2. /\ Idle \in Operation /\ Idle.kind = "none" /\ Idle.pc = "idle"
      /\ ~Idle.mine /\ ~Idle.newest
  BY SessionAssumption DEF Idle, Operation
<1>3. PageTyped
  BY <1>2, SessionAssumption DEF DSInit, PageTyped
<1>4. OneLoop /\ Shaped /\ OpensInOrder /\ AskedFor
  BY <1>1, <1>2 DEF DSInit, OneLoop, Shaped, Fits, OpensInOrder, Opening, Opens,
                    LatestOpenWins, AskedFor, Current, NewestNavigationWins
<1> QED
  BY <1>3, <1>4 DEF SInv, DSInit, Handed

\* Wherever goToSnapshotInternal is called from, with whatever the caller has
\* captured: only an open that is current calls it as an open.
LEMMA GoToStep ==
    ASSUME SInv, NEW o \in Ops, NEW r \in Operation, GoToSnapshot(o, r),
           op[o].pc \notin {"started", "ending"},
           op[o].kind \in Opens \/ r.kind \in Opens => r = op[o] /\ r.mine /\ r.pc = "batch",
           r.kind = "loop" => op[o].kind = "loop" \/ \A x \in Ops : op[x].kind # "loop",
           pending' \in Snaps \cup {None},
           UNCHANGED <<session, cache, invalid, alive, born, owed, wanted>>
    PROVE  SInv'
<1> USE GoToEffect DEF SInv
<1>1. PageTyped'
  BY DEF PageTyped
<1>2. OneLoop'
  BY DEF OneLoop, Opens
<1>3. Shaped'
  BY DEF Shaped, Fits, Opens
<1>4. OpensInOrder'
  <2>1. \A x \in Ops : Opening(x)' => Opening(x) /\ op'[x].sid = op[x].sid
    BY DEF Opening, Opens
  <2>2. \A x \in Ops \ {o} : Opening(x)' <=> Opening(x)
    BY DEF Opening
  <2>3. Opening(o) => session = wanted
    BY DEF Opening, OpensInOrder
  <2>4. ASSUME \A x \in Ops : ~Opening(x)' PROVE session = wanted
    <3>1. CASE Opening(o)
      BY <3>1, <2>3
    <3>2. CASE ~Opening(o)
      <4>1. \A x \in Ops : ~Opening(x)
        BY <2>2, <2>4, <3>2
      <4> QED
        BY <4>1 DEF Opening, OpensInOrder, LatestOpenWins
    <3> QED
      BY <3>1, <3>2
  <2>5. LatestOpenWins'
    BY <2>4 DEF Opening, LatestOpenWins
  <2> QED
    BY <2>1, <2>2, <2>3, <2>5 DEF OpensInOrder
<1>5. Handed'
  BY DEF Handed, InHand
<1>6. AskedFor'
  BY DEF AskedFor, Current, NewestNavigationWins
<1> QED
  BY <1>1, <1>2, <1>3, <1>4, <1>5, <1>6

\* An operation that is neither fetching, nor in charge of a session or of the
\* open that counts, ends without a trace.
LEMMA ReturnStep ==
    ASSUME SInv, NEW o \in Ops, op' = [op EXCEPT ![o] = Idle],
           op[o].pc \notin {"fetch", "started", "ending"}, ~Opening(o),
           pending' \in Snaps \cup {None},
           UNCHANGED <<session, cache, shown, asked, invalid, alive, born, owed, wanted>>
    PROVE  SInv'
<1> USE DEF SInv
<1>1. /\ Idle \in Operation /\ Idle.kind = "none" /\ Idle.pc = "idle"
      /\ ~Idle.mine /\ ~Idle.newest
  BY SessionAssumption DEF Idle, Operation
<1>2. op'[o] = Idle /\ \A x \in Ops \ {o} : op'[x] = op[x]
  BY DEF PageTyped
<1>3. PageTyped' /\ OneLoop' /\ Shaped'
  BY <1>1, <1>2 DEF PageTyped, OneLoop, Shaped, Fits, Opens
<1>4. OpensInOrder'
  BY <1>1, <1>2 DEF OpensInOrder, Opening, LatestOpenWins, Opens
<1>5. Handed'
  BY <1>1, <1>2 DEF Handed, InHand
<1>6. AskedFor'
  BY <1>1, <1>2 DEF AskedFor, Current, NewestNavigationWins
<1> QED
  BY <1>3, <1>4, <1>5, <1>6

\* Navigation by the user, and the navigation an open ends with.
LEMMA NavigationStep ==
    ASSUME SInv, NEW o \in Ops,
           \/ \E s \in Snaps : Navigate(o, s) \/ QueryAnswered(o, s) \/ OpenAtSnapshot(o, s)
           \/ LoopNext(o) \/ BatchLoaded(o)
    PROVE  SInv'
<1> USE SessionAssumption DEF SInv
<1>1. ASSUME NEW s \in Snaps, Navigate(o, s) PROVE SInv'
  <2>1. Call("nav", "fetch", session, s) \in Operation /\ Call("nav", "fetch", session, s).kind = "nav"
    BY <1>1 DEF Call, Operation, Opens, Navigate, PageTyped
  <2>2. op[o].kind = "none" /\ op[o].pc = "idle"
    BY <1>1 DEF Navigate, Idle
  <2> QED
    BY <1>1, <2>1, <2>2, GoToStep DEF Navigate, PageTyped, Opens
<1>2. ASSUME NEW s \in Snaps, QueryAnswered(o, s) PROVE SInv'
  <2>1. op[o].pc = "query" /\ op[o].kind \notin Opens
    BY <1>2 DEF QueryAnswered, Shaped, Fits, Opens
  <2>2. CASE GoToSnapshot(o, [op[o] EXCEPT !.snap = s])
    <3>1. [op[o] EXCEPT !.snap = s] \in Operation /\ [op[o] EXCEPT !.snap = s].kind = op[o].kind
      BY DEF PageTyped, Operation
    <3> QED
      BY <1>2, <2>1, <2>2, <3>1, GoToStep DEF QueryAnswered, PageTyped
  <2>3. CASE op' = [op EXCEPT ![o] = Idle] /\ UNCHANGED <<shown, asked>>
    BY <1>2, <2>1, <2>3, ReturnStep DEF QueryAnswered, Opening, PageTyped
  <2> QED
    BY <1>2, <2>2, <2>3 DEF QueryAnswered
<1>3. ASSUME NEW s \in Snaps, OpenAtSnapshot(o, s) PROVE SInv'
  <2>1. CASE \E x \in Ops : op[x].kind = "loop"
    <3>1. pending' \in Snaps /\ UNCHANGED <<op, session, shown, cache, invalid, alive, history>>
      BY <1>3, <2>1 DEF OpenAtSnapshot, history
    <3> QED
      BY <3>1 DEF PageTyped, OneLoop, Shaped, Fits, OpensInOrder, Opening, LatestOpenWins, Handed, InHand,
                  AskedFor, Current, NewestNavigationWins, history
  <2>2. CASE \A x \in Ops : op[x].kind # "loop"
    <3>1. Call("loop", "fetch", session, s) \in Operation /\ Call("loop", "fetch", session, s).kind = "loop"
      BY <1>3 DEF Call, Operation, Opens, OpenAtSnapshot, PageTyped
    <3>2. op[o].kind = "none" /\ op[o].pc = "idle"
      BY <1>3, <2>2 DEF OpenAtSnapshot, Idle
    <3> QED
      BY <1>3, <2>2, <3>1, <3>2, GoToStep DEF OpenAtSnapshot, Opens
  <2> QED
    BY <2>1, <2>2
<1>4. CASE LoopNext(o)
  <2>1. op[o].pc = "next" /\ op[o].kind = "loop"
    BY <1>4 DEF LoopNext, Shaped, Fits
  <2>2. CASE pending = None
    BY <1>4, <2>1, <2>2, ReturnStep DEF LoopNext, Opening, Opens
  <2>3. CASE pending # None
    <3>1. /\ [op[o] EXCEPT !.snap = pending] \in Operation
          /\ [op[o] EXCEPT !.snap = pending].kind = op[o].kind
      BY <2>3 DEF PageTyped, Operation
    <3> QED
      BY <1>4, <2>1, <2>3, <3>1, GoToStep DEF LoopNext, Opens
  <2> QED
    BY <2>2, <2>3
<1>5. CASE BatchLoaded(o)
  <2>1. op[o].pc = "batch" /\ op[o].kind \in Opens /\ op[o] \in Operation
    BY <1>5 DEF BatchLoaded, Shaped, Fits, PageTyped
  <2>2. CASE op[o].mine
    BY <1>5, <2>1, <2>2, GoToStep DEF BatchLoaded, Opens, PageTyped
  <2>3. CASE ~op[o].mine
    BY <1>5, <2>1, <2>3, ReturnStep DEF BatchLoaded, Opening, PageTyped
  <2> QED
    BY <2>2, <2>3
<1> QED
  BY <1>1, <1>2, <1>3, <1>4, <1>5

\* What keeps the order of the opens and the sessions in hand: operation o goes on
\* as r, everybody else is left alone, and the page keeps its session.
LEMMA OneMoves ==
    ASSUME SInv, NEW o \in Ops, NEW r \in Operation, op' = [op EXCEPT ![o] = r]
    PROVE  /\ op' \in [Ops -> Operation] /\ op'[o] = r
           /\ \A x \in Ops \ {o} : op'[x] = op[x]
BY DEF SInv, PageTyped

\* The answers to a navigation.
LEMMA AnswerStep ==
    ASSUME SInv, NEW o \in Ops, Fetched(o) \/ Diffed(o) \/ NavigationFails(o)
    PROVE  SInv'
<1> USE DEF SInv
<1>1. Idle \in Operation /\ Idle.kind = "none" /\ Idle.pc = "idle" /\ ~Idle.mine /\ ~Idle.newest
  BY SessionAssumption DEF Idle, Operation
<1>2. op[o] \in Operation /\ op[o].pc \in {"fetch", "diff"}
  BY DEF Fetched, Diffed, NavigationFails, PageTyped
<1>3. /\ Return(op[o]) \in Operation /\ Return(op[o]).kind \in {op[o].kind, "none"} \ Opens
      /\ Return(op[o]).pc \in {"next", "idle"} /\ ~Return(op[o]).mine /\ ~Return(op[o]).newest
      /\ (Return(op[o]).pc = "next" => Return(op[o]).kind = "loop")
  BY <1>1, <1>2, SessionAssumption DEF Return, Operation, Opens
<1>4. /\ Displayed(op[o]) \in Operation /\ Displayed(op[o]).kind \in {op[o].kind, "none"} \ Opens
      /\ Displayed(op[o]).pc \in {"diff", "idle"}
      /\ (Displayed(op[o]).newest => op[o].newest /\ Displayed(op[o]).pc = "diff")
  BY <1>1, <1>2 DEF Displayed, Operation, Opens
<1>5. Opening(o) => session = wanted
  BY <1>2 DEF OpensInOrder, Opening
<1>6. ASSUME NEW r \in Operation, op' = [op EXCEPT ![o] = r],
             r.kind \in {op[o].kind, "none"} \ Opens, r.pc \in {"diff", "next", "idle"},
             r.pc = "next" => r.kind = "loop",
             r.newest => op[o].newest /\ r.pc = "diff",
             UNCHANGED <<session, wanted, pending, alive, born, owed>>, invalid' \in BOOLEAN,
             cache' \in [Snaps -> Live \cup {Rows, None}],
             shown' \in Snaps \cup {None}, asked' \in Snaps \cup {None},
             Current(o) /\ op[o].pc = "fetch" => asked' = None \/ shown' = asked',
             ~(Current(o) /\ op[o].pc = "fetch") =>
                 (asked' = None /\ Current(o)) \/ (asked' = asked /\ shown' = shown)
      PROVE  SInv'
  <2>1. op' \in [Ops -> Operation] /\ op'[o] = r /\ \A x \in Ops \ {o} : op'[x] = op[x]
    BY <1>6, OneMoves
  <2>2. PageTyped' /\ OneLoop' /\ Shaped'
    BY <1>6, <2>1 DEF PageTyped, OneLoop, Shaped, Fits
  <2>3. OpensInOrder'
    <3>1. ~Opening(o)' /\ \A x \in Ops \ {o} : Opening(x)' <=> Opening(x)
      BY <1>6, <2>1 DEF Opening
    <3>2. LatestOpenWins'
      <4>1. SUFFICES ASSUME \A x \in Ops : ~Opening(x)' PROVE session = wanted
        BY <1>6 DEF LatestOpenWins, Opening
      <4>2. CASE Opening(o)
        BY <4>2, <1>5
      <4>3. CASE ~Opening(o)
        BY <3>1, <4>1, <4>3 DEF Opening, OpensInOrder, LatestOpenWins
      <4> QED
        BY <4>2, <4>3
    <3> QED
      BY <1>6, <2>1, <3>1, <3>2 DEF OpensInOrder
  <2>4. Handed'
    BY <1>2, <1>6, <2>1 DEF Handed, InHand
  <2>5. AskedFor'
    <3>1. \A x, y \in Ops : op'[x].newest /\ op'[y].newest => x = y
      BY <1>6, <2>1 DEF AskedFor
    <3>2. CASE Current(o) /\ op[o].pc = "fetch"
      <4>1. \A x \in Ops \ {o} : ~op'[x].newest
        BY <2>1, <3>2 DEF AskedFor, Current
      <4> QED
        BY <1>6, <2>1, <3>1, <3>2, <4>1 DEF AskedFor, Current, NewestNavigationWins
    <3>3. CASE ~(Current(o) /\ op[o].pc = "fetch")
      <4>1. Current(o) => \A x \in Ops \ {o} : ~op'[x].newest
        BY <2>1 DEF AskedFor, Current
      <4>2. CASE asked' = None /\ Current(o)
        BY <1>6, <2>1, <3>1, <4>1, <4>2 DEF AskedFor, Current, NewestNavigationWins
      <4>3. CASE asked' = asked /\ shown' = shown
        BY <1>6, <2>1, <3>1, <3>3, <4>3 DEF AskedFor, Current, NewestNavigationWins
      <4> QED
        BY <1>6, <3>3, <4>2, <4>3
    <3> QED
      BY <3>2, <3>3
  <2> QED
    BY <2>2, <2>3, <2>4, <2>5
<1>7. CASE Fetched(o)
  <2>1. CASE Current(o)
    <3>1. /\ op' = [op EXCEPT ![o] = Displayed(op[o])] /\ shown' = op[o].snap /\ asked' = asked
          /\ cache' = [cache EXCEPT ![op[o].snap] = op[o].sid] /\ op[o].sid \in alive
          /\ op[o].pc = "fetch"
      BY <1>7, <2>1 DEF Fetched, history
    <3>2. asked = op[o].snap
      BY <2>1, <3>1 DEF AskedFor
    <3>3. cache' \in [Snaps -> Live \cup {Rows, None}] /\ shown' \in Snaps
      BY <1>2, <3>1 DEF PageTyped, Operation
    <3> QED
      BY <1>4, <1>6, <1>7, <2>1, <3>1, <3>2, <3>3 DEF Fetched, history, PageTyped
  <2>2. CASE ~Current(o)
    BY <1>3, <1>6, <1>7, <2>2 DEF Fetched, history, PageTyped
  <2> QED
    BY <2>1, <2>2
<1>8. CASE Diffed(o)
  BY <1>3, <1>6, <1>8 DEF Diffed, viewVars, history, PageTyped
<1>9. CASE NavigationFails(o)
  <2>1. invalid' \in BOOLEAN
    BY <1>9 DEF NavigationFails, PageTyped
  <2> QED
    BY <1>3, <1>6, <1>9, <2>1 DEF NavigationFails, PageTyped
<1> QED
  BY <1>7, <1>8, <1>9

\* An open between its awaits, and the end of a session at the bridge: operation
\* o goes on as r, and no navigation is concerned.
LEMMA OpenStep ==
    ASSUME SInv, NEW o \in Ops, NEW r \in Operation, op' = [op EXCEPT ![o] = r],
           op[o].pc # "fetch", r.pc # "fetch", ~r.newest, Fits(r),
           r.kind \in {op[o].kind, "nav", "end", "none"},
           UNCHANGED <<shown, asked, invalid, pending, born>>,
           session' \in Sessions \cup {None}, wanted' \in Sessions \cup {None},
           cache' \in [Snaps -> Live \cup {Rows, None}], alive' \subseteq Live,
           \* it is not the open that counts, or stays it, or installs or drops its session
           \/ /\ UNCHANGED <<session, wanted>>
              /\ Opening(o) <=> Opening(o)'
              /\ Opening(o)' => r.pc \in {"starting", "started"} /\ r.sid = op[o].sid
           \/ /\ Opening(o) /\ session' = wanted'
              /\ Opening(o)' => wanted' = wanted /\ r.sid = op[o].sid,
           \* a session is taken in hand, kept there or settled
           owed' \subseteq owed \cup (Live \cap {op[o].sid}),
           op[o].sid \in owed' /\ (op[o].pc \in {"started", "ending"} \/ op[o].sid \notin owed) =>
               r.pc \in {"started", "ending"} /\ r.sid = op[o].sid
    PROVE  SInv'
<1> USE DEF SInv
<1>1. op' \in [Ops -> Operation] /\ op'[o] = r /\ \A x \in Ops \ {o} : op'[x] = op[x]
  BY OneMoves
<1>2. PageTyped' /\ OneLoop' /\ Shaped'
  BY <1>1 DEF PageTyped, OneLoop, Shaped
<1>3. OpensInOrder'
  <2>1. \A x \in Ops \ {o} : Opening(x)' <=> Opening(x)
    BY <1>1 DEF Opening
  <2>2. CASE /\ UNCHANGED <<session, wanted>>
             /\ Opening(o) <=> Opening(o)'
             /\ Opening(o)' => r.pc \in {"starting", "started"} /\ r.sid = op[o].sid
    <3>1. \A x \in Ops : Opening(x)' <=> Opening(x)
      BY <2>1, <2>2
    <3>2. LatestOpenWins'
      BY <2>2, <3>1 DEF OpensInOrder, Opening, LatestOpenWins
    <3> QED
      BY <1>1, <2>2, <3>1, <3>2 DEF OpensInOrder
  <2>3. CASE /\ Opening(o) /\ session' = wanted'
             /\ Opening(o)' => wanted' = wanted /\ r.sid = op[o].sid
    <3>1. \A x \in Ops \ {o} : ~Opening(x)'
      BY <2>1, <2>3 DEF OpensInOrder
    <3> QED
      BY <1>1, <2>3, <3>1 DEF OpensInOrder, LatestOpenWins
  <2> QED
    BY <2>2, <2>3
<1>4. Handed'
  BY <1>1 DEF Handed, InHand
<1>5. AskedFor'
  BY <1>1 DEF AskedFor, Current, NewestNavigationWins
<1> QED
  BY <1>2, <1>3, <1>4, <1>5

\* The awaits of an open, /debug/end, and the call that asks for a target.
LEMMA AwaitStep ==
    ASSUME SInv, NEW o \in Ops,
           \/ Query(o) \/ TraceLoaded(o) \/ BridgeStarts(o) \/ StartReturns(o)
           \/ OpenFails(o) \/ Ended(o)
    PROVE  SInv'
<1> USE DEF SInv
<1>1. /\ Idle \in Operation /\ Idle.kind = "none" /\ Idle.pc = "idle"
      /\ ~Idle.mine /\ ~Idle.newest /\ Fits(Idle)
  BY SessionAssumption DEF Idle, Operation, Fits, Opens
<1>2. op[o] \in Operation /\ Fits(op[o]) /\ op[o].newest \in BOOLEAN
  BY DEF PageTyped, Shaped, Operation
<1>3. ASSUME NEW r \in Operation, op' = [op EXCEPT ![o] = r]
      PROVE  op'[o] = r
  BY <1>3, OneMoves
<1>4. CASE Query(o)
  <2>1. op[o].kind = "none" /\ op[o].pc = "idle"
    BY <1>1, <1>4 DEF Query
  <2> DEFINE r == Call("nav", "query", session, First)
  <2>2. r \in Operation /\ r.kind = "nav" /\ r.pc = "query" /\ ~r.newest /\ Fits(r)
    BY <1>4, SessionAssumption DEF Query, Call, Operation, Opens, PageTyped, Fits
  <2>3. op' = [op EXCEPT ![o] = r] /\ UNCHANGED <<viewVars, alive, history>>
    BY <1>4 DEF Query
  <2> HIDE DEF r
  <2>4. ~Opening(o) /\ ~Opening(o)'
    BY <1>3, <2>1, <2>2, <2>3 DEF Opening, Opens
  <2> QED
    BY <2>1, <2>2, <2>3, <2>4, OpenStep DEF viewVars, history, PageTyped
<1>5. ASSUME TraceLoaded(o) \/ StartReturns(o), op[o].mine PROVE SInv'
  <2> DEFINE r == [op[o] EXCEPT !.pc = "batch"]
  <2>1. op[o].kind \in Opens /\ op[o].pc \in {"trace", "started"} /\ Opening(o)
    BY <1>2, <1>5 DEF TraceLoaded, StartReturns, Opening, Fits, Opens
  <2>2. /\ op' = [op EXCEPT ![o] = r] /\ Install(op[o].sid)
        /\ UNCHANGED <<shown, invalid, pending, alive, born, wanted, asked>>
    BY <1>5 DEF TraceLoaded, StartReturns
  <2>3. wanted = op[o].sid
    BY <2>1 DEF OpensInOrder
  <2>4. r \in Operation /\ r.pc = "batch" /\ r.kind = op[o].kind /\ r.sid = op[o].sid /\ Fits(r)
        /\ ~r.newest
    BY <1>2, <2>1 DEF Operation, Fits
  <2> QED
    BY <2>1, <2>2, <2>3, <2>4, OpenStep DEF PageTyped, Install
<1>6. ASSUME TraceLoaded(o), ~op[o].mine PROVE SInv'
  <2>1. op' = [op EXCEPT ![o] = Idle] /\ op[o].pc = "trace" /\ UNCHANGED <<session, cache, owed>>
    BY <1>6 DEF TraceLoaded
  <2> QED
    BY <1>1, <1>6, <2>1, ReturnStep DEF TraceLoaded, Opening, PageTyped
<1>7. ASSUME StartReturns(o), ~op[o].mine PROVE SInv'
  <2> DEFINE r == [op[o] EXCEPT !.kind = "end", !.pc = "ending"]
  <2>1. op[o].pc = "started"
    BY <1>7 DEF StartReturns
  <2>2. op' = [op EXCEPT ![o] = r] /\ UNCHANGED <<viewVars, alive, history>>
    BY <1>7 DEF StartReturns, viewVars, history
  <2>3. r \in Operation /\ r.pc = "ending" /\ r.kind = "end" /\ r.sid = op[o].sid /\ ~r.newest /\ Fits(r)
    BY <1>2, <2>1 DEF Operation, Fits
  <2> HIDE DEF r
  <2>4. ~Opening(o) /\ ~Opening(o)'
    BY <1>3, <1>7, <2>2, <2>3 DEF Opening, Opens
  <2> QED
    BY <2>1, <2>2, <2>3, <2>4, OpenStep DEF viewVars, history, PageTyped
<1>8. CASE BridgeStarts(o)
  <2> DEFINE r == [op[o] EXCEPT !.pc = "started"]
  <2>1. op[o].pc = "starting" /\ op[o].kind = "start"
    BY <1>2, <1>8 DEF BridgeStarts, Fits
  <2>2. r \in Operation /\ r.pc = "started" /\ r.kind = op[o].kind /\ r.sid = op[o].sid
        /\ r.mine = op[o].mine /\ ~r.newest /\ Fits(r)
    BY <1>2, <2>1 DEF Operation, Fits
  <2>3. /\ op' = [op EXCEPT ![o] = r] /\ UNCHANGED <<viewVars, born, wanted, asked>>
        /\ alive' = alive \cup {op[o].sid} /\ owed' = owed \cup {op[o].sid}
    BY <1>8 DEF BridgeStarts
  <2> HIDE DEF r
  <2>4. Opening(o) <=> Opening(o)'
    BY <1>3, <2>2, <2>3 DEF Opening
  <2>5. op[o].sid \in Live
    BY <1>2, <2>1 DEF Fits, Opens
  <2> QED
    BY <2>1, <2>2, <2>3, <2>4, <2>5, OpenStep DEF viewVars, PageTyped
<1>9. CASE OpenFails(o)
  <2>1. op' = [op EXCEPT ![o] = Idle] /\ op[o].pc \in {"trace", "batch", "starting"}
        /\ wanted' = (IF op[o].mine THEN session ELSE wanted)
        /\ alive' \in {alive, alive \cup {op[o].sid}} /\ UNCHANGED <<viewVars, born, owed, asked>>
    BY <1>9 DEF OpenFails
  <2>2. Opening(o) <=> op[o].mine
    BY <1>2, <2>1 DEF Fits, Opening, Opens
  <2>3. ~Opening(o)'
    BY <1>1, <1>3, <2>1 DEF Opening
  <2>4. alive' \subseteq Live
    BY <1>2, <2>1 DEF Fits, Opens, PageTyped
  <2>5. \/ UNCHANGED <<session, wanted>> /\ ~Opening(o)
        \/ session' = wanted' /\ Opening(o)
    BY <2>1, <2>2 DEF viewVars
  <2> QED
    BY <1>1, <2>1, <2>3, <2>4, <2>5, OpenStep DEF viewVars, PageTyped
<1>10. CASE Ended(o)
  <2>1. op[o].pc = "ending" /\ op[o].kind = "end" /\ op' = [op EXCEPT ![o] = Idle]
        /\ alive' \subseteq alive /\ owed' = owed \ {op[o].sid}
        /\ UNCHANGED <<viewVars, born, wanted, asked>>
    BY <1>2, <1>10 DEF Ended, Fits
  <2>2. ~Opening(o) /\ ~Opening(o)'
    BY <1>1, <1>3, <2>1 DEF Opening, Opens
  <2> QED
    BY <1>1, <2>1, <2>2, OpenStep DEF viewVars, PageTyped
<1> QED
  BY <1>4, <1>5, <1>6, <1>7, <1>8, <1>9, <1>10

\* begin() and invalidate() of the session generation: whoever had a token has
\* lost it, and at most one operation o, new to the page, is the open that counts.
LEMMA TakeoverStep ==
    ASSUME SInv, NEW o, op' \in [Ops -> Operation],
           \A x \in Ops \ {o} : op'[x] = NoSession(op)[x],
           o \in Ops =>
               \/ op'[o] = NoSession(op)[o]
               \/ /\ op[o].pc = "idle" /\ Fits(op'[o])
                  /\ op'[o].kind \in {"end", "none"} \cup Opens
                  /\ op'[o].pc # "fetch" /\ ~op'[o].newest
                  /\ Opening(o)' => /\ wanted' = op'[o].sid
                                    /\ op'[o].pc \in {"trace", "starting"} \/ session' = wanted',
           (o \in Ops => ~Opening(o)') => session' = wanted',
           asked' = None \/ shown' = asked',
           session' \in Sessions \cup {None}, wanted' \in Sessions \cup {None},
           shown' \in Snaps \cup {None}, asked' \in Snaps \cup {None},
           cache' \in [Snaps -> Live \cup {Rows, None}], invalid' \in BOOLEAN,
           UNCHANGED <<pending, alive>>, born' \subseteq Live, owed' \subseteq owed
    PROVE  SInv'
<1> USE TokensTaken DEF SInv
<1>1. PageTyped'
  BY DEF PageTyped
<1>2. OneLoop'
  BY DEF OneLoop, Opens
<1>3. Shaped'
  BY DEF Shaped, Fits
<1>4. OpensInOrder'
  <2>1. \A x \in Ops \ {o} : ~op'[x].mine
    OBVIOUS
  <2>2. o \in Ops /\ op'[o] = NoSession(op)[o] => ~op'[o].mine
    OBVIOUS
  <2>3. \A x \in Ops : Opening(x)' => x = o
    BY <2>1 DEF Opening
  <2>4. ASSUME o \in Ops, Opening(o)'
        PROVE wanted' = op'[o].sid /\ (op'[o].pc \in {"trace", "starting"} \/ session' = wanted')
    BY <2>2, <2>4 DEF Opening
  <2>5. LatestOpenWins'
    BY DEF LatestOpenWins, Opening
  <2> QED
    BY <2>3, <2>4, <2>5 DEF OpensInOrder
<1>5. Handed'
  BY DEF Handed, InHand
<1>6. AskedFor'
  <2>1. \A x \in Ops : ~op'[x].newest
    OBVIOUS
  <2> QED
    BY <2>1 DEF AskedFor, Current, NewestNavigationWins
<1> QED
  BY <1>1, <1>2, <1>3, <1>4, <1>5, <1>6

\* The opens, the ends and the cancels that take the page over.
LEMMA PageStep ==
    ASSUME SInv,
           \/ \E o \in Ops, s \in Live :
                  Start(o, s) \/ \E hydrate \in {"full", "minimal"} : Connect(o, s, hydrate)
           \/ \E o \in Ops : EndSession(o)
           \/ \E t \in Traces : InitFromTrace(t)
           \/ InvalidatePending
    PROVE  SInv'
<1> USE TokensTaken, SessionAssumption DEF SInv
<1>1. Idle \in Operation /\ Idle.kind = "none" /\ Idle.pc = "idle" /\ ~Idle.newest /\ Fits(Idle)
  BY DEF Idle, Operation, Fits, Opens
<1>2. ASSUME NEW o \in Ops, NEW r \in Operation, op' = [NoSession(op) EXCEPT ![o] = r]
      PROVE  /\ op' \in [Ops -> Operation] /\ op'[o] = r
             /\ \A x \in Ops \ {o} : op'[x] = NoSession(op)[x]
  BY <1>2
<1>3. ASSUME NEW kind \in Opens, NEW pc \in {"trace", "starting", "batch"}, NEW s \in Live,
             pc = "starting" <=> kind = "start"
      PROVE  LET r == Call(kind, pc, s, First)
             IN  /\ r \in Operation /\ r.kind = kind /\ r.pc = pc /\ r.sid = s
                 /\ r.mine /\ ~r.newest /\ Fits(r)
  BY <1>3 DEF Call, Operation, Fits, Opens, PageTyped
<1>4. ASSUME NEW o \in Ops, NEW s \in Live, Start(o, s) PROVE SInv'
  <2> DEFINE r == Call("start", "starting", s, First)
  <2>1. r \in Operation /\ r.kind = "start" /\ r.pc = "starting" /\ r.sid = s /\ r.mine
        /\ ~r.newest /\ Fits(r)
    BY <1>3 DEF Opens
  <2>2. op' = [NoSession(op) EXCEPT ![o] = r] /\ op[o].pc = "idle"
    BY <1>1, <1>4 DEF Start
  <2> HIDE DEF r
  <2>3. /\ op' \in [Ops -> Operation] /\ op'[o] = r
        /\ \A x \in Ops \ {o} : op'[x] = NoSession(op)[x]
    BY <1>2, <2>1, <2>2
  <2>4. Opening(o)'
    BY <2>1, <2>3 DEF Opening, Opens
  <2> QED
    BY <1>4, <2>1, <2>2, <2>3, <2>4, TakeoverStep, ZenonT(60) DEF Start, PageTyped, Opens, Sessions
<1>5. ASSUME NEW o \in Ops, NEW s \in Live, NEW hydrate \in {"full", "minimal"},
             Connect(o, s, hydrate)
      PROVE  SInv'
  <2> DEFINE pc == IF hydrate = "full" THEN "trace" ELSE "batch"
             r == Call("connect", pc, s, First)
  <2>1. r \in Operation /\ r.kind = "connect" /\ r.pc = pc /\ r.sid = s /\ r.mine
        /\ ~r.newest /\ Fits(r)
    BY <1>3 DEF Opens
  <2>2. op' = [NoSession(op) EXCEPT ![o] = r] /\ op[o].pc = "idle"
    BY <1>1, <1>5 DEF Connect
  <2> HIDE DEF r
  <2>3. /\ op' \in [Ops -> Operation] /\ op'[o] = r
        /\ \A x \in Ops \ {o} : op'[x] = NoSession(op)[x]
    BY <1>2, <2>1, <2>2
  <2>4. Opening(o)'
    BY <2>1, <2>3 DEF Opening, Opens
  <2>5. /\ wanted' = s /\ asked' = None /\ invalid' = FALSE
        /\ UNCHANGED <<shown, pending, alive, born>>
    BY <1>5 DEF Connect
  <2>6. /\ session' \in Sessions \cup {None} /\ (pc = "batch" => session' = wanted')
        /\ cache' \in [Snaps -> Live \cup {Rows, None}] /\ owed' \subseteq owed
    <3>1. CASE hydrate = "full"
      BY <1>5, <3>1 DEF Connect, PageTyped
    <3>2. CASE hydrate # "full"
      BY <1>5, <2>5, <3>2 DEF Connect, Install, PageTyped, Sessions
    <3> QED
      BY <3>1, <3>2
  <2> QED
    BY <2>1, <2>2, <2>3, <2>4, <2>5, <2>6, TakeoverStep DEF PageTyped, Opens, Sessions
<1>6. ASSUME NEW o \in Ops, EndSession(o) PROVE SInv'
  <2> DEFINE r == IF session \in Live THEN Call("end", "ending", session, First) ELSE Idle
  <2>1. r \in Operation /\ r.kind \in {"end", "none"} /\ r.pc \in {"ending", "idle"}
        /\ ~r.newest /\ Fits(r)
    BY <1>1 DEF Call, Operation, Fits, Opens, PageTyped
  <2>2. op' = [NoSession(op) EXCEPT ![o] = r] /\ op[o].pc = "idle"
    BY <1>1, <1>6 DEF EndSession
  <2> HIDE DEF r
  <2>3. /\ op' \in [Ops -> Operation] /\ op'[o] = r
        /\ \A x \in Ops \ {o} : op'[x] = NoSession(op)[x]
    BY <1>2, <2>1, <2>2
  <2>4. ~Opening(o)'
    BY <2>1, <2>3 DEF Opening, Opens
  <2> QED
    BY <1>6, <2>1, <2>2, <2>3, <2>4, TakeoverStep DEF EndSession, PageTyped
<1>7. ASSUME NEW t \in Traces, InitFromTrace(t) PROVE SInv'
  <2>1. op' = NoSession(op) /\ session' = wanted' /\ shown' = asked' /\ invalid' = FALSE
        /\ UNCHANGED <<pending, alive, born, owed>>
    BY <1>7 DEF InitFromTrace
  <2>2. /\ cache' \in [Snaps -> Live \cup {Rows, None}]
        /\ wanted' \in Sessions /\ asked' \in Snaps
    BY <1>7 DEF InitFromTrace, Sessions
  <2> QED
    BY <2>1, <2>2, TakeoverStep DEF PageTyped
<1>8. CASE InvalidatePending
  BY <1>8, TakeoverStep DEF InvalidatePending, viewVars, PageTyped
<1> QED
  BY <1>4, <1>5, <1>6, <1>7, <1>8

\* The steps that concern no session token: a row of the trace, the bridge that
\* loses a session, and nothing.
LEMMA OtherStep ==
    ASSUME SInv,
           \/ \E s \in Snaps : NavigateTrace(s)
           \/ \E s \in Live : Expire(s)
           \/ UNCHANGED dsVars
    PROVE  SInv'
<1> USE DEF SInv
<1>1. ASSUME NEW s \in Snaps, NavigateTrace(s) PROVE SInv'
  <2>1. op' \in [Ops -> Operation] /\ \A x \in Ops :
            op'[x].kind = op[x].kind /\ op'[x].pc = op[x].pc /\ op'[x].sid = op[x].sid
            /\ op'[x].snap = op[x].snap /\ op'[x].mine = op[x].mine /\ ~op'[x].newest
    BY <1>1, TokensTaken DEF NavigateTrace
  <2>2. PageTyped' /\ OneLoop' /\ Shaped'
    BY <1>1, <2>1 DEF NavigateTrace, PageTyped, OneLoop, Shaped, Fits
  <2>3. OpensInOrder'
    BY <1>1, <2>1 DEF NavigateTrace, OpensInOrder, Opening, LatestOpenWins
  <2>4. Handed'
    BY <1>1, <2>1 DEF NavigateTrace, Handed, InHand
  <2>5. AskedFor'
    BY <1>1, <2>1 DEF NavigateTrace, AskedFor, Current, NewestNavigationWins
  <2> QED
    BY <2>2, <2>3, <2>4, <2>5
<1>2. ASSUME UNCHANGED <<op, viewVars, history>>, alive' \subseteq alive PROVE SInv'
  BY <1>2 DEF viewVars, history, PageTyped, OneLoop, Shaped, OpensInOrder, Opening,
              LatestOpenWins, Handed, InHand, AskedFor, Current, NewestNavigationWins
<1>3. ASSUME NEW s \in Live, Expire(s) PROVE SInv'
  BY <1>2, <1>3 DEF Expire
<1>4. CASE UNCHANGED dsVars
  BY <1>2, <1>4 DEF dsVars
<1> QED
  BY <1>1, <1>3, <1>4

-----------------------------------------------------------------------------
(***************************************************************************)
(* DebugSession: the theorems                                              *)
(***************************************************************************)

\* The invariant of the page: whatever the operations, sessions and snapshots,
\* and in whatever order the bridge answers.
THEOREM SessionInvariant == DSSpec => []SInv
<1>1. ASSUME SInv, DSNext PROVE SInv'
  BY <1>1, NavigationStep, AnswerStep, AwaitStep, PageStep, OtherStep DEF DSNext
<1>2. SInv /\ [DSNext]_dsVars => SInv'
  BY <1>1, OtherStep
<1> QED
  BY SInvInit, <1>2, PTL DEF DSSpec

\* The page is well formed, runs one loop of openDebugAtSnapshot at most, and
\* once no open is pending has the session that was asked for last.
THEOREM LatestOpenWinsAlways == DSSpec => []DSInv
<1>1. SInv => DSInv
  <2> SUFFICES ASSUME SInv PROVE DSInv
    OBVIOUS
  <2> DEFINE L == {o \in Ops : op[o].kind = "loop"}
  <2>1. Cardinality(L) <= 1
    <3>1. CASE L = {}
      BY <3>1, FS_EmptySet
    <3>2. ASSUME NEW o \in L PROVE Cardinality(L) = 1
      <4>1. L = {o}
        BY DEF SInv, OneLoop
      <4> QED
        BY <4>1, FS_Singleton
    <3> QED
      BY <3>1, <3>2
  <2>2. DSTypeOK
    BY <2>1 DEF SInv, PageTyped, Operation, DSTypeOK
  <2> QED
    BY <2>2 DEF SInv, OpensInOrder, DSInv
<1> QED
  BY SessionInvariant, <1>1, PTL

\* A session made for a start that was superseded is ended, or still in hand.
THEOREM NoSessionForgotten == DSSpec => []SupersededStartsEnd
<1>1. SInv => SupersededStartsEnd
  BY DEF SInv, Handed, InHand, Shaped, Fits, SupersededStartsEnd
<1> QED
  BY SessionInvariant, <1>1, PTL

\* The snapshot asked for last is the one on display when all is quiet.
THEOREM LastNavigationShows == DSSpec => []NewestNavigationWins
<1>1. SInv => NewestNavigationWins
  BY DEF SInv, AskedFor
<1> QED
  BY SessionInvariant, <1>1, PTL

-----------------------------------------------------------------------------
(***************************************************************************)
(* DebugPrep: the inductive invariant                                      *)
(***************************************************************************)

\* A job the bridge knows is one that was asked for; the map and its streams
\* hold jobs the bridge knows.
JobsKnown ==
    /\ IsFiniteSet(Created) /\ prepareJobs \subseteq Created
    /\ \A p \in Created : post[p] \in {"answered", "done", "foreign"}
    /\ NoStreamOutlivesJob

\* The job a page watches is that of its current start, which was answered, and
\* it was connected only if readyHandledForPrepareRef says so.
WatchedJob ==
    /\ prepareIdRef # NoPrep => prepareIdRef = current /\ post[prepareIdRef] = "done"
    /\ \A p \in Preps : connects[p] = 0 \/ (connects[p] = 1 /\ post[p] = "done")
    /\ \A p \in Preps : prepareIdRef = p /\ connects[p] = 1 => readyHandled = p

\* What is under way to the page about a job is what became of it.
NewsIsTrue ==
    /\ \A p \in Preps : \A i \in 1..Len(wire[p]) : wire[p][i] \in Outcomes => jobStatus[p] = wire[p][i]
    /\ \A p \in Preps : poll[p] \in Outcomes => jobStatus[p] = poll[p]
    /\ OutcomeIsOwn

PInv == PrepTypeOK /\ JobsKnown /\ WatchedJob /\ NewsIsTrue

-----------------------------------------------------------------------------
(***************************************************************************)
(* DebugPrep: the steps                                                    *)
(***************************************************************************)

\* Nothing has been prepared.
LEMMA PInvInit == PrepInit => PInv
<1> SUFFICES ASSUME PrepInit PROVE PInv
  OBVIOUS
<1> USE PrepAssumption
<1>1. Created = {} /\ IsFiniteSet(Created) /\ Cardinality({}) = 0
  BY FS_EmptySet DEF PrepInit, Created
<1>2. PrepTypeOK
  BY <1>1 DEF PrepInit, PrepTypeOK, Outcomes
<1>3. JobsKnown
  BY <1>1 DEF PrepInit, JobsKnown, NoStreamOutlivesJob
<1>4. WatchedJob /\ NewsIsTrue
  BY DEF PrepInit, WatchedJob, NewsIsTrue, OutcomeIsOwn, Outcomes
<1> QED
  BY <1>2, <1>3, <1>4 DEF PInv

\* stopPrepWatchers takes streams, events and timers away and adds none.
LEMMA StopEffect ==
    ASSUME PInv, NEW polls \in [Preps -> {"none", "asked", "timer", "preparing", "missing"} \cup Outcomes],
           StopPrepWatchers(polls), \A p \in Preps : polls[p] \in {"none", poll[p]}
    PROVE  /\ source' \in [Preps -> {"none", "connecting", "open", "closed"}]
           /\ wire' \in [Preps -> Seq({"stage", "end"} \cup Outcomes)]
           /\ \A p \in Preps : wire'[p] = wire[p] \/ Len(wire'[p]) = 0
           /\ sseClients' \subseteq sseClients
           /\ poll' \in [Preps -> {"none", "asked", "timer", "preparing", "missing"} \cup Outcomes]
           /\ \A p \in Preps : poll'[p] \in {"none", poll[p]}
<1> USE DEF PInv, PrepTypeOK
<1>1. <<>> \in Seq({"stage", "end"} \cup Outcomes) /\ Len(<<>>) = 0
  OBVIOUS
<1> QED
  BY <1>1 DEF StopPrepWatchers

\* POST /debug/prepare: the map stays within its bound, and the job is new.
LEMMA CreateStep ==
    ASSUME PInv, NEW p \in Preps, Create(p)
    PROVE  PInv'
<1> USE PrepAssumption DEF PInv
<1>1. p \notin Created /\ post[p] # "done"
  BY DEF Create, JobsKnown
<1>2. Created' = Created \cup {p} /\ IsFiniteSet(Created') /\ Cardinality(Created) \in Nat
  <2>1. Created' = Created \cup {p}
    BY DEF Create, Created, PrepTypeOK
  <2> QED
    BY <2>1, FS_AddElement, FS_CardinalityType DEF JobsKnown
<1>3. prepareJobs' \subseteq Created' /\ Cardinality(prepareJobs') <= PrepareJobMax + 1
  <2>1. PICK kept \in SUBSET prepareJobs :
            Cardinality(kept) <= PrepareJobMax /\ prepareJobs' = kept \cup {p}
    BY DEF Create, Pruned
  <2>2. IsFiniteSet(kept) /\ p \notin kept
    BY <1>1, <2>1, FS_Subset DEF JobsKnown
  <2>3. Cardinality(prepareJobs') = Cardinality(kept) + 1 /\ Cardinality(kept) \in Nat
    BY <2>1, <2>2, FS_AddElement, FS_CardinalityType
  <2> QED
    BY <1>2, <2>1, <2>3 DEF JobsKnown
<1>4. PrepTypeOK'
  BY <1>2, <1>3 DEF Create, PrepTypeOK, pageVars, Created
<1>5. JobsKnown'
  <2>1. \A q \in Preps \ {p} : post'[q] = post[q] /\ jobStatus'[q] = jobStatus[q]
    BY DEF Create, PrepTypeOK
  <2>2. post'[p] \in {"answered", "foreign"} /\ jobStatus'[p] = "preparing"
    BY DEF Create, PrepTypeOK
  <2> QED
    BY <1>2, <1>3, <2>1, <2>2 DEF Create, JobsKnown, NoStreamOutlivesJob, PrepTypeOK, Created
<1>6. WatchedJob'
  BY <1>1 DEF Create, WatchedJob, pageVars, PrepTypeOK
<1>7. NewsIsTrue'
  BY <1>1, SMTT(30) DEF Create, NewsIsTrue, OutcomeIsOwn, pageVars, PrepTypeOK, Created, Outcomes
<1> QED
  BY <1>4, <1>5, <1>6, <1>7

\* The bridge goes on with a job: its progress, its end, its streams and polls.
LEMMA JobStep ==
    ASSUME PInv, NEW p \in Preps,
           \/ Progress(p) \/ SseConnect(p) \/ PollAnswer(p)
           \/ \E outcome \in Outcomes : JobEnds(p, outcome)
    PROVE  PInv'
<1> USE DEF PInv
<1>1. ASSUME UNCHANGED <<prepareJobs, createdAt, post, current, prepareIdRef, readyHandled,
                         prepState, connects>>,
             \/ UNCHANGED jobStatus
             \/ \E outcome \in Outcomes :
                   jobStatus[p] = "preparing" /\ jobStatus' = [jobStatus EXCEPT ![p] = outcome],
             source' \in [Preps -> {"none", "connecting", "open", "closed"}],
             wire' \in [Preps -> Seq({"stage", "end"} \cup Outcomes)],
             poll' \in [Preps -> {"none", "asked", "timer", "preparing", "missing"} \cup Outcomes],
             sseClients' \subseteq Preps, NoStreamOutlivesJob',
             \A q \in Preps \ {p} : wire'[q] = wire[q] /\ poll'[q] = poll[q],
             \A i \in 1..Len(wire'[p]) : wire'[p][i] \in Outcomes => jobStatus'[p] = wire'[p][i],
             poll'[p] \in Outcomes => jobStatus'[p] = poll'[p]
      PROVE  PInv'
  <2>1. \A q \in Preps \ {p} : jobStatus'[q] = jobStatus[q]
    BY <1>1 DEF PrepTypeOK
  <2>2. jobStatus'[p] = jobStatus[p] \/ (jobStatus[p] = "preparing" /\ jobStatus'[p] \in Outcomes)
    BY <1>1 DEF PrepTypeOK
  <2>3. Created' = Created
    BY <2>1, <2>2 DEF Created, Outcomes
  <2>4. PrepTypeOK'
    BY <1>1, ZenonT(60) DEF PrepTypeOK
  <2>5. JobsKnown' /\ WatchedJob'
    BY <1>1, <2>3 DEF JobsKnown, WatchedJob
  <2>6. OutcomeIsOwn'
    <3>1. prepareIdRef # NoPrep => prepareIdRef \in Preps
      BY DEF PrepTypeOK
    <3> QED
      BY <1>1, <2>1, <2>2, <3>1 DEF NewsIsTrue, OutcomeIsOwn, Outcomes
  <2>7. NewsIsTrue'
    <3>1. \A q \in Preps : poll'[q] \in Outcomes => jobStatus'[q] = poll'[q]
      BY <1>1, <2>1 DEF NewsIsTrue
    <3>2. \A q \in Preps : \A i \in 1..Len(wire'[q]) :
              wire'[q][i] \in Outcomes => jobStatus'[q] = wire'[q][i]
      <4> TAKE q \in Preps
      <4>1. CASE q = p
        BY <1>1, <4>1
      <4>2. CASE q # p
        BY <1>1, <2>1, <4>2 DEF NewsIsTrue
      <4> QED
        BY <4>1, <4>2
    <3> QED
      BY <2>6, <3>1, <3>2 DEF NewsIsTrue
  <2> QED
    BY <2>4, <2>5, <2>7
<1>2. ASSUME NEW x \in {"stage", "end"} \cup Outcomes
      PROVE  LET w == Append(wire[p], x)
             IN  /\ w \in Seq({"stage", "end"} \cup Outcomes) /\ Len(w) = Len(wire[p]) + 1
                 /\ w[Len(wire[p]) + 1] = x /\ \A i \in 1..Len(wire[p]) : w[i] = wire[p][i]
  BY DEF PrepTypeOK
<1>3. CASE Progress(p)
  <2>1. wire' = [wire EXCEPT ![p] = Append(wire[p], "stage")] /\ UNCHANGED <<jobVars, post, pageVars>>
    BY <1>3 DEF Progress
  <2>2. wire'[p] = Append(wire[p], "stage") /\ \A q \in Preps \ {p} : wire'[q] = wire[q]
    BY <2>1 DEF PrepTypeOK
  <2>3. \A i \in 1..Len(wire'[p]) : wire'[p][i] \in Outcomes => jobStatus[p] = wire'[p][i]
    BY <1>2, <2>2 DEF NewsIsTrue, Outcomes, PrepTypeOK
  <2>4. wire' \in [Preps -> Seq({"stage", "end"} \cup Outcomes)]
    BY <1>2, <2>1 DEF PrepTypeOK
  <2> QED
    BY <1>1, <2>1, <2>2, <2>3, <2>4 DEF jobVars, pageVars, JobsKnown, NoStreamOutlivesJob, NewsIsTrue,
                                         PrepTypeOK
<1>4. ASSUME NEW outcome \in Outcomes, JobEnds(p, outcome) PROVE PInv'
  <2> DEFINE last == IF InMap(p) THEN <<outcome, "end">> ELSE <<"end">>
             w == IF p \in sseClients THEN wire[p] \o last ELSE wire[p]
  <2>1. jobStatus[p] = "preparing" /\ jobStatus' = [jobStatus EXCEPT ![p] = outcome]
        /\ wire' = [wire EXCEPT ![p] = w] /\ sseClients' = sseClients \ {p}
        /\ UNCHANGED <<prepareJobs, createdAt, post, pageVars>>
    BY <1>4 DEF JobEnds
  <2>2. \A i \in 1..Len(wire[p]) : wire[p][i] \notin Outcomes
    BY <2>1 DEF NewsIsTrue, Outcomes
  <2>3. /\ w \in Seq({"stage", "end"} \cup Outcomes)
        /\ \A i \in 1..Len(w) : w[i] \in Outcomes => w[i] = outcome
    <3>1. CASE p \notin sseClients
      <4>1. w = wire[p]
        BY <3>1
      <4> HIDE DEF w
      <4> QED
        BY <2>2, <4>1 DEF PrepTypeOK
    <3>2. CASE p \in sseClients
      <4>1. /\ last \in Seq({"stage", "end"} \cup Outcomes)
            /\ \A i \in 1..Len(last) : last[i] \in Outcomes => last[i] = outcome
        <5>1. CASE InMap(p)
          <6>1. last = <<outcome, "end">>
            BY <5>1
          <6> HIDE DEF last
          <6> QED
            BY <6>1 DEF Outcomes
        <5>2. CASE ~InMap(p)
          <6>1. last = <<"end">>
            BY <5>2
          <6> HIDE DEF last
          <6> QED
            BY <6>1 DEF Outcomes
        <5> QED
          BY <5>1, <5>2
      <4>2. w = wire[p] \o last /\ wire[p] \in Seq({"stage", "end"} \cup Outcomes)
        BY <3>2 DEF PrepTypeOK
      <4> HIDE DEF w, last
      <4> QED
        BY <2>2, <4>1, <4>2
    <3> QED
      BY <3>1, <3>2
  <2> HIDE DEF w
  <2>4. wire' \in [Preps -> Seq({"stage", "end"} \cup Outcomes)] /\ wire'[p] = w
        /\ \A q \in Preps \ {p} : wire'[q] = wire[q]
    BY <2>1, <2>3 DEF PrepTypeOK
  <2>5. jobStatus'[p] = outcome /\ \A q \in Preps \ {p} : jobStatus'[q] = jobStatus[q]
    BY <2>1 DEF PrepTypeOK
  <2>6. poll' = poll /\ poll[p] \notin Outcomes
    BY <2>1 DEF NewsIsTrue, pageVars, Outcomes
  <2>7. NoStreamOutlivesJob'
    BY <2>1, <2>5 DEF JobsKnown, NoStreamOutlivesJob, PrepTypeOK
  <2> QED
    BY <1>1, <2>1, <2>3, <2>4, <2>5, <2>6, <2>7 DEF pageVars, PrepTypeOK
<1>5. CASE SseConnect(p)
  <2> DEFINE w == IF ~InMap(p) THEN <<>>
                  ELSE IF jobStatus[p] \in Outcomes THEN <<jobStatus[p], "end">> ELSE <<"stage">>
  <2>1. wire' = [wire EXCEPT ![p] = w]
        /\ UNCHANGED <<prepareJobs, createdAt, jobStatus, post, current, prepareIdRef, readyHandled,
                       prepState, poll, connects>>
    BY <1>5 DEF SseConnect
  <2>2. /\ w \in Seq({"stage", "end"} \cup Outcomes)
        /\ \A i \in 1..Len(w) : w[i] \in Outcomes => w[i] = jobStatus[p]
    <3>1. CASE ~InMap(p)
      <4>1. w = <<>> /\ <<>> \in Seq({"stage", "end"} \cup Outcomes) /\ Len(<<>>) = 0
        BY <3>1
      <4> HIDE DEF w
      <4> QED
        BY <4>1
    <3>2. CASE InMap(p) /\ jobStatus[p] \in Outcomes
      <4>1. w = <<jobStatus[p], "end">>
        BY <3>2
      <4> HIDE DEF w
      <4> QED
        BY <3>2, <4>1 DEF Outcomes
    <3>3. CASE InMap(p) /\ jobStatus[p] \notin Outcomes
      <4>1. w = <<"stage">>
        BY <3>3
      <4> HIDE DEF w
      <4> QED
        BY <4>1 DEF Outcomes
    <3> QED
      BY <3>1, <3>2, <3>3
  <2> HIDE DEF w
  <2>3. /\ wire' \in [Preps -> Seq({"stage", "end"} \cup Outcomes)] /\ wire'[p] = w
        /\ \A q \in Preps \ {p} : wire'[q] = wire[q]
    BY <2>1, <2>2 DEF PrepTypeOK
  <2>4. source' \in [Preps -> {"none", "connecting", "open", "closed"}]
    BY <1>5 DEF SseConnect, PrepTypeOK
  <2>5. sseClients' \subseteq Preps /\ NoStreamOutlivesJob'
    BY <1>5, <2>1 DEF SseConnect, JobsKnown, NoStreamOutlivesJob, PrepTypeOK
  <2> QED
    BY <1>1, <2>1, <2>2, <2>3, <2>4, <2>5 DEF NewsIsTrue, PrepTypeOK
<1>6. CASE PollAnswer(p)
  <2>1. InMap(p) => jobStatus[p] \in {"preparing"} \cup Outcomes
    BY DEF InMap, JobsKnown, Created, PrepTypeOK
  <2>2. poll' = [poll EXCEPT ![p] = IF InMap(p) THEN jobStatus[p] ELSE "missing"]
        /\ UNCHANGED <<jobVars, wire, post, current, prepareIdRef, readyHandled, prepState,
                       source, connects>>
    BY <1>6 DEF PollAnswer
  <2> QED
    BY <1>1, <2>1, <2>2, SMTT(30) DEF jobVars, JobsKnown, NoStreamOutlivesJob, NewsIsTrue, PrepTypeOK, Outcomes
<1> QED
  BY <1>3, <1>4, <1>5, <1>6

\* While no job ends, dropped events and polls make no news untrue.
LEMMA LessNews ==
    ASSUME NewsIsTrue, UNCHANGED jobStatus,
           \A p \in Preps : wire'[p] = wire[p] \/ Len(wire'[p]) = 0,
           \A p \in Preps : poll'[p] = poll[p] \/ poll'[p] \notin Outcomes
    PROVE  /\ \A p \in Preps : \A i \in 1..Len(wire'[p]) :
                 wire'[p][i] \in Outcomes => jobStatus'[p] = wire'[p][i]
           /\ \A p \in Preps : poll'[p] \in Outcomes => jobStatus'[p] = poll'[p]
<1>1. ASSUME NEW p \in Preps, NEW i \in 1..Len(wire'[p]), wire'[p][i] \in Outcomes
      PROVE  jobStatus'[p] = wire'[p][i]
  <2>1. wire'[p] = wire[p]
    BY <1>1
  <2> QED
    BY <1>1, <2>1 DEF NewsIsTrue
<1> QED
  BY <1>1 DEF NewsIsTrue

\* The page starts, cancels and is answered; its stream breaks, its timer fires.
LEMMA PageMoves ==
    ASSUME PInv,
           \/ CancelDebugPrep
           \/ \E p \in Preps :
                 \/ StartDebugPrep(p) \/ PostAnswered(p) \/ PostFails(p)
                 \/ SseDrop(p) \/ PollTimer(p)
    PROVE  PInv'
<1> USE PrepAssumption DEF PInv
<1>1. poll \in [Preps -> {"none", "asked", "timer", "preparing", "missing"} \cup Outcomes]
  BY DEF PrepTypeOK
<1>2. ASSUME CancelDebugPrep \/ \E p \in Preps : StartDebugPrep(p) PROVE PInv'
  <2>1. StopPrepWatchers(poll)
    BY <1>2 DEF CancelDebugPrep, StartDebugPrep
  <2>2. prepareIdRef' = NoPrep /\ readyHandled' = NoPrep /\ prepState' \in {"idle", "queued"}
        /\ UNCHANGED <<prepareJobs, createdAt, jobStatus, connects>>
    BY <1>2 DEF CancelDebugPrep, StartDebugPrep
  <2>3. \/ post' = post
        \/ \E p \in Preps : post[p] = "idle" /\ post' = [post EXCEPT ![p] = "sent"]
    BY <1>2 DEF CancelDebugPrep, StartDebugPrep
  <2>4. current' \in Preps \cup {NoPrep}
    BY <1>2 DEF CancelDebugPrep, StartDebugPrep
  <2>5. PrepTypeOK'
    BY <1>1, <2>1, <2>2, <2>3, <2>4, StopEffect DEF PrepTypeOK
  <2>6. Created' = Created
    BY <2>2 DEF Created
  <2>7. \A p \in Preps : post'[p] = post[p] \/ (post[p] = "idle" /\ post'[p] = "sent")
    BY <2>3 DEF PrepTypeOK
  <2>8. JobsKnown'
    BY <1>1, <2>1, <2>2, <2>6, <2>7, StopEffect DEF JobsKnown, NoStreamOutlivesJob, Created
  <2>9. WatchedJob'
    BY <2>2, <2>7 DEF WatchedJob
  <2>10. /\ \A p \in Preps : wire'[p] = wire[p] \/ Len(wire'[p]) = 0
         /\ \A p \in Preps : poll'[p] = poll[p] \/ poll'[p] \notin Outcomes
    BY <1>1, <2>1, StopEffect DEF Outcomes
  <2>11. NewsIsTrue'
    BY <2>2, <2>10, LessNews DEF NewsIsTrue, OutcomeIsOwn
  <2> QED
    BY <2>5, <2>8, <2>9, <2>11
<1>3. ASSUME NEW p \in Preps, PostAnswered(p) PROVE PInv'
  <2>1. post[p] = "answered" /\ post' = [post EXCEPT ![p] = "done"]
        /\ UNCHANGED <<jobVars, wire, current, connects>>
    BY <1>3 DEF PostAnswered
  <2>2. \/ /\ current = p /\ prepareIdRef' = p /\ readyHandled' = NoPrep /\ prepState' = "preparing"
           /\ source' = [source EXCEPT ![p] = "connecting"] /\ poll' = [poll EXCEPT ![p] = "asked"]
        \/ UNCHANGED <<prepareIdRef, readyHandled, prepState, source, poll>>
    BY <1>3 DEF PostAnswered
  <2>3. Created' = Created
    BY <2>1 DEF jobVars, Created
  <2>4. PrepTypeOK'
    <3>1. post' \in [Preps -> {"idle", "sent", "answered", "done", "foreign"}]
      BY <2>1 DEF PrepTypeOK
    <3>2. /\ source' \in [Preps -> {"none", "connecting", "open", "closed"}]
          /\ poll' \in [Preps -> {"none", "asked", "timer", "preparing", "missing"} \cup Outcomes]
      BY <2>2 DEF PrepTypeOK
    <3> QED
      BY <2>1, <2>2, <3>1, <3>2, SMTT(30) DEF jobVars, PrepTypeOK
  <2>5. \A q \in Preps : post'[q] = (IF q = p THEN "done" ELSE post[q])
    BY <2>1 DEF PrepTypeOK
  <2>6. JobsKnown'
    BY <2>1, <2>3, <2>5 DEF jobVars, JobsKnown, NoStreamOutlivesJob, Created
  <2>7. WatchedJob'
    BY <2>1, <2>2, <2>5 DEF WatchedJob, PrepTypeOK
  <2>8. \A q \in Preps : poll'[q] \in {"asked", poll[q]}
    BY <2>2 DEF PrepTypeOK
  <2>9. NewsIsTrue'
    BY <2>1, <2>2, <2>8 DEF jobVars, NewsIsTrue, OutcomeIsOwn, Outcomes
  <2> QED
    BY <2>4, <2>6, <2>7, <2>9
<1>4. ASSUME NEW p \in Preps, PostFails(p) PROVE PInv'
  <2>1. post[p] \in {"sent", "answered"} /\ post' = [post EXCEPT ![p] = "done"]
        /\ prepState' = (IF current = p THEN "failed" ELSE prepState)
        /\ UNCHANGED <<jobVars, wire, current, prepareIdRef, readyHandled, source, poll, connects>>
    BY <1>4 DEF PostFails
  <2>2. Created' = Created
    BY <2>1 DEF jobVars, Created
  <2>3. PrepTypeOK'
    BY <2>1 DEF jobVars, PrepTypeOK, Outcomes
  <2>4. \A q \in Preps : post'[q] = (IF q = p THEN "done" ELSE post[q])
    BY <2>1 DEF PrepTypeOK
  <2>5. JobsKnown' /\ WatchedJob'
    BY <2>1, <2>2, <2>4 DEF jobVars, JobsKnown, NoStreamOutlivesJob, Created, WatchedJob, PrepTypeOK
  <2>6. NewsIsTrue'
    BY <2>1 DEF jobVars, NewsIsTrue, OutcomeIsOwn, WatchedJob
  <2> QED
    BY <2>3, <2>5, <2>6
<1>5. ASSUME NEW p \in Preps, SseDrop(p) \/ PollTimer(p) PROVE PInv'
  <2>1. UNCHANGED <<prepareJobs, createdAt, jobStatus, post, current, prepareIdRef, readyHandled,
                    prepState, connects>> /\ sseClients' \subseteq sseClients
    BY <1>5 DEF SseDrop, PollTimer, jobVars
  <2>2. Created' = Created
    BY <2>1 DEF Created
  <2>3. <<>> \in Seq({"stage", "end"} \cup Outcomes) /\ Len(<<>>) = 0
    OBVIOUS
  <2>4. PrepTypeOK'
    <3>1. CASE SseDrop(p)
      <4>1. /\ wire' = [wire EXCEPT ![p] = <<>>] /\ source' = [source EXCEPT ![p] = "connecting"]
            /\ poll' = poll
        BY <3>1 DEF SseDrop
      <4> QED
        BY <2>1, <2>3, <4>1 DEF PrepTypeOK
    <3>2. CASE PollTimer(p)
      <4>1. wire' = wire /\ source' = source /\ poll' = [poll EXCEPT ![p] = "asked"]
        BY <3>2 DEF PollTimer
      <4> QED
        BY <2>1, <4>1 DEF PrepTypeOK
    <3> QED
      BY <1>5, <3>1, <3>2
  <2>5. JobsKnown' /\ WatchedJob'
    BY <2>1, <2>2 DEF JobsKnown, NoStreamOutlivesJob, WatchedJob
  <2>6. \A q \in Preps : wire'[q] = wire[q] \/ Len(wire'[q]) = 0
    BY <1>5, <2>3 DEF SseDrop, PollTimer, PrepTypeOK
  <2>7. \A q \in Preps : poll'[q] \in {"asked", poll[q]}
    BY <1>5 DEF SseDrop, PollTimer, PrepTypeOK
  <2>8. NewsIsTrue'
    BY <2>1, <2>6, <2>7 DEF NewsIsTrue, OutcomeIsOwn, Outcomes
  <2> QED
    BY <2>4, <2>5, <2>8
<1> QED
  BY <1>2, <1>3, <1>4, <1>5

\* The page hears of its job, by an event or by a poll, and stops to watch it
\* when it hears the outcome.
LEMMA OutcomeStep ==
    ASSUME PInv, NEW p \in Preps, prepareIdRef = p,
           NEW polls \in [Preps -> {"none", "asked", "timer", "preparing", "missing"} \cup Outcomes],
           \A q \in Preps : polls[q] \in {"none", poll[q]},
           \/ jobStatus[p] = "ready" /\ HandleReady(p, polls)
           \/ jobStatus[p] = "failed" /\ HandleFailed(polls),
           UNCHANGED <<prepareJobs, createdAt, jobStatus, current, post, prepareIdRef>>
    PROVE  PInv'
<1> USE PrepAssumption DEF PInv
<1>1. StopPrepWatchers(polls) /\ prepState' = jobStatus[p] /\ prepState' \in Outcomes
  BY DEF HandleReady, HandleFailed, Outcomes
<1>2. \A q \in Preps \ {p} : connects'[q] = connects[q]
  BY DEF HandleReady, HandleFailed, PrepTypeOK
<1>3. \/ connects'[p] = connects[p] /\ (readyHandled' = readyHandled \/ readyHandled' = p)
      \/ connects[p] = 0 /\ connects'[p] = 1 /\ readyHandled' = p
  BY DEF HandleReady, HandleFailed, PrepTypeOK, WatchedJob
<1>4. readyHandled' \in Preps \cup {NoPrep} /\ connects' \in [Preps -> Nat]
  <2>1. connects[p] \in Nat /\ connects[p] + 1 \in Nat /\ connects \in [Preps -> Nat]
        /\ readyHandled \in Preps \cup {NoPrep}
    BY DEF PrepTypeOK
  <2>2. CASE HandleReady(p, polls)
    <3>1. \/ connects' = [connects EXCEPT ![p] = connects[p]]
          \/ connects' = [connects EXCEPT ![p] = connects[p] + 1]
      BY <2>2 DEF HandleReady
    <3> QED
      BY <2>1, <2>2, <3>1 DEF HandleReady
  <2>3. CASE HandleFailed(polls)
    BY <2>1, <2>3 DEF HandleFailed
  <2> QED
    BY <2>2, <2>3
<1>5. Created' = Created
  BY DEF Created
<1>6. PrepTypeOK'
  BY <1>1, <1>4, StopEffect DEF PrepTypeOK
<1>7. JobsKnown'
  BY <1>1, <1>5, StopEffect DEF JobsKnown, NoStreamOutlivesJob
<1>8. WatchedJob'
  BY <1>2, <1>3 DEF WatchedJob
<1>9. NewsIsTrue'
  <2>1. /\ \A q \in Preps : wire'[q] = wire[q] \/ Len(wire'[q]) = 0
        /\ \A q \in Preps : poll'[q] = poll[q] \/ poll'[q] \notin Outcomes
    BY <1>1, StopEffect DEF Outcomes
  <2> QED
    BY <1>1, <2>1, LessNews DEF NewsIsTrue, OutcomeIsOwn
<1> QED
  BY <1>6, <1>7, <1>8, <1>9

\* The events of the stream and the answers to the polls.
LEMMA NewsStep ==
    ASSUME PInv, NEW p \in Preps, SseEvent(p) \/ PollResult(p)
    PROVE  PInv'
<1> USE PrepAssumption DEF PInv
<1>1. ASSUME UNCHANGED <<prepareJobs, createdAt, jobStatus, sseClients, current, post, prepareIdRef,
                         readyHandled, connects>>,
             prepState' = prepState \/ prepState' = "preparing",
             source' \in [Preps -> {"none", "connecting", "open", "closed"}],
             wire' \in [Preps -> Seq({"stage", "end"} \cup Outcomes)],
             poll' \in [Preps -> {"none", "asked", "timer", "preparing", "missing"} \cup Outcomes],
             \A q \in Preps : poll'[q] \in {"none", "timer", poll[q]},
             \A q \in Preps : wire'[q] \in {wire[q], <<>>} \/ (wire[q] # <<>> /\ wire'[q] = Tail(wire[q]))
      PROVE  PInv'
  <2>1. Created' = Created
    BY <1>1 DEF Created
  <2>2. PrepTypeOK'
    BY <1>1 DEF PrepTypeOK
  <2>3. JobsKnown' /\ WatchedJob'
    BY <1>1, <2>1 DEF JobsKnown, NoStreamOutlivesJob, WatchedJob
  <2>4. \A q \in Preps : \A i \in 1..Len(wire'[q]) :
            wire'[q][i] \in Outcomes => jobStatus[q] = wire'[q][i]
    <3> SUFFICES ASSUME NEW q \in Preps, NEW i \in 1..Len(wire'[q]), wire'[q][i] \in Outcomes
                 PROVE  jobStatus[q] = wire'[q][i]
      OBVIOUS
    <3>1. wire[q] \in Seq({"stage", "end"} \cup Outcomes)
      BY DEF PrepTypeOK
    <3>2. CASE wire'[q] = wire[q]
      BY <3>2 DEF NewsIsTrue
    <3>3. CASE wire'[q] = <<>>
      BY <3>3
    <3>4. CASE wire'[q] = Tail(wire[q]) /\ wire[q] # <<>>
      <4>1. i + 1 \in 1..Len(wire[q]) /\ wire'[q][i] = wire[q][i + 1]
        BY <3>1, <3>4
      <4> QED
        BY <4>1 DEF NewsIsTrue
    <3> QED
      BY <1>1, <3>2, <3>3, <3>4
  <2>5. NewsIsTrue'
    BY <1>1, <2>4 DEF NewsIsTrue, OutcomeIsOwn, Outcomes
  <2> QED
    BY <2>2, <2>3, <2>5
<1>2. <<>> \in Seq({"stage", "end"} \cup Outcomes)
      /\ poll \in [Preps -> {"none", "asked", "timer", "preparing", "missing"} \cup Outcomes]
  BY DEF PrepTypeOK
<1>3. CASE SseEvent(p)
  <2>1. source[p] = "open" /\ wire[p] # <<>> /\ wire[p] \in Seq({"stage", "end"} \cup Outcomes)
        /\ UNCHANGED <<prepareJobs, createdAt, jobStatus, current, post, prepareIdRef>>
    BY <1>3 DEF SseEvent, PrepTypeOK
  <2>2. 1 \in 1..Len(wire[p]) /\ Head(wire[p]) = wire[p][1]
        /\ Tail(wire[p]) \in Seq({"stage", "end"} \cup Outcomes)
    BY <2>1
  <2>3. ASSUME Head(wire[p]) = "stage", wire' = [wire EXCEPT ![p] = Tail(wire[p])],
               prepState' = (IF prepareIdRef = p THEN "preparing" ELSE prepState),
               UNCHANGED <<sseClients, readyHandled, source, poll, connects>>
        PROVE  PInv'
    <3>1. /\ wire' \in [Preps -> Seq({"stage", "end"} \cup Outcomes)]
          /\ \A q \in Preps : wire'[q] = wire[q] \/ (wire[q] # <<>> /\ wire'[q] = Tail(wire[q]))
      BY <2>1, <2>2, <2>3 DEF PrepTypeOK
    <3> QED
      BY <1>1, <1>2, <2>1, <2>3, <3>1 DEF PrepTypeOK
  <2>4. ASSUME source' = [source EXCEPT ![p] = "connecting"], wire' = [wire EXCEPT ![p] = <<>>],
               UNCHANGED <<sseClients, readyHandled, prepState, poll, connects>>
        PROVE  PInv'
    <3>1. /\ wire' \in [Preps -> Seq({"stage", "end"} \cup Outcomes)]
          /\ \A q \in Preps : wire'[q] \in {wire[q], <<>>}
          /\ source' \in [Preps -> {"none", "connecting", "open", "closed"}]
      BY <1>2, <2>4 DEF PrepTypeOK
    <3> QED
      BY <1>1, <1>2, <2>1, <2>4, <3>1
  <2>5. ASSUME prepareIdRef = p, \/ Head(wire[p]) = "ready" /\ HandleReady(p, poll)
                                 \/ Head(wire[p]) = "failed" /\ HandleFailed(poll)
        PROVE  PInv'
    <3>1. jobStatus[p] = Head(wire[p])
      BY <2>2, <2>5 DEF NewsIsTrue, Outcomes
    <3> QED
      BY <1>2, <2>1, <2>5, <3>1, OutcomeStep
  <2> QED
    BY <1>3, <2>3, <2>4, <2>5 DEF SseEvent
<1>4. CASE PollResult(p)
  <2> DEFINE polls == [poll EXCEPT ![p] = "none"]
  <2>1. UNCHANGED <<prepareJobs, createdAt, jobStatus, current, post, prepareIdRef>>
    BY <1>4 DEF PollResult
  <2>2. polls \in [Preps -> {"none", "asked", "timer", "preparing", "missing"} \cup Outcomes]
        /\ \A q \in Preps : polls[q] \in {"none", poll[q]}
    BY <1>2
  <2>3. ASSUME poll' = polls \/ poll' = [poll EXCEPT ![p] = "timer"],
               prepState' = prepState \/ prepState' = "preparing",
               UNCHANGED <<sseClients, wire, readyHandled, source, connects>>
        PROVE  PInv'
    <3>1. /\ poll' \in [Preps -> {"none", "asked", "timer", "preparing", "missing"} \cup Outcomes]
          /\ \A q \in Preps : poll'[q] \in {"none", "timer", poll[q]}
      BY <1>2, <2>2, <2>3
    <3> QED
      BY <1>1, <2>1, <2>3, <3>1 DEF PrepTypeOK
  <2>4. ASSUME prepareIdRef = p, \/ poll[p] = "ready" /\ HandleReady(p, polls)
                                 \/ poll[p] = "failed" /\ HandleFailed(polls)
        PROVE  PInv'
    <3>1. jobStatus[p] = poll[p]
      BY <2>4 DEF NewsIsTrue, Outcomes
    <3> HIDE DEF polls
    <3> QED
      BY <2>1, <2>2, <2>4, <3>1, OutcomeStep
  <2> QED
    BY <1>4, <2>3, <2>4 DEF PollResult
<1> QED
  BY <1>3, <1>4

-----------------------------------------------------------------------------
(***************************************************************************)
(* DebugPrep: the theorems                                                 *)
(***************************************************************************)

\* The invariant of the jobs and the page, whatever is cancelled, pruned or lost.
THEOREM PrepInvariant == PrepSpec => []PInv
<1>1. ASSUME PInv, PrepNext PROVE PInv'
  BY <1>1, CreateStep, JobStep, PageMoves, NewsStep DEF PrepNext
<1>2. ASSUME PInv, UNCHANGED prepVars PROVE PInv'
  <2> USE <1>2 DEF PInv, prepVars, jobVars, pageVars
  <2>1. PrepTypeOK'
    BY DEF PrepTypeOK
  <2>2. JobsKnown'
    BY DEF JobsKnown, NoStreamOutlivesJob, Created
  <2>3. WatchedJob' /\ NewsIsTrue'
    BY DEF WatchedJob, NewsIsTrue, OutcomeIsOwn
  <2> QED
    BY <2>1, <2>2, <2>3
<1>3. PInv /\ [PrepNext]_prepVars => PInv'
  BY <1>1, <1>2
<1> QED
  BY PInvInit, <1>3, PTL DEF PrepSpec

\* The job map stays within PREPARE_JOB_MAX and one, no stream outlives its job,
\* and a page connects to the session of a job at most once.
THEOREM ConnectsOnceAlways == PrepSpec => []PrepInv
<1>1. PInv => PrepInv
  <2>1. PInv => ConnectsOnce
    BY DEF PInv, WatchedJob, ConnectsOnce
  <2> QED
    BY <2>1 DEF PInv, PrepInv, JobsKnown
<1> QED
  BY PrepInvariant, <1>1, PTL

\* The outcome on display is that of the job the page watches.
THEOREM OutcomesAreOwn == PrepSpec => []OutcomeIsOwn
<1>1. PInv => OutcomeIsOwn
  BY DEF PInv, NewsIsTrue
<1> QED
  BY PrepInvariant, <1>1, PTL

\* A job that was cancelled or replaced is never connected: the handlers run for
\* the job that is watched, which is that of the current start.
THEOREM AbandonedJobsStayAlone == PrepSpec => AbandonedNeverConnects
<1> DEFINE Alone == \A p \in Preps : current # p => connects'[p] = connects[p]
<1>1. ASSUME PInv, PrepNext PROVE Alone
  <2> SUFFICES ASSUME NEW p \in Preps, connects'[p] # connects[p] PROVE current = p
    OBVIOUS
  <2>1. PICK q \in Preps : SseEvent(q) \/ PollResult(q)
    BY <1>1 DEF PrepNext, CancelDebugPrep, Create, Progress, SseConnect, PollAnswer, JobEnds,
                StartDebugPrep, PostAnswered, PostFails, SseDrop, PollTimer, pageVars
  <2>2. prepareIdRef = q /\ \E polls : HandleReady(q, polls)
    BY <2>1 DEF SseEvent, PollResult, HandleFailed
  <2>3. p = q
    BY <2>2 DEF HandleReady, PInv, PrepTypeOK
  <2> QED
    BY <1>1, <2>2, <2>3, PrepAssumption DEF PInv, WatchedJob
<1>2. PInv /\ [PrepNext]_prepVars => [Alone]_prepVars
  BY <1>1
<1> QED
  BY PrepInvariant, <1>2, PTL DEF PrepSpec, AbandonedNeverConnects

=============================================================================
