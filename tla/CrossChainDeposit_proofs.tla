---------------------- MODULE CrossChainDeposit_proofs ----------------------
(***************************************************************************)
(* For any number of executions, any amounts and any user: no transaction  *)
(* deposits more than has arrived, so what the user held before stays, and *)
(* the page says done only after a deposit.  For a user who waits for the  *)
(* first answer: there is one bridge transaction.                          *)
(*                                                                         *)
(* Most steps replace the record of one execution and perhaps what the     *)
(* page shows.  ExecutionStep and PatientStep say once what such a step    *)
(* must see to; the lemmas of the actions check just that.                 *)
(***************************************************************************)
EXTENDS CrossChainDeposit, FiniteSetTheorems, TLAPS

-----------------------------------------------------------------------------
(***************************************************************************)
(* What has arrived                                                        *)
(***************************************************************************)

\* The funds bridged are a natural number.
LEMMA BridgedType == Bridged \in Nat
<1> DEFINE S == {e \in Execs : bridge[e] \in Arrived}
<1>1. IsFiniteSet(S)
  BY FS_Subset, DepositAssumption
<1>2. Cardinality(S) \in Nat
  BY <1>1, FS_CardinalityType
<1> QED
  BY <1>2, DepositAssumption DEF Bridged

\* A bridge that arrives adds its amount, another step of a bridge nothing
\* (the statuses waitForBridgeSettlement tells apart).
LEMMA BridgedGrows ==
    ASSUME CDTypeOK, NEW e \in Execs, NEW st \in BridgeStates, BridgeStep(e, st)
    PROVE  /\ Bridged' \in Nat
           /\ Bridged' = IF st \in Arrived THEN Bridged + Amount ELSE Bridged
<1> DEFINE S == {x \in Execs : bridge[x] \in Arrived}
           T == {x \in Execs : bridge'[x] \in Arrived}
<1>1. IsFiniteSet(S) /\ Cardinality(S) \in Nat
  BY FS_Subset, FS_CardinalityType, DepositAssumption
<1>2. bridge[e] \notin Arrived /\ bridge' = [bridge EXCEPT ![e] = st]
  BY DEF BridgeStep, Arrived
<1>3. bridge \in [Execs -> BridgeStates]
  BY DEF CDTypeOK
<1>4. CASE st \in Arrived
  <2>1. T = S \cup {e} /\ e \notin S
    BY <1>2, <1>3, <1>4
  <2>2. Cardinality(T) = Cardinality(S) + 1
    BY <1>1, <2>1, FS_AddElement
  <2> HIDE DEF S, T
  <2>3. Amount * (Cardinality(S) + 1) = Amount * Cardinality(S) + Amount
    BY <1>1, DepositAssumption
  <2>4. Bridged = Amount * Cardinality(S) /\ Bridged' = Amount * Cardinality(T)
    BY DEF Bridged, S, T
  <2> QED
    BY <1>1, <1>4, <2>2, <2>3, <2>4, DepositAssumption, BridgedType
<1>5. CASE st \notin Arrived
  <2>1. T = S
    BY <1>2, <1>3, <1>5
  <2> QED
    BY <1>5, <2>1, BridgedType DEF Bridged
<1> QED
  BY <1>4, <1>5

\* What has arrived is a natural number.
LEMMA ArrivalsType == FundsAreSound => Arrivals \in Nat
BY BridgedType, DepositAssumption DEF FundsAreSound, CDTypeOK, Arrivals

-----------------------------------------------------------------------------
(***************************************************************************)
(* Steps of one execution                                                  *)
(***************************************************************************)

\* A step that gives one execution a sound record, shows a sound page and
\* leaves the chains alone keeps the funds where they belong.
LEMMA ExecutionStep ==
    ASSUME FundsAreSound, NEW e \in Execs, NEW r \in Record,
           exec' = [exec EXCEPT ![e] = r], SoundRecord(e, r),
           ui' \in Page, SoundPage(ui'), UNCHANGED chainVars
    PROVE  FundsAreSound'
<1> USE DEF chainVars, userVars
<1>1. Arrivals' = Arrivals
  BY DEF Arrivals, Bridged, userVars
<1>2. CDTypeOK'
  BY DEF FundsAreSound, CDTypeOK, SoundPage
<1>3. SoundPage(ui)'
  BY <1>1 DEF SoundPage, Delivered
<1>4. ASSUME NEW x \in Execs PROVE SoundRecord(x, exec[x])' /\ SoundDeposit(deposit[x])'
  <2>1. exec'[x] = IF x = e THEN r ELSE exec[x]
    BY DEF FundsAreSound, CDTypeOK
  <2>2. SoundRecord(x, exec'[x])
    BY <2>1 DEF FundsAreSound
  <2>3. SoundDeposit(deposit[x])
    BY DEF FundsAreSound
  <2> QED
    BY <1>1, <2>2, <2>3 DEF SoundRecord, SoundDeposit, Delivered
<1>5. (dst <= seen + Arrivals)'
  BY <1>1 DEF FundsAreSound
<1> QED
  BY <1>2, <1>3, <1>4, <1>5 DEF FundsAreSound

\* An await that ends well: the page is told a phase (onStateChange).
LEMMA GoOnKeeps ==
    ASSUME FundsAreSound, NEW e \in Execs, NEW r \in Record, NEW phase \in Phases,
           GoOn(e, r, phase), SoundRecord(e, r),
           phase = "done" => vault > 0 /\ Delivered(r.hash), UNCHANGED chainVars
    PROVE  FundsAreSound'
<1>1. ui' = [phase |-> phase, after |-> FALSE, hash |-> r.hash, amount |-> r.amount]
  BY DEF GoOn, Report
<1>2. ui' \in Page
  BY <1>1 DEF Page, Record
<1>3. SoundPage(ui')
  BY <1>1 DEF SoundPage, SoundRecord
<1>4. exec' = [exec EXCEPT ![e] = r]
  BY DEF GoOn
<1> QED
  BY <1>2, <1>3, <1>4, ExecutionStep

\* An await that fails: the page is told hash and amount (fail()).
LEMMA FailKeeps ==
    ASSUME FundsAreSound, NEW e \in Execs, Fail(e), UNCHANGED chainVars
    PROVE  FundsAreSound'
<1> DEFINE r == [exec[e] EXCEPT !.pc = "over"]
<1>1. exec[e] \in Record /\ SoundRecord(e, exec[e])
  BY DEF FundsAreSound, CDTypeOK
<1>2. r \in Record /\ r.pc = "over" /\ r.hash = exec[e].hash /\ r.amount = exec[e].amount
  BY <1>1 DEF Record, Calls
<1>3. SoundRecord(e, r)
  BY <1>1, <1>2 DEF SoundRecord, BeforeBridge, InDeposit
<1>4. exec' = [exec EXCEPT ![e] = r]
  BY DEF Fail, FundsAreSound, CDTypeOK
<1>5. ui' = [phase |-> "failed", after |-> exec[e].hash # None,
             hash |-> exec[e].hash, amount |-> exec[e].amount]
  BY DEF Fail
<1>6. ui' \in Page /\ SoundPage(ui')
  BY <1>1, <1>5 DEF Page, Phases, Record, SoundPage, SoundRecord
<1> HIDE DEF r
<1> QED
  BY <1>2, <1>3, <1>4, <1>6, ExecutionStep

\* Await with a record that keeps hash and amount.
LEMMA AwaitKeeps ==
    ASSUME FundsAreSound, NEW e \in Execs, NEW pc \in Calls,
           NEW r \in Record, NEW phase \in Phases \ {"done"},
           Await(e, pc, r, phase), exec[e].pc = pc => SoundRecord(e, r)
    PROVE  FundsAreSound'
<1>1. CASE GoOn(e, r, phase)
  BY <1>1, GoOnKeeps DEF Await
<1>2. CASE Fail(e)
  BY <1>2, FailKeeps DEF Await
<1> QED
  BY <1>1, <1>2 DEF Await

-----------------------------------------------------------------------------
(***************************************************************************)
(* Funds: one lemma for the steps of an execution, one for the chains      *)
(***************************************************************************)

LEMMA ExecutionsKeepFunds ==
    ASSUME FundsAreSound, NEW e \in Execs,
           \/ Click(e) \/ PreRead(e) \/ Quote(e) \/ Allowance(e) \/ AllowanceUnread(e)
           \/ Receipt(e) \/ Poll(e) \/ PostRead(e) \/ Retry(e) \/ LiveRead(e)
           \/ DepositQuote(e) \/ DepositAllowance(e) \/ DepositReceipt(e)
    PROVE  FundsAreSound'
<1> DEFINE x == exec[e]
<1>1. x \in Record /\ SoundRecord(e, x) /\ SoundPage(ui) /\ ui \in Page
      /\ dst \in Nat /\ vault \in Nat /\ seen \in Nat /\ dst <= seen + Arrivals
      /\ exec \in [Execs -> Record]
      /\ SoundDeposit(deposit[e])
  BY DEF FundsAreSound, CDTypeOK
<1>2. ASSUME NEW pc \in Calls
      PROVE  /\ At(e, pc) \in Record
             /\ At(e, pc).pc = pc /\ At(e, pc).pre = x.pre
             /\ At(e, pc).hash = x.hash /\ At(e, pc).amount = x.amount
  BY <1>1 DEF At, Record
<1>3. CASE Click(e)
  <2> DEFINE r == [x EXCEPT !.pc = "preread"]
  <2>1. r \in Record /\ SoundRecord(e, r)
    BY <1>1, <1>3 DEF Click, Record, Calls, SoundRecord, BeforeBridge, InDeposit
  <2>2. exec' = [exec EXCEPT ![e] = r] /\ ui' = ui /\ UNCHANGED chainVars
    BY <1>1, <1>3 DEF Click
  <2> QED
    BY <1>1, <2>1, <2>2, ExecutionStep
<1>4. CASE PreRead(e)
  <2> DEFINE r == [At(e, "quote") EXCEPT !.pre = seen]
  <2>1. r \in Record /\ r.pc = "quote" /\ r.pre = seen /\ r.hash = x.hash /\ r.amount = x.amount
    BY <1>1, <1>2 DEF Record, Calls
  <2>2. SoundRecord(e, r)
    BY <1>1, <1>4, <2>1, ArrivalsType DEF PreRead, Await, SoundRecord, BeforeBridge, InDeposit
  <2> HIDE DEF r
  <2>3. Await(e, "preread", r, "quoting-bridge")
    BY <1>4 DEF PreRead, r
  <2> QED
    BY <2>1, <2>2, <2>3, AwaitKeeps DEF Calls, Phases
<1>5. CASE Quote(e)
  <2>1. x.pc = "quote" => SoundRecord(e, At(e, "allowance"))
    BY <1>1, <1>2 DEF SoundRecord, BeforeBridge, InDeposit, Calls
  <2> QED
    BY <1>2, <1>5, <2>1, AwaitKeeps DEF Quote, Calls, Phases
<1>6. CASE Allowance(e)
  <2>1. x.pc = "allowance" => SoundRecord(e, At(e, "sign"))
    BY <1>1, <1>2 DEF SoundRecord, BeforeBridge, InDeposit, Calls
  <2> QED
    BY <1>2, <1>6, <2>1, AwaitKeeps DEF Allowance, Calls, Phases
<1>7. CASE AllowanceUnread(e)
  <2> DEFINE r == [x EXCEPT !.pc = "over"]
  <2>1. r \in Record /\ SoundRecord(e, r)
    BY <1>1 DEF Record, Calls, SoundRecord, BeforeBridge, InDeposit
  <2>2. exec' = [exec EXCEPT ![e] = r] /\ ui' = ui /\ UNCHANGED chainVars
    BY <1>1, <1>7 DEF AllowanceUnread
  <2> QED
    BY <1>1, <2>1, <2>2, ExecutionStep
<1>8. CASE Receipt(e)
  <2> DEFINE r == [x EXCEPT !.pc = "poll"]
  <2>1. CASE Fail(e)
    BY <1>8, <2>1, FailKeeps DEF Receipt
  <2>2. CASE exec' = [exec EXCEPT ![e].pc = "poll"] /\ UNCHANGED ui
    <3>1. r \in Record /\ SoundRecord(e, r)
      BY <1>1, <1>8 DEF Receipt, Record, Calls, SoundRecord, BeforeBridge, InDeposit
    <3>2. exec' = [exec EXCEPT ![e] = r] /\ ui' = ui /\ UNCHANGED chainVars
      BY <1>1, <1>8, <2>2 DEF Receipt
    <3> QED
      BY <1>1, <3>1, <3>2, ExecutionStep
  <2> QED
    BY <1>8, <2>1, <2>2 DEF Receipt
<1>9. CASE Poll(e)
  <2>1. x.pc = "poll" /\ bridge[e] = "delivered" => SoundRecord(e, At(e, "postread"))
    BY <1>1, <1>2 DEF SoundRecord, BeforeBridge, InDeposit, Calls, Delivered
  <2> QED
    BY <1>2, <1>9, <2>1, GoOnKeeps, FailKeeps DEF Poll, Calls, Phases
<1>10. CASE PostRead(e)
  <2> DEFINE r == [At(e, "dquote") EXCEPT !.amount = seen - x.pre]
  <2>1. CASE Fail(e)
    BY <1>10, <2>1, FailKeeps DEF PostRead
  <2>2. CASE seen > x.pre /\ GoOn(e, r, "quoting-deposit")
    <3>1. r \in Record /\ r.pc = "dquote" /\ r.amount = seen - x.pre /\ r.hash = x.hash
      BY <1>1, <1>2, <2>2 DEF Record, Calls
    <3>2. SoundRecord(e, r)
      BY <1>1, <1>10, <2>2, <3>1, ArrivalsType DEF PostRead, SoundRecord, BeforeBridge, InDeposit, Record
    <3> HIDE DEF r
    <3> QED
      BY <1>10, <2>2, <3>1, <3>2, GoOnKeeps DEF PostRead, Phases
  <2> QED
    BY <1>10, <2>1, <2>2 DEF PostRead
<1>11. CASE Retry(e)
  <2> DEFINE r == [[x EXCEPT !.hash = ui.hash, !.amount = ui.amount]
                      EXCEPT !.pc = IF ui.amount = 0 THEN "over" ELSE "liveread"]
  <2>1. r \in Record /\ r.pc = (IF ui.amount = 0 THEN "over" ELSE "liveread")
        /\ r.hash = ui.hash /\ r.amount = ui.amount
    BY <1>1 DEF Record, Calls, Page
  <2>2. SoundRecord(e, r)
    BY <1>1, <2>1 DEF SoundRecord, SoundPage, BeforeBridge, InDeposit, Page
  <2>3. exec' = [exec EXCEPT ![e] = r] /\ ui' = ui /\ UNCHANGED chainVars
    BY <1>11 DEF Retry
  <2> HIDE DEF r
  <2> QED
    BY <1>1, <2>1, <2>2, <2>3, ExecutionStep
<1>12. CASE LiveRead(e)
  <2> DEFINE r == [At(e, "dquote") EXCEPT !.amount = Lesser(seen, x.amount)]
  <2>1. CASE Fail(e)
    BY <1>12, <2>1, FailKeeps DEF LiveRead
  <2>2. CASE seen > 0 /\ GoOn(e, r, "quoting-deposit")
    <3>1. r \in Record /\ r.pc = "dquote" /\ r.hash = x.hash
          /\ r.amount > 0 /\ r.amount <= x.amount
      BY <1>1, <1>2, <1>12, <2>2 DEF LiveRead, Record, Calls, Lesser, SoundRecord, BeforeBridge, InDeposit
    <3>2. SoundRecord(e, r)
      BY <1>1, <3>1, ArrivalsType DEF SoundRecord, BeforeBridge, InDeposit, Record
    <3> HIDE DEF r
    <3> QED
      BY <1>12, <2>2, <3>1, <3>2, GoOnKeeps DEF LiveRead, Phases
  <2> QED
    BY <1>12, <2>1, <2>2 DEF LiveRead
<1>13. CASE DepositQuote(e)
  <2>1. x.pc = "dquote" => SoundRecord(e, At(e, "dallowance"))
    BY <1>1, <1>2 DEF SoundRecord, BeforeBridge, InDeposit, Calls
  <2> QED
    BY <1>2, <1>13, <2>1, AwaitKeeps DEF DepositQuote, Calls, Phases
<1>14. CASE DepositAllowance(e)
  <2>1. x.pc = "dallowance" => SoundRecord(e, At(e, "dsign"))
    BY <1>1, <1>2 DEF SoundRecord, BeforeBridge, InDeposit, Calls
  <2> QED
    BY <1>2, <1>14, <2>1, AwaitKeeps DEF DepositAllowance, Calls, Phases
<1>15. CASE DepositReceipt(e)
  <2>1. CASE Fail(e)
    BY <1>15, <2>1, FailKeeps DEF DepositReceipt
  <2>2. CASE deposit[e].st = "mined" /\ GoOn(e, At(e, "over"), "done")
    <3>1. vault > 0 /\ Delivered(x.hash)
      BY <1>1, <1>15, <2>2 DEF DepositReceipt, SoundDeposit, SoundRecord, BeforeBridge, InDeposit
    <3>2. SoundRecord(e, At(e, "over"))
      BY <1>1, <1>2 DEF SoundRecord, BeforeBridge, InDeposit, Calls
    <3> QED
      BY <1>2, <1>15, <2>2, <3>1, <3>2, GoOnKeeps DEF DepositReceipt, Calls, Phases
  <2> QED
    BY <1>15, <2>1, <2>2 DEF DepositReceipt
<1> QED
  BY <1>3, <1>4, <1>5, <1>6, <1>7, <1>8, <1>9, <1>10, <1>11, <1>12, <1>13, <1>14, <1>15

LEMMA SumGrows == \A m, n, k \in Nat : m <= n => m + k <= n + k
OBVIOUS

\* A bound of a balance by what has arrived moves with both.
LEMMA BoundMoves ==
    \A m, n, k, l, p \in Nat : m <= p + k /\ n + k <= m + l => n <= p + l
OBVIOUS

LEMMA BoundGrows ==
    \A m, k, l, p \in Nat : m <= m + l /\ (m <= p + k /\ k <= l => m <= p + l)
OBVIOUS

\* Steps of the chains, the user and the provider leave the amounts in hand sound
\* when they add to the balance no more than to what has arrived.
LEMMA ChainStep ==
    ASSUME FundsAreSound, CDTypeOK', Arrivals' \in Nat, Arrivals <= Arrivals',
           dst' + Arrivals <= dst + Arrivals', seen' \in {seen, dst'}, vault > 0 => vault' > 0,
           UNCHANGED <<ui, exec>>,
           \A h \in Execs : /\ Delivered(h) => Delivered(h)'
                            /\ bridge[h] = "none" => bridge'[h] = "none"
                            /\ SoundDeposit(deposit[h])'
    PROVE  FundsAreSound'
<1>1. /\ SoundPage(ui) /\ ui \in Page /\ Arrivals \in Nat
      /\ dst \in Nat /\ dst' \in Nat /\ seen \in Nat /\ dst <= seen + Arrivals
  BY ArrivalsType DEF FundsAreSound, CDTypeOK
<1>2. SoundPage(ui)'
  BY <1>1 DEF SoundPage, Page, Delivered
<1>3. ASSUME NEW e \in Execs PROVE SoundRecord(e, exec[e])'
  <2>1. SoundRecord(e, exec[e]) /\ exec[e] \in Record
    BY DEF FundsAreSound, CDTypeOK
  <2>2. ASSUME seen <= exec[e].pre + Arrivals, dst <= exec[e].pre + Arrivals
        PROVE  seen' <= exec[e].pre + Arrivals' /\ dst' <= exec[e].pre + Arrivals'
    <3>1. exec[e].pre \in Nat
      BY <2>1 DEF Record
    <3>2. dst' <= exec[e].pre + Arrivals'
      BY <1>1, <2>2, <3>1, BoundMoves
    <3>3. seen <= exec[e].pre + Arrivals'
      BY <1>1, <2>2, <3>1, BoundGrows
    <3> QED
      BY <3>2, <3>3
  <2> QED
    BY <1>1, <2>1, <2>2 DEF SoundRecord, Record, Delivered
<1>4. dst' <= seen' + Arrivals'
  <2>1. CASE seen' = seen
    BY <1>1, <2>1, BoundMoves
  <2>2. CASE seen' = dst'
    <3>1. dst' <= dst' + Arrivals'
      BY <1>1, BoundGrows
    <3> QED
      BY <2>2, <3>1
  <2> QED
    BY <2>1, <2>2
<1> QED
  BY <1>2, <1>3, <1>4 DEF FundsAreSound

LEMMA SignKeepsFunds ==
    ASSUME FundsAreSound, NEW e \in Execs, Sign(e)
    PROVE  FundsAreSound'
<1> DEFINE r == [At(e, "receipt") EXCEPT !.hash = e]
<1>1. CASE Fail(e) /\ UNCHANGED bridge
  BY <1>1, FailKeeps DEF Sign, chainVars
<1>2. CASE GoOn(e, r, "bridging") /\ bridge' = [bridge EXCEPT ![e] = "sent"]
  <2>1. /\ exec[e] \in Record /\ SoundRecord(e, exec[e]) /\ exec[e].pc = "sign"
        /\ exec \in [Execs -> Record] /\ bridge \in [Execs -> BridgeStates]
        /\ UNCHANGED <<deposit, dst, vault, seen, spent, received>>
    BY DEF FundsAreSound, CDTypeOK, Sign, userVars
  <2>2. r \in Record /\ r.pc = "receipt" /\ r.pre = exec[e].pre /\ r.hash = e
        /\ r.amount = exec[e].amount
    BY <2>1 DEF At, Record, Calls
  <2>3. bridge[e] = "none"
    BY <2>1 DEF SoundRecord, BeforeBridge
  <2>4. bridge' \in [Execs -> BridgeStates]
        /\ \A h \in Execs : bridge'[h] = IF h = e THEN "sent" ELSE bridge[h]
    BY <1>2, <2>1 DEF BridgeStates
  <2>5. Arrivals' = Arrivals
    <3>1. {h \in Execs : bridge'[h] \in Arrived} = {h \in Execs : bridge[h] \in Arrived}
      BY <2>3, <2>4 DEF Arrived
    <3> QED
      BY <2>1, <3>1 DEF Arrivals, Bridged
  <2>6. \A h : Delivered(h) => Delivered(h)'
    BY <2>3, <2>4 DEF Delivered
  <2>7. exec' = [exec EXCEPT ![e] = r]
        /\ ui' = [phase |-> "bridging", after |-> FALSE, hash |-> e, amount |-> exec[e].amount]
    BY <1>2, <2>2 DEF GoOn, Report
  <2> HIDE DEF r
  <2>8. exec[e].amount = 0
    BY <2>1 DEF SoundRecord, BeforeBridge
  <2>9. SoundPage(ui)' /\ ui' \in Page
    BY <2>7, <2>8, ArrivalsType, <2>5 DEF SoundPage, Page, Phases
  <2>10. CDTypeOK'
    BY <2>1, <2>2, <2>4, <2>7, <2>9 DEF FundsAreSound, CDTypeOK, SoundPage
  <2>11. ASSUME NEW x \in Execs PROVE SoundRecord(x, exec[x])' /\ SoundDeposit(deposit[x])'
    <3>1. SoundDeposit(deposit[x])'
      BY <2>1, <2>5 DEF FundsAreSound, SoundDeposit
    <3>2. CASE x = e
      <4>1. exec'[x] = r
        BY <2>1, <2>7, <3>2
      <4>2. dst' <= r.pre + Arrivals /\ seen' <= r.pre + Arrivals /\ Arrivals \in Nat
        BY <2>1, <2>2, ArrivalsType DEF SoundRecord
      <4> QED
        BY <2>2, <2>5, <2>8, <3>1, <3>2, <4>1, <4>2 DEF SoundRecord, BeforeBridge, InDeposit
    <3>3. CASE x # e
      <4>1. exec'[x] = exec[x] /\ bridge'[x] = bridge[x] /\ SoundRecord(x, exec[x])
        BY <2>1, <2>4, <2>7, <3>3 DEF FundsAreSound
      <4> QED
        BY <2>1, <2>5, <2>6, <3>1, <4>1 DEF SoundRecord
    <3> QED
      BY <3>2, <3>3
  <2> QED
    BY <2>1, <2>5, <2>9, <2>10, <2>11 DEF FundsAreSound
<1> QED
  BY <1>1, <1>2 DEF Sign

LEMMA DepositSignKeepsFunds ==
    ASSUME FundsAreSound, NEW e \in Execs, DepositSign(e)
    PROVE  FundsAreSound'
<1> DEFINE r == At(e, "dreceipt")
           d == [st |-> "sent", amount |-> exec[e].amount]
<1>1. CASE Fail(e) /\ UNCHANGED deposit
  BY <1>1, FailKeeps DEF DepositSign, chainVars
<1>2. CASE GoOn(e, r, "depositing") /\ deposit' = [deposit EXCEPT ![e] = d]
  <2>1. /\ exec[e] \in Record /\ SoundRecord(e, exec[e]) /\ exec[e].pc = "dsign"
        /\ exec \in [Execs -> Record] /\ deposit \in [Execs -> Deposit]
        /\ UNCHANGED <<bridge, dst, vault, seen, spent, received>>
    BY DEF FundsAreSound, CDTypeOK, DepositSign, userVars
  <2>2. r \in Record /\ r.pc = "dreceipt" /\ r.pre = exec[e].pre
        /\ r.hash = exec[e].hash /\ r.amount = exec[e].amount
    BY <2>1 DEF At, Record, Calls
  <2>3. Arrivals' = Arrivals /\ \A h : Delivered(h) => Delivered(h)'
    BY <2>1 DEF Arrivals, Bridged, Delivered
  <2>4. /\ exec' = [exec EXCEPT ![e] = r]
        /\ ui' = [phase |-> "depositing", after |-> FALSE, hash |-> exec[e].hash,
                  amount |-> exec[e].amount]
    BY <1>2, <2>2 DEF GoOn, Report
  <2> HIDE DEF r
  <2>5. d \in Deposit /\ SoundDeposit(d)
    BY <2>1 DEF Deposit, SoundDeposit, SoundRecord, InDeposit, Record
  <2>6. SoundRecord(e, r)
    BY <2>1, <2>2 DEF SoundRecord, BeforeBridge, InDeposit
  <2>7. SoundPage(ui)' /\ ui' \in Page
    BY <2>1, <2>3, <2>4 DEF SoundPage, Page, Phases, SoundRecord, Record
  <2> HIDE DEF d
  <2>8. CDTypeOK'
    BY <1>2, <2>1, <2>2, <2>4, <2>5, <2>7 DEF FundsAreSound, CDTypeOK, SoundPage
  <2>9. ASSUME NEW x \in Execs PROVE SoundRecord(x, exec[x])' /\ SoundDeposit(deposit[x])'
    <3>1. exec'[x] = (IF x = e THEN r ELSE exec[x])
          /\ deposit'[x] = (IF x = e THEN d ELSE deposit[x])
      BY <1>2, <2>1, <2>4
    <3>2. SoundRecord(x, exec'[x]) /\ SoundDeposit(deposit'[x])
      BY <2>5, <2>6, <3>1 DEF FundsAreSound
    <3> QED
      BY <2>1, <2>3, <3>2 DEF SoundRecord, SoundDeposit
  <2> QED
    BY <2>1, <2>3, <2>7, <2>8, <2>9 DEF FundsAreSound
<1> QED
  BY <1>1, <1>2 DEF DepositSign

LEMMA ChainsKeepFunds ==
    ASSUME FundsAreSound, NEW e \in Execs, NEW st \in BridgeStates,
           BridgeStep(e, st) \/ DepositMined(e)
    PROVE  FundsAreSound'
<1>1. /\ CDTypeOK /\ dst \in Nat /\ vault \in Nat /\ Arrivals \in Nat
      /\ bridge \in [Execs -> BridgeStates] /\ deposit \in [Execs -> Deposit]
      /\ \A h \in Execs : SoundDeposit(deposit[h])
  BY ArrivalsType DEF FundsAreSound, CDTypeOK
<1>2. CASE BridgeStep(e, st)
  <2>1. /\ Arrivals' \in Nat /\ seen' = seen
        /\ Arrivals' = IF st \in Arrived THEN Arrivals + Amount ELSE Arrivals
    <3>1. received' = received /\ received \in Nat /\ seen' = seen
      BY <1>1, <1>2, DepositAssumption DEF BridgeStep, userVars, CDTypeOK
    <3>2. /\ Bridged \in Nat /\ Bridged' \in Nat
          /\ Bridged' = IF st \in Arrived THEN Bridged + Amount ELSE Bridged
      BY <1>1, <1>2, BridgedType, BridgedGrows
    <3> QED
      BY <3>1, <3>2, DepositAssumption DEF Arrivals
  <2>2. PICK n \in Brings(st) : dst' = dst + n
    BY <1>2 DEF BridgeStep
  <2>3. n \in Nat /\ n <= Amount /\ (st \notin Arrived => n = 0)
    BY <2>2, DepositAssumption DEF Brings, Arrived
  <2>4. \A h \in Execs : /\ Delivered(h) => Delivered(h)'
                         /\ bridge[h] = "none" => bridge'[h] = "none"
    BY <1>1, <1>2 DEF BridgeStep, Delivered
  <2>5. CDTypeOK'
    BY <1>1, <1>2, <2>2, <2>3 DEF BridgeStep, userVars, CDTypeOK
  <2>6. Arrivals <= Arrivals' /\ dst' + Arrivals <= dst + Arrivals'
    BY <1>1, <2>1, <2>2, <2>3, DepositAssumption
  <2>7. \A h \in Execs : SoundDeposit(deposit[h])'
    BY <1>1, <1>2, <2>1, <2>6 DEF BridgeStep, SoundDeposit, Deposit
  <2>8. UNCHANGED <<ui, exec, vault>>
    BY <1>2 DEF BridgeStep
  <2> QED
    BY <2>1, <2>4, <2>5, <2>6, <2>7, <2>8, ChainStep
<1>3. CASE DepositMined(e)
  <2>1. Arrivals' = Arrivals /\ \A h \in Execs : Delivered(h) => Delivered(h)'
    BY <1>3 DEF DepositMined, userVars, Arrivals, Bridged, Delivered
  <2>2. deposit[e].amount \in Nat /\ deposit[e].amount > 0
    BY <1>1, <1>3 DEF DepositMined, SoundDeposit, Deposit
  <2>3. dst' \in Nat /\ dst' <= dst /\ vault' \in Nat /\ vault <= vault'
        /\ (vault > 0 => vault' > 0)
    BY <1>1, <1>3, <2>2 DEF DepositMined
  <2>4. deposit' \in [Execs -> Deposit]
    BY <1>1, <1>3 DEF DepositMined, Deposit
  <2>5. CDTypeOK'
    BY <1>1, <1>3, <2>3, <2>4 DEF DepositMined, userVars, CDTypeOK
  <2>6. ASSUME NEW h \in Execs PROVE SoundDeposit(deposit[h])'
    <3>1. CASE h = e /\ deposit'[e].st = "mined"
      BY <1>1, <1>3, <2>1, <2>2, <3>1 DEF DepositMined, SoundDeposit, Deposit
    <3>2. CASE h # e \/ deposit'[e].st # "mined"
      BY <1>1, <1>3, <2>1, <2>2, <2>3, <3>2 DEF DepositMined, SoundDeposit, Deposit
    <3> QED
      BY <3>1, <3>2
  <2>7. UNCHANGED <<ui, exec, bridge, seen>>
    BY <1>3 DEF DepositMined, userVars
  <2>8. Arrivals' \in Nat /\ Arrivals <= Arrivals' /\ dst' + Arrivals <= dst + Arrivals'
    <3>1. Arrivals \in Nat /\ dst \in Nat /\ Arrivals' = Arrivals /\ dst' \in Nat /\ dst' <= dst
      BY <1>1, <2>1, <2>3
    <3>2. Arrivals' \in Nat
      BY ONLY <3>1
    <3>3. Arrivals <= Arrivals'
      BY ONLY <3>1
    <3>4. dst' + Arrivals <= dst + Arrivals'
      BY <3>1, SumGrows
    <3> QED
      BY <3>2, <3>3, <3>4
  <2> QED
    BY <2>1, <2>3, <2>5, <2>6, <2>7, <2>8, ChainStep
<1> QED
  BY <1>2, <1>3

\* The user moves funds out, others send some, the provider catches up.
LEMMA UserKeepsFunds ==
    ASSUME FundsAreSound, Spend \/ Receive \/ CatchUp
    PROVE  FundsAreSound'
<1>1. /\ CDTypeOK /\ dst \in Nat /\ seen \in Nat /\ received \in Nat /\ Arrivals \in Nat
      /\ Bridged \in Nat
      /\ \A h \in Execs : SoundDeposit(deposit[h]) /\ deposit[h] \in Deposit
  BY ArrivalsType, BridgedType, DepositAssumption DEF FundsAreSound, CDTypeOK
<1>2. UNCHANGED <<ui, exec, bridge, deposit, vault>>
  BY DEF Spend, Receive, CatchUp
<1>3. Bridged' = Bridged /\ \A h \in Execs : Delivered(h) => Delivered(h)'
  BY <1>2 DEF Bridged, Delivered
<1>4. CDTypeOK' /\ seen' \in {seen, dst'}
  BY <1>1, <1>2, DepositAssumption DEF Spend, Receive, CatchUp, CDTypeOK
<1>5. \/ dst' <= dst /\ received' = received
      \/ dst' = dst + 1 /\ received' = received + 1
  BY <1>1 DEF Spend, Receive, CatchUp
<1>6. /\ Arrivals' \in Nat /\ Arrivals <= Arrivals' /\ dst' \in Nat
      /\ dst' + Arrivals <= dst + Arrivals'
  <2>1. dst' \in Nat
    BY <1>4 DEF CDTypeOK
  <2>2. Arrivals = Bridged + received /\ Arrivals' = Bridged + received'
    BY <1>3 DEF Arrivals
  <2> QED
    BY <1>1, <1>5, <2>1, <2>2
<1>7. \A h \in Execs : SoundDeposit(deposit[h])'
  BY <1>1, <1>2, <1>6 DEF SoundDeposit, Deposit
<1> QED
  BY <1>2, <1>3, <1>4, <1>6, <1>7, ChainStep

-----------------------------------------------------------------------------
(***************************************************************************)
(* A patient user                                                          *)
(***************************************************************************)

\* A step of the execution at work, or the start of one when none is, keeps the
\* bridge to one execution if the record and the page it leaves say where the
\* bridge is.
LEMMA PatientStep ==
    ASSUME CDTypeOK, OneBridgeAtWork, NEW e \in Execs, NEW r \in Record,
           exec' = [exec EXCEPT ![e] = r], UNCHANGED bridge,
           Pending(e) \/ (\A x \in Execs : ~Pending(x)),
           r.pc \in BeforeBridge => NoBridge,
           r.pc \notin BeforeBridge \cup {"new", "over"} => r.hash # None,
           r.pc = "dallowance" => ui'.phase = "quoting-deposit",
           r.pc \in {"new", "over"} /\ ui'.phase \in {"idle", "failed"} /\ ~ui'.after => NoBridge
    PROVE  OneBridgeAtWork'
<1>1. \A x \in Execs : exec'[x] = IF x = e THEN r ELSE exec[x]
  BY DEF CDTypeOK
<1>2. \A x \in Execs : x # e => exec[x].pc \in {"new", "over"}
  BY DEF OneBridgeAtWork, Pending
<1>3. NoBridge' <=> NoBridge
  BY DEF NoBridge
<1>4. \A x \in Execs : x # e => ~Pending(x)'
  BY <1>1, <1>2 DEF Pending
<1>5. Pending(e)' <=> r.pc \notin {"new", "over"}
  BY <1>1 DEF Pending
<1>6. ASSUME NEW x \in Execs
      PROVE  /\ exec'[x].pc \in BeforeBridge => NoBridge
             /\ Pending(x)' /\ exec'[x].pc \notin BeforeBridge => exec'[x].hash # None
             /\ exec'[x].pc = "dallowance" => ui'.phase = "quoting-deposit"
  BY <1>1, <1>2, <1>4, <1>5 DEF BeforeBridge
<1> QED
  BY <1>3, <1>4, <1>5, <1>6 DEF OneBridgeAtWork

\* The same for an await that ends: in success with record r, or in fail().
LEMMA PatientAwait ==
    ASSUME CDTypeOK, OneBridgeAtWork, NEW e \in Execs, NEW r \in Record, NEW phase \in Phases,
           GoOn(e, r, phase) \/ Fail(e), UNCHANGED bridge, Pending(e),
           r.pc \in BeforeBridge => exec[e].pc \in BeforeBridge,
           r.pc \notin BeforeBridge \cup {"new", "over"} => r.hash # None,
           r.pc = "dallowance" => phase = "quoting-deposit",
           phase \notin {"idle", "failed"}
    PROVE  OneBridgeAtWork'
<1>1. exec \in [Execs -> Record] /\ exec[e] \in Record
  BY DEF CDTypeOK
<1>2. CASE GoOn(e, r, phase)
  <2>1. exec' = [exec EXCEPT ![e] = r] /\ ui'.phase = phase
    BY <1>2 DEF GoOn, Report
  <2>2. r.pc \in BeforeBridge => NoBridge
    BY DEF OneBridgeAtWork
  <2> QED
    BY <2>1, <2>2, PatientStep
<1>3. CASE Fail(e)
  <2> DEFINE f == [exec[e] EXCEPT !.pc = "over"]
  <2>1. f \in Record /\ f.pc = "over"
    BY <1>1 DEF Record, Calls
  <2>2. exec' = [exec EXCEPT ![e] = f] /\ ui'.after = (exec[e].hash # None)
    BY <1>3 DEF Fail
  <2>3. ~ui'.after => NoBridge
    BY <2>2 DEF OneBridgeAtWork
  <2> HIDE DEF f
  <2> QED
    BY <2>1, <2>2, <2>3, PatientStep DEF BeforeBridge
<1> QED
  BY <1>2, <1>3

LEMMA ExecutionsKeepPatience ==
    ASSUME FundsAreSound, OneBridgeAtWork, ~Impatient, NEW e \in Execs,
           \/ Click(e) \/ PreRead(e) \/ Quote(e) \/ Allowance(e) \/ AllowanceUnread(e)
           \/ Receipt(e) \/ Poll(e) \/ PostRead(e) \/ Retry(e) \/ LiveRead(e)
           \/ DepositQuote(e) \/ DepositAllowance(e) \/ DepositReceipt(e)
    PROVE  OneBridgeAtWork'
<1> DEFINE x == exec[e]
<1>1. /\ CDTypeOK /\ exec \in [Execs -> Record] /\ x \in Record /\ ui \in Page
      /\ SoundRecord(e, x) /\ SoundPage(ui) /\ seen \in Nat
  BY DEF FundsAreSound, CDTypeOK
<1>2. ASSUME NEW pc \in Calls
      PROVE  /\ At(e, pc) \in Record
             /\ At(e, pc).pc = pc /\ At(e, pc).hash = x.hash
  BY <1>1 DEF At, Record
<1>3. Pending(e) /\ x.pc \notin BeforeBridge => x.hash # None
  BY DEF OneBridgeAtWork
<1>4. CASE Click(e)
  <2> DEFINE r == [x EXCEPT !.pc = "preread"]
  <2>1. r \in Record /\ r.pc = "preread"
    BY <1>1 DEF Record, Calls
  <2>2. exec' = [exec EXCEPT ![e] = r] /\ UNCHANGED bridge
        /\ \A y \in Execs : ~Pending(y)
    BY <1>1, <1>4 DEF Click, chainVars
  <2>3. NoBridge
    BY <1>1, <1>4, <2>2 DEF Click, OneBridgeAtWork, SoundPage
  <2> HIDE DEF r
  <2> QED
    BY <1>1, <2>1, <2>2, <2>3, PatientStep DEF BeforeBridge
<1>5. CASE PreRead(e)
  <2> DEFINE r == [At(e, "quote") EXCEPT !.pre = seen]
  <2>1. r \in Record /\ r.pc = "quote"
    BY <1>1, <1>2 DEF Record, Calls
  <2> HIDE DEF r
  <2>2. (GoOn(e, r, "quoting-bridge") \/ Fail(e)) /\ UNCHANGED bridge /\ x.pc = "preread"
    BY <1>5 DEF PreRead, Await, chainVars, r
  <2> QED
    BY <1>1, <2>1, <2>2, PatientAwait DEF Pending, BeforeBridge, Phases
<1>6. CASE Quote(e)
  BY <1>1, <1>2, <1>6, PatientAwait
     DEF Quote, Await, chainVars, Pending, BeforeBridge, Phases, Calls
<1>7. CASE Allowance(e)
  BY <1>1, <1>2, <1>7, PatientAwait
     DEF Allowance, Await, chainVars, Pending, BeforeBridge, Phases, Calls
<1>8. CASE AllowanceUnread(e)
  <2> DEFINE r == [x EXCEPT !.pc = "over"]
  <2>1. r \in Record /\ r.pc = "over"
    BY <1>1 DEF Record, Calls
  <2>2. exec' = [exec EXCEPT ![e] = r] /\ UNCHANGED <<ui, bridge>> /\ Pending(e)
    BY <1>1, <1>8 DEF AllowanceUnread, chainVars, Pending
  <2>3. ui.phase \in {"idle", "failed"} => NoBridge
    BY <1>8 DEF AllowanceUnread, OneBridgeAtWork, BeforeBridge
  <2> HIDE DEF r
  <2> QED
    BY <1>1, <2>1, <2>2, <2>3, PatientStep DEF BeforeBridge
<1>9. CASE Receipt(e)
  <2> DEFINE r == [x EXCEPT !.pc = "poll"]
  <2>1. r \in Record /\ r.pc = "poll" /\ r.hash = x.hash
    BY <1>1 DEF Record, Calls
  <2>2. x.pc = "receipt" /\ Pending(e) /\ UNCHANGED bridge /\ x.hash # None
    BY <1>3, <1>9 DEF Receipt, chainVars, Pending, BeforeBridge
  <2>3. CASE Fail(e)
    <3> HIDE DEF r
    <3> QED
      BY <1>1, <2>1, <2>2, <2>3, PatientAwait DEF BeforeBridge, Phases
  <2>4. CASE exec' = [exec EXCEPT ![e].pc = "poll"]
    <3>1. exec' = [exec EXCEPT ![e] = r]
      BY <2>4
    <3> HIDE DEF r
    <3> QED
      BY <1>1, <2>1, <2>2, <3>1, PatientStep DEF BeforeBridge
  <2> QED
    BY <1>9, <2>3, <2>4 DEF Receipt
<1>10. CASE Poll(e)
  <2>1. Pending(e) /\ x.hash # None /\ UNCHANGED bridge
        /\ (GoOn(e, At(e, "postread"), "bridging") \/ Fail(e))
    BY <1>3, <1>10 DEF Poll, chainVars, Pending, BeforeBridge
  <2> QED
    BY <1>1, <1>2, <2>1, PatientAwait DEF BeforeBridge, Phases, Calls
<1>11. CASE PostRead(e)
  <2> DEFINE r == [At(e, "dquote") EXCEPT !.amount = seen - x.pre]
  <2>1. Fail(e) \/ (seen > x.pre /\ GoOn(e, r, "quoting-deposit"))
    BY <1>11 DEF PostRead
  <2>2. Pending(e) /\ x.hash # None /\ UNCHANGED bridge
    BY <1>3, <1>11 DEF PostRead, chainVars, Pending, BeforeBridge
  <2>3. CASE Fail(e)
    BY <1>1, <1>2, <2>2, <2>3, PatientAwait DEF BeforeBridge, Phases, Calls
  <2>4. CASE seen > x.pre /\ GoOn(e, r, "quoting-deposit")
    <3>1. r \in Record /\ r.pc = "dquote" /\ r.hash = x.hash
      BY <1>1, <1>2, <2>4 DEF Record, Calls
    <3> HIDE DEF r
    <3> QED
      BY <1>1, <2>2, <2>4, <3>1, PatientAwait DEF BeforeBridge, Phases
  <2> QED
    BY <2>1, <2>3, <2>4
<1>12. CASE Retry(e)
  <2> DEFINE r == [[x EXCEPT !.hash = ui.hash, !.amount = ui.amount]
                      EXCEPT !.pc = IF ui.amount = 0 THEN "over" ELSE "liveread"]
  <2>1. r \in Record /\ r.pc = (IF ui.amount = 0 THEN "over" ELSE "liveread") /\ r.hash = ui.hash
    BY <1>1 DEF Record, Calls, Page
  <2>2. exec' = [exec EXCEPT ![e] = r] /\ UNCHANGED <<ui, bridge>>
        /\ (\A y \in Execs : ~Pending(y)) /\ ui.after /\ ui.hash # None
    BY <1>1, <1>12 DEF Retry, chainVars, SoundPage
  <2> HIDE DEF r
  <2> QED
    BY <1>1, <2>1, <2>2, PatientStep DEF BeforeBridge
<1>13. CASE LiveRead(e)
  <2> DEFINE r == [At(e, "dquote") EXCEPT !.amount = Lesser(seen, x.amount)]
  <2>1. Pending(e) /\ x.hash # None /\ UNCHANGED bridge
        /\ (GoOn(e, r, "quoting-deposit") \/ Fail(e))
    BY <1>3, <1>13 DEF LiveRead, chainVars, Pending, BeforeBridge
  <2>2. r \in Record /\ r.pc = "dquote" /\ r.hash = x.hash
    BY <1>1, <1>2 DEF Record, Calls, Lesser
  <2> HIDE DEF r
  <2> QED
    BY <1>1, <2>1, <2>2, PatientAwait DEF BeforeBridge, Phases
<1>14. CASE DepositQuote(e)
  <2>1. Pending(e) /\ x.hash # None /\ UNCHANGED bridge
        /\ (GoOn(e, At(e, "dallowance"), "quoting-deposit") \/ Fail(e))
    BY <1>3, <1>14 DEF DepositQuote, Await, chainVars, Pending, BeforeBridge
  <2> QED
    BY <1>1, <1>2, <2>1, PatientAwait DEF BeforeBridge, Phases, Calls
<1>15. CASE DepositAllowance(e)
  <2>1. Pending(e) /\ x.hash # None /\ UNCHANGED bridge
        /\ (GoOn(e, At(e, "dsign"), "signing-deposit") \/ Fail(e))
    BY <1>3, <1>15 DEF DepositAllowance, Await, chainVars, Pending, BeforeBridge
  <2> QED
    BY <1>1, <1>2, <2>1, PatientAwait DEF BeforeBridge, Phases, Calls
<1>16. CASE DepositReceipt(e)
  <2>1. Pending(e) /\ x.hash # None /\ UNCHANGED bridge
        /\ (GoOn(e, At(e, "over"), "done") \/ Fail(e))
    BY <1>3, <1>16 DEF DepositReceipt, chainVars, Pending, BeforeBridge
  <2> QED
    BY <1>1, <1>2, <2>1, PatientAwait DEF BeforeBridge, Phases, Calls
<1> QED
  BY <1>4, <1>5, <1>6, <1>7, <1>8, <1>9, <1>10, <1>11, <1>12, <1>13, <1>14, <1>15, <1>16

\* The broadcast of the bridge transaction is the only one.
LEMMA SignKeepsPatience ==
    ASSUME FundsAreSound, OneBridgeAtWork, NeverBridgesTwice, ~Impatient,
           NEW e \in Execs, Sign(e)
    PROVE  OneBridgeAtWork' /\ NeverBridgesTwice'
<1> DEFINE r == [At(e, "receipt") EXCEPT !.hash = e]
<1>1. /\ CDTypeOK /\ exec \in [Execs -> Record] /\ exec[e] \in Record
      /\ bridge \in [Execs -> BridgeStates]
      /\ exec[e].pc = "sign" /\ Pending(e) /\ exec[e].pc \in BeforeBridge
  BY DEF FundsAreSound, CDTypeOK, Sign, Pending, BeforeBridge
<1>2. NoBridge /\ \A x \in Execs : x # e => exec[x].pc \in {"new", "over"}
  BY <1>1 DEF OneBridgeAtWork, Pending
<1>3. CASE Fail(e) /\ UNCHANGED bridge
  <2>2. exec' = [exec EXCEPT ![e] = [exec[e] EXCEPT !.pc = "over"]]
    BY <1>3 DEF Fail
  <2>3. [exec[e] EXCEPT !.pc = "over"] \in Record
        /\ [exec[e] EXCEPT !.pc = "over"].pc = "over"
    BY <1>1 DEF Record, Calls
  <2>4. OneBridgeAtWork'
    BY <1>1, <1>2, <1>3, <2>2, <2>3, PatientStep DEF BeforeBridge
  <2>5. NeverBridgesTwice'
    BY <1>3 DEF NeverBridgesTwice
  <2> QED
    BY <2>4, <2>5
<1>4. CASE GoOn(e, r, "bridging") /\ bridge' = [bridge EXCEPT ![e] = "sent"]
  <2>1. r.pc = "receipt" /\ r.hash = e
    BY <1>1 DEF At, Record
  <2>2. /\ \A x \in Execs : exec'[x] = IF x = e THEN r ELSE exec[x]
        /\ \A x \in Execs : bridge'[x] = IF x = e THEN "sent" ELSE bridge[x]
        /\ ui'.phase = "bridging"
    BY <1>1, <1>4 DEF GoOn, Report
  <2>3. NeverBridgesTwice'
    BY <1>2, <2>2 DEF NeverBridgesTwice, NoBridge
  <2> HIDE DEF r
  <2>4. e # None
    BY DepositAssumption
  <2>5. \A x \in Execs : Pending(x)' => x = e
    BY <1>2, <2>1, <2>2 DEF Pending
  <2>6. ASSUME NEW x \in Execs
        PROVE  /\ exec'[x].pc \notin BeforeBridge
               /\ Pending(x)' => exec'[x].hash # None
               /\ exec'[x].pc # "dallowance"
    BY <1>2, <2>1, <2>2, <2>4, <2>5 DEF BeforeBridge
  <2>7. OneBridgeAtWork'
    BY <2>2, <2>5, <2>6 DEF OneBridgeAtWork
  <2> QED
    BY <2>3, <2>7
<1> QED
  BY <1>3, <1>4 DEF Sign

LEMMA OthersKeepPatience ==
    ASSUME FundsAreSound, OneBridgeAtWork, NeverBridgesTwice, ~Impatient,
           NEW e \in Execs, NEW st \in BridgeStates,
           DepositSign(e) \/ BridgeStep(e, st) \/ DepositMined(e)
    PROVE  OneBridgeAtWork' /\ NeverBridgesTwice'
<1>1. /\ CDTypeOK /\ exec[e] \in Record /\ bridge \in [Execs -> BridgeStates]
  BY DEF FundsAreSound, CDTypeOK
<1>2. CASE DepositSign(e)
  <2>1. At(e, "dreceipt") \in Record
        /\ At(e, "dreceipt").pc = "dreceipt" /\ At(e, "dreceipt").hash = exec[e].hash
    BY <1>1 DEF At, Record, Calls
  <2>2. Pending(e) /\ exec[e].hash # None /\ UNCHANGED bridge
        /\ (GoOn(e, At(e, "dreceipt"), "depositing") \/ Fail(e))
    BY <1>2 DEF DepositSign, Pending, OneBridgeAtWork, BeforeBridge
  <2>3. OneBridgeAtWork'
    BY <1>1, <2>1, <2>2, PatientAwait DEF BeforeBridge, Phases
  <2> QED
    BY <2>2, <2>3 DEF NeverBridgesTwice
<1>3. CASE BridgeStep(e, st)
  <2>1. bridge[e] # "none" /\ bridge' = [bridge EXCEPT ![e] = st] /\ UNCHANGED <<ui, exec>>
    BY <1>3 DEF BridgeStep
  <2>2. NeverBridgesTwice'
    BY <1>1, <2>1 DEF NeverBridgesTwice
  <2>3. ~NoBridge
    BY <2>1 DEF NoBridge
  <2>4. OneBridgeAtWork'
    BY <2>1, <2>3 DEF OneBridgeAtWork, Pending
  <2> QED
    BY <2>2, <2>4
<1>4. CASE DepositMined(e)
  <2>1. UNCHANGED <<ui, exec, bridge>>
    BY <1>4 DEF DepositMined
  <2> QED
    BY <2>1 DEF OneBridgeAtWork, NeverBridgesTwice, Pending, NoBridge
<1> QED
  BY <1>2, <1>3, <1>4

-----------------------------------------------------------------------------
(***************************************************************************)
(* The theorems                                                            *)
(***************************************************************************)

LEMMA CDInitHolds == CDInit => CDInv
<1> SUFFICES ASSUME CDInit PROVE CDInv
  OBVIOUS
<1>1. CDTypeOK
  BY DepositAssumption
     DEF CDInit, CDTypeOK, Page, Record, Deposit, Phases, Calls, BridgeStates
<1>2. Arrivals \in Nat
  BY BridgedType DEF CDInit, Arrivals
<1>3. SoundPage(ui) /\ dst <= seen + Arrivals
  BY <1>2, DepositAssumption DEF CDInit, SoundPage
<1>4. \A e \in Execs : SoundRecord(e, exec[e]) /\ SoundDeposit(deposit[e])
  BY <1>2 DEF CDInit, SoundRecord, SoundDeposit, InDeposit
<1>5. OneBridgeAtWork
  BY DEF CDInit, OneBridgeAtWork, Pending, BeforeBridge, NoBridge
<1>6. NeverBridgesTwice
  BY DEF CDInit, NeverBridgesTwice
<1> QED
  BY <1>1, <1>3, <1>4, <1>5, <1>6 DEF CDInv, FundsAreSound

LEMMA CDStepKeeps == CDInv /\ [CDNext]_cdVars => CDInv'
<1> SUFFICES ASSUME CDInv, [CDNext]_cdVars PROVE CDInv'
  OBVIOUS
<1>1. FundsAreSound /\ (Impatient \/ (OneBridgeAtWork /\ NeverBridgesTwice))
  BY DEF CDInv
<1>2. ASSUME NEW e \in Execs,
             \/ Click(e) \/ PreRead(e) \/ Quote(e) \/ Allowance(e) \/ AllowanceUnread(e)
             \/ Receipt(e) \/ Poll(e) \/ PostRead(e) \/ Retry(e) \/ LiveRead(e)
             \/ DepositQuote(e) \/ DepositAllowance(e) \/ DepositReceipt(e)
      PROVE  CDInv'
  <2>1. FundsAreSound'
    BY <1>1, <1>2, ExecutionsKeepFunds
  <2>2. UNCHANGED bridge
    BY <1>2 DEF Click, PreRead, Quote, Allowance, AllowanceUnread, Receipt, Poll, PostRead,
                Retry, LiveRead, DepositQuote, DepositAllowance, DepositReceipt, Await, chainVars
  <2>3. Impatient \/ (OneBridgeAtWork' /\ NeverBridgesTwice')
    BY <1>1, <1>2, <2>2, ExecutionsKeepPatience DEF NeverBridgesTwice
  <2> QED
    BY <2>1, <2>3 DEF CDInv
<1>3. ASSUME NEW e \in Execs, Sign(e) PROVE CDInv'
  BY <1>1, <1>3, SignKeepsFunds, SignKeepsPatience DEF CDInv
<1>4. ASSUME NEW e \in Execs, DepositSign(e) PROVE CDInv'
  BY <1>1, <1>4, DepositSignKeepsFunds, OthersKeepPatience DEF CDInv, BridgeStates
<1>5. ASSUME NEW e \in Execs, NEW st \in BridgeStates, BridgeStep(e, st) PROVE CDInv'
  BY <1>1, <1>5, ChainsKeepFunds, OthersKeepPatience DEF CDInv
<1>6. ASSUME NEW e \in Execs, DepositMined(e) PROVE CDInv'
  BY <1>1, <1>6, ChainsKeepFunds, OthersKeepPatience DEF CDInv, BridgeStates
<1>7. CASE Spend \/ Receive \/ CatchUp
  <2>1. UNCHANGED <<ui, exec, bridge>>
    BY <1>7 DEF Spend, Receive, CatchUp
  <2>2. OneBridgeAtWork /\ NeverBridgesTwice => OneBridgeAtWork' /\ NeverBridgesTwice'
    BY <2>1 DEF OneBridgeAtWork, NeverBridgesTwice, Pending, NoBridge
  <2> QED
    BY <1>1, <1>7, <2>2, UserKeepsFunds DEF CDInv
<1>8. CASE UNCHANGED cdVars
  <2>1. UNCHANGED <<ui, exec, bridge, deposit, dst, vault, seen, spent, received>>
    BY <1>8 DEF cdVars, chainVars, userVars
  <2>2. Arrivals' = Arrivals
    BY <2>1 DEF Arrivals, Bridged
  <2> QED
    BY <1>1, <2>1, <2>2
       DEF CDInv, FundsAreSound, CDTypeOK, SoundPage, SoundRecord, SoundDeposit, Delivered,
           OneBridgeAtWork, NeverBridgesTwice, Pending, NoBridge
<1> QED
  BY <1>2, <1>3, <1>4, <1>5, <1>6, <1>7, <1>8 DEF CDNext, Settle

\* CDInv is inductive: the funds that the executions, the page and the
\* transactions name have arrived and their bridge has delivered, and a patient user has one
\* execution at work (crossChainComposerDeposit.ts:339-791).
THEOREM DepositInductive == CDSpec => []CDInv
<1>1. CDInit => CDInv
  BY CDInitHolds
<1>2. CDInv /\ [CDNext]_cdVars => CDInv'
  BY CDStepKeeps
<1> QED
  BY <1>1, <1>2, PTL DEF CDSpec

\* No transaction deposits more than has arrived since the page was opened,
\* however much the user held before or moves meanwhile, however often the user
\* clicks and however late the provider is (the balance delta and the cap of the
\* resume path, crossChainComposerDeposit.ts:398-414, 607-640).
THEOREM PriorFundsAreKept == CDSpec => []PriorFundsStay
<1>1. CDInv => PriorFundsStay
  BY DEF CDInv, FundsAreSound, SoundDeposit, PriorFundsStay
<1> QED
  BY <1>1, DepositInductive, PTL

\* A patient user pays for one bridge transaction
\* (failedAfterBridge, crossChainComposerDeposit.ts:387, DepositFlow.tsx:1873).
THEOREM BridgedOnce == CDSpec => []NeverBridgesTwice
<1>1. CDInv => NeverBridgesTwice
  BY DEF CDInv, NeverBridgesTwice
<1> QED
  BY <1>1, DepositInductive, PTL

\* The page says done only after a deposit of delivered funds was mined
\* (crossChainComposerDeposit.ts:773-785).
THEOREM DoneIsDeposited == CDSpec => []DoneMeansDeposited
<1>1. CDInv => DoneMeansDeposited
  BY DepositAssumption DEF CDInv, FundsAreSound, SoundPage, Delivered, DoneMeansDeposited
<1> QED
  BY <1>1, DepositInductive, PTL

-----------------------------------------------------------------------------
(***************************************************************************)
(* A settled bridge stays retryable                                        *)
(***************************************************************************)

\* Execution e knows what its bridge delivered.
Known(e) == exec[e].amount > 0

\* The executions of one bridge, the one that sent it and those that resume it,
\* agree on whether the delivered amount is known, and so does a page that shows
\* a failure of theirs: an execution that resumes got the amount from that page,
\* after the sender had ended.
PageIsTold ==
    ui.phase = "failed" /\ ui.hash # None =>
        /\ ui.after
        /\ exec[ui.hash].pc = "over"
        /\ \A e \in Execs : exec[e].hash = ui.hash => (Known(e) <=> ui.amount > 0)

SendersAreOver ==
    \A e \in Execs :
        /\ exec[e].hash \notin {None, e} => exec[exec[e].hash].pc = "over"
        /\ exec[e].pc = "postread" => exec[e].hash = e

AmountsAgree ==
    \A x, y \in Execs :
        exec[x].hash # None /\ exec[x].hash = exec[y].hash => (Known(x) <=> Known(y))

Settled == PageIsTold /\ SendersAreOver /\ AmountsAgree

\* A step that gives e another record of the same bridge and the same knowledge,
\* and either shows nothing, or a phase other than failed, or the failure of e.
LEMMA SameKnowledge ==
    ASSUME CDTypeOK, Settled, NEW e \in Execs, NEW r \in Record,
           exec' = [exec EXCEPT ![e] = r], exec[e].pc # "over",
           r.hash = exec[e].hash, r.amount > 0 <=> exec[e].amount > 0,
           r.pc = "postread" => r.hash = e,
           \/ ui' = ui
           \/ ui'.phase # "failed"
           \/ /\ r.pc = "over"
              /\ ui' = [phase |-> "failed", after |-> r.hash # None,
                        hash |-> r.hash, amount |-> r.amount]
    PROVE  Settled'
<1>1. exec \in [Execs -> Record] /\ ui \in Page /\ None \notin Execs
  BY DepositAssumption DEF CDTypeOK
<1>2. ASSUME NEW x \in Execs
      PROVE  /\ exec'[x] = IF x = e THEN r ELSE exec[x]
             /\ exec'[x].hash = exec[x].hash
             /\ Known(x)' <=> Known(x)
             /\ exec[x].pc = "over" => exec'[x].pc = "over"
             /\ exec[x].hash \in Execs \cup {None}
  BY <1>1 DEF Known, Record
<1>3. SendersAreOver'
  BY <1>1, <1>2 DEF Settled, SendersAreOver
<1>4. AmountsAgree'
  BY <1>2 DEF Settled, AmountsAgree
<1>5. PageIsTold'
  <2>1. CASE ui' = ui
    BY <1>1, <1>2, <2>1 DEF Settled, PageIsTold, Page
  <2>2. CASE ui'.phase # "failed"
    BY <2>2 DEF PageIsTold
  <2>3. CASE /\ r.pc = "over"
             /\ ui' = [phase |-> "failed", after |-> r.hash # None,
                       hash |-> r.hash, amount |-> r.amount]
    <3>1. /\ ui'.after = (r.hash # None) /\ ui'.hash = exec[e].hash
          /\ ui'.amount = r.amount
      BY <2>3
    <3>2. ASSUME exec[e].hash # None PROVE exec'[exec[e].hash].pc = "over"
      BY <1>2, <2>3, <3>2 DEF Settled, SendersAreOver
    <3>3. ASSUME exec[e].hash # None, NEW x \in Execs, exec'[x].hash = exec[e].hash
          PROVE  Known(x)' <=> r.amount > 0
      BY <1>2, <3>3 DEF Settled, AmountsAgree, Known
    <3> QED
      BY <3>1, <3>2, <3>3 DEF PageIsTold
  <2> QED
    BY <2>1, <2>2, <2>3
<1> QED
  BY <1>3, <1>4, <1>5 DEF Settled

\* fail(): hash and amount go to the page as the execution has them.
LEMMA FailTells ==
    ASSUME CDTypeOK, Settled, NEW e \in Execs, exec[e].pc # "over", Fail(e)
    PROVE  Settled'
<1> DEFINE r == [exec[e] EXCEPT !.pc = "over"]
<1>1. exec[e] \in Record /\ exec' = [exec EXCEPT ![e] = r]
  BY DEF CDTypeOK, Fail
<1>2. /\ r \in Record /\ r.pc = "over" /\ r.hash = exec[e].hash
      /\ r.amount = exec[e].amount
  BY <1>1 DEF Record, Calls
<1>3. ui' = [phase |-> "failed", after |-> r.hash # None, hash |-> r.hash,
             amount |-> r.amount]
  BY <1>2 DEF Fail
<1> HIDE DEF r
<1> QED
  BY <1>1, <1>2, <1>3, SameKnowledge

\* onStateChange of a phase: nothing new is known of the bridge.
LEMMA GoOnTells ==
    ASSUME CDTypeOK, Settled, NEW e \in Execs, exec[e].pc # "over",
           NEW r \in Record, NEW phase \in Phases \ {"failed"}, GoOn(e, r, phase),
           r.hash = exec[e].hash, r.amount > 0 <=> exec[e].amount > 0,
           r.pc = "postread" => r.hash = e
    PROVE  Settled'
<1>1. exec' = [exec EXCEPT ![e] = r] /\ ui'.phase # "failed"
  BY DEF GoOn, Report
<1> QED
  BY <1>1, SameKnowledge

\* Awaits of quotes, allowances and balances before the bridge.
LEMMA AwaitTells ==
    ASSUME CDTypeOK, Settled, NEW e \in Execs, NEW pc \in Calls \ {"over"},
           NEW r \in Record, NEW phase \in Phases \ {"failed"}, Await(e, pc, r, phase),
           r.hash = exec[e].hash, r.amount = exec[e].amount, r.pc # "postread"
    PROVE  Settled'
BY GoOnTells, FailTells DEF Await

\* The bridge is sent: until now it had no execution at all.
LEMMA SignTells ==
    ASSUME CDTypeOK, Settled, NEW e \in Execs, Sign(e), SoundRecord(e, exec[e])
    PROVE  Settled'
<1> DEFINE r == [At(e, "receipt") EXCEPT !.hash = e]
<1>1. exec \in [Execs -> Record] /\ exec[e].pc = "sign" /\ None \notin Execs
  BY DepositAssumption DEF CDTypeOK, Sign
<1>2. CASE Fail(e)
  BY <1>1, <1>2, FailTells
<1>3. CASE GoOn(e, r, "bridging")
  <2>1. /\ r \in Record /\ r.pc = "receipt" /\ r.hash = e
        /\ r.amount = exec[e].amount
    BY <1>1 DEF At, Record, Calls
  <2>2. exec' = [exec EXCEPT ![e] = r] /\ ui'.phase = "bridging"
    BY <1>3 DEF GoOn, Report
  <2> HIDE DEF r
  <2>3. \A x \in Execs : exec'[x] = IF x = e THEN r ELSE exec[x]
    BY <1>1, <2>2
  <2>4. \A x \in Execs \ {e} : exec[x].hash # e
    BY <1>1 DEF Settled, SendersAreOver
  <2>5. SendersAreOver'
    BY <1>1, <2>1, <2>3, <2>4 DEF Settled, SendersAreOver, Record
  <2>6. AmountsAgree'
    BY <2>1, <2>3, <2>4 DEF Settled, AmountsAgree, Known
  <2>7. PageIsTold'
    BY <2>2 DEF PageIsTold
  <2> QED
    BY <2>5, <2>6, <2>7 DEF Settled
<1> QED
  BY <1>2, <1>3 DEF Sign

\* The delta is measured by the execution that sent the bridge; nobody resumes
\* it before that one has ended.
LEMMA PostReadTells ==
    ASSUME CDTypeOK, Settled, NEW e \in Execs, PostRead(e)
    PROVE  Settled'
<1> DEFINE r == [At(e, "dquote") EXCEPT !.amount = seen - exec[e].pre]
<1>1. /\ exec \in [Execs -> Record] /\ exec[e].pc = "postread" /\ None \notin Execs
      /\ seen \in Nat
  BY DepositAssumption DEF CDTypeOK, PostRead
<1>2. CASE Fail(e)
  BY <1>1, <1>2, FailTells
<1>3. CASE seen > exec[e].pre /\ GoOn(e, r, "quoting-deposit")
  <2>1. exec[e].hash = e
    BY <1>1 DEF Settled, SendersAreOver
  <2>2. r \in Record /\ r.pc = "dquote" /\ r.hash = e
    <3>1. seen - exec[e].pre \in Nat
      BY <1>1, <1>3 DEF Record
    <3> QED
      BY <1>1, <2>1, <3>1 DEF At, Record, Calls
  <2>3. exec' = [exec EXCEPT ![e] = r] /\ ui'.phase = "quoting-deposit"
    BY <1>3 DEF GoOn, Report
  <2> HIDE DEF r
  <2>4. \A x \in Execs : exec'[x] = IF x = e THEN r ELSE exec[x]
    BY <1>1, <2>3
  <2>5. \A x \in Execs \ {e} : exec[x].hash # e
    BY <1>1 DEF Settled, SendersAreOver
  <2>6. SendersAreOver'
    BY <1>1, <2>1, <2>2, <2>4, <2>5 DEF Settled, SendersAreOver, Record
  <2>7. AmountsAgree'
    BY <2>2, <2>4, <2>5 DEF Settled, AmountsAgree, Known
  <2>8. PageIsTold'
    BY <2>3 DEF PageIsTold
  <2> QED
    BY <2>6, <2>7, <2>8 DEF Settled
<1> QED
  BY <1>2, <1>3 DEF PostRead

\* Retry knows what the page knows, and the sender has ended.
LEMMA RetryTells ==
    ASSUME CDTypeOK, Settled, NEW e \in Execs, Retry(e)
    PROVE  Settled'
<1> DEFINE r == [[exec[e] EXCEPT !.hash = ui.hash, !.amount = ui.amount]
                    EXCEPT !.pc = IF ui.amount = 0 THEN "over" ELSE "liveread"]
<1>1. /\ exec \in [Execs -> Record] /\ exec[e].pc = "new" /\ ui' = ui /\ ui \in Page
      /\ ui.phase = "failed" /\ ui.hash \in Execs /\ None \notin Execs
  BY DepositAssumption DEF CDTypeOK, Retry, Page
<1>2. /\ r \in Record /\ r.pc \in {"over", "liveread"} /\ r.hash = ui.hash
      /\ r.amount = ui.amount
  BY <1>1 DEF Record, Calls, Page
<1>3. exec' = [exec EXCEPT ![e] = r]
  BY DEF Retry
<1> HIDE DEF r
<1>4. \A x \in Execs : exec'[x] = IF x = e THEN r ELSE exec[x]
  BY <1>1, <1>3
<1>5. /\ ui.after /\ exec[ui.hash].pc = "over" /\ ui.hash # e
      /\ \A x \in Execs : exec[x].hash = ui.hash => (Known(x) <=> ui.amount > 0)
  BY <1>1 DEF Settled, PageIsTold
<1>6. SendersAreOver'
  BY <1>1, <1>2, <1>4, <1>5 DEF Settled, SendersAreOver, Record
<1>7. AmountsAgree'
  BY <1>2, <1>4, <1>5 DEF Settled, AmountsAgree, Known
<1>8. PageIsTold'
  BY <1>1, <1>2, <1>4, <1>5 DEF PageIsTold, Known
<1> QED
  BY <1>6, <1>7, <1>8 DEF Settled

\* Steps of the chains touch neither the page nor an execution.
LEMMA OthersTellNothing == Settled /\ UNCHANGED <<ui, exec>> => Settled'
BY DEF Settled, PageIsTold, SendersAreOver, AmountsAgree, Known

LEMMA StepsTell == CDInv /\ Settled /\ [CDNext]_cdVars => Settled'
<1> SUFFICES ASSUME CDInv, Settled, [CDNext]_cdVars PROVE Settled'
  OBVIOUS
<1>1. /\ CDTypeOK /\ seen \in Nat
      /\ \A e \in Execs : exec[e] \in Record /\ SoundRecord(e, exec[e])
  BY DEF CDInv, FundsAreSound, CDTypeOK
<1>2. ASSUME NEW e \in Execs, NEW pc \in Calls
      PROVE  /\ At(e, pc) \in Record
             /\ At(e, pc).pc = pc
             /\ At(e, pc).hash = exec[e].hash /\ At(e, pc).amount = exec[e].amount
  BY <1>1 DEF At, Record
<1>3. ASSUME NEW e \in Execs, Click(e) PROVE Settled'
  <2> DEFINE r == [exec[e] EXCEPT !.pc = "preread"]
  <2>1. /\ r \in Record /\ r.pc = "preread" /\ r.hash = exec[e].hash
        /\ r.amount = exec[e].amount
    BY <1>1 DEF Record, Calls
  <2>2. exec' = [exec EXCEPT ![e] = r] /\ ui' = ui /\ exec[e].pc # "over"
    BY <1>3 DEF Click
  <2> HIDE DEF r
  <2> QED
    BY <1>1, <2>1, <2>2, SameKnowledge
<1>4. ASSUME NEW e \in Execs, PreRead(e) PROVE Settled'
  <2> DEFINE r == [At(e, "quote") EXCEPT !.pre = seen]
  <2>1. /\ r \in Record /\ r.pc = "quote" /\ r.hash = exec[e].hash
        /\ r.amount = exec[e].amount
    BY <1>1, <1>2 DEF Record, Calls
  <2>2. Await(e, "preread", r, "quoting-bridge")
    BY <1>4 DEF PreRead
  <2> HIDE DEF r
  <2> QED
    BY <1>1, <2>1, <2>2, AwaitTells DEF Calls, Phases
<1>5. ASSUME NEW e \in Execs,
             Quote(e) \/ Allowance(e) \/ DepositQuote(e) \/ DepositAllowance(e)
      PROVE  Settled'
  BY <1>1, <1>2, <1>5, AwaitTells
  DEF Quote, Allowance, DepositQuote, DepositAllowance, Calls, Phases
<1>6. ASSUME NEW e \in Execs, AllowanceUnread(e) PROVE Settled'
  <2> DEFINE r == [exec[e] EXCEPT !.pc = "over"]
  <2>1. /\ r \in Record /\ r.pc = "over" /\ r.hash = exec[e].hash
        /\ r.amount = exec[e].amount
    BY <1>1 DEF Record, Calls
  <2>2. exec' = [exec EXCEPT ![e] = r] /\ ui' = ui /\ exec[e].pc # "over"
    BY <1>6 DEF AllowanceUnread
  <2> HIDE DEF r
  <2> QED
    BY <1>1, <2>1, <2>2, SameKnowledge
<1>7. ASSUME NEW e \in Execs, Receipt(e) PROVE Settled'
  <2> DEFINE r == [exec[e] EXCEPT !.pc = "poll"]
  <2>1. /\ r \in Record /\ r.pc = "poll" /\ r.hash = exec[e].hash
        /\ r.amount = exec[e].amount
    BY <1>1 DEF Record, Calls
  <2>2. exec[e].pc # "over" /\ (Fail(e) \/ (exec' = [exec EXCEPT ![e] = r] /\ ui' = ui))
    BY <1>7 DEF Receipt
  <2> HIDE DEF r
  <2> QED
    BY <1>1, <2>1, <2>2, SameKnowledge, FailTells
<1>8. ASSUME NEW e \in Execs, Poll(e) PROVE Settled'
  <2>1. exec[e].pc = "poll" /\ exec[e].hash = e
    BY <1>1, <1>8 DEF Poll, SoundRecord
  <2>2. CASE Fail(e)
    BY <1>1, <2>1, <2>2, FailTells
  <2>3. CASE GoOn(e, At(e, "postread"), "bridging")
    BY <1>1, <1>2, <2>1, <2>3, GoOnTells DEF Calls, Phases
  <2> QED
    BY <1>8, <2>2, <2>3 DEF Poll
<1>9. ASSUME NEW e \in Execs, LiveRead(e) PROVE Settled'
  <2> DEFINE r == [At(e, "dquote") EXCEPT !.amount = Lesser(seen, exec[e].amount)]
  <2>1. exec[e].pc = "liveread" /\ exec[e].amount > 0
    BY <1>1, <1>9 DEF LiveRead, SoundRecord, InDeposit
  <2>2. CASE Fail(e)
    BY <1>1, <2>1, <2>2, FailTells
  <2>3. CASE seen > 0 /\ GoOn(e, r, "quoting-deposit")
    <3>1. r \in Record /\ r.pc = "dquote" /\ r.hash = exec[e].hash /\ r.amount > 0
      BY <1>1, <1>2, <2>1, <2>3 DEF Record, Calls, Lesser
    <3> HIDE DEF r
    <3> QED
      BY <1>1, <2>1, <2>3, <3>1, GoOnTells DEF Phases
  <2> QED
    BY <1>9, <2>2, <2>3 DEF LiveRead
<1>10. ASSUME NEW e \in Execs, DepositSign(e) PROVE Settled'
  <2>1. exec[e].pc = "dsign" /\ (Fail(e) \/ GoOn(e, At(e, "dreceipt"), "depositing"))
    BY <1>10 DEF DepositSign
  <2> QED
    BY <1>1, <1>2, <2>1, FailTells, GoOnTells DEF Calls, Phases
<1>11. ASSUME NEW e \in Execs, DepositReceipt(e) PROVE Settled'
  <2>1. exec[e].pc = "dreceipt" /\ (Fail(e) \/ GoOn(e, At(e, "over"), "done"))
    BY <1>11 DEF DepositReceipt
  <2> QED
    BY <1>1, <1>2, <2>1, FailTells, GoOnTells DEF Calls, Phases
<1>12. ASSUME NEW e \in Execs, Sign(e) \/ PostRead(e) \/ Retry(e) PROVE Settled'
  BY <1>1, <1>12, SignTells, PostReadTells, RetryTells
<1>13. CASE UNCHANGED <<ui, exec>>
  BY <1>13, OthersTellNothing
<1>14. ASSUME NEW e \in Execs,
              DepositMined(e) \/ \E st \in BridgeStates : BridgeStep(e, st)
       PROVE  Settled'
  BY <1>13, <1>14 DEF DepositMined, BridgeStep
<1>15. CASE Spend \/ Receive \/ CatchUp \/ UNCHANGED cdVars
  BY <1>13, <1>15 DEF Spend, Receive, CatchUp, cdVars
<1> QED
  BY <1>3, <1>4, <1>5, <1>6, <1>7, <1>8, <1>9, <1>10, <1>11, <1>12, <1>14, <1>15
  DEF CDNext, Settle

\* Once the delta was measured, a failure on display has hash and amount for the
\* Retry button, also for a user who clicks before the first answer shows
\* ("Recoverable mid-flow failure", crossChainComposerDeposit.ts:49-55).
THEOREM SettledCanBeRetried == CDSpec => []SettledStaysRetryable
<1>1. CDInit => Settled
  BY DEF CDInit, Settled, PageIsTold, SendersAreOver, AmountsAgree, Known
<1>2. CDInv /\ Settled /\ [CDNext]_cdVars => Settled'
  BY StepsTell
<1>3. CDInv /\ Settled => SettledStaysRetryable
  BY DEF CDInv, FundsAreSound, CDTypeOK, Page, Settled, PageIsTold, Known,
         SettledStaysRetryable
<1> QED
  BY <1>1, <1>2, <1>3, DepositInductive, PTL DEF CDSpec
=============================================================================
