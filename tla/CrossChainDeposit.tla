------------------------- MODULE CrossChainDeposit -------------------------
(***************************************************************************)
(* Depositing from another chain in two transactions: bridge to the        *)
(* vault's chain, then deposit what arrived                                *)
(* (executeCrossChainComposerDeposit, crossChainComposerDeposit.ts, called *)
(* by handleCrossChainExecute of DepositFlow.tsx).                         *)
(*                                                                         *)
(*   ui         crossChainState: the phase on display and what the retry   *)
(*              button will pass on                                        *)
(*   exec[e]    an execution (a click on the main button or on Retry): the *)
(*              await it is at, the balance it read before bridging, its   *)
(*              bridgeTxHash and destinationAmountRaw (0: not set)         *)
(*   bridge[e], deposit[e]    the transactions it has sent, on chain       *)
(*   dst, vault     the user's underlying on the destination chain and     *)
(*              what the vault has received                                *)
(*   seen       the balance that the provider answers with: dst, or what   *)
(*              it was some time ago                                       *)
(*   spent, received   what the user moved out of dst, and what others     *)
(*              have sent there, since the page was opened                 *)
(*                                                                         *)
(* A bridge transaction is named by the execution that sent it.  Quotes,   *)
(* chain switches, wallet clients and approvals are steps that succeed or  *)
(* fail; approveWithReset's reset to zero is not looked into.              *)
(***************************************************************************)
EXTENDS Integers, FiniteSets

CONSTANTS Execs, None,
          Prior,        \* underlying the user holds before
          Amount,       \* what a completed bridge delivers
          MaxSpent,     \* bound: what the user moves out meanwhile
          MaxReceived,  \* bound: what others send to the user meanwhile
          Impatient     \* may the user click again before the first answer shows?

ASSUME DepositAssumption ==
    /\ Prior \in Nat /\ MaxSpent \in Nat /\ MaxReceived \in Nat /\ Amount \in Nat \ {0}
    /\ Impatient \in BOOLEAN
    /\ IsFiniteSet(Execs) /\ None \notin Execs

VARIABLES ui, exec, bridge, deposit, dst, vault, seen, spent, received

userVars == <<seen, spent, received>>
chainVars == <<bridge, deposit, dst, vault, userVars>>
cdVars == <<ui, exec, chainVars>>

Arrived == {"delivered", "partial"}
BridgeStates == {"none", "sent", "reverted", "mined", "refunded", "failed"} \cup Arrived
Calls == {"new", "preread", "quote", "allowance", "sign", "receipt", "poll", "postread",
          "liveread", "dquote", "dallowance", "dsign", "dreceipt", "over"}
Phases == {"idle", "quoting-bridge", "approving-bridge", "signing-bridge", "bridging",
           "quoting-deposit", "approving-deposit", "signing-deposit", "depositing",
           "done", "failed"}

Page == [phase : Phases, after : BOOLEAN, hash : Execs \cup {None}, amount : Nat]
Record == [pc : Calls, pre : Nat, hash : Execs \cup {None}, amount : Nat]
Deposit == [st : {"none", "sent", "reverted", "mined"}, amount : Nat]

CDTypeOK ==
    /\ ui \in Page /\ exec \in [Execs -> Record]
    /\ bridge \in [Execs -> BridgeStates] /\ deposit \in [Execs -> Deposit]
    /\ dst \in Nat /\ vault \in Nat /\ seen \in Nat
    /\ spent \in 0..MaxSpent /\ received \in 0..MaxReceived
    /\ ui.after => ui.phase = "failed" /\ ui.hash # None

CDInit ==
    /\ ui = [phase |-> "idle", after |-> FALSE, hash |-> None, amount |-> 0]
    /\ exec = [e \in Execs |-> [pc |-> "new", pre |-> 0, hash |-> None, amount |-> 0]]
    /\ bridge = [e \in Execs |-> "none"]
    /\ deposit = [e \in Execs |-> [st |-> "none", amount |-> 0]]
    /\ dst = Prior /\ seen = Prior /\ vault = 0 /\ spent = 0 /\ received = 0

-----------------------------------------------------------------------------
(***************************************************************************)
(* Reports                                                                 *)
(***************************************************************************)

\* onStateChange of a phase of an execution with record r.
Report(phase, r) ==
    ui' = [phase |-> phase, after |-> FALSE, hash |-> r.hash, amount |-> r.amount]

\* Execution e goes on with record r and reports a phase.
GoOn(e, r, phase) ==
    /\ exec' = [exec EXCEPT ![e] = r]
    /\ Report(phase, r)

\* Mutant: a failure counts as recoverable only once the amount is known.
FailIfSettled(e) ==
    /\ exec' = [exec EXCEPT ![e].pc = "over"]
    /\ ui' = [phase |-> "failed", after |-> exec[e].amount > 0,
              hash |-> exec[e].hash, amount |-> exec[e].amount]

\* Mutant: the amount is not handed to the page.
FailForgetsAmount(e) ==
    /\ exec' = [exec EXCEPT ![e].pc = "over"]
    /\ ui' = [phase |-> "failed", after |-> exec[e].hash # None,
              hash |-> exec[e].hash, amount |-> 0]

\* fail(): the page is told and the call rejects.
Fail(e) ==
    /\ exec' = [exec EXCEPT ![e].pc = "over"]
    /\ ui' = [phase |-> "failed", after |-> exec[e].hash # None,
              hash |-> exec[e].hash, amount |-> exec[e].amount]

\* An await of execution e ends: it goes on with record r, or fails.
Await(e, pc, r, phase) ==
    /\ exec[e].pc = pc
    /\ GoOn(e, r, phase) \/ Fail(e)
    /\ UNCHANGED chainVars

At(e, pc) == [exec[e] EXCEPT !.pc = pc]

Pending(e) == exec[e].pc \notin {"new", "over"}
Lesser(m, n) == IF m < n THEN m ELSE n

-----------------------------------------------------------------------------
(***************************************************************************)
(* The bridge                                                              *)
(***************************************************************************)

\* The main button, which only the phase disables.
Click(e) ==
    /\ exec[e].pc = "new"
    /\ ui.phase = "idle" \/ (ui.phase = "failed" /\ ~ui.after)
    /\ Impatient \/ \A x \in Execs : ~Pending(x)
    /\ exec' = [exec EXCEPT ![e].pc = "preread"]
    /\ UNCHANGED <<ui, chainVars>>

\* Mutant: a balance that cannot be read is taken for zero.
PreReadZero(e) ==
    Await(e, "preread", [At(e, "quote") EXCEPT !.pre = 0], "quoting-bridge")

PreRead(e) ==
    Await(e, "preread", [At(e, "quote") EXCEPT !.pre = seen], "quoting-bridge")

\* The quote, the chain switch and the wallet client.
Quote(e) == Await(e, "quote", At(e, "allowance"), "quoting-bridge")

\* The allowance suffices, or is approved, or that fails.
Allowance(e) == Await(e, "allowance", At(e, "sign"), "signing-bridge")

\* The allowance cannot be read: this throws without telling the page.
AllowanceUnread(e) ==
    /\ exec[e].pc \in {"allowance", "dallowance"}
    /\ exec' = [exec EXCEPT ![e].pc = "over"]
    /\ UNCHANGED <<ui, chainVars>>

Sign(e) ==
    /\ exec[e].pc = "sign"
    /\ \/ /\ GoOn(e, [At(e, "receipt") EXCEPT !.hash = e], "bridging")
          /\ bridge' = [bridge EXCEPT ![e] = "sent"]
       \/ Fail(e) /\ UNCHANGED bridge
    /\ UNCHANGED <<deposit, dst, vault, userVars>>

\* The source receipt: mined, reverted, or not there in time.
Receipt(e) ==
    /\ exec[e].pc = "receipt"
    /\ \/ /\ bridge[e] \notin {"sent", "reverted"}
          /\ exec' = [exec EXCEPT ![e].pc = "poll"]
          /\ UNCHANGED ui
       \/ Fail(e)
    /\ UNCHANGED chainVars

\* Mutant: a poll without deadline.
PollForever(e) ==
    /\ exec[e].pc = "poll"
    /\ \/ bridge[e] = "delivered" /\ GoOn(e, At(e, "postread"), "bridging")
       \/ bridge[e] \in {"refunded", "partial", "failed"} /\ Fail(e)
    /\ UNCHANGED chainVars

\* waitForBridgeSettlement: COMPLETED, another outcome, the deadline of thirty
\* minutes, or five errors in a row.
Poll(e) ==
    /\ exec[e].pc = "poll"
    /\ \/ bridge[e] = "delivered" /\ GoOn(e, At(e, "postread"), "bridging")
       \/ Fail(e)
    /\ UNCHANGED chainVars

\* The balance after: the delta is what has arrived since the balance of before,
\* from the bridge or from others, unless the provider still answers with that.
PostRead(e) ==
    /\ exec[e].pc = "postread"
    /\ \/ /\ seen > exec[e].pre
          /\ GoOn(e, [At(e, "dquote") EXCEPT !.amount = seen - exec[e].pre], "quoting-deposit")
       \/ Fail(e)
    /\ UNCHANGED chainVars

-----------------------------------------------------------------------------
(***************************************************************************)
(* The deposit                                                             *)
(***************************************************************************)

\* The Retry button: resumeFromBridgeSettled with what the page was told.  An
\* unknown amount is refused at once.
Retry(e) ==
    LET r == [exec[e] EXCEPT !.hash = ui.hash, !.amount = ui.amount]
    IN  /\ exec[e].pc = "new"
        /\ ui.phase = "failed" /\ ui.after
        /\ Impatient \/ \A x \in Execs : ~Pending(x)
        /\ exec' = [exec EXCEPT ![e] =
                       [r EXCEPT !.pc = IF ui.amount = 0 THEN "over" ELSE "liveread"]]
        /\ UNCHANGED <<ui, chainVars>>

\* Mutant: the whole live balance is deposited.
LiveReadAll(e) ==
    /\ exec[e].pc = "liveread"
    /\ \/ seen > 0 /\ GoOn(e, [At(e, "dquote") EXCEPT !.amount = seen], "quoting-deposit")
       \/ Fail(e)
    /\ UNCHANGED chainVars

\* Resuming deposits the lesser of the live balance and the bridged amount.
LiveRead(e) ==
    /\ exec[e].pc = "liveread"
    /\ \/ /\ seen > 0
          /\ GoOn(e, [At(e, "dquote") EXCEPT !.amount = Lesser(seen, exec[e].amount)],
                  "quoting-deposit")
       \/ Fail(e)
    /\ UNCHANGED chainVars

DepositQuote(e) == Await(e, "dquote", At(e, "dallowance"), "quoting-deposit")
DepositAllowance(e) == Await(e, "dallowance", At(e, "dsign"), "signing-deposit")

DepositSign(e) ==
    /\ exec[e].pc = "dsign"
    /\ \/ /\ GoOn(e, At(e, "dreceipt"), "depositing")
          /\ deposit' = [deposit EXCEPT ![e] = [st |-> "sent", amount |-> exec[e].amount]]
       \/ Fail(e) /\ UNCHANGED deposit
    /\ UNCHANGED <<bridge, dst, vault, userVars>>

\* The receipt of the deposit: mined, reverted, or not there in time.
DepositReceipt(e) ==
    /\ exec[e].pc = "dreceipt"
    /\ (deposit[e].st = "mined" /\ GoOn(e, At(e, "over"), "done")) \/ Fail(e)
    /\ UNCHANGED chainVars

-----------------------------------------------------------------------------
(***************************************************************************)
(* The chains                                                              *)
(***************************************************************************)

\* What a bridge brings to the destination: all of it, a part, or nothing.
Brings(st) == CASE st = "delivered" -> {Amount}
                [] st = "partial" -> 1..(Amount - 1)
                [] OTHER -> {0}

BridgeStep(e, st) ==
    /\ \/ bridge[e] = "sent" /\ st \in {"reverted", "mined"}
       \/ bridge[e] = "mined" /\ st \in {"refunded", "failed"} \cup Arrived
    /\ bridge' = [bridge EXCEPT ![e] = st]
    /\ \E n \in Brings(st) : dst' = dst + n
    /\ UNCHANGED <<ui, exec, deposit, vault, userVars>>

DepositMined(e) ==
    /\ deposit[e].st = "sent"
    /\ \/ /\ dst >= deposit[e].amount
          /\ deposit' = [deposit EXCEPT ![e].st = "mined"]
          /\ dst' = dst - deposit[e].amount
          /\ vault' = vault + deposit[e].amount
       \/ /\ deposit' = [deposit EXCEPT ![e].st = "reverted"]
          /\ UNCHANGED <<dst, vault>>
    /\ UNCHANGED <<ui, exec, bridge, userVars>>

\* The user moves funds out.
Spend ==
    /\ dst > 0 /\ spent < MaxSpent
    /\ dst' = dst - 1 /\ spent' = spent + 1
    /\ UNCHANGED <<ui, exec, bridge, deposit, vault, seen, received>>

\* Somebody else sends the user some of the same token.
Receive ==
    /\ received < MaxReceived
    /\ dst' = dst + 1 /\ received' = received + 1
    /\ UNCHANGED <<ui, exec, bridge, deposit, vault, seen, spent>>

\* The provider has caught up with the chain.
CatchUp ==
    /\ seen # dst
    /\ seen' = dst
    /\ UNCHANGED <<ui, exec, bridge, deposit, dst, vault, spent, received>>

Settle(e) == Receipt(e) \/ Poll(e) \/ PostRead(e) \/ DepositReceipt(e)

CDNext ==
    \/ \E e \in Execs :
          \/ Click(e) \/ PreRead(e) \/ Quote(e) \/ Allowance(e) \/ AllowanceUnread(e)
          \/ Sign(e) \/ Settle(e)
          \/ Retry(e) \/ LiveRead(e) \/ DepositQuote(e) \/ DepositAllowance(e) \/ DepositSign(e)
          \/ DepositMined(e)
          \/ \E st \in BridgeStates : BridgeStep(e, st)
    \/ Spend \/ Receive \/ CatchUp

\* Receipts are waited for three minutes, the settlement thirty, and the
\* balance is read by a provider with a timeout of its own; wallets, users and
\* chains promise nothing.
CDFairness == \A e \in Execs : WF_cdVars(Settle(e))

CDSpec == CDInit /\ [][CDNext]_cdVars /\ CDFairness

-----------------------------------------------------------------------------
(***************************************************************************)
(* Properties                                                              *)
(***************************************************************************)

\* At most what all bridges together brought.
Bridged == Amount * Cardinality({e \in Execs : bridge[e] \in Arrived})

\* What has come to the user's address since the page was opened.
Arrivals == Bridged + received

\* What the user held before is never deposited: no transaction deposits more
\* than has arrived since, also if the provider lags when the balance is read
\* before or after the bridge, and if the user moves funds meanwhile ("Balance
\* delta, not total" and the cap of the resume path,
\* crossChainComposerDeposit.ts:37-41, 398-414, 607-640).  The delta does not tell
\* the bridge's delivery from what others have sent, so both are in the bound.
PriorFundsStay == \A e \in Execs : deposit[e].amount <= Arrivals

\* Without impatient clicks there is one bridge transaction for good: however
\* its execution fails after the broadcast, the page offers no fresh start
\* (failedAfterBridge, crossChainComposerDeposit.ts:387, DepositFlow.tsx:1873).
NeverBridgesTwice ==
    Impatient \/ \A x, y \in Execs : bridge[x] # "none" /\ bridge[y] # "none" => x = y

\* Once the delta was measured, every later failure hands hash and amount to
\* the page, which can retry ("Recoverable mid-flow failure",
\* crossChainComposerDeposit.ts:49-55).
SettledStaysRetryable ==
    \A e \in Execs :
        ui.phase = "failed" /\ ui.hash # None /\ exec[e].hash = ui.hash /\ exec[e].amount > 0
            => ui.after /\ ui.amount > 0

\* The page says done only after a deposit of bridged funds was mined
\* (the reverted check, crossChainComposerDeposit.ts:773-785).
DoneMeansDeposited ==
    ui.phase = "done" => /\ vault > 0
                         /\ ui.hash # None /\ bridge[ui.hash] = "delivered"

\* A broadcast bridge transaction is answered: the amount is known or the call
\* has failed, even if the chain or the bridge never moves
\* (crossChainComposerDeposit.ts:186-188, 304).
BroadcastIsAnswered ==
    \A e \in Execs :
        exec[e].pc \in {"receipt", "poll"} ~> exec[e].pc \notin {"receipt", "poll", "postread"}

(***************************************************************************)
(* The inductive invariant                                                 *)
(***************************************************************************)

BeforeBridge == {"preread", "quote", "allowance", "sign"}
InDeposit == {"liveread", "dquote", "dallowance", "dsign", "dreceipt"}
NoBridge == \A e \in Execs : bridge[e] = "none"

Delivered(h) == h \in Execs /\ bridge[h] = "delivered"

\* An amount in hand has arrived and is about a bridge that delivered, and since
\* an execution read the balance only arrivals have added to it: to what the
\* chain has, and to what the provider shows of it.
SoundRecord(e, r) ==
    /\ r.amount <= Arrivals
    /\ r.pc \in {"quote", "allowance", "sign", "receipt", "poll", "postread"}
          => seen <= r.pre + Arrivals /\ dst <= r.pre + Arrivals
    /\ r.amount > 0 \/ r.pc = "postread" => Delivered(r.hash)
    /\ r.pc \in {"new"} \cup BeforeBridge => bridge[e] = "none" /\ r.amount = 0
    /\ r.pc \in {"receipt", "poll"} => r.hash = e
    /\ r.pc \in InDeposit => r.amount > 0

SoundPage(p) ==
    /\ p.after => p.phase = "failed" /\ p.hash # None
    /\ p.amount <= Arrivals
    /\ p.amount > 0 => Delivered(p.hash)
    /\ p.phase = "done" => vault > 0 /\ Delivered(p.hash)

SoundDeposit(d) ==
    /\ d.amount <= Arrivals
    /\ d.st # "none" => d.amount > 0
    /\ d.st = "mined" => vault > 0

FundsAreSound ==
    /\ CDTypeOK /\ SoundPage(ui) /\ dst <= seen + Arrivals
    /\ \A e \in Execs : SoundRecord(e, exec[e]) /\ SoundDeposit(deposit[e])

\* A patient user has one execution at work, and it is at the bridge only while
\* no bridge transaction exists.
OneBridgeAtWork ==
    /\ \A x, y \in Execs : Pending(x) /\ Pending(y) => x = y
    /\ \A e \in Execs :
          /\ exec[e].pc \in BeforeBridge => NoBridge
          /\ Pending(e) /\ exec[e].pc \notin BeforeBridge => exec[e].hash # None
          /\ exec[e].pc = "dallowance" => ui.phase = "quoting-deposit"
    /\ (\A e \in Execs : ~Pending(e)) /\ ui.phase \in {"idle", "failed"} /\ ~ui.after
          => NoBridge

CDInv == FundsAreSound /\ (Impatient \/ (OneBridgeAtWork /\ NeverBridgesTwice))
=============================================================================
