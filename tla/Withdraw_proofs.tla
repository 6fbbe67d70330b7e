----------------------------- MODULE Withdraw_proofs -----------------------------
(***************************************************************************)
(* For every number of wallet calls, transactions, orders and shares: what *)
(* the screen of a withdrawal shows to be under way is, and what it        *)
(* reports has happened.  As long as no refund left behind has freed the   *)
(* form, all of it is of the redeem on screen, and at most one composer    *)
(* route spends the proceeds of a redeem.                                  *)
(***************************************************************************)
EXTENDS Withdraw, TLAPS

-----------------------------------------------------------------------------
(***************************************************************************)
(* The inductive invariant                                                 *)
(***************************************************************************)

CallKinds == {"redeem", "route", "quote", "open", "refund"}
Phases == {"pre", "send", "receipt", "post", "route-quoting", "composer-quoted", "composer-sending",
           "composer-settling", "quoting", "checking", "approving"}
CallRecords == [kind : CallKinds, at : Phases, live : {"step", "flow", "gone"}, amt : Nat,
                of : Nat, order : Nat, dest : Destinations, pre : Nat, tx : Nat]
TxRecords == [kind : {"redeem", "route", "open", "refund"},
              st : {"pending", "reverted", "mined", "delivered", "filled", "refunded"},
              amt : Nat, of : Nat, order : Nat, dest : Destinations]
Stages == {"none", "idle", "quoting", "quoted", "approving", "open", "refunding", "refunded", "failed"}
Flows == BusyStates \cup {"idle", "error", "redeemed", "intent-quoted"}
Outcomes == [how : {"none", "redeemed-only", "composer", "intent", "kept-underlying"}, of : Nat, by : Nat]

\* The values the variables take.
Typed ==
  /\ open \in BOOLEAN /\ freed \in BOOLEAN /\ dest \in Destinations
  /\ delta \in Nat /\ wallet \in Nat /\ shares \in Nat /\ nonce \in Nat
  /\ redeemTx \in Txs \cup {NoTx} /\ openTx \in Txs \cup {NoTx} /\ measured \in Txs \cup {NoTx}
  /\ order \in 0..nonce /\ orderId \in 0..nonce
  /\ mode \in {"intent", "composer"} /\ panel \in {"idle", "busy", "failed", "stuck"}
  /\ stage \in Stages /\ flow \in Flows
  /\ tx \in Seq(TxRecords) /\ call \in [Calls -> CallRecords \cup {NoCall}]
  /\ outcome \in Outcomes

Carries == {"open", "refund"}
SentPhases == {"receipt", "post", "composer-settling"}

\* What a transaction can become, and where a call of each kind can be.
TxShape(t) ==
  /\ tx[t].st = "delivered" => tx[t].kind = "route"
  /\ tx[t].st \in {"filled", "refunded"} => tx[t].kind = "open"
  /\ tx[t].kind \in Carries => tx[t].order \in 1..nonce
CallShape(c) ==
  /\ call[c].kind = "redeem" => call[c].at \in {"pre", "send", "receipt", "post"} /\ call[c].of = NoTx
  /\ call[c].kind = "route" =>
        call[c].at \in {"route-quoting", "composer-quoted", "composer-sending", "composer-settling"}
  /\ call[c].kind = "quote" => call[c].at = "quoting"
  /\ call[c].kind = "open" => call[c].at \in {"checking", "approving", "receipt"}
  /\ call[c].kind = "refund" => call[c].at \in {"send", "receipt"}
  /\ call[c].kind \in Carries => call[c].order \in 1..nonce
  /\ call[c].live = "step" => call[c].kind \in {"quote", "open", "refund"} /\ stage # "none"
  /\ call[c].live # "gone" => open
  /\ call[c].at \in SentPhases =>
        /\ call[c].tx \in Txs /\ tx[call[c].tx].kind = call[c].kind
        /\ tx[call[c].tx].of = call[c].of /\ tx[call[c].tx].order = call[c].order
        /\ call[c].kind = "route" => tx[call[c].tx].dest = call[c].dest
  /\ call[c].at \notin SentPhases => call[c].tx = NoTx
  /\ call[c].at = "post" => tx[call[c].tx].st = "mined" /\ call[c].dest # "same"

\* What is mounted, and what it recorded.
Mounted ==
  /\ (stage # "none") <=> (open /\ dest # "same" /\ delta # 0 /\ mode = "intent")
  /\ stage = "none" => order = NoOrder /\ openTx = NoTx /\ orderId = NoOrder
  /\ ~open => delta = 0 /\ redeemTx = NoTx
  /\ redeemTx # NoTx => tx[redeemTx].kind = "redeem"
  /\ openTx # NoTx => tx[openTx].kind = "open"

\* What is shown to be under way is.
Watched ==
  /\ flow = "redeeming" => LiveCall("redeem")
  /\ panel = "busy" => LiveCall("route")

\* What was reported has happened.
Reported ==
  /\ Real(outcome)
  /\ stage = "refunded" => \E n \in 1..nonce : OrderIs(n, "refunded")

\* What was mined for a refund, whoever asked for it.
RefundsPaid == \A t \in Txs : tx[t].kind = "refund" /\ tx[t].st = "mined" =>
                 \E u \in Txs : tx[u].kind = "open" /\ tx[u].order = tx[t].order /\ tx[u].st = "refunded"

\* As long as no refund left behind has freed the form:
\* a redeem or a route that is live holds it, alone
Held ==
  /\ \A c, d \in Calls : Spends(c) /\ Spends(d) => c = d
  /\ \A c \in Calls : Spends(c) /\ call[c].kind = "redeem" =>
       /\ flow = "redeeming" /\ delta = 0 /\ call[c].dest = dest
       /\ call[c].at \in SentPhases => call[c].tx = redeemTx
  /\ \A c \in Calls : Spends(c) /\ call[c].kind = "route" =>
       /\ panel = "busy" /\ flow = call[c].at /\ call[c].of = redeemTx /\ call[c].dest = dest

\* the amount to route was paid by the redeem on screen
Paid ==
  /\ delta # 0 => dest # "same" /\ redeemTx # NoTx /\ redeemTx = measured /\ tx[redeemTx].st = "mined"
  /\ panel # "idle" => OnPanel

\* a redeem is spent by at most one route, sent or to be sent
Composed ==
  /\ \A t \in Txs : tx[t].kind = "route" =>
       tx[t].of \in Txs /\ tx[tx[t].of].kind = "redeem" /\ tx[tx[t].of].st = "mined"
  /\ \A t, u \in Txs : tx[t].kind = "route" /\ tx[u].kind = "route" /\ tx[t].of = tx[u].of => t = u
  /\ \A t \in Txs : tx[t].kind = "route" /\ tx[t].of = redeemTx =>
       /\ delta # 0
       /\ \/ panel = "stuck"
          \/ \E c \in Calls : Spends(c) /\ call[c].kind = "route" /\ call[c].at = "composer-settling"
  /\ \A c \in Calls : call[c].kind = "route" =>
       /\ call[c].of \in Txs /\ tx[call[c].of].kind = "redeem" /\ tx[call[c].of].st = "mined"
       /\ ~Live(c) => call[c].of # redeemTx
       /\ call[c].tx = NoTx => \A t \in Txs : tx[t].kind = "route" => tx[t].of # call[c].of
  /\ \A c, d \in Calls : call[c].kind = "route" /\ call[d].kind = "route" /\ call[c].of = call[d].of => c = d

\* an order spends one redeem, whichever call or transaction carries it
Ordered ==
  /\ \A t, u \in Txs : tx[t].kind \in Carries /\ tx[u].kind \in Carries
                         /\ tx[t].order = tx[u].order => tx[t].of = tx[u].of
  /\ \A t \in Txs, c \in Calls : tx[t].kind \in Carries /\ call[c].kind \in Carries
                         /\ tx[t].order = call[c].order => tx[t].of = call[c].of
  /\ \A c, d \in Calls : call[c].kind \in Carries /\ call[d].kind \in Carries
                         /\ call[c].order = call[d].order => call[c].of = call[d].of
  /\ \A t \in Txs : tx[t].kind \in Carries /\ tx[t].order \in {order, orderId} => tx[t].of = redeemTx
  /\ \A c \in Calls : call[c].kind \in Carries /\ (call[c].order \in {order, orderId} \/ call[c].live = "step")
                         => call[c].of = redeemTx
  /\ openTx # NoTx => tx[openTx].of = redeemTx

\* what is reported is of the redeem it is reported of
Owned == Own(outcome) /\ (stage = "refunded" => OrderOf(redeemTx, "refunded"))

Guarded == Held /\ Paid /\ Composed /\ Ordered /\ Owned

IInv ==
  /\ Typed /\ \A t \in Txs : TxShape(t)
  /\ \A c \in Calls : CallShape(c)
  /\ Mounted /\ Watched /\ RefundsPaid /\ Reported
  /\ ~freed => Guarded

-----------------------------------------------------------------------------
(***************************************************************************)
(* Lemmas                                                                  *)
(***************************************************************************)

\* A free place is no call.
LEMMA NoCallIsFree ==
    /\ NoCall.kind = "none" /\ NoCall.at = "none" /\ NoCall.live = "gone" /\ NoCall.tx = NoTx
    /\ NoCall \notin CallRecords
BY DEF NoCall, CallRecords, CallKinds

\* A transaction that was broadcast has a number other than NoTx.
LEMMA TxsAreNumbered == ASSUME Typed PROVE Txs = 1..Len(tx) /\ NoTx \notin Txs
BY DEF Typed, Txs, NoTx

\* The parts that speak of the chain alone do not depend on the page.
LEMMA ChainKept ==
    ASSUME Typed, \A t \in Txs : TxShape(t), RefundsPaid, tx' = tx, nonce' \in Nat, nonce' >= nonce
    PROVE  (\A t \in Txs : TxShape(t))' /\ RefundsPaid'
BY SMTT(30) DEF Typed, Txs, TxShape, RefundsPaid, TxRecords, NoTx

\* What was reported stays true while the chain and the report are left alone.
LEMMA ReportedKept ==
    ASSUME Reported, UNCHANGED <<tx, outcome>>, nonce \in Nat, nonce' \in {nonce, nonce + 1},
           stage' = "refunded" => stage = "refunded"
    PROVE  Reported'
<1>1. Real(outcome)'
  BY DEF Reported, Real, Redeems, Arrived, OrderIs, Txs
<1>2. ASSUME stage' = "refunded" PROVE \E n \in 1..nonce' : OrderIs(n, "refunded")'
  <2>1. PICK n \in 1..nonce : OrderIs(n, "refunded")
    BY <1>2 DEF Reported
  <2>2. n \in 1..nonce' /\ OrderIs(n, "refunded")'
    BY <2>1 DEF OrderIs, Txs
  <2> QED
    BY <2>2
<1> QED
  BY <1>1, <1>2 DEF Reported

\* A call is live as long as it is neither ended nor left behind.
LEMMA StaysLive ==
    ASSUME NEW k, LiveCall(k),
           \A d \in Calls : call[d].kind = k /\ Live(d) => call'[d].kind = k /\ call'[d].live # "gone"
    PROVE  LiveCall(k)'
BY DEF LiveCall, Live

\* What is shown to be under way still is, when the calls shown are left alone.
LEMMA StaysWatched ==
    ASSUME Watched,
           flow' = "redeeming" =>
             flow = "redeeming" /\ \A d \in Calls : call[d].kind = "redeem" /\ Live(d)
                                     => call'[d].kind = "redeem" /\ call'[d].live # "gone",
           panel' = "busy" =>
             /\ panel = "busy"
             /\ \A d \in Calls : call[d].kind = "route" /\ Live(d)
                                     => call'[d].kind = "route" /\ call'[d].live # "gone"
    PROVE  Watched'
BY StaysLive DEF Watched

\* What is known of the routes depends on the routes.
LEMMA StaysComposed ==
    ASSUME Composed, UNCHANGED <<tx, redeemTx, delta, panel>>,
           \A d \in Calls : call[d].kind = "route" \/ call'[d].kind = "route" => call'[d] = call[d]
    PROVE  Composed'
BY DEF Composed, Spends, Live, Txs

\* A form that is not busy is held by no redeem and no route.
LEMMA NotHeld ==
    ASSUME IInv, ~freed, ~Busy, NEW c \in Calls
    PROVE  ~Spends(c)
BY DEF IInv, Guarded, Held, Spends, CallShape, Busy, BusyStates

\* Nor is one with an amount to route, unless the panel shows a route.
LEMMA NotHeldByStep ==
    ASSUME IInv, ~freed, panel # "busy", delta # 0, NEW c \in Calls
    PROVE  ~Spends(c)
BY DEF IInv, Guarded, Held, Spends

-----------------------------------------------------------------------------
(***************************************************************************)
(* The form                                                                *)
(***************************************************************************)

\* The flow is opened.
LEMMA OpenStep ==
    ASSUME IInv, Open, UNCHANGED <<nonce, freed>>
    PROVE  IInv'
<1> USE NoCallIsFree DEF IInv
<1>1. /\ open' = TRUE /\ ~open /\ outcome' = Unreported
      /\ UNCHANGED <<flow, dest, delta, measured, redeemTx, mode, panel, stage, order, openTx, orderId,
                     call, tx, shares, wallet>>
  BY DEF Open, stepVars, orderVars, chainVars
<1>2. Typed'
  BY <1>1 DEF Typed, Txs, Flows, BusyStates, Stages, NoTx, NoOrder, Unreported, Outcomes
<1>3. (\A t \in Txs : TxShape(t))' /\ RefundsPaid'
  BY <1>1, ChainKept DEF Typed
<1>4. (\A d \in Calls : CallShape(d))'
  BY <1>1, TxsAreNumbered DEF Typed, CallShape, Txs, SentPhases, Carries
<1>5. Mounted'
  BY <1>1 DEF Typed, Mounted, Txs, NoTx, NoOrder
<1>6. Watched'
  BY <1>1, StaysWatched DEF Typed, Live
<1>11. Reported'
  BY <1>1 DEF Reported, Real, Unreported, OrderIs, Txs
<1>7. ASSUME ~freed' PROVE Guarded'
  <2>1. Held'
    BY <1>1, <1>7 DEF Guarded, Held, Spends, Live, Typed
  <2>2. Paid'
    BY <1>1, <1>7 DEF Guarded, Held, Paid, Spends, Live, Typed, OnPanel, ShowsRoute,
       Mounted, Txs
  <2>3. Composed'
    BY <1>1, <1>7 DEF Guarded, Held, Composed, Spends, Live, Typed, Txs, CallShape,
       SentPhases
  <2>4. Ordered'
    BY <1>1, <1>7 DEF Guarded, Ordered, Typed, Txs, Carries
  <2>5. Owned'
    BY <1>1, <1>7 DEF Guarded, Owned, Own, Redeems, OrderOf, Typed, Txs, Unreported,
       Mounted
  <2> QED
    BY <2>1, <2>2, <2>3, <2>4, <2>5 DEF Guarded
<1> QED
  BY <1>2, <1>3, <1>4, <1>5, <1>6, <1>7, <1>11

\* Another destination is chosen.
LEMMA ChooseDestinationStep ==
    ASSUME IInv, NEW x \in Dests, ChooseDestination(x), UNCHANGED <<nonce, freed>>
    PROVE  IInv'
<1> USE NoCallIsFree, WithdrawAssumption DEF IInv
<1>1. /\ open /\ ~Busy /\ delta = 0 /\ dest' = x /\ mode' = "intent" /\ flow' = "idle" /\ panel' = "idle"
      /\ delta' = 0 /\ measured' = NoTx /\ redeemTx' = NoTx
      /\ stage' = "none" /\ order' = NoOrder /\ openTx' = NoTx /\ orderId' = NoOrder
      /\ UNCHANGED <<open, call, tx, shares, wallet, outcome>>
      /\ x \in Destinations
  BY DEF ChooseDestination, Blank, NoStep, chainVars
<1>2. Typed'
  BY <1>1 DEF Typed, Txs, Flows, BusyStates, Stages, NoTx, NoOrder
<1>3. (\A t \in Txs : TxShape(t))' /\ RefundsPaid'
  BY <1>1, ChainKept DEF Typed
<1>4. (\A d \in Calls : CallShape(d))'
  BY <1>1, TxsAreNumbered DEF Typed, CallShape, Txs, SentPhases, Carries, Mounted
<1>5. Mounted'
  BY <1>1 DEF Typed, Mounted, Txs, NoTx, NoOrder
<1>6. Watched'
  BY <1>1, StaysWatched DEF Typed, Live
<1>11. Reported'
  BY <1>1, ReportedKept DEF Typed
<1>7. ASSUME ~freed' PROVE Guarded'
  <2>1. Held'
    BY <1>1, <1>7, NotHeld DEF Guarded, Held, Spends, Live, Typed
  <2>2. Paid'
    BY <1>1, <1>7 DEF Guarded, Held, Paid, Spends, Live, Typed, OnPanel, ShowsRoute,
       Mounted, Txs
  <2>3. Composed'
    BY <1>1, <1>7, NotHeld, TxsAreNumbered DEF Guarded, Held, Composed, Spends, Live,
       Typed, Txs, CallShape, SentPhases
  <2>4. Ordered'
    BY <1>1, <1>7, TxsAreNumbered DEF Guarded, Ordered, Typed, Txs, Carries, Mounted,
       CallShape, TxShape, NoOrder
  <2>5. Owned'
    BY <1>1, <1>7 DEF Guarded, Owned, Own, Redeems, OrderOf, Typed, Txs
  <2> QED
    BY <2>1, <2>2, <2>3, <2>4, <2>5 DEF Guarded
<1> QED
  BY <1>2, <1>3, <1>4, <1>5, <1>6, <1>7, <1>11

\* An approval or a simulation holds the form.
LEMMA PrepareStep ==
    ASSUME IInv, NEW f \in BusyStates, Prepare(f), UNCHANGED <<nonce, freed>>
    PROVE  IInv'
<1> USE NoCallIsFree DEF IInv
<1>1. /\ ~Busy /\ ~ShowsRoute /\ flow' = f /\ f \in {"redeem-approving", "simulating"}
      /\ UNCHANGED <<open, dest, delta, measured, redeemTx, mode, panel, stage, order, openTx, orderId,
                     call, tx, shares, wallet, outcome>>
  BY DEF Prepare, formVars, stepVars, orderVars, chainVars
<1>2. Typed'
  BY <1>1 DEF Typed, Txs, Flows, BusyStates, Stages, NoTx, NoOrder
<1>3. (\A t \in Txs : TxShape(t))' /\ RefundsPaid'
  BY <1>1, ChainKept DEF Typed
<1>4. (\A d \in Calls : CallShape(d))'
  BY <1>1, TxsAreNumbered DEF Typed, CallShape, Txs, SentPhases, Carries
<1>5. Mounted'
  BY <1>1 DEF Typed, Mounted, Txs, NoTx, NoOrder
<1>6. Watched'
  BY <1>1, StaysWatched DEF Typed, Live
<1>11. Reported'
  BY <1>1, ReportedKept DEF Typed
<1>7. ASSUME ~freed' PROVE Guarded'
  <2>1. Held'
    BY <1>1, <1>7, NotHeld DEF Guarded, Held, Spends, Live, Typed
  <2>2. Paid'
    BY <1>1, <1>7 DEF Guarded, Held, Paid, Spends, Live, Typed, OnPanel, ShowsRoute,
       Mounted, Txs
  <2>3. Composed'
    BY <1>1, <1>7 DEF Guarded, Held, Composed, Spends, Live, Typed, Txs, CallShape,
       SentPhases
  <2>4. Ordered'
    BY <1>1, <1>7 DEF Guarded, Ordered, Typed, Txs, Carries
  <2>5. Owned'
    BY <1>1, <1>7 DEF Guarded, Owned, Own, Redeems, OrderOf, Typed, Txs
  <2> QED
    BY <2>1, <2>2, <2>3, <2>4, <2>5 DEF Guarded
<1> QED
  BY <1>2, <1>3, <1>4, <1>5, <1>6, <1>7, <1>11

\* The wallet or the simulation answers.
LEMMA PreparedStep ==
    ASSUME IInv, Prepared, UNCHANGED <<nonce, freed>>
    PROVE  IInv'
<1> USE NoCallIsFree DEF IInv
<1>1. /\ flow \in {"redeem-approving", "simulating"} /\ flow' \in {"idle", "error"}
      /\ UNCHANGED <<open, dest, delta, measured, redeemTx, mode, panel, stage, order, openTx, orderId,
                     call, tx, shares, wallet, outcome>>
  BY DEF Prepared, formVars, stepVars, orderVars, chainVars
<1>2. Typed'
  BY <1>1 DEF Typed, Txs, Flows, BusyStates, Stages, NoTx, NoOrder
<1>3. (\A t \in Txs : TxShape(t))' /\ RefundsPaid'
  BY <1>1, ChainKept DEF Typed
<1>4. (\A d \in Calls : CallShape(d))'
  BY <1>1, TxsAreNumbered DEF Typed, CallShape, Txs, SentPhases, Carries
<1>5. Mounted'
  BY <1>1 DEF Typed, Mounted, Txs, NoTx, NoOrder
<1>6. Watched'
  BY <1>1, StaysWatched DEF Typed, Live
<1>11. Reported'
  BY <1>1, ReportedKept DEF Typed
<1>7. ASSUME ~freed' PROVE Guarded'
  <2>1. Held'
    BY <1>1, <1>7 DEF Guarded, Held, Spends, Live, Typed, CallShape
  <2>2. Paid'
    BY <1>1, <1>7 DEF Guarded, Held, Paid, Spends, Live, Typed, OnPanel, ShowsRoute,
       Mounted, Txs
  <2>3. Composed'
    BY <1>1, <1>7 DEF Guarded, Held, Composed, Spends, Live, Typed, Txs, CallShape,
       SentPhases
  <2>4. Ordered'
    BY <1>1, <1>7 DEF Guarded, Ordered, Typed, Txs, Carries
  <2>5. Owned'
    BY <1>1, <1>7 DEF Guarded, Owned, Own, Redeems, OrderOf, Typed, Txs
  <2> QED
    BY <2>1, <2>2, <2>3, <2>4, <2>5 DEF Guarded
<1> QED
  BY <1>2, <1>3, <1>4, <1>5, <1>6, <1>7, <1>11

\* The panel gives way to the intent step.
LEMMA TryIntentStep ==
    ASSUME IInv, TryIntent, UNCHANGED <<nonce, freed>>
    PROVE  IInv'
<1> USE NoCallIsFree DEF IInv
<1>1. /\ OnPanel /\ panel = "failed" /\ mode' = "intent" /\ panel' = "idle" /\ flow' = "redeemed"
      /\ stage' = "idle" /\ order' = NoOrder /\ openTx' = NoTx /\ orderId' = NoOrder
      /\ UNCHANGED <<open, dest, delta, measured, redeemTx, call, tx, shares, wallet, outcome>>
  BY DEF TryIntent, FreshStep, chainVars
<1>2. Typed'
  BY <1>1 DEF Typed, Txs, Flows, BusyStates, Stages, NoTx, NoOrder
<1>3. (\A t \in Txs : TxShape(t))' /\ RefundsPaid'
  BY <1>1, ChainKept DEF Typed
<1>4. (\A d \in Calls : CallShape(d))'
  BY <1>1, TxsAreNumbered DEF Typed, CallShape, Txs, SentPhases, Carries, Mounted, OnPanel
<1>5. Mounted'
  BY <1>1 DEF Typed, Mounted, Txs, NoTx, NoOrder, OnPanel, ShowsRoute
<1>6. Watched'
  BY <1>1, StaysWatched DEF Typed, Live
<1>11. Reported'
  BY <1>1, ReportedKept DEF Typed
<1>7. ASSUME ~freed' PROVE Guarded'
  <2>1. Held'
    BY <1>1, <1>7, NotHeldByStep DEF Guarded, Held, Spends, Live, Typed, OnPanel
  <2>2. Paid'
    BY <1>1, <1>7 DEF Guarded, Held, Paid, Spends, Live, Typed, OnPanel, ShowsRoute,
       Mounted, Txs
  <2>3. Composed'
    BY <1>1, <1>7 DEF Guarded, Held, Composed, Spends, Live, Typed, Txs, CallShape,
       SentPhases
  <2>4. Ordered'
    BY <1>1, <1>7 DEF Guarded, Ordered, Typed, Txs, Carries, CallShape, TxShape, NoOrder,
       NoTx, OnPanel, Mounted
  <2>5. Owned'
    BY <1>1, <1>7 DEF Guarded, Owned, Own, Redeems, OrderOf, Typed, Txs
  <2> QED
    BY <2>1, <2>2, <2>3, <2>4, <2>5 DEF Guarded
<1> QED
  BY <1>2, <1>3, <1>4, <1>5, <1>6, <1>7, <1>11

-----------------------------------------------------------------------------
(***************************************************************************)
(* The step is left, or the flow closes                                    *)
(***************************************************************************)

\* Leaving the step changes nothing but who the calls still write to.
LEMMA LeftByStepIs ==
    ASSUME Typed, call' = LeftByStep(call)
    PROVE  /\ call' \in [Calls -> CallRecords \cup {NoCall}]
           /\ \A d \in Calls :
                /\ call'[d].kind = call[d].kind /\ call'[d].at = call[d].at /\ call'[d].of = call[d].of
                /\ call'[d].order = call[d].order /\ call'[d].tx = call[d].tx /\ call'[d].dest = call[d].dest
                /\ call'[d].live = IF call[d].live = "step" THEN "flow" ELSE call[d].live
<1>1. \A d \in Calls : call'[d] = IF call[d].live = "step" THEN [call[d] EXCEPT !.live = "flow"] ELSE call[d]
  BY DEF LeftByStep
<1>2. ASSUME NEW d \in Calls
      PROVE  /\ call'[d] \in CallRecords \cup {NoCall}
             /\ call'[d].kind = call[d].kind /\ call'[d].at = call[d].at /\ call'[d].of = call[d].of
             /\ call'[d].order = call[d].order /\ call'[d].tx = call[d].tx /\ call'[d].dest = call[d].dest
             /\ call'[d].live = IF call[d].live = "step" THEN "flow" ELSE call[d].live
  <2>1. CASE call[d].live # "step"
    BY <1>1, <2>1 DEF Typed
  <2>2. CASE call[d].live = "step"
    <3>1. call[d] \in CallRecords
      BY <2>2, NoCallIsFree DEF Typed
    <3> QED
      BY <1>1, <2>2, <3>1 DEF CallRecords
  <2> QED
    BY <2>1, <2>2
<1> QED
  BY <1>2 DEF LeftByStep

\* Closing the flow leaves every call behind.
LEMMA LeftByFlowIs ==
    ASSUME NEW f \in [Calls -> CallRecords \cup {NoCall}], call' = LeftByFlow(f)
    PROVE  /\ call' \in [Calls -> CallRecords \cup {NoCall}]
           /\ \A d \in Calls :
                /\ call'[d].kind = f[d].kind /\ call'[d].at = f[d].at /\ call'[d].of = f[d].of
                /\ call'[d].order = f[d].order /\ call'[d].tx = f[d].tx /\ call'[d].dest = f[d].dest
                /\ call'[d].live = "gone"
<1>1. \A d \in Calls : call'[d] = [f[d] EXCEPT !.live = "gone"]
  BY DEF LeftByFlow
<1>2. [NoCall EXCEPT !.live = "gone"] = NoCall
  BY DEF NoCall
<1>3. \A r \in CallRecords : [r EXCEPT !.live = "gone"] \in CallRecords
  BY DEF CallRecords
<1>4. ASSUME NEW d \in Calls PROVE call'[d] \in CallRecords \cup {NoCall}
  <2>1. CASE f[d] = NoCall
    BY <1>1, <1>2, <2>1
  <2>2. CASE f[d] \in CallRecords
    BY <1>1, <1>3, <2>2
  <2> QED
    BY <2>1, <2>2
<1>5. call' \in [Calls -> CallRecords \cup {NoCall}]
  BY <1>4 DEF LeftByFlow
<1>6. ASSUME NEW d \in Calls
      PROVE  /\ call'[d].kind = f[d].kind /\ call'[d].at = f[d].at /\ call'[d].of = f[d].of
             /\ call'[d].order = f[d].order /\ call'[d].tx = f[d].tx /\ call'[d].dest = f[d].dest
             /\ call'[d].live = "gone"
  <2>1. CASE f[d] = NoCall
    BY <1>1, <1>2, <2>1, NoCallIsFree
  <2>2. CASE f[d] \in CallRecords
    BY <1>1, <2>2 DEF CallRecords
  <2> QED
    BY <2>1, <2>2
<1> QED
  BY <1>5, <1>6

\* The amount is edited.
LEMMA EditAmountStep ==
    ASSUME IInv, EditAmount, UNCHANGED <<nonce, freed>>
    PROVE  IInv'
<1> USE NoCallIsFree, LeftByStepIs DEF IInv
<1>1. /\ open /\ ~Busy /\ flow' = "idle" /\ panel' = "idle" /\ delta' = 0 /\ measured' = NoTx /\ redeemTx' = NoTx
      /\ stage' = "none" /\ order' = NoOrder /\ openTx' = NoTx /\ orderId' = NoOrder
      /\ call' = LeftByStep(call)
      /\ UNCHANGED <<open, dest, mode, tx, shares, wallet, outcome>>
  BY DEF EditAmount, Blank, NoStep, chainVars
<1>2. Typed'
  BY <1>1 DEF Typed, Txs, Flows, BusyStates, Stages, NoTx, NoOrder
<1>3. (\A t \in Txs : TxShape(t))' /\ RefundsPaid'
  BY <1>1, ChainKept DEF Typed
<1>4. (\A d \in Calls : CallShape(d))'
  BY <1>1, TxsAreNumbered DEF Typed, CallShape, Txs, SentPhases, Carries
<1>5. Mounted'
  BY <1>1 DEF Typed, Mounted, Txs, NoTx, NoOrder
<1>6. Watched'
  BY <1>1, StaysWatched DEF Typed, Live
<1>11. Reported'
  BY <1>1, ReportedKept DEF Typed
<1>7. ASSUME ~freed' PROVE Guarded'
  <2>1. Held'
    BY <1>1, <1>7, NotHeld DEF Guarded, Held, Spends, Live, Typed
  <2>2. Paid'
    BY <1>1, <1>7 DEF Guarded, Held, Paid, Spends, Live, Typed, OnPanel, ShowsRoute,
       Mounted, Txs
  <2>3. Composed'
    BY <1>1, <1>7, NotHeld, TxsAreNumbered, SMTT(30)
       DEF Guarded, Held, Composed, Spends, Live, Typed, Txs, CallShape, SentPhases
  <2>4. Ordered'
    BY <1>1, <1>7, TxsAreNumbered, SMTT(30)
       DEF Guarded, Ordered, Typed, Txs, Carries, Mounted, CallShape, TxShape, NoOrder
  <2>5. Owned'
    BY <1>1, <1>7 DEF Guarded, Owned, Own, Redeems, OrderOf, Typed, Txs
  <2> QED
    BY <2>1, <2>2, <2>3, <2>4, <2>5 DEF Guarded
<1> QED
  BY <1>2, <1>3, <1>4, <1>5, <1>6, <1>7, <1>11

\* The step gives way to the composer.
LEMMA TryComposerStep ==
    ASSUME IInv, TryComposer, UNCHANGED <<nonce, freed>>
    PROVE  IInv'
<1> USE NoCallIsFree, LeftByStepIs DEF IInv
<1>1. /\ stage = "failed" /\ mode' = "composer" /\ panel' = "idle" /\ flow' = "redeemed"
      /\ stage' = "none" /\ order' = NoOrder /\ openTx' = NoTx /\ orderId' = NoOrder
      /\ call' = LeftByStep(call)
      /\ UNCHANGED <<open, dest, delta, measured, redeemTx, tx, shares, wallet, outcome>>
  BY DEF TryComposer, NoStep, chainVars
<1>8. delta # 0 /\ ~OnPanel
  BY <1>1 DEF Mounted, OnPanel
<1>9. ~freed => panel # "busy"
  BY <1>8 DEF Guarded, Paid
<1>2. Typed'
  BY <1>1 DEF Typed, Txs, Flows, BusyStates, Stages, NoTx, NoOrder
<1>3. (\A t \in Txs : TxShape(t))' /\ RefundsPaid'
  BY <1>1, ChainKept DEF Typed
<1>4. (\A d \in Calls : CallShape(d))'
  BY <1>1, TxsAreNumbered DEF Typed, CallShape, Txs, SentPhases, Carries
<1>5. Mounted'
  BY <1>1 DEF Typed, Mounted, Txs, NoTx, NoOrder
<1>6. Watched'
  BY <1>1, StaysWatched DEF Typed, Live
<1>11. Reported'
  BY <1>1, ReportedKept DEF Typed
<1>7. ASSUME ~freed' PROVE Guarded'
  <2>1. Held'
    BY <1>1, <1>7, <1>8, <1>9, NotHeldByStep DEF Guarded, Held, Spends, Live, Typed
  <2>2. Paid'
    BY <1>1, <1>7, <1>8 DEF Guarded, Held, Paid, Spends, Live, Typed, OnPanel, ShowsRoute,
       Mounted, Txs
  <2>3. Composed'
    <3>1. panel = "idle" /\ \A d \in Calls : ~Spends(d)
      BY <1>1, <1>7, <1>8, <1>9, NotHeldByStep DEF Guarded, Paid
    <3>2. \A t \in Txs : tx[t].kind = "route" => tx[t].of # redeemTx
      BY <1>1, <1>7, <3>1 DEF Guarded, Composed
    <3> QED
      BY <1>1, <1>7, <3>1, <3>2 DEF Guarded, Composed, Spends, Live, Typed, Txs
  <2>4. Ordered'
    BY <1>1, <1>7, TxsAreNumbered DEF Guarded, Ordered, Typed, Txs, Carries, Mounted,
       CallShape, TxShape, NoOrder
  <2>5. Owned'
    BY <1>1, <1>7 DEF Guarded, Owned, Own, Redeems, OrderOf, Typed, Txs
  <2> QED
    BY <2>1, <2>2, <2>3, <2>4, <2>5 DEF Guarded
<1> QED
  BY <1>2, <1>3, <1>4, <1>5, <1>6, <1>7, <1>11

\* The flow closes, whoever closes it; a call that closes it has ended.
LEMMA UnmountStep ==
    ASSUME IInv, NEW f, f = call \/ \E c \in Calls : f = Ends(c), Unmount(f),
           UNCHANGED <<tx, shares, wallet, nonce, freed>>,
           outcome' \in Outcomes, Real(outcome'), ~freed => Own(outcome')
    PROVE  IInv'
<1> USE NoCallIsFree DEF IInv
<1>1. /\ open' = FALSE /\ flow' = "idle" /\ panel' = "idle" /\ delta' = 0 /\ measured' = NoTx /\ redeemTx' = NoTx
      /\ stage' = "none" /\ order' = NoOrder /\ openTx' = NoTx /\ orderId' = NoOrder
      /\ dest' = "same" /\ mode' = "intent"
  BY DEF Unmount, Blank, NoStep
<1>8. f \in [Calls -> CallRecords \cup {NoCall}] /\ \A d \in Calls : f[d] = call[d] \/ f[d] = NoCall
  BY DEF Typed, Ends
<1>9. /\ call' \in [Calls -> CallRecords \cup {NoCall}]
      /\ \A d \in Calls :
           /\ call'[d].live = "gone"
           /\ \/ call'[d].kind = "none" /\ call'[d].at = "none" /\ call'[d].tx = NoTx
              \/ /\ call'[d].kind = call[d].kind /\ call'[d].at = call[d].at /\ call'[d].of = call[d].of
                 /\ call'[d].order = call[d].order /\ call'[d].tx = call[d].tx /\ call'[d].dest = call[d].dest
  BY <1>8, LeftByFlowIs DEF Unmount
<1>2. Typed'
  <2>1. redeemTx' \in Txs' \cup {NoTx} /\ openTx' \in Txs' \cup {NoTx} /\ tx' \in Seq(TxRecords)
    BY <1>1 DEF Typed, Txs
  <2>2. order' \in 0..nonce' /\ orderId' \in 0..nonce' /\ nonce' \in Nat /\ freed' \in BOOLEAN
        /\ wallet' \in Nat /\ shares' \in Nat
    BY <1>1 DEF Typed, NoOrder
  <2>3. stage' \in Stages /\ flow' \in Flows /\ dest' \in Destinations
    BY <1>1 DEF Flows, Stages, Destinations
  <2>4. call' \in [Calls -> CallRecords \cup {NoCall}]
    BY <1>9
  <2> QED
    BY <1>1, <2>1, <2>2, <2>3, <2>4 DEF Typed
<1>3. (\A t \in Txs : TxShape(t))' /\ RefundsPaid'
  BY ChainKept DEF Typed
<1>4. (\A d \in Calls : CallShape(d))'
  BY <1>1, <1>9, TxsAreNumbered DEF Typed, CallShape, Txs, SentPhases, Carries
<1>5. Mounted'
  BY <1>1 DEF Typed, Mounted, Txs, NoTx, NoOrder
<1>6. Watched'
  BY <1>1 DEF Watched
<1>11. Reported'
  BY <1>1 DEF Reported, Real, Redeems, Arrived, OrderIs, Txs
<1>7. ASSUME ~freed' PROVE Guarded'
  <2>1. Held'
    BY <1>9 DEF Held, Spends, Live
  <2>2. Paid'
    BY <1>1 DEF Paid
  <2>3. Composed'
    BY <1>1, <1>7, <1>9, TxsAreNumbered DEF Guarded, Composed, Live, Typed, Txs
  <2>4. Ordered'
    BY <1>1, <1>7, <1>9, TxsAreNumbered
       DEF Guarded, Ordered, Typed, Txs, Carries, CallShape, TxShape, NoOrder
  <2>5. Owned'
    BY <1>1, <1>7 DEF Owned, Own, Redeems, OrderOf, Txs
  <2> QED
    BY <2>1, <2>2, <2>3, <2>4, <2>5 DEF Guarded
<1> QED
  BY <1>2, <1>3, <1>4, <1>5, <1>6, <1>7, <1>11

\* The close button and Keep underlying.
LEMMA CloseStep ==
    ASSUME IInv, Close \/ KeepUnderlying, UNCHANGED <<nonce, freed>>
    PROVE  IInv'
<1>1. CASE Close
  <2>1. Real(outcome') /\ (~freed => Own(outcome'))
    BY <1>1 DEF Close, IInv, Reported, Guarded, Owned
  <2> QED
    BY <1>1, <2>1, UnmountStep DEF Close, chainVars, IInv, Typed
<1>2. CASE KeepUnderlying
  <2>1. outcome' = [how |-> "kept-underlying", of |-> redeemTx, by |-> 0] /\ Unmount(call)
    BY <1>2 DEF KeepUnderlying, Complete
  <2>2. Real(outcome') /\ Own(outcome')
    BY <2>1 DEF Real, Own
  <2>3. outcome' \in Outcomes
    BY <2>1 DEF IInv, Typed, Txs, NoTx, Outcomes
  <2> QED
    BY <1>2, <2>1, <2>2, <2>3, UnmountStep DEF KeepUnderlying, chainVars
<1> QED
  BY <1>1, <1>2

\* The order is delivered; unless the form was freed it spends the redeem on screen.
LEMMA DeliveredStep ==
    ASSUME IInv, Delivered, UNCHANGED <<nonce, freed>>
    PROVE  IInv'
<1>1. outcome' = [how |-> "intent", of |-> redeemTx, by |-> orderId] /\ Unmount(call) /\ stage # "none"
      /\ OrderIs(orderId, "filled")
  BY DEF Delivered, Complete
<1>2. outcome' \in Outcomes
  BY <1>1 DEF IInv, Typed, Txs, NoTx, Outcomes
<1>3. Real(outcome')
  BY <1>1 DEF Real
<1>4. ASSUME ~freed PROVE Own(outcome')
  <2>1. Redeems(redeemTx)
    BY <1>1, <1>4 DEF IInv, Typed, Guarded, Paid, Mounted, Redeems
  <2>2. PICK t \in Txs : tx[t].kind = "open" /\ tx[t].order = orderId /\ tx[t].st = "filled"
    BY <1>1 DEF OrderIs
  <2>3. tx[t].of = redeemTx
    BY <1>4, <2>2 DEF IInv, Guarded, Ordered, Carries
  <2> QED
    BY <1>1, <2>1, <2>2, <2>3 DEF Own, OrderOf
<1> QED
  BY <1>1, <1>2, <1>3, <1>4, UnmountStep DEF Delivered, chainVars

-----------------------------------------------------------------------------
(***************************************************************************)
(* Calls that start                                                        *)
(***************************************************************************)

\* A call that starts takes a free place and leaves the others alone.
LEMMA StartIs ==
    ASSUME Typed, NEW c \in Calls, NEW kind \in CallKinds, NEW at \in Phases,
           NEW live \in {"step", "flow", "gone"}, Start(c, kind, at, live)
    PROVE  /\ call' \in [Calls -> CallRecords \cup {NoCall}] /\ call[c] = NoCall
           /\ \A d \in Calls \ {c} : call'[d] = call[d]
           /\ call'[c].kind = kind /\ call'[c].at = at /\ call'[c].live = live
           /\ call'[c].of = (IF kind = "redeem" THEN NoTx ELSE redeemTx)
           /\ call'[c].order = order /\ call'[c].dest = dest /\ call'[c].tx = NoTx
<1> DEFINE r == [kind |-> kind, at |-> at, live |-> live, amt |-> delta,
                 of |-> IF kind = "redeem" THEN NoTx ELSE redeemTx,
                 order |-> order, dest |-> dest, pre |-> 0, tx |-> NoTx]
<1>1. call[c] = NoCall /\ call' = [call EXCEPT ![c] = r]
  BY DEF Start
<1>2. redeemTx \in Nat /\ order \in Nat
  BY DEF Typed, Txs, NoTx
<1>3. r \in CallRecords
  BY <1>2 DEF CallRecords, Typed, NoTx
<1> QED
  BY <1>1, <1>3 DEF Typed

\* handleExecute starts a redeem.
LEMMA ExecuteStep ==
    ASSUME IInv, NEW c \in Calls, Execute(c), UNCHANGED <<nonce, freed>>
    PROVE  IInv'
<1> USE NoCallIsFree DEF IInv
<1>1. /\ call' \in [Calls -> CallRecords \cup {NoCall}] /\ call[c] = NoCall
      /\ \A d \in Calls \ {c} : call'[d] = call[d]
      /\ call'[c].kind = "redeem" /\ call'[c].at \in {"send", "pre"} /\ call'[c].live = "flow"
      /\ call'[c].of = NoTx /\ call'[c].dest = dest /\ call'[c].tx = NoTx
      /\ open /\ ~Busy /\ ~ShowsRoute /\ flow' = "redeeming"
      /\ UNCHANGED <<open, dest, delta, measured, redeemTx, mode, panel, stage, order, openTx, orderId,
                     tx, shares, wallet, outcome>>
  BY StartIs DEF Execute, formVars, stepVars, orderVars, chainVars, CallKinds, Phases
<1>2. Typed'
  BY <1>1 DEF Typed, Txs, Flows, BusyStates, Stages, NoTx, NoOrder
<1>3. (\A t \in Txs : TxShape(t))' /\ RefundsPaid'
  BY <1>1, ChainKept DEF Typed
<1>4. (\A d \in Calls : CallShape(d))'
  BY <1>1, TxsAreNumbered DEF Typed, CallShape, Txs, SentPhases, Carries
<1>5. Mounted'
  BY <1>1 DEF Typed, Mounted, Txs, NoTx, NoOrder
<1>6. Watched'
  <2>1. LiveCall("redeem")'
    BY <1>1 DEF LiveCall, Live
  <2>2. panel = "busy" => LiveCall("route")'
    BY <1>1, StaysLive DEF Watched, Live
  <2> QED
    BY <1>1, <2>1, <2>2 DEF Watched
<1>11. Reported'
  BY <1>1, ReportedKept DEF Typed
<1>7. ASSUME ~freed' PROVE Guarded'
  <2>1. Held'
    BY <1>1, <1>7, NotHeld DEF Guarded, Held, Spends, Live, Typed, Paid, ShowsRoute,
       SentPhases
  <2>2. Paid'
    BY <1>1, <1>7 DEF Guarded, Held, Paid, Spends, Live, Typed, OnPanel, ShowsRoute,
       Mounted, Txs
  <2>3. Composed'
    BY <1>1, <1>7, StaysComposed DEF Guarded
  <2>4. Ordered'
    BY <1>1, <1>7 DEF Guarded, Ordered, Typed, Txs, Carries
  <2>5. Owned'
    BY <1>1, <1>7 DEF Guarded, Owned, Own, Redeems, OrderOf, Typed, Txs
  <2> QED
    BY <2>1, <2>2, <2>3, <2>4, <2>5 DEF Guarded
<1> QED
  BY <1>2, <1>3, <1>4, <1>5, <1>6, <1>7, <1>11

\* handleComposerRoute starts a route.
LEMMA StartRouteStep ==
    ASSUME IInv, NEW c \in Calls, StartRoute(c), UNCHANGED <<nonce, freed>>
    PROVE  IInv'
<1> USE NoCallIsFree DEF IInv
<1>1. /\ call' \in [Calls -> CallRecords \cup {NoCall}] /\ call[c] = NoCall
      /\ \A d \in Calls \ {c} : call'[d] = call[d]
      /\ call'[c].kind = "route" /\ call'[c].at = "route-quoting" /\ call'[c].live = "flow"
      /\ call'[c].of = redeemTx /\ call'[c].dest = dest /\ call'[c].tx = NoTx
      /\ OnPanel /\ panel \in {"idle", "failed"} /\ flow' = "route-quoting" /\ panel' = "busy"
      /\ UNCHANGED <<open, dest, delta, measured, redeemTx, mode, stage, order, openTx, orderId,
                     tx, shares, wallet, outcome>>
  BY StartIs DEF StartRoute, formVars, stepVars, orderVars, chainVars, CallKinds, Phases
<1>2. Typed'
  BY <1>1 DEF Typed, Txs, Flows, BusyStates, Stages, NoTx, NoOrder
<1>3. (\A t \in Txs : TxShape(t))' /\ RefundsPaid'
  BY <1>1, ChainKept DEF Typed
<1>4. (\A d \in Calls : CallShape(d))'
  BY <1>1, TxsAreNumbered DEF Typed, CallShape, Txs, SentPhases, Carries, OnPanel
<1>5. Mounted'
  BY <1>1 DEF Typed, Mounted, Txs, NoTx, NoOrder
<1>6. Watched'
  <2>1. LiveCall("route")'
    BY <1>1 DEF LiveCall, Live
  <2> QED
    BY <1>1, <2>1 DEF Watched
<1>11. Reported'
  BY <1>1, ReportedKept DEF Typed
<1>7. ASSUME ~freed' PROVE Guarded'
  <2>1. Held'
    BY <1>1, <1>7, NotHeldByStep DEF Guarded, Held, Spends, Live, Typed, OnPanel
  <2>2. Paid'
    BY <1>1, <1>7 DEF Guarded, Held, Paid, Spends, Live, Typed, OnPanel, ShowsRoute,
       Mounted, Txs
  <2>3. Composed'
    <3>1. delta # 0 /\ redeemTx \in Txs /\ redeemTx # NoTx /\ tx[redeemTx].kind = "redeem" /\ tx[redeemTx].st = "mined"
      BY <1>1, <1>7 DEF OnPanel, Guarded, Paid, Mounted, Typed
    <3>2. \A d \in Calls : ~Spends(d)
      BY <1>1, <1>7, NotHeldByStep DEF OnPanel
    <3>3. \A t \in Txs : tx[t].kind = "route" => tx[t].of # redeemTx
      BY <1>1, <1>7, <3>2 DEF Guarded, Composed
    <3>4. \A d \in Calls : call[d].kind = "route" => call[d].of # redeemTx
      BY <1>1, <1>7, <3>2 DEF Guarded, Composed, Spends
    <3> QED
      BY <1>1, <1>7, <3>1, <3>2, <3>3, <3>4 DEF Guarded, Composed, Spends, Live, Typed, Txs
  <2>4. Ordered'
    BY <1>1, <1>7 DEF Guarded, Ordered, Typed, Txs, Carries
  <2>5. Owned'
    BY <1>1, <1>7 DEF Guarded, Owned, Own, Redeems, OrderOf, Typed, Txs
  <2> QED
    BY <2>1, <2>2, <2>3, <2>4, <2>5 DEF Guarded
<1> QED
  BY <1>2, <1>3, <1>4, <1>5, <1>6, <1>7, <1>11

\* The step asks for a quote.
LEMMA ClickQuoteStep ==
    ASSUME IInv, NEW c \in Calls, ClickQuote(c), UNCHANGED <<nonce, freed>>
    PROVE  IInv'
<1> USE NoCallIsFree DEF IInv
<1>1. /\ call' \in [Calls -> CallRecords \cup {NoCall}] /\ call[c] = NoCall
      /\ \A d \in Calls \ {c} : call'[d] = call[d]
      /\ call'[c].kind = "quote" /\ call'[c].at = "quoting" /\ call'[c].live = "step" /\ call'[c].tx = NoTx
      /\ stage \in {"idle", "failed"} /\ openTx = NoTx /\ stage' = "quoting" /\ flow' = "route-quoting"
      /\ UNCHANGED <<open, dest, delta, measured, redeemTx, mode, panel, order, openTx, orderId,
                     tx, shares, wallet, outcome>>
  BY StartIs DEF ClickQuote, formVars, stepVars, orderVars, chainVars, CallKinds, Phases
<1>8. delta # 0 /\ (~freed => panel # "busy")
  BY <1>1 DEF Mounted, Guarded, Paid, OnPanel
<1>2. Typed'
  BY <1>1 DEF Typed, Txs, Flows, BusyStates, Stages, NoTx, NoOrder
<1>3. (\A t \in Txs : TxShape(t))' /\ RefundsPaid'
  BY <1>1, ChainKept DEF Typed
<1>4. (\A d \in Calls : CallShape(d))'
  BY <1>1, TxsAreNumbered DEF Typed, CallShape, Txs, SentPhases, Carries, Mounted
<1>5. Mounted'
  BY <1>1 DEF Typed, Mounted, Txs, NoTx, NoOrder
<1>6. Watched'
  BY <1>1, StaysWatched DEF Typed, Live
<1>11. Reported'
  BY <1>1, ReportedKept DEF Typed
<1>7. ASSUME ~freed' PROVE Guarded'
  <2>1. Held'
    <3>1. \A d \in Calls : ~Spends(d)
      BY <1>1, <1>7, <1>8, NotHeldByStep
    <3> QED
      BY <1>1, <3>1 DEF Held, Spends, Live
  <2>2. Paid'
    BY <1>1, <1>7 DEF Guarded, Held, Paid, Spends, Live, Typed, OnPanel, ShowsRoute,
       Mounted, Txs
  <2>3. Composed'
    BY <1>1, <1>7, SMTT(30)
       DEF Guarded, Held, Composed, Spends, Live, Typed, Txs, CallShape, SentPhases
  <2>4. Ordered'
    BY <1>1, <1>7, SMTT(30) DEF Guarded, Ordered, Typed, Txs, Carries
  <2>5. Owned'
    BY <1>1, <1>7 DEF Guarded, Owned, Own, Redeems, OrderOf, Typed, Txs
  <2> QED
    BY <2>1, <2>2, <2>3, <2>4, <2>5 DEF Guarded
<1> QED
  BY <1>2, <1>3, <1>4, <1>5, <1>6, <1>7, <1>11

\* handleOpen starts.
LEMMA ClickOpenStep ==
    ASSUME IInv, NEW c \in Calls, ClickOpen(c), UNCHANGED <<nonce, freed>>
    PROVE  IInv'
<1> USE NoCallIsFree DEF IInv
<1>1. /\ call' \in [Calls -> CallRecords \cup {NoCall}] /\ call[c] = NoCall
      /\ \A d \in Calls \ {c} : call'[d] = call[d]
      /\ call'[c].kind = "open" /\ call'[c].at = "checking" /\ call'[c].live = "step" /\ call'[c].tx = NoTx
      /\ call'[c].order = order /\ call'[c].of = redeemTx
      /\ stage = "quoted" /\ order # NoOrder
      /\ UNCHANGED <<stage, flow>>
      /\ UNCHANGED <<open, dest, delta, measured, redeemTx, mode, panel, order, openTx, orderId,
                     tx, shares, wallet, outcome>>
  BY StartIs DEF ClickOpen, formVars, stepVars, orderVars, chainVars, flowVars, CallKinds,
     Phases
<1>2. Typed'
  BY <1>1 DEF Typed, Txs, Flows, BusyStates, Stages, NoTx, NoOrder
<1>3. (\A t \in Txs : TxShape(t))' /\ RefundsPaid'
  BY <1>1, ChainKept DEF Typed
<1>4. (\A d \in Calls : CallShape(d))'
  BY <1>1, TxsAreNumbered DEF Typed, CallShape, Txs, SentPhases, Carries, Mounted, NoOrder
<1>5. Mounted'
  BY <1>1 DEF Typed, Mounted, Txs, NoTx, NoOrder
<1>6. Watched'
  BY <1>1, StaysWatched DEF Typed, Live
<1>11. Reported'
  BY <1>1, ReportedKept DEF Typed
<1>7. ASSUME ~freed' PROVE Guarded'
  <2>1. Held'
    BY <1>1, <1>7 DEF Guarded, Held, Spends, Live, Typed
  <2>2. Paid'
    BY <1>1, <1>7 DEF Guarded, Held, Paid, Spends, Live, Typed, OnPanel, ShowsRoute,
       Mounted, Txs
  <2>3. Composed'
    BY <1>1, <1>7 DEF Guarded, Held, Composed, Spends, Live, Typed, Txs, CallShape,
       SentPhases
  <2>4. Ordered'
    BY <1>1, <1>7 DEF Guarded, Ordered, Typed, Txs, Carries
  <2>5. Owned'
    BY <1>1, <1>7 DEF Guarded, Owned, Own, Redeems, OrderOf, Typed, Txs
  <2> QED
    BY <2>1, <2>2, <2>3, <2>4, <2>5 DEF Guarded
<1> QED
  BY <1>2, <1>3, <1>4, <1>5, <1>6, <1>7, <1>11

\* handleRefund starts.
LEMMA ClickRefundStep ==
    ASSUME IInv, NEW c \in Calls, ClickRefund(c), UNCHANGED <<nonce, freed>>
    PROVE  IInv'
<1> USE NoCallIsFree DEF IInv
<1>1. /\ call' \in [Calls -> CallRecords \cup {NoCall}] /\ call[c] = NoCall
      /\ \A d \in Calls \ {c} : call'[d] = call[d]
      /\ call'[c].kind = "refund" /\ call'[c].at = "send" /\ call'[c].live = "step" /\ call'[c].tx = NoTx
      /\ call'[c].order = order /\ call'[c].of = redeemTx
      /\ stage \in {"open", "refunded"} /\ order # NoOrder /\ stage' = "refunding" /\ flow' = "intent-open"
      /\ UNCHANGED <<open, dest, delta, measured, redeemTx, mode, panel, order, openTx, orderId,
                     tx, shares, wallet, outcome>>
  BY StartIs DEF ClickRefund, formVars, stepVars, orderVars, chainVars, CallKinds, Phases
<1>8. delta # 0 /\ (~freed => panel # "busy")
  BY <1>1 DEF Mounted, Guarded, Paid, OnPanel
<1>2. Typed'
  BY <1>1 DEF Typed, Txs, Flows, BusyStates, Stages, NoTx, NoOrder
<1>3. (\A t \in Txs : TxShape(t))' /\ RefundsPaid'
  BY <1>1, ChainKept DEF Typed
<1>4. (\A d \in Calls : CallShape(d))'
  BY <1>1, TxsAreNumbered DEF Typed, CallShape, Txs, SentPhases, Carries, Mounted, NoOrder
<1>5. Mounted'
  BY <1>1 DEF Typed, Mounted, Txs, NoTx, NoOrder
<1>6. Watched'
  BY <1>1, StaysWatched DEF Typed, Live
<1>11. Reported'
  BY <1>1, ReportedKept DEF Typed
<1>7. ASSUME ~freed' PROVE Guarded'
  <2>1. Held'
    <3>1. \A d \in Calls : ~Spends(d)
      BY <1>1, <1>7, <1>8, NotHeldByStep
    <3> QED
      BY <1>1, <3>1 DEF Held, Spends, Live
  <2>2. Paid'
    BY <1>1, <1>7 DEF Guarded, Held, Paid, Spends, Live, Typed, OnPanel, ShowsRoute,
       Mounted, Txs
  <2>3. Composed'
    BY <1>1, <1>7, SMTT(30)
       DEF Guarded, Held, Composed, Spends, Live, Typed, Txs, CallShape, SentPhases
  <2>4. Ordered'
    BY <1>1, <1>7 DEF Guarded, Ordered, Typed, Txs, Carries
  <2>5. Owned'
    BY <1>1, <1>7 DEF Guarded, Owned, Own, Redeems, OrderOf, Typed, Txs
  <2> QED
    BY <2>1, <2>2, <2>3, <2>4, <2>5 DEF Guarded
<1> QED
  BY <1>2, <1>3, <1>4, <1>5, <1>6, <1>7, <1>11

-----------------------------------------------------------------------------
(***************************************************************************)
(* Calls that go on                                                        *)
(***************************************************************************)

\* A call that goes on keeps what it was started with.
LEMMA MovesIs ==
    ASSUME Typed, NEW c \in Calls, call[c].kind # "none", NEW at \in Phases,
           \/ call' = [call EXCEPT ![c].at = at]
           \/ call' = [call EXCEPT ![c].at = at, ![c].pre = wallet]
    PROVE  /\ call' \in [Calls -> CallRecords \cup {NoCall}]
           /\ \A d \in Calls \ {c} : call'[d] = call[d]
           /\ call'[c].at = at /\ call'[c].kind = call[c].kind /\ call'[c].live = call[c].live
           /\ call'[c].of = call[c].of /\ call'[c].order = call[c].order /\ call'[c].dest = call[c].dest
           /\ call'[c].tx = call[c].tx
<1>1. call[c] \in CallRecords
  BY NoCallIsFree DEF Typed
<1>2. \/ call'[c] = [call[c] EXCEPT !.at = at]
      \/ call'[c] = [call[c] EXCEPT !.at = at, !.pre = wallet]
  BY DEF Typed
<1>3. /\ call'[c] \in CallRecords
      /\ call'[c].at = at /\ call'[c].kind = call[c].kind /\ call'[c].live = call[c].live
      /\ call'[c].of = call[c].of /\ call'[c].order = call[c].order /\ call'[c].dest = call[c].dest
      /\ call'[c].tx = call[c].tx
  BY <1>1, <1>2 DEF CallRecords, Typed
<1>4. call' \in [Calls -> CallRecords \cup {NoCall}] /\ \A d \in Calls \ {c} : call'[d] = call[d]
  BY <1>3 DEF Typed
<1> QED
  BY <1>3, <1>4

\* The redeem has read the balance.
LEMMA ReadBeforeStep ==
    ASSUME IInv, NEW c \in Calls, ReadBefore(c), UNCHANGED <<nonce, freed>>
    PROVE  IInv'
<1> USE NoCallIsFree DEF IInv
<1>9. call[c].kind = "redeem" /\ "send" \in Phases /\ call' = [call EXCEPT ![c].at = "send", ![c].pre = wallet]
  BY DEF ReadBefore, At, Phases
<1>1. /\ call' \in [Calls -> CallRecords \cup {NoCall}] /\ \A d \in Calls \ {c} : call'[d] = call[d]
      /\ call'[c].kind = call[c].kind /\ call'[c].live = call[c].live /\ call'[c].tx = call[c].tx
      /\ call'[c].of = call[c].of /\ call'[c].order = call[c].order /\ call'[c].dest = call[c].dest
      /\ call[c].kind = "redeem" /\ call[c].at = "pre" /\ call'[c].at = "send"
      /\ flow' = flow
      /\ UNCHANGED <<open, dest, delta, measured, redeemTx, mode, panel, stage, order, openTx, orderId,
                     tx, shares, wallet, outcome>>
  BY <1>9, MovesIs DEF ReadBefore, At, formVars, flowVars, stepVars, orderVars, chainVars
<1>2. Typed'
  BY <1>1 DEF Typed, Txs, Flows, BusyStates, Stages, NoTx, NoOrder
<1>3. (\A t \in Txs : TxShape(t))' /\ RefundsPaid'
  BY <1>1, ChainKept DEF Typed
<1>4. (\A d \in Calls : CallShape(d))'
  BY <1>1, TxsAreNumbered DEF Typed, CallShape, Txs, SentPhases, Carries
<1>5. Mounted'
  BY <1>1 DEF Typed, Mounted, Txs, NoTx, NoOrder
<1>6. Watched'
  BY <1>1, StaysWatched DEF Typed, Live
<1>11. Reported'
  BY <1>1, ReportedKept DEF Typed
<1>7. ASSUME ~freed' PROVE Guarded'
  <2>1. Held'
    BY <1>1, <1>7 DEF Guarded, Held, Spends, Live, Typed, SentPhases
  <2>2. Paid'
    BY <1>1, <1>7 DEF Guarded, Held, Paid, Spends, Live, Typed, OnPanel, ShowsRoute,
       Mounted, Txs
  <2>3. Composed'
    BY <1>1, <1>7, StaysComposed DEF Guarded
  <2>4. Ordered'
    BY <1>1, <1>7 DEF Guarded, Ordered, Typed, Txs, Carries
  <2>5. Owned'
    BY <1>1, <1>7 DEF Guarded, Owned, Own, Redeems, OrderOf, Typed, Txs
  <2> QED
    BY <2>1, <2>2, <2>3, <2>4, <2>5 DEF Guarded
<1> QED
  BY <1>2, <1>3, <1>4, <1>5, <1>6, <1>7, <1>11

\* The route goes on to its next phase.
LEMMA RouteAdvancesStep ==
    ASSUME IInv, NEW c \in Calls, RouteAdvances(c), UNCHANGED <<nonce, freed>>
    PROVE  IInv'
<1> USE NoCallIsFree DEF IInv
<1>9. PICK a \in {"route-quoting", "composer-quoted"} :
        /\ call[c].kind = "route" /\ call[c].at = a /\ NextPhase[a] \in Phases
        /\ call' = [call EXCEPT ![c].at = NextPhase[a]]
        /\ flow' = IF Live(c) THEN NextPhase[a] ELSE flow
        /\ panel' = IF Live(c) THEN "busy" ELSE panel
  BY DEF RouteAdvances, ShowPhase, NextPhase, Moves, At, Phases
<1>1. /\ call' \in [Calls -> CallRecords \cup {NoCall}] /\ \A d \in Calls \ {c} : call'[d] = call[d]
      /\ call'[c].kind = call[c].kind /\ call'[c].live = call[c].live /\ call'[c].tx = call[c].tx
      /\ call'[c].of = call[c].of /\ call'[c].order = call[c].order /\ call'[c].dest = call[c].dest
      /\ call[c].kind = "route"
      /\ \/ call[c].at = "route-quoting" /\ call'[c].at = "composer-quoted"
         \/ call[c].at = "composer-quoted" /\ call'[c].at = "composer-sending"
      /\ flow' = (IF Live(c) THEN call'[c].at ELSE flow) /\ panel' = (IF Live(c) THEN "busy" ELSE panel)
      /\ UNCHANGED <<open, dest, delta, measured, redeemTx, mode, stage, order, openTx, orderId,
                     tx, shares, wallet, outcome>>
  BY <1>9, MovesIs, ZenonT(60)
     DEF RouteAdvances, NextPhase, formVars, flowVars, stepVars, orderVars, chainVars
<1>2. Typed'
  BY <1>1 DEF Typed, Txs, Flows, BusyStates, Stages, NoTx, NoOrder
<1>3. (\A t \in Txs : TxShape(t))' /\ RefundsPaid'
  BY <1>1, ChainKept DEF Typed
<1>4. (\A d \in Calls : CallShape(d))'
  BY <1>1, TxsAreNumbered DEF Typed, CallShape, Txs, SentPhases, Carries
<1>5. Mounted'
  BY <1>1 DEF Typed, Mounted, Txs, NoTx, NoOrder
<1>6. Watched'
  <2>1. Live(c) => LiveCall("route")'
    BY <1>1 DEF LiveCall, Live
  <2>2. ~Live(c) => Watched'
    BY <1>1, StaysWatched DEF Typed, Live
  <2>3. Live(c) => flow' # "redeeming"
    BY <1>1
  <2> QED
    BY <2>1, <2>2, <2>3 DEF Watched
<1>11. Reported'
  BY <1>1, ReportedKept DEF Typed
<1>7. ASSUME ~freed' PROVE Guarded'
  <2>0. panel' = panel
    BY <1>1, <1>7 DEF Guarded, Held, Spends
  <2>1. Held'
    BY <1>1, <1>7, <2>0 DEF Guarded, Held, Spends, Live, Typed
  <2>2. Paid'
    BY <1>1, <1>7, <2>0 DEF Guarded, Held, Paid, Spends, Live, Typed, OnPanel, ShowsRoute,
       Mounted, Txs
  <2>3. Composed'
    BY <1>1, <1>7, <2>0 DEF Guarded, Held, Composed, Spends, Live, Typed, Txs, CallShape,
       SentPhases
  <2>4. Ordered'
    BY <1>1, <1>7 DEF Guarded, Ordered, Typed, Txs, Carries
  <2>5. Owned'
    BY <1>1, <1>7 DEF Guarded, Owned, Own, Redeems, OrderOf, Typed, Txs
  <2> QED
    BY <2>1, <2>2, <2>3, <2>4, <2>5 DEF Guarded
<1> QED
  BY <1>2, <1>3, <1>4, <1>5, <1>6, <1>7, <1>11

\* A poll shows the phase of the route again: unless the form was freed it is
\* the one on screen.
LEMMA RoutePollsStep ==
    ASSUME IInv, NEW c \in Calls, RoutePolls(c), UNCHANGED <<nonce, freed>>
    PROVE  IInv'
<1> USE NoCallIsFree DEF IInv
<1>1. /\ call[c].kind = "route" /\ call[c].at = "composer-settling"
      /\ flow' = (IF Live(c) THEN "composer-settling" ELSE flow)
      /\ panel' = (IF Live(c) THEN "busy" ELSE panel)
      /\ UNCHANGED <<open, dest, delta, measured, redeemTx, mode, stage, order, openTx, orderId,
                     call, tx, shares, wallet, outcome>>
  BY DEF RoutePolls, ShowPhase, At, formVars, stepVars, orderVars, chainVars
<1>2. Typed'
  BY <1>1 DEF Typed, Txs, Flows, BusyStates
<1>3. (\A t \in Txs : TxShape(t))' /\ RefundsPaid'
  BY <1>1, ChainKept DEF Typed
<1>4. (\A d \in Calls : CallShape(d))' /\ Mounted'
  BY <1>1 DEF CallShape, Mounted, Txs
<1>6. Watched'
  <2>1. Live(c) => LiveCall("route")'
    BY <1>1 DEF LiveCall, Live
  <2>2. ~Live(c) => Watched'
    BY <1>1, StaysWatched DEF Live
  <2>3. Live(c) => flow' # "redeeming"
    BY <1>1
  <2> QED
    BY <2>1, <2>2, <2>3 DEF Watched
<1>11. Reported'
  BY <1>1, ReportedKept DEF Typed
<1>7. ASSUME ~freed' PROVE Guarded'
  <2>1. panel' = panel /\ flow' = flow
    BY <1>1, <1>7 DEF Guarded, Held, Spends
  <2>2. Held' /\ Paid'
    BY <1>1, <1>7, <2>1 DEF Guarded, Held, Paid, Spends, Live, OnPanel, ShowsRoute
  <2>3. Composed'
    BY <1>1, <1>7, <2>1, StaysComposed DEF Guarded
  <2>4. Ordered' /\ Owned'
    BY <1>1, <1>7 DEF Guarded, Ordered, Owned, Own, Redeems, OrderOf, Txs
  <2> QED
    BY <2>2, <2>3, <2>4 DEF Guarded
<1> QED
  BY <1>2, <1>3, <1>4, <1>6, <1>7, <1>11

\* The wallet is on the chain of the vault.
LEMMA OpenCheckedStep ==
    ASSUME IInv, NEW c \in Calls, OpenChecked(c), UNCHANGED <<nonce, freed>>
    PROVE  IInv'
<1> USE NoCallIsFree DEF IInv
<1>9. call[c].kind = "open" /\ "approving" \in Phases /\ call' = [call EXCEPT ![c].at = "approving"]
  BY DEF OpenChecked, Moves, At, Phases
<1>1. /\ call' \in [Calls -> CallRecords \cup {NoCall}] /\ \A d \in Calls \ {c} : call'[d] = call[d]
      /\ call'[c].kind = call[c].kind /\ call'[c].live = call[c].live /\ call'[c].tx = call[c].tx
      /\ call'[c].of = call[c].of /\ call'[c].order = call[c].order /\ call'[c].dest = call[c].dest
      /\ call[c].kind = "open" /\ call[c].at = "checking" /\ call'[c].at = "approving"
      /\ call[c].live = "step" => stage' = "approving" /\ flow' = "intent-open"
      /\ call[c].live # "step" => UNCHANGED <<stage, flow>>
      /\ UNCHANGED <<open, dest, delta, measured, redeemTx, mode, panel, order, openTx, orderId,
                     tx, shares, wallet, outcome>>
  BY <1>9, MovesIs DEF OpenChecked, SetStage, Moves, At, formVars, flowVars, stepVars,
     orderVars, chainVars
<1>8. call[c].live = "step" => stage # "none" /\ delta # 0 /\ (~freed => panel # "busy")
  BY <1>1 DEF CallShape, Mounted, Guarded, Paid, OnPanel
<1>10. stage' = "none" <=> stage = "none"
  BY <1>1, <1>8
<1>2. Typed'
  BY <1>1 DEF Typed, Txs, Flows, BusyStates, Stages, NoTx, NoOrder
<1>3. (\A t \in Txs : TxShape(t))' /\ RefundsPaid'
  BY <1>1, ChainKept DEF Typed
<1>4. (\A d \in Calls : CallShape(d))'
  <2>1. SUFFICES ASSUME NEW d \in Calls PROVE CallShape(d)'
    OBVIOUS
  <2>2. CallShape(d) /\ CallShape(c)
    OBVIOUS
  <2>3. stage' = "none" <=> stage = "none"
    BY <1>10
  <2>4. CASE d # c
    BY <1>1, <2>2, <2>3, <2>4 DEF CallShape, Txs, Typed
  <2>5. CASE d = c
    BY <1>1, <2>2, <2>3, <2>5 DEF CallShape, Txs, SentPhases, Carries
  <2> QED
    BY <2>4, <2>5
<1>5. Mounted'
  BY <1>1, <1>10 DEF Typed, Mounted, Txs, NoTx, NoOrder
<1>6. Watched'
  BY <1>1, StaysWatched DEF Typed, Live
<1>11. Reported'
  BY <1>1, ReportedKept DEF Typed
<1>7. ASSUME ~freed' PROVE Guarded'
  <2>1. Held'
    <3>1. call[c].live = "step" => \A d \in Calls : ~Spends(d)
      BY <1>1, <1>7, <1>8, NotHeldByStep
    <3> QED
      BY <1>1, <1>7, <3>1 DEF Guarded, Held, Spends, Live, SentPhases
  <2>2. Paid'
    BY <1>1, <1>7 DEF Guarded, Held, Paid, Spends, Live, Typed, OnPanel, ShowsRoute,
       Mounted, Txs
  <2>3. Composed'
    BY <1>1, <1>7, StaysComposed DEF Guarded
  <2>4. Ordered'
    BY <1>1, <1>7 DEF Guarded, Ordered, Typed, Txs, Carries
  <2>5. Owned'
    BY <1>1, <1>7 DEF Guarded, Owned, Own, Redeems, OrderOf, Typed, Txs
  <2> QED
    BY <2>1, <2>2, <2>3, <2>4, <2>5 DEF Guarded
<1> QED
  BY <1>2, <1>3, <1>4, <1>5, <1>6, <1>7, <1>11

\* A mined redeem whose proceeds are to be routed.
LEMMA MinedIsMined ==
    ASSUME IInv, NEW c \in Calls, call[c].at = "receipt", Mined(c)
    PROVE  call[c].tx \in Txs /\ tx[call[c].tx].kind = call[c].kind
           /\ (call[c].kind \in {"redeem", "refund"} => tx[call[c].tx].st = "mined")
<1>1. call[c].tx \in Txs /\ tx[call[c].tx].kind = call[c].kind
  BY DEF IInv, CallShape, SentPhases
<1>2. tx[call[c].tx] \in TxRecords /\ TxShape(call[c].tx)
  BY <1>1 DEF IInv, Typed, Txs
<1> QED
  BY <1>1, <1>2 DEF Mined, TxShape, TxRecords

\* The redeem is mined, to be routed.
LEMMA RedeemedToRouteStep ==
    ASSUME IInv, NEW c \in Calls, Redeemed(c), call[c].dest # "same", UNCHANGED <<nonce, freed>>
    PROVE  IInv'
<1> USE NoCallIsFree DEF IInv
<1>9. call[c].kind = "redeem" /\ "post" \in Phases /\ call' = [call EXCEPT ![c].at = "post"]
  BY DEF Redeemed, Moves, At, Phases
<1>1. /\ call' \in [Calls -> CallRecords \cup {NoCall}] /\ \A d \in Calls \ {c} : call'[d] = call[d]
      /\ call'[c].kind = call[c].kind /\ call'[c].live = call[c].live /\ call'[c].tx = call[c].tx
      /\ call'[c].of = call[c].of /\ call'[c].order = call[c].order /\ call'[c].dest = call[c].dest
      /\ call[c].kind = "redeem" /\ call[c].at = "receipt" /\ call'[c].at = "post" /\ Mined(c)
      /\ flow' = flow
      /\ UNCHANGED <<open, dest, delta, measured, redeemTx, mode, panel, stage, order, openTx, orderId,
                     tx, shares, wallet, outcome>>
  BY <1>9, MovesIs DEF Redeemed, Moves, At, formVars, flowVars, stepVars, orderVars,
     chainVars
<1>2. Typed'
  BY <1>1 DEF Typed, Txs, Flows, BusyStates, Stages, NoTx, NoOrder
<1>3. (\A t \in Txs : TxShape(t))' /\ RefundsPaid'
  BY <1>1, ChainKept DEF Typed
<1>4. (\A d \in Calls : CallShape(d))'
  BY <1>1, TxsAreNumbered, MinedIsMined DEF Typed, CallShape, Txs, SentPhases, Carries
<1>5. Mounted'
  BY <1>1 DEF Typed, Mounted, Txs, NoTx, NoOrder
<1>6. Watched'
  BY <1>1, StaysWatched DEF Typed, Live
<1>11. Reported'
  BY <1>1, ReportedKept DEF Typed
<1>7. ASSUME ~freed' PROVE Guarded'
  <2>1. Held'
    BY <1>1, <1>7 DEF Guarded, Held, Spends, Live, Typed, SentPhases
  <2>2. Paid'
    BY <1>1, <1>7 DEF Guarded, Held, Paid, Spends, Live, Typed, OnPanel, ShowsRoute,
       Mounted, Txs
  <2>3. Composed'
    BY <1>1, <1>7, StaysComposed DEF Guarded
  <2>4. Ordered'
    BY <1>1, <1>7 DEF Guarded, Ordered, Typed, Txs, Carries
  <2>5. Owned'
    BY <1>1, <1>7 DEF Guarded, Owned, Own, Redeems, OrderOf, Typed, Txs
  <2> QED
    BY <2>1, <2>2, <2>3, <2>4, <2>5 DEF Guarded
<1> QED
  BY <1>2, <1>3, <1>4, <1>5, <1>6, <1>7, <1>11

\* The redeem is mined and was all that was asked for.
LEMMA RedeemedStep ==
    ASSUME IInv, NEW c \in Calls, Redeemed(c), UNCHANGED <<nonce, freed>>
    PROVE  IInv'
<1>1. CASE call[c].dest # "same"
  BY <1>1, RedeemedToRouteStep
<1>2. CASE call[c].dest = "same"
  <2>1. call[c].kind = "redeem" /\ call[c].at = "receipt" /\ Mined(c) /\ Unmount(Ends(c))
        /\ UNCHANGED <<tx, shares, wallet>>
        /\ outcome' = IF Live(c) THEN [how |-> "redeemed-only", of |-> call[c].tx, by |-> 0] ELSE outcome
    BY <1>2 DEF Redeemed, At, Complete, chainVars
  <2>2. call[c].tx \in Txs /\ tx[call[c].tx].kind = "redeem" /\ tx[call[c].tx].st = "mined"
    BY <2>1, MinedIsMined
  <2>3. call[c].tx \in Nat
    BY <2>2 DEF IInv, Typed, Txs
  <2>4. outcome' \in Outcomes
    BY <2>1, <2>3 DEF IInv, Typed, Outcomes
  <2>5. Real(outcome') /\ (~freed => Own(outcome'))
    BY <2>1, <2>2 DEF Real, Own, Redeems, IInv, Reported, Guarded, Owned
  <2> QED
    BY <2>1, <2>4, <2>5, UnmountStep
<1> QED
  BY <1>1, <1>2

\* The route has arrived.
LEMMA RouteArrivesStep ==
    ASSUME IInv, NEW c \in Calls, RouteArrives(c), UNCHANGED <<nonce, freed>>
    PROVE  IInv'
<1>1. call[c].kind = "route" /\ call[c].at = "composer-settling" /\ Unmount(Ends(c))
      /\ UNCHANGED <<tx, shares, wallet>>
      /\ tx[call[c].tx].st = (IF call[c].dest = "chain" THEN "delivered" ELSE "mined")
      /\ outcome' = IF Live(c) THEN [how |-> "composer", of |-> call[c].of, by |-> call[c].tx] ELSE outcome
  BY DEF RouteArrives, At, Complete, chainVars
<1>2. call[c].tx \in Txs /\ tx[call[c].tx].kind = "route" /\ tx[call[c].tx].of = call[c].of
      /\ tx[call[c].tx].dest = call[c].dest
  BY <1>1 DEF IInv, CallShape, SentPhases
<1>3. call[c].of \in Nat /\ call[c].tx \in Nat
  BY <1>1, NoCallIsFree DEF IInv, Typed, CallRecords
<1>4. outcome' \in Outcomes
  BY <1>1, <1>3 DEF IInv, Typed, Outcomes
<1>5. Real(outcome')
  BY <1>1, <1>2 DEF Real, Arrived, IInv, Reported
<1>6. ASSUME ~freed PROVE Own(outcome')
  <2>1. Redeems(call[c].of)
    BY <1>1, <1>6 DEF IInv, Guarded, Composed, Redeems
  <2> QED
    BY <1>1, <1>2, <1>6, <2>1 DEF Own, IInv, Guarded, Owned
<1> QED
  BY <1>1, <1>4, <1>5, <1>6, UnmountStep

-----------------------------------------------------------------------------
(***************************************************************************)
(* Calls that end                                                          *)
(***************************************************************************)

\* What is known of the routes survives the end of a call that is none.
LEMMA EndsComposed ==
    ASSUME Typed, Composed, NEW c \in Calls, call[c].kind # "route", call' = Ends(c),
           UNCHANGED <<tx, redeemTx, delta, panel>>
    PROVE  Composed'
<1>1. \A d \in Calls : call[d].kind = "route" \/ call'[d].kind = "route" => call'[d] = call[d]
  BY NoCallIsFree DEF Typed, Ends
<1> QED
  BY <1>1, StaysComposed

\* What is known of the orders survives the end of a call.
LEMMA EndsOrdered ==
    ASSUME Typed, Ordered, NEW c \in Calls, call' = Ends(c),
           UNCHANGED <<tx, order, orderId, openTx, redeemTx>>
    PROVE  Ordered'
BY NoCallIsFree DEF Typed, Ordered, Ends, Txs, Carries

\* The redeem fails.
LEMMA RedeemFailsStep ==
    ASSUME IInv, NEW c \in Calls, RedeemFails(c), UNCHANGED <<nonce, freed>>
    PROVE  IInv'
<1> USE NoCallIsFree DEF IInv
<1>1. /\ call' = Ends(c) /\ call' \in [Calls -> CallRecords \cup {NoCall}]
      /\ call'[c] = NoCall /\ \A d \in Calls \ {c} : call'[d] = call[d]
      /\ call[c].kind = "redeem" /\ flow' = IF Live(c) THEN "error" ELSE flow
      /\ UNCHANGED <<open, dest, delta, measured, redeemTx, mode, panel, stage, order, openTx, orderId,
                     tx, shares, wallet, outcome>>
  BY DEF RedeemFails, At, Ends, Typed, formVars, flowVars, stepVars, orderVars, chainVars
<1>2. Typed'
  BY <1>1 DEF Typed, Txs, Flows, BusyStates, Stages, NoTx, NoOrder
<1>3. (\A t \in Txs : TxShape(t))' /\ RefundsPaid'
  BY <1>1, ChainKept DEF Typed
<1>4. (\A d \in Calls : CallShape(d))'
  BY <1>1, TxsAreNumbered DEF Typed, CallShape, Txs, SentPhases, Carries
<1>5. Mounted'
  BY <1>1 DEF Typed, Mounted, Txs, NoTx, NoOrder
<1>6. Watched'
  BY <1>1, StaysWatched DEF Typed, Live
<1>11. Reported'
  BY <1>1, ReportedKept DEF Typed
<1>7. ASSUME ~freed' PROVE Guarded'
  <2>1. Held'
    BY <1>1, <1>7 DEF Guarded, Held, Spends, Live, Typed
  <2>2. Paid'
    BY <1>1, <1>7 DEF Guarded, Held, Paid, Spends, Live, Typed, OnPanel, ShowsRoute,
       Mounted, Txs
  <2>3. Composed'
    BY <1>1, <1>7, EndsComposed DEF Guarded
  <2>4. Ordered'
    BY <1>1, <1>7, EndsOrdered DEF Guarded
  <2>5. Owned'
    BY <1>1, <1>7 DEF Guarded, Owned, Own, Redeems, OrderOf, Typed, Txs
  <2> QED
    BY <2>1, <2>2, <2>3, <2>4, <2>5 DEF Guarded
<1> QED
  BY <1>2, <1>3, <1>4, <1>5, <1>6, <1>7, <1>11

\* The growth of the balance cannot be told.
LEMMA MeasureFailsStep ==
    ASSUME IInv, NEW c \in Calls, MeasureFails(c), UNCHANGED <<nonce, freed>>
    PROVE  IInv'
<1> USE NoCallIsFree DEF IInv
<1>1. /\ call' = Ends(c) /\ call' \in [Calls -> CallRecords \cup {NoCall}]
      /\ call'[c] = NoCall /\ \A d \in Calls \ {c} : call'[d] = call[d]
      /\ call[c].kind = "redeem" /\ flow' = IF Live(c) THEN "redeemed" ELSE flow
      /\ UNCHANGED <<open, dest, delta, measured, redeemTx, mode, panel, stage, order, openTx, orderId,
                     tx, shares, wallet, outcome>>
  BY DEF MeasureFails, At, Ends, Typed, formVars, flowVars, stepVars, orderVars, chainVars
<1>2. Typed'
  BY <1>1 DEF Typed, Txs, Flows, BusyStates, Stages, NoTx, NoOrder
<1>3. (\A t \in Txs : TxShape(t))' /\ RefundsPaid'
  BY <1>1, ChainKept DEF Typed
<1>4. (\A d \in Calls : CallShape(d))'
  BY <1>1, TxsAreNumbered DEF Typed, CallShape, Txs, SentPhases, Carries
<1>5. Mounted'
  BY <1>1 DEF Typed, Mounted, Txs, NoTx, NoOrder
<1>6. Watched'
  BY <1>1, StaysWatched DEF Typed, Live
<1>11. Reported'
  BY <1>1, ReportedKept DEF Typed
<1>7. ASSUME ~freed' PROVE Guarded'
  <2>1. Held'
    BY <1>1, <1>7 DEF Guarded, Held, Spends, Live, Typed
  <2>2. Paid'
    BY <1>1, <1>7 DEF Guarded, Held, Paid, Spends, Live, Typed, OnPanel, ShowsRoute,
       Mounted, Txs
  <2>3. Composed'
    BY <1>1, <1>7, EndsComposed DEF Guarded
  <2>4. Ordered'
    BY <1>1, <1>7, EndsOrdered DEF Guarded
  <2>5. Owned'
    BY <1>1, <1>7 DEF Guarded, Owned, Own, Redeems, OrderOf, Typed, Txs
  <2> QED
    BY <2>1, <2>2, <2>3, <2>4, <2>5 DEF Guarded
<1> QED
  BY <1>2, <1>3, <1>4, <1>5, <1>6, <1>7, <1>11

\* The route fails: it is offered again only if it was not broadcast.
LEMMA RouteFailsStep ==
    ASSUME IInv, NEW c \in Calls, RouteFails(c), UNCHANGED <<nonce, freed>>
    PROVE  IInv'
<1> USE NoCallIsFree DEF IInv
<1>1. /\ call' = Ends(c) /\ call' \in [Calls -> CallRecords \cup {NoCall}]
      /\ call'[c] = NoCall /\ \A d \in Calls \ {c} : call'[d] = call[d]
      /\ call[c].kind = "route"
      /\ ~Live(c) => UNCHANGED <<panel, flow>>
      /\ Live(c) /\ call[c].tx = NoTx => panel' = "failed" /\ flow' = "redeemed"
      /\ Live(c) /\ call[c].tx # NoTx => panel' = "stuck" /\ flow' = "error"
      /\ UNCHANGED <<open, dest, delta, measured, redeemTx, mode, stage, order, openTx, orderId,
                     tx, shares, wallet, outcome>>
  BY DEF RouteFails, Ends, Typed, formVars, flowVars, stepVars, orderVars, chainVars
<1>2. Typed'
  BY <1>1 DEF Typed, Txs, Flows, BusyStates, Stages, NoTx, NoOrder
<1>3. (\A t \in Txs : TxShape(t))' /\ RefundsPaid'
  BY <1>1, ChainKept DEF Typed
<1>4. (\A d \in Calls : CallShape(d))'
  BY <1>1, TxsAreNumbered DEF Typed, CallShape, Txs, SentPhases, Carries
<1>5. Mounted'
  BY <1>1 DEF Typed, Mounted, Txs, NoTx, NoOrder
<1>6. Watched'
  BY <1>1, StaysWatched DEF Typed, Live
<1>11. Reported'
  BY <1>1, ReportedKept DEF Typed
<1>7. ASSUME ~freed' PROVE Guarded'
  <2>1. Held'
    BY <1>1, <1>7 DEF Guarded, Held, Spends, Live, Typed
  <2>2. Paid'
    BY <1>1, <1>7 DEF Guarded, Held, Paid, Spends, Live, Typed, OnPanel, ShowsRoute,
       Mounted, Txs
  <2>3. Composed'
    BY <1>1, <1>7, SMTT(30)
       DEF Guarded, Held, Composed, Spends, Live, Typed, Txs, CallShape, SentPhases
  <2>4. Ordered'
    BY <1>1, <1>7, EndsOrdered DEF Guarded
  <2>5. Owned'
    BY <1>1, <1>7 DEF Guarded, Owned, Own, Redeems, OrderOf, Typed, Txs
  <2> QED
    BY <2>1, <2>2, <2>3, <2>4, <2>5 DEF Guarded
<1> QED
  BY <1>2, <1>3, <1>4, <1>5, <1>6, <1>7, <1>11

\* A quote, an opening or a refund fails.
LEMMA StepFailsStep ==
    ASSUME IInv, NEW c \in Calls, StepFails(c), UNCHANGED <<nonce, freed>>
    PROVE  IInv'
<1> USE NoCallIsFree DEF IInv
<1>1. /\ call' = Ends(c) /\ call' \in [Calls -> CallRecords \cup {NoCall}]
      /\ call'[c] = NoCall /\ \A d \in Calls \ {c} : call'[d] = call[d]
      /\ call[c].kind \in {"quote", "open", "refund"}
      /\ call[c].live = "step" => stage' = "failed" /\ flow' = "redeemed"
      /\ call[c].live # "step" => UNCHANGED <<stage, flow>>
      /\ UNCHANGED <<open, dest, delta, measured, redeemTx, mode, panel, order, openTx, orderId,
                     tx, shares, wallet, outcome>>
  BY DEF StepFails, SetStage, Ends, Typed, formVars, flowVars, stepVars, orderVars,
     chainVars
<1>8. call[c].live = "step" => stage # "none" /\ delta # 0 /\ (~freed => panel # "busy")
  BY DEF CallShape, Mounted, Guarded, Paid, OnPanel
<1>10. stage' = "none" <=> stage = "none"
  BY <1>1, <1>8
<1>2. Typed'
  BY <1>1 DEF Typed, Txs, Flows, BusyStates, Stages, NoTx, NoOrder
<1>3. (\A t \in Txs : TxShape(t))' /\ RefundsPaid'
  BY <1>1, ChainKept DEF Typed
<1>4. (\A d \in Calls : CallShape(d))'
  <2>1. SUFFICES ASSUME NEW d \in Calls PROVE CallShape(d)'
    OBVIOUS
  <2>2. CallShape(d) /\ CallShape(c)
    OBVIOUS
  <2>3. stage' = "none" <=> stage = "none"
    BY <1>10
  <2>4. CASE d # c
    BY <1>1, <2>2, <2>3, <2>4 DEF CallShape, Txs, Typed
  <2>5. CASE d = c
    BY <1>1, <2>2, <2>3, <2>5 DEF CallShape, Txs, SentPhases, Carries
  <2> QED
    BY <2>4, <2>5
<1>5. Mounted'
  BY <1>1, <1>10 DEF Typed, Mounted, Txs, NoTx, NoOrder
<1>6. Watched'
  BY <1>1, StaysWatched DEF Typed, Live
<1>11. Reported'
  BY <1>1, ReportedKept DEF Typed
<1>7. ASSUME ~freed' PROVE Guarded'
  <2>1. Held'
    <3>1. call[c].live = "step" => \A d \in Calls : ~Spends(d)
      BY <1>7, <1>8, NotHeldByStep
    <3> QED
      BY <1>1, <1>7, <3>1 DEF Guarded, Held, Spends, Live
  <2>2. Paid'
    BY <1>1, <1>7 DEF Guarded, Held, Paid, Spends, Live, Typed, OnPanel, ShowsRoute,
       Mounted, Txs
  <2>3. Composed'
    BY <1>1, <1>7, EndsComposed DEF Guarded
  <2>4. Ordered'
    BY <1>1, <1>7, EndsOrdered DEF Guarded
  <2>5. Owned'
    BY <1>1, <1>7 DEF Guarded, Owned, Own, Redeems, OrderOf, Typed, Txs
  <2> QED
    BY <2>1, <2>2, <2>3, <2>4, <2>5 DEF Guarded
<1> QED
  BY <1>2, <1>3, <1>4, <1>5, <1>6, <1>7, <1>11

\* The quote arrives, and an order with a nonce of its own is built.
LEMMA QuotedStep ==
    ASSUME IInv, NEW c \in Calls, Quoted(c), freed' = freed
    PROVE  IInv'
<1> USE NoCallIsFree DEF IInv
<1>1. /\ call' = Ends(c) /\ call' \in [Calls -> CallRecords \cup {NoCall}]
      /\ call'[c] = NoCall /\ \A d \in Calls \ {c} : call'[d] = call[d]
      /\ call[c].kind = "quote" /\ nonce' = nonce + 1
      /\ order' = (IF call[c].live = "step" THEN nonce' ELSE order)
      /\ call[c].live = "step" => stage' = "quoted" /\ flow' = "intent-quoted"
      /\ call[c].live # "step" => UNCHANGED <<stage, flow>>
      /\ UNCHANGED <<open, dest, delta, measured, redeemTx, mode, panel, openTx, orderId,
                     tx, shares, wallet, outcome>>
  BY DEF Quoted, SetStage, At, Ends, Typed, formVars, flowVars, stepVars, orderVars,
     chainVars
<1>8. call[c].live = "step" => stage # "none" /\ delta # 0 /\ (~freed => panel # "busy")
  BY DEF CallShape, Mounted, Guarded, Paid, OnPanel
<1>10. stage' = "none" <=> stage = "none"
  BY <1>1, <1>8
<1>2. Typed'
  BY <1>1 DEF Typed, Txs, Flows, BusyStates, Stages, NoTx, NoOrder
<1>3. (\A t \in Txs : TxShape(t))' /\ RefundsPaid'
  BY <1>1, ChainKept DEF Typed
<1>4. (\A d \in Calls : CallShape(d))'
  <2>1. SUFFICES ASSUME NEW d \in Calls PROVE CallShape(d)'
    OBVIOUS
  <2>2. CallShape(d) /\ CallShape(c)
    OBVIOUS
  <2>3. stage' = "none" <=> stage = "none"
    BY <1>10
  <2>4. CASE d # c
    BY <1>1, <2>2, <2>3, <2>4 DEF CallShape, Txs, Typed
  <2>5. CASE d = c
    BY <1>1, <2>2, <2>3, <2>5 DEF CallShape, Txs, SentPhases, Carries
  <2> QED
    BY <2>4, <2>5
<1>5. Mounted'
  BY <1>1, <1>10 DEF Typed, Mounted, Txs, NoTx, NoOrder
<1>6. Watched'
  BY <1>1, StaysWatched DEF Typed, Live
<1>11. Reported'
  BY <1>1, ReportedKept DEF Typed
<1>7. ASSUME ~freed' PROVE Guarded'
  <2>1. Held'
    <3>1. call[c].live = "step" => \A d \in Calls : ~Spends(d)
      BY <1>7, <1>8, NotHeldByStep
    <3> QED
      BY <1>1, <1>7, <3>1 DEF Guarded, Held, Spends, Live
  <2>2. Paid'
    BY <1>1, <1>7 DEF Guarded, Held, Paid, Spends, Live, Typed, OnPanel, ShowsRoute,
       Mounted, Txs
  <2>3. Composed'
    BY <1>1, <1>7, EndsComposed DEF Guarded
  <2>4. Ordered'
    <3>1. \A d \in Calls : call'[d].kind \in Carries => call'[d] = call[d] /\ call[d].order \in 1..nonce
      BY <1>1 DEF CallShape, Carries
    <3>2. \A t \in Txs : tx[t].kind \in Carries => tx[t].order \in 1..nonce
      BY DEF TxShape
    <3>3. nonce \in Nat /\ (order' = order \/ order' = nonce + 1)
      BY <1>1 DEF Typed
    <3>4. \A n \in 1..nonce : n \in {order', orderId} => n \in {order, orderId}
      BY <3>3
    <3> QED
      BY <1>1, <1>7, <3>1, <3>2, <3>4 DEF Guarded, Ordered, Txs
  <2>5. Owned'
    BY <1>1, <1>7 DEF Guarded, Owned, Own, Redeems, OrderOf, Typed, Txs
  <2> QED
    BY <2>1, <2>2, <2>3, <2>4, <2>5 DEF Guarded
<1> QED
  BY <1>2, <1>3, <1>4, <1>5, <1>6, <1>7, <1>11

\* The order is open.
LEMMA OpenedStep ==
    ASSUME IInv, NEW c \in Calls, Opened(c), UNCHANGED <<nonce, freed>>
    PROVE  IInv'
<1> USE NoCallIsFree DEF IInv
<1>1. /\ call' = Ends(c) /\ call' \in [Calls -> CallRecords \cup {NoCall}]
      /\ call'[c] = NoCall /\ \A d \in Calls \ {c} : call'[d] = call[d]
      /\ call[c].kind = "open" /\ Mined(c) /\ call[c].at = "receipt"
      /\ orderId' = (IF call[c].live = "step" THEN call[c].order ELSE orderId)
      /\ call[c].live = "step" => stage' = "open" /\ flow' = "intent-open"
      /\ call[c].live # "step" => UNCHANGED <<stage, flow>>
      /\ UNCHANGED <<open, dest, delta, measured, redeemTx, mode, panel, order, openTx,
                     tx, shares, wallet, outcome>>
  BY DEF Opened, SetStage, At, Ends, Typed, formVars, flowVars, stepVars, orderVars,
     chainVars
<1>8. call[c].live = "step" => stage # "none" /\ delta # 0 /\ (~freed => panel # "busy")
  BY DEF CallShape, Mounted, Guarded, Paid, OnPanel
<1>10. stage' = "none" <=> stage = "none"
  BY <1>1, <1>8
<1>2. Typed'
  BY <1>1 DEF Typed, Txs, Flows, BusyStates, Stages, NoTx, NoOrder, CallShape, Carries
<1>3. (\A t \in Txs : TxShape(t))' /\ RefundsPaid'
  BY <1>1, ChainKept DEF Typed
<1>4. (\A d \in Calls : CallShape(d))'
  <2>1. SUFFICES ASSUME NEW d \in Calls PROVE CallShape(d)'
    OBVIOUS
  <2>2. CallShape(d) /\ CallShape(c)
    OBVIOUS
  <2>3. stage' = "none" <=> stage = "none"
    BY <1>10
  <2>4. CASE d # c
    BY <1>1, <2>2, <2>3, <2>4 DEF CallShape, Txs, Typed
  <2>5. CASE d = c
    BY <1>1, <2>2, <2>3, <2>5 DEF CallShape, Txs, SentPhases, Carries
  <2> QED
    BY <2>4, <2>5
<1>5. Mounted'
  BY <1>1, <1>10 DEF Typed, Mounted, Txs, NoTx, NoOrder
<1>6. Watched'
  BY <1>1, StaysWatched DEF Typed, Live
<1>11. Reported'
  BY <1>1, ReportedKept DEF Typed
<1>7. ASSUME ~freed' PROVE Guarded'
  <2>1. Held'
    <3>1. call[c].live = "step" => \A d \in Calls : ~Spends(d)
      BY <1>7, <1>8, NotHeldByStep
    <3> QED
      BY <1>1, <1>7, <3>1 DEF Guarded, Held, Spends, Live
  <2>2. Paid'
    BY <1>1, <1>7 DEF Guarded, Held, Paid, Spends, Live, Typed, OnPanel, ShowsRoute,
       Mounted, Txs
  <2>3. Composed'
    BY <1>1, <1>7, EndsComposed DEF Guarded
  <2>4. Ordered'
    BY <1>1, <1>7, SMTT(30) DEF Guarded, Ordered, Typed, Txs, Carries
  <2>5. Owned'
    BY <1>1, <1>7 DEF Guarded, Owned, Own, Redeems, OrderOf, Typed, Txs
  <2> QED
    BY <2>1, <2>2, <2>3, <2>4, <2>5 DEF Guarded
<1> QED
  BY <1>2, <1>3, <1>4, <1>5, <1>6, <1>7, <1>11

\* The refund is mined; its flow hears of it even when its step is gone.
LEMMA RefundedStep ==
    ASSUME IInv, NEW c \in Calls, Refunded(c), nonce' = nonce
    PROVE  IInv'
<1> USE NoCallIsFree DEF IInv
<1>1. /\ call' = Ends(c) /\ call' \in [Calls -> CallRecords \cup {NoCall}]
      /\ call'[c] = NoCall /\ \A d \in Calls \ {c} : call'[d] = call[d]
      /\ call[c].kind = "refund" /\ Mined(c) /\ call[c].at = "receipt"
      /\ stage' = (IF call[c].live = "step" THEN "refunded" ELSE stage)
      /\ flow' = (IF Live(c) THEN "redeemed" ELSE flow)
      /\ freed' = (freed \/ (call[c].live = "flow" /\ Busy))
      /\ UNCHANGED <<open, dest, delta, measured, redeemTx, mode, panel, order, openTx, orderId,
                     tx, shares, wallet, outcome>>
  BY DEF Refunded, At, Ends, Typed, formVars, flowVars, stepVars, orderVars, chainVars
<1>8. call[c].live = "step" => stage # "none" /\ delta # 0 /\ (~freed => panel # "busy")
  BY DEF CallShape, Mounted, Guarded, Paid, OnPanel
<1>10. stage' = "none" <=> stage = "none"
  BY <1>1, <1>8
<1>2. Typed'
  BY <1>1 DEF Typed, Txs, Flows, BusyStates, Stages, NoTx, NoOrder
<1>3. (\A t \in Txs : TxShape(t))' /\ RefundsPaid'
  BY <1>1, ChainKept DEF Typed
<1>4. (\A d \in Calls : CallShape(d))'
  <2>1. SUFFICES ASSUME NEW d \in Calls PROVE CallShape(d)'
    OBVIOUS
  <2>2. CallShape(d) /\ CallShape(c)
    OBVIOUS
  <2>3. stage' = "none" <=> stage = "none"
    BY <1>10
  <2>4. CASE d # c
    BY <1>1, <2>2, <2>3, <2>4 DEF CallShape, Txs, Typed
  <2>5. CASE d = c
    BY <1>1, <2>2, <2>3, <2>5 DEF CallShape, Txs, SentPhases, Carries
  <2> QED
    BY <2>4, <2>5
<1>5. Mounted'
  BY <1>1, <1>10 DEF Typed, Mounted, Txs, NoTx, NoOrder
<1>6. Watched'
  BY <1>1, StaysWatched DEF Typed, Live
<1>11. Reported'
  <2>1. CASE call[c].live = "step"
    <3>1. PICK u \in Txs : tx[u].kind = "open" /\ tx[u].order = tx[call[c].tx].order /\ tx[u].st = "refunded"
      BY <1>1, MinedIsMined DEF RefundsPaid
    <3>2. PICK n \in 1..nonce : tx[call[c].tx].order = n
      BY <1>1 DEF CallShape, SentPhases, Carries
    <3>3. n \in 1..nonce' /\ OrderIs(n, "refunded")'
      BY <1>1, <3>1, <3>2 DEF OrderIs, Txs
    <3>4. Real(outcome)'
      BY <1>1 DEF Reported, Real, Redeems, Arrived, OrderIs, Txs
    <3> QED
      BY <3>3, <3>4 DEF Reported
  <2>2. CASE call[c].live # "step"
    BY <1>1, <2>2, ReportedKept DEF Typed
  <2> QED
    BY <2>1, <2>2
<1>7. ASSUME ~freed' PROVE Guarded'
  <2>1. Held'
    <3>1. call[c].live = "step" => \A d \in Calls : ~Spends(d)
      BY <1>1, <1>7, <1>8, NotHeldByStep
    <3>2. call[c].live = "flow" => \A d \in Calls : ~Spends(d)
      BY <1>1, <1>7, NotHeld
    <3>3. call[c].live \in {"step", "flow", "gone"}
      BY <1>1, NoCallIsFree DEF Typed, CallRecords
    <3>4. CASE Live(c)
      <4>1. \A d \in Calls : ~Spends(d)
        BY <3>1, <3>2, <3>3, <3>4 DEF Live
      <4> QED
        BY <1>1, <4>1 DEF Held, Spends, Live
    <3>5. CASE ~Live(c)
      <4>1. ~freed /\ flow' = flow
        BY <1>1, <1>7, <3>5
      <4>2. \A d \in Calls : Spends(d)' => call'[d] = call[d] /\ Spends(d)
        BY <1>1 DEF Spends, Live
      <4> QED
        BY <1>1, <4>1, <4>2 DEF Guarded, Held
    <3> QED
      BY <3>4, <3>5
  <2>2. Paid'
    BY <1>1, <1>7 DEF Guarded, Held, Paid, Spends, Live, Typed, OnPanel, ShowsRoute,
       Mounted, Txs
  <2>3. Composed'
    BY <1>1, <1>7, EndsComposed DEF Guarded
  <2>4. Ordered'
    BY <1>1, <1>7, EndsOrdered DEF Guarded
  <2>5. Owned'
    <3>1. CASE call[c].live = "step"
      <4>1. call[c].tx \in Txs /\ tx[call[c].tx].kind = "refund" /\ tx[call[c].tx].st = "mined"
        BY <1>1, MinedIsMined
      <4>2. PICK u \in Txs : tx[u].kind = "open" /\ tx[u].order = tx[call[c].tx].order /\ tx[u].st = "refunded"
        BY <4>1 DEF RefundsPaid
      <4>3. tx[call[c].tx].order = call[c].order
        BY <1>1 DEF CallShape, SentPhases
      <4>4. tx[u].of = redeemTx
        BY <1>1, <1>7, <3>1, <4>2, <4>3 DEF Guarded, Ordered, Carries
      <4> QED
        BY <1>1, <1>7, <4>2, <4>4 DEF Guarded, Owned, Own, Redeems, OrderOf, Txs
    <3>2. CASE call[c].live # "step"
      BY <1>1, <1>7, <3>2 DEF Guarded, Owned, Own, Redeems, OrderOf, Txs
    <3> QED
      BY <3>1, <3>2
  <2> QED
    BY <2>1, <2>2, <2>3, <2>4, <2>5 DEF Guarded
<1> QED
  BY <1>2, <1>3, <1>4, <1>5, <1>6, <1>7, <1>11

\* The growth of the balance is measured, and the intent step appears.
LEMMA MeasureStep ==
    ASSUME IInv, NEW c \in Calls, Measure(c), UNCHANGED <<nonce, freed>>
    PROVE  IInv'
<1> USE NoCallIsFree DEF IInv
<1>1. /\ call' = Ends(c) /\ call' \in [Calls -> CallRecords \cup {NoCall}]
      /\ call'[c] = NoCall /\ \A d \in Calls \ {c} : call'[d] = call[d]
      /\ call[c].kind = "redeem" /\ call[c].at = "post" /\ wallet > call[c].pre
      /\ ~Live(c) => UNCHANGED <<delta, measured, mode, panel, flow, stage, order, openTx, orderId>>
      /\ Live(c) => /\ delta' = wallet - call[c].pre /\ measured' = call[c].tx
                    /\ mode' = "intent" /\ panel' = "idle" /\ flow' = "redeemed"
                    /\ \/ /\ order' = NoOrder /\ openTx' = NoTx /\ orderId' = NoOrder
                          /\ stage' = IF dest # "same" THEN "idle" ELSE "none"
                       \/ dest # "same" /\ stage # "none" /\ UNCHANGED <<stage, order, openTx, orderId>>
      /\ UNCHANGED <<open, dest, redeemTx, tx, shares, wallet, outcome>>
  BY DEF Measure, FreshStep, NoStep, At, Ends, Typed, formVars, flowVars, stepVars,
     orderVars, chainVars
<1>8. delta' \in Nat /\ (Live(c) => delta' # 0 /\ open)
  <2>1. wallet \in Nat /\ call[c].pre \in Nat
    BY <1>1, NoCallIsFree DEF Typed, CallRecords
  <2>2. Live(c) => open
    BY DEF CallShape, Live
  <2> QED
    BY <1>1, <2>1, <2>2 DEF Typed
<1>9. call[c].tx \in Txs
  BY <1>1 DEF CallShape, SentPhases
<1>2. Typed'
  BY <1>1, <1>8, <1>9 DEF Typed, Txs, Flows, BusyStates, Stages, NoTx, NoOrder
<1>3. (\A t \in Txs : TxShape(t))' /\ RefundsPaid'
  BY <1>1, ChainKept DEF Typed
<1>4. (\A d \in Calls : CallShape(d))'
  BY <1>1, TxsAreNumbered DEF Typed, CallShape, Txs, SentPhases, Carries, Mounted
<1>5. Mounted'
  BY <1>1, <1>8 DEF Typed, Mounted, Txs, NoTx, NoOrder
<1>6. Watched'
  BY <1>1, StaysWatched DEF Typed, Live
<1>11. Reported'
  BY <1>1, ReportedKept DEF Typed
<1>7. ASSUME ~freed' PROVE Guarded'
  <2>1. Held'
    <3>1. CASE Live(c)
      BY <1>1, <1>7, <3>1 DEF Guarded, Held, Spends, Live
    <3>2. CASE ~Live(c)
      BY <1>1, <1>7, <3>2 DEF Guarded, Held, Spends, Live
    <3> QED
      BY <3>1, <3>2
  <2>2. Paid'
    <3>1. CASE Live(c)
      <4>1. call[c].tx = redeemTx /\ call[c].dest = dest
        BY <1>1, <1>7, <3>1 DEF Guarded, Held, Spends, SentPhases
      <4>2. redeemTx \in Txs /\ tx[redeemTx].st = "mined" /\ dest # "same"
        BY <1>1, <4>1 DEF CallShape, SentPhases
      <4> QED
        BY <1>1, <3>1, <4>1, <4>2, TxsAreNumbered DEF Paid, Txs
    <3>2. CASE ~Live(c)
      BY <1>1, <1>7, <3>2 DEF Guarded, Paid, OnPanel, ShowsRoute
    <3> QED
      BY <3>1, <3>2
  <2>3. Composed'
    <3>1. CASE Live(c)
      <4>1. delta = 0 /\ \A d \in Calls : Spends(d) => d = c
        BY <1>1, <1>7, <3>1 DEF Guarded, Held, Spends
      <4>2. \A t \in Txs : tx[t].kind = "route" => tx[t].of # redeemTx
        BY <1>7, <1>1, <4>1 DEF Guarded, Composed
      <4>3. \A d \in Calls : call[d].kind = "route" \/ call'[d].kind = "route" => call'[d] = call[d]
        BY <1>1
      <4> QED
        BY <1>1, <1>7, <4>2, <4>3 DEF Guarded, Composed, Live, Txs
    <3>2. CASE ~Live(c)
      BY <1>1, <1>7, <3>2, EndsComposed DEF Guarded
    <3> QED
      BY <3>1, <3>2
  <2>4. Ordered'
    <3>1. CASE Live(c)
      <4>1. stage = "none"
        BY <1>1, <1>7, <3>1 DEF Guarded, Held, Spends, Mounted
      <4>2. order = NoOrder /\ orderId = NoOrder /\ openTx = NoTx
        BY <4>1 DEF Mounted
      <4> QED
        BY <1>1, <1>7, <3>1, <4>2, EndsOrdered DEF Guarded
    <3>2. CASE ~Live(c)
      BY <1>1, <1>7, <3>2, EndsOrdered DEF Guarded
    <3> QED
      BY <3>1, <3>2
  <2>5. Owned'
    BY <1>1, <1>7 DEF Guarded, Owned, Own, Redeems, OrderOf, Typed, Txs
  <2> QED
    BY <2>1, <2>2, <2>3, <2>4, <2>5 DEF Guarded
<1> QED
  BY <1>2, <1>3, <1>4, <1>5, <1>6, <1>7, <1>11

-----------------------------------------------------------------------------
(***************************************************************************)
(* Transactions                                                            *)
(***************************************************************************)

\* A broadcast adds a pending transaction with what the call was started with.
LEMMA BroadcastIs ==
    ASSUME IInv, NEW c \in Calls, NEW kind \in {"redeem", "route", "open", "refund"}, NEW at \in SentPhases,
           call[c].kind = kind, Broadcast(c, kind, at)
    PROVE  /\ tx' \in Seq(TxRecords) /\ Len(tx') \in Nat /\ Len(tx') # NoTx
           /\ Len(tx') \notin Txs /\ Txs' = Txs \cup {Len(tx')}
           /\ \A t \in Txs : tx'[t] = tx[t]
           /\ tx'[Len(tx')].kind = kind /\ tx'[Len(tx')].st = "pending"
           /\ tx'[Len(tx')].of = call[c].of /\ tx'[Len(tx')].order = call[c].order
           /\ kind = "route" => tx'[Len(tx')].dest = call[c].dest
           /\ call' \in [Calls -> CallRecords \cup {NoCall}] /\ \A d \in Calls \ {c} : call'[d] = call[d]
           /\ call'[c].at = at /\ call'[c].kind = kind /\ call'[c].live = call[c].live
           /\ call'[c].of = call[c].of /\ call'[c].order = call[c].order /\ call'[c].dest = call[c].dest
           /\ call'[c].tx = Len(tx')
           /\ shares' = shares /\ wallet' = wallet
<1> DEFINE r == [kind |-> kind, st |-> "pending", amt |-> call[c].amt, of |-> call[c].of, order |-> call[c].order,
                 dest |-> IF kind = "route" THEN call[c].dest ELSE "same"]
<1>1. call[c] \in CallRecords /\ tx \in Seq(TxRecords)
  BY NoCallIsFree DEF IInv, Typed
<1>2. r \in TxRecords
  BY <1>1 DEF CallRecords, TxRecords, Destinations
<1>3. tx' = Append(tx, r) /\ call' = [call EXCEPT ![c].at = at, ![c].tx = Len(tx')]
      /\ shares' = shares /\ wallet' = wallet
  BY DEF Broadcast
<1> HIDE DEF r
<1>4. /\ tx' \in Seq(TxRecords) /\ Len(tx') = Len(tx) + 1 /\ Len(tx) \in Nat
      /\ tx'[Len(tx')] = r /\ \A t \in 1..Len(tx) : tx'[t] = tx[t]
  BY <1>1, <1>2, <1>3
<1>5. Txs = 1..Len(tx) /\ Txs' = 1..Len(tx')
  BY <1>1, <1>4 DEF Txs
<1>6. call'[c] = [call[c] EXCEPT !.at = at, !.tx = Len(tx')] /\ \A d \in Calls \ {c} : call'[d] = call[d]
  BY <1>3 DEF IInv, Typed
<1>7. at \in Phases
  BY DEF SentPhases, Phases
<1>8. /\ call'[c] \in CallRecords
      /\ call'[c].at = at /\ call'[c].kind = kind /\ call'[c].live = call[c].live
      /\ call'[c].of = call[c].of /\ call'[c].order = call[c].order /\ call'[c].dest = call[c].dest
      /\ call'[c].tx = Len(tx')
  <2> DEFINE n == Len(tx')
  <2>1. n \in Nat /\ call'[c] = [call[c] EXCEPT !.at = at, !.tx = n]
    BY <1>4, <1>6
  <2> HIDE DEF n
  <2>2. /\ call'[c] \in CallRecords /\ call'[c].at = at /\ call'[c].kind = call[c].kind
        /\ call'[c].live = call[c].live /\ call'[c].of = call[c].of /\ call'[c].order = call[c].order
        /\ call'[c].dest = call[c].dest /\ call'[c].tx = n
    BY <1>1, <1>7, <2>1 DEF CallRecords
  <2> QED
    BY <2>2 DEF n
<1>9. call' \in [Calls -> CallRecords \cup {NoCall}]
  BY <1>3, <1>6, <1>8 DEF IInv, Typed
<1> QED
  BY <1>3, <1>4, <1>5, <1>6, <1>8, <1>9 DEF r, NoTx

\* It leaves what is known of the chain alone.
LEMMA BroadcastChain ==
    ASSUME IInv, NEW c \in Calls, NEW kind \in {"redeem", "route", "open", "refund"}, NEW at \in SentPhases,
           call[c].kind = kind, Broadcast(c, kind, at), nonce' = nonce
    PROVE  (\A t \in Txs : TxShape(t))' /\ RefundsPaid'
<1>1. ASSUME NEW t \in Txs' PROVE TxShape(t)'
  <2>1. CASE t \in Txs
    BY <2>1, BroadcastIs DEF IInv, TxShape
  <2>2. CASE t = Len(tx')
    BY <2>2, BroadcastIs DEF IInv, TxShape, CallShape, Carries
  <2> QED
    BY <2>1, <2>2, BroadcastIs
<1>2. RefundsPaid'
  BY BroadcastIs DEF IInv, RefundsPaid
<1> QED
  BY <1>1, <1>2

\* It leaves every other call as it was, and gives the call its transaction.
LEMMA BroadcastCalls ==
    ASSUME IInv, NEW c \in Calls, NEW kind \in {"redeem", "route", "open", "refund"},
           NEW at \in {"receipt", "composer-settling"}, (kind = "route") <=> (at = "composer-settling"),
           call[c].kind = kind, Broadcast(c, kind, at), UNCHANGED <<nonce, stage, open>>
    PROVE  (\A d \in Calls : CallShape(d))'
<1>1. at \in SentPhases /\ "post" \in SentPhases
  BY DEF SentPhases
<1>2. SUFFICES ASSUME NEW d \in Calls PROVE CallShape(d)'
  OBVIOUS
<1>3. CASE d # c
  <2>1. call'[d] = call[d]
    BY <1>1, <1>3, BroadcastIs
  <2>2. CallShape(d)
    BY DEF IInv
  <2>3. call[d].at \in SentPhases => call[d].tx \in Txs' /\ tx'[call[d].tx] = tx[call[d].tx]
    BY <1>1, <2>2, BroadcastIs DEF CallShape
  <2> QED
    BY <1>1, <2>1, <2>2, <2>3 DEF CallShape
<1>4. CASE d = c
  <2>1. CallShape(c)
    BY DEF IInv
  <2>2. /\ call'[c].at = at /\ call'[c].kind = kind /\ call'[c].live = call[c].live
        /\ call'[c].of = call[c].of /\ call'[c].order = call[c].order /\ call'[c].tx = Len(tx')
        /\ Len(tx') \in Txs' /\ tx'[Len(tx')].kind = kind
        /\ tx'[Len(tx')].of = call[c].of /\ tx'[Len(tx')].order = call[c].order
        /\ kind = "route" => tx'[Len(tx')].dest = call[c].dest
        /\ call'[c].dest = call[c].dest
    BY <1>1, BroadcastIs
  <2> QED
    BY <1>1, <1>4, <2>1, <2>2 DEF CallShape, Carries
<1> QED
  BY <1>3, <1>4

\* The new transaction carries the order of its call.
LEMMA BroadcastOrdered ==
    ASSUME IInv, Ordered, NEW c \in Calls, NEW kind \in {"redeem", "route", "open", "refund"}, NEW at \in SentPhases,
           call[c].kind = kind, Broadcast(c, kind, at), UNCHANGED <<order, orderId>>,
           redeemTx' = redeemTx \/ stage = "none",
           openTx' # NoTx => \/ openTx' = openTx /\ redeemTx' = redeemTx
                             \/ openTx' = Len(tx') /\ call[c].of = redeemTx'
    PROVE  Ordered'
<1>1. /\ \A t \in Txs : tx'[t] = tx[t]
      /\ \A t \in Txs' : t \in Txs \/ (tx'[t].kind = kind /\ tx'[t].of = call[c].of /\ tx'[t].order = call[c].order)
  BY BroadcastIs
<1>2. \A d \in Calls : /\ call'[d].kind = call[d].kind /\ call'[d].of = call[d].of
                       /\ call'[d].order = call[d].order /\ call'[d].live = call[d].live
  <2> TAKE d \in Calls
  <2> QED
    BY BroadcastIs
<1>3. \A t, u \in Txs' : tx'[t].kind \in Carries /\ tx'[u].kind \in Carries
                           /\ tx'[t].order = tx'[u].order => tx'[t].of = tx'[u].of
  BY <1>1 DEF Ordered
<1>4. \A t \in Txs', d \in Calls : tx'[t].kind \in Carries /\ call[d].kind \in Carries
                           /\ tx'[t].order = call[d].order => tx'[t].of = call[d].of
  BY <1>1 DEF Ordered
<1>5. \A t \in Txs' : tx'[t].kind \in Carries /\ tx'[t].order \in {order, orderId} => tx'[t].of = redeemTx'
  <2>1. CASE redeemTx' = redeemTx
    BY <1>1, <2>1 DEF Ordered
  <2>2. CASE stage = "none"
    <3>1. order = 0 /\ orderId = 0
      BY <2>2 DEF IInv, Mounted, NoOrder
    <3>2. ASSUME NEW t \in Txs', tx'[t].kind \in Carries PROVE tx'[t].order \in 1..nonce
      BY <1>1, <3>2 DEF IInv, TxShape, CallShape
    <3> QED
      BY <3>1, <3>2
  <2> QED
    BY <2>1, <2>2
<1>6. \A d \in Calls : call[d].kind \in Carries /\ (call[d].order \in {order, orderId} \/ call[d].live = "step")
                         => call[d].of = redeemTx'
  <2>1. CASE redeemTx' = redeemTx
    BY <2>1 DEF Ordered
  <2>2. CASE stage = "none"
    <3>1. order = 0 /\ orderId = 0
      BY <2>2 DEF IInv, Mounted, NoOrder
    <3>2. ASSUME NEW d \in Calls, call[d].kind \in Carries PROVE call[d].order \in 1..nonce /\ call[d].live # "step"
      BY <2>2, <3>2 DEF IInv, CallShape
    <3> QED
      BY <3>1, <3>2
  <2> QED
    BY <2>1, <2>2
<1>7. openTx' # NoTx => tx'[openTx'].of = redeemTx'
  <2>1. openTx # NoTx => openTx \in Txs
    BY DEF IInv, Typed
  <2>2. tx'[Len(tx')].of = call[c].of
    BY BroadcastIs
  <2> QED
    BY <1>1, <2>1, <2>2 DEF Ordered
<1>8. \A d, e \in Calls : call[d].kind \in Carries /\ call[e].kind \in Carries
                         /\ call[d].order = call[e].order => call[d].of = call[e].of
  BY DEF Ordered
<1> QED
  BY <1>2, <1>3, <1>4, <1>5, <1>6, <1>7, <1>8 DEF Ordered

\* Unless it is a route, it spends no redeem.
LEMMA BroadcastComposed ==
    ASSUME IInv, Composed, NEW c \in Calls, NEW kind \in {"redeem", "open", "refund"}, NEW at \in SentPhases,
           call[c].kind = kind, Broadcast(c, kind, at), UNCHANGED <<delta, panel>>,
           redeemTx' \in {redeemTx, Len(tx')}
    PROVE  Composed'
<1>1. /\ Txs' = Txs \cup {Len(tx')} /\ Len(tx') \notin Txs
      /\ \A t \in Txs : tx'[t] = tx[t]
      /\ tx'[Len(tx')].kind # "route"
      /\ \A d \in Calls : call[d].kind = "route" \/ call'[d].kind = "route" => call'[d] = call[d]
  <2>1. kind # "route"
    OBVIOUS
  <2> QED
    BY <2>1, BroadcastIs
<1>2. \A t \in Txs' : tx'[t].kind = "route" =>
         t \in Txs /\ tx[t].kind = "route" /\ tx[t].of \in Txs /\ tx'[t].of = tx[t].of /\ tx'[tx[t].of] = tx[tx[t].of]
  BY <1>1 DEF Composed
<1>3. \A d \in Calls : call[d].kind = "route" => call[d].of \in Txs /\ tx'[call[d].of] = tx[call[d].of]
  BY <1>1 DEF Composed
<1>4. \A t \in Txs' : tx'[t].kind = "route" => tx'[t].of \in Txs' /\ tx'[tx'[t].of].kind = "redeem" /\ tx'[tx'[t].of].st = "mined"
  BY <1>1, <1>2 DEF Composed
<1>5. \A t, u \in Txs' : tx'[t].kind = "route" /\ tx'[u].kind = "route" /\ tx'[t].of = tx'[u].of => t = u
  BY <1>2 DEF Composed
<1>6. ASSUME NEW t \in Txs', tx'[t].kind = "route" /\ tx'[t].of = redeemTx'
      PROVE  /\ delta # 0
             /\ \/ panel = "stuck"
                \/ \E d \in Calls : (Spends(d) /\ call[d].kind = "route" /\ call[d].at = "composer-settling")'
  <2>1. t \in Txs /\ tx[t].kind = "route" /\ tx[t].of = redeemTx
    BY <1>1, <1>2, <1>6
  <2> QED
    BY <1>1, <2>1 DEF Composed, Spends, Live
<1>7. ASSUME NEW d \in Calls, call'[d].kind = "route"
      PROVE  /\ call'[d].of \in Txs' /\ tx'[call'[d].of].kind = "redeem" /\ tx'[call'[d].of].st = "mined"
             /\ ~Live(d)' => call'[d].of # redeemTx'
             /\ call'[d].tx = NoTx => \A t \in Txs' : tx'[t].kind = "route" => tx'[t].of # call'[d].of
  BY <1>1, <1>2, <1>3, <1>7 DEF Composed, Live
<1>8. \A d, e \in Calls : call'[d].kind = "route" /\ call'[e].kind = "route" /\ call'[d].of = call'[e].of => d = e
  BY <1>1 DEF Composed
<1> QED
  BY <1>4, <1>5, <1>6, <1>7, <1>8 DEF Composed

\* What was reported stays true, and of its redeem.
LEMMA BroadcastReported ==
    ASSUME IInv, NEW c \in Calls, NEW kind \in {"redeem", "route", "open", "refund"}, NEW at \in SentPhases,
           call[c].kind = kind, Broadcast(c, kind, at), UNCHANGED <<outcome, stage, nonce>>
    PROVE  Reported'
<1>1. Txs' = Txs \cup {Len(tx')} /\ \A t \in Txs : tx'[t] = tx[t]
  BY BroadcastIs
<1>2. ASSUME NEW n, NEW st, OrderIs(n, st) PROVE OrderIs(n, st)'
  BY <1>1, <1>2 DEF OrderIs
<1>3. Real(outcome)'
  BY <1>1, <1>2 DEF IInv, Reported, Real, Redeems, Arrived
<1> QED
  BY <1>2, <1>3 DEF IInv, Reported

LEMMA BroadcastOwned ==
    ASSUME IInv, ~freed, NEW c \in Calls, NEW kind \in {"redeem", "route", "open", "refund"},
           NEW at \in SentPhases, call[c].kind = kind, Broadcast(c, kind, at), UNCHANGED <<outcome, stage>>,
           redeemTx' = redeemTx \/ stage = "none"
    PROVE  Owned'
<1>1. Txs' = Txs \cup {Len(tx')} /\ \A t \in Txs : tx'[t] = tx[t]
  BY BroadcastIs
<1>2. ASSUME NEW r, NEW st, OrderOf(r, st) PROVE OrderOf(r, st)'
  BY <1>1, <1>2 DEF OrderOf
<1>3. Owned /\ (outcome.how = "composer" => outcome.by \in Txs)
  BY DEF IInv, Guarded, Reported, Real, Arrived
<1>4. Own(outcome)'
  BY <1>1, <1>2, <1>3 DEF Owned, Own, Redeems
<1>5. stage = "refunded" => OrderOf(redeemTx, "refunded") /\ redeemTx' = redeemTx
  BY <1>3 DEF Owned
<1> QED
  BY <1>1, <1>4, <1>5 DEF Owned, OrderOf

\* The redeem is broadcast.
LEMMA SendRedeemStep ==
    ASSUME IInv, NEW c \in Calls, SendRedeem(c), UNCHANGED <<nonce, freed>>
    PROVE  IInv'
<1> USE NoCallIsFree DEF IInv
<1>9. call[c].kind = "redeem" /\ "receipt" \in SentPhases /\ Broadcast(c, "redeem", "receipt")
  BY DEF SendRedeem, At, SentPhases
<1>1. /\ tx' \in Seq(TxRecords) /\ Len(tx') \in Nat /\ Len(tx') # NoTx /\ Len(tx') \notin Txs
      /\ Txs' = Txs \cup {Len(tx')} /\ \A t \in Txs : tx'[t] = tx[t]
      /\ tx'[Len(tx')].kind = call[c].kind /\ tx'[Len(tx')].st = "pending"
      /\ tx'[Len(tx')].of = call[c].of /\ tx'[Len(tx')].order = call[c].order
      /\ call' \in [Calls -> CallRecords \cup {NoCall}] /\ \A d \in Calls \ {c} : call'[d] = call[d]
      /\ call'[c].kind = call[c].kind /\ call'[c].live = call[c].live /\ call'[c].tx = Len(tx')
      /\ call'[c].of = call[c].of /\ call'[c].order = call[c].order /\ call'[c].dest = call[c].dest
      /\ call[c].kind = "redeem" /\ call[c].at = "send" /\ call'[c].at = "receipt"
      /\ (Live(c) => redeemTx' = Len(tx')) /\ (~Live(c) => redeemTx' = redeemTx) /\ UNCHANGED <<openTx, flow>>
      /\ UNCHANGED <<open, dest, delta, measured, mode, panel, stage, order, orderId, shares, wallet, outcome>>
  BY <1>9, BroadcastIs DEF SendRedeem, At, formVars, flowVars, stepVars, orderVars,
     chainVars
<1>8. Live(c) /\ ~freed => delta = 0 /\ stage = "none" /\ openTx = NoTx
  <2>1. Live(c) /\ ~freed => delta = 0
    BY <1>1 DEF Guarded, Held, Spends
  <2> QED
    BY <2>1 DEF Mounted
<1>2. Typed'
  BY <1>1 DEF Typed, Flows, BusyStates
<1>3. (\A t \in Txs : TxShape(t))' /\ RefundsPaid'
  BY <1>9, BroadcastChain
<1>4. (\A d \in Calls : CallShape(d))'
  BY <1>1, <1>9, BroadcastCalls
<1>5. Mounted'
  <2>1. /\ redeemTx # NoTx => redeemTx \in Txs
        /\ openTx # NoTx => openTx \in Txs
    BY DEF Typed
  <2>2. redeemTx' # NoTx => tx'[redeemTx'].kind = "redeem"
    BY <1>1, <2>1 DEF Mounted
  <2>3. Live(c) => open
    BY DEF CallShape, Live
  <2> QED
    BY <1>1, <2>1, <2>2, <2>3 DEF Mounted, NoTx
<1>6. Watched'
  BY <1>1, StaysWatched DEF Typed, Live
<1>11. Reported'
  BY <1>1, <1>9, BroadcastReported
<1>7. ASSUME ~freed' PROVE Guarded'
  <2>1. Held'
    <3>1. CASE Live(c)
      BY <1>1, <1>7, <3>1 DEF Guarded, Held, Spends, Live, SentPhases
    <3>2. CASE ~Live(c)
      BY <1>1, <1>7, <3>2 DEF Guarded, Held, Spends, Live, SentPhases
    <3> QED
      BY <3>1, <3>2
  <2>2. Paid'
    <3>1. Live(c) => delta = 0
      BY <1>7, <1>8
    <3>2. delta # 0 => redeemTx \in Txs
      BY <1>7 DEF Guarded, Paid, Typed
    <3> QED
      BY <1>1, <1>7, <3>1, <3>2 DEF Guarded, Paid, OnPanel, ShowsRoute
  <2>3. Composed'
    BY <1>1, <1>7, <1>9, BroadcastComposed DEF Guarded
  <2>4. Ordered'
    BY <1>1, <1>7, <1>8, <1>9, BroadcastOrdered DEF Guarded
  <2>5. Owned'
    BY <1>1, <1>7, <1>8, <1>9, BroadcastOwned
  <2> QED
    BY <2>1, <2>2, <2>3, <2>4, <2>5 DEF Guarded
<1> QED
  BY <1>2, <1>3, <1>4, <1>5, <1>6, <1>7, <1>11

\* The route is broadcast.
LEMMA SendRouteStep ==
    ASSUME IInv, NEW c \in Calls, SendRoute(c), UNCHANGED <<nonce, freed>>
    PROVE  IInv'
<1> USE NoCallIsFree DEF IInv
<1>9. call[c].kind = "route" /\ "composer-settling" \in SentPhases /\ Broadcast(c, "route", "composer-settling")
  BY DEF SendRoute, At, SentPhases
<1>1. /\ tx' \in Seq(TxRecords) /\ Len(tx') \in Nat /\ Len(tx') # NoTx /\ Len(tx') \notin Txs
      /\ Txs' = Txs \cup {Len(tx')} /\ \A t \in Txs : tx'[t] = tx[t]
      /\ tx'[Len(tx')].kind = call[c].kind /\ tx'[Len(tx')].st = "pending"
      /\ tx'[Len(tx')].of = call[c].of /\ tx'[Len(tx')].order = call[c].order
      /\ call' \in [Calls -> CallRecords \cup {NoCall}] /\ \A d \in Calls \ {c} : call'[d] = call[d]
      /\ call'[c].kind = call[c].kind /\ call'[c].live = call[c].live /\ call'[c].tx = Len(tx')
      /\ call'[c].of = call[c].of /\ call'[c].order = call[c].order /\ call'[c].dest = call[c].dest
      /\ call[c].kind = "route" /\ call[c].at = "composer-sending" /\ call'[c].at = "composer-settling"
      /\ flow' = (IF Live(c) THEN "composer-settling" ELSE flow)
      /\ panel' = (IF Live(c) THEN "busy" ELSE panel) /\ UNCHANGED <<openTx, redeemTx>>
      /\ UNCHANGED <<open, dest, delta, measured, mode, stage, order, orderId, shares, wallet, outcome>>
  BY <1>9, BroadcastIs
     DEF SendRoute, ShowPhase, At, formVars, flowVars, stepVars, orderVars, chainVars
<1>2. Typed'
  BY <1>1 DEF Typed, Flows, BusyStates
<1>3. (\A t \in Txs : TxShape(t))' /\ RefundsPaid'
  BY <1>9, BroadcastChain
<1>4. (\A d \in Calls : CallShape(d))'
  BY <1>1, <1>9, BroadcastCalls
<1>5. Mounted'
  BY <1>1 DEF Typed, Mounted
<1>6. Watched'
  <2>1. Live(c) => LiveCall("route")'
    BY <1>1 DEF LiveCall, Live
  <2>2. ~Live(c) => Watched'
    BY <1>1, StaysWatched DEF Typed, Live
  <2>3. Live(c) => flow' # "redeeming"
    BY <1>1
  <2> QED
    BY <2>1, <2>2, <2>3 DEF Watched
<1>11. Reported'
  BY <1>1, <1>9, BroadcastReported
<1>7. ASSUME ~freed' PROVE Guarded'
  <2>0. panel' = panel
    BY <1>1, <1>7 DEF Guarded, Held, Spends
  <2>1. Held'
    BY <1>1, <1>7, <2>0 DEF Guarded, Held, Spends, Live, Typed
  <2>2. Paid'
    BY <1>1, <1>7, <2>0 DEF Guarded, Paid, OnPanel, ShowsRoute, Typed
  <2>3. Composed'
    <3>1. Composed /\ call[c].tx = NoTx /\ call'[c].tx # NoTx /\ call'[c].of = call[c].of
      BY <1>1, <1>7 DEF Guarded, CallShape, SentPhases
    <3>2. /\ call[c].of \in Txs /\ tx[call[c].of].kind = "redeem" /\ tx[call[c].of].st = "mined"
          /\ ~Live(c) => call[c].of # redeemTx
          /\ \A t \in Txs : tx[t].kind = "route" => tx[t].of # call[c].of
      BY <1>1, <3>1 DEF Composed
    <3>3. /\ \A t \in Txs : tx[t].kind = "route" => tx[t].of \in Txs
          /\ \A d \in Calls : call[d].kind = "route" => call[d].of \in Txs
      BY <3>1 DEF Composed
    <3>4. \A d \in Calls : call'[d].kind = call[d].kind /\ call'[d].of = call[d].of /\ call'[d].live = call[d].live
      BY <1>1
    <3>5. \A t \in Txs' : tx'[t].kind = "route" =>
             tx'[t].of \in Txs' /\ tx'[tx'[t].of].kind = "redeem" /\ tx'[tx'[t].of].st = "mined"
      BY <1>1, <3>1, <3>2, <3>3 DEF Composed
    <3>6. \A t, u \in Txs' : tx'[t].kind = "route" /\ tx'[u].kind = "route" /\ tx'[t].of = tx'[u].of => t = u
      BY <1>1, <3>1, <3>2 DEF Composed
    <3>7. ASSUME NEW t \in Txs', tx'[t].kind = "route" /\ tx'[t].of = redeemTx'
          PROVE  /\ delta # 0
                 /\ \/ panel = "stuck"
                    \/ \E d \in Calls : (Spends(d) /\ call[d].kind = "route" /\ call[d].at = "composer-settling")'
      <4>1. CASE t \in Txs
        <5>1. /\ delta # 0
              /\ \/ panel = "stuck"
                 \/ \E d \in Calls : Spends(d) /\ call[d].kind = "route" /\ call[d].at = "composer-settling"
          BY <1>1, <3>1, <3>7, <4>1 DEF Composed
        <5>2. ASSUME NEW d \in Calls, Spends(d) /\ call[d].kind = "route" /\ call[d].at = "composer-settling"
              PROVE  (Spends(d) /\ call[d].kind = "route" /\ call[d].at = "composer-settling")'
          BY <1>1, <5>2 DEF Spends, Live
        <5> QED
          BY <5>1, <5>2
      <4>2. CASE t = Len(tx')
        <5>1. Live(c)
          BY <1>1, <3>2, <3>7, <4>2
        <5>2. panel = "busy"
          BY <1>1, <1>7, <5>1 DEF Guarded, Held, Spends
        <5>3. delta # 0
          BY <1>7, <5>2 DEF Guarded, Paid, OnPanel
        <5> QED
          BY <1>1, <5>1, <5>3 DEF Spends, Live
      <4> QED
        BY <1>1, <4>1, <4>2
    <3>8. ASSUME NEW d \in Calls, call'[d].kind = "route"
          PROVE  /\ call'[d].of \in Txs' /\ tx'[call'[d].of].kind = "redeem" /\ tx'[call'[d].of].st = "mined"
                 /\ ~Live(d)' => call'[d].of # redeemTx'
                 /\ call'[d].tx = NoTx => \A t \in Txs' : tx'[t].kind = "route" => tx'[t].of # call'[d].of
      <4>1. call'[d].of \in Txs' /\ tx'[call'[d].of].kind = "redeem" /\ tx'[call'[d].of].st = "mined"
        BY <1>1, <3>1, <3>3, <3>4, <3>8 DEF Composed
      <4>2. ~Live(d)' => call'[d].of # redeemTx'
        BY <1>1, <3>1, <3>4, <3>8 DEF Composed, Live
      <4>3. ASSUME call'[d].tx = NoTx, NEW t \in Txs', tx'[t].kind = "route" PROVE tx'[t].of # call'[d].of
        <5>1. d # c /\ call'[d] = call[d]
          BY <1>1, <3>1, <4>3
        <5>2. CASE t \in Txs
          BY <1>1, <3>1, <3>8, <4>3, <5>1, <5>2 DEF Composed
        <5>3. CASE t = Len(tx')
          BY <1>1, <3>1, <3>8, <5>1, <5>3 DEF Composed
        <5> QED
          BY <1>1, <5>2, <5>3
      <4> QED
        BY <4>1, <4>2, <4>3
    <3>9. \A d, e \in Calls : call'[d].kind = "route" /\ call'[e].kind = "route" /\ call'[d].of = call'[e].of => d = e
      BY <3>1, <3>4 DEF Composed
    <3> QED
      BY <1>1, <2>0, <3>5, <3>6, <3>7, <3>8, <3>9 DEF Composed
  <2>4. Ordered'
    BY <1>1, <1>7, <1>9, BroadcastOrdered DEF Guarded
  <2>5. Owned'
    BY <1>1, <1>7, <1>9, BroadcastOwned
  <2> QED
    BY <2>1, <2>2, <2>3, <2>4, <2>5 DEF Guarded
<1> QED
  BY <1>2, <1>3, <1>4, <1>5, <1>6, <1>7, <1>11

\* The order is broadcast.
LEMMA SendOpenStep ==
    ASSUME IInv, NEW c \in Calls, SendOpen(c), UNCHANGED <<nonce, freed>>
    PROVE  IInv'
<1> USE NoCallIsFree DEF IInv
<1>9. call[c].kind = "open" /\ "receipt" \in SentPhases /\ Broadcast(c, "open", "receipt")
  BY DEF SendOpen, At, SentPhases
<1>1. /\ tx' \in Seq(TxRecords) /\ Len(tx') \in Nat /\ Len(tx') # NoTx /\ Len(tx') \notin Txs
      /\ Txs' = Txs \cup {Len(tx')} /\ \A t \in Txs : tx'[t] = tx[t]
      /\ tx'[Len(tx')].kind = call[c].kind /\ tx'[Len(tx')].st = "pending"
      /\ tx'[Len(tx')].of = call[c].of /\ tx'[Len(tx')].order = call[c].order
      /\ call' \in [Calls -> CallRecords \cup {NoCall}] /\ \A d \in Calls \ {c} : call'[d] = call[d]
      /\ call'[c].kind = call[c].kind /\ call'[c].live = call[c].live /\ call'[c].tx = Len(tx')
      /\ call'[c].of = call[c].of /\ call'[c].order = call[c].order /\ call'[c].dest = call[c].dest
      /\ call[c].kind = "open" /\ call[c].at = "approving" /\ call'[c].at = "receipt"
      /\ (call[c].live = "step" => openTx' = Len(tx')) /\ (call[c].live # "step" => openTx' = openTx)
      /\ UNCHANGED <<redeemTx, flow>>
      /\ UNCHANGED <<open, dest, delta, measured, mode, panel, stage, order, orderId, shares, wallet, outcome>>
  BY <1>9, BroadcastIs DEF SendOpen, At, formVars, flowVars, stepVars, orderVars, chainVars
<1>2. Typed'
  BY <1>1 DEF Typed, Flows, BusyStates
<1>3. (\A t \in Txs : TxShape(t))' /\ RefundsPaid'
  BY <1>9, BroadcastChain
<1>4. (\A d \in Calls : CallShape(d))'
  BY <1>1, <1>9, BroadcastCalls
<1>5. Mounted'
  <2>1. /\ redeemTx # NoTx => redeemTx \in Txs
        /\ openTx # NoTx => openTx \in Txs
    BY DEF Typed
  <2>2. call[c].live = "step" => stage # "none"
    BY DEF CallShape
  <2> QED
    BY <1>1, <2>1, <2>2 DEF Mounted
<1>6. Watched'
  BY <1>1, StaysWatched DEF Typed, Live
<1>11. Reported'
  BY <1>1, <1>9, BroadcastReported
<1>7. ASSUME ~freed' PROVE Guarded'
  <2>1. Held'
    <3>1. \A d \in Calls : Spends(d)' => Spends(d) /\ call'[d] = call[d]
      BY <1>1 DEF Spends, Live
    <3>2. \A d \in Calls : Spends(d) => Spends(d)'
      BY <1>1 DEF Spends, Live
    <3> QED
      BY <1>1, <1>7, <3>1, <3>2 DEF Guarded, Held
  <2>2. Paid'
    BY <1>1, <1>7 DEF Guarded, Paid, OnPanel, ShowsRoute, Typed
  <2>3. Composed'
    BY <1>1, <1>7, <1>9, BroadcastComposed DEF Guarded
  <2>4. Ordered'
    <3>1. call[c].live = "step" => call[c].of = redeemTx
      BY <1>1, <1>7 DEF Guarded, Ordered, Carries
    <3> QED
      BY <1>1, <1>7, <1>9, <3>1, BroadcastOrdered DEF Guarded
  <2>5. Owned'
    BY <1>1, <1>7, <1>9, BroadcastOwned
  <2> QED
    BY <2>1, <2>2, <2>3, <2>4, <2>5 DEF Guarded
<1> QED
  BY <1>2, <1>3, <1>4, <1>5, <1>6, <1>7, <1>11

\* The refund is broadcast.
LEMMA SendRefundStep ==
    ASSUME IInv, NEW c \in Calls, SendRefund(c), UNCHANGED <<nonce, freed>>
    PROVE  IInv'
<1> USE NoCallIsFree DEF IInv
<1>9. call[c].kind = "refund" /\ "receipt" \in SentPhases /\ Broadcast(c, "refund", "receipt")
  BY DEF SendRefund, At, SentPhases
<1>1. /\ tx' \in Seq(TxRecords) /\ Len(tx') \in Nat /\ Len(tx') # NoTx /\ Len(tx') \notin Txs
      /\ Txs' = Txs \cup {Len(tx')} /\ \A t \in Txs : tx'[t] = tx[t]
      /\ tx'[Len(tx')].kind = call[c].kind /\ tx'[Len(tx')].st = "pending"
      /\ tx'[Len(tx')].of = call[c].of /\ tx'[Len(tx')].order = call[c].order
      /\ call' \in [Calls -> CallRecords \cup {NoCall}] /\ \A d \in Calls \ {c} : call'[d] = call[d]
      /\ call'[c].kind = call[c].kind /\ call'[c].live = call[c].live /\ call'[c].tx = Len(tx')
      /\ call'[c].of = call[c].of /\ call'[c].order = call[c].order /\ call'[c].dest = call[c].dest
      /\ call[c].kind = "refund" /\ call[c].at = "send" /\ call'[c].at = "receipt"
      /\ UNCHANGED <<redeemTx, openTx, flow>>
      /\ UNCHANGED <<open, dest, delta, measured, mode, panel, stage, order, orderId, shares, wallet, outcome>>
  BY <1>9, BroadcastIs DEF SendRefund, At, formVars, flowVars, stepVars, orderVars,
     chainVars
<1>2. Typed'
  BY <1>1 DEF Typed, Flows, BusyStates
<1>3. (\A t \in Txs : TxShape(t))' /\ RefundsPaid'
  BY <1>9, BroadcastChain
<1>4. (\A d \in Calls : CallShape(d))'
  BY <1>1, <1>9, BroadcastCalls
<1>5. Mounted'
  BY <1>1 DEF Typed, Mounted
<1>6. Watched'
  BY <1>1, StaysWatched DEF Typed, Live
<1>11. Reported'
  BY <1>1, <1>9, BroadcastReported
<1>7. ASSUME ~freed' PROVE Guarded'
  <2>1. Held'
    BY <1>1, <1>7 DEF Guarded, Held, Spends, Live, Typed
  <2>2. Paid'
    BY <1>1, <1>7 DEF Guarded, Paid, OnPanel, ShowsRoute, Typed
  <2>3. Composed'
    BY <1>1, <1>7, <1>9, BroadcastComposed DEF Guarded
  <2>4. Ordered'
    BY <1>1, <1>7, <1>9, BroadcastOrdered DEF Guarded
  <2>5. Owned'
    BY <1>1, <1>7, <1>9, BroadcastOwned
  <2> QED
    BY <2>1, <2>2, <2>3, <2>4, <2>5 DEF Guarded
<1> QED
  BY <1>2, <1>3, <1>4, <1>5, <1>6, <1>7, <1>11

-----------------------------------------------------------------------------
(***************************************************************************)
(* The chains                                                              *)
(***************************************************************************)

\* What can become of a transaction; an escrow is paid back by a refund.
LEMMA ChainStepIs ==
    ASSUME Typed, NEW t \in Txs, ChainStep(t)
    PROVE  /\ tx' \in Seq(TxRecords) /\ Txs' = Txs /\ wallet' \in Nat /\ shares' \in Nat
           /\ \A u \in Txs : /\ tx'[u].kind = tx[u].kind /\ tx'[u].of = tx[u].of
                             /\ tx'[u].order = tx[u].order /\ tx'[u].dest = tx[u].dest
           /\ \A u \in Txs : \/ tx'[u].st = tx[u].st
                             \/ tx[u].st = "pending" /\ tx'[u].st \in {"mined", "reverted"}
                             \/ tx[u].st = "mined" /\ tx[u].kind = "route" /\ tx[u].dest = "chain" /\ tx'[u].st = "delivered"
                             \/ tx[u].st = "mined" /\ tx[u].kind = "open" /\ tx'[u].st \in {"filled", "refunded"}
           /\ \A u \in Txs : tx[u].kind = "refund" /\ tx'[u].st = "mined" /\ tx[u].st # "mined" =>
                \E v \in Txs : tx'[v].kind = "open" /\ tx'[v].order = tx[u].order /\ tx'[v].st = "refunded"
<1> DEFINE Set(s) == tx' = [tx EXCEPT ![t].st = s]
<1>1. tx \in Seq(TxRecords) /\ tx \in [Txs -> TxRecords] /\ Txs = 1..Len(tx) /\ wallet \in Nat /\ shares \in Nat
      /\ tx[t] \in TxRecords /\ tx[t].amt \in Nat
  <2>1. tx \in Seq(TxRecords) /\ wallet \in Nat /\ shares \in Nat
    BY DEF Typed
  <2>2. Txs = 1..Len(tx) /\ tx \in [Txs -> TxRecords] /\ tx[t] \in TxRecords
    BY <2>1 DEF Txs
  <2>3. tx[t].amt \in Nat
    BY <2>2 DEF TxRecords
  <2> QED
    BY <2>1, <2>2, <2>3
<1>2. ASSUME NEW f \in [Txs -> TxRecords] PROVE f \in Seq(TxRecords) /\ DOMAIN f = Txs
  BY <1>1
<1>3. ASSUME NEW s \in {"mined", "reverted", "delivered", "filled"}, Set(s)
      PROVE  /\ tx' \in [Txs -> TxRecords] /\ tx'[t].st = s
             /\ \A u \in Txs : /\ tx'[u].kind = tx[u].kind /\ tx'[u].of = tx[u].of
                               /\ tx'[u].order = tx[u].order /\ tx'[u].dest = tx[u].dest
                               /\ u # t => tx'[u] = tx[u]
  BY <1>1, <1>3 DEF TxRecords
<1>4. CASE tx[t].st = "pending" /\ MineRedeem(t)
  <2>1. Set("mined") /\ wallet' = wallet + 1 /\ shares' = shares - 1 /\ shares > 0 /\ tx[t].kind = "redeem"
    BY <1>4 DEF MineRedeem, Pays
  <2>2. wallet' \in Nat /\ shares' \in Nat
    BY <1>1, <2>1
  <2> QED
    BY <1>2, <1>3, <1>4, <2>1, <2>2 DEF Txs
<1>5. CASE tx[t].st = "pending" /\ (MineRoute(t) \/ MineOpen(t))
  <2>1. Set("mined") /\ wallet' = wallet + -tx[t].amt /\ wallet >= tx[t].amt /\ UNCHANGED shares
        /\ tx[t].kind # "refund"
    BY <1>5 DEF MineRoute, MineOpen, Pays
  <2>2. wallet' \in Nat /\ shares' \in Nat
    BY <1>1, <2>1
  <2> QED
    BY <1>2, <1>3, <1>5, <2>1, <2>2 DEF Txs
<1>6. CASE tx[t].st = "pending" /\ MineRefund(t)
  <2>1. PICK u \in Txs : /\ tx[u].kind = "open" /\ tx[u].order = tx[t].order /\ tx[u].st = "mined"
                         /\ tx' = [tx EXCEPT ![t].st = "mined", ![u].st = "refunded"]
    BY <1>6 DEF MineRefund
  <2>2. tx[t].kind = "refund" /\ wallet' = wallet + tx[t].amt /\ shares' = shares /\ u # t
    BY <1>6, <2>1 DEF MineRefund
  <2>3. wallet' \in Nat /\ shares' \in Nat
    BY <1>1, <2>2
  <2>4. /\ tx' \in [Txs -> TxRecords] /\ tx'[t].st = "mined" /\ tx'[u].st = "refunded"
        /\ \A v \in Txs : /\ tx'[v].kind = tx[v].kind /\ tx'[v].of = tx[v].of
                          /\ tx'[v].order = tx[v].order /\ tx'[v].dest = tx[v].dest
                          /\ v # t /\ v # u => tx'[v] = tx[v]
    BY <1>1, <2>1, <2>2 DEF TxRecords
  <2>5. tx' \in Seq(TxRecords) /\ Txs' = Txs
    BY <1>2, <2>4 DEF Txs
  <2>6. \A v \in Txs : \/ tx'[v].st = tx[v].st
                       \/ tx[v].st = "pending" /\ tx'[v].st = "mined"
                       \/ tx[v].st = "mined" /\ tx[v].kind = "open" /\ tx'[v].st = "refunded"
    BY <1>6, <2>1, <2>4
  <2>7. \A v \in Txs : tx[v].kind = "refund" /\ tx'[v].st = "mined" /\ tx[v].st # "mined" =>
          tx'[u].kind = "open" /\ tx'[u].order = tx[v].order /\ tx'[u].st = "refunded"
    BY <2>1, <2>2, <2>4
  <2> QED
    BY <2>3, <2>4, <2>5, <2>6, <2>7
<1>7. CASE tx[t].st = "pending" /\ Revert(t)
  <2>1. Set("reverted") /\ UNCHANGED <<shares, wallet>>
    BY <1>7 DEF Revert
  <2> QED
    BY <1>1, <1>2, <1>3, <1>7, <2>1 DEF Txs
<1>8. CASE /\ tx[t].st = "mined" /\ (tx[t].kind = "open" \/ (tx[t].kind = "route" /\ tx[t].dest = "chain"))
           /\ UNCHANGED <<shares, wallet>>
           /\ tx' = [tx EXCEPT ![t].st = IF tx[t].kind = "route" THEN "delivered" ELSE "filled"]
  <2>1. \/ tx[t].kind = "route" /\ tx[t].dest = "chain" /\ Set("delivered")
        \/ tx[t].kind = "open" /\ Set("filled")
    BY <1>8
  <2> QED
    BY <1>1, <1>2, <1>3, <1>8, <2>1 DEF Txs
<1> QED
  BY <1>4, <1>5, <1>6, <1>7, <1>8 DEF ChainStep

\* What is mined and what is delivered, filled or paid back stays so.
LEMMA ChainStepKeeps ==
    ASSUME IInv, NEW t \in Txs, ChainStep(t)
    PROVE  /\ \A u \in Txs : tx[u].kind = "redeem" /\ tx[u].st = "mined" => tx'[u].st = "mined"
           /\ \A u \in Txs : tx[u].st \in {"delivered", "filled", "refunded"} => tx'[u].st = tx[u].st
           /\ \A u \in Txs : tx[u].kind = "route" /\ tx[u].dest # "chain" /\ tx[u].st = "mined" =>
                tx'[u].st = "mined"
BY ChainStepIs DEF IInv, TxShape

\* A transaction is mined, reverted or delivered.
LEMMA ChainMoves ==
    ASSUME IInv, NEW x \in Txs, ChainStep(x), UNCHANGED <<nonce, freed>>
    PROVE  IInv'
<1> USE NoCallIsFree DEF IInv
<1>1. /\ tx' \in Seq(TxRecords) /\ Txs' = Txs /\ wallet' \in Nat /\ shares' \in Nat
      /\ \A u \in Txs : /\ tx'[u].kind = tx[u].kind /\ tx'[u].of = tx[u].of
                        /\ tx'[u].order = tx[u].order /\ tx'[u].dest = tx[u].dest
      /\ \A u \in Txs : tx[u].kind = "redeem" /\ tx[u].st = "mined" => tx'[u].st = "mined"
      /\ UNCHANGED <<open, flow, dest, delta, measured, redeemTx, mode, panel, stage, order, openTx, orderId, call, outcome>>
  BY ChainStepIs, ChainStepKeeps DEF ChainStep, formVars, flowVars, stepVars, orderVars,
     chainVars
<1>2. Typed'
  BY <1>1 DEF Typed
<1>3. (\A t \in Txs : TxShape(t))' /\ RefundsPaid'
  <2>1. ASSUME NEW u \in Txs PROVE TxShape(u)'
    BY <1>1, ChainStepIs DEF TxShape
  <2>2. ASSUME NEW u \in Txs, tx'[u].kind = "refund" /\ tx'[u].st = "mined"
        PROVE  \E v \in Txs : tx'[v].kind = "open" /\ tx'[v].order = tx'[u].order /\ tx'[v].st = "refunded"
    <3>1. CASE tx[u].st = "mined"
      <4>1. PICK v \in Txs : tx[v].kind = "open" /\ tx[v].order = tx[u].order /\ tx[v].st = "refunded"
        BY <1>1, <2>2, <3>1 DEF RefundsPaid
      <4> QED
        BY <1>1, <4>1, ChainStepKeeps
    <3>2. CASE tx[u].st # "mined"
      BY <1>1, <2>2, <3>2, ChainStepIs
    <3> QED
      BY <3>1, <3>2
  <2> QED
    BY <1>1, <2>1, <2>2 DEF RefundsPaid
<1>4. (\A d \in Calls : CallShape(d))'
  <2>1. SUFFICES ASSUME NEW d \in Calls PROVE CallShape(d)'
    OBVIOUS
  <2>2. CallShape(d) /\ (call[d].kind \in CallKinds \/ call[d] = NoCall)
    BY DEF Typed, CallRecords
  <2>3. call[d].at = "post" => call[d].kind = "redeem" /\ call[d].tx \in Txs
    BY <2>2 DEF CallShape, CallKinds, SentPhases
  <2>4. call[d].at = "post" => tx'[call[d].tx].st = "mined" /\ call[d].dest # "same"
    BY <1>1, <2>2, <2>3 DEF CallShape, SentPhases
  <2> QED
    BY <1>1, <2>2, <2>4 DEF CallShape
<1>5. Mounted'
  BY <1>1 DEF Typed, Mounted
<1>6. Watched'
  BY <1>1, StaysWatched DEF Typed, Live
<1>11. Reported'
  <2>1. ASSUME NEW n, NEW st \in {"filled", "refunded"}, OrderIs(n, st) PROVE OrderIs(n, st)'
    BY <1>1, <2>1, ChainStepKeeps DEF OrderIs
  <2>2. ASSUME NEW r, Redeems(r) PROVE Redeems(r)'
    BY <1>1, <2>2 DEF Redeems
  <2>3. ASSUME NEW r, Arrived(r) PROVE Arrived(r)'
    BY <1>1, <2>3, ChainStepKeeps DEF Arrived
  <2>4. Real(outcome)'
    BY <1>1, <2>1, <2>2, <2>3 DEF Reported, Real
  <2> QED
    BY <1>1, <2>1, <2>4 DEF Reported
<1>7. ASSUME ~freed' PROVE Guarded'
  <2>1. Held'
    BY <1>1, <1>7 DEF Guarded, Held, Spends, Live, Typed
  <2>2. Paid'
    BY <1>1, <1>7 DEF Guarded, Paid, OnPanel, ShowsRoute, Mounted, Typed
  <2>3. Composed'
    BY <1>1, <1>7 DEF Guarded, Composed, Spends, Live
  <2>4. Ordered'
    <3>1. Ordered /\ (openTx # NoTx => openTx \in Txs)
      BY <1>7 DEF Guarded, Typed
    <3>2. openTx # NoTx => tx'[openTx].of = redeemTx
      BY <1>1, <3>1 DEF Ordered
    <3>3. \A u, v \in Txs : tx'[u].kind \in Carries /\ tx'[v].kind \in Carries
                              /\ tx'[u].order = tx'[v].order => tx'[u].of = tx'[v].of
      BY <1>1, <3>1 DEF Ordered
    <3>4. \A u \in Txs, d \in Calls : tx'[u].kind \in Carries /\ call[d].kind \in Carries
                              /\ tx'[u].order = call[d].order => tx'[u].of = call[d].of
      BY <1>1, <3>1 DEF Ordered
    <3>5. \A u \in Txs : tx'[u].kind \in Carries /\ tx'[u].order \in {order, orderId} => tx'[u].of = redeemTx
      BY <1>1, <3>1 DEF Ordered
    <3> QED
      BY <1>1, <3>1, <3>2, <3>3, <3>4, <3>5 DEF Ordered
  <2>5. Owned'
    <3>1. Owned /\ (outcome.how = "composer" => outcome.by \in Txs)
      BY <1>7 DEF Guarded, Reported, Real, Arrived
    <3>2. ASSUME NEW r, NEW st \in {"filled", "refunded"}, OrderOf(r, st) PROVE OrderOf(r, st)'
      BY <1>1, <3>2, ChainStepKeeps DEF OrderOf
    <3>3. Own(outcome)'
      BY <1>1, <3>1, <3>2 DEF Owned, Own, Redeems
    <3> QED
      BY <1>1, <3>1, <3>2, <3>3 DEF Owned
  <2> QED
    BY <2>1, <2>2, <2>3, <2>4, <2>5 DEF Guarded
<1> QED
  BY <1>2, <1>3, <1>4, <1>5, <1>6, <1>7, <1>11

-----------------------------------------------------------------------------
(***************************************************************************)
(* Every step                                                              *)
(***************************************************************************)

\* A new withdrawal has no call, no transaction and nothing to route.
LEMMA InitIInv == ASSUME Init PROVE IInv
<1> USE DEF Init
<1>1. tx = << >> /\ Txs = {}
  BY DEF Txs
<1>2. Typed
  <2>1. tx \in Seq(TxRecords) /\ call \in [Calls -> CallRecords \cup {NoCall}]
    BY <1>1
  <2>2. outcome \in Outcomes
    BY DEF Unreported, NoTx, Outcomes
  <2>3. delta \in Nat /\ wallet \in Nat /\ shares \in Nat /\ nonce \in Nat /\ dest \in Destinations
    BY WithdrawAssumption DEF Destinations
  <2>4. /\ redeemTx \in Txs \cup {NoTx} /\ openTx \in Txs \cup {NoTx} /\ measured \in Txs \cup {NoTx}
        /\ order \in 0..nonce /\ orderId \in 0..nonce
    BY DEF NoTx, NoOrder
  <2>5. /\ open \in BOOLEAN /\ freed \in BOOLEAN /\ stage \in Stages /\ flow \in Flows
        /\ mode \in {"intent", "composer"} /\ panel \in {"idle", "busy", "failed", "stuck"}
    BY DEF Flows, Stages
  <2> QED
    BY <2>1, <2>2, <2>3, <2>4, <2>5 DEF Typed
<1>3. \A c \in Calls : call[c] = NoCall
  OBVIOUS
<1>4. \A c \in Calls : CallShape(c) /\ ~Spends(c) /\ call[c].kind \notin Carries \cup {"route"}
  BY <1>3, NoCallIsFree DEF CallShape, SentPhases, Carries, Spends, Live
<1>5. Mounted /\ Watched /\ RefundsPaid /\ Reported
  BY <1>1 DEF Mounted, Watched, RefundsPaid, Reported, Real, Unreported, NoTx, NoOrder
<1>6. Guarded
  <2>1. Held /\ Paid
    BY <1>4 DEF Held, Paid
  <2>2. Composed
    BY <1>1, <1>4 DEF Composed
  <2>3. Ordered
    BY <1>1, <1>4 DEF Ordered
  <2>4. Owned
    BY DEF Owned, Own, Unreported
  <2> QED
    BY <2>1, <2>2, <2>3, <2>4 DEF Guarded
<1> QED
  BY <1>1, <1>2, <1>4, <1>5, <1>6 DEF IInv

\* A call goes on.
LEMMA CallMoves == ASSUME IInv, NEW c \in Calls, CallStep(c) PROVE IInv'
<1>1. CASE Quoted(c) /\ freed' = freed
  BY <1>1, QuotedStep
<1>2. CASE Refunded(c) /\ nonce' = nonce
  BY <1>2, RefundedStep
<1>3. CASE UNCHANGED <<nonce, freed>> /\ (ReadBefore(c) \/ SendRedeem(c) \/ RedeemFails(c))
  BY <1>3, ReadBeforeStep, SendRedeemStep, RedeemFailsStep
<1>4. CASE UNCHANGED <<nonce, freed>> /\ Redeemed(c)
  BY <1>4, RedeemedStep
<1>5. CASE UNCHANGED <<nonce, freed>> /\ (Measure(c) \/ MeasureFails(c))
  BY <1>5, MeasureStep, MeasureFailsStep
<1>6. CASE UNCHANGED <<nonce, freed>> /\ (RouteAdvances(c) \/ SendRoute(c) \/ RouteFails(c) \/ RouteArrives(c))
  BY <1>6, RouteAdvancesStep, SendRouteStep, RouteFailsStep, RouteArrivesStep
<1>7. CASE UNCHANGED <<nonce, freed>> /\ (OpenChecked(c) \/ SendOpen(c) \/ StepFails(c) \/ Opened(c) \/ SendRefund(c))
  BY <1>7, OpenCheckedStep, SendOpenStep, StepFailsStep, OpenedStep, SendRefundStep
<1> QED
  BY <1>1, <1>2, <1>3, <1>4, <1>5, <1>6, <1>7 DEF CallStep

\* The user clicks, a call goes on, or the chains do.
LEMMA NextStep == ASSUME IInv, Next PROVE IInv'
<1>1. CASE UNCHANGED <<nonce, freed>> /\ (Open \/ EditAmount \/ Prepared \/ TryIntent \/ TryComposer)
  BY <1>1, OpenStep, EditAmountStep, PreparedStep, TryIntentStep, TryComposerStep
<1>2. CASE UNCHANGED <<nonce, freed>> /\ (Close \/ KeepUnderlying \/ Delivered)
  BY <1>2, CloseStep, DeliveredStep
<1>3. CASE UNCHANGED <<nonce, freed>> /\ \E d \in Dests : ChooseDestination(d)
  BY <1>3, ChooseDestinationStep
<1>4. CASE UNCHANGED <<nonce, freed>> /\ \E f \in BusyStates : Prepare(f)
  BY <1>4, PrepareStep
<1>5. CASE UNCHANGED <<nonce, freed>> /\ \E c \in Calls : Click(c)
  <2>1. PICK c \in Calls : Click(c)
    BY <1>5
  <2> QED
    BY <1>5, <2>1, ExecuteStep, StartRouteStep, ClickQuoteStep, ClickOpenStep, ClickRefundStep
       DEF Click
<1>8. CASE UNCHANGED <<nonce, freed>> /\ \E c \in Calls : RoutePolls(c)
  BY <1>8, RoutePollsStep
<1>6. CASE UNCHANGED <<nonce, freed>> /\ \E t \in Txs : ChainStep(t)
  BY <1>6, ChainMoves
<1>7. CASE \E c \in Calls : CallStep(c)
  BY <1>7, CallMoves
<1> QED
  BY <1>1, <1>2, <1>3, <1>4, <1>5, <1>6, <1>7, <1>8 DEF Next

\* Nothing happens.
LEMMA StutterStep == ASSUME IInv, UNCHANGED wVars PROVE IInv'
<1>1. UNCHANGED <<open, flow, dest, delta, measured, redeemTx, mode, panel, stage, nonce, order, openTx, orderId,
                  call, tx, shares, wallet, outcome, freed>>
  BY DEF wVars, flowVars, formVars, stepVars, orderVars, chainVars
<1>2. Typed' /\ (\A t \in Txs : TxShape(t))' /\ RefundsPaid'
  BY <1>1 DEF IInv, Typed, Txs, TxShape, RefundsPaid
<1>3. (\A c \in Calls : CallShape(c))' /\ Mounted'
  BY <1>1 DEF IInv, CallShape, Mounted, Txs
<1>4. Watched' /\ Reported'
  BY <1>1 DEF IInv, Watched, LiveCall, Live, Reported, Real, Redeems, Arrived, OrderIs, Txs
<1>5. ASSUME ~freed' PROVE Guarded'
  <2>1. Held' /\ Paid'
    BY <1>1, <1>5 DEF IInv, Guarded, Held, Paid, Spends, Live, OnPanel, ShowsRoute
  <2>2. Composed'
    BY <1>1, <1>5 DEF IInv, Guarded, Composed, Spends, Live, Txs
  <2>3. Ordered'
    BY <1>1, <1>5 DEF IInv, Guarded, Ordered, Txs
  <2>4. Owned'
    BY <1>1, <1>5 DEF IInv, Guarded, Owned, Own, Redeems, OrderOf, Txs
  <2> QED
    BY <2>1, <2>2, <2>3, <2>4 DEF Guarded
<1> QED
  BY <1>2, <1>3, <1>4, <1>5 DEF IInv

-----------------------------------------------------------------------------
(***************************************************************************)
(* Theorems                                                                *)
(***************************************************************************)

(* The calls under way, the transactions sent and the screen agree at       *)
(* every moment of every withdrawal, through any number of clicks, closings *)
(* and late answers (every await of WithdrawFlow.tsx and                    *)
(* WithdrawIntentRouteStep.tsx).                                            *)
THEOREM WithdrawInductive == Spec => []IInv
<1>1. Init => IInv
  BY InitIInv
<1>2. IInv /\ [Next]_wVars => IInv'
  BY NextStep, StutterStep
<1> QED
  BY <1>1, <1>2, PTL DEF Spec

(* A redeem or a route is shown to be under way only while one is, through  *)
(* every change of phase and every poll of a settlement.  Unless a refund   *)
(* left behind freed the form, no two clicks start two redeems or routes of *)
(* one flow, a running route is on the panel of its own redeem, and the     *)
(* amount to route was measured after the mined redeem on screen (isBusy    *)
(* and the conditions of the buttons, WithdrawFlow.tsx:895 and 1313).       *)
THEOREM ScreenAgrees == Spec => []WithdrawInv
<1>1. IInv => WithdrawInv
  <2> SUFFICES ASSUME IInv PROVE WithdrawInv
    OBVIOUS
  <2>1. /\ open \in BOOLEAN /\ dest \in Destinations /\ delta \in Nat /\ wallet \in Nat /\ shares \in Nat
        /\ redeemTx \in Txs \cup {NoTx} /\ openTx \in Txs \cup {NoTx}
        /\ mode \in {"intent", "composer"} /\ panel \in {"idle", "busy", "failed", "stuck"}
    BY DEF IInv, Typed
  <2>2. /\ (stage # "none") <=> (open /\ dest # "same" /\ delta # 0 /\ mode = "intent")
        /\ flow = "redeeming" => LiveCall("redeem")
        /\ panel = "busy" => LiveCall("route")
        /\ openTx # NoTx => tx[openTx].kind = "open"
    BY DEF IInv, Mounted, Watched
  <2>3. ~freed =>
          /\ \A c, d \in Calls : Spends(c) /\ Spends(d) => c = d
          /\ \A c \in Calls : call[c].kind = "route" /\ Live(c) => OnPanel /\ call[c].of = redeemTx
          /\ delta # 0 => /\ redeemTx = measured /\ redeemTx \in Txs
                          /\ tx[redeemTx].kind = "redeem" /\ tx[redeemTx].st = "mined"
          /\ openTx # NoTx => tx[openTx].of = redeemTx
    BY DEF IInv, Typed, Guarded, Held, Paid, Ordered, Mounted, Spends
  <2> QED
    BY <2>1, <2>2, <2>3 DEF WithdrawInv
<1> QED
  BY <1>1, WithdrawInductive, PTL

(* The proceeds of a redeem are spent by at most one composer route, and    *)
(* only once the redeem is mined, unless a refund left behind freed the     *)
(* form (failedAfterBroadcast, withdrawComposerRoute.ts:153 and             *)
(* WithdrawFlow.tsx:1739).                                                  *)
THEOREM RedeemComposedOnce == Spec => []EachRedeemIsComposedOnce
<1>1. IInv => EachRedeemIsComposedOnce
  BY DEF IInv, Guarded, Composed, EachRedeemIsComposedOnce
<1> QED
  BY <1>1, WithdrawInductive, PTL

(* A withdrawal is reported as routed only when the route has arrived on    *)
(* the chain it leads to or the order was filled, as redeemed only when the *)
(* redeem was mined, and "refunded" is shown once an escrow paid back, even *)
(* when a refund left behind freed the form.  Unless one did, all of it is  *)
(* of the redeem it is reported of (receipt.status, WithdrawFlow.tsx:730,   *)
(* waitForComposerSettlement, WithdrawIntentRouteStep.tsx:337).             *)
THEOREM ReportedIsReal == Spec => []OutcomesAreReal
<1>1. IInv => OutcomesAreReal
  BY DEF IInv, Reported, Guarded, Owned, OutcomesAreReal
<1> QED
  BY <1>1, WithdrawInductive, PTL

=============================================================================
