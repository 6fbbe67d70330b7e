------------------------ MODULE IntentBridgeStep_proofs ------------------------
(***************************************************************************)
(* For every number of legs and orders and all amounts: no deposit is      *)
(* larger than what was delivered, outcomes are real, a leg whose user     *)
(* stays on the intent route opens one order, and a delivered order keeps  *)
(* its step on the page.                                                   *)
(*                                                                         *)
(* The invariant ties three places together: what a step shows, where the  *)
(* handler of its order is, and what the chain has of that order.          *)
(***************************************************************************)
EXTENDS IntentBridgeStep, FiniteSetTheorems, SequenceTheorems, WellFoundedInduction, TLAPS

LegRecords == [status : LegStatus, recoverable : BOOLEAN]
Handlers == [pc : Awaits, pre : Nat, amount : Nat]
Deposits == [state : {"sent", "mined", "reverted"}, amount : Nat \ {0}]

Opening == {"preread", "approve", "receipt"}
Depositing == {"deposit-read", "deposit-quote", "deposit-receipt"}
NotOpen == {"none", "sent", "reverted"}

\* What the filled orders have delivered.
Filled == {o \in Orders : chain[o] = "filled"}
Delivery == Amount * Cardinality(Filled)

Typed ==
    /\ legs \in [Legs -> LegRecords] /\ currentIndex \in 0..NumLegs
    /\ step \in [Legs -> Component] /\ legOf \in [Orders -> 0..NumLegs]
    /\ handler \in [Orders -> Handlers] /\ seen \in [Orders -> OrderState]
    /\ chain \in [Orders -> ChainStates] /\ due \in [Orders -> BOOLEAN]
    /\ deposits \in [Orders -> Seq(Deposits)] /\ balance \in Nat
    /\ toggles \in [Legs -> 0..MaxToggles]

\* A step s that is about an order whose handler is at pc and which the chain
\* has as c.
Shaped(s, pc, c) ==
    /\ \/ s.stage = "quoted" /\ pc = "preread"
       \/ s.stage = "approving" /\ pc = "approve"
       \/ s.stage = "signing" /\ pc = "receipt" /\ s.sent
       \/ s.stage \in PostOpen /\ pc \in {"none"} \cup Depositing /\ s.sent
       \/ s.stage = "refunding" /\ pc = "refund" /\ s.sent
       \/ s.stage = "failed" /\ pc = "none" /\ s.sent
    /\ s.stage \in PostOpen \cup {"refunding"} => c \notin NotOpen
    /\ s.stage \in {"deposit-quoting", "deposit-signing"} \/ pc = "deposit-quote" => s.amount > 0

\* A step is on the page, and about no order or about one of its leg.
StepIsShaped(l) ==
    /\ step[l] # Fresh => Mounted(l)
    /\ step[l].order = 0 =>
          step[l].stage \in {"idle", "quoting", "quoted", "failed"} /\ ~step[l].sent
    /\ step[l].order # 0 =>
          /\ legOf[step[l].order] = l
          /\ Shaped(step[l], handler[step[l].order].pc, chain[step[l].order])

\* What an order's handler, the polls and the deposits know of the chain.
OrderIsKnown(leg, pc, s, c, ds) ==
    /\ leg = 0 => pc = "none" /\ c = "none"
    /\ pc \in Opening => s = "Open"
    /\ pc \in {"preread", "approve"} => c = "none"
    /\ pc = "receipt" => c # "none"
    /\ pc \in Depositing => c = "filled"
    /\ pc = "refund" => c \notin NotOpen
    /\ pc = "deposit-receipt" => ds # <<>>
    /\ s # "Open" => c \notin NotOpen
    /\ s \in Delivered => c = "filled"
    /\ ds # <<>> => c = "filled"

Known == \A o \in Orders : OrderIsKnown(legOf[o], handler[o].pc, seen[o], chain[o], deposits[o])

\* The queue goes forward.  Without a route switch a leg has one order, and
\* when its step has gone the leg is over but for a refund.
Placed ==
    /\ \A o \in Orders : currentIndex # 0 => legOf[o] <= currentIndex
    /\ \A l \in Legs, o, p \in Orders : legOf[o] = l /\ legOf[p] = l /\ toggles[l] = 0 => o = p
    /\ \A l \in Legs, o \in Orders :
          legOf[o] = l /\ toggles[l] = 0 /\ currentIndex = l /\ step[l].order # o =>
             ~Mounted(l) /\ handler[o].pc \in {"none", "refund"}

\* Since a balance was read before opening only deliveries have added to it.
StepIsPaid(l) ==
    /\ step[l].amount <= Delivery
    /\ step[l].order # 0 /\ step[l].stage # "quoted" => balance <= step[l].pre + Delivery

OrderIsPaid(o) ==
    /\ handler[o].pc \in Depositing => handler[o].amount <= Delivery
    /\ handler[o].pc = "deposit-read" => balance <= handler[o].pre + Delivery
    /\ handler[o].pc = "deposit-quote" => handler[o].amount > 0
    /\ \A k \in 1..Len(deposits[o]) : deposits[o][k].amount <= Delivery

Shapes == \A l \in Legs : StepIsShaped(l)
Paid == (\A l \in Legs : StepIsPaid(l)) /\ (\A o \in Orders : OrderIsPaid(o))

LegInv == Typed /\ Shapes /\ Known /\ Placed /\ Paid /\ OutcomesAreReal

-----------------------------------------------------------------------------
(***************************************************************************)
(* Lemmas about the queue                                                  *)
(***************************************************************************)

\* Of some numbers one is the smallest.
LEMMA Smallest ==
  ASSUME NEW S \in SUBSET Nat, S # {}
  PROVE  \E a \in S : \A b \in S : a <= b
<1>1. PICK a \in S : \A b \in S : <<b, a>> \notin OpToRel(<, Nat)
  BY WFMin, NatLessThanWellFounded, Zenon
<1>2. \A b \in S : ~(b < a)
  BY <1>1, Zenon DEF OpToRel
<1> QED
  BY <1>2

\* NEXT stays, ends the queue or goes to a later leg, and from a failed leg it
\* does not stay.
LEMMA NextGoesForward ==
  ASSUME NEW ls \in [Legs -> LegRecords], NEW c \in 0..NumLegs
  PROVE  /\ NextIndex(ls, c) \in 0..NumLegs
         /\ NextIndex(ls, c) = c \/ NextIndex(ls, c) = 0 \/ (c # 0 /\ NextIndex(ls, c) > c)
         /\ c # 0 /\ ls[c].status = "failed" => NextIndex(ls, c) # c
<1> DEFINE later == {l \in Legs : l > c /\ ls[l].status = "pending"}
           first == CHOOSE l \in later : \A k \in later : l <= k
<1>1. NextIndex(ls, c) = IF c = 0 \/ ls[c].status \notin {"done", "failed"} THEN c
                         ELSE IF later = {} THEN 0 ELSE first
  BY DEF NextIndex
<1>2. ASSUME later # {} PROVE first \in later
  <2>1. later \subseteq Nat
    BY QueueAssumption DEF Legs
  <2>2. \E l \in later : \A k \in later : l <= k
    BY <1>2, <2>1, Smallest
  <2> QED
    BY <2>2
<1>3. first \in later => first \in 1..NumLegs /\ first > c
  BY DEF Legs
<1> HIDE DEF later, first
<1> QED
  BY <1>1, <1>2, <1>3, QueueAssumption

\* What was delivered is a number of tokens.
LEMMA Deliveries ==
  /\ IsFiniteSet(Filled) /\ IsFiniteSet(Filled')
  /\ Delivery \in Nat /\ Delivery' \in Nat
<1>1. IsFiniteSet(Orders) /\ Filled \in SUBSET Orders /\ Filled' \in SUBSET Orders
  BY FS_Interval, StepAssumption DEF Orders, Filled
<1>2. IsFiniteSet(Filled) /\ IsFiniteSet(Filled')
  BY <1>1, FS_Subset
<1>3. Cardinality(Filled) \in Nat /\ Cardinality(Filled') \in Nat
  BY <1>2, FS_CardinalityType
<1> QED
  BY <1>2, <1>3, StepAssumption DEF Delivery

\* What the events of an intent do to a leg.
LEMMA EventsMove ==
  ASSUME NEW leg \in LegRecords
  PROVE  /\ ApplyExecutionEvent(leg, Broadcast("intent-open")) = [status |-> "intent-open", recoverable |-> FALSE]
         /\ ApplyExecutionEvent(leg, Broadcast("intent-deposit")) = [status |-> "depositing", recoverable |-> FALSE]
         /\ ApplyExecutionEvent(leg, Opened) = [status |-> "intent-open", recoverable |-> FALSE]
         /\ ApplyExecutionEvent(leg, Confirmed) = [status |-> "done", recoverable |-> FALSE]
         /\ \A r \in BOOLEAN : ApplyExecutionEvent(leg, Failed(r)) = [status |-> "failed", recoverable |-> r]
<1>1. ASSUME NEW s \in LegStatus PROVE To(leg, s) = [status |-> s, recoverable |-> FALSE]
  <2>1. To(leg, s) \in LegRecords
    BY DEF To, LegRecords
  <2>2. To(leg, s).status = s /\ To(leg, s).recoverable = FALSE
    BY DEF To, LegRecords
  <2> HIDE DEF To
  <2> QED
    BY <2>1, <2>2 DEF LegRecords
<1>2. {"intent-open", "depositing", "done"} \subseteq LegStatus
  BY DEF LegStatus
<1> QED
  BY <1>1, <1>2 DEF ApplyExecutionEvent, Broadcast, Opened, Confirmed, Failed

\* The records those events leave.
LEMMA LegRecordsAre == \A s \in LegStatus, r \in BOOLEAN : [status |-> s, recoverable |-> r] \in LegRecords
  BY DEF LegRecords

\* What the order states do to a leg.
LEMMA StatesMove ==
  ASSUME NEW leg \in LegRecords
  PROVE  /\ ApplyExecutionEvent(leg, Status("Refunded")) = [status |-> "refunded", recoverable |-> FALSE]
         /\ ApplyExecutionEvent(leg, Status("Failed")) = [status |-> "failed", recoverable |-> FALSE]
         /\ ApplyExecutionEvent(leg, Status("Expired")) = [status |-> "failed", recoverable |-> TRUE]
         /\ \A s \in Delivered : 
               /\ ApplyExecutionEvent(leg, Status(s)).status \in {"intent-delivered", "depositing", "done"}
               /\ ApplyExecutionEvent(leg, Status(s)).status = "done" => leg.status = "done"
               /\ ApplyExecutionEvent(leg, Status(s)) \in LegRecords
<1>1. \A s \in OrderState :
        ApplyExecutionEvent(leg, Status(s)) =
          [status |-> IntentStatusToLegStatus(s, leg.status),
           recoverable |-> IntentStatusToLegStatus(s, leg.status) = "failed" /\ s = "Expired"]
  BY DEF ApplyExecutionEvent, Status
<1>2. {"Refunded", "Failed", "Expired"} \cup Delivered \subseteq OrderState
  BY DEF OrderState, Delivered
<1>3. /\ IntentStatusToLegStatus("Refunded", leg.status) = "refunded"
      /\ IntentStatusToLegStatus("Failed", leg.status) = "failed"
      /\ IntentStatusToLegStatus("Expired", leg.status) = "failed"
  BY DEF IntentStatusToLegStatus
<1>4. \A s \in Delivered :
        /\ IntentStatusToLegStatus(s, leg.status) \in {"intent-delivered", "depositing", "done"}
        /\ IntentStatusToLegStatus(s, leg.status) = "done" => leg.status = "done"
  BY DEF IntentStatusToLegStatus, Delivered
<1>5. ASSUME NEW s \in Delivered
      PROVE  /\ ApplyExecutionEvent(leg, Status(s)).status \in {"intent-delivered", "depositing", "done"}
             /\ ApplyExecutionEvent(leg, Status(s)).status = "done" => leg.status = "done"
             /\ ApplyExecutionEvent(leg, Status(s)) \in LegRecords
  <2>1. ApplyExecutionEvent(leg, Status(s)) =
          [status |-> IntentStatusToLegStatus(s, leg.status), recoverable |-> FALSE]
    BY <1>1, <1>2, <1>4
  <2>2. IntentStatusToLegStatus(s, leg.status) \in LegStatus
    BY <1>4 DEF LegStatus
  <2> QED
    BY <1>4, <2>1, <2>2 DEF LegRecords
<1>6. /\ ApplyExecutionEvent(leg, Status("Refunded")) = [status |-> "refunded", recoverable |-> FALSE]
      /\ ApplyExecutionEvent(leg, Status("Failed")) = [status |-> "failed", recoverable |-> FALSE]
      /\ ApplyExecutionEvent(leg, Status("Expired")) = [status |-> "failed", recoverable |-> TRUE]
  BY <1>1, <1>2, <1>3
<1> QED
  BY <1>5, <1>6

\* A step that is not of the current leg is fresh.
LEMMA OnePage ==
  ASSUME Typed, Shapes, NEW l \in Legs, l # currentIndex
  PROVE  step[l] = Fresh /\ step[l].order = 0 /\ ~Mounted(l)
<1>1. ~Mounted(l)
  BY DEF Mounted, ShouldRenderFlow
<1> QED
  BY <1>1 DEF Shapes, StepIsShaped, Fresh

\* What Show makes of the page when the leg of an order is set to lg and its
\* step, if it is still there, to s.
LEMMA Shown ==
  ASSUME Typed, Shapes, NEW o \in Orders, NEW l \in Legs, l = legOf[o],
         NEW lg \in LegRecords, NEW s \in Component,
         Show([legs EXCEPT ![l] = lg], currentIndex,
              IF Hosted(o) THEN [step EXCEPT ![l] = s] ELSE step)
  PROVE  /\ legs' \in [Legs -> LegRecords] /\ legs'[l] = lg
         /\ currentIndex' = currentIndex /\ step' \in [Legs -> Component]
         /\ \A k \in Legs \ {l} :
              step'[k] = step[k] /\ legs'[k] = legs[k] /\ (Mounted(k)' <=> Mounted(k))
         /\ ~Mounted(l)' => step'[l] = Fresh
         /\ Mounted(l)' /\ Hosted(o) => step'[l] = s
         /\ ~Hosted(o) => step'[l] = step[l] \/ step'[l] = Fresh
<1> DEFINE st == IF Hosted(o) THEN [step EXCEPT ![l] = s] ELSE step
<1>1. /\ legs' = [legs EXCEPT ![l] = lg] /\ currentIndex' = currentIndex
      /\ step' = [k \in Legs |-> IF ShouldRenderFlow(legs', currentIndex', k) THEN st[k] ELSE Fresh]
  BY DEF Show
<1>2. /\ st \in [Legs -> Component] /\ \A k \in Legs \ {l} : st[k] = step[k]
      /\ (Hosted(o) => st[l] = s) /\ (~Hosted(o) => st[l] = step[l])
  BY DEF Typed
<1>3. Fresh \in Component
  BY StepAssumption DEF Fresh, Component, Stages
<1> HIDE DEF st
<1>4. legs' \in [Legs -> LegRecords] /\ legs'[l] = lg /\ \A k \in Legs \ {l} : legs'[k] = legs[k]
  BY <1>1 DEF Typed
<1>5. step' \in [Legs -> Component]
  BY <1>1, <1>2, <1>3
<1>6. \A k \in Legs : step'[k] = IF Mounted(k)' THEN st[k] ELSE Fresh
  BY <1>1 DEF Mounted
<1>7. ASSUME NEW k \in Legs \ {l} PROVE (Mounted(k)' <=> Mounted(k)) /\ step'[k] = step[k]
  <2>1. Mounted(k)' <=> Mounted(k)
    BY <1>1, <1>4 DEF Mounted, ShouldRenderFlow
  <2>2. ~Mounted(k) => step[k] = Fresh
    BY DEF Shapes, StepIsShaped
  <2> QED
    BY <1>2, <1>6, <2>1, <2>2
<1> QED
  BY <1>1, <1>2, <1>4, <1>5, <1>6, <1>7

-----------------------------------------------------------------------------
(***************************************************************************)
(* A step of one leg and its orders                                        *)
(***************************************************************************)

OrderIsKept(o) ==
    /\ legOf'[o] = legOf[o] /\ handler'[o] = handler[o] /\ seen'[o] = seen[o]
    /\ chain'[o] = chain[o] /\ deposits'[o] = deposits[o]

\* Order o of leg l has moved, knows what it should, and what happened to it
\* is not undone.
OrderHasMoved(o, l) ==
    /\ legOf[o] \in {0, l} /\ legOf'[o] \in {0, l}
    /\ OrderIsKnown(legOf'[o], handler'[o].pc, seen'[o], chain'[o], deposits'[o])
    /\ OrderIsPaid(o)'
    /\ chain[o] = "refunded" => chain'[o] = "refunded" /\ legOf'[o] = legOf[o]
    /\ \A k \in 1..Len(deposits[o]) : deposits[o][k].state = "mined" =>
          legOf'[o] = legOf[o] /\ k \in 1..Len(deposits'[o]) /\ deposits'[o][k].state = "mined"

HasDeposited(l) ==
    \E o \in Orders : legOf[o] = l /\ \E k \in 1..Len(deposits[o]) : deposits[o][k].state = "mined"
HasRefunded(l) == \E o \in Orders : legOf[o] = l /\ chain[o] = "refunded"
LegIsReal(l) ==
    /\ legs[l].status = "done" => HasDeposited(l)
    /\ legs[l].status = "refunded" => HasRefunded(l)

\* The invariant is kept when all that moves is leg l with its orders, and these
\* end as they should.
LEMMA OneLegMoves ==
  ASSUME LegInv, Typed', NEW l \in Legs,
         balance' = balance, Delivery' = Delivery, currentIndex' = currentIndex,
         \A k \in Legs \ {l} : legs'[k] = legs[k] /\ step'[k] = step[k] /\ toggles'[k] = toggles[k],
         \A o \in Orders : OrderIsKept(o) \/ OrderHasMoved(o, l),
         StepIsShaped(l)', StepIsPaid(l)',
         legs'[l].status = "done" => legs[l].status = "done" \/ HasDeposited(l)',
         legs'[l].status = "refunded" => legs[l].status = "refunded" \/ HasRefunded(l)',
         \A o \in Orders : (legOf[o] # l /\ legOf'[o] = l) =>
            currentIndex = l /\ (toggles'[l] # 0 \/ \A p \in Orders \ {o} : legOf'[p] # l),
         toggles'[l] = 0 => toggles[l] = 0,
         \A o \in Orders : (legOf'[o] = l /\ toggles'[l] = 0 /\ currentIndex = l /\ step'[l].order # o) =>
            ~Mounted(l)' /\ handler'[o].pc \in {"none", "refund"}
  PROVE  LegInv'
<1>0. \A k \in Legs : k # 0
  BY QueueAssumption DEF Legs
<1>1. \A k \in Legs \ {l} : Mounted(k)' <=> Mounted(k)
  BY DEF Mounted, ShouldRenderFlow
<1>2. \A o \in Orders : legOf'[o] \notin {0, l} => OrderIsKept(o)
  BY DEF OrderHasMoved
<1>3. \A o \in Orders : legOf'[o] \notin {0, l} => legOf'[o] \in Legs \ {l}
  BY QueueAssumption DEF Typed, Legs
<1>4. Shapes'
  <2>1. SUFFICES ASSUME NEW k \in Legs \ {l} PROVE StepIsShaped(k)'
    BY DEF Shapes
  <2>2. step'[k] = step[k] /\ StepIsShaped(k)
    BY DEF LegInv, Shapes
  <2>3. CASE step[k].order = 0
    BY <1>1, <2>2, <2>3 DEF StepIsShaped
  <2>4. CASE step[k].order # 0
    <3>0. step[k].order \in 0..NumOrders
      BY DEF LegInv, Typed, Component
    <3>1. step[k].order \in Orders /\ legOf[step[k].order] = k
      BY <2>2, <2>4, <3>0, StepAssumption DEF StepIsShaped, Orders
    <3>2. OrderIsKept(step[k].order)
      BY <1>0, <3>1 DEF OrderHasMoved
    <3>3. /\ legOf'[step[k].order] = k
          /\ handler'[step[k].order].pc = handler[step[k].order].pc
          /\ chain'[step[k].order] = chain[step[k].order]
      BY <3>1, <3>2 DEF OrderIsKept
    <3>4. Shaped(step[k], handler[step[k].order].pc, chain[step[k].order])
      BY <2>2, <2>4 DEF StepIsShaped
    <3>5. Shaped(step'[k], handler'[step'[k].order].pc, chain'[step'[k].order])
      BY <2>2, <3>3, <3>4
    <3>6. step'[k] # Fresh => Mounted(k)'
      BY <1>1, <2>2 DEF StepIsShaped
    <3> QED
      BY <2>2, <2>4, <3>3, <3>5, <3>6 DEF StepIsShaped
  <2> QED
    BY <2>3, <2>4
<1>5. Known'
  BY DEF LegInv, Known, OrderIsKept, OrderHasMoved
<1>6. Placed'
  <2>1. ASSUME NEW o \in Orders, currentIndex' # 0 PROVE legOf'[o] <= currentIndex'
    <3>1. legOf[o] <= currentIndex /\ currentIndex \in Nat
      BY <2>1, QueueAssumption DEF LegInv, Placed, Typed
    <3>2. CASE OrderIsKept(o)
      BY <3>1, <3>2 DEF OrderIsKept
    <3>3. CASE OrderHasMoved(o, l)
      BY <3>1, <3>3, QueueAssumption DEF OrderHasMoved, Legs
    <3> QED
      BY <3>2, <3>3
  <2>2. ASSUME NEW k \in Legs, NEW o \in Orders, NEW p \in Orders,
               legOf'[o] = k, legOf'[p] = k, toggles'[k] = 0
        PROVE  o = p
    <3>1. CASE k # l
      <4>1. OrderIsKept(o) /\ OrderIsKept(p)
        BY <1>0, <1>2, <2>2, <3>1
      <4> QED
        BY <2>2, <3>1, <4>1 DEF OrderIsKept, LegInv, Placed
    <3>2. CASE k = l
      <4>1. CASE legOf[o] = l /\ legOf[p] = l
        BY <2>2, <3>2, <4>1 DEF LegInv, Placed
      <4>2. CASE legOf[o] # l
        BY <2>2, <3>2, <4>2
      <4>3. CASE legOf[p] # l
        BY <2>2, <3>2, <4>3
      <4> QED
        BY <4>1, <4>2, <4>3
    <3> QED
      BY <3>1, <3>2
  <2>3. ASSUME NEW k \in Legs, NEW o \in Orders,
               legOf'[o] = k, toggles'[k] = 0, currentIndex' = k, step'[k].order # o
        PROVE  ~Mounted(k)' /\ handler'[o].pc \in {"none", "refund"}
    <3>1. CASE k = l
      BY <2>3, <3>1
    <3>2. CASE k # l
      <4>1. OrderIsKept(o)
        BY <1>0, <1>2, <2>3, <3>2
      <4>2. ~Mounted(k) /\ handler[o].pc \in {"none", "refund"}
        BY <2>3, <3>2, <4>1 DEF OrderIsKept, LegInv, Placed
      <4> QED
        BY <1>1, <3>2, <4>1, <4>2 DEF OrderIsKept
    <3> QED
      BY <3>1, <3>2
  <2> QED
    BY <2>1, <2>2, <2>3, Zenon DEF Placed
<1>7. Paid'
  <2>1. ASSUME NEW k \in Legs \ {l} PROVE StepIsPaid(k)'
    BY DEF LegInv, Paid, StepIsPaid
  <2>2. ASSUME NEW o \in Orders PROVE OrderIsPaid(o)'
    BY DEF LegInv, Paid, OrderIsPaid, OrderIsKept, OrderHasMoved
  <2> QED
    BY <2>1, <2>2 DEF Paid
<1>8. OutcomesAreReal'
  <2>1. SUFFICES ASSUME NEW k \in Legs PROVE LegIsReal(k)'
    BY <2>1 DEF OutcomesAreReal, LegIsReal, HasDeposited, HasRefunded
  <2>2. LegIsReal(k)
    BY DEF LegInv, OutcomesAreReal, LegIsReal, HasDeposited, HasRefunded
  <2>3. HasDeposited(k) => HasDeposited(k)'
    BY <1>0 DEF HasDeposited, OrderIsKept, OrderHasMoved
  <2>4. HasRefunded(k) => HasRefunded(k)'
    BY <1>0 DEF HasRefunded, OrderIsKept, OrderHasMoved
  <2> QED
    BY <2>2, <2>3, <2>4 DEF LegIsReal
<1> QED
  BY <1>4, <1>5, <1>6, <1>7, <1>8 DEF LegInv

\* A fresh step is about nothing.
LEMMA FreshIsFine ==
  ASSUME LegInv, Typed', NEW l \in Legs, step'[l] = Fresh
  PROVE  StepIsShaped(l)' /\ StepIsPaid(l)'
<1>1. Delivery' \in Nat
  BY Deliveries
<1> QED
  BY <1>1 DEF StepIsShaped, StepIsPaid, Fresh

\* The handler of order o sets leg l to lg and its step, if there, to s.
LEMMA HandlerKeeps ==
  ASSUME LegInv, Typed', NEW o \in Orders, NEW l \in Legs, l = legOf[o],
         NEW lg \in LegRecords, NEW s \in Component,
         Show([legs EXCEPT ![l] = lg], currentIndex,
              IF Hosted(o) THEN [step EXCEPT ![l] = s] ELSE step),
         balance' = balance, toggles' = toggles, Delivery' = Delivery,
         \A p \in Orders \ {o} : OrderIsKept(p), OrderHasMoved(o, l),
         Hosted(o) /\ Mounted(l)' =>
            /\ s.order = o /\ legOf'[o] = l /\ Shaped(s, handler'[o].pc, chain'[o])
            /\ s.amount <= Delivery /\ balance <= s.pre + Delivery,
         Hosted(o) /\ legOf'[o] = l /\ ~Mounted(l)' => handler'[o].pc \in {"none", "refund"},
         ~Hosted(o) /\ ~Mounted(l) /\ handler[o].pc \in {"none", "refund"} =>
            ~Mounted(l)' /\ handler'[o].pc \in {"none", "refund"},
         lg.status = "done" => legs[l].status = "done" \/ HasDeposited(l)',
         lg.status = "refunded" => legs[l].status = "refunded" \/ HasRefunded(l)'
  PROVE  LegInv'
<1>0. l # 0 /\ o # 0 /\ (Hosted(o) <=> step[l].order = o)
  BY DEF Legs, Orders, Hosted
<1>1. /\ legs' \in [Legs -> LegRecords] /\ legs'[l] = lg
      /\ currentIndex' = currentIndex /\ step' \in [Legs -> Component]
      /\ \A k \in Legs \ {l} :
           step'[k] = step[k] /\ legs'[k] = legs[k] /\ (Mounted(k)' <=> Mounted(k))
      /\ ~Mounted(l)' => step'[l] = Fresh
      /\ Mounted(l)' /\ Hosted(o) => step'[l] = s
      /\ ~Hosted(o) => step'[l] = step[l] \/ step'[l] = Fresh
  BY Shown DEF LegInv
<1>2. StepIsShaped(l)' /\ StepIsPaid(l)'
  <2>1. CASE step'[l] = Fresh
    BY <2>1, FreshIsFine
  <2>2. CASE step'[l] # Fresh /\ Hosted(o)
    <3>1. Mounted(l)' /\ step'[l] = s
      BY <1>1, <2>2
    <3> QED
      BY <1>0, <2>2, <3>1 DEF StepIsShaped, StepIsPaid
  <2>3. CASE step'[l] # Fresh /\ ~Hosted(o)
    <3>1. Mounted(l)' /\ step'[l] = step[l] /\ StepIsShaped(l) /\ StepIsPaid(l)
      BY <1>1, <2>3 DEF LegInv, Shapes, Paid
    <3>2. StepIsPaid(l)'
      BY <3>1 DEF StepIsPaid
    <3>3. CASE step[l].order = 0
      BY <3>1, <3>2, <3>3 DEF StepIsShaped
    <3>4. CASE step[l].order # 0
      <4>0. step[l].order \in 0..NumOrders
        BY DEF LegInv, Typed, Component
      <4>1. step[l].order \in Orders \ {o}
        BY <1>0, <2>3, <3>4, <4>0, StepAssumption DEF Orders
      <4>2. OrderIsKept(step[l].order)
        BY <4>1
      <4>3. /\ legOf'[step[l].order] = l
            /\ Shaped(step[l], handler'[step[l].order].pc, chain'[step[l].order])
        BY <3>1, <3>4, <4>2 DEF StepIsShaped, OrderIsKept
      <4> QED
        BY <3>1, <3>2, <3>4, <4>3 DEF StepIsShaped
    <3> QED
      BY <3>3, <3>4
  <2> QED
    BY <2>1, <2>2, <2>3
<1>3. ASSUME NEW p \in Orders, legOf'[p] = l, toggles'[l] = 0, currentIndex = l, step'[l].order # p
      PROVE  ~Mounted(l)' /\ handler'[p].pc \in {"none", "refund"}
  <2>1. legOf[p] = l
    BY <1>3 DEF OrderIsKept
  <2>2. p = o
    BY <1>3, <2>1 DEF LegInv, Placed
  <2>3. CASE Hosted(o)
    BY <1>1, <1>3, <2>2, <2>3
  <2>4. CASE ~Hosted(o)
    BY <1>0, <1>3, <2>2, <2>4 DEF LegInv, Placed
  <2> QED
    BY <2>3, <2>4
<1>4. \A p \in Orders : (legOf[p] # l /\ legOf'[p] = l) => FALSE
  BY DEF OrderIsKept
<1>5. \A p \in Orders : OrderIsKept(p) \/ OrderHasMoved(p, l)
  OBVIOUS
<1>6. \A k \in Legs \ {l} : legs'[k] = legs[k] /\ step'[k] = step[k] /\ toggles'[k] = toggles[k]
  BY <1>1
<1> QED
  BY <1>1, <1>2, <1>3, <1>4, <1>5, <1>6, OneLegMoves

-----------------------------------------------------------------------------
(***************************************************************************)
(* The user's steps                                                        *)
(***************************************************************************)

\* A step on the page becomes s, and of the orders at most the one of s moves.
LEMMA PageKeeps ==
  ASSUME LegInv, Typed', NEW l \in Legs, Mounted(l), NEW s \in Component,
         step' = [step EXCEPT ![l] = s],
         UNCHANGED <<legs, currentIndex, toggles, balance, chain>>,
         \A p \in Orders : OrderIsKept(p) \/ (p = s.order /\ OrderHasMoved(p, l)),
         s.order = 0 => s.stage \in {"idle", "quoting", "quoted", "failed"} /\ ~s.sent,
         s.order # 0 => legOf'[s.order] = l /\ Shaped(s, handler'[s.order].pc, chain[s.order]),
         s.amount <= Delivery,
         s.order # 0 /\ s.stage # "quoted" => balance <= s.pre + Delivery,
         step[l].order \in {0, s.order}
  PROVE  LegInv'
<1>0. l # 0 /\ 0 \notin Orders /\ currentIndex = l
  BY DEF Legs, Orders, Mounted, ShouldRenderFlow
<1>1. step'[l] = s /\ \A k \in Legs \ {l} : step'[k] = step[k]
  BY DEF LegInv, Typed
<1>2. Mounted(l)' /\ Delivery' = Delivery
  BY DEF Mounted, Delivery, Filled
<1>3. StepIsShaped(l)'
  BY <1>1, <1>2 DEF StepIsShaped
<1>4. StepIsPaid(l)'
  BY <1>1, <1>2 DEF StepIsPaid
<1>5. ASSUME NEW p \in Orders, legOf[p] = l, toggles[l] = 0 PROVE p = s.order
  BY <1>0, <1>5 DEF LegInv, Placed
<1>6. ASSUME NEW p \in Orders, legOf[p] # l, legOf'[p] = l, toggles[l] = 0, NEW q \in Orders \ {p}
      PROVE  legOf'[q] # l
  <2>1. p = s.order
    BY <1>6 DEF OrderIsKept
  <2> QED
    BY <1>5, <1>6, <2>1 DEF OrderIsKept
<1>7. ASSUME NEW p \in Orders, legOf'[p] = l, toggles[l] = 0, s.order # p PROVE FALSE
  BY <1>5, <1>7 DEF OrderIsKept
<1>8. \A p \in Orders : OrderIsKept(p) \/ OrderHasMoved(p, l)
  OBVIOUS
<1>9. \A p \in Orders : (legOf[p] # l /\ legOf'[p] = l) =>
        currentIndex = l /\ (toggles'[l] # 0 \/ \A q \in Orders \ {p} : legOf'[q] # l)
  BY <1>0, <1>6
<1>10. \A p \in Orders : (legOf'[p] = l /\ toggles'[l] = 0 /\ currentIndex = l /\ step'[l].order # p) =>
          ~Mounted(l)' /\ handler'[p].pc \in {"none", "refund"}
  BY <1>1, <1>7
<1> QED
  BY <1>1, <1>2, <1>3, <1>4, <1>8, <1>9, <1>10, OneLegMoves

LEMMA QuoteKeeps ==
  ASSUME LegInv, NEW l \in Legs, HandleQuote(l) \/ QuoteEnds(l)
  PROVE  LegInv'
<1>1. PICK t \in Stages : /\ step' = [step EXCEPT ![l].stage = t]
                          /\ t \in {"quoting", "quoted", "failed"}
  BY DEF HandleQuote, QuoteEnds, Stages
<1> DEFINE s == [step[l] EXCEPT !.stage = t]
<1>2. StepIsShaped(l) /\ StepIsPaid(l) /\ step[l] \in Component
  BY DEF LegInv, Shapes, Paid, Typed
<1>3. step[l].order = 0 /\ ~step[l].sent
  BY <1>2 DEF StepIsShaped, Shaped, HandleQuote, QuoteEnds, PostOpen
<1>4. Mounted(l)
  BY <1>2 DEF HandleQuote, QuoteEnds, StepIsShaped, Fresh
<1>5. s \in Component /\ s.order = 0 /\ ~s.sent /\ s.amount = step[l].amount /\ s.stage = t
  BY <1>2, <1>3 DEF Component
<1>6. step' = [step EXCEPT ![l] = s]
  BY <1>1
<1>7. UNCHANGED <<legs, currentIndex, legOf, handler, seen, chain, due, deposits, balance, toggles>>
  BY DEF HandleQuote, QuoteEnds, chainVars
<1> HIDE DEF s
<1>8. Typed'
  BY <1>5, <1>6, <1>7 DEF LegInv, Typed
<1>9. \A p \in Orders : OrderIsKept(p)
  BY <1>7 DEF OrderIsKept
<1>10. s.amount <= Delivery
  BY <1>2, <1>5 DEF StepIsPaid
<1> QED
  BY <1>1, <1>3, <1>4, <1>5, <1>6, <1>7, <1>8, <1>9, <1>10, PageKeeps

LEMMA OpenKeeps ==
  ASSUME LegInv, NEW l \in Legs, HandleOpen(l)
  PROVE  LegInv'
<1>1. PICK o \in Orders :
        /\ legOf[o] = 0 /\ legOf' = [legOf EXCEPT ![o] = l]
        /\ step' = [step EXCEPT ![l].order = o] /\ At(o, "preread")
  BY DEF HandleOpen
<1> DEFINE s == [step[l] EXCEPT !.order = o]
<1>2. StepIsPaid(l) /\ step[l] \in Component /\ OrderIsPaid(o)
      /\ OrderIsKnown(legOf[o], handler[o].pc, seen[o], chain[o], deposits[o])
  BY DEF LegInv, Paid, Typed, Known
<1>3. Mounted(l) /\ step[l].order = 0 /\ step[l].stage = "quoted"
  BY DEF HandleOpen
<1>4. /\ s \in Component /\ s.order = o /\ s.stage = "quoted" /\ s.amount = step[l].amount /\ o # 0
  BY <1>2, <1>3 DEF Component, Orders
<1>5. step' = [step EXCEPT ![l] = s]
  BY <1>1
<1>6. UNCHANGED <<legs, currentIndex, seen, chain, due, deposits, balance, toggles>>
  BY DEF HandleOpen, chainVars
<1> HIDE DEF s
<1>7. /\ handler'[o].pc = "preread" /\ legOf'[o] = l /\ handler' \in [Orders -> Handlers]
      /\ \A p \in Orders \ {o} : legOf'[p] = legOf[p] /\ handler'[p] = handler[p]
  BY <1>1 DEF At, LegInv, Typed, Handlers, Awaits
<1>8. Typed'
  <2>1. legOf' \in [Orders -> 0..NumLegs]
    BY <1>1, QueueAssumption DEF LegInv, Typed, Legs
  <2>2. step' \in [Legs -> Component]
    BY <1>4, <1>5 DEF LegInv, Typed
  <2> QED
    BY <1>6, <1>7, <2>1, <2>2 DEF LegInv, Typed
<1>9. \A p \in Orders \ {o} : OrderIsKept(p)
  BY <1>6, <1>7 DEF OrderIsKept
<1>10. OrderHasMoved(o, l)
  <2>1. OrderIsKnown(l, "preread", seen[o], chain[o], deposits[o])
    BY <1>1, <1>2 DEF OrderIsKnown, Opening, Depositing, Delivered, NotOpen, Legs
  <2>2. chain[o] = "none" /\ deposits[o] = <<>>
    BY <1>1, <1>2 DEF OrderIsKnown
  <2>3. OrderIsPaid(o)'
    BY <1>6, <1>7, <2>2 DEF OrderIsPaid, Depositing
  <2> QED
    BY <1>1, <1>6, <1>7, <2>1, <2>2, <2>3 DEF OrderHasMoved
<1>11. Shaped(s, handler'[o].pc, chain[o])
  BY <1>4, <1>7 DEF Shaped, PostOpen
<1>12. s.amount <= Delivery
  BY <1>2, <1>4 DEF StepIsPaid
<1> QED
  BY <1>3, <1>4, <1>5, <1>6, <1>7, <1>8, <1>9, <1>10, <1>11, <1>12, PageKeeps

LEMMA RefundKeeps ==
  ASSUME LegInv, NEW l \in Legs, HandleRefund(l)
  PROVE  LegInv'
<1>1. StepIsPaid(l) /\ StepIsShaped(l) /\ step[l] \in Component
  BY DEF LegInv, Paid, Shapes, Typed
<1>2. PICK o \in Orders : o = step[l].order /\ o # 0
  BY <1>1 DEF HandleRefund, Component, Orders
<1> DEFINE s == [step[l] EXCEPT !.stage = "refunding"]
<1>3. /\ step[l].stage \in PostOpen /\ handler[o].pc = "none" /\ At(o, "refund")
      /\ step' = [step EXCEPT ![l] = s]
      /\ UNCHANGED <<legs, currentIndex, legOf, seen, chain, due, deposits, balance, toggles>>
  BY <1>2 DEF HandleRefund, Ready, chainVars
<1>4. /\ s \in Component /\ s.order = o /\ s.stage = "refunding" /\ s.sent = step[l].sent
      /\ s.amount = step[l].amount /\ s.pre = step[l].pre
  BY <1>1, <1>2 DEF Component, Stages
<1>5. /\ legOf[o] = l /\ step[l].sent /\ chain[o] \notin NotOpen /\ Mounted(l)
      /\ step[l].amount <= Delivery /\ balance <= step[l].pre + Delivery
  BY <1>1, <1>2, <1>3 DEF StepIsShaped, StepIsPaid, Shaped, PostOpen, Fresh
<1>6. OrderIsPaid(o) /\ OrderIsKnown(legOf[o], handler[o].pc, seen[o], chain[o], deposits[o])
  BY <1>2 DEF LegInv, Paid, Known
<1> HIDE DEF s
<1>7. /\ handler'[o].pc = "refund" /\ handler' \in [Orders -> Handlers]
      /\ \A p \in Orders \ {o} : handler'[p] = handler[p]
  BY <1>2, <1>3, ZenonT(60) DEF At, LegInv, Typed, Handlers, Awaits
<1>8. Typed'
  BY <1>3, <1>4, <1>7 DEF LegInv, Typed
<1>9. \A p \in Orders \ {o} : OrderIsKept(p)
  BY <1>3, <1>7 DEF OrderIsKept
<1>10. OrderHasMoved(o, l)
  <2>1. OrderIsKnown(l, "refund", seen[o], chain[o], deposits[o])
    BY <1>3, <1>5, <1>6 DEF OrderIsKnown, Opening, Depositing, Legs
  <2>2. Delivery' = Delivery
    BY <1>3 DEF Delivery, Filled
  <2>3. OrderIsPaid(o)'
    BY <1>3, <1>6, <1>7, <2>2 DEF OrderIsPaid, Depositing
  <2> QED
    BY <1>3, <1>5, <1>7, <2>1, <2>3 DEF OrderHasMoved
<1>11. Shaped(s, handler'[o].pc, chain[o])
  BY <1>4, <1>5, <1>7 DEF Shaped, PostOpen
<1> QED
  BY <1>1, <1>2, <1>3, <1>4, <1>5, <1>7, <1>8, <1>9, <1>10, <1>11, PageKeeps, ZenonT(60)

LEMMA DeltaKeeps ==
  ASSUME LegInv, NEW l \in Legs, ReadDelta(l)
  PROVE  LegInv'
<1> DEFINE s == [step[l] EXCEPT !.amount = balance - step[l].pre]
<1>1. StepIsPaid(l) /\ StepIsShaped(l) /\ step[l] \in Component /\ balance \in Nat
  BY DEF LegInv, Paid, Shapes, Typed
<1>2. PICK o \in Orders : o = step[l].order /\ o # 0
  BY <1>1 DEF ReadDelta, Component, Orders
<1>3. /\ step[l].stage = "open" /\ balance > step[l].pre
      /\ step' = [step EXCEPT ![l] = s]
      /\ UNCHANGED <<legs, currentIndex, legOf, handler, seen, chain, due, deposits, balance, toggles>>
  BY DEF ReadDelta, chainVars
<1>4. /\ s \in Component /\ s.order = o /\ s.stage = "open" /\ s.sent = step[l].sent
      /\ s.pre = step[l].pre /\ s.amount = balance - step[l].pre /\ s.amount > 0
  BY <1>2, <1>1, <1>3 DEF Component
<1>5. /\ legOf[o] = l /\ Shaped(step[l], handler[o].pc, chain[o]) /\ Mounted(l)
      /\ balance <= step[l].pre + Delivery
  BY <1>2, <1>1, <1>3 DEF StepIsShaped, StepIsPaid, Fresh
<1> HIDE DEF s
<1>6. Typed'
  BY <1>3, <1>4 DEF LegInv, Typed
<1>7. \A p \in Orders : OrderIsKept(p)
  BY <1>3 DEF OrderIsKept
<1>8. Shaped(s, handler'[o].pc, chain[o])
  BY <1>3, <1>4, <1>5 DEF Shaped, PostOpen
<1>9. s.amount <= Delivery
  <2>1. Delivery \in Nat
    BY Deliveries
  <2> QED
    BY <1>1, <1>4, <1>5, <2>1 DEF Component
<1> QED
  BY <1>2, <1>3, <1>4, <1>5, <1>6, <1>7, <1>8, <1>9, PageKeeps

LEMMA DepositKeeps ==
  ASSUME LegInv, NEW l \in Legs, HandleDeposit(l)
  PROVE  LegInv'
<1> DEFINE h == [pc |-> "deposit-read", pre |-> step[l].pre, amount |-> step[l].amount]
<1>1. StepIsPaid(l) /\ StepIsShaped(l) /\ step[l] \in Component
  BY DEF LegInv, Paid, Shapes, Typed
<1>2. DepositOffered(l)
  BY DEF HandleDeposit
<1>3. PICK o \in Orders : o = step[l].order /\ o # 0
  BY <1>2, <1>1 DEF DepositOffered, Component, Orders
<1>4. /\ step[l].stage \in {"open", "deposit-failed"} /\ seen[o] \in Delivered
      /\ handler[o].pc = "none" /\ handler' = [handler EXCEPT ![o] = h]
      /\ UNCHANGED <<legs, currentIndex, step, legOf, seen, chain, due, deposits, balance, toggles>>
  BY <1>3 DEF HandleDeposit, DepositOffered, Ready, chainVars
<1>5. OrderIsPaid(o) /\ OrderIsKnown(legOf[o], handler[o].pc, seen[o], chain[o], deposits[o])
  BY <1>3 DEF LegInv, Paid, Known
<1>6. /\ legOf[o] = l /\ Shaped(step[l], "none", chain[o]) /\ Mounted(l)
      /\ step[l].amount <= Delivery /\ balance <= step[l].pre + Delivery
  BY <1>1, <1>4, <1>3 DEF StepIsShaped, StepIsPaid, Fresh
<1>7. h \in Handlers
  BY <1>1 DEF Handlers, Awaits, Component
<1>8. /\ handler'[o] = h /\ handler' \in [Orders -> Handlers]
      /\ \A p \in Orders \ {o} : handler'[p] = handler[p]
  BY <1>4, <1>3, <1>7 DEF LegInv, Typed
<1>9. step' = [step EXCEPT ![l] = step[l]]
  BY <1>4 DEF LegInv, Typed
<1>10. h.pc = "deposit-read" /\ h.pre = step[l].pre /\ h.amount = step[l].amount
  OBVIOUS
<1> HIDE DEF h
<1>11. Typed'
  BY <1>4, <1>8 DEF LegInv, Typed
<1>12. \A p \in Orders \ {o} : OrderIsKept(p)
  BY <1>4, <1>8 DEF OrderIsKept
<1>13. OrderHasMoved(o, l)
  <2>1. OrderIsKnown(l, "deposit-read", seen[o], chain[o], deposits[o])
    BY <1>4, <1>5, <1>6 DEF OrderIsKnown, Opening, Depositing, Legs
  <2>2. Delivery' = Delivery
    BY <1>4 DEF Delivery, Filled
  <2>3. OrderIsPaid(o)'
    BY <1>4, <1>5, <1>6, <1>8, <1>10, <2>2 DEF OrderIsPaid, Depositing
  <2> QED
    BY <1>4, <1>6, <1>8, <1>10, <2>1, <2>3 DEF OrderHasMoved
<1>14. Shaped(step[l], handler'[o].pc, chain[o])
  BY <1>4, <1>6, <1>8, <1>10 DEF Shaped, PostOpen, Depositing
<1>15. /\ UNCHANGED <<legs, currentIndex, toggles, balance, chain>>
       /\ step[l].order # 0 /\ step[l].order \in {0, step[l].order}
       /\ legOf'[step[l].order] = l /\ Shaped(step[l], handler'[step[l].order].pc, chain[step[l].order])
  BY <1>4, <1>3, <1>6, <1>14
<1>16. \A p \in Orders : OrderIsKept(p) \/ (p = step[l].order /\ OrderHasMoved(p, l))
  BY <1>3, <1>12, <1>13
<1> QED
  BY <1>1, <1>6, <1>9, <1>11, <1>15, <1>16, PageKeeps

\* A new step takes the place of the old one.
LEMMA ToggleKeeps ==
  ASSUME LegInv, NEW l \in Legs, Toggle(l)
  PROVE  LegInv'
<1>1. /\ step' = [step EXCEPT ![l] = Fresh] /\ toggles' = [toggles EXCEPT ![l] = @ + 1]
      /\ toggles[l] < MaxToggles /\ toggles[l] \in Nat
      /\ UNCHANGED <<legs, currentIndex, legOf, handler, seen, chain, due, deposits, balance>>
  BY StepAssumption DEF Toggle, chainVars, LegInv, Typed
<1>2. /\ step'[l] = Fresh /\ \A k \in Legs \ {l} : step'[k] = step[k] /\ toggles'[k] = toggles[k]
  BY <1>1 DEF LegInv, Typed
<1>3. toggles'[l] # 0 /\ toggles' \in [Legs -> 0..MaxToggles]
  BY <1>1, StepAssumption DEF LegInv, Typed
<1>4. Fresh \in Component
  BY StepAssumption DEF Fresh, Component, Stages
<1>5. Typed'
  BY <1>1, <1>3, <1>4 DEF LegInv, Typed
<1>6. StepIsShaped(l)' /\ StepIsPaid(l)'
  BY <1>2, <1>5, FreshIsFine
<1>7. \A p \in Orders : OrderIsKept(p)
  BY <1>1 DEF OrderIsKept
<1>8. Delivery' = Delivery
  BY <1>1 DEF Delivery, Filled
<1>9. \A p \in Orders : ~(legOf[p] # l /\ legOf'[p] = l)
  BY <1>1
<1> QED
  BY <1>1, <1>2, <1>3, <1>5, <1>6, <1>7, <1>8, <1>9, OneLegMoves

-----------------------------------------------------------------------------
(***************************************************************************)
(* The handlers' steps                                                     *)
(***************************************************************************)

\* A handler goes on, or is over.
LEMMA HandlerMoves ==
  ASSUME Typed, NEW o \in Orders
  PROVE  /\ \A pc \in Awaits : At(o, pc) =>
              /\ handler' \in [Orders -> Handlers] /\ handler'[o].pc = pc
              /\ handler'[o].pre = handler[o].pre /\ handler'[o].amount = handler[o].amount
              /\ \A p \in Orders \ {o} : handler'[p] = handler[p]
         /\ Over(o) =>
              /\ handler' \in [Orders -> Handlers] /\ handler'[o].pc = "none"
              /\ \A p \in Orders \ {o} : handler'[p] = handler[p]
<1>1. handler \in [Orders -> Handlers] /\ handler[o] \in Handlers
  BY DEF Typed
<1>2. Idle \in Handlers /\ Idle.pc = "none"
  BY DEF Idle, Handlers, Awaits
<1>3. ASSUME NEW pc \in Awaits
      PROVE  LET h == [handler[o] EXCEPT !.pc = pc]
             IN  h \in Handlers /\ h.pc = pc /\ h.pre = handler[o].pre /\ h.amount = handler[o].amount
  BY <1>1 DEF Handlers
<1> QED
  BY <1>1, <1>2, <1>3, ZenonT(60) DEF At, Over

\* What is known when the handler of an order is at work.
LEMMA AtWork ==
  ASSUME LegInv, NEW o \in Orders, handler[o].pc # "none"
  PROVE  /\ legOf[o] \in Legs /\ legs[legOf[o]] \in LegRecords
         /\ Mine(o) \in Component /\ (Hosted(o) <=> Mine(o).order = o)
         /\ OrderIsKnown(legOf[o], handler[o].pc, seen[o], chain[o], deposits[o])
         /\ OrderIsPaid(o) /\ handler[o] \in Handlers
         /\ Hosted(o) =>
              /\ Mounted(legOf[o]) /\ ~IsLegTerminal(legs[legOf[o]])
              /\ Shaped(Mine(o), handler[o].pc, chain[o])
              /\ Mine(o).amount <= Delivery
              /\ Mine(o).stage # "quoted" => balance <= Mine(o).pre + Delivery
<1>1. /\ OrderIsKnown(legOf[o], handler[o].pc, seen[o], chain[o], deposits[o])
      /\ OrderIsPaid(o) /\ handler[o] \in Handlers
  BY DEF LegInv, Known, Paid, Typed
<1>2. legOf[o] \in Legs
  BY <1>1, QueueAssumption DEF OrderIsKnown, LegInv, Typed, Legs
<1>3. /\ legs[legOf[o]] \in LegRecords /\ Mine(o) \in Component
      /\ StepIsShaped(legOf[o]) /\ StepIsPaid(legOf[o])
  BY <1>2 DEF LegInv, Typed, Shapes, Paid, Mine
<1>4. Hosted(o) <=> Mine(o).order = o
  BY <1>2 DEF Hosted, Mine, Legs
<1>5. ASSUME Hosted(o)
      PROVE  /\ Mounted(legOf[o]) /\ Shaped(Mine(o), handler[o].pc, chain[o])
             /\ Mine(o).amount <= Delivery
             /\ Mine(o).stage # "quoted" => balance <= Mine(o).pre + Delivery
  <2>1. step[legOf[o]].order = o /\ o # 0
    BY <1>5 DEF Hosted, Orders
  <2>2. step[legOf[o]] # Fresh
    BY <2>1 DEF Fresh
  <2> QED
    BY <1>3, <2>1, <2>2 DEF StepIsShaped, StepIsPaid, Mine
<1>6. Mounted(legOf[o]) => ~IsLegTerminal(legs[legOf[o]])
  BY DEF Mounted, ShouldRenderFlow, IsLegTerminal
<1> QED
  BY <1>1, <1>2, <1>3, <1>4, <1>5, <1>6

\* An order that could not be opened is given up, or left to itself.
LEMMA OpenFailsKeeps ==
  ASSUME LegInv, NEW o \in Orders, handler[o].pc \in Opening, OpenFails(o)
  PROVE  LegInv'
<1>1. handler[o].pc # "none" /\ handler[o].pc # "refund"
  BY DEF Opening
<1>2. /\ legOf[o] \in Legs /\ legs[legOf[o]] \in LegRecords /\ Mine(o) \in Component
      /\ OrderIsKnown(legOf[o], handler[o].pc, seen[o], chain[o], deposits[o]) /\ OrderIsPaid(o)
  BY <1>1, AtWork
<1>3. PICK l \in Legs : l = legOf[o]
  BY <1>2
<1>4. PICK s \in Component : s = [Mine(o) EXCEPT !.stage = "failed"]
  BY <1>2 DEF Component, Stages
<1>5. PICK lg \in LegRecords : /\ lg = ApplyExecutionEvent(legs[l], Failed(FALSE))
                               /\ lg.status = "failed" /\ ~lg.recoverable
  <2>1. ApplyExecutionEvent(legs[l], Failed(FALSE)) = [status |-> "failed", recoverable |-> FALSE]
    BY <1>2, <1>3, EventsMove
  <2>2. [status |-> "failed", recoverable |-> FALSE] \in LegRecords
    BY DEF LegRecords, LegStatus
  <2> QED
    BY <2>1, <2>2
<1>6. Show([legs EXCEPT ![l] = lg], currentIndex,
           IF Hosted(o) THEN [step EXCEPT ![l] = s] ELSE step)
  BY <1>3, <1>4, <1>5 DEF OpenFails, Tell
<1>7. /\ handler' \in [Orders -> Handlers] /\ handler'[o].pc = "none"
      /\ \A p \in Orders \ {o} : handler'[p] = handler[p]
  BY HandlerMoves DEF OpenFails, LegInv
<1>8. UNCHANGED <<seen, chain, due, deposits, balance, toggles>>
  BY DEF OpenFails, chainVars
<1>9. /\ legOf' \in [Orders -> 0..NumLegs] /\ legOf'[o] = IF chain[o] = "none" THEN 0 ELSE l
      /\ \A p \in Orders \ {o} : legOf'[p] = legOf[p]
  BY <1>3, QueueAssumption DEF OpenFails, LegInv, Typed
<1>10. legs' \in [Legs -> LegRecords] /\ legs'[l] = lg /\ currentIndex' = currentIndex
       /\ step' \in [Legs -> Component]
  BY <1>3, <1>6, Shown DEF LegInv
<1>11. Typed'
  BY <1>7, <1>8, <1>9, <1>10 DEF LegInv, Typed
<1>12. ~Mounted(l)'
  BY <1>5, <1>10 DEF Mounted, ShouldRenderFlow
<1>13. Delivery' = Delivery
  BY <1>8 DEF Delivery, Filled
<1>14. \A p \in Orders \ {o} : OrderIsKept(p)
  BY <1>7, <1>8, <1>9 DEF OrderIsKept
<1>15. OrderHasMoved(o, l)
  <2>1. OrderIsKnown(legOf'[o], "none", seen[o], chain[o], deposits[o])
    BY <1>2, <1>3, <1>9 DEF OrderIsKnown, Opening, Depositing, Legs
  <2>2. OrderIsPaid(o)'
    BY <1>2, <1>7, <1>8, <1>13 DEF OrderIsPaid, Depositing
  <2>3. deposits[o] # <<>> => chain[o] = "filled"
    BY <1>2 DEF OrderIsKnown
  <2>4. \A k \in 1..Len(deposits[o]) : chain[o] = "filled"
    <3>1. deposits[o] \in Seq(Deposits)
      BY DEF LegInv, Typed
    <3> QED
      BY <2>3, <3>1, EmptySeq
  <2> QED
    BY <1>3, <1>7, <1>8, <1>9, <2>1, <2>2, <2>4 DEF OrderHasMoved
<1> QED
  BY <1>1, <1>3, <1>5, <1>6, <1>7, <1>8, <1>11, <1>12, <1>13, <1>14, <1>15, HandlerKeeps

\* Order o of leg l, whose handler goes on, moves to what it may be.
HandlerGoesOn(o, l) ==
    /\ handler' \in [Orders -> Handlers] /\ deposits' \in [Orders -> Seq(Deposits)]
    /\ chain' \in [Orders -> ChainStates]
    /\ UNCHANGED <<legOf, seen, due, balance, toggles>>
    /\ \A p \in Orders \ {o} :
          handler'[p] = handler[p] /\ chain'[p] = chain[p] /\ deposits'[p] = deposits[p]
    /\ chain[o] = "filled" <=> chain'[o] = "filled"
    /\ chain[o] = "refunded" => chain'[o] = "refunded"
    /\ \A k \in 1..Len(deposits[o]) : k \in 1..Len(deposits'[o]) /\ deposits'[o][k] = deposits[o][k]
    /\ OrderIsKnown(l, handler'[o].pc, seen[o], chain'[o], deposits'[o])
    /\ handler'[o].pc \in Depositing => handler'[o].amount <= Delivery
    /\ handler'[o].pc = "deposit-read" => balance <= handler'[o].pre + Delivery
    /\ handler'[o].pc = "deposit-quote" => handler'[o].amount > 0
    /\ \A k \in 1..Len(deposits'[o]) : deposits'[o][k].amount <= Delivery

\* The leg is set to lg and the step, if it is there, to s.
LegGoesOn(o, l, lg, s) ==
    /\ Show([legs EXCEPT ![l] = lg], currentIndex,
            IF Hosted(o) THEN [step EXCEPT ![l] = s] ELSE step)
    /\ Hosted(o) /\ lg.status \notin {"done", "refunded"} =>
          /\ s.order = o /\ Shaped(s, handler'[o].pc, chain'[o])
          /\ s.amount <= Delivery /\ balance <= s.pre + Delivery
    /\ Hosted(o) /\ IsLegTerminal(lg) => handler'[o].pc \in {"none", "refund"}
    /\ handler[o].pc = "refund" =>
          (lg = legs[l] \/ lg.status = "refunded") /\ handler'[o].pc = "none"
    /\ lg.status = "done" => legs[l].status = "done" \/ HasDeposited(l)'
    /\ lg.status = "refunded" => legs[l].status = "refunded" \/ HasRefunded(l)'

LEMMA HandlerGoesOnKeeps ==
  ASSUME LegInv, NEW o \in Orders, handler[o].pc # "none",
         NEW l \in Legs, l = legOf[o], NEW lg \in LegRecords, NEW s \in Component,
         HandlerGoesOn(o, l), LegGoesOn(o, l, lg, s)
  PROVE  LegInv'
<1>0. Typed /\ Shapes /\ Show([legs EXCEPT ![l] = lg], currentIndex,
                              IF Hosted(o) THEN [step EXCEPT ![l] = s] ELSE step)
  BY DEF LegInv, LegGoesOn
<1>1. legs' \in [Legs -> LegRecords] /\ legs'[l] = lg /\ currentIndex' = currentIndex
      /\ step' \in [Legs -> Component]
  BY <1>0, Shown
<1>2. Typed'
  BY <1>1 DEF LegInv, Typed, HandlerGoesOn
<1>3. Filled' = Filled
  BY DEF Filled, HandlerGoesOn
<1>4. Delivery' = Delivery
  BY <1>3 DEF Delivery
<1>5. \A p \in Orders \ {o} : OrderIsKept(p)
  BY DEF OrderIsKept, HandlerGoesOn
<1>6. OrderHasMoved(o, l)
  <2>1. OrderIsPaid(o)'
    BY <1>4 DEF OrderIsPaid, HandlerGoesOn
  <2> QED
    BY <2>1 DEF OrderHasMoved, HandlerGoesOn
<1>7. Hosted(o) => Mounted(l)
  BY AtWork
<1>8. Mounted(l)' => lg.status \notin {"done", "refunded"}
  BY <1>1 DEF Mounted, ShouldRenderFlow
<1>9. l = currentIndex /\ ~Mounted(l)' => IsLegTerminal(lg)
  BY <1>1 DEF Mounted, ShouldRenderFlow, IsLegTerminal
<1>10. Hosted(o) => l = currentIndex
  BY <1>7 DEF Mounted, ShouldRenderFlow
<1>11. ASSUME ~Mounted(l), handler[o].pc \in {"none", "refund"}
       PROVE  ~Mounted(l)' /\ handler'[o].pc \in {"none", "refund"}
  <2>1. (lg = legs[l] \/ lg.status = "refunded") /\ handler'[o].pc = "none"
    BY <1>11 DEF LegGoesOn
  <2>2. CASE lg = legs[l]
    BY <1>1, <1>11, <2>1, <2>2 DEF Mounted, ShouldRenderFlow
  <2>3. CASE lg.status = "refunded"
    BY <1>8, <2>1, <2>3
  <2> QED
    BY <2>1, <2>2, <2>3
<1>12. /\ Hosted(o) /\ Mounted(l)' =>
             /\ s.order = o /\ legOf'[o] = l /\ Shaped(s, handler'[o].pc, chain'[o])
             /\ s.amount <= Delivery /\ balance <= s.pre + Delivery
       /\ Hosted(o) /\ legOf'[o] = l /\ ~Mounted(l)' => handler'[o].pc \in {"none", "refund"}
       /\ lg.status = "done" => legs[l].status = "done" \/ HasDeposited(l)'
       /\ lg.status = "refunded" => legs[l].status = "refunded" \/ HasRefunded(l)'
       /\ balance' = balance /\ toggles' = toggles
  BY <1>8, <1>9, <1>10 DEF LegGoesOn, HandlerGoesOn
<1> QED
  BY <1>0, <1>2, <1>4, <1>5, <1>6, <1>11, <1>12, HandlerKeeps

LEMMA PreReadKeeps ==
  ASSUME LegInv, NEW o \in Orders, PreRead(o)
  PROVE  LegInv'
<1>1. handler[o].pc = "preread"
  BY DEF PreRead
<1>2. CASE OpenFails(o)
  BY <1>1, <1>2, OpenFailsKeeps DEF Opening
<1>3. CASE /\ At(o, "approve")
           /\ Set(o, [Mine(o) EXCEPT !.stage = "approving", !.pre = balance])
           /\ UNCHANGED <<legOf, seen, chainVars, toggles>>
  <2>1. /\ legOf[o] \in Legs /\ legs[legOf[o]] \in LegRecords /\ Mine(o) \in Component
        /\ (Hosted(o) <=> Mine(o).order = o)
        /\ OrderIsKnown(legOf[o], handler[o].pc, seen[o], chain[o], deposits[o]) /\ OrderIsPaid(o)
        /\ Hosted(o) => Mine(o).amount <= Delivery /\ ~IsLegTerminal(legs[legOf[o]])
    BY <1>1, AtWork
  <2>2. PICK l \in Legs : l = legOf[o]
    BY <2>1
  <2>3. PICK s \in Component : s = [Mine(o) EXCEPT !.stage = "approving", !.pre = balance]
    BY <2>1 DEF Component, Stages, LegInv, Typed
  <2>4. s.stage = "approving" /\ s.pre = balance /\ s.order = Mine(o).order /\ s.amount = Mine(o).amount
    BY <2>1, <2>3 DEF Component
  <2>5. Show([legs EXCEPT ![l] = legs[l]], currentIndex,
             IF Hosted(o) THEN [step EXCEPT ![l] = s] ELSE step)
    <3>1. [legs EXCEPT ![l] = legs[l]] = legs
      BY DEF LegInv, Typed
    <3> QED
      BY <1>3, <2>2, <2>3, <3>1 DEF Set
  <2>6. /\ handler' \in [Orders -> Handlers] /\ handler'[o].pc = "approve"
        /\ \A p \in Orders \ {o} : handler'[p] = handler[p]
    BY <1>3, HandlerMoves DEF LegInv, Awaits
  <2>7. UNCHANGED <<legOf, seen, chain, due, deposits, balance, toggles>>
    BY <1>3 DEF chainVars
  <2>8. OrderIsKnown(l, "approve", seen[o], chain[o], deposits[o])
    BY <1>1, <2>1, <2>2 DEF OrderIsKnown, Opening, Depositing
  <2>9. Hosted(o) => /\ s.order = o /\ Shaped(s, "approve", chain[o])
                     /\ s.amount <= Delivery /\ balance <= s.pre + Delivery
    <3>1. Delivery \in Nat /\ balance \in Nat
      BY Deliveries DEF LegInv, Typed
    <3>2. Shaped(s, "approve", chain[o])
      BY <2>4 DEF Shaped, PostOpen
    <3> QED
      BY <2>1, <2>4, <3>1, <3>2
  <2>10. \A k \in 1..Len(deposits[o]) : deposits[o][k].amount <= Delivery
    BY <2>1 DEF OrderIsPaid
  <2>11. /\ deposits \in [Orders -> Seq(Deposits)] /\ chain \in [Orders -> ChainStates]
    BY DEF LegInv, Typed
  <2>12. HandlerGoesOn(o, l)
    BY <2>6, <2>7, <2>8, <2>10, <2>11 DEF HandlerGoesOn, Depositing
  <2>13. LegGoesOn(o, l, legs[l], s)
    BY <1>1, <2>1, <2>2, <2>5, <2>6, <2>7, <2>9 DEF LegGoesOn, IsLegTerminal
  <2> QED
    BY <1>1, <2>1, <2>2, <2>12, <2>13, HandlerGoesOnKeeps
<1> QED
  BY <1>2, <1>3 DEF PreRead

LEMMA BroadcastKeeps ==
  ASSUME LegInv, NEW o \in Orders, Broadcasts(o)
  PROVE  LegInv'
<1>1. handler[o].pc = "approve"
  BY DEF Broadcasts
<1>2. CASE OpenFails(o)
  BY <1>1, <1>2, OpenFailsKeeps DEF Opening
<1>3. CASE /\ At(o, "receipt") /\ chain' = [chain EXCEPT ![o] = "sent"]
           /\ Tell(o, Broadcast("intent-open"), [Mine(o) EXCEPT !.stage = "signing", !.sent = TRUE])
           /\ UNCHANGED <<legOf, seen, due, deposits, balance, toggles>>
  <2>1. /\ legOf[o] \in Legs /\ legs[legOf[o]] \in LegRecords /\ Mine(o) \in Component
        /\ (Hosted(o) <=> Mine(o).order = o)
        /\ OrderIsKnown(legOf[o], handler[o].pc, seen[o], chain[o], deposits[o]) /\ OrderIsPaid(o)
        /\ Hosted(o) => /\ Mine(o).amount <= Delivery /\ Shaped(Mine(o), handler[o].pc, chain[o])
                        /\ Mine(o).stage # "quoted" => balance <= Mine(o).pre + Delivery
    BY <1>1, AtWork
  <2>2. PICK l \in Legs : l = legOf[o]
    BY <2>1
  <2>3. PICK s \in Component : s = [Mine(o) EXCEPT !.stage = "signing", !.sent = TRUE]
    BY <2>1 DEF Component, Stages
  <2>4. /\ s.stage = "signing" /\ s.sent /\ s.pre = Mine(o).pre /\ s.order = Mine(o).order
        /\ s.amount = Mine(o).amount
    BY <2>1, <2>3 DEF Component
  <2>5. PICK lg \in LegRecords : lg = ApplyExecutionEvent(legs[l], Broadcast("intent-open"))
                                 /\ lg.status = "intent-open"
    BY <2>1, <2>2, EventsMove, LegRecordsAre DEF LegStatus
  <2>6. Show([legs EXCEPT ![l] = lg], currentIndex,
             IF Hosted(o) THEN [step EXCEPT ![l] = s] ELSE step)
    BY <1>3, <2>2, <2>3, <2>5 DEF Tell
  <2>7. /\ handler' \in [Orders -> Handlers] /\ handler'[o].pc = "receipt"
        /\ \A p \in Orders \ {o} : handler'[p] = handler[p]
    BY <1>3, HandlerMoves DEF LegInv, Awaits
  <2>8. /\ chain' \in [Orders -> ChainStates] /\ chain'[o] = "sent"
        /\ \A p \in Orders \ {o} : chain'[p] = chain[p]
    BY <1>3 DEF LegInv, Typed, ChainStates
  <2>9. chain[o] = "none" /\ OrderIsKnown(l, "receipt", seen[o], "sent", deposits[o])
    BY <1>1, <2>1, <2>2 DEF OrderIsKnown, Opening, Depositing, Delivered, Legs
  <2>10. Mine(o).stage = "approving" \/ ~Hosted(o)
    BY <1>1, <2>1 DEF Shaped, Depositing
  <2>11. Hosted(o) => /\ s.order = o /\ Shaped(s, "receipt", "sent")
                      /\ s.amount <= Delivery /\ balance <= s.pre + Delivery
    <3>1. Shaped(s, "receipt", "sent")
      BY <2>4 DEF Shaped, PostOpen
    <3> QED
      BY <2>1, <2>4, <2>10, <3>1
  <2>12. HandlerGoesOn(o, l)
    <3>1. \A k \in 1..Len(deposits[o]) : deposits[o][k].amount <= Delivery
      BY <2>1 DEF OrderIsPaid
    <3>2. deposits \in [Orders -> Seq(Deposits)] /\ UNCHANGED <<legOf, seen, due, deposits, balance, toggles>>
      BY <1>3 DEF LegInv, Typed
    <3> QED
      BY <2>7, <2>8, <2>9, <3>1, <3>2 DEF HandlerGoesOn, Depositing
  <2>13. LegGoesOn(o, l, lg, s)
    BY <1>1, <2>5, <2>6, <2>7, <2>8, <2>11 DEF LegGoesOn, IsLegTerminal
  <2> QED
    BY <1>1, <2>2, <2>12, <2>13, HandlerGoesOnKeeps
<1> QED
  BY <1>2, <1>3 DEF Broadcasts

LEMMA ReceiptKeeps ==
  ASSUME LegInv, NEW o \in Orders, Receipt(o)
  PROVE  LegInv'
<1>1. handler[o].pc = "receipt"
  BY DEF Receipt
<1>2. CASE OpenFails(o)
  BY <1>1, <1>2, OpenFailsKeeps DEF Opening
<1>3. CASE /\ chain[o] \notin {"sent", "reverted"} /\ Over(o)
           /\ Tell(o, Opened, [Mine(o) EXCEPT !.stage = "open"])
           /\ UNCHANGED <<legOf, seen, chainVars, toggles>>
  <2>1. /\ legOf[o] \in Legs /\ legs[legOf[o]] \in LegRecords /\ Mine(o) \in Component
        /\ (Hosted(o) <=> Mine(o).order = o)
        /\ OrderIsKnown(legOf[o], handler[o].pc, seen[o], chain[o], deposits[o]) /\ OrderIsPaid(o)
        /\ Hosted(o) => /\ Mine(o).amount <= Delivery /\ Shaped(Mine(o), handler[o].pc, chain[o])
                        /\ Mine(o).stage # "quoted" => balance <= Mine(o).pre + Delivery
    BY <1>1, AtWork
  <2>2. PICK l \in Legs : l = legOf[o]
    BY <2>1
  <2>3. PICK s \in Component : s = [Mine(o) EXCEPT !.stage = "open"]
    BY <2>1 DEF Component, Stages
  <2>4. /\ s.stage = "open" /\ s.sent = Mine(o).sent /\ s.pre = Mine(o).pre /\ s.order = Mine(o).order
        /\ s.amount = Mine(o).amount
    BY <2>1, <2>3 DEF Component
  <2>5. PICK lg \in LegRecords : lg = ApplyExecutionEvent(legs[l], Opened) /\ lg.status = "intent-open"
    BY <2>1, <2>2, EventsMove, LegRecordsAre DEF LegStatus
  <2>6. Show([legs EXCEPT ![l] = lg], currentIndex,
             IF Hosted(o) THEN [step EXCEPT ![l] = s] ELSE step)
    BY <1>3, <2>2, <2>3, <2>5 DEF Tell
  <2>7. /\ handler' \in [Orders -> Handlers] /\ handler'[o].pc = "none"
        /\ \A p \in Orders \ {o} : handler'[p] = handler[p]
    BY <1>3, HandlerMoves DEF LegInv
  <2>8. UNCHANGED <<legOf, seen, chain, due, deposits, balance, toggles>>
    BY <1>3 DEF chainVars
  <2>9. chain[o] \notin NotOpen /\ OrderIsKnown(l, "none", seen[o], chain[o], deposits[o])
    BY <1>1, <1>3, <2>1, <2>2 DEF OrderIsKnown, Opening, Depositing, NotOpen, Legs
  <2>10. (Mine(o).stage = "signing" /\ Mine(o).sent) \/ ~Hosted(o)
    BY <1>1, <2>1 DEF Shaped, Depositing
  <2>11. Hosted(o) => /\ s.order = o /\ Shaped(s, "none", chain[o])
                      /\ s.amount <= Delivery /\ balance <= s.pre + Delivery
    <3>1. Hosted(o) => Shaped(s, "none", chain[o])
      BY <2>4, <2>9, <2>10 DEF Shaped, PostOpen
    <3> QED
      BY <2>1, <2>4, <2>10, <3>1
  <2>12. HandlerGoesOn(o, l)
    <3>1. \A k \in 1..Len(deposits[o]) : deposits[o][k].amount <= Delivery
      BY <2>1 DEF OrderIsPaid
    <3>2. deposits \in [Orders -> Seq(Deposits)] /\ chain \in [Orders -> ChainStates]
      BY DEF LegInv, Typed
    <3> QED
      BY <2>7, <2>8, <2>9, <3>1, <3>2 DEF HandlerGoesOn, Depositing
  <2>13. LegGoesOn(o, l, lg, s)
    BY <1>1, <2>5, <2>6, <2>7, <2>8, <2>11 DEF LegGoesOn, IsLegTerminal
  <2> QED
    BY <1>1, <2>2, <2>12, <2>13, HandlerGoesOnKeeps
<1> QED
  BY <1>2, <1>3 DEF Receipt

LEMMA RefundEndKeeps ==
  ASSUME LegInv, NEW o \in Orders, RefundEnds(o)
  PROVE  LegInv'
<1>1. handler[o].pc = "refund" /\ Over(o) /\ UNCHANGED <<legOf, seen, due, deposits, balance, toggles>>
  BY DEF RefundEnds
<1>2. /\ legOf[o] \in Legs /\ legs[legOf[o]] \in LegRecords /\ Mine(o) \in Component
      /\ (Hosted(o) <=> Mine(o).order = o)
      /\ OrderIsKnown(legOf[o], handler[o].pc, seen[o], chain[o], deposits[o]) /\ OrderIsPaid(o)
      /\ Hosted(o) => /\ Mine(o).amount <= Delivery /\ Shaped(Mine(o), handler[o].pc, chain[o])
                      /\ Mine(o).stage # "quoted" => balance <= Mine(o).pre + Delivery
  BY <1>1, AtWork
<1>3. PICK l \in Legs : l = legOf[o]
  BY <1>2
<1>4. PICK s \in Component : s = [Mine(o) EXCEPT !.stage = "failed"]
  BY <1>2 DEF Component, Stages
<1>5. /\ s.stage = "failed" /\ s.sent = Mine(o).sent /\ s.pre = Mine(o).pre /\ s.order = Mine(o).order
      /\ s.amount = Mine(o).amount
  BY <1>2, <1>4 DEF Component
<1>6. (Mine(o).stage = "refunding" /\ Mine(o).sent) \/ ~Hosted(o)
  BY <1>1, <1>2 DEF Shaped, Depositing
<1>7. /\ handler' \in [Orders -> Handlers] /\ handler'[o].pc = "none"
      /\ \A p \in Orders \ {o} : handler'[p] = handler[p]
  BY <1>1, HandlerMoves DEF LegInv
<1>8. \/ UNCHANGED chain
      \/ chain[o] = "escrowed" /\ chain' = [chain EXCEPT ![o] = "refunded"]
  BY DEF RefundEnds
<1>9. /\ chain' \in [Orders -> ChainStates] /\ \A p \in Orders \ {o} : chain'[p] = chain[p]
      /\ (chain'[o] = chain[o] \/ (chain[o] = "escrowed" /\ chain'[o] = "refunded"))
  BY <1>8 DEF LegInv, Typed, ChainStates
<1>10. OrderIsKnown(l, "none", seen[o], chain'[o], deposits[o])
  BY <1>1, <1>2, <1>3, <1>9 DEF OrderIsKnown, Opening, Depositing, NotOpen, Legs
<1>11. HandlerGoesOn(o, l)
  <2>1. \A k \in 1..Len(deposits[o]) : deposits[o][k].amount <= Delivery
    BY <1>2 DEF OrderIsPaid
  <2>2. deposits \in [Orders -> Seq(Deposits)]
    BY DEF LegInv, Typed
  <2> QED
    BY <1>1, <1>7, <1>9, <1>10, <2>1, <2>2 DEF HandlerGoesOn, Depositing
<1>12. CASE Set(o, [Mine(o) EXCEPT !.stage = "failed"])
  <2>1. [legs EXCEPT ![l] = legs[l]] = legs
    BY DEF LegInv, Typed
  <2>2. Show([legs EXCEPT ![l] = legs[l]], currentIndex,
             IF Hosted(o) THEN [step EXCEPT ![l] = s] ELSE step)
    BY <1>3, <1>4, <1>12, <2>1 DEF Set
  <2>3. Hosted(o) => /\ s.order = o /\ Shaped(s, "none", chain'[o])
                     /\ s.amount <= Delivery /\ balance <= s.pre + Delivery
    <3>1. Hosted(o) => Shaped(s, "none", chain'[o])
      BY <1>5, <1>6 DEF Shaped, PostOpen
    <3> QED
      BY <1>2, <1>5, <1>6, <3>1
  <2>4. LegGoesOn(o, l, legs[l], s)
    BY <1>1, <1>7, <2>2, <2>3 DEF LegGoesOn
  <2> QED
    BY <1>1, <1>2, <1>3, <1>11, <2>4, HandlerGoesOnKeeps
<1>13. CASE /\ chain[o] = "escrowed" /\ chain' = [chain EXCEPT ![o] = "refunded"]
            /\ Tell(o, Status("Refunded"), Mine(o))
  <2>1. PICK lg \in LegRecords : lg = ApplyExecutionEvent(legs[l], Status("Refunded"))
                                 /\ lg.status = "refunded"
    BY <1>2, <1>3, StatesMove, LegRecordsAre DEF LegStatus
  <2>2. Show([legs EXCEPT ![l] = lg], currentIndex,
             IF Hosted(o) THEN [step EXCEPT ![l] = Mine(o)] ELSE step)
    BY <1>3, <1>13, <2>1 DEF Tell
  <2>3. HasRefunded(l)'
    <3>1. chain'[o] = "refunded" /\ legOf'[o] = l
      BY <1>1, <1>3, <1>13 DEF LegInv, Typed
    <3> QED
      BY <3>1 DEF HasRefunded
  <2>4. LegGoesOn(o, l, lg, Mine(o))
    BY <1>1, <1>7, <2>1, <2>2, <2>3 DEF LegGoesOn
  <2> QED
    BY <1>1, <1>2, <1>3, <1>11, <2>4, HandlerGoesOnKeeps
<1> QED
  BY <1>12, <1>13 DEF RefundEnds

\* A deposit that fails may be tried again.
LEMMA DepositFailsKeeps ==
  ASSUME LegInv, NEW o \in Orders, handler[o].pc \in Depositing, DepositFails(o)
  PROVE  LegInv'
<1>1. handler[o].pc \notin {"none", "refund"}
  BY DEF Depositing
<1>2. /\ legOf[o] \in Legs /\ legs[legOf[o]] \in LegRecords /\ Mine(o) \in Component
      /\ (Hosted(o) <=> Mine(o).order = o)
      /\ OrderIsKnown(legOf[o], handler[o].pc, seen[o], chain[o], deposits[o]) /\ OrderIsPaid(o)
      /\ Hosted(o) => /\ Mine(o).amount <= Delivery /\ Shaped(Mine(o), handler[o].pc, chain[o])
                      /\ Mine(o).stage # "quoted" => balance <= Mine(o).pre + Delivery
  BY <1>1, AtWork
<1>3. PICK l \in Legs : l = legOf[o]
  BY <1>2
<1>4. PICK s \in Component : s = [Mine(o) EXCEPT !.stage = "deposit-failed"]
  BY <1>2 DEF Component, Stages
<1>5. /\ s.stage = "deposit-failed" /\ s.sent = Mine(o).sent /\ s.pre = Mine(o).pre
      /\ s.order = Mine(o).order /\ s.amount = Mine(o).amount
  BY <1>2, <1>4 DEF Component
<1>6. (Mine(o).stage \in PostOpen /\ Mine(o).sent) \/ ~Hosted(o)
  BY <1>2 DEF Shaped, Depositing
<1>7. PICK lg \in LegRecords : lg = ApplyExecutionEvent(legs[l], Failed(TRUE))
                               /\ lg.status = "failed" /\ lg.recoverable
  BY <1>2, <1>3, EventsMove, LegRecordsAre DEF LegStatus
<1>8. Show([legs EXCEPT ![l] = lg], currentIndex,
           IF Hosted(o) THEN [step EXCEPT ![l] = s] ELSE step)
  BY <1>3, <1>4, <1>7 DEF DepositFails, Tell
<1>9. /\ handler' \in [Orders -> Handlers] /\ handler'[o].pc = "none"
      /\ \A p \in Orders \ {o} : handler'[p] = handler[p]
  BY HandlerMoves DEF LegInv, DepositFails
<1>10. UNCHANGED <<legOf, seen, chain, due, deposits, balance, toggles>>
  BY DEF DepositFails, chainVars
<1>11. chain[o] = "filled" /\ OrderIsKnown(l, "none", seen[o], chain[o], deposits[o])
  BY <1>2, <1>3 DEF OrderIsKnown, Opening, Depositing, Legs
<1>12. Hosted(o) => /\ s.order = o /\ Shaped(s, "none", chain[o])
                    /\ s.amount <= Delivery /\ balance <= s.pre + Delivery
  <2>1. Hosted(o) => Shaped(s, "none", chain[o])
    BY <1>5, <1>6, <1>11 DEF Shaped, PostOpen, NotOpen
  <2> QED
    BY <1>2, <1>5, <1>6, <2>1 DEF PostOpen
<1>13. HandlerGoesOn(o, l)
  <2>1. \A k \in 1..Len(deposits[o]) : deposits[o][k].amount <= Delivery
    BY <1>2 DEF OrderIsPaid
  <2>2. deposits \in [Orders -> Seq(Deposits)] /\ chain \in [Orders -> ChainStates]
    BY DEF LegInv, Typed
  <2> QED
    BY <1>9, <1>10, <1>11, <2>1, <2>2 DEF HandlerGoesOn, Depositing
<1>14. LegGoesOn(o, l, lg, s)
  BY <1>1, <1>7, <1>8, <1>9, <1>10, <1>12 DEF LegGoesOn
<1> QED
  BY <1>1, <1>3, <1>13, <1>14, HandlerGoesOnKeeps

\* The amount to deposit is what was measured, or what came since the order was
\* opened.
LEMMA DepositReadKeeps ==
  ASSUME LegInv, NEW o \in Orders, DepositRead(o)
  PROVE  LegInv'
<1>1. handler[o].pc = "deposit-read"
  BY DEF DepositRead
<1>2. CASE DepositFails(o)
  BY <1>1, <1>2, DepositFailsKeeps DEF Depositing
<1>3. CASE ~DepositFails(o)
  <2>1. /\ legOf[o] \in Legs /\ legs[legOf[o]] \in LegRecords /\ Mine(o) \in Component
        /\ (Hosted(o) <=> Mine(o).order = o) /\ handler[o] \in Handlers
        /\ OrderIsKnown(legOf[o], handler[o].pc, seen[o], chain[o], deposits[o]) /\ OrderIsPaid(o)
        /\ Hosted(o) => /\ Mine(o).amount <= Delivery /\ Shaped(Mine(o), handler[o].pc, chain[o])
                        /\ ~IsLegTerminal(legs[legOf[o]])
                        /\ Mine(o).stage # "quoted" => balance <= Mine(o).pre + Delivery
    BY <1>1, AtWork
  <2>2. PICK l \in Legs : l = legOf[o]
    BY <2>1
  <2>3. Delivery \in Nat /\ balance \in Nat
    BY Deliveries DEF LegInv, Typed
  <2>4. PICK a \in Nat \ {0} :
          /\ a = IF handler[o].amount > 0 THEN handler[o].amount ELSE balance - handler[o].pre
          /\ handler' = [handler EXCEPT ![o].pc = "deposit-quote", ![o].amount = a]
          /\ Set(o, [Mine(o) EXCEPT !.stage = "deposit-quoting", !.amount = a])
          /\ UNCHANGED <<legOf, seen, chainVars, toggles>>
    <3> DEFINE a == IF handler[o].amount > 0 THEN handler[o].amount ELSE balance - handler[o].pre
    <3>1. /\ a > 0
          /\ handler' = [handler EXCEPT ![o].pc = "deposit-quote", ![o].amount = a]
          /\ Set(o, [Mine(o) EXCEPT !.stage = "deposit-quoting", !.amount = a])
          /\ UNCHANGED <<legOf, seen, chainVars, toggles>>
      BY <1>3 DEF DepositRead
    <3>2. a \in Nat \ {0}
      BY <2>1, <2>3, <3>1 DEF Handlers
    <3> QED
      BY <3>1, <3>2
  <2>5. a <= Delivery
    BY <1>1, <2>1, <2>3, <2>4 DEF OrderIsPaid, Depositing, Handlers
  <2>6. PICK s \in Component : s = [Mine(o) EXCEPT !.stage = "deposit-quoting", !.amount = a]
    BY <2>1 DEF Component, Stages
  <2>7. /\ s.stage = "deposit-quoting" /\ s.sent = Mine(o).sent /\ s.pre = Mine(o).pre
        /\ s.order = Mine(o).order /\ s.amount = a
    BY <2>1, <2>6 DEF Component
  <2>8. (Mine(o).stage \in PostOpen /\ Mine(o).sent) \/ ~Hosted(o)
    BY <1>1, <2>1 DEF Shaped, Depositing
  <2>9. Show([legs EXCEPT ![l] = legs[l]], currentIndex,
             IF Hosted(o) THEN [step EXCEPT ![l] = s] ELSE step)
    <3>1. [legs EXCEPT ![l] = legs[l]] = legs
      BY DEF LegInv, Typed
    <3> QED
      BY <2>2, <2>4, <2>6, <3>1 DEF Set
  <2>10. /\ handler' \in [Orders -> Handlers] /\ handler'[o].pc = "deposit-quote" /\ handler'[o].amount = a
         /\ \A p \in Orders \ {o} : handler'[p] = handler[p]
    <3>1. PICK h \in Handlers : /\ h = [handler[o] EXCEPT !.pc = "deposit-quote", !.amount = a]
                                /\ h.pc = "deposit-quote" /\ h.amount = a
      <4> DEFINE h == [handler[o] EXCEPT !.pc = "deposit-quote", !.amount = a]
      <4>1. "deposit-quote" \in Awaits /\ handler[o] \in Handlers
        BY <2>1 DEF Awaits
      <4>2. h \in Handlers /\ h.pc = "deposit-quote" /\ h.amount = a
        BY <4>1 DEF Handlers
      <4> QED
        BY <4>2
    <3>2. handler' = [handler EXCEPT ![o] = h]
      BY <2>4, <3>1 DEF LegInv, Typed
    <3> QED
      BY <3>1, <3>2 DEF LegInv, Typed
  <2>11. UNCHANGED <<legOf, seen, chain, due, deposits, balance, toggles>>
    BY <2>4 DEF chainVars
  <2>12. chain[o] = "filled" /\ OrderIsKnown(l, "deposit-quote", seen[o], chain[o], deposits[o])
    BY <1>1, <2>1, <2>2 DEF OrderIsKnown, Opening, Depositing, Legs
  <2>13. Hosted(o) => /\ s.order = o /\ Shaped(s, "deposit-quote", chain[o])
                      /\ s.amount <= Delivery /\ balance <= s.pre + Delivery
    <3>1. Hosted(o) => Shaped(s, "deposit-quote", chain[o])
      BY <2>7, <2>8, <2>12 DEF Shaped, PostOpen, NotOpen, Depositing
    <3> QED
      BY <2>1, <2>5, <2>7, <2>8, <3>1 DEF PostOpen
  <2>14. HandlerGoesOn(o, l)
    <3>1. \A k \in 1..Len(deposits[o]) : deposits[o][k].amount <= Delivery
      BY <2>1 DEF OrderIsPaid
    <3>2. deposits \in [Orders -> Seq(Deposits)] /\ chain \in [Orders -> ChainStates]
      BY DEF LegInv, Typed
    <3> QED
      BY <2>5, <2>10, <2>11, <2>12, <3>1, <3>2 DEF HandlerGoesOn, Depositing
  <2>15. LegGoesOn(o, l, legs[l], s)
    BY <1>1, <2>1, <2>2, <2>9, <2>10, <2>11, <2>13 DEF LegGoesOn
  <2> QED
    BY <1>1, <2>1, <2>2, <2>14, <2>15, HandlerGoesOnKeeps
<1> QED
  BY <1>2, <1>3

LEMMA DepositSendKeeps ==
  ASSUME LegInv, NEW o \in Orders, DepositSend(o)
  PROVE  LegInv'
<1>1. handler[o].pc = "deposit-quote"
  BY DEF DepositSend
<1>2. CASE DepositFails(o)
  BY <1>1, <1>2, DepositFailsKeeps DEF Depositing
<1>3. CASE /\ At(o, "deposit-receipt")
           /\ deposits' = [deposits EXCEPT ![o] =
                             Append(@, [state |-> "sent", amount |-> handler[o].amount])]
           /\ Tell(o, Broadcast("intent-deposit"), [Mine(o) EXCEPT !.stage = "deposit-signing"])
           /\ UNCHANGED <<legOf, seen, chain, due, balance, toggles>>
  <2>1. /\ legOf[o] \in Legs /\ legs[legOf[o]] \in LegRecords /\ Mine(o) \in Component
        /\ (Hosted(o) <=> Mine(o).order = o) /\ handler[o] \in Handlers
        /\ OrderIsKnown(legOf[o], handler[o].pc, seen[o], chain[o], deposits[o]) /\ OrderIsPaid(o)
        /\ Hosted(o) => /\ Mine(o).amount <= Delivery /\ Shaped(Mine(o), handler[o].pc, chain[o])
                        /\ Mine(o).stage # "quoted" => balance <= Mine(o).pre + Delivery
    BY <1>1, AtWork
  <2>2. PICK l \in Legs : l = legOf[o]
    BY <2>1
  <2>3. PICK s \in Component : s = [Mine(o) EXCEPT !.stage = "deposit-signing"]
    BY <2>1 DEF Component, Stages
  <2>4. /\ s.stage = "deposit-signing" /\ s.sent = Mine(o).sent /\ s.pre = Mine(o).pre
        /\ s.order = Mine(o).order /\ s.amount = Mine(o).amount
    BY <2>1, <2>3 DEF Component
  <2>5. (Mine(o).stage \in PostOpen /\ Mine(o).sent /\ Mine(o).amount > 0) \/ ~Hosted(o)
    BY <1>1, <2>1 DEF Shaped, Depositing
  <2>6. PICK lg \in LegRecords : lg = ApplyExecutionEvent(legs[l], Broadcast("intent-deposit"))
                                 /\ lg.status = "depositing"
    BY <2>1, <2>2, EventsMove, LegRecordsAre DEF LegStatus
  <2>7. Show([legs EXCEPT ![l] = lg], currentIndex,
             IF Hosted(o) THEN [step EXCEPT ![l] = s] ELSE step)
    BY <1>3, <2>2, <2>3, <2>6 DEF Tell
  <2>8. /\ handler' \in [Orders -> Handlers] /\ handler'[o].pc = "deposit-receipt"
        /\ handler'[o].amount = handler[o].amount
        /\ \A p \in Orders \ {o} : handler'[p] = handler[p]
    BY <1>3, HandlerMoves DEF LegInv, Awaits
  <2>9. PICK d \in Deposits : d = [state |-> "sent", amount |-> handler[o].amount]
                              /\ d.amount = handler[o].amount
    <3>1. handler[o].amount \in Nat \ {0}
      BY <1>1, <2>1 DEF Handlers, OrderIsPaid
    <3>2. [state |-> "sent", amount |-> handler[o].amount] \in Deposits
      BY <3>1 DEF Deposits
    <3> QED
      BY <3>2
  <2>10. deposits \in [Orders -> Seq(Deposits)] /\ deposits[o] \in Seq(Deposits) /\ Len(deposits[o]) \in Nat
         /\ chain \in [Orders -> ChainStates]
    BY LenProperties DEF LegInv, Typed
  <2>11. PICK ds \in Seq(Deposits) :
           /\ ds = Append(deposits[o], d) /\ ds # <<>> /\ Len(ds) = Len(deposits[o]) + 1
           /\ \A k \in 1..Len(deposits[o]) : ds[k] = deposits[o][k]
           /\ ds[Len(deposits[o]) + 1] = d
    BY <2>10, AppendProperties, ZenonT(60)
  <2>12. /\ deposits' \in [Orders -> Seq(Deposits)] /\ deposits'[o] = ds
         /\ \A p \in Orders \ {o} : deposits'[p] = deposits[p]
    BY <1>3, <2>9, <2>10, <2>11
  <2>13. handler[o].amount <= Delivery
    BY <1>1, <2>1 DEF OrderIsPaid, Depositing
  <2>14. \A k \in 1..Len(ds) : ds[k].amount <= Delivery
    <3>1. \A k \in 1..Len(deposits[o]) : deposits[o][k].amount <= Delivery
      BY <2>1 DEF OrderIsPaid
    <3>2. ASSUME NEW k \in 1..Len(ds) PROVE ds[k].amount <= Delivery
      <4>1. CASE k = Len(deposits[o]) + 1
        BY <2>9, <2>11, <2>13, <4>1
      <4>2. CASE k # Len(deposits[o]) + 1
        BY <2>10, <2>11, <3>1, <4>2
      <4> QED
        BY <4>1, <4>2
    <3> QED
      BY <3>2
  <2>15. chain[o] = "filled" /\ OrderIsKnown(l, "deposit-receipt", seen[o], chain[o], ds)
    BY <1>1, <2>1, <2>2, <2>11 DEF OrderIsKnown, Opening, Depositing, Legs
  <2>16. Hosted(o) => /\ s.order = o /\ Shaped(s, "deposit-receipt", chain[o])
                      /\ s.amount <= Delivery /\ balance <= s.pre + Delivery
    <3>1. Hosted(o) => Shaped(s, "deposit-receipt", chain[o])
      BY <2>4, <2>5, <2>15 DEF Shaped, PostOpen, NotOpen, Depositing
    <3> QED
      BY <2>1, <2>4, <2>5, <3>1 DEF PostOpen
  <2>17. HandlerGoesOn(o, l)
    <3>1. \A k \in 1..Len(deposits[o]) : k \in 1..Len(ds) /\ ds[k] = deposits[o][k]
      BY <2>10, <2>11
    <3>2. UNCHANGED <<legOf, seen, chain, due, balance, toggles>>
      BY <1>3
    <3> QED
      BY <2>8, <2>10, <2>12, <2>13, <2>14, <2>15, <3>1, <3>2 DEF HandlerGoesOn, Depositing
  <2>18. LegGoesOn(o, l, lg, s)
    BY <1>1, <1>3, <2>6, <2>7, <2>8, <2>16 DEF LegGoesOn, IsLegTerminal
  <2> QED
    BY <1>1, <2>2, <2>17, <2>18, HandlerGoesOnKeeps
<1> QED
  BY <1>2, <1>3 DEF DepositSend

LEMMA DepositReceiptKeeps ==
  ASSUME LegInv, NEW o \in Orders, DepositReceipt(o)
  PROVE  LegInv'
<1>1. handler[o].pc = "deposit-receipt"
  BY DEF DepositReceipt
<1>2. CASE DepositFails(o)
  BY <1>1, <1>2, DepositFailsKeeps DEF Depositing
<1>3. CASE /\ LastDeposit(o).state = "mined" /\ Over(o)
           /\ Tell(o, Confirmed, Mine(o))
           /\ UNCHANGED <<legOf, seen, chainVars, toggles>>
  <2>1. /\ legOf[o] \in Legs /\ legs[legOf[o]] \in LegRecords /\ Mine(o) \in Component
        /\ OrderIsKnown(legOf[o], handler[o].pc, seen[o], chain[o], deposits[o]) /\ OrderIsPaid(o)
    BY <1>1, AtWork
  <2>2. PICK l \in Legs : l = legOf[o]
    BY <2>1
  <2>3. PICK lg \in LegRecords : lg = ApplyExecutionEvent(legs[l], Confirmed) /\ lg.status = "done"
    BY <2>1, <2>2, EventsMove, LegRecordsAre DEF LegStatus
  <2>4. Show([legs EXCEPT ![l] = lg], currentIndex,
             IF Hosted(o) THEN [step EXCEPT ![l] = Mine(o)] ELSE step)
    BY <1>3, <2>2, <2>3 DEF Tell
  <2>5. /\ handler' \in [Orders -> Handlers] /\ handler'[o].pc = "none"
        /\ \A p \in Orders \ {o} : handler'[p] = handler[p]
    BY <1>3, HandlerMoves DEF LegInv
  <2>6. UNCHANGED <<legOf, seen, chain, due, deposits, balance, toggles>>
    BY <1>3 DEF chainVars
  <2>7. OrderIsKnown(l, "none", seen[o], chain[o], deposits[o])
    BY <1>1, <2>1, <2>2 DEF OrderIsKnown, Opening, Depositing, Legs
  <2>8. /\ deposits \in [Orders -> Seq(Deposits)] /\ chain \in [Orders -> ChainStates]
        /\ deposits[o] \in Seq(Deposits) /\ deposits[o] # <<>>
    BY <1>1, <2>1 DEF LegInv, Typed, OrderIsKnown
  <2>9. HasDeposited(l)'
    <3>1. Len(deposits[o]) \in Nat \ {0}
      BY <2>8, EmptySeq
    <3>2. Len(deposits[o]) \in 1..Len(deposits[o])
      BY <3>1
    <3>3. deposits'[o] = deposits[o] /\ legOf'[o] = l /\ deposits[o][Len(deposits[o])].state = "mined"
      BY <1>3, <2>2, <2>6 DEF LastDeposit
    <3> QED
      BY <3>2, <3>3 DEF HasDeposited
  <2>10. HandlerGoesOn(o, l)
    <3>1. \A k \in 1..Len(deposits[o]) : deposits[o][k].amount <= Delivery
      BY <2>1 DEF OrderIsPaid
    <3> QED
      BY <2>5, <2>6, <2>7, <2>8, <3>1 DEF HandlerGoesOn, Depositing
  <2>11. LegGoesOn(o, l, lg, Mine(o))
    BY <1>1, <2>3, <2>4, <2>5, <2>9 DEF LegGoesOn
  <2> QED
    BY <1>1, <2>1, <2>2, <2>10, <2>11, HandlerGoesOnKeeps
<1> QED
  BY <1>2, <1>3 DEF DepositReceipt

\* What a poll can say of an order of whose step the leg is l.
LEMMA PollKeeps ==
  ASSUME LegInv, NEW l \in Legs, Poll(l)
  PROVE  LegInv'
<1>1. step[l] \in Component /\ StepIsShaped(l) /\ StepIsPaid(l) /\ legs[l] \in LegRecords
  BY DEF LegInv, Typed, Shapes, Paid
<1>2. PICK o \in Orders : o = step[l].order /\ o # 0
  BY <1>1 DEF Poll, Component, Orders
<1>3. PICK st \in Reported(o) \ {seen[o]} :
        seen' = [seen EXCEPT ![o] = st] /\ Tell(o, Status(st), step[l])
  BY <1>2 DEF Poll
<1>4. /\ step[l].stage \in PostOpen \cup {"refunding"}
      /\ UNCHANGED <<legOf, handler, chain, due, deposits, balance, toggles>>
  BY DEF Poll, chainVars
<1>5. /\ legOf[o] = l /\ Shaped(step[l], handler[o].pc, chain[o]) /\ Mounted(l) /\ Hosted(o)
      /\ step[l].amount <= Delivery /\ balance <= step[l].pre + Delivery
  <2>1. step[l] # Fresh /\ step[l].stage # "quoted" /\ l # 0
    BY <1>4 DEF Fresh, PostOpen, Legs
  <2> QED
    BY <1>1, <1>2, <2>1 DEF StepIsShaped, StepIsPaid, Hosted
<1>6. OrderIsKnown(l, handler[o].pc, seen[o], chain[o], deposits[o]) /\ OrderIsPaid(o)
  BY <1>5 DEF LegInv, Known, Paid
<1>7. chain[o] \notin NotOpen /\ handler[o].pc \in {"none", "refund"} \cup Depositing
  BY <1>4, <1>5 DEF Shaped, PostOpen, Depositing
<1>8. \/ chain[o] = "escrowed" /\ st \in {"Failed", "Expired"}
      \/ chain[o] = "filled" /\ st \in Delivered
      \/ chain[o] = "refunded" /\ st = "Refunded"
  BY DEF Reported, Delivered
<1>9. PICK lg \in LegRecords :
        /\ lg = ApplyExecutionEvent(legs[l], Status(st))
        /\ st \in Delivered => /\ lg.status \in {"intent-delivered", "depositing", "done"}
                               /\ lg.status = "done" => legs[l].status = "done"
        /\ st \in {"Failed", "Expired"} => lg.status = "failed"
        /\ st = "Refunded" => lg.status = "refunded"
  <2>1. CASE st \in Delivered
    BY <1>1, <2>1, StatesMove DEF Delivered
  <2>2. CASE st = "Refunded"
    BY <1>1, <2>2, StatesMove, LegRecordsAre DEF Delivered, LegStatus
  <2>3. CASE st = "Failed"
    <3>1. [status |-> "failed", recoverable |-> FALSE] \in LegRecords
      BY LegRecordsAre DEF LegStatus
    <3> QED
      BY <1>1, <2>3, <3>1, StatesMove DEF Delivered
  <2>4. CASE st = "Expired"
    <3>1. [status |-> "failed", recoverable |-> TRUE] \in LegRecords
      BY LegRecordsAre DEF LegStatus
    <3> QED
      BY <1>1, <2>4, <3>1, StatesMove DEF Delivered
  <2> QED
    BY <1>8, <2>1, <2>2, <2>3, <2>4
<1>10. Show([legs EXCEPT ![l] = lg], currentIndex,
            IF Hosted(o) THEN [step EXCEPT ![l] = step[l]] ELSE step)
  BY <1>3, <1>5, <1>9 DEF Tell
<1>11. legs' \in [Legs -> LegRecords] /\ legs'[l] = lg /\ currentIndex' = currentIndex
       /\ step' \in [Legs -> Component]
  BY <1>1, <1>5, <1>10, Shown DEF LegInv
<1>12. /\ seen' \in [Orders -> OrderState] /\ seen'[o] = st
       /\ \A p \in Orders \ {o} : seen'[p] = seen[p]
  BY <1>3, <1>8 DEF LegInv, Typed, OrderState, Delivered
<1>13. Typed'
  BY <1>4, <1>11, <1>12 DEF LegInv, Typed
<1>14. Delivery' = Delivery
  BY <1>4 DEF Delivery, Filled
<1>15. \A p \in Orders \ {o} : OrderIsKept(p)
  BY <1>4, <1>12 DEF OrderIsKept
<1>16. OrderHasMoved(o, l)
  <2>1. OrderIsKnown(l, handler[o].pc, st, chain[o], deposits[o])
    BY <1>5, <1>6, <1>7, <1>8 DEF OrderIsKnown, Opening, Depositing, Delivered, NotOpen, Legs
  <2>2. OrderIsPaid(o)'
    BY <1>4, <1>6, <1>14 DEF OrderIsPaid
  <2> QED
    BY <1>4, <1>5, <1>12, <2>1, <2>2 DEF OrderHasMoved
<1>17. ~Mounted(l)' => handler'[o].pc \in {"none", "refund"}
  <2>1. ASSUME handler[o].pc \in Depositing PROVE Mounted(l)'
    <3>1. chain[o] = "filled"
      BY <1>6, <2>1 DEF OrderIsKnown
    <3>2. lg.status \in {"intent-delivered", "depositing", "done"}
          /\ (lg.status = "done" => legs[l].status = "done")
      BY <1>8, <1>9, <3>1
    <3> QED
      BY <1>5, <1>11, <3>2 DEF Mounted, ShouldRenderFlow
  <2> QED
    BY <1>4, <1>7, <2>1
<1>18. lg.status = "done" => legs[l].status = "done"
  BY <1>8, <1>9
<1>19. lg.status = "refunded" => HasRefunded(l)'
  <2>1. lg.status = "refunded" => chain'[o] = "refunded" /\ legOf'[o] = l
    BY <1>4, <1>5, <1>8, <1>9
  <2> QED
    BY <2>1 DEF HasRefunded
<1>20. /\ step[l].order = o /\ legOf'[o] = l /\ Shaped(step[l], handler'[o].pc, chain'[o])
       /\ balance' = balance /\ toggles' = toggles
  BY <1>2, <1>4, <1>5
<1> QED
  BY <1>1, <1>5, <1>9, <1>10, <1>13, <1>14, <1>15, <1>16, <1>17, <1>18, <1>19, <1>20, HandlerKeeps

-----------------------------------------------------------------------------
(***************************************************************************)
(* The queue and the chains                                                *)
(***************************************************************************)

\* Skipping a failed leg leaves it.
LEMMA SkipMoves ==
  ASSUME LegInv, Skip
  PROVE  /\ MadeFinal \in [Legs -> LegRecords]
         /\ \A l \in Legs : MadeFinal[l].status = legs[l].status
         /\ NextIndex(MadeFinal, currentIndex) # currentIndex /\ currentIndex' # currentIndex
<1>1. currentIndex \in Legs /\ legs[currentIndex].status = "failed"
  BY QueueAssumption DEF Skip, SkipOffered, LegInv, Typed, Legs
<1>2. PICK lg \in LegRecords : /\ lg = [legs[currentIndex] EXCEPT !.recoverable = FALSE]
                               /\ lg.status = legs[currentIndex].status
  <2>1. legs[currentIndex] \in LegRecords
    BY <1>1 DEF LegInv, Typed
  <2> DEFINE lg == [legs[currentIndex] EXCEPT !.recoverable = FALSE]
  <2>2. lg \in LegRecords /\ lg.status = legs[currentIndex].status
    BY <2>1 DEF LegRecords
  <2> QED
    BY <2>2
<1>3. MadeFinal = [legs EXCEPT ![currentIndex] = lg]
  BY <1>2 DEF MadeFinal
<1>4. MadeFinal \in [Legs -> LegRecords] /\ \A l \in Legs : MadeFinal[l].status = legs[l].status
  BY <1>1, <1>2, <1>3 DEF LegInv, Typed
<1>5. NextIndex(MadeFinal, currentIndex) # currentIndex
  <2>1. currentIndex \in 0..NumLegs /\ currentIndex # 0 /\ MadeFinal[currentIndex].status = "failed"
    BY <1>1, <1>4 DEF LegInv, Typed, Legs
  <2> QED
    BY <1>4, <2>1, NextGoesForward
<1> QED
  BY <1>4, <1>5 DEF Skip, Show

\* The queue stays where it is, or leaves a leg and its step for a later leg.
LEMMA QueueKeeps ==
  ASSUME LegInv, NextStep \/ Skip
  PROVE  LegInv'
<1>1. PICK ls \in [Legs -> LegRecords] :
        /\ \A l \in Legs : ls[l].status = legs[l].status
        /\ Show(ls, NextIndex(ls, currentIndex), step)
        /\ ls = legs \/ NextIndex(ls, currentIndex) # currentIndex
  <2>1. CASE NextStep
    BY <2>1 DEF NextStep, LegInv, Typed
  <2>2. CASE Skip
    BY <2>2, SkipMoves DEF Skip
  <2> QED
    BY <2>1, <2>2
<1>2. PICK c \in 0..NumLegs : /\ c = NextIndex(ls, currentIndex)
                              /\ c = currentIndex \/ c = 0 \/ (currentIndex # 0 /\ c > currentIndex)
  BY NextGoesForward DEF LegInv, Typed
<1>3. /\ legs' = ls /\ currentIndex' = c
      /\ step' = [l \in Legs |-> IF ShouldRenderFlow(ls, c, l) THEN step[l] ELSE Fresh]
  BY <1>1, <1>2 DEF Show
<1>4. UNCHANGED <<legOf, handler, seen, chain, due, deposits, balance, toggles>>
  BY DEF NextStep, Skip, chainVars
<1>5. Fresh \in Component
  BY StepAssumption DEF Fresh, Component, Stages
<1>6. Typed'
  <2>1. step' \in [Legs -> Component]
    BY <1>3, <1>5 DEF LegInv, Typed
  <2> QED
    BY <1>3, <1>4, <2>1 DEF LegInv, Typed
<1>7. Delivery' = Delivery
  BY <1>4 DEF Delivery, Filled
<1>8. Known'
  BY <1>4 DEF LegInv, Known
<1>9. OutcomesAreReal'
  BY <1>1, <1>3, <1>4 DEF LegInv, OutcomesAreReal
<1>10. \A o \in Orders : OrderIsPaid(o)'
  BY <1>4, <1>7 DEF LegInv, Paid, OrderIsPaid
<1>11. CASE c = currentIndex
  <2>1. ls = legs
    BY <1>1, <1>2, <1>11
  <2>2. \A l \in Legs : step'[l] = step[l] /\ (Mounted(l)' <=> Mounted(l))
    BY <1>3, <1>11, <2>1 DEF LegInv, Shapes, StepIsShaped, Mounted
  <2>3. Shapes'
    BY <1>4, <2>2 DEF LegInv, Shapes, StepIsShaped
  <2>4. Placed'
    BY <1>3, <1>4, <1>11, <2>2 DEF LegInv, Placed
  <2>5. \A l \in Legs : StepIsPaid(l)'
    BY <1>4, <1>7, <2>2 DEF LegInv, Paid, StepIsPaid
  <2> QED
    BY <1>6, <1>8, <1>9, <1>10, <2>3, <2>4, <2>5 DEF LegInv, Paid
<1>12. CASE c # currentIndex
  <2>1. \A l \in Legs : step'[l] = Fresh
    <3>1. ASSUME NEW l \in Legs PROVE step'[l] = Fresh
      <4>1. CASE l = currentIndex
        BY <1>3, <1>12, <4>1 DEF ShouldRenderFlow
      <4>2. CASE l # currentIndex
        BY <1>3, <4>2, OnePage DEF LegInv
      <4> QED
        BY <4>1, <4>2
    <3> QED
      BY <3>1
  <2>2. \A l \in Legs : StepIsShaped(l)' /\ StepIsPaid(l)'
    BY <1>6, <2>1, FreshIsFine
  <2>3. Placed'
    <3>1. ASSUME NEW o \in Orders, c # 0 PROVE legOf[o] < c
      <4>1. currentIndex # 0 /\ c > currentIndex
        BY <1>2, <1>12, <3>1
      <4>2. legOf[o] <= currentIndex /\ legOf[o] \in Nat /\ currentIndex \in Nat
        BY <4>1, QueueAssumption DEF LegInv, Placed, Typed
      <4> QED
        BY <4>1, <4>2, QueueAssumption
    <3>2. \A o \in Orders : legOf[o] \in Nat
      BY QueueAssumption DEF LegInv, Typed
    <3>3. \A l \in Legs : l \in Nat \ {0}
      BY QueueAssumption DEF Legs
    <3>4. \A o \in Orders : currentIndex' # 0 => legOf'[o] <= currentIndex'
      BY <1>3, <1>4, <3>1, <3>2, QueueAssumption
    <3>5. \A l \in Legs, o, p \in Orders : legOf'[o] = l /\ legOf'[p] = l /\ toggles'[l] = 0 => o = p
      BY <1>4 DEF LegInv, Placed
    <3>6. ASSUME NEW l \in Legs, NEW o \in Orders, legOf'[o] = l, currentIndex' = l PROVE FALSE
      BY <1>3, <1>4, <3>1, <3>2, <3>3, <3>6
    <3> QED
      BY <3>4, <3>5, <3>6 DEF Placed
  <2> QED
    BY <1>6, <1>8, <1>9, <1>10, <2>2, <2>3 DEF LegInv, Paid, Shapes
<1> QED
  BY <1>11, <1>12

\* An order goes on, it is not taken back, and the deposits are settled one
\* by one.
ChainGoesOn ==
    /\ chain' \in [Orders -> ChainStates] /\ due' \in [Orders -> BOOLEAN]
    /\ deposits' \in [Orders -> Seq(Deposits)] /\ balance' \in Nat
    /\ UNCHANGED <<legs, currentIndex, step, legOf, handler, seen, toggles>>
    /\ Delivery <= Delivery' /\ balance' + Delivery <= balance + Delivery'
    /\ \A o \in Orders :
          /\ chain'[o] = "none" <=> chain[o] = "none"
          /\ chain[o] \notin NotOpen => chain'[o] \notin NotOpen
          /\ chain[o] = "filled" => chain'[o] = "filled"
          /\ chain[o] = "refunded" => chain'[o] = "refunded"
          /\ Len(deposits'[o]) = Len(deposits[o]) /\ (deposits'[o] = <<>> <=> deposits[o] = <<>>)
          /\ \A k \in 1..Len(deposits[o]) :
                /\ deposits'[o][k].amount = deposits[o][k].amount
                /\ deposits[o][k].state = "mined" => deposits'[o][k].state = "mined"

LEMMA Sums ==
  ASSUME NEW p \in Nat, NEW b \in Nat, NEW c \in Nat, NEW d \in Nat, NEW e \in Nat,
         b <= p + d, c + d <= b + e
  PROVE  c <= p + e
  OBVIOUS

LEMMA Less ==
  ASSUME NEW a \in Nat, NEW b \in Nat, NEW d \in Nat, b <= a
  PROVE  b + d <= a + d
  OBVIOUS

LEMMA ChainKeeps ==
  ASSUME LegInv, ChainGoesOn
  PROVE  LegInv'
<1>1. UNCHANGED <<legs, currentIndex, step, legOf, handler, seen, toggles>>
  BY DEF ChainGoesOn
<1>2. Typed'
  BY DEF LegInv, Typed, ChainGoesOn
<1>3. Shapes'
  <2>1. SUFFICES ASSUME NEW l \in Legs PROVE StepIsShaped(l)'
    BY DEF Shapes
  <2>2. StepIsShaped(l) /\ step[l].order \in 0..NumOrders
    BY DEF LegInv, Shapes, Typed, Component
  <2>3. Mounted(l)' <=> Mounted(l)
    BY <1>1 DEF Mounted
  <2>4. CASE step[l].order = 0
    BY <1>1, <2>2, <2>3, <2>4 DEF StepIsShaped
  <2>5. CASE step[l].order # 0
    <3>1. PICK o \in Orders : o = step[l].order
      BY <2>2, <2>5, StepAssumption DEF Orders
    <3>2. legOf[o] = l /\ Shaped(step[l], handler[o].pc, chain[o])
      BY <2>2, <2>5, <3>1 DEF StepIsShaped
    <3>3. chain[o] \notin NotOpen => chain'[o] \notin NotOpen
      BY DEF ChainGoesOn
    <3>4. Shaped(step[l], handler[o].pc, chain'[o])
      BY <3>2, <3>3 DEF Shaped
    <3> QED
      BY <1>1, <2>2, <2>3, <2>5, <3>1, <3>2, <3>4 DEF StepIsShaped
  <2> QED
    BY <2>4, <2>5
<1>4. Known'
  <2>1. ASSUME NEW o \in Orders
        PROVE  OrderIsKnown(legOf[o], handler[o].pc, seen[o], chain'[o], deposits'[o])
    <3>1. OrderIsKnown(legOf[o], handler[o].pc, seen[o], chain[o], deposits[o])
      BY DEF LegInv, Known
    <3>2. /\ chain'[o] = "none" <=> chain[o] = "none"
          /\ chain[o] \notin NotOpen => chain'[o] \notin NotOpen
          /\ chain[o] = "filled" => chain'[o] = "filled"
          /\ deposits'[o] = <<>> <=> deposits[o] = <<>>
      BY DEF ChainGoesOn
    <3> QED
      BY <3>1, <3>2 DEF OrderIsKnown
  <2> QED
    BY <1>1, <2>1 DEF Known
<1>5. Placed'
  <2>1. \A l \in Legs : Mounted(l)' <=> Mounted(l)
    BY <1>1 DEF Mounted
  <2> QED
    BY <1>1, <2>1 DEF LegInv, Placed
<1>6. Delivery \in Nat /\ Delivery' \in Nat /\ balance \in Nat /\ balance' \in Nat
      /\ Delivery <= Delivery' /\ balance' + Delivery <= balance + Delivery'
  BY Deliveries DEF LegInv, Typed, ChainGoesOn
<1>7. ASSUME NEW l \in Legs PROVE StepIsPaid(l)'
  <2>1. StepIsPaid(l) /\ step[l].pre \in Nat /\ step[l].amount \in Nat
    BY DEF LegInv, Paid, Typed, Component
  <2>2. step[l].amount <= Delivery'
    BY <1>6, <2>1 DEF StepIsPaid
  <2>3. balance <= step[l].pre + Delivery => balance' <= step[l].pre + Delivery'
    BY <1>6, <2>1, Sums
  <2> QED
    BY <1>1, <2>1, <2>2, <2>3 DEF StepIsPaid
<1>8. ASSUME NEW o \in Orders PROVE OrderIsPaid(o)'
  <2>1. OrderIsPaid(o) /\ handler[o].pre \in Nat /\ handler[o].amount \in Nat
    BY DEF LegInv, Paid, Typed, Handlers
  <2>2. handler[o].amount <= Delivery => handler[o].amount <= Delivery'
    BY <1>6, <2>1
  <2>3. balance <= handler[o].pre + Delivery => balance' <= handler[o].pre + Delivery'
    BY <1>6, <2>1, Sums
  <2>4. ASSUME NEW k \in 1..Len(deposits'[o]) PROVE deposits'[o][k].amount <= Delivery'
    <3>1. k \in 1..Len(deposits[o]) /\ deposits'[o][k].amount = deposits[o][k].amount
      BY <2>4 DEF ChainGoesOn
    <3>2. deposits[o][k].amount <= Delivery /\ deposits[o][k].amount \in Nat
      <4>1. deposits[o] \in Seq(Deposits)
        BY DEF LegInv, Typed
      <4>2. deposits[o][k] \in Deposits
        BY <3>1, <4>1, ElementOfSeq
      <4> QED
        BY <2>1, <3>1, <4>2 DEF OrderIsPaid, Deposits
    <3> QED
      BY <1>6, <3>1, <3>2
  <2> QED
    BY <1>1, <2>1, <2>2, <2>3, <2>4 DEF OrderIsPaid
<1>9. OutcomesAreReal'
  <2>1. SUFFICES ASSUME NEW l \in Legs PROVE LegIsReal(l)'
    BY <2>1 DEF OutcomesAreReal, LegIsReal, HasDeposited, HasRefunded
  <2>2. LegIsReal(l)
    BY DEF LegInv, OutcomesAreReal, LegIsReal, HasDeposited, HasRefunded
  <2>3. HasDeposited(l) => HasDeposited(l)'
    BY DEF HasDeposited, ChainGoesOn
  <2>4. HasRefunded(l) => HasRefunded(l)'
    BY DEF HasRefunded, ChainGoesOn
  <2> QED
    BY <1>1, <2>2, <2>3, <2>4 DEF LegIsReal
<1> QED
  BY <1>2, <1>3, <1>4, <1>5, <1>7, <1>8, <1>9 DEF LegInv, Paid

LEMMA OrderStepKeeps ==
  ASSUME LegInv, NEW o \in Orders, OpenMined(o) \/ RefundByOther(o) \/ Expire(o)
  PROVE  LegInv'
<1>1. /\ chain' \in [Orders -> ChainStates] /\ due' \in [Orders -> BOOLEAN]
      /\ UNCHANGED <<legs, currentIndex, step, legOf, handler, seen, deposits, balance, toggles>>
      /\ \A p \in Orders \ {o} : chain'[p] = chain[p]
      /\ \/ chain'[o] = chain[o]
         \/ chain[o] = "sent" /\ chain'[o] \in {"escrowed", "reverted"}
         \/ chain[o] = "escrowed" /\ chain'[o] = "refunded"
  BY DEF OpenMined, RefundByOther, Expire, ChainStep, LegInv, Typed, ChainStates
<1>2. Filled' = Filled
  BY <1>1 DEF Filled
<1>3. Delivery' = Delivery /\ Delivery \in Nat /\ balance \in Nat
  BY <1>2, Deliveries DEF Delivery, LegInv, Typed
<1>4. ChainGoesOn
  <2>1. deposits \in [Orders -> Seq(Deposits)]
    BY DEF LegInv, Typed
  <2> QED
    BY <1>1, <1>3, <2>1 DEF ChainGoesOn, NotOpen
<1> QED
  BY <1>4, ChainKeeps

LEMMA FillKeeps ==
  ASSUME LegInv, NEW o \in Orders, Fill(o)
  PROVE  LegInv'
<1>1. /\ chain[o] = "escrowed" /\ chain' = [chain EXCEPT ![o] = "filled"] /\ balance' = balance + Amount
      /\ UNCHANGED <<legs, currentIndex, step, legOf, handler, seen, due, deposits, toggles>>
  BY DEF Fill, ChainStep
<1>2. /\ chain' \in [Orders -> ChainStates] /\ chain'[o] = "filled"
      /\ \A p \in Orders \ {o} : chain'[p] = chain[p]
  BY <1>1 DEF LegInv, Typed, ChainStates
<1>3. Filled' = Filled \cup {o} /\ o \notin Filled
  BY <1>1, <1>2 DEF Filled
<1>4. Cardinality(Filled') = Cardinality(Filled) + 1
  BY <1>3, Deliveries, FS_AddElement
<1>5. Cardinality(Filled) \in Nat /\ Delivery \in Nat /\ Amount \in Nat /\ balance \in Nat
  BY Deliveries, FS_CardinalityType, StepAssumption DEF LegInv, Typed
<1>6. Delivery' = Delivery + Amount
  BY <1>4, <1>5 DEF Delivery
<1>7. ChainGoesOn
  <2>1. deposits \in [Orders -> Seq(Deposits)] /\ due \in [Orders -> BOOLEAN]
    BY DEF LegInv, Typed
  <2> QED
    BY <1>1, <1>2, <1>5, <1>6, <2>1 DEF ChainGoesOn, NotOpen
<1> QED
  BY <1>7, ChainKeeps

LEMMA DepositMinedKeeps ==
  ASSUME LegInv, NEW o \in Orders, DepositMined(o)
  PROVE  LegInv'
<1>1. deposits \in [Orders -> Seq(Deposits)] /\ deposits[o] \in Seq(Deposits) /\ balance \in Nat
  BY DEF LegInv, Typed
<1>2. PICK k \in 1..Len(deposits[o]) :
        /\ deposits[o][k].state = "sent"
        /\ \/ /\ balance >= deposits[o][k].amount
              /\ balance' = balance - deposits[o][k].amount
              /\ deposits' = [deposits EXCEPT ![o][k].state = "mined"]
           \/ deposits' = [deposits EXCEPT ![o][k].state = "reverted"] /\ UNCHANGED balance
        /\ UNCHANGED <<legs, currentIndex, step, legOf, handler, seen, chain, due, toggles>>
  BY DEF DepositMined
<1>3. deposits[o][k] \in Deposits
  BY <1>1, ElementOfSeq
<1>4. PICK v \in {"mined", "reverted"} : deposits' = [deposits EXCEPT ![o][k].state = v]
  BY <1>2
<1>5. PICK d \in Deposits : d = [deposits[o][k] EXCEPT !.state = v] /\ d.amount = deposits[o][k].amount
  <2> DEFINE d == [deposits[o][k] EXCEPT !.state = v]
  <2>1. d \in Deposits /\ d.amount = deposits[o][k].amount
    BY <1>3 DEF Deposits
  <2> QED
    BY <2>1
<1>6. PICK s \in Seq(Deposits) : s = deposits[o]
  BY <1>1
<1>7. PICK ds \in Seq(Deposits) :
        /\ ds = [s EXCEPT ![k] = d] /\ Len(ds) = Len(s)
        /\ \A j \in 1..Len(s) : ds[j] = IF j = k THEN d ELSE s[j]
  <2>1. k \in 1..Len(s)
    BY <1>6
  <2>2. /\ [s EXCEPT ![k] = d] \in Seq(Deposits)
        /\ Len([s EXCEPT ![k] = d]) = Len(s)
        /\ \A j \in 1..Len(s) : [s EXCEPT ![k] = d][j] = IF j = k THEN d ELSE s[j]
    BY <2>1, ExceptSeq
  <2> QED
    BY <2>2, Zenon
<1>8. deposits' = [deposits EXCEPT ![o] = ds]
  BY <1>1, <1>4, <1>5, <1>6, <1>7
<1>9. /\ deposits' \in [Orders -> Seq(Deposits)] /\ deposits'[o] = ds
      /\ \A p \in Orders \ {o} : deposits'[p] = deposits[p]
  BY <1>1, <1>6, <1>7, <1>8
<1>10. balance' \in Nat /\ balance' <= balance
  BY <1>1, <1>2, <1>3 DEF Deposits
<1>11. Delivery' = Delivery /\ Delivery \in Nat
  BY <1>2, Deliveries DEF Delivery, Filled
<1>12. ds = <<>> <=> deposits[o] = <<>>
  <2>1. /\ ds # <<>> => Len(ds) \in Nat \ {0}
        /\ deposits[o] # <<>> => Len(deposits[o]) \in Nat \ {0}
        /\ Len(<<>>) = 0
    BY <1>1, <1>6, <1>7, EmptySeq
  <2> QED
    BY <1>6, <1>7, <2>1
<1>13. ASSUME NEW j \in 1..Len(deposits[o])
       PROVE  /\ ds[j].amount = deposits[o][j].amount
              /\ deposits[o][j].state = "mined" => ds[j].state = "mined"
  BY <1>2, <1>5, <1>6, <1>7
<1>14. ChainGoesOn
  <2>1. chain \in [Orders -> ChainStates] /\ due \in [Orders -> BOOLEAN]
    BY DEF LegInv, Typed
  <2> QED
    <3>1. UNCHANGED <<legs, currentIndex, step, legOf, handler, seen, chain, due, toggles>>
      BY <1>2
    <3>2. \A p \in Orders :
            /\ Len(deposits'[p]) = Len(deposits[p]) /\ (deposits'[p] = <<>> <=> deposits[p] = <<>>)
            /\ \A j \in 1..Len(deposits[p]) :
                  /\ deposits'[p][j].amount = deposits[p][j].amount
                  /\ deposits[p][j].state = "mined" => deposits'[p][j].state = "mined"
      BY <1>6, <1>7, <1>9, <1>12, <1>13, SMTT(30)
    <3>3. Delivery <= Delivery' /\ balance' + Delivery <= balance + Delivery'
      <4>1. Delivery <= Delivery
        BY <1>11
      <4>2. balance' + Delivery <= balance + Delivery
        BY <1>1, <1>10, <1>11, Less
      <4> QED
        BY <1>11, <4>1, <4>2
    <3> QED
      BY <1>9, <1>10, <2>1, <3>1, <3>2, <3>3 DEF ChainGoesOn
<1> QED
  BY <1>14, ChainKeeps

-----------------------------------------------------------------------------
(***************************************************************************)
(* Theorems                                                                *)
(***************************************************************************)

LEMMA StartHolds == StepInit => LegInv
<1> SUFFICES ASSUME StepInit PROVE LegInv
  OBVIOUS
<1>1. /\ legs = [l \in Legs |-> [status |-> "pending", recoverable |-> FALSE]] /\ currentIndex = 1
      /\ step = [l \in Legs |-> Fresh] /\ toggles = [l \in Legs |-> 0]
      /\ legOf = [o \in Orders |-> 0] /\ handler = [o \in Orders |-> Idle]
      /\ seen = [o \in Orders |-> "Open"] /\ chain = [o \in Orders |-> "none"]
      /\ due = [o \in Orders |-> FALSE] /\ deposits = [o \in Orders |-> <<>>] /\ balance = Prior
  BY DEF StepInit, QueueInit
<1>2. Typed
  <2>1. Fresh \in Component /\ Idle \in Handlers /\ <<>> \in Seq(Deposits)
    BY StepAssumption, EmptySeq DEF Fresh, Component, Stages, Idle, Handlers, Awaits
  <2>2. [status |-> "pending", recoverable |-> FALSE] \in LegRecords
    BY LegRecordsAre DEF LegStatus
  <2> QED
    BY <1>1, <2>1, <2>2, StepAssumption, QueueAssumption DEF Typed, OrderState, ChainStates
<1>3. Shapes
  BY <1>1 DEF Shapes, StepIsShaped, Fresh
<1>4. Known
  BY <1>1 DEF Known, OrderIsKnown, Idle, Opening, Depositing, Delivered
<1>5. Placed
  BY <1>1 DEF Placed, Legs
<1>6. \A l \in Legs : StepIsPaid(l)
  BY <1>1, Deliveries DEF StepIsPaid, Fresh
<1>7. ASSUME NEW o \in Orders PROVE OrderIsPaid(o)
  BY <1>1, EmptySeq DEF OrderIsPaid, Idle, Depositing
<1>8. OutcomesAreReal
  BY <1>1 DEF OutcomesAreReal
<1> QED
  BY <1>2, <1>3, <1>4, <1>5, <1>6, <1>7, <1>8 DEF LegInv, Paid

LEMMA HandlerStepKeeps ==
  ASSUME LegInv, NEW o \in Orders, HandlerStep(o)
  PROVE  LegInv'
  BY PreReadKeeps, BroadcastKeeps, ReceiptKeeps, RefundEndKeeps,
     DepositReadKeeps, DepositSendKeeps, DepositReceiptKeeps DEF HandlerStep

LEMMA StepHolds == LegInv /\ [StepNext]_stepVars => LegInv'
<1> SUFFICES ASSUME LegInv, [StepNext]_stepVars PROVE LegInv'
  OBVIOUS
<1>1. CASE UNCHANGED stepVars
  <2>1. UNCHANGED <<legs, currentIndex, step, legOf, handler, seen, chain, due, deposits, balance, toggles>>
    BY <1>1 DEF stepVars, chainVars
  <2>2. Delivery' = Delivery /\ Delivery \in Nat /\ balance \in Nat
    BY <2>1, Deliveries DEF Delivery, Filled, LegInv, Typed
  <2>3. ChainGoesOn
    BY <2>1, <2>2 DEF ChainGoesOn, LegInv, Typed
  <2> QED
    BY <2>3, ChainKeeps
<1>2. ASSUME NEW l \in Legs,
             \/ HandleQuote(l) \/ QuoteEnds(l) \/ HandleOpen(l) \/ Poll(l)
             \/ HandleRefund(l) \/ ReadDelta(l) \/ HandleDeposit(l) \/ Toggle(l)
      PROVE  LegInv'
  BY <1>2, QuoteKeeps, OpenKeeps, PollKeeps, RefundKeeps, DeltaKeeps, DepositKeeps, ToggleKeeps
<1>3. CASE NextStep \/ Skip
  BY <1>3, QueueKeeps
<1>4. ASSUME NEW o \in Orders,
             \/ HandlerStep(o)
             \/ OpenMined(o) \/ Fill(o) \/ RefundByOther(o) \/ Expire(o)
             \/ DepositMined(o)
      PROVE  LegInv'
  BY <1>4, HandlerStepKeeps, OrderStepKeeps, FillKeeps, DepositMinedKeeps
<1> QED
  BY <1>1, <1>2, <1>3, <1>4 DEF StepNext

\* The inductive invariant: step, handler, polls and chain agree on each order.
THEOREM LegsAgree == StepSpec => []LegInv
<1> QED
  BY StartHolds, StepHolds, PTL DEF StepSpec

\* What the queue and its steps hold and show agrees with the chain: an order that
\* is polled or refunded was broadcast, amounts measured and deposited were
\* delivered, and a leg that is done or refunded was.
THEOREM StepsAgree == StepSpec => []StepInv
<1>1. LegInv => StepInv
  <2> SUFFICES ASSUME LegInv PROVE StepInv
    OBVIOUS
  <2>1. StepTypeOK
    <3>1. QueueTypeOK
      BY DEF QueueTypeOK, LegInv, Typed, LegRecords
    <3>2. /\ step \in [Legs -> Component] /\ legOf \in [Orders -> 0..NumLegs]
          /\ handler \in [Orders -> [pc : Awaits, pre : Nat, amount : Nat]]
          /\ seen \in [Orders -> OrderState] /\ chain \in [Orders -> ChainStates]
          /\ due \in [Orders -> BOOLEAN] /\ balance \in Nat
          /\ deposits \in [Orders -> Seq([state : {"sent", "mined", "reverted"}, amount : Nat \ {0}])]
          /\ toggles \in [Legs -> 0..MaxToggles]
      BY DEF LegInv, Typed, Handlers, Deposits
    <3>3. ASSUME NEW l \in Legs
          PROVE  /\ step[l].stage \in PostOpen \cup {"refunding"} =>
                      step[l].sent /\ chain[step[l].order] \notin {"none", "sent", "reverted"}
                 /\ step[l].stage \in {"deposit-quoting", "deposit-signing"} => step[l].amount > 0
      <4>1. StepIsShaped(l)
        BY DEF LegInv, Shapes
      <4>2. step[l].order = 0 => step[l].stage \notin PostOpen \cup {"refunding"}
        BY <4>1 DEF StepIsShaped, PostOpen
      <4>3. step[l].order # 0 => Shaped(step[l], handler[step[l].order].pc, chain[step[l].order])
        BY <4>1 DEF StepIsShaped
      <4> QED
        BY <4>2, <4>3 DEF Shaped, PostOpen, NotOpen
    <3> QED
      BY <3>1, <3>2, <3>3 DEF StepTypeOK
  <2>2. EachDepositIsDelivered
    BY DEF EachDepositIsDelivered, LegInv, Paid, OrderIsPaid, Delivery, Filled
  <2>3. OutcomesAreReal
    BY DEF LegInv
  <2> QED
    BY <2>1, <2>2, <2>3 DEF StepInv
<1> QED
  BY <1>1, LegsAgree, PTL

\* As long as the user stays on the intent route of a leg, its funds are escrowed
\* by one order.
THEOREM LegOpensOneOrder == StepSpec => []OneOrderPerLeg
<1>1. LegInv => OneOrderPerLeg
  <2> SUFFICES ASSUME LegInv, NEW l \in Legs, toggles[l] = 0
               PROVE  Cardinality({o \in Orders : legOf[o] = l /\ chain[o] # "none"}) <= 1
    BY DEF OneOrderPerLeg
  <2> DEFINE S == {o \in Orders : legOf[o] = l /\ chain[o] # "none"}
  <2>1. CASE S = {}
    BY <2>1, FS_EmptySet
  <2>2. CASE S # {}
    <3>1. PICK o \in S : TRUE
      BY <2>2
    <3>2. S = {o}
      BY <3>1 DEF LegInv, Placed
    <3> QED
      BY <3>2, FS_Singleton
  <2> QED
    BY <2>1, <2>2
<1> QED
  BY <1>1, LegsAgree, PTL

-----------------------------------------------------------------------------
\* An order that was filled stays filled and with its leg.
LEMMA FilledStays ==
  ASSUME LegInv, StepNext, NEW o \in Orders, chain[o] = "filled"
  PROVE  chain'[o] = "filled" /\ legOf'[o] = legOf[o]
<1>0. chain \in [Orders -> ChainStates] /\ legOf \in [Orders -> 0..NumLegs] /\ legOf[o] # 0
  BY DEF LegInv, Typed, Known, OrderIsKnown
<1>1. CASE UNCHANGED <<chain, legOf>>
  BY <1>1
<1>2. ASSUME NEW l \in Legs,
             \/ HandleQuote(l) \/ QuoteEnds(l) \/ HandleOpen(l) \/ Poll(l)
             \/ HandleRefund(l) \/ ReadDelta(l) \/ HandleDeposit(l) \/ Toggle(l)
      PROVE  chain' = chain /\ legOf'[o] = legOf[o]
  <2>1. CASE HandleOpen(l)
    BY <1>0, <2>1 DEF HandleOpen, chainVars
  <2>2. CASE ~HandleOpen(l)
    BY <1>2, <2>2 DEF HandleQuote, QuoteEnds, Poll, HandleRefund, ReadDelta, HandleDeposit, Toggle, chainVars
  <2> QED
    BY <2>1, <2>2
<1>3. ASSUME NEW p \in Orders, OpenFails(p)
      PROVE  chain' = chain /\ legOf'[o] = legOf[o]
  BY <1>0, <1>3 DEF OpenFails, chainVars
<1>4. ASSUME NEW p \in Orders,
             \/ HandlerStep(p)
             \/ OpenMined(p) \/ Fill(p) \/ RefundByOther(p) \/ Expire(p)
             \/ DepositMined(p)
      PROVE  chain'[o] = "filled" /\ legOf'[o] = legOf[o]
  <2>1. CASE OpenFails(p)
    BY <1>3, <2>1
  <2>2. CASE Broadcasts(p) /\ ~OpenFails(p)
    <3>1. chain[p] = "none"
      BY <2>2 DEF Broadcasts, LegInv, Known, OrderIsKnown
    <3> QED
      BY <1>0, <2>2, <3>1 DEF Broadcasts
  <2>3. CASE RefundEnds(p)
    BY <1>0, <2>3 DEF RefundEnds
  <2>4. CASE (\/ PreRead(p) \/ Receipt(p) \/ DepositRead(p) \/ DepositSend(p) \/ DepositReceipt(p))
             /\ ~OpenFails(p)
    BY <2>4 DEF PreRead, Receipt, DepositRead, DepositSend, DepositReceipt, DepositFails, chainVars
  <2>5. CASE OpenMined(p) \/ Fill(p) \/ RefundByOther(p) \/ Expire(p) \/ DepositMined(p)
    BY <1>0, <2>5 DEF OpenMined, Fill, RefundByOther, Expire, DepositMined, ChainStep
  <2> QED
    BY <1>4, <2>1, <2>2, <2>3, <2>4, <2>5 DEF HandlerStep
<1>5. CASE NextStep \/ Skip
  BY <1>5 DEF NextStep, Skip, chainVars
<1> QED
  BY <1>2, <1>4, <1>5 DEF StepNext

\* What may make a leg fail for good while the queue stays with it.
EndsForGood(p, l) == legOf[p] = l /\ (handler[p].pc \in Opening \/ chain[p] = "escrowed")

\* A leg that fails for good did so before, or has an order that could not be
\* opened or that the service calls failed before it was filled.
LEMMA FinalFailure ==
  ASSUME LegInv, StepNext, currentIndex' = currentIndex, NEW l \in Legs,
         legs'[l].status = "failed", ~legs'[l].recoverable
  PROVE  \/ legs[l].status = "failed" /\ ~legs[l].recoverable
         \/ \E p \in Orders : EndsForGood(p, l)
<1>0. legs \in [Legs -> LegRecords] /\ legs[l] \in LegRecords
  BY DEF LegInv, Typed
<1>1. ASSUME NEW p \in Orders, NEW e, NEW s, Tell(p, e, s)
      PROVE  \/ legs'[l] = legs[l]
             \/ legOf[p] = l /\ legs'[l] = ApplyExecutionEvent(legs[l], e)
  BY <1>0, <1>1 DEF Tell, Show
<1>2. ASSUME NEW p \in Orders, NEW s, Set(p, s) PROVE legs'[l] = legs[l]
  BY <1>2 DEF Set, Show
<1>3. ASSUME NEW k \in Legs,
             \/ HandleQuote(k) \/ QuoteEnds(k) \/ HandleOpen(k)
             \/ HandleRefund(k) \/ ReadDelta(k) \/ HandleDeposit(k) \/ Toggle(k)
      PROVE  legs'[l] = legs[l]
  BY <1>3 DEF HandleQuote, QuoteEnds, HandleOpen, HandleRefund, ReadDelta, HandleDeposit, Toggle
<1>4. ASSUME NEW k \in Legs, Poll(k), legs'[l] # legs[l]
      PROVE  \E p \in Orders : EndsForGood(p, l)
  <2>1. PICK p \in Orders : p = step[k].order
    BY <1>4 DEF Poll, LegInv, Typed, Component, Orders
  <2>2. PICK st \in Reported(p) : Tell(p, Status(st), step[k])
    BY <1>4, <2>1 DEF Poll
  <2>3. legOf[p] = l /\ legs'[l] = ApplyExecutionEvent(legs[l], Status(st))
    BY <1>1, <1>4, <2>2
  <2>4. CASE chain[p] = "escrowed"
    BY <2>3, <2>4 DEF EndsForGood
  <2>5. CASE chain[p] = "filled"
    <3>1. st \in Delivered
      BY <2>2, <2>5 DEF Reported, Delivered
    <3>2. ApplyExecutionEvent(legs[l], Status(st)).status \in {"intent-delivered", "depositing", "done"}
      BY <1>0, <3>1, StatesMove
    <3> QED
      BY <2>3, <3>2
  <2>6. CASE chain[p] = "refunded"
    <3>1. st = "Refunded"
      BY <2>2, <2>6 DEF Reported
    <3> QED
      BY <1>0, <2>3, <3>1, StatesMove
  <2> QED
    BY <2>2, <2>4, <2>5, <2>6 DEF Reported
<1>5. ASSUME NEW p \in Orders, handler[p].pc \in Opening, OpenFails(p), legs'[l] # legs[l]
      PROVE  EndsForGood(p, l)
  BY <1>1, <1>5 DEF OpenFails, EndsForGood
<1>6. ASSUME NEW p \in Orders, DepositFails(p) PROVE legs'[l] = legs[l]
  <2>1. \/ legs'[l] = legs[l]
        \/ legOf[p] = l /\ legs'[l] = ApplyExecutionEvent(legs[l], Failed(TRUE))
    BY <1>1, <1>6 DEF DepositFails
  <2>2. ApplyExecutionEvent(legs[l], Failed(TRUE)) = [status |-> "failed", recoverable |-> TRUE]
    BY <1>0, EventsMove
  <2>3. [status |-> "failed", recoverable |-> TRUE].recoverable = TRUE
    OBVIOUS
  <2> QED
    BY <2>1, <2>2, <2>3, Zenon
<1>7. ASSUME NEW p \in Orders, HandlerStep(p), legs'[l] # legs[l]
      PROVE  \E q \in Orders : EndsForGood(q, l)
  <2>1. CASE OpenFails(p) /\ (PreRead(p) \/ Broadcasts(p) \/ Receipt(p))
    BY <1>5, <1>7, <2>1 DEF PreRead, Broadcasts, Receipt, Opening
  <2>2. CASE PreRead(p) /\ ~OpenFails(p)
    BY <1>2, <1>7, <2>2 DEF PreRead
  <2>3. CASE Broadcasts(p) /\ ~OpenFails(p)
    BY <1>0, <1>1, <1>7, <2>3, EventsMove DEF Broadcasts
  <2>4. CASE Receipt(p) /\ ~OpenFails(p)
    BY <1>0, <1>1, <1>7, <2>4, EventsMove DEF Receipt
  <2>5. CASE RefundEnds(p)
    BY <1>0, <1>1, <1>2, <1>7, <2>5, StatesMove DEF RefundEnds
  <2>6. CASE DepositRead(p)
    BY <1>2, <1>6, <1>7, <2>6 DEF DepositRead
  <2>7. CASE DepositSend(p)
    BY <1>0, <1>1, <1>6, <1>7, <2>7, EventsMove DEF DepositSend
  <2>8. CASE DepositReceipt(p)
    BY <1>0, <1>1, <1>6, <1>7, <2>8, EventsMove DEF DepositReceipt
  <2> QED
    BY <1>7, <2>1, <2>2, <2>3, <2>4, <2>5, <2>6, <2>7, <2>8 DEF HandlerStep
<1>8. CASE NextStep
  BY <1>8 DEF NextStep, Show
<1>9. CASE Skip
  <2>1. currentIndex \in Legs /\ legs[currentIndex].status = "failed"
    BY <1>9, QueueAssumption DEF Skip, SkipOffered, LegInv, Typed, Legs
  <2>2. CASE l # currentIndex
    BY <1>9, <2>2, <1>0 DEF Skip, Show, MadeFinal
  <2>3. CASE l = currentIndex
    BY SkipMoves, <1>9
  <2> QED
    BY <2>2, <2>3
<1>10. ASSUME NEW p \in Orders,
              OpenMined(p) \/ Fill(p) \/ RefundByOther(p) \/ Expire(p) \/ DepositMined(p)
       PROVE  legs'[l] = legs[l]
  BY <1>10 DEF OpenMined, Fill, RefundByOther, Expire, DepositMined, ChainStep
<1> QED
  BY <1>3, <1>4, <1>7, <1>8, <1>9, <1>10 DEF StepNext

\* The step of a delivered order is not taken away.
THEOREM DeliveryIsNotLost == StepSpec => DeliveredKeepsStep
<1> DEFINE Kept(l) ==
      /\ toggles[l] = 0 /\ step[l].order # 0 /\ seen[step[l].order] \in Delivered
      /\ step'[l] = Fresh
      => toggles'[l] # 0 \/ currentIndex' # currentIndex \/ legs'[l].status = "done"
<1>1. ASSUME LegInv, LegInv', [StepNext]_stepVars, NEW l \in Legs PROVE Kept(l)
  <2> SUFFICES ASSUME toggles[l] = 0, step[l].order # 0, seen[step[l].order] \in Delivered,
                      step'[l] = Fresh, toggles'[l] = 0, currentIndex' = currentIndex
               PROVE  legs'[l].status = "done"
    BY DEF Kept
  <2>1. PICK o \in Orders : o = step[l].order
    BY <1>1 DEF LegInv, Typed, Component, Orders
  <2>2. step[l] # Fresh
    BY DEF Fresh
  <2>3. legOf[o] = l /\ Mounted(l) /\ chain[o] = "filled" /\ handler[o].pc \notin Opening
    BY <1>1, <2>1, <2>2 DEF LegInv, Shapes, StepIsShaped, Known, OrderIsKnown, Delivered
  <2>4. StepNext
    BY <1>1, <2>2 DEF stepVars
  <2>5. chain'[o] = "filled" /\ legOf'[o] = l
    BY <1>1, <2>3, <2>4, FilledStays
  <2>6. currentIndex' = l
    BY <2>3 DEF Mounted, ShouldRenderFlow
  <2>7. ~Mounted(l)'
    BY <1>1, <2>5, <2>6 DEF LegInv, Placed, Fresh, Orders
  <2>8. \/ legs'[l].status \in {"done", "refunded"}
        \/ legs'[l].status = "failed" /\ ~legs'[l].recoverable
    BY <2>6, <2>7 DEF Mounted, ShouldRenderFlow
  <2>9. legs'[l].status # "refunded"
    <3>1. SUFFICES ASSUME legs'[l].status = "refunded" PROVE FALSE
      OBVIOUS
    <3>2. PICK p \in Orders : legOf'[p] = l /\ chain'[p] = "refunded"
      BY <1>1, <3>1 DEF LegInv, OutcomesAreReal
    <3>3. p = o
      BY <1>1, <2>5, <3>2 DEF LegInv, Placed
    <3> QED
      BY <2>5, <3>2, <3>3
  <2>10. ~(legs'[l].status = "failed" /\ ~legs'[l].recoverable)
    <3>1. SUFFICES ASSUME legs'[l].status = "failed", ~legs'[l].recoverable PROVE FALSE
      OBVIOUS
    <3>2. ~(legs[l].status = "failed" /\ ~legs[l].recoverable)
      BY <2>3 DEF Mounted, ShouldRenderFlow
    <3>3. PICK p \in Orders : EndsForGood(p, l)
      BY <1>1, <2>4, <3>1, <3>2, FinalFailure
    <3>4. p = o
      BY <1>1, <2>3, <3>3 DEF EndsForGood, LegInv, Placed
    <3> QED
      BY <2>3, <3>3, <3>4 DEF EndsForGood
  <2> QED
    BY <2>8, <2>9, <2>10
<1>2. LegInv /\ LegInv' /\ [StepNext]_stepVars => [\A l \in Legs : Kept(l)]_stepVars
  BY <1>1
<1> QED
  BY <1>2, LegsAgree, PTL DEF StepSpec, DeliveredKeepsStep, Kept

=============================================================================
