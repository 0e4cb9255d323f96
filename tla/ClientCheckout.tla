----------------------------- MODULE ClientCheckout ----------------------------
(***************************************************************************)
(* Buying a booking: the order claims the hold, the checkout is prepared   *)
(* and asked of ArcPay by a relay, the client pays there, and the capture  *)
(* comes back twice over: as a webhook, stored in an inbox that workers    *)
(* claim under a lease, and through a reconciliation that reads pending    *)
(* orders at ArcPay.  Both end in the same transaction, which books the    *)
(* money and confirms order and booking or changes nothing.                *)
(***************************************************************************)
EXTENDS BookingSlots, OutboxRelay

CONSTANTS
  Worker,      \* capture workers
  NoWorker,
  Client,
  ClientOf,    \* the client of each paid booking
  MaxAttempts  \* claims after which a failing webhook is quarantined

ASSUME CheckoutAssumption ==
  /\ ClientOf \in [Paid -> Client]
  /\ MaxAttempts \in Nat \ {0}
  /\ NoWorker \notin Worker

VARIABLES
  order,      \* orders.status of the one order a booking can have, or "none"
  checkout,   \* finance_client_checkout_preparations.state, or "none"; the
              \* provider operation moves with it
  prepared,   \* the prepared checkouts, oldest first
  answer,     \* per relay: what its call to ArcPay came back with, for which event,
              \* and the state of the checkout it had read before the call
  payment,    \* at ArcPay: "none", "open", "captured", "expired"
  inbox,      \* the webhook of a payment's capture
  work,       \* per worker: the claim it is working on
  tick,       \* the candidates the reconciliation has still to look at
  posted,     \* how often the sale has been posted to the wallet
  announced   \* clients with a product-purchased event in the outbox

moneyVars == <<order, payment, posted, announced>>
checkoutVars == <<checkout, prepared, answer>>
captureVars == <<inbox, work, tick>>
vars == <<slotVars, outboxVars, moneyVars, checkoutVars, captureVars>>

NoAnswer == [event |-> 0, seen |-> "none", says |-> "none"]

NoWork == [booking |-> "none", failed |-> FALSE]

Init ==
  /\ SlotsInit /\ RelayInit
  /\ order = [b \in Paid |-> "none"] /\ checkout = [b \in Paid |-> "none"]
  /\ prepared = << >> /\ answer = [w \in Relay |-> NoAnswer]
  /\ payment = [b \in Paid |-> "none"]
  /\ inbox = [b \in Paid |-> [status |-> "none", attempts |-> 0, leased |-> FALSE,
                              holder |-> NoWorker]]
  /\ work = [w \in Worker |-> NoWork] /\ tick = << >>
  /\ posted = [b \in Paid |-> 0] /\ announced = {}

(***************************************************************************)
(* The calendar.  Only ordering a hold touches more than the calendar: the *)
(* order row is inserted in the same transaction.                          *)
(***************************************************************************)
CreateOrder(b) ==
  /\ order[b] = "none" /\ ClaimReservation(b)
  /\ order' = [order EXCEPT ![b] = "pending_payment"]
  /\ UNCHANGED <<payment, posted, announced>>

Calendar ==
  /\ \/ /\ \/ \E b \in Booking, s \in Slot : AskForSlot(b, s) \/ AskToMove(b, s)
           \/ \E b \in Booking : TakeSlot(b) \/ CancelBooking(b) \/ CompleteBooking(b)
           \/ \E b \in Paid : ClaimBooking(b) \/ HoldLapses(b)
           \/ \E b \in Paid, c \in Booking : BreakDeadlock(b, c)
        /\ UNCHANGED moneyVars
     \/ \E b \in Paid : CreateOrder(b)
  /\ UNCHANGED <<outboxVars, checkoutVars, captureVars>>

(***************************************************************************)
(* prepareInTransaction: intent, open session, authorization, operation,   *)
(* preparation and the event for the relay, in one transaction.  The       *)
(* intent is unique per order, so a second preparation is a replay or a    *)
(* conflict and changes nothing.                                           *)
(***************************************************************************)
PrepareCheckout(b) ==
  /\ order[b] = "pending_payment" /\ checkout[b] = "none"
  /\ checkout' = [checkout EXCEPT ![b] = "checkout_requested"]
  /\ prepared' = Append(prepared, b)
  /\ outbox' = Append(outbox, Row(b))
  /\ UNCHANGED <<slotVars, moneyVars, captureVars, answer, held, faults>>

(***************************************************************************)
(* The relay: read the operation, ask ArcPay under the operation's         *)
(* idempotency key, write what it answered.                                *)
(***************************************************************************)
AskArcPay(w, c) ==
  LET b == outbox[c.event].about IN
  /\ Handling(w, c) /\ answer[w] = NoAnswer
  /\ \E asked \in BOOLEAN :
       /\ payment' = [payment EXCEPT ![b] = IF asked /\ @ = "none" THEN "open" ELSE @]
       /\ \E a \in {"transport"} \cup (IF asked THEN {"created"} ELSE {}) :
            answer' = [answer EXCEPT ![w] = [event |-> c.event, seen |-> checkout[b], says |-> a]]
  /\ checkout[b] \in {"checkout_requested", "provider_session_unknown"}
  /\ UNCHANGED <<slotVars, outboxVars, captureVars, checkout, prepared, order, posted, announced>>

\* Mutation of Decided: a call that went missing overrules an earlier answer.
Decided_LastAnswer(before, a) == IF a = "created" THEN "checkout_ready" ELSE "provider_session_unknown"

\* completeClientCheckoutSession and markClientCheckoutProviderTransportUnknown:
\* the state after the answer.  An answer that contradicts the state is refused,
\* and so is any answer of a relay that had already read the checkout as unknown.
Decided(before, a) ==
  IF before # "checkout_requested" THEN before
  ELSE IF a = "created" THEN "checkout_ready" ELSE "provider_session_unknown"

Refused(before, seen, a) ==
  \/ before = "checkout_ready" /\ a = "transport"
  \/ before = "provider_session_unknown" /\ (a = "created" \/ seen = before)

RecordAnswer(w, c) ==
  LET b == outbox[c.event].about IN
  /\ Handling(w, c) /\ answer[w].event = c.event
  /\ checkout' = [checkout EXCEPT ![b] = Decided(@, answer[w].says)]
  /\ HandedOver(w, c, IF Refused(checkout[b], answer[w].seen, answer[w].says) THEN "failed" ELSE "added")
  /\ answer' = [answer EXCEPT ![w] = NoAnswer]
  /\ UNCHANGED <<slotVars, moneyVars, captureVars, prepared, outbox, faults>>

\* The dispatch reader refuses an operation that has already succeeded, so an
\* event whose relay died after the answer is put back time and again.
NotExecutable(w, c) ==
  /\ Handling(w, c) /\ answer[w] = NoAnswer /\ checkout[outbox[c.event].about] = "checkout_ready"
  /\ HandedOver(w, c, "failed")
  /\ UNCHANGED <<slotVars, moneyVars, checkoutVars, captureVars, outbox, faults>>

Dispatch ==
  \/ \E w \in Relay : \E c \in held[w] :
       AskArcPay(w, c) \/ RecordAnswer(w, c) \/ NotExecutable(w, c)
  \/ /\ \/ \E w \in Relay : ClaimPending(w)
        \/ \E w \in Relay : \E c \in held[w] : Settle(w, c)
        \/ \E e \in Event : BecomesDue(e)
     /\ UNCHANGED <<slotVars, moneyVars, checkoutVars, captureVars>>
  \/ \E w \in Relay :
       /\ RelayDies(w) \/ \E c \in held[w] : HandOverFails(w, c)
       /\ answer' = [answer EXCEPT ![w] = NoAnswer]
       /\ UNCHANGED <<slotVars, moneyVars, captureVars, checkout, prepared>>

(***************************************************************************)
(* ArcPay: a client who has been given the page pays on it, or the session *)
(* ends unpaid.  The webhook of an unpaid end finds no legacy payment      *)
(* attempt and is answered 500: it changes nothing, here or ever.          *)
(***************************************************************************)
AtArcPay(b) ==
  /\ payment[b] = "open"
  /\ \/ checkout[b] = "checkout_ready" /\ payment' = [payment EXCEPT ![b] = "captured"]
     \/ payment' = [payment EXCEPT ![b] = "expired"]
  /\ UNCHANGED <<slotVars, outboxVars, checkoutVars, captureVars, order, posted, announced>>

\* The ingress stores the webhook before it answers; repeats are one row.
StoreWebhook(b) ==
  /\ payment[b] = "captured" /\ inbox[b].status = "none"
  /\ inbox' = [inbox EXCEPT ![b].status = "stored"]
  /\ UNCHANGED <<slotVars, outboxVars, moneyVars, checkoutVars, work, tick>>

(***************************************************************************)
(* The capture transaction.  It fails as a whole on a capture that has     *)
(* been applied (a replay reaches the economic effects, which accept only  *)
(* a first application) and on a client whose earlier purchase has left    *)
(* an event: (event_type, aggregate_id) is unique in the outbox, the       *)
(* aggregate is the client, and rows are never deleted.                    *)
(***************************************************************************)
\* Mutation of Applies: nothing of what makes a replay fail is checked.
Applies_AnyNumberOfTimes(b) == order[b] # "none"

Applies(b) ==
  /\ posted[b] = 0 /\ order[b] = "pending_payment" /\ booking[b] = "pending_payment"
  /\ ClientOf[b] \notin announced

\* Mutation of ApplyCapture: the booking is left to somebody else.
ApplyCapture_OrderOnly(b) ==
  /\ posted' = [posted EXCEPT ![b] = @ + 1]
  /\ order' = [order EXCEPT ![b] = "paid"]
  /\ announced' = announced \cup {ClientOf[b]}
  /\ UNCHANGED <<slotVars, payment>>

ApplyCapture(b) ==
  /\ posted' = [posted EXCEPT ![b] = @ + 1]
  /\ order' = [order EXCEPT ![b] = "paid"]
  /\ ConfirmPaid(b)
  /\ announced' = announced \cup {ClientOf[b]}
  /\ UNCHANGED <<reservation, hold, tx, payment>>

(***************************************************************************)
(* The inbox: claim under a lease and a fence, read ArcPay, commit.        *)
(***************************************************************************)
ClaimWebhook(w, b) ==
  /\ work[w] = NoWork
  /\ \/ inbox[b].status = "stored"
     \/ inbox[b].status = "processing" /\ ~inbox[b].leased
  /\ inbox' = [inbox EXCEPT ![b] =
       [status |-> "processing", leased |-> TRUE, holder |-> w,
        attempts |-> IF inbox[b].attempts < MaxAttempts THEN inbox[b].attempts + 1 ELSE MaxAttempts]]
  /\ work' = [work EXCEPT ![w] = [booking |-> b, failed |-> FALSE]]
  /\ UNCHANGED <<slotVars, outboxVars, moneyVars, checkoutVars, tick>>

\* The row is in processing under the version of this claim.
Owns(w, b) == inbox[b].status = "processing" /\ inbox[b].holder = w

\* Mutation of MayRecord: the failure of an old claim is recorded as well.
MayRecord_AnyClaim(w, b) == TRUE

MayRecord(w, b) == Owns(w, b) /\ inbox[b].leased

CommitWebhook(w, b) ==
  /\ work[w] = [booking |-> b, failed |-> FALSE]
  /\ IF Owns(w, b) /\ Applies(b)
       THEN /\ ApplyCapture(b)
            /\ inbox' = [inbox EXCEPT ![b] = [@ EXCEPT !.status = "completed", !.leased = FALSE]]
            /\ work' = [work EXCEPT ![w] = NoWork]
       ELSE /\ work' = [work EXCEPT ![w].failed = TRUE]
            /\ UNCHANGED <<slotVars, moneyVars, inbox>>
  /\ UNCHANGED <<outboxVars, checkoutVars, tick>>

ReadFails(w) ==
  /\ work[w] # NoWork /\ ~work[w].failed /\ Fault
  /\ work' = [work EXCEPT ![w].failed = TRUE]
  /\ UNCHANGED <<slotVars, moneyVars, checkoutVars, outbox, held, inbox, tick>>

RecordFailure(w, b) ==
  /\ work[w] = [booking |-> b, failed |-> TRUE]
  /\ work' = [work EXCEPT ![w] = NoWork]
  /\ inbox' = IF MayRecord(w, b)
                THEN [inbox EXCEPT ![b] = [@ EXCEPT !.leased = FALSE, !.status =
                        IF inbox[b].attempts >= MaxAttempts THEN "quarantined" ELSE "stored"]]
                ELSE inbox
  /\ UNCHANGED <<slotVars, outboxVars, moneyVars, checkoutVars, tick>>

WorkerDies(w) ==
  /\ work[w] # NoWork /\ Fault
  /\ work' = [work EXCEPT ![w] = NoWork]
  /\ UNCHANGED <<slotVars, moneyVars, checkoutVars, outbox, held, inbox, tick>>

\* A lease runs out; a fault when its holder is alive and merely slow.
LeaseExpires(b) ==
  /\ inbox[b].status = "processing" /\ inbox[b].leased
  /\ IF work[inbox[b].holder].booking = b THEN Fault ELSE UNCHANGED faults
  /\ inbox' = [inbox EXCEPT ![b].leased = FALSE]
  /\ UNCHANGED <<slotVars, moneyVars, checkoutVars, outbox, held, work, tick>>

Webhooks ==
  \/ \E b \in Paid : StoreWebhook(b) \/ LeaseExpires(b)
  \/ \E w \in Worker, b \in Paid : ClaimWebhook(w, b) \/ CommitWebhook(w, b) \/ RecordFailure(w, b)
  \/ \E w \in Worker : ReadFails(w) \/ WorkerDies(w)

(***************************************************************************)
(* The reconciliation: one read of the candidates, then one after the      *)
(* other; the first that throws ends the tick.                             *)
(***************************************************************************)
\* Mutation of Candidate: checkouts whose answer is still awaited.
Candidate_Requested(b) == order[b] = "pending_payment" /\ checkout[b] = "checkout_requested"

Candidate(b) == order[b] = "pending_payment" /\ checkout[b] = "checkout_ready"

\* One page of candidates, oldest first; its size is that of a relay's batch.
StartTick ==
  LET all == SelectSeq(prepared, Candidate) IN
  /\ tick = << >> /\ all # << >>
  /\ tick' = SubSeq(all, 1, IF Len(all) < Batch THEN Len(all) ELSE Batch)
  /\ UNCHANGED <<slotVars, outboxVars, moneyVars, checkoutVars, inbox, work>>

Reconcile ==
  /\ tick # << >>
  /\ \E b \in Paid :
       /\ b = Head(tick)
       /\ \/ /\ payment[b] # "captured"
             /\ tick' = Tail(tick)
             /\ UNCHANGED <<slotVars, moneyVars, faults>>
          \/ /\ payment[b] = "captured" /\ Applies(b)
             /\ ApplyCapture(b) /\ tick' = Tail(tick)
             /\ UNCHANGED faults
          \/ /\ \/ payment[b] = "captured" /\ ~Applies(b) /\ UNCHANGED faults
                \/ Fault
             /\ tick' = << >>
             /\ UNCHANGED <<slotVars, moneyVars>>
  /\ UNCHANGED <<checkoutVars, outbox, held, inbox, work>>

Next ==
  \/ Calendar
  \/ \E b \in Paid : PrepareCheckout(b) \/ AtArcPay(b)
  \/ Dispatch
  \/ Webhooks
  \/ StartTick \/ Reconcile

Spec == Init /\ [][Next]_vars

(***************************************************************************)
(* Fairness: the interval timers of the payment worker and ArcPay's        *)
(* redelivery.  Nobody has to book, order or pay.                          *)
(***************************************************************************)
Fairness ==
  /\ WF_vars(StartTick) /\ WF_vars(Reconcile)
  /\ \A b \in Paid : WF_vars(StoreWebhook(b)) /\ WF_vars(LeaseExpires(b))
  /\ \A w \in Worker :
       /\ WF_vars(\E b \in Paid : ClaimWebhook(w, b))
       /\ WF_vars(\E b \in Paid : CommitWebhook(w, b) \/ RecordFailure(w, b))

FairSpec == Spec /\ Fairness

-------------------------------------------------------------------------------
TypeOK ==
  /\ SlotsTypeOK /\ RelayTypeOK(Paid)
  /\ order \in [Paid -> {"none", "pending_payment", "paid"}]
  /\ checkout \in [Paid -> {"none", "checkout_requested", "checkout_ready", "provider_session_unknown"}]
  /\ answer \in [Relay -> [event : Event \cup {0}, says : {"none", "created", "transport"},
                          seen : {"none", "checkout_requested", "provider_session_unknown"}]]
  /\ payment \in [Paid -> {"none", "open", "captured", "expired"}]
  /\ inbox \in [Paid -> [status : {"none", "stored", "processing", "completed", "quarantined"},
                         attempts : 0 .. MaxAttempts, leased : BOOLEAN,
                         holder : Worker \cup {NoWorker}]]
  /\ \A w \in Worker : work[w] = NoWork \/ work[w] \in [booking : Paid, failed : BOOLEAN]
  /\ \A i \in DOMAIN prepared : prepared[i] \in Paid
  /\ posted \in [Paid -> 0 .. 1] /\ announced \subseteq Client

\* Order, booking and wallet tell one story: an order waits for payment exactly
\* while its booking does, it is paid exactly when the money has been posted,
\* once, for a payment that ArcPay has captured, and the booking it paid for is
\* confirmed or rendered.
OrderBookingAndWalletAgree ==
  \A b \in Paid :
    /\ order[b] = "pending_payment" <=> booking[b] = "pending_payment"
    /\ order[b] = "paid" <=> booking[b] \in {"confirmed", "completed"}
    /\ posted[b] = IF order[b] = "paid" THEN 1 ELSE 0
    /\ order[b] = "paid" => payment[b] = "captured"

\* A webhook is completed only together with the capture it brought, and it is
\* never opened again once it is completed or quarantined, whatever a worker
\* with an expired claim still tries (lockClaimedInbox, recordFailure).
ClosedWebhooksStayClosed ==
  [][\A b \in Paid :
       /\ inbox[b].status \in {"completed", "quarantined"} => inbox'[b] = inbox[b]
       /\ inbox'[b].status = "completed" => posted'[b] = 1]_vars

\* What a client has been told about the checkout stays so: a page that was
\* handed out is not withdrawn by a call that went missing, and one that is
\* unknown is not handed out by a late answer.
CheckoutsStayDecided ==
  [][\A b \in Paid : checkout[b] \in {"checkout_ready", "provider_session_unknown"}
                     => checkout'[b] = checkout[b]]_vars

\* A payment captured at ArcPay pays its order in the end: lost webhooks and
\* quarantined ones are made up for by the reconciliation.
CapturedOrdersArePaid == \A b \in Paid : payment[b] = "captured" ~> order[b] = "paid"
===============================================================================
